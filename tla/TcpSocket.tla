------------------------------ MODULE TcpSocket ------------------------------
(***************************************************************************)
(* TcpSocketBase (tcp-socket-base.cc): the socket of TCP and the function  *)
(* for each thing that can happen to it, as operators from a socket to the *)
(* socket after.  out collects the segments that a function sends.         *)
(*                                                                         *)
(* As the experiment uses it: SACK on, ECN off, TCP BBR, which is an       *)
(* algorithm with CongControl and paces; buffers of 2^24 bytes, so that    *)
(* windows never close; ShutdownSend and ShutdownRecv are not called.      *)
(* Segments are full; BBR's window is the constant of a connection, except *)
(* where this code overwrites it.  The duration of a timer is left out.    *)
(***************************************************************************)
EXTENDS TcpBuffers, Sequences, SequencesExt

CONSTANTS SynRetries,     \* ConnCount
          DataRetries,    \* DataRetries
          DelAckMax,      \* DelAckCount: segments that one acknowledgment may answer
          InitialCwnd     \* segments before pacing begins

ASSUME TcpSocketAssumption == {SynRetries, DataRetries, DelAckMax, InitialCwnd} \subseteq Nat \ {0}

NewSocket(state, window) ==
  [state   |-> state,
   ep      |-> TRUE,          \* m_endPoint: segments reach the socket
   next    |-> 0,             \* m_nextTxSequence
   high    |-> 0,             \* m_highTxMark
   highAck |-> 0,             \* m_highRxAckMark
   tx      |-> EmptyTx,
   rx      |-> EmptyRx,
   cong    |-> "OPEN",
   window  |-> window,        \* the window that BBR gives
   cwnd    |-> window,
   dupAcks |-> 0,
   recover |-> 0,
   recoverActive |-> FALSE,
   firstPartial  |-> TRUE,
   syns    |-> SynRetries,    \* m_synCount
   retries |-> DataRetries,   \* m_dataRetrCount
   retx    |-> {},            \* m_retxEvent: {"RTO"}, or the flags of SendEmptyPacket
   delAck  |-> 0,             \* m_delAckCount
   timers  |-> {},            \* running, among "delAck", "pacing", "timeWait" and "pending"
   closeOnEmpty |-> FALSE,
   notice  |-> "none",        \* the application is told of a "normal" close, or of an "error"
   broken  |-> FALSE,         \* an NS_ASSERT has failed
   out     |-> <<>>]

\* First s, then Op: binds the socket s so that it is computed once.
Then(s, Op(_)) == CHOOSE after \in {Op(t) : t \in {s}} : TRUE

Check(s, holds) == IF holds THEN s ELSE [s EXCEPT !.broken = TRUE]
Start(s, timer)  == [s EXCEPT !.timers = @ \cup {timer}]
Cancel(s, timer) == [s EXCEPT !.timers = @ \ {timer}]

-----------------------------------------------------------------------------
(* Closing                                                                 *)

CancelAllTimers(s) == [s EXCEPT !.retx = {}, !.timers = {}]

DeallocateEndPoint(s) == IF s.ep THEN [CancelAllTimers(s) EXCEPT !.ep = FALSE] ELSE s

NotifyNormalClose(s) == IF s.notice = "none" THEN [s EXCEPT !.notice = "normal"] ELSE s
NotifyErrorClose(s)  == [s EXCEPT !.notice = "error"]

CloseAndNotify(s) ==
  Then(s, LAMBDA t : DeallocateEndPoint([NotifyNormalClose(t) EXCEPT !.state = "CLOSED"]))

TimeWait(s) == Start([NotifyNormalClose(CancelAllTimers(s)) EXCEPT !.state = "TIME_WAIT"], "timeWait")

-----------------------------------------------------------------------------
(* Sending                                                                 *)

Transmit(s, flags, seq, len, sack) ==
  [s EXCEPT !.out = Append(@, [flags |-> flags, seq |-> seq, len |-> len,
                               ack |-> s.rx.next, sack |-> sack])]

\* An acknowledgment leaves, no need for a delayed one
ClearDelAck(s) == [Cancel(s, "delAck") EXCEPT !.delAck = 0]

\* An acknowledgment lists what arrived out of order.
AddOptionSack(s, flags) == IF "ACK" \in flags THEN s.rx.held ELSE {}

\* A SYN, FIN, ACK or RST without data.  Mutant of SendEmptyPacket: no timer
\* guards the SYN or the FIN.
SendUnguarded(s, wanted) ==
  LET flags == IF "FIN" \in wanted THEN wanted \cup {"ACK"} ELSE wanted
      past  == "FIN" \notin wanted /\ s.state \in {"FIN_WAIT_1", "LAST_ACK", "CLOSING"}
      sent  == Transmit(s, flags, IF past THEN s.next + 1 ELSE s.next, 0,
                        AddOptionSack(s, flags))
  IN  IF ~s.ep THEN s
      ELSE IF "SYN" \in flags /\ s.syns = 0
           THEN DeallocateEndPoint([s EXCEPT !.state = "CLOSED"])
      ELSE [IF "ACK" \in flags THEN ClearDelAck(sent) ELSE sent
            EXCEPT !.syns = IF "SYN" \in flags THEN @ - 1 ELSE @]

\* The timer repeats the call with the flags of the packet.
SendEmptyPacket(s, wanted) ==
  Then(SendUnguarded(s, wanted),
       LAMBDA t : IF ~t.ep \/ t.retx # {} \/ wanted \cap {"SYN", "FIN"} = {} THEN t
                  ELSE [t EXCEPT !.retx = wanted \cup (IF "FIN" \in wanted THEN {"ACK"} ELSE {})])

SendRST(s) == Then(SendEmptyPacket(s, {"RST"}), LAMBDA t : DeallocateEndPoint(NotifyErrorClose(t)))

IsPacingEnabled(s) == s.high > InitialCwnd

\* The last segment of a socket that is to close carries the FIN.
SendDataPacket(s, seq) ==
  LET last == s.closeOnEmpty /\ SizeFrom(s.tx, seq + 1) = 0
      sent == ClearDelAck(Transmit(s, IF last THEN {"ACK", "FIN"} ELSE {"ACK"}, seq, 1, {}))
  IN  [Check(sent, seq < s.tx.tail) EXCEPT
         !.tx     = CopyFromSequence(@, seq),
         !.timers = IF IsPacingEnabled(s) THEN @ \cup {"pacing"} ELSE @,
         !.state  = IF ~last THEN @
                    ELSE IF @ = "ESTABLISHED" THEN "FIN_WAIT_1"
                    ELSE IF @ = "CLOSE_WAIT" THEN "LAST_ACK" ELSE @,
         !.retx   = IF @ = {} THEN {"RTO"} ELSE @,
         !.high   = Max({@, seq + 1})]

NextSeg(s) == NextSegs(s.tx, s.cong = "RECOVERY")

AvailableWindow(s) == Max({0, s.cwnd - BytesInFlight(s.tx)})

MaySend(s) ==
  /\ s.ep /\ TxSize(s.tx) > 0
  /\ AvailableWindow(s) > 0
  /\ IsPacingEnabled(s) => "pacing" \notin s.timers
  /\ ~(s.cong = "OPEN" /\ s.state = "FIN_WAIT_1")
  /\ NextSeg(s) # {}

\* The segment that leaves the initial window behind is the first one followed by a pause.
Paced(s) == IF IsPacingEnabled(s) THEN Start(s, "pacing") ELSE s

SendNext(s) ==
  IF ~MaySend(s) THEN s
  ELSE CHOOSE after \in {Paced([SendDataPacket(s, seq) EXCEPT !.next = seq + 1]) : seq \in NextSeg(s)} : TRUE

\* The loop: no segment is sent twice by one call.
SendAll(s) ==
  LET sent[n \in 0 .. TxSize(s.tx)] == IF n = 0 THEN s ELSE Then(sent[n - 1], SendNext)
  IN  sent[TxSize(s.tx)]

SendPendingData(s) == Then(Cancel(s, "pending"), SendAll)

-----------------------------------------------------------------------------
(* Receiving data                                                          *)

SendAck(s) == Then(s, LAMBDA t : SendEmptyPacket(t, {"ACK"}))

DoClose(s) ==
  CASE s.state \in {"SYN_RCVD", "ESTABLISHED"} ->
         [SendEmptyPacket(s, {"FIN"}) EXCEPT !.state = "FIN_WAIT_1"]
    [] s.state = "CLOSE_WAIT" ->
         [SendEmptyPacket(s, {"FIN", "ACK"}) EXCEPT !.state = "LAST_ACK"]
    [] s.state \in {"SYN_SENT", "CLOSING"} -> CloseAndNotify(SendRST(s))
    [] OTHER -> s

\* Close, by the application: data that have not been sent come first.
Close(s) ==
  IF s.rx.held # {} THEN SendRST(s)
  ELSE IF SizeFrom(s.tx, s.next) > 0 THEN [s EXCEPT !.closeOnEmpty = TRUE]
  ELSE DoClose(s)

DoPeerClose(s) ==
  SendAck(NotifyNormalClose([Check(s, s.state \in {"ESTABLISHED", "SYN_RCVD", "FIN_WAIT_1", "FIN_WAIT_2"})
                             EXCEPT !.state = "CLOSE_WAIT"]))

\* An acknowledgment at once beyond a gap or when one is filled, or else for
\* every DelAckMax segments
AckData(s, filled) ==
  IF s.rx.held # {} \/ filled THEN SendAck(s)
  ELSE IF s.delAck + 1 >= DelAckMax THEN SendAck(s)
  ELSE Start([s EXCEPT !.delAck = @ + 1], "delAck")

ReceivedData(s, g) ==
  LET kept == [s EXCEPT !.rx = Add(@, g.seq)]
  IN  IF g.len = 0 \/ ~CanAdd(s.rx, g.seq) THEN SendAck(s)
      ELSE IF s.rx.next < kept.rx.next /\ Finished(kept.rx) /\ "FIN" \notin g.flags THEN DoPeerClose(kept)
      ELSE AckData(kept, kept.rx.next > s.rx.next + 1)

\* A FIN in ESTABLISHED or SYN_RCVD.  Mutant: the length of data that come
\* with the FIN is forgotten.
PeerCloseAtSeq(s, g) ==
  Then(SendAck([s EXCEPT !.rx = SetFinSequence(@, g.seq)]),
       LAMBDA read : IF Finished(read.rx) THEN DoPeerClose(read) ELSE read)

PeerClose(s, g) ==
  LET noted == [s EXCEPT !.rx = SetFinSequence(@, g.seq + g.len)]
  IN  IF g.seq < s.rx.next \/ (s.rx.fin # 0 /\ g.seq > s.rx.fin) THEN s
      ELSE Then(IF g.len > 0 THEN ReceivedData(noted, g) ELSE noted,
                LAMBDA read : IF Finished(read.rx) THEN DoPeerClose(read) ELSE read)

-----------------------------------------------------------------------------
(* Acknowledgments                                                         *)

EnterRecovery(s) ==
  LET lost == [Check(s, s.cong # "RECOVERY") EXCEPT
                 !.tx = IF IsLost(@, @.head) THEN @ ELSE MarkHeadAsLost(@),
                 !.recover = s.high, !.recoverActive = TRUE, !.cong = "RECOVERY"]
  IN  SendDataPacket(lost, s.highAck)

\* An acknowledgment with new SACK information
DupAck(s) ==
  LET more     == [s EXCEPT !.dupAcks = IF s.cong = "RECOVERY" THEN @ ELSE @ + 1]
      checked  == Check(Check(more, s.cong = "OPEN" => more.dupAcks = 1),
                        \/ s.cong = "RECOVERY"
                        \/ more.dupAcks <= RetxThresh \/ s.recoverActive)
      disorder == [checked EXCEPT !.cong = IF @ = "OPEN" THEN "DISORDER" ELSE @]
  IN  IF s.cong = "LOSS" THEN s
      ELSE IF disorder.cong = "RECOVERY" THEN disorder
      ELSE IF \/ disorder.dupAcks = RetxThresh /\ (s.recoverActive => s.highAck >= s.recover)
              \/ IsLost(s.tx, s.highAck)
           THEN EnterRecovery(disorder)
      ELSE disorder

DoRetransmit(s) ==
  LET seq == IF NextSegs(s.tx, FALSE) = {} THEN s.tx.head ELSE Min(NextSegs(s.tx, FALSE))
  IN  SendDataPacket([s EXCEPT !.next = seq], seq)

NewAck(s, ack, resetRTO) ==
  [s EXCEPT
     !.retries = DataRetries,
     !.next    = Max({@, ack}),
     !.retx    = IF TxSize(s.tx) = 0 /\ s.state \notin {"FIN_WAIT_1", "CLOSING"} THEN {}
                 ELSE IF s.state # "SYN_RCVD" /\ resetRTO THEN {"RTO"} ELSE @]

\* RFC 6675 (B): an acknowledgment of part of what recovery is to repair
PartialAck(s, ack) ==
  Then(IF IsRetransmitted(s.tx, ack + 1) THEN s ELSE DoRetransmit(s),
       LAMBDA sent : [NewAck(sent, ack, s.firstPartial) EXCEPT !.firstPartial = FALSE])

\* RFC 6675 (A): otherwise the congestion state goes back to OPEN, except that
\* DISORDER lasts while there is new SACK information.
FullAck(s, ack, isDupack) ==
  LET ended == [s EXCEPT
        !.cong          = IF @ = "DISORDER" /\ isDupack THEN @
                          ELSE IF @ = "RECOVERY" \/ @ = "LOSS" \/ @ = "DISORDER" THEN "OPEN" ELSE @,
        !.firstPartial  = IF s.cong \in {"RECOVERY", "LOSS"} THEN TRUE ELSE @,
        !.dupAcks       = IF s.cong = "RECOVERY" THEN 0 ELSE @,
        !.recoverActive = @ /\ ack < s.recover]
  IN  Then(ended, LAMBDA t : IF t.cong = "OPEN" THEN NewAck(t, ack, TRUE) ELSE t)

\* ProcessAck, for the head of the buffer before the acknowledgment
ProcessAck(s, ack, isDupack, oldHead) ==
  Then(IF isDupack THEN DupAck(s) ELSE IF ack = oldHead THEN s ELSE [s EXCEPT !.dupAcks = 0],
       LAMBDA heard :
         IF ack = oldHead THEN [heard EXCEPT !.next = IF ack > s.high THEN ack ELSE @]
         ELSE IF ack < heard.recover /\ heard.cong = "RECOVERY" THEN PartialAck(heard, ack)
         ELSE IF ack < heard.recover /\ heard.cong = "LOSS" THEN NewAck(heard, ack, TRUE)
         ELSE FullAck(heard, ack, isDupack))

\* What the options of a segment say has arrived
ReadOptions(s, g) == [s EXCEPT !.tx = Update(@, g.sack)]

ReceivedAck(s, g) ==
  LET Store(t)      == IF g.len > 0 THEN ReceivedData(t, g) ELSE t
      Acknowledge(t) == ProcessAck([t EXCEPT !.tx = DiscardUpTo(@, g.ack)], g.ack,
                                   t.tx.sacked # s.tx.sacked, s.tx.head)
      CongControl(t) == [t EXCEPT !.cwnd = t.window]
      Answer(t)      == SendPendingData(Then(CongControl(Acknowledge(t)), Store))
      board          == ReadOptions(s, g)
  IN  Then(Check(board, s.tx.head \notin board.tx.sacked),
           LAMBDA t : IF g.ack < s.tx.head THEN Store(t) ELSE Answer(t))

-----------------------------------------------------------------------------
(* The state machine: a segment arrives                                    *)

FinFlags == {{"FIN"}, {"FIN", "ACK"}}
SynFlags == {{"SYN"}, {"SYN", "ACK"}}

Established(s, ack) ==
  [s EXCEPT !.state = "ESTABLISHED", !.cong = "OPEN", !.retx = {}, !.next = @ + 1,
            !.high = s.next + 1, !.tx = SetHead(@, s.next + 1), !.delAck = DelAckMax]

ProcessEstablished(s, g) ==
  CASE g.flags = {"ACK"} -> IF g.ack < s.tx.head THEN s
                            ELSE IF g.ack > s.high THEN SendAck(s)
                            ELSE ReceivedAck(s, g)
    [] g.flags \in SynFlags -> s
    [] g.flags \in FinFlags -> PeerClose(s, g)
    [] OTHER -> CloseAndNotify(s)

CompleteFork(s, g) ==
  SendEmptyPacket([s EXCEPT !.state = "SYN_RCVD", !.rx.next = g.seq + 1], {"SYN", "ACK"})

\* The listener forks a socket, which answers.
ProcessListen(s, g) == IF g.flags # {"SYN"} THEN s ELSE CompleteFork(s, g)

ProcessSynSent(s, g) ==
  CASE "ACK" \in g.flags /\ "SYN" \notin g.flags -> s
    [] g.flags = {"SYN"} ->
         SendEmptyPacket([s EXCEPT !.state = "SYN_RCVD", !.syns = SynRetries, !.rx.next = g.seq + 1],
                         {"SYN", "ACK"})
    [] g.flags = {"SYN", "ACK"} /\ g.ack = s.next + 1 ->
         [SendPendingData(SendAck([Established(s, g.ack) EXCEPT !.rx.next = g.seq + 1]))
          EXCEPT !.delAck = DelAckMax]
    [] OTHER -> CloseAndNotify(IF g.flags = {"RST"} THEN s ELSE SendRST(s))

ProcessSynRcvd(s, g) ==
  CASE g.flags = {"ACK"} /\ g.ack = s.next + 1 -> ReceivedAck(Established(s, g.ack), g)
    [] g.flags = {"SYN"} -> SendEmptyPacket([s EXCEPT !.rx.next = g.seq + 1], {"SYN", "ACK"})
    [] g.flags = {"FIN", "ACK"} ->
         IF g.seq # s.rx.next THEN s
         ELSE PeerClose([s EXCEPT !.retx = {}, !.next = @ + 1, !.high = s.next + 1,
                                  !.tx = SetHead(@, s.next + 1)], g)
    [] OTHER -> CloseAndNotify(IF g.flags = {"RST"} THEN s ELSE SendRST(s))

FinAcked(s, g) == TxSize(s.tx) = 0 /\ g.ack = s.high + 1

\* The peer has sent its FIN in order too.
ProcessPeerFin(s, g) ==
  IF s.state \notin {"FIN_WAIT_1", "FIN_WAIT_2"} \/ ~Finished(s.rx) THEN s
  ELSE IF s.state = "FIN_WAIT_2" \/ FinAcked(s, g) THEN SendAck(TimeWait(s))
  ELSE SendAck([s EXCEPT !.state = "CLOSING"])

ProcessWait(s, g) ==
  CASE g.flags = {"ACK"} ->
         Then(ReceivedAck(s, g),
              LAMBDA read : ProcessPeerFin(IF read.state = "FIN_WAIT_1" /\ FinAcked(read, g)
                                           THEN [read EXCEPT !.state = "FIN_WAIT_2"] ELSE read, g))
    [] g.flags \in FinFlags ->
         Then(IF "ACK" \in g.flags THEN ReceivedAck(s, g) ELSE s,
              LAMBDA read : ProcessPeerFin([read EXCEPT !.rx = SetFinSequence(@, g.seq)], g))
    [] g.flags \in SynFlags -> s
    [] OTHER -> CloseAndNotify(s)

ProcessClosing(s, g) ==
  CASE g.flags = {"ACK"}      -> IF g.seq = s.rx.next THEN TimeWait(s) ELSE s
    [] g.flags \in FinFlags   -> CloseAndNotify(SendAck(s))
    [] g.flags = {"RST"}      -> CloseAndNotify(s)
    [] OTHER                  -> CloseAndNotify(SendRST(s))

ProcessLastAck(s, g) ==
  CASE g.flags = {"ACK"}  -> IF g.seq = s.rx.next THEN CloseAndNotify(s) ELSE s
    [] g.flags = {"FIN"}  -> SendEmptyPacket(s, {"FIN", "ACK"})
    [] g.flags \in {{"FIN", "ACK"}, {"RST"}} -> CloseAndNotify(s)
    [] OTHER              -> CloseAndNotify(SendRST(s))

OutOfRange(s, g) ==
  IF s.state \in {"LISTEN", "SYN_SENT", "SYN_RCVD"} THEN FALSE
  ELSE IF s.state \in {"LAST_ACK", "CLOSING", "CLOSE_WAIT"} THEN g.seq # s.rx.next
  ELSE g.seq + g.len < s.rx.next \/ (s.rx.fin # 0 /\ g.seq >= s.rx.fin)

\* The window that a SYN or an acknowledgment brings
NoteWindow(s, g) ==
  IF "SYN" \in g.flags
  THEN [s EXCEPT !.cwnd = InitialCwnd, !.highAck = IF "ACK" \in g.flags THEN g.ack ELSE @]
  ELSE IF "ACK" \in g.flags /\ s.state \notin {"LISTEN", "SYN_SENT", "SYN_RCVD"}
       THEN [s EXCEPT !.highAck = Max({@, g.ack})]
  ELSE s

DoForwardUp(s, g) ==
  CASE s.state = "ESTABLISHED" -> ProcessEstablished(s, g)
    [] s.state = "LISTEN"      -> ProcessListen(s, g)
    [] s.state = "SYN_SENT"    -> ProcessSynSent(s, g)
    [] s.state = "SYN_RCVD"    -> ProcessSynRcvd(s, g)
    [] s.state \in {"FIN_WAIT_1", "FIN_WAIT_2", "CLOSE_WAIT"} -> ProcessWait(s, g)
    [] s.state = "CLOSING"     -> ProcessClosing(s, g)
    [] s.state = "LAST_ACK"    -> ProcessLastAck(s, g)
    [] OTHER                   -> s      \* TIME_WAIT

ForwardUp(s, g) ==
  IF g.len > 0 /\ OutOfRange(s, g) THEN SendAck(s)
  ELSE Then(NoteWindow(s, g), LAMBDA t : DoForwardUp(t, g))

-----------------------------------------------------------------------------
(* Timers.  The event that runs is no longer scheduled.                    *)

\* Mutant: the segments sent are not taken for lost.
ReTxNothing(s) ==
  IF TxSize(s.tx) = 0 THEN s
  ELSE SendPendingData([s EXCEPT !.dupAcks = 0, !.cong = "LOSS", !.cwnd = 1])

\* Data are sent again from the head, one segment at first; after DataRetries
\* times in vain the connection is given up.
ReTxTimeout(s) ==
  LET lost == [s EXCEPT !.retries = @ - 1, !.dupAcks = 0, !.tx = SetSentListLost(@),
                        !.recover = s.high, !.recoverActive = TRUE, !.cong = "LOSS",
                        !.cwnd = 1, !.timers = @ \ {"pacing"}]
      sent == SendPendingData(Check(lost, BytesInFlight(lost.tx) = 0))
  IN  IF s.state \in {"CLOSED", "TIME_WAIT"} THEN s
      ELSE IF TxSize(s.tx) = 0
           THEN IF s.state \in {"FIN_WAIT_1", "CLOSING"} THEN SendEmptyPacket(s, {"FIN"}) ELSE s
      ELSE IF s.retries = 0 THEN DeallocateEndPoint(NotifyErrorClose(s))
      ELSE Check(sent, BytesInFlight(sent.tx) <= 1)

RetxEvent(s) ==
  LET fired == [s EXCEPT !.retx = {}]
  IN  IF s.retx = {"RTO"} THEN ReTxTimeout(fired) ELSE SendEmptyPacket(fired, s.retx)

DelAckTimeout(s) == SendAck([Cancel(s, "delAck") EXCEPT !.delAck = 0])

NotifyPacingPerformed(s) == SendPendingData(Cancel(s, "pacing"))

TimeWaitOver(s) == CloseAndNotify(Cancel(s, "timeWait"))

-----------------------------------------------------------------------------
(* Calls of the application                                                *)

Connect(s) == [SendEmptyPacket([s EXCEPT !.syns = SynRetries, !.retries = DataRetries], {"SYN"})
               EXCEPT !.state = "SYN_SENT"]

\* One segment more; whether it can be sent is tried a little later.
Send(s) ==
  LET added == [s EXCEPT !.tx.tail = @ + 1]
  IN  IF AvailableWindow(s) > 0 THEN Start(added, "pending") ELSE added
=============================================================================
