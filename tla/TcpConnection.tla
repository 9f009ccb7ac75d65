---------------------------- MODULE TcpConnection ----------------------------
(***************************************************************************)
(* A TCP connection of the experiment: BulkSendApplication at a, the one   *)
(* that connects and writes, and PacketSink at b, which reads.  Below them *)
(* is a network (GMA and its links) that may lose, reorder and duplicate   *)
(* segments: to[x] are the segments on their way to x.                     *)
(*                                                                         *)
(* Timeouts are far longer than the way of a segment: they come when       *)
(* nothing else is going on, or else they are counted as spurious.         *)
(***************************************************************************)
EXTENDS TcpSocket

CONSTANTS Data,          \* segments that a has at most
          Windows,       \* windows that BBR may give
          SinkFirst,     \* may b close before a has?
          Faults,        \* among "loss", "reorder", "duplicate" and "spurious"
          MaxFaults      \* bound on their number

ASSUME TcpConnectionAssumption ==
  /\ Data \in Nat \ {0} /\ Windows \subseteq Nat \ {0} /\ SinkFirst \in BOOLEAN
  /\ Faults \subseteq {"loss", "reorder", "duplicate", "spurious"} /\ MaxFaults \in Nat

VARIABLES sock,      \* the sockets
          to,
          written,   \* segments that the application of a has written
          asked,     \* applications that have called Close
          faults     \* their number so far

vars == <<sock, to, written, asked, faults>>

Ends    == {"a", "b"}
Peer(x) == IF x = "a" THEN "b" ELSE "a"

Init ==
  /\ \E w \in Windows : sock = [a |-> NewSocket("CLOSED", w), b |-> NewSocket("LISTEN", w)]
  /\ to = [x \in Ends |-> <<>>]
  /\ written = 0
  /\ asked = {}
  /\ faults = 0

Fault(kind) == kind \in Faults /\ faults < MaxFaults /\ faults' = faults + 1

\* Socket x becomes s, and what it sends is on its way; left are the segments
\* that have not arrived.
Becomes(x, s, left) ==
  \E after \in {s} : /\ sock' = [sock EXCEPT ![x] = [after EXCEPT !.out = <<>>]]
                     /\ to' = [left EXCEPT ![Peer(x)] = @ \o after.out]

-----------------------------------------------------------------------------
(* Applications                                                            *)

\* The connection has just succeeded: the application writes at once.
Connected == sock.a.state = "ESTABLISHED" /\ written = 0

AppConnect ==
  /\ sock.a.state = "CLOSED" /\ sock.a.ep /\ "a" \notin asked
  /\ Becomes("a", Connect(sock.a), to)
  /\ UNCHANGED <<written, asked, faults>>

AppSend ==
  /\ sock.a.state \in {"ESTABLISHED", "CLOSE_WAIT"} /\ "a" \notin asked
  /\ written < Data
  /\ written' = written + 1
  /\ Becomes("a", Send(sock.a), to)
  /\ UNCHANGED <<asked, faults>>

\* StopApplication.  A sink that is still listening has no connection to close.
AppClose(x) ==
  /\ x \notin asked
  /\ x = "a" => sock.a.state # "CLOSED" /\ ~Connected
  /\ x = "b" => sock.b.state # "LISTEN" /\ (SinkFirst \/ sock.b.state = "CLOSE_WAIT")
  /\ asked' = asked \cup {x}
  /\ Becomes(x, Close(sock[x]), to)
  /\ UNCHANGED <<written, faults>>

-----------------------------------------------------------------------------
(* Timers                                                                  *)

Quiet == ~Connected /\ \A x \in Ends : to[x] = <<>> /\ sock[x].timers \subseteq {"timeWait"}

\* A timeout while an answer is under way is counted.
Late == IF Quiet THEN UNCHANGED faults ELSE Fault("spurious")

\* A SYN is sent again only after seconds, far later than anything else.
RetxExpires(x) ==
  /\ sock[x].retx # {}
  /\ "SYN" \in sock[x].retx => sock[Peer(x)].retx = {} \/ "SYN" \in sock[Peer(x)].retx
  /\ Late
  /\ Becomes(x, RetxEvent(sock[x]), to)
  /\ UNCHANGED <<written, asked>>

TimerExpires(x, timer, s) ==
  /\ timer \in sock[x].timers
  /\ timer = "timeWait" => Quiet
  /\ Becomes(x, s, to)
  /\ UNCHANGED <<written, asked, faults>>

DelAckExpires(x)   == TimerExpires(x, "delAck", DelAckTimeout(sock[x]))
PacingExpires(x)   == TimerExpires(x, "pacing", NotifyPacingPerformed(sock[x]))
PendingExpires(x)  == TimerExpires(x, "pending", SendPendingData(sock[x]))
TimeWaitExpires(x) == TimerExpires(x, "timeWait", TimeWaitOver(sock[x]))

-----------------------------------------------------------------------------
(* The network                                                             *)

\* Without a socket, the node of a resets the connection (TcpL4Protocol); the
\* listener of b ignores what is not a SYN.  That a SYN that comes so late
\* would open another connection is left out.
NoEndPoint(x, g) ==
  IF x = "b" \/ "RST" \in g.flags THEN sock[x]
  ELSE Transmit(sock[x], {"RST"}, g.ack, 0, {})

Arrives(x, i) ==
  Becomes(x, IF sock[x].ep THEN ForwardUp(sock[x], to[x][i]) ELSE NoEndPoint(x, to[x][i]),
          [to EXCEPT ![x] = RemoveAt(@, i)])

Receive(x) ==
  /\ to[x] # <<>>
  /\ Arrives(x, 1)
  /\ UNCHANGED <<written, asked, faults>>

Reorder(x) ==
  /\ Len(to[x]) > 1
  /\ Fault("reorder")
  /\ Arrives(x, 2)
  /\ UNCHANGED <<written, asked>>

Lose(x) ==
  /\ to[x] # <<>>
  /\ Fault("loss")
  /\ to' = [to EXCEPT ![x] = Tail(@)]
  /\ UNCHANGED <<sock, written, asked>>

\* The copy comes last.
Duplicate(x) ==
  /\ to[x] # <<>>
  /\ Fault("duplicate")
  /\ to' = [to EXCEPT ![x] = Append(@, Head(@))]
  /\ UNCHANGED <<sock, written, asked>>

Next ==
  \/ AppConnect \/ AppSend
  \/ \E x \in Ends :
       \/ AppClose(x)
       \/ RetxExpires(x) \/ DelAckExpires(x) \/ PacingExpires(x) \/ PendingExpires(x)
       \/ TimeWaitExpires(x)
       \/ Receive(x) \/ Reorder(x) \/ Lose(x) \/ Duplicate(x)

Spec == Init /\ [][Next]_vars

\* What an end or the network does next, when no fault comes.
Proceeds ==
  \/ AppConnect \/ AppSend
  \/ \E x \in Ends :
       \/ AppClose(x) \/ Receive(x)
       \/ UNCHANGED faults /\ RetxExpires(x)
       \/ DelAckExpires(x) \/ PacingExpires(x) \/ PendingExpires(x)

\* The simulator runs every event that is scheduled and what a link does not
\* lose it delivers.  However often something is sent again meanwhile,
\* applications are stopped and the four minutes of TIME_WAIT pass.
FairSpec ==
  /\ Spec
  /\ WF_vars(Proceeds)
  /\ \A x \in Ends : WF_vars(AppClose(x)) /\ SF_vars(TimeWaitExpires(x))

-----------------------------------------------------------------------------
(* Properties                                                              *)

Flags == SUBSET {"SYN", "ACK", "FIN", "RST"}
States == {"CLOSED", "LISTEN", "SYN_SENT", "SYN_RCVD", "ESTABLISHED", "CLOSE_WAIT", "LAST_ACK",
           "FIN_WAIT_1", "FIN_WAIT_2", "CLOSING", "TIME_WAIT"}
Seqs == 0 .. Data + 3

\* Types: also, the scoreboard of the transmission buffer (TcpTxBuffer) speaks
\* of segments that have been sent, and none is both SACKed and lost.
TypeOK ==
  /\ \A x \in Ends :
       LET s == sock[x]
       IN  /\ s.state \in States /\ s.cong \in {"OPEN", "DISORDER", "RECOVERY", "LOSS"}
           /\ {s.next, s.high, s.highAck, s.recover} \subseteq Seqs
           /\ {s.tx.head, s.tx.end, s.tx.tail, s.rx.next, s.rx.fin, s.rx.read} \subseteq Seqs
           /\ s.tx.sacked \cup s.tx.lost \cup s.tx.retrans \subseteq Sent(s.tx)
           /\ s.tx.sacked \cap s.tx.lost = {}
           /\ s.syns \in 0 .. SynRetries /\ s.retries \in 0 .. DataRetries
           /\ s.retx \in Flags \cup {{"RTO"}}
           /\ s.timers \subseteq {"delAck", "pacing", "timeWait", "pending"}
           /\ s.notice \in {"none", "normal", "error"}
           /\ s.out = <<>>
           /\ \A i \in 1 .. Len(to[x]) : to[x][i].flags \in Flags /\ to[x][i].seq \in Seqs
  /\ written \in 0 .. Data /\ asked \subseteq Ends /\ faults \in 0 .. MaxFaults

\* The assertions of the code hold (NS_ASSERT in EnterRecovery, DupAck,
\* ReTxTimeout, DoRetransmit, DoPeerClose and TcpTxBuffer::Update), and so do
\* those on the scoreboard and the ranges that TypeOK states.
AssertionsHold == TypeOK /\ \A x \in Ends : ~sock[x].broken

\* What a takes off its buffer, b's application has read (DiscardUpTo); what it
\* takes off its list of losses, b has at least (Update).
AckedIsReceived ==
  LET a == sock.a  b == sock.b
  IN  /\ \/ a.tx.head <= b.rx.read + 1
         \/ a.tx.head = written + 2 /\ b.rx.read = written   \* the FIN too
      /\ a.tx.sacked \subseteq b.rx.held \cup 1 .. b.rx.read

\* The abstract specification: data reach the sink in order and without a gap,
\* and it is told of the end (PeerClose, DoPeerClose) after all of them.
Stream == INSTANCE ByteStream WITH
            read   <- sock.b.rx.read,
            closed <- "a" \in asked,
            ended  <- Finished(sock.b.rx)

IsByteStream == Stream!Spec

\* Close was called while segments were sent again, and SendPendingData does
\* not send the FIN when the last of them is sent: it is forgotten.
Forgotten == sock.a.state = "ESTABLISHED" /\ sock.a.closeOnEmpty /\ TxSize(sock.a.tx) = 0

\* Once both applications have stopped, both sockets are released.  After two
\* faults they may not be: a socket that gives up does not tell its peer, and
\* nothing ends FIN_WAIT_2 when the FIN of the peer is lost.
Released ==
  <>[](\/ Forgotten \/ faults > 1
       \/ \A x \in Ends : ~sock[x].ep \/ sock[x].state = "LISTEN")

\* The application was told that a segment was sent too often.
GaveUp == \E x \in Ends : sock[x].notice = "error"

\* What is written is read: lost segments are sent again, by the scoreboard or
\* by the timer, until they arrive (SendPendingData, ReTxTimeout) or the
\* connection is given up.
Delivered == \A n \in 1 .. Data : written = n ~> GaveUp \/ sock.b.rx.read >= n
=============================================================================
