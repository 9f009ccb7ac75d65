------------------------------- MODULE BbrPath -------------------------------
(***************************************************************************)
(* A sender with BBR over a path with a bottleneck: what TcpSocketBase     *)
(* does of an acknowledgment, a pacing timer and a timeout as far as       *)
(* congestion control goes (the rest is in TcpSocket), with the delivery   *)
(* rate (TcpRate) and BBR (TcpBbr) it calls.  DISORDER counts as OPEN:     *)
(* BBR makes no difference between them.                                   *)
(*                                                                         *)
(* The path takes Service units of time for a segment, and Rtt if it is    *)
(* empty.  It keeps the order, and it may drop segments; each one that     *)
(* arrives is acknowledged.  The path and receiver are not NetworkGym's    *)
(* code.  The sender has Data segments at hand from the beginning.         *)
(***************************************************************************)
EXTENDS TcpBbr, TcpBuffers, Sequences, SequencesExt

CONSTANTS Data, Service, Rtt,
          Lucks,                    \* how far EnterProbeBW goes back at random
          Fragile, MaxLosses        \* bound which segments are lost, and how many

ASSUME BbrPathAssumption ==
  /\ {Data, Service, Rtt} \subseteq Nat \ {0} /\ MaxLosses \in Nat
  /\ Lucks \subseteq 0 .. 5 /\ Fragile \subseteq 1 .. Data

VARIABLES sender,
          net,      \* segments under way: number, time of sending and of the acknowledgment
          rx,       \* the receiver
          losses,
          seen      \* of the past: when the last round began; since when PROBE_RTT
                    \* lasts, and the window before it

vars == <<sender, net, rx, losses, seen>>

\* Segments are numbered from 1: end has passed the window after InitialCwnd of them.
IsPacingEnabled(s) == s.tx.end > InitialCwnd

\* The pacing timer is started, if pacing is on and it is not running.
Paced(s) ==
  IF IsPacingEnabled(s) /\ s.pace = 0
  THEN [s EXCEPT !.pace = s.now + AtLeast(Scale \div s.pacingRate, 1)] ELSE s

NoteFlight(s) == [s EXCEPT !.inflight = BytesInFlight(s.tx)]

\* SendDataPacket
SendDataPacket(s, seq) ==
  LET flight == BytesInFlight(s.tx)
      r      == AtSend(s.r, flight = 0, s.now)
  IN  [s EXCEPT !.inflight = flight,
                !.r        = r,
                !.info     = (seq :> SentInfo(r)) @@ @,
                !.lastSent = (seq :> s.now) @@ @,
                !.history  = @ \cup {seq},
                !.resent   = IF seq < s.tx.end THEN @ \cup {seq} ELSE @,
                !.tx       = CopyFromSequence(@, seq),
                !.pace     = Paced(s).pace,
                !.out      = Append(@, seq)]

MaySend(s) ==
  /\ BytesInFlight(s.tx) < s.cwnd
  /\ IsPacingEnabled(s) => s.pace = 0
  /\ NextSegs(s.tx, s.cong = "RECOVERY") # {}

SendNext(s) ==
  LET noted == NoteFlight(s)
      woken == IF noted.inflight = 0 THEN TxStart(noted) ELSE noted
  IN  IF ~MaySend(s) THEN noted
      ELSE Paced(SendDataPacket(woken, Min(NextSegs(s.tx, s.cong = "RECOVERY"))))

\* Pacing, once it is on, ends the loop after a segment; before, no more than
\* InitialCwnd segments have been sent.
SendPendingData(s) ==
  FoldLeft(LAMBDA t, i : Then(t, SendNext), s, [i \in 1 .. 2 * InitialCwnd |-> i])

-----------------------------------------------------------------------------
(* An acknowledgment                                                       *)

\* EstimateRtt: the oldest segment without an acknowledgment is timed unless
\* it was sent again.
EstimateRtt(s, e, ack) ==
  LET measured == s.history # {} /\ Min(s.history) \notin s.resent /\ ack > Min(s.history)
      rtt      == s.now - e.sentAt
      left     == [s EXCEPT !.history = {n \in @ : n >= ack}, !.resent = {n \in @ : n >= ack}]
  IN  IF measured THEN [left EXCEPT !.lastRtt = rtt, !.minRtt = AtMost(@, rtt)] ELSE left

\* What an acknowledgment newly covers is delivered, in order.
Deliver(s, seqs) ==
  FoldLeft(LAMBDA t, seq : [t EXCEPT !.r = SkbDelivered(@, t.info[seq], t.lastSent[seq], t.now),
                                     !.info[seq].deliveredTime = Never],
           s, SelectSeq([i \in 1 .. TxSize(s.tx) |-> s.tx.head + i - 1], LAMBDA seq : seq \in seqs))

\* ReadOptions and DiscardUpTo
ReadAck(s, ack, sack) ==
  LET sacked == Deliver(s, (sack \cap Sent(s.tx)) \ s.tx.sacked)
      acked  == Deliver(sacked, s.tx.head .. ack - 1)
  IN  NoteFlight([acked EXCEPT !.tx        = DiscardUpTo(Update(@, sack), ack),
                               !.lastAcked = acked.r.conn.delivered - s.r.conn.delivered])

EnterRecovery(s) ==
  LET lost     == [s EXCEPT !.tx = IF IsLost(@, @.head) THEN @ ELSE MarkHeadAsLost(@),
                            !.recover = s.tx.end]
      recovery == NoteFlight([SetRecovery(lost) EXCEPT !.cong = "RECOVERY"])
  IN  SendDataPacket(GetSsThresh(recovery), s.tx.head)

PartialAck(s, ack) ==
  IF IsRetransmitted(s.tx, ack + 1) THEN s
  ELSE SendDataPacket(s, IF NextSegs(s.tx, FALSE) = {} THEN s.tx.head ELSE Min(NextSegs(s.tx, FALSE)))

\* The end of recovery or loss.  The window of recovery's end is ssThresh.
FullAck(s) ==
  CASE s.cong = "RECOVERY" -> [CompleteCwr(s) EXCEPT !.cong = "OPEN", !.cwnd = s.ssThresh]
    [] s.cong = "LOSS"     -> [s EXCEPT !.cong = "OPEN"]
    [] OTHER               -> s

ProcessAck(s, ack, oldHead, isDupack) ==
  Then(IF isDupack /\ s.cong = "OPEN" /\ IsLost(s.tx, s.tx.head) THEN EnterRecovery(s) ELSE s,
       LAMBDA t : IF ack = oldHead \/ (ack < t.recover /\ t.cong = "LOSS") THEN t
                  ELSE IF ack < t.recover /\ t.cong = "RECOVERY" THEN PartialAck(t, ack)
                  ELSE FullAck(t))

Difference(a, b) == IF a > b THEN a - b ELSE b - a

\* ReceivedAck, from the segment e that the receiver answers
ReceivedAck(s, e, ack, sack) ==
  LET Sample(t) == [t EXCEPT !.r = GenerateSample(@, t.lastAcked, t.b.appLimited,
                                                  Difference(Cardinality(t.tx.lost), Cardinality(s.tx.lost)),
                                                  s.inflight, t.minRtt)]
      isDupack  == (sack \cap Sent(s.tx)) \ s.tx.sacked # {}
  IN  Then(Then(Then(EstimateRtt(s, e, ack), LAMBDA t : ReadAck(t, ack, sack)),
                LAMBDA t : ProcessAck(t, ack, s.tx.head, isDupack)),
           LAMBDA t : SendPendingData(Then(Sample(t), CongControl)))

\* ReTxTimeout
ReTxTimeout(s) ==
  LET lost == GetSsThresh([s EXCEPT !.tx = SetSentListLost(@), !.recover = s.tx.end,
                                    !.history = {}, !.resent = {}])
  IN  SendPendingData([SetLoss(lost) EXCEPT !.cong = "LOSS", !.cwnd = 1, !.pace = 0])

-----------------------------------------------------------------------------
(* The sender and its path                                                 *)

\* Established, by a handshake that took Rtt
NewSender ==
  InitBbr([now |-> 1, r |-> NewRate, b |-> NewBbr, luck |-> 0,
           cong |-> "OPEN", cwnd |-> InitialCwnd, ssThresh |-> InitialSsThresh, pacingRate |-> 0,
           inflight |-> 0, lastRtt |-> Rtt, minRtt |-> Rtt, lastAcked |-> 0,
           tx |-> [SetHead(EmptyTx, 1) EXCEPT !.tail = Data + 1],
           info |-> <<>>, lastSent |-> <<>>,   \* of segments not acknowledged
           history |-> {}, resent |-> {},      \* m_history, and those in it sent again
           recover |-> 0, pace |-> 0,          \* when the pacing timer expires
           out |-> <<>>])

\* The segments sent leave, one of them perhaps not to arrive.
Due(q, now) == IF q = <<>> THEN now + Rtt ELSE AtLeast(Last(q).due + Service, now + Rtt)
Leave(q, s, dropped) ==
  FoldLeft(LAMBDA p, i : IF i = dropped THEN p
                         ELSE Append(p, [seq |-> s.out[i], sentAt |-> s.now, due |-> Due(p, s.now)]),
           q, [i \in 1 .. Len(s.out) |-> i])

Forget(s) ==
  [s EXCEPT !.out = <<>>, !.luck = 0,
            !.info     = [n \in Sent(s.tx) |-> s.info[n]],
            !.lastSent = [n \in Sent(s.tx) |-> s.lastSent[n]]]

See(s) ==
  LET probes == s.b.mode = "PROBE_RTT"
  IN  [roundAt |-> IF s.b.roundCount > sender.b.roundCount THEN s.now ELSE seen.roundAt,
       since   |-> IF ~probes THEN 0 ELSE IF seen.since = 0 THEN s.now ELSE seen.since,
       cwnd    |-> IF probes /\ seen.since # 0 THEN seen.cwnd ELSE sender.cwnd]

Becomes(s, left) ==
  \E after \in {s} :
    \E dropped \in 0 .. Len(after.out) :
      /\ dropped # 0 => losses < MaxLosses /\ after.out[dropped] \in Fragile
      /\ losses' = IF dropped # 0 THEN losses + 1 ELSE losses
      /\ net' = Leave(left, after, dropped)
      /\ sender' = Forget(after)
      /\ seen' = See(after)

Init ==
  /\ sender = Forget(SendPendingData(NewSender))
  /\ net = Leave(<<>>, SendPendingData(NewSender), 0)
  /\ rx = [EmptyRx EXCEPT !.next = 1]
  /\ losses = 0
  /\ seen = [roundAt |-> 1, since |-> 0, cwnd |-> InitialCwnd]

AckArrives ==
  /\ net # <<>> /\ Head(net).due = sender.now
  /\ rx' = IF CanAdd(rx, Head(net).seq) THEN Add(rx, Head(net).seq) ELSE rx
  /\ \E luck \in Lucks :
       Becomes(ReceivedAck([sender EXCEPT !.luck = luck], Head(net), rx'.next, rx'.held), Tail(net))

PacingExpires ==
  /\ sender.pace = sender.now
  /\ \E luck \in Lucks : Becomes(SendPendingData([sender EXCEPT !.luck = luck, !.pace = 0]), net)
  /\ UNCHANGED rx

\* The timeout, of a second at least, comes when nothing else is under way.
Timeout ==
  /\ Sent(sender.tx) # {} /\ net = <<>> /\ sender.pace = 0
  /\ \E luck \in Lucks : Becomes(ReTxTimeout([sender EXCEPT !.luck = luck]), net)
  /\ UNCHANGED rx

\* Time passes until the next event.
Events == {e.due : e \in Range(net)} \cup ({sender.pace} \ {0})

Tick ==
  /\ Events # {} /\ Min(Events) > sender.now
  /\ sender' = [sender EXCEPT !.now = Min(Events)]
  /\ UNCHANGED <<net, rx, losses, seen>>

Next == AckArrives \/ PacingExpires \/ Timeout \/ Tick

Spec == Init /\ [][Next]_vars

-----------------------------------------------------------------------------
(* Properties                                                              *)

\* Types; also, recovery and loss last only while something is missing.
TypeOK ==
  LET s == sender  b == sender.b
  IN  /\ s.cong \in {"OPEN", "RECOVERY", "LOSS"}
      /\ s.cwnd \in 1 .. Wrap - 1 /\ s.ssThresh \in 1 .. Wrap - 1 /\ s.pacingRate \in Nat \ {0}
      /\ b.mode \in {"STARTUP", "DRAIN", "PROBE_BW", "PROBE_RTT"}
      /\ b.cycleIndex \in 0 .. 7 /\ b.fullBwCount \in 0 .. 3 /\ b.filter # {}
      /\ b.nextRound <= s.r.conn.delivered
      /\ DOMAIN s.info = Sent(s.tx) /\ s.tx.sacked \cap s.tx.lost = {}
      /\ s.cong # "OPEN" => s.tx.head < s.recover

\* A segment counts as delivered once, although it is delivered both when it
\* is SACKed and when the cumulative acknowledgment passes it (SkbDelivered);
\* and a segment that was SACKed is not lost (TypeOK).
DeliveredOnce == TypeOK /\ sender.r.conn.delivered = sender.tx.head - 1 + Cardinality(sender.tx.sacked)

\* A round is counted once per round trip ("packet-timed round trip",
\* UpdateRound), also while PROBE_RTT and recovery move its end; only a segment
\* sent again without need ends one early (so GenerateSample's comment says).
RoundTakesRtt ==
  [][sender'.b.roundCount # sender.b.roundCount /\ Head(net).seq \notin sender.resent
       => sender'.now - seen.roundAt >= Rtt]_vars

\* STARTUP is for a pipe that is not full and DRAIN and PROBE_BW for one that
\* is, also after PROBE_RTT in between (CheckDrain, ExitProbeRTT).
ModeFitsPipe ==
  /\ sender.b.mode = "STARTUP" => ~sender.b.pipeFilled
  /\ sender.b.mode \in {"DRAIN", "PROBE_BW"} => sender.b.pipeFilled

\* After PROBE_RTT the window is at least what it was before, or its target,
\* whatever recovery did to it meanwhile (SaveCwnd, RestoreCwnd).
WindowComesBack ==
  [][sender.b.mode = "PROBE_RTT" /\ sender'.b.mode # "PROBE_RTT" /\ sender'.cong = "OPEN"
       => sender'.cwnd >= AtMost(seen.cwnd, sender'.b.targetCwnd)]_vars

=============================================================================
