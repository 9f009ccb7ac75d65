----------------------------- MODULE GmaReceiver -----------------------------
(***************************************************************************)
(* The receiver of one direction of a GMA flow: it measures the packets    *)
(* that arrive, decides at the end of each measurement cycle how traffic   *)
(* shall be split, tells the transmitter with a TSU, and begins the next   *)
(* cycle when the TSA arrives, or at once when nothing changes.            *)
(*                                                                         *)
(* The transmitter and the links are the environment.  A link that carries *)
(* traffic delivers its packets in order and delays them by a constant and *)
(* a queue.  MaxEvents times, a queue grows or shrinks, a packet is lost   *)
(* or was sent before the cycle, or a link goes down or up.  TSUs are      *)
(* answered: what happens when one is lost is in GmaControl.               *)
(***************************************************************************)
EXTENDS MeasureCycle, Sequences

CONSTANTS Scenarios,    \* the size of a split, the times in ms between two packets,
                        \* the kinds of events that happen, the delays of the queues
          Propagation,  \* delay of each link without a queue (ms)
          FirstLsn,     \* local number of the first packet of a cycle
          MaxEvents     \* bound on the events

Kinds == {"probe", "ack", "queue", "link", "loss", "late"}

ASSUME GmaReceiverAssumption ==
  /\ Scenarios \subseteq [burst : {1, 4, 8, 16, 32, 128}, pauses : SUBSET (Nat \ {0}),
                          kinds : SUBSET Kinds, queues : SUBSET Nat]
  /\ \A scenario \in Scenarios : scenario.pauses # {}
  /\ Propagation \in [Cids -> Nat]
  /\ FirstLsn \in 0 .. LsnSpace - 1 /\ MaxEvents \in Nat

VARIABLES m,       \* the measurement manager
          dev,     \* its devices, one for each link
          control, \* the receiver side control
          ls,      \* the state of the links
          tsus,    \* the splits sent and not answered
          carries, \* links that the transmitter uses
          queue,   \* delay of the queue of each link
          lost,    \* packets of each link lost since the first of the cycle
          waiting, \* TSUs not answered when the interval began
          scenario, \* never changed
          events   \* how many events have happened

vars == <<m, dev, control, ls, tsus, carries, queue, lost, waiting, scenario, events>>

NoLoss == [c \in Cids |-> 0]

Init ==
  /\ m = NewManager /\ dev = [c \in Cids |-> NewDevice]
  /\ \E probed \in BOOLEAN :
       ls = IF probed THEN LinkUp(AddedLinks, "ctrFailed", Wifi) ELSE AddedLinks
  /\ tsus = <<>> /\ carries = {Wifi}
  /\ queue = [c \in Cids |-> 0] /\ lost = NoLoss /\ waiting = 0
  /\ scenario \in Scenarios /\ events = 0
  /\ control = NoControl(scenario.burst)

Links(k) == {c \in Cids : k[c] > 0}

Become(x, losses) == m' = x.m /\ dev' = x.dev /\ lost' = losses

SendTsu(k) == tsus' = Append(tsus, k)

Event(kind) == /\ kind \in scenario.kinds /\ events < MaxEvents
               /\ events' = events + 1 /\ UNCHANGED scenario

-----------------------------------------------------------------------------
(* Receive: a packet of a link that carries traffic arrives, some time     *)
(* after the one before.                                                   *)

\* The cycle goes on with another interval.
NextInterval(x, losses) ==
  /\ ~CycleIsOver(x)
  /\ Become(MeasureIntervalStart(x), losses)
  /\ waiting' = Len(tsus)
  /\ UNCHANGED <<control, tsus>>

\* Twelve probes arrive over a link between two updates of the minimum delays.
MayBeDue(x) == \A c \in UpLinks(ls) : x.dev[c].currentMin # Unknown

\* What the receiver knows at the end of a cycle; due: the minimum delays are old.
CycleReport(x, due) ==
  UpdateMinOwdCheck([x EXCEPT !.dev = [c \in Cids |-> FillOwd(x.dev[c])]], due)

Decide(y, k, losses) ==
  /\ control' = k
  /\ waiting' = Len(tsus)
  /\ IF k.split = Started(ls, control.split, control.burst)
     THEN Become(MeasureCycleStart(y), NoLoss) /\ UNCHANGED tsus
     ELSE Become([y EXCEPT !.m.on = FALSE], losses) /\ SendTsu(k.split)

\* The cycle ends with a decision, which may be to change nothing.
CycleEnds(x, losses) ==
  /\ CycleIsOver(x)
  /\ \E due \in {FALSE, MayBeDue(x)} : \E y \in {CycleReport(x, due)} :
       \E k \in DelayAlgorithm(ls, control, RxMeasurement(y.dev)) : Decide(y, k, losses)

Averaged(x) == [m |-> [x.m EXCEPT !.started = FALSE], dev |-> [c \in Cids |-> AverageOwd(x.dev[c])]]

\* An interval is at least as long as the round trip of a TSU and its TSA.
MeasureIntervalEnd(x, losses) ==
  /\ waiting = 0
  /\ \E y \in {Averaged(x)} : NextInterval(y, losses) \/ CycleEnds(y, losses)

Sampled(x, c, p) == [x EXCEPT !.dev = DataMeasurementSample(x.dev, c, p)]

Measure(now, c, p, losses) ==
  \E x \in {MeasureIntervalStartCheck([m |-> now, dev |-> dev], p)} : \E y \in {Sampled(x, c, p)} :
    IF IntervalIsOver(y, control.burst) THEN MeasureIntervalEnd(y, losses)
    ELSE Become(y, losses) /\ UNCHANGED <<control, tsus, waiting>>

Heard(c) == dev[c].inOrder + dev[c].abnormal > 0

Packet(c, gap, fresh) ==
  [owd |-> Propagation[c] + queue[c], inOrder |-> fresh, fresh |-> fresh,
   lsn |-> IF Heard(c) THEN (dev[c].lastLsn + 1 + gap) % LsnSpace ELSE FirstLsn]

\* A packet was lost before the one that arrives; before the first of a cycle that
\* is not a loss of this cycle.  Or the packet was sent before the cycle.
Arrival(c, gap, fresh) ==
  \/ gap = 0 /\ fresh /\ UNCHANGED <<scenario, events>>
  \/ gap = 1 /\ fresh /\ Heard(c) /\ Event("loss")
  \/ gap = 0 /\ ~fresh /\ ~m.started /\ Event("late")

Receive(c) ==
  /\ m.on /\ c \in carries
  /\ \E pause \in scenario.pauses, gap \in 0 .. 1, fresh \in BOOLEAN :
       /\ Arrival(c, gap, fresh)
       /\ \E p \in {Packet(c, gap, fresh)}, now \in {IF m.started THEN [m EXCEPT !.elapsed = @ + pause] ELSE m} :
            Measure(now, c, p, [lost EXCEPT ![c] = @ + gap])
  /\ UNCHANGED <<ls, carries, queue>>

-----------------------------------------------------------------------------
(* Control messages                                                        *)

\* A probe of the other end is received over link c.
RecvProbe(c) ==
  /\ dev' = [dev EXCEPT ![c] = UpdateLastPacketOwd(@, Propagation[c] + queue[c], FALSE)]
  /\ Event("probe")
  /\ UNCHANGED <<m, control, ls, tsus, carries, queue, lost, waiting>>

\* An ACK is received over link c: the way back was as long as a probe's.
RecvAck(c) ==
  LET owd == Propagation[c] + queue[c] IN
  /\ dev' = [dev EXCEPT ![c] = UpdateRtt(@, owd + Propagation[c], owd)]
  /\ Event("ack")
  /\ UNCHANGED <<m, control, ls, tsus, carries, queue, lost, waiting>>

\* Mutant: the TSA is taken for an old one.
RecvTsaOld == tsus # <<>> /\ UNCHANGED vars

\* The TSA of a TSU is received; the TSAs of older ones are ignored from now on.
RecvTsa ==
  /\ \E i \in 1 .. Len(tsus) :
       /\ tsus' = SubSeq(tsus, i + 1, Len(tsus))
       /\ waiting' = Len(tsus) - i
       /\ carries' = Links(tsus[i])
  /\ Become(MeasureCycleStart([m |-> m, dev |-> dev]), NoLoss)
  /\ UNCHANGED <<control, ls, queue, scenario, events>>

\* A link is found to have failed; its share is dealt to the others.
LinkFails(c) ==
  /\ c \in UpLinks(ls) /\ Event("link")
  /\ ls' = LinkDown(ls, "ctrFailed", c)
  /\ LET r == LinkDownTsu(ls', control.split, control.burst, c) IN
       /\ control' = [control EXCEPT !.split = r.split]
       /\ IF r.update THEN SendTsu(r.tsu) ELSE UNCHANGED tsus
  /\ UNCHANGED <<m, dev, carries, queue, lost, waiting>>

LinkRecovers(c) ==
  /\ c \notin UpLinks(ls) /\ Event("link")
  /\ ls' = LinkUp(ls, "ctrFailed", c)
  /\ UNCHANGED <<m, dev, control, tsus, carries, queue, lost, waiting>>

\* The queue of a link grows or shrinks.
QueueChanges(c) ==
  /\ Event("queue")
  /\ \E q \in scenario.queues \ {queue[c]} : queue' = [queue EXCEPT ![c] = q]
  /\ UNCHANGED <<m, dev, control, ls, tsus, carries, lost, waiting>>

Next ==
  \/ \E c \in Cids : \/ Receive(c) \/ RecvProbe(c) \/ RecvAck(c)
                     \/ LinkFails(c) \/ LinkRecovers(c) \/ QueueChanges(c)
  \/ RecvTsa

Spec == Init /\ [][Next]_vars

\* The transmitter has packets to send over each link that it uses, and a TSU is
\* answered in the end.
Fairness == WF_vars(RecvTsa \/ \E c \in Cids : Receive(c))

FairSpec == Spec /\ Fairness

-----------------------------------------------------------------------------
(* Properties                                                              *)

\* A flag, a phase or a split of the right form: the shares of a split add up to
\* the burst, a cycle has no more than MaxMeasureInterval intervals, the round trip
\* time of a link is never negative (a fatal error of GetRtt), and while nothing is
\* measured a TSU is under way.
TypeOK ==
  /\ m.on \in BOOLEAN /\ m.index \in 0 .. MaxMeasureInterval /\ m.started \in BOOLEAN
  /\ m.started => m.on /\ m.index > 0
  /\ control.split = NoSplit \/ control.split \in Splits(control.burst)
  /\ \A c \in Cids : GetRtt(dev[c]) >= 0 /\ dev[c].lastLsn \in 0 .. LsnSpace - 1
  /\ ~m.on => tsus # <<>>
  /\ carries # {}

\* The missing packets that the loss rate of a link is computed from are those
\* lost since the first packet of the cycle, across the wrap of the local
\* sequence numbers and over all intervals of the cycle (of the form TypeOK states).
LossIsCounted ==
  /\ TypeOK
  /\ \A c \in Cids : Heard(c) => dev[c].missing - dev[c].abnormal = lost[c]

\* Whatever is measured, and whatever links have failed since the last decision,
\* the algorithm decides on one of the splits that GmaControl chooses from.
DecisionIsMeasured ==
  [][control'.split # control.split /\ ls' = ls
       => \E k \in {Started(ls, control.split, control.burst)} :
            control'.split \in {k} \cup MeasuredSplits(ls, k)]_vars

\* A measurement cycle that has begun ends, although the delays may never
\* converge and too few packets may arrive.
CyclesEnd == (m.index > 0) ~> (m.index = 0)

\* When queues, links and losses change no more, the receiver stops changing the
\* split: the two rules and the minimum delays do not undo each other's work.
SplitSettles == <>[][control'.split = control.split]_vars

=============================================================================
