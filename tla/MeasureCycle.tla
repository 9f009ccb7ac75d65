---------------------------- MODULE MeasureCycle ----------------------------
(***************************************************************************)
(* What a GMA receiver measures (measurement-manager.cc).  A measurement   *)
(* cycle consists of intervals; it ends when the delays of all links have  *)
(* converged or after MaxMeasureInterval intervals.  Intervals start and   *)
(* end when a packet arrives, never by a timer.                            *)
(*                                                                         *)
(* The manager is a record m and each link has a device record d.  The     *)
(* clock is m.elapsed, the time in ms since the interval began.  A packet  *)
(* p has its one-way delay, its local sequence number on the link, and     *)
(* whether it is in order and was sent after the number that starts the    *)
(* cycle.  The sender side adjustment of delays is off, as it is for every *)
(* algorithm that an interface accepts.                                    *)
(***************************************************************************)
EXTENDS DelaySplit

CONSTANTS LsnSpace,            \* local sequence numbers of a link
          MaxMeasureInterval,  \* intervals of a cycle
          MinDuration, MaxDuration, \* of an interval (ms)
          BurstScalar          \* bursts that an interval has to exceed

ASSUME MeasureCycleAssumption ==
  /\ LsnSpace \in Nat /\ LsnSpace >= 6 /\ LsnSpace % 2 = 0
  /\ MaxMeasureInterval \in Nat \ {0} /\ BurstScalar \in Nat \ {0}
  /\ MinDuration \in Nat /\ MaxDuration \in Nat /\ MinDuration <= MaxDuration

\* Delays are unsigned integers, the largest of which stands for unknown.
OwdSpace == MaxDelay + 1
Unknown  == MaxDelay

NewDevice == [owd |-> Unknown,     \* average of the last interval
              steady |-> FALSE,    \* it differs little from the one before
              inOrder |-> 0, missing |-> 0, abnormal |-> 0, \* in this cycle
              lastLsn |-> LsnSpace - 1,
              last |-> Unknown,    \* delay of the last packet
              currentMin |-> Unknown, lastMin |-> Unknown,
              sum |-> 0, n |-> 0,  \* delays in this interval
              rtt |-> 100, rttOwd |-> 100]

NewManager == [on |-> TRUE, index |-> 0, started |-> FALSE, elapsed |-> 0, thresh |-> 0,
               updated |-> FALSE]  \* the minimum delays have been updated once

InitialMeasurementCycle(d) ==
  [d EXCEPT !.owd = Unknown, !.steady = FALSE, !.inOrder = 0, !.missing = 0, !.abnormal = 0]

UpdateLastPacketOwd(d, owd, data) ==
  LET e == [d EXCEPT !.last = owd, !.currentMin = Min({@, owd})]
  IN  IF data THEN [e EXCEPT !.sum = @ + owd, !.n = @ + 1] ELSE e

UpdateRtt(d, rtt, owd) == [d EXCEPT !.rtt = rtt, !.rttOwd = owd]

GetRtt(d) == IF d.owd = Unknown THEN d.rtt ELSE d.rtt + d.owd - d.rttOwd

\* Mutant: the difference of two numbers on either side of the wrap.
LsnDistance(x, y) == x - y

LsnDiff(x, y) ==
  LET diff == x - y
      half == LsnSpace \div 2
  IN  IF diff > half THEN diff - LsnSpace ELSE IF diff < -half THEN diff + LsnSpace ELSE diff

UpdateLsn(d, lsn) ==
  LET gap == IF d.inOrder + d.abnormal = 0 THEN 1 ELSE LsnDiff(lsn, d.lastLsn)
  IN  IF gap < 1 THEN [d EXCEPT !.abnormal = @ + 1]
      ELSE [d EXCEPT !.inOrder = @ + 1, !.missing = @ + gap - 1, !.lastLsn = lsn]

DataMeasurementSample(dev, c, p) ==
  [dev EXCEPT ![c] = UpdateLsn(UpdateLastPacketOwd(@, p.owd, TRUE), p.lsn)]

LossRate(d) ==
  IF d.missing > d.abnormal
  THEN [num |-> d.missing - d.abnormal, den |-> d.missing + d.inOrder]
  ELSE [num |-> 0, den |-> 1]

-----------------------------------------------------------------------------
(* A state of the manager and the devices is written x = [m, dev].         *)

MeasureCycleStart(x) ==
  [m   |-> [x.m EXCEPT !.on = TRUE, !.index = 0, !.started = FALSE, !.elapsed = 0],
   dev |-> [c \in Cids |-> InitialMeasurementCycle(x.dev[c])]]

GetMaxRttMs(dev) == Max({GetRtt(dev[c]) : c \in Cids})

MeasureIntervalStart(x) ==
  [m   |-> [x.m EXCEPT !.index = @ + 1, !.started = TRUE, !.elapsed = 0,
                       !.thresh = Max({MinDuration, Min({MaxDuration, GetMaxRttMs(x.dev)})})],
   dev |-> [c \in Cids |-> [x.dev[c] EXCEPT !.sum = 0, !.n = 0]]]

MeasureIntervalStartCheck(x, p) ==
  IF p.inOrder /\ p.fresh /\ ~x.m.started THEN MeasureIntervalStart(x) ELSE x

TotalPackets(dev) == SumFunction([c \in Cids |-> dev[c].n])

IntervalIsOver(x, burst) ==
  /\ x.m.started
  /\ \/ x.m.elapsed > MaxDuration
     \/ TotalPackets(x.dev) > BurstScalar * burst /\ x.m.elapsed >= x.m.thresh

\* The difference is one of unsigned numbers: a delay that decreases is never steady.
AverageOwd(d) ==
  LET ave == d.sum \div d.n
      rtt == Max({GetRtt(d), 1})
  IN  IF d.n = 0 THEN d
      ELSE [d EXCEPT !.owd = ave,
                     !.steady = IF d.owd = Unknown THEN @ ELSE 10 * ((ave - d.owd) % OwdSpace) < rtt]

CycleIsOver(x) ==
  \/ x.m.index >= 2 /\ \A c \in Cids : x.dev[c].steady
  \/ x.m.index >= MaxMeasureInterval

\* A link that nothing was received from has the delay of its last packet.
FillOwd(d) == IF d.owd = Unknown THEN [d EXCEPT !.owd = d.last] ELSE d

UpdateAllMinOwd(x) ==
  [m   |-> [x.m EXCEPT !.updated = TRUE],
   dev |-> [c \in Cids |-> [x.dev[c] EXCEPT !.lastMin = x.dev[c].currentMin, !.currentMin = Unknown]]]

\* due: the interval between two updates has passed
UpdateMinOwdCheck(x, due) == IF ~x.m.updated \/ due THEN UpdateAllMinOwd(x) ELSE x

\* The delay of each link above its minimum, or what is known of it.
QueueingDelay(d) ==
  IF d.lastMin = Unknown THEN d.owd ELSE Max({d.owd - d.lastMin, 0})

RxMeasurement(dev) == [delay |-> [c \in Cids |-> QueueingDelay(dev[c])],
                       loss  |-> [c \in Cids |-> LossRate(dev[c])]]

=============================================================================
