------------------------- MODULE GmaReceiver_proofs --------------------------
(***************************************************************************)
(* What a GMA receiver measures and decides, for any links, delays, splits *)
(* and bounds and any order of packets, losses, failures, probes and TSAs: *)
(* losses are counted, also where local numbers wrap around, and every     *)
(* decision is one of the splits that GmaControl chooses from.             *)
(***************************************************************************)
EXTENDS GmaReceiver, TrafficSplit_proofs, SequenceTheorems

\* A device: the numbers it may hold, and the round trip that is not shorter than
\* the way of the packet it was measured with.  No packet is ever out of order.
Devices ==
  {d \in [owd : Nat, steady : BOOLEAN, inOrder : Nat, missing : Nat, abnormal : {0},
          lastLsn : 0 .. LsnSpace - 1, last : Nat, currentMin : Nat, lastMin : Nat,
          sum : Nat, n : Nat, rtt : Nat, rttOwd : Nat] : d.rtt >= d.rttOwd}

\* The devices count what is lost.
Counted(devices, losses) ==
  /\ devices \in [Cids -> Devices]
  /\ losses \in [Cids -> Nat]
  /\ \A c \in Cids : devices[c].missing = losses[c]

\* A manager: an interval that has started is one of a cycle, and between two
\* cycles no interval has started.
Managed(manager) ==
  /\ DOMAIN manager = {"on", "index", "started", "elapsed", "thresh", "updated"}
  /\ manager.on \in BOOLEAN /\ manager.started \in BOOLEAN
  /\ manager.index \in 0 .. MaxMeasureInterval
  /\ manager.started => manager.on /\ manager.index > 0
  /\ manager.on /\ ~manager.started => manager.index = 0

\* A control record, before and after the first decision.
Controlled(k) ==
  /\ DOMAIN k = {"split", "burst", "owd", "counter"}
  /\ k.burst \in Nat \ {0}
  /\ k.split = NoSplit \/ (Adds(k.split, k.burst) /\ k.counter \in [Cids -> Nat])

\* The TSUs under way split the burst.
AllSplit(q, burst) == q \in Seq([Cids -> Nat]) /\ \A i \in 1 .. Len(q) : Burst(q[i]) = burst

\* The inductive invariant
IInv ==
  /\ Managed(m)
  /\ Counted(dev, lost)
  /\ Controlled(control)
  /\ ls \in LinkStates
  /\ AllSplit(tsus, control.burst)
  /\ ~m.on => tsus # <<>>
  /\ carries # {}
  /\ queue \in [Cids -> Nat]
  /\ scenario \in Scenarios

-----------------------------------------------------------------------------
(* Numbers                                                                 *)

LEMMA MinOfTwo ==
  ASSUME NEW a \in Int, NEW b \in Int
  PROVE  Min({a, b}) = IF a <= b THEN a ELSE b
<1>. DEFINE S == {a, b}
            least == IF a <= b THEN a ELSE b
<1>1. least \in S /\ \A y \in S : least <= y
  OBVIOUS
<1>2. \A x \in S : (\A y \in S : x <= y) => x = least
  OBVIOUS
<1>. HIDE DEF S, least
<1>3. Min(S) = least
  BY <1>1, <1>2 DEF Min
<1>. QED  BY <1>3 DEF S, least

LEMMA MaxOfTwo ==
  ASSUME NEW a \in Int, NEW b \in Int
  PROVE  Max({a, b}) = IF a >= b THEN a ELSE b
<1>. DEFINE S == {a, b}
            most == IF a >= b THEN a ELSE b
<1>1. most \in S /\ \A y \in S : y <= most
  OBVIOUS
<1>2. \A x \in S : (\A y \in S : y <= x) => x = most
  OBVIOUS
<1>. HIDE DEF S, most
<1>3. Max(S) = most
  BY <1>1, <1>2 DEF Max
<1>. QED  BY <1>3 DEF S, most

\* The difference of a local number and one that follows it closely is what it
\* is without the wrap.
LEMMA LsnDiffIs ==
  ASSUME NEW last \in 0 .. LsnSpace - 1, NEW k \in 1 .. 2
  PROVE  /\ (last + k) % LsnSpace \in 0 .. LsnSpace - 1
         /\ LsnDiff((last + k) % LsnSpace, last) = k
<1>1. PICK h \in Nat : LsnSpace = 2 * h /\ h >= 3 /\ LsnSpace \div 2 = h
  <2>1. LsnSpace \in Nat /\ LsnSpace >= 6 /\ LsnSpace % 2 = 0
    BY MeasureCycleAssumption
  <2>. QED  BY <2>1
<1>2. CASE last + k < LsnSpace
  <2>1. (last + k) % LsnSpace = last + k
    BY <1>1, <1>2
  <2>2. LsnDiff(last + k, last) = k
    BY <1>1 DEF LsnDiff
  <2>. QED  BY <1>1, <1>2, <2>1, <2>2
<1>3. CASE last + k >= LsnSpace
  <2>1. (last + k) % LsnSpace = last + k - LsnSpace
    BY <1>1, <1>3
  <2>2. LsnDiff(last + k - LsnSpace, last) = k
    BY <1>1 DEF LsnDiff
  <2>. QED  BY <1>1, <1>3, <2>1, <2>2
<1>. QED  BY <1>1, <1>2, <1>3

-----------------------------------------------------------------------------
(* Devices: no method but UpdateLsn and InitialMeasurementCycle changes    *)
(* what is counted.                                                        *)

\* e is a device that has counted what d has.
SameCounts(d, e) ==
  /\ e \in Devices
  /\ e.missing = d.missing /\ e.inOrder = d.inOrder /\ e.lastLsn = d.lastLsn

LEMMA UpdateLastPacketOwdIs ==
  ASSUME NEW d \in Devices, NEW owd \in Nat, NEW data \in BOOLEAN
  PROVE  SameCounts(d, UpdateLastPacketOwd(d, owd, data))
<1>1. PICK least \in Nat : least = Min({d.currentMin, owd})
  BY MinOfTwo DEF Devices
<1>. DEFINE e == [d EXCEPT !.last = owd, !.currentMin = least]
<1>2. UpdateLastPacketOwd(d, owd, data) = IF data THEN [e EXCEPT !.sum = e.sum + owd, !.n = e.n + 1] ELSE e
  BY <1>1 DEF UpdateLastPacketOwd
<1>3. SameCounts(d, e)
  BY DEF SameCounts, Devices
<1>. HIDE DEF e
<1>4. CASE data
  <2>1. UpdateLastPacketOwd(d, owd, data) = [e EXCEPT !.sum = e.sum + owd, !.n = e.n + 1]
    BY <1>2, <1>4
  <2>2. e.sum + owd \in Nat /\ e.n + 1 \in Nat
    BY <1>3 DEF SameCounts, Devices
  <2>3. PICK s, k \in Nat : UpdateLastPacketOwd(d, owd, data) = [e EXCEPT !.sum = s, !.n = k]
    BY <2>1, <2>2
  <2>. QED  BY <1>3, <2>3 DEF SameCounts, Devices
<1>. QED  BY <1>2, <1>3, <1>4

LEMMA UpdateRttIs ==
  ASSUME NEW d \in Devices, NEW rtt \in Nat, NEW owd \in Nat, rtt >= owd
  PROVE  SameCounts(d, UpdateRtt(d, rtt, owd))
BY DEF UpdateRtt, SameCounts, Devices

LEMMA NewIntervalIs ==
  ASSUME NEW d \in Devices
  PROVE  SameCounts(d, [d EXCEPT !.sum = 0, !.n = 0])
BY DEF SameCounts, Devices

LEMMA NewMinIs ==
  ASSUME NEW d \in Devices
  PROVE  SameCounts(d, [d EXCEPT !.lastMin = d.currentMin, !.currentMin = Unknown])
BY DelaySplitAssumption DEF SameCounts, Devices, Unknown

LEMMA FillOwdIs ==
  ASSUME NEW d \in Devices
  PROVE  SameCounts(d, FillOwd(d))
BY DEF SameCounts, Devices, FillOwd

LEMMA AverageOwdIs ==
  ASSUME NEW d \in Devices
  PROVE  SameCounts(d, AverageOwd(d))
<1>1. CASE d.n = 0
  BY <1>1 DEF AverageOwd, SameCounts
<1>2. CASE d.n # 0
  <2>. DEFINE ave == d.sum \div d.n
              steady == IF d.owd = Unknown THEN d.steady
                        ELSE 10 * ((ave - d.owd) % OwdSpace) < Max({GetRtt(d), 1})
  <2>1. d.sum \in Nat /\ d.n \in Nat /\ d.steady \in BOOLEAN
    BY DEF Devices
  <2>2. ave \in Nat
    BY <1>2, <2>1
  <2>3. steady \in BOOLEAN
    <3>1. \A a, b : (a < b) \in BOOLEAN
      OBVIOUS
    <3>. QED  BY <2>1, <3>1, Zenon
  <2>4. AverageOwd(d) = [d EXCEPT !.owd = ave, !.steady = steady]
    <3>1. AverageOwd(d) = IF d.n = 0 THEN d ELSE [d EXCEPT !.owd = ave, !.steady = steady]
      BY Zenon DEF AverageOwd
    <3>. HIDE DEF ave, steady
    <3>. QED  BY <1>2, <3>1
  <2>5. PICK a \in Nat, s \in BOOLEAN : AverageOwd(d) = [d EXCEPT !.owd = a, !.steady = s]
    BY <2>2, <2>3, <2>4
  <2>. QED  BY <2>5 DEF SameCounts, Devices
<1>. QED  BY <1>1, <1>2

LEMMA InitialCycleIs ==
  ASSUME NEW d \in Devices
  PROVE  InitialMeasurementCycle(d) \in Devices /\ InitialMeasurementCycle(d).missing = 0
BY DelaySplitAssumption DEF Devices, Unknown, InitialMeasurementCycle

\* The round trip time is not negative.
LEMMA GetRttIs ==
  ASSUME NEW d \in Devices
  PROVE  GetRtt(d) >= 0
BY DEF Devices, GetRtt

\* What a device reports: a delay and a rate of loss.
LEMMA QueueingDelayIs ==
  ASSUME NEW d \in Devices
  PROVE  QueueingDelay(d) \in Nat
<1>1. d.owd \in Nat /\ d.lastMin \in Nat
  BY DEF Devices
<1>2. Max({d.owd - d.lastMin, 0}) \in Nat
  BY <1>1, MaxOfTwo
<1>. QED  BY <1>1, <1>2 DEF QueueingDelay

Rates == [num : Nat, den : Nat \ {0}]

LEMMA LossRateIs ==
  ASSUME NEW d \in Devices
  PROVE  LossRate(d) \in Rates
BY DEF Devices, LossRate, Rates

\* A number that follows the last of a device closely counts what it leaves out;
\* the first number of a cycle leaves out nothing.
LEMMA UpdateLsnIs ==
  ASSUME NEW d \in Devices, NEW gap \in 0 .. 1, NEW lsn \in 0 .. LsnSpace - 1,
         IF d.inOrder > 0 THEN lsn = (d.lastLsn + 1 + gap) % LsnSpace ELSE gap = 0
  PROVE  UpdateLsn(d, lsn) \in Devices /\ UpdateLsn(d, lsn).missing = d.missing + gap
<1>. DEFINE step == IF d.inOrder + d.abnormal = 0 THEN 1 ELSE LsnDiff(lsn, d.lastLsn)
<1>1. d.inOrder \in Nat /\ d.abnormal = 0 /\ d.missing \in Nat /\ d.lastLsn \in 0 .. LsnSpace - 1
  BY DEF Devices
<1>2. step = 1 + gap
  <2>1. CASE d.inOrder = 0
    BY <1>1, <2>1
  <2>2. CASE d.inOrder # 0
    <3>1. lsn = (d.lastLsn + (1 + gap)) % LsnSpace /\ 1 + gap \in 1 .. 2
      <4>1. d.lastLsn + 1 + gap = d.lastLsn + (1 + gap) /\ d.inOrder > 0
        BY <1>1, <2>2
      <4>. QED  BY <4>1
    <3>2. LsnDiff(lsn, d.lastLsn) = 1 + gap
      BY <1>1, <3>1, LsnDiffIs
    <3>. QED  BY <1>1, <2>2, <3>2
  <2>. QED  BY <2>1, <2>2
<1>3. UpdateLsn(d, lsn) = IF step < 1 THEN [d EXCEPT !.abnormal = d.abnormal + 1]
        ELSE [d EXCEPT !.inOrder = d.inOrder + 1, !.missing = d.missing + step - 1, !.lastLsn = lsn]
  BY DEF UpdateLsn
<1>. HIDE DEF step
<1>4. PICK i, k \in Nat : i = d.inOrder + 1 /\ k = d.missing + gap /\ d.missing + step - 1 = k
  BY <1>1, <1>2
<1>5. UpdateLsn(d, lsn) = [d EXCEPT !.inOrder = i, !.missing = k, !.lastLsn = lsn]
  <2>1. ~(step < 1)
    BY <1>2
  <2>. QED  BY <1>3, <1>4, <2>1, Zenon
<1>. QED  BY <1>4, <1>5 DEF Devices

-----------------------------------------------------------------------------
(* The manager and its devices, a record x = [m, dev]                      *)

\* x is the manager and the devices, which have counted the losses.
Pair(x, losses) == x = [m |-> x.m, dev |-> x.dev] /\ Managed(x.m) /\ Counted(x.dev, losses)

\* Devices that have counted the same count the same losses.
LEMMA CountedOn ==
  ASSUME NEW devices, NEW losses, Counted(devices, losses),
         NEW others, others \in [Cids -> Devices],
         \A c \in Cids : SameCounts(devices[c], others[c])
  PROVE  Counted(others, losses)
BY DEF Counted, SameCounts

\* When a cycle starts the devices and the losses begin anew.
LEMMA MeasureCycleStartIs ==
  ASSUME NEW x, NEW losses, Counted(x.dev, losses),
         DOMAIN x.m = {"on", "index", "started", "elapsed", "thresh", "updated"}
  PROVE  Pair(MeasureCycleStart(x), NoLoss) /\ MeasureCycleStart(x).m.on
<1>1. \A c \in Cids : /\ InitialMeasurementCycle(x.dev[c]) \in Devices
                      /\ InitialMeasurementCycle(x.dev[c]).missing = 0
  BY InitialCycleIs DEF Counted
<1>2. Counted(MeasureCycleStart(x).dev, NoLoss)
  BY <1>1 DEF MeasureCycleStart, Counted, NoLoss
<1>3. Managed(MeasureCycleStart(x).m) /\ MeasureCycleStart(x).m.on
  <2>. DEFINE y == MeasureCycleStart(x).m
  <2>1. y = [x.m EXCEPT !.on = TRUE, !.index = 0, !.started = FALSE, !.elapsed = 0]
    BY DEF MeasureCycleStart
  <2>. HIDE DEF y
  <2>2. DOMAIN y = DOMAIN x.m /\ y.on = TRUE /\ y.index = 0 /\ y.started = FALSE
    BY <2>1
  <2>3. 0 \in 0 .. MaxMeasureInterval
    BY MeasureCycleAssumption
  <2>. QED  BY <2>2, <2>3 DEF Managed, y
<1>. QED  BY <1>2, <1>3 DEF Pair, MeasureCycleStart

\* An interval starts that is not one too many.
LEMMA MeasureIntervalStartIs ==
  ASSUME NEW x, NEW losses, Counted(x.dev, losses),
         DOMAIN x.m = {"on", "index", "started", "elapsed", "thresh", "updated"},
         x.m.on = TRUE, x.m.index \in 0 .. MaxMeasureInterval - 1
  PROVE  /\ Pair(MeasureIntervalStart(x), losses)
         /\ MeasureIntervalStart(x).m.on /\ MeasureIntervalStart(x).m.started
         /\ \A c \in Cids : SameCounts(x.dev[c], MeasureIntervalStart(x).dev[c])
<1>. DEFINE y == MeasureIntervalStart(x)
            devices == [c \in Cids |-> [x.dev[c] EXCEPT !.sum = 0, !.n = 0]]
<1>1. PICK thresh : y = [m |-> [x.m EXCEPT !.index = x.m.index + 1, !.started = TRUE, !.elapsed = 0,
                                           !.thresh = thresh],
                         dev |-> devices]
  BY DEF MeasureIntervalStart
<1>2. \A c \in Cids : SameCounts(x.dev[c], devices[c])
  BY NewIntervalIs DEF Counted
<1>3. devices \in [Cids -> Devices]
  BY <1>2 DEF SameCounts
<1>. HIDE DEF devices, y
<1>4. Counted(devices, losses)
  BY <1>2, <1>3, CountedOn
<1>5. Managed(y.m) /\ y.m.on /\ y.m.started
  <2>1. DOMAIN y.m = DOMAIN x.m /\ y.m.on = TRUE /\ y.m.index = x.m.index + 1 /\ y.m.started = TRUE
    BY <1>1
  <2>2. x.m.index + 1 \in 0 .. MaxMeasureInterval /\ x.m.index + 1 > 0
    BY MeasureCycleAssumption
  <2>. QED  BY <2>1, <2>2 DEF Managed
<1>6. Pair(y, losses) /\ y.dev = devices
  BY <1>1, <1>4, <1>5 DEF Pair
<1>. QED  BY <1>2, <1>5, <1>6 DEF y

-----------------------------------------------------------------------------
(* The searches: each returns the link it starts from or one of those it   *)
(* looks at.                                                               *)

\* Among finitely many delays there are a largest and a smallest.
LEMMA ExtremeDelays ==
  ASSUME NEW S \in SUBSET Cids, S # {}, NEW delay \in [Cids -> Nat]
  PROVE  /\ \E c \in S : \A d \in S : delay[c] >= delay[d]
         /\ \E c \in S : \A d \in S : delay[c] <= delay[d]
<1>. DEFINE Extremes(A) == /\ \E c \in A : \A d \in A : delay[c] >= delay[d]
                           /\ \E c \in A : \A d \in A : delay[c] <= delay[d]
            T == {A \in SUBSET S : A # {} => Extremes(A)}
<1>1. {} \in T
  OBVIOUS
<1>2. ASSUME NEW A \in T, NEW z \in S \ A
      PROVE  A \cup {z} \in T
  <2>1. CASE A = {}
    BY <2>1
  <2>2. CASE A # {}
    <3>1. PICK c \in A : \A d \in A : delay[c] >= delay[d]
      BY <2>2
    <3>2. PICK e \in A : \A d \in A : delay[e] <= delay[d]
      BY <2>2
    <3>3. delay[z] \in Nat /\ \A d \in A : delay[d] \in Nat
      OBVIOUS
    <3>4. \E x \in A \cup {z} : \A d \in A \cup {z} : delay[x] >= delay[d]
      BY <3>1, <3>3
    <3>5. \E x \in A \cup {z} : \A d \in A \cup {z} : delay[x] <= delay[d]
      BY <3>2, <3>3
    <3>. QED  BY <3>4, <3>5
  <2>. QED  BY <2>1, <2>2
<1>3. IsFiniteSet(S)
  BY CidsFinite, FS_Subset
<1>4. T = SUBSET S
  <2>. HIDE DEF T
  <2>1. T \in SUBSET SUBSET S
    BY DEF T
  <2>. QED  BY <1>1, <1>2, <1>3, <2>1, SubsetInduction
<1>. QED  BY <1>4

LEMMA LeastDelayedIn ==
  ASSUME NEW S \in SUBSET Cids, NEW start \in Cids, NEW delay \in [Cids -> Nat]
  PROVE  LeastDelayed(S, start, delay) \in S \cup {start}
<1>. DEFINE best == {c \in S : \A d \in S : delay[c] <= delay[d]}
            stay == \A c \in S : delay[c] >= delay[start]
<1>1. LeastDelayed(S, start, delay) = IF stay THEN start ELSE Min(best)
  BY DEF LeastDelayed
<1>2. ~stay => best # {} /\ best \in SUBSET Cids
  BY ExtremeDelays
<1>. HIDE DEF stay
<1>3. ~stay => Min(best) \in best
  <2>. HIDE DEF best
  <2>. QED  BY <1>2, MaxMinIn
<1>. QED  BY <1>1, <1>3

LEMMA MostDelayedIn ==
  ASSUME NEW S \in SUBSET Cids, NEW start \in Cids, NEW delay \in [Cids -> Nat]
  PROVE  MostDelayed(S, start, delay) \in S \cup {start}
<1>. DEFINE best == {c \in S : \A d \in S : delay[c] >= delay[d]}
            stay == \A c \in S : delay[c] <= delay[start]
<1>1. MostDelayed(S, start, delay) = IF stay THEN start ELSE Min(best)
  BY DEF MostDelayed
<1>2. ~stay => best # {} /\ best \in SUBSET Cids
  BY ExtremeDelays
<1>. HIDE DEF stay
<1>3. ~stay => Min(best) \in best
  <2>. HIDE DEF best
  <2>. QED  BY <1>2, MaxMinIn
<1>. QED  BY <1>1, <1>3

\* Products of numbers keep their order, and a common factor may be dropped.
LEMMA TimesMonotone ==
  ASSUME NEW a \in Nat, NEW b \in Nat, NEW k \in Nat, a <= b
  PROVE  a * k <= b * k
<1>1. PICK d \in Nat : b = a + d
  BY b - a \in Nat
<1>2. b * k = a * k + d * k
  BY <1>1
<1>3. d * k \in Nat /\ a * k \in Nat
  OBVIOUS
<1>. QED  BY <1>2, <1>3

LEMMA TimesCancel ==
  ASSUME NEW a \in Nat, NEW b \in Nat, NEW k \in Nat \ {0}, a * k <= b * k
  PROVE  a <= b
<1>1. SUFFICES ASSUME b < a PROVE FALSE
  OBVIOUS
<1>2. (b + 1) * k <= a * k
  BY <1>1, TimesMonotone
<1>3. (b + 1) * k = b * k + k
  OBVIOUS
<1>4. a * k \in Nat /\ b * k \in Nat
  OBVIOUS
<1>. QED  BY <1>2, <1>3, <1>4

\* "No larger than" is transitive on fractions.
LEMMA RatesInOrder ==
  ASSUME NEW p \in Rates, NEW q \in Rates, NEW r \in Rates,
         ~Exceeds(p, q, 1), ~Exceeds(q, r, 1)
  PROVE  ~Exceeds(p, r, 1)
<1>1. PICK a \in Nat, c \in Nat, e \in Nat, b \in Nat \ {0}, d \in Nat \ {0}, f \in Nat \ {0} :
        /\ a = p.num /\ b = p.den /\ c = q.num /\ d = q.den /\ e = r.num /\ f = r.den
  BY DEF Rates
<1>2. a * d <= c * b /\ c * f <= e * d
  BY <1>1 DEF Exceeds
<1>3. (a * d) * f <= (c * b) * f
  BY <1>2, TimesMonotone, a * d \in Nat, c * b \in Nat
<1>4. (c * f) * b <= (e * d) * b
  BY <1>2, TimesMonotone, c * f \in Nat, e * d \in Nat
<1>5. /\ (a * d) * f = (a * f) * d /\ (c * b) * f = (c * f) * b /\ (e * d) * b = (e * b) * d
      /\ (a * f) * d \in Nat /\ (c * f) * b \in Nat /\ (e * b) * d \in Nat
  OBVIOUS
<1>6. (a * f) * d <= (e * b) * d
  BY <1>3, <1>4, <1>5
<1>7. a * f <= e * b
  BY <1>6, TimesCancel, a * f \in Nat, e * b \in Nat
<1>8. a * f \in Nat /\ e * b \in Nat /\ 1 * r.num * p.den = e * b
  BY <1>1
<1>. QED  BY <1>1, <1>7, <1>8 DEF Exceeds

\* Of two rates one is no larger than the other.
LEMMA RatesTotal ==
  ASSUME NEW p \in Rates, NEW q \in Rates
  PROVE  ~Exceeds(p, q, 1) \/ ~Exceeds(q, p, 1)
<1>1. PICK a \in Nat, c \in Nat, b \in Nat, d \in Nat :
        a = p.num /\ b = p.den /\ c = q.num /\ d = q.den
  BY DEF Rates
<1>2. a * d \in Nat /\ c * b \in Nat
  OBVIOUS
<1>. QED  BY <1>1, <1>2 DEF Exceeds

\* Among finitely many rates there are a largest and a smallest.
LEMMA ExtremeRates ==
  ASSUME NEW S \in SUBSET Cids, S # {}, NEW loss \in [Cids -> Rates]
  PROVE  /\ \E c \in S : \A d \in S : ~Exceeds(loss[d], loss[c], 1)
         /\ \E c \in S : \A d \in S : ~Exceeds(loss[c], loss[d], 1)
<1>. DEFINE Extremes(A) == /\ \E c \in A : \A d \in A : ~Exceeds(loss[d], loss[c], 1)
                           /\ \E c \in A : \A d \in A : ~Exceeds(loss[c], loss[d], 1)
            T == {A \in SUBSET S : A # {} => Extremes(A)}
<1>1. {} \in T
  OBVIOUS
<1>2. ASSUME NEW A \in T, NEW z \in S \ A
      PROVE  A \cup {z} \in T
  <2>1. ~Exceeds(loss[z], loss[z], 1)
    BY RatesTotal
  <2>2. CASE A = {}
    BY <2>1, <2>2
  <2>3. CASE A # {}
    <3>1. PICK c \in A : \A d \in A : ~Exceeds(loss[d], loss[c], 1)
      BY <2>3
    <3>2. PICK e \in A : \A d \in A : ~Exceeds(loss[e], loss[d], 1)
      BY <2>3
    <3>3. loss[z] \in Rates /\ loss[c] \in Rates /\ loss[e] \in Rates /\ \A d \in A : loss[d] \in Rates
      OBVIOUS
    <3>4. \E x \in A \cup {z} : \A d \in A \cup {z} : ~Exceeds(loss[d], loss[x], 1)
      <4>1. CASE Exceeds(loss[z], loss[c], 1)
        <5>1. \A d \in A : ~Exceeds(loss[d], loss[z], 1)
          BY <3>1, <3>3, <4>1, RatesTotal, RatesInOrder
        <5>. QED  BY <2>1, <5>1
      <4>2. CASE ~Exceeds(loss[z], loss[c], 1)
        BY <3>1, <4>2
      <4>. QED  BY <4>1, <4>2
    <3>5. \E x \in A \cup {z} : \A d \in A \cup {z} : ~Exceeds(loss[x], loss[d], 1)
      <4>1. CASE Exceeds(loss[e], loss[z], 1)
        <5>1. \A d \in A : ~Exceeds(loss[z], loss[d], 1)
          BY <3>2, <3>3, <4>1, RatesTotal, RatesInOrder
        <5>. QED  BY <2>1, <5>1
      <4>2. CASE ~Exceeds(loss[e], loss[z], 1)
        BY <3>2, <4>2
      <4>. QED  BY <4>1, <4>2
    <3>. QED  BY <3>4, <3>5
  <2>. QED  BY <2>2, <2>3
<1>3. IsFiniteSet(S)
  BY CidsFinite, FS_Subset
<1>4. T = SUBSET S
  <2>. HIDE DEF T
  <2>1. T \in SUBSET SUBSET S
    BY DEF T
  <2>. QED  BY <1>1, <1>2, <1>3, <2>1, SubsetInduction
<1>. QED  BY <1>4

LEMMA MostLossyIn ==
  ASSUME NEW S \in SUBSET Cids, NEW start, NEW loss \in [Cids -> Rates]
  PROVE  MostLossy(S, start, loss) \in S \cup {start}
<1>. DEFINE worst == {c \in S : \A d \in S : ~Exceeds(loss[d], loss[c], 1)}
<1>1. CASE \A c \in S : ~Exceeds(loss[c], loss[start], 1)
  BY <1>1 DEF MostLossy
<1>2. CASE ~\A c \in S : ~Exceeds(loss[c], loss[start], 1)
  <2>1. worst # {} /\ worst \in SUBSET Cids
    BY <1>2, ExtremeRates
  <2>2. Min(worst) \in worst
    <3>. HIDE DEF worst
    <3>. QED  BY <2>1, MaxMinIn
  <2>3. MostLossy(S, start, loss) = Min(worst)
    BY <1>2, Zenon DEF MostLossy
  <2>. QED  BY <2>2, <2>3
<1>. QED  BY <1>1, <1>2

LEMMA LeastLossyIn ==
  ASSUME NEW S \in SUBSET Cids, NEW start, NEW loss \in [Cids -> Rates]
  PROVE  LeastLossy(S, start, loss) \in S \cup {start}
<1>. DEFINE best == {c \in S : \A d \in S : ~Exceeds(loss[c], loss[d], 1)}
<1>1. CASE \A c \in S : ~Exceeds(loss[start], loss[c], 1)
  BY <1>1 DEF LeastLossy
<1>2. CASE ~\A c \in S : ~Exceeds(loss[start], loss[c], 1)
  <2>1. best # {} /\ best \in SUBSET Cids
    BY <1>2, ExtremeRates
  <2>2. Min(best) \in best
    <3>. HIDE DEF best
    <3>. QED  BY <2>1, MaxMinIn
  <2>3. LeastLossy(S, start, loss) = Min(best)
    BY <1>2, Zenon DEF LeastLossy
  <2>. QED  BY <2>2, <2>3
<1>. QED  BY <1>1, <1>2

-----------------------------------------------------------------------------
(* Decisions                                                               *)

Reports == [delay : [Cids -> Nat], loss : [Cids -> Rates]]

\* What the devices report.
LEMMA RxMeasurementIs ==
  ASSUME NEW devices \in [Cids -> Devices]
  PROVE  RxMeasurement(devices) \in Reports
BY QueueingDelayIs, LossRateIs DEF RxMeasurement, Reports

\* The first split is remembered with a counter for each link.
LEMMA StartControlIs ==
  ASSUME NEW s \in LinkStates, NEW k, Controlled(k), NEW r
  PROVE  LET j == StartControl(s, k, r)
         IN  /\ Controlled(j) /\ j.split = Started(s, k.split, k.burst) /\ j.burst = k.burst
             /\ Adds(j.split, j.burst) /\ j.counter \in [Cids -> Nat]
<1>1. CASE k.split # NoSplit
  BY <1>1 DEF StartControl, Started, Controlled
<1>2. CASE k.split = NoSplit
  <2>1. s.low \in Cids /\ k.burst \in Nat \ {0}
    BY DEF LinkStates, Controlled
  <2>2. Adds(AllTo(s.low, k.burst), k.burst)
    BY <2>1, BurstOfAllTo DEF Adds
  <2>3. [c \in Cids |-> 1] \in [Cids -> Nat]
    OBVIOUS
  <2>4. StartControl(s, k, r) =
          [split |-> AllTo(s.low, k.burst), burst |-> k.burst,
           owd |-> [c \in Cids |-> Stored(r.delay[c])], counter |-> [c \in Cids |-> 1]]
    BY <1>2 DEF StartControl
  <2>5. Started(s, k.split, k.burst) = AllTo(s.low, k.burst)
    BY <1>2 DEF Started
  <2>. QED  BY <2>1, <2>2, <2>3, <2>4, <2>5 DEF Controlled
<1>. QED  BY <1>1, <1>2

\* Some links carry traffic, the first of them among them.
LEMMA UsedIs ==
  ASSUME NEW k, k.burst \in Nat \ {0}, Adds(k.split, k.burst)
  PROVE  /\ FirstUsed(k.split) \in Used(k) /\ Used(k) \in SUBSET Cids
         /\ \A c \in Used(k) : k.split[c] \in Nat /\ k.split[c] > 0
<1>1. k.split \in [Cids -> Nat] /\ SumFunctionOnSet(k.split, Cids) = k.burst
  BY BurstOnCids DEF Adds
<1>2. Used(k) # {}
  <2>1. SUFFICES ASSUME \A c \in Cids : k.split[c] = 0 PROVE FALSE
    BY DEF Used
  <2>2. SumFunctionOnSet(k.split, Cids) = 0
    BY <2>1, CidsFinite, SumZero
  <2>. QED  BY <1>1, <2>2
<1>3. Used(k) \in SUBSET Cids /\ FirstUsed(k.split) = Min(Used(k))
  BY DEF Used, FirstUsed
<1>4. \A c \in Used(k) : k.split[c] \in Nat /\ k.split[c] > 0
  BY <1>1 DEF Used
<1>. QED  BY <1>2, <1>3, <1>4, MaxMinIn

\* What the rules make of a record: it still splits the burst, in a way that
\* GmaControl knows.
Decided(s, k, j) ==
  /\ Controlled(j) /\ j.burst = k.burst
  /\ Adds(j.split, j.burst)
  /\ j.split \in {k.split} \cup MeasuredSplits(s, k.split)

\* Moving part of a share between links that are up or that carry traffic first
\* is such a decision.
LEMMA MoveIsMeasured ==
  ASSUME NEW s \in LinkStates, NEW k, k.burst \in Nat \ {0}, Adds(k.split, k.burst),
         NEW from \in UpLinks(s) \cup {FirstUsed(k.split)},
         NEW to \in UpLinks(s) \cup {FirstUsed(k.split)},
         NEW step \in 1 .. k.split[from]
  PROVE  /\ MoveShare(k.split, from, to, step) \in MeasuredSplits(s, k.split)
         /\ Adds(MoveShare(k.split, from, to, step), k.burst)
<1>. DEFINE split == k.split
            eligible == UpLinks(s) \cup {FirstUsed(split)}
            moved == MoveShare(split, from, to, step)
            Shares(a, b) == {MoveShare(split, a, b, n) : n \in 1 .. split[a]}
            moves == UNION {Shares(a, b) : a \in eligible, b \in eligible}
<1>1. moved \in moves
  <2>1. moved \in Shares(from, to)
    OBVIOUS
  <2>2. from \in eligible /\ to \in eligible
    OBVIOUS
  <2>. HIDE DEF Shares, moved, eligible
  <2>. QED  BY <2>1, <2>2
<1>2. CASE Burst(split) = 1 /\ s.low \in UpLinks(s)
  <2>1. MeasuredSplits(s, split) = moves \cup {AllTo(s.low, 1)}
    BY <1>2 DEF MeasuredSplits
  <2>2. moved \in MeasuredSplits(s, split)
    <3>. HIDE DEF moves, moved
    <3>. QED  BY <1>1, <2>1
  <2>. QED  BY <2>2, MeasuredAddsUp
<1>3. CASE ~(Burst(split) = 1 /\ s.low \in UpLinks(s))
  <2>1. MeasuredSplits(s, split) = moves
    BY <1>3 DEF MeasuredSplits
  <2>2. moved \in MeasuredSplits(s, split)
    <3>. HIDE DEF moves, moved
    <3>. QED  BY <1>1, <2>1
  <2>. QED  BY <2>2, MeasuredAddsUp
<1>. QED  BY <1>2, <1>3

\* The delay rule takes no more from a link than it has.
LEMMA TakeFromIs ==
  ASSUME NEW s \in LinkStates, NEW k, Controlled(k), Adds(k.split, k.burst), k.counter \in [Cids -> Nat],
         NEW far \in (UpLinks(s) \cap Used(k)) \cup {FirstUsed(k.split)},
         NEW near \in UpLinks(s) \cup {FirstUsed(k.split)}
  PROVE  Decided(s, k, TakeFrom(k, far, near))
<1>. DEFINE n == k.counter[far] + 1
            step == Min({Max({n - StepThresh, 1}), k.split[far]})
            moved == MoveShare(k.split, far, near, step)
            counts == [e \in Cids |-> IF e = far THEN n ELSE 1]
<1>1. k.burst \in Nat \ {0}
  BY DEF Controlled
<1>2. far \in Cids /\ k.split[far] \in Nat /\ k.split[far] > 0 /\ far \in UpLinks(s) \cup {FirstUsed(k.split)}
  BY <1>1, UsedIs
<1>3. n \in Nat /\ StepThresh \in Nat
  BY <1>2, DelaySplitAssumption
<1>4. step \in 1 .. k.split[far]
  <2>1. n - StepThresh \in Int
    BY <1>3
  <2>2. PICK most \in Int : most = Max({n - StepThresh, 1}) /\ most >= 1
    <3>1. PICK x \in Int : x = n - StepThresh
      BY <2>1
    <3>2. Max({x, 1}) = IF x >= 1 THEN x ELSE 1
      BY MaxOfTwo
    <3>3. Max({x, 1}) \in Int /\ Max({x, 1}) >= 1
      BY <3>2
    <3>. QED  BY <3>1, <3>3
  <2>3. PICK share \in Int : share = k.split[far] /\ share >= 1
    BY <1>2
  <2>4. Min({most, share}) \in 1 .. share
    <3>1. Min({most, share}) = IF most <= share THEN most ELSE share
      BY MinOfTwo
    <3>. QED  BY <2>2, <2>3, <3>1
  <2>. QED  BY <2>2, <2>3, <2>4
<1>5. moved \in MeasuredSplits(s, k.split) /\ Adds(moved, k.burst)
  <2>. HIDE DEF step
  <2>. QED  BY <1>1, <1>2, <1>4, MoveIsMeasured
<1>6. counts \in [Cids -> Nat]
  BY <1>3
<1>7. TakeFrom(k, far, near) = [k EXCEPT !.split = moved, !.counter = counts]
  BY DEF TakeFrom
<1>. HIDE DEF moved, counts
<1>8. DOMAIN TakeFrom(k, far, near) = DOMAIN k /\ TakeFrom(k, far, near).burst = k.burst
      /\ TakeFrom(k, far, near).split = moved /\ TakeFrom(k, far, near).counter = counts
  BY <1>7 DEF Controlled
<1>. QED  BY <1>1, <1>5, <1>6, <1>8 DEF Decided, Controlled

\* The loss rule moves one packet, or returns to the low priority link.
LEMMA LossRuleIs ==
  ASSUME NEW s \in LinkStates, NEW k, Controlled(k), Adds(k.split, k.burst), k.counter \in [Cids -> Nat],
         NEW r \in Reports, NEW apart
  PROVE  Decided(s, k, LossRule(s, k, r, apart)) /\ LossRule(s, k, r, apart).counter \in [Cids -> Nat]
<1>. DEFINE up == UpLinks(s)
            worst == MostLossy(up \cap Used(k), Min(up), r.loss)
            best == LeastLossy(up, Min(up), r.loss)
            j == LossRule(s, k, r, apart)
            worse == up # {} /\ Exceeds(r.loss[worst], r.loss[best], LossBound)
            return == k.burst = 1 /\ apart /\ s.low \in up
<1>0. Decided(s, k, k)
  BY DEF Decided
<1>1. k.burst \in Nat \ {0} /\ k.split \in [Cids -> Nat]
  BY DEF Controlled, Adds
<1>2. j = IF worse
          THEN IF k.split[worst] > 0 THEN [k EXCEPT !.split = MoveShare(k.split, worst, best, 1)] ELSE k
          ELSE IF return THEN [k EXCEPT !.split = AllTo(s.low, 1)] ELSE k
  BY DEF LossRule
<1>3. ASSUME NEW split, j = [k EXCEPT !.split = split],
             split \in MeasuredSplits(s, k.split), Adds(split, k.burst)
      PROVE  Decided(s, k, j) /\ j.counter \in [Cids -> Nat]
  <2>1. DOMAIN j = DOMAIN k /\ j.burst = k.burst /\ j.split = split /\ j.counter = k.counter
    BY <1>3 DEF Controlled
  <2>. QED  BY <1>1, <1>3, <2>1 DEF Decided, Controlled
<1>4. CASE worse /\ k.split[worst] > 0
  <2>1. Min(up) \in up /\ up \in SUBSET Cids
    BY <1>4, MaxMinIn DEF UpLinks
  <2>2. worst \in up /\ best \in up
    BY <2>1, MostLossyIn, LeastLossyIn DEF Reports
  <2>. HIDE DEF up, worst, best
  <2>3. 1 \in 1 .. k.split[worst]
    BY <1>1, <1>4, <2>1, <2>2
  <2>4. /\ MoveShare(k.split, worst, best, 1) \in MeasuredSplits(s, k.split)
        /\ Adds(MoveShare(k.split, worst, best, 1), k.burst)
    BY <1>1, <2>2, <2>3, MoveIsMeasured DEF up
  <2>5. j = [k EXCEPT !.split = MoveShare(k.split, worst, best, 1)]
    <3>. HIDE DEF worse, return
    <3>. QED  BY <1>2, <1>4
  <2>. QED  BY <1>3, <2>4, <2>5
<1>5. CASE ~worse /\ return
  <2>1. s.low \in Cids
    BY DEF LinkStates
  <2>2. Adds(AllTo(s.low, 1), k.burst)
    BY <1>5, <2>1, BurstOfAllTo DEF Adds
  <2>3. AllTo(s.low, 1) \in MeasuredSplits(s, k.split)
    <3>1. Burst(k.split) = 1 /\ s.low \in UpLinks(s)
      BY <1>5 DEF Adds
    <3>. QED  BY <3>1 DEF MeasuredSplits
  <2>. HIDE DEF worse, return
  <2>4. j = [k EXCEPT !.split = AllTo(s.low, 1)]
    BY <1>2, <1>5
  <2>. QED  BY <1>3, <2>2, <2>3, <2>4
<1>6. CASE (worse /\ ~(k.split[worst] > 0)) \/ (~worse /\ ~return)
  <2>. HIDE DEF worse, return, worst
  <2>1. j = k
    BY <1>2, <1>6
  <2>. QED  BY <1>0, <2>1
<1>. QED  BY <1>4, <1>5, <1>6 DEF j

\* Whatever is measured, the algorithm decides on a split that GmaControl chooses
\* from (DelayAlgorithm, gma-rx-control.cc).
LEMMA DelayAlgorithmIs ==
  ASSUME NEW s \in LinkStates, NEW k0, Controlled(k0), NEW r \in Reports, NEW j \in DelayAlgorithm(s, k0, r)
  PROVE  LET start == Started(s, k0.split, k0.burst)
         IN  /\ Controlled(j) /\ j.burst = k0.burst /\ Adds(j.split, j.burst)
             /\ j.split \in {start} \cup MeasuredSplits(s, start)
<1>. DEFINE k == StartControl(s, k0, r)
            far == MostDelayed(UpLinks(s) \cap Used(k), FirstUsed(k.split), r.delay)
            near == LeastDelayed(UpLinks(s), FirstUsed(k.split), r.delay)
            even == [k EXCEPT !.counter = [c \in Cids |-> 1]]
            stored == [c \in Cids |-> Stored(r.delay[c])]
            Moves == {IF rising THEN TakeFrom(k, far, near) ELSE k : rising \in NotFalling(k, r, far)}
            Rest == LossRule(s, even, r, near # far)
<1>1. /\ Controlled(k) /\ k.split = Started(s, k0.split, k0.burst) /\ k.burst = k0.burst
      /\ Adds(k.split, k.burst) /\ k.counter \in [Cids -> Nat] /\ k.burst \in Nat \ {0}
  BY StartControlIs DEF Controlled
<1>2. PICK i \in (IF r.delay[far] > r.delay[near] + DelayThresh THEN Moves ELSE {Rest}) :
        j = [i EXCEPT !.owd = stored]
  BY DEF DelayAlgorithm
<1>. HIDE DEF k
<1>3. r.delay \in [Cids -> Nat] /\ r.loss \in [Cids -> Rates]
  BY DEF Reports
<1>4. UpLinks(s) \in SUBSET Cids /\ FirstUsed(k.split) \in Cids
  BY <1>1, UsedIs DEF UpLinks
<1>5. /\ far \in (UpLinks(s) \cap Used(k)) \cup {FirstUsed(k.split)}
      /\ near \in UpLinks(s) \cup {FirstUsed(k.split)}
  BY <1>3, <1>4, MostDelayedIn, LeastDelayedIn
<1>6. Decided(s, k, i)
  <2>1. CASE i \in Moves
    <3>1. i = TakeFrom(k, far, near) \/ i = k
      <4>. HIDE DEF far, near
      <4>. QED  BY <2>1
    <3>2. Decided(s, k, k)
      BY <1>1 DEF Decided
    <3>3. Decided(s, k, TakeFrom(k, far, near))
      BY <1>1, <1>5, TakeFromIs
    <3>. QED  BY <3>1, <3>2, <3>3
  <2>2. CASE i = Rest
    <3>1. /\ even.split = k.split /\ even.burst = k.burst /\ even.counter = [c \in Cids |-> 1]
          /\ DOMAIN even = DOMAIN k
      BY <1>1 DEF Controlled
    <3>2. Controlled(even) /\ Adds(even.split, even.burst) /\ even.counter \in [Cids -> Nat]
      BY <1>1, <3>1 DEF Controlled
    <3>. HIDE DEF even
    <3>3. Decided(s, even, i)
      BY <2>2, <3>2, LossRuleIs
    <3>. QED  BY <3>1, <3>3 DEF Decided
  <2>. QED  BY <1>2, <2>1, <2>2
<1>7. Controlled(i)
  BY <1>6 DEF Decided
<1>8. DOMAIN j = DOMAIN i /\ j.split = i.split /\ j.burst = i.burst /\ j.counter = i.counter
  <2>. HIDE DEF stored
  <2>. QED  BY <1>2, <1>7 DEF Controlled
<1>9. Controlled(j)
  BY <1>7, <1>8 DEF Controlled
<1>. QED  BY <1>1, <1>6, <1>8, <1>9 DEF Decided

-----------------------------------------------------------------------------
(* Steps                                                                   *)

LEMMA AppendedSplits ==
  ASSUME NEW q, NEW burst, AllSplit(q, burst), NEW k \in [Cids -> Nat], Burst(k) = burst
  PROVE  AllSplit(Append(q, k), burst) /\ Append(q, k) # <<>>
<1>1. q \in Seq([Cids -> Nat]) /\ Len(q) \in Nat
  BY DEF AllSplit
<1>2. /\ Append(q, k) \in Seq([Cids -> Nat]) /\ Len(Append(q, k)) = Len(q) + 1
      /\ \A i \in 1 .. Len(q) + 1 : Append(q, k)[i] = IF i = Len(q) + 1 THEN k ELSE q[i]
  BY <1>1
<1>3. Append(q, k) # <<>>
  BY <1>1
<1>4. ASSUME NEW i \in 1 .. Len(q) + 1
      PROVE  Burst(Append(q, k)[i]) = burst
  <2>1. CASE i = Len(q) + 1
    BY <1>2, <2>1
  <2>2. CASE i # Len(q) + 1
    <3>1. i \in 1 .. Len(q)
      BY <1>1, <2>2
    <3>. QED  BY <1>2, <2>2, <3>1 DEF AllSplit
  <2>. QED  BY <2>1, <2>2
<1>. QED  BY <1>2, <1>3, <1>4 DEF AllSplit

\* What the step leaves when the manager and the devices become x and the losses
\* are counted by it.
LEMMA BecomeIs ==
  ASSUME NEW x, NEW losses, Pair(x, losses), Become(x, losses)
  PROVE  Managed(m)' /\ Counted(dev, lost)'
BY DEF Become, Pair

\* The interval has ended and the next has not begun.
Between(x, losses) ==
  /\ x = [m |-> x.m, dev |-> x.dev] /\ Counted(x.dev, losses)
  /\ DOMAIN x.m = {"on", "index", "started", "elapsed", "thresh", "updated"}
  /\ x.m.on = TRUE /\ x.m.started = FALSE /\ x.m.index \in 0 .. MaxMeasureInterval

\* The decision at the end of a cycle: nothing changes and the next cycle begins,
\* or a TSU is sent and nothing is measured until it is answered.
LEMMA DecideStep ==
  ASSUME IInv, NEW y, NEW losses, Between(y, losses),
         NEW r \in Reports, NEW k \in DelayAlgorithm(ls, control, r), Decide(y, k, losses),
         UNCHANGED <<ls, carries, queue, scenario>>
  PROVE  /\ IInv'
         /\ control'.split \in LET start == Started(ls, control.split, control.burst)
                               IN  {start} \cup MeasuredSplits(ls, start)
<1>1. /\ Controlled(k) /\ k.burst = control.burst /\ Adds(k.split, k.burst)
      /\ k.split \in LET start == Started(ls, control.split, control.burst)
                     IN  {start} \cup MeasuredSplits(ls, start)
  BY DelayAlgorithmIs DEF IInv
<1>2. control' = k
  BY DEF Decide
<1>3. CASE Become(MeasureCycleStart(y), NoLoss) /\ UNCHANGED tsus
  <2>1. Pair(MeasureCycleStart(y), NoLoss) /\ MeasureCycleStart(y).m.on
    BY MeasureCycleStartIs DEF Between
  <2>2. Managed(m)' /\ Counted(dev, lost)' /\ m'.on
    BY <1>3, <2>1, BecomeIs DEF Become
  <2>. QED  BY <1>1, <1>2, <1>3, <2>2 DEF IInv
<1>4. CASE Become([y EXCEPT !.m.on = FALSE], losses) /\ SendTsu(k.split)
  <2>1. m' = [y.m EXCEPT !.on = FALSE] /\ dev' = y.dev /\ lost' = losses
    BY <1>4 DEF Become, Between
  <2>2. Managed(m)'
    BY <2>1 DEF Between, Managed
  <2>3. Counted(dev, lost)'
    BY <2>1 DEF Between
  <2>4. k.split \in [Cids -> Nat] /\ Burst(k.split) = control.burst
    BY <1>1 DEF Adds
  <2>5. tsus' = Append(tsus, k.split) 
    BY <1>4 DEF SendTsu
  <2>6. AllSplit(tsus', control.burst) /\ tsus' # <<>>
    BY <2>4, <2>5, AppendedSplits DEF IInv
  <2>. QED  BY <1>1, <1>2, <2>2, <2>3, <2>6 DEF IInv
<1>. QED  BY <1>1, <1>2, <1>3, <1>4 DEF Decide

\* The parts of the receiver that no packet changes are unchanged.
Unmoved == UNCHANGED <<ls, carries, queue, scenario>>

\* Averaging the delays ends the interval, and a report keeps what is counted.
LEMMA AveragedIs ==
  ASSUME NEW x, NEW losses, Pair(x, losses), x.m.started
  PROVE  Between(Averaged(x), losses)
<1>. DEFINE devices == [c \in Cids |-> AverageOwd(x.dev[c])]
            manager == [x.m EXCEPT !.started = FALSE]
<1>1. Averaged(x) = [m |-> manager, dev |-> devices]
  BY DEF Averaged
<1>2. Counted(devices, losses)
  <2>1. \A c \in Cids : SameCounts(x.dev[c], devices[c])
    BY AverageOwdIs DEF Pair, Counted
  <2>2. devices \in [Cids -> Devices]
    BY <2>1 DEF SameCounts
  <2>. HIDE DEF devices
  <2>. QED  BY <2>1, <2>2, CountedOn DEF Pair
<1>3. /\ DOMAIN manager = DOMAIN x.m /\ manager.started = FALSE
      /\ manager.on = x.m.on /\ manager.index = x.m.index
  BY DEF Pair, Managed
<1>4. x.m.on = TRUE
  BY DEF Pair, Managed
<1>. HIDE DEF devices, manager
<1>. QED  BY <1>1, <1>2, <1>3, <1>4 DEF Between, Pair, Managed

LEMMA CycleReportIs ==
  ASSUME NEW x, NEW losses, Between(x, losses), NEW due
  PROVE  Between(CycleReport(x, due), losses)
<1>. DEFINE filled == [c \in Cids |-> FillOwd(x.dev[c])]
            y == [x EXCEPT !.dev = filled]
            mins == [c \in Cids |-> [y.dev[c] EXCEPT !.lastMin = y.dev[c].currentMin, !.currentMin = Unknown]]
            z == [m |-> [y.m EXCEPT !.updated = TRUE], dev |-> mins]
<1>1. CycleReport(x, due) = IF ~y.m.updated \/ due THEN z ELSE y
  BY DEF CycleReport, UpdateMinOwdCheck, UpdateAllMinOwd
<1>2. Between(y, losses)
  <2>1. \A c \in Cids : SameCounts(x.dev[c], filled[c])
    BY FillOwdIs DEF Between, Counted
  <2>2. filled \in [Cids -> Devices]
    BY <2>1 DEF SameCounts
  <2>. HIDE DEF filled
  <2>3. Counted(filled, losses)
    BY <2>1, <2>2, CountedOn DEF Between
  <2>4. y = [m |-> x.m, dev |-> filled]
    BY DEF Between
  <2>. HIDE DEF y
  <2>. QED  BY <2>3, <2>4 DEF Between
<1>. HIDE DEF y
<1>3. Between(z, losses)
  <2>1. \A c \in Cids : SameCounts(y.dev[c], mins[c])
    BY <1>2, NewMinIs DEF Between, Counted
  <2>2. mins \in [Cids -> Devices]
    BY <2>1 DEF SameCounts
  <2>. HIDE DEF mins
  <2>3. Counted(mins, losses)
    BY <1>2, <2>1, <2>2, CountedOn DEF Between
  <2>4. /\ DOMAIN z.m = DOMAIN y.m /\ z.m.on = y.m.on
        /\ z.m.started = y.m.started /\ z.m.index = y.m.index
    BY <1>2 DEF Between
  <2>. QED  BY <1>2, <2>3, <2>4 DEF Between
<1>. HIDE DEF z
<1>. QED  BY <1>1, <1>2, <1>3

\* The end of an interval: another one, or the end of the cycle.
LEMMA IntervalEndStep ==
  ASSUME IInv, Unmoved, NEW x, NEW losses, Pair(x, losses), x.m.started, MeasureIntervalEnd(x, losses)
  PROVE  /\ IInv'
         /\ control'.split \in LET start == Started(ls, control.split, control.burst)
                               IN  {control.split, start} \cup MeasuredSplits(ls, start)
<1>1. PICK y : y = Averaged(x) /\ (NextInterval(y, losses) \/ CycleEnds(y, losses))
  BY DEF MeasureIntervalEnd
<1>2. Between(y, losses)
  BY <1>1, AveragedIs
<1>3. CASE NextInterval(y, losses)
  <2>1. y.m.index \in 0 .. MaxMeasureInterval - 1
    BY <1>2, <1>3, MeasureCycleAssumption DEF NextInterval, CycleIsOver, Between
  <2>2. Pair(MeasureIntervalStart(y), losses) /\ MeasureIntervalStart(y).m.on
    BY <1>2, <2>1, MeasureIntervalStartIs DEF Between
  <2>3. Managed(m)' /\ Counted(dev, lost)' /\ m'.on
    BY <1>3, <2>2, BecomeIs DEF NextInterval, Become
  <2>4. UNCHANGED <<control, tsus>>
    BY <1>3 DEF NextInterval
  <2>. QED  BY <2>3, <2>4 DEF IInv, Unmoved
<1>4. CASE CycleEnds(y, losses)
  <2>1. PICK due, z : z = CycleReport(y, due) /\
          \E k \in DelayAlgorithm(ls, control, RxMeasurement(z.dev)) : Decide(z, k, losses)
    BY <1>4 DEF CycleEnds
  <2>2. Between(z, losses)
    BY <1>2, <2>1, CycleReportIs
  <2>3. RxMeasurement(z.dev) \in Reports
    BY <2>2, RxMeasurementIs DEF Between, Counted
  <2>. QED  BY <2>1, <2>2, <2>3, DecideStep DEF Unmoved
<1>. QED  BY <1>1, <1>3, <1>4

\* A packet that starts the first interval of a cycle, or does not.
LEMMA StartCheckIs ==
  ASSUME NEW x, NEW losses, Pair(x, losses), x.m.on, NEW p
  PROVE  LET y == MeasureIntervalStartCheck(x, p)
         IN  Pair(y, losses) /\ y.m.on /\ \A c \in Cids : SameCounts(x.dev[c], y.dev[c])
<1>1. CASE p.inOrder /\ p.fresh /\ ~x.m.started
  <2>1. x.m.on = TRUE /\ x.m.index \in 0 .. MaxMeasureInterval - 1
    BY <1>1, MeasureCycleAssumption DEF Pair, Managed
  <2>. QED  BY <1>1, <2>1, MeasureIntervalStartIs DEF Pair, Managed, MeasureIntervalStartCheck
<1>2. CASE ~(p.inOrder /\ p.fresh /\ ~x.m.started)
  BY <1>2 DEF MeasureIntervalStartCheck, Pair, Counted, SameCounts
<1>. QED  BY <1>1, <1>2

\* A packet with the number that comes next, or next but one, is counted with
\* what it leaves out.
LEMMA SampleIs ==
  ASSUME NEW x, NEW losses, Pair(x, losses), NEW c \in Cids, NEW gap \in 0 .. 1, NEW p,
         p.owd \in Nat, p.lsn \in 0 .. LsnSpace - 1,
         IF x.dev[c].inOrder > 0 THEN p.lsn = (x.dev[c].lastLsn + 1 + gap) % LsnSpace ELSE gap = 0
  PROVE  Pair(Sampled(x, c, p), [losses EXCEPT ![c] = losses[c] + gap]) /\ Sampled(x, c, p).m = x.m
<1>. DEFINE d == UpdateLastPacketOwd(x.dev[c], p.owd, TRUE)
            e == UpdateLsn(d, p.lsn)
            devices == [x.dev EXCEPT ![c] = e]
<1>1. Sampled(x, c, p) = [x EXCEPT !.dev = devices]
  BY DEF Sampled, DataMeasurementSample
<1>2. SameCounts(x.dev[c], d)
  BY UpdateLastPacketOwdIs DEF Pair, Counted
<1>. HIDE DEF d
<1>3. e \in Devices /\ e.missing = x.dev[c].missing + gap
  BY <1>2, UpdateLsnIs DEF SameCounts
<1>. HIDE DEF e
<1>4. Counted(devices, [losses EXCEPT ![c] = losses[c] + gap])
  BY <1>3 DEF Pair, Counted
<1>5. Sampled(x, c, p) = [m |-> x.m, dev |-> devices]
  BY <1>1 DEF Pair
<1>. HIDE DEF devices
<1>. QED  BY <1>4, <1>5 DEF Pair

\* A packet arrives.
LEMMA ReceiveStep ==
  ASSUME IInv, NEW c \in Cids, Receive(c)
  PROVE  /\ IInv'
         /\ control'.split \in LET start == Started(ls, control.split, control.burst)
                               IN  {control.split, start} \cup MeasuredSplits(ls, start)
<1>1. PICK pause \in scenario.pauses, gap \in 0 .. 1, fresh \in BOOLEAN :
        /\ Arrival(c, gap, fresh)
        /\ \E q \in {Packet(c, gap, fresh)}, now \in {IF m.started THEN [m EXCEPT !.elapsed = @ + pause] ELSE m} :
             Measure(now, c, q, [lost EXCEPT ![c] = @ + gap])
  BY DEF Receive
<1>. DEFINE p == Packet(c, gap, fresh)
            losses == [lost EXCEPT ![c] = lost[c] + gap]
<1>2. PICK now : /\ now = m \/ now = [m EXCEPT !.elapsed = m.elapsed + pause]
                 /\ Measure(now, c, p, losses)
  BY <1>1
<1>3. m.on /\ Unmoved
  BY <1>1 DEF Receive, Unmoved, Arrival, Event
<1>. DEFINE x0 == [m |-> now, dev |-> dev]
<1>4. Pair(x0, lost) /\ x0.m.on
  <2>1. DOMAIN now = DOMAIN m /\ now.on = m.on /\ now.started = m.started /\ now.index = m.index
    BY <1>2 DEF IInv, Managed
  <2>. QED  BY <1>3, <2>1 DEF Pair, IInv, Managed
<1>5. PICK x, y : /\ x = MeasureIntervalStartCheck(x0, p) /\ y = Sampled(x, c, p)
                  /\ IF IntervalIsOver(y, control.burst) THEN MeasureIntervalEnd(y, losses)
                     ELSE Become(y, losses) /\ UNCHANGED <<control, tsus, waiting>>
  BY <1>2 DEF Measure
<1>6. Pair(x, lost) /\ x.m.on /\ SameCounts(dev[c], x.dev[c])
  <2>. HIDE DEF x0, p
  <2>1. Pair(x, lost) /\ x.m.on /\ SameCounts(x0.dev[c], x.dev[c])
    BY <1>4, <1>5, StartCheckIs
  <2>. QED  BY <2>1 DEF x0
<1>7. p.owd \in Nat /\ p.lsn \in 0 .. LsnSpace - 1
      /\ IF x.dev[c].inOrder > 0 THEN p.lsn = (x.dev[c].lastLsn + 1 + gap) % LsnSpace ELSE gap = 0
  <2>1. p.owd = Propagation[c] + queue[c]
        /\ p.lsn = IF Heard(c) THEN (dev[c].lastLsn + 1 + gap) % LsnSpace ELSE FirstLsn
    BY DEF Packet
  <2>2. p.owd \in Nat
    BY <2>1, GmaReceiverAssumption DEF IInv
  <2>3. /\ dev[c].inOrder \in Nat /\ dev[c].abnormal = 0 /\ dev[c].lastLsn \in 0 .. LsnSpace - 1
        /\ x.dev[c].inOrder = dev[c].inOrder /\ x.dev[c].lastLsn = dev[c].lastLsn
    BY <1>6 DEF IInv, Counted, Devices, SameCounts
  <2>4. Heard(c) <=> x.dev[c].inOrder > 0
    BY <2>3 DEF Heard
  <2>5. FirstLsn \in 0 .. LsnSpace - 1 /\ LsnSpace \in Nat /\ LsnSpace >= 6
    BY GmaReceiverAssumption, MeasureCycleAssumption
  <2>6. (dev[c].lastLsn + 1 + gap) % LsnSpace \in 0 .. LsnSpace - 1
    BY <2>3, <2>5
  <2>7. ~Heard(c) => gap = 0
    BY <1>1 DEF Arrival
  <2>. HIDE DEF p
  <2>. QED  BY <2>1, <2>2, <2>3, <2>4, <2>5, <2>6, <2>7
<1>8. Pair(y, losses) /\ y.m = x.m
  <2>. HIDE DEF p
  <2>1. Pair(Sampled(x, c, p), losses) /\ Sampled(x, c, p).m = x.m
    BY <1>6, <1>7, SampleIs
  <2>. QED  BY <1>5, <2>1
<1>. HIDE DEF p, losses, x0
<1>9. CASE IntervalIsOver(y, control.burst)
  <2>1. y.m.started /\ MeasureIntervalEnd(y, losses)
    BY <1>5, <1>9 DEF IntervalIsOver
  <2>. QED  BY <1>3, <1>8, <2>1, IntervalEndStep
<1>10. CASE ~IntervalIsOver(y, control.burst)
  <2>1. Become(y, losses) /\ UNCHANGED <<control, tsus>>
    BY <1>5, <1>10
  <2>2. Managed(m)' /\ Counted(dev, lost)' /\ m' = y.m
    BY <1>8, <2>1, BecomeIs DEF Become
  <2>. QED  BY <1>3, <1>6, <1>8, <2>1, <2>2 DEF IInv, Unmoved
<1>. QED  BY <1>9, <1>10

\* A probe or an ACK arrives.
LEMMA ProbeStep ==
  ASSUME IInv, NEW c \in Cids, RecvProbe(c) \/ RecvAck(c)
  PROVE  IInv' /\ UNCHANGED control
<1>. DEFINE owd == Propagation[c] + queue[c]
<1>1. owd \in Nat /\ owd + Propagation[c] \in Nat /\ owd + Propagation[c] >= owd
  BY GmaReceiverAssumption DEF IInv
<1>2. PICK e : e \in Devices /\ e.missing = dev[c].missing /\ dev' = [dev EXCEPT ![c] = e]
  <2>1. dev[c] \in Devices
    BY DEF IInv, Counted
  <2>. HIDE DEF owd
  <2>2. SameCounts(dev[c], UpdateLastPacketOwd(dev[c], owd, FALSE))
    BY <1>1, <2>1, UpdateLastPacketOwdIs
  <2>3. SameCounts(dev[c], UpdateRtt(dev[c], owd + Propagation[c], owd))
    BY <1>1, <2>1, UpdateRttIs
  <2>4. \/ dev' = [dev EXCEPT ![c] = UpdateLastPacketOwd(dev[c], owd, FALSE)]
        \/ dev' = [dev EXCEPT ![c] = UpdateRtt(dev[c], owd + Propagation[c], owd)]
    BY DEF RecvProbe, RecvAck, owd
  <2>. QED  BY <2>2, <2>3, <2>4 DEF SameCounts
<1>3. UNCHANGED <<m, control, ls, tsus, carries, queue, lost, scenario>>
  BY DEF RecvProbe, RecvAck, Event
<1>4. Counted(dev, lost)'
  BY <1>2, <1>3 DEF IInv, Counted
<1>. QED  BY <1>3, <1>4 DEF IInv

\* A split that adds up to something gives some link something.
LEMMA SomeLinkIsUsed ==
  ASSUME NEW k \in [Cids -> Nat], NEW burst \in Nat \ {0}, Burst(k) = burst
  PROVE  Links(k) # {}
<1>1. SumFunctionOnSet(k, Cids) = burst
  BY BurstOnCids
<1>2. SUFFICES ASSUME \A c \in Cids : k[c] = 0 PROVE FALSE
  BY DEF Links
<1>3. SumFunctionOnSet(k, Cids) = 0
  BY <1>2, CidsFinite, SumZero
<1>. QED  BY <1>1, <1>3

\* The TSA of one of the TSUs arrives: the next cycle begins.
LEMMA RecvTsaStep ==
  ASSUME IInv, RecvTsa
  PROVE  IInv' /\ UNCHANGED control
<1>1. PICK i \in 1 .. Len(tsus) : tsus' = SubSeq(tsus, i + 1, Len(tsus)) /\ carries' = Links(tsus[i])
  BY DEF RecvTsa
<1>2. UNCHANGED <<control, ls, queue, scenario>>
  BY DEF RecvTsa
<1>3. tsus \in Seq([Cids -> Nat]) /\ Len(tsus) \in Nat /\ \A j \in 1 .. Len(tsus) : Burst(tsus[j]) = control.burst
  BY DEF IInv, AllSplit
<1>4. AllSplit(tsus', control.burst)
  <2>1. /\ tsus' \in Seq([Cids -> Nat]) /\ Len(tsus') = Len(tsus) - i
        /\ \A j \in 1 .. Len(tsus) - i : tsus'[j] = tsus[i + j]
    <3>. DEFINE q == SubSeq(tsus, i + 1, Len(tsus))
                l == Len(tsus)
    <3>1. i + 1 \in Int /\ l \in Int /\ i \in Int /\ i >= 1 /\ i <= l
      BY <1>3
    <3>2. \A j \in i + 1 .. l : tsus[j] \in [Cids -> Nat]
      <4>1. \A j \in i + 1 .. l : j \in 1 .. l
        BY <3>1
      <4>. QED  BY <1>3, <4>1
    <3>3. /\ q \in Seq([Cids -> Nat]) /\ Len(q) = IF i + 1 <= l THEN l - (i + 1) + 1 ELSE 0
          /\ \A j \in 1 .. l - (i + 1) + 1 : q[j] = tsus[(i + 1) + j - 1]
      <4>. HIDE DEF l
      <4>. QED  BY <3>1, <3>2, SubSeqProperties DEF l
    <3>. HIDE DEF q, l
    <3>4. Len(q) = l - i /\ l - (i + 1) + 1 = l - i
      BY <3>1, <3>3
    <3>5. \A j \in 1 .. l - i : q[j] = tsus[i + j]
      <4>1. \A j \in 1 .. l - i : (i + 1) + j - 1 = i + j
        BY <3>1
      <4>. QED  BY <3>3, <3>4, <4>1
    <3>. QED  BY <1>1, <3>3, <3>4, <3>5 DEF q, l
  <2>2. \A j \in 1 .. Len(tsus) - i : i + j \in 1 .. Len(tsus)
    BY <1>3
  <2>. QED  BY <1>3, <2>1, <2>2 DEF AllSplit
<1>5. carries' # {}
  <2>1. tsus[i] \in [Cids -> Nat] /\ Burst(tsus[i]) = control.burst
    BY <1>3
  <2>. QED  BY <1>1, <2>1, SomeLinkIsUsed DEF IInv, Controlled
<1>6. Managed(m)' /\ Counted(dev, lost)' /\ m'.on
  <2>. DEFINE x == [m |-> m, dev |-> dev]
  <2>1. Become(MeasureCycleStart(x), NoLoss)
    BY DEF RecvTsa
  <2>2. Pair(MeasureCycleStart(x), NoLoss) /\ MeasureCycleStart(x).m.on
    <3>1. Counted(x.dev, lost) /\ DOMAIN x.m = {"on", "index", "started", "elapsed", "thresh", "updated"}
      BY DEF IInv, Managed
    <3>. HIDE DEF x
    <3>. QED  BY <3>1, MeasureCycleStartIs
  <2>. HIDE DEF x
  <2>. QED  BY <2>1, <2>2, BecomeIs DEF Become
<1>. QED  BY <1>2, <1>4, <1>5, <1>6 DEF IInv

\* A link fails: its share is dealt to the others.
LEMMA LinkFailsStep ==
  ASSUME IInv, NEW c \in Cids, LinkFails(c)
  PROVE  IInv' /\ ls' # ls
<1>. DEFINE r == LinkDownTsu(ls', control.split, control.burst, c)
<1>1. /\ c \in UpLinks(ls) /\ ls' = LinkDown(ls, "ctrFailed", c)
      /\ control' = [control EXCEPT !.split = r.split]
      /\ IF r.update THEN SendTsu(r.tsu) ELSE UNCHANGED tsus
      /\ UNCHANGED <<m, dev, carries, queue, lost, scenario>>
  BY DEF LinkFails, Event
<1>2. ls' \in LinkStates /\ UpLinks(ls') = UpLinks(ls) \ {c}
  BY <1>1, LinkDownIs DEF IInv, Reasons
<1>3. ls' # ls
  BY <1>1, <1>2
<1>4. control.burst \in Nat \ {0} /\ (control.split = NoSplit \/ Adds(control.split, control.burst))
  BY DEF IInv, Controlled
<1>5. /\ r.split = NoSplit \/ Adds(r.split, control.burst)
      /\ r.update => Adds(r.tsu, control.burst)
  BY <1>2, <1>4, ShedAddsUp
<1>6. control.split = NoSplit => r.split = NoSplit
  BY DEF LinkDownTsu
<1>. HIDE DEF r
<1>7. Controlled(control') /\ control'.burst = control.burst
  <2>1. DOMAIN control' = DOMAIN control /\ control'.burst = control.burst
        /\ control'.split = r.split /\ control'.counter = control.counter
    BY <1>1 DEF IInv, Controlled
  <2>. QED  BY <1>4, <1>5, <1>6, <2>1 DEF IInv, Controlled
<1>8. AllSplit(tsus', control.burst) /\ (tsus # <<>> => tsus' # <<>>)
  <2>1. CASE r.update
    BY <1>1, <1>5, <2>1, AppendedSplits DEF SendTsu, IInv, Adds
  <2>2. CASE ~r.update
    BY <1>1, <2>2 DEF IInv
  <2>. QED  BY <2>1, <2>2
<1>. QED  BY <1>1, <1>2, <1>3, <1>7, <1>8 DEF IInv

\* A link is up again, or a queue grows or shrinks.
LEMMA OtherStep ==
  ASSUME IInv, NEW c \in Cids, LinkRecovers(c) \/ QueueChanges(c)
  PROVE  IInv' /\ UNCHANGED control
<1>1. CASE LinkRecovers(c)
  <2>1. ls' \in LinkStates
    BY <1>1, LinkUpIs DEF LinkRecovers, IInv, Reasons
  <2>. QED  BY <1>1, <2>1 DEF LinkRecovers, Event, IInv
<1>2. CASE QueueChanges(c)
  <2>1. scenario.queues \subseteq Nat
    BY GmaReceiverAssumption DEF IInv
  <2>2. queue' \in [Cids -> Nat]
    BY <1>2, <2>1 DEF QueueChanges, IInv
  <2>. QED  BY <1>2, <2>2 DEF QueueChanges, Event, IInv
<1>. QED  BY <1>1, <1>2

LEMMA InitIs == Init => IInv
<1>. SUFFICES ASSUME Init PROVE IInv
  OBVIOUS
<1>1. Managed(m)
  BY MeasureCycleAssumption DEF Init, NewManager, Managed
<1>2. Counted(dev, lost)
  <2>1. NewDevice \in Devices /\ NewDevice.missing = 0
    BY DelaySplitAssumption, MeasureCycleAssumption DEF NewDevice, Devices, Unknown
  <2>. QED  BY <2>1 DEF Init, Counted, NoLoss
<1>3. Controlled(control)
  <2>1. scenario.burst \in Nat \ {0}
    BY GmaReceiverAssumption DEF Init
  <2>. QED  BY <2>1 DEF Init, NoControl, Controlled
<1>4. ls \in LinkStates
  <2>1. AddedLinks \in LinkStates
    BY CidsFinite DEF AddedLinks, LinkStates
  <2>. QED  BY <2>1, LinkUpIs DEF Init, Reasons
<1>5. AllSplit(tsus, control.burst)
  BY DEF Init, AllSplit
<1>. QED  BY <1>1, <1>2, <1>3, <1>4, <1>5 DEF Init, IInv, NewManager

\* Every step keeps the invariant, and decides on a measured split unless the
\* links change.
LEMMA StepIs ==
  ASSUME IInv, Next
  PROVE  /\ IInv'
         /\ ls' = ls => control'.split \in LET start == Started(ls, control.split, control.burst)
                                           IN  {control.split, start} \cup MeasuredSplits(ls, start)
<1>1. ASSUME NEW c \in Cids, Receive(c)
      PROVE  /\ IInv'
             /\ control'.split \in LET start == Started(ls, control.split, control.burst)
                                   IN  {control.split, start} \cup MeasuredSplits(ls, start)
  BY <1>1, ReceiveStep
<1>2. ASSUME NEW c \in Cids, RecvProbe(c) \/ RecvAck(c) \/ LinkRecovers(c) \/ QueueChanges(c)
      PROVE  IInv' /\ UNCHANGED control
  BY <1>2, ProbeStep, OtherStep
<1>3. ASSUME NEW c \in Cids, LinkFails(c)
      PROVE  IInv' /\ ls' # ls
  BY <1>3, LinkFailsStep
<1>4. RecvTsa => IInv' /\ UNCHANGED control
  BY RecvTsaStep
<1>. QED  BY <1>1, <1>2, <1>3, <1>4 DEF Next

\* The inductive invariant holds.
LEMMA Inductive == Spec => []IInv
<1>1. IInv /\ [Next]_vars => IInv'
  <2>1. IInv /\ UNCHANGED vars => IInv'
    BY DEF vars, IInv
  <2>. QED  BY <2>1, StepIs
<1>. QED  BY InitIs, <1>1, PTL DEF Spec

\* The missing packets counted for a link are those that were lost since the first
\* packet of the cycle, also where the local numbers wrap around
\* (MeasureDevice::UpdateLsn, measurement-manager.cc), for any links, delays,
\* splits and order of packets, losses, failures and TSAs; and every flag, split
\* and round trip time is of the form TypeOK says.
THEOREM LossesCounted == Spec => []LossIsCounted
<1>1. IInv => LossIsCounted
  <2>. SUFFICES ASSUME IInv PROVE LossIsCounted
    OBVIOUS
  <2>1. \A c \in Cids : dev[c] \in Devices /\ dev[c].missing = lost[c] /\ dev[c].missing \in Nat /\ dev[c].abnormal = 0
    BY DEF IInv, Counted, Devices
  <2>2. \A c \in Cids : GetRtt(dev[c]) >= 0 /\ dev[c].lastLsn \in 0 .. LsnSpace - 1
    BY <2>1, GetRttIs DEF Devices
  <2>3. control.split = NoSplit \/ control.split \in Splits(control.burst)
    <3>1. SUFFICES ASSUME Adds(control.split, control.burst)
                   PROVE  control.split \in Splits(control.burst)
      BY DEF IInv, Controlled
    <3>2. /\ control.split \in [Cids -> Nat] /\ SumFunctionOnSet(control.split, Cids) = control.burst
          /\ control.burst \in Nat
      BY <3>1, BurstOnCids DEF Adds, IInv, Controlled
    <3>3. \A c \in Cids : control.split[c] <= control.burst
      BY <3>2, CidsFinite, SumCovers
    <3>4. control.split \in [Cids -> 0 .. control.burst]
      BY <3>2, <3>3
    <3>. QED  BY <3>1, <3>4 DEF Splits, Adds
  <2>4. TypeOK
    BY <2>2, <2>3 DEF IInv, Managed, TypeOK
  <2>5. \A c \in Cids : dev[c].missing - dev[c].abnormal = lost[c]
    BY <2>1
  <2>. QED  BY <2>4, <2>5 DEF LossIsCounted
<1>. QED  BY <1>1, Inductive, PTL

\* Whatever is measured and whatever links have failed, the receiver decides on one
\* of the splits that GmaControl chooses from (GmaRxControl::DelayAlgorithm).
THEOREM DecisionsMeasured == Spec => DecisionIsMeasured
<1>1. IInv /\ [Next]_vars =>
        (control'.split # control.split /\ ls' = ls
           => \E k \in {Started(ls, control.split, control.burst)} :
                control'.split \in {k} \cup MeasuredSplits(ls, k))
  <2>1. UNCHANGED vars => UNCHANGED control
    BY DEF vars
  <2>. QED  BY <2>1, StepIs
<1>2. IInv /\ [Next]_vars =>
        [control'.split # control.split /\ ls' = ls
           => \E k \in {Started(ls, control.split, control.burst)} :
                control'.split \in {k} \cup MeasuredSplits(ls, k)]_vars
  BY <1>1
<1>. QED  BY <1>2, Inductive, PTL DEF Spec, DecisionIsMeasured

=============================================================================
