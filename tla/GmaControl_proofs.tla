------------------------- MODULE GmaControl_proofs --------------------------
(***************************************************************************)
(* The control messages of two GMA interfaces, whatever the links, the     *)
(* bursts, the bounds, and the order of losses, retransmissions,           *)
(* measurements, actions and link failures: sequence numbers are unique,   *)
(* answers find the messages they answer, splits add up to the burst, a    *)
(* link that fails loses its share, and the default links are links that   *)
(* are up.                                                                 *)
(*                                                                         *)
(* What a method does to an interface is stated as a relation between the  *)
(* effect before and the effect after, and the relation is composed along  *)
(* the calls.  There are three: for the numbers only the counter and the   *)
(* queue of an interface matter, for the answers also what has been sent,  *)
(* for the splits the links and the split.                                 *)
(***************************************************************************)
EXTENDS GmaControl, TrafficSplit_proofs

Fields == {"ls", "split", "burst", "algorithm", "told", "csn", "queue", "maxTsu",
           "maxTsa", "maxMap", "marking", "power", "measuring"}

\* The numbers of interface i are in order.
Numbered(i) ==
  /\ DOMAIN i = Fields
  /\ i.csn \in Nat /\ i.csn < 65536
  /\ \A s \in DOMAIN i.queue : s \in i.queue[s].sns /\ i.queue[s].sns \subseteq 0 .. i.csn - 1
  /\ \A s, t \in DOMAIN i.queue : s # t => i.queue[s].sns \cap i.queue[t].sns = {}

\* The inductive invariant
NumbersInv == DOMAIN iface = Peers /\ \A n \in Peers : Numbered(iface[n])

IsEffect(e) == DOMAIN e = {"i", "out"} /\ DOMAIN e.i = Fields

\* The headers have numbers that i has not used, and as many as they need.
NextNumbers(i, headers) ==
  \A h \in headers : h.sn \in Nat /\ i.csn <= h.sn /\ h.sn < i.csn + Cardinality(headers)

\* f has the counter of e, and nothing waits that did not wait in e.
NoNewNumbers(e, f) ==
  /\ IsEffect(f) /\ f.i.csn = e.i.csn
  /\ \A s \in DOMAIN f.i.queue : s \in DOMAIN e.i.queue /\ f.i.queue[s] = e.i.queue[s]

\* f follows e with its numbers in order, unless they wrap.
Follows(e, f) == IsEffect(f) /\ (f.i.csn >= e.i.csn => Numbered(f.i))

-----------------------------------------------------------------------------

LEMMA AdvanceFields ==
  ASSUME NEW i, NEW k, NEW queue, DOMAIN i = Fields
  PROVE  /\ DOMAIN Advance(i, k, queue) = Fields
         /\ Advance(i, k, queue).csn = k % 65536
         /\ Advance(i, k, queue).queue = queue
BY DEF Advance, Fields

LEMMA SendingIs ==
  ASSUME NEW e, NEW headers
  PROVE  /\ DOMAIN SendCtrlMsgs(e, headers) = {"i", "out"}
         /\ SendCtrlMsgs(e, headers).i =
              Advance(e.i, e.i.csn + Cardinality(headers), Enqueue(e.i.queue, headers))
<1>1. DOMAIN SendCtrlMsgs(e, headers) = {"i", "out"}
  BY DEF SendCtrlMsgs
<1>2. SendCtrlMsgs(e, headers).i =
        Advance(e.i, e.i.csn + Cardinality(headers), Enqueue(e.i.queue, headers))
  BY DEF SendCtrlMsgs
<1> QED BY <1>1, <1>2

LEMMA SendingFields ==
  ASSUME NEW e, NEW headers, IsEffect(e)
  PROVE  LET f == SendCtrlMsgs(e, headers)
         IN  /\ IsEffect(f)
             /\ f.i.csn = (e.i.csn + Cardinality(headers)) % 65536
             /\ f.i.queue = Enqueue(e.i.queue, headers)
<1>1. DOMAIN e.i = Fields
  BY DEF IsEffect
<1> DEFINE j == Advance(e.i, e.i.csn + Cardinality(headers), Enqueue(e.i.queue, headers))
<1>2. DOMAIN j = Fields /\ j.csn = (e.i.csn + Cardinality(headers)) % 65536
      /\ j.queue = Enqueue(e.i.queue, headers)
  BY <1>1, AdvanceFields
<1> HIDE DEF j
<1>3. DOMAIN SendCtrlMsgs(e, headers) = {"i", "out"} /\ SendCtrlMsgs(e, headers).i = j
  BY SendingIs DEF j
<1> QED BY <1>2, <1>3 DEF IsEffect

LEMMA NoWrapAround ==
  ASSUME NEW a \in Nat, NEW b \in Nat, a < 65536, b < 65536, (a + b) % 65536 >= a
  PROVE  (a + b) % 65536 = a + b /\ a + b < 65536
<1>1. CASE a + b < 65536
  BY <1>1
<1>2. CASE a + b >= 65536
  <2>1. (a + b) % 65536 = a + b - 65536
    BY <1>2
  <2> QED BY <2>1
<1> QED BY <1>1, <1>2

\* Sending messages whose numbers are the next ones keeps the numbers in order.
LEMMA SendingNumbers ==
  ASSUME NEW e, NEW headers, IsEffect(e), Numbered(e.i),
         Cardinality(headers) \in Nat, Cardinality(headers) < 65536,
         NextNumbers(e.i, headers)
  PROVE  Follows(e, SendCtrlMsgs(e, headers))
<1> DEFINE f == SendCtrlMsgs(e, headers)
<1> HIDE DEF f
<1>1. IsEffect(f)
  BY SendingFields DEF f
<1>3. f.i.csn = (e.i.csn + Cardinality(headers)) % 65536
  BY SendingFields DEF f
<1>4. f.i.queue = Enqueue(e.i.queue, headers)
  BY SendingFields DEF f
<1>5. SUFFICES ASSUME f.i.csn >= e.i.csn PROVE Numbered(f.i)
  BY <1>1 DEF Follows, f
<1>6. f.i.csn = e.i.csn + Cardinality(headers) /\ f.i.csn \in Nat /\ f.i.csn < 65536
  BY <1>3, <1>5, NoWrapAround DEF Numbered
<1>7. DOMAIN f.i.queue = DOMAIN e.i.queue \cup {h.sn : h \in headers}
  BY <1>4 DEF Enqueue
<1>8. ASSUME NEW s \in DOMAIN f.i.queue
      PROVE  IF s \in DOMAIN e.i.queue THEN f.i.queue[s] = e.i.queue[s]
             ELSE s \in e.i.csn .. f.i.csn - 1 /\ f.i.queue[s].sns = {s}
  <2>1. CASE s \in DOMAIN e.i.queue
    BY <2>1, <1>4, <1>7 DEF Enqueue
  <2>2. CASE s \notin DOMAIN e.i.queue
    <3>1. s \in e.i.csn .. f.i.csn - 1
      <4>1. PICK h \in headers : s = h.sn
        BY <2>2, <1>7
      <4>2. h.sn \in Nat /\ e.i.csn <= h.sn /\ h.sn < f.i.csn
        BY <4>1, <1>6 DEF NextNumbers
      <4> QED BY <4>1, <4>2, <1>6 DEF Numbered
    <3>2. f.i.queue[s].sns = {s}
      BY <2>2, <1>4, <1>7 DEF Enqueue
    <3> QED BY <2>2, <3>1, <3>2
  <2> QED BY <2>1, <2>2
<1>9. e.i.csn \in Nat /\ \A u \in DOMAIN e.i.queue :
                            u \in e.i.queue[u].sns /\ e.i.queue[u].sns \subseteq 0 .. e.i.csn - 1
  BY DEF Numbered
<1>10. ASSUME NEW s \in DOMAIN f.i.queue
       PROVE  s \in f.i.queue[s].sns /\ f.i.queue[s].sns \subseteq 0 .. f.i.csn - 1
  BY <1>6, <1>8, <1>9
<1>11. ASSUME NEW s \in DOMAIN f.i.queue, NEW t \in DOMAIN f.i.queue, s # t
       PROVE  f.i.queue[s].sns \cap f.i.queue[t].sns = {}
  <2>1. CASE s \in DOMAIN e.i.queue /\ t \in DOMAIN e.i.queue
    BY <2>1, <1>8, <1>11 DEF Numbered
  <2>2. CASE s \in DOMAIN e.i.queue /\ t \notin DOMAIN e.i.queue
    BY <2>2, <1>8, <1>9
  <2>3. CASE s \notin DOMAIN e.i.queue /\ t \in DOMAIN e.i.queue
    BY <2>3, <1>8, <1>9
  <2>4. CASE s \notin DOMAIN e.i.queue /\ t \notin DOMAIN e.i.queue
    BY <2>4, <1>8, <1>11
  <2> QED BY <2>1, <2>2, <2>3, <2>4
<1> QED BY <1>1, <1>6, <1>10, <1>11 DEF Numbered, IsEffect

LEMMA TsuNumbers ==
  ASSUME NEW e, NEW split, IsEffect(e), Numbered(e.i)
  PROVE  Follows(e, SendTsu(e, split))
<1> DEFINE headers == {[type |-> "tsu", sn |-> e.i.csn, cid |-> Wifi, split |-> split]}
<1>1. Cardinality(headers) = 1
  BY FS_Singleton
<1>2. NextNumbers(e.i, headers)
  BY <1>1 DEF Numbered, NextNumbers
<1>3. Cardinality(headers) \in Nat /\ Cardinality(headers) < 65536
  BY <1>1
<1> HIDE DEF headers
<1>4. Follows(e, SendCtrlMsgs(e, headers))
  BY <1>2, <1>3, SendingNumbers
<1> QED BY <1>4 DEF SendTsu, headers

LEMMA NoNewNumbersFollow ==
  ASSUME NEW e, NEW f, IsEffect(e), Numbered(e.i), NoNewNumbers(e, f)
  PROVE  Numbered(f.i) /\ Follows(e, f)
BY DEF NoNewNumbers, Follows, Numbered, IsEffect

LEMMA MarkDownNumbers ==
  ASSUME NEW e, NEW why, NEW c, IsEffect(e)
  PROVE  NoNewNumbers(e, MarkDown(e, why, c))
BY DEF NoNewNumbers, MarkDown, IsEffect, Fields

LEMMA RememberNumbers ==
  ASSUME NEW e, NEW split, IsEffect(e)
  PROVE  NoNewNumbers(e, Remember(e, split))
BY DEF NoNewNumbers, Remember, IsEffect, Fields

\* What follows an effect without new numbers follows the effect.
LEMMA FollowsThrough ==
  ASSUME NEW e, NEW f, NEW g, NoNewNumbers(e, f), Follows(f, g)
  PROVE  Follows(e, g)
BY DEF NoNewNumbers, Follows

LEMMA ShedNumbers ==
  ASSUME NEW e, NEW c, IsEffect(e), Numbered(e.i)
  PROVE  Follows(e, Shed(e, c))
<1> DEFINE d == LinkDownTsu(e.i.ls, e.i.split, e.i.burst, c)
<1>1. Shed(e, c) = IF d.update THEN SendTsu(Remember(e, d.split), d.tsu)
                   ELSE Remember(e, d.split)
  BY DEF Shed
<1> HIDE DEF d
<1>2. NoNewNumbers(e, Remember(e, d.split))
  BY RememberNumbers
<1>3. Numbered(Remember(e, d.split).i) /\ Follows(e, Remember(e, d.split))
  BY <1>2, NoNewNumbersFollow
<1>4. Follows(Remember(e, d.split), SendTsu(Remember(e, d.split), d.tsu))
  BY <1>2, <1>3, TsuNumbers DEF NoNewNumbers
<1> QED BY <1>1, <1>2, <1>3, <1>4, FollowsThrough

LEMMA TakeDownNumbers ==
  ASSUME NEW e, NEW why, NEW c, IsEffect(e), Numbered(e.i)
  PROVE  Follows(e, TakeDown(e, why, c))
<1>1. NoNewNumbers(e, MarkDown(e, why, c))
  BY MarkDownNumbers
<1>2. Numbered(MarkDown(e, why, c).i) /\ Follows(e, MarkDown(e, why, c))
  BY <1>1, NoNewNumbersFollow
<1>3. Follows(MarkDown(e, why, c), Shed(MarkDown(e, why, c), c))
  BY <1>1, <1>2, ShedNumbers DEF NoNewNumbers
<1> QED BY <1>1, <1>2, <1>3, FollowsThrough DEF TakeDown

LEMMA FollowsOn ==
  ASSUME NEW e, NEW f, NEW g, Follows(e, f), NoNewNumbers(f, g)
  PROVE  Follows(e, g)
<1> SUFFICES ASSUME g.i.csn >= e.i.csn PROVE Numbered(g.i)
  BY DEF Follows, NoNewNumbers
<1>1. Numbered(f.i) /\ IsEffect(f)
  BY DEF Follows, NoNewNumbers
<1> QED BY <1>1, NoNewNumbersFollow

LEMMA NoNewNumbersThrough ==
  ASSUME NEW e, NEW f, NEW g, NoNewNumbers(e, f), NoNewNumbers(f, g)
  PROVE  NoNewNumbers(e, g)
BY DEF NoNewNumbers

-----------------------------------------------------------------------------
(* The receiving methods                                                   *)

LEMMA LinkUpNumbers ==
  ASSUME NEW e, NEW ls, IsEffect(e)
  PROVE  NoNewNumbers(e, [e EXCEPT !.i.ls = ls])
BY DEF NoNewNumbers, IsEffect, Fields

LEMMA ReplyNumbers ==
  ASSUME NEW e, NEW type, NEW m, IsEffect(e)
  PROVE  NoNewNumbers(e, Reply(e, type, m))
BY DEF NoNewNumbers, Reply, IsEffect, Fields

LEMMA ReadLinkMapNumbers ==
  ASSUME NEW e, NEW m, IsEffect(e), Numbered(e.i)
  PROVE  Follows(e, ReadLinkMap(e, m))
<1> DEFINE f == ObeyLinkMap(e, m)
<1>1. Follows(e, f)
  <2>1. NoNewNumbers(e, e)
    BY DEF NoNewNumbers
  <2>2. Follows(e, e)
    BY <2>1, NoNewNumbersFollow
  <2>3. Follows(e, TakeDown(e, "bitmapFailed", Wifi))
    BY TakeDownNumbers
  <2>4. Follows(e, [e EXCEPT !.i.ls = LinkUp(e.i.ls, "bitmapFailed", Wifi)])
    BY LinkUpNumbers, NoNewNumbersFollow
  <2> QED BY <2>2, <2>3, <2>4 DEF ObeyLinkMap
<1> HIDE DEF f
<1>2. NoNewNumbers(f, [f EXCEPT !.i.maxMap = m.sn])
  BY <1>1 DEF NoNewNumbers, Follows, IsEffect, Fields
<1>3. Follows(e, [f EXCEPT !.i.maxMap = m.sn])
  BY <1>1, <1>2, FollowsOn
<1> QED BY <1>3 DEF ReadLinkMap, f

LEMMA RecvProbeNumbers ==
  ASSUME NEW e, NEW m, IsEffect(e), Numbered(e.i)
  PROVE  Follows(e, RecvProbe(e, m))
<1>1. Follows(e, ReadLinkMap(e, m)) /\ IsEffect(ReadLinkMap(e, m))
  BY ReadLinkMapNumbers DEF Follows
<1> QED BY <1>1, ReplyNumbers, FollowsOn DEF RecvProbe

LEMMA RecvTsuNumbers ==
  ASSUME NEW n, NEW e, NEW m, IsEffect(e), Numbered(e.i)
  PROVE  Follows(e, RecvTsu(n, e, m))
<1> DEFINE f == ReadLinkMap(e, m)
           g == ObeyTsu(n, f, m)
<1>1. Follows(e, f) /\ IsEffect(f)
  BY ReadLinkMapNumbers DEF Follows
<1> HIDE DEF f
<1>2. NoNewNumbers(f, g)
  BY <1>1 DEF ObeyTsu, NoNewNumbers, IsEffect, Fields
<1> HIDE DEF g
<1>3. NoNewNumbers(g, Reply(g, "tsa", m))
  BY <1>2, ReplyNumbers DEF NoNewNumbers
<1>4. Follows(e, Reply(g, "tsa", m))
  BY <1>1, <1>2, <1>3, FollowsOn
<1> QED BY <1>4 DEF RecvTsu, f, g

LEMMA SettleNumbers ==
  ASSUME NEW e, NEW S, IsEffect(e)
  PROVE  NoNewNumbers(e, Settle(e, S))
BY DEF Settle, Without, NoNewNumbers, IsEffect, Fields

LEMMA StartCycleNumbers ==
  ASSUME NEW n, NEW e, NEW m, IsEffect(e)
  PROVE  NoNewNumbers(e, StartCycle(n, e, m))
BY DEF StartCycle, NoNewNumbers, IsEffect, Fields

LEMMA RecvAckNumbers ==
  ASSUME NEW n, NEW e, NEW m, IsEffect(e), Numbered(e.i)
  PROVE  Follows(e, RecvAck(n, e, m))
<1> DEFINE settled == {s \in DOMAIN e.i.queue : m.sn \in e.i.queue[s].sns}
           f == Settle(e, settled)
           g == StartCycle(n, f, m)
           h == [g EXCEPT !.i.ls = LinkUp(g.i.ls, "ctrFailed", m.cid)]
<1>1. RecvAck(n, e, m) = IF settled = {} THEN e ELSE h
  BY DEF RecvAck
<1> HIDE DEF settled
<1>2. NoNewNumbers(e, f)
  BY SettleNumbers
<1>3. NoNewNumbers(f, g)
  <2> HIDE DEF f
  <2> QED BY <1>2, StartCycleNumbers DEF NoNewNumbers
<1>4. NoNewNumbers(g, h)
  <2> HIDE DEF g
  <2> QED BY <1>3, LinkUpNumbers DEF NoNewNumbers
<1> HIDE DEF f, g, h
<1>5. NoNewNumbers(e, h)
  BY <1>2, <1>3, <1>4, NoNewNumbersThrough
<1>6. NoNewNumbers(e, e)
  BY DEF NoNewNumbers
<1> QED BY <1>1, <1>5, <1>6, NoNewNumbersFollow

-----------------------------------------------------------------------------
(* The actions                                                             *)

LEMMA GiveUpNumbers ==
  ASSUME NEW i, NEW s, IsEffect(Effect(i)), Numbered(i)
  PROVE  Follows(Effect(i), GiveUp(i, s))
<1> DEFINE f == TakeDown(Effect(i), "ctrFailed", i.queue[s].header.cid)
<1>1. Effect(i).i = i
  BY DEF Effect
<1>2. Follows(Effect(i), f) /\ IsEffect(f)
  BY <1>1, TakeDownNumbers DEF Follows
<1> HIDE DEF f
<1>3. NoNewNumbers(f, Settle(f, {s}))
  BY <1>2, SettleNumbers
<1>4. Follows(Effect(i), Settle(f, {s}))
  BY <1>2, <1>3, FollowsOn
<1> QED BY <1>4 DEF GiveUp, f

LEMMA ResendNumbers ==
  ASSUME NEW i, NEW s \in DOMAIN i.queue, IsEffect(Effect(i)), Numbered(i)
  PROVE  Follows(Effect(i), Resend(i, s))
<1> DEFINE h     == [i.queue[s].header EXCEPT !.sn = i.csn]
           item  == [header |-> h, sns |-> i.queue[s].sns \cup {h.sn}]
           queue == [i.queue EXCEPT ![s] = item]
           j     == Advance(i, i.csn + 1, queue)
<1>1. Effect(i).i = i /\ DOMAIN i = Fields
  BY DEF Effect, IsEffect
<1>2. Resend(i, s) = [i |-> j, out |-> Copies(i, h)]
  BY DEF Resend
<1>3. DOMAIN Resend(i, s) = {"i", "out"} /\ Resend(i, s).i = j
  <2> HIDE DEF j, h
  <2> QED BY <1>2
<1>4. item.sns = i.queue[s].sns \cup {i.csn}
  BY DEF item
<1> HIDE DEF item
<1>5. DOMAIN queue = DOMAIN i.queue /\ queue[s] = item
      /\ \A t \in DOMAIN i.queue : t # s => queue[t] = i.queue[t]
  OBVIOUS
<1> HIDE DEF queue
<1>6. DOMAIN j = Fields /\ j.csn = (i.csn + 1) % 65536 /\ j.queue = queue
  BY <1>1, AdvanceFields
<1> HIDE DEF j
<1>7. IsEffect(Resend(i, s))
  BY <1>3, <1>6 DEF IsEffect
<1>8. SUFFICES ASSUME j.csn >= i.csn PROVE Numbered(j)
  BY <1>1, <1>3, <1>7 DEF Follows
<1>9. j.csn = i.csn + 1 /\ j.csn \in Nat /\ j.csn < 65536
  BY <1>6, <1>8, NoWrapAround DEF Numbered
<1>10. \A t \in DOMAIN i.queue : t \in i.queue[t].sns /\ i.queue[t].sns \subseteq 0 .. i.csn - 1
  BY DEF Numbered
<1>11. ASSUME NEW t \in DOMAIN j.queue
       PROVE  t \in j.queue[t].sns /\ j.queue[t].sns \subseteq 0 .. j.csn - 1
  <2>1. CASE t = s
    BY <2>1, <1>4, <1>5, <1>6, <1>9, <1>10 DEF Numbered
  <2>2. CASE t # s
    BY <2>2, <1>5, <1>6, <1>9, <1>10 DEF Numbered
  <2> QED BY <2>1, <2>2
<1>12. i.csn \in Nat /\ \A t \in DOMAIN i.queue : i.csn \notin i.queue[t].sns
  BY <1>10 DEF Numbered
<1>13. ASSUME NEW t \in DOMAIN j.queue, NEW u \in DOMAIN j.queue, t # u
       PROVE  j.queue[t].sns \cap j.queue[u].sns = {}
  <2>1. i.queue[t].sns \cap i.queue[u].sns = {}
    BY <1>5, <1>6, <1>13 DEF Numbered
  <2>2. j.queue[t].sns \subseteq i.queue[t].sns \cup (IF t = s THEN {i.csn} ELSE {})
    BY <1>4, <1>5, <1>6
  <2>3. j.queue[u].sns \subseteq i.queue[u].sns \cup (IF u = s THEN {i.csn} ELSE {})
    BY <1>4, <1>5, <1>6
  <2>4. i.csn \notin i.queue[t].sns /\ i.csn \notin i.queue[u].sns
    BY <1>5, <1>6, <1>12
  <2> QED BY <2>1, <2>2, <2>3, <2>4, <1>13
<1> QED BY <1>6, <1>9, <1>11, <1>13 DEF Numbered

\* The probes of one period have as many numbers as there are links.
LEMMA ProbeNumbers ==
  ASSUME NEW i, Numbered(i)
  PROVE  /\ Cardinality(Probes(i)) \in Nat /\ Cardinality(Probes(i)) < 65536
         /\ NextNumbers(i, Probes(i))
<1> DEFINE Place(c)  == Cardinality({d \in Cids : d < c})
           Probe(c)  == [type |-> "probe", sn |-> i.csn + Place(c), cid |-> c]
           headers   == {Probe(c) : c \in Cids}
<1>1. IsFiniteSet(Cids) /\ Cardinality(Cids) \in Nat /\ Cardinality(Cids) < 65536
  <2>1. PICK top \in Nat : top = 254
    OBVIOUS
  <2>2. Cids \in SUBSET (0 .. top)
    BY <2>1, CidsAssumption
  <2>3. IsFiniteSet(0 .. top) /\ Cardinality(0 .. top) = top + 1
    BY FS_Interval
  <2>4. IsFiniteSet(Cids) /\ Cardinality(Cids) <= Cardinality(0 .. top)
    BY <2>2, <2>3, FS_Subset
  <2>5. Cardinality(Cids) \in Nat
    BY <2>4, FS_CardinalityType
  <2> QED BY <2>1, <2>3, <2>4, <2>5
<1>2. ASSUME NEW c \in Cids
      PROVE  Place(c) \in Nat /\ Place(c) < Cardinality(Cids)
  <2> DEFINE below == {d \in Cids : d < c}
  <2>1. below \in SUBSET Cids /\ c \notin below
    BY CidsAssumption
  <2> HIDE DEF below
  <2>2. IsFiniteSet(below) /\ Cardinality(below) <= Cardinality(Cids)
        /\ Cardinality(below) # Cardinality(Cids)
    BY <1>1, <1>2, <2>1, FS_Subset
  <2>3. Cardinality(below) \in Nat
    BY <2>2, FS_CardinalityType
  <2>4. Cardinality(below) < Cardinality(Cids)
    BY <1>1, <2>2, <2>3
  <2> QED BY <2>3, <2>4 DEF below
<1> HIDE DEF Place
<1>3. \A c \in Cids : Probe(c).cid = c /\ Probe(c).sn = i.csn + Place(c)
  OBVIOUS
<1> HIDE DEF Probe
<1> DEFINE f == [c \in Cids |-> Probe(c)]
<1>4. f \in Surjection(Cids, headers)
  BY DEF Surjection
<1>5. f \in Injection(Cids, headers)
  BY <1>3, <1>4 DEF Surjection, Injection, IsInjective
<1>6. Cardinality(headers) \in Nat /\ Cardinality(headers) = Cardinality(Cids)
  <2> HIDE DEF f, headers
  <2>1. IsFiniteSet(headers) /\ Cardinality(headers) = Cardinality(Cids)
    BY <1>1, <1>4, <1>5, FS_Surjection
  <2> QED BY <2>1, <1>1
<1>7. NextNumbers(i, headers)
  <2> SUFFICES ASSUME NEW c \in Cids
               PROVE  LET sn == Probe(c).sn
                      IN  sn \in Nat /\ i.csn <= sn /\ sn < i.csn + Cardinality(headers)
    BY DEF NextNumbers
  <2> HIDE DEF headers
  <2> QED BY <1>2, <1>3, <1>6, <1>1 DEF Numbered
<1>8. headers = Probes(i)
  BY DEF Probes, Probe, Place
<1> HIDE DEF headers
<1> QED BY <1>1, <1>6, <1>7, <1>8

\* An interface that took an effect whose numbers are in order has its numbers
\* in order, and the other interface is as before.
LEMMA Stepping ==
  ASSUME NumbersInv, NEW n \in Peers, NEW e, Follows(Effect(iface[n]), e), NoWrap(n, e),
         iface' = [iface EXCEPT ![n] = e.i]
  PROVE  NumbersInv'
<1>1. Effect(iface[n]).i = iface[n]
  BY DEF Effect
<1>2. iface[n].csn \in Nat
  BY DEF NumbersInv, Numbered
<1>3. e.i.csn >= iface[n].csn
  BY <1>2, GmaAssumption DEF NoWrap
<1>4. Numbered(e.i)
  BY <1>1, <1>3 DEF Follows
<1>5. DOMAIN iface' = Peers
  BY DEF NumbersInv
<1>6. ASSUME NEW p \in Peers
      PROVE  Numbered(iface'[p])
  BY <1>4 DEF NumbersInv
<1>7. ASSUME NEW p \in Peers
      PROVE  Numbered(iface[p])'
  BY <1>6 DEF Numbered
<1> QED BY <1>5, <1>7 DEF NumbersInv

\* What an interface does with an effect that follows keeps the numbers in order.
LEMMA Doing ==
  ASSUME NumbersInv, NEW n \in Peers, NEW e, Follows(Effect(iface[n]), e), Does(n, e)
  PROVE  NumbersInv'
BY Stepping DEF Does

LEMMA Peer ==
  ASSUME NumbersInv, NEW n \in Peers
  PROVE  /\ Numbered(iface[n]) /\ DOMAIN iface[n] = Fields
         /\ IsEffect(Effect(iface[n])) /\ Effect(iface[n]).i = iface[n]
BY DEF NumbersInv, Numbered, IsEffect, Effect

\* What differs from the interface in other fields only can be sent from.
LEMMA OtherFields ==
  ASSUME NEW i, Numbered(i), NEW j, DOMAIN j = Fields, j.csn = i.csn, j.queue = i.queue
  PROVE  /\ NoNewNumbers(Effect(i), Effect(j)) /\ Follows(Effect(i), Effect(j))
         /\ IsEffect(Effect(j)) /\ Numbered(Effect(j).i)
<1>1. Effect(i).i = i /\ Effect(j).i = j /\ DOMAIN Effect(i) = {"i", "out"}
      /\ DOMAIN Effect(j) = {"i", "out"}
  BY DEF Effect
<1>2. IsEffect(Effect(i)) /\ IsEffect(Effect(j))
  BY <1>1 DEF IsEffect, Numbered
<1>3. NoNewNumbers(Effect(i), Effect(j))
  BY <1>1, <1>2 DEF NoNewNumbers
<1> QED BY <1>1, <1>2, <1>3, NoNewNumbersFollow

LEMMA OtherFieldsThenTsu ==
  ASSUME NEW i, Numbered(i), NEW j, DOMAIN j = Fields, j.csn = i.csn, j.queue = i.queue,
         NEW split
  PROVE  Follows(Effect(i), SendTsu(Effect(j), split))
<1>1. Follows(Effect(j), SendTsu(Effect(j), split))
  BY OtherFields, TsuNumbers
<1> QED BY <1>1, OtherFields, FollowsThrough

LEMMA ProbeStep ==
  ASSUME NumbersInv, NEW n \in Peers, PeriodicProbeMsg(n)
  PROVE  NumbersInv'
<1> DEFINE i == iface[n]
<1>1. Does(n, SendCtrlMsgs(Effect(i), Probes(i)))
  BY DEF PeriodicProbeMsg, Begins
<1>2. Numbered(i) /\ IsEffect(Effect(i)) /\ Effect(i).i = i
  BY Peer
<1>3. Follows(Effect(i), SendCtrlMsgs(Effect(i), Probes(i)))
  BY <1>2, ProbeNumbers, SendingNumbers
<1> QED BY <1>1, <1>3, Doing

LEMMA PowerStep ==
  ASSUME NumbersInv, NEW n \in Peers, WifiPowerLow(n) \/ WifiPowerHigh(n)
  PROVE  NumbersInv'
<1> DEFINE i == iface[n]
<1>1. Numbered(i) /\ DOMAIN i = Fields
  BY Peer
<1>2. CASE WifiPowerLow(n)
  <2> DEFINE j == [i EXCEPT !.power = 0, !.marking = TRUE]
  <2>1. Does(n, TakeDown(Effect(j), "lowQuality", Wifi))
    BY <1>2 DEF WifiPowerLow, Begins
  <2>2. DOMAIN j = Fields /\ j.csn = i.csn /\ j.queue = i.queue
    BY <1>1 DEF Fields
  <2> HIDE DEF j
  <2>3. Follows(Effect(j), TakeDown(Effect(j), "lowQuality", Wifi))
    BY <1>1, <2>2, OtherFields, TakeDownNumbers
  <2>4. Follows(Effect(i), TakeDown(Effect(j), "lowQuality", Wifi))
    BY <1>1, <2>2, <2>3, OtherFields, FollowsThrough
  <2> QED BY <2>1, <2>4, Doing
<1>3. CASE WifiPowerHigh(n)
  <2> DEFINE j == [i EXCEPT !.power = 1, !.marking = TRUE,
                            !.ls = LinkUp(i.ls, "lowQuality", Wifi)]
  <2>1. Does(n, Effect(j))
    BY <1>3 DEF WifiPowerHigh, Begins
  <2>2. DOMAIN j = Fields /\ j.csn = i.csn /\ j.queue = i.queue
    BY <1>1 DEF Fields
  <2> HIDE DEF j
  <2> QED BY <1>1, <2>1, <2>2, OtherFields, Doing
<1> QED BY <1>2, <1>3

LEMMA MeasureStep ==
  ASSUME NumbersInv, NEW n \in Peers, MeasureCycleEnd(n)
  PROVE  NumbersInv'
<1> DEFINE i     == iface[n]
           start == Started(i.ls, i.split, i.burst)
<1>1. Numbered(i) /\ DOMAIN i = Fields
  BY Peer
<1>2. PICK k \in MeasuredSplits(i.ls, start) :
        LET j == [i EXCEPT !.split = k] IN
        Begins(n, IF k = start THEN Effect(j)
                               ELSE SendTsu(Effect([j EXCEPT !.measuring = FALSE]), k))
  BY Zenon DEF MeasureCycleEnd
<1> HIDE DEF start
<1> DEFINE j == [i EXCEPT !.split = k]
           h == [j EXCEPT !.measuring = FALSE]
<1>3. Does(n, IF k = start THEN Effect(j) ELSE SendTsu(Effect(h), k))
  BY <1>2 DEF Begins
<1>4. DOMAIN j = Fields /\ j.csn = i.csn /\ j.queue = i.queue
  BY <1>1 DEF Fields
<1>5. DOMAIN h = Fields /\ h.csn = i.csn /\ h.queue = i.queue
  BY <1>1 DEF Fields
<1> HIDE DEF j, h
<1>6. Follows(Effect(i), Effect(j))
  BY <1>1, <1>4, OtherFields
<1>7. Follows(Effect(i), SendTsu(Effect(h), k))
  BY <1>1, <1>5, OtherFieldsThenTsu
<1> QED BY <1>3, <1>6, <1>7, Doing

LEMMA SplitActionStep ==
  ASSUME NumbersInv, NEW n \in Peers, ReceiveDlSplitWeightAction(n)
  PROVE  NumbersInv'
<1> DEFINE i == iface[n]
<1>1. Numbered(i) /\ DOMAIN i = Fields
  BY Peer
<1>2. PICK k \in RlSplits :
        Begins(n, IF k = i.split THEN Effect(AskedFor(i, k)) ELSE SendTsu(Effect(AskedFor(i, k)), k))
  BY DEF ReceiveDlSplitWeightAction
<1> DEFINE j == AskedFor(i, k)
<1>3. Does(n, IF k = i.split THEN Effect(j) ELSE SendTsu(Effect(j), k))
  BY <1>2 DEF Begins
<1>4. DOMAIN j = Fields /\ j.csn = i.csn /\ j.queue = i.queue
  BY <1>1 DEF AskedFor, Fields
<1> HIDE DEF j
<1>5. Follows(Effect(i), Effect(j)) /\ Follows(Effect(i), SendTsu(Effect(j), k))
  BY <1>1, <1>4, OtherFields, OtherFieldsThenTsu
<1> QED BY <1>3, <1>5, Doing

LEMMA RecvStep ==
  ASSUME NumbersInv, NEW n \in Peers, RecvCtrlMsg(n)
  PROVE  NumbersInv'
<1> DEFINE e    == Effect(iface[n])
           f(m) == CASE m.type = "probe" -> RecvProbe(e, m)
                     [] m.type = "tsu"   -> RecvTsu(n, e, m)
                     [] OTHER            -> RecvAck(n, e, m)
<1>1. PICK m \in net[n] : NoWrap(n, f(m)) /\ iface' = [iface EXCEPT ![n] = f(m).i]
  BY DEF RecvCtrlMsg
<1>2. IsEffect(e) /\ Numbered(e.i)
  BY Peer
<1> HIDE DEF e
<1>3. Follows(e, RecvProbe(e, m)) /\ Follows(e, RecvTsu(n, e, m)) /\ Follows(e, RecvAck(n, e, m))
  BY <1>2, RecvProbeNumbers, RecvTsuNumbers, RecvAckNumbers
<1>4. f(m) \in {RecvProbe(e, m), RecvTsu(n, e, m), RecvAck(n, e, m)}
  OBVIOUS
<1> HIDE DEF f
<1>5. Follows(e, f(m))
  BY <1>3, <1>4
<1> QED BY <1>1, <1>5, Stepping DEF e

LEMMA RetxStep ==
  ASSUME NumbersInv, NEW n \in Peers, RetxCtrlMsgExpires(n)
  PROVE  NumbersInv'
<1> DEFINE i == iface[n]
<1>1. PICK s \in DOMAIN i.queue : Does(n, GiveUp(i, s)) \/ Does(n, Resend(i, s))
  BY DEF RetxCtrlMsgExpires
<1>2. IsEffect(Effect(i)) /\ Numbered(i)
  BY Peer
<1>3. Follows(Effect(i), GiveUp(i, s)) /\ Follows(Effect(i), Resend(i, s))
  BY <1>2, GiveUpNumbers, ResendNumbers
<1> QED BY <1>1, <1>3, Doing

-----------------------------------------------------------------------------

\* The numbers of every interface are always in order.
THEOREM NumbersInOrder == Spec => []NumbersInv
<1>1. Init => NumbersInv
  BY DEF Init, InitInterface, EmptyDict, NumbersInv, Numbered, Fields
<1>2. NumbersInv /\ [Next]_vars => NumbersInv'
  <2> SUFFICES ASSUME NumbersInv, [Next]_vars PROVE NumbersInv'
    OBVIOUS
  <2>1. CASE UNCHANGED vars
    BY <2>1 DEF vars, NumbersInv, Numbered
  <2>2. ASSUME NEW n \in Peers,
               \/ PeriodicProbeMsg(n)
               \/ WifiPowerLow(n) \/ WifiPowerHigh(n)
               \/ MeasureCycleEnd(n)
               \/ ReceiveDlSplitWeightAction(n)
               \/ RecvCtrlMsg(n)
               \/ RetxCtrlMsgExpires(n)
        PROVE  NumbersInv'
    BY <2>2, ProbeStep, PowerStep, MeasureStep, SplitActionStep, RecvStep, RetxStep
  <2> QED BY <2>1, <2>2 DEF Next
<1> QED BY <1>1, <1>2, PTL DEF Spec

\* No two control messages ever share a number (SendCtrlMsg and
\* RetxCtrlMsgExpires, gma-virtual-interface.cc): for any links, splits,
\* bounds, losses and order of events.
THEOREM NumbersAreUnique == Spec => []UniqueNumbers
<1>1. NumbersInv => UniqueNumbers
  BY DEF NumbersInv, Numbered, UniqueNumbers
<1> QED BY <1>1, NumbersInOrder, PTL

-----------------------------------------------------------------------------
(* Answers find their requests: every number in flight is that of a        *)
(* request, and the request was never one of another type.                 *)

\* Number sn was used by interface i, and if it still waits for an answer to
\* it, then as that of a message of this type.
Used(i, sn, type) ==
  /\ sn \in Nat /\ sn < i.csn
  /\ \A s \in DOMAIN i.queue : sn \in i.queue[s].sns => i.queue[s].header.type = type

\* Only requests wait for an answer.
Kinds(q) ==
  \A s \in DOMAIN q : {"type", "sn"} \subseteq DOMAIN q[s].header /\ q[s].header.type \in Requests

\* Message m on its way to n is a request of the other interface, or answers a
\* request of n, by the number it carries.
Traced(n, m) ==
  \/ m.type \in Requests /\ Used(iface[Other(n)], m.sn, m.type)
  \/ m.type = "ack" /\ Used(iface[n], m.sn, "probe")
  \/ m.type = "tsa" /\ Used(iface[n], m.sn, "tsu")

\* The inductive invariant, with NumbersInv: every number in flight is traced
\* to the request that it was used for.
AnswersInv ==
  /\ \A n \in Peers : Kinds(iface[n].queue)
  /\ DOMAIN net = Peers
  /\ \A n \in Peers : \A m \in net[n] : Traced(n, m)

\* What i has used, j has used for the same type.
Keeps(i, j) == Kinds(j.queue) /\ \A sn, type : Used(i, sn, type) => Used(j, sn, type)

\* All messages of an effect are requests with numbers used for them.
Requested(e) == \A m \in e.out : m.type \in Requests /\ Used(e.i, m.sn, m.type)

\* f follows e with requests only, unless the numbers wrap.
Carries(e, f) ==
  IsEffect(f) /\ (f.i.csn >= e.i.csn => Keeps(e.i, f.i) /\ (Requested(e) => Requested(f)))

\* f has nothing new to send.
Quiet(e, f) == NoNewNumbers(e, f) /\ f.out = e.out

\* An effect with nothing new keeps the kinds and the numbers.
LEMMA QuietKeeps ==
  ASSUME NEW e, NEW f, Numbered(e.i), Quiet(e, f), Kinds(e.i.queue)
  PROVE  Carries(e, f) /\ Kinds(f.i.queue) /\ Numbered(f.i) /\ IsEffect(f)
<1>1. /\ IsEffect(f) /\ f.i.csn = e.i.csn /\ f.out = e.out
      /\ \A s \in DOMAIN f.i.queue : s \in DOMAIN e.i.queue /\ f.i.queue[s] = e.i.queue[s]
  BY DEF Quiet, NoNewNumbers
<1>2. Kinds(f.i.queue)
  BY <1>1 DEF Kinds
<1>3. \A sn, type : Used(e.i, sn, type) => Used(f.i, sn, type)
  BY <1>1 DEF Used
<1>4. Numbered(f.i)
  BY <1>1 DEF Numbered, IsEffect
<1>. QED  BY <1>1, <1>2, <1>3, <1>4 DEF Carries, Keeps, Requested

\* What carries on from a quiet effect carries on from the one before.
LEMMA CarriesThrough ==
  ASSUME NEW e, NEW f, NEW g, Numbered(e.i), Kinds(e.i.queue), Quiet(e, f), Carries(f, g)
  PROVE  Carries(e, g)
<1>1. /\ f.i.csn = e.i.csn /\ f.out = e.out
      /\ \A sn, type : Used(e.i, sn, type) => Used(f.i, sn, type)
  BY DEF Quiet, NoNewNumbers, Used
<1>2. Requested(e) => Requested(f)
  BY <1>1 DEF Requested
<1>. QED  BY <1>1, <1>2 DEF Carries, Keeps

\* A quiet effect may come after one that carries on.
LEMMA CarriesOn ==
  ASSUME NEW e, NEW f, NEW g, Carries(e, f), Quiet(f, g)
  PROVE  Carries(e, g)
<1>1. /\ IsEffect(g) /\ g.i.csn = f.i.csn /\ g.out = f.out
      /\ \A s \in DOMAIN g.i.queue : s \in DOMAIN f.i.queue /\ g.i.queue[s] = f.i.queue[s]
  BY DEF Quiet, NoNewNumbers
<1>2. SUFFICES ASSUME g.i.csn >= e.i.csn
               PROVE  Keeps(e.i, g.i) /\ (Requested(e) => Requested(g))
  BY <1>1 DEF Carries
<1>3. Keeps(e.i, f.i) /\ (Requested(e) => Requested(f))
  BY <1>1, <1>2 DEF Carries
<1>4. Kinds(g.i.queue)
  BY <1>1, <1>3 DEF Kinds, Keeps
<1>5. \A sn, type : Used(f.i, sn, type) => Used(g.i, sn, type)
  BY <1>1 DEF Used
<1>. QED  BY <1>1, <1>3, <1>4, <1>5 DEF Keeps, Requested

\* A set of new requests of one type
RequestsOf(headers, type) ==
  type \in Requests /\ \A h \in headers : {"type", "sn"} \subseteq DOMAIN h /\ h.type = type

\* The copies of a message have its type and its number.
LEMMA CopiesOf ==
  ASSUME NEW i, NEW h, h.type \in Requests, NEW m \in Copies(i, h)
  PROVE  m.type = h.type /\ m.sn = h.sn
BY DEF Copies, Requests

\* Sending requests of one type (SendCtrlMsg) uses their numbers for it.
LEMMA SendingCarries ==
  ASSUME NEW e, NEW headers, NEW type, IsEffect(e), Numbered(e.i), Kinds(e.i.queue),
         Cardinality(headers) \in Nat, Cardinality(headers) < 65536,
         NextNumbers(e.i, headers), RequestsOf(headers, type)
  PROVE  Carries(e, SendCtrlMsgs(e, headers))
<1>. DEFINE f == SendCtrlMsgs(e, headers)
<1>1. IsEffect(f) /\ f.i.csn = (e.i.csn + Cardinality(headers)) % 65536
      /\ f.i.queue = Enqueue(e.i.queue, headers)
  BY SendingFields
<1>2. f.out = e.out \cup UNION {Copies(e.i, h) : h \in headers}
  BY DEF SendCtrlMsgs
<1>. HIDE DEF f
<1>3. SUFFICES ASSUME f.i.csn >= e.i.csn PROVE Keeps(e.i, f.i) /\ (Requested(e) => Requested(f))
  BY <1>1 DEF Carries, f
<1>4. f.i.csn = e.i.csn + Cardinality(headers) /\ f.i.csn \in Nat /\ e.i.csn \in Nat /\ f.i.csn >= e.i.csn
  BY <1>1, <1>3, NoWrapAround DEF Numbered
<1>5. DOMAIN f.i.queue = DOMAIN e.i.queue \cup {h.sn : h \in headers}
  BY <1>1 DEF Enqueue
<1>6. ASSUME NEW s \in DOMAIN f.i.queue, s \in DOMAIN e.i.queue
      PROVE  f.i.queue[s] = e.i.queue[s] /\ f.i.queue[s].sns \subseteq 0 .. e.i.csn - 1
  BY <1>1, <1>5, <1>6 DEF Enqueue, Numbered
<1>7. ASSUME NEW s \in DOMAIN f.i.queue, s \notin DOMAIN e.i.queue
      PROVE  /\ f.i.queue[s].sns = {s} /\ f.i.queue[s].header \in headers
             /\ s \in Nat /\ s >= e.i.csn
  <2>1. PICK h \in headers : h.sn = s
    BY <1>5, <1>7
  <2>2. s \in Nat /\ s >= e.i.csn
    BY <2>1, <1>4 DEF NextNumbers
  <2>. DEFINE g == CHOOSE x \in headers : x.sn = s
  <2>3. g \in headers
    BY <2>1
  <2>4. f.i.queue[s] = [header |-> g, sns |-> {s}]
    BY <1>1, <1>5, <1>7 DEF Enqueue
  <2>. HIDE DEF g
  <2>. QED  BY <2>2, <2>3, <2>4
<1>8. Kinds(f.i.queue)
  <2>1. ASSUME NEW s \in DOMAIN f.i.queue
        PROVE  {"type", "sn"} \subseteq DOMAIN f.i.queue[s].header /\ f.i.queue[s].header.type \in Requests
    <3>1. CASE s \in DOMAIN e.i.queue
      BY <3>1, <1>6 DEF Kinds
    <3>2. CASE s \notin DOMAIN e.i.queue
      BY <3>2, <1>7 DEF RequestsOf
    <3>. QED  BY <3>1, <3>2
  <2>. QED  BY <2>1 DEF Kinds
<1>9. ASSUME NEW sn, NEW t, Used(e.i, sn, t)
      PROVE  Used(f.i, sn, t)
  <2>1. sn \in Nat /\ sn < e.i.csn /\ sn < f.i.csn
    BY <1>4, <1>9 DEF Used
  <2>2. ASSUME NEW s \in DOMAIN f.i.queue, sn \in f.i.queue[s].sns
        PROVE  f.i.queue[s].header.type = t
    <3>1. s \in DOMAIN e.i.queue
      <4>1. SUFFICES ASSUME s \notin DOMAIN e.i.queue PROVE FALSE
        OBVIOUS
      <4>2. sn = s /\ s >= e.i.csn
        BY <1>7, <2>2, <4>1
      <4>. QED  BY <1>4, <2>1, <4>2
    <3>. QED  BY <1>6, <1>9, <2>2, <3>1 DEF Used
  <2>. QED  BY <2>1, <2>2 DEF Used
<1>10. ASSUME NEW h \in headers
       PROVE  Used(f.i, h.sn, type)
  <2>1. h.sn \in Nat /\ e.i.csn <= h.sn /\ h.sn < f.i.csn
    BY <1>4 DEF NextNumbers
  <2>2. ASSUME NEW s \in DOMAIN f.i.queue, h.sn \in f.i.queue[s].sns
        PROVE  f.i.queue[s].header.type = type
    <3>1. s \notin DOMAIN e.i.queue
      BY <1>4, <1>6, <2>1, <2>2
    <3>. QED  BY <1>7, <3>1 DEF RequestsOf
  <2>. QED  BY <2>1, <2>2 DEF Used
<1>11. ASSUME Requested(e), NEW m \in f.out
       PROVE  m.type \in Requests /\ Used(f.i, m.sn, m.type)
  <2>1. CASE m \in e.out
    BY <1>9, <1>11, <2>1 DEF Requested
  <2>2. CASE m \notin e.out
    <3>1. PICK h \in headers : m \in Copies(e.i, h)
      BY <1>2, <1>11, <2>2
    <3>2. h.type = type /\ type \in Requests
      BY DEF RequestsOf
    <3>3. m.type = type /\ m.sn = h.sn
      BY <3>1, <3>2, CopiesOf
    <3>. QED  BY <1>10, <3>2, <3>3
  <2>. QED  BY <2>1, <2>2
<1>. QED  BY <1>8, <1>9, <1>11 DEF Keeps, Requested

\* The effects that methods start from
Ready(e) == IsEffect(e) /\ Numbered(e.i) /\ Kinds(e.i.queue)

\* A quiet effect leaves the next method what it starts from.
LEMMA QuietReady ==
  ASSUME NEW e, NEW f, Ready(e), Quiet(e, f)
  PROVE  Ready(f) /\ Carries(e, f)
BY QuietKeeps DEF Ready

\* A TSU is such a request.
LEMMA TsuCarries ==
  ASSUME NEW e, Ready(e), NEW split
  PROVE  Carries(e, SendTsu(e, split))
<1>. DEFINE h == [type |-> "tsu", sn |-> e.i.csn, cid |-> Wifi, split |-> split]
            headers == {h}
<1>1. h.sn = e.i.csn /\ h.type = "tsu" /\ {"type", "sn"} \subseteq DOMAIN h
  OBVIOUS
<1>. HIDE DEF h
<1>2. Cardinality(headers) = 1
  BY FS_Singleton
<1>3. NextNumbers(e.i, headers)
  BY <1>1, <1>2 DEF Numbered, NextNumbers, Ready
<1>4. RequestsOf(headers, "tsu")
  BY <1>1 DEF RequestsOf, Requests
<1>5. SendTsu(e, split) = SendCtrlMsgs(e, headers)
  BY DEF SendTsu, h
<1>6. Cardinality(headers) \in Nat /\ Cardinality(headers) < 65536
  BY <1>2
<1>. HIDE DEF headers
<1>. QED  BY <1>3, <1>4, <1>5, <1>6, SendingCarries DEF Ready

\* Marking a link as failed sends nothing.
LEMMA MarkDownQuiet ==
  ASSUME NEW e, IsEffect(e), NEW why, NEW c
  PROVE  Quiet(e, MarkDown(e, why, c))
<1>1. MarkDown(e, why, c).out = e.out
  BY DEF MarkDown, IsEffect
<1>. QED  BY <1>1, MarkDownNumbers DEF Quiet

\* Remembering a split sends nothing.
LEMMA RememberQuiet ==
  ASSUME NEW e, IsEffect(e), NEW split
  PROVE  Quiet(e, Remember(e, split))
<1>1. Remember(e, split).out = e.out
  BY DEF Remember, IsEffect
<1>. QED  BY <1>1, RememberNumbers DEF Quiet

\* Shedding the share of a failed link sends at most a TSU.
LEMMA ShedCarries ==
  ASSUME NEW e, Ready(e), NEW c
  PROVE  Carries(e, Shed(e, c))
<1>. DEFINE d == LinkDownTsu(e.i.ls, e.i.split, e.i.burst, c)
            r == Remember(e, d.split)
<1>1. Shed(e, c) = IF d.update THEN SendTsu(r, d.tsu) ELSE r
  BY DEF Shed
<1>. HIDE DEF d
<1>2. Quiet(e, r)
  BY RememberQuiet DEF Ready
<1>. HIDE DEF r
<1>3. Ready(r) /\ Carries(e, r)
  BY <1>2, QuietReady
<1>4. Carries(e, SendTsu(r, d.tsu))
  BY <1>2, <1>3, TsuCarries, CarriesThrough DEF Ready
<1>. QED  BY <1>1, <1>3, <1>4

\* So does taking a link down, if it was up.
LEMMA TakeDownCarries ==
  ASSUME NEW e, Ready(e), NEW why, NEW c
  PROVE  Carries(e, TakeDown(e, why, c))
<1>. DEFINE f == MarkDown(e, why, c)
<1>1. TakeDown(e, why, c) = IF IsLinkUp(e.i.ls, c) THEN Shed(f, c) ELSE f
  BY DEF TakeDown
<1>2. Quiet(e, f)
  BY MarkDownQuiet DEF Ready
<1>. HIDE DEF f
<1>3. Ready(f) /\ Carries(e, f)
  BY <1>2, QuietReady
<1>4. Carries(e, Shed(f, c))
  BY <1>2, <1>3, ShedCarries, CarriesThrough DEF Ready
<1>. QED  BY <1>1, <1>3, <1>4

\* What changes only the links sends nothing.
LEMMA LinksQuiet ==
  ASSUME NEW e, IsEffect(e), NEW ls
  PROVE  Quiet(e, [e EXCEPT !.i.ls = ls])
<1>1. [e EXCEPT !.i.ls = ls].out = e.out
  BY DEF IsEffect
<1>. QED  BY <1>1, LinkUpNumbers DEF Quiet

\* Reading the link map of the peer takes links down or brings them up.
LEMMA ReadLinkMapCarries ==
  ASSUME NEW e, Ready(e), NEW m
  PROVE  Carries(e, ReadLinkMap(e, m))
<1>. DEFINE f == ObeyLinkMap(e, m)
            g == [f EXCEPT !.i.maxMap = m.sn]
<1>1. Carries(e, e)
  BY QuietReady DEF Ready, Quiet, NoNewNumbers
<1>2. Carries(e, TakeDown(e, "bitmapFailed", Wifi))
  BY TakeDownCarries
<1>3. Carries(e, [e EXCEPT !.i.ls = LinkUp(e.i.ls, "bitmapFailed", Wifi)])
  BY LinksQuiet, QuietReady DEF Ready
<1>4. Carries(e, f)
  BY <1>1, <1>2, <1>3 DEF ObeyLinkMap
<1>. HIDE DEF f
<1>5. Quiet(f, g)
  BY <1>4 DEF Carries, Quiet, NoNewNumbers, IsEffect, Fields
<1>6. Carries(e, g)
  BY <1>4, <1>5, CarriesOn
<1>. QED  BY <1>6 DEF ReadLinkMap, f

\* Obeying a TSU sends nothing itself.
LEMMA ObeyTsuQuiet ==
  ASSUME NEW n, NEW e, IsEffect(e), NEW m
  PROVE  Quiet(e, ObeyTsu(n, e, m))
BY DEF ObeyTsu, Quiet, NoNewNumbers, IsEffect, Fields

\* f is e carried on, with nothing added but answers of this type to message
\* m.
Answers(e, f, type, m) ==
  \E g : /\ Carries(e, g)
         /\ IsEffect(f) /\ f.i = g.i
         /\ \A x \in f.out : x \in g.out \/ (x.type = type /\ x.sn = m.sn)

\* A reply repeats the number of what it answers.
LEMMA ReplyAnswers ==
  ASSUME NEW e, NEW g, Carries(e, g), NEW type, NEW m
  PROVE  Answers(e, Reply(g, type, m), type, m)
<1>. DEFINE f == Reply(g, type, m)
<1>1. IsEffect(f) /\ f.i = g.i
  BY DEF Reply, Carries, IsEffect
<1>2. f.out = g.out \cup {[type |-> type, sn |-> m.sn, cid |-> m.cid]}
  BY DEF Reply, Carries, IsEffect
<1>. HIDE DEF f
<1>3. \A x \in f.out : x \in g.out \/ (x.type = type /\ x.sn = m.sn)
  BY <1>2
<1>4. Answers(e, f, type, m)
  BY <1>1, <1>3 DEF Answers
<1>. QED  BY <1>4 DEF f

\* A probe is answered by an ACK with its number (RecvCtrlMsg, RespondAck).
LEMMA RecvProbeAnswers ==
  ASSUME NEW e, Ready(e), NEW m
  PROVE  Answers(e, RecvProbe(e, m), "ack", m)
BY ReadLinkMapCarries, ReplyAnswers DEF RecvProbe

\* A TSU is answered by a TSA with its number (RecvCtrlMsg).
LEMMA RecvTsuAnswers ==
  ASSUME NEW e, Ready(e), NEW n, NEW m
  PROVE  Answers(e, RecvTsu(n, e, m), "tsa", m)
<1>. DEFINE f == ReadLinkMap(e, m)
            g == ObeyTsu(n, f, m)
<1>1. Carries(e, f)
  BY ReadLinkMapCarries
<1>. HIDE DEF f
<1>2. Quiet(f, g)
  BY <1>1, ObeyTsuQuiet DEF Carries
<1>. HIDE DEF g
<1>3. Carries(e, g)
  BY <1>1, <1>2, CarriesOn
<1>. QED  BY <1>3, ReplyAnswers DEF RecvTsu, f, g

\* A request that is settled waits no longer.
LEMMA SettleQuiet ==
  ASSUME NEW e, IsEffect(e), NEW S
  PROVE  Quiet(e, Settle(e, S))
<1>1. Settle(e, S).out = e.out
  BY DEF Settle, IsEffect
<1>. QED  BY <1>1, SettleNumbers DEF Quiet

\* An ACK or a TSA settles requests and may start a cycle.
LEMMA RecvAckCarries ==
  ASSUME NEW e, Ready(e), NEW n, NEW m
  PROVE  Carries(e, RecvAck(n, e, m))
<1>. DEFINE settled == {s \in DOMAIN e.i.queue : m.sn \in e.i.queue[s].sns}
            f == Settle(e, settled)
            g == StartCycle(n, f, m)
            h == [g EXCEPT !.i.ls = LinkUp(g.i.ls, "ctrFailed", m.cid)]
<1>1. RecvAck(n, e, m) = IF settled = {} THEN e ELSE h
  BY DEF RecvAck
<1>. HIDE DEF settled
<1>2. Quiet(e, f)
  BY SettleQuiet DEF Ready
<1>. HIDE DEF f
<1>3. Ready(f) /\ Carries(e, f)
  BY <1>2, QuietReady
<1>4. Quiet(f, g)
  BY <1>3 DEF Ready, StartCycle, Quiet, NoNewNumbers, IsEffect, Fields
<1>. HIDE DEF g
<1>5. Ready(g) /\ Carries(e, g)
  BY <1>3, <1>4, QuietReady, CarriesOn
<1>6. Quiet(g, h)
  BY <1>5, LinksQuiet DEF Ready
<1>. HIDE DEF h
<1>7. Carries(e, h)
  BY <1>5, <1>6, CarriesOn
<1>8. Carries(e, e)
  BY QuietReady DEF Ready, Quiet, NoNewNumbers
<1>. QED  BY <1>1, <1>7, <1>8

\* Giving a request up (RetxCtrlMsgExpires) takes its link down.
LEMMA GiveUpCarries ==
  ASSUME NEW i, Ready(Effect(i)), NEW s
  PROVE  Carries(Effect(i), GiveUp(i, s))
<1>. DEFINE f == TakeDown(Effect(i), "ctrFailed", i.queue[s].header.cid)
<1>1. Carries(Effect(i), f)
  BY TakeDownCarries
<1>. HIDE DEF f
<1>2. Quiet(f, Settle(f, {s}))
  BY <1>1, SettleQuiet DEF Carries
<1>3. Carries(Effect(i), Settle(f, {s}))
  BY <1>1, <1>2, CarriesOn
<1>. QED  BY <1>3 DEF GiveUp, f

\* A retransmission takes a new number, which waits next to the old ones as
\* that of the same request.
LEMMA ResendCarries ==
  ASSUME NEW i, Ready(Effect(i)), NEW s \in DOMAIN i.queue
  PROVE  Carries(Effect(i), Resend(i, s))
<1>. DEFINE g     == i.queue[s].header
            h     == [g EXCEPT !.sn = i.csn]
            item  == [header |-> h, sns |-> i.queue[s].sns \cup {h.sn}]
            queue == [i.queue EXCEPT ![s] = item]
            j     == Advance(i, i.csn + 1, queue)
            f     == Resend(i, s)
<1>0. Effect(i).i = i /\ Effect(i).out = {} /\ DOMAIN i = Fields /\ Numbered(i) /\ Kinds(i.queue)
  BY DEF Effect, IsEffect, Ready
<1>1. {"type", "sn"} \subseteq DOMAIN h /\ h.sn = i.csn /\ h.type = g.type /\ h.type \in Requests
  <2>1. {"type", "sn"} \subseteq DOMAIN g /\ g.type \in Requests
    BY <1>0 DEF Kinds
  <2>. HIDE DEF g
  <2>. QED  BY <2>1
<1>2. f = [i |-> j, out |-> Copies(i, h)]
  BY Zenon DEF Resend
<1>. HIDE DEF h, g
<1>3. item.header = h /\ item.sns = i.queue[s].sns \cup {i.csn}
  BY <1>1
<1>. HIDE DEF item
<1>4. DOMAIN queue = DOMAIN i.queue /\ queue[s] = item
      /\ \A t \in DOMAIN i.queue : t # s => queue[t] = i.queue[t]
  OBVIOUS
<1>. HIDE DEF queue
<1>5. DOMAIN j = Fields /\ j.csn = (i.csn + 1) % 65536 /\ j.queue = queue
  BY <1>0, AdvanceFields
<1>. HIDE DEF j
<1>6. f.i = j /\ f.out = Copies(i, h) /\ IsEffect(f)
  BY <1>2, <1>5 DEF IsEffect
<1>. HIDE DEF f
<1>7. SUFFICES ASSUME j.csn >= i.csn PROVE Keeps(i, j) /\ Requested(f)
  BY <1>0, <1>6 DEF Carries, f
<1>8. j.csn = i.csn + 1 /\ i.csn \in Nat
  BY <1>0, <1>5, <1>7, NoWrapAround DEF Numbered
<1>9. Kinds(j.queue)
  BY <1>0, <1>1, <1>3, <1>4, <1>5 DEF Kinds
<1>10. ASSUME NEW sn, NEW type, Used(i, sn, type)
       PROVE  Used(j, sn, type)
  <2>1. sn \in Nat /\ sn < i.csn /\ sn # i.csn /\ sn < j.csn
    BY <1>8, <1>10 DEF Used
  <2>2. ASSUME NEW t \in DOMAIN j.queue, sn \in j.queue[t].sns
        PROVE  j.queue[t].header.type = type
    <3>1. sn \in i.queue[t].sns
      BY <1>3, <1>4, <1>5, <2>1, <2>2
    <3>2. i.queue[t].header.type = type
      BY <1>4, <1>5, <1>10, <3>1 DEF Used
    <3>3. j.queue[t].header.type = i.queue[t].header.type
      BY <1>1, <1>3, <1>4, <1>5 DEF g
    <3>. QED  BY <3>2, <3>3
  <2>. QED  BY <2>1, <2>2 DEF Used
<1>11. Used(j, i.csn, h.type)
  <2>1. ASSUME NEW t \in DOMAIN j.queue, i.csn \in j.queue[t].sns
        PROVE  j.queue[t].header.type = h.type
    <3>1. t = s
      BY <1>0, <1>4, <1>5, <1>8, <2>1 DEF Numbered
    <3>. QED  BY <1>3, <1>4, <1>5, <3>1
  <2>. QED  BY <1>8, <2>1 DEF Used
<1>12. ASSUME NEW m \in f.out
       PROVE  m.type \in Requests /\ Used(j, m.sn, m.type)
  <2>1. m.type = h.type /\ m.sn = i.csn
    BY <1>1, <1>6, CopiesOf
  <2>. QED  BY <1>1, <1>11, <2>1
<1>. QED  BY <1>6, <1>9, <1>10, <1>12 DEF Keeps, Requested

-----------------------------------------------------------------------------

\* The other interface is the only other one, and the other of the other.
LEMMA OtherIs ==
  ASSUME NEW n \in Peers
  PROVE  /\ Other(n) \in Peers /\ Other(n) # n /\ Other(Other(n)) = n
         /\ \A p \in Peers : p = n \/ p = Other(n)
<1>1. \A p \in Peers : \E o \in Peers : Peers \ {p} = {o}
  BY GmaAssumption
<1>2. \A p \in Peers : Other(p) \in Peers /\ Other(p) # p
  BY <1>1 DEF Other
<1>3. PICK o \in Peers : Peers \ {n} = {o}
  BY <1>1
<1>4. \A p \in Peers : p = n \/ p = o
  BY <1>3
<1>. QED  BY <1>2, <1>4

\* Message x, sent by an interface that is now j to one that is o, is a
\* request of j or answers one of o.
Known(j, o, x) ==
  \/ x.type \in Requests /\ Used(j, x.sn, x.type)
  \/ x.type = "ack" /\ Used(o, x.sn, "probe")
  \/ x.type = "tsa" /\ Used(o, x.sn, "tsu")

\* An interface takes an effect, whose messages go to the other one.
LEMMA SteppingAnswers ==
  ASSUME NumbersInv, AnswersInv, NEW n \in Peers, NEW e, Keeps(iface[n], e.i),
         \A x \in e.out : Known(e.i, iface[Other(n)], x),
         iface' = [iface EXCEPT ![n] = e.i],
         DOMAIN net' = Peers, net'[n] \subseteq net[n],
         net'[Other(n)] = net[Other(n)] \cup e.out
  PROVE  AnswersInv'
<1>. DEFINE o == Other(n)
<1>1. o \in Peers /\ o # n /\ Other(o) = n /\ \A p \in Peers : p = n \/ p = o
  BY OtherIs
<1>. HIDE DEF o
<1>2. iface'[n] = e.i /\ iface'[o] = iface[o]
  BY <1>1 DEF NumbersInv
<1>3. /\ Kinds(e.i.queue)
      /\ \A sn, type : Used(iface[n], sn, type) => Used(e.i, sn, type)
  BY DEF Keeps
<1>4. \A p \in Peers : Kinds(iface'[p].queue)
  BY <1>1, <1>2, <1>3 DEF AnswersInv
<1>5. ASSUME NEW m \in net'[n]
      PROVE  \/ m.type \in Requests /\ Used(iface'[Other(n)], m.sn, m.type)
             \/ m.type = "ack" /\ Used(iface'[n], m.sn, "probe")
             \/ m.type = "tsa" /\ Used(iface'[n], m.sn, "tsu")
  <2>1. Traced(n, m)
    BY <1>5 DEF AnswersInv
  <2>. QED  BY <1>2, <1>3, <2>1 DEF Traced, o
<1>6. ASSUME NEW m \in net'[o]
      PROVE  \/ m.type \in Requests /\ Used(iface'[Other(o)], m.sn, m.type)
             \/ m.type = "ack" /\ Used(iface'[o], m.sn, "probe")
             \/ m.type = "tsa" /\ Used(iface'[o], m.sn, "tsu")
  <2>1. CASE m \in net[o]
    <3>1. Traced(o, m)
      BY <1>1, <2>1 DEF AnswersInv
    <3>. QED  BY <1>1, <1>2, <1>3, <3>1 DEF Traced
  <2>2. CASE m \in e.out
    <3>1. Known(e.i, iface[o], m)
      BY <2>2 DEF o
    <3>. QED  BY <1>1, <1>2, <3>1 DEF Known
  <2>. QED  BY <1>6, <2>1, <2>2 DEF o
<1>7. ASSUME NEW p \in Peers, NEW m \in net'[p]
      PROVE  Traced(p, m)'
  <2>1. CASE p = n
    <3>1. m \in net'[n]
      BY <1>7, <2>1
    <3>2. Traced(n, m)'
      BY <1>5, <3>1 DEF Traced, Used, Other
    <3>. QED  BY <2>1, <3>2 DEF Traced, Used, Other
  <2>2. CASE p = o
    BY <1>6, <1>7, <2>2 DEF Traced, Used, Other
  <2>. QED  BY <1>1, <2>1, <2>2
<1>8. \A p \in Peers : Kinds(iface[p].queue)'
  BY <1>4 DEF Kinds
<1>. QED  BY <1>7, <1>8 DEF AnswersInv

\* Methods start from the interface as it is.
LEMMA PeerReady ==
  ASSUME NumbersInv, AnswersInv, NEW n \in Peers
  PROVE  /\ Ready(Effect(iface[n])) /\ Effect(iface[n]).i = iface[n] /\ Effect(iface[n]).out = {}
         /\ iface[n].csn \in Nat /\ DOMAIN iface[n] = Fields /\ Numbered(iface[n])
         /\ Kinds(iface[n].queue)
BY DEF NumbersInv, AnswersInv, Numbered, Ready, IsEffect, Effect

\* The bounds keep the numbers from wrapping within a step.
LEMMA WrapNot ==
  ASSUME NEW n, NEW e, iface[n].csn \in Nat, NoWrap(n, e)
  PROVE  e.i.csn >= iface[n].csn
BY GmaAssumption DEF NoWrap

\* An interface that does what carries on keeps the invariant.
LEMMA DoingAnswers ==
  ASSUME NumbersInv, AnswersInv, NEW n \in Peers, NEW e, Carries(Effect(iface[n]), e), Does(n, e)
  PROVE  AnswersInv'
<1>1. e.i.csn >= iface[n].csn
  BY PeerReady, WrapNot DEF Does
<1>2. Keeps(iface[n], e.i) /\ Requested(e)
  BY <1>1, PeerReady DEF Carries, Requested
<1>3. \A x \in e.out : Known(e.i, iface[Other(n)], x)
  BY <1>2 DEF Requested, Known
<1>4. /\ iface' = [iface EXCEPT ![n] = e.i]
      /\ net' = [net EXCEPT ![Other(n)] = net[Other(n)] \cup e.out]
  BY DEF Does
<1>5. DOMAIN net = Peers /\ Other(n) \in Peers /\ Other(n) # n
  BY OtherIs DEF AnswersInv
<1>6. DOMAIN net' = Peers /\ net'[n] = net[n] /\ net'[Other(n)] = net[Other(n)] \cup e.out
  BY <1>4, <1>5
<1>. QED  BY <1>2, <1>3, <1>4, <1>6, SteppingAnswers

\* What differs from an interface in other fields than its numbers may be sent
\* from.
LEMMA FromAnswers ==
  ASSUME NEW i, Ready(Effect(i)), NEW j, DOMAIN j = Fields, j.csn = i.csn, j.queue = i.queue
  PROVE  /\ Ready(Effect(j)) /\ Carries(Effect(i), Effect(j))
         /\ \A e : Carries(Effect(j), e) => Carries(Effect(i), e)
         /\ \A split : Carries(Effect(i), SendTsu(Effect(j), split))
<1>1. /\ Effect(i).i = i /\ Effect(j).i = j /\ Effect(i).out = {} /\ Effect(j).out = {}
      /\ DOMAIN Effect(j) = {"i", "out"}
  BY DEF Effect
<1>2. Quiet(Effect(i), Effect(j))
  BY <1>1 DEF Quiet, NoNewNumbers, IsEffect
<1>3. Ready(Effect(j)) /\ Carries(Effect(i), Effect(j))
  BY <1>2, QuietReady
<1>4. \A e : Carries(Effect(j), e) => Carries(Effect(i), e)
  BY <1>2, CarriesThrough DEF Ready
<1>. QED  BY <1>3, <1>4, TsuCarries

\* The periodic probes (PeriodicProbeMsg)
LEMMA ProbeStepAnswers ==
  ASSUME NumbersInv, AnswersInv, NEW n \in Peers, PeriodicProbeMsg(n)
  PROVE  AnswersInv'
<1>. DEFINE i == iface[n]
            headers == Probes(i)
<1>1. Does(n, SendCtrlMsgs(Effect(i), headers))
  BY DEF PeriodicProbeMsg, Begins
<1>2. Ready(Effect(i)) /\ Effect(i).i = i /\ Numbered(i)
  BY PeerReady
<1>3. Cardinality(headers) \in Nat /\ Cardinality(headers) < 65536 /\ NextNumbers(i, headers)
  BY <1>2, ProbeNumbers
<1>4. RequestsOf(headers, "probe")
  <2>. SUFFICES ASSUME NEW h \in headers PROVE {"type", "sn"} \subseteq DOMAIN h /\ h.type = "probe"
    BY DEF RequestsOf, Requests
  <2>1. PICK c \in Cids, sn \in {iface[n].csn + Cardinality({d \in Cids : d < x}) : x \in Cids} :
          h = [type |-> "probe", sn |-> sn, cid |-> c]
    BY DEF Probes
  <2>. QED  BY <2>1
<1>. HIDE DEF headers
<1>5. Carries(Effect(i), SendCtrlMsgs(Effect(i), headers))
  BY <1>2, <1>3, <1>4, SendingCarries DEF Ready
<1>. QED  BY <1>1, <1>5, DoingAnswers

\* The power of the Wi-Fi signal crosses a threshold.
LEMMA PowerStepAnswers ==
  ASSUME NumbersInv, AnswersInv, NEW n \in Peers, WifiPowerLow(n) \/ WifiPowerHigh(n)
  PROVE  AnswersInv'
<1>. DEFINE i == iface[n]
<1>1. Ready(Effect(i)) /\ DOMAIN i = Fields
  BY PeerReady
<1>2. CASE WifiPowerLow(n)
  <2>. DEFINE j == [i EXCEPT !.power = 0, !.marking = TRUE]
  <2>1. Does(n, TakeDown(Effect(j), "lowQuality", Wifi))
    BY <1>2 DEF WifiPowerLow, Begins
  <2>2. DOMAIN j = Fields /\ j.csn = i.csn /\ j.queue = i.queue
    BY <1>1 DEF Fields
  <2>. HIDE DEF j
  <2>3. Carries(Effect(i), TakeDown(Effect(j), "lowQuality", Wifi))
    BY <1>1, <2>2, FromAnswers, TakeDownCarries
  <2>. QED  BY <2>1, <2>3, DoingAnswers
<1>3. CASE WifiPowerHigh(n)
  <2>. DEFINE j == [i EXCEPT !.power = 1, !.marking = TRUE,
                             !.ls = LinkUp(i.ls, "lowQuality", Wifi)]
  <2>1. Does(n, Effect(j))
    BY <1>3 DEF WifiPowerHigh, Begins
  <2>2. DOMAIN j = Fields /\ j.csn = i.csn /\ j.queue = i.queue
    BY <1>1 DEF Fields
  <2>. HIDE DEF j
  <2>. QED  BY <1>1, <2>1, <2>2, FromAnswers, DoingAnswers
<1>. QED  BY <1>2, <1>3

\* A measurement cycle ends with a decision.
LEMMA MeasureStepAnswers ==
  ASSUME NumbersInv, AnswersInv, NEW n \in Peers, MeasureCycleEnd(n)
  PROVE  AnswersInv'
<1>. DEFINE i     == iface[n]
            start == Started(i.ls, i.split, i.burst)
<1>1. Ready(Effect(i)) /\ DOMAIN i = Fields
  BY PeerReady
<1>2. PICK k \in MeasuredSplits(i.ls, start) :
        LET j == [i EXCEPT !.split = k] IN
        Begins(n, IF k = start THEN Effect(j)
                               ELSE SendTsu(Effect([j EXCEPT !.measuring = FALSE]), k))
  BY Zenon DEF MeasureCycleEnd
<1>. HIDE DEF start
<1>. DEFINE j == [i EXCEPT !.split = k]
            h == [j EXCEPT !.measuring = FALSE]
<1>3. Does(n, IF k = start THEN Effect(j) ELSE SendTsu(Effect(h), k))
  BY <1>2 DEF Begins
<1>4. DOMAIN j = Fields /\ j.csn = i.csn /\ j.queue = i.queue
  BY <1>1 DEF Fields
<1>5. DOMAIN h = Fields /\ h.csn = i.csn /\ h.queue = i.queue
  BY <1>1 DEF Fields
<1>. HIDE DEF j, h
<1>6. Carries(Effect(i), Effect(j)) /\ Carries(Effect(i), SendTsu(Effect(h), k))
  BY <1>1, <1>4, <1>5, FromAnswers
<1>. QED  BY <1>3, <1>6, DoingAnswers

\* An action of the agent asks for a split.
LEMMA SplitActionStepAnswers ==
  ASSUME NumbersInv, AnswersInv, NEW n \in Peers, ReceiveDlSplitWeightAction(n)
  PROVE  AnswersInv'
<1>. DEFINE i == iface[n]
<1>1. Ready(Effect(i)) /\ DOMAIN i = Fields
  BY PeerReady
<1>2. PICK k \in RlSplits :
        Begins(n, IF k = i.split THEN Effect(AskedFor(i, k)) ELSE SendTsu(Effect(AskedFor(i, k)), k))
  BY DEF ReceiveDlSplitWeightAction
<1>. DEFINE j == AskedFor(i, k)
<1>3. Does(n, IF k = i.split THEN Effect(j) ELSE SendTsu(Effect(j), k))
  BY <1>2 DEF Begins
<1>4. DOMAIN j = Fields /\ j.csn = i.csn /\ j.queue = i.queue
  BY <1>1 DEF AskedFor, Fields
<1>. HIDE DEF j
<1>5. Carries(Effect(i), Effect(j)) /\ Carries(Effect(i), SendTsu(Effect(j), k))
  BY <1>1, <1>4, FromAnswers
<1>. QED  BY <1>3, <1>5, DoingAnswers

\* A retransmission timer expires.
LEMMA RetxStepAnswers ==
  ASSUME NumbersInv, AnswersInv, NEW n \in Peers, RetxCtrlMsgExpires(n)
  PROVE  AnswersInv'
<1>. DEFINE i == iface[n]
<1>1. PICK s \in DOMAIN i.queue : Does(n, GiveUp(i, s)) \/ Does(n, Resend(i, s))
  BY DEF RetxCtrlMsgExpires
<1>2. Ready(Effect(i))
  BY PeerReady
<1>3. Carries(Effect(i), GiveUp(i, s)) /\ Carries(Effect(i), Resend(i, s))
  BY <1>2, GiveUpCarries, ResendCarries
<1>. QED  BY <1>1, <1>3, DoingAnswers

\* A request is answered, and the answer goes to who sent it.
LEMMA AnswerStep ==
  ASSUME NumbersInv, AnswersInv, NEW n \in Peers, NEW m \in net[n], NEW f,
         \/ m.type = "probe" /\ Answers(Effect(iface[n]), f, "ack", m)
         \/ m.type = "tsu" /\ Answers(Effect(iface[n]), f, "tsa", m)
         \/ m.type \notin Requests /\ Carries(Effect(iface[n]), f),
         NoWrap(n, f), iface' = [iface EXCEPT ![n] = f.i],
         net' = [net EXCEPT ![n] = net[n] \ {m}, ![Other(n)] = net[Other(n)] \cup f.out]
  PROVE  AnswersInv'
<1>. DEFINE e == Effect(iface[n])
            o == iface[Other(n)]
<1>1. Ready(e) /\ e.i = iface[n] /\ e.out = {} /\ iface[n].csn \in Nat
  BY PeerReady
<1>2. f.i.csn >= iface[n].csn
  BY <1>1, WrapNot
<1>3. Requested(e)
  BY <1>1 DEF Requested
<1>4. Traced(n, m)
  BY DEF AnswersInv
<1>5. ASSUME NEW g, Carries(e, g), f.i = g.i
      PROVE  Keeps(iface[n], f.i) /\ \A x \in g.out : Known(f.i, o, x)
  <2>1. Keeps(iface[n], f.i) /\ Requested(g)
    BY <1>1, <1>2, <1>3, <1>5 DEF Carries
  <2>. QED  BY <1>5, <2>1 DEF Requested, Known
<1>. HIDE DEF e
<1>6. Keeps(iface[n], f.i) /\ \A x \in f.out : Known(f.i, o, x)
  <2>1. CASE m.type = "probe" /\ Answers(e, f, "ack", m)
    <3>1. PICK g : /\ Carries(e, g) /\ f.i = g.i
                   /\ \A x \in f.out : x \in g.out \/ (x.type = "ack" /\ x.sn = m.sn)
      BY <2>1 DEF Answers
    <3>2. Used(o, m.sn, "probe")
      BY <1>4, <2>1 DEF Traced
    <3>3. \A x \in f.out : Known(f.i, o, x)
      BY <1>5, <3>1, <3>2 DEF Known
    <3>. QED  BY <1>5, <3>1, <3>3
  <2>2. CASE m.type = "tsu" /\ Answers(e, f, "tsa", m)
    <3>1. PICK g : /\ Carries(e, g) /\ f.i = g.i
                   /\ \A x \in f.out : x \in g.out \/ (x.type = "tsa" /\ x.sn = m.sn)
      BY <2>2 DEF Answers
    <3>2. Used(o, m.sn, "tsu")
      BY <1>4, <2>2 DEF Traced
    <3>3. \A x \in f.out : Known(f.i, o, x)
      BY <1>5, <3>1, <3>2 DEF Known
    <3>. QED  BY <1>5, <3>1, <3>3
  <2>3. CASE m.type \notin Requests /\ Carries(e, f)
    BY <1>5, <2>3
  <2>. QED  BY <2>1, <2>2, <2>3 DEF e
<1>7. DOMAIN net = Peers /\ Other(n) \in Peers /\ Other(n) # n
  BY OtherIs DEF AnswersInv
<1>8. DOMAIN net' = Peers /\ net'[n] \subseteq net[n] /\ net'[Other(n)] = net[Other(n)] \cup f.out
  BY <1>7
<1>. QED  BY <1>6, <1>8, SteppingAnswers

\* A control message arrives.
LEMMA RecvStepAnswers ==
  ASSUME NumbersInv, AnswersInv, NEW n \in Peers, RecvCtrlMsg(n)
  PROVE  AnswersInv'
<1>. DEFINE e    == Effect(iface[n])
            f(m) == CASE m.type = "probe" -> RecvProbe(e, m)
                      [] m.type = "tsu"   -> RecvTsu(n, e, m)
                      [] OTHER            -> RecvAck(n, e, m)
<1>1. PICK m \in net[n] :
        /\ NoWrap(n, f(m)) /\ iface' = [iface EXCEPT ![n] = f(m).i]
        /\ net' = [net EXCEPT ![n] = net[n] \ {m}, ![Other(n)] = net[Other(n)] \cup f(m).out]
  <2>1. DOMAIN net = Peers /\ Other(n) # n
    BY OtherIs DEF AnswersInv
  <2>. QED  BY <2>1 DEF RecvCtrlMsg
<1>2. Ready(e)
  BY PeerReady
<1>. HIDE DEF e
<1>3. \/ m.type = "probe" /\ Answers(e, f(m), "ack", m)
      \/ m.type = "tsu" /\ Answers(e, f(m), "tsa", m)
      \/ m.type \notin Requests /\ Carries(e, f(m))
  <2>1. CASE m.type = "probe"
    BY <1>2, <2>1, RecvProbeAnswers
  <2>2. CASE m.type = "tsu"
    BY <1>2, <2>2, RecvTsuAnswers
  <2>3. CASE m.type \notin {"probe", "tsu"}
    <3>1. f(m) = RecvAck(n, e, m)
      BY <2>3
    <3>. QED  BY <1>2, <2>3, <3>1, RecvAckCarries DEF Requests
  <2>. QED  BY <2>1, <2>2, <2>3
<1>. HIDE DEF f
<1>. QED  BY <1>1, <1>3, AnswerStep DEF e

\* Every number in flight is always traced to its request.
LEMMA AnswersHold == Spec => []AnswersInv
<1>1. Init => AnswersInv
  <2>. SUFFICES ASSUME Init PROVE AnswersInv
    OBVIOUS
  <2>1. \A n \in Peers : iface[n].queue = EmptyDict
    BY DEF Init, InitInterface
  <2>2. Kinds(EmptyDict)
    BY DEF Kinds, EmptyDict
  <2>. QED  BY <2>1, <2>2 DEF Init, AnswersInv
<1>2. NumbersInv /\ AnswersInv /\ [Next]_vars => AnswersInv'
  <2>. SUFFICES ASSUME NumbersInv, AnswersInv, [Next]_vars PROVE AnswersInv'
    OBVIOUS
  <2>1. CASE UNCHANGED vars
    BY <2>1 DEF vars, AnswersInv, Kinds, Traced, Used
  <2>2. ASSUME NEW n \in Peers,
               \/ PeriodicProbeMsg(n)
               \/ WifiPowerLow(n) \/ WifiPowerHigh(n)
               \/ MeasureCycleEnd(n)
               \/ ReceiveDlSplitWeightAction(n)
               \/ RecvCtrlMsg(n)
               \/ RetxCtrlMsgExpires(n)
        PROVE  AnswersInv'
    BY <2>2, ProbeStepAnswers, PowerStepAnswers, MeasureStepAnswers, SplitActionStepAnswers,
       RecvStepAnswers, RetxStepAnswers
  <2>. QED  BY <2>1, <2>2 DEF Next
<1>. QED  BY <1>1, <1>2, NumbersInOrder, PTL DEF Spec

\* An ACK or a TSA that finds a message waiting for its number finds a probe
\* or a TSU respectively (RecvCtrlMsg, gma-virtual-interface.cc): for any
\* links, splits, bounds, losses, overtaking and retransmissions.
THEOREM AnswersFindTheirRequests == Spec => []AnswersMatch
<1>1. AnswersInv => AnswersMatch
  BY DEF AnswersInv, Traced, Used, AnswersMatch, Requests
<1>. QED  BY <1>1, AnswersHold, PTL

-----------------------------------------------------------------------------
(* The splits add up, failed links are shed, and the defaults follow.      *)

\* And the split that an action of the agent asks for, with its burst.
LEMMA AskedAddsUp ==
  ASSUME NEW k \in RlSplits
  PROVE  Adds(k, 128)
<1>1. k \in Splits(128)
  BY GmaAssumption DEF MaxSplittingBurst
<1>2. k \in [Cids -> 0 .. 128] /\ Burst(k) = 128
  BY <1>1 DEF Splits
<1>3. \A c \in Cids : k[c] \in Nat
  BY <1>2
<1>. QED  BY <1>2, <1>3 DEF Adds

-----------------------------------------------------------------------------

\* A header names a link, and a TSU gives some link something.
HeaderOK(h) ==
  /\ {"type", "sn", "cid"} \subseteq DOMAIN h
  /\ h.cid \in Cids
  /\ h.type = "tsu" => "split" \in DOMAIN h /\ Burst(h.split) > 0

\* All messages that wait have such headers.
QueueOK(q) == \A s \in DOMAIN q : HeaderOK(q[s].header)

\* All new messages have such headers.
HeadersOK(headers) == \A h \in headers : HeaderOK(h)

\* The inductive invariant for an interface
SplitInv(i) ==
  /\ DOMAIN i = Fields
  /\ i.ls \in LinkStates
  /\ i.burst \in Nat \ {0}
  /\ i.split = NoSplit \/ Adds(i.split, i.burst)
  /\ QueueOK(i.queue)

\* A link that was up in i and is not in j has no share any more, if another
\* link is up.
Sheds(i, j) ==
  \A c \in UpLinks(i.ls) \ UpLinks(j.ls) :
    UpLinks(j.ls) # {} => j.split = NoSplit \/ j.split[c] = 0

\* What any method makes of i
Leads(i, j) == SplitInv(j) /\ Follow(i.ls, j.ls) /\ Sheds(i, j)

\* The same for effects
Good(e, f) == IsEffect(f) /\ Leads(e.i, f.i)

\* An interface whose links stay as they are has nothing to shed or to follow.
LEMMA Stays ==
  ASSUME NEW i, NEW j, SplitInv(j), j.ls = i.ls
  PROVE  Leads(i, j)
BY DEF Leads, Follow, Sheds

\* What does not touch the links may come before a method.
LEMMA LeadsThrough ==
  ASSUME NEW i, NEW j, NEW k, j.ls = i.ls, Leads(j, k)
  PROVE  Leads(i, k)
BY DEF Leads, Follow, Sheds

\* What touches neither the links nor the split may come after a method.
LEMMA LeadsOn ==
  ASSUME NEW i, NEW j, NEW k, Leads(i, j), SplitInv(k), k.ls = j.ls, k.split = j.split
  PROVE  Leads(i, k)
BY DEF Leads, Follow, Sheds

\* New messages that are in order leave the queue in order.
LEMMA EnqueueOK ==
  ASSUME NEW q, QueueOK(q), NEW headers, HeadersOK(headers)
  PROVE  QueueOK(Enqueue(q, headers))
<1>. DEFINE new == Enqueue(q, headers)
<1>1. DOMAIN new = DOMAIN q \cup {h.sn : h \in headers}
  BY DEF Enqueue
<1>2. ASSUME NEW s \in DOMAIN new
      PROVE  HeaderOK(new[s].header)
  <2>1. CASE s \in DOMAIN q
    <3>1. new[s] = q[s]
      BY <2>1 DEF Enqueue
    <3>. QED  BY <2>1, <3>1 DEF QueueOK
  <2>2. CASE s \notin DOMAIN q
    <3>. DEFINE h == CHOOSE g \in headers : g.sn = s
    <3>1. h \in headers
      BY <1>1, <1>2, <2>2
    <3>2. new[s] = [header |-> h, sns |-> {s}]
      BY <1>1, <1>2, <2>2 DEF Enqueue
    <3>. HIDE DEF h, new
    <3>3. new[s].header = h
      BY <3>2
    <3>. QED  BY <3>1, <3>3 DEF HeadersOK
  <2>. QED  BY <2>1, <2>2
<1>. HIDE DEF new
<1>3. QueueOK(new)
  BY <1>2 DEF QueueOK
<1>. QED  BY <1>3 DEF new

\* Taking numbers touches neither links nor splits.
LEMMA AdvanceSplits ==
  ASSUME NEW i, SplitInv(i), NEW k, NEW queue, QueueOK(queue)
  PROVE  /\ SplitInv(Advance(i, k, queue))
         /\ Advance(i, k, queue).ls = i.ls /\ Advance(i, k, queue).split = i.split
<1>. DEFINE j == Advance(i, k, queue)
<1>1. DOMAIN j = Fields /\ j.queue = queue
  BY AdvanceFields DEF SplitInv
<1>2. j.ls = i.ls /\ j.burst = i.burst /\ j.split = i.split
  BY DEF Advance, SplitInv, Fields
<1>. HIDE DEF j
<1>3. SplitInv(j)
  BY <1>1, <1>2 DEF SplitInv
<1>. QED  BY <1>2, <1>3 DEF j

\* Neither does sending messages in order.
LEMMA SendingSplits ==
  ASSUME NEW e, IsEffect(e), SplitInv(e.i), NEW headers, HeadersOK(headers)
  PROVE  LET f == SendCtrlMsgs(e, headers)
         IN  IsEffect(f) /\ SplitInv(f.i) /\ f.i.ls = e.i.ls /\ f.i.split = e.i.split
<1>. DEFINE f == SendCtrlMsgs(e, headers)
            q == Enqueue(e.i.queue, headers)
            n == e.i.csn + Cardinality(headers)
<1>1. IsEffect(f)
  BY SendingFields
<1>2. f.i = Advance(e.i, n, q)
  BY SendingIs
<1>3. QueueOK(q)
  BY EnqueueOK DEF SplitInv
<1>. HIDE DEF f, q, n
<1>4. SplitInv(f.i) /\ f.i.ls = e.i.ls /\ f.i.split = e.i.split
  BY <1>2, <1>3, AdvanceSplits
<1>. QED  BY <1>1, <1>4 DEF f

\* A TSU with a split that gives some link something is in order.
LEMMA TsuSplits ==
  ASSUME NEW e, IsEffect(e), SplitInv(e.i), NEW split, Burst(split) > 0
  PROVE  LET f == SendTsu(e, split)
         IN  IsEffect(f) /\ SplitInv(f.i) /\ f.i.ls = e.i.ls /\ f.i.split = e.i.split
<1>. DEFINE h == [type |-> "tsu", sn |-> e.i.csn, cid |-> Wifi, split |-> split]
            headers == {h}
<1>1. HeaderOK(h)
  BY CidsFinite DEF HeaderOK
<1>. HIDE DEF h
<1>2. HeadersOK(headers)
  BY <1>1 DEF HeadersOK
<1>3. SendTsu(e, split) = SendCtrlMsgs(e, headers)
  BY DEF SendTsu, h
<1>. HIDE DEF headers
<1>. QED  BY <1>2, <1>3, SendingSplits

\* Shedding the share of a link remembers a split that adds up without it.
LEMMA ShedSplits ==
  ASSUME NEW e, IsEffect(e), SplitInv(e.i), NEW c \in Cids
  PROVE  LET f == Shed(e, c)
         IN  /\ IsEffect(f) /\ SplitInv(f.i) /\ f.i.ls = e.i.ls
             /\ c \notin UpLinks(e.i.ls) /\ UpLinks(e.i.ls) # {} => f.i.split = NoSplit \/ f.i.split[c] = 0
<1>. DEFINE d == LinkDownTsu(e.i.ls, e.i.split, e.i.burst, c)
            r == Remember(e, d.split)
<1>1. Shed(e, c) = IF d.update THEN SendTsu(r, d.tsu) ELSE r
  BY DEF Shed
<1>2. /\ e.i.ls \in LinkStates /\ e.i.burst \in Nat \ {0} /\ DOMAIN e.i = Fields
      /\ e.i.split = NoSplit \/ Adds(e.i.split, e.i.burst)
  BY DEF SplitInv
<1>3. /\ d.split = NoSplit \/ Adds(d.split, e.i.burst)
      /\ d.update => Adds(d.tsu, e.i.burst)
      /\ c \notin UpLinks(e.i.ls) /\ UpLinks(e.i.ls) # {} => d.split = NoSplit \/ d.split[c] = 0
  BY <1>2, ShedAddsUp
<1>. HIDE DEF d
<1>4. IsEffect(r) /\ r.i.ls = e.i.ls /\ r.i.burst = e.i.burst /\ r.i.split = d.split /\ r.i.queue = e.i.queue
  BY DEF Remember, IsEffect, Fields
<1>. HIDE DEF r
<1>5. SplitInv(r.i)
  BY <1>2, <1>3, <1>4 DEF SplitInv, IsEffect
<1>6. CASE d.update
  <2>1. Burst(d.tsu) > 0
    BY <1>2, <1>3, <1>6 DEF Adds
  <2>2. /\ IsEffect(SendTsu(r, d.tsu)) /\ SplitInv(SendTsu(r, d.tsu).i)
        /\ SendTsu(r, d.tsu).i.ls = r.i.ls /\ SendTsu(r, d.tsu).i.split = r.i.split
    BY <1>4, <1>5, <2>1, TsuSplits
  <2>. QED  BY <1>1, <1>3, <1>4, <1>6, <2>2
<1>7. CASE ~d.update
  BY <1>1, <1>3, <1>4, <1>5, <1>7
<1>. QED  BY <1>6, <1>7

\* Marking a link as failed leaves an interface that still adds up.
LEMMA MarkDownSplits ==
  ASSUME NEW e, IsEffect(e), SplitInv(e.i), NEW why \in Reasons, NEW c \in Cids
  PROVE  LET f == MarkDown(e, why, c)
         IN  /\ IsEffect(f) /\ SplitInv(f.i) /\ f.i.split = e.i.split
             /\ UpLinks(f.i.ls) = UpLinks(e.i.ls) \ {c} /\ Follow(e.i.ls, f.i.ls)
<1>. DEFINE ls == LinkDown(e.i.ls, why, c)
            f  == MarkDown(e, why, c)
<1>1. ls \in LinkStates /\ UpLinks(ls) = UpLinks(e.i.ls) \ {c} /\ Follow(e.i.ls, ls)
  BY LinkDownIs DEF SplitInv
<1>2. /\ IsEffect(f) /\ f.i.ls = ls /\ f.i.split = e.i.split /\ f.i.burst = e.i.burst
      /\ f.i.queue = e.i.queue
  <2>1. f = [e EXCEPT !.i.ls = ls]
    BY DEF MarkDown
  <2>. HIDE DEF f, ls
  <2>. QED  BY <2>1 DEF IsEffect, Fields
<1>. HIDE DEF f, ls
<1>3. SplitInv(f.i)
  BY <1>1, <1>2 DEF SplitInv, IsEffect
<1>. QED  BY <1>1, <1>2, <1>3 DEF f

\* Taking a link down sheds its share.
LEMMA TakeDownSplits ==
  ASSUME NEW e, IsEffect(e), SplitInv(e.i), NEW why \in Reasons, NEW c \in Cids
  PROVE  Good(e, TakeDown(e, why, c))
<1>. DEFINE f == MarkDown(e, why, c)
            g == Shed(f, c)
<1>1. TakeDown(e, why, c) = IF IsLinkUp(e.i.ls, c) THEN g ELSE f
  BY DEF TakeDown
<1>2. /\ IsEffect(f) /\ SplitInv(f.i) /\ f.i.split = e.i.split
      /\ UpLinks(f.i.ls) = UpLinks(e.i.ls) \ {c} /\ Follow(e.i.ls, f.i.ls)
  BY MarkDownSplits
<1>. HIDE DEF f
<1>3. /\ IsEffect(g) /\ SplitInv(g.i) /\ g.i.ls = f.i.ls
      /\ c \notin UpLinks(f.i.ls) /\ UpLinks(f.i.ls) # {} => g.i.split = NoSplit \/ g.i.split[c] = 0
  BY <1>2, ShedSplits
<1>. HIDE DEF g
<1>4. IsLinkUp(e.i.ls, c) <=> c \in UpLinks(e.i.ls)
  BY DEF UpLinks
<1>5. CASE IsLinkUp(e.i.ls, c)
  BY <1>1, <1>2, <1>3, <1>5 DEF Good, Leads, Sheds, Follow
<1>6. CASE ~IsLinkUp(e.i.ls, c)
  BY <1>1, <1>2, <1>4, <1>6 DEF Good, Leads, Sheds, Follow
<1>. QED  BY <1>5, <1>6

-----------------------------------------------------------------------------

\* Two methods in a row, the second of which leaves the links and the split
\* alone
LEMMA GoodOn ==
  ASSUME NEW e, NEW f, NEW g, Good(e, f), IsEffect(g), SplitInv(g.i),
         g.i.ls = f.i.ls, g.i.split = f.i.split
  PROVE  Good(e, g)
BY LeadsOn DEF Good

\* Reading the link map of the peer takes Wi-Fi down or brings it up.
LEMMA ReadLinkMapSplits ==
  ASSUME NEW e, IsEffect(e), SplitInv(e.i), NEW m
  PROVE  Good(e, ReadLinkMap(e, m))
<1>. DEFINE f  == ObeyLinkMap(e, m)
            g  == [f EXCEPT !.i.maxMap = m.sn]
            ls == LinkUp(e.i.ls, "bitmapFailed", Wifi)
            h  == [e EXCEPT !.i.ls = ls]
<1>1. Good(e, e)
  BY Stays DEF Good
<1>2. Good(e, TakeDown(e, "bitmapFailed", Wifi))
  BY TakeDownSplits, CidsFinite DEF Reasons
<1>3. Good(e, h)
  <2>1. ls \in LinkStates /\ UpLinks(e.i.ls) \subseteq UpLinks(ls) /\ Follow(e.i.ls, ls)
    BY LinkUpIs DEF SplitInv, Reasons
  <2>. HIDE DEF ls
  <2>2. /\ IsEffect(h) /\ h.i.ls = ls /\ h.i.split = e.i.split /\ h.i.burst = e.i.burst
        /\ h.i.queue = e.i.queue
    BY DEF IsEffect, Fields
  <2>. HIDE DEF h
  <2>3. SplitInv(h.i)
    BY <2>1, <2>2 DEF SplitInv, IsEffect
  <2>. QED  BY <2>1, <2>2, <2>3 DEF Good, Leads, Sheds
<1>4. f \in {e, TakeDown(e, "bitmapFailed", Wifi), h}
  BY DEF ObeyLinkMap
<1>. HIDE DEF f, h
<1>5. Good(e, f)
  BY <1>1, <1>2, <1>3, <1>4
<1>6. /\ IsEffect(g) /\ g.i.ls = f.i.ls /\ g.i.split = f.i.split /\ g.i.burst = f.i.burst
      /\ g.i.queue = f.i.queue
  BY <1>5 DEF Good, IsEffect, Fields
<1>7. g = ReadLinkMap(e, m)
  BY DEF ReadLinkMap, f
<1>. HIDE DEF g
<1>8. SplitInv(g.i)
  BY <1>5, <1>6 DEF Good, Leads, SplitInv, IsEffect
<1>. QED  BY <1>5, <1>6, <1>7, <1>8, GoodOn

\* A reply may bring a link up, which sheds nothing.
LEMMA ReplySplits ==
  ASSUME NEW e, NEW f, Good(e, f), NEW type, NEW m
  PROVE  Good(e, Reply(f, type, m))
<1>. DEFINE g == Reply(f, type, m)
<1>1. IsEffect(g) /\ g.i = f.i
  BY DEF Good, Reply, IsEffect
<1>. HIDE DEF g
<1>2. Good(e, g)
  BY <1>1, GoodOn DEF Good, Leads
<1>. QED  BY <1>2 DEF g

\* A probe arrives.
LEMMA RecvProbeSplits ==
  ASSUME NEW e, IsEffect(e), SplitInv(e.i), NEW m
  PROVE  Good(e, RecvProbe(e, m))
BY ReadLinkMapSplits, ReplySplits DEF RecvProbe

\* A TSU arrives.
LEMMA RecvTsuSplits ==
  ASSUME NEW e, IsEffect(e), SplitInv(e.i), NEW n, NEW m
  PROVE  Good(e, RecvTsu(n, e, m))
<1>. DEFINE f == ReadLinkMap(e, m)
            g == ObeyTsu(n, f, m)
<1>1. Good(e, f)
  BY ReadLinkMapSplits
<1>. HIDE DEF f
<1>2. /\ IsEffect(g) /\ g.i.ls = f.i.ls /\ g.i.split = f.i.split /\ g.i.burst = f.i.burst
      /\ g.i.queue = f.i.queue
  BY <1>1 DEF Good, ObeyTsu, IsEffect, Fields
<1>. HIDE DEF g
<1>3. SplitInv(g.i)
  BY <1>1, <1>2 DEF Good, Leads, SplitInv, IsEffect
<1>4. Good(e, g)
  BY <1>1, <1>2, <1>3, GoodOn
<1>5. Good(e, Reply(g, "tsa", m))
  BY <1>4, ReplySplits
<1>. QED  BY <1>5 DEF RecvTsu, f, g

\* Settling requests touches neither links nor splits.
LEMMA SettleSplits ==
  ASSUME NEW e, NEW f, Good(e, f), NEW S
  PROVE  Good(e, Settle(f, S))
<1>. DEFINE q == Without(f.i.queue, S)
            g == Settle(f, S)
<1>1. \A s \in DOMAIN q : s \in DOMAIN f.i.queue /\ q[s] = f.i.queue[s]
  BY DEF Without
<1>2. g = [f EXCEPT !.i.queue = q]
  BY DEF Settle
<1>. HIDE DEF q, g
<1>3. QueueOK(q)
  BY <1>1 DEF Good, Leads, SplitInv, QueueOK
<1>4. /\ IsEffect(g) /\ g.i.ls = f.i.ls /\ g.i.split = f.i.split /\ g.i.burst = f.i.burst
      /\ g.i.queue = q
  BY <1>2 DEF Good, IsEffect, Fields
<1>5. SplitInv(g.i)
  BY <1>3, <1>4 DEF Good, Leads, SplitInv, IsEffect
<1>6. Good(e, g)
  BY <1>4, <1>5, GoodOn
<1>. QED  BY <1>6 DEF g

\* An ACK or a TSA arrives.
LEMMA RecvAckSplits ==
  ASSUME NEW e, IsEffect(e), SplitInv(e.i), NEW n, NEW m
  PROVE  Good(e, RecvAck(n, e, m))
<1>. DEFINE settled == {s \in DOMAIN e.i.queue : m.sn \in e.i.queue[s].sns}
            f  == Settle(e, settled)
            g  == StartCycle(n, f, m)
            ls == LinkUp(g.i.ls, "ctrFailed", m.cid)
            h  == [g EXCEPT !.i.ls = ls]
<1>1. RecvAck(n, e, m) = IF settled = {} THEN e ELSE h
  BY DEF RecvAck
<1>. HIDE DEF settled
<1>2. Good(e, e)
  BY Stays DEF Good
<1>3. Good(e, f) /\ f.i.ls = e.i.ls /\ f.i.split = e.i.split
  BY <1>2, SettleSplits DEF Settle, IsEffect, Fields
<1>. HIDE DEF f
<1>4. /\ IsEffect(g) /\ g.i.ls = f.i.ls /\ g.i.split = f.i.split /\ g.i.burst = f.i.burst
      /\ g.i.queue = f.i.queue
  BY <1>3 DEF Good, StartCycle, IsEffect, Fields
<1>. HIDE DEF g
<1>5. SplitInv(g.i)
  BY <1>3, <1>4 DEF Good, Leads, SplitInv, IsEffect
<1>6. ls \in LinkStates /\ UpLinks(g.i.ls) \subseteq UpLinks(ls) /\ Follow(g.i.ls, ls)
  BY <1>5, LinkUpIs DEF SplitInv, Reasons
<1>. HIDE DEF ls
<1>7. /\ IsEffect(h) /\ h.i.ls = ls /\ h.i.split = g.i.split /\ h.i.burst = g.i.burst
      /\ h.i.queue = g.i.queue
  BY <1>4 DEF IsEffect, Fields
<1>. HIDE DEF h
<1>8. SplitInv(h.i)
  BY <1>5, <1>6, <1>7 DEF SplitInv, IsEffect
<1>9. Leads(g.i, h.i)
  BY <1>6, <1>7, <1>8 DEF Leads, Sheds
<1>10. Good(e, h)
  BY <1>3, <1>4, <1>7, <1>9, LeadsThrough DEF Good
<1>. QED  BY <1>1, <1>2, <1>10

\* A request is given up, and its link goes down.
LEMMA GiveUpSplits ==
  ASSUME NEW i, SplitInv(i), NEW s \in DOMAIN i.queue
  PROVE  Good(Effect(i), GiveUp(i, s))
<1>1. IsEffect(Effect(i)) /\ Effect(i).i = i
  BY DEF Effect, IsEffect, SplitInv
<1>2. i.queue[s].header.cid \in Cids
  BY DEF SplitInv, QueueOK, HeaderOK
<1>3. Good(Effect(i), TakeDown(Effect(i), "ctrFailed", i.queue[s].header.cid))
  BY <1>1, <1>2, TakeDownSplits DEF Reasons
<1>. QED  BY <1>3, SettleSplits DEF GiveUp


\* A request is sent again, as it was but for its number.
LEMMA ResendSplits ==
  ASSUME NEW i, SplitInv(i), NEW s \in DOMAIN i.queue
  PROVE  Good(Effect(i), Resend(i, s))
<1>. DEFINE g == i.queue[s].header
            h == [g EXCEPT !.sn = i.csn]
            item == [header |-> h, sns |-> i.queue[s].sns \cup {h.sn}]
            q == [i.queue EXCEPT ![s] = item]
            j == Advance(i, i.csn + 1, q)
<1>1. IsEffect(Effect(i)) /\ Effect(i).i = i
  BY DEF Effect, IsEffect, SplitInv
<1>2. HeaderOK(h)
  <2>1. HeaderOK(g)
    BY DEF SplitInv, QueueOK
  <2>. HIDE DEF g
  <2>2. DOMAIN h = DOMAIN g /\ \A x \in DOMAIN g : x # "sn" => h[x] = g[x]
    OBVIOUS
  <2>. HIDE DEF h
  <2>3. h.cid = g.cid /\ h.type = g.type /\ ("split" \in DOMAIN g => h.split = g.split)
    BY <2>1, <2>2 DEF HeaderOK
  <2>. QED  BY <2>1, <2>2, <2>3 DEF HeaderOK
<1>3. Resend(i, s) = [i |-> j, out |-> Copies(i, h)]
  BY Zenon DEF Resend
<1>. HIDE DEF h
<1>4. item.header = h
  OBVIOUS
<1>. HIDE DEF item
<1>5. QueueOK(q)
  BY <1>2, <1>4 DEF QueueOK, SplitInv
<1>. HIDE DEF q
<1>6. SplitInv(j) /\ j.ls = i.ls
  BY <1>5, AdvanceSplits
<1>. HIDE DEF j
<1>7. Resend(i, s).i = j /\ IsEffect(Resend(i, s))
  BY <1>3, <1>6 DEF IsEffect, SplitInv
<1>. QED  BY <1>1, <1>6, <1>7, Stays DEF Good

-----------------------------------------------------------------------------

\* The inductive invariant
SplitsInv == DOMAIN iface = Peers /\ \A n \in Peers : SplitInv(iface[n])

\* What a step does to the links and the splits
Steps == \A n \in Peers : Leads(iface[n], iface'[n])

\* An interface takes an effect of a method.
LEMMA SteppingSplits ==
  ASSUME SplitsInv, NEW n \in Peers, NEW e, Good(Effect(iface[n]), e),
         iface' = [iface EXCEPT ![n] = e.i]
  PROVE  SplitsInv' /\ Steps
<1>1. Effect(iface[n]).i = iface[n]
  BY DEF Effect
<1>2. Leads(iface[n], e.i)
  BY <1>1 DEF Good
<1>3. ASSUME NEW p \in Peers
      PROVE  Leads(iface[p], iface'[p])
  <2>1. CASE p = n
    BY <1>2, <2>1 DEF SplitsInv
  <2>2. CASE p # n
    <3>1. iface'[p] = iface[p] /\ SplitInv(iface[p])
      BY <2>2 DEF SplitsInv
    <3>. QED  BY <3>1, Stays
  <2>. QED  BY <2>1, <2>2
<1>4. ASSUME NEW p \in Peers
      PROVE  SplitInv(iface[p])'
  BY <1>3 DEF Leads, SplitInv
<1>5. DOMAIN iface' = Peers
  BY DEF SplitsInv
<1>. QED  BY <1>3, <1>4, <1>5 DEF SplitsInv, Steps

\* An interface does what a method says.
LEMMA DoingSplits ==
  ASSUME SplitsInv, NEW n \in Peers, NEW e, Good(Effect(iface[n]), e), Does(n, e)
  PROVE  SplitsInv' /\ Steps
BY SteppingSplits DEF Does

\* Methods start from the interface as it is.
LEMMA PeerSplits ==
  ASSUME SplitsInv, NEW n \in Peers
  PROVE  SplitInv(iface[n]) /\ IsEffect(Effect(iface[n])) /\ Effect(iface[n]).i = iface[n]
BY DEF SplitsInv, SplitInv, IsEffect, Effect

\* From an interface that has changed already, but not in its links
LEMMA FromSplits ==
  ASSUME NEW i, NEW j, SplitInv(j), j.ls = i.ls
  PROVE  /\ IsEffect(Effect(j)) /\ Effect(j).i = j
         /\ Good(Effect(i), Effect(j))
         /\ \A e : Good(Effect(j), e) => Good(Effect(i), e)
         /\ \A split : Burst(split) > 0 => Good(Effect(i), SendTsu(Effect(j), split))
<1>1. Effect(i).i = i /\ Effect(j).i = j /\ IsEffect(Effect(j))
  BY DEF Effect, IsEffect, SplitInv
<1>2. Good(Effect(i), Effect(j))
  BY <1>1, Stays DEF Good
<1>3. \A e : Good(Effect(j), e) => Good(Effect(i), e)
  BY <1>1, LeadsThrough DEF Good
<1>4. ASSUME NEW split, Burst(split) > 0
      PROVE  Good(Effect(i), SendTsu(Effect(j), split))
  <2>. DEFINE f == SendTsu(Effect(j), split)
  <2>1. IsEffect(f) /\ SplitInv(f.i) /\ f.i.ls = j.ls
    BY <1>1, <1>4, TsuSplits
  <2>. HIDE DEF f
  <2>. QED  BY <1>1, <2>1, Stays DEF Good, f
<1>. QED  BY <1>1, <1>2, <1>3, <1>4

\* The periodic probes (PeriodicProbeMsg)
LEMMA ProbeStepSplits ==
  ASSUME SplitsInv, NEW n \in Peers, PeriodicProbeMsg(n)
  PROVE  SplitsInv' /\ Steps
<1>. DEFINE i == iface[n]
            headers == Probes(i)
            f == SendCtrlMsgs(Effect(i), headers)
<1>1. Does(n, f)
  BY DEF PeriodicProbeMsg, Begins
<1>2. IsEffect(Effect(i)) /\ Effect(i).i = i /\ SplitInv(i)
  BY PeerSplits
<1>3. HeadersOK(headers)
  <2>. SUFFICES ASSUME NEW h \in headers PROVE HeaderOK(h)
    BY DEF HeadersOK
  <2>1. PICK c \in Cids, sn \in {iface[n].csn + Cardinality({d \in Cids : d < x}) : x \in Cids} :
          h = [type |-> "probe", sn |-> sn, cid |-> c]
    BY DEF Probes
  <2>. QED  BY <2>1 DEF HeaderOK
<1>. HIDE DEF headers
<1>4. IsEffect(f) /\ SplitInv(f.i) /\ f.i.ls = i.ls
  BY <1>2, <1>3, SendingSplits
<1>. HIDE DEF f
<1>5. Good(Effect(i), f)
  BY <1>2, <1>4, Stays DEF Good
<1>. QED  BY <1>1, <1>5, DoingSplits

\* The power of the Wi-Fi signal crosses a threshold.
LEMMA PowerStepSplits ==
  ASSUME SplitsInv, NEW n \in Peers, WifiPowerLow(n) \/ WifiPowerHigh(n)
  PROVE  SplitsInv' /\ Steps
<1>. DEFINE i == iface[n]
<1>1. SplitInv(i)
  BY PeerSplits
<1>2. CASE WifiPowerLow(n)
  <2>. DEFINE j == [i EXCEPT !.power = 0, !.marking = TRUE]
              f == TakeDown(Effect(j), "lowQuality", Wifi)
  <2>1. Does(n, f)
    BY <1>2 DEF WifiPowerLow, Begins
  <2>2. DOMAIN j = Fields /\ j.ls = i.ls /\ j.split = i.split /\ j.burst = i.burst /\ j.queue = i.queue
    BY <1>1 DEF Fields, SplitInv
  <2>. HIDE DEF j
  <2>3. SplitInv(j)
    BY <1>1, <2>2 DEF SplitInv
  <2>4. Good(Effect(j), f)
    BY <2>2, <2>3, FromSplits, TakeDownSplits, CidsFinite DEF Reasons
  <2>. HIDE DEF f
  <2>5. Good(Effect(i), f)
    BY <2>2, <2>3, <2>4, FromSplits
  <2>. QED  BY <2>1, <2>5, DoingSplits
<1>3. CASE WifiPowerHigh(n)
  <2>. DEFINE ls == LinkUp(i.ls, "lowQuality", Wifi)
              j == [i EXCEPT !.power = 1, !.marking = TRUE, !.ls = ls]
  <2>1. Does(n, Effect(j))
    BY <1>3 DEF WifiPowerHigh, Begins
  <2>2. ls \in LinkStates /\ UpLinks(i.ls) \subseteq UpLinks(ls) /\ Follow(i.ls, ls)
    BY <1>1, LinkUpIs DEF SplitInv, Reasons
  <2>. HIDE DEF ls
  <2>3. DOMAIN j = Fields /\ j.ls = ls /\ j.split = i.split /\ j.burst = i.burst /\ j.queue = i.queue
    BY <1>1 DEF Fields, SplitInv
  <2>. HIDE DEF j
  <2>4. SplitInv(j)
    BY <1>1, <2>2, <2>3 DEF SplitInv
  <2>5. Leads(i, j)
    BY <2>2, <2>3, <2>4 DEF Leads, Sheds
  <2>6. Good(Effect(i), Effect(j))
    BY <2>4, <2>5 DEF Good, Effect, IsEffect, SplitInv
  <2>. QED  BY <2>1, <2>6, DoingSplits
<1>. QED  BY <1>2, <1>3

\* A measurement cycle ends with a decision.
LEMMA MeasureStepSplits ==
  ASSUME SplitsInv, NEW n \in Peers, MeasureCycleEnd(n)
  PROVE  SplitsInv' /\ Steps
<1>. DEFINE i     == iface[n]
            start == Started(i.ls, i.split, i.burst)
<1>1. SplitInv(i)
  BY PeerSplits
<1>2. PICK k \in MeasuredSplits(i.ls, start) :
        LET j == [i EXCEPT !.split = k] IN
        Begins(n, IF k = start THEN Effect(j)
                               ELSE SendTsu(Effect([j EXCEPT !.measuring = FALSE]), k))
  BY Zenon DEF MeasureCycleEnd
<1>3. Adds(start, i.burst)
  BY <1>1, StartedAddsUp DEF SplitInv
<1>. HIDE DEF start
<1>4. Adds(k, i.burst) /\ Burst(k) > 0
  BY <1>1, <1>3, MeasuredAddsUp DEF SplitInv, Adds
<1>. DEFINE j == [i EXCEPT !.split = k]
            h == [j EXCEPT !.measuring = FALSE]
<1>5. Does(n, IF k = start THEN Effect(j) ELSE SendTsu(Effect(h), k))
  BY <1>2 DEF Begins
<1>6. DOMAIN j = Fields /\ j.ls = i.ls /\ j.split = k /\ j.burst = i.burst /\ j.queue = i.queue
  BY <1>1 DEF Fields, SplitInv
<1>7. DOMAIN h = Fields /\ h.ls = i.ls /\ h.split = k /\ h.burst = i.burst /\ h.queue = i.queue
  BY <1>1 DEF Fields, SplitInv
<1>. HIDE DEF j, h
<1>8. SplitInv(j) /\ SplitInv(h)
  BY <1>1, <1>4, <1>6, <1>7 DEF SplitInv
<1>9. Good(Effect(i), Effect(j)) /\ Good(Effect(i), SendTsu(Effect(h), k))
  BY <1>4, <1>6, <1>7, <1>8, FromSplits
<1>. QED  BY <1>5, <1>9, DoingSplits

\* An action of the agent asks for a split.
LEMMA SplitActionStepSplits ==
  ASSUME SplitsInv, NEW n \in Peers, ReceiveDlSplitWeightAction(n)
  PROVE  SplitsInv' /\ Steps
<1>. DEFINE i == iface[n]
<1>1. SplitInv(i)
  BY PeerSplits
<1>2. PICK k \in RlSplits :
        Begins(n, IF k = i.split THEN Effect(AskedFor(i, k)) ELSE SendTsu(Effect(AskedFor(i, k)), k))
  BY DEF ReceiveDlSplitWeightAction
<1>3. Adds(k, 128) /\ Burst(k) = 128
  BY AskedAddsUp DEF Adds
<1>. DEFINE j == AskedFor(i, k)
<1>4. Does(n, IF k = i.split THEN Effect(j) ELSE SendTsu(Effect(j), k))
  BY <1>2 DEF Begins
<1>5. /\ DOMAIN j = Fields /\ j.ls = i.ls /\ j.burst = Burst(k) /\ j.queue = i.queue
      /\ j.split \in {NoSplit, k}
  BY <1>1 DEF AskedFor, Fields, SplitInv
<1>. HIDE DEF j
<1>6. SplitInv(j)
  BY <1>1, <1>3, <1>5 DEF SplitInv
<1>7. Good(Effect(i), Effect(j)) /\ Good(Effect(i), SendTsu(Effect(j), k))
  BY <1>3, <1>5, <1>6, FromSplits
<1>. QED  BY <1>4, <1>7, DoingSplits

\* A control message arrives.
LEMMA RecvStepSplits ==
  ASSUME SplitsInv, NEW n \in Peers, RecvCtrlMsg(n)
  PROVE  SplitsInv' /\ Steps
<1>. DEFINE e    == Effect(iface[n])
            f(m) == CASE m.type = "probe" -> RecvProbe(e, m)
                      [] m.type = "tsu"   -> RecvTsu(n, e, m)
                      [] OTHER            -> RecvAck(n, e, m)
<1>1. PICK m \in net[n] : NoWrap(n, f(m)) /\ iface' = [iface EXCEPT ![n] = f(m).i]
  BY DEF RecvCtrlMsg
<1>2. IsEffect(e) /\ SplitInv(e.i)
  BY PeerSplits
<1>. HIDE DEF e
<1>3. Good(e, RecvProbe(e, m)) /\ Good(e, RecvTsu(n, e, m)) /\ Good(e, RecvAck(n, e, m))
  BY <1>2, RecvProbeSplits, RecvTsuSplits, RecvAckSplits
<1>4. f(m) \in {RecvProbe(e, m), RecvTsu(n, e, m), RecvAck(n, e, m)}
  OBVIOUS
<1>. HIDE DEF f
<1>5. Good(e, f(m))
  BY <1>3, <1>4
<1>. QED  BY <1>1, <1>5, SteppingSplits DEF e

\* A retransmission timer expires.
LEMMA RetxStepSplits ==
  ASSUME SplitsInv, NEW n \in Peers, RetxCtrlMsgExpires(n)
  PROVE  SplitsInv' /\ Steps
<1>. DEFINE i == iface[n]
<1>1. PICK s \in DOMAIN i.queue : Does(n, GiveUp(i, s)) \/ Does(n, Resend(i, s))
  BY DEF RetxCtrlMsgExpires
<1>2. SplitInv(i)
  BY PeerSplits
<1>3. Good(Effect(i), GiveUp(i, s)) /\ Good(Effect(i), Resend(i, s))
  BY <1>2, GiveUpSplits, ResendSplits
<1>. QED  BY <1>1, <1>3, DoingSplits

\* The interfaces begin with LTE up only, and no split.
LEMMA InitSplits == Init => SplitsInv
<1>. SUFFICES ASSUME Init, NEW n \in Peers PROVE SplitInv(iface[n])
  BY DEF Init, SplitsInv
<1>1. iface[n] = InitInterface(n)
  BY DEF Init
<1>2. DOMAIN iface[n] = Fields /\ iface[n].ls = AddedLinks /\ iface[n].burst = SplittingBurst
      /\ iface[n].split = NoSplit /\ iface[n].queue = EmptyDict
  BY <1>1 DEF InitInterface, Fields
<1>3. AddedLinks \in LinkStates
  BY CidsFinite DEF AddedLinks, LinkStates
<1>4. SplittingBurst \in Nat \ {0}
  BY GmaAssumption
<1>5. QueueOK(EmptyDict)
  BY DEF QueueOK, EmptyDict
<1>. QED  BY <1>2, <1>3, <1>4, <1>5 DEF SplitInv

\* Every step keeps the invariant, and leads from each interface to the next.
LEMMA NextSplits ==
  ASSUME SplitsInv, [Next]_vars
  PROVE  SplitsInv' /\ Steps
<1>1. CASE UNCHANGED vars
  <2>1. \A n \in Peers : iface'[n] = iface[n] /\ SplitInv(iface[n])
    BY <1>1 DEF vars, SplitsInv
  <2>2. Steps
    BY <2>1, Stays DEF Steps
  <2>. QED  BY <1>1, <2>2 DEF vars, SplitsInv, SplitInv
<1>2. ASSUME NEW n \in Peers,
             \/ PeriodicProbeMsg(n)
             \/ WifiPowerLow(n) \/ WifiPowerHigh(n)
             \/ MeasureCycleEnd(n)
             \/ ReceiveDlSplitWeightAction(n)
             \/ RecvCtrlMsg(n)
             \/ RetxCtrlMsgExpires(n)
      PROVE  SplitsInv' /\ Steps
  BY <1>2, ProbeStepSplits, PowerStepSplits, MeasureStepSplits, SplitActionStepSplits,
     RecvStepSplits, RetxStepSplits
<1>. QED  BY <1>1, <1>2 DEF Next

\* In every reachable state the splits add up, and the links and the messages
\* that wait are of the types the methods expect.
THEOREM SplitsHold == Spec => []SplitsInv
<1>1. SplitsInv /\ [Next]_vars => SplitsInv'
  BY NextSplits
<1>. QED  BY <1>1, InitSplits, PTL DEF Spec

\* The split of every interface adds up to its burst, as gma-rx-control.cc
\* asserts, and no TSU is sent whose split gives nothing to any link
\* (SendCtrlMsg, gma-virtual-interface.cc): for any number of links, any
\* burst, and any order of decisions, actions, failures and losses.
THEOREM SplitsAddUp == Spec => []SplitAddsUp
<1>1. SplitsInv => SplitAddsUp
  BY DEF SplitsInv, SplitInv, SplitAddsUp, Adds, QueueOK, HeaderOK
<1>. QED  BY <1>1, SplitsHold, PTL

\* A link that goes down, by a given up request, a low Wi-Fi signal or the map
\* of the peer, loses its share of the split in the same step if another link
\* is up (LinkDownTsu, gma-rx-control.cc).
THEOREM FailedLinksShed == Spec => FailedLinkShedsShare
<1>1. SplitsInv /\ [Next]_vars =>
        [\A n \in Peers, c \in Cids :
           LET before == iface[n]   after == iface'[n] IN
           IsLinkUp(before.ls, c) /\ ~IsLinkUp(after.ls, c) /\ UpLinks(after.ls) # {}
             => after.split = NoSplit \/ after.split[c] = 0]_vars
  <2>. SUFFICES ASSUME SplitsInv, [Next]_vars, NEW n \in Peers, NEW c \in Cids,
                       IsLinkUp(iface[n].ls, c), ~IsLinkUp(iface'[n].ls, c), UpLinks(iface'[n].ls) # {}
                PROVE  iface'[n].split = NoSplit \/ iface'[n].split[c] = 0
    OBVIOUS
  <2>1. c \in UpLinks(iface[n].ls) \ UpLinks(iface'[n].ls)
    BY DEF UpLinks
  <2>. QED  BY <2>1, NextSplits DEF Steps, Leads, Sheds
<1>. QED  BY <1>1, SplitsHold, PTL DEF Spec, FailedLinkShedsShare

\* After any change of the set of links that are up, the default links are up
\* (UpdateDefaultLink, link-state.cc), unless no link is.
THEOREM DefaultsAreUp == Spec => DefaultsFollowLinks
<1>1. SplitsInv /\ [Next]_vars =>
        [\A n \in Peers :
           LET before == UpLinks(iface[n].ls)   after == UpLinks(iface'[n].ls) IN
           after \notin {before, {}} => {iface'[n].ls.high, iface'[n].ls.low} \subseteq after]_vars
  BY NextSplits DEF Steps, Leads, Follow
<1>. QED  BY <1>1, SplitsHold, PTL DEF Spec, DefaultsFollowLinks

=============================================================================
