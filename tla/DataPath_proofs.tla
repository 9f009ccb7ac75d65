-------------------------- MODULE DataPath_proofs ---------------------------
(***************************************************************************)
(* Four properties of the data path for any links, bursts, splits,        *)
(* decisions, bounds, and any order of losses, lateness and link changes:  *)
(* packets are only sent over links that are up, the losses that the       *)
(* receiver reports for a link are those of the link, a split flow is      *)
(* forwarded in order while its reordering is on, and each link carries    *)
(* the share of the packets that the receiver has asked for.               *)
(*                                                                         *)
(* The first is a matter of the transmitter alone.  For the second the     *)
(* packets under way over a link are a chain of numbers, which ends with   *)
(* the next number of the transmitter and begins after those received and  *)
(* those lost.                                                             *)
(*                                                                         *)
(* For the third the invariant remembers which link each number went over. *)
(* Every link keeps its order, so that the packets under way over it have  *)
(* larger numbers than those that have come, and what is held has numbers  *)
(* that are still expected.  A packet is forwarded when it is expected, or *)
(* has the smallest number of the first ones of all queues; in both cases  *)
(* it comes after all that were forwarded.  A call is a chain of turns of  *)
(* which each keeps this.  The hard case is a packet that is forwarded     *)
(* ahead of smaller numbers because its link says that these were lost:    *)
(* the numbers of the link and of the flow have then grown alike since the *)
(* last packet of that link, and the first never grow faster than the      *)
(* second, although they wrap after 256, only if all went over this link.  *)
(*                                                                         *)
(* For the fourth the bit reversal that spreads a split over its burst is  *)
(* shown to be its own inverse on the indices of each burst, and to map    *)
(* the first half of them to the even ones. The list then has as many      *)
(* entries of a link as its share, and the invariant counts the packets    *)
(* sent in whole bursts and what the list says of the one begun.           *)
(***************************************************************************)
EXTENDS DataPath, TrafficSplit_proofs, SequenceTheorems

\* The fields of a transmitter, of a receiver, and of a splitting list
TxFields == {"t", "draining", "sn", "ls", "lsn", "told", "tally", "steady", "moved"}

RxFields == {"r", "up", "since", "start", "lost", "lsn", "gsn"}

TFields == {"vec", "dup", "burst", "index"}

\* The default link is up, if any link is.
LowIsUp(s) == UpLinks(s) # {} => s.low \in UpLinks(s)

\* The inductive invariant for the transmitter: its numbers are in their
\* spaces, and once the default links have been computed the low priority one
\* is up.
TxInv(x) ==
  /\ DOMAIN x = TxFields
  /\ DOMAIN x.t = TFields /\ x.t.burst \in Nat
  /\ x.sn \in Nat
  /\ x.ls \in LinkStates
  /\ x.moved => LowIsUp(x.ls)
  /\ DOMAIN x.lsn = Cids /\ \A c \in Cids : x.lsn[c] \in 0 .. LsnSpace - 1

\* Asking for the link of the next packet leaves a splitting list of the same
\* burst.
LEMMA PeekIs ==
  ASSUME NEW t, NEW s, DOMAIN t = TFields
  PROVE  LET g == GetDeliveryLinkCid(t, s) IN DOMAIN g.t = TFields /\ g.t.burst = t.burst
<1>1. \A n : DOMAIN Skip(t, n) = TFields /\ Skip(t, n).burst = t.burst
  BY DEF Skip, TFields
<1>2. GetDeliveryLinkCid(t, s).t \in {t, Skip(t, 1)}
  BY DEF GetDeliveryLinkCid
<1>. QED  BY <1>1, <1>2

\* It gives a link that is up, if the default is up.
LEMMA PeekIsUp ==
  ASSUME NEW t, NEW s, LowIsUp(s), UpLinks(s) # {}
  PROVE  IsLinkUp(s, GetDeliveryLinkCid(t, s).cid)
<1>1. IsLinkUp(s, s.low)
  BY DEF LowIsUp, UpLinks
<1>2. GetDeliveryLinkCid(t, s).cid = IF t.vec = <<>> THEN s.low
                                     ELSE IF IsLinkUp(s, CidAt(t, 0)) THEN CidAt(t, 0) ELSE s.low
  BY DEF GetDeliveryLinkCid
<1>. QED  BY <1>1, <1>2

\* Some numbers below n have a smallest one.
LEMMA SmallestOf ==
  ASSUME NEW n \in Nat, NEW S \in SUBSET (0 .. n - 1), S # {}
  PROVE  Min(S) \in S
<1>1. IsFiniteSet(S) /\ S \in SUBSET Int
  <2>1. PICK m \in Int : m = n - 1
    OBVIOUS
  <2>2. IsFiniteSet(0 .. m)
    BY FS_Interval
  <2>3. S \in SUBSET (0 .. m) /\ S \in SUBSET Int
    BY <2>1
  <2>. QED  BY <2>2, <2>3, FS_Subset
<1>2. \E x \in S : \A y \in S : x <= y
  BY <1>1, SmallestElement
<1>. QED  BY <1>2 DEF Min

\* The choice of a link leaves a splitting list of the same burst.
LEMMA ChoiceIs ==
  ASSUME NEW t, NEW s, NEW draining, DOMAIN t = TFields
  PROVE  LET g == ChooseCid(t, s, draining) IN DOMAIN g.t = TFields /\ g.t.burst = t.burst
<1>1. \A n : DOMAIN Skip(t, n) = TFields /\ Skip(t, n).burst = t.burst
  BY DEF Skip, TFields
<1>2. LET g == ChooseCid(t, s, draining)
      IN  g.t = t \/ (\E n : g.t = Skip(t, n)) \/ g.t = GetDeliveryLinkCid(t, s).t
  BY DEF ChooseCid
<1>. QED  BY <1>1, <1>2, PeekIs

\* A link is chosen that is up, whatever drains: the next in the list that is
\* up and does not drain, or else the default.
LEMMA ChoiceIsUp ==
  ASSUME NEW t, NEW s, NEW draining, t.burst \in Nat, LowIsUp(s), UpLinks(s) # {}
  PROVE  IsLinkUp(s, ChooseCid(t, s, draining).cid)
<1>. DEFINE good == UpLinks(s) \ StillDraining(s, draining)
            next == {n \in 0 .. t.burst - 1 : CidAt(t, n) \in good}
<1>1. /\ t.burst <= 1 => ChooseCid(t, s, draining) = GetDeliveryLinkCid(t, s)
      /\ ~(t.burst <= 1) /\ next # {} => ChooseCid(t, s, draining).cid = CidAt(t, Min(next))
      /\ ~(t.burst <= 1) /\ next = {} => ChooseCid(t, s, draining) = GetDeliveryLinkCid(t, s)
  BY DEF ChooseCid
<1>2. next # {} => Min(next) \in next
  <2>1. next \in SUBSET (0 .. t.burst - 1)
    OBVIOUS
  <2>. HIDE DEF next
  <2>. QED  BY <2>1, SmallestOf
<1>3. next # {} => IsLinkUp(s, CidAt(t, Min(next)))
  BY <1>2 DEF UpLinks
<1>. HIDE DEF next
<1>. QED  BY <1>1, <1>3, PeekIsUp

\* The default is up after a link that was up has gone down.
LEMMA DownKeepsLow ==
  ASSUME NEW s \in LinkStates, NEW why \in Reasons, NEW c \in Cids, IsLinkUp(s, c)
  PROVE  LET t == LinkDown(s, why, c) IN t \in LinkStates /\ LowIsUp(t)
<1>1. c \in UpLinks(s)
  BY DEF UpLinks
<1>. QED  BY <1>1, LinkDownIs DEF Follow, LowIsUp

\* It stays up when a link comes up, and is up if the set of links has
\* changed.
LEMMA UpKeepsLow ==
  ASSUME NEW s \in LinkStates, NEW why \in Reasons, NEW c
  PROVE  LET t == LinkUp(s, why, c)
         IN  t \in LinkStates /\ (LowIsUp(s) \/ UpLinks(t) # UpLinks(s) => LowIsUp(t))
<1>. DEFINE t == LinkUp(s, why, c)
            u == [s EXCEPT ![why] = s[why] \ {c}]
<1>1. u \in LinkStates /\ u.low = s.low
  BY DEF LinkStates, Reasons
<1>2. t = u \/ t = UpdateDefaultLink(u)
  BY DEF LinkUp
<1>. HIDE DEF u
<1>3. t \in LinkStates /\ UpLinks(s) \subseteq UpLinks(t) /\ Follow(s, t)
  BY LinkUpIs
<1>. HIDE DEF t
<1>4. ASSUME LowIsUp(s) \/ UpLinks(t) # UpLinks(s)
      PROVE  LowIsUp(t)
  <2>1. CASE t = u
    BY <1>1, <1>3, <1>4, <2>1 DEF LowIsUp, Follow
  <2>2. CASE t = UpdateDefaultLink(u)
    <3>1. UpLinks(t) = UpLinks(u) /\ (UpLinks(u) # {} => t.low \in UpLinks(u))
      BY <1>1, <2>2, UpdatedDefaults
    <3>. QED  BY <3>1 DEF LowIsUp
  <2>. QED  BY <1>2, <2>1, <2>2
<1>. QED  BY <1>3, <1>4 DEF t

-----------------------------------------------------------------------------

\* Only LTE is up at first.
LEMMA AddedAre == AddedLinks \in LinkStates /\ UpLinks(AddedLinks) = {Lte}
BY CidsFinite DEF AddedLinks, LinkStates, UpLinks, IsLinkUp

\* The first ACK of a probe over Wi-Fi brings it up and the defaults with it.
LEMMA InitTxInv == Init => TxInv(tx)
<1>. SUFFICES ASSUME Init PROVE TxInv(tx)
  OBVIOUS
<1>1. PICK probed \in BOOLEAN :
        tx = [t |-> InitTx, draining |-> {}, sn |-> FirstSn,
              ls |-> IF probed THEN LinkUp(AddedLinks, "ctrFailed", Wifi) ELSE AddedLinks,
              lsn |-> [c \in Cids |-> FirstLsn], told |-> NoSplit,
              tally |-> [c \in Cids |-> 0], steady |-> TRUE, moved |-> probed]
  BY DEF Init
<1>2. DOMAIN tx = TxFields /\ tx.t = InitTx /\ tx.sn = FirstSn /\ tx.moved = probed
      /\ tx.lsn = [c \in Cids |-> FirstLsn]
      /\ tx.ls = IF probed THEN LinkUp(AddedLinks, "ctrFailed", Wifi) ELSE AddedLinks
  BY <1>1 DEF TxFields
<1>3. DOMAIN InitTx = TFields /\ InitTx.burst = 0
  BY DEF InitTx, TFields
<1>4. LET t == LinkUp(AddedLinks, "ctrFailed", Wifi) IN t \in LinkStates /\ LowIsUp(t)
  <2>. DEFINE t == LinkUp(AddedLinks, "ctrFailed", Wifi)
              u == [AddedLinks EXCEPT !["ctrFailed"] = AddedLinks["ctrFailed"] \ {Wifi}]
  <2>1. Wifi # Lte
    BY DEF Wifi, Lte
  <2>2. t = UpdateDefaultLink(u) /\ u \in LinkStates
    <3>1. Wifi \in AddedLinks["ctrFailed"]
      BY <2>1, CidsFinite DEF AddedLinks
    <3>2. u.ctrFailed = (Cids \ {Lte}) \ {Wifi} /\ u.lowQuality = {} /\ u.bitmapFailed = {}
      BY DEF AddedLinks
    <3>3. IsLinkUp(u, Wifi)
      BY <3>2 DEF IsLinkUp
    <3>4. u \in LinkStates
      BY AddedAre DEF LinkStates
    <3>. QED  BY <3>1, <3>3, <3>4 DEF LinkUp
  <2>. HIDE DEF u
  <2>. QED  BY <2>2, UpdatedDefaults DEF LowIsUp
<1>5. FirstSn \in Nat /\ FirstLsn \in 0 .. LsnSpace - 1
  BY DataPathAssumption DEF LsnSpace
<1>. HIDE DEF TxInv
<1>. QED  BY <1>2, <1>3, <1>4, <1>5, AddedAre DEF TxInv

\* What Transmit makes of the transmitter in duplicate mode
LEMMA DuplicatedTx ==
  ASSUME TxInv(tx)
  PROVE  LET x == Duplicated
         IN  TxInv(x) /\ x.lsn = NextLsn(tx, UpLinks(tx.ls))
BY DEF TxInv, TxFields, Duplicated, NextLsn, Succ, SnSpace, LsnSpace

\* What it makes of it in the other modes
LEMMA TransmitOnceTx ==
  ASSUME TxInv(tx), TransmitOnce
  PROVE  TxInv(tx') /\ tx'.lsn = NextLsn(tx, {Choice.cid})
<1>. DEFINE t == Choice.t
            n == NextLsn(tx, {Choice.cid})
<1>1. DOMAIN t = TFields /\ t.burst = tx.t.burst
  BY ChoiceIs DEF TxInv, Choice
<1>2. /\ DOMAIN tx' = TxFields /\ tx'.t = t /\ tx'.sn = Succ(tx.sn) /\ tx'.ls = tx.ls
      /\ tx'.moved = tx.moved /\ tx'.lsn = n
  BY DEF TxInv, TxFields, TransmitOnce
<1>3. Succ(tx.sn) \in Nat
  BY DEF TxInv, Succ, SnSpace
<1>4. DOMAIN n = Cids /\ \A c \in Cids : n[c] \in 0 .. LsnSpace - 1
  BY DEF TxInv, NextLsn, LsnSpace
<1>. HIDE DEF t, n
<1>5. TxInv(tx')
  BY <1>1, <1>2, <1>3, <1>4 DEF TxInv
<1>. QED  BY <1>2, <1>5 DEF n

\* A TSU changes no number.
LEMMA ObeyTsuTx ==
  ASSUME TxInv(tx), ObeyTsu
  PROVE  TxInv(tx') /\ tx'.lsn = tx.lsn /\ tx'.sn = tx.sn
<1>. DEFINE t == RcvCtrlMsg(tx.t, tsu, BurstSize)
<1>1. PICK D : tx' = [tx EXCEPT !.t = t, !.draining = D, !.told = tsu,
                               !.tally = [c \in Cids |-> 0],
                               !.steady = D = {} /\ {c \in Cids : tsu[c] > 0} \subseteq UpLinks(tx.ls)]
  BY Zenon DEF ObeyTsu
<1>2. BurstSize \in Nat
  BY DataPathAssumption DEF BurstSize
<1>3. DOMAIN t = TFields /\ t.burst = BurstSize
  <2>. DEFINE u == IF BurstSize = 1 THEN Steer(tx.t, InOrderCids(tsu))
                   ELSE [tx.t EXCEPT !.vec = Spread(InOrderCids(tsu))]
  <2>1. DOMAIN u = TFields
    BY DEF TxInv, TFields, Steer
  <2>2. t = [u EXCEPT !.burst = BurstSize, !.index = 0]
    BY DEF RcvCtrlMsg
  <2>. HIDE DEF u, t
  <2>. QED  BY <2>1, <2>2 DEF TFields
<1>. HIDE DEF t
<1>4. /\ DOMAIN tx' = TxFields /\ tx'.t = t /\ tx'.sn = tx.sn /\ tx'.ls = tx.ls
      /\ tx'.moved = tx.moved /\ tx'.lsn = tx.lsn
  BY <1>1 DEF TxInv, TxFields
<1>. QED  BY <1>2, <1>3, <1>4 DEF TxInv

\* Nor does the end of draining.
LEMMA DrainEndsTx ==
  ASSUME TxInv(tx), NEW c \in Cids, DrainEnds(c)
  PROVE  TxInv(tx') /\ tx'.lsn = tx.lsn /\ tx'.sn = tx.sn
BY DEF TxInv, TxFields, DrainEnds

\* A handler of the control plane peeks and changes the links, not the
\* numbers.
LEMMA WithLinksTx ==
  ASSUME TxInv(tx), NEW s \in LinkStates,
         tx.moved \/ UpLinks(s) # UpLinks(tx.ls) => LowIsUp(s)
  PROVE  LET x == WithLinks(Peeked, s)
         IN  TxInv(x) /\ x.lsn = tx.lsn /\ x.sn = tx.sn
<1>. DEFINE p == Peeked
            x == WithLinks(p, s)
            t == GetDeliveryLinkCid(tx.t, tx.ls).t
<1>1. DOMAIN t = TFields /\ t.burst = tx.t.burst
  BY PeekIs DEF TxInv
<1>2. p = [tx EXCEPT !.t = t, !.steady = FALSE]
  BY DEF Peeked
<1>. HIDE DEF t
<1>3. /\ DOMAIN p = TxFields /\ p.t = t /\ p.sn = tx.sn /\ p.ls = tx.ls /\ p.lsn = tx.lsn
      /\ p.moved = tx.moved
  BY <1>2 DEF TxInv, TxFields
<1>. HIDE DEF p
<1>4. /\ DOMAIN x = TxFields /\ x.t = t /\ x.sn = tx.sn /\ x.ls = s /\ x.lsn = tx.lsn
      /\ x.moved <=> (tx.moved \/ UpLinks(tx.ls) # UpLinks(s))
  BY <1>3 DEF TxInv, TxFields, WithLinks
<1>. HIDE DEF x
<1>5. TxInv(x)
  BY <1>1, <1>4 DEF TxInv
<1>. QED  BY <1>4, <1>5 DEF x, p

\* The handlers that do
LEMMA TxEventTx ==
  ASSUME TxInv(tx), NEW c \in Cids, TxLinkDown(c) \/ TxLinkUp(c)
  PROVE  TxInv(tx') /\ tx'.lsn = tx.lsn /\ tx'.sn = tx.sn
<1>0. tx.ls \in LinkStates /\ "ctrFailed" \in Reasons
  BY DEF TxInv, Reasons
<1>1. CASE TxLinkDown(c)
  <2>. DEFINE s == LinkDown(tx.ls, "ctrFailed", c)
  <2>1. tx' = WithLinks(Peeked, s) /\ IsLinkUp(tx.ls, c)
    BY <1>1 DEF TxLinkDown
  <2>2. s \in LinkStates /\ LowIsUp(s)
    BY <1>0, <2>1, DownKeepsLow
  <2>. HIDE DEF s
  <2>. QED  BY <2>1, <2>2, WithLinksTx
<1>2. CASE TxLinkUp(c)
  <2>. DEFINE s == LinkUp(tx.ls, "ctrFailed", c)
  <2>1. tx' = WithLinks(Peeked, s)
    BY <1>2 DEF TxLinkUp
  <2>2. s \in LinkStates /\ (LowIsUp(tx.ls) \/ UpLinks(s) # UpLinks(tx.ls) => LowIsUp(s))
    BY <1>0, UpKeepsLow
  <2>. HIDE DEF s
  <2>3. tx.moved => LowIsUp(tx.ls)
    BY DEF TxInv
  <2>. QED  BY <2>1, <2>2, <2>3, WithLinksTx
<1>. QED  BY <1>1, <1>2

\* All steps but those of Transmit leave the numbers of the transmitter alone.
LEMMA OtherTx ==
  ASSUME TxInv(tx),
         \/ ObeyTsu \/ SendTsu
         \/ BecomesLate \/ ReorderingTimeout \/ StopReorderTimeout
         \/ \E c \in Cids : \/ DrainEnds(c) \/ TxLinkDown(c) \/ TxLinkUp(c)
                            \/ Receive(c) \/ Lose(c) \/ RxLinkChanges(c)
         \/ UNCHANGED vars
  PROVE  TxInv(tx') /\ tx'.lsn = tx.lsn /\ tx'.sn = tx.sn
<1>1. CASE tx' = tx
  BY <1>1
<1>2. CASE ObeyTsu
  BY <1>2, ObeyTsuTx
<1>3. ASSUME NEW c \in Cids, DrainEnds(c) \/ TxLinkDown(c) \/ TxLinkUp(c)
      PROVE  TxInv(tx') /\ tx'.lsn = tx.lsn /\ tx'.sn = tx.sn
  BY <1>3, DrainEndsTx, TxEventTx
<1>4. SendTsu \/ BecomesLate \/ ReorderingTimeout \/ StopReorderTimeout \/ UNCHANGED vars => tx' = tx
  BY DEF SendTsu, BecomesLate, ReorderingTimeout, StopReorderTimeout, vars
<1>5. \A c \in Cids : Receive(c) \/ Lose(c) \/ RxLinkChanges(c) => tx' = tx
  BY DEF Receive, Lose, RxLinkChanges
<1>. QED  BY <1>1, <1>2, <1>3, <1>4, <1>5

\* Every step keeps the invariant of the transmitter.
LEMMA NextTx ==
  ASSUME TxInv(tx), [Next]_vars
  PROVE  TxInv(tx')
<1>1. CASE Transmit
  BY <1>1, DuplicatedTx, TransmitOnceTx DEF Transmit, TransmitCopies
<1>2. CASE ~Transmit
  BY <1>2, OtherTx DEF Next
<1>. QED  BY <1>1, <1>2

\* The invariant of the transmitter holds in every reachable state.
LEMMA TxHolds == Spec => []TxInv(tx)
<1>1. TxInv(tx) /\ [Next]_vars => TxInv(tx)'
  BY NextTx DEF TxInv
<1>. QED  BY <1>1, InitTxInv, PTL DEF Spec

\* Transmit puts packets only on links that are up.
LEMMA TransmitsOnUpLink ==
  ASSUME TxInv(tx), Transmit, NEW c \in Cids, wire'[c] # wire[c], tx.moved, UpLinks(tx.ls) # {}
  PROVE  IsLinkUp(tx.ls, c)
<1>1. \A S, kind : Put(S, kind) => c \in S
  BY DEF Put
<1>2. CASE TransmitCopies
  BY <1>1, <1>2 DEF TransmitCopies, UpLinks
<1>3. CASE TransmitOnce
  <2>1. c = Choice.cid
    BY <1>1, <1>3 DEF TransmitOnce
  <2>2. tx.t.burst \in Nat /\ LowIsUp(tx.ls)
    BY DEF TxInv
  <2>. QED  BY <2>1, <2>2, ChoiceIsUp DEF Choice
<1>. QED  BY <1>2, <1>3 DEF Transmit

\* Once the default links have been computed, no packet goes over a link that
\* is down while another is up (Transmit, gma-virtual-interface.cc,
\* GetDeliveryLinkCid, gma-tx-control.cc): for any links, bursts, splits,
\* TSUs, draining and link failures.
THEOREM SentOnUpLinks == Spec => SendsOnUpLink
<1>1. TxInv(tx) /\ [Next]_vars =>
        [\A c \in Cids : tx'.sn # tx.sn /\ wire'[c] # wire[c] /\ tx.moved /\ UpLinks(tx.ls) # {}
           => IsLinkUp(tx.ls, c)]_vars
  <2>. SUFFICES ASSUME TxInv(tx), Next, NEW c \in Cids, tx'.sn # tx.sn, wire'[c] # wire[c],
                       tx.moved, UpLinks(tx.ls) # {}
                PROVE  IsLinkUp(tx.ls, c)
    OBVIOUS
  <2>1. Transmit
    BY OtherTx DEF Next
  <2>. QED  BY <2>1, TransmitsOnUpLink
<1>. QED  BY <1>1, TxHolds, PTL DEF Spec, SendsOnUpLink

-----------------------------------------------------------------------------

\* What goes over a link
Kinds == {"data", "copy", "end"}

\* The packets on link c
PacketsOf(c) == [kind : Kinds, cid : {c}, sn : Nat, lsn : 0 .. LsnSpace - 1]

\* The number that the packet after p has on its link
After(p) == (p.lsn + (IF p.kind = "end" THEN 0 ELSE 1)) % LsnSpace

\* The numbers of the packets w follow each other, the first one's is first
\* and the next one's last.
Chain(first, w, last) ==
  /\ w = <<>> => last = first
  /\ w # <<>> => w[1].lsn = first /\ last = After(w[Len(w)])
  /\ \A i \in 1 .. Len(w) - 1 : w[i + 1].lsn = After(w[i])

\* The fields of spent
SpentFields == {"packets", "tsus", "events", "losses", "faults"}

\* Packets lost on link c that the receiver has not reported yet
Untold(c) == spent.losses[c] - rx.lost[c]

\* The packets under way over link c follow the last one received after a gap
\* of just the packets lost in between.
WireInv(c) ==
  /\ wire[c] \in Seq(PacketsOf(c))
  /\ rx.lsn[c] \in 0 .. LsnSpace - 1
  /\ rx.lost[c] \in Nat /\ spent.losses[c] \in Nat /\ rx.lost[c] <= spent.losses[c]
  /\ Chain((rx.lsn[c] + 1 + Untold(c)) % LsnSpace, wire[c], tx.lsn[c])

\* The inductive invariant, with that of the transmitter
CountInv ==
  /\ DOMAIN rx = RxFields /\ DOMAIN rx.lost = Cids /\ DOMAIN rx.lsn = Cids
  /\ DOMAIN spent = SpentFields /\ DOMAIN spent.losses = Cids
  /\ SumFunctionOnSet(spent.losses, Cids) <= MaxLosses
  /\ DOMAIN wire = Cids
  /\ \A c \in Cids : WireInv(c)

\* A packet with the next number may follow.
LEMMA ChainAppend ==
  ASSUME NEW S, NEW w \in Seq(S), NEW p \in S, NEW first, NEW last,
         Chain(first, w, last), p.lsn = last
  PROVE  Chain(first, Append(w, p), After(p))
<1>. DEFINE v == Append(w, p)
<1>1. /\ v # <<>> /\ Len(v) = Len(w) + 1 /\ v[Len(v)] = p /\ Len(w) \in Nat
      /\ \A i \in 1 .. Len(w) : v[i] = w[i]
  OBVIOUS
<1>. HIDE DEF v
<1>2. v[1].lsn = first
  <2>1. CASE w = <<>>
    BY <1>1, <2>1 DEF Chain
  <2>2. CASE w # <<>>
    BY <1>1, <2>2 DEF Chain
  <2>. QED  BY <2>1, <2>2
<1>3. ASSUME NEW i \in 1 .. Len(v) - 1
      PROVE  v[i + 1].lsn = After(v[i])
  <2>1. CASE i < Len(w)
    <3>1. i \in 1 .. Len(w) - 1 /\ i + 1 \in 1 .. Len(w) /\ i \in 1 .. Len(w)
      BY <1>1, <1>3, <2>1
    <3>. QED  BY <1>1, <3>1 DEF Chain
  <2>2. CASE i = Len(w)
    <3>1. w # <<>> /\ i \in 1 .. Len(w)
      BY <1>3, <2>2
    <3>. QED  BY <1>1, <2>2, <3>1 DEF Chain
  <2>. QED  BY <1>1, <1>3, <2>1, <2>2
<1>4. v # <<>> => After(p) = After(v[Len(v)])
  BY <1>1
<1>. QED  BY <1>1, <1>2, <1>3, <1>4 DEF Chain, v

\* The first packet may be taken off.
LEMMA ChainTail ==
  ASSUME NEW S, NEW w \in Seq(S), w # <<>>, NEW first, NEW last, Chain(first, w, last)
  PROVE  Chain(After(Head(w)), Tail(w), last)
<1>. DEFINE v == Tail(w)
<1>1. /\ Len(w) \in Nat /\ Len(w) >= 1 /\ Head(w) = w[1] /\ v \in Seq(S)
      /\ Len(v) = Len(w) - 1 /\ \A i \in 1 .. Len(v) : v[i] = w[i + 1]
  OBVIOUS
<1>. HIDE DEF v
<1>2. v = <<>> <=> Len(v) = 0
  <2>1. v \in Seq(S)
    BY <1>1
  <2>. QED  BY <2>1
<1>3. ASSUME NEW i \in 1 .. Len(v) - 1
      PROVE  v[i + 1].lsn = After(v[i])
  <2>1. i + 1 \in 1 .. Len(w) - 1 /\ i + 1 \in 1 .. Len(v) /\ i \in 1 .. Len(v)
    BY <1>1
  <2>. QED  BY <1>1, <2>1 DEF Chain
<1>4. v = <<>> => last = After(Head(w))
  <2>1. last = After(w[Len(w)])
    BY DEF Chain
  <2>2. v = <<>> => Len(w) = 1
    BY <1>1, <1>2
  <2>. QED  BY <1>1, <2>1, <2>2
<1>5. v # <<>> => v[1].lsn = After(Head(w)) /\ last = After(v[Len(v)])
  <2>. SUFFICES ASSUME v # <<>> PROVE v[1].lsn = After(Head(w)) /\ last = After(v[Len(v)])
    OBVIOUS
  <2>1. 1 \in 1 .. Len(v) /\ Len(v) \in 1 .. Len(v) /\ 1 \in 1 .. Len(w) - 1
    BY <1>1, <1>2
  <2>2. v[1] = w[2] /\ v[Len(v)] = w[Len(w)]
    BY <1>1, <2>1
  <2>3. last = After(w[Len(w)]) /\ w[1 + 1].lsn = After(w[1])
    BY <2>1 DEF Chain
  <2>. QED  BY <1>1, <2>2, <2>3
<1>. QED  BY <1>3, <1>4, <1>5 DEF Chain, v

\* Numbers of a link, once around
LEMMA Mod256 ==
  ASSUME NEW a \in Nat, a < 512
  PROVE  a % LsnSpace = IF a < 256 THEN a ELSE a - 256
BY DEF LsnSpace

\* Counting on is the same before and after wrapping.
LEMMA SameMod ==
  ASSUME NEW a \in Nat
  PROVE  ((a % LsnSpace) + 1) % LsnSpace = (a + 1) % LsnSpace /\ a % LsnSpace \in 0 .. LsnSpace - 1
BY DEF LsnSpace

\* Only an end marker does not use its number up.
LEMMA AfterIs ==
  ASSUME NEW p, p.lsn \in 0 .. LsnSpace - 1
  PROVE  After(p) = IF p.kind = "end" THEN p.lsn ELSE (p.lsn + 1) % LsnSpace
<1>1. p.lsn \in Nat /\ p.lsn < 256 /\ p.lsn < 512
  BY DEF LsnSpace
<1>2. p.lsn % LsnSpace = p.lsn
  BY <1>1, Mod256
<1>3. CASE p.kind = "end"
  BY <1>1, <1>2, <1>3 DEF After
<1>4. CASE p.kind # "end"
  BY <1>4 DEF After
<1>. QED  BY <1>3, <1>4

\* The serial comparison finds a gap of up to 127 numbers, wherever they wrap.
LEMMA GapIs ==
  ASSUME NEW r \in 0 .. LsnSpace - 1, NEW k \in 0 .. 126
  PROVE  LsnDiff((r + 1 + k) % LsnSpace, r) = k + 1
<1>1. (r + 1 + k) % LsnSpace = IF r + 1 + k < 256 THEN r + 1 + k ELSE r + 1 + k - 256
  BY Mod256 DEF LsnSpace
<1>2. LsnSpace \div 2 = 128 /\ LsnSpace = 256
  BY DEF LsnSpace
<1>. QED  BY <1>1, <1>2 DEF LsnDiff, SerialDiff

-----------------------------------------------------------------------------

\* Fewer than 127 packets are lost in a row if fewer are lost at all.
LEMMA UntoldIs ==
  ASSUME CountInv, MaxLosses < 127, NEW c \in Cids
  PROVE  Untold(c) \in 0 .. 126
<1>1. \A d \in Cids : spent.losses[d] \in Nat
  BY DEF CountInv, WireInv
<1>2. spent.losses[c] <= SumFunctionOnSet(spent.losses, Cids)
  BY <1>1, CidsFinite, SumCovers
<1>3. SumFunctionOnSet(spent.losses, Cids) \in Nat /\ MaxLosses \in Nat
  BY <1>1, CidsFinite, SumType, DataPathAssumption
<1>4. SumFunctionOnSet(spent.losses, Cids) <= MaxLosses
  BY DEF CountInv
<1>5. rx.lost[c] \in Nat /\ rx.lost[c] <= spent.losses[c] /\ spent.losses[c] \in Nat
  BY DEF CountInv, WireInv
<1>. QED  BY <1>2, <1>3, <1>4, <1>5 DEF Untold

\* Then the gap that the next packet will show is the number of unreported
\* losses.
LEMMA CountSuffices == CountInv /\ MaxLosses < 127 => LossesAreCounted
<1>. SUFFICES ASSUME CountInv, MaxLosses < 127, NEW c \in Cids, wire[c] = <<>>
              PROVE  rx.lost[c] + (LsnDiff(tx.lsn[c], rx.lsn[c]) - 1) = spent.losses[c]
  BY DEF LossesAreCounted
<1>1. tx.lsn[c] = (rx.lsn[c] + 1 + Untold(c)) % LsnSpace /\ rx.lsn[c] \in 0 .. LsnSpace - 1
      /\ rx.lost[c] \in Nat /\ spent.losses[c] \in Nat
  BY DEF CountInv, WireInv, Chain
<1>2. LsnDiff(tx.lsn[c], rx.lsn[c]) = Untold(c) + 1
  BY <1>1, UntoldIs, GapIs
<1>3. Untold(c) \in 0 .. 126
  BY UntoldIs
<1>. QED  BY <1>1, <1>2, <1>3 DEF Untold

\* Nothing is lost or under way at first.
LEMMA InitCount == Init => CountInv
<1>. SUFFICES ASSUME Init PROVE CountInv
  OBVIOUS
<1>1. /\ tx.lsn = [c \in Cids |-> FirstLsn]
      /\ wire = [c \in Cids |-> <<>>]
      /\ spent = [packets |-> 0, tsus |-> 0, events |-> 0, losses |-> [c \in Cids |-> 0],
                  faults |-> {}]
  BY DEF Init
<1>2. /\ DOMAIN rx = RxFields /\ rx.lost = [c \in Cids |-> 0]
      /\ rx.lsn = [c \in Cids |-> (FirstLsn + LsnSpace - 1) % LsnSpace]
  BY DEF Init, RxFields
<1>3. DOMAIN spent = SpentFields /\ spent.losses = [c \in Cids |-> 0]
  BY <1>1 DEF SpentFields
<1>4. SumFunctionOnSet(spent.losses, Cids) = 0
  BY <1>3, CidsFinite, SumZero
<1>5. MaxLosses \in Nat /\ FirstLsn \in 0 .. 255
  BY DataPathAssumption DEF LsnSpace
<1>6. ASSUME NEW c \in Cids
      PROVE  WireInv(c)
  <2>. DEFINE r == (FirstLsn + LsnSpace - 1) % LsnSpace
  <2>1. r \in 0 .. LsnSpace - 1 /\ (r + 1 + 0) % LsnSpace = FirstLsn
    <3>1. r = IF FirstLsn = 0 THEN 255 ELSE FirstLsn - 1
      BY <1>5, Mod256 DEF LsnSpace
    <3>. HIDE DEF r
    <3>. QED  BY <1>5, <3>1, Mod256 DEF LsnSpace
  <2>2. rx.lsn[c] = r /\ rx.lost[c] = 0 /\ spent.losses[c] = 0 /\ wire[c] = <<>> /\ tx.lsn[c] = FirstLsn
    BY <1>1, <1>2, <1>3
  <2>. HIDE DEF r
  <2>3. Untold(c) = 0
    BY <2>2 DEF Untold
  <2>. QED  BY <2>1, <2>2, <2>3 DEF WireInv, Chain
<1>. QED  BY <1>1, <1>2, <1>3, <1>4, <1>5, <1>6 DEF CountInv

\* What the receiver and the bounds say of losses stays the same.
CountsSame ==
  /\ DOMAIN rx' = RxFields /\ rx'.lost = rx.lost /\ rx'.lsn = rx.lsn
  /\ DOMAIN spent' = SpentFields /\ spent'.losses = spent.losses

\* A step that neither sends nor receives keeps the invariant.
LEMMA NothingSent ==
  ASSUME CountInv, CountsSame, wire' = wire, tx'.lsn = tx.lsn
  PROVE  CountInv'
BY DEF CountInv, CountsSame, WireInv, Untold

\* A step that sends packets or end markers keeps it: a packet uses up the
\* number of its link, an end marker does not.
LEMMA Sent ==
  ASSUME CountInv, CountsSame, TxInv(tx), NEW S, NEW kind \in Kinds, Put(S, kind),
         tx'.lsn = IF kind = "end" THEN tx.lsn ELSE NextLsn(tx, S)
  PROVE  CountInv'
<1>1. ASSUME NEW c \in Cids
      PROVE  WireInv(c)'
  <2>. DEFINE first == (rx.lsn[c] + 1 + Untold(c)) % LsnSpace
              p == Packet(c, kind)
  <2>1. /\ wire[c] \in Seq(PacketsOf(c)) /\ Chain(first, wire[c], tx.lsn[c])
        /\ rx.lsn[c] \in 0 .. LsnSpace - 1
        /\ rx.lost[c] \in Nat /\ spent.losses[c] \in Nat /\ rx.lost[c] <= spent.losses[c]
    BY DEF CountInv, WireInv
  <2>2. /\ rx'.lsn[c] = rx.lsn[c] /\ rx'.lost[c] = rx.lost[c] /\ spent'.losses[c] = spent.losses[c]
        /\ Untold(c)' = Untold(c)
    BY DEF CountsSame, Untold
  <2>3. p \in PacketsOf(c) /\ p.lsn = tx.lsn[c] /\ p.kind = kind
    BY DEF TxInv, PacketsOf, Packet
  <2>4. wire'[c] = IF c \in S THEN Append(wire[c], p) ELSE wire[c]
    BY DEF Put
  <2>. HIDE DEF p
  <2>5. tx'.lsn[c] = IF c \in S THEN After(p) ELSE tx.lsn[c]
    <3>1. tx.lsn[c] \in 0 .. 255
      BY DEF TxInv, LsnSpace
    <3>2. After(p) = IF kind = "end" THEN tx.lsn[c] ELSE (tx.lsn[c] + 1) % LsnSpace
      BY <2>3, <3>1, Mod256 DEF After
    <3>. QED  BY <3>2 DEF NextLsn
  <2>. HIDE DEF first
  <2>6. CASE c \in S
    <3>1. Chain(first, Append(wire[c], p), After(p))
      BY <2>1, <2>3, ChainAppend
    <3>2. Append(wire[c], p) \in Seq(PacketsOf(c))
      BY <2>1, <2>3
    <3>. QED  BY <2>1, <2>2, <2>4, <2>5, <2>6, <3>1, <3>2 DEF WireInv, Chain, After, first
  <2>7. CASE c \notin S
    BY <2>1, <2>2, <2>4, <2>5, <2>7 DEF WireInv, Chain, After, first
  <2>. QED  BY <2>6, <2>7
<1>2. DOMAIN wire' = Cids
  BY DEF Put
<1>. QED  BY <1>1, <1>2 DEF CountInv, CountsSame

\* The steps that send
LEMMA SendingCounts ==
  ASSUME CountInv, TxInv(tx), Transmit \/ ObeyTsu \/ \E c \in Cids : TxLinkDown(c) \/ TxLinkUp(c)
  PROVE  CountInv'
<1>0. DOMAIN rx = RxFields /\ DOMAIN spent = SpentFields
  BY DEF CountInv
<1>1. CASE Transmit
  <2>1. CountsSame
    BY <1>0, <1>1 DEF Transmit, Count, CountsSame, SpentFields
  <2>2. CASE TransmitCopies
    <3>1. Put(UpLinks(tx.ls), "copy") /\ tx'.lsn = NextLsn(tx, UpLinks(tx.ls))
      BY <2>2, DuplicatedTx DEF TransmitCopies
    <3>. QED  BY <2>1, <3>1, Sent DEF Kinds
  <2>3. CASE TransmitOnce
    <3>1. Put({Choice.cid}, "data") /\ tx'.lsn = NextLsn(tx, {Choice.cid})
      BY <2>3, TransmitOnceTx DEF TransmitOnce
    <3>. QED  BY <2>1, <3>1, Sent DEF Kinds
  <2>. QED  BY <1>1, <2>2, <2>3 DEF Transmit
<1>2. CASE ObeyTsu
  <2>1. CountsSame
    BY <1>0, <1>2 DEF ObeyTsu, CountsSame, RxFields
  <2>2. PICK S : Put(S, "end")
    BY <1>2 DEF ObeyTsu
  <2>3. tx'.lsn = tx.lsn
    BY <1>2, ObeyTsuTx
  <2>. QED  BY <2>1, <2>2, <2>3, Sent DEF Kinds
<1>3. ASSUME NEW c \in Cids, TxLinkDown(c) \/ TxLinkUp(c)
      PROVE  CountInv'
  <2>1. TxEvent
    BY <1>3 DEF TxLinkDown, TxLinkUp
  <2>2. CountsSame
    BY <1>0, <2>1 DEF TxEvent, CountsSame, SpentFields
  <2>3. PICK S : Put(S, "end")
    BY <1>3 DEF TxLinkDown, TxLinkUp
  <2>4. tx'.lsn = tx.lsn
    BY <1>3, TxEventTx
  <2>. QED  BY <2>2, <2>3, <2>4, Sent DEF Kinds
<1>. QED  BY <1>1, <1>2, <1>3

\* The steps that neither send nor receive
LEMMA QuietCounts ==
  ASSUME CountInv,
         \/ SendTsu \/ BecomesLate \/ ReorderingTimeout \/ StopReorderTimeout
         \/ \E c \in Cids : DrainEnds(c) \/ RxLinkChanges(c)
         \/ UNCHANGED vars
  PROVE  CountInv'
<1>0. DOMAIN rx = RxFields /\ DOMAIN spent = SpentFields
  BY DEF CountInv
<1>1. CASE SendTsu
  <2>1. tx' = tx /\ wire' = wire /\ CountsSame
    <3>1. DOMAIN spent' = SpentFields /\ spent'.losses = spent.losses
      BY <1>0, <1>1 DEF SendTsu, SpentFields
    <3>2. DOMAIN rx' = RxFields /\ rx'.lost = rx.lost /\ rx'.lsn = rx.lsn
      BY <1>0, <1>1 DEF SendTsu, RxFields
    <3>. QED  BY <1>1, <3>1, <3>2 DEF SendTsu, CountsSame
  <2>. QED  BY <2>1, NothingSent
<1>2. CASE BecomesLate
  <2>1. tx' = tx /\ wire' = wire /\ CountsSame
    BY <1>0, <1>2 DEF BecomesLate, CountsSame, RxFields, SpentFields
  <2>. QED  BY <2>1, NothingSent
<1>3. CASE ReorderingTimeout
  <2>1. tx' = tx /\ wire' = wire /\ CountsSame
    BY <1>0, <1>3 DEF ReorderingTimeout, CountsSame, RxFields
  <2>. QED  BY <2>1, NothingSent
<1>4. CASE StopReorderTimeout
  <2>1. tx' = tx /\ wire' = wire /\ CountsSame
    BY <1>0, <1>4 DEF StopReorderTimeout, CountsSame, RxFields, SpentFields
  <2>. QED  BY <2>1, NothingSent
<1>5. ASSUME NEW c \in Cids, DrainEnds(c)
      PROVE  CountInv'
  <2>1. tx'.lsn = tx.lsn /\ wire' = wire /\ CountsSame
    BY <1>0, <1>5 DEF DrainEnds, CountsSame
  <2>. QED  BY <2>1, NothingSent
<1>6. ASSUME NEW c \in Cids, RxLinkChanges(c)
      PROVE  CountInv'
  <2>1. tx' = tx /\ wire' = wire /\ CountsSame
    BY <1>0, <1>6 DEF RxLinkChanges, CountsSame, RxFields, SpentFields
  <2>. QED  BY <2>1, NothingSent
<1>7. CASE UNCHANGED vars
  BY <1>0, <1>7, NothingSent DEF vars, CountsSame
<1>. QED  BY <1>1, <1>2, <1>3, <1>4, <1>5, <1>6, <1>7

\* y is x after the report of k losses on link c before the number lsn.
Reported(x, y, c, k, lsn) ==
  /\ DOMAIN y = RxFields /\ DOMAIN y.lost = Cids /\ DOMAIN y.lsn = Cids
  /\ y.lost[c] = x.lost[c] + k /\ y.lsn[c] = lsn
  /\ \A d \in Cids \ {c} : y.lost[d] = x.lost[d] /\ y.lsn[d] = x.lsn[d]

\* The report of a link after the loss of fewer than 127 packets in a row
LEMMA ReportIs ==
  ASSUME DOMAIN rx = RxFields, DOMAIN rx.lost = Cids, DOMAIN rx.lsn = Cids,
         NEW c \in Cids, NEW p, p.cid = c, NEW k \in 0 .. 126, rx.lsn[c] \in 0 .. LsnSpace - 1,
         p.lsn = (rx.lsn[c] + 1 + k) % LsnSpace
  PROVE  Reported(rx, ReportLoss(rx, p), c, k, p.lsn)
<1>. DEFINE gap == LsnDiff(p.lsn, rx.lsn[p.cid])
<1>1. gap = k + 1
  BY GapIs
<1>2. gap >= 1 /\ ~(gap < 1) /\ gap - 1 = k
  BY <1>1
<1>. HIDE DEF gap
<1>3. ReportLoss(rx, p) = [rx EXCEPT !.lost[p.cid] = rx.lost[p.cid] + (gap - 1), !.lsn[p.cid] = p.lsn, !.gsn[p.cid] = p.sn]
  BY <1>2 DEF ReportLoss, gap
<1>4. ReportLoss(rx, p) = [rx EXCEPT !.lost[c] = rx.lost[c] + k, !.lsn[c] = p.lsn, !.gsn[c] = p.sn]
  BY <1>2, <1>3
<1>. QED  BY <1>4 DEF RxFields, Reported

\* The first packet of link c is taken off, and what it says is reported, or
\* is one more loss.
LEMMA Taken ==
  ASSUME CountInv, NEW c \in Cids, wire[c] # <<>>, tx'.lsn = tx.lsn,
         wire' = [wire EXCEPT ![c] = Tail(wire[c])],
         DOMAIN rx' = RxFields, DOMAIN rx'.lost = Cids, DOMAIN rx'.lsn = Cids,
         DOMAIN spent' = SpentFields, DOMAIN spent'.losses = Cids,
         SumFunctionOnSet(spent'.losses, Cids) <= MaxLosses,
         \A d \in Cids \ {c} : /\ rx'.lost[d] = rx.lost[d] /\ rx'.lsn[d] = rx.lsn[d]
                               /\ spent'.losses[d] = spent.losses[d],
         rx'.lsn[c] \in 0 .. LsnSpace - 1,
         rx'.lost[c] \in Nat, spent'.losses[c] \in Nat, rx'.lost[c] <= spent'.losses[c],
         (rx'.lsn[c] + 1 + (spent'.losses[c] - rx'.lost[c])) % LsnSpace = After(Head(wire[c]))
  PROVE  CountInv'
<1>1. DOMAIN wire' = Cids /\ wire'[c] = Tail(wire[c]) /\ \A d \in Cids \ {c} : wire'[d] = wire[d]
  BY DEF CountInv
<1>2. ASSUME NEW d \in Cids \ {c}
      PROVE  WireInv(d)'
  <2>1. WireInv(d) /\ wire'[d] = wire[d]
    BY <1>1 DEF CountInv
  <2>2. /\ rx'.lost[d] = rx.lost[d] /\ rx'.lsn[d] = rx.lsn[d] /\ spent'.losses[d] = spent.losses[d]
        /\ tx'.lsn[d] = tx.lsn[d]
    OBVIOUS
  <2>. QED  BY <2>1, <2>2 DEF WireInv, Chain, After, Untold
<1>3. WireInv(c)'
  <2>. DEFINE w == wire[c]
              first == (rx.lsn[c] + 1 + Untold(c)) % LsnSpace
  <2>1. w \in Seq(PacketsOf(c)) /\ w # <<>> /\ Chain(first, w, tx.lsn[c])
    BY DEF CountInv, WireInv
  <2>. HIDE DEF first
  <2>2. Tail(w) \in Seq(PacketsOf(c)) /\ Chain(After(Head(w)), Tail(w), tx.lsn[c])
    BY <2>1, ChainTail
  <2>3. Untold(c)' = spent'.losses[c] - rx'.lost[c]
    BY DEF Untold
  <2>4. wire'[c] \in Seq(PacketsOf(c)) /\ Chain(After(Head(w)), wire'[c], tx'.lsn[c])
    BY <1>1, <2>2
  <2>5. (rx'.lsn[c] + 1 + Untold(c)') % LsnSpace = After(Head(w))
    BY <2>3
  <2>. HIDE DEF w
  <2>6. Chain((rx.lsn[c] + 1 + Untold(c)) % LsnSpace, wire[c], tx.lsn[c])'
    BY <2>4, <2>5 DEF Chain, After
  <2>. QED  BY <2>4, <2>6 DEF WireInv
<1>. QED  BY <1>1, <1>2, <1>3 DEF CountInv

\* What the first packet on link c says
LEMMA HeadIs ==
  ASSUME CountInv, NEW c \in Cids, wire[c] # <<>>
  PROVE  LET p == Head(wire[c])
         IN  /\ p.kind \in Kinds /\ p.cid = c
             /\ p.lsn = (rx.lsn[c] + 1 + Untold(c)) % LsnSpace
             /\ After(p) = IF p.kind = "end" THEN p.lsn ELSE (p.lsn + 1) % LsnSpace
<1>1. wire[c] \in Seq(PacketsOf(c)) /\ wire[c][1].lsn = (rx.lsn[c] + 1 + Untold(c)) % LsnSpace
  BY DEF CountInv, WireInv, Chain
<1>2. Head(wire[c]) \in PacketsOf(c) /\ Head(wire[c]) = wire[c][1]
  BY <1>1
<1>. DEFINE p == Head(wire[c])
<1>3. p.kind \in Kinds /\ p.cid = c /\ p.lsn \in 0 .. LsnSpace - 1
  BY <1>2 DEF PacketsOf
<1>4. After(p) = IF p.kind = "end" THEN p.lsn ELSE (p.lsn + 1) % LsnSpace
  BY <1>3, AfterIs
<1>. QED  BY <1>1, <1>2, <1>3, <1>4

\* The first packet is lost.
LEMMA LoseCounts ==
  ASSUME CountInv, NEW c \in Cids, Lose(c)
  PROVE  CountInv'
<1>. DEFINE p == Head(wire[c])
            n == IF p.kind = "end" THEN 0 ELSE 1
<1>1. wire[c] # <<>> /\ SumFunction(spent.losses) < MaxLosses /\ tx' = tx /\ rx' = rx
      /\ wire' = [wire EXCEPT ![c] = Tail(wire[c])]
  BY DEF Lose
<1>2. DOMAIN spent' = SpentFields /\ spent'.losses = [spent.losses EXCEPT ![c] = spent.losses[c] + n]
  BY DEF Lose, CountInv, SpentFields
<1>3. /\ rx.lsn[c] \in 0 .. LsnSpace - 1 /\ rx.lost[c] \in Nat /\ spent.losses[c] \in Nat
      /\ rx.lost[c] <= spent.losses[c] /\ \A d \in Cids : spent.losses[d] \in Nat
      /\ DOMAIN spent.losses = Cids /\ DOMAIN rx = RxFields /\ DOMAIN rx.lost = Cids
      /\ DOMAIN rx.lsn = Cids
  BY DEF CountInv, WireInv
<1>4. /\ p.lsn = (rx.lsn[c] + 1 + Untold(c)) % LsnSpace
      /\ After(p) = IF p.kind = "end" THEN p.lsn ELSE (p.lsn + 1) % LsnSpace
  BY <1>1, HeadIs
<1>5. n \in {0, 1} /\ (n = 0 => After(p) = p.lsn) /\ (n = 1 => After(p) = (p.lsn + 1) % LsnSpace)
  BY <1>4
<1>. HIDE DEF p, n
<1>6. /\ DOMAIN spent'.losses = Cids /\ spent'.losses[c] = spent.losses[c] + n
      /\ \A d \in Cids \ {c} : spent'.losses[d] = spent.losses[d]
  BY <1>2, <1>3
<1>7. SumFunctionOnSet(spent'.losses, Cids) <= MaxLosses
  <2>. DEFINE f == spent.losses
              g == spent'.losses
  <2>1. \A d \in Cids : f[d] \in Nat /\ g[d] \in Nat
    BY <1>3, <1>5, <1>6
  <2>2. \A d \in Cids \ {c} : f[d] = g[d]
    BY <1>6
  <2>3. g[c] = f[c] + n /\ f[c] \in Nat
    BY <1>3, <1>6
  <2>4. SumFunctionOnSet(f, Cids) < MaxLosses
    BY <1>1, <1>3 DEF SumFunction
  <2>. HIDE DEF f, g
  <2>5. SumFunctionOnSet(g, Cids) + f[c] = SumFunctionOnSet(f, Cids) + g[c]
    BY <2>1, <2>2, SumChangeOnCids
  <2>6. SumFunctionOnSet(f, Cids) \in Nat /\ SumFunctionOnSet(g, Cids) \in Nat
    BY <2>1, CidsFinite, SumType
  <2>7. MaxLosses \in Nat
    BY DataPathAssumption
  <2>8. SumFunctionOnSet(g, Cids) <= MaxLosses
    BY <1>5, <2>3, <2>4, <2>5, <2>6, <2>7
  <2>. QED  BY <2>8 DEF g
<1>8. (rx.lsn[c] + 1 + (spent'.losses[c] - rx.lost[c])) % LsnSpace = After(p)
  <2>. DEFINE k == Untold(c)
              a == rx.lsn[c] + 1 + k
  <2>1. k \in Nat /\ k = spent.losses[c] - rx.lost[c]
    BY <1>3 DEF Untold
  <2>. HIDE DEF k
  <2>2. a \in Nat /\ p.lsn = a % LsnSpace
    BY <1>3, <1>4, <2>1 DEF k, LsnSpace
  <2>3. rx.lsn[c] + 1 + (spent'.losses[c] - rx.lost[c]) = a + n
    BY <1>3, <1>5, <1>6, <2>1 DEF LsnSpace
  <2>. HIDE DEF a
  <2>4. (a + n) % LsnSpace = After(p)
    BY <1>5, <2>2, SameMod
  <2>. QED  BY <2>3, <2>4
<1>9. tx'.lsn = tx.lsn /\ spent'.losses[c] \in Nat /\ rx.lost[c] <= spent'.losses[c]
  BY <1>1, <1>3, <1>5, <1>6
<1>. QED  BY <1>1, <1>2, <1>3, <1>6, <1>7, <1>8, <1>9, Taken DEF p

\* The first packet arrives.
LEMMA ReceiveCounts ==
  ASSUME CountInv, MaxLosses < 127, NEW c \in Cids, Receive(c)
  PROVE  CountInv'
<1>. DEFINE p == Head(wire[c])
            k == Untold(c)
            first == (rx.lsn[c] + 1 + k) % LsnSpace
<1>1. /\ wire[c] # <<>> /\ rx' = ReceivePacket(rx, p) /\ tx' = tx /\ spent' = spent
      /\ wire' = [wire EXCEPT ![c] = Tail(wire[c])]
  BY DEF Receive
<1>2. /\ rx.lsn[c] \in 0 .. LsnSpace - 1 /\ rx.lost[c] \in Nat /\ spent.losses[c] \in Nat
      /\ rx.lost[c] <= spent.losses[c]
      /\ DOMAIN spent = SpentFields /\ DOMAIN spent.losses = Cids
      /\ DOMAIN rx = RxFields /\ DOMAIN rx.lost = Cids /\ DOMAIN rx.lsn = Cids
      /\ SumFunctionOnSet(spent.losses, Cids) <= MaxLosses
  BY DEF CountInv, WireInv
<1>3. /\ p.cid = c /\ p.lsn = first
      /\ After(p) = IF p.kind = "end" THEN p.lsn ELSE (p.lsn + 1) % LsnSpace
  BY <1>1, HeadIs
<1>4. k \in 0 .. 126 /\ k = spent.losses[c] - rx.lost[c]
  BY UntoldIs DEF Untold
<1>. HIDE DEF k, p
<1>5. first \in 0 .. LsnSpace - 1
  <2>1. rx.lsn[c] + 1 + k \in Nat
    BY <1>2, <1>4 DEF LsnSpace
  <2>. QED  BY <2>1, SameMod
<1>6. CASE p.kind = "end"
  <2>1. DOMAIN rx' = RxFields /\ rx'.lost = rx.lost /\ rx'.lsn = rx.lsn
    BY <1>1, <1>2, <1>6 DEF ReceivePacket, RxFields
  <2>. HIDE DEF first
  <2>2. (rx'.lsn[c] + 1 + (spent'.losses[c] - rx'.lost[c])) % LsnSpace = After(p)
    BY <1>1, <1>3, <1>4, <1>6, <2>1 DEF first
  <2>. QED  BY <1>1, <1>2, <2>1, <2>2, Taken DEF p
<1>7. CASE p.kind # "end"
  <2>. DEFINE y == ReportLoss(rx, p)
  <2>1. rx' = [y EXCEPT !.r = ReceiveData(AfterNotes(y.r, p), p, rx.up)]
    BY <1>1, <1>7 DEF ReceivePacket
  <2>2. Reported(rx, y, c, k, p.lsn)
    <3>1. p.lsn = (rx.lsn[c] + 1 + k) % LsnSpace /\ k \in 0 .. 126 /\ p.cid = c
      BY <1>3, <1>4
    <3>. HIDE DEF first
    <3>. QED  BY <1>2, <3>1, ReportIs
  <2>. HIDE DEF y, first
  <2>3. DOMAIN rx' = RxFields /\ rx'.lost = y.lost /\ rx'.lsn = y.lsn
    BY <2>1, <2>2 DEF RxFields, Reported
  <2>4. /\ DOMAIN rx'.lost = Cids /\ DOMAIN rx'.lsn = Cids
        /\ \A d \in Cids \ {c} : rx'.lost[d] = rx.lost[d] /\ rx'.lsn[d] = rx.lsn[d]
        /\ rx'.lost[c] = rx.lost[c] + k /\ rx'.lsn[c] = p.lsn
    BY <2>2, <2>3 DEF Reported
  <2>5. rx'.lost[c] = spent.losses[c] /\ rx'.lsn[c] = first
    BY <1>2, <1>3, <1>4, <2>4
  <2>6. rx'.lsn[c] + 1 + (spent'.losses[c] - rx'.lost[c]) = p.lsn + 1
    <3>1. p.lsn = first /\ first \in Int
      BY <1>3, <1>5 DEF LsnSpace
    <3>2. spent'.losses[c] = rx'.lost[c] /\ rx'.lost[c] \in Nat
      BY <1>1, <1>2, <2>5
    <3>. QED  BY <2>5, <3>1, <3>2
  <2>7. (rx'.lsn[c] + 1 + (spent'.losses[c] - rx'.lost[c])) % LsnSpace = After(p)
    BY <1>3, <1>7, <2>6
  <2>8. rx'.lost[c] \in Nat /\ rx'.lost[c] <= spent'.losses[c] /\ rx'.lsn[c] \in 0 .. LsnSpace - 1
    BY <1>1, <1>2, <1>5, <2>5
  <2>. QED  BY <1>1, <1>2, <2>3, <2>4, <2>7, <2>8, Taken DEF p
<1>. QED  BY <1>6, <1>7

\* Every step keeps the invariant.
LEMMA NextCounts ==
  ASSUME TxInv(tx), CountInv, MaxLosses < 127, [Next]_vars
  PROVE  CountInv'
BY SendingCounts, QuietCounts, ReceiveCounts, LoseCounts DEF Next

\* While fewer than 127 packets are lost, the losses that the receiver reports
\* for a link are those of the link (GmaVirtualInterface::Receive), for any
\* links, modes and starting numbers: numbers wrap after 256 packets, an end
\* marker repeats the number of the next packet, and copies share a number of
\* the flow.  Longer gaps are told by the number of the flow, which the chain
\* of the numbers of a link does not show.
THEOREM LossesCounted ==
  ASSUME MaxLosses < 127
  PROVE  Spec => []LossesAreCounted
<1>1. TxInv(tx) /\ CountInv /\ [Next]_vars => CountInv'
  BY NextCounts
<1>2. CountInv => LossesAreCounted
  BY CountSuffices
<1>. QED  BY <1>1, <1>2, InitCount, TxHolds, PTL DEF Spec

-----------------------------------------------------------------------------
(* Order                                                                   *)

\* A packet held
Items == [sn : Nat, cid : Cids, inOrder : BOOLEAN, late : BOOLEAN]

\* A receiver that has never been told of a steered flow
Receivers ==
  [expected : Nat, held : Seq(Items), on : BOOLEAN, useLsn : BOOLEAN, newCid : {NoCid},
   lastSn : [Cids -> Nat], lastLsn : [Cids -> 0 .. LsnSpace - 1],
   timer : BOOLEAN, stopTimer : {FALSE}, out : Seq(Nat)]

Half == SnSpace \div 2

\* The packets held came in order over each link.
InLines(held) ==
  \A i, j \in 1 .. Len(held) : i < j /\ held[i].cid = held[j].cid => held[i].sn < held[j].sn

\* Comparison of numbers that are not far apart is comparison.
LEMMA SnDiffIs ==
  ASSUME NEW x \in Nat, NEW y \in Nat, x - y < Half, y - x < Half
  PROVE  SnDiff(x, y) = x - y
<1>1. Half = 8388608 /\ SnSpace = 16777216
  BY DEF Half, SnSpace
<1>. QED  BY <1>1 DEF SnDiff, SerialDiff, SnSpace

\* The largest number is the only one whose successor is smaller.
LEMMA SuccIs ==
  ASSUME NEW x \in Nat, x < MaxSn
  PROVE  Succ(x) = x + 1
<1>1. MaxSn = 16777215
  BY DEF MaxSn, SnSpace
<1>2. (x + 1) % 16777216 = x + 1
  BY <1>1
<1>. QED  BY <1>2 DEF Succ, SnSpace

\* Queues and their first packets
LEMMA FirstOfIs ==
  ASSUME NEW r, NEW n \in Nat, DOMAIN r.held = 1 .. n, NEW c \in Waiting(r)
  PROVE  /\ FirstOf(r, c) \in 1 .. n /\ r.held[FirstOf(r, c)].cid = c
         /\ \A j \in 1 .. n : r.held[j].cid = c => FirstOf(r, c) <= j
<1>. DEFINE S == {i \in DOMAIN r.held : r.held[i].cid = c}
<1>1. S # {} /\ S \in SUBSET (1 .. n) /\ S \in SUBSET Int
  BY DEF Waiting
<1>2. IsFiniteSet(S)
  BY <1>1, FS_Interval, FS_Subset
<1>3. \E x \in S : \A y \in S : x <= y
  BY <1>1, <1>2, SmallestElement
<1>4. Min(S) \in S /\ \A y \in S : Min(S) <= y
  BY <1>3 DEF Min
<1>. QED  BY <1>1, <1>4 DEF FirstOf

\* What MinAt computes, link after link: the loop exists.
Searches(r, m, f) ==
  f = [c \in 0 .. m |-> LET i == IF c = 0 THEN 0 ELSE f[c - 1]
                        IN  IF c \in Waiting(r) THEN Smaller(r, i, FirstOf(r, c)) ELSE i]

\* There is such a function.
LEMMA SearchExists ==
  ASSUME NEW r, NEW m \in Nat
  PROVE  \E f : Searches(r, m, f)
<1>. DEFINE T == {k \in Nat : \E f : Searches(r, k, f)}
            Step(c, i) == IF c \in Waiting(r) THEN Smaller(r, i, FirstOf(r, c)) ELSE i
<1>1. \A k, f : Searches(r, k, f) <=> f = [c \in 0 .. k |-> IF c = 0 THEN Step(c, 0) ELSE Step(c, f[c - 1])]
  <2>. TAKE k, f
  <2>1. ASSUME NEW c
        PROVE  (LET i == IF c = 0 THEN 0 ELSE f[c - 1]
                IN  IF c \in Waiting(r) THEN Smaller(r, i, FirstOf(r, c)) ELSE i)
               = IF c = 0 THEN Step(c, 0) ELSE Step(c, f[c - 1])
    OBVIOUS
  <2>. QED  BY <2>1 DEF Searches
<1>2. 0 \in T
  <2>. DEFINE f == [c \in 0 .. 0 |-> Step(c, 0)]
  <2>. HIDE DEF Step
  <2>1. f = [c \in 0 .. 0 |-> IF c = 0 THEN Step(c, 0) ELSE Step(c, f[c - 1])]
    OBVIOUS
  <2>. QED  BY <1>1, <2>1
<1>. HIDE DEF Step
<1>3. ASSUME NEW k \in T PROVE k + 1 \in T
  <2>1. PICK f : Searches(r, k, f)
    BY <1>3
  <2>. DEFINE g == [c \in 0 .. k + 1 |-> IF c <= k THEN f[c] ELSE Step(c, f[k])]
  <2>2. k \in Nat
    BY <1>3
  <2>3. \A c \in 0 .. k : f[c] = IF c = 0 THEN Step(c, 0) ELSE Step(c, f[c - 1])
    BY <1>1, <2>1, <2>2
  <2>4. ASSUME NEW c \in 0 .. k + 1 PROVE g[c] = IF c = 0 THEN Step(c, 0) ELSE Step(c, g[c - 1])
    <3>1. CASE c = 0
      BY <3>1, <2>2, <2>3
    <3>2. CASE c # 0 /\ c <= k
      <4>1. c \in 0 .. k /\ c - 1 \in 0 .. k + 1 /\ c - 1 <= k
        BY <2>2, <3>2
      <4>2. g[c] = f[c] /\ g[c - 1] = f[c - 1]
        BY <4>1
      <4>. HIDE DEF g
      <4>. QED  BY <2>3, <3>2, <4>1, <4>2
    <3>3. CASE c # 0 /\ ~(c <= k)
      <4>1. c = k + 1 /\ c - 1 = k /\ k \in 0 .. k + 1
        BY <2>2, <3>3
      <4>2. g[c] = Step(c, f[k]) /\ g[k] = f[k]
        BY <4>1, <2>2
      <4>. HIDE DEF g
      <4>. QED  BY <3>3, <4>1, <4>2
    <3>. QED  BY <3>1, <3>2, <3>3
  <2>5. g = [c \in 0 .. k + 1 |-> IF c = 0 THEN Step(c, 0) ELSE Step(c, g[c - 1])]
    <3>1. g = [c \in 0 .. k + 1 |-> g[c]]
      OBVIOUS
    <3>. HIDE DEF g
    <3>. QED  BY <2>4, <3>1
  <2>. HIDE DEF g
  <2>6. Searches(r, k + 1, g)
    BY <1>1, <2>5
  <2>. QED  BY <2>2, <2>6
<1>. HIDE DEF T
<1>. QED  BY <1>2, <1>3, NatSetInduction DEF T

\* Packets whose numbers can be compared, in order over each link
Comparable(held) ==
  /\ held \in Seq(Items) /\ InLines(held)
  /\ \A i, j \in 1 .. Len(held) : held[i].sn < MaxSn /\ held[i].sn - held[j].sn < Half

\* One packet has the smallest number of all, and MinAt finds it.
LEMMA MinAtIs ==
  ASSUME NEW r, Comparable(r.held), r.held # <<>>
  PROVE  /\ MinAt(r) \in 1 .. Len(r.held)
         /\ \A j \in 1 .. Len(r.held) : r.held[MinAt(r)].sn <= r.held[j].sn
<1>. DEFINE n == Len(r.held)
            W == Waiting(r)
            M == Max(W)
<1>1. n \in Nat /\ n >= 1 /\ DOMAIN r.held = 1 .. n
  BY DEF Comparable
<1>2. \A i \in 1 .. n : r.held[i].cid \in W /\ r.held[i].cid \in Cids /\ r.held[i].sn \in Nat
  <2>. TAKE i \in 1 .. n
  <2>1. r.held[i] \in Items
    BY DEF Comparable
  <2>. QED  BY <1>1, <2>1 DEF Waiting, Items
<1>3. W \in SUBSET Cids /\ W # {} /\ Cids \in SUBSET Nat
  <2>1. W \in SUBSET Cids
    BY <1>1, <1>2 DEF Waiting
  <2>2. r.held[1].cid \in W
    BY <1>1, <1>2
  <2>. QED  BY <2>1, <2>2, CidsAssumption
<1>4. M \in W /\ \A c \in W : c <= M
  <2>. HIDE DEF W
  <2>1. IsFiniteSet(W) /\ W \in SUBSET Int
    BY <1>3, CidsFinite, FS_Subset
  <2>2. \E x \in W : \A y \in W : y <= x
    BY <1>3, <2>1, LargestElement
  <2>3. \A x, y \in W : x >= y <=> y <= x
    BY <2>1
  <2>. QED  BY <2>2, <2>3 DEF Max
<1>5. \A c \in W : /\ FirstOf(r, c) \in 1 .. n /\ r.held[FirstOf(r, c)].cid = c
                   /\ \A j \in 1 .. n : r.held[j].cid = c => r.held[FirstOf(r, c)].sn <= r.held[j].sn
  <2>. TAKE c \in W
  <2>1. /\ FirstOf(r, c) \in 1 .. n /\ r.held[FirstOf(r, c)].cid = c
        /\ \A j \in 1 .. n : r.held[j].cid = c => FirstOf(r, c) <= j
    BY <1>1, FirstOfIs
  <2>2. ASSUME NEW j \in 1 .. n, r.held[j].cid = c
        PROVE  r.held[FirstOf(r, c)].sn <= r.held[j].sn
    <3>1. CASE FirstOf(r, c) = j
      BY <1>2, <3>1
    <3>2. CASE FirstOf(r, c) < j
      <4>1. r.held[FirstOf(r, c)].sn < r.held[j].sn
        BY <2>1, <2>2, <3>2 DEF Comparable, InLines
      <4>. QED  BY <1>2, <2>1, <4>1
    <3>. QED  BY <1>1, <2>1, <2>2, <3>1, <3>2
  <2>. QED  BY <2>1, <2>2
<1>6. ASSUME NEW i \in 1 .. n, NEW j \in 1 .. n
      PROVE  /\ Smaller(r, 0, j) = j
             /\ Smaller(r, i, j) = IF r.held[i].sn > r.held[j].sn THEN j ELSE i
  <2>1. r.held[i].sn < MaxSn /\ r.held[i].sn - r.held[j].sn < Half /\ r.held[j].sn - r.held[i].sn < Half
    BY DEF Comparable
  <2>2. r.held[i].sn \in Nat /\ r.held[j].sn \in Nat /\ MaxSn \in Nat
    BY <1>2 DEF MaxSn, SnSpace
  <2>3. SnDiff(r.held[i].sn, r.held[j].sn) = r.held[i].sn - r.held[j].sn
    BY <2>1, <2>2, SnDiffIs
  <2>4. r.held[i].sn # MaxSn /\ i # 0
    BY <1>1, <2>1, <2>2
  <2>5. SnDiff(r.held[i].sn, r.held[j].sn) > 0 <=> r.held[i].sn > r.held[j].sn
    BY <2>2, <2>3
  <2>. QED  BY <2>4, <2>5 DEF Smaller
<1>7. M \in Nat
  BY <1>3, <1>4
<1>. DEFINE least == CHOOSE f : f = [c \in 0 .. M |-> LET i == IF c = 0 THEN 0 ELSE f[c - 1]
                                    IN  IF c \in W THEN Smaller(r, i, FirstOf(r, c)) ELSE i]
<1>8. MinAt(r) = least[M]
  BY DEF MinAt
<1>9. Searches(r, M, least)
  <2>1. PICK f : Searches(r, M, f)
    BY <1>7, SearchExists
  <2>. QED  BY <2>1 DEF Searches
<1>. HIDE DEF least, M
<1>10. \A c \in 0 .. M : least[c] = LET i == IF c = 0 THEN 0 ELSE least[c - 1]
                                    IN  IF c \in W THEN Smaller(r, i, FirstOf(r, c)) ELSE i
  BY <1>9 DEF Searches
<1>. HIDE DEF W, n
<1>. DEFINE Found(c, i) == \/ i = 0 /\ (\A d \in W : d > c)
                           \/ i \in 1 .. n /\ (\A d \in W : d <= c => r.held[i].sn <= r.held[FirstOf(r, d)].sn)
            Sought(c, i) == \/ i = 0 /\ (\A d \in W : d >= c)
                            \/ i \in 1 .. n /\ (\A d \in W : d < c => r.held[i].sn <= r.held[FirstOf(r, d)].sn)
            T == {c \in Nat : c \in 0 .. M => Found(c, least[c])}
<1>11. ASSUME NEW c \in 0 .. M, NEW i, Sought(c, i)
       PROVE  Found(c, IF c \in W THEN Smaller(r, i, FirstOf(r, c)) ELSE i)
  <2>1. c \in Int /\ \A d \in W : d \in Int
    BY <1>3, <1>7
  <2>2. CASE c \notin W
    <3>1. \A d \in W : (d >= c <=> d > c) /\ (d <= c <=> d < c)
      BY <2>1, <2>2
    <3>. QED  BY <1>11, <2>2, <3>1
  <2>3. CASE c \in W
    <3>. DEFINE j == FirstOf(r, c)
                k == Smaller(r, i, j)
    <3>1. j \in 1 .. n
      BY <1>5, <2>3
    <3>. HIDE DEF j
    <3>2. CASE i = 0 /\ (\A d \in W : d >= c)
      <4>1. k = j
        BY <1>6, <3>1, <3>2
      <4>2. \A d \in W : d <= c => d = c
        BY <2>1, <3>2
      <4>3. r.held[j].sn <= r.held[j].sn
        BY <1>2, <3>1
      <4>. QED  BY <2>3, <3>1, <4>1, <4>2, <4>3 DEF j
    <3>3. CASE i \in 1 .. n /\ (\A d \in W : d < c => r.held[i].sn <= r.held[FirstOf(r, d)].sn)
      <4>1. k = IF r.held[i].sn > r.held[j].sn THEN j ELSE i
        BY <1>6, <3>1, <3>3
      <4>2. k \in 1 .. n /\ r.held[k].sn <= r.held[i].sn /\ r.held[k].sn <= r.held[j].sn
        BY <1>2, <3>1, <3>3, <4>1
      <4>. HIDE DEF k
      <4>3. ASSUME NEW d \in W, d <= c
            PROVE  r.held[k].sn <= r.held[FirstOf(r, d)].sn
        <5>1. CASE d = c
          BY <4>2, <5>1 DEF j
        <5>2. CASE d < c
          <6>1. r.held[i].sn <= r.held[FirstOf(r, d)].sn /\ FirstOf(r, d) \in 1 .. n
            BY <1>5, <3>3, <5>2
          <6>. QED  BY <1>2, <3>3, <4>2, <6>1
        <5>. QED  BY <2>1, <4>3, <5>1, <5>2
      <4>4. Found(c, k)
        BY <4>2, <4>3
      <4>. QED  BY <2>3, <4>4 DEF k, j
    <3>. QED  BY <1>11, <3>2, <3>3
  <2>. QED  BY <2>2, <2>3
<1>. HIDE DEF Found, Sought
<1>12. 0 \in T
  <2>1. 0 \in 0 .. M /\ \A d \in W : d >= 0
    BY <1>3, <1>7
  <2>2. least[0] = IF 0 \in W THEN Smaller(r, 0, FirstOf(r, 0)) ELSE 0
    BY <1>10, <2>1
  <2>3. Sought(0, 0)
    BY <2>1 DEF Sought
  <2>4. Found(0, IF 0 \in W THEN Smaller(r, 0, FirstOf(r, 0)) ELSE 0)
    BY Zenon, <1>11, <2>1, <2>3
  <2>. QED  BY <2>2, <2>4
<1>13. ASSUME NEW c \in T PROVE c + 1 \in T
  <2>. SUFFICES ASSUME c + 1 \in 0 .. M PROVE Found(c + 1, least[c + 1])
    BY <1>13
  <2>1. c \in Nat /\ c \in 0 .. M /\ c + 1 # 0 /\ (c + 1) - 1 = c
    BY <1>7, <1>13
  <2>2. Found(c, least[c])
    BY <1>13, <2>1
  <2>3. least[c + 1] = IF c + 1 \in W THEN Smaller(r, least[c], FirstOf(r, c + 1)) ELSE least[c]
    BY <1>10, <2>1
  <2>4. \A d \in W : (d > c <=> d >= c + 1) /\ (d <= c <=> d < c + 1)
    BY <1>3, <2>1
  <2>5. Sought(c + 1, least[c])
    BY <2>2, <2>4 DEF Found, Sought
  <2>6. Found(c + 1, IF c + 1 \in W THEN Smaller(r, least[c], FirstOf(r, c + 1)) ELSE least[c])
    BY Zenon, <1>11, <2>5
  <2>. QED  BY <2>3, <2>6
<1>. HIDE DEF T
<1>14. T = Nat
  BY <1>12, <1>13, NatSetInduction DEF T
<1>15. Found(M, least[M])
  BY <1>7, <1>14 DEF T
<1>16. least[M] \in 1 .. n /\ \A d \in W : r.held[least[M]].sn <= r.held[FirstOf(r, d)].sn
  <2>1. M \in W /\ \A d \in W : d <= M /\ ~(M > M)
    BY <1>3, <1>4, <1>7 DEF M
  <2>. QED  BY <1>15, <2>1 DEF Found
<1>17. ASSUME NEW j \in 1 .. n
       PROVE  r.held[least[M]].sn <= r.held[j].sn
  <2>. DEFINE c == r.held[j].cid
  <2>1. c \in W
    BY <1>2
  <2>2. r.held[least[M]].sn <= r.held[FirstOf(r, c)].sn /\ r.held[FirstOf(r, c)].sn <= r.held[j].sn
        /\ FirstOf(r, c) \in 1 .. n
    BY <1>5, <1>16, <2>1
  <2>. QED  BY <1>2, <1>16, <2>2
<1>. QED  BY <1>8, <1>16, <1>17 DEF n

\* Fewer numbers have been used than the serial comparison tells apart, and the largest, which
\* also means that no minimum was found, is not among them.
FewNumbers(top) == top \in Nat /\ FirstSn <= top /\ top <= MaxSn /\ top - FirstSn < Half

\* A receiver that reorders, in the course of a call: the numbers below top have been sent,
\* number n over link route[n], and last[c] is the last one that came over link c.  What is held is
\* still to come in the order of numbers, and what was forwarded since the reordering began came
\* in that order.
Orderly(s, since, route, top, last) ==
  /\ s \in Receivers /\ InLines(s.held)
  /\ s.expected \in FirstSn .. top
  /\ \A i \in 1 .. Len(s.held) : /\ s.held[i].sn \in s.expected .. top - 1
                                /\ route[s.held[i].sn] = s.held[i].cid
                                /\ s.held[i].sn <= last[s.held[i].cid]
  /\ \A c \in Cids : \/ last[c] < s.expected
                     \/ \E i \in 1 .. Len(s.held) : s.held[i].cid = c /\ s.held[i].sn = last[c]
  /\ \A i \in since .. Len(s.out) : s.out[i] \in FirstSn .. s.expected - 1
  /\ \A i, j \in since .. Len(s.out) : i < j => s.out[i] < s.out[j]

\* What is held can be compared.
LEMMA OrderlyComparable ==
  ASSUME NEW s, NEW since, NEW route, NEW top, NEW last, FewNumbers(top), Orderly(s, since, route, top, last)
  PROVE  Comparable(s.held)
<1>1. s.held \in Seq(Items)
  BY DEF Orderly, Receivers
<1>2. FirstSn \in Nat /\ top \in Nat /\ MaxSn \in Nat /\ Half \in Nat
  BY DataPathAssumption DEF FewNumbers, MaxSn, SnSpace, Half
<1>3. \A i \in 1 .. Len(s.held) : s.held[i].sn \in FirstSn .. top - 1
  <2>1. s.expected \in FirstSn .. top
    BY DEF Orderly
  <2>2. \A i \in 1 .. Len(s.held) : s.held[i].sn \in s.expected .. top - 1
    BY DEF Orderly
  <2>. QED  BY <1>2, <2>1, <2>2
<1>4. top <= MaxSn /\ top - FirstSn < Half
  BY DEF FewNumbers
<1>5. \A i, j \in 1 .. Len(s.held) : s.held[i].sn < MaxSn /\ s.held[i].sn - s.held[j].sn < Half
  BY <1>2, <1>3, <1>4
<1>. QED  BY <1>1, <1>5 DEF Comparable, Orderly

\* One element of a sequence is taken out.
LEMMA RemoveAtIs ==
  ASSUME NEW S, NEW q \in Seq(S), NEW m \in 1 .. Len(q)
  PROVE  LET v == RemoveAt(q, m)
         IN  /\ v \in Seq(S) /\ Len(v) = Len(q) - 1
             /\ \A i \in 1 .. Len(v) : v[i] = q[IF i < m THEN i ELSE i + 1]
<1>. DEFINE a == SubSeq(q, 1, m - 1)
            b == SubSeq(q, m + 1, Len(q))
<1>1. Len(q) \in Nat /\ m \in Nat
  OBVIOUS
<1>2. a \in Seq(S) /\ Len(a) = m - 1 /\ \A i \in 1 .. m - 1 : a[i] = q[i]
  BY <1>1
<1>3. b \in Seq(S) /\ Len(b) = Len(q) - m /\ \A i \in 1 .. Len(q) - m : b[i] = q[m + i]
  BY <1>1
<1>4. RemoveAt(q, m) = a \o b
  BY DEF RemoveAt
<1>. HIDE DEF a, b
<1>. DEFINE v == a \o b
<1>5. v \in Seq(S) /\ Len(v) = Len(q) - 1
  <2>1. v \in Seq(S) /\ Len(v) = Len(a) + Len(b)
    BY <1>2, <1>3, ConcatProperties
  <2>. QED  BY <1>1, <1>2, <1>3, <2>1
<1>6. ASSUME NEW i \in 1 .. Len(q) - 1
      PROVE  v[i] = q[IF i < m THEN i ELSE i + 1]
  <2>1. CASE i < m
    <3>1. v[i] = a[i] /\ i \in 1 .. m - 1
      BY <1>1, <1>2, <1>3, <2>1
    <3>. QED  BY <1>2, <2>1, <3>1
  <2>2. CASE ~(i < m)
    <3>1. i - (m - 1) \in 1 .. Len(q) - m /\ m + (i - (m - 1)) = i + 1
      BY <1>1, <2>2
    <3>2. v[i] = b[i - (m - 1)]
      BY <1>1, <1>2, <1>3, <2>2
    <3>. QED  BY <1>3, <2>2, <3>1, <3>2
  <2>. QED  BY <2>1, <2>2
<1>. QED  BY <1>4, <1>5, <1>6

\* The fields that a call does not change before it ends
Rests(r, s) == s.on = r.on /\ s.useLsn = r.useLsn /\ s.lastSn = r.lastSn /\ s.lastLsn = r.lastLsn

\* One number is forwarded after the others.
LEMMA OutGrows ==
  ASSUME NEW out \in Seq(Nat), NEW since \in Nat \ {0}, NEW e \in Nat, NEW n \in Nat, e <= n, FirstSn <= n, FirstSn \in Nat,
         \A i \in since .. Len(out) : out[i] \in FirstSn .. e - 1,
         \A i, j \in since .. Len(out) : i < j => out[i] < out[j]
  PROVE  LET v == Append(out, n)
         IN  /\ v \in Seq(Nat)
             /\ \A i \in since .. Len(v) : v[i] \in FirstSn .. n
             /\ \A i, j \in since .. Len(v) : i < j => v[i] < v[j]
<1>. DEFINE v == Append(out, n)
<1>1. /\ v \in Seq(Nat) /\ Len(v) = Len(out) + 1 /\ Len(out) \in Nat
      /\ v[Len(out) + 1] = n /\ \A i \in 1 .. Len(out) : v[i] = out[i]
  OBVIOUS
<1>. HIDE DEF v
<1>2. ASSUME NEW i \in since .. Len(v)
      PROVE  \/ i = Len(v) /\ v[i] = n
             \/ i \in since .. Len(out) /\ v[i] = out[i]
  BY <1>1
<1>3. ASSUME NEW i \in since .. Len(v)
      PROVE  v[i] \in FirstSn .. n
  BY <1>2
<1>4. ASSUME NEW i \in since .. Len(v), NEW j \in since .. Len(v), i < j
      PROVE  v[i] < v[j]
  <2>1. i \in since .. Len(out) /\ v[i] = out[i]
    BY <1>1, <1>2, <1>4
  <2>. QED  BY <1>2, <1>4, <2>1
<1>. QED  BY <1>1, <1>3, <1>4 DEF v

\* The packet with the smallest number is forwarded.
LEMMA TakeMin ==
  ASSUME NEW s, NEW since \in Nat \ {0}, NEW route, NEW top, NEW last \in [Cids -> Int], FewNumbers(top),
         Orderly(s, since, route, top, last), s.held # <<>>
  PROVE  LET p == MinHead(s)
             t == Accept(Pop(s), p)
         IN  /\ p \in Items /\ p.sn \in s.expected .. top - 1
             /\ Orderly(t, since, route, top, last) /\ Rests(s, t)
<1>. DEFINE m == MinAt(s)
            q == s.held
            p == q[m]
            v == RemoveAt(q, m)
            t == Accept(Pop(s), p)
            Back(i) == IF i < m THEN i ELSE i + 1
<1>1. /\ s \in Receivers /\ q \in Seq(Items) /\ s.out \in Seq(Nat) /\ InLines(q)
      /\ Len(q) \in Nat /\ Len(s.out) \in Nat
  <2>1. s \in Receivers /\ InLines(q)
    BY DEF Orderly
  <2>2. q \in Seq(Items) /\ s.out \in Seq(Nat)
    BY <2>1 DEF Receivers
  <2>. QED  BY <2>1, <2>2
<1>2. m \in 1 .. Len(q) /\ \A j \in 1 .. Len(q) : p.sn <= q[j].sn
  BY OrderlyComparable, MinAtIs
<1>. HIDE DEF m
<1>3. ASSUME NEW i \in 1 .. Len(q)
      PROVE  q[i] \in Items /\ q[i].sn \in Nat /\ q[i].cid \in Cids
  <2>1. q[i] \in Items
    BY <1>1
  <2>. QED  BY <2>1 DEF Items
<1>4. FirstSn \in Nat /\ top \in Nat /\ top <= MaxSn /\ s.expected \in FirstSn .. top
  BY DataPathAssumption DEF FewNumbers, Orderly
<1>5. \A i \in 1 .. Len(q) : q[i].sn \in s.expected .. top - 1 /\ route[q[i].sn] = q[i].cid /\ q[i].sn <= last[q[i].cid]
  BY DEF Orderly
<1>6. p \in Items /\ p.sn \in s.expected .. top - 1 /\ p.sn < MaxSn
  <2>1. MaxSn \in Nat
    BY DEF MaxSn, SnSpace
  <2>. QED  BY <1>2, <1>3, <1>4, <1>5, <2>1
<1>7. /\ v \in Seq(Items) /\ Len(v) = Len(q) - 1
      /\ \A i \in 1 .. Len(v) : v[i] = q[Back(i)] /\ Back(i) \in 1 .. Len(q) /\ Back(i) # m
  <2>1. /\ v \in Seq(Items) /\ Len(v) = Len(q) - 1
        /\ \A i \in 1 .. Len(v) : v[i] = q[Back(i)]
    BY <1>1, <1>2, RemoveAtIs
  <2>2. \A i \in 1 .. Len(v) : Back(i) \in 1 .. Len(q) /\ Back(i) # m
    BY <1>1, <1>2, <2>1
  <2>. QED  BY <2>1, <2>2
<1>8. t = [s EXCEPT !.held = v, !.out = Append(@, p.sn), !.expected = p.sn + 1]
  <2>1. Succ(p.sn) = p.sn + 1
    BY <1>2, <1>3, <1>6, SuccIs
  <2>. QED  BY <1>1, <2>1 DEF Accept, Forward, Pop, m, Receivers
<1>. HIDE DEF v
<1>9. /\ t.held = v /\ t.out = Append(s.out, p.sn) /\ t.expected = p.sn + 1 /\ Rests(s, t)
      /\ DOMAIN t = DOMAIN s /\ t.newCid = s.newCid /\ t.timer = s.timer /\ t.stopTimer = s.stopTimer
  BY <1>1, <1>8 DEF Receivers, Rests
<1>10. p.sn \in Nat
  BY <1>2, <1>3
<1>11. t \in Receivers
  <2>1. t.expected \in Nat /\ t.held \in Seq(Items) /\ t.out \in Seq(Nat)
    BY <1>1, <1>7, <1>9, <1>10
  <2>. QED  BY <1>1, <1>8, <2>1, <1>9 DEF Receivers
<1>. HIDE DEF t
<1>12. ASSUME NEW i \in 1 .. Len(v), NEW j \in 1 .. Len(v), i < j, v[i].cid = v[j].cid
       PROVE  v[i].sn < v[j].sn
  <2>1. Back(i) < Back(j)
    BY <1>2, <1>12
  <2>. QED  BY <1>1, <1>7, <1>12, <2>1 DEF InLines
<1>13. ASSUME NEW i \in 1 .. Len(v)
       PROVE  v[i].sn \in p.sn + 1 .. top - 1 /\ route[v[i].sn] = v[i].cid /\ v[i].sn <= last[v[i].cid]
  <2>. DEFINE k == Back(i)
  <2>1. v[i] = q[k] /\ k \in 1 .. Len(q) /\ k # m
    BY <1>7
  <2>. HIDE DEF k
  <2>2. q[k].sn # p.sn
    <3>1. ASSUME q[k].sn = p.sn PROVE FALSE
      <4>1. q[k].cid = p.cid
        BY <1>2, <1>5, <2>1, <3>1
      <4>2. q[k].sn < p.sn \/ p.sn < q[k].sn
        BY <1>1, <1>2, <2>1, <4>1 DEF InLines
      <4>. QED  BY <1>10, <3>1, <4>2
    <3>. QED  BY <3>1
  <2>3. p.sn <= q[k].sn /\ q[k].sn \in s.expected .. top - 1
    BY <1>2, <1>5, <2>1
  <2>4. q[k].sn \in p.sn + 1 .. top - 1
    BY <1>4, <1>10, <2>2, <2>3
  <2>. QED  BY <1>5, <2>1, <2>4
<1>14. ASSUME NEW c \in Cids
       PROVE  last[c] < p.sn + 1 \/ \E i \in 1 .. Len(v) : v[i].cid = c /\ v[i].sn = last[c]
  <2>1. CASE last[c] < s.expected
    BY <1>4, <1>6, <2>1
  <2>2. CASE \E i \in 1 .. Len(q) : q[i].cid = c /\ q[i].sn = last[c]
    <3>1. PICK i \in 1 .. Len(q) : q[i].cid = c /\ q[i].sn = last[c]
      BY <2>2
    <3>2. CASE i = m
      BY <1>10, <3>1, <3>2
    <3>3. CASE i < m
      <4>1. i \in 1 .. Len(v) /\ Back(i) = i
        BY <1>1, <1>2, <1>7, <3>3
      <4>. QED  BY <1>7, <3>1, <4>1
    <3>4. CASE i > m
      <4>1. i - 1 \in 1 .. Len(v) /\ Back(i - 1) = i
        BY <1>1, <1>2, <1>7, <3>4
      <4>. QED  BY <1>7, <3>1, <4>1
    <3>. QED  BY <1>2, <3>2, <3>3, <3>4
  <2>. QED  BY <2>1, <2>2 DEF Orderly
<1>15. /\ \A i \in since .. Len(t.out) : t.out[i] \in FirstSn .. p.sn
       /\ \A i, j \in since .. Len(t.out) : i < j => t.out[i] < t.out[j]
  <2>1. /\ \A i \in since .. Len(s.out) : s.out[i] \in FirstSn .. s.expected - 1
        /\ \A i, j \in since .. Len(s.out) : i < j => s.out[i] < s.out[j]
    BY DEF Orderly
  <2>2. s.expected \in Nat /\ s.expected <= p.sn /\ FirstSn <= p.sn
    BY <1>4, <1>6
  <2>. QED  BY <1>1, <1>4, <1>9, <1>10, <2>1, <2>2, OutGrows
<1>16. (p.sn + 1) - 1 = p.sn /\ p.sn + 1 \in FirstSn .. top
  BY <1>4, <1>6, <1>10
<1>17. Orderly(t, since, route, top, last)
  <2>1. InLines(t.held)
    BY <1>9, <1>12 DEF InLines
  <2>2. \A i \in 1 .. Len(t.held) : /\ t.held[i].sn \in t.expected .. top - 1
                                    /\ route[t.held[i].sn] = t.held[i].cid
                                    /\ t.held[i].sn <= last[t.held[i].cid]
    BY <1>9, <1>13
  <2>3. \A c \in Cids : last[c] < t.expected \/ \E i \in 1 .. Len(t.held) : t.held[i].cid = c /\ t.held[i].sn = last[c]
    BY <1>9, <1>14
  <2>4. t.expected \in FirstSn .. top /\ \A i \in since .. Len(t.out) : t.out[i] \in FirstSn .. t.expected - 1
    BY <1>9, <1>15, <1>16
  <2>. QED  BY <1>11, <1>15, <2>1, <2>2, <2>3, <2>4 DEF Orderly
<1>. QED  BY <1>6, <1>9, <1>17 DEF MinHead, t, m

\* What a loop of k turns G goes through
Loops(S, G, r, k, f) ==
  f \in [0 .. k -> S] /\ \A n \in 0 .. k : f[n] = IF n = 0 THEN r ELSE G[f[n - 1]]

\* A loop whose turns stay in a set exists.
LEMMA LoopRuns ==
  ASSUME NEW S, NEW G \in [S -> S], NEW r \in S, NEW k \in Nat
  PROVE  \E f : Loops(S, G, r, k, f)
<1>. DEFINE Runs(m, f) == /\ DOMAIN f = 0 .. m
                          /\ \A n \in 0 .. m : f[n] \in S /\ f[n] = IF n = 0 THEN r ELSE G[f[n - 1]]
            T == {m \in Nat : \E f : f = [n \in 0 .. m |-> f[n]] /\ Runs(m, f)}
<1>1. 0 \in T
  <2>. DEFINE f == [n \in 0 .. 0 |-> r]
  <2>1. f = [n \in 0 .. 0 |-> f[n]] /\ Runs(0, f)
    OBVIOUS
  <2>. QED  BY <2>1
<1>2. ASSUME NEW m \in T PROVE m + 1 \in T
  <2>1. PICK f : f = [n \in 0 .. m |-> f[n]] /\ Runs(m, f)
    BY <1>2
  <2>. DEFINE g == [n \in 0 .. m + 1 |-> IF n <= m THEN f[n] ELSE G[f[m]]]
  <2>2. m \in Nat /\ m \in 0 .. m
    BY <1>2
  <2>3. ASSUME NEW n \in 0 .. m + 1
        PROVE  g[n] \in S /\ g[n] = IF n = 0 THEN r ELSE G[g[n - 1]]
    <3>1. CASE n = 0
      BY <3>1, <2>1, <2>2
    <3>2. CASE n # 0 /\ n <= m
      <4>1. n \in 0 .. m /\ n - 1 \in 0 .. m + 1 /\ n - 1 <= m
        BY <2>2, <3>2
      <4>2. g[n] = f[n] /\ g[n - 1] = f[n - 1]
        BY <4>1
      <4>. HIDE DEF g
      <4>. QED  BY <2>1, <3>2, <4>1, <4>2
    <3>3. CASE n # 0 /\ ~(n <= m)
      <4>1. n = m + 1 /\ n - 1 = m /\ m \in 0 .. m + 1
        BY <2>2, <3>3
      <4>2. g[n] = G[f[m]] /\ g[m] = f[m]
        BY <2>2, <4>1
      <4>3. f[m] \in S /\ G[f[m]] \in S
        BY <2>1, <2>2
      <4>. HIDE DEF g
      <4>. QED  BY <3>3, <4>1, <4>2, <4>3
    <3>. QED  BY <3>1, <3>2, <3>3
  <2>4. g = [n \in 0 .. m + 1 |-> g[n]] /\ DOMAIN g = 0 .. m + 1
    OBVIOUS
  <2>. HIDE DEF g
  <2>5. Runs(m + 1, g)
    BY <2>3, <2>4
  <2>. HIDE DEF Runs
  <2>6. \E f1 : f1 = [n \in 0 .. m + 1 |-> f1[n]] /\ Runs(m + 1, f1)
    BY <2>4, <2>5
  <2>7. m + 1 \in Nat
    BY <2>2
  <2>. QED  BY <2>6, <2>7
<1>3. k \in T
  <2>. HIDE DEF T
  <2>. QED  BY <1>1, <1>2, NatSetInduction DEF T
<1>4. PICK f : f = [n \in 0 .. k |-> f[n]] /\ Runs(k, f)
  BY <1>3
<1>5. f \in [0 .. k -> S]
  BY <1>4
<1>. QED  BY <1>4, <1>5 DEF Loops

\* It ends in that set.
LEMMA LoopStays ==
  ASSUME NEW S, NEW k \in Nat, NEW g, g[0] \in S,
         \A n \in 1 .. k : g[n - 1] \in S => g[n] \in S
  PROVE  g[k] \in S
<1>. DEFINE T == {n \in Nat : n \in 0 .. k => g[n] \in S}
<1>1. 0 \in T
  OBVIOUS
<1>2. ASSUME NEW n \in T PROVE n + 1 \in T
  <2>. SUFFICES ASSUME n + 1 \in 0 .. k PROVE g[n + 1] \in S
    BY <1>2
  <2>1. n \in 0 .. k /\ n + 1 \in 1 .. k /\ (n + 1) - 1 = n
    BY <1>2
  <2>2. g[n] \in S
    BY <1>2, <2>1
  <2>. QED  BY <2>1, <2>2
<1>. HIDE DEF T
<1>3. T = Nat
  BY <1>1, <1>2, NatSetInduction DEF T
<1>. QED  BY <1>3 DEF T

\* The turns of the two loops
MinTurn(s, up) ==
  IF s.held = <<>> \/ ~ up \subseteq Waiting(s) \/ MinHead(s).sn = MaxSn THEN s
  ELSE IF SnDiff(MinHead(s).sn, s.expected) >= 0 THEN Accept(Pop(s), MinHead(s)) ELSE Forward(Pop(s), MinHead(s))

OrderTurn(s) ==
  IF s.held = <<>> THEN s
  ELSE IF MinHead(s).sn = s.expected THEN StopIfNew(Accept(Pop(s), MinHead(s)), MinHead(s).cid)
  ELSE IF SnDiff(MinHead(s).sn, s.expected) < 0 THEN Forward(Pop(s), MinHead(s))
  ELSE IF MinHead(s).inOrder \/ \E q \in Range(s.held) : q.late THEN Accept(Pop(s), MinHead(s))
  ELSE s

\* The receivers that a call may go through
Course(r, since, route, top, last) == {s \in Receivers : Orderly(s, since, route, top, last) /\ Rests(r, s)}

\* What is held is not behind what is expected.
LEMMA MinNotBehind ==
  ASSUME NEW s, NEW since \in Nat \ {0}, NEW route, NEW top, NEW last \in [Cids -> Int], FewNumbers(top),
         Orderly(s, since, route, top, last), s.held # <<>>
  PROVE  SnDiff(MinHead(s).sn, s.expected) >= 0 /\ ~(SnDiff(MinHead(s).sn, s.expected) < 0)
<1>. DEFINE n == MinHead(s).sn
            e == s.expected
<1>1. n \in e .. top - 1 /\ e \in FirstSn .. top
  <2>1. e \in FirstSn .. top
    BY DEF Orderly
  <2>2. n \in e .. top - 1
    BY TakeMin
  <2>. QED  BY <2>1, <2>2
<1>. HIDE DEF n, e
<1>2. FirstSn \in Nat /\ top \in Nat /\ top - FirstSn < Half /\ Half \in Nat
  BY DataPathAssumption DEF FewNumbers, Half, SnSpace
<1>3. n \in Nat /\ e \in Nat /\ n - e < Half /\ e - n < Half /\ n - e >= 0 /\ ~(n - e < 0)
  BY <1>1, <1>2
<1>4. SnDiff(n, e) = n - e
  BY <1>3, SnDiffIs
<1>. QED  BY <1>3, <1>4 DEF n, e

\* Each turn of either loop keeps the order.
LEMMA TurnsOrderly ==
  ASSUME NEW r, NEW since \in Nat \ {0}, NEW route, NEW top, NEW last \in [Cids -> Int], FewNumbers(top),
         NEW s \in Course(r, since, route, top, last), NEW up
  PROVE  MinTurn(s, up) \in Course(r, since, route, top, last) /\ OrderTurn(s) \in Course(r, since, route, top, last)
<1>1. Orderly(s, since, route, top, last) /\ Rests(r, s) /\ s \in Course(r, since, route, top, last)
  BY DEF Course
<1>2. CASE s.held = <<>>
  BY <1>1, <1>2 DEF MinTurn, OrderTurn
<1>3. CASE s.held # <<>>
  <2>. DEFINE p == MinHead(s)
              t == Accept(Pop(s), p)
  <2>1. p \in Items /\ Orderly(t, since, route, top, last) /\ Rests(s, t)
    BY <1>1, <1>3, TakeMin
  <2>2. t \in Receivers
    BY <2>1 DEF Orderly
  <2>. HIDE DEF t
  <2>3. t \in Course(r, since, route, top, last)
    BY <1>1, <2>1, <2>2 DEF Course, Rests
  <2>4. StopIfNew(t, p.cid) = t
    <3>1. p.cid \in Cids /\ t.newCid = NoCid
      BY <2>1, <2>2 DEF Items, Receivers
    <3>2. p.cid # NoCid
      BY <3>1, CidsAssumption DEF NoCid
    <3>. QED  BY <3>1, <3>2 DEF StopIfNew
  <2>5. SnDiff(p.sn, s.expected) >= 0 /\ ~(SnDiff(p.sn, s.expected) < 0)
    BY <1>1, <1>3, MinNotBehind
  <2>6. MinTurn(s, up) \in {s, t}
    BY <1>3, <2>5 DEF MinTurn, t
  <2>7. OrderTurn(s) \in {s, t}
    BY <1>3, <2>4, <2>5 DEF OrderTurn, t
  <2>. QED  BY <1>1, <2>3, <2>6, <2>7
<1>. QED  BY <1>2, <1>3

\* The loop over the smallest numbers keeps it, whatever links are up.
LEMMA ReleaseMinOrderly ==
  ASSUME NEW r, NEW since \in Nat \ {0}, NEW route, NEW top, NEW last \in [Cids -> Int], FewNumbers(top),
         Orderly(r, since, route, top, last), NEW up
  PROVE  ReleaseMinSnPacket(r, up) \in Course(r, since, route, top, last)
<1>. DEFINE C == Course(r, since, route, top, last)
            k == Len(r.held)
            Next1(x) == CHOOSE s \in {MinTurn(before, up) : before \in {x}} : TRUE
<1>1. r \in C /\ k \in Nat
  <2>1. r \in Receivers
    BY DEF Orderly
  <2>2. r.held \in Seq(Items)
    BY <2>1 DEF Receivers
  <2>. QED  BY <2>1, <2>2 DEF Course, Rests
<1>. HIDE DEF C, k
<1>2. \A x : Next1(x) = MinTurn(x, up)
  OBVIOUS
<1>3. \A x \in C : Next1(x) \in C
  BY <1>2, TurnsOrderly DEF C
<1>. DEFINE G == [x \in C |-> Next1(x)]
            after == CHOOSE f : f = [n \in 0 .. k |-> IF n = 0 THEN r ELSE Next1(f[n - 1])]
<1>4. ReleaseMinSnPacket(r, up) = after[k]
  BY DEF ReleaseMinSnPacket, Loop, MinTurn, k
<1>. HIDE DEF Next1
<1>5. G \in [C -> C]
  BY <1>3
<1>. HIDE DEF G
<1>6. PICK f \in [0 .. k -> C] : \A n \in 0 .. k : f[n] = IF n = 0 THEN r ELSE G[f[n - 1]]
  <2>1. \E f : Loops(C, G, r, k, f)
    BY <1>1, <1>5, LoopRuns
  <2>. QED  BY <2>1 DEF Loops
<1>7. f = [n \in 0 .. k |-> IF n = 0 THEN r ELSE Next1(f[n - 1])]
  <2>1. ASSUME NEW n \in 0 .. k, n # 0 PROVE f[n - 1] \in C
    <3>1. n - 1 \in 0 .. k
      BY <1>1, <2>1
    <3>. QED  BY <1>6, <3>1
  <2>2. \A n \in 0 .. k : n # 0 => G[f[n - 1]] = Next1(f[n - 1])
    BY <2>1 DEF G
  <2>3. \A n \in 0 .. k : f[n] = IF n = 0 THEN r ELSE Next1(f[n - 1])
    BY <1>6, <2>2
  <2>4. f = [n \in 0 .. k |-> f[n]]
    BY <1>6
  <2>. QED  BY <2>3, <2>4
<1>8. after = [n \in 0 .. k |-> IF n = 0 THEN r ELSE Next1(after[n - 1])]
  BY <1>7
<1>. HIDE DEF after
<1>9. after[0] \in C /\ \A n \in 1 .. k : after[n - 1] \in C => after[n] \in C
  <2>1. \A n \in 0 .. k : after[n] = IF n = 0 THEN r ELSE Next1(after[n - 1])
    BY <1>8
  <2>2. after[0] = r
    BY <1>1, <2>1
  <2>3. \A n \in 1 .. k : after[n] = Next1(after[n - 1])
    BY <1>1, <2>1
  <2>. QED  BY <1>1, <1>3, <2>2, <2>3
<1>10. after[k] \in C
  BY <1>1, <1>9, LoopStays
<1>. QED  BY <1>4, <1>10 DEF C

\* So does the loop over what needs not wait.
LEMMA ReleaseInOrderOrderly ==
  ASSUME NEW r, NEW since \in Nat \ {0}, NEW route, NEW top, NEW last \in [Cids -> Int], FewNumbers(top),
         Orderly(r, since, route, top, last)
  PROVE  ReleaseInOrderPackets(r) \in Course(r, since, route, top, last)
<1>. DEFINE C == Course(r, since, route, top, last)
            k == Len(r.held)
            Next1(x) == CHOOSE s \in {OrderTurn(before) : before \in {x}} : TRUE
<1>1. r \in C /\ k \in Nat
  <2>1. r \in Receivers
    BY DEF Orderly
  <2>2. r.held \in Seq(Items)
    BY <2>1 DEF Receivers
  <2>. QED  BY <2>1, <2>2 DEF Course, Rests
<1>. HIDE DEF C, k
<1>2. \A x : Next1(x) = OrderTurn(x)
  OBVIOUS
<1>3. \A x \in C : Next1(x) \in C
  BY <1>2, TurnsOrderly DEF C
<1>. DEFINE G == [x \in C |-> Next1(x)]
            after == CHOOSE f : f = [n \in 0 .. k |-> IF n = 0 THEN r ELSE Next1(f[n - 1])]
<1>4. ReleaseInOrderPackets(r) = Arm(after[k])
  BY DEF ReleaseInOrderPackets, Loop, OrderTurn, k
<1>. HIDE DEF Next1
<1>5. G \in [C -> C]
  BY <1>3
<1>. HIDE DEF G
<1>6. PICK f \in [0 .. k -> C] : \A n \in 0 .. k : f[n] = IF n = 0 THEN r ELSE G[f[n - 1]]
  <2>1. \E f : Loops(C, G, r, k, f)
    BY <1>1, <1>5, LoopRuns
  <2>. QED  BY <2>1 DEF Loops
<1>7. f = [n \in 0 .. k |-> IF n = 0 THEN r ELSE Next1(f[n - 1])]
  <2>1. ASSUME NEW n \in 0 .. k, n # 0 PROVE f[n - 1] \in C
    <3>1. n - 1 \in 0 .. k
      BY <1>1, <2>1
    <3>. QED  BY <1>6, <3>1
  <2>2. \A n \in 0 .. k : n # 0 => G[f[n - 1]] = Next1(f[n - 1])
    BY <2>1 DEF G
  <2>3. \A n \in 0 .. k : f[n] = IF n = 0 THEN r ELSE Next1(f[n - 1])
    BY <1>6, <2>2
  <2>4. f = [n \in 0 .. k |-> f[n]]
    BY <1>6
  <2>. QED  BY <2>3, <2>4
<1>8. after = [n \in 0 .. k |-> IF n = 0 THEN r ELSE Next1(after[n - 1])]
  BY <1>7
<1>. HIDE DEF after
<1>9. after[0] \in C /\ \A n \in 1 .. k : after[n - 1] \in C => after[n] \in C
  <2>1. \A n \in 0 .. k : after[n] = IF n = 0 THEN r ELSE Next1(after[n - 1])
    BY <1>8
  <2>2. after[0] = r
    BY <1>1, <2>1
  <2>3. \A n \in 1 .. k : after[n] = Next1(after[n - 1])
    BY <1>1, <2>1
  <2>. QED  BY <1>1, <1>3, <2>2, <2>3
<1>10. after[k] \in C
  BY <1>1, <1>9, LoopStays
<1>11. ASSUME NEW s \in C PROVE Arm(s) \in C
  <2>1. s \in Receivers /\ Orderly(s, since, route, top, last) /\ Rests(r, s)
    BY <1>11 DEF C, Course
  <2>2. /\ Arm(s) \in Receivers /\ Arm(s).held = s.held /\ Arm(s).out = s.out
        /\ Arm(s).expected = s.expected /\ Rests(r, Arm(s))
    BY <2>1 DEF Arm, Receivers, Rests
  <2>3. Orderly(Arm(s), since, route, top, last)
    BY <2>1, <2>2 DEF Orderly
  <2>. QED  BY <2>2, <2>3 DEF C, Course
<1>. QED  BY <1>4, <1>10, <1>11 DEF C

\* A packet that comes over link c, the next one of those not lost
Arrives(p, route, top, last) ==
  /\ p.cid \in Cids /\ p.sn \in FirstSn .. top - 1 /\ route[p.sn] = p.cid /\ last[p.cid] < p.sn

\* It is not held yet.
LEMMA NotHeld ==
  ASSUME NEW r, NEW since, NEW route, NEW top, NEW last \in [Cids -> Int],
         Orderly(r, since, route, top, last), NEW p, Arrives(p, route, top, last), NEW i \in 1 .. Len(r.held)
  PROVE  /\ r.held[i].sn # p.sn
         /\ r.held[i].cid = p.cid => r.held[i].sn < p.sn
         /\ r.held[i].sn <= [last EXCEPT ![p.cid] = p.sn][r.held[i].cid]
<1>. DEFINE h == r.held[i]
<1>1. h \in Items
  <2>1. r.held \in Seq(Items)
    BY DEF Orderly, Receivers
  <2>. QED  BY <2>1
<1>2. route[h.sn] = h.cid /\ h.sn <= last[h.cid] /\ h.sn \in Nat /\ h.cid \in Cids
  BY <1>1 DEF Orderly, Items
<1>. HIDE DEF h
<1>3. p.cid \in Cids /\ p.sn \in Int /\ route[p.sn] = p.cid /\ last[p.cid] < p.sn /\ last[p.cid] \in Int
  BY DEF Arrives
<1>4. h.cid = p.cid => h.sn < p.sn
  BY <1>2, <1>3
<1>5. h.sn # p.sn
  <2>. SUFFICES ASSUME h.sn = p.sn PROVE FALSE
    OBVIOUS
  <2>. QED  BY <1>2, <1>3, <1>4
<1>6. h.sn <= [last EXCEPT ![p.cid] = p.sn][h.cid]
  BY <1>2, <1>3, <1>4
<1>. QED  BY <1>4, <1>5, <1>6 DEF h

\* It is forwarded at once: all that is held comes after it.
LEMMA AcceptOrderly ==
  ASSUME NEW r, NEW since \in Nat \ {0}, NEW route, NEW top, NEW last \in [Cids -> Int], FewNumbers(top),
         Orderly(r, since, route, top, last), NEW p, Arrives(p, route, top, last), r.expected <= p.sn,
         \A i \in 1 .. Len(r.held) : r.held[i].sn > p.sn
  PROVE  LET t == Accept(r, p)
         IN  Orderly(t, since, route, top, [last EXCEPT ![p.cid] = p.sn]) /\ Rests(r, t) /\ t.newCid = NoCid
<1>. DEFINE t == Accept(r, p)
            later == [last EXCEPT ![p.cid] = p.sn]
<1>1. r \in Receivers /\ r.out \in Seq(Nat) /\ InLines(r.held) /\ r.held \in Seq(Items) /\ r.expected \in FirstSn .. top
  <2>1. r \in Receivers /\ InLines(r.held) /\ r.expected \in FirstSn .. top
    BY DEF Orderly
  <2>. QED  BY <2>1 DEF Receivers
<1>2. /\ FirstSn \in Nat /\ top \in Nat /\ top <= MaxSn /\ MaxSn \in Nat
      /\ p.sn \in FirstSn .. top - 1 /\ p.cid \in Cids
  BY DataPathAssumption DEF FewNumbers, Arrives, MaxSn, SnSpace
<1>3. Succ(p.sn) = p.sn + 1 /\ p.sn \in Nat
  BY <1>2, SuccIs
<1>4. t = [r EXCEPT !.out = Append(@, p.sn), !.expected = p.sn + 1]
  BY <1>1, <1>3 DEF Accept, Forward, Receivers
<1>. HIDE DEF t
<1>5. /\ t.held = r.held /\ t.out = Append(r.out, p.sn) /\ t.expected = p.sn + 1 /\ Rests(r, t)
      /\ t.newCid = NoCid
  BY <1>1, <1>4 DEF Receivers, Rests
<1>6. t \in Receivers
  <2>1. p.sn + 1 \in Nat /\ Append(r.out, p.sn) \in Seq(Nat)
    BY <1>1, <1>3
  <2>. QED  BY <1>1, <1>4, <2>1 DEF Receivers
<1>7. \A i \in 1 .. Len(r.held) : r.held[i].sn <= later[r.held[i].cid]
  BY NotHeld
<1>8. ASSUME NEW i \in 1 .. Len(r.held)
      PROVE  r.held[i].sn \in p.sn + 1 .. top - 1 /\ route[r.held[i].sn] = r.held[i].cid
  <2>1. r.held[i].sn \in r.expected .. top - 1 /\ route[r.held[i].sn] = r.held[i].cid
    BY DEF Orderly
  <2>. QED  BY <1>1, <1>2, <2>1
<1>9. ASSUME NEW c \in Cids
      PROVE  later[c] < p.sn + 1 \/ \E i \in 1 .. Len(r.held) : r.held[i].cid = c /\ r.held[i].sn = later[c]
  <2>1. CASE c = p.cid
    <3>1. later[c] = p.sn
      BY <2>1
    <3>. HIDE DEF later
    <3>. QED  BY <1>3, <3>1
  <2>2. CASE c # p.cid
    <3>1. later[c] = last[c] /\ last[c] \in Int
      BY <2>2
    <3>2. last[c] < r.expected \/ \E i \in 1 .. Len(r.held) : r.held[i].cid = c /\ r.held[i].sn = last[c]
      BY DEF Orderly
    <3>. HIDE DEF later
    <3>. QED  BY <1>1, <1>2, <1>3, <3>1, <3>2
  <2>. QED  BY <2>1, <2>2
<1>. HIDE DEF later
<1>10. /\ \A i \in since .. Len(t.out) : t.out[i] \in FirstSn .. p.sn
       /\ \A i, j \in since .. Len(t.out) : i < j => t.out[i] < t.out[j]
  <2>1. /\ \A i \in since .. Len(r.out) : r.out[i] \in FirstSn .. r.expected - 1
        /\ \A i, j \in since .. Len(r.out) : i < j => r.out[i] < r.out[j]
    BY DEF Orderly
  <2>2. r.expected \in Nat /\ r.expected <= p.sn /\ FirstSn <= p.sn
    BY <1>1, <1>2
  <2>. QED  BY <1>1, <1>2, <1>3, <1>5, <2>1, <2>2, OutGrows
<1>11. (p.sn + 1) - 1 = p.sn /\ p.sn + 1 \in FirstSn .. top
  BY <1>2, <1>3
<1>12. Orderly(t, since, route, top, later)
  BY <1>1, <1>5, <1>6, <1>7, <1>8, <1>9, <1>10, <1>11 DEF Orderly, InLines
<1>. QED  BY <1>5, <1>12 DEF t, later

\* It is held.
LEMMA HoldOrderly ==
  ASSUME NEW r, NEW since \in Nat \ {0}, NEW route, NEW top, NEW last \in [Cids -> Int], FewNumbers(top),
         Orderly(r, since, route, top, last), NEW p, Arrives(p, route, top, last), r.expected <= p.sn,
         NEW inOrder \in BOOLEAN
  PROVE  LET t == Hold(r, p, inOrder)
         IN  Orderly(t, since, route, top, [last EXCEPT ![p.cid] = p.sn]) /\ Rests(r, t) /\ t.newCid = NoCid
<1>. DEFINE h == [sn |-> p.sn, cid |-> p.cid, inOrder |-> inOrder, late |-> FALSE]
            t == Hold(r, p, inOrder)
            q == r.held
            v == Append(q, h)
            later == [last EXCEPT ![p.cid] = p.sn]
<1>1. r \in Receivers /\ InLines(q) /\ q \in Seq(Items) /\ r.expected \in FirstSn .. top /\ Len(q) \in Nat
  <2>1. r \in Receivers /\ InLines(q) /\ r.expected \in FirstSn .. top
    BY DEF Orderly
  <2>2. q \in Seq(Items)
    BY <2>1 DEF Receivers
  <2>. QED  BY <2>1, <2>2
<1>2. /\ FirstSn \in Nat /\ top \in Nat /\ p.sn \in FirstSn .. top - 1 /\ p.cid \in Cids
      /\ route[p.sn] = p.cid /\ p.sn \in Nat
  BY DataPathAssumption DEF FewNumbers, Arrives
<1>3. h \in Items /\ h.sn = p.sn /\ h.cid = p.cid
  BY <1>2 DEF Items
<1>4. t = [r EXCEPT !.held = v]
  BY DEF Hold
<1>. HIDE DEF h, t
<1>5. v \in Seq(Items) /\ Len(v) = Len(q) + 1 /\ v[Len(q) + 1] = h /\ \A i \in 1 .. Len(q) : v[i] = q[i]
  BY <1>1, <1>3
<1>. HIDE DEF v
<1>6. /\ t.held = v /\ t.out = r.out /\ t.expected = r.expected /\ Rests(r, t) /\ t.newCid = NoCid
      /\ t \in Receivers
  BY <1>1, <1>4, <1>5 DEF Receivers, Rests
<1>7. ASSUME NEW i \in 1 .. Len(v)
      PROVE  (i = Len(v) /\ v[i] = h) \/ (i \in 1 .. Len(q) /\ v[i] = q[i])
  <2>1. i = Len(q) + 1 \/ i \in 1 .. Len(q)
    BY <1>1, <1>5
  <2>. QED  BY <1>5, <2>1
<1>8. later[p.cid] = p.sn
  BY <1>2
<1>9. ASSUME NEW i \in 1 .. Len(v)
      PROVE  v[i].sn \in r.expected .. top - 1 /\ route[v[i].sn] = v[i].cid /\ v[i].sn <= later[v[i].cid]
  <2>1. CASE v[i] = h
    <3>. HIDE DEF later
    <3>. QED  BY <1>1, <1>2, <1>3, <1>8, <2>1
  <2>2. CASE i \in 1 .. Len(q) /\ v[i] = q[i]
    <3>1. q[i].sn <= later[q[i].cid]
      BY <2>2, NotHeld
    <3>. HIDE DEF later
    <3>. QED  BY <2>2, <3>1 DEF Orderly
  <2>. QED  BY <1>7, <2>1, <2>2
<1>10. ASSUME NEW i \in 1 .. Len(v), NEW j \in 1 .. Len(v), i < j, v[i].cid = v[j].cid
       PROVE  v[i].sn < v[j].sn
  <2>1. i \in 1 .. Len(q) /\ v[i] = q[i]
    BY <1>1, <1>5, <1>7, <1>10
  <2>2. CASE v[j] = h
    <3>1. q[i].cid = p.cid => q[i].sn < p.sn
      BY <2>1, NotHeld
    <3>. QED  BY <1>3, <1>10, <2>1, <2>2, <3>1
  <2>3. CASE j \in 1 .. Len(q) /\ v[j] = q[j]
    BY <1>1, <1>10, <2>1, <2>3 DEF InLines
  <2>. QED  BY <1>7, <2>2, <2>3
<1>11. ASSUME NEW c \in Cids
       PROVE  later[c] < r.expected \/ \E i \in 1 .. Len(v) : v[i].cid = c /\ v[i].sn = later[c]
  <2>1. CASE c = p.cid
    <3>1. Len(q) + 1 \in 1 .. Len(v)
      BY <1>1, <1>5
    <3>. HIDE DEF later
    <3>. QED  BY <1>3, <1>5, <1>8, <2>1, <3>1
  <2>2. CASE c # p.cid
    <3>1. later[c] = last[c]
      BY <2>2
    <3>2. last[c] < r.expected \/ \E i \in 1 .. Len(q) : q[i].cid = c /\ q[i].sn = last[c]
      BY DEF Orderly
    <3>3. \A i \in 1 .. Len(q) : i \in 1 .. Len(v)
      BY <1>1, <1>5
    <3>. HIDE DEF later
    <3>. QED  BY <1>5, <3>1, <3>2, <3>3
  <2>. QED  BY <2>1, <2>2
<1>. HIDE DEF later
<1>12. Orderly(t, since, route, top, later)
  BY <1>1, <1>6, <1>9, <1>10, <1>11 DEF Orderly, InLines
<1>. QED  BY <1>6, <1>12 DEF t, later

\* Outside of steer mode no link is new.
LEMMA NoNewLink ==
  ASSUME NEW s \in Receivers, NEW c \in Cids
  PROVE  StopIfNew(s, c) = s /\ s.newCid # c /\ [s EXCEPT !.stopTimer = s.stopTimer \/ s.newCid = c] = s
<1>1. s.newCid = NoCid /\ s.stopTimer = FALSE
  BY DEF Receivers
<1>2. c # NoCid
  BY CidsAssumption DEF NoCid
<1>3. [s EXCEPT !.stopTimer = FALSE] = s
  BY <1>1 DEF Receivers
<1>4. (s.stopTimer \/ s.newCid = c) = FALSE
  BY <1>1, <1>2
<1>. QED  BY <1>1, <1>2, <1>3, <1>4 DEF StopIfNew

\* A packet that comes over link c while the reordering is on: a call of InOrderDelivery
LEMMA DeliverOrderly ==
  ASSUME NEW r, NEW since \in Nat \ {0}, NEW route, NEW top, NEW last \in [Cids -> Int], FewNumbers(top),
         Orderly(r, since, route, top, last), NEW p, Arrives(p, route, top, last), NEW up,
         OnlyLosses(r, p) => \A n \in last[p.cid] + 1 .. p.sn - 1 : route[n] = p.cid
  PROVE  Orderly(Deliver(r, p, up), since, route, top, [last EXCEPT ![p.cid] = p.sn]) /\ Rests(r, Deliver(r, p, up))
<1>. DEFINE later == [last EXCEPT ![p.cid] = p.sn]
            t == Accept(r, p)
            Good(s) == Orderly(s, since, route, top, later) /\ Rests(r, s)
<1>1. r \in Receivers /\ r.held \in Seq(Items) /\ r.expected \in FirstSn .. top
  <2>1. r \in Receivers /\ r.expected \in FirstSn .. top
    BY DEF Orderly
  <2>. QED  BY <2>1 DEF Receivers
<1>2. /\ FirstSn \in Nat /\ top \in Nat /\ p.sn \in FirstSn .. top - 1 /\ p.cid \in Cids
      /\ route[p.sn] = p.cid /\ last[p.cid] < p.sn /\ last[p.cid] \in Int
  BY DataPathAssumption DEF FewNumbers, Arrives
<1>3. later \in [Cids -> Int]
  BY <1>2
<1>4. r.expected \in Nat /\ p.sn \in Nat /\ SnDiff(p.sn, r.expected) = p.sn - r.expected
  <2>1. top - FirstSn < Half /\ Half \in Nat
    BY DEF FewNumbers, Half, SnSpace
  <2>2. r.expected \in Nat /\ p.sn \in Nat
    BY <1>1, <1>2
  <2>3. p.sn - r.expected < Half /\ r.expected - p.sn < Half
    BY <1>1, <1>2, <2>1, <2>2
  <2>. QED  BY <2>2, <2>3, SnDiffIs
<1>5. ASSUME NEW s, Good(s)
      PROVE  Good(ReleaseInOrderPackets(s)) /\ Good(ReleaseMinSnPacket(s, up)) /\ Good(StopIfNew(s, p.cid))
  <2>1. ReleaseInOrderPackets(s) \in Course(s, since, route, top, later)
    BY <1>3, <1>5, ReleaseInOrderOrderly
  <2>2. ReleaseMinSnPacket(s, up) \in Course(s, since, route, top, later)
    BY <1>3, <1>5, ReleaseMinOrderly
  <2>3. StopIfNew(s, p.cid) = s
    BY <1>2, <1>5, NoNewLink DEF Orderly
  <2>. QED  BY <1>5, <2>1, <2>2, <2>3 DEF Course, Rests
<1>6. ASSUME r.expected <= p.sn, \A i \in 1 .. Len(r.held) : r.held[i].sn > p.sn
      PROVE  Good(StopIfNew(ReleaseInOrderPackets(t), p.cid))
  <2>1. Good(t)
    BY <1>6, AcceptOrderly
  <2>. HIDE DEF Good, t
  <2>. QED  BY <1>5, <2>1
<1>7. CASE p.sn = r.expected
  <2>1. ASSUME NEW i \in 1 .. Len(r.held)
        PROVE  r.held[i].sn > p.sn
    <3>1. r.held[i].sn # p.sn
      BY NotHeld
    <3>2. r.held[i].sn \in r.expected .. top - 1
      BY DEF Orderly
    <3>. QED  BY <1>2, <1>4, <1>7, <3>1, <3>2
  <2>2. r.expected <= p.sn
    BY <1>4, <1>7
  <2>3. Deliver(r, p, up) = StopIfNew(ReleaseInOrderPackets(t), p.cid)
    BY <1>7 DEF Deliver
  <2>. QED  BY <1>6, <2>1, <2>2, <2>3
<1>8. CASE p.sn < r.expected
  <2>1. p.sn # r.expected /\ SnDiff(p.sn, r.expected) < 0
    BY <1>4, <1>8
  <2>2. Deliver(r, p, up) = r
    BY <2>1 DEF Deliver
  <2>3. \A i \in 1 .. Len(r.held) : r.held[i].sn <= later[r.held[i].cid]
    BY NotHeld
  <2>4. ASSUME NEW c \in Cids
        PROVE  later[c] < r.expected \/ \E i \in 1 .. Len(r.held) : r.held[i].cid = c /\ r.held[i].sn = later[c]
    <3>1. CASE c = p.cid
      BY <1>8, <3>1
    <3>2. CASE c # p.cid
      <4>1. later[c] = last[c]
        BY <3>2
      <4>. HIDE DEF later
      <4>. QED  BY <4>1 DEF Orderly
    <3>. QED  BY <3>1, <3>2
  <2>. HIDE DEF later
  <2>5. Orderly(r, since, route, top, later)
    BY <2>3, <2>4 DEF Orderly
  <2>. QED  BY <2>2, <2>5 DEF Rests, later
<1>9. CASE p.sn > r.expected
  <2>1. p.sn # r.expected /\ ~(SnDiff(p.sn, r.expected) < 0) /\ r.expected <= p.sn
    BY <1>4, <1>9
  <2>2. Deliver(r, p, up) = ReleaseInOrderPackets(ReleaseMinSnPacket(OutOfOrder(r, p), up))
    BY <2>1 DEF Deliver
  <2>3. ASSUME NEW inOrder \in BOOLEAN
        PROVE  Good(Hold(r, p, inOrder))
    BY <2>1, HoldOrderly
  <2>4. CASE ~OnlyLosses(r, p)
    <3>1. [r EXCEPT !.stopTimer = r.stopTimer \/ r.newCid = p.cid] = r
      BY <1>1, <1>2, NoNewLink
    <3>2. OutOfOrder(r, p) = Hold([r EXCEPT !.stopTimer = r.stopTimer \/ r.newCid = p.cid], p, FALSE)
      BY <2>4 DEF OutOfOrder
    <3>3. OutOfOrder(r, p) = Hold(r, p, FALSE)
      BY <3>1, <3>2
    <3>4. Good(OutOfOrder(r, p))
      BY <2>3, <3>3
    <3>. HIDE DEF Good
    <3>6. Good(Deliver(r, p, up))
      BY <1>5, <2>2, <3>4
    <3>. QED  BY <3>6 DEF Good
  <2>5. CASE OnlyLosses(r, p) /\ p.cid \in Waiting(r)
    <3>1. OutOfOrder(r, p) = Hold(r, p, TRUE)
      BY <2>5 DEF OutOfOrder
    <3>2. Good(OutOfOrder(r, p))
      BY <2>3, <3>1
    <3>. HIDE DEF Good
    <3>6. Good(Deliver(r, p, up))
      BY <1>5, <2>2, <3>2
    <3>. QED  BY <3>6 DEF Good
  <2>6. CASE OnlyLosses(r, p) /\ p.cid \notin Waiting(r)
    <3>1. OutOfOrder(r, p) = StopIfNew(ReleaseInOrderPackets(t), p.cid)
      BY <2>6 DEF OutOfOrder
    <3>2. \A i \in 1 .. Len(r.held) : r.held[i].cid # p.cid
      <4>1. DOMAIN r.held = 1 .. Len(r.held)
        BY <1>1
      <4>. QED  BY <2>6, <4>1 DEF Waiting
    <3>3. last[p.cid] < r.expected
      BY <1>2, <3>2 DEF Orderly
    <3>4. ASSUME NEW i \in 1 .. Len(r.held)
          PROVE  r.held[i].sn > p.sn
      <4>1. r.held[i].sn \in r.expected .. top - 1 /\ route[r.held[i].sn] = r.held[i].cid
        BY DEF Orderly
      <4>2. r.held[i].cid # p.cid
        BY <3>2
      <4>3. r.held[i].sn \notin last[p.cid] + 1 .. p.sn - 1
        BY <2>6, <4>1, <4>2
      <4>4. r.held[i].sn # p.sn
        BY <1>2, <4>1, <4>2
      <4>5. /\ r.held[i].sn \in Int /\ p.sn \in Int /\ last[p.cid] \in Int
            /\ last[p.cid] < r.held[i].sn
        BY <1>2, <1>4, <3>3, <4>1
      <4>. QED  BY <4>3, <4>4, <4>5
    <3>5. Good(OutOfOrder(r, p))
      BY <1>6, <2>1, <3>1, <3>4
    <3>. HIDE DEF Good
    <3>6. Good(Deliver(r, p, up))
      BY <1>5, <2>2, <3>5
    <3>. QED  BY <3>6 DEF Good
  <2>. QED  BY <2>4, <2>5, <2>6
<1>. QED  BY <1>4, <1>7, <1>8, <1>9


\* The receiver t after the delivery of packet p to r
Delivered(r, t, p, since, route, top, last) ==
  /\ Orderly(t, since, route, top, [last EXCEPT ![p.cid] = p.sn])
  /\ t.on = r.on /\ t.useLsn = r.useLsn
  /\ t.lastSn = [r.lastSn EXCEPT ![p.cid] = p.sn] /\ t.lastLsn = [r.lastLsn EXCEPT ![p.cid] = p.lsn]

\* When the numbers of the link tell that only its own packets are missing, it is so.
SeesLosses(r, p, route, last) ==
  OnlyLosses(r, p) => \A n \in last[p.cid] + 1 .. p.sn - 1 : route[n] = p.cid

\* The delivery of a packet keeps the order, and the link has then seen it.
LEMMA DeliveryOrderly ==
  ASSUME NEW r, NEW since \in Nat \ {0}, NEW route, NEW top, NEW last \in [Cids -> Int], FewNumbers(top),
         Orderly(r, since, route, top, last), NEW p, Arrives(p, route, top, last), p.lsn \in 0 .. LsnSpace - 1, NEW up,
         SeesLosses(r, p, route, last)
  PROVE  Delivered(r, InOrderDelivery(r, p, up), p, since, route, top, last)
<1>. DEFINE d == Deliver(r, p, up)
            t == InOrderDelivery(r, p, up)
            later == [last EXCEPT ![p.cid] = p.sn]
<1>1. Orderly(d, since, route, top, later) /\ Rests(r, d) /\ d \in Receivers
  <2>1. Orderly(d, since, route, top, later) /\ Rests(r, d)
    BY DeliverOrderly DEF SeesLosses
  <2>. HIDE DEF d, later
  <2>. QED  BY <2>1 DEF Orderly
<1>2. t = [d EXCEPT !.lastSn[p.cid] = p.sn, !.lastLsn[p.cid] = p.lsn]
  BY DEF InOrderDelivery
<1>. HIDE DEF d, t, later
<1>3. p.cid \in Cids /\ p.sn \in Nat
  BY DataPathAssumption DEF Arrives, FewNumbers
<1>4. /\ t.held = d.held /\ t.out = d.out /\ t.expected = d.expected /\ t.on = d.on /\ t.useLsn = d.useLsn
      /\ t.lastSn = [d.lastSn EXCEPT ![p.cid] = p.sn] /\ t.lastLsn = [d.lastLsn EXCEPT ![p.cid] = p.lsn]
      /\ t \in Receivers
  BY <1>1, <1>2, <1>3 DEF Receivers
<1>5. Orderly(t, since, route, top, later)
  BY <1>1, <1>4 DEF Orderly
<1>. QED  BY <1>1, <1>4, <1>5 DEF t, later, Rests, Delivered

\* How many of the numbers from a to b - 1 went over link c
Over(route, c, a, b) == {n \in a .. b - 1 : route[n] = c}

NumberOver(route, c, b) == Cardinality(Over(route, c, FirstSn, b))

\* They are finitely many, and all of them if they are as many as there can be.
LEMMA OverFinite ==
  ASSUME NEW route, NEW c, NEW a \in Int, NEW b \in Int
  PROVE  /\ IsFiniteSet(Over(route, c, a, b)) /\ Cardinality(Over(route, c, a, b)) \in Nat
         /\ a <= b => /\ Cardinality(Over(route, c, a, b)) <= b - a
                      /\ Cardinality(Over(route, c, a, b)) = b - a => \A n \in a .. b - 1 : route[n] = c
<1>. DEFINE S == Over(route, c, a, b)
<1>1. PICK m \in Int : m = b - 1
  OBVIOUS
<1>2. IsFiniteSet(a .. m) /\ Cardinality(a .. m) = IF a > m THEN 0 ELSE m - a + 1
  BY FS_Interval
<1>3. S \in SUBSET (a .. m)
  BY <1>1 DEF Over
<1>. HIDE DEF S
<1>4. /\ IsFiniteSet(S) /\ Cardinality(S) <= Cardinality(a .. m)
      /\ Cardinality(S) = Cardinality(a .. m) => S = a .. m
  BY <1>2, <1>3, FS_Subset
<1>5. Cardinality(S) \in Nat
  BY <1>4, FS_CardinalityType
<1>6. a <= b => Cardinality(a .. m) = b - a
  BY <1>1, <1>2
<1>7. S = a .. m => \A n \in a .. b - 1 : route[n] = c
  BY <1>1 DEF S, Over
<1>. QED  BY <1>4, <1>5, <1>6, <1>7 DEF S

\* Those below a and those from a on
LEMMA NumberSplits ==
  ASSUME NEW route, NEW c, NEW a \in Int, NEW b \in Int, FirstSn <= a, a <= b
  PROVE  NumberOver(route, c, b) = NumberOver(route, c, a) + Cardinality(Over(route, c, a, b))
<1>. DEFINE S == Over(route, c, FirstSn, a)
            T == Over(route, c, a, b)
<1>1. FirstSn \in Int
  BY DataPathAssumption
<1>2. S \cap T = {} /\ S \cup T = Over(route, c, FirstSn, b)
  BY <1>1 DEF Over
<1>3. IsFiniteSet(S) /\ IsFiniteSet(T)
  BY <1>1, OverFinite
<1>. HIDE DEF S, T
<1>4. Cardinality(S \cup T) = Cardinality(S) + Cardinality(T)
  <2>1. Cardinality(S) \in Nat /\ Cardinality(T) \in Nat
    BY <1>3, FS_CardinalityType
  <2>2. Cardinality(S \cup T) = Cardinality(S) + Cardinality(T) - Cardinality({})
    BY <1>2, <1>3, FS_Union
  <2>. QED  BY <2>1, <2>2, FS_EmptySet
<1>. QED  BY <1>2, <1>4 DEF NumberOver, S, T

\* One more number
LEMMA NumberNext ==
  ASSUME NEW route, NEW c, NEW a \in Int, FirstSn <= a
  PROVE  /\ NumberOver(route, c, a) \in Nat /\ NumberOver(route, c, FirstSn) = 0
         /\ NumberOver(route, c, a + 1) = NumberOver(route, c, a) + IF route[a] = c THEN 1 ELSE 0
<1>1. FirstSn \in Int
  BY DataPathAssumption
<1>2. NumberOver(route, c, a) \in Nat
  BY <1>1, OverFinite DEF NumberOver
<1>3. NumberOver(route, c, FirstSn) = 0
  <2>1. Over(route, c, FirstSn, FirstSn) = {}
    BY <1>1 DEF Over
  <2>. QED  BY <2>1, FS_EmptySet DEF NumberOver
<1>4. Over(route, c, a, a + 1) = IF route[a] = c THEN {a} ELSE {}
  BY DEF Over
<1>5. Cardinality(Over(route, c, a, a + 1)) = IF route[a] = c THEN 1 ELSE 0
  BY <1>4, FS_EmptySet, FS_Singleton
<1>6. NumberOver(route, c, a + 1) = NumberOver(route, c, a) + Cardinality(Over(route, c, a, a + 1))
  BY NumberSplits
<1>. QED  BY <1>2, <1>3, <1>5, <1>6

\* They depend on the links of those numbers only.
LEMMA SameNumber ==
  ASSUME NEW route, NEW other, NEW c, NEW a \in Int, \A n \in FirstSn .. a - 1 : route[n] = other[n]
  PROVE  NumberOver(route, c, a) = NumberOver(other, c, a)
<1>1. Over(route, c, FirstSn, a) = Over(other, c, FirstSn, a)
  BY DEF Over
<1>. QED  BY <1>1 DEF NumberOver

\* Numbers of a link are counted in its space.
LsnOf(k) == (FirstLsn + k) % LsnSpace

\* A link on which m numbers follow number k, of d of the flow, shows a gap of d only if d is m.
LEMMA LsnGap ==
  ASSUME NEW k \in Nat, NEW m \in Nat, m >= 1, NEW d \in Nat, m <= d,
         LsnDiff(LsnOf(k + m - 1), LsnOf(k + LsnSpace - 1)) = d
  PROVE  m = d
<1>1. LsnSpace = 256 /\ LsnSpace \div 2 = 128 /\ FirstLsn \in Nat
  BY DataPathAssumption DEF LsnSpace
<1>2. PICK x \in Nat : x = FirstLsn + k + 255
  BY <1>1
<1>3. PICK a \in 0 .. 255 : a = x % 256
  OBVIOUS
<1>4. LsnOf(k + LsnSpace - 1) = a
  <2>1. FirstLsn + (k + LsnSpace - 1) = x
    BY <1>1, <1>2
  <2>. QED  BY <1>1, <1>3, <2>1 DEF LsnOf
<1>5. LsnOf(k + m - 1) \in 0 .. 255 /\ LsnOf(k + m - 1) = (x + m) % 256
  <2>1. FirstLsn + (k + m - 1) = x + m - 256 /\ FirstLsn + (k + m - 1) \in Nat
    BY <1>1, <1>2
  <2>2. (x + m - 256) % 256 = (x + m) % 256
    OBVIOUS
  <2>. QED  BY <1>1, <2>1, <2>2 DEF LsnOf
<1>. DEFINE b == LsnOf(k + m - 1)
<1>. HIDE DEF b
<1>6. LsnDiff(b, a) = IF b - a > 128 THEN b - a - 256 ELSE IF b - a < -128 THEN b - a + 256 ELSE b - a
  BY <1>1 DEF LsnDiff, SerialDiff
<1>7. b \in 0 .. 255 /\ LsnDiff(b, a) = d
  BY <1>4, <1>5 DEF b
<1>8. d <= 128 /\ m <= 128
  BY <1>6, <1>7
<1>9. b = IF a + m < 256 THEN a + m ELSE a + m - 256
  <2>1. (x + m) % 256 = IF (x % 256) + m < 256 THEN (x % 256) + m ELSE (x % 256) + m - 256
    BY <1>8
  <2>. QED  BY <1>3, <1>5, <2>1 DEF b
<1>. QED  BY <1>6, <1>7, <1>8, <1>9

\* What the receiver remembers of the last packet over each link
Lasts(r, route, last) ==
  \A c \in Cids : /\ r.lastSn[c] = IF last[c] = -1 THEN MaxSn ELSE last[c]
                  /\ r.lastLsn[c] = LsnOf(NumberOver(route, c, last[c] + 1) + LsnSpace - 1)

\* When the numbers of the link and of the flow have grown alike, all packets missing went over
\* that link.
LEMMA OnlyLossesIs ==
  ASSUME NEW r, NEW route, NEW top, FewNumbers(top), NEW last \in [Cids -> FirstSn - 1 .. top - 1],
         Lasts(r, route, last), NEW p, Arrives(p, route, top, last),
         p.lsn = LsnOf(NumberOver(route, p.cid, p.sn))
  PROVE  SeesLosses(r, p, route, last)
<1>. SUFFICES ASSUME OnlyLosses(r, p)
              PROVE  \A n \in last[p.cid] + 1 .. p.sn - 1 : route[n] = p.cid
  BY DEF SeesLosses
<1>. DEFINE c == p.cid
            N(n) == NumberOver(route, c, n)
            x == Cardinality(Over(route, c, last[c] + 1, p.sn))
<1>1. /\ FirstSn \in Nat /\ top \in Nat /\ p.sn \in FirstSn .. top - 1 /\ c \in Cids
      /\ last[c] < p.sn /\ last[c] \in FirstSn - 1 .. top - 1 /\ top - FirstSn < Half /\ top <= MaxSn
  BY DataPathAssumption DEF FewNumbers, Arrives
<1>2. PICK a \in Int : a = last[c]
  BY <1>1
<1>3. PICK b \in Nat : b = p.sn
  BY <1>1
<1>4. Half = 8388608 /\ SnSpace = 16777216 /\ MaxSn = 16777215
  BY DEF Half, SnSpace, MaxSn
<1>5. a >= -1 /\ a < b /\ b - a < Half /\ b < Half + FirstSn /\ FirstSn <= a + 1 /\ (a = -1 => b < Half - 1)
  BY <1>1, <1>2, <1>3, <1>4
<1>6. SnDiff(b, r.lastSn[c]) = b - a
  <2>1. CASE a = -1
    <3>1. r.lastSn[c] = MaxSn
      BY <1>1, <1>2, <2>1 DEF Lasts
    <3>2. b - 16777215 < -8388608
      BY <1>4, <1>5, <2>1
    <3>. QED  BY <1>4, <2>1, <3>1, <3>2 DEF SnDiff, SerialDiff
  <2>2. CASE a # -1
    <3>1. r.lastSn[c] = a /\ a \in Nat
      BY <1>1, <1>2, <1>5, <2>2 DEF Lasts
    <3>. QED  BY <1>4, <1>5, <3>1, SnDiffIs
  <2>. QED  BY <2>1, <2>2
<1>7. N(b) = N(a + 1) + x /\ N(a + 1) \in Nat /\ x \in Nat
  <2>1. NumberOver(route, c, b) = NumberOver(route, c, a + 1) + Cardinality(Over(route, c, a + 1, b))
    BY <1>5, NumberSplits
  <2>2. NumberOver(route, c, a + 1) \in Nat
    BY <1>5, NumberNext
  <2>3. Cardinality(Over(route, c, a + 1, b)) \in Nat
    BY OverFinite
  <2>. QED  BY <1>2, <1>3, <2>1, <2>2, <2>3
<1>8. x <= b - (a + 1) /\ (x = b - (a + 1) => \A n \in a + 1 .. b - 1 : route[n] = c)
  <2>1. a + 1 <= b
    BY <1>5
  <2>. QED  BY <1>2, <1>3, <2>1, OverFinite
<1>9. LsnDiff(p.lsn, r.lastLsn[c]) = b - a
  BY <1>3, <1>6 DEF OnlyLosses
<1>10. p.lsn = LsnOf(N(b)) /\ r.lastLsn[c] = LsnOf(N(a + 1) + LsnSpace - 1)
  BY <1>1, <1>2, <1>3 DEF Lasts
<1>. HIDE DEF N, x
<1>11. x + 1 = b - a
  <2>1. PICK m \in Nat : m = x + 1
    BY <1>7
  <2>2. PICK k \in Nat : k = N(a + 1)
    BY <1>7
  <2>3. N(b) = k + m - 1 /\ m >= 1
    BY <1>7, <2>1, <2>2
  <2>4. PICK d \in Nat : d = b - a
    BY <1>5
  <2>5. m <= d
    BY <1>5, <1>7, <1>8, <2>1, <2>4
  <2>6. LsnDiff(LsnOf(k + m - 1), LsnOf(k + LsnSpace - 1)) = d
    BY <1>9, <1>10, <2>2, <2>3, <2>4
  <2>7. m = d
    BY <2>3, <2>5, <2>6, LsnGap
  <2>. QED  BY <2>1, <2>4, <2>7
<1>12. x = b - (a + 1)
  BY <1>7, <1>11
<1>. QED  BY <1>2, <1>3, <1>8, <1>12

-----------------------------------------------------------------------------

\* The packets w under way over link c, the one after low first
Carries(c, w, route, top, low) ==
  /\ w \in Seq(PacketsOf(c))
  /\ \A i \in 1 .. Len(w) : /\ w[i].kind = "data" /\ w[i].sn \in FirstSn .. top - 1 /\ low < w[i].sn
                            /\ route[w[i].sn] = c /\ w[i].lsn = LsnOf(NumberOver(route, c, w[i].sn))
  /\ \A i, j \in 1 .. Len(w) : i < j => w[i].sn < w[j].sn

\* A receiver, with its reordering on or off
Reorders(r, since, route, top, last) ==
  IF r.on THEN Orderly(r, since, route, top, last)
  ELSE /\ Orderly(r, Len(r.out) + 1, route, top, last) /\ r.held = <<>> /\ ~r.timer
       /\ \A c \in Cids : last[c] = FirstSn - 1

\* Number n of the flow was sent over link route[n], and last[c] is the last number that the
\* reordering has seen from link c.
Routed(route, last) ==
  /\ last \in [Cids -> FirstSn - 1 .. tx.sn - 1]
  /\ \A c \in Cids : /\ tx.lsn[c] = LsnOf(NumberOver(route, c, tx.sn))
                     /\ Carries(c, wire[c], route, tx.sn, last[c])
  /\ Lasts(rx.r, route, last)
  /\ Reorders(rx.r, rx.since, route, tx.sn, last)

\* The inductive invariant of a split flow
OrderInv ==
  /\ DOMAIN rx = RxFields /\ DOMAIN spent = SpentFields /\ wire = [c \in Cids |-> wire[c]]
  /\ spent.packets \in 0 .. MaxPackets["split"] /\ tx.sn = FirstSn + spent.packets
  /\ rx.since \in Nat \ {0}
  /\ \E route, last : Routed(route, last)

\* The numbers of a split flow stay few.
Few == FewNumbers(FirstSn + MaxPackets["split"]) /\ MaxPackets["split"] \in Nat

\* The next number of the flow is one of them.
LEMMA FewSent ==
  ASSUME Few, OrderInv
  PROVE  FewNumbers(tx.sn) /\ tx.sn \in Nat /\ tx.sn >= FirstSn
<1>1. FirstSn \in Nat /\ spent.packets \in 0 .. MaxPackets["split"] /\ tx.sn = FirstSn + spent.packets /\ MaxPackets["split"] \in Nat
  BY DataPathAssumption DEF OrderInv, Few
<1>2. /\ FirstSn + MaxPackets["split"] <= MaxSn /\ (FirstSn + MaxPackets["split"]) - FirstSn < Half
      /\ MaxSn \in Nat /\ Half \in Nat
  BY DEF Few, FewNumbers, MaxSn, SnSpace, Half
<1>. QED  BY <1>1, <1>2 DEF FewNumbers

\* What the receiver or the transmitter do of which the order depends stays the same.
OrderSame ==
  /\ tx'.sn = tx.sn /\ tx'.lsn = tx.lsn /\ wire' = wire
  /\ DOMAIN rx' = RxFields /\ rx'.since = rx.since
  /\ DOMAIN spent' = SpentFields /\ spent'.packets = spent.packets

\* Then the order stays if the receiver of the packets does.
LEMMA SameOrder ==
  ASSUME OrderInv, OrderSame, rx'.r = rx.r
  PROVE  OrderInv'
<1>1. PICK route, last : Routed(route, last)
  BY DEF OrderInv
<1>2. Routed(route, last)'
  BY <1>1 DEF Routed, OrderSame
<1>. QED  BY <1>2 DEF OrderInv, OrderSame

\* The receiver goes on with what it holds.
LEMMA ReleaseOrder ==
  ASSUME OrderInv, OrderSame, rx.r.on, rx'.r.on,
         rx'.r.lastSn = rx.r.lastSn, rx'.r.lastLsn = rx.r.lastLsn,
         \A route, last : last \in [Cids -> Int] /\ Orderly(rx.r, rx.since, route, tx.sn, last)
                          => Orderly(rx'.r, rx.since, route, tx.sn, last)
  PROVE  OrderInv'
<1>1. PICK route, last : Routed(route, last)
  BY DEF OrderInv
<1>2. last \in [Cids -> Int] /\ Orderly(rx.r, rx.since, route, tx.sn, last)
  <2>1. \A c \in Cids : last[c] \in Int
    BY <1>1 DEF Routed
  <2>2. last \in [Cids -> Int]
    BY <1>1, <2>1 DEF Routed
  <2>. QED  BY <1>1, <2>2 DEF Routed, Reorders
<1>3. Orderly(rx'.r, rx'.since, route, tx'.sn, last)
  BY <1>2 DEF OrderSame
<1>4. Lasts(rx'.r, route, last)
  BY <1>1 DEF Routed, Lasts
<1>5. Routed(route, last)'
  <2>1. Reorders(rx'.r, rx'.since, route, tx'.sn, last)
    BY <1>3 DEF Reorders
  <2>2. /\ last \in [Cids -> FirstSn - 1 .. tx'.sn - 1]
        /\ \A c \in Cids : /\ tx'.lsn[c] = LsnOf(NumberOver(route, c, tx'.sn))
                           /\ Carries(c, wire'[c], route, tx'.sn, last[c])
    BY <1>1 DEF Routed, OrderSame
  <2>. QED  BY <1>4, <2>1, <2>2 DEF Routed
<1>. QED  BY <1>5 DEF OrderInv, OrderSame

\* Steps that change neither the packets under way nor the queues
LEMMA QuietOrder ==
  ASSUME OrderInv, TxInv(tx), mode = "split",
         \/ ObeyTsu
         \/ \E c \in Cids : DrainEnds(c) \/ TxLinkDown(c) \/ TxLinkUp(c) \/ RxLinkChanges(c)
         \/ UNCHANGED vars
  PROVE  OrderInv'
<1>0. DOMAIN rx = RxFields /\ DOMAIN spent = SpentFields /\ wire = [c \in Cids |-> wire[c]]
  BY DEF OrderInv
<1>1. \A kind : Put({}, kind) => wire' = wire
  BY <1>0 DEF Put
<1>2. \A before, after : SteeredAway(before, after) = {}
  BY DEF SteeredAway
<1>3. CASE ObeyTsu
  <2>1. PICK after : Put(SteeredAway(tx, after), "end")
    BY Zenon, <1>3 DEF ObeyTsu
  <2>2. wire' = wire
    BY <1>1, <1>2, <2>1
  <2>3. tx'.sn = tx.sn /\ tx'.lsn = tx.lsn
    BY <1>3, ObeyTsuTx
  <2>4. OrderSame /\ rx'.r = rx.r
    BY <1>0, <1>3, <2>2, <2>3 DEF ObeyTsu, OrderSame, RxFields
  <2>. QED  BY <2>4, SameOrder
<1>4. ASSUME NEW c \in Cids, DrainEnds(c)
      PROVE  OrderInv'
  <2>1. tx'.sn = tx.sn /\ tx'.lsn = tx.lsn
    BY <1>4, DrainEndsTx
  <2>2. OrderSame /\ rx'.r = rx.r
    BY <1>0, <1>4, <2>1 DEF DrainEnds, OrderSame
  <2>. QED  BY <2>2, SameOrder
<1>5. ASSUME NEW c \in Cids, TxLinkDown(c) \/ TxLinkUp(c)
      PROVE  OrderInv'
  <2>1. \E before, after : Put(SteeredAway(before, after), "end") \/ Put({}, "end")
    <3>1. CASE TxLinkDown(c)
      <4>. DEFINE after == WithLinks(Peeked, LinkDown(tx.ls, "ctrFailed", c))
      <4>1. \E told \in BOOLEAN : Put(IF told THEN SteeredAway(tx, after) ELSE {}, "end")
        BY <3>1 DEF TxLinkDown
      <4>. HIDE DEF after
      <4>. QED  BY <4>1
    <3>2. CASE TxLinkUp(c)
      BY <3>2 DEF TxLinkUp
    <3>. QED  BY <1>5, <3>1, <3>2
  <2>2. wire' = wire
    BY <1>1, <1>2, <2>1
  <2>3. tx'.sn = tx.sn /\ tx'.lsn = tx.lsn
    BY <1>5, TxEventTx
  <2>4. TxEvent
    BY <1>5 DEF TxLinkDown, TxLinkUp
  <2>5. OrderSame /\ rx'.r = rx.r
    BY <1>0, <2>2, <2>3, <2>4 DEF TxEvent, OrderSame, SpentFields
  <2>. QED  BY <2>5, SameOrder
<1>6. ASSUME NEW c \in Cids, RxLinkChanges(c)
      PROVE  OrderInv'
  <2>1. OrderSame /\ rx'.r = rx.r
    BY <1>0, <1>6 DEF RxLinkChanges, OrderSame, RxFields, SpentFields
  <2>. QED  BY <2>1, SameOrder
<1>7. CASE UNCHANGED vars
  <2>1. OrderSame /\ rx'.r = rx.r
    BY <1>0, <1>7 DEF vars, OrderSame
  <2>. QED  BY <2>1, SameOrder
<1>. QED  BY <1>3, <1>4, <1>5, <1>6, <1>7

\* The reordering begins once two links are to be used.
LEMMA SendTsuOrder ==
  ASSUME OrderInv, SendTsu, mode = "split"
  PROVE  OrderInv'
<1>0. DOMAIN rx = RxFields /\ DOMAIN spent = SpentFields
  BY DEF OrderInv
<1>1. /\ tx' = tx /\ wire' = wire /\ DOMAIN spent' = SpentFields /\ spent'.packets = spent.packets
      /\ rx' = rx \/ (~rx.r.on /\ rx' = [rx EXCEPT !.r.on = TRUE, !.since = Len(rx.r.out) + 1])
  BY <1>0 DEF SendTsu, SpentFields
<1>2. CASE rx' = rx
  BY <1>0, <1>1, <1>2, SameOrder DEF OrderSame
<1>3. CASE ~rx.r.on /\ rx' = [rx EXCEPT !.r.on = TRUE, !.since = Len(rx.r.out) + 1]
  <2>1. DOMAIN rx' = RxFields /\ rx'.r = [rx.r EXCEPT !.on = TRUE] /\ rx'.since = Len(rx.r.out) + 1
    BY <1>0, <1>3 DEF RxFields
  <2>2. PICK route, last : Routed(route, last)
    BY DEF OrderInv
  <2>3. Orderly(rx.r, Len(rx.r.out) + 1, route, tx.sn, last)
    BY <1>3, <2>2 DEF Routed, Reorders
  <2>4. rx.r \in Receivers
    BY <2>3 DEF Orderly
  <2>5. /\ rx'.r \in Receivers /\ rx'.r.on /\ rx'.r.held = rx.r.held /\ rx'.r.expected = rx.r.expected
        /\ rx'.r.out = rx.r.out /\ rx'.r.lastSn = rx.r.lastSn /\ rx'.r.lastLsn = rx.r.lastLsn
    BY <2>1, <2>4 DEF Receivers
  <2>6. Len(rx.r.out) + 1 \in Nat \ {0}
    <3>1. rx.r.out \in Seq(Nat)
      BY <2>4 DEF Receivers
    <3>. QED  BY <3>1
  <2>7. Orderly(rx'.r, rx'.since, route, tx.sn, last)
    BY <2>1, <2>3, <2>5 DEF Orderly
  <2>8. Lasts(rx'.r, route, last)
    BY <2>2, <2>5 DEF Routed, Lasts
  <2>9. Routed(route, last)'
    BY <1>1, <2>2, <2>5, <2>7, <2>8 DEF Routed, Reorders
  <2>. QED  BY <1>1, <2>1, <2>6, <2>9 DEF OrderInv
<1>. QED  BY <1>1, <1>2, <1>3

\* A packet held becomes late.
LEMMA BecomesLateOrder ==
  ASSUME OrderInv, BecomesLate
  PROVE  OrderInv'
<1>. DEFINE q == rx.r.held
            fresh == {i \in DOMAIN q : ~q[i].late}
            m == Min(fresh)
<1>0. DOMAIN rx = RxFields /\ DOMAIN spent = SpentFields
  BY DEF OrderInv
<1>1. /\ fresh # {} /\ rx' = [rx EXCEPT !.r.held[m].late = TRUE] /\ tx' = tx /\ wire' = wire
      /\ DOMAIN spent' = SpentFields /\ spent'.packets = spent.packets
  BY <1>0 DEF BecomesLate, SpentFields
<1>2. rx.r.on /\ rx.r \in Receivers
  <2>1. PICK route, last : Reorders(rx.r, rx.since, route, tx.sn, last)
    BY DEF OrderInv, Routed
  <2>2. q # <<>>
    BY <1>1
  <2>. QED  BY <2>1, <2>2 DEF Reorders, Orderly
<1>3. q \in Seq(Items) /\ Len(q) \in Nat /\ DOMAIN q = 1 .. Len(q)
  <2>1. q \in Seq(Items)
    BY <1>2 DEF Receivers
  <2>. QED  BY <2>1
<1>4. m \in 1 .. Len(q)
  <2>1. fresh \in SUBSET (0 .. (Len(q) + 1) - 1) /\ Len(q) + 1 \in Nat
    BY <1>3
  <2>2. m \in fresh
    BY <1>1, <2>1, SmallestOf
  <2>. QED  BY <1>3, <2>2
<1>. HIDE DEF m, fresh
<1>. DEFINE v == [q EXCEPT ![m].late = TRUE]
<1>5. /\ v \in Seq(Items) /\ Len(v) = Len(q)
      /\ \A i \in 1 .. Len(q) : v[i].sn = q[i].sn /\ v[i].cid = q[i].cid
  <2>1. \A i \in 1 .. Len(q) : q[i] \in Items
    BY <1>3
  <2>2. q[m] \in Items /\ [q[m] EXCEPT !.late = TRUE] \in Items
    BY <1>4, <2>1 DEF Items
  <2>3. \A i \in 1 .. Len(q) : v[i] = IF i = m THEN [q[m] EXCEPT !.late = TRUE] ELSE q[i]
    BY <1>3, <1>4
  <2>4. v \in Seq(Items) /\ Len(v) = Len(q)
    <3>1. PICK n \in Nat : n = Len(q)
      BY <1>3
    <3>2. q \in [1 .. n -> Items]
      BY <1>3, <3>1
    <3>3. v \in [1 .. n -> Items]
      BY <2>2, <3>2
    <3>. HIDE DEF v
    <3>. QED  BY <3>1, <3>3
  <2>5. [q[m] EXCEPT !.late = TRUE].sn = q[m].sn /\ [q[m] EXCEPT !.late = TRUE].cid = q[m].cid
    BY <2>2, <1>4, <2>1 DEF Items
  <2>. HIDE DEF v
  <2>. QED  BY <2>3, <2>4, <2>5
<1>6. DOMAIN rx' = RxFields /\ rx'.since = rx.since /\ rx'.r = [rx.r EXCEPT !.held = v]
  BY <1>0, <1>1 DEF RxFields
<1>. HIDE DEF v
<1>7. /\ rx'.r \in Receivers /\ rx'.r.held = v /\ rx'.r.on = rx.r.on /\ rx'.r.expected = rx.r.expected
      /\ rx'.r.out = rx.r.out /\ rx'.r.lastSn = rx.r.lastSn /\ rx'.r.lastLsn = rx.r.lastLsn
  BY <1>2, <1>5, <1>6 DEF Receivers
<1>8. ASSUME NEW route, NEW last, last \in [Cids -> Int], Orderly(rx.r, rx.since, route, tx.sn, last)
      PROVE  Orderly(rx'.r, rx.since, route, tx.sn, last)
  <2>1. InLines(v)
    BY <1>5, <1>8 DEF Orderly, InLines
  <2>2. \A i \in 1 .. Len(v) : /\ v[i].sn \in rx.r.expected .. tx.sn - 1
                               /\ route[v[i].sn] = v[i].cid /\ v[i].sn <= last[v[i].cid]
    BY <1>5, <1>8 DEF Orderly
  <2>3. \A c \in Cids : last[c] < rx.r.expected \/ \E i \in 1 .. Len(v) : v[i].cid = c /\ v[i].sn = last[c]
    <3>. TAKE c \in Cids
    <3>1. CASE last[c] < rx.r.expected
      BY <3>1
    <3>2. CASE \E i \in 1 .. Len(q) : q[i].cid = c /\ q[i].sn = last[c]
      BY <1>5, <3>2
    <3>. QED  BY <1>8, <3>1, <3>2 DEF Orderly
  <2>. QED  BY <1>7, <1>8, <2>1, <2>2, <2>3 DEF Orderly
<1>9. OrderSame
  BY <1>1, <1>6 DEF OrderSame
<1>. QED  BY <1>2, <1>7, <1>8, <1>9, ReleaseOrder

\* The timer fires, which runs only while the reordering is on.
LEMMA TimeoutOrder ==
  ASSUME Few, OrderInv, ReorderingTimeout
  PROVE  OrderInv'
<1>. DEFINE s == [rx.r EXCEPT !.timer = FALSE]
<1>0. DOMAIN rx = RxFields /\ DOMAIN spent = SpentFields
  BY DEF OrderInv
<1>1. /\ rx.r.timer /\ rx' = [rx EXCEPT !.r = ReleaseInOrderPackets(s)] /\ tx' = tx /\ wire' = wire
      /\ spent' = spent
  BY DEF ReorderingTimeout
<1>2. rx.r.on /\ rx.r \in Receivers
  <2>1. PICK route, last : Reorders(rx.r, rx.since, route, tx.sn, last)
    BY DEF OrderInv, Routed
  <2>. QED  BY <1>1, <2>1 DEF Reorders, Orderly
<1>3. DOMAIN rx' = RxFields /\ rx'.since = rx.since /\ rx'.r = ReleaseInOrderPackets(s)
  BY <1>0, <1>1 DEF RxFields
<1>4. s \in Receivers /\ Rests(rx.r, s) /\ s.held = rx.r.held /\ s.out = rx.r.out /\ s.expected = rx.r.expected
  BY <1>2 DEF Receivers, Rests
<1>. HIDE DEF s
<1>5. ASSUME NEW route, NEW last, last \in [Cids -> Int], Orderly(rx.r, rx.since, route, tx.sn, last)
      PROVE  Orderly(rx'.r, rx.since, route, tx.sn, last) /\ Rests(rx.r, rx'.r)
  <2>1. Orderly(s, rx.since, route, tx.sn, last)
    BY <1>4, <1>5 DEF Orderly
  <2>2. rx.since \in Nat \ {0} /\ FewNumbers(tx.sn)
    BY FewSent DEF OrderInv
  <2>3. rx'.r \in Course(s, rx.since, route, tx.sn, last)
    BY <1>3, <1>5, <2>1, <2>2, ReleaseInOrderOrderly
  <2>. QED  BY <1>4, <2>3 DEF Course, Rests
<1>6. OrderSame
  BY <1>0, <1>1, <1>3 DEF OrderSame
<1>7. rx'.r.on /\ rx'.r.lastSn = rx.r.lastSn /\ rx'.r.lastLsn = rx.r.lastLsn
  <2>1. PICK route, last : Routed(route, last)
    BY DEF OrderInv
  <2>2. last \in [Cids -> Int]
    <3>1. \A c \in Cids : last[c] \in Int
      BY <2>1 DEF Routed
    <3>. QED  BY <2>1, <3>1 DEF Routed
  <2>3. Rests(rx.r, rx'.r)
    BY <1>2, <1>5, <2>1, <2>2 DEF Routed, Reorders
  <2>. QED  BY <1>2, <2>3 DEF Rests
<1>. QED  BY <1>2, <1>5, <1>6, <1>7, ReleaseOrder

\* The first packet is taken off the link.
LEMMA CarriesTail ==
  ASSUME NEW c, NEW w, w # <<>>, NEW route, NEW top, NEW low, Carries(c, w, route, top, low)
  PROVE  LET p == Head(w)
         IN  /\ p.kind = "data" /\ p.cid = c /\ p.sn \in FirstSn .. top - 1 /\ low < p.sn /\ route[p.sn] = c
             /\ p.lsn = LsnOf(NumberOver(route, c, p.sn)) /\ p.lsn \in 0 .. LsnSpace - 1
             /\ Carries(c, Tail(w), route, top, low) /\ Carries(c, Tail(w), route, top, p.sn)
<1>. DEFINE p == Head(w)
            v == Tail(w)
<1>1. w \in Seq(PacketsOf(c))
  BY DEF Carries
<1>2. /\ Len(w) \in Nat /\ Len(w) >= 1 /\ p = w[1] /\ p \in PacketsOf(c) /\ v \in Seq(PacketsOf(c))
      /\ Len(v) = Len(w) - 1 /\ \A i \in 1 .. Len(v) : v[i] = w[i + 1]
  BY <1>1
<1>. HIDE DEF p, v
<1>3. 1 \in 1 .. Len(w) /\ \A i \in 1 .. Len(v) : i + 1 \in 1 .. Len(w) /\ 1 < i + 1
  BY <1>2
<1>4. /\ p.kind = "data" /\ p.cid = c /\ p.sn \in FirstSn .. top - 1 /\ low < p.sn /\ route[p.sn] = c
      /\ p.lsn = LsnOf(NumberOver(route, c, p.sn)) /\ p.lsn \in 0 .. LsnSpace - 1
  BY <1>2, <1>3 DEF Carries, PacketsOf
<1>5. \A i \in 1 .. Len(v) : /\ v[i].kind = "data" /\ v[i].sn \in FirstSn .. top - 1 /\ low < v[i].sn
                             /\ route[v[i].sn] = c /\ v[i].lsn = LsnOf(NumberOver(route, c, v[i].sn))
                             /\ p.sn < v[i].sn
  <2>. TAKE i \in 1 .. Len(v)
  <2>1. v[i] = w[i + 1] /\ i + 1 \in 1 .. Len(w) /\ 1 \in 1 .. Len(w) /\ 1 < i + 1
    BY <1>2, <1>3
  <2>2. w[1].sn < w[i + 1].sn
    BY <2>1 DEF Carries
  <2>. QED  BY <1>2, <2>1, <2>2 DEF Carries
<1>6. ASSUME NEW i \in 1 .. Len(v), NEW j \in 1 .. Len(v), i < j
      PROVE  v[i].sn < v[j].sn
  <2>1. i + 1 < j + 1
    BY <1>2, <1>6
  <2>. QED  BY <1>2, <1>3, <2>1 DEF Carries
<1>7. Carries(c, v, route, top, low) /\ Carries(c, v, route, top, p.sn)
  BY <1>2, <1>5, <1>6 DEF Carries
<1>. QED  BY <1>4, <1>7 DEF p, v

\* It is lost.
LEMMA LoseOrder ==
  ASSUME OrderInv, NEW c \in Cids, Lose(c)
  PROVE  OrderInv'
<1>1. PICK route, last : Routed(route, last)
  BY DEF OrderInv
<1>2. /\ wire[c] # <<>> /\ wire' = [wire EXCEPT ![c] = Tail(wire[c])] /\ tx' = tx /\ rx' = rx
      /\ DOMAIN spent' = SpentFields /\ spent'.packets = spent.packets /\ wire = [d \in Cids |-> wire[d]]
  BY DEF Lose, OrderInv, SpentFields
<1>3. wire' = [d \in Cids |-> wire'[d]] /\ wire'[c] = Tail(wire[c]) /\ \A d \in Cids : d # c => wire'[d] = wire[d]
  BY <1>2
<1>4. ASSUME NEW d \in Cids
      PROVE  Carries(d, wire'[d], route, tx.sn, last[d])
  <2>1. Carries(d, wire[d], route, tx.sn, last[d])
    BY <1>1 DEF Routed
  <2>2. CASE d = c
    BY <1>2, <1>3, <2>1, <2>2, CarriesTail
  <2>3. CASE d # c
    BY <1>3, <2>1, <2>3
  <2>. QED  BY <2>2, <2>3
<1>5. Routed(route, last)'
  BY <1>1, <1>2, <1>4 DEF Routed
<1>. QED  BY <1>2, <1>3, <1>5 DEF OrderInv

\* The flow accepts a packet while the reordering is off.
LEMMA AcceptUnordered ==
  ASSUME NEW r, NEW route, NEW top, NEW last \in [Cids -> Int], FewNumbers(top), ~r.on, NEW since, NEW p,
         Reorders(r, since, route, top, last), Arrives(p, route, top, last)
  PROVE  LET t == Accept(r, p)
         IN  Reorders(t, since, route, top, last) /\ t.lastSn = r.lastSn /\ t.lastLsn = r.lastLsn
<1>. DEFINE t == Accept(r, p)
<1>1. /\ Orderly(r, Len(r.out) + 1, route, top, last) /\ r.held = <<>> /\ ~r.timer
      /\ \A c \in Cids : last[c] = FirstSn - 1
  BY DEF Reorders
<1>2. r \in Receivers /\ r.out \in Seq(Nat)
  <2>1. r \in Receivers
    BY <1>1 DEF Orderly
  <2>. QED  BY <2>1 DEF Receivers
<1>3. /\ FirstSn \in Nat /\ top \in Nat /\ top <= MaxSn /\ MaxSn \in Nat /\ p.sn \in FirstSn .. top - 1
  BY DataPathAssumption DEF FewNumbers, Arrives, MaxSn, SnSpace
<1>4. Succ(p.sn) = p.sn + 1 /\ p.sn \in Nat
  BY <1>3, SuccIs
<1>5. t = [r EXCEPT !.out = Append(@, p.sn), !.expected = p.sn + 1]
  BY <1>2, <1>4 DEF Accept, Forward, Receivers
<1>. HIDE DEF t
<1>6. Append(r.out, p.sn) \in Seq(Nat) /\ p.sn + 1 \in Nat
  BY <1>2, <1>4
<1>7. /\ t \in Receivers /\ t.held = <<>> /\ t.out = Append(r.out, p.sn) /\ t.expected = p.sn + 1
      /\ t.on = r.on /\ t.timer = r.timer /\ t.lastSn = r.lastSn /\ t.lastLsn = r.lastLsn
  BY <1>1, <1>2, <1>5, <1>6 DEF Receivers
<1>8. t.expected \in FirstSn .. top /\ \A c \in Cids : last[c] < t.expected
  BY <1>1, <1>3, <1>7
<1>9. Len(t.out) \in Nat
  BY <1>6, <1>7
<1>10. Orderly(t, Len(t.out) + 1, route, top, last)
  <2>1. Len(t.held) = 0 /\ 1 .. 0 = {} /\ Len(t.out) + 1 .. Len(t.out) = {}
    BY <1>7, <1>9
  <2>. QED  BY <1>7, <1>8, <2>1 DEF Orderly, InLines
<1>. QED  BY <1>1, <1>7, <1>10 DEF Reorders, t

\* It arrives.
LEMMA ReceiveOrder ==
  ASSUME Few, OrderInv, mode = "split", NEW c \in Cids, Receive(c)
  PROVE  OrderInv'
<1>. DEFINE p == Head(wire[c])
            r == rx.r
            t == ReceiveData(r, p, rx.up)
<1>1. PICK route, last : Routed(route, last)
  BY DEF OrderInv
<1>2. /\ wire[c] # <<>> /\ wire' = [wire EXCEPT ![c] = Tail(wire[c])] /\ tx' = tx /\ spent' = spent
      /\ rx' = ReceivePacket(rx, p) /\ wire = [d \in Cids |-> wire[d]]
      /\ DOMAIN rx = RxFields /\ DOMAIN spent = SpentFields /\ rx.since \in Nat \ {0}
  BY DEF Receive, OrderInv
<1>3. wire' = [d \in Cids |-> wire'[d]] /\ wire'[c] = Tail(wire[c]) /\ \A d \in Cids : d # c => wire'[d] = wire[d]
  BY <1>2
<1>4. /\ p.kind = "data" /\ p.cid = c /\ p.sn \in FirstSn .. tx.sn - 1 /\ last[c] < p.sn /\ route[p.sn] = c
      /\ p.lsn = LsnOf(NumberOver(route, c, p.sn)) /\ p.lsn \in 0 .. LsnSpace - 1
      /\ Carries(c, Tail(wire[c]), route, tx.sn, last[c]) /\ Carries(c, Tail(wire[c]), route, tx.sn, p.sn)
  <2>1. Carries(c, wire[c], route, tx.sn, last[c])
    BY <1>1 DEF Routed
  <2>. QED  BY <1>2, <2>1, CarriesTail
<1>. HIDE DEF p
<1>5. DOMAIN rx' = RxFields /\ rx'.since = rx.since /\ rx'.r = t
  <2>. DEFINE y == ReportLoss(rx, p)
  <2>1. DOMAIN y = RxFields /\ y.since = rx.since /\ y.r = r
    BY <1>2 DEF ReportLoss, RxFields
  <2>2. AfterNotes(y.r, p) = r
    BY <1>4, <2>1 DEF AfterNotes
  <2>3. rx' = [y EXCEPT !.r = ReceiveData(AfterNotes(y.r, p), p, rx.up)]
    BY <1>2, <1>4 DEF ReceivePacket
  <2>. HIDE DEF y, t
  <2>. QED  BY <2>1, <2>2, <2>3 DEF RxFields, t
<1>6. /\ last \in [Cids -> FirstSn - 1 .. tx.sn - 1] /\ last \in [Cids -> Int] /\ Lasts(r, route, last)
      /\ Reorders(r, rx.since, route, tx.sn, last)
  <2>1. \A d \in Cids : last[d] \in Int
    BY <1>1 DEF Routed
  <2>2. last \in [Cids -> Int]
    BY <1>1, <2>1 DEF Routed
  <2>. QED  BY <1>1, <2>2 DEF Routed
<1>7. Arrives(p, route, tx.sn, last)
  BY <1>4 DEF Arrives
<1>8. FewNumbers(tx.sn) /\ FirstSn \in Nat /\ tx.sn \in Nat
  BY FewSent, DataPathAssumption
<1>9. \A d \in Cids : tx.lsn[d] = LsnOf(NumberOver(route, d, tx.sn)) /\ Carries(d, wire[d], route, tx.sn, last[d])
  BY <1>1 DEF Routed
<1>10. CASE ~r.on
  <2>1. t = Accept(r, p)
    BY <1>10 DEF ReceiveData
  <2>2. Reorders(t, rx.since, route, tx.sn, last) /\ t.lastSn = r.lastSn /\ t.lastLsn = r.lastLsn
    BY <1>6, <1>7, <1>8, <1>10, <2>1, AcceptUnordered
  <2>. HIDE DEF t
  <2>3. Lasts(t, route, last)
    BY <1>6, <2>2 DEF Lasts
  <2>4. \A d \in Cids : Carries(d, wire'[d], route, tx.sn, last[d])
    BY <1>3, <1>4, <1>9
  <2>5. Routed(route, last)'
    BY <1>2, <1>5, <1>6, <1>9, <2>2, <2>3, <2>4 DEF Routed
  <2>. QED  BY <1>2, <1>3, <1>5, <2>5 DEF OrderInv
<1>11. CASE r.on
  <2>0. PICK later : later = [last EXCEPT ![c] = p.sn]
    OBVIOUS
  <2>1. t = InOrderDelivery(r, p, rx.up)
    BY <1>11 DEF ReceiveData
  <2>2. SeesLosses(r, p, route, last)
    <3>. HIDE DEF r, t
    <3>1. PICK s, top, q : s = r /\ top = tx.sn /\ q = p
      OBVIOUS
    <3>2. /\ FewNumbers(top) /\ last \in [Cids -> FirstSn - 1 .. top - 1] /\ Lasts(s, route, last)
          /\ Arrives(q, route, top, last) /\ q.lsn = LsnOf(NumberOver(route, q.cid, q.sn))
      BY <1>4, <1>6, <1>7, <1>8, <3>1
    <3>3. SeesLosses(s, q, route, last)
      BY <3>2, OnlyLossesIs
    <3>. QED  BY <3>1, <3>3
  <2>3. Orderly(r, rx.since, route, tx.sn, last)
    BY <1>6, <1>11 DEF Reorders
  <2>4. /\ Orderly(t, rx.since, route, tx.sn, later) /\ t.on = r.on
        /\ t.lastSn = [r.lastSn EXCEPT ![c] = p.sn] /\ t.lastLsn = [r.lastLsn EXCEPT ![c] = p.lsn]
    <3>. HIDE DEF r, t
    <3>1. PICK s, since, top, q, up : s = r /\ since = rx.since /\ top = tx.sn /\ q = p /\ up = rx.up
      OBVIOUS
    <3>2. /\ since \in Nat \ {0} /\ last \in [Cids -> Int] /\ FewNumbers(top) /\ q.lsn \in 0 .. LsnSpace - 1
          /\ Orderly(s, since, route, top, last) /\ Arrives(q, route, top, last)
          /\ SeesLosses(s, q, route, last) /\ q.cid = c /\ t = InOrderDelivery(s, q, up)
      BY <1>2, <1>4, <1>6, <1>7, <1>8, <2>1, <2>2, <2>3, <3>1
    <3>3. Delivered(s, InOrderDelivery(s, q, up), q, since, route, top, last)
      BY <3>2, DeliveryOrderly
    <3>4. Delivered(s, t, q, since, route, top, last)
      BY <3>2, <3>3
    <3>. QED  BY <2>0, <3>1, <3>2, <3>4 DEF Delivered
  <2>. HIDE DEF t
  <2>5. later \in [Cids -> FirstSn - 1 .. tx.sn - 1] /\ later[c] = p.sn /\ \A d \in Cids : d # c => later[d] = last[d]
    BY <1>4, <1>6, <1>8, <2>0
  <2>6. r \in Receivers
    BY <2>3 DEF Orderly
  <2>7. ASSUME NEW d \in Cids
        PROVE  /\ t.lastSn[d] = IF later[d] = -1 THEN MaxSn ELSE later[d]
               /\ t.lastLsn[d] = LsnOf(NumberOver(route, d, later[d] + 1) + LsnSpace - 1)
    <3>1. CASE d = c
      <4>1. t.lastSn[d] = p.sn /\ t.lastLsn[d] = p.lsn
        BY <2>4, <2>6, <3>1 DEF Receivers
      <4>2. p.sn # -1 /\ p.sn \in Int /\ FirstSn <= p.sn
        BY <1>4, <1>8
      <4>3. NumberOver(route, c, p.sn + 1) = NumberOver(route, c, p.sn) + 1 /\ NumberOver(route, c, p.sn) \in Nat
        BY <1>4, <4>2, NumberNext
      <4>4. LsnOf(NumberOver(route, c, p.sn + 1) + LsnSpace - 1) = LsnOf(NumberOver(route, c, p.sn))
        <5>1. PICK k \in Nat : k = NumberOver(route, c, p.sn)
          BY <4>3
        <5>2. FirstLsn \in Nat /\ (FirstLsn + (k + 1 + 256 - 1)) % 256 = (FirstLsn + k) % 256
          BY DataPathAssumption
        <5>. QED  BY <4>3, <5>1, <5>2 DEF LsnOf, LsnSpace
      <4>. QED  BY <1>4, <2>5, <3>1, <4>1, <4>2, <4>4
    <3>2. CASE d # c
      <4>1. t.lastSn[d] = r.lastSn[d] /\ t.lastLsn[d] = r.lastLsn[d]
        BY <2>4, <2>6, <3>2 DEF Receivers
      <4>. QED  BY <1>6, <2>5, <3>2, <4>1 DEF Lasts
    <3>. QED  BY <3>1, <3>2
  <2>8. Lasts(t, route, later)
    BY <2>7 DEF Lasts
  <2>9. \A d \in Cids : Carries(d, wire'[d], route, tx.sn, later[d])
    BY <1>3, <1>4, <1>9, <2>5
  <2>10. Reorders(t, rx.since, route, tx.sn, later)
    BY <1>11, <2>4 DEF Reorders
  <2>11. Routed(route, later)'
    <3>1. /\ later \in [Cids -> FirstSn - 1 .. tx'.sn - 1] /\ Lasts(rx'.r, route, later)
          /\ Reorders(rx'.r, rx'.since, route, tx'.sn, later)
      BY <1>2, <1>5, <2>5, <2>8, <2>10
    <3>2. \A d \in Cids : /\ tx'.lsn[d] = LsnOf(NumberOver(route, d, tx'.sn))
                          /\ Carries(d, wire'[d], route, tx'.sn, later[d])
      BY <1>2, <1>9, <2>9
    <3>. HIDE DEF r
    <3>. QED  BY <3>1, <3>2 DEF Routed
  <2>. QED  BY <1>2, <1>3, <1>5, <2>11 DEF OrderInv
<1>. QED  BY <1>10, <1>11

\* A packet with the next number has been sent over some link.
LEMMA OrderlyGrows ==
  ASSUME NEW s, NEW since, NEW route, NEW other, NEW top \in Nat, NEW last, Orderly(s, since, route, top, last),
         FirstSn \in Nat, \A n \in FirstSn .. top - 1 : other[n] = route[n]
  PROVE  Orderly(s, since, other, top + 1, last)
<1>1. s.expected \in FirstSn .. top
  BY DEF Orderly
<1>2. s.expected \in FirstSn .. top + 1
  BY <1>1
<1>3. ASSUME NEW i \in 1 .. Len(s.held)
      PROVE  s.held[i].sn \in s.expected .. (top + 1) - 1 /\ other[s.held[i].sn] = s.held[i].cid
  <2>1. s.held[i].sn \in s.expected .. top - 1 /\ route[s.held[i].sn] = s.held[i].cid
    BY DEF Orderly
  <2>2. s.held[i].sn \in FirstSn .. top - 1 /\ s.held[i].sn \in s.expected .. (top + 1) - 1
    BY <1>1, <2>1
  <2>. QED  BY <2>1, <2>2
<1>. QED  BY <1>2, <1>3 DEF Orderly

\* What is under way over the other links stays as it was.
LEMMA CarriesGrows ==
  ASSUME NEW c, NEW w, NEW route, NEW other, NEW top \in Nat, NEW low, Carries(c, w, route, top, low),
         FirstSn \in Nat, \A n \in FirstSn .. top - 1 : other[n] = route[n]
  PROVE  Carries(c, w, other, top + 1, low)
<1>1. ASSUME NEW i \in 1 .. Len(w)
      PROVE  /\ w[i].sn \in FirstSn .. (top + 1) - 1 /\ other[w[i].sn] = c
             /\ w[i].lsn = LsnOf(NumberOver(other, c, w[i].sn))
  <2>1. w[i].sn \in FirstSn .. top - 1 /\ route[w[i].sn] = c /\ w[i].lsn = LsnOf(NumberOver(route, c, w[i].sn))
    BY DEF Carries
  <2>2. w[i].sn \in Int /\ \A n \in FirstSn .. w[i].sn - 1 : other[n] = route[n]
    BY <2>1
  <2>3. NumberOver(other, c, w[i].sn) = NumberOver(route, c, w[i].sn)
    BY <2>2, SameNumber
  <2>4. w[i].sn \in FirstSn .. (top + 1) - 1
    BY <2>1
  <2>. QED  BY <2>1, <2>3, <2>4
<1>. QED  BY <1>1 DEF Carries

\* The packet is the last one over its link.
LEMMA CarriesNext ==
  ASSUME NEW c, NEW w, NEW route, NEW top \in Nat, NEW low \in FirstSn - 1 .. top - 1, FirstSn \in Nat, FirstSn <= top,
         Carries(c, w, route, top, low), route[top] = c,
         NEW p, p = [kind |-> "data", cid |-> c, sn |-> top, lsn |-> LsnOf(NumberOver(route, c, top))]
  PROVE  Carries(c, Append(w, p), route, top + 1, low)
<1>. DEFINE v == Append(w, p)
<1>1. w \in Seq(PacketsOf(c)) /\ Len(w) \in Nat
  BY DEF Carries
<1>2. p \in PacketsOf(c) /\ p.kind = "data" /\ p.sn = top /\ p.lsn = LsnOf(NumberOver(route, c, top))
  <2>1. LsnOf(NumberOver(route, c, top)) \in 0 .. LsnSpace - 1
    <3>1. NumberOver(route, c, top) \in Nat /\ FirstLsn \in Nat
      BY NumberNext, DataPathAssumption
    <3>. QED  BY <3>1 DEF LsnOf, LsnSpace
  <2>. QED  BY <2>1 DEF PacketsOf, Kinds
<1>3. /\ v \in Seq(PacketsOf(c)) /\ Len(v) = Len(w) + 1 /\ v[Len(w) + 1] = p
      /\ \A i \in 1 .. Len(w) : v[i] = w[i]
  BY <1>1, <1>2
<1>. HIDE DEF v
<1>4. \A i \in 1 .. Len(v) : (i = Len(w) + 1 /\ v[i] = p) \/ (i \in 1 .. Len(w) /\ v[i] = w[i])
  BY <1>1, <1>3
<1>5. ASSUME NEW i \in 1 .. Len(w)
      PROVE  /\ w[i].kind = "data" /\ w[i].sn \in FirstSn .. (top + 1) - 1 /\ low < w[i].sn
             /\ route[w[i].sn] = c /\ w[i].lsn = LsnOf(NumberOver(route, c, w[i].sn)) /\ w[i].sn < top
  <2>1. /\ w[i].kind = "data" /\ w[i].sn \in FirstSn .. top - 1 /\ low < w[i].sn
        /\ route[w[i].sn] = c /\ w[i].lsn = LsnOf(NumberOver(route, c, w[i].sn))
    BY DEF Carries
  <2>. QED  BY <2>1
<1>6. p.sn \in FirstSn .. (top + 1) - 1 /\ low < p.sn /\ route[p.sn] = c
  BY <1>2
<1>7. \A i \in 1 .. Len(v) : /\ v[i].kind = "data" /\ v[i].sn \in FirstSn .. (top + 1) - 1 /\ low < v[i].sn
                             /\ route[v[i].sn] = c /\ v[i].lsn = LsnOf(NumberOver(route, c, v[i].sn))
  BY <1>2, <1>4, <1>5, <1>6
<1>8. ASSUME NEW i \in 1 .. Len(v), NEW j \in 1 .. Len(v), i < j
      PROVE  v[i].sn < v[j].sn
  <2>1. i \in 1 .. Len(w) /\ v[i] = w[i]
    BY <1>1, <1>3, <1>4, <1>8
  <2>2. CASE v[j] = p
    BY <1>2, <1>5, <2>1, <2>2
  <2>3. CASE j \in 1 .. Len(w) /\ v[j] = w[j]
    BY <1>8, <2>1, <2>3 DEF Carries
  <2>. QED  BY <1>4, <2>2, <2>3
<1>9. Carries(c, v, route, top + 1, low)
  BY <1>3, <1>7, <1>8 DEF Carries
<1>. QED  BY <1>9 DEF v

\* A packet is sent.
LEMMA TransmitOrder ==
  ASSUME Few, OrderInv, TxInv(tx), mode = "split", Transmit
  PROVE  OrderInv'
<1>. DEFINE top == tx.sn
            d == Choice.cid
<1>1. PICK route, last : Routed(route, last)
  BY DEF OrderInv
<1>2. /\ TransmitOnce /\ spent.packets < MaxPackets["split"] /\ spent' = [spent EXCEPT !["packets"] = spent["packets"] + 1]
      /\ rx' = rx /\ DOMAIN rx = RxFields /\ rx.since \in Nat \ {0} /\ DOMAIN spent = SpentFields
      /\ spent.packets \in 0 .. MaxPackets["split"] /\ tx.sn = FirstSn + spent.packets
      /\ MaxPackets["split"] \in Nat
  BY DEF Transmit, TransmitCopies, Count, OrderInv, Few
<1>3. DOMAIN spent' = SpentFields /\ spent'.packets = spent.packets + 1
  BY <1>2 DEF SpentFields
<1>4. Put({d}, "data") /\ tx'.lsn = NextLsn(tx, {d}) /\ tx'.sn = Succ(tx.sn)
  <2>1. Put({d}, "data") /\ tx'.sn = Succ(tx.sn)
    BY <1>2 DEF TransmitOnce, TxInv, TxFields
  <2>. QED  BY <1>2, <2>1, TransmitOnceTx
<1>5. FirstSn \in Nat /\ top \in Nat /\ FirstSn <= top /\ top < MaxSn
  <2>1. FirstSn + MaxPackets["split"] <= MaxSn /\ MaxSn \in Nat
    BY DEF Few, FewNumbers, MaxSn, SnSpace
  <2>. QED  BY <1>2, <2>1, DataPathAssumption
<1>6. tx'.sn = top + 1
  BY <1>4, <1>5, SuccIs
<1>7. PICK other : other[top] = d /\ \A n \in FirstSn .. top - 1 : other[n] = route[n]
  <2>. DEFINE o == [n \in FirstSn .. top |-> IF n = top THEN d ELSE route[n]]
  <2>1. o[top] = d /\ \A n \in FirstSn .. top - 1 : o[n] = route[n]
    BY <1>5
  <2>. QED  BY <2>1
<1>. HIDE DEF d
<1>8. /\ last \in [Cids -> FirstSn - 1 .. top - 1] /\ Lasts(rx.r, route, last)
      /\ Reorders(rx.r, rx.since, route, top, last)
      /\ \A c \in Cids : tx.lsn[c] = LsnOf(NumberOver(route, c, top)) /\ Carries(c, wire[c], route, top, last[c])
  BY <1>1 DEF Routed
<1>9. last \in [Cids -> FirstSn - 1 .. tx'.sn - 1]
  <2>1. \A c \in Cids : last[c] \in FirstSn - 1 .. tx'.sn - 1
    BY <1>5, <1>6, <1>8
  <2>. QED  BY <1>8, <2>1
<1>10. Lasts(rx'.r, other, last)
  <2>1. ASSUME NEW c \in Cids
        PROVE  NumberOver(other, c, last[c] + 1) = NumberOver(route, c, last[c] + 1)
    <3>1. last[c] + 1 \in Int /\ \A n \in FirstSn .. (last[c] + 1) - 1 : other[n] = route[n]
      BY <1>5, <1>7, <1>8
    <3>. QED  BY <3>1, SameNumber
  <2>. QED  BY <1>2, <1>8, <2>1 DEF Lasts
<1>11. Reorders(rx'.r, rx'.since, other, tx'.sn, last)
  <2>1. \A since : Orderly(rx.r, since, route, top, last) => Orderly(rx.r, since, other, top + 1, last)
    BY <1>5, <1>7, OrderlyGrows
  <2>. QED  BY <1>2, <1>6, <1>8, <2>1 DEF Reorders
<1>12. ASSUME NEW c \in Cids
       PROVE  NumberOver(other, c, top) = NumberOver(route, c, top) /\ NumberOver(route, c, top) \in Nat
  BY <1>5, <1>7, SameNumber, NumberNext
<1>13. ASSUME NEW c \in Cids
       PROVE  tx'.lsn[c] = LsnOf(NumberOver(other, c, tx'.sn))
  <2>1. NumberOver(other, c, top + 1) = NumberOver(route, c, top) + IF d = c THEN 1 ELSE 0
    BY <1>5, <1>7, <1>12, NumberNext
  <2>2. PICK k \in Nat : k = NumberOver(route, c, top)
    BY <1>12
  <2>3. tx.lsn[c] = (FirstLsn + k) % 256 /\ FirstLsn \in Nat
    BY <1>8, <2>2, DataPathAssumption DEF LsnOf, LsnSpace
  <2>4. CASE c = d
    <3>1. tx'.lsn[c] = (tx.lsn[c] + 1) % 256
      BY <1>4, <2>4 DEF NextLsn, LsnSpace
    <3>2. (((FirstLsn + k) % 256) + 1) % 256 = (FirstLsn + (k + 1)) % 256
      BY <2>3
    <3>. QED  BY <1>6, <2>1, <2>2, <2>3, <2>4, <3>1, <3>2 DEF LsnOf, LsnSpace
  <2>5. CASE c # d
    <3>1. tx'.lsn[c] = tx.lsn[c]
      BY <1>4, <2>5 DEF NextLsn
    <3>2. NumberOver(other, c, tx'.sn) = k
      BY <1>6, <2>1, <2>2, <2>5
    <3>. QED  BY <1>8, <2>2, <3>1, <3>2
  <2>. QED  BY <2>4, <2>5
<1>14. ASSUME NEW c \in Cids
       PROVE  Carries(c, wire'[c], other, tx'.sn, last[c])
  <2>1. Carries(c, wire[c], route, top, last[c])
    BY <1>8
  <2>2. CASE c # d
    <3>1. wire'[c] = wire[c]
      BY <1>4, <2>2 DEF Put
    <3>. QED  BY <1>5, <1>6, <1>7, <2>1, <3>1, CarriesGrows
  <2>3. CASE c = d
    <3>1. wire'[c] = Append(wire[c], Packet(c, "data"))
      BY <1>4, <2>3 DEF Put
    <3>2. Packet(c, "data") = [kind |-> "data", cid |-> c, sn |-> top, lsn |-> LsnOf(NumberOver(other, c, top))]
      BY <1>8, <1>12 DEF Packet
    <3>3. Carries(c, wire[c], other, top, last[c])
      <4>1. ASSUME NEW i \in 1 .. Len(wire[c])
            PROVE  /\ other[wire[c][i].sn] = c
                   /\ wire[c][i].lsn = LsnOf(NumberOver(other, c, wire[c][i].sn))
        <5>1. Carries(c, wire[c], other, top + 1, last[c])
          BY <1>5, <1>7, <2>1, CarriesGrows
        <5>. QED  BY <5>1 DEF Carries
      <4>. QED  BY <2>1, <4>1 DEF Carries
    <3>4. last[c] \in FirstSn - 1 .. top - 1
      BY <1>8
    <3>. QED  BY <1>5, <1>6, <1>7, <2>3, <3>1, <3>2, <3>3, <3>4, CarriesNext
  <2>. QED  BY <2>2, <2>3
<1>15. Routed(other, last)'
  <2>1. \A c \in Cids : /\ tx'.lsn[c] = LsnOf(NumberOver(other, c, tx'.sn))
                        /\ Carries(c, wire'[c], other, tx'.sn, last[c])
    BY <1>13, <1>14
  <2>. QED  BY <1>9, <1>10, <1>11, <2>1 DEF Routed
<1>16. wire' = [c \in Cids |-> wire'[c]]
  BY <1>4 DEF Put
<1>17. spent'.packets \in 0 .. MaxPackets["split"] /\ tx'.sn = FirstSn + spent'.packets
  BY <1>2, <1>3, <1>5, <1>6
<1>. QED  BY <1>2, <1>3, <1>15, <1>16, <1>17 DEF OrderInv

\* Before the first packet
LEMMA InitOrder ==
  ASSUME Few, Init, mode = "split"
  PROVE  OrderInv
<1>. DEFINE last == [c \in Cids |-> FirstSn - 1]
            route == <<>>
<1>0. PICK useLsn \in LsnReordering :
        rx = [r |-> InitRx(FirstSn, FirstLsn, FALSE, useLsn), up |-> Cids, since |-> 1, start |-> FirstSn,
              lost |-> [c \in Cids |-> 0], lsn |-> [c \in Cids |-> (FirstLsn + LsnSpace - 1) % LsnSpace],
              gsn |-> [c \in Cids |-> (FirstSn + MaxSn) % SnSpace]]
  BY DEF Init
<1>1. DOMAIN rx = RxFields /\ rx.since = 1 /\ rx.r = InitRx(FirstSn, FirstLsn, FALSE, useLsn)
  BY <1>0 DEF RxFields
<1>2. DOMAIN spent = SpentFields /\ spent.packets = 0
  BY DEF Init, SpentFields
<1>3. tx.sn = FirstSn /\ tx.lsn = [c \in Cids |-> FirstLsn]
  BY DEF Init
<1>4. wire = [c \in Cids |-> <<>>]
  BY DEF Init
<1>5. FirstSn \in Nat /\ FirstSn < 16777216 /\ FirstLsn \in Nat /\ FirstLsn < 256 /\ LsnReordering \subseteq BOOLEAN
  BY DataPathAssumption DEF SnSpace, LsnSpace
<1>6. useLsn \in BOOLEAN /\ rx.r = InitRx(FirstSn, FirstLsn, FALSE, useLsn)
  BY <1>1, <1>5
<1>7. /\ rx.r.held = <<>> /\ rx.r.out = <<>> /\ ~rx.r.on /\ ~rx.r.timer /\ rx.r.expected = FirstSn
      /\ rx.r.lastSn = [c \in Cids |-> (FirstSn + MaxSn) % SnSpace]
      /\ rx.r.lastLsn = [c \in Cids |-> (FirstLsn + LsnSpace - 1) % LsnSpace]
      /\ DOMAIN rx.r = {"expected", "held", "on", "useLsn", "newCid", "lastSn", "lastLsn", "timer", "stopTimer", "out"}
  BY <1>6 DEF InitRx
<1>8. rx.r \in Receivers
  <2>1. \A c \in Cids : (FirstSn + MaxSn) % SnSpace \in Nat /\ (FirstLsn + LsnSpace - 1) % LsnSpace \in 0 .. LsnSpace - 1
    BY <1>5 DEF MaxSn, SnSpace, LsnSpace
  <2>2. /\ [c \in Cids |-> (FirstSn + MaxSn) % SnSpace] \in [Cids -> Nat]
        /\ [c \in Cids |-> (FirstLsn + LsnSpace - 1) % LsnSpace] \in [Cids -> 0 .. LsnSpace - 1]
    BY <2>1
  <2>3. <<>> \in Seq(Items) /\ <<>> \in Seq(Nat)
    OBVIOUS
  <2>. QED  BY <1>5, <1>6, <2>2, <2>3 DEF InitRx, Receivers
<1>9. last \in [Cids -> FirstSn - 1 .. tx.sn - 1] /\ \A c \in Cids : last[c] = FirstSn - 1
  BY <1>3, <1>5
<1>. HIDE DEF last, route
<1>10. \A c \in Cids : NumberOver(route, c, FirstSn) = 0
  BY <1>5, NumberNext
<1>11. Lasts(rx.r, route, last)
  <2>1. ASSUME NEW c \in Cids
        PROVE  rx.r.lastSn[c] = IF last[c] = -1 THEN MaxSn ELSE last[c]
    <3>1. (FirstSn + 16777215) % 16777216 = IF FirstSn = 0 THEN 16777215 ELSE FirstSn - 1
      BY <1>5, SMT
    <3>. QED  BY <1>5, <1>7, <1>9, <3>1 DEF MaxSn, SnSpace
  <2>2. ASSUME NEW c \in Cids
        PROVE  rx.r.lastLsn[c] = LsnOf(NumberOver(route, c, last[c] + 1) + LsnSpace - 1)
    <3>1. last[c] + 1 = FirstSn
      BY <1>5, <1>9
    <3>2. LsnOf(NumberOver(route, c, last[c] + 1) + LsnSpace - 1) = (FirstLsn + (0 + 256 - 1)) % 256
      BY <1>10, <3>1 DEF LsnOf, LsnSpace
    <3>. QED  BY <1>5, <1>7, <3>2 DEF LsnSpace
  <2>. QED  BY <2>1, <2>2 DEF Lasts
<1>12. Reorders(rx.r, rx.since, route, tx.sn, last)
  <2>1. Len(rx.r.held) = 0 /\ Len(rx.r.out) = 0 /\ 1 .. 0 = {} /\ 0 + 1 .. 0 = {}
    BY <1>7
  <2>2. rx.r.expected \in FirstSn .. tx.sn /\ \A c \in Cids : last[c] < rx.r.expected
    BY <1>3, <1>5, <1>7, <1>9
  <2>3. Orderly(rx.r, Len(rx.r.out) + 1, route, tx.sn, last)
    BY <1>8, <2>1, <2>2 DEF Orderly, InLines
  <2>. QED  BY <1>7, <1>9, <2>3 DEF Reorders
<1>13. ASSUME NEW c \in Cids
       PROVE  /\ tx.lsn[c] = LsnOf(NumberOver(route, c, tx.sn))
              /\ Carries(c, wire[c], route, tx.sn, last[c])
  <2>1. LsnOf(0) = FirstLsn
    BY <1>5 DEF LsnOf, LsnSpace
  <2>2. wire[c] = <<>> /\ <<>> \in Seq(PacketsOf(c)) /\ Len(wire[c]) = 0 /\ 1 .. 0 = {}
    BY <1>4
  <2>3. Carries(c, wire[c], route, tx.sn, last[c])
    BY <2>2 DEF Carries
  <2>. QED  BY <1>3, <1>10, <2>1, <2>3
<1>14. Routed(route, last)
  BY <1>9, <1>11, <1>12, <1>13 DEF Routed
<1>15. /\ wire = [c \in Cids |-> wire[c]] /\ rx.since \in Nat \ {0}
       /\ spent.packets \in 0 .. MaxPackets["split"] /\ tx.sn = FirstSn + spent.packets
  BY <1>1, <1>2, <1>3, <1>4, <1>5 DEF Few
<1>. QED  BY <1>1, <1>2, <1>14, <1>15 DEF OrderInv

\* The link that a flow was steered to is never awaited in split mode.
LEMMA NeverSteered ==
  ASSUME OrderInv
  PROVE  ~StopReorderTimeout
<1>1. PICK route, last : Reorders(rx.r, rx.since, route, tx.sn, last)
  BY DEF OrderInv, Routed
<1>2. rx.r \in Receivers
  BY <1>1 DEF Reorders, Orderly
<1>3. rx.r.stopTimer = FALSE
  BY <1>2 DEF Receivers
<1>. QED  BY <1>3 DEF StopReorderTimeout

\* Every step keeps the order.
LEMMA NextOrder ==
  ASSUME Few, TxInv(tx), mode = "split", OrderInv, [Next]_vars
  PROVE  OrderInv'
<1>1. CASE Transmit
  BY <1>1, TransmitOrder
<1>2. CASE SendTsu
  BY <1>2, SendTsuOrder
<1>3. CASE BecomesLate
  BY <1>3, BecomesLateOrder
<1>4. CASE ReorderingTimeout
  BY <1>4, TimeoutOrder
<1>5. CASE StopReorderTimeout
  BY <1>5, NeverSteered
<1>6. CASE ObeyTsu \/ UNCHANGED vars
  BY <1>6, QuietOrder
<1>7. ASSUME NEW c \in Cids, DrainEnds(c) \/ TxLinkDown(c) \/ TxLinkUp(c) \/ RxLinkChanges(c)
      PROVE  OrderInv'
  BY <1>7, QuietOrder
<1>8. ASSUME NEW c \in Cids, Receive(c)
      PROVE  OrderInv'
  BY <1>8, ReceiveOrder
<1>9. ASSUME NEW c \in Cids, Lose(c)
      PROVE  OrderInv'
  BY <1>9, LoseOrder
<1>. QED  BY <1>1, <1>2, <1>3, <1>4, <1>5, <1>6, <1>7, <1>8, <1>9 DEF Next

\* The mode is that of the beginning.
LEMMA SameMode ==
  ASSUME [Next]_vars
  PROVE  mode' = mode
BY DEF Next, vars, Transmit, ObeyTsu, SendTsu, BecomesLate, ReorderingTimeout, StopReorderTimeout, DrainEnds,
       TxLinkDown, TxLinkUp, TxEvent, Receive, Lose, RxLinkChanges

\* Numbers among few are not far apart.
LEMMA Near ==
  ASSUME NEW top, FewNumbers(top), FirstSn \in Nat, NEW e \in FirstSn .. top,
         NEW x \in FirstSn .. e - 1, NEW y \in FirstSn .. e - 1
  PROVE  x \in Nat /\ y \in Nat /\ x - y < Half
<1>1. top \in Nat /\ Half = 8388608 /\ top - FirstSn < 8388608
  BY DEF FewNumbers, Half, SnSpace
<1>. QED  BY <1>1

\* Packets in order are in serial order.
LEMMA OrderSuffices ==
  ASSUME Few, mode = "split" => OrderInv
  PROVE  InOrderSplit
<1>1. SUFFICES ASSUME mode = "split", rx.r.on, OrderInv,
                      NEW i \in rx.since .. Len(rx.r.out), NEW j \in rx.since .. Len(rx.r.out), i < j
               PROVE  SnDiff(rx.r.out[j], rx.r.out[i]) > 0
  BY DEF InOrderSplit, InOrder
<1>2. PICK route, last : Routed(route, last)
  BY <1>1 DEF OrderInv
<1>3. Orderly(rx.r, rx.since, route, tx.sn, last)
  BY <1>1, <1>2 DEF Routed, Reorders
<1>4. FewNumbers(tx.sn) /\ FirstSn \in Nat /\ tx.sn \in Nat
  BY <1>1, FewSent, DataPathAssumption
<1>5. /\ rx.r.expected \in FirstSn .. tx.sn /\ rx.r.out[i] < rx.r.out[j]
      /\ rx.r.out[i] \in FirstSn .. rx.r.expected - 1 /\ rx.r.out[j] \in FirstSn .. rx.r.expected - 1
  BY <1>1, <1>3 DEF Orderly
<1>6. /\ rx.r.out[i] \in Nat /\ rx.r.out[j] \in Nat
      /\ rx.r.out[i] - rx.r.out[j] < Half /\ rx.r.out[j] - rx.r.out[i] < Half
  BY <1>4, <1>5, Near
<1>7. SnDiff(rx.r.out[j], rx.r.out[i]) = rx.r.out[j] - rx.r.out[i]
  BY <1>6, SnDiffIs
<1>8. rx.r.out[j] - rx.r.out[i] > 0
  BY <1>5, <1>6
<1>. QED  BY <1>7, <1>8

\* In split mode packets are forwarded in the order of their numbers and none
\* twice while the reordering is on (GmaVirtualInterface::InOrderDelivery,
\* ReleaseMinSnPacket, ReleaseInOrderPackets), for any number of links, splits
\* and decisions, whatever is lost, is late, drains, goes down or comes up, as
\* long as the flow has sent fewer packets than half the space of the numbers
\* and has not come to the largest one, from which on both the comparison and
\* the search of the minimum are ambiguous.
THEOREM SplitInOrder ==
  ASSUME "split" \in Modes, FirstSn + MaxPackets["split"] <= MaxSn, MaxPackets["split"] < SnSpace \div 2
  PROVE  Spec => []InOrderSplit
<1>1. Few
  <2>1. MaxPackets["split"] \in Nat /\ FirstSn \in Nat
    BY DataPathAssumption
  <2>. QED  BY <2>1 DEF Few, FewNumbers, Half
<1>. DEFINE Inv == mode = "split" => OrderInv
<1>2. Init => Inv
  BY <1>1, InitOrder
<1>3. TxInv(tx) /\ Inv /\ [Next]_vars => Inv'
  BY <1>1, NextOrder, SameMode
<1>4. Inv => InOrderSplit
  BY <1>1, OrderSuffices
<1>. QED  BY <1>2, <1>3, <1>4, TxHolds, PTL DEF Spec

-----------------------------------------------------------------------------
\* The shares of the links

\* Bit n of i
Bit(i, n) == (i \div 2 ^ n) % 2

\* One bit more.
LEMMA SumTop ==
  ASSUME NEW n \in Nat, NEW f, \A b \in 0 .. n : f[b] \in Nat
  PROVE  SumFunctionOnSet(f, 0 .. n) = f[n] + SumFunctionOnSet(f, 0 .. n - 1)
<1>. DEFINE S == 0 .. n
<1>0. IsFiniteSet(S)
  BY FS_Interval
<1>1. IsFiniteSet(S) /\ n \in S /\ S \ {n} = 0 .. n - 1
  BY <1>0
<1>2. \A b \in S : f[b] \in Nat
  OBVIOUS
<1>. HIDE DEF S
<1>3. SumFunctionOnSet(f, S) = f[n] + SumFunctionOnSet(f, S \ {n})
  BY <1>1, <1>2, SumInsert
<1>. QED  BY <1>1, <1>3 DEF S

\* The bursts of splitting lists (but for that of steer mode, 1)
Bursts == {4, 8, 16, 32, 128}

\* The bits of a number
LEMMA BitIs ==
  ASSUME NEW i \in Nat
  PROVE  /\ Bit(i, 0) = i % 2 /\ Bit(i, 1) = (i \div 2) % 2 /\ Bit(i, 2) = (i \div 4) % 2
         /\ Bit(i, 3) = (i \div 8) % 2 /\ Bit(i, 4) = (i \div 16) % 2 /\ Bit(i, 5) = (i \div 32) % 2
         /\ Bit(i, 6) = (i \div 64) % 2
BY DEF Bit

\* Powers of 2
LEMMA PowerIs ==
  ASSUME NEW n \in 0 .. 7
  PROVE  2 ^ n = <<1, 2, 4, 8, 16, 32, 64, 128>>[n + 1] /\ 2 ^ n \in Nat
<1>1. n \in {0, 1, 2, 3, 4, 5, 6, 7}
  OBVIOUS
<1>2. CASE n = 0
  <2>1. 2 ^ n = 2 ^ 0
    BY <1>2, Zenon
  <2>. QED  BY <1>2, <2>1
<1>3. CASE n = 1
  <2>1. 2 ^ n = 2 ^ 1
    BY <1>3, Zenon
  <2>. QED  BY <1>3, <2>1
<1>4. CASE n = 2
  <2>1. 2 ^ n = 2 ^ 2
    BY <1>4, Zenon
  <2>. QED  BY <1>4, <2>1
<1>5. CASE n = 3
  <2>1. 2 ^ n = 2 ^ 3
    BY <1>5, Zenon
  <2>. QED  BY <1>5, <2>1
<1>6. CASE n = 4
  <2>1. 2 ^ n = 2 ^ 4
    BY <1>6, Zenon
  <2>. QED  BY <1>6, <2>1
<1>7. CASE n = 5
  <2>1. 2 ^ n = 2 ^ 5
    BY <1>7, Zenon
  <2>. QED  BY <1>7, <2>1
<1>8. CASE n = 6
  <2>1. 2 ^ n = 2 ^ 6
    BY <1>8, Zenon
  <2>. QED  BY <1>8, <2>1
<1>9. CASE n = 7
  <2>1. 2 ^ n = 2 ^ 7
    BY <1>9, Zenon
  <2>. QED  BY <1>9, <2>1
<1>. QED  BY <1>1, <1>2, <1>3, <1>4, <1>5, <1>6, <1>7, <1>8, <1>9

\* The next power
LEMMA PowerNext ==
  ASSUME NEW n \in 0 .. 6
  PROVE  2 ^ (n + 1) = 2 * 2 ^ n
<1>1. n \in {0, 1, 2, 3, 4, 5, 6} /\ n \in 0 .. 7 /\ n + 1 \in 0 .. 7
  OBVIOUS
<1>2. 2 ^ n = <<1, 2, 4, 8, 16, 32, 64, 128>>[n + 1]
  BY <1>1, PowerIs
<1>. DEFINE m == n + 1
<1>3. m \in 0 .. 7
  BY <1>1
<1>. HIDE DEF m
<1>4. 2 ^ m = <<1, 2, 4, 8, 16, 32, 64, 128>>[m + 1]
  BY <1>3, PowerIs
<1>. QED  BY <1>1, <1>2, <1>4 DEF m

\* A bit is 0 or 1.
LEMMA BitType ==
  ASSUME NEW i \in Nat, NEW b \in 0 .. 6
  PROVE  Bit(i, b) \in {0, 1}
<1>. DEFINE p == 2 ^ b
<1>1. p \in Nat \ {0}
  <2>1. b \in {0, 1, 2, 3, 4, 5, 6} /\ b \in 0 .. 7
    OBVIOUS
  <2>2. p = <<1, 2, 4, 8, 16, 32, 64, 128>>[b + 1]
    BY <2>1, PowerIs
  <2>. HIDE DEF p
  <2>. QED  BY <2>1, <2>2
<1>. HIDE DEF p
<1>2. (i \div p) % 2 \in {0, 1}
  BY <1>1
<1>. QED  BY <1>2 DEF Bit, p

\* ReverseBits finds the width of a burst.
LEMMA WidthIs ==
  ASSUME NEW w \in 0 .. 7, NEW burst, burst = 2 ^ w
  PROVE  (CHOOSE n \in 0 .. 7 : 2 ^ n = burst) = w
<1>1. ASSUME NEW n \in 0 .. 7, 2 ^ n = burst PROVE n = w
  <2>2. 2 ^ n = <<1, 2, 4, 8, 16, 32, 64, 128>>[n + 1] /\ 2 ^ w = <<1, 2, 4, 8, 16, 32, 64, 128>>[w + 1]
    BY PowerIs
  <2>1. <<1, 2, 4, 8, 16, 32, 64, 128>>[n + 1] = <<1, 2, 4, 8, 16, 32, 64, 128>>[w + 1]
    BY <1>1, <2>2
  <2>. QED  BY <2>1
<1>. QED  BY <1>1

\* The first w bits of i in reverse order
Reversed(i, w) == SumFunctionOnSet([b \in 0 .. w - 1 |-> Bit(i, b) * 2 ^ (w - 1 - b)], 0 .. w - 1)

\* ReverseBits reverses that many bits.
LEMMA ReverseIs ==
  ASSUME NEW i \in Nat, NEW w \in 0 .. 7, NEW burst, burst = 2 ^ w
  PROVE  ReverseBits(i, burst) = Reversed(i, w)
<1>. DEFINE f == [b \in 0 .. w - 1 |-> ((i \div 2 ^ b) % 2) * 2 ^ (w - 1 - b)]
            Sum(v) == SumFunction([b \in 0 .. v - 1 |-> ((i \div 2 ^ b) % 2) * 2 ^ (v - 1 - b)])
<1>0. ReverseBits(i, burst) = Sum(CHOOSE n \in 0 .. 7 : 2 ^ n = burst)
  BY DEF ReverseBits
<1>4. (CHOOSE n \in 0 .. 7 : 2 ^ n = burst) = w
  BY WidthIs
<1>1. ReverseBits(i, burst) = SumFunction(f)
  <2>. HIDE DEF Sum
  <2>1. ReverseBits(i, burst) = Sum(w)
    BY <1>0, <1>4
  <2>. QED  BY <2>1 DEF Sum
<1>2. f = [b \in 0 .. w - 1 |-> Bit(i, b) * 2 ^ (w - 1 - b)]
  BY DEF Bit
<1>3. DOMAIN f = 0 .. w - 1
  OBVIOUS
<1>. QED  BY <1>1, <1>2, <1>3 DEF SumFunction, Reversed

\* One bit more
LEMMA ReverseStep ==
  ASSUME NEW i \in Nat, NEW w \in 0 .. 6
  PROVE  Reversed(i, w + 1) = 2 * Reversed(i, w) + Bit(i, w)
<1>. DEFINE f == [b \in 0 .. w - 1 |-> Bit(i, b) * 2 ^ (w - 1 - b)]
            g == [b \in 0 .. w |-> Bit(i, b) * 2 ^ (w - b)]
            S == 0 .. w - 1
<1>1. \A b \in 0 .. w : Bit(i, b) = 0 \/ Bit(i, b) = 1
  <2>. TAKE b \in 0 .. w
  <2>1. b \in 0 .. 6
    OBVIOUS
  <2>. QED  BY <2>1, BitType
<1>2. \A n \in 0 .. 7 : 2 ^ n \in Nat
  BY PowerIs
<1>3. 2 ^ 0 = 1
  OBVIOUS
<1>4. \A n \in 0 .. 6 : 2 ^ (n + 1) = 2 * 2 ^ n
  BY PowerNext
<1>5. \A b \in S : f[b] = Bit(i, b) * 2 ^ (w - 1 - b) /\ f[b] \in Nat
  <2>. TAKE b \in S
  <2>1. w - 1 - b \in 0 .. 7 /\ b \in 0 .. w
    OBVIOUS
  <2>2. f[b] = Bit(i, b) * 2 ^ (w - 1 - b)
    OBVIOUS
  <2>. HIDE DEF f
  <2>3. Bit(i, b) = 0 \/ Bit(i, b) = 1
    BY <1>1, <2>1
  <2>4. 2 ^ (w - 1 - b) \in Nat
    BY <1>2, <2>1
  <2>. QED  BY <2>2, <2>3, <2>4
<1>6. \A b \in 0 .. w : g[b] = Bit(i, b) * 2 ^ (w - b) /\ g[b] \in Nat
  <2>. TAKE b \in 0 .. w
  <2>1. w - b \in 0 .. 7
    OBVIOUS
  <2>2. g[b] = Bit(i, b) * 2 ^ (w - b)
    OBVIOUS
  <2>. HIDE DEF g
  <2>3. Bit(i, b) = 0 \/ Bit(i, b) = 1
    BY <1>1
  <2>4. 2 ^ (w - b) \in Nat
    BY <1>2, <2>1
  <2>. QED  BY <2>2, <2>3, <2>4
<1>7. Reversed(i, w) = SumFunctionOnSet(f, S)
  BY DEF Reversed
<1>8. Reversed(i, w + 1) = SumFunctionOnSet(g, 0 .. w)
  <2>1. (w + 1) - 1 = w
    OBVIOUS
  <2>. QED  BY <2>1 DEF Reversed
<1>. HIDE DEF f, g
<1>9. SumFunctionOnSet(g, 0 .. w) = g[w] + SumFunctionOnSet(g, S)
  BY <1>6, SumTop
<1>10. g[w] = Bit(i, w)
  <2>1. w - w = 0 /\ w \in 0 .. w
    OBVIOUS
  <2>2. g[w] = Bit(i, w) * 2 ^ 0
    BY <1>6, <2>1
  <2>. QED  BY <1>1, <1>3, <2>1, <2>2
<1>11. \A b \in S : f[b] \in Nat /\ g[b] = f[b] + f[b]
  <2>. TAKE b \in S
  <2>1. w - 1 - b \in 0 .. 6 /\ (w - 1 - b) + 1 = w - b /\ b \in 0 .. w
    OBVIOUS
  <2>2. 2 ^ (w - b) = 2 * 2 ^ (w - 1 - b) /\ 2 ^ (w - 1 - b) \in Nat
    <3>. DEFINE n == w - 1 - b
    <3>1. n \in 0 .. 6 /\ n \in 0 .. 7 /\ n + 1 = w - b
      BY <2>1
    <3>. HIDE DEF n
    <3>2. 2 ^ (n + 1) = 2 * 2 ^ n /\ 2 ^ n \in Nat
      BY <1>2, <1>4, <3>1
    <3>3. 2 ^ (n + 1) = 2 ^ (w - b)
      BY <3>1, Zenon
    <3>. QED  BY <3>2, <3>3 DEF n
  <2>3. g[b] = Bit(i, b) * 2 ^ (w - b) /\ f[b] = Bit(i, b) * 2 ^ (w - 1 - b)
    BY <1>5, <1>6, <2>1
  <2>4. Bit(i, b) = 0 \/ Bit(i, b) = 1
    BY <1>1, <2>1
  <2>. QED  BY <2>2, <2>3, <2>4
<1>12. IsFiniteSet(S)
  BY FS_Interval
<1>. HIDE DEF S
<1>13. SumFunctionOnSet(g, S) = SumFunctionOnSet(f, S) + SumFunctionOnSet(f, S)
  BY <1>11, <1>12, SumOfSums
<1>14. SumFunctionOnSet(f, S) \in Nat
  BY <1>11, <1>12, SumType
<1>15. Bit(i, w) \in Nat
  BY <1>1
<1>. QED  BY <1>7, <1>8, <1>9, <1>10, <1>13, <1>14, <1>15

\* The reversed bits, for each width
LEMMA ReversedAre ==
  ASSUME NEW i \in Nat
  PROVE  /\ Reversed(i, 0) = 0
         /\ Reversed(i, 1) = Bit(i, 0)
         /\ Reversed(i, 2) = 2 * Bit(i, 0) + Bit(i, 1)
         /\ Reversed(i, 3) = 4 * Bit(i, 0) + 2 * Bit(i, 1) + Bit(i, 2)
         /\ Reversed(i, 4) = 8 * Bit(i, 0) + 4 * Bit(i, 1) + 2 * Bit(i, 2) + Bit(i, 3)
         /\ Reversed(i, 5) = 16 * Bit(i, 0) + 8 * Bit(i, 1) + 4 * Bit(i, 2) + 2 * Bit(i, 3) + Bit(i, 4)
         /\ Reversed(i, 7) = 64 * Bit(i, 0) + 32 * Bit(i, 1) + 16 * Bit(i, 2) + 8 * Bit(i, 3)
                             + 4 * Bit(i, 4) + 2 * Bit(i, 5) + Bit(i, 6)
<1>1. Reversed(i, 0) = 0
  <2>1. 0 .. 0 - 1 = {}
    OBVIOUS
  <2>. QED  BY <2>1, SumEmpty DEF Reversed
<1>2. \A b \in 0 .. 6 : Bit(i, b) \in Int
  <2>1. \A b \in 0 .. 6 : Bit(i, b) \in {0, 1}
    BY BitType
  <2>. QED  BY <2>1
<1>3. /\ Reversed(i, 0 + 1) = 2 * Reversed(i, 0) + Bit(i, 0)
      /\ Reversed(i, 1 + 1) = 2 * Reversed(i, 1) + Bit(i, 1)
      /\ Reversed(i, 2 + 1) = 2 * Reversed(i, 2) + Bit(i, 2)
      /\ Reversed(i, 3 + 1) = 2 * Reversed(i, 3) + Bit(i, 3)
      /\ Reversed(i, 4 + 1) = 2 * Reversed(i, 4) + Bit(i, 4)
      /\ Reversed(i, 5 + 1) = 2 * Reversed(i, 5) + Bit(i, 5)
      /\ Reversed(i, 6 + 1) = 2 * Reversed(i, 6) + Bit(i, 6)
  BY ReverseStep
<1>4. /\ Bit(i, 0) \in Int /\ Bit(i, 1) \in Int /\ Bit(i, 2) \in Int /\ Bit(i, 3) \in Int /\ Bit(i, 4) \in Int
      /\ Bit(i, 5) \in Int /\ Bit(i, 6) \in Int
  BY <1>2
<1>5. Reversed(i, 1) = Bit(i, 0)
  BY <1>1, <1>3, <1>4
<1>6. Reversed(i, 2) = 2 * Bit(i, 0) + Bit(i, 1)
  BY <1>3, <1>5
<1>7. Reversed(i, 3) = 4 * Bit(i, 0) + 2 * Bit(i, 1) + Bit(i, 2)
  BY <1>3, <1>4, <1>6
<1>8. Reversed(i, 4) = 8 * Bit(i, 0) + 4 * Bit(i, 1) + 2 * Bit(i, 2) + Bit(i, 3)
  BY <1>3, <1>4, <1>7
<1>9. Reversed(i, 5) = 16 * Bit(i, 0) + 8 * Bit(i, 1) + 4 * Bit(i, 2) + 2 * Bit(i, 3) + Bit(i, 4)
  BY <1>3, <1>4, <1>8
<1>10. Reversed(i, 6) = 32 * Bit(i, 0) + 16 * Bit(i, 1) + 8 * Bit(i, 2) + 4 * Bit(i, 3) + 2 * Bit(i, 4) + Bit(i, 5)
  BY <1>3, <1>4, <1>9
<1>11. Reversed(i, 7) = 64 * Bit(i, 0) + 32 * Bit(i, 1) + 16 * Bit(i, 2) + 8 * Bit(i, 3)
                       + 4 * Bit(i, 4) + 2 * Bit(i, 5) + Bit(i, 6)
  BY <1>3, <1>4, <1>10
<1>. QED  BY <1>1, <1>5, <1>6, <1>7, <1>8, <1>9, <1>11

\* Bits that make a number
LEMMA OfBits ==
  ASSUME NEW b0 \in {0, 1}, NEW b1 \in {0, 1}, NEW b2 \in {0, 1}, NEW b3 \in {0, 1}, NEW b4 \in {0, 1},
         NEW b5 \in {0, 1}, NEW b6 \in {0, 1}
  PROVE  LET i == 64 * b6 + 32 * b5 + 16 * b4 + 8 * b3 + 4 * b2 + 2 * b1 + b0
         IN  /\ i \in 0 .. 127
             /\ Bit(i, 0) = b0 /\ Bit(i, 1) = b1 /\ Bit(i, 2) = b2 /\ Bit(i, 3) = b3 /\ Bit(i, 4) = b4
             /\ Bit(i, 5) = b5 /\ Bit(i, 6) = b6
<1>. DEFINE i == 64 * b6 + 32 * b5 + 16 * b4 + 8 * b3 + 4 * b2 + 2 * b1 + b0
<1>1. /\ i \in 0 .. 127 /\ i \in Nat
      /\ i % 2 = b0 /\ (i \div 2) % 2 = b1 /\ (i \div 4) % 2 = b2 /\ (i \div 8) % 2 = b3
      /\ (i \div 16) % 2 = b4 /\ (i \div 32) % 2 = b5 /\ (i \div 64) % 2 = b6
  OBVIOUS
<1>. HIDE DEF i
<1>2. /\ Bit(i, 0) = i % 2 /\ Bit(i, 1) = (i \div 2) % 2 /\ Bit(i, 2) = (i \div 4) % 2
      /\ Bit(i, 3) = (i \div 8) % 2 /\ Bit(i, 4) = (i \div 16) % 2 /\ Bit(i, 5) = (i \div 32) % 2
      /\ Bit(i, 6) = (i \div 64) % 2
  BY <1>1, BitIs
<1>. QED  BY <1>1, <1>2 DEF i

\* The reversed index is one of the burst, its reverse is the index, and it is
\* even for the first half of the burst.
LEMMA ReverseTwice ==
  ASSUME NEW burst \in Bursts, NEW i \in 0 .. burst - 1
  PROVE  LET r == ReverseBits(i, burst)
         IN  r \in 0 .. burst - 1 /\ ReverseBits(r, burst) = i /\ (i < burst \div 2 <=> r % 2 = 0)
<1>. DEFINE a == Bit(i, 0)  b == Bit(i, 1)  c == Bit(i, 2)  d == Bit(i, 3)  e == Bit(i, 4)
            f == Bit(i, 5)  g == Bit(i, 6)
            r == ReverseBits(i, burst)
<1>1. i \in Nat
  BY DEF Bursts
<1>2. /\ a \in {0, 1} /\ b \in {0, 1} /\ c \in {0, 1} /\ d \in {0, 1} /\ e \in {0, 1}
      /\ f \in {0, 1} /\ g \in {0, 1}
  BY <1>1, BitType
<1>3. i < 128 => i = 64 * g + 32 * f + 16 * e + 8 * d + 4 * c + 2 * b + a
  <2>1. /\ a = i % 2 /\ b = (i \div 2) % 2 /\ c = (i \div 4) % 2
        /\ d = (i \div 8) % 2 /\ e = (i \div 16) % 2 /\ f = (i \div 32) % 2
        /\ g = (i \div 64) % 2
    BY <1>1, BitIs
  <2>. HIDE DEF a, b, c, d, e, f, g
  <2>. QED  BY <1>1, <2>1
<1>4. CASE burst = 4
  <2>0. 4 = 2 ^ 2 /\ i \in 0 .. 3
    BY <1>4
  <2>1. r = 2 * a + b
    BY <1>1, <1>4, <2>0, ReverseIs, ReversedAre
  <2>. HIDE DEF a, b, c, d, e, f, g, r
  <2>2. r \in 0 .. 3 /\ r \in Nat
    BY <1>2, <2>1
  <2>3. Bit(r, 0) = b /\ Bit(r, 1) = a
    <3>1. r = 64 * 0 + 32 * 0 + 16 * 0 + 8 * 0 + 4 * 0 + 2 * a + b
      BY <1>2, <2>1
    <3>2. 0 \in {0, 1}
      OBVIOUS
    <3>. QED  BY <1>2, <3>1, <3>2, OfBits
  <2>4. ReverseBits(r, 4) = 2 * b + a
    BY <2>0, <2>2, <2>3, ReverseIs, ReversedAre
  <2>5. i = 2 * b + a
    BY <1>2, <1>3, <2>0
  <2>6. r % 2 = b /\ (i < 2 <=> b = 0)
    BY <1>2, <2>1, <2>5
  <2>7. 4 \div 2 = 2
    OBVIOUS
  <2>. QED  BY <1>4, <2>2, <2>4, <2>5, <2>6, <2>7 DEF r
<1>5. CASE burst = 8
  <2>0. 8 = 2 ^ 3 /\ i \in 0 .. 7
    BY <1>5
  <2>1. r = 4 * a + 2 * b + c
    BY <1>1, <1>5, <2>0, ReverseIs, ReversedAre
  <2>. HIDE DEF a, b, c, d, e, f, g, r
  <2>2. r \in 0 .. 7 /\ r \in Nat
    BY <1>2, <2>1
  <2>3. Bit(r, 0) = c /\ Bit(r, 1) = b /\ Bit(r, 2) = a
    <3>1. r = 64 * 0 + 32 * 0 + 16 * 0 + 8 * 0 + 4 * a + 2 * b + c
      BY <1>2, <2>1
    <3>2. 0 \in {0, 1}
      OBVIOUS
    <3>. QED  BY <1>2, <3>1, <3>2, OfBits
  <2>4. ReverseBits(r, 8) = 4 * c + 2 * b + a
    BY <2>0, <2>2, <2>3, ReverseIs, ReversedAre
  <2>5. i = 4 * c + 2 * b + a
    BY <1>2, <1>3, <2>0
  <2>6. r % 2 = c /\ (i < 4 <=> c = 0)
    BY <1>2, <2>1, <2>5
  <2>7. 8 \div 2 = 4
    OBVIOUS
  <2>. QED  BY <1>5, <2>2, <2>4, <2>5, <2>6, <2>7 DEF r
<1>6. CASE burst = 16
  <2>0. 16 = 2 ^ 4 /\ i \in 0 .. 15
    BY <1>6
  <2>1. r = 8 * a + 4 * b + 2 * c + d
    BY <1>1, <1>6, <2>0, ReverseIs, ReversedAre
  <2>. HIDE DEF a, b, c, d, e, f, g, r
  <2>2. r \in 0 .. 15 /\ r \in Nat
    BY <1>2, <2>1
  <2>3. Bit(r, 0) = d /\ Bit(r, 1) = c /\ Bit(r, 2) = b /\ Bit(r, 3) = a
    <3>1. r = 64 * 0 + 32 * 0 + 16 * 0 + 8 * a + 4 * b + 2 * c + d
      BY <1>2, <2>1
    <3>2. 0 \in {0, 1}
      OBVIOUS
    <3>. QED  BY <1>2, <3>1, <3>2, OfBits
  <2>4. ReverseBits(r, 16) = 8 * d + 4 * c + 2 * b + a
    BY <2>0, <2>2, <2>3, ReverseIs, ReversedAre
  <2>5. i = 8 * d + 4 * c + 2 * b + a
    BY <1>2, <1>3, <2>0
  <2>6. r % 2 = d /\ (i < 8 <=> d = 0)
    BY <1>2, <2>1, <2>5
  <2>7. 16 \div 2 = 8
    OBVIOUS
  <2>. QED  BY <1>6, <2>2, <2>4, <2>5, <2>6, <2>7 DEF r
<1>7. CASE burst = 32
  <2>0. 32 = 2 ^ 5 /\ i \in 0 .. 31
    BY <1>7
  <2>1. r = 16 * a + 8 * b + 4 * c + 2 * d + e
    BY <1>1, <1>7, <2>0, ReverseIs, ReversedAre
  <2>. HIDE DEF a, b, c, d, e, f, g, r
  <2>2. r \in 0 .. 31 /\ r \in Nat
    BY <1>2, <2>1
  <2>3. Bit(r, 0) = e /\ Bit(r, 1) = d /\ Bit(r, 2) = c /\ Bit(r, 3) = b /\ Bit(r, 4) = a
    <3>1. r = 64 * 0 + 32 * 0 + 16 * a + 8 * b + 4 * c + 2 * d + e
      BY <1>2, <2>1
    <3>2. 0 \in {0, 1}
      OBVIOUS
    <3>. QED  BY <1>2, <3>1, <3>2, OfBits
  <2>4. ReverseBits(r, 32) = 16 * e + 8 * d + 4 * c + 2 * b + a
    BY <2>0, <2>2, <2>3, ReverseIs, ReversedAre
  <2>5. i = 16 * e + 8 * d + 4 * c + 2 * b + a
    BY <1>2, <1>3, <2>0
  <2>6. r % 2 = e /\ (i < 16 <=> e = 0)
    BY <1>2, <2>1, <2>5
  <2>7. 32 \div 2 = 16
    OBVIOUS
  <2>. QED  BY <1>7, <2>2, <2>4, <2>5, <2>6, <2>7 DEF r
<1>8. CASE burst = 128
  <2>0. 128 = 2 ^ 7 /\ i \in 0 .. 127
    BY <1>8
  <2>1. r = 64 * a + 32 * b + 16 * c + 8 * d + 4 * e + 2 * f + g
    BY <1>1, <1>8, <2>0, ReverseIs, ReversedAre
  <2>. HIDE DEF a, b, c, d, e, f, g, r
  <2>2. r \in 0 .. 127 /\ r \in Nat
    BY <1>2, <2>1
  <2>3. Bit(r, 0) = g /\ Bit(r, 1) = f /\ Bit(r, 2) = e /\ Bit(r, 3) = d /\ Bit(r, 4) = c /\ Bit(r, 5) = b /\ Bit(r, 6) = a
    <3>1. r = 64 * a + 32 * b + 16 * c + 8 * d + 4 * e + 2 * f + g
      BY <1>2, <2>1
    <3>2. 0 \in {0, 1}
      OBVIOUS
    <3>. QED  BY <1>2, <3>1, <3>2, OfBits
  <2>4. ReverseBits(r, 128) = 64 * g + 32 * f + 16 * e + 8 * d + 4 * c + 2 * b + a
    BY <2>0, <2>2, <2>3, ReverseIs, ReversedAre
  <2>5. i = 64 * g + 32 * f + 16 * e + 8 * d + 4 * c + 2 * b + a
    BY <1>2, <1>3, <2>0
  <2>6. r % 2 = g /\ (i < 64 <=> g = 0)
    BY <1>2, <2>1, <2>5
  <2>7. 128 \div 2 = 64
    OBVIOUS
  <2>. QED  BY <1>8, <2>2, <2>4, <2>5, <2>6, <2>7 DEF r
<1>. QED  BY <1>4, <1>5, <1>6, <1>7, <1>8 DEF Bursts

\* The position after which link c comes in a list that keeps the order
Below(k, c) == SumFunctionOnSet(k, CidsBelow(c))

\* Where the packets of link c begin and end in a list that keeps the order;
\* those of a larger link come after.
LEMMA BelowIs ==
  ASSUME NEW k \in [Cids -> Nat], NEW c \in Cids
  PROVE  /\ SumFunction([d \in CidsBelow(c) |-> k[d]]) = Below(k, c)
         /\ Below(k, c) \in Nat /\ Below(k, c) + k[c] <= Burst(k)
         /\ \A d \in Cids : c < d => Below(k, c) + k[c] <= Below(k, d)
<1>. DEFINE S == CidsBelow(c)
            f == [d \in S |-> k[d]]
<1>1. IsFiniteSet(Cids) /\ Cids \in SUBSET Int
  BY CidsFinite
<1>2. S \in SUBSET Cids /\ c \notin S
  <2>. HIDE DEF f
  <2>. QED  BY <1>1 DEF CidsBelow
<1>3. IsFiniteSet(S) /\ \A d \in S : k[d] \in Nat /\ f[d] = k[d]
  BY <1>1, <1>2, FS_Subset
<1>4. SumFunction(f) = SumFunctionOnSet(k, S)
  <2>1. SumFunction(f) = SumFunctionOnSet(f, S)
    BY DEF SumFunction
  <2>. HIDE DEF f, S
  <2>2. SumFunctionOnSet(f, S) = SumFunctionOnSet(k, S)
    BY <1>3, SumEqual
  <2>. QED  BY <2>1, <2>2
<1>5. Below(k, c) \in Nat
  <2>. HIDE DEF S
  <2>. QED  BY <1>3, SumType DEF Below, S
<1>6. ASSUME NEW A \in SUBSET Cids, S \cup {c} \subseteq A
      PROVE  Below(k, c) + k[c] <= SumFunctionOnSet(k, A)
  <2>. DEFINE T == S \cup {c}
              g == [d \in Cids |-> IF d \in T THEN k[d] ELSE 0]
              h == [d \in Cids |-> IF d \in T THEN 0 ELSE k[d]]
  <2>1. IsFiniteSet(A) /\ IsFiniteSet(T) /\ T \in SUBSET A /\ A \in SUBSET Cids
    BY <1>1, <1>2, <1>6, FS_Subset
  <2>2. SumFunctionOnSet(k, T) = k[c] + SumFunctionOnSet(k, S)
    <3>1. T \ {c} = S /\ c \in T /\ \A d \in T : k[d] \in Nat
      BY <1>2
    <3>. HIDE DEF T, S
    <3>. QED  BY <2>1, <3>1, SumInsert
  <2>3. \A d \in A : g[d] \in Nat /\ h[d] \in Nat /\ k[d] = g[d] + h[d]
    BY <2>1
  <2>4. \A d \in A \ T : g[d] = 0
    BY <2>1
  <2>5. \A d \in T : g[d] = k[d] /\ g[d] \in Nat
    BY <2>1
  <2>. HIDE DEF T, g, h, S
  <2>6. SumFunctionOnSet(k, A) = SumFunctionOnSet(g, A) + SumFunctionOnSet(h, A)
    BY <2>1, <2>3, SumOfSums
  <2>7. SumFunctionOnSet(g, A) = SumFunctionOnSet(g, T)
    BY <2>1, <2>3, <2>4, SumSupport
  <2>8. SumFunctionOnSet(g, T) = SumFunctionOnSet(k, T)
    BY <2>1, <2>5, SumEqual
  <2>9. SumFunctionOnSet(h, A) \in Nat
    BY <2>1, <2>3, SumType
  <2>10. SumFunctionOnSet(k, S) \in Nat /\ k[c] \in Nat
    BY <1>3, <1>5 DEF Below, S
  <2>. QED  BY <2>2, <2>6, <2>7, <2>8, <2>9, <2>10 DEF Below, S
<1>7. Below(k, c) + k[c] <= Burst(k)
  <2>. HIDE DEF f
  <2>. QED  BY <1>2, <1>6, BurstOnCids
<1>8. ASSUME NEW d \in Cids, c < d
      PROVE  Below(k, c) + k[c] <= Below(k, d)
  <2>1. CidsBelow(d) \in SUBSET Cids /\ S \cup {c} \subseteq CidsBelow(d)
    <3>1. \A e \in S : e \in CidsBelow(d)
      <4>. TAKE e \in S
      <4>1. e \in Cids /\ e < c /\ e \in Int /\ c \in Int /\ d \in Int
        BY <1>1 DEF CidsBelow
      <4>. QED  BY <1>8, <4>1 DEF CidsBelow
    <3>2. c \in CidsBelow(d) /\ CidsBelow(d) \in SUBSET Cids
      BY <1>8 DEF CidsBelow
    <3>. HIDE DEF S
    <3>. QED  BY <3>1, <3>2
  <2>. QED  BY <1>6, <2>1 DEF Below
<1>9. SumFunction([d \in CidsBelow(c) |-> k[d]]) = Below(k, c)
  BY <1>4 DEF Below
<1>. QED  BY <1>5, <1>7, <1>8, <1>9

\* Each position of a list in order has one link.
LEMMA InOrderIs ==
  ASSUME NEW k \in [Cids -> Nat], NEW B \in Nat, Burst(k) = B
  PROVE  LET q == InOrderCids(k)
         IN  /\ q \in Seq(Cids) /\ Len(q) = B /\ DOMAIN q = 1 .. B
             /\ \A i \in 1 .. B : q[i] \in Cids /\ k[q[i]] > 0
             /\ \A i \in 1 .. B, c \in Cids : q[i] = c <=> Below(k, c) < i /\ i <= Below(k, c) + k[c]
<1>. DEFINE At(i, c) == Below(k, c) < i /\ i <= Below(k, c) + k[c]
            q == [i \in 1 .. B |-> CHOOSE c \in Cids : At(i, c)]
<1>0. IsFiniteSet(Cids) /\ Cids \in SUBSET Int
  BY CidsFinite
<1>1. InOrderCids(k) = q
  <2>. DEFINE Before(c) == SumFunction([d \in CidsBelow(c) |-> k[d]])
  <2>1. \A c \in Cids : Before(c) = Below(k, c)
    BY BelowIs
  <2>. HIDE DEF Before
  <2>2. \A i \in 1 .. B : (CHOOSE c \in Cids : Before(c) < i /\ i <= Before(c) + k[c]) = CHOOSE c \in Cids : At(i, c)
    BY <2>1
  <2>3. InOrderCids(k) = [i \in 1 .. B |-> CHOOSE c \in Cids : Before(c) < i /\ i <= Before(c) + k[c]]
    BY DEF InOrderCids, Before
  <2>. HIDE DEF At
  <2>. QED  BY <2>2, <2>3
<1>2. \A c, d \in Cids, i \in 1 .. B : At(i, c) /\ At(i, d) => c = d
  <2>. TAKE c, d \in Cids, i \in 1 .. B
  <2>1. Below(k, c) \in Nat /\ Below(k, d) \in Nat /\ k[c] \in Nat /\ k[d] \in Nat
    BY BelowIs
  <2>2. c \in Int /\ d \in Int
    BY <1>0
  <2>3. (c < d => Below(k, c) + k[c] <= Below(k, d)) /\ (d < c => Below(k, d) + k[d] <= Below(k, c))
    BY BelowIs
  <2>. QED  BY <2>1, <2>2, <2>3
<1>3. ASSUME NEW i \in 1 .. B PROVE \E c \in Cids : At(i, c)
  <2>. DEFINE C == {c \in Cids : i <= Below(k, c) + k[c]}
              Under(c) == CidsBelow(c)
  <2>1. ASSUME NEW c \in Cids, \A d \in Cids : d <= c
        PROVE  Below(k, c) + k[c] = B
    <3>1. CidsBelow(c) = Cids \ {c}
      <4>1. ASSUME NEW d \in Cids PROVE d \in CidsBelow(c) <=> d # c
        <5>1. d \in Int /\ c \in Int /\ d <= c
          BY <1>0, <2>1
        <5>. QED  BY <5>1 DEF CidsBelow
      <4>2. CidsBelow(c) \subseteq Cids
        BY DEF CidsBelow
      <4>. QED  BY <4>1, <4>2
    <3>2. SumFunctionOnSet(k, Cids) = k[c] + SumFunctionOnSet(k, Cids \ {c})
      BY <1>0, SumInsert
    <3>3. SumFunctionOnSet(k, Cids \ {c}) \in Nat
      BY <3>1, BelowIs DEF Below
    <3>. QED  BY <3>1, <3>2, <3>3, BurstOnCids DEF Below
  <2>2. PICK m \in Cids : \A d \in Cids : d <= m
    BY <1>0, CidsFinite, LargestElement
  <2>3. m \in C
    BY <2>1, <2>2
  <2>4. C \in SUBSET Int /\ IsFiniteSet(C) /\ C # {}
    BY <1>0, <2>3, FS_Subset
  <2>5. PICK c \in C : \A d \in C : c <= d
    <3>. HIDE DEF C
    <3>. QED  BY <2>4, SmallestElement
  <2>6. c \in Cids /\ i <= Below(k, c) + k[c] /\ Below(k, c) \in Nat
    BY <2>5, BelowIs
  <2>7. Below(k, c) < i
    <3>1. CASE CidsBelow(c) = {}
      <4>1. Below(k, c) = 0
        BY <3>1, SumEmpty DEF Below
      <4>. QED  BY <4>1
    <3>2. CASE CidsBelow(c) # {}
      <4>1. IsFiniteSet(CidsBelow(c)) /\ CidsBelow(c) \in SUBSET Int /\ CidsBelow(c) \in SUBSET Cids
        BY <1>0, FS_Subset DEF CidsBelow
      <4>2. PICK d \in CidsBelow(c) : \A e \in CidsBelow(c) : e <= d
        BY <3>2, <4>1, LargestElement
      <4>3. d \in Cids /\ d < c /\ d \notin C
        BY <1>0, <2>5, <2>6, <4>1, <4>2 DEF CidsBelow
      <4>4. CidsBelow(c) \ {d} = CidsBelow(d)
        <5>1. CidsBelow(d) \subseteq CidsBelow(c) \ {d}
          <6>. SUFFICES ASSUME NEW e \in CidsBelow(d) PROVE e \in CidsBelow(c) \ {d}
            OBVIOUS
          <6>1. e \in Cids /\ e < d /\ e \in Int /\ d \in Int /\ c \in Int
            BY <1>0, <2>6, <4>3 DEF CidsBelow
          <6>. QED  BY <4>3, <6>1 DEF CidsBelow
        <5>2. ASSUME NEW e \in CidsBelow(c) \ {d} PROVE e \in CidsBelow(d)
          <6>1. e \in Cids /\ e \in Int /\ d \in Int /\ e <= d /\ e # d
            BY <1>0, <4>1, <4>2
          <6>. QED  BY <6>1 DEF CidsBelow
        <5>. QED  BY <5>1, <5>2
      <4>5. Below(k, c) = k[d] + Below(k, d)
        <5>1. \A e \in CidsBelow(c) : k[e] \in Nat
          BY <4>1
        <5>. QED  BY <4>1, <4>2, <4>4, <5>1, SumInsert DEF Below
      <4>6. ~(i <= Below(k, d) + k[d]) /\ Below(k, d) \in Nat /\ k[d] \in Nat
        BY <4>3, BelowIs
      <4>. QED  BY <4>5, <4>6
    <3>. QED  BY <3>1, <3>2
  <2>. QED  BY <2>6, <2>7
<1>4. \A i \in 1 .. B : q[i] \in Cids /\ At(i, q[i])
  <2>. TAKE i \in 1 .. B
  <2>1. q[i] = CHOOSE c \in Cids : At(i, c)
    OBVIOUS
  <2>2. \E c \in Cids : At(i, c)
    BY <1>3
  <2>. HIDE DEF q, At
  <2>. QED  BY <2>1, <2>2
<1>5. q \in Seq(Cids) /\ Len(q) = B /\ DOMAIN q = 1 .. B
  <2>1. q = [i \in 1 .. B |-> q[i]]
    OBVIOUS
  <2>. HIDE DEF q, At
  <2>2. q \in [1 .. B -> Cids]
    BY <1>4, <2>1
  <2>. QED  BY <2>2
<1>. HIDE DEF q
<1>6. \A i \in 1 .. B, c \in Cids : q[i] = c <=> At(i, c)
  <2>. HIDE DEF At
  <2>. QED  BY <1>2, <1>4
<1>7. \A i \in 1 .. B : k[q[i]] > 0
  <2>. TAKE i \in 1 .. B
  <2>1. Below(k, q[i]) \in Nat /\ k[q[i]] \in Nat
    BY <1>4, BelowIs
  <2>. QED  BY <1>4, <2>1
<1>. QED  BY <1>1, <1>4, <1>5, <1>6, <1>7

\* The packets of the first n of a list that go over link c
Hits(v, c, n) == Cardinality({j \in 1 .. n : v[j] = c})

\* One packet more
LEMMA HitsNext ==
  ASSUME NEW v, NEW c, NEW n \in Nat
  PROVE  /\ Hits(v, c, 0) = 0 /\ Hits(v, c, n) \in Nat
         /\ Hits(v, c, n + 1) = Hits(v, c, n) + IF v[n + 1] = c THEN 1 ELSE 0
<1>. DEFINE H(m) == {j \in 1 .. m : v[j] = c}
<1>1. \A m \in Nat : IsFiniteSet(H(m))
  <2>. TAKE m \in Nat
  <2>1. IsFiniteSet(1 .. m) /\ H(m) \in SUBSET (1 .. m)
    BY FS_Interval
  <2>. HIDE DEF H
  <2>. QED  BY <2>1, FS_Subset
<1>2. H(0) = {}
  OBVIOUS
<1>3. H(n + 1) = IF v[n + 1] = c THEN H(n) \cup {n + 1} ELSE H(n)
  OBVIOUS
<1>4. n + 1 \notin H(n)
  OBVIOUS
<1>. HIDE DEF H
<1>5. Cardinality(H(n)) \in Nat
  BY <1>1, FS_CardinalityType
<1>6. Cardinality(H(n) \cup {n + 1}) = Cardinality(H(n)) + 1
  BY <1>1, <1>4, FS_AddElement
<1>7. Cardinality(H(0)) = 0
  BY <1>2, FS_EmptySet
<1>. QED  BY <1>3, <1>5, <1>6, <1>7 DEF Hits, H

\* A function with as many values as elements
LEMMA SameSize ==
  ASSUME NEW S, NEW T, IsFiniteSet(T), NEW f \in [S -> T], NEW g \in [T -> S],
         \A x \in S : g[f[x]] = x, \A y \in T : f[g[y]] = y
  PROVE  Cardinality(S) = Cardinality(T)
<1>1. g \in Bijection(T, S)
  <2>1. \A a, b \in T : g[a] = g[b] => a = b
    OBVIOUS
  <2>2. \A x \in S : \E y \in T : g[y] = x
    OBVIOUS
  <2>. QED  BY <2>1, <2>2 DEF Bijection, Injection, Surjection, IsInjective
<1>2. ExistsBijection(T, S)
  BY <1>1 DEF ExistsBijection
<1>. QED  BY <1>2, FS_Bijection

\* A list that keeps the order, spread over the burst
LEMMA SpreadIs ==
  ASSUME NEW B \in Bursts, NEW k \in Splits(B)
  PROVE  LET v == Spread(InOrderCids(k))
         IN  /\ v \in Seq(Cids) /\ Len(v) = B /\ DOMAIN v = 1 .. B
             /\ \A j \in 1 .. B : v[j] \in Cids /\ k[v[j]] > 0
             /\ \A j \in 1 .. B, c \in Cids :
                  v[j] = c <=> Below(k, c) <= ReverseBits(j - 1, B) /\ ReverseBits(j - 1, B) < Below(k, c) + k[c]
<1>. DEFINE q == InOrderCids(k)
            R(j) == ReverseBits(j - 1, B)
            v == [j \in 1 .. B |-> q[1 + R(j)]]
<1>1. B \in Nat /\ k \in [Cids -> Nat] /\ Burst(k) = B
  BY DEF Bursts, Splits
<1>2. /\ Len(q) = B /\ DOMAIN q = 1 .. B
      /\ \A i \in 1 .. B : q[i] \in Cids /\ k[q[i]] > 0
      /\ \A i \in 1 .. B, c \in Cids : q[i] = c <=> Below(k, c) < i /\ i <= Below(k, c) + k[c]
  BY <1>1, InOrderIs
<1>3. \A j \in 1 .. B : R(j) \in 0 .. B - 1
  <2>. TAKE j \in 1 .. B
  <2>1. j - 1 \in 0 .. B - 1
    BY <1>1
  <2>. QED  BY <2>1, ReverseTwice
<1>5. Spread(q) = v
  BY <1>2 DEF Spread
<1>. HIDE DEF q, R
<1>6. \A j \in 1 .. B : 1 + R(j) \in 1 .. B /\ v[j] = q[1 + R(j)]
  BY <1>1, <1>3
<1>7. v \in [1 .. B -> Cids]
  BY <1>2, <1>6
<1>. HIDE DEF v
<1>8. v \in Seq(Cids) /\ Len(v) = B /\ DOMAIN v = 1 .. B
  BY <1>1, <1>7
<1>9. \A j \in 1 .. B : v[j] \in Cids /\ k[v[j]] > 0
  BY <1>2, <1>6
<1>10. ASSUME NEW j \in 1 .. B, NEW c \in Cids
       PROVE  v[j] = c <=> Below(k, c) <= R(j) /\ R(j) < Below(k, c) + k[c]
  <2>1. v[j] = c <=> Below(k, c) < 1 + R(j) /\ 1 + R(j) <= Below(k, c) + k[c]
    BY <1>2, <1>6
  <2>2. Below(k, c) \in Nat /\ k[c] \in Nat /\ R(j) \in Nat
    <3>1. Below(k, c) \in Nat /\ k[c] \in Nat
      BY <1>1, BelowIs
    <3>2. R(j) \in 0 .. B - 1
      BY <1>3
    <3>. QED  BY <1>1, <3>1, <3>2
  <2>. QED  BY <2>1, <2>2
<1>. QED  BY <1>5, <1>8, <1>9, <1>10 DEF q, R

\* Over the whole burst each link gets its share: reversing the bits of the
\* positions permutes them.
LEMMA WholeBurst ==
  ASSUME NEW B \in Bursts, NEW k \in Splits(B), NEW c \in Cids
  PROVE  Hits(Spread(InOrderCids(k)), c, B) = k[c]
<1>. DEFINE v == Spread(InOrderCids(k))
            S == {j \in 1 .. B : v[j] = c}
            lo == Below(k, c)
            T == lo .. lo + k[c] - 1
            f == [j \in S |-> ReverseBits(j - 1, B)]
            g == [i \in T |-> 1 + ReverseBits(i, B)]
<1>1. B \in Nat /\ k \in [Cids -> Nat] /\ Burst(k) = B
  BY DEF Bursts, Splits
<1>2. lo \in Nat /\ k[c] \in Nat /\ lo + k[c] <= B
  BY <1>1, BelowIs
<1>3. \A j \in 1 .. B : v[j] = c <=> ReverseBits(j - 1, B) \in T
  <2>. TAKE j \in 1 .. B
  <2>1. v[j] = c <=> lo <= ReverseBits(j - 1, B) /\ ReverseBits(j - 1, B) < lo + k[c]
    BY SpreadIs
  <2>2. j - 1 \in 0 .. B - 1
    BY <1>1
  <2>3. ReverseBits(j - 1, B) \in 0 .. B - 1
    BY <2>2, ReverseTwice
  <2>. HIDE DEF v, lo
  <2>. QED  BY <1>1, <1>2, <2>1, <2>3
<1>4. IsFiniteSet(T) /\ Cardinality(T) = k[c]
  <2>. HIDE DEF lo
  <2>1. lo \in Int /\ lo + k[c] - 1 \in Int
    BY <1>2
  <2>2. IsFiniteSet(T) /\ Cardinality(T) = IF lo > lo + k[c] - 1 THEN 0 ELSE (lo + k[c] - 1) - lo + 1
    BY <2>1, FS_Interval
  <2>. QED  BY <1>2, <2>2
<1>. HIDE DEF v
<1>5. ASSUME NEW j \in S PROVE f[j] \in T /\ g[f[j]] = j
  <2>1. j - 1 \in 0 .. B - 1 /\ f[j] = ReverseBits(j - 1, B)
    BY <1>1
  <2>2. ReverseBits(ReverseBits(j - 1, B), B) = j - 1
    BY <2>1, ReverseTwice
  <2>3. ReverseBits(j - 1, B) \in T
    BY <1>3
  <2>. QED  BY <1>1, <2>1, <2>2, <2>3
<1>6. ASSUME NEW i \in T PROVE g[i] \in S /\ f[g[i]] = i
  <2>1. i \in 0 .. B - 1 /\ g[i] = 1 + ReverseBits(i, B)
    BY <1>1, <1>2
  <2>2. ReverseBits(i, B) \in 0 .. B - 1 /\ ReverseBits(ReverseBits(i, B), B) = i
    BY <2>1, ReverseTwice
  <2>3. g[i] \in 1 .. B /\ g[i] - 1 = ReverseBits(i, B)
    BY <1>1, <2>1, <2>2
  <2>4. v[g[i]] = c
    BY <1>3, <2>2, <2>3
  <2>5. g[i] \in S
    BY <2>3, <2>4
  <2>6. f[g[i]] = ReverseBits(g[i] - 1, B)
    BY <2>5
  <2>. HIDE DEF f, g
  <2>. QED  BY <2>2, <2>3, <2>5, <2>6
<1>7. f \in [S -> T] /\ g \in [T -> S]
  BY <1>5, <1>6
<1>. HIDE DEF S, T, f, g
<1>8. Cardinality(S) = Cardinality(T)
  BY <1>4, <1>5, <1>6, <1>7, SameSize
<1>. QED  BY <1>4, <1>8 DEF Hits, S, v

\* Over its first half it gets half of that, or is half a packet off.
LEMMA HalfBurst ==
  ASSUME NEW B \in Bursts, NEW k \in Splits(B), NEW c \in Cids
  PROVE  2 * Hits(Spread(InOrderCids(k)), c, B \div 2) - k[c] \in -1 .. 1
<1>. DEFINE v == Spread(InOrderCids(k))
            H == B \div 2
            S == {j \in 1 .. H : v[j] = c}
            lo == Below(k, c)
            hi == lo + k[c] - 1
            T == (lo + 1) \div 2 .. (IF hi = -1 THEN -1 ELSE hi \div 2)
            f == [j \in S |-> ReverseBits(j - 1, B) \div 2]
            g == [m \in T |-> 1 + ReverseBits(2 * m, B)]
<1>1. B \in Nat /\ k \in [Cids -> Nat] /\ Burst(k) = B /\ H \in Nat /\ 2 * H = B
  BY DEF Bursts, Splits
<1>2. lo \in Nat /\ k[c] \in Nat /\ lo + k[c] <= B
  BY <1>1, BelowIs
<1>3. \A j \in 1 .. B : v[j] = c <=> ReverseBits(j - 1, B) \in lo .. hi
  <2>. TAKE j \in 1 .. B
  <2>1. v[j] = c <=> lo <= ReverseBits(j - 1, B) /\ ReverseBits(j - 1, B) < lo + k[c]
    BY SpreadIs
  <2>2. j - 1 \in 0 .. B - 1
    BY <1>1
  <2>3. ReverseBits(j - 1, B) \in 0 .. B - 1
    BY <2>2, ReverseTwice
  <2>. HIDE DEF v, lo
  <2>. QED  BY <1>1, <1>2, <2>1, <2>3
<1>4. IsFiniteSet(T) /\ 2 * Cardinality(T) - k[c] \in -1 .. 1
  <2>. DEFINE a == (lo + 1) \div 2
              b == IF hi = -1 THEN -1 ELSE hi \div 2
  <2>. HIDE DEF lo
  <2>3. PICK n \in Nat : n = k[c]
    BY <1>2
  <2>4. PICK l \in Nat : l = lo
    BY <1>2
  <2>5. a = (l + 1) \div 2 /\ b = IF l + n = 0 THEN -1 ELSE (l + n - 1) \div 2
    BY <2>3, <2>4
  <2>. HIDE DEF a, b
  <2>6. a \in Int /\ 2 * a >= l /\ 2 * a <= l + 1
    BY <2>5
  <2>7. b \in Int /\ (l + n = 0 => b = -1) /\ (l + n # 0 => 2 * b >= l + n - 2 /\ 2 * b <= l + n - 1)
    BY <2>5
  <2>1. a \in Int /\ b \in Int /\ 2 * (IF a > b THEN 0 ELSE b - a + 1) - k[c] \in -1 .. 1
    <3>1. CASE a > b
      <4>1. n <= 1
        BY <2>6, <2>7, <3>1
      <4>. QED  BY <2>3, <2>6, <2>7, <3>1, <4>1
    <3>2. CASE ~(a > b)
      <4>1. l + n # 0
        BY <2>6, <2>7, <3>2
      <4>2. 2 * (b - a + 1) - n >= -1 /\ 2 * (b - a + 1) - n <= 1 /\ 2 * (b - a + 1) - n \in Int
        BY <2>6, <2>7, <4>1
      <4>. QED  BY <2>3, <2>6, <2>7, <3>2, <4>2
    <3>. QED  BY <3>1, <3>2
  <2>2. IsFiniteSet(a .. b) /\ Cardinality(a .. b) = IF a > b THEN 0 ELSE b - a + 1
    BY <2>1, FS_Interval
  <2>. QED  BY <2>1, <2>2 DEF a, b
<1>9. \A m \in T : 2 * m \in lo .. hi
  <2>. HIDE DEF lo
  <2>. QED  BY <1>2
<1>10. \A r \in lo .. hi : r % 2 = 0 => r \div 2 \in T /\ 2 * (r \div 2) = r
  <2>. HIDE DEF lo
  <2>. QED  BY <1>2
<1>. HIDE DEF v, T, H
<1>5. ASSUME NEW j \in S PROVE f[j] \in T /\ g[f[j]] = j
  <2>0. j \in 1 .. H /\ v[j] = c
    OBVIOUS
  <2>1. j - 1 \in 0 .. B - 1 /\ j - 1 < H /\ j \in 1 .. B /\ f[j] = ReverseBits(j - 1, B) \div 2
    BY <1>1, <2>0
  <2>2. ReverseBits(ReverseBits(j - 1, B), B) = j - 1 /\ ReverseBits(j - 1, B) % 2 = 0
    BY <2>1, ReverseTwice DEF H
  <2>3. ReverseBits(j - 1, B) \in lo .. hi
    BY <1>3, <2>0, <2>1
  <2>4. f[j] \in T /\ 2 * f[j] = ReverseBits(j - 1, B)
    BY <1>10, <2>1, <2>2, <2>3
  <2>5. g[f[j]] = 1 + ReverseBits(2 * f[j], B)
    BY <2>4
  <2>. QED  BY <2>1, <2>2, <2>4, <2>5
<1>6. ASSUME NEW m \in T PROVE g[m] \in S /\ f[g[m]] = m
  <2>0. 2 * m \in lo .. hi /\ m \in Int
    BY <1>9 DEF T
  <2>1. 2 * m \in 0 .. B - 1 /\ (2 * m) % 2 = 0 /\ (2 * m) \div 2 = m
    BY <1>1, <1>2, <2>0
  <2>2. /\ ReverseBits(2 * m, B) \in 0 .. B - 1 /\ ReverseBits(ReverseBits(2 * m, B), B) = 2 * m
    BY <2>1, ReverseTwice
  <2>3. PICK r \in 0 .. B - 1 : r = ReverseBits(2 * m, B)
    BY <2>2
  <2>4. r < H
    <3>1. r < B \div 2 <=> ReverseBits(r, B) % 2 = 0
      BY ReverseTwice
    <3>. QED  BY <2>1, <2>2, <2>3, <3>1 DEF H
  <2>5. g[m] = 1 + r /\ g[m] - 1 = r /\ g[m] \in 1 .. H /\ g[m] \in 1 .. B
    BY <1>1, <2>3, <2>4
  <2>6. v[g[m]] = c
    BY <1>3, <2>0, <2>2, <2>3, <2>5
  <2>7. g[m] \in S
    BY <2>5, <2>6
  <2>8. f[g[m]] = ReverseBits(g[m] - 1, B) \div 2
    BY <2>7
  <2>. QED  BY <2>1, <2>2, <2>3, <2>5, <2>7, <2>8
<1>7. f \in [S -> T] /\ g \in [T -> S]
  BY <1>5, <1>6
<1>. HIDE DEF S, f, g
<1>8. Cardinality(S) = Cardinality(T)
  BY <1>4, <1>5, <1>6, <1>7, SameSize
<1>. QED  BY <1>4, <1>8 DEF Hits, S, v, H

\* Whatever the split of a burst, the list that the transmitter makes of it
\* (GmaTxControl::RcvCtrlMsg, ConstructTrafficSplitList) gives each link just
\* its share, and its first half a half of that, or half a packet off: the
\* bit reversal spreads a link over the burst and loses no packet of it.
THEOREM ListGivesShares ==
  ASSUME NEW B \in Bursts, NEW k \in Splits(B), NEW c \in Cids
  PROVE  LET v == Spread(InOrderCids(k))
         IN  /\ Hits(v, c, B) = k[c]
             /\ 2 * Hits(v, c, B \div 2) - k[c] \in -1 .. 1
BY WholeBurst, HalfBurst

\* A splitting list is empty, or as long as its burst, with a position in it.
ListOK(t) ==
  /\ t.vec \in Seq(Cids) /\ t.dup \in Seq(Cids)
  /\ t.vec # <<>> => Len(t.vec) = t.burst /\ t.index \in 0 .. t.burst - 1

\* Moving on in a list keeps it.
LEMMA SkipOK ==
  ASSUME NEW t, DOMAIN t = TFields, t.burst \in Nat, ListOK(t), NEW n \in Nat
  PROVE  ListOK(Skip(t, n))
<1>. DEFINE u == Skip(t, n)
<1>1. u.vec = t.vec /\ u.dup = t.dup /\ u.burst = t.burst /\ u.index = (t.index + n) % t.burst
  BY DEF Skip, TFields
<1>. HIDE DEF u
<1>2. ASSUME t.vec # <<>> PROVE Len(t.vec) = t.burst /\ (t.index + n) % t.burst \in 0 .. t.burst - 1
  <2>1. Len(t.vec) = t.burst /\ t.index \in 0 .. t.burst - 1
    BY <1>2 DEF ListOK
  <2>2. t.burst \in Nat \ {0} /\ t.index + n \in Nat
    BY <2>1
  <2>. QED  BY <2>1, <2>2
<1>. QED  BY <1>1, <1>2 DEF ListOK, u

\* Asking for the link of the next packet does, and so does choosing it.
LEMMA PeekOK ==
  ASSUME NEW t, NEW s, DOMAIN t = TFields, t.burst \in Nat, ListOK(t)
  PROVE  ListOK(GetDeliveryLinkCid(t, s).t)
<1>1. GetDeliveryLinkCid(t, s).t \in {t, Skip(t, 1)}
  BY DEF GetDeliveryLinkCid
<1>. QED  BY <1>1, SkipOK

\* Choosing the link of a packet keeps the list.
LEMMA ChoiceOK ==
  ASSUME NEW t, NEW s, NEW draining, DOMAIN t = TFields, t.burst \in Nat, ListOK(t)
  PROVE  ListOK(ChooseCid(t, s, draining).t)
<1>. DEFINE good == UpLinks(s) \ StillDraining(s, draining)
            next == {n \in 0 .. t.burst - 1 : CidAt(t, n) \in good}
<1>1. \/ ChooseCid(t, s, draining) = GetDeliveryLinkCid(t, s)
      \/ ChooseCid(t, s, draining).t = t
      \/ next # {} /\ ChooseCid(t, s, draining).t = Skip(t, Min(next) + 1)
  BY DEF ChooseCid
<1>2. next # {} => Min(next) + 1 \in Nat
  <2>1. next \in SUBSET (0 .. t.burst - 1)
    OBVIOUS
  <2>. HIDE DEF next
  <2>2. next # {} => Min(next) \in 0 .. t.burst - 1
    BY <2>1, SmallestOf
  <2>. QED  BY <2>2
<1>. HIDE DEF next
<1>. QED  BY <1>1, <1>2, PeekOK, SkipOK

\* The list of a steered flow names one link.
LEMMA SteerOK ==
  ASSUME NEW t, DOMAIN t = TFields, NEW cids \in Seq(Cids), Len(cids) = 1
  PROVE  LET u == Steer(t, cids) IN u.vec \in Seq(Cids) /\ Len(u.vec) = 1 /\ u.dup \in Seq(Cids)
<1>. DEFINE primary == IF t.vec # <<>> /\ t.vec[1] \in Range(cids) THEN t.vec[1] ELSE cids[1]
            Is(f) == f = [n \in 0 .. Len(cids) |->
                            IF n = 0 THEN <<>>
                            ELSE IF cids[n] = primary THEN f[n - 1] ELSE Append(f[n - 1], cids[n])]
            further == CHOOSE f : Is(f)
            rest == IF cids[1] = primary THEN <<>> ELSE Append(<<>>, cids[1])
            g == [n \in 0 .. 1 |-> IF n = 0 THEN <<>> ELSE rest]
<1>1. cids[1] \in Cids /\ primary \in Cids
  <2>1. Range(cids) \subseteq Cids
    BY DEF Range
  <2>. QED  BY <2>1
<1>2. Steer(t, cids) = [t EXCEPT !.vec = <<primary>>, !.dup = further[Len(cids)]]
  BY DEF Steer
<1>. HIDE DEF primary
<1>3. \A f : Is(f) <=> f = [n \in 0 .. 1 |-> IF n = 0 THEN <<>> ELSE IF cids[n] = primary THEN f[n - 1] ELSE Append(f[n - 1], cids[n])]
  OBVIOUS
<1>4. Is(g)
  <2>1. \A n \in 0 .. 1 : g[n] = IF n = 0 THEN <<>> ELSE IF cids[n] = primary THEN g[n - 1] ELSE Append(g[n - 1], cids[n])
    <3>1. g[0] = <<>> /\ g[1] = rest
      OBVIOUS
    <3>2. \A n \in 0 .. 1 : n = 0 \/ n = 1
      OBVIOUS
    <3>3. g[1] = IF cids[1] = primary THEN g[1 - 1] ELSE Append(g[1 - 1], cids[1])
      BY <3>1
    <3>. HIDE DEF g
    <3>. QED  BY <3>1, <3>2, <3>3
  <2>2. g = [n \in 0 .. 1 |-> g[n]]
    OBVIOUS
  <2>. HIDE DEF g, Is
  <2>. QED  BY <1>3, <2>1, <2>2
<1>5. Is(further)
  <2>. HIDE DEF Is, g
  <2>. QED  BY <1>4
<1>. HIDE DEF further
<1>6. further[1] = IF cids[1] = primary THEN further[0] ELSE Append(further[0], cids[1])
  <2>. HIDE DEF Is
  <2>. QED  BY <1>3, <1>5
<1>7. further[0] = <<>>
  <2>. HIDE DEF Is
  <2>. QED  BY <1>3, <1>5
<1>8. further[1] \in Seq(Cids)
  BY <1>1, <1>6, <1>7
<1>9. Steer(t, cids).vec = <<primary>> /\ Steer(t, cids).dup = further[1]
  BY <1>2 DEF TFields
<1>. QED  BY <1>1, <1>8, <1>9

\* The list of a TSU
LEMMA RcvOK ==
  ASSUME NEW t, DOMAIN t = TFields, ListOK(t), NEW B \in Bursts \cup {1}, NEW k \in Splits(B)
  PROVE  LET u == RcvCtrlMsg(t, k, B)
         IN  /\ ListOK(u) /\ DOMAIN u = TFields /\ u.burst = B /\ u.index = 0
             /\ B # 1 => u.vec = Spread(InOrderCids(k))
<1>. DEFINE w == IF B = 1 THEN Steer(t, InOrderCids(k)) ELSE [t EXCEPT !.vec = Spread(InOrderCids(k))]
            u == RcvCtrlMsg(t, k, B)
<1>0. B \in Nat \ {0}
  BY DEF Bursts
<1>1. u = [w EXCEPT !.burst = B, !.index = 0]
  BY DEF RcvCtrlMsg
<1>2. DOMAIN w = TFields /\ w.vec \in Seq(Cids) /\ Len(w.vec) = B /\ w.dup \in Seq(Cids)
      /\ (B # 1 => w.vec = Spread(InOrderCids(k)))
  <2>1. CASE B = 1
    <3>1. k \in [Cids -> Nat] /\ Burst(k) = 1
      BY <2>1 DEF Splits
    <3>2. InOrderCids(k) \in Seq(Cids) /\ Len(InOrderCids(k)) = 1
      BY <3>1, InOrderIs
    <3>3. w = Steer(t, InOrderCids(k))
      BY <2>1
    <3>4. DOMAIN w = TFields
      BY <3>3 DEF Steer
    <3>. HIDE DEF w
    <3>. QED  BY <2>1, <3>2, <3>3, <3>4, SteerOK
  <2>2. CASE B # 1
    <3>1. w = [t EXCEPT !.vec = Spread(InOrderCids(k))] /\ B \in Bursts
      BY <2>2
    <3>2. Spread(InOrderCids(k)) \in Seq(Cids) /\ Len(Spread(InOrderCids(k))) = B
      BY <3>1, SpreadIs
    <3>. HIDE DEF w
    <3>. QED  BY <3>1, <3>2 DEF TFields, ListOK
  <2>. QED  BY <2>1, <2>2
<1>. HIDE DEF w, u
<1>3. DOMAIN u = TFields /\ u.vec = w.vec /\ u.dup = w.dup /\ u.burst = B /\ u.index = 0
  BY <1>1, <1>2 DEF TFields
<1>. QED  BY <1>0, <1>2, <1>3 DEF ListOK, u

\* The splitting list is the one of the TSU obeyed, and each link has carried
\* its share of every whole burst, and of the one begun what the list says.
Shares(x) ==
  x.told # NoSplit /\ x.steady =>
    /\ x.draining = {} /\ x.told \in Splits(SplitBurst) /\ {c \in Cids : x.told[c] > 0} \subseteq UpLinks(x.ls)
    /\ x.t.vec = Spread(InOrderCids(x.told)) /\ x.t.burst = SplitBurst /\ x.t.index \in 0 .. SplitBurst - 1
    /\ x.tally \in [Cids -> Nat]
    /\ \E q \in Nat : /\ SumFunction(x.tally) = q * SplitBurst + x.t.index
                      /\ \A c \in Cids : x.tally[c] = q * x.told[c] + Hits(x.t.vec, c, x.t.index)

\* Where in a burst n packets end
LEMMA InBurst ==
  ASSUME NEW B \in Bursts, NEW q \in Nat, NEW j \in 0 .. B - 1
  PROVE  /\ (q * B + j) % B = j
         /\ (2 * (q * B + j)) % B = 0 => j = 0 \/ 2 * j = B
<1>1. CASE B = 4
  <2>. QED  BY <1>1
<1>2. CASE B = 8
  <2>. QED  BY <1>2
<1>3. CASE B = 16
  <2>. QED  BY <1>3
<1>4. CASE B = 32
  <2>. QED  BY <1>4
<1>5. CASE B = 128
  <2>. QED  BY <1>5
<1>. QED  BY <1>1, <1>2, <1>3, <1>4, <1>5 DEF Bursts

\* What a link carries too much
LEMMA OffBy ==
  ASSUME NEW B \in Nat, NEW q \in Nat, NEW k \in Nat, NEW h \in Nat, NEW j \in Nat
  PROVE  (q * k + h) * B - k * (q * B + j) = h * B - k * j
OBVIOUS

\* The invariant gives each link its share.
LEMMA SharesSuffice ==
  ASSUME NEW x, Shares(x), x.told # NoSplit, x.steady
  PROVE  LET n      == SumFunction(x.tally)
             Off(c) == x.tally[c] * SplitBurst - x.told[c] * n
         IN  /\ n % SplitBurst = 0 => \A c \in Cids : Off(c) = 0
             /\ (2 * n) % SplitBurst = 0 => \A c \in Cids : Off(c) \in 1 - SplitBurst .. SplitBurst - 1
<1>. DEFINE B == SplitBurst
            j == x.t.index
            n == SumFunction(x.tally)
            k == x.told
            v == x.t.vec
            Off(c) == x.tally[c] * SplitBurst - k[c] * n
<1>1. PICK q \in Nat : n = q * B + j /\ \A c \in Cids : x.tally[c] = q * k[c] + Hits(v, c, j)
  BY DEF Shares
<1>2. j \in 0 .. B - 1 /\ k \in Splits(B) /\ v = Spread(InOrderCids(k))
  BY DEF Shares
<1>3. B \in Bursts
  BY DataPathAssumption DEF Bursts
<1>4. B \in Nat \ {0} /\ j \in Nat /\ B \div 2 \in Nat /\ 2 * (B \div 2) = B /\ B >= 4
  BY <1>2, <1>3 DEF Bursts
<1>5. \A c \in Cids : k[c] \in Nat
  BY <1>2 DEF Splits
<1>6. n % B = j /\ ((2 * n) % B = 0 => j = 0 \/ 2 * j = B)
  BY <1>1, <1>2, <1>3, InBurst
<1>. HIDE DEF B, j, n, k, v
<1>7. ASSUME NEW c \in Cids
      PROVE  Off(c) = Hits(v, c, j) * B - k[c] * j /\ Hits(v, c, j) \in Nat
  <2>1. Hits(v, c, j) \in Nat
    BY <1>4, HitsNext
  <2>2. Off(c) = (q * k[c] + Hits(v, c, j)) * B - k[c] * (q * B + j)
    BY <1>1 DEF B
  <2>. HIDE DEF Off
  <2>3. k[c] \in Nat
    BY <1>5
  <2>4. \A m, h \in Nat : (q * m + h) * B - m * (q * B + j) = h * B - m * j
    BY <1>4, OffBy
  <2>. QED  BY <2>1, <2>2, <2>3, <2>4
<1>. HIDE DEF Off
<1>8. ASSUME j = 0, NEW c \in Cids
      PROVE  Off(c) = 0
  <2>1. Hits(v, c, 0) = 0
    BY HitsNext
  <2>2. k[c] * 0 = 0 /\ 0 * B = 0
    BY <1>4, <1>5
  <2>. QED  BY <1>7, <1>8, <2>1, <2>2
<1>9. ASSUME 2 * j = B, NEW c \in Cids
      PROVE  Off(c) \in 1 - B .. B - 1
  <2>1. j = B \div 2
    BY <1>4, <1>9
  <2>2. 2 * Hits(v, c, j) - k[c] \in -1 .. 1
    BY <1>2, <1>3, <2>1, HalfBurst
  <2>. DEFINE d == 2 * Hits(v, c, j) - k[c]
  <2>3. d = -1 \/ d = 0 \/ d = 1
    BY <2>2
  <2>4. Hits(v, c, j) * B - k[c] * j = d * j
    BY <1>4, <1>5, <1>7, <1>9
  <2>. HIDE DEF d
  <2>5. Off(c) = -j \/ Off(c) = 0 \/ Off(c) = j
    BY <1>4, <1>7, <2>3, <2>4
  <2>. QED  BY <1>4, <1>9, <2>5
<1>10. n % B = 0 => \A c \in Cids : Off(c) = 0
  BY <1>6, <1>8
<1>11. (2 * n) % B = 0 => \A c \in Cids : Off(c) \in 1 - B .. B - 1
  <2>1. ASSUME j = 0, NEW c \in Cids PROVE Off(c) \in 1 - B .. B - 1
    <3>1. Off(c) = 0
      BY <1>8, <2>1
    <3>. QED  BY <1>4, <3>1
  <2>. QED  BY <1>6, <1>9, <2>1
<1>. QED  BY <1>10, <1>11 DEF Off, n, k, B

\* The links that are to be used do not drain and are up: the next packet goes
\* over the next link of the list.
LEMMA NextOfList ==
  ASSUME NEW t, NEW s, t.burst \in Nat, t.burst > 1, t.index \in 0 .. t.burst - 1,
         t.vec[t.index + 1] \in UpLinks(s)
  PROVE  LET g == ChooseCid(t, s, {})
         IN  g.cid = t.vec[t.index + 1] /\ g.t = Skip(t, 1) /\ StillDraining(s, {}) = {}
<1>. DEFINE good == UpLinks(s) \ StillDraining(s, {})
            next == {n \in 0 .. t.burst - 1 : CidAt(t, n) \in good}
<1>1. StillDraining(s, {}) = {} /\ UpLinks(s) # {}
  BY DEF StillDraining
<1>2. CidAt(t, 0) = t.vec[t.index + 1]
  <2>1. (t.index + 0) % t.burst = t.index
    OBVIOUS
  <2>. QED  BY <2>1 DEF CidAt
<1>3. 0 \in next /\ next \in SUBSET Nat
  BY <1>1, <1>2
<1>4. ChooseCid(t, s, {}) = [cid |-> CidAt(t, Min(next)), t |-> Skip(t, Min(next) + 1)]
  BY <1>1, <1>3 DEF ChooseCid
<1>. HIDE DEF next
<1>5. Min(next) = 0
  <2>1. \A y \in next : 0 <= y
    BY <1>3
  <2>2. \E x \in next : \A y \in next : x <= y
    BY <1>3, <2>1
  <2>3. Min(next) \in next /\ \A y \in next : Min(next) <= y
    BY <2>2 DEF Min
  <2>4. Min(next) <= 0 /\ Min(next) \in Nat
    BY <1>3, <2>3
  <2>. QED  BY <2>4
<1>. QED  BY <1>1, <1>2, <1>4, <1>5

\* A packet is sent.
LEMMA TransmitShares ==
  ASSUME TxInv(tx), Shares(tx), TransmitOnce
  PROVE  Shares(tx')
<1>. DEFINE t == tx.t
            B == SplitBurst
            k == tx.told
            s == tx.ls
            i == t.index
            v == t.vec
            a == v[i + 1]
<1>0. PICK g : g = Choice
  OBVIOUS
<1>1. /\ tx'.t = g.t /\ tx'.told = tx.told /\ tx'.steady = tx.steady /\ tx'.ls = tx.ls
      /\ tx'.draining = IF t.burst > 1 THEN StillDraining(s, tx.draining) ELSE tx.draining
      /\ tx'.tally = [tx.tally EXCEPT ![g.cid] = @ + 1]
  BY <1>0 DEF TxInv, TxFields, TransmitOnce
<1>. SUFFICES ASSUME tx.told # NoSplit, tx.steady
              PROVE  /\ tx'.draining = {}
                     /\ tx'.t.vec = v /\ tx'.t.burst = B /\ tx'.t.index \in 0 .. B - 1
                     /\ tx'.tally \in [Cids -> Nat]
                     /\ \E q \in Nat : /\ SumFunction(tx'.tally) = q * B + tx'.t.index
                                       /\ \A c \in Cids : tx'.tally[c] = q * k[c] + Hits(v, c, tx'.t.index)
  BY <1>1 DEF Shares
<1>2. /\ tx.draining = {} /\ k \in Splits(B) /\ {c \in Cids : k[c] > 0} \subseteq UpLinks(s)
      /\ v = Spread(InOrderCids(k)) /\ t.burst = B /\ i \in 0 .. B - 1
      /\ tx.tally \in [Cids -> Nat]
  BY DEF Shares
<1>3. PICK q \in Nat : /\ SumFunction(tx.tally) = q * B + i
                       /\ \A c \in Cids : tx.tally[c] = q * k[c] + Hits(v, c, i)
  BY DEF Shares
<1>4. B \in Bursts /\ B \in Nat /\ B > 1
  BY DataPathAssumption DEF Bursts
<1>5. a \in Cids /\ k[a] > 0
  <2>1. i + 1 \in 1 .. B
    BY <1>2, <1>4
  <2>. QED  BY <1>2, <1>4, <2>1, SpreadIs
<1>6. g.cid = a /\ g.t = Skip(t, 1) /\ tx'.draining = {}
  <2>1. a \in UpLinks(s)
    BY <1>2, <1>5
  <2>. QED  BY <1>0, <1>1, <1>2, <1>4, <2>1, NextOfList DEF Choice
<1>7. tx'.t.vec = v /\ tx'.t.burst = B /\ tx'.t.index = (i + 1) % B
  BY <1>1, <1>2, <1>6 DEF Skip, TxInv, TFields
<1>. DEFINE f == tx.tally
            h == [f EXCEPT ![a] = @ + 1]
<1>8. tx'.tally = h /\ h \in [Cids -> Nat] /\ h[a] = f[a] + 1 /\ (\A c \in Cids \ {a} : h[c] = f[c])
  BY <1>1, <1>2, <1>5, <1>6
<1>. HIDE DEF f, h
<1>9. SumFunction(h) = q * B + (i + 1)
  <2>1. f \in [Cids -> Nat]
    BY <1>2 DEF f
  <2>2. SumFunction(f) = SumFunctionOnSet(f, Cids) /\ SumFunction(h) = SumFunctionOnSet(h, Cids)
    BY <1>8, <2>1 DEF SumFunction
  <2>3. SumFunctionOnSet(h, Cids) + f[a] = SumFunctionOnSet(f, Cids) + h[a]
    BY <1>5, <1>8, <2>1, SumChangeOnCids
  <2>4. SumFunctionOnSet(f, Cids) \in Nat /\ SumFunctionOnSet(h, Cids) \in Nat /\ f[a] \in Nat
    BY <1>5, <1>8, <2>1, CidsFinite, SumType
  <2>5. SumFunctionOnSet(f, Cids) = q * B + i
    BY <1>3, <2>2 DEF f
  <2>. QED  BY <1>2, <1>4, <1>8, <2>2, <2>3, <2>4, <2>5
<1>10. \A c \in Cids : h[c] = q * k[c] + Hits(v, c, i + 1)
  <2>. TAKE c \in Cids
  <2>1. Hits(v, c, i + 1) = Hits(v, c, i) + (IF a = c THEN 1 ELSE 0) /\ Hits(v, c, i) \in Nat
    BY <1>2, <1>4, HitsNext
  <2>2. f[c] = q * k[c] + Hits(v, c, i)
    BY <1>3 DEF f
  <2>3. k[c] \in Nat
    BY <1>2 DEF Splits
  <2>4. q * k[c] \in Nat
    BY <2>3
  <2>5. h[c] = f[c] + IF a = c THEN 1 ELSE 0
    <3>1. f[c] \in Nat
      BY <2>1, <2>2, <2>4
    <3>. QED  BY <1>8, <3>1
  <2>. HIDE DEF a
  <2>. QED  BY <2>1, <2>2, <2>4, <2>5
<1>11. CASE i + 1 < B
  <2>1. tx'.t.index = i + 1 /\ i + 1 \in 0 .. B - 1
    BY <1>2, <1>4, <1>7, <1>11
  <2>. QED  BY <1>6, <1>7, <1>8, <1>9, <1>10, <2>1
<1>12. CASE ~(i + 1 < B)
  <2>1. i + 1 = B /\ tx'.t.index = 0 /\ 0 \in 0 .. B - 1
    <3>1. i + 1 = B
      BY <1>2, <1>4, <1>12
    <3>2. B % B = 0
      BY <1>4 DEF Bursts
    <3>. QED  BY <1>4, <1>7, <3>1, <3>2
  <2>2. q * B + (i + 1) = (q + 1) * B + 0 /\ q + 1 \in Nat
    BY <1>4, <2>1
  <2>3. \A c \in Cids : h[c] = (q + 1) * k[c] + Hits(v, c, 0)
    <3>. TAKE c \in Cids
    <3>1. Hits(v, c, B) = k[c] /\ Hits(v, c, 0) = 0 /\ k[c] \in Nat
      BY <1>2, <1>4, WholeBurst, HitsNext DEF Splits
    <3>2. h[c] = q * k[c] + k[c]
      BY <1>10, <2>1, <3>1
    <3>. QED  BY <3>1, <3>2
  <2>. QED  BY <1>6, <1>7, <1>8, <1>9, <2>1, <2>2, <2>3
<1>. QED  BY <1>11, <1>12

\* A TSU begins a burst.
LEMMA ObeyTsuShares ==
  ASSUME TxInv(tx), ListOK(tx.t), mode = "split", tsu \in Splits(SplitBurst), ObeyTsu
  PROVE  Shares(tx')
<1>. DEFINE k == tsu
            B == SplitBurst
            t == RcvCtrlMsg(tx.t, k, BurstSize)
            zero == [c \in Cids |-> 0]
<1>1. PICK D : tx' = [tx EXCEPT !.t = t, !.draining = D, !.told = tsu, !.tally = zero,
                               !.steady = D = {} /\ {c \in Cids : tsu[c] > 0} \subseteq UpLinks(tx.ls)]
  BY Zenon DEF ObeyTsu
<1>2. BurstSize = B /\ B \in Bursts /\ B \in Nat \ {0} /\ B # 1
  BY DataPathAssumption DEF BurstSize, Bursts
<1>3. t.vec = Spread(InOrderCids(k)) /\ t.burst = B /\ t.index = 0
  <2>1. B \in Bursts \cup {1} /\ DOMAIN tx.t = TFields
    BY <1>2 DEF TxInv
  <2>. QED  BY <1>2, <2>1, RcvOK
<1>. HIDE DEF t
<1>4. /\ tx'.t = t /\ tx'.draining = D /\ tx'.told = k /\ tx'.tally = zero /\ tx'.ls = tx.ls
      /\ tx'.steady = (D = {} /\ {c \in Cids : k[c] > 0} \subseteq UpLinks(tx.ls))
  BY <1>1 DEF TxInv, TxFields
<1>5. SumFunction(zero) = 0
  <2>1. DOMAIN zero = Cids /\ \A c \in Cids : zero[c] = 0
    OBVIOUS
  <2>. HIDE DEF zero
  <2>2. SumFunctionOnSet(zero, Cids) = 0
    BY <2>1, CidsFinite, SumZero
  <2>. QED  BY <2>1, <2>2 DEF SumFunction
<1>6. \A c \in Cids : zero[c] = 0 * k[c] + Hits(t.vec, c, 0)
  <2>. TAKE c \in Cids
  <2>1. k[c] \in Nat /\ Hits(t.vec, c, 0) = 0
    BY HitsNext DEF Splits
  <2>. QED  BY <2>1
<1>7. zero \in [Cids -> Nat] /\ 0 * B + 0 = 0 /\ 0 \in 0 .. B - 1
  BY <1>2
<1>8. \E q \in Nat : SumFunction(zero) = q * B + t.index /\ \A c \in Cids : zero[c] = q * k[c] + Hits(t.vec, c, t.index)
  <2>1. SumFunction(zero) = 0 * B + t.index /\ \A c \in Cids : zero[c] = 0 * k[c] + Hits(t.vec, c, t.index)
    BY <1>3, <1>5, <1>6, <1>7
  <2>. HIDE DEF zero
  <2>. QED  BY <2>1
<1>. HIDE DEF zero
<1>. QED  BY <1>3, <1>4, <1>7, <1>8 DEF Shares

\* The part of the invariant that is about the transmitter and its decisions
Sends ==
  /\ mode \in Modes /\ tsu \in Splits(BurstSize) \cup {NoSplit}
  /\ TxInv(tx) /\ tx.draining \in SUBSET Cids /\ ListOK(tx.t)
  /\ mode = "split" => Shares(tx)

\* The decision to use one link only
LEMMA OneLink ==
  ASSUME NEW c \in Cids
  PROVE  AllTo(c, 1) \in Splits(1)
<1>1. AllTo(c, 1) \in [Cids -> 0 .. 1]
  BY DEF AllTo
<1>2. Burst(AllTo(c, 1)) = 1
  BY BurstOfAllTo
<1>. QED  BY <1>1, <1>2 DEF Splits

\* The transmitter begins without a list.
LEMMA InitSends == Init => Sends
<1>. SUFFICES ASSUME Init PROVE Sends
  OBVIOUS
<1>1. PICK probed \in BOOLEAN :
        tx = [t |-> InitTx, draining |-> {}, sn |-> FirstSn,
              ls |-> IF probed THEN LinkUp(AddedLinks, "ctrFailed", Wifi) ELSE AddedLinks,
              lsn |-> [c \in Cids |-> FirstLsn], told |-> NoSplit,
              tally |-> [c \in Cids |-> 0], steady |-> TRUE, moved |-> probed]
  BY DEF Init
<1>2. tx.t = InitTx /\ tx.draining = {} /\ tx.told = NoSplit
  BY <1>1
<1>3. InitTx.vec = <<>> /\ InitTx.dup = <<>>
  BY DEF InitTx
<1>4. TxInv(tx)
  BY InitTxInv
<1>5. Shares(tx)
  BY <1>2 DEF Shares
<1>6. mode \in Modes /\ tsu = NoSplit
  BY DEF Init
<1>7. ListOK(tx.t)
  BY <1>2, <1>3 DEF ListOK
<1>. QED  BY <1>2, <1>4, <1>5, <1>6, <1>7 DEF Sends

\* Sending a packet keeps this part of the invariant.
LEMMA TransmitSends ==
  ASSUME Sends, Transmit
  PROVE  Sends'
<1>0. mode' = mode /\ tsu' = tsu /\ BurstSize' = BurstSize
  BY DEF Transmit, BurstSize
<1>1. TxInv(tx')
  BY NextTx DEF Next, Sends
<1>2. ASSUME TransmitCopies PROVE tx'.t = tx.t /\ tx'.draining = tx.draining /\ mode # "split"
  BY <1>2 DEF TransmitCopies, Duplicated, Sends, TxInv, TxFields
<1>3. ASSUME TransmitOnce PROVE ListOK(tx'.t) /\ tx'.draining \in SUBSET Cids
  <2>1. /\ tx'.t = Choice.t
        /\ tx'.draining = IF tx.t.burst > 1 THEN StillDraining(tx.ls, tx.draining) ELSE tx.draining
    BY <1>3 DEF TransmitOnce, Sends, TxInv, TxFields
  <2>2. ListOK(Choice.t)
    BY ChoiceOK DEF Choice, Sends, TxInv
  <2>3. tx.draining \in SUBSET Cids /\ StillDraining(tx.ls, tx.draining) \in {{}, tx.draining}
    BY DEF Sends, StillDraining
  <2>. QED  BY <2>1, <2>2, <2>3
<1>4. ASSUME mode = "split" PROVE Shares(tx')
  <2>1. TransmitOnce
    BY <1>2, <1>4 DEF Transmit
  <2>. QED  BY <1>4, <2>1, TransmitShares DEF Sends
<1>5. TransmitCopies \/ TransmitOnce
  BY DEF Transmit
<1>6. ListOK(tx'.t) /\ tx'.draining \in SUBSET Cids
  BY <1>2, <1>3, <1>5 DEF Sends
<1>. QED  BY <1>0, <1>1, <1>4, <1>6 DEF Sends, TxInv, ListOK, Shares

\* So does obeying a TSU, whose split is one of the burst.
LEMMA ObeyTsuSends ==
  ASSUME Sends, ObeyTsu
  PROVE  Sends'
<1>0. mode' = mode /\ tsu' = NoSplit /\ BurstSize' = BurstSize
  BY DEF ObeyTsu, BurstSize
<1>1. TxInv(tx')
  BY ObeyTsuTx DEF Sends
<1>2. tsu \in Splits(BurstSize) /\ BurstSize \in Bursts \cup {1}
  BY DataPathAssumption DEF Sends, ObeyTsu, BurstSize, Bursts
<1>3. PICK D \in IF mode = "steer" THEN {{}} ELSE Drains(tsu) :
        tx' = [tx EXCEPT !.t = RcvCtrlMsg(@, tsu, BurstSize), !.draining = D, !.told = tsu,
                         !.tally = [c \in Cids |-> 0],
                         !.steady = D = {} /\ {c \in Cids : tsu[c] > 0} \subseteq UpLinks(tx.ls)]
  BY Zenon DEF ObeyTsu
<1>4. D \in SUBSET Cids
  BY DEF Drains, Sends
<1>5. tx'.t = RcvCtrlMsg(tx.t, tsu, BurstSize) /\ tx'.draining = D
  BY <1>3 DEF Sends, TxInv, TxFields
<1>6. ListOK(tx'.t)
  BY <1>2, <1>5, RcvOK DEF Sends, TxInv
<1>7. ASSUME mode = "split" PROVE Shares(tx')
  <2>1. tsu \in Splits(SplitBurst)
    BY <1>2, <1>7 DEF BurstSize
  <2>. QED  BY <1>7, <2>1, ObeyTsuShares DEF Sends
<1>. QED  BY <1>0, <1>1, <1>4, <1>5, <1>6, <1>7 DEF Sends, TxInv, ListOK, Shares

\* A decision of the receiver is a split of the burst.
LEMMA SendTsuSends ==
  ASSUME Sends, SendTsu
  PROVE  Sends'
<1>0. mode' = mode /\ tx' = tx /\ BurstSize' = BurstSize
  BY DEF SendTsu, BurstSize
<1>1. PICK k \in Decisions : tsu' = k
  BY DEF SendTsu
<1>2. k \in Splits(BurstSize)
  <2>1. CASE mode = "steer"
    BY <2>1, OneLink DEF Decisions, BurstSize
  <2>2. CASE mode # "steer"
    BY <2>2, DataPathAssumption DEF Decisions, BurstSize
  <2>. QED  BY <2>1, <2>2
<1>. QED  BY <1>0, <1>1, <1>2 DEF Sends, TxInv, ListOK, Shares

\* Links going down and up only take an entry of the list.
LEMMA LinkSends ==
  ASSUME Sends, NEW c \in Cids, TxLinkDown(c) \/ TxLinkUp(c)
  PROVE  Sends'
<1>0. mode' = mode /\ tsu' = tsu /\ BurstSize' = BurstSize
  BY DEF TxLinkDown, TxLinkUp, TxEvent, BurstSize
<1>1. TxInv(tx')
  BY TxEventTx DEF Sends
<1>2. PICK s : tx' = WithLinks(Peeked, s)
  BY DEF TxLinkDown, TxLinkUp
<1>3. tx'.t = GetDeliveryLinkCid(tx.t, tx.ls).t /\ tx'.draining = tx.draining /\ tx'.steady = FALSE
  BY <1>2 DEF WithLinks, Peeked, Sends, TxInv, TxFields
<1>4. ListOK(tx'.t)
  BY <1>3, PeekOK DEF Sends, TxInv
<1>5. Shares(tx')
  BY <1>3 DEF Shares
<1>. QED  BY <1>0, <1>1, <1>3, <1>4, <1>5 DEF Sends, TxInv, ListOK, Shares

\* The end of a draining leaves the list alone; no share was asked for.
LEMMA DrainSends ==
  ASSUME Sends, NEW c \in Cids, DrainEnds(c)
  PROVE  Sends'
<1>0. mode' = mode /\ tsu' = tsu /\ BurstSize' = BurstSize
  BY DEF DrainEnds, BurstSize
<1>1. TxInv(tx')
  BY DrainEndsTx DEF Sends
<1>2. /\ tx'.t = tx.t /\ tx'.draining = tx.draining \ {c} /\ c \in tx.draining
      /\ tx'.told = tx.told /\ tx'.steady = tx.steady
  BY DEF DrainEnds, Sends, TxInv, TxFields
<1>3. ASSUME mode = "split" PROVE Shares(tx')
  <2>1. ~(tx.told # NoSplit /\ tx.steady)
    BY <1>2, <1>3 DEF Sends, Shares
  <2>. QED  BY <1>2, <2>1 DEF Shares
<1>. QED  BY <1>0, <1>1, <1>2, <1>3 DEF Sends, TxInv, ListOK, Shares

\* Every step keeps this part of the invariant.
LEMMA NextSends ==
  ASSUME Sends, [Next]_vars
  PROVE  Sends'
<1>1. CASE tx' = tx /\ mode' = mode /\ tsu' = tsu
  BY <1>1 DEF Sends, BurstSize, TxInv, ListOK, Shares
<1>2. BecomesLate \/ ReorderingTimeout \/ StopReorderTimeout \/ UNCHANGED vars => tx' = tx /\ mode' = mode /\ tsu' = tsu
  BY DEF BecomesLate, ReorderingTimeout, StopReorderTimeout, vars
<1>3. \A c \in Cids : Receive(c) \/ Lose(c) \/ RxLinkChanges(c) => tx' = tx /\ mode' = mode /\ tsu' = tsu
  BY DEF Receive, Lose, RxLinkChanges
<1>. QED  BY <1>1, <1>2, <1>3, TransmitSends, ObeyTsuSends, SendTsuSends, LinkSends, DrainSends DEF Next

\* A receiver in any mode
AnyReceivers ==
  [expected : 0 .. MaxSn, held : Seq(Items), on : BOOLEAN, useLsn : BOOLEAN, newCid : Cids \cup {NoCid},
   lastSn : [Cids -> Nat], lastLsn : [Cids -> 0 .. LsnSpace - 1],
   timer : BOOLEAN, stopTimer : BOOLEAN, out : Seq(Nat)]

\* MinAt finds one of the packets held, whatever their numbers.
LEMMA MinAtIn ==
  ASSUME NEW r, r.held \in Seq(Items), r.held # <<>>
  PROVE  MinAt(r) \in 1 .. Len(r.held)
<1>. DEFINE n == Len(r.held)
            W == Waiting(r)
            M == Max(W)
<1>1. n \in Nat /\ n >= 1 /\ DOMAIN r.held = 1 .. n
  OBVIOUS
<1>2. \A i \in 1 .. n : r.held[i].cid \in W /\ r.held[i].cid \in Cids
  <2>. TAKE i \in 1 .. n
  <2>1. r.held[i] \in Items
    OBVIOUS
  <2>. QED  BY <1>1, <2>1 DEF Waiting, Items
<1>3. W \in SUBSET Cids /\ W # {} /\ Cids \in SUBSET Nat
  <2>1. W \in SUBSET Cids
    BY <1>1, <1>2 DEF Waiting
  <2>2. r.held[1].cid \in W
    BY <1>1, <1>2
  <2>. QED  BY <2>1, <2>2, CidsAssumption
<1>4. M \in W
  <2>. HIDE DEF W
  <2>1. IsFiniteSet(W) /\ W \in SUBSET Int
    BY <1>3, CidsFinite, FS_Subset
  <2>2. \E x \in W : \A y \in W : y <= x
    BY <1>3, <2>1, LargestElement
  <2>3. \A x, y \in W : x >= y <=> y <= x
    BY <2>1
  <2>. QED  BY <2>2, <2>3 DEF Max
<1>5. \A c \in W : FirstOf(r, c) \in 1 .. n
  BY <1>1, FirstOfIs
<1>6. \A i \in 0 .. n, j \in 1 .. n : Smaller(r, i, j) \in 1 .. n
  <2>. TAKE i \in 0 .. n, j \in 1 .. n
  <2>1. Smaller(r, i, j) = j \/ (Smaller(r, i, j) = i /\ i # 0)
    BY DEF Smaller
  <2>2. i # 0 => i \in 1 .. n
    BY <1>1
  <2>. QED  BY <2>1, <2>2
<1>7. M \in Nat
  BY <1>3, <1>4
<1>. DEFINE least == CHOOSE f : f = [c \in 0 .. M |-> LET i == IF c = 0 THEN 0 ELSE f[c - 1]
                                    IN  IF c \in W THEN Smaller(r, i, FirstOf(r, c)) ELSE i]
<1>8. MinAt(r) = least[M]
  BY DEF MinAt
<1>9. Searches(r, M, least)
  <2>1. PICK f : Searches(r, M, f)
    BY <1>7, SearchExists
  <2>. QED  BY <2>1 DEF Searches
<1>. HIDE DEF least, M
<1>10. \A c \in 0 .. M : least[c] = LET i == IF c = 0 THEN 0 ELSE least[c - 1]
                                    IN  IF c \in W THEN Smaller(r, i, FirstOf(r, c)) ELSE i
  BY <1>9 DEF Searches
<1>. HIDE DEF W, n
<1>11. \A c \in 0 .. M, i \in 0 .. n :
            /\ (IF c \in W THEN Smaller(r, i, FirstOf(r, c)) ELSE i) \in 0 .. n
            /\ c \in W => (IF c \in W THEN Smaller(r, i, FirstOf(r, c)) ELSE i) \in 1 .. n
  <2>. TAKE c \in 0 .. M, i \in 0 .. n
  <2>1. CASE c \in W
    <3>1. Smaller(r, i, FirstOf(r, c)) \in 1 .. n
      BY <1>5, <1>6, <2>1
    <3>2. 1 .. n \subseteq 0 .. n
      BY <1>1
    <3>. QED  BY <2>1, <3>1, <3>2
  <2>2. CASE c \notin W
    BY <2>2
  <2>. QED  BY <2>1, <2>2
<1>. DEFINE S == 0 .. n
<1>12. \A c \in 0 .. M : c # 0 /\ least[c - 1] \in S => least[c] \in S /\ (c \in W => least[c] \in 1 .. n)
  BY <1>10, <1>11
<1>13. least[0] \in S /\ (0 \in W => least[0] \in 1 .. n)
  <2>1. 0 \in 0 .. M /\ 0 \in 0 .. n
    BY <1>1, <1>7
  <2>2. least[0] = IF 0 \in W THEN Smaller(r, 0, FirstOf(r, 0)) ELSE 0
    BY <1>10, <2>1
  <2>. QED  BY <1>11, <2>1, <2>2
<1>. HIDE DEF S
<1>14. \A m \in 0 .. M : least[m] \in S
  <2>. TAKE m \in 0 .. M
  <2>1. m \in Nat /\ \A c \in 1 .. m : c \in 0 .. M /\ c # 0
    BY <1>7
  <2>2. \A c \in 1 .. m : least[c - 1] \in S => least[c] \in S
    BY <1>12, <2>1
  <2>. QED  BY <1>13, <2>1, <2>2, LoopStays
<1>15. least[M] \in 1 .. n
  <2>1. CASE M = 0
    BY <1>4, <1>13, <2>1
  <2>2. CASE M # 0
    <3>1. M \in 0 .. M /\ M - 1 \in 0 .. M
      BY <1>7, <2>2
    <3>. QED  BY <1>4, <1>12, <1>14, <2>2, <3>1
  <2>. QED  BY <2>1, <2>2
<1>. QED  BY <1>8, <1>15 DEF n

\* A number is forwarded, and its successor expected.
LEMMA ForwardTyped ==
  ASSUME NEW s \in AnyReceivers, NEW p, p.sn \in Nat
  PROVE  Forward(s, p) \in AnyReceivers /\ Accept(s, p) \in AnyReceivers
<1>1. Succ(p.sn) \in 0 .. MaxSn
  <2>1. (p.sn + 1) % 16777216 \in Nat /\ (p.sn + 1) % 16777216 < 16777216
    OBVIOUS
  <2>2. Succ(p.sn) \in Nat /\ Succ(p.sn) < SnSpace
    BY <2>1 DEF Succ, SnSpace
  <2>3. SnSpace \in Nat /\ MaxSn = SnSpace - 1
    BY DEF SnSpace, MaxSn
  <2>. QED  BY <2>2, <2>3
<1>2. s.out \in Seq(Nat)
  BY DEF AnyReceivers
<1>3. Append(s.out, p.sn) \in Seq(Nat)
  BY <1>2
<1>4. Forward(s, p) \in AnyReceivers
  BY <1>3 DEF Forward, AnyReceivers
<1>. HIDE DEF Forward
<1>. QED  BY <1>1, <1>4 DEF Accept, AnyReceivers

\* The packet with the smallest number is taken out.
LEMMA PopTyped ==
  ASSUME NEW s \in AnyReceivers, s.held # <<>>
  PROVE  MinHead(s) \in Items /\ MinHead(s).sn \in Nat /\ MinHead(s).cid \in Cids /\ Pop(s) \in AnyReceivers
<1>1. s.held \in Seq(Items)
  BY DEF AnyReceivers
<1>2. MinAt(s) \in 1 .. Len(s.held)
  BY <1>1, MinAtIn
<1>3. MinHead(s) \in Items
  BY <1>1, <1>2 DEF MinHead
<1>4. RemoveAt(s.held, MinAt(s)) \in Seq(Items)
  BY <1>1, <1>2, RemoveAtIs
<1>5. Pop(s) \in AnyReceivers
  BY <1>4 DEF Pop, AnyReceivers
<1>. QED  BY <1>3, <1>5 DEF Items

\* One turn of ReleaseAllPackets
AllTurn(s) == IF s.held = <<>> THEN s ELSE Accept(Pop(s), MinHead(s))

\* A turn of ReleaseAllPackets leaves a receiver.
LEMMA AllTurnTyped ==
  ASSUME NEW s \in AnyReceivers
  PROVE  AllTurn(s) \in AnyReceivers
BY PopTyped, ForwardTyped DEF AllTurn

\* Forwarding all that is held
LEMMA ReleaseAllTyped ==
  ASSUME NEW r \in AnyReceivers
  PROVE  ReleaseAllPackets(r) \in AnyReceivers
<1>. DEFINE C == AnyReceivers
            k == Len(r.held)
            Next1(x) == CHOOSE s \in {AllTurn(before) : before \in {x}} : TRUE
<1>1. r \in C /\ k \in Nat
  <2>1. r.held \in Seq(Items)
    BY DEF AnyReceivers
  <2>. QED  BY <2>1
<1>. HIDE DEF C, k
<1>2. \A x : Next1(x) = AllTurn(x)
  OBVIOUS
<1>3. \A x \in C : Next1(x) \in C
  BY <1>2, AllTurnTyped DEF C
<1>. DEFINE G == [x \in C |-> Next1(x)]
            after == CHOOSE f : f = [n \in 0 .. k |-> IF n = 0 THEN r ELSE Next1(f[n - 1])]
<1>. HIDE DEF Next1
<1>5. G \in [C -> C]
  BY <1>3
<1>. HIDE DEF G
<1>6. PICK f \in [0 .. k -> C] : \A n \in 0 .. k : f[n] = IF n = 0 THEN r ELSE G[f[n - 1]]
  <2>1. \E f : Loops(C, G, r, k, f)
    BY <1>1, <1>5, LoopRuns
  <2>. QED  BY <2>1 DEF Loops
<1>7. f = [n \in 0 .. k |-> IF n = 0 THEN r ELSE Next1(f[n - 1])]
  <2>1. ASSUME NEW n \in 0 .. k, n # 0 PROVE f[n - 1] \in C
    <3>1. n - 1 \in 0 .. k
      BY <1>1, <2>1
    <3>. QED  BY <1>6, <3>1
  <2>2. \A n \in 0 .. k : n # 0 => G[f[n - 1]] = Next1(f[n - 1])
    BY <2>1 DEF G
  <2>3. \A n \in 0 .. k : f[n] = IF n = 0 THEN r ELSE Next1(f[n - 1])
    BY <1>6, <2>2
  <2>4. f = [n \in 0 .. k |-> f[n]]
    BY <1>6
  <2>. QED  BY <2>3, <2>4
<1>8. after = [n \in 0 .. k |-> IF n = 0 THEN r ELSE Next1(after[n - 1])]
  BY <1>7
<1>. HIDE DEF after
<1>9. after[0] \in C /\ \A n \in 1 .. k : after[n - 1] \in C => after[n] \in C
  <2>1. \A n \in 0 .. k : after[n] = IF n = 0 THEN r ELSE Next1(after[n - 1])
    BY <1>8
  <2>2. after[0] = r
    BY <1>1, <2>1
  <2>3. \A n \in 1 .. k : after[n] = Next1(after[n - 1])
    BY <1>1, <2>1
  <2>. QED  BY <1>1, <1>3, <2>2, <2>3
<1>10. after[k] \in C
  BY <1>1, <1>9, LoopStays
<1>11. ReleaseAllPackets(r) = after[k]
  BY DEF ReleaseAllPackets, Loop, AllTurn, after, Next1, k
<1>. QED  BY <1>10, <1>11 DEF C

\* The end of the reordering
LEMMA StopTyped ==
  ASSUME NEW r \in AnyReceivers
  PROVE  StopReordering(r) \in AnyReceivers /\ \A c : StopIfNew(r, c) \in AnyReceivers
<1>1. (IF r.on THEN [r EXCEPT !.on = FALSE, !.newCid = NoCid, !.stopTimer = FALSE] ELSE r) \in AnyReceivers
  BY DEF AnyReceivers
<1>2. StopReordering(r) \in AnyReceivers
  BY <1>1, ReleaseAllTyped DEF StopReordering
<1>. QED  BY <1>2 DEF StopIfNew

\* So do the turns of the other two loops.
LEMMA TurnsTyped ==
  ASSUME NEW s \in AnyReceivers, NEW up
  PROVE  MinTurn(s, up) \in AnyReceivers /\ OrderTurn(s) \in AnyReceivers
<1>1. CASE s.held = <<>>
  BY <1>1 DEF MinTurn, OrderTurn
<1>2. CASE s.held # <<>>
  <2>. DEFINE p == MinHead(s)
              t == Accept(Pop(s), p)
              f == Forward(Pop(s), p)
  <2>1. t \in AnyReceivers /\ f \in AnyReceivers
    BY <1>2, PopTyped, ForwardTyped
  <2>. HIDE DEF t, f
  <2>2. StopIfNew(t, p.cid) \in AnyReceivers
    BY <2>1, StopTyped
  <2>3. MinTurn(s, up) \in {s, t, f}
    BY DEF MinTurn, t, f
  <2>4. OrderTurn(s) \in {s, t, f, StopIfNew(t, p.cid)}
    BY DEF OrderTurn, t, f
  <2>. QED  BY <2>1, <2>2, <2>3, <2>4
<1>. QED  BY <1>1, <1>2

\* Forwarding what cannot be preceded any more
LEMMA ReleaseMinTyped ==
  ASSUME NEW r \in AnyReceivers, NEW up
  PROVE  ReleaseMinSnPacket(r, up) \in AnyReceivers
<1>. DEFINE C == AnyReceivers
            k == Len(r.held)
            Next1(x) == CHOOSE s \in {MinTurn(before, up) : before \in {x}} : TRUE
<1>1. r \in C /\ k \in Nat
  <2>1. r.held \in Seq(Items)
    BY DEF AnyReceivers
  <2>. QED  BY <2>1
<1>. HIDE DEF C, k
<1>2. \A x : Next1(x) = MinTurn(x, up)
  OBVIOUS
<1>3. \A x \in C : Next1(x) \in C
  BY <1>2, TurnsTyped DEF C
<1>. DEFINE G == [x \in C |-> Next1(x)]
            after == CHOOSE f : f = [n \in 0 .. k |-> IF n = 0 THEN r ELSE Next1(f[n - 1])]
<1>. HIDE DEF Next1
<1>5. G \in [C -> C]
  BY <1>3
<1>. HIDE DEF G
<1>6. PICK f \in [0 .. k -> C] : \A n \in 0 .. k : f[n] = IF n = 0 THEN r ELSE G[f[n - 1]]
  <2>1. \E f : Loops(C, G, r, k, f)
    BY <1>1, <1>5, LoopRuns
  <2>. QED  BY <2>1 DEF Loops
<1>7. f = [n \in 0 .. k |-> IF n = 0 THEN r ELSE Next1(f[n - 1])]
  <2>1. ASSUME NEW n \in 0 .. k, n # 0 PROVE f[n - 1] \in C
    <3>1. n - 1 \in 0 .. k
      BY <1>1, <2>1
    <3>. QED  BY <1>6, <3>1
  <2>2. \A n \in 0 .. k : n # 0 => G[f[n - 1]] = Next1(f[n - 1])
    BY <2>1 DEF G
  <2>3. \A n \in 0 .. k : f[n] = IF n = 0 THEN r ELSE Next1(f[n - 1])
    BY <1>6, <2>2
  <2>4. f = [n \in 0 .. k |-> f[n]]
    BY <1>6
  <2>. QED  BY <2>3, <2>4
<1>8. after = [n \in 0 .. k |-> IF n = 0 THEN r ELSE Next1(after[n - 1])]
  BY <1>7
<1>. HIDE DEF after
<1>9. after[0] \in C /\ \A n \in 1 .. k : after[n - 1] \in C => after[n] \in C
  <2>1. \A n \in 0 .. k : after[n] = IF n = 0 THEN r ELSE Next1(after[n - 1])
    BY <1>8
  <2>2. after[0] = r
    BY <1>1, <2>1
  <2>3. \A n \in 1 .. k : after[n] = Next1(after[n - 1])
    BY <1>1, <2>1
  <2>. QED  BY <1>1, <1>3, <2>2, <2>3
<1>10. after[k] \in C
  BY <1>1, <1>9, LoopStays
<1>11. ReleaseMinSnPacket(r, up) = after[k]
  BY DEF ReleaseMinSnPacket, Loop, MinTurn, after, Next1, k
<1>. QED  BY <1>10, <1>11 DEF C

\* Forwarding what needs not wait any longer
LEMMA ReleaseInOrderTyped ==
  ASSUME NEW r \in AnyReceivers
  PROVE  ReleaseInOrderPackets(r) \in AnyReceivers
<1>. DEFINE C == AnyReceivers
            k == Len(r.held)
            Next1(x) == CHOOSE s \in {OrderTurn(before) : before \in {x}} : TRUE
<1>1. r \in C /\ k \in Nat
  <2>1. r.held \in Seq(Items)
    BY DEF AnyReceivers
  <2>. QED  BY <2>1
<1>. HIDE DEF C, k
<1>2. \A x : Next1(x) = OrderTurn(x)
  OBVIOUS
<1>3. \A x \in C : Next1(x) \in C
  BY <1>2, TurnsTyped DEF C
<1>. DEFINE G == [x \in C |-> Next1(x)]
            after == CHOOSE f : f = [n \in 0 .. k |-> IF n = 0 THEN r ELSE Next1(f[n - 1])]
<1>. HIDE DEF Next1
<1>5. G \in [C -> C]
  BY <1>3
<1>. HIDE DEF G
<1>6. PICK f \in [0 .. k -> C] : \A n \in 0 .. k : f[n] = IF n = 0 THEN r ELSE G[f[n - 1]]
  <2>1. \E f : Loops(C, G, r, k, f)
    BY <1>1, <1>5, LoopRuns
  <2>. QED  BY <2>1 DEF Loops
<1>7. f = [n \in 0 .. k |-> IF n = 0 THEN r ELSE Next1(f[n - 1])]
  <2>1. ASSUME NEW n \in 0 .. k, n # 0 PROVE f[n - 1] \in C
    <3>1. n - 1 \in 0 .. k
      BY <1>1, <2>1
    <3>. QED  BY <1>6, <3>1
  <2>2. \A n \in 0 .. k : n # 0 => G[f[n - 1]] = Next1(f[n - 1])
    BY <2>1 DEF G
  <2>3. \A n \in 0 .. k : f[n] = IF n = 0 THEN r ELSE Next1(f[n - 1])
    BY <1>6, <2>2
  <2>4. f = [n \in 0 .. k |-> f[n]]
    BY <1>6
  <2>. QED  BY <2>3, <2>4
<1>8. after = [n \in 0 .. k |-> IF n = 0 THEN r ELSE Next1(after[n - 1])]
  BY <1>7
<1>. HIDE DEF after
<1>9. after[0] \in C /\ \A n \in 1 .. k : after[n - 1] \in C => after[n] \in C
  <2>1. \A n \in 0 .. k : after[n] = IF n = 0 THEN r ELSE Next1(after[n - 1])
    BY <1>8
  <2>2. after[0] = r
    BY <1>1, <2>1
  <2>3. \A n \in 1 .. k : after[n] = Next1(after[n - 1])
    BY <1>1, <2>1
  <2>. QED  BY <1>1, <1>3, <2>2, <2>3
<1>10. after[k] \in C
  BY <1>1, <1>9, LoopStays
<1>11. ReleaseInOrderPackets(r) = Arm(after[k])
  BY DEF ReleaseInOrderPackets, Loop, OrderTurn, after, Next1, k
<1>12. \A s \in AnyReceivers : Arm(s) \in AnyReceivers
  BY DEF Arm, AnyReceivers
<1>. QED  BY <1>10, <1>11, <1>12 DEF C

\* A packet under way
Packets == [kind : {"data", "copy", "end"}, cid : Cids, sn : Nat, lsn : 0 .. LsnSpace - 1]

\* A packet is held.
LEMMA HoldTyped ==
  ASSUME NEW s \in AnyReceivers, NEW p \in Packets, NEW b \in BOOLEAN
  PROVE  Hold(s, p, b) \in AnyReceivers
<1>1. [sn |-> p.sn, cid |-> p.cid, inOrder |-> b, late |-> FALSE] \in Items
  BY DEF Packets, Items
<1>2. s.held \in Seq(Items)
  BY DEF AnyReceivers
<1>3. Append(s.held, [sn |-> p.sn, cid |-> p.cid, inOrder |-> b, late |-> FALSE]) \in Seq(Items)
  BY <1>1, <1>2
<1>. QED  BY <1>3 DEF Hold, AnyReceivers

\* A packet comes.
LEMMA DeliverTyped ==
  ASSUME NEW r \in AnyReceivers, NEW p \in Packets, NEW up
  PROVE  Deliver(r, p, up) \in AnyReceivers
<1>1. p.sn \in Nat /\ p.cid \in Cids
  BY DEF Packets
<1>2. Accept(r, p) \in AnyReceivers
  BY <1>1, ForwardTyped
<1>3. StopIfNew(ReleaseInOrderPackets(Accept(r, p)), p.cid) \in AnyReceivers
  BY <1>2, ReleaseInOrderTyped, StopTyped
<1>4. OutOfOrder(r, p) \in AnyReceivers
  <2>1. [r EXCEPT !.stopTimer = @ \/ r.newCid = p.cid] \in AnyReceivers
    BY DEF AnyReceivers
  <2>2. Hold([r EXCEPT !.stopTimer = @ \/ r.newCid = p.cid], p, FALSE) \in AnyReceivers /\ Hold(r, p, TRUE) \in AnyReceivers
    BY <2>1, HoldTyped
  <2>. QED  BY <1>3, <2>2 DEF OutOfOrder
<1>5. ReleaseInOrderPackets(ReleaseMinSnPacket(OutOfOrder(r, p), up)) \in AnyReceivers
  BY <1>4, ReleaseMinTyped, ReleaseInOrderTyped
<1>. QED  BY <1>3, <1>5 DEF Deliver

\* Everything that a packet brings about leaves a receiver.
LEMMA ReceiveTyped ==
  ASSUME NEW r \in AnyReceivers, NEW p \in Packets, NEW up
  PROVE  /\ ReceiveData(r, p, up) \in AnyReceivers
         /\ ReceiveEndMarker(r, p.cid) \in AnyReceivers
         /\ AfterNotes(r, p) \in AnyReceivers
<1>1. p.sn \in Nat /\ p.cid \in Cids /\ p.lsn \in 0 .. LsnSpace - 1
  BY DEF Packets
<1>2. InOrderDelivery(r, p, up) \in AnyReceivers
  <2>. DEFINE d == Deliver(r, p, up)
  <2>1. d \in AnyReceivers
    BY DeliverTyped
  <2>. HIDE DEF d
  <2>2. [d EXCEPT !.lastSn[p.cid] = p.sn, !.lastLsn[p.cid] = p.lsn] \in AnyReceivers
    BY <1>1, <2>1 DEF AnyReceivers
  <2>. QED  BY <2>2 DEF InOrderDelivery, d
<1>3. ReceiveData(r, p, up) \in AnyReceivers
  BY <1>1, <1>2, ForwardTyped DEF ReceiveData
<1>4. ReceiveEndMarker(r, p.cid) \in AnyReceivers
  <2>1. [r EXCEPT !.newCid = NoCid] \in AnyReceivers
    BY DEF AnyReceivers
  <2>. QED  BY <2>1, StopTyped DEF ReceiveEndMarker
<1>5. NoteLink(r, p.cid) \in AnyReceivers
  BY <1>1 DEF NoteLink, AnyReceivers
<1>6. \A s \in AnyReceivers : NoteCopies(s) \in AnyReceivers
  BY DEF NoteCopies, AnyReceivers
<1>. QED  BY <1>3, <1>4, <1>5, <1>6 DEF AfterNotes

\* The part of the invariant that is about the receiver and the packets under
\* way to it
Receives ==
  /\ DOMAIN rx = RxFields /\ rx.r \in AnyReceivers
  /\ wire \in [Cids -> Seq(Packets)]

\* What a step leaves alone stays so.
LEMMA ReceivesOf ==
  ASSUME Receives, DOMAIN rx' = RxFields, rx'.r \in AnyReceivers, wire' \in [Cids -> Seq(Packets)]
  PROVE  Receives'
BY DEF Receives, AnyReceivers, Packets, Items

\* A flow begins with a receiver that has got nothing.
LEMMA InitReceives == Init => Receives
<1>. SUFFICES ASSUME Init PROVE Receives
  OBVIOUS
<1>1. PICK useLsn \in LsnReordering :
        rx = [r |-> InitRx(FirstSn, FirstLsn, FALSE, useLsn), up |-> Cids,
              since |-> 1, start |-> FirstSn, lost |-> [c \in Cids |-> 0],
              lsn |-> [c \in Cids |-> (FirstLsn + LsnSpace - 1) % LsnSpace],
              gsn |-> [c \in Cids |-> (FirstSn + MaxSn) % SnSpace]]
  BY DEF Init
<1>2. useLsn \in BOOLEAN /\ FirstSn \in Nat /\ FirstSn < SnSpace /\ FirstLsn \in Nat
  BY DataPathAssumption
<1>3. SnSpace \in Nat \ {0} /\ MaxSn \in Nat /\ MaxSn = SnSpace - 1
  BY DEF SnSpace, MaxSn
<1>4. FirstSn \in 0 .. MaxSn /\ (FirstSn + MaxSn) % SnSpace \in Nat
  BY <1>2, <1>3
<1>5. (FirstLsn + LsnSpace - 1) % LsnSpace \in 0 .. LsnSpace - 1
  BY <1>2 DEF LsnSpace
<1>6. InitRx(FirstSn, FirstLsn, FALSE, useLsn) \in AnyReceivers
  BY <1>2, <1>4, <1>5 DEF InitRx, AnyReceivers
<1>7. DOMAIN rx = RxFields /\ rx.r = InitRx(FirstSn, FirstLsn, FALSE, useLsn)
  BY <1>1 DEF RxFields
<1>8. wire \in [Cids -> Seq(Packets)]
  BY DEF Init
<1>. QED  BY <1>6, <1>7, <1>8 DEF Receives

\* What is sent is a packet.
LEMMA PutTyped ==
  ASSUME TxInv(tx), wire \in [Cids -> Seq(Packets)], NEW S, NEW kind \in {"data", "copy", "end"}, Put(S, kind)
  PROVE  wire' \in [Cids -> Seq(Packets)]
<1>1. \A c \in Cids : Packet(c, kind) \in Packets
  BY DEF Packet, Packets, TxInv
<1>2. \A c \in Cids : wire[c] \in Seq(Packets) /\ Append(wire[c], Packet(c, kind)) \in Seq(Packets)
  BY <1>1
<1>. QED  BY <1>2 DEF Put

\* The steps of the transmitter
LEMMA TransmitterReceives ==
  ASSUME Receives, TxInv(tx),
         \/ Transmit \/ ObeyTsu
         \/ \E c \in Cids : DrainEnds(c) \/ TxLinkDown(c) \/ TxLinkUp(c)
  PROVE  Receives'
<1>0. DOMAIN rx = RxFields /\ rx.r \in AnyReceivers /\ wire \in [Cids -> Seq(Packets)]
  BY DEF Receives
<1>1. ASSUME \E S : \E kind \in {"data", "copy", "end"} : Put(S, kind)
      PROVE  wire' \in [Cids -> Seq(Packets)]
  BY <1>0, <1>1, PutTyped
<1>2. Transmit => rx' = rx /\ \E S : \E kind \in {"data", "copy", "end"} : Put(S, kind)
  BY Zenon DEF Transmit, TransmitCopies, TransmitOnce
<1>3. ObeyTsu => DOMAIN rx' = RxFields /\ rx'.r = rx.r /\ \E S : \E kind \in {"data", "copy", "end"} : Put(S, kind)
  <2>. SUFFICES ASSUME ObeyTsu PROVE DOMAIN rx' = RxFields /\ rx'.r = rx.r /\ \E S : Put(S, "end")
    OBVIOUS
  <2>1. \E S : Put(S, "end")
    BY Zenon DEF ObeyTsu
  <2>2. rx' = [rx EXCEPT !.start = tx.sn]
    BY DEF ObeyTsu
  <2>. QED  BY <1>0, <2>1, <2>2 DEF RxFields
<1>4. \A c \in Cids : DrainEnds(c) => rx' = rx /\ wire' = wire
  BY DEF DrainEnds
<1>5. \A c \in Cids : TxLinkDown(c) \/ TxLinkUp(c) => rx' = rx /\ \E S : \E kind \in {"data", "copy", "end"} : Put(S, kind)
  <2>. TAKE c \in Cids
  <2>1. TxLinkDown(c) => rx' = rx /\ \E S : Put(S, "end")
    BY Zenon DEF TxLinkDown, TxEvent
  <2>2. TxLinkUp(c) => rx' = rx /\ \E S : Put(S, "end")
    BY Zenon DEF TxLinkUp, TxEvent
  <2>. QED  BY <2>1, <2>2
<1>. QED  BY <1>0, <1>1, <1>2, <1>3, <1>4, <1>5, ReceivesOf

\* A packet comes, of the data or an end marker.
LEMMA PacketReceives ==
  ASSUME Receives, NEW c \in Cids, Receive(c)
  PROVE  Receives'
<1>0. DOMAIN rx = RxFields /\ rx.r \in AnyReceivers /\ wire \in [Cids -> Seq(Packets)]
  BY DEF Receives
<1>. DEFINE p == Head(wire[c])
<1>1. rx' = ReceivePacket(rx, p) /\ wire' = [wire EXCEPT ![c] = Tail(@)]
  BY DEF Receive
<1>2. wire[c] \in Seq(Packets) /\ wire[c] # <<>>
  BY <1>0 DEF Receive
<1>3. p \in Packets /\ wire' \in [Cids -> Seq(Packets)]
  BY <1>0, <1>1, <1>2
<1>. HIDE DEF p
<1>4. CASE p.kind = "end"
  <2>1. rx' = [rx EXCEPT !.r = ReceiveEndMarker(@, p.cid)]
    BY <1>1, <1>4 DEF ReceivePacket
  <2>2. DOMAIN rx' = RxFields /\ rx'.r = ReceiveEndMarker(rx.r, p.cid)
    BY <1>0, <2>1 DEF RxFields
  <2>. QED  BY <1>0, <1>3, <2>2, ReceiveTyped, ReceivesOf
<1>5. CASE p.kind # "end"
  <2>. DEFINE y == ReportLoss(rx, p)
  <2>1. DOMAIN y = RxFields /\ y.r = rx.r
    BY <1>0 DEF ReportLoss, RxFields
  <2>2. rx' = [y EXCEPT !.r = ReceiveData(AfterNotes(@, p), p, rx.up)]
    BY <1>1, <1>5 DEF ReceivePacket
  <2>. HIDE DEF y
  <2>3. DOMAIN rx' = RxFields /\ rx'.r = ReceiveData(AfterNotes(rx.r, p), p, rx.up)
    BY <2>1, <2>2 DEF RxFields
  <2>4. AfterNotes(rx.r, p) \in AnyReceivers
    BY <1>0, <1>3, ReceiveTyped
  <2>5. rx'.r \in AnyReceivers
    BY <1>3, <2>3, <2>4, ReceiveTyped
  <2>. QED  BY <1>3, <2>3, <2>5, ReceivesOf
<1>. QED  BY <1>4, <1>5

\* A packet held becomes late.
LEMMA LateReceives ==
  ASSUME Receives, BecomesLate
  PROVE  Receives'
<1>0. DOMAIN rx = RxFields /\ rx.r \in AnyReceivers /\ wire \in [Cids -> Seq(Packets)]
  BY DEF Receives
<1>. DEFINE fresh == {i \in DOMAIN rx.r.held : ~rx.r.held[i].late}
            m == Min(fresh)
            h == rx.r.held
<1>1. rx' = [rx EXCEPT !.r.held[m].late = TRUE] /\ wire' = wire
  BY DEF BecomesLate
<1>2. h \in Seq(Items)
  BY <1>0 DEF AnyReceivers
<1>. HIDE DEF m, h, fresh
<1>3. \A i \in DOMAIN h : [h[i] EXCEPT !.late = TRUE] \in Items
  <2>. TAKE i \in DOMAIN h
  <2>1. h[i] \in Items
    BY <1>2
  <2>. QED  BY <2>1 DEF Items
<1>. DEFINE v == [h EXCEPT ![m].late = TRUE]
<1>4. v \in Seq(Items)
  <2>1. v = [i \in DOMAIN h |-> IF i = m THEN [h[i] EXCEPT !.late = TRUE] ELSE h[i]]
    BY <1>2
  <2>2. DOMAIN h = 1 .. Len(h) /\ Len(h) \in Nat /\ \A i \in DOMAIN h : h[i] \in Items
    BY <1>2
  <2>. HIDE DEF v
  <2>3. v \in [1 .. Len(h) -> Items]
    BY <1>3, <2>1, <2>2
  <2>. QED  BY <2>2, <2>3
<1>. HIDE DEF v
<1>5. DOMAIN rx' = RxFields /\ rx'.r = [rx.r EXCEPT !.held = v]
  BY <1>0, <1>1 DEF RxFields, v, h
<1>6. rx'.r \in AnyReceivers
  BY <1>0, <1>4, <1>5 DEF AnyReceivers
<1>. QED  BY <1>0, <1>1, <1>5, <1>6, ReceivesOf

\* The other steps of the receiver, and losses
LEMMA ReceiverReceives ==
  ASSUME Receives,
         \/ SendTsu \/ ReorderingTimeout \/ StopReorderTimeout \/ UNCHANGED vars
         \/ \E c \in Cids : Lose(c) \/ RxLinkChanges(c)
  PROVE  Receives'
<1>0. DOMAIN rx = RxFields /\ rx.r \in AnyReceivers /\ wire \in [Cids -> Seq(Packets)]
  BY DEF Receives
<1>1. CASE SendTsu
  <2>1. wire' = wire /\ (rx' = rx \/ rx' = [rx EXCEPT !.r.on = TRUE, !.since = Len(rx.r.out) + 1])
    BY <1>1 DEF SendTsu
  <2>2. DOMAIN rx' = RxFields /\ rx'.r \in {rx.r, [rx.r EXCEPT !.on = TRUE]}
    BY <1>0, <2>1 DEF RxFields
  <2>3. rx'.r \in AnyReceivers
    BY <1>0, <2>2 DEF AnyReceivers
  <2>. QED  BY <1>0, <2>1, <2>2, <2>3, ReceivesOf
<1>2. CASE ReorderingTimeout
  <2>1. wire' = wire /\ rx' = [rx EXCEPT !.r = ReleaseInOrderPackets([rx.r EXCEPT !.timer = FALSE])]
    BY <1>2 DEF ReorderingTimeout
  <2>2. [rx.r EXCEPT !.timer = FALSE] \in AnyReceivers
    BY <1>0 DEF AnyReceivers
  <2>3. DOMAIN rx' = RxFields /\ rx'.r = ReleaseInOrderPackets([rx.r EXCEPT !.timer = FALSE])
    BY <1>0, <2>1 DEF RxFields
  <2>4. rx'.r \in AnyReceivers
    BY <2>2, <2>3, ReleaseInOrderTyped
  <2>. QED  BY <1>0, <2>1, <2>3, <2>4, ReceivesOf
<1>3. CASE StopReorderTimeout
  <2>1. wire' = wire /\ rx' = [rx EXCEPT !.r = StopReordering([@ EXCEPT !.stopTimer = FALSE])]
    BY <1>3 DEF StopReorderTimeout
  <2>2. [rx.r EXCEPT !.stopTimer = FALSE] \in AnyReceivers
    BY <1>0 DEF AnyReceivers
  <2>3. DOMAIN rx' = RxFields /\ rx'.r = StopReordering([rx.r EXCEPT !.stopTimer = FALSE])
    BY <1>0, <2>1 DEF RxFields
  <2>4. rx'.r \in AnyReceivers
    BY <2>2, <2>3, StopTyped
  <2>. QED  BY <1>0, <2>1, <2>3, <2>4, ReceivesOf
<1>4. CASE UNCHANGED vars
  BY <1>0, <1>4, ReceivesOf DEF vars
<1>5. ASSUME NEW c \in Cids, Lose(c)
      PROVE  rx' = rx /\ wire' \in [Cids -> Seq(Packets)]
  <2>1. rx' = rx /\ wire' = [wire EXCEPT ![c] = Tail(@)] /\ wire[c] \in Seq(Packets) /\ wire[c] # <<>>
    BY <1>0, <1>5 DEF Lose
  <2>2. Tail(wire[c]) \in Seq(Packets)
    BY <2>1
  <2>. QED  BY <1>0, <2>1, <2>2
<1>6. ASSUME NEW c \in Cids, RxLinkChanges(c)
      PROVE  wire' = wire /\ DOMAIN rx' = RxFields /\ rx'.r = rx.r
  BY <1>0, <1>6 DEF RxLinkChanges, RxFields
<1>. QED  BY <1>0, <1>1, <1>2, <1>3, <1>4, <1>5, <1>6, ReceivesOf

\* Every step keeps this part of the invariant.
LEMMA NextReceives ==
  ASSUME Receives, TxInv(tx), [Next]_vars
  PROVE  Receives'
BY TransmitterReceives, PacketReceives, LateReceives, ReceiverReceives DEF Next

\* Both parts say that the lists and the numbers are of their forms.
LEMMA TypesSuffice ==
  ASSUME Sends, Receives
  PROVE  TypeOK
<1>1. Range(tx.t.vec) \cup Range(tx.t.dup) \subseteq Cids
  <2>1. \A v \in Seq(Cids) : Range(v) \subseteq Cids
    BY DEF Range
  <2>. QED  BY <2>1 DEF Sends, ListOK
<1>2. rx.r.newCid \in Cids \cup {NoCid} /\ rx.r.expected \in 0 .. MaxSn
  BY DEF Receives, AnyReceivers
<1>. QED  BY <1>1, <1>2 DEF TypeOK, Sends, TxInv, ListOK

\* In split mode each link carries exactly its share of each whole burst, and
\* is less than a packet off after each half of one, for any number of links,
\* any of the bursts that the code knows and any splits of them, as long as
\* nothing but Transmit takes entries of the list
\* (GmaTxControl::ConstructTrafficSplitList, GetDeliveryLinkCid).
THEOREM SharesAsTold == Spec => []ShareAsTold
<1>. DEFINE Inv == Sends /\ Receives
<1>1. Init => Inv
  BY InitSends, InitReceives
<1>2. Inv /\ [Next]_vars => Inv'
  BY NextSends, NextReceives DEF Sends
<1>3. Inv => ShareAsTold
  BY TypesSuffice, SharesSuffice DEF ShareAsTold, Sends
<1>. QED  BY <1>1, <1>2, <1>3, PTL DEF Spec
=============================================================================
