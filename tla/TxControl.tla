------------------------------ MODULE TxControl ------------------------------
(***************************************************************************)
(* The transmitter of a GMA flow (gma-tx-control.cc and the choice of the  *)
(* link in GmaVirtualInterface::Transmit).  A traffic splitting update     *)
(* (TSU) is spread over a burst of packets by reversing the bits of their  *)
(* index; packets take the links of that list in turn, round and round,    *)
(* and those that are down or draining are skipped.                        *)
(*                                                                         *)
(* A transmitter is a record; sending a packet or peeking at the link of   *)
(* the next one are operators that give a link and the record after.       *)
(***************************************************************************)
EXTENDS TrafficSplit, Sequences, SequencesExt

\* Nothing is known before the first TSU.
InitTx == [vec |-> <<>>,   \* m_cidVector
           dup |-> <<>>,   \* m_cidDupVector
           burst |-> 0,    \* m_paramL
           index |-> 0]    \* m_splittingIndex

CidsBelow(c) == {d \in Cids : d < c}

\* The links of a split in their order, each as often as it has packets.
InOrderCids(k) ==
  LET Before(c) == SumFunction([d \in CidsBelow(c) |-> k[d]])
  IN  [i \in 1 .. Burst(k) |-> CHOOSE c \in Cids : Before(c) < i /\ i <= Before(c) + k[c]]

\* The tables REVERSE_BITS_INDEX4 to 128: i with its bits in reverse order.
ReverseBits(i, burst) ==
  LET w == CHOOSE n \in 0 .. 7 : 2 ^ n = burst
  IN  SumFunction([b \in 0 .. w - 1 |-> ((i \div 2 ^ b) % 2) * 2 ^ (w - 1 - b)])

\* Mutant: the reversed index has lost its last bit.
SpreadHalf(cids) == [i \in 1 .. Len(cids) |-> cids[1 + (ReverseBits(i - 1, Len(cids)) \div 2)]]

Spread(cids) == [i \in 1 .. Len(cids) |-> cids[1 + ReverseBits(i - 1, Len(cids))]]

\* Steer mode: a primary link that is still asked for stays, further links get
\* copies of each packet.
Steer(t, cids) ==
  LET primary == IF t.vec # <<>> /\ t.vec[1] \in Range(cids) THEN t.vec[1] ELSE cids[1]
      further[n \in 0 .. Len(cids)] ==
        IF n = 0 THEN <<>>
        ELSE IF cids[n] = primary THEN further[n - 1] ELSE Append(further[n - 1], cids[n])
  IN  [t EXCEPT !.vec = <<primary>>, !.dup = further[Len(cids)]]

\* A TSU with split k of a burst
RcvCtrlMsg(t, k, burst) ==
  LET u == IF burst = 1 THEN Steer(t, InOrderCids(k))
           ELSE [t EXCEPT !.vec = Spread(InOrderCids(k))]
  IN  [u EXCEPT !.burst = burst, !.index = 0]

\* The link that is n positions further in the list
CidAt(t, n) == t.vec[((t.index + n) % t.burst) + 1]

Skip(t, n) == [t EXCEPT !.index = (@ + n) % t.burst]

\* RxSideAlgorithm, the default of GetDeliveryLinkCid: whoever asks for the
\* link of the next packet takes an entry of the list.
GetDeliveryLinkCid(t, s) ==
  IF t.vec = <<>> THEN [cid |-> s.low, t |-> t]
  ELSE [cid |-> IF IsLinkUp(s, CidAt(t, 0)) THEN CidAt(t, 0) ELSE s.low, t |-> Skip(t, 1)]

\* If all links that are up are draining, none is skipped for that any more.
StillDraining(s, draining) ==
  IF UpLinks(s) # {} /\ UpLinks(s) \subseteq draining THEN {} ELSE draining

\* Mutant: a link that is down is taken, a draining one is not.
ChooseCidOfList(t, s, draining) ==
  LET next == {n \in 0 .. t.burst - 1 : CidAt(t, n) \notin StillDraining(s, draining)}
  IN  IF t.burst <= 1 \/ next = {} THEN GetDeliveryLinkCid(t, s)
      ELSE [cid |-> CidAt(t, Min(next)), t |-> Skip(t, Min(next) + 1)]

\* The link of the next packet.  In split mode, the next in the list that is
\* up and not draining, if there is one.
ChooseCid(t, s, draining) ==
  LET good == UpLinks(s) \ StillDraining(s, draining)
      next == {n \in 0 .. t.burst - 1 : CidAt(t, n) \in good}
  IN  IF t.burst <= 1 THEN GetDeliveryLinkCid(t, s)
      ELSE IF UpLinks(s) = {} THEN [cid |-> s.low, t |-> t]
      ELSE IF next # {} THEN [cid |-> CidAt(t, Min(next)), t |-> Skip(t, Min(next) + 1)]
      ELSE GetDeliveryLinkCid(t, s)

=============================================================================
