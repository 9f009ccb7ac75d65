---------------------------- MODULE TrafficSplit -----------------------------
(***************************************************************************)
(* What the receiver of a GMA flow decides: how many packets of a burst    *)
(* each link shall carry (gma-rx-control.cc).  A split is a function from  *)
(* links to numbers of packets; NoSplit stands for the empty list of an    *)
(* interface that has not decided anything yet.                            *)
(***************************************************************************)
EXTENDS LinkState, Functions

NoSplit == <<>>

\* Packets of one burst, and the splits of a burst of a given size.
Burst(k) == SumFunction(k)

Splits(burst) == {k \in [Cids -> 0 .. burst] : Burst(k) = burst}

AllTo(c, burst) == [d \in Cids |-> IF d = c THEN burst ELSE 0]

\* n packets dealt one by one to the links of a non-empty set, in their order,
\* beginning again with the first when all have got one.
DealRoundRobin(n, links) ==
  LET m       == Cardinality(links)
      Rank(c) == Cardinality({d \in links : d < c})
  IN  [c \in Cids |-> IF c \notin links THEN 0
                      ELSE n \div m + (IF Rank(c) < n % m THEN 1 ELSE 0)]

\* Decision on the failure of link c: whether to tell the transmitter, what,
\* and the split remembered.  Before the first decision the transmitter is
\* told to use the default link, and that is not remembered.
LinkDownTsu(s, split, burst, c) ==
  IF split = NoSplit
  THEN [update |-> c # s.low, tsu |-> AllTo(s.low, burst), split |-> NoSplit]
  ELSE IF split[c] = 0 \/ UpLinks(s) = {}
  THEN [update |-> FALSE, tsu |-> split, split |-> split]
  ELSE LET share == DealRoundRobin(split[c], UpLinks(s))
           new   == [d \in Cids |-> (IF d = c THEN 0 ELSE split[d]) + share[d]]
       IN  [update |-> TRUE, tsu |-> new, split |-> new]

Started(s, split, burst) == IF split = NoSplit THEN AllTo(s.low, burst) ELSE split

\* The first link in the order of the list that carries traffic, from which
\* the delay algorithm starts its search, whether that link is up or not.
FirstUsed(k) == Min({c \in Cids : k[c] # 0})

MoveShare(k, from, to, n) ==
  [c \in Cids |-> k[c] - (IF c = from THEN n ELSE 0) + (IF c = to THEN n ELSE 0)]

\* Every split that the delay and loss rules can make of k, whatever the
\* measurements: part of one link's share moves to another link, or a steered
\* flow returns to the low priority link.
MeasuredSplits(s, k) ==
  LET eligible == UpLinks(s) \cup {FirstUsed(k)}
      moves    == UNION {{MoveShare(k, a, b, n) : n \in 1 .. k[a]} :
                           a \in eligible, b \in eligible}
  IN  IF Burst(k) = 1 /\ s.low \in UpLinks(s) THEN moves \cup {AllTo(s.low, 1)}
                                             ELSE moves

=============================================================================
