----------------------------- MODULE Reordering ------------------------------
(***************************************************************************)
(* The receiver of a GMA flow puts packets that come over several links    *)
(* back into order (gma-virtual-interface.cc, InOrderDelivery to           *)
(* StopReordering).  A receiver is a record.  Each link keeps its own      *)
(* queue; held lists the packets of all of them in the order of their      *)
(* arrival, so that those that have waited too long are its first ones.    *)
(***************************************************************************)
EXTENDS LinkState, Sequences, SequencesExt

SnSpace  == 16777216    \* MAX_GMA_SN + 1
LsnSpace == 256         \* MAX_GMA_LSN + 1
MaxSn    == SnSpace - 1 \* also means that no minimum has been found yet
NoCid    == 255         \* UINT8_MAX

\* Serial number comparison in a space of n numbers
SerialDiff(x, y, n) == LET d == x - y
                       IN  IF d > n \div 2 THEN d - n ELSE IF d < -(n \div 2) THEN d + n ELSE d

SnDiff(x, y) == SerialDiff(x, y, SnSpace)

\* Mutant: no wrap around.
LsnDiffFlat(x, y) == x - y

LsnDiff(x, y) == SerialDiff(x, y, LsnSpace)

\* A receiver that has got all packets before those numbers
InitRx(sn, lsn, reorder, useLsn) ==
  [expected  |-> sn,       \* m_gmaRxExpectedSn
   held      |-> <<>>,     \* m_reorderingQueue of all links
   on        |-> reorder,  \* m_enableReordering
   useLsn    |-> useLsn,   \* m_useLsnReordering
   newCid    |-> NoCid,    \* m_newLinkCid
   lastSn    |-> [c \in Cids |-> (sn + MaxSn) % SnSpace],
   lastLsn   |-> [c \in Cids |-> (lsn + LsnSpace - 1) % LsnSpace],
   timer     |-> FALSE,    \* m_reorderingTimeoutEvent is running
   stopTimer |-> FALSE,    \* m_stopReorderEvent is running
   out       |-> <<>>]     \* numbers of the packets forwarded

Succ(sn) == (sn + 1) % SnSpace

Forward(r, p) == [r EXCEPT !.out = Append(@, p.sn)]

\* Forward a packet and expect its successor.
Accept(r, p) == [Forward(r, p) EXCEPT !.expected = Succ(p.sn)]

Waiting(r) == {r.held[i].cid : i \in DOMAIN r.held}

\* Where the first packet of link c's queue is
FirstOf(r, c) == Min({i \in DOMAIN r.held : r.held[i].cid = c})

\* The one with the smaller number; i is 0 before one has been found.
Smaller(r, i, j) ==
  IF i = 0 \/ r.held[i].sn = MaxSn \/ SnDiff(r.held[i].sn, r.held[j].sn) > 0 THEN j ELSE i

\* Link after link: where the packet with the smallest number among the first
\* of each queue is
MinAt(r) ==
  LET least[c \in 0 .. Max(Waiting(r))] ==
        LET i == IF c = 0 THEN 0 ELSE least[c - 1]
        IN  IF c \in Waiting(r) THEN Smaller(r, i, FirstOf(r, c)) ELSE i
  IN  least[Max(Waiting(r))]

MinHead(r) == r.held[MinAt(r)]

Pop(r) == [r EXCEPT !.held = RemoveAt(@, MinAt(r))]

\* A loop of at most one turn per packet held.  (The set of one element makes
\* TLC evaluate the receiver before each turn once.)
Loop(Turn(_), r) ==
  LET after[n \in 0 .. Len(r.held)] ==
        IF n = 0 THEN r ELSE CHOOSE s \in {Turn(before) : before \in {after[n - 1]}} : TRUE
  IN  after[Len(r.held)]

\* If no link that is up has an empty queue, the smallest number cannot be
\* preceded any more: it is forwarded even if it is a copy.
ReleaseMinSnPacket(r, up) ==
  LET Turn(s) ==
        IF s.held = <<>> \/ ~ up \subseteq Waiting(s) \/ MinHead(s).sn = MaxSn THEN s
        ELSE LET p == MinHead(s)
             IN  IF SnDiff(p.sn, s.expected) >= 0 THEN Accept(Pop(s), p)
                                                  ELSE Forward(Pop(s), p)
  IN  Loop(Turn, r)

ReleaseAllPackets(r) ==
  LET Turn(s) == IF s.held = <<>> THEN s ELSE Accept(Pop(s), MinHead(s)) IN Loop(Turn, r)

\* The timer of the reordering timeout is left running.
StopReordering(r) ==
  ReleaseAllPackets(IF r.on THEN [r EXCEPT !.on = FALSE, !.newCid = NoCid, !.stopTimer = FALSE]
                            ELSE r)

\* A packet in order has come over the link that the flow was steered to.
StopIfNew(r, c) == IF r.newCid = c THEN StopReordering(r) ELSE r

\* Mutant: the timer is not set again.
ArmOnce(r) == [r EXCEPT !.timer = FALSE]

\* The timer runs if packets are left.
Arm(r) == [r EXCEPT !.timer = r.held # <<>>]

\* Whatever needs not wait any longer is forwarded, in order.
ReleaseInOrderPackets(r) ==
  LET Turn(s) ==
        IF s.held = <<>> THEN s
        ELSE LET p == MinHead(s)
             IN  IF p.sn = s.expected THEN StopIfNew(Accept(Pop(s), p), p.cid)
                 ELSE IF SnDiff(p.sn, s.expected) < 0 THEN Forward(Pop(s), p)
                 ELSE IF p.inOrder \/ \E q \in Range(s.held) : q.late THEN Accept(Pop(s), p)
                 ELSE s
  IN  Arm(Loop(Turn, r))

Hold(r, p, inOrder) ==
  [r EXCEPT !.held = Append(@, [sn |-> p.sn, cid |-> p.cid, inOrder |-> inOrder, late |-> FALSE])]

\* Mutant: a packet that follows its predecessor on the link needs not wait.
OnlyLossesOnLink(r, p) == r.useLsn /\ LsnDiff(p.lsn, r.lastLsn[p.cid]) = 1

\* All packets missing before p came over its own link, and are lost.
OnlyLosses(r, p) ==
  r.useLsn /\ LsnDiff(p.lsn, r.lastLsn[p.cid]) = SnDiff(p.sn, r.lastSn[p.cid])

\* A packet with a number larger than expected
OutOfOrder(r, p) ==
  IF ~OnlyLosses(r, p)
  THEN Hold([r EXCEPT !.stopTimer = @ \/ r.newCid = p.cid], p, FALSE)
  ELSE IF p.cid \in Waiting(r) THEN Hold(r, p, TRUE)
  ELSE StopIfNew(ReleaseInOrderPackets(Accept(r, p)), p.cid)

\* Mutant: packets that have been overtaken are forwarded.
DeliverAll(r, p, up) == Accept(r, p)

Deliver(r, p, up) ==
  IF p.sn = r.expected THEN StopIfNew(ReleaseInOrderPackets(Accept(r, p)), p.cid)
  ELSE IF SnDiff(p.sn, r.expected) < 0 THEN r
  ELSE ReleaseInOrderPackets(ReleaseMinSnPacket(OutOfOrder(r, p), up))

InOrderDelivery(r, p, up) ==
  [Deliver(r, p, up) EXCEPT !.lastSn[p.cid] = p.sn, !.lastLsn[p.cid] = p.lsn]

\* Mutant: another link does not begin it.
NoteLinkOnly(r, c) == [r EXCEPT !.newCid = IF @ = NoCid \/ ~r.on THEN c ELSE @]

\* The reordering is for a flow that changes its link, in steer mode: it begins
\* with the first packet over another link than the last one's.
NoteLink(r, c) == [r EXCEPT !.newCid = IF @ = NoCid \/ ~r.on THEN c ELSE @,
                            !.on = @ \/ r.newCid \notin {NoCid, c}]

\* The transmitter sends copies.
NoteCopies(r) == [r EXCEPT !.useLsn = FALSE, !.on = TRUE]

ReceiveEndMarker(r, c) ==
  IF r.newCid = NoCid THEN r
  ELSE IF r.newCid = c THEN [r EXCEPT !.newCid = NoCid]
  ELSE StopReordering(r)

ReceiveData(r, p, up) ==
  IF r.on THEN InOrderDelivery(r, p, up) ELSE Accept(r, p)

=============================================================================
