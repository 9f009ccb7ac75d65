------------------------------ MODULE DataPath -------------------------------
(***************************************************************************)
(* Data packets of one direction of a GMA flow, from                       *)
(* GmaVirtualInterface::Transmit to the callback that forwards them at the *)
(* other end (gma-virtual-interface.cc).  The receiver decides how traffic *)
(* is split or, in steer mode, which link carries it, and tells the        *)
(* transmitter with a TSU; in duplicate mode each packet goes over all     *)
(* links.  wire[c] holds what is under way over link c: a link keeps the   *)
(* order of its packets and may lose some of them.                         *)
(*                                                                         *)
(* Time is not counted.  A packet held for reordering becomes late some    *)
(* time after the packets that arrived before it.                          *)
(***************************************************************************)
EXTENDS TxControl, Reordering

CONSTANTS Modes,         \* among "split", "steer" and "duplicate"
          SplitSet,      \* splits that the receiver may decide on in split mode
          SplitBurst,    \* their number of packets
          LsnReordering, \* values of the attribute UseLsnReordering
          FirstSn, FirstLsn, \* the numbers that the model begins with
          MaxPackets,    \* bound on the packets sent in each mode
          MaxTsus,       \* bound on the decisions in each mode
          MaxEvents,     \* bound on links going up or down and control messages
          MaxLosses      \* bound on the packets lost

ASSUME DataPathAssumption ==
  /\ Modes \subseteq {"split", "steer", "duplicate"}
  /\ SplitBurst \in {4, 8, 16, 32, 128} /\ SplitSet \subseteq Splits(SplitBurst)
  /\ LsnReordering \subseteq BOOLEAN
  /\ FirstSn \in Nat /\ FirstSn < SnSpace /\ FirstLsn \in Nat /\ FirstLsn < LsnSpace
  /\ {MaxPackets, MaxTsus} \subseteq [Modes -> Nat] /\ {MaxEvents, MaxLosses} \subseteq Nat

VARIABLES mode,   \* of the flow, never changed
          tx,     \* the transmitter
          rx,     \* the receiver
          wire,   \* packets on their way over each link
          tsu,    \* the decision that the transmitter has not obeyed yet
          spent   \* how much of each bound is used

vars == <<mode, tx, rx, wire, tsu, spent>>

BurstSize == IF mode = "steer" THEN 1 ELSE SplitBurst

Init ==
  /\ mode \in Modes
  /\ \E probed \in BOOLEAN :  \* an ACK of the first probes has brought Wi-Fi up
       tx = [t |-> InitTx, draining |-> {}, sn |-> FirstSn,
           ls |-> IF probed THEN LinkUp(AddedLinks, "ctrFailed", Wifi) ELSE AddedLinks,
           lsn |-> [c \in Cids |-> FirstLsn],
           told |-> NoSplit,              \* the TSU obeyed
           tally |-> [c \in Cids |-> 0],  \* packets sent over each link since then
           steady |-> TRUE,               \* no link has changed, no draining, no peek
           moved |-> probed]              \* the default links have been computed
  /\ \E useLsn \in LsnReordering :
       rx = [r |-> InitRx(FirstSn, FirstLsn, FALSE, useLsn), up |-> Cids,
             since |-> 1,                 \* first packet forwarded with the reordering on
             start |-> FirstSn,           \* first number sent after the last TSU
             lost |-> [c \in Cids |-> 0], \* missing packets reported for each link
             lsn |-> [c \in Cids |-> (FirstLsn + LsnSpace - 1) % LsnSpace],
             gsn |-> [c \in Cids |-> (FirstSn + MaxSn) % SnSpace]]
  /\ wire = [c \in Cids |-> <<>>]
  /\ tsu = NoSplit
  /\ spent = [packets |-> 0, tsus |-> 0, events |-> 0, losses |-> [c \in Cids |-> 0],
              faults |-> {}]              \* which of "loss", "late", "link", "blind" have happened

Count(what) == spent' = [spent EXCEPT ![what] = @ + 1]

Packet(c, kind) == [kind |-> kind, cid |-> c, sn |-> tx.sn, lsn |-> tx.lsn[c]]

-----------------------------------------------------------------------------
(* Transmitter                                                             *)

NextLsn(x, S) == [c \in Cids |-> IF c \in S THEN (x.lsn[c] + 1) % LsnSpace ELSE x.lsn[c]]

Put(S, kind) == wire' = [c \in Cids |-> IF c \in S THEN Append(wire[c], Packet(c, kind)) ELSE wire[c]]

\* Duplicate mode: a copy over each link that is up, under one number
Duplicated == [tx EXCEPT !.sn = Succ(@), !.lsn = NextLsn(tx, UpLinks(tx.ls))]

TransmitCopies ==
  /\ mode = "duplicate"
  /\ tx' = Duplicated
  /\ Put(UpLinks(tx.ls), "copy")

\* The link of the next packet, and the transmitter after
Choice == ChooseCid(tx.t, tx.ls, tx.draining)

TransmitOnce ==
  /\ mode # "duplicate"
  /\ tx' = [tx EXCEPT !.t = Choice.t, !.sn = Succ(@),
                      !.lsn = NextLsn(tx, {Choice.cid}),
                      !.draining = IF tx.t.burst > 1 THEN StillDraining(tx.ls, @) ELSE @,
                      !.tally[Choice.cid] = @ + 1]
  /\ Put({Choice.cid}, "data")

Transmit ==
  /\ spent.packets < MaxPackets[mode]
  /\ Count("packets")
  /\ TransmitCopies \/ TransmitOnce
  /\ UNCHANGED <<mode, rx, tsu>>

\* The links of the next packet before and after the transmitter is told otherwise
LinkChange(before, after) ==
  LET Next1(x) == GetDeliveryLinkCid(x.t, x.ls).cid IN <<Next1(before), Next1(after)>>

\* In steer mode an end marker follows the last packet over the link left.
SteeredAway(before, after) ==
  LET change == LinkChange(before, after)
  IN  IF mode = "steer" /\ change[1] # change[2] THEN {change[1]} ELSE {}

\* The links that drain after a TSU, of those that are to carry traffic: never
\* all, and none is changed if all would have to.
Drains(k) == LET used == {c \in Cids : k[c] > 0} IN (SUBSET used \ {used}) \cup {tx.draining}

\* The transmitter obeys a TSU; the TSA tells the receiver which number is next.
ObeyTsu ==
  /\ tsu # NoSplit
  /\ \E D \in IF mode = "steer" THEN {{}} ELSE Drains(tsu) :
       LET after == [tx EXCEPT !.t = RcvCtrlMsg(@, tsu, BurstSize), !.draining = D, !.told = tsu,
                               !.tally = [c \in Cids |-> 0], !.steady = D = {} /\ {c \in Cids : tsu[c] > 0} \subseteq UpLinks(tx.ls)]
       IN  tx' = after /\ Put(SteeredAway(tx, after), "end")
  /\ tsu' = NoSplit
  /\ rx' = [rx EXCEPT !.start = tx.sn]
  /\ UNCHANGED <<mode, spent>>

\* A link has drained.
DrainEnds(c) ==
  /\ c \in tx.draining
  /\ tx' = [tx EXCEPT !.draining = @ \ {c}]
  /\ UNCHANGED <<mode, rx, wire, tsu, spent>>

\* Before a handler changes the state of a link it asks for the link of the
\* next packet, which takes an entry of the list.
Peeked == [tx EXCEPT !.t = GetDeliveryLinkCid(@, tx.ls).t, !.steady = FALSE]

TxEvent ==
  /\ spent.events < MaxEvents
  /\ spent' = [spent EXCEPT !.events = @ + 1,
                            !.faults = IF mode = "split" /\ rx.r.on THEN @ ELSE @ \cup {"link"}]
  /\ UNCHANGED <<mode, rx, tsu>>

WithLinks(x, s) == [x EXCEPT !.ls = s, !.moved = @ \/ UpLinks(x.ls) # UpLinks(s)]

\* A message of the control plane takes a link down.  The end marker is sent
\* if the other direction was told of it too.
TxLinkDown(c) ==
  /\ TxEvent /\ IsLinkUp(tx.ls, c)
  /\ LET after == WithLinks(Peeked, LinkDown(tx.ls, "ctrFailed", c))
     IN  /\ tx' = after
         /\ \E told \in BOOLEAN : Put(IF told THEN SteeredAway(tx, after) ELSE {}, "end")

\* An ACK brings a link up, or it is up already.
TxLinkUp(c) ==
  /\ TxEvent
  /\ LET after == WithLinks(Peeked, LinkUp(tx.ls, "ctrFailed", c))
     IN  tx' = after /\ Put(SteeredAway(tx, after), "end")

-----------------------------------------------------------------------------
(* Receiver                                                                *)

\* With the delay algorithm the receiver decides at the end of a measurement
\* cycle, which begins with a packet sent after the last decision was obeyed.
CycleEnded == SnDiff(rx.r.expected, rx.start) > 1

Decisions == IF mode = "steer" THEN {AllTo(c, 1) : c \in Cids} ELSE SplitSet

\* Whether the receiver notices if packets after a TSU overtake earlier ones: in
\* steer mode not between an end of the reordering (m_newLinkCid is UINT8_MAX)
\* and the packet after, in split mode not while the reordering is off.
Guarded(r) == IF mode = "steer" THEN r.newCid # NoCid ELSE r.on

\* SendTsu: in split mode the reordering begins once two links are to be used.
SendTsu ==
  /\ mode # "duplicate" /\ spent.tsus < MaxTsus[mode]
  /\ CycleEnded /\ tsu = NoSplit
  /\ \E k \in Decisions :
       /\ tsu' = k
       /\ rx' = LET on == mode = "split" /\ Cardinality({c \in Cids : k[c] > 0}) > 1
                IN  IF on /\ ~rx.r.on THEN [rx EXCEPT !.r.on = TRUE, !.since = Len(rx.r.out) + 1]
                    ELSE rx
  /\ spent' = [spent EXCEPT !.tsus = @ + 1,
                            !.faults = IF Guarded(rx'.r) THEN @ ELSE @ \cup {"blind"}]
  /\ UNCHANGED <<mode, tx, wire>>

\* The report of a link: packets missing before p, by the number of the link.
\* 128 or more look like a packet out of order if its own number is not larger.
ReportLoss(x, p) ==
  LET gap == LsnDiff(p.lsn, x.lsn[p.cid])
      up  == IF gap >= 1 THEN gap - 1
             ELSE IF SnDiff(p.sn, x.gsn[p.cid]) > 0 THEN LsnSpace + gap - 1 ELSE 0
  IN  IF gap < 1 /\ SnDiff(p.sn, x.gsn[p.cid]) <= 0 THEN x
      ELSE [x EXCEPT !.lost[p.cid] = @ + up, !.lsn[p.cid] = p.lsn, !.gsn[p.cid] = p.sn]

AfterNotes(r, p) ==
  LET s == IF mode = "steer" THEN NoteLink(r, p.cid) ELSE r
  IN  IF p.kind = "copy" THEN NoteCopies(s) ELSE s

ReceivePacket(x, p) ==
  IF p.kind = "end" THEN [x EXCEPT !.r = ReceiveEndMarker(@, p.cid)]
  ELSE [ReportLoss(x, p) EXCEPT !.r = ReceiveData(AfterNotes(@, p), p, x.up)]

Receive(c) ==
  /\ wire[c] # <<>>
  /\ \E next \in {ReceivePacket(rx, Head(wire[c]))} : rx' = next
  /\ wire' = [wire EXCEPT ![c] = Tail(@)]
  /\ UNCHANGED <<mode, tx, tsu, spent>>

\* The oldest packet held that is not late becomes late.
BecomesLate ==
  LET fresh == {i \in DOMAIN rx.r.held : ~rx.r.held[i].late} IN
  /\ fresh # {}
  /\ rx' = [rx EXCEPT !.r.held[Min(fresh)].late = TRUE]
  /\ spent' = [spent EXCEPT !.faults = @ \cup {"late"}]
  /\ UNCHANGED <<mode, tx, wire, tsu>>

\* Set for the packet with the smallest number, or left by StopReordering
ReorderingTimeout ==
  /\ rx.r.timer
  /\ rx.r.held # <<>> => MinHead(rx.r).late
  /\ \E next \in {ReleaseInOrderPackets([rx.r EXCEPT !.timer = FALSE])} : rx' = [rx EXCEPT !.r = next]
  /\ UNCHANGED <<mode, tx, wire, tsu, spent>>

StopReorderTimeout ==
  /\ rx.r.stopTimer
  /\ rx' = [rx EXCEPT !.r = StopReordering([@ EXCEPT !.stopTimer = FALSE])]
  /\ spent' = [spent EXCEPT !.faults = @ \cup {"late"}]
  /\ UNCHANGED <<mode, tx, wire, tsu>>

RxLinkChanges(c) ==
  /\ spent.events < MaxEvents
  /\ rx' = [rx EXCEPT !.up = IF c \in @ THEN @ \ {c} ELSE @ \cup {c}]
  /\ spent' = [spent EXCEPT !.events = @ + 1, !.faults = @ \cup {"link"}]
  /\ UNCHANGED <<mode, tx, wire, tsu>>

Lose(c) ==
  /\ wire[c] # <<>> /\ SumFunction(spent.losses) < MaxLosses
  /\ wire' = [wire EXCEPT ![c] = Tail(@)]
  /\ spent' = [spent EXCEPT !.losses[c] = @ + (IF Head(wire[c]).kind = "end" THEN 0 ELSE 1),
                        !.faults = @ \cup {"loss"}]
  /\ UNCHANGED <<mode, tx, rx, tsu>>

Next == \/ Transmit \/ ObeyTsu \/ SendTsu
        \/ BecomesLate \/ ReorderingTimeout \/ StopReorderTimeout
        \/ \E c \in Cids : \/ DrainEnds(c) \/ TxLinkDown(c) \/ TxLinkUp(c)
                           \/ Receive(c) \/ Lose(c) \/ RxLinkChanges(c)

Spec == Init /\ [][Next]_vars

\* Time passes until the timer of the reordering has fired.
FairSpec == Spec /\ WF_vars(BecomesLate \/ ReorderingTimeout)

-----------------------------------------------------------------------------
(* Properties                                                              *)

\* Splitting lists name links of this flow and have the length of their burst.
TypeOK ==
  /\ mode \in Modes /\ tsu \in Splits(BurstSize) \cup {NoSplit}
  /\ tx.ls \in LinkStates /\ tx.draining \subseteq Cids
  /\ Range(tx.t.vec) \cup Range(tx.t.dup) \subseteq Cids
  /\ tx.t.vec # <<>> => Len(tx.t.vec) = tx.t.burst /\ tx.t.index \in 0 .. tx.t.burst - 1
  /\ rx.r.newCid \in Cids \cup {NoCid} /\ rx.r.expected \in 0 .. MaxSn

\* Every packet forwarded since the reordering began comes after the one before.
InOrder == \A i, j \in rx.since .. Len(rx.r.out) : i < j => SnDiff(rx.r.out[j], rx.r.out[i]) > 0

\* A split flow is never delivered out of order nor twice while the reordering
\* is on, whatever is lost, is late or drains (ReleaseInOrderPackets).
InOrderSplit == mode = "split" /\ rx.r.on => InOrder

\* A flow steered to another link stays in order although packets over the new
\* link overtake those over the old one: the end marker tells when the last of
\* these has come (SendEndMarker, StopReordering).  Not covered: late packets, and
\* a TSU sent before a packet has told which link is in use ("blind").
InOrderSteer == mode = "steer" /\ spent.faults \subseteq {"loss"} => InOrder

\* If nothing is lost or late, no link changes and no TSU is sent blindly, the
\* reordering forwards all packets: switching it on and off again drops none.
NothingSkipped ==
  mode # "duplicate" /\ spent.faults = {}
    => \A i \in DOMAIN rx.r.out : rx.r.out[i] = (FirstSn + i - 1) % SnSpace

\* After each whole burst each link has carried just its share of it, and
\* after a half of one it is not a packet off, as long as its links are up and
\* nobody but Transmit has asked for the next link.  The list that says so is of
\* the form TypeOK states.
ShareAsTold ==
  LET n      == SumFunction(tx.tally)
      Off(c) == tx.tally[c] * SplitBurst - tx.told[c] * n IN
  /\ TypeOK
  /\ mode = "split" /\ tx.told # NoSplit /\ tx.steady
       => /\ n % SplitBurst = 0 => \A c \in Cids : Off(c) = 0
          /\ (2 * n) % SplitBurst = 0 => \A c \in Cids : Off(c) \in 1 - SplitBurst .. SplitBurst - 1

\* A packet never goes over a link that is down while another is up.
SendsOnUpLink ==
  [][\A c \in Cids : tx'.sn # tx.sn /\ wire'[c] # wire[c] /\ tx.moved /\ UpLinks(tx.ls) # {}
       => IsLinkUp(tx.ls, c)]_vars

\* What is held for reordering is forwarded or dropped some time.
HeldIsReleased == rx.r.held # <<>> ~> rx.r.held = <<>>

\* The losses that the receiver reports for a link, and those that it will see
\* from the next packet over it, are those of the link, although the numbers
\* of a link wrap after 256 packets and copies share a number.
LossesAreCounted ==
  \A c \in Cids : wire[c] = <<>> =>
     LET behind == LsnDiff(tx.lsn[c], rx.lsn[c]) - 1 IN rx.lost[c] + behind = spent.losses[c]

=============================================================================
