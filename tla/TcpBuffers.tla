------------------------------ MODULE TcpBuffers -----------------------------
(***************************************************************************)
(* ns-3's TcpTxBuffer and TcpRxBuffer, as tcp-socket-base.cc uses them.    *)
(* They are part of ns-3, not of this repository.  Sequence numbers count  *)
(* segments: 0 is the SYN, data begin at 1, and the FIN follows them.      *)
(***************************************************************************)
EXTENDS Integers, FiniteSets, FiniteSetsExt

CONSTANT RetxThresh   \* ReTxThreshold

ASSUME RetxThreshAssumption == RetxThresh \in Nat /\ RetxThresh > 0

-----------------------------------------------------------------------------
(* The transmission buffer: data from head on, up to end sent, up to tail  *)
(* written by the application; the scoreboard of RFC 6675.                 *)

EmptyTx == [head |-> 0, end |-> 0, tail |-> 0, sacked |-> {}, lost |-> {}, retrans |-> {}]

Sent(tx)             == tx.head .. tx.end - 1
TxSize(tx)           == tx.tail - tx.head
SizeFrom(tx, seq)    == IF seq < tx.tail THEN tx.tail - seq ELSE 0
SetHead(tx, seq)     == [tx EXCEPT !.head = seq, !.end = seq, !.tail = TxSize(tx) + seq]
BytesInFlight(tx)    == Cardinality(Sent(tx)) - Cardinality(tx.sacked) - Cardinality(tx.lost)
                        + Cardinality(tx.retrans)

\* A segment below the highest SACKed one is lost or not, one above is not.
IsLost(tx, seq) == seq \in tx.lost /\ \E n \in tx.sacked : seq < n

\* What lies below RetxThresh SACKed segments is taken for lost.
Presumed(tx, sacked) ==
  {n \in Sent(tx) \ sacked : Cardinality({m \in sacked : n < m}) >= RetxThresh}

\* SACK blocks arrive.
Update(tx, blocks) ==
  LET sacked == tx.sacked \cup (blocks \cap Sent(tx))
  IN  IF sacked = tx.sacked THEN tx
      ELSE [tx EXCEPT !.sacked = sacked, !.lost = (@ \ sacked) \cup Presumed(tx, sacked)]

MarkHeadAsLost(tx) ==
  IF Sent(tx) = {} THEN tx
  ELSE [tx EXCEPT !.sacked = @ \ {tx.head}, !.retrans = @ \ {tx.head}, !.lost = @ \cup {tx.head}]

\* The cumulative acknowledgment; that of a FIN moves the head past the data.
DiscardUpTo(tx, ack) ==
  LET left == [head    |-> ack,
               end     |-> Max({tx.end, ack}),
               tail    |-> Max({tx.tail, ack}),
               sacked  |-> {n \in tx.sacked : n >= ack},
               lost    |-> {n \in tx.lost : n >= ack},
               retrans |-> {n \in tx.retrans : n >= ack}]
  IN  IF ack <= tx.head THEN tx
      ELSE IF ack \in left.sacked THEN MarkHeadAsLost(left) ELSE left

\* Mutant: retransmissions before the timeout still count as in flight.
SetSentLost(tx) == [tx EXCEPT !.lost = Sent(tx) \ tx.sacked]

\* SetSentListLost(false): SACK information survives a retransmission timeout.
SetSentListLost(tx) == [tx EXCEPT !.lost = Sent(tx) \ tx.sacked, !.retrans = {}]

\* NextSeg: rule 1 retransmits what is lost, rule 2 sends new data, rule 3
\* retransmits in recovery what is neither SACKed nor retransmitted.
Unanswered(tx) == Sent(tx) \ (tx.sacked \cup tx.retrans)

NextSegs(tx, rule3) ==
  LET lost == Unanswered(tx) \cap tx.lost
  IN  IF lost # {} THEN {Min(lost)}
      ELSE IF tx.end < tx.tail THEN {tx.end}
      ELSE IF rule3 /\ Unanswered(tx) # {} THEN {Min(Unanswered(tx))}
      ELSE {}

\* CopyFromSequence: the segment is new, or it is now a retransmission.
CopyFromSequence(tx, seq) ==
  IF seq < tx.end THEN [tx EXCEPT !.retrans = @ \cup {seq}] ELSE [tx EXCEPT !.end = seq + 1]

\* IsRetransmittedDataAcked, for an acknowledgment number
IsRetransmitted(tx, ack) == ack - 1 \in (tx.retrans \ tx.sacked) \cap Sent(tx)

-----------------------------------------------------------------------------
(* The reception buffer.  The sink takes what is in order at once.         *)

EmptyRx == [next |-> 0,    \* NextRxSequence
            held |-> {},   \* segments beyond a gap, all reported as SACK blocks
            fin  |-> 0,    \* sequence of the FIN, 0 if none has arrived
            read |-> 0]    \* segments that the application has taken

\* Mutant: the gap is skipped.
PastAll(held, n) == Max(held \cup {n - 1}) + 1

\* The first number from n on that is not held
FirstGap(held, n) == CHOOSE m \in n .. n + Cardinality(held) : m \notin held /\ n .. m - 1 \subseteq held

CountFin(rx)            == IF rx.fin # 0 /\ rx.next = rx.fin THEN [rx EXCEPT !.next = @ + 1] ELSE rx
SetFinSequence(rx, seq) == CountFin([rx EXCEPT !.fin = seq])
Finished(rx)            == rx.fin # 0 /\ rx.fin < rx.next

CanAdd(rx, seq) == seq >= rx.next /\ seq \notin rx.held
Add(rx, seq) ==
  LET next == FirstGap(rx.held \cup {seq}, rx.next)
  IN  CountFin([rx EXCEPT !.next = next, !.held = {n \in @ \cup {seq} : n > next},
                          !.read = @ + Cardinality({n \in rx.held \cup {seq} : n < next})])
=============================================================================
