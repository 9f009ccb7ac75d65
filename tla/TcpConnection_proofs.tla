------------------------ MODULE TcpConnection_proofs ------------------------
(***************************************************************************)
(* Proofs about TcpConnection: for any amount of data, any windows, any    *)
(* number of losses, duplicates and reorderings and any retries, what the  *)
(* sender takes for received has been received, no assertion of the code   *)
(* fails, and the connection implements ByteStream. The sink's application *)
(* closes only after its peer has (SinkFirst = FALSE), as in the           *)
(* experiment.                                                             *)
(*                                                                         *)
(* In the lemmas s is a socket before a call, t and u are sockets after    *)
(* it, g is a segment, w the number of segments written by the sender's    *)
(* application, c whether it has closed, h the sender's highest number and *)
(* f the set of the number of its FIN, empty before the FIN is sent. A     *)
(* handler works on the socket's record; what it says is collected in its  *)
(* field out and handed to the network at the end of the action.           *)
(***************************************************************************)
EXTENDS TcpConnection, TLAPS, FiniteSetTheorems, SequenceTheorems, WellFoundedInduction

-----------------------------------------------------------------------------
\* Calls that only start timers, say a segment or end the socket.

\* What holds of a socket's state, counters, timers and notice in every case: no assertion
\* has failed, and the duplicates of an acknowledgment are counted up to the recovery.
Sound(state, cong, dups, active, broken, syns, retries, timers, notice) ==
  /\ state \in States /\ cong \in {"OPEN", "DISORDER", "RECOVERY", "LOSS"}
  /\ dups \in Nat /\ active \in BOOLEAN /\ broken = FALSE
  /\ cong \in {"OPEN", "LOSS"} => dups = 0
  /\ cong \in {"OPEN", "DISORDER"} => active = FALSE
  /\ cong = "DISORDER" => dups < RetxThresh
  /\ syns \in 0 .. SynRetries /\ retries \in 0 .. DataRetries
  /\ timers \subseteq {"delAck", "pacing", "timeWait", "pending"} /\ notice \in {"none", "normal", "error"}

Sane(s) ==
  Sound(s.state, s.cong, s.dupAcks, s.recoverActive, s.broken, s.syns, s.retries, s.timers, s.notice)

\* The fields of a socket that the handlers read and assign
Shaped(s) ==
  /\ {"state", "ep", "next", "high", "highAck", "tx", "rx", "cong", "recover", "closeOnEmpty",
      "retx", "out", "timers", "cwnd", "retries", "dupAcks", "recoverActive", "broken", "syns",
      "notice"} \subseteq DOMAIN s
  /\ Sane(s)
  /\ {"head", "end", "tail", "sacked", "lost", "retrans"} \subseteq DOMAIN s.tx
  /\ {"next", "held", "fin", "read"} \subseteq DOMAIN s.rx

\* A call that changed at most timers, windows, counters and what is said
Kept(s, t) ==
  /\ Shaped(t)
  /\ t.state = s.state /\ t.ep = s.ep /\ t.cong = s.cong
  /\ t.next = s.next /\ t.high = s.high /\ t.highAck = s.highAck /\ t.recover = s.recover
  /\ t.tx = s.tx /\ t.rx = s.rx
  /\ t.closeOnEmpty = s.closeOnEmpty /\ t.retx = s.retx

\* A call that released the end point: its timer is cancelled, its buffers stay.
Shut(s, t) ==
  /\ Shaped(t)
  /\ t.ep = FALSE /\ t.retx = {} /\ t.cong = s.cong
  /\ t.next = s.next /\ t.high = s.high /\ t.highAck = s.highAck /\ t.recover = s.recover
  /\ t.tx = s.tx /\ t.rx = s.rx

\* Two calls that keep a socket keep it together.
LEMMA KeptThrough ==
  ASSUME NEW s, NEW t, NEW u, Kept(s, t), Kept(t, u)
  PROVE  Kept(s, u)
BY DEF Kept

\* Starting and cancelling timers keeps a socket.
LEMMA TimersAreKept ==
  ASSUME NEW s, Shaped(s), NEW timer \in {"delAck", "pacing", "timeWait", "pending"}
  PROVE  /\ Kept(s, Cancel(s, timer)) /\ Cancel(s, timer).out = s.out
         /\ Kept(s, Start(s, timer)) /\ Start(s, timer).out = s.out
         /\ Kept(s, ClearDelAck(s)) /\ ClearDelAck(s).out = s.out
BY DEF Shaped, Sane, Sound, Kept, Cancel, Start, ClearDelAck

LEMMA PacedIsKept ==
  ASSUME NEW s, Shaped(s)
  PROVE  Kept(s, Paced(s)) /\ Paced(s).out = s.out
<1>1. CASE IsPacingEnabled(s)
  BY <1>1, TimersAreKept DEF Paced
<1>2. CASE ~IsPacingEnabled(s)
  BY <1>2 DEF Paced, Shaped, Kept
<1>. QED  BY <1>1, <1>2

\* A socket without an end point has no retransmission under way.
Ended(s) == s.ep \/ s.retx = {}

\* CloseAndNotify releases the end point, says nothing and leaves the socket in CLOSED.
LEMMA CloseShuts ==
  ASSUME NEW s, Shaped(s), s.ep \in BOOLEAN, Ended(s)
  PROVE  /\ Shut(s, CloseAndNotify(s)) /\ CloseAndNotify(s).out = s.out
         /\ CloseAndNotify(s).state = "CLOSED"
<1>1. CloseAndNotify(s) = DeallocateEndPoint([NotifyNormalClose(s) EXCEPT !.state = "CLOSED"])
  BY DEF CloseAndNotify, Then
<1>. QED
  BY <1>1 DEF Shaped, Sane, Sound, States, Shut, Ended, DeallocateEndPoint, CancelAllTimers, NotifyNormalClose

\* ... and the way an error takes
LEMMA ErrorShuts ==
  ASSUME NEW s, Shaped(s), s.ep \in BOOLEAN, Ended(s)
  PROVE  LET t == DeallocateEndPoint(NotifyErrorClose(s)) IN Shut(s, t) /\ t.out = s.out
BY DEF Shaped, Sane, Sound, Shut, Ended, DeallocateEndPoint, CancelAllTimers, NotifyErrorClose

\* SendEmptyPacket, for an acknowledgment or a reset: one segment, and no timer of retransmission
LEMMA PlainIs ==
  ASSUME NEW s, Shaped(s), s.ep \in BOOLEAN, NEW flags \in {{"ACK"}, {"RST"}}
  PROVE  LET t == SendEmptyPacket(s, flags)
         IN  /\ Kept(s, t)
             /\ ~s.ep => t.out = s.out
             /\ s.ep => \E seq \in {s.next, s.next + 1} :
                   t.out = Append(s.out, [flags |-> flags, seq |-> seq, len |-> 0, ack |-> s.rx.next,
                                          sack |-> IF "ACK" \in flags THEN s.rx.held ELSE {}])
<1>. DEFINE u == SendUnguarded(s, flags)
            t == SendEmptyPacket(s, flags)
<1>1. "SYN" \notin flags /\ "FIN" \notin flags /\ flags \cap {"SYN", "FIN"} = {}
  OBVIOUS
<1>2. t = u
  <2>1. t = IF ~u.ep \/ u.retx # {} \/ flags \cap {"SYN", "FIN"} = {} THEN u
            ELSE [u EXCEPT !.retx = flags \cup (IF "FIN" \in flags THEN {"ACK"} ELSE {})]
    BY DEF SendEmptyPacket, Then
  <2>. QED  BY <2>1, <1>1
<1>3. CASE ~s.ep
  BY <1>3, <1>2 DEF SendUnguarded, Kept, Shaped, Sane
<1>4. CASE s.ep
  <2>. DEFINE seq == IF s.state \in {"FIN_WAIT_1", "LAST_ACK", "CLOSING"} THEN s.next + 1 ELSE s.next
              sent == Transmit(s, flags, seq, 0, AddOptionSack(s, flags))
  <2>1. u = [IF "ACK" \in flags THEN ClearDelAck(sent) ELSE sent
             EXCEPT !.syns = IF "SYN" \in flags THEN @ - 1 ELSE @]
    BY <1>1, <1>4 DEF SendUnguarded
  <2>2. Kept(s, sent) /\ sent.out = Append(s.out, [flags |-> flags, seq |-> seq, len |-> 0, ack |-> s.rx.next,
                                          sack |-> IF "ACK" \in flags THEN s.rx.held ELSE {}])
    BY DEF Transmit, Kept, Shaped, Sane, AddOptionSack
  <2>. HIDE DEF sent
  <2>3. Kept(s, ClearDelAck(sent)) /\ ClearDelAck(sent).out = sent.out
    <3>1. Shaped(sent)
      BY <2>2 DEF Kept
    <3>2. Kept(sent, ClearDelAck(sent)) /\ ClearDelAck(sent).out = sent.out
      BY <3>1, TimersAreKept
    <3>. QED  BY <2>2, <3>2, KeptThrough
  <2>4. Kept(s, u) /\ u.out = sent.out
    BY <2>1, <2>2, <2>3 DEF Kept, Shaped, Sane
  <2>. QED  BY <1>2, <1>4, <2>2, <2>4
<1>. QED  BY <1>3, <1>4

\* SendEmptyPacket, for a FIN: it carries ACK, and is kept for its retransmission.
LEMMA FinIs ==
  ASSUME NEW s, Shaped(s), s.ep \in BOOLEAN, NEW wanted \in {{"FIN"}, {"FIN", "ACK"}}
  PROVE  LET t == SendEmptyPacket(s, wanted)
         IN  /\ Shaped(t)
             /\ Kept(s, [t EXCEPT !.retx = s.retx])
             /\ t.retx = IF s.ep /\ s.retx = {} THEN {"FIN", "ACK"} ELSE s.retx
             /\ ~s.ep => t.out = s.out
             /\ s.ep => t.out = Append(s.out, [flags |-> {"FIN", "ACK"}, seq |-> s.next, len |-> 0,
                                               ack |-> s.rx.next, sack |-> s.rx.held])
<1>. DEFINE u == SendUnguarded(s, wanted)
            t == SendEmptyPacket(s, wanted)
            flags == wanted \cup {"ACK"}
<1>1. "SYN" \notin wanted /\ "FIN" \in wanted /\ wanted \cap {"SYN", "FIN"} # {} /\ flags = {"FIN", "ACK"}
  OBVIOUS
<1>2. t = IF ~u.ep \/ u.retx # {} THEN u ELSE [u EXCEPT !.retx = {"FIN", "ACK"}]
  BY <1>1 DEF SendEmptyPacket, Then
<1>3. CASE ~s.ep
  BY <1>3, <1>2 DEF SendUnguarded, Kept, Shaped, Sane
<1>4. CASE s.ep
  <2>. DEFINE sent == Transmit(s, flags, s.next, 0, AddOptionSack(s, flags))
  <2>1. u = [IF "ACK" \in flags THEN ClearDelAck(sent) ELSE sent
             EXCEPT !.syns = IF "SYN" \in flags THEN @ - 1 ELSE @]
    BY <1>1, <1>4 DEF SendUnguarded
  <2>2. Kept(s, sent) /\ sent.out = Append(s.out, [flags |-> {"FIN", "ACK"}, seq |-> s.next, len |-> 0,
                                               ack |-> s.rx.next, sack |-> s.rx.held])
    BY <1>1 DEF Transmit, Kept, Shaped, Sane, AddOptionSack
  <2>. HIDE DEF sent, flags
  <2>3. Kept(s, ClearDelAck(sent)) /\ ClearDelAck(sent).out = sent.out
    <3>1. Shaped(sent)
      BY <2>2 DEF Kept
    <3>2. Kept(sent, ClearDelAck(sent)) /\ ClearDelAck(sent).out = sent.out
      BY <3>1, TimersAreKept
    <3>. QED  BY <2>2, <3>2, KeptThrough
  <2>4. Kept(s, u) /\ u.out = sent.out
    BY <1>1, <2>1, <2>2, <2>3 DEF Kept, Shaped, Sane
  <2>5. /\ Shaped(t) /\ Kept(s, [t EXCEPT !.retx = s.retx]) /\ t.out = u.out
        /\ t.retx = IF s.retx = {} THEN {"FIN", "ACK"} ELSE s.retx
    <3>. HIDE DEF u, t
    <3>. QED  BY <1>2, <1>4, <2>4 DEF Kept, Shaped, Sane
  <2>. QED  BY <1>4, <2>2, <2>4, <2>5
<1>. QED  BY <1>3, <1>4

\* SendEmptyPacket, for a SYN: one segment kept for its retransmission, or the end of the tries
LEMMA SynIs ==
  ASSUME NEW s, Shaped(s), s.ep = TRUE, NEW flags \in {{"SYN"}, {"SYN", "ACK"}}
  PROVE  LET t == SendEmptyPacket(s, flags)
         IN  \/ Shut(s, t) /\ t.out = s.out /\ t.state = "CLOSED"
             \/ /\ Kept(s, [t EXCEPT !.retx = s.retx])
                /\ t.retx = IF s.retx = {} THEN flags ELSE s.retx
                /\ \E seq \in {s.next, s.next + 1} :
                     /\ s.state \notin {"FIN_WAIT_1", "LAST_ACK", "CLOSING"} => seq = s.next
                     /\ t.out = Append(s.out, [flags |-> flags, seq |-> seq, len |-> 0, ack |-> s.rx.next,
                                               sack |-> IF "ACK" \in flags THEN s.rx.held ELSE {}])
<1>. DEFINE u == SendUnguarded(s, flags)
            t == SendEmptyPacket(s, flags)
            fin == IF "FIN" \in flags THEN {"ACK"} ELSE {}
<1>1. "SYN" \in flags /\ "FIN" \notin flags /\ flags \cap {"SYN", "FIN"} # {} /\ flags \cup fin = flags
  OBVIOUS
<1>2. t = IF ~u.ep \/ u.retx # {} THEN u ELSE [u EXCEPT !.retx = flags]
  BY <1>1 DEF SendEmptyPacket, Then
<1>3. CASE s.syns = 0
  <2>1. u = DeallocateEndPoint([s EXCEPT !.state = "CLOSED"])
    BY <1>1, <1>3 DEF SendUnguarded
  <2>2. Shut(s, u) /\ u.out = s.out /\ u.state = "CLOSED"
    BY <2>1 DEF Shut, Shaped, Sane, Sound, States, DeallocateEndPoint, CancelAllTimers
  <2>. QED  BY <1>2, <2>2 DEF Shut
<1>4. CASE s.syns # 0
  <2>. DEFINE seq == IF s.state \in {"FIN_WAIT_1", "LAST_ACK", "CLOSING"} THEN s.next + 1 ELSE s.next
              sent == Transmit(s, flags, seq, 0, AddOptionSack(s, flags))
  <2>1. u = [IF "ACK" \in flags THEN ClearDelAck(sent) ELSE sent
             EXCEPT !.syns = IF "SYN" \in flags THEN @ - 1 ELSE @]
    BY <1>1, <1>4 DEF SendUnguarded
  <2>2. Kept(s, sent) /\ sent.out = Append(s.out, [flags |-> flags, seq |-> seq, len |-> 0, ack |-> s.rx.next,
                                          sack |-> IF "ACK" \in flags THEN s.rx.held ELSE {}])
    BY DEF Transmit, Kept, Shaped, Sane, AddOptionSack
  <2>8. sent.syns = s.syns /\ ClearDelAck(sent).syns = s.syns
    BY DEF Transmit, ClearDelAck, Cancel, Shaped
  <2>. HIDE DEF sent
  <2>3. Kept(s, ClearDelAck(sent)) /\ ClearDelAck(sent).out = sent.out
    <3>1. Shaped(sent)
      BY <2>2 DEF Kept
    <3>2. Kept(sent, ClearDelAck(sent)) /\ ClearDelAck(sent).out = sent.out
      BY <3>1, TimersAreKept
    <3>. QED  BY <2>2, <3>2, KeptThrough
  <2>4. Kept(s, u) /\ u.out = sent.out
    <3>. DEFINE a == IF "ACK" \in flags THEN ClearDelAck(sent) ELSE sent
    <3>1. u = [a EXCEPT !.syns = a.syns - 1]
      BY <1>1, <2>1
    <3>2. Kept(s, a) /\ a.out = sent.out /\ a.syns = s.syns
      BY <2>2, <2>3, <2>8
    <3>. HIDE DEF a, u
    <3>3. a.syns - 1 \in 0 .. SynRetries
      BY <1>4, <3>2, TcpSocketAssumption DEF Shaped, Sane, Sound
    <3>. QED  BY <3>1, <3>2, <3>3 DEF Kept, Shaped, Sane, Sound
  <2>5. Kept(s, [t EXCEPT !.retx = s.retx]) /\ t.out = u.out /\ t.retx = IF s.retx = {} THEN flags ELSE s.retx
    <3>. HIDE DEF u, t
    <3>. QED  BY <1>2, <2>4 DEF Kept, Shaped, Sane
  <2>6. s.state \notin {"FIN_WAIT_1", "LAST_ACK", "CLOSING"} => seq = s.next
    OBVIOUS
  <2>7. seq \in {s.next, s.next + 1}
    OBVIOUS
  <2>. HIDE DEF seq
  <2>. QED  BY <2>2, <2>4, <2>5, <2>6, <2>7
<1>. QED  BY <1>3, <1>4

\* SendRST says a reset and releases the end point.
LEMMA RstShuts ==
  ASSUME NEW s, Shaped(s), s.ep \in BOOLEAN, Ended(s)
  PROVE  LET t == SendRST(s)
         IN  /\ Shut(s, t)
             /\ ~s.ep => t.out = s.out
             /\ s.ep => \E seq \in {s.next, s.next + 1} :
                   t.out = Append(s.out, [flags |-> {"RST"}, seq |-> seq, len |-> 0, ack |-> s.rx.next, sack |-> {}])
<1>. DEFINE u == SendEmptyPacket(s, {"RST"})
<1>1. SendRST(s) = DeallocateEndPoint(NotifyErrorClose(u))
  BY DEF SendRST, Then
<1>2. Kept(s, u) /\ (~s.ep => u.out = s.out)
      /\ (s.ep => \E seq \in {s.next, s.next + 1} :
                   u.out = Append(s.out, [flags |-> {"RST"}, seq |-> seq, len |-> 0, ack |-> s.rx.next, sack |-> {}]))
  BY PlainIs
<1>. HIDE DEF u
<1>3. Shaped(u) /\ u.ep \in BOOLEAN /\ Ended(u)
  BY <1>2 DEF Kept, Ended
<1>4. LET t == DeallocateEndPoint(NotifyErrorClose(u)) IN Shut(u, t) /\ t.out = u.out
  BY <1>3, ErrorShuts
<1>. QED  BY <1>1, <1>2, <1>4 DEF Kept, Shut

\* SendDataPacket: the segment seq, with FIN when it is the last one after Close, and the timer of retransmission
LEMMA DataIs ==
  ASSUME NEW s, Shaped(s), NEW seq \in Nat, seq < s.tx.tail
  PROVE  LET t    == SendDataPacket(s, seq)
             last == s.closeOnEmpty /\ SizeFrom(s.tx, seq + 1) = 0
         IN  /\ Shaped(t)
             /\ t.ep = s.ep /\ t.cong = s.cong /\ t.next = s.next /\ t.highAck = s.highAck
             /\ t.recover = s.recover /\ t.rx = s.rx /\ t.closeOnEmpty = s.closeOnEmpty
             /\ t.tx = CopyFromSequence(s.tx, seq)
             /\ t.high = Max({s.high, seq + 1})
             /\ t.retx = IF s.retx = {} THEN {"RTO"} ELSE s.retx
             /\ t.state = IF ~last THEN s.state
                          ELSE IF s.state = "ESTABLISHED" THEN "FIN_WAIT_1"
                          ELSE IF s.state = "CLOSE_WAIT" THEN "LAST_ACK" ELSE s.state
             /\ t.out = Append(s.out, [flags |-> IF last THEN {"ACK", "FIN"} ELSE {"ACK"}, seq |-> seq, len |-> 1,
                                       ack |-> s.rx.next, sack |-> {}])
<1>. DEFINE last == s.closeOnEmpty /\ SizeFrom(s.tx, seq + 1) = 0
            sent == Transmit(s, IF last THEN {"ACK", "FIN"} ELSE {"ACK"}, seq, 1, {})
            checked == Check(ClearDelAck(sent), seq < s.tx.tail)
            t == SendDataPacket(s, seq)
<1>1. Kept(s, sent) /\ sent.out = Append(s.out, [flags |-> IF last THEN {"ACK", "FIN"} ELSE {"ACK"}, seq |-> seq,
                                       len |-> 1, ack |-> s.rx.next, sack |-> {}])
  BY DEF Kept, Shaped, Sane, Transmit
<1>. HIDE DEF sent
<1>2. Kept(s, checked) /\ checked.out = sent.out
  <2>1. Kept(sent, ClearDelAck(sent)) /\ ClearDelAck(sent).out = sent.out
    BY <1>1, TimersAreKept DEF Kept
  <2>2. checked = ClearDelAck(sent)
    BY DEF Check
  <2>. QED  BY <1>1, <2>1, <2>2 DEF Kept
<1>3. t = [checked EXCEPT
         !.tx     = CopyFromSequence(@, seq),
         !.timers = IF IsPacingEnabled(s) THEN @ \cup {"pacing"} ELSE @,
         !.state  = IF ~last THEN @
                    ELSE IF @ = "ESTABLISHED" THEN "FIN_WAIT_1"
                    ELSE IF @ = "CLOSE_WAIT" THEN "LAST_ACK" ELSE @,
         !.retx   = IF @ = {} THEN {"RTO"} ELSE @,
         !.high   = Max({@, seq + 1})]
  BY DEF SendDataPacket, sent
<1>. HIDE DEF checked, t
<1>4. Shaped(checked) /\ DOMAIN t = DOMAIN checked
  BY <1>2, <1>3 DEF Kept
<1>5. {"head", "end", "tail", "sacked", "lost", "retrans"} \subseteq DOMAIN CopyFromSequence(s.tx, seq)
  BY DEF CopyFromSequence, Shaped, Sane
<1>6. /\ t.tx = CopyFromSequence(checked.tx, seq) /\ t.high = Max({checked.high, seq + 1})
      /\ t.retx = IF checked.retx = {} THEN {"RTO"} ELSE checked.retx
      /\ t.state = IF ~last THEN checked.state
                   ELSE IF checked.state = "ESTABLISHED" THEN "FIN_WAIT_1"
                   ELSE IF checked.state = "CLOSE_WAIT" THEN "LAST_ACK" ELSE checked.state
      /\ t.ep = checked.ep /\ t.cong = checked.cong /\ t.next = checked.next /\ t.highAck = checked.highAck
      /\ t.recover = checked.recover /\ t.rx = checked.rx /\ t.closeOnEmpty = checked.closeOnEmpty
      /\ t.out = checked.out /\ Sane(t)
  BY <1>3, <1>4 DEF Shaped, Sane, Sound, States
<1>7. Shaped(t)
  BY <1>2, <1>4, <1>5, <1>6 DEF Shaped, Kept
<1>8. /\ t.ep = s.ep /\ t.cong = s.cong /\ t.next = s.next /\ t.highAck = s.highAck
      /\ t.recover = s.recover /\ t.rx = s.rx /\ t.closeOnEmpty = s.closeOnEmpty
      /\ t.tx = CopyFromSequence(s.tx, seq) /\ t.high = Max({s.high, seq + 1})
      /\ t.retx = IF s.retx = {} THEN {"RTO"} ELSE s.retx
      /\ t.state = IF ~last THEN s.state
                   ELSE IF s.state = "ESTABLISHED" THEN "FIN_WAIT_1"
                   ELSE IF s.state = "CLOSE_WAIT" THEN "LAST_ACK" ELSE s.state
  BY <1>2, <1>6 DEF Kept
<1>. USE DEF t
<1>. QED  BY <1>1, <1>2, <1>6, <1>7, <1>8

-----------------------------------------------------------------------------
\* The buffer of transmission.

\* A set of natural numbers has a smallest element.
LEMMA LeastNatural ==
  ASSUME NEW S \in SUBSET Nat, S # {}
  PROVE  \E m \in S : \A k \in S : m <= k
<1>1. PICK n \in S : \A k \in S : <<k, n>> \notin OpToRel(<, Nat)
  BY NatLessThanWellFounded, WFMin
<1>2. \A k \in S : ~(k < n)
  BY <1>1 DEF OpToRel
<1>. QED  BY <1>2

\* ... which Min returns.
LEMMA MinIn ==
  ASSUME NEW S \in SUBSET Nat, S # {}
  PROVE  Min(S) \in S
BY LeastNatural DEF Min

\* Max of two numbers
LEMMA MaxOfTwo ==
  ASSUME NEW a \in Int, NEW b \in Int
  PROVE  Max({a, b}) = IF a >= b THEN a ELSE b
<1>. DEFINE m == IF a >= b THEN a ELSE b
<1>1. m \in {a, b} /\ \A y \in {a, b} : m >= y
  OBVIOUS
<1>2. Max({a, b}) \in {a, b} /\ \A y \in {a, b} : Max({a, b}) >= y
  BY <1>1 DEF Max
<1>. HIDE DEF m
<1>3. Max({a, b}) = m
  BY <1>1, <1>2
<1>. QED  BY <1>3 DEF m

\* A set of numbers that has 0, and with n also n + 1, has all of them.
LEMMA NatSetInduction ==
  ASSUME NEW T \in SUBSET Nat, 0 \in T, \A n \in T : n + 1 \in T
  PROVE  T = Nat
<1>1. SUFFICES ASSUME Nat \ T # {} PROVE FALSE
  OBVIOUS
<1>2. PICK n \in Nat \ T : \A k \in Nat \ T : n <= k
  BY <1>1, LeastNatural
<1>3. n - 1 \in Nat /\ n - 1 \in T
  BY <1>2
<1>4. (n - 1) + 1 = n
  BY <1>2
<1>. QED  BY <1>2, <1>3, <1>4

-----------------------------------------------------------------------------
\* The transmission buffer

\* The buffer of transmission: what has been acknowledged, sent and written, in this order;
\* only what has been sent after the head can be reported by SACK, and only what has
\* been sent is lost or sent again.
Board(tx) ==
  /\ {"head", "end", "tail", "sacked", "lost", "retrans"} \subseteq DOMAIN tx
  /\ tx.head \in Nat /\ tx.end \in Nat /\ tx.tail \in Nat
  /\ tx.head <= tx.end /\ tx.end <= tx.tail
  /\ tx.sacked \subseteq tx.head + 1 .. tx.end - 1
  /\ tx.lost \cup tx.retrans \subseteq Sent(tx) /\ tx.sacked \cap tx.lost = {}

\* Update marks the segments that the options report.
LEMMA UpdateIs ==
  ASSUME NEW tx, Board(tx), NEW blocks, tx.head \notin blocks
  PROVE  LET t == Update(tx, blocks)
         IN  /\ Board(t) /\ t.head = tx.head /\ t.end = tx.end /\ t.tail = tx.tail
             /\ t.sacked = tx.sacked \cup (blocks \cap Sent(tx))
<1>1. tx.sacked \cup (blocks \cap Sent(tx)) \subseteq tx.head + 1 .. tx.end - 1
  BY DEF Board, Sent
<1>. DEFINE more == tx.sacked \cup (blocks \cap Sent(tx))
<1>2. CASE more = tx.sacked
  BY <1>2 DEF Update, Board
<1>3. CASE more # tx.sacked
  <2>1. Update(tx, blocks) = [tx EXCEPT !.sacked = more, !.lost = (@ \ more) \cup Presumed(tx, more)]
    BY <1>3 DEF Update
  <2>. HIDE DEF more
  <2>2. LET t == [tx EXCEPT !.sacked = more, !.lost = (@ \ more) \cup Presumed(tx, more)]
        IN  /\ DOMAIN t = DOMAIN tx /\ t.head = tx.head /\ t.end = tx.end /\ t.tail = tx.tail /\ t.sacked = more
            /\ t.lost = (tx.lost \ more) \cup Presumed(tx, more) /\ t.retrans = tx.retrans
    BY DEF Board
  <2>3. Presumed(tx, more) \subseteq Sent(tx) \ more
    BY DEF Presumed
  <2>. QED  BY <1>1, <2>1, <2>2, <2>3 DEF Board, Sent, more
<1>. QED  BY <1>2, <1>3

\* DiscardUpTo drops what has been acknowledged. The new head must not be marked:
\* that no acknowledgment calls missing what a block reports (Agree) shows it.
LEMMA DiscardIs ==
  ASSUME NEW tx, Board(tx), NEW ack \in Nat, tx.head <= ack, ack \notin tx.sacked
  PROVE  LET t == DiscardUpTo(tx, ack)
         IN  /\ Board(t) /\ t.head = ack
             /\ t.end = (IF ack >= tx.end THEN ack ELSE tx.end) /\ t.tail = (IF ack >= tx.tail THEN ack ELSE tx.tail)
             /\ t.sacked = {n \in tx.sacked : n >= ack}
<1>1. CASE ack <= tx.head
  <2>1. DiscardUpTo(tx, ack) = tx
    BY <1>1 DEF DiscardUpTo
  <2>2. tx.head = ack /\ (IF ack >= tx.end THEN ack ELSE tx.end) = tx.end
        /\ (IF ack >= tx.tail THEN ack ELSE tx.tail) = tx.tail
    BY <1>1 DEF Board
  <2>3. tx.sacked = {n \in tx.sacked : n >= ack}
    BY <1>1 DEF Board
  <2>. QED  BY <2>1, <2>2, <2>3
<1>2. CASE ~(ack <= tx.head)
  <2>. DEFINE left == [head    |-> ack,
               end     |-> Max({tx.end, ack}),
               tail    |-> Max({tx.tail, ack}),
               sacked  |-> {n \in tx.sacked : n >= ack},
               lost    |-> {n \in tx.lost : n >= ack},
               retrans |-> {n \in tx.retrans : n >= ack}]
  <2>1. DiscardUpTo(tx, ack) = left
    BY <1>2 DEF DiscardUpTo
  <2>2. Max({tx.end, ack}) = (IF ack >= tx.end THEN ack ELSE tx.end)
        /\ Max({tx.tail, ack}) = (IF ack >= tx.tail THEN ack ELSE tx.tail)
    BY MaxOfTwo DEF Board
  <2>3. /\ left.head = ack /\ left.end = (IF ack >= tx.end THEN ack ELSE tx.end)
        /\ left.tail = (IF ack >= tx.tail THEN ack ELSE tx.tail)
        /\ left.sacked = {n \in tx.sacked : n >= ack}
        /\ left.lost = {n \in tx.lost : n >= ack} /\ left.retrans = {n \in tx.retrans : n >= ack}
        /\ DOMAIN left = {"head", "end", "tail", "sacked", "lost", "retrans"}
    BY <2>2
  <2>. HIDE DEF left
  <2>4. Board(left)
    BY <2>3 DEF Board, Sent
  <2>. QED  BY <2>1, <2>3, <2>4
<1>. QED  BY <1>1, <1>2

\* CopyFromSequence sends the next segment for the first time, or one again.
LEMMA CopyIs ==
  ASSUME NEW tx, Board(tx), NEW seq \in Nat, tx.head <= seq, seq <= tx.end, seq < tx.tail
  PROVE  LET t == CopyFromSequence(tx, seq)
         IN  /\ Board(t) /\ t.head = tx.head /\ t.tail = tx.tail /\ t.sacked = tx.sacked
             /\ t.end = (IF seq < tx.end THEN tx.end ELSE seq + 1)
<1>1. CASE seq < tx.end
  BY <1>1 DEF CopyFromSequence, Board, Sent
<1>2. CASE ~(seq < tx.end)
  BY <1>2 DEF CopyFromSequence, Board, Sent
<1>. QED  BY <1>1, <1>2

\* MarkHeadAsLost moves nothing.
LEMMA MarkHeadIs ==
  ASSUME NEW tx, Board(tx)
  PROVE  LET t == MarkHeadAsLost(tx)
         IN  Board(t) /\ t.head = tx.head /\ t.end = tx.end /\ t.tail = tx.tail /\ t.sacked = tx.sacked
<1>1. tx.sacked \ {tx.head} = tx.sacked
  BY DEF Board
<1>. QED  BY <1>1 DEF MarkHeadAsLost, Board, Sent

\* What NextSeg finds can be sent, and is one segment.
LEMMA NextSegsIn ==
  ASSUME NEW tx, Board(tx), NEW rule3, NEW seq \in NextSegs(tx, rule3)
  PROVE  seq \in Nat /\ tx.head <= seq /\ seq <= tx.end /\ seq < tx.tail /\ NextSegs(tx, rule3) = {seq}
<1>1. Unanswered(tx) \subseteq tx.head .. tx.end - 1
  BY DEF Unanswered, Sent
<1>2. \A S \in SUBSET (tx.head .. tx.end - 1) : S # {} => Min(S) \in S
  BY MinIn DEF Board
<1>. DEFINE lost == Unanswered(tx) \cap tx.lost
<1>3. CASE lost # {}
  <2>1. Min(lost) \in lost /\ NextSegs(tx, rule3) = {Min(lost)}
    BY <1>1, <1>2, <1>3 DEF NextSegs
  <2>. QED  BY <1>1, <2>1 DEF Board
<1>4. CASE lost = {} /\ tx.end < tx.tail
  BY <1>4 DEF NextSegs, Board
<1>5. CASE lost = {} /\ ~(tx.end < tx.tail) /\ rule3 /\ Unanswered(tx) # {}
  <2>1. Min(Unanswered(tx)) \in Unanswered(tx) /\ NextSegs(tx, rule3) = {Min(Unanswered(tx))}
    BY <1>1, <1>2, <1>5 DEF NextSegs
  <2>. QED  BY <1>1, <2>1 DEF Board
<1>6. CASE lost = {} /\ ~(tx.end < tx.tail) /\ ~(rule3 /\ Unanswered(tx) # {})
  BY <1>6 DEF NextSegs
<1>. QED  BY <1>3, <1>4, <1>5, <1>6

\* After SetSentListLost nothing is in flight, and something can be sent.
LEMMA AllLost ==
  ASSUME NEW tx, Board(tx), tx.head < tx.tail
  PROVE  LET t == SetSentListLost(tx)
         IN  /\ Board(t) /\ t.head = tx.head /\ t.end = tx.end /\ t.tail = tx.tail /\ t.sacked = tx.sacked
             /\ BytesInFlight(t) = 0
             /\ \A rule3 : NextSegs(t, rule3) # {}
<1>. DEFINE t == SetSentListLost(tx)
<1>1. /\ DOMAIN t = DOMAIN tx /\ t.head = tx.head /\ t.end = tx.end /\ t.tail = tx.tail /\ t.sacked = tx.sacked
      /\ t.lost = Sent(tx) \ tx.sacked /\ t.retrans = {}
  BY DEF SetSentListLost, Board
<1>. HIDE DEF t
<1>2. Board(t)
  BY <1>1 DEF Board, Sent
<1>3. Sent(t) = Sent(tx)
  BY <1>1 DEF Sent
<1>4. BytesInFlight(t) = 0
  <2>1. IsFiniteSet(Sent(tx)) /\ Cardinality(Sent(tx)) \in Nat
    <3>1. tx.head \in Int /\ tx.end - 1 \in Int
      BY DEF Board
    <3>. QED  BY <3>1, FS_Interval, FS_CardinalityType DEF Sent
  <2>2. Sent(tx) \cap tx.sacked = tx.sacked
    BY DEF Board, Sent
  <2>3. Cardinality(Sent(tx) \ tx.sacked) = Cardinality(Sent(tx)) - Cardinality(tx.sacked)
    BY <2>1, <2>2, FS_Difference
  <2>4. Cardinality(tx.sacked) \in Nat
    BY <2>1, <2>2, FS_Subset, FS_CardinalityType
  <2>5. Cardinality({}) = 0
    BY FS_EmptySet
  <2>6. BytesInFlight(t) = Cardinality(Sent(tx)) - Cardinality(tx.sacked) - Cardinality(Sent(tx) \ tx.sacked)
                           + Cardinality({})
    BY <1>1, <1>3 DEF BytesInFlight
  <2>. QED  BY <2>1, <2>3, <2>4, <2>5, <2>6
<1>5. ASSUME NEW rule3 PROVE NextSegs(t, rule3) # {}
  <2>1. CASE t.end < t.tail
    BY <2>1 DEF NextSegs
  <2>2. CASE ~(t.end < t.tail)
    <3>1. tx.head \in Unanswered(t) \cap t.lost
      BY <1>1, <1>3, <2>2 DEF Unanswered, Board, Sent
    <3>. QED  BY <3>1 DEF NextSegs
  <2>. QED  BY <2>1, <2>2
<1>. USE DEF t
<1>. QED  BY <1>1, <1>2, <1>4, <1>5

-----------------------------------------------------------------------------
\* The sender, connected.

\* Segments, of any numbers
Segment == [flags : SUBSET {"SYN", "ACK", "FIN", "RST"}, seq : Nat, len : Nat, ack : Nat, sack : SUBSET Nat]

\* The congestion states
Congs == {"OPEN", "DISORDER", "RECOVERY", "LOSS"}

\* A buffer of reception that has the peer's SYN only
NoFin(rx)  == rx.next = 1 /\ rx.held = {} /\ rx.fin = 0 /\ rx.read = 0
\* ... and its FIN, when it has sent no data
GotFin(rx) == rx.next = 2 /\ rx.held = {} /\ rx.fin = 1 /\ rx.read = 0

\* The FIN of the sender has been sent, after the last of the w segments.
FinSent(s, w, c) ==
  /\ c /\ s.high = w + 1
  /\ s.ep => s.state \in {"FIN_WAIT_1", "FIN_WAIT_2", "TIME_WAIT"}

\* What the sender may have said to the sink: SYN, acknowledgments, resets, data that it has
\* sent, and its FIN, which occupies the number after the last segment
ToSink(g, s, w, c) ==
  /\ g.sack = {} /\ g.ack \in 0 .. 2 /\ (g.ack = 2 => s.rx.next = 2)
  /\ \/ g.flags = {"SYN"} /\ g.len = 0 /\ g.seq = 0
     \/ g.flags \in {{"ACK"}, {"RST"}} /\ g.len = 0 /\ g.seq <= w + 3
     \/ g.flags = {"ACK"} /\ g.len = 1 /\ g.seq \in 1 .. s.high - 1
     \/ /\ g.flags = {"FIN", "ACK"} /\ g.len \in {0, 1} /\ g.seq >= 1 /\ g.seq + g.len = w + 1
        /\ FinSent(s, w, c)

\* The segments that the sender may have sent
ForSink(s, w, c) == {g \in Segment : ToSink(g, s, w, c)}

\* A handler says nothing else.
Talks(s, w, c) == s.out \in Seq(ForSink(s, w, c))

\* What has been sent remains sent.
Onward(s, t, w, c) ==
  /\ s.high <= t.high
  /\ s.rx.next = 2 => t.rx.next = 2
  /\ FinSent(s, w, c) => FinSent(t, w, c)

\* A part of a handler that goes onward, and says only what the sender may say
Does(s, t, w, c) == Onward(s, t, w, c) /\ (Talks(s, w, c) => Talks(t, w, c))

\* Connected, in the course of a handler
Mid(s, w, c) ==
  /\ Shaped(s) /\ s.ep = TRUE
  /\ s.state \in {"ESTABLISHED", "FIN_WAIT_1"} /\ s.cong \in Congs
  /\ Board(s.tx) /\ s.tx.head >= 1 /\ s.tx.tail = w + 1 /\ s.high = s.tx.end
  /\ s.next \in 1 .. s.tx.end
  /\ s.highAck \in Nat /\ s.recover \in 0 .. s.high
  /\ \/ s.retx \in {{}, {"RTO"}}
     \/ s.retx = {"FIN", "ACK"} /\ s.state = "FIN_WAIT_1" /\ s.tx.head = s.tx.tail
  /\ s.state = "FIN_WAIT_1" => c /\ s.tx.end = s.tx.tail
  /\ s.closeOnEmpty => c
  /\ NoFin(s.rx)

\* What is not acknowledged is guarded by the timer.
Armed(s) == s.retx = {} => s.tx.head = s.tx.end

\* Connected, between two steps
Open(s, w, c) ==
  /\ Mid(s, w, c) /\ Armed(s)
  /\ s.tx.head = s.tx.tail => s.next = s.tx.head
  /\ s.highAck <= s.tx.head

\* A sequence over a set is one over any larger set.
LEMMA SeqMono ==
  ASSUME NEW S, NEW T, S \subseteq T, NEW q \in Seq(S)
  PROVE  q \in Seq(T)
<1>1. q \in [1 .. Len(q) -> S] /\ Len(q) \in Nat
  OBVIOUS
<1>2. q \in [1 .. Len(q) -> T]
  BY <1>1
<1>. QED  BY <1>1, <1>2

\* What could be said once can be said later.
LEMMA ForSinkGrows ==
  ASSUME NEW s, NEW t, NEW w \in Nat, NEW c \in BOOLEAN, s.high \in Nat, t.high \in Nat, Onward(s, t, w, c)
  PROVE  ForSink(s, w, c) \subseteq ForSink(t, w, c)
BY DEF ForSink, ToSink, Onward, Segment

\* Two parts of a handler, one after the other
LEMMA DoesThrough ==
  ASSUME NEW s, NEW t, NEW u, NEW w, NEW c, s.high \in Nat, t.high \in Nat, u.high \in Nat,
         Does(s, t, w, c), Does(t, u, w, c)
  PROVE  Does(s, u, w, c)
BY DEF Does, Onward

\* What speaks appends.
LEMMA Says ==
  ASSUME NEW s, NEW t, NEW w \in Nat, NEW c \in BOOLEAN, s.high \in Nat, t.high \in Nat, Onward(s, t, w, c),
         NEW g \in Segment, ToSink(g, t, w, c), t.out = Append(s.out, g)
  PROVE  Does(s, t, w, c)
<1>1. ASSUME Talks(s, w, c) PROVE Talks(t, w, c)
  <2>1. s.out \in Seq(ForSink(t, w, c))
    BY <1>1, ForSinkGrows, SeqMono DEF Talks
  <2>2. g \in ForSink(t, w, c)
    BY DEF ForSink
  <2>. QED  BY <2>1, <2>2 DEF Talks
<1>. QED  BY <1>1 DEF Does

\* What says nothing
LEMMA Silent ==
  ASSUME NEW s, NEW t, NEW w \in Nat, NEW c \in BOOLEAN, s.high \in Nat, t.high \in Nat, Onward(s, t, w, c),
         t.out = s.out
  PROVE  Does(s, t, w, c)
BY ForSinkGrows, SeqMono DEF Does, Talks

\* A call that keeps the socket and says nothing
LEMMA KeptDoes ==
  ASSUME NEW s, NEW t, NEW w \in Nat, NEW c \in BOOLEAN, s.high \in Nat, Kept(s, t), t.out = s.out
  PROVE  Does(s, t, w, c)
BY Silent DEF Kept, Onward, FinSent

\* ... leaves it connected.
LEMMA KeptMid ==
  ASSUME NEW s, NEW t, NEW w, NEW c, Kept(s, t)
  PROVE  (Mid(s, w, c) => Mid(t, w, c)) /\ (Open(s, w, c) => Open(t, w, c))
BY DEF Kept, Mid, Open, Armed

\* SendDataPacket leaves a connected socket connected, and its timer running.
LEMMA SendDataMid ==
  ASSUME NEW s, NEW w \in Nat, NEW c \in BOOLEAN, Mid(s, w, c),
         NEW seq \in Nat, s.tx.head <= seq, seq <= s.tx.end, seq < s.tx.tail
  PROVE  LET t == SendDataPacket(s, seq)
         IN  /\ Mid(t, w, c) /\ Does(s, t, w, c) /\ t.retx = {"RTO"}
             /\ t.next = s.next /\ t.highAck = s.highAck /\ t.cong = s.cong /\ t.recover = s.recover
             /\ t.tx.head = s.tx.head /\ t.tx.tail = s.tx.tail /\ t.tx.sacked = s.tx.sacked
             /\ t.tx.end > seq /\ t.tx.end >= s.tx.end /\ t.rx = s.rx
<1>. DEFINE t    == SendDataPacket(s, seq)
            last == s.closeOnEmpty /\ SizeFrom(s.tx, seq + 1) = 0
            g    == [flags |-> IF last THEN {"ACK", "FIN"} ELSE {"ACK"}, seq |-> seq, len |-> 1,
                     ack |-> s.rx.next, sack |-> {}]
<1>1. /\ Shaped(t)
      /\ t.ep = s.ep /\ t.cong = s.cong /\ t.next = s.next /\ t.highAck = s.highAck
      /\ t.recover = s.recover /\ t.rx = s.rx /\ t.closeOnEmpty = s.closeOnEmpty
      /\ t.tx = CopyFromSequence(s.tx, seq)
      /\ t.high = Max({s.high, seq + 1})
      /\ t.retx = IF s.retx = {} THEN {"RTO"} ELSE s.retx
      /\ t.state = IF ~last THEN s.state
                   ELSE IF s.state = "ESTABLISHED" THEN "FIN_WAIT_1"
                   ELSE IF s.state = "CLOSE_WAIT" THEN "LAST_ACK" ELSE s.state
      /\ t.out = Append(s.out, g)
  BY DataIs DEF Mid
<1>. HIDE DEF t
<1>2. /\ Board(t.tx) /\ t.tx.head = s.tx.head /\ t.tx.tail = s.tx.tail /\ t.tx.sacked = s.tx.sacked
      /\ t.tx.end = (IF seq < s.tx.end THEN s.tx.end ELSE seq + 1)
  BY <1>1, CopyIs DEF Mid
<1>3. t.high = t.tx.end
  <2>1. s.high \in Nat /\ s.high = s.tx.end
    BY DEF Mid, Board
  <2>. QED  BY <1>1, <1>2, <2>1, MaxOfTwo
<1>4. t.retx = {"RTO"}
  BY <1>1 DEF Mid
<1>5. last => s.closeOnEmpty /\ c /\ seq + 1 = s.tx.tail /\ t.tx.end = t.tx.tail
  BY <1>2 DEF SizeFrom, Mid, Board
<1>6. t.state \in {"ESTABLISHED", "FIN_WAIT_1"} /\ (last => t.state = "FIN_WAIT_1") /\ (~last => t.state = s.state)
  BY <1>1 DEF Mid
<1>7. t.state = "FIN_WAIT_1" => c /\ t.tx.end = t.tx.tail
  BY <1>2, <1>5, <1>6 DEF Mid, Board
<1>8. Mid(t, w, c)
  <2>1. s.tx.end <= t.tx.end /\ t.tx.end \in Nat /\ s.tx.end \in Nat
    BY <1>2 DEF Mid, Board
  <2>. HIDE DEF last
  <2>. QED  BY <1>1, <1>2, <1>3, <1>4, <1>6, <1>7, <2>1 DEF Mid
<1>9. Onward(s, t, w, c)
  <2>1. s.high <= t.high
    BY <1>2, <1>3 DEF Mid, Board
  <2>2. FinSent(s, w, c) => FinSent(t, w, c)
    BY <1>1, <1>2, <1>3, <1>6, <1>7 DEF Mid, FinSent, Board
  <2>. QED  BY <1>1, <2>1, <2>2 DEF Onward
<1>10. g \in Segment /\ ToSink(g, t, w, c)
  <2>1. g.sack = {} /\ g.ack = 1 /\ g.seq = seq /\ g.len = 1
    BY DEF Mid, NoFin
  <2>2. g \in Segment
    BY DEF Segment, Mid, NoFin
  <2>3. CASE last
    <3>1. g.flags = {"FIN", "ACK"}
      BY <2>3
    <3>2. seq >= 1 /\ seq + 1 = w + 1
      BY <1>5, <2>3 DEF Mid, Board
    <3>3. FinSent(t, w, c)
      BY <1>2, <1>3, <1>5, <1>6, <2>3 DEF FinSent, Mid, Board
    <3>. HIDE DEF g
    <3>. QED  BY <2>1, <2>2, <3>1, <3>2, <3>3 DEF ToSink
  <2>4. CASE ~last
    <3>1. g.flags = {"ACK"}
      BY <2>4
    <3>2. seq \in 1 .. t.high - 1
      BY <1>2, <1>3 DEF Mid, Board
    <3>. HIDE DEF g
    <3>. QED  BY <2>1, <2>2, <3>1, <3>2 DEF ToSink
  <2>. QED  BY <2>3, <2>4
<1>11. s.high \in Nat /\ t.high \in Nat
  BY <1>2, <1>3 DEF Mid, Board
<1>12. Does(s, t, w, c)
  <2>. HIDE DEF g
  <2>. QED  BY <1>1, <1>9, <1>10, <1>11, Says
<1>13. t.tx.end > seq /\ t.tx.end >= s.tx.end
  BY <1>2 DEF Mid, Board
<1>. USE DEF t
<1>. QED  BY <1>1, <1>2, <1>4, <1>8, <1>12, <1>13

\* SendNext, when something may be sent.
LEMMA SendNextMid ==
  ASSUME NEW s, NEW w \in Nat, NEW c \in BOOLEAN, Mid(s, w, c), s.highAck <= s.tx.head, MaySend(s)
  PROVE  LET t == SendNext(s)
         IN  /\ Open(t, w, c) /\ Does(s, t, w, c) /\ t.tx.head = s.tx.head /\ t.tx.tail = s.tx.tail
             /\ t.tx.sacked = s.tx.sacked /\ t.rx = s.rx
<1>. DEFINE D == {Paced([SendDataPacket(s, seq) EXCEPT !.next = seq + 1]) : seq \in NextSeg(s)}
<1>1. SendNext(s) = CHOOSE after \in D : TRUE
  BY DEF SendNext
<1>2. D # {}
  BY DEF MaySend
<1>3. SendNext(s) \in D
  <2>. HIDE DEF D
  <2>. QED  BY <1>1, <1>2
<1>4. PICK seq \in NextSeg(s) : SendNext(s) = Paced([SendDataPacket(s, seq) EXCEPT !.next = seq + 1])
  BY <1>3
<1>5. seq \in Nat /\ s.tx.head <= seq /\ seq <= s.tx.end /\ seq < s.tx.tail
  <2>1. Board(s.tx)
    BY DEF Mid
  <2>2. seq \in NextSegs(s.tx, s.cong = "RECOVERY")
    BY <1>4 DEF NextSeg
  <2>. QED  BY <2>1, <2>2, NextSegsIn
<1>. DEFINE u == SendDataPacket(s, seq)
            t == SendNext(s)
<1>6. /\ Mid(u, w, c) /\ Does(s, u, w, c) /\ u.retx = {"RTO"}
      /\ u.highAck = s.highAck /\ u.tx.head = s.tx.head /\ u.tx.tail = s.tx.tail /\ u.tx.sacked = s.tx.sacked
      /\ u.tx.end > seq /\ u.rx = s.rx
  BY <1>5, SendDataMid
<1>. DEFINE v == [u EXCEPT !.next = seq + 1]
<1>7. t = Paced(v)
  BY <1>4
<1>. HIDE DEF u, t
<1>16. /\ DOMAIN v = DOMAIN u /\ v.next = seq + 1 /\ v.state = u.state /\ v.ep = u.ep /\ v.cong = u.cong
       /\ v.high = u.high /\ v.highAck = u.highAck /\ v.recover = u.recover /\ v.tx = u.tx /\ v.rx = u.rx
       /\ v.closeOnEmpty = u.closeOnEmpty /\ v.retx = u.retx /\ v.out = u.out /\ Shaped(v)
  BY <1>6 DEF Mid, Shaped, Sane
<1>17. Kept(v, t) /\ t.out = v.out
  <2>. HIDE DEF v
  <2>. QED  BY <1>7, <1>16, PacedIsKept
<1>. HIDE DEF v
<1>8. /\ t.next = seq + 1 /\ t.state = u.state /\ t.ep = u.ep /\ t.cong = u.cong
      /\ t.high = u.high /\ t.highAck = u.highAck /\ t.recover = u.recover /\ t.tx = u.tx /\ t.rx = u.rx
      /\ t.closeOnEmpty = u.closeOnEmpty /\ t.retx = u.retx /\ t.out = u.out
  BY <1>16, <1>17 DEF Kept
<1>9. Shaped(t)
  BY <1>17 DEF Kept
<1>10. Mid(t, w, c)
  <2>1. seq + 1 \in 1 .. u.tx.end
    BY <1>5, <1>6 DEF Mid, Board
  <2>. QED  BY <1>6, <1>8, <1>9, <2>1 DEF Mid
<1>11. Open(t, w, c)
  <2>1. t.tx.head < t.tx.tail
    BY <1>5, <1>6, <1>8 DEF Mid, Board
  <2>2. t.highAck <= t.tx.head
    BY <1>6, <1>8
  <2>3. t.tx.head # t.tx.tail
    BY <2>1, <1>10 DEF Mid, Board
  <2>. QED  BY <1>6, <1>8, <1>10, <2>2, <2>3 DEF Open, Armed
<1>12. s.high \in Nat /\ u.high \in Nat
  BY <1>6 DEF Mid, Board
<1>13. Does(u, t, w, c)
  <2>1. Onward(u, t, w, c)
    BY <1>8, <1>12 DEF Onward, FinSent
  <2>. QED  BY <1>8, <1>12, <2>1, Silent
<1>14. Does(s, t, w, c)
  BY <1>6, <1>8, <1>12, <1>13, DoesThrough
<1>15. t.tx.head = s.tx.head /\ t.tx.tail = s.tx.tail /\ t.tx.sacked = s.tx.sacked /\ t.rx = s.rx
  BY <1>6, <1>8
<1>. USE DEF t
<1>. QED  BY <1>11, <1>14, <1>15

\* SendNext, also when nothing may be sent
LEMMA SendNextOpen ==
  ASSUME NEW s, NEW w \in Nat, NEW c \in BOOLEAN, Open(s, w, c)
  PROVE  LET t == SendNext(s)
         IN  /\ Open(t, w, c) /\ Does(s, t, w, c) /\ t.tx.head = s.tx.head /\ t.tx.tail = s.tx.tail
             /\ t.tx.sacked = s.tx.sacked /\ t.rx = s.rx
<1>1. CASE MaySend(s)
  BY <1>1, SendNextMid DEF Open
<1>2. CASE ~MaySend(s)
  <2>1. SendNext(s) = s
    BY <1>2 DEF SendNext
  <2>2. s.high \in Nat
    BY DEF Open, Mid, Board
  <2>3. Onward(s, s, w, c)
    BY <2>2 DEF Onward
  <2>4. Does(s, s, w, c)
    BY <2>3 DEF Does
  <2>. QED  BY <2>1, <2>4
<1>. QED  BY <1>1, <1>2

\* What SendAll computes: the loop exists.
Runs(s, n, f) == f = [m \in 0 .. n |-> IF m = 0 THEN s ELSE SendNext(f[m - 1])]

\* ... and SendAll returns its last value.
LEMMA SendAllRuns ==
  ASSUME NEW s, TxSize(s.tx) \in Nat
  PROVE  \E f : Runs(s, TxSize(s.tx), f) /\ SendAll(s) = f[TxSize(s.tx)]
<1>. DEFINE T == {n \in Nat : \E f : Runs(s, n, f)}
            N == TxSize(s.tx)
<1>1. 0 \in T
  <2>. DEFINE f == [m \in 0 .. 0 |-> s]
  <2>1. f = [m \in 0 .. 0 |-> IF m = 0 THEN s ELSE SendNext(f[m - 1])]
    OBVIOUS
  <2>2. Runs(s, 0, f)
    BY <2>1 DEF Runs
  <2>. QED  BY <2>2
<1>2. ASSUME NEW n \in T PROVE n + 1 \in T
  <2>1. PICK f : Runs(s, n, f)
    BY <1>2
  <2>. DEFINE g == [m \in 0 .. n + 1 |-> IF m <= n THEN f[m] ELSE SendNext(f[n])]
  <2>2. n \in Nat
    BY <1>2
  <2>3. \A m \in 0 .. n : f[m] = IF m = 0 THEN s ELSE SendNext(f[m - 1])
    BY <2>1, <2>2 DEF Runs
  <2>4. ASSUME NEW m \in 0 .. n + 1 PROVE g[m] = IF m = 0 THEN s ELSE SendNext(g[m - 1])
    <3>1. CASE m = 0
      BY <3>1, <2>2, <2>3
    <3>2. CASE m # 0 /\ m <= n
      <4>1. m \in 0 .. n /\ m - 1 \in 0 .. n + 1 /\ m - 1 <= n
        BY <2>2, <3>2
      <4>2. g[m] = f[m] /\ g[m - 1] = f[m - 1]
        BY <4>1
      <4>. HIDE DEF g
      <4>. QED  BY <2>3, <3>2, <4>1, <4>2
    <3>3. CASE m # 0 /\ ~(m <= n)
      <4>1. m = n + 1 /\ m - 1 = n /\ n \in 0 .. n + 1
        BY <2>2, <3>3
      <4>2. g[m] = SendNext(f[n]) /\ g[n] = f[n]
        BY <4>1, <2>2
      <4>. HIDE DEF g
      <4>. QED  BY <3>3, <4>1, <4>2
    <3>. QED  BY <3>1, <3>2, <3>3
  <2>5. g = [m \in 0 .. n + 1 |-> IF m = 0 THEN s ELSE SendNext(g[m - 1])]
    <3>1. g = [m \in 0 .. n + 1 |-> g[m]]
      OBVIOUS
    <3>. HIDE DEF g
    <3>. QED  BY <2>4, <3>1
  <2>6. Runs(s, n + 1, g)
    BY <2>5 DEF Runs
  <2>. QED  BY <2>2, <2>6
<1>3. N \in T
  <2>. HIDE DEF T
  <2>. QED  BY <1>1, <1>2, NatSetInduction DEF T
<1>4. PICK f : Runs(s, N, f)
  BY <1>3
<1>. DEFINE sent == CHOOSE g : g = [n \in 0 .. N |-> IF n = 0 THEN s ELSE Then(g[n - 1], SendNext)]
<1>5. \A g : Runs(s, N, g) <=> g = [n \in 0 .. N |-> IF n = 0 THEN s ELSE Then(g[n - 1], SendNext)]
  BY DEF Runs, Then
<1>6. Runs(s, N, sent)
  BY <1>4, <1>5
<1>7. SendAll(s) = sent[N]
  BY DEF SendAll
<1>. QED  BY <1>6, <1>7

\* A part of a handler after which the socket is connected, with the same acknowledged data
After(s, t, w, c) ==
  /\ Open(t, w, c) /\ Does(s, t, w, c) /\ t.tx.head = s.tx.head /\ t.tx.tail = s.tx.tail
  /\ t.tx.sacked = s.tx.sacked /\ t.rx = s.rx

\* The highest number is a number.
LEMMA HighIsNat ==
  ASSUME NEW s, NEW w, NEW c, Mid(s, w, c)
  PROVE  s.high \in Nat
BY DEF Mid, Board

\* One more turn of the loop
LEMMA SendNextAfter ==
  ASSUME NEW s, NEW t, NEW w \in Nat, NEW c \in BOOLEAN, s.high \in Nat, After(s, t, w, c)
  PROVE  After(s, SendNext(t), w, c)
<1>1. /\ Open(SendNext(t), w, c) /\ Does(t, SendNext(t), w, c) /\ SendNext(t).tx.head = t.tx.head
      /\ SendNext(t).tx.tail = t.tx.tail /\ SendNext(t).tx.sacked = t.tx.sacked /\ SendNext(t).rx = t.rx
  BY SendNextOpen DEF After
<1>2. t.high \in Nat /\ SendNext(t).high \in Nat
  BY <1>1, HighIsNat DEF After, Open
<1>3. Does(s, SendNext(t), w, c)
  BY <1>1, <1>2, DoesThrough DEF After
<1>. QED  BY <1>1, <1>3 DEF After

\* ... and all its turns
LEMMA RunAfter ==
  ASSUME NEW s, NEW u, NEW w \in Nat, NEW c \in BOOLEAN, s.high \in Nat, NEW N \in Nat, NEW f, Runs(u, N, f),
         NEW k \in 0 .. N, After(s, f[k], w, c)
  PROVE  After(s, f[N], w, c)
<1>. DEFINE T == {n \in Nat : k <= n /\ n <= N => After(s, f[n], w, c)}
<1>1. 0 \in T
  OBVIOUS
<1>2. ASSUME NEW n \in T PROVE n + 1 \in T
  <2>1. n \in Nat /\ n + 1 \in Nat
    BY <1>2
  <2>2. CASE k <= n /\ n + 1 <= N
    <3>1. After(s, f[n], w, c)
      BY <1>2, <2>1, <2>2
    <3>2. n + 1 \in 0 .. N /\ (n + 1) - 1 = n
      BY <2>1, <2>2
    <3>3. f[n + 1] = SendNext(f[n])
      BY <2>1, <3>2 DEF Runs
    <3>4. After(s, f[n + 1], w, c)
      BY <3>1, <3>3, SendNextAfter
    <3>. QED  BY <2>1, <3>4
  <2>3. CASE ~(k <= n) /\ k <= n + 1
    <3>1. k = n + 1
      BY <2>1, <2>3
    <3>. QED  BY <2>1, <3>1
  <2>4. CASE ~(n + 1 <= N) \/ ~(k <= n + 1)
    BY <2>1, <2>4
  <2>5. (k <= n /\ n + 1 <= N) \/ (~(k <= n) /\ k <= n + 1) \/ ~(n + 1 <= N) \/ ~(k <= n + 1)
    OBVIOUS
  <2>. QED  BY <2>2, <2>3, <2>4, <2>5
<1>3. N \in T
  <2>. HIDE DEF T
  <2>. QED  BY <1>1, <1>2, NatSetInduction DEF T
<1>. QED  BY <1>3

\* SendPendingData is the loop, without its delayed call.
LEMMA PendingIs ==
  ASSUME NEW s
  PROVE  SendPendingData(s) = SendAll(Cancel(s, "pending"))
BY DEF SendPendingData, Then

\* The delayed call is cancelled.
LEMMA CancelledAfter ==
  ASSUME NEW s, NEW w \in Nat, NEW c \in BOOLEAN, Shaped(s), s.high \in Nat
  PROVE  LET u == Cancel(s, "pending")
         IN  Kept(s, u) /\ u.out = s.out /\ Does(s, u, w, c)
BY TimersAreKept, KeptDoes

\* SendPendingData on a connected socket
LEMMA SendPendingOpen ==
  ASSUME NEW s, NEW w \in Nat, NEW c \in BOOLEAN, Open(s, w, c)
  PROVE  After(s, SendPendingData(s), w, c)
<1>. DEFINE u == Cancel(s, "pending")
            N == TxSize(u.tx)
<1>1. s.high \in Nat /\ Shaped(s)
  BY HighIsNat DEF Open, Mid
<1>2. Kept(s, u) /\ u.out = s.out /\ Does(s, u, w, c)
  BY <1>1, CancelledAfter
<1>. HIDE DEF u
<1>3. Open(u, w, c)
  BY <1>2, KeptMid
<1>4. After(s, u, w, c)
  BY <1>2, <1>3 DEF After, Kept
<1>5. N \in Nat
  BY <1>3 DEF Open, Mid, Board, TxSize
<1>6. PICK f : Runs(u, N, f) /\ SendAll(u) = f[N]
  BY <1>5, SendAllRuns
<1>. HIDE DEF N
<1>7. f[0] = u
  <2>1. 0 \in 0 .. N
    BY <1>5
  <2>. QED  BY <1>6, <2>1 DEF Runs
<1>8. After(s, f[0], w, c) /\ 0 \in 0 .. N
  BY <1>4, <1>5, <1>7
<1>9. After(s, f[N], w, c)
  BY <1>1, <1>5, <1>6, <1>8, RunAfter
<1>. QED  BY <1>6, <1>9, PendingIs DEF u

\* With something to send, also when no timer guards what has been sent.
LEMMA SendPendingMid ==
  ASSUME NEW s, NEW w \in Nat, NEW c \in BOOLEAN, Mid(s, w, c), s.highAck <= s.tx.head, s.tx.head < s.tx.tail,
         MaySend(Cancel(s, "pending"))
  PROVE  After(s, SendPendingData(s), w, c)
<1>. DEFINE u == Cancel(s, "pending")
            N == TxSize(u.tx)
<1>1. s.high \in Nat /\ Shaped(s)
  BY HighIsNat DEF Mid
<1>2. Kept(s, u) /\ u.out = s.out /\ Does(s, u, w, c)
  BY <1>1, CancelledAfter
<1>3. MaySend(u)
  OBVIOUS
<1>. HIDE DEF u
<1>4. Mid(u, w, c) /\ u.highAck <= u.tx.head
  BY <1>2, KeptMid DEF Kept
<1>5. N \in Nat /\ N >= 1
  BY <1>2, <1>4 DEF Mid, Board, TxSize, Kept
<1>6. PICK f : Runs(u, N, f) /\ SendAll(u) = f[N]
  BY <1>5, SendAllRuns
<1>. HIDE DEF N
<1>7. f[0] = u /\ f[1] = SendNext(f[0])
  <2>1. 0 \in 0 .. N /\ 1 \in 0 .. N
    BY <1>5
  <2>. QED  BY <1>6, <2>1 DEF Runs
<1>8. After(u, f[1], w, c) /\ u.high \in Nat
  BY <1>3, <1>4, <1>7, SendNextMid, HighIsNat DEF After
<1>9. f[1].high \in Nat
  BY <1>8, HighIsNat DEF After, Open
<1>10. After(s, f[1], w, c)
  <2>1. Does(s, f[1], w, c)
    BY <1>1, <1>2, <1>8, <1>9, DoesThrough DEF After
  <2>. QED  BY <1>2, <1>8, <2>1 DEF After, Kept
<1>11. After(s, f[N], w, c)
  BY <1>1, <1>5, <1>6, <1>10, RunAfter
<1>. QED  BY <1>6, <1>11, PendingIs DEF u

\* Nothing to send, or no way to
LEMMA SendPendingIdle ==
  ASSUME NEW s, Shaped(s), TxSize(s.tx) \in Nat, ~s.ep \/ TxSize(s.tx) = 0
  PROVE  Kept(s, SendPendingData(s)) /\ SendPendingData(s).out = s.out
<1>. DEFINE u == Cancel(s, "pending")
            N == TxSize(u.tx)
<1>1. Kept(s, u) /\ u.out = s.out
  BY TimersAreKept
<1>. HIDE DEF u
<1>2. N \in Nat
  BY <1>1 DEF Kept
<1>3. SendNext(u) = u
  BY <1>1 DEF SendNext, MaySend, Kept
<1>4. PICK f : Runs(u, N, f) /\ SendAll(u) = f[N]
  BY <1>2, SendAllRuns
<1>. HIDE DEF N
<1>. DEFINE T == {n \in Nat : n <= N => f[n] = u}
<1>5. 0 \in T
  BY <1>2, <1>4 DEF Runs
<1>6. ASSUME NEW n \in T PROVE n + 1 \in T
  <2>1. n \in Nat /\ n + 1 \in Nat
    BY <1>6
  <2>2. CASE n + 1 <= N
    <3>1. f[n] = u /\ n + 1 \in 0 .. N /\ (n + 1) - 1 = n
      BY <1>2, <1>6, <2>1, <2>2
    <3>2. f[n + 1] = SendNext(f[n])
      BY <1>2, <1>4, <2>1, <3>1 DEF Runs
    <3>. QED  BY <1>3, <2>1, <3>1, <3>2
  <2>3. CASE ~(n + 1 <= N)
    BY <2>1, <2>3
  <2>. QED  BY <2>2, <2>3
<1>7. N \in T
  <2>. HIDE DEF T
  <2>. QED  BY <1>2, <1>5, <1>6, NatSetInduction DEF T
<1>8. SendAll(u) = u
  BY <1>2, <1>4, <1>7
<1>. QED  BY <1>1, <1>8, PendingIs DEF u

\* A part of a handler that leaves alone what has been acknowledged
Stays(s, t, w, c) ==
  /\ Does(s, t, w, c) /\ t.tx.head = s.tx.head /\ t.tx.tail = s.tx.tail
  /\ t.tx.sacked = s.tx.sacked /\ t.rx = s.rx

\* Two such parts
LEMMA StaysThrough ==
  ASSUME NEW s, NEW t, NEW u, NEW w, NEW c, s.high \in Nat, t.high \in Nat, u.high \in Nat,
         Stays(s, t, w, c), Stays(t, u, w, c)
  PROVE  Stays(s, u, w, c)
BY DoesThrough DEF Stays

\* A call that keeps the socket is such a part.
LEMMA KeptStays ==
  ASSUME NEW s, NEW t, NEW w \in Nat, NEW c \in BOOLEAN, s.high \in Nat, Kept(s, t), t.out = s.out
  PROVE  Stays(s, t, w, c)
BY KeptDoes DEF Stays, Kept

\* EnterRecovery, from the state that DupAck makes: the head is sent again.
LEMMA EnterRecoveryMid ==
  ASSUME NEW s, NEW w \in Nat, NEW c \in BOOLEAN, Mid(s, w, c), s.highAck = s.tx.head, s.tx.head < s.tx.end,
         NEW d \in Nat
  PROVE  LET t == EnterRecovery([s EXCEPT !.dupAcks = d, !.cong = "DISORDER"])
         IN  /\ Mid(t, w, c) /\ Armed(t) /\ Stays(s, t, w, c)
             /\ t.highAck = s.highAck /\ t.next = s.next
<1>. DEFINE u == [s EXCEPT !.dupAcks = d, !.cong = "DISORDER"]
            tx == IF IsLost(u.tx, u.tx.head) THEN u.tx ELSE MarkHeadAsLost(u.tx)
            lost == [u EXCEPT !.tx = IF IsLost(@, @.head) THEN @ ELSE MarkHeadAsLost(@),
                              !.recover = u.high, !.recoverActive = TRUE, !.cong = "RECOVERY"]
<1>1. EnterRecovery(u) = SendDataPacket(lost, u.highAck)
  <2>1. u.cong # "RECOVERY"
    BY DEF Mid, Shaped
  <2>. QED  BY <2>1 DEF EnterRecovery, Check
<1>2. /\ u.state = s.state /\ u.ep = s.ep /\ u.next = s.next /\ u.high = s.high /\ u.highAck = s.highAck
      /\ u.tx = s.tx /\ u.rx = s.rx /\ u.closeOnEmpty = s.closeOnEmpty /\ u.retx = s.retx /\ u.out = s.out
      /\ u.broken = s.broken /\ u.syns = s.syns /\ u.retries = s.retries /\ u.timers = s.timers
      /\ u.notice = s.notice /\ u.dupAcks = d /\ DOMAIN u = DOMAIN s
  BY DEF Mid, Shaped
<1>. HIDE DEF u
<1>3. Board(tx) /\ tx.head = s.tx.head /\ tx.end = s.tx.end /\ tx.tail = s.tx.tail /\ tx.sacked = s.tx.sacked
  BY <1>2, MarkHeadIs DEF Mid
<1>4. /\ DOMAIN lost = DOMAIN u /\ lost.tx = tx /\ lost.recover = s.high /\ lost.cong = "RECOVERY"
      /\ lost.state = u.state /\ lost.ep = u.ep /\ lost.next = u.next /\ lost.high = u.high
      /\ lost.highAck = u.highAck /\ lost.rx = u.rx /\ lost.closeOnEmpty = u.closeOnEmpty
      /\ lost.retx = u.retx /\ lost.out = u.out
      /\ lost.recoverActive = TRUE /\ lost.dupAcks = u.dupAcks /\ lost.broken = u.broken
      /\ lost.syns = u.syns /\ lost.retries = u.retries /\ lost.timers = u.timers /\ lost.notice = u.notice
  BY <1>2 DEF Mid, Shaped
<1>. HIDE DEF tx, lost
<1>5. Shaped(lost)
  <2>1. Sane(lost)
    BY <1>2, <1>4 DEF Mid, Shaped, Sane, Sound
  <2>. QED  BY <1>2, <1>3, <1>4, <2>1 DEF Mid, Shaped, Board
<1>6. s.high \in Nat
  BY HighIsNat
<1>7. Mid(lost, w, c)
  BY <1>2, <1>3, <1>4, <1>5, <1>6 DEF Mid, Congs
<1>8. Stays(s, lost, w, c) /\ lost.high = s.high
  <2>1. Onward(s, lost, w, c)
    BY <1>2, <1>4, <1>6 DEF Onward, FinSent
  <2>. QED  BY <1>2, <1>3, <1>4, <1>6, <2>1, Silent DEF Stays
<1>9. /\ u.highAck \in Nat /\ lost.tx.head <= u.highAck /\ u.highAck <= lost.tx.end /\ u.highAck < lost.tx.tail
  BY <1>2, <1>3, <1>4 DEF Mid, Board
<1>. DEFINE t == SendDataPacket(lost, u.highAck)
<1>10. /\ Mid(t, w, c) /\ Does(lost, t, w, c) /\ t.retx = {"RTO"}
       /\ t.next = lost.next /\ t.highAck = lost.highAck
       /\ t.tx.head = lost.tx.head /\ t.tx.tail = lost.tx.tail /\ t.tx.sacked = lost.tx.sacked /\ t.rx = lost.rx
  BY <1>7, <1>9, SendDataMid
<1>. HIDE DEF t
<1>11. Stays(s, t, w, c)
  <2>1. Stays(lost, t, w, c)
    BY <1>10 DEF Stays
  <2>2. t.high \in Nat
    BY <1>10, HighIsNat
  <2>. QED  BY <1>6, <1>8, <2>1, <2>2, StaysThrough
<1>12. t.highAck = s.highAck /\ t.next = s.next /\ Armed(t)
  BY <1>2, <1>4, <1>10 DEF Armed
<1>. QED  BY <1>1, <1>10, <1>11, <1>12 DEF t, u

\* DupAck, whether it enters the recovery or not: in OPEN this is the first duplicate, and
\* from RetxThresh of them on the recovery is entered.
LEMMA DupAckMid ==
  ASSUME NEW s, NEW w \in Nat, NEW c \in BOOLEAN, Mid(s, w, c), Armed(s), s.highAck = s.tx.head,
         s.tx.head < s.tx.end
  PROVE  LET t == DupAck(s)
         IN  /\ Mid(t, w, c) /\ Armed(t) /\ Stays(s, t, w, c)
             /\ t.highAck = s.highAck /\ t.next = s.next
<1>. DEFINE more     == [s EXCEPT !.dupAcks = IF s.cong = "RECOVERY" THEN @ ELSE @ + 1]
            checked  == Check(Check(more, s.cong = "OPEN" => more.dupAcks = 1),
                              \/ s.cong = "RECOVERY"
                              \/ more.dupAcks <= RetxThresh \/ s.recoverActive)
            disorder == [checked EXCEPT !.cong = IF @ = "OPEN" THEN "DISORDER" ELSE @]
            cond     == \/ disorder.dupAcks = RetxThresh /\ (s.recoverActive => s.highAck >= s.recover)
                        \/ IsLost(s.tx, s.highAck)
<1>1. DupAck(s) = IF s.cong = "LOSS" THEN s
                  ELSE IF disorder.cong = "RECOVERY" THEN disorder
                  ELSE IF cond THEN EnterRecovery(disorder) ELSE disorder
  BY DEF DupAck
<1>2. s.high \in Nat /\ Kept(s, s)
  BY HighIsNat DEF Kept, Mid
<1>3. s.cong = "OPEN" => more.dupAcks = 1
  BY DEF Mid, Shaped, Sane, Sound
<1>8. CASE s.cong = "LOSS"
  BY <1>1, <1>2, <1>8, KeptStays
<1>. SUFFICES ASSUME s.cong # "LOSS"
              PROVE  LET t == DupAck(s)
                     IN  /\ Mid(t, w, c) /\ Armed(t) /\ Stays(s, t, w, c)
                         /\ t.highAck = s.highAck /\ t.next = s.next
  BY <1>8
<1>13. s.cong \in {"OPEN", "DISORDER"} => more.dupAcks <= RetxThresh
  BY RetxThreshAssumption DEF Mid, Shaped, Sane, Sound
<1>4. checked = more
  BY <1>3, <1>13 DEF Check, Mid, Shaped, Sane, Sound, Congs
<1>. HIDE DEF checked
<1>5. /\ DOMAIN disorder = DOMAIN s
      /\ disorder.dupAcks = (IF s.cong = "RECOVERY" THEN s.dupAcks ELSE s.dupAcks + 1)
      /\ disorder.cong = (IF s.cong = "OPEN" THEN "DISORDER" ELSE s.cong)
      /\ disorder.state = s.state /\ disorder.ep = s.ep /\ disorder.next = s.next
      /\ disorder.high = s.high /\ disorder.highAck = s.highAck /\ disorder.recover = s.recover
      /\ disorder.tx = s.tx /\ disorder.rx = s.rx /\ disorder.closeOnEmpty = s.closeOnEmpty
      /\ disorder.retx = s.retx /\ disorder.out = s.out /\ disorder.recoverActive = s.recoverActive
      /\ disorder.broken = s.broken /\ disorder.syns = s.syns /\ disorder.retries = s.retries
      /\ disorder.timers = s.timers /\ disorder.notice = s.notice
  BY <1>4 DEF Mid, Shaped
<1>12. s.cong = "OPEN" \/ s.cong = "DISORDER" =>
         disorder = [s EXCEPT !.dupAcks = s.dupAcks + 1, !.cong = "DISORDER"]
  BY <1>4 DEF Mid, Shaped
<1>. HIDE DEF more, disorder
<1>6. s.dupAcks \in Nat /\ s.cong \in Congs /\ (s.cong # "LOSS" => disorder.cong \in {"DISORDER", "RECOVERY"})
  BY <1>5 DEF Mid, Shaped, Sane, Sound, Congs
<1>7. ASSUME disorder.cong = "RECOVERY" \/ disorder.dupAcks < RetxThresh, s.cong # "LOSS"
      PROVE  /\ Mid(disorder, w, c) /\ Armed(disorder) /\ Stays(s, disorder, w, c)
             /\ disorder.highAck = s.highAck /\ disorder.next = s.next
  <2>1. Sane(disorder)
    BY <1>5, <1>7 DEF Mid, Shaped, Sane, Sound
  <2>2. Shaped(disorder)
    BY <1>5, <2>1 DEF Mid, Shaped
  <2>3. Mid(disorder, w, c) /\ Armed(disorder)
    BY <1>5, <1>6, <1>7, <2>2 DEF Mid, Armed, Congs
  <2>4. Onward(s, disorder, w, c)
    BY <1>2, <1>5 DEF Onward, FinSent
  <2>5. Stays(s, disorder, w, c)
    <3>1. disorder.high \in Nat /\ disorder.out = s.out
      BY <1>2, <1>5
    <3>2. Does(s, disorder, w, c)
      BY <1>2, <2>4, <3>1, Silent
    <3>. QED  BY <1>5, <3>2 DEF Stays
  <2>. QED  BY <1>5, <2>3, <2>5
<1>9. CASE s.cong # "LOSS" /\ disorder.cong = "RECOVERY"
  BY <1>1, <1>7, <1>9
<1>10. CASE s.cong # "LOSS" /\ disorder.cong # "RECOVERY" /\ cond
  <2>1. DupAck(s) = EnterRecovery(disorder)
    BY <1>1, <1>10
  <2>2. s.dupAcks + 1 \in Nat /\ disorder = [s EXCEPT !.dupAcks = s.dupAcks + 1, !.cong = "DISORDER"]
    BY <1>5, <1>6, <1>10, <1>12 DEF Congs
  <2>3. disorder.highAck = s.highAck /\ disorder.next = s.next
    BY <1>5
  <2>. DEFINE e == EnterRecovery([s EXCEPT !.dupAcks = s.dupAcks + 1, !.cong = "DISORDER"])
  <2>4. /\ Mid(e, w, c) /\ Armed(e) /\ Stays(s, e, w, c)
        /\ e.highAck = s.highAck /\ e.next = s.next
    BY <2>2, EnterRecoveryMid
  <2>5. DupAck(s) = e
    BY <2>1, <2>2
  <2>. HIDE DEF cond, e
  <2>. QED  BY <2>4, <2>5
<1>11. CASE s.cong # "LOSS" /\ disorder.cong # "RECOVERY" /\ ~cond
  <2>1. s.recoverActive = FALSE /\ disorder.dupAcks <= RetxThresh
    BY <1>5, <1>6, <1>11, RetxThreshAssumption DEF Mid, Shaped, Sane, Sound, Congs
  <2>2. disorder.dupAcks < RetxThresh
    BY <1>5, <1>6, <1>11, <2>1, RetxThreshAssumption
  <2>3. DupAck(s) = disorder
    BY <1>1, <1>11, <2>1 DEF Check
  <2>. QED  BY <1>7, <1>11, <2>2, <2>3
<1>. HIDE DEF cond
<1>. QED  BY <1>9, <1>10, <1>11

\* NewAck, for what the head has become.
LEMMA NewAckOpen ==
  ASSUME NEW s, NEW w \in Nat, NEW c \in BOOLEAN, Mid(s, w, c), Armed(s), s.highAck <= s.tx.head, NEW reset
  PROVE  After(s, NewAck(s, s.tx.head, reset), w, c)
<1>. DEFINE t == NewAck(s, s.tx.head, reset)
<1>1. /\ DOMAIN t = DOMAIN s /\ t.next = Max({s.next, s.tx.head})
      /\ t.retx = (IF TxSize(s.tx) = 0 /\ s.state \notin {"FIN_WAIT_1", "CLOSING"} THEN {}
                   ELSE IF s.state # "SYN_RCVD" /\ reset THEN {"RTO"} ELSE s.retx)
      /\ t.state = s.state /\ t.ep = s.ep /\ t.cong = s.cong
      /\ t.high = s.high /\ t.highAck = s.highAck /\ t.recover = s.recover /\ t.tx = s.tx /\ t.rx = s.rx
      /\ t.closeOnEmpty = s.closeOnEmpty /\ t.out = s.out /\ Sane(t)
  BY TcpSocketAssumption DEF NewAck, Mid, Shaped, Sane, Sound
<1>. HIDE DEF t
<1>2. Shaped(t)
  BY <1>1 DEF Shaped, Sane, Mid
<1>3. s.high \in Nat
  BY HighIsNat
<1>4. t.next = IF s.next >= s.tx.head THEN s.next ELSE s.tx.head
  BY <1>1, MaxOfTwo DEF Mid, Board
<1>5. t.next \in 1 .. s.tx.end /\ (s.tx.head = s.tx.tail => t.next = s.tx.head)
  BY <1>4 DEF Mid, Board
<1>6. t.retx \in {{}, {"RTO"}} \/ (t.retx = {"FIN", "ACK"} /\ s.state = "FIN_WAIT_1" /\ s.tx.head = s.tx.tail)
  BY <1>1 DEF Mid
<1>7. t.retx = {} => s.tx.head = s.tx.end
  <2>1. /\ s.tx.head \in Nat /\ s.tx.end \in Nat /\ s.tx.tail \in Nat /\ s.tx.head <= s.tx.end /\ s.tx.end <= s.tx.tail
        /\ TxSize(s.tx) = s.tx.tail - s.tx.head
    BY DEF Mid, Board, TxSize
  <2>2. CASE s.retx = {}
    BY <2>2 DEF Armed
  <2>3. CASE s.retx # {}
    <3>1. t.retx = {} => TxSize(s.tx) = 0
      BY <1>1, <2>3
    <3>. QED  BY <2>1, <3>1
  <2>. QED  BY <2>2, <2>3
<1>8. Mid(t, w, c)
  BY <1>1, <1>2, <1>5, <1>6 DEF Mid
<1>9. Open(t, w, c)
  BY <1>1, <1>5, <1>7, <1>8 DEF Open, Armed
<1>10. Does(s, t, w, c)
  <2>1. Onward(s, t, w, c)
    BY <1>1, <1>3 DEF Onward, FinSent
  <2>. QED  BY <1>1, <1>3, <2>1, Silent
<1>. QED  BY <1>1, <1>9, <1>10 DEF After, t

\* What keeps the socket, after SendPendingData and the like
LEMMA KeptAfter ==
  ASSUME NEW s, NEW t, NEW u, NEW w \in Nat, NEW c \in BOOLEAN, s.high \in Nat, After(s, t, w, c),
         Kept(t, u), u.out = t.out
  PROVE  After(s, u, w, c)
<1>1. Open(u, w, c)
  BY KeptMid DEF After
<1>2. t.high \in Nat /\ u.high \in Nat
  BY <1>1, HighIsNat DEF After, Open
<1>3. Does(s, u, w, c)
  <2>1. Does(t, u, w, c)
    BY <1>2, KeptDoes
  <2>. QED  BY <1>2, <2>1, DoesThrough DEF After
<1>. QED  BY <1>1, <1>3 DEF After, Kept

\* ... and before
LEMMA StaysAfter ==
  ASSUME NEW s, NEW t, NEW u, NEW w \in Nat, NEW c \in BOOLEAN, s.high \in Nat, t.high \in Nat,
         Stays(s, t, w, c), After(t, u, w, c)
  PROVE  After(s, u, w, c)
<1>1. u.high \in Nat
  BY HighIsNat DEF After, Open
<1>. QED  BY <1>1, DoesThrough DEF Stays, After

\* DoRetransmit sends the head again.
LEMMA DoRetransmitMid ==
  ASSUME NEW s, NEW w \in Nat, NEW c \in BOOLEAN, Mid(s, w, c), s.tx.head < s.tx.end
  PROVE  LET t == DoRetransmit(s)
         IN  Mid(t, w, c) /\ Armed(t) /\ Stays(s, t, w, c) /\ t.highAck = s.highAck /\ t.cong = s.cong
<1>. DEFINE segs == NextSegs(s.tx, FALSE)
            seq  == IF segs = {} THEN s.tx.head ELSE Min(segs)
            u    == [s EXCEPT !.next = seq]
            t    == SendDataPacket(u, seq)
<1>1. DoRetransmit(s) = t
  BY DEF DoRetransmit
<1>2. seq \in Nat /\ s.tx.head <= seq /\ seq <= s.tx.end /\ seq < s.tx.tail
  <2>1. CASE segs = {}
    BY <2>1 DEF Mid, Board
  <2>2. CASE segs # {}
    <3>1. PICK n \in segs : TRUE
      BY <2>2
    <3>2. n \in Nat /\ s.tx.head <= n /\ n <= s.tx.end /\ n < s.tx.tail /\ segs = {n}
      BY <3>1, NextSegsIn DEF Mid
    <3>3. Min(segs) = n
      <4>1. segs \in SUBSET Nat /\ segs # {}
        BY <3>2
      <4>. HIDE DEF segs
      <4>. QED  BY <3>2, <4>1, MinIn
    <3>. QED  BY <2>2, <3>2, <3>3
  <2>. QED  BY <2>1, <2>2
<1>. HIDE DEF seq
<1>3. /\ DOMAIN u = DOMAIN s /\ u.next = seq /\ u.state = s.state /\ u.ep = s.ep /\ u.cong = s.cong
      /\ u.high = s.high /\ u.highAck = s.highAck /\ u.recover = s.recover /\ u.tx = s.tx /\ u.rx = s.rx
      /\ u.closeOnEmpty = s.closeOnEmpty /\ u.retx = s.retx /\ u.out = s.out /\ Sane(u)
  BY DEF Mid, Shaped, Sane
<1>. HIDE DEF u
<1>4. Shaped(u)
  BY <1>3 DEF Shaped, Sane, Mid
<1>5. Mid(u, w, c)
  <2>1. seq \in 1 .. s.tx.end
    BY <1>2 DEF Mid, Board
  <2>. QED  BY <1>3, <1>4, <2>1 DEF Mid
<1>6. s.high \in Nat
  BY HighIsNat
<1>7. Stays(s, u, w, c)
  <2>1. Onward(s, u, w, c)
    BY <1>3, <1>6 DEF Onward, FinSent
  <2>. QED  BY <1>3, <1>6, <2>1, Silent DEF Stays
<1>8. /\ Mid(t, w, c) /\ Does(u, t, w, c) /\ t.retx = {"RTO"}
      /\ t.highAck = u.highAck /\ t.cong = u.cong
      /\ t.tx.head = u.tx.head /\ t.tx.tail = u.tx.tail /\ t.tx.sacked = u.tx.sacked /\ t.rx = u.rx
  BY <1>2, <1>3, <1>5, SendDataMid
<1>. HIDE DEF t
<1>9. Stays(s, t, w, c)
  <2>1. Stays(u, t, w, c)
    BY <1>8 DEF Stays
  <2>2. t.high \in Nat
    BY <1>8, HighIsNat
  <2>. QED  BY <1>3, <1>6, <1>7, <2>1, <2>2, StaysThrough
<1>. QED  BY <1>1, <1>3, <1>8, <1>9 DEF Armed

\* A partial acknowledgment in the recovery
LEMMA PartialAckOpen ==
  ASSUME NEW s, NEW w \in Nat, NEW c \in BOOLEAN, Mid(s, w, c), Armed(s), s.highAck <= s.tx.head,
         s.tx.head < s.tx.end
  PROVE  After(s, PartialAck(s, s.tx.head), w, c)
<1>. DEFINE u == IF IsRetransmitted(s.tx, s.tx.head + 1) THEN s ELSE DoRetransmit(s)
            v == NewAck(u, s.tx.head, s.firstPartial)
            t == [v EXCEPT !.firstPartial = FALSE]
<1>1. PartialAck(s, s.tx.head) = t
  BY DEF PartialAck, Then
<1>2. s.high \in Nat
  BY HighIsNat
<1>3. Mid(u, w, c) /\ Armed(u) /\ Stays(s, u, w, c) /\ u.highAck = s.highAck
  <2>1. CASE IsRetransmitted(s.tx, s.tx.head + 1)
    <3>1. Kept(s, s)
      BY DEF Kept, Mid
    <3>. QED  BY <1>2, <2>1, <3>1, KeptStays
  <2>2. CASE ~IsRetransmitted(s.tx, s.tx.head + 1)
    BY <2>2, DoRetransmitMid
  <2>. QED  BY <2>1, <2>2
<1>. HIDE DEF u
<1>4. u.tx.head = s.tx.head
  BY <1>3 DEF Stays
<1>5. After(u, v, w, c)
  BY <1>3, <1>4, NewAckOpen
<1>6. u.high \in Nat
  BY <1>3, HighIsNat
<1>. HIDE DEF v
<1>7. After(s, v, w, c)
  BY <1>2, <1>3, <1>5, <1>6, StaysAfter
<1>8. Kept(v, t) /\ t.out = v.out
  BY <1>7 DEF After, Open, Mid, Kept, Shaped, Sane
<1>9. After(s, t, w, c)
  <2>. HIDE DEF t
  <2>. QED  BY <1>2, <1>7, <1>8, KeptAfter
<1>. QED  BY <1>1, <1>9

\* An acknowledgment that ends the recovery
LEMMA FullAckOpen ==
  ASSUME NEW s, NEW w \in Nat, NEW c \in BOOLEAN, Mid(s, w, c), Armed(s), s.highAck <= s.tx.head,
         NEW dup \in BOOLEAN, dup => s.tx.head < s.tx.end,
         s.cong \in {"RECOVERY", "LOSS"} => s.tx.head >= s.recover, s.cong = "DISORDER" /\ ~dup => s.dupAcks = 0
  PROVE  After(s, FullAck(s, s.tx.head, dup), w, c)
<1>. DEFINE cong  == IF s.cong = "DISORDER" /\ dup THEN s.cong
                     ELSE IF s.cong = "RECOVERY" \/ s.cong = "LOSS" \/ s.cong = "DISORDER" THEN "OPEN" ELSE s.cong
            ended == [s EXCEPT
              !.cong          = IF @ = "DISORDER" /\ dup THEN @
                                ELSE IF @ = "RECOVERY" \/ @ = "LOSS" \/ @ = "DISORDER" THEN "OPEN" ELSE @,
              !.firstPartial  = IF s.cong \in {"RECOVERY", "LOSS"} THEN TRUE ELSE @,
              !.dupAcks       = IF s.cong = "RECOVERY" THEN 0 ELSE @,
              !.recoverActive = @ /\ s.tx.head < s.recover]
<1>1. FullAck(s, s.tx.head, dup) = IF ended.cong = "OPEN" THEN NewAck(ended, s.tx.head, TRUE) ELSE ended
  <2>1. FullAck(s, s.tx.head, dup)
        = CHOOSE after \in {IF t.cong = "OPEN" THEN NewAck(t, s.tx.head, TRUE) ELSE t : t \in {ended}} : TRUE
    BY Zenon DEF FullAck, Then
  <2>. HIDE DEF ended
  <2>. QED  BY <2>1
<1>2. /\ DOMAIN ended = DOMAIN s /\ ended.cong = cong
      /\ ended.next = s.next /\ ended.state = s.state /\ ended.ep = s.ep
      /\ ended.high = s.high /\ ended.highAck = s.highAck /\ ended.recover = s.recover /\ ended.tx = s.tx
      /\ ended.rx = s.rx /\ ended.closeOnEmpty = s.closeOnEmpty /\ ended.retx = s.retx /\ ended.out = s.out
      /\ Sane(ended)
  <2>1. /\ DOMAIN ended = DOMAIN s /\ ended.cong = cong
        /\ ended.next = s.next /\ ended.state = s.state /\ ended.ep = s.ep
        /\ ended.high = s.high /\ ended.highAck = s.highAck /\ ended.recover = s.recover /\ ended.tx = s.tx
        /\ ended.rx = s.rx /\ ended.closeOnEmpty = s.closeOnEmpty /\ ended.retx = s.retx /\ ended.out = s.out
        /\ ended.dupAcks = (IF s.cong = "RECOVERY" THEN 0 ELSE s.dupAcks)
        /\ ended.recoverActive = (s.recoverActive /\ s.tx.head < s.recover)
        /\ ended.broken = s.broken /\ ended.syns = s.syns /\ ended.retries = s.retries
        /\ ended.timers = s.timers /\ ended.notice = s.notice
    BY DEF Mid, Shaped
  <2>2. s.tx.head \in Nat /\ s.recover \in Nat
    BY DEF Mid, Board
  <2>3. cong \in {"OPEN", "LOSS"} => ended.dupAcks = 0
    BY <2>1 DEF Mid, Shaped, Sane, Sound
  <2>4. cong \in {"OPEN", "DISORDER"} => ended.recoverActive = FALSE
    <3>1. CASE s.cong \in {"OPEN", "DISORDER"}
      BY <2>1, <3>1 DEF Mid, Shaped, Sane, Sound
    <3>2. CASE s.cong \in {"RECOVERY", "LOSS"}
      <4>1. ~(s.tx.head < s.recover)
        BY <2>2, <3>2
      <4>. QED  BY <2>1, <4>1
    <3>. QED  BY <3>1, <3>2 DEF Mid, Shaped, Sane, Sound
  <2>5. cong = "DISORDER" => ended.dupAcks < RetxThresh
    BY <2>1, RetxThreshAssumption DEF Mid, Shaped, Sane, Sound
  <2>6. cong \in {"OPEN", "DISORDER", "RECOVERY", "LOSS"}
    BY DEF Mid, Shaped, Sane, Sound
  <2>. HIDE DEF ended, cong
  <2>. QED  BY <2>1, <2>3, <2>4, <2>5, <2>6 DEF Mid, Shaped, Sane, Sound
<1>. HIDE DEF ended
<1>3. cong \in Congs /\ (cong # "OPEN" => dup)
  BY DEF Mid, Congs
<1>. HIDE DEF cong
<1>4. Shaped(ended)
  BY <1>2 DEF Shaped, Sane, Mid
<1>5. Mid(ended, w, c) /\ Armed(ended)
  BY <1>2, <1>3, <1>4 DEF Mid, Armed
<1>6. s.high \in Nat
  BY HighIsNat
<1>7. Stays(s, ended, w, c)
  <2>1. Onward(s, ended, w, c)
    BY <1>2, <1>6 DEF Onward, FinSent
  <2>. QED  BY <1>2, <1>6, <2>1, Silent DEF Stays
<1>8. CASE cong = "OPEN"
  <2>1. After(ended, NewAck(ended, ended.tx.head, TRUE), w, c)
    BY <1>2, <1>5, NewAckOpen
  <2>2. ended.tx.head = s.tx.head
    BY <1>2
  <2>3. ended.high \in Nat
    BY <1>2, <1>6
  <2>4. After(s, NewAck(ended, ended.tx.head, TRUE), w, c)
    BY <1>6, <1>7, <2>1, <2>3, StaysAfter
  <2>. QED  BY <1>1, <1>2, <1>8, <2>2, <2>4
<1>9. CASE cong # "OPEN"
  <2>1. s.tx.head < s.tx.end
    BY <1>3, <1>9
  <2>2. Open(ended, w, c)
    BY <1>2, <1>5, <2>1 DEF Open, Mid, Board
  <2>3. After(s, ended, w, c)
    BY <1>7, <2>2 DEF After, Stays
  <2>. QED  BY <1>1, <1>2, <1>9, <2>3
<1>. QED  BY <1>8, <1>9

\* ProcessAck in every congestion state
LEMMA ProcessAckOpen ==
  ASSUME NEW s, NEW w \in Nat, NEW c \in BOOLEAN, Mid(s, w, c), Armed(s), s.highAck = s.tx.head,
         NEW dup \in BOOLEAN, dup => s.tx.head < s.tx.end,
         NEW old, s.tx.head = old /\ s.tx.head = s.tx.tail => s.next = s.tx.head
  PROVE  After(s, ProcessAck(s, s.tx.head, dup, old), w, c)
<1>. DEFINE ack == s.tx.head
            heard == IF dup THEN DupAck(s) ELSE IF ack = old THEN s ELSE [s EXCEPT !.dupAcks = 0]
            moved == [heard EXCEPT !.next = IF ack > s.high THEN ack ELSE @]
<1>1. ProcessAck(s, ack, dup, old) =
         IF ack = old THEN moved
         ELSE IF ack < heard.recover /\ heard.cong = "RECOVERY" THEN PartialAck(heard, ack)
         ELSE IF ack < heard.recover /\ heard.cong = "LOSS" THEN NewAck(heard, ack, TRUE)
         ELSE FullAck(heard, ack, dup)
  <2>. DEFINE P(h) == IF ack = old THEN [h EXCEPT !.next = IF ack > s.high THEN ack ELSE @]
                      ELSE IF ack < h.recover /\ h.cong = "RECOVERY" THEN PartialAck(h, ack)
                      ELSE IF ack < h.recover /\ h.cong = "LOSS" THEN NewAck(h, ack, TRUE)
                      ELSE FullAck(h, ack, dup)
  <2>1. ProcessAck(s, ack, dup, old) = CHOOSE after \in {P(h) : h \in {heard}} : TRUE
    BY Zenon DEF ProcessAck, Then
  <2>2. ProcessAck(s, ack, dup, old) = P(heard)
    <3>. HIDE DEF P, heard
    <3>. QED  BY <2>1
  <2>. QED  BY Zenon, <2>2
<1>2. s.high \in Nat /\ Kept(s, s)
  BY HighIsNat DEF Mid, Kept
<1>3. Mid(heard, w, c) /\ Armed(heard) /\ Stays(s, heard, w, c) /\ heard.highAck = s.highAck /\ heard.next = s.next
  <2>1. CASE dup
    BY <2>1, DupAckMid
  <2>2. CASE ~dup /\ ack = old
    BY <1>2, <2>2, KeptStays
  <2>3. CASE ~dup /\ ack # old
    <3>1. heard = [s EXCEPT !.dupAcks = 0]
      BY <2>3
    <3>2. Kept(s, heard) /\ heard.out = s.out
      BY <3>1, RetxThreshAssumption DEF Kept, Mid, Shaped, Sane, Sound
    <3>. HIDE DEF heard
    <3>. QED  BY <1>2, <3>2, KeptMid, KeptStays DEF Kept, Armed
  <2>. QED  BY <2>1, <2>2, <2>3
<1>10. ~dup /\ ack # old => heard.dupAcks = 0
  BY DEF Mid, Shaped
<1>. HIDE DEF heard
<1>4. /\ heard.tx.head = ack /\ heard.high \in Nat /\ ack <= s.high /\ ack \in Nat
      /\ heard.highAck <= heard.tx.head
  BY <1>3, HighIsNat DEF Stays, Mid, Board
<1>5. heard.tx.tail = s.tx.tail
  BY <1>3 DEF Stays
<1>6. CASE ack = old
  <2>1. Kept(heard, moved) /\ moved.out = heard.out
    BY <1>2, <1>3, <1>4 DEF Kept, Mid, Shaped, Sane
  <2>2. Open(heard, w, c)
    BY <1>3, <1>4, <1>5, <1>6 DEF Open
  <2>3. After(s, heard, w, c)
    BY <1>3, <2>2 DEF After, Stays
  <2>4. After(s, moved, w, c)
    <3>. HIDE DEF moved
    <3>. QED  BY <1>2, <2>1, <2>3, KeptAfter
  <2>. QED  BY <1>1, <1>6, <2>4
<1>7. CASE ack # old /\ ack < heard.recover /\ heard.cong = "RECOVERY"
  <2>1. heard.tx.head < heard.tx.end
    BY <1>3, <1>4, <1>7 DEF Mid, Board
  <2>2. After(heard, PartialAck(heard, heard.tx.head), w, c)
    BY <1>3, <1>4, <2>1, PartialAckOpen
  <2>3. After(s, PartialAck(heard, heard.tx.head), w, c)
    BY <1>2, <1>3, <1>4, <2>2, StaysAfter
  <2>. QED  BY <1>1, <1>4, <1>7, <2>3
<1>8. CASE ack # old /\ ack < heard.recover /\ heard.cong = "LOSS"
  <2>1. After(heard, NewAck(heard, heard.tx.head, TRUE), w, c)
    BY <1>3, <1>4, NewAckOpen
  <2>2. After(s, NewAck(heard, heard.tx.head, TRUE), w, c)
    BY <1>2, <1>3, <1>4, <2>1, StaysAfter
  <2>. QED  BY <1>1, <1>4, <1>8, <2>2
<1>9. CASE /\ ack # old /\ ~(ack < heard.recover /\ heard.cong = "RECOVERY")
           /\ ~(ack < heard.recover /\ heard.cong = "LOSS")
  <2>1. dup => heard.tx.head < heard.tx.end
    <3>1. ASSUME dup PROVE heard.tx.head < heard.tx.end
      <4>1. s.tx.head < s.tx.end
        BY <3>1
      <4>2. heard.high >= s.high
        BY <1>3 DEF Stays, Does, Onward
      <4>. QED  BY <1>3, <1>4, <4>1, <4>2 DEF Mid, Board
    <3>. QED  BY <3>1
  <2>4. heard.cong \in {"RECOVERY", "LOSS"} => heard.tx.head >= heard.recover
    <3>1. heard.recover \in Nat /\ heard.tx.head \in Nat
      BY <1>3 DEF Mid, Board
    <3>. QED  BY <1>4, <1>9, <3>1
  <2>2. After(heard, FullAck(heard, heard.tx.head, dup), w, c)
    <3>1. /\ heard.cong \in {"RECOVERY", "LOSS"} => heard.tx.head >= heard.recover
          /\ heard.cong = "DISORDER" /\ ~dup => heard.dupAcks = 0
      BY <1>9, <1>10, <2>4
    <3>. QED  BY <1>3, <1>4, <2>1, <3>1, FullAckOpen
  <2>3. After(s, FullAck(heard, heard.tx.head, dup), w, c)
    BY <1>2, <1>3, <1>4, <2>2, StaysAfter
  <2>. QED  BY <1>1, <1>4, <1>9, <2>3
<1>. QED  BY <1>6, <1>7, <1>8, <1>9

-----------------------------------------------------------------------------
\* Acknowledgments at the sender.

\* All but the buffer of transmission
Retained(s, t) ==
  /\ Shaped(t)
  /\ t.state = s.state /\ t.ep = s.ep /\ t.cong = s.cong
  /\ t.next = s.next /\ t.high = s.high /\ t.highAck = s.highAck /\ t.recover = s.recover
  /\ t.rx = s.rx /\ t.closeOnEmpty = s.closeOnEmpty /\ t.retx = s.retx /\ t.out = s.out

\* ReceivedAck: the options have been read,
Noted(s, g) == LET board == ReadOptions(s, g) IN Check(board, s.tx.head \notin board.tx.sacked)

\* ... what is acknowledged has been dropped,
Off(t, ack) == [t EXCEPT !.tx = DiscardUpTo(@, ack)]

\* ... the data of the segment have been stored,
Stored(t, g) == IF g.len > 0 THEN ReceivedData(t, g) ELSE t

\* ... and the congestion control has been told.
Told(s, g) == ProcessAck(Off(Noted(s, g), g.ack), g.ack, Noted(s, g).tx.sacked # s.tx.sacked, s.tx.head)

\* ReceivedAck, part by part
LEMMA ReceivedAckIs ==
  ASSUME NEW s, NEW g
  PROVE  ReceivedAck(s, g)
         = IF g.ack < s.tx.head THEN Stored(Noted(s, g), g)
           ELSE SendPendingData(Stored([Told(s, g) EXCEPT !.cwnd = Told(s, g).window], g))
<1>. DEFINE Congest(t) == [t EXCEPT !.cwnd = t.window]
            Ack(t) == ProcessAck(Off(t, g.ack), g.ack, t.tx.sacked # s.tx.sacked, s.tx.head)
            Store(t) == IF g.len > 0 THEN ReceivedData(t, g) ELSE t
            Ans(t) == SendPendingData(CHOOSE after \in {Store(u) : u \in {Congest(Ack(t))}} : TRUE)
            R(t) == IF g.ack < s.tx.head THEN Store(t) ELSE Ans(t)
            n == Noted(s, g)
<1>1. ReceivedAck(s, g) = CHOOSE after \in {R(t) : t \in {n}} : TRUE
  BY Zenon DEF ReceivedAck, Then, Noted, Off
<1>2. ReceivedAck(s, g) = R(n)
  <2>. HIDE DEF R, n
  <2>. QED  BY <1>1
<1>3. Ans(n) = SendPendingData(Store(Congest(Ack(n))))
  <2>. HIDE DEF Store, Congest, Ack, n
  <2>. QED  OBVIOUS
<1>4. Store(n) = Stored(n, g) /\ Store(Congest(Ack(n))) = Stored(Congest(Ack(n)), g)
  BY DEF Stored
<1>5. Ack(n) = Told(s, g)
  BY DEF Told
<1>6. Congest(Ack(n)) = [Told(s, g) EXCEPT !.cwnd = Told(s, g).window]
  BY <1>5
<1>7. R(n) = IF g.ack < s.tx.head THEN Store(n) ELSE Ans(n)
  OBVIOUS
<1>. HIDE DEF R, Ans, Store, Congest, Ack, n
<1>. QED  BY <1>2, <1>3, <1>4, <1>6, <1>7 DEF n

\* What reading the options changes
LEMMA NotedIs ==
  ASSUME NEW s, NEW g, Shaped(s), Board(s.tx), s.tx.head \notin g.sack
  PROVE  LET t == Noted(s, g)
         IN  /\ Retained(s, t) /\ Board(t.tx)
             /\ t.tx.head = s.tx.head /\ t.tx.end = s.tx.end /\ t.tx.tail = s.tx.tail
             /\ t.tx.sacked = s.tx.sacked \cup (g.sack \cap Sent(s.tx))
<1>. DEFINE tx == Update(s.tx, g.sack)
            u  == [s EXCEPT !.tx = Update(@, g.sack)]
            t  == Check(u, s.tx.head \notin u.tx.sacked)
<1>1. /\ Board(tx) /\ tx.head = s.tx.head /\ tx.end = s.tx.end /\ tx.tail = s.tx.tail
      /\ tx.sacked = s.tx.sacked \cup (g.sack \cap Sent(s.tx))
  BY UpdateIs
<1>2. Noted(s, g) = t
  BY DEF Noted, ReadOptions
<1>3. /\ DOMAIN u = DOMAIN s /\ u.tx = tx /\ u.state = s.state /\ u.ep = s.ep /\ u.cong = s.cong
      /\ u.next = s.next /\ u.high = s.high /\ u.highAck = s.highAck /\ u.recover = s.recover /\ u.rx = s.rx
      /\ u.closeOnEmpty = s.closeOnEmpty /\ u.retx = s.retx /\ u.out = s.out /\ Sane(u)
  BY DEF Shaped, Sane
<1>. HIDE DEF tx, u
<1>4. Shaped(u)
  BY <1>1, <1>3 DEF Shaped, Sane, Board
<1>5. Kept(u, t) /\ t.out = u.out
  <2>1. s.tx.head \notin u.tx.sacked
    BY <1>1, <1>3 DEF Board
  <2>2. t = u
    BY <2>1 DEF Check
  <2>. QED  BY <1>4, <2>2 DEF Kept
<1>. HIDE DEF t
<1>. QED  BY <1>1, <1>2, <1>3, <1>5 DEF Kept, Retained

\* What dropping the acknowledged data changes
LEMMA OffIs ==
  ASSUME NEW s, Shaped(s), Board(s.tx), NEW ack \in Nat, s.tx.head <= ack, ack \notin s.tx.sacked
  PROVE  LET t == Off(s, ack)
         IN  /\ Retained(s, t) /\ Board(t.tx) /\ t.tx.head = ack
             /\ t.tx.end = (IF ack >= s.tx.end THEN ack ELSE s.tx.end)
             /\ t.tx.tail = (IF ack >= s.tx.tail THEN ack ELSE s.tx.tail)
             /\ t.tx.sacked = {n \in s.tx.sacked : n >= ack}
<1>. DEFINE tx == DiscardUpTo(s.tx, ack)
            t  == Off(s, ack)
<1>1. /\ Board(tx) /\ tx.head = ack
      /\ tx.end = (IF ack >= s.tx.end THEN ack ELSE s.tx.end)
      /\ tx.tail = (IF ack >= s.tx.tail THEN ack ELSE s.tx.tail)
      /\ tx.sacked = {n \in s.tx.sacked : n >= ack}
  BY DiscardIs
<1>2. /\ DOMAIN t = DOMAIN s /\ t.tx = tx /\ t.state = s.state /\ t.ep = s.ep /\ t.cong = s.cong
      /\ t.next = s.next /\ t.high = s.high /\ t.highAck = s.highAck /\ t.recover = s.recover /\ t.rx = s.rx
      /\ t.closeOnEmpty = s.closeOnEmpty /\ t.retx = s.retx /\ t.out = s.out /\ Sane(t)
  BY DEF Shaped, Sane, Off
<1>. HIDE DEF tx, t
<1>3. Shaped(t)
  BY <1>1, <1>2 DEF Shaped, Sane, Board
<1>. QED  BY <1>1, <1>2, <1>3 DEF Retained, t

\* What ReceivedAck takes from a segment: its acknowledgment and its blocks, nothing else
Heard(s, t, g, w, c) ==
  /\ Does(s, t, w, c)
  /\ t.tx.head \in {s.tx.head, g.ack}
  /\ t.tx.sacked \subseteq s.tx.sacked \cup g.sack
  /\ t.rx = s.rx

\* Changing the buffer of transmission alone says nothing.
LEMMA RetainedDoes ==
  ASSUME NEW s, NEW t, NEW w \in Nat, NEW c \in BOOLEAN, s.high \in Nat, Retained(s, t)
  PROVE  Does(s, t, w, c)
<1>1. Onward(s, t, w, c) /\ t.high \in Nat /\ t.out = s.out
  BY DEF Retained, Onward, FinSent
<1>. QED  BY <1>1, Silent

\* The congestion window keeps the socket.
LEMMA CongestIs ==
  ASSUME NEW s, Shaped(s)
  PROVE  LET t == [s EXCEPT !.cwnd = s.window] IN Kept(s, t) /\ t.out = s.out
BY DEF Kept, Shaped, Sane

\* An acknowledgment of data, or an old one
LEMMA ReceivedAckOpen ==
  ASSUME NEW s, NEW g, NEW w \in Nat, NEW c \in BOOLEAN, Mid(s, w, c), Armed(s),
         s.tx.head = s.tx.tail => s.next = s.tx.head,
         g.len = 0, g.ack \in Nat, g.ack <= s.high,
         IF g.ack < s.tx.head THEN s.highAck <= s.tx.head ELSE s.highAck = g.ack,
         s.tx.head \notin g.sack, g.ack \notin s.tx.sacked, \A n \in g.sack : n > g.ack
  PROVE  LET t == ReceivedAck(s, g) IN Open(t, w, c) /\ Heard(s, t, g, w, c)
<1>. DEFINE u == Noted(s, g)
            p == Off(u, g.ack)
            dup == u.tx.sacked # s.tx.sacked
            q == Told(s, g)
            r == [q EXCEPT !.cwnd = q.window]
            t == ReceivedAck(s, g)
<1>1. /\ Retained(s, u) /\ Board(u.tx)
      /\ u.tx.head = s.tx.head /\ u.tx.end = s.tx.end /\ u.tx.tail = s.tx.tail
      /\ u.tx.sacked = s.tx.sacked \cup (g.sack \cap Sent(s.tx))
  BY NotedIs DEF Mid
<1>2. ~(g.len > 0)
  OBVIOUS
<1>3. t = IF g.ack < s.tx.head THEN u ELSE SendPendingData(r)
  BY <1>2, ReceivedAckIs DEF Stored
<1>4. s.high \in Nat
  BY HighIsNat
<1>5. CASE g.ack < s.tx.head
  <2>1. Mid(u, w, c) /\ Armed(u)
    BY <1>1 DEF Retained, Mid, Armed
  <2>2. Open(u, w, c)
    BY <1>1, <1>5, <2>1 DEF Retained, Open
  <2>3. Heard(s, u, g, w, c)
    BY <1>1, <1>4, RetainedDoes DEF Heard, Retained
  <2>. QED  BY <1>3, <1>5, <2>2, <2>3
<1>6. CASE ~(g.ack < s.tx.head)
  <2>1. /\ s.tx.head \in Nat /\ s.tx.end \in Nat /\ s.tx.tail \in Nat /\ s.tx.head <= s.tx.end
        /\ s.tx.end <= s.tx.tail /\ s.high = s.tx.end /\ s.tx.head <= g.ack /\ g.ack <= s.tx.end
        /\ s.highAck = g.ack
    BY <1>6 DEF Mid, Board
  <2>2. g.ack \notin u.tx.sacked
    BY <1>1
  <2>3. /\ Retained(u, p) /\ Board(p.tx) /\ p.tx.head = g.ack
        /\ p.tx.end = (IF g.ack >= u.tx.end THEN g.ack ELSE u.tx.end)
        /\ p.tx.tail = (IF g.ack >= u.tx.tail THEN g.ack ELSE u.tx.tail)
        /\ p.tx.sacked = {n \in u.tx.sacked : n >= g.ack}
    <3>1. Shaped(u) /\ u.tx.head <= g.ack
      BY <1>1, <2>1 DEF Retained
    <3>. HIDE DEF u, p
    <3>. QED  BY <1>1, <2>2, <3>1, OffIs DEF p
  <2>4. q = ProcessAck(p, g.ack, dup, s.tx.head)
    BY DEF Told
  <2>. HIDE DEF u, p
  <2>5. p.tx.end = s.tx.end /\ p.tx.tail = s.tx.tail /\ p.tx.sacked \subseteq s.tx.sacked \cup g.sack
    BY <1>1, <2>1, <2>3
  <2>6. Retained(s, p)
    BY <1>1, <2>3 DEF Retained
  <2>7. s.tx.head = s.tx.tail => g.ack = s.tx.head
    BY <2>1
  <2>8. Mid(p, w, c)
    BY <2>1, <2>3, <2>5, <2>6, <2>7 DEF Retained, Mid
  <2>9. Armed(p)
    BY <2>1, <2>3, <2>5, <2>6 DEF Retained, Armed
  <2>10. dup => p.tx.head < p.tx.end
    <3>1. ASSUME dup PROVE p.tx.head < p.tx.end
      <4>1. PICK n \in g.sack : n \in Sent(s.tx)
        BY <1>1, <3>1
      <4>. QED  BY <2>1, <2>3, <2>5, <4>1 DEF Sent
    <3>. QED  BY <3>1
  <2>11. p.tx.head = s.tx.head /\ p.tx.head = p.tx.tail => p.next = p.tx.head
    BY <2>5, <2>6 DEF Retained
  <2>12. p.highAck = p.tx.head
    BY <2>1, <2>3, <2>6 DEF Retained
  <2>13. dup \in BOOLEAN
    OBVIOUS
  <2>14. After(p, q, w, c)
    <3>. HIDE DEF dup, q
    <3>. QED  BY <2>3, <2>4, <2>8, <2>9, <2>10, <2>11, <2>12, <2>13, ProcessAckOpen
  <2>. HIDE DEF q
  <2>15. p.high \in Nat
    BY <1>4, <2>6 DEF Retained
  <2>16. After(p, r, w, c)
    <3>1. Kept(q, r) /\ r.out = q.out
      BY <2>14, CongestIs DEF After, Open, Mid
    <3>. HIDE DEF r
    <3>. QED  BY <2>14, <2>15, <3>1, KeptAfter
  <2>. HIDE DEF r
  <2>17. After(r, SendPendingData(r), w, c)
    BY <2>16, SendPendingOpen DEF After
  <2>18. t = SendPendingData(r)
    BY <1>3, <1>6
  <2>. HIDE DEF t
  <2>19. Does(s, t, w, c)
    <3>1. Does(s, p, w, c)
      BY <1>4, <2>6, RetainedDoes
    <3>2. r.high \in Nat /\ t.high \in Nat
      BY <2>16, <2>17, <2>18, HighIsNat DEF After, Open
    <3>3. Does(s, r, w, c)
      BY <1>4, <2>15, <2>16, <3>1, <3>2, DoesThrough DEF After
    <3>. QED  BY <1>4, <2>17, <2>18, <3>2, <3>3, DoesThrough DEF After
  <2>20. t.tx.head = g.ack /\ t.tx.sacked = p.tx.sacked /\ t.rx = s.rx
    BY <2>3, <2>6, <2>16, <2>17, <2>18 DEF After, Retained
  <2>21. Heard(s, t, g, w, c)
    BY <2>5, <2>19, <2>20 DEF Heard
  <2>22. Open(t, w, c)
    BY <2>17, <2>18 DEF After
  <2>. QED  BY <2>21, <2>22 DEF t
<1>. QED  BY <1>5, <1>6

\* The FIN has been acknowledged.
Acked(s, w, c) ==
  /\ Shaped(s) /\ s.ep = TRUE /\ c
  /\ s.state \in {"FIN_WAIT_1", "FIN_WAIT_2", "TIME_WAIT"}
  /\ Board(s.tx) /\ s.tx.head = w + 2 /\ s.tx.end = w + 2 /\ s.tx.tail = w + 2
  /\ s.high = w + 1 /\ s.next \in 0 .. w + 2 /\ s.highAck \in 0 .. w + 2 /\ s.recover \in 0 .. w + 1
  /\ s.retx \in {{}, {"RTO"}}
  /\ NoFin(s.rx) \/ GotFin(s.rx)

\* A call that keeps such a socket
LEMMA KeptAcked ==
  ASSUME NEW s, NEW t, NEW w, NEW c, Acked(s, w, c), Kept(s, t)
  PROVE  Acked(t, w, c)
BY DEF Acked, Kept

\* ... has nothing to send.
LEMMA AckedPending ==
  ASSUME NEW s, NEW w \in Nat, NEW c \in BOOLEAN, Acked(s, w, c)
  PROVE  LET t == SendPendingData(s) IN Kept(s, t) /\ t.out = s.out
<1>1. TxSize(s.tx) = 0 /\ Shaped(s)
  BY DEF Acked, TxSize
<1>. QED  BY <1>1, SendPendingIdle

\* The acknowledgment of the FIN
LEMMA ReceivedAckOfFin ==
  ASSUME NEW s, NEW g, NEW w \in Nat, NEW c \in BOOLEAN, Mid(s, w, c), s.state = "FIN_WAIT_1",
         g.len = 0, g.ack = w + 2, s.highAck = g.ack,
         s.tx.head \notin g.sack, \A n \in g.sack : n \in Nat /\ n > g.ack
  PROVE  LET t == ReceivedAck(s, g) IN Acked(t, w, c) /\ t.state = s.state /\ Heard(s, t, g, w, c)
<1>. DEFINE u == Noted(s, g)
            p == Off(u, g.ack)
            heard == [p EXCEPT !.dupAcks = 0]
            ended == [heard EXCEPT
              !.cong          = IF @ = "RECOVERY" \/ @ = "LOSS" \/ @ = "DISORDER" THEN "OPEN" ELSE @,
              !.firstPartial  = IF heard.cong \in {"RECOVERY", "LOSS"} THEN TRUE ELSE @,
              !.dupAcks       = IF heard.cong = "RECOVERY" THEN 0 ELSE @,
              !.recoverActive = @ /\ g.ack < heard.recover]
            q == Told(s, g)
            r == [q EXCEPT !.cwnd = q.window]
            t == ReceivedAck(s, g)
<1>1. /\ Retained(s, u) /\ Board(u.tx)
      /\ u.tx.head = s.tx.head /\ u.tx.end = s.tx.end /\ u.tx.tail = s.tx.tail
      /\ u.tx.sacked = s.tx.sacked \cup (g.sack \cap Sent(s.tx))
  BY NotedIs DEF Mid
<1>2. ~(g.len > 0)
  OBVIOUS
<1>3. t = IF g.ack < s.tx.head THEN u ELSE SendPendingData(r)
  BY <1>2, ReceivedAckIs DEF Stored
<1>4. /\ s.tx.head \in Nat /\ s.tx.head <= w + 1 /\ s.tx.end = w + 1 /\ s.tx.tail = w + 1 /\ s.high = w + 1
      /\ s.recover \in Nat /\ s.recover <= w + 1 /\ c
  BY DEF Mid, Board
<1>5. g.sack \cap Sent(s.tx) = {}
  BY <1>4 DEF Sent
<1>6. ~(g.ack < s.tx.head) /\ g.ack # s.tx.head /\ u.tx.sacked = s.tx.sacked /\ g.ack \notin u.tx.sacked
  BY <1>1, <1>4, <1>5 DEF Board
<1>7. /\ Retained(u, p) /\ Board(p.tx) /\ p.tx.head = w + 2 /\ p.tx.end = w + 2 /\ p.tx.tail = w + 2
  <2>1. Shaped(u) /\ u.tx.head <= g.ack /\ g.ack \in Nat
    BY <1>1, <1>4 DEF Retained
  <2>2. /\ Retained(u, p) /\ Board(p.tx) /\ p.tx.head = g.ack
        /\ p.tx.end = (IF g.ack >= u.tx.end THEN g.ack ELSE u.tx.end)
        /\ p.tx.tail = (IF g.ack >= u.tx.tail THEN g.ack ELSE u.tx.tail)
    <3>. HIDE DEF u, p
    <3>. QED  BY <1>1, <1>6, <2>1, OffIs DEF p
  <2>. HIDE DEF u, p
  <2>. QED  BY <1>1, <1>4, <2>2
<1>8. q = ProcessAck(p, g.ack, FALSE, s.tx.head)
  <2>1. (u.tx.sacked # s.tx.sacked) = FALSE
    BY <1>6
  <2>. QED  BY <2>1 DEF Told
<1>. HIDE DEF u, p
<1>9. Retained(s, p)
  BY <1>1, <1>7 DEF Retained
<1>10. Kept(p, heard) /\ heard.out = p.out /\ heard.dupAcks = 0 /\ heard.recover = s.recover
  BY <1>9, RetxThreshAssumption DEF Retained, Kept, Shaped, Sane, Sound
<1>. HIDE DEF heard
<1>11. q = FullAck(heard, g.ack, FALSE)
  <2>. DEFINE P(h) == IF g.ack = s.tx.head THEN [h EXCEPT !.next = IF g.ack > p.high THEN g.ack ELSE @]
                      ELSE IF g.ack < h.recover /\ h.cong = "RECOVERY" THEN PartialAck(h, g.ack)
                      ELSE IF g.ack < h.recover /\ h.cong = "LOSS" THEN NewAck(h, g.ack, TRUE)
                      ELSE FullAck(h, g.ack, FALSE)
              first == IF FALSE THEN DupAck(p) ELSE IF g.ack = s.tx.head THEN p ELSE heard
  <2>1. q = CHOOSE after \in {P(h) : h \in {first}} : TRUE
    BY Zenon, <1>8 DEF ProcessAck, Then, heard
  <2>2. first = heard
    BY <1>6
  <2>3. q = P(heard)
    <3>. HIDE DEF P, first
    <3>. QED  BY <2>1, <2>2
  <2>4. ~(g.ack < heard.recover)
    BY <1>4, <1>9, <1>10 DEF Retained, Kept
  <2>. QED  BY <1>6, <2>3, <2>4
<1>12. FullAck(heard, g.ack, FALSE) = IF ended.cong = "OPEN" THEN NewAck(ended, g.ack, TRUE) ELSE ended
  <2>. DEFINE ended2 == [heard EXCEPT
              !.cong          = IF @ = "DISORDER" /\ FALSE THEN @
                                ELSE IF @ = "RECOVERY" \/ @ = "LOSS" \/ @ = "DISORDER" THEN "OPEN" ELSE @,
              !.firstPartial  = IF heard.cong \in {"RECOVERY", "LOSS"} THEN TRUE ELSE @,
              !.dupAcks       = IF heard.cong = "RECOVERY" THEN 0 ELSE @,
              !.recoverActive = @ /\ g.ack < heard.recover]
  <2>1. FullAck(heard, g.ack, FALSE)
        = CHOOSE after \in {IF e.cong = "OPEN" THEN NewAck(e, g.ack, TRUE) ELSE e : e \in {ended2}} : TRUE
    BY Zenon DEF FullAck, Then
  <2>2. ended2 = ended
    BY Zenon
  <2>. HIDE DEF ended, ended2
  <2>. QED  BY <2>1, <2>2
<1>13. /\ DOMAIN ended = DOMAIN heard
       /\ ended.next = heard.next /\ ended.state = heard.state /\ ended.ep = heard.ep
       /\ ended.high = heard.high /\ ended.highAck = heard.highAck /\ ended.tx = heard.tx
       /\ ended.rx = heard.rx /\ ended.retx = heard.retx /\ ended.out = heard.out
       /\ ended.recover = heard.recover
       /\ ended.cong = IF heard.cong = "RECOVERY" \/ heard.cong = "LOSS" \/ heard.cong = "DISORDER" THEN "OPEN"
                       ELSE heard.cong
       /\ ended.dupAcks = (IF heard.cong = "RECOVERY" THEN 0 ELSE heard.dupAcks)
       /\ ended.recoverActive = (heard.recoverActive /\ g.ack < heard.recover)
       /\ ended.broken = heard.broken /\ ended.syns = heard.syns /\ ended.retries = heard.retries
       /\ ended.timers = heard.timers /\ ended.notice = heard.notice
  BY <1>10 DEF Kept, Shaped
<1>. HIDE DEF ended
<1>14. ended.cong = "OPEN"
  BY <1>9, <1>10, <1>13 DEF Retained, Kept, Mid, Congs
<1>27. Sane(ended)
  <2>1. ~(g.ack < heard.recover)
    BY <1>4, <1>10
  <2>2. ended.recoverActive = FALSE /\ ended.dupAcks = 0
    BY <1>10, <1>13, <2>1
  <2>. QED  BY <1>10, <1>13, <1>14, <2>2 DEF Kept, Shaped, Sane, Sound
<1>15. q = NewAck(ended, g.ack, TRUE)
  BY <1>11, <1>12, <1>14
<1>. HIDE DEF q
<1>16. /\ DOMAIN q = DOMAIN ended
       /\ q.next = Max({ended.next, g.ack}) /\ q.state = ended.state /\ q.ep = ended.ep
       /\ q.high = ended.high /\ q.highAck = ended.highAck /\ q.recover = ended.recover /\ q.tx = ended.tx
       /\ q.rx = ended.rx /\ q.out = ended.out
       /\ q.retx = (IF TxSize(ended.tx) = 0 /\ ended.state \notin {"FIN_WAIT_1", "CLOSING"} THEN {}
                   ELSE IF ended.state # "SYN_RCVD" /\ TRUE THEN {"RTO"} ELSE ended.retx)
       /\ q.cong = ended.cong /\ q.dupAcks = ended.dupAcks /\ q.recoverActive = ended.recoverActive
       /\ q.broken = ended.broken /\ q.syns = ended.syns /\ q.retries = DataRetries
       /\ q.timers = ended.timers /\ q.notice = ended.notice
  BY <1>10, <1>13, <1>15 DEF NewAck, Kept, Shaped
<1>28. Sane(q)
  BY <1>16, <1>27, TcpSocketAssumption DEF Sane, Sound
<1>17. q.next \in 0 .. w + 2 /\ q.retx = {"RTO"}
  <2>1. ended.next \in Nat /\ ended.next <= w + 1 /\ ended.state = "FIN_WAIT_1"
    BY <1>4, <1>9, <1>10, <1>13 DEF Retained, Kept, Mid, Board
  <2>2. q.retx = {"RTO"}
    BY <1>16, <2>1
  <2>3. q.next = IF ended.next >= g.ack THEN ended.next ELSE g.ack
    BY <1>16, <2>1, MaxOfTwo
  <2>. QED  BY <2>1, <2>2, <2>3
<1>18. /\ Shaped(q) /\ q.tx = p.tx /\ q.rx = s.rx /\ q.out = s.out /\ q.state = s.state /\ q.ep = s.ep
       /\ q.high = s.high /\ q.highAck = s.highAck /\ q.recover = s.recover
  BY <1>9, <1>10, <1>13, <1>16, <1>28 DEF Retained, Kept, Shaped
<1>19. Acked(q, w, c)
  BY <1>4, <1>7, <1>17, <1>18 DEF Acked, Mid
<1>20. Kept(q, r) /\ r.out = q.out
  BY <1>18, CongestIs
<1>. HIDE DEF r
<1>21. Acked(r, w, c)
  BY <1>19, <1>20, KeptAcked
<1>22. Kept(r, t) /\ t.out = r.out
  BY <1>3, <1>6, <1>21, AckedPending
<1>. HIDE DEF t
<1>23. Acked(t, w, c)
  BY <1>21, <1>22, KeptAcked
<1>24. t.state = s.state /\ t.tx = p.tx /\ t.rx = s.rx /\ t.out = s.out /\ t.high = s.high /\ t.ep = s.ep
  BY <1>18, <1>20, <1>22 DEF Kept
<1>25. Does(s, t, w, c)
  <2>1. Onward(s, t, w, c) /\ s.high \in Nat /\ t.high \in Nat
    BY <1>4, <1>24 DEF Onward, FinSent
  <2>. QED  BY <1>24, <2>1, Silent
<1>26. t.tx.sacked = {}
  BY <1>7, <1>24 DEF Board
<1>. QED  BY <1>7, <1>23, <1>24, <1>25, <1>26 DEF Heard, t

\* An acknowledgment after that of the FIN
LEMMA ReceivedAckAcked ==
  ASSUME NEW s, NEW g, NEW w \in Nat, NEW c \in BOOLEAN, Acked(s, w, c),
         g.len = 0, g.ack \in Nat, g.ack <= w + 2, s.tx.head \notin g.sack
  PROVE  LET t == ReceivedAck(s, g) IN Acked(t, w, c) /\ t.state = s.state /\ Heard(s, t, g, w, c)
<1>. DEFINE u == Noted(s, g)
            p == Off(u, g.ack)
            q == Told(s, g)
            r == [q EXCEPT !.cwnd = q.window]
            t == ReceivedAck(s, g)
<1>1. /\ Retained(s, u) /\ Board(u.tx)
      /\ u.tx.head = s.tx.head /\ u.tx.end = s.tx.end /\ u.tx.tail = s.tx.tail
      /\ u.tx.sacked = s.tx.sacked \cup (g.sack \cap Sent(s.tx))
  BY NotedIs DEF Acked
<1>2. ~(g.len > 0)
  OBVIOUS
<1>3. t = IF g.ack < s.tx.head THEN u ELSE SendPendingData(r)
  BY <1>2, ReceivedAckIs DEF Stored
<1>4. s.high \in Nat
  BY DEF Acked
<1>5. Sent(s.tx) = {} /\ s.tx.sacked = {} /\ u.tx.sacked = {}
  BY <1>1 DEF Acked, Board, Sent
<1>6. Acked(u, w, c) /\ u.state = s.state
  BY <1>1 DEF Retained, Acked
<1>7. CASE g.ack < s.tx.head
  <2>1. Heard(s, u, g, w, c)
    BY <1>1, <1>4, <1>5, RetainedDoes DEF Heard, Retained
  <2>. QED  BY <1>3, <1>6, <1>7, <2>1
<1>8. CASE ~(g.ack < s.tx.head)
  <2>1. g.ack = s.tx.head
    BY <1>8 DEF Acked
  <2>2. q = ProcessAck(p, g.ack, FALSE, s.tx.head)
    <3>1. (u.tx.sacked # s.tx.sacked) = FALSE
      BY <1>5
    <3>. QED  BY <3>1 DEF Told
  <2>3. /\ Retained(u, p) /\ Board(p.tx) /\ p.tx.head = g.ack
        /\ p.tx.end = (IF g.ack >= u.tx.end THEN g.ack ELSE u.tx.end)
        /\ p.tx.tail = (IF g.ack >= u.tx.tail THEN g.ack ELSE u.tx.tail)
        /\ p.tx.sacked = {n \in u.tx.sacked : n >= g.ack}
    <3>1. Shaped(u) /\ u.tx.head <= g.ack /\ g.ack \notin u.tx.sacked
      BY <1>1, <1>5, <2>1 DEF Retained, Board
    <3>. HIDE DEF u, p
    <3>. QED  BY <1>1, <3>1, OffIs DEF p
  <2>. HIDE DEF u, p, t
  <2>4. Acked(p, w, c) /\ p.state = s.state /\ p.tx.sacked = {} /\ p.tx.head = s.tx.head /\ p.rx = s.rx
        /\ p.out = s.out /\ p.high = s.high
    BY <1>1, <1>5, <1>6, <2>1, <2>3 DEF Retained, Acked
  <2>. DEFINE moved == [p EXCEPT !.next = IF g.ack > p.high THEN g.ack ELSE @]
  <2>5. q = moved
    <3>. DEFINE P(h) == IF g.ack = s.tx.head THEN [h EXCEPT !.next = IF g.ack > p.high THEN g.ack ELSE @]
                      ELSE IF g.ack < h.recover /\ h.cong = "RECOVERY" THEN PartialAck(h, g.ack)
                      ELSE IF g.ack < h.recover /\ h.cong = "LOSS" THEN NewAck(h, g.ack, TRUE)
                      ELSE FullAck(h, g.ack, FALSE)
                first == IF FALSE THEN DupAck(p) ELSE IF g.ack = s.tx.head THEN p ELSE [p EXCEPT !.dupAcks = 0]
    <3>1. q = CHOOSE after \in {P(h) : h \in {first}} : TRUE
      BY Zenon, <2>2 DEF ProcessAck, Then
    <3>2. first = p
      BY <2>1
    <3>3. q = P(p)
      <4>. HIDE DEF P, first
      <4>. QED  BY <3>1, <3>2
    <3>. QED  BY <2>1, <3>3
  <2>. HIDE DEF q
  <2>6. /\ DOMAIN moved = DOMAIN p /\ moved.next \in 0 .. w + 2 /\ moved.state = p.state /\ moved.ep = p.ep
        /\ moved.high = p.high /\ moved.highAck = p.highAck /\ moved.recover = p.recover /\ moved.tx = p.tx
        /\ moved.rx = p.rx /\ moved.retx = p.retx /\ moved.out = p.out /\ Sane(moved)
    <3>1. p.next \in 0 .. w + 2
          /\ {"next", "recover", "state", "ep", "high", "highAck", "tx", "rx", "retx", "out"} \subseteq DOMAIN p
      BY <2>4 DEF Acked, Shaped, Sane
    <3>2. (IF g.ack > p.high THEN g.ack ELSE p.next) \in 0 .. w + 2
      BY <3>1
    <3>3. Sane(moved)
      BY <2>4 DEF Acked, Shaped, Sane
    <3>. QED  BY <3>1, <3>2, <3>3
  <2>. HIDE DEF moved
  <2>7. Acked(q, w, c)
    BY <2>4, <2>5, <2>6 DEF Acked, Shaped
  <2>8. Kept(q, r) /\ r.out = q.out
    BY <2>7, CongestIs DEF Acked
  <2>. HIDE DEF r
  <2>9. Acked(r, w, c)
    BY <2>7, <2>8, KeptAcked
  <2>10. Kept(r, t) /\ t.out = r.out
    BY <1>3, <1>8, <2>9, AckedPending
  <2>11. Acked(t, w, c)
    BY <2>9, <2>10, KeptAcked
  <2>12. t.state = s.state /\ t.tx = p.tx /\ t.rx = s.rx /\ t.out = s.out /\ t.high = s.high
    BY <2>4, <2>5, <2>6, <2>8, <2>10 DEF Kept
  <2>13. Does(s, t, w, c)
    <3>1. Onward(s, t, w, c) /\ t.high \in Nat
      BY <1>4, <2>11, <2>12 DEF Onward, FinSent, Acked
    <3>. QED  BY <1>4, <2>12, <3>1, Silent
  <2>. QED  BY <2>4, <2>11, <2>12, <2>13 DEF Heard, t
<1>. QED  BY <1>7, <1>8

-----------------------------------------------------------------------------
\* The sender in all its states.

\* The sender's socket before it is connected: nothing sent but SYNs
Fresh(s) ==
  /\ Shaped(s) /\ s.ep = TRUE /\ s.state \in {"CLOSED", "SYN_SENT"} /\ s.closeOnEmpty = FALSE
  /\ s.next = 0 /\ s.high = 0 /\ s.highAck \in 0 .. 1 /\ s.recover = 0 /\ s.cong = "OPEN"
  /\ s.tx = EmptyTx /\ s.rx = EmptyRx
  /\ s.retx \in {{}, {"SYN"}}

\* The sender's socket when its FIN has been acknowledged; in TIME_WAIT it has the sink's.
Done(s, w, c) ==
  /\ Acked(s, w, c) /\ s.state # "FIN_WAIT_1"
  /\ IF s.state = "TIME_WAIT" THEN GotFin(s.rx) ELSE NoFin(s.rx)

\* The numbers of the sender, in all its states: data, SYN and FIN count.
Bounded(s, w, c) ==
  /\ Board(s.tx) /\ s.tx.tail <= w + 2 /\ (s.tx.tail = w + 2 => c)
  /\ s.next \in 0 .. w + 2 /\ s.highAck \in 0 .. w + 2 /\ s.recover \in 0 .. w + 2
  /\ s.rx.next \in 0 .. 2 /\ s.rx.fin \in 0 .. 1 /\ s.rx.read = 0

\* The sender's socket without an end point
Dead(s, w, c) == Shaped(s) /\ s.ep = FALSE /\ s.retx = {} /\ Bounded(s, w, c)

\* The sender, between two steps, when w segments have been written and the application
\* has closed (c) or not
Sender(s, w, c) ==
  /\ s.high \in Nat /\ s.high <= w + 1
  /\ (Fresh(s) /\ w = 0) \/ Open(s, w, c) \/ Done(s, w, c) \/ Dead(s, w, c)

\* A segment that the sink has sent, and what it may do
Comes(g, s, w, c, o) ==
  /\ g.len = 0 /\ g.ack \in Nat /\ \A n \in g.sack : n \in Nat /\ n > g.ack
  /\ \/ g.flags = {"SYN", "ACK"} /\ g.seq = 0 /\ g.ack = 1
     \/ g.flags = {"ACK"}
     \/ g.flags = {"FIN", "ACK"} /\ g.seq = 1 /\ g.ack = w + 2 /\ FinSent(s, w, c) /\ o
     \/ g.flags = {"RST"}
  /\ g.ack <= s.high \/ g.ack <= 1 \/ (g.ack = w + 2 /\ FinSent(s, w, c))
  /\ s.tx.head \notin g.sack /\ g.ack \notin s.tx.sacked

\* How the sender handles the segment g, when the sink is over (o) or not
Answers(s, t, g, w, c, o) ==
  /\ Sender(t, w, c) /\ Does(s, t, w, c)
  /\ t.tx.head \in {s.tx.head, g.ack}
  /\ t.tx.sacked \subseteq s.tx.sacked \cup g.sack
  /\ t.rx.next = 2 => s.rx.next = 2 \/ o

\* What holds of the sender's socket in every case
LEMMA SenderIs ==
  ASSUME NEW s, NEW w \in Nat, NEW c \in BOOLEAN, Sender(s, w, c)
  PROVE  /\ Shaped(s) /\ s.ep \in BOOLEAN /\ Ended(s) /\ s.high \in Nat /\ Bounded(s, w, c)
         /\ s.tx.head \in Nat /\ s.tx.tail \in Nat /\ s.tx.head <= s.tx.tail /\ s.rx.next \in 0 .. 2
<1>. s.high \in Nat
  BY DEF Sender
<1>1. CASE Fresh(s)
  <2>1. Shaped(s) /\ s.ep = TRUE /\ s.tx = EmptyTx /\ s.rx = EmptyRx
    BY <1>1 DEF Fresh
  <2>2. Ended(s) /\ s.ep \in BOOLEAN
    BY Zenon, <2>1 DEF Ended
  <2>3. Board(s.tx) /\ s.tx.tail = 0
    BY <2>1 DEF EmptyTx, Board, Sent
  <2>4. Bounded(s, w, c)
    BY <1>1, <2>1, <2>3 DEF Bounded, Fresh, EmptyRx
  <2>. QED  BY <2>1, <2>2, <2>4 DEF EmptyTx, EmptyRx
<1>2. CASE Open(s, w, c)
  <2>1. Shaped(s) /\ s.ep = TRUE /\ Board(s.tx) /\ s.rx.next = 1
    BY <1>2 DEF Open, Mid, NoFin
  <2>2. Ended(s) /\ s.ep \in BOOLEAN
    BY Zenon, <2>1 DEF Ended
  <2>3. Bounded(s, w, c)
    BY <1>2 DEF Open, Mid, NoFin, Bounded, Board
  <2>. QED  BY <2>1, <2>2, <2>3 DEF Board
<1>3. CASE Done(s, w, c)
  <2>1. Shaped(s) /\ s.ep = TRUE /\ Board(s.tx) /\ s.rx.next \in {1, 2}
    BY <1>3 DEF Done, Acked, NoFin, GotFin
  <2>2. Ended(s) /\ s.ep \in BOOLEAN
    BY Zenon, <2>1 DEF Ended
  <2>3. Bounded(s, w, c)
    BY <1>3, <2>1 DEF Done, Acked, NoFin, GotFin, Bounded
  <2>. QED  BY <2>1, <2>2, <2>3 DEF Board
<1>4. CASE Dead(s, w, c)
  <2>1. Shaped(s) /\ s.ep = FALSE /\ s.retx = {} /\ s.tx.head \in Nat /\ s.tx.tail \in Nat
        /\ s.tx.head <= s.tx.tail /\ s.rx.next \in 0 .. 2 /\ Bounded(s, w, c)
    BY <1>4 DEF Dead, Bounded, Board
  <2>. QED  BY <2>1 DEF Ended
<1>. QED  BY <1>1, <1>2, <1>3, <1>4 DEF Sender

\* A connected socket is one of the sender's.
LEMMA OpenSends ==
  ASSUME NEW s, NEW w \in Nat, NEW c \in BOOLEAN, Open(s, w, c)
  PROVE  Sender(s, w, c)
BY DEF Sender, Open, Mid, Board

\* ... and so is one that is done.
LEMMA DoneSends ==
  ASSUME NEW s, NEW w \in Nat, NEW c \in BOOLEAN, Done(s, w, c)
  PROVE  Sender(s, w, c)
<1>1. s.high \in Nat /\ s.high <= w + 1
  BY DEF Done, Acked
<1>. QED  BY <1>1 DEF Sender

\* The end of a socket
LEMMA ShutDies ==
  ASSUME NEW s, NEW t, NEW w \in Nat, NEW c \in BOOLEAN, Sender(s, w, c), Shut(s, t)
  PROVE  Sender(t, w, c) /\ Onward(s, t, w, c)
<1>1. Sender(t, w, c)
  <2>1. Bounded(s, w, c) /\ s.high \in Nat /\ s.high <= w + 1
    BY SenderIs DEF Sender
  <2>2. Bounded(t, w, c)
    BY <2>1 DEF Shut, Bounded
  <2>. QED  BY <2>1, <2>2 DEF Shut, Sender, Dead
<1>2. Onward(s, t, w, c)
  <2>1. t.high = s.high /\ t.rx = s.rx /\ t.ep = FALSE /\ s.high \in Nat
    BY SenderIs DEF Shut
  <2>. QED  BY <2>1 DEF Onward, FinSent
<1>. QED  BY <1>1, <1>2

\* A segment that changes nothing that matters here
LEMMA SenderSame ==
  ASSUME NEW s, NEW t, NEW g, NEW w \in Nat, NEW c \in BOOLEAN, NEW o, Sender(s, w, c),
         Sender(t, w, c), t.high = s.high, t.tx = s.tx, t.rx = s.rx, t.out = s.out, t.ep = s.ep, t.state = s.state
  PROVE  Answers(s, t, g, w, c, o)
<1>. s.high \in Nat
  BY DEF Sender
<1>1. Onward(s, t, w, c)
  BY DEF Onward, FinSent
<1>2. Does(s, t, w, c)
  BY <1>1, Silent
<1>. QED  BY <1>2 DEF Answers

\* An acknowledgment or a reset of this end
LEMMA PlainDoes ==
  ASSUME NEW s, NEW t, NEW w \in Nat, NEW c \in BOOLEAN, s.high \in Nat, s.rx.next \in 0 .. 2, Kept(s, t),
         NEW flags \in {{"ACK"}, {"RST"}}, NEW seq \in Nat, seq <= w + 3,
         t.out = Append(s.out, [flags |-> flags, seq |-> seq, len |-> 0, ack |-> s.rx.next, sack |-> {}])
  PROVE  Does(s, t, w, c)
<1>. DEFINE g == [flags |-> flags, seq |-> seq, len |-> 0, ack |-> s.rx.next, sack |-> {}]
<1>1. g \in Segment
  BY DEF Segment
<1>2. ToSink(g, t, w, c)
  BY DEF ToSink, Kept
<1>3. Onward(s, t, w, c) /\ t.high \in Nat
  BY DEF Onward, FinSent, Kept
<1>4. t.out = Append(s.out, g)
  OBVIOUS
<1>. HIDE DEF g
<1>. QED  BY <1>1, <1>2, <1>3, <1>4, Says

\* SendEmptyPacket for an acknowledgment or a reset, where the receiver holds nothing
LEMMA AckSpoken ==
  ASSUME NEW s, NEW w \in Nat, NEW c \in BOOLEAN, Shaped(s), s.ep \in BOOLEAN, s.next \in 0 .. w + 2, s.high \in Nat,
         s.rx.next \in 0 .. 2, s.rx.held = {}, NEW flags \in {{"ACK"}, {"RST"}}
  PROVE  LET t == SendEmptyPacket(s, flags) IN Kept(s, t) /\ Does(s, t, w, c)
<1>. DEFINE t == SendEmptyPacket(s, flags)
<1>1. /\ Kept(s, t)
      /\ ~s.ep => t.out = s.out
      /\ s.ep => \E seq \in {s.next, s.next + 1} :
            t.out = Append(s.out, [flags |-> flags, seq |-> seq, len |-> 0, ack |-> s.rx.next,
                                          sack |-> IF "ACK" \in flags THEN s.rx.held ELSE {}])
  BY PlainIs
<1>. HIDE DEF t
<1>2. ASSUME s.ep = FALSE PROVE Kept(s, t) /\ Does(s, t, w, c)
  <2>1. t.out = s.out
    BY Zenon, <1>1, <1>2
  <2>. QED  BY <1>1, <2>1, KeptDoes
<1>3. ASSUME s.ep = TRUE PROVE Kept(s, t) /\ Does(s, t, w, c)
  <2>1. PICK seq \in {s.next, s.next + 1} :
            t.out = Append(s.out, [flags |-> flags, seq |-> seq, len |-> 0, ack |-> s.rx.next,
                                          sack |-> IF "ACK" \in flags THEN s.rx.held ELSE {}])
    BY Zenon, <1>1, <1>3
  <2>2. (IF "ACK" \in flags THEN s.rx.held ELSE {}) = {} /\ seq \in Nat /\ seq <= w + 3
    OBVIOUS
  <2>3. t.out = Append(s.out, [flags |-> flags, seq |-> seq, len |-> 0, ack |-> s.rx.next, sack |-> {}])
    BY <2>1, <2>2
  <2>4. Kept(s, t)
    BY Zenon, <1>1
  <2>5. Does(s, t, w, c)
    <3>1. seq \in Nat /\ seq <= w + 3
      BY <2>2
    <3>. QED  BY <2>3, <2>4, <3>1, PlainDoes
  <2>. QED  BY Zenon, <2>4, <2>5
<1>4. Kept(s, t) /\ Does(s, t, w, c)
  <2>1. s.ep = TRUE \/ s.ep = FALSE
    OBVIOUS
  <2>. QED  BY Zenon, <1>1, <1>2, <1>3, <2>1
<1>. QED  BY <1>4 DEF t

\* SendAck is SendEmptyPacket.
LEMMA SendAckIs ==
  ASSUME NEW s
  PROVE  SendAck(s) = SendEmptyPacket(s, {"ACK"})
BY DEF SendAck, Then

\* All but highAck
Heeded(s, t) ==
  /\ Shaped(t)
  /\ t.state = s.state /\ t.ep = s.ep /\ t.cong = s.cong
  /\ t.next = s.next /\ t.high = s.high /\ t.recover = s.recover /\ t.tx = s.tx
  /\ t.rx = s.rx /\ t.closeOnEmpty = s.closeOnEmpty /\ t.retx = s.retx /\ t.out = s.out

\* NoteWindow changes windows and the highest acknowledgment.
LEMMA NoteWindowIs ==
  ASSUME NEW s, NEW g, Shaped(s)
  PROVE  LET t == NoteWindow(s, g)
         IN  /\ Heeded(s, t)
             /\ t.highAck = IF "SYN" \in g.flags THEN (IF "ACK" \in g.flags THEN g.ack ELSE s.highAck)
                            ELSE IF "ACK" \in g.flags /\ s.state \notin {"LISTEN", "SYN_SENT", "SYN_RCVD"}
                                 THEN Max({s.highAck, g.ack}) ELSE s.highAck
<1>1. CASE "SYN" \in g.flags
  BY <1>1 DEF NoteWindow, Heeded, Shaped, Sane
<1>2. CASE "SYN" \notin g.flags /\ "ACK" \in g.flags /\ s.state \notin {"LISTEN", "SYN_SENT", "SYN_RCVD"}
  <2>. DEFINE n == Max({s.highAck, g.ack})
  <2>1. NoteWindow(s, g) = [s EXCEPT !.highAck = n]
    BY <1>2 DEF NoteWindow
  <2>. HIDE DEF n
  <2>2. Heeded(s, [s EXCEPT !.highAck = n]) /\ [s EXCEPT !.highAck = n].highAck = n
    BY DEF Heeded, Shaped, Sane
  <2>. QED  BY <1>2, <2>1, <2>2 DEF n
<1>3. CASE "SYN" \notin g.flags /\ ~("ACK" \in g.flags /\ s.state \notin {"LISTEN", "SYN_SENT", "SYN_RCVD"})
  <2>1. NoteWindow(s, g) = s
    BY <1>3 DEF NoteWindow
  <2>2. Heeded(s, s)
    BY DEF Heeded
  <2>. QED  BY <1>3, <2>1, <2>2
<1>. QED  BY <1>1, <1>2, <1>3

\* What hears after noting the window hears altogether.
LEMMA HeededHears ==
  ASSUME NEW s, NEW n, NEW t, NEW g, NEW w \in Nat, NEW c \in BOOLEAN, NEW o, s.high \in Nat, t.high \in Nat,
         Heeded(s, n), Sender(t, w, c), Does(n, t, w, c), t.tx.head \in {n.tx.head, g.ack},
         t.tx.sacked \subseteq n.tx.sacked \cup g.sack, t.rx.next = 2 => n.rx.next = 2 \/ o
  PROVE  Answers(s, t, g, w, c, o)
<1>1. Onward(s, n, w, c) /\ n.high \in Nat /\ n.out = s.out
  BY DEF Heeded, Onward, FinSent
<1>2. Does(s, n, w, c)
  BY <1>1, Silent
<1>3. Does(s, t, w, c)
  BY <1>1, <1>2, DoesThrough
<1>. QED  BY <1>3 DEF Answers, Heeded

\* ... such as a reset, which ends the socket.
LEMMA ShutHears ==
  ASSUME NEW s, NEW n, NEW t, NEW g, NEW w \in Nat, NEW c \in BOOLEAN, NEW o, s.high \in Nat,
         Heeded(s, n), Sender(n, w, c), Shut(n, t), t.out = n.out
  PROVE  Answers(s, t, g, w, c, o)
<1>1. Sender(t, w, c) /\ Onward(n, t, w, c)
  BY ShutDies
<1>2. n.high \in Nat /\ t.high \in Nat /\ t.tx = n.tx /\ t.rx = n.rx
  BY <1>1, SenderIs DEF Shut
<1>3. Does(n, t, w, c)
  BY <1>1, <1>2, Silent
<1>. QED  BY <1>1, <1>2, <1>3, HeededHears

\* A segment without data is in range.
LEMMA ForwardUpIs ==
  ASSUME NEW s, NEW g, g.len = 0
  PROVE  ForwardUp(s, g) = DoForwardUp(NoteWindow(s, g), g)
<1>1. ~(g.len > 0)
  OBVIOUS
<1>. DEFINE P(t) == DoForwardUp(t, g)
            n == NoteWindow(s, g)
<1>2. ForwardUp(s, g) = CHOOSE after \in {P(t) : t \in {n}} : TRUE
  BY Zenon, <1>1 DEF ForwardUp, Then
<1>3. ForwardUp(s, g) = P(n)
  <2>. HIDE DEF P, n
  <2>. QED  BY <1>2
<1>. QED  BY <1>3

\* DoForwardUp calls the handler of the state.
LEMMA Dispatch ==
  ASSUME NEW s, NEW g
  PROVE  /\ s.state = "ESTABLISHED" => DoForwardUp(s, g) = ProcessEstablished(s, g)
         /\ s.state = "LISTEN" => DoForwardUp(s, g) = ProcessListen(s, g)
         /\ s.state = "SYN_SENT" => DoForwardUp(s, g) = ProcessSynSent(s, g)
         /\ s.state = "SYN_RCVD" => DoForwardUp(s, g) = ProcessSynRcvd(s, g)
         /\ s.state \in {"FIN_WAIT_1", "FIN_WAIT_2", "CLOSE_WAIT"} => DoForwardUp(s, g) = ProcessWait(s, g)
         /\ s.state = "LAST_ACK" => DoForwardUp(s, g) = ProcessLastAck(s, g)
         /\ s.state \in {"CLOSED", "TIME_WAIT"} => DoForwardUp(s, g) = s
BY DEF DoForwardUp

\* The answer to the SYN
LEMMA EstablishedOpen ==
  ASSUME NEW s, NEW c \in BOOLEAN, Fresh(s), s.highAck = 1
  PROVE  LET t == [Established(s, 1) EXCEPT !.rx.next = 1]
         IN  Open(t, 0, c) /\ Does(s, t, 0, c) /\ t.tx.head = 1 /\ t.tx.sacked = {} /\ t.rx.next = 1
<1>. DEFINE e == Established(s, 1)
            t == [e EXCEPT !.rx.next = 1]
<1>1. SetHead(EmptyTx, 1) = [head |-> 1, end |-> 1, tail |-> 1, sacked |-> {}, lost |-> {}, retrans |-> {}]
  <2>1. TxSize(EmptyTx) + 1 = 1
    BY DEF EmptyTx, TxSize
  <2>2. SetHead(EmptyTx, 1) = [EmptyTx EXCEPT !.head = 1, !.end = 1, !.tail = 1]
    BY <2>1 DEF SetHead
  <2>. QED  BY <2>2 DEF EmptyTx
<1>2. s.next + 1 = 1
  BY DEF Fresh
<1>3. /\ DOMAIN e = DOMAIN s /\ e.state = "ESTABLISHED" /\ e.cong = "OPEN" /\ e.retx = {} /\ e.next = 1
      /\ e.high = 1 /\ e.tx = SetHead(EmptyTx, 1) /\ e.ep = s.ep /\ e.rx = s.rx /\ e.highAck = s.highAck
      /\ e.recover = s.recover /\ e.closeOnEmpty = s.closeOnEmpty /\ e.out = s.out /\ Sane(e)
  BY <1>2 DEF Established, Fresh, Shaped, Sane, Sound, States
<1>. HIDE DEF e
<1>4. /\ DOMAIN t = DOMAIN e /\ t.rx = [EmptyRx EXCEPT !.next = 1]
      /\ t.state = e.state /\ t.cong = e.cong /\ t.retx = e.retx /\ t.next = e.next
      /\ t.high = e.high /\ t.tx = e.tx /\ t.ep = e.ep /\ t.highAck = e.highAck
      /\ t.recover = e.recover /\ t.closeOnEmpty = e.closeOnEmpty /\ t.out = e.out /\ Sane(t)
  BY <1>3 DEF Fresh, Shaped, Sane
<1>. HIDE DEF t
<1>5. NoFin(t.rx) /\ {"next", "held", "fin", "read"} = DOMAIN t.rx
  BY <1>4 DEF NoFin, EmptyRx
<1>6. Board(t.tx) /\ t.tx.head = 1 /\ t.tx.end = 1 /\ t.tx.tail = 1 /\ t.tx.sacked = {}
  BY <1>1, <1>3, <1>4 DEF Board, Sent
<1>7. Shaped(t)
  BY <1>3, <1>4, <1>5, <1>6 DEF Shaped, Sane, Fresh, Board
<1>8. Mid(t, 0, c)
  <2>1. t.closeOnEmpty = FALSE /\ t.ep = TRUE /\ t.recover = 0
    BY <1>3, <1>4 DEF Fresh
  <2>. QED  BY <1>3, <1>4, <1>5, <1>6, <1>7, <2>1 DEF Mid, Congs
<1>9. Open(t, 0, c)
  BY <1>3, <1>4, <1>6, <1>8 DEF Open, Armed
<1>10. Does(s, t, 0, c)
  <2>1. s.high = 0 /\ t.high = 1 /\ s.rx.next = 0
    BY <1>3, <1>4 DEF Fresh, EmptyRx
  <2>2. Onward(s, t, 0, c)
    BY <2>1 DEF Onward, FinSent
  <2>. QED  BY <1>3, <1>4, <2>1, <2>2, Silent
<1>11. t.rx.next = 1
  BY <1>5 DEF NoFin
<1>. USE DEF t, e
<1>. QED  BY Zenon, <1>6, <1>9, <1>10, <1>11

\* An acknowledgment, said by a connected socket
LEMMA KeptOpen ==
  ASSUME NEW s, NEW w \in Nat, NEW c \in BOOLEAN, Open(s, w, c)
  PROVE  LET t == SendAck(s) IN After(s, t, w, c)
<1>. DEFINE t == SendAck(s)
<1>1. /\ Shaped(s) /\ s.ep \in BOOLEAN /\ s.next \in 0 .. w + 2 /\ s.high \in Nat /\ s.rx.next \in 0 .. 2 /\ s.rx.held = {}
  <2>1. s.high \in Nat /\ Shaped(s) /\ s.ep = TRUE /\ s.next \in 1 .. s.tx.end /\ NoFin(s.rx) /\ Board(s.tx)
        /\ s.tx.tail = w + 1
    BY HighIsNat DEF Open, Mid
  <2>2. s.ep \in BOOLEAN
    BY Zenon, <2>1
  <2>. QED  BY <2>1, <2>2 DEF NoFin, Board
<1>2. Kept(s, t) /\ Does(s, t, w, c)
  BY <1>1, AckSpoken, SendAckIs
<1>. HIDE DEF t
<1>3. Open(t, w, c)
  BY <1>2, KeptMid
<1>. QED  BY <1>2, <1>3 DEF After, Kept, t

\* A segment comes before the connection is there: SYN, ACK establishes it, the rest does not.
LEMMA FreshHears ==
  ASSUME NEW s, NEW g, NEW c \in BOOLEAN, NEW o, Fresh(s), Comes(g, s, 0, c, o)
  PROVE  Answers(s, ForwardUp(s, g), g, 0, c, o)
<1>. DEFINE n == NoteWindow(s, g)
<1>1. ForwardUp(s, g) = DoForwardUp(n, g)
  BY ForwardUpIs DEF Comes
<1>2. /\ Heeded(s, n)
      /\ n.highAck = IF "SYN" \in g.flags THEN (IF "ACK" \in g.flags THEN g.ack ELSE s.highAck)
                     ELSE IF "ACK" \in g.flags /\ s.state \notin {"LISTEN", "SYN_SENT", "SYN_RCVD"}
                          THEN Max({s.highAck, g.ack}) ELSE s.highAck
  BY NoteWindowIs DEF Fresh
<1>. HIDE DEF n
<1>3. n.highAck \in 0 .. 1
  <2>1. g.ack \in Nat /\ s.highAck \in 0 .. 1 /\ s.high = 0
    BY DEF Fresh, Comes
  <2>2. g.ack <= 1
    BY <2>1 DEF Comes, FinSent
  <2>3. Max({s.highAck, g.ack}) \in 0 .. 1
    BY <2>1, <2>2, MaxOfTwo
  <2>. QED  BY <1>2, <2>1, <2>2, <2>3
<1>4. Fresh(n)
  BY <1>2, <1>3 DEF Heeded, Fresh
<1>5. Sender(n, 0, c) /\ Sender(s, 0, c)
  BY <1>4 DEF Sender, Fresh
<1>6. s.high = n.high /\ s.tx = n.tx /\ s.rx = n.rx /\ s.out = n.out /\ s.ep = n.ep /\ s.state = n.state
  BY <1>2 DEF Heeded
<1>7. Answers(s, n, g, 0, c, o)
  BY <1>5, <1>6, SenderSame
<1>8. CASE n.state = "CLOSED"
  BY <1>1, <1>7, <1>8, Dispatch
<1>9. CASE n.state = "SYN_SENT"
  <2>1. ForwardUp(s, g) = ProcessSynSent(n, g)
    BY <1>1, <1>9, Dispatch
  <2>2. CASE g.flags = {"ACK"} \/ g.flags = {"FIN", "ACK"}
    <3>1. "ACK" \in g.flags /\ "SYN" \notin g.flags
      BY <2>2
    <3>2. ProcessSynSent(n, g) = n
      BY <3>1 DEF ProcessSynSent
    <3>. QED  BY <1>7, <2>1, <3>2
  <2>3. CASE g.flags = {"RST"}
    <3>1. "ACK" \notin g.flags /\ g.flags # {"SYN"} /\ g.flags # {"SYN", "ACK"}
      BY <2>3
    <3>2. ProcessSynSent(n, g) = CloseAndNotify(n)
      BY <2>3, <3>1 DEF ProcessSynSent
    <3>3. Shut(n, CloseAndNotify(n)) /\ CloseAndNotify(n).out = n.out
      BY <1>5, SenderIs, CloseShuts
    <3>4. s.high \in Nat
      BY <1>5 DEF Sender
    <3>. QED  BY <1>2, <1>5, <2>1, <3>2, <3>3, <3>4, ShutHears
  <2>4. CASE g.flags = {"SYN", "ACK"} /\ g.seq = 0 /\ g.ack = 1
    <3>. DEFINE e == [Established(n, g.ack) EXCEPT !.rx.next = g.seq + 1]
                a == SendAck(e)
                p == SendPendingData(a)
                t == [p EXCEPT !.delAck = DelAckMax]
    <3>1. "SYN" \in g.flags /\ g.flags # {"SYN"} /\ g.ack = n.next + 1
      BY <1>4, <2>4 DEF Fresh
    <3>2. ProcessSynSent(n, g) = t
      BY <2>4, <3>1 DEF ProcessSynSent
    <3>3. n.highAck = 1
      BY <1>2, <2>4
    <3>4. g.ack = 1 /\ g.seq + 1 = 1
      BY <2>4
    <3>5. Open(e, 0, c) /\ Does(n, e, 0, c) /\ e.tx.head = 1 /\ e.tx.sacked = {} /\ e.rx.next = 1
      BY <1>4, <3>3, <3>4, EstablishedOpen
    <3>. HIDE DEF e
    <3>6. After(e, a, 0, c)
      BY <3>5, KeptOpen
    <3>. HIDE DEF a
    <3>7. After(a, p, 0, c)
      BY <3>6, SendPendingOpen DEF After
    <3>. HIDE DEF p
    <3>8. Kept(p, t) /\ t.out = p.out
      BY <3>7 DEF After, Open, Mid, Kept, Shaped, Sane
    <3>. HIDE DEF t
    <3>9. e.high \in Nat /\ a.high \in Nat /\ p.high \in Nat /\ n.high \in Nat /\ s.high \in Nat
      BY <1>5, <3>5, <3>6, <3>7, HighIsNat DEF After, Open, Sender
    <3>10. After(a, t, 0, c) /\ t.high \in Nat
      BY <3>7, <3>8, <3>9, KeptAfter DEF Kept
    <3>11. Does(s, t, 0, c)
      <4>1. Does(s, n, 0, c)
        BY <1>7 DEF Answers
      <4>2. Does(s, e, 0, c)
        BY <3>5, <3>9, <4>1, DoesThrough
      <4>3. Does(s, a, 0, c)
        BY <3>6, <3>9, <4>2, DoesThrough DEF After
      <4>. QED  BY <3>9, <3>10, <4>3, DoesThrough DEF After
    <3>12. Sender(t, 0, c)
      BY <3>10, OpenSends DEF After
    <3>13. t.tx.head = 1 /\ t.tx.sacked = {} /\ t.rx.next = 1
      BY <3>5, <3>6, <3>10 DEF After
    <3>14. Answers(s, t, g, 0, c, o)
      BY <2>4, <3>11, <3>12, <3>13 DEF Answers
    <3>. QED  BY <2>1, <3>2, <3>14
  <2>. QED  BY <2>2, <2>3, <2>4 DEF Comes
<1>. QED  BY <1>4, <1>8, <1>9 DEF Fresh

\* TIME_WAIT is entered.
LEMMA TimeWaitDone ==
  ASSUME NEW s, NEW w \in Nat, NEW c \in BOOLEAN, Acked(s, w, c), GotFin(s.rx)
  PROVE  LET t == SendAck(TimeWait(s)) IN Done(t, w, c) /\ Does(s, t, w, c) /\ t.tx = s.tx
<1>. DEFINE x == CancelAllTimers(s)
            y == NotifyNormalClose(x)
            v == [y EXCEPT !.state = "TIME_WAIT"]
            u == Start(v, "timeWait")
            t == SendAck(u)
<1>1. Kept([s EXCEPT !.retx = {}], x) /\ x.out = s.out /\ x.retx = {}
  BY DEF CancelAllTimers, Kept, Shaped, Sane, Sound, Acked
<1>. HIDE DEF x
<1>2. /\ Shaped(x) /\ x.state = s.state /\ x.ep = s.ep /\ x.next = s.next /\ x.high = s.high
      /\ x.highAck = s.highAck /\ x.recover = s.recover /\ x.tx = s.tx /\ x.rx = s.rx
  BY <1>1 DEF Kept, Acked, Shaped, Sane
<1>3. Kept(x, y) /\ y.out = x.out
  BY <1>2 DEF NotifyNormalClose, Kept, Shaped, Sane, Sound
<1>. HIDE DEF y
<1>4. /\ Shaped(v) /\ v.state = "TIME_WAIT" /\ v.ep = s.ep /\ v.next = s.next /\ v.high = s.high
      /\ v.highAck = s.highAck /\ v.recover = s.recover /\ v.tx = s.tx /\ v.rx = s.rx /\ v.retx = {}
      /\ v.out = s.out
  BY <1>1, <1>2, <1>3 DEF Kept, Shaped, Sane, Sound, States
<1>. HIDE DEF v
<1>5. Kept(v, u) /\ u.out = v.out
  BY <1>4, TimersAreKept
<1>6. TimeWait(s) = u
  BY DEF TimeWait, x, y, v
<1>. HIDE DEF u
<1>7. Done(u, w, c)
  <2>1. Acked(u, w, c)
    BY <1>4, <1>5 DEF Acked, Kept
  <2>. QED  BY <1>4, <1>5, <2>1 DEF Done, Kept
<1>8. Does(s, u, w, c) /\ s.high \in Nat /\ u.high \in Nat
  <2>1. s.high \in Nat /\ u.high = s.high /\ u.rx = s.rx /\ u.state = "TIME_WAIT" /\ u.out = s.out
    BY <1>4, <1>5 DEF Kept, Acked
  <2>2. Onward(s, u, w, c)
    BY <2>1 DEF Onward, FinSent
  <2>. QED  BY <2>1, <2>2, Silent
<1>9. Kept(u, t) /\ Does(u, t, w, c)
  <2>1. Shaped(u) /\ u.ep = TRUE /\ u.next \in 0 .. w + 2 /\ GotFin(u.rx)
    BY <1>7, <1>4, <1>5 DEF Done, Acked, Kept
  <2>2. u.ep \in BOOLEAN
    BY Zenon, <2>1
  <2>3. u.rx.next \in 0 .. 2 /\ u.rx.held = {}
    BY <2>1 DEF GotFin
  <2>. QED  BY <1>8, <2>1, <2>2, <2>3, AckSpoken, SendAckIs
<1>. HIDE DEF t
<1>10. Done(t, w, c)
  BY <1>7, <1>9, KeptAcked DEF Done, Kept
<1>11. Does(s, t, w, c)
  <2>1. t.high \in Nat
    BY <1>8, <1>9 DEF Kept
  <2>. QED  BY <1>8, <1>9, <2>1, DoesThrough
<1>12. t.tx = s.tx
  BY <1>4, <1>5, <1>9 DEF Kept
<1>. QED  BY <1>6, <1>10, <1>11, <1>12 DEF t

\* The FIN of the peer, after all has been acknowledged
LEMMA PeerFinDone ==
  ASSUME NEW s, NEW g, NEW w \in Nat, NEW c \in BOOLEAN, Acked(s, w, c), NoFin(s.rx),
         s.state \in {"FIN_WAIT_1", "FIN_WAIT_2"}, g.seq = 1, s.state = "FIN_WAIT_1" => g.ack = w + 2
  PROVE  LET t == ProcessPeerFin([s EXCEPT !.rx = SetFinSequence(@, g.seq)], g)
         IN  Done(t, w, c) /\ Does(s, t, w, c) /\ t.tx = s.tx
<1>. DEFINE rx == SetFinSequence(s.rx, g.seq)
            v  == [s EXCEPT !.rx = SetFinSequence(@, g.seq)]
            t  == ProcessPeerFin(v, g)
<1>1. GotFin(rx) /\ DOMAIN rx = DOMAIN s.rx
  <2>. DEFINE r == [s.rx EXCEPT !.fin = g.seq]
  <2>1. r.fin = 1 /\ r.next = 1 /\ r.held = {} /\ r.read = 0 /\ DOMAIN r = DOMAIN s.rx
    BY DEF NoFin, Acked, Shaped, Sane
  <2>2. rx = CountFin(r)
    BY DEF SetFinSequence
  <2>. HIDE DEF r
  <2>3. CountFin(r) = [r EXCEPT !.next = 2]
    BY <2>1 DEF CountFin
  <2>. QED  BY <2>1, <2>2, <2>3 DEF GotFin, Acked, Shaped, Sane
<1>2. /\ DOMAIN v = DOMAIN s /\ v.rx = rx /\ v.state = s.state /\ v.ep = s.ep /\ v.next = s.next /\ v.high = s.high
      /\ v.highAck = s.highAck /\ v.recover = s.recover /\ v.tx = s.tx /\ v.retx = s.retx /\ v.out = s.out
      /\ Sane(v)
  BY DEF Acked, Shaped, Sane
<1>. HIDE DEF rx, v
<1>3. Acked(v, w, c) /\ GotFin(v.rx)
  BY <1>1, <1>2 DEF Acked, Shaped, Sane
<1>4. Finished(v.rx)
  BY <1>1, <1>2 DEF Finished, GotFin
<1>5. v.state = "FIN_WAIT_2" \/ FinAcked(v, g)
  BY <1>2, <1>3 DEF FinAcked, Acked, TxSize
<1>6. t = SendAck(TimeWait(v))
  BY <1>2, <1>4, <1>5 DEF ProcessPeerFin
<1>7. Done(t, w, c) /\ Does(v, t, w, c) /\ t.tx = v.tx
  BY <1>3, <1>6, TimeWaitDone
<1>. HIDE DEF t
<1>8. Does(s, v, w, c) /\ s.high \in Nat /\ v.high \in Nat /\ t.high \in Nat
  <2>1. s.high \in Nat /\ v.high = s.high /\ s.rx.next = 1 /\ t.high \in Nat
    BY <1>2, <1>7 DEF Acked, NoFin, Done
  <2>2. Onward(s, v, w, c)
    BY <1>2, <2>1 DEF Onward, FinSent
  <2>. QED  BY <1>2, <2>1, <2>2, Silent
<1>9. Does(s, t, w, c)
  BY <1>7, <1>8, DoesThrough
<1>. QED  BY <1>2, <1>7, <1>9 DEF t, v

\* ProcessWait, for the segments of the sink
LEMMA ProcessWaitIs ==
  ASSUME NEW s, NEW g
  PROVE  /\ g.flags = {"ACK"} =>
              LET read == ReceivedAck(s, g)
              IN  ProcessWait(s, g) = ProcessPeerFin(IF read.state = "FIN_WAIT_1" /\ FinAcked(read, g)
                                                     THEN [read EXCEPT !.state = "FIN_WAIT_2"] ELSE read, g)
         /\ g.flags = {"FIN", "ACK"} =>
              ProcessWait(s, g) = ProcessPeerFin([ReceivedAck(s, g) EXCEPT !.rx = SetFinSequence(@, g.seq)], g)
         /\ g.flags = {"SYN", "ACK"} => ProcessWait(s, g) = s
         /\ g.flags = {"RST"} => ProcessWait(s, g) = CloseAndNotify(s)
<1>1. ASSUME g.flags = {"ACK"}
      PROVE  LET read == ReceivedAck(s, g)
             IN  ProcessWait(s, g) = ProcessPeerFin(IF read.state = "FIN_WAIT_1" /\ FinAcked(read, g)
                                                     THEN [read EXCEPT !.state = "FIN_WAIT_2"] ELSE read, g)
  <2>. DEFINE P(read) == ProcessPeerFin(IF read.state = "FIN_WAIT_1" /\ FinAcked(read, g)
                                                     THEN [read EXCEPT !.state = "FIN_WAIT_2"] ELSE read, g)
              n == ReceivedAck(s, g)
  <2>1. ProcessWait(s, g) = Then(n, P)
    BY <1>1 DEF ProcessWait, FinFlags, SynFlags
  <2>2. Then(n, P) = P(n)
    <3>1. Then(n, P) = CHOOSE after \in {P(t) : t \in {n}} : TRUE
      BY Zenon DEF Then
    <3>. HIDE DEF P, n
    <3>. QED  BY <3>1
  <2>. QED  BY Zenon, <2>1, <2>2
<1>2. ASSUME g.flags = {"FIN", "ACK"}
      PROVE  ProcessWait(s, g) = ProcessPeerFin([ReceivedAck(s, g) EXCEPT !.rx = SetFinSequence(@, g.seq)], g)
  <2>. DEFINE P(read) == ProcessPeerFin([read EXCEPT !.rx = SetFinSequence(@, g.seq)], g)
              n == ReceivedAck(s, g)
  <2>1. ProcessWait(s, g) = Then(n, P)
    BY <1>2 DEF ProcessWait, FinFlags, SynFlags
  <2>2. Then(n, P) = P(n)
    <3>1. Then(n, P) = CHOOSE after \in {P(t) : t \in {n}} : TRUE
      BY Zenon DEF Then
    <3>. HIDE DEF P, n
    <3>. QED  BY <3>1
  <2>. QED  BY Zenon, <2>1, <2>2
<1>3. g.flags = {"SYN", "ACK"} => ProcessWait(s, g) = s
  BY DEF ProcessWait, FinFlags, SynFlags
<1>4. g.flags = {"RST"} => ProcessWait(s, g) = CloseAndNotify(s)
  BY DEF ProcessWait, FinFlags, SynFlags
<1>. QED  BY <1>1, <1>2, <1>3, <1>4

\* Without a FIN ProcessPeerFin does nothing.
LEMMA NotFinished ==
  ASSUME NEW s, NEW g, NoFin(s.rx)
  PROVE  ProcessPeerFin(s, g) = s
BY DEF ProcessPeerFin, Finished, NoFin

\* ProcessEstablished, for an acknowledgment
LEMMA ProcessEstablishedIs ==
  ASSUME NEW s, NEW g, g.flags = {"ACK"}
  PROVE  ProcessEstablished(s, g) = IF g.ack < s.tx.head THEN s
                                    ELSE IF g.ack > s.high THEN SendAck(s) ELSE ReceivedAck(s, g)
<1>. DEFINE e == IF g.ack < s.tx.head THEN s ELSE IF g.ack > s.high THEN SendAck(s) ELSE ReceivedAck(s, g)
<1>1. /\ g.flags \notin SynFlags /\ g.flags \notin FinFlags
  BY DEF SynFlags, FinFlags
<1>2. ProcessEstablished(s, g) = CASE g.flags = {"ACK"} -> e
                                   [] g.flags \in SynFlags -> s
                                   [] g.flags \in FinFlags -> PeerClose(s, g)
                                   [] OTHER -> CloseAndNotify(s)
  BY Zenon DEF ProcessEstablished
<1>. HIDE DEF e
<1>3. ProcessEstablished(s, g) = e
  BY <1>1, <1>2
<1>. QED  BY <1>3 DEF e

\* The sink's FIN, alone or not, comes when the sender's has been received.
LEMMA FinComes ==
  ASSUME NEW s, NEW g, NEW w, NEW c, NEW o, Comes(g, s, w, c, o), g.flags = {"FIN", "ACK"}
  PROVE  g.seq = 1 /\ g.ack = w + 2 /\ FinSent(s, w, c) /\ o
<1>1. {"FIN", "ACK"} # {"SYN", "ACK"} /\ {"FIN", "ACK"} # {"ACK"} /\ {"FIN", "ACK"} # {"RST"}
  OBVIOUS
<1>. QED  BY Zenon, <1>1 DEF Comes

\* A segment comes to the connected sender.
LEMMA OpenHears ==
  ASSUME NEW s, NEW g, NEW w \in Nat, NEW c \in BOOLEAN, NEW o, Open(s, w, c), Comes(g, s, w, c, o)
  PROVE  Answers(s, ForwardUp(s, g), g, w, c, o)
<1>. DEFINE n == NoteWindow(s, g)
<1>1. ForwardUp(s, g) = DoForwardUp(n, g)
  BY ForwardUpIs DEF Comes
<1>2. /\ Heeded(s, n)
      /\ n.highAck = IF "SYN" \in g.flags THEN (IF "ACK" \in g.flags THEN g.ack ELSE s.highAck)
                     ELSE IF "ACK" \in g.flags /\ s.state \notin {"LISTEN", "SYN_SENT", "SYN_RCVD"}
                          THEN Max({s.highAck, g.ack}) ELSE s.highAck
  BY NoteWindowIs DEF Open, Mid
<1>. HIDE DEF n
<1>3. /\ s.high \in Nat /\ s.highAck \in Nat /\ s.highAck <= s.tx.head /\ g.ack \in Nat /\ Board(s.tx) /\ NoFin(s.rx)
      /\ s.tx.head >= 1 /\ s.high = s.tx.end /\ s.state \in {"ESTABLISHED", "FIN_WAIT_1"}
  BY HighIsNat DEF Open, Mid, Comes
<1>4. /\ n.highAck \in Nat
      /\ "SYN" \in g.flags => n.highAck <= s.tx.head
      /\ g.flags = {"RST"} => n.highAck <= s.tx.head
      /\ g.flags \in {{"ACK"}, {"FIN", "ACK"}} =>
           IF g.ack < s.tx.head THEN n.highAck <= s.tx.head ELSE n.highAck = g.ack
  <2>1. CASE g.flags = {"SYN", "ACK"} /\ g.ack = 1
    <3>1. n.highAck = 1
      BY <1>2, <2>1
    <3>. QED  BY <1>3, <2>1, <3>1 DEF Board
  <2>2. CASE g.flags = {"RST"}
    <3>1. n.highAck = s.highAck
      BY <1>2, <2>2
    <3>. QED  BY <1>3, <2>2, <3>1
  <2>3. CASE g.flags \in {{"ACK"}, {"FIN", "ACK"}}
    <3>1. n.highAck = Max({s.highAck, g.ack}) /\ "SYN" \notin g.flags /\ g.flags # {"RST"}
      BY <1>2, <1>3, <2>3
    <3>2. n.highAck = IF s.highAck >= g.ack THEN s.highAck ELSE g.ack
      BY <1>3, <3>1, MaxOfTwo
    <3>. QED  BY <1>3, <3>1, <3>2 DEF Board
  <2>. QED  BY <2>1, <2>2, <2>3 DEF Comes
<1>5. Mid(n, w, c) /\ Armed(n) /\ (n.tx.head = n.tx.tail => n.next = n.tx.head)
  BY <1>2, <1>4 DEF Heeded, Open, Mid, Armed
<1>6. n.highAck <= n.tx.head => Open(n, w, c)
  BY <1>5 DEF Open
<1>7. n.high \in Nat /\ n.high = s.high /\ n.tx = s.tx /\ n.rx = s.rx /\ n.state = s.state /\ n.out = s.out /\ n.ep = s.ep
  BY <1>2, <1>3 DEF Heeded
<1>8. Does(n, n, w, c)
  BY <1>7 DEF Does, Onward
<1>9. ASSUME Open(n, w, c) PROVE Answers(s, n, g, w, c, o)
  <2>1. Sender(n, w, c)
    BY <1>9, OpenSends
  <2>2. n.tx.head \in {n.tx.head, g.ack} /\ n.tx.sacked \subseteq n.tx.sacked \cup g.sack
        /\ (n.rx.next = 2 => n.rx.next = 2 \/ o)
    OBVIOUS
  <2>. QED  BY <1>2, <1>3, <1>7, <1>8, <2>1, <2>2, HeededHears
<1>10. ASSUME Open(n, w, c) PROVE Answers(s, CloseAndNotify(n), g, w, c, o)
  <2>. DEFINE t == CloseAndNotify(n)
  <2>1. Sender(n, w, c)
    BY <1>10, OpenSends
  <2>2. Shut(n, t) /\ t.out = n.out
    BY <2>1, SenderIs, CloseShuts
  <2>. HIDE DEF t
  <2>3. Answers(s, t, g, w, c, o)
    BY <1>2, <1>3, <2>1, <2>2, ShutHears
  <2>. QED  BY <2>3 DEF t
\* An acknowledgment of data
<1>11. ASSUME g.flags = {"ACK"}, g.ack <= s.high
       PROVE  LET t == ReceivedAck(n, g)
              IN  Open(t, w, c) /\ Heard(n, t, g, w, c) /\ Answers(s, t, g, w, c, o)
  <2>. DEFINE t == ReceivedAck(n, g)
  <2>1. /\ g.len = 0 /\ g.ack \in Nat /\ g.ack <= n.high
        /\ IF g.ack < n.tx.head THEN n.highAck <= n.tx.head ELSE n.highAck = g.ack
        /\ n.tx.head \notin g.sack /\ g.ack \notin n.tx.sacked /\ \A m \in g.sack : m > g.ack
    BY <1>3, <1>4, <1>7, <1>11 DEF Comes
  <2>2. Open(t, w, c) /\ Heard(n, t, g, w, c)
    BY <1>5, <2>1, ReceivedAckOpen
  <2>. HIDE DEF t
  <2>3. Sender(t, w, c) /\ t.high \in Nat
    BY <2>2, OpenSends, HighIsNat DEF Open
  <2>4. Answers(s, t, g, w, c, o)
    <3>1. Does(n, t, w, c) /\ t.tx.head \in {n.tx.head, g.ack} /\ t.tx.sacked \subseteq n.tx.sacked \cup g.sack /\ t.rx = n.rx
      BY <2>2 DEF Heard
    <3>2. t.rx.next = 2 => n.rx.next = 2 \/ o
      BY <3>1
    <3>3. Heeded(s, n) /\ s.high \in Nat
      BY <1>2, <1>3
    <3>. QED  BY <2>3, <3>1, <3>2, <3>3, HeededHears
  <2>. QED  BY <2>2, <2>4 DEF t
\* That of the FIN
<1>12. ASSUME g.flags \in {{"ACK"}, {"FIN", "ACK"}}, g.ack = w + 2, s.state = "FIN_WAIT_1"
       PROVE  LET t == ReceivedAck(n, g) IN Acked(t, w, c) /\ t.state = "FIN_WAIT_1" /\ Heard(n, t, g, w, c)
  <2>. DEFINE t == ReceivedAck(n, g)
  <2>1. w + 2 > s.tx.head
    BY <1>3 DEF Open, Mid, Board
  <2>2. /\ n.state = "FIN_WAIT_1" /\ g.len = 0 /\ g.ack = w + 2 /\ n.highAck = g.ack
        /\ n.tx.head \notin g.sack /\ \A m \in g.sack : m \in Nat /\ m > g.ack
    BY <1>3, <1>4, <1>7, <1>12, <2>1 DEF Comes, Board
  <2>3. Acked(t, w, c) /\ t.state = n.state /\ Heard(n, t, g, w, c)
    BY <1>5, <2>2, ReceivedAckOfFin
  <2>. HIDE DEF t
  <2>. QED  BY <1>7, <1>12, <2>3 DEF t
<1>13. FinSent(s, w, c) => s.state = "FIN_WAIT_1"
  <2>1. s.ep = TRUE
    BY DEF Open, Mid
  <2>2. FinSent(s, w, c) => s.state \in {"FIN_WAIT_1", "FIN_WAIT_2", "TIME_WAIT"}
    BY Zenon, <2>1 DEF FinSent
  <2>. QED  BY <1>3, <2>2
<1>14. g.ack <= s.high \/ (g.ack = w + 2 /\ s.state = "FIN_WAIT_1")
  <2>1. s.high >= 1
    BY <1>3 DEF Board
  <2>. QED  BY <1>3, <1>13, <2>1 DEF Comes
<1>15. CASE n.state = "ESTABLISHED"
  <2>1. ForwardUp(s, g) = ProcessEstablished(n, g)
    BY <1>1, <1>15, Dispatch
  <2>2. g.ack <= s.high
    BY <1>7, <1>14, <1>15
  <2>3. CASE g.flags = {"ACK"}
    <3>1. CASE g.ack < n.tx.head
      <4>1. ProcessEstablished(n, g) = n
        BY <2>3, <3>1, ProcessEstablishedIs
      <4>2. Open(n, w, c)
        BY <1>4, <1>6, <1>7, <2>3, <3>1
      <4>. QED  BY <1>9, <2>1, <4>1, <4>2
    <3>2. CASE ~(g.ack < n.tx.head)
      <4>1. ~(g.ack > n.high)
        BY <1>3, <1>7, <2>2
      <4>2. ProcessEstablished(n, g) = ReceivedAck(n, g)
        BY <2>3, <3>2, <4>1, ProcessEstablishedIs
      <4>. QED  BY <1>11, <2>1, <2>2, <2>3, <4>2
    <3>. QED  BY <3>1, <3>2
  <2>4. CASE g.flags = {"SYN", "ACK"}
    <3>1. ProcessEstablished(n, g) = n
      BY <2>4 DEF ProcessEstablished, SynFlags, FinFlags
    <3>2. Open(n, w, c)
      BY <1>4, <1>6, <1>7, <2>4
    <3>. QED  BY <1>9, <2>1, <3>1, <3>2
  <2>5. CASE g.flags = {"RST"}
    <3>1. ProcessEstablished(n, g) = CloseAndNotify(n)
      BY <2>5 DEF ProcessEstablished, SynFlags, FinFlags
    <3>2. Open(n, w, c)
      BY <1>4, <1>6, <1>7, <2>5
    <3>. QED  BY <1>10, <2>1, <3>1, <3>2
  <2>6. g.flags # {"FIN", "ACK"}
    <3>1. ASSUME g.flags = {"FIN", "ACK"} PROVE FALSE
      <4>1. FinSent(s, w, c)
        BY <3>1, FinComes
      <4>. QED  BY <1>7, <1>13, <1>15, <4>1
    <3>. QED  BY <3>1
  <2>. QED  BY <2>3, <2>4, <2>5, <2>6 DEF Comes
<1>16. CASE n.state = "FIN_WAIT_1"
  <2>. DEFINE read == ReceivedAck(n, g)
  <2>1. ForwardUp(s, g) = ProcessWait(n, g)
    BY <1>1, <1>16, Dispatch
  <2>2. CASE g.flags = {"ACK"} /\ g.ack <= s.high
    <3>1. Open(read, w, c) /\ Heard(n, read, g, w, c) /\ Answers(s, read, g, w, c, o)
      BY <1>11, <2>2
    <3>2. ProcessWait(n, g) = ProcessPeerFin(IF read.state = "FIN_WAIT_1" /\ FinAcked(read, g)
                                             THEN [read EXCEPT !.state = "FIN_WAIT_2"] ELSE read, g)
      BY <2>2, ProcessWaitIs
    <3>. HIDE DEF read
    <3>3. ~FinAcked(read, g)
      <4>1. n.high <= read.high /\ read.high \in Nat
        BY <3>1, HighIsNat DEF Heard, Does, Onward, Open
      <4>2. g.ack # read.high + 1
        BY <1>3, <1>7, <2>2, <4>1
      <4>. QED  BY <4>2 DEF FinAcked
    <3>4. ProcessWait(n, g) = read
      BY <3>1, <3>2, <3>3, NotFinished DEF Open, Mid
    <3>. QED  BY <2>1, <3>1, <3>4
  <2>3. CASE g.flags = {"ACK"} /\ g.ack = w + 2
    <3>1. Acked(read, w, c) /\ read.state = "FIN_WAIT_1" /\ Heard(n, read, g, w, c)
      BY <1>7, <1>12, <1>16, <2>3
    <3>2. ProcessWait(n, g) = ProcessPeerFin(IF read.state = "FIN_WAIT_1" /\ FinAcked(read, g)
                                             THEN [read EXCEPT !.state = "FIN_WAIT_2"] ELSE read, g)
      BY <2>3, ProcessWaitIs
    <3>. HIDE DEF read
    <3>3. FinAcked(read, g)
      BY <2>3, <3>1 DEF FinAcked, Acked, TxSize
    <3>. DEFINE t == [read EXCEPT !.state = "FIN_WAIT_2"]
    <3>4. /\ DOMAIN t = DOMAIN read /\ t.state = "FIN_WAIT_2" /\ t.ep = read.ep /\ t.next = read.next
          /\ t.high = read.high /\ t.highAck = read.highAck /\ t.recover = read.recover
          /\ t.tx = read.tx /\ t.rx = read.rx
          /\ t.retx = read.retx /\ t.out = read.out /\ Sane(t)
      BY <3>1 DEF Acked, Shaped, Sane, Sound, States
    <3>5. ProcessWait(n, g) = ProcessPeerFin(t, g)
      BY <3>1, <3>2, <3>3
    <3>. HIDE DEF t
    <3>6. read.rx = s.rx /\ NoFin(t.rx)
      BY <1>3, <1>7, <3>1, <3>4 DEF Heard
    <3>7. ProcessWait(n, g) = t
      BY <3>5, <3>6, NotFinished
    <3>8. Done(t, w, c)
      BY <3>1, <3>4, <3>6 DEF Done, Acked, Shaped, Sane
    <3>9. Does(n, t, w, c)
      <4>1. read.high \in Nat /\ t.high = read.high
        BY <3>1, <3>4 DEF Acked
      <4>2. Onward(read, t, w, c)
        BY <3>4, <4>1 DEF Onward, FinSent
      <4>3. Does(read, t, w, c)
        BY <3>4, <4>1, <4>2, Silent
      <4>. QED  BY <1>7, <3>1, <4>1, <4>3, DoesThrough DEF Heard
    <3>10. Sender(t, w, c) /\ t.high \in Nat
      <4>1. t.high = w + 1
        BY <3>8 DEF Done, Acked
      <4>. QED  BY <3>8, <4>1, DoneSends
    <3>11. Answers(s, t, g, w, c, o)
      <4>1. /\ read.tx.head \in {n.tx.head, g.ack} /\ read.tx.sacked \subseteq n.tx.sacked \cup g.sack
            /\ read.rx = n.rx
        BY <3>1 DEF Heard
      <4>2. t.tx.head \in {n.tx.head, g.ack} /\ t.tx.sacked \subseteq n.tx.sacked \cup g.sack /\ t.rx = n.rx
        BY <3>4, <4>1
      <4>3. t.rx.next = 2 => n.rx.next = 2 \/ o
        BY <4>2
      <4>4. Heeded(s, n) /\ s.high \in Nat
        BY <1>2, <1>3
      <4>. QED  BY <3>9, <3>10, <4>2, <4>3, <4>4, HeededHears
    <3>. QED  BY <2>1, <3>7, <3>11
  <2>4. CASE g.flags = {"FIN", "ACK"}
    <3>1. g.ack = w + 2 /\ g.seq = 1 /\ o
      BY <2>4, FinComes
    <3>2. Acked(read, w, c) /\ read.state = "FIN_WAIT_1" /\ Heard(n, read, g, w, c)
      BY <1>7, <1>12, <1>16, <2>4, <3>1
    <3>3. ProcessWait(n, g) = ProcessPeerFin([read EXCEPT !.rx = SetFinSequence(@, g.seq)], g)
      BY <2>4, ProcessWaitIs
    <3>. HIDE DEF read
    <3>4. NoFin(read.rx)
      BY <1>3, <1>7, <3>2 DEF Heard
    <3>. DEFINE t == ProcessPeerFin([read EXCEPT !.rx = SetFinSequence(@, g.seq)], g)
    <3>5. Done(t, w, c) /\ Does(read, t, w, c) /\ t.tx = read.tx
      BY <3>1, <3>2, <3>4, PeerFinDone
    <3>. HIDE DEF t
    <3>6. read.high \in Nat /\ t.high \in Nat /\ Sender(t, w, c)
      <4>1. t.high = w + 1 /\ read.high = w + 1
        BY <3>2, <3>5 DEF Done, Acked
      <4>. QED  BY <3>5, <4>1, DoneSends
    <3>7. Does(n, t, w, c)
      BY <1>7, <3>2, <3>5, <3>6, DoesThrough DEF Heard
    <3>8. Answers(s, t, g, w, c, o)
      <4>1. t.tx.head \in {n.tx.head, g.ack} /\ t.tx.sacked \subseteq n.tx.sacked \cup g.sack
        BY <3>2, <3>5 DEF Heard
      <4>2. Heeded(s, n) /\ s.high \in Nat
        BY <1>2, <1>3
      <4>3. t.rx.next = 2 => n.rx.next = 2 \/ o
        BY <3>1
      <4>. QED  BY <3>6, <3>7, <4>1, <4>2, <4>3, HeededHears
    <3>. QED  BY <2>1, <3>3, <3>8 DEF t
  <2>5. CASE g.flags = {"SYN", "ACK"}
    <3>1. ProcessWait(n, g) = n
      BY <2>5, ProcessWaitIs
    <3>2. Open(n, w, c)
      BY <1>4, <1>6, <1>7, <2>5
    <3>. QED  BY <1>9, <2>1, <3>1, <3>2
  <2>6. CASE g.flags = {"RST"}
    <3>1. ProcessWait(n, g) = CloseAndNotify(n)
      BY <2>6, ProcessWaitIs
    <3>2. Open(n, w, c)
      BY <1>4, <1>6, <1>7, <2>6
    <3>. QED  BY <1>10, <2>1, <3>1, <3>2
  <2>. QED  BY <1>14, <2>2, <2>3, <2>4, <2>5, <2>6 DEF Comes
<1>. QED  BY <1>3, <1>7, <1>15, <1>16

\* A segment comes when the FIN has been acknowledged.
LEMMA DoneHears ==
  ASSUME NEW s, NEW g, NEW w \in Nat, NEW c \in BOOLEAN, NEW o, Done(s, w, c), Comes(g, s, w, c, o)
  PROVE  Answers(s, ForwardUp(s, g), g, w, c, o)
<1>. DEFINE n == NoteWindow(s, g)
            read == ReceivedAck(n, g)
<1>1. ForwardUp(s, g) = DoForwardUp(n, g)
  BY ForwardUpIs DEF Comes
<1>2. /\ Heeded(s, n)
      /\ n.highAck = IF "SYN" \in g.flags THEN (IF "ACK" \in g.flags THEN g.ack ELSE s.highAck)
                     ELSE IF "ACK" \in g.flags /\ s.state \notin {"LISTEN", "SYN_SENT", "SYN_RCVD"}
                          THEN Max({s.highAck, g.ack}) ELSE s.highAck
  BY NoteWindowIs DEF Done, Acked
<1>. HIDE DEF n
<1>3. n.highAck \in 0 .. w + 2
  <2>1. s.highAck \in 0 .. w + 2 /\ g.ack \in Nat /\ s.high = w + 1
    BY DEF Done, Acked, Comes
  <2>2. g.ack <= w + 2
    BY <2>1 DEF Comes
  <2>3. Max({s.highAck, g.ack}) \in 0 .. w + 2
    BY <2>1, <2>2, MaxOfTwo
  <2>. QED  BY <1>2, <2>1, <2>2, <2>3
<1>4. Acked(n, w, c) /\ Done(n, w, c)
  BY <1>2, <1>3 DEF Heeded, Done, Acked
<1>5. Sender(n, w, c) /\ Sender(s, w, c)
  BY <1>4, DoneSends
<1>6. s.high \in Nat /\ n.high = s.high /\ n.tx = s.tx /\ n.rx = s.rx /\ n.state = s.state /\ n.out = s.out /\ n.ep = s.ep
  BY <1>2, <1>5 DEF Heeded, Sender
<1>7. Answers(s, n, g, w, c, o)
  BY <1>5, <1>6, SenderSame
<1>8. /\ g.len = 0 /\ g.ack \in Nat /\ g.ack <= w + 2 /\ n.tx.head \notin g.sack
  <2>1. s.high = w + 1
    BY DEF Done, Acked
  <2>. QED  BY <1>6, <2>1 DEF Comes
<1>9. Acked(read, w, c) /\ read.state = n.state /\ Heard(n, read, g, w, c)
  BY <1>4, <1>8, ReceivedAckAcked
<1>. HIDE DEF read
<1>10. read.high \in Nat /\ read.high = w + 1 /\ n.high \in Nat
  BY <1>6, <1>9 DEF Acked
<1>11. CASE n.state = "TIME_WAIT"
  <2>1. ForwardUp(s, g) = n
    BY <1>1, <1>11, Dispatch
  <2>. QED  BY <1>7, <2>1
<1>12. CASE n.state = "FIN_WAIT_2"
  <2>1. ForwardUp(s, g) = ProcessWait(n, g)
    BY <1>1, <1>12, Dispatch
  <2>2. NoFin(n.rx) /\ NoFin(read.rx)
    BY <1>4, <1>9, <1>12 DEF Done, Heard
  <2>3. CASE g.flags = {"ACK"}
    <3>1. ProcessWait(n, g) = ProcessPeerFin(IF read.state = "FIN_WAIT_1" /\ FinAcked(read, g)
                                             THEN [read EXCEPT !.state = "FIN_WAIT_2"] ELSE read, g)
      BY <2>3, ProcessWaitIs DEF read
    <3>2. ProcessWait(n, g) = read
      BY <1>9, <1>12, <2>2, <3>1, NotFinished
    <3>3. Done(read, w, c)
      BY <1>9, <1>12, <2>2 DEF Done
    <3>4. Sender(read, w, c)
      BY <3>3, DoneSends
    <3>5. Answers(s, read, g, w, c, o)
      <4>1. /\ Does(n, read, w, c) /\ read.tx.head \in {n.tx.head, g.ack}
            /\ read.tx.sacked \subseteq n.tx.sacked \cup g.sack /\ read.rx = n.rx
        BY <1>9 DEF Heard
      <4>2. read.rx.next = 2 => n.rx.next = 2 \/ o
        BY <4>1
      <4>3. Heeded(s, n) /\ s.high \in Nat /\ read.high \in Nat
        BY <1>2, <1>6, <1>10
      <4>. QED  BY <3>4, <4>1, <4>2, <4>3, HeededHears
    <3>. QED  BY <2>1, <3>2, <3>5
  <2>4. CASE g.flags = {"FIN", "ACK"}
    <3>. DEFINE t == ProcessPeerFin([read EXCEPT !.rx = SetFinSequence(@, g.seq)], g)
    <3>1. g.seq = 1 /\ o
      BY <2>4, FinComes
    <3>2. ProcessWait(n, g) = t
      BY <2>4, ProcessWaitIs DEF read
    <3>3. read.state \in {"FIN_WAIT_1", "FIN_WAIT_2"} /\ (read.state = "FIN_WAIT_1" => g.ack = w + 2)
      BY <1>9, <1>12
    <3>4. Done(t, w, c) /\ Does(read, t, w, c) /\ t.tx = read.tx
      BY <1>9, <2>2, <3>1, <3>3, PeerFinDone
    <3>. HIDE DEF t
    <3>5. t.high = w + 1
      BY <3>4 DEF Done, Acked
    <3>6. Sender(t, w, c) /\ t.high \in Nat
      BY <3>4, <3>5, DoneSends
    <3>7. Does(n, t, w, c)
      BY <1>9, <1>10, <3>4, <3>6, DoesThrough DEF Heard
    <3>8. Answers(s, t, g, w, c, o)
      <4>1. t.tx.head \in {n.tx.head, g.ack} /\ t.tx.sacked \subseteq n.tx.sacked \cup g.sack
        BY <1>9, <3>4 DEF Heard
      <4>2. Heeded(s, n) /\ s.high \in Nat
        BY <1>2, <1>6
      <4>3. t.rx.next = 2 => n.rx.next = 2 \/ o
        BY <3>1
      <4>. QED  BY <3>6, <3>7, <4>1, <4>2, <4>3, HeededHears
    <3>. QED  BY <2>1, <3>2, <3>8
  <2>5. CASE g.flags = {"SYN", "ACK"}
    BY <1>7, <2>1, <2>5, ProcessWaitIs
  <2>6. CASE g.flags = {"RST"}
    <3>1. Shut(n, CloseAndNotify(n)) /\ CloseAndNotify(n).out = n.out
      BY <1>5, SenderIs, CloseShuts
    <3>3. Answers(s, CloseAndNotify(n), g, w, c, o)
      BY <1>2, <1>5, <1>6, <3>1, ShutHears
    <3>4. ProcessWait(n, g) = CloseAndNotify(n)
      BY <2>6, ProcessWaitIs
    <3>. QED  BY <2>1, <3>3, <3>4
  <2>. QED  BY <2>3, <2>4, <2>5, <2>6 DEF Comes
<1>. QED  BY <1>4, <1>11, <1>12 DEF Done, Acked

\* A socket that is no more is answered for by the node.
LEMMA DeadHears ==
  ASSUME NEW s, NEW g, NEW w \in Nat, NEW c \in BOOLEAN, NEW o, Sender(s, w, c), Dead(s, w, c), Comes(g, s, w, c, o)
  PROVE  Answers(s, Transmit(s, {"RST"}, g.ack, 0, {}), g, w, c, o)
<1>. DEFINE t == Transmit(s, {"RST"}, g.ack, 0, {})
<1>1. Kept(s, t) /\ t.out = Append(s.out, [flags |-> {"RST"}, seq |-> g.ack, len |-> 0, ack |-> s.rx.next, sack |-> {}])
  BY DEF Transmit, Kept, Shaped, Sane, Dead
<1>. HIDE DEF t
<1>2. s.high \in Nat /\ s.high <= w + 1 /\ s.rx.next \in 0 .. 2 /\ g.ack \in Nat /\ g.ack <= w + 3
  <2>1. s.high \in Nat /\ s.high <= w + 1 /\ s.rx.next \in 0 .. 2 /\ g.ack \in Nat
    BY DEF Sender, Dead, Bounded, Comes
  <2>. QED  BY <2>1 DEF Comes
<1>3. Dead(t, w, c)
  BY <1>1 DEF Kept, Dead, Bounded
<1>4. Sender(t, w, c)
  BY <1>1, <1>2, <1>3 DEF Sender, Kept
<1>5. Does(s, t, w, c)
  BY <1>1, <1>2, PlainDoes
<1>6. Answers(s, t, g, w, c, o)
  BY <1>1, <1>4, <1>5 DEF Answers, Kept
<1>. QED  BY <1>6 DEF t

\* ForwardUp at the sender, whatever its socket's state
LEMMA SenderHears ==
  ASSUME NEW s, NEW g, NEW w \in Nat, NEW c \in BOOLEAN, NEW o, Sender(s, w, c), Comes(g, s, w, c, o),
         s.ep = TRUE
  PROVE  Answers(s, ForwardUp(s, g), g, w, c, o)
<1>1. CASE Fresh(s) /\ w = 0
  BY <1>1, FreshHears
<1>2. CASE Open(s, w, c)
  BY <1>2, OpenHears
<1>3. CASE Done(s, w, c)
  BY <1>3, DoneHears
<1>4. ~Dead(s, w, c)
  BY DEF Dead
<1>. QED  BY <1>1, <1>2, <1>3, <1>4 DEF Sender

-----------------------------------------------------------------------------
\* The sender's timers and application.

\* A step of the sender that no segment causes
Goes(s, t, w, c) ==
  /\ Sender(t, w, c) /\ Does(s, t, w, c)
  /\ t.tx.head = s.tx.head /\ t.tx.sacked = s.tx.sacked /\ t.rx = s.rx

\* A call that keeps the sender's socket
LEMMA KeptSender ==
  ASSUME NEW s, NEW t, NEW w \in Nat, NEW c \in BOOLEAN, Sender(s, w, c), Kept(s, t)
  PROVE  Sender(t, w, c)
<1>1. t.high = s.high
  BY DEF Kept
<1>2. Fresh(s) => Fresh(t)
  BY DEF Kept, Fresh
<1>3. Open(s, w, c) => Open(t, w, c)
  BY KeptMid
<1>4. Done(s, w, c) => Done(t, w, c)
  BY KeptAcked DEF Kept, Done
<1>5. Dead(s, w, c) => Dead(t, w, c)
  BY DEF Kept, Dead, Bounded
<1>. QED  BY <1>1, <1>2, <1>3, <1>4, <1>5 DEF Sender

\* ... and says nothing is such a step.
LEMMA KeptGoes ==
  ASSUME NEW s, NEW t, NEW w \in Nat, NEW c \in BOOLEAN, Sender(s, w, c), Kept(s, t), t.out = s.out
  PROVE  Goes(s, t, w, c)
<1>1. s.high \in Nat
  BY DEF Sender
<1>2. Does(s, t, w, c)
  BY <1>1, KeptDoes
<1>. QED  BY <1>2, KeptSender DEF Goes, Kept

\* Two parts of such a step
LEMMA GoesThrough ==
  ASSUME NEW s, NEW t, NEW u, NEW w \in Nat, NEW c \in BOOLEAN, Sender(s, w, c), Goes(s, t, w, c), Goes(t, u, w, c)
  PROVE  Goes(s, u, w, c)
<1>1. s.high \in Nat /\ t.high \in Nat /\ u.high \in Nat
  BY DEF Sender, Goes
<1>2. Does(s, u, w, c)
  BY <1>1, DoesThrough DEF Goes
<1>. QED  BY <1>2 DEF Goes

\* The end of the socket
LEMMA ShutGoes ==
  ASSUME NEW s, NEW t, NEW w \in Nat, NEW c \in BOOLEAN, Sender(s, w, c), Shut(s, t), t.out = s.out
  PROVE  Goes(s, t, w, c)
<1>1. Sender(t, w, c) /\ Onward(s, t, w, c)
  BY ShutDies
<1>2. Does(s, t, w, c)
  BY <1>1, SenderIs, Silent DEF Shut
<1>. QED  BY <1>1, <1>2 DEF Goes, Shut

\* An acknowledgment
LEMMA AckGoes ==
  ASSUME NEW s, NEW w \in Nat, NEW c \in BOOLEAN, Sender(s, w, c)
  PROVE  Goes(s, SendAck(s), w, c)
<1>. DEFINE t == SendAck(s)
<1>1. Shaped(s) /\ s.ep \in BOOLEAN /\ s.high \in Nat /\ s.rx.next \in 0 .. 2
  BY SenderIs
<1>2. t = SendEmptyPacket(s, {"ACK"})
  BY SendAckIs
<1>3. CASE s.ep = TRUE
  <2>1. s.next \in 0 .. w + 2 /\ s.rx.held = {}
    <3>1. Fresh(s) => s.rx.held = {}
      BY DEF Fresh, EmptyRx
    <3>2. Open(s, w, c) => s.rx.held = {}
      BY DEF Open, Mid, NoFin
    <3>3. Done(s, w, c) => s.rx.held = {}
      BY DEF Done, Acked, NoFin, GotFin
    <3>4. ~Dead(s, w, c)
      BY <1>3 DEF Dead
    <3>5. s.next \in 0 .. w + 2
      BY SenderIs DEF Bounded
    <3>. QED  BY <3>1, <3>2, <3>3, <3>4, <3>5 DEF Sender
  <2>2. Kept(s, t) /\ Does(s, t, w, c)
    BY <1>1, <1>2, <2>1, AckSpoken
  <2>3. Sender(t, w, c)
    BY <2>2, KeptSender
  <2>. QED  BY <2>2, <2>3 DEF Goes, Kept
<1>4. CASE s.ep = FALSE
  <2>1. Kept(s, t) /\ (~s.ep => t.out = s.out)
    BY <1>1, <1>2, PlainIs
  <2>2. t.out = s.out
    BY Zenon, <1>4, <2>1
  <2>. QED  BY <2>1, <2>2, KeptGoes
<1>. QED  BY <1>1, <1>3, <1>4

\* SendPendingData, by a timer or by another call
LEMMA PendingGoes ==
  ASSUME NEW s, NEW w \in Nat, NEW c \in BOOLEAN, Sender(s, w, c)
  PROVE  Goes(s, SendPendingData(s), w, c)
<1>. DEFINE t == SendPendingData(s)
<1>1. Shaped(s) /\ s.ep \in BOOLEAN /\ s.high \in Nat /\ TxSize(s.tx) \in Nat
  BY SenderIs DEF TxSize
<1>2. CASE Open(s, w, c)
  <2>1. After(s, t, w, c)
    BY <1>2, SendPendingOpen
  <2>2. Sender(t, w, c)
    BY <2>1, OpenSends DEF After
  <2>. QED  BY <2>1, <2>2 DEF Goes, After
<1>3. CASE ~Open(s, w, c)
  <2>1. Fresh(s) => TxSize(s.tx) = 0
    BY DEF Fresh, EmptyTx, TxSize
  <2>2. Done(s, w, c) => TxSize(s.tx) = 0
    BY DEF Done, Acked, TxSize
  <2>3. Dead(s, w, c) => s.ep = FALSE
    BY DEF Dead
  <2>4. ~s.ep \/ TxSize(s.tx) = 0
    <3>1. s.ep = FALSE \/ TxSize(s.tx) = 0
      BY <1>3, <2>1, <2>2, <2>3 DEF Sender
    <3>. QED  BY Zenon, <3>1
  <2>5. Kept(s, t) /\ t.out = s.out
    BY <1>1, <2>4, SendPendingIdle
  <2>. QED  BY <2>5, KeptGoes
<1>. QED  BY <1>2, <1>3

\* A timer is cancelled.
LEMMA CancelGoes ==
  ASSUME NEW s, NEW w \in Nat, NEW c \in BOOLEAN, Sender(s, w, c),
         NEW timer \in {"delAck", "pacing", "timeWait", "pending"}
  PROVE  Goes(s, Cancel(s, timer), w, c)
BY SenderIs, TimersAreKept, KeptGoes

\* The timer of the delayed acknowledgment
LEMMA DelAckGoes ==
  ASSUME NEW s, NEW w \in Nat, NEW c \in BOOLEAN, Sender(s, w, c)
  PROVE  Goes(s, DelAckTimeout(s), w, c)
<1>. DEFINE u == Cancel(s, "delAck")
            v == [u EXCEPT !.delAck = 0]
<1>1. Goes(s, u, w, c)
  BY CancelGoes
<1>. HIDE DEF u
<1>2. Kept(u, v) /\ v.out = u.out
  BY <1>1, SenderIs DEF Goes, Kept, Shaped, Sane
<1>3. DelAckTimeout(s) = SendAck(v)
  BY DEF DelAckTimeout, u
<1>. HIDE DEF v
<1>4. Goes(u, v, w, c)
  BY <1>1, <1>2, KeptGoes DEF Goes
<1>5. Goes(v, SendAck(v), w, c)
  BY <1>4, AckGoes DEF Goes
<1>6. Sender(u, w, c) /\ Sender(v, w, c)
  BY <1>1, <1>4 DEF Goes
<1>7. Goes(s, v, w, c)
  BY <1>1, <1>4, <1>6, GoesThrough
<1>. QED  BY <1>3, <1>5, <1>7, GoesThrough

\* The timer of pacing
LEMMA PacingGoes ==
  ASSUME NEW s, NEW w \in Nat, NEW c \in BOOLEAN, Sender(s, w, c)
  PROVE  Goes(s, NotifyPacingPerformed(s), w, c)
<1>. DEFINE u == Cancel(s, "pacing")
<1>1. Goes(s, u, w, c)
  BY CancelGoes
<1>. HIDE DEF u
<1>2. Goes(u, SendPendingData(u), w, c)
  BY <1>1, PendingGoes DEF Goes
<1>. QED  BY <1>1, <1>2, GoesThrough DEF NotifyPacingPerformed, u

\* The timer of TIME_WAIT
LEMMA TimeWaitGoes ==
  ASSUME NEW s, NEW w \in Nat, NEW c \in BOOLEAN, Sender(s, w, c)
  PROVE  Goes(s, TimeWaitOver(s), w, c)
<1>. DEFINE u == Cancel(s, "timeWait")
<1>1. Goes(s, u, w, c)
  BY CancelGoes
<1>. HIDE DEF u
<1>2. Sender(u, w, c)
  BY <1>1 DEF Goes
<1>3. Goes(u, CloseAndNotify(u), w, c)
  BY <1>2, SenderIs, CloseShuts, ShutGoes
<1>. QED  BY <1>1, <1>3, GoesThrough DEF TimeWaitOver, u

\* The FIN alone, once all data have been acknowledged
LEMMA FinDoes ==
  ASSUME NEW s, NEW t, NEW w \in Nat, NEW c \in BOOLEAN, c = TRUE, Shaped(s), s.high = w + 1, t.high = w + 1,
         s.ep = TRUE, t.ep = TRUE, t.state = "FIN_WAIT_1", NoFin(s.rx), t.rx = s.rx, s.next = w + 1,
         t.out = Append(s.out, [flags |-> {"FIN", "ACK"}, seq |-> s.next, len |-> 0,
                                ack |-> s.rx.next, sack |-> s.rx.held])
  PROVE  Does(s, t, w, c)
<1>. DEFINE g == [flags |-> {"FIN", "ACK"}, seq |-> s.next, len |-> 0, ack |-> s.rx.next, sack |-> s.rx.held]
<1>1. g.flags = {"FIN", "ACK"} /\ g.seq = w + 1 /\ g.len = 0 /\ g.ack = 1 /\ g.sack = {}
  BY DEF NoFin
<1>2. g \in Segment
  BY DEF Segment, NoFin
<1>3. FinSent(t, w, c)
  BY DEF FinSent
<1>4. t.out = Append(s.out, g)
  OBVIOUS
<1>. HIDE DEF g
<1>5. ToSink(g, t, w, c)
  <2>1. g.seq >= 1 /\ g.seq + g.len = w + 1 /\ g.len \in {0, 1} /\ g.ack \in 0 .. 2 /\ g.ack # 2
    BY <1>1
  <2>. QED  BY <1>1, <1>3, <2>1 DEF ToSink
<1>6. Onward(s, t, w, c) /\ s.high \in Nat /\ t.high \in Nat
  BY <1>3 DEF Onward
<1>. QED  BY <1>2, <1>4, <1>5, <1>6, Says

\* The SYN is one of the segments that the sender may say.
LEMMA SynDoes ==
  ASSUME NEW s, NEW t, NEW w \in Nat, NEW c \in BOOLEAN, s.high = 0, t.high = 0, s.rx.next = 0, t.rx = s.rx,
         t.ep = s.ep, t.state = s.state,
         t.out = Append(s.out, [flags |-> {"SYN"}, seq |-> 0, len |-> 0, ack |-> s.rx.next, sack |-> {}])
  PROVE  Does(s, t, w, c)
<1>. DEFINE g == [flags |-> {"SYN"}, seq |-> 0, len |-> 0, ack |-> s.rx.next, sack |-> {}]
<1>1. g.flags = {"SYN"} /\ g.seq = 0 /\ g.len = 0 /\ g.ack = 0 /\ g.sack = {}
  OBVIOUS
<1>2. g \in Segment
  BY DEF Segment
<1>3. t.out = Append(s.out, g)
  OBVIOUS
<1>. HIDE DEF g
<1>4. ToSink(g, t, w, c)
  BY <1>1 DEF ToSink
<1>5. Onward(s, t, w, c) /\ s.high \in Nat /\ t.high \in Nat
  BY DEF Onward, FinSent
<1>. QED  BY <1>2, <1>3, <1>4, <1>5, Says

\* The SYN, for a timer or the application
LEMMA SynGoes ==
  ASSUME NEW s, NEW c \in BOOLEAN, Fresh(s)
  PROVE  LET t == SendEmptyPacket(s, {"SYN"})
         IN  Goes(s, t, 0, c) /\ ((Fresh(t) /\ t.state = s.state) \/ Dead(t, 0, c))
<1>. DEFINE t == SendEmptyPacket(s, {"SYN"})
<1>1. Shaped(s) /\ s.ep = TRUE /\ s.retx \in {{}, {"SYN"}} /\ s.state \in {"CLOSED", "SYN_SENT"} /\ s.next = 0
      /\ s.high = 0 /\ s.rx = EmptyRx
  BY DEF Fresh
<1>2. \/ Shut(s, t) /\ t.out = s.out /\ t.state = "CLOSED"
      \/ /\ Kept(s, [t EXCEPT !.retx = s.retx])
         /\ t.retx = IF s.retx = {} THEN {"SYN"} ELSE s.retx
         /\ \E seq \in {s.next, s.next + 1} :
              /\ s.state \notin {"FIN_WAIT_1", "LAST_ACK", "CLOSING"} => seq = s.next
              /\ t.out = Append(s.out, [flags |-> {"SYN"}, seq |-> seq, len |-> 0, ack |-> s.rx.next,
                                        sack |-> IF "ACK" \in {"SYN"} THEN s.rx.held ELSE {}])
  BY <1>1, SynIs
<1>. HIDE DEF t
<1>3. Sender(s, 0, c)
  BY <1>1 DEF Sender
<1>4. CASE Shut(s, t) /\ t.out = s.out
  <2>1. Goes(s, t, 0, c)
    BY <1>3, <1>4, ShutGoes
  <2>2. Dead(t, 0, c)
    <3>1. Bounded(s, 0, c)
      BY <1>3, SenderIs
    <3>. QED  BY <1>1, <1>4, <3>1 DEF Shut, Dead, Bounded
  <2>. QED  BY <2>1, <2>2 DEF t
<1>5. CASE /\ Kept(s, [t EXCEPT !.retx = s.retx])
           /\ t.retx = IF s.retx = {} THEN {"SYN"} ELSE s.retx
           /\ \E seq \in {s.next, s.next + 1} :
              /\ s.state \notin {"FIN_WAIT_1", "LAST_ACK", "CLOSING"} => seq = s.next
              /\ t.out = Append(s.out, [flags |-> {"SYN"}, seq |-> seq, len |-> 0, ack |-> s.rx.next,
                                        sack |-> IF "ACK" \in {"SYN"} THEN s.rx.held ELSE {}])
  <2>1. t.out = Append(s.out, [flags |-> {"SYN"}, seq |-> 0, len |-> 0, ack |-> s.rx.next, sack |-> {}])
    BY <1>1, <1>5
  <2>2. /\ Shaped(t) /\ t.state = s.state /\ t.ep = s.ep /\ t.next = s.next /\ t.high = s.high
        /\ t.highAck = s.highAck /\ t.recover = s.recover /\ t.tx = s.tx /\ t.rx = s.rx
        /\ t.closeOnEmpty = s.closeOnEmpty /\ t.retx = {"SYN"} /\ t.cong = s.cong
    BY <1>1, <1>5 DEF Kept, Shaped, Sane
  <2>3. Fresh(t)
    BY <2>2 DEF Fresh
  <2>4. Does(s, t, 0, c)
    <3>1. s.rx.next = 0
      BY <1>1 DEF EmptyRx
    <3>2. s.high = 0 /\ t.high = 0 /\ t.rx = s.rx /\ t.ep = s.ep /\ t.state = s.state /\ 0 \in Nat
      BY <1>1, <2>2
    <3>. QED  BY <2>1, <3>1, <3>2, SynDoes
  <2>5. Sender(t, 0, c)
    BY <1>1, <2>2, <2>3 DEF Sender
  <2>6. Goes(s, t, 0, c)
    BY <2>2, <2>4, <2>5 DEF Goes
  <2>. QED  BY <2>2, <2>3, <2>6 DEF t
<1>. QED  BY <1>2, <1>4, <1>5

\* The FIN, for a timer or the application: nothing is left to be sent or, but
\* for the FIN, to be acknowledged.
LEMMA FinGoes ==
  ASSUME NEW s, NEW w \in Nat, NEW c \in BOOLEAN, Mid(s, w, c), c = TRUE, s.state = "FIN_WAIT_1",
         s.next = w + 1, s.highAck <= s.tx.head, s.tx.head = s.tx.tail \/ s.retx # {},
         NEW wanted \in {{"FIN"}, {"FIN", "ACK"}}
  PROVE  LET t == SendEmptyPacket(s, wanted) IN Open(t, w, c) /\ Goes(s, t, w, c)
<1>. DEFINE t == SendEmptyPacket(s, wanted)
<1>1. Shaped(s) /\ s.ep = TRUE /\ s.high = s.tx.end /\ s.tx.tail = w + 1 /\ s.tx.end = w + 1
      /\ Board(s.tx) /\ NoFin(s.rx)
  BY DEF Mid
<1>2. s.ep \in BOOLEAN
  BY Zenon, <1>1
<1>3. /\ Shaped(t)
      /\ Kept(s, [t EXCEPT !.retx = s.retx])
      /\ t.retx = IF s.ep /\ s.retx = {} THEN {"FIN", "ACK"} ELSE s.retx
      /\ ~s.ep => t.out = s.out
      /\ s.ep => t.out = Append(s.out, [flags |-> {"FIN", "ACK"}, seq |-> s.next, len |-> 0,
                                               ack |-> s.rx.next, sack |-> s.rx.held])
  BY <1>1, <1>2, FinIs
<1>. HIDE DEF t
<1>4. /\ t.retx = IF s.retx = {} THEN {"FIN", "ACK"} ELSE s.retx
      /\ t.out = Append(s.out, [flags |-> {"FIN", "ACK"}, seq |-> s.next, len |-> 0,
                                ack |-> s.rx.next, sack |-> s.rx.held])
  BY Zenon, <1>1, <1>3
<1>5. /\ t.state = s.state /\ t.ep = s.ep /\ t.cong = s.cong /\ t.next = s.next /\ t.high = s.high
      /\ t.highAck = s.highAck /\ t.recover = s.recover /\ t.tx = s.tx /\ t.rx = s.rx
      /\ t.closeOnEmpty = s.closeOnEmpty
  BY <1>3 DEF Kept, Shaped, Sane
<1>6. Mid(t, w, c)
  <2>1. \/ t.retx \in {{}, {"RTO"}}
        \/ t.retx = {"FIN", "ACK"} /\ s.state = "FIN_WAIT_1" /\ s.tx.head = s.tx.tail
    BY <1>4 DEF Mid
  <2>2. Shaped(t)
    BY <1>3
  <2>. QED  BY <1>5, <2>1, <2>2 DEF Mid
<1>7. Open(t, w, c)
  <2>1. t.retx # {}
    BY <1>4
  <2>. QED  BY <1>1, <1>5, <1>6, <2>1 DEF Open, Armed
<1>8. Does(s, t, w, c)
  BY <1>1, <1>4, <1>5, FinDoes
<1>9. Goes(s, t, w, c)
  BY <1>5, <1>7, <1>8, OpenSends DEF Goes
<1>. QED  BY <1>7, <1>9 DEF t

\* The timer of retransmission has expired.
Fired(s) == [s EXCEPT !.retx = {}]

\* It is not running any more.
LEMMA FiredIs ==
  ASSUME NEW s, Shaped(s)
  PROVE  LET t == Fired(s)
         IN  /\ Shaped(t) /\ t.retx = {} /\ t.state = s.state /\ t.ep = s.ep /\ t.cong = s.cong
             /\ t.next = s.next /\ t.high = s.high /\ t.highAck = s.highAck /\ t.recover = s.recover /\ t.tx = s.tx
             /\ t.rx = s.rx /\ t.closeOnEmpty = s.closeOnEmpty /\ t.out = s.out
BY DEF Fired, Shaped, Sane

\* All is taken for lost, and sending starts again.
Lost(s) == [s EXCEPT !.retries = @ - 1, !.dupAcks = 0, !.tx = SetSentListLost(@),
                     !.recover = s.high, !.recoverActive = TRUE, !.cong = "LOSS",
                     !.cwnd = 1, !.timers = @ \ {"pacing"}]

\* All is taken for lost, and the socket stays connected.
LEMMA LostMid ==
  ASSUME NEW s, NEW w \in Nat, NEW c \in BOOLEAN, Mid(s, w, c), s.tx.head < s.tx.tail, s.retries # 0
  PROVE  LET t == Lost(s)
         IN  /\ Mid(t, w, c) /\ t.tx = SetSentListLost(s.tx) /\ t.cwnd = 1 /\ t.timers = s.timers \ {"pacing"}
             /\ t.cong = "LOSS" /\ Does(s, t, w, c) /\ t.highAck = s.highAck /\ t.rx = s.rx
<1>. DEFINE tx == SetSentListLost(s.tx)
            t  == Lost(s)
<1>1. Board(tx) /\ tx.head = s.tx.head /\ tx.end = s.tx.end /\ tx.tail = s.tx.tail /\ tx.sacked = s.tx.sacked
  BY AllLost DEF Mid
<1>2. /\ DOMAIN t = DOMAIN s /\ t.tx = tx /\ t.recover = s.high /\ t.cong = "LOSS" /\ t.cwnd = 1
      /\ t.timers = s.timers \ {"pacing"} /\ t.state = s.state /\ t.ep = s.ep /\ t.next = s.next
      /\ t.high = s.high /\ t.highAck = s.highAck /\ t.rx = s.rx /\ t.closeOnEmpty = s.closeOnEmpty
      /\ t.retx = s.retx /\ t.out = s.out /\ t.dupAcks = 0 /\ t.recoverActive = TRUE /\ t.broken = s.broken
      /\ t.syns = s.syns /\ t.retries = s.retries - 1 /\ t.notice = s.notice
  BY DEF Lost, Mid, Shaped
<1>7. Sane(t)
  <2>1. Sane(s)
    BY DEF Mid, Shaped
  <2>. HIDE DEF tx, t
  <2>2. t.timers \subseteq {"delAck", "pacing", "timeWait", "pending"}
    BY <1>2, <2>1 DEF Sane, Sound
  <2>3. t.retries \in 0 .. DataRetries
    BY <1>2, <2>1, TcpSocketAssumption DEF Sane, Sound
  <2>4. /\ s.state \in States /\ s.broken = FALSE /\ s.syns \in 0 .. SynRetries
        /\ s.notice \in {"none", "normal", "error"}
    BY <2>1 DEF Sane, Sound
  <2>5. t.recoverActive \in BOOLEAN /\ t.broken = FALSE
    BY Zenon, <1>2, <2>4
  <2>6. /\ t.cong \in {"OPEN", "DISORDER", "RECOVERY", "LOSS"} /\ t.cong \notin {"OPEN", "DISORDER"} /\ t.cong # "DISORDER"
        /\ t.dupAcks = 0 /\ t.dupAcks \in Nat
        /\ t.state \in States /\ t.syns \in 0 .. SynRetries /\ t.notice \in {"none", "normal", "error"}
    BY <1>2, <2>4
  <2>. HIDE DEF t
  <2>. QED  BY <2>2, <2>3, <2>5, <2>6 DEF Sane, Sound
<1>. HIDE DEF tx, t
<1>3. s.high \in Nat
  BY HighIsNat
<1>4. Shaped(t)
  BY <1>1, <1>2, <1>7 DEF Shaped, Mid, Board
<1>5. Mid(t, w, c)
  BY <1>1, <1>2, <1>3, <1>4 DEF Mid, Congs
<1>6. Does(s, t, w, c)
  <2>1. Onward(s, t, w, c)
    BY <1>2, <1>3 DEF Onward, FinSent
  <2>. QED  BY <1>2, <1>3, <2>1, Silent
<1>. QED  BY <1>2, <1>5, <1>6 DEF t, tx

\* The window of one segment allows to send the first one.
LEMMA LostMaySend ==
  ASSUME NEW s, NEW w \in Nat, NEW c \in BOOLEAN, Mid(s, w, c), s.tx.head < s.tx.tail, s.retries # 0
  PROVE  BytesInFlight(Lost(s).tx) = 0 /\ MaySend(Cancel(Lost(s), "pending"))
<1>. DEFINE l == Lost(s)
            t == Cancel(l, "pending")
<1>1. /\ Mid(l, w, c) /\ l.tx = SetSentListLost(s.tx) /\ l.cwnd = 1 /\ l.timers = s.timers \ {"pacing"}
      /\ l.cong = "LOSS"
  BY LostMid
<1>. HIDE DEF l
<1>3. t.tx = l.tx /\ t.cwnd = 1 /\ t.timers = l.timers \ {"pending"} /\ t.cong = "LOSS" /\ t.ep = l.ep
  BY <1>1 DEF Cancel, Mid, Shaped
<1>. HIDE DEF t
<1>4. /\ t.tx.head = s.tx.head /\ t.tx.tail = s.tx.tail /\ BytesInFlight(t.tx) = 0
      /\ \A rule3 : NextSegs(t.tx, rule3) # {}
  BY <1>1, <1>3, AllLost DEF Mid
<1>5. t.ep = TRUE
  BY <1>1, <1>3 DEF Mid
<1>6. TxSize(t.tx) > 0
  BY <1>4 DEF TxSize, Mid, Board
<1>7. AvailableWindow(t) > 0
  <2>1. AvailableWindow(t) = Max({0, 1})
    BY <1>3, <1>4 DEF AvailableWindow
  <2>. QED  BY <2>1, MaxOfTwo
<1>8. "pacing" \notin t.timers
  BY <1>1, <1>3
<1>9. NextSeg(t) # {}
  BY <1>4 DEF NextSeg
<1>10. t.cong # "OPEN"
  BY <1>3
<1>11. MaySend(t)
  BY Zenon, <1>5, <1>6, <1>7, <1>8, <1>9, <1>10 DEF MaySend
<1>. QED  BY <1>3, <1>4, <1>11 DEF t, l

\* A segment more in flight
LEMMA CopyFlight ==
  ASSUME NEW tx, Board(tx), NEW seq \in Nat, tx.head <= seq, seq <= tx.end
  PROVE  BytesInFlight(tx) \in Int /\ BytesInFlight(CopyFromSequence(tx, seq)) <= BytesInFlight(tx) + 1
<1>. DEFINE t == CopyFromSequence(tx, seq)
<1>1. tx.head \in Nat /\ tx.end \in Nat /\ tx.head <= tx.end
  BY DEF Board
<1>2. \A m \in Nat : tx.head <= m => /\ IsFiniteSet(tx.head .. m - 1) /\ Cardinality(tx.head .. m - 1) = m - tx.head
  <2>1. TAKE m \in Nat
  <2>2. HAVE tx.head <= m
  <2>3. m - 1 \in Int /\ tx.head \in Int
    BY <1>1
  <2>4. IsFiniteSet(tx.head .. m - 1)
        /\ Cardinality(tx.head .. m - 1) = IF tx.head > m - 1 THEN 0 ELSE (m - 1) - tx.head + 1
    BY <2>3, FS_Interval
  <2>. QED  BY <1>1, <2>2, <2>4
<1>3. IsFiniteSet(tx.sacked) /\ IsFiniteSet(tx.lost) /\ IsFiniteSet(tx.retrans)
  <2>1. IsFiniteSet(Sent(tx))
    BY <1>1, <1>2 DEF Sent
  <2>2. tx.sacked \subseteq Sent(tx) /\ tx.lost \subseteq Sent(tx) /\ tx.retrans \subseteq Sent(tx)
    BY <1>1 DEF Board, Sent
  <2>. QED  BY <2>1, <2>2, FS_Subset
<1>4. Cardinality(tx.sacked) \in Nat /\ Cardinality(tx.lost) \in Nat /\ Cardinality(tx.retrans) \in Nat
  BY <1>3, FS_CardinalityType
<1>5. BytesInFlight(tx) = (tx.end - tx.head) - Cardinality(tx.sacked) - Cardinality(tx.lost)
                          + Cardinality(tx.retrans)
  BY <1>1, <1>2 DEF BytesInFlight, Sent
<1>6. CASE seq < tx.end
  <2>1. /\ t.head = tx.head /\ t.end = tx.end /\ t.sacked = tx.sacked /\ t.lost = tx.lost
        /\ t.retrans = tx.retrans \cup {seq}
    BY <1>6 DEF CopyFromSequence, Board
  <2>2. Cardinality(t.retrans) \in Nat /\ Cardinality(t.retrans) <= Cardinality(tx.retrans) + 1
    <3>1. Cardinality(tx.retrans \cup {seq})
          = IF seq \in tx.retrans THEN Cardinality(tx.retrans) ELSE Cardinality(tx.retrans) + 1
      BY <1>3, FS_AddElement
    <3>. HIDE DEF t
    <3>. QED  BY <1>4, <2>1, <3>1
  <2>. HIDE DEF t
  <2>3. BytesInFlight(t) = (tx.end - tx.head) - Cardinality(tx.sacked) - Cardinality(tx.lost)
                           + Cardinality(t.retrans)
    BY <1>1, <1>2, <2>1 DEF BytesInFlight, Sent
  <2>. QED  BY <1>1, <1>4, <1>5, <2>2, <2>3 DEF t
<1>7. CASE ~(seq < tx.end)
  <2>1. /\ t.head = tx.head /\ t.end = tx.end + 1 /\ t.sacked = tx.sacked /\ t.lost = tx.lost
        /\ t.retrans = tx.retrans
    BY <1>1, <1>7 DEF CopyFromSequence, Board
  <2>. HIDE DEF t
  <2>2. BytesInFlight(t) = (tx.end + 1 - tx.head) - Cardinality(tx.sacked) - Cardinality(tx.lost)
                           + Cardinality(tx.retrans)
    BY <1>1, <1>2, <2>1 DEF BytesInFlight, Sent
  <2>. QED  BY <1>1, <1>4, <1>5, <2>2 DEF t
<1>. QED  BY <1>6, <1>7

\* A window of one segment, and at most one segment in flight
Narrow(s) == Shaped(s) /\ Board(s.tx) /\ "cwnd" \in DOMAIN s /\ s.cwnd = 1 /\ BytesInFlight(s.tx) <= 1

\* SendNext keeps within the window.
LEMMA SendNextNarrow ==
  ASSUME NEW s, Narrow(s)
  PROVE  Narrow(SendNext(s))
<1>1. CASE ~MaySend(s)
  BY <1>1 DEF SendNext
<1>2. CASE MaySend(s)
  <2>. DEFINE D == {Paced([SendDataPacket(s, seq) EXCEPT !.next = seq + 1]) : seq \in NextSeg(s)}
  <2>1. SendNext(s) = CHOOSE after \in D : TRUE
    BY <1>2 DEF SendNext
  <2>2. D # {}
    BY <1>2 DEF MaySend
  <2>3. SendNext(s) \in D
    <3>. HIDE DEF D
    <3>. QED  BY <2>1, <2>2
  <2>4. PICK seq \in NextSeg(s) : SendNext(s) = Paced([SendDataPacket(s, seq) EXCEPT !.next = seq + 1])
    BY <2>3
  <2>5. seq \in Nat /\ s.tx.head <= seq /\ seq <= s.tx.end /\ seq < s.tx.tail
    <3>1. seq \in NextSegs(s.tx, s.cong = "RECOVERY")
      BY <2>4 DEF NextSeg
    <3>. QED  BY <3>1, NextSegsIn DEF Narrow
  <2>. DEFINE u == SendDataPacket(s, seq)
  <2>6. Shaped(u) /\ u.tx = CopyFromSequence(s.tx, seq)
    BY <2>5, DataIs DEF Narrow
  <2>7. "cwnd" \in DOMAIN u /\ u.cwnd = 1
    BY DEF Narrow, Shaped, SendDataPacket, Check, ClearDelAck, Cancel, Transmit
  <2>8. Board(u.tx)
    BY <2>5, <2>6, CopyIs DEF Narrow
  <2>9. BytesInFlight(s.tx) <= 0 /\ BytesInFlight(s.tx) \in Int
    <3>1. BytesInFlight(s.tx) \in Int
      BY <2>5, CopyFlight DEF Narrow
    <3>2. Max({0, 1 - BytesInFlight(s.tx)}) > 0
      BY <1>2 DEF MaySend, AvailableWindow, Narrow
    <3>3. ~(1 - BytesInFlight(s.tx) <= 0)
      <4>1. ASSUME 1 - BytesInFlight(s.tx) <= 0 PROVE Max({0, 1 - BytesInFlight(s.tx)}) = 0
        BY <3>1, <4>1 DEF Max
      <4>. QED  BY <3>2, <4>1
    <3>. QED  BY <3>1, <3>3
  <2>10. BytesInFlight(u.tx) <= 1
    <3>1. BytesInFlight(CopyFromSequence(s.tx, seq)) <= BytesInFlight(s.tx) + 1
      BY <2>5, CopyFlight DEF Narrow
    <3>2. BytesInFlight(u.tx) \in Int
      BY <2>5, <2>6, <2>8, CopyIs, CopyFlight DEF Narrow
    <3>. QED  BY <2>6, <2>9, <3>1, <3>2
  <2>. DEFINE v == [u EXCEPT !.next = seq + 1]
              t == Paced(v)
  <2>. HIDE DEF u
  <2>13. /\ Shaped(v) /\ v.tx = u.tx /\ "cwnd" \in DOMAIN v /\ v.cwnd = 1
    BY <2>6, <2>7 DEF Shaped, Sane
  <2>. HIDE DEF v
  <2>11. /\ Shaped(t) /\ t.tx = u.tx /\ "cwnd" \in DOMAIN t /\ t.cwnd = 1
    BY <2>13, PacedIsKept DEF Kept, Paced, Start
  <2>12. SendNext(s) = t
    BY <2>4 DEF u, v
  <2>. HIDE DEF t
  <2>. QED  BY <2>8, <2>10, <2>11, <2>12 DEF Narrow
<1>. QED  BY <1>1, <1>2

\* ... and so does SendPendingData.
LEMMA SendPendingNarrow ==
  ASSUME NEW s, Narrow(s)
  PROVE  Narrow(SendPendingData(s))
<1>. DEFINE u == Cancel(s, "pending")
            N == TxSize(u.tx)
<1>1. Kept(s, u)
  BY TimersAreKept DEF Narrow
<1>2. "cwnd" \in DOMAIN u /\ u.cwnd = 1
  BY DEF Narrow, Cancel
<1>. HIDE DEF u
<1>3. Narrow(u)
  BY <1>1, <1>2 DEF Narrow, Kept
<1>4. N \in Nat
  BY <1>3 DEF Narrow, Board, TxSize
<1>5. PICK f : Runs(u, N, f) /\ SendAll(u) = f[N]
  BY <1>4, SendAllRuns
<1>. HIDE DEF N
<1>. DEFINE T == {n \in Nat : n <= N => Narrow(f[n])}
<1>6. 0 \in T
  <2>1. f[0] = u
    BY <1>4, <1>5 DEF Runs
  <2>. QED  BY <1>3, <2>1
<1>7. ASSUME NEW n \in T PROVE n + 1 \in T
  <2>1. n \in Nat /\ n + 1 \in Nat
    BY <1>7
  <2>2. CASE n + 1 <= N
    <3>1. Narrow(f[n]) /\ n + 1 \in 0 .. N /\ (n + 1) - 1 = n
      BY <1>4, <1>7, <2>1, <2>2
    <3>2. f[n + 1] = SendNext(f[n])
      BY <1>4, <1>5, <2>1, <3>1 DEF Runs
    <3>3. Narrow(f[n + 1])
      BY <3>1, <3>2, SendNextNarrow
    <3>. QED  BY <2>1, <3>3
  <2>3. CASE ~(n + 1 <= N)
    BY <2>1, <2>3
  <2>. QED  BY <2>2, <2>3
<1>8. N \in T
  <2>. HIDE DEF T
  <2>. QED  BY <1>4, <1>6, <1>7, NatSetInduction DEF T
<1>. QED  BY <1>4, <1>5, <1>8, PendingIs DEF u

\* ReTxTimeout sends the first segment again, and the timer runs again.
LEMMA TimeoutGoes ==
  ASSUME NEW s, NEW w \in Nat, NEW c \in BOOLEAN, Open(s, w, c)
  PROVE  Goes(s, ReTxTimeout(Fired(s)), w, c)
<1>. DEFINE f == Fired(s)
            l == Lost(f)
            p == SendPendingData(l)
            r == ReTxTimeout(f)
<1>1. /\ Shaped(f) /\ f.retx = {} /\ f.state = s.state /\ f.ep = s.ep /\ f.cong = s.cong
      /\ f.next = s.next /\ f.high = s.high /\ f.highAck = s.highAck /\ f.recover = s.recover /\ f.tx = s.tx
      /\ f.rx = s.rx /\ f.closeOnEmpty = s.closeOnEmpty /\ f.out = s.out
  BY FiredIs DEF Open, Mid
<1>. HIDE DEF f
<1>2. r = IF f.state \in {"CLOSED", "TIME_WAIT"} THEN f
          ELSE IF TxSize(f.tx) = 0
               THEN IF f.state \in {"FIN_WAIT_1", "CLOSING"} THEN SendEmptyPacket(f, {"FIN"}) ELSE f
          ELSE IF f.retries = 0 THEN DeallocateEndPoint(NotifyErrorClose(f))
          ELSE LET sent == SendPendingData(Check(l, BytesInFlight(l.tx) = 0))
               IN  Check(sent, BytesInFlight(sent.tx) <= 1)
  BY Zenon DEF ReTxTimeout, Lost
<1>. HIDE DEF r
<1>3. s.high \in Nat /\ Sender(s, w, c)
  BY HighIsNat, OpenSends DEF Open
<1>4. Mid(f, w, c) /\ f.highAck <= f.tx.head /\ (f.tx.head = f.tx.tail => f.next = f.tx.head)
  BY <1>1 DEF Open, Mid
<1>5. f.state \notin {"CLOSED", "TIME_WAIT"} /\ f.state \in {"ESTABLISHED", "FIN_WAIT_1"} /\ f.high \in Nat
  BY <1>1, <1>3, <1>4 DEF Mid
<1>6. Does(s, f, w, c)
  <2>1. Onward(s, f, w, c)
    BY <1>1, <1>3 DEF Onward, FinSent
  <2>. QED  BY <1>1, <1>3, <2>1, Silent
<1>7. /\ f.tx.head \in Nat /\ f.tx.end \in Nat /\ f.tx.tail \in Nat /\ f.tx.head <= f.tx.end /\ f.tx.end <= f.tx.tail
      /\ f.tx.tail = w + 1 /\ TxSize(f.tx) = f.tx.tail - f.tx.head
  BY <1>4 DEF Mid, Board, TxSize
<1>8. ASSUME TxSize(f.tx) = 0 /\ f.state = "FIN_WAIT_1"
      PROVE  Goes(s, r, w, c)
  <2>. DEFINE t == SendEmptyPacket(f, {"FIN"})
  <2>1. r = t
    BY <1>2, <1>5, <1>8
  <2>2. c = TRUE /\ f.next = w + 1 /\ f.tx.head = f.tx.tail
    BY <1>4, <1>7, <1>8 DEF Mid
  <2>3. Open(t, w, c) /\ Goes(f, t, w, c)
    BY <1>4, <1>8, <2>2, FinGoes
  <2>. HIDE DEF t
  <2>4. t.high \in Nat
    BY <2>3 DEF Goes, Sender
  <2>5. Does(s, t, w, c)
    BY <1>3, <1>5, <1>6, <2>3, <2>4, DoesThrough DEF Goes
  <2>. QED  BY <1>1, <2>1, <2>3, <2>5 DEF Goes
<1>9. ASSUME TxSize(f.tx) = 0 /\ f.state # "FIN_WAIT_1"
      PROVE  Goes(s, r, w, c)
  <2>1. r = f
    BY <1>2, <1>5, <1>9
  <2>2. Open(f, w, c)
    BY <1>4, <1>7, <1>9 DEF Open, Armed
  <2>. QED  BY <1>1, <1>6, <2>1, <2>2, OpenSends DEF Goes
<1>10. ASSUME TxSize(f.tx) # 0 /\ f.retries = 0
      PROVE  Goes(s, r, w, c)
  <2>. DEFINE t == DeallocateEndPoint(NotifyErrorClose(f))
  <2>1. r = t
    BY <1>2, <1>5, <1>10
  <2>2. f.ep = TRUE
    BY <1>4 DEF Mid
  <2>3. f.ep \in BOOLEAN /\ Ended(f)
    BY Zenon, <2>2 DEF Ended
  <2>4. Shut(f, t) /\ t.out = f.out
    BY <1>1, <2>3, ErrorShuts
  <2>. HIDE DEF t
  <2>5. Shut(s, t) /\ t.out = s.out
    BY <1>1, <2>4 DEF Shut
  <2>. QED  BY <1>3, <2>1, <2>5, ShutGoes
<1>11. ASSUME TxSize(f.tx) # 0 /\ f.retries # 0
      PROVE  Goes(s, r, w, c)
  <2>2. f.tx.head < f.tx.tail
    BY <1>7, <1>11
  <2>3. BytesInFlight(l.tx) = 0 /\ MaySend(Cancel(l, "pending"))
    BY <1>4, <1>11, <2>2, LostMaySend
  <2>1. r = Check(p, BytesInFlight(p.tx) <= 1)
    <3>1. Check(l, BytesInFlight(l.tx) = 0) = l
      BY <2>3 DEF Check
    <3>. HIDE DEF l
    <3>. QED  BY <1>2, <1>5, <1>11, <3>1
  <2>4. /\ Mid(l, w, c) /\ Does(f, l, w, c) /\ l.tx = SetSentListLost(f.tx) /\ l.highAck = f.highAck
        /\ l.rx = f.rx /\ l.cwnd = 1
    BY <1>4, <1>11, <2>2, LostMid
  <2>5. l.tx.head = f.tx.head /\ l.tx.tail = f.tx.tail /\ l.tx.sacked = f.tx.sacked
    BY <1>4, <2>2, <2>4, AllLost DEF Mid
  <2>. HIDE DEF l
  <2>7. l.highAck <= l.tx.head /\ l.tx.head < l.tx.tail
    BY <1>4, <2>2, <2>4, <2>5
  <2>8. After(l, p, w, c)
    BY <2>3, <2>4, <2>7, SendPendingMid
  <2>6. Narrow(l)
    <3>1. "cwnd" \in DOMAIN l
      BY <2>4 DEF Mid, Shaped
    <3>. QED  BY <2>3, <2>4, <3>1 DEF Narrow, Mid
  <2>. HIDE DEF p
  <2>9. r = p
    <3>1. Narrow(p)
      BY <2>6, SendPendingNarrow DEF p
    <3>. QED  BY <2>1, <3>1 DEF Narrow, Check
  <2>10. l.high \in Nat
    BY <2>4, HighIsNat
  <2>11. After(l, r, w, c)
    BY <2>8, <2>9
  <2>12. Does(s, r, w, c)
    <3>1. r.high \in Nat
      BY <2>11, HighIsNat DEF After, Open
    <3>2. Does(s, l, w, c)
      BY <1>3, <1>5, <1>6, <2>4, <2>10, DoesThrough
    <3>. QED  BY <1>3, <2>10, <2>11, <3>1, <3>2, DoesThrough DEF After
  <2>13. r.tx.head = s.tx.head /\ r.tx.sacked = s.tx.sacked /\ r.rx = s.rx
    BY <1>1, <2>4, <2>5, <2>11 DEF After
  <2>14. Sender(r, w, c)
    BY <2>11, OpenSends DEF After
  <2>. QED  BY <2>12, <2>13, <2>14 DEF Goes
<1>12. Goes(s, r, w, c)
  BY <1>8, <1>9, <1>10, <1>11
<1>. QED  BY <1>12 DEF r, f

\* The expiry itself says nothing.
LEMMA FiredDoes ==
  ASSUME NEW s, NEW w \in Nat, NEW c \in BOOLEAN, Shaped(s), s.high \in Nat
  PROVE  Does(s, Fired(s), w, c)
<1>. DEFINE f == Fired(s)
<1>1. f.high = s.high /\ f.rx = s.rx /\ f.ep = s.ep /\ f.state = s.state /\ f.out = s.out
  BY FiredIs
<1>. HIDE DEF f
<1>2. Onward(s, f, w, c)
  BY <1>1 DEF Onward, FinSent
<1>3. Does(s, f, w, c)
  BY <1>1, <1>2, Silent
<1>. QED  BY <1>3 DEF f

\* The expiry of the timer of data, or of a kept segment
LEMMA RetxEventIs ==
  ASSUME NEW s
  PROVE  /\ s.retx = {"RTO"} => RetxEvent(s) = ReTxTimeout(Fired(s))
         /\ s.retx # {"RTO"} => RetxEvent(s) = SendEmptyPacket(Fired(s), s.retx)
BY Zenon DEF RetxEvent, Fired

\* The timer of the sender: the SYN, the data or the FIN is sent again.
LEMMA RetxGoes ==
  ASSUME NEW s, NEW w \in Nat, NEW c \in BOOLEAN, Sender(s, w, c), s.retx # {}
  PROVE  Goes(s, RetxEvent(s), w, c)
<1>. DEFINE f == Fired(s)
            r == RetxEvent(s)
<1>1. Shaped(s) /\ s.high \in Nat
  BY SenderIs
<1>2. /\ Shaped(f) /\ f.retx = {} /\ f.state = s.state /\ f.ep = s.ep /\ f.cong = s.cong
      /\ f.next = s.next /\ f.high = s.high /\ f.highAck = s.highAck /\ f.recover = s.recover /\ f.tx = s.tx
      /\ f.rx = s.rx /\ f.closeOnEmpty = s.closeOnEmpty /\ f.out = s.out
  BY <1>1, FiredIs
<1>3. Does(s, f, w, c)
  BY <1>1, FiredDoes
<1>4. (s.retx = {"RTO"} => r = ReTxTimeout(f)) /\ (s.retx # {"RTO"} => r = SendEmptyPacket(f, s.retx))
  BY RetxEventIs
<1>5. ASSUME Open(s, w, c), s.retx = {"RTO"}
      PROVE  Goes(s, r, w, c)
  BY <1>4, <1>5, TimeoutGoes
<1>. HIDE DEF f, r
<1>6. ASSUME Open(s, w, c), s.retx # {"RTO"}
      PROVE  Goes(s, r, w, c)
  <2>1. s.retx = {"FIN", "ACK"} /\ s.state = "FIN_WAIT_1" /\ s.tx.head = s.tx.tail /\ s.tx.tail = w + 1
    BY <1>6 DEF Open, Mid
  <2>2. s.next = w + 1 /\ s.highAck <= s.tx.head /\ c = TRUE
    BY <1>6, <2>1 DEF Open, Mid
  <2>3. Mid(f, w, c)
    BY <1>2, <1>6 DEF Open, Mid
  <2>4. r = SendEmptyPacket(f, {"FIN", "ACK"})
    BY <1>4, <2>1
  <2>5. Goes(f, r, w, c)
    BY <1>2, <2>1, <2>2, <2>3, <2>4, FinGoes
  <2>6. r.high \in Nat
    BY <2>5 DEF Goes, Sender
  <2>7. Does(s, r, w, c)
    BY <1>1, <1>2, <1>3, <2>5, <2>6, DoesThrough DEF Goes
  <2>. QED  BY <1>2, <2>5, <2>7 DEF Goes
<1>7. ASSUME Fresh(s), w = 0
      PROVE  Goes(s, r, w, c)
  <2>1. s.retx = {"SYN"} /\ Fresh(f)
    BY <1>2, <1>7 DEF Fresh
  <2>2. r = SendEmptyPacket(f, {"SYN"})
    BY <1>4, <2>1
  <2>3. Goes(f, r, w, c)
    BY <1>7, <2>1, <2>2, SynGoes
  <2>4. Goes(s, f, w, c)
    BY <1>2, <1>3, <1>7, <2>1 DEF Goes, Sender, Fresh
  <2>. QED  BY <2>3, <2>4, GoesThrough
<1>8. ASSUME Done(s, w, c)
      PROVE  Goes(s, r, w, c)
  <2>1. Done(f, w, c) /\ s.retx = {"RTO"} /\ f.state \in {"TIME_WAIT", "FIN_WAIT_2"} /\ TxSize(f.tx) = 0
    BY <1>2, <1>8 DEF Done, Acked, TxSize
  <2>2. r = f
    BY <1>4, <2>1 DEF ReTxTimeout
  <2>. QED  BY <1>2, <1>3, <2>1, <2>2, DoneSends DEF Goes
<1>9. ~Dead(s, w, c)
  BY DEF Dead
<1>10. Goes(s, r, w, c)
  BY <1>5, <1>6, <1>7, <1>8, <1>9 DEF Sender
<1>. QED  BY <1>10 DEF r

\* The application connects.
LEMMA ConnectGoes ==
  ASSUME NEW s, NEW c \in BOOLEAN, Fresh(s)
  PROVE  Goes(s, Connect(s), 0, c)
<1>. DEFINE u == [s EXCEPT !.syns = SynRetries, !.retries = DataRetries]
            v == SendEmptyPacket(u, {"SYN"})
            t == Connect(s)
<1>1. Kept(s, u) /\ u.out = s.out
  BY TcpSocketAssumption DEF Fresh, Kept, Shaped, Sane, Sound
<1>2. t = [v EXCEPT !.state = "SYN_SENT"]
  BY DEF Connect
<1>3. Sender(s, 0, c) /\ s.high = 0
  BY DEF Sender, Fresh
<1>. HIDE DEF u
<1>4. Fresh(u) /\ Goes(s, u, 0, c)
  BY <1>1, <1>3, KeptGoes DEF Fresh, Kept
<1>5. Goes(u, v, 0, c) /\ (Fresh(v) \/ Dead(v, 0, c))
  BY <1>4, SynGoes
<1>. HIDE DEF v, t
<1>6. Goes(s, v, 0, c)
  BY <1>3, <1>4, <1>5, GoesThrough
<1>7. Shaped(v) /\ v.high \in Nat /\ v.high <= 0 + 1
  BY <1>5 DEF Goes, Sender, Fresh, Dead
<1>8. /\ Shaped(t) /\ t.state = "SYN_SENT" /\ t.ep = v.ep /\ t.next = v.next /\ t.high = v.high
      /\ t.highAck = v.highAck /\ t.recover = v.recover /\ t.tx = v.tx /\ t.rx = v.rx
      /\ t.closeOnEmpty = v.closeOnEmpty /\ t.retx = v.retx /\ t.out = v.out /\ t.cong = v.cong
  BY <1>2, <1>7 DEF Shaped, Sane, Sound, States
<1>9. Fresh(t) \/ Dead(t, 0, c)
  BY <1>5, <1>8 DEF Fresh, Dead, Bounded
<1>10. Sender(t, 0, c)
  BY <1>7, <1>8, <1>9 DEF Sender
<1>11. Onward(v, t, 0, c)
  BY <1>5, <1>7, <1>8 DEF Onward, FinSent, Fresh, Dead
<1>12. Does(v, t, 0, c)
  BY <1>7, <1>8, <1>11, Silent
<1>13. Does(s, t, 0, c)
  BY <1>3, <1>6, <1>7, <1>8, <1>12, DoesThrough DEF Goes
<1>. QED  BY <1>6, <1>8, <1>10, <1>13 DEF Goes, t

\* One segment more, while the application is at work
LEMMA SendGoes ==
  ASSUME NEW s, NEW w \in Nat, Sender(s, w, FALSE), s.state \in {"ESTABLISHED", "CLOSE_WAIT"}
  PROVE  LET t == Send(s)
         IN  /\ Sender(t, w + 1, FALSE) /\ t.out = s.out /\ t.high = s.high /\ t.rx = s.rx
             /\ t.tx.head = s.tx.head /\ t.tx.sacked = s.tx.sacked
<1>. DEFINE u == [s EXCEPT !.tx.tail = @ + 1]
            t == Send(s)
<1>1. Shaped(s)
  BY SenderIs
<1>2. /\ Shaped(u) /\ u.state = s.state /\ u.ep = s.ep /\ u.cong = s.cong
      /\ u.next = s.next /\ u.high = s.high /\ u.highAck = s.highAck /\ u.recover = s.recover
      /\ u.rx = s.rx /\ u.closeOnEmpty = s.closeOnEmpty /\ u.retx = s.retx /\ u.out = s.out
      /\ DOMAIN u.tx = DOMAIN s.tx /\ u.tx.head = s.tx.head /\ u.tx.end = s.tx.end /\ u.tx.tail = s.tx.tail + 1
      /\ u.tx.sacked = s.tx.sacked /\ u.tx.lost = s.tx.lost /\ u.tx.retrans = s.tx.retrans
  BY <1>1 DEF Shaped, Sane
<1>3. t = IF AvailableWindow(s) > 0 THEN Start(u, "pending") ELSE u
  BY DEF Send
<1>. HIDE DEF u, t
<1>4. Kept(u, t) /\ t.out = u.out
  <2>1. Kept(u, u)
    BY <1>2 DEF Kept
  <2>. QED  BY <1>2, <1>3, <2>1, TimersAreKept
<1>5. Sender(u, w + 1, FALSE)
  <2>1. ASSUME Open(s, w, FALSE)
        PROVE  Open(u, w + 1, FALSE)
    <3>1. s.state # "FIN_WAIT_1" /\ s.tx.head <= s.tx.tail /\ s.tx.end <= s.tx.tail /\ s.tx.head \in Nat
          /\ s.tx.tail = w + 1
      BY <2>1 DEF Open, Mid, Board
    <3>2. u.tx.head # u.tx.tail /\ u.tx.tail = w + 2
      BY <1>2, <3>1
    <3>3. Board(u.tx)
      BY <1>2, <2>1 DEF Open, Mid, Board, Sent
    <3>. QED  BY <1>2, <2>1, <3>1, <3>2, <3>3 DEF Open, Mid, Armed
  <2>2. ~Done(s, w, FALSE) /\ ~Fresh(s)
    BY DEF Done, Acked, Fresh
  <2>3. Dead(s, w, FALSE) => Dead(u, w + 1, FALSE)
    <3>1. Board(s.tx) => Board(u.tx)
      BY <1>2 DEF Board, Sent
    <3>. QED  BY <1>2, <3>1 DEF Dead, Bounded, Board
  <2>4. s.high \in Nat /\ s.high <= w + 1
    BY DEF Sender
  <2>5. Open(s, w, FALSE) \/ Dead(s, w, FALSE)
    BY <2>2 DEF Sender
  <2>6. u.high \in Nat /\ u.high <= (w + 1) + 1
    BY <1>2, <2>4
  <2>. QED  BY <2>1, <2>3, <2>5, <2>6 DEF Sender
<1>6. Sender(t, w + 1, FALSE)
  <2>1. w + 1 \in Nat /\ FALSE \in BOOLEAN
    OBVIOUS
  <2>. QED  BY <1>4, <1>5, <2>1, KeptSender
<1>. QED  BY <1>2, <1>4, <1>6 DEF Kept, t

\* That the application has closed changes nothing of the socket.
LEMMA SenderClosed ==
  ASSUME NEW s, NEW w \in Nat, Sender(s, w, FALSE)
  PROVE  Sender(s, w, TRUE)
<1>1. Open(s, w, FALSE) => Open(s, w, TRUE)
  BY DEF Open, Mid
<1>2. ~Done(s, w, FALSE)
  BY DEF Done, Acked
<1>3. Dead(s, w, FALSE) => Dead(s, w, TRUE)
  BY DEF Dead, Bounded
<1>. QED  BY <1>1, <1>2, <1>3 DEF Sender

\* A reset is one of the segments that the sender may say.
LEMMA RstDoes ==
  ASSUME NEW s, NEW t, NEW w \in Nat, NEW c \in BOOLEAN, s.high \in Nat, s.rx.next \in 0 .. 2, Shut(s, t),
         NEW seq \in Nat, seq <= w + 3,
         t.out = Append(s.out, [flags |-> {"RST"}, seq |-> seq, len |-> 0, ack |-> s.rx.next, sack |-> {}])
  PROVE  Does(s, t, w, c)
<1>. DEFINE g == [flags |-> {"RST"}, seq |-> seq, len |-> 0, ack |-> s.rx.next, sack |-> {}]
<1>1. g \in Segment
  BY DEF Segment
<1>2. ToSink(g, t, w, c)
  BY DEF ToSink, Shut
<1>3. Onward(s, t, w, c) /\ t.high \in Nat
  BY DEF Onward, FinSent, Shut
<1>4. t.out = Append(s.out, g)
  OBVIOUS
<1>. HIDE DEF g
<1>. QED  BY <1>1, <1>2, <1>3, <1>4, Says

\* SendRST, by the sender
LEMMA RstGoes ==
  ASSUME NEW s, NEW w \in Nat, NEW c \in BOOLEAN, Sender(s, w, c)
  PROVE  LET t == SendRST(s) IN Shut(s, t) /\ Goes(s, t, w, c)
<1>. DEFINE t == SendRST(s)
<1>1. Shaped(s) /\ s.ep \in BOOLEAN /\ Ended(s) /\ s.high \in Nat /\ s.rx.next \in 0 .. 2 /\ s.next \in 0 .. w + 2
  BY SenderIs DEF Bounded
<1>2. /\ Shut(s, t)
      /\ ~s.ep => t.out = s.out
      /\ s.ep => \E seq \in {s.next, s.next + 1} :
            t.out = Append(s.out, [flags |-> {"RST"}, seq |-> seq, len |-> 0, ack |-> s.rx.next, sack |-> {}])
  BY <1>1, RstShuts
<1>. HIDE DEF t
<1>3. Sender(t, w, c)
  BY <1>2, ShutDies
<1>4. ASSUME s.ep = FALSE
      PROVE  Shut(s, t) /\ Goes(s, t, w, c)
  <2>1. t.out = s.out
    BY Zenon, <1>2, <1>4
  <2>. QED  BY <1>2, <2>1, ShutGoes
<1>5. ASSUME s.ep = TRUE
      PROVE  Shut(s, t) /\ Goes(s, t, w, c)
  <2>1. \E seq \in {s.next, s.next + 1} :
            t.out = Append(s.out, [flags |-> {"RST"}, seq |-> seq, len |-> 0, ack |-> s.rx.next, sack |-> {}])
    BY Zenon, <1>2, <1>5
  <2>2. PICK seq \in {s.next, s.next + 1} :
            t.out = Append(s.out, [flags |-> {"RST"}, seq |-> seq, len |-> 0, ack |-> s.rx.next, sack |-> {}])
    BY <2>1
  <2>3. seq \in Nat /\ seq <= w + 3
    BY <1>1
  <2>4. Does(s, t, w, c)
    BY <1>1, <1>2, <2>2, <2>3, RstDoes
  <2>. QED  BY <1>2, <1>3, <2>4 DEF Goes, Shut
<1>6. s.ep = TRUE \/ s.ep = FALSE
  BY Zenon, <1>1
<1>. QED  BY <1>4, <1>5, <1>6 DEF t

\* DoClose, by state
LEMMA DoCloseIs ==
  ASSUME NEW s
  PROVE  /\ s.state \in {"SYN_RCVD", "ESTABLISHED"} =>
              DoClose(s) = [SendEmptyPacket(s, {"FIN"}) EXCEPT !.state = "FIN_WAIT_1"]
         /\ s.state = "CLOSE_WAIT" =>
              DoClose(s) = [SendEmptyPacket(s, {"FIN", "ACK"}) EXCEPT !.state = "LAST_ACK"]
         /\ s.state \in {"SYN_SENT", "CLOSING"} => DoClose(s) = CloseAndNotify(SendRST(s))
         /\ s.state \notin {"SYN_RCVD", "ESTABLISHED", "CLOSE_WAIT", "SYN_SENT", "CLOSING"} => DoClose(s) = s
<1>. DEFINE a == [SendEmptyPacket(s, {"FIN"}) EXCEPT !.state = "FIN_WAIT_1"]
            b == [SendEmptyPacket(s, {"FIN", "ACK"}) EXCEPT !.state = "LAST_ACK"]
            d == CloseAndNotify(SendRST(s))
<1>1. DoClose(s) = CASE s.state \in {"SYN_RCVD", "ESTABLISHED"} -> a
                     [] s.state = "CLOSE_WAIT" -> b
                     [] s.state \in {"SYN_SENT", "CLOSING"} -> d
                     [] OTHER -> s
  BY Zenon DEF DoClose
<1>. HIDE DEF a, b, d
<1>2. /\ s.state \in {"SYN_RCVD", "ESTABLISHED"} => DoClose(s) = a
      /\ s.state = "CLOSE_WAIT" => DoClose(s) = b
      /\ s.state \in {"SYN_SENT", "CLOSING"} => DoClose(s) = d
      /\ s.state \notin {"SYN_RCVD", "ESTABLISHED", "CLOSE_WAIT", "SYN_SENT", "CLOSING"} => DoClose(s) = s
  BY <1>1
<1>. QED  BY <1>2 DEF a, b, d

\* What closes without a word
LEMMA DeadSame ==
  ASSUME NEW s, NEW t, NEW w \in Nat, NEW c \in BOOLEAN, Sender(s, w, c), Dead(s, w, c), Shaped(t), t.ep = FALSE,
         t.retx = {}, t.tx = s.tx, t.rx = s.rx, t.next = s.next, t.high = s.high, t.highAck = s.highAck,
         t.recover = s.recover, t.out = s.out
  PROVE  Goes(s, t, w, c)
<1>1. Sender(t, w, c) /\ s.high \in Nat
  BY DEF Sender, Dead, Bounded
<1>2. Onward(s, t, w, c)
  BY <1>1 DEF Onward, FinSent
<1>. QED  BY <1>1, <1>2, Silent DEF Goes

\* DoClose without an end point
LEMMA DoCloseDead ==
  ASSUME NEW s, NEW w \in Nat, NEW c \in BOOLEAN, Sender(s, w, c), Dead(s, w, c)
  PROVE  Goes(s, DoClose(s), w, c)
<1>. DEFINE t == DoClose(s)
<1>1. Shaped(s) /\ s.ep = FALSE /\ s.retx = {}
  BY DEF Dead
<1>2. s.ep \in BOOLEAN /\ ~s.ep
  BY Zenon, <1>1
<1>3. ASSUME NEW wanted \in {{"FIN"}, {"FIN", "ACK"}}, NEW state \in States
      PROVE  Goes(s, [SendEmptyPacket(s, wanted) EXCEPT !.state = state], w, c)
  <2>. DEFINE u == SendEmptyPacket(s, wanted)
              v == [u EXCEPT !.state = state]
  <2>1. /\ Shaped(u)
        /\ Kept(s, [u EXCEPT !.retx = s.retx])
        /\ u.retx = IF s.ep /\ s.retx = {} THEN {"FIN", "ACK"} ELSE s.retx
        /\ ~s.ep => u.out = s.out
    BY <1>1, <1>2, FinIs
  <2>. HIDE DEF u
  <2>2. u.retx = s.retx /\ u.out = s.out
    BY Zenon, <1>2, <2>1
  <2>3. u.ep = s.ep /\ u.tx = s.tx /\ u.rx = s.rx /\ u.high = s.high /\ u.next = s.next /\ u.highAck = s.highAck
        /\ u.recover = s.recover
    BY <2>1 DEF Kept, Shaped, Sane
  <2>4. /\ Shaped(v) /\ v.ep = FALSE /\ v.retx = {} /\ v.tx = s.tx /\ v.rx = s.rx /\ v.high = s.high
        /\ v.next = s.next /\ v.highAck = s.highAck /\ v.recover = s.recover /\ v.out = s.out
    BY <1>1, <2>1, <2>2, <2>3 DEF Shaped, Sane, Sound
  <2>. HIDE DEF v
  <2>5. Goes(s, v, w, c)
    BY <2>4, DeadSame
  <2>. QED  BY <2>5 DEF v, u
<1>4. Goes(s, CloseAndNotify(SendRST(s)), w, c)
  <2>. DEFINE u == SendRST(s)
  <2>1. Shut(s, u) /\ Goes(s, u, w, c)
    BY <1>1, RstGoes
  <2>. HIDE DEF u
  <2>2. Sender(u, w, c)
    BY <2>1 DEF Goes
  <2>3. Goes(u, CloseAndNotify(u), w, c)
    BY <2>2, SenderIs, CloseShuts, ShutGoes
  <2>. QED  BY <2>1, <2>3, GoesThrough DEF u
<1>5. Goes(s, s, w, c)
  <2>1. Kept(s, s)
    BY <1>1 DEF Kept
  <2>. QED  BY <2>1, KeptGoes
<1>. QED  BY <1>3, <1>4, <1>5, DoCloseIs DEF States

\* ... before the connection is there: a reset
LEMMA DoCloseFresh ==
  ASSUME NEW s, NEW c \in BOOLEAN, Fresh(s)
  PROVE  Goes(s, DoClose(s), 0, c)
<1>1. Sender(s, 0, c) /\ 0 \in Nat /\ s.next \in Nat /\ s.state \in {"CLOSED", "SYN_SENT"} /\ Shaped(s)
  BY DEF Sender, Fresh
<1>2. Goes(s, CloseAndNotify(SendRST(s)), 0, c)
  <2>. DEFINE u == SendRST(s)
  <2>1. Shut(s, u) /\ Goes(s, u, 0, c)
    BY <1>1, RstGoes
  <2>. HIDE DEF u
  <2>2. Goes(u, CloseAndNotify(u), 0, c)
    BY <2>1, SenderIs, CloseShuts, ShutGoes DEF Goes
  <2>. QED  BY <1>1, <2>1, <2>2, GoesThrough DEF u
<1>3. Goes(s, s, 0, c)
  <2>1. Kept(s, s)
    BY <1>1 DEF Kept
  <2>. QED  BY <1>1, <2>1, KeptGoes
<1>. QED  BY <1>1, <1>2, <1>3, DoCloseIs

\* ... when all data have been sent: the FIN alone
LEMMA DoCloseOpen ==
  ASSUME NEW s, NEW w \in Nat, Open(s, w, TRUE), s.state = "ESTABLISHED", s.next = w + 1
  PROVE  Goes(s, DoClose(s), w, TRUE)
<1>. DEFINE u == SendEmptyPacket(s, {"FIN"})
            t == [u EXCEPT !.state = "FIN_WAIT_1"]
<1>1. Shaped(s) /\ s.ep = TRUE /\ Board(s.tx) /\ s.tx.tail = w + 1 /\ s.high = s.tx.end /\ NoFin(s.rx)
      /\ s.retx \in {{}, {"RTO"}} /\ s.next <= s.tx.end /\ (s.retx = {} => s.tx.head = s.tx.end)
  BY DEF Open, Mid, Armed
<1>2. s.ep \in BOOLEAN
  BY Zenon, <1>1
<1>3. /\ Shaped(u)
      /\ Kept(s, [u EXCEPT !.retx = s.retx])
      /\ u.retx = IF s.ep /\ s.retx = {} THEN {"FIN", "ACK"} ELSE s.retx
      /\ ~s.ep => u.out = s.out
      /\ s.ep => u.out = Append(s.out, [flags |-> {"FIN", "ACK"}, seq |-> s.next, len |-> 0,
                                        ack |-> s.rx.next, sack |-> s.rx.held])
  BY <1>1, <1>2, FinIs
<1>. HIDE DEF u
<1>4. /\ u.retx = IF s.retx = {} THEN {"FIN", "ACK"} ELSE s.retx
      /\ u.out = Append(s.out, [flags |-> {"FIN", "ACK"}, seq |-> s.next, len |-> 0,
                                ack |-> s.rx.next, sack |-> s.rx.held])
  BY Zenon, <1>1, <1>3
<1>5. /\ u.ep = s.ep /\ u.cong = s.cong /\ u.next = s.next /\ u.high = s.high
      /\ u.highAck = s.highAck /\ u.recover = s.recover /\ u.tx = s.tx /\ u.rx = s.rx
      /\ u.closeOnEmpty = s.closeOnEmpty
  BY <1>3 DEF Kept, Shaped, Sane
<1>6. /\ Shaped(t) /\ t.state = "FIN_WAIT_1" /\ t.ep = s.ep /\ t.cong = s.cong /\ t.next = s.next /\ t.high = s.high
      /\ t.highAck = s.highAck /\ t.recover = s.recover /\ t.tx = s.tx /\ t.rx = s.rx
      /\ t.closeOnEmpty = s.closeOnEmpty /\ t.retx = u.retx /\ t.out = u.out
  BY <1>3, <1>5 DEF Shaped, Sane, Sound, States
<1>7. DoClose(s) = t
  BY DoCloseIs DEF u
<1>. HIDE DEF t
<1>8. s.tx.end = w + 1 /\ s.tx.end = s.tx.tail /\ s.high = w + 1
  BY <1>1 DEF Board
<1>9. t.retx = {"RTO"} \/ (t.retx = {"FIN", "ACK"} /\ s.tx.head = s.tx.tail)
  BY <1>1, <1>4, <1>6, <1>8
<1>10. Mid(t, w, TRUE)
  BY <1>6, <1>8, <1>9 DEF Open, Mid
<1>11. Open(t, w, TRUE)
  <2>1. t.retx # {}
    BY <1>9
  <2>. QED  BY <1>6, <1>10, <2>1 DEF Open, Armed
<1>12. Does(s, t, w, TRUE)
  <2>1. t.high = w + 1 /\ t.ep = TRUE /\ TRUE \in BOOLEAN
    BY <1>1, <1>6, <1>8
  <2>. QED  BY <1>1, <1>4, <1>6, <1>8, <2>1, FinDoes
<1>13. Goes(s, t, w, TRUE)
  BY <1>6, <1>11, <1>12, OpenSends DEF Goes
<1>. QED  BY <1>7, <1>13

\* The application closes.
LEMMA CloseGoes ==
  ASSUME NEW s, NEW w \in Nat, Sender(s, w, TRUE)
  PROVE  Goes(s, Close(s), w, TRUE)
<1>. DEFINE e == [s EXCEPT !.closeOnEmpty = TRUE]
<1>1. Shaped(s) /\ s.high \in Nat
  BY SenderIs
<1>2. /\ Shaped(e) /\ e.state = s.state /\ e.ep = s.ep /\ e.cong = s.cong /\ e.next = s.next /\ e.high = s.high
      /\ e.highAck = s.highAck /\ e.recover = s.recover /\ e.tx = s.tx /\ e.rx = s.rx
      /\ e.retx = s.retx /\ e.out = s.out /\ e.closeOnEmpty = TRUE
  BY <1>1 DEF Shaped, Sane
<1>3. Close(s) = IF s.rx.held # {} THEN SendRST(s) ELSE IF SizeFrom(s.tx, s.next) > 0 THEN e ELSE DoClose(s)
  BY DEF Close
<1>. HIDE DEF e
<1>4. Does(s, e, w, TRUE)
  <2>1. Onward(s, e, w, TRUE)
    BY <1>1, <1>2 DEF Onward, FinSent
  <2>. QED  BY <1>1, <1>2, <2>1, Silent
<1>5. Goes(s, s, w, TRUE)
  <2>1. Kept(s, s)
    BY <1>1 DEF Kept
  <2>. QED  BY <2>1, KeptGoes
<1>6. ASSUME Open(s, w, TRUE)
      PROVE  Goes(s, Close(s), w, TRUE)
  <2>1. s.rx.held = {} /\ s.next \in Nat /\ s.next <= s.tx.end /\ s.tx.end <= s.tx.tail /\ s.tx.tail = w + 1
        /\ s.tx.end \in Nat /\ s.state \in {"ESTABLISHED", "FIN_WAIT_1"}
    BY <1>6 DEF Open, Mid, NoFin, Board
  <2>2. Sender(e, w, TRUE)
    <3>1. Open(e, w, TRUE)
      BY <1>2, <1>6 DEF Open, Mid, Armed
    <3>. QED  BY <3>1, OpenSends
  <2>3. Goes(s, e, w, TRUE)
    BY <1>2, <1>4, <2>2 DEF Goes
  <2>4. ASSUME SizeFrom(s.tx, s.next) = 0
        PROVE  s.next = w + 1
    BY <2>1, <2>4 DEF SizeFrom
  <2>5. SizeFrom(s.tx, s.next) \in Nat
    BY <2>1 DEF SizeFrom
  <2>6. ASSUME SizeFrom(s.tx, s.next) = 0
        PROVE  Goes(s, DoClose(s), w, TRUE)
    BY <1>5, <1>6, <2>1, <2>4, <2>6, DoCloseOpen, DoCloseIs
  <2>7. SizeFrom(s.tx, s.next) > 0 \/ SizeFrom(s.tx, s.next) = 0
    BY <2>5
  <2>8. SizeFrom(s.tx, s.next) > 0 => Close(s) = e
    BY <1>3, <2>1
  <2>9. SizeFrom(s.tx, s.next) = 0 => Close(s) = DoClose(s)
    BY <1>3, <2>1
  <2>. QED  BY <2>3, <2>6, <2>7, <2>8, <2>9
<1>7. ASSUME Done(s, w, TRUE)
      PROVE  Goes(s, Close(s), w, TRUE)
  <2>1. s.rx.held = {} /\ s.state \in {"FIN_WAIT_2", "TIME_WAIT"}
    BY <1>7 DEF Done, Acked, NoFin, GotFin
  <2>2. Done(e, w, TRUE)
    BY <1>2, <1>7 DEF Done, Acked
  <2>3. Goes(s, e, w, TRUE)
    BY <1>2, <1>4, <2>2, DoneSends DEF Goes
  <2>. QED  BY <1>3, <1>5, <2>1, <2>3, DoCloseIs
<1>8. ASSUME Fresh(s), w = 0
      PROVE  Goes(s, Close(s), w, TRUE)
  <2>1. s.rx.held = {} /\ SizeFrom(s.tx, s.next) = 0
    BY <1>8 DEF Fresh, EmptyTx, EmptyRx, SizeFrom
  <2>2. Goes(s, DoClose(s), 0, TRUE)
    BY <1>8, DoCloseFresh
  <2>3. Close(s) = DoClose(s)
    BY <1>3, <2>1
  <2>. QED  BY <1>8, <2>2, <2>3
<1>9. ASSUME Dead(s, w, TRUE)
      PROVE  Goes(s, Close(s), w, TRUE)
  <2>1. Goes(s, SendRST(s), w, TRUE)
    BY RstGoes
  <2>2. Goes(s, DoClose(s), w, TRUE)
    BY <1>9, DoCloseDead
  <2>3. Goes(s, e, w, TRUE)
    BY <1>2, <1>9, DeadSame DEF Dead
  <2>. QED  BY <1>3, <2>1, <2>2, <2>3
<1>. QED  BY <1>6, <1>7, <1>8, <1>9 DEF Sender

-----------------------------------------------------------------------------
\* The buffer of reception of the sink.

\* The fields of a buffer of reception
HasFields(rx) == {"next", "held", "fin", "read"} \subseteq DOMAIN rx

\* Up to next - 1 all has been read, what is held lies beyond a gap, and a FIN is known or not.
Partial(rx, h, w, f) ==
  /\ rx.next \in Nat /\ rx.next >= 1 /\ (rx.next <= h \/ rx.next = 1) /\ rx.read = rx.next - 1
  /\ rx.held \subseteq rx.next + 1 .. h - 1
  /\ rx.fin # 0 => rx.fin = w + 1 /\ rx.next <= w /\ rx.fin \in f

\* All has been read, and the FIN.
Whole(rx, w, f) == rx.fin = w + 1 /\ rx.next = w + 2 /\ rx.read = w /\ rx.held = {} /\ rx.fin \in f

\* The buffer of reception of the sink, when the sender's highest number is h, w segments have
\* been written, and f is the set of the number of its FIN or empty
RxOK(rx, h, w, f) ==
  /\ HasFields(rx)
  /\ \/ rx.next = 0 /\ rx.read = 0 /\ rx.held = {} /\ rx.fin = 0
     \/ Partial(rx, h, w, f)
     \/ Whole(rx, w, f)

\* The segments received, read or held
Received(rx) == rx.held \cup 1 .. rx.read

\* The receiver forgets nothing.
Gains(rx, after) == rx.next <= after.next /\ Received(rx) \subseteq Received(after)

\* The number of segments in a stretch without a gap
LEMMA IntervalSize ==
  ASSUME NEW a \in Nat, NEW b \in Nat, a <= b
  PROVE  IsFiniteSet(a .. b - 1) /\ Cardinality(a .. b - 1) = b - a
<1>1. /\ a \in Int /\ b - 1 \in Int
  OBVIOUS
<1>2. IsFiniteSet(a .. b - 1) /\ Cardinality(a .. b - 1) = IF a > b - 1 THEN 0 ELSE (b - 1) - a + 1
  BY <1>1, FS_Interval
<1>. QED  BY <1>2

\* FirstGap is the first number that is not held: all before it are.
LEMMA FirstGapIs ==
  ASSUME NEW held \in SUBSET Nat, IsFiniteSet(held), NEW n \in Nat
  PROVE  LET m == FirstGap(held, n) IN m \in Nat /\ n <= m /\ m \notin held /\ n .. m - 1 \subseteq held
<1>. DEFINE k == Cardinality(held)
            S == {m \in Nat : m >= n /\ m \notin held}
<1>1. k \in Nat
  BY FS_CardinalityType
<1>2. S # {}
  <2>1. SUFFICES ASSUME n .. n + k \subseteq held PROVE FALSE
    BY <1>1
  <2>2. Cardinality(n .. n + k) = k + 1
    BY <1>1, FS_Interval
  <2>3. Cardinality(n .. n + k) <= k
    BY <2>1, FS_Subset
  <2>. QED  BY <1>1, <2>2, <2>3
<1>3. PICK m \in S : \A j \in S : m <= j
  BY <1>2, LeastNatural
<1>4. n .. m - 1 \subseteq held
  BY <1>3
<1>5. m <= n + k
  <2>1. Cardinality(n .. m - 1) = m - n
    BY <1>3, IntervalSize
  <2>2. Cardinality(n .. m - 1) <= k
    BY <1>4, FS_Subset
  <2>. QED  BY <1>1, <1>3, <2>1, <2>2
<1>6. \E i \in n .. n + k : i \notin held /\ n .. i - 1 \subseteq held
  BY <1>1, <1>3, <1>4, <1>5
<1>7. FirstGap(held, n) \in n .. n + k /\ FirstGap(held, n) \notin held /\ n .. FirstGap(held, n) - 1 \subseteq held
  BY <1>6 DEF FirstGap
<1>. HIDE DEF k
<1>. QED  BY <1>1, <1>7

\* CountFin counts the FIN when all before it has come.
LEMMA CountFinIs ==
  ASSUME NEW rx, HasFields(rx)
  PROVE  LET t == CountFin(rx)
         IN  /\ HasFields(t) /\ t.held = rx.held /\ t.read = rx.read /\ t.fin = rx.fin
             /\ t.next = IF rx.fin # 0 /\ rx.next = rx.fin THEN rx.next + 1 ELSE rx.next
BY DEF CountFin, HasFields

\* A segment that fills a gap, or comes beyond one
LEMMA AddIs ==
  ASSUME NEW rx, NEW h \in Nat, NEW w \in Nat, NEW f, h <= w + 1, HasFields(rx), Partial(rx, h, w, f),
         NEW seq \in Nat, seq <= h - 1, CanAdd(rx, seq)
  PROVE  LET t == Add(rx, seq)
         IN  /\ HasFields(t) /\ t.fin = rx.fin /\ Gains(rx, t)
             /\ Partial(t, h, w, f) \/ Whole(t, w, f)
             /\ seq = rx.next => rx.next < t.next
<1>. DEFINE S == rx.held \cup {seq}
            m == FirstGap(S, rx.next)
            B == {n \in S : n < m}
            u == [rx EXCEPT !.next = m, !.held = {n \in @ \cup {seq} : n > m}, !.read = @ + Cardinality(B)]
            t == Add(rx, seq)
<1>1. t = CountFin(u)
  BY DEF Add
<1>2. /\ rx.next \in Nat /\ rx.next >= 1 /\ rx.read = rx.next - 1 /\ (rx.next <= h \/ rx.next = 1)
      /\ rx.held \subseteq rx.next + 1 .. h - 1
      /\ seq >= rx.next
  BY DEF Partial, CanAdd
<1>3. S \subseteq rx.next .. h - 1 /\ IsFiniteSet(S) /\ S \in SUBSET Nat
  <2>1. S \subseteq rx.next .. h - 1
    BY <1>2
  <2>2. IsFiniteSet(rx.next .. h - 1)
    <3>1. rx.next \in Int /\ h - 1 \in Int
      BY <1>2
    <3>. QED  BY <3>1, FS_Interval
  <2>. QED  BY <1>2, <2>1, <2>2, FS_Subset
<1>. HIDE DEF S
<1>4. m \in Nat /\ rx.next <= m /\ m \notin S /\ rx.next .. m - 1 \subseteq S
  BY <1>2, <1>3, FirstGapIs
<1>. HIDE DEF m
<1>5. B = rx.next .. m - 1
  <2>1. ASSUME NEW n \in S, n < m PROVE n \in rx.next .. m - 1
    BY <1>2, <1>3, <1>4, <2>1
  <2>2. ASSUME NEW n \in rx.next .. m - 1 PROVE n \in S /\ n < m
    BY <1>2, <1>4
  <2>. QED  BY <2>1, <2>2
<1>6. Cardinality(B) = m - rx.next
  BY <1>2, <1>4, <1>5, IntervalSize
<1>. HIDE DEF B
<1>7. /\ HasFields(u) /\ u.fin = rx.fin /\ u.next = m /\ u.held = {n \in S : n > m} /\ u.read = m - 1
  <2>1. HasFields(u) /\ u.fin = rx.fin /\ u.next = m /\ u.held = {n \in S : n > m} /\ u.read = rx.read + Cardinality(B)
    BY DEF HasFields, S
  <2>2. rx.read + Cardinality(B) = m - 1
    BY <1>2, <1>4, <1>6
  <2>. QED  BY <2>1, <2>2
<1>. HIDE DEF u
<1>8. m <= h \/ m = 1
  <2>1. CASE m = rx.next
    BY <1>2, <2>1
  <2>2. CASE m # rx.next
    <3>1. m - 1 \in S
      BY <1>2, <1>4, <2>2
    <3>. QED  BY <1>2, <1>3, <1>4, <3>1
  <2>. QED  BY <2>1, <2>2
<1>9. u.held \subseteq m + 1 .. h - 1
  <2>1. ASSUME NEW n \in S, n > m PROVE n \in m + 1 .. h - 1
    BY <1>2, <1>3, <1>4, <2>1
  <2>. QED  BY <1>7, <2>1
<1>10. Received(rx) \subseteq Received(u)
  <2>1. ASSUME NEW n \in rx.held PROVE n \in u.held \cup 1 .. u.read
    <3>1. n \in S /\ n \in Nat /\ n >= 1 /\ n # m
      BY <1>2, <1>3, <1>4 DEF S
    <3>. QED  BY <1>4, <1>7, <3>1
  <2>2. 1 .. rx.read \subseteq 1 .. u.read
    BY <1>2, <1>4, <1>7
  <2>. QED  BY <2>1, <2>2 DEF Received
<1>11. /\ HasFields(t) /\ t.held = u.held /\ t.read = u.read /\ t.fin = u.fin
       /\ t.next = IF u.fin # 0 /\ u.next = u.fin THEN u.next + 1 ELSE u.next
  BY <1>1, <1>7, CountFinIs
<1>. HIDE DEF t
<1>12. Gains(rx, t)
  <2>1. Received(t) = Received(u)
    BY <1>11 DEF Received
  <2>2. rx.next <= t.next
    BY <1>2, <1>4, <1>7, <1>11
  <2>. QED  BY <1>10, <2>1, <2>2 DEF Gains
<1>0. seq = rx.next => rx.next < t.next
  <2>1. SUFFICES ASSUME seq = rx.next PROVE m <= t.next /\ rx.next < m
    BY <1>2, <1>4, <1>7, <1>11
  <2>2. seq \in S
    BY DEF S
  <2>3. m # rx.next
    BY <1>4, <2>1, <2>2
  <2>. QED  BY <1>2, <1>4, <1>7, <1>11, <2>3
<1>13. CASE u.fin # 0 /\ u.next = u.fin
  <2>1. m = w + 1 /\ w + 1 \in f /\ t.next = w + 2 /\ t.fin = w + 1 /\ t.read = w
    BY <1>4, <1>7, <1>11, <1>13 DEF Partial
  <2>2. t.held = {}
    BY <1>9, <1>11, <2>1
  <2>3. Whole(t, w, f)
    BY <2>1, <2>2 DEF Whole
  <2>. QED  BY <1>0, <1>7, <1>11, <1>12, <2>3 DEF t
<1>14. CASE ~(u.fin # 0 /\ u.next = u.fin)
  <2>1. t.next = m
    BY <1>7, <1>11, <1>14
  <2>2. t.fin # 0 => t.fin = w + 1 /\ m <= w /\ t.fin \in f
    <3>1. SUFFICES ASSUME t.fin # 0 PROVE t.fin = w + 1 /\ m <= w /\ t.fin \in f
      OBVIOUS
    <3>2. rx.fin = w + 1 /\ rx.fin \in f /\ m # w + 1 /\ rx.next <= w
      BY <1>7, <1>11, <1>14, <3>1 DEF Partial
    <3>. QED  BY <1>2, <1>4, <1>7, <1>8, <1>11, <3>2
  <2>3. t.held \subseteq m + 1 .. h - 1 /\ t.read = m - 1
    BY <1>7, <1>9, <1>11
  <2>4. Partial(t, h, w, f)
    BY <1>2, <1>4, <1>8, <2>1, <2>2, <2>3 DEF Partial
  <2>. QED  BY <1>0, <1>7, <1>11, <1>12, <2>4 DEF t
<1>. QED  BY <1>13, <1>14

\* The FIN
LEMMA SetFinIs ==
  ASSUME NEW rx, NEW h \in Nat, NEW w \in Nat, NEW f, h <= w + 1, w + 1 \in f, HasFields(rx),
         Partial(rx, h, w, f) \/ Whole(rx, w, f)
  PROVE  LET t == SetFinSequence(rx, w + 1)
         IN  /\ HasFields(t) /\ t.fin = w + 1 /\ t.held = rx.held /\ Gains(rx, t)
             /\ Partial(t, h, w, f) \/ Whole(t, w, f)
             /\ t.next = IF rx.next = w + 1 THEN w + 2 ELSE rx.next
<1>. DEFINE u == [rx EXCEPT !.fin = w + 1]
            t == SetFinSequence(rx, w + 1)
<1>1. t = CountFin(u)
  BY DEF SetFinSequence
<1>2. HasFields(u) /\ u.next = rx.next /\ u.held = rx.held /\ u.fin = w + 1 /\ u.read = rx.read
  BY DEF HasFields
<1>. HIDE DEF u
<1>3. /\ HasFields(t) /\ t.held = rx.held /\ t.read = rx.read /\ t.fin = w + 1
      /\ t.next = IF rx.next = w + 1 THEN w + 2 ELSE rx.next
  <2>1. /\ HasFields(t) /\ t.held = u.held /\ t.read = u.read /\ t.fin = u.fin
        /\ t.next = IF u.fin # 0 /\ u.next = u.fin THEN u.next + 1 ELSE u.next
    BY <1>1, <1>2, CountFinIs
  <2>2. w + 1 # 0 /\ (w + 1) + 1 = w + 2
    OBVIOUS
  <2>. QED  BY <1>2, <2>1, <2>2
<1>. HIDE DEF t
<1>4. rx.next \in Nat
  BY DEF Partial, Whole
<1>5. Gains(rx, t)
  BY <1>3, <1>4 DEF Gains, Received
<1>6. Partial(t, h, w, f) \/ Whole(t, w, f)
  <2>1. CASE Whole(rx, w, f)
    BY <1>3, <2>1 DEF Whole
  <2>2. CASE Partial(rx, h, w, f) /\ rx.next = w + 1
    <3>1. rx.held = {} /\ rx.read = w
      BY <2>2 DEF Partial
    <3>. QED  BY <1>3, <2>2, <3>1 DEF Whole
  <2>3. CASE Partial(rx, h, w, f) /\ rx.next # w + 1
    <3>1. rx.next <= w
      BY <2>3 DEF Partial
    <3>. QED  BY <1>3, <2>3, <3>1 DEF Partial
  <2>. QED  BY <2>1, <2>2, <2>3
<1>. QED  BY <1>3, <1>5, <1>6 DEF t

-----------------------------------------------------------------------------
\* The sink, connected.

\* What the sink says in the course of a handler
Reports(rx) ==
  {g \in Segment : /\ g.len = 0 /\ g.ack = rx.next /\ g.sack \in {{}, rx.held}
                   /\ \/ g.flags \in {{"ACK"}, {"RST"}} /\ g.seq <= 2
                      \/ g.flags = {"SYN", "ACK"} /\ g.seq = 0 /\ g.ack = 1}

\* Nothing else has been said in this handler.
Reporting(s) == s.out \in Seq(Reports(s.rx))

\* The sink's buffer of transmission: it has sent its SYN, and writes nothing.
Idle == [EmptyTx EXCEPT !.head = 1, !.end = 1, !.tail = 1]

\* Its numbers: nothing but its SYN and its FIN count.
Humble(s) ==
  s.next \in 0 .. 1 /\ s.high \in 0 .. 1 /\ s.highAck \in 0 .. 2 /\ s.recover = 0 /\ s.cong = "OPEN"

\* Connected
Live(s) ==
  /\ Shaped(s) /\ Humble(s) /\ s.ep = TRUE /\ s.next = 1 /\ s.high = 1 /\ s.tx = Idle /\ s.retx = {}

\* The sink's socket in the course of a handler: connected, with a good buffer of reception
Ready(s, h, w, f) ==
  /\ Live(s) /\ Reporting(s)
  /\ Partial(s.rx, h, w, f) \/ Whole(s.rx, w, f)

\* What that says
LEMMA ReadyIs ==
  ASSUME NEW s, NEW h, NEW w, NEW f, Ready(s, h, w, f)
  PROVE  /\ Shaped(s) /\ Humble(s) /\ s.ep = TRUE /\ s.next = 1 /\ s.high = 1 /\ s.tx = Idle /\ s.retx = {}
         /\ Partial(s.rx, h, w, f) \/ Whole(s.rx, w, f)
         /\ Reporting(s)
BY DEF Ready, Live

\* A call that keeps the socket keeps it ready.
LEMMA KeptReady ==
  ASSUME NEW s, NEW t, NEW h, NEW w, NEW f, Ready(s, h, w, f), Kept(s, t), t.out = s.out
  PROVE  Ready(t, h, w, f)
BY DEF Ready, Live, Kept, Reporting, Humble

\* The number expected is a number, and the stream has ended exactly when all has been read.
LEMMA NextIsNat ==
  ASSUME NEW rx, NEW h \in Nat, NEW w \in Nat, NEW f, Partial(rx, h, w, f) \/ Whole(rx, w, f)
  PROVE  rx.next \in Nat /\ rx.next >= 1 /\ rx.held \in SUBSET Nat /\ rx.fin \in {0, w + 1}
         /\ (Finished(rx) <=> Whole(rx, w, f))
BY DEF Partial, Whole, Finished

\* One more segment
LEMMA ReportsMore ==
  ASSUME NEW s, NEW t, Reporting(s), t.rx = s.rx, NEW g \in Reports(s.rx), t.out = Append(s.out, g)
  PROVE  Reporting(t)
BY DEF Reporting

\* An acknowledgment or a reset tells what has been received.
LEMMA AckReports ==
  ASSUME NEW s, Shaped(s), s.ep \in BOOLEAN, s.next \in 0 .. 1, s.rx.next \in Nat, s.rx.held \in SUBSET Nat,
         Reporting(s), NEW flags \in {{"ACK"}, {"RST"}}
  PROVE  LET t == SendEmptyPacket(s, flags) IN Kept(s, t) /\ Reporting(t)
<1>. DEFINE t == SendEmptyPacket(s, flags)
<1>1. /\ Kept(s, t)
      /\ ~s.ep => t.out = s.out
      /\ s.ep => \E seq \in {s.next, s.next + 1} :
            t.out = Append(s.out, [flags |-> flags, seq |-> seq, len |-> 0, ack |-> s.rx.next,
                                   sack |-> IF "ACK" \in flags THEN s.rx.held ELSE {}])
  BY PlainIs
<1>. HIDE DEF t
<1>2. t.rx = s.rx
  BY <1>1 DEF Kept
<1>3. ASSUME s.ep = FALSE PROVE Reporting(t)
  <2>1. t.out = s.out
    BY Zenon, <1>1, <1>3
  <2>. QED  BY <1>2, <2>1 DEF Reporting
<1>4. ASSUME s.ep = TRUE PROVE Reporting(t)
  <2>1. \E seq \in {s.next, s.next + 1} :
            t.out = Append(s.out, [flags |-> flags, seq |-> seq, len |-> 0, ack |-> s.rx.next,
                                   sack |-> IF "ACK" \in flags THEN s.rx.held ELSE {}])
    BY Zenon, <1>1, <1>4
  <2>2. PICK seq \in {s.next, s.next + 1} :
            t.out = Append(s.out, [flags |-> flags, seq |-> seq, len |-> 0, ack |-> s.rx.next,
                                   sack |-> IF "ACK" \in flags THEN s.rx.held ELSE {}])
    BY <2>1
  <2>. DEFINE g == [flags |-> flags, seq |-> seq, len |-> 0, ack |-> s.rx.next,
                    sack |-> IF "ACK" \in flags THEN s.rx.held ELSE {}]
  <2>3. g \in Segment /\ g.len = 0 /\ g.ack = s.rx.next /\ g.sack \in {{}, s.rx.held} /\ g.flags \in {{"ACK"}, {"RST"}}
        /\ g.seq <= 2
    BY DEF Segment
  <2>4. t.out = Append(s.out, g)
    BY <2>2
  <2>. HIDE DEF g
  <2>5. g \in Reports(s.rx)
    BY <2>3 DEF Reports
  <2>. QED  BY <1>2, <2>4, <2>5, ReportsMore
<1>5. s.ep = TRUE \/ s.ep = FALSE
  BY Zenon
<1>. QED  BY <1>1, <1>3, <1>4, <1>5 DEF t

\* SendAck, by a ready socket
LEMMA AckReady ==
  ASSUME NEW s, NEW h \in Nat, NEW w \in Nat, NEW f, Ready(s, h, w, f)
  PROVE  Kept(s, SendAck(s)) /\ Ready(SendAck(s), h, w, f)
<1>. DEFINE t == SendAck(s)
<1>1. Shaped(s) /\ s.ep = TRUE /\ s.next \in 0 .. 1 /\ s.rx.next \in Nat /\ s.rx.held \in SUBSET Nat /\ Reporting(s)
  <2>1. Partial(s.rx, h, w, f) \/ Whole(s.rx, w, f)
    BY ReadyIs
  <2>2. Shaped(s) /\ s.ep = TRUE /\ s.next = 1 /\ Reporting(s)
    BY ReadyIs
  <2>. QED  BY <2>1, <2>2, NextIsNat
<1>2. s.ep \in BOOLEAN
  BY Zenon, <1>1
<1>3. Kept(s, t) /\ Reporting(t)
  BY <1>1, <1>2, AckReports, SendAckIs
<1>. HIDE DEF t
<1>4. Ready(t, h, w, f)
  BY <1>3 DEF Ready, Live, Kept, Humble
<1>. QED  BY <1>3, <1>4 DEF t

\* The acknowledgment of data, at once or delayed
LEMMA AckDataReady ==
  ASSUME NEW s, NEW h \in Nat, NEW w \in Nat, NEW f, Ready(s, h, w, f), NEW filled
  PROVE  Kept(s, AckData(s, filled)) /\ Ready(AckData(s, filled), h, w, f)
<1>. DEFINE d == [s EXCEPT !.delAck = @ + 1]
            e == Start(d, "delAck")
<1>1. AckData(s, filled) \in {SendAck(s), e}
  BY DEF AckData
<1>0. Shaped(s)
  BY ReadyIs
<1>2. Kept(s, d) /\ d.out = s.out
  BY <1>0 DEF Kept, Shaped, Sane
<1>. HIDE DEF d
<1>3. Kept(d, e) /\ e.out = d.out
  BY <1>2, TimersAreKept DEF Kept
<1>. HIDE DEF e
<1>4. Kept(s, e) /\ e.out = s.out
  BY <1>2, <1>3, KeptThrough
<1>. QED  BY <1>1, <1>4, KeptReady, AckReady

\* DoPeerClose: the application is told of the end, and all is acknowledged.
LEMMA DoPeerCloseReady ==
  ASSUME NEW s, NEW h \in Nat, NEW w \in Nat, NEW f, Ready(s, h, w, f), s.state \in {"ESTABLISHED", "SYN_RCVD"}
  PROVE  LET t == DoPeerClose(s) IN Ready(t, h, w, f) /\ t.rx = s.rx /\ t.state = "CLOSE_WAIT"
<1>. DEFINE b == Check(s, s.state \in {"ESTABLISHED", "SYN_RCVD", "FIN_WAIT_1", "FIN_WAIT_2"})
            u == [b EXCEPT !.state = "CLOSE_WAIT"]
            v == NotifyNormalClose(u)
            t == DoPeerClose(s)
<1>1. t = SendAck(v)
  BY DEF DoPeerClose
<1>0. Shaped(s)
  BY ReadyIs
<1>2. Kept(s, b) /\ b.out = s.out
  BY <1>0 DEF Check, Kept
<1>. HIDE DEF b
<1>3. Ready(b, h, w, f) /\ b.rx = s.rx
  BY <1>2, KeptReady DEF Kept
<1>4. Shaped(u) /\ u.state = "CLOSE_WAIT" /\ u.ep = b.ep /\ u.next = b.next /\ u.high = b.high /\ u.tx = b.tx
      /\ u.rx = b.rx /\ u.retx = b.retx /\ u.out = b.out /\ u.highAck = b.highAck /\ u.recover = b.recover
      /\ u.cong = b.cong
  <2>1. Shaped(b)
    BY <1>2 DEF Kept
  <2>. QED  BY <2>1 DEF Shaped, Sane, Sound, States
<1>. HIDE DEF u
<1>5. Ready(u, h, w, f) /\ u.rx = s.rx
  BY <1>3, <1>4 DEF Ready, Live, Reporting, Humble
<1>6. Kept(u, v) /\ v.out = u.out
  BY <1>4 DEF NotifyNormalClose, Kept, Shaped, Sane, Sound
<1>. HIDE DEF v
<1>7. Ready(v, h, w, f) /\ v.rx = s.rx /\ v.state = "CLOSE_WAIT"
  BY <1>4, <1>5, <1>6, KeptReady DEF Kept
<1>8. Ready(t, h, w, f) /\ Kept(v, t)
  BY <1>1, <1>7, AckReady
<1>. HIDE DEF t
<1>. QED  BY <1>7, <1>8 DEF Kept, t

\* A new buffer of reception
LEMMA RxReady ==
  ASSUME NEW s, NEW t, NEW h, NEW w, NEW f, Live(s), s.out = <<>>, NEW rx, HasFields(rx),
         Partial(rx, h, w, f) \/ Whole(rx, w, f), t = [s EXCEPT !.rx = rx]
  PROVE  Ready(t, h, w, f) /\ t.rx = rx /\ t.state = s.state /\ t.out = <<>>
<1>1. Shaped(s)
  BY DEF Live
<1>2. /\ Shaped(t) /\ t.rx = rx /\ t.state = s.state /\ t.ep = s.ep /\ t.next = s.next /\ t.high = s.high
      /\ t.tx = s.tx /\ t.retx = s.retx /\ t.out = s.out /\ t.highAck = s.highAck /\ t.recover = s.recover
      /\ t.cong = s.cong
  BY <1>1 DEF Shaped, Sane, HasFields
<1>3. Reporting(t)
  <2>1. \A S : << >> \in Seq(S)
    BY EmptySeq
  <2>. QED  BY Zenon, <1>2, <2>1 DEF Reporting
<1>4. Live(t)
  BY <1>2 DEF Live, Humble
<1>. QED  BY <1>2, <1>3, <1>4 DEF Ready

\* Data arrive.
LEMMA ReceivedDataReady ==
  ASSUME NEW s, NEW h \in Nat, NEW w \in Nat, NEW f, h <= w + 1, Live(s), s.out = <<>>, Partial(s.rx, h, w, f),
         s.state \in {"ESTABLISHED", "SYN_RCVD"}, NEW g, g.len = 1, g.seq \in Nat, g.seq <= h - 1
  PROVE  LET t == ReceivedData(s, g)
         IN  /\ Ready(t, h, w, f) /\ Gains(s.rx, t.rx) /\ t.rx.fin = s.rx.fin
             /\ \/ t.state = s.state /\ ("FIN" \in g.flags \/ ~Finished(t.rx))
                \/ t.state = "CLOSE_WAIT" /\ Finished(t.rx) /\ "FIN" \notin g.flags
             /\ g.seq = s.rx.next => s.rx.next < t.rx.next
<1>. DEFINE rx   == Add(s.rx, g.seq)
            kept == [s EXCEPT !.rx = rx]
            t    == ReceivedData(s, g)
            p    == DoPeerClose(kept)
            d    == AckData(kept, kept.rx.next > s.rx.next + 1)
<1>1. Shaped(s) /\ HasFields(s.rx) /\ s.rx.next \in Nat /\ ~Finished(s.rx) /\ Ready(s, h, w, f)
  <2>1. Shaped(s)
    BY DEF Live
  <2>2. s.rx.next \in Nat /\ ~Finished(s.rx)
    BY DEF Partial, Finished
  <2>3. Reporting(s)
    BY DEF Reporting
  <2>. QED  BY <2>1, <2>2, <2>3 DEF Shaped, Sane, HasFields, Ready
<1>0. ~(g.len = 0) /\ g.len # 0
  OBVIOUS
<1>2. t = IF ~CanAdd(s.rx, g.seq) THEN SendAck(s)
          ELSE IF s.rx.next < kept.rx.next /\ Finished(kept.rx) /\ "FIN" \notin g.flags THEN p ELSE d
  <2>. DEFINE k == [s EXCEPT !.rx = Add(@, g.seq)]
  <2>1. t = IF g.len = 0 \/ ~CanAdd(s.rx, g.seq) THEN SendAck(s)
            ELSE IF s.rx.next < k.rx.next /\ Finished(k.rx) /\ "FIN" \notin g.flags THEN DoPeerClose(k)
            ELSE AckData(k, k.rx.next > s.rx.next + 1)
    BY Zenon DEF ReceivedData
  <2>2. k = kept
    OBVIOUS
  <2>. HIDE DEF k, kept
  <2>. QED  BY Zenon, <1>0, <2>1, <2>2
<1>3. ASSUME ~CanAdd(s.rx, g.seq)
      PROVE  /\ Ready(t, h, w, f) /\ Gains(s.rx, t.rx) /\ t.rx.fin = s.rx.fin
             /\ \/ t.state = s.state /\ ("FIN" \in g.flags \/ ~Finished(t.rx))
                \/ t.state = "CLOSE_WAIT" /\ Finished(t.rx) /\ "FIN" \notin g.flags
             /\ g.seq = s.rx.next => s.rx.next < t.rx.next
  <2>1. t = SendAck(s)
    BY <1>2, <1>3
  <2>2. Kept(s, t) /\ Ready(t, h, w, f)
    BY <1>1, <2>1, AckReady
  <2>. HIDE DEF t
  <2>3. t.rx = s.rx /\ t.state = s.state
    BY <2>2 DEF Kept
  <2>4. Gains(s.rx, s.rx)
    BY <1>1 DEF Gains
  <2>5. g.seq # s.rx.next
    BY <1>3 DEF CanAdd, Partial
  <2>. QED  BY <1>1, <2>2, <2>3, <2>4, <2>5
<1>4. ASSUME CanAdd(s.rx, g.seq)
      PROVE  /\ Ready(t, h, w, f) /\ Gains(s.rx, t.rx) /\ t.rx.fin = s.rx.fin
             /\ \/ t.state = s.state /\ ("FIN" \in g.flags \/ ~Finished(t.rx))
                \/ t.state = "CLOSE_WAIT" /\ Finished(t.rx) /\ "FIN" \notin g.flags
             /\ g.seq = s.rx.next => s.rx.next < t.rx.next
  <2>1. /\ HasFields(rx) /\ rx.fin = s.rx.fin /\ Gains(s.rx, rx)
        /\ Partial(rx, h, w, f) \/ Whole(rx, w, f)
        /\ g.seq = s.rx.next => s.rx.next < rx.next
    BY <1>1, <1>4, AddIs
  <2>. HIDE DEF rx
  <2>2. Ready(kept, h, w, f) /\ kept.rx = rx /\ kept.state = s.state
    <3>1. HasFields(rx) /\ (Partial(rx, h, w, f) \/ Whole(rx, w, f)) /\ kept = [s EXCEPT !.rx = rx]
      BY <2>1
    <3>. HIDE DEF kept
    <3>. QED  BY <3>1, RxReady
  <2>. HIDE DEF kept
  <2>3. Ready(p, h, w, f) /\ p.rx = rx /\ p.state = "CLOSE_WAIT"
    BY <2>2, DoPeerCloseReady
  <2>4. Ready(d, h, w, f) /\ d.rx = rx /\ d.state = s.state
    <3>1. Kept(kept, d) /\ Ready(d, h, w, f)
      BY Zenon, <2>2, AckDataReady
    <3>. HIDE DEF d
    <3>. QED  BY <2>2, <3>1 DEF Kept
  <2>. HIDE DEF p, d
  <2>5. t = IF s.rx.next < rx.next /\ Finished(rx) /\ "FIN" \notin g.flags THEN p ELSE d
    BY <1>2, <1>4, <2>2
  <2>. HIDE DEF t
  <2>6. CASE s.rx.next < rx.next /\ Finished(rx) /\ "FIN" \notin g.flags
    BY <2>1, <2>3, <2>5, <2>6
  <2>7. CASE ~(s.rx.next < rx.next /\ Finished(rx) /\ "FIN" \notin g.flags)
    <3>1. Finished(rx) => s.rx.next < rx.next
      <4>1. s.rx.next <= rx.next /\ rx.next \in Nat
        BY <2>1, NextIsNat DEF Gains
      <4>2. SUFFICES ASSUME s.rx.next = rx.next PROVE ~Finished(rx)
        BY <1>1, <4>1
      <4>. QED  BY <1>1, <2>1, <4>2 DEF Finished
    <3>2. "FIN" \in g.flags \/ ~Finished(rx)
      BY <2>7, <3>1
    <3>. QED  BY <2>1, <2>4, <2>5, <2>7, <3>2
  <2>. QED  BY <2>6, <2>7
<1>. QED  BY <1>3, <1>4

\* The FIN arrives, alone or with the last of the data.
LEMMA PeerCloseReady ==
  ASSUME NEW s, NEW h \in Nat, NEW w \in Nat, NEW f, h = w + 1, w + 1 \in f,
         Live(s), s.out = <<>>, Partial(s.rx, h, w, f), s.state \in {"ESTABLISHED", "SYN_RCVD"},
         NEW g, g.flags = {"FIN", "ACK"}, g.len \in {0, 1}, g.seq \in Nat, g.seq + g.len = w + 1
  PROVE  LET t == PeerClose(s, g)
         IN  /\ Ready(t, h, w, f) /\ Gains(s.rx, t.rx)
             /\ IF Finished(t.rx) THEN t.state = "CLOSE_WAIT" ELSE t.state = s.state
             /\ s.rx.next = g.seq => Finished(t.rx)
<1>. DEFINE rx    == SetFinSequence(s.rx, w + 1)
            noted == [s EXCEPT !.rx = rx]
            r     == IF g.len > 0 THEN ReceivedData(noted, g) ELSE noted
            t     == PeerClose(s, g)
            p     == DoPeerClose(r)
<1>1. Shaped(s) /\ HasFields(s.rx) /\ s.rx.next \in Nat /\ ~Finished(s.rx) /\ Ready(s, h, w, f)
  <2>1. Shaped(s)
    BY DEF Live
  <2>2. s.rx.next \in Nat /\ ~Finished(s.rx)
    BY DEF Partial, Finished
  <2>3. Reporting(s)
    BY DEF Reporting
  <2>. QED  BY <2>1, <2>2, <2>3 DEF Shaped, Sane, HasFields, Ready
<1>2. t = IF g.seq < s.rx.next \/ (s.rx.fin # 0 /\ g.seq > s.rx.fin) THEN s
          ELSE IF Finished(r.rx) THEN p ELSE r
  <2>. DEFINE P(x) == IF Finished(x.rx) THEN DoPeerClose(x) ELSE x
  <2>1. Then(r, LAMBDA read : IF Finished(read.rx) THEN DoPeerClose(read) ELSE read)
        = CHOOSE after \in {P(x) : x \in {r}} : TRUE
    BY Zenon DEF Then
  <2>2. t = IF g.seq < s.rx.next \/ (s.rx.fin # 0 /\ g.seq > s.rx.fin) THEN s
            ELSE CHOOSE after \in {P(x) : x \in {r}} : TRUE
    BY Zenon, <2>1 DEF PeerClose
  <2>. HIDE DEF P, r
  <2>3. (CHOOSE after \in {P(x) : x \in {r}} : TRUE) = P(r)
    OBVIOUS
  <2>. QED  BY <2>2, <2>3 DEF P
<1>3. ASSUME g.seq < s.rx.next \/ (s.rx.fin # 0 /\ g.seq > s.rx.fin)
      PROVE  /\ Ready(t, h, w, f) /\ Gains(s.rx, t.rx)
             /\ IF Finished(t.rx) THEN t.state = "CLOSE_WAIT" ELSE t.state = s.state
             /\ s.rx.next = g.seq => Finished(t.rx)
  <2>1. t = s
    BY <1>2, <1>3
  <2>2. s.rx.next # g.seq
    BY <1>1, <1>3 DEF Partial
  <2>3. Gains(s.rx, s.rx)
    BY <1>1 DEF Gains
  <2>. QED  BY <1>1, <2>1, <2>2, <2>3
<1>4. ASSUME ~(g.seq < s.rx.next \/ (s.rx.fin # 0 /\ g.seq > s.rx.fin))
      PROVE  /\ Ready(t, h, w, f) /\ Gains(s.rx, t.rx)
             /\ IF Finished(t.rx) THEN t.state = "CLOSE_WAIT" ELSE t.state = s.state
             /\ s.rx.next = g.seq => Finished(t.rx)
  <2>1. s.rx.next <= g.seq
    BY <1>1, <1>4
  <2>2. /\ HasFields(rx) /\ rx.fin = w + 1 /\ rx.held = s.rx.held /\ Gains(s.rx, rx)
        /\ Partial(rx, h, w, f) \/ Whole(rx, w, f)
        /\ rx.next = IF s.rx.next = w + 1 THEN w + 2 ELSE s.rx.next
    <3>. DEFINE q == s.rx
    <3>. HIDE DEF q
    <3>1. HasFields(q) /\ Partial(q, h, w, f)
      BY <1>1 DEF q
    <3>2. /\ HasFields(SetFinSequence(q, w + 1)) /\ SetFinSequence(q, w + 1).fin = w + 1
          /\ SetFinSequence(q, w + 1).held = q.held /\ Gains(q, SetFinSequence(q, w + 1))
          /\ Partial(SetFinSequence(q, w + 1), h, w, f) \/ Whole(SetFinSequence(q, w + 1), w, f)
          /\ SetFinSequence(q, w + 1).next = IF q.next = w + 1 THEN w + 2 ELSE q.next
      BY <3>1, SetFinIs
    <3>. QED  BY <3>2 DEF q
  <2>. HIDE DEF rx
  <2>3. Ready(noted, h, w, f) /\ noted.rx = rx /\ noted.state = s.state /\ noted.out = <<>>
    <3>1. HasFields(rx) /\ (Partial(rx, h, w, f) \/ Whole(rx, w, f)) /\ noted = [s EXCEPT !.rx = rx]
      BY <2>2
    <3>. HIDE DEF noted
    <3>. QED  BY <3>1, RxReady
  <2>. HIDE DEF noted
  <2>4. /\ Ready(r, h, w, f) /\ Gains(s.rx, r.rx) /\ r.state = s.state
        /\ s.rx.next = g.seq => Finished(r.rx)
    <3>1. ASSUME g.len = 0
          PROVE  /\ Ready(r, h, w, f) /\ Gains(s.rx, r.rx) /\ r.state = s.state
                 /\ s.rx.next = g.seq => Finished(r.rx)
      <4>1. r = noted /\ g.seq = w + 1
        BY <3>1
      <4>2. s.rx.next = g.seq => Finished(rx)
        BY <2>2, <4>1 DEF Finished
      <4>. QED  BY <2>2, <2>3, <4>1, <4>2
    <3>2. ASSUME g.len = 1
          PROVE  /\ Ready(r, h, w, f) /\ Gains(s.rx, r.rx) /\ r.state = s.state
                 /\ s.rx.next = g.seq => Finished(r.rx)
      <4>1. r = ReceivedData(noted, g) /\ g.seq = w
        BY <3>2
      <4>2. s.rx.next # w + 1 /\ rx.next = s.rx.next /\ rx.next <= w
        BY <1>1, <2>1, <2>2, <4>1
      <4>3. Partial(rx, h, w, f)
        <5>1. ~Whole(rx, w, f)
          BY <4>2 DEF Whole
        <5>. QED  BY Zenon, <2>2, <5>1
      <4>4. g.seq <= h - 1
        BY <4>1
      <4>5. Live(noted)
        BY <2>3 DEF Ready
      <4>6. /\ Ready(r, h, w, f) /\ Gains(noted.rx, r.rx) /\ r.rx.fin = noted.rx.fin
            /\ \/ r.state = noted.state /\ ("FIN" \in g.flags \/ ~Finished(r.rx))
               \/ r.state = "CLOSE_WAIT" /\ Finished(r.rx) /\ "FIN" \notin g.flags
            /\ g.seq = noted.rx.next => noted.rx.next < r.rx.next
        <5>1. Partial(noted.rx, h, w, f) /\ noted.out = <<>> /\ h <= w + 1
              /\ noted.state \in {"ESTABLISHED", "SYN_RCVD"}
          BY <2>3, <4>3
        <5>2. g.len = 1 /\ g.seq \in Nat /\ g.seq <= h - 1
          BY <3>2, <4>4
        <5>. QED  BY <4>1, <4>5, <5>1, <5>2, ReceivedDataReady
      <4>. HIDE DEF r
      <4>7. r.state = s.state
        BY <2>3, <4>6
      <4>8. Partial(r.rx, h, w, f) \/ Whole(r.rx, w, f)
        BY <4>6, ReadyIs
      <4>9. s.rx.next = g.seq => Finished(r.rx)
        <5>1. SUFFICES ASSUME s.rx.next = g.seq PROVE Finished(r.rx)
          OBVIOUS
        <5>2. w < r.rx.next /\ r.rx.fin = w + 1
          BY <2>2, <2>3, <4>1, <4>2, <4>6, <5>1
        <5>3. ~Partial(r.rx, h, w, f)
          BY <5>2 DEF Partial
        <5>. QED  BY <4>8, <5>3, NextIsNat
      <4>10. Gains(s.rx, r.rx)
        <5>1. r.rx.next \in Nat /\ rx.next \in Nat
          BY <4>3, <4>8, NextIsNat
        <5>. QED  BY <1>1, <2>2, <2>3, <4>6, <5>1 DEF Gains
      <4>. QED  BY <4>6, <4>7, <4>9, <4>10
    <3>. QED  BY <3>1, <3>2
  <2>. HIDE DEF r
  <2>5. Ready(p, h, w, f) /\ p.rx = r.rx /\ p.state = "CLOSE_WAIT"
    BY <2>4, DoPeerCloseReady
  <2>6. t = IF Finished(r.rx) THEN p ELSE r
    BY <1>2, <1>4
  <2>. HIDE DEF p, t
  <2>7. CASE Finished(r.rx)
    BY <2>4, <2>5, <2>6, <2>7
  <2>8. CASE ~Finished(r.rx)
    BY <2>4, <2>6, <2>8
  <2>. QED  BY <2>7, <2>8
<1>. QED  BY <1>3, <1>4

\* An idle buffer stays idle.
LEMMA IdleIs ==
  /\ Idle.head = 1 /\ Idle.end = 1 /\ Idle.tail = 1 /\ Idle.sacked = {} /\ TxSize(Idle) = 0
  /\ Update(Idle, {}) = Idle /\ DiscardUpTo(Idle, 1) = Idle
  /\ SetHead(EmptyTx, 1) = Idle /\ EmptyTx.head = 0 /\ TxSize(EmptyTx) = 0
<1>2. Idle.head = 1 /\ Idle.end = 1 /\ Idle.tail = 1 /\ Idle.sacked = {} /\ TxSize(Idle) = 0
  BY DEF Idle, EmptyTx, TxSize
<1>3. Update(Idle, {}) = Idle
  BY <1>2 DEF Update
<1>4. DiscardUpTo(Idle, 1) = Idle
  BY <1>2 DEF DiscardUpTo
<1>5. SetHead(EmptyTx, 1) = Idle
  BY DEF Idle, EmptyTx, SetHead, TxSize
<1>6. EmptyTx.head = 0 /\ TxSize(EmptyTx) = 0
  BY DEF EmptyTx, TxSize
<1>. QED  BY <1>2, <1>3, <1>4, <1>5, <1>6

\* Assigning the same buffer of transmission keeps the socket.
LEMMA TxSame ==
  ASSUME NEW s, NEW t, NEW tx, Shaped(s), tx = s.tx, t = [s EXCEPT !.tx = tx]
  PROVE  Kept(s, t) /\ t.out = s.out
BY DEF Kept, Shaped, Sane

\* An acknowledgment, to a socket that has sent nothing
LEMMA NotedIdle ==
  ASSUME NEW s, NEW g, Live(s), g.sack = {}
  PROVE  Kept(s, Noted(s, g)) /\ Noted(s, g).out = s.out
<1>. DEFINE u == [s EXCEPT !.tx = Update(@, g.sack)]
            t == Check(u, s.tx.head \notin u.tx.sacked)
<1>1. Noted(s, g) = t
  BY DEF Noted, ReadOptions
<1>2. Shaped(s) /\ Update(s.tx, g.sack) = s.tx
  BY IdleIs DEF Live
<1>3. u = [s EXCEPT !.tx = Update(s.tx, g.sack)]
  OBVIOUS
<1>4. Kept(s, u) /\ u.out = s.out
  <2>. HIDE DEF u
  <2>. QED  BY <1>2, <1>3, TxSame
<1>. HIDE DEF u
<1>5. Kept(u, t) /\ t.out = u.out
  BY <1>4, IdleIs DEF Check, Kept, Live
<1>. HIDE DEF t
<1>. QED  BY <1>1, <1>4, <1>5, KeptThrough

\* ... does nothing for its congestion control,
LEMMA ToldIdle ==
  ASSUME NEW s, NEW g, Live(s), g.sack = {}, g.ack = 1
  PROVE  Kept(s, Told(s, g)) /\ Told(s, g).out = s.out
<1>. DEFINE n == Noted(s, g)
            o == Off(n, g.ack)
            t == ProcessAck(o, g.ack, n.tx.sacked # s.tx.sacked, s.tx.head)
            m == [o EXCEPT !.next = IF g.ack > o.high THEN g.ack ELSE @]
<1>1. Kept(s, n) /\ n.out = s.out
  BY NotedIdle
<1>2. Told(s, g) = t
  BY DEF Told
<1>. HIDE DEF n
<1>3. n.tx = Idle /\ n.high = 1 /\ n.next = 1 /\ Shaped(n) /\ s.tx = Idle
  BY <1>1 DEF Kept, Live
<1>4. Kept(n, o) /\ o.out = n.out
  <2>1. DiscardUpTo(n.tx, g.ack) = n.tx
    BY <1>3, IdleIs
  <2>2. o = [n EXCEPT !.tx = DiscardUpTo(n.tx, g.ack)]
    BY DEF Off
  <2>. HIDE DEF o
  <2>. QED  BY <1>3, <2>1, <2>2, TxSame
<1>. HIDE DEF o
<1>5. Shaped(o) /\ o.high = 1 /\ o.next = 1
  BY <1>3, <1>4 DEF Kept
<1>6. Kept(o, m) /\ m.out = o.out
  BY <1>5 DEF Kept, Shaped, Sane
<1>7. t = m
  <2>. DEFINE dup  == n.tx.sacked # s.tx.sacked
              old  == s.tx.head
              P(h) == IF g.ack = old THEN [h EXCEPT !.next = IF g.ack > o.high THEN g.ack ELSE @]
                      ELSE IF g.ack < h.recover /\ h.cong = "RECOVERY" THEN PartialAck(h, g.ack)
                      ELSE IF g.ack < h.recover /\ h.cong = "LOSS" THEN NewAck(h, g.ack, TRUE)
                      ELSE FullAck(h, g.ack, dup)
              heard == IF dup THEN DupAck(o) ELSE IF g.ack = old THEN o ELSE [o EXCEPT !.dupAcks = 0]
  <2>1. t = CHOOSE after \in {P(h) : h \in {heard}} : TRUE
    BY Zenon DEF ProcessAck, Then
  <2>2. heard = o /\ g.ack = old
    BY <1>3, IdleIs
  <2>3. P(o) = m
    BY <2>2
  <2>. HIDE DEF P, heard, m, t
  <2>. QED  BY <2>1, <2>2, <2>3
<1>. HIDE DEF t, m
<1>8. Kept(s, o) /\ o.out = s.out
  BY <1>1, <1>4, KeptThrough
<1>. QED  BY <1>2, <1>6, <1>7, <1>8, KeptThrough

\* ... and only its data count.
LEMMA ReceivedAckLive ==
  ASSUME NEW s, NEW g, NEW h \in Nat, NEW w \in Nat, NEW f, h <= w + 1,
         Live(s), s.out = <<>>, Partial(s.rx, h, w, f) \/ Whole(s.rx, w, f),
         g.sack = {}, g.ack \in {0, 1},
         g.len = 0 \/ (g.len = 1 /\ g.seq \in Nat /\ g.seq <= h - 1 /\ Partial(s.rx, h, w, f)),
         g.len = 1 => s.state \in {"ESTABLISHED", "SYN_RCVD"}
  PROVE  LET t == ReceivedAck(s, g)
         IN  /\ Ready(t, h, w, f) /\ Gains(s.rx, t.rx)
             /\ g.len = 0 => t.state = s.state /\ t.rx = s.rx
             /\ g.len = 1 => \/ t.state = s.state /\ ("FIN" \in g.flags \/ ~Finished(t.rx))
                             \/ t.state = "CLOSE_WAIT" /\ Finished(t.rx) /\ "FIN" \notin g.flags
<1>. DEFINE n == Noted(s, g)
            d == Told(s, g)
            e == [d EXCEPT !.cwnd = d.window]
            t == ReceivedAck(s, g)
            Got(x) == /\ Ready(x, h, w, f) /\ Gains(s.rx, x.rx)
                      /\ g.len = 0 => x.state = s.state /\ x.rx = s.rx
                      /\ g.len = 1 => \/ x.state = s.state /\ ("FIN" \in g.flags \/ ~Finished(x.rx))
                                      \/ x.state = "CLOSE_WAIT" /\ Finished(x.rx) /\ "FIN" \notin g.flags
<1>1. t = IF g.ack < s.tx.head THEN Stored(n, g) ELSE SendPendingData(Stored(e, g))
  BY ReceivedAckIs
<1>2. s.tx.head = 1
  BY IdleIs DEF Live
<1>3. Kept(s, n) /\ n.out = s.out
  BY NotedIdle
<1>4. ASSUME NEW v, Kept(s, v), v.out = s.out
      PROVE  Got(Stored(v, g))
  <2>1. Live(v) /\ v.rx = s.rx /\ v.state = s.state /\ v.out = <<>>
    BY <1>4 DEF Live, Kept, Humble
  <2>2. ASSUME g.len = 0 PROVE Got(Stored(v, g))
    <3>1. Stored(v, g) = v
      BY <2>2 DEF Stored
    <3>2. Ready(v, h, w, f)
      <4>1. \A S : << >> \in Seq(S)
        BY EmptySeq
      <4>2. Reporting(v)
        BY Zenon, <2>1, <4>1 DEF Reporting
      <4>. QED  BY <2>1, <4>2 DEF Ready
    <3>3. Gains(s.rx, s.rx)
      <4>1. s.rx.next \in Nat
        BY NextIsNat
      <4>. QED  BY <4>1 DEF Gains
    <3>. QED  BY <2>1, <2>2, <3>1, <3>2, <3>3
  <2>3. ASSUME g.len = 1 PROVE Got(Stored(v, g))
    <3>1. Stored(v, g) = ReceivedData(v, g)
      BY <2>3 DEF Stored
    <3>2. Partial(v.rx, h, w, f) /\ g.seq \in Nat /\ g.seq <= h - 1
      BY <2>1, <2>3
    <3>. DEFINE r == ReceivedData(v, g)
    <3>3. /\ Ready(r, h, w, f) /\ Gains(v.rx, r.rx) /\ r.rx.fin = v.rx.fin
          /\ \/ r.state = v.state /\ ("FIN" \in g.flags \/ ~Finished(r.rx))
             \/ r.state = "CLOSE_WAIT" /\ Finished(r.rx) /\ "FIN" \notin g.flags
      BY <2>1, <2>3, <3>2, ReceivedDataReady
    <3>. HIDE DEF r
    <3>. QED  BY <2>1, <2>3, <3>1, <3>3 DEF r
  <2>. QED  BY <2>2, <2>3
<1>5. ASSUME g.ack = 0 PROVE Got(t)
  <2>. HIDE DEF n, t, Got
  <2>1. t = Stored(n, g)
    BY <1>1, <1>2, <1>5
  <2>. QED  BY <1>3, <1>4, <2>1
<1>6. ASSUME g.ack = 1 PROVE Got(t)
  <2>1. Kept(s, d) /\ d.out = s.out
    BY <1>6, ToldIdle
  <2>. HIDE DEF d
  <2>2. Kept(d, e) /\ e.out = d.out
    BY <2>1, CongestIs DEF Kept
  <2>. HIDE DEF e
  <2>3. Kept(s, e) /\ e.out = s.out
    BY <2>1, <2>2, KeptThrough
  <2>. DEFINE x == Stored(e, g)
  <2>4. Got(x)
    BY <1>4, <2>3
  <2>. HIDE DEF x, t
  <2>5. t = SendPendingData(x)
    BY <1>1, <1>2, <1>6 DEF x
  <2>6. Kept(x, t) /\ t.out = x.out
    <3>1. Shaped(x) /\ TxSize(x.tx) = 0
      BY <2>4, ReadyIs, IdleIs
    <3>. QED  BY <2>5, <3>1, SendPendingIdle
  <2>7. Ready(t, h, w, f)
    BY <2>4, <2>6, KeptReady
  <2>. QED  BY <2>4, <2>6, <2>7 DEF Kept
<1>. QED  BY <1>5, <1>6 DEF t

-----------------------------------------------------------------------------
\* The sink in all its states.

\* The sink, between two steps
Sink(s) ==
  /\ Shaped(s) /\ Humble(s)
  /\ \/ /\ s.state = "LISTEN" /\ s.ep = TRUE /\ s.rx.next = 0 /\ s.next = 0 /\ s.tx = EmptyTx /\ s.retx = {}
     \/ /\ s.state = "SYN_RCVD" /\ s.ep = TRUE /\ NoFin(s.rx) /\ s.next = 0 /\ s.tx = EmptyTx
        /\ s.retx \in {{}, {"SYN", "ACK"}}
     \/ s.state = "ESTABLISHED" /\ Live(s) /\ s.rx.next >= 1 /\ ~Finished(s.rx)
     \/ s.state = "CLOSE_WAIT" /\ Live(s) /\ Finished(s.rx)
     \/ /\ s.state = "LAST_ACK" /\ s.ep = TRUE /\ s.next = 1 /\ s.tx = Idle /\ Finished(s.rx)
        /\ s.retx \in {{}, {"FIN", "ACK"}}
     \/ s.ep = FALSE /\ s.retx = {} /\ s.tx \in {EmptyTx, Idle}

\* The sink's application has read all and closed.
Over(s) == s.state \in {"LAST_ACK", "CLOSED"} /\ Finished(s.rx)

\* What the sink may say after a handler
Said(s) ==
  {g \in Segment : /\ g.len = 0 /\ g.ack = s.rx.next /\ g.sack \in {{}, s.rx.held}
                   /\ \/ g.flags \in {{"ACK"}, {"RST"}} /\ g.seq <= 2
                      \/ g.flags = {"SYN", "ACK"} /\ g.seq = 0 /\ g.ack = 1
                      \/ g.flags = {"FIN", "ACK"} /\ g.seq = 1 /\ Over(s)}

\* A step of the sink: it forgets nothing, and says what it may say.
Takes(s, t, h, w, f) ==
  /\ Sink(t) /\ RxOK(t.rx, h, w, f)
  /\ Gains(s.rx, t.rx)
  /\ Over(s) => Over(t)
  /\ t.out \in Seq(Said(t))

\* What holds of the sink's socket in every case
LEMMA SinkIs ==
  ASSUME NEW s, Sink(s)
  PROVE  /\ Shaped(s) /\ s.ep \in BOOLEAN /\ Ended(s) /\ s.tx \in {EmptyTx, Idle} /\ TxSize(s.tx) = 0
         /\ s.next \in 0 .. 1 /\ Humble(s)
<1>1. Shaped(s) /\ s.tx \in {EmptyTx, Idle} /\ (s.ep = TRUE \/ (s.ep = FALSE /\ s.retx = {}))
      /\ s.next \in 0 .. 1 /\ Humble(s)
  BY DEF Sink, Live, Humble
<1>2. s.ep \in BOOLEAN /\ Ended(s)
  BY Zenon, <1>1 DEF Ended
<1>. QED  BY <1>1, <1>2, IdleIs

\* What is said in the course of a handler is allowed after it.
LEMMA ReportsSaid ==
  ASSUME NEW s, Reporting(s)
  PROVE  s.out \in Seq(Said(s))
<1>1. Reports(s.rx) \subseteq Said(s)
  BY DEF Reports, Said
<1>. QED  BY <1>1, SeqMono DEF Reporting

\* Nothing has been said yet.
LEMMA NothingSaid ==
  ASSUME NEW s, s.out = <<>>
  PROVE  Reporting(s)
<1>1. \A S : << >> \in Seq(S)
  BY EmptySeq
<1>. QED  BY Zenon, <1>1 DEF Reporting

\* What holds of the sink's buffer of reception in every case
LEMMA RxIs ==
  ASSUME NEW rx, NEW h \in Nat, NEW w \in Nat, NEW f, RxOK(rx, h, w, f)
  PROVE  /\ HasFields(rx) /\ rx.next \in Nat /\ rx.held \in SUBSET Nat /\ Gains(rx, rx)
         /\ rx.next >= 1 => Partial(rx, h, w, f) \/ Whole(rx, w, f)
         /\ Finished(rx) <=> Whole(rx, w, f)
<1>1. CASE Partial(rx, h, w, f) \/ Whole(rx, w, f)
  BY <1>1, NextIsNat DEF RxOK, Gains
<1>2. CASE ~(Partial(rx, h, w, f) \/ Whole(rx, w, f))
  BY <1>2 DEF RxOK, Gains, Finished
<1>. QED  BY <1>1, <1>2

\* A call that keeps the sink's socket
LEMMA KeptSink ==
  ASSUME NEW s, NEW t, Sink(s), Kept(s, t)
  PROVE  Sink(t) /\ (Over(s) => Over(t))
BY DEF Sink, Live, Kept, Over, Humble

\* ... is a step.
LEMMA KeptTakes ==
  ASSUME NEW s, NEW t, NEW h \in Nat, NEW w \in Nat, NEW f, Sink(s), RxOK(s.rx, h, w, f), Kept(s, t), Reporting(t)
  PROVE  Takes(s, t, h, w, f)
<1>1. Sink(t) /\ (Over(s) => Over(t)) /\ t.rx = s.rx
  BY KeptSink DEF Kept
<1>2. Gains(s.rx, s.rx)
  BY RxIs
<1>3. t.out \in Seq(Said(t))
  BY ReportsSaid
<1>. QED  BY <1>1, <1>2, <1>3 DEF Takes

\* A handler that returns at once
LEMMA SameTakes ==
  ASSUME NEW s, NEW h \in Nat, NEW w \in Nat, NEW f, Sink(s), RxOK(s.rx, h, w, f), s.out = <<>>
  PROVE  Takes(s, s, h, w, f)
<1>1. Kept(s, s)
  BY DEF Kept, Sink
<1>. QED  BY <1>1, NothingSaid, KeptTakes

\* A socket that is released
LEMMA ShutTakes ==
  ASSUME NEW s, NEW t, NEW h \in Nat, NEW w \in Nat, NEW f, Sink(s), RxOK(s.rx, h, w, f), Shut(s, t),
         t.state = "CLOSED" \/ ~Over(s), Reporting(t)
  PROVE  Takes(s, t, h, w, f)
<1>1. Sink(t) /\ t.rx = s.rx
  BY SinkIs DEF Sink, Shut, Humble
<1>2. Gains(s.rx, s.rx)
  BY RxIs
<1>3. t.out \in Seq(Said(t))
  BY ReportsSaid
<1>4. Over(s) => Over(t)
  BY <1>1 DEF Over
<1>. QED  BY <1>1, <1>2, <1>3, <1>4 DEF Takes

\* CloseAndNotify, at the sink
LEMMA CloseTakes ==
  ASSUME NEW s, NEW h \in Nat, NEW w \in Nat, NEW f, Sink(s), RxOK(s.rx, h, w, f), s.out = <<>>
  PROVE  Takes(s, CloseAndNotify(s), h, w, f)
<1>. DEFINE t == CloseAndNotify(s)
<1>1. Shut(s, t) /\ t.out = s.out /\ t.state = "CLOSED"
  BY SinkIs, CloseShuts
<1>. HIDE DEF t
<1>2. Takes(s, t, h, w, f)
  BY <1>1, NothingSaid, ShutTakes
<1>. QED  BY <1>2 DEF t

\* ... after a reset
LEMMA ResetTakes ==
  ASSUME NEW s, NEW h \in Nat, NEW w \in Nat, NEW f, Sink(s), RxOK(s.rx, h, w, f), s.out = <<>>, s.ep = TRUE
  PROVE  Takes(s, CloseAndNotify(SendRST(s)), h, w, f)
<1>. DEFINE u == SendRST(s)
            t == CloseAndNotify(u)
<1>1. Shaped(s) /\ s.ep \in BOOLEAN /\ Ended(s) /\ s.next \in 0 .. 1 /\ s.rx.next \in Nat
  BY SinkIs, RxIs
<1>2. /\ Shut(s, u)
      /\ s.ep => \E seq \in {s.next, s.next + 1} :
            u.out = Append(s.out, [flags |-> {"RST"}, seq |-> seq, len |-> 0, ack |-> s.rx.next, sack |-> {}])
  BY <1>1, RstShuts
<1>. HIDE DEF u
<1>3. \E seq \in {s.next, s.next + 1} :
            u.out = Append(s.out, [flags |-> {"RST"}, seq |-> seq, len |-> 0, ack |-> s.rx.next, sack |-> {}])
  BY Zenon, <1>2
<1>4. PICK seq \in {s.next, s.next + 1} :
            u.out = Append(s.out, [flags |-> {"RST"}, seq |-> seq, len |-> 0, ack |-> s.rx.next, sack |-> {}])
  BY <1>3
<1>5. Reporting(u)
  <2>. DEFINE g == [flags |-> {"RST"}, seq |-> seq, len |-> 0, ack |-> s.rx.next, sack |-> {}]
  <2>1. seq \in Nat /\ seq <= 2
    BY <1>1
  <2>2. g \in Segment /\ g.len = 0 /\ g.ack = s.rx.next /\ g.sack = {} /\ g.flags = {"RST"} /\ g.seq <= 2
    BY <1>1, <2>1 DEF Segment
  <2>3. u.out = Append(s.out, g)
    BY <1>4
  <2>. HIDE DEF g
  <2>4. g \in Reports(s.rx)
    BY <2>2 DEF Reports
  <2>. QED  BY <1>2, <2>3, <2>4, NothingSaid, ReportsMore DEF Shut
<1>6. Shaped(u) /\ u.ep = FALSE /\ u.retx = {}
  BY <1>2 DEF Shut
<1>7. u.ep \in BOOLEAN /\ Ended(u)
  BY Zenon, <1>6 DEF Ended
<1>8. Shut(u, t) /\ t.out = u.out /\ t.state = "CLOSED"
  BY <1>6, <1>7, CloseShuts
<1>. HIDE DEF t
<1>9. Shut(s, t) /\ Reporting(t)
  BY <1>2, <1>5, <1>8 DEF Shut, Reporting
<1>10. Takes(s, t, h, w, f)
  BY <1>8, <1>9, ShutTakes
<1>. QED  BY <1>10 DEF t, u

\* SendAck, at the sink
LEMMA AckTakes ==
  ASSUME NEW s, NEW h \in Nat, NEW w \in Nat, NEW f, Sink(s), RxOK(s.rx, h, w, f), s.out = <<>>
  PROVE  Takes(s, SendAck(s), h, w, f)
<1>. DEFINE t == SendAck(s)
<1>1. Shaped(s) /\ s.ep \in BOOLEAN /\ s.rx.next \in Nat /\ s.rx.held \in SUBSET Nat
  BY SinkIs, RxIs
<1>2. ASSUME s.ep = TRUE PROVE Takes(s, t, h, w, f)
  <2>1. s.next \in 0 .. 1
    BY <1>2, SinkIs
  <2>2. Kept(s, t) /\ Reporting(t)
    BY <1>1, <2>1, NothingSaid, AckReports, SendAckIs
  <2>. HIDE DEF t
  <2>. QED  BY <2>2, KeptTakes
<1>3. ASSUME s.ep = FALSE PROVE Takes(s, t, h, w, f)
  <2>1. Kept(s, t) /\ (~s.ep => t.out = s.out)
    BY <1>1, PlainIs, SendAckIs
  <2>. HIDE DEF t
  <2>2. t.out = s.out
    BY Zenon, <1>3, <2>1
  <2>. QED  BY <2>1, <2>2, NothingSaid, KeptTakes
<1>4. s.ep = TRUE \/ s.ep = FALSE
  BY Zenon, <1>1
<1>. QED  BY <1>2, <1>3, <1>4

\* A handler that leaves the socket ready, in the state that its buffer demands
LEMMA ReadyTakes ==
  ASSUME NEW s, NEW t, NEW h \in Nat, NEW w \in Nat, NEW f, Ready(t, h, w, f), Gains(s.rx, t.rx), ~Over(s),
         IF Finished(t.rx) THEN t.state = "CLOSE_WAIT" ELSE t.state = "ESTABLISHED"
  PROVE  Takes(s, t, h, w, f)
<1>1. /\ Live(t) /\ Reporting(t) /\ Shaped(t) /\ Humble(t) /\ HasFields(t.rx)
      /\ Partial(t.rx, h, w, f) \/ Whole(t.rx, w, f)
  BY DEF Ready, Live, Shaped, Sane, HasFields
<1>2. t.rx.next >= 1
  BY <1>1, NextIsNat
<1>3. Sink(t)
  BY <1>1, <1>2 DEF Sink
<1>4. RxOK(t.rx, h, w, f)
  BY <1>1 DEF RxOK
<1>. QED  BY <1>1, <1>3, <1>4, ReportsSaid DEF Takes

\* A segment that the sender has sent
Gets(g, h, w, f) ==
  /\ g \in Segment /\ g.sack = {} /\ g.ack \in 0 .. 2
  /\ \/ g.flags = {"SYN"} /\ g.len = 0 /\ g.seq = 0
     \/ g.flags \in {{"ACK"}, {"RST"}} /\ g.len = 0
     \/ g.flags = {"ACK"} /\ g.len = 1 /\ g.seq \in 1 .. h - 1
     \/ /\ g.flags = {"FIN", "ACK"} /\ g.len \in {0, 1} /\ g.seq + g.len = w + 1
        /\ h = w + 1 /\ w + 1 \in f

\* The flags of a FIN are those of nothing else that comes.
LEMMA FinDiffers ==
  {"FIN", "ACK"} # {"SYN"} /\ {"FIN", "ACK"} # {"ACK"} /\ {"FIN", "ACK"} # {"RST"}
<1>1. /\ "FIN" \in {"FIN", "ACK"}
      /\ "FIN" \notin {"SYN"} /\ "FIN" \notin {"ACK"} /\ "FIN" \notin {"RST"}
  OBVIOUS
<1>. QED  BY Zenon, <1>1

\* What the sender's FIN says
LEMMA GetsFin ==
  ASSUME NEW g, NEW h, NEW w, NEW f, Gets(g, h, w, f), g.flags = {"FIN", "ACK"}
  PROVE  g.len \in {0, 1} /\ g.seq + g.len = w + 1 /\ h = w + 1 /\ w + 1 \in f
<1>1. g.flags # {"SYN"} /\ g.flags # {"ACK"} /\ g.flags # {"RST"}
  BY Zenon, FinDiffers
<1>. QED  BY Zenon, <1>1 DEF Gets

\* What its acknowledgments and its data say
LEMMA GetsAck ==
  ASSUME NEW g, NEW h, NEW w, NEW f, Gets(g, h, w, f), g.flags = {"ACK"}
  PROVE  g.len = 0 \/ (g.len = 1 /\ g.seq \in 1 .. h - 1)
<1>1. g.flags # {"SYN"} /\ g.flags # {"RST"} /\ g.flags # {"FIN", "ACK"}
  <2>1. g.flags # {"FIN", "ACK"}
    BY Zenon, FinDiffers
  <2>2. "ACK" \in g.flags /\ "ACK" \notin {"SYN"} /\ "ACK" \notin {"RST"}
    OBVIOUS
  <2>. QED  BY Zenon, <2>1, <2>2
<1>. QED  BY Zenon, <1>1 DEF Gets

\* What came before the rest of a handler
LEMMA GainsTakes ==
  ASSUME NEW s, NEW u, NEW t, NEW h \in Nat, NEW w \in Nat, NEW f, RxOK(s.rx, h, w, f), RxOK(u.rx, h, w, f),
         Gains(s.rx, u.rx), ~Over(s), Takes(u, t, h, w, f)
  PROVE  Takes(s, t, h, w, f)
<1>1. s.rx.next \in Nat /\ u.rx.next \in Nat /\ t.rx.next \in Nat
  BY RxIs DEF Takes
<1>2. Gains(u.rx, t.rx)
  BY DEF Takes
<1>3. Gains(s.rx, t.rx)
  BY <1>1, <1>2 DEF Gains
<1>. QED  BY <1>3 DEF Takes

\* The SYN of the sink, also for its timer
LEMMA SynAckTakes ==
  ASSUME NEW s, NEW h \in Nat, NEW w \in Nat, NEW f, Sink(s), RxOK(s.rx, h, w, f), s.out = <<>>,
         s.state = "SYN_RCVD", s.ep = TRUE
  PROVE  Takes(s, SendEmptyPacket(s, {"SYN", "ACK"}), h, w, f)
<1>. DEFINE t == SendEmptyPacket(s, {"SYN", "ACK"})
            gs == [flags |-> {"SYN", "ACK"}, seq |-> 0, len |-> 0, ack |-> s.rx.next, sack |-> s.rx.held]
<1>1. /\ Shaped(s) /\ Humble(s) /\ NoFin(s.rx) /\ s.next = 0 /\ s.tx = EmptyTx /\ s.retx \in {{}, {"SYN", "ACK"}}
  BY DEF Sink
<1>2. \/ Shut(s, t) /\ t.out = s.out /\ t.state = "CLOSED"
      \/ /\ Kept(s, [t EXCEPT !.retx = s.retx])
         /\ t.retx = IF s.retx = {} THEN {"SYN", "ACK"} ELSE s.retx
         /\ \E seq \in {s.next, s.next + 1} :
              /\ s.state \notin {"FIN_WAIT_1", "LAST_ACK", "CLOSING"} => seq = s.next
              /\ t.out = Append(s.out, [flags |-> {"SYN", "ACK"}, seq |-> seq, len |-> 0, ack |-> s.rx.next,
                                        sack |-> IF "ACK" \in {"SYN", "ACK"} THEN s.rx.held ELSE {}])
  BY <1>1, SynIs
<1>. HIDE DEF t
<1>3. ASSUME Shut(s, t), t.out = s.out, t.state = "CLOSED"
      PROVE  Takes(s, t, h, w, f)
  BY <1>3, NothingSaid, ShutTakes
<1>4. ASSUME Kept(s, [t EXCEPT !.retx = s.retx]),
             t.retx = IF s.retx = {} THEN {"SYN", "ACK"} ELSE s.retx,
             \E seq \in {s.next, s.next + 1} :
              /\ s.state \notin {"FIN_WAIT_1", "LAST_ACK", "CLOSING"} => seq = s.next
              /\ t.out = Append(s.out, [flags |-> {"SYN", "ACK"}, seq |-> seq, len |-> 0, ack |-> s.rx.next,
                                        sack |-> IF "ACK" \in {"SYN", "ACK"} THEN s.rx.held ELSE {}])
      PROVE  Takes(s, t, h, w, f)
  <2>1. /\ Shaped(t) /\ t.state = s.state /\ t.ep = s.ep /\ t.next = s.next /\ t.tx = s.tx /\ t.rx = s.rx
        /\ t.retx = {"SYN", "ACK"} /\ Humble(t)
    BY <1>1, <1>4 DEF Kept, Shaped, Sane, Humble
  <2>2. t.out = Append(s.out, gs)
    BY <1>1, <1>4
  <2>3. gs \in Reports(s.rx)
    <3>1. gs \in Segment /\ gs.len = 0 /\ gs.ack = s.rx.next /\ gs.sack = s.rx.held /\ gs.flags = {"SYN", "ACK"}
          /\ gs.seq = 0 /\ gs.ack = 1
      BY <1>1 DEF Segment, NoFin
    <3>. HIDE DEF gs
    <3>. QED  BY <3>1 DEF Reports
  <2>. HIDE DEF gs
  <2>4. Reporting(t)
    BY <2>1, <2>2, <2>3, NothingSaid, ReportsMore
  <2>5. Sink(t) /\ ~Over(s)
    BY <1>1, <2>1 DEF Sink, Over
  <2>6. Gains(s.rx, s.rx)
    BY RxIs
  <2>. QED  BY <2>1, <2>4, <2>5, <2>6, ReportsSaid DEF Takes
<1>5. Takes(s, t, h, w, f)
  BY <1>2, <1>3, <1>4
<1>. QED  BY <1>5 DEF t

\* A listener
LEMMA ListenTakes ==
  ASSUME NEW s, NEW h \in Nat, NEW w \in Nat, NEW f, Sink(s), RxOK(s.rx, h, w, f), s.out = <<>>,
         s.state = "LISTEN", s.ep = TRUE, NEW g, Gets(g, h, w, f)
  PROVE  Takes(s, ProcessListen(s, g), h, w, f)
<1>. DEFINE u == [s EXCEPT !.state = "SYN_RCVD", !.rx.next = g.seq + 1]
            t == SendEmptyPacket(u, {"SYN", "ACK"})
<1>1. ProcessListen(s, g) = IF g.flags # {"SYN"} THEN s ELSE t
  BY DEF ProcessListen, CompleteFork
<1>2. Shaped(s) /\ Humble(s) /\ s.next = 0 /\ s.tx = EmptyTx /\ s.retx = {} /\ s.rx.next = 0
  BY DEF Sink
<1>3. s.rx.read = 0 /\ s.rx.held = {} /\ s.rx.fin = 0
  BY <1>2 DEF RxOK, Partial, Whole
<1>4. ASSUME g.flags = {"SYN"}
      PROVE  Takes(s, t, h, w, f)
  <2>1. g.seq = 0
    BY <1>4 DEF Gets
  <2>2. /\ Shaped(u) /\ u.state = "SYN_RCVD" /\ u.ep = s.ep /\ u.next = s.next /\ u.tx = s.tx /\ u.retx = s.retx
        /\ u.out = s.out /\ u.rx.next = 1 /\ u.rx.held = s.rx.held /\ u.rx.fin = s.rx.fin /\ u.rx.read = s.rx.read
        /\ Humble(u)
    BY <1>2, <2>1 DEF Shaped, Sane, Sound, States, Humble
  <2>. HIDE DEF u
  <2>3. Sink(u)
    BY <1>2, <1>3, <2>2 DEF Sink, NoFin
  <2>4. RxOK(u.rx, h, w, f)
    BY <1>3, <2>2 DEF RxOK, Partial, HasFields, Shaped, Sane
  <2>5. Gains(s.rx, u.rx) /\ ~Over(s)
    BY <1>2, <1>3, <2>2 DEF Gains, Received, Over
  <2>6. Takes(u, t, h, w, f)
    BY <2>2, <2>3, <2>4, SynAckTakes
  <2>. HIDE DEF t
  <2>. QED  BY <2>4, <2>5, <2>6, GainsTakes
<1>. QED  BY <1>1, <1>4, SameTakes

\* A segment of a connection that has been asked for
LEMMA ProcessSynRcvdIs ==
  ASSUME NEW s, NEW g
  PROVE  /\ g.flags = {"ACK"} /\ g.ack = s.next + 1 => ProcessSynRcvd(s, g) = ReceivedAck(Established(s, g.ack), g)
         /\ g.flags = {"SYN"} =>
              ProcessSynRcvd(s, g) = SendEmptyPacket([s EXCEPT !.rx.next = g.seq + 1], {"SYN", "ACK"})
         /\ g.flags = {"FIN", "ACK"} =>
              ProcessSynRcvd(s, g) = IF g.seq # s.rx.next THEN s
                                     ELSE PeerClose([s EXCEPT !.retx = {}, !.next = @ + 1, !.high = s.next + 1,
                                                              !.tx = SetHead(@, s.next + 1)], g)
         /\ g.flags = {"RST"} => ProcessSynRcvd(s, g) = CloseAndNotify(s)
         /\ g.flags = {"ACK"} /\ g.ack # s.next + 1 => ProcessSynRcvd(s, g) = CloseAndNotify(SendRST(s))
<1>. DEFINE a == ReceivedAck(Established(s, g.ack), g)
            b == SendEmptyPacket([s EXCEPT !.rx.next = g.seq + 1], {"SYN", "ACK"})
            p == IF g.seq # s.rx.next THEN s
                 ELSE PeerClose([s EXCEPT !.retx = {}, !.next = @ + 1, !.high = s.next + 1,
                                          !.tx = SetHead(@, s.next + 1)], g)
            e == IF g.flags = {"RST"} THEN s ELSE SendRST(s)
            d == CloseAndNotify(e)
<1>1. ProcessSynRcvd(s, g) = CASE g.flags = {"ACK"} /\ g.ack = s.next + 1 -> a
                               [] g.flags = {"SYN"} -> b
                               [] g.flags = {"FIN", "ACK"} -> p
                               [] OTHER -> d
  BY Zenon DEF ProcessSynRcvd
<1>2. /\ g.flags = {"RST"} => e = s
      /\ g.flags = {"ACK"} => e = SendRST(s)
  OBVIOUS
<1>. HIDE DEF a, b, p, e
<1>3. /\ g.flags = {"ACK"} /\ g.ack = s.next + 1 => ProcessSynRcvd(s, g) = a
      /\ g.flags = {"SYN"} => ProcessSynRcvd(s, g) = b
      /\ g.flags = {"FIN", "ACK"} => ProcessSynRcvd(s, g) = p
      /\ g.flags = {"RST"} => ProcessSynRcvd(s, g) = d
      /\ g.flags = {"ACK"} /\ g.ack # s.next + 1 => ProcessSynRcvd(s, g) = d
  <2>. HIDE DEF d
  <2>. QED  BY <1>1
<1>. QED  BY <1>2, <1>3 DEF a, b, p

\* The connection is there.
LEMMA EstablishedLive ==
  ASSUME NEW s, Shaped(s), Humble(s), s.ep = TRUE, s.next = 0, s.tx = EmptyTx
  PROVE  LET t == Established(s, 1)
         IN  Live(t) /\ t.state = "ESTABLISHED" /\ t.rx = s.rx /\ t.out = s.out
<1>. DEFINE t == Established(s, 1)
            e == SetHead(s.tx, s.next + 1)
<1>1. e = Idle
  <2>1. s.next + 1 = 1
    OBVIOUS
  <2>. QED  BY <2>1, IdleIs
<1>. HIDE DEF e
<1>2. t = [s EXCEPT !.state = "ESTABLISHED", !.cong = "OPEN", !.retx = {}, !.next = s.next + 1,
                    !.high = s.next + 1, !.tx = e, !.delAck = DelAckMax]
  BY DEF Established, e
<1>. HIDE DEF t
<1>3. /\ DOMAIN t = DOMAIN s /\ t.state = "ESTABLISHED" /\ t.ep = TRUE /\ t.next = 1 /\ t.high = 1 /\ t.tx = e
      /\ t.retx = {} /\ t.rx = s.rx /\ t.out = s.out /\ Humble(t) /\ Sane(t)
  BY <1>2 DEF Shaped, Sane, Sound, States, Humble
<1>4. {"head", "end", "tail", "sacked", "lost", "retrans"} \subseteq DOMAIN Idle
  BY DEF Idle, EmptyTx
<1>5. Live(t)
  <2>1. Shaped(t)
    BY <1>1, <1>3, <1>4 DEF Shaped, Sane
  <2>. QED  BY <1>1, <1>3, <2>1 DEF Live
<1>6. Live(t) /\ t.state = "ESTABLISHED" /\ t.rx = s.rx /\ t.out = s.out
  BY <1>3, <1>5
<1>. QED  BY <1>6 DEF t

\* A segment comes in SYN_RCVD.
LEMMA SynRcvdTakes ==
  ASSUME NEW s, NEW h \in Nat, NEW w \in Nat, NEW f, h <= w + 1, Sink(s), RxOK(s.rx, h, w, f), s.out = <<>>,
         s.state = "SYN_RCVD", s.ep = TRUE, NEW g, Gets(g, h, w, f)
  PROVE  Takes(s, ProcessSynRcvd(s, g), h, w, f)
<1>1. Shaped(s) /\ Humble(s) /\ NoFin(s.rx) /\ s.next = 0 /\ s.tx = EmptyTx /\ s.retx \in {{}, {"SYN", "ACK"}} /\ ~Over(s)
  BY DEF Sink, Over
<1>2. Partial(s.rx, h, w, f) /\ Gains(s.rx, s.rx)
  <2>1. s.rx.next = 1 /\ s.rx.fin = 0
    BY <1>1 DEF NoFin
  <2>2. /\ Gains(s.rx, s.rx)
        /\ s.rx.next >= 1 => Partial(s.rx, h, w, f) \/ Whole(s.rx, w, f)
    BY RxIs
  <2>3. ~Whole(s.rx, w, f)
    BY <2>1 DEF Whole
  <2>. QED  BY <2>1, <2>2, <2>3
<1>3. ~Finished(s.rx)
  BY <1>1 DEF NoFin, Finished
<1>4. ASSUME g.flags = {"ACK"}, g.ack = s.next + 1
      PROVE  Takes(s, ProcessSynRcvd(s, g), h, w, f)
  <2>. DEFINE e == Established(s, 1)
              t == ReceivedAck(e, g)
  <2>1. ProcessSynRcvd(s, g) = t
    <3>1. g.ack = 1
      BY <1>1, <1>4
    <3>. QED  BY <1>4, <3>1, ProcessSynRcvdIs
  <2>2. Live(e) /\ e.state = "ESTABLISHED" /\ e.rx = s.rx /\ e.out = <<>>
    BY <1>1, EstablishedLive
  <2>. HIDE DEF e
  <2>3. g.sack = {} /\ g.ack \in {0, 1} /\ (g.len = 0 \/ (g.len = 1 /\ g.seq \in Nat /\ g.seq <= h - 1))
    <3>1. g.len = 0 \/ (g.len = 1 /\ g.seq \in 1 .. h - 1)
      BY Zenon, <1>4, GetsAck
    <3>2. g.ack = 1 /\ g.sack = {}
      BY <1>1, <1>4 DEF Gets
    <3>. QED  BY <3>1, <3>2
  <2>4. /\ Ready(t, h, w, f) /\ Gains(e.rx, t.rx)
        /\ g.len = 0 => t.state = e.state /\ t.rx = e.rx
        /\ g.len = 1 => \/ t.state = e.state /\ ("FIN" \in g.flags \/ ~Finished(t.rx))
                        \/ t.state = "CLOSE_WAIT" /\ Finished(t.rx) /\ "FIN" \notin g.flags
    <3>1. Partial(e.rx, h, w, f)
      BY <1>2, <2>2
    <3>. QED  BY <2>2, <2>3, <3>1, ReceivedAckLive
  <2>. HIDE DEF t
  <2>5. IF Finished(t.rx) THEN t.state = "CLOSE_WAIT" ELSE t.state = "ESTABLISHED"
    BY <1>3, <1>4, <2>2, <2>3, <2>4
  <2>. QED  BY <1>1, <2>1, <2>2, <2>4, <2>5, ReadyTakes
<1>5. ASSUME g.flags = {"SYN"}
      PROVE  Takes(s, ProcessSynRcvd(s, g), h, w, f)
  <2>. DEFINE u == [s EXCEPT !.rx.next = g.seq + 1]
  <2>1. ProcessSynRcvd(s, g) = SendEmptyPacket(u, {"SYN", "ACK"})
    BY <1>5, ProcessSynRcvdIs
  <2>2. g.seq = 0
    BY <1>5 DEF Gets
  <2>3. /\ Shaped(u) /\ u.state = s.state /\ u.ep = s.ep /\ u.next = s.next /\ u.tx = s.tx /\ u.retx = s.retx
        /\ u.out = s.out /\ u.rx.next = 1 /\ u.rx.held = s.rx.held /\ u.rx.fin = s.rx.fin /\ u.rx.read = s.rx.read
        /\ Humble(u)
    BY <1>1, <2>2 DEF Shaped, Sane, Humble
  <2>. HIDE DEF u
  <2>4. Sink(u)
    BY <1>1, <2>3 DEF Sink, NoFin
  <2>5. RxOK(u.rx, h, w, f)
    BY <1>1, <1>2, <2>3 DEF RxOK, Partial, HasFields, Shaped, Sane, NoFin
  <2>6. Gains(s.rx, u.rx)
    BY <1>1, <2>3 DEF Gains, Received, NoFin
  <2>7. Takes(u, SendEmptyPacket(u, {"SYN", "ACK"}), h, w, f)
    BY <2>3, <2>4, <2>5, SynAckTakes
  <2>. QED  BY <1>1, <2>1, <2>5, <2>6, <2>7, GainsTakes
<1>6. ASSUME g.flags = {"FIN", "ACK"}
      PROVE  Takes(s, ProcessSynRcvd(s, g), h, w, f)
  <2>. DEFINE e == SetHead(s.tx, s.next + 1)
              u == [s EXCEPT !.retx = {}, !.next = @ + 1, !.high = s.next + 1, !.tx = e]
              t == PeerClose(u, g)
  <2>1. ProcessSynRcvd(s, g) = IF g.seq # s.rx.next THEN s ELSE t
    BY <1>6, ProcessSynRcvdIs
  <2>2. e = Idle
    <3>1. s.next + 1 = 1
      BY <1>1
    <3>. QED  BY <1>1, <3>1, IdleIs
  <2>. HIDE DEF e
  <2>3. /\ DOMAIN u = DOMAIN s /\ u.state = "SYN_RCVD" /\ u.ep = TRUE /\ u.next = 1 /\ u.high = 1 /\ u.tx = e
        /\ u.retx = {} /\ u.rx = s.rx /\ u.out = s.out /\ Humble(u) /\ Sane(u)
    BY <1>1 DEF Shaped, Sane, Humble
  <2>. HIDE DEF u
  <2>4. Live(u)
    <3>1. {"head", "end", "tail", "sacked", "lost", "retrans"} \subseteq DOMAIN Idle
      BY DEF Idle, EmptyTx
    <3>2. Shaped(u)
      BY <1>1, <2>2, <2>3, <3>1 DEF Shaped, Sane
    <3>. QED  BY <2>2, <2>3, <3>2 DEF Live
  <2>5. h = w + 1 /\ w + 1 \in f /\ g.len \in {0, 1} /\ g.seq \in Nat /\ g.seq + g.len = w + 1
    <3>1. h = w + 1 /\ w + 1 \in f /\ g.len \in {0, 1} /\ g.seq + g.len = w + 1
      BY Zenon, <1>6, GetsFin
    <3>2. g.seq \in Nat
      BY DEF Gets, Segment
    <3>. QED  BY <3>1, <3>2
  <2>6. /\ Ready(t, h, w, f) /\ Gains(u.rx, t.rx)
        /\ IF Finished(t.rx) THEN t.state = "CLOSE_WAIT" ELSE t.state = u.state
        /\ u.rx.next = g.seq => Finished(t.rx)
    <3>1. Partial(u.rx, h, w, f) /\ u.out = <<>> /\ u.state \in {"ESTABLISHED", "SYN_RCVD"}
      BY <1>2, <2>3
    <3>. QED  BY <1>6, <2>4, <2>5, <3>1, PeerCloseReady
  <2>. HIDE DEF t
  <2>7. ASSUME g.seq = s.rx.next
        PROVE  Takes(s, t, h, w, f)
    <3>1. Finished(t.rx) /\ t.state = "CLOSE_WAIT" /\ Gains(s.rx, t.rx)
      BY <2>3, <2>6, <2>7
    <3>. QED  BY <1>1, <2>6, <3>1, ReadyTakes
  <2>. QED  BY <2>1, <2>7, SameTakes
<1>7. ASSUME g.flags = {"RST"}
      PROVE  Takes(s, ProcessSynRcvd(s, g), h, w, f)
  <2>1. ProcessSynRcvd(s, g) = CloseAndNotify(s)
    BY <1>7, ProcessSynRcvdIs
  <2>. QED  BY <2>1, CloseTakes
<1>8. ASSUME g.flags = {"ACK"}, g.ack # s.next + 1
      PROVE  Takes(s, ProcessSynRcvd(s, g), h, w, f)
  <2>1. ProcessSynRcvd(s, g) = CloseAndNotify(SendRST(s))
    BY <1>8, ProcessSynRcvdIs
  <2>. QED  BY <2>1, ResetTakes
<1>9. g.flags \in {{"ACK"}, {"SYN"}, {"FIN", "ACK"}, {"RST"}}
  BY DEF Gets
<1>. QED  BY <1>4, <1>5, <1>6, <1>7, <1>8, <1>9

\* ProcessEstablished, for the other segments of the sender
LEMMA EstablishedElse ==
  ASSUME NEW s, NEW g
  PROVE  /\ g.flags = {"SYN"} => ProcessEstablished(s, g) = s
         /\ g.flags = {"FIN", "ACK"} => ProcessEstablished(s, g) = PeerClose(s, g)
         /\ g.flags = {"RST"} => ProcessEstablished(s, g) = CloseAndNotify(s)
<1>. DEFINE a == IF g.ack < s.tx.head THEN s ELSE IF g.ack > s.high THEN SendAck(s) ELSE ReceivedAck(s, g)
            p == PeerClose(s, g)
            d == CloseAndNotify(s)
<1>1. ProcessEstablished(s, g) = CASE g.flags = {"ACK"} -> a
                                   [] g.flags \in SynFlags -> s
                                   [] g.flags \in FinFlags -> p
                                   [] OTHER -> d
  BY Zenon DEF ProcessEstablished
<1>. HIDE DEF a, p, d
<1>2. /\ g.flags = {"SYN"} => g.flags # {"ACK"} /\ g.flags \in SynFlags /\ g.flags \notin FinFlags
      /\ g.flags = {"FIN", "ACK"} => g.flags # {"ACK"} /\ g.flags \notin SynFlags /\ g.flags \in FinFlags
      /\ g.flags = {"RST"} => g.flags # {"ACK"} /\ g.flags \notin SynFlags /\ g.flags \notin FinFlags
  BY DEF SynFlags, FinFlags
<1>3. /\ g.flags = {"SYN"} => ProcessEstablished(s, g) = s
      /\ g.flags = {"FIN", "ACK"} => ProcessEstablished(s, g) = p
      /\ g.flags = {"RST"} => ProcessEstablished(s, g) = d
  BY <1>1, <1>2
<1>. QED  BY <1>3 DEF p, d

\* In ESTABLISHED
LEMMA EstablishedTakes ==
  ASSUME NEW s, NEW h \in Nat, NEW w \in Nat, NEW f, h <= w + 1, Sink(s), RxOK(s.rx, h, w, f), s.out = <<>>,
         s.state = "ESTABLISHED", s.ep = TRUE, NEW g, Gets(g, h, w, f)
  PROVE  Takes(s, ProcessEstablished(s, g), h, w, f)
<1>1. Live(s) /\ s.rx.next >= 1 /\ ~Finished(s.rx) /\ ~Over(s)
  BY DEF Sink, Over
<1>2. Partial(s.rx, h, w, f) /\ Gains(s.rx, s.rx)
  BY <1>1, RxIs
<1>3. s.tx.head = 1 /\ s.high = 1
  BY <1>1, IdleIs DEF Live
<1>4. ASSUME g.flags = {"ACK"}
      PROVE  Takes(s, ProcessEstablished(s, g), h, w, f)
  <2>. DEFINE t == ReceivedAck(s, g)
  <2>1. ProcessEstablished(s, g) = IF g.ack < s.tx.head THEN s
                                   ELSE IF g.ack > s.high THEN SendAck(s) ELSE t
    BY <1>4, ProcessEstablishedIs
  <2>2. g.sack = {} /\ g.ack \in 0 .. 2 /\ (g.len = 0 \/ (g.len = 1 /\ g.seq \in Nat /\ g.seq <= h - 1))
    <3>1. g.len = 0 \/ (g.len = 1 /\ g.seq \in 1 .. h - 1)
      BY Zenon, <1>4, GetsAck
    <3>2. g.ack \in 0 .. 2 /\ g.sack = {}
      BY DEF Gets
    <3>. QED  BY <3>1, <3>2
  <2>3. ASSUME g.ack = 1
        PROVE  Takes(s, t, h, w, f)
    <3>1. /\ Ready(t, h, w, f) /\ Gains(s.rx, t.rx)
          /\ g.len = 0 => t.state = s.state /\ t.rx = s.rx
          /\ g.len = 1 => \/ t.state = s.state /\ ("FIN" \in g.flags \/ ~Finished(t.rx))
                          \/ t.state = "CLOSE_WAIT" /\ Finished(t.rx) /\ "FIN" \notin g.flags
      BY <1>1, <1>2, <2>2, <2>3, ReceivedAckLive
    <3>. HIDE DEF t
    <3>2. IF Finished(t.rx) THEN t.state = "CLOSE_WAIT" ELSE t.state = "ESTABLISHED"
      BY <1>1, <1>4, <2>2, <3>1
    <3>. QED  BY <1>1, <3>1, <3>2, ReadyTakes
  <2>4. Takes(s, s, h, w, f) /\ Takes(s, SendAck(s), h, w, f)
    BY SameTakes, AckTakes
  <2>. HIDE DEF t
  <2>. QED  BY <1>3, <2>1, <2>2, <2>3, <2>4
<1>5. ASSUME g.flags = {"SYN"}
      PROVE  Takes(s, ProcessEstablished(s, g), h, w, f)
  <2>1. ProcessEstablished(s, g) = s
    BY <1>5, EstablishedElse
  <2>. QED  BY <2>1, SameTakes
<1>6. ASSUME g.flags = {"FIN", "ACK"}
      PROVE  Takes(s, ProcessEstablished(s, g), h, w, f)
  <2>. DEFINE t == PeerClose(s, g)
  <2>1. ProcessEstablished(s, g) = t
    BY <1>6, EstablishedElse
  <2>2. h = w + 1 /\ w + 1 \in f /\ g.len \in {0, 1} /\ g.seq \in Nat /\ g.seq + g.len = w + 1
    <3>1. h = w + 1 /\ w + 1 \in f /\ g.len \in {0, 1} /\ g.seq + g.len = w + 1
      BY Zenon, <1>6, GetsFin
    <3>2. g.seq \in Nat
      BY DEF Gets, Segment
    <3>. QED  BY <3>1, <3>2
  <2>3. /\ Ready(t, h, w, f) /\ Gains(s.rx, t.rx)
        /\ IF Finished(t.rx) THEN t.state = "CLOSE_WAIT" ELSE t.state = s.state
    BY <1>1, <1>2, <1>6, <2>2, PeerCloseReady
  <2>. HIDE DEF t
  <2>. QED  BY <1>1, <2>1, <2>3, ReadyTakes
<1>7. ASSUME g.flags = {"RST"}
      PROVE  Takes(s, ProcessEstablished(s, g), h, w, f)
  <2>1. ProcessEstablished(s, g) = CloseAndNotify(s)
    BY <1>7, EstablishedElse
  <2>. QED  BY <2>1, CloseTakes
<1>8. g.flags \in {{"ACK"}, {"SYN"}, {"FIN", "ACK"}, {"RST"}}
  BY DEF Gets
<1>. QED  BY <1>4, <1>5, <1>6, <1>7, <1>8

\* ProcessWait ignores a SYN.
LEMMA WaitSyn ==
  ASSUME NEW s, NEW g, g.flags = {"SYN"}
  PROVE  ProcessWait(s, g) = s
<1>. DEFINE a == Then(ReceivedAck(s, g),
                      LAMBDA read : ProcessPeerFin(IF read.state = "FIN_WAIT_1" /\ FinAcked(read, g)
                                                   THEN [read EXCEPT !.state = "FIN_WAIT_2"] ELSE read, g))
            p == Then(IF "ACK" \in g.flags THEN ReceivedAck(s, g) ELSE s,
                      LAMBDA read : ProcessPeerFin([read EXCEPT !.rx = SetFinSequence(@, g.seq)], g))
            d == CloseAndNotify(s)
<1>1. ProcessWait(s, g) = CASE g.flags = {"ACK"} -> a
                            [] g.flags \in FinFlags -> p
                            [] g.flags \in SynFlags -> s
                            [] OTHER -> d
  BY Zenon DEF ProcessWait
<1>. HIDE DEF a, p, d
<1>2. g.flags # {"ACK"} /\ g.flags \in SynFlags /\ g.flags \notin FinFlags
  BY DEF SynFlags, FinFlags
<1>. QED  BY <1>1, <1>2

\* The stream has ended: nothing but acknowledgments, and the FIN again
LEMMA WaitTakes ==
  ASSUME NEW s, NEW h \in Nat, NEW w \in Nat, NEW f, h <= w + 1, Sink(s), RxOK(s.rx, h, w, f), s.out = <<>>,
         s.state = "CLOSE_WAIT", s.ep = TRUE, NEW g, Gets(g, h, w, f), g.len = 0, g.ack # 2
  PROVE  Takes(s, ProcessWait(s, g), h, w, f)
<1>1. Live(s) /\ Finished(s.rx) /\ ~Over(s)
  BY DEF Sink, Over
<1>2. Whole(s.rx, w, f) /\ Gains(s.rx, s.rx)
  BY <1>1, RxIs
<1>3. g.sack = {} /\ g.ack \in {0, 1}
  BY DEF Gets
<1>. DEFINE r == ReceivedAck(s, g)
<1>4. Ready(r, h, w, f) /\ r.state = "CLOSE_WAIT" /\ r.rx = s.rx
  BY <1>1, <1>2, <1>3, ReceivedAckLive
<1>6. ASSUME g.flags = {"ACK"}
      PROVE  Takes(s, ProcessWait(s, g), h, w, f)
  <2>1. ProcessWait(s, g) = ProcessPeerFin(IF r.state = "FIN_WAIT_1" /\ FinAcked(r, g)
                                           THEN [r EXCEPT !.state = "FIN_WAIT_2"] ELSE r, g)
    BY <1>6, ProcessWaitIs
  <2>. HIDE DEF r
  <2>2. ProcessWait(s, g) = ProcessPeerFin(r, g)
    BY <1>4, <2>1
  <2>3. ProcessPeerFin(r, g) = r
    BY <1>4 DEF ProcessPeerFin
  <2>4. Takes(s, r, h, w, f)
    BY <1>1, <1>2, <1>4, ReadyTakes
  <2>. QED  BY <2>2, <2>3, <2>4
<1>7. ASSUME g.flags = {"FIN", "ACK"}
      PROVE  Takes(s, ProcessWait(s, g), h, w, f)
  <2>. DEFINE x == SetFinSequence(r.rx, w + 1)
              t == [r EXCEPT !.rx = x]
  <2>1. g.seq = w + 1 /\ h = w + 1 /\ w + 1 \in f
    <3>1. g.seq + g.len = w + 1 /\ h = w + 1 /\ w + 1 \in f
      BY Zenon, <1>7, GetsFin
    <3>2. g.seq \in Nat
      BY DEF Gets, Segment
    <3>. QED  BY <3>1, <3>2
  <2>2. ProcessWait(s, g) = ProcessPeerFin([r EXCEPT !.rx = SetFinSequence(@, g.seq)], g)
    BY <1>7, ProcessWaitIs
  <2>. HIDE DEF r
  <2>3. ProcessWait(s, g) = ProcessPeerFin(t, g)
    BY <2>1, <2>2
  <2>4. /\ HasFields(x) /\ x.fin = w + 1 /\ x.held = r.rx.held /\ Gains(r.rx, x)
        /\ Partial(x, h, w, f) \/ Whole(x, w, f)
        /\ x.next = IF r.rx.next = w + 1 THEN w + 2 ELSE r.rx.next
    BY <1>2, <1>4, <2>1, SetFinIs, RxIs
  <2>. HIDE DEF x
  <2>5. x.next = w + 2 /\ Whole(x, w, f) /\ Finished(x)
    <3>1. x.next = w + 2
      BY <1>2, <1>4, <2>4 DEF Whole
    <3>2. ~Partial(x, h, w, f)
      BY <2>1, <3>1 DEF Partial
    <3>. QED  BY <2>4, <3>1, <3>2 DEF Finished
  <2>6. Ready(t, h, w, f) /\ t.rx = x /\ t.state = "CLOSE_WAIT"
    <3>1. DOMAIN t = DOMAIN r /\ t.rx = x /\ t.state = r.state /\ t.ep = r.ep /\ t.next = r.next /\ t.high = r.high
          /\ t.tx = r.tx /\ t.retx = r.retx /\ t.out = r.out /\ Humble(t) /\ Sane(t)
      BY <1>4 DEF Ready, Live, Shaped, Sane, Humble
    <3>2. Shaped(r) /\ r.ep = TRUE /\ r.next = 1 /\ r.high = 1 /\ r.tx = Idle /\ r.retx = {} /\ Reporting(r)
      BY <1>4, ReadyIs
    <3>. HIDE DEF t
    <3>3. Live(t)
      <4>1. Shaped(t)
        BY <2>4, <3>1, <3>2 DEF Shaped, Sane, HasFields
      <4>. QED  BY <3>1, <3>2, <4>1 DEF Live
    <3>4. Reports(t.rx) = Reports(r.rx)
      <4>1. x.next = r.rx.next /\ x.held = r.rx.held
        BY <1>2, <1>4, <2>4, <2>5 DEF Whole
      <4>. QED  BY <3>1, <4>1 DEF Reports
    <3>5. Reporting(t)
      BY <3>1, <3>2, <3>4 DEF Reporting
    <3>. QED  BY <1>4, <2>5, <3>1, <3>3, <3>5 DEF Ready
  <2>. HIDE DEF t
  <2>7. ProcessPeerFin(t, g) = t
    BY <2>6 DEF ProcessPeerFin
  <2>8. Gains(s.rx, t.rx) /\ Finished(t.rx)
    BY <1>4, <2>4, <2>5, <2>6
  <2>. QED  BY <1>1, <2>3, <2>6, <2>7, <2>8, ReadyTakes
<1>8. ASSUME g.flags = {"SYN"}
      PROVE  Takes(s, ProcessWait(s, g), h, w, f)
  <2>1. ProcessWait(s, g) = s
    BY <1>8, WaitSyn
  <2>. QED  BY <2>1, SameTakes
<1>9. ASSUME g.flags = {"RST"}
      PROVE  Takes(s, ProcessWait(s, g), h, w, f)
  <2>1. ProcessWait(s, g) = CloseAndNotify(s)
    BY <1>9, ProcessWaitIs
  <2>. QED  BY <2>1, CloseTakes
<1>10. g.flags \in {{"ACK"}, {"SYN"}, {"FIN", "ACK"}, {"RST"}}
  BY DEF Gets
<1>. QED  BY <1>6, <1>7, <1>8, <1>9, <1>10

\* ProcessLastAck, for the segments of the sender
LEMMA LastAckIs ==
  ASSUME NEW s, NEW g
  PROVE  /\ g.flags = {"ACK"} => ProcessLastAck(s, g) = IF g.seq = s.rx.next THEN CloseAndNotify(s) ELSE s
         /\ g.flags \in {{"FIN", "ACK"}, {"RST"}} => ProcessLastAck(s, g) = CloseAndNotify(s)
         /\ g.flags = {"SYN"} => ProcessLastAck(s, g) = CloseAndNotify(SendRST(s))
<1>. DEFINE a == IF g.seq = s.rx.next THEN CloseAndNotify(s) ELSE s
            b == SendEmptyPacket(s, {"FIN", "ACK"})
            d == CloseAndNotify(s)
            e == CloseAndNotify(SendRST(s))
<1>1. ProcessLastAck(s, g) = CASE g.flags = {"ACK"} -> a
                               [] g.flags = {"FIN"} -> b
                               [] g.flags \in {{"FIN", "ACK"}, {"RST"}} -> d
                               [] OTHER -> e
  BY Zenon DEF ProcessLastAck
<1>. HIDE DEF a, b, d, e
<1>2. {"FIN", "ACK"} # {"FIN"} /\ {"RST"} # {"FIN"} /\ {"SYN"} # {"FIN"} /\ {"SYN"} # {"ACK"} /\ {"SYN"} # {"RST"}
      /\ {"FIN", "ACK"} # {"ACK"} /\ {"RST"} # {"ACK"} /\ {"SYN"} # {"FIN", "ACK"}
  OBVIOUS
<1>3. /\ g.flags = {"ACK"} => ProcessLastAck(s, g) = a
      /\ g.flags \in {{"FIN", "ACK"}, {"RST"}} => ProcessLastAck(s, g) = d
      /\ g.flags = {"SYN"} => ProcessLastAck(s, g) = e
  BY <1>1, <1>2
<1>. QED  BY <1>3 DEF a, d, e

\* A segment comes in LAST_ACK.
LEMMA LastAckTakes ==
  ASSUME NEW s, NEW h \in Nat, NEW w \in Nat, NEW f, Sink(s), RxOK(s.rx, h, w, f), s.out = <<>>,
         s.state = "LAST_ACK", s.ep = TRUE, NEW g, Gets(g, h, w, f)
  PROVE  Takes(s, ProcessLastAck(s, g), h, w, f)
<1>1. Takes(s, s, h, w, f) /\ Takes(s, CloseAndNotify(s), h, w, f) /\ Takes(s, CloseAndNotify(SendRST(s)), h, w, f)
  BY SameTakes, CloseTakes, ResetTakes
<1>2. g.flags \in {{"ACK"}, {"SYN"}, {"FIN", "ACK"}, {"RST"}}
  BY DEF Gets
<1>3. /\ g.flags = {"ACK"} => ProcessLastAck(s, g) = IF g.seq = s.rx.next THEN CloseAndNotify(s) ELSE s
      /\ g.flags \in {{"FIN", "ACK"}, {"RST"}} => ProcessLastAck(s, g) = CloseAndNotify(s)
      /\ g.flags = {"SYN"} => ProcessLastAck(s, g) = CloseAndNotify(SendRST(s))
  BY LastAckIs
<1>. QED  BY <1>1, <1>2, <1>3

\* Noting the window leaves the sink as it is.
LEMMA HeededSink ==
  ASSUME NEW s, NEW t, Sink(s), Heeded(s, t), t.highAck \in 0 .. 2
  PROVE  Sink(t) /\ (Over(s) <=> Over(t))
BY DEF Sink, Live, Heeded, Over, Humble

\* ... and what follows is the step.
LEMMA HeededTakes ==
  ASSUME NEW s, NEW n, NEW t, NEW h, NEW w, NEW f, Sink(s), Heeded(s, n), n.highAck \in 0 .. 2,
         Takes(n, t, h, w, f)
  PROVE  Takes(s, t, h, w, f)
<1>1. n.rx = s.rx /\ (Over(s) <=> Over(n))
  BY HeededSink DEF Heeded
<1>. QED  BY <1>1 DEF Takes

\* ForwardUp: data out of range are answered, the rest is handled.
LEMMA ForwardIs ==
  ASSUME NEW s, NEW g
  PROVE  ForwardUp(s, g) = IF g.len > 0 /\ OutOfRange(s, g) THEN SendAck(s) ELSE DoForwardUp(NoteWindow(s, g), g)
<1>. DEFINE n == NoteWindow(s, g)
            P(t) == DoForwardUp(t, g)
            X == Then(n, LAMBDA t : DoForwardUp(t, g))
<1>1. X = CHOOSE after \in {P(t) : t \in {n}} : TRUE
  BY Zenon DEF Then
<1>2. ForwardUp(s, g) = IF g.len > 0 /\ OutOfRange(s, g) THEN SendAck(s) ELSE X
  BY Zenon DEF ForwardUp
<1>. HIDE DEF P, n, X
<1>3. X = P(n)
  BY <1>1
<1>. QED  BY <1>2, <1>3 DEF P, n

\* Data come when all has been read: they are out of range.
LEMMA LateData ==
  ASSUME NEW s, NEW h \in Nat, NEW w \in Nat, NEW f, h <= w + 1, Whole(s.rx, w, f),
         s.state \in {"CLOSE_WAIT", "LAST_ACK"}, NEW g, Gets(g, h, w, f), g.len > 0
  PROVE  OutOfRange(s, g)
<1>1. g.seq < w + 2
  <2>1. g.seq \in Nat /\ g.len \in Nat
    BY DEF Gets, Segment
  <2>2. (g.len = 1 /\ g.seq \in 1 .. h - 1) \/ g.seq + g.len = w + 1
    BY DEF Gets
  <2>. QED  BY <2>1, <2>2
<1>2. s.rx.next = w + 2 /\ g.seq \in Nat
  BY DEF Whole, Gets, Segment
<1>. QED  BY <1>1, <1>2 DEF OutOfRange

\* ForwardUp at the sink, whatever its socket's state
LEMMA SinkHears ==
  ASSUME NEW s, NEW h \in Nat, NEW w \in Nat, NEW f, h <= w + 1, Sink(s), RxOK(s.rx, h, w, f), s.out = <<>>,
         s.ep = TRUE, NEW g, Gets(g, h, w, f), g.ack = 2 => Over(s)
  PROVE  Takes(s, ForwardUp(s, g), h, w, f)
<1>. DEFINE n == NoteWindow(s, g)
<1>1. ForwardUp(s, g) = IF g.len > 0 /\ OutOfRange(s, g) THEN SendAck(s) ELSE DoForwardUp(n, g)
  BY ForwardIs
<1>2. Heeded(s, n) /\ n.highAck \in 0 .. 2
  <2>1. /\ Heeded(s, n)
        /\ n.highAck = IF "SYN" \in g.flags THEN (IF "ACK" \in g.flags THEN g.ack ELSE s.highAck)
                       ELSE IF "ACK" \in g.flags /\ s.state \notin {"LISTEN", "SYN_SENT", "SYN_RCVD"}
                            THEN Max({s.highAck, g.ack}) ELSE s.highAck
    BY SinkIs, NoteWindowIs
  <2>2. s.highAck \in 0 .. 2 /\ g.ack \in 0 .. 2
    BY SinkIs DEF Humble, Gets
  <2>3. Max({s.highAck, g.ack}) \in 0 .. 2
    BY <2>2, MaxOfTwo
  <2>. QED  BY <2>1, <2>2, <2>3
<1>. HIDE DEF n
<1>3. Takes(s, SendAck(s), h, w, f)
  BY AckTakes
<1>4. Sink(n) /\ RxOK(n.rx, h, w, f) /\ n.out = <<>> /\ n.ep = TRUE /\ n.state = s.state /\ n.rx = s.rx
      /\ (Over(s) <=> Over(n))
  BY <1>2, HeededSink DEF Heeded
<1>5. s.state \in {"LISTEN", "SYN_RCVD", "ESTABLISHED", "CLOSE_WAIT", "LAST_ACK"}
  BY DEF Sink
<1>6. /\ n.state = "ESTABLISHED" => DoForwardUp(n, g) = ProcessEstablished(n, g)
      /\ n.state = "LISTEN" => DoForwardUp(n, g) = ProcessListen(n, g)
      /\ n.state = "SYN_RCVD" => DoForwardUp(n, g) = ProcessSynRcvd(n, g)
      /\ n.state = "CLOSE_WAIT" => DoForwardUp(n, g) = ProcessWait(n, g)
      /\ n.state = "LAST_ACK" => DoForwardUp(n, g) = ProcessLastAck(n, g)
  BY Dispatch
<1>7. ASSUME n.state \in {"LISTEN", "SYN_RCVD", "ESTABLISHED", "LAST_ACK"}
      PROVE  Takes(n, DoForwardUp(n, g), h, w, f)
  <2>1. n.state = "LISTEN" => Takes(n, ProcessListen(n, g), h, w, f)
    BY <1>4, ListenTakes
  <2>2. n.state = "SYN_RCVD" => Takes(n, ProcessSynRcvd(n, g), h, w, f)
    BY <1>4, SynRcvdTakes
  <2>3. n.state = "ESTABLISHED" => Takes(n, ProcessEstablished(n, g), h, w, f)
    BY <1>4, EstablishedTakes
  <2>4. n.state = "LAST_ACK" => Takes(n, ProcessLastAck(n, g), h, w, f)
    BY <1>4, LastAckTakes
  <2>. QED  BY <1>6, <1>7, <2>1, <2>2, <2>3, <2>4
<1>8. ASSUME n.state = "CLOSE_WAIT", g.len = 0
      PROVE  Takes(n, DoForwardUp(n, g), h, w, f)
  <2>1. g.ack # 2
    <3>1. ~Over(n)
      BY <1>8 DEF Over
    <3>. QED  BY <1>4, <3>1
  <2>. QED  BY <1>4, <1>6, <1>8, <2>1, WaitTakes
<1>9. ASSUME s.state = "CLOSE_WAIT", g.len # 0
      PROVE  g.len > 0 /\ OutOfRange(s, g)
  <2>1. Whole(s.rx, w, f)
    <3>1. Finished(s.rx)
      BY <1>9 DEF Sink
    <3>. QED  BY <3>1, RxIs
  <2>2. g.len > 0
    BY <1>9 DEF Gets, Segment
  <2>. QED  BY <1>9, <2>1, <2>2, LateData
<1>10. Takes(n, DoForwardUp(n, g), h, w, f) => Takes(s, DoForwardUp(n, g), h, w, f)
  BY <1>2, HeededTakes
<1>. QED  BY <1>1, <1>3, <1>4, <1>5, <1>7, <1>8, <1>9, <1>10

\* The timers of the sink
LEMMA KeptStill ==
  ASSUME NEW s, NEW u, NEW t, NEW h \in Nat, NEW w \in Nat, NEW f, Sink(s), RxOK(s.rx, h, w, f), Kept(s, u),
         Takes(u, t, h, w, f)
  PROVE  Takes(s, t, h, w, f)
<1>1. u.rx = s.rx /\ (Over(s) => Over(u))
  BY KeptSink DEF Kept
<1>. QED  BY <1>1 DEF Takes

\* The timer of the delayed acknowledgment
LEMMA SinkDelAck ==
  ASSUME NEW s, NEW h \in Nat, NEW w \in Nat, NEW f, Sink(s), RxOK(s.rx, h, w, f), s.out = <<>>
  PROVE  Takes(s, DelAckTimeout(s), h, w, f)
<1>. DEFINE u == [Cancel(s, "delAck") EXCEPT !.delAck = 0]
<1>1. Kept(s, u) /\ u.out = <<>>
  <2>1. Kept(s, Cancel(s, "delAck")) /\ Cancel(s, "delAck").out = s.out
    BY SinkIs, TimersAreKept
  <2>. QED  BY <2>1 DEF Kept, Shaped, Sane
<1>2. DelAckTimeout(s) = SendAck(u)
  BY DEF DelAckTimeout
<1>. HIDE DEF u
<1>3. Sink(u) /\ RxOK(u.rx, h, w, f)
  <2>1. u.rx = s.rx
    BY <1>1 DEF Kept
  <2>. QED  BY <1>1, <2>1, KeptSink
<1>4. Takes(u, SendAck(u), h, w, f)
  BY <1>1, <1>3, AckTakes
<1>. QED  BY <1>1, <1>2, <1>4, KeptStill

\* The delayed SendPendingData: the sink writes nothing.
LEMMA SinkPending ==
  ASSUME NEW s, NEW h \in Nat, NEW w \in Nat, NEW f, Sink(s), RxOK(s.rx, h, w, f), s.out = <<>>
  PROVE  Takes(s, SendPendingData(s), h, w, f)
<1>. DEFINE t == SendPendingData(s)
<1>1. Kept(s, t) /\ t.out = s.out
  <2>1. Shaped(s) /\ TxSize(s.tx) = 0
    BY SinkIs
  <2>2. TxSize(s.tx) \in Nat
    BY <2>1
  <2>. QED  BY <2>1, <2>2, SendPendingIdle
<1>. HIDE DEF t
<1>2. t.out = <<>>
  BY <1>1
<1>3. Reporting(t)
  BY <1>2, NothingSaid
<1>4. Takes(s, t, h, w, f)
  BY <1>1, <1>3, KeptTakes
<1>. QED  BY <1>4 DEF t

\* The timer of pacing
LEMMA SinkPacing ==
  ASSUME NEW s, NEW h \in Nat, NEW w \in Nat, NEW f, Sink(s), RxOK(s.rx, h, w, f), s.out = <<>>
  PROVE  Takes(s, NotifyPacingPerformed(s), h, w, f)
<1>. DEFINE u == Cancel(s, "pacing")
<1>1. Kept(s, u) /\ u.out = s.out
  BY SinkIs, TimersAreKept
<1>2. NotifyPacingPerformed(s) = SendPendingData(u)
  BY DEF NotifyPacingPerformed
<1>. HIDE DEF u
<1>3. Sink(u) /\ RxOK(u.rx, h, w, f)
  <2>1. u.rx = s.rx
    BY <1>1 DEF Kept
  <2>. QED  BY <1>1, <2>1, KeptSink
<1>4. Takes(u, SendPendingData(u), h, w, f)
  BY <1>1, <1>3, SinkPending
<1>. QED  BY <1>1, <1>2, <1>4, KeptStill

\* The timer of TIME_WAIT, a state that the sink does not reach
LEMMA SinkTimeWait ==
  ASSUME NEW s, NEW h \in Nat, NEW w \in Nat, NEW f, Sink(s), RxOK(s.rx, h, w, f), s.out = <<>>
  PROVE  Takes(s, TimeWaitOver(s), h, w, f)
<1>. DEFINE u == Cancel(s, "timeWait")
<1>1. Kept(s, u) /\ u.out = s.out
  BY SinkIs, TimersAreKept
<1>2. TimeWaitOver(s) = CloseAndNotify(u)
  BY DEF TimeWaitOver
<1>. HIDE DEF u
<1>3. Sink(u) /\ RxOK(u.rx, h, w, f)
  <2>1. u.rx = s.rx
    BY <1>1 DEF Kept
  <2>. QED  BY <1>1, <2>1, KeptSink
<1>4. Takes(u, CloseAndNotify(u), h, w, f)
  BY <1>1, <1>3, CloseTakes
<1>. QED  BY <1>1, <1>2, <1>4, KeptStill

\* The FIN of the sink
LEMMA SinkFin ==
  ASSUME NEW s, NEW t, NEW h \in Nat, NEW w \in Nat, NEW f, RxOK(s.rx, h, w, f), Finished(s.rx),
         Shaped(t), Humble(t), t.state = "LAST_ACK", t.ep = TRUE, t.next = 1, t.tx = Idle, t.rx = s.rx, t.retx = {"FIN", "ACK"},
         t.out = Append(<<>>, [flags |-> {"FIN", "ACK"}, seq |-> 1, len |-> 0, ack |-> s.rx.next, sack |-> s.rx.held])
  PROVE  Takes(s, t, h, w, f)
<1>. DEFINE gs == [flags |-> {"FIN", "ACK"}, seq |-> 1, len |-> 0, ack |-> s.rx.next, sack |-> s.rx.held]
<1>1. s.rx.next \in Nat /\ s.rx.held \in SUBSET Nat /\ Gains(s.rx, s.rx)
  BY RxIs
<1>2. Sink(t) /\ Over(t)
  BY DEF Sink, Over
<1>3. gs \in Said(t)
  <2>1. gs \in Segment /\ gs.len = 0 /\ gs.ack = t.rx.next /\ gs.sack = t.rx.held /\ gs.flags = {"FIN", "ACK"}
        /\ gs.seq = 1
    BY <1>1 DEF Segment
  <2>. HIDE DEF gs
  <2>. QED  BY <1>2, <2>1 DEF Said
<1>. HIDE DEF gs
<1>4. t.out \in Seq(Said(t))
  <2>1. t.out = Append(<<>>, gs)
    BY DEF gs
  <2>2. \A S : << >> \in Seq(S)
    BY EmptySeq
  <2>3. << >> \in Seq(Said(t))
    BY <2>2, Zenon
  <2>. QED  BY <1>3, <2>1, <2>3
<1>. QED  BY <1>1, <1>2, <1>4 DEF Takes

\* The sink's application closes after the end of the stream.
LEMMA SinkClose ==
  ASSUME NEW s, NEW h \in Nat, NEW w \in Nat, NEW f, Sink(s), RxOK(s.rx, h, w, f), s.out = <<>>,
         s.state = "CLOSE_WAIT"
  PROVE  Takes(s, Close(s), h, w, f)
<1>. DEFINE e == [s EXCEPT !.closeOnEmpty = TRUE]
            v == SendEmptyPacket(s, {"FIN", "ACK"})
            t == [v EXCEPT !.state = "LAST_ACK"]
            small == SizeFrom(s.tx, s.next) > 0
<1>1. Shaped(s) /\ Humble(s) /\ s.ep \in BOOLEAN /\ Ended(s) /\ ~Over(s)
  BY SinkIs DEF Over
<1>2. DoClose(s) = t
  BY DoCloseIs
<1>3. Close(s) = IF s.rx.held # {} THEN SendRST(s) ELSE IF small THEN e ELSE t
  BY <1>2 DEF Close
<1>4. /\ Shaped(v)
      /\ Kept(s, [v EXCEPT !.retx = s.retx])
      /\ v.retx = IF s.ep /\ s.retx = {} THEN {"FIN", "ACK"} ELSE s.retx
      /\ ~s.ep => v.out = s.out
      /\ s.ep => v.out = Append(s.out, [flags |-> {"FIN", "ACK"}, seq |-> s.next, len |-> 0,
                                        ack |-> s.rx.next, sack |-> s.rx.held])
  BY <1>1, FinIs
<1>. HIDE DEF v
<1>5. v.ep = s.ep /\ v.next = s.next /\ v.tx = s.tx /\ v.rx = s.rx /\ Humble(v)
  BY <1>1, <1>4 DEF Kept, Shaped, Sane, Humble
<1>6. /\ Shaped(t) /\ t.state = "LAST_ACK" /\ t.ep = s.ep /\ t.next = s.next /\ t.tx = s.tx /\ t.rx = s.rx
      /\ t.retx = v.retx /\ t.out = v.out /\ Humble(t)
  BY <1>4, <1>5 DEF Shaped, Sane, Sound, States, Humble
<1>. HIDE DEF t
<1>7. /\ Shaped(e) /\ e.state = s.state /\ e.ep = s.ep /\ e.next = s.next /\ e.tx = s.tx /\ e.rx = s.rx
      /\ e.retx = s.retx /\ e.out = s.out /\ Humble(e)
  BY <1>1 DEF Shaped, Sane, Humble
<1>8. ASSUME s.ep = TRUE
      PROVE  Takes(s, Close(s), h, w, f)
  <2>1. Live(s) /\ Finished(s.rx)
    BY <1>8 DEF Sink
  <2>2. s.next = 1 /\ s.tx = Idle /\ s.retx = {}
    BY <2>1 DEF Live
  <2>3. s.rx.held = {}
    BY <2>1, RxIs DEF Whole
  <2>4. ~small
    BY <2>2, IdleIs DEF SizeFrom
  <2>5. t.retx = {"FIN", "ACK"}
        /\ t.out = Append(<<>>, [flags |-> {"FIN", "ACK"}, seq |-> 1, len |-> 0, ack |-> s.rx.next, sack |-> s.rx.held])
    BY <1>4, <1>6, <1>8, <2>2
  <2>6. Takes(s, t, h, w, f)
    BY <1>6, <1>8, <2>1, <2>2, <2>5, SinkFin
  <2>. QED  BY <1>3, <2>3, <2>4, <2>6
<1>9. ASSUME s.ep = FALSE
      PROVE  Takes(s, Close(s), h, w, f)
  <2>1. s.retx = {} /\ s.tx \in {EmptyTx, Idle}
    BY <1>9 DEF Sink, Live
  <2>2. t.out = <<>> /\ t.retx = {}
    BY <1>4, <1>6, <1>9, <2>1
  <2>3. Sink(t) /\ Sink(e)
    BY <1>6, <1>7, <1>9, <2>1, <2>2 DEF Sink
  <2>4. Gains(s.rx, s.rx)
    BY RxIs
  <2>5. t.out \in Seq(Said(t)) /\ e.out \in Seq(Said(e))
    <3>1. \A S : << >> \in Seq(S)
      BY EmptySeq
    <3>2. << >> \in Seq(Said(t)) /\ << >> \in Seq(Said(e))
      BY <3>1, Zenon
    <3>. QED  BY <1>7, <2>2, <3>2
  <2>6. Takes(s, t, h, w, f) /\ Takes(s, e, h, w, f)
    <3>. HIDE DEF e
    <3>. QED  BY <1>1, <1>6, <1>7, <2>3, <2>4, <2>5 DEF Takes
  <2>7. Takes(s, SendRST(s), h, w, f)
    <3>1. Shut(s, SendRST(s)) /\ SendRST(s).out = s.out
      BY <1>1, <1>9, RstShuts
    <3>2. Reporting(SendRST(s))
      BY <3>1, NothingSaid
    <3>. QED  BY <1>1, <3>1, <3>2, ShutTakes
  <2>. QED  BY <1>3, <2>6, <2>7
<1>. QED  BY <1>1, <1>8, <1>9

\* The timer of retransmission: the SYN or the FIN is sent again.
LEMMA SinkRetx ==
  ASSUME NEW s, NEW h \in Nat, NEW w \in Nat, NEW f, Sink(s), RxOK(s.rx, h, w, f), s.out = <<>>, s.retx # {}
  PROVE  Takes(s, RetxEvent(s), h, w, f)
<1>. DEFINE u == Fired(s)
            r == RetxEvent(s)
<1>1. Shaped(s) /\ Humble(s) /\ s.ep \in BOOLEAN
  BY SinkIs
<1>2. /\ Shaped(u) /\ u.retx = {} /\ u.state = s.state /\ u.ep = s.ep /\ u.cong = s.cong
      /\ u.next = s.next /\ u.high = s.high /\ u.highAck = s.highAck /\ u.recover = s.recover /\ u.tx = s.tx
      /\ u.rx = s.rx /\ u.closeOnEmpty = s.closeOnEmpty /\ u.out = s.out
  BY <1>1, FiredIs
<1>3. \/ s.state = "SYN_RCVD" /\ s.ep = TRUE /\ s.retx = {"SYN", "ACK"}
      \/ s.state = "LAST_ACK" /\ s.ep = TRUE /\ s.next = 1 /\ s.tx = Idle /\ Finished(s.rx) /\ s.retx = {"FIN", "ACK"}
  BY DEF Sink, Live
<1>4. s.retx # {"RTO"} => r = SendEmptyPacket(u, s.retx)
  BY RetxEventIs
<1>. HIDE DEF u, r
<1>5. ASSUME s.state = "SYN_RCVD", s.ep = TRUE, s.retx = {"SYN", "ACK"}
      PROVE  Takes(s, r, h, w, f)
  <2>1. Sink(u)
    BY <1>2, <1>5 DEF Sink, Humble
  <2>2. RxOK(u.rx, h, w, f) /\ u.out = <<>> /\ u.state = "SYN_RCVD" /\ u.ep = TRUE
    BY <1>2, <1>5
  <2>3. Takes(u, SendEmptyPacket(u, {"SYN", "ACK"}), h, w, f)
    BY <2>1, <2>2, SynAckTakes
  <2>4. ~Over(s)
    BY <1>5 DEF Over
  <2>5. r = SendEmptyPacket(u, {"SYN", "ACK"})
    BY <1>4, <1>5
  <2>. QED  BY <1>2, <2>3, <2>4, <2>5 DEF Takes
<1>6. ASSUME s.state = "LAST_ACK", s.ep = TRUE, s.next = 1, s.tx = Idle, Finished(s.rx), s.retx = {"FIN", "ACK"}
      PROVE  Takes(s, r, h, w, f)
  <2>1. r = SendEmptyPacket(u, {"FIN", "ACK"})
    BY <1>4, <1>6
  <2>2. /\ Shaped(r)
        /\ Kept(u, [r EXCEPT !.retx = u.retx])
        /\ r.retx = IF u.ep /\ u.retx = {} THEN {"FIN", "ACK"} ELSE u.retx
        /\ u.ep => r.out = Append(u.out, [flags |-> {"FIN", "ACK"}, seq |-> u.next, len |-> 0,
                                          ack |-> u.rx.next, sack |-> u.rx.held])
    BY <1>1, <1>2, <2>1, FinIs
  <2>3. r.ep = u.ep /\ r.next = u.next /\ r.tx = u.tx /\ r.rx = u.rx /\ r.state = u.state /\ Humble(r)
    BY <1>1, <1>2, <2>2 DEF Kept, Shaped, Sane, Humble
  <2>4. r.retx = {"FIN", "ACK"}
        /\ r.out = Append(<<>>, [flags |-> {"FIN", "ACK"}, seq |-> 1, len |-> 0, ack |-> s.rx.next, sack |-> s.rx.held])
    BY <1>2, <1>6, <2>2
  <2>. QED  BY <1>2, <1>6, <2>2, <2>3, <2>4, SinkFin
<1>7. Takes(s, r, h, w, f)
  BY <1>3, <1>5, <1>6
<1>. QED  BY <1>7 DEF r

-----------------------------------------------------------------------------
\* Both ends and the segments between them.

\* The FIN, once it has been sent
Fin(s, w, c) == IF FinSent(s, w, c) THEN {w + 1} ELSE {}

\* The segments that the sink may have sent, with any numbers in the past
FromSink(b) ==
  {g \in Segment : /\ g.len = 0 /\ \A n \in g.sack : n > g.ack
                   /\ \/ g.flags = {"SYN", "ACK"} /\ g.seq = 0 /\ g.ack = 1
                      \/ g.flags \in {{"ACK"}, {"RST"}} /\ g.seq <= 2
                      \/ g.flags = {"FIN", "ACK"} /\ g.seq = 1 /\ g.ack = b.rx.next /\ Over(b)}

\* The acknowledgments on their way, with what the two ends hold
Acks(a, b, A)  == {g.ack : g \in A} \cup {a.tx.head, b.rx.next}
\* ... and the segments reported by blocks
Sacks(a, b, A) == (UNION {g.sack : g \in A}) \cup a.tx.sacked \cup b.rx.held

\* No acknowledgment says that a segment is missing which another reports.
Agree(a, b, A) ==
  /\ Acks(a, b, A) \subseteq 0 .. b.rx.next
  /\ Sacks(a, b, A) \subseteq Received(b.rx)
  /\ Acks(a, b, A) \cap Sacks(a, b, A) = {}

\* Sender a and sink b, with A on the way to a and B to b
Ties(a, b, A, B, w, c) ==
  /\ Sender(a, w, c) /\ Sink(b) /\ RxOK(b.rx, a.high, w, Fin(a, w, c))
  /\ a.rx.next = 2 => Over(b)
  /\ A \subseteq FromSink(b) /\ B \subseteq ForSink(a, w, c)
  /\ Agree(a, b, A)

\* A socket whose segments have been handed to the network
Bare(s) == [s EXCEPT !.out = <<>>]

\* The network takes nothing else.
LEMMA BareIs ==
  ASSUME NEW s, Shaped(s)
  PROVE  Kept(s, Bare(s)) /\ Bare(s).out = <<>>
BY DEF Bare, Kept, Shaped, Sane

\* A good buffer of reception stays good when the sender goes on.
LEMMA RxGrows ==
  ASSUME NEW rx, NEW h \in Nat, NEW k \in Nat, NEW w \in Nat, NEW f, NEW e, h <= k, f \subseteq e, RxOK(rx, h, w, f)
  PROVE  RxOK(rx, k, w, e)
BY DEF RxOK, Partial, Whole

\* A FIN that has been sent remains sent.
LEMMA FinGrows ==
  ASSUME NEW s, NEW t, NEW w \in Nat, NEW c \in BOOLEAN, Onward(s, t, w, c)
  PROVE  Fin(s, w, c) \subseteq Fin(t, w, c)
BY Zenon DEF Fin, Onward

\* Segments are lost.
LEMMA FewerTies ==
  ASSUME NEW a, NEW b, NEW A, NEW B, NEW C, NEW D, NEW w, NEW c, Ties(a, b, A, B, w, c), C \subseteq A, D \subseteq B
  PROVE  Ties(a, b, C, D, w, c)
<1>1. Acks(a, b, C) \subseteq Acks(a, b, A) /\ Sacks(a, b, C) \subseteq Sacks(a, b, A)
  BY DEF Acks, Sacks
<1>2. Agree(a, b, C)
  BY <1>1 DEF Ties, Agree
<1>. QED  BY <1>2 DEF Ties

\* What the sink knows of the sender
LEMMA TiesIs ==
  ASSUME NEW a, NEW b, NEW A, NEW B, NEW w \in Nat, NEW c \in BOOLEAN, Ties(a, b, A, B, w, c)
  PROVE  /\ Sender(a, w, c) /\ Sink(b) /\ RxOK(b.rx, a.high, w, Fin(a, w, c))
         /\ Shaped(a) /\ a.high \in Nat /\ a.high <= w + 1 /\ Shaped(b) /\ b.rx.next \in Nat /\ b.rx.held \in SUBSET Nat
<1>1. Sender(a, w, c) /\ Sink(b) /\ RxOK(b.rx, a.high, w, Fin(a, w, c))
  BY DEF Ties
<1>2. Shaped(a) /\ a.high \in Nat /\ Shaped(b)
  BY <1>1, SenderIs, SinkIs
<1>3. a.high <= w + 1
  BY <1>1 DEF Sender
<1>. QED  BY <1>1, <1>2, <1>3, RxIs

\* The sender goes on, but its acknowledgments and blocks are not new.
LEMMA SenderTies ==
  ASSUME NEW a, NEW b, NEW A, NEW B, NEW w \in Nat, NEW c \in BOOLEAN, Ties(a, b, A, B, w, c),
         NEW t, Sender(t, w, c), Does(a, t, w, c), a.out = <<>>,
         t.tx.head \in Acks(a, b, A), t.tx.sacked \subseteq Sacks(a, b, A), t.rx.next = 2 => Over(b)
  PROVE  Ties(Bare(t), b, A, B \cup ForSink(t, w, c), w, c) /\ t.out \in Seq(ForSink(t, w, c))
<1>. DEFINE u == Bare(t)
<1>1. Kept(t, u) /\ Sender(u, w, c)
  BY SenderIs, BareIs, KeptSender
<1>2. u.high = t.high /\ u.rx = t.rx /\ u.tx = t.tx /\ u.ep = t.ep /\ u.state = t.state
  BY <1>1 DEF Kept
<1>. HIDE DEF u
<1>3. a.high \in Nat /\ t.high \in Nat
  BY TiesIs, SenderIs
<1>4. Onward(a, t, w, c)
  BY DEF Does
<1>5. Onward(t, u, w, c)
  BY <1>2, <1>3 DEF Onward, FinSent
<1>6. ForSink(a, w, c) \subseteq ForSink(t, w, c) /\ ForSink(t, w, c) \subseteq ForSink(u, w, c)
  BY <1>2, <1>3, <1>4, <1>5, ForSinkGrows
<1>7. RxOK(b.rx, u.high, w, Fin(u, w, c))
  <2>1. Fin(a, w, c) \subseteq Fin(u, w, c)
    BY <1>4, <1>5, FinGrows
  <2>2. a.high <= u.high
    BY <1>2, <1>4 DEF Onward
  <2>. QED  BY <1>2, <1>3, <2>1, <2>2, TiesIs, RxGrows
<1>8. Acks(u, b, A) \subseteq Acks(a, b, A) /\ Sacks(u, b, A) \subseteq Sacks(a, b, A)
  <2>1. u.tx.head \in Acks(a, b, A) /\ u.tx.sacked \subseteq Sacks(a, b, A)
    BY <1>2
  <2>. QED  BY <2>1 DEF Acks, Sacks
<1>9. Agree(u, b, A)
  BY <1>8 DEF Ties, Agree
<1>10. u.rx.next = 2 => Over(b)
  BY <1>2
<1>11. B \cup ForSink(t, w, c) \subseteq ForSink(u, w, c)
  BY <1>6 DEF Ties
<1>12. t.out \in Seq(ForSink(t, w, c))
  <2>1. \A S : << >> \in Seq(S)
    BY EmptySeq
  <2>2. << >> \in Seq(ForSink(a, w, c))
    BY <2>1, Zenon
  <2>3. Talks(a, w, c)
    BY <2>2 DEF Talks
  <2>. QED  BY <2>3 DEF Does, Talks
<1>13. Ties(u, b, A, B \cup ForSink(t, w, c), w, c)
  BY <1>1, <1>7, <1>9, <1>10, <1>11 DEF Ties
<1>. QED  BY <1>12, <1>13 DEF u

\* What the receiver has, and expects
LEMMA NotReceived ==
  ASSUME NEW rx, NEW h \in Nat, NEW w \in Nat, NEW f, RxOK(rx, h, w, f)
  PROVE  rx.next \notin Received(rx) /\ \A n \in rx.held : n \in Nat /\ n > rx.next
BY DEF RxOK, Partial, Whole, Received

\* The sink takes a step: what it has received grows, and so do what it says and reports.
LEMMA SinkTies ==
  ASSUME NEW a, NEW b, NEW A, NEW B, NEW w \in Nat, NEW c \in BOOLEAN, Ties(a, b, A, B, w, c),
         NEW t, Takes(b, t, a.high, w, Fin(a, w, c)), NEW C, \A g \in C : g \in A \/ g \in Said(t)
  PROVE  Ties(a, Bare(t), C, B, w, c)
<1>. DEFINE u == Bare(t)
            f == Fin(a, w, c)
            h == a.high
<1>1. Sink(t) /\ RxOK(t.rx, h, w, f) /\ Gains(b.rx, t.rx) /\ (Over(b) => Over(t))
  BY DEF Takes
<1>2. Kept(t, u) /\ Sink(u)
  BY <1>1, SinkIs, BareIs, KeptSink
<1>3. u.rx = t.rx /\ (Over(t) <=> Over(u))
  BY <1>2 DEF Kept, Over
<1>. HIDE DEF u, f
<1>4. RxOK(b.rx, h, w, f) /\ h \in Nat
  BY TiesIs DEF f
<1>5. b.rx.next \in Nat /\ t.rx.next \in Nat /\ b.rx.next <= t.rx.next /\ Received(b.rx) \subseteq Received(t.rx)
      /\ t.rx.held \subseteq Received(t.rx) /\ t.rx.held \in SUBSET Nat
  BY <1>1, <1>4, RxIs DEF Gains, Received
<1>6. t.rx.next \notin Received(t.rx) /\ \A n \in t.rx.held : n \in Nat /\ n > t.rx.next
  BY <1>1, <1>4, NotReceived
<1>7. ASSUME NEW g \in C
      PROVE  g \in FromSink(u)
  <2>1. ASSUME g \in A
        PROVE  g \in FromSink(u)
    <3>1. g \in FromSink(b)
      BY <2>1 DEF Ties
    <3>2. ASSUME Over(b)
          PROVE  b.rx.next = u.rx.next
      <4>1. Finished(b.rx) /\ Finished(t.rx)
        BY <1>1, <3>2 DEF Over
      <4>2. Whole(b.rx, w, f) /\ Whole(t.rx, w, f)
        BY <1>1, <1>4, <4>1, RxIs
      <4>. QED  BY <1>3, <4>2 DEF Whole
    <3>3. Over(b) => Over(u)
      BY <1>1, <1>3
    <3>. QED  BY <3>1, <3>2, <3>3 DEF FromSink
  <2>2. ASSUME g \in Said(t)
        PROVE  g \in FromSink(u)
    <3>1. /\ g \in Segment /\ g.len = 0 /\ g.ack = t.rx.next /\ g.sack \in {{}, t.rx.held}
          /\ \/ g.flags \in {{"ACK"}, {"RST"}} /\ g.seq <= 2
             \/ g.flags = {"SYN", "ACK"} /\ g.seq = 0 /\ g.ack = 1
             \/ g.flags = {"FIN", "ACK"} /\ g.seq = 1 /\ Over(t)
      BY <2>2 DEF Said
    <3>2. \A n \in g.sack : n > g.ack
      BY <1>6, <3>1
    <3>. QED  BY <1>3, <3>1, <3>2 DEF FromSink
  <2>. QED  BY <2>1, <2>2
<1>8. Agree(a, u, C)
  <2>1. /\ Acks(a, b, A) \subseteq 0 .. b.rx.next
        /\ Sacks(a, b, A) \subseteq Received(b.rx)
        /\ Acks(a, b, A) \cap Sacks(a, b, A) = {}
    BY DEF Ties, Agree
  <2>2. \A g \in Said(t) : g.ack = t.rx.next /\ g.sack \in {{}, t.rx.held}
    BY DEF Said
  <2>3. Acks(a, u, C) \subseteq Acks(a, b, A) \cup {t.rx.next}
    BY <1>3, <2>2 DEF Acks
  <2>4. Sacks(a, u, C) \subseteq Sacks(a, b, A) \cup t.rx.held
    BY <1>3, <2>2 DEF Sacks
  <2>5. \A n \in Acks(a, b, A) : n \in Nat /\ n <= t.rx.next /\ n \notin Sacks(a, b, A) /\ n \notin t.rx.held
    BY <1>5, <1>6, <2>1
  <2>6. t.rx.next \notin Sacks(a, b, A) /\ t.rx.next \notin t.rx.held
    BY <1>5, <1>6, <2>1
  <2>7. Acks(a, u, C) \subseteq 0 .. t.rx.next
    BY <1>5, <2>3, <2>5
  <2>8. Sacks(a, u, C) \subseteq Received(t.rx)
    BY <1>5, <2>1, <2>4
  <2>9. Acks(a, u, C) \cap Sacks(a, u, C) = {}
    BY <2>3, <2>4, <2>5, <2>6
  <2>. QED  BY <1>3, <2>7, <2>8, <2>9 DEF Agree
<1>9. RxOK(u.rx, h, w, f) /\ (a.rx.next = 2 => Over(u))
  BY <1>1, <1>3 DEF Ties
<1>10. C \subseteq FromSink(u)
  BY <1>7
<1>11. Ties(a, u, C, B, w, c)
  BY <1>2, <1>8, <1>9, <1>10 DEF Ties, f
<1>. QED  BY <1>11 DEF u

\* A segment on its way to the sender is one that the sender's lemmas expect.
LEMMA TiesComes ==
  ASSUME NEW a, NEW b, NEW A, NEW B, NEW w \in Nat, NEW c \in BOOLEAN, Ties(a, b, A, B, w, c), NEW g \in A
  PROVE  Comes(g, a, w, c, Over(b))
<1>. DEFINE f == Fin(a, w, c)
<1>1. RxOK(b.rx, a.high, w, f) /\ a.high \in Nat
  BY TiesIs
<1>2. Finished(b.rx) <=> Whole(b.rx, w, f)
  BY <1>1, RxIs
<1>3. w + 1 \in f => FinSent(a, w, c)
  BY Zenon DEF Fin
<1>. HIDE DEF f
<1>4. Whole(b.rx, w, f) => b.rx.next = w + 2 /\ FinSent(a, w, c)
  BY <1>3 DEF Whole
<1>5. FinSent(a, w, c) => a.high = w + 1
  BY DEF FinSent
<1>6. g \in FromSink(b)
  BY DEF Ties
<1>7. /\ g \in Segment /\ g.len = 0 /\ \A n \in g.sack : n > g.ack
      /\ \/ g.flags = {"SYN", "ACK"} /\ g.seq = 0 /\ g.ack = 1
         \/ g.flags \in {{"ACK"}, {"RST"}} /\ g.seq <= 2
         \/ g.flags = {"FIN", "ACK"} /\ g.seq = 1 /\ g.ack = b.rx.next /\ Over(b)
  BY <1>6 DEF FromSink
<1>8. g.ack \in Nat /\ g.sack \in SUBSET Nat
  BY <1>7 DEF Segment
<1>9. g.ack <= b.rx.next /\ a.tx.head \notin g.sack /\ g.ack \notin a.tx.sacked
  <2>1. g.ack \in Acks(a, b, A) /\ a.tx.head \in Acks(a, b, A)
    BY DEF Acks
  <2>2. g.sack \subseteq Sacks(a, b, A) /\ a.tx.sacked \subseteq Sacks(a, b, A)
    BY DEF Sacks
  <2>3. Agree(a, b, A)
    BY DEF Ties
  <2>. QED  BY <1>8, <2>1, <2>2, <2>3 DEF Agree
<1>10. b.rx.next = 0 \/ (b.rx.next \in Nat /\ (b.rx.next <= a.high \/ b.rx.next = 1)) \/ Whole(b.rx, w, f)
  BY <1>1 DEF RxOK, Partial
<1>11. g.ack <= a.high \/ g.ack <= 1 \/ (g.ack = w + 2 /\ FinSent(a, w, c))
  <2>1. ASSUME Whole(b.rx, w, f)
        PROVE  g.ack <= a.high \/ (g.ack = w + 2 /\ FinSent(a, w, c))
    BY <1>4, <1>5, <1>8, <1>9, <2>1
  <2>. QED  BY <1>1, <1>8, <1>9, <1>10, <2>1
<1>12. Over(b) => b.rx.next = w + 2 /\ FinSent(a, w, c)
  BY <1>2, <1>4 DEF Over
<1>. QED  BY <1>7, <1>8, <1>9, <1>11, <1>12 DEF Comes

\* ... and so with the sink.
LEMMA TiesGets ==
  ASSUME NEW a, NEW b, NEW A, NEW B, NEW w \in Nat, NEW c \in BOOLEAN, Ties(a, b, A, B, w, c), NEW g \in B
  PROVE  Gets(g, a.high, w, Fin(a, w, c)) /\ (g.ack = 2 => Over(b))
<1>1. g \in Segment /\ ToSink(g, a, w, c) /\ (a.rx.next = 2 => Over(b))
  BY DEF Ties, ForSink
<1>2. ASSUME FinSent(a, w, c)
      PROVE  w + 1 \in Fin(a, w, c) /\ a.high = w + 1
  <2>1. Fin(a, w, c) = {w + 1}
    BY <1>2, Zenon DEF Fin
  <2>. QED  BY <1>2, <2>1 DEF FinSent
<1>3. g.sack = {} /\ g.ack \in 0 .. 2 /\ (g.ack = 2 => a.rx.next = 2)
  BY <1>1 DEF ToSink
<1>4. \/ g.flags = {"SYN"} /\ g.len = 0 /\ g.seq = 0
      \/ g.flags \in {{"ACK"}, {"RST"}} /\ g.len = 0
      \/ g.flags = {"ACK"} /\ g.len = 1 /\ g.seq \in 1 .. a.high - 1
      \/ g.flags = {"FIN", "ACK"} /\ g.len \in {0, 1} /\ g.seq + g.len = w + 1 /\ FinSent(a, w, c)
  BY <1>1 DEF ToSink
<1>. QED  BY <1>1, <1>2, <1>3, <1>4 DEF Gets

\* A segment arrives at the sender.
LEMMA AnswersTies ==
  ASSUME NEW a, NEW b, NEW A, NEW B, NEW w \in Nat, NEW c \in BOOLEAN, Ties(a, b, A, B, w, c), a.out = <<>>,
         NEW g \in A, NEW t, Answers(a, t, g, w, c, Over(b))
  PROVE  Ties(Bare(t), b, A, B \cup ForSink(t, w, c), w, c) /\ t.out \in Seq(ForSink(t, w, c))
<1>1. /\ Sender(t, w, c) /\ Does(a, t, w, c)
      /\ t.tx.head \in {a.tx.head, g.ack}
      /\ t.tx.sacked \subseteq a.tx.sacked \cup g.sack
      /\ t.rx.next = 2 => a.rx.next = 2 \/ Over(b)
  BY DEF Answers
<1>2. t.tx.head \in Acks(a, b, A)
  BY <1>1 DEF Acks
<1>3. t.tx.sacked \subseteq Sacks(a, b, A)
  BY <1>1 DEF Sacks
<1>4. t.rx.next = 2 => Over(b)
  BY <1>1 DEF Ties
<1>. QED  BY <1>1, <1>2, <1>3, <1>4, SenderTies

\* The sender goes on without one.
LEMMA GoesTies ==
  ASSUME NEW a, NEW b, NEW A, NEW B, NEW w \in Nat, NEW c \in BOOLEAN, Ties(a, b, A, B, w, c), a.out = <<>>,
         NEW t, Goes(a, t, w, c)
  PROVE  Ties(Bare(t), b, A, B \cup ForSink(t, w, c), w, c) /\ t.out \in Seq(ForSink(t, w, c))
<1>1. /\ Sender(t, w, c) /\ Does(a, t, w, c)
      /\ t.tx.head = a.tx.head /\ t.tx.sacked = a.tx.sacked /\ t.rx = a.rx
  BY DEF Goes
<1>2. t.tx.head \in Acks(a, b, A)
  BY <1>1 DEF Acks
<1>3. t.tx.sacked \subseteq Sacks(a, b, A)
  BY <1>1 DEF Sacks
<1>4. t.rx.next = 2 => Over(b)
  BY <1>1 DEF Ties
<1>5. Sender(t, w, c) /\ Does(a, t, w, c)
  BY <1>1
<1>6. /\ Sender(t, w, c) /\ Does(a, t, w, c) /\ t.tx.head \in Acks(a, b, A) /\ t.tx.sacked \subseteq Sacks(a, b, A)
      /\ t.rx.next = 2 => Over(b)
  BY <1>2, <1>3, <1>4, <1>5
<1>. QED  BY <1>6, SenderTies

\* The sender's application closes.
LEMMA ClosedTies ==
  ASSUME NEW a, NEW b, NEW A, NEW B, NEW w \in Nat, Ties(a, b, A, B, w, FALSE)
  PROVE  Ties(a, b, A, B, w, TRUE)
<1>1. FALSE \in BOOLEAN /\ TRUE \in BOOLEAN
  OBVIOUS
<1>2. Sender(a, w, TRUE)
  <2>1. Sender(a, w, FALSE)
    BY DEF Ties
  <2>. QED  BY <2>1, SenderClosed
<1>3. ~FinSent(a, w, FALSE)
  BY DEF FinSent
<1>4. Fin(a, w, FALSE) = {}
  BY <1>3, Zenon DEF Fin
<1>5. RxOK(b.rx, a.high, w, Fin(a, w, TRUE))
  <2>1. RxOK(b.rx, a.high, w, Fin(a, w, FALSE)) /\ a.high \in Nat
    BY <1>1, TiesIs
  <2>2. Fin(a, w, FALSE) \subseteq Fin(a, w, TRUE)
    BY <1>4, Zenon
  <2>3. a.high <= a.high
    BY <2>1
  <2>. QED  BY <2>1, <2>2, <2>3, RxGrows
<1>6. B \subseteq ForSink(a, w, TRUE)
  <2>1. ASSUME NEW g \in B
        PROVE  g \in ForSink(a, w, TRUE)
    <3>1. g \in Segment /\ ToSink(g, a, w, FALSE)
      BY DEF Ties, ForSink
    <3>2. ToSink(g, a, w, TRUE)
      BY <1>3, <3>1 DEF ToSink
    <3>. QED  BY <3>1, <3>2 DEF ForSink
  <2>. QED  BY <2>1
<1>. QED  BY <1>2, <1>5, <1>6 DEF Ties

\* The sender's application writes.
LEMMA SendTies ==
  ASSUME NEW a, NEW b, NEW A, NEW B, NEW w \in Nat, Ties(a, b, A, B, w, FALSE), a.out = <<>>,
         a.state \in {"ESTABLISHED", "CLOSE_WAIT"}
  PROVE  Ties(Bare(Send(a)), b, A, B, w + 1, FALSE) /\ Send(a).out = <<>>
<1>. DEFINE t == Send(a)
            u == Bare(t)
<1>1. FALSE \in BOOLEAN /\ w + 1 \in Nat
  OBVIOUS
<1>2. Sender(a, w, FALSE) /\ RxOK(b.rx, a.high, w, Fin(a, w, FALSE)) /\ a.high \in Nat
  BY <1>1, TiesIs
<1>3. /\ Sender(t, w + 1, FALSE) /\ t.out = a.out /\ t.high = a.high /\ t.rx = a.rx
      /\ t.tx.head = a.tx.head /\ t.tx.sacked = a.tx.sacked
  BY <1>2, SendGoes
<1>. HIDE DEF t
<1>4. Kept(t, u) /\ Sender(u, w + 1, FALSE)
  <2>1. Shaped(t)
    BY <1>1, <1>3, SenderIs
  <2>2. Kept(t, u)
    BY <2>1, BareIs
  <2>. QED  BY <1>1, <1>3, <2>2, KeptSender
<1>. HIDE DEF u
<1>5. u.high = a.high /\ u.rx = a.rx /\ u.tx.head = a.tx.head /\ u.tx.sacked = a.tx.sacked
  BY <1>3, <1>4 DEF Kept
<1>6. ~FinSent(a, w, FALSE) /\ ~FinSent(u, w + 1, FALSE)
  BY DEF FinSent
<1>7. Fin(a, w, FALSE) = {} /\ Fin(u, w + 1, FALSE) = {}
  BY <1>6, Zenon DEF Fin
<1>8. RxOK(b.rx, u.high, w + 1, Fin(u, w + 1, FALSE))
  <2>1. RxOK(b.rx, a.high, w, {})
    BY <1>2, <1>7
  <2>2. RxOK(b.rx, a.high, w + 1, {})
    BY <2>1 DEF RxOK, Partial, Whole
  <2>. QED  BY <1>5, <1>7, <2>2
<1>9. B \subseteq ForSink(u, w + 1, FALSE)
  <2>1. ASSUME NEW g \in B
        PROVE  g \in ForSink(u, w + 1, FALSE)
    <3>1. g \in Segment /\ ToSink(g, a, w, FALSE)
      BY DEF Ties, ForSink
    <3>2. ToSink(g, u, w + 1, FALSE)
      <4>1. g.seq \in Nat
        BY <3>1 DEF Segment
      <4>2. g.seq <= w + 3 => g.seq <= (w + 1) + 3
        BY <4>1
      <4>. HIDE DEF FinSent
      <4>. QED  BY <1>5, <1>6, <3>1, <4>2 DEF ToSink
    <3>. QED  BY <3>1, <3>2 DEF ForSink
  <2>. QED  BY <2>1
<1>10. Agree(u, b, A)
  BY <1>5 DEF Ties, Agree, Acks, Sacks
<1>11. Ties(u, b, A, B, w + 1, FALSE)
  BY <1>4, <1>5, <1>8, <1>9, <1>10 DEF Ties
<1>. QED  BY <1>3, <1>11 DEF u, t

\* The segments in a queue
Segs(q) == {q[i] : i \in 1 .. Len(q)}

\* The sender's application has closed.
Asked == IF "a" \in asked THEN TRUE ELSE FALSE

\* The inductive invariant
IInv ==
  /\ DOMAIN sock = Ends /\ DOMAIN to = Ends
  /\ written \in 0 .. Data
  /\ sock.a.out = <<>> /\ sock.b.out = <<>>
  /\ to.a \in Seq(Segment) /\ to.b \in Seq(Segment)
  /\ Ties(sock.a, sock.b, Segs(to.a), Segs(to.b), written, Asked)

\* What the sink expects never goes back.
Forward == sock.b.rx.next <= sock'.b.rx.next

\* The segments of a queue over a set are in the set.
LEMMA SegsIn ==
  ASSUME NEW S, NEW q \in Seq(S)
  PROVE  Segs(q) \subseteq S
BY DEF Segs

\* Segments are added to a queue.
LEMMA SegsMore ==
  ASSUME NEW S, NEW T, NEW p \in Seq(S), NEW q \in Seq(T), T \subseteq S
  PROVE  p \o q \in Seq(S) /\ Segs(p \o q) \subseteq Segs(p) \cup T
<1>1. q \in Seq(S)
  BY SeqMono
<1>2. p \o q \in Seq(S) /\ Len(p \o q) = Len(p) + Len(q) /\ Len(p) \in Nat /\ Len(q) \in Nat
  BY <1>1
<1>3. ASSUME NEW i \in 1 .. Len(p) + Len(q)
      PROVE  (p \o q)[i] \in Segs(p) \cup T
  <2>1. (p \o q)[i] = IF i <= Len(p) THEN p[i] ELSE q[i - Len(p)]
    BY <1>1, <1>2
  <2>2. ASSUME i <= Len(p)
        PROVE  p[i] \in Segs(p)
    BY <1>2, <2>2 DEF Segs
  <2>3. ASSUME ~(i <= Len(p))
        PROVE  q[i - Len(p)] \in T
    <3>1. i - Len(p) \in 1 .. Len(q)
      BY <1>2, <2>3
    <3>. QED  BY <3>1
  <2>. QED  BY <2>1, <2>2, <2>3
<1>. QED  BY <1>2, <1>3 DEF Segs

\* One is taken, moved to the end, or removed.
LEMMA SegsFewer ==
  ASSUME NEW S, NEW q \in Seq(S), q # <<>>
  PROVE  /\ Tail(q) \in Seq(S) /\ Segs(Tail(q)) \subseteq Segs(q)
         /\ Append(q, Head(q)) \in Seq(S) /\ Segs(Append(q, Head(q))) \subseteq Segs(q)
         /\ \A i \in 1 .. Len(q) : RemoveAt(q, i) \in Seq(S) /\ Segs(RemoveAt(q, i)) \subseteq Segs(q) /\ q[i] \in Segs(q)
<1>1. Len(q) \in Nat /\ Len(q) >= 1
  BY EmptySeq
<1>2. Tail(q) \in Seq(S) /\ Segs(Tail(q)) \subseteq Segs(q)
  BY <1>1 DEF Segs
<1>3. Append(q, Head(q)) \in Seq(S) /\ Segs(Append(q, Head(q))) \subseteq Segs(q)
  <2>. DEFINE r == Append(q, Head(q))
  <2>1. r \in Seq(S) /\ Len(r) = Len(q) + 1 /\ r[Len(q) + 1] = q[1] /\ \A i \in 1 .. Len(q) : r[i] = q[i]
    BY <1>1
  <2>. HIDE DEF r
  <2>2. Segs(r) \subseteq Segs(q)
    BY <1>1, <2>1 DEF Segs
  <2>. QED  BY <2>1, <2>2 DEF r
<1>4. ASSUME NEW i \in 1 .. Len(q)
      PROVE  RemoveAt(q, i) \in Seq(S) /\ Segs(RemoveAt(q, i)) \subseteq Segs(q) /\ q[i] \in Segs(q)
  <2>. DEFINE front == SubSeq(q, 1, i - 1)
              back  == SubSeq(q, i + 1, Len(q))
  <2>1. \A n \in 1 .. Len(q) : q[n] \in Segs(q)
    BY DEF Segs
  <2>2. front \in Seq(S) /\ front \in Seq(Segs(q))
    <3>1. front \in Seq(S) /\ Len(front) = i - 1 /\ \A n \in 1 .. i - 1 : front[n] = q[n]
      BY <1>1
    <3>. HIDE DEF front
    <3>2. \A n \in 1 .. Len(front) : front[n] \in Segs(q)
      BY <1>1, <2>1, <3>1
    <3>. QED  BY <1>1, <3>1, <3>2
  <2>3. back \in Seq(S) /\ back \in Seq(Segs(q))
    <3>1. back \in Seq(S) /\ Len(back) = Len(q) - i /\ \A n \in 1 .. Len(q) - i : back[n] = q[i + n]
      BY <1>1
    <3>. HIDE DEF back
    <3>2. \A n \in 1 .. Len(back) : back[n] \in Segs(q)
      BY <1>1, <2>1, <3>1
    <3>. QED  BY <1>1, <3>1, <3>2
  <2>4. RemoveAt(q, i) = front \o back
    BY DEF RemoveAt
  <2>. HIDE DEF front, back
  <2>5. front \o back \in Seq(S) /\ front \o back \in Seq(Segs(q))
    BY <2>2, <2>3
  <2>. QED  BY <2>1, <2>4, <2>5, SegsIn
<1>. QED  BY <1>2, <1>3, <1>4

\* A step of the sender, or of the sink: segments that arrive are no longer on their way.
LEMMA SenderStep ==
  ASSUME IInv, NEW s, NEW left, Becomes("a", s, left), DOMAIN left = Ends, left.b = to.b,
         left.a \in Seq(Segment), Segs(left.a) \subseteq Segs(to.a), written' \in 0 .. Data,
         NEW S, S \subseteq Segment, s.out \in Seq(S), Shaped(s),
         Ties(Bare(s), sock.b, Segs(to.a), Segs(to.b) \cup S, written', Asked')
  PROVE  IInv' /\ Forward
<1>1. sock' = [sock EXCEPT !["a"] = Bare(s)] /\ to' = [left EXCEPT !["b"] = left.b \o s.out]
  BY DEF Becomes, Bare, Peer
<1>2. DOMAIN sock = {"a", "b"} /\ DOMAIN left = {"a", "b"}
  BY DEF IInv, Ends
<1>3. /\ DOMAIN sock' = Ends /\ DOMAIN to' = Ends
      /\ sock'.a = Bare(s) /\ sock'.b = sock.b /\ to'.a = left.a /\ to'.b = to.b \o s.out
  BY <1>1, <1>2 DEF Ends
<1>4. Bare(s).out = <<>> /\ sock.b.out = <<>> /\ to.b \in Seq(Segment)
  BY BareIs DEF IInv
<1>5. to.b \o s.out \in Seq(Segment) /\ Segs(to.b \o s.out) \subseteq Segs(to.b) \cup S
  BY <1>4, SegsMore
<1>6. Ties(Bare(s), sock.b, Segs(left.a), Segs(to.b \o s.out), written', Asked')
  BY <1>5, FewerTies
<1>7. sock.b.rx.next \in Nat
  BY RxIs DEF IInv, Ties, RxOK, Partial, Whole
<1>8. Forward
  BY <1>3, <1>7 DEF Forward
<1>. QED  BY <1>3, <1>4, <1>5, <1>6, <1>8 DEF IInv

\* ... of the sink
LEMMA SinkStep ==
  ASSUME IInv, NEW s, NEW left, Becomes("b", s, left), DOMAIN left = Ends, left.a = to.a,
         left.b \in Seq(Segment), Segs(left.b) \subseteq Segs(to.b), written' \in 0 .. Data,
         NEW S, S \subseteq Segment, s.out \in Seq(S), Shaped(s),
         sock.b.rx.next <= s.rx.next,
         Ties(sock.a, Bare(s), Segs(to.a) \cup S, Segs(to.b), written', Asked')
  PROVE  IInv' /\ Forward
<1>1. sock' = [sock EXCEPT !["b"] = Bare(s)] /\ to' = [left EXCEPT !["a"] = left.a \o s.out]
  BY DEF Becomes, Bare, Peer
<1>2. DOMAIN sock = {"a", "b"} /\ DOMAIN left = {"a", "b"}
  BY DEF IInv, Ends
<1>3. /\ DOMAIN sock' = Ends /\ DOMAIN to' = Ends
      /\ sock'.b = Bare(s) /\ sock'.a = sock.a /\ to'.b = left.b /\ to'.a = to.a \o s.out
  BY <1>1, <1>2 DEF Ends
<1>4. Bare(s).out = <<>> /\ sock.a.out = <<>> /\ to.a \in Seq(Segment)
  BY BareIs DEF IInv
<1>5. to.a \o s.out \in Seq(Segment) /\ Segs(to.a \o s.out) \subseteq Segs(to.a) \cup S
  BY <1>4, SegsMore
<1>6. Ties(sock.a, Bare(s), Segs(to.a \o s.out), Segs(left.b), written', Asked')
  BY <1>5, FewerTies
<1>7. Forward
  <2>1. Bare(s).rx = s.rx
    BY BareIs DEF Kept
  <2>. QED  BY <1>3, <2>1 DEF Forward
<1>. QED  BY <1>3, <1>4, <1>5, <1>6, <1>7 DEF IInv

\* What the invariant says of the two sockets
LEMMA IInvIs ==
  ASSUME IInv
  PROVE  /\ written \in Nat /\ Asked \in BOOLEAN /\ written <= Data /\ DOMAIN to = Ends
         /\ Ties(sock.a, sock.b, Segs(to.a), Segs(to.b), written, Asked)
         /\ sock.a.out = <<>> /\ sock.b.out = <<>>
         /\ to.a \in Seq(Segment) /\ to.b \in Seq(Segment)
         /\ Sender(sock.a, written, Asked) /\ Sink(sock.b)
         /\ RxOK(sock.b.rx, sock.a.high, written, Fin(sock.a, written, Asked))
         /\ sock.a.high \in Nat /\ sock.a.high <= written + 1
<1>1. written \in Nat /\ written <= Data
  BY TcpConnectionAssumption DEF IInv
<1>2. Asked \in BOOLEAN
  BY Zenon DEF Asked
<1>3. /\ DOMAIN to = Ends
      /\ Ties(sock.a, sock.b, Segs(to.a), Segs(to.b), written, Asked)
      /\ sock.a.out = <<>> /\ sock.b.out = <<>>
      /\ to.a \in Seq(Segment) /\ to.b \in Seq(Segment)
  BY DEF IInv
<1>. QED  BY <1>1, <1>2, <1>3, TiesIs

\* Only AppClose changes what has been asked for.
LEMMA AskedSame ==
  ASSUME asked' = asked
  PROVE  Asked' = Asked
BY DEF Asked

\* A step of the sender: a segment that is on its way may have caused it.
LEMMA SenderMoves ==
  ASSUME IInv, NEW s, NEW left, Becomes("a", s, left), DOMAIN left = Ends, left.b = to.b,
         left.a \in Seq(Segment), Segs(left.a) \subseteq Segs(to.a), written' = written, Asked' = Asked,
         Goes(sock.a, s, written, Asked) \/ \E g \in Segs(to.a) : Answers(sock.a, s, g, written, Asked, Over(sock.b))
  PROVE  IInv' /\ Forward
<1>. DEFINE S == ForSink(s, written, Asked)
<1>1. /\ written \in Nat /\ Asked \in BOOLEAN /\ written <= Data
      /\ Ties(sock.a, sock.b, Segs(to.a), Segs(to.b), written, Asked) /\ sock.a.out = <<>>
  BY IInvIs
<1>. HIDE DEF S
<1>2. Ties(Bare(s), sock.b, Segs(to.a), Segs(to.b) \cup S, written, Asked) /\ s.out \in Seq(ForSink(s, written, Asked))
  <2>1. ASSUME Goes(sock.a, s, written, Asked)
        PROVE  Ties(Bare(s), sock.b, Segs(to.a), Segs(to.b) \cup S, written, Asked) /\ s.out \in Seq(ForSink(s, written, Asked))
    BY <1>1, <2>1, GoesTies DEF S
  <2>2. ASSUME NEW g \in Segs(to.a), Answers(sock.a, s, g, written, Asked, Over(sock.b))
        PROVE  Ties(Bare(s), sock.b, Segs(to.a), Segs(to.b) \cup S, written, Asked) /\ s.out \in Seq(ForSink(s, written, Asked))
    <3>1. /\ Ties(Bare(s), sock.b, Segs(to.a), Segs(to.b) \cup ForSink(s, written, Asked), written, Asked)
          /\ s.out \in Seq(ForSink(s, written, Asked))
      BY <1>1, <2>2, AnswersTies
    <3>. QED  BY <3>1 DEF S
  <2>. QED  BY <2>1, <2>2
<1>4. Sender(s, written, Asked)
  BY DEF Goes, Answers
<1>5. Shaped(s)
  BY <1>1, <1>4, SenderIs
<1>6. S \subseteq Segment
  BY DEF ForSink, S
<1>7. written' \in 0 .. Data
  BY <1>1, TcpConnectionAssumption
<1>8. s.out \in Seq(S)
  BY <1>2 DEF S
<1>9. Ties(Bare(s), sock.b, Segs(to.a), Segs(to.b) \cup S, written', Asked')
  BY <1>1, <1>2
<1>. QED  BY <1>5, <1>6, <1>7, <1>8, <1>9, SenderStep

\* A step of the sink
LEMMA SinkMoves ==
  ASSUME IInv, NEW s, NEW left, Becomes("b", s, left), DOMAIN left = Ends, left.a = to.a,
         left.b \in Seq(Segment), Segs(left.b) \subseteq Segs(to.b), written' = written, Asked' = Asked,
         Takes(sock.b, s, sock.a.high, written, Fin(sock.a, written, Asked))
  PROVE  IInv' /\ Forward
<1>. DEFINE S == Said(s)
            C == Segs(to.a) \cup S
<1>1. /\ written \in Nat /\ Asked \in BOOLEAN /\ written <= Data
      /\ Ties(sock.a, sock.b, Segs(to.a), Segs(to.b), written, Asked)
  BY IInvIs
<1>2. \A x \in C : x \in Segs(to.a) \/ x \in Said(s)
  OBVIOUS
<1>. HIDE DEF C
<1>3. Ties(sock.a, Bare(s), C, Segs(to.b), written, Asked)
  BY <1>1, <1>2, SinkTies
<1>4. Sink(s) /\ s.out \in Seq(S) /\ sock.b.rx.next <= s.rx.next
  BY DEF Takes, Gains
<1>5. Shaped(s)
  BY <1>4, SinkIs
<1>6. S \subseteq Segment
  BY DEF Said
<1>7. written' \in 0 .. Data
  BY <1>1, TcpConnectionAssumption
<1>. HIDE DEF S
<1>8. Ties(sock.a, Bare(s), Segs(to.a) \cup S, Segs(to.b), written', Asked')
  BY <1>3 DEF C
<1>. QED  BY <1>4, <1>5, <1>6, <1>7, <1>8, SinkStep

\* Nothing arrives.
LEMMA SenderGoesOn ==
  ASSUME IInv, NEW s, Becomes("a", s, to), written' = written, Asked' = Asked, Goes(sock.a, s, written, Asked)
  PROVE  IInv' /\ Forward
<1>1. DOMAIN to = Ends /\ to.a \in Seq(Segment)
  BY IInvIs
<1>2. to.b = to.b /\ Segs(to.a) \subseteq Segs(to.a)
  OBVIOUS
<1>. QED  BY <1>1, <1>2, SenderMoves

\* ... at the sink
LEMMA SinkGoesOn ==
  ASSUME IInv, NEW s, Becomes("b", s, to), written' = written, Asked' = Asked,
         Takes(sock.b, s, sock.a.high, written, Fin(sock.a, written, Asked))
  PROVE  IInv' /\ Forward
<1>1. DOMAIN to = Ends /\ to.b \in Seq(Segment)
  BY IInvIs
<1>2. to.a = to.a /\ Segs(to.b) \subseteq Segs(to.b)
  OBVIOUS
<1>. QED  BY <1>1, <1>2, SinkMoves

-----------------------------------------------------------------------------
\* The actions.

\* The initial states
LEMMA InitInv ==
  ASSUME Init
  PROVE  IInv
<1>1. PICK v \in Windows : sock = [a |-> NewSocket("CLOSED", v), b |-> NewSocket("LISTEN", v)]
  BY DEF Init
<1>. DEFINE a == NewSocket("CLOSED", v)
            b == NewSocket("LISTEN", v)
<1>2. to = [x \in Ends |-> <<>>] /\ written = 0 /\ asked = {}
  BY DEF Init
<1>3. /\ Shaped(a) /\ a.ep = TRUE /\ a.state = "CLOSED" /\ a.closeOnEmpty = FALSE /\ a.next = 0 /\ a.high = 0
      /\ a.highAck = 0 /\ a.recover = 0 /\ a.cong = "OPEN" /\ a.tx = EmptyTx /\ a.rx = EmptyRx /\ a.retx = {}
      /\ a.out = <<>>
  BY TcpSocketAssumption DEF NewSocket, Shaped, Sane, Sound, States, EmptyTx, EmptyRx
<1>4. /\ Shaped(b) /\ Humble(b) /\ b.ep = TRUE /\ b.state = "LISTEN" /\ b.next = 0 /\ b.tx = EmptyTx /\ b.rx = EmptyRx
      /\ b.retx = {} /\ b.out = <<>>
  BY TcpSocketAssumption DEF NewSocket, Shaped, Sane, Sound, States, Humble, EmptyTx, EmptyRx
<1>. HIDE DEF a, b
<1>5. DOMAIN sock = Ends /\ sock.a = a /\ sock.b = b
  BY <1>1 DEF a, b, Ends
<1>6. DOMAIN to = Ends /\ to.a = <<>> /\ to.b = <<>>
  BY <1>2 DEF Ends
<1>7. EmptyRx.next = 0 /\ EmptyRx.read = 0 /\ EmptyRx.held = {} /\ EmptyRx.fin = 0 /\ HasFields(EmptyRx)
      /\ EmptyTx.head = 0 /\ EmptyTx.sacked = {}
  BY DEF EmptyRx, EmptyTx, HasFields
<1>8. Segs(<<>>) = {} /\ << >> \in Seq(Segment)
  <2>1. \A S : << >> \in Seq(S)
    BY EmptySeq
  <2>2. << >> \in Seq(Segment)
    BY <2>1, Zenon
  <2>3. Len(<<>>) = 0
    BY EmptySeq
  <2>. QED  BY <2>2, <2>3 DEF Segs
<1>9. Ties(a, b, {}, {}, 0, Asked)
  <2>1. Sender(a, 0, Asked)
    BY <1>3 DEF Sender, Fresh
  <2>2. Sink(b)
    BY <1>4, <1>7 DEF Sink
  <2>3. RxOK(b.rx, a.high, 0, Fin(a, 0, Asked))
    BY <1>4, <1>7 DEF RxOK
  <2>4. a.rx.next = 0
    BY <1>3, <1>7
  <2>5. Agree(a, b, {})
    BY <1>3, <1>4, <1>7 DEF Agree, Acks, Sacks, Received
  <2>. QED  BY <2>1, <2>2, <2>3, <2>4, <2>5 DEF Ties
<1>10. written \in 0 .. Data
  BY <1>2, TcpConnectionAssumption
<1>. QED  BY <1>2, <1>3, <1>4, <1>5, <1>6, <1>8, <1>9, <1>10 DEF IInv

\* The applications
LEMMA ConnectInv ==
  ASSUME IInv, AppConnect
  PROVE  IInv' /\ Forward
<1>1. sock.a.state = "CLOSED" /\ Becomes("a", Connect(sock.a), to) /\ written' = written /\ asked' = asked
  BY DEF AppConnect
<1>2. ~Dead(sock.a, written, Asked)
  <2>1. sock.a.ep
    BY Zenon DEF AppConnect
  <2>. QED  BY <2>1, Zenon DEF Dead
<1>3. Sender(sock.a, written, Asked) /\ Asked \in BOOLEAN
  BY IInvIs
<1>4. ~Open(sock.a, written, Asked) /\ ~Done(sock.a, written, Asked)
  BY <1>1 DEF Open, Mid, Done, Acked
<1>5. Fresh(sock.a) /\ written = 0
  BY <1>2, <1>3, <1>4 DEF Sender
<1>6. Goes(sock.a, Connect(sock.a), written, Asked)
  BY <1>3, <1>5, ConnectGoes
<1>. QED  BY <1>1, <1>6, AskedSame, SenderGoesOn

\* One more segment is written: the end of the stream moves, which is safe before Close.
LEMMA SendInv ==
  ASSUME IInv, AppSend
  PROVE  IInv' /\ Forward
<1>. DEFINE s == Send(sock.a)
<1>1. /\ sock.a.state \in {"ESTABLISHED", "CLOSE_WAIT"} /\ "a" \notin asked /\ written < Data
      /\ written' = written + 1 /\ Becomes("a", s, to) /\ asked' = asked
  BY DEF AppSend
<1>2. Asked = FALSE
  BY <1>1, Zenon DEF Asked
<1>3. /\ written \in Nat /\ DOMAIN to = Ends /\ to.a \in Seq(Segment) /\ sock.a.out = <<>>
      /\ Ties(sock.a, sock.b, Segs(to.a), Segs(to.b), written, Asked)
  BY IInvIs
<1>4. Ties(Bare(s), sock.b, Segs(to.a), Segs(to.b), written + 1, FALSE) /\ s.out = <<>>
  BY <1>1, <1>2, <1>3, SendTies
<1>5. Shaped(s)
  <2>1. Sender(s, written + 1, FALSE)
    <3>1. Sender(sock.a, written, FALSE)
      BY <1>2, IInvIs
    <3>. QED  BY <1>1, <1>3, <3>1, SendGoes
  <2>2. written + 1 \in Nat /\ FALSE \in BOOLEAN
    BY <1>3
  <2>. QED  BY <2>1, <2>2, SenderIs
<1>. HIDE DEF s
<1>6. written' \in 0 .. Data
  BY <1>1, <1>3, TcpConnectionAssumption
<1>7. s.out \in Seq({})
  <2>1. \A S : << >> \in Seq(S)
    BY EmptySeq
  <2>2. << >> \in Seq({})
    BY <2>1, Zenon
  <2>. QED  BY <1>4, <2>2
<1>8. Asked' = FALSE
  BY <1>1, <1>2, AskedSame
<1>9. Ties(Bare(s), sock.b, Segs(to.a), Segs(to.b) \cup {}, written', Asked')
  <2>1. Segs(to.b) \cup {} = Segs(to.b)
    OBVIOUS
  <2>. QED  BY <1>1, <1>4, <1>8, <2>1
<1>10. to.b = to.b /\ Segs(to.a) \subseteq Segs(to.a) /\ {} \subseteq Segment
  OBVIOUS
<1>. QED  BY <1>1, <1>3, <1>5, <1>6, <1>7, <1>9, <1>10, SenderStep

\* The sink closes only after the stream has ended: here SinkFirst = FALSE is needed.
LEMMA CloseInv ==
  ASSUME SinkFirst = FALSE, IInv, NEW x \in Ends, AppClose(x)
  PROVE  IInv' /\ Forward
<1>1. x \notin asked /\ asked' = asked \cup {x} /\ Becomes(x, Close(sock[x]), to) /\ written' = written
  BY DEF AppClose
<1>2. CASE x = "a"
  <2>. DEFINE s == Close(sock.a)
              S == ForSink(s, written, TRUE)
  <2>1. Asked = FALSE /\ Asked' = TRUE
    <3>1. "a" \notin asked /\ "a" \in asked'
      BY <1>1, <1>2
    <3>. QED  BY <3>1, Zenon DEF Asked
  <2>2. /\ written \in Nat /\ written <= Data /\ DOMAIN to = Ends /\ to.a \in Seq(Segment) /\ sock.a.out = <<>>
        /\ Ties(sock.a, sock.b, Segs(to.a), Segs(to.b), written, Asked)
    BY IInvIs
  <2>3. Ties(sock.a, sock.b, Segs(to.a), Segs(to.b), written, TRUE) /\ TRUE \in BOOLEAN
    BY <2>1, <2>2, ClosedTies
  <2>4. Sender(sock.a, written, TRUE)
    BY <2>2, <2>3, TiesIs
  <2>5. Goes(sock.a, s, written, TRUE)
    BY <2>2, <2>4, CloseGoes
  <2>6. Shaped(s)
    <3>1. Sender(s, written, TRUE)
      BY <2>5 DEF Goes
    <3>. QED  BY <2>2, <2>3, <3>1, SenderIs
  <2>. HIDE DEF s
  <2>8. S \subseteq Segment
    BY DEF ForSink
  <2>. HIDE DEF S
  <2>9. Ties(Bare(s), sock.b, Segs(to.a), Segs(to.b) \cup S, written, TRUE) /\ s.out \in Seq(ForSink(s, written, TRUE))
    BY <2>2, <2>3, <2>5, GoesTies DEF S
  <2>10. Ties(Bare(s), sock.b, Segs(to.a), Segs(to.b) \cup S, written', Asked')
    BY <1>1, <2>1, <2>9
  <2>11. written' \in 0 .. Data
    BY <1>1, <2>2, TcpConnectionAssumption
  <2>12. s.out \in Seq(S)
    BY <2>9 DEF S
  <2>13. Becomes("a", s, to)
    BY <1>1, <1>2 DEF s
  <2>14. to.b = to.b /\ Segs(to.a) \subseteq Segs(to.a)
    OBVIOUS
  <2>. QED  BY <2>2, <2>6, <2>8, <2>10, <2>11, <2>12, <2>13, <2>14, SenderStep
<1>3. CASE x = "b"
  <2>1. Asked' = Asked
    <3>1. "a" \in asked' <=> "a" \in asked
      BY <1>1, <1>3
    <3>. QED  BY <3>1, Zenon DEF Asked
  <2>2. sock.b.state = "CLOSE_WAIT"
    <3>1. SinkFirst \/ sock.b.state = "CLOSE_WAIT"
      BY <1>3, Zenon DEF AppClose
    <3>. QED  BY <3>1, Zenon
  <2>3. Becomes("b", Close(sock.b), to)
    BY <1>1, <1>3
  <2>4. /\ written \in Nat /\ Sink(sock.b) /\ sock.b.out = <<>> /\ sock.a.high \in Nat
        /\ RxOK(sock.b.rx, sock.a.high, written, Fin(sock.a, written, Asked))
    BY IInvIs
  <2>5. Takes(sock.b, Close(sock.b), sock.a.high, written, Fin(sock.a, written, Asked))
    BY <2>2, <2>4, SinkClose
  <2>. QED  BY <1>1, <2>1, <2>3, <2>5, SinkGoesOn
<1>. QED  BY <1>2, <1>3 DEF Ends

\* The timers
LEMMA RetxInv ==
  ASSUME IInv, NEW x \in Ends, RetxExpires(x)
  PROVE  IInv' /\ Forward
<1>1. sock[x].retx # {} /\ Becomes(x, RetxEvent(sock[x]), to) /\ written' = written /\ asked' = asked
  BY DEF RetxExpires
<1>2. Asked' = Asked
  BY <1>1, AskedSame
<1>3. /\ written \in Nat /\ Asked \in BOOLEAN /\ sock.a.out = <<>> /\ sock.b.out = <<>> /\ sock.a.high \in Nat
      /\ Sender(sock.a, written, Asked) /\ Sink(sock.b)
      /\ RxOK(sock.b.rx, sock.a.high, written, Fin(sock.a, written, Asked))
  BY IInvIs
<1>4. CASE x = "a"
  <2>1. Goes(sock.a, RetxEvent(sock.a), written, Asked)
    BY <1>1, <1>3, <1>4, RetxGoes
  <2>. QED  BY <1>1, <1>2, <1>4, <2>1, SenderGoesOn
<1>5. CASE x = "b"
  <2>1. Takes(sock.b, RetxEvent(sock.b), sock.a.high, written, Fin(sock.a, written, Asked))
    BY <1>1, <1>3, <1>5, SinkRetx
  <2>. QED  BY <1>1, <1>2, <1>5, <2>1, SinkGoesOn
<1>. QED  BY <1>4, <1>5 DEF Ends

\* The other timers
LEMMA TimersInv ==
  ASSUME IInv, NEW x \in Ends, DelAckExpires(x) \/ PacingExpires(x) \/ PendingExpires(x) \/ TimeWaitExpires(x)
  PROVE  IInv' /\ Forward
<1>. DEFINE S(s) == {DelAckTimeout(s), NotifyPacingPerformed(s), SendPendingData(s), TimeWaitOver(s)}
<1>1. (\E t \in S(sock[x]) : Becomes(x, t, to)) /\ written' = written /\ asked' = asked
  BY DEF DelAckExpires, PacingExpires, PendingExpires, TimeWaitExpires, TimerExpires
<1>2. Asked' = Asked
  BY <1>1, AskedSame
<1>3. /\ written \in Nat /\ Asked \in BOOLEAN /\ sock.a.out = <<>> /\ sock.b.out = <<>> /\ sock.a.high \in Nat
      /\ Sender(sock.a, written, Asked) /\ Sink(sock.b)
      /\ RxOK(sock.b.rx, sock.a.high, written, Fin(sock.a, written, Asked))
  BY IInvIs
<1>4. CASE x = "a"
  <2>1. \A t \in S(sock.a) : Goes(sock.a, t, written, Asked)
    BY <1>3, DelAckGoes, PacingGoes, PendingGoes, TimeWaitGoes
  <2>. HIDE DEF S
  <2>. QED  BY <1>1, <1>2, <1>4, <2>1, SenderGoesOn
<1>5. CASE x = "b"
  <2>1. \A t \in S(sock.b) : Takes(sock.b, t, sock.a.high, written, Fin(sock.a, written, Asked))
    BY <1>3, SinkDelAck, SinkPacing, SinkPending, SinkTimeWait
  <2>. HIDE DEF S
  <2>. QED  BY <1>1, <1>2, <1>5, <2>1, SinkGoesOn
<1>. QED  BY <1>4, <1>5 DEF Ends

\* The network
LEMMA ArrivesInv ==
  ASSUME IInv, NEW x \in Ends, to[x] # <<>>, NEW i \in 1 .. Len(to[x]), Arrives(x, i),
         written' = written, asked' = asked
  PROVE  IInv' /\ Forward
<1>. DEFINE g == to[x][i]
            left == [to EXCEPT ![x] = RemoveAt(@, i)]
            s == IF sock[x].ep THEN ForwardUp(sock[x], g) ELSE NoEndPoint(x, g)
<1>1. Becomes(x, s, left)
  BY DEF Arrives
<1>2. Asked' = Asked
  BY AskedSame
<1>3. /\ written \in Nat /\ Asked \in BOOLEAN /\ sock.a.out = <<>> /\ sock.b.out = <<>> /\ sock.a.high \in Nat
      /\ Sender(sock.a, written, Asked) /\ Sink(sock.b) /\ sock.a.high <= written + 1
      /\ RxOK(sock.b.rx, sock.a.high, written, Fin(sock.a, written, Asked))
      /\ Ties(sock.a, sock.b, Segs(to.a), Segs(to.b), written, Asked)
  BY IInvIs
<1>4. DOMAIN to = Ends /\ to.a \in Seq(Segment) /\ to.b \in Seq(Segment)
  BY IInvIs
<1>5. to[x] \in Seq(Segment)
  BY <1>4 DEF Ends
<1>6. RemoveAt(to[x], i) \in Seq(Segment) /\ Segs(RemoveAt(to[x], i)) \subseteq Segs(to[x]) /\ g \in Segs(to[x])
  BY <1>5, SegsFewer
<1>7. DOMAIN left = Ends /\ left[x] = RemoveAt(to[x], i) /\ \A y \in Ends \ {x} : left[y] = to[y]
  BY <1>4
<1>. HIDE DEF left, g
<1>8. CASE x = "a"
  <2>1. left.b = to.b /\ left.a \in Seq(Segment) /\ Segs(left.a) \subseteq Segs(to.a) /\ g \in Segs(to.a)
    BY <1>6, <1>7, <1>8 DEF Ends
  <2>2. Comes(g, sock.a, written, Asked, Over(sock.b))
    BY <1>3, <2>1, TiesComes
  <2>3. Shaped(sock.a) /\ sock.a.ep \in BOOLEAN
    BY <1>3, SenderIs
  <2>4. ASSUME sock.a.ep = TRUE
        PROVE  Answers(sock.a, s, g, written, Asked, Over(sock.b))
    <3>1. s = ForwardUp(sock.a, g)
      BY <1>8, <2>4, Zenon
    <3>2. Answers(sock.a, ForwardUp(sock.a, g), g, written, Asked, Over(sock.b))
      BY <1>3, <2>2, <2>4, SenderHears
    <3>. QED  BY <3>1, <3>2
  <2>5. ASSUME sock.a.ep = FALSE
        PROVE  Answers(sock.a, s, g, written, Asked, Over(sock.b)) \/ Goes(sock.a, s, written, Asked)
    <3>1. s = NoEndPoint("a", g)
      BY <1>8, <2>5, Zenon
    <3>2. Dead(sock.a, written, Asked)
      <4>1. ~Open(sock.a, written, Asked) /\ ~Done(sock.a, written, Asked) /\ ~Fresh(sock.a)
        BY <2>5 DEF Open, Mid, Done, Acked, Fresh
      <4>. QED  BY <1>3, <4>1 DEF Sender
    <3>3. s = IF "RST" \in g.flags THEN sock.a ELSE Transmit(sock.a, {"RST"}, g.ack, 0, {})
      BY <3>1 DEF NoEndPoint
    <3>4. Answers(sock.a, Transmit(sock.a, {"RST"}, g.ack, 0, {}), g, written, Asked, Over(sock.b))
      BY <1>3, <2>2, <3>2, DeadHears
    <3>5. Goes(sock.a, sock.a, written, Asked)
      <4>1. Kept(sock.a, sock.a)
        BY <2>3 DEF Kept
      <4>. QED  BY <1>3, <4>1, KeptGoes
    <3>. HIDE DEF s
    <3>. QED  BY <3>3, <3>4, <3>5
  <2>. HIDE DEF s
  <2>6. Goes(sock.a, s, written, Asked) \/ \E h \in Segs(to.a) : Answers(sock.a, s, h, written, Asked, Over(sock.b))
    BY <2>1, <2>3, <2>4, <2>5
  <2>. QED  BY <1>1, <1>2, <1>7, <1>8, <2>1, <2>6, SenderMoves
<1>9. CASE x = "b"
  <2>. DEFINE f == Fin(sock.a, written, Asked)
  <2>1. left.a = to.a /\ left.b \in Seq(Segment) /\ Segs(left.b) \subseteq Segs(to.b) /\ g \in Segs(to.b)
    BY <1>6, <1>7, <1>9 DEF Ends
  <2>2. Gets(g, sock.a.high, written, f) /\ (g.ack = 2 => Over(sock.b))
    BY <1>3, <2>1, TiesGets
  <2>3. sock.b.ep \in BOOLEAN
    BY <1>3, SinkIs
  <2>4. ASSUME sock.b.ep = TRUE
        PROVE  Takes(sock.b, s, sock.a.high, written, f)
    <3>1. s = ForwardUp(sock.b, g)
      BY <1>9, <2>4, Zenon
    <3>2. Takes(sock.b, ForwardUp(sock.b, g), sock.a.high, written, f)
      BY <1>3, <2>2, <2>4, SinkHears
    <3>. QED  BY <3>1, <3>2
  <2>5. ASSUME sock.b.ep = FALSE
        PROVE  Takes(sock.b, s, sock.a.high, written, f)
    <3>1. s = NoEndPoint("b", g)
      BY <1>9, <2>5, Zenon
    <3>2. s = sock.b
      BY <3>1 DEF NoEndPoint
    <3>3. Takes(sock.b, sock.b, sock.a.high, written, f)
      BY <1>3, SameTakes
    <3>. QED  BY <3>2, <3>3
  <2>. HIDE DEF s
  <2>. QED  BY <1>1, <1>2, <1>7, <1>9, <2>1, <2>3, <2>4, <2>5, SinkMoves
<1>. QED  BY <1>8, <1>9 DEF Ends

\* Segments are lost or copied.
LEMMA NetworkInv ==
  ASSUME IInv, NEW x \in Ends, Lose(x) \/ Duplicate(x)
  PROVE  IInv' /\ Forward
<1>1. sock' = sock /\ written' = written /\ asked' = asked /\ to[x] # <<>>
  BY DEF Lose, Duplicate
<1>2. \E q \in {Tail(to[x]), Append(to[x], Head(to[x]))} : to' = [to EXCEPT ![x] = q]
  BY DEF Lose, Duplicate
<1>3. PICK q \in {Tail(to[x]), Append(to[x], Head(to[x]))} : to' = [to EXCEPT ![x] = q]
  BY <1>2
<1>4. DOMAIN to = Ends /\ to.a \in Seq(Segment) /\ to.b \in Seq(Segment)
      /\ Ties(sock.a, sock.b, Segs(to.a), Segs(to.b), written, Asked)
  BY IInvIs
<1>5. to[x] \in Seq(Segment)
  BY <1>4 DEF Ends
<1>6. q \in Seq(Segment) /\ Segs(q) \subseteq Segs(to[x])
  BY <1>1, <1>5, SegsFewer
<1>7. DOMAIN to' = Ends /\ to'[x] = q /\ \A y \in Ends \ {x} : to'[y] = to[y]
  BY <1>3, <1>4
<1>8. /\ to'.a \in Seq(Segment) /\ to'.b \in Seq(Segment)
      /\ Segs(to'.a) \subseteq Segs(to.a) /\ Segs(to'.b) \subseteq Segs(to.b)
  BY <1>4, <1>6, <1>7 DEF Ends
<1>9. Ties(sock.a, sock.b, Segs(to'.a), Segs(to'.b), written, Asked)
  BY <1>4, <1>8, FewerTies
<1>10. Asked' = Asked
  BY <1>1, AskedSame
<1>11. /\ DOMAIN sock = Ends /\ written \in 0 .. Data /\ sock.a.out = <<>> /\ sock.b.out = <<>>
  BY DEF IInv
<1>12. sock.b.rx.next \in Nat
  BY IInvIs, RxIs
<1>13. Forward
  BY <1>1, <1>12 DEF Forward
<1>. QED  BY <1>1, <1>7, <1>8, <1>9, <1>10, <1>11, <1>13 DEF IInv

\* Every action keeps the invariant, and what the sink expects never goes back.
LEMMA NextInv ==
  ASSUME SinkFirst = FALSE, IInv, Next
  PROVE  IInv' /\ Forward
<1>1. ASSUME AppConnect
      PROVE  IInv' /\ Forward
  BY <1>1, ConnectInv
<1>2. ASSUME AppSend
      PROVE  IInv' /\ Forward
  BY <1>2, SendInv
<1>3. ASSUME NEW x \in Ends, AppClose(x)
      PROVE  IInv' /\ Forward
  BY <1>3, CloseInv
<1>4. ASSUME NEW x \in Ends, RetxExpires(x)
      PROVE  IInv' /\ Forward
  BY <1>4, RetxInv
<1>5. ASSUME NEW x \in Ends, DelAckExpires(x) \/ PacingExpires(x) \/ PendingExpires(x) \/ TimeWaitExpires(x)
      PROVE  IInv' /\ Forward
  BY <1>5, TimersInv
<1>6. ASSUME NEW x \in Ends, Receive(x)
      PROVE  IInv' /\ Forward
  <2>1. to[x] # <<>> /\ Arrives(x, 1) /\ written' = written /\ asked' = asked
    BY <1>6 DEF Receive
  <2>2. 1 \in 1 .. Len(to[x])
    <3>1. to[x] \in Seq(Segment)
      BY IInvIs DEF Ends
    <3>. QED  BY <2>1, <3>1, EmptySeq
  <2>. QED  BY <2>1, <2>2, ArrivesInv
<1>7. ASSUME NEW x \in Ends, Reorder(x)
      PROVE  IInv' /\ Forward
  <2>1. Len(to[x]) > 1 /\ Arrives(x, 2) /\ written' = written /\ asked' = asked
    BY <1>7 DEF Reorder
  <2>2. 2 \in 1 .. Len(to[x]) /\ to[x] # <<>>
    <3>1. to[x] \in Seq(Segment)
      BY IInvIs DEF Ends
    <3>. QED  BY <2>1, <3>1, EmptySeq
  <2>. QED  BY <2>1, <2>2, ArrivesInv
<1>8. ASSUME NEW x \in Ends, Lose(x) \/ Duplicate(x)
      PROVE  IInv' /\ Forward
  BY <1>8, NetworkInv
<1>. QED  BY <1>1, <1>2, <1>3, <1>4, <1>5, <1>6, <1>7, <1>8 DEF Next

\* ... and so does a step that changes nothing.
LEMMA StepInv ==
  ASSUME SinkFirst = FALSE, IInv, [Next]_vars
  PROVE  IInv' /\ Forward
<1>1. ASSUME UNCHANGED vars
      PROVE  IInv' /\ Forward
  <2>1. sock' = sock /\ to' = to /\ written' = written /\ asked' = asked
    BY <1>1 DEF vars
  <2>2. Asked' = Asked
    BY <2>1, AskedSame
  <2>3. sock.b.rx.next \in Nat
    BY IInvIs, RxIs
  <2>. QED  BY <2>1, <2>2, <2>3 DEF IInv, Forward
<1>. QED  BY <1>1, NextInv

\* Whatever is lost, duplicated or reordered, and whichever timers expire, the two sockets and
\* the segments between them satisfy the inductive invariant: every segment under way is one that
\* its sender could have sent, no acknowledgment or block reports what the sink has not received,
\* and none calls missing what another reports. SinkFirst is FALSE as in the experiment, whose
\* sink never closes before its peer has.
THEOREM Invariant ==
  ASSUME SinkFirst = FALSE
  PROVE  Spec => []IInv
<1>1. Init => IInv
  BY InitInv
<1>2. IInv /\ [Next]_vars => IInv'
  BY StepInv
<1>. QED  BY <1>1, <1>2, PTL DEF Spec

-----------------------------------------------------------------------------
\* What the invariant says: acknowledged data have been received.

\* What the sink acknowledges has been read, or is the FIN after all that has been written.
LEMMA RxReceived ==
  ASSUME NEW rx, NEW h \in Nat, NEW w \in Nat, NEW f, h <= w + 1, RxOK(rx, h, w, f), NEW n \in Nat, n <= rx.next
  PROVE  n <= rx.read + 1 \/ (n = w + 2 /\ rx.read = w)
BY DEF RxOK, Partial, Whole

\* The invariant implies the property.
LEMMA InvAcked ==
  ASSUME IInv
  PROVE  AckedIsReceived
<1>. DEFINE a == sock.a
            b == sock.b
            f == Fin(a, written, Asked)
<1>1. /\ written \in Nat /\ a.high \in Nat /\ a.high <= written + 1 /\ RxOK(b.rx, a.high, written, f)
      /\ Ties(a, b, Segs(to.a), Segs(to.b), written, Asked)
  BY IInvIs
<1>2. b.rx.next \in Nat
  BY <1>1, RxIs
<1>. HIDE DEF a, b, f
<1>3. a.tx.head \in Nat /\ a.tx.head <= b.rx.next /\ a.tx.sacked \subseteq Received(b.rx)
  BY <1>1, <1>2 DEF Ties, Agree, Acks, Sacks
<1>4. a.tx.head <= b.rx.read + 1 \/ (a.tx.head = written + 2 /\ b.rx.read = written)
  BY <1>1, <1>3, RxReceived
<1>. QED  BY <1>3, <1>4 DEF AckedIsReceived, Received, a, b

\* What tcp-socket-base and tcp-tx-buffer drop from the buffer of transmission, or mark as
\* reported by SACK, has been received by the other end: retransmission never stops too early.
THEOREM AckedReceived ==
  ASSUME SinkFirst = FALSE
  PROVE  Spec => []AckedIsReceived
<1>1. IInv => AckedIsReceived
  BY InvAcked
<1>. QED  BY <1>1, Invariant, PTL

-----------------------------------------------------------------------------
\* ... and no assertion of the code fails.

\* The ranges of a socket that TypeOK states
Ranges(s) ==
  /\ s.state \in States /\ s.cong \in {"OPEN", "DISORDER", "RECOVERY", "LOSS"}
  /\ {s.next, s.high, s.highAck, s.recover} \subseteq Seqs
  /\ {s.tx.head, s.tx.end, s.tx.tail, s.rx.next, s.rx.fin, s.rx.read} \subseteq Seqs
  /\ s.tx.sacked \cup s.tx.lost \cup s.tx.retrans \subseteq Sent(s.tx)
  /\ s.tx.sacked \cap s.tx.lost = {}
  /\ s.syns \in 0 .. SynRetries /\ s.retries \in 0 .. DataRetries
  /\ s.retx \in Flags \cup {{"RTO"}}
  /\ s.timers \subseteq {"delAck", "pacing", "timeWait", "pending"}
  /\ s.notice \in {"none", "normal", "error"}

\* What the sender retransmits when its timer expires
LEMMA SenderTimer ==
  ASSUME NEW s, NEW w \in Nat, NEW c \in BOOLEAN, Sender(s, w, c)
  PROVE  s.retx \in {{}, {"RTO"}, {"SYN"}, {"FIN", "ACK"}}
<1>1. Fresh(s) => s.retx \in {{}, {"SYN"}}
  BY DEF Fresh
<1>2. Open(s, w, c) => s.retx \in {{}, {"RTO"}, {"FIN", "ACK"}}
  BY DEF Open, Mid
<1>3. Done(s, w, c) => s.retx \in {{}, {"RTO"}}
  BY DEF Done, Acked
<1>4. Dead(s, w, c) => s.retx = {}
  BY DEF Dead
<1>. QED  BY <1>1, <1>2, <1>3, <1>4 DEF Sender

\* ... is in the ranges, and so are its numbers.
LEMMA SenderRanges ==
  ASSUME NEW s, NEW w \in Nat, NEW c \in BOOLEAN, Sender(s, w, c), w <= Data
  PROVE  Ranges(s) /\ s.broken = FALSE
<1>1. Sane(s) /\ Bounded(s, w, c) /\ s.high \in Nat /\ s.high <= w + 1
  BY SenderIs DEF Sender, Shaped
<1>2. Data \in Nat
  BY TcpConnectionAssumption
<1>3. {s.next, s.high, s.highAck, s.recover} \subseteq Seqs
  BY <1>1, <1>2 DEF Bounded, Seqs
<1>4. {s.tx.head, s.tx.end, s.tx.tail, s.rx.next, s.rx.fin, s.rx.read} \subseteq Seqs
  BY <1>1, <1>2 DEF Bounded, Board, Seqs
<1>5. s.tx.sacked \cup s.tx.lost \cup s.tx.retrans \subseteq Sent(s.tx) /\ s.tx.sacked \cap s.tx.lost = {}
  BY <1>1 DEF Bounded, Board, Sent
<1>6. s.retx \in Flags \cup {{"RTO"}}
  BY SenderTimer DEF Flags
<1>. QED  BY <1>1, <1>3, <1>4, <1>5, <1>6 DEF Ranges, Sane, Sound

\* Those of the sink are, too.
LEMMA SinkRanges ==
  ASSUME NEW s, NEW h \in Nat, NEW w \in Nat, NEW f, h <= w + 1, w <= Data, Sink(s), RxOK(s.rx, h, w, f)
  PROVE  Ranges(s) /\ s.broken = FALSE
<1>1. Sane(s) /\ Humble(s)
  BY DEF Sink, Shaped
<1>2. Data \in Nat
  BY TcpConnectionAssumption
<1>3. {s.next, s.high, s.highAck, s.recover} \subseteq Seqs
  BY <1>1, <1>2 DEF Humble, Seqs
<1>4. s.tx \in {EmptyTx, Idle}
  BY DEF Sink, Live
<1>5. /\ s.tx.head \in 0 .. 1 /\ s.tx.end \in 0 .. 1 /\ s.tx.tail \in 0 .. 1
      /\ s.tx.sacked = {} /\ s.tx.lost = {} /\ s.tx.retrans = {}
  <2>1. Idle.head = 1 /\ Idle.end = 1 /\ Idle.tail = 1 /\ Idle.sacked = {} /\ Idle.lost = {} /\ Idle.retrans = {}
    BY DEF Idle, EmptyTx
  <2>2. CASE s.tx = EmptyTx
    BY <2>2 DEF EmptyTx
  <2>3. CASE s.tx = Idle
    <3>. HIDE DEF Idle
    <3>. QED  BY <2>1, <2>3
  <2>. QED  BY <1>4, <2>2, <2>3
<1>6. s.rx.next \in 0 .. w + 2 /\ s.rx.fin \in 0 .. w + 2 /\ s.rx.read \in 0 .. w + 2
  BY DEF RxOK, Partial, Whole
<1>7. {s.tx.head, s.tx.end, s.tx.tail, s.rx.next, s.rx.fin, s.rx.read} \subseteq Seqs
  BY <1>2, <1>5, <1>6 DEF Seqs
<1>8. s.retx \in Flags \cup {{"RTO"}}
  BY DEF Sink, Live, Flags
<1>. QED  BY <1>1, <1>3, <1>5, <1>7, <1>8 DEF Ranges, Sane, Sound

\* The segments under way have flags and numbers in the ranges.
LEMMA SegmentRanges ==
  ASSUME IInv, NEW x \in Ends, NEW i \in 1 .. Len(to[x])
  PROVE  to[x][i].flags \in Flags /\ to[x][i].seq \in Seqs
<1>. DEFINE g == to[x][i]
<1>1. /\ written \in Nat /\ written <= Data /\ sock.a.high \in Nat /\ sock.a.high <= written + 1
      /\ Ties(sock.a, sock.b, Segs(to.a), Segs(to.b), written, Asked)
  BY IInvIs
<1>2. g \in Segs(to[x])
  BY DEF Segs
<1>3. Data \in Nat
  BY TcpConnectionAssumption
<1>. HIDE DEF g
<1>4. CASE x = "a"
  <2>1. g \in FromSink(sock.b)
    BY <1>1, <1>2, <1>4 DEF Ties
  <2>2. g \in Segment /\ g.seq <= 2
    BY <2>1 DEF FromSink
  <2>. QED  BY <1>3, <2>2 DEF Segment, Flags, Seqs, g
<1>5. CASE x = "b"
  <2>1. g \in Segment /\ ToSink(g, sock.a, written, Asked)
    BY <1>1, <1>2, <1>5 DEF Ties, ForSink
  <2>2. g.flags \in Flags /\ g.seq \in Nat /\ g.len \in Nat
    BY <2>1 DEF Segment, Flags
  <2>3. g.seq <= written + 3
    BY <1>1, <2>1, <2>2 DEF ToSink
  <2>. QED  BY <1>1, <1>3, <2>2, <2>3 DEF Seqs, g
<1>. QED  BY <1>4, <1>5 DEF Ends

\* The faults that have been counted, and the applications that have closed
Counts == faults \in 0 .. MaxFaults /\ asked \subseteq Ends

\* They stay in their ranges.
LEMMA CountsStay ==
  ASSUME Counts, [Next]_vars
  PROVE  Counts'
<1>1. MaxFaults \in Nat
  BY TcpConnectionAssumption
<1>2. faults' = faults \/ (faults < MaxFaults /\ faults' = faults + 1)
  BY DEF Next, vars, AppConnect, AppSend, AppClose, RetxExpires, Late, Fault, DelAckExpires, PacingExpires,
         PendingExpires, TimeWaitExpires, TimerExpires, Receive, Reorder, Lose, Duplicate
<1>3. asked' = asked \/ \E x \in Ends : asked' = asked \cup {x}
  BY DEF Next, vars, AppConnect, AppSend, AppClose, RetxExpires, DelAckExpires, PacingExpires,
         PendingExpires, TimeWaitExpires, TimerExpires, Receive, Reorder, Lose, Duplicate
<1>. QED  BY <1>1, <1>2, <1>3 DEF Counts

\* The invariant implies the property.
LEMMA InvAssertions ==
  ASSUME IInv, Counts
  PROVE  AssertionsHold
<1>1. /\ written \in Nat /\ written <= Data /\ Asked \in BOOLEAN /\ sock.a.high \in Nat /\ sock.a.high <= written + 1
      /\ Sender(sock.a, written, Asked) /\ Sink(sock.b) /\ sock.a.out = <<>> /\ sock.b.out = <<>>
      /\ RxOK(sock.b.rx, sock.a.high, written, Fin(sock.a, written, Asked))
  BY IInvIs
<1>2. Ranges(sock.a) /\ sock.a.broken = FALSE /\ Ranges(sock.b) /\ sock.b.broken = FALSE
  BY <1>1, SenderRanges, SinkRanges
<1>3. \A x \in Ends : Ranges(sock[x]) /\ sock[x].out = <<>>
  BY <1>1, <1>2 DEF Ends
<1>4. \A x \in Ends : ~sock[x].broken
  BY <1>2, Zenon DEF Ends
<1>5. \A x \in Ends : \A i \in 1 .. Len(to[x]) : to[x][i].flags \in Flags /\ to[x][i].seq \in Seqs
  BY SegmentRanges
<1>6. written \in 0 .. Data
  BY <1>1, TcpConnectionAssumption
<1>7. TypeOK
  BY <1>3, <1>5, <1>6 DEF TypeOK, Ranges, Counts
<1>. QED  BY <1>4, <1>7 DEF AssertionsHold

\* No assertion of tcp-socket-base and tcp-tx-buffer fails, whatever the network does: the
\* congestion states, the count of duplicate acknowledgments and the scoreboard agree whenever
\* EnterRecovery, DupAck, ReTxTimeout, DoRetransmit, DoPeerClose and Update look at them.
THEOREM Assertions ==
  ASSUME SinkFirst = FALSE
  PROVE  Spec => []AssertionsHold
<1>1. IInv /\ Counts => AssertionsHold
  BY InvAssertions
<1>2. Init => Counts
  BY TcpConnectionAssumption DEF Init, Counts
<1>3. Counts /\ [Next]_vars => Counts'
  BY CountsStay
<1>. QED  BY <1>1, <1>2, <1>3, Invariant, PTL DEF Spec

-----------------------------------------------------------------------------
\* The data read are a stream.

\* How the sink's reading goes on, while the sender writes nothing more
LEMMA Reading ==
  ASSUME NEW rx, NEW sx, NEW h \in Nat, NEW k \in Nat, NEW w \in Nat, NEW f, NEW e, h <= w + 1, k <= w + 1,
         RxOK(rx, h, w, f), RxOK(sx, k, w, e), rx.next <= sx.next
  PROVE  \/ sx.read = rx.read /\ (Finished(sx) <=> Finished(rx))
         \/ ~Finished(rx) /\ ~Finished(sx) /\ sx.read \in rx.read + 1 .. w
         \/ ~Finished(rx) /\ Finished(sx) /\ sx.read = w /\ w + 1 \in e
<1>1. (Finished(rx) <=> Whole(rx, w, f)) /\ (Finished(sx) <=> Whole(sx, w, e))
  BY RxIs
<1>2. rx.next \in Nat /\ sx.next \in Nat
  BY RxIs
<1>3. ASSUME Whole(rx, w, f)
      PROVE  Whole(sx, w, e) /\ sx.read = rx.read
  <2>1. sx.next >= w + 2
    BY <1>2, <1>3 DEF Whole
  <2>2. Whole(sx, w, e)
    BY <1>2, <2>1 DEF RxOK, Partial
  <2>. QED  BY <1>3, <2>2 DEF Whole
<1>4. ASSUME Whole(sx, w, e)
      PROVE  sx.read = w /\ w + 1 \in e
  BY <1>4 DEF Whole
<1>5. ASSUME ~Whole(rx, w, f), ~Whole(sx, w, e)
      PROVE  sx.read = rx.read \/ sx.read \in rx.read + 1 .. w
  <2>1. (rx.next = 0 /\ rx.read = 0) \/ (rx.next >= 1 /\ rx.read = rx.next - 1)
    BY <1>5 DEF RxOK, Partial
  <2>2. (sx.next = 0 /\ sx.read = 0) \/ (sx.next >= 1 /\ sx.read = sx.next - 1 /\ (sx.next <= k \/ sx.next = 1))
    BY <1>5 DEF RxOK, Partial
  <2>. QED  BY <1>2, <2>1, <2>2
<1>. QED  BY <1>1, <1>3, <1>4, <1>5

\* Initially nothing has been written or read.
LEMMA InitStream ==
  ASSUME Init
  PROVE  Stream!Init
<1>1. PICK v \in Windows : sock = [a |-> NewSocket("CLOSED", v), b |-> NewSocket("LISTEN", v)]
  BY DEF Init
<1>2. sock.b = NewSocket("LISTEN", v)
  BY <1>1
<1>3. sock.b.rx.read = 0 /\ ~Finished(sock.b.rx)
  BY <1>2 DEF NewSocket, EmptyRx, Finished
<1>4. written = 0 /\ "a" \notin asked
  BY DEF Init
<1>. QED  BY <1>3, <1>4 DEF Stream!Init

\* A step of the sender leaves the sink alone.
LEMMA SenderAlone ==
  ASSUME IInv, NEW s, Becomes("a", s, to)
  PROVE  sock'.b = sock.b
BY DEF IInv, Becomes, Ends

\* Every step of the connection is a step of ByteStream: something is written, some of what has
\* been written is read, the writer closes, the reader learns of the end, or nothing changes.
LEMMA StepStream ==
  ASSUME SinkFirst = FALSE, IInv, IInv', [Next]_vars
  PROVE  [Stream!Next]_<<written, sock.b.rx.read, "a" \in asked, Finished(sock.b.rx)>>
<1>1. ASSUME AppSend
      PROVE  Stream!Next
  <2>1. "a" \notin asked /\ written < Data /\ written' = written + 1 /\ asked' = asked /\ Becomes("a", Send(sock.a), to)
    BY <1>1 DEF AppSend
  <2>2. sock'.b = sock.b
    BY <2>1, SenderAlone
  <2>. QED  BY <2>1, <2>2 DEF Stream!Next, Stream!Write
<1>2. ASSUME AppClose("a")
      PROVE  Stream!Next
  <2>1. "a" \in asked' /\ written' = written /\ Becomes("a", Close(sock.a), to)
    BY <1>2 DEF AppClose
  <2>2. sock'.b = sock.b
    BY <2>1, SenderAlone
  <2>. QED  BY <2>1, <2>2 DEF Stream!Next, Stream!CloseStream
<1>3. ASSUME ~AppSend, ~AppClose("a")
      PROVE  written' = written /\ ("a" \in asked' <=> "a" \in asked)
  <2>1. ASSUME AppClose("b")
        PROVE  written' = written /\ ("a" \in asked' <=> "a" \in asked)
    BY <2>1 DEF AppClose
  <2>. QED  BY <1>3, <2>1 DEF Next, vars, Ends, AppConnect, RetxExpires, DelAckExpires, PacingExpires,
                               PendingExpires, TimeWaitExpires, TimerExpires, Receive, Reorder, Lose, Duplicate
<1>4. ASSUME written' = written, "a" \in asked' <=> "a" \in asked
      PROVE  [Stream!Next]_<<written, sock.b.rx.read, "a" \in asked, Finished(sock.b.rx)>>
  <2>. DEFINE rx == sock.b.rx
              sx == sock'.b.rx
              h  == sock.a.high
              k  == sock'.a.high
              w  == written
              f  == Fin(sock.a, written, Asked)
              e  == Fin(sock'.a, written', Asked')
  <2>1. w \in Nat /\ h \in Nat /\ h <= w + 1 /\ RxOK(rx, h, w, f)
    BY IInvIs
  <2>2. k \in Nat /\ k <= written' + 1 /\ RxOK(sx, k, written', e)
    <3>1. Ties(sock'.a, sock'.b, Segs(to'.a), Segs(to'.b), written', Asked') /\ written' \in 0 .. Data
      BY DEF IInv
    <3>2. Asked' \in BOOLEAN
      BY Zenon DEF Asked
    <3>3. written' \in Nat
      BY <3>1, TcpConnectionAssumption
    <3>. QED  BY <3>1, <3>2, <3>3, TiesIs
  <2>3. rx.next <= sx.next
    BY StepInv DEF Forward
  <2>4. w + 1 \in e => "a" \in asked
    <3>1. ASSUME w + 1 \in e
          PROVE  FinSent(sock'.a, written', Asked')
      BY <3>1, Zenon DEF Fin
    <3>2. FinSent(sock'.a, written', Asked') => Asked'
      BY Zenon DEF FinSent
    <3>3. Asked' => "a" \in asked'
      BY Zenon DEF Asked
    <3>. HIDE DEF e
    <3>. QED  BY <1>4, <3>1, <3>2, <3>3, Zenon
  <2>5. RxOK(sx, k, w, e) /\ k <= w + 1
    BY <1>4, <2>2
  <2>. HIDE DEF h, k, w, f, e, rx, sx
  <2>6. \/ sx.read = rx.read /\ (Finished(sx) <=> Finished(rx))
        \/ ~Finished(rx) /\ ~Finished(sx) /\ sx.read \in rx.read + 1 .. w
        \/ ~Finished(rx) /\ Finished(sx) /\ sx.read = w /\ w + 1 \in e
    BY <2>1, <2>2, <2>3, <2>5, Reading
  <2>7. ASSUME sx.read = rx.read, Finished(sx) <=> Finished(rx)
        PROVE  UNCHANGED <<written, sock.b.rx.read, "a" \in asked, Finished(sock.b.rx)>>
    <3>1. ("a" \in asked)' = ("a" \in asked)
      BY <1>4
    <3>2. Finished(sock.b.rx)' = Finished(sock.b.rx)
      BY <2>7, Zenon DEF Finished, rx, sx
    <3>3. (sock.b.rx.read)' = sock.b.rx.read
      BY <2>7 DEF rx, sx
    <3>. QED  BY <1>4, <3>1, <3>2, <3>3, Zenon
  <2>8. ASSUME ~Finished(rx), ~Finished(sx), sx.read \in rx.read + 1 .. w
        PROVE  Stream!Next
    <3>1. ("a" \in asked)' = ("a" \in asked)
      BY <1>4
    <3>2. ~Finished(sock.b.rx) /\ Finished(sock.b.rx)' = Finished(sock.b.rx)
      BY <2>8, Zenon DEF Finished, rx, sx
    <3>3. (sock.b.rx.read)' \in sock.b.rx.read + 1 .. written
      BY <2>8 DEF rx, sx, w
    <3>4. Stream!Read
      BY <1>4, <3>1, <3>2, <3>3, Zenon DEF Stream!Read
    <3>. QED  BY <3>4, Zenon DEF Stream!Next
  <2>9. ASSUME ~Finished(rx), Finished(sx), sx.read = w, w + 1 \in e
        PROVE  Stream!Next
    <3>1. "a" \in asked
      BY <2>4, <2>9
    <3>. QED  BY <1>4, <2>9, <3>1 DEF Stream!Next, Stream!End, rx, sx, w
  <2>. QED  BY <2>6, <2>7, <2>8, <2>9
<1>. QED  BY <1>1, <1>2, <1>3, <1>4

\* TcpSocketBase implements ByteStream: the sink's application reads what was written, in order
\* and once, and learns of the end only after Close, when it has read all.
THEOREM StreamOfBytes ==
  ASSUME SinkFirst = FALSE
  PROVE  Spec => IsByteStream
<1>1. Init => Stream!Init
  BY InitStream
<1>2. IInv /\ IInv' /\ [Next]_vars => [Stream!Next]_<<written, sock.b.rx.read, "a" \in asked, Finished(sock.b.rx)>>
  BY StepStream
<1>. QED  BY <1>1, <1>2, Invariant, PTL DEF Spec, IsByteStream, Stream!Spec
=============================================================================
