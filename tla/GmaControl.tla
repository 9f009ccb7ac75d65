----------------------------- MODULE GmaControl ------------------------------
(***************************************************************************)
(* The control messages between the two GMA interfaces of a flow           *)
(* (gma-virtual-interface.cc): probes and their ACKs, traffic splitting    *)
(* updates (TSU) and their TSAs, retransmission, and what they do to the   *)
(* link states and the splits of both ends.  An interface is at once the   *)
(* receiver of one direction, for which it decides the split, and the      *)
(* transmitter of the other, for which it is told.                         *)
(*                                                                         *)
(* net[n] holds the messages on their way to n.  They may overtake each    *)
(* other (they use different links, and SendByCid may delay a link), and   *)
(* one that never arrives stays there for ever: that is a loss.  A timer   *)
(* may expire however long the answer takes.                               *)
(***************************************************************************)
EXTENDS TrafficSplit, Dict

CONSTANTS Peers,            \* the two interfaces
          RxMode,           \* those that receive traffic, hence measure it
          TxMode,           \* those that transmit traffic
          PowerTraced,      \* those that see the power of their Wi-Fi signal
          RlSplits,         \* splits that actions of an agent may ask for
          RlControlled,     \* those that receive actions
          SplittingBurst,   \* configured size of a burst; 1 is steer mode
          MaxRetxAttempt,   \* MAX_RETX_ATTEMPT
          MaxCsn,           \* bounds on the numbers used: beyond it an interface
                            \* only answers, retransmits and gives up
          LastCsn           \* numbers end here for retransmissions as well

MaxSplittingBurst == 128   \* what the weights of an action are scaled to

ASSUME GmaAssumption ==
  /\ \A n \in Peers : \E o \in Peers : Peers \ {n} = {o}
  /\ RxMode \subseteq Peers /\ TxMode \subseteq Peers
  /\ PowerTraced \subseteq Peers /\ RlControlled \subseteq Peers
  /\ SplittingBurst \in {1, 4, 8, 16, 32, 128}   \* SetSplittingBurst
  /\ RlSplits \subseteq Splits(MaxSplittingBurst)
  /\ MaxRetxAttempt \in Nat
  /\ MaxCsn \in [Peers -> 0 .. LastCsn]
  /\ LastCsn \in Nat /\ LastCsn < 65536

VARIABLES iface,   \* the state of each interface
          net      \* the messages on their way to each interface

vars == <<iface, net>>

Other(n) == CHOOSE o \in Peers : o # n

\* Serial number comparison of 16-bit control sequence numbers
CsnDiff(x, y) == LET d == x - y
                 IN  IF d > 32768 THEN d - 65536
                     ELSE IF d < -32768 THEN d + 65536 ELSE d

InitInterface(n) ==
  [ls        |-> AddedLinks,
   split     |-> NoSplit,         \* m_lastSplittingIndexList
   burst     |-> SplittingBurst,  \* m_splittingBurst
   algorithm |-> "Delay",
   told      |-> NoSplit,         \* the split of the last TSU applied
   csn       |-> 0,               \* m_mxCtrSeqNumber, the next to use
   queue     |-> EmptyDict,       \* m_txedCtrQueue, keyed by first number
   maxTsu    |-> 0,
   maxTsa    |-> 0,
   maxMap    |-> 0,               \* m_maxLinkMapUpdateSn
   marking   |-> FALSE,           \* m_enableMarkCtrlLinkMap
   power     |-> 1,               \* m_wifiPowerRange: 0 low, 1 high
   measuring |-> n \in RxMode]    \* m_measurementOn

Init == /\ iface = [n \in Peers |-> InitInterface(n)]
        /\ net = [n \in Peers |-> {}]

-----------------------------------------------------------------------------
(* Methods of the interface.  A method takes and gives an effect: the      *)
(* interface as it is by now, and the messages sent so far.                *)

Effect(i) == [i |-> i, out |-> {}]

\* Messages carry the state of Wi-Fi once a power trace exists.
LinkStatus(i) == ~i.marking \/ IsLinkUp(i.ls, Wifi)

\* A TSU goes out on each link that is to carry traffic, a probe on its own.
Copies(i, h) ==
  IF h.type = "tsu"
  THEN {[type |-> "tsu", sn |-> h.sn, cid |-> c, split |-> h.split, wifiUp |-> LinkStatus(i)] :
          c \in {c \in Cids : h.split[c] # 0}}
  ELSE {[type |-> "probe", sn |-> h.sn, cid |-> h.cid, wifiUp |-> LinkStatus(i)]}

\* New messages wait for an answer, each under its number.
Enqueue(q, headers) ==
  [s \in DOMAIN q \cup {h.sn : h \in headers} |->
     IF s \in DOMAIN q THEN q[s]
     ELSE [header |-> CHOOSE h \in headers : h.sn = s, sns |-> {s}]]

\* The next number to use and the queue change together.
Advance(i, n, queue) == [i EXCEPT !.csn = n % 65536, !.queue = queue]

\* Mutant: the number advances once per call.
SendCtrlMsgsOnce(e, headers) ==
  [i   |-> Advance(e.i, e.i.csn + 1, Enqueue(e.i.queue, headers)),
   out |-> e.out \cup UNION {Copies(e.i, h) : h \in headers}]

\* First transmission of new messages, numbered from the next number on
SendCtrlMsgs(e, headers) ==
  [i   |-> Advance(e.i, e.i.csn + Cardinality(headers), Enqueue(e.i.queue, headers)),
   out |-> e.out \cup UNION {Copies(e.i, h) : h \in headers}]

\* The header of a TSU that is kept for retransmission names Wi-Fi, whatever
\* the links its copies are sent on.
SendTsu(e, split) ==
  SendCtrlMsgs(e, {[type |-> "tsu", sn |-> e.i.csn, cid |-> Wifi, split |-> split]})

MarkDown(e, why, c) == [e EXCEPT !.i.ls = LinkDown(@, why, c)]

Remember(e, split) == [e EXCEPT !.i.split = split]

\* The share of a failed link is moved, and the transmitter is told.
Shed(e, c) ==
  LET d == LinkDownTsu(e.i.ls, e.i.split, e.i.burst, c)
  IN  IF d.update THEN SendTsu(Remember(e, d.split), d.tsu) ELSE Remember(e, d.split)

\* Mutant: the share is moved while the link is still marked as up.
TakeDownLate(e, why, c) ==
  IF IsLinkUp(e.i.ls, c) THEN MarkDown(Shed(e, c), why, c) ELSE MarkDown(e, why, c)

\* A link is taken down for some reason; this matters if it was up.
TakeDown(e, why, c) ==
  IF IsLinkUp(e.i.ls, c) THEN Shed(MarkDown(e, why, c), c) ELSE MarkDown(e, why, c)

\* The peer's Wi-Fi is up or down, says a probe or TSU that is not older than the
\* one seen last.
ObeyLinkMap(e, m) ==
  IF CsnDiff(m.sn, e.i.maxMap) <= 0 THEN e
  ELSE IF ~m.wifiUp THEN TakeDown(e, "bitmapFailed", Wifi)
  ELSE [e EXCEPT !.i.ls = LinkUp(@, "bitmapFailed", Wifi)]

ReadLinkMap(e, m) == [ObeyLinkMap(e, m) EXCEPT !.i.maxMap = m.sn]

\* Mutant: the answer carries the next number of the sender.
ReplyWithOwnNumber(e, type, m) ==
  [e EXCEPT !.out = @ \cup {[type |-> type, sn |-> e.i.csn, cid |-> m.cid]}]

Reply(e, type, m) == [e EXCEPT !.out = @ \cup {[type |-> type, sn |-> m.sn, cid |-> m.cid]}]

RecvProbe(e, m) == Reply(ReadLinkMap(e, m), "ack", m)

\* The transmitter obeys a TSU with a larger number than the last it obeyed,
\* and answers all of them.
ObeyTsu(n, e, m) ==
  IF n \in TxMode /\ CsnDiff(m.sn, e.i.maxTsu) > 0
  THEN [e EXCEPT !.i.maxTsu = m.sn, !.i.told = m.split] ELSE e

RecvTsu(n, e, m) == Reply(ObeyTsu(n, ReadLinkMap(e, m), m), "tsa", m)

\* An ACK or TSA settles the message that used its number in any of its
\* transmissions; the link it came over works.
Settle(e, S) == [e EXCEPT !.i.queue = Without(@, S)]

\* A TSA that is not older than the last begins a measurement cycle.
StartCycle(n, e, m) ==
  IF m.type = "tsa" /\ n \in RxMode /\ CsnDiff(m.sn, e.i.maxTsa) > 0
  THEN [e EXCEPT !.i.maxTsa = m.sn, !.i.measuring = TRUE] ELSE e

RecvAck(n, e, m) ==
  LET settled == {s \in DOMAIN e.i.queue : m.sn \in e.i.queue[s].sns}
  IN  IF settled = {} THEN e
      ELSE [StartCycle(n, Settle(e, settled), m) EXCEPT !.i.ls = LinkUp(@, "ctrFailed", m.cid)]

-----------------------------------------------------------------------------
(* Actions                                                                 *)

\* The model ends where the numbers would wrap.
NoWrap(n, e) == e.i.csn \in iface[n].csn .. LastCsn

Does(n, e) == /\ NoWrap(n, e)
              /\ iface' = [iface EXCEPT ![n] = e.i]
              /\ net' = [net EXCEPT ![Other(n)] = @ \cup e.out]

\* What an interface begins by itself, up to the bound on the numbers
Begins(n, e) == e.i.csn <= MaxCsn[n] /\ Does(n, e)

\* The traffic, and with it measurements and actions, starts after the first
\* probes.
TrafficStarted(n) == iface[n].csn > 0

\* One probe on each link, numbered in the order of the links
Probes(i) ==
  LET Number(c) == i.csn + Cardinality({d \in Cids : d < c})
  IN  {[type |-> "probe", sn |-> Number(c), cid |-> c] : c \in Cids}

PeriodicProbeMsg(n) == Begins(n, SendCtrlMsgs(Effect(iface[n]), Probes(iface[n])))

WifiPowerLow(n) ==
  LET i == iface[n] IN
  /\ n \in PowerTraced /\ i.power # 0
  /\ Begins(n, TakeDown(Effect([i EXCEPT !.power = 0, !.marking = TRUE]), "lowQuality", Wifi))

WifiPowerHigh(n) ==
  LET i == iface[n] IN
  /\ n \in PowerTraced /\ i.power # 1
  /\ Begins(n, Effect([i EXCEPT !.power = 1, !.marking = TRUE, !.ls = LinkUp(@, "lowQuality", Wifi)]))

\* A measurement cycle ends.  If the split changes, the transmitter is told
\* and the next cycle begins with its answer; otherwise it begins at once.
MeasureCycleEnd(n) ==
  LET i     == iface[n]
      start == Started(i.ls, i.split, i.burst) IN
  /\ n \in RxMode /\ TrafficStarted(n)
  /\ i.measuring /\ i.algorithm = "Delay"
  /\ \E k \in MeasuredSplits(i.ls, start) :
       LET j == [i EXCEPT !.split = k] IN
       Begins(n, IF k = start THEN Effect(j)
                    ELSE SendTsu(Effect([j EXCEPT !.measuring = FALSE]), k))

\* Mutant: the size of the burst stays the configured one.
AskedForOldBurst(i, k) ==
  [i EXCEPT !.algorithm = "RlSplit", !.split = IF @ = NoSplit THEN NoSplit ELSE k]

\* An agent asks for a split.  It takes over from the delay algorithm; the
\* first split is not remembered if there is none to replace.
AskedFor(i, k) ==
  [i EXCEPT !.algorithm = "RlSplit", !.burst = Burst(k),
            !.split = IF @ = NoSplit THEN NoSplit ELSE k]

ReceiveDlSplitWeightAction(n) ==
  LET i == iface[n] IN
  /\ n \in RlControlled /\ TrafficStarted(n)
  /\ \E k \in RlSplits :
       Begins(n, IF k = i.split THEN Effect(AskedFor(i, k))
                                ELSE SendTsu(Effect(AskedFor(i, k)), k))

RecvCtrlMsg(n) ==
  \E m \in net[n] :
    LET e == Effect(iface[n])
        f == CASE m.type = "probe" -> RecvProbe(e, m)
               [] m.type = "tsu"   -> RecvTsu(n, e, m)
               [] OTHER            -> RecvAck(n, e, m)
    IN  /\ NoWrap(n, f)
        /\ iface' = [iface EXCEPT ![n] = f.i]
        /\ net' = [net EXCEPT ![n] = @ \ {m}, ![Other(n)] = @ \cup f.out]

GiveUp(i, s) ==
  Settle(TakeDown(Effect(i), "ctrFailed", i.queue[s].header.cid), {s})

Resend(i, s) ==
  LET h    == [i.queue[s].header EXCEPT !.sn = i.csn]
      item == [header |-> h, sns |-> i.queue[s].sns \cup {h.sn}]
  IN  [i   |-> Advance(i, i.csn + 1, [i.queue EXCEPT ![s] = item]),
       out |-> Copies(i, h)]

\* No answer in time: send the message again under a new number or, after
\* MAX_RETX_ATTEMPT times, take its link down.
RetxCtrlMsgExpires(n) ==
  LET i == iface[n] IN
  \E s \in DOMAIN i.queue :
    IF Cardinality(i.queue[s].sns) > MaxRetxAttempt
    THEN Does(n, GiveUp(i, s))
    ELSE Does(n, Resend(i, s))

Next == \E n \in Peers : \/ PeriodicProbeMsg(n)
                         \/ WifiPowerLow(n) \/ WifiPowerHigh(n)
                         \/ MeasureCycleEnd(n)
                         \/ ReceiveDlSplitWeightAction(n)
                         \/ RecvCtrlMsg(n)
                         \/ RetxCtrlMsgExpires(n)

Spec == Init /\ [][Next]_vars

-----------------------------------------------------------------------------
(* Properties                                                              *)

Headers == [type : {"probe"}, sn : Nat, cid : Cids]
             \cup [type : {"tsu"}, sn : Nat, cid : Cids, split : [Cids -> Nat]]

Items == [header : Headers, sns : SUBSET Nat]

Messages == [type : {"probe"}, sn : Nat, cid : Cids, wifiUp : BOOLEAN]
              \cup [type : {"tsu"}, sn : Nat, cid : Cids, split : [Cids -> Nat], wifiUp : BOOLEAN]
              \cup [type : {"ack", "tsa"}, sn : Nat, cid : Cids]

InterfaceOK(i) ==
  /\ i.ls \in LinkStates
  /\ i.split = NoSplit \/ i.split \in [Cids -> Nat]
  /\ i.told = NoSplit \/ i.told \in [Cids -> Nat]
  /\ {i.burst, i.csn, i.maxTsu, i.maxTsa, i.maxMap} \subseteq 0 .. 65535
  /\ i.algorithm \in {"Delay", "RlSplit"}
  /\ DOMAIN i.queue \subseteq Nat /\ \A s \in DOMAIN i.queue : i.queue[s] \in Items
  /\ {i.marking, i.measuring} \subseteq BOOLEAN
  /\ i.power \in {0, 1}

\* The variables have their types.
TypeOK == /\ DOMAIN iface = Peers /\ \A n \in Peers : InterfaceOK(iface[n])
          /\ DOMAIN net = Peers /\ \A n \in Peers : net[n] \subseteq Messages

Requests == {"probe", "tsu"}

\* A control sequence number belongs to one message: "all mesasges, new or
\* retx should have a unique sn" (gma-virtual-interface.cc, SendCtrlMsg).
\* The numbers of the messages waiting for an answer, each in all its
\* transmissions, are used and disjoint.
UniqueNumbers ==
  \A n \in Peers :
    LET q == iface[n].queue IN
    /\ \A s \in DOMAIN q : s \in q[s].sns /\ q[s].sns \subseteq 0 .. iface[n].csn - 1
    /\ \A s, t \in DOMAIN q : s # t => q[s].sns \cap q[t].sns = {}

\* An answer finds the message it answers, or none because that was settled or
\* given up before: never a message of another kind.
AnswersMatch ==
  \A n \in Peers : \A m \in net[n], s \in DOMAIN iface[n].queue :
    m.type \notin Requests /\ m.sn \in iface[n].queue[s].sns
      => iface[n].queue[s].header.type = IF m.type = "ack" THEN "probe" ELSE "tsu"

\* "the summation must equals the splitting burst size" (gma-rx-control.cc),
\* after any sequence of measurements, actions and link failures; and "all
\* links are empty split ratio!!" (SendCtrlMsg) is never reached.
SplitAddsUp ==
  \A n \in Peers :
    LET i == iface[n] IN
    /\ i.split # NoSplit => Burst(i.split) = i.burst
    /\ \A s \in DOMAIN i.queue : i.queue[s].header.type = "tsu" => Burst(i.queue[s].header.split) > 0

\* When a link goes down for any reason while another one is up, the decision
\* that is remembered gives it nothing any more.
FailedLinkShedsShare ==
  [][\A n \in Peers, c \in Cids :
       LET before == iface[n]   after == iface'[n] IN
       IsLinkUp(before.ls, c) /\ ~IsLinkUp(after.ls, c) /\ UpLinks(after.ls) # {}
         => after.split = NoSplit \/ after.split[c] = 0]_vars

\* Whenever the set of links that are up changes, for one of three overlapping
\* reasons, and is not empty, the default links are among them afterwards.
DefaultsFollowLinks ==
  [][\A n \in Peers :
       LET before == UpLinks(iface[n].ls)   after == UpLinks(iface'[n].ls) IN
       after \notin {before, {}} => {iface'[n].ls.high, iface'[n].ls.low} \subseteq after]_vars

\* Measurement is off only between a TSU and its answer: "MeasureCycleStartByTsa
\* will be triggered by a tsu msg" (measurement-manager.cc).
MeasurementAwaitsTsa ==
  \A n \in RxMode :
    iface[n].measuring \/ \E s \in DOMAIN iface[n].queue : iface[n].queue[s].header.type = "tsu"

=============================================================================
