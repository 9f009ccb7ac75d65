--------------------------- MODULE Roaming_proofs ---------------------------
(***************************************************************************)
(* For any set of access points, any powers and thresholds and any bounds: *)
(* the client has another access point in mind only while a test waits,    *)
(* and a test that waits has a timer that ends it.                         *)
(***************************************************************************)
EXTENDS Roaming, TLAPS

\* NoTest is no number of a probe.
LEMMA NumbersArePositive == NoTest \notin Numbers /\ FreshNumbers \subseteq Numbers
<1>1. NoTest \notin Numbers
  BY RoamingAssumption DEF NoTest, Numbers
<1>2. FreshNumbers \subseteq Numbers
  BY DEF FreshNumbers
<1> QED BY <1>1, <1>2

\* What both sides send has the type of what is on its way.
LEMMA ProbesTyped ==
  ASSUME NEW sn \in Numbers, NEW ap \in APs, NEW t \in BOOLEAN
  PROVE  Probe(sn, ap, t) \in ToServer
  BY DEF ToServer

LEMMA OwnAcksTyped ==
  ASSUME NEW ap \in APs
  PROVE  Own("ack", ap) \in ToServer
  BY DEF ToServer

LEMMA ToClientHasAP ==
  ASSUME NEW m \in ToClient
  PROVE  m.ap \in APs
  BY DEF ToClient, Ack, Own

LEMMA InitEstablishes == Init => IInv
<1> SUFFICES ASSUME Init PROVE IInv
  OBVIOUS
<1>1. timers \in 0 .. MaxTimers /\ events \in 0 .. MaxEvents
  BY RoamingAssumption DEF Init, ClientInit
<1>2. TypeOK
  BY <1>1 DEF Init, ClientInit, ServerInit, TypeOK
<1>3. TestHasEnd
  BY DEF Init, ClientInit, ServerInit, TestHasEnd
<1> QED BY <1>2, <1>3 DEF IInv


\* SendPacket: the client's part of the invariant, whichever of the three it
\* does with a probe.
LEMMA SendKeeps == IInv /\ SendProbe => IInv'
<1> SUFFICES ASSUME IInv, SendProbe PROVE IInv'
  OBVIOUS
<1> USE DEF IInv
<1>1. PICK sn \in FreshNumbers : SendAndMove(sn) \/ SendTest(sn) \/ SendNormal(sn)
  BY DEF SendProbe
<1>2. sn \in Numbers /\ sn # NoTest
  BY <1>1, NumbersArePositive
<1>3. UNCHANGED <<single, rssi, serverVars, toClient, events>>
  BY DEF SendProbe
<1>4. CASE SendAndMove(sn)
  <2>1. PICK b \in APs :
          /\ cur' = b /\ best' = b /\ LinkDown
          /\ toServer' = toServer \cup {Probe(sn, b, FALSE)}
          /\ UNCHANGED <<test, timers>>
    BY <1>4 DEF SendAndMove
  <2>2. Probe(sn, b, FALSE) \in ToServer
    BY <1>2, ProbesTyped
  <2>3. TypeOK'
    BY <1>3, <2>1, <2>2 DEF TypeOK, serverVars, LinkDown
  <2>4. TestHasEnd'
    BY <1>3, <2>1 DEF TestHasEnd, TypeOK, serverVars, LinkDown
  <2> QED BY <2>3, <2>4
<1>5. CASE SendTest(sn)
  <2>1. PICK b \in APs :
          /\ MustTest(b) /\ timers < MaxTimers
          /\ best' = b /\ test' = sn /\ timers' = timers + 1
          /\ toServer' = toServer \cup {Probe(sn, b, TRUE)}
          /\ UNCHANGED <<cur, cDown, up>>
    BY <1>5 DEF SendTest
  <2>2. Probe(sn, b, TRUE) \in ToServer
    BY <1>2, ProbesTyped
  <2>3. timers' \in 0 .. MaxTimers /\ timers' > 0
    BY <2>1, RoamingAssumption DEF TypeOK
  <2>4. ~single
    BY <2>1 DEF MustTest, MovesAtOnce
  <2>5. TypeOK'
    BY <1>2, <1>3, <2>1, <2>2, <2>3 DEF TypeOK, serverVars
  <2>6. TestHasEnd'
    BY <1>2, <1>3, <2>1, <2>3, <2>4 DEF TestHasEnd, serverVars
  <2> QED BY <2>5, <2>6
<1>6. CASE SendNormal(sn)
  <2>1. PICK b \in APs :
          /\ b = cur \/ test # NoTest
          /\ best' = b
          /\ toServer' = toServer \cup {Probe(sn, cur, FALSE)}
          /\ UNCHANGED <<cur, test, timers, cDown, up>>
    BY <1>6 DEF SendNormal
  <2>2. Probe(sn, cur, FALSE) \in ToServer
    BY <1>2, ProbesTyped DEF TypeOK
  <2>3. TypeOK'
    BY <1>3, <2>1, <2>2 DEF TypeOK, serverVars
  <2>4. TestHasEnd'
    BY <1>3, <2>1 DEF TestHasEnd, serverVars
  <2> QED BY <2>3, <2>4
<1> QED BY <1>1, <1>4, <1>5, <1>6

\* What arrives, at either side.
LEMMA ReceiveKeeps ==
  ASSUME IInv, NEW m \in toServer \cup toClient, Receive(m)
  PROVE  IInv'
<1> USE DEF IInv
<1>1. CASE ServerReceivesProbe(m)
  <2>1. m \in ToServer /\ m.kind = "probe"
    BY <1>1 DEF ServerReceivesProbe, TypeOK
  <2>2. m.sn \in Numbers /\ m.ap \in APs
    BY <2>1 DEF ToServer, Probe, Own
  <2>3. Ack(m.sn, m.ap) \in ToClient
    BY <2>2 DEF ToClient
  <2>4. /\ route' \in APs /\ sDown' \in BOOLEAN /\ sUp' \in BOOLEAN
        /\ sDown' => sDown \/ single
    BY <1>1, <2>2 DEF ServerReceivesProbe, VirtualRecv, AddPhyLink, serverVars,
                      TypeOK
  <2>5. toServer' \subseteq ToServer /\ toClient' \subseteq ToClient
    BY <1>1, <2>3 DEF ServerReceivesProbe, TypeOK
  <2>6. UNCHANGED <<single, rssi, clientVars, events>>
    BY <1>1 DEF ServerReceivesProbe
  <2>7. TypeOK'
    BY <2>4, <2>5, <2>6 DEF TypeOK, clientVars
  <2>8. TestHasEnd'
    BY <2>4, <2>6 DEF TestHasEnd, clientVars
  <2> QED BY <2>7, <2>8
<1>2. CASE ServerReceivesAck(m)
  BY <1>2 DEF ServerReceivesAck, TypeOK, TestHasEnd, clientVars
<1>3. CASE ClientReceivesAck(m)
  <2>1. \/ cur' = best /\ test' = NoTest
        \/ UNCHANGED <<cur, test>>
    BY <1>3 DEF ClientReceivesAck, ProbeAcked
  <2>2. up' \in BOOLEAN
    BY <1>3 DEF ClientReceivesAck, TypeOK
  <2>3. /\ toClient' = toClient \ {m}
        /\ UNCHANGED <<single, rssi, best, timers, cDown, serverVars, toServer,
                       events>>
    BY <1>3 DEF ClientReceivesAck
  <2>4. TypeOK'
    BY <2>1, <2>2, <2>3 DEF TypeOK, serverVars
  <2>5. TestHasEnd'
    BY <2>1, <2>3 DEF TestHasEnd, serverVars
  <2> QED BY <2>4, <2>5
<1>4. CASE ClientReceivesProbe(m)
  <2>1. m \in ToClient
    BY <1>4 DEF ClientReceivesProbe, TypeOK
  <2>2. Own("ack", m.ap) \in ToServer
    BY <2>1, ToClientHasAP, OwnAcksTyped
  <2>3. TypeOK'
    BY <1>4, <2>2 DEF ClientReceivesProbe, TypeOK, clientVars, serverVars
  <2>4. TestHasEnd'
    BY <1>4 DEF ClientReceivesProbe, TestHasEnd, clientVars, serverVars
  <2> QED BY <2>3, <2>4
<1> QED BY <1>1, <1>2, <1>3, <1>4 DEF Receive

LEMMA LoseKeeps ==
  ASSUME IInv, NEW m \in toServer \cup toClient, Lose(m)
  PROVE  IInv'
<1>1. up' \in BOOLEAN /\ sUp' \in BOOLEAN
  BY DEF Lose, IInv, TypeOK
<1>2. events' \in 0 .. MaxEvents
  BY RoamingAssumption DEF Lose, IInv, TypeOK
<1>3. TypeOK'
  BY <1>1, <1>2 DEF Lose, IInv, TypeOK
<1>4. TestHasEnd'
  BY DEF Lose, IInv, TestHasEnd
<1> QED BY <1>3, <1>4 DEF IInv

\* The timer of some test expires: nothing is left in mind.
LEMMA TimeoutKeeps == IInv /\ TestProbeTimeout => IInv'
<1> SUFFICES ASSUME IInv, TestProbeTimeout PROVE IInv'
  OBVIOUS
<1>1. test' = NoTest /\ best' = cur
  BY DEF TestProbeTimeout, IInv, TestHasEnd
<1>2. timers' \in 0 .. MaxTimers
  BY RoamingAssumption DEF TestProbeTimeout, IInv, TypeOK
<1>3. TypeOK'
  BY <1>1, <1>2 DEF TestProbeTimeout, IInv, TypeOK, serverVars
<1>4. TestHasEnd'
  BY <1>1 DEF TestProbeTimeout, IInv, TestHasEnd, serverVars
<1> QED BY <1>3, <1>4 DEF IInv

LEMMA BeaconKeeps ==
  ASSUME IInv, NEW a \in APs, NEW p \in Levels, MonitorSniffRx(a, p)
  PROVE  IInv'
<1>1. events' \in 0 .. MaxEvents
  BY RoamingAssumption DEF MonitorSniffRx, IInv, TypeOK
<1>2. rssi' \in [APs -> Levels]
  BY DEF MonitorSniffRx, ReportRssi, IInv, TypeOK
<1> QED
  BY <1>1, <1>2 DEF MonitorSniffRx, IInv, TypeOK, TestHasEnd, clientVars,
                    serverVars

LEMMA ServerProbesKeeps == IInv /\ ServerProbes => IInv'
<1> SUFFICES ASSUME IInv, ServerProbes PROVE IInv'
  OBVIOUS
<1>1. Own("probe", route) \in ToClient
  BY DEF IInv, TypeOK, ToClient
<1> QED
  BY <1>1 DEF ServerProbes, IInv, TypeOK, TestHasEnd, clientVars, serverVars

LEMMA NextKeeps == IInv /\ [Next]_vars => IInv'
<1> SUFFICES ASSUME IInv, [Next]_vars PROVE IInv'
  OBVIOUS
<1>1. CASE \E a \in APs, p \in Levels : MonitorSniffRx(a, p)
  BY <1>1, BeaconKeeps
<1>2. CASE SendProbe
  BY <1>2, SendKeeps
<1>3. CASE ServerProbes
  BY <1>3, ServerProbesKeeps
<1>4. CASE \E m \in toServer \cup toClient : Receive(m) \/ Lose(m)
  BY <1>4, ReceiveKeeps, LoseKeeps
<1>5. CASE TestProbeTimeout
  BY <1>5, TimeoutKeeps
<1>6. CASE ClientRadioReady
  BY <1>6 DEF ClientRadioReady, IInv, TypeOK, TestHasEnd, serverVars
<1>7. CASE ServerRadioReady
  BY <1>7 DEF ServerRadioReady, IInv, TypeOK, TestHasEnd, clientVars
<1>8. CASE UNCHANGED vars
  BY <1>8 DEF vars, IInv, TypeOK, TestHasEnd, clientVars, serverVars
<1> QED
  BY <1>1, <1>2, <1>3, <1>4, <1>5, <1>6, <1>7, <1>8 DEF Next

\* The inductive invariant: the state has its type, the client has another
\* access point in mind only while a test waits (phy-access-control.cc:191,
\* 209), and a test that waits has a timer that ends it (291).
THEOREM TestsEnd == Spec => []IInv
<1>1. Init => IInv
  BY InitEstablishes
<1>2. IInv /\ [Next]_vars => IInv'
  BY NextKeeps
<1> QED BY <1>1, <1>2, PTL DEF Spec
=============================================================================
