------------------------------ MODULE Roaming ------------------------------
(***************************************************************************)
(* Roaming of a client between Wi-Fi access points (phy-access-control.cc  *)
(* and the parts of gma-protocol.cc and gma-virtual-interface.cc that call *)
(* it).  The client hears the power of every access point and sends probes *)
(* all the time.  Sending a probe looks for a better access point:         *)
(*                                                                         *)
(*   - with two radios the probe goes over the better one as a test, and   *)
(*     the client moves when the test is answered within a second;         *)
(*   - it moves without a test when its own signal is too weak;            *)
(*   - with a single radio (SimulateLinkDownTime > 0) it stays while its   *)
(*     signal is good enough, moves at once otherwise, and drops all that  *)
(*     it sends and receives while the radio is set up again.              *)
(*                                                                         *)
(* The server (the GMA router) learns the client's address from the        *)
(* address a probe comes from, unless the probe is a test.  Access points  *)
(* stand for the pairs of addresses of the client and the router there, so *)
(* m_ipAddr of the client is its current access point and m_ipAddr of the  *)
(* server is route.                                                        *)
(*                                                                         *)
(* Messages may be lost and overtake each other, over one access point and *)
(* over several.  A retransmission is a probe with a number of its own;    *)
(* which numbers belong to one message is the matter of GmaControl.        *)
(***************************************************************************)
EXTENDS Integers, FiniteSets

CONSTANTS APs,          \* ids of the access points
          Levels,       \* powers that can be reported, in dBm
          LowRssi,      \* m_roamingLowRssi
          RoamThresh,   \* WIFI_ROAMING_RSSI_THRESH
          MaxProbes,    \* bound: probes and their answers in flight
          MaxTimers,    \* bound: timers of tests that run
          MaxEvents     \* bound: changes of the power and losses

ASSUME RoamingAssumption ==
  /\ APs \subseteq Nat /\ APs # {} /\ IsFiniteSet(APs)
  /\ Levels \subseteq Int /\ Levels # {}
  /\ LowRssi \in Int /\ RoamThresh \in Nat
  /\ MaxProbes \in Nat \ {0} /\ MaxTimers \in Nat \ {0} /\ MaxEvents \in Nat

VARIABLES single,     \* the client has a single radio, for the whole run
          rssi,       \* m_idToRssiMap of the client
          cur,        \* m_currentApId of the client, and its m_ipAddr
          best,       \* m_bestApId of the client
          test,       \* m_testProbeSn of the test that waits, or NoTest
          timers,     \* timers of TestProbeTimeout that run
          cDown,      \* the client's radio is being set up
          sDown,      \* the server treats the client's radio so
          up,         \* the client's Wi-Fi link is up for control messages
          sUp,        \* the server's Wi-Fi link is
          route,      \* m_ipAddr of the server: where it sends
          toServer,   \* messages on their way to the server
          toClient,   \* messages on their way to the client
          events

clientVars == <<cur, best, test, timers, cDown, up>>
serverVars == <<sDown, sUp, route>>
vars == <<single, rssi, clientVars, serverVars, toServer, toClient, events>>

NoTest == 0
Numbers == 1 .. MaxProbes + 1

\* A probe of the client and its answer carry a number, those of the server
\* need none: one is on its way at a time.
Probe(sn, ap, t) == [kind |-> "probe", sn |-> sn, ap |-> ap, test |-> t]
Ack(sn, ap) == [kind |-> "ack", sn |-> sn, ap |-> ap, test |-> FALSE]
Own(kind, ap) == [kind |-> kind, sn |-> 0, ap |-> ap, test |-> FALSE]

ToServer == {Probe(sn, ap, t) : sn \in Numbers, ap \in APs, t \in BOOLEAN}
            \cup {Own("ack", ap) : ap \in APs}
ToClient == {Ack(sn, ap) : sn \in Numbers, ap \in APs}
            \cup {Own("probe", ap) : ap \in APs}

\* Numbers only grow, so one that is under way or waited for is not used
\* again.
InFlight == {m.sn : m \in toServer \cup toClient} \ {0}
FreshNumbers == Numbers \ (InFlight \cup {test})

\* The links are added with the client at an access point near it, whose id
\* and address both sides are given.
ClientInit ==
  /\ cur \in APs /\ best = cur
  /\ test = NoTest /\ timers = 0
  /\ cDown = FALSE /\ up = TRUE

ServerInit == route = cur /\ sDown = FALSE /\ sUp = TRUE

\* Every access point has been heard.
Init ==
  /\ single \in BOOLEAN
  /\ rssi \in [APs -> Levels]
  /\ ClientInit /\ ServerInit
  /\ toServer = {} /\ toClient = {}
  /\ events = 0

----------------------------------------------------------------------------
ReportRssi(a, p) == rssi' = [rssi EXCEPT ![a] = p]

\* A beacon of an access point comes with another power than the last one.
MonitorSniffRx(a, p) ==
  /\ events < MaxEvents
  /\ p # rssi[a]
  /\ ReportRssi(a, p)
  /\ events' = events + 1
  /\ UNCHANGED <<single, clientVars, serverVars, toServer, toClient>>

\* The first access point with the highest power.
Strongest(a) ==
  /\ \A b \in APs : rssi[b] <= rssi[a]
  /\ \A b \in APs : rssi[b] = rssi[a] => a <= b

Stays == single /\ rssi[cur] > LowRssi

Better(a) == Strongest(a) /\ a # cur /\ rssi[a] > rssi[cur] + RoamThresh

\* m_bestApId after ScanRssi: what it was, when nothing is better.
ScanRssi(b) ==
  IF ~Stays /\ \E a \in APs : Better(a) THEN Better(b) ELSE b = best

MovesAtOnce(b) == b # cur /\ (single \/ rssi[cur] < LowRssi)
MustTest(b) == b # cur /\ ~MovesAtOnce(b)

\* SendByCidNow after a move: with a single radio the link is down until an
\* answer comes.
LinkDown == cDown' = single /\ up' = (up /\ ~single)

\* SendPacket of a probe that moves the client: the probe goes over the new
\* access point.
SendAndMove(sn) ==
  \E b \in APs :
    /\ ScanRssi(b) /\ MovesAtOnce(b)
    /\ cur' = b /\ best' = b
    /\ LinkDown
    /\ toServer' = toServer \cup {Probe(sn, b, FALSE)}
    /\ UNCHANGED <<test, timers>>

\* SendPacket of a probe that becomes a test.
SendTest(sn) ==
  \E b \in APs :
    /\ ScanRssi(b) /\ MustTest(b) /\ test = NoTest
    /\ timers < MaxTimers
    /\ best' = b
    /\ test' = sn
    /\ timers' = timers + 1
    /\ toServer' = toServer \cup {Probe(sn, b, TRUE)}
    /\ UNCHANGED <<cur, cDown, up>>

\* SendPacket of a probe otherwise; the search may still change m_bestApId
\* while a test waits.
SendNormal(sn) ==
  \E b \in APs :
    /\ ScanRssi(b)
    /\ b = cur \/ (MustTest(b) /\ test # NoTest)
    /\ best' = b
    /\ toServer' = toServer \cup {Probe(sn, cur, FALSE)}
    /\ UNCHANGED <<cur, test, timers, cDown, up>>

\* PeriodicProbeMsg, or a retransmission.
SendProbe ==
  /\ ~cDown
  /\ Cardinality(InFlight) < MaxProbes
  /\ \E sn \in FreshNumbers :
       /\ \A k \in FreshNumbers : sn <= k
       /\ SendAndMove(sn) \/ SendTest(sn) \/ SendNormal(sn)
  /\ UNCHANGED <<single, rssi, serverVars, toClient, events>>

\* The server's own probes go where it sends everything.
ServerProbes ==
  /\ ~sDown
  /\ \A m \in toServer \cup toClient : m.sn # 0
  /\ toClient' = toClient \cup {Own("probe", route)}
  /\ UNCHANGED <<single, rssi, clientVars, serverVars, toServer, events>>

----------------------------------------------------------------------------
\* The server is told the address of the client: with a single radio that
\* begins the time in which everything is dropped.
AddPhyLink(ap) ==
  /\ route' = ap
  /\ sDown' = (sDown \/ (single /\ route # ap))
  /\ sUp' = (sUp /\ ~(single /\ route # ap))

\* Mutant: the flag read the wrong way round.
VirtualRecvTests(m) ==
  IF m.test THEN AddPhyLink(m.ap) ELSE UNCHANGED serverVars

\* A probe that is no test sets the address.
VirtualRecv(m) ==
  IF m.test THEN UNCHANGED serverVars ELSE AddPhyLink(m.ap)

\* ReceiveOk, with the values after AddPhyLink: the probe that changes the
\* address of a single radio is the first that is dropped.
ServerAccepts(ap) == single => (ap = route' /\ ~sDown')

ServerReceivesProbe(m) ==
  /\ m \in toServer /\ m.kind = "probe"
  /\ VirtualRecv(m)
  /\ toServer' = toServer \ {m}
  /\ toClient' = IF ServerAccepts(m.ap)
                   THEN toClient \cup {Ack(m.sn, m.ap)} ELSE toClient
  /\ UNCHANGED <<single, rssi, clientVars, events>>

ServerReceivesAck(m) ==
  /\ m \in toServer /\ m.kind = "ack"
  /\ UNCHANGED <<route, sDown>>
  /\ sUp' = (sUp \/ ServerAccepts(m.ap))
  /\ toServer' = toServer \ {m}
  /\ UNCHANGED <<single, rssi, clientVars, toClient, events>>

\* ReceiveOk of the client.
ClientAccepts(ap) == single => (ap = cur /\ ~cDown)

\* RecvCtrlMsg of the client: ProbeAcked moves it to m_bestApId when the test
\* is answered, and the answer brings the link up (CtrlMsgUp).
ProbeAcked(sn) ==
  IF test # NoTest /\ sn = test
    THEN cur' = best /\ test' = NoTest
    ELSE UNCHANGED <<cur, test>>

ClientReceivesAck(m) ==
  /\ m \in toClient /\ m.kind = "ack"
  /\ IF ClientAccepts(m.ap)
       THEN ProbeAcked(m.sn) /\ up' = TRUE
       ELSE UNCHANGED <<cur, test, up>>
  /\ toClient' = toClient \ {m}
  /\ UNCHANGED <<single, rssi, best, timers, cDown, serverVars, toServer,
                 events>>

\* The server has no power reports, so its probes are marked as tests and
\* answered to the address they came from.
ClientReceivesProbe(m) ==
  /\ m \in toClient /\ m.kind = "probe"
  /\ toServer' = IF ClientAccepts(m.ap)
                   THEN toServer \cup {Own("ack", m.ap)} ELSE toServer
  /\ toClient' = toClient \ {m}
  /\ UNCHANGED <<single, rssi, clientVars, serverVars, events>>

----------------------------------------------------------------------------
\* Mutants: a timeout that forgets m_bestApId, and one that forgets
\* m_testProbeAcked.
TimeoutKeepsBest ==
  /\ timers > 0
  /\ timers' = timers - 1
  /\ test' = NoTest
  /\ UNCHANGED <<single, rssi, cur, best, cDown, up, serverVars, toServer,
                 toClient, events>>

TimeoutKeepsWaiting ==
  /\ timers > 0
  /\ timers' = timers - 1
  /\ best' = IF test # NoTest THEN cur ELSE best
  /\ UNCHANGED <<single, rssi, cur, test, cDown, up, serverVars, toServer,
                 toClient, events>>

\* A timer of a test is never cancelled: it ends the test that waits, also
\* when that is a later one.
TestProbeTimeout ==
  /\ timers > 0
  /\ timers' = timers - 1
  /\ IF test # NoTest THEN best' = cur /\ test' = NoTest
                      ELSE UNCHANGED <<best, test>>
  /\ UNCHANGED <<single, rssi, cur, cDown, up, serverVars, toServer, toClient,
                 events>>

ClientRadioReady ==
  /\ cDown
  /\ cDown' = FALSE
  /\ UNCHANGED <<single, rssi, cur, best, test, timers, up, serverVars,
                 toServer, toClient, events>>

ServerRadioReady ==
  /\ sDown
  /\ sDown' = FALSE
  /\ UNCHANGED <<single, rssi, clientVars, sUp, route, toServer, toClient,
                 events>>

\* A message is lost.  A message of the client that is lost too often takes
\* its link down, one of the server the server's (RetxCtrlMsgExpires).
Lose(m) ==
  /\ events < MaxEvents
  /\ events' = events + 1
  /\ toServer' = toServer \ {m}
  /\ toClient' = toClient \ {m}
  /\ IF m.sn # 0 THEN up' \in {up, FALSE} /\ UNCHANGED sUp
                 ELSE sUp' \in {sUp, FALSE} /\ UNCHANGED up
  /\ UNCHANGED <<single, rssi, cur, best, test, timers, cDown, sDown, route>>

Receive(m) ==
  \/ ServerReceivesProbe(m) \/ ServerReceivesAck(m)
  \/ ClientReceivesAck(m) \/ ClientReceivesProbe(m)

Next ==
  \/ \E a \in APs, p \in Levels : MonitorSniffRx(a, p)
  \/ SendProbe
  \/ ServerProbes
  \/ \E m \in toServer \cup toClient : Receive(m) \/ Lose(m)
  \/ TestProbeTimeout
  \/ ClientRadioReady
  \/ ServerRadioReady

\* The answer to the test that waits, and the test itself.
TestArrives ==
  \E m \in toServer : m.test /\ m.sn = test /\ ServerReceivesProbe(m)
AnswerArrives ==
  \E m \in toClient : m.sn = test /\ ClientReceivesAck(m)

\* One message with a number is under way at a time: a probe or its answer.
Arrives(sn) == \E m \in toServer \cup toClient : m.sn = sn /\ Receive(m)

\* Probes are sent every second, timers expire, and a message that is not
\* lost arrives.  A test can be ended by the timer of the one before it, but
\* of two tests in a row one has half a second: when a round trip takes less
\* some test is answered in time.
Fairness ==
  /\ WF_vars(SendProbe) /\ WF_vars(ServerProbes)
  /\ \A sn \in Numbers \cup {0} : WF_vars(Arrives(sn))
  /\ WF_vars(TestProbeTimeout)
  /\ WF_vars(ClientRadioReady) /\ WF_vars(ServerRadioReady)
  /\ SF_vars(TestArrives) /\ SF_vars(AnswerArrives)

Spec == Init /\ [][Next]_vars
FairSpec == Spec /\ Fairness

----------------------------------------------------------------------------
TypeOK ==
  /\ single \in BOOLEAN /\ rssi \in [APs -> Levels]
  /\ cur \in APs /\ best \in APs /\ route \in APs
  /\ test \in Numbers \cup {NoTest} /\ timers \in 0 .. MaxTimers
  /\ cDown \in BOOLEAN /\ sDown \in BOOLEAN /\ up \in BOOLEAN /\ sUp \in BOOLEAN
  /\ toServer \subseteq ToServer /\ toClient \subseteq ToClient
  /\ events \in 0 .. MaxEvents

\* The client has another access point in mind only while a test waits, and a
\* test that waits has a timer that ends it: m_bestApId is never left behind,
\* though ScanRssi does not reset it when the better access point is gone and
\* timers outlive their tests.  A single radio never tests, and it is set up
\* for the one access point it uses.
TestHasEnd ==
  /\ best # cur => test # NoTest
  /\ test # NoTest => timers > 0
  /\ single => test = NoTest
  /\ cDown \/ sDown => single

\* Both, as an inductive invariant.
IInv == TypeOK /\ TestHasEnd

GoodEnough ==
  \/ single /\ rssi[cur] > LowRssi
  \/ \A a \in APs : rssi[a] <= rssi[cur] + RoamThresh

\* Once the powers no longer change the client is at an access point that is
\* good enough: neither late answers nor timers of earlier tests keep it from
\* getting there or drive it away again.
StrongestIsUsed == <>[]GoodEnough

\* In the end the server sends to the access point the client is at and both
\* use the link, though an old probe that arrives late sets the address back
\* and the probe that sets it is dropped by a server that expects the radio
\* to be down.
RouteFollows == <>[](route = cur /\ up /\ sUp)

\* "acked. we can change to the new AP" (phy-access-control.cc:186): the
\* client moves to an access point after its test was answered from there.
SwitchIsTested ==
  [][\A m \in toClient :
       m.sn = test /\ m \notin toClient' /\ cur' # cur => cur' = m.ap]_vars
=============================================================================
