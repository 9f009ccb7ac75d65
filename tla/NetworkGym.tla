----------------------------- MODULE NetworkGym -----------------------------
(***************************************************************************)
(* Clients, server and workers together: sessions from env-start to        *)
(* env-end, with processes that are killed and restarted, simulators that  *)
(* fail, and messages that cross in transit.                               *)
(***************************************************************************)
EXTENDS Server, Client, Worker, FiniteSets

CONSTANTS
    Idle, Absent,   \* the other states of a worker in WorkerPool
    Faults          \* the disturbances of an instance, a subset of AllFaults

\* "quit": clients are killed and restarted.  "kill": workers are killed and
\* restarted.  "crash": simulators fail.  "silence": hellos are 60 s late.
\* "slow": an answer takes longer than the 60 s a client waits, or an action
\* longer than MaxActionWaitTime.  "crossing":
\* an env-hello is in transit while a client is served (hellos are 5 s apart).
AllFaults == {"quit", "kill", "crash", "silence", "slow", "crossing"}

ASSUME NetworkGymAssumption ==
    /\ Idle # Absent
    /\ {Idle, Absent} \cap Clients = {}
    /\ Faults \subseteq AllFaults
    /\ IsFiniteSet(Workers)
    /\ TotalSteps = StepsPerEpisode * Episodes

allVars == <<serverVars, channelVars, clientVars, workerVars>>

-----------------------------------------------------------------------------

ServerHears(w) ==
    /\ fromWorker[w] # <<>>
    /\ FromWorker(w, Head(fromWorker[w]))
    /\ fromWorker' = [fromWorker EXCEPT ![w] = Tail(@)]
    /\ UNCHANGED <<clientVars, workerPc, simClient, waitCounter, simError>>

HelloInTransit ==
    \E w \in Workers : fromWorker[w] # <<>> /\ Head(fromWorker[w]).type = "env-hello"

ServerServes(c) ==
    /\ toServer[c] # <<>>
    /\ "crossing" \in Faults \/ ~HelloInTransit
    /\ FromClient(c, Head(toServer[c]))
    /\ toServer' = [toServer EXCEPT ![c] = Tail(@)]
    /\ UNCHANGED <<clientPc, episode, step, statsTs, launches, workerVars>>

ServerStep ==
    \/ \E w \in Workers : ServerHears(w)
    \/ \E c \in Clients : ServerServes(c)

ClientStep(c) ==
    /\ \/ ClientRuns(c)
       \/ Start(c)
       \/ "quit" \in Faults /\ Quit(c)
       \/ "slow" \in Faults /\ RecvTimeout(c)
    /\ UNCHANGED <<serverVars, workerVars>>

WorkerStep(w) ==
    /\ \/ WorkerRuns(w)
       \/ Boot(w)
       \/ ("crossing" \in Faults \/ ~HelloInTransit) /\ HelloAgain(w)
       \/ "slow" \in Faults /\ ActionTimeout(w)
       \/ "kill" \in Faults /\ Kill(w)
       \/ "crash" \in Faults /\ SimCrashes(w)
    /\ UNCHANGED <<serverVars, clientVars>>

Silence(w) ==
    /\ "silence" \in Faults
    /\ HelloTimeout(w)
    /\ UNCHANGED <<clientVars, workerVars>>

Init == ServerInit /\ ChannelsInit /\ ClientInit /\ WorkerInit

Next ==
    \/ ServerStep
    \/ \E c \in Clients : ClientStep(c)
    \/ \E w \in Workers : WorkerStep(w) \/ Silence(w)

Spec == Init /\ [][Next]_allVars

\* The server thread serves every socket that has a message; a process that
\* can run does run, a timer that is not overtaken expires.  Nobody has to
\* start a client or a worker, kill a process or crash.  Every iteration of the
\* server's loop looks at both sockets, so requests are not starved by the
\* hellos that arrive every 5 s: strong fairness, as a hello in transit
\* disables ServerServes in an instance without "crossing".
Fairness ==
    /\ \A w \in Workers : WF_allVars(ServerHears(w))
    /\ \A c \in Clients : SF_allVars(ServerServes(c))
    /\ \A c \in Clients :
        /\ WF_allVars(ClientRuns(c) /\ UNCHANGED <<serverVars, workerVars>>)
        /\ WF_allVars("slow" \in Faults /\ RecvTimeout(c) /\ UNCHANGED <<serverVars, workerVars>>)
    /\ \A w \in Workers :
        /\ WF_allVars(WorkerRuns(w) /\ UNCHANGED <<serverVars, clientVars>>)
        /\ WF_allVars(HelloAgain(w) /\ UNCHANGED <<serverVars, clientVars>>)
        /\ WF_allVars("slow" \in Faults /\ ActionTimeout(w) /\ UNCHANGED <<serverVars, clientVars>>)

FairSpec == Spec /\ Fairness

-----------------------------------------------------------------------------
\* Properties.

\* The variables have their types.
TypeOK ==
    /\ ChannelsTypeOK
    /\ ClientTypeOK
    /\ WorkerTypeOK
    /\ clientToWorker \in Dicts(Clients, Workers)
    /\ serverUp \in BOOLEAN

\* The server thread never dies of the KeyError its env-end handler can raise:
\* no worker reports the end of a session while another client is routed to
\* it.
ServerNeverRaises == serverUp

\* Every step of the whole system is a step of the server among arbitrary
\* peers, so whatever holds of Broker holds here.
Peers == INSTANCE Broker WITH Connecting <- Clients \cup Workers
ImplementsBroker == Peers!Spec

\* Actions and requests reach the worker of the client that sent them, and no
\* other: a worker is only ever sent what its own client said.
WorkerHearsItsClient == Peers!WorkerHearsItsClient

\* What travels for client c: requests, answers, and the simulator that works
\* on its next measurement.
OfClient(q, types, c) ==
    Cardinality({i \in 1..Len(q) : q[i].type \in types /\ q[i].client = c})

AtWorker(c, w) ==
    OfClient(toWorker[w], {"env-start", "env-action"}, c)
    + OfClient(fromWorker[w], {"env-measurement", "env-error"}, c)
    + (IF simClient[w] = c /\ workerPc[w] \in {"launch", "run"} THEN 1 ELSE 0)

\* The things at the workers are counted as pairs of a worker and a number.
InFlight(c) ==
    Len(toServer[c]) + Len(toClient[c])
    + Cardinality(UNION {{w} \X (1 .. AtWorker(c, w)) : w \in Workers})

\* Request and answer alternate: while a client waits exactly one thing is
\* under way for it, and while its agent thinks nothing is.  The message is
\* never lost, duplicated, or answered by two workers.
OneAnswerPerRequest ==
    \A c \in Clients : InFlight(c) = IF clientPc[c] \in Waiting THEN 1 ELSE 0

\* While the agent thinks, its simulator waits for the action that belongs to
\* the very measurement the agent is looking at.
LockStep ==
    \A c \in Clients : clientPc[c] = "think" =>
        \E w \in Workers :
            /\ clientToWorker[c] = w
            /\ simClient[w] = c
            /\ workerPc[w] = "wait"
            /\ statsTs[c] = waitCounter[w] + 1

\* Without disturbances no simulation fails.
NoSimulationFails == \A w \in Workers : ~simError[w]

\* Every session that is started ends.
SessionEnds == \A c \in Clients : clientPc[c] # "off" ~> clientPc[c] = "off"

\* A worker that is dedicated to a client becomes idle again, unless it is killed
\* for good or time and again: a killed worker that is started again is taken
\* back although the server never noticed, as busy workers have no timeout.
WorkerReturns ==
    \A w \in Workers :
        <>[](workerPc[w] # "dead") =>
            (w \in Values(clientToWorker) ~> w \in DOMAIN availableWorkers)

=============================================================================
