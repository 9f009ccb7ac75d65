------------------------------- MODULE Worker -------------------------------
(***************************************************************************)
(* The environment workers: Configure.run (configure.py) alternating with  *)
(* the ns-3 simulator it launches (network_gym_sim.py), whose traffic with *)
(* the server is DataProcessor.ExchangeMeasurementAndAction                *)
(* (data-processor.cc) over SouthboundInterface (southbound-interface.cc). *)
(* Both use one identity, in turn.                                         *)
(***************************************************************************)
EXTENDS Channels

CONSTANTS
    TotalSteps,     \* m_totalSteps
    MaxReports      \* bound: messages in transit when a worker says hello

ASSUME WorkerAssumption ==
    /\ TotalSteps \in Nat \ {0}
    /\ 1..TotalSteps \subseteq Timestamps
    /\ MaxReports \in Nat

VARIABLES
    fromWorker,     \* worker -> server queues
    workerPc,       \* "dead" (not running), "idle" (env_config connected),
                    \* "launch" (simulator starting, no socket), "run",
                    \* "wait" (for an action), "drain" (all steps done),
                    \* "down" (simulator ended, no socket)
    simClient,      \* the client identity the simulator was started for
    waitCounter,    \* m_waitCounter
    simError        \* sim_error_msg is not empty

workerVars == <<fromWorker, workerPc, simClient, waitCounter, simError>>

Simulating == {"launch", "run", "wait", "drain"}

WorkerTypeOK ==
    /\ fromWorker \in [Workers -> Seq(Message)]
    /\ workerPc \in [Workers -> Simulating \cup {"dead", "idle", "down"}]
    /\ simClient \in [Workers -> Clients \cup {NoClient}]
    /\ waitCounter \in [Workers -> 0..TotalSteps]
    /\ simError \in [Workers -> BOOLEAN]

WorkerInit ==
    /\ fromWorker = [w \in Workers |-> <<>>]
    /\ workerPc = [w \in Workers |-> "dead"]
    /\ simClient = [w \in Workers |-> NoClient]
    /\ waitCounter = [w \in Workers |-> 0]
    /\ simError = [w \in Workers |-> FALSE]

-----------------------------------------------------------------------------

Report(w, ms) == fromWorker' = [fromWorker EXCEPT ![w] = @ \o ms]

EnvHelloMsg == Msg("env-hello", NoClient)

Turn(w, pc) == workerPc' = [workerPc EXCEPT ![w] = pc]

Open(w) ==
    /\ online' = online \cup {w}
    /\ UNCHANGED <<toClient, toWorker>>

\* Mutant: what was queued for the old socket reaches the next one.
CloseKeepsQueue(w) == online' = online \ {w} /\ UNCHANGED <<toClient, toWorker>>

\* A closed socket loses what was queued for it.
Close(w) ==
    /\ online' = online \ {w}
    /\ toWorker' = [toWorker EXCEPT ![w] = <<>>]
    /\ UNCHANGED toClient

NoSimulator(w) ==
    /\ simClient' = [simClient EXCEPT ![w] = NoClient]
    /\ waitCounter' = [waitCounter EXCEPT ![w] = 0]

-----------------------------------------------------------------------------
\* Configure.run.

\* The worker process starts, connects and sends its first env-hello.
Boot(w) ==
    /\ workerPc[w] = "dead"
    /\ Len(fromWorker[w]) < MaxReports
    /\ Turn(w, "idle")
    /\ Open(w)
    /\ Report(w, <<EnvHelloMsg>>)
    /\ UNCHANGED <<simClient, waitCounter, simError>>

\* 5 s without a message: the env-hello is repeated.
HelloAgain(w) ==
    /\ workerPc[w] = "idle"
    /\ toWorker[w] = <<>>
    /\ Len(fromWorker[w]) < MaxReports
    /\ Report(w, <<EnvHelloMsg>>)
    /\ UNCHANGED <<workerPc, simClient, waitCounter, simError, channelVars>>

\* env-start for a supported environment: the socket is closed and the
\* simulator launched.
RecvStart(w) ==
    /\ workerPc[w] = "idle"
    /\ toWorker[w] # <<>>
    /\ LET m == Head(toWorker[w]) IN
        /\ m.type = "env-start"
        /\ m.env \in WorkerEnvs[w]
        /\ simClient' = [simClient EXCEPT ![w] = m.client]
    /\ Close(w)
    /\ Turn(w, "launch")
    /\ UNCHANGED <<fromWorker, waitCounter, simError>>

\* Any other message is answered with an error; the loop then says hello.
RecvUnexpected(w) ==
    /\ workerPc[w] = "idle"
    /\ toWorker[w] # <<>>
    /\ LET m == Head(toWorker[w]) IN
        /\ ~(m.type = "env-start" /\ m.env \in WorkerEnvs[w])
        /\ Report(w, <<Msg("env-error", m.client), EnvHelloMsg>>)
    /\ toWorker' = [toWorker EXCEPT ![w] = Tail(@)]
    /\ UNCHANGED <<workerPc, simClient, waitCounter, simError, online, toClient>>

Outcome(w) == Msg(IF simError[w] THEN "env-error" ELSE "env-end", simClient[w])

\* The simulator has ended: Configure reconnects, reports the outcome and is
\* back at the top of its loop, where it says hello.
ReportOutcome(w) ==
    /\ workerPc[w] = "down"
    /\ Report(w, <<Outcome(w), EnvHelloMsg>>)
    /\ Open(w)
    /\ Turn(w, "idle")
    /\ NoSimulator(w)
    /\ simError' = [simError EXCEPT ![w] = FALSE]

\* The worker process and its simulator are killed; messages that were not
\* flushed are lost.
Kill(w) ==
    /\ workerPc[w] # "dead"
    /\ \E n \in 0..Len(fromWorker[w]) :
        fromWorker' = [fromWorker EXCEPT ![w] = SubSeq(@, 1, n)]
    /\ Close(w)
    /\ Turn(w, "dead")
    /\ NoSimulator(w)
    /\ simError' = [simError EXCEPT ![w] = FALSE]

-----------------------------------------------------------------------------
\* The simulator.

SimEnds(w, failed) ==
    /\ Turn(w, "down")
    /\ simError' = [simError EXCEPT ![w] = failed]
    /\ Close(w)
    /\ UNCHANGED <<fromWorker, simClient, waitCounter>>

SimConnect(w) ==
    /\ workerPc[w] = "launch"
    /\ Open(w)
    /\ Turn(w, "run")
    /\ UNCHANGED <<fromWorker, simClient, waitCounter, simError>>

\* Mutant of LastStep.
OneStepTooFew(w) == waitCounter[w] + 2 >= TotalSteps

MeasurementTs(w) == waitCounter[w] + 1

\* "the first step is the reset function which does not need an action"
LastStep(w) == waitCounter[w] + 1 >= TotalSteps

\* A measurement is sent to the client.  After the last one no action is
\* waited for.
Measure(w) ==
    /\ workerPc[w] = "run"
    /\ Report(w, <<[Msg("env-measurement", simClient[w]) EXCEPT !.ts = MeasurementTs(w)]>>)
    /\ Turn(w, IF LastStep(w) THEN "drain" ELSE "wait")
    /\ UNCHANGED <<simClient, waitCounter, simError, channelVars>>

\* Every queued message is read.  It is fatal if one is not an action of the
\* simulator's client, or if the last one is not for the last measurement.
Acceptable(w, ms) ==
    /\ \A i \in 1..Len(ms) : ms[i].client = simClient[w] /\ ms[i].type = "env-action"
    /\ ms[Len(ms)].ts = waitCounter[w] + 1

GetAction(w) ==
    /\ workerPc[w] = "wait"
    /\ toWorker[w] # <<>>
    /\ \/ /\ Acceptable(w, toWorker[w])
          /\ waitCounter' = [waitCounter EXCEPT ![w] = @ + 1]
          /\ Turn(w, "run")
          /\ toWorker' = [toWorker EXCEPT ![w] = <<>>]
          /\ UNCHANGED <<fromWorker, simClient, simError, online, toClient>>
       \/ ~Acceptable(w, toWorker[w]) /\ SimEnds(w, TRUE)

\* Mutant: the wait for an action is not capped.
WaitForAction(w) == FALSE

\* No action within MaxActionWaitTime, which the simulation script caps at 600 s.
ActionTimeout(w) ==
    /\ workerPc[w] = "wait"
    /\ toWorker[w] = <<>>
    /\ SimEnds(w, TRUE)

\* The simulated time is over.
SimCompletes(w) == workerPc[w] = "drain" /\ SimEnds(w, FALSE)

\* The simulator cannot be started, or writes to stderr.
SimCrashes(w) == workerPc[w] \in Simulating /\ SimEnds(w, TRUE)

\* A step the worker takes on its own account.
WorkerRuns(w) ==
    \/ RecvStart(w) \/ RecvUnexpected(w) \/ ReportOutcome(w)
    \/ SimConnect(w) \/ Measure(w) \/ GetAction(w) \/ SimCompletes(w)

=============================================================================
