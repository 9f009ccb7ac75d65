------------------------------- MODULE Client -------------------------------
(***************************************************************************)
(* The algorithm clients: gymnasium environment Env (env.py) and its       *)
(* NorthBoundClient (northbound_interface.py).  A process runs one session *)
(* of Episodes episodes of StepsPerEpisode steps: each reset() and each    *)
(* step() sends one request and waits for one measurement.                 *)
(***************************************************************************)
EXTENDS Channels

CONSTANTS
    EnvOf,              \* env_config["env"] of each client
    StepsPerEpisode,    \* steps_per_episode
    Episodes,           \* episodes_per_session
    MaxRequests,        \* bound: requests of one client in transit
    MaxLaunches         \* bound: processes started per client

ASSUME ClientAssumption ==
    /\ EnvOf \in [Clients -> Envs]
    /\ StepsPerEpisode \in Nat \ {0, 1}
    /\ Episodes \in Nat \ {0}
    /\ MaxRequests \in Nat
    /\ MaxLaunches \in Nat

VARIABLES
    toServer,       \* client -> server queues
    clientPc,       \* what the process does: "off" (not running), "reset"
                    \* and "retry" (waiting for the first measurement),
                    \* "sleep" (1 s before the retry), "think" (the agent
                    \* has the measurement), "await" (waiting for another)
    episode,        \* current_ep
    step,           \* current_step
    statsTs,        \* timestamp of the last measurement (the adapter's)
    launches        \* processes started so far

clientVars == <<toServer, clientPc, episode, step, statsTs, launches>>

Waiting == {"reset", "retry", "await"}

ClientTypeOK ==
    /\ toServer \in [Clients -> Seq(Message)]
    /\ clientPc \in [Clients -> Waiting \cup {"off", "sleep", "think"}]
    /\ episode \in [Clients -> 1..Episodes]
    /\ step \in [Clients -> 1..StepsPerEpisode]
    /\ statsTs \in [Clients -> Timestamps]
    /\ launches \in [Clients -> 0..MaxLaunches]

ClientInit ==
    /\ toServer = [c \in Clients |-> <<>>]
    /\ clientPc = [c \in Clients |-> "off"]
    /\ episode = [c \in Clients |-> 1]
    /\ step = [c \in Clients |-> 1]
    /\ statsTs = [c \in Clients |-> 0]
    /\ launches = [c \in Clients |-> 0]

-----------------------------------------------------------------------------

Send(c, m) ==
    /\ Len(toServer[c]) < MaxRequests
    /\ toServer' = [toServer EXCEPT ![c] = Append(@, m)]

\* Mutant: the action carries no timestamp of the measurement it is for.
EnvActionUndated(c) == Msg("env-action", c)

EnvStart(c) == [Msg("env-start", c) EXCEPT !.env = EnvOf[c]]
EnvAction(c) == [Msg("env-action", c) EXCEPT !.ts = statsTs[c]]

Become(c, pc) == clientPc' = [clientPc EXCEPT ![c] = pc]

\* The process ends, and with it its socket and its state.
Exit(c) ==
    /\ Become(c, "off")
    /\ episode' = [episode EXCEPT ![c] = 1]
    /\ step' = [step EXCEPT ![c] = 1]
    /\ statsTs' = [statsTs EXCEPT ![c] = 0]
    /\ online' = online \ {c}
    /\ toClient' = [toClient EXCEPT ![c] = <<>>]

\* Env.__init__ and the first reset(): the request for an environment.
Start(c) ==
    /\ clientPc[c] = "off"
    /\ launches[c] < MaxLaunches
    /\ launches' = [launches EXCEPT ![c] = @ + 1]
    /\ Send(c, EnvStart(c))
    /\ Become(c, "reset")
    /\ online' = online \cup {c}
    /\ UNCHANGED <<episode, step, statsTs, toClient, toWorker>>

\* reset() again, one second after its first request was refused.
Retry(c) ==
    /\ clientPc[c] = "sleep"
    /\ Send(c, EnvStart(c))
    /\ Become(c, "retry")
    /\ UNCHANGED <<episode, step, statsTs, launches, channelVars>>

\* step(action): the agent's action for the last measurement.
Step(c) ==
    /\ clientPc[c] = "think"
    /\ step[c] < StepsPerEpisode
    /\ step' = [step EXCEPT ![c] = @ + 1]
    /\ Send(c, EnvAction(c))
    /\ Become(c, "await")
    /\ UNCHANGED <<episode, statsTs, launches, channelVars>>

\* reset() between episodes sends the last action once more.
NextEpisode(c) ==
    /\ clientPc[c] = "think"
    /\ step[c] = StepsPerEpisode
    /\ step' = [step EXCEPT ![c] = 1]
    /\ episode' = [episode EXCEPT ![c] = @ + 1]
    /\ Send(c, EnvAction(c))
    /\ Become(c, "await")
    /\ UNCHANGED <<statsTs, launches, channelVars>>

\* Mutant: the adapter keeps the timestamp of the measurement before.
KeepTs(c) == statsTs[c]

\* get_observation() remembers the timestamp of the measurement.
NewTs(c) == Head(toClient[c]).ts

\* recv() returns a measurement; after the last step of the last episode the
\* session is terminated and the process ends.
RecvMeasurement(c) ==
    /\ clientPc[c] \in Waiting
    /\ toClient[c] # <<>>
    /\ Head(toClient[c]).type = "env-measurement"
    /\ \/ /\ step[c] = StepsPerEpisode /\ episode[c] = Episodes
          /\ Exit(c)
       \/ /\ ~(step[c] = StepsPerEpisode /\ episode[c] = Episodes)
          /\ Become(c, "think")
          /\ statsTs' = [statsTs EXCEPT ![c] = NewTs(c)]
          /\ toClient' = [toClient EXCEPT ![c] = Tail(@)]
          /\ UNCHANGED <<episode, step, online>>
    /\ UNCHANGED <<toServer, toWorker, launches>>

\* env-error: the first request of a process is tried once more, anything
\* else ends the process.
RecvError(c) ==
    /\ clientPc[c] \in Waiting
    /\ toClient[c] # <<>>
    /\ Head(toClient[c]).type = "env-error"
    /\ \/ /\ clientPc[c] = "reset"
          /\ Become(c, "sleep")
          /\ toClient' = [toClient EXCEPT ![c] = Tail(@)]
          /\ UNCHANGED <<episode, step, statsTs, online>>
       \/ clientPc[c] # "reset" /\ Exit(c)
    /\ UNCHANGED <<toServer, toWorker, launches>>

\* no-available-worker, or a message of unknown type, ends the process.
RecvOther(c) ==
    /\ clientPc[c] \in Waiting
    /\ toClient[c] # <<>>
    /\ Head(toClient[c]).type \notin {"env-measurement", "env-error"}
    /\ Exit(c)
    /\ UNCHANGED <<toServer, toWorker, launches>>

\* Mutant: recv() does not poll before it reads.
NeverTimesOut(c) == FALSE

\* 60 s without an answer: recv() raises IOError.
RecvTimeout(c) ==
    /\ clientPc[c] \in Waiting
    /\ toClient[c] = <<>>
    /\ Exit(c)
    /\ UNCHANGED <<toServer, toWorker, launches>>

\* The process is killed; requests that were not flushed are lost.
Quit(c) ==
    /\ clientPc[c] # "off"
    /\ Exit(c)
    /\ \E n \in 0..Len(toServer[c]) :
        toServer' = [toServer EXCEPT ![c] = SubSeq(@, 1, n)]
    /\ UNCHANGED <<toWorker, launches>>

\* A step the process takes on its own account.
ClientRuns(c) ==
    \/ Retry(c) \/ Step(c) \/ NextEpisode(c)
    \/ RecvMeasurement(c) \/ RecvError(c) \/ RecvOther(c)

=============================================================================
