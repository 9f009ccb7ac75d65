------------------------------ MODULE Channels ------------------------------
(***************************************************************************)
(* The messages of the NetworkGym protocol and the outgoing side of the    *)
(* server's two ZeroMQ ROUTER sockets: the frontend towards the algorithm  *)
(* clients and the backend towards the environment workers.  ZeroMQ is not *)
(* part of the repository; its behaviour is what the code relies on:       *)
(* per-peer FIFO delivery, and a ROUTER silently drops a message for an    *)
(* identity that is not connected or whose queue is full.                  *)
(***************************************************************************)
EXTENDS Naturals, Sequences

CONSTANTS
    Clients,        \* identities of algorithm clients ("session-instance")
    Workers,        \* identities of environment workers ("session-id-host")
    Envs,           \* environment names
    NoClient,       \* the empty identity frame of an env-hello
    NoEnv,          \* the env field of a message that has none
    WorkerEnvs,     \* the env_list of each worker
    Timestamps,     \* timestamps of measurements and actions
    HighWaterMark   \* messages queued per peer before a ROUTER drops

ASSUME ChannelsAssumption ==
    /\ Clients \cap Workers = {}
    /\ NoClient \notin Clients \cup Workers
    /\ NoEnv \notin Envs
    /\ WorkerEnvs \in [Workers -> SUBSET Envs]
    /\ 0 \in Timestamps
    /\ HighWaterMark \in Nat

VARIABLES
    online,         \* identities with a connected socket
    toClient,       \* server -> client queues
    toWorker        \* server -> worker queues

channelVars == <<online, toClient, toWorker>>

MessageTypes ==
    {"env-hello", "env-start", "env-action", "env-measurement", "env-end",
     "env-error", "no-available-worker", "other"}

\* A message: its type, the client identity frame, and of the JSON body the
\* requested environment and the timestamp of a measurement or an action.
Message == [type: MessageTypes, client: Clients \cup {NoClient},
            env: Envs \cup {NoEnv}, ts: Timestamps]

Msg(type, c) == [type |-> type, client |-> c, env |-> NoEnv, ts |-> 0]

\* send_multipart on a ROUTER: the queues after m is sent to peer p.
Deliver(queues, p, m) ==
    IF p \in online /\ Len(queues[p]) < HighWaterMark
    THEN [queues EXCEPT ![p] = Append(@, m)]
    ELSE queues

ChannelsTypeOK ==
    /\ online \subseteq Clients \cup Workers
    /\ toClient \in [Clients -> Seq(Message)]
    /\ toWorker \in [Workers -> Seq(Message)]

ChannelsInit ==
    /\ online = {}
    /\ toClient = [c \in Clients |-> <<>>]
    /\ toWorker = [w \in Workers |-> <<>>]

=============================================================================
