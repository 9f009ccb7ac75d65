------------------------------- MODULE Broker -------------------------------
(***************************************************************************)
(* The server with peers that may connect, disconnect and send anything at *)
(* any time: what holds here does not depend on well-behaved clients and   *)
(* workers.                                                                *)
(***************************************************************************)
EXTENDS Server

CONSTANTS
    Idle, Absent,   \* the other states of a worker in WorkerPool
    Connecting      \* bound: the peers that connect, and so receive messages

ASSUME BrokerAssumption ==
    /\ Idle # Absent
    /\ {Idle, Absent} \cap Clients = {}
    /\ Connecting \subseteq Clients \cup Workers

\* What a worker or a client can put on the wire.  The identity frame of a
\* client's message is added by the frontend socket; only an env-start names an
\* environment.
WorkerMessage ==
    {m \in Message : /\ m.type \in {"env-hello", "env-error", "env-end",
                                    "env-measurement", "other"}
                     /\ m.env = NoEnv}
ClientMessage(c) ==
    {m \in Message : /\ m.type \in {"env-start", "env-action", "other"}
                     /\ m.client = c
                     /\ m.type = "env-start" <=> m.env \in Envs}

Connect(p) ==
    /\ p \notin online
    /\ online' = online \cup {p}
    /\ UNCHANGED <<serverVars, toClient, toWorker>>

\* A closed socket loses what was queued for it.
Disconnect(p) ==
    /\ p \in online
    /\ online' = online \ {p}
    /\ toClient' = [c \in Clients |-> IF c = p THEN <<>> ELSE toClient[c]]
    /\ toWorker' = [w \in Workers |-> IF w = p THEN <<>> ELSE toWorker[w]]
    /\ UNCHANGED serverVars

ClientReads(c) ==
    /\ toClient[c] # <<>>
    /\ toClient' = [toClient EXCEPT ![c] = Tail(@)]
    /\ UNCHANGED <<serverVars, toWorker, online>>

\* A worker's loop reads one message, a simulator all that are queued.
WorkerReads(w) ==
    /\ \E n \in 1..Len(toWorker[w]) :
        toWorker' = [toWorker EXCEPT ![w] = SubSeq(@, n + 1, Len(@))]
    /\ UNCHANGED <<serverVars, toClient, online>>

Init == ServerInit /\ ChannelsInit

Next ==
    \/ \E w \in Workers, m \in WorkerMessage : FromWorker(w, m)
    \/ \E c \in Clients : \E m \in ClientMessage(c) : FromClient(c, m)
    \/ \E w \in Workers : HelloTimeout(w) \/ WorkerReads(w)
    \/ \E c \in Clients : ClientReads(c)
    \/ \E p \in Connecting : Connect(p) \/ Disconnect(p)

Spec == Init /\ [][Next]_vars

-----------------------------------------------------------------------------
\* Properties.

\* The variables have their types.
TypeOK ==
    /\ ChannelsTypeOK
    /\ availableWorkers \in Dicts(Workers, SUBSET Workers)
    /\ envList \in Dicts(Workers, SUBSET EnvNames)
    /\ helloTs \in Dicts(Workers, {"fresh", "stale"})
    /\ clientToWorker \in Dicts(Clients, Workers)
    /\ clientToEnv \in Dicts(Clients, EnvNames)
    /\ serverUp \in BOOLEAN

\* The list of idle workers and the two dictionaries about them have the same
\* members, so no remove, del or lookup of the loop raises an exception.
PoolConsistent ==
    /\ DOMAIN envList = DOMAIN availableWorkers
    /\ DOMAIN helloTs = DOMAIN availableWorkers

\* The idle workers form a list: any two are in one order, nobody is ahead of
\* itself, and being ahead is transitive.
IdleListOrdered ==
    LET D == DOMAIN availableWorkers IN
    /\ \A v \in D : availableWorkers[v] \subseteq D \ {v}
    /\ \A u, v \in D :
        u # v => (u \in availableWorkers[v] <=> v \notin availableWorkers[u])
    /\ \A u, v \in D :
        u \in availableWorkers[v] => availableWorkers[u] \subseteq availableWorkers[v]

\* "a worker can be only inside the available_workers or
\* self.client_to_worker_dict, cannot be in both" (network_gym_server.py).
Exclusive == DOMAIN availableWorkers \cap Values(clientToWorker) = {}

\* A worker is dedicated to one client at most: the loops that stop after the
\* first client routed to a worker leave no second one behind.
OneClientPerWorker ==
    \A c, d \in DOMAIN clientToWorker :
        clientToWorker[c] = clientToWorker[d] => c = d

\* A client is served by a worker that offered the environment it asked for.
AssignedEnvOffered ==
    \A c \in DOMAIN clientToWorker :
        /\ c \in DOMAIN clientToEnv
        /\ clientToEnv[c] \in Advertised(clientToWorker[c])

\* A worker of another, unofficial session is given only to a client that asked
\* for the environment of that session by its full name; a client that asked
\* for its own session's never gets one.  (The server does not compare the
\* sessions of client and worker: what keeps them apart is what a worker may
\* offer, and that a client knows no name but "custom" and its own.)
ForeignOnlyByName ==
    \A c \in DOMAIN clientToWorker :
        LET s == Session[clientToWorker[c]] IN
        s \notin {Official, Session[c]} =>
            clientToEnv[c] = PrivateEnv[s] /\ clientToEnv[c] # PrivateEnv[Session[c]]

\* What makes these inductive: the offers on record are what the worker may
\* advertise, and the environments on record are what the client asked for.
RecordsGenuine ==
    /\ \A w \in DOMAIN envList : envList[w] = Advertised(w)
    /\ \A c \in DOMAIN clientToEnv :
        \E e \in Envs : clientToEnv[c] = Scoped(Session[c], e)

IInv ==
    /\ TypeOK
    /\ PoolConsistent
    /\ IdleListOrdered
    /\ Exclusive
    /\ OneClientPerWorker
    /\ RecordsGenuine
    /\ AssignedEnvOffered

\* A worker that has been silent for WORKER_TIMEOUT_S is never dedicated to a
\* client, although only the arrival of some message makes the server look.
SilentWorkerNeverAssigned ==
    [][\A c \in DOMAIN clientToWorker' :
        c \notin DOMAIN clientToWorker =>
            helloTs[clientToWorker'[c]] = "fresh"]_vars

\* Of the workers that offer the environment, the one that has been idle for
\* longest is taken: it was ahead of every other one that stays idle.
LongestIdleFirst ==
    [][\A c \in DOMAIN clientToWorker' \ DOMAIN clientToWorker :
        LET w == clientToWorker'[c] IN
        \A v \in DOMAIN availableWorkers' :
            clientToEnv'[c] \in envList[v] => w \in availableWorkers[v]]_vars

\* The list of idle workers is first in, first out: whoever comes into it, for
\* the first time or after its hellos had stopped for too long, goes behind all
\* others, and nothing else, a repeated hello neither, changes its order.
IdleListFifo ==
    [][LET D   == DOMAIN availableWorkers'
           New == {v \in D : \/ v \notin DOMAIN availableWorkers
                             \/ helloTs[v] = "stale" /\ helloTs'[v] = "fresh"} IN
       /\ \A v \in New : availableWorkers'[v] = D \ {v}
       /\ \A v \in D \ New : availableWorkers'[v] = availableWorkers[v] \cap (D \ New)]_vars

\* A worker is sent messages of one client only: the one it is dedicated to.
WorkerHearsItsClient ==
    [][\A w \in Workers :
        Len(toWorker'[w]) > Len(toWorker[w]) =>
            LET c == toWorker'[w][Len(toWorker'[w])].client IN
            \/ c \in DOMAIN clientToWorker /\ clientToWorker[c] = w
            \/ c \in DOMAIN clientToWorker' /\ clientToWorker'[c] = w]_vars

Holder(w) ==
    IF w \in DOMAIN availableWorkers THEN Idle
    ELSE IF w \in Values(clientToWorker)
    THEN CHOOSE c \in DOMAIN clientToWorker : clientToWorker[c] = w
    ELSE Absent

Pool == INSTANCE WorkerPool WITH holder <- [w \in Workers |-> Holder(w)]

\* The server implements the pool of dedicated workers.
ImplementsWorkerPool == Pool!Spec

=============================================================================
