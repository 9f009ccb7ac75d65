------------------------------- MODULE Server -------------------------------
(***************************************************************************)
(* The NetworkGym server (network_gym_server.py, ServerTask.run): a broker *)
(* that keeps a pool of idle workers, dedicates one to each client that    *)
(* asks for an environment, and relays measurements and actions.           *)
(*                                                                         *)
(* One action is one iteration of the poll loop: idle workers whose last   *)
(* env-hello is too old are dropped, then one message is handled.          *)
(*                                                                         *)
(* Time is abstracted to what the code compares: the last hello of an idle *)
(* worker is "fresh" or, WORKER_TIMEOUT_S later, "stale".                  *)
(***************************************************************************)
EXTENDS Channels, Dict

CONSTANTS
    Session,        \* session (account) name of each client and worker
    Official,       \* official_session_name of the configuration
    Custom,         \* custom_env_name of the configuration
    PrivateEnv,     \* the name <session>-<custom_env_name> of each session
    Admitted        \* clients with a known account and an allowed instance id

ASSUME ServerAssumption ==
    /\ Admitted \subseteq Clients
    /\ DOMAIN Session = Clients \cup Workers
    \* A session has no "-" in its name: it is what precedes the first one.
    /\ DOMAIN PrivateEnv = {Session[p] : p \in DOMAIN Session}
    /\ \A s, t \in DOMAIN PrivateEnv : PrivateEnv[s] = PrivateEnv[t] => s = t
    /\ \A s \in DOMAIN PrivateEnv : PrivateEnv[s] # Custom

VARIABLES
    availableWorkers,  \* the idle workers, each with the set of those ahead
                       \* of it in the list
    envList,           \* available_workers_env_list
    helloTs,           \* available_workers_last_ts_dict
    clientToWorker,    \* client_to_worker_dict
    clientToEnv,       \* client_to_env_dict
    serverUp           \* the ServerTask thread has not died of an exception

poolVars == <<availableWorkers, envList, helloTs>>
routeVars == <<clientToWorker, clientToEnv>>
serverVars == <<poolVars, routeVars, serverUp>>
vars == <<serverVars, channelVars>>

-----------------------------------------------------------------------------
\* Environment names.

\* The name under which env e of session s is offered and requested: the
\* custom environment is prefixed with the session.  Other names are left as
\* they are, also when one is the prefixed name of some session.
Scoped(s, e) == IF e = Custom THEN PrivateEnv[s] ELSE e

EnvNames == (Envs \ {Custom}) \cup {PrivateEnv[s] : s \in DOMAIN PrivateEnv}

\* Mutant of Advertised: an unofficial session may offer any environment.
AdvertisedUnchecked(w) == {Scoped(Session[w], e) : e \in WorkerEnvs[w]}

\* What an env-hello of w is recorded as: only the official session may offer
\* environments other than its custom one.
Advertised(w) ==
    IF Session[w] # Official
    THEN {Scoped(Session[w], Custom)}
    ELSE {Scoped(Session[w], e) : e \in WorkerEnvs[w]}

-----------------------------------------------------------------------------
\* The pool after the expiry pass that opens every iteration.

\* Mutant: the timeout is never looked at.
NoneExpired == {}

Expired == {w \in DOMAIN helloTs : helloTs[w] = "stale"}

Available == [w \in DOMAIN availableWorkers \ Expired |->
                 availableWorkers[w] \ Expired]
Offered == Without(envList, Expired)
LastHello == Without(helloTs, Expired)

\* The pool if nothing but the expiry happens to it.
OnlyExpire ==
    /\ availableWorkers' = Available
    /\ envList' = Offered
    /\ helloTs' = LastHello

\* Mutant of Remove: the worker stays idle.
RemoveNothing(w) == OnlyExpire

\* The pool once worker w is taken out of it (if it is there).
Remove(w) ==
    /\ availableWorkers' = [v \in DOMAIN Available \ {w} |-> Available[v] \ {w}]
    /\ envList' = Without(Offered, {w})
    /\ helloTs' = Without(LastHello, {w})

\* The idle workers once w has said hello: new ones go to the end.
Enlist(w) ==
    IF w \in DOMAIN Available THEN Available ELSE Put(Available, w, DOMAIN Available)

\* The first idle worker of the list that offers environment name n is w.
FirstOffering(w, n) ==
    /\ w \in DOMAIN Available
    /\ n \in Offered[w]
    /\ \A v \in Available[w] : n \notin Offered[v]

\* Mutant of DropRouteTo: the route stays.
KeepRouteTo(w, m) == UNCHANGED <<clientToWorker, toClient>>

\* A worker's failure ends the session it serves: the client is told with m
\* and its route is deleted.  (The loop stops after the first match.)
DropRouteTo(w, m) ==
    \/ /\ w \notin Values(clientToWorker)
       /\ UNCHANGED <<clientToWorker, toClient>>
    \/ \E c \in DOMAIN clientToWorker :
        /\ clientToWorker[c] = w
        /\ clientToWorker' = Without(clientToWorker, {c})
        /\ toClient' = Deliver(toClient, c, m)

-----------------------------------------------------------------------------
\* Messages from the backend: m is received from worker w.

EnvHello(w, m) ==
    /\ m.type = "env-hello"
    /\ availableWorkers' = Enlist(w)
    /\ envList' = Put(Offered, w, Advertised(w))
    /\ helloTs' = Put(LastHello, w, "fresh")
    /\ DropRouteTo(w, Msg("env-error", NoClient))
    /\ UNCHANGED <<clientToEnv, serverUp, toWorker, online>>

EnvError(w, m) ==
    /\ m.type = "env-error"
    /\ Remove(w)
    /\ DropRouteTo(w, m)
    /\ UNCHANGED <<clientToEnv, serverUp, toWorker, online>>

\* The route is deleted by the client identity in the message.  If another
\* client is still routed to w, the code deletes the key of the message a
\* second time: KeyError, which ends the thread.
EnvEnd(w, m) ==
    /\ m.type = "env-end"
    /\ Remove(w)
    /\ clientToWorker' = Without(clientToWorker, {m.client})
    /\ serverUp' = (w \notin Values(clientToWorker'))
    /\ UNCHANGED <<clientToEnv, channelVars>>

\* A measurement, or a message of unknown type, goes to the client it names.
RelayToClient(w, m) ==
    /\ m.type \in {"env-measurement", "other"}
    /\ OnlyExpire
    /\ toClient' = Deliver(toClient, m.client, m)
    /\ UNCHANGED <<routeVars, serverUp, toWorker, online>>

FromWorker(w, m) ==
    /\ serverUp
    /\ \/ EnvHello(w, m)
       \/ EnvError(w, m)
       \/ EnvEnd(w, m)
       \/ RelayToClient(w, m)

-----------------------------------------------------------------------------
\* Messages from the frontend: m is received from client c.

\* Mutant: the request is ignored.
AnswerNothing(c, type) == UNCHANGED <<toClient, toWorker, online, serverUp>>

Answer(c, type) ==
    /\ toClient' = Deliver(toClient, c, Msg(type, c))
    /\ UNCHANGED <<toWorker, online, serverUp>>

\* Unknown account, or instance id above the account's limit.
Reject(c, m) ==
    /\ c \notin Admitted
    /\ OnlyExpire
    /\ Answer(c, "env-error")
    /\ UNCHANGED routeVars

\* env-start of a client that is already served: it was killed and restarted.
\* The request is relayed all the same, to make the old simulation stop.
StartAgain(c, m) ==
    /\ c \in Admitted
    /\ m.type = "env-start"
    /\ c \in DOMAIN clientToWorker
    /\ OnlyExpire
    /\ toWorker' = Deliver(toWorker, clientToWorker[c], m)
    /\ toClient' = Deliver(toClient, c, Msg("env-error", c))
    /\ clientToWorker' = Without(clientToWorker, {c})
    /\ UNCHANGED <<clientToEnv, serverUp, online>>

\* env-start of a new client: the first idle worker with the environment is
\* dedicated to it.
Assign(c, m) ==
    /\ c \in Admitted
    /\ m.type = "env-start"
    /\ c \notin DOMAIN clientToWorker
    /\ \E w \in DOMAIN Available :
        /\ FirstOffering(w, Scoped(Session[c], m.env))
        /\ Remove(w)
        /\ clientToWorker' = Put(clientToWorker, c, w)
        /\ toWorker' = Deliver(toWorker, w, m)
    /\ clientToEnv' = Put(clientToEnv, c, Scoped(Session[c], m.env))
    /\ UNCHANGED <<toClient, online, serverUp>>

Refuse(c, m) ==
    /\ c \in Admitted
    /\ m.type = "env-start"
    /\ c \notin DOMAIN clientToWorker
    /\ \A w \in DOMAIN Available : Scoped(Session[c], m.env) \notin Offered[w]
    /\ OnlyExpire
    /\ Answer(c, "no-available-worker")
    /\ UNCHANGED routeVars

\* Mutant: the action goes to some worker, routed or not.
RelayActionAnywhere(c, m) ==
    /\ c \in Admitted
    /\ m.type = "env-action"
    /\ OnlyExpire
    /\ \E w \in Workers : toWorker' = Deliver(toWorker, w, m)
    /\ UNCHANGED <<routeVars, toClient, online, serverUp>>

RelayAction(c, m) ==
    /\ c \in Admitted
    /\ m.type = "env-action"
    /\ c \in DOMAIN clientToWorker
    /\ OnlyExpire
    /\ toWorker' = Deliver(toWorker, clientToWorker[c], m)
    /\ UNCHANGED <<routeVars, toClient, online, serverUp>>

\* An action without a route, or a message of unknown type.
Unroutable(c, m) ==
    /\ c \in Admitted
    /\ \/ m.type = "env-action" /\ c \notin DOMAIN clientToWorker
       \/ m.type \notin {"env-start", "env-action"}
    /\ OnlyExpire
    /\ Answer(c, "env-error")
    /\ UNCHANGED routeVars

FromClient(c, m) ==
    /\ serverUp
    /\ \/ Reject(c, m)
       \/ StartAgain(c, m)
       \/ Assign(c, m)
       \/ Refuse(c, m)
       \/ RelayAction(c, m)
       \/ Unroutable(c, m)

-----------------------------------------------------------------------------
\* WORKER_TIMEOUT_S pass without an env-hello of the idle worker w.
HelloTimeout(w) ==
    /\ w \in DOMAIN helloTs
    /\ helloTs[w] = "fresh"
    /\ helloTs' = [helloTs EXCEPT ![w] = "stale"]
    /\ UNCHANGED <<availableWorkers, envList, routeVars, serverUp, channelVars>>

ServerInit ==
    /\ availableWorkers = EmptyDict
    /\ envList = EmptyDict
    /\ helloTs = EmptyDict
    /\ clientToWorker = EmptyDict
    /\ clientToEnv = EmptyDict
    /\ serverUp = TRUE

=============================================================================
