---------------------------- MODULE Broker_proofs ----------------------------
(***************************************************************************)
(* Proofs about Broker: its type invariant, the consistency of its pool    *)
(* and its routes, and that it implements WorkerPool, for every set of     *)
(* clients, workers and environments.                                      *)
(***************************************************************************)
EXTENDS Broker, TLAPS

-----------------------------------------------------------------------------
\* Dictionaries.

LEMMA DictsDef ==
    ASSUME NEW K, NEW V, NEW d
    PROVE  d \in Dicts(K, V) <=> /\ DOMAIN d \subseteq K
                                 /\ d \in [DOMAIN d -> V]
BY DEF Dicts

LEMMA EmptyDictType ==
    ASSUME NEW K, NEW V
    PROVE  EmptyDict \in Dicts(K, V) /\ DOMAIN EmptyDict = {}
BY DictsDef DEF EmptyDict

-----------------------------------------------------------------------------
\* The queues.

LEMMA DeliverType ==
    ASSUME NEW P, NEW queues \in [P -> Seq(Message)], NEW p,
           p \in online => p \in P, NEW m \in Message
    PROVE  Deliver(queues, p, m) \in [P -> Seq(Message)]
BY DEF Deliver

LEMMA MsgType ==
    ASSUME NEW type \in MessageTypes, NEW c \in Clients \cup {NoClient}
    PROVE  Msg(type, c) \in Message
BY ChannelsAssumption DEF Msg, Message

-----------------------------------------------------------------------------
\* The parts of the server's handlers: what each does to the pool.

PoolTypeOK ==
    /\ availableWorkers \in Dicts(Workers, SUBSET Workers)
    /\ envList \in Dicts(Workers, SUBSET EnvNames)
    /\ helloTs \in Dicts(Workers, {"fresh", "stale"})

\* The pool without the workers in L: types, domains, and what is kept.
PoolLoses(L) ==
    /\ PoolTypeOK'
    /\ DOMAIN availableWorkers' = DOMAIN availableWorkers \ L
    /\ DOMAIN envList' = DOMAIN envList \ L
    /\ DOMAIN helloTs' = DOMAIN helloTs \ L
    /\ \A v \in DOMAIN envList' : envList'[v] = envList[v]
    /\ \A v \in DOMAIN availableWorkers' : availableWorkers'[v] = availableWorkers[v] \ L

LEMMA AvailableType ==
    ASSUME PoolTypeOK
    PROVE  /\ Available \in Dicts(Workers, SUBSET Workers)
           /\ DOMAIN Available = DOMAIN availableWorkers \ Expired
           /\ \A v \in DOMAIN Available : Available[v] = availableWorkers[v] \ Expired
           /\ Offered \in Dicts(Workers, SUBSET EnvNames)
           /\ DOMAIN Offered = DOMAIN envList \ Expired
           /\ \A v \in DOMAIN Offered : Offered[v] = envList[v]
           /\ LastHello \in Dicts(Workers, {"fresh", "stale"})
           /\ DOMAIN LastHello = DOMAIN helloTs \ Expired
<1>1. /\ Available \in Dicts(Workers, SUBSET Workers)
      /\ DOMAIN Available = DOMAIN availableWorkers \ Expired
      /\ \A v \in DOMAIN Available : Available[v] = availableWorkers[v] \ Expired
  BY DictsDef DEF PoolTypeOK, Available
<1>2. /\ Offered \in Dicts(Workers, SUBSET EnvNames)
      /\ DOMAIN Offered = DOMAIN envList \ Expired
      /\ \A v \in DOMAIN Offered : Offered[v] = envList[v]
  BY DictsDef DEF PoolTypeOK, Offered, Without
<1>3. /\ LastHello \in Dicts(Workers, {"fresh", "stale"})
      /\ DOMAIN LastHello = DOMAIN helloTs \ Expired
  BY DictsDef DEF PoolTypeOK, LastHello, Without
<1>. QED  BY <1>1, <1>2, <1>3

LEMMA OnlyExpirePool ==
    ASSUME PoolTypeOK, OnlyExpire
    PROVE  PoolLoses(Expired)
BY AvailableType DEF OnlyExpire, PoolLoses, PoolTypeOK

LEMMA RemovePool ==
    ASSUME PoolTypeOK, NEW w, Remove(w)
    PROVE  PoolLoses(Expired \cup {w})
<1>1. /\ availableWorkers' \in Dicts(Workers, SUBSET Workers)
      /\ DOMAIN availableWorkers' = DOMAIN availableWorkers \ (Expired \cup {w})
      /\ \A v \in DOMAIN availableWorkers' :
            availableWorkers'[v] = availableWorkers[v] \ (Expired \cup {w})
  <2>1. availableWorkers' = [v \in DOMAIN Available \ {w} |-> Available[v] \ {w}]
    BY DEF Remove
  <2>2. /\ DOMAIN availableWorkers' = DOMAIN availableWorkers \ (Expired \cup {w})
        /\ \A v \in DOMAIN availableWorkers' :
              availableWorkers'[v] = availableWorkers[v] \ (Expired \cup {w})
    BY <2>1, AvailableType
  <2>. QED  BY <2>1, <2>2, AvailableType, DictsDef
<1>2. /\ envList' \in Dicts(Workers, SUBSET EnvNames)
      /\ DOMAIN envList' = DOMAIN envList \ (Expired \cup {w})
      /\ \A v \in DOMAIN envList' : envList'[v] = envList[v]
  <2>1. envList' = Without(Offered, {w})  BY DEF Remove
  <2>2. /\ Without(Offered, {w}) \in Dicts(Workers, SUBSET EnvNames)
        /\ DOMAIN Without(Offered, {w}) = DOMAIN Offered \ {w}
        /\ \A x \in DOMAIN Offered \ {w} : Without(Offered, {w})[x] = Offered[x]
    BY AvailableType, DictsDef DEF Without
  <2>. QED  BY <2>1, <2>2, AvailableType
<1>3. /\ helloTs' \in Dicts(Workers, {"fresh", "stale"})
      /\ DOMAIN helloTs' = DOMAIN helloTs \ (Expired \cup {w})
  <2>1. helloTs' = Without(LastHello, {w})  BY DEF Remove
  <2>2. /\ Without(LastHello, {w}) \in Dicts(Workers, {"fresh", "stale"})
        /\ DOMAIN Without(LastHello, {w}) = DOMAIN LastHello \ {w}
    BY AvailableType, DictsDef DEF Without
  <2>. QED  BY <2>1, <2>2, AvailableType
<1>. QED  BY <1>1, <1>2, <1>3 DEF PoolLoses, PoolTypeOK

-----------------------------------------------------------------------------
\* The parts of the handlers: what each does to the routes.

\* The routes without those of the clients in C.
RoutesLose(C) ==
    /\ clientToWorker' \in Dicts(Clients, Workers)
    /\ DOMAIN clientToWorker' = DOMAIN clientToWorker \ C
    /\ \A c \in DOMAIN clientToWorker' : clientToWorker'[c] = clientToWorker[c]

LEMMA KeepRoutes ==
    ASSUME clientToWorker \in Dicts(Clients, Workers), UNCHANGED clientToWorker
    PROVE  RoutesLose({})
BY DEF RoutesLose

LEMMA DeleteRoute ==
    ASSUME clientToWorker \in Dicts(Clients, Workers), NEW c,
           clientToWorker' = Without(clientToWorker, {c})
    PROVE  RoutesLose({c})
BY DictsDef DEF RoutesLose, Without

\* The one client of a worker that fails loses its route.
LEMMA DropRoute ==
    ASSUME TypeOK, OneClientPerWorker, NEW w, NEW m \in Message, DropRouteTo(w, m)
    PROVE  /\ RoutesLose({c \in DOMAIN clientToWorker : clientToWorker[c] = w})
           /\ toClient' \in [Clients -> Seq(Message)]
<1>1. CASE /\ w \notin Values(clientToWorker)
           /\ UNCHANGED <<clientToWorker, toClient>>
  <2>1. {c \in DOMAIN clientToWorker : clientToWorker[c] = w} = {}
    BY <1>1 DEF Values
  <2>. QED  BY <1>1, <2>1, KeepRoutes DEF TypeOK, ChannelsTypeOK
<1>2. ASSUME NEW c \in DOMAIN clientToWorker,
             clientToWorker[c] = w,
             clientToWorker' = Without(clientToWorker, {c}),
             toClient' = Deliver(toClient, c, m)
      PROVE  /\ RoutesLose({d \in DOMAIN clientToWorker : clientToWorker[d] = w})
             /\ toClient' \in [Clients -> Seq(Message)]
  <2>1. {d \in DOMAIN clientToWorker : clientToWorker[d] = w} = {c}
    BY <1>2 DEF OneClientPerWorker
  <2>2. c \in Clients
    BY DictsDef DEF TypeOK
  <2>3. toClient' \in [Clients -> Seq(Message)]
    BY <1>2, <2>2, DeliverType DEF TypeOK, ChannelsTypeOK
  <2>. QED  BY <1>2, <2>1, <2>3, DeleteRoute DEF TypeOK
<1>. QED  BY <1>1, <1>2 DEF DropRouteTo

-----------------------------------------------------------------------------
\* Preservation of the inductive invariant.

\* Handlers that only take workers out of the pool and routes out of the
\* dictionary.
LEMMA LosingPreserves ==
    ASSUME IInv, NEW L, PoolLoses(L), NEW C, RoutesLose(C),
           UNCHANGED clientToEnv, ChannelsTypeOK', serverUp' \in BOOLEAN
    PROVE  IInv'
<1>1. TypeOK'
  BY DEF IInv, TypeOK, PoolLoses, PoolTypeOK, RoutesLose
<1>2. PoolConsistent'
  BY DEF IInv, PoolConsistent, PoolLoses
<1>7. IdleListOrdered'
  BY DEF IInv, IdleListOrdered, PoolLoses
<1>3. Exclusive'
  BY DEF IInv, Exclusive, Values, PoolLoses, RoutesLose
<1>4. OneClientPerWorker'
  BY DEF IInv, OneClientPerWorker, RoutesLose
<1>5. RecordsGenuine'
  BY DEF IInv, RecordsGenuine, PoolLoses, Advertised
<1>6. AssignedEnvOffered'
  BY DEF IInv, AssignedEnvOffered, RoutesLose, Advertised
<1>. QED  BY <1>1, <1>2, <1>3, <1>4, <1>5, <1>6, <1>7 DEF IInv

\* Steps of the peers: the server's state is not touched.
LEMMA PeersPreserve ==
    ASSUME IInv, UNCHANGED serverVars, ChannelsTypeOK'
    PROVE  IInv'
<1>1. PoolLoses({}) /\ RoutesLose({})
  BY KeepRoutes DEF IInv, TypeOK, PoolLoses, PoolTypeOK, serverVars, poolVars, routeVars
<1>. QED
  BY <1>1, LosingPreserves DEF IInv, TypeOK, serverVars, routeVars

LEMMA HelloTypes ==
    ASSUME IInv, NEW w \in Workers, NEW m \in WorkerMessage, EnvHello(w, m)
    PROVE  /\ PoolTypeOK'
           /\ DOMAIN availableWorkers' = (DOMAIN availableWorkers \ Expired) \cup {w}
           /\ DOMAIN envList' = (DOMAIN envList \ Expired) \cup {w}
           /\ DOMAIN helloTs' = (DOMAIN helloTs \ Expired) \cup {w}
           /\ envList'[w] = Advertised(w)
           /\ \A v \in DOMAIN envList' : v # w => envList'[v] = envList[v]
           /\ \A v \in DOMAIN availableWorkers' :
                availableWorkers'[v] =
                    IF v \in DOMAIN availableWorkers \ Expired
                    THEN availableWorkers[v] \ Expired
                    ELSE DOMAIN availableWorkers \ Expired
<1>. USE AvailableType
<1>. PoolTypeOK  BY DEF IInv, TypeOK, PoolTypeOK
<1>1. /\ availableWorkers' \in Dicts(Workers, SUBSET Workers)
      /\ DOMAIN availableWorkers' = (DOMAIN availableWorkers \ Expired) \cup {w}
      /\ \A v \in DOMAIN availableWorkers' :
            availableWorkers'[v] =
                IF v \in DOMAIN availableWorkers \ Expired
                THEN availableWorkers[v] \ Expired
                ELSE DOMAIN availableWorkers \ Expired
  <2>1. CASE w \in DOMAIN Available
    BY <2>1 DEF EnvHello, Enlist
  <2>2. CASE w \notin DOMAIN Available
    <3>1. DOMAIN Available \in SUBSET Workers
      BY DictsDef
    <3>2. /\ DOMAIN availableWorkers' = DOMAIN Available \cup {w}
          /\ availableWorkers'[w] = DOMAIN Available
          /\ \A v \in DOMAIN Available : availableWorkers'[v] = Available[v]
          /\ availableWorkers' = [v \in DOMAIN availableWorkers' |-> availableWorkers'[v]]
      BY <2>2 DEF EnvHello, Enlist, Put
    <3>3. availableWorkers' \in Dicts(Workers, SUBSET Workers)
      BY <3>1, <3>2, DictsDef
    <3>. QED  BY <2>2, <3>2, <3>3
  <2>. QED  BY <2>1, <2>2
<1>2. /\ envList' \in Dicts(Workers, SUBSET EnvNames)
      /\ DOMAIN envList' = (DOMAIN envList \ Expired) \cup {w}
      /\ envList'[w] = Advertised(w)
      /\ \A v \in DOMAIN envList' : v # w => envList'[v] = envList[v]
  <2>1. Advertised(w) \subseteq EnvNames
    BY ChannelsAssumption, ServerAssumption DEF Advertised, Scoped, EnvNames
  <2>. QED  BY <2>1, DictsDef DEF EnvHello, Put
<1>3. /\ helloTs' \in Dicts(Workers, {"fresh", "stale"})
      /\ DOMAIN helloTs' = (DOMAIN helloTs \ Expired) \cup {w}
  BY DictsDef DEF EnvHello, Put
<1>. QED  BY <1>1, <1>2, <1>3 DEF PoolTypeOK

-----------------------------------------------------------------------------
\* Each handler preserves the inductive invariant.

LEMMA EnvHelloPreserves ==
    ASSUME IInv, NEW w \in Workers, NEW m \in WorkerMessage, EnvHello(w, m)
    PROVE  IInv'
<1>. DEFINE C == {c \in DOMAIN clientToWorker : clientToWorker[c] = w}
<1>1. RoutesLose(C) /\ toClient' \in [Clients -> Seq(Message)]
  <2>1. Msg("env-error", NoClient) \in Message
    BY MsgType DEF MessageTypes
  <2>. QED  BY <2>1, DropRoute DEF IInv, EnvHello
<1>0. /\ PoolTypeOK'
      /\ DOMAIN availableWorkers' = (DOMAIN availableWorkers \ Expired) \cup {w}
      /\ DOMAIN envList' = DOMAIN availableWorkers'
      /\ DOMAIN helloTs' = DOMAIN availableWorkers'
      /\ envList'[w] = Advertised(w)
      /\ \A v \in DOMAIN envList' : v # w => envList'[v] = envList[v]
  BY HelloTypes DEF IInv, PoolConsistent
<1>2. TypeOK'
  BY <1>0, <1>1 DEF IInv, TypeOK, PoolTypeOK, RoutesLose, EnvHello, ChannelsTypeOK
<1>3. PoolConsistent'
  BY <1>0 DEF PoolConsistent
<1>4. Exclusive'
  <2>1. \A c \in DOMAIN clientToWorker' :
          clientToWorker'[c] \in Values(clientToWorker) \ {w}
    BY <1>1 DEF RoutesLose, Values
  <2>. QED  BY <1>0, <2>1 DEF IInv, Exclusive, Values
<1>5. OneClientPerWorker'
  BY <1>1 DEF IInv, OneClientPerWorker, RoutesLose
<1>6. RecordsGenuine'
  <2>1. \A v \in DOMAIN envList' : envList'[v] = Advertised(v)
    BY <1>0 DEF IInv, PoolConsistent, RecordsGenuine
  <2>. QED  BY <2>1 DEF IInv, RecordsGenuine, EnvHello
<1>7. AssignedEnvOffered'
  BY <1>1 DEF IInv, AssignedEnvOffered, RoutesLose, EnvHello
<1>8. IdleListOrdered'
  <2>. DEFINE D == DOMAIN availableWorkers \ Expired
  <2>1. /\ DOMAIN availableWorkers' = D \cup {w}
        /\ \A v \in D : availableWorkers'[v] = availableWorkers[v] \ Expired
        /\ w \notin D => availableWorkers'[w] = D
    BY HelloTypes
  <2>2. \A v \in D : availableWorkers[v] \ Expired \subseteq D \ {v}
    BY DEF IInv, IdleListOrdered
  <2>. HIDE DEF D
  <2>3. \A v \in D \cup {w} : availableWorkers'[v] \subseteq (D \cup {w}) \ {v}
    BY <2>1, <2>2
  <2>4. \A u, v \in D :
          u # v => (u \in availableWorkers'[v] <=> v \notin availableWorkers'[u])
    BY <2>1 DEF IInv, IdleListOrdered, D
  <2>5. \A u, v \in D \cup {w} :
          u # v => (u \in availableWorkers'[v] <=> v \notin availableWorkers'[u])
    BY <2>1, <2>2, <2>4
  <2>6. \A u, v \in D :
          u \in availableWorkers'[v] => availableWorkers'[u] \subseteq availableWorkers'[v]
    BY <2>1 DEF IInv, IdleListOrdered, D
  <2>7. \A u, v \in D \cup {w} :
          u \in availableWorkers'[v] => availableWorkers'[u] \subseteq availableWorkers'[v]
    BY <2>1, <2>2, <2>6
  <2>. QED  BY <2>1, <2>3, <2>5, <2>7 DEF IdleListOrdered
<1>. QED  BY <1>2, <1>3, <1>4, <1>5, <1>6, <1>7, <1>8 DEF IInv

LEMMA FromWorkerPreserves ==
    ASSUME IInv, NEW w \in Workers, NEW m \in WorkerMessage, FromWorker(w, m)
    PROVE  IInv'
<1>. PoolTypeOK /\ m \in Message
  BY DEF IInv, TypeOK, PoolTypeOK, WorkerMessage
<1>1. CASE EnvHello(w, m)
  BY <1>1, EnvHelloPreserves
<1>2. CASE EnvError(w, m)
  <2>1. PoolLoses(Expired \cup {w})
    BY <1>2, RemovePool DEF EnvError
  <2>2. /\ RoutesLose({c \in DOMAIN clientToWorker : clientToWorker[c] = w})
        /\ toClient' \in [Clients -> Seq(Message)]
    BY <1>2, DropRoute DEF IInv, EnvError
  <2>. QED
    BY <1>2, <2>1, <2>2, LosingPreserves DEF IInv, TypeOK, EnvError, ChannelsTypeOK
<1>3. CASE EnvEnd(w, m)
  <2>1. PoolLoses(Expired \cup {w})
    BY <1>3, RemovePool DEF EnvEnd
  <2>2. RoutesLose({m.client})
    BY <1>3, DeleteRoute DEF IInv, TypeOK, EnvEnd
  <2>. QED
    BY <1>3, <2>1, <2>2, LosingPreserves
    DEF IInv, TypeOK, EnvEnd, ChannelsTypeOK, channelVars
<1>4. CASE RelayToClient(w, m)
  <2>1. PoolLoses(Expired)
    BY <1>4, OnlyExpirePool DEF RelayToClient
  <2>2. RoutesLose({})
    BY <1>4, KeepRoutes DEF IInv, TypeOK, RelayToClient, routeVars
  <2>3. m.client \in online => m.client \in Clients
    BY ChannelsAssumption DEF Message, IInv, TypeOK, ChannelsTypeOK
  <2>4. toClient' \in [Clients -> Seq(Message)]
    BY <1>4, <2>3, DeliverType DEF IInv, TypeOK, ChannelsTypeOK, RelayToClient
  <2>. QED
    BY <1>4, <2>1, <2>2, <2>4, LosingPreserves
    DEF IInv, TypeOK, RelayToClient, ChannelsTypeOK, routeVars
<1>. QED  BY <1>1, <1>2, <1>3, <1>4 DEF FromWorker

\* Requests that leave the pool alone, but for the expiry, and take at most the
\* client's own route away.
LEMMA AnswerPreserves ==
    ASSUME IInv, OnlyExpire, NEW C, RoutesLose(C), UNCHANGED <<clientToEnv, serverUp, online>>,
           toClient' \in [Clients -> Seq(Message)], toWorker' \in [Workers -> Seq(Message)]
    PROVE  IInv'
<1>1. PoolLoses(Expired)
  BY OnlyExpirePool DEF IInv, TypeOK, PoolTypeOK
<1>. QED
  BY <1>1, LosingPreserves DEF IInv, TypeOK, ChannelsTypeOK

LEMMA AnswerTypes ==
    ASSUME IInv, NEW c \in Clients, NEW type \in MessageTypes, Answer(c, type)
    PROVE  /\ toClient' \in [Clients -> Seq(Message)]
           /\ toWorker' \in [Workers -> Seq(Message)]
<1>1. Msg(type, c) \in Message
  BY MsgType
<1>. QED  BY <1>1, DeliverType DEF IInv, TypeOK, ChannelsTypeOK, Answer

LEMMA RelayTypes ==
    ASSUME IInv, NEW c \in DOMAIN clientToWorker, NEW m \in Message,
           toWorker' = Deliver(toWorker, clientToWorker[c], m)
    PROVE  toWorker' \in [Workers -> Seq(Message)]
<1>1. clientToWorker[c] \in Workers
  BY DictsDef DEF IInv, TypeOK
<1>. QED  BY <1>1, DeliverType DEF IInv, TypeOK, ChannelsTypeOK

LEMMA AssignPreserves ==
    ASSUME IInv, NEW c \in Clients, NEW m \in ClientMessage(c), Assign(c, m)
    PROVE  IInv'
<1>. DEFINE n == Scoped(Session[c], m.env)
<1>. /\ m \in Message /\ m.env \in Envs
     /\ PoolTypeOK
  BY DEF ClientMessage, Assign, IInv, TypeOK, PoolTypeOK
<1>0. n \in EnvNames
  BY ServerAssumption DEF Scoped, EnvNames
<1>1. PICK w \in DOMAIN Available :
        /\ FirstOffering(w, n)
        /\ Remove(w)
        /\ clientToWorker' = Put(clientToWorker, c, w)
        /\ toWorker' = Deliver(toWorker, w, m)
  BY DEF Assign
<1>2. /\ w \in Workers
      /\ w \in DOMAIN availableWorkers
      /\ n \in Advertised(w)
  <2>1. w \in DOMAIN availableWorkers /\ w \in DOMAIN Offered
    BY AvailableType DEF IInv, PoolConsistent
  <2>2. w \in Workers
    BY <2>1, DictsDef DEF IInv, TypeOK
  <2>3. Offered[w] = Advertised(w)
    BY <2>1, AvailableType DEF IInv, RecordsGenuine
  <2>. QED  BY <1>1, <2>1, <2>2, <2>3 DEF FirstOffering
<1>3. PoolLoses(Expired \cup {w})
  BY <1>1, RemovePool
<1>4. /\ clientToWorker' \in Dicts(Clients, Workers)
      /\ DOMAIN clientToWorker' = DOMAIN clientToWorker \cup {c}
      /\ clientToWorker'[c] = w
      /\ \A d \in DOMAIN clientToWorker : d # c => clientToWorker'[d] = clientToWorker[d]
  BY <1>1, <1>2, DictsDef DEF IInv, TypeOK, Put
<1>5. /\ clientToEnv' \in Dicts(Clients, EnvNames)
      /\ DOMAIN clientToEnv' = DOMAIN clientToEnv \cup {c}
      /\ clientToEnv'[c] = n
      /\ \A d \in DOMAIN clientToEnv : d # c => clientToEnv'[d] = clientToEnv[d]
  BY <1>0, DictsDef DEF IInv, TypeOK, Put, Assign
<1>6. TypeOK'
  <2>1. toWorker' \in [Workers -> Seq(Message)]
    BY <1>1, <1>2, DeliverType DEF IInv, TypeOK, ChannelsTypeOK
  <2>. QED
    BY <1>3, <1>4, <1>5, <2>1
    DEF IInv, TypeOK, PoolLoses, PoolTypeOK, ChannelsTypeOK, Assign
<1>7. PoolConsistent'
  BY <1>3 DEF IInv, PoolConsistent, PoolLoses
<1>8. w \notin Values(clientToWorker)
  BY <1>2 DEF IInv, Exclusive
<1>9. Exclusive'
  BY <1>3, <1>4, <1>8 DEF IInv, Exclusive, PoolLoses, Values
<1>10. OneClientPerWorker'
  BY <1>4, <1>8 DEF IInv, OneClientPerWorker, Values
<1>11. RecordsGenuine'
  BY <1>3, <1>5 DEF IInv, RecordsGenuine, PoolLoses, Advertised, Scoped
<1>12. AssignedEnvOffered'
  BY <1>2, <1>4, <1>5 DEF IInv, AssignedEnvOffered, Assign
<1>13. IdleListOrdered'
  BY <1>3 DEF IInv, IdleListOrdered, PoolLoses
<1>. QED  BY <1>6, <1>7, <1>9, <1>10, <1>11, <1>12, <1>13 DEF IInv

LEMMA FromClientPreserves ==
    ASSUME IInv, NEW c \in Clients, NEW m \in ClientMessage(c), FromClient(c, m)
    PROVE  IInv'
<1>. m \in Message
  BY DEF ClientMessage
<1>. /\ {"env-error", "no-available-worker"} \subseteq MessageTypes
     /\ UNCHANGED routeVars => RoutesLose({})
  BY KeepRoutes DEF MessageTypes, IInv, TypeOK, routeVars
<1>1. CASE Reject(c, m)
  BY <1>1, AnswerTypes, AnswerPreserves DEF Reject, Answer, routeVars
<1>2. CASE StartAgain(c, m)
  <2>1. RoutesLose({c})
    BY <1>2, DeleteRoute DEF IInv, TypeOK, StartAgain
  <2>2. toWorker' \in [Workers -> Seq(Message)]
    BY <1>2, RelayTypes DEF StartAgain
  <2>3. toClient' \in [Clients -> Seq(Message)]
    BY <1>2, MsgType, DeliverType DEF StartAgain, IInv, TypeOK, ChannelsTypeOK
  <2>. QED  BY <1>2, <2>1, <2>2, <2>3, AnswerPreserves DEF StartAgain
<1>3. CASE Assign(c, m)
  BY <1>3, AssignPreserves
<1>4. CASE Refuse(c, m)
  BY <1>4, AnswerTypes, AnswerPreserves DEF Refuse, Answer, routeVars
<1>5. CASE RelayAction(c, m)
  <2>1. toWorker' \in [Workers -> Seq(Message)]
    BY <1>5, RelayTypes DEF RelayAction
  <2>. QED
    BY <1>5, <2>1, AnswerPreserves DEF RelayAction, IInv, TypeOK, ChannelsTypeOK, routeVars
<1>6. CASE Unroutable(c, m)
  BY <1>6, AnswerTypes, AnswerPreserves DEF Unroutable, Answer, routeVars
<1>. QED  BY <1>1, <1>2, <1>3, <1>4, <1>5, <1>6 DEF FromClient

LEMMA PeerStepsPreserve ==
    ASSUME IInv,
           \/ \E w \in Workers : HelloTimeout(w) \/ WorkerReads(w)
           \/ \E c \in Clients : ClientReads(c)
           \/ \E p \in Connecting : Connect(p) \/ Disconnect(p)
    PROVE  IInv'
<1>. USE BrokerAssumption
<1>1. ASSUME NEW w \in Workers, HelloTimeout(w)
      PROVE  IInv'
  <2>1. /\ helloTs' \in Dicts(Workers, {"fresh", "stale"})
        /\ DOMAIN helloTs' = DOMAIN helloTs
    BY <1>1, DictsDef DEF HelloTimeout, IInv, TypeOK
  <2>2. PoolLoses({}) /\ RoutesLose({})
    BY <1>1, <2>1, KeepRoutes DEF HelloTimeout, IInv, TypeOK, PoolLoses, PoolTypeOK, routeVars
  <2>. QED
    BY <1>1, <2>2, LosingPreserves
    DEF HelloTimeout, IInv, TypeOK, ChannelsTypeOK, routeVars, channelVars
<1>2. ASSUME NEW w \in Workers, WorkerReads(w)
      PROVE  IInv'
  <2>1. PICK n \in 1..Len(toWorker[w]) :
          toWorker' = [toWorker EXCEPT ![w] = SubSeq(@, n + 1, Len(@))]
    BY <1>2 DEF WorkerReads
  <2>2. SubSeq(toWorker[w], n + 1, Len(toWorker[w])) \in Seq(Message)
    BY DEF IInv, TypeOK, ChannelsTypeOK
  <2>3. toWorker' \in [Workers -> Seq(Message)]
    BY <2>1, <2>2 DEF IInv, TypeOK, ChannelsTypeOK
  <2>. QED  BY <1>2, <2>3, PeersPreserve DEF WorkerReads, IInv, TypeOK, ChannelsTypeOK
<1>3. ASSUME NEW c \in Clients, ClientReads(c)
      PROVE  IInv'
  BY <1>3, PeersPreserve DEF ClientReads, IInv, TypeOK, ChannelsTypeOK
<1>4. ASSUME NEW p \in Connecting, Connect(p)
      PROVE  IInv'
  BY <1>4, PeersPreserve DEF Connect, IInv, TypeOK, ChannelsTypeOK
<1>5. ASSUME NEW p \in Connecting, Disconnect(p)
      PROVE  IInv'
  BY <1>5, PeersPreserve DEF Disconnect, IInv, TypeOK, ChannelsTypeOK
<1>. QED  BY <1>1, <1>2, <1>3, <1>4, <1>5

LEMMA InitEstablishes == Init => IInv
<1>. SUFFICES ASSUME Init PROVE IInv
  OBVIOUS
<1>1. TypeOK
  BY EmptyDictType DEF Init, ServerInit, ChannelsInit, TypeOK, ChannelsTypeOK
<1>. QED
  BY <1>1, EmptyDictType
  DEF Init, ServerInit, IInv, PoolConsistent, IdleListOrdered, Exclusive, OneClientPerWorker,
      RecordsGenuine, AssignedEnvOffered

LEMMA NextPreserves == IInv /\ [Next]_vars => IInv'
<1>. SUFFICES ASSUME IInv, [Next]_vars PROVE IInv'
  OBVIOUS
<1>1. ASSUME NEW w \in Workers, NEW m \in WorkerMessage, FromWorker(w, m)
      PROVE  IInv'
  BY <1>1, FromWorkerPreserves
<1>2. ASSUME NEW c \in Clients, NEW m \in ClientMessage(c), FromClient(c, m)
      PROVE  IInv'
  BY <1>2, FromClientPreserves
<1>3. CASE UNCHANGED vars
  BY <1>3, PeersPreserve DEF vars, channelVars, IInv, TypeOK, ChannelsTypeOK
<1>. QED  BY <1>1, <1>2, <1>3, PeerStepsPreserve DEF Next

-----------------------------------------------------------------------------
\* The theorems about single states.

\* Whatever the peers send, the inductive invariant holds in every state.
THEOREM Inductive == Spec => []IInv
BY InitEstablishes, NextPreserves, PTL DEF Spec

\* The variables have their types.
THEOREM TypeCorrect == Spec => []TypeOK
BY Inductive, PTL DEF IInv

\* The list of idle workers and the dictionaries about them have the same
\* members: no remove, del or lookup of the poll loop can miss.
THEOREM PoolStaysConsistent == Spec => []PoolConsistent
BY Inductive, PTL DEF IInv

\* No worker is idle and dedicated at once.
THEOREM IdleOrDedicated == Spec => []Exclusive
BY Inductive, PTL DEF IInv

\* No worker is dedicated to two clients.
THEOREM Dedicated == Spec => []OneClientPerWorker
BY Inductive, PTL DEF IInv

\* A client's worker offers the environment the client asked for.
THEOREM ServedAsAsked == Spec => []AssignedEnvOffered
BY Inductive, PTL DEF IInv

\* What a worker may offer and a client may ask for keeps the sessions apart.
LEMMA ForeignFollows == IInv => ForeignOnlyByName
<1>. SUFFICES ASSUME IInv, NEW c \in DOMAIN clientToWorker,
                     Session[clientToWorker[c]] \notin {Official, Session[c]}
              PROVE  LET s == Session[clientToWorker[c]] IN
                     clientToEnv[c] = PrivateEnv[s] /\ clientToEnv[c] # PrivateEnv[Session[c]]
  BY DEF ForeignOnlyByName
<1>1. clientToEnv[c] = PrivateEnv[Session[clientToWorker[c]]]
  BY DEF IInv, AssignedEnvOffered, Advertised, Scoped
<1>2. c \in Clients /\ clientToWorker[c] \in Workers
  BY DictsDef DEF IInv, TypeOK
<1>. QED  BY <1>1, <1>2, ServerAssumption

\* A worker of another, unofficial session serves only clients that asked for
\* the environment of that session by its full name.
THEOREM ForeignServeByName == Spec => []ForeignOnlyByName
BY Inductive, ForeignFollows, PTL

-----------------------------------------------------------------------------
\* The action properties.

\* Only an env-start that finds a worker makes a route.
LEMMA NewRoutes ==
    ASSUME IInv, [Next]_vars, NEW c \in DOMAIN clientToWorker', c \notin DOMAIN clientToWorker
    PROVE  \E m \in ClientMessage(c) : Assign(c, m)
<1>1. ASSUME NEW C, RoutesLose(C)
      PROVE  FALSE
  BY <1>1 DEF RoutesLose
<1>2. ASSUME NEW w \in Workers, NEW m \in WorkerMessage, FromWorker(w, m)
      PROVE  FALSE
  <2>. m \in Message
    BY DEF WorkerMessage
  <2>1. CASE EnvHello(w, m)
    <3>1. Msg("env-error", NoClient) \in Message
      BY MsgType DEF MessageTypes
    <3>. QED  BY <1>1, <2>1, <3>1, DropRoute DEF IInv, EnvHello
  <2>2. CASE EnvError(w, m)
    BY <1>1, <2>2, DropRoute DEF IInv, EnvError
  <2>3. CASE EnvEnd(w, m)
    BY <1>1, <2>3, DeleteRoute DEF IInv, TypeOK, EnvEnd
  <2>4. CASE RelayToClient(w, m)
    BY <1>1, <2>4, KeepRoutes DEF IInv, TypeOK, RelayToClient, routeVars
  <2>. QED  BY <1>2, <2>1, <2>2, <2>3, <2>4 DEF FromWorker
<1>3. ASSUME NEW d \in Clients, NEW m \in ClientMessage(d), FromClient(d, m)
      PROVE  d = c /\ Assign(c, m)
  <2>1. CASE Assign(d, m)
    <3>1. DOMAIN clientToWorker' = DOMAIN clientToWorker \cup {d}
      BY <2>1 DEF Assign, Put
    <3>. QED  BY <2>1, <3>1
  <2>2. CASE UNCHANGED clientToWorker
    BY <2>2
  <2>3. CASE StartAgain(d, m)
    BY <1>1, <2>3, DeleteRoute DEF IInv, TypeOK, StartAgain
  <2>. QED
    BY <1>3, <2>1, <2>2, <2>3
    DEF FromClient, Reject, Refuse, RelayAction, Unroutable, routeVars
<1>4. ASSUME \/ \E w \in Workers : HelloTimeout(w) \/ WorkerReads(w)
             \/ \E d \in Clients : ClientReads(d)
             \/ \E p \in Connecting : Connect(p) \/ Disconnect(p)
             \/ UNCHANGED vars
      PROVE  FALSE
  BY <1>4
  DEF HelloTimeout, WorkerReads, ClientReads, Connect, Disconnect, vars,
      serverVars, routeVars
<1>. QED  BY <1>2, <1>3, <1>4 DEF Next

\* The worker an env-start is given was idle, has said hello in time, and was
\* ahead of every other one with the environment.
LEMMA AssignTakes ==
    ASSUME IInv, NEW c \in Clients, NEW m \in ClientMessage(c), Assign(c, m)
    PROVE  LET w == clientToWorker'[c] IN
           /\ w \in DOMAIN availableWorkers
           /\ helloTs[w] = "fresh"
           /\ PoolLoses(Expired \cup {w})
           /\ \A v \in availableWorkers[w] \ Expired : clientToEnv'[c] \notin envList[v]
<1>. PoolTypeOK
  BY DEF IInv, TypeOK, PoolTypeOK
<1>1. PICK w \in DOMAIN Available :
        /\ FirstOffering(w, Scoped(Session[c], m.env))
        /\ Remove(w)
        /\ clientToWorker' = Put(clientToWorker, c, w)
  BY DEF Assign
<1>2. clientToWorker'[c] = w /\ clientToEnv'[c] = Scoped(Session[c], m.env)
  BY <1>1 DEF Assign, Put
<1>3. w \in DOMAIN availableWorkers /\ w \notin Expired
  BY <1>1, AvailableType
<1>4. helloTs[w] = "fresh"
  BY <1>3, DictsDef DEF IInv, TypeOK, PoolConsistent, Expired
<1>5. \A v \in availableWorkers[w] \ Expired : Scoped(Session[c], m.env) \notin envList[v]
  <2>1. \A v \in Available[w] : Scoped(Session[c], m.env) \notin Offered[v]
    BY <1>1 DEF FirstOffering
  <2>2. availableWorkers[w] \ Expired \subseteq DOMAIN Offered
    BY <1>3, AvailableType DEF IInv, IdleListOrdered, PoolConsistent
  <2>. QED  BY <1>1, <2>1, <2>2, AvailableType
<1>. QED  BY <1>1, <1>2, <1>3, <1>4, <1>5, RemovePool

\* A worker whose hellos stopped is never dedicated to a client.
THEOREM SilentNeverAssigned == Spec => SilentWorkerNeverAssigned
<1>1. ASSUME IInv, [Next]_vars, NEW c \in DOMAIN clientToWorker',
             c \notin DOMAIN clientToWorker
      PROVE  helloTs[clientToWorker'[c]] = "fresh"
  <2>1. PICK m \in ClientMessage(c) : Assign(c, m)
    BY <1>1, NewRoutes
  <2>2. c \in Clients
    BY <2>1, ServerAssumption DEF Assign
  <2>. QED  BY <1>1, <2>1, <2>2, AssignTakes
<1>2. IInv /\ [Next]_vars =>
        [\A c \in DOMAIN clientToWorker' :
            c \notin DOMAIN clientToWorker =>
                helloTs[clientToWorker'[c]] = "fresh"]_vars
  BY <1>1
<1>. QED  BY <1>2, Inductive, PTL DEF Spec, SilentWorkerNeverAssigned

\* The workers that come into the idle list in a step, and what the step may do
\* to its order.
NewIdle ==
    {v \in DOMAIN availableWorkers' : \/ v \notin DOMAIN availableWorkers
                                      \/ helloTs[v] = "stale" /\ helloTs'[v] = "fresh"}
FifoStep ==
    LET D == DOMAIN availableWorkers' IN
    /\ \A v \in NewIdle : availableWorkers'[v] = D \ {v}
    /\ \A v \in D \ NewIdle : availableWorkers'[v] = availableWorkers[v] \cap (D \ NewIdle)

\* Workers that leave do not change the order of the others.
LEMMA LosingKeepsOrder ==
    ASSUME IInv, NEW L, PoolLoses(L),
           \A v \in DOMAIN helloTs' : helloTs'[v] = "fresh" => helloTs[v] = "fresh"
    PROVE  FifoStep
<1>1. DOMAIN helloTs' = DOMAIN availableWorkers'
  BY DEF IInv, PoolConsistent, PoolLoses
<1>2. NewIdle = {}
  BY <1>1 DEF NewIdle, PoolLoses
<1>3. \A v \in DOMAIN availableWorkers : availableWorkers[v] \subseteq DOMAIN availableWorkers
  BY DEF IInv, IdleListOrdered
<1>. QED  BY <1>2, <1>3 DEF FifoStep, PoolLoses

\* The expiry pass alone, or a worker that leaves after it.
LEMMA LeavingKeepsOrder ==
    ASSUME IInv, OnlyExpire \/ \E w \in Workers : Remove(w)
    PROVE  FifoStep
<1>. PoolTypeOK
  BY DEF IInv, TypeOK, PoolTypeOK
<1>1. CASE OnlyExpire
  <2>1. \A v \in DOMAIN helloTs' : helloTs'[v] = helloTs[v]
    BY <1>1 DEF OnlyExpire, LastHello, Without
  <2>. QED  BY <1>1, <2>1, OnlyExpirePool, LosingKeepsOrder
<1>2. ASSUME NEW w \in Workers, Remove(w)
      PROVE  FifoStep
  <2>1. \A v \in DOMAIN helloTs' : helloTs'[v] = helloTs[v]
    BY <1>2 DEF Remove, LastHello, Without
  <2>. QED  BY <1>2, <2>1, RemovePool, LosingKeepsOrder
<1>. QED  BY <1>1, <1>2

\* A hello: a worker that is not in the list after the expiry pass goes behind
\* all others, one that is there keeps its place.
LEMMA HelloOrders ==
    ASSUME IInv, NEW w \in Workers, NEW m \in WorkerMessage, EnvHello(w, m)
    PROVE  FifoStep
<1>. DEFINE S == DOMAIN availableWorkers \ Expired
<1>1. /\ DOMAIN availableWorkers' = S \cup {w}
      /\ \A v \in S \cup {w} :
            availableWorkers'[v] = IF v \in S THEN availableWorkers[v] \ Expired ELSE S
  BY HelloTypes
<1>2. DOMAIN helloTs = DOMAIN availableWorkers
  BY DEF IInv, PoolConsistent
<1>3. /\ helloTs'[w] = "fresh"
      /\ \A v \in S : v # w => helloTs'[v] = helloTs[v]
  BY <1>2 DEF EnvHello, Put, LastHello, Without
<1>4. \A v \in DOMAIN availableWorkers : v \in Expired <=> helloTs[v] = "stale"
  BY <1>2 DEF Expired
<1>5. NewIdle = IF w \in S THEN {} ELSE {w}
  BY <1>1, <1>2, <1>3, <1>4 DEF NewIdle
<1>6. \A v \in S : availableWorkers[v] \ Expired = availableWorkers[v] \cap S
  BY DEF IInv, IdleListOrdered
<1>. HIDE DEF S
<1>7. CASE w \in S
  <2>1. DOMAIN availableWorkers' = S /\ NewIdle = {} /\ S \ NewIdle = S
    BY <1>1, <1>5, <1>7
  <2>2. \A v \in S : availableWorkers'[v] = availableWorkers[v] \cap S
    BY <1>1, <1>6
  <2>. QED  BY <2>1, <2>2 DEF FifoStep
<1>8. CASE w \notin S
  BY <1>1, <1>5, <1>6, <1>8 DEF FifoStep
<1>. QED  BY <1>7, <1>8

\* The time of the last hello runs out, and nothing happens to the list.
LEMMA SilenceKeepsOrder ==
    ASSUME IInv, UNCHANGED <<availableWorkers, envList>>,
           helloTs' = helloTs \/ \E w \in Workers : HelloTimeout(w)
    PROVE  FifoStep
<1>. PoolTypeOK
  BY DEF IInv, TypeOK, PoolTypeOK
<1>1. /\ helloTs' \in Dicts(Workers, {"fresh", "stale"})
      /\ DOMAIN helloTs' = DOMAIN helloTs
      /\ \A v \in DOMAIN helloTs : helloTs'[v] = "fresh" => helloTs[v] = "fresh"
  BY DictsDef DEF HelloTimeout, PoolTypeOK
<1>2. PoolLoses({})
  BY <1>1 DEF PoolLoses, PoolTypeOK
<1>. QED  BY <1>1, <1>2, LosingKeepsOrder

\* The idle list is first in, first out.  A repeated hello renews the time but
\* not the place, so the order is that of coming into the list.
THEOREM IdleListIsFifo == Spec => IdleListFifo
<1>1. ASSUME IInv, [Next]_vars
      PROVE  FifoStep
  <2>1. ASSUME NEW w \in Workers, NEW m \in WorkerMessage, FromWorker(w, m)
        PROVE  FifoStep
    BY <1>1, <2>1, HelloOrders, LeavingKeepsOrder
    DEF FromWorker, EnvError, EnvEnd, RelayToClient
  <2>2. ASSUME NEW c \in Clients, NEW m \in ClientMessage(c), FromClient(c, m)
        PROVE  FifoStep
    <3>1. CASE Assign(c, m)
      <4>1. PICK w \in DOMAIN Available : Remove(w)
        BY <3>1 DEF Assign
      <4>2. w \in Workers
        BY <1>1, <4>1, AvailableType, DictsDef DEF IInv, TypeOK, PoolTypeOK
      <4>. QED  BY <1>1, <4>1, <4>2, LeavingKeepsOrder
    <3>2. CASE OnlyExpire
      BY <1>1, <3>2, LeavingKeepsOrder
    <3>. QED
      BY <2>2, <3>1, <3>2 DEF FromClient, Reject, StartAgain, Refuse, RelayAction, Unroutable
  <2>3. ASSUME \/ \E w \in Workers : HelloTimeout(w) \/ WorkerReads(w)
               \/ \E c \in Clients : ClientReads(c)
               \/ \E p \in Connecting : Connect(p) \/ Disconnect(p)
               \/ UNCHANGED vars
        PROVE  FifoStep
    BY <1>1, <2>3, SilenceKeepsOrder
    DEF HelloTimeout, WorkerReads, ClientReads, Connect, Disconnect, vars, serverVars, poolVars
  <2>. QED  BY <1>1, <2>1, <2>2, <2>3 DEF Next
<1>2. IInv /\ [Next]_vars =>
        [LET D   == DOMAIN availableWorkers'
             New == {v \in D : \/ v \notin DOMAIN availableWorkers
                               \/ helloTs[v] = "stale" /\ helloTs'[v] = "fresh"} IN
         /\ \A v \in New : availableWorkers'[v] = D \ {v}
         /\ \A v \in D \ New : availableWorkers'[v] = availableWorkers[v] \cap (D \ New)]_vars
  BY <1>1 DEF FifoStep, NewIdle
<1>. QED  BY <1>2, Inductive, PTL DEF Spec, IdleListFifo

\* The pool is a queue: of the workers that offer an environment, the one idle
\* for longest is dedicated first.
THEOREM OldestServesFirst == Spec => LongestIdleFirst
<1>1. ASSUME IInv, [Next]_vars, NEW c \in DOMAIN clientToWorker' \ DOMAIN clientToWorker,
             NEW v \in DOMAIN availableWorkers', clientToEnv'[c] \in envList[v]
      PROVE  clientToWorker'[c] \in availableWorkers[v]
  <2>1. PICK m \in ClientMessage(c) : Assign(c, m)
    BY <1>1, NewRoutes
  <2>2. c \in Clients
    BY <2>1, ServerAssumption DEF Assign
  <2>. DEFINE w == clientToWorker'[c]
  <2>3. /\ w \in DOMAIN availableWorkers
        /\ PoolLoses(Expired \cup {w})
        /\ \A u \in availableWorkers[w] \ Expired : clientToEnv'[c] \notin envList[u]
    BY <1>1, <2>1, <2>2, AssignTakes
  <2>. HIDE DEF w
  <2>4. v \in DOMAIN availableWorkers /\ v # w /\ v \notin Expired
    BY <1>1, <2>3 DEF PoolLoses
  <2>5. v \notin availableWorkers[w]
    BY <1>1, <2>3, <2>4
  <2>6. w \in availableWorkers[v]
    BY <1>1, <2>3, <2>4, <2>5 DEF IInv, IdleListOrdered
  <2>. QED  BY <2>6 DEF w
<1>2. IInv /\ [Next]_vars =>
        [\A c \in DOMAIN clientToWorker' \ DOMAIN clientToWorker :
            LET w == clientToWorker'[c] IN
            \A v \in DOMAIN availableWorkers' :
                clientToEnv'[c] \in envList[v] => w \in availableWorkers[v]]_vars
  BY <1>1
<1>. QED  BY <1>2, Inductive, PTL DEF Spec, LongestIdleFirst

\* What a send to the backend does to the queues: the last message of a queue
\* that grew is the one sent, and the queue is that of the worker it was sent to.
LEMMA DeliverGrows ==
    ASSUME NEW P, NEW queues \in [P -> Seq(Message)], NEW p, NEW m,
           NEW q \in P, Len(Deliver(queues, p, m)[q]) > Len(queues[q])
    PROVE  /\ q = p
           /\ Deliver(queues, p, m)[q][Len(Deliver(queues, p, m)[q])] = m
<1>1. CASE q = p /\ Deliver(queues, p, m) = [queues EXCEPT ![p] = Append(@, m)]
  <2>1. Deliver(queues, p, m)[q] = Append(queues[q], m)
    BY <1>1
  <2>2. queues[q] \in Seq(Message)
    OBVIOUS
  <2>3. Len(Append(queues[q], m)) = Len(queues[q]) + 1
    BY <2>2
  <2>. QED  BY <1>1, <2>1, <2>2, <2>3
<1>2. CASE q # p /\ Deliver(queues, p, m) = [queues EXCEPT ![p] = Append(@, m)]
  BY <1>2
<1>3. CASE Deliver(queues, p, m) = queues
  BY <1>3
<1>. QED  BY <1>1, <1>2, <1>3 DEF Deliver

\* A send of m to worker v for its client.
LEMMA HearsItsClient ==
    ASSUME IInv, NEW v, NEW m, toWorker' = Deliver(toWorker, v, m),
           NEW w \in Workers, Len(toWorker'[w]) > Len(toWorker[w])
    PROVE  w = v /\ toWorker'[w][Len(toWorker'[w])] = m
BY DeliverGrows DEF IInv, TypeOK, ChannelsTypeOK

LEMMA FromClientHears ==
    ASSUME IInv, NEW c \in Clients, NEW m \in ClientMessage(c), FromClient(c, m),
           NEW w \in Workers, Len(toWorker'[w]) > Len(toWorker[w])
    PROVE  LET d == toWorker'[w][Len(toWorker'[w])].client IN
           \/ d \in DOMAIN clientToWorker /\ clientToWorker[d] = w
           \/ d \in DOMAIN clientToWorker' /\ clientToWorker'[d] = w
<1>. m.client = c
  BY DEF ClientMessage
<1>1. CASE StartAgain(c, m) \/ RelayAction(c, m)
  BY <1>1, HearsItsClient DEF StartAgain, RelayAction
<1>2. CASE Assign(c, m)
  <2>1. PICK v \in DOMAIN Available :
          /\ clientToWorker' = Put(clientToWorker, c, v)
          /\ toWorker' = Deliver(toWorker, v, m)
    BY <1>2 DEF Assign
  <2>2. c \in DOMAIN clientToWorker' /\ clientToWorker'[c] = v
    BY <2>1 DEF Put
  <2>. QED  BY <2>1, <2>2, HearsItsClient
<1>3. CASE UNCHANGED toWorker
  BY <1>3 DEF IInv, TypeOK, ChannelsTypeOK
<1>. QED
  BY <1>1, <1>2, <1>3 DEF FromClient, Reject, Refuse, Unroutable, Answer

LEMMA NothingHeard ==
    ASSUME IInv, NEW w \in Workers, Len(toWorker'[w]) > Len(toWorker[w]),
           \/ \E v \in Workers, m \in WorkerMessage : FromWorker(v, m)
           \/ \E v \in Workers : HelloTimeout(v) \/ WorkerReads(v)
           \/ \E c \in Clients : ClientReads(c)
           \/ \E p \in Connecting : Connect(p) \/ Disconnect(p)
           \/ UNCHANGED vars
    PROVE  FALSE
<1>. toWorker[w] \in Seq(Message)
  BY DEF IInv, TypeOK, ChannelsTypeOK
<1>. Len(toWorker[w]) \in Nat
  OBVIOUS
<1>1. CASE UNCHANGED toWorker
  BY <1>1
<1>2. ASSUME NEW v \in Workers, WorkerReads(v)
      PROVE  FALSE
  <2>1. PICK n \in 1..Len(toWorker[v]) :
          toWorker' = [toWorker EXCEPT ![v] = SubSeq(@, n + 1, Len(@))]
    BY <1>2 DEF WorkerReads
  <2>2. CASE v = w
    <3>1. toWorker'[w] = SubSeq(toWorker[w], n + 1, Len(toWorker[w]))
      BY <2>1, <2>2 DEF IInv, TypeOK, ChannelsTypeOK
    <3>2. Len(SubSeq(toWorker[w], n + 1, Len(toWorker[w]))) <= Len(toWorker[w])
      BY <2>1, <2>2
    <3>. QED  BY <3>1, <3>2
  <2>3. CASE v # w
    BY <2>1, <2>3 DEF IInv, TypeOK, ChannelsTypeOK
  <2>. QED  BY <2>2, <2>3
<1>3. ASSUME NEW p \in Connecting, Disconnect(p)
      PROVE  FALSE
  BY <1>3 DEF Disconnect
<1>. QED
  BY <1>1, <1>2, <1>3
  DEF FromWorker, EnvHello, EnvError, EnvEnd, RelayToClient, HelloTimeout, ClientReads,
      Connect, vars, channelVars

\* A worker is sent messages only of the client it is dedicated to.
THEOREM HearsOneClient == Spec => WorkerHearsItsClient
<1>1. ASSUME IInv, [Next]_vars, NEW w \in Workers, Len(toWorker'[w]) > Len(toWorker[w])
      PROVE  LET c == toWorker'[w][Len(toWorker'[w])].client IN
             \/ c \in DOMAIN clientToWorker /\ clientToWorker[c] = w
             \/ c \in DOMAIN clientToWorker' /\ clientToWorker'[c] = w
  BY <1>1, FromClientHears, NothingHeard DEF Next
<1>2. IInv /\ [Next]_vars =>
        [\A w \in Workers :
            Len(toWorker'[w]) > Len(toWorker[w]) =>
                LET c == toWorker'[w][Len(toWorker'[w])].client IN
                \/ c \in DOMAIN clientToWorker /\ clientToWorker[c] = w
                \/ c \in DOMAIN clientToWorker' /\ clientToWorker'[c] = w]_vars
  BY <1>1
<1>. QED  BY <1>2, Inductive, PTL DEF Spec, WorkerHearsItsClient

-----------------------------------------------------------------------------
\* Refinement of WorkerPool.

\* What Holder says of a worker, in any state where no two routes lead to one.
LEMMA HolderCases ==
    ASSUME NEW D, NEW r, \A c, d \in DOMAIN r : r[c] = r[d] => c = d, NEW w
    PROVE  LET h == IF w \in D THEN Idle
                    ELSE IF w \in Values(r) THEN CHOOSE c \in DOMAIN r : r[c] = w
                    ELSE Absent
           IN  /\ w \in D => h = Idle
               /\ w \notin D /\ w \notin Values(r) => h = Absent
               /\ \A c \in DOMAIN r : w \notin D /\ r[c] = w => h = c
<1>1. ASSUME NEW c \in DOMAIN r, r[c] = w
      PROVE  (CHOOSE d \in DOMAIN r : r[d] = w) = c
  BY <1>1
<1>. QED  BY <1>1 DEF Values

LEMMA HolderNow ==
    ASSUME IInv, NEW w
    PROVE  /\ w \in DOMAIN availableWorkers => Holder(w) = Idle
           /\ w \notin DOMAIN availableWorkers /\ w \notin Values(clientToWorker)
                => Holder(w) = Absent
           /\ \A c \in DOMAIN clientToWorker :
                clientToWorker[c] = w => w \notin DOMAIN availableWorkers /\ Holder(w) = c
<1>1. \A c \in DOMAIN clientToWorker :
        clientToWorker[c] = w => w \notin DOMAIN availableWorkers
  BY DEF IInv, Exclusive, Values
<1>. QED  BY <1>1, HolderCases DEF IInv, OneClientPerWorker, Holder

LEMMA HolderNext ==
    ASSUME IInv', NEW w
    PROVE  /\ w \in DOMAIN availableWorkers' => Holder(w)' = Idle
           /\ w \notin DOMAIN availableWorkers' /\ w \notin Values(clientToWorker')
                => Holder(w)' = Absent
           /\ \A c \in DOMAIN clientToWorker' :
                clientToWorker'[c] = w => w \notin DOMAIN availableWorkers' /\ Holder(w)' = c
<1>1. \A c \in DOMAIN clientToWorker' :
        clientToWorker'[c] = w => w \notin DOMAIN availableWorkers'
  BY DEF IInv, Exclusive, Values
<1>. QED  BY <1>1, HolderCases DEF IInv, OneClientPerWorker, Holder

LEMMA LosingRefines ==
    ASSUME IInv, IInv', NEW L, PoolLoses(L), NEW C, RoutesLose(C)
    PROVE  Pool!Leave
<1>. DEFINE Gone == {v \in Workers : Holder(v)' = Absent}
<1>1. ASSUME NEW v \in Workers, v \notin Gone
      PROVE  Holder(v)' = Holder(v)
  <2>1. CASE v \in DOMAIN availableWorkers'
    BY <2>1, HolderNow, HolderNext DEF PoolLoses
  <2>2. ASSUME NEW c \in DOMAIN clientToWorker', clientToWorker'[c] = v
        PROVE  Holder(v)' = Holder(v)
    BY <2>2, HolderNow, HolderNext DEF RoutesLose
  <2>. QED  BY <1>1, <2>1, <2>2, HolderNext DEF Values
<1>2. [w \in Workers |-> Holder(w)]' = Pool!After(Gone)
  BY <1>1 DEF Pool!After
<1>. QED  BY <1>2 DEF Pool!Leave

LEMMA HelloRefines ==
    ASSUME IInv, IInv', NEW w \in Workers, NEW m \in WorkerMessage, EnvHello(w, m)
    PROVE  Pool!Join
<1>. DEFINE L == (DOMAIN availableWorkers \cap Expired) \ {w}
<1>1. RoutesLose({c \in DOMAIN clientToWorker : clientToWorker[c] = w})
  <2>1. Msg("env-error", NoClient) \in Message
    BY MsgType DEF MessageTypes
  <2>. QED  BY <2>1, DropRoute DEF IInv, EnvHello
<1>2. DOMAIN availableWorkers' = (DOMAIN availableWorkers \ Expired) \cup {w}
  BY HelloTypes
<1>3. ASSUME NEW v \in Workers
      PROVE  Holder(v)' = IF v = w THEN Idle ELSE IF v \in L THEN Absent ELSE Holder(v)
  <2>1. CASE v \in DOMAIN availableWorkers'
    BY <1>2, <2>1, HolderNow, HolderNext
  <2>2. CASE v \in L
    <3>1. v \notin Values(clientToWorker')
      BY <1>1, <2>2 DEF RoutesLose, IInv, Exclusive, Values
    <3>2. v \notin DOMAIN availableWorkers'
      BY <1>2, <2>2
    <3>. QED  BY <2>2, <3>1, <3>2, HolderNext
  <2>3. CASE v \notin DOMAIN availableWorkers' /\ v \notin L
    <3>1. v # w /\ v \notin DOMAIN availableWorkers
      BY <1>2, <2>3
    <3>2. v \in Values(clientToWorker') <=> v \in Values(clientToWorker)
      BY <1>1, <3>1 DEF RoutesLose, Values
    <3>3. \A c \in DOMAIN clientToWorker' : clientToWorker'[c] = clientToWorker[c]
      BY <1>1 DEF RoutesLose
    <3>4. CASE v \in Values(clientToWorker')
      <4>1. PICK c \in DOMAIN clientToWorker' : clientToWorker'[c] = v
        BY <3>4 DEF Values
      <4>2. c \in DOMAIN clientToWorker /\ clientToWorker[c] = v
        BY <1>1, <3>3, <4>1 DEF RoutesLose
      <4>. QED  BY <2>3, <3>1, <4>1, <4>2, HolderNow, HolderNext
    <3>5. CASE v \notin Values(clientToWorker')
      BY <2>3, <3>1, <3>2, <3>5, HolderNow, HolderNext
    <3>. QED  BY <3>4, <3>5
  <2>. QED  BY <2>1, <2>2, <2>3
<1>4. L \in SUBSET Pool!IdleWorkers
  <2>1. DOMAIN availableWorkers \subseteq Workers
    BY DictsDef DEF IInv, TypeOK
  <2>. QED  BY <2>1, HolderNow DEF Pool!IdleWorkers
<1>5. [v \in Workers |-> Holder(v)]' = [Pool!After(L) EXCEPT ![w] = Idle]
  BY <1>3 DEF Pool!After
<1>. QED  BY <1>4, <1>5 DEF Pool!Join

LEMMA AssignRefines ==
    ASSUME IInv, IInv', NEW c \in Clients, NEW m \in ClientMessage(c), Assign(c, m)
    PROVE  Pool!Serve
<1>1. PICK w \in DOMAIN Available :
        /\ Remove(w)
        /\ clientToWorker' = Put(clientToWorker, c, w)
  BY DEF Assign
<1>. DEFINE L == DOMAIN availableWorkers \cap Expired
<1>2. w \in DOMAIN availableWorkers /\ w \notin Expired /\ w \in Workers
  BY AvailableType, DictsDef DEF IInv, TypeOK, PoolTypeOK
<1>3. DOMAIN availableWorkers' = DOMAIN availableWorkers \ (Expired \cup {w})
  BY <1>1, RemovePool DEF IInv, TypeOK, PoolTypeOK, PoolLoses
<1>4. c \notin DOMAIN clientToWorker
  BY DEF Assign
<1>5. /\ DOMAIN clientToWorker' = DOMAIN clientToWorker \cup {c}
      /\ clientToWorker'[c] = w
      /\ \A d \in DOMAIN clientToWorker : clientToWorker'[d] = clientToWorker[d]
  BY <1>1, <1>4 DEF Put
<1>6. ASSUME NEW v \in Workers
      PROVE  Holder(v)' = IF v = w THEN c ELSE IF v \in L THEN Absent ELSE Holder(v)
  <2>1. CASE v = w
    BY <1>5, <2>1, HolderNext
  <2>2. CASE v # w /\ v \in DOMAIN availableWorkers'
    BY <1>3, <2>2, HolderNow, HolderNext
  <2>3. CASE v # w /\ v \in L
    <3>1. v \notin Values(clientToWorker) /\ v \notin DOMAIN availableWorkers'
      BY <1>3, <2>3 DEF IInv, Exclusive
    <3>2. v \notin Values(clientToWorker')
      BY <1>5, <2>3, <3>1 DEF Values
    <3>. QED  BY <2>3, <3>1, <3>2, HolderNext
  <2>4. CASE v # w /\ v \notin DOMAIN availableWorkers' /\ v \notin L
    <3>1. v \notin DOMAIN availableWorkers
      BY <1>3, <2>4
    <3>2. ASSUME NEW d \in DOMAIN clientToWorker, clientToWorker[d] = v
          PROVE  Holder(v)' = Holder(v)
      BY <1>5, <3>2, HolderNow, HolderNext
    <3>3. CASE v \notin Values(clientToWorker)
      <4>1. v \notin Values(clientToWorker')
        BY <1>5, <2>4, <3>3 DEF Values
      <4>. QED  BY <2>4, <3>1, <3>3, <4>1, HolderNow, HolderNext
    <3>. QED  BY <2>4, <3>2, <3>3 DEF Values
  <2>. QED  BY <2>1, <2>2, <2>3, <2>4
<1>7. L \in SUBSET Pool!IdleWorkers /\ w \in Pool!IdleWorkers /\ w \notin L
  <2>1. DOMAIN availableWorkers \subseteq Workers
    BY DictsDef DEF IInv, TypeOK
  <2>. QED  BY <1>2, <2>1, HolderNow DEF Pool!IdleWorkers
<1>8. \A v \in Workers : Holder(v) # c
  BY <1>4, HolderNow, BrokerAssumption DEF Values
<1>9. [v \in Workers |-> Holder(v)]' = [Pool!After(L) EXCEPT ![w] = c]
  BY <1>2, <1>6 DEF Pool!After
<1>. QED  BY <1>7, <1>8, <1>9 DEF Pool!Serve

LEMMA FromWorkerRefines ==
    ASSUME IInv, IInv', NEW w \in Workers, NEW m \in WorkerMessage, FromWorker(w, m)
    PROVE  Pool!Next
<1>. PoolTypeOK /\ m \in Message
  BY DEF IInv, TypeOK, PoolTypeOK, WorkerMessage
<1>1. CASE EnvHello(w, m)
  BY <1>1, HelloRefines DEF Pool!Next
<1>2. CASE EnvError(w, m)
  BY <1>2, RemovePool, DropRoute, LosingRefines DEF EnvError, IInv, Pool!Next
<1>3. CASE EnvEnd(w, m)
  BY <1>3, RemovePool, DeleteRoute, LosingRefines DEF EnvEnd, IInv, TypeOK, Pool!Next
<1>4. CASE RelayToClient(w, m)
  BY <1>4, OnlyExpirePool, KeepRoutes, LosingRefines
  DEF RelayToClient, IInv, TypeOK, routeVars, Pool!Next
<1>. QED  BY <1>1, <1>2, <1>3, <1>4 DEF FromWorker

LEMMA FromClientRefines ==
    ASSUME IInv, IInv', NEW c \in Clients, NEW m \in ClientMessage(c), FromClient(c, m)
    PROVE  Pool!Next
<1>1. CASE Assign(c, m)
  BY <1>1, AssignRefines DEF Pool!Next
<1>2. CASE OnlyExpire /\ UNCHANGED clientToWorker
  BY <1>2, OnlyExpirePool, KeepRoutes, LosingRefines
  DEF IInv, TypeOK, PoolTypeOK, Pool!Next
<1>3. CASE StartAgain(c, m)
  BY <1>3, OnlyExpirePool, DeleteRoute, LosingRefines
  DEF StartAgain, IInv, TypeOK, PoolTypeOK, Pool!Next
<1>. QED
  BY <1>1, <1>2, <1>3
  DEF FromClient, Reject, Refuse, RelayAction, Unroutable, routeVars

LEMMA PeersStutter ==
    ASSUME UNCHANGED <<availableWorkers, clientToWorker>>
    PROVE  UNCHANGED [w \in Workers |-> Holder(w)]
BY DEF Holder

LEMMA StepRefines ==
    IInv /\ IInv' /\ [Next]_vars => [Pool!Next]_([w \in Workers |-> Holder(w)])
<1>. SUFFICES ASSUME IInv, IInv', [Next]_vars
              PROVE  Pool!Next \/ UNCHANGED [w \in Workers |-> Holder(w)]
  OBVIOUS
<1>1. ASSUME NEW w \in Workers, NEW m \in WorkerMessage, FromWorker(w, m)
      PROVE  Pool!Next
  BY <1>1, FromWorkerRefines
<1>2. ASSUME NEW c \in Clients, NEW m \in ClientMessage(c), FromClient(c, m)
      PROVE  Pool!Next
  BY <1>2, FromClientRefines
<1>3. ASSUME \/ \E w \in Workers : HelloTimeout(w) \/ WorkerReads(w)
             \/ \E c \in Clients : ClientReads(c)
             \/ \E p \in Connecting : Connect(p) \/ Disconnect(p)
             \/ UNCHANGED vars
      PROVE  UNCHANGED [w \in Workers |-> Holder(w)]
  BY <1>3, PeersStutter
  DEF HelloTimeout, WorkerReads, ClientReads, Connect, Disconnect, vars,
      serverVars, poolVars, routeVars
<1>. QED  BY <1>1, <1>2, <1>3 DEF Next

LEMMA InitRefines == Init => Pool!Init
<1>1. Init => \A w \in Workers : Holder(w) = Absent
  BY EmptyDictType DEF Init, ServerInit, Holder, Values
<1>. QED  BY <1>1 DEF Pool!Init

\* The server, whatever its peers do, implements the pool of dedicated workers.
THEOREM Refinement == Spec => ImplementsWorkerPool
<1>1. Init => Pool!Init
  BY InitRefines
<1>2. IInv /\ IInv' /\ [Next]_vars => [Pool!Next]_([w \in Workers |-> Holder(w)])
  BY StepRefines
<1>. QED
  BY <1>1, <1>2, Inductive, PTL DEF Spec, ImplementsWorkerPool, Pool!Spec

=============================================================================
