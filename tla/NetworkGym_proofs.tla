-------------------------- MODULE NetworkGym_proofs --------------------------
(***************************************************************************)
(* Proofs about NetworkGym, with every disturbance: the whole system is    *)
(* the server among arbitrary peers, so the theorems about Broker hold for *)
(* it, and its variables have their types.  The inductive invariant        *)
(* WireInv says what the sockets may carry and which processes have one.   *)
(***************************************************************************)
EXTENDS NetworkGym, TLAPS, FiniteSetTheorems, SequenceTheorems

\* The theorems about Broker, for the server of this module among any peers.
BP == INSTANCE Broker_proofs WITH Connecting <- Clients \cup Workers

\* The copies of the server's definitions that NetworkGym knows as Peers and
\* the theorems about it as BP are the server's own: here those of the expiry
\* pass.
LEMMA SamePool ==
    /\ Peers!Available = Available /\ BP!Available = Available
    /\ Peers!Offered = Offered /\ BP!Offered = Offered
    /\ Peers!LastHello = LastHello /\ BP!LastHello = LastHello
BY DEF Expired, Available, Offered, LastHello, Without,
       Peers!Expired, Peers!Available, Peers!Offered, Peers!LastHello, Peers!Without,
       BP!Expired, BP!Available, BP!Offered, BP!LastHello, BP!Without

\* ... those of dictionaries, messages and queues.
LEMMA SameData ==
    /\ \A d, k, v : Peers!Put(d, k, v) = Put(d, k, v) /\ BP!Put(d, k, v) = Put(d, k, v)
    /\ \A d, k : Peers!Without(d, k) = Without(d, k) /\ BP!Without(d, k) = Without(d, k)
    /\ \A d : Peers!Values(d) = Values(d) /\ BP!Values(d) = Values(d)
    /\ \A t, c : Peers!Msg(t, c) = Msg(t, c) /\ BP!Msg(t, c) = Msg(t, c)
    /\ \A s, e : Peers!Scoped(s, e) = Scoped(s, e) /\ BP!Scoped(s, e) = Scoped(s, e)
    /\ \A q, p, m :
        Peers!Deliver(q, p, m) = Deliver(q, p, m) /\ BP!Deliver(q, p, m) = Deliver(q, p, m)
BY DEF Put, Without, Values, Msg, Scoped, Deliver,
       Peers!Put, Peers!Without, Peers!Values, Peers!Msg, Peers!Scoped, Peers!Deliver,
       BP!Put, BP!Without, BP!Values, BP!Msg, BP!Scoped, BP!Deliver

\* ... the shared parts of the handlers.
LEMMA SameParts ==
    /\ Peers!OnlyExpire <=> OnlyExpire
    /\ BP!OnlyExpire <=> OnlyExpire
    /\ \A w : (Peers!Remove(w) <=> Remove(w)) /\ (BP!Remove(w) <=> Remove(w))
    /\ \A w : Peers!Advertised(w) = Advertised(w) /\ BP!Advertised(w) = Advertised(w)
    /\ \A w, m : /\ Peers!DropRouteTo(w, m) <=> DropRouteTo(w, m)
                 /\ BP!DropRouteTo(w, m) <=> DropRouteTo(w, m)
<1>1. (Peers!OnlyExpire <=> OnlyExpire) /\ (BP!OnlyExpire <=> OnlyExpire)
  BY SamePool DEF OnlyExpire, Peers!OnlyExpire, BP!OnlyExpire
<1>2. \A w : (Peers!Remove(w) <=> Remove(w)) /\ (BP!Remove(w) <=> Remove(w))
  BY SamePool, SameData DEF Remove, Peers!Remove, BP!Remove
<1>3. \A w : Peers!Advertised(w) = Advertised(w) /\ BP!Advertised(w) = Advertised(w)
  BY SameData DEF Advertised, Peers!Advertised, BP!Advertised
<1>4. \A w, m : /\ Peers!DropRouteTo(w, m) <=> DropRouteTo(w, m)
                /\ BP!DropRouteTo(w, m) <=> DropRouteTo(w, m)
  BY SameData DEF DropRouteTo, Peers!DropRouteTo, BP!DropRouteTo
<1>. QED BY <1>1, <1>2, <1>3, <1>4

\* ... the handlers of a worker's messages.
LEMMA SameWorker ==
    \A w, m : /\ Peers!FromWorker(w, m) <=> FromWorker(w, m)
              /\ BP!FromWorker(w, m) <=> FromWorker(w, m)
<1>. SUFFICES ASSUME NEW w, NEW m
              PROVE  /\ Peers!FromWorker(w, m) <=> FromWorker(w, m)
                     /\ BP!FromWorker(w, m) <=> FromWorker(w, m)
  OBVIOUS
<1>. USE SamePool, SameData, SameParts
     DEF channelVars, Peers!channelVars, BP!channelVars, routeVars, Peers!routeVars, BP!routeVars
<1>1. (Peers!EnvHello(w, m) <=> EnvHello(w, m)) /\ (BP!EnvHello(w, m) <=> EnvHello(w, m))
  BY DEF EnvHello, Enlist, Peers!EnvHello, Peers!Enlist, BP!EnvHello, BP!Enlist
<1>2. (Peers!EnvError(w, m) <=> EnvError(w, m)) /\ (BP!EnvError(w, m) <=> EnvError(w, m))
  BY DEF EnvError, Peers!EnvError, BP!EnvError
<1>3. (Peers!EnvEnd(w, m) <=> EnvEnd(w, m)) /\ (BP!EnvEnd(w, m) <=> EnvEnd(w, m))
  BY DEF EnvEnd, Peers!EnvEnd, BP!EnvEnd
<1>4. /\ Peers!RelayToClient(w, m) <=> RelayToClient(w, m)
      /\ BP!RelayToClient(w, m) <=> RelayToClient(w, m)
  BY DEF RelayToClient, Peers!RelayToClient, BP!RelayToClient
<1>. QED
  BY <1>1, <1>2, <1>3, <1>4 DEF FromWorker, Peers!FromWorker, BP!FromWorker

\* ... the handlers of a client's messages.
LEMMA SameClient ==
    \A c, m : /\ Peers!FromClient(c, m) <=> FromClient(c, m)
              /\ BP!FromClient(c, m) <=> FromClient(c, m)
<1>. SUFFICES ASSUME NEW c, NEW m
              PROVE  /\ Peers!FromClient(c, m) <=> FromClient(c, m)
                     /\ BP!FromClient(c, m) <=> FromClient(c, m)
  OBVIOUS
<1>. USE SamePool, SameData, SameParts
     DEF Answer, Peers!Answer, BP!Answer, routeVars, Peers!routeVars, BP!routeVars
<1>1. (Peers!Reject(c, m) <=> Reject(c, m)) /\ (BP!Reject(c, m) <=> Reject(c, m))
  BY DEF Reject, Peers!Reject, BP!Reject
<1>2. (Peers!StartAgain(c, m) <=> StartAgain(c, m)) /\ (BP!StartAgain(c, m) <=> StartAgain(c, m))
  BY DEF StartAgain, Peers!StartAgain, BP!StartAgain
<1>3. \A w, n : /\ Peers!FirstOffering(w, n) <=> FirstOffering(w, n)
                /\ BP!FirstOffering(w, n) <=> FirstOffering(w, n)
  BY DEF FirstOffering, Peers!FirstOffering, BP!FirstOffering
<1>4. (Peers!Assign(c, m) <=> Assign(c, m)) /\ (BP!Assign(c, m) <=> Assign(c, m))
  BY <1>3 DEF Assign, Peers!Assign, BP!Assign
<1>5. (Peers!Refuse(c, m) <=> Refuse(c, m)) /\ (BP!Refuse(c, m) <=> Refuse(c, m))
  BY DEF Refuse, Peers!Refuse, BP!Refuse
<1>6. (Peers!RelayAction(c, m) <=> RelayAction(c, m)) /\ (BP!RelayAction(c, m) <=> RelayAction(c, m))
  BY DEF RelayAction, Peers!RelayAction, BP!RelayAction
<1>7. (Peers!Unroutable(c, m) <=> Unroutable(c, m)) /\ (BP!Unroutable(c, m) <=> Unroutable(c, m))
  BY DEF Unroutable, Peers!Unroutable, BP!Unroutable
<1>. QED
  BY <1>1, <1>2, <1>4, <1>5, <1>6, <1>7 DEF FromClient, Peers!FromClient, BP!FromClient

\* ... the steps of the server and its peers.
LEMMA SameNext == [Peers!Next]_(Peers!vars) <=> [BP!Next]_(BP!vars)
<1>1. UNCHANGED Peers!vars <=> UNCHANGED BP!vars
  BY DEF Peers!vars, Peers!serverVars, Peers!poolVars, Peers!routeVars, Peers!channelVars,
         BP!vars, BP!serverVars, BP!poolVars, BP!routeVars, BP!channelVars
<1>2. UNCHANGED Peers!serverVars <=> UNCHANGED BP!serverVars
  BY DEF Peers!serverVars, Peers!poolVars, Peers!routeVars,
         BP!serverVars, BP!poolVars, BP!routeVars
<1>3. /\ Peers!WorkerMessage = BP!WorkerMessage
      /\ \A c : Peers!ClientMessage(c) = BP!ClientMessage(c)
  BY DEF Peers!WorkerMessage, Peers!ClientMessage, Peers!Message, Peers!MessageTypes,
         BP!WorkerMessage, BP!ClientMessage, BP!Message, BP!MessageTypes
<1>4. \A w : Peers!HelloTimeout(w) <=> BP!HelloTimeout(w)
  BY DEF Peers!HelloTimeout, Peers!routeVars, Peers!channelVars,
         BP!HelloTimeout, BP!routeVars, BP!channelVars
<1>5. \A w : Peers!WorkerReads(w) <=> BP!WorkerReads(w)
  BY <1>2 DEF Peers!WorkerReads, BP!WorkerReads
<1>6. \A c : Peers!ClientReads(c) <=> BP!ClientReads(c)
  BY <1>2 DEF Peers!ClientReads, BP!ClientReads
<1>7. \A p : /\ Peers!Connect(p) <=> BP!Connect(p)
             /\ Peers!Disconnect(p) <=> BP!Disconnect(p)
  BY <1>2 DEF Peers!Connect, Peers!Disconnect, BP!Connect, BP!Disconnect
<1>. QED
  BY <1>1, <1>3, <1>4, <1>5, <1>6, <1>7, SameWorker, SameClient DEF Peers!Next, BP!Next

\* ... the initial states.
LEMMA SameInit == Peers!Init <=> BP!Init
BY DEF Peers!Init, Peers!ServerInit, Peers!ChannelsInit, Peers!EmptyDict,
       BP!Init, BP!ServerInit, BP!ChannelsInit, BP!EmptyDict

\* ... the specifications.
LEMMA SameSpec == Peers!Spec <=> BP!Spec
BY SameInit, SameNext, PTL DEF Peers!Spec, BP!Spec

-----------------------------------------------------------------------------

\* Clients and workers send what Broker lets them send.
OnTheWire ==
    /\ \A c \in Clients : toServer[c] \in Seq(Peers!ClientMessage(c))
    /\ \A w \in Workers : fromWorker[w] \in Seq(Peers!WorkerMessage)

\* Who has a socket, and that nothing is queued for anyone else.
Sockets ==
    /\ \A c \in Clients : clientPc[c] = "off" <=> c \notin online
    /\ \A w \in Workers : workerPc[w] \in {"dead", "launch", "down"} <=> w \notin online
    /\ \A c \in Clients : c \notin online => toClient[c] = <<>>
    /\ \A w \in Workers : w \notin online => toWorker[w] = <<>>

\* An agent that thinks has a step left; so has a simulator that runs or
\* waits.
Progress ==
    /\ \A c \in Clients :
        clientPc[c] = "think" => step[c] < StepsPerEpisode \/ episode[c] < Episodes
    /\ \A w \in Workers :
        /\ workerPc[w] \in {"dead", "idle"} => waitCounter[w] = 0
        /\ workerPc[w] \in {"launch", "run"} => waitCounter[w] < TotalSteps
        /\ workerPc[w] = "wait" => waitCounter[w] + 1 < TotalSteps

\* The inductive invariant.
WireInv ==
    /\ ChannelsTypeOK
    /\ ClientTypeOK
    /\ WorkerTypeOK
    /\ OnTheWire
    /\ Sockets
    /\ Progress

\* What a step of the server or of a peer may do to the server's outgoing
\* queues.
QueuesOK ==
    /\ toClient' \in [Clients -> Seq(Message)]
    /\ toWorker' \in [Workers -> Seq(Message)]
    /\ \A c \in Clients : c \notin online => toClient'[c] = toClient[c]
    /\ \A w \in Workers : w \notin online => toWorker'[w] = toWorker[w]

\* The messages of the peers, by their types.
LEMMA MessagesOfPeers ==
    /\ Peers!Message = Message
    /\ \A c \in Clients : Peers!ClientMessage(c) =
        {m \in Message : /\ m.type \in {"env-start", "env-action", "other"}
                         /\ m.client = c
                         /\ m.type = "env-start" <=> m.env \in Envs}
    /\ Peers!WorkerMessage =
        {m \in Message : /\ m.type \in {"env-hello", "env-error", "env-end",
                                        "env-measurement", "other"}
                         /\ m.env = NoEnv}
<1>1. Peers!Message = Message
  BY DEF Peers!Message, Message, Peers!MessageTypes, MessageTypes
<1>. QED  BY <1>1 DEF Peers!ClientMessage, Peers!WorkerMessage

\* A ROUTER socket queues messages, and none for who is not connected.
LEMMA DeliverType ==
    ASSUME NEW P, NEW queues \in [P -> Seq(Message)], NEW p, NEW m \in Message
    PROVE  /\ Deliver(queues, p, m) \in [P -> Seq(Message)]
           /\ \A q \in P : q \notin online => Deliver(queues, p, m)[q] = queues[q]
<1>1. CASE p \in P
  BY <1>1 DEF Deliver
<1>2. CASE p \notin P
  <2>1. [queues EXCEPT ![p] = Append(@, m)] = queues
    BY <1>2
  <2>. QED  BY <2>1 DEF Deliver
<1>. QED  BY <1>1, <1>2

\* A message without a body is a message.
LEMMA MsgType ==
    ASSUME NEW type \in MessageTypes, NEW c \in Clients \cup {NoClient}
    PROVE  Msg(type, c) \in Message
BY ChannelsAssumption DEF Msg, Message

\* The first message of a queue, and the queue without it.
LEMMA HeadTail ==
    ASSUME NEW S, NEW q \in Seq(S), q # <<>>
    PROVE  /\ Head(q) \in S
           /\ Tail(q) \in Seq(S)
OBVIOUS

\* The client of a failed worker is told over its own queue.
LEMMA DropRouteQueues ==
    ASSUME NEW w, NEW m \in Message, DropRouteTo(w, m), toClient \in [Clients -> Seq(Message)]
    PROVE  /\ toClient' \in [Clients -> Seq(Message)]
           /\ \A c \in Clients : c \notin online => toClient'[c] = toClient[c]
<1>1. CASE UNCHANGED toClient
  BY <1>1
<1>2. ASSUME NEW c, toClient' = Deliver(toClient, c, m)
      PROVE  /\ toClient' \in [Clients -> Seq(Message)]
             /\ \A d \in Clients : d \notin online => toClient'[d] = toClient[d]
  BY <1>2, DeliverType
<1>. QED  BY <1>1, <1>2 DEF DropRouteTo

\* A worker's message changes the outgoing queues only.
LEMMA FromWorkerQueues ==
    ASSUME WireInv, NEW w \in Workers, NEW m \in Message, FromWorker(w, m)
    PROVE  QueuesOK /\ UNCHANGED online
<1>. /\ toClient \in [Clients -> Seq(Message)]
     /\ toWorker \in [Workers -> Seq(Message)]
  BY DEF WireInv, ChannelsTypeOK
<1>. Msg("env-error", NoClient) \in Message
  BY MsgType DEF MessageTypes
<1>. USE DeliverType, DropRouteQueues DEF QueuesOK, channelVars
<1>1. CASE EnvHello(w, m)
  BY <1>1 DEF EnvHello
<1>2. CASE EnvError(w, m)
  BY <1>2 DEF EnvError
<1>3. CASE EnvEnd(w, m)
  BY <1>3 DEF EnvEnd
<1>4. CASE RelayToClient(w, m)
  BY <1>4 DEF RelayToClient
<1>. QED  BY <1>1, <1>2, <1>3, <1>4 DEF FromWorker

\* So does a client's message.
LEMMA FromClientQueues ==
    ASSUME WireInv, NEW c \in Clients, NEW m \in Message, FromClient(c, m)
    PROVE  QueuesOK /\ UNCHANGED online
<1>. /\ toClient \in [Clients -> Seq(Message)]
     /\ toWorker \in [Workers -> Seq(Message)]
  BY DEF WireInv, ChannelsTypeOK
<1>. /\ Msg("env-error", c) \in Message
     /\ Msg("no-available-worker", c) \in Message
  BY MsgType DEF MessageTypes
<1>. USE DeliverType DEF QueuesOK, Answer
<1>1. CASE Reject(c, m)
  BY <1>1 DEF Reject
<1>2. CASE StartAgain(c, m)
  BY <1>2 DEF StartAgain
<1>3. CASE Assign(c, m)
  BY <1>3 DEF Assign
<1>4. CASE Refuse(c, m)
  BY <1>4 DEF Refuse
<1>5. CASE RelayAction(c, m)
  BY <1>5 DEF RelayAction
<1>6. CASE Unroutable(c, m)
  BY <1>6 DEF Unroutable
<1>. QED  BY <1>1, <1>2, <1>3, <1>4, <1>5, <1>6 DEF FromClient

\* The server's step is one of Broker.
LEMMA ServerStepWire ==
    ASSUME WireInv, ServerStep
    PROVE  WireInv' /\ Peers!Next
<1>1. ASSUME NEW w \in Workers, ServerHears(w)
      PROVE  WireInv' /\ Peers!Next
  <2>1. /\ Head(fromWorker[w]) \in Peers!WorkerMessage
        /\ Tail(fromWorker[w]) \in Seq(Peers!WorkerMessage)
    BY <1>1, HeadTail DEF WireInv, OnTheWire, ServerHears
  <2>2. Head(fromWorker[w]) \in Message /\ Tail(fromWorker[w]) \in Seq(Message)
    BY <1>1, <2>1, HeadTail DEF WireInv, WorkerTypeOK, ServerHears
  <2>3. QueuesOK /\ UNCHANGED online
    BY <1>1, <2>2, FromWorkerQueues DEF ServerHears
  <2>4. Peers!Next
    BY <1>1, <2>1, SameWorker DEF ServerHears, Peers!Next
  <2>5. ChannelsTypeOK' /\ ClientTypeOK' /\ WorkerTypeOK'
    BY <1>1, <2>2, <2>3
    DEF WireInv, QueuesOK, ServerHears, ChannelsTypeOK, ClientTypeOK, clientVars, WorkerTypeOK
  <2>6. OnTheWire'
    BY <1>1, <2>1 DEF WireInv, OnTheWire, ServerHears, WorkerTypeOK, clientVars
  <2>7. Sockets' /\ Progress'
    BY <1>1, <2>3 DEF WireInv, QueuesOK, Sockets, Progress, ServerHears, clientVars
  <2>. QED  BY <2>4, <2>5, <2>6, <2>7 DEF WireInv
<1>2. ASSUME NEW c \in Clients, ServerServes(c)
      PROVE  WireInv' /\ Peers!Next
  <2>1. /\ Head(toServer[c]) \in Peers!ClientMessage(c)
        /\ Tail(toServer[c]) \in Seq(Peers!ClientMessage(c))
    BY <1>2, HeadTail DEF WireInv, OnTheWire, ServerServes
  <2>2. Head(toServer[c]) \in Message /\ Tail(toServer[c]) \in Seq(Message)
    BY <1>2, <2>1, HeadTail DEF WireInv, ClientTypeOK, ServerServes
  <2>3. QueuesOK /\ UNCHANGED online
    BY <1>2, <2>2, FromClientQueues DEF ServerServes
  <2>4. Peers!Next
    BY <1>2, <2>1, SameClient DEF ServerServes, Peers!Next
  <2>5. ChannelsTypeOK' /\ ClientTypeOK' /\ WorkerTypeOK'
    BY <1>2, <2>2, <2>3
    DEF WireInv, QueuesOK, ServerServes, ChannelsTypeOK, ClientTypeOK, workerVars, WorkerTypeOK
  <2>6. OnTheWire'
    BY <1>2, <2>1 DEF WireInv, OnTheWire, ServerServes, ClientTypeOK, workerVars
  <2>7. Sockets' /\ Progress'
    BY <1>2, <2>3 DEF WireInv, QueuesOK, Sockets, Progress, ServerServes, workerVars
  <2>. QED  BY <2>4, <2>5, <2>6, <2>7 DEF WireInv
<1>. QED  BY <1>1, <1>2 DEF ServerStep


-----------------------------------------------------------------------------
\* Steps of the clients.

\* A request is put behind those in transit.
LEMMA SendWire ==
    ASSUME WireInv, NEW c \in Clients, NEW m \in Peers!ClientMessage(c), Send(c, m)
    PROVE  /\ toServer' \in [Clients -> Seq(Message)]
           /\ \A d \in Clients : toServer'[d] \in Seq(Peers!ClientMessage(d))
<1>. m \in Message
  BY MessagesOfPeers
<1>. QED  BY DEF WireInv, ClientTypeOK, OnTheWire, Send

\* The requests that a client makes.
LEMMA RequestTypes ==
    ASSUME WireInv, NEW c \in Clients
    PROVE  /\ EnvStart(c) \in Peers!ClientMessage(c)
           /\ EnvAction(c) \in Peers!ClientMessage(c)
<1>. EnvOf[c] \in Envs /\ NoEnv \notin Envs /\ statsTs[c] \in Timestamps /\ 0 \in Timestamps
  BY ChannelsAssumption, ClientAssumption DEF WireInv, ClientTypeOK
<1>. QED  BY MessagesOfPeers DEF EnvStart, EnvAction, Msg, Message, MessageTypes

\* The end of a client's process is a disconnection for the server.
LEMMA ExitWire ==
    ASSUME WireInv, NEW c \in Clients, Exit(c), clientPc[c] # "off",
           UNCHANGED <<toWorker, launches, serverVars, workerVars>>,
           toServer' \in [Clients -> Seq(Message)],
           \A d \in Clients : toServer'[d] \in Seq(Peers!ClientMessage(d))
    PROVE  WireInv' /\ Peers!Next
<1>1. Peers!Disconnect(c)
  <2>1. c \in online /\ c \notin Workers
    BY ChannelsAssumption DEF WireInv, Sockets
  <2>2. toWorker' = [w \in Workers |-> IF w = c THEN <<>> ELSE toWorker[w]]
    BY <2>1 DEF WireInv, ChannelsTypeOK
  <2>3. toClient' = [d \in Clients |-> IF d = c THEN <<>> ELSE toClient[d]]
    BY DEF WireInv, ChannelsTypeOK, Exit
  <2>. QED
    BY <2>1, <2>2, <2>3 DEF Peers!Disconnect, Exit, serverVars, poolVars, routeVars,
         Peers!serverVars, Peers!poolVars, Peers!routeVars
<1>2. Peers!Next
  BY <1>1 DEF Peers!Next
<1>3. ChannelsTypeOK' /\ ClientTypeOK' /\ WorkerTypeOK'
  <2>1. ChannelsTypeOK'
    BY DEF WireInv, ChannelsTypeOK, Exit
  <2>2. 1 \in 1..Episodes /\ 1 \in 1..StepsPerEpisode /\ 0 \in Timestamps
    BY ChannelsAssumption, ClientAssumption
  <2>3. ClientTypeOK'
    BY <2>2 DEF WireInv, ClientTypeOK, Exit, Become
  <2>4. WorkerTypeOK'
    BY DEF WireInv, WorkerTypeOK, workerVars
  <2>. QED  BY <2>1, <2>3, <2>4
<1>4. OnTheWire'
  BY DEF WireInv, OnTheWire, workerVars
<1>5. Sockets'
  BY ChannelsAssumption
  DEF WireInv, Sockets, ChannelsTypeOK, ClientTypeOK, Exit, Become, workerVars
<1>6. Progress'
  BY DEF WireInv, Progress, ClientTypeOK, Exit, Become, workerVars
<1>. QED  BY <1>2, <1>3, <1>4, <1>5, <1>6 DEF WireInv

\* The process goes on, with or without a new request, and reads at most the
\* first message of its queue.
LEMMA GoesOnWire ==
    ASSUME WireInv, NEW c \in Clients, clientPc[c] # "off",
           NEW pc \in (Waiting \cup {"sleep", "think"}), Become(c, pc),
           pc = "think" => step'[c] < StepsPerEpisode \/ episode'[c] < Episodes,
           \A d \in Clients : d # c => step'[d] = step[d] /\ episode'[d] = episode[d],
           toServer' \in [Clients -> Seq(Message)],
           \A d \in Clients : toServer'[d] \in Seq(Peers!ClientMessage(d)),
           episode' \in [Clients -> 1..Episodes],
           step' \in [Clients -> 1..StepsPerEpisode],
           statsTs' \in [Clients -> Timestamps],
           \/ UNCHANGED toClient
           \/ toClient[c] # <<>> /\ toClient' = [toClient EXCEPT ![c] = Tail(@)],
           UNCHANGED <<launches, online, toWorker, serverVars, workerVars>>
    PROVE  WireInv' /\ (Peers!Next \/ UNCHANGED Peers!vars)
<1>1. Peers!Next \/ UNCHANGED Peers!vars
  BY DEF Peers!Next, Peers!ClientReads, Peers!vars, Peers!serverVars, Peers!poolVars,
         Peers!routeVars, Peers!channelVars, serverVars, poolVars, routeVars
<1>2. toClient' \in [Clients -> Seq(Message)]
  <2>1. toClient \in [Clients -> Seq(Message)]
    BY DEF WireInv, ChannelsTypeOK
  <2>2. toClient[c] # <<>> => Tail(toClient[c]) \in Seq(Message)
    BY <2>1, HeadTail
  <2>. QED  BY <2>1, <2>2
<1>3. ChannelsTypeOK' /\ ClientTypeOK' /\ WorkerTypeOK'
  BY <1>2 DEF WireInv, ChannelsTypeOK, ClientTypeOK, WorkerTypeOK, Become, Waiting, workerVars
<1>4. OnTheWire'
  BY DEF WireInv, OnTheWire, workerVars
<1>5. Sockets'
  BY DEF WireInv, Sockets, ChannelsTypeOK, ClientTypeOK, Become, Waiting, workerVars
<1>6. Progress'
  BY DEF WireInv, Progress, ClientTypeOK, Become, workerVars
<1>. QED  BY <1>1, <1>3, <1>4, <1>5, <1>6 DEF WireInv

\* A client's step is one of Broker: it connects, reads, disconnects, or does
\* nothing the server's sockets notice.
LEMMA ClientStepWire ==
    ASSUME WireInv, NEW c \in Clients, ClientStep(c)
    PROVE  WireInv' /\ (Peers!Next \/ UNCHANGED Peers!vars)
<1>. UNCHANGED <<serverVars, workerVars>>
  BY DEF ClientStep
<1>. USE RequestTypes, SendWire, ClientAssumption
<1>. DEFINE Same == /\ toServer' \in [Clients -> Seq(Message)]
                    /\ \A d \in Clients : toServer'[d] \in Seq(Peers!ClientMessage(d))
<1>0. /\ UNCHANGED toServer => Same
      /\ \A d \in Clients : Send(d, EnvStart(d)) \/ Send(d, EnvAction(d)) => Same
  BY DEF WireInv, ClientTypeOK, OnTheWire
<1>. HIDE DEF Same
<1>1. CASE Start(c)
  <2>1. c \notin online
    BY <1>1 DEF Start, WireInv, Sockets
  <2>2. Peers!Connect(c)
    BY <1>1, <2>1 DEF Start, Peers!Connect, serverVars, poolVars, routeVars,
         Peers!serverVars, Peers!poolVars, Peers!routeVars
  <2>3. Same
    BY <1>0, <1>1 DEF Start
  <2>4. ChannelsTypeOK' /\ ClientTypeOK' /\ WorkerTypeOK'
    <3>1. ChannelsTypeOK'
      BY <1>1 DEF WireInv, ChannelsTypeOK, Start
    <3>2. launches' \in [Clients -> 0..MaxLaunches]
      BY <1>1 DEF WireInv, ClientTypeOK, Start
    <3>3. ClientTypeOK'
      BY <1>1, <2>3, <3>2 DEF Same, WireInv, ClientTypeOK, Start, Become, Waiting
    <3>4. WorkerTypeOK'
      BY DEF WireInv, WorkerTypeOK, workerVars
    <3>. QED  BY <3>1, <3>3, <3>4
  <2>5. OnTheWire'
    BY <2>3 DEF Same, WireInv, OnTheWire, workerVars
  <2>6. Sockets'
    BY <1>1, ChannelsAssumption
    DEF Start, WireInv, Sockets, ChannelsTypeOK, ClientTypeOK, Become, workerVars
  <2>7. Progress'
    BY <1>1 DEF Start, WireInv, Progress, ClientTypeOK, Become, workerVars
  <2>. QED  BY <2>2, <2>4, <2>5, <2>6, <2>7 DEF WireInv, Peers!Next
<1>2. CASE Retry(c)
  BY <1>0, <1>2, GoesOnWire DEF Same, Retry, Waiting, WireInv, ClientTypeOK, channelVars
<1>3. CASE Step(c)
  <2>1. step' \in [Clients -> 1..StepsPerEpisode]
    BY <1>3 DEF Step, WireInv, ClientTypeOK
  <2>. QED
    BY <1>0, <1>3, <2>1, GoesOnWire DEF Same, Step, Waiting, WireInv, ClientTypeOK, channelVars
<1>4. CASE NextEpisode(c)
  <2>1. /\ step' \in [Clients -> 1..StepsPerEpisode]
        /\ episode' \in [Clients -> 1..Episodes]
    <3>1. episode[c] + 1 \in 1..Episodes
      <4>1. /\ episode[c] \in 1..Episodes
            /\ step[c] \in 1..StepsPerEpisode
        BY DEF WireInv, ClientTypeOK
      <4>2. episode[c] < Episodes
        BY <1>4, <4>1 DEF NextEpisode, WireInv, Progress
      <4>. QED  BY <4>1, <4>2
    <3>2. 1 \in 1..StepsPerEpisode
      BY ClientAssumption
    <3>. QED  BY <1>4, <3>1, <3>2 DEF NextEpisode, WireInv, ClientTypeOK
  <2>. QED
    BY <1>0, <1>4, <2>1, GoesOnWire
    DEF Same, NextEpisode, Waiting, WireInv, ClientTypeOK, channelVars
<1>5. CASE RecvMeasurement(c)
  <2>1. CASE Exit(c)
    BY <1>0, <1>5, <2>1, ExitWire DEF Same, RecvMeasurement, Waiting
  <2>2. CASE ~Exit(c)
    <3>1. Head(toClient[c]).ts \in Timestamps
      <4>1. toClient[c] \in Seq(Message) /\ toClient[c] # <<>>
        BY <1>5 DEF RecvMeasurement, WireInv, ChannelsTypeOK
      <4>2. Head(toClient[c]) \in Message
        BY <4>1, HeadTail
      <4>. QED  BY <4>2 DEF Message
    <3>2. statsTs' \in [Clients -> Timestamps]
      BY <1>5, <2>2, <3>1 DEF RecvMeasurement, NewTs, WireInv, ClientTypeOK
    <3>3. step[c] < StepsPerEpisode \/ episode[c] < Episodes
      BY <1>5, <2>2 DEF RecvMeasurement, WireInv, ClientTypeOK
    <3>. QED
      BY <1>0, <1>5, <2>2, <3>2, <3>3, GoesOnWire
      DEF Same, RecvMeasurement, Waiting, WireInv, ClientTypeOK
  <2>. QED  BY <2>1, <2>2
<1>6. CASE RecvError(c)
  <2>1. CASE Exit(c)
    BY <1>0, <1>6, <2>1, ExitWire DEF Same, RecvError, Waiting
  <2>2. CASE ~Exit(c)
    BY <1>0, <1>6, <2>2, GoesOnWire DEF Same, RecvError, Waiting, WireInv, ClientTypeOK
  <2>. QED  BY <2>1, <2>2
<1>7. CASE RecvOther(c) \/ RecvTimeout(c)
  BY <1>0, <1>7, ExitWire DEF Same, RecvOther, RecvTimeout, Waiting
<1>8. CASE Quit(c)
  <2>1. PICK n \in 0..Len(toServer[c]) : toServer' = [toServer EXCEPT ![c] = SubSeq(@, 1, n)]
    BY <1>8 DEF Quit
  <2>2. /\ SubSeq(toServer[c], 1, n) \in Seq(Message)
        /\ SubSeq(toServer[c], 1, n) \in Seq(Peers!ClientMessage(c))
    <3>1. toServer[c] \in Seq(Message) /\ toServer[c] \in Seq(Peers!ClientMessage(c))
      BY DEF WireInv, ClientTypeOK, OnTheWire
    <3>. QED  BY <3>1
  <2>3. Same
    BY <2>1, <2>2 DEF Same, WireInv, ClientTypeOK, OnTheWire
  <2>. QED  BY <1>8, <2>3, ExitWire DEF Same, Quit
<1>. QED  BY <1>1, <1>2, <1>3, <1>4, <1>5, <1>6, <1>7, <1>8 DEF ClientStep, ClientRuns


-----------------------------------------------------------------------------
\* Steps of the workers.

\* Reports are put behind those in transit.
LEMMA ReportWire ==
    ASSUME WireInv, NEW w \in Workers, NEW ms \in Seq(Peers!WorkerMessage), Report(w, ms)
    PROVE  /\ fromWorker' \in [Workers -> Seq(Message)]
           /\ \A v \in Workers : fromWorker'[v] \in Seq(Peers!WorkerMessage)
<1>1. Peers!WorkerMessage \subseteq Message
  BY MessagesOfPeers
<1>2. ms \in Seq(Message)
  BY <1>1
<1>3. /\ fromWorker \in [Workers -> Seq(Message)]
      /\ fromWorker[w] \in Seq(Peers!WorkerMessage)
  BY DEF WireInv, WorkerTypeOK, OnTheWire
<1>4. /\ fromWorker[w] \o ms \in Seq(Message)
      /\ fromWorker[w] \o ms \in Seq(Peers!WorkerMessage)
  BY <1>2, <1>3
<1>5. fromWorker' = [fromWorker EXCEPT ![w] = fromWorker[w] \o ms]
  BY DEF Report
<1>6. fromWorker' \in [Workers -> Seq(Message)]
  BY <1>3, <1>4, <1>5
<1>7. \A v \in Workers : fromWorker'[v] \in Seq(Peers!WorkerMessage)
  BY <1>3, <1>4, <1>5 DEF WireInv, OnTheWire
<1>. QED  BY <1>6, <1>7

\* The reports that a worker makes.
LEMMA ReportTypes ==
    ASSUME NEW c \in Clients \cup {NoClient}, NEW t \in Timestamps
    PROVE  /\ EnvHelloMsg \in Peers!WorkerMessage
           /\ Msg("env-error", c) \in Peers!WorkerMessage
           /\ Msg("env-end", c) \in Peers!WorkerMessage
           /\ [Msg("env-measurement", c) EXCEPT !.ts = t] \in Peers!WorkerMessage
BY MessagesOfPeers, ChannelsAssumption DEF EnvHelloMsg, Msg, Message, MessageTypes

\* What a worker's step leaves to be shown once its messages are typed.
WorkerKeeps(w, pc, c, n, b) ==
    /\ pc \in Simulating \cup {"dead", "idle", "down"}
    /\ c \in Clients \cup {NoClient}
    /\ n \in 0..TotalSteps
    /\ b \in BOOLEAN
    /\ fromWorker' \in [Workers -> Seq(Message)]
    /\ \A v \in Workers : fromWorker'[v] \in Seq(Peers!WorkerMessage)
    /\ pc \in {"dead", "launch", "down"} <=> w \notin online'
    /\ pc \in {"dead", "idle"} => n = 0
    /\ pc \in {"launch", "run"} => n < TotalSteps
    /\ pc = "wait" => n + 1 < TotalSteps
    /\ workerPc' = [workerPc EXCEPT ![w] = pc]
    /\ simClient' = [simClient EXCEPT ![w] = c]
    /\ waitCounter' = [waitCounter EXCEPT ![w] = n]
    /\ simError' = [simError EXCEPT ![w] = b]

\* It keeps the invariant.
LEMMA WorkerKeepsWire ==
    ASSUME WireInv, NEW w \in Workers, NEW pc, NEW c, NEW n, NEW b,
           WorkerKeeps(w, pc, c, n, b), UNCHANGED clientVars,
           toClient' = toClient, toWorker' \in [Workers -> Seq(Message)],
           online' \in {online, online \cup {w}, online \ {w}},
           w \notin online' => toWorker'[w] = <<>>,
           \A v \in Workers : v # w => toWorker'[v] = toWorker[v]
    PROVE  WireInv'
<1>1. ChannelsTypeOK'
  BY DEF WireInv, ChannelsTypeOK
<1>2. ClientTypeOK'
  BY DEF WireInv, ClientTypeOK, clientVars
<1>3. WorkerTypeOK'
  BY DEF WireInv, WorkerTypeOK, WorkerKeeps, Turn
<1>4. OnTheWire'
  BY DEF WireInv, OnTheWire, WorkerKeeps, clientVars
<1>5. Sockets'
  <2>1. \A d \in Clients : (d \in online' <=> d \in online)
    BY ChannelsAssumption
  <2>2. \A v \in Workers : v # w => (v \in online' <=> v \in online)
    OBVIOUS
  <2>3. /\ \A v \in Workers : v # w => workerPc'[v] = workerPc[v]
        /\ workerPc'[w] \in {"dead", "launch", "down"} <=> w \notin online'
    BY DEF WorkerKeeps, Turn, WireInv, WorkerTypeOK
  <2>. QED  BY <2>1, <2>2, <2>3 DEF WireInv, Sockets, clientVars
<1>6. Progress'
  <2>1. /\ \A v \in Workers : v # w => workerPc'[v] = workerPc[v]
        /\ \A v \in Workers : v # w => waitCounter'[v] = waitCounter[v]
    BY DEF WorkerKeeps, Turn, WireInv, WorkerTypeOK
  <2>2. /\ workerPc'[w] \in {"dead", "idle"} => waitCounter'[w] = 0
        /\ workerPc'[w] \in {"launch", "run"} => waitCounter'[w] < TotalSteps
        /\ workerPc'[w] = "wait" => waitCounter'[w] + 1 < TotalSteps
    BY DEF WorkerKeeps, Turn, WireInv, WorkerTypeOK
  <2>. QED  BY <2>1, <2>2 DEF WireInv, Progress, clientVars
<1>. QED  BY <1>1, <1>2, <1>3, <1>4, <1>5, <1>6 DEF WireInv

\* The steps of a worker as the server's sockets see them.
LEMMA WorkerSockets ==
    ASSUME WireInv, NEW w \in Workers, UNCHANGED serverVars,
           \/ UNCHANGED channelVars
           \/ w \notin online /\ Open(w)
           \/ Close(w)
           \/ /\ toWorker[w] # <<>>
              /\ toWorker' \in {[toWorker EXCEPT ![w] = <<>>], [toWorker EXCEPT ![w] = Tail(@)]}
              /\ UNCHANGED <<online, toClient>>
    PROVE  Peers!Next \/ UNCHANGED Peers!vars
<1>. DEFINE Server == UNCHANGED Peers!serverVars
<1>0. Server
  BY DEF serverVars, poolVars, routeVars, Peers!serverVars, Peers!poolVars, Peers!routeVars
<1>. HIDE DEF Server
<1>. toWorker[w] \in Seq(Message)
  BY DEF WireInv, ChannelsTypeOK
<1>1. CASE UNCHANGED channelVars
  BY <1>0, <1>1 DEF Server, channelVars, Peers!vars, Peers!channelVars
<1>2. CASE w \notin online /\ Open(w)
  BY <1>0, <1>2 DEF Server, Open, Peers!Next, Peers!Connect
<1>3. CASE Close(w) /\ w \in online
  <2>1. w \notin Clients
    BY ChannelsAssumption
  <2>2. /\ toClient' = [c \in Clients |-> IF c = w THEN <<>> ELSE toClient[c]]
        /\ toWorker' = [v \in Workers |-> IF v = w THEN <<>> ELSE toWorker[v]]
    BY <1>3, <2>1 DEF Close, WireInv, ChannelsTypeOK
  <2>3. Peers!Disconnect(w)
    BY <1>0, <1>3, <2>2 DEF Server, Close, Peers!Disconnect
  <2>. QED  BY <2>3 DEF Peers!Next
<1>4. CASE Close(w) /\ w \notin online
  <2>1. toWorker' = toWorker
    BY <1>4 DEF Close, WireInv, Sockets, ChannelsTypeOK
  <2>. QED  BY <1>0, <1>4, <2>1 DEF Server, Close, Peers!vars, Peers!channelVars
<1>5. CASE /\ toWorker[w] # <<>>
           /\ toWorker' = [toWorker EXCEPT ![w] = <<>>]
           /\ UNCHANGED <<online, toClient>>
  <2>1. Len(toWorker[w]) \in 1..Len(toWorker[w])
    BY <1>5
  <2>2. SubSeq(toWorker[w], Len(toWorker[w]) + 1, Len(toWorker[w])) = <<>>
    OBVIOUS
  <2>3. Peers!WorkerReads(w)
    BY <1>0, <1>5, <2>1, <2>2 DEF Server, Peers!WorkerReads
  <2>. QED  BY <2>3 DEF Peers!Next
<1>6. CASE /\ toWorker[w] # <<>>
           /\ toWorker' = [toWorker EXCEPT ![w] = Tail(@)]
           /\ UNCHANGED <<online, toClient>>
  <2>1. 1 \in 1..Len(toWorker[w])
    BY <1>6
  <2>2. SubSeq(toWorker[w], 1 + 1, Len(toWorker[w])) = Tail(toWorker[w])
    OBVIOUS
  <2>3. Peers!WorkerReads(w)
    BY <1>0, <1>6, <2>1, <2>2 DEF Server, Peers!WorkerReads
  <2>. QED  BY <2>3 DEF Peers!Next
<1>. QED  BY <1>1, <1>2, <1>3, <1>4, <1>5, <1>6

\* A worker's step is one of Broker.
LEMMA WorkerStepWire ==
    ASSUME WireInv, NEW w \in Workers, WorkerStep(w)
    PROVE  WireInv' /\ (Peers!Next \/ UNCHANGED Peers!vars)
<1>. UNCHANGED serverVars /\ UNCHANGED clientVars
  BY DEF WorkerStep
<1>. /\ TotalSteps \in Nat \ {0}
     /\ 1..TotalSteps \subseteq Timestamps
  BY WorkerAssumption
<1>. /\ toWorker \in [Workers -> Seq(Message)]
     /\ toClient \in [Clients -> Seq(Message)]
  BY DEF WireInv, ChannelsTypeOK
<1>. /\ fromWorker \in [Workers -> Seq(Message)]
     /\ \A v \in Workers : fromWorker[v] \in Seq(Peers!WorkerMessage)
     /\ workerPc \in [Workers -> Simulating \cup {"dead", "idle", "down"}]
     /\ simClient \in [Workers -> Clients \cup {NoClient}]
     /\ waitCounter \in [Workers -> 0..TotalSteps]
     /\ simError \in [Workers -> BOOLEAN]
  BY DEF WireInv, WorkerTypeOK, OnTheWire
<1>. /\ simClient = [simClient EXCEPT ![w] = simClient[w]]
     /\ waitCounter = [waitCounter EXCEPT ![w] = waitCounter[w]]
     /\ simError = [simError EXCEPT ![w] = simError[w]]
     /\ workerPc = [workerPc EXCEPT ![w] = workerPc[w]]
  OBVIOUS
<1>. DEFINE Sent == /\ fromWorker' \in [Workers -> Seq(Message)]
                    /\ \A v \in Workers : fromWorker'[v] \in Seq(Peers!WorkerMessage)
<1>0. /\ UNCHANGED fromWorker => Sent
      /\ \A c \in Clients \cup {NoClient}, t \in Timestamps :
            \/ Report(w, <<EnvHelloMsg>>)
            \/ Report(w, <<Msg("env-error", c), EnvHelloMsg>>)
            \/ Report(w, <<Msg("env-end", c), EnvHelloMsg>>)
            \/ Report(w, <<[Msg("env-measurement", c) EXCEPT !.ts = t]>>)
            => Sent
  <2>1. ASSUME NEW ms \in Seq(Peers!WorkerMessage), Report(w, ms)
        PROVE  Sent
    BY <2>1, ReportWire
  <2>2. ASSUME NEW c \in Clients \cup {NoClient}, NEW t \in Timestamps
        PROVE  /\ <<EnvHelloMsg>> \in Seq(Peers!WorkerMessage)
               /\ <<Msg("env-error", c), EnvHelloMsg>> \in Seq(Peers!WorkerMessage)
               /\ <<Msg("env-end", c), EnvHelloMsg>> \in Seq(Peers!WorkerMessage)
               /\ <<[Msg("env-measurement", c) EXCEPT !.ts = t]>> \in Seq(Peers!WorkerMessage)
    BY ReportTypes
  <2>. QED  BY <2>1, <2>2
<1>. HIDE DEF Sent
<1>. USE DEF Simulating, Turn
<1>1. CASE Boot(w)
  <2>1. Sent
    BY <1>0, <1>1, ChannelsAssumption DEF Boot
  <2>2. w \notin online /\ toWorker[w] = <<>>
    BY <1>1 DEF Boot, WireInv, Sockets
  <2>3. waitCounter[w] = 0
    BY <1>1 DEF Boot, WireInv, Progress
  <2>4. WorkerKeeps(w, "idle", simClient[w], 0, simError[w])
    BY <1>1, <2>1, <2>3 DEF Sent, WorkerKeeps, Boot, Open, Simulating
  <2>5. WireInv'
    BY <1>1, <2>4, WorkerKeepsWire DEF Boot, Open
  <2>6. Peers!Next \/ UNCHANGED Peers!vars
    BY <1>1, <2>2, WorkerSockets DEF Boot
  <2>. QED  BY <2>5, <2>6

<1>2. CASE HelloAgain(w)
  <2>1. Sent
    BY <1>0, <1>2, ChannelsAssumption DEF HelloAgain
  <2>2. WorkerKeeps(w, "idle", simClient[w], waitCounter[w], simError[w])
    BY <1>2, <2>1 DEF Sent, WorkerKeeps, HelloAgain, Turn, WireInv, Sockets, Progress, channelVars
  <2>8. WireInv'
    BY <1>2, <2>2, WorkerKeepsWire DEF HelloAgain, channelVars, WireInv, Sockets
  <2>9. Peers!Next \/ UNCHANGED Peers!vars
    BY <1>2, <2>2, WorkerSockets DEF HelloAgain, channelVars, WireInv, Sockets
  <2>. QED  BY <2>8, <2>9
<1>3. CASE RecvStart(w)
  <2>1. Head(toWorker[w]).client \in Clients \cup {NoClient}
    <3>1. Head(toWorker[w]) \in Message
      BY <1>3, HeadTail DEF RecvStart
    <3>. QED  BY <3>1 DEF Message
  <2>2. WorkerKeeps(w, "launch", Head(toWorker[w]).client, waitCounter[w], simError[w])
    BY <1>0, <1>3, <2>1
    DEF Sent, WorkerKeeps, RecvStart, Close, Simulating, WireInv, Progress
  <2>8. WireInv'
    BY <1>3, <2>2, WorkerKeepsWire DEF RecvStart, Close
  <2>9. Peers!Next \/ UNCHANGED Peers!vars
    BY <1>3, <2>2, WorkerSockets DEF RecvStart, Close
  <2>. QED  BY <2>8, <2>9
<1>4. CASE RecvUnexpected(w)
  <2>1. Head(toWorker[w]).client \in Clients \cup {NoClient}
    <3>1. Head(toWorker[w]) \in Message
      BY <1>4, HeadTail DEF RecvUnexpected
    <3>. QED  BY <3>1 DEF Message
  <2>2. Sent
    BY <1>0, <1>4, <2>1, ChannelsAssumption DEF RecvUnexpected
  <2>3. WorkerKeeps(w, "idle", simClient[w], waitCounter[w], simError[w])
    BY <1>4, <2>2 DEF Sent, WorkerKeeps, RecvUnexpected, Turn, WireInv, Sockets, Progress
  <2>4. toWorker' \in [Workers -> Seq(Message)]
    BY <1>4, HeadTail DEF RecvUnexpected
  <2>5. w \in online
    BY <1>4 DEF RecvUnexpected, WireInv, Sockets
  <2>8. WireInv'
    BY <1>4, <2>3, <2>4, <2>5, WorkerKeepsWire DEF RecvUnexpected
  <2>9. Peers!Next \/ UNCHANGED Peers!vars
    BY <1>4, <2>3, <2>4, <2>5, WorkerSockets DEF RecvUnexpected
  <2>. QED  BY <2>8, <2>9
<1>5. CASE ReportOutcome(w)
  <2>1. Sent
    BY <1>0, <1>5, ChannelsAssumption DEF ReportOutcome, Outcome
  <2>2. w \notin online
    BY <1>5 DEF ReportOutcome, WireInv, Sockets
  <2>3. WorkerKeeps(w, "idle", NoClient, 0, FALSE)
    <3>1. /\ workerPc' = [workerPc EXCEPT ![w] = "idle"]
          /\ simClient' = [simClient EXCEPT ![w] = NoClient]
          /\ waitCounter' = [waitCounter EXCEPT ![w] = 0]
          /\ simError' = [simError EXCEPT ![w] = FALSE]
          /\ w \in online'
      BY <1>5 DEF ReportOutcome, NoSimulator, Open
    <3>. QED  BY <2>1, <3>1 DEF Sent, WorkerKeeps
  <2>8. WireInv'
    BY <1>5, <2>2, <2>3, WorkerKeepsWire DEF ReportOutcome, Open
  <2>9. Peers!Next \/ UNCHANGED Peers!vars
    BY <1>5, <2>2, <2>3, WorkerSockets DEF ReportOutcome, Open
  <2>. QED  BY <2>8, <2>9
<1>6. CASE SimConnect(w)
  <2>1. w \notin online
    BY <1>6 DEF SimConnect, WireInv, Sockets
  <2>2. WorkerKeeps(w, "run", simClient[w], waitCounter[w], simError[w])
    BY <1>0, <1>6 DEF Sent, WorkerKeeps, SimConnect, Open, Simulating, WireInv, Progress
  <2>8. WireInv'
    BY <1>6, <2>1, <2>2, WorkerKeepsWire DEF SimConnect, Open
  <2>9. Peers!Next \/ UNCHANGED Peers!vars
    BY <1>6, <2>1, <2>2, WorkerSockets DEF SimConnect, Open
  <2>. QED  BY <2>8, <2>9
<1>7. CASE Measure(w)
  <2>1. /\ waitCounter[w] < TotalSteps
        /\ waitCounter[w] + 1 \in Timestamps
        /\ w \in online
    <3>1. waitCounter[w] < TotalSteps /\ w \in online
      BY <1>7 DEF Measure, WireInv, Progress, Sockets
    <3>2. waitCounter[w] \in Nat
      OBVIOUS
    <3>3. waitCounter[w] + 1 \in 1..TotalSteps
      BY <3>1, <3>2
    <3>. QED  BY <3>1, <3>3
  <2>2. Sent
    BY <1>0, <1>7, <2>1 DEF Measure, MeasurementTs
  <2>3. WorkerKeeps(w, IF LastStep(w) THEN "drain" ELSE "wait", simClient[w], waitCounter[w], simError[w])
    <3>1. /\ workerPc' = [workerPc EXCEPT ![w] = IF LastStep(w) THEN "drain" ELSE "wait"]
          /\ UNCHANGED <<simClient, waitCounter, simError, online>>
      BY <1>7 DEF Measure, channelVars
    <3>2. ~LastStep(w) => waitCounter[w] + 1 < TotalSteps
      BY <2>1 DEF LastStep
    <3>3. CASE LastStep(w)
      BY <2>1, <2>2, <3>1, <3>3 DEF Sent, WorkerKeeps
    <3>4. CASE ~LastStep(w)
      BY <2>1, <2>2, <3>1, <3>2, <3>4 DEF Sent, WorkerKeeps
    <3>. QED  BY <3>3, <3>4
  <2>8. WireInv'
    BY <1>7, <2>1, <2>3, WorkerKeepsWire DEF Measure, channelVars
  <2>9. Peers!Next \/ UNCHANGED Peers!vars
    BY <1>7, <2>1, <2>3, WorkerSockets DEF Measure, channelVars
  <2>. QED  BY <2>8, <2>9
<1>8. ASSUME NEW failed \in BOOLEAN, SimEnds(w, failed)
      PROVE  WireInv' /\ (Peers!Next \/ UNCHANGED Peers!vars)
  <2>1. WorkerKeeps(w, "down", simClient[w], waitCounter[w], failed)
    BY <1>0, <1>8 DEF Sent, WorkerKeeps, SimEnds, Close, Simulating
  <2>8. WireInv'
    BY <1>8, <2>1, WorkerKeepsWire DEF SimEnds, Close
  <2>9. Peers!Next \/ UNCHANGED Peers!vars
    BY <1>8, <2>1, WorkerSockets DEF SimEnds, Close
  <2>. QED  BY <2>8, <2>9
<1>9. CASE GetAction(w) /\ ~SimEnds(w, TRUE)
  <2>1. waitCounter[w] + 1 < TotalSteps /\ w \in online
    BY <1>9 DEF GetAction, WireInv, Progress, Sockets
  <2>2. WorkerKeeps(w, "run", simClient[w], waitCounter[w] + 1, simError[w])
    <3>1. /\ workerPc' = [workerPc EXCEPT ![w] = "run"]
          /\ waitCounter' = [waitCounter EXCEPT ![w] = waitCounter[w] + 1]
          /\ UNCHANGED <<fromWorker, simClient, simError, online>>
      BY <1>9 DEF GetAction
    <3>2. Sent /\ waitCounter[w] + 1 \in 0..TotalSteps
      BY <1>0, <2>1, <3>1
    <3>. QED  BY <2>1, <3>1, <3>2 DEF Sent, WorkerKeeps
  <2>8. WireInv'
    <3>1. toWorker' = [toWorker EXCEPT ![w] = <<>>] /\ UNCHANGED <<online, toClient>>
      BY <1>9 DEF GetAction
    <3>. QED  BY <2>1, <2>2, <3>1, WorkerKeepsWire
  <2>9. Peers!Next \/ UNCHANGED Peers!vars
    BY <1>9, <2>1, <2>2, WorkerSockets DEF GetAction
  <2>. QED  BY <2>8, <2>9
<1>10. CASE Kill(w)
  <2>1. PICK n \in 0..Len(fromWorker[w]) :
          fromWorker' = [fromWorker EXCEPT ![w] = SubSeq(@, 1, n)]
    BY <1>10 DEF Kill
  <2>2. /\ SubSeq(fromWorker[w], 1, n) \in Seq(Message)
        /\ SubSeq(fromWorker[w], 1, n) \in Seq(Peers!WorkerMessage)
    <3>1. fromWorker[w] \in Seq(Message) /\ fromWorker[w] \in Seq(Peers!WorkerMessage)
      OBVIOUS
    <3>. QED  BY <3>1
  <2>3. Sent
    BY <2>1, <2>2 DEF Sent
  <2>4. WorkerKeeps(w, "dead", NoClient, 0, FALSE)
    <3>1. /\ workerPc' = [workerPc EXCEPT ![w] = "dead"]
          /\ simClient' = [simClient EXCEPT ![w] = NoClient]
          /\ waitCounter' = [waitCounter EXCEPT ![w] = 0]
          /\ simError' = [simError EXCEPT ![w] = FALSE]
          /\ w \notin online'
      BY <1>10 DEF Kill, NoSimulator, Close
    <3>. QED  BY <2>3, <3>1 DEF Sent, WorkerKeeps
  <2>8. WireInv'
    <3>1. /\ online' = online \ {w}
          /\ toWorker' = [toWorker EXCEPT ![w] = <<>>]
          /\ toClient' = toClient
      BY <1>10 DEF Kill, Close
    <3>2. /\ toWorker' \in [Workers -> Seq(Message)]
          /\ toWorker'[w] = <<>>
          /\ \A v \in Workers : v # w => toWorker'[v] = toWorker[v]
      BY <3>1
    <3>. QED  BY <2>4, <3>1, <3>2, WorkerKeepsWire
  <2>9. Peers!Next \/ UNCHANGED Peers!vars
    BY <1>10, <2>4, WorkerSockets DEF Kill, Close
  <2>. QED  BY <2>8, <2>9
<1>. QED
  BY <1>1, <1>2, <1>3, <1>4, <1>5, <1>6, <1>7, <1>8, <1>9, <1>10
  DEF WorkerStep, WorkerRuns, ActionTimeout, SimCompletes, SimCrashes, GetAction

\* So is the time that passes without a hello.
LEMMA SilenceWire ==
    ASSUME WireInv, NEW w \in Workers, Silence(w)
    PROVE  WireInv' /\ Peers!Next
<1>1. Peers!HelloTimeout(w)
  BY DEF Silence, HelloTimeout, Peers!HelloTimeout, routeVars, Peers!routeVars,
         channelVars, Peers!channelVars
<1>. QED
  BY <1>1
  DEF Peers!Next, Silence, HelloTimeout, WireInv, ChannelsTypeOK, ClientTypeOK, WorkerTypeOK,
      OnTheWire, Sockets, Progress, channelVars, clientVars, workerVars

\* The invariant holds initially.
LEMMA InitWire == Init => WireInv
<1>. SUFFICES ASSUME Init PROVE WireInv
  OBVIOUS
<1>1. /\ 1 \in 1..Episodes /\ 1 \in 1..StepsPerEpisode
      /\ 0 \in 0..MaxLaunches /\ 0 \in 0..TotalSteps /\ 0 \in Timestamps
  BY ClientAssumption, WorkerAssumption, ChannelsAssumption
<1>2. ChannelsTypeOK /\ ClientTypeOK /\ WorkerTypeOK
  BY <1>1 DEF Init, ChannelsInit, ClientInit, WorkerInit, ChannelsTypeOK, ClientTypeOK, WorkerTypeOK
<1>3. OnTheWire /\ Sockets /\ Progress
  BY DEF Init, ChannelsInit, ClientInit, WorkerInit, OnTheWire, Sockets, Progress
<1>. QED  BY <1>2, <1>3 DEF WireInv

\* Nobody is connected initially.
LEMMA InitPeers == Init => Peers!Init
BY DEF Init, ServerInit, ChannelsInit, Peers!Init, Peers!ServerInit, Peers!ChannelsInit,
       EmptyDict, Peers!EmptyDict

\* Every step keeps the invariant and is a step of Broker.
LEMMA NextWire == WireInv /\ [Next]_allVars => WireInv' /\ [Peers!Next]_(Peers!vars)
<1>. SUFFICES ASSUME WireInv, [Next]_allVars PROVE WireInv' /\ (Peers!Next \/ UNCHANGED Peers!vars)
  OBVIOUS
<1>1. CASE UNCHANGED allVars
  BY <1>1
  DEF allVars, serverVars, poolVars, routeVars, channelVars, clientVars, workerVars,
      Peers!vars, Peers!serverVars, Peers!poolVars, Peers!routeVars, Peers!channelVars,
      WireInv, ChannelsTypeOK, ClientTypeOK, WorkerTypeOK, OnTheWire, Sockets, Progress
<1>. QED
  BY <1>1, ServerStepWire, ClientStepWire, WorkerStepWire, SilenceWire DEF Next

\* The server of the whole system (network_gym_server.py with env.py,
\* northbound_interface.py, configure.py and the simulator) never meets a
\* peer, a message or an order of messages that Broker does not allow,
\* whatever is killed, crashes or is late: everything proved of Broker holds
\* of the system.
THEOREM BrokerIsImplemented == Spec => ImplementsBroker
BY InitWire, InitPeers, NextWire, PTL DEF Spec, ImplementsBroker, Peers!Spec

\* The assumption on the constants of Broker.
LEMMA BrokerAssumptionHolds == BP!BrokerAssumption
BY NetworkGymAssumption DEF BP!BrokerAssumption

\* A worker is only ever sent env-start of the client that it is dedicated to
\* by that step, and env-action of the client it is dedicated to (relay in
\* network_gym_server.py), whatever fails.
THEOREM WorkersHearTheirClients == Spec => WorkerHearsItsClient
<1>1. BP!Spec => BP!WorkerHearsItsClient
  BY BrokerAssumptionHolds, ChannelsAssumption, ServerAssumption, BP!HearsOneClient
<1>2. BP!WorkerHearsItsClient <=> Peers!WorkerHearsItsClient
  BY DEF BP!WorkerHearsItsClient, Peers!WorkerHearsItsClient,
     Peers!vars, Peers!serverVars, Peers!poolVars, Peers!routeVars, Peers!channelVars,
         BP!vars, BP!serverVars, BP!poolVars, BP!routeVars, BP!channelVars
<1>. QED BY <1>1, <1>2, SameSpec, BrokerIsImplemented, PTL DEF ImplementsBroker, WorkerHearsItsClient

\* The inductive invariant holds.
LEMMA WireHolds == Spec => []WireInv
BY InitWire, NextWire, PTL DEF Spec

\* Every variable of the system keeps its type.
THEOREM TypeCorrect == Spec => []TypeOK
<1>1. BP!Spec => []BP!TypeOK
  BY BrokerAssumptionHolds, ChannelsAssumption, ServerAssumption, BP!TypeCorrect
<1>2. WireInv /\ BP!TypeOK => TypeOK
  BY DEF WireInv, TypeOK, BP!TypeOK, BP!Dicts, Dicts
<1>. QED BY <1>1, <1>2, WireHolds, SameSpec, BrokerIsImplemented, PTL DEF ImplementsBroker
-----------------------------------------------------------------------------
(* The sessions while nothing disturbs them: every client is served by one *)
(* worker, in lock step with its simulator, for any number of clients,     *)
(* workers, episodes and steps.                                            *)
(*                                                                         *)
(* The inductive invariant SessionInv says where a session may be: a       *)
(* client without a worker is Unserved; a client with one is in one of the *)
(* phases Asked ... Finished with it; a worker without a client is Free.   *)


\* Nothing disturbs the sessions: no process is killed or started a second
\* time, which would end the session it had before, no answer is late, and a
\* ROUTER can queue a message.
Undisturbed ==
    /\ Faults = {}
    /\ MaxLaunches = 1
    /\ HighWaterMark > 0

\* The measurements that client c has asked for since its process started.
Round(c) == (episode[c] - 1) * StepsPerEpisode + step[c]

\* The n-th measurement for client c, and the action that answers it.
Measurement(c, n) == [Msg("env-measurement", c) EXCEPT !.ts = n]

Action(c, n) == [Msg("env-action", c) EXCEPT !.ts = n]

\* q holds nothing but hellos.
Hellos(q) == \A i \in 1..Len(q) : q[i] = EnvHelloMsg

\* The queues between client c and the server.
Mail(c, requests, answers) == toServer[c] = requests /\ toClient[c] = answers

\* The process of client c does not run.
Off(c) == clientPc[c] = "off" /\ step[c] = 1 /\ episode[c] = 1 /\ statsTs[c] = 0

\* A client that no worker is dedicated to: not started, refused and about to
\* try again, waiting for the answer to its env-start, or with its last
\* measurement still unread while its worker's session has already ended.
Unserved(c) ==
    /\ clientPc[c] # "off" => launches[c] > 0
    /\ \/ Off(c) /\ Mail(c, <<>>, <<>>)
       \/ clientPc[c] = "sleep" /\ Mail(c, <<>>, <<>>) /\ statsTs[c] = 0 /\ Round(c) = 1
       \/ /\ clientPc[c] \in {"reset", "retry"}
          /\ statsTs[c] = 0 /\ Round(c) = 1
          /\ \/ Mail(c, <<EnvStart(c)>>, <<>>)
             \/ \E m \in Message : /\ m.type \in {"env-error", "no-available-worker"}
                                   /\ Mail(c, <<>>, <<m>>)
       \/ /\ clientPc[c] \in Waiting
          /\ Round(c) = TotalSteps
          /\ Mail(c, <<>>, <<Measurement(c, TotalSteps)>>)

\* What is left of worker w's part once it has sent its n-th measurement; q is
\* what it has sent since.
Sequel(c, w, n, q) ==
    /\ toWorker[w] = <<>>
    /\ \/ workerPc[w] = "wait" /\ simClient[w] = c /\ waitCounter[w] + 1 = n /\ n < TotalSteps /\ q = <<>>
       \/ n = TotalSteps /\ workerPc[w] \in {"drain", "down"} /\ simClient[w] = c /\ q = <<>>
       \/ /\ n = TotalSteps /\ workerPc[w] = "idle" /\ simClient[w] = NoClient
          /\ q # <<>> /\ Head(q) = Msg("env-end", c) /\ Hellos(Tail(q))

\* Client c waits for the first measurement.
Starting(c) == clientPc[c] \in {"reset", "retry"} /\ statsTs[c] = 0 /\ Round(c) = 1

\* The phases of a session of client c with worker w. The env-start is on its
\* way to the worker.
Asked(c, w) ==
    /\ Starting(c)
    /\ Mail(c, <<>>, <<>>)
    /\ workerPc[w] = "idle" /\ simClient[w] = NoClient
    /\ toWorker[w] = <<EnvStart(c)>> /\ fromWorker[w] = <<>>

\* The worker has refused it.
Unsupported(c, w) ==
    /\ Starting(c)
    /\ Mail(c, <<>>, <<>>)
    /\ workerPc[w] = "idle" /\ simClient[w] = NoClient
    /\ toWorker[w] = <<>>
    /\ fromWorker[w] # <<>> /\ Head(fromWorker[w]) = Msg("env-error", c) /\ Hellos(Tail(fromWorker[w]))

\* The simulator works on the next measurement.
Simulates(c, w) ==
    /\ clientPc[c] \in Waiting /\ Round(c) = statsTs[c] + 1
    /\ Mail(c, <<>>, <<>>)
    /\ workerPc[w] \in {"launch", "run"} /\ simClient[w] = c /\ waitCounter[w] + 1 = Round(c)
    /\ toWorker[w] = <<>> /\ fromWorker[w] = <<>>

\* The measurement is on its way to the server.
Reported(c, w) ==
    /\ clientPc[c] \in Waiting /\ Round(c) = statsTs[c] + 1
    /\ Mail(c, <<>>, <<>>)
    /\ fromWorker[w] # <<>> /\ Head(fromWorker[w]) = Measurement(c, Round(c))
    /\ Sequel(c, w, Round(c), Tail(fromWorker[w]))

\* The measurement is on its way to the client.
Told(c, w) ==
    /\ clientPc[c] \in Waiting /\ Round(c) = statsTs[c] + 1
    /\ Mail(c, <<>>, <<Measurement(c, Round(c))>>)
    /\ Sequel(c, w, Round(c), fromWorker[w])

\* The agent has the measurement and the simulator waits for the action.
Thinks(c, w) ==
    /\ clientPc[c] = "think" /\ Round(c) = statsTs[c]
    /\ Mail(c, <<>>, <<>>)
    /\ workerPc[w] = "wait" /\ simClient[w] = c /\ waitCounter[w] + 1 = statsTs[c]
    /\ toWorker[w] = <<>> /\ fromWorker[w] = <<>>

\* The agent has acted ...
Acting(c, w) ==
    /\ clientPc[c] = "await" /\ Round(c) = statsTs[c] + 1
    /\ workerPc[w] = "wait" /\ simClient[w] = c /\ waitCounter[w] + 1 = statsTs[c]
    /\ fromWorker[w] = <<>>

\* ... and the action is on its way to the server.
Acts(c, w) == Acting(c, w) /\ toWorker[w] = <<>> /\ Mail(c, <<Action(c, statsTs[c])>>, <<>>)

\* ... and the action is on its way to the worker.
Commanded(c, w) == Acting(c, w) /\ toWorker[w] = <<Action(c, statsTs[c])>> /\ Mail(c, <<>>, <<>>)

\* The client has its last measurement and has ended.
Finished(c, w) ==
    /\ Off(c)
    /\ Mail(c, <<>>, <<>>)
    /\ Sequel(c, w, TotalSteps, fromWorker[w])

\* Client c is served by worker w.
Served(c, w) ==
    /\ c \in Admitted /\ launches[c] > 0
    /\ \/ Asked(c, w) \/ Unsupported(c, w) \/ Simulates(c, w) \/ Reported(c, w) \/ Told(c, w)
       \/ Thinks(c, w) \/ Acts(c, w) \/ Commanded(c, w) \/ Finished(c, w)

\* Worker w is dedicated to nobody.
Free(w) ==
    /\ simClient[w] = NoClient
    /\ toWorker[w] = <<>>
    /\ \/ workerPc[w] = "dead" /\ fromWorker[w] = <<>> /\ w \notin DOMAIN availableWorkers
       \/ workerPc[w] = "idle" /\ Hellos(fromWorker[w])

\* The inductive invariant.
SessionInv ==
    /\ NoSimulationFails
    /\ \A c \in Clients :
        IF c \in DOMAIN clientToWorker THEN Served(c, clientToWorker[c]) ELSE Unserved(c)
    /\ \A w \in Workers : w \notin Values(clientToWorker) => Free(w)

\* What the proofs take from the server's invariant, which BrokerIsImplemented
\* transfers from Broker.
RoutesOK ==
    /\ clientToWorker \in Dicts(Clients, Workers)
    /\ DOMAIN availableWorkers \subseteq Workers
    /\ \A c, d \in DOMAIN clientToWorker : clientToWorker[c] = clientToWorker[d] => c = d
    /\ \A c \in DOMAIN clientToWorker : clientToWorker[c] \notin DOMAIN availableWorkers

\* It holds in every state.
LEMMA RoutesHold == Spec => []RoutesOK
<1>1. BP!Spec => []BP!IInv
  BY BrokerAssumptionHolds, ChannelsAssumption, ServerAssumption, BP!Inductive
<1>2. BP!IInv => RoutesOK
  BY DEF BP!IInv, BP!TypeOK, BP!Exclusive, BP!OneClientPerWorker, BP!Values, BP!Dicts, Dicts, RoutesOK
<1>. QED  BY <1>1, <1>2, SameSpec, BrokerIsImplemented, PTL DEF ImplementsBroker

\* Client c and its queues stay as they are.
ClientSame(c) ==
    /\ toServer'[c] = toServer[c]
    /\ toClient'[c] = toClient[c]
    /\ clientPc'[c] = clientPc[c]
    /\ episode'[c] = episode[c]
    /\ step'[c] = step[c]
    /\ statsTs'[c] = statsTs[c]
    /\ launches'[c] = launches[c]

\* Worker w and its queues stay as they are.
WorkerSame(w) ==
    /\ toWorker'[w] = toWorker[w]
    /\ fromWorker'[w] = fromWorker[w]
    /\ workerPc'[w] = workerPc[w]
    /\ simClient'[w] = simClient[w]
    /\ waitCounter'[w] = waitCounter[w]

\* A session stays where it is while neither side moves.
LEMMA ServedFrame ==
    ASSUME NEW c, NEW w, Served(c, w), ClientSame(c), WorkerSame(w)
    PROVE  Served(c, w)'
BY DEF Served, Asked, Unsupported, Simulates, Reported, Told, Thinks, Acting, Acts, Commanded, Finished, Off,
       Starting, Sequel, Mail, Round, ClientSame, WorkerSame, Hellos

\* So does a client without a worker.
LEMMA UnservedFrame ==
    ASSUME NEW c, Unserved(c), ClientSame(c)
    PROVE  Unserved(c)'
BY DEF Unserved, Off, Mail, Round, ClientSame

\* So does a worker without a client.
LEMMA FreeFrame ==
    ASSUME NEW w, Free(w), WorkerSame(w),
           w \in DOMAIN availableWorkers' => w \in DOMAIN availableWorkers
    PROVE  Free(w)'
BY DEF Free, WorkerSame, Hellos

\* A step of client c, or one of the server that answers it, which leaves
\* everything else alone.
StepOf(c) ==
    /\ UNCHANGED <<clientToWorker, workerVars, toWorker>>
    /\ DOMAIN availableWorkers' \subseteq DOMAIN availableWorkers
    /\ \A d \in Clients : d # c => ClientSame(d)

\* What such a step has to keep.
LEMMA OfAClient ==
    ASSUME SessionInv, WireInv, RoutesOK, NEW c \in Clients, StepOf(c),
           IF c \in DOMAIN clientToWorker THEN Served(c, clientToWorker[c])' ELSE Unserved(c)'
    PROVE  SessionInv'
<1>. /\ UNCHANGED <<clientToWorker, workerVars, toWorker>>
     /\ DOMAIN availableWorkers' \subseteq DOMAIN availableWorkers
  BY DEF StepOf
<1>. \A w : WorkerSame(w)
  BY DEF WorkerSame, workerVars
<1>1. NoSimulationFails'
  BY DEF SessionInv, NoSimulationFails, workerVars
<1>2. ASSUME NEW d \in Clients
      PROVE  IF d \in DOMAIN clientToWorker' THEN Served(d, clientToWorker[d])' ELSE Unserved(d)'
  BY ServedFrame, UnservedFrame DEF SessionInv, StepOf
<1>3. ASSUME NEW w \in Workers, w \notin Values(clientToWorker')
      PROVE  Free(w)'
  BY <1>3, FreeFrame DEF SessionInv, Values
<1>. QED  BY <1>1, <1>2, <1>3 DEF SessionInv

\* The same if the client is served.
LEMMA OfAServedClient ==
    ASSUME SessionInv, WireInv, RoutesOK, NEW c \in DOMAIN clientToWorker, StepOf(c),
           NEW w, w = clientToWorker[c], Served(c, w)'
    PROVE  SessionInv'
<1>1. c \in Clients
  BY DEF RoutesOK, Dicts
<1>2. clientToWorker'[c] = w
  BY DEF StepOf
<1>3. Served(c, clientToWorker[c])'
  BY <1>2
<1>. QED  BY <1>1, <1>3, OfAClient

\* The same if it is not.
LEMMA OfAnUnservedClient ==
    ASSUME SessionInv, WireInv, RoutesOK, NEW c \in Clients, c \notin DOMAIN clientToWorker,
           StepOf(c), Unserved(c)'
    PROVE  SessionInv'
BY OfAClient

\* What a step of worker w, or the hello it sends, has to keep.
LEMMA OfAWorker ==
    ASSUME SessionInv, WireInv, RoutesOK, NEW w \in Workers,
           UNCHANGED <<clientToWorker, clientVars, toClient>>,
           DOMAIN availableWorkers' \subseteq DOMAIN availableWorkers \cup {w},
           \A v \in Workers : v # w => WorkerSame(v) /\ simError'[v] = simError[v],
           ~simError'[w],
           \A c \in DOMAIN clientToWorker : clientToWorker[c] = w => Served(c, w)',
           w \notin Values(clientToWorker) => Free(w)'
    PROVE  SessionInv'
<1>. \A c : ClientSame(c)
  BY DEF ClientSame, clientVars
<1>1. NoSimulationFails'
  BY DEF SessionInv, NoSimulationFails
<1>2. ASSUME NEW d \in Clients
      PROVE  IF d \in DOMAIN clientToWorker' THEN Served(d, clientToWorker[d])' ELSE Unserved(d)'
  <2>1. CASE d \in DOMAIN clientToWorker
    <3>1. clientToWorker[d] \in Workers
      BY <2>1 DEF RoutesOK, Dicts
    <3>2. CASE clientToWorker[d] = w
      BY <2>1, <3>2
    <3>3. CASE clientToWorker[d] # w
      BY <2>1, <3>1, <3>3, ServedFrame DEF SessionInv
    <3>. QED  BY <3>2, <3>3
  <2>2. CASE d \notin DOMAIN clientToWorker
    BY <2>2, UnservedFrame DEF SessionInv
  <2>. QED  BY <2>1, <2>2
<1>3. ASSUME NEW v \in Workers, v \notin Values(clientToWorker')
      PROVE  Free(v)'
  BY <1>3, FreeFrame DEF SessionInv, Values
<1>. QED  BY <1>1, <1>2, <1>3 DEF SessionInv

-----------------------------------------------------------------------------

\* Rounds count from 1 to the last step of the last episode.
LEMMA RoundEnds ==
    ASSUME WireInv, NEW c \in Clients
    PROVE  /\ Round(c) \in 1..TotalSteps
           /\ Round(c) = TotalSteps <=> step[c] = StepsPerEpisode /\ episode[c] = Episodes
           /\ 1 < TotalSteps
<1>. DEFINE S == StepsPerEpisode
            E == Episodes
            s == step[c]
            e == episode[c]
<1>1. S \in Nat /\ S >= 2 /\ E \in Nat /\ E >= 1
  BY ClientAssumption
<1>2. s \in 1..S /\ e \in 1..E
  BY DEF WireInv, ClientTypeOK
<1>3. Round(c) = (e - 1) * S + s /\ TotalSteps = S * E
  BY NetworkGymAssumption DEF Round
<1>. HIDE DEF S, E, s, e
<1>4. (e - 1) * S >= 0 /\ (e - 1) * S \in Int
  BY <1>1, <1>2
<1>5. (E - e) * S >= 0 /\ (E - e) * S \in Int
  BY <1>1, <1>2
<1>6. S * E = (e - 1) * S + S + (E - e) * S
  BY <1>1, <1>2
<1>7. e # E => (E - e) * S >= S
  <2>1. e # E => E - e >= 1
    BY <1>1, <1>2
  <2>. QED  BY <1>1, <1>2, <2>1
<1>8. e = E => (E - e) * S = 0
  BY <1>1, <1>2
<1>9. Round(c) \in Int /\ TotalSteps \in Int
  BY <1>1, <1>2, <1>3, <1>4, <1>5, <1>6
<1>10. Round(c) \in 1..TotalSteps
  BY <1>1, <1>2, <1>3, <1>4, <1>5, <1>6, <1>9
<1>11. Round(c) = TotalSteps <=> s = S /\ e = E
  BY <1>1, <1>2, <1>3, <1>4, <1>5, <1>6, <1>7, <1>8, <1>9
<1>12. 1 < TotalSteps
  BY <1>1, <1>2, <1>3, <1>4, <1>5, <1>6, <1>9
<1>. QED  BY <1>10, <1>11, <1>12 DEF S, E, s, e

-----------------------------------------------------------------------------
\* Steps of the clients.

\* The steps of the clients keep the invariant.
LEMMA ClientStepServes ==
    ASSUME Undisturbed, SessionInv, WireInv, RoutesOK, NEW c \in Clients, ClientStep(c)
    PROVE  SessionInv'
<1>. UNCHANGED <<clientToWorker, availableWorkers, workerVars>>
  BY DEF ClientStep, serverVars, poolVars, routeVars
<1>. Faults = {} /\ MaxLaunches = 1
  BY DEF Undisturbed
<1>. /\ toServer \in [Clients -> Seq(Message)]
     /\ toClient \in [Clients -> Seq(Message)]
     /\ clientPc \in [Clients -> Waiting \cup {"off", "sleep", "think"}]
     /\ episode \in [Clients -> 1..Episodes]
     /\ step \in [Clients -> 1..StepsPerEpisode]
     /\ statsTs \in [Clients -> Timestamps]
     /\ launches \in [Clients -> 0..MaxLaunches]
  BY DEF WireInv, ChannelsTypeOK, ClientTypeOK
<1>0. StepOf(c)
  <2>1. Exit(c) => \A d \in Clients : d # c =>
          /\ toClient'[d] = toClient[d] /\ clientPc'[d] = clientPc[d] /\ episode'[d] = episode[d]
          /\ step'[d] = step[d] /\ statsTs'[d] = statsTs[d]
    BY DEF Exit, Become
  <2>. QED
    BY <2>1
    DEF ClientStep, ClientRuns, Start, Retry, Step, NextEpisode, RecvMeasurement, RecvError,
        RecvOther, Send, Become, ClientSame, channelVars, StepOf
<1>1. CASE Start(c)
  <2>1. /\ clientPc[c] = "off" /\ launches[c] < 1
        /\ launches'[c] = launches[c] + 1
        /\ toServer'[c] = Append(toServer[c], EnvStart(c))
        /\ clientPc'[c] = "reset"
        /\ episode'[c] = episode[c] /\ step'[c] = step[c] /\ statsTs'[c] = statsTs[c]
        /\ toClient'[c] = toClient[c]
    BY <1>1 DEF Start, Send, Become
  <2>2. launches[c] = 0
    BY <2>1
  <2>3. c \notin DOMAIN clientToWorker
    BY <2>2 DEF SessionInv, Served
  <2>4. Unserved(c)
    BY <2>3 DEF SessionInv
  <2>5. Mail(c, <<>>, <<>>) /\ step[c] = 1 /\ episode[c] = 1 /\ statsTs[c] = 0
    BY <2>1, <2>4 DEF Unserved, Off, Waiting
  <2>6. Mail(c, <<EnvStart(c)>>, <<>>)'
    BY <2>1, <2>5 DEF Mail
  <2>7. Round(c)' = 1
    BY <2>1, <2>5, ClientAssumption DEF Round
  <2>8. Unserved(c)'
    BY <2>1, <2>2, <2>5, <2>6, <2>7 DEF Unserved
  <2>. QED  BY <1>0, <2>3, <2>8, OfAnUnservedClient
<1>2. CASE Retry(c)
  <2>1. /\ clientPc[c] = "sleep"
        /\ toServer'[c] = Append(toServer[c], EnvStart(c))
        /\ clientPc'[c] = "retry"
        /\ episode'[c] = episode[c] /\ step'[c] = step[c] /\ statsTs'[c] = statsTs[c]
        /\ toClient'[c] = toClient[c] /\ launches'[c] = launches[c]
    BY <1>2 DEF Retry, Send, Become, channelVars
  <2>2. c \notin DOMAIN clientToWorker
    BY <2>1 DEF SessionInv, Served, Off, Asked, Unsupported, Simulates, Reported, Told, Thinks, Acting, Acts,
                Commanded, Finished, Off, Starting, Waiting
  <2>3. /\ Mail(c, <<>>, <<>>) /\ statsTs[c] = 0 /\ Round(c) = 1 /\ launches[c] > 0
    BY <2>1, <2>2 DEF SessionInv, Unserved, Off, Waiting
  <2>4. Mail(c, <<EnvStart(c)>>, <<>>)'
    BY <2>1, <2>3 DEF Mail
  <2>5. Round(c)' = 1
    BY <2>1, <2>3 DEF Round
  <2>6. Unserved(c)'
    BY <2>1, <2>3, <2>4, <2>5 DEF Unserved
  <2>. QED  BY <1>0, <2>2, <2>6, OfAnUnservedClient
<1>3. ASSUME clientPc[c] = "think"
      PROVE  /\ c \in DOMAIN clientToWorker
             /\ Thinks(c, clientToWorker[c])
             /\ launches[c] > 0 /\ c \in Admitted
  <2>1. c \in DOMAIN clientToWorker
    BY <1>3 DEF SessionInv, Unserved, Off, Waiting
  <2>. QED
    BY <1>3, <2>1 DEF SessionInv, Served, Off, Asked, Unsupported, Simulates, Reported, Told, Acting, Acts,
                      Commanded, Finished, Off, Starting, Waiting
\* The agent's answer to the measurement.
<1>4. ASSUME clientPc[c] = "think", Round(c)' = Round(c) + 1,
             toServer'[c] = Append(toServer[c], EnvAction(c)), clientPc'[c] = "await",
             statsTs'[c] = statsTs[c], toClient'[c] = toClient[c], launches'[c] = launches[c]
      PROVE  SessionInv'
  <2>0. PICK w : w = clientToWorker[c]
    OBVIOUS
  <2>1. Thinks(c, w) /\ launches[c] > 0 /\ c \in Admitted /\ c \in DOMAIN clientToWorker
    BY <1>3, <1>4, <2>0
  <2>2. Mail(c, <<Action(c, statsTs[c])>>, <<>>)'
    <3>1. EnvAction(c) = Action(c, statsTs[c])
      BY DEF EnvAction, Action
    <3>2. DEFINE a == Action(c, statsTs[c])
    <3>3. toServer'[c] = <<a>> /\ toClient'[c] = <<>>
      <4>. HIDE DEF a
      <4>. QED  BY <1>4, <2>1, <3>1 DEF a, Mail, Thinks
    <3>4. Action(c, statsTs[c])' = a
      BY <1>4 DEF Action
    <3>. QED  BY <3>3, <3>4 DEF Mail
  <2>3. WorkerSame(w)
    BY <1>0 DEF StepOf, WorkerSame, workerVars
  <2>4. Acts(c, w)'
    <3>1. Round(c)' = statsTs'[c] + 1
      BY <1>4, <2>1 DEF Thinks
    <3>2. /\ workerPc'[w] = "wait" /\ simClient'[w] = c /\ waitCounter'[w] + 1 = statsTs'[c]
          /\ fromWorker'[w] = <<>> /\ toWorker'[w] = <<>>
      BY <1>4, <2>1, <2>3 DEF Thinks, WorkerSame
    <3>. QED  BY <1>4, <2>2, <3>1, <3>2 DEF Acts, Acting
  <2>5. Served(c, w)'
    BY <1>4, <2>1, <2>4 DEF Served
  <2>. QED  BY <1>0, <2>0, <2>1, <2>5, OfAServedClient
<1>5. CASE Step(c)
  <2>1. Round(c)' = Round(c) + 1
    <3>1. step'[c] = step[c] + 1 /\ episode'[c] = episode[c]
      BY <1>5 DEF Step
    <3>2. (episode[c] - 1) * StepsPerEpisode \in Int
      BY ClientAssumption
    <3>. QED  BY <3>1, <3>2 DEF Round
  <2>. QED  BY <1>4, <1>5, <2>1 DEF Step, Send, Become, channelVars
<1>6. CASE NextEpisode(c)
  <2>1. Round(c)' = Round(c) + 1
    <3>1. step[c] = StepsPerEpisode /\ step'[c] = 1 /\ episode'[c] = episode[c] + 1
      BY <1>6 DEF NextEpisode
    <3>2. (episode[c] - 1) * StepsPerEpisode \in Int
      BY ClientAssumption
    <3>3. (episode[c] + 1 - 1) * StepsPerEpisode = (episode[c] - 1) * StepsPerEpisode + StepsPerEpisode
      BY ClientAssumption
    <3>. QED  BY <3>1, <3>2, <3>3, ClientAssumption DEF Round
  <2>. QED  BY <1>4, <1>6, <2>1 DEF NextEpisode, Send, Become, channelVars
\* A message for the client.
<1>7. ASSUME toClient[c] # <<>>, c \in DOMAIN clientToWorker
      PROVE  Told(c, clientToWorker[c]) /\ launches[c] > 0 /\ c \in Admitted
  BY <1>7 DEF SessionInv, Served, Off, Asked, Unsupported, Simulates, Reported, Thinks, Acting, Acts,
              Commanded, Finished, Off, Mail
<1>8. ASSUME Exit(c), clientPc[c] \in Waiting, c \notin DOMAIN clientToWorker, toClient[c] # <<>>,
             UNCHANGED <<toServer, launches>>
      PROVE  SessionInv'
  <2>1. Unserved(c)
    BY <1>8 DEF SessionInv
  <2>2. toServer[c] = <<>> /\ launches[c] > 0
    BY <1>8, <2>1 DEF Unserved, Off, Mail, Waiting
  <2>3. /\ clientPc'[c] = "off" /\ toServer'[c] = <<>> /\ toClient'[c] = <<>>
        /\ episode'[c] = 1 /\ step'[c] = 1 /\ statsTs'[c] = 0
    BY <1>8, <2>2 DEF Exit, Become
  <2>4. Unserved(c)'
    BY <2>3 DEF Unserved, Off, Mail
  <2>. QED  BY <1>0, <1>8, <2>4, OfAnUnservedClient
<1>9. ASSUME NEW n
      PROVE  Measurement(c, n).type = "env-measurement" /\ Measurement(c, n).ts = n
  BY DEF Measurement, Msg
<1>10. CASE RecvMeasurement(c)
  <2>0. /\ clientPc[c] \in Waiting /\ toClient[c] # <<>>
        /\ UNCHANGED <<toServer, launches>>
    BY <1>10 DEF RecvMeasurement
  <2>1. CASE c \notin DOMAIN clientToWorker
    <3>1. Unserved(c) /\ Head(toClient[c]).type = "env-measurement"
      BY <1>10, <2>1 DEF SessionInv, RecvMeasurement
    <3>2. Round(c) = TotalSteps
      BY <2>0, <3>1 DEF Unserved, Off, Mail, Waiting
    <3>3. Exit(c)
      BY <1>10, <3>2, RoundEnds DEF RecvMeasurement
    <3>. QED  BY <1>8, <2>0, <2>1, <3>3
  <2>2. CASE c \in DOMAIN clientToWorker
    <3>0. PICK w : w = clientToWorker[c]
      OBVIOUS
    <3>1. Told(c, w) /\ launches[c] > 0 /\ c \in Admitted
      BY <1>7, <2>0, <2>2, <3>0
    <3>2. WorkerSame(w)
      BY <1>0 DEF StepOf, WorkerSame, workerVars
    <3>3. Round(c) \in 1..TotalSteps /\ TotalSteps \in Nat
      BY RoundEnds, WorkerAssumption
    <3>4. toClient[c] = <<Measurement(c, Round(c))>> /\ toServer[c] = <<>>
      BY <3>1 DEF Told, Mail
    <3>5. CASE Round(c) = TotalSteps
      <4>1. Exit(c)
        BY <1>10, <3>5, RoundEnds DEF RecvMeasurement
      <4>2. clientPc'[c] = "off" /\ toServer'[c] = <<>> /\ toClient'[c] = <<>>
            /\ Off(c)' /\ UNCHANGED launches
        BY <2>0, <3>4, <4>1 DEF Exit, Become, Off
      <4>3. Sequel(c, w, TotalSteps, fromWorker[w])'
        BY <3>1, <3>2, <3>5 DEF Told, Sequel, WorkerSame, Hellos
      <4>4. Served(c, w)'
        BY <2>0, <3>1, <4>2, <4>3 DEF Served, Finished, Mail
      <4>. QED  BY <1>0, <2>2, <3>0, <4>4, OfAServedClient
    <3>6. CASE Round(c) # TotalSteps
      <4>1. /\ clientPc'[c] = "think" /\ statsTs'[c] = Head(toClient[c]).ts
            /\ toClient'[c] = Tail(toClient[c])
            /\ episode'[c] = episode[c] /\ step'[c] = step[c]
        BY <1>10, <3>6, RoundEnds DEF RecvMeasurement, Become, NewTs
      <4>2. statsTs'[c] = Round(c)
        BY <1>9, <3>4, <4>1
      <4>3. Round(c)' = Round(c)
        BY <4>1 DEF Round
      <4>4. Mail(c, <<>>, <<>>)'
        BY <2>0, <3>4, <4>1 DEF Mail
      <4>5. /\ workerPc[w] = "wait" /\ simClient[w] = c /\ waitCounter[w] + 1 = Round(c)
            /\ toWorker[w] = <<>> /\ fromWorker[w] = <<>>
        BY <3>1, <3>6 DEF Told, Sequel
      <4>6. /\ workerPc'[w] = "wait" /\ simClient'[w] = c /\ waitCounter'[w] + 1 = Round(c)
            /\ toWorker'[w] = <<>> /\ fromWorker'[w] = <<>>
        BY <3>2, <4>5 DEF WorkerSame
      <4>7. Served(c, w)'
        BY <2>0, <3>1, <4>1, <4>2, <4>3, <4>4, <4>6 DEF Served, Thinks
      <4>. QED  BY <1>0, <2>2, <3>0, <4>7, OfAServedClient
    <3>. QED  BY <3>5, <3>6
  <2>. QED  BY <2>1, <2>2
<1>11. ASSUME toClient[c] # <<>>, Head(toClient[c]).type # "env-measurement"
       PROVE  c \notin DOMAIN clientToWorker
  BY <1>7, <1>9, <1>11 DEF Told, Mail
<1>12. CASE RecvError(c)
  <2>0. /\ clientPc[c] \in Waiting /\ toClient[c] # <<>>
        /\ Head(toClient[c]).type = "env-error"
        /\ UNCHANGED <<toServer, launches>>
    BY <1>12 DEF RecvError
  <2>1. c \notin DOMAIN clientToWorker
    BY <1>11, <2>0
  <2>2. CASE Exit(c)
    BY <1>8, <2>0, <2>1, <2>2
  <2>3. CASE ~Exit(c)
    <3>1. /\ clientPc[c] = "reset" /\ clientPc'[c] = "sleep"
          /\ toClient'[c] = Tail(toClient[c])
          /\ episode'[c] = episode[c] /\ step'[c] = step[c] /\ statsTs'[c] = statsTs[c]
      BY <1>12, <2>3 DEF RecvError, Become
    <3>2. Unserved(c)
      BY <2>1 DEF SessionInv
    <3>3. /\ toServer[c] = <<>> /\ Tail(toClient[c]) = <<>> /\ statsTs[c] = 0 /\ Round(c) = 1
          /\ launches[c] > 0
      <4>1. Measurement(c, TotalSteps).type # "env-error"
        BY <1>9
      <4>2. ~Mail(c, <<>>, <<Measurement(c, TotalSteps)>>)
        BY <2>0, <4>1 DEF Mail
      <4>3. PICK m \in Message : Mail(c, <<>>, <<m>>)
        BY <2>0, <3>1, <3>2, <4>2 DEF Unserved, Off, Mail
      <4>4. statsTs[c] = 0 /\ Round(c) = 1 /\ launches[c] > 0
        BY <2>0, <3>1, <3>2, <4>2 DEF Unserved, Off
      <4>. QED  BY <4>3, <4>4 DEF Mail
    <3>4. Mail(c, <<>>, <<>>)' /\ Round(c)' = 1
      BY <2>0, <3>1, <3>3 DEF Mail, Round
    <3>5. Unserved(c)'
      BY <2>0, <3>1, <3>3, <3>4 DEF Unserved
    <3>. QED  BY <1>0, <2>1, <3>5, OfAnUnservedClient
  <2>. QED  BY <2>2, <2>3
<1>13. CASE RecvOther(c)
  <2>1. c \notin DOMAIN clientToWorker
    BY <1>11, <1>13 DEF RecvOther
  <2>. QED  BY <1>8, <1>13, <2>1 DEF RecvOther
<1>. QED  BY <1>1, <1>2, <1>5, <1>6, <1>10, <1>12, <1>13 DEF ClientStep, ClientRuns

-----------------------------------------------------------------------------
\* Steps of the workers.

\* Another hello.
LEMMA HellosOnly ==
    ASSUME NEW q \in Seq(Message)
    PROVE  /\ Hellos(<<>>) /\ Hellos(<<EnvHelloMsg>>)
           /\ Hellos(q) => Hellos(q \o <<EnvHelloMsg>>)
           /\ q # <<>> => /\ Head(q \o <<EnvHelloMsg>>) = Head(q)
                          /\ Tail(q \o <<EnvHelloMsg>>) = Tail(q) \o <<EnvHelloMsg>>
                          /\ q \o <<EnvHelloMsg>> # <<>>
                          /\ Tail(q) \in Seq(Message)
<1>1. EnvHelloMsg \in Message
  BY MsgType DEF EnvHelloMsg, MessageTypes
<1>. DEFINE h == EnvHelloMsg
<1>. HIDE DEF h
<1>2. /\ \A i \in 1..Len(<<>>) : <<>>[i] = h
      /\ \A i \in 1..Len(<<h>>) : <<h>>[i] = h
  OBVIOUS
<1>3. ASSUME \A i \in 1..Len(q) : q[i] = h, NEW i \in 1..Len(q \o <<h>>)
      PROVE  (q \o <<h>>)[i] = h
  BY <1>3
<1>4. ASSUME q # <<>>
      PROVE  /\ Head(q \o <<h>>) = Head(q)
             /\ Tail(q \o <<h>>) = Tail(q) \o <<h>>
             /\ q \o <<h>> # <<>>
             /\ Tail(q) \in Seq(Message)
  BY <1>1, <1>4 DEF h
<1>. QED  BY <1>2, <1>3, <1>4 DEF h, Hellos

\* What the steps of worker w leave alone.
LEMMA OthersSame ==
    ASSUME Undisturbed, WireInv, NEW w \in Workers, WorkerStep(w)
    PROVE  /\ WorkerRuns(w) \/ Boot(w) \/ HelloAgain(w)
           /\ UNCHANGED <<serverVars, clientVars, toClient>>
           /\ \A c : ClientSame(c)
           /\ \A v \in Workers : v # w => WorkerSame(v) /\ simError'[v] = simError[v]
<1>. /\ toWorker \in [Workers -> Seq(Message)]
     /\ fromWorker \in [Workers -> Seq(Message)]
     /\ workerPc \in [Workers -> Simulating \cup {"dead", "idle", "down"}]
     /\ simClient \in [Workers -> Clients \cup {NoClient}]
     /\ waitCounter \in [Workers -> 0..TotalSteps]
     /\ simError \in [Workers -> BOOLEAN]
  BY DEF WireInv, ChannelsTypeOK, WorkerTypeOK
<1>1. WorkerRuns(w) \/ Boot(w) \/ HelloAgain(w)
  BY DEF Undisturbed, WorkerStep
<1>2. UNCHANGED <<serverVars, clientVars>>
  BY DEF WorkerStep
<1>3. UNCHANGED toClient
  BY <1>1 DEF WorkerRuns, Boot, HelloAgain, RecvStart, RecvUnexpected, ReportOutcome, SimConnect,
              Measure, GetAction, SimCompletes, SimEnds, Open, Close, channelVars
<1>4. \A c : ClientSame(c)
  BY <1>2, <1>3 DEF clientVars, ClientSame
<1>5. ASSUME NEW v \in Workers, v # w
      PROVE  /\ toWorker'[v] = toWorker[v] /\ fromWorker'[v] = fromWorker[v]
             /\ workerPc'[v] = workerPc[v] /\ simClient'[v] = simClient[v]
             /\ waitCounter'[v] = waitCounter[v] /\ simError'[v] = simError[v]
  BY <1>1, <1>5
  DEF WorkerRuns, Boot, HelloAgain, RecvStart, RecvUnexpected, ReportOutcome, SimConnect, Measure,
      GetAction, SimCompletes, SimEnds, Open, Close, Report, Turn, NoSimulator, channelVars
<1>. QED  BY <1>1, <1>2, <1>3, <1>4, <1>5 DEF WorkerSame

\* A free worker only says hello.
LEMMA FreeStep ==
    ASSUME Undisturbed, WireInv, NEW w \in Workers, WorkerStep(w), Free(w), ~simError[w]
    PROVE  Free(w)' /\ ~simError'[w]
<1>. /\ fromWorker \in [Workers -> Seq(Message)]
     /\ toWorker \in [Workers -> Seq(Message)]
     /\ workerPc \in [Workers -> Simulating \cup {"dead", "idle", "down"}]
     /\ simError \in [Workers -> BOOLEAN]
  BY DEF WireInv, ChannelsTypeOK, WorkerTypeOK
<1>1. CASE Boot(w)
  <2>1. /\ workerPc[w] = "dead" /\ workerPc'[w] = "idle" /\ fromWorker'[w] = fromWorker[w] \o <<EnvHelloMsg>>
        /\ UNCHANGED <<toWorker, simClient, simError>>
    BY <1>1 DEF Boot, Turn, Report, Open
  <2>2. fromWorker[w] = <<>>
    BY <2>1 DEF Free
  <2>3. Hellos(fromWorker'[w])
    BY <2>1, <2>2, HellosOnly
  <2>. QED  BY <2>1, <2>3 DEF Free, Hellos
<1>2. CASE HelloAgain(w)
  <2>1. /\ workerPc[w] = "idle" /\ fromWorker'[w] = fromWorker[w] \o <<EnvHelloMsg>>
        /\ UNCHANGED <<toWorker, simClient, simError, workerPc>>
    BY <1>2 DEF HelloAgain, Report, channelVars
  <2>2. Hellos(fromWorker'[w])
    BY <2>1, HellosOnly DEF Free
  <2>. QED  BY <2>1, <2>2 DEF Free, Hellos
<1>3. ~WorkerRuns(w)
  <2>1. workerPc[w] \in {"dead", "idle"} /\ toWorker[w] = <<>>
    BY DEF Free
  <2>. QED  BY <2>1 DEF WorkerRuns, RecvStart, RecvUnexpected, ReportOutcome, SimConnect, Measure,
                 GetAction, SimCompletes
<1>. QED  BY <1>1, <1>2, <1>3, OthersSame

\* A queue of one message.
LEMMA OneMessage ==
    ASSUME NEW q \in Seq(Message), q # <<>>, Tail(q) = <<>>
    PROVE  /\ q = <<Head(q)>>
           /\ \A e \in Seq(Message) :
                Head(q \o e) = Head(q) /\ Tail(q \o e) = e /\ q \o e # <<>>
<1>1. Len(q) = 1
  <2>1. Len(q) \in Nat /\ Len(Tail(q)) = Len(q) - 1
    BY HeadTailProperties, LenProperties
  <2>2. PICK t : t = Tail(q)
    OBVIOUS
  <2>3. Len(t) = 0
    BY <2>2
  <2>. QED  BY <2>1, <2>2, <2>3
<1>2. q[1] = Head(q)
  BY <1>1
<1>3. q = <<Head(q)>>
  BY <1>1, <1>2
<1>4. ASSUME NEW e \in Seq(Message)
      PROVE  Head(q \o e) = Head(q) /\ Tail(q \o e) = e /\ q \o e # <<>>
  <2>. Len(e) \in Nat
    OBVIOUS
  <2>0. PICK s : s = q \o e
    OBVIOUS
  <2>1. /\ s \in Seq(Message) /\ Len(s) = 1 + Len(e)
        /\ \A i \in 1..(1 + Len(e)) : s[i] = IF i <= 1 THEN q[i] ELSE e[i - 1]
    <3>1. /\ q \o e \in Seq(Message) /\ Len(q \o e) = Len(q) + Len(e)
          /\ \A i \in 1..(Len(q) + Len(e)) :
                (q \o e)[i] = IF i <= Len(q) THEN q[i] ELSE e[i - Len(q)]
      BY ConcatProperties
    <3>2. /\ s \in Seq(Message) /\ Len(s) = Len(q) + Len(e)
          /\ \A i \in 1..(Len(q) + Len(e)) : s[i] = IF i <= Len(q) THEN q[i] ELSE e[i - Len(q)]
      BY <2>0, <3>1, Zenon
    <3>. QED  BY <1>1, <3>2
  <2>2. s # <<>> /\ Head(s) = q[1]
    BY <2>1
  <2>3. /\ Tail(s) \in Seq(Message) /\ Len(Tail(s)) = Len(e)
        /\ \A i \in 1..Len(e) : Tail(s)[i] = s[i + 1]
    BY <2>1, <2>2, HeadTailProperties
  <2>4. \A i \in 1..Len(e) : Tail(s)[i] = e[i]
    BY <2>1, <2>3
  <2>5. Tail(s) = e
    BY <2>3, <2>4, SeqEqual
  <2>. QED  BY <1>2, <2>0, <2>2, <2>5
<1>. QED  BY <1>3, <1>4

\* A worker whose session has ended says hello.
LEMMA SequelGoesOn ==
    ASSUME NEW c, NEW w, NEW n, NEW q \in Seq(Message),
           Sequel(c, w, n, q), workerPc[w] = "idle", workerPc'[w] = "idle",
           simClient'[w] = simClient[w], toWorker'[w] = <<>>
    PROVE  \A r : r = q \o <<EnvHelloMsg>> => Sequel(c, w, n, r)'
<1>1. /\ n = TotalSteps /\ simClient[w] = NoClient
      /\ q # <<>> /\ Head(q) = Msg("env-end", c) /\ Hellos(Tail(q))
  BY DEF Sequel
<1>. SUFFICES ASSUME NEW r, r = q \o <<EnvHelloMsg>>
              PROVE  Sequel(c, w, n, r)'
  OBVIOUS
<1>2. /\ r # <<>> /\ Head(r) = Msg("env-end", c) /\ Tail(r) = Tail(q) \o <<EnvHelloMsg>>
      /\ Tail(q) \in Seq(Message)
  BY <1>1, HellosOnly
<1>3. Hellos(Tail(r))
  BY <1>1, <1>2, HellosOnly
<1>. QED  BY <1>1, <1>2, <1>3 DEF Sequel

\* The steps of a dedicated worker keep its session.
LEMMA ServedStep ==
    ASSUME Undisturbed, WireInv, NEW w \in Workers, WorkerStep(w), NEW c \in Clients, Served(c, w),
           ~simError[w]
    PROVE  Served(c, w)' /\ ~simError'[w]
<1>. /\ fromWorker \in [Workers -> Seq(Message)]
     /\ toWorker \in [Workers -> Seq(Message)]
     /\ workerPc \in [Workers -> Simulating \cup {"dead", "idle", "down"}]
     /\ simClient \in [Workers -> Clients \cup {NoClient}]
     /\ waitCounter \in [Workers -> 0..TotalSteps]
     /\ simError \in [Workers -> BOOLEAN]
  BY DEF WireInv, ChannelsTypeOK, WorkerTypeOK
<1>. ClientSame(c)
  BY OthersSame
<1>a. /\ Round(c)' = Round(c) /\ clientPc'[c] = clientPc[c] /\ statsTs'[c] = statsTs[c]
      /\ launches'[c] = launches[c]
      /\ Starting(c)' <=> Starting(c)
      /\ Off(c)' <=> Off(c)
      /\ \A q, a : Mail(c, q, a)' <=> Mail(c, q, a)
  BY DEF ClientSame, Round, Starting, Off, Mail
<1>b. c \in Admitted /\ launches[c] > 0
  BY DEF Served
<1>0. DEFINE q == fromWorker[w]
<1>1. ~Boot(w)
  BY DEF Boot, Served, Asked, Unsupported, Simulates, Reported, Told, Thinks, Acting, Acts,
         Commanded, Finished, Off, Sequel
<1>2. CASE HelloAgain(w)
  <2>1. /\ workerPc[w] = "idle" /\ toWorker[w] = <<>>
        /\ fromWorker'[w] = fromWorker[w] \o <<EnvHelloMsg>>
        /\ UNCHANGED <<toWorker, simClient, simError, workerPc>>
    BY <1>2 DEF HelloAgain, Report, channelVars
  <2>2. CASE Unsupported(c, w)
    <3>1. Hellos(Tail(fromWorker'[w])) /\ Head(fromWorker'[w]) = Head(fromWorker[w]) /\ fromWorker'[w] # <<>>
      BY <2>1, <2>2, HellosOnly DEF Unsupported
    <3>2. Unsupported(c, w)'
      BY <1>a, <2>1, <2>2, <3>1 DEF Unsupported, Hellos
    <3>. QED  BY <1>a, <1>b, <2>1, <3>2 DEF Served
  <2>3. CASE Reported(c, w)
    <3>1. /\ Head(fromWorker'[w]) = Head(fromWorker[w]) /\ fromWorker'[w] # <<>>
          /\ Tail(fromWorker'[w]) = Tail(fromWorker[w]) \o <<EnvHelloMsg>>
          /\ Tail(fromWorker[w]) \in Seq(Message)
      BY <2>1, <2>3, HellosOnly DEF Reported
    <3>2. Sequel(c, w, Round(c), Tail(fromWorker[w]))
      BY <2>3 DEF Reported
    <3>3. \A n, r : n = Round(c) /\ r = Tail(fromWorker[w]) \o <<EnvHelloMsg>> => Sequel(c, w, n, r)'
      BY <2>1, <3>1, <3>2, SequelGoesOn
    <3>4. Sequel(c, w, Round(c), Tail(fromWorker[w]))'
      BY <1>a, <3>1, <3>3
    <3>5. Head(fromWorker'[w]) = Measurement(c, Round(c)')
      BY <1>a, <2>3, <3>1 DEF Reported
    <3>6. Reported(c, w)'
      BY <1>a, <2>1, <2>3, <3>1, <3>4, <3>5 DEF Reported
    <3>. QED  BY <1>a, <1>b, <2>1, <3>6 DEF Served
  <2>4. CASE Told(c, w)
    <3>1. Sequel(c, w, Round(c), fromWorker[w])
      BY <2>4 DEF Told
    <3>2. \A n, r : n = Round(c) /\ r = fromWorker[w] \o <<EnvHelloMsg>> => Sequel(c, w, n, r)'
      BY <2>1, <3>1, SequelGoesOn
    <3>3. Sequel(c, w, Round(c), fromWorker[w])'
      BY <1>a, <2>1, <3>2
    <3>4. Told(c, w)'
      BY <1>a, <2>4, <3>3 DEF Told
    <3>. QED  BY <1>a, <1>b, <2>1, <3>4 DEF Served
  <2>5. CASE Finished(c, w)
    <3>1. Sequel(c, w, TotalSteps, fromWorker[w])
      BY <2>5 DEF Finished, Off
    <3>2. \A r : r = fromWorker[w] \o <<EnvHelloMsg>> => Sequel(c, w, TotalSteps, r)'
      BY <2>1, <3>1, SequelGoesOn
    <3>3. Sequel(c, w, TotalSteps, fromWorker[w])'
      BY <2>1, <3>2
    <3>4. Finished(c, w)'
      BY <1>a, <2>5, <3>3 DEF Finished
    <3>. QED  BY <1>a, <1>b, <2>1, <3>4 DEF Served
  <2>6. ~Asked(c, w) /\ ~Simulates(c, w) /\ ~Thinks(c, w) /\ ~Acts(c, w) /\ ~Commanded(c, w)
    BY <2>1 DEF Asked, Simulates, Thinks, Acts, Commanded, Acting
  <2>. QED  BY <2>2, <2>3, <2>4, <2>5, <2>6 DEF Served
<1>3. CASE RecvStart(w)
  <2>1. /\ workerPc[w] = "idle" /\ toWorker[w] # <<>>
        /\ simClient'[w] = Head(toWorker[w]).client
        /\ toWorker'[w] = <<>> /\ workerPc'[w] = "launch"
        /\ fromWorker'[w] = fromWorker[w] /\ waitCounter'[w] = waitCounter[w]
        /\ simError'[w] = simError[w]
    BY <1>3 DEF RecvStart, Close, Turn
  <2>2. Asked(c, w)
    BY <2>1 DEF Served, Unsupported, Simulates, Reported, Told, Thinks, Acting, Acts, Commanded,
                Finished, Off, Sequel
  <2>3. EnvStart(c).client = c
    BY DEF EnvStart, Msg
  <2>4. simClient'[w] = c
    BY <2>1, <2>2, <2>3 DEF Asked
  <2>5. waitCounter[w] = 0
    BY <2>1 DEF WireInv, Progress
  <2>6. Simulates(c, w)'
    BY <1>a, <2>1, <2>2, <2>4, <2>5 DEF Asked, Starting, Waiting, Simulates
  <2>. QED  BY <1>a, <1>b, <2>1, <2>6 DEF Served
<1>4. CASE RecvUnexpected(w)
  <2>1. /\ workerPc[w] = "idle" /\ toWorker[w] # <<>>
        /\ fromWorker'[w] = fromWorker[w] \o <<Msg("env-error", Head(toWorker[w]).client), EnvHelloMsg>>
        /\ toWorker'[w] = Tail(toWorker[w])
        /\ UNCHANGED <<workerPc, simClient, simError>>
    BY <1>4 DEF RecvUnexpected, Report
  <2>2. Asked(c, w)
    BY <2>1 DEF Served, Unsupported, Simulates, Reported, Told, Thinks, Acting, Acts, Commanded,
                Finished, Off, Sequel
  <2>3. EnvStart(c).client = c
    BY DEF EnvStart, Msg
  <2>4. toWorker'[w] = <<>> /\ fromWorker'[w] = <<Msg("env-error", c), EnvHelloMsg>>
    BY <2>1, <2>2, <2>3 DEF Asked
  <2>. DEFINE e == <<Msg("env-error", c), EnvHelloMsg>>
  <2>5. e # <<>> /\ Head(e) = Msg("env-error", c) /\ Tail(e) = <<EnvHelloMsg>> /\ Hellos(Tail(e))
    BY HellosOnly
  <2>6. Unsupported(c, w)'
    <3>. HIDE DEF e
    <3>1. fromWorker'[w] = e
      BY <2>4 DEF e
    <3>. QED  BY <1>a, <2>1, <2>2, <2>4, <2>5, <3>1 DEF Asked, Unsupported, Hellos
  <2>. QED  BY <1>a, <1>b, <2>1, <2>6 DEF Served
<1>5. CASE ReportOutcome(w)
  <2>1. /\ workerPc[w] = "down" /\ workerPc'[w] = "idle" /\ simClient'[w] = NoClient
        /\ fromWorker'[w] = fromWorker[w] \o <<Msg("env-end", simClient[w]), EnvHelloMsg>>
        /\ toWorker' = toWorker /\ ~simError'[w]
    BY <1>5 DEF ReportOutcome, Outcome, Report, Turn, NoSimulator, Open
  <2>2. /\ toWorker[w] = <<>> /\ simClient[w] = c
        /\ \/ Reported(c, w) /\ Round(c) = TotalSteps /\ Tail(fromWorker[w]) = <<>>
           \/ Told(c, w) /\ Round(c) = TotalSteps /\ fromWorker[w] = <<>>
           \/ Finished(c, w) /\ fromWorker[w] = <<>>
    BY <2>1 DEF Served, Asked, Unsupported, Simulates, Reported, Told, Thinks, Acting, Acts,
                Commanded, Finished, Off, Sequel
  <2>. DEFINE e == <<Msg("env-end", c), EnvHelloMsg>>
  <2>3. /\ e # <<>> /\ Head(e) = Msg("env-end", c) /\ Tail(e) = <<EnvHelloMsg>>
        /\ Hellos(Tail(e))
    BY HellosOnly
  <2>4. fromWorker'[w] = fromWorker[w] \o e
    BY <2>1, <2>2
  <2>. e \in Seq(Message)
    <3>1. Msg("env-end", c) \in Message /\ EnvHelloMsg \in Message
      BY MsgType DEF EnvHelloMsg, MessageTypes
    <3>. QED  BY <3>1
  <2>. HIDE DEF e
  <2>5. ASSUME NEW r, r = e
        PROVE  Sequel(c, w, TotalSteps, r)'
    BY <2>1, <2>2, <2>3, <2>5 DEF Sequel
  <2>6. CASE Reported(c, w) /\ Round(c) = TotalSteps /\ Tail(fromWorker[w]) = <<>>
    <3>1. fromWorker[w] = <<Head(fromWorker[w])>>
      BY <2>6, OneMessage DEF Reported
    <3>2. Head(fromWorker'[w]) = Head(fromWorker[w]) /\ Tail(fromWorker'[w]) = e /\ fromWorker'[w] # <<>>
      BY <2>4, <2>6, OneMessage DEF Reported
    <3>3. Sequel(c, w, Round(c), Tail(fromWorker[w]))'
      BY <1>a, <2>5, <2>6, <3>2
    <3>4. Head(fromWorker'[w]) = Measurement(c, Round(c)')
      BY <1>a, <2>6, <3>2 DEF Reported
    <3>5. Reported(c, w)'
      BY <1>a, <2>6, <3>2, <3>3, <3>4 DEF Reported
    <3>. QED  BY <1>a, <1>b, <2>1, <3>5 DEF Served
  <2>7. CASE Told(c, w) /\ Round(c) = TotalSteps /\ fromWorker[w] = <<>>
    <3>1. fromWorker'[w] = e
      BY <2>4, <2>7
    <3>2. Sequel(c, w, Round(c), fromWorker[w])'
      BY <1>a, <2>5, <2>7, <3>1
    <3>3. Told(c, w)'
      BY <1>a, <2>7, <3>2 DEF Told
    <3>. QED  BY <1>a, <1>b, <2>1, <3>3 DEF Served
  <2>8. CASE Finished(c, w) /\ fromWorker[w] = <<>>
    <3>1. fromWorker'[w] = e
      BY <2>4, <2>8
    <3>2. Sequel(c, w, TotalSteps, fromWorker[w])'
      BY <2>5, <3>1
    <3>3. Finished(c, w)'
      BY <1>a, <2>8, <3>2 DEF Finished
    <3>. QED  BY <1>a, <1>b, <2>1, <3>3 DEF Served
  <2>. QED  BY <2>2, <2>6, <2>7, <2>8
<1>6. CASE SimConnect(w)
  <2>1. /\ workerPc[w] = "launch" /\ workerPc'[w] = "run"
        /\ UNCHANGED <<fromWorker, simClient, waitCounter, simError, toWorker>>
    BY <1>6 DEF SimConnect, Open, Turn
  <2>2. Simulates(c, w)
    BY <2>1 DEF Served, Asked, Unsupported, Reported, Told, Thinks, Acting, Acts,
                Commanded, Finished, Off, Sequel
  <2>3. Simulates(c, w)'
    BY <1>a, <2>1, <2>2 DEF Simulates
  <2>. QED  BY <1>a, <1>b, <2>1, <2>3 DEF Served
<1>7. CASE Measure(w)
  <2>1. /\ workerPc[w] = "run" /\ workerPc'[w] = IF waitCounter[w] + 1 >= TotalSteps THEN "drain" ELSE "wait"
        /\ fromWorker'[w] = fromWorker[w] \o <<Measurement(simClient[w], waitCounter[w] + 1)>>
        /\ UNCHANGED <<simClient, waitCounter, simError, toWorker>>
    BY <1>7 DEF Measure, Turn, Report, LastStep, MeasurementTs, Measurement, channelVars
  <2>2. Simulates(c, w)
    BY <2>1 DEF Served, Asked, Unsupported, Reported, Told, Thinks, Acting, Acts,
                Commanded, Finished, Off, Sequel
  <2>3. fromWorker'[w] = <<Measurement(c, Round(c))>>
    BY <2>1, <2>2 DEF Simulates
  <2>4. /\ Head(fromWorker'[w]) = Measurement(c, Round(c)) /\ Tail(fromWorker'[w]) = <<>>
        /\ fromWorker'[w] # <<>>
    BY <2>3
  <2>5. Round(c) \in 1..TotalSteps /\ TotalSteps \in Nat
    BY RoundEnds, WorkerAssumption
  <2>6. Sequel(c, w, Round(c), Tail(fromWorker[w]))'
    <3>1. waitCounter[w] + 1 >= TotalSteps => Round(c) = TotalSteps
      BY <2>2, <2>5 DEF Simulates
    <3>2. ~(waitCounter[w] + 1 >= TotalSteps) => Round(c) < TotalSteps
      BY <2>2, <2>5 DEF Simulates
    <3>3. /\ simClient'[w] = c /\ waitCounter'[w] + 1 = Round(c) /\ toWorker'[w] = <<>>
      BY <2>1, <2>2 DEF Simulates
    <3>4. CASE waitCounter[w] + 1 >= TotalSteps
      BY <1>a, <2>1, <2>4, <3>1, <3>3, <3>4 DEF Sequel
    <3>5. CASE ~(waitCounter[w] + 1 >= TotalSteps)
      BY <1>a, <2>1, <2>4, <3>2, <3>3, <3>5 DEF Sequel
    <3>. QED  BY <3>4, <3>5
  <2>7. Reported(c, w)'
    BY <1>a, <2>2, <2>4, <2>6 DEF Simulates, Reported
  <2>. QED  BY <1>a, <1>b, <2>1, <2>7 DEF Served
<1>8. CASE GetAction(w)
  <2>1. workerPc[w] = "wait" /\ toWorker[w] # <<>>
    BY <1>8 DEF GetAction
  <2>2. Commanded(c, w)
    BY <2>1 DEF Served, Asked, Unsupported, Simulates, Reported, Told, Thinks, Acting, Acts,
                Finished, Off, Sequel
  <2>. DEFINE a == Action(c, statsTs[c])
  <2>3. a.client = c /\ a.type = "env-action" /\ a.ts = statsTs[c]
    BY DEF Action, Msg
  <2>4. toWorker[w] = <<a>> /\ simClient[w] = c /\ waitCounter[w] + 1 = statsTs[c]
    BY <2>2 DEF Commanded, Acting
  <2>. HIDE DEF a
  <2>5. Acceptable(w, toWorker[w])
    BY <2>3, <2>4 DEF Acceptable
  <2>6. /\ waitCounter'[w] = waitCounter[w] + 1 /\ workerPc'[w] = "run" /\ toWorker'[w] = <<>>
        /\ UNCHANGED <<fromWorker, simClient, simError>>
    BY <1>8, <2>5 DEF GetAction, Turn
  <2>7. waitCounter[w] + 1 + 1 = Round(c)
    BY <2>2, <2>4 DEF Commanded, Acting
  <2>8. Simulates(c, w)'
    BY <1>a, <2>2, <2>6, <2>7 DEF Commanded, Acting, Simulates, Waiting
  <2>. QED  BY <1>a, <1>b, <2>6, <2>8 DEF Served
<1>9. CASE SimCompletes(w)
  <2>1. /\ workerPc[w] = "drain" /\ workerPc'[w] = "down" /\ simError'[w] = FALSE
        /\ toWorker'[w] = <<>>
        /\ UNCHANGED <<fromWorker, simClient, waitCounter>>
    BY <1>9 DEF SimCompletes, SimEnds, Turn, Close
  <2>2. ASSUME NEW n, NEW r, Sequel(c, w, n, r)
        PROVE  Sequel(c, w, n, r)'
    BY <2>1, <2>2 DEF Sequel
  <2>3. CASE Reported(c, w)
    <3>1. Reported(c, w)'
      BY <1>a, <2>1, <2>2, <2>3 DEF Reported
    <3>. QED  BY <1>a, <1>b, <2>1, <3>1 DEF Served
  <2>4. CASE Told(c, w)
    <3>1. Told(c, w)'
      BY <1>a, <2>1, <2>2, <2>4 DEF Told
    <3>. QED  BY <1>a, <1>b, <2>1, <3>1 DEF Served
  <2>5. CASE Finished(c, w)
    <3>1. Finished(c, w)'
      BY <1>a, <2>1, <2>2, <2>5 DEF Finished
    <3>. QED  BY <1>a, <1>b, <2>1, <3>1 DEF Served
  <2>. QED
    BY <2>1, <2>3, <2>4, <2>5
    DEF Served, Asked, Unsupported, Simulates, Thinks, Acting, Acts, Commanded
<1>. QED
  BY <1>1, <1>2, <1>3, <1>4, <1>5, <1>6, <1>7, <1>8, <1>9, OthersSame DEF WorkerRuns

\* The steps of the workers keep the invariant.
LEMMA WorkerStepServes ==
    ASSUME Undisturbed, SessionInv, WireInv, RoutesOK, NEW w \in Workers, WorkerStep(w)
    PROVE  SessionInv'
<1>1. ~simError[w]
  BY DEF SessionInv, NoSimulationFails
<1>2. /\ UNCHANGED <<clientToWorker, availableWorkers, clientVars, toClient>>
      /\ \A v \in Workers : v # w => WorkerSame(v) /\ simError'[v] = simError[v]
  BY OthersSame DEF serverVars, poolVars, routeVars
<1>3. ASSUME NEW c \in DOMAIN clientToWorker, clientToWorker[c] = w
      PROVE  Served(c, w)' /\ ~simError'[w]
  <2>1. c \in Clients /\ Served(c, w)
    BY <1>3 DEF SessionInv, RoutesOK, Dicts
  <2>. QED  BY <1>1, <2>1, ServedStep
<1>4. ASSUME w \notin Values(clientToWorker)
      PROVE  Free(w)' /\ ~simError'[w]
  BY <1>1, <1>4, FreeStep DEF SessionInv
<1>5. ~simError'[w]
  BY <1>3, <1>4 DEF Values
<1>. QED  BY <1>2, <1>3, <1>4, <1>5, OfAWorker

-----------------------------------------------------------------------------
\* Steps of the server.

\* What a step of the server has to keep that concerns client c and worker w,
\* dedicated to c before or after it.
LEMMA OfTheServer ==
    ASSUME SessionInv, RoutesOK, NEW c \in Clients, NEW w \in Workers, UNCHANGED simError,
           \A d \in Clients : d # c => ClientSame(d),
           \A v \in Workers : v # w => WorkerSame(v),
           DOMAIN availableWorkers' \subseteq DOMAIN availableWorkers \cup {w},
           \A d \in DOMAIN clientToWorker : clientToWorker[d] = w <=> d = c,
           \A d : d # c => /\ d \in DOMAIN clientToWorker' <=> d \in DOMAIN clientToWorker
                           /\ d \in DOMAIN clientToWorker => clientToWorker'[d] = clientToWorker[d],
           \/ c \in DOMAIN clientToWorker' /\ clientToWorker'[c] = w /\ Served(c, w)'
           \/ c \notin DOMAIN clientToWorker' /\ Unserved(c)' /\ Free(w)'
    PROVE  SessionInv'
<1>1. NoSimulationFails'
  BY DEF SessionInv, NoSimulationFails
<1>2. ASSUME NEW d \in Clients, d # c
      PROVE  IF d \in DOMAIN clientToWorker' THEN Served(d, clientToWorker[d])' ELSE Unserved(d)'
  <2>1. CASE d \in DOMAIN clientToWorker
    <3>1. clientToWorker[d] \in Workers /\ clientToWorker[d] # w
      BY <1>2, <2>1 DEF RoutesOK, Dicts
    <3>2. PICK v \in Workers : v = clientToWorker[d]
      BY <3>1
    <3>3. Served(d, v) /\ clientToWorker'[d] = v
      BY <1>2, <2>1, <3>2 DEF SessionInv
    <3>4. Served(d, v)'
      BY <1>2, <3>1, <3>2, <3>3, ServedFrame
    <3>. QED  BY <1>2, <2>1, <3>3, <3>4
  <2>2. CASE d \notin DOMAIN clientToWorker
    BY <1>2, <2>2, UnservedFrame DEF SessionInv
  <2>. QED  BY <2>1, <2>2
<1>3. IF c \in DOMAIN clientToWorker' THEN Served(c, clientToWorker[c])' ELSE Unserved(c)'
  OBVIOUS
<1>4. ASSUME NEW v \in Workers, v \notin Values(clientToWorker')
      PROVE  Free(v)'
  <2>1. CASE v = w
    <3>1. c \notin DOMAIN clientToWorker'
      BY <1>4, <2>1 DEF Values
    <3>. QED  BY <2>1, <3>1
  <2>2. CASE v # w
    <3>1. v \notin Values(clientToWorker)
      BY <1>4, <2>2 DEF Values
    <3>2. Free(v) /\ WorkerSame(v)
      BY <2>2, <3>1 DEF SessionInv
    <3>. QED  BY <2>2, <3>2, FreeFrame
  <2>. QED  BY <2>1, <2>2
<1>. QED  BY <1>1, <1>2, <1>3, <1>4 DEF SessionInv

\* Nothing is dropped: the peer is connected and reads before the next
\* message.
LEMMA Delivered ==
    ASSUME Undisturbed, WireInv, NEW p \in online, NEW m
    PROVE  /\ p \in Clients /\ toClient[p] = <<>> =>
                /\ Deliver(toClient, p, m)[p] = <<m>>
                /\ \A r \in Clients : r # p => Deliver(toClient, p, m)[r] = toClient[r]
           /\ p \in Workers /\ toWorker[p] = <<>> =>
                /\ Deliver(toWorker, p, m)[p] = <<m>>
                /\ \A r \in Workers : r # p => Deliver(toWorker, p, m)[r] = toWorker[r]
<1>. /\ toClient \in [Clients -> Seq(Message)]
     /\ toWorker \in [Workers -> Seq(Message)]
  BY DEF WireInv, ChannelsTypeOK
<1>1. HighWaterMark \in Nat /\ 0 < HighWaterMark
  BY ChannelsAssumption DEF Undisturbed
<1>2. ASSUME p \in Clients, toClient[p] = <<>>
      PROVE  Deliver(toClient, p, m) = [toClient EXCEPT ![p] = Append(toClient[p], m)]
  <2>1. Len(toClient[p]) < HighWaterMark
    BY <1>1, <1>2
  <2>. QED  BY <2>1 DEF Deliver
<1>3. ASSUME p \in Workers, toWorker[p] = <<>>
      PROVE  Deliver(toWorker, p, m) = [toWorker EXCEPT ![p] = Append(toWorker[p], m)]
  <2>1. Len(toWorker[p]) < HighWaterMark
    BY <1>1, <1>3
  <2>. QED  BY <2>1 DEF Deliver
<1>. QED  BY <1>2, <1>3

\* Only the hello of w makes a worker available, and only w.
LEMMA PoolShrinks ==
    /\ DOMAIN Available \subseteq DOMAIN availableWorkers
    /\ OnlyExpire => DOMAIN availableWorkers' \subseteq DOMAIN availableWorkers
    /\ \A w : Remove(w) => DOMAIN availableWorkers' \subseteq DOMAIN availableWorkers
    /\ \A w : DOMAIN Enlist(w) \subseteq DOMAIN availableWorkers \cup {w}
BY DEF OnlyExpire, Remove, Available, Enlist, Put

\* The first message from a dedicated worker.
LEMMA HeardFromServed ==
    ASSUME NEW c, NEW w, Served(c, w), fromWorker[w] # <<>>
    PROVE  /\ c \in Admitted /\ launches[c] > 0 /\ toWorker[w] = <<>>
           /\ \/ Unsupported(c, w)
              \/ Reported(c, w)
              \/ /\ (Told(c, w) /\ Round(c) = TotalSteps) \/ Finished(c, w)
                 /\ workerPc[w] = "idle" /\ simClient[w] = NoClient
                 /\ Head(fromWorker[w]) = Msg("env-end", c) /\ Hellos(Tail(fromWorker[w]))
BY DEF Served, Asked, Unsupported, Simulates, Reported, Told, Thinks, Acting, Acts, Commanded,
       Finished, Sequel

\* The server's handlers of workers' messages keep the invariant.
LEMMA ServerHearsServes ==
    ASSUME Undisturbed, SessionInv, WireInv, RoutesOK, NEW w \in Workers, ServerHears(w)
    PROVE  SessionInv'
<1>. /\ fromWorker \in [Workers -> Seq(Message)]
     /\ toClient \in [Clients -> Seq(Message)]
     /\ toServer \in [Clients -> Seq(Message)]
  BY DEF WireInv, ChannelsTypeOK, WorkerTypeOK, ClientTypeOK
<1>1. /\ fromWorker[w] # <<>>
      /\ FromWorker(w, Head(fromWorker[w]))
      /\ fromWorker' = [fromWorker EXCEPT ![w] = Tail(@)]
      /\ UNCHANGED <<clientVars, workerPc, simClient, waitCounter, simError>>
  BY DEF ServerHears
<1>2. PICK m : m = Head(fromWorker[w])
  OBVIOUS
<1>3. FromWorker(w, m) /\ m \in Message
  BY <1>1, <1>2, HeadTailProperties
<1>4. UNCHANGED <<online, toWorker>>
  BY <1>3 DEF FromWorker, EnvHello, EnvError, EnvEnd, RelayToClient, channelVars
<1>5. \A v \in Workers : v # w => WorkerSame(v)
  BY <1>1, <1>4 DEF WorkerSame
<1>6. CASE w \notin Values(clientToWorker)
  <2>1. Free(w)
    BY <1>6 DEF SessionInv
  <2>2. workerPc[w] = "idle" /\ Hellos(fromWorker[w])
    BY <1>1, <2>1 DEF Free
  <2>3. m = EnvHelloMsg /\ Hellos(Tail(fromWorker[w]))
    BY <1>1, <1>2, <2>2, HeadTailProperties DEF Hellos
  <2>4. EnvHello(w, m)
    BY <1>3, <2>3 DEF FromWorker, EnvError, EnvEnd, RelayToClient, EnvHelloMsg, Msg
  <2>5. UNCHANGED <<clientToWorker, toClient>>
    BY <1>6, <2>4 DEF EnvHello, DropRouteTo, Values
  <2>6. DOMAIN availableWorkers' \subseteq DOMAIN availableWorkers \cup {w}
    BY <2>4, PoolShrinks DEF EnvHello
  <2>7. fromWorker'[w] = Tail(fromWorker[w])
    BY <1>1
  <2>8. Free(w)'
    BY <1>1, <1>4, <2>1, <2>2, <2>3, <2>7 DEF Free, Hellos
  <2>9. \A v \in Workers : simError'[v] = simError[v] /\ ~simError[v]
    BY <1>1 DEF SessionInv, NoSimulationFails
  <2>. QED  BY <1>1, <1>5, <1>6, <2>5, <2>6, <2>8, <2>9, OfAWorker DEF Values
<1>7. CASE w \in Values(clientToWorker)
  <2>1. PICK c \in DOMAIN clientToWorker : clientToWorker[c] = w
    BY <1>7 DEF Values
  <2>. c \in Clients
    BY <2>1 DEF RoutesOK, Dicts
  <2>2. \A d \in DOMAIN clientToWorker : clientToWorker[d] = w <=> d = c
    BY <2>1 DEF RoutesOK
  <2>3. Served(c, w)
    BY <2>1 DEF SessionInv
  <2>4. UNCHANGED <<clientPc, episode, step, statsTs, launches>> /\ toServer' = toServer
    BY <1>1 DEF clientVars
  <2>5. ASSUME toClient' = toClient \/ (\E d : d = c /\ toClient' = Deliver(toClient, d, m))
        PROVE  \A d \in Clients : d # c => ClientSame(d)
    <3>1. \A d \in Clients : d # c => toClient'[d] = toClient[d]
      BY <2>5 DEF Deliver
    <3>. QED  BY <2>4, <3>1 DEF ClientSame
  <2>6. Round(c)' = Round(c) /\ (Off(c)' <=> Off(c)) /\ (Starting(c)' <=> Starting(c))
    BY <2>4 DEF Round, Off, Starting
  <2>7. fromWorker'[w] = Tail(fromWorker[w])
    BY <1>1
  <2>8. c \in Admitted /\ launches[c] > 0 /\ toWorker[w] = <<>>
    BY <1>1, <2>3, HeardFromServed
  <2>9. ASSUME clientToWorker' = Without(clientToWorker, {c})
        PROVE  /\ c \notin DOMAIN clientToWorker'
               /\ \A d : d # c => /\ d \in DOMAIN clientToWorker' <=> d \in DOMAIN clientToWorker
                                  /\ d \in DOMAIN clientToWorker => clientToWorker'[d] = clientToWorker[d]
    BY <2>9 DEF Without
  \* The environment is not supported.
  <2>10. CASE Unsupported(c, w)
    <3>1. m = Msg("env-error", c) /\ m.type = "env-error"
      BY <1>2, <2>10 DEF Unsupported, Msg
    <3>2. EnvError(w, m)
      BY <1>3, <3>1 DEF FromWorker, EnvHello, EnvEnd, RelayToClient
    <3>3. clientToWorker' = Without(clientToWorker, {c}) /\ toClient' = Deliver(toClient, c, m)
      <4>1. PICK d \in DOMAIN clientToWorker :
                /\ clientToWorker[d] = w
                /\ clientToWorker' = Without(clientToWorker, {d})
                /\ toClient' = Deliver(toClient, d, m)
        BY <1>7, <3>2 DEF EnvError, DropRouteTo
      <4>. QED  BY <2>2, <4>1
    <3>4. c \in online /\ toClient[c] = <<>> /\ toServer[c] = <<>>
      BY <2>10 DEF Unsupported, Starting, Mail, WireInv, Sockets
    <3>5. toClient'[c] = <<m>>
      <4>1. toClient \in [Clients -> Seq(Message)] /\ c \in Clients
        OBVIOUS
      <4>2. Deliver(toClient, c, m)[c] = <<m>>
        BY <3>4, <4>1, Delivered
      <4>. QED  BY <3>3, <4>2
    <3>6. Mail(c, <<>>, <<m>>)'
      BY <2>4, <3>4, <3>5 DEF Mail
    <3>7. clientPc'[c] \in {"reset", "retry"} /\ statsTs'[c] = 0 /\ Round(c)' = 1 /\ launches'[c] > 0
      BY <2>4, <2>6, <2>8, <2>10 DEF Unsupported, Starting
    <3>8. Unserved(c)'
      BY <1>3, <3>1, <3>6, <3>7 DEF Unserved
    <3>9. Free(w)'
      <4>1. Hellos(fromWorker'[w])
        BY <2>7, <2>10 DEF Unsupported
      <4>. QED  BY <1>1, <1>4, <2>10, <4>1 DEF Unsupported, Free, Hellos
    <3>10. DOMAIN availableWorkers' \subseteq DOMAIN availableWorkers \cup {w}
      BY <3>2, PoolShrinks DEF EnvError
    <3>. QED
      BY <1>1, <1>5, <2>2, <2>5, <2>9, <3>3, <3>8, <3>9, <3>10, OfTheServer
  \* A measurement.
  <2>11. CASE Reported(c, w)
    <3>1. m = Measurement(c, Round(c)) /\ m.type = "env-measurement" /\ m.client = c
      BY <1>2, <2>11 DEF Reported, Measurement, Msg
    <3>2. RelayToClient(w, m)
      BY <1>3, <3>1 DEF FromWorker, EnvHello, EnvEnd, EnvError
    <3>3. UNCHANGED clientToWorker /\ toClient' = Deliver(toClient, c, m)
      BY <3>1, <3>2 DEF RelayToClient, routeVars
    <3>4. c \in online /\ toClient[c] = <<>> /\ toServer[c] = <<>>
      BY <2>11 DEF Reported, Waiting, Mail, WireInv, Sockets
    <3>5. toClient'[c] = <<m>>
      <4>1. toClient \in [Clients -> Seq(Message)] /\ c \in Clients
        OBVIOUS
      <4>2. Deliver(toClient, c, m)[c] = <<m>>
        BY <3>4, <4>1, Delivered
      <4>. QED  BY <3>3, <4>2
    <3>6. toClient'[c] = <<Measurement(c, Round(c)')>>
      BY <2>6, <3>1, <3>5
    <3>7. Mail(c, <<>>, <<Measurement(c, Round(c))>>)'
      BY <2>4, <3>4, <3>6 DEF Mail
    <3>8. Sequel(c, w, Round(c), fromWorker[w])'
      <4>1. Sequel(c, w, Round(c), Tail(fromWorker[w]))
        BY <2>11 DEF Reported
      <4>. QED  BY <1>1, <1>4, <2>6, <2>7, <4>1 DEF Sequel
    <3>9. Told(c, w)'
      BY <2>4, <2>6, <2>11, <3>7, <3>8 DEF Reported, Told
    <3>10. Served(c, w)'
      BY <2>4, <2>8, <3>9 DEF Served
    <3>11. DOMAIN availableWorkers' \subseteq DOMAIN availableWorkers \cup {w}
      BY <3>2, PoolShrinks DEF RelayToClient
    <3>12. \A d \in Clients : d # c => ClientSame(d)
      BY <2>5, <3>3
    <3>. QED
      BY <1>1, <1>5, <2>1, <2>2, <3>3, <3>10, <3>11, <3>12, OfTheServer
  \* The end of the session, which the client may not know of yet.
  <2>12. CASE /\ (Told(c, w) /\ Round(c) = TotalSteps) \/ Finished(c, w)
              /\ workerPc[w] = "idle" /\ simClient[w] = NoClient
              /\ Head(fromWorker[w]) = Msg("env-end", c) /\ Hellos(Tail(fromWorker[w]))
    <3>1. m.type = "env-end" /\ m.client = c
      BY <1>2, <2>12 DEF Msg
    <3>2. EnvEnd(w, m)
      BY <1>3, <3>1 DEF FromWorker, EnvHello, RelayToClient, EnvError
    <3>3. UNCHANGED toClient /\ clientToWorker' = Without(clientToWorker, {c})
      BY <3>1, <3>2 DEF EnvEnd, channelVars
    <3>4. Unserved(c)'
      <4>1. CASE Told(c, w) /\ Round(c) = TotalSteps
        <5>1. toServer[c] = <<>> /\ toClient[c] = <<Measurement(c, TotalSteps)>>
          BY <4>1 DEF Told, Mail
        <5>2. Mail(c, <<>>, <<Measurement(c, TotalSteps)>>)'
          BY <2>4, <3>3, <5>1 DEF Mail
        <5>3. clientPc'[c] \in Waiting /\ Round(c)' = TotalSteps /\ launches'[c] > 0
          BY <2>4, <2>6, <2>8, <4>1 DEF Told
        <5>. QED  BY <5>2, <5>3 DEF Unserved
      <4>2. CASE Finished(c, w)
        <5>1. Mail(c, <<>>, <<>>)'
          BY <2>4, <3>3, <4>2 DEF Finished, Mail
        <5>2. Off(c)' /\ launches'[c] > 0
          BY <2>4, <2>6, <2>8, <4>2 DEF Finished
        <5>. QED  BY <5>1, <5>2 DEF Unserved
      <4>. QED  BY <2>12, <4>1, <4>2
    <3>5. Free(w)'
      <4>1. Hellos(fromWorker'[w])
        BY <2>7, <2>12
      <4>. QED  BY <1>1, <1>4, <2>8, <2>12, <4>1 DEF Free, Hellos
    <3>6. DOMAIN availableWorkers' \subseteq DOMAIN availableWorkers \cup {w}
      BY <3>2, PoolShrinks DEF EnvEnd
    <3>7. \A d \in Clients : d # c => ClientSame(d)
      BY <2>5, <3>3
    <3>. QED
      BY <1>1, <1>5, <2>2, <2>9, <3>3, <3>4, <3>5, <3>6, <3>7, OfTheServer
  <2>. QED  BY <1>1, <2>3, <2>10, <2>11, <2>12, HeardFromServed
<1>. QED  BY <1>6, <1>7

\* The first message from a client without a worker.
LEMMA HeardFromUnserved ==
    ASSUME NEW c, Unserved(c), toServer[c] # <<>>
    PROVE  Starting(c) /\ launches[c] > 0 /\ Mail(c, <<EnvStart(c)>>, <<>>)
BY DEF Unserved, Off, Starting, Mail

\* The first message from a client with one.
LEMMA RequestFromServed ==
    ASSUME NEW c, NEW w, Served(c, w), toServer[c] # <<>>
    PROVE  Acts(c, w) /\ launches[c] > 0 /\ c \in Admitted
BY DEF Served, Asked, Unsupported, Simulates, Reported, Told, Thinks, Commanded, Acts,
       Finished, Mail

\* The server's handlers of clients' messages keep the invariant.
LEMMA ServerServesServes ==
    ASSUME Undisturbed, SessionInv, WireInv, RoutesOK, NEW c \in Clients, ServerServes(c)
    PROVE  SessionInv'
<1>. /\ fromWorker \in [Workers -> Seq(Message)]
     /\ toClient \in [Clients -> Seq(Message)]
     /\ toWorker \in [Workers -> Seq(Message)]
     /\ toServer \in [Clients -> Seq(Message)]
  BY DEF WireInv, ChannelsTypeOK, WorkerTypeOK, ClientTypeOK
<1>1. /\ toServer[c] # <<>>
      /\ FromClient(c, Head(toServer[c]))
      /\ toServer' = [toServer EXCEPT ![c] = Tail(@)]
      /\ UNCHANGED <<clientPc, episode, step, statsTs, launches, workerVars>>
      /\ ~HelloInTransit
  BY DEF ServerServes, Undisturbed
<1>2. PICK m : m = Head(toServer[c])
  OBVIOUS
<1>3. FromClient(c, m) /\ m \in Message
  BY <1>1, <1>2, HeadTailProperties
<1>4. Round(c)' = Round(c) /\ (Starting(c)' <=> Starting(c))
  BY <1>1 DEF Round, Starting
<1>5. ASSUME toClient' = toClient \/ (\E x : toClient' = Deliver(toClient, c, x))
      PROVE  \A d \in Clients : d # c => ClientSame(d)
  <2>1. \A d \in Clients : d # c => toClient'[d] = toClient[d]
    BY <1>5 DEF Deliver
  <2>. QED  BY <1>1, <2>1 DEF ClientSame
\* The client is not served yet.
<1>6. CASE c \notin DOMAIN clientToWorker
  <2>1. Starting(c) /\ launches[c] > 0 /\ toServer[c] = <<EnvStart(c)>> /\ toClient[c] = <<>>
    BY <1>1, <1>6, HeardFromUnserved DEF SessionInv, Mail
  <2>2. c \in online
    BY <2>1 DEF Starting, WireInv, Sockets
  <2>3. m = EnvStart(c) /\ m.type = "env-start" /\ toServer'[c] = <<>>
    BY <1>1, <1>2, <2>1 DEF EnvStart, Msg
  <2>4. ASSUME NEW type \in {"env-error", "no-available-worker"}, OnlyExpire,
               Answer(c, type), UNCHANGED routeVars
        PROVE  SessionInv'
    <3>1. PICK x : x = Msg(type, c)
      OBVIOUS
    <3>2. x.type = type /\ x \in Message
      <4>1. type \in MessageTypes /\ c \in Clients \cup {NoClient}
        BY DEF MessageTypes
      <4>. QED  BY <3>1, <4>1, MsgType DEF Msg
    <3>3. toClient' = Deliver(toClient, c, x) /\ UNCHANGED <<toWorker, clientToWorker>>
      BY <2>4, <3>1 DEF Answer, routeVars
    <3>4. toClient'[c] = <<x>>
      BY <2>1, <2>2, <3>3, Delivered
    <3>5. Mail(c, <<>>, <<x>>)'
      BY <2>3, <3>4 DEF Mail
    <3>6. clientPc'[c] \in {"reset", "retry"} /\ statsTs'[c] = 0 /\ Round(c)' = 1 /\ launches'[c] > 0
      BY <1>1, <1>4, <2>1 DEF Starting
    <3>7. Unserved(c)'
      BY <3>2, <3>5, <3>6 DEF Unserved
    <3>8. StepOf(c)
      BY <1>1, <1>5, <2>4, <3>3, PoolShrinks DEF StepOf
    <3>. QED  BY <1>6, <3>7, <3>8, OfAnUnservedClient
  <2>5. CASE Reject(c, m)
    BY <2>4, <2>5 DEF Reject
  <2>6. CASE Refuse(c, m)
    BY <2>4, <2>6 DEF Refuse
  <2>7. CASE Assign(c, m)
    <3>1. PICK w \in DOMAIN Available :
            /\ Remove(w)
            /\ clientToWorker' = Put(clientToWorker, c, w)
            /\ toWorker' = Deliver(toWorker, w, m)
      BY <2>7 DEF Assign
    <3>2. UNCHANGED toClient /\ c \in Admitted
      BY <2>7 DEF Assign
    <3>3. w \in Workers /\ w \in DOMAIN availableWorkers
      BY <3>1, PoolShrinks DEF RoutesOK
    <3>4. \A d \in DOMAIN clientToWorker : clientToWorker[d] # w
      BY <3>3 DEF RoutesOK
    <3>5. Free(w)
      BY <3>3, <3>4 DEF SessionInv, Values
    <3>6. workerPc[w] = "idle" /\ simClient[w] = NoClient /\ toWorker[w] = <<>> /\ Hellos(fromWorker[w])
      BY <3>3, <3>5 DEF Free
    <3>7. fromWorker[w] = <<>>
      <4>1. ASSUME fromWorker[w] # <<>>
            PROVE  Head(fromWorker[w]).type = "env-hello"
        <5>1. fromWorker[w] \in Seq(Message)
          BY <3>3
        <5>2. Head(fromWorker[w]) = EnvHelloMsg
          BY <3>6, <4>1, <5>1, HeadTailProperties DEF Hellos
        <5>. QED  BY <5>2 DEF EnvHelloMsg, Msg
      <4>. QED  BY <1>1, <3>3, <4>1 DEF HelloInTransit
    <3>8. w \in online
      BY <3>3, <3>6 DEF WireInv, Sockets
    <3>9. toWorker'[w] = <<EnvStart(c)>> /\ \A v \in Workers : v # w => toWorker'[v] = toWorker[v]
      BY <2>3, <3>1, <3>3, <3>6, <3>8, Delivered
    <3>10. Mail(c, <<>>, <<>>)'
      BY <2>1, <2>3, <3>2 DEF Mail
    <3>11. workerPc'[w] = "idle" /\ simClient'[w] = NoClient /\ fromWorker'[w] = <<>>
      BY <1>1, <3>6, <3>7 DEF workerVars
    <3>12. Asked(c, w)'
      BY <1>4, <2>1, <3>9, <3>10, <3>11 DEF Asked, EnvStart
    <3>13. Served(c, w)'
      BY <1>1, <2>1, <3>2, <3>12 DEF Served
    <3>14. \A v \in Workers : v # w => WorkerSame(v)
      BY <1>1, <3>9 DEF WorkerSame, workerVars
    <3>15. /\ c \in DOMAIN clientToWorker' /\ clientToWorker'[c] = w
           /\ \A d : d # c => /\ d \in DOMAIN clientToWorker' <=> d \in DOMAIN clientToWorker
                              /\ d \in DOMAIN clientToWorker => clientToWorker'[d] = clientToWorker[d]
      BY <3>1 DEF Put
    <3>16. DOMAIN availableWorkers' \subseteq DOMAIN availableWorkers \cup {w}
      BY <3>1, PoolShrinks
    <3>17. \A d \in Clients : d # c => ClientSame(d)
      BY <1>5, <3>2
    <3>18. \A d \in DOMAIN clientToWorker : clientToWorker[d] = w <=> d = c
      BY <1>6, <3>4
    <3>19. UNCHANGED simError
      BY <1>1 DEF workerVars
    <3>. QED  BY <3>3, <3>13, <3>14, <3>15, <3>16, <3>17, <3>18, <3>19, OfTheServer
  <2>. QED
    BY <1>3, <1>6, <2>3, <2>5, <2>6, <2>7 DEF FromClient, StartAgain, RelayAction, Unroutable
\* The agent's action.
<1>7. CASE c \in DOMAIN clientToWorker
  <2>1. PICK w \in Workers : w = clientToWorker[c]
    BY <1>7 DEF RoutesOK, Dicts
  <2>2. Acts(c, w) /\ launches[c] > 0 /\ c \in Admitted
    BY <1>1, <1>7, <2>1, RequestFromServed DEF SessionInv
  <2>3. PICK a : a = Action(c, statsTs[c])
    OBVIOUS
  <2>4. /\ clientPc[c] = "await" /\ Round(c) = statsTs[c] + 1
        /\ workerPc[w] = "wait" /\ simClient[w] = c /\ waitCounter[w] + 1 = statsTs[c]
        /\ fromWorker[w] = <<>> /\ toWorker[w] = <<>>
        /\ toServer[c] = <<a>> /\ toClient[c] = <<>>
    BY <2>2, <2>3 DEF Acts, Acting, Mail
  <2>5. m = a /\ m.type = "env-action" /\ toServer'[c] = <<>>
    BY <1>1, <1>2, <2>3, <2>4 DEF Action, Msg
  <2>6. RelayAction(c, m)
    BY <1>3, <1>7, <2>2, <2>5
    DEF FromClient, Reject, StartAgain, Assign, Refuse, Unroutable
  <2>7. /\ OnlyExpire /\ UNCHANGED <<clientToWorker, toClient>>
        /\ toWorker' = Deliver(toWorker, w, a)
    BY <2>1, <2>5, <2>6 DEF RelayAction, routeVars
  <2>8. w \in online
    BY <2>4 DEF WireInv, Sockets
  <2>9. toWorker'[w] = <<a>> /\ \A v \in Workers : v # w => toWorker'[v] = toWorker[v]
    BY <2>4, <2>7, <2>8, Delivered
  <2>10. Action(c, statsTs[c])' = a
    BY <1>1, <2>3 DEF Action
  <2>11. Mail(c, <<>>, <<>>)'
    BY <2>4, <2>5, <2>7 DEF Mail
  <2>12. Acting(c, w)'
    BY <1>1, <1>4, <2>4 DEF Acting, workerVars
  <2>13. Commanded(c, w)'
    BY <2>9, <2>10, <2>11, <2>12 DEF Commanded
  <2>14. Served(c, w)'
    BY <1>1, <2>2, <2>13 DEF Served
  <2>15. \A v \in Workers : v # w => WorkerSame(v)
    BY <1>1, <2>9 DEF WorkerSame, workerVars
  <2>16. DOMAIN availableWorkers' \subseteq DOMAIN availableWorkers \cup {w}
    BY <2>7, PoolShrinks
  <2>17. \A d \in Clients : d # c => ClientSame(d)
    BY <1>5, <2>7
  <2>18. \A d \in DOMAIN clientToWorker : clientToWorker[d] = w <=> d = c
    BY <1>7, <2>1 DEF RoutesOK
  <2>19. UNCHANGED simError
    BY <1>1 DEF workerVars
  <2>. QED
    BY <1>7, <2>1, <2>7, <2>14, <2>15, <2>16, <2>17, <2>18, <2>19, OfTheServer
<1>. QED  BY <1>6, <1>7

\* Every step keeps the invariant.
LEMMA NextServes ==
    ASSUME Undisturbed, SessionInv, WireInv, RoutesOK, [Next]_allVars
    PROVE  SessionInv'
<1>1. CASE ServerStep
  BY <1>1, ServerHearsServes, ServerServesServes DEF ServerStep
<1>2. ASSUME NEW c \in Clients, ClientStep(c)
      PROVE  SessionInv'
  BY <1>2, ClientStepServes
<1>3. ASSUME NEW w \in Workers, WorkerStep(w)
      PROVE  SessionInv'
  BY <1>3, WorkerStepServes
<1>4. ASSUME NEW w \in Workers
      PROVE  ~Silence(w)
  BY DEF Undisturbed, Silence
<1>5. CASE UNCHANGED allVars
  <2>1. /\ UNCHANGED <<clientToWorker, availableWorkers>>
        /\ \A v : ClientSame(v) /\ WorkerSame(v) /\ simError' = simError
    BY <1>5 DEF allVars, serverVars, poolVars, routeVars, channelVars, clientVars, workerVars,
                ClientSame, WorkerSame
  <2>2. NoSimulationFails'
    BY <2>1 DEF SessionInv, NoSimulationFails
  <2>3. ASSUME NEW d \in Clients
        PROVE  IF d \in DOMAIN clientToWorker' THEN Served(d, clientToWorker[d])' ELSE Unserved(d)'
    BY <2>1, ServedFrame, UnservedFrame DEF SessionInv
  <2>4. ASSUME NEW v \in Workers, v \notin Values(clientToWorker')
        PROVE  Free(v)'
    BY <2>1, <2>4, FreeFrame DEF SessionInv, Values
  <2>. QED  BY <2>2, <2>3, <2>4 DEF SessionInv
<1>. QED  BY <1>1, <1>2, <1>3, <1>4, <1>5 DEF Next

\* It holds initially.
LEMMA InitServes ==
    ASSUME Init
    PROVE  SessionInv
<1>. USE DEF Init, ServerInit, ChannelsInit, ClientInit, WorkerInit, EmptyDict
<1>1. NoSimulationFails
  BY DEF NoSimulationFails
<1>2. ASSUME NEW c \in Clients
      PROVE  c \notin DOMAIN clientToWorker /\ Unserved(c)
  BY DEF Unserved, Off, Mail
<1>3. ASSUME NEW w \in Workers
      PROVE  Free(w)
  BY DEF Free
<1>. QED  BY <1>1, <1>2, <1>3 DEF SessionInv

-----------------------------------------------------------------------------
\* What is under way for a client.

\* No message of a queue belongs to c.
LEMMA NoneOf ==
    ASSUME NEW q \in Seq(Message), NEW types, NEW c,
           \A i \in 1..Len(q) : q[i].type \in types => q[i].client # c
    PROVE  OfClient(q, types, c) = 0
<1>1. {i \in 1..Len(q) : q[i].type \in types /\ q[i].client = c} = {}
  OBVIOUS
<1>. QED  BY <1>1, FS_EmptySet DEF OfClient

\* Only the first message of a queue belongs to c.
LEMMA OneOf ==
    ASSUME NEW q \in Seq(Message), NEW types, NEW c, q # <<>>,
           Head(q).type \in types, Head(q).client = c,
           \A i \in 1..Len(Tail(q)) : Tail(q)[i].type \in types => Tail(q)[i].client # c
    PROVE  OfClient(q, types, c) = 1
<1>1. /\ Len(q) \in Nat /\ Len(q) # 0 /\ Head(q) = q[1]
      /\ Len(Tail(q)) = Len(q) - 1
      /\ \A i \in 1..Len(Tail(q)) : Tail(q)[i] = q[i + 1]
  BY HeadTailProperties
<1>2. ASSUME NEW i \in 1..Len(q), q[i].type \in types, q[i].client = c
      PROVE  i = 1
  <2>1. SUFFICES ASSUME i # 1 PROVE FALSE
    OBVIOUS
  <2>2. i - 1 \in 1..Len(Tail(q)) /\ Tail(q)[i - 1] = q[(i - 1) + 1] /\ (i - 1) + 1 = i
    BY <1>1, <2>1
  <2>3. Tail(q)[i - 1] = q[i]
    BY <2>2
  <2>. QED  BY <1>2, <2>2, <2>3
<1>3. {i \in 1..Len(q) : q[i].type \in types /\ q[i].client = c} = {1}
  BY <1>1, <1>2
<1>. QED  BY <1>3, FS_Singleton DEF OfClient

\* No message of q is a request or an action, or an answer, for client c.
Idling(q, c) == OfClient(q, {"env-start", "env-action"}, c) = 0

Answered(q, c) == OfClient(q, {"env-measurement", "env-error"}, c) = 0

\* Hellos, and the end of a session, are neither.
LEMMA IdleQueues ==
    ASSUME NEW c \in Clients
    PROVE  /\ Idling(<<>>, c) /\ Answered(<<>>, c)
           /\ \A q \in Seq(Message) : Hellos(q) => Answered(q, c)
           /\ \A d : \A q \in Seq(Message) :
                q # <<>> /\ Head(q) = Msg("env-end", d) /\ Hellos(Tail(q)) => Answered(q, c)
<1>1. Idling(<<>>, c) /\ Answered(<<>>, c)
  <2>1. PICK e \in Seq(Message) : e = <<>>
    BY EmptySeq
  <2>2. \A i \in 1..Len(e) : FALSE
    BY <2>1, EmptySeq
  <2>3. Idling(e, c) /\ Answered(e, c)
    BY <2>2, NoneOf DEF Idling, Answered
  <2>. QED  BY <2>1, <2>3
<1>2. ASSUME NEW q \in Seq(Message), Hellos(q)
      PROVE  Answered(q, c)
  <2>1. \A i \in 1..Len(q) : q[i].type = "env-hello"
    BY <1>2 DEF Hellos, EnvHelloMsg, Msg
  <2>. QED  BY <2>1, NoneOf DEF Answered
<1>3. ASSUME NEW q \in Seq(Message), NEW d, q # <<>>, Head(q) = Msg("env-end", d), Hellos(Tail(q))
      PROVE  Answered(q, c)
  <2>1. /\ Len(q) \in Nat /\ Len(q) # 0 /\ Head(q) = q[1]
        /\ Len(Tail(q)) = Len(q) - 1
        /\ \A i \in 1..Len(Tail(q)) : Tail(q)[i] = q[i + 1]
    BY <1>3, HeadTailProperties
  <2>2. ASSUME NEW i \in 1..Len(q)
        PROVE  q[i].type \in {"env-end", "env-hello"}
    <3>1. CASE i = 1
      BY <1>3, <2>1, <3>1 DEF Msg
    <3>2. CASE i # 1
      <4>1. i - 1 \in 1..Len(Tail(q)) /\ Tail(q)[i - 1] = q[(i - 1) + 1] /\ (i - 1) + 1 = i
        BY <2>1, <3>2
      <4>2. q[i] = EnvHelloMsg
        BY <1>3, <4>1 DEF Hellos
      <4>. QED  BY <4>2 DEF EnvHelloMsg, Msg
    <3>. QED  BY <3>1, <3>2
  <2>. QED  BY <2>2, NoneOf DEF Answered
<1>. QED  BY <1>1, <1>2, <1>3

\* A request of client d.
LEMMA OneRequest ==
    ASSUME NEW c \in Clients, NEW d \in Clients, NEW m \in Message, m.client = d,
           m.type \in {"env-start", "env-action"}
    PROVE  OfClient(<<m>>, {"env-start", "env-action"}, c) = IF c = d THEN 1 ELSE 0
<1>1. <<m>> \in Seq(Message) /\ <<m>> # <<>> /\ Head(<<m>>) = m /\ Tail(<<m>>) = <<>>
  OBVIOUS
<1>2. PICK q \in Seq(Message) : q = <<m>>
  BY <1>1
<1>3. q # <<>> /\ Head(q) = m /\ Len(q) = 1 /\ q[1] = m /\ Len(Tail(q)) = 0
  BY <1>2, HeadTailProperties
<1>. DEFINE T == {"env-start", "env-action"}
<1>4. m.type \in T
  OBVIOUS
<1>5. \A i \in 1..Len(Tail(q)) : FALSE
  <2>1. PICK t : t = Tail(q)
    OBVIOUS
  <2>2. Len(t) = 0
    BY <1>3, <2>1, Zenon
  <2>3. \A i \in 1..Len(t) : FALSE
    BY <2>2
  <2>. QED  BY <2>1, <2>3, Zenon
<1>6. \A i \in 1..Len(q) : q[i] = m
  BY <1>3
<1>. HIDE DEF T
<1>7. c = d => OfClient(q, T, c) = 1
  BY <1>3, <1>4, <1>5, OneOf
<1>8. c # d => OfClient(q, T, c) = 0
  BY <1>6, NoneOf
<1>. QED  BY <1>2, <1>7, <1>8 DEF T

\* An answer to client d, and at most the end of its session and hellos after
\* it.
LEMMA OneAnswer ==
    ASSUME NEW c \in Clients, NEW d \in Clients, NEW q \in Seq(Message), q # <<>>,
           Head(q).type \in {"env-measurement", "env-error"}, Head(q).client = d,
           \/ Tail(q) = <<>>
           \/ Hellos(Tail(q))
           \/ Tail(q) # <<>> /\ Head(Tail(q)) = Msg("env-end", d) /\ Hellos(Tail(Tail(q)))
    PROVE  OfClient(q, {"env-measurement", "env-error"}, c) = IF c = d THEN 1 ELSE 0
<1>. DEFINE t == Tail(q)
<1>1. /\ Len(q) \in Nat /\ Len(q) # 0 /\ Head(q) = q[1] /\ t \in Seq(Message)
      /\ Len(t) = Len(q) - 1
      /\ \A i \in 1..Len(t) : t[i] = q[i + 1]
  BY HeadTailProperties
<1>2. ASSUME NEW i \in 1..Len(t)
      PROVE  t[i].type \in {"env-end", "env-hello"}
  <2>. HIDE DEF t
  <2>1. CASE Hellos(t)
    BY <1>1, <1>2, <2>1 DEF Hellos, EnvHelloMsg, Msg
  <2>2. CASE t # <<>> /\ Head(t) = Msg("env-end", d) /\ Hellos(Tail(t))
    <3>1. /\ Len(t) \in Nat /\ Head(t) = t[1]
          /\ Len(Tail(t)) = Len(t) - 1
          /\ \A j \in 1..Len(Tail(t)) : Tail(t)[j] = t[j + 1]
      BY <1>1, <2>2, HeadTailProperties
    <3>2. CASE i = 1
      BY <2>2, <3>1, <3>2 DEF Msg
    <3>3. CASE i # 1
      <4>1. i - 1 \in 1..Len(Tail(t)) /\ Tail(t)[i - 1] = t[(i - 1) + 1] /\ (i - 1) + 1 = i
        BY <1>2, <3>1, <3>3
      <4>2. t[i] = EnvHelloMsg
        BY <2>2, <4>1 DEF Hellos
      <4>. QED  BY <4>2 DEF EnvHelloMsg, Msg
    <3>. QED  BY <3>2, <3>3
  <2>3. CASE t = <<>>
    BY <1>2, <2>3, EmptySeq
  <2>. QED  BY <2>1, <2>2, <2>3 DEF t
<1>3. CASE c = d
  BY <1>1, <1>2, <1>3, OneOf
<1>4. CASE c # d
  <2>1. ASSUME NEW i \in 1..Len(q), q[i].type \in {"env-measurement", "env-error"}
        PROVE  q[i].client # c
    <3>1. CASE i = 1
      BY <1>1, <1>4, <3>1
    <3>2. CASE i # 1
      <4>1. i - 1 \in 1..Len(t) /\ t[i - 1] = q[(i - 1) + 1] /\ (i - 1) + 1 = i
        BY <1>1, <3>2
      <4>2. t[i - 1] = q[i]
        BY <4>1
      <4>. QED  BY <1>2, <2>1, <4>1, <4>2
    <3>. QED  BY <3>1, <3>2
  <2>. QED  BY <1>4, <2>1, NoneOf
<1>. QED  BY <1>3, <1>4

\* The simulator of worker w works on the next measurement for client c.
Works(c, w) == simClient[w] = c /\ workerPc[w] \in {"launch", "run"}

\* The terms of AtWorker.
LEMMA AtWorkerParts ==
    ASSUME NEW c, NEW w
    PROVE  AtWorker(c, w) = OfClient(toWorker[w], {"env-start", "env-action"}, c)
                            + OfClient(fromWorker[w], {"env-measurement", "env-error"}, c)
                            + (IF Works(c, w) THEN 1 ELSE 0)
BY DEF AtWorker, Works

\* AtWorker counts.
LEMMA AtWorkerType ==
    ASSUME WireInv, NEW c, NEW w \in Workers
    PROVE  AtWorker(c, w) \in Nat
<1>. toWorker[w] \in Seq(Message) /\ fromWorker[w] \in Seq(Message)
  BY DEF WireInv, WorkerTypeOK, ChannelsTypeOK
<1>1. ASSUME NEW q \in Seq(Message), NEW types
      PROVE  OfClient(q, types, c) \in Nat
  <2>1. IsFiniteSet(1..Len(q))
    BY FS_Interval
  <2>2. IsFiniteSet({i \in 1..Len(q) : q[i].type \in types /\ q[i].client = c})
    BY <2>1, FS_Subset
  <2>. QED  BY <2>2, FS_CardinalityType DEF OfClient
<1>. QED  BY <1>1, AtWorkerParts

\* A worker with nothing to do for c.
LEMMA AtIdle ==
    ASSUME WireInv, NEW c \in Clients, NEW w \in Workers,
           toWorker[w] = <<>>, Answered(fromWorker[w], c), ~Works(c, w)
    PROVE  AtWorker(c, w) = 0
<1>1. Idling(toWorker[w], c)
  BY IdleQueues
<1>. QED  BY <1>1, AtWorkerParts DEF Idling, Answered

\* A worker dedicated to nobody has nothing to do.
LEMMA AtFree ==
    ASSUME WireInv, NEW c \in Clients, NEW w \in Workers, Free(w)
    PROVE  AtWorker(c, w) = 0
<1>1. fromWorker[w] \in Seq(Message)
  BY DEF WireInv, WorkerTypeOK
<1>2. Answered(fromWorker[w], c)
  BY <1>1, IdleQueues DEF Free
<1>3. ~Works(c, w)
  BY ChannelsAssumption DEF Free, Works
<1>. QED  BY <1>2, <1>3, AtIdle DEF Free

\* A worker that has sent its measurement has nothing to do.
LEMMA AtSequel ==
    ASSUME WireInv, NEW c \in Clients, NEW d \in Clients, NEW w \in Workers, NEW n,
           Sequel(d, w, n, fromWorker[w])
    PROVE  AtWorker(c, w) = 0
<1>1. fromWorker[w] \in Seq(Message)
  BY DEF WireInv, WorkerTypeOK
<1>2. Answered(fromWorker[w], c)
  BY <1>1, IdleQueues DEF Sequel
<1>. QED  BY <1>2, AtIdle DEF Sequel, Works

\* The messages between client c and the server.
Sent(c) == Len(toServer[c]) + Len(toClient[c])

\* How much shall be under way for client c.
Due(c) == IF clientPc[c] \in Waiting THEN 1 ELSE 0

\* No such message.
LEMMA NoMail ==
    ASSUME NEW c, Mail(c, <<>>, <<>>)
    PROVE  Sent(c) = 0
<1>1. Len(<<>>) = 0
  OBVIOUS
<1>2. toServer[c] = <<>> /\ toClient[c] = <<>>
  BY DEF Mail
<1>3. Len(toServer[c]) = 0 /\ Len(toClient[c]) = 0
  BY <1>1, <1>2, Zenon
<1>. QED  BY <1>3 DEF Sent

\* One such message.
LEMMA OneMail ==
    ASSUME NEW c, NEW m, Mail(c, <<m>>, <<>>) \/ Mail(c, <<>>, <<m>>)
    PROVE  Sent(c) = 1
<1>1. Len(<<>>) = 0 /\ Len(<<m>>) = 1
  OBVIOUS
<1>2. CASE Mail(c, <<m>>, <<>>)
  <2>1. Len(toServer[c]) = 1 /\ Len(toClient[c]) = 0
    BY <1>1, <1>2, Zenon DEF Mail
  <2>. QED  BY <2>1 DEF Sent
<1>3. CASE Mail(c, <<>>, <<m>>)
  <2>1. Len(toServer[c]) = 0 /\ Len(toClient[c]) = 1
    BY <1>1, <1>3, Zenon DEF Mail
  <2>. QED  BY <2>1 DEF Sent
<1>. QED  BY <1>2, <1>3

\* A dedicated worker has something to do for its client exactly while the
\* client waits and nothing is between it and the server, and never for
\* another one.
LEMMA AtServed ==
    ASSUME WireInv, NEW c \in Clients, NEW d \in Clients, NEW w \in Workers, Served(d, w)
    PROVE  /\ c # d => AtWorker(c, w) = 0
           /\ c = d => Sent(c) + AtWorker(c, w) = Due(c)
<1>. /\ fromWorker[w] \in Seq(Message)
     /\ toWorker[w] \in Seq(Message)
     /\ statsTs[d] \in Timestamps
  BY DEF WireInv, WorkerTypeOK, ChannelsTypeOK, ClientTypeOK
<1>1. CASE Asked(d, w)
  <2>1. PICK m : m = EnvStart(d)
    OBVIOUS
  <2>2. m \in Message /\ m.client = d /\ m.type = "env-start"
    <3>1. EnvOf[d] \in Envs /\ 0 \in Timestamps
      BY ChannelsAssumption, ClientAssumption
    <3>. QED  BY <2>1, <3>1 DEF EnvStart, Msg, Message, MessageTypes
  <2>3. toWorker[w] = <<m>> /\ fromWorker[w] = <<>> /\ workerPc[w] = "idle"
    BY <1>1, <2>1 DEF Asked
  <2>4. OfClient(toWorker[w], {"env-start", "env-action"}, c) = IF c = d THEN 1 ELSE 0
    BY <2>2, <2>3, OneRequest
  <2>5. AtWorker(c, w) = IF c = d THEN 1 ELSE 0
    BY <2>3, <2>4, IdleQueues, AtWorkerParts DEF Answered, Works
  <2>8. Sent(d) = 0
    BY <1>1, NoMail DEF Asked
  <2>9. Due(d) = 1
    BY <1>1 DEF Asked, Starting, Due, Waiting
  <2>. QED  BY <2>5, <2>8, <2>9
<1>2. CASE Unsupported(d, w)
  <2>1. /\ Head(fromWorker[w]).type = "env-error" /\ Head(fromWorker[w]).client = d
    BY <1>2 DEF Unsupported, Msg
  <2>2. OfClient(fromWorker[w], {"env-measurement", "env-error"}, c) = IF c = d THEN 1 ELSE 0
    BY <1>2, <2>1, OneAnswer DEF Unsupported
  <2>3. AtWorker(c, w) = IF c = d THEN 1 ELSE 0
    BY <1>2, <2>2, IdleQueues, AtWorkerParts DEF Idling, Unsupported, Works
  <2>8. Sent(d) = 0
    BY <1>2, NoMail DEF Unsupported
  <2>9. Due(d) = 1
    BY <1>2 DEF Unsupported, Starting, Due, Waiting
  <2>. QED  BY <2>3, <2>8, <2>9
<1>3. CASE Simulates(d, w)
  <2>1. Works(c, w) <=> c = d
    BY <1>3 DEF Simulates, Works
  <2>2. AtWorker(c, w) = IF c = d THEN 1 ELSE 0
    BY <1>3, <2>1, IdleQueues, AtWorkerParts DEF Idling, Answered, Simulates
  <2>8. Sent(d) = 0
    BY <1>3, NoMail DEF Simulates
  <2>9. Due(d) = 1
    BY <1>3 DEF Simulates, Due, Waiting
  <2>. QED  BY <2>2, <2>8, <2>9
<1>4. CASE Reported(d, w)
  <2>1. /\ Head(fromWorker[w]).type = "env-measurement" /\ Head(fromWorker[w]).client = d
    BY <1>4 DEF Reported, Measurement, Msg
  <2>2. PICK t : t = Tail(fromWorker[w])
    OBVIOUS
  <2>3. /\ fromWorker[w] # <<>> /\ toWorker[w] = <<>> /\ ~Works(c, w)
        /\ t = <<>> \/ (t # <<>> /\ Head(t) = Msg("env-end", d) /\ Hellos(Tail(t)))
    BY <1>4, <2>2 DEF Reported, Sequel, Works
  <2>4. OfClient(fromWorker[w], {"env-measurement", "env-error"}, c) = IF c = d THEN 1 ELSE 0
    BY <2>1, <2>2, <2>3, OneAnswer
  <2>5. AtWorker(c, w) = IF c = d THEN 1 ELSE 0
    BY <2>3, <2>4, IdleQueues, AtWorkerParts DEF Idling
  <2>8. Sent(d) = 0
    BY <1>4, NoMail DEF Reported
  <2>9. Due(d) = 1
    BY <1>4 DEF Reported, Due, Waiting
  <2>. QED  BY <2>5, <2>8, <2>9
<1>5. CASE Told(d, w)
  <2>1. AtWorker(c, w) = 0
    BY <1>5, AtSequel DEF Told
  <2>8. Sent(d) = 1
    BY <1>5, OneMail DEF Told
  <2>9. Due(d) = 1
    BY <1>5 DEF Told, Due, Waiting
  <2>. QED  BY <2>1, <2>8, <2>9
<1>6. CASE Thinks(d, w)
  <2>1. AtWorker(c, w) = 0
    BY <1>6, IdleQueues, AtIdle DEF Thinks, Works
  <2>8. Sent(d) = 0
    BY <1>6, NoMail DEF Thinks
  <2>9. Due(d) = 0
    BY <1>6 DEF Thinks, Due, Waiting
  <2>. QED  BY <2>1, <2>8, <2>9
<1>7. CASE Acts(d, w)
  <2>1. AtWorker(c, w) = 0
    BY <1>7, IdleQueues, AtIdle DEF Acts, Acting, Works
  <2>8. Sent(d) = 1
    BY <1>7, OneMail DEF Acts
  <2>9. Due(d) = 1
    BY <1>7 DEF Acts, Acting, Due, Waiting
  <2>. QED  BY <2>1, <2>8, <2>9
<1>8. CASE Commanded(d, w)
  <2>1. PICK m : m = Action(d, statsTs[d])
    OBVIOUS
  <2>2. m \in Message /\ m.client = d /\ m.type = "env-action"
    BY <2>1 DEF Action, Msg, Message, MessageTypes
  <2>3. toWorker[w] = <<m>> /\ fromWorker[w] = <<>> /\ workerPc[w] = "wait"
    BY <1>8, <2>1 DEF Commanded, Acting
  <2>4. OfClient(toWorker[w], {"env-start", "env-action"}, c) = IF c = d THEN 1 ELSE 0
    BY <2>2, <2>3, OneRequest
  <2>5. AtWorker(c, w) = IF c = d THEN 1 ELSE 0
    BY <2>3, <2>4, IdleQueues, AtWorkerParts DEF Answered, Works
  <2>8. Sent(d) = 0
    BY <1>8, NoMail DEF Commanded
  <2>9. Due(d) = 1
    BY <1>8 DEF Commanded, Acting, Due, Waiting
  <2>. QED  BY <2>5, <2>8, <2>9
<1>9. CASE Finished(d, w)
  <2>1. AtWorker(c, w) = 0
    BY <1>9, AtSequel DEF Finished
  <2>8. Sent(d) = 0
    BY <1>9, NoMail DEF Finished
  <2>9. Due(d) = 0
    BY <1>9 DEF Finished, Off, Due, Waiting
  <2>. QED  BY <2>1, <2>8, <2>9
<1>. QED  BY <1>1, <1>2, <1>3, <1>4, <1>5, <1>6, <1>7, <1>8, <1>9 DEF Served

\* While no worker is dedicated to a client, the server has its request or the
\* client has its answer.
LEMMA UnservedMail ==
    ASSUME NEW c, Unserved(c)
    PROVE  Sent(c) = Due(c)
<1>1. CASE Mail(c, <<>>, <<>>) /\ clientPc[c] \notin Waiting
  BY <1>1, NoMail DEF Due
<1>2. ASSUME NEW m, Mail(c, <<m>>, <<>>) \/ Mail(c, <<>>, <<m>>), clientPc[c] \in Waiting
      PROVE  Sent(c) = Due(c)
  BY <1>2, OneMail DEF Due
<1>3. \/ Mail(c, <<>>, <<>>) /\ clientPc[c] \notin Waiting
      \/ \E m : (Mail(c, <<m>>, <<>>) \/ Mail(c, <<>>, <<m>>)) /\ clientPc[c] \in Waiting
  BY DEF Unserved, Off, Waiting
<1>. QED  BY <1>1, <1>2, <1>3

\* The invariant implies that one thing is under way for each client that
\* waits.
LEMMA OneUnderWay ==
    ASSUME WireInv, RoutesOK, SessionInv
    PROVE  OneAnswerPerRequest
<1>. SUFFICES ASSUME NEW c \in Clients
              PROVE  InFlight(c) = Due(c)
  BY DEF OneAnswerPerRequest, Due
<1>. IsFiniteSet(Workers)
  BY NetworkGymAssumption
<1>. DEFINE f == [w \in Workers |-> AtWorker(c, w)]
<1>. DEFINE held == UNION {{w} \X (1 .. f[w]) : w \in Workers}
<1>0. InFlight(c) = Sent(c) + Cardinality(held)
  <2>1. held = UNION {{w} \X (1 .. AtWorker(c, w)) : w \in Workers}
    OBVIOUS
  <2>. QED  BY <2>1 DEF InFlight, Sent
<1>1. Sent(c) \in Nat
  BY DEF WireInv, ClientTypeOK, ChannelsTypeOK, Sent
<1>2. ASSUME NEW w \in Workers, c \in DOMAIN clientToWorker => clientToWorker[c] # w
      PROVE  f[w] = 0
  <2>1. CASE w \in Values(clientToWorker)
    <3>1. PICK d \in DOMAIN clientToWorker : clientToWorker[d] = w
      BY <2>1 DEF Values
    <3>2. d \in Clients /\ d # c /\ Served(d, w)
      BY <1>2, <3>1 DEF RoutesOK, Dicts, SessionInv
    <3>3. AtWorker(c, w) = 0
      BY <3>2, AtServed
    <3>. QED  BY <3>3
  <2>2. CASE w \notin Values(clientToWorker)
    <3>1. AtWorker(c, w) = 0
      BY <2>2, AtFree DEF SessionInv
    <3>. QED  BY <3>1
  <2>. QED  BY <2>1, <2>2
<1>. HIDE DEF f
<1>3. CASE c \in DOMAIN clientToWorker
  <2>1. PICK v \in Workers : v = clientToWorker[c]
    BY <1>3 DEF RoutesOK, Dicts
  <2>2. Sent(c) + f[v] = Due(c)
    <3>1. Sent(c) + AtWorker(c, v) = Due(c)
      BY <1>3, <2>1, AtServed DEF SessionInv
    <3>2. f[v] = AtWorker(c, v)
      BY DEF f
    <3>. QED  BY <3>1, <3>2
  <2>3. f[v] \in Nat
    <3>1. f[v] = AtWorker(c, v)
      BY DEF f
    <3>. QED  BY <3>1, AtWorkerType
  <2>4. Cardinality(held) = f[v]
    <3>1. \A w \in Workers \ {v} : 1 .. f[w] = {}
      BY <1>2, <2>1
    <3>2. held = {v} \X (1 .. f[v])
      BY <3>1
    <3>3. PICK k \in Nat : k = f[v]
      BY <2>3
    <3>4. IsFiniteSet({v}) /\ Cardinality({v}) = 1
      BY FS_Singleton
    <3>5. IsFiniteSet(1 .. k) /\ Cardinality(1 .. k) = k
      <4>1. 1 \in Int /\ k \in Int
        OBVIOUS
      <4>2. Cardinality(1 .. k) = IF 1 > k THEN 0 ELSE k - 1 + 1
        BY <4>1, FS_Interval
      <4>3. IsFiniteSet(1 .. k)
        BY <4>1, FS_Interval
      <4>. QED  BY <4>2, <4>3
    <3>6. Cardinality({v} \X (1 .. k)) = Cardinality({v}) * Cardinality(1 .. k)
      BY <3>4, <3>5, FS_Product, Zenon
    <3>7. Cardinality({v} \X (1 .. k)) = k
      BY <3>4, <3>5, <3>6
    <3>8. held = {v} \X (1 .. k)
      BY <3>2, <3>3
    <3>. HIDE DEF held
    <3>. QED  BY <3>3, <3>7, <3>8
  <2>. HIDE DEF held
  <2>. QED  BY <1>0, <2>2, <2>4
<1>4. CASE c \notin DOMAIN clientToWorker
  <2>1. Sent(c) = Due(c)
    BY <1>4, UnservedMail DEF SessionInv
  <2>2. \A w \in Workers : f[w] = 0
    BY <1>2, <1>4
  <2>3. held = {}
    BY <2>2
  <2>4. Cardinality(held) = 0
    BY <2>3, FS_EmptySet
  <2>. HIDE DEF held
  <2>. QED  BY <1>0, <1>1, <2>1, <2>4
<1>. QED  BY <1>3, <1>4

\* The end of a session names the client that the worker is dedicated to.
LEMMA EndOfServed ==
    ASSUME Undisturbed, SessionInv, WireInv, RoutesOK, NEW w \in Workers, ServerHears(w)
    PROVE  serverUp'
<1>. fromWorker[w] \in Seq(Message)
  BY DEF WireInv, WorkerTypeOK
<1>1. PICK m : m = Head(fromWorker[w])
  OBVIOUS
<1>2. fromWorker[w] # <<>> /\ serverUp /\ FromWorker(w, m)
  BY <1>1 DEF ServerHears, FromWorker
<1>3. CASE ~EnvEnd(w, m)
  BY <1>2, <1>3 DEF FromWorker, EnvHello, EnvError, RelayToClient
<1>4. CASE EnvEnd(w, m)
  <2>1. m.type = "env-end" /\ clientToWorker' = Without(clientToWorker, {m.client})
    BY <1>4 DEF EnvEnd
  <2>2. w \in Values(clientToWorker)
    <3>1. SUFFICES ASSUME w \notin Values(clientToWorker)
                   PROVE  FALSE
      OBVIOUS
    <3>2. Free(w)
      BY <3>1 DEF SessionInv
    <3>3. m = EnvHelloMsg
      BY <1>1, <1>2, <3>2, HeadTailProperties DEF Free, Hellos
    <3>. QED  BY <2>1, <3>3 DEF EnvHelloMsg, Msg
  <2>3. PICK c \in DOMAIN clientToWorker : clientToWorker[c] = w
    BY <2>2 DEF Values
  <2>4. Served(c, w)
    BY <2>3 DEF SessionInv, RoutesOK, Dicts
  <2>5. m.client = c
    <3>1. ~Unsupported(c, w) /\ ~Reported(c, w)
      BY <1>1, <2>1 DEF Unsupported, Reported, Measurement, Msg
    <3>2. m = Msg("env-end", c)
      BY <1>1, <1>2, <2>4, <3>1, HeardFromServed
    <3>. QED  BY <3>2 DEF Msg
  <2>6. w \notin Values(clientToWorker')
    BY <2>1, <2>3, <2>5 DEF RoutesOK, Without, Values
  <2>. QED  BY <1>4, <2>6 DEF EnvEnd
<1>. QED  BY <1>3, <1>4

\* So the server's env-end handler does not raise.
LEMMA StaysUp ==
    ASSUME Undisturbed, SessionInv, WireInv, RoutesOK, serverUp, [Next]_allVars
    PROVE  serverUp'
<1>1. ASSUME NEW c \in Clients, ServerServes(c)
      PROVE  serverUp'
  BY <1>1 DEF ServerServes, FromClient, Reject, StartAgain, Assign, Refuse, RelayAction,
              Unroutable, Answer
<1>2. CASE UNCHANGED serverUp
  BY <1>2
<1>3. \/ \E w \in Workers : ServerHears(w)
      \/ \E c \in Clients : ServerServes(c)
      \/ UNCHANGED serverUp
  BY DEF Next, ServerStep, ClientStep, WorkerStep, Silence, HelloTimeout, allVars, serverVars
<1>. QED  BY <1>1, <1>2, <1>3, EndOfServed

\* The inductive invariant holds.
LEMMA ServesHolds ==
    ASSUME Undisturbed
    PROVE  Spec => []SessionInv
<1>1. Init => SessionInv
  BY InitServes
<1>2. SessionInv /\ WireInv /\ RoutesOK /\ [Next]_allVars => SessionInv'
  BY NextServes
<1>. QED  BY <1>1, <1>2, WireHolds, RoutesHold, PTL DEF Spec

\* Request and answer alternate: while a client waits in recv() exactly one
\* thing is under way for it, a request, its relayed copy, a simulation or an
\* answer, and while its agent thinks nothing is (env.py,
\* network_gym_server.py, data-processor.cc).
THEOREM OneThingUnderWay ==
    ASSUME Undisturbed
    PROVE  Spec => []OneAnswerPerRequest
BY ServesHolds, WireHolds, RoutesHold, OneUnderWay, PTL

\* While an agent thinks, its own simulator waits for the action that belongs
\* to the very measurement the agent looks at (ExchangeMeasurementAndAction in
\* data-processor.cc).
THEOREM SimulatorsInStep ==
    ASSUME Undisturbed
    PROVE  Spec => []LockStep
<1>1. SessionInv /\ RoutesOK /\ WireInv => LockStep
  <2>. SUFFICES ASSUME SessionInv, RoutesOK, WireInv, NEW c \in Clients, clientPc[c] = "think"
                PROVE  \E w \in Workers :
                            /\ clientToWorker[c] = w
                            /\ simClient[w] = c
                            /\ workerPc[w] = "wait"
                            /\ statsTs[c] = waitCounter[w] + 1
    BY DEF LockStep
  <2>1. c \in DOMAIN clientToWorker
    BY DEF SessionInv, Unserved, Off, Waiting
  <2>2. clientToWorker[c] \in Workers /\ Served(c, clientToWorker[c])
    BY <2>1 DEF SessionInv, RoutesOK, Dicts
  <2>3. Thinks(c, clientToWorker[c])
    BY <2>2 DEF Served, Asked, Unsupported, Simulates, Reported, Told, Acting, Acts, Commanded,
                Finished, Off, Starting, Waiting
  <2>. QED  BY <2>2, <2>3 DEF Thinks
<1>. QED  BY <1>1, ServesHolds, WireHolds, RoutesHold, PTL

\* No simulation fails: no simulator gets an action of another client or for
\* another measurement (the fatal errors of southbound-interface.cc and
\* data-processor.cc).
THEOREM SimulationsComplete ==
    ASSUME Undisturbed
    PROVE  Spec => []NoSimulationFails
<1>1. SessionInv => NoSimulationFails
  BY DEF SessionInv
<1>. QED  BY <1>1, ServesHolds, PTL

\* The server thread survives: the KeyError of its env-end handler, which the
\* run env_end provokes by killing and restarting a client, needs a
\* disturbance.
THEOREM ServerSurvives ==
    ASSUME Undisturbed
    PROVE  Spec => []ServerNeverRaises
<1>1. Init => serverUp
  BY DEF Init, ServerInit
<1>2. SessionInv /\ WireInv /\ RoutesOK /\ serverUp /\ [Next]_allVars => serverUp'
  BY StaysUp
<1>3. serverUp <=> ServerNeverRaises
  BY DEF ServerNeverRaises
<1>. QED  BY <1>1, <1>2, <1>3, ServesHolds, WireHolds, RoutesHold, PTL DEF Spec
=============================================================================
