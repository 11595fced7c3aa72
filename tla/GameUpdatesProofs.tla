-------------------------- MODULE GameUpdatesProofs --------------------------
(***************************************************************************)
(* Proofs about GameUpdates, for every bound.                              *)
(***************************************************************************)
EXTENDS GameUpdates, DataLemmas

-----------------------------------------------------------------------------
(* Data. *)

USE BoundsAssumption DEF BoundsAssumption

(* The greatest of a set and a least value.                                *)
LEMMA MaxOfProperties ==
  ASSUME NEW N \in Nat, NEW S \in SUBSET (0 .. N), NEW least \in 0 .. N
  PROVE  /\ MaxOf(S, least) \in S \cup {least}
         /\ \A n \in S \cup {least} : n <= MaxOf(S, least)
<1>1. S \cup {least} \subseteq 0 .. N /\ S \cup {least} # {}
  OBVIOUS
<1>2. \E m \in S \cup {least} : \A n \in S \cup {least} : n <= m
  BY <1>1, MaxExists
<1> QED
  BY <1>2 DEF MaxOf

(* Ids of each kind are numbered from one.                                 *)
LEMMA IdTypes ==
  /\ Id("action") = 1 .. MaxActions
  /\ Id("result") = 1 .. MaxActions
  /\ Id("command") = 1 .. MaxCommands
  /\ \A k \in Reply : IdsOf(reconciliations, k) \in SUBSET Id(k)
BY DEF Id, IdsOf

(* A reply item is its kind and its id.                                    *)
LEMMA ReplyItemFields ==
  ASSUME NEW r \in ReplyItem
  PROVE  /\ r.kind \in Reply
         /\ r.id \in Id(r.kind)
         /\ r = [kind |-> r.kind, id |-> r.id]
BY IdTypes DEF ReplyItem, Reply

(* Every kind and id make a reply item.                                    *)
LEMMA ReplyItemOf ==
  ASSUME NEW k \in Reply, NEW i \in Id(k)
  PROVE  [kind |-> k, id |-> i] \in ReplyItem
BY IdTypes DEF ReplyItem, Reply

(* Executing counts up, for every id.                                      *)
LEMMA ExecutedType ==
  ASSUME NEW k \in Kind, NEW S, applied[k] \in [Id(k) -> Nat]
  PROVE  Executed(k, S) \in [Id(k) -> Nat]
BY DEF Executed

-----------------------------------------------------------------------------
(* Types. *)

\* A tick that has begun has its sequence number still to give.
TypeInv == TypeOK /\ (serverPhase = "fetch" => serverSequence <= MaxUpdates)

(* The types hold at first.                                                *)
LEMMA TypeInit == Init => TypeInv
<1> SUFFICES ASSUME Init PROVE TypeInv
  OBVIOUS
<1>1. DOMAIN applied = Kind /\ \A k \in Kind : applied[k] \in [Id(k) -> Nat]
  BY DEF Init
<1>2. /\ \A k \in Reply : issued[k] \in SUBSET Id(k)
      /\ clientIndex \in [Reply -> Nat]
  BY DEF Init
<1>3. /\ clientQueue \in Seq(ServerUpdate) /\ clientNodes \in Seq(ServerUpdate)
      /\ serverQueue \in Seq(ClientUpdate) /\ serverNodes \in Seq(ClientUpdate)
  BY EmptySeq DEF Init
<1>4. /\ clientSequence \in 1 .. MaxUpdates + 1 /\ serverSequence \in 1 .. MaxUpdates + 1
      /\ localActionIndex \in 1 .. MaxActions + 1 /\ localCommandIndex \in 1 .. MaxCommands + 1
      /\ clientRemoteSequence \in 0 .. MaxUpdates /\ serverRemoteSequence \in 0 .. MaxUpdates
      /\ serverActionIndex \in 0 .. MaxActions
  BY DEF Init
<1>5. /\ clientBuffer = {} /\ reconciliations = {} /\ serverBuffer = {} /\ actions = {}
      /\ toServer = {} /\ toClient = {}
      /\ clientPhase = "frame" /\ serverPhase = "idle" /\ established = FALSE
  BY DEF Init
<1> QED
  BY <1>1, <1>2, <1>3, <1>4, <1>5 DEF TypeInv, TypeOK

(* Every step keeps the types.                                             *)
LEMMA TypeStep == TypeInv /\ [Next]_vars => TypeInv'
<1> SUFFICES ASSUME TypeInv, [Next]_vars PROVE TypeInv'
  OBVIOUS
<1>1. CASE DeliverToServer
  <2>1. PICK u \in toServer : /\ toServer' = toServer \ {u}
                              /\ serverQueue' = <<u>> \o serverQueue
    BY <1>1 DEF DeliverToServer
  <2>2. serverQueue' \in Seq(ClientUpdate)
    BY <2>1, PushProperties DEF TypeInv, TypeOK
  <2> QED
    BY <1>1, <2>1, <2>2 DEF DeliverToServer, TypeInv, TypeOK, clientVars, serverVars
<1>2. CASE DeliverToClient
  <2>1. PICK u \in toClient : /\ toClient' = toClient \ {u}
                              /\ clientQueue' = <<u>> \o clientQueue
    BY <1>2 DEF DeliverToClient
  <2>2. clientQueue' \in Seq(ServerUpdate)
    BY <2>1, PushProperties DEF TypeInv, TypeOK
  <2> QED
    BY <1>2, <2>1, <2>2 DEF DeliverToClient, TypeInv, TypeOK, clientVars, serverVars
<1>3. CASE ConnectionEstablished
  BY <1>3 DEF ConnectionEstablished, TypeInv, TypeOK, serverVars
<1>4. CASE SendAction
  <2>1. clientBuffer' \in SUBSET ActionEntry
    BY <1>4, IdTypes DEF SendAction, TypeInv, TypeOK, Add, ActionEntry
  <2>2. localActionIndex' \in 1 .. MaxActions + 1
    BY <1>4 DEF SendAction, TypeInv, TypeOK
  <2> QED
    BY <1>4, <2>1, <2>2 DEF SendAction, TypeInv, TypeOK, serverVars
<1>5. CASE ClientConsumeAll
  BY <1>5, EmptySeq DEF ClientConsumeAll, TypeInv, TypeOK, serverVars
<1>6. CASE FetchUpdate
  <2>1. /\ Head(clientNodes) \in ServerUpdate
        /\ clientNodes' \in Seq(ServerUpdate)
    BY <1>6, PopProperties DEF FetchUpdate, TypeInv, TypeOK
  <2>2. /\ reconciliations' \in SUBSET ReplyItem
        /\ clientBuffer' \in SUBSET ActionEntry
        /\ clientRemoteSequence' \in 0 .. MaxUpdates
    BY <1>6, <2>1 DEF FetchUpdate, TypeInv, TypeOK, ServerUpdate, Confirm, SequenceNo
  <2> QED
    BY <1>6, <2>1, <2>2 DEF FetchUpdate, TypeInv, TypeOK, serverVars
<1>7. CASE ProcessUpdate
  <2>1. clientIndex' \in [Reply -> Nat]
    <3>1. ASSUME NEW k \in Reply
          PROVE  MaxOf(IdsOf(reconciliations, k), clientIndex[k]) \in Nat
      <4>1. clientIndex[k] \in Nat
        BY DEF TypeInv, TypeOK
      <4>2. PICK M \in Nat : Id(k) = 1 .. M
        BY DEF Id
      <4>3. IdsOf(reconciliations, k) \in SUBSET (0 .. M + clientIndex[k])
        BY <4>1, <4>2, IdTypes
      <4> QED
        BY <4>1, <4>3, MaxOfProperties
    <3> QED
      BY <1>7, <3>1 DEF ProcessUpdate
  <2>2. DOMAIN applied' = Kind /\ \A k \in Kind : applied'[k] \in [Id(k) -> Nat]
    BY <1>7, ExecutedType DEF ProcessUpdate, TypeInv, TypeOK, Kind
  <2> QED
    BY <1>7, <2>1, <2>2 DEF ProcessUpdate, TypeInv, TypeOK, serverVars
<1>8. CASE ClientSend
  <2>1. toServer' \in SUBSET ClientUpdate
    <3>1. {a.item : a \in clientBuffer} \in SUBSET Id("action")
      BY DEF TypeInv, TypeOK, ActionEntry
    <3>2. established => clientSequence \in SequenceNo
      BY <1>8 DEF ClientSend, TypeInv, TypeOK, SequenceNo
    <3>3. clientRemoteSequence \in 0 .. MaxUpdates /\ toServer \in SUBSET ClientUpdate
      BY DEF TypeInv, TypeOK
    <3> QED
      BY <1>8, <3>1, <3>2, <3>3 DEF ClientSend, ClientUpdate
  <2>2. clientSequence' \in 1 .. MaxUpdates + 1
    BY <1>8 DEF ClientSend, TypeInv, TypeOK
  <2> QED
    BY <1>8, <2>1, <2>2 DEF ClientSend, TypeInv, TypeOK, serverVars
<1>9. CASE ServerConsumeAll
  BY <1>9, EmptySeq DEF ServerConsumeAll, TypeInv, TypeOK, clientVars
<1>10. CASE FetchActions
  <2>1. /\ Head(serverNodes) \in ClientUpdate
        /\ serverNodes' \in Seq(ClientUpdate)
    BY <1>10, PopProperties DEF FetchActions, TypeInv, TypeOK
  <2>2. serverActionIndex' \in 0 .. MaxActions
    <3>1. Head(serverNodes).actions \in SUBSET (0 .. MaxActions)
      BY <2>1, IdTypes DEF ClientUpdate
    <3> QED
      BY <1>10, <3>1, MaxOfProperties DEF FetchActions, TypeInv, TypeOK
  <2>3. actions' \in SUBSET Id("action") /\ serverBuffer' \in SUBSET ReplyEntry
    BY <1>10, <2>1 DEF FetchActions, TypeInv, TypeOK, ClientUpdate, Confirm, NewIds
  <2>4. serverRemoteSequence' \in 0 .. MaxUpdates
    <3>1. Head(serverNodes).sequence \in 1 .. MaxUpdates /\ serverRemoteSequence \in 0 .. MaxUpdates
      BY <2>1 DEF ClientUpdate, SequenceNo, TypeInv, TypeOK
    <3>2. serverRemoteSequence' = Larger(serverRemoteSequence, Head(serverNodes).sequence)
      BY <1>10 DEF FetchActions
    <3> QED
      BY <3>1, <3>2 DEF Larger
  <2> QED
    BY <1>10, <2>1, <2>2, <2>3, <2>4 DEF FetchActions, TypeInv, TypeOK, clientVars
<1>11. CASE ServerTick
  <2> DEFINE Items(answered, n) ==
               {[kind |-> "result", id |-> i] : i \in answered} \cup
               {[kind |-> "command", id |-> i] : i \in localCommandIndex .. localCommandIndex + n - 1}
  <2>1. PICK answered \in SUBSET actions, n \in 0 .. MaxCommands + 1 - localCommandIndex :
          /\ localCommandIndex' = localCommandIndex + n
          /\ serverBuffer' = Add(serverBuffer, serverSequence, Items(answered, n))
          /\ issued' = [k \in Reply |-> issued[k] \cup IdsOf(Items(answered, n), k)]
    BY <1>11 DEF ServerTick, Answers
  <2>2. Items(answered, n) \in SUBSET ReplyItem
    <3>1. answered \subseteq Id("result")
      BY IdTypes DEF TypeInv, TypeOK
    <3>2. localCommandIndex .. localCommandIndex + n - 1 \subseteq Id("command")
      BY IdTypes DEF TypeInv, TypeOK
    <3> QED
      BY <3>1, <3>2 DEF ReplyItem
  <2>3. serverBuffer' \in SUBSET ReplyEntry
    <3> HIDE DEF Items
    <3> QED
      BY <2>1, <2>2 DEF TypeInv, TypeOK, Add, ReplyEntry
  <2>4. toClient' \in SUBSET ServerUpdate
    <3>1. {e.item : e \in serverBuffer'} \in SUBSET ReplyItem
      BY <2>3 DEF ReplyEntry
    <3>2. /\ serverSequence \in SequenceNo
          /\ serverRemoteSequence \in 0 .. MaxUpdates
      BY <1>11 DEF ServerTick, TypeInv, TypeOK, SequenceNo
    <3>3. toClient' = toClient \cup {[sequence   |-> serverSequence,
                                     receivedId |-> serverRemoteSequence,
                                     items      |-> {e.item : e \in serverBuffer'}]}
      BY <1>11 DEF ServerTick
    <3> QED
      BY <3>1, <3>2, <3>3 DEF TypeInv, TypeOK, ServerUpdate
  <2>5. \A k \in Reply : issued'[k] \in SUBSET Id(k)
    BY <2>1 DEF TypeInv, TypeOK, IdsOf
  <2>6. DOMAIN applied' = Kind /\ \A k \in Kind : applied'[k] \in [Id(k) -> Nat]
    BY <1>11, ExecutedType DEF ServerTick, TypeInv, TypeOK, Kind
  <2>7. /\ localCommandIndex' \in 1 .. MaxCommands + 1
        /\ serverSequence' \in 1 .. MaxUpdates + 1
    BY <1>11, <2>1 DEF ServerTick, TypeInv, TypeOK
  <2> QED
    BY <1>11, <2>3, <2>4, <2>5, <2>6, <2>7 DEF ServerTick, TypeInv, TypeOK, clientVars
<1>12. CASE UNCHANGED vars
  BY <1>12 DEF vars, clientVars, serverVars, TypeInv, TypeOK
<1> QED
  BY <1>1, <1>2, <1>3, <1>4, <1>5, <1>6, <1>7, <1>8, <1>9, <1>10, <1>11, <1>12 DEF Next

\* Every variable keeps its type, for every value of the bounds.
THEOREM TypeCorrect == Spec => []TypeOK
<1>1. TypeInv => TypeOK
  BY DEF TypeInv
<1> QED
  BY <1>1, TypeInit, TypeStep, PTL DEF Spec

-----------------------------------------------------------------------------
(* The inductive invariant. *)

(* Everything that is still to be read: on the wire, in the stack, or in   *)
(* the batch taken from it.                                                *)
ToBeReadByServer == toServer \cup Range(serverQueue) \cup Range(serverNodes)
ToBeReadByClient == toClient \cup Range(clientQueue) \cup Range(clientNodes)

Issued == {r \in ReplyItem : r.id \in issued[r.kind]}

ActionDone(i) == i <= serverActionIndex /\ i \notin actions
ReplyDone(r)  == r.id <= clientIndex[r.kind]
Received(r)   == ReplyDone(r) \/ r \in reconciliations

\* An earlier item of the same stream.
Before(r, s) == r.kind = s.kind /\ r.id < s.id

CountersInv ==
  /\ serverRemoteSequence < clientSequence
  /\ clientRemoteSequence < serverSequence
  /\ serverActionIndex < localActionIndex
  /\ actions \subseteq 1 .. serverActionIndex
  /\ serverPhase = "idle" => actions = {}
  /\ clientPhase # "fetch" => reconciliations = {}

\* An unread client update repeats every action the server lacks below the
\* last it carries, and every buffered action of its time.
ClientUpdatesInv ==
  \A u \in ToBeReadByServer :
    /\ u.sequence < clientSequence
    /\ u.receivedId < serverSequence
    /\ u.actions \subseteq 1 .. localActionIndex - 1
    /\ \A j \in u.actions : \A i \in 1 .. j : i \in u.actions \/ i <= serverActionIndex
    /\ \A a \in clientBuffer : a.sequence <= u.sequence => a.item \in u.actions
    /\ \A e \in serverBuffer : e.sequence <= u.receivedId => ReplyDone(e.item)

\* The same for an unread server update.
ServerUpdatesInv ==
  \A v \in ToBeReadByClient :
    /\ v.sequence < serverSequence
    /\ v.receivedId < clientSequence
    /\ v.items \subseteq Issued
    /\ \A s \in v.items, r \in Issued : Before(r, s) => r \in v.items \/ ReplyDone(r)
    /\ \A e \in serverBuffer : e.sequence <= v.sequence => e.item \in v.items
    /\ \A a \in clientBuffer : a.sequence <= v.receivedId => ActionDone(a.item)

ClientBufferInv ==
  /\ \A a \in clientBuffer :
       /\ a.item < localActionIndex
       /\ a.sequence <= clientSequence
       /\ a.sequence <= serverRemoteSequence => a.item <= serverActionIndex
  /\ \A i \in 1 .. localActionIndex - 1 :
       ActionDone(i) \/ \E a \in clientBuffer : a.item = i

ServerBufferInv ==
  /\ \A e \in serverBuffer :
       /\ e.item \in Issued
       /\ e.sequence < serverSequence
       /\ e.sequence <= clientRemoteSequence => Received(e.item)
  /\ \A r \in Issued : ReplyDone(r) \/ \E e \in serverBuffer : e.item = r

IssuedInv ==
  /\ issued["result"] \subseteq 1 .. serverActionIndex
  /\ \A i \in issued["result"], j \in actions : i < j
  /\ issued["command"] = 1 .. localCommandIndex - 1
  /\ \A k \in Reply : clientIndex[k] \in issued[k] \cup {0}
  /\ reconciliations \subseteq Issued
  /\ \A s \in reconciliations, r \in Issued : Before(r, s) => Received(r)

IInv ==
  /\ TypeInv
  /\ CountersInv
  /\ ClientUpdatesInv /\ ServerUpdatesInv
  /\ ClientBufferInv /\ ServerBufferInv
  /\ IssuedInv
  /\ ActionsExecutedOnce /\ RepliesExecutedOnce

(* Nothing is sent and nothing executed at first.                          *)
LEMMA InvInit == Init => IInv
<1> SUFFICES ASSUME Init PROVE IInv
  OBVIOUS
<1>1. TypeInv
  BY TypeInit
<1>2. ToBeReadByServer = {} /\ ToBeReadByClient = {}
  BY DEF Init, ToBeReadByServer, ToBeReadByClient, Range
<1>3. Issued = {}
  BY DEF Init, Issued, ReplyItem, Reply
<1>4. CountersInv /\ ClientUpdatesInv /\ ServerUpdatesInv
  BY <1>2 DEF Init, CountersInv, ClientUpdatesInv, ServerUpdatesInv
<1>5. ClientBufferInv /\ ServerBufferInv
  BY <1>3 DEF Init, ClientBufferInv, ServerBufferInv
<1>6. IssuedInv
  BY <1>3 DEF Init, IssuedInv, Reply
<1>7. ActionsExecutedOnce /\ RepliesExecutedOnce
  BY IdTypes DEF Init, ActionsExecutedOnce, RepliesExecutedOnce, Kind, Reply
<1> QED
  BY <1>1, <1>4, <1>5, <1>6, <1>7 DEF IInv

(* What the types say of counters.                                         *)
LEMMA CounterTypes ==
  ASSUME TypeInv
  PROVE  /\ clientSequence \in Nat /\ serverSequence \in Nat
         /\ clientRemoteSequence \in Nat /\ serverRemoteSequence \in Nat
         /\ localActionIndex \in Nat /\ serverActionIndex \in Nat
         /\ localCommandIndex \in Nat \ {0}
         /\ \A k \in Reply : clientIndex[k] \in Nat
BY DEF TypeInv, TypeOK

\* What the types say of the fields of updates and buffer entries.
LEMMA FieldTypes ==
  ASSUME TypeInv
  PROVE  /\ \A u \in ToBeReadByServer : /\ u \in ClientUpdate
                                        /\ u.sequence \in Nat /\ u.receivedId \in Nat
                                        /\ u.actions \subseteq Id("action")
         /\ \A v \in ToBeReadByClient : /\ v \in ServerUpdate
                                        /\ v.sequence \in Nat /\ v.receivedId \in Nat
                                        /\ v.items \subseteq ReplyItem
         /\ \A a \in clientBuffer : a.sequence \in Nat /\ a.item \in Nat \ {0}
         /\ \A e \in serverBuffer : e.sequence \in Nat /\ e.item \in ReplyItem
<1>1. /\ Range(serverQueue) \subseteq ClientUpdate /\ Range(serverNodes) \subseteq ClientUpdate
      /\ Range(clientQueue) \subseteq ServerUpdate /\ Range(clientNodes) \subseteq ServerUpdate
  BY RangeOfSeq DEF TypeInv, TypeOK
<1>2. ToBeReadByServer \subseteq ClientUpdate /\ ToBeReadByClient \subseteq ServerUpdate
  BY <1>1 DEF ToBeReadByServer, ToBeReadByClient, TypeInv, TypeOK
<1>3. /\ \A a \in clientBuffer : a.sequence \in Nat /\ a.item \in Nat \ {0}
      /\ \A e \in serverBuffer : e.sequence \in Nat /\ e.item \in ReplyItem
  BY IdTypes DEF TypeInv, TypeOK, ActionEntry, ReplyEntry
<1> QED
  BY <1>2, <1>3 DEF ClientUpdate, ServerUpdate, SequenceNo

\* A step that only moves updates between the places where they wait, or
\* drops some.
LEMMA WaitingUpdates ==
  ASSUME IInv, TypeInv',
         UNCHANGED <<clientBuffer, clientSequence, localActionIndex, clientRemoteSequence,
                     clientIndex, reconciliations, serverBuffer, serverSequence,
                     localCommandIndex, serverRemoteSequence, serverActionIndex, actions,
                     issued, applied>>,
         ToBeReadByServer' \subseteq ToBeReadByServer,
         ToBeReadByClient' \subseteq ToBeReadByClient,
         serverPhase' = "idle" => actions = {},
         clientPhase' # "fetch" => reconciliations = {}
  PROVE  IInv'
<1>1. Issued' = Issued
  BY DEF Issued
<1>2. CountersInv'
  BY DEF IInv, CountersInv
<1>3. ClientUpdatesInv'
  BY DEF IInv, ClientUpdatesInv, ReplyDone
<1>4. ServerUpdatesInv'
  BY <1>1 DEF IInv, ServerUpdatesInv, ReplyDone, ActionDone
<1>5. ClientBufferInv'
  BY DEF IInv, ClientBufferInv, ActionDone
<1>6. ServerBufferInv'
  BY <1>1 DEF IInv, ServerBufferInv, ReplyDone, Received
<1>7. IssuedInv'
  BY <1>1 DEF IInv, IssuedInv, ReplyDone, Received
<1>8. ActionsExecutedOnce' /\ RepliesExecutedOnce'
  BY DEF IInv, ActionsExecutedOnce, RepliesExecutedOnce
<1> QED
  BY <1>2, <1>3, <1>4, <1>5, <1>6, <1>7, <1>8 DEF IInv

(* The network delivers an update to the server.                           *)
LEMMA DeliverToServerStep == ASSUME IInv, TypeInv', DeliverToServer PROVE IInv'
<1>1. PICK u \in toServer : /\ toServer' = toServer \ {u}
                            /\ serverQueue' = <<u>> \o serverQueue
  BY DEF DeliverToServer
<1>2. Range(serverQueue') = Range(serverQueue) \cup {u}
  BY <1>1, PushProperties DEF IInv, TypeInv, TypeOK
<1>3. UNCHANGED <<clientVars, serverVars, clientQueue, toClient, applied>>
  BY DEF DeliverToServer
<1>4. ToBeReadByServer' \subseteq ToBeReadByServer /\ ToBeReadByClient' = ToBeReadByClient
  BY <1>1, <1>2, <1>3 DEF ToBeReadByServer, ToBeReadByClient, serverVars, clientVars
<1> QED
  BY <1>3, <1>4, WaitingUpdates DEF IInv, CountersInv, clientVars, serverVars

(* The network delivers an update to the client.                           *)
LEMMA DeliverToClientStep == ASSUME IInv, TypeInv', DeliverToClient PROVE IInv'
<1>1. PICK u \in toClient : /\ toClient' = toClient \ {u}
                            /\ clientQueue' = <<u>> \o clientQueue
  BY DEF DeliverToClient
<1>2. Range(clientQueue') = Range(clientQueue) \cup {u}
  BY <1>1, PushProperties DEF IInv, TypeInv, TypeOK
<1>3. UNCHANGED <<clientVars, serverVars, serverQueue, toServer, applied>>
  BY DEF DeliverToClient
<1>4. ToBeReadByClient' \subseteq ToBeReadByClient /\ ToBeReadByServer' = ToBeReadByServer
  BY <1>1, <1>2, <1>3 DEF ToBeReadByServer, ToBeReadByClient, serverVars, clientVars
<1> QED
  BY <1>3, <1>4, WaitingUpdates DEF IInv, CountersInv, clientVars, serverVars

(* One side takes what has arrived.                                        *)
LEMMA ConsumeAllStep == ASSUME IInv, TypeInv', ClientConsumeAll \/ ServerConsumeAll PROVE IInv'
<1>1. Range(<<>>) = {}
  BY DEF Range
<1>2. CASE ClientConsumeAll
  <2>1. ToBeReadByClient' \subseteq ToBeReadByClient /\ ToBeReadByServer' = ToBeReadByServer
    BY <1>1, <1>2 DEF ClientConsumeAll, ToBeReadByServer, ToBeReadByClient, serverVars
  <2> QED
    BY <1>2, <2>1, WaitingUpdates DEF ClientConsumeAll, IInv, CountersInv, serverVars
<1>3. CASE ServerConsumeAll
  <2>1. ToBeReadByServer' \subseteq ToBeReadByServer /\ ToBeReadByClient' = ToBeReadByClient
    BY <1>1, <1>3 DEF ServerConsumeAll, ToBeReadByServer, ToBeReadByClient, clientVars
  <2> QED
    BY <1>3, <2>1, WaitingUpdates DEF ServerConsumeAll, IInv, CountersInv, clientVars
<1> QED
  BY <1>2, <1>3

(* The client issues an action.                                            *)
LEMMA SendActionStep == ASSUME IInv, TypeInv', SendAction PROVE IInv'
<1> DEFINE a == [sequence |-> clientSequence, item |-> localActionIndex]
<1>1. /\ clientBuffer' = clientBuffer \cup {a}
      /\ localActionIndex' = localActionIndex + 1
  BY DEF SendAction, Add
<1>2. /\ ToBeReadByServer' = ToBeReadByServer /\ ToBeReadByClient' = ToBeReadByClient
      /\ Issued' = Issued
      /\ UNCHANGED <<serverVars, clientPhase, clientSequence, clientRemoteSequence, clientIndex,
                     reconciliations, applied>>
  BY DEF SendAction, ToBeReadByServer, ToBeReadByClient, Issued, serverVars
<1>3. /\ localActionIndex \in Nat /\ serverActionIndex \in Nat
      /\ clientSequence \in Nat /\ serverRemoteSequence \in Nat
      /\ \A u \in ToBeReadByServer : u.sequence \in Nat
      /\ \A v \in ToBeReadByClient : v.receivedId \in Nat
      /\ \A b \in clientBuffer : b.item \in Nat
  BY FieldTypes, CounterTypes DEF IInv
<1>4. CountersInv'
  BY <1>1, <1>2, <1>3 DEF IInv, CountersInv, serverVars
<1>5. ClientUpdatesInv'
  BY <1>1, <1>2, <1>3 DEF IInv, ClientUpdatesInv, ReplyDone, serverVars
<1>6. ServerUpdatesInv'
  BY <1>1, <1>2, <1>3 DEF IInv, ServerUpdatesInv, ReplyDone, ActionDone, serverVars
<1>7. ClientBufferInv'
  <2>1. ASSUME NEW b \in clientBuffer'
        PROVE  /\ b.item < localActionIndex'
               /\ b.sequence <= clientSequence'
               /\ b.sequence <= serverRemoteSequence' => b.item <= serverActionIndex'
    BY <1>1, <1>2, <1>3, <2>1 DEF IInv, CountersInv, ClientBufferInv, serverVars
  <2>2. ASSUME NEW i \in 1 .. localActionIndex' - 1
        PROVE  ActionDone(i)' \/ \E b \in clientBuffer' : b.item = i
    <3>1. CASE i = localActionIndex
      <4>1. a \in clientBuffer' /\ a.item = i
        BY <1>1, <3>1
      <4> QED
        BY <4>1
    <3>2. CASE i \in 1 .. localActionIndex - 1
      BY <1>1, <1>2, <3>2 DEF IInv, ClientBufferInv, ActionDone, serverVars
    <3> QED
      BY <1>1, <1>3, <3>1, <3>2
  <2> QED
    BY <2>1, <2>2 DEF ClientBufferInv
<1>8. ServerBufferInv' /\ IssuedInv'
  BY <1>1, <1>2 DEF IInv, ServerBufferInv, IssuedInv, ReplyDone, Received, serverVars
<1>9. ActionsExecutedOnce' /\ RepliesExecutedOnce'
  BY <1>2 DEF IInv, ActionsExecutedOnce, RepliesExecutedOnce, serverVars
<1> QED
  BY <1>4, <1>5, <1>6, <1>7, <1>8, <1>9 DEF IInv

(* The client may send.                                                    *)
LEMMA ConnectionEstablishedStep == ASSUME IInv, TypeInv', ConnectionEstablished PROVE IInv'
<1>1. ToBeReadByServer' = ToBeReadByServer /\ ToBeReadByClient' = ToBeReadByClient
  BY DEF ConnectionEstablished, ToBeReadByServer, ToBeReadByClient, serverVars
<1> QED
  BY <1>1, WaitingUpdates DEF ConnectionEstablished, IInv, CountersInv, serverVars

(* The client sends what is not confirmed.                                 *)
LEMMA ClientSendStep == ASSUME IInv, TypeInv', ClientSend PROVE IInv'
<1>1. CASE ~established
  <2>1. ToBeReadByServer' = ToBeReadByServer /\ ToBeReadByClient' = ToBeReadByClient
    BY <1>1 DEF ClientSend, ToBeReadByServer, ToBeReadByClient, serverVars
  <2> QED
    BY <1>1, <2>1, WaitingUpdates DEF ClientSend, IInv, CountersInv, serverVars
<1>2. CASE established
  <2> DEFINE u == [sequence   |-> clientSequence,
                   receivedId |-> clientRemoteSequence,
                   actions    |-> {a.item : a \in clientBuffer}]
  <2>1. toServer' = toServer \cup {u} /\ clientSequence' = clientSequence + 1
    BY <1>2 DEF ClientSend
  <2>2. /\ clientPhase = "send"
        /\ UNCHANGED <<serverVars, established, clientBuffer, localActionIndex,
                       clientRemoteSequence, clientIndex, reconciliations, clientNodes,
                       clientQueue, serverQueue, toClient, applied>>
    BY DEF ClientSend
  <2>3. /\ ToBeReadByServer' = ToBeReadByServer \cup {u}
        /\ ToBeReadByClient' = ToBeReadByClient
        /\ Issued' = Issued
    BY <2>1, <2>2 DEF ToBeReadByServer, ToBeReadByClient, Issued, serverVars
  <2>4. reconciliations = {}
    BY <2>2 DEF IInv, CountersInv
  <2>5. CountersInv'
    BY <2>1, <2>2, <2>4, CounterTypes DEF IInv, CountersInv, serverVars
  <2>6. ClientUpdatesInv'
    <3>1. ASSUME NEW w \in ToBeReadByServer
          PROVE  /\ w.sequence < clientSequence'
                 /\ w.receivedId < serverSequence'
                 /\ w.actions \subseteq 1 .. localActionIndex' - 1
                 /\ \A j \in w.actions : \A i \in 1 .. j : i \in w.actions \/ i <= serverActionIndex'
                 /\ \A a \in clientBuffer' : a.sequence <= w.sequence => a.item \in w.actions
                 /\ \A e \in serverBuffer' : e.sequence <= w.receivedId => ReplyDone(e.item)'
      BY <2>1, <2>2, <3>1, CounterTypes, FieldTypes DEF IInv, ClientUpdatesInv, ReplyDone, serverVars
    <3>2. u.sequence < clientSequence' /\ u.receivedId < serverSequence'
      BY <2>1, <2>2, CounterTypes DEF IInv, CountersInv, serverVars
    <3>3. u.actions \subseteq 1 .. localActionIndex' - 1
      BY <2>2, CounterTypes, FieldTypes DEF IInv, ClientBufferInv
    <3>4. ASSUME NEW j \in u.actions, NEW i \in 1 .. j
          PROVE  i \in u.actions \/ i <= serverActionIndex'
      <4>1. i \in 1 .. localActionIndex - 1
        <5>1. j \in 1 .. localActionIndex - 1
          BY <2>2, <3>3
        <5> QED
          BY <5>1, CounterTypes DEF IInv
      <4>2. ActionDone(i) \/ \E a \in clientBuffer : a.item = i
        BY <4>1 DEF IInv, ClientBufferInv
      <4> QED
        BY <2>2, <4>2 DEF ActionDone, serverVars
    <3>5. \A a \in clientBuffer' : a.item \in u.actions
      BY <2>2
    <3>6. \A e \in serverBuffer' : e.sequence <= u.receivedId => ReplyDone(e.item)'
      BY <2>2, <2>4 DEF IInv, ServerBufferInv, Received, ReplyDone, serverVars
    <3> QED
      BY <2>3, <3>1, <3>2, <3>3, <3>4, <3>5, <3>6 DEF ClientUpdatesInv
  <2>7. ServerUpdatesInv'
    BY <2>1, <2>2, <2>3, CounterTypes, FieldTypes DEF IInv, ServerUpdatesInv, ReplyDone, ActionDone, serverVars
  <2>8. ClientBufferInv'
    BY <2>1, <2>2, CounterTypes, FieldTypes DEF IInv, ClientBufferInv, ActionDone, serverVars
  <2>9. ServerBufferInv' /\ IssuedInv'
    BY <2>2, <2>3 DEF IInv, ServerBufferInv, IssuedInv, ReplyDone, Received, serverVars
  <2>10. ActionsExecutedOnce' /\ RepliesExecutedOnce'
    BY <2>2 DEF IInv, ActionsExecutedOnce, RepliesExecutedOnce, serverVars
  <2> QED
    BY <2>5, <2>6, <2>7, <2>8, <2>9, <2>10 DEF IInv
<1> QED
  BY <1>1, <1>2

(* The client fetches an update: confirmations and new replies.            *)
LEMMA FetchUpdateStep == ASSUME IInv, TypeInv', FetchUpdate PROVE IInv'
<1> DEFINE v == Head(clientNodes)
<1>1. /\ clientPhase = "fetch"
      /\ clientNodes' = Tail(clientNodes)
      /\ UNCHANGED <<serverVars, clientPhase, established, clientSequence, localActionIndex,
                     clientIndex, clientQueue, serverQueue, toServer, toClient, applied>>
  BY DEF FetchUpdate
<1>2. v \in ToBeReadByClient /\ Range(clientNodes') \subseteq Range(clientNodes)
  BY <1>1, PopProperties DEF FetchUpdate, IInv, TypeInv, TypeOK, ToBeReadByClient
<1>3. /\ ToBeReadByClient' \subseteq ToBeReadByClient
      /\ ToBeReadByServer' = ToBeReadByServer
      /\ Issued' = Issued
  BY <1>1, <1>2 DEF ToBeReadByServer, ToBeReadByClient, Issued, serverVars
<1>4. CASE v.sequence <= clientRemoteSequence
  BY <1>1, <1>3, <1>4, WaitingUpdates DEF FetchUpdate, IInv, CountersInv, serverVars
<1>5. CASE ~ (v.sequence <= clientRemoteSequence)
  <2>1. /\ reconciliations' = reconciliations \cup {r \in v.items : r.id > clientIndex[r.kind]}
        /\ clientBuffer' = Confirm(clientBuffer, v.receivedId)
        /\ clientRemoteSequence' = v.sequence
    BY <1>5 DEF FetchUpdate
  <2>2. clientBuffer' = {a \in clientBuffer : a.sequence > v.receivedId}
    BY <2>1 DEF Confirm
  <2>3. \A r \in ReplyItem : ReplyDone(r)' = ReplyDone(r)
    BY <1>1 DEF ReplyDone
  <2>4. \A r \in v.items : r \in Issued /\ Received(r)'
    <3>1. ASSUME NEW r \in v.items PROVE r \in Issued /\ Received(r)'
      <4>1. r \in Issued /\ r \in ReplyItem
        BY <1>2 DEF IInv, ServerUpdatesInv, Issued
      <4>2. r.id \in Nat /\ clientIndex[r.kind] \in Nat
        BY <4>1, ReplyItemFields, IdTypes, CounterTypes DEF IInv, Reply
      <4> QED
        BY <1>1, <2>1, <4>1, <4>2 DEF Received, ReplyDone
    <3> QED
      BY <3>1
  <2>5. \A r \in ReplyItem : Received(r) => Received(r)'
    BY <2>1, <2>3 DEF Received
  <2>6. CountersInv'
    BY <1>1, <1>2, <2>1 DEF IInv, CountersInv, ServerUpdatesInv, serverVars
  <2>7. ClientUpdatesInv'
    BY <1>1, <1>3, <2>2 DEF IInv, ClientUpdatesInv, ReplyDone, serverVars
  <2>8. ServerUpdatesInv'
    BY <1>1, <1>3, <2>2 DEF IInv, ServerUpdatesInv, ReplyDone, ActionDone, serverVars
  <2>9. ClientBufferInv'
    <3>1. \A a \in clientBuffer \ clientBuffer' : ActionDone(a.item)
      BY <1>2, <2>2, FieldTypes DEF IInv, ServerUpdatesInv
    <3> QED
      BY <1>1, <2>2, <3>1 DEF IInv, ClientBufferInv, ActionDone, serverVars
  <2>10. ServerBufferInv'
    <3>1. ASSUME NEW e \in serverBuffer, e.sequence <= v.sequence
          PROVE  Received(e.item)'
      BY <1>2, <2>4, <3>1 DEF IInv, ServerUpdatesInv
    <3> QED
      BY <1>1, <1>3, <2>1, <3>1 DEF IInv, ServerBufferInv, ReplyDone, serverVars
  <2>11. IssuedInv'
    <3>1. reconciliations' \subseteq Issued'
      BY <1>3, <2>1, <2>4 DEF IInv, IssuedInv
    <3>2. ASSUME NEW s \in reconciliations', NEW r \in Issued, Before(r, s)
          PROVE  Received(r)'
      <4>1. r \in ReplyItem
        BY DEF Issued
      <4>2. CASE s \in reconciliations
        BY <2>5, <3>2, <4>1, <4>2 DEF IInv, IssuedInv
      <4>3. CASE s \in v.items
        <5>1. r \in v.items \/ ReplyDone(r)
          BY <1>2, <3>2, <4>3 DEF IInv, ServerUpdatesInv
        <5> QED
          BY <2>3, <2>4, <4>1, <5>1 DEF Received
      <4> QED
        BY <2>1, <4>2, <4>3
    <3> QED
      BY <1>1, <1>3, <3>1, <3>2 DEF IInv, IssuedInv, serverVars
  <2>12. ActionsExecutedOnce' /\ RepliesExecutedOnce'
    BY <1>1 DEF IInv, ActionsExecutedOnce, RepliesExecutedOnce, serverVars
  <2> QED
    BY <2>6, <2>7, <2>8, <2>9, <2>10, <2>11, <2>12 DEF IInv
<1> QED
  BY <1>4, <1>5

(* The client executes what it has fetched, in order.                      *)
LEMMA ProcessUpdateStep == ASSUME IInv, TypeInv', ProcessUpdate PROVE IInv'
<1>1. /\ clientPhase' = "send" /\ reconciliations' = {}
      /\ \A k \in Reply : clientIndex'[k] = MaxOf(IdsOf(reconciliations, k), clientIndex[k])
      /\ \A k \in Reply : applied'[k] = Executed(k, NewIds(IdsOf(reconciliations, k), clientIndex[k]))
      /\ applied'["action"] = applied["action"]
  BY DEF ProcessUpdate, Kind, Reply
<1>2. UNCHANGED <<serverVars, established, clientBuffer, clientSequence, localActionIndex,
                  clientRemoteSequence, clientNodes, clientQueue, serverQueue, toServer, toClient>>
  BY DEF ProcessUpdate
<1>3. /\ ToBeReadByClient' = ToBeReadByClient
      /\ ToBeReadByServer' = ToBeReadByServer
      /\ Issued' = Issued
  BY <1>2 DEF ToBeReadByServer, ToBeReadByClient, Issued, serverVars
<1>4. ASSUME NEW k \in Reply
      PROVE  /\ clientIndex'[k] \in IdsOf(reconciliations, k) \cup {clientIndex[k]}
             /\ \A i \in IdsOf(reconciliations, k) : i <= clientIndex'[k]
             /\ clientIndex[k] <= clientIndex'[k]
  <2>1. PICK M \in Nat : Id(k) = 1 .. M
    BY DEF Id
  <2>2. clientIndex[k] \in Nat
    BY CounterTypes DEF IInv
  <2>3. IdsOf(reconciliations, k) \in SUBSET (0 .. M + clientIndex[k])
    BY <2>1, <2>2, IdTypes
  <2> QED
    BY <1>1, <2>2, <2>3, MaxOfProperties
<1>5. ASSUME NEW r \in ReplyItem, Received(r)
      PROVE  ReplyDone(r)'
  <2>1. /\ r.kind \in Reply /\ r.id \in Nat
        /\ clientIndex[r.kind] \in Nat /\ clientIndex'[r.kind] \in Nat
    <3>1. clientIndex' \in [Reply -> Nat]
      BY DEF TypeInv, TypeOK
    <3>2. r.kind \in Reply /\ r.id \in Nat
      BY ReplyItemFields, IdTypes DEF Reply
    <3>3. \A k \in Reply : clientIndex[k] \in Nat
      BY CounterTypes DEF IInv
    <3> QED
      BY <3>1, <3>2, <3>3
  <2>2. CASE r \in reconciliations
    <3>1. r.id \in IdsOf(reconciliations, r.kind)
      BY <2>2, ReplyItemFields DEF IdsOf
    <3> QED
      BY <1>4, <2>1, <3>1 DEF ReplyDone
  <2>3. CASE ReplyDone(r)
    BY <1>4, <2>1, <2>3 DEF ReplyDone
  <2> QED
    BY <1>5, <2>2, <2>3 DEF Received
<1>6. ASSUME NEW r \in Issued, ReplyDone(r)'
      PROVE  Received(r)
  <2>1. r \in ReplyItem /\ r.kind \in Reply /\ r.id \in Nat
    BY ReplyItemFields, IdTypes DEF Issued, Reply
  <2>2. CASE clientIndex'[r.kind] = clientIndex[r.kind]
    BY <1>6, <2>2 DEF ReplyDone, Received
  <2>3. CASE clientIndex'[r.kind] \in IdsOf(reconciliations, r.kind)
    <3> DEFINE s == [kind |-> r.kind, id |-> clientIndex'[r.kind]]
    <3>1. s \in reconciliations /\ s.id \in Nat
      BY <2>1, <2>3, IdTypes DEF IdsOf, Reply
    <3>2. CASE r.id < s.id
      BY <2>1, <3>1, <3>2 DEF IInv, IssuedInv, Before
    <3>3. CASE r.id = s.id
      BY <2>1, <3>1, <3>3, ReplyItemFields DEF Received
    <3> QED
      BY <1>6, <2>1, <3>1, <3>2, <3>3 DEF ReplyDone
  <2> QED
    BY <1>4, <2>1, <2>2, <2>3
<1>7. CountersInv'
  BY <1>1, <1>2 DEF IInv, CountersInv, serverVars
<1>8. ClientUpdatesInv'
  <2>1. \A e \in serverBuffer : ReplyDone(e.item) => ReplyDone(e.item)'
    BY <1>5, FieldTypes DEF IInv, Received
  <2> QED
    BY <1>2, <1>3, <2>1 DEF IInv, ClientUpdatesInv, serverVars
<1>9. ServerUpdatesInv'
  <2>1. \A r \in Issued : ReplyDone(r) => ReplyDone(r)'
    BY <1>5 DEF Received, Issued
  <2> QED
    BY <1>2, <1>3, <2>1 DEF IInv, ServerUpdatesInv, ActionDone, serverVars
<1>10. ClientBufferInv'
  BY <1>2 DEF IInv, ClientBufferInv, ActionDone, serverVars
<1>11. ServerBufferInv'
  <2>1. \A r \in ReplyItem : Received(r) => ReplyDone(r)' /\ Received(r)'
    BY <1>5 DEF Received
  <2>2. \A r \in Issued : ReplyDone(r) => ReplyDone(r)'
    BY <2>1 DEF Received, Issued
  <2> QED
    BY <1>2, <1>3, <2>1, <2>2, FieldTypes DEF IInv, ServerBufferInv, serverVars
<1>12. IssuedInv'
  <2>1. ASSUME NEW k \in Reply PROVE clientIndex'[k] \in issued[k] \cup {0}
    <3>1. CASE clientIndex'[k] = clientIndex[k]
      BY <3>1 DEF IInv, IssuedInv
    <3>2. CASE clientIndex'[k] \in IdsOf(reconciliations, k)
      BY <3>2 DEF IInv, IssuedInv, Issued, IdsOf
    <3> QED
      BY <1>4, <3>1, <3>2
  <2> QED
    BY <1>1, <1>2, <1>3, <2>1 DEF IInv, IssuedInv, serverVars
<1>13. ActionsExecutedOnce'
  BY <1>1, <1>2 DEF IInv, ActionsExecutedOnce, serverVars
<1>14. RepliesExecutedOnce'
  <2> SUFFICES ASSUME NEW k \in Reply, NEW i \in Id(k)
               PROVE  applied'[k][i] = IF i \in issued[k] /\ i <= clientIndex'[k] THEN 1 ELSE 0
    BY <1>2 DEF RepliesExecutedOnce, serverVars
  <2> DEFINE r == [kind |-> k, id |-> i]
  <2>1. r \in ReplyItem /\ i \in Nat /\ clientIndex[k] \in Nat
    BY ReplyItemOf, IdTypes, CounterTypes DEF IInv, Reply
  <2>2. /\ r \in Issued <=> i \in issued[k]
        /\ ReplyDone(r) <=> i <= clientIndex[k]
        /\ ReplyDone(r)' <=> i <= clientIndex'[k]
        /\ r \in reconciliations <=> i \in IdsOf(reconciliations, k)
    BY <2>1 DEF Issued, ReplyDone, IdsOf
  <2>3. applied'[k][i] = IF i \in IdsOf(reconciliations, k) /\ i > clientIndex[k]
                         THEN applied[k][i] + 1 ELSE applied[k][i]
    BY <1>1 DEF Executed, NewIds
  <2>4. applied[k][i] = IF i \in issued[k] /\ i <= clientIndex[k] THEN 1 ELSE 0
    BY DEF IInv, RepliesExecutedOnce
  <2>5. r \in reconciliations => r \in Issued
    BY DEF IInv, IssuedInv
  <2> HIDE DEF r
  <2>6. CASE i \in issued[k] /\ i <= clientIndex'[k]
    <3>1. Received(r)
      BY <1>6, <2>2, <2>6
    <3> QED
      BY <2>1, <2>2, <2>3, <2>4, <2>6, <3>1 DEF Received
  <2>7. CASE ~ (i \in issued[k] /\ i <= clientIndex'[k])
    <3>1. ~ (r \in Issued /\ Received(r))
      BY <1>5, <2>1, <2>2, <2>7
    <3> QED
      BY <2>1, <2>2, <2>3, <2>4, <2>5, <2>7, <3>1 DEF Received
  <2> QED
    BY <2>6, <2>7
<1> QED
  BY <1>7, <1>8, <1>9, <1>10, <1>11, <1>12, <1>13, <1>14 DEF IInv

(* The server fetches an update: confirmations and new actions.            *)
LEMMA FetchActionsStep == ASSUME IInv, TypeInv', FetchActions PROVE IInv'
<1> DEFINE u == Head(serverNodes)
<1>1. /\ serverPhase = "fetch"
      /\ serverNodes' = Tail(serverNodes)
      /\ actions' = actions \cup NewIds(u.actions, serverActionIndex)
      /\ serverActionIndex' = MaxOf(u.actions, serverActionIndex)
      /\ serverBuffer' = Confirm(serverBuffer, u.receivedId)
      /\ serverRemoteSequence' = Larger(serverRemoteSequence, u.sequence)
      /\ UNCHANGED <<clientVars, serverPhase, serverSequence, localCommandIndex, issued,
                     clientQueue, serverQueue, toServer, toClient, applied>>
  BY DEF FetchActions
<1>2. u \in ToBeReadByServer /\ Range(serverNodes') \subseteq Range(serverNodes)
  BY <1>1, PopProperties DEF FetchActions, IInv, TypeInv, TypeOK, ToBeReadByServer
<1>3. /\ ToBeReadByServer' \subseteq ToBeReadByServer
      /\ ToBeReadByClient' = ToBeReadByClient
      /\ Issued' = Issued
  BY <1>1, <1>2 DEF ToBeReadByServer, ToBeReadByClient, Issued, clientVars
<1>4. /\ u.actions \subseteq 1 .. localActionIndex - 1
      /\ u.sequence < clientSequence
      /\ \A j \in u.actions : \A i \in 1 .. j : i \in u.actions \/ i <= serverActionIndex
      /\ \A a \in clientBuffer : a.sequence <= u.sequence => a.item \in u.actions
      /\ \A e \in serverBuffer : e.sequence <= u.receivedId => ReplyDone(e.item)
      /\ u.sequence \in Nat /\ u.receivedId \in Nat
  BY <1>2, FieldTypes DEF IInv, ClientUpdatesInv
<1>5. serverBuffer' = {e \in serverBuffer : e.sequence > u.receivedId}
  BY <1>1 DEF Confirm
<1>6. /\ serverActionIndex <= serverActionIndex'
      /\ serverActionIndex' \in u.actions \cup {serverActionIndex}
      /\ \A i \in u.actions : i <= serverActionIndex'
      /\ serverActionIndex' \in Nat
  <2>1. u.actions \in SUBSET (0 .. localActionIndex) /\ serverActionIndex \in 0 .. localActionIndex
    BY <1>4, CounterTypes DEF IInv, CountersInv
  <2>2. localActionIndex \in Nat
    BY CounterTypes DEF IInv
  <2> HIDE DEF u
  <2>3. /\ MaxOf(u.actions, serverActionIndex) \in u.actions \cup {serverActionIndex}
        /\ \A n \in u.actions \cup {serverActionIndex} : n <= MaxOf(u.actions, serverActionIndex)
    BY <2>1, <2>2, MaxOfProperties
  <2>4. serverActionIndex' = MaxOf(u.actions, serverActionIndex)
    BY <1>1 DEF u
  <2>5. serverActionIndex' \in Nat
    BY <2>1, <2>3, <2>4
  <2> QED
    BY <2>3, <2>4, <2>5
<1>7. actions' = actions \cup {i \in u.actions : i > serverActionIndex}
  BY <1>1 DEF NewIds
<1> HIDE DEF u
<1>8. ASSUME NEW i \in Nat \ {0}
      PROVE  ActionDone(i)' <=> ActionDone(i)
  <2>1. ASSUME ActionDone(i) PROVE ActionDone(i)'
    BY <1>6, <1>7, <2>1, CounterTypes DEF ActionDone, IInv
  <2>2. ASSUME ActionDone(i)' PROVE ActionDone(i)
    <3>1. CASE i <= serverActionIndex
      BY <1>7, <2>2, <3>1 DEF ActionDone
    <3>2. CASE serverActionIndex < i
      <4>1. serverActionIndex' \in u.actions /\ i \in 1 .. serverActionIndex'
        BY <1>6, <2>2, <3>2, CounterTypes DEF ActionDone, IInv
      <4>2. i \in u.actions
        BY <1>4, <3>2, <4>1, CounterTypes DEF IInv
      <4> QED
        BY <1>7, <2>2, <3>2, <4>2 DEF ActionDone
    <3> QED
      BY <3>1, <3>2, CounterTypes DEF IInv
  <2> QED
    BY <2>1, <2>2
<1>9. CountersInv'
  <2>1. serverActionIndex' < localActionIndex
    BY <1>4, <1>6, CounterTypes DEF IInv, CountersInv
  <2>2. serverRemoteSequence' < clientSequence
    BY <1>1, <1>4, CounterTypes DEF IInv, CountersInv, Larger
  <2>3. actions' \subseteq 1 .. serverActionIndex'
    <3>1. ASSUME NEW i \in actions' PROVE i \in Nat \ {0} /\ i <= serverActionIndex'
      <4>1. CASE i \in actions
        <5>1. i \in 1 .. serverActionIndex /\ serverActionIndex \in Nat
          BY <4>1, CounterTypes DEF IInv, CountersInv
        <5> QED
          BY <1>6, <5>1
      <4>2. CASE i \in u.actions
        BY <1>4, <1>6, <4>2, CounterTypes DEF IInv
      <4> QED
        BY <1>7, <4>1, <4>2
    <3> QED
      BY <1>6, <3>1
  <2> QED
    BY <1>1, <2>1, <2>2, <2>3 DEF IInv, CountersInv, clientVars
<1>10. ClientUpdatesInv'
  <2>1. \A w \in ToBeReadByServer : \A j \in w.actions : \A i \in 1 .. j :
           i \in w.actions \/ i <= serverActionIndex'
    BY <1>6, CounterTypes, FieldTypes, IdTypes DEF IInv, ClientUpdatesInv
  <2> QED
    BY <1>1, <1>3, <1>5, <2>1 DEF IInv, ClientUpdatesInv, ReplyDone, clientVars
<1>11. ServerUpdatesInv'
  <2>1. \A a \in clientBuffer : ActionDone(a.item) => ActionDone(a.item)'
    BY <1>8, FieldTypes DEF IInv
  <2> QED
    BY <1>1, <1>3, <1>5, <2>1 DEF IInv, ServerUpdatesInv, ReplyDone, clientVars
<1>12. ClientBufferInv'
  <2>1. ASSUME NEW a \in clientBuffer, a.sequence <= serverRemoteSequence'
        PROVE  a.item <= serverActionIndex'
    <3>1. CASE a.sequence <= serverRemoteSequence
      BY <1>6, <3>1, CounterTypes, FieldTypes DEF IInv, ClientBufferInv
    <3>2. CASE a.sequence <= u.sequence
      BY <1>4, <1>6, <3>2
    <3> QED
      BY <1>1, <2>1, <3>1, <3>2 DEF Larger
  <2>2. \A i \in 1 .. localActionIndex - 1 : ActionDone(i)' \/ \E a \in clientBuffer : a.item = i
    BY <1>8 DEF IInv, ClientBufferInv
  <2> QED
    BY <1>1, <2>1, <2>2 DEF IInv, ClientBufferInv, clientVars
<1>13. ServerBufferInv'
  <2>1. \A e \in serverBuffer \ serverBuffer' : ReplyDone(e.item)
    BY <1>4, <1>5, FieldTypes DEF IInv
  <2>2. \A r \in ReplyItem : /\ ReplyDone(r)' <=> ReplyDone(r)
                             /\ Received(r)' <=> Received(r)
    BY <1>1 DEF ReplyDone, Received, clientVars
  <2>3. \A r \in Issued : ReplyDone(r)' \/ \E e \in serverBuffer' : e.item = r
    BY <2>1, <2>2 DEF IInv, ServerBufferInv, Issued
  <2> QED
    BY <1>1, <1>3, <1>5, <2>2, <2>3, FieldTypes DEF IInv, ServerBufferInv, clientVars
<1>14. IssuedInv'
  <2>1. issued["result"] \subseteq 1 .. serverActionIndex'
    BY <1>6, CounterTypes DEF IInv, IssuedInv
  <2>2. \A i \in issued["result"], j \in actions' : i < j
    BY <1>4, <1>7, CounterTypes DEF IInv, IssuedInv
  <2> QED
    BY <1>1, <1>3, <2>1, <2>2 DEF IInv, IssuedInv, ReplyDone, Received, clientVars
<1>15. ActionsExecutedOnce'
  <2>1. \A i \in Id("action") : i \in Nat \ {0}
    BY IdTypes
  <2> QED
    BY <1>1, <1>8, <2>1 DEF IInv, ActionsExecutedOnce, ActionDone
<1>16. RepliesExecutedOnce'
  BY <1>1 DEF IInv, RepliesExecutedOnce, clientVars
<1> QED
  BY <1>9, <1>10, <1>11, <1>12, <1>13, <1>14, <1>15, <1>16 DEF IInv

(* The server executes actions and answers.                                *)
LEMMA ServerTickStep == ASSUME IInv, TypeInv', ServerTick PROVE IInv'
<1> DEFINE Items(answered, n) ==
             {[kind |-> "result", id |-> i] : i \in answered} \cup
             {[kind |-> "command", id |-> i] : i \in localCommandIndex .. localCommandIndex + n - 1}
<1>1. PICK answered \in SUBSET actions, n \in 0 .. MaxCommands + 1 - localCommandIndex :
        /\ localCommandIndex' = localCommandIndex + n
        /\ serverBuffer' = Add(serverBuffer, serverSequence, Items(answered, n))
        /\ issued' = [k \in Reply |-> issued[k] \cup IdsOf(Items(answered, n), k)]
  BY DEF ServerTick, Answers
<1> DEFINE new == Items(answered, n)
           v   == [sequence   |-> serverSequence,
                   receivedId |-> serverRemoteSequence,
                   items      |-> {e.item : e \in serverBuffer'}]
<1>2. /\ serverPhase' = "idle" /\ actions' = {}
      /\ applied' = [applied EXCEPT !["action"] = Executed("action", actions)]
      /\ toClient' = toClient \cup {v}
      /\ serverSequence' = serverSequence + 1
      /\ UNCHANGED <<clientVars, serverRemoteSequence, serverActionIndex, serverNodes,
                     clientQueue, serverQueue, toServer>>
  BY DEF ServerTick
<1>3. /\ ToBeReadByClient' = ToBeReadByClient \cup {v}
      /\ ToBeReadByServer' = ToBeReadByServer
  BY <1>2 DEF ToBeReadByServer, ToBeReadByClient, clientVars
<1>4. /\ \A r \in new : r \in ReplyItem
      /\ \A r \in new : \/ r.kind = "result" /\ r.id \in actions
                        \/ r.kind = "command" /\ r.id \in localCommandIndex .. localCommandIndex + n - 1
      /\ IdsOf(new, "result") = answered
      /\ IdsOf(new, "command") = localCommandIndex .. localCommandIndex + n - 1
  <2>1. answered \subseteq Id("result")
    BY IdTypes DEF IInv, TypeInv, TypeOK
  <2>2. localCommandIndex .. localCommandIndex + n - 1 \subseteq Id("command")
    BY IdTypes DEF IInv, TypeInv, TypeOK
  <2>3. \A r \in new : r \in ReplyItem
    BY <2>1, <2>2 DEF ReplyItem
  <2>4. \A r \in new : \/ r.kind = "result" /\ r.id \in actions
                       \/ r.kind = "command" /\ r.id \in localCommandIndex .. localCommandIndex + n - 1
    OBVIOUS
  <2>5. IdsOf(new, "result") = answered
    BY <2>1 DEF IdsOf
  <2>6. IdsOf(new, "command") = localCommandIndex .. localCommandIndex + n - 1
    BY <2>2 DEF IdsOf
  <2> QED
    BY <2>3, <2>4, <2>5, <2>6
<1>5. /\ serverBuffer' = serverBuffer \cup {[sequence |-> serverSequence, item |-> r] : r \in new}
      /\ \A k \in Reply : issued'[k] = issued[k] \cup IdsOf(new, k)
  BY <1>1 DEF Add
<1> HIDE DEF new, Items
<1>6. Issued' = Issued \cup new
  <2>1. ASSUME NEW r \in ReplyItem PROVE r \in Issued' <=> r \in Issued \cup new
    <3>1. r.id \in IdsOf(new, r.kind) <=> r \in new
      BY ReplyItemFields DEF IdsOf
    <3> QED
      BY <1>5, <3>1, ReplyItemFields DEF Issued
  <2> QED
    BY <1>4, <2>1 DEF Issued
<1>7. ASSUME NEW r \in new
      PROVE  ~ ReplyDone(r) /\ \A s \in Issued : ~ Before(r, s)
  <2>1. /\ r \in ReplyItem /\ r.kind \in Reply /\ r.id \in Nat \ {0}
        /\ \A i \in issued[r.kind] : i \in Nat /\ i < r.id
    <3>1. CASE r.kind = "result" /\ r.id \in actions
      <4>1. issued["result"] \subseteq Nat
        BY CounterTypes DEF IInv, IssuedInv
      <4>2. r.id \in Nat \ {0} /\ \A i \in issued["result"] : i < r.id
        BY <3>1, CounterTypes DEF IInv, IssuedInv, CountersInv
      <4> QED
        BY <1>4, <3>1, <4>1, <4>2 DEF Reply
    <3>2. CASE r.kind = "command" /\ r.id \in localCommandIndex .. localCommandIndex + n - 1
      <4>1. localCommandIndex \in Nat \ {0} /\ issued["command"] = 1 .. localCommandIndex - 1
        BY CounterTypes DEF IInv, IssuedInv
      <4>2. r.id \in Nat \ {0} /\ \A i \in issued["command"] : i \in Nat /\ i < r.id
        BY <3>2, <4>1
      <4> QED
        BY <1>4, <3>2, <4>2 DEF Reply
    <3> QED
      BY <1>4, <3>1, <3>2
  <2>2. clientIndex[r.kind] \in issued[r.kind] \cup {0}
    BY <2>1 DEF IInv, IssuedInv
  <2>3. ~ ReplyDone(r)
    BY <2>1, <2>2 DEF ReplyDone
  <2>4. ASSUME NEW s \in Issued, Before(r, s) PROVE FALSE
    BY <2>1, <2>4 DEF Issued, Before
  <2> QED
    BY <2>3, <2>4
<1>8. \A r \in ReplyItem : /\ ReplyDone(r)' <=> ReplyDone(r)
                           /\ Received(r)' <=> Received(r)
  BY <1>2 DEF ReplyDone, Received, clientVars
<1>9. CountersInv'
  BY <1>2, CounterTypes DEF IInv, CountersInv, clientVars
<1>10. ClientUpdatesInv'
  <2>1. ASSUME NEW w \in ToBeReadByServer
        PROVE  /\ w.receivedId < serverSequence'
               /\ \A e \in serverBuffer' : e.sequence <= w.receivedId => ReplyDone(e.item)'
    BY <1>2, <1>5, <1>8, CounterTypes, FieldTypes DEF IInv, ClientUpdatesInv
  <2> QED
    BY <1>2, <1>3, <2>1 DEF IInv, ClientUpdatesInv, clientVars
<1>11. ASSUME NEW r \in Issued' PROVE r \in v.items \/ ReplyDone(r)'
  <2>1. CASE r \in new
    <3>1. [sequence |-> serverSequence, item |-> r] \in serverBuffer'
      BY <1>5, <2>1
    <3> QED
      BY <3>1
  <2>2. CASE r \in Issued
    BY <1>5, <1>8, <2>2 DEF IInv, ServerBufferInv, Issued
  <2> QED
    BY <1>6, <2>1, <2>2
<1>12. ServerUpdatesInv'
  <2>1. ASSUME NEW w \in ToBeReadByClient
        PROVE  /\ w.sequence < serverSequence'
               /\ w.items \subseteq Issued'
               /\ \A e \in serverBuffer' : e.sequence <= w.sequence => e.item \in w.items
    BY <1>2, <1>5, <1>6, CounterTypes, FieldTypes DEF IInv, ServerUpdatesInv
  <2>2. ASSUME NEW w \in ToBeReadByClient, NEW s \in w.items, NEW r \in Issued', Before(r, s)
        PROVE  r \in w.items \/ ReplyDone(r)'
    <3>1. s \in Issued
      BY DEF IInv, ServerUpdatesInv
    <3>2. r \in Issued
      BY <1>6, <1>7, <2>2, <3>1
    <3> QED
      BY <1>8, <2>2, <3>2 DEF IInv, ServerUpdatesInv, Issued
  <2>3. ASSUME NEW w \in ToBeReadByClient, NEW a \in clientBuffer, a.sequence <= w.receivedId
        PROVE  ActionDone(a.item)'
    BY <1>2, <2>3 DEF IInv, ServerUpdatesInv, ActionDone
  <2>4. v.sequence < serverSequence' /\ v.receivedId < clientSequence'
    BY <1>2, CounterTypes DEF IInv, CountersInv, clientVars
  <2>5. v.items \subseteq Issued'
    BY <1>5, <1>6 DEF IInv, ServerBufferInv
  <2>6. \A a \in clientBuffer : a.sequence <= v.receivedId => ActionDone(a.item)'
    BY <1>2 DEF IInv, ClientBufferInv, ActionDone
  <2>7. \A e \in serverBuffer' : e.item \in v.items
    OBVIOUS
  <2>8. clientBuffer' = clientBuffer /\ clientSequence' = clientSequence
    BY <1>2 DEF clientVars
  <2>9. \A w \in ToBeReadByClient : w.receivedId < clientSequence
    BY DEF IInv, ServerUpdatesInv
  <2> HIDE DEF v
  <2> QED
    BY <1>3, <1>11, <2>1, <2>2, <2>3, <2>4, <2>5, <2>6, <2>7, <2>8, <2>9 DEF ServerUpdatesInv
<1>13. ClientBufferInv'
  BY <1>2 DEF IInv, ClientBufferInv, ActionDone, clientVars
<1>14. ServerBufferInv'
  <2>1. ASSUME NEW e \in serverBuffer'
        PROVE  /\ e.item \in Issued'
               /\ e.sequence < serverSequence'
               /\ e.sequence <= clientRemoteSequence' => Received(e.item)'
    <3>1. CASE e \in serverBuffer
      BY <1>2, <1>6, <1>8, <3>1, CounterTypes, FieldTypes DEF IInv, ServerBufferInv, clientVars
    <3>2. CASE e \notin serverBuffer
      <4>1. e.sequence = serverSequence /\ e.item \in new
        BY <1>5, <3>2
      <4> QED
        BY <1>2, <1>6, <4>1, CounterTypes DEF IInv, CountersInv, clientVars
    <3> QED
      BY <3>1, <3>2
  <2>2. ASSUME NEW r \in Issued' PROVE ReplyDone(r)' \/ \E e \in serverBuffer' : e.item = r
    BY <1>11
  <2> QED
    BY <2>1, <2>2 DEF ServerBufferInv
<1>15. IssuedInv'
  <2>1. issued'["result"] \subseteq 1 .. serverActionIndex'
    BY <1>2, <1>4, <1>5 DEF IInv, IssuedInv, CountersInv, Reply
  <2>2. issued'["command"] = 1 .. localCommandIndex' - 1
    <3>1. localCommandIndex \in Nat \ {0} /\ issued["command"] = 1 .. localCommandIndex - 1
      BY CounterTypes DEF IInv, IssuedInv
    <3>2. issued'["command"] = issued["command"] \cup (localCommandIndex .. localCommandIndex + n - 1)
      BY <1>4, <1>5 DEF Reply
    <3>3. n \in Nat
      BY <3>1
    <3>4. (1 .. localCommandIndex - 1) \cup (localCommandIndex .. localCommandIndex + n - 1)
            = 1 .. (localCommandIndex + n) - 1
      BY <3>1, <3>3
    <3> QED
      BY <1>1, <3>1, <3>2, <3>4
  <2>3. \A k \in Reply : clientIndex'[k] \in issued'[k] \cup {0}
    BY <1>2, <1>5 DEF IInv, IssuedInv, clientVars
  <2>4. reconciliations' \subseteq Issued'
    BY <1>2, <1>6 DEF IInv, IssuedInv, clientVars
  <2>5. ASSUME NEW s \in reconciliations', NEW r \in Issued', Before(r, s)
        PROVE  Received(r)'
    <3>1. s \in reconciliations /\ s \in Issued
      BY <1>2 DEF IInv, IssuedInv, clientVars
    <3>2. r \in Issued
      BY <1>6, <1>7, <2>5, <3>1
    <3> QED
      BY <1>8, <2>5, <3>1, <3>2 DEF IInv, IssuedInv, Issued
  <2> QED
    BY <1>2, <2>1, <2>2, <2>3, <2>4, <2>5 DEF IssuedInv
<1>16. ActionsExecutedOnce'
  <2> SUFFICES ASSUME NEW i \in Id("action")
               PROVE  applied'["action"][i] = IF i <= serverActionIndex THEN 1 ELSE 0
    BY <1>2 DEF ActionsExecutedOnce
  <2>1. applied'["action"][i] = IF i \in actions THEN applied["action"][i] + 1 ELSE applied["action"][i]
    BY <1>2 DEF Executed, IInv, TypeInv, TypeOK, Kind
  <2>2. applied["action"][i] = IF i <= serverActionIndex /\ i \notin actions THEN 1 ELSE 0
    BY DEF IInv, ActionsExecutedOnce
  <2>3. i \in actions => i <= serverActionIndex
    BY CounterTypes DEF IInv, CountersInv
  <2> QED
    BY <2>1, <2>2, <2>3
<1>17. RepliesExecutedOnce'
  <2> SUFFICES ASSUME NEW k \in Reply, NEW i \in Id(k)
               PROVE  applied'[k][i] = IF i \in issued'[k] /\ i <= clientIndex[k] THEN 1 ELSE 0
    BY <1>2 DEF RepliesExecutedOnce, clientVars
  <2>1. applied'[k] = applied[k]
    BY <1>2 DEF Reply
  <2>2. ASSUME i \in IdsOf(new, k) PROVE ~ (i <= clientIndex[k])
    <3>1. [kind |-> k, id |-> i] \in new
      BY <2>2 DEF IdsOf
    <3> QED
      BY <1>7, <3>1 DEF ReplyDone
  <2> QED
    BY <1>5, <2>1, <2>2 DEF IInv, RepliesExecutedOnce
<1> QED
  BY <1>9, <1>10, <1>12, <1>13, <1>14, <1>15, <1>16, <1>17 DEF IInv

(* No step breaks the invariant.                                           *)
LEMMA InvStep == IInv /\ [Next]_vars => IInv'
<1> SUFFICES ASSUME IInv, [Next]_vars PROVE IInv'
  OBVIOUS
<1>1. TypeInv'
  BY TypeStep DEF IInv
<1>2. CASE UNCHANGED vars
  <2>1. ToBeReadByServer' = ToBeReadByServer /\ ToBeReadByClient' = ToBeReadByClient
    BY <1>2 DEF vars, clientVars, serverVars, ToBeReadByServer, ToBeReadByClient
  <2> QED
    BY <1>1, <1>2, <2>1, WaitingUpdates DEF vars, clientVars, serverVars, IInv, CountersInv
<1>3. CASE Next
  BY <1>1, <1>3, DeliverToServerStep, DeliverToClientStep, ConnectionEstablishedStep,
     SendActionStep, ConsumeAllStep, FetchUpdateStep, ProcessUpdateStep, ClientSendStep,
     FetchActionsStep, ServerTickStep DEF Next
<1> QED
  BY <1>2, <1>3

(* What each side has executed, buffers and confirms fits together in      *)
(* every reachable state.                                                  *)
THEOREM Invariance == Spec => []IInv
BY InvInit, InvStep, PTL DEF Spec

-----------------------------------------------------------------------------
(* What the exchange promises, proved. *)

\* Each action is executed exactly once, whatever the network does.
THEOREM ExactlyOnceActions == Spec => []ActionsExecutedOnce
<1>1. IInv => ActionsExecutedOnce
  BY DEF IInv
<1> QED
  BY <1>1, Invariance, PTL

\* So is each result and each command.
THEOREM ExactlyOnceReplies == Spec => []RepliesExecutedOnce
<1>1. IInv => RepliesExecutedOnce
  BY DEF IInv
<1> QED
  BY <1>1, Invariance, PTL

\* The redundancy buffers hold whatever is not handled yet.
THEOREM NothingForgotten == Spec => []UnhandledIsBuffered
<1>1. ASSUME IInv PROVE UnhandledIsBuffered
  <2>1. ASSUME NEW i \in 1 .. localActionIndex - 1, applied["action"][i] = 0
        PROVE  \E a \in clientBuffer : a.item = i
    <3>1. i \in Id("action")
      BY <1>1, IdTypes DEF IInv, TypeInv, TypeOK
    <3>2. ~ ActionDone(i)
      BY <1>1, <2>1, <3>1 DEF IInv, ActionsExecutedOnce, ActionDone
    <3> QED
      BY <1>1, <3>2 DEF IInv, ClientBufferInv
  <2>2. ASSUME NEW k \in Reply, NEW i \in issued[k], applied[k][i] = 0
        PROVE  \E e \in serverBuffer : e.item = [kind |-> k, id |-> i]
    <3> DEFINE r == [kind |-> k, id |-> i]
    <3>1. i \in Id(k)
      BY <1>1 DEF IInv, TypeInv, TypeOK
    <3>2. ~ (i <= clientIndex[k])
      BY <1>1, <2>2, <3>1 DEF IInv, RepliesExecutedOnce
    <3>3. r \in Issued /\ ~ ReplyDone(r)
      BY <3>1, <3>2, ReplyItemOf DEF Issued, ReplyDone
    <3> QED
      BY <1>1, <3>3 DEF IInv, ServerBufferInv
  <2> QED
    BY <2>1, <2>2 DEF UnhandledIsBuffered
<1> QED
  BY <1>1, Invariance, PTL

\* No update confirms what its sender has not executed.
THEOREM NoEarlyConfirmation == Spec => []ConfirmationIsEarned
<1>1. ASSUME IInv PROVE ConfirmationIsEarned
  <2>1. ASSUME NEW v \in toClient, NEW a \in clientBuffer, a.sequence <= v.receivedId
        PROVE  applied["action"][a.item] = 1
    <3>1. ActionDone(a.item)
      BY <1>1, <2>1 DEF IInv, ServerUpdatesInv, ToBeReadByClient
    <3>2. a.item \in Id("action")
      BY <1>1 DEF IInv, TypeInv, TypeOK, ActionEntry
    <3> QED
      BY <1>1, <3>1, <3>2 DEF IInv, ActionsExecutedOnce, ActionDone
  <2>2. ASSUME NEW u \in toServer, NEW e \in serverBuffer, e.sequence <= u.receivedId
        PROVE  applied[e.item.kind][e.item.id] = 1
    <3>1. ReplyDone(e.item) /\ e.item \in Issued
      BY <1>1, <2>2 DEF IInv, ClientUpdatesInv, ServerBufferInv, ToBeReadByServer
    <3>2. e.item.kind \in Reply /\ e.item.id \in Id(e.item.kind)
      BY <3>1, ReplyItemFields DEF Issued
    <3> QED
      BY <1>1, <3>1, <3>2 DEF IInv, RepliesExecutedOnce, ReplyDone, Issued
  <2> QED
    BY <2>1, <2>2 DEF ConfirmationIsEarned
<1> QED
  BY <1>1, Invariance, PTL

-----------------------------------------------------------------------------
(* The three streams implement ReliableStream. *)

\* The action stream: a SendAction issues, a ServerTick catches up.
LEMMA ActionsStepSimulation == IInv /\ IInv' /\ [Next]_vars => [Actions!Next]_<<1 .. localActionIndex - 1, applied["action"]>>
<1> SUFFICES ASSUME IInv, IInv', [Next]_vars
             PROVE  \/ Actions!Next
                    \/ /\ (1 .. localActionIndex - 1)' = 1 .. localActionIndex - 1
                       /\ applied'["action"] = applied["action"]
  OBVIOUS
<1>1. CASE SendAction
  <2>1. /\ localActionIndex \in Nat \ {0} /\ localActionIndex <= MaxActions
        /\ localActionIndex' = localActionIndex + 1
        /\ applied'["action"] = applied["action"]
    BY <1>1 DEF SendAction, IInv, TypeInv, TypeOK
  <2>2. /\ {localActionIndex} \in SUBSET Id("action")
        /\ \A i \in {localActionIndex}, j \in 1 .. localActionIndex - 1 : j < i
        /\ (1 .. localActionIndex - 1)' = (1 .. localActionIndex - 1) \cup {localActionIndex}
    BY <2>1, IdTypes
  <2> QED
    BY <2>1, <2>2 DEF Actions!Next, Actions!Issue
<1>2. CASE ServerTick
  <2>1. /\ applied'["action"] = Executed("action", actions)
        /\ localActionIndex' = localActionIndex
    BY <1>2 DEF ServerTick, IInv, TypeInv, TypeOK, Kind, clientVars
  <2>2. CASE actions = {}
    <3>1. applied["action"] \in [Id("action") -> Nat]
      BY DEF IInv, TypeInv, TypeOK, Kind
    <3> QED
      BY <2>1, <2>2, <3>1 DEF Executed
  <2>3. CASE actions # {}
    <3>1. serverActionIndex \in Id("action")
      <4>1. serverActionIndex \in 0 .. MaxActions
        BY DEF IInv, TypeInv, TypeOK
      <4>2. 1 <= serverActionIndex
        <5>1. PICK i \in actions : i \in 1 .. serverActionIndex
          BY <2>3 DEF IInv, CountersInv
        <5> QED
          BY <4>1, <5>1
      <4> QED
        BY <4>1, <4>2, IdTypes
    <3>2. ASSUME NEW i \in Id("action")
          PROVE  Executed("action", actions)[i] =
                   IF /\ i \in 1 .. localActionIndex - 1 /\ i <= serverActionIndex
                      /\ applied["action"][i] = 0
                   THEN 1 ELSE applied["action"][i]
      <4>1. applied["action"][i] = IF i <= serverActionIndex /\ i \notin actions THEN 1 ELSE 0
        BY DEF IInv, ActionsExecutedOnce
      <4>2. /\ i <= serverActionIndex => i \in 1 .. localActionIndex - 1
            /\ i \in actions => i <= serverActionIndex
        BY CounterTypes, IdTypes DEF IInv, CountersInv
      <4> QED
        BY <4>1, <4>2 DEF Executed
    <3>3. applied'["action"] = [i \in Id("action") |->
                                  IF /\ i \in 1 .. localActionIndex - 1 /\ i <= serverActionIndex
                                     /\ applied["action"][i] = 0
                                  THEN 1 ELSE applied["action"][i]]
      BY <2>1, <3>2 DEF Executed
    <3>4. Actions!CatchUpTo(serverActionIndex)
      BY <3>3 DEF Actions!CatchUpTo
    <3> QED
      BY <2>1, <3>1, <3>4 DEF Actions!Next
  <2> QED
    BY <2>2, <2>3
<1>3. CASE ~ SendAction /\ ~ ServerTick
  <2>1. localActionIndex' = localActionIndex /\ applied'["action"] = applied["action"]
    BY <1>3 DEF Next, vars, clientVars, DeliverToServer, DeliverToClient, ConnectionEstablished,
       ClientConsumeAll, FetchUpdate, ProcessUpdate, ClientSend, ServerConsumeAll, FetchActions,
       Kind, Reply
  <2> QED
    BY <2>1
<1> QED
  BY <1>1, <1>2, <1>3

\* The actions reach the server as a reliable stream.
LEMMA ActionsImplementation == Spec => Actions!Spec
<1>1. Init => Actions!Init
  <2> SUFFICES ASSUME Init PROVE Actions!Init
    OBVIOUS
  <2>1. 1 .. localActionIndex - 1 = {} /\ applied["action"] = [i \in Id("action") |-> 0]
    BY DEF Init, Kind
  <2> QED
    BY <2>1 DEF Actions!Init
<1> QED
  BY <1>1, ActionsStepSimulation, Invariance, PTL DEF Spec, Actions!Spec

\* What a step does to the results or to the commands: the server issues
\* later ones, or the client catches up with those issued, or nothing.
LEMMA ReplySteps ==
  ASSUME IInv, IInv', [Next]_vars, NEW k \in Reply
  PROVE  \/ /\ \E new \in SUBSET Id(k) : /\ \A i \in new, j \in issued[k] : j < i
                                         /\ issued'[k] = issued[k] \cup new
            /\ applied'[k] = applied[k]
         \/ /\ \E n \in Id(k) :
                 applied'[k] = [i \in Id(k) |-> IF i \in issued[k] /\ i <= n /\ applied[k][i] = 0
                                                THEN 1 ELSE applied[k][i]]
            /\ issued'[k] = issued[k]
         \/ issued'[k] = issued[k] /\ applied'[k] = applied[k]
<1>1. CASE ServerTick
  <2>1. applied'[k] = applied[k]
    BY <1>1 DEF ServerTick, Reply
  <2>2. PICK answered \in SUBSET actions, n \in 0 .. MaxCommands + 1 - localCommandIndex :
          issued' = [kk \in Reply |-> issued[kk] \cup
                       IdsOf({[kind |-> "result", id |-> i] : i \in answered} \cup
                             {[kind |-> "command", id |-> i] :
                                i \in localCommandIndex .. localCommandIndex + n - 1}, kk)]
    BY <1>1 DEF ServerTick, Answers
  <2>3. CASE k = "result"
    <3>1. answered \in SUBSET Id(k) /\ \A i \in answered, j \in issued[k] : j < i
      BY <2>3, IdTypes DEF IInv, IssuedInv, TypeInv, TypeOK
    <3>2. issued'[k] = issued[k] \cup answered
      BY <2>2, <2>3, <3>1 DEF IdsOf
    <3> QED
      BY <2>1, <3>1, <3>2
  <2>4. CASE k = "command"
    <3> DEFINE new == localCommandIndex .. localCommandIndex + n - 1
    <3>1. localCommandIndex \in 1 .. MaxCommands + 1 /\ issued[k] = 1 .. localCommandIndex - 1
      BY <2>4 DEF IInv, IssuedInv, TypeInv, TypeOK
    <3>2. new \in SUBSET Id(k) /\ \A i \in new, j \in issued[k] : j < i
      BY <2>4, <3>1, IdTypes
    <3>3. issued'[k] = issued[k] \cup new
      BY <2>2, <2>4, <3>2 DEF IdsOf
    <3> QED
      BY <2>1, <3>2, <3>3
  <2> QED
    BY <2>3, <2>4 DEF Reply
<1>2. CASE ProcessUpdate
  <2>1. issued' = issued
    BY <1>2 DEF ProcessUpdate, serverVars
  <2>2. \A i \in Id(k) : applied'[k][i] = applied[k][i] + 1 \/ applied'[k][i] = applied[k][i]
    BY <1>2 DEF ProcessUpdate, Executed, Kind
  <2>3. \A i \in Id(k) : /\ applied[k][i] \in {0, 1}
                         /\ applied'[k][i] = IF i \in issued[k] /\ i <= clientIndex'[k] THEN 1 ELSE 0
    BY <2>1 DEF IInv, RepliesExecutedOnce
  <2>4. /\ applied'[k] \in [Id(k) -> Nat] /\ applied[k] \in [Id(k) -> Nat]
        /\ issued[k] \in SUBSET Id(k)
    BY DEF IInv, TypeInv, TypeOK, Kind
  <2>5. clientIndex'[k] \in issued[k] \cup {0}
    BY <2>1 DEF IInv, IssuedInv
  <2>6. CASE clientIndex'[k] = 0
    <3>1. \A i \in Id(k) : ~ (i <= 0)
      BY DEF Id
    <3>2. \A i \in Id(k) : applied'[k][i] = applied[k][i]
      BY <2>2, <2>3, <2>6, <3>1
    <3> QED
      BY <2>1, <2>4, <3>2
  <2>7. CASE clientIndex'[k] \in Id(k)
    <3>1. \A i \in Id(k) :
            applied'[k][i] = IF i \in issued[k] /\ i <= clientIndex'[k] /\ applied[k][i] = 0
                             THEN 1 ELSE applied[k][i]
      BY <2>2, <2>3
    <3>2. applied'[k] = [i \in Id(k) |-> IF i \in issued[k] /\ i <= clientIndex'[k] /\ applied[k][i] = 0
                                         THEN 1 ELSE applied[k][i]]
      BY <2>4, <3>1
    <3> QED
      BY <2>1, <2>7, <3>2
  <2> QED
    BY <2>4, <2>5, <2>6, <2>7
<1>3. CASE ~ ServerTick /\ ~ ProcessUpdate
  <2>1. issued' = issued /\ applied' = applied
    BY <1>3 DEF Next, vars, serverVars, DeliverToServer, DeliverToClient, ConnectionEstablished,
       SendAction, ClientConsumeAll, FetchUpdate, ClientSend, ServerConsumeAll, FetchActions
  <2> QED
    BY <2>1
<1> QED
  BY <1>1, <1>2, <1>3

\* The results reach the client as a reliable stream.
LEMMA ResultsImplementation == Spec => Results!Spec
<1>1. Init => Results!Init
  BY DEF Init, Results!Init, Kind, Reply
<1>2. IInv /\ IInv' /\ [Next]_vars => [Results!Next]_<<issued["result"], applied["result"]>>
  BY ReplySteps DEF Results!Next, Results!Issue, Results!CatchUpTo, Reply
<1> QED
  BY <1>1, <1>2, Invariance, PTL DEF Spec, Results!Spec

\* The commands reach the client as a reliable stream.
LEMMA CommandsImplementation == Spec => Commands!Spec
<1>1. Init => Commands!Init
  BY DEF Init, Commands!Init, Kind, Reply
<1>2. IInv /\ IInv' /\ [Next]_vars => [Commands!Next]_<<issued["command"], applied["command"]>>
  BY ReplySteps DEF Commands!Next, Commands!Issue, Commands!CatchUpTo, Reply
<1> QED
  BY <1>1, <1>2, Invariance, PTL DEF Spec, Commands!Spec

\* Whatever is lost or overtaken, actions, results and commands are each
\* executed in order, nothing skipped and nothing twice.
THEOREM StreamsImplementation == Spec => StreamsAreReliable
BY ActionsImplementation, ResultsImplementation, CommandsImplementation, PTL
   DEF StreamsAreReliable

=============================================================================
