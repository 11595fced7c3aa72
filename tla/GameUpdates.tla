----------------------------- MODULE GameUpdates -----------------------------
(***************************************************************************)
(* The exchange of game updates between one GameClient and the GameServer  *)
(* over one established connection.                                        *)
(*                                                                         *)
(* Every network tick each side sends ONE numbered update (localGame-      *)
(* Sequence++) that repeats everything the peer has not confirmed yet, the *)
(* contents of its RedundancyBuffer, and that confirms the highest peer    *)
(* update it has seen (received_id).  The UDP path below loses and         *)
(* reorders updates; nothing is retransmitted on purpose.                  *)
(*                                                                         *)
(*   client -> server   actions (MOVEMENT, FIRE, SPAWN), ids 1, 2, 3 ...   *)
(*   server -> client   the results of actions, under the action's id, and *)
(*                      commands (CREATE_OBJECT, PLAYER_TIMEDOUT), ids     *)
(*                      1, 2, 3 ... of their own                           *)
(*                                                                         *)
(* Received updates wait in MessageQueue, a lock-free stack that worker    *)
(* threads push and the game thread empties in one exchange: the batch is  *)
(* read NEWEST first.                                                      *)
(***************************************************************************)
EXTENDS Naturals, FiniteSets, Sequences

CONSTANTS MaxUpdates,    \* bound: updates each side sends
          MaxActions,    \* bound: actions the player makes
          MaxCommands    \* bound: commands the server issues

ASSUME BoundsAssumption == /\ MaxUpdates \in Nat
                           /\ MaxActions \in Nat
                           /\ MaxCommands \in Nat

VARIABLES
  clientPhase,           \* where the client's frame is: "frame", "fetch", "send"
  established,           \* playerConnection->state = ESTABLISHED
  clientBuffer,          \* client redundancyBuffer: unconfirmed actions
  clientSequence,        \* client localGameSequence
  localActionIndex,      \* the id of the next action
  clientRemoteSequence,  \* client remoteGameSequence
  clientIndex,           \* client remoteActionIndex ("result"), remoteCommandIndex ("command")
  reconciliations,       \* GameClient::reconciliations
  clientQueue,           \* client sharedQueue, newest first
  clientNodes,           \* what ConsumeAll returned and FetchUpdate has not read
  serverPhase,           \* where the server's Tick is: "idle", "fetch"
  serverBuffer,          \* server redundancyBuffer: unconfirmed results and commands
  serverSequence,        \* server localGameSequence
  localCommandIndex,     \* the id of the next command
  serverRemoteSequence,  \* server remoteGameSequence
  serverActionIndex,     \* server remoteActionIndex
  actions,               \* GameServer::actions of this connection
  serverQueue,           \* server sharedQueue, newest first
  serverNodes,           \* what ConsumeAll returned and FetchActions has not read
  toServer, toClient,    \* updates on the wire
  issued,                \* history: the ids the server has put in its buffer, by kind
  applied                \* history: how often an id was executed, by kind

clientVars == <<clientPhase, established, clientBuffer, clientSequence, localActionIndex,
                clientRemoteSequence, clientIndex, reconciliations, clientNodes>>
serverVars == <<serverPhase, serverBuffer, serverSequence, localCommandIndex,
                serverRemoteSequence, serverActionIndex, actions, serverNodes, issued>>
vars == <<clientVars, serverVars, clientQueue, serverQueue, toServer, toClient, applied>>

-----------------------------------------------------------------------------
(* The data of the protocol. *)

Reply == {"result", "command"}          \* what a ServerReconciliation can be
Kind  == Reply \cup {"action"}

Id(k) == 1 .. (IF k = "command" THEN MaxCommands ELSE MaxActions)

SequenceNo == 1 .. MaxUpdates

ReplyItem == [kind : {"result"}, id : Id("result")] \cup [kind : {"command"}, id : Id("command")]

\* RedundancyItem: an action or a ServerReconciliation under the number of
\* the first update that carries it.
ActionEntry == [sequence : 1 .. MaxUpdates + 1, item : Id("action")]
ReplyEntry  == [sequence : 1 .. MaxUpdates + 1, item : ReplyItem]

ClientUpdate == [sequence : SequenceNo, receivedId : 0 .. MaxUpdates, actions : SUBSET Id("action")]
ServerUpdate == [sequence : SequenceNo, receivedId : 0 .. MaxUpdates, items : SUBSET ReplyItem]

\* The largest of S and the index so far.
MaxOf(S, least) == CHOOSE m \in S \cup {least} : \A n \in S \cup {least} : n <= m

Larger(m, n) == IF m >= n THEN m ELSE n

\* RedundancyBuffer::Add: the items travel from the next update on.
AddLate(buffer, localSequence, items) ==
  buffer \cup {[sequence |-> localSequence - 1, item |-> i] : i \in items}
Add(buffer, localSequence, items) ==
  buffer \cup {[sequence |-> localSequence, item |-> i] : i \in items}

\* RedundancyBuffer::Confirm: drop what the confirmed updates carried.
Confirm(buffer, receivedId) == {entry \in buffer : entry.sequence > receivedId}

\* The ids above the index of their kind: those not taken before.
NewIdsAndLast(ids, index) == {i \in ids : i >= index}
NewIds(ids, index) == {i \in ids : i > index}

\* The ids of one kind among reconciliation items.
IdsOf(items, k) == {i \in Id(k) : [kind |-> k, id |-> i] \in items}

\* Executing the ids of S, all of kind k, once each.
Executed(k, S) == [i \in Id(k) |-> IF i \in S THEN applied[k][i] + 1 ELSE applied[k][i]]

-----------------------------------------------------------------------------
Init ==
  /\ clientPhase = "frame" /\ established = FALSE
  /\ clientBuffer = {} /\ clientSequence = 1 /\ localActionIndex = 1
  /\ clientRemoteSequence = 0 /\ clientIndex = [k \in Reply |-> 0]
  /\ reconciliations = {} /\ clientQueue = <<>> /\ clientNodes = <<>>
  /\ serverPhase = "idle"
  /\ serverBuffer = {} /\ serverSequence = 1 /\ localCommandIndex = 1
  /\ serverRemoteSequence = 0 /\ serverActionIndex = 0 /\ actions = {}
  /\ serverQueue = <<>> /\ serverNodes = <<>>
  /\ toServer = {} /\ toClient = {}
  /\ issued = [k \in Reply |-> {}]
  /\ applied = [k \in Kind |-> [i \in Id(k) |-> 0]]

(* The wire.  A worker thread takes any update that is on it and pushes it *)
(* on the stack; an update that is never taken is lost.  DTLS discards     *)
(* replayed records, so none arrives twice.                                *)

DeliverToServer ==
  \E u \in toServer :
    /\ toServer' = toServer \ {u}
    /\ serverQueue' = <<u>> \o serverQueue
    /\ UNCHANGED <<clientVars, serverVars, clientQueue, toClient, applied>>

DeliverToClient ==
  \E u \in toClient :
    /\ toClient' = toClient \ {u}
    /\ clientQueue' = <<u>> \o clientQueue
    /\ UNCHANGED <<clientVars, serverVars, serverQueue, toServer, applied>>

-----------------------------------------------------------------------------
(* The client.  A frame runs Receive (only on a network tick), Simulate,   *)
(* Send (only on a network tick).                                          *)

\* The clock is synchronised and the server acknowledged CONNECT_DONE.
ConnectionEstablished ==
  /\ ~established
  /\ established' = TRUE
  /\ UNCHANGED <<serverVars, clientPhase, clientBuffer, clientSequence, localActionIndex,
                 clientRemoteSequence, clientIndex, reconciliations, clientNodes,
                 clientQueue, serverQueue, toServer, toClient, applied>>

\* A script makes an action during Simulate.
SendAction ==
  /\ clientPhase \in {"frame", "send"}
  /\ localActionIndex <= MaxActions
  /\ localActionIndex' = localActionIndex + 1
  /\ clientBuffer' = Add(clientBuffer, clientSequence, {localActionIndex})
  /\ UNCHANGED <<serverVars, clientPhase, established, clientSequence, clientRemoteSequence,
                 clientIndex, reconciliations, clientNodes, clientQueue, serverQueue,
                 toServer, toClient, applied>>

\* FetchUpdate takes the whole stack.
ClientConsumeAll ==
  /\ clientPhase = "frame"
  /\ clientPhase' = "fetch"
  /\ clientNodes' = clientQueue
  /\ clientQueue' = <<>>
  /\ UNCHANGED <<serverVars, established, clientBuffer, clientSequence, localActionIndex,
                 clientRemoteSequence, clientIndex, reconciliations, serverQueue,
                 toServer, toClient, applied>>

\* FetchUpdate reads one node; an update no newer than the newest is dropped.
FetchUpdate ==
  /\ clientPhase = "fetch" /\ clientNodes # <<>>
  /\ clientNodes' = Tail(clientNodes)
  /\ LET u == Head(clientNodes) IN
       IF u.sequence <= clientRemoteSequence
       THEN UNCHANGED <<reconciliations, clientBuffer, clientRemoteSequence>>
       ELSE /\ reconciliations' = reconciliations \cup {r \in u.items : r.id > clientIndex[r.kind]}
            /\ clientBuffer' = Confirm(clientBuffer, u.receivedId)
            /\ clientRemoteSequence' = u.sequence
  /\ UNCHANGED <<serverVars, clientPhase, established, clientSequence, localActionIndex,
                 clientIndex, clientQueue, serverQueue, toServer, toClient, applied>>

\* ProcessUpdate sorts the reconciliations by id and executes those above
\* the index of their kind, which follows along.
ProcessUpdate ==
  /\ clientPhase = "fetch" /\ clientNodes = <<>>
  /\ clientPhase' = "send"
  /\ clientIndex' = [k \in Reply |-> MaxOf(IdsOf(reconciliations, k), clientIndex[k])]
  /\ applied' = [k \in Kind |->
       IF k \in Reply
       THEN Executed(k, NewIds(IdsOf(reconciliations, k), clientIndex[k]))
       ELSE applied[k]]
  /\ reconciliations' = {}
  /\ UNCHANGED <<serverVars, established, clientBuffer, clientSequence, localActionIndex,
                 clientRemoteSequence, clientNodes, clientQueue, serverQueue, toServer, toClient>>

\* GameClient::Send: a clock request until the connection is established,
\* then the update that carries the whole redundancy buffer.
ClientSend ==
  /\ clientPhase = "send"
  /\ clientPhase' = "frame"
  /\ IF established
     THEN /\ clientSequence <= MaxUpdates
          /\ toServer' = toServer \cup {[sequence   |-> clientSequence,
                                         receivedId |-> clientRemoteSequence,
                                         actions    |-> {a.item : a \in clientBuffer}]}
          /\ clientSequence' = clientSequence + 1
     ELSE UNCHANGED <<toServer, clientSequence>>
  /\ UNCHANGED <<serverVars, established, clientBuffer, localActionIndex, clientRemoteSequence,
                 clientIndex, reconciliations, clientNodes, clientQueue, serverQueue,
                 toClient, applied>>

-----------------------------------------------------------------------------
(* The server.  One Tick is ServerConsumeAll, a FetchActions per node, and *)
(* ServerTick for the rest of it.                                          *)

ServerConsumeAll ==
  /\ serverPhase = "idle"
  /\ serverSequence <= MaxUpdates
  /\ serverPhase' = "fetch"
  /\ serverNodes' = serverQueue
  /\ serverQueue' = <<>>
  /\ UNCHANGED <<clientVars, serverBuffer, serverSequence, localCommandIndex,
                 serverRemoteSequence, serverActionIndex, actions, issued, clientQueue,
                 toServer, toClient, applied>>

\* FetchActions reads one node.  The predictions come in id order: those
\* above the index are queued for this tick, and stale updates are read too.
FetchActions ==
  /\ serverPhase = "fetch" /\ serverNodes # <<>>
  /\ serverNodes' = Tail(serverNodes)
  /\ LET u == Head(serverNodes) IN
       /\ actions' = actions \cup NewIds(u.actions, serverActionIndex)
       /\ serverActionIndex' = MaxOf(u.actions, serverActionIndex)
       /\ serverBuffer' = Confirm(serverBuffer, u.receivedId)
       /\ serverRemoteSequence' = Larger(serverRemoteSequence, u.sequence)
  /\ UNCHANGED <<clientVars, serverPhase, serverSequence, localCommandIndex, issued,
                 clientQueue, serverQueue, toServer, toClient, applied>>

\* HandleMovementAction, HandleFireAction and HandleSpawnAction answer their
\* action with one result, except that a FIRE with a bad direction gets none.
Answers(executed) == SUBSET executed

\* ProcessActions executes the queued actions and answers them; spawns, joins
\* and timeouts of this tick add commands; BuildServerUpdates and
\* SendServerUpdates send the whole redundancy buffer.
ServerTick ==
  /\ serverPhase = "fetch" /\ serverNodes = <<>>
  /\ serverPhase' = "idle"
  /\ actions' = {}
  /\ applied' = [applied EXCEPT !["action"] = Executed("action", actions)]
  /\ \E answered \in Answers(actions), n \in 0 .. MaxCommands + 1 - localCommandIndex :
       LET commands == localCommandIndex .. localCommandIndex + n - 1
           items    == {[kind |-> "result",  id |-> i] : i \in answered} \cup
                       {[kind |-> "command", id |-> i] : i \in commands}
       IN  /\ localCommandIndex' = localCommandIndex + n
           /\ serverBuffer' = Add(serverBuffer, serverSequence, items)
           /\ issued' = [k \in Reply |-> issued[k] \cup IdsOf(items, k)]
  /\ toClient' = toClient \cup {[sequence   |-> serverSequence,
                                 receivedId |-> serverRemoteSequence,
                                 items      |-> {e.item : e \in serverBuffer'}]}
  /\ serverSequence' = serverSequence + 1
  /\ UNCHANGED <<clientVars, serverRemoteSequence, serverActionIndex, serverNodes,
                 clientQueue, serverQueue, toServer>>

Next ==
  \/ DeliverToServer \/ DeliverToClient
  \/ ConnectionEstablished \/ SendAction
  \/ ClientConsumeAll \/ FetchUpdate \/ ProcessUpdate \/ ClientSend
  \/ ServerConsumeAll \/ FetchActions \/ ServerTick

Spec == Init /\ [][Next]_vars

-----------------------------------------------------------------------------
(* What the exchange promises. *)

\* Every variable keeps its type.
TypeOK ==
  /\ clientPhase \in {"frame", "fetch", "send"} /\ established \in BOOLEAN
  /\ clientBuffer \in SUBSET ActionEntry
  /\ clientSequence \in 1 .. MaxUpdates + 1
  /\ localActionIndex \in 1 .. MaxActions + 1
  /\ clientRemoteSequence \in 0 .. MaxUpdates
  /\ clientIndex \in [Reply -> Nat]
  /\ reconciliations \in SUBSET ReplyItem
  /\ clientQueue \in Seq(ServerUpdate) /\ clientNodes \in Seq(ServerUpdate)
  /\ serverPhase \in {"idle", "fetch"}
  /\ serverBuffer \in SUBSET ReplyEntry
  /\ serverSequence \in 1 .. MaxUpdates + 1
  /\ localCommandIndex \in 1 .. MaxCommands + 1
  /\ serverRemoteSequence \in 0 .. MaxUpdates
  /\ serverActionIndex \in 0 .. MaxActions
  /\ actions \in SUBSET Id("action")
  /\ serverQueue \in Seq(ClientUpdate) /\ serverNodes \in Seq(ClientUpdate)
  /\ toServer \in SUBSET ClientUpdate /\ toClient \in SUBSET ServerUpdate
  /\ \A k \in Reply : issued[k] \in SUBSET Id(k)
  /\ DOMAIN applied = Kind /\ \A k \in Kind : applied[k] \in [Id(k) -> Nat]

\* Whatever is lost or overtaken on the way, the server executes the actions
\* 1 .. remoteActionIndex exactly once each (those of the running tick are
\* still queued) and no other: FetchActions never skips an id.
ActionsExecutedOnce ==
  \A i \in Id("action") :
    applied["action"][i] = IF i <= serverActionIndex /\ i \notin actions THEN 1 ELSE 0

\* The client executes every result and every command the server issued up to
\* its index of that kind exactly once each, and no other: ProcessUpdate
\* never jumps over one it has not seen.
RepliesExecutedOnce ==
  \A k \in Reply : \A i \in Id(k) :
    applied[k][i] = IF i \in issued[k] /\ i <= clientIndex[k] THEN 1 ELSE 0

\* Components.h on RedundancyBuffer: "This includes every action or result
\* that is not handled yet".  Confirm never drops an action the server has not
\* executed, nor a result or command the client has not.
UnhandledIsBuffered ==
  /\ \A i \in 1 .. localActionIndex - 1 :
        applied["action"][i] = 0 => \E a \in clientBuffer : a.item = i
  /\ \A k \in Reply : \A i \in issued[k] :
        applied[k][i] = 0 => \E e \in serverBuffer : e.item = [kind |-> k, id |-> i]

\* A confirmation is never early: an update on its way to a peer confirms only
\* entries of that peer's buffer which were executed here.
ConfirmationIsEarned ==
  /\ \A u \in toClient, a \in clientBuffer :
        a.sequence <= u.receivedId => applied["action"][a.item] = 1
  /\ \A u \in toServer, e \in serverBuffer :
        e.sequence <= u.receivedId => applied[e.item.kind][e.item.id] = 1

\* Each of the three streams is a reliable stream: issued in order, executed
\* in order, nothing skipped, nothing twice.
Actions  == INSTANCE ReliableStream WITH
              Ids <- Id("action"), issued <- 1 .. localActionIndex - 1,
              executed <- applied["action"]
Results  == INSTANCE ReliableStream WITH
              Ids <- Id("result"), issued <- issued["result"], executed <- applied["result"]
Commands == INSTANCE ReliableStream WITH
              Ids <- Id("command"), issued <- issued["command"], executed <- applied["command"]

\* The actions of the client reach the server as a reliable stream, and the
\* results and the commands of the server reach the client as two more.
StreamsAreReliable == Actions!Spec /\ Results!Spec /\ Commands!Spec

=============================================================================
