------------------------- MODULE GameServerPlayers ---------------------------
(***************************************************************************)
(* The players of a GameServer: their connections, their state, the actors *)
(* of their avatars in the PhysX scene, and the objects the commands tell  *)
(* each client to show.                                                    *)
(*                                                                         *)
(* All of it happens on the game thread, one handler after the other, but  *)
(* in any order clients, timeouts and shots bring about.  Commands reach a *)
(* client reliably and in order (see GameUpdates), so `remote' is taken as *)
(* what the client shows once it has executed those issued so far.         *)
(***************************************************************************)
EXTENDS Naturals, FiniteSets

CONSTANT MaxPlayers       \* bound: connections ever made
ASSUME MaxPlayersAssumption == MaxPlayers \in Nat

Players == 1..MaxPlayers  \* Connection::id, handed out in order
SCOREBOARD == 0           \* owner of the scoreboard

VARIABLES
  connection,   \* "none", ConnectionState, or "gone" after DisconnectPlayer
  filters,      \* connections whose ServerClockSyncRequestFilter waits
  state,        \* Network::state, the PlayerState on the server
  actors,       \* avatars whose actor is in pxScene
  objectId,     \* Network::id
  nextGameObjectId,
  remote        \* remoteObjects of each client

vars == <<connection, filters, state, actors, objectId, nextGameObjectId, remote>>

Connections == {c \in Players : connection[c] \in {"SYNCHRONIZING", "ESTABLISHED"}}
Object(owner, id) == [owner |-> owner, id |-> id]

(* GameServer::Start: the scoreboard is object 1.                          *)
Init ==
  /\ connection = [c \in Players |-> "none"]
  /\ filters = {} /\ actors = {}
  /\ state = [c \in Players |-> "SPECTATOR"]
  /\ objectId = [c \in Players |-> 0]
  /\ nextGameObjectId = 2
  /\ remote = [c \in Players |-> {}]

(* A connect request: the new avatar's actor leaves the scene at once.     *)
OnPlayerConnected(c) ==
  /\ connection[c] = "none"
  /\ \A d \in Players : d < c => connection[d] # "none"
  /\ connection' = [connection EXCEPT ![c] = "SYNCHRONIZING"]
  /\ filters' = filters \cup {c}
  /\ UNCHANGED <<state, actors, objectId, nextGameObjectId, remote>>

(* ProcessCommand for CREATE_OBJECT; the client's own avatar exists.       *)
Show(c, o) == IF o.owner = c THEN remote[c] ELSE remote[c] \cup {o}

JoinShowsSpawned(c) ==
  UNION {Show(c, Object(p, objectId[p])) : p \in {q \in Connections : connection[q] = "ESTABLISHED"}}

(* OnPlayerJoined: an object for every connection, spawned or not.         *)
JoinShows(c) ==
  (UNION {Show(c, Object(p, objectId[p])) : p \in Connections}) \cup {Object(SCOREBOARD, 1)}

(* CONNECT_DONE reaches the filter.                                        *)
OnPlayerJoined(c) ==
  /\ c \in filters \cap Connections
  /\ connection' = [connection EXCEPT ![c] = "ESTABLISHED"]
  /\ filters' = filters \ {c}
  /\ remote' = [remote EXCEPT ![c] = @ \cup JoinShows(c)]
  /\ UNCHANGED <<state, actors, objectId, nextGameObjectId>>

(* The filter is dropped after 10 s: this connection never joins.          *)
FilterTimesOut(c) ==
  /\ c \in filters \cap Connections
  /\ filters' = filters \ {c}
  /\ UNCHANGED <<connection, state, actors, objectId, nextGameObjectId, remote>>

(* HandleSpawnAction, perhaps before the player's CONNECT_DONE is          *)
(* processed: FetchActions runs first.                                     *)
HandleSpawnAction(c) ==
  /\ c \in Connections /\ state[c] # "ALIVE"
  /\ state' = [state EXCEPT ![c] = "ALIVE"]
  /\ actors' = actors \cup {c}
  /\ objectId' = [objectId EXCEPT ![c] = nextGameObjectId]
  /\ nextGameObjectId' = nextGameObjectId + 1
  /\ remote' = [d \in Players |-> IF d \in Connections THEN Show(d, Object(c, nextGameObjectId)) ELSE remote[d]]
  /\ UNCHANGED <<connection, filters>>

(* The first half of a shot takes the shooter out of the scene, and those  *)
(* without a frame, or with a dead one, at the time of the shot.  (Others  *)
(* are moved to where they were.)                                          *)
Hidden(c, missing) == {c} \cup missing

RestoredShooterOnly(c, missing) == {c}

(* The second half puts back whoever is DISABLED.                          *)
Restored(c, missing) == {p \in Connections : p \in Hidden(c, missing) \/ state[p] = "DISABLED"}

(* HandleFireAction.  Nothing happens to a shooter who is not alive or is  *)
(* alone.                                                                  *)
HandleFireAction(c, missing) ==
  /\ c \in Connections /\ state[c] = "ALIVE"
  /\ Cardinality(Connections) > 1
  /\ missing \subseteq {p \in Connections \ {c} : state[p] \in {"ALIVE", "DISABLED"}}
  /\ actors' = (actors \ Hidden(c, missing)) \cup Restored(c, missing)
  /\ state' = [p \in Players |-> IF p \in Restored(c, missing) THEN "ALIVE"
                                 ELSE IF p \in Hidden(c, missing) THEN "DISABLED" ELSE state[p]]
  /\ UNCHANGED <<connection, filters, objectId, nextGameObjectId, remote>>

(* RemoveRemoteObjectsByOwner.                                             *)
Without(objects, owners) == {o \in objects : o.owner \notin owners}

(* CheckTimeouts: PLAYER_TIMEDOUT to all that stay, then DisconnectPlayer  *)
(* for each.  Any connections may be silent for 5 s.                       *)
CheckTimeouts(timeouts) ==
  /\ timeouts # {} /\ timeouts \subseteq Connections
  /\ remote' = [d \in Players |-> IF d \in Connections \ timeouts THEN Without(remote[d], timeouts)
                                                                  ELSE remote[d]]
  /\ connection' = [c \in Players |-> IF c \in timeouts THEN "gone" ELSE connection[c]]
  /\ actors' = actors \ timeouts
  /\ filters' = filters \ timeouts
  /\ UNCHANGED <<state, objectId, nextGameObjectId>>

Next ==
  \/ \E c \in Players : OnPlayerConnected(c) \/ OnPlayerJoined(c) \/ FilterTimesOut(c) \/ HandleSpawnAction(c)
  \/ \E c \in Players, missing \in SUBSET Players : HandleFireAction(c, missing)
  \/ \E timeouts \in SUBSET Players : CheckTimeouts(timeouts)

Spec == Init /\ [][Next]_vars

------------------------------------------------------------------------------
(* After every handler the scene holds exactly the avatars of connected,   *)
(* living players: adds and removes of spawns, shots and timeouts balance, *)
(* and no shot leaves anyone hidden.                                       *)
SceneMatchesPlayers ==
  /\ actors = {c \in Connections : state[c] = "ALIVE"}
  /\ \A c \in Connections : state[c] # "DISABLED"

(* Every joined client is told of every living player under its present    *)
(* id, whether it joined before or after that player spawned, and of none  *)
(* that is gone.                                                           *)
ClientsShowThePlayers ==
  \A c \in Connections :
    /\ \A o \in remote[c] : o.owner \in (Connections \ {c}) \cup {SCOREBOARD}
    /\ connection[c] = "ESTABLISHED" =>
         \A p \in Connections \ {c} : state[p] = "ALIVE" => Object(p, objectId[p]) \in remote[c]
==============================================================================
