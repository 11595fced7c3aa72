--------------------------- MODULE ComponentsProofs ---------------------------
(***************************************************************************)
(* Proofs about the components of MCComponents, each of its own            *)
(* specification and for every value of its constants.                     *)
(***************************************************************************)
EXTENDS MCComponents, DataLemmas

-------------------------------------------------------------------------------
(* Keyboard.                                                               *)

\* What the keys with one code have to do with what is held.
CodeFollows(code, held) ==
  Keys!Listed(code) => (Keys!SameCode(code) \cap pressed = {} <=> Keys!SameCode(code) \cap held = {})

\* A message presses or releases the key it names, so a key of another name
\* is pressed only if the last focus found it held.
KeyboardInv ==
  /\ focused \in BOOLEAN /\ down \subseteq VirtualKeys /\ pressed \subseteq VirtualKeys
  /\ modifiers = Keys!ModifiersOf(pressed)
  /\ reflected = {k \in pressed \ Unlisted : Keys!TranslateVirtualKey(k) # k}
  /\ focused => \A code \in VirtualKeys \ doubtful : CodeFollows(code, down)
  /\ edge \ Unlisted \subseteq heard

(* The key a message names names itself, and its keys are no other code's. *)
LEMMA Codes ==
  ASSUME NEW k \in VirtualKeys, NEW code, code = Keys!TranslateVirtualKey(k)
  PROVE  /\ code \in VirtualKeys /\ Keys!TranslateVirtualKey(code) = code
         /\ k \in Keys!SameCode(code) /\ code \in Keys!SameCode(code)
         /\ \A other : other # code => k \notin Keys!SameCode(other) /\ code \notin Keys!SameCode(other)
<1>1. code \in VirtualKeys
  BY KeyboardAssumption
<1>2. Keys!TranslateVirtualKey(code) = code
  BY DEF Keys!TranslateVirtualKey
<1> QED BY <1>1, <1>2 DEF Keys!SameCode

(* At first what is held is what the keyboard state says.                  *)
LEMMA KeyboardInit == Keys!Init => KeyboardInv
BY DEF KeyboardInv, CodeFollows, Keys!Listed, Keys!Init

(* A message about one key leaves those of other codes as they are.        *)
LEMMA DispatchKeeps ==
  ASSUME KeyboardInv, NEW k \in VirtualKeys, NEW isPressed \in BOOLEAN, NEW held,
         focused, UNCHANGED <<focused, reflected>>,
         down' = IF isPressed THEN down \cup {k} ELSE down \ {k},
         Keys!Dispatch(k, isPressed, held)
  PROVE  KeyboardInv'
<1>1. PICK code : code = Keys!TranslateVirtualKey(k)
  OBVIOUS
<1>2. /\ code \in VirtualKeys /\ Keys!TranslateVirtualKey(code) = code
      /\ k \in Keys!SameCode(code) /\ code \in Keys!SameCode(code)
      /\ \A other : other # code => k \notin Keys!SameCode(other) /\ code \notin Keys!SameCode(other)
  BY <1>1, Codes
<1>3. down' \subseteq VirtualKeys
  BY DEF KeyboardInv
<1>4. CASE Keys!IsSystemKey(k, held) /\ k \notin Keys!KeysOf("ALT") \cup Keys!KeysOf("CONTROL")
  <2>1. /\ UNCHANGED <<pressed, edge, modifiers, heard>>
        /\ doubtful' = IF down' = down THEN doubtful ELSE doubtful \cup {code}
    BY <1>1, <1>4, Zenon DEF Keys!Dispatch
  <2>2. ASSUME NEW other \in VirtualKeys \ doubtful' PROVE CodeFollows(other, down)' 
    <3>1. CodeFollows(other, down)
      BY <2>1, <2>2 DEF KeyboardInv
    <3>2. Keys!SameCode(other) \cap down' = Keys!SameCode(other) \cap down
      BY <1>2, <2>1, <2>2
    <3> QED BY <2>1, <3>1, <3>2 DEF CodeFollows, Keys!Listed
  <2> QED BY <1>3, <2>1, <2>2 DEF KeyboardInv
<1>5. CASE ~ (Keys!IsSystemKey(k, held) /\ k \notin Keys!KeysOf("ALT") \cup Keys!KeysOf("CONTROL"))
  <2>1. /\ Keys!ProcessKeyEvent(code, isPressed)
        /\ doubtful' = IF isPressed \/ Keys!SameCode(code) \cap (down' \cup reflected) = {}
                       THEN doubtful \ {code} ELSE doubtful \cup {code}
    BY <1>1, <1>5, Zenon DEF Keys!Dispatch
  <2>2. /\ pressed' = IF isPressed THEN pressed \cup {code} ELSE pressed \ {code}
        /\ modifiers' = Keys!ModifiersOf(pressed')
        /\ edge' \subseteq edge \cup {code} /\ heard' = heard \cup {code}
    BY <2>1 DEF Keys!ProcessKeyEvent
  <2>3. reflected' = {x \in pressed' \ Unlisted : Keys!TranslateVirtualKey(x) # x}
    BY <1>2, <2>2 DEF KeyboardInv
  <2>4. ASSUME NEW other \in VirtualKeys \ doubtful', other # code PROVE CodeFollows(other, down)'
    <3>1. CodeFollows(other, down)
      BY <2>1, <2>4 DEF KeyboardInv
    <3>2. /\ Keys!SameCode(other) \cap down' = Keys!SameCode(other) \cap down
          /\ Keys!SameCode(other) \cap pressed' = Keys!SameCode(other) \cap pressed
      BY <1>2, <2>2, <2>4
    <3> QED BY <3>1, <3>2 DEF CodeFollows, Keys!Listed
  <2>5. ASSUME code \notin doubtful' PROVE CodeFollows(code, down)'
    <3>1. CASE isPressed
      BY <1>2, <2>2, <3>1 DEF CodeFollows
    <3>2. CASE ~ isPressed
      <4>1. Keys!SameCode(code) \cap (down' \cup reflected) = {}
        BY <2>1, <2>5, <3>2
      <4>2. ASSUME Keys!Listed(code), NEW x \in Keys!SameCode(code) \cap pressed' PROVE FALSE
        <5>1. x \in pressed \ Unlisted /\ Keys!TranslateVirtualKey(x) # x
          BY <2>2, <3>2, <4>2 DEF Keys!Listed, Keys!SameCode
        <5>2. x \in reflected
          BY <5>1, Zenon DEF KeyboardInv
        <5>3. x \in Keys!SameCode(code) \cap (down' \cup reflected)
          BY <4>2, <5>2
        <5> QED BY <4>1, <5>3
      <4> QED BY <4>1, <4>2 DEF CodeFollows
    <3> QED BY <3>1, <3>2
  <2> QED BY <1>3, <2>2, <2>3, <2>4, <2>5, <1>2 DEF KeyboardInv
<1> QED BY <1>4, <1>5

(* ReflectKeyboardState sets every listed key as it is held.               *)
LEMMA ReflectKeeps ==
  ASSUME KeyboardInv, focused' \in BOOLEAN, Keys!ReflectKeyboardState
  PROVE  KeyboardInv'
<1>1. /\ pressed' = (pressed \cap Unlisted) \cup (down \ Unlisted)
      /\ modifiers' = Keys!ModifiersOf(pressed')
      /\ reflected' = {k \in down \ Unlisted : Keys!TranslateVirtualKey(k) # k}
      /\ UNCHANGED <<down, edge, heard>>
  BY Zenon DEF Keys!ReflectKeyboardState, Keys!Reflected
<1>2. ASSUME NEW code \in VirtualKeys PROVE CodeFollows(code, down)'
  BY <1>1 DEF CodeFollows, Keys!Listed
<1>3. pressed' \ Unlisted = down \ Unlisted
  BY <1>1
<1> QED BY <1>1, <1>2, <1>3 DEF KeyboardInv

(* No message, loss of focus or frame breaks the invariant.                *)
LEMMA KeyboardStep == KeyboardInv /\ [Keys!Next]_(Keys!keyVars) => KeyboardInv'
<1> SUFFICES ASSUME KeyboardInv, [Keys!Next]_(Keys!keyVars) PROVE KeyboardInv'
  OBVIOUS
<1>1. ASSUME NEW k \in VirtualKeys, Keys!KeyDown(k) PROVE KeyboardInv'
  BY <1>1, DispatchKeeps, Zenon DEF Keys!KeyDown
<1>2. ASSUME NEW k \in VirtualKeys, Keys!KeyUp(k) PROVE KeyboardInv'
  BY <1>2, DispatchKeeps, Zenon DEF Keys!KeyUp
<1>3. ASSUME NEW k \in VirtualKeys, Keys!Elsewhere(k) PROVE KeyboardInv'
  BY <1>3 DEF KeyboardInv, Keys!Elsewhere
<1>4. CASE Keys!KillFocus
  BY <1>4, ReflectKeeps DEF Keys!KillFocus
<1>5. CASE Keys!SetFocus
  BY <1>5, ReflectKeeps DEF Keys!SetFocus
<1>6. CASE Keys!CompleteFrame
  BY <1>6 DEF KeyboardInv, CodeFollows, Keys!CompleteFrame
<1>7. CASE UNCHANGED Keys!keyVars
  BY <1>7 DEF KeyboardInv, CodeFollows, Keys!keyVars
<1> QED
  BY <1>1, <1>2, <1>3, <1>4, <1>5, <1>6, <1>7 DEF Keys!Next

(* The keys of a modifier have one code, or each its own.                  *)
LEMMA ModifiersFollow ==
  ASSUME KeyboardInv, focused, NEW m \in Keys!Modifiers, Keys!KeysOf(m) \cap doubtful = {}
  PROVE  m \in modifiers <=> Keys!KeysOf(m) \cap down # {}
<1>1. ASSUME NEW k \in Keys!KeysOf(m) \cap VirtualKeys
      PROVE  /\ Keys!TranslateVirtualKey(k) \in (VirtualKeys \ doubtful) \cap Keys!KeysOf(m)
             /\ Keys!Listed(Keys!TranslateVirtualKey(k)) /\ k \in Keys!SameCode(Keys!TranslateVirtualKey(k))
             /\ Keys!SameCode(Keys!TranslateVirtualKey(k)) \subseteq Keys!KeysOf(m)
  <2>1. PICK code : code = Keys!TranslateVirtualKey(k)
    OBVIOUS
  <2>2. code \in VirtualKeys /\ Keys!TranslateVirtualKey(code) = code /\ k \in Keys!SameCode(code)
    BY <2>1, Codes
  <2>3. code \in Keys!KeysOf(m)
    BY <1>1, <2>1 DEF Keys!TranslateVirtualKey, Keys!KeysOf, Keys!Modifiers
  <2>4. Keys!SameCode(code) \subseteq Keys!KeysOf(m)
    BY <2>3 DEF Keys!SameCode, Keys!TranslateVirtualKey, Keys!KeysOf, Keys!Modifiers
  <2>5. Keys!Listed(code)
    BY <2>2, <2>4, KeyboardAssumption DEF Keys!Listed
  <2> QED BY <2>1, <2>2, <2>3, <2>4, <2>5
<1>2. m \in modifiers <=> Keys!KeysOf(m) \cap pressed # {}
  BY DEF KeyboardInv, Keys!ModifiersOf
<1>3. ASSUME NEW k \in Keys!KeysOf(m) \cap pressed PROVE Keys!KeysOf(m) \cap down # {}
  BY <1>1, <1>3 DEF KeyboardInv, CodeFollows
<1>4. ASSUME NEW k \in Keys!KeysOf(m) \cap down PROVE Keys!KeysOf(m) \cap pressed # {}
  BY <1>1, <1>4 DEF KeyboardInv, CodeFollows
<1> QED BY <1>2, <1>3, <1>4

(* Keys and modifiers are pressed while one of their keys is held, where   *)
(* the last message of the code was heard and leaves no doubt: through any *)
(* presses, losses of focus and frames, for any keyboard.                  *)
THEOREM KeysAreFollowed == Keys!Spec => []KeysFollowTheKeyboard
<1>1. KeyboardInv => KeysFollowTheKeyboard
  BY ModifiersFollow DEF KeyboardInv, CodeFollows, KeysFollowTheKeyboard, Keys!KeysFollowTheKeyboard
<1> QED
  BY <1>1, KeyboardInit, KeyboardStep, PTL DEF Keys!Spec
-------------------------------------------------------------------------------
(* GameServerPlayers.                                                      *)

\* Who has not connected yet has neither spawned nor been told anything.
Unconnected ==
  \A c \in Players : connection[c] = "none" => state[c] = "SPECTATOR" /\ remote[c] = {}

PlayersType ==
  /\ connection \in [Players -> {"none", "SYNCHRONIZING", "ESTABLISHED", "gone"}]
  /\ state \in [Players -> {"SPECTATOR", "ALIVE", "DISABLED"}]
  /\ DOMAIN objectId = Players
  /\ DOMAIN remote = Players

PlayersInv == PlayersType /\ Unconnected /\ SceneMatchesPlayers /\ ClientsShowThePlayers

\* What one client must know, the body of ClientsShowThePlayers.
OwnersAreOthers(c) == \A o \in remote[c] : o.owner \in (Connections \ {c}) \cup {SCOREBOARD}
ShowsTheLiving(c) ==
  connection[c] = "ESTABLISHED" =>
    \A p \in Connections \ {c} : state[p] = "ALIVE" => Object(p, objectId[p]) \in remote[c]

(* What a client shows, client by client.                                  *)
LEMMA ClientsSplit ==
  ClientsShowThePlayers <=> \A c \in Connections : OwnersAreOthers(c) /\ ShowsTheLiving(c)
BY DEF ClientsShowThePlayers, OwnersAreOthers, ShowsTheLiving

LEMMA ClientsSplitNext ==
  ClientsShowThePlayers' <=>
    \A c \in Connections' : OwnersAreOthers(c)' /\ ShowsTheLiving(c)'
BY DEF ClientsShowThePlayers, OwnersAreOthers, ShowsTheLiving

(* OnPlayerConnected: a connection without a player in the scene.          *)
LEMMA ConnectedKeeps ==
  ASSUME PlayersInv, NEW c \in Players, OnPlayerConnected(c) PROVE PlayersInv'
<1> USE DEF PlayersInv, PlayersType
<1>1. connection' = [connection EXCEPT ![c] = "SYNCHRONIZING"] /\ connection[c] = "none"
  BY DEF OnPlayerConnected
<1>2. UNCHANGED <<state, actors, objectId, nextGameObjectId, remote>>
  BY DEF OnPlayerConnected
<1>3. PlayersType' /\ Unconnected'
  BY <1>1, <1>2 DEF Unconnected
<1>4. Connections' = Connections \cup {c} /\ c \notin Connections
  BY <1>1 DEF Connections
<1>5. state[c] = "SPECTATOR" /\ remote[c] = {}
  BY <1>1 DEF Unconnected
<1>6. SceneMatchesPlayers'
  BY <1>2, <1>4, <1>5 DEF SceneMatchesPlayers
<1>7. ASSUME NEW d \in Connections' PROVE OwnersAreOthers(d)' /\ ShowsTheLiving(d)'
  <2>1. CASE d = c
    BY <2>1, <1>1, <1>2, <1>5 DEF OwnersAreOthers, ShowsTheLiving
  <2>2. CASE d # c
    <3>1. d \in Connections /\ connection'[d] = connection[d]
      BY <2>2, <1>4, <1>1 DEF Connections
    <3>2. OwnersAreOthers(d) /\ ShowsTheLiving(d)
      BY <3>1, ClientsSplit
    <3>3. OwnersAreOthers(d)'
      BY <3>2, <1>2, <1>4, <2>2 DEF OwnersAreOthers
    <3>4. ShowsTheLiving(d)'
      BY <3>1, <3>2, <1>2, <1>4, <1>5 DEF ShowsTheLiving, Object
    <3> QED
      BY <3>3, <3>4
  <2> QED
    BY <2>1, <2>2
<1> QED
  BY <1>3, <1>6, <1>7, ClientsSplitNext

(* A joining client is told of everybody else, and keeps what it shows.    *)
LEMMA JoinShowsProperties ==
  ASSUME NEW c \in Connections
  PROVE  /\ \A o \in JoinShows(c) : o.owner \in (Connections \ {c}) \cup {SCOREBOARD}
                                    \/ o \in remote[c]
         /\ \A p \in Connections \ {c} : Object(p, objectId[p]) \in JoinShows(c)
<1>1. ASSUME NEW o \in JoinShows(c), o \notin remote[c]
      PROVE  o.owner \in (Connections \ {c}) \cup {SCOREBOARD}
  <2>1. CASE o = Object(SCOREBOARD, 1)
    BY <2>1 DEF Object
  <2>2. CASE \E p \in Connections : o \in Show(c, Object(p, objectId[p]))
    <3>1. PICK p \in Connections : o \in Show(c, Object(p, objectId[p]))
      BY <2>2
    <3>2. p # c /\ o = Object(p, objectId[p])
      BY <3>1, <1>1 DEF Show, Object
    <3> QED
      BY <3>2 DEF Object
  <2>3. o = Object(SCOREBOARD, 1) \/ \E p \in Connections : o \in Show(c, Object(p, objectId[p]))
    <3> DEFINE shown == {Show(c, Object(p, objectId[p])) : p \in Connections}
    <3>1. JoinShows(c) = (UNION shown) \cup {Object(SCOREBOARD, 1)}
      BY DEF JoinShows
    <3>2. o \in UNION shown => \E S \in shown : o \in S
      OBVIOUS
    <3> QED
      BY <1>1, <3>1, <3>2
  <2> QED
    BY <2>1, <2>2, <2>3
<1>2. ASSUME NEW p \in Connections \ {c} PROVE Object(p, objectId[p]) \in JoinShows(c)
  <2>1. Object(p, objectId[p]) \in Show(c, Object(p, objectId[p]))
    BY DEF Show, Object
  <2> QED
    BY <2>1 DEF JoinShows
<1> QED
  BY <1>1, <1>2

(* OnPlayerJoined tells the newcomer of the others and the others of it.   *)
LEMMA JoinedKeeps ==
  ASSUME PlayersInv, NEW c \in Players, OnPlayerJoined(c) PROVE PlayersInv'
<1> USE DEF PlayersInv, PlayersType
<1>1. /\ c \in Connections
      /\ connection' = [connection EXCEPT ![c] = "ESTABLISHED"]
      /\ remote' = [remote EXCEPT ![c] = @ \cup JoinShows(c)]
  BY DEF OnPlayerJoined
<1>2. UNCHANGED <<state, actors, objectId, nextGameObjectId>>
  BY DEF OnPlayerJoined
<1>3. connection[c] # "none"
  BY <1>1 DEF Connections
<1>4. PlayersType' /\ Unconnected'
  BY <1>1, <1>2, <1>3 DEF Unconnected
<1>5. Connections' = Connections
  BY <1>1 DEF Connections
<1>6. SceneMatchesPlayers'
  BY <1>2, <1>5 DEF SceneMatchesPlayers
<1>7. ASSUME NEW d \in Connections' PROVE OwnersAreOthers(d)' /\ ShowsTheLiving(d)'
  <2>1. OwnersAreOthers(d) /\ ShowsTheLiving(d) /\ d \in Connections /\ d \in Players
    BY <1>5, <1>7, ClientsSplit DEF Connections
  <2>2. CASE d = c
    <3>1. remote'[d] = remote[d] \cup JoinShows(d)
      BY <2>1, <2>2, <1>1
    <3>2. OwnersAreOthers(d)'
      BY <2>1, <3>1, <1>5, JoinShowsProperties DEF OwnersAreOthers
    <3>3. ShowsTheLiving(d)'
      BY <2>1, <3>1, <1>2, <1>5, JoinShowsProperties DEF ShowsTheLiving, Object
    <3> QED
      BY <3>2, <3>3
  <2>3. CASE d # c
    BY <2>1, <2>3, <1>1, <1>2, <1>5 DEF OwnersAreOthers, ShowsTheLiving, Object
  <2> QED
    BY <2>2, <2>3
<1> QED
  BY <1>4, <1>6, <1>7, ClientsSplitNext

(* HandleSpawnAction puts a player into the scene at most once.            *)
LEMMA SpawnKeeps ==
  ASSUME PlayersInv, NEW c \in Players, HandleSpawnAction(c) PROVE PlayersInv'
<1> USE DEF PlayersInv, PlayersType
<1> DEFINE spawned == Object(c, nextGameObjectId)
<1>1. /\ c \in Connections /\ actors' = actors \cup {c}
      /\ state' = [state EXCEPT ![c] = "ALIVE"]
      /\ objectId' = [objectId EXCEPT ![c] = nextGameObjectId]
      /\ remote' = [d \in Players |-> IF d \in Connections THEN Show(d, spawned) ELSE remote[d]]
      /\ UNCHANGED connection
  BY DEF HandleSpawnAction
<1>2. Connections' = Connections
  BY <1>1 DEF Connections
<1>3. PlayersType' /\ Unconnected'
  <2>1. \A d \in Players : connection[d] = "none" => d \notin Connections
    BY DEF Connections
  <2> QED
    BY <1>1, <2>1 DEF Unconnected
<1>4. SceneMatchesPlayers'
  BY <1>1, <1>2 DEF SceneMatchesPlayers, Connections
<1>5. ASSUME NEW d \in Connections' PROVE OwnersAreOthers(d)' /\ ShowsTheLiving(d)'
  <2>1. OwnersAreOthers(d) /\ ShowsTheLiving(d) /\ d \in Connections /\ d \in Players
    BY <1>2, <1>5, ClientsSplit DEF Connections
  <2>2. remote'[d] = Show(d, spawned) /\ spawned.owner = c
    BY <1>1, <2>1 DEF Object
  <2>3. OwnersAreOthers(d)'
    BY <1>1, <1>2, <2>1, <2>2 DEF OwnersAreOthers, Show
  <2>4. remote[d] \subseteq remote'[d] /\ (c # d => spawned \in remote'[d])
    BY <2>2 DEF Show
  <2>5. ShowsTheLiving(d)'
    <3> SUFFICES ASSUME connection'[d] = "ESTABLISHED", NEW p \in Connections' \ {d},
                        state'[p] = "ALIVE"
                 PROVE  Object(p, objectId'[p]) \in remote'[d]
      BY DEF ShowsTheLiving, Object
    <3>1. p \in Players
      BY DEF Connections
    <3>2. CASE p = c
      BY <3>1, <3>2, <2>4, <1>1
    <3>3. CASE p # c
      <4>1. state[p] = "ALIVE" /\ objectId'[p] = objectId[p] /\ p \in Connections \ {d}
        BY <3>1, <3>3, <1>1, <1>2
      <4> QED
        BY <4>1, <2>1, <2>4, <1>1 DEF ShowsTheLiving
    <3> QED
      BY <3>2, <3>3
  <2> QED
    BY <2>3, <2>5
<1> QED
  BY <1>3, <1>4, <1>5, ClientsSplitNext

\* Nobody is DISABLED between handlers, so a shot puts back exactly whom it
\* has hidden: state and scene are what they were.
LEMMA FireChangesNothing ==
  ASSUME PlayersInv, NEW c \in Players, NEW missing \in SUBSET Players,
         HandleFireAction(c, missing)
  PROVE  UNCHANGED <<connection, state, actors, objectId, remote>>
<1> USE DEF PlayersInv, PlayersType
<1>1. /\ c \in Connections /\ state[c] = "ALIVE"
      /\ missing \subseteq {p \in Connections \ {c} : state[p] \in {"ALIVE", "DISABLED"}}
  BY DEF HandleFireAction
<1>2. Hidden(c, missing) \subseteq Connections /\ \A p \in Hidden(c, missing) : state[p] = "ALIVE"
  BY <1>1 DEF Hidden, SceneMatchesPlayers
<1>3. Restored(c, missing) = Hidden(c, missing)
  BY <1>2 DEF Restored, SceneMatchesPlayers
<1>4. actors' = actors
  BY <1>2, <1>3 DEF HandleFireAction, SceneMatchesPlayers
<1>5. state' = state
  <2>1. state' = [p \in Players |-> IF p \in Hidden(c, missing) THEN "ALIVE" ELSE state[p]]
    BY <1>3 DEF HandleFireAction
  <2> QED
    BY <2>1, <1>2
<1> QED
  BY <1>4, <1>5 DEF HandleFireAction

(* CheckTimeouts takes those who leave out of scene and clients alike.     *)
LEMMA TimeoutsKeep ==
  ASSUME PlayersInv, NEW timeouts \in SUBSET Players, CheckTimeouts(timeouts)
  PROVE  PlayersInv'
<1> USE DEF PlayersInv, PlayersType
<1>1. /\ timeouts \subseteq Connections
      /\ remote' = [d \in Players |-> IF d \in Connections \ timeouts
                                      THEN Without(remote[d], timeouts) ELSE remote[d]]
      /\ connection' = [d \in Players |-> IF d \in timeouts THEN "gone" ELSE connection[d]]
      /\ actors' = actors \ timeouts
      /\ UNCHANGED <<state, objectId>>
  BY DEF CheckTimeouts
<1>2. Connections' = Connections \ timeouts
  BY <1>1 DEF Connections
<1>3. PlayersType'
  BY <1>1
<1>4. Unconnected'
  <2>1. \A d \in Players : connection[d] = "none" => d \notin Connections
    BY DEF Connections
  <2> QED
    BY <1>1, <2>1 DEF Unconnected
<1>5. SceneMatchesPlayers'
  BY <1>1, <1>2 DEF SceneMatchesPlayers
<1>6. ASSUME NEW d \in Connections' PROVE OwnersAreOthers(d)' /\ ShowsTheLiving(d)'
  <2>1. d \in Connections \ timeouts /\ d \in Players
    BY <1>2, <1>6 DEF Connections
  <2>2. OwnersAreOthers(d) /\ ShowsTheLiving(d) /\ connection'[d] = connection[d]
    BY <2>1, <1>1, ClientsSplit
  <2>3. remote'[d] = {o \in remote[d] : o.owner \notin timeouts}
    BY <2>1, <1>1 DEF Without
  <2>4. OwnersAreOthers(d)'
    BY <2>2, <2>3, <1>2 DEF OwnersAreOthers
  <2>5. \A p : Object(p, objectId[p]).owner = p
    BY DEF Object
  <2>6. ShowsTheLiving(d)'
    BY <2>2, <2>3, <2>5, <1>1, <1>2 DEF ShowsTheLiving, Object
  <2> QED
    BY <2>4, <2>6
<1> QED
  BY <1>3, <1>4, <1>5, <1>6, ClientsSplitNext

(* Nobody is connected at first.                                           *)
LEMMA PlayersInit == Init => PlayersInv
BY DEF Init, PlayersInv, PlayersType, Unconnected, SceneMatchesPlayers, ClientsShowThePlayers,
       Connections

\* The invariant reads five of the variables.
LEMMA PlayersUnchanged ==
  PlayersInv /\ UNCHANGED <<connection, state, actors, objectId, remote>> => PlayersInv'
BY DEF PlayersInv, PlayersType, Unconnected, SceneMatchesPlayers, ClientsShowThePlayers,
       Connections, Object

(* No handler breaks the invariant.                                        *)
LEMMA PlayersStep == PlayersInv /\ [Next]_vars => PlayersInv'
<1> SUFFICES ASSUME PlayersInv, [Next]_vars PROVE PlayersInv'
  OBVIOUS
<1>1. ASSUME NEW c \in Players, FilterTimesOut(c) PROVE PlayersInv'
  BY <1>1, PlayersUnchanged DEF FilterTimesOut
<1>2. ASSUME NEW c \in Players, NEW missing \in SUBSET Players, HandleFireAction(c, missing)
      PROVE  PlayersInv'
  BY <1>2, FireChangesNothing, PlayersUnchanged
<1>3. CASE UNCHANGED vars
  BY <1>3, PlayersUnchanged DEF vars
<1> QED
  BY <1>1, <1>2, <1>3, ConnectedKeeps, JoinedKeeps, SpawnKeeps, TimeoutsKeep DEF Next

(* After every handler the scene holds exactly the living players: for any *)
(* number of connections, spawns, shots and timeouts.                      *)
THEOREM SceneIsMatched == Spec => []SceneMatchesPlayers
<1>1. PlayersInv => SceneMatchesPlayers
  BY DEF PlayersInv
<1> QED
  BY <1>1, PlayersInit, PlayersStep, PTL DEF Spec

(* Every joined client shows every living player under its present id, and *)
(* nobody who is gone.                                                     *)
THEOREM ClientsAreToldOfPlayers == Spec => []ClientsShowThePlayers
<1>1. PlayersInv => ClientsShowThePlayers
  BY DEF PlayersInv
<1> QED
  BY <1>1, PlayersInit, PlayersStep, PTL DEF Spec

(* A shot leaves every player as it was, in state and in the scene,        *)
(* whatever is missing from the history of the others.                     *)
THEOREM ShotsLeaveThePlayers ==
  Spec => [][\A c \in Players, missing \in SUBSET Players :
               HandleFireAction(c, missing) => UNCHANGED <<state, actors>>]_vars
<1>1. PlayersInv /\ [Next]_vars =>
        [\A c \in Players, missing \in SUBSET Players :
           HandleFireAction(c, missing) => UNCHANGED <<state, actors>>]_vars
  BY FireChangesNothing
<1> QED
  BY <1>1, PlayersInit, PlayersStep, PTL DEF Spec
-------------------------------------------------------------------------------
(* HistoryBuffer.                                                          *)

Frame == [timestamp : Nat, value : Nat]

\* Where the frame i steps before the newest stands in the ring.
At(i) == IF i < index THEN index - 1 - i ELSE index - 1 - i + Capacity

HistoryInv ==
  /\ log \in Seq(Frame)
  /\ index \in 0 .. Capacity - 1
  /\ size = IF Len(log) < Capacity THEN Len(log) ELSE Capacity
  /\ Len(log) < Capacity => index = Len(log)
  /\ DOMAIN data = 0 .. Capacity - 1
  /\ \A i \in 0 .. size - 1 : data[At(i)] = log[Len(log) - i]
  /\ \A i, j \in 1 .. Len(log) : i <= j => log[i].timestamp <= log[j].timestamp

(* What is below the capacity is its own remainder.                        *)
LEMMA ModuloOnce ==
  ASSUME NEW C \in Nat \ {0}, NEW a \in 0 .. C - 1
  PROVE  a % C = a /\ (a + C) % C = a
OBVIOUS

(* The ring read from its newest element is the log read from its end.     *)
LEMMA BackIsAt ==
  ASSUME HistoryInv, NEW i \in 0 .. size - 1
  PROVE  History!Back(i) = data[At(i)] /\ At(i) \in 0 .. Capacity - 1
<1> USE HistoryAssumption DEF HistoryInv
<1>1. size \in Nat /\ size <= Capacity
  OBVIOUS
<1>2. At(i) \in 0 .. Capacity - 1
  BY <1>1 DEF At
<1>3. index + Capacity - 1 - i = IF i < index THEN At(i) + Capacity ELSE At(i)
  BY <1>1 DEF At
<1>4. (index + Capacity - 1 - i) % Capacity = At(i)
  BY <1>2, <1>3, ModuloOnce, Zenon
<1> QED
  BY <1>2, <1>4 DEF History!Back

(* The ring and the log are empty at first.                                *)
LEMMA HistoryInit == History!Init => HistoryInv
BY HistoryAssumption DEF History!Init, HistoryInv

(* Insert advances ring and log alike, before and after it wraps.          *)
LEMMA HistoryStep == HistoryInv /\ [History!Next]_(History!historyVars) => HistoryInv'
<1> SUFFICES ASSUME HistoryInv, [History!Next]_(History!historyVars) PROVE HistoryInv'
  OBVIOUS
<1>1. ASSUME NEW timestamp \in 1 .. MaxTime, History!Insert(timestamp) PROVE HistoryInv'
  <2> USE HistoryAssumption
  <2> DEFINE new == [timestamp |-> timestamp, value |-> Len(log) + 1]
             n == Len(log)
  <2>1. /\ log # <<>> => log[Len(log)].timestamp <= timestamp
        /\ data' = [data EXCEPT ![index] = new]
        /\ index' = IF index + 1 >= Capacity THEN 0 ELSE index + 1
        /\ size' = IF size < Capacity THEN size + 1 ELSE size
        /\ log' = Append(log, new)
    BY <1>1 DEF History!Insert, History!Wrapped
  <2>2. /\ log \in Seq(Frame) /\ n \in Nat /\ index \in 0 .. Capacity - 1
        /\ size = IF n < Capacity THEN n ELSE Capacity
        /\ n < Capacity => index = n
        /\ DOMAIN data = 0 .. Capacity - 1
    BY DEF HistoryInv
  <2>3. new \in Frame
    BY <2>2 DEF Frame
  <2>4. /\ log' \in Seq(Frame) /\ Len(log') = n + 1 /\ log'[n + 1] = new
        /\ \A i \in 1 .. n : log'[i] = log[i]
    BY <2>1, <2>2, <2>3
  <2> HIDE DEF new, n
  <2>5. \A i \in 0 .. size' - 1 : data'[At(i)'] = log'[Len(log') - i]
    <3> SUFFICES ASSUME NEW i \in 0 .. size' - 1 PROVE data'[At(i)'] = log'[Len(log') - i]
      OBVIOUS
    <3>1. CASE i = 0
      <4>1. At(i)' = index
        BY <3>1, <2>1, <2>2 DEF At
      <4> QED
        BY <3>1, <4>1, <2>1, <2>2, <2>4
    <3>2. CASE i # 0
      <4>1. i - 1 \in 0 .. size - 1 /\ i \in 1 .. Capacity - 1
        BY <3>2, <2>1, <2>2
      <4>2. At(i)' = At(i - 1) /\ At(i - 1) # index /\ At(i - 1) \in 0 .. Capacity - 1
        BY <4>1, <2>1, <2>2 DEF At
      <4>3. data[At(i - 1)] = log[n - (i - 1)]
        BY <4>1 DEF HistoryInv, n
      <4>4. data'[At(i)'] = log[n - (i - 1)]
        BY <4>2, <4>3, <2>1, <2>2
      <4>5. n - (i - 1) \in 1 .. n /\ n - (i - 1) = Len(log') - i
        BY <4>1, <2>2, <2>4
      <4> QED
        BY <4>4, <4>5, <2>4
    <3> QED
      BY <3>1, <3>2
  <2>6. \A i, j \in 1 .. Len(log') : i <= j => log'[i].timestamp <= log'[j].timestamp
    <3> SUFFICES ASSUME NEW i \in 1 .. n + 1, NEW j \in 1 .. n + 1, i <= j
                 PROVE  log'[i].timestamp <= log'[j].timestamp
      BY <2>4
    <3>1. new.timestamp = timestamp
      BY DEF new
    <3>2. \A k, l \in 1 .. n : k <= l => log[k].timestamp <= log[l].timestamp
      BY DEF HistoryInv, n
    <3>3. CASE j \in 1 .. n
      BY <3>2, <3>3, <2>2, <2>4
    <3>4. CASE i \in 1 .. n /\ j = n + 1
      <4>1. log # <<>> /\ n \in 1 .. n
        BY <3>4, <2>2 DEF n
      <4>2. log[i].timestamp <= log[n].timestamp /\ log[n].timestamp <= timestamp
        BY <3>2, <3>4, <4>1, <2>1, <2>2 DEF n
      <4>3. log[i] \in Frame /\ log[n] \in Frame
        BY <3>4, <4>1, <2>2 DEF n
      <4> QED
        BY <3>1, <3>4, <4>2, <4>3, <2>4 DEF Frame
    <3>5. CASE i = n + 1 /\ j = n + 1
      BY <3>1, <3>5, <2>4
    <3> QED
      BY <3>3, <3>4, <3>5, <2>2
  <2>7. /\ index' \in 0 .. Capacity - 1 /\ DOMAIN data' = 0 .. Capacity - 1
        /\ size' = IF Len(log') < Capacity THEN Len(log') ELSE Capacity
        /\ Len(log') < Capacity => index' = Len(log')
    BY <2>1, <2>2, <2>4
  <2> QED
    BY <2>4, <2>5, <2>6, <2>7 DEF HistoryInv
<1>2. CASE UNCHANGED (History!historyVars)
  BY <1>2 DEF History!historyVars, HistoryInv, At
<1> QED
  BY <1>1, <1>2 DEF History!Next

\* Least and greatest elements, as the community modules choose them.
LEMMA MinIs ==
  ASSUME NEW S \in SUBSET Int, NEW m \in S, \A x \in S : m <= x
  PROVE  History!Min(S) = m
<1>1. m \in S /\ \A y \in S : m <= y
  OBVIOUS
<1>2. \A x \in S : (\A y \in S : x <= y) => x = m
  OBVIOUS
<1> QED
  BY <1>1, <1>2, Zenon DEF History!Min

LEMMA MaxIs ==
  ASSUME NEW S \in SUBSET Int, NEW m \in S, \A x \in S : m >= x
  PROVE  History!Max(S) = m
<1>1. m \in S /\ \A y \in S : m >= y
  OBVIOUS
<1>2. \A x \in S : (\A y \in S : x >= y) => x = m
  OBVIOUS
<1> QED
  BY <1>1, <1>2, Zenon DEF History!Max
\* The backward scan stops where the frames that are not newer begin: those
\* of the log come in order.
LEMMA ScanStops ==
  ASSUME HistoryInv, NEW t \in Nat
  PROVE  \E stop \in 0 .. size :
           /\ \A k \in 0 .. size - 1 : log[Len(log) - k].timestamp <= t <=> stop <= k
           /\ LET stops == {k \in 0 .. size - 1 : History!Older(History!Back(k), t)}
              IN  stop = IF stops = {} THEN size ELSE History!Min(stops)
<1> DEFINE stops == {k \in 0 .. size - 1 : History!Older(History!Back(k), t)}
           n == Len(log)
<1>1. n \in Nat /\ size \in Nat /\ size <= n
  BY HistoryAssumption DEF HistoryInv
<1>2. \A k \in 0 .. size - 1 : n - k \in 1 .. n /\ log[n - k].timestamp \in Nat
  <2> TAKE k \in 0 .. size - 1
  <2>1. n - k \in 1 .. n
    BY <1>1
  <2>2. log[n - k] \in Frame
    BY <2>1 DEF HistoryInv
  <2> QED
    BY <2>1, <2>2 DEF Frame
<1>3. \A k \in 0 .. size - 1 : k \in stops <=> log[n - k].timestamp <= t
  BY BackIsAt, Zenon DEF HistoryInv, History!Older
<1>4. \A k, l \in 0 .. size - 1 : k <= l => log[n - l].timestamp <= log[n - k].timestamp
  <2> TAKE k, l \in 0 .. size - 1
  <2>1. n - l \in 1 .. n /\ n - k \in 1 .. n /\ (k <= l => n - l <= n - k)
    BY <1>1
  <2> QED
    BY <2>1, Zenon DEF HistoryInv
<1>5. stops \subseteq 0 .. size - 1
  OBVIOUS
<1> HIDE DEF stops, n
<1> SUFFICES \E stop \in 0 .. size :
               /\ \A k \in 0 .. size - 1 : log[n - k].timestamp <= t <=> stop <= k
               /\ stop = IF stops = {} THEN size ELSE History!Min(stops)
  BY Zenon DEF stops, n
<1>6. CASE stops = {}
  <2>1. \A k \in 0 .. size - 1 : log[n - k].timestamp <= t <=> size <= k
    BY <1>1, <1>3, <1>6
  <2> QED
    BY <1>1, <1>6, <2>1
<1>7. CASE stops # {}
  <2>1. stops \subseteq 0 .. size
    BY <1>1, <1>5
  <2>2. PICK m \in stops : \A k \in stops : m <= k
    BY <1>1, <1>7, <2>1, MinExists, Zenon
  <2>3. m \in 0 .. size - 1 /\ History!Min(stops) = m
    BY <1>1, <1>5, <2>2, MinIs
  <2>4. ASSUME NEW k \in 0 .. size - 1 PROVE k \in stops <=> m <= k
    <3>1. CASE m <= k
      BY <1>2, <1>3, <1>4, <2>2, <2>3, <3>1
    <3>2. CASE ~(m <= k)
      BY <2>2, <3>2
    <3> QED
      BY <3>1, <3>2
  <2> QED
    BY <1>1, <1>3, <1>7, <2>1, <2>3, <2>4
<1> QED
  BY <1>6, <1>7

(* What FindAt returns is what a search of the log would.                  *)
LEMMA HistoryFinds == HistoryInv => HistoryIsBracketed
<1> SUFFICES ASSUME HistoryInv, NEW t \in 0 .. MaxTime
             PROVE  LET kept  == {i \in DOMAIN log : i > Len(log) - Capacity}
                        newer == {i \in kept : log[i].timestamp > t}
                        older == kept \ newer
                    IN  History!FindAt(t) =
                          << IF newer = {} THEN History!NULL ELSE log[History!Min(newer)],
                             IF newer = {} \/ older = {} THEN History!NULL
                             ELSE log[History!Max(older)] >>
  BY Zenon DEF HistoryIsBracketed, History!HistoryIsBracketed
<1> DEFINE kept  == {i \in DOMAIN log : i > Len(log) - Capacity}
           newer == {i \in kept : log[i].timestamp > t}
           older == kept \ newer
           stops == {k \in 0 .. size - 1 : History!Older(History!Back(k), t)}
           n == Len(log)
<1> USE HistoryAssumption
<1>1. PICK stop \in 0 .. size :
        /\ \A k \in 0 .. size - 1 : log[n - k].timestamp <= t <=> stop <= k
        /\ stop = IF stops = {} THEN size ELSE History!Min(stops)
  BY ScanStops, t \in Nat
<1>2. n \in Nat /\ size \in Nat /\ size <= n
  BY DEF HistoryInv
<1>3. kept = n - size + 1 .. n
  <2>1. /\ DOMAIN log = 1 .. n /\ Len(log) = n
        /\ size = IF n < Capacity THEN n ELSE Capacity
    BY DEF HistoryInv
  <2> HIDE DEF n
  <2> QED
    BY <1>2, <2>1
<1>4. \A k \in 0 .. size - 1 : History!Back(k) = log[n - k] /\ log[n - k].timestamp \in Nat
  <2> TAKE k \in 0 .. size - 1
  <2>1. n - k \in 1 .. n
    BY <1>2
  <2>2. log[n - k] \in Frame
    BY <2>1 DEF HistoryInv
  <2> QED
    BY <2>2, BackIsAt, Zenon DEF HistoryInv, Frame
<1>5. newer = n - stop + 1 .. n
  <2>1. ASSUME NEW i \in kept PROVE i \in newer <=> i > n - stop
    <3>1. n - i \in 0 .. size - 1 /\ i = n - (n - i)
      BY <1>2, <1>3
    <3>2. log[i].timestamp <= t <=> stop <= n - i
      BY <1>1, <3>1, Zenon
    <3>3. log[i].timestamp \in Nat
      BY <1>4, <3>1, Zenon
    <3> QED
      BY <1>2, <1>3, <3>1, <3>2, <3>3
  <2> QED
    BY <1>2, <1>3, <2>1
<1>6. older = n - size + 1 .. n - stop
  BY <1>2, <1>3, <1>5
<1>7. History!FindAt(t) =
        IF stop = 0 THEN <<History!NULL, History!NULL>>
        ELSE <<History!Back(stop - 1), IF stop < size THEN History!Back(stop) ELSE History!NULL>>
  BY <1>1 DEF History!FindAt
<1> HIDE DEF kept, newer, older, stops, n
<1>8. CASE stop = 0
  <2>1. newer = {}
    BY <1>2, <1>5, <1>8
  <2> QED
    BY <1>7, <1>8, <2>1 DEF newer, kept
<1>9. CASE stop # 0
  <2>1. newer # {} /\ History!Min(newer) = n - stop + 1
    <3>1. newer \in SUBSET Int /\ n - stop + 1 \in newer /\ \A x \in newer : n - stop + 1 <= x
      BY <1>2, <1>5, <1>9
    <3> QED
      BY <3>1, MinIs, Zenon
  <2>2. History!Back(stop - 1) = log[n - stop + 1]
    BY <1>2, <1>4, <1>9
  <2>3. CASE stop < size
    <3>1. older # {} /\ History!Max(older) = n - stop
      <4>1. older \in SUBSET Int /\ n - stop \in older /\ \A x \in older : n - stop >= x
        BY <1>2, <1>6, <2>3
      <4> QED
        BY <4>1, MaxIs, Zenon
    <3>2. History!Back(stop) = log[n - stop]
      BY <1>2, <1>4, <2>3
    <3> QED
      BY <1>7, <1>9, <2>1, <2>2, <2>3, <3>1, <3>2 DEF newer, older, kept
  <2>4. CASE stop = size
    <3>1. older = {}
      BY <1>2, <1>6, <2>4
    <3> QED
      BY <1>7, <1>9, <2>1, <2>2, <2>4, <3>1 DEF newer, older, kept
  <2> QED
    BY <1>2, <2>3, <2>4
<1> QED
  BY <1>8, <1>9

(* A shot is reconstructed between the right frames, whatever the capacity *)
(* of the ring and however often it has wrapped.                           *)
THEOREM ShotsAreBracketed == History!Spec => []HistoryIsBracketed
BY HistoryInit, HistoryStep, HistoryFinds, PTL DEF History!Spec
-------------------------------------------------------------------------------
(* ClockFilter.                                                            *)

Tuple == [offset : Int, delay : Int, time : Int]

\* What a response can have told: its delay is that of both ways together,
\* and its error, in halves of a unit, what one way took longer.
Measured(tuple) ==
  \E there, back \in Delays :
    tuple.delay = there + back /\ tuple.offset = 2 * Ahead + (there - back)

ClockInv ==
  /\ samples \in Nat
  /\ buffer \in Seq(Tuple) /\ Len(buffer) = FilterSize
  /\ \A i \in 1 .. FilterSize : Measured(buffer[i]) \/ buffer[i].delay = Clock!MaxDispersion
  /\ ClockErrorIsBounded

(* Clock and rtt of a tuple, from the four times of its exchange.          *)
LEMMA SampleIsMeasured ==
  ASSUME NEW t0 \in Int, NEW held \in Int, NEW there \in Delays, NEW back \in Delays
  PROVE  LET t1 == t0 + there + Ahead
             t2 == t1 + held
             t3 == t2 + back - Ahead
             tuple == Clock!Sample(t0, t1, t2, t3)
         IN  tuple \in Tuple /\ Measured(tuple) /\ tuple.delay = there + back
<1> DEFINE t1 == t0 + there + Ahead
           t2 == t1 + held
           t3 == t2 + back - Ahead
           tuple == Clock!Sample(t0, t1, t2, t3)
<1> USE ClockAssumption
<1>1. t1 \in Int /\ t2 \in Int /\ t3 \in Int
  OBVIOUS
<1>2. (t1 - t0) + (t2 - t3) = 2 * Ahead + (there - back) /\ (t3 - t0) - (t2 - t1) = there + back
  OBVIOUS
<1>3. tuple.offset = (t1 - t0) + (t2 - t3) /\ tuple.delay = (t3 - t0) - (t2 - t1)
  BY DEF Clock!Sample
<1>4. tuple \in Tuple
  <2> HIDE DEF t1, t2, t3
  <2> QED
    BY <1>1 DEF Clock!Sample, Tuple
<1> HIDE DEF t1, t2, t3, tuple
<1>5. Measured(tuple) /\ tuple.delay = there + back
  BY <1>2, <1>3 DEF Measured
<1> QED
  BY <1>4, <1>5 DEF t1, t2, t3, tuple

(* The longest way there is.                                               *)
LEMMA DelaysHaveAMaximum ==
  ASSUME NEW d \in Delays
  PROVE  Clock!Max(Delays) \in Delays /\ \A e \in Delays : e <= Clock!Max(Delays)
<1>1. Delays \subseteq 0 .. Clock!MaxDispersion
  BY ClockAssumption DEF Clock!MaxDispersion
<1>2. Clock!MaxDispersion \in Nat
  BY DEF Clock!MaxDispersion
<1>3. PICK m \in Delays : \A e \in Delays : e <= m
  BY <1>1, <1>2, MaxExists, Zenon
<1> QED
  BY <1>1, <1>3, Zenon DEF Clock!Max

(* Nothing is measured at first.                                           *)
LEMMA ClockInit == Clock!Init => ClockInv
<1> SUFFICES ASSUME Clock!Init PROVE ClockInv
  OBVIOUS
<1>1. /\ buffer = [i \in 1 .. FilterSize |->
                     [offset |-> 0, delay |-> Clock!MaxDispersion, time |-> 0]]
      /\ samples = 0
  BY DEF Clock!Init
<1>2. [offset |-> 0, delay |-> Clock!MaxDispersion, time |-> 0] \in Tuple
  BY DEF Tuple, Clock!MaxDispersion
<1>3. buffer \in Seq(Tuple) /\ Len(buffer) = FilterSize
  BY <1>1, <1>2, ClockAssumption, LenProperties
<1>4. \A i \in 1 .. FilterSize : buffer[i].delay = Clock!MaxDispersion
  BY <1>1
<1>5. ClockErrorIsBounded
  BY <1>1 DEF ClockErrorIsBounded, Clock!ClockErrorIsBounded
<1> QED
  BY <1>1, <1>3, <1>4, <1>5, Zenon DEF ClockInv

(* Responses that come, or are replaced in the filter, keep the bounds.    *)
LEMMA ClockStep == ClockInv /\ [Clock!Next]_(Clock!clockVars) => ClockInv'
<1> SUFFICES ASSUME ClockInv, [Clock!Next]_(Clock!clockVars) PROVE ClockInv'
  OBVIOUS
<1>1. ASSUME NEW there \in Delays, NEW back \in Delays, NEW held \in {0, 2},
             Clock!Update(there, held, back)
      PROVE  ClockInv'
  <2> USE ClockAssumption
  <2> DEFINE t0 == samples * 10
             t1 == t0 + there + Ahead
             t2 == t1 + held
             t3 == t2 + back - Ahead
             tuple == Clock!Sample(t0, t1, t2, t3)
             kept == SubSeq(buffer, 1, FilterSize - 1)
             shifted == <<tuple>> \o kept
  <2>1. /\ samples' = samples + 1 /\ buffer' = shifted
        /\ \E best \in Clock!Best(shifted) : delayApprox' = best.delay /\ offsetApprox' = best.offset
    BY <1>1 DEF Clock!Update
  <2>2. tuple \in Tuple /\ Measured(tuple) /\ tuple.delay = there + back
    <3>1. t0 \in Int /\ held \in Int
      BY DEF ClockInv
    <3> HIDE DEF t0
    <3> QED
      BY <3>1, SampleIsMeasured, Zenon
  <2> HIDE DEF tuple
  <2>3. kept \in Seq(Tuple) /\ Len(kept) = FilterSize - 1 /\ \A i \in 1 .. FilterSize - 1 : kept[i] = buffer[i]
    BY SubSeqProperties DEF ClockInv
  <2> HIDE DEF kept
  <2>4. /\ shifted \in Seq(Tuple) /\ Len(shifted) = FilterSize /\ shifted[1] = tuple
        /\ \A i \in 2 .. FilterSize : shifted[i] = kept[i - 1]
    BY <2>2, <2>3, ConcatProperties
  <2> HIDE DEF shifted
  <2>5. \A i \in 1 .. FilterSize : Measured(shifted[i]) \/ shifted[i].delay = Clock!MaxDispersion
    <3> SUFFICES ASSUME NEW i \in 1 .. FilterSize
                 PROVE  Measured(shifted[i]) \/ shifted[i].delay = Clock!MaxDispersion
      OBVIOUS
    <3>1. CASE i = 1
      BY <2>2, <2>4, <3>1
    <3>2. CASE i # 1
      <4>1. i - 1 \in 1 .. FilterSize - 1 /\ i - 1 \in 1 .. FilterSize /\ i \in 2 .. FilterSize
        BY <3>2
      <4>2. shifted[i] = buffer[i - 1]
        BY <2>3, <2>4, <4>1
      <4> QED
        BY <4>1, <4>2 DEF ClockInv
    <3> QED
      BY <3>1, <3>2
  <2>6. PICK best \in Clock!Best(shifted) : delayApprox' = best.delay /\ offsetApprox' = best.offset
    BY <2>1
  <2>7. PICK i \in 1 .. FilterSize : best = shifted[i] /\ \A j \in 1 .. FilterSize : best.delay <= shifted[j].delay
    <3>1. DOMAIN shifted = 1 .. FilterSize
      BY <2>4
    <3> QED
      BY <2>6, <3>1 DEF Clock!Best
  <2>8. best.delay <= there + back
    BY <2>2, <2>4, <2>7
  <2>9. Measured(best)
    BY <2>5, <2>7, <2>8 DEF Clock!MaxDispersion
  <2>10. ClockErrorIsBounded'
    <3>1. PICK th, ba \in Delays : best.delay = th + ba /\ best.offset = 2 * Ahead + (th - ba)
      BY <2>9 DEF Measured
    <3>2. th \in Nat /\ ba \in Nat /\ Ahead \in Int
      OBVIOUS
    <3>3. best.offset - 2 * Ahead \in -best.delay .. best.delay
      BY <3>1, <3>2
    <3>4. best.delay <= 2 * Clock!Max(Delays)
      <4>1. /\ Clock!Max(Delays) \in Nat
            /\ th <= Clock!Max(Delays) /\ ba <= Clock!Max(Delays)
        BY DelaysHaveAMaximum, Zenon
      <4> QED
        BY <3>1, <3>2, <4>1
    <3> QED
      BY <2>6, <3>3, <3>4 DEF ClockErrorIsBounded, Clock!ClockErrorIsBounded
  <2> QED
    BY <2>1, <2>4, <2>5, <2>10 DEF ClockInv
<1>2. CASE UNCHANGED (Clock!clockVars)
  BY <1>2 DEF Clock!clockVars, ClockInv, ClockErrorIsBounded, Clock!ClockErrorIsBounded, Measured
<1> QED
  BY <1>1, <1>2 DEF Clock!Next

(* The clock of a client is off by no more than half of what it takes for  *)
(* the rtt, and that is no more than twice the longest way, for any number *)
(* of responses, delays and filtered tuples.                               *)
THEOREM ClockIsBounded == Clock!Spec => []ClockErrorIsBounded
<1>1. ClockInv => ClockErrorIsBounded
  BY DEF ClockInv
<1> QED
  BY <1>1, ClockInit, ClockStep, PTL DEF Clock!Spec
-------------------------------------------------------------------------------
(* FrameMemory: the constant buffers.                                      *)

PoolPage == [buffer : Nat, offset : Nat]
Contents == [0 .. 2 * PoolPageSize - 1 -> (Nat \X Nat) \cup {<<>>}]
Handle == [buffer : Nat, at : Nat, length : Nat]

FrameType ==
  /\ frame \in Nat /\ rendering \in BOOLEAN
  /\ pages \in Seq(PoolPage) /\ memory \in Seq(Contents) /\ handles \in Seq(Handle)
  /\ current \in 0 .. Len(pages) /\ perFrame \in 0 .. Len(handles)

\* The pages are the buffers in some order; the mapped one is the current
\* one; those behind it are empty.
PagesInv ==
  /\ Len(memory) = Len(pages)
  /\ \A i \in 1 .. Len(pages) : pages[i].buffer \in 1 .. Len(pages)
  /\ \A i, j \in 1 .. Len(pages) : pages[i].buffer = pages[j].buffer => i = j
  /\ IF current = 0 THEN pages = <<>> ELSE mapped = pages[current].buffer
  /\ \A i \in 1 .. Len(pages) : i > current => pages[i].offset = 0

\* What a handle leads to lies in front of its page's offset.
HandleIsKept(i) ==
  LET h == handles[i] IN
  /\ h.buffer \in 1 .. Len(memory)
  /\ \A k \in 1 .. Len(pages) : pages[k].buffer = h.buffer => h.at + h.length <= pages[k].offset
  /\ h.at + h.length <= PoolPageSize
  /\ \A unit \in h.at .. h.at + h.length - 1 : memory[h.buffer][unit] = <<frame, i>>

ConstantsInv ==
  /\ FrameType /\ PagesInv
  /\ ~rendering => handles = <<>> /\ perFrame = 0
  /\ \A i \in 1 .. Len(handles) : HandleIsKept(i)

(* Rounding up to the alignment loses nothing.                             *)
LEMMA AlignedIsEnough ==
  ASSUME NEW units \in Nat
  PROVE  Frames!Aligned(units) \in Nat /\ units <= Frames!Aligned(units)
<1> DEFINE q == (units + Alignment - 1) \div Alignment
<1>1. q \in Nat /\ units + Alignment - 1 < Alignment * (q + 1)
  BY PoolAssumption
<1>2. Alignment * (q + 1) = q * Alignment + Alignment /\ q * Alignment \in Nat
  BY <1>1, PoolAssumption
<1> QED
  BY <1>1, <1>2, PoolAssumption DEF Frames!Aligned

(* Any size asked for fits into an empty page.                             *)
LEMMA SizesFit ==
  ASSUME NEW units \in DataSizes
  PROVE  units \in Nat /\ units >= 1 /\ units <= PoolPageSize /\ PoolPageSize \in Nat
<1>1. units \in 1 .. PoolPageSize
  BY PoolAssumption
<1> QED
  BY <1>1, PoolAssumption

\* The page SetConstants takes: present, the mapped one, with room.
LEMMA PageIsPresent ==
  ASSUME ConstantsInv, NEW units \in DataSizes
  PROVE  LET at == Frames!PageFor(units)
             present == IF at > Len(pages) THEN Append(pages, Frames!NewPage) ELSE pages
             target == IF current = 0 \/ Frames!TurnsPage(units) THEN present[at].buffer ELSE mapped
         IN  /\ at \in 1 .. Len(pages) + 1 /\ at >= current
             /\ present[at].offset \in Nat /\ present[at].offset + units <= PoolPageSize
             /\ target = present[at].buffer
<1> USE PoolAssumption DEF ConstantsInv, FrameType, PagesInv
<1> DEFINE at == Frames!PageFor(units)
           present == IF at > Len(pages) THEN Append(pages, Frames!NewPage) ELSE pages
           target == IF current = 0 \/ Frames!TurnsPage(units) THEN present[at].buffer ELSE mapped
<1> SUFFICES /\ at \in 1 .. Len(pages) + 1 /\ at >= current
             /\ present[at].offset \in Nat /\ present[at].offset + units <= PoolPageSize
             /\ target = present[at].buffer
  BY Zenon
<1>1. units \in Nat /\ units <= PoolPageSize
  BY SizesFit
<1>2. \A i \in 1 .. Len(pages) : pages[i].offset \in Nat
  <2> TAKE i \in 1 .. Len(pages)
  <2>1. pages[i] \in PoolPage
    OBVIOUS
  <2> QED
    BY <2>1 DEF PoolPage
<1>3. CASE current # 0 /\ ~Frames!TurnsPage(units)
  <2>1. at = current /\ present = pages /\ current \in 1 .. Len(pages)
    BY <1>3 DEF Frames!PageFor
  <2>2. PoolPageSize - pages[current].offset >= units
    BY <1>3 DEF Frames!TurnsPage, Frames!Fits
  <2> QED
    BY <1>1, <1>2, <1>3, <2>1, <2>2
<1>4. CASE current = 0 \/ Frames!TurnsPage(units)
  <2>1. at = current + 1 /\ at \in 1 .. Len(pages) + 1
    BY <1>4 DEF Frames!PageFor, Frames!TurnsPage
  <2>2. present[at].offset = 0
    <3>1. CASE at > Len(pages)
      <4>1. at = Len(pages) + 1
        BY <2>1, <3>1
      <4> QED
        BY <4>1, <3>1 DEF Frames!NewPage
    <3>2. CASE ~(at > Len(pages))
      BY <2>1, <3>2
    <3> QED
      BY <3>1, <3>2, Zenon
  <2>3. target = present[at].buffer
    BY <1>4, Zenon
  <2>4. at >= current
    BY <2>1
  <2> HIDE DEF at, present, target
  <2> QED
    BY <1>1, <2>1, <2>2, <2>3, <2>4, PoolAssumption
<1> QED
  BY <1>3, <1>4, Zenon

(* New constants take room that nobody has.                                *)
LEMMA SetConstantsKeeps ==
  ASSUME ConstantsInv, NEW units \in DataSizes, Frames!SetConstants(units),
         perFrame' \in {perFrame, Len(handles')}
  PROVE  ConstantsInv'
<1> DEFINE at == Frames!PageFor(units)
           present == IF at > Len(pages) THEN Append(pages, Frames!NewPage) ELSE pages
           place == present[at]
           buffers == IF at > Len(pages)
                      THEN Append(memory, [unit \in 0 .. 2 * PoolPageSize - 1 |-> <<>>])
                      ELSE memory
           n == Len(present)
           owner == <<frame, Len(handles) + 1>>
           handle == [buffer |-> place.buffer, at |-> place.offset, length |-> units]
<1>1. /\ rendering /\ UNCHANGED <<rendering, frame>>
      /\ current' = at
      /\ mapped' = place.buffer
      /\ pages' = [present EXCEPT ![at].offset = @ + Frames!Aligned(units)]
      /\ handles' = Append(handles, handle)
      /\ memory' = [buffers EXCEPT ![mapped'] =
                      [unit \in DOMAIN @ |-> IF unit \in place.offset .. place.offset + units - 1
                                             THEN owner ELSE @[unit]]]
  BY PageIsPresent DEF Frames!SetConstants, Frames!descriptorVars
<1>2. /\ at \in 1 .. Len(pages) + 1 /\ at >= current
      /\ place.offset \in Nat /\ place.offset + units <= PoolPageSize
  BY PageIsPresent
<1> HIDE DEF at
<1>3. units \in Nat /\ units >= 1 /\ PoolPageSize \in Nat
  BY SizesFit
<1>4. /\ pages \in Seq(PoolPage) /\ memory \in Seq(Contents) /\ handles \in Seq(Handle)
      /\ frame \in Nat /\ rendering \in BOOLEAN /\ Len(memory) = Len(pages)
      /\ current \in 0 .. Len(pages) /\ perFrame \in 0 .. Len(handles)
  BY DEF ConstantsInv, FrameType, PagesInv
<1>5. /\ present \in Seq(PoolPage) /\ buffers \in Seq(Contents)
      /\ n \in Nat /\ Len(present) = n /\ Len(buffers) = n /\ at \in 1 .. n /\ n >= Len(pages)
      /\ \A i \in 1 .. Len(pages) : present[i] = pages[i] /\ buffers[i] = memory[i]
      /\ n > Len(pages) => n = Len(pages) + 1 /\ at = n /\ present[n].buffer = n
  <2>1. CASE at > Len(pages)
    <3>1. at = Len(pages) + 1
      BY <1>2, <1>4, <2>1
    <3>2. Frames!NewPage \in PoolPage /\ Frames!NewPage.buffer = Len(pages) + 1
      BY <1>4 DEF Frames!NewPage, PoolPage
    <3>3. [unit \in 0 .. 2 * PoolPageSize - 1 |-> <<>>] \in Contents
      BY DEF Contents
    <3> QED
      BY <1>4, <2>1, <3>1, <3>2, <3>3
  <2>2. CASE ~(at > Len(pages))
    BY <1>2, <1>4, <2>2
  <2> QED
    BY <2>1, <2>2
<1>6. /\ \A i \in 1 .. n : present[i].buffer \in 1 .. n
      /\ \A i, j \in 1 .. n : present[i].buffer = present[j].buffer => i = j
      /\ \A i \in 1 .. n : i > at => present[i].offset = 0
  <2>1. /\ \A i \in 1 .. Len(pages) : pages[i].buffer \in 1 .. Len(pages)
        /\ \A i, j \in 1 .. Len(pages) : pages[i].buffer = pages[j].buffer => i = j
        /\ \A i \in 1 .. Len(pages) : i > current => pages[i].offset = 0
    BY DEF ConstantsInv, PagesInv
  <2>2. ASSUME NEW i \in 1 .. n
        PROVE  i \in 1 .. Len(pages) \/ (i = n /\ n = Len(pages) + 1 /\ at = n /\ present[i].buffer = n)
    BY <1>4, <1>5
  <2> HIDE DEF present, n
  <2>3. \A i \in 1 .. n : present[i].buffer \in 1 .. n
    BY <1>4, <1>5, <2>1, <2>2
  <2>4. \A i, j \in 1 .. n : present[i].buffer = present[j].buffer => i = j
    <3> TAKE i, j \in 1 .. n
    <3>1. CASE i \in 1 .. Len(pages) /\ j \in 1 .. Len(pages)
      BY <1>5, <2>1, <3>1, Zenon
    <3>2. CASE i \in 1 .. Len(pages) /\ j \notin 1 .. Len(pages)
      BY <1>4, <1>5, <2>1, <2>2, <3>2
    <3>3. CASE i \notin 1 .. Len(pages) /\ j \in 1 .. Len(pages)
      BY <1>4, <1>5, <2>1, <2>2, <3>3
    <3>4. CASE i \notin 1 .. Len(pages) /\ j \notin 1 .. Len(pages)
      BY <2>2, <3>4
    <3> QED
      BY <3>1, <3>2, <3>3, <3>4
  <2>5. \A i \in 1 .. n : i > at => present[i].offset = 0
    <3> TAKE i \in 1 .. n
    <3>1. CASE i \in 1 .. Len(pages)
      BY <1>2, <1>4, <1>5, <2>1, <3>1
    <3>2. CASE i \notin 1 .. Len(pages)
      BY <1>5, <2>2, <3>2
    <3> QED
      BY <3>1, <3>2
  <2> QED
    BY <2>3, <2>4, <2>5
<1> HIDE DEF present, buffers, n
<1>7. Frames!Aligned(units) \in Nat /\ units <= Frames!Aligned(units)
  BY <1>3, AlignedIsEnough
<1>8. /\ pages' \in Seq(PoolPage) /\ Len(pages') = n
      /\ \A i \in 1 .. n : pages'[i].buffer = present[i].buffer
      /\ \A i \in 1 .. n : i # at => pages'[i].offset = present[i].offset
      /\ pages'[at].offset = place.offset + Frames!Aligned(units)
  <2> DEFINE grown == [present[at] EXCEPT !.offset = @ + Frames!Aligned(units)]
  <2>1. grown \in PoolPage /\ grown.buffer = present[at].buffer
        /\ grown.offset = place.offset + Frames!Aligned(units)
    <3>1. present[at] \in PoolPage
      BY <1>5
    <3> QED
      BY <3>1, <1>7 DEF PoolPage
  <2>2. pages' = [present EXCEPT ![at] = grown]
    BY <1>1
  <2> HIDE DEF grown
  <2> QED
    BY <1>5, <2>1, <2>2, ExceptSeq DEF n
<1> DEFINE written == [unit \in DOMAIN buffers[place.buffer] |->
                         IF unit \in place.offset .. place.offset + units - 1
                         THEN owner ELSE buffers[place.buffer][unit]]
<1>9. place.buffer \in 1 .. n
  BY <1>5, <1>6
<1>10. /\ memory' \in Seq(Contents) /\ Len(memory') = n
       /\ \A b \in 1 .. n : b # place.buffer => memory'[b] = buffers[b]
       /\ memory'[place.buffer] = written
       /\ DOMAIN written = 0 .. 2 * PoolPageSize - 1
  <2>1. buffers[place.buffer] \in Contents /\ owner \in Nat \X Nat
    BY <1>4, <1>5, <1>9
  <2>2. written \in Contents
    BY <2>1, Zenon DEF Contents
  <2>3. memory' = [buffers EXCEPT ![place.buffer] = written]
    BY <1>1
  <2>4. DOMAIN written = 0 .. 2 * PoolPageSize - 1
    BY <2>1 DEF Contents
  <2> HIDE DEF written
  <2> QED
    BY <1>5, <1>9, <2>2, <2>3, <2>4, ExceptSeq
<1>11. handles' \in Seq(Handle) /\ Len(handles') = Len(handles) + 1
       /\ handles'[Len(handles) + 1] = handle
       /\ \A i \in 1 .. Len(handles) : handles'[i] = handles[i]
  <2>1. handle \in Handle
    BY <1>2, <1>3, <1>9, <1>5 DEF Handle
  <2> HIDE DEF handle
  <2> QED
    BY <1>1, <1>4, <2>1
<1>12. ASSUME NEW i \in 1 .. Len(handles) PROVE HandleIsKept(i)'
  <2> DEFINE h == handles[i]
  <2>1. /\ h.buffer \in 1 .. Len(pages) /\ h.at \in Nat /\ h.length \in Nat
        /\ \A k \in 1 .. Len(pages) : pages[k].buffer = h.buffer => h.at + h.length <= pages[k].offset
        /\ h.at + h.length <= PoolPageSize
        /\ \A unit \in h.at .. h.at + h.length - 1 : memory[h.buffer][unit] = <<frame, i>>
    <3>1. h \in Handle /\ HandleIsKept(i) /\ Len(memory) = Len(pages)
      BY <1>4 DEF ConstantsInv
    <3> QED
      BY <3>1 DEF HandleIsKept, Handle
  <2>2. handles'[i] = h
    BY <1>11
  <2> HIDE DEF h
  <2>3. \A k \in 1 .. n : present[k].buffer = h.buffer => h.at + h.length <= present[k].offset
    <3> SUFFICES ASSUME NEW k \in 1 .. n, present[k].buffer = h.buffer
                 PROVE  h.at + h.length <= present[k].offset
      OBVIOUS
    <3>1. k \in 1 .. Len(pages)
      BY <1>4, <1>5, <2>1
    <3> QED
      BY <3>1, <1>5, <2>1, Zenon
  <2>4. \A k \in 1 .. Len(pages') : pages'[k].buffer = h.buffer => h.at + h.length <= pages'[k].offset
    <3> SUFFICES ASSUME NEW k \in 1 .. n, present[k].buffer = h.buffer
                 PROVE  h.at + h.length <= pages'[k].offset
      BY <1>8
    <3>1. CASE k = at
      BY <3>1, <1>2, <1>7, <1>8, <2>1, <2>3
    <3>2. CASE k # at
      BY <3>2, <1>8, <2>3
    <3> QED
      BY <3>1, <3>2
  <2>5. ASSUME NEW unit \in h.at .. h.at + h.length - 1
        PROVE  memory'[h.buffer][unit] = <<frame, i>>
    <3>1. buffers[h.buffer][unit] = <<frame, i>>
      BY <1>5, <2>1, Zenon
    <3>2. CASE h.buffer # place.buffer
      BY <3>1, <3>2, <1>4, <1>5, <1>10, <2>1
    <3>3. CASE h.buffer = place.buffer
      <4>1. h.at + h.length <= place.offset
        BY <3>3, <1>5, <2>3
      <4> HIDE DEF place, written
      <4>2. unit \in 0 .. 2 * PoolPageSize - 1 /\ unit < place.offset
        BY <4>1, <1>2, <1>3, <2>1
      <4>3. unit \in DOMAIN written /\ unit \notin place.offset .. place.offset + units - 1
        BY <4>2, <1>2, <1>3, <1>10
      <4>4. written[unit] = buffers[place.buffer][unit]
        BY <4>3 DEF written
      <4> QED
        BY <3>1, <3>3, <4>4, <1>10
    <3> QED
      BY <3>2, <3>3
  <2>6. h.buffer \in 1 .. Len(memory') /\ frame' = frame
    BY <1>1, <1>4, <1>5, <1>10, <2>1
  <2> HIDE DEF written, place
  <2> QED
    BY <2>1, <2>2, <2>4, <2>5, <2>6 DEF HandleIsKept
<1>13. ASSUME NEW last, last = Len(handles) + 1 PROVE HandleIsKept(last)'
  <2>1. /\ handle.buffer = place.buffer /\ handle.at = place.offset /\ handle.length = units
    OBVIOUS
  <2>2. ASSUME NEW k \in 1 .. n, pages'[k].buffer = place.buffer
        PROVE  place.offset + units <= pages'[k].offset
    <3>1. k = at
      BY <1>5, <1>6, <1>8, <2>2
    <3> QED
      BY <3>1, <1>2, <1>3, <1>7, <1>8
  <2>3. ASSUME NEW unit \in place.offset .. place.offset + units - 1
        PROVE  memory'[place.buffer][unit] = <<frame', last>>
    <3>1. unit \in DOMAIN written
      BY <1>2, <1>3, <1>10
    <3> QED
      BY <3>1, <1>1, <1>10, <1>13
  <2>4. \A k \in 1 .. Len(pages') : pages'[k].buffer = place.buffer => place.offset + units <= pages'[k].offset
    BY <1>8, <2>2
  <2>5. place.buffer \in 1 .. Len(memory') /\ place.offset + units <= PoolPageSize
    BY <1>2, <1>9, <1>10
  <2>6. handles'[last] = handle
    BY <1>11, <1>13
  <2> HIDE DEF handle, place, written, owner
  <2>7. LET h == handle IN
        /\ h.buffer \in 1 .. Len(memory')
        /\ \A k \in 1 .. Len(pages') : pages'[k].buffer = h.buffer => h.at + h.length <= pages'[k].offset
        /\ h.at + h.length <= PoolPageSize
        /\ \A unit \in h.at .. h.at + h.length - 1 : memory'[h.buffer][unit] = <<frame', last>>
    BY <2>1, <2>3, <2>4, <2>5
  <2>8. HandleIsKept(last)' <=>
          LET h == handles'[last] IN
          /\ h.buffer \in 1 .. Len(memory')
          /\ \A k \in 1 .. Len(pages') : pages'[k].buffer = h.buffer => h.at + h.length <= pages'[k].offset
          /\ h.at + h.length <= PoolPageSize
          /\ \A unit \in h.at .. h.at + h.length - 1 : memory'[h.buffer][unit] = <<frame', last>>
    BY DEF HandleIsKept
  <2> QED
    BY <2>6, <2>7, <2>8
<1>14. FrameType'
  BY <1>1, <1>4, <1>5, <1>8, <1>10, <1>11 DEF FrameType
<1>15. PagesInv'
  <2>1. at # 0 /\ mapped' = pages'[at].buffer
    BY <1>1, <1>5, <1>8
  <2> HIDE DEF place, written
  <2> QED
    BY <1>1, <1>5, <1>6, <1>8, <1>10, <2>1 DEF PagesInv
<1> QED
  <2>1. \A i \in 1 .. Len(handles') : i \in 1 .. Len(handles) \/ i = Len(handles) + 1
    BY <1>4, <1>11
  <2>2. \A i \in 1 .. Len(handles') : HandleIsKept(i)'
    BY <1>12, <1>13, <2>1
  <2> QED
    BY <1>1, <1>14, <1>15, <2>2 DEF ConstantsInv

(* Empty sequences are sequences of anything.                              *)
LEMMA NothingIsEmpty ==
  <<>> \in Seq(Handle) /\ <<>> \in Seq(PoolPage) /\ <<>> \in Seq(Contents) /\ Len(<<>>) = 0
OBVIOUS

(* There are no pages at first.                                            *)
LEMMA ConstantsInit == Frames!Init => ConstantsInv
<1> SUFFICES ASSUME Frames!Init PROVE ConstantsInv
  OBVIOUS
<1>1. /\ pages = <<>> /\ current = 0 /\ memory = <<>> /\ handles = <<>> /\ perFrame = 0
      /\ rendering = FALSE /\ frame = 0
  BY DEF Frames!Init
<1>2. FrameType
  <2>1. current \in 0 .. Len(pages) /\ perFrame \in 0 .. Len(handles)
    BY <1>1, NothingIsEmpty
  <2> QED
    BY <1>1, <2>1, NothingIsEmpty, Zenon DEF FrameType
<1>3. PagesInv
  BY <1>1, NothingIsEmpty DEF PagesInv
<1> QED
  BY <1>1, <1>2, <1>3, NothingIsEmpty DEF ConstantsInv

\* Clear puts the mapped page first.
LEMMA ClearKeeps ==
  ASSUME ConstantsInv, Frames!CompleteFrame PROVE ConstantsInv'
<1> DEFINE emptied == [i \in DOMAIN pages |-> [pages[i] EXCEPT !.offset = 0]]
           swapped == Frames!Swapped(emptied, current)
<1>1. /\ pages' = IF current > 1 THEN swapped ELSE emptied
      /\ current' = IF current > 1 THEN 1 ELSE current
      /\ handles' = <<>> /\ perFrame' = 0 /\ rendering' = FALSE
      /\ UNCHANGED <<mapped, memory, frame>>
  BY DEF Frames!CompleteFrame, Frames!Clear
<1>2. /\ pages \in Seq(PoolPage) /\ memory \in Seq(Contents) /\ frame \in Nat
      /\ current \in 0 .. Len(pages)
  BY DEF ConstantsInv, FrameType
<1>3. PagesInv
  BY DEF ConstantsInv
<1>4. /\ emptied \in Seq(PoolPage) /\ Len(emptied) = Len(pages)
      /\ \A i \in 1 .. Len(pages) : emptied[i].buffer = pages[i].buffer /\ emptied[i].offset = 0
  <2>1. ASSUME NEW i \in 1 .. Len(pages)
        PROVE  /\ [pages[i] EXCEPT !.offset = 0] \in PoolPage
               /\ [pages[i] EXCEPT !.offset = 0].buffer = pages[i].buffer
               /\ [pages[i] EXCEPT !.offset = 0].offset = 0
    <3>1. pages[i] \in PoolPage
      BY <1>2
    <3> QED
      BY <3>1 DEF PoolPage
  <2>2. DOMAIN pages = 1 .. Len(pages) /\ Len(pages) \in Nat
    BY <1>2
  <2>3. emptied \in [1 .. Len(pages) -> PoolPage]
    BY <2>1, <2>2
  <2>4. \A i \in 1 .. Len(pages) : emptied[i] = [pages[i] EXCEPT !.offset = 0]
    BY <2>2
  <2> HIDE DEF emptied
  <2>5. emptied \in Seq(PoolPage) /\ Len(emptied) = Len(pages)
    BY <2>2, <2>3, LenProperties
  <2> QED
    BY <2>1, <2>4, <2>5, Zenon
<1> HIDE DEF emptied
<1>5. CASE ~(current > 1)
  <2>1. pages' = emptied /\ current' = current /\ (current = 0 => pages' = <<>>)
    BY <1>1, <1>2, <1>3, <1>4, <1>5 DEF PagesInv
  <2>2. FrameType'
    <3>1. current' \in 0 .. Len(pages') /\ perFrame' \in 0 .. Len(handles')
      BY <1>1, <1>2, <1>4, <2>1, NothingIsEmpty
    <3> QED
      BY <1>1, <1>2, <1>4, <2>1, <3>1, NothingIsEmpty, Zenon DEF FrameType
  <2>3. PagesInv'
    BY <1>1, <1>2, <1>3, <1>4, <2>1 DEF PagesInv
  <2> QED
    BY <1>1, <2>2, <2>3 DEF ConstantsInv
<1>6. CASE current > 1
  <2>1. /\ swapped \in Seq(PoolPage) /\ Len(swapped) = Len(pages)
        /\ \A i \in 1 .. Len(pages) :
             swapped[i] = IF i = 1 THEN emptied[current] ELSE IF i = current THEN emptied[1]
                          ELSE emptied[i]
    <3>1. current \in 1 .. Len(pages) /\ 1 \in 1 .. Len(pages)
      BY <1>2, <1>6
    <3>2. emptied[1] \in PoolPage /\ emptied[current] \in PoolPage
      BY <1>4, <3>1
    <3>3. swapped = [emptied EXCEPT ![1] = emptied[current], ![current] = emptied[1]]
      BY DEF Frames!Swapped
    <3> HIDE DEF swapped
    <3> QED
      BY <1>4, <1>6, <3>1, <3>2, <3>3
  <2> HIDE DEF swapped
  <2>2. pages' = swapped /\ current' = 1
    BY <1>1, <1>6
  <2>3. FrameType'
    <3>1. current' \in 0 .. Len(pages') /\ perFrame' \in 0 .. Len(handles')
      BY <1>1, <1>2, <1>6, <2>1, <2>2, NothingIsEmpty
    <3> QED
      BY <1>1, <1>2, <2>1, <2>2, <3>1, NothingIsEmpty, Zenon DEF FrameType
  <2>4. PagesInv'
    <3>1. Len(memory') = Len(pages')
      BY <1>1, <1>3, <2>1, <2>2 DEF PagesInv
    <3>2. current \in 1 .. Len(pages) /\ 1 \in 1 .. Len(pages) /\ current # 1
      BY <1>2, <1>6
    <3>3. \A i \in 1 .. Len(pages') : pages'[i].offset = 0
      BY <1>4, <2>1, <2>2, <3>2
    <3>4. \A i \in 1 .. Len(pages') :
            pages'[i].buffer = IF i = 1 THEN pages[current].buffer
                               ELSE IF i = current THEN pages[1].buffer ELSE pages[i].buffer
      BY <1>4, <2>1, <2>2, <3>2
    <3>5. mapped' = pages'[1].buffer
      BY <1>1, <1>3, <1>6, <2>1, <2>2, <3>2, <3>4 DEF PagesInv
    <3>6. /\ \A i \in 1 .. Len(pages) : pages[i].buffer \in 1 .. Len(pages)
          /\ \A i, j \in 1 .. Len(pages) : pages[i].buffer = pages[j].buffer => i = j
      BY <1>3 DEF PagesInv
    <3>7. \A i \in 1 .. Len(pages') : pages'[i].buffer \in 1 .. Len(pages')
      BY <2>1, <2>2, <3>2, <3>4, <3>6
    <3>8. \A i, j \in 1 .. Len(pages') : pages'[i].buffer = pages'[j].buffer => i = j
      BY <2>1, <2>2, <3>2, <3>4, <3>6
    <3> QED
      BY <2>2, <3>1, <3>3, <3>5, <3>7, <3>8 DEF PagesInv
  <2> QED
    BY <1>1, <2>3, <2>4 DEF ConstantsInv
<1> QED
  BY <1>5, <1>6

(* The invariant reads only the constants and the frame.                   *)
LEMMA ConstantsUnchanged ==
  ASSUME ConstantsInv, UNCHANGED Frames!constantVars, UNCHANGED <<rendering, frame>>
  PROVE  ConstantsInv'
BY DEF ConstantsInv, FrameType, PagesInv, HandleIsKept, Frames!constantVars

\* A frame begins without handles.
LEMMA PrepareKeepsConstants == ConstantsInv /\ Frames!Prepare => ConstantsInv'
<1> SUFFICES ASSUME ConstantsInv, Frames!Prepare PROVE ConstantsInv'
  OBVIOUS
<1>1. /\ handles' = <<>> /\ frame' = frame + 1 /\ rendering' = TRUE
      /\ UNCHANGED <<pages, current, mapped, memory, handles, perFrame>>
  BY DEF Frames!Prepare, ConstantsInv, Frames!constantVars
<1> QED
  BY <1>1 DEF ConstantsInv, FrameType, PagesInv

(* No operation on constants, and no frame, breaks the invariant.          *)
LEMMA ConstantsStep == ConstantsInv /\ [Frames!Next]_(Frames!frameVars) => ConstantsInv'
<1> SUFFICES ASSUME ConstantsInv, [Frames!Next]_(Frames!frameVars) PROVE ConstantsInv'
  OBVIOUS
<1>1. ASSUME NEW units \in DataSizes, Frames!SetPerFrameCb(units) PROVE ConstantsInv'
  BY <1>1, SetConstantsKeeps DEF Frames!SetPerFrameCb
<1>2. ASSUME NEW units \in DataSizes, Frames!SetConstants(units), UNCHANGED perFrame
      PROVE  ConstantsInv'
  BY <1>2, SetConstantsKeeps
<1>3. CASE Frames!CreateTransient
  BY <1>3, ConstantsUnchanged DEF Frames!CreateTransient, Frames!Take
<1>4. CASE Frames!CreatePermanent
  BY <1>4, ConstantsUnchanged DEF Frames!CreatePermanent, Frames!Take
<1>5. CASE Frames!Prepare
  BY <1>5, PrepareKeepsConstants
<1>6. CASE Frames!CompleteFrame
  BY <1>6, ClearKeeps
<1>7. CASE UNCHANGED (Frames!frameVars)
  BY <1>7, ConstantsUnchanged DEF Frames!frameVars, Frames!constantVars
<1> QED
  BY <1>1, <1>2, <1>3, <1>4, <1>5, <1>6, <1>7 DEF Frames!Next

-------------------------------------------------------------------------------
(* FrameMemory: the descriptors.                                           *)

View == [heap : Frames!Heaps, at : Nat, n : Nat \ {0}, kept : BOOLEAN]

DescriptorsAreDisjoint ==
  \A v, w \in views : v # w /\ v.heap = w.heap => v.at + v.n <= w.at \/ w.at + w.n <= v.at

\* The views kept lie in front of those of the frame, of which there are
\* none between frames.
DescriptorsInv ==
  /\ rendering \in BOOLEAN
  /\ static \in [{"srv", "dsv", "rtv"} -> Nat]
  /\ descriptor \in [Frames!Heaps -> Nat]
  /\ \A h \in Frames!Heaps : static[Frames!KindOf(h)] <= descriptor[h]
  /\ ~rendering => \A h \in Frames!Heaps : static[Frames!KindOf(h)] = descriptor[h]
  /\ views \subseteq View
  /\ \A v \in views :
       /\ v.at + v.n <= descriptor[v.heap]
       /\ v.kept => v.at + v.n <= static[Frames!KindOf(v.heap)]
       /\ ~v.kept => rendering
  /\ DescriptorsAreDisjoint

(* There are heaps of three kinds.                                         *)
LEMMA KindOfHeap == \A h \in Frames!Heaps : Frames!KindOf(h) \in {"srv", "dsv", "rtv"}
BY DEF Frames!Heaps, Frames!KindOf

\* New runs begin where all others of their heap have ended.
LEMMA TakeKeepsDisjoint ==
  ASSUME DescriptorsInv, NEW hs \in SUBSET Frames!Heaps, NEW n \in Nat \ {0},
         NEW kept \in BOOLEAN, Frames!Take(hs, n, kept)
  PROVE  /\ descriptor' \in [Frames!Heaps -> Nat]
         /\ \A h \in Frames!Heaps : descriptor'[h] = IF h \in hs THEN descriptor[h] + n
                                                    ELSE descriptor[h]
         /\ views' \subseteq View
         /\ \A v \in views' : \/ v \in views /\ v.at + v.n <= descriptor[v.heap]
                              \/ v = [heap |-> v.heap, at |-> descriptor[v.heap], n |-> n, kept |-> kept]
                                 /\ v.heap \in hs
         /\ DescriptorsAreDisjoint'
         /\ UNCHANGED rendering
<1>1. /\ descriptor' = [h \in Frames!Heaps |-> IF h \in hs THEN descriptor[h] + n ELSE descriptor[h]]
      /\ views' = views \cup Frames!Run(hs, n, kept)
      /\ UNCHANGED rendering
  BY DEF Frames!Take
<1>2. /\ descriptor \in [Frames!Heaps -> Nat] /\ views \subseteq View
      /\ \A v \in views : v.at + v.n <= descriptor[v.heap]
      /\ DescriptorsAreDisjoint
  BY DEF DescriptorsInv
<1>3. ASSUME NEW v \in Frames!Run(hs, n, kept)
      PROVE  /\ v \in View /\ v.heap \in hs /\ v.at = descriptor[v.heap]
             /\ v = [heap |-> v.heap, at |-> descriptor[v.heap], n |-> n, kept |-> kept]
  <2>1. PICK h \in hs : v = [heap |-> h, at |-> descriptor[h], n |-> n, kept |-> kept]
    BY <1>3 DEF Frames!Run
  <2>2. descriptor[h] \in Nat /\ h \in Frames!Heaps
    BY <1>2
  <2>3. v.heap = h /\ v.at = descriptor[h]
    BY <2>1
  <2> QED
    BY <2>1, <2>2, <2>3 DEF View
<1>4. views' \subseteq View
  BY <1>1, <1>2, <1>3
<1>5. ASSUME NEW v \in views'
      PROVE  \/ v \in views /\ v.at + v.n <= descriptor[v.heap]
             \/ v = [heap |-> v.heap, at |-> descriptor[v.heap], n |-> n, kept |-> kept]
                /\ v.heap \in hs /\ v.at = descriptor[v.heap]
  BY <1>1, <1>2, <1>3
<1>6. ASSUME NEW v \in views', NEW w \in views', v # w, v.heap = w.heap
      PROVE  v.at + v.n <= w.at \/ w.at + w.n <= v.at
  <2>1. CASE v \in views /\ w \in views
    BY <1>2, <1>6, <2>1 DEF DescriptorsAreDisjoint
  <2>2. CASE v \in views /\ w \notin views
    <3>1. w.at = descriptor[w.heap] /\ v.at + v.n <= descriptor[v.heap]
      BY <1>2, <1>5, <2>2
    <3> QED
      BY <3>1, <1>6
  <2>3. CASE v \notin views /\ w \in views
    <3>1. v.at = descriptor[v.heap] /\ w.at + w.n <= descriptor[w.heap]
      BY <1>2, <1>5, <2>3
    <3> QED
      BY <3>1, <1>6
  <2>4. CASE v \notin views /\ w \notin views
    <3>1. /\ v = [heap |-> v.heap, at |-> descriptor[v.heap], n |-> n, kept |-> kept]
          /\ w = [heap |-> w.heap, at |-> descriptor[w.heap], n |-> n, kept |-> kept]
      BY <1>5, <2>4
    <3> QED
      BY <3>1, <1>6
  <2> QED
    BY <2>1, <2>2, <2>3, <2>4
<1>7. DescriptorsAreDisjoint'
  BY <1>6 DEF DescriptorsAreDisjoint
<1> QED
  BY <1>1, <1>2, <1>4, <1>5, <1>7

(* Transient views: until the frame is complete.                           *)
LEMMA TransientKeeps == DescriptorsInv /\ Frames!CreateTransient => DescriptorsInv'
<1> SUFFICES ASSUME DescriptorsInv, Frames!CreateTransient PROVE DescriptorsInv'
  OBVIOUS
<1>1. PICK hs \in {{"srvCpu", "srvShader"}, {"srvShader"}, {"rtv"}, {"dsv"}} : Frames!Take(hs, 1, FALSE)
  BY Zenon DEF Frames!CreateTransient
<1>2. rendering /\ UNCHANGED static
  BY DEF Frames!CreateTransient
<1>3. hs \in SUBSET Frames!Heaps
  BY DEF Frames!Heaps
<1>4. /\ descriptor' \in [Frames!Heaps -> Nat]
      /\ \A h \in Frames!Heaps : descriptor'[h] = IF h \in hs THEN descriptor[h] + 1 ELSE descriptor[h]
      /\ views' \subseteq View
      /\ \A v \in views' : \/ v \in views /\ v.at + v.n <= descriptor[v.heap]
                           \/ v = [heap |-> v.heap, at |-> descriptor[v.heap], n |-> 1, kept |-> FALSE]
                              /\ v.heap \in hs
      /\ DescriptorsAreDisjoint' /\ UNCHANGED rendering
  BY <1>1, <1>3, 1 \in Nat \ {0}, FALSE \in BOOLEAN, TakeKeepsDisjoint, Zenon
<1>5. /\ static \in [{"srv", "dsv", "rtv"} -> Nat] /\ descriptor \in [Frames!Heaps -> Nat]
      /\ \A h \in Frames!Heaps : static[Frames!KindOf(h)] <= descriptor[h]
      /\ \A v \in views : v.kept => v.at + v.n <= static[Frames!KindOf(v.heap)]
  BY DEF DescriptorsInv
<1>6. \A h \in Frames!Heaps : static[Frames!KindOf(h)] <= descriptor'[h] /\ descriptor[h] <= descriptor'[h]
  BY <1>4, <1>5, KindOfHeap
<1>7. ASSUME NEW v \in views'
      PROVE  /\ v.at + v.n <= descriptor'[v.heap]
             /\ v.kept => v.at + v.n <= static[Frames!KindOf(v.heap)]
  <2>1. v \in View /\ v.heap \in Frames!Heaps /\ v.at \in Nat /\ v.n \in Nat
    BY <1>4 DEF View
  <2>2. CASE v \in views
    <3>1. v.at + v.n <= descriptor[v.heap]
      BY <2>2 DEF DescriptorsInv
    <3>2. descriptor[v.heap] \in Nat /\ descriptor'[v.heap] \in Nat
      BY <1>4, <1>5, <2>1
    <3> QED
      BY <1>5, <1>6, <2>1, <2>2, <3>1, <3>2
  <2>3. CASE v \notin views
    <3>1. v.at = descriptor[v.heap] /\ v.n = 1 /\ v.kept = FALSE /\ v.heap \in hs
      BY <1>4, <2>3
    <3> QED
      BY <1>4, <2>1, <3>1
  <2> QED
    BY <2>2, <2>3
<1> QED
  BY <1>2, <1>4, <1>5, <1>6, <1>7 DEF DescriptorsInv

(* Permanent views: never given back.                                      *)
LEMMA PermanentKeeps == DescriptorsInv /\ Frames!CreatePermanent => DescriptorsInv'
<1> SUFFICES ASSUME DescriptorsInv, Frames!CreatePermanent PROVE DescriptorsInv'
  OBVIOUS
<1>1. PICK kind \in {"srv", "dsv", "rtv"}, n \in 1 .. 2 :
        /\ Frames!Take({h \in Frames!Heaps : Frames!KindOf(h) = kind}, n, TRUE)
        /\ static' = [static EXCEPT ![kind] = @ + n]
  BY Zenon DEF Frames!CreatePermanent
<1> DEFINE hs == {h \in Frames!Heaps : Frames!KindOf(h) = kind}
<1>2. ~rendering
  BY DEF Frames!CreatePermanent
<1>3. /\ descriptor' \in [Frames!Heaps -> Nat]
      /\ \A h \in Frames!Heaps : descriptor'[h] = IF h \in hs THEN descriptor[h] + n ELSE descriptor[h]
      /\ views' \subseteq View
      /\ \A v \in views' : \/ v \in views /\ v.at + v.n <= descriptor[v.heap]
                           \/ v = [heap |-> v.heap, at |-> descriptor[v.heap], n |-> n, kept |-> TRUE]
                              /\ v.heap \in hs
      /\ DescriptorsAreDisjoint' /\ UNCHANGED rendering
  <2>1. hs \in SUBSET Frames!Heaps /\ n \in Nat \ {0}
    OBVIOUS
  <2>2. Frames!Take(hs, n, TRUE)
    BY <1>1, Zenon
  <2> HIDE DEF hs
  <2> QED
    BY <2>1, <2>2, TakeKeepsDisjoint, Zenon
<1>4. /\ static \in [{"srv", "dsv", "rtv"} -> Nat] /\ descriptor \in [Frames!Heaps -> Nat]
      /\ \A h \in Frames!Heaps : static[Frames!KindOf(h)] = descriptor[h]
      /\ \A v \in views : v.kept
  BY <1>2 DEF DescriptorsInv
<1>5. /\ static' \in [{"srv", "dsv", "rtv"} -> Nat]
      /\ \A h \in Frames!Heaps : static'[Frames!KindOf(h)] = descriptor'[h]
                                 /\ descriptor[h] <= descriptor'[h]
  <2>1. static' \in [{"srv", "dsv", "rtv"} -> Nat]
    BY <1>1, <1>4
  <2>2. ASSUME NEW h \in Frames!Heaps
        PROVE  static'[Frames!KindOf(h)] = descriptor'[h] /\ descriptor[h] <= descriptor'[h]
    <3>1. Frames!KindOf(h) \in {"srv", "dsv", "rtv"} /\ descriptor[h] \in Nat
      BY <1>4, KindOfHeap
    <3>2. h \in hs <=> Frames!KindOf(h) = kind
      OBVIOUS
    <3>3. static'[Frames!KindOf(h)] = IF Frames!KindOf(h) = kind THEN static[Frames!KindOf(h)] + n
                                      ELSE static[Frames!KindOf(h)]
      BY <1>1, <1>4, <3>1
    <3> HIDE DEF hs
    <3> QED
      BY <1>3, <1>4, <3>1, <3>2, <3>3
  <2> QED
    BY <2>1, <2>2
<1> HIDE DEF hs
<1>6. ASSUME NEW v \in views'
      PROVE  /\ v.at + v.n <= descriptor'[v.heap] /\ v.kept
             /\ static'[Frames!KindOf(v.heap)] = descriptor'[v.heap]
  <2>1. v \in View /\ v.heap \in Frames!Heaps /\ v.at \in Nat /\ v.n \in Nat
    BY <1>3 DEF View
  <2>2. descriptor[v.heap] \in Nat /\ descriptor'[v.heap] \in Nat
    BY <1>3, <1>4, <2>1
  <2>3. CASE v \in views
    <3>1. v.at + v.n <= descriptor[v.heap]
      BY <2>3 DEF DescriptorsInv
    <3> QED
      BY <1>4, <1>5, <2>1, <2>2, <2>3, <3>1
  <2>4. CASE v \notin views
    <3>1. v.at = descriptor[v.heap] /\ v.n = n /\ v.kept /\ v.heap \in hs
      BY <1>3, <2>4
    <3> QED
      BY <1>3, <1>5, <2>1, <2>2, <3>1
  <2> QED
    BY <2>3, <2>4
<1>7. \A h \in Frames!Heaps : static'[Frames!KindOf(h)] <= descriptor'[h]
  BY <1>3, <1>5
<1> QED
  BY <1>2, <1>3, <1>5, <1>6, <1>7 DEF DescriptorsInv

(* No operation on descriptors, and no frame, breaks the invariant.        *)
LEMMA DescriptorsStep == DescriptorsInv /\ [Frames!Next]_(Frames!frameVars) => DescriptorsInv'
<1> SUFFICES ASSUME DescriptorsInv, [Frames!Next]_(Frames!frameVars) PROVE DescriptorsInv'
  OBVIOUS
<1>1. CASE UNCHANGED Frames!descriptorVars
  BY <1>1 DEF Frames!descriptorVars, DescriptorsInv, DescriptorsAreDisjoint
<1>2. ASSUME NEW units \in DataSizes, Frames!SetConstants(units) PROVE DescriptorsInv'
  BY <1>1, <1>2 DEF Frames!SetConstants
<1>3. ASSUME NEW h \in Frames!Heaps PROVE Frames!StartOver[h] = static[Frames!KindOf(h)]
  BY DEF Frames!StartOver
<1>4. Frames!StartOver \in [Frames!Heaps -> Nat]
  BY KindOfHeap DEF Frames!StartOver, DescriptorsInv
<1>5. \A h \in Frames!Heaps : static[Frames!KindOf(h)] \in Nat
  BY KindOfHeap DEF DescriptorsInv
<1>6. CASE Frames!Prepare
  <2>1. /\ ~rendering /\ rendering' = TRUE /\ descriptor' = Frames!StartOver
        /\ UNCHANGED <<static, views>>
    BY <1>6 DEF Frames!Prepare
  <2>2. descriptor' = descriptor
    BY <1>3, <1>4, <2>1 DEF DescriptorsInv
  <2> QED
    BY <2>1, <2>2 DEF DescriptorsInv, DescriptorsAreDisjoint
<1>7. CASE Frames!CompleteFrame
  <2>1. /\ rendering' = FALSE /\ descriptor' = Frames!StartOver /\ UNCHANGED static
        /\ views' = {v \in views : v.kept}
    BY <1>7 DEF Frames!CompleteFrame
  <2>2. DescriptorsAreDisjoint'
    BY <2>1 DEF DescriptorsInv, DescriptorsAreDisjoint
  <2>3. ASSUME NEW v \in views' PROVE v.kept /\ v.at + v.n <= descriptor'[v.heap]
                                      /\ v.at + v.n <= static[Frames!KindOf(v.heap)] /\ v \in View
    <3>1. v \in views /\ v.kept /\ v \in View
      BY <2>1 DEF DescriptorsInv
    <3>2. v.heap \in Frames!Heaps
      BY <3>1 DEF View
    <3> QED
      BY <1>3, <2>1, <3>1, <3>2 DEF DescriptorsInv
  <2>4. \A h \in Frames!Heaps : static'[Frames!KindOf(h)] = descriptor'[h]
                                /\ static'[Frames!KindOf(h)] <= descriptor'[h]
    BY <1>3, <1>5, <2>1
  <2>5. static' \in [{"srv", "dsv", "rtv"} -> Nat] /\ descriptor' \in [Frames!Heaps -> Nat]
    BY <1>4, <2>1 DEF DescriptorsInv
  <2> QED
    BY <2>1, <2>2, <2>3, <2>4, <2>5, Zenon DEF DescriptorsInv
<1>8. CASE UNCHANGED (Frames!frameVars)
  BY <1>1, <1>8 DEF Frames!frameVars, Frames!descriptorVars
<1> QED
  BY <1>2, <1>6, <1>7, <1>8, TransientKeeps, PermanentKeeps DEF Frames!Next, Frames!SetPerFrameCb

(* No descriptor is given out at first.                                    *)
LEMMA DescriptorsInit == Frames!Init => DescriptorsInv
<1> SUFFICES ASSUME Frames!Init PROVE DescriptorsInv
  OBVIOUS
<1>1. /\ descriptor = [h \in Frames!Heaps |-> 0] /\ static = [k \in {"srv", "dsv", "rtv"} |-> 0]
      /\ views = {} /\ rendering = FALSE
  BY DEF Frames!Init
<1>2. \A h \in Frames!Heaps : static[Frames!KindOf(h)] = 0 /\ descriptor[h] = 0
  BY <1>1, KindOfHeap
<1>3. static \in [{"srv", "dsv", "rtv"} -> Nat] /\ descriptor \in [Frames!Heaps -> Nat]
  BY <1>1
<1>4. \A h \in Frames!Heaps : static[Frames!KindOf(h)] = descriptor[h]
                              /\ static[Frames!KindOf(h)] <= descriptor[h]
  BY <1>2
<1>5. rendering \in BOOLEAN /\ views = {} /\ views \subseteq View
  BY <1>1, Zenon
<1> QED
  BY <1>3, <1>4, <1>5, Zenon DEF DescriptorsInv, DescriptorsAreDisjoint

(* The invariants of the two pools say what the property does.             *)
LEMMA FrameMemoryFollows == ConstantsInv /\ DescriptorsInv => FrameMemoryIsKept
<1> SUFFICES ASSUME ConstantsInv, DescriptorsInv PROVE FrameMemoryIsKept
  OBVIOUS
<1>1. ASSUME NEW i \in DOMAIN handles PROVE HandleIsKept(i)
  BY DEF ConstantsInv, FrameType
<1> QED
  BY <1>1, Zenon DEF FrameMemoryIsKept, Frames!FrameMemoryIsKept, HandleIsKept, ConstantsInv, FrameType,
              DescriptorsInv, DescriptorsAreDisjoint

(* What a pass has set stays readable until its frame is complete, and no  *)
(* descriptor is given out twice: for any size of page and alignment, any  *)
(* constants, views and frames.                                            *)
THEOREM FrameMemoryHolds == Frames!Spec => []FrameMemoryIsKept
BY ConstantsInit, ConstantsStep, DescriptorsInit, DescriptorsStep, FrameMemoryFollows, PTL
   DEF Frames!Spec
-------------------------------------------------------------------------------
(* RenderFrame: the pools of command lists and their allocators.           *)

Allocators == Nat \ {0}

Pool == [free : Seq(Allocators), pairs : Seq(Allocators), made : Nat]

Distinct(s) == \A i, j \in DOMAIN s : s[i] = s[j] => i = j

(* A pool when the allocators `used' are out: no allocator is in two       *)
(* places, and a new one is none of them.                                  *)
PoolOk(p, used) ==
  /\ p \in Pool
  /\ \A a \in used : a \in 1 .. p.made
  /\ \A i \in DOMAIN p.free : p.free[i] \in 1 .. p.made /\ p.free[i] \notin used
  /\ \A i \in DOMAIN p.pairs : p.pairs[i] \in 1 .. p.made /\ p.pairs[i] \notin used
  /\ Distinct(p.free) /\ Distinct(p.pairs)
  /\ \A i \in DOMAIN p.free, j \in DOMAIN p.pairs : p.free[i] # p.pairs[j]

(* The allocators of the lists in l behind the n-th.                       *)
UsedBehind(l, n, q) == {l[k].alloc : k \in {m \in DOMAIN l : m > n /\ l[m].type = q}}
Used(l, q) == UsedBehind(l, 0, q)

Execs   == [op : {"exec"}, pass : Int, alloc : Allocators]
Signals == [op : {"signal"}, fence : {"main", "upload"}, value : Nat]
Waits   == [op : {"wait"}, value : Nat]
Items   == Execs \cup Signals \cup Waits
Lists   == [type : Render!Queues, alloc : Allocators]
Fences  == [value : Nat, reached : Nat]

RenderTypes ==
  /\ script \in Seq(Render!Calls)
  /\ phase \in {"idle", "record", "wait", "upload", "asserted"}
  /\ turn \in Nat \ {0}
  /\ Len(graph) \in Nat /\ graph \in Seq(Render!ToSet(graph))
  /\ \A i \in DOMAIN graph : graph[i].type \in Render!Queues
  /\ recorded \in [Render!Queues -> Seq(Execs)]
  /\ gpu \in [Render!Queues -> Seq(Items)]
  /\ fence \in Fences /\ fence.reached <= fence.value
  /\ upload \in Fences
  /\ lists \in Seq(Lists)

(* The pools p fit the lists l in flight.                                  *)
PoolsFit(p, l) ==
  /\ p \in [Render!Queues -> Pool]
  /\ \A q \in Render!Queues : PoolOk(p[q], Used(l, q))
  /\ \A j, k \in DOMAIN l : l[j].type = l[k].type /\ l[j].alloc = l[k].alloc => j = k

PoolsOk == PoolsFit(pool, lists)

(* What is recorded or with the GPU is in flight.                          *)
WorkIsInFlight ==
  \A q \in Render!Queues :
    /\ \A k \in DOMAIN recorded[q] : recorded[q][k].alloc \in Used(lists, q)
    /\ \A k \in DOMAIN gpu[q] : gpu[q][k].op = "exec" => gpu[q][k].alloc \in Used(lists, q)

IsMain(item) == item.op = "signal" /\ item.fence = "main"
(* A signal of v, and a wait for v: behind either, v is reached.           *)
Mark(item, v) == (IsMain(item) \/ item.op = "wait") /\ item.value = v
Marked(s, v) == \E j \in DOMAIN s : Mark(s[j], v)

(* The main fence's signals in a queue come after the mark of the value    *)
(* before theirs, unless that is reached.                                  *)
SignalsOk(s, reached, value) ==
  \A k \in DOMAIN s : IsMain(s[k]) =>
    /\ reached < s[k].value /\ s[k].value <= value
    /\ s[k].value - 1 = reached \/ \E j \in 1 .. k - 1 : Mark(s[j], s[k].value - 1)

(* The last value is reached or is marked in the queue.                    *)
Pending(s, reached, value) == value <= reached \/ Marked(s, value)

FencesOk ==
  /\ \A q \in Render!Queues : SignalsOk(gpu[q], fence.reached, fence.value)
  /\ \A q, r \in Render!Queues : \A k \in DOMAIN gpu[q], l \in DOMAIN gpu[r] :
       IsMain(gpu[q][k]) /\ IsMain(gpu[r][l]) /\ gpu[q][k].value = gpu[r][l].value
         => q = r /\ k = l

(* The list of an upload is the last but one, before its signal.           *)
IsUpload(k) ==
  /\ phase = "upload" /\ k = Len(gpu["direct"]) - 1
  /\ gpu["direct"][k + 1] = Render!Signal("upload", upload.value)

(* Behind work on a queue is a signal of the main fence, or it is an       *)
(* upload's, which the host waits for by its own fence.                    *)
WorkIsSignalled ==
  /\ \A q \in Render!Queues : \A k \in DOMAIN gpu[q] : gpu[q][k].op = "exec" =>
       \/ \E l \in DOMAIN gpu[q] : l > k /\ IsMain(gpu[q][l])
       \/ q = "direct" /\ IsUpload(k)
  /\ \A q \in Render!Queues : \A k \in DOMAIN gpu[q] :
       gpu[q][k].op = "signal" /\ gpu[q][k].fence = "upload" =>
         /\ q = "direct" /\ phase = "upload" /\ k = Len(gpu[q])
         /\ gpu[q][k].value = upload.value /\ upload.reached < upload.value
  /\ upload.reached <= upload.value
  /\ phase = "upload" =>
       /\ lists # <<>> /\ lists[Len(lists)].type = "direct"
       /\ \A k \in DOMAIN gpu["direct"] :
            gpu["direct"][k].op = "exec" /\ gpu["direct"][k].alloc = lists[Len(lists)].alloc
              => IsUpload(k)

(* What was signalled last is pending on the queues, or the application    *)
(* synchronises before it draws again; the lists of the two transitions of *)
(* the back buffer are where CloseFrame looks for them.                    *)
ScriptOk ==
  /\ Render!IsSynced(script)
  /\ phase = "record" =>
       /\ \A q \in Render!Queues : Pending(gpu[q], fence.reached, fence.value)
       /\ Render!Settles(script, 0, {"upload"} \cup
                                 IF Render!UsingBackbuffer(graph) THEN {"present"} ELSE {})
       /\ turn <= Len(graph) + 1
       /\ Render!UsingBackbuffer(graph) =>
            Len(lists) >= turn + 1 /\ lists[Len(lists) - turn + 1].type = "direct"
  /\ phase \in {"idle", "upload"} =>
       \/ fence.value <= fence.reached
       \/ Render!Settles(script, 0, {"upload"})
       \/ /\ Render!Settles(script, 0, {"upload", "present"})
          /\ Pending(gpu["direct"], fence.reached, fence.value)
  /\ phase \in {"idle", "upload", "wait"} => \A q \in Render!Queues : recorded[q] = <<>>

RenderInv == RenderTypes /\ PoolsOk /\ WorkIsInFlight /\ FencesOk /\ WorkIsSignalled /\ ScriptOk

(* Front and Last of the instance are those of the library.                *)
LEMMA FrontAndLast ==
  ASSUME NEW S, NEW s \in Seq(S), s # <<>>
  PROVE  /\ Render!Last(s) = s[Len(s)] /\ Len(s) \in DOMAIN s /\ s[Len(s)] \in S
         /\ Render!Front(s) \in Seq(S) /\ Len(Render!Front(s)) = Len(s) - 1
         /\ \A i \in 1 .. Len(s) - 1 : i \in DOMAIN s /\ Render!Front(s)[i] = s[i]
         /\ DOMAIN Render!Front(s) = 1 .. Len(s) - 1
<1>1. Len(s) \in Nat \ {0} /\ DOMAIN s = 1 .. Len(s)
  BY EmptySeq
<1> QED
  BY <1>1 DEF Render!Last, Render!Front

(* An allocator that is given out was nowhere else.                        *)
LEMMA AllocatorIsFree ==
  ASSUME NEW p, NEW used, PoolOk(p, used)
  PROVE  LET g == Render!GetAllocator(p)
         IN  g.alloc \in Allocators /\ g.alloc \notin used /\ PoolOk(g.pool, used \cup {g.alloc})
<1> DEFINE g == Render!GetAllocator(p)
<1> SUFFICES g.alloc \in Allocators /\ g.alloc \notin used /\ PoolOk(g.pool, used \cup {g.alloc})
  OBVIOUS
<1>1. /\ p \in Pool /\ p.made \in Nat /\ p.free \in Seq(Allocators) /\ p.pairs \in Seq(Allocators)
  BY DEF PoolOk, Pool
<1>2. CASE p.free = <<>>
  <2>1. g.alloc = p.made + 1 /\ g.pool = [p EXCEPT !.made = @ + 1]
    BY <1>2 DEF Render!GetAllocator
  <2>2. /\ g.pool \in Pool /\ g.pool.made = p.made + 1
        /\ g.pool.free = p.free /\ g.pool.pairs = p.pairs
    BY <1>1, <2>1 DEF Pool
  <2> HIDE DEF g
  <2> QED
    BY <1>1, <2>1, <2>2 DEF PoolOk, Allocators, Distinct
<1>3. CASE p.free # <<>>
  <2>1. g.alloc = Render!Last(p.free) /\ g.pool = [p EXCEPT !.free = Render!Front(@)]
    BY <1>3 DEF Render!GetAllocator
  <2>2. /\ Render!Last(p.free) = p.free[Len(p.free)] /\ Len(p.free) \in DOMAIN p.free
        /\ Render!Front(p.free) \in Seq(Allocators)
        /\ \A i \in 1 .. Len(p.free) - 1 : i \in DOMAIN p.free /\ Render!Front(p.free)[i] = p.free[i]
        /\ DOMAIN Render!Front(p.free) = 1 .. Len(p.free) - 1
    BY <1>1, <1>3, FrontAndLast, Zenon
  <2>3. /\ g.pool \in Pool /\ g.pool.made = p.made
        /\ g.pool.free = Render!Front(p.free) /\ g.pool.pairs = p.pairs
    BY <1>1, <2>1, <2>2, Zenon DEF Pool
  <2> HIDE DEF g
  <2>4. g.alloc \in 1 .. p.made /\ g.alloc \notin used
    BY <2>1, <2>2 DEF PoolOk
  <2>5. \A i \in 1 .. Len(p.free) - 1 : p.free[i] # g.alloc
    BY <1>1, <2>1, <2>2 DEF PoolOk, Distinct
  <2>6. \A i \in DOMAIN p.pairs : p.pairs[i] # g.alloc
    BY <2>1, <2>2 DEF PoolOk
  <2>7. Distinct(g.pool.free)
    BY <2>2, <2>3 DEF PoolOk, Distinct
  <2>8. g.alloc \in Allocators
    BY <1>1, <2>4 DEF Allocators
  <2> QED
    BY <1>1, <2>2, <2>3, <2>4, <2>5, <2>6, <2>7, <2>8, Zenon DEF PoolOk
<1> QED
  BY <1>2, <1>3

(* The same of the pair of a list and its allocator.                       *)
LEMMA PairIsFree ==
  ASSUME NEW p, NEW used, PoolOk(p, used)
  PROVE  LET g == Render!GetPair(p)
         IN  g.alloc \in Allocators /\ g.alloc \notin used /\ PoolOk(g.pool, used \cup {g.alloc})
<1> DEFINE g == Render!GetPair(p)
<1> SUFFICES g.alloc \in Allocators /\ g.alloc \notin used /\ PoolOk(g.pool, used \cup {g.alloc})
  OBVIOUS
<1>1. /\ p \in Pool /\ p.made \in Nat /\ p.free \in Seq(Allocators) /\ p.pairs \in Seq(Allocators)
  BY DEF PoolOk, Pool
<1>2. CASE p.pairs = <<>>
  <2>1. g = Render!GetAllocator(p)
    BY <1>2 DEF Render!GetPair
  <2> QED
    BY <2>1, AllocatorIsFree
<1>3. CASE p.pairs # <<>>
  <2>1. g.alloc = Render!Last(p.pairs) /\ g.pool = [p EXCEPT !.pairs = Render!Front(@)]
    BY <1>3 DEF Render!GetPair
  <2>2. /\ Render!Last(p.pairs) = p.pairs[Len(p.pairs)] /\ Len(p.pairs) \in DOMAIN p.pairs
        /\ Render!Front(p.pairs) \in Seq(Allocators)
        /\ \A i \in 1 .. Len(p.pairs) - 1 : i \in DOMAIN p.pairs /\ Render!Front(p.pairs)[i] = p.pairs[i]
        /\ DOMAIN Render!Front(p.pairs) = 1 .. Len(p.pairs) - 1
    BY <1>1, <1>3, FrontAndLast, Zenon
  <2>3. /\ g.pool \in Pool /\ g.pool.made = p.made
        /\ g.pool.pairs = Render!Front(p.pairs) /\ g.pool.free = p.free
    BY <1>1, <2>1, <2>2, Zenon DEF Pool
  <2> HIDE DEF g
  <2>4. g.alloc \in 1 .. p.made /\ g.alloc \notin used
    BY <2>1, <2>2 DEF PoolOk
  <2>5. \A i \in 1 .. Len(p.pairs) - 1 : p.pairs[i] # g.alloc
    BY <1>1, <2>1, <2>2 DEF PoolOk, Distinct
  <2>6. \A i \in DOMAIN p.free : p.free[i] # g.alloc
    BY <2>1, <2>2 DEF PoolOk
  <2>7. Distinct(g.pool.pairs)
    BY <2>2, <2>3 DEF PoolOk, Distinct
  <2>8. g.alloc \in Allocators
    BY <1>1, <2>4 DEF Allocators
  <2> QED
    BY <1>1, <2>2, <2>3, <2>4, <2>5, <2>6, <2>7, <2>8, Zenon DEF PoolOk
<1> QED
  BY <1>2, <1>3

(* A list that is returned takes an allocator that is free.                *)
LEMMA ListIsReturned ==
  ASSUME NEW p, NEW used, PoolOk(p, used)
  PROVE  PoolOk(Render!ReturnCommandList(p), used)
<1> DEFINE g == Render!GetAllocator(p)
           r == Render!ReturnCommandList(p)
<1>1. g.alloc \in Allocators /\ g.alloc \notin used /\ PoolOk(g.pool, used \cup {g.alloc})
  BY AllocatorIsFree
<1>2. r = [g.pool EXCEPT !.pairs = Append(@, g.alloc)]
  BY DEF Render!ReturnCommandList
<1> HIDE DEF g, r
<1>3. /\ g.pool \in Pool /\ g.pool.made \in Nat
      /\ g.pool.free \in Seq(Allocators) /\ g.pool.pairs \in Seq(Allocators)
  BY <1>1 DEF PoolOk, Pool
<1>4. /\ r \in Pool /\ r.made = g.pool.made /\ r.free = g.pool.free
      /\ r.pairs = Append(g.pool.pairs, g.alloc)
  <2> DEFINE s == Append(g.pool.pairs, g.alloc)
  <2>1. s \in Seq(Allocators)
    BY <1>1, <1>3, AppendProperties
  <2>2. r = [g.pool EXCEPT !.pairs = s]
    BY <1>2
  <2> HIDE DEF s
  <2>3. /\ r \in Pool /\ r.made = g.pool.made /\ r.free = g.pool.free /\ r.pairs = s
    BY <1>3, <2>1, <2>2 DEF Pool
  <2> QED BY <2>3 DEF s
<1>5. /\ DOMAIN r.pairs = 1 .. Len(g.pool.pairs) + 1
      /\ DOMAIN g.pool.pairs = 1 .. Len(g.pool.pairs) /\ Len(g.pool.pairs) \in Nat
      /\ r.pairs[Len(g.pool.pairs) + 1] = g.alloc
      /\ \A i \in DOMAIN g.pool.pairs : r.pairs[i] = g.pool.pairs[i]
  BY <1>1, <1>3, <1>4
<1>6. Distinct(r.pairs)
  <2>1. Distinct(g.pool.pairs)
    BY <1>1 DEF PoolOk
  <2>2. \A i \in DOMAIN g.pool.pairs : g.pool.pairs[i] # g.alloc
    BY <1>1 DEF PoolOk
  <2> QED
    BY <1>5, <2>1, <2>2 DEF Distinct
<1>7. \A i \in DOMAIN r.pairs : r.pairs[i] \in 1 .. r.made /\ r.pairs[i] \notin used
  BY <1>1, <1>3, <1>4, <1>5 DEF PoolOk
<1>8. \A i \in DOMAIN r.free, j \in DOMAIN r.pairs : r.free[i] # r.pairs[j]
  BY <1>1, <1>4, <1>5 DEF PoolOk
<1>9. PoolOk(r, used)
  BY <1>1, <1>4, <1>6, <1>7, <1>8 DEF PoolOk
<1> QED
  BY <1>9 DEF r

(* An allocator that nothing uses any more can be returned.                *)
LEMMA AllocatorIsReturned ==
  ASSUME NEW p, NEW used, NEW alloc \in Allocators, alloc \notin used, PoolOk(p, used \cup {alloc})
  PROVE  PoolOk(Render!ReturnAllocator(p, alloc), used)
<1> DEFINE r == Render!ReturnAllocator(p, alloc)
<1>2. r = [p EXCEPT !.free = Append(@, alloc)]
  BY DEF Render!ReturnAllocator
<1> HIDE DEF r
<1>3. /\ p \in Pool /\ p.made \in Nat /\ p.free \in Seq(Allocators) /\ p.pairs \in Seq(Allocators)
  BY DEF PoolOk, Pool
<1>4. r \in Pool /\ r.made = p.made /\ r.pairs = p.pairs /\ r.free = Append(p.free, alloc)
  <2> DEFINE s == Append(p.free, alloc)
  <2>1. s \in Seq(Allocators)
    BY <1>3, AppendProperties
  <2>2. r = [p EXCEPT !.free = s]
    BY <1>2
  <2> HIDE DEF s
  <2>3. /\ r \in Pool /\ r.made = p.made /\ r.pairs = p.pairs /\ r.free = s
    BY <1>3, <2>1, <2>2, Zenon DEF Pool
  <2> QED BY <2>3 DEF s
<1>5. /\ DOMAIN r.free = 1 .. Len(p.free) + 1
      /\ DOMAIN p.free = 1 .. Len(p.free) /\ Len(p.free) \in Nat
      /\ r.free[Len(p.free) + 1] = alloc
      /\ \A i \in DOMAIN p.free : r.free[i] = p.free[i]
  BY <1>3, <1>4
<1>6. Distinct(r.free)
  <2>1. Distinct(p.free)
    BY DEF PoolOk
  <2>2. \A i \in DOMAIN p.free : p.free[i] # alloc
    BY DEF PoolOk
  <2> QED
    BY <1>5, <2>1, <2>2 DEF Distinct
<1>7. PoolOk(r, used)
  BY <1>3, <1>4, <1>5, <1>6 DEF PoolOk
<1> QED
  BY <1>7 DEF r

(* Resetting all lists leaves their allocators in flight.                  *)
LEMMA ListsAreReset ==
  ASSUME lists \in Seq(Lists), PoolsOk
  PROVE  /\ Render!ResetLists(pool, lists) \in [Render!Queues -> Pool]
         /\ \A q \in Render!Queues : PoolOk(Render!ResetLists(pool, lists)[q], Used(lists, q))
<1> DEFINE D == {x \in [Render!Queues -> Pool] : \A q \in Render!Queues : PoolOk(x[q], Used(lists, q))}
           n == Len(lists)
           turned(i, x) == [x EXCEPT ![lists[i].type] = Render!ReturnCommandList(@)]
           Follows(f) == f = [i \in 0 .. n |-> IF i = 0 THEN pool ELSE turned(i, f[i - 1])]
<1>1. n \in Nat /\ \A i \in 1 .. n : lists[i].type \in Render!Queues
  <2>1. n \in Nat /\ DOMAIN lists = 1 .. n
    BY LenProperties
  <2>2. \A i \in 1 .. n : lists[i] \in Lists
    BY ElementOfSeq
  <2> QED BY <2>1, <2>2 DEF Lists
<1>2. pool \in D
  BY DEF PoolsOk, PoolsFit
<1>3. ASSUME NEW i \in 1 .. n, NEW x \in D PROVE turned(i, x) \in D
  <2> DEFINE t == lists[i].type
             r == Render!ReturnCommandList(x[t])
  <2>1. t \in Render!Queues /\ x \in [Render!Queues -> Pool] /\ PoolOk(x[t], Used(lists, t))
    BY <1>1
  <2>2. PoolOk(r, Used(lists, t))
    BY <2>1, ListIsReturned
  <2>3. r \in Pool
    BY <2>2 DEF PoolOk
  <2>4. turned(i, x) = [x EXCEPT ![t] = r]
    OBVIOUS
  <2> HIDE DEF t, r, turned
  <2> QED BY <2>1, <2>2, <2>3, <2>4
<1> HIDE DEF D, turned
<1>4. \E f : Follows(f)
  <2> DEFINE g == [i \in 1 .. n |-> [x \in D |-> turned(i, x)]]
  <2>1. \A i \in 1 .. n : \A x \in D : g[i][x] = turned(i, x)
    OBVIOUS
  <2>2. \A i \in 1 .. n : \A x \in D : g[i][x] \in D
    BY <1>3, <2>1
  <2> HIDE DEF g
  <2>3. PICK f : Iterates(f, n, pool, g) /\ \A i \in 0 .. n : f[i] \in D
    <3> HIDE DEF n
    <3> QED BY <1>1, <1>2, <2>2, IterationExists, Zenon
  <2>4. ASSUME NEW i \in 0 .. n, i # 0 PROVE g[i][f[i - 1]] = turned(i, f[i - 1])
    <3>1. i \in 1 .. n /\ i - 1 \in 0 .. n
      BY <1>1, <2>4
    <3> QED BY <2>1, <2>3, <3>1
  <2>5. Follows(f)
    BY <2>3, <2>4, Zenon DEF Iterates
  <2> HIDE DEF Follows
  <2> QED BY <2>5
<1>5. PICK f : Follows(f) /\ Render!ResetLists(pool, lists) = f[n]
  <2> DEFINE F == CHOOSE f : Follows(f)
  <2>1. Follows(F)
    BY <1>4, Zenon
  <2>2. Render!ResetLists(pool, lists) = F[n]
    BY DEF Render!ResetLists, turned
  <2> HIDE DEF F, Follows
  <2> QED BY <2>1, <2>2
<1>6. f[n] \in D
  <2> DEFINE E == [i \in 0 .. n |-> D]
  <2>1. f[0] = pool /\ \A i \in 1 .. n : f[i] = turned(i, f[i - 1])
    BY <1>1, <1>5
  <2>2. \A i \in 0 .. n : E[i] = D
    OBVIOUS
  <2> HIDE DEF E, Follows
  <2>3. f[0] \in E[0]
    BY <1>1, <1>2, <2>1, <2>2
  <2>4. \A i \in 1 .. n : f[i - 1] \in E[i - 1] => f[i] \in E[i]
    BY <1>1, <1>3, <2>1, <2>2
  <2>5. f[n] \in E[n]
    BY <1>1, <2>3, <2>4, IterationKeeps
  <2> QED BY <1>1, <2>2, <2>5
<1> QED
  BY <1>5, <1>6 DEF D

(* Returning all allocators leaves none in flight.                         *)
LEMMA AllocatorsAreReturned ==
  ASSUME lists \in Seq(Lists), PoolsOk
  PROVE  /\ Render!ReturnAllocators(pool, lists) \in [Render!Queues -> Pool]
         /\ \A q \in Render!Queues : PoolOk(Render!ReturnAllocators(pool, lists)[q], {})
<1> DEFINE n == Len(lists)
           D(i) == {x \in [Render!Queues -> Pool] : \A q \in Render!Queues : PoolOk(x[q], UsedBehind(lists, i, q))}
           turned(i, x) == [x EXCEPT ![lists[i].type] = Render!ReturnAllocator(@, lists[i].alloc)]
           Follows(f) == f = [i \in 0 .. n |-> IF i = 0 THEN pool ELSE turned(i, f[i - 1])]
           P == [Render!Queues -> Pool]
<1>1. /\ n \in Nat /\ DOMAIN lists = 1 .. n
      /\ \A i \in 1 .. n : lists[i].type \in Render!Queues /\ lists[i].alloc \in Allocators
  <2>1. n \in Nat /\ DOMAIN lists = 1 .. n
    BY LenProperties
  <2>2. \A i \in 1 .. n : lists[i] \in Lists
    BY ElementOfSeq
  <2> QED BY <2>1, <2>2 DEF Lists
<1>2. pool \in D(0) /\ pool \in P
  BY DEF PoolsOk, PoolsFit, Used
<1>3. ASSUME NEW i \in 1 .. n, NEW x \in P PROVE turned(i, x) \in P
  <2> DEFINE t == lists[i].type
             s == Append(x[t].free, lists[i].alloc)
  <2>1. t \in Render!Queues /\ x[t] \in Pool /\ x[t].free \in Seq(Allocators)
    BY <1>1 DEF Pool
  <2>2. s \in Seq(Allocators)
    BY <1>1, <2>1, AppendProperties
  <2>3. Render!ReturnAllocator(x[t], lists[i].alloc) = [x[t] EXCEPT !.free = s]
    BY DEF Render!ReturnAllocator
  <2> HIDE DEF s
  <2>4. [x[t] EXCEPT !.free = s] \in Pool
    BY <2>1, <2>2, Zenon DEF Pool
  <2>5. turned(i, x) = [x EXCEPT ![t] = [x[t] EXCEPT !.free = s]]
    BY <2>3
  <2> HIDE DEF turned, t
  <2> QED BY <2>1, <2>4, <2>5
<1>4. ASSUME NEW i \in 1 .. n, NEW x \in D(i - 1) PROVE turned(i, x) \in D(i)
  <2> DEFINE t == lists[i].type
             a == lists[i].alloc
             r == Render!ReturnAllocator(x[t], a)
  <2>1. /\ t \in Render!Queues /\ x \in P /\ a \in Allocators
        /\ \A q \in Render!Queues : PoolOk(x[q], UsedBehind(lists, i - 1, q))
    BY <1>1
  <2>2. UsedBehind(lists, i - 1, t) = UsedBehind(lists, i, t) \cup {a}
    <3>1. \A k \in DOMAIN lists : k > i - 1 <=> k > i \/ k = i
      BY <1>1
    <3> QED BY <1>1, <3>1 DEF UsedBehind
  <2>3. a \notin UsedBehind(lists, i, t)
    BY <1>1 DEF UsedBehind, PoolsOk, PoolsFit
  <2>4. PoolOk(r, UsedBehind(lists, i, t))
    <3>1. PoolOk(x[t], UsedBehind(lists, i, t) \cup {a})
      BY <2>1, <2>2, Zenon
    <3> HIDE DEF t, a
    <3> QED BY <2>1, <2>3, <3>1, AllocatorIsReturned
  <2>5. r \in Pool
    BY <2>4 DEF PoolOk
  <2>6. ASSUME NEW q \in Render!Queues, q # t PROVE UsedBehind(lists, i - 1, q) = UsedBehind(lists, i, q)
    <3>1. \A k \in DOMAIN lists : k > i - 1 <=> k > i \/ k = i
      BY <1>1
    <3> QED BY <1>1, <2>6, <3>1 DEF UsedBehind
  <2>7. turned(i, x) = [x EXCEPT ![t] = r]
    OBVIOUS
  <2> HIDE DEF t, r, turned
  <2>8. /\ [x EXCEPT ![t] = r] \in P /\ [x EXCEPT ![t] = r][t] = r
        /\ \A q \in Render!Queues : q # t => [x EXCEPT ![t] = r][q] = x[q]
    BY <2>1, <2>5
  <2>9. ASSUME NEW q \in Render!Queues PROVE PoolOk([x EXCEPT ![t] = r][q], UsedBehind(lists, i, q))
    BY <2>1, <2>4, <2>6, <2>8
  <2> QED BY <2>7, <2>8, <2>9
<1> HIDE DEF turned
<1>5. \E f : Follows(f)
  <2> HIDE DEF P
  <2> DEFINE g == [i \in 1 .. n |-> [x \in P |-> turned(i, x)]]
  <2>1. \A i \in 1 .. n : \A x \in P : g[i][x] = turned(i, x)
    OBVIOUS
  <2>2. \A i \in 1 .. n : \A x \in P : g[i][x] \in P
    BY <1>3, <2>1
  <2> HIDE DEF g
  <2>3. PICK f : Iterates(f, n, pool, g) /\ \A i \in 0 .. n : f[i] \in P
    <3> HIDE DEF n
    <3> QED BY <1>1, <1>2, <2>2, IterationExists, Zenon
  <2>4. ASSUME NEW i \in 0 .. n, i # 0 PROVE g[i][f[i - 1]] = turned(i, f[i - 1])
    <3>1. i \in 1 .. n /\ i - 1 \in 0 .. n
      BY <1>1, <2>4
    <3> QED BY <2>1, <2>3, <3>1
  <2>5. Follows(f)
    BY <2>3, <2>4, Zenon DEF Iterates
  <2> HIDE DEF Follows
  <2> QED BY <2>5
<1>6. PICK f : Follows(f) /\ Render!ReturnAllocators(pool, lists) = f[n]
  <2> DEFINE F == CHOOSE f : Follows(f)
  <2>1. Follows(F)
    BY <1>5, Zenon
  <2>2. Render!ReturnAllocators(pool, lists) = F[n]
    BY DEF Render!ReturnAllocators, turned
  <2> HIDE DEF F, Follows
  <2> QED BY <2>1, <2>2
<1>7. f[n] \in D(n)
  <2> HIDE DEF D
  <2> DEFINE E == [i \in 0 .. n |-> D(i)]
  <2>1. f[0] = pool /\ \A i \in 1 .. n : f[i] = turned(i, f[i - 1])
    BY <1>1, <1>6
  <2>2. \A i \in 0 .. n : E[i] = D(i)
    OBVIOUS
  <2> HIDE DEF E, Follows
  <2>3. f[0] \in E[0]
    BY <1>1, <1>2, <2>1, <2>2
  <2>4. \A i \in 1 .. n : f[i - 1] \in E[i - 1] => f[i] \in E[i]
    BY <1>1, <1>4, <2>1, <2>2
  <2>5. f[n] \in E[n]
    BY <1>1, <2>3, <2>4, IterationKeeps, Zenon
  <2> QED BY <1>1, <2>2, <2>5
<1>8. \A q \in Render!Queues : UsedBehind(lists, n, q) = {}
  <2>1. \A k \in DOMAIN lists : ~ (k > n)
    BY <1>1
  <2> QED BY <2>1 DEF UsedBehind
<1> QED
  BY <1>6, <1>7, <1>8, Zenon

(* The shape of a queue that work and a signal of the main fence follow.   *)
LEMMA SignalledShape ==
  ASSUME NEW s \in Seq(Items), NEW w \in Seq(Execs), NEW v \in Nat
  PROVE  LET t == s \o w \o <<Render!Signal("main", v)>>
         IN  /\ t \in Seq(Items) /\ Len(t) = Len(s) + Len(w) + 1 /\ DOMAIN t = 1 .. Len(t)
             /\ \A k \in 1 .. Len(s) : t[k] = s[k]
             /\ \A k \in 1 .. Len(w) : t[Len(s) + k] = w[k]
             /\ t[Len(t)] = Render!Signal("main", v)
<1> DEFINE x == Render!Signal("main", v)
           t == s \o w \o <<x>>
<1>1. x \in Items
  BY DEF Items, Signals, Render!Signal
<1>2. w \in Seq(Items)
  <2>1. Execs \subseteq Items
    BY DEF Items
  <2> HIDE DEF Items, Execs
  <2> QED BY <2>1
<1> HIDE DEF x
<1>3. /\ s \o w \in Seq(Items) /\ Len(s \o w) = Len(s) + Len(w)
      /\ \A k \in 1 .. Len(s) : (s \o w)[k] = s[k]
      /\ \A k \in 1 .. Len(w) : (s \o w)[Len(s) + k] = w[k]
      /\ Len(s) \in Nat /\ Len(w) \in Nat
  <2> HIDE DEF Items, Execs
  <2> QED BY <1>2, ConcatProperties
<1>4. PICK u \in Seq(Items) : u = s \o w
  BY <1>3, Zenon
<1>5. <<x>> \in Seq(Items) /\ Len(<<x>>) = 1 /\ <<x>>[1] = x
  BY <1>1
<1>6. /\ u \o <<x>> \in Seq(Items) /\ Len(u \o <<x>>) = Len(u) + 1
      /\ \A k \in 1 .. Len(u) : (u \o <<x>>)[k] = u[k]
      /\ (u \o <<x>>)[Len(u) + 1] = x
  <2> HIDE DEF Items
  <2> QED BY <1>5, ConcatProperties
<1>7. t = u \o <<x>>
  BY <1>4
<1>8. \A k \in 1 .. Len(w) : Len(s) + k \in 1 .. Len(u)
  BY <1>3, <1>4
<1> HIDE DEF t
<1> QED
  BY <1>3, <1>4, <1>6, <1>7, <1>8 DEF x, t

(* Where the signals and the work of t come from, when it is s with the    *)
(* work w and the signal of v behind.                                      *)
ComesFrom(t, s, w, v) ==
  /\ \A k \in DOMAIN t : t[k].op = "signal" =>
       \/ k \in DOMAIN s /\ t[k] = s[k]
       \/ k = Len(t) /\ t[k].fence = "main" /\ t[k].value = v
  /\ \A k \in DOMAIN t : t[k].op = "exec" =>
       \/ k \in DOMAIN s /\ t[k] = s[k]
       \/ \E l \in DOMAIN w : t[k] = w[l]

(* Work and the next signal keep the signals of a queue in order when the  *)
(* value before it is marked there.                                        *)
LEMMA SignalKeepsOrder ==
  ASSUME NEW s \in Seq(Items), NEW w \in Seq(Execs), NEW reached \in Nat, NEW value \in Nat,
         reached <= value, SignalsOk(s, reached, value), Pending(s, reached, value),
         NEW t, t = s \o w \o <<Render!Signal("main", value + 1)>>
  PROVE  /\ SignalsOk(t, reached, value + 1) /\ Marked(t, value + 1)
         /\ \A k \in DOMAIN t : t[k].op = "exec" => k < Len(t) /\ IsMain(t[Len(t)])
         /\ Len(t) \in DOMAIN t /\ ComesFrom(t, s, w, value + 1)
<1>1. /\ t \in Seq(Items) /\ Len(t) = Len(s) + Len(w) + 1 /\ DOMAIN t = 1 .. Len(t)
      /\ \A k \in 1 .. Len(s) : t[k] = s[k]
      /\ \A k \in 1 .. Len(w) : t[Len(s) + k] = w[k]
      /\ t[Len(t)] = Render!Signal("main", value + 1)
  BY SignalledShape
<1>2. /\ Len(s) \in Nat /\ Len(w) \in Nat /\ DOMAIN s = 1 .. Len(s)
      /\ \A k \in 1 .. Len(w) : w[k].op = "exec" /\ k \in DOMAIN w
  <2>1. \A k \in 1 .. Len(w) : w[k] \in Execs
    OBVIOUS
  <2>2. \A x \in Execs : x.op = "exec"
    BY DEF Execs
  <2> HIDE DEF Items, Execs
  <2> QED BY <2>1, <2>2, LenProperties
<1>3. /\ t[Len(t)].op = "signal" /\ t[Len(t)].fence = "main" /\ t[Len(t)].value = value + 1
      /\ IsMain(t[Len(t)])
  BY <1>1 DEF Render!Signal, IsMain
<1>4. ASSUME NEW k \in DOMAIN t
      PROVE  \/ k \in DOMAIN s /\ t[k] = s[k]
             \/ t[k].op = "exec" /\ k < Len(t) /\ \E l \in DOMAIN w : t[k] = w[l]
             \/ k = Len(t)
  <2>1. CASE k \in 1 .. Len(s)
    BY <1>1, <1>2, <2>1
  <2>2. CASE k > Len(s) /\ k < Len(t)
    <3>1. k - Len(s) \in 1 .. Len(w) /\ Len(s) + (k - Len(s)) = k
      BY <1>1, <1>2, <2>2
    <3>2. t[k] = w[k - Len(s)]
      BY <1>1, <3>1
    <3> QED BY <1>2, <2>2, <3>1, <3>2
  <2> QED BY <1>1, <1>2, <2>1, <2>2
<1>5. ASSUME NEW k \in DOMAIN t, IsMain(t[k])
      PROVE  /\ reached < t[k].value /\ t[k].value <= value + 1
             /\ t[k].value - 1 = reached \/ \E j \in 1 .. k - 1 : Mark(t[j], t[k].value - 1)
  <2>1. CASE k \in DOMAIN s /\ t[k] = s[k]
    <3>1. /\ reached < s[k].value /\ s[k].value <= value
          /\ s[k].value - 1 = reached \/ \E j \in 1 .. k - 1 : Mark(s[j], s[k].value - 1)
      BY <1>5, <2>1 DEF SignalsOk
    <3>2. s[k] \in Items /\ s[k].op = "signal"
      BY <1>2, <1>5, <2>1 DEF IsMain
    <3>3. s[k].value \in Nat
      BY <3>2 DEF Items, Execs, Signals, Waits
    <3>4. \A j \in 1 .. k - 1 : t[j] = s[j]
      BY <1>1, <1>2, <2>1
    <3> QED BY <2>1, <3>1, <3>3, <3>4
  <2>2. CASE k = Len(t)
    <3>1. t[k].value = value + 1 /\ (value + 1) - 1 = value
      BY <1>3, <2>2
    <3>2. CASE value <= reached
      BY <3>1, <3>2
    <3>3. CASE Marked(s, value)
      <4>1. PICK j \in DOMAIN s : Mark(s[j], value)
        BY <3>3 DEF Marked
      <4>2. j \in 1 .. k - 1 /\ t[j] = s[j]
        BY <1>1, <1>2, <2>2
      <4>3. t[k].value - 1 = value /\ reached < t[k].value /\ t[k].value <= value + 1
        BY <3>1
      <4>4. Mark(t[j], t[k].value - 1)
        BY <4>1, <4>2, <4>3, Zenon
      <4> QED BY <4>2, <4>3, <4>4, Zenon
    <3> QED BY <3>2, <3>3, Zenon DEF Pending
  <2>3. CASE t[k].op = "exec"
    BY <1>5, <2>3 DEF IsMain
  <2> QED BY <1>4, <2>1, <2>2, <2>3, Zenon
<1>6. SignalsOk(t, reached, value + 1)
  BY <1>5, Zenon DEF SignalsOk
<1>7. Len(t) \in DOMAIN t /\ Marked(t, value + 1)
  <2>1. Len(t) \in DOMAIN t
    BY <1>1, <1>2
  <2>2. Mark(t[Len(t)], value + 1)
    BY <1>3 DEF Mark
  <2> QED BY <2>1, <2>2, Zenon DEF Marked
<1>8. ASSUME NEW k \in DOMAIN t, t[k].op = "exec" PROVE k < Len(t) /\ IsMain(t[Len(t)])
  BY <1>1, <1>2, <1>3, <1>8
<1>9. ASSUME NEW k \in DOMAIN t, t[k].op = "signal"
      PROVE  \/ k \in DOMAIN s /\ t[k] = s[k]
             \/ k = Len(t) /\ t[k].fence = "main" /\ t[k].value = value + 1
  BY <1>3, <1>4, <1>9, Zenon
<1>10. ASSUME NEW k \in DOMAIN t, t[k].op = "exec"
       PROVE  (k \in DOMAIN s /\ t[k] = s[k]) \/ \E l \in DOMAIN w : t[k] = w[l]
  BY <1>3, <1>4, <1>10
<1>11. ComesFrom(t, s, w, value + 1)
  BY <1>9, <1>10, Zenon DEF ComesFrom
<1> QED
  BY <1>6, <1>7, <1>8, <1>11

(* Only waits are behind s in t.                                           *)
WaitsFollow(t, s) ==
  /\ DOMAIN s \subseteq DOMAIN t /\ \A k \in DOMAIN s : t[k] = s[k]
  /\ \A k \in DOMAIN t : t[k].op # "wait" => k \in DOMAIN s

(* A wait for the next value marks it.                                     *)
LEMMA WaitKeepsOrder ==
  ASSUME NEW s \in Seq(Items), NEW reached \in Nat, NEW value \in Nat,
         SignalsOk(s, reached, value), NEW t, t = Append(s, Render!Wait(value + 1))
  PROVE  /\ t \in Seq(Items) /\ SignalsOk(t, reached, value + 1) /\ Marked(t, value + 1)
         /\ WaitsFollow(t, s)
<1> DEFINE x == Render!Wait(value + 1)
<1>1. x \in Items /\ x.op = "wait" /\ x.value = value + 1
  BY DEF Items, Waits, Render!Wait
<1> HIDE DEF x
<1>2. /\ t \in Seq(Items) /\ Len(t) = Len(s) + 1 /\ DOMAIN t = 1 .. Len(t)
      /\ t[Len(s) + 1] = x /\ \A k \in 1 .. Len(s) : t[k] = s[k]
      /\ Len(s) \in Nat /\ DOMAIN s = 1 .. Len(s)
  <2>1. t = Append(s, x)
    BY DEF x
  <2> HIDE DEF Items
  <2> QED BY <1>1, <2>1, AppendProperties, LenProperties
<1>3. ASSUME NEW k \in DOMAIN t, IsMain(t[k])
      PROVE  /\ reached < t[k].value /\ t[k].value <= value + 1
             /\ t[k].value - 1 = reached \/ \E j \in 1 .. k - 1 : Mark(t[j], t[k].value - 1)
  <2>1. k \in DOMAIN s /\ t[k] = s[k]
    BY <1>1, <1>2, <1>3 DEF IsMain
  <2>2. /\ reached < s[k].value /\ s[k].value <= value
        /\ s[k].value - 1 = reached \/ \E j \in 1 .. k - 1 : Mark(s[j], s[k].value - 1)
    BY <1>3, <2>1 DEF SignalsOk
  <2>3. s[k] \in Items /\ s[k].op = "signal"
    BY <1>3, <2>1 DEF IsMain
  <2>4. s[k].value \in Nat
    BY <2>3 DEF Items, Execs, Signals, Waits
  <2>5. \A j \in 1 .. k - 1 : t[j] = s[j]
    BY <1>2, <2>1
  <2> QED BY <2>1, <2>2, <2>4, <2>5
<1>4. SignalsOk(t, reached, value + 1)
  BY <1>3 DEF SignalsOk
<1>5. Marked(t, value + 1)
  BY <1>1, <1>2 DEF Marked, Mark
<1>6. \A k \in DOMAIN t : t[k].op # "wait" => k \in DOMAIN s
  BY <1>1, <1>2
<1>7. DOMAIN s \subseteq DOMAIN t
  BY <1>2
<1>8. WaitsFollow(t, s)
  BY <1>2, <1>6, <1>7 DEF WaitsFollow
<1> QED
  BY <1>2, <1>4, <1>5, <1>8

(* What a script may still do settles as its calls are made.               *)
LEMMA SettlesAfterCall ==
  ASSUME NEW S, NEW s \in Seq(S), s # <<>>, NEW i \in Nat, NEW ops
  PROVE  /\ Render!Settles(s, i + 1, ops) => Render!Settles(Tail(s), i, ops)
         /\ Render!Settles(s, 0, ops) => Head(s).op \in ops \cup {"sync"}
         /\ Render!Settles(s, 0, ops) /\ Head(s).op # "sync" => Render!Settles(Tail(s), 0, ops)
<1>1. /\ Len(s) \in Nat \ {0} /\ DOMAIN s = 1 .. Len(s) /\ DOMAIN Tail(s) = 1 .. Len(s) - 1
      /\ \A j \in 1 .. Len(s) - 1 : Tail(s)[j] = s[j + 1]
      /\ Head(s) = s[1]
  BY HeadTailProperties, LenProperties, EmptySeq
<1>2. ASSUME NEW n \in Nat, NEW k \in DOMAIN s, k > n + 1, s[k].op = "sync",
             \A j \in n + 2 .. k - 1 : s[j].op \in ops
      PROVE  Render!Settles(Tail(s), n, ops)
  <2>1. k - 1 \in DOMAIN Tail(s) /\ k - 1 > n /\ Tail(s)[k - 1].op = "sync"
    BY <1>1, <1>2
  <2>2. ASSUME NEW j \in n + 1 .. k - 1 - 1 PROVE Tail(s)[j].op \in ops
    <3>1. j \in 1 .. Len(s) - 1 /\ j + 1 \in n + 2 .. k - 1
      BY <1>1, <1>2
    <3> QED BY <1>1, <1>2, <3>1
  <2> QED BY <2>1, <2>2 DEF Render!Settles
<1>3. Render!Settles(s, i + 1, ops) => Render!Settles(Tail(s), i, ops)
  <2> SUFFICES ASSUME Render!Settles(s, i + 1, ops) PROVE Render!Settles(Tail(s), i, ops)
    OBVIOUS
  <2>1. PICK k \in DOMAIN s : /\ k > i + 1 /\ s[k].op = "sync"
                              /\ \A j \in (i + 1) + 1 .. k - 1 : s[j].op \in ops
    BY DEF Render!Settles
  <2>2. (i + 1) + 1 = i + 2
    OBVIOUS
  <2> QED BY <1>2, <2>1, <2>2
<1>4. ASSUME Render!Settles(s, 0, ops)
      PROVE  /\ Head(s).op \in ops \cup {"sync"}
             /\ Head(s).op # "sync" => Render!Settles(Tail(s), 0, ops)
  <2>1. PICK k \in DOMAIN s : /\ k > 0 /\ s[k].op = "sync"
                              /\ \A j \in 0 + 1 .. k - 1 : s[j].op \in ops
    BY <1>4 DEF Render!Settles
  <2>2. CASE k = 1
    BY <1>1, <2>1, <2>2
  <2>3. CASE k > 1
    <3>1. 1 \in 0 + 1 .. k - 1 /\ k > 0 + 1 /\ \A j \in 0 + 2 .. k - 1 : j \in 0 + 1 .. k - 1
      BY <1>1, <2>3
    <3>2. Render!Settles(Tail(s), 0, ops)
      BY <1>2, <2>1, <3>1
    <3> QED BY <1>1, <2>1, <3>1, <3>2
  <2> QED BY <1>1, <2>1, <2>2, <2>3
<1> QED
  BY <1>3, <1>4

(* A script stays synchronised as its calls are made, and the rest of it   *)
(* settles a run or a present that was made.                               *)
LEMMA SyncedAfterCall ==
  ASSUME NEW S, NEW s \in Seq(S), s # <<>>, Render!IsSynced(s)
  PROVE  /\ Render!IsSynced(Tail(s))
         /\ Head(s).op \in {"run", "present"} =>
              Render!Settles(Tail(s), 0, Render!MayFollow(Head(s)))
<1>1. /\ Len(s) \in Nat \ {0} /\ DOMAIN s = 1 .. Len(s) /\ DOMAIN Tail(s) = 1 .. Len(s) - 1
      /\ \A j \in 1 .. Len(s) - 1 : Tail(s)[j] = s[j + 1]
      /\ Head(s) = s[1]
  BY HeadTailProperties, LenProperties, EmptySeq
<1>2. ASSUME NEW i \in DOMAIN Tail(s), Tail(s)[i].op \in {"run", "present"}
      PROVE  Render!Settles(Tail(s), i, Render!MayFollow(Tail(s)[i]))
  <2>1. i \in Nat /\ i + 1 \in DOMAIN s /\ Tail(s)[i] = s[i + 1]
    BY <1>1
  <2>2. Render!Settles(s, i + 1, Render!MayFollow(s[i + 1]))
    BY <1>2, <2>1 DEF Render!IsSynced
  <2> QED BY <2>1, <2>2, SettlesAfterCall
<1>3. ASSUME Head(s).op \in {"run", "present"}
      PROVE  Render!Settles(Tail(s), 0, Render!MayFollow(Head(s)))
  <2>1. 1 \in DOMAIN s /\ 0 + 1 = 1
    BY <1>1
  <2>2. Render!Settles(s, 1, Render!MayFollow(s[1]))
    BY <1>1, <1>3, <2>1 DEF Render!IsSynced
  <2>3. Render!Settles(s, 0 + 1, Render!MayFollow(s[1]))
    BY <2>1, <2>2
  <2> QED BY <1>1, <2>3, SettlesAfterCall
<1> QED
  BY <1>2, <1>3 DEF Render!IsSynced

(* What settles with fewer kinds of calls before it settles with more.     *)
LEMMA SettlesMore ==
  ASSUME NEW s, NEW i, NEW A, NEW B, A \subseteq B, Render!Settles(s, i, A)
  PROVE  Render!Settles(s, i, B)
BY DEF Render!Settles

(* Of the pools p and the lists l in flight a list of type t, the pair g,  *)
(* is taken; r and m are what the pools and the lists in flight become.    *)
Takes(p, l, t, g, r, m) ==
  /\ g = Render!GetPair(p[t])
  /\ r = [p EXCEPT ![t] = g.pool]
  /\ m = Append(l, [type |-> t, alloc |-> g.alloc])

(* A list taken from a pool is in flight, and its allocator was not.       *)
LEMMA ListIsTaken ==
  ASSUME NEW p, NEW l \in Seq(Lists), PoolsFit(p, l), NEW t \in Render!Queues,
         NEW g, NEW r, NEW m, Takes(p, l, t, g, r, m)
  PROVE  /\ m \in Seq(Lists) /\ Len(m) = Len(l) + 1 /\ Len(l) \in Nat
         /\ \A k \in 1 .. Len(l) : m[k] = l[k]
         /\ m[Len(l) + 1] = [type |-> t, alloc |-> g.alloc]
         /\ PoolsFit(r, m)
         /\ \A q \in Render!Queues : Used(l, q) \subseteq Used(m, q)
         /\ g.alloc \in Allocators /\ g.alloc \in Used(m, t) /\ g.alloc \notin Used(l, t)
<1> DEFINE x == [type |-> t, alloc |-> g.alloc]
<1>1. /\ PoolOk(p[t], Used(l, t)) /\ p \in [Render!Queues -> Pool]
      /\ g = Render!GetPair(p[t]) /\ r = [p EXCEPT ![t] = g.pool] /\ m = Append(l, x)
  BY DEF PoolsFit, Takes
<1>2. g.alloc \in Allocators /\ g.alloc \notin Used(l, t) /\ PoolOk(g.pool, Used(l, t) \cup {g.alloc})
  BY <1>1, PairIsFree, Zenon
<1>3. x \in Lists /\ x.type = t /\ x.alloc = g.alloc
  BY <1>2 DEF Lists
<1> HIDE DEF x
<1>4. /\ m \in Seq(Lists) /\ Len(m) = Len(l) + 1 /\ DOMAIN m = 1 .. Len(l) + 1
      /\ m[Len(l) + 1] = x /\ \A k \in 1 .. Len(l) : m[k] = l[k]
      /\ Len(l) \in Nat /\ DOMAIN l = 1 .. Len(l)
  BY <1>1, <1>3, AppendProperties, LenProperties
<1>5. Used(m, t) = Used(l, t) \cup {g.alloc}
  BY <1>3, <1>4 DEF Used, UsedBehind
<1>6. ASSUME NEW q \in Render!Queues, q # t PROVE Used(m, q) = Used(l, q)
  BY <1>3, <1>4, <1>6 DEF Used, UsedBehind
<1>7. g.pool \in Pool
  BY <1>2 DEF PoolOk
<1>8. ASSUME NEW q \in Render!Queues
      PROVE  PoolOk([p EXCEPT ![t] = g.pool][q], Used(m, q))
  <2>1. CASE q = t
    BY <1>1, <1>2, <1>5, <2>1, Zenon
  <2>2. CASE q # t
    <3>1. PoolOk(p[q], Used(l, q))
      BY DEF PoolsFit
    <3> QED BY <1>1, <1>6, <2>2, <3>1
  <2> QED BY <2>1, <2>2
<1>9. ASSUME NEW j \in DOMAIN m, NEW k \in DOMAIN m, m[j].type = m[k].type, m[j].alloc = m[k].alloc
      PROVE  j = k
  <2>1. CASE j \in DOMAIN l /\ k \in DOMAIN l
    BY <1>4, <1>9, <2>1 DEF PoolsFit
  <2>2. ASSUME NEW i \in DOMAIN l, m[i].type = t PROVE m[i].alloc # g.alloc
    <3>1. m[i] = l[i] /\ i > 0
      BY <1>4
    <3>2. m[i].alloc \in Used(l, t)
      BY <2>2, <3>1 DEF Used, UsedBehind
    <3> QED BY <1>2, <3>2
  <2> QED BY <1>3, <1>4, <1>9, <2>1, <2>2
<1>10. PoolsFit(r, m)
  BY <1>1, <1>7, <1>8, <1>9 DEF PoolsFit
<1>11. \A q \in Render!Queues : Used(l, q) \subseteq Used(m, q)
  BY <1>5, <1>6
<1> QED
  BY <1>2, <1>4, <1>5, <1>10, <1>11 DEF x

(* The pools start with 2 * Pairs allocators, all different, and no work.  *)
LEMMA RenderStarts == Render!Init => RenderInv
<1> SUFFICES ASSUME Render!Init PROVE RenderInv
  OBVIOUS
<1>0. /\ script = <<>> /\ phase = "idle" /\ graph = <<>> /\ turn = 1 /\ lists = <<>>
      /\ recorded = [q \in Render!Queues |-> <<>>] /\ gpu = [q \in Render!Queues |-> <<>>]
      /\ fence = [value |-> 0, reached |-> 0] /\ upload = [value |-> 0, reached |-> 0]
      /\ pool = [q \in Render!Queues |-> Render!NewPool]
  BY DEF Render!Init
<1>1. Pairs \in Nat
  BY RenderAssumption DEF Render!FramesAreSynced
<1>2. RenderTypes
  BY <1>0 DEF RenderTypes, Fences, Render!ToSet
<1>3. PoolsOk
  <2> DEFINE p == Render!NewPool
  <2>1. /\ p.free = [i \in 1 .. Pairs |-> 2 * i - 1] /\ p.pairs = [i \in 1 .. Pairs |-> 2 * i]
        /\ p.made = 2 * Pairs /\ p = [free |-> p.free, pairs |-> p.pairs, made |-> p.made]
    BY DEF Render!NewPool
  <2> HIDE DEF p
  <2>2. /\ DOMAIN p.free = 1 .. Pairs /\ DOMAIN p.pairs = 1 .. Pairs
        /\ \A i \in 1 .. Pairs : p.free[i] = 2 * i - 1 /\ p.pairs[i] = 2 * i
    BY <2>1
  <2>3. \A i \in 1 .. Pairs : 2 * i - 1 \in 1 .. 2 * Pairs /\ 2 * i \in 1 .. 2 * Pairs
    BY <1>1
  <2>4. p.free \in Seq(Allocators) /\ p.pairs \in Seq(Allocators) /\ 2 * Pairs \in Nat
    <3>1. \A i \in 1 .. Pairs : 2 * i - 1 \in Allocators /\ 2 * i \in Allocators
      BY <1>1 DEF Allocators
    <3>2. p.free \in [1 .. Pairs -> Allocators] /\ p.pairs \in [1 .. Pairs -> Allocators]
      <4> HIDE DEF Allocators
      <4> QED BY <2>1, <3>1
    <3>3. \A f \in [1 .. Pairs -> Allocators] : f \in Seq(Allocators)
      BY <1>1, SeqDef
    <3> QED BY <1>1, <3>2, <3>3
  <2>5. p \in Pool
    BY <2>1, <2>4, Zenon DEF Pool
  <2>6. Distinct(p.free) /\ Distinct(p.pairs)
    <3>1. \A i, j \in 1 .. Pairs : (2 * i - 1 = 2 * j - 1 => i = j) /\ (2 * i = 2 * j => i = j)
      BY <1>1
    <3>2. \A i, j \in 1 .. Pairs : (p.free[i] = p.free[j] => i = j) /\ (p.pairs[i] = p.pairs[j] => i = j)
      <4> TAKE i, j \in 1 .. Pairs
      <4>1. p.free[i] = 2 * i - 1 /\ p.free[j] = 2 * j - 1 /\ p.pairs[i] = 2 * i /\ p.pairs[j] = 2 * j
        BY <2>2, Zenon
      <4> QED BY <3>1, <4>1, Zenon
    <3> QED BY <2>2, <3>2, Zenon DEF Distinct
  <2>7. \A i, j \in 1 .. Pairs : 2 * i - 1 # 2 * j
    BY <1>1
  <2>8. PoolOk(p, {})
    BY <2>1, <2>2, <2>3, <2>5, <2>6, <2>7 DEF PoolOk
  <2>9. \A q \in Render!Queues : Used(lists, q) = {}
    BY <1>0 DEF Used, UsedBehind
  <2>10. pool = [q \in Render!Queues |-> p]
    BY <1>0 DEF p
  <2> QED
    BY <1>0, <2>5, <2>8, <2>9, <2>10 DEF PoolsOk, PoolsFit
<1>4. WorkIsInFlight /\ FencesOk /\ WorkIsSignalled
  BY <1>0 DEF WorkIsInFlight, FencesOk, WorkIsSignalled, SignalsOk
<1>5. ScriptOk
  BY <1>0 DEF ScriptOk, Render!IsSynced
<1> QED
  BY <1>2, <1>3, <1>4, <1>5 DEF RenderInv

(* A new frame begins when everything before it was synchronised.          *)
LEMMA NextFrameKeeps == RenderInv /\ Render!NextFrame => RenderInv'
<1> SUFFICES ASSUME RenderInv, Render!NextFrame PROVE RenderInv'
  OBVIOUS
<1>1. /\ phase = "idle" /\ script = <<>> /\ script' \in Scripts
      /\ UNCHANGED <<phase, given, graph, turn, recorded, stack, gpu, fence, upload, pool, lists>>
  BY DEF Render!NextFrame, Render!executor
<1>2. script' \in Seq(Render!Calls) /\ Render!IsSynced(script')
  BY <1>1, RenderAssumption DEF Render!FramesAreSynced
<1>3. RenderTypes'
  BY <1>1, <1>2 DEF RenderInv, RenderTypes
<1>4. PoolsOk' /\ WorkIsInFlight' /\ FencesOk'
  BY <1>1 DEF RenderInv, PoolsOk, WorkIsInFlight, FencesOk
<1>5. WorkIsSignalled'
  BY <1>1 DEF RenderInv, WorkIsSignalled, IsUpload
<1>6. fence.value <= fence.reached
  BY <1>1 DEF RenderInv, ScriptOk, Render!Settles
<1>7. ScriptOk'
  BY <1>1, <1>2, <1>6 DEF RenderInv, ScriptOk
<1> QED
  BY <1>3, <1>4, <1>5, <1>7 DEF RenderInv

(* The call that a step makes, and what the script says of the rest.       *)
LEMMA CallIsMade ==
  ASSUME RenderInv, NEW op, Render!Doing(op), script' = Tail(script)
  PROVE  /\ Head(script) \in Render!Calls /\ Head(script).op = op
         /\ script' \in Seq(Render!Calls) /\ Render!IsSynced(script')
         /\ op \in {"run", "present"} =>
              Render!Settles(script', 0, Render!MayFollow(Head(script)))
         /\ \A ops : Render!Settles(script, 0, ops) =>
              op \in ops \cup {"sync"} /\ (op # "sync" => Render!Settles(script', 0, ops))
<1>1. script \in Seq(Render!Calls) /\ script # <<>> /\ Head(script).op = op
      /\ Render!IsSynced(script)
  BY DEF RenderInv, RenderTypes, ScriptOk, Render!Doing
<1>2. Head(script) \in Render!Calls /\ script' \in Seq(Render!Calls)
  BY <1>1, HeadTailProperties
<1>3. /\ Render!IsSynced(script')
      /\ op \in {"run", "present"} => Render!Settles(script', 0, Render!MayFollow(Head(script)))
  BY <1>1, SyncedAfterCall
<1>4. ASSUME NEW ops, Render!Settles(script, 0, ops)
      PROVE  op \in ops \cup {"sync"} /\ (op # "sync" => Render!Settles(script', 0, ops))
  <2>1. 0 \in Nat
    OBVIOUS
  <2> QED BY <1>1, <1>4, <2>1, SettlesAfterCall
<1> QED
  BY <1>1, <1>2, <1>3, <1>4

(* What is on the queues stays signalled when no upload begins or ends.    *)
LEMMA SignalledStays ==
  ASSUME RenderInv, phase # "upload", phase' # "upload", UNCHANGED <<gpu, upload>>
  PROVE  WorkIsSignalled'
BY DEF RenderInv, WorkIsSignalled, IsUpload

(* In flight is more than before: what was recorded or queued still is.    *)
LEMMA InFlightGrows ==
  ASSUME RenderInv, \A q \in Render!Queues : Used(lists, q) \subseteq Used(lists', q)
  PROVE  \A q \in Render!Queues :
           /\ \A k \in DOMAIN recorded[q] : recorded[q][k].alloc \in Used(lists', q)
           /\ \A k \in DOMAIN gpu[q] : gpu[q][k].op = "exec" => gpu[q][k].alloc \in Used(lists', q)
BY DEF RenderInv, WorkIsInFlight

(* A graph is run when everything before it was synchronised.              *)
LEMMA BeginFrameKeeps == RenderInv /\ Render!BeginFrame => RenderInv'
<1> SUFFICES ASSUME RenderInv, Render!BeginFrame PROVE RenderInv'
  OBVIOUS
<1> DEFINE call == Head(script)
<1>1. /\ Render!Doing("run") /\ phase = "idle" /\ phase' = "record" /\ script' = Tail(script)
      /\ graph' = Render!Drawn(call) /\ turn' = 1
      /\ UNCHANGED <<begun, gpu, fence, upload>>
  BY DEF Render!BeginFrame, Render!Doing
<1>2. /\ call \in Render!Calls /\ call.op = "run"
      /\ script' \in Seq(Render!Calls) /\ Render!IsSynced(script')
      /\ Render!Settles(script', 0, Render!MayFollow(call))
      /\ \A ops : Render!Settles(script, 0, ops) => "run" \in ops \cup {"sync"}
  BY <1>1, CallIsMade
<1> HIDE DEF call
<1>3. fence.value <= fence.reached
  <2>1. ~Render!Settles(script, 0, {"upload"}) /\ ~Render!Settles(script, 0, {"upload", "present"})
    BY <1>2
  <2> QED BY <1>1, <2>1 DEF RenderInv, ScriptOk
<1>4. /\ graph' \in Seq(Render!ToSet(graph')) /\ Len(graph') \in Nat
      /\ \A i \in DOMAIN graph' : graph'[i].type \in Render!Queues
  <2>1. /\ Render!Drawn(call) \in Seq(Render!ToSet(Render!Drawn(call)))
        /\ \A x \in Render!ToSet(Render!Drawn(call)) : x.type \in Render!Queues
    BY <1>2, RenderAssumption, Zenon DEF Render!FramesAreSynced
  <2>2. graph' \in Seq(Render!ToSet(graph')) /\ \A x \in Render!ToSet(graph') : x.type \in Render!Queues
    BY <1>1, <2>1, Zenon
  <2>3. \A i \in DOMAIN graph' : graph'[i] \in Render!ToSet(graph')
    BY DEF Render!ToSet
  <2> QED BY <2>2, <2>3, LenProperties
<1>5. Render!Settles(script', 0, {"upload"} \cup
                                 IF Render!UsingBackbuffer(graph') THEN {"present"} ELSE {})
  <2>1. Render!MayFollow(call) = {"upload"} \cup
                                 IF Render!UsingBackbuffer(graph') THEN {"present"} ELSE {}
    BY <1>1, <1>2 DEF Render!MayFollow
  <2> QED BY <1>2, <2>1
<1>6. /\ recorded' \in [Render!Queues -> Seq(Execs)]
      /\ lists' \in Seq(Lists) /\ PoolsFit(pool', lists')
      /\ \A q \in Render!Queues : /\ Used(lists, q) \subseteq Used(lists', q)
                                  /\ \A k \in DOMAIN recorded'[q] : recorded'[q][k].alloc \in Used(lists', q)
      /\ Render!UsingBackbuffer(graph') =>
           Len(lists') >= 2 /\ lists'[Len(lists') - 1 + 1].type = "direct"
  <2>1. lists \in Seq(Lists) /\ PoolsFit(pool, lists) /\ "direct" \in Render!Queues
    BY DEF RenderInv, RenderTypes, PoolsOk, Render!Queues
  <2>2. CASE Render!UsingBackbuffer(graph')
    <3> DEFINE a == Render!GetPair(pool["direct"])
               b == Render!GetPair(a.pool)
               p == [pool EXCEPT !["direct"] = a.pool]
               x == [type |-> "direct", alloc |-> a.alloc]
               y == [type |-> "direct", alloc |-> b.alloc]
               l == Append(lists, x)
               m == Append(l, y)
    <3>1. /\ pool' = [pool EXCEPT !["direct"] = b.pool]
          /\ recorded' = [direct |-> <<Render!Exec(0, a.alloc)>>, compute |-> <<>>]
          /\ lists' = lists \o <<x, y>>
      BY <2>2 DEF Render!BeginFrame
    <3>2. p["direct"] = a.pool /\ [p EXCEPT !["direct"] = b.pool] = pool'
      BY <2>1, <3>1, Zenon DEF PoolsFit
    <3>3. b = Render!GetPair(p["direct"])
      BY <3>2
    <3>4. lists' = m
      BY <2>1, <3>1
    <3>5. Takes(pool, lists, "direct", a, p, l) /\ Takes(p, l, "direct", b, pool', m)
      <4> HIDE DEF a, p, b
      <4>1. a = Render!GetPair(pool["direct"]) /\ p = [pool EXCEPT !["direct"] = a.pool]
        BY DEF a, p
      <4> QED BY <3>2, <3>3, <4>1 DEF Takes
    <3> HIDE DEF a, p, b, l, m
    <3>6. PoolsFit(p, l)
      BY <2>1, <3>5, ListIsTaken, Zenon
    <3>7. /\ l \in Seq(Lists) /\ Len(l) = Len(lists) + 1 /\ Len(lists) \in Nat
          /\ \A q \in Render!Queues : Used(lists, q) \subseteq Used(l, q)
          /\ a.alloc \in Allocators /\ a.alloc \in Used(l, "direct")
      <4>1. \A q \in Render!Queues : Used(lists, q) \subseteq Used(l, q)
        BY <2>1, <3>5, ListIsTaken, Zenon
      <4>2. a.alloc \in Allocators /\ a.alloc \in Used(l, "direct")
        BY <2>1, <3>5, ListIsTaken, Zenon
      <4>3. /\ l = Append(lists, [type |-> "direct", alloc |-> a.alloc])
            /\ [type |-> "direct", alloc |-> a.alloc] \in Lists
        BY <2>1, <3>5, <4>2 DEF Takes, Lists
      <4>4. l \in Seq(Lists) /\ Len(l) = Len(lists) + 1 /\ Len(lists) \in Nat
        BY <2>1, <4>3, AppendProperties, LenProperties
      <4> QED BY <4>1, <4>2, <4>4
    <3>8. PoolsFit(pool', m)
      BY <2>1, <3>3, <3>5, <3>6, <3>7, ListIsTaken, Zenon
    <3>9. /\ m \in Seq(Lists) /\ Len(m) = Len(l) + 1
          /\ m[Len(l) + 1] = [type |-> "direct", alloc |-> b.alloc]
          /\ \A q \in Render!Queues : Used(l, q) \subseteq Used(m, q)
      BY <2>1, <3>3, <3>5, <3>6, <3>7, ListIsTaken
    <3>10. Render!Exec(0, a.alloc) \in Execs /\ Render!Exec(0, a.alloc).alloc = a.alloc
      BY <3>7 DEF Execs, Render!Exec
    <3>11. /\ recorded' \in [Render!Queues -> Seq(Execs)]
           /\ \A q \in Render!Queues : \A k \in DOMAIN recorded'[q] :
                recorded'[q][k].alloc = a.alloc /\ q = "direct"
      <4> DEFINE e == Render!Exec(0, a.alloc)
      <4>1. /\ DOMAIN recorded' = Render!Queues
            /\ recorded'["direct"] = <<e>> /\ recorded'["compute"] = <<>>
            /\ recorded' = [q \in DOMAIN recorded' |-> recorded'[q]]
        BY <3>1 DEF Render!Queues
      <4> HIDE DEF e
      <4>2. e \in Execs /\ e.alloc = a.alloc
        BY <3>10 DEF e
      <4> HIDE DEF Execs
      <4>3. <<e>> \in Seq(Execs) /\ <<>> \in Seq(Execs) /\ DOMAIN <<e>> = {1} /\ <<e>>[1] = e
        BY <4>2
      <4>4. \A q \in Render!Queues : q = "direct" \/ q = "compute"
        BY DEF Render!Queues
      <4>5. \A q \in Render!Queues : recorded'[q] \in Seq(Execs)
        BY <4>1, <4>3, <4>4, Zenon
      <4>6. recorded' \in [Render!Queues -> Seq(Execs)]
        <5> HIDE DEF Render!Queues
        <5> QED BY <4>1, <4>5
      <4>7. DOMAIN recorded'["compute"] = {}
        BY <4>1
      <4>8. ASSUME NEW q \in Render!Queues, NEW k \in DOMAIN recorded'[q]
            PROVE  recorded'[q][k].alloc = a.alloc /\ q = "direct"
        <5>1. q = "direct"
          BY <4>4, <4>7
        <5>2. k = 1
          BY <4>1, <4>3, <5>1
        <5> QED BY <4>1, <4>2, <4>3, <5>1, <5>2
      <4> QED BY <4>6, <4>8
    <3>12. \A q \in Render!Queues : \A k \in DOMAIN recorded'[q] :
             recorded'[q][k].alloc \in Used(lists', q)
      BY <2>1, <3>4, <3>7, <3>9, <3>11
    <3>13. Len(lists') >= 2 /\ lists'[Len(lists') - 1 + 1].type = "direct"
      <4>1. Len(m) - 1 + 1 = Len(l) + 1 /\ Len(m) >= 2
        BY <3>7, <3>9
      <4>2. m[Len(l) + 1].type = "direct"
        BY <3>9
      <4> QED BY <3>4, <3>9, <4>1, <4>2
    <3> QED BY <3>2, <3>4, <3>7, <3>8, <3>9, <3>11, <3>12, <3>13
  <2>3. CASE ~Render!UsingBackbuffer(graph')
    <3>1. recorded' = [q \in Render!Queues |-> <<>>] /\ UNCHANGED <<pool, lists>>
      BY <2>3 DEF Render!BeginFrame
    <3>2. <<>> \in Seq(Execs) /\ DOMAIN <<>> = {}
      OBVIOUS
    <3> QED BY <2>1, <2>3, <3>1, <3>2
  <2> QED BY <2>2, <2>3
<1>7. RenderTypes'
  BY <1>1, <1>2, <1>4, <1>6 DEF RenderInv, RenderTypes
<1>8. PoolsOk'
  BY <1>6 DEF PoolsOk
<1>9. WorkIsInFlight'
  BY <1>1, <1>6, InFlightGrows DEF WorkIsInFlight
<1>10. FencesOk'
  BY <1>1 DEF RenderInv, FencesOk
<1>11. WorkIsSignalled'
  BY <1>1, SignalledStays
<1>12. ScriptOk'
  <2>1. phase' = "record" /\ turn' <= Len(graph') + 1
    BY <1>1, <1>4
  <2>2. \A q \in Render!Queues : Pending(gpu'[q], fence'.reached, fence'.value)
    BY <1>1, <1>3 DEF Pending
  <2>3. Render!UsingBackbuffer(graph') =>
          Len(lists') >= turn' + 1 /\ lists'[Len(lists') - turn' + 1].type = "direct"
    BY <1>1, <1>6
  <2> QED BY <1>2, <1>5, <2>1, <2>2, <2>3 DEF ScriptOk
<1> QED
  BY <1>7, <1>8, <1>9, <1>10, <1>11, <1>12 DEF RenderInv

(* What appending a signal of the main fence does to a queue, and perhaps  *)
(* a wait for it to the other.                                             *)
Signalled(o, w) ==
  /\ o \in Render!Queues /\ w \in Seq(Execs)
  /\ Pending(gpu[o], fence.reached, fence.value)
  /\ fence' = [fence EXCEPT !.value = @ + 1]
  /\ DOMAIN gpu' = Render!Queues /\ gpu' = [q \in Render!Queues |-> gpu'[q]]
  /\ gpu'[o] = gpu[o] \o w \o <<Render!Signal("main", fence.value + 1)>>
  /\ \A q \in Render!Queues \ {o} :
       gpu'[q] = gpu[q] \/ gpu'[q] = Append(gpu[q], Render!Wait(fence.value + 1))

(* Types, the order of signals, the origin of what is queued, and that all *)
(* of it is signalled.                                                     *)
LEMMA SignalKeepsFences ==
  ASSUME RenderInv, NEW o, NEW w, Signalled(o, w)
  PROVE  /\ gpu' \in [Render!Queues -> Seq(Items)]
         /\ fence' \in Fences /\ fence'.reached <= fence'.value
         /\ FencesOk'
         /\ Marked(gpu'[o], fence'.value)
         /\ \A q \in Render!Queues \ {o} : gpu'[q] = gpu[q] \/ Marked(gpu'[q], fence'.value)
         /\ \A q \in Render!Queues : \A k \in DOMAIN gpu'[q] : gpu'[q][k].op = "exec" =>
              \/ k \in DOMAIN gpu[q] /\ gpu'[q][k] = gpu[q][k]
              \/ q = o /\ \E l \in DOMAIN w : gpu'[q][k] = w[l]
         /\ phase # "upload" /\ phase' # "upload" /\ UNCHANGED upload => WorkIsSignalled'
<1> DEFINE R == fence.reached
           N == fence.value
           Origin(q, k) == k \in DOMAIN gpu[q] /\ gpu'[q][k] = gpu[q][k]
<1>1. /\ fence \in Fences /\ R \in Nat /\ N \in Nat /\ R <= N
      /\ fence' = [fence EXCEPT !.value = N + 1]
      /\ gpu \in [Render!Queues -> Seq(Items)] /\ FencesOk
  BY DEF RenderInv, RenderTypes, Fences, Signalled
<1>2. fence' \in Fences /\ fence'.reached = R /\ fence'.value = N + 1
  BY <1>1 DEF Fences
<1>3. /\ o \in Render!Queues /\ w \in Seq(Execs) /\ gpu[o] \in Seq(Items)
      /\ gpu'[o] = gpu[o] \o w \o <<Render!Signal("main", N + 1)>>
      /\ SignalsOk(gpu[o], R, N) /\ Pending(gpu[o], R, N)
  BY <1>1 DEF Signalled, FencesOk
<1> HIDE DEF R, N
<1>4. /\ gpu'[o] \in Seq(Items)
      /\ SignalsOk(gpu'[o], R, N + 1) /\ Marked(gpu'[o], N + 1)
      /\ Len(gpu'[o]) \in DOMAIN gpu'[o]
      /\ \A k \in DOMAIN gpu'[o] : gpu'[o][k].op = "exec" =>
           k < Len(gpu'[o]) /\ IsMain(gpu'[o][Len(gpu'[o])])
      /\ \A k \in DOMAIN gpu'[o] : gpu'[o][k].op = "signal" =>
           \/ Origin(o, k)
           \/ k = Len(gpu'[o]) /\ gpu'[o][k].fence = "main" /\ gpu'[o][k].value = N + 1
      /\ \A k \in DOMAIN gpu'[o] : gpu'[o][k].op = "exec" =>
           Origin(o, k) \/ \E l \in DOMAIN w : gpu'[o][k] = w[l]
  <2> DEFINE s == gpu[o]
             t == gpu'[o]
  <2>1. t = s \o w \o <<Render!Signal("main", N + 1)>> /\ s \in Seq(Items)
    BY <1>3
  <2> HIDE DEF s, t
  <2>2. N + 1 \in Nat
    BY <1>1
  <2>3. t \in Seq(Items)
    BY <1>3, <2>1, <2>2, SignalledShape
  <2>4. SignalsOk(s, R, N) /\ Pending(s, R, N)
    BY <1>3 DEF s
  <2>5. /\ SignalsOk(t, R, N + 1) /\ Marked(t, N + 1) /\ Len(t) \in DOMAIN t
        /\ \A k \in DOMAIN t : t[k].op = "exec" => k < Len(t) /\ IsMain(t[Len(t)])
    BY <1>1, <1>3, <2>1, <2>4, SignalKeepsOrder, Zenon
  <2>6. ComesFrom(t, s, w, N + 1)
    BY <1>1, <1>3, <2>1, <2>4, SignalKeepsOrder, Zenon
  <2> QED BY <2>3, <2>5, <2>6 DEF s, t, ComesFrom
<1>5. ASSUME NEW q \in Render!Queues \ {o}
      PROVE  /\ gpu'[q] \in Seq(Items) /\ SignalsOk(gpu'[q], R, N + 1)
             /\ gpu'[q] = gpu[q] \/ Marked(gpu'[q], N + 1)
             /\ DOMAIN gpu[q] \subseteq DOMAIN gpu'[q]
             /\ \A k \in DOMAIN gpu[q] : gpu'[q][k] = gpu[q][k]
             /\ \A k \in DOMAIN gpu'[q] : gpu'[q][k].op # "wait" => k \in DOMAIN gpu[q]
  <2>1. gpu[q] \in Seq(Items) /\ SignalsOk(gpu[q], R, N)
    BY <1>1 DEF FencesOk, R, N
  <2>2. CASE gpu'[q] = gpu[q]
    <3>1. \A k \in DOMAIN gpu[q] : IsMain(gpu[q][k]) => gpu[q][k].value \in Nat
      <4>1. \A x \in Items : IsMain(x) => x.value \in Nat
        BY DEF Items, Execs, Signals, Waits, IsMain
      <4>2. \A k \in DOMAIN gpu[q] : gpu[q][k] \in Items
        BY <2>1, LenProperties, ElementOfSeq
      <4> QED BY <4>1, <4>2
    <3>2. SignalsOk(gpu[q], R, N + 1)
      BY <1>1, <2>1, <3>1 DEF SignalsOk
    <3> QED BY <2>1, <2>2, <3>2
  <2>3. CASE gpu'[q] = Append(gpu[q], Render!Wait(N + 1))
    <3> DEFINE s == gpu[q]
               t == gpu'[q]
    <3>1. t = Append(s, Render!Wait(N + 1)) /\ s \in Seq(Items) /\ SignalsOk(s, R, N)
      BY <2>1, <2>3
    <3> HIDE DEF s, t
    <3>2. /\ t \in Seq(Items) /\ SignalsOk(t, R, N + 1) /\ Marked(t, N + 1)
          /\ WaitsFollow(t, s)
      BY <1>1, <3>1, WaitKeepsOrder, Zenon
    <3> QED BY <3>2 DEF s, t, WaitsFollow
  <2> QED BY <2>2, <2>3 DEF Signalled, N
<1>6. gpu' \in [Render!Queues -> Seq(Items)]
  <2>1. \A q \in Render!Queues : gpu'[q] \in Seq(Items)
    BY <1>4, <1>5
  <2>2. gpu' = [q \in Render!Queues |-> gpu'[q]]
    BY DEF Signalled
  <2> HIDE DEF Items
  <2> QED BY <2>1, <2>2
<1>7. ASSUME NEW q \in Render!Queues, NEW k \in DOMAIN gpu'[q], gpu'[q][k].op = "signal"
      PROVE  \/ Origin(q, k)
             \/ q = o /\ k = Len(gpu'[o]) /\ gpu'[q][k].fence = "main" /\ gpu'[q][k].value = N + 1
  <2>1. CASE q = o
    BY <1>4, <1>7, <2>1
  <2>2. CASE q # o
    BY <1>5, <1>7, <2>2
  <2> QED BY <2>1, <2>2
<1>8. ASSUME NEW q \in Render!Queues, NEW k \in DOMAIN gpu'[q], gpu'[q][k].op = "exec"
      PROVE  \/ Origin(q, k)
             \/ q = o /\ \E l \in DOMAIN w : gpu'[q][k] = w[l]
  <2>1. CASE q = o
    <3>1. k \in DOMAIN gpu'[o] /\ gpu'[o][k].op = "exec"
      BY <1>8, <2>1
    <3>2. CASE Origin(o, k)
      <4>1. Origin(q, k)
        BY <2>1, <3>2
      <4> HIDE DEF Origin
      <4> QED BY <4>1, Zenon
    <3>3. CASE \E l \in DOMAIN w : gpu'[o][k] = w[l]
      BY <2>1, <3>3
    <3>4. Origin(o, k) \/ \E l \in DOMAIN w : gpu'[o][k] = w[l]
      <4> HIDE DEF Origin
      <4> QED BY <1>4, <3>1, Zenon
    <3> QED BY <3>2, <3>3, <3>4, Zenon
  <2>2. CASE q # o
    <3>1. gpu'[q][k].op # "wait"
      BY <1>8
    <3>2. q \in Render!Queues \ {o}
      BY <2>2
    <3>3. Origin(q, k)
      BY <1>5, <3>1, <3>2
    <3> HIDE DEF Origin
    <3> QED BY <3>3, Zenon
  <2> QED BY <2>1, <2>2
<1>9. FencesOk'
  <2>1. \A q \in Render!Queues : SignalsOk(gpu'[q], fence'.reached, fence'.value)
    BY <1>2, <1>4, <1>5
  <2>2. ASSUME NEW q \in Render!Queues, NEW r \in Render!Queues,
               NEW k \in DOMAIN gpu'[q], NEW l \in DOMAIN gpu'[r],
               IsMain(gpu'[q][k]), IsMain(gpu'[r][l]), gpu'[q][k].value = gpu'[r][l].value
        PROVE  q = r /\ k = l
    <3>1. \A p \in Render!Queues : \A j \in DOMAIN gpu[p] : IsMain(gpu[p][j]) => gpu[p][j].value # N + 1
      <4> SUFFICES ASSUME NEW p \in Render!Queues, NEW j \in DOMAIN gpu[p], IsMain(gpu[p][j])
                   PROVE  gpu[p][j].value # N + 1
        OBVIOUS
      <4>1. gpu[p][j].value <= N
        BY <1>1 DEF FencesOk, SignalsOk, N
      <4> QED BY <1>1, <4>1
    <3>2. gpu'[q][k].op = "signal" /\ gpu'[r][l].op = "signal"
      BY <2>2 DEF IsMain
    <3>3. CASE Origin(q, k) /\ Origin(r, l)
      BY <1>1, <2>2, <3>3 DEF FencesOk
    <3>4. CASE ~(Origin(q, k) /\ Origin(r, l))
      BY <1>7, <2>2, <3>1, <3>2, <3>4
    <3> QED BY <3>3, <3>4
  <2> QED BY <2>1, <2>2 DEF FencesOk
<1>10. ASSUME phase # "upload", phase' # "upload", UNCHANGED upload PROVE WorkIsSignalled'
  <2>1. ASSUME NEW q \in Render!Queues, NEW k \in DOMAIN gpu'[q], gpu'[q][k].op = "exec"
        PROVE  \E l \in DOMAIN gpu'[q] : l > k /\ IsMain(gpu'[q][l])
    <3>1. CASE q = o
      <4>1. k < Len(gpu'[o]) /\ IsMain(gpu'[o][Len(gpu'[o])])
        BY <1>4, <2>1, <3>1
      <4>2. Len(gpu'[o]) > k
        BY <4>1, <3>1, <1>6
      <4> QED BY <1>4, <3>1, <4>1, <4>2
    <3>2. CASE q # o
      <4>1. k \in DOMAIN gpu[q] /\ gpu[q][k].op = "exec"
        BY <1>5, <2>1, <3>2
      <4>2. PICK l \in DOMAIN gpu[q] : l > k /\ IsMain(gpu[q][l])
        BY <1>10, <4>1 DEF RenderInv, WorkIsSignalled, IsUpload
      <4> QED BY <1>5, <3>2, <4>2
    <3> QED BY <3>1, <3>2
  <2>2. ASSUME NEW q \in Render!Queues, NEW k \in DOMAIN gpu'[q],
               gpu'[q][k].op = "signal", gpu'[q][k].fence = "upload"
        PROVE  FALSE
    <3>1. Origin(q, k)
      BY <1>7, <2>2
    <3> QED BY <1>10, <2>2, <3>1 DEF RenderInv, WorkIsSignalled
  <2>3. upload'.reached <= upload'.value
    BY <1>10 DEF RenderInv, WorkIsSignalled
  <2> QED BY <1>10, <2>1, <2>2, <2>3 DEF WorkIsSignalled
<1>11. fence'.reached <= fence'.value
  BY <1>1, <1>2
<1>12. /\ Marked(gpu'[o], fence'.value)
       /\ \A q \in Render!Queues \ {o} : gpu'[q] = gpu[q] \/ Marked(gpu'[q], fence'.value)
  BY <1>2, <1>4, <1>5
<1> QED
  BY <1>2, <1>6, <1>8, <1>9, <1>10, <1>11, <1>12

(* Present signals behind work that is signalled already.                  *)
LEMMA PresentKeeps == RenderInv /\ Render!Present => RenderInv'
<1> SUFFICES ASSUME RenderInv, Render!Present PROVE RenderInv'
  OBVIOUS
<1>1. /\ Render!Doing("present") /\ phase = "idle" /\ script' = Tail(script)
      /\ UNCHANGED <<begun, phase, given, graph, turn, recorded, stack, upload, pool, lists>>
  BY DEF Render!Present, Render!Doing, Render!executor
<1>2. /\ script' \in Seq(Render!Calls) /\ Render!IsSynced(script')
      /\ Render!Settles(script', 0, Render!MayFollow(Head(script)))
      /\ Head(script).op = "present"
      /\ \A ops : Render!Settles(script, 0, ops) => "present" \in ops \cup {"sync"}
  BY <1>1, CallIsMade
<1>3. Pending(gpu["direct"], fence.reached, fence.value)
  <2>1. ~Render!Settles(script, 0, {"upload"})
    BY <1>2
  <2> QED BY <1>1, <2>1 DEF RenderInv, ScriptOk, Pending
<1>4. Signalled("direct", <<>>)
  <2> DEFINE x == Render!Signal("main", fence.value + 1)
             s == gpu["direct"]
  <2>1. /\ gpu \in [Render!Queues -> Seq(Items)] /\ fence \in Fences
        /\ "direct" \in Render!Queues /\ s \in Seq(Items)
    BY DEF RenderInv, RenderTypes, Render!Queues
  <2>2. fence' = [fence EXCEPT !.value = @ + 1] /\ fence'.value = fence.value + 1
    BY <2>1 DEF Render!Present, Fences
  <2>3. gpu' = [gpu EXCEPT !["direct"] = Append(s, x)]
    BY <2>2 DEF Render!Present
  <2>4. x \in Items
    BY <2>1 DEF Items, Signals, Fences, Render!Signal
  <2> HIDE DEF x, s
  <2>5. Append(s, x) = s \o <<>> \o <<x>>
    <3> HIDE DEF Items
    <3> QED BY <2>1, <2>4
  <2>6. /\ DOMAIN gpu' = Render!Queues /\ gpu' = [q \in Render!Queues |-> gpu'[q]]
        /\ gpu'["direct"] = s \o <<>> \o <<x>>
        /\ \A q \in Render!Queues \ {"direct"} : gpu'[q] = gpu[q]
    BY <2>1, <2>3, <2>5, Zenon
  <2> QED BY <1>3, <2>1, <2>2, <2>6 DEF Signalled, x, s
<1>5. /\ gpu' \in [Render!Queues -> Seq(Items)]
      /\ fence' \in Fences /\ fence'.reached <= fence'.value
      /\ FencesOk' /\ Marked(gpu'["direct"], fence'.value) /\ WorkIsSignalled'
  BY <1>1, <1>4, SignalKeepsFences
<1>6. RenderTypes'
  BY <1>1, <1>2, <1>5 DEF RenderInv, RenderTypes
<1>7. PoolsOk'
  BY <1>1 DEF RenderInv, PoolsOk
<1>8. WorkIsInFlight'
  <2>1. \A q \in Render!Queues : \A k \in DOMAIN gpu'[q] : gpu'[q][k].op = "exec" =>
          k \in DOMAIN gpu[q] /\ gpu'[q][k] = gpu[q][k]
    BY <1>4, SignalKeepsFences
  <2> QED BY <1>1, <2>1 DEF RenderInv, WorkIsInFlight
<1>9. ScriptOk'
  <2>1. Render!MayFollow(Head(script)) = {"upload", "present"}
    BY <1>2 DEF Render!MayFollow
  <2>2. Render!Settles(script', 0, {"upload", "present"})
    BY <1>2, <2>1, Zenon
  <2>3. Pending(gpu'["direct"], fence'.reached, fence'.value)
    BY <1>5 DEF Pending
  <2> QED BY <1>1, <1>2, <2>2, <2>3 DEF RenderInv, ScriptOk
<1> QED
  BY <1>5, <1>6, <1>7, <1>8, <1>9 DEF RenderInv

(* What is recorded is submitted to one queue at the end of a frame.       *)
LEMMA CloseFrameKeeps == RenderInv /\ Render!CloseFrame => RenderInv'
<1> SUFFICES ASSUME RenderInv, Render!CloseFrame PROVE RenderInv'
  OBVIOUS
<1>1. /\ phase = "record" /\ turn > Len(graph)
      /\ UNCHANGED <<script, begun, given, graph, turn, stack, upload, pool, lists>>
  BY DEF Render!CloseFrame
<1> DEFINE back == Render!UsingBackbuffer(graph)
           A(q) == {e \in Execs : e.alloc \in Used(lists, q)}
           rt == <<Render!RenderTargetToPresent>>
<1>2. ASSUME NEW q \in Render!Queues PROVE recorded[q] \in Seq(A(q))
  <2>1. /\ recorded[q] \in Seq(Execs)
        /\ \A k \in DOMAIN recorded[q] : recorded[q][k].alloc \in Used(lists, q)
    BY DEF RenderInv, RenderTypes, WorkIsInFlight
  <2> DEFINE s == recorded[q]
  <2>2. \A k \in DOMAIN s : s[k] \in A(q)
    BY <2>1, LenProperties, ElementOfSeq
  <2>3. s \in [1 .. Len(s) -> A(q)] /\ Len(s) \in Nat
    <3>1. s \in [1 .. Len(s) -> Execs] /\ Len(s) \in Nat /\ DOMAIN s = 1 .. Len(s)
      BY <2>1, LenProperties
    <3> HIDE DEF s, A
    <3> QED BY <2>2, <3>1
  <2> HIDE DEF s, A
  <2>4. s \in Seq(A(q))
    BY <2>3, SeqDef
  <2> QED BY <2>4 DEF s
<1>3. ASSUME back PROVE rt \in Seq(A("direct"))
  <2> DEFINE i == Len(lists) - Len(graph) - 1 + 1
  <2>1. /\ lists \in Seq(Lists) /\ Len(graph) \in Nat /\ turn \in Nat \ {0}
        /\ turn <= Len(graph) + 1
        /\ Len(lists) >= turn + 1 /\ lists[Len(lists) - turn + 1].type = "direct"
    BY <1>1, <1>3 DEF RenderInv, RenderTypes, ScriptOk
  <2>2. Len(lists) \in Nat /\ DOMAIN lists = 1 .. Len(lists)
    BY <2>1, LenProperties
  <2>3. i = Len(lists) - turn + 1 /\ i \in DOMAIN lists /\ i > 0
    BY <1>1, <2>1, <2>2
  <2>4. lists[i] \in Lists /\ lists[i].type = "direct"
    BY <2>1, <2>2, <2>3, ElementOfSeq
  <2>5. Render!RenderTargetToPresent = Render!Exec(Len(graph) + 1, lists[i].alloc)
    BY DEF Render!RenderTargetToPresent
  <2>6. lists[i].alloc \in Used(lists, "direct") /\ lists[i].alloc \in Allocators
    BY <2>3, <2>4 DEF Used, UsedBehind, Lists
  <2> HIDE DEF i
  <2>7. Render!RenderTargetToPresent \in A("direct")
    BY <2>1, <2>5, <2>6 DEF Render!Exec, Execs
  <2> HIDE DEF A
  <2> QED BY <2>7
<1>4. <<>> \in Seq(A("direct"))
  OBVIOUS
<1>5. \A s, t \in Seq(A("direct")) : s \o t \in Seq(A("direct"))
  <2> HIDE DEF A
  <2> QED BY ConcatProperties
<1>6. CASE phase' = "asserted"
  <2>1. UNCHANGED <<fence, gpu, recorded>>
    BY <1>6 DEF Render!CloseFrame
  <2>2. RenderTypes'
    BY <1>1, <1>6, <2>1 DEF RenderInv, RenderTypes
  <2>3. PoolsOk' /\ WorkIsInFlight' /\ FencesOk'
    BY <1>1, <2>1 DEF RenderInv, PoolsOk, WorkIsInFlight, FencesOk
  <2>4. WorkIsSignalled'
    BY <1>1, <1>6, <2>1, SignalledStays
  <2>5. ScriptOk'
    BY <1>1, <1>6 DEF RenderInv, ScriptOk
  <2> QED BY <2>2, <2>3, <2>4, <2>5 DEF RenderInv
<1>7. CASE phase' # "asserted"
  <2> DEFINE Submits(o, w) ==
               /\ back => o = "direct"
               /\ fence' = [fence EXCEPT !.value = @ + 1]
               /\ gpu' = [gpu EXCEPT ![o] = @ \o w \o <<Render!Signal("main", fence'.value)>>]
               /\ recorded' = [q \in Render!Queues |-> <<>>]
               /\ phase' = "idle"
  <2>0. \E o \in Render!Queues : \E w \in Seq(A(o)) : Submits(o, w)
    <3> DEFINE Early(d) == IF back /\ d THEN recorded["direct"] ELSE <<>>
               Late(d) == (IF back /\ d THEN <<>> ELSE recorded["direct"]) \o (IF back THEN rt ELSE <<>>)
    <3>1. PICK d \in BOOLEAN :
            /\ (Late(d) = <<>>) # (recorded["compute"] = <<>>)
            /\ LET o == IF Late(d) # <<>> THEN "direct" ELSE "compute"
                   w == IF Late(d) # <<>> THEN Early(d) \o Late(d) ELSE recorded["compute"]
               IN  /\ fence' = [fence EXCEPT !.value = @ + 1]
                   /\ gpu' = [gpu EXCEPT ![o] = @ \o w \o <<Render!Signal("main", fence'.value)>>]
                   /\ recorded' = [q \in Render!Queues |-> <<>>]
                   /\ phase' = "idle"
      BY <1>7, Zenon DEF Render!CloseFrame
    <3>2. "direct" \in Render!Queues /\ "compute" \in Render!Queues
      BY DEF Render!Queues
    <3>3. recorded["direct"] \in Seq(A("direct")) /\ recorded["compute"] \in Seq(A("compute"))
      BY <1>2, <3>2
    <3> HIDE DEF rt, back, A
    <3>4. Early(d) \in Seq(A("direct")) /\ Late(d) \in Seq(A("direct"))
      BY <1>3, <1>4, <1>5, <3>3
    <3>5. back => Late(d) # <<>>
      <4> SUFFICES ASSUME back PROVE Late(d) # <<>>
        OBVIOUS
      <4>1. Len(rt) = 1
        BY DEF rt
      <4>2. ASSUME NEW s \in Seq(A("direct")) PROVE s \o rt # <<>>
        BY <1>3, <4>1, <4>2
      <4> QED BY <1>4, <3>3, <4>2, Zenon
    <3> HIDE DEF Early, Late
    <3>6. Early(d) \o Late(d) \in Seq(A("direct"))
      BY <1>5, <3>4
    <3>7. CASE Late(d) # <<>>
      BY <3>1, <3>2, <3>6, <3>7, Zenon
    <3>8. CASE Late(d) = <<>>
      BY <3>1, <3>2, <3>3, <3>5, <3>8, Zenon
    <3> QED BY <3>7, <3>8, Zenon
  <2>1. PICK o \in Render!Queues : \E w \in Seq(A(o)) : Submits(o, w)
    BY <2>0, Zenon
  <2>9. PICK w \in Seq(A(o)) : Submits(o, w)
    BY <2>1, Zenon
  <2>2. /\ w \in Seq(Execs) /\ \A k \in DOMAIN w : w[k].alloc \in Used(lists, o)
    <3>1. A(o) \subseteq Execs /\ \A e \in A(o) : e.alloc \in Used(lists, o)
      OBVIOUS
    <3> HIDE DEF A
    <3>2. w \in Seq(Execs)
      <4> HIDE DEF Execs
      <4> QED BY <2>9, <3>1
    <3>3. \A k \in DOMAIN w : w[k] \in A(o)
      BY <2>9, LenProperties, ElementOfSeq
    <3> QED BY <3>1, <3>2, <3>3
  <2>3. Signalled(o, w)
    <3>1. gpu \in [Render!Queues -> Seq(Items)] /\ fence \in Fences
          /\ Pending(gpu[o], fence.reached, fence.value)
      BY <1>1, <2>1 DEF RenderInv, RenderTypes, ScriptOk
    <3>2. fence'.value = fence.value + 1
      BY <2>9, <3>1 DEF Fences
    <3>3. /\ DOMAIN gpu' = Render!Queues /\ gpu' = [q \in Render!Queues |-> gpu'[q]]
          /\ gpu'[o] = gpu[o] \o w \o <<Render!Signal("main", fence.value + 1)>>
          /\ \A q \in Render!Queues \ {o} : gpu'[q] = gpu[q]
      <4> DEFINE x == gpu[o] \o w \o <<Render!Signal("main", fence.value + 1)>>
      <4>1. gpu' = [gpu EXCEPT ![o] = x]
        BY <2>9, <3>2
      <4> HIDE DEF x, Submits
      <4>2. DOMAIN gpu = Render!Queues /\ gpu = [q \in Render!Queues |-> gpu[q]]
        BY <3>1
      <4>3. /\ DOMAIN gpu' = Render!Queues /\ gpu' = [q \in Render!Queues |-> gpu'[q]]
            /\ gpu'[o] = x /\ \A q \in Render!Queues \ {o} : gpu'[q] = gpu[q]
        BY <4>1, <4>2
      <4> QED BY <4>3 DEF x
    <3> QED BY <2>9, <2>2, <3>1, <3>3 DEF Signalled
  <2>4. /\ gpu' \in [Render!Queues -> Seq(Items)]
        /\ fence' \in Fences /\ fence'.reached <= fence'.value
        /\ FencesOk' /\ Marked(gpu'[o], fence'.value) /\ WorkIsSignalled'
    BY <1>1, <2>9, <2>3, SignalKeepsFences, Zenon
  <2>5. RenderTypes'
    <3>1. recorded' \in [Render!Queues -> Seq(Execs)]
      BY <2>9
    <3> QED BY <1>1, <2>9, <2>4, <3>1 DEF RenderInv, RenderTypes
  <2>6. PoolsOk'
    BY <1>1 DEF RenderInv, PoolsOk
  <2>7. WorkIsInFlight'
    <3>1. \A q \in Render!Queues : \A k \in DOMAIN gpu'[q] : gpu'[q][k].op = "exec" =>
            \/ k \in DOMAIN gpu[q] /\ gpu'[q][k] = gpu[q][k]
            \/ q = o /\ \E l \in DOMAIN w : gpu'[q][k] = w[l]
      BY <2>3, SignalKeepsFences
    <3>2. \A q \in Render!Queues : \A k \in DOMAIN gpu'[q] : gpu'[q][k].op = "exec" =>
            gpu'[q][k].alloc \in Used(lists, q)
      BY <2>2, <3>1 DEF RenderInv, WorkIsInFlight
    <3> QED BY <1>1, <2>9, <3>2 DEF WorkIsInFlight
  <2>8. ScriptOk'
    <3>1. \/ Render!Settles(script, 0, {"upload"})
          \/ Render!Settles(script, 0, {"upload", "present"}) /\ back
      <4>1. Render!Settles(script, 0, {"upload"} \cup IF back THEN {"present"} ELSE {})
        BY <1>1 DEF RenderInv, ScriptOk
      <4> HIDE DEF back
      <4>2. CASE back
        <5>1. {"upload"} \cup (IF back THEN {"present"} ELSE {}) = {"upload", "present"}
          BY <4>2
        <5> QED BY <4>1, <4>2, <5>1
      <4>3. CASE ~back
        <5>1. {"upload"} \cup (IF back THEN {"present"} ELSE {}) = {"upload"}
          BY <4>3
        <5> QED BY <4>1, <5>1, Zenon
      <4> QED BY <4>2, <4>3
    <3>2. back => Pending(gpu'["direct"], fence'.reached, fence'.value)
      BY <2>9, <2>4, Zenon DEF Pending
    <3>3. Render!IsSynced(script)
      BY DEF RenderInv, ScriptOk
    <3> HIDE DEF back
    <3> QED BY <1>1, <2>9, <3>1, <3>2, <3>3 DEF ScriptOk
  <2> QED BY <2>4, <2>5, <2>6, <2>7, <2>8 DEF RenderInv
<1> QED
  BY <1>6, <1>7

(* A pass is recorded into a list that is now in flight; what it depends   *)
(* on is submitted and signalled first.                                    *)
LEMMA RecordPassKeeps == RenderInv /\ Render!RecordPass => RenderInv'
<1> SUFFICES ASSUME RenderInv, Render!RecordPass PROVE RenderInv'
  OBVIOUS
<1> DEFINE q == graph[turn].type
           o == Render!Other(q)
           pair == Render!GetPair(pool[q])
           e == Render!Exec(turn, pair.alloc)
           needs == Render!HasResourceReadDependency(graph[turn])
<1>1. /\ phase = "record" /\ turn <= Len(graph) /\ turn' = turn + 1
      /\ pool' = [pool EXCEPT ![q] = pair.pool]
      /\ lists' = Append(lists, [type |-> q, alloc |-> pair.alloc])
      /\ UNCHANGED <<script, begun, phase, given, graph, upload>>
  BY DEF Render!RecordPass
<1>2. /\ q \in Render!Queues /\ o \in Render!Queues /\ o # q
      /\ turn \in Nat \ {0} /\ Len(graph) \in Nat
      /\ \A r \in Render!Queues : r = q \/ r = o
  <2>1. turn \in Nat \ {0} /\ Len(graph) \in Nat /\ turn \in DOMAIN graph
    BY <1>1, LenProperties DEF RenderInv, RenderTypes
  <2>2. q \in Render!Queues
    BY <2>1 DEF RenderInv, RenderTypes
  <2> HIDE DEF q
  <2> QED BY <2>1, <2>2 DEF Render!Queues, Render!Other
<1>3. Takes(pool, lists, q, pair, pool', lists')
  BY <1>1 DEF Takes
<1>4. lists \in Seq(Lists) /\ PoolsFit(pool, lists)
  BY DEF RenderInv, RenderTypes, PoolsOk
<1>5. /\ IF needs
         THEN /\ fence' = [fence EXCEPT !.value = @ + 1]
              /\ gpu' = [gpu EXCEPT ![o] = @ \o recorded[o] \o <<Render!Signal("main", fence'.value)>>,
                                    ![q] = Append(@, Render!Wait(fence'.value))]
              /\ recorded' = [recorded EXCEPT ![o] = <<>>, ![q] = Append(@, e)]
         ELSE /\ recorded' = [recorded EXCEPT ![q] = Append(@, e)]
              /\ UNCHANGED <<fence, gpu>>
  BY Zenon DEF Render!RecordPass
<1> HIDE DEF q, o, needs, pair
<1>6. /\ lists' \in Seq(Lists) /\ Len(lists') = Len(lists) + 1 /\ Len(lists) \in Nat
      /\ \A k \in 1 .. Len(lists) : lists'[k] = lists[k]
      /\ PoolsFit(pool', lists')
      /\ \A r \in Render!Queues : Used(lists, r) \subseteq Used(lists', r)
      /\ pair.alloc \in Allocators /\ pair.alloc \in Used(lists', q)
  <2>1. /\ PoolsFit(pool', lists')
        /\ \A r \in Render!Queues : Used(lists, r) \subseteq Used(lists', r)
        /\ pair.alloc \in Allocators /\ pair.alloc \in Used(lists', q)
    BY <1>2, <1>3, <1>4, ListIsTaken, Zenon
  <2> DEFINE x == [type |-> q, alloc |-> pair.alloc]
  <2>2. x \in Lists /\ lists' = Append(lists, x)
    BY <1>1, <1>2, <2>1 DEF Lists
  <2> HIDE DEF x
  <2>3. /\ lists' \in Seq(Lists) /\ Len(lists') = Len(lists) + 1 /\ Len(lists) \in Nat
        /\ \A k \in 1 .. Len(lists) : lists'[k] = lists[k]
    BY <1>4, <2>2, AppendProperties, LenProperties
  <2> QED BY <2>1, <2>3
<1>7. e \in Execs /\ e.alloc = pair.alloc
  BY <1>2, <1>6 DEF Execs, Render!Exec
<1> HIDE DEF e
<1>8. /\ recorded' \in [Render!Queues -> Seq(Execs)]
      /\ \A r \in Render!Queues : \A k \in DOMAIN recorded'[r] :
           recorded'[r][k].alloc \in Used(lists', r)
  <2> HIDE DEF Execs
  <2>1. /\ recorded \in [Render!Queues -> Seq(Execs)] /\ recorded[q] \in Seq(Execs)
    BY <1>2 DEF RenderInv, RenderTypes
  <2> DEFINE s == Append(recorded[q], e)
  <2>2. /\ s \in Seq(Execs) /\ Len(recorded[q]) \in Nat
        /\ DOMAIN s = 1 .. Len(recorded[q]) + 1 /\ DOMAIN recorded[q] = 1 .. Len(recorded[q])
        /\ s[Len(recorded[q]) + 1] = e
        /\ \A k \in 1 .. Len(recorded[q]) : s[k] = recorded[q][k]
    BY <1>7, <2>1, AppendProperties, LenProperties
  <2>3. recorded' = IF needs THEN [recorded EXCEPT ![o] = <<>>, ![q] = s] ELSE [recorded EXCEPT ![q] = s]
    BY <1>2, <1>5, <2>1
  <2> HIDE DEF s
  <2>4. <<>> \in Seq(Execs) /\ DOMAIN <<>> = {}
    OBVIOUS
  <2>5. /\ recorded' \in [Render!Queues -> Seq(Execs)] /\ recorded'[q] = s
        /\ recorded'[o] = recorded[o] \/ recorded'[o] = <<>>
    BY <1>2, <2>1, <2>2, <2>3, <2>4, Zenon
  <2>6. \A r \in Render!Queues : \A k \in DOMAIN recorded[r] :
          recorded[r][k].alloc \in Used(lists', r)
    BY <1>6, InFlightGrows
  <2>7. \A k \in DOMAIN s : s[k].alloc \in Used(lists', q)
    <3>1. s[Len(recorded[q]) + 1].alloc \in Used(lists', q)
      BY <1>6, <1>7, <2>2
    <3>2. \A k \in 1 .. Len(recorded[q]) : s[k].alloc \in Used(lists', q)
      BY <1>2, <2>2, <2>6
    <3>3. \A k \in DOMAIN s : k \in 1 .. Len(recorded[q]) \/ k = Len(recorded[q]) + 1
      BY <2>2
    <3> QED BY <3>1, <3>2, <3>3
  <2> QED BY <1>2, <2>4, <2>5, <2>6, <2>7, Zenon
<1>9. PoolsOk'
  BY <1>6 DEF PoolsOk
<1>10. ASSUME \A r \in Render!Queues : Pending(gpu'[r], fence'.reached, fence'.value)
       PROVE  ScriptOk'
  <2>1. /\ Render!IsSynced(script)
        /\ Render!Settles(script, 0, {"upload"} \cup
                                 IF Render!UsingBackbuffer(graph) THEN {"present"} ELSE {})
        /\ Render!UsingBackbuffer(graph) =>
             Len(lists) >= turn + 1 /\ lists[Len(lists) - turn + 1].type = "direct"
    BY <1>1 DEF RenderInv, ScriptOk
  <2>2. ASSUME Render!UsingBackbuffer(graph)
        PROVE  Len(lists') >= turn' + 1 /\ lists'[Len(lists') - turn' + 1].type = "direct"
    <3>1. /\ Len(lists') - turn' + 1 = Len(lists) - turn + 1
          /\ Len(lists) - turn + 1 \in 1 .. Len(lists)
      BY <1>1, <1>2, <1>6, <2>1, <2>2
    <3> QED BY <1>1, <1>2, <1>6, <2>1, <2>2, <3>1
  <2>3. turn' <= Len(graph) + 1
    BY <1>1, <1>2
  <2> QED BY <1>1, <1>10, <2>1, <2>2, <2>3, Zenon DEF ScriptOk
<1>11. CASE ~needs
  <2>1. UNCHANGED <<fence, gpu>>
    BY <1>5, <1>11
  <2>2. RenderTypes'
    BY <1>1, <1>2, <1>6, <1>8, <2>1 DEF RenderInv, RenderTypes
  <2>3. WorkIsInFlight'
    BY <1>6, <1>8, <2>1, InFlightGrows DEF WorkIsInFlight
  <2>4. FencesOk'
    BY <2>1 DEF RenderInv, FencesOk
  <2>5. WorkIsSignalled'
    BY <1>1, <2>1, SignalledStays
  <2>6. ScriptOk'
    <3>1. \A r \in Render!Queues : Pending(gpu'[r], fence'.reached, fence'.value)
      BY <1>1, <2>1 DEF RenderInv, ScriptOk
    <3> QED BY <1>10, <3>1
  <2> QED BY <1>9, <2>2, <2>3, <2>4, <2>5, <2>6 DEF RenderInv
<1>12. CASE needs
  <2> DEFINE w == recorded[o]
             x == gpu[o] \o w \o <<Render!Signal("main", fence.value + 1)>>
             y == Append(gpu[q], Render!Wait(fence.value + 1))
  <2>1. /\ gpu \in [Render!Queues -> Seq(Items)] /\ fence \in Fences /\ w \in Seq(Execs)
        /\ Pending(gpu[o], fence.reached, fence.value)
    BY <1>1, <1>2 DEF RenderInv, RenderTypes, ScriptOk
  <2>2. fence' = [fence EXCEPT !.value = @ + 1] /\ fence'.value = fence.value + 1
    BY <1>5, <1>12, <2>1 DEF Fences
  <2>3. gpu' = [gpu EXCEPT ![o] = x, ![q] = y]
    BY <1>2, <1>5, <1>12, <2>1, <2>2, Zenon
  <2> HIDE DEF x, y
  <2>4. /\ DOMAIN gpu' = Render!Queues /\ gpu' = [r \in Render!Queues |-> gpu'[r]]
        /\ gpu'[o] = x /\ gpu'[q] = y
    <3> HIDE DEF Items
    <3> QED BY <1>2, <2>1, <2>3, Zenon
  <2>5. Signalled(o, w)
    <3>1. \A r \in Render!Queues \ {o} : gpu'[r] = y /\ r = q
      BY <1>2, <2>4
    <3> QED BY <1>2, <2>1, <2>2, <2>4, <3>1 DEF Signalled, x, y
  <2>6. /\ gpu' \in [Render!Queues -> Seq(Items)]
        /\ fence' \in Fences /\ fence'.reached <= fence'.value /\ FencesOk'
        /\ Marked(gpu'[o], fence'.value)
        /\ gpu'[q] = gpu[q] \/ Marked(gpu'[q], fence'.value)
        /\ WorkIsSignalled'
    BY <1>1, <1>2, <2>5, SignalKeepsFences
  <2>7. gpu'[q] # gpu[q]
    <3> DEFINE s == gpu[q]
    <3>1. s \in Seq(Items) /\ Render!Wait(fence.value + 1) \in Items
      BY <1>2, <2>1 DEF Items, Waits, Fences, Render!Wait
    <3> DEFINE z == Render!Wait(fence.value + 1)
    <3> HIDE DEF s, z
    <3>2. Len(Append(s, z)) = Len(s) + 1 /\ Len(s) \in Nat
      <4> HIDE DEF Items
      <4> QED BY <3>1, AppendProperties, LenProperties DEF z
    <3> QED BY <2>4, <3>2 DEF y, s, z
  <2>8. RenderTypes'
    BY <1>1, <1>2, <1>6, <1>8, <2>6 DEF RenderInv, RenderTypes
  <2>9. WorkIsInFlight'
    <3>1. \A r \in Render!Queues : \A k \in DOMAIN gpu'[r] : gpu'[r][k].op = "exec" =>
            \/ k \in DOMAIN gpu[r] /\ gpu'[r][k] = gpu[r][k]
            \/ r = o /\ \E l \in DOMAIN w : gpu'[r][k] = w[l]
      BY <2>5, SignalKeepsFences
    <3>2. \A l \in DOMAIN w : w[l].alloc \in Used(lists', o)
      BY <1>2, <1>6, InFlightGrows
    <3>3. \A r \in Render!Queues : \A k \in DOMAIN gpu[r] : gpu[r][k].op = "exec" =>
            gpu[r][k].alloc \in Used(lists', r)
      BY <1>6, InFlightGrows
    <3>4. \A r \in Render!Queues : \A k \in DOMAIN gpu'[r] : gpu'[r][k].op = "exec" =>
            gpu'[r][k].alloc \in Used(lists', r)
      <4> HIDE DEF w
      <4> QED BY <3>1, <3>2, <3>3
    <3> QED BY <1>8, <3>4 DEF WorkIsInFlight
  <2>10. ScriptOk'
    <3>1. \A r \in Render!Queues : Pending(gpu'[r], fence'.reached, fence'.value)
      BY <1>2, <2>6, <2>7, Zenon DEF Pending
    <3> QED BY <1>10, <3>1
  <2> QED BY <1>9, <2>6, <2>8, <2>9, <2>10 DEF RenderInv
<1> QED
  BY <1>11, <1>12

(* Resetting the lists that may still execute leaves their allocators out. *)
LEMMA DeviceSyncKeeps == RenderInv /\ Render!DeviceSync => RenderInv'
<1> SUFFICES ASSUME RenderInv, Render!DeviceSync PROVE RenderInv'
  OBVIOUS
<1>1. /\ Render!Doing("sync") /\ phase = "idle" /\ phase' = "wait" /\ script' = Tail(script)
      /\ pool' = Render!ResetLists(pool, lists)
      /\ UNCHANGED <<begun, given, graph, turn, recorded, stack, gpu, fence, upload, lists>>
  BY DEF Render!DeviceSync, Render!Doing, Render!executor
<1>2. script' \in Seq(Render!Calls) /\ Render!IsSynced(script')
  BY <1>1, CallIsMade
<1>3. RenderTypes'
  BY <1>1, <1>2 DEF RenderInv, RenderTypes
<1>4. PoolsOk'
  <2>1. lists \in Seq(Lists) /\ PoolsOk
    BY DEF RenderInv, RenderTypes
  <2>2. /\ pool' \in [Render!Queues -> Pool]
        /\ \A q \in Render!Queues : PoolOk(pool'[q], Used(lists, q))
    BY <1>1, <2>1, ListsAreReset
  <2> QED BY <1>1, <2>1, <2>2 DEF PoolsOk, PoolsFit
<1>5. WorkIsInFlight' /\ FencesOk'
  BY <1>1 DEF RenderInv, WorkIsInFlight, FencesOk
<1>6. WorkIsSignalled'
  BY <1>1, SignalledStays
<1>7. ScriptOk'
  BY <1>1, <1>2 DEF RenderInv, ScriptOk
<1> QED
  BY <1>3, <1>4, <1>5, <1>6, <1>7 DEF RenderInv

(* Once the host has waited for the fence no work is queued: the signal    *)
(* behind it is reached.                                                   *)
LEMMA DeviceSyncedKeeps == RenderInv /\ Render!DeviceSynced => RenderInv'
<1> SUFFICES ASSUME RenderInv, Render!DeviceSynced PROVE RenderInv'
  OBVIOUS
<1>1. /\ phase = "wait" /\ fence.reached >= fence.value /\ phase' = "idle"
      /\ pool' = Render!ReturnAllocators(pool, lists) /\ lists' = <<>>
      /\ UNCHANGED <<script, begun, given, graph, turn, recorded, stack, gpu, fence, upload>>
  BY DEF Render!DeviceSynced, Render!HostWaitIsOver, Render!executor
<1>2. RenderTypes'
  BY <1>1 DEF RenderInv, RenderTypes
<1>3. \A q \in Render!Queues : Used(lists', q) = {}
  BY <1>1 DEF Used, UsedBehind
<1>4. PoolsOk'
  <2>1. lists \in Seq(Lists) /\ PoolsOk
    BY DEF RenderInv, RenderTypes
  <2>2. /\ pool' \in [Render!Queues -> Pool]
        /\ \A q \in Render!Queues : PoolOk(pool'[q], {})
    BY <1>1, <2>1, AllocatorsAreReturned
  <2>3. DOMAIN lists' = {}
    BY <1>1
  <2>4. \A q \in Render!Queues : PoolOk(pool'[q], Used(lists', q))
    BY <1>3, <2>2
  <2> QED BY <2>2, <2>3, <2>4 DEF PoolsOk, PoolsFit
<1>5. ASSUME NEW q \in Render!Queues, NEW k \in DOMAIN gpu[q] PROVE gpu[q][k].op # "exec"
  <2> SUFFICES ASSUME gpu[q][k].op = "exec" PROVE FALSE
    OBVIOUS
  <2>1. PICK l \in DOMAIN gpu[q] : IsMain(gpu[q][l])
    BY <1>1 DEF RenderInv, WorkIsSignalled, IsUpload
  <2>2. gpu[q] \in Seq(Items) /\ fence \in Fences
    BY DEF RenderInv, RenderTypes
  <2>3. gpu[q][l].value \in Nat
    <3>1. gpu[q][l] \in Items
      BY <2>2, LenProperties, ElementOfSeq
    <3> QED BY <2>1, <3>1 DEF Items, Execs, Signals, Waits, IsMain
  <2>4. fence.reached < gpu[q][l].value /\ gpu[q][l].value <= fence.value
    BY <2>1 DEF RenderInv, FencesOk, SignalsOk
  <2> QED BY <1>1, <2>2, <2>3, <2>4 DEF Fences
<1>6. WorkIsInFlight'
  BY <1>1, <1>5 DEF RenderInv, ScriptOk, WorkIsInFlight
<1>7. FencesOk'
  BY <1>1 DEF RenderInv, FencesOk
<1>8. WorkIsSignalled'
  BY <1>1, SignalledStays
<1>9. ScriptOk'
  <2>1. fence'.value <= fence'.reached
    BY <1>1 DEF RenderInv, RenderTypes, Fences
  <2> QED BY <1>1, <2>1 DEF RenderInv, ScriptOk
<1> QED
  BY <1>2, <1>4, <1>6, <1>7, <1>8, <1>9 DEF RenderInv

(* An upload is queued with its own signal behind it.                      *)
LEMMA SyncUploadKeeps == RenderInv /\ Render!SyncUpload => RenderInv'
<1> SUFFICES ASSUME RenderInv, Render!SyncUpload PROVE RenderInv'
  OBVIOUS
<1> DEFINE pair == Render!GetPair(pool["direct"])
           e == Render!Exec(-1, pair.alloc)
           x == Render!Signal("upload", upload.value + 1)
           s == gpu["direct"]
           t == s \o <<e, x>>
           n == Len(s)
<1>1. /\ Render!Doing("upload") /\ phase = "idle" /\ phase' = "upload" /\ script' = Tail(script)
      /\ pool' = [pool EXCEPT !["direct"] = pair.pool]
      /\ lists' = Append(lists, [type |-> "direct", alloc |-> pair.alloc])
      /\ gpu' = [gpu EXCEPT !["direct"] = t]
      /\ upload' = [upload EXCEPT !.value = @ + 1]
      /\ UNCHANGED <<begun, given, graph, turn, recorded, stack, fence>>
  BY DEF Render!SyncUpload, Render!Doing, Render!executor
<1>2. /\ lists \in Seq(Lists) /\ PoolsFit(pool, lists) /\ "direct" \in Render!Queues
      /\ upload \in Fences /\ gpu \in [Render!Queues -> Seq(Items)] /\ s \in Seq(Items)
      /\ upload.reached <= upload.value /\ fence \in Fences
  BY DEF RenderInv, RenderTypes, PoolsOk, Render!Queues, WorkIsSignalled
<1>3. upload' \in Fences /\ upload'.value = upload.value + 1 /\ upload'.reached = upload.reached
      /\ upload'.reached < upload'.value
  <2>1. upload' = [upload EXCEPT !.value = @ + 1]
    BY <1>1
  <2>2. upload \in Fences /\ upload.reached <= upload.value
    BY <1>2
  <2> QED BY <2>1, <2>2 DEF Fences
<1>4. /\ script' \in Seq(Render!Calls) /\ Render!IsSynced(script')
      /\ \A ops : Render!Settles(script, 0, ops) => Render!Settles(script', 0, ops)
  BY <1>1, CallIsMade
<1> HIDE DEF pair
<1>5. /\ PoolsFit(pool', lists')
      /\ \A q \in Render!Queues : Used(lists, q) \subseteq Used(lists', q)
      /\ pair.alloc \in Allocators /\ pair.alloc \in Used(lists', "direct")
      /\ pair.alloc \notin Used(lists, "direct")
  <2>1. Takes(pool, lists, "direct", pair, pool', lists')
    BY <1>1 DEF Takes, pair
  <2> QED BY <1>2, <2>1, ListIsTaken, Zenon
<1>6. /\ lists' \in Seq(Lists) /\ lists' # <<>>
      /\ lists'[Len(lists')].type = "direct" /\ lists'[Len(lists')].alloc = pair.alloc
  <2> DEFINE y == [type |-> "direct", alloc |-> pair.alloc]
  <2>1. y \in Lists /\ lists' = Append(lists, y) /\ y.type = "direct" /\ y.alloc = pair.alloc
    BY <1>1, <1>2, <1>5 DEF Lists
  <2> HIDE DEF y
  <2>2. /\ lists' \in Seq(Lists) /\ Len(lists') = Len(lists) + 1 /\ Len(lists) \in Nat
        /\ lists'[Len(lists) + 1] = y
    BY <1>2, <2>1, AppendProperties, LenProperties
  <2>3. lists'[Len(lists')] = y /\ Len(lists') # 0
    BY <2>2
  <2> QED BY <2>1, <2>2, <2>3
<1>7. /\ e \in Items /\ x \in Items /\ e.op = "exec" /\ x.op = "signal" /\ x.fence = "upload"
      /\ x.value = upload'.value /\ e.alloc = pair.alloc /\ x = Render!Signal("upload", upload'.value)
  BY <1>2, <1>3, <1>5 DEF Items, Execs, Signals, Fences, Render!Exec, Render!Signal
<1> HIDE DEF e, x
<1>8. /\ t \in Seq(Items) /\ n \in Nat /\ DOMAIN s = 1 .. n /\ DOMAIN t = 1 .. n + 2
      /\ Len(t) = n + 2 /\ t[n + 1] = e /\ t[n + 2] = x
      /\ \A k \in 1 .. n : t[k] = s[k]
  <2> HIDE DEF Items, s
  <2>1. /\ <<e, x>> \in Seq(Items) /\ Len(<<e, x>>) = 2 /\ <<e, x>>[1] = e /\ <<e, x>>[2] = x
    BY <1>7
  <2> DEFINE y == <<e, x>>
  <2> HIDE DEF y
  <2>2. y \in Seq(Items) /\ Len(y) = 2 /\ y[1] = e /\ y[2] = x /\ t = s \o y
    BY <2>1 DEF y
  <2>3. /\ t \in Seq(Items) /\ Len(t) = n + 2 /\ n \in Nat
        /\ \A k \in 1 .. n : t[k] = s[k]
        /\ \A k \in 1 .. 2 : t[n + k] = y[k]
    BY <1>2, <2>2, ConcatProperties, LenProperties
  <2> HIDE DEF t
  <2> QED BY <1>2, <2>2, <2>3, LenProperties
<1>9. /\ gpu' \in [Render!Queues -> Seq(Items)] /\ gpu'["direct"] = t
      /\ \A q \in Render!Queues : q # "direct" => gpu'[q] = gpu[q]
  <2> HIDE DEF t, Items
  <2> QED BY <1>1, <1>2, <1>8
<1>10. ASSUME NEW q \in Render!Queues, NEW k \in DOMAIN gpu'[q]
       PROVE  \/ k \in DOMAIN gpu[q] /\ gpu'[q][k] = gpu[q][k]
              \/ q = "direct" /\ k = n + 1 /\ gpu'[q][k] = e
              \/ q = "direct" /\ k = n + 2 /\ gpu'[q][k] = x
  <2> HIDE DEF t
  <2> QED BY <1>8, <1>9
<1>11. \A q \in Render!Queues : /\ DOMAIN gpu[q] \subseteq DOMAIN gpu'[q]
                                /\ \A k \in DOMAIN gpu[q] : gpu'[q][k] = gpu[q][k]
  <2> HIDE DEF t
  <2>1. DOMAIN s \subseteq DOMAIN t
    BY <1>8
  <2> QED BY <1>8, <1>9, <2>1, Zenon
<1>12. n + 1 \in DOMAIN gpu'["direct"] /\ Len(gpu'["direct"]) = n + 2 /\ gpu'["direct"][n + 2] = x
  <2> HIDE DEF t
  <2> QED BY <1>8, <1>9
<1> HIDE DEF s, t, n
<1>13. RenderTypes'
  BY <1>1, <1>3, <1>4, <1>6, <1>9 DEF RenderInv, RenderTypes
<1>14. PoolsOk'
  BY <1>5 DEF PoolsOk
<1>15. WorkIsInFlight'
  <2>1. \A q \in Render!Queues : \A k \in DOMAIN gpu'[q] : gpu'[q][k].op = "exec" =>
          gpu'[q][k].alloc \in Used(lists', q)
    BY <1>5, <1>7, <1>10, InFlightGrows
  <2>2. \A q \in Render!Queues : \A k \in DOMAIN recorded[q] : recorded[q][k].alloc \in Used(lists', q)
    BY <1>5, InFlightGrows
  <2> QED BY <1>1, <2>1, <2>2 DEF WorkIsInFlight
<1>16. ASSUME NEW q \in Render!Queues, NEW k \in DOMAIN gpu'[q], IsMain(gpu'[q][k])
       PROVE  k \in DOMAIN gpu[q] /\ gpu'[q][k] = gpu[q][k]
  BY <1>7, <1>10, <1>16 DEF IsMain
<1>17. FencesOk'
  <2>1. ASSUME NEW q \in Render!Queues PROVE SignalsOk(gpu'[q], fence.reached, fence.value)
    <3>1. ASSUME NEW k \in DOMAIN gpu'[q], IsMain(gpu'[q][k])
          PROVE  /\ fence.reached < gpu'[q][k].value /\ gpu'[q][k].value <= fence.value
                 /\ \/ gpu'[q][k].value - 1 = fence.reached
                    \/ \E j \in 1 .. k - 1 : Mark(gpu'[q][j], gpu'[q][k].value - 1)
      <4>1. k \in DOMAIN gpu[q] /\ gpu'[q][k] = gpu[q][k]
        BY <1>16, <3>1
      <4>2. SignalsOk(gpu[q], fence.reached, fence.value) /\ gpu[q] \in Seq(Items)
        BY <1>2 DEF RenderInv, FencesOk
      <4>3. \A j \in 1 .. k - 1 : j \in DOMAIN gpu[q]
        BY <4>1, <4>2, LenProperties
      <4> QED BY <1>11, <3>1, <4>1, <4>2, <4>3 DEF SignalsOk
    <3> QED BY <3>1 DEF SignalsOk
  <2>2. ASSUME NEW q \in Render!Queues, NEW r \in Render!Queues,
               NEW k \in DOMAIN gpu'[q], NEW l \in DOMAIN gpu'[r],
               IsMain(gpu'[q][k]), IsMain(gpu'[r][l]), gpu'[q][k].value = gpu'[r][l].value
        PROVE  q = r /\ k = l
    <3>1. /\ k \in DOMAIN gpu[q] /\ gpu'[q][k] = gpu[q][k]
          /\ l \in DOMAIN gpu[r] /\ gpu'[r][l] = gpu[r][l]
      BY <1>16, <2>2
    <3> QED BY <2>2, <3>1 DEF RenderInv, FencesOk
  <2> QED BY <1>1, <2>1, <2>2 DEF FencesOk
<1>18. WorkIsSignalled'
  <2>1. ASSUME NEW q \in Render!Queues, NEW k \in DOMAIN gpu'[q], gpu'[q][k].op = "exec"
        PROVE  \/ \E l \in DOMAIN gpu'[q] : l > k /\ IsMain(gpu'[q][l])
               \/ q = "direct" /\ IsUpload(k)'
    <3>1. CASE k \in DOMAIN gpu[q] /\ gpu'[q][k] = gpu[q][k]
      <4>1. PICK l \in DOMAIN gpu[q] : l > k /\ IsMain(gpu[q][l])
        BY <1>1, <2>1, <3>1 DEF RenderInv, WorkIsSignalled, IsUpload
      <4> QED BY <1>11, <4>1
    <3>2. CASE q = "direct" /\ k = n + 1
      BY <1>1, <1>7, <1>8, <1>12, <3>2 DEF IsUpload
    <3> QED BY <1>7, <1>10, <2>1, <3>1, <3>2
  <2>2. ASSUME NEW q \in Render!Queues, NEW k \in DOMAIN gpu'[q],
               gpu'[q][k].op = "signal", gpu'[q][k].fence = "upload"
        PROVE  q = "direct" /\ k = Len(gpu'[q]) /\ gpu'[q][k].value = upload'.value
    <3>1. ~(k \in DOMAIN gpu[q] /\ gpu'[q][k] = gpu[q][k])
      BY <1>1, <2>2 DEF RenderInv, WorkIsSignalled
    <3>2. q = "direct" /\ k = n + 2 /\ gpu'[q][k] = x
      BY <1>7, <1>10, <2>2, <3>1
    <3> QED BY <1>7, <1>12, <3>2
  <2>3. ASSUME NEW k \in DOMAIN gpu'["direct"], gpu'["direct"][k].op = "exec",
               gpu'["direct"][k].alloc = lists'[Len(lists')].alloc
        PROVE  IsUpload(k)'
    <3>1. ~(k \in DOMAIN gpu["direct"] /\ gpu'["direct"][k] = gpu["direct"][k])
      BY <1>2, <1>5, <1>6, <2>3 DEF RenderInv, WorkIsInFlight
    <3>2. k = n + 1
      BY <1>2, <1>7, <1>10, <2>3, <3>1
    <3> QED BY <1>1, <1>7, <1>8, <1>12, <3>2 DEF IsUpload
  <2>4. upload'.reached <= upload'.value
    BY <1>3 DEF Fences
  <2> QED BY <1>1, <1>3, <1>6, <2>1, <2>2, <2>3, <2>4 DEF WorkIsSignalled
<1>19. ScriptOk'
  <2>1. \A v : Marked(gpu["direct"], v) => Marked(gpu'["direct"], v)
    BY <1>2, <1>11 DEF Marked
  <2>2. Pending(gpu["direct"], fence.reached, fence.value) =>
          Pending(gpu'["direct"], fence.reached, fence.value)
    BY <2>1 DEF Pending
  <2> QED BY <1>1, <1>4, <2>2 DEF RenderInv, ScriptOk
<1> QED
  BY <1>13, <1>14, <1>15, <1>17, <1>18, <1>19 DEF RenderInv

(* When the upload's signal is reached its list is no longer queued.       *)
LEMMA SyncUploadedKeeps == RenderInv /\ Render!SyncUploaded => RenderInv'
<1> SUFFICES ASSUME RenderInv, Render!SyncUploaded PROVE RenderInv'
  OBVIOUS
<1> DEFINE n == Len(lists)
           a == lists[n].alloc
<1>1. /\ phase = "upload" /\ upload.reached >= upload.value /\ phase' = "idle"
      /\ pool' = [pool EXCEPT !["direct"] =
                    Render!ReturnCommandList(Render!ReturnAllocator(@, Render!Last(lists).alloc))]
      /\ lists' = Render!Front(lists)
      /\ UNCHANGED <<script, begun, given, graph, turn, recorded, stack, gpu, fence, upload>>
  BY DEF Render!SyncUploaded, Render!executor
<1>2. /\ lists \in Seq(Lists) /\ lists # <<>> /\ lists[n].type = "direct" /\ PoolsFit(pool, lists)
      /\ "direct" \in Render!Queues /\ upload \in Fences /\ gpu \in [Render!Queues -> Seq(Items)]
  BY <1>1 DEF RenderInv, RenderTypes, PoolsOk, Render!Queues, WorkIsSignalled
<1>3. /\ Render!Last(lists) = lists[n] /\ n \in DOMAIN lists /\ lists[n] \in Lists
      /\ lists' \in Seq(Lists) /\ DOMAIN lists' = 1 .. n - 1 /\ n \in Nat \ {0} /\ DOMAIN lists = 1 .. n
      /\ \A i \in 1 .. n - 1 : lists'[i] = lists[i]
  BY <1>1, <1>2, FrontAndLast, LenProperties, EmptySeq
<1>4. a \in Allocators /\ a \notin Used(lists', "direct")
      /\ Used(lists, "direct") = Used(lists', "direct") \cup {a}
  <2>1. a \in Allocators
    BY <1>3 DEF Lists
  <2>2. \A j, k \in DOMAIN lists : lists[j].type = lists[k].type /\ lists[j].alloc = lists[k].alloc => j = k
    BY <1>2 DEF PoolsFit
  <2> HIDE DEF n
  <2>3. ASSUME NEW k \in DOMAIN lists', lists'[k].type = "direct" PROVE lists'[k].alloc # a
    <3>1. k \in 1 .. n - 1 /\ k \in DOMAIN lists /\ k # n /\ lists'[k] = lists[k]
      BY <1>3
    <3> QED BY <1>2, <1>3, <2>2, <2>3, <3>1
  <2>4. a \notin Used(lists', "direct")
    BY <2>3 DEF Used, UsedBehind
  <2>5. \A k \in DOMAIN lists : k > 0 /\ (k = n \/ (k \in DOMAIN lists' /\ lists'[k] = lists[k]))
    BY <1>3
  <2>6. \A k \in DOMAIN lists' : k > 0 /\ k \in DOMAIN lists /\ lists'[k] = lists[k]
    BY <1>3
  <2>7. Used(lists, "direct") = Used(lists', "direct") \cup {a}
    BY <1>2, <1>3, <2>5, <2>6 DEF Used, UsedBehind
  <2> QED BY <2>1, <2>4, <2>7
<1>5. \A q \in Render!Queues : q # "direct" => Used(lists', q) = Used(lists, q)
  <2> HIDE DEF n
  <2>1. \A k \in DOMAIN lists : k > 0 /\ (k = n \/ (k \in DOMAIN lists' /\ lists'[k] = lists[k]))
    BY <1>3
  <2>2. \A k \in DOMAIN lists' : k > 0 /\ k \in DOMAIN lists /\ lists'[k] = lists[k]
    BY <1>3
  <2> QED BY <1>2, <2>1, <2>2 DEF Used, UsedBehind
<1>6. PoolsOk'
  <2> DEFINE p == Render!ReturnAllocator(pool["direct"], a)
             r == Render!ReturnCommandList(p)
  <2>1. PoolOk(pool["direct"], Used(lists', "direct") \cup {a}) /\ pool \in [Render!Queues -> Pool]
    BY <1>2, <1>4, Zenon DEF PoolsFit
  <2>2. PoolOk(p, Used(lists', "direct"))
    <3> HIDE DEF a
    <3> QED BY <1>4, <2>1, AllocatorIsReturned
  <2>3. PoolOk(r, Used(lists', "direct"))
    <3> HIDE DEF p
    <3> QED BY <2>2, ListIsReturned
  <2>4. pool' = [pool EXCEPT !["direct"] = r]
    BY <1>1, <1>3
  <2> HIDE DEF r
  <2>5. r \in Pool
    BY <2>3 DEF PoolOk
  <2>6. ASSUME NEW q \in Render!Queues PROVE PoolOk(pool'[q], Used(lists', q))
    <3>1. CASE q = "direct"
      BY <2>1, <2>3, <2>4, <3>1
    <3>2. CASE q # "direct"
      BY <1>2, <1>5, <2>1, <2>4, <3>2 DEF PoolsFit
    <3> QED BY <3>1, <3>2
  <2>7. pool' \in [Render!Queues -> Pool]
    BY <2>1, <2>4, <2>5, Zenon
  <2>8. \A j, k \in DOMAIN lists' : lists'[j].type = lists'[k].type /\ lists'[j].alloc = lists'[k].alloc => j = k
    <3>1. \A j, k \in DOMAIN lists : lists[j].type = lists[k].type /\ lists[j].alloc = lists[k].alloc => j = k
      BY <1>2 DEF PoolsFit
    <3>2. \A k \in DOMAIN lists' : k \in DOMAIN lists /\ lists'[k] = lists[k]
      <4> HIDE DEF n
      <4> QED BY <1>3
    <3> QED BY <3>1, <3>2
  <2> QED BY <2>6, <2>7, <2>8 DEF PoolsOk, PoolsFit
<1>7. RenderTypes'
  BY <1>1, <1>3 DEF RenderInv, RenderTypes
<1>8. \A q \in Render!Queues : \A k \in DOMAIN gpu[q] :
        ~(gpu[q][k].op = "signal" /\ gpu[q][k].fence = "upload")
  BY <1>1, <1>2 DEF RenderInv, WorkIsSignalled, Fences
<1>9. \A k \in DOMAIN gpu["direct"] : ~IsUpload(k)
  <2> SUFFICES ASSUME NEW k \in DOMAIN gpu["direct"], IsUpload(k) PROVE FALSE
    OBVIOUS
  <2>1. k + 1 \in DOMAIN gpu["direct"]
    BY <1>2, LenProperties DEF IsUpload
  <2>2. gpu["direct"][k + 1].op = "signal" /\ gpu["direct"][k + 1].fence = "upload"
    BY DEF IsUpload, Render!Signal
  <2> QED BY <1>2, <1>8, <2>1, <2>2
<1>10. WorkIsInFlight'
  <2>1. \A q \in Render!Queues : recorded[q] = <<>>
    BY <1>1 DEF RenderInv, ScriptOk
  <2>2. ASSUME NEW q \in Render!Queues, NEW k \in DOMAIN gpu[q], gpu[q][k].op = "exec"
        PROVE  gpu[q][k].alloc \in Used(lists', q)
    <3>1. gpu[q][k].alloc \in Used(lists, q)
      BY <2>2 DEF RenderInv, WorkIsInFlight
    <3>2. q = "direct" => gpu[q][k].alloc # a
      BY <1>1, <1>9, <2>2 DEF RenderInv, WorkIsSignalled
    <3> QED BY <1>4, <1>5, <3>1, <3>2
  <2> QED BY <1>1, <2>1, <2>2 DEF WorkIsInFlight
<1>11. FencesOk'
  BY <1>1 DEF RenderInv, FencesOk
<1>12. WorkIsSignalled'
  BY <1>1, <1>8, <1>9 DEF RenderInv, WorkIsSignalled
<1>13. ScriptOk'
  BY <1>1 DEF RenderInv, ScriptOk
<1> QED
  BY <1>6, <1>7, <1>10, <1>11, <1>12, <1>13 DEF RenderInv

(* A queue without its head keeps its signals in order, and stays pending, *)
(* when the head marks nothing beyond what is reached then.                *)
LEMMA HeadKeepsOrder ==
  ASSUME NEW s \in Seq(Items), s # <<>>, NEW m \in Nat, NEW n \in Nat, NEW value \in Nat,
         SignalsOk(s, m, value), n = m \/ n = m + 1,
         \A v \in Nat : Mark(Head(s), v) => v <= n,
         \A k \in DOMAIN s : k > 1 /\ IsMain(s[k]) => s[k].value > n
  PROVE  /\ SignalsOk(Tail(s), n, value)
         /\ Pending(s, m, value) => Pending(Tail(s), n, value)
<1> DEFINE t == Tail(s)
<1>1. /\ Len(s) \in Nat \ {0} /\ DOMAIN s = 1 .. Len(s) /\ DOMAIN t = 1 .. Len(s) - 1
      /\ \A j \in 1 .. Len(s) - 1 : t[j] = s[j + 1]
      /\ Head(s) = s[1]
  <2> HIDE DEF Items
  <2> QED BY HeadTailProperties, LenProperties, EmptySeq
<1> HIDE DEF t
<1>2. ASSUME NEW j \in DOMAIN s, NEW v \in Nat, Mark(s[j], v), v > n
      PROVE  j > 1 /\ j - 1 \in DOMAIN t /\ Mark(t[j - 1], v)
  <2>1. j # 1
    BY <1>1, <1>2
  <2>2. j - 1 \in 1 .. Len(s) - 1 /\ (j - 1) + 1 = j /\ j > 1
    BY <1>1, <2>1
  <2>3. t[j - 1] = s[j]
    BY <1>1, <2>2
  <2> QED BY <1>1, <1>2, <2>2, <2>3
<1>3. ASSUME NEW k \in DOMAIN t, IsMain(t[k])
      PROVE  /\ n < t[k].value /\ t[k].value <= value
             /\ t[k].value - 1 = n \/ \E j \in 1 .. k - 1 : Mark(t[j], t[k].value - 1)
  <2> DEFINE x == t[k].value
  <2>1. k + 1 \in DOMAIN s /\ k + 1 > 1 /\ t[k] = s[k + 1] /\ k \in Nat
    BY <1>1
  <2>2. s[k + 1] \in Items
    BY <2>1, ElementOfSeq, <1>1
  <2>3. x \in Nat
    BY <1>3, <2>1, <2>2 DEF Items, Execs, Signals, Waits, IsMain
  <2>4. n < x /\ x <= value
    BY <1>3, <2>1 DEF SignalsOk
  <2>5. x - 1 = m \/ \E j \in 1 .. k : Mark(s[j], x - 1)
    <3>1. x - 1 = m \/ \E j \in 1 .. (k + 1) - 1 : Mark(s[j], x - 1)
      BY <1>3, <2>1 DEF SignalsOk
    <3>2. (k + 1) - 1 = k
      BY <2>1
    <3> QED BY <3>1, <3>2
  <2> HIDE DEF x
  <2>6. CASE x - 1 = n
    BY <2>4, <2>6 DEF x
  <2>7. CASE x - 1 > n
    <3>1. PICK j \in 1 .. k : Mark(s[j], x - 1)
      BY <2>3, <2>5, <2>7
    <3>2. j \in DOMAIN s /\ x - 1 \in Nat
      BY <1>1, <2>1, <2>3, <2>4
    <3>3. j > 1 /\ Mark(t[j - 1], x - 1)
      BY <1>2, <2>7, <3>1, <3>2
    <3>4. j - 1 \in 1 .. k - 1
      BY <2>1, <3>3
    <3> QED BY <2>4, <3>3, <3>4 DEF x
  <2> QED BY <2>3, <2>4, <2>6, <2>7
<1>4. SignalsOk(t, n, value)
  BY <1>3 DEF SignalsOk
<1>5. ASSUME Pending(s, m, value) PROVE Pending(t, n, value)
  <2>1. CASE value <= n
    BY <2>1 DEF Pending
  <2>2. CASE value > n
    <3>1. PICK j \in DOMAIN s : Mark(s[j], value)
      BY <1>5, <2>2 DEF Pending, Marked
    <3>2. j - 1 \in DOMAIN t /\ Mark(t[j - 1], value)
      BY <1>2, <2>2, <3>1
    <3> QED BY <3>2 DEF Pending, Marked
  <2> QED BY <2>1, <2>2
<1> QED
  BY <1>4, <1>5 DEF t

(* The GPU takes the head of a queue: the fence moves on by one or not at  *)
(* all, and no other signal is for a value that is reached then.           *)
LEMMA GpuStepKeeps ==
  ASSUME RenderInv, NEW p \in Render!Queues, Render!GpuStep(p) PROVE RenderInv'
<1> DEFINE s == gpu[p]
           x == Head(s)
           R == fence.reached
           N == fence.value
<1>1. /\ s # <<>> /\ gpu' = [gpu EXCEPT ![p] = Tail(s)]
      /\ \/ /\ x.op = "exec" /\ UNCHANGED <<fence, upload>>
         \/ /\ x.op = "signal"
            /\ IF x.fence = "main"
               THEN fence' = [fence EXCEPT !.reached = x.value] /\ UNCHANGED upload
               ELSE upload' = [upload EXCEPT !.reached = x.value] /\ UNCHANGED fence
         \/ /\ x.op = "wait" /\ R >= x.value /\ UNCHANGED <<fence, upload>>
      /\ UNCHANGED <<script, begun, phase, given, graph, turn, recorded, stack, pool, lists>>
  BY DEF Render!GpuStep, Render!executor
<1>2. /\ gpu \in [Render!Queues -> Seq(Items)] /\ s \in Seq(Items) /\ fence \in Fences
      /\ R \in Nat /\ N \in Nat /\ R <= N /\ upload \in Fences /\ upload.reached <= upload.value
  BY DEF RenderInv, RenderTypes, Fences, WorkIsSignalled
<1>3. /\ Len(s) \in Nat \ {0} /\ DOMAIN s = 1 .. Len(s) /\ x = s[1] /\ x \in Items
      /\ Tail(s) \in Seq(Items) /\ DOMAIN Tail(s) = 1 .. Len(s) - 1 /\ Len(Tail(s)) = Len(s) - 1
      /\ \A j \in 1 .. Len(s) - 1 : Tail(s)[j] = s[j + 1]
  <2> HIDE DEF Items, s
  <2> QED BY <1>1, <1>2, HeadTailProperties, LenProperties, EmptySeq
<1>4. /\ gpu' \in [Render!Queues -> Seq(Items)] /\ gpu'[p] = Tail(s)
      /\ \A q \in Render!Queues : q # p => gpu'[q] = gpu[q]
  <2> HIDE DEF Items, s
  <2> QED BY <1>1, <1>2, <1>3
<1>5. ASSUME NEW q \in Render!Queues, NEW k \in DOMAIN gpu[q], IsMain(gpu[q][k])
      PROVE  gpu[q][k].value \in Nat /\ R < gpu[q][k].value /\ gpu[q][k].value <= N
  <2>1. gpu[q][k] \in Items
    BY <1>2, LenProperties, ElementOfSeq
  <2>2. gpu[q][k].value \in Nat
    BY <1>5, <2>1 DEF Items, Execs, Signals, Waits, IsMain
  <2>3. SignalsOk(gpu[q], R, N)
    BY DEF RenderInv, FencesOk
  <2> QED BY <1>5, <2>2, <2>3 DEF SignalsOk
<1> HIDE DEF R, N
<1>6. PICK n \in Nat :
        /\ (n = R \/ n = R + 1) /\ n <= N /\ fence' = [fence EXCEPT !.reached = n]
        /\ \A v \in Nat : Mark(x, v) => v <= n
        /\ \A q \in Render!Queues : \A k \in DOMAIN gpu[q] :
             IsMain(gpu[q][k]) /\ ~(q = p /\ k = 1) => gpu[q][k].value > n
  <2>1. CASE IsMain(x)
    <3>1. fence' = [fence EXCEPT !.reached = x.value]
      BY <1>1, <2>1 DEF IsMain
    <3>2. x.value \in Nat /\ R < x.value /\ x.value <= N
      BY <1>3, <1>5, <2>1
    <3>3. x.value = R + 1
      <4>1. x.value - 1 = R \/ \E j \in 1 .. 1 - 1 : Mark(s[j], x.value - 1)
        BY <1>3, <2>1 DEF RenderInv, FencesOk, SignalsOk, R
      <4> QED BY <1>2, <3>2, <4>1
    <3>4. \A v \in Nat : Mark(x, v) => v <= x.value
      BY <3>2 DEF Mark
    <3>5. ASSUME NEW q \in Render!Queues, NEW k \in DOMAIN gpu[q], IsMain(gpu[q][k]), ~(q = p /\ k = 1)
          PROVE  gpu[q][k].value > x.value
      <4>1. gpu[q][k].value # x.value
        BY <1>3, <2>1, <3>5 DEF RenderInv, FencesOk
      <4> QED BY <1>2, <1>5, <3>3, <3>5, <4>1
    <3> QED BY <3>1, <3>2, <3>3, <3>4, <3>5
  <2>2. CASE ~IsMain(x)
    <3>1. UNCHANGED fence /\ (x.op = "wait" => x.value <= R)
      BY <1>1, <1>2, <2>2 DEF IsMain
    <3>2. fence' = [fence EXCEPT !.reached = R]
      BY <1>2, <3>1 DEF Fences, R
    <3>3. \A v \in Nat : Mark(x, v) => v <= R
      BY <2>2, <3>1 DEF Mark
    <3>4. \A q \in Render!Queues : \A k \in DOMAIN gpu[q] : IsMain(gpu[q][k]) => gpu[q][k].value > R
      BY <1>2, <1>5
    <3> QED BY <1>2, <3>2, <3>3, <3>4, Zenon
  <2> QED BY <2>1, <2>2
<1>7. fence' \in Fences /\ fence'.reached = n /\ fence'.value = N /\ n <= N
  BY <1>2, <1>6 DEF Fences, N
<1>8. ASSUME NEW q \in Render!Queues
      PROVE  /\ SignalsOk(gpu'[q], n, N)
             /\ Pending(gpu[q], R, N) => Pending(gpu'[q], n, N)
  <2>1. SignalsOk(gpu[q], R, N)
    BY DEF RenderInv, FencesOk, R, N
  <2>2. CASE q = p
    <3>1. \A k \in DOMAIN s : k > 1 /\ IsMain(s[k]) => s[k].value > n
      BY <1>6
    <3>2. SignalsOk(s, R, N) /\ (n = R \/ n = R + 1)
      BY <1>6, <2>1, <2>2
    <3> HIDE DEF s
    <3>3. SignalsOk(Tail(s), n, N) /\ (Pending(s, R, N) => Pending(Tail(s), n, N))
      BY <1>1, <1>2, <1>6, <3>1, <3>2, HeadKeepsOrder, Zenon
    <3> QED BY <1>4, <2>2, <3>3, Zenon DEF s
  <2>3. CASE q # p
    <3>1. gpu'[q] = gpu[q]
      BY <1>4, <2>3
    <3>2. ASSUME NEW k \in DOMAIN gpu[q], IsMain(gpu[q][k])
          PROVE  /\ n < gpu[q][k].value /\ gpu[q][k].value <= N
                 /\ gpu[q][k].value - 1 = n \/ \E j \in 1 .. k - 1 : Mark(gpu[q][j], gpu[q][k].value - 1)
      <4>1. gpu[q][k].value \in Nat /\ gpu[q][k].value <= N /\ n < gpu[q][k].value
        BY <1>2, <1>5, <1>6, <2>3, <3>2
      <4>2. gpu[q][k].value - 1 = R \/ \E j \in 1 .. k - 1 : Mark(gpu[q][j], gpu[q][k].value - 1)
        BY <2>1, <3>2 DEF SignalsOk
      <4>3. CASE gpu[q][k].value - 1 = R
        BY <1>2, <1>6, <4>1, <4>3
      <4> QED BY <4>1, <4>2, <4>3
    <3>3. SignalsOk(gpu[q], n, N)
      BY <3>2 DEF SignalsOk
    <3>4. Pending(gpu[q], R, N) => Pending(gpu[q], n, N)
      BY <1>2, <1>6 DEF Pending
    <3> QED BY <3>1, <3>3, <3>4
  <2> QED BY <2>2, <2>3
<1>9. upload' \in Fences /\ upload'.value = upload.value /\ upload'.reached <= upload'.value
      /\ \/ upload'.reached = upload.reached
         \/ x.op = "signal" /\ x.fence = "upload" /\ p = "direct" /\ Len(s) = 1
  <2>1. CASE UNCHANGED upload
    BY <1>2, <2>1
  <2>2. CASE ~UNCHANGED upload
    <3>1. x.op = "signal" /\ x.fence # "main" /\ upload' = [upload EXCEPT !.reached = x.value]
      BY <1>1, <2>2
    <3>2. x.fence = "upload"
      BY <1>3, <3>1 DEF Items, Execs, Signals, Waits
    <3>3. p = "direct" /\ 1 = Len(s) /\ x.value = upload.value
      <4>1. 1 \in DOMAIN gpu[p] /\ gpu[p][1].op = "signal" /\ gpu[p][1].fence = "upload"
        BY <1>3, <3>1, <3>2
      <4>2. p = "direct" /\ 1 = Len(gpu[p]) /\ gpu[p][1].value = upload.value
        BY <4>1, Zenon DEF RenderInv, WorkIsSignalled
      <4> QED BY <1>3, <4>2
    <3> QED BY <1>2, <3>1, <3>2, <3>3 DEF Fences
  <2> QED BY <2>1, <2>2
<1>10. RenderTypes'
  BY <1>1, <1>4, <1>7, <1>9 DEF RenderInv, RenderTypes
<1>11. PoolsOk'
  BY <1>1 DEF RenderInv, PoolsOk
<1>12. ASSUME NEW q \in Render!Queues, NEW k \in DOMAIN gpu'[q]
       PROVE  \/ q # p /\ k \in DOMAIN gpu[q] /\ gpu'[q][k] = gpu[q][k]
              \/ q = p /\ k + 1 \in DOMAIN gpu[q] /\ gpu'[q][k] = gpu[q][k + 1] /\ k \in Nat \ {0}
  <2>1. CASE q # p
    BY <1>4, <2>1
  <2>2. CASE q = p
    <3>1. k \in 1 .. Len(s) - 1
      BY <1>3, <1>4, <2>2
    <3> QED BY <1>3, <1>4, <2>2, <3>1
  <2> QED BY <2>1, <2>2
<1>13. WorkIsInFlight'
  <2>1. ASSUME NEW q \in Render!Queues, NEW k \in DOMAIN gpu'[q], gpu'[q][k].op = "exec"
        PROVE  gpu'[q][k].alloc \in Used(lists, q)
    BY <1>12, <2>1 DEF RenderInv, WorkIsInFlight
  <2> QED BY <1>1, <2>1 DEF RenderInv, WorkIsInFlight
<1>14. FencesOk'
  <2>1. ASSUME NEW q \in Render!Queues, NEW r \in Render!Queues,
               NEW k \in DOMAIN gpu'[q], NEW l \in DOMAIN gpu'[r],
               IsMain(gpu'[q][k]), IsMain(gpu'[r][l]), gpu'[q][k].value = gpu'[r][l].value
        PROVE  q = r /\ k = l
    <3>1. \A h \in Render!Queues, i \in Render!Queues : \A j \in DOMAIN gpu[h], m \in DOMAIN gpu[i] :
            IsMain(gpu[h][j]) /\ IsMain(gpu[i][m]) /\ gpu[h][j].value = gpu[i][m].value => h = i /\ j = m
      BY DEF RenderInv, FencesOk
    <3>2. k \in Nat /\ l \in Nat
      BY <1>4, LenProperties
    <3>3. CASE q = p /\ r = p
      <4>1. k + 1 = l + 1
        BY <1>12, <2>1, <3>1, <3>3
      <4> QED BY <3>2, <3>3, <4>1
    <3>4. CASE q # p \/ r # p
      BY <1>12, <2>1, <3>1, <3>4
    <3> QED BY <3>3, <3>4
  <2> QED BY <1>7, <1>8, <2>1 DEF FencesOk
<1>15. WorkIsSignalled'
  <2>1. ASSUME NEW k \in DOMAIN gpu'["direct"],
               IF p = "direct" THEN IsUpload(k + 1) ELSE IsUpload(k)
        PROVE  IsUpload(k)'
    <3>1. CASE p # "direct"
      BY <1>1, <1>4, <1>9, <2>1, <3>1 DEF IsUpload, Render!Queues
    <3>2. CASE p = "direct"
      <4>1. /\ k \in 1 .. Len(s) - 1 /\ k + 1 = Len(s) - 1
            /\ s[(k + 1) + 1] = Render!Signal("upload", upload.value)
        BY <1>3, <1>4, <2>1, <3>2, Zenon DEF IsUpload
      <4>2. k + 1 \in 1 .. Len(s) - 1 /\ k = Len(Tail(s)) - 1
        <5>1. Len(s) \in Nat /\ Len(Tail(s)) = Len(s) - 1
          BY <1>3
        <5> DEFINE y == Len(s)
        <5>2. y \in Nat /\ k \in 1 .. y - 1 /\ k + 1 = y - 1 /\ Len(Tail(s)) = y - 1
          BY <4>1, <5>1
        <5> HIDE DEF y
        <5>3. k + 1 \in 1 .. y - 1 /\ k = (y - 1) - 1
          BY <5>2
        <5> QED BY <5>2, <5>3 DEF y
      <4>3. Tail(s)[k + 1] = Render!Signal("upload", upload'.value)
        BY <1>3, <1>9, <4>1, <4>2
      <4> QED BY <1>1, <1>4, <2>1, <3>2, <4>2, <4>3 DEF IsUpload
    <3> QED BY <3>1, <3>2
  <2>2. ASSUME NEW q \in Render!Queues, NEW k \in DOMAIN gpu'[q], gpu'[q][k].op = "exec"
        PROVE  \/ \E l \in DOMAIN gpu'[q] : l > k /\ IsMain(gpu'[q][l])
               \/ q = "direct" /\ IsUpload(k)'
    <3>1. CASE q # p
      <4>1. k \in DOMAIN gpu[q] /\ gpu[q][k].op = "exec" /\ gpu'[q] = gpu[q]
        BY <1>4, <2>2, <3>1
      <4>2. (\E l \in DOMAIN gpu[q] : l > k /\ IsMain(gpu[q][l])) \/ (q = "direct" /\ IsUpload(k))
        BY <4>1 DEF RenderInv, WorkIsSignalled
      <4>3. CASE \E l \in DOMAIN gpu[q] : l > k /\ IsMain(gpu[q][l])
        BY <4>1, <4>3
      <4>4. CASE q = "direct" /\ IsUpload(k)
        BY <2>1, <3>1, <4>1, <4>4
      <4> QED BY <4>2, <4>3, <4>4
    <3>2. CASE q = p
      <4>1. k + 1 \in DOMAIN s /\ s[k + 1].op = "exec" /\ k \in Nat
        BY <1>12, <2>2, <3>2
      <4>2. (\E l \in DOMAIN s : l > k + 1 /\ IsMain(s[l])) \/ (q = "direct" /\ IsUpload(k + 1))
        BY <3>2, <4>1 DEF RenderInv, WorkIsSignalled
      <4>3. CASE \E l \in DOMAIN s : l > k + 1 /\ IsMain(s[l])
        <5>1. PICK l \in DOMAIN s : l > k + 1 /\ IsMain(s[l])
          BY <4>3
        <5>2. l - 1 \in 1 .. Len(s) - 1 /\ l - 1 > k /\ (l - 1) + 1 = l
          BY <1>3, <4>1, <5>1
        <5>3. l - 1 \in DOMAIN gpu'[q] /\ gpu'[q][l - 1] = s[l]
          BY <1>3, <1>4, <3>2, <5>2, Zenon
        <5> QED BY <5>1, <5>2, <5>3
      <4>4. CASE q = "direct" /\ IsUpload(k + 1)
        BY <2>1, <3>2, <4>4
      <4> QED BY <4>2, <4>3, <4>4
    <3> QED BY <3>1, <3>2
  <2>3. ASSUME NEW q \in Render!Queues, NEW k \in DOMAIN gpu'[q],
               gpu'[q][k].op = "signal", gpu'[q][k].fence = "upload"
        PROVE  /\ q = "direct" /\ phase = "upload" /\ k = Len(gpu'[q])
               /\ gpu'[q][k].value = upload'.value /\ upload'.reached < upload'.value
    <3>1. CASE q # p
      <4>1. /\ q = "direct" /\ phase = "upload" /\ k = Len(gpu[q]) /\ gpu'[q] = gpu[q]
            /\ gpu[q][k].value = upload.value /\ upload.reached < upload.value
        BY <1>4, <2>3, <3>1 DEF RenderInv, WorkIsSignalled
      <4> QED BY <1>9, <3>1, <4>1
    <3>2. CASE q = p
      <4>1. k + 1 \in DOMAIN s /\ k \in Nat \ {0} /\ gpu'[q][k] = s[k + 1]
        BY <1>12, <3>2
      <4>2. /\ q = "direct" /\ phase = "upload" /\ k + 1 = Len(s)
            /\ s[k + 1].value = upload.value /\ upload.reached < upload.value
        BY <2>3, <3>2, <4>1 DEF RenderInv, WorkIsSignalled
      <4>3. Len(s) # 1 /\ k = Len(gpu'[q])
        BY <1>3, <1>4, <3>2, <4>1, <4>2
      <4> QED BY <1>9, <4>1, <4>2, <4>3
    <3> QED BY <3>1, <3>2
  <2>4. ASSUME phase = "upload"
        PROVE  /\ lists # <<>> /\ lists[Len(lists)].type = "direct"
               /\ \A k \in DOMAIN gpu'["direct"] :
                    gpu'["direct"][k].op = "exec" /\ gpu'["direct"][k].alloc = lists[Len(lists)].alloc
                      => IsUpload(k)'
    <3>1. /\ lists # <<>> /\ lists[Len(lists)].type = "direct"
          /\ \A k \in DOMAIN gpu["direct"] :
               gpu["direct"][k].op = "exec" /\ gpu["direct"][k].alloc = lists[Len(lists)].alloc
                 => IsUpload(k)
      BY <2>4 DEF RenderInv, WorkIsSignalled
    <3>2. ASSUME NEW k \in DOMAIN gpu'["direct"], gpu'["direct"][k].op = "exec",
                 gpu'["direct"][k].alloc = lists[Len(lists)].alloc
          PROVE  IsUpload(k)'
      <4>1. "direct" \in Render!Queues
        BY DEF Render!Queues
      <4> QED BY <1>12, <2>1, <3>1, <3>2, <4>1
    <3> QED BY <3>1, <3>2
  <2> QED BY <1>1, <1>9, <2>2, <2>3, <2>4 DEF WorkIsSignalled
<1>16. ScriptOk'
  <2>1. "direct" \in Render!Queues /\ (N <= R => N <= n)
    BY <1>2, <1>6 DEF Render!Queues
  <2>2. phase = "record" => \A q \in Render!Queues : Pending(gpu'[q], n, N)
    BY <1>8 DEF RenderInv, ScriptOk, R, N
  <2>3. phase \in {"idle", "upload"} =>
          \/ N <= n
          \/ Render!Settles(script, 0, {"upload"})
          \/ Render!Settles(script, 0, {"upload", "present"}) /\ Pending(gpu'["direct"], n, N)
    BY <1>8, <2>1 DEF RenderInv, ScriptOk, R, N
  <2> QED BY <1>1, <1>7, <2>2, <2>3 DEF RenderInv, ScriptOk
<1> QED
  BY <1>10, <1>11, <1>13, <1>14, <1>15, <1>16 DEF RenderInv

(* Every step keeps the invariant.                                         *)
LEMMA RenderStep == RenderInv /\ [Render!Next]_Render!vars => RenderInv'
<1> SUFFICES ASSUME RenderInv, [Render!Next]_Render!vars PROVE RenderInv'
  OBVIOUS
<1>1. CASE Render!Cpu
  BY <1>1, NextFrameKeeps, BeginFrameKeeps, RecordPassKeeps, CloseFrameKeeps, PresentKeeps,
     DeviceSyncKeeps, DeviceSyncedKeeps, SyncUploadKeeps, SyncUploadedKeeps, Zenon DEF Render!Cpu
<1>2. CASE \E q \in Render!Queues : Render!GpuStep(q)
  BY <1>2, GpuStepKeeps, Zenon
<1>3. CASE UNCHANGED Render!vars
  <2>1. UNCHANGED <<script, phase, graph, turn, recorded, gpu, fence, upload, pool, lists>>
    BY <1>3 DEF Render!vars
  <2>2. RenderTypes' /\ PoolsOk'
    BY <2>1 DEF RenderInv, RenderTypes, PoolsOk
  <2>3. WorkIsInFlight' /\ FencesOk'
    BY <2>1 DEF RenderInv, WorkIsInFlight, FencesOk
  <2>4. WorkIsSignalled'
    BY <2>1 DEF RenderInv, WorkIsSignalled, IsUpload
  <2>5. ScriptOk'
    BY <2>1 DEF RenderInv, ScriptOk
  <2> QED BY <2>2, <2>3, <2>4, <2>5 DEF RenderInv
<1> QED
  BY <1>1, <1>2, <1>3, Zenon DEF Render!Next

(* What the invariant says of a pool, the lists in flight and the queues.  *)
LEMMA PoolsAreApart == RenderInv => NothingInUseIsReset
<1> SUFFICES ASSUME RenderInv, NEW q \in Render!Queues
             PROVE  LET p == pool[q]
                    IN  /\ (Render!ToSet(p.free) \cup Render!ToSet(p.pairs))
                             \cap (Render!Queued(q) \cup Render!InFlight(q)) = {}
                        /\ Render!IsInjective(p.free \o p.pairs)
                        /\ Render!Queued(q) \subseteq Render!InFlight(q)
  BY DEF NothingInUseIsReset, Render!NothingInUseIsReset
<1> DEFINE s == pool[q].free
           t == pool[q].pairs
<1>1. PoolOk(pool[q], Used(lists, q)) /\ s \in Seq(Allocators) /\ t \in Seq(Allocators)
  BY DEF RenderInv, PoolsOk, PoolsFit, PoolOk, Pool
<1>2. Render!InFlight(q) = Used(lists, q)
  <2>1. \A k \in DOMAIN lists : k > 0
    BY LenProperties DEF RenderInv, RenderTypes
  <2> QED BY <2>1 DEF Render!InFlight, Used, UsedBehind
<1>3. Render!Queued(q) \subseteq Render!InFlight(q)
  BY <1>2 DEF RenderInv, WorkIsInFlight, Render!Queued
<1>4. (Render!ToSet(s) \cup Render!ToSet(t)) \cap Used(lists, q) = {}
  BY <1>1 DEF PoolOk, Render!ToSet
<1>5. Render!IsInjective(s \o t)
  <2>1. /\ Distinct(s) /\ Distinct(t)
        /\ \A i \in DOMAIN s, j \in DOMAIN t : s[i] # t[j]
    BY <1>1 DEF PoolOk
  <2> HIDE DEF s, t
  <2>2. /\ s \o t \in Seq(Allocators) /\ Len(s \o t) = Len(s) + Len(t)
        /\ \A i \in 1 .. Len(s) : (s \o t)[i] = s[i]
        /\ \A i \in 1 .. Len(t) : (s \o t)[Len(s) + i] = t[i]
    BY <1>1, ConcatProperties
  <2> DEFINE u == s \o t
  <2>3. /\ Len(s) \in Nat /\ Len(t) \in Nat /\ DOMAIN u = 1 .. Len(s) + Len(t)
        /\ DOMAIN s = 1 .. Len(s) /\ DOMAIN t = 1 .. Len(t)
    BY <1>1, <2>2, LenProperties
  <2>4. ASSUME NEW i \in DOMAIN u
        PROVE  \/ i \in DOMAIN s /\ u[i] = s[i]
               \/ i - Len(s) \in DOMAIN t /\ u[i] = t[i - Len(s)]
    <3>1. CASE i <= Len(s)
      BY <2>2, <2>3, <3>1
    <3>2. CASE i > Len(s)
      <4>1. i - Len(s) \in 1 .. Len(t) /\ Len(s) + (i - Len(s)) = i
        BY <2>3, <3>2
      <4> QED BY <2>2, <2>3, <4>1
    <3> QED BY <2>3, <3>1, <3>2
  <2> HIDE DEF u
  <2>5. ASSUME NEW i \in DOMAIN u, NEW j \in DOMAIN u, u[i] = u[j] PROVE i = j
    <3>1. i \in Nat /\ j \in Nat
      BY <2>3
    <3>2. i - Len(s) = j - Len(s) => i = j
      BY <2>3, <3>1
    <3> QED BY <2>1, <2>4, <2>5, <3>2 DEF Distinct
  <2>6. Render!IsInjective(u)
    BY <2>5 DEF Render!IsInjective
  <2> QED BY <2>6 DEF u
<1> QED
  BY <1>2, <1>3, <1>4, <1>5

(* An allocator that is reset, free or being recorded into for the next    *)
(* frame is not in use by work the GPU has still to do, and no allocator   *)
(* is in two places, however many lists and pairs and whatever graphs the  *)
(* application draws, as long as it synchronises after it has drawn.       *)
THEOREM NoAllocatorIsReused == Render!Spec => []NothingInUseIsReset
<1>1. Render!Init => RenderInv
  BY RenderStarts
<1>2. RenderInv /\ [Render!Next]_Render!vars => RenderInv'
  BY RenderStep
<1>3. RenderInv => NothingInUseIsReset
  BY PoolsAreApart
<1> QED
  BY <1>1, <1>2, <1>3, PTL DEF Render!Spec

-----------------------------------------------------------------------------
(* RenderFrame: culling.  A set of passes that sustain each other survives *)
(* every round, and a round that erases nothing leaves such a set; each    *)
(* other round erases a pass, so there are no more of them than passes.    *)

(* The count of the back buffer is never 0.                                *)
LEMMA PositiveSum ==
  \A n, m \in Nat : (m # 0 => n + m # 0) /\ n + 0 = n
OBVIOUS

(* A resource has no reads when no pass that is kept reads it.             *)
LEMMA NumReadsProperties ==
  ASSUME NEW g, NEW kept, IsFiniteSet(kept),
         \A i \in kept : IsFiniteSet(DOMAIN g[i].reads), NEW r
  PROVE  Render!NumReads(g, kept, r) = 0 <=>
           /\ r # Render!Backbuffer
           /\ \A i \in kept : \A n \in DOMAIN g[i].reads : g[i].reads[n] # r
<1> DEFINE of == [i \in kept |-> {<<i, k>> : k \in {n \in DOMAIN g[i].reads : g[i].reads[n] = r}}]
           all == {of[i] : i \in kept}
<1>1. \A i \in kept : IsFiniteSet(of[i])
  <2> TAKE i \in kept
  <2> DEFINE places == {n \in DOMAIN g[i].reads : g[i].reads[n] = r}
             pair == [k \in places |-> <<i, k>>]
  <2>1. IsFiniteSet(places)
    <3>1. places \subseteq DOMAIN g[i].reads
      OBVIOUS
    <3> HIDE DEF places
    <3> QED BY <3>1, FS_Subset
  <2>2. IsFiniteSet({pair[k] : k \in places})
    <3>1. pair = [k \in places |-> pair[k]]
      OBVIOUS
    <3> HIDE DEF places, pair
    <3> QED BY <2>1, <3>1, ImageIsFinite
  <2>3. of[i] = {pair[k] : k \in places}
    BY Zenon
  <2> QED BY <2>2, <2>3, Zenon
<1>2. IsFiniteSet(all)
  <2>1. of = [i \in kept |-> of[i]]
    OBVIOUS
  <2> HIDE DEF of
  <2> QED BY <2>1, ImageIsFinite
<1>3. IsFiniteSet(UNION all)
  <2> HIDE DEF of
  <2>1. \A T \in all : IsFiniteSet(T)
    BY <1>1
  <2> HIDE DEF all
  <2> QED BY <1>2, <2>1, FS_UNION
<1>4. Render!Reads(g, kept, r) = UNION all
  BY DEF Render!Reads
<1>5. /\ Cardinality(UNION all) \in Nat
      /\ Cardinality(UNION all) = 0 <=> UNION all = {}
  <2> HIDE DEF all
  <2> QED BY <1>3, FS_CardinalityType, FS_EmptySet
<1>6. UNION all = {} <=> \A i \in kept : \A n \in DOMAIN g[i].reads : g[i].reads[n] # r
  <2>1. ASSUME NEW i \in kept, NEW n \in DOMAIN g[i].reads, g[i].reads[n] = r
        PROVE  UNION all # {}
    <3>1. <<i, n>> \in of[i]
      BY <2>1
    <3> QED BY <3>1, Zenon
  <2>2. ASSUME NEW x \in UNION all
        PROVE  \E i \in kept : \E n \in DOMAIN g[i].reads : g[i].reads[n] = r
    OBVIOUS
  <2> QED BY <2>1, <2>2
<1> HIDE DEF all
<1>7. Render!NumReads(g, kept, r) =
        Cardinality(UNION all) + (IF r = Render!Backbuffer THEN Render!AlwaysRead ELSE 0)
  <2>1. Render!Cardinality(UNION all) = Cardinality(UNION all)
    BY Zenon DEF Cardinality, Render!Cardinality, IsFiniteSet, Render!IsFiniteSet
  <2> QED BY <1>4, <2>1, Zenon DEF Render!NumReads
<1>8. Render!AlwaysRead \in Nat /\ Render!AlwaysRead # 0
  BY SMT DEF Render!AlwaysRead
<1>9. Render!NumReads(g, kept, r) = 0 <=> UNION all = {} /\ r # Render!Backbuffer
  BY <1>5, <1>7, <1>8, PositiveSum, Zenon
<1> QED BY <1>6, <1>9, Zenon

(* The part of the assumption about the application that culling needs.    *)
Passes(g) ==
  /\ g \in Seq(Render!ToSet(g))
  /\ \A x \in Render!ToSet(g) : x.reads \in Seq(Render!ToSet(x.reads))

(* A graph has finitely many passes, each with finitely many reads.        *)
LEMMA PassesAreFinite ==
  ASSUME NEW g, Passes(g)
  PROVE  /\ Len(g) \in Nat /\ DOMAIN g = 1 .. Len(g)
         /\ IsFiniteSet(DOMAIN g) /\ Cardinality(DOMAIN g) = Len(g)
         /\ \A i \in DOMAIN g : IsFiniteSet(DOMAIN g[i].reads)
<1>1. Len(g) \in Nat /\ DOMAIN g = 1 .. Len(g)
  BY DEF Passes
<1>2. IsFiniteSet(1 .. Len(g)) /\ Cardinality(1 .. Len(g)) = Len(g)
  <2>1. \A n \in Nat : IsFiniteSet(1 .. n) /\ Cardinality(1 .. n) = n
    <3> TAKE n \in Nat
    <3>1. IsFiniteSet(1 .. n) /\ Cardinality(1 .. n) = IF 1 > n THEN 0 ELSE n - 1 + 1
      BY FS_Interval
    <3> QED BY <3>1
  <2> QED BY <1>1, <2>1
<1>3. ASSUME NEW i \in DOMAIN g PROVE IsFiniteSet(DOMAIN g[i].reads)
  <2>1. g[i] \in Render!ToSet(g)
    BY DEF Render!ToSet
  <2>2. g[i].reads \in Seq(Render!ToSet(g[i].reads))
    BY <2>1 DEF Passes
  <2>3. DOMAIN g[i].reads = 1 .. Len(g[i].reads) /\ Len(g[i].reads) \in Nat
    BY <2>2
  <2>4. IsFiniteSet(1 .. Len(g[i].reads))
    BY <2>3, FS_Interval
  <2> QED BY <2>3, <2>4
<1> QED BY <1>1, <1>2, <1>3

(* A round leaves the passes with a write that is read or shown.           *)
LEMMA ErasedAre ==
  ASSUME NEW g, Passes(g), NEW kept \in SUBSET (DOMAIN g), NEW i \in kept
  PROVE  i \in Render!EraseDangling(g, kept) <=>
           \E r \in Render!ToSet(g[i].writes) :
             r = Render!Backbuffer \/ \E j \in kept : r \in Render!ToSet(g[j].reads)
<1>1. IsFiniteSet(kept)
  BY PassesAreFinite, FS_Subset
<1>2. \A j \in kept : IsFiniteSet(DOMAIN g[j].reads)
  BY PassesAreFinite
<1>3. \A r : Render!NumReads(g, kept, r) = 0 <=>
               /\ r # Render!Backbuffer
               /\ \A j \in kept : \A n \in DOMAIN g[j].reads : g[j].reads[n] # r
  BY <1>1, <1>2, NumReadsProperties
<1>4. \A j, r : r \in Render!ToSet(g[j].reads) <=> \E n \in DOMAIN g[j].reads : g[j].reads[n] = r
  BY DEF Render!ToSet
<1>5. \A r : r \in Render!ToSet(g[i].writes) <=> \E k \in DOMAIN g[i].writes : g[i].writes[k] = r
  BY DEF Render!ToSet
<1>6. i \in Render!EraseDangling(g, kept) <=>
        \E k \in DOMAIN g[i].writes : Render!NumReads(g, kept, g[i].writes[k]) # 0
  BY DEF Render!EraseDangling, Render!Dangling
<1> DEFINE Shown(r) == r = Render!Backbuffer \/ \E j \in kept : r \in Render!ToSet(g[j].reads)
<1>7. \A r : Render!NumReads(g, kept, r) # 0 <=> Shown(r)
  <2> TAKE r
  <2>1. (\E j \in kept : r \in Render!ToSet(g[j].reads)) <=>
          \E j \in kept : \E n \in DOMAIN g[j].reads : g[j].reads[n] = r
    BY <1>4, Zenon
  <2>2. Render!NumReads(g, kept, r) = 0 <=>
               /\ r # Render!Backbuffer
               /\ \A j \in kept : \A n \in DOMAIN g[j].reads : g[j].reads[n] # r
    BY <1>3, Zenon
  <2> QED BY <2>1, <2>2, Zenon
<1>8. (\E r \in Render!ToSet(g[i].writes) : Shown(r)) <=>
        \E k \in DOMAIN g[i].writes : Shown(g[i].writes[k])
  <2> HIDE DEF Shown
  <2>1. ASSUME NEW r \in Render!ToSet(g[i].writes), Shown(r)
        PROVE  \E k \in DOMAIN g[i].writes : Shown(g[i].writes[k])
    BY <1>5, <2>1, Zenon
  <2>2. ASSUME NEW k \in DOMAIN g[i].writes, Shown(g[i].writes[k])
        PROVE  \E r \in Render!ToSet(g[i].writes) : Shown(r)
    BY <1>5, <2>2, Zenon
  <2> QED BY <2>1, <2>2, Zenon
<1>9. i \in Render!EraseDangling(g, kept) <=>
        \E k \in DOMAIN g[i].writes : Shown(g[i].writes[k])
  <2> HIDE DEF Shown
  <2> QED BY <1>6, <1>7, Zenon
<1> QED BY <1>8, <1>9, Zenon

(* Passes that sustain each other are not erased.                          *)
LEMMA SustainedSurvives ==
  ASSUME NEW g, Passes(g), NEW kept \in SUBSET (DOMAIN g),
         NEW s \in SUBSET kept, Render!Sustained(g, s)
  PROVE  s \subseteq Render!EraseDangling(g, kept)
  BY ErasedAre DEF Render!Sustained

(* Passes of which none is erased sustain each other.                      *)
LEMMA UnerasedIsSustained ==
  ASSUME NEW g, Passes(g), NEW kept \in SUBSET (DOMAIN g), Render!EraseDangling(g, kept) = kept
  PROVE  Render!Sustained(g, kept)
  BY ErasedAre DEF Render!Sustained

(* The rounds end, after at most as many as there are passes, with the     *)
(* largest set of passes that sustain each other.                          *)
LEMMA UndanglingIsLargest ==
  ASSUME NEW g, Passes(g)
  PROVE  Render!Undangling(g) = UNION {kept \in SUBSET (DOMAIN g) : Render!Sustained(g, kept)}
<1> DEFINE D == SUBSET (DOMAIN g)
           n == Len(g)
           rest(x) == Render!EraseDangling(g, x)
           Follows(f) == f = [i \in 0 .. n |-> IF i = 0 THEN DOMAIN g ELSE rest(f[i - 1])]
           largest == UNION {kept \in D : Render!Sustained(g, kept)}
<1>1. n \in Nat /\ IsFiniteSet(DOMAIN g) /\ Cardinality(DOMAIN g) = n
  BY PassesAreFinite
<1>2. \A x \in D : rest(x) \subseteq x
  BY DEF Render!EraseDangling
<1>3. \A x \in D : largest \subseteq x => largest \subseteq rest(x)
  <2> SUFFICES ASSUME NEW x \in D, largest \subseteq x,
                      NEW kept \in D, Render!Sustained(g, kept)
               PROVE  kept \subseteq rest(x)
    BY Zenon
  <2>1. kept \in SUBSET x
    BY Zenon
  <2> QED BY <2>1, SustainedSurvives
<1>4. \A x \in D : rest(x) = x => x \subseteq largest
  BY UnerasedIsSustained, Zenon
<1>5. largest \subseteq DOMAIN g
  OBVIOUS
<1> DEFINE Round(i, x) == /\ x \in D /\ largest \subseteq x /\ IsFiniteSet(x)
                          /\ rest(x) = x \/ Cardinality(x) <= n - i
<1>6. Round(0, DOMAIN g)
  BY <1>1, <1>5
<1> HIDE DEF rest, largest
<1>7. ASSUME NEW i \in 1 .. n, NEW x, Round(i - 1, x) PROVE Round(i, rest(x))
  <2>1. rest(x) \in D /\ largest \subseteq rest(x) /\ rest(x) \subseteq x
    BY <1>2, <1>3, <1>7
  <2>2. IsFiniteSet(rest(x))
    BY <1>7, <2>1, FS_Subset
  <2>3. CASE rest(x) = x
    BY <2>1, <2>2, <2>3
  <2>4. CASE rest(x) # x
    <3>1. Cardinality(rest(x)) <= Cardinality(x) /\ Cardinality(rest(x)) # Cardinality(x)
      BY <1>7, <2>1, <2>4, FS_Subset
    <3>2. Cardinality(x) \in Nat /\ Cardinality(rest(x)) \in Nat
      BY <1>7, <2>2, FS_CardinalityType
    <3>3. Cardinality(x) <= n - (i - 1)
      BY <1>7, <2>4
    <3>4. Cardinality(rest(x)) <= n - i
      BY <1>1, <3>1, <3>2, <3>3
    <3> QED BY <2>1, <2>2, <3>4
  <2> QED BY <2>3, <2>4
<1>8. ASSUME NEW x, Round(n, x) PROVE x = largest
  <2>1. CASE rest(x) = x
    BY <1>4, <1>8, <2>1
  <2>2. CASE Cardinality(x) <= n - n
    <3>1. Cardinality(x) = 0
      BY <1>1, <1>8, <2>2, FS_CardinalityType
    <3>2. x = {}
      BY <1>8, <3>1, FS_EmptySet
    <3> QED BY <1>8, <3>2
  <2> QED BY <1>8, <2>1, <2>2
<1>9. \E f : Follows(f)
  <2> DEFINE step == [i \in 1 .. n |-> [x \in D |-> rest(x)]]
  <2>1. \A i \in 1 .. n : \A x \in D : step[i][x] = rest(x)
    OBVIOUS
  <2>2. \A i \in 1 .. n : \A x \in D : step[i][x] \in D
    BY <1>2, <2>1
  <2>3. DOMAIN g \in D
    OBVIOUS
  <2> HIDE DEF step
  <2>4. PICK f : Iterates(f, n, DOMAIN g, step) /\ \A i \in 0 .. n : f[i] \in D
    <3> HIDE DEF n, D
    <3> QED BY <1>1, <2>2, <2>3, IterationExists, Zenon
  <2>5. ASSUME NEW i \in 0 .. n, i # 0 PROVE step[i][f[i - 1]] = rest(f[i - 1])
    <3>1. i \in 1 .. n /\ i - 1 \in 0 .. n
      BY <1>1, <2>5
    <3> QED BY <2>1, <2>4, <3>1
  <2>6. Follows(f)
    BY <2>4, <2>5, Zenon DEF Iterates
  <2> HIDE DEF Follows
  <2> QED BY <2>6
<1>10. PICK f : Follows(f) /\ Render!Undangling(g) = f[n]
  <2> DEFINE F == CHOOSE f : Follows(f)
  <2>1. Follows(F)
    BY <1>9, Zenon
  <2>2. Render!Undangling(g) = F[n]
    BY DEF Render!Undangling, rest
  <2> HIDE DEF F, Follows
  <2> QED BY <2>1, <2>2
<1>11. f[n] = largest
  <2> DEFINE E == [i \in 0 .. n |-> {x \in D : Round(i, x)}]
  <2>1. f[0] = DOMAIN g /\ \A i \in 1 .. n : f[i] = rest(f[i - 1])
    BY <1>1, <1>10
  <2>2. \A i \in 0 .. n : E[i] = {x \in D : Round(i, x)}
    OBVIOUS
  <2>3. \A i \in 1 .. n : i \in 0 .. n /\ i - 1 \in 0 .. n
    BY <1>1
  <2>4. 0 \in 0 .. n /\ n \in 0 .. n
    BY <1>1
  <2>5. \A i, x : Round(i, x) => x \in D
    OBVIOUS
  <2> HIDE DEF E, Follows, Round, D
  <2>6. f[0] \in E[0]
    BY <1>6, <2>1, <2>2, <2>4, <2>5
  <2>7. \A i \in 1 .. n : f[i - 1] \in E[i - 1] => f[i] \in E[i]
    BY <1>7, <2>1, <2>2, <2>3, <2>5
  <2>8. f[n] \in E[n]
    <3> HIDE DEF n
    <3> QED BY <1>1, <2>6, <2>7, IterationKeeps
  <2> QED BY <1>8, <2>2, <2>4, <2>8
<1> QED BY <1>10, <1>11, Zenon DEF largest

(* The graph in execution is what Run made of the one it was given, whose  *)
(* passes the application keeps to.                                        *)
CullInv ==
  /\ script \in Seq(Render!Calls)
  /\ given.cull => Passes(given.graph)
  /\ graph = Render!Drawn(given)

(* A call taken from the script is one that the application makes.         *)
LEMMA CallsKeep ==
  ASSUME CullInv, NEW op, Render!Doing(op), script' = Tail(script)
  PROVE  /\ Head(script) \in Render!Calls /\ Head(script).op = op
         /\ script' \in Seq(Render!Calls)
<1>1. script \in Seq(Render!Calls) /\ script # <<>> /\ Head(script).op = op
  BY DEF CullInv, Render!Doing
<1> QED BY <1>1, HeadTailProperties

(* No graph has been run yet.                                              *)
LEMMA CullStarts == Render!Init => CullInv
<1> SUFFICES ASSUME Render!Init PROVE CullInv
  OBVIOUS
<1>1. script = <<>> /\ given = [graph |-> <<>>, cull |-> FALSE] /\ graph = <<>>
  BY DEF Render!Init
<1>2. <<>> \in Seq(Render!Calls)
  OBVIOUS
<1> QED BY <1>1, <1>2 DEF CullInv, Render!Drawn

(* Only BeginFrame changes the graph.                                      *)
LEMMA CullStep == CullInv /\ [Render!Next]_Render!vars => CullInv'
<1> SUFFICES ASSUME CullInv, [Render!Next]_Render!vars PROVE CullInv'
  OBVIOUS
<1>1. CASE Render!NextFrame
  <2>1. script' \in Scripts /\ UNCHANGED <<given, graph>>
    BY <1>1 DEF Render!NextFrame, Render!executor
  <2>2. script' \in Seq(Render!Calls)
    BY <2>1, RenderAssumption DEF Render!FramesAreSynced
  <2> QED BY <2>1, <2>2 DEF CullInv
<1>2. CASE Render!BeginFrame
  <2> DEFINE call == Head(script)
  <2>1. /\ Render!Doing("run") /\ script' = Tail(script)
        /\ given' = [graph |-> call.graph, cull |-> call.cull]
        /\ graph' = Render!Drawn(call)
    BY <1>2 DEF Render!BeginFrame
  <2>2. call \in Render!Calls /\ call.op = "run" /\ script' \in Seq(Render!Calls)
    BY <2>1, CallsKeep
  <2> HIDE DEF call
  <2>3. Passes(call.graph)
    BY <2>2, RenderAssumption, Zenon DEF Render!FramesAreSynced, Passes
  <2>4. given'.graph = call.graph /\ given'.cull = call.cull
    BY <2>1
  <2>5. graph' = Render!Drawn(given')
    BY <2>1, <2>4, Zenon DEF Render!Drawn
  <2>6. Passes(given'.graph)
    BY <2>3, <2>4, Zenon
  <2> QED BY <2>2, <2>5, <2>6 DEF CullInv
<1>3. CASE UNCHANGED <<given, graph>> /\ \E op : Render!Doing(op) /\ script' = Tail(script)
  <2>1. script' \in Seq(Render!Calls)
    BY <1>3, CallsKeep
  <2> QED BY <1>3, <2>1 DEF CullInv
<1>4. CASE UNCHANGED <<script, given, graph>>
  BY <1>4 DEF CullInv
<1>5. CASE Render!RecordPass \/ Render!CloseFrame
  <2>1. UNCHANGED <<script, given, graph>>
    BY <1>5, Zenon DEF Render!RecordPass, Render!CloseFrame
  <2> QED BY <1>4, <2>1
<1>6. CASE Render!Present \/ Render!DeviceSync \/ Render!SyncUpload
  <2>1. UNCHANGED <<given, graph>>
    BY <1>6 DEF Render!Present, Render!DeviceSync, Render!SyncUpload, Render!executor
  <2>2. \E op : Render!Doing(op) /\ script' = Tail(script)
    BY <1>6, Zenon DEF Render!Present, Render!DeviceSync, Render!SyncUpload
  <2> QED BY <1>3, <2>1, <2>2
<1>7. CASE Render!DeviceSynced \/ Render!SyncUploaded
  <2>1. UNCHANGED <<script, given, graph>>
    BY <1>7 DEF Render!DeviceSynced, Render!SyncUploaded, Render!executor
  <2> QED BY <1>4, <2>1
<1>8. CASE \E q \in Render!Queues : Render!GpuStep(q)
  <2>1. UNCHANGED <<script, given, graph>>
    BY <1>8 DEF Render!GpuStep, Render!executor
  <2> QED BY <1>4, <2>1
<1>9. CASE UNCHANGED Render!vars
  <2>1. UNCHANGED <<script, given, graph>>
    BY <1>9 DEF Render!vars
  <2> QED BY <1>4, <2>1
<1> QED
  BY <1>1, <1>2, <1>5, <1>6, <1>7, <1>8, <1>9, Zenon DEF Render!Next, Render!Cpu

(* The graph that runs is the largest set of passes in which each has a    *)
(* write that is read or shown: the rounds of CullFrameGraph erase no pass *)
(* the picture needs and leave none that nothing is drawn from.            *)
THEOREM CullingStaysExact == Render!Spec => []CullingIsExact
<1>1. Render!Init => CullInv
  BY CullStarts
<1>2. CullInv /\ [Render!Next]_Render!vars => CullInv'
  BY CullStep
<1>3. CullInv => CullingIsExact
  <2> SUFFICES ASSUME CullInv, given.cull
               PROVE  graph = Render!PassesAt(given.graph,
                                UNION {kept \in SUBSET (DOMAIN given.graph) :
                                         Render!Sustained(given.graph, kept)})
    BY Zenon DEF CullInv, CullingIsExact, Render!CullingIsExact, Render!Drawn
  <2>1. Render!Undangling(given.graph) = UNION {kept \in SUBSET (DOMAIN given.graph) :
                                                  Render!Sustained(given.graph, kept)}
    BY UndanglingIsLargest DEF CullInv
  <2>2. graph = Render!PassesAt(given.graph, Render!Undangling(given.graph))
    BY Zenon DEF CullInv, Render!Drawn, Render!CullFrameGraph
  <2> QED BY <2>1, <2>2, Zenon
<1> QED
  BY <1>1, <1>2, <1>3, PTL DEF Render!Spec

-----------------------------------------------------------------------------
(* ObjectAllocator: free items and blocks lie apart, inside what is not    *)
(* pristine, and on an even page they leave nothing out.  Where the items  *)
(* are in the list matters only to the two pointers of Defragment.         *)
MemoryItems == [at : Nat \ {0}, size : Nat \ (0 .. 2)]
Blocks == [at : Nat, correction : {1}, need : Needs]
BlockStart(b) == b.at - b.correction

Apart(a, m, b, n) == a + m <= b \/ b + n <= a
Inside(a, m, d, o) == d <= a /\ a + m <= d + o
IsIn(w, a, m) == a <= w /\ w < a + m
IsEven(n) == n % 2 = 0

Layout(items, blocks, d, o) ==
  /\ \A x, y \in items : x # y => Apart(x.at, x.size, y.at, y.size)
  /\ \A b, c \in blocks :
       b # c => Apart(BlockStart(b), Memory!BlockSize(b), BlockStart(c), Memory!BlockSize(c))
  /\ \A x \in items, b \in blocks : Apart(x.at, x.size, BlockStart(b), Memory!BlockSize(b))
  /\ \A x \in items : Inside(x.at, x.size, d, o)
  /\ \A b \in blocks : Inside(BlockStart(b), Memory!BlockSize(b), d, o)

Tiled(items, blocks, d, o) ==
  /\ IsEven(o) /\ \A x \in items : IsEven(x.at) /\ IsEven(x.size)
  /\ \A b \in blocks : IsEven(BlockStart(b))
  /\ \A w \in d .. d + o - 1 :
       (\E x \in items : IsIn(w, x.at, x.size))
         \/ (\E b \in blocks : IsIn(w, BlockStart(b), Memory!BlockSize(b)))

(* Rounding up to two words.                                               *)
LEMMA AlignedProperties ==
  ASSUME NEW n \in Nat
  PROVE  /\ Memory!Align(n, 2) \in Nat /\ IsEven(Memory!Align(n, 2))
         /\ n <= Memory!Align(n, 2) /\ Memory!Align(n, 2) <= n + 1
         /\ IsEven(n) => Memory!Align(n, 2) = n
  BY DEF Memory!Align, IsEven

LEMMA CorrectionIsOne == ASSUME NEW n \in Nat PROVE Memory!Correction(n) = 1
  BY DEF Memory!Correction, Memory!Align, Memory!HEAD, Memory!ALIGNMENT

(* The sizes of a block: what it is accounted for when it goes, and what   *)
(* its allocation takes, which is the same at an even address.             *)
LEMMA BlockSizes ==
  ASSUME NEW b \in Blocks
  PROVE  /\ Memory!BlockSize(b) \in Nat /\ Memory!BlockSize(b) >= 3 /\ IsEven(Memory!BlockSize(b))
         /\ BlockStart(b) \in Int
<1>1. b.need \in Nat /\ b.need >= 1 /\ b.correction = 1 /\ b.at \in Nat
  <2>1. b.need \in Needs /\ b.correction = 1 /\ b.at \in Nat
    BY DEF Blocks
  <2>2. \A n \in Needs : n \in Nat /\ n >= 1
    BY MemoryAssumption
  <2> QED BY <2>1, <2>2
<1>2. /\ Memory!Align(b.need, 2) \in Nat /\ IsEven(Memory!Align(b.need, 2))
      /\ b.need <= Memory!Align(b.need, 2)
  BY <1>1, AlignedProperties
<1>3. Memory!BlockSize(b) = 2 + Memory!Align(b.need, 2)
  BY <1>1, <1>2 DEF Memory!BlockSize, Memory!HEAD, Memory!BACK_ALIGNMENT
<1>4. BlockStart(b) \in Int
  BY <1>1 DEF BlockStart
<1>5. ASSUME NEW w \in Nat, IsEven(w), b.need <= w
      PROVE  2 + w \in Nat /\ 2 + w >= 3 /\ IsEven(2 + w)
  BY <1>1, <1>5 DEF IsEven
<1> QED BY <1>2, <1>3, <1>4, <1>5

LEMMA NewBlock ==
  ASSUME NEW first \in Nat, NEW need \in Needs
  PROVE  LET b == Memory!Block(first, need)
             total == Memory!TotalSize(first, Memory!Align(need, Memory!BACK_ALIGNMENT))
         IN  /\ b \in Blocks /\ BlockStart(b) = first
             /\ Memory!BlockSize(b) = 2 + Memory!Align(need, Memory!BACK_ALIGNMENT)
             /\ total \in Nat /\ Memory!BlockSize(b) <= total
             /\ IsEven(first) => total = Memory!BlockSize(b)
<1> DEFINE words == Memory!Align(need, Memory!BACK_ALIGNMENT)
           b == Memory!Block(first, need)
           total == Memory!TotalSize(first, words)
<1>1. need \in Nat /\ Memory!BACK_ALIGNMENT = 2
  BY MemoryAssumption DEF Memory!BACK_ALIGNMENT
<1>2. words \in Nat /\ IsEven(words)
  BY <1>1, AlignedProperties
<1>3. b = [at |-> first + 1, correction |-> 1, need |-> need]
  BY CorrectionIsOne DEF Memory!Block
<1>4. b \in Blocks /\ BlockStart(b) = first
  BY <1>3 DEF Blocks, BlockStart
<1>5. Memory!BlockSize(b) = 2 + words
  <2>1. b.correction = 1 /\ b.need = need
    BY <1>3
  <2> HIDE DEF b
  <2> QED BY <1>2, <2>1 DEF Memory!BlockSize, Memory!HEAD
<1>6. total = Memory!Align((first + 2) + words, 2) - first
  <2>1. (first + 1) + 1 = first + 2
    OBVIOUS
  <2> HIDE DEF words
  <2> QED BY <1>1, <2>1, CorrectionIsOne DEF Memory!TotalSize, Memory!HEAD
<1>7. /\ total \in Nat /\ 2 + words <= total
      /\ IsEven(first) => total = 2 + words
  <2> HIDE DEF words
  <2> DEFINE n == (first + 2) + words
  <2>1. n \in Nat /\ n - first = 2 + words /\ (IsEven(first) => IsEven(n))
    BY <1>2 DEF IsEven
  <2>2. total = Memory!Align(n, 2) - first
    BY <1>6
  <2>3. /\ Memory!Align(n, 2) \in Nat /\ n <= Memory!Align(n, 2)
        /\ IsEven(n) => Memory!Align(n, 2) = n
    BY <2>1, AlignedProperties
  <2> HIDE DEF n, total
  <2> QED BY <1>2, <2>1, <2>2, <2>3
<1> QED BY <1>4, <1>5, <1>7

-----------------------------------------------------------------------------
(* The steps, on the sets of items and blocks.                             *)

(* A block cut from an item; what is left over stays an item.              *)
LEMMA ItemIsTaken ==
  ASSUME NEW items \in SUBSET MemoryItems, NEW blocks \in SUBSET Blocks,
         NEW d \in Nat, NEW o \in Nat, Layout(items, blocks, d, o),
         NEW item \in items, NEW b \in Blocks, NEW total \in Nat,
         BlockStart(b) = item.at, Memory!BlockSize(b) <= total,
         NEW rests \in SUBSET MemoryItems,
         IF total = item.size THEN rests = {}
         ELSE /\ total <= item.size
              /\ rests = {Memory!Item(item.at + total, item.size - total)}
  PROVE  /\ Layout((items \ {item}) \cup rests, blocks \cup {b}, d, o)
         /\ IsEven(total) /\ Memory!BlockSize(b) = total /\ Tiled(items, blocks, d, o)
              => Tiled((items \ {item}) \cup rests, blocks \cup {b}, d, o)
<1> DEFINE new == (items \ {item}) \cup rests
<1>1. \A x \in MemoryItems : x.at \in Nat /\ x.size \in Nat /\ x.size >= 3
  BY DEF MemoryItems
<1>2. \A c \in Blocks :
        /\ BlockStart(c) \in Int /\ Memory!BlockSize(c) \in Nat /\ Memory!BlockSize(c) >= 3
  BY BlockSizes
<1>3. /\ \A x \in new :
           \/ x \in items /\ x # item
           \/ /\ x.at = item.at + total /\ x.size = item.size - total
              /\ rests = {x} /\ total <= item.size
      /\ total # item.size =>
           \E x \in new : x.at = item.at + total /\ x.size = item.size - total
      /\ \A x \in items : x = item \/ x \in new
      /\ total <= item.size
  <2>1. item.size \in Nat
    BY <1>1
  <2> DEFINE rest == Memory!Item(item.at + total, item.size - total)
  <2>2. rest.at = item.at + total /\ rest.size = item.size - total
    BY DEF Memory!Item
  <2>3. IF total = item.size THEN rests = {} ELSE total <= item.size /\ rests = {rest}
    OBVIOUS
  <2> HIDE DEF rest
  <2> QED BY <2>1, <2>2, <2>3
<1>4. new \subseteq MemoryItems
  OBVIOUS
<1> HIDE DEF new
<1>5. \A x, y \in new : x # y => Apart(x.at, x.size, y.at, y.size)
  BY <1>1, <1>3, <1>4 DEF Layout, Apart
<1>6. \A c, e \in blocks \cup {b} :
        c # e => Apart(BlockStart(c), Memory!BlockSize(c), BlockStart(e), Memory!BlockSize(e))
  BY <1>1, <1>2, <1>3, <1>4 DEF Layout, Apart
<1>7. \A x \in new, c \in blocks \cup {b} :
        Apart(x.at, x.size, BlockStart(c), Memory!BlockSize(c))
  BY <1>1, <1>2, <1>3, <1>4 DEF Layout, Apart
<1>8. \A x \in new : Inside(x.at, x.size, d, o)
  BY <1>1, <1>3, <1>4 DEF Layout, Inside
<1>9. \A c \in blocks \cup {b} : Inside(BlockStart(c), Memory!BlockSize(c), d, o)
  BY <1>1, <1>2, <1>3, <1>4 DEF Layout, Inside
<1>10. ASSUME IsEven(total), Memory!BlockSize(b) = total, Tiled(items, blocks, d, o)
       PROVE  Tiled(new, blocks \cup {b}, d, o)
  <2>1. \A x \in new : IsEven(x.at) /\ IsEven(x.size)
    BY <1>1, <1>3, <1>4, <1>10 DEF Tiled, IsEven
  <2>2. \A c \in blocks \cup {b} : IsEven(BlockStart(c))
    BY <1>10 DEF Tiled
  <2>3. ASSUME NEW w \in d .. d + o - 1
        PROVE  \/ \E x \in new : IsIn(w, x.at, x.size)
               \/ \E c \in blocks \cup {b} : IsIn(w, BlockStart(c), Memory!BlockSize(c))
    <3>1. CASE \E c \in blocks : IsIn(w, BlockStart(c), Memory!BlockSize(c))
      BY <3>1
    <3>2. CASE \E x \in items : IsIn(w, x.at, x.size)
      <4>1. PICK x \in items : IsIn(w, x.at, x.size)
        BY <3>2
      <4>2. CASE x # item
        BY <1>3, <4>1, <4>2
      <4>3. CASE x = item
        BY <1>1, <1>2, <1>3, <1>10, <4>1, <4>3 DEF IsIn
      <4> QED BY <4>2, <4>3
    <3> QED BY <1>10, <3>1, <3>2 DEF Tiled
  <2> QED BY <1>10, <2>1, <2>2, <2>3 DEF Tiled
<1> QED BY <1>5, <1>6, <1>7, <1>8, <1>9, <1>10 DEF Layout, new

(* A block cut from the pristine end.                                      *)
LEMMA PristineIsTaken ==
  ASSUME NEW items \in SUBSET MemoryItems, NEW blocks \in SUBSET Blocks,
         NEW d \in Nat, NEW o \in Nat, Layout(items, blocks, d, o),
         NEW b \in Blocks, BlockStart(b) = d + o
  PROVE  /\ Layout(items, blocks \cup {b}, d, o + Memory!BlockSize(b))
         /\ IsEven(d) /\ Tiled(items, blocks, d, o)
              => Tiled(items, blocks \cup {b}, d, o + Memory!BlockSize(b))
<1>1. \A x \in MemoryItems : x.at \in Nat /\ x.size \in Nat /\ x.size >= 3
  BY DEF MemoryItems
<1>2. \A c \in Blocks :
        /\ BlockStart(c) \in Int /\ Memory!BlockSize(c) \in Nat /\ Memory!BlockSize(c) >= 3
        /\ IsEven(Memory!BlockSize(c))
  BY BlockSizes
<1>3. \A c, e \in blocks \cup {b} :
        c # e => Apart(BlockStart(c), Memory!BlockSize(c), BlockStart(e), Memory!BlockSize(e))
  BY <1>2 DEF Layout, Apart, Inside
<1>4. \A x \in items, c \in blocks \cup {b} :
        Apart(x.at, x.size, BlockStart(c), Memory!BlockSize(c))
  BY <1>1, <1>2 DEF Layout, Apart, Inside
<1>5. \A x \in items : Inside(x.at, x.size, d, o + Memory!BlockSize(b))
  BY <1>1, <1>2 DEF Layout, Inside
<1>6. \A c \in blocks \cup {b} :
        Inside(BlockStart(c), Memory!BlockSize(c), d, o + Memory!BlockSize(b))
  BY <1>2 DEF Layout, Inside
<1>7. ASSUME IsEven(d), Tiled(items, blocks, d, o)
      PROVE  Tiled(items, blocks \cup {b}, d, o + Memory!BlockSize(b))
  <2>1. IsEven(o + Memory!BlockSize(b)) /\ IsEven(d + o)
    BY <1>2, <1>7 DEF Tiled, IsEven
  <2>2. ASSUME NEW w \in d .. d + (o + Memory!BlockSize(b)) - 1
        PROVE  \/ \E x \in items : IsIn(w, x.at, x.size)
               \/ \E c \in blocks \cup {b} : IsIn(w, BlockStart(c), Memory!BlockSize(c))
    <3>1. CASE w < d + o
      <4>1. w \in d .. d + o - 1
        BY <1>2, <3>1
      <4> QED BY <1>7, <4>1 DEF Tiled
    <3>2. CASE ~ (w < d + o)
      BY <1>2, <3>2 DEF IsIn
    <3> QED BY <3>1, <3>2
  <2> QED BY <1>7, <2>1, <2>2 DEF Tiled
<1> QED BY <1>3, <1>4, <1>5, <1>6, <1>7 DEF Layout

(* A block that becomes an item.                                           *)
LEMMA BlockIsFreed ==
  ASSUME NEW items \in SUBSET MemoryItems, NEW blocks \in SUBSET Blocks,
         NEW d \in Nat, NEW o \in Nat, Layout(items, blocks, d, o),
         NEW b \in blocks, NEW item \in MemoryItems,
         item.at = BlockStart(b), item.size = Memory!BlockSize(b)
  PROVE  /\ item \notin items
         /\ Layout(items \cup {item}, blocks \ {b}, d, o)
         /\ Tiled(items, blocks, d, o) => Tiled(items \cup {item}, blocks \ {b}, d, o)
<1>1. \A x \in MemoryItems : x.at \in Nat /\ x.size \in Nat /\ x.size >= 3
  BY DEF MemoryItems
<1>2. \A c \in Blocks :
        /\ BlockStart(c) \in Int /\ Memory!BlockSize(c) \in Nat /\ Memory!BlockSize(c) >= 3
        /\ IsEven(Memory!BlockSize(c))
  BY BlockSizes
<1>3. item \notin items
  BY <1>1 DEF Layout, Apart
<1>4. Layout(items \cup {item}, blocks \ {b}, d, o)
  BY <1>1, <1>2 DEF Layout, Apart, Inside
<1>5. ASSUME Tiled(items, blocks, d, o) PROVE Tiled(items \cup {item}, blocks \ {b}, d, o)
  <2>1. \A x \in items \cup {item} : IsEven(x.at) /\ IsEven(x.size)
    BY <1>2, <1>5 DEF Tiled
  <2>2. ASSUME NEW w \in d .. d + o - 1
        PROVE  \/ \E x \in items \cup {item} : IsIn(w, x.at, x.size)
               \/ \E c \in blocks \ {b} : IsIn(w, BlockStart(c), Memory!BlockSize(c))
    BY <1>5 DEF Tiled
  <2> QED BY <1>5, <2>1, <2>2 DEF Tiled
<1> QED BY <1>3, <1>4, <1>5

(* An item given back to the pristine end.                                 *)
LEMMA ItemIsGivenBack ==
  ASSUME NEW items \in SUBSET MemoryItems, NEW blocks \in SUBSET Blocks,
         NEW d \in Nat, NEW o \in Nat, Layout(items, blocks, d, o),
         NEW item \in items, item.at + item.size = d + o
  PROVE  /\ o - item.size \in Nat
         /\ Layout(items \ {item}, blocks, d, o - item.size)
         /\ Tiled(items, blocks, d, o) => Tiled(items \ {item}, blocks, d, o - item.size)
<1>1. \A x \in MemoryItems : x.at \in Nat /\ x.size \in Nat /\ x.size >= 3
  BY DEF MemoryItems
<1>2. \A c \in Blocks :
        /\ BlockStart(c) \in Int /\ Memory!BlockSize(c) \in Nat /\ Memory!BlockSize(c) >= 3
  BY BlockSizes
<1>3. o - item.size \in Nat
  BY <1>1 DEF Layout, Inside
<1>4. Layout(items \ {item}, blocks, d, o - item.size)
  <2>1. \A x \in items \ {item} : Inside(x.at, x.size, d, o - item.size)
    BY <1>1, <1>3 DEF Layout, Inside, Apart
  <2>2. \A c \in blocks : Inside(BlockStart(c), Memory!BlockSize(c), d, o - item.size)
    BY <1>1, <1>2, <1>3 DEF Layout, Inside, Apart
  <2> QED BY <2>1, <2>2 DEF Layout
<1>5. ASSUME Tiled(items, blocks, d, o) PROVE Tiled(items \ {item}, blocks, d, o - item.size)
  <2>1. IsEven(o - item.size)
    BY <1>1, <1>5 DEF Tiled, IsEven
  <2>2. ASSUME NEW w \in d .. d + (o - item.size) - 1
        PROVE  \/ \E x \in items \ {item} : IsIn(w, x.at, x.size)
               \/ \E c \in blocks : IsIn(w, BlockStart(c), Memory!BlockSize(c))
    <3>1. w \in d .. d + o - 1 /\ ~ IsIn(w, item.at, item.size)
      BY <1>1, <1>3 DEF IsIn
    <3> QED BY <1>5, <3>1 DEF Tiled
  <2> QED BY <1>5, <2>1, <2>2 DEF Tiled
<1> QED BY <1>3, <1>4, <1>5

(* Two neighbours that become one.                                         *)
LEMMA ItemsAreMerged ==
  ASSUME NEW items \in SUBSET MemoryItems, NEW blocks \in SUBSET Blocks,
         NEW d \in Nat, NEW o \in Nat, Layout(items, blocks, d, o),
         NEW x \in items, NEW y \in items, x.at + x.size = y.at,
         NEW z \in MemoryItems, z.at = x.at, z.size = x.size + y.size
  PROVE  /\ Layout((items \ {x, y}) \cup {z}, blocks, d, o)
         /\ Tiled(items, blocks, d, o) => Tiled((items \ {x, y}) \cup {z}, blocks, d, o)
<1> DEFINE new == (items \ {x, y}) \cup {z}
<1>1. \A v \in MemoryItems : v.at \in Nat /\ v.size \in Nat /\ v.size >= 3
  BY DEF MemoryItems
<1>2. \A c \in Blocks :
        /\ BlockStart(c) \in Int /\ Memory!BlockSize(c) \in Nat /\ Memory!BlockSize(c) >= 3
  BY BlockSizes
<1>3. \A v \in items \ {x, y} : Apart(v.at, v.size, z.at, z.size)
  BY <1>1 DEF Layout, Apart
<1>4. \A v, u \in new : v # u => Apart(v.at, v.size, u.at, u.size)
  BY <1>1, <1>3 DEF Layout, Apart
<1>5. \A v \in new, c \in blocks : Apart(v.at, v.size, BlockStart(c), Memory!BlockSize(c))
  BY <1>1, <1>2 DEF Layout, Apart
<1>6. \A v \in new : Inside(v.at, v.size, d, o)
  BY <1>1 DEF Layout, Inside
<1>7. ASSUME Tiled(items, blocks, d, o) PROVE Tiled(new, blocks, d, o)
  <2>1. \A v \in new : IsEven(v.at) /\ IsEven(v.size)
    BY <1>1, <1>7 DEF Tiled, IsEven
  <2>2. ASSUME NEW w \in d .. d + o - 1
        PROVE  \/ \E v \in new : IsIn(w, v.at, v.size)
               \/ \E c \in blocks : IsIn(w, BlockStart(c), Memory!BlockSize(c))
    <3>1. \A v \in {x, y} : IsIn(w, v.at, v.size) => IsIn(w, z.at, z.size)
      BY <1>1 DEF IsIn
    <3> QED BY <1>7, <3>1 DEF Tiled
  <2> QED BY <1>7, <2>1, <2>2 DEF Tiled
<1> QED BY <1>4, <1>5, <1>6, <1>7 DEF Layout

-----------------------------------------------------------------------------
(* The free list: what is in it, each item once.                           *)
ListsOnce(s, items) ==
  /\ s \in Seq(MemoryItems)
  /\ \A i, j \in DOMAIN s : s[i] = s[j] => i = j
  /\ {s[i] : i \in DOMAIN s} = items

(* Putting a new item into the list.                                       *)
LEMMA InsertedIsListed ==
  ASSUME NEW s, NEW t, NEW items, NEW item \in MemoryItems, item \notin items,
         ListsOnce(s, items), NEW i \in 1 .. Len(s) + 1, HasInserted(t, MemoryItems, s, i, item)
  PROVE  ListsOnce(t, items \cup {item})
<1>1. /\ s \in Seq(MemoryItems) /\ Len(s) \in Nat /\ DOMAIN s = 1 .. Len(s)
      /\ \A j \in 1 .. Len(s) : s[j] \in items
  BY DEF ListsOnce
<1>2. /\ t \in Seq(MemoryItems) /\ DOMAIN t = 1 .. Len(s) + 1
      /\ \A j \in 1 .. Len(s) + 1 : t[j] = IF j < i THEN s[j] ELSE IF j = i THEN item ELSE s[j - 1]
  BY DEF HasInserted
<1>3. ASSUME NEW j \in DOMAIN t, NEW k \in DOMAIN t, t[j] = t[k] PROVE j = k
  <2> DEFINE from(n) == IF n < i THEN n ELSE n - 1
  <2>1. \A n \in 1 .. Len(s) + 1 : n # i => from(n) \in 1 .. Len(s) /\ t[n] = s[from(n)]
    BY <1>1, <1>2
  <2>2. t[i] = item /\ \A n \in 1 .. Len(s) + 1 : n # i => t[n] # item
    BY <1>1, <1>2, <2>1
  <2>3. CASE j = i \/ k = i
    BY <1>2, <1>3, <2>2, <2>3
  <2>4. CASE j # i /\ k # i
    <3>1. from(j) = from(k)
      <4> HIDE DEF from
      <4> QED BY <1>1, <1>2, <1>3, <2>1, <2>4 DEF ListsOnce
    <3> QED BY <1>1, <1>2, <2>4, <3>1
  <2> QED BY <2>3, <2>4
<1>4. {t[j] : j \in DOMAIN t} = items \cup {item}
  <2>1. ASSUME NEW j \in DOMAIN t PROVE t[j] \in items \cup {item}
    <3>1. /\ j < i => j \in 1 .. Len(s)
          /\ ~ (j < i) /\ j # i => j - 1 \in 1 .. Len(s)
      BY <1>1, <1>2
    <3> QED BY <1>1, <1>2, <3>1
  <2>2. ASSUME NEW x \in items \cup {item} PROVE \E j \in DOMAIN t : t[j] = x
    <3>1. CASE x = item
      <4>1. i \in DOMAIN t /\ t[i] = item
        BY <1>1, <1>2
      <4> QED BY <3>1, <4>1
    <3>2. CASE x \in items
      <4>1. PICK k \in 1 .. Len(s) : s[k] = x
        BY <1>1, <3>2 DEF ListsOnce
      <4>2. CASE k < i
        <5>1. k \in 1 .. Len(s) + 1
          BY <1>1
        <5> QED BY <1>2, <4>1, <4>2, <5>1
      <4>3. CASE ~ (k < i)
        <5>1. k + 1 \in 1 .. Len(s) + 1 /\ ~ (k + 1 < i) /\ k + 1 # i /\ (k + 1) - 1 = k
          BY <1>1, <4>3
        <5> QED BY <1>2, <4>1, <5>1, Zenon
      <4> QED BY <4>2, <4>3
    <3> QED BY <3>1, <3>2
  <2> QED BY <2>1, <2>2
<1> QED BY <1>2, <1>3, <1>4, Zenon DEF ListsOnce

LEMMA InsertIsListed ==
  ASSUME NEW s, NEW items, NEW item \in MemoryItems, item \notin items, ListsOnce(s, items)
  PROVE  ListsOnce(Memory!Insert(s, item), items \cup {item})
<1>1. s \in Seq(MemoryItems) /\ Len(s) \in Nat /\ DOMAIN s = 1 .. Len(s)
  BY DEF ListsOnce
<1>2. item.size \in Nat /\ \A i \in 1 .. Len(s) : s[i].size \in Nat
  <2>1. \A x \in MemoryItems : x.size \in Nat
    BY DEF MemoryItems
  <2>2. \A i \in 1 .. Len(s) : s[i] \in MemoryItems
    BY <1>1
  <2> QED BY <2>1, <2>2
<1> DEFINE a == s[1].size
           z == Memory!Last(s).size
<1>7. s # <<>> => a \in Nat /\ z \in Nat
  <2>1. s # <<>> => 1 \in 1 .. Len(s) /\ Len(s) \in 1 .. Len(s)
    BY <1>1, EmptySeq
  <2> QED BY <1>2, <2>1 DEF Memory!Last
<1>8. Memory!Insert(s, item) =
        CASE s = <<>> -> <<item>>
          [] s # <<>> /\ a <= item.size -> <<item>> \o s
          [] s # <<>> /\ a > item.size /\ z >= item.size -> Append(s, item)
          [] OTHER ->
               Memory!InsertAt(s,
                 Memory!Min({i \in 2 .. Len(s) : /\ s[i - 1].size >= item.size
                                                  /\ s[i].size <= item.size}),
                 item)
  BY DEF Memory!Insert
<1> HIDE DEF a, z
<1>3. CASE s = <<>>
  <2>1. Memory!Insert(s, item) = <<item>> /\ Len(s) = 0
    BY <1>3 DEF Memory!Insert
  <2>2. HasInserted(<<item>>, MemoryItems, s, 1, item)
    BY <2>1 DEF HasInserted
  <2> QED BY <1>1, <2>1, <2>2, InsertedIsListed
<1>4. CASE s # <<>> /\ a <= item.size
  <2>1. Memory!Insert(s, item) = <<item>> \o s
    BY <1>2, <1>4, <1>7, <1>8
  <2>2. HasInserted(<<item>> \o s, MemoryItems, s, 1, item)
    BY <1>1 DEF HasInserted
  <2> QED BY <1>1, <2>1, <2>2, InsertedIsListed
<1>5. CASE s # <<>> /\ a > item.size /\ z >= item.size
  <2>1. Memory!Insert(s, item) = Append(s, item)
    BY <1>2, <1>5, <1>7, <1>8
  <2>2. HasInserted(Append(s, item), MemoryItems, s, Len(s) + 1, item)
    BY <1>1 DEF HasInserted
  <2> QED BY <1>1, <2>1, <2>2, InsertedIsListed
<1>6. CASE s # <<>> /\ a > item.size /\ ~ (z >= item.size)
  <2> DEFINE places == {i \in 2 .. Len(s) : s[i - 1].size >= item.size /\ s[i].size <= item.size}
             lower == {i \in 1 .. Len(s) : s[i].size <= item.size}
  <2>1. Len(s) >= 1 /\ Len(s) \in lower /\ 1 \notin lower /\ item.size \in Nat
    BY <1>1, <1>2, <1>6, EmptySeq DEF a, z, Memory!Last
  <2>2. PICK i \in lower : \A j \in lower : i <= j
    <3>1. lower \subseteq 0 .. Len(s)
      OBVIOUS
    <3> HIDE DEF lower
    <3> QED BY <1>1, <2>1, <3>1, MinExists, Zenon
  <2>3. i \in places
    BY <1>1, <1>2, <2>1, <2>2
  <2>4. Memory!Min(places) \in places
    <3>1. places \subseteq 0 .. Len(s) /\ places # {}
      BY <2>3
    <3> HIDE DEF places
    <3>2. Min(places) \in places
      BY <1>1, <3>1, MinProperties, Zenon
    <3> QED BY <3>2 DEF Memory!Min, Min
  <2> DEFINE p == Memory!Min(places)
  <2>5. Memory!Insert(s, item) = Memory!InsertAt(s, p, item)
    BY <1>2, <1>6, <1>7, <1>8
  <2>6. Memory!InsertAt(s, p, item) = InsertAt(s, p, item)
    BY DEF Memory!InsertAt, InsertAt
  <2>7. p \in 1 .. Len(s) + 1
    BY <1>1, <2>4
  <2> HIDE DEF p
  <2>8. HasInserted(InsertAt(s, p, item), MemoryItems, s, p, item)
    BY <1>1, <2>7, InsertAtProperties
  <2> QED BY <2>5, <2>6, <2>7, <2>8, InsertedIsListed
<1> QED BY <1>2, <1>3, <1>4, <1>5, <1>6, <1>7

(* Taking an item out.                                                     *)
LEMMA RemoveIsListed ==
  ASSUME NEW s, NEW items, ListsOnce(s, items), NEW i \in DOMAIN s
  PROVE  ListsOnce(Memory!RemoveAt(s, i), items \ {s[i]})
<1>1. s \in Seq(MemoryItems) /\ i \in 1 .. Len(s)
  BY DEF ListsOnce
<1>2. \A j, k \in DOMAIN s : s[j] = s[k] => j = k
  BY DEF ListsOnce
<1> DEFINE t == SubSeq(s, 1, i - 1) \o SubSeq(s, i + 1, Len(s))
<1>3. /\ t \in Seq(MemoryItems)
      /\ \A j, k \in DOMAIN t : t[j] = t[k] => j = k
      /\ {t[j] : j \in DOMAIN t} = {s[j] : j \in DOMAIN s} \ {s[i]}
  BY <1>1, <1>2, RemoveProperties, Zenon
<1>4. Memory!RemoveAt(s, i) = t
  BY DEF Memory!RemoveAt
<1> HIDE DEF t
<1>5. {s[j] : j \in DOMAIN s} = items
  BY DEF ListsOnce
<1>6. ListsOnce(t, items \ {s[i]})
  BY <1>3, <1>5, Zenon DEF ListsOnce
<1> QED BY <1>4, <1>6, Zenon

(* Where the item of an address is.                                        *)
LEMMA PositionIsThere ==
  ASSUME NEW s, NEW items, ListsOnce(s, items), \A x, y \in items : x.at = y.at => x = y,
         NEW x \in items
  PROVE  /\ Memory!Position(s, x.at) \in 1 .. Len(s)
         /\ s[Memory!Position(s, x.at)] = x
<1>1. DOMAIN s = 1 .. Len(s)
  BY DEF ListsOnce
<1>2. PICK i \in DOMAIN s : s[i] = x
  BY DEF ListsOnce
<1>3. /\ Memory!Position(s, x.at) \in DOMAIN s
      /\ s[Memory!Position(s, x.at)].at = x.at
  BY <1>2, Zenon DEF Memory!Position
<1>4. s[Memory!Position(s, x.at)] \in items
  BY <1>3 DEF ListsOnce
<1> QED BY <1>1, <1>3, <1>4

-----------------------------------------------------------------------------
(* The page.                                                               *)
Addresses(items) == {Memory!NULL} \cup {x.at : x \in items}

PageHolds(items) ==
  /\ page \in Bases /\ offset \in 0 .. PageSize /\ live \in SUBSET Blocks
  /\ ListsOnce(list, items) /\ items \in SUBSET MemoryItems
  /\ Layout(items, live, page, offset)
  /\ IsEven(page) => Tiled(items, live, page, offset)
  /\ left \in Addresses(items) /\ right \in Addresses(items)
  /\ steps \in Nat
  /\ steps > 0 => left # Memory!NULL /\ right # Memory!NULL

MemoryInv == \E items : PageHolds(items)

LEMMA PageTypes ==
  ASSUME NEW items, PageHolds(items)
  PROVE  /\ page \in Nat /\ offset \in Nat /\ PageSize \in Nat
         /\ \A x \in items : x.at \in Nat /\ x.at # 0 /\ x.size \in Nat /\ x.size >= 3
         /\ \A x, y \in items : x.at = y.at => x = y
<1>1. \A x \in MemoryItems : x.at \in Nat /\ x.at # 0 /\ x.size \in Nat /\ x.size >= 3
  BY DEF MemoryItems
<1>2. \A x \in items : x.at \in Nat /\ x.at # 0 /\ x.size \in Nat /\ x.size >= 3
  BY <1>1 DEF PageHolds
<1>3. \A x, y \in items : x.at = y.at => x = y
  BY <1>2 DEF PageHolds, Layout, Apart
<1>4. page \in Nat /\ offset \in Nat /\ PageSize \in Nat
  BY MemoryAssumption DEF PageHolds
<1> QED BY <1>2, <1>3, <1>4

LEMMA HeadIsListed ==
  ASSUME NEW s, NEW items, ListsOnce(s, items)
  PROVE  Memory!HeadOf(s) \in Addresses(items)
<1>1. s \in Seq(MemoryItems) /\ DOMAIN s = 1 .. Len(s) /\ \A i \in DOMAIN s : s[i] \in items
  BY DEF ListsOnce
<1>2. s # <<>> => 1 \in DOMAIN s
  BY <1>1, EmptySeq
<1> QED BY <1>1, <1>2 DEF Memory!HeadOf, Addresses

LEMMA NextIsListed ==
  ASSUME NEW s, NEW items, ListsOnce(s, items), \A x, y \in items : x.at = y.at => x = y,
         NEW x \in items
  PROVE  Memory!NextOf(s, x.at) \in Addresses(items \ {x})
<1> DEFINE i == Memory!Position(s, x.at)
<1>1. i \in 1 .. Len(s) /\ s[i] = x
  BY PositionIsThere
<1>2. Memory!NextOf(s, x.at) = IF i = Len(s) THEN Memory!NULL ELSE s[i + 1].at
  BY DEF Memory!NextOf
<1> HIDE DEF i
<1>3. s \in Seq(MemoryItems) /\ DOMAIN s = 1 .. Len(s) /\ Len(s) \in Nat
  BY DEF ListsOnce
<1>4. ASSUME i # Len(s) PROVE s[i + 1] \in items \ {x}
  <2>1. i \in DOMAIN s /\ i + 1 \in DOMAIN s /\ i + 1 # i
    <3> DEFINE n == Len(s)
    <3>1. n \in Nat /\ i \in 1 .. n /\ i # n /\ DOMAIN s = 1 .. n
      BY <1>1, <1>3, <1>4, Zenon
    <3> HIDE DEF n
    <3> QED BY <3>1
  <2> QED BY <1>1, <2>1 DEF ListsOnce
<1> QED BY <1>2, <1>4 DEF Addresses

(* The items the two pointers point to.                                    *)
LEMMA PointedItem ==
  ASSUME NEW items, PageHolds(items), NEW p \in Addresses(items), p # Memory!NULL
  PROVE  Memory!ItemAt(p) \in items /\ Memory!ItemAt(p).at = p
<1>1. PICK x \in items : x.at = p
  BY DEF Addresses
<1>2. ListsOnce(list, items) /\ \A y, z \in items : y.at = z.at => y = z
  BY PageTypes DEF PageHolds
<1>3. list[Memory!Position(list, x.at)] = x
  BY <1>2, PositionIsThere
<1> QED BY <1>1, <1>3 DEF Memory!ItemAt

LEMMA MemoryStarts == Memory!Init => MemoryInv
<1> SUFFICES ASSUME Memory!Init PROVE PageHolds({})
  BY DEF MemoryInv
<1>1. ListsOnce(list, {})
  BY DEF Memory!Init, ListsOnce
<1>2. Layout({}, live, page, offset) /\ Tiled({}, live, page, offset)
  <2>1. page \in Nat
    BY MemoryAssumption DEF Memory!Init
  <2> QED BY <2>1 DEF Memory!Init, Layout, Tiled, IsEven
<1>3. /\ page \in Bases /\ offset \in 0 .. PageSize /\ live \in SUBSET Blocks
      /\ steps \in Nat /\ ~ (steps > 0)
  BY MemoryAssumption DEF Memory!Init
<1>4. left \in Addresses({}) /\ right \in Addresses({})
  BY DEF Memory!Init, Addresses
<1> QED BY <1>1, <1>2, <1>3, <1>4 DEF PageHolds

LEMMA AllocateFreeKeeps ==
  ASSUME NEW items, PageHolds(items), NEW need \in Needs, Memory!AllocateFree(need)
  PROVE  MemoryInv'
<1> DEFINE words == Memory!Align(need, Memory!BACK_ALIGNMENT)
           fits == {i \in DOMAIN list : Memory!CanFit(list[i], Memory!TotalSize(list[i].at, words))}
           k == Memory!Min(fits)
           item == list[k]
           total == Memory!TotalSize(item.at, words)
           rest == Memory!Item(item.at + total, item.size - total)
           b == Memory!Block(item.at, need)
<1>1. /\ fits # {} /\ live' = live \cup {b}
      /\ list' = IF rest.size = 0 THEN Memory!RemoveAt(list, k)
                 ELSE Memory!Insert(Memory!RemoveAt(list, k), rest)
      /\ right' = IF right = item.at THEN Memory!NextOf(list, item.at) ELSE right
      /\ left' = IF left = item.at THEN Memory!NextOf(list, item.at) ELSE left
      /\ steps = 0 /\ UNCHANGED <<page, offset, steps>>
  BY Zenon DEF Memory!AllocateFree
<1>2. k \in fits
  <2>1. fits \subseteq 0 .. Len(list) /\ Len(list) \in Nat
    BY DEF PageHolds, ListsOnce
  <2> HIDE DEF fits
  <2>2. Min(fits) \in fits
    BY <1>1, <2>1, MinProperties
  <2> QED BY <2>2 DEF Memory!Min, Min
<1>3. k \in DOMAIN list /\ item \in items /\ Memory!CanFit(item, total)
  BY <1>2 DEF PageHolds, ListsOnce
<1>4. /\ item.at \in Nat /\ item.at # 0 /\ item.size \in Nat
  BY <1>3, PageTypes
<1>5. /\ b \in Blocks /\ BlockStart(b) = item.at /\ Memory!BlockSize(b) = 2 + words
      /\ total \in Nat /\ Memory!BlockSize(b) <= total
      /\ IsEven(item.at) => total = Memory!BlockSize(b)
  BY <1>4, NewBlock
<1>6. rest = [at |-> item.at + total, size |-> item.size - total]
  BY DEF Memory!Item
<1>7. Memory!BlockSize(b) >= 3 /\ IsEven(Memory!BlockSize(b)) /\ Memory!BlockSize(b) \in Nat
  BY <1>5, BlockSizes
<1> HIDE DEF words, fits, k, item, total, b
<1>8. total = item.size \/ total <= item.size - 3
  BY <1>3 DEF Memory!CanFit, Memory!ITEM
<1> DEFINE rests == IF total = item.size THEN {} ELSE {rest}
           new == (items \ {item}) \cup rests
<1>9. rest.size = item.size - total /\ (total # item.size => rest \in MemoryItems)
  BY <1>4, <1>5, <1>6, <1>8 DEF MemoryItems
<1>10. /\ Layout(new, live', page, offset)
       /\ IsEven(total) /\ Memory!BlockSize(b) = total /\ Tiled(items, live, page, offset)
            => Tiled(new, live', page, offset)
  <2>1. /\ items \in SUBSET MemoryItems /\ live \in SUBSET Blocks /\ page \in Nat /\ offset \in Nat
        /\ Layout(items, live, page, offset)
    BY PageTypes DEF PageHolds
  <2>2. rests \in SUBSET MemoryItems
    BY <1>9
  <2>3. IF total = item.size THEN rests = {}
        ELSE total <= item.size /\ rests = {Memory!Item(item.at + total, item.size - total)}
    BY <1>4, <1>5, <1>8
  <2> HIDE DEF rests, rest
  <2> QED BY <1>1, <1>3, <1>5, <2>1, <2>2, <2>3, ItemIsTaken, Zenon
<1>11. IsEven(page) => Tiled(new, live', page, offset)
  <2>1. ASSUME IsEven(page) PROVE IsEven(item.at) /\ Tiled(items, live, page, offset)
    BY <1>3, <2>1 DEF PageHolds, Tiled
  <2> HIDE DEF new
  <2> QED BY <1>5, <1>7, <1>10, <2>1
<1>12. ListsOnce(list', new)
  <2>1. ListsOnce(Memory!RemoveAt(list, k), items \ {item})
    BY <1>3, RemoveIsListed DEF PageHolds, item
  <2>2. CASE total = item.size
    <3>1. list' = Memory!RemoveAt(list, k) /\ new = items \ {item}
      BY <1>1, <1>4, <1>9, <2>2
    <3> HIDE DEF new
    <3> QED BY <2>1, <3>1
  <2>3. CASE total # item.size
    <3>1. /\ list' = Memory!Insert(Memory!RemoveAt(list, k), rest)
          /\ new = (items \ {item}) \cup {rest}
      BY <1>1, <1>4, <1>5, <1>9, <2>3
    <3>2. rest \notin items \ {item}
      <4>1. \A x \in items \ {item} : Apart(x.at, x.size, item.at, item.size)
        BY <1>3 DEF PageHolds, Layout
      <4>2. rest.at = item.at + total /\ rest.size = item.size - total
        BY <1>6
      <4> HIDE DEF rest
      <4> QED BY <1>4, <1>5, <1>7, <1>8, <2>3, <4>1, <4>2, PageTypes DEF Apart
    <3> HIDE DEF new, rest
    <3> QED BY <1>9, <2>1, <2>3, <3>1, <3>2, InsertIsListed
  <2> QED BY <2>2, <2>3
<1>13. left' \in Addresses(new) /\ right' \in Addresses(new)
  <2>1. Memory!NextOf(list, item.at) \in Addresses(items \ {item})
    BY <1>3, PageTypes, NextIsListed DEF PageHolds
  <2>2. Addresses(items \ {item}) \subseteq Addresses(new)
    BY DEF Addresses
  <2>3. \A p \in Addresses(items) : p # item.at => p \in Addresses(items \ {item})
    BY DEF Addresses
  <2> HIDE DEF new
  <2> QED BY <1>1, <2>1, <2>2, <2>3 DEF PageHolds
<1>14. /\ new \in SUBSET MemoryItems /\ live' \in SUBSET Blocks
       /\ page' \in Bases /\ offset' \in 0 .. PageSize
       /\ steps' \in Nat /\ ~ (steps' > 0)
  BY <1>1, <1>5, <1>9 DEF PageHolds
<1>15. PICK S : S = new
  BY Zenon
<1>16. PageHolds(S)'
  <2>1. page' = page /\ offset' = offset
    BY <1>1
  <2> HIDE DEF new
  <2> QED BY <2>1, <1>10, <1>11, <1>12, <1>13, <1>14, <1>15 DEF PageHolds
<1> QED BY <1>16, Zenon DEF MemoryInv

LEMMA AllocatePristineKeeps ==
  ASSUME NEW items, PageHolds(items), NEW need \in Needs, Memory!AllocatePristine(need)
  PROVE  PageHolds(items)'
<1> DEFINE words == Memory!Align(need, Memory!BACK_ALIGNMENT)
           b == Memory!Block(page + offset, need)
           total == Memory!Correction(page + offset) + Memory!HEAD + words
<1>1. /\ PageSize - offset >= total /\ live' = live \cup {b} /\ offset' = offset + total
      /\ UNCHANGED <<page, list, left, right, steps>>
  BY Zenon DEF Memory!AllocatePristine
<1>2. page \in Nat /\ offset \in Nat /\ PageSize \in Nat /\ page + offset \in Nat
  BY PageTypes
<1>3. b \in Blocks /\ BlockStart(b) = page + offset /\ Memory!BlockSize(b) = 2 + words
  BY <1>2, NewBlock
<1>4. words \in Nat
  BY MemoryAssumption, AlignedProperties DEF Memory!BACK_ALIGNMENT
<1>5. total = Memory!BlockSize(b)
  <2>1. Memory!Correction(page + offset) = 1
    BY <1>2, CorrectionIsOne
  <2> HIDE DEF words
  <2> QED BY <1>3, <1>4, <2>1 DEF Memory!HEAD
<1> HIDE DEF words, b, total
<1>6. /\ items \in SUBSET MemoryItems /\ live \in SUBSET Blocks /\ Layout(items, live, page, offset)
  BY DEF PageHolds
<1>7. /\ Layout(items, live', page, offset')
      /\ IsEven(page) /\ Tiled(items, live, page, offset) => Tiled(items, live', page, offset')
  BY <1>1, <1>2, <1>3, <1>5, <1>6, PristineIsTaken
<1>8. offset' \in 0 .. PageSize
  BY <1>1, <1>2, <1>3, <1>4, <1>5
<1>9. live' \in SUBSET Blocks
  BY <1>1, <1>3, <1>6
<1> QED BY <1>1, <1>7, <1>8, <1>9 DEF PageHolds

LEMMA DeallocateKeeps ==
  ASSUME NEW items, PageHolds(items), NEW b \in live, Memory!Deallocate(b)
  PROVE  MemoryInv'
<1> DEFINE item == Memory!Item(b.at - b.correction, Memory!BlockSize(b))
<1>1. /\ live' = live \ {b} /\ list' = Memory!Insert(list, item) /\ steps = 0
      /\ UNCHANGED <<page, offset, left, right, steps>>
  BY Zenon DEF Memory!Deallocate
<1>2. /\ items \in SUBSET MemoryItems /\ live \in SUBSET Blocks /\ Layout(items, live, page, offset)
      /\ ListsOnce(list, items)
  BY DEF PageHolds
<1>3. /\ Memory!BlockSize(b) \in Nat /\ Memory!BlockSize(b) >= 3 /\ BlockStart(b) \in Int
  BY <1>2, BlockSizes
<1>4. page \in Nat /\ page # 0 /\ offset \in Nat
  BY MemoryAssumption, PageTypes DEF PageHolds
<1>5. BlockStart(b) \in Nat \ {0}
  BY <1>2, <1>3, <1>4 DEF Layout, Inside
<1>6. item = [at |-> BlockStart(b), size |-> Memory!BlockSize(b)]
  BY DEF Memory!Item, BlockStart
<1> HIDE DEF item
<1>7. item \in MemoryItems /\ item.at = BlockStart(b) /\ item.size = Memory!BlockSize(b)
  BY <1>3, <1>5, <1>6 DEF MemoryItems
<1>8. /\ item \notin items
      /\ Layout(items \cup {item}, live', page, offset)
      /\ Tiled(items, live, page, offset) => Tiled(items \cup {item}, live', page, offset)
  BY <1>1, <1>2, <1>4, <1>7, BlockIsFreed
<1>9. ListsOnce(list', items \cup {item})
  BY <1>1, <1>2, <1>7, <1>8, InsertIsListed
<1>10. left' \in Addresses(items \cup {item}) /\ right' \in Addresses(items \cup {item})
  BY <1>1 DEF PageHolds, Addresses
<1>11. PICK S : S = items \cup {item}
  BY Zenon
<1>12. PageHolds(S)'
  BY <1>1, <1>2, <1>7, <1>8, <1>9, <1>10, <1>11 DEF PageHolds
<1> QED BY <1>12, Zenon DEF MemoryInv

LEMMA DefragmentKeeps ==
  ASSUME NEW items, PageHolds(items), NEW n \in 1 .. MaxSteps, Memory!Defragment(n)
  PROVE  PageHolds(items)'
<1>1. /\ steps' = n /\ Len(list) > 1 /\ UNCHANGED <<page, offset, live, list>>
      /\ IF left = Memory!NULL \/ right = Memory!NULL
         THEN left' = Memory!HeadOf(list) /\ right' = Memory!HeadOf(list)
         ELSE UNCHANGED <<left, right>>
  BY DEF Memory!Defragment
<1>2. Memory!HeadOf(list) \in Addresses(items) /\ Memory!HeadOf(list) # Memory!NULL
  <2>1. ListsOnce(list, items)
    BY DEF PageHolds
  <2>2. list # <<>> /\ 1 \in DOMAIN list /\ \A i \in DOMAIN list : list[i] \in items
    BY <1>1, <2>1 DEF ListsOnce
  <2>3. list[1].at # 0
    BY <2>2, PageTypes
  <2> QED BY <2>1, <2>2, <2>3, HeadIsListed DEF Memory!HeadOf, Memory!NULL
<1>3. n \in Nat
  BY MemoryAssumption
<1> QED BY <1>1, <1>2, <1>3 DEF PageHolds

(* An item that grows in its place.                                        *)
LEMMA GrownIsListed ==
  ASSUME NEW s, NEW items, ListsOnce(s, items), \A x, y \in items : x.at = y.at => x = y,
         NEW i \in DOMAIN s, NEW z \in MemoryItems, z.at = s[i].at
  PROVE  /\ ListsOnce([s EXCEPT ![i] = z], (items \ {s[i]}) \cup {z})
         /\ \A x, y \in (items \ {s[i]}) \cup {z} : x.at = y.at => x = y
<1> DEFINE t == [s EXCEPT ![i] = z]
<1>1. s \in Seq(MemoryItems) /\ s[i] \in items /\ \A j \in DOMAIN s : s[j] \in items
  BY DEF ListsOnce
<1>2. /\ t \in Seq(MemoryItems) /\ DOMAIN t = DOMAIN s
      /\ \A j \in DOMAIN s : t[j] = IF j = i THEN z ELSE s[j]
  BY <1>1
<1> HIDE DEF t
<1>3. \A x, y \in (items \ {s[i]}) \cup {z} : x.at = y.at => x = y
  BY <1>1
<1>4. \A j, k \in DOMAIN s : s[j] = s[k] => j = k
  BY DEF ListsOnce
<1>5. \A j \in DOMAIN s : j # i => s[j] # s[i] /\ s[j].at # z.at
  BY <1>1, <1>4
<1>6. \A j, k \in DOMAIN t : t[j] = t[k] => j = k
  BY <1>2, <1>4, <1>5
<1>7. {t[j] : j \in DOMAIN t} = (items \ {s[i]}) \cup {z}
  <2>1. \A j \in DOMAIN t : t[j] \in (items \ {s[i]}) \cup {z}
    BY <1>1, <1>2, <1>5
  <2>2. ASSUME NEW x \in (items \ {s[i]}) \cup {z} PROVE \E j \in DOMAIN t : t[j] = x
    <3>1. CASE x = z
      BY <1>2, <3>1
    <3>2. CASE x \in items /\ x # s[i]
      <4>1. PICK j \in DOMAIN s : s[j] = x
        BY <3>2 DEF ListsOnce
      <4> QED BY <1>2, <3>2, <4>1
    <3> QED BY <3>1, <3>2
  <2> QED BY <2>1, <2>2
<1>8. ListsOnce(t, (items \ {s[i]}) \cup {z})
  BY <1>2, <1>6, <1>7, Zenon DEF ListsOnce
<1> QED BY <1>3, <1>8 DEF t

(* The pointers after an iteration, which ends a call when one is NULL.    *)
StepCounts ==
  /\ steps > 0
  /\ steps' = IF left' = Memory!NULL \/ right' = Memory!NULL THEN 0 ELSE steps - 1
  /\ UNCHANGED <<page, live>>

LEMMA StepIsCounted ==
  ASSUME NEW items, PageHolds(items), StepCounts
  PROVE  /\ page' \in Bases /\ live' \in SUBSET Blocks /\ steps' \in Nat
         /\ steps' > 0 => left' # Memory!NULL /\ right' # Memory!NULL
         /\ page' = page /\ live' = live
         /\ left # Memory!NULL /\ right # Memory!NULL
         /\ left \in Addresses(items) /\ right \in Addresses(items)
         /\ ListsOnce(list, items) /\ items \in SUBSET MemoryItems /\ live \in SUBSET Blocks
         /\ Layout(items, live, page, offset)
  BY DEF PageHolds, StepCounts

LEMMA MergeIntoPristineKeeps ==
  ASSUME NEW items, PageHolds(items), StepCounts, Memory!MergeIntoPristine
  PROVE  MemoryInv'
<1> DEFINE r == Memory!ItemAt(right)
<1>1. r \in items /\ r.at = right
  BY StepIsCounted, PointedItem
<1>2. /\ right + r.size = page + offset /\ offset' = offset - r.size
      /\ list' = Memory!RemoveAt(list, Memory!Position(list, right))
      /\ left' = Memory!HeadOf(list') /\ right' = Memory!HeadOf(list')
  BY DEF Memory!MergeIntoPristine, Memory!MeetsPristine, Memory!Without
<1> HIDE DEF r
<1>3. /\ page \in Nat /\ offset \in Nat /\ offset <= PageSize /\ PageSize \in Nat
      /\ r.size \in Nat /\ \A x, y \in items : x.at = y.at => x = y
  BY <1>1, PageTypes DEF PageHolds
<1>4. ListsOnce(list', items \ {r})
  <2> DEFINE p == Memory!Position(list, right)
  <2>1. p \in DOMAIN list /\ list[p] = r
    <3>1. DOMAIN list = 1 .. Len(list)
      BY StepIsCounted DEF ListsOnce
    <3> QED BY <1>1, <1>3, <3>1, StepIsCounted, PositionIsThere
  <2>2. list' = Memory!RemoveAt(list, p)
    BY <1>2
  <2> HIDE DEF p
  <2> QED BY <2>1, <2>2, StepIsCounted, RemoveIsListed
<1>5. /\ offset' \in 0 .. PageSize /\ Layout(items \ {r}, live', page', offset')
      /\ Tiled(items, live, page, offset) => Tiled(items \ {r}, live', page', offset')
  <2>1. r.at + r.size = page + offset
    BY <1>1, <1>2
  <2>2. /\ offset - r.size \in Nat
        /\ Layout(items \ {r}, live, page, offset - r.size)
        /\ Tiled(items, live, page, offset) => Tiled(items \ {r}, live, page, offset - r.size)
    BY <1>1, <1>3, <2>1, StepIsCounted, ItemIsGivenBack, Zenon
  <2> QED BY <1>2, <1>3, <2>2, StepIsCounted
<1>6. left' \in Addresses(items \ {r}) /\ right' \in Addresses(items \ {r})
  BY <1>2, <1>4, HeadIsListed
<1>7. PICK S : S = items \ {r}
  BY Zenon
<1>8. PageHolds(S)'
  <2>1. IsEven(page') => Tiled(items, live, page, offset)
    BY StepIsCounted DEF PageHolds
  <2> QED BY <1>4, <1>5, <1>6, <1>7, <2>1, StepIsCounted DEF PageHolds
<1> QED BY <1>8, Zenon DEF MemoryInv

LEMMA MergeNeighboursKeeps ==
  ASSUME NEW items, PageHolds(items), StepCounts, Memory!MergeNeighbours
  PROVE  MemoryInv'
<1> DEFINE l == Memory!ItemAt(left)
           r == Memory!ItemAt(right)
           p == Memory!Position(list, left)
           grown == [list EXCEPT ![p].size = @ + r.size]
           z == [at |-> l.at, size |-> l.size + r.size]
           new == (items \ {l, r}) \cup {z}
<1>1. l \in items /\ l.at = left /\ r \in items /\ r.at = right
  BY StepIsCounted, PointedItem
<1>2. /\ left + l.size = right /\ offset' = offset
      /\ list' = Memory!RemoveAt(grown, Memory!Position(grown, right))
      /\ left' = Memory!HeadOf(list') /\ right' = Memory!HeadOf(list')
  BY DEF Memory!MergeNeighbours, Memory!Neighbours, Memory!Without
<1>3. l = list[p]
  BY DEF Memory!ItemAt
<1> HIDE DEF l, r
<1>4. /\ page \in Nat /\ offset \in Nat /\ offset <= PageSize
      /\ l.at \in Nat /\ l.at # 0 /\ l.size \in Nat /\ l.size >= 3
      /\ r.at \in Nat /\ r.size \in Nat /\ r.size >= 3
      /\ \A x, y \in items : x.at = y.at => x = y
  BY <1>1, PageTypes DEF PageHolds
<1>5. z \in MemoryItems /\ z.at = l.at /\ z.size = l.size + r.size /\ l # r /\ z # r
  BY <1>1, <1>2, <1>4 DEF MemoryItems
<1>6. p \in DOMAIN list
  <2>1. DOMAIN list = 1 .. Len(list)
    BY StepIsCounted DEF ListsOnce
  <2> QED BY <1>1, <1>4, <2>1, StepIsCounted, PositionIsThere
<1>7. grown = [list EXCEPT ![p] = z]
  <2>1. l = [at |-> l.at, size |-> l.size]
    BY <1>1, StepIsCounted DEF MemoryItems
  <2>2. [l EXCEPT !.size = @ + r.size] = z
    BY <2>1
  <2>3. grown = [list EXCEPT ![p] = [l EXCEPT !.size = @ + r.size]]
    BY <1>3
  <2> QED BY <2>2, <2>3, Zenon
<1> HIDE DEF p, grown, z
<1>8. /\ ListsOnce(grown, (items \ {l}) \cup {z})
      /\ \A x, y \in (items \ {l}) \cup {z} : x.at = y.at => x = y
  <2>1. z.at = list[p].at
    BY <1>3, <1>5
  <2>2. /\ ListsOnce([list EXCEPT ![p] = z], (items \ {list[p]}) \cup {z})
        /\ \A x, y \in (items \ {list[p]}) \cup {z} : x.at = y.at => x = y
    BY <1>4, <1>5, <1>6, <2>1, StepIsCounted, GrownIsListed
  <2> QED BY <1>3, <1>7, <2>2
<1>9. ListsOnce(list', new)
  <2> DEFINE k == Memory!Position(grown, right)
             more == (items \ {l}) \cup {z}
  <2>1. k \in DOMAIN grown /\ grown[k] = r
    <3>1. DOMAIN grown = 1 .. Len(grown)
      BY <1>8 DEF ListsOnce
    <3>2. r \in more
      BY <1>1, <1>5
    <3> HIDE DEF more
    <3> QED BY <1>1, <1>8, <3>1, <3>2, PositionIsThere DEF more
  <2>2. list' = Memory!RemoveAt(grown, k)
    BY <1>2
  <2>3. more \ {r} = new
    BY <1>5
  <2> HIDE DEF k, new
  <2>4. ListsOnce(Memory!RemoveAt(grown, k), more \ {grown[k]})
    BY <1>8, <2>1, RemoveIsListed
  <2> QED BY <2>1, <2>2, <2>3, <2>4
<1>10. /\ Layout(new, live', page', offset')
       /\ Tiled(items, live, page, offset) => Tiled(new, live', page', offset')
  <2>1. l.at + l.size = r.at
    BY <1>1, <1>2
  <2>2. /\ Layout(new, live, page, offset)
        /\ Tiled(items, live, page, offset) => Tiled(new, live, page, offset)
    BY <1>1, <1>4, <1>5, <2>1, StepIsCounted, ItemsAreMerged, Zenon
  <2> HIDE DEF new
  <2> QED BY <1>2, <2>2, StepIsCounted
<1>11. left' \in Addresses(new) /\ right' \in Addresses(new)
  <2> HIDE DEF new
  <2> QED BY <1>2, <1>9, HeadIsListed
<1>12. new \in SUBSET MemoryItems
  BY <1>5, StepIsCounted
<1>13. PICK S : S = new
  BY Zenon
<1>14. PageHolds(S)'
  <2>1. IsEven(page') => Tiled(items, live, page, offset)
    BY StepIsCounted DEF PageHolds
  <2>2. offset' \in 0 .. PageSize
    BY <1>2 DEF PageHolds
  <2> HIDE DEF new
  <2> QED BY <1>9, <1>10, <1>11, <1>12, <1>13, <2>1, <2>2, StepIsCounted DEF PageHolds
<1> QED BY <1>14, Zenon DEF MemoryInv

LEMMA TryNextKeeps ==
  ASSUME NEW items, PageHolds(items), StepCounts, Memory!TryNext
  PROVE  PageHolds(items)'
<1>1. /\ UNCHANGED <<offset, list>>
      /\ \/ left' = Memory!NextOf(list, left) /\ right' = Memory!HeadOf(list)
         \/ left' = left /\ right' = Memory!NextOf(list, right)
  BY DEF Memory!TryNext
<1>2. Memory!HeadOf(list) \in Addresses(items)
  BY StepIsCounted, HeadIsListed
<1>3. ASSUME NEW q \in Addresses(items), q # Memory!NULL
      PROVE  Memory!NextOf(list, q) \in Addresses(items)
  <2>1. PICK x \in items : x.at = q
    BY <1>3 DEF Addresses
  <2>2. Memory!NextOf(list, x.at) \in Addresses(items \ {x})
    BY PageTypes, StepIsCounted, NextIsListed
  <2> QED BY <2>1, <2>2 DEF Addresses
<1>4. left' \in Addresses(items) /\ right' \in Addresses(items)
  BY <1>1, <1>2, <1>3, StepIsCounted
<1> QED BY <1>1, <1>4, StepIsCounted DEF PageHolds

(* Every step keeps the page partitioned.                                  *)
LEMMA MemoryStep == MemoryInv /\ [Memory!Next]_(Memory!memoryVars) => MemoryInv'
<1> SUFFICES ASSUME NEW items, PageHolds(items), [Memory!Next]_(Memory!memoryVars)
             PROVE  MemoryInv'
  BY DEF MemoryInv
<1>1. CASE \E need \in Needs : Memory!AllocateFree(need)
  BY <1>1, AllocateFreeKeeps
<1>2. CASE \E need \in Needs : Memory!AllocatePristine(need)
  <2>1. PageHolds(items)'
    BY <1>2, AllocatePristineKeeps
  <2> QED BY <2>1, Zenon DEF MemoryInv
<1>3. CASE \E block \in live : Memory!Deallocate(block)
  BY <1>3, DeallocateKeeps
<1>4. CASE \E n \in 1 .. MaxSteps : Memory!Defragment(n)
  <2>1. PageHolds(items)'
    BY <1>4, DefragmentKeeps
  <2> QED BY <2>1, Zenon DEF MemoryInv
<1>5. CASE Memory!DefragmentStep
  <2>1. StepCounts
    BY <1>5 DEF Memory!DefragmentStep, StepCounts
  <2>2. CASE Memory!MergeIntoPristine
    BY <2>1, <2>2, MergeIntoPristineKeeps
  <2>3. CASE Memory!MergeNeighbours
    BY <2>1, <2>3, MergeNeighboursKeeps
  <2>4. CASE Memory!TryNext
    <3>1. PageHolds(items)'
      BY <2>1, <2>4, TryNextKeeps
    <3> QED BY <3>1, Zenon DEF MemoryInv
  <2> QED BY <1>5, <2>2, <2>3, <2>4 DEF Memory!DefragmentStep
<1>6. CASE UNCHANGED Memory!memoryVars
  <2>1. PageHolds(items)'
    BY <1>6 DEF Memory!memoryVars, PageHolds
  <2> QED BY <2>1, Zenon DEF MemoryInv
<1> QED BY <1>1, <1>2, <1>3, <1>4, <1>5, <1>6 DEF Memory!Next

LEMMA ApartIsDisjoint ==
  ASSUME NEW a \in Int, NEW m \in Int, NEW b \in Int, NEW n \in Int, Apart(a, m, b, n)
  PROVE  (a .. a + m - 1) \cap (b .. b + n - 1) = {}
  BY DEF Apart

LEMMA InsideIsSubset ==
  ASSUME NEW a \in Int, NEW m \in Int, NEW d \in Int, NEW o \in Int, Inside(a, m, d, o)
  PROVE  a .. a + m - 1 \subseteq d .. d + o - 1
  BY DEF Inside

LEMMA PageIsTold == MemoryInv => PageIsPartitioned
<1> SUFFICES ASSUME NEW items, PageHolds(items) PROVE PageIsPartitioned
  BY DEF MemoryInv
<1>1. /\ DOMAIN list = 1 .. Len(list) /\ \A i \in DOMAIN list : list[i] \in items
      /\ \A i, j \in DOMAIN list : list[i] = list[j] => i = j
      /\ items = {list[i] : i \in DOMAIN list}
  BY DEF PageHolds, ListsOnce
<1>2. /\ page \in Nat /\ offset \in Nat
      /\ \A x \in items : x.at \in Int /\ x.size \in Int /\ x.size >= 3
  BY PageTypes
<1>3. \A b \in live : BlockStart(b) \in Int /\ Memory!BlockSize(b) \in Int
  BY BlockSizes DEF PageHolds
<1>4. /\ \A x \in items : Memory!FreeWords(x) = x.at .. x.at + x.size - 1
      /\ \A b \in live :
           Memory!BlockWords(b) = BlockStart(b) .. BlockStart(b) + Memory!BlockSize(b) - 1
  BY DEF Memory!FreeWords, Memory!BlockWords, BlockStart
<1>5. ASSUME NEW b \in live, NEW c \in live, b # c
      PROVE  Memory!BlockWords(b) \cap Memory!BlockWords(c) = {}
  <2>1. Apart(BlockStart(b), Memory!BlockSize(b), BlockStart(c), Memory!BlockSize(c))
    BY <1>5, Zenon DEF PageHolds, Layout
  <2>2. /\ BlockStart(b) \in Int /\ Memory!BlockSize(b) \in Int
        /\ BlockStart(c) \in Int /\ Memory!BlockSize(c) \in Int
    BY <1>3
  <2> QED BY <1>4, <2>1, <2>2, ApartIsDisjoint, Zenon
<1>6. ASSUME NEW x \in items, NEW y \in items, x # y
      PROVE  Memory!FreeWords(x) \cap Memory!FreeWords(y) = {}
  <2>1. Apart(x.at, x.size, y.at, y.size)
    BY <1>6, Zenon DEF PageHolds, Layout
  <2>2. x.at \in Int /\ x.size \in Int /\ y.at \in Int /\ y.size \in Int
    BY <1>2
  <2> QED BY <1>4, <2>1, <2>2, ApartIsDisjoint, Zenon
<1>7. ASSUME NEW x \in items, NEW b \in live
      PROVE  Memory!FreeWords(x) \cap Memory!BlockWords(b) = {}
  <2>1. Apart(x.at, x.size, BlockStart(b), Memory!BlockSize(b))
    BY Zenon DEF PageHolds, Layout
  <2>2. x.at \in Int /\ x.size \in Int /\ BlockStart(b) \in Int /\ Memory!BlockSize(b) \in Int
    BY <1>2, <1>3
  <2> QED BY <1>4, <2>1, <2>2, ApartIsDisjoint, Zenon
<1>8. ASSUME NEW x \in items PROVE Memory!FreeWords(x) \subseteq page .. page + offset - 1
  <2>1. Inside(x.at, x.size, page, offset)
    BY Zenon DEF PageHolds, Layout
  <2>2. x.at \in Int /\ x.size \in Int /\ page \in Int /\ offset \in Int
    BY <1>2
  <2>3. x.at .. x.at + x.size - 1 \subseteq page .. page + offset - 1
    BY <2>1, <2>2, InsideIsSubset, Zenon
  <2> QED BY <1>4, <2>3, Zenon
<1>9. ASSUME NEW b \in live PROVE Memory!BlockWords(b) \subseteq page .. page + offset - 1
  <2>1. Inside(BlockStart(b), Memory!BlockSize(b), page, offset)
    BY Zenon DEF PageHolds, Layout
  <2>2. BlockStart(b) \in Int /\ Memory!BlockSize(b) \in Int /\ page \in Int /\ offset \in Int
    BY <1>2, <1>3
  <2>3. BlockStart(b) .. BlockStart(b) + Memory!BlockSize(b) - 1 \subseteq page .. page + offset - 1
    BY <2>1, <2>2, InsideIsSubset, Zenon
  <2> QED BY <1>4, <2>3, Zenon
<1>10. ASSUME page % Memory!BACK_ALIGNMENT = 0, NEW w \in page .. page + offset - 1
       PROVE  \/ \E b \in live : w \in Memory!BlockWords(b)
              \/ \E i \in DOMAIN list : w \in Memory!FreeWords(list[i])
  <2>1. IsEven(page)
    BY <1>10 DEF Memory!BACK_ALIGNMENT, IsEven
  <2>2. \/ \E x \in items : IsIn(w, x.at, x.size)
        \/ \E b \in live : IsIn(w, BlockStart(b), Memory!BlockSize(b))
    BY <2>1 DEF PageHolds, Tiled
  <2>3. \A x \in items : IsIn(w, x.at, x.size) => w \in Memory!FreeWords(x)
    BY <1>2, <1>4 DEF IsIn
  <2>4. \A b \in live :
          IsIn(w, BlockStart(b), Memory!BlockSize(b)) => w \in Memory!BlockWords(b)
    BY <1>2, <1>3, <1>4 DEF IsIn
  <2> QED BY <1>1, <2>2, <2>3, <2>4, Zenon
<1>11. offset \in 0 .. PageSize
  BY DEF PageHolds
<1>12. \A i, j \in DOMAIN list :
         i # j => Memory!FreeWords(list[i]) \cap Memory!FreeWords(list[j]) = {}
  BY <1>1, <1>6, Zenon
<1>13. \A i \in DOMAIN list :
         /\ list[i].size >= Memory!ITEM
         /\ Memory!FreeWords(list[i]) \subseteq page .. page + offset - 1
         /\ \A b \in live : Memory!FreeWords(list[i]) \cap Memory!BlockWords(b) = {}
  BY <1>1, <1>2, <1>7, <1>8 DEF Memory!ITEM
<1> QED
  BY <1>5, <1>9, <1>10, <1>11, <1>12, <1>13, Zenon DEF PageIsPartitioned, Memory!PageIsPartitioned

(* PageIsPartitioned: blocks and free items divide a page among them, over *)
(* any order of Allocate, Deallocate and Defragment with its two pointers. *)
THEOREM PageStaysPartitioned == Memory!Spec => []PageIsPartitioned
<1>1. Memory!Spec => []MemoryInv
  BY MemoryStarts, MemoryStep, PTL DEF Memory!Spec
<1> QED BY <1>1, PageIsTold, PTL

-----------------------------------------------------------------------------
(* GpuHeap.  Items cover units of a heap when each is one of them, no two  *)
(* overlap, and nothing is left out.                                       *)
HeapItems == [at : Nat, size : Nat \ {0}]

Covers(s, A) ==
  /\ s \in Seq(HeapItems)
  /\ \A i, j \in DOMAIN s : i # j => Heaps!Units(s[i]) \cap Heaps!Units(s[j]) = {}
  /\ \A i \in DOMAIN s : Heaps!Units(s[i]) \subseteq A
  /\ \A u \in A : \E i \in DOMAIN s : u \in Heaps!Units(s[i])

(* No items cover nothing.                                                 *)
LEMMA NothingCovered == Covers(<<>>, {})
<1>1. <<>> \in Seq(HeapItems) /\ DOMAIN <<>> = {}
  OBVIOUS
<1> QED BY <1>1 DEF Covers

(* The units of an item are as many as its size.                           *)
LEMMA UnitsOfItem ==
  ASSUME NEW x, x.at \in Nat, x.size \in Nat \ {0}
  PROVE  /\ Heaps!Units(x) = x.at .. x.at + x.size - 1
         /\ \A u \in Int : u \in Heaps!Units(x) <=> x.at <= u /\ u < x.at + x.size
         /\ Heaps!Units(x) \subseteq Nat /\ Heaps!Units(x) # {}
         /\ IsFiniteSet(Heaps!Units(x)) /\ Cardinality(Heaps!Units(x)) = x.size
<1>1. Heaps!Units(x) = x.at .. x.at + x.size - 1
  BY DEF Heaps!Units, Heaps!End
<1>2. ASSUME NEW a \in Nat, NEW n \in Nat \ {0}
      PROVE  IsFiniteSet(a .. a + n - 1) /\ Cardinality(a .. a + n - 1) = n
             /\ a \in a .. a + n - 1
  <2>1. a \in Int /\ a + n - 1 \in Int /\ ~(a > a + n - 1) /\ (a + n - 1) - a + 1 = n
    OBVIOUS
  <2>2. IsFiniteSet(a .. a + n - 1)
        /\ Cardinality(a .. a + n - 1) = (a + n - 1) - a + 1
    BY <2>1, FS_Interval, Zenon
  <2> QED BY <2>1, <2>2
<1>3. \A a, n \in Nat, u \in Int : u \in a .. a + n - 1 <=> a <= u /\ u < a + n
  OBVIOUS
<1>4. \A a, n \in Nat : a .. a + n - 1 \subseteq Nat
  OBVIOUS
<1> DEFINE U == x.at .. x.at + x.size - 1
<1>5. IsFiniteSet(U) /\ Cardinality(U) = x.size /\ x.at \in U
  BY <1>2, Zenon
<1>6. U \subseteq Nat /\ \A u \in Int : u \in U <=> x.at <= u /\ u < x.at + x.size
  BY <1>3, <1>4
<1>7. Heaps!Units(x) = U
  BY <1>1
<1> HIDE DEF U
<1>8. U # {}
  BY <1>5
<1> QED BY <1>1, <1>5, <1>6, <1>7, <1>8, Zenon

(* An item put in anywhere covers its units.                               *)
LEMMA InsertedCovers ==
  ASSUME NEW s, NEW A, Covers(s, A), NEW x \in HeapItems, Heaps!Units(x) \cap A = {},
         NEW i \in 1 .. Len(s) + 1, NEW t, HasInserted(t, HeapItems, s, i, x)
  PROVE  Covers(t, A \cup Heaps!Units(x))
<1>1. /\ s \in Seq(HeapItems) /\ DOMAIN s = 1 .. Len(s) /\ Len(s) \in Nat
      /\ t \in Seq(HeapItems) /\ DOMAIN t = 1 .. Len(s) + 1
      /\ \A j \in 1 .. Len(s) + 1 : t[j] = IF j < i THEN s[j] ELSE IF j = i THEN x ELSE s[j - 1]
  BY DEF Covers, HasInserted
<1> DEFINE from(j) == IF j < i THEN j ELSE j - 1
<1>2. /\ t[i] = x /\ i \in DOMAIN t
      /\ \A j \in DOMAIN t : j # i => t[j] = s[from(j)] /\ from(j) \in DOMAIN s
      /\ \A j, k \in DOMAIN t : j # i /\ k # i /\ j # k => from(j) # from(k)
      /\ \A k \in DOMAIN s : \E j \in DOMAIN t : j # i /\ from(j) = k
  <2>1. ASSUME NEW k \in DOMAIN s PROVE \E j \in DOMAIN t : j # i /\ from(j) = k
    <3>1. CASE k < i
      BY <1>1, <3>1
    <3>2. CASE i <= k
      <4>1. k + 1 \in DOMAIN t /\ k + 1 # i /\ from(k + 1) = k
        BY <1>1, <3>2
      <4> QED BY <4>1
    <3> QED BY <1>1, <3>1, <3>2
  <2> QED BY <1>1, <2>1
<1> HIDE DEF from
<1>3. ASSUME NEW j \in DOMAIN t, NEW k \in DOMAIN t, j # k
      PROVE  Heaps!Units(t[j]) \cap Heaps!Units(t[k]) = {}
  <2>1. CASE j # i /\ k # i
    BY <1>2, <1>3, <2>1 DEF Covers
  <2>2. CASE j = i
    <3>1. k # i /\ Heaps!Units(t[k]) \subseteq A
      BY <1>2, <1>3, <2>2 DEF Covers
    <3> QED BY <1>2, <2>2, <3>1
  <2>3. CASE k = i
    <3>1. j # i /\ Heaps!Units(t[j]) \subseteq A
      BY <1>2, <1>3, <2>3 DEF Covers
    <3> QED BY <1>2, <2>3, <3>1
  <2> QED BY <2>1, <2>2, <2>3
<1>4. ASSUME NEW j \in DOMAIN t PROVE Heaps!Units(t[j]) \subseteq A \cup Heaps!Units(x)
  BY <1>2 DEF Covers
<1>5. ASSUME NEW u \in A \cup Heaps!Units(x) PROVE \E j \in DOMAIN t : u \in Heaps!Units(t[j])
  <2>1. CASE u \in A
    <3>1. PICK k \in DOMAIN s : u \in Heaps!Units(s[k])
      BY <2>1 DEF Covers
    <3>2. PICK j \in DOMAIN t : j # i /\ from(j) = k
      BY <1>2
    <3> QED BY <1>2, <3>1, <3>2
  <2>2. CASE u \in Heaps!Units(x)
    BY <1>2, <2>2
  <2> QED BY <2>1, <2>2
<1> QED BY <1>1, <1>3, <1>4, <1>5 DEF Covers

(* What an item that is taken out covered is covered no more.              *)
HasLost(t, s, i) ==
  /\ t \in Seq(HeapItems) /\ Len(t) = Len(s) - 1
  /\ \A j \in 1 .. Len(s) - 1 : t[j] = IF j < i THEN s[j] ELSE s[j + 1]

(* Without one of its items, a list covers the units of the others.        *)
LEMMA RemovedCovers ==
  ASSUME NEW s, NEW A, Covers(s, A), NEW i \in DOMAIN s, NEW t, HasLost(t, s, i)
  PROVE  Covers(t, A \ Heaps!Units(s[i]))
<1>1. /\ s \in Seq(HeapItems) /\ DOMAIN s = 1 .. Len(s) /\ Len(s) \in Nat
      /\ t \in Seq(HeapItems) /\ DOMAIN t = 1 .. Len(s) - 1
      /\ \A j \in 1 .. Len(s) - 1 : t[j] = IF j < i THEN s[j] ELSE s[j + 1]
  BY DEF Covers, HasLost
<1> DEFINE from(j) == IF j < i THEN j ELSE j + 1
<1>2. /\ \A j \in DOMAIN t : t[j] = s[from(j)] /\ from(j) \in DOMAIN s /\ from(j) # i
      /\ \A j, k \in DOMAIN t : j # k => from(j) # from(k)
      /\ \A k \in DOMAIN s : k # i => \E j \in DOMAIN t : from(j) = k
  <2>1. ASSUME NEW k \in DOMAIN s, k # i PROVE \E j \in DOMAIN t : from(j) = k
    <3>1. CASE k < i
      BY <1>1, <3>1
    <3>2. CASE i < k
      <4>1. k - 1 \in DOMAIN t /\ from(k - 1) = k
        BY <1>1, <3>2
      <4> QED BY <4>1
    <3> QED BY <1>1, <2>1, <3>1, <3>2
  <2> QED BY <1>1, <2>1
<1> HIDE DEF from
<1>3. ASSUME NEW j \in DOMAIN t, NEW k \in DOMAIN t, j # k
      PROVE  Heaps!Units(t[j]) \cap Heaps!Units(t[k]) = {}
  BY <1>2, <1>3 DEF Covers
<1>4. ASSUME NEW j \in DOMAIN t PROVE Heaps!Units(t[j]) \subseteq A \ Heaps!Units(s[i])
  BY <1>2 DEF Covers
<1>5. ASSUME NEW u \in A \ Heaps!Units(s[i]) PROVE \E j \in DOMAIN t : u \in Heaps!Units(t[j])
  <2>1. PICK k \in DOMAIN s : u \in Heaps!Units(s[k])
    BY DEF Covers
  <2>2. PICK j \in DOMAIN t : from(j) = k
    BY <1>2, <2>1
  <2> QED BY <1>2, <2>1, <2>2
<1> QED BY <1>1, <1>3, <1>4, <1>5 DEF Covers

(* So does the list CreateResource has erased an item from ...             *)
LEMMA FreedItemIsTaken ==
  ASSUME NEW s, NEW A, Covers(s, A), NEW i \in DOMAIN s
  PROVE  Covers(Heaps!RemoveAt(s, i), A \ Heaps!Units(s[i]))
<1>1. s \in Seq(HeapItems) /\ i \in 1 .. Len(s)
  BY DEF Covers
<1>2. HasLost(RemoveAt(s, i), s, i)
  BY <1>1, RemoveAtProperties, Zenon DEF HasLost
<1>3. Heaps!RemoveAt(s, i) = RemoveAt(s, i)
  BY DEF Heaps!RemoveAt, RemoveAt
<1> QED BY <1>2, <1>3, RemovedCovers

(* ... and the one Defragment has popped the last item of.                 *)
LEMMA LastIsTaken ==
  ASSUME NEW s, NEW A, Covers(s, A), s # <<>>
  PROVE  /\ Heaps!Last(s) \in HeapItems /\ Heaps!Units(Heaps!Last(s)) \subseteq A
         /\ Heaps!Front(s) \in Seq(HeapItems)
         /\ Covers(Heaps!Front(s), A \ Heaps!Units(Heaps!Last(s)))
<1>1. s \in Seq(HeapItems) /\ Len(s) \in DOMAIN s /\ Len(s) \in Nat /\ DOMAIN s = 1 .. Len(s)
  BY EmptySeq DEF Covers
<1>2. /\ Heaps!Last(s) = s[Len(s)] /\ Heaps!Front(s) \in Seq(HeapItems)
      /\ Len(Heaps!Front(s)) = Len(s) - 1
      /\ \A j \in 1 .. Len(s) - 1 : Heaps!Front(s)[j] = s[j]
  BY <1>1 DEF Heaps!Last, Heaps!Front
<1>3. HasLost(Heaps!Front(s), s, Len(s))
  BY <1>1, <1>2 DEF HasLost
<1>4. Covers(Heaps!Front(s), A \ Heaps!Units(s[Len(s)]))
  BY <1>1, <1>3, RemovedCovers
<1>5. s[Len(s)] \in HeapItems /\ Heaps!Units(s[Len(s)]) \subseteq A
  BY <1>1, ElementOfSeq DEF Covers
<1> QED BY <1>2, <1>4, <1>5

(* Appending an item covers its units.                                     *)
LEMMA AppendedCovers ==
  ASSUME NEW s, NEW A, Covers(s, A), NEW x \in HeapItems, Heaps!Units(x) \cap A = {}
  PROVE  Covers(Append(s, x), A \cup Heaps!Units(x))
<1>1. s \in Seq(HeapItems) /\ Len(s) \in Nat
  BY DEF Covers
<1>2. HasInserted(Append(s, x), HeapItems, s, Len(s) + 1, x)
  BY <1>1 DEF HasInserted
<1>3. Len(s) + 1 \in 1 .. Len(s) + 1
  BY <1>1
<1> QED BY <1>2, <1>3, InsertedCovers

-----------------------------------------------------------------------------
(* A function of sequences that adds one item at a time covers them all.   *)
AddsItems(step, items) ==
  \A i \in 1 .. Len(items) : \A s \in Seq(HeapItems) :
    /\ step[i][s] \in Seq(HeapItems)
    /\ \A B : Covers(s, B) /\ Heaps!Units(items[i]) \cap B = {}
                => Covers(step[i][s], B \cup Heaps!Units(items[i]))

(* A list built by adding the items one after the other covers their units.*)
LEMMA Built ==
  ASSUME NEW items, NEW A, Covers(items, A), NEW step, AddsItems(step, items)
  PROVE  /\ \E f : Iterates(f, Len(items), <<>>, step)
                    /\ \A i \in 0 .. Len(items) : f[i] \in Seq(HeapItems)
         /\ \A f : /\ f[0] = <<>>
                   /\ \A i \in 1 .. Len(items) :
                        f[i - 1] \in Seq(HeapItems) => f[i] = step[i][f[i - 1]]
                   => Covers(f[Len(items)], A)
<1> DEFINE n == Len(items)
           UpTo(i) == UNION {Heaps!Units(items[k]) : k \in 1 .. i}
<1>1. n \in Nat /\ DOMAIN items = 1 .. n
  BY DEF Covers
<1>2. <<>> \in Seq(HeapItems)
  OBVIOUS
<1>3. \E f : Iterates(f, n, <<>>, step) /\ \A i \in 0 .. n : f[i] \in Seq(HeapItems)
  <2> HIDE DEF n
  <2>1. \A i \in 1 .. n : \A s \in Seq(HeapItems) : step[i][s] \in Seq(HeapItems)
    BY Zenon DEF n, AddsItems
  <2> QED BY <1>1, <1>2, <2>1, IterationExists, Zenon
<1>4. UpTo(0) = {} /\ UpTo(n) = A
  <2>1. UpTo(0) = {}
    OBVIOUS
  <2>2. UpTo(n) = A
    BY <1>1 DEF Covers
  <2> QED BY <2>1, <2>2
<1>5. ASSUME NEW i \in 1 .. n
      PROVE  /\ UpTo(i) = UpTo(i - 1) \cup Heaps!Units(items[i])
             /\ Heaps!Units(items[i]) \cap UpTo(i - 1) = {}
  <2>1. 1 .. i = (1 .. i - 1) \cup {i} /\ i \notin 1 .. i - 1 /\ 1 .. i - 1 \subseteq DOMAIN items
        /\ i \in DOMAIN items
    BY <1>1
  <2>2. UpTo(i) = UpTo(i - 1) \cup Heaps!Units(items[i])
    BY <2>1
  <2>3. Heaps!Units(items[i]) \cap UpTo(i - 1) = {}
    BY <2>1 DEF Covers
  <2> QED BY <2>2, <2>3
<1> HIDE DEF UpTo
<1>6. ASSUME NEW f, f[0] = <<>>,
             \A i \in 1 .. n : f[i - 1] \in Seq(HeapItems) => f[i] = step[i][f[i - 1]]
      PROVE  Covers(f[n], A)
  <2> DEFINE E == [i \in 0 .. n |-> {s \in Seq(HeapItems) : Covers(s, UpTo(i))}]
  <2>1. \A i \in 0 .. n : E[i] = {s \in Seq(HeapItems) : Covers(s, UpTo(i))}
    OBVIOUS
  <2>2. 0 \in 0 .. n /\ n \in 0 .. n /\ \A i \in 1 .. n : i \in 0 .. n /\ i - 1 \in 0 .. n
    BY <1>1
  <2> HIDE DEF E
  <2>3. f[0] \in E[0]
    BY <1>2, <1>4, <1>6, <2>1, <2>2, NothingCovered, Zenon
  <2>4. ASSUME NEW i \in 1 .. n, f[i - 1] \in E[i - 1] PROVE f[i] \in E[i]
    <3>1. f[i - 1] \in Seq(HeapItems) /\ Covers(f[i - 1], UpTo(i - 1))
      BY <2>1, <2>2, <2>4
    <3>2. f[i] = step[i][f[i - 1]]
      BY <1>6, <3>1
    <3>3. step[i][f[i - 1]] \in Seq(HeapItems)
          /\ Covers(step[i][f[i - 1]], UpTo(i - 1) \cup Heaps!Units(items[i]))
      BY <1>5, <3>1, Zenon DEF n, AddsItems
    <3>4. Covers(f[i], UpTo(i)) /\ f[i] \in Seq(HeapItems)
      BY <1>5, <3>2, <3>3, Zenon
    <3>5. E[i] = {s \in Seq(HeapItems) : Covers(s, UpTo(i))}
      BY <2>1, <2>2
    <3> QED BY <3>4, <3>5
  <2>5. f[n] \in E[n]
    <3> HIDE DEF n
    <3> QED BY <1>1, <2>3, <2>4, IterationKeeps
  <2> QED BY <1>4, <2>1, <2>2, <2>5
<1> QED BY <1>3, <1>6, Zenon DEF n

(* Inserting an item at its place covers its units.                        *)
LEMMA InsertCovers ==
  ASSUME NEW s \in Seq(HeapItems), NEW x \in HeapItems
  PROVE  /\ Heaps!Insert(s, x) \in Seq(HeapItems)
         /\ \A A : Covers(s, A) /\ Heaps!Units(x) \cap A = {}
                     => Covers(Heaps!Insert(s, x), A \cup Heaps!Units(x))
<1> DEFINE lower == {i \in DOMAIN s : s[i].at < x.at}
           p == Cardinality(lower) + 1
<1>1. Len(s) \in Nat /\ IsFiniteSet(DOMAIN s) /\ Cardinality(DOMAIN s) = Len(s)
  <2>1. Len(s) \in Nat /\ DOMAIN s = 1 .. Len(s)
    OBVIOUS
  <2>2. \A n \in Nat : IsFiniteSet(1 .. n) /\ Cardinality(1 .. n) = n
    <3> TAKE n \in Nat
    <3>1. IsFiniteSet(1 .. n) /\ Cardinality(1 .. n) = IF 1 > n THEN 0 ELSE n - 1 + 1
      BY FS_Interval
    <3> QED BY <3>1
  <2> QED BY <2>1, <2>2
<1>2. p \in 1 .. Len(s) + 1
  <2>1. lower \in SUBSET DOMAIN s
    OBVIOUS
  <2> HIDE DEF lower
  <2>2. IsFiniteSet(lower) /\ Cardinality(lower) <= Len(s) /\ Cardinality(lower) \in Nat
    BY <1>1, <2>1, FS_Subset, FS_CardinalityType
  <2> QED BY <1>1, <2>2
<1>3. Heaps!Insert(s, x) = InsertAt(s, p, x)
  <2>1. Heaps!Cardinality(lower) = Cardinality(lower)
    BY Zenon DEF Cardinality, Heaps!Cardinality, IsFiniteSet, Heaps!IsFiniteSet
  <2> QED BY <2>1, Zenon DEF Heaps!Insert, Heaps!InsertAt, InsertAt
<1> HIDE DEF p
<1>4. HasInserted(InsertAt(s, p, x), HeapItems, s, p, x)
  BY <1>2, InsertAtProperties
<1>5. InsertAt(s, p, x) \in Seq(HeapItems)
  BY <1>4 DEF HasInserted
<1>6. ASSUME NEW A, Covers(s, A), Heaps!Units(x) \cap A = {}
      PROVE  Covers(InsertAt(s, p, x), A \cup Heaps!Units(x))
  BY <1>2, <1>4, <1>6, InsertedCovers
<1> QED BY <1>3, <1>5, <1>6

(* Sorting covers the same units.                                          *)
LEMMA SortedCovers ==
  ASSUME NEW items, NEW A, Covers(items, A)
  PROVE  Covers(Heaps!Sorted(items), A)
<1> DEFINE n == Len(items)
           step == [i \in 1 .. n |-> [s \in Seq(HeapItems) |-> Heaps!Insert(s, items[i])]]
           Follows(f) == f = [i \in 0 .. n |-> IF i = 0 THEN <<>> ELSE Heaps!Insert(f[i - 1], items[i])]
           F == CHOOSE f : Follows(f)
<1>1. n \in Nat /\ \A i \in 1 .. n : items[i] \in HeapItems
  BY ElementOfSeq DEF Covers
<1>2. \A i \in 1 .. n : \A s \in Seq(HeapItems) : step[i][s] = Heaps!Insert(s, items[i])
  OBVIOUS
<1> HIDE DEF step
<1>3. \A i \in 1 .. n : \A s \in Seq(HeapItems) :
        /\ step[i][s] \in Seq(HeapItems)
        /\ \A B : Covers(s, B) /\ Heaps!Units(items[i]) \cap B = {}
                    => Covers(step[i][s], B \cup Heaps!Units(items[i]))
  <2> TAKE i \in 1 .. n
  <2> TAKE s \in Seq(HeapItems)
  <2>1. items[i] \in HeapItems
    BY <1>1
  <2>2. /\ Heaps!Insert(s, items[i]) \in Seq(HeapItems)
        /\ \A B : Covers(s, B) /\ Heaps!Units(items[i]) \cap B = {}
                    => Covers(Heaps!Insert(s, items[i]), B \cup Heaps!Units(items[i]))
    BY <2>1, InsertCovers, Zenon
  <2>3. step[i][s] = Heaps!Insert(s, items[i])
    BY <1>2
  <2> QED BY <2>2, <2>3
<1>4. /\ \E f : Iterates(f, n, <<>>, step) /\ \A i \in 0 .. n : f[i] \in Seq(HeapItems)
      /\ \A f : /\ f[0] = <<>>
                /\ \A i \in 1 .. n : f[i - 1] \in Seq(HeapItems) => f[i] = step[i][f[i - 1]]
                => Covers(f[n], A)
  <2>1. AddsItems(step, items)
    BY <1>3, Zenon DEF AddsItems
  <2> QED BY <2>1, Built
<1>5. \E f : Follows(f)
  <2>1. PICK f : Iterates(f, n, <<>>, step) /\ \A i \in 0 .. n : f[i] \in Seq(HeapItems)
    BY <1>4, Zenon
  <2>2. ASSUME NEW i \in 0 .. n, i # 0 PROVE step[i][f[i - 1]] = Heaps!Insert(f[i - 1], items[i])
    <3>1. i \in 1 .. n /\ i - 1 \in 0 .. n
      BY <1>1, <2>2
    <3> QED BY <1>2, <2>1, <3>1
  <2>3. Follows(f)
    BY <2>1, <2>2, Zenon DEF Iterates
  <2> HIDE DEF Follows
  <2> QED BY <2>3
<1>6. Follows(F)
  <2> HIDE DEF Follows
  <2> QED BY <1>5, Zenon
<1>7. Heaps!Sorted(items) = F[n]
  BY DEF Heaps!Sorted
<1> HIDE DEF F
<1>8. F[0] = <<>> /\ \A i \in 1 .. n : F[i] = Heaps!Insert(F[i - 1], items[i])
  BY <1>1, <1>6
<1>9. \A i \in 1 .. n : F[i - 1] \in Seq(HeapItems) => F[i] = step[i][F[i - 1]]
  BY <1>2, <1>8
<1> QED BY <1>4, <1>7, <1>8, <1>9, Zenon

(* A heap whose living resources have the units L.                         *)
HeapRecords == [id : Nat, kind : Kinds, size : Nat, offset : Nat, freed : Nat,
                items : Seq(HeapItems), cut : Nat]

Below(h) == 0 .. h.offset - 1

HeapOk(h, L) ==
  /\ h \in HeapRecords
  /\ L \subseteq Below(h)
  /\ Covers(h.items, Below(h) \ L)
  /\ h.freed = Cardinality(Below(h) \ L) + h.cut
  /\ h.offset <= h.size

SameHeap(g, h) == g.id = h.id /\ g.kind = h.kind

(* What lies below the end of a heap is finite.                            *)
LEMMA BelowIsFinite ==
  ASSUME NEW n \in Nat, NEW T
  PROVE  /\ IsFiniteSet((0 .. n - 1) \ T) /\ Cardinality((0 .. n - 1) \ T) \in Nat
         /\ T \subseteq 0 .. n - 1 => /\ IsFiniteSet(T) /\ Cardinality(T) \in Nat
                                      /\ Cardinality((0 .. n - 1) \ T) = n - Cardinality(T)
<1>1. IsFiniteSet(0 .. n - 1) /\ Cardinality(0 .. n - 1) = n
  <2>1. IsFiniteSet(0 .. n - 1)
        /\ Cardinality(0 .. n - 1) = IF 0 > n - 1 THEN 0 ELSE (n - 1) - 0 + 1
    BY FS_Interval
  <2> QED BY <2>1
<1>2. IsFiniteSet((0 .. n - 1) \ T)
  BY <1>1, FS_Difference, Zenon
<1>3. ASSUME T \subseteq 0 .. n - 1
      PROVE  /\ IsFiniteSet(T) /\ Cardinality(T) \in Nat
             /\ Cardinality((0 .. n - 1) \ T) = n - Cardinality(T)
  <2>1. IsFiniteSet(T)
    BY <1>1, <1>3, FS_Subset, Zenon
  <2>2. (0 .. n - 1) \cap T = T
    BY <1>3, Zenon
  <2>3. Cardinality((0 .. n - 1) \ T) = Cardinality(0 .. n - 1) - Cardinality((0 .. n - 1) \cap T)
    BY <1>1, FS_Difference, Zenon
  <2> QED BY <1>1, <2>1, <2>2, <2>3, FS_CardinalityType, Zenon
<1> QED BY <1>2, <1>3, FS_CardinalityType

(* Taking a part of a finite set away takes its number away.               *)
LEMMA TakenAway ==
  ASSUME NEW S, IsFiniteSet(S), NEW T, T \subseteq S
  PROVE  /\ IsFiniteSet(S \ T) /\ Cardinality(S \ T) = Cardinality(S) - Cardinality(T)
         /\ Cardinality(S) \in Nat /\ Cardinality(T) \in Nat
<1>1. IsFiniteSet(T) /\ S \cap T = T
  BY FS_Subset
<1>2. IsFiniteSet(S \ T) /\ Cardinality(S \ T) = Cardinality(S) - Cardinality(S \cap T)
  BY FS_Difference
<1> QED BY <1>1, <1>2, FS_CardinalityType, Zenon

(* A part given back at the end is counted by cut.                         *)
LEMMA TrimKeeps ==
  ASSUME NEW L, NEW h, HeapOk(h, L)
  PROVE  HeapOk(Heaps!Trim(h), L) /\ SameHeap(Heaps!Trim(h), h)
<1> DEFINE x == Heaps!Last(h.items)
           g == [h EXCEPT !.offset = @ - x.size, !.items = Heaps!Front(@), !.cut = @ + x.size]
           U == Heaps!Units(x)
           R == Below(h) \ L
<1>1. /\ h \in HeapRecords /\ L \subseteq Below(h) /\ Covers(h.items, R)
      /\ h.freed = Cardinality(R) + h.cut /\ h.offset <= h.size
  BY DEF HeapOk
<1>2. h.offset \in Nat /\ h.size \in Nat /\ h.cut \in Nat /\ h.freed \in Nat
  BY <1>1 DEF HeapRecords
<1>3. CASE ~(h.items # <<>> /\ Heaps!End(x) = h.offset)
  <2>1. Heaps!Trim(h) = h
    BY <1>3, Zenon DEF Heaps!Trim
  <2> QED BY <2>1 DEF SameHeap
<1>4. CASE h.items # <<>> /\ Heaps!End(x) = h.offset
  <2>1. Heaps!Trim(h) = g
    BY <1>4, Zenon DEF Heaps!Trim
  <2>2. /\ x \in HeapItems /\ U \subseteq R /\ Heaps!Front(h.items) \in Seq(HeapItems)
        /\ Covers(Heaps!Front(h.items), R \ U)
    BY <1>1, <1>4, LastIsTaken, Zenon
  <2>3. x.at \in Nat /\ x.size \in Nat \ {0}
    BY <2>2 DEF HeapItems
  <2>4. x.at + x.size = h.offset
    BY <1>4 DEF Heaps!End
  <2> HIDE DEF x
  <2>5. /\ U = x.at .. h.offset - 1 /\ Cardinality(U) = x.size
    BY <2>3, <2>4, UnitsOfItem
  <2>6. h.offset - x.size = x.at /\ h.cut + x.size \in Nat
    BY <1>2, <2>3, <2>4
  <2>7. /\ g \in HeapRecords /\ g.offset = x.at /\ g.items = Heaps!Front(h.items)
        /\ g.cut = h.cut + x.size /\ g.freed = h.freed /\ g.size = h.size
        /\ g.id = h.id /\ g.kind = h.kind
    BY <1>1, <2>2, <2>3, <2>6, Zenon DEF HeapRecords
  <2> HIDE DEF g
  <2>8. L \subseteq Below(g) /\ Below(g) \ L = R \ U
    <3>1. Below(g) = 0 .. x.at - 1 /\ Below(h) = 0 .. h.offset - 1
      BY <2>7 DEF Below
    <3>2. L \cap U = {}
      BY <2>2
    <3>3. 0 .. x.at - 1 = (0 .. h.offset - 1) \ U
      BY <1>2, <2>3, <2>4, <2>5
    <3> HIDE DEF U
    <3> QED BY <1>1, <3>1, <3>2, <3>3
  <2>9. g.freed = Cardinality(Below(g) \ L) + g.cut
    <3>1. IsFiniteSet(R)
      BY <1>2, BelowIsFinite, Zenon DEF Below
    <3>2. Cardinality(R \ U) = Cardinality(R) - Cardinality(U) /\ Cardinality(R) \in Nat
      <4> HIDE DEF R, U
      <4> QED BY <2>2, <3>1, TakenAway, Zenon
    <3> HIDE DEF R, U
    <3>3. Cardinality(Below(g) \ L) = Cardinality(R) - x.size
      BY <2>5, <2>8, <3>2, Zenon
    <3>4. Cardinality(R) - x.size + (h.cut + x.size) = Cardinality(R) + h.cut
      BY <1>2, <2>3, <3>2
    <3> QED BY <1>1, <2>7, <3>3, <3>4, Zenon
  <2>10. g.offset <= g.size
    BY <1>1, <1>2, <2>3, <2>4, <2>7
  <2> QED BY <2>1, <2>2, <2>7, <2>8, <2>9, <2>10, Zenon DEF HeapOk, SameHeap
<1> QED BY <1>3, <1>4

(* So does the loop that does so.                                          *)
LEMMA TrimmedKeeps ==
  ASSUME NEW L, NEW h, HeapOk(h, L)
  PROVE  HeapOk(Heaps!Trimmed(h), L) /\ SameHeap(Heaps!Trimmed(h), h)
<1> DEFINE n == Len(h.items)
           D == {g \in HeapRecords : HeapOk(g, L) /\ SameHeap(g, h)}
           step == [i \in 1 .. n |-> [g \in D |-> Heaps!Trim(g)]]
           Follows(f) == f = [i \in 0 .. n |-> IF i = 0 THEN h ELSE Heaps!Trim(f[i - 1])]
           F == CHOOSE f : Follows(f)
<1>1. n \in Nat
  BY DEF HeapOk, Covers
<1>2. h \in D
  BY DEF HeapOk, SameHeap
<1>3. ASSUME NEW g \in D PROVE Heaps!Trim(g) \in D
  <2>1. HeapOk(Heaps!Trim(g), L) /\ SameHeap(Heaps!Trim(g), g)
    BY TrimKeeps
  <2> QED BY <2>1 DEF HeapOk, SameHeap
<1>4. \A i \in 1 .. n : \A g \in D : step[i][g] = Heaps!Trim(g)
  OBVIOUS
<1> HIDE DEF step, D, n
<1>5. \E f : Follows(f)
  <2>1. \A i \in 1 .. n : \A g \in D : step[i][g] \in D
    BY <1>3, <1>4
  <2>2. PICK f : Iterates(f, n, h, step) /\ \A i \in 0 .. n : f[i] \in D
    BY <1>1, <1>2, <2>1, IterationExists, Zenon
  <2>3. ASSUME NEW i \in 0 .. n, i # 0 PROVE step[i][f[i - 1]] = Heaps!Trim(f[i - 1])
    <3>1. i \in 1 .. n /\ i - 1 \in 0 .. n
      BY <1>1, <2>3
    <3> QED BY <1>4, <2>2, <3>1
  <2>4. Follows(f)
    BY <2>2, <2>3, Zenon DEF Iterates
  <2> HIDE DEF Follows
  <2> QED BY <2>4
<1>6. Follows(F)
  <2> HIDE DEF Follows
  <2> QED BY <1>5, Zenon
<1>7. Heaps!Trimmed(h) = F[n]
  BY DEF Heaps!Trimmed, n
<1> HIDE DEF F
<1>8. F[0] = h /\ \A i \in 1 .. n : F[i] = Heaps!Trim(F[i - 1])
  BY <1>1, <1>6
<1>9. F[n] \in D
  <2> DEFINE E == [i \in 0 .. n |-> D]
  <2>1. \A i \in 0 .. n : E[i] = D
    OBVIOUS
  <2> HIDE DEF E
  <2>2. F[0] \in E[0]
    BY <1>1, <1>2, <1>8, <2>1
  <2>3. ASSUME NEW i \in 1 .. n, F[i - 1] \in E[i - 1] PROVE F[i] \in E[i]
    <3>1. i \in 0 .. n /\ i - 1 \in 0 .. n
      BY <1>1
    <3> QED BY <1>3, <1>8, <2>1, <2>3, <3>1
  <2>4. F[n] \in E[n]
    BY <1>1, <2>2, <2>3, IterationKeeps
  <2> QED BY <1>1, <2>1, <2>4
<1> QED BY <1>7, <1>9 DEF D

(* Two neighbours that become one cover what they covered.                 *)
LEMMA MergeCovers ==
  ASSUME NEW s \in Seq(HeapItems), NEW x \in HeapItems
  PROVE  /\ Heaps!Merge(s, x) \in Seq(HeapItems)
         /\ \A A : Covers(s, A) /\ Heaps!Units(x) \cap A = {}
                     => Covers(Heaps!Merge(s, x), A \cup Heaps!Units(x))
<1> DEFINE l == Heaps!Last(s)
           z == Heaps!Item(l.at, l.size + x.size)
<1>1. CASE s # <<>> /\ Heaps!End(l) = x.at
  <2>1. Heaps!Merge(s, x) = Append(Heaps!Front(s), z)
    BY <1>1, Zenon DEF Heaps!Merge
  <2>2. l \in HeapItems /\ Heaps!Front(s) \in Seq(HeapItems)
    <3>1. Len(s) \in DOMAIN s /\ Len(s) \in Nat \ {0}
      BY <1>1, EmptySeq
    <3> QED BY <3>1 DEF Heaps!Last, Heaps!Front
  <2>3. l.at \in Nat /\ l.size \in Nat \ {0} /\ x.at \in Nat /\ x.size \in Nat \ {0}
    BY <2>2 DEF HeapItems
  <2>4. z \in HeapItems /\ z.at = l.at /\ z.size = l.size + x.size /\ l.at + l.size = x.at
    BY <1>1, <2>3 DEF HeapItems, Heaps!Item, Heaps!End
  <2> HIDE DEF z, l
  <2>5. Append(Heaps!Front(s), z) \in Seq(HeapItems)
    BY <2>2, <2>4
  <2>6. Heaps!Units(z) = Heaps!Units(l) \cup Heaps!Units(x)
    <3>1. \A y \in HeapItems : Heaps!Units(y) = y.at .. y.at + y.size - 1
      BY UnitsOfItem DEF HeapItems
    <3>2. ASSUME NEW a \in Nat, NEW m \in Nat, NEW k \in Nat
          PROVE  a .. a + (m + k) - 1 = (a .. a + m - 1) \cup (a + m .. (a + m) + k - 1)
      <4>1. \A u \in Int : u \in a .. a + (m + k) - 1
                            <=> u \in a .. a + m - 1 \/ u \in a + m .. (a + m) + k - 1
        OBVIOUS
      <4>2. /\ a .. a + (m + k) - 1 \subseteq Int /\ a .. a + m - 1 \subseteq Int
            /\ a + m .. (a + m) + k - 1 \subseteq Int
        OBVIOUS
      <4> QED BY <4>1, <4>2, Zenon
    <3>3. l.at .. l.at + (l.size + x.size) - 1
            = (l.at .. l.at + l.size - 1) \cup (l.at + l.size .. (l.at + l.size) + x.size - 1)
      BY <2>3, <3>2
    <3>4. z.at .. z.at + z.size - 1
            = (l.at .. l.at + l.size - 1) \cup (x.at .. x.at + x.size - 1)
      BY <2>4, <3>3, Zenon
    <3> QED BY <2>2, <2>4, <3>1, <3>4, Zenon
  <2>7. ASSUME NEW A, Covers(s, A), Heaps!Units(x) \cap A = {}
        PROVE  Covers(Append(Heaps!Front(s), z), A \cup Heaps!Units(x))
    <3>1. /\ Heaps!Units(l) \subseteq A
          /\ Covers(Heaps!Front(s), A \ Heaps!Units(l))
      BY <1>1, <2>7, LastIsTaken, Zenon DEF l
    <3>2. Heaps!Units(z) \cap (A \ Heaps!Units(l)) = {}
          /\ (A \ Heaps!Units(l)) \cup Heaps!Units(z) = A \cup Heaps!Units(x)
      BY <2>6, <2>7, <3>1
    <3>3. Covers(Append(Heaps!Front(s), z), (A \ Heaps!Units(l)) \cup Heaps!Units(z))
      BY <2>4, <3>1, <3>2, AppendedCovers
    <3> QED BY <3>2, <3>3, Zenon
  <2> QED BY <2>1, <2>5, <2>7
<1>2. CASE ~(s # <<>> /\ Heaps!End(l) = x.at)
  <2>1. Heaps!Merge(s, x) = Append(s, x)
    BY <1>2, Zenon DEF Heaps!Merge
  <2>2. Append(s, x) \in Seq(HeapItems)
    OBVIOUS
  <2> QED BY <2>1, <2>2, AppendedCovers
<1> QED BY <1>1, <1>2

(* Merging covers the same units.                                          *)
LEMMA MergedCovers ==
  ASSUME NEW items, NEW A, Covers(items, A)
  PROVE  Covers(Heaps!Merged(items), A)
<1> DEFINE n == Len(items)
           step == [i \in 1 .. n |-> [s \in Seq(HeapItems) |-> Heaps!Merge(s, items[i])]]
           Follows(f) == f = [i \in 0 .. n |-> IF i = 0 THEN <<>> ELSE Heaps!Merge(f[i - 1], items[i])]
           F == CHOOSE f : Follows(f)
<1>1. n \in Nat /\ \A i \in 1 .. n : items[i] \in HeapItems
  BY ElementOfSeq DEF Covers
<1>2. \A i \in 1 .. n : \A s \in Seq(HeapItems) : step[i][s] = Heaps!Merge(s, items[i])
  OBVIOUS
<1> HIDE DEF step
<1>3. \A i \in 1 .. n : \A s \in Seq(HeapItems) :
        /\ step[i][s] \in Seq(HeapItems)
        /\ \A B : Covers(s, B) /\ Heaps!Units(items[i]) \cap B = {}
                    => Covers(step[i][s], B \cup Heaps!Units(items[i]))
  <2> TAKE i \in 1 .. n
  <2> TAKE s \in Seq(HeapItems)
  <2>1. items[i] \in HeapItems
    BY <1>1
  <2>2. /\ Heaps!Merge(s, items[i]) \in Seq(HeapItems)
        /\ \A B : Covers(s, B) /\ Heaps!Units(items[i]) \cap B = {}
                    => Covers(Heaps!Merge(s, items[i]), B \cup Heaps!Units(items[i]))
    BY <2>1, MergeCovers, Zenon
  <2>3. step[i][s] = Heaps!Merge(s, items[i])
    BY <1>2
  <2> QED BY <2>2, <2>3
<1>4. /\ \E f : Iterates(f, n, <<>>, step) /\ \A i \in 0 .. n : f[i] \in Seq(HeapItems)
      /\ \A f : /\ f[0] = <<>>
                /\ \A i \in 1 .. n : f[i - 1] \in Seq(HeapItems) => f[i] = step[i][f[i - 1]]
                => Covers(f[n], A)
  <2>1. AddsItems(step, items)
    BY <1>3, Zenon DEF AddsItems
  <2> QED BY <2>1, Built
<1>5. \E f : Follows(f)
  <2>1. PICK f : Iterates(f, n, <<>>, step) /\ \A i \in 0 .. n : f[i] \in Seq(HeapItems)
    BY <1>4, Zenon
  <2>2. ASSUME NEW i \in 0 .. n, i # 0 PROVE step[i][f[i - 1]] = Heaps!Merge(f[i - 1], items[i])
    <3>1. i \in 1 .. n /\ i - 1 \in 0 .. n
      BY <1>1, <2>2
    <3> QED BY <1>2, <2>1, <3>1
  <2>3. Follows(f)
    BY <2>1, <2>2, Zenon DEF Iterates
  <2> HIDE DEF Follows
  <2> QED BY <2>3
<1>6. Follows(F)
  <2> HIDE DEF Follows
  <2> QED BY <1>5, Zenon
<1>7. Heaps!Merged(items) = F[n]
  BY DEF Heaps!Merged
<1> HIDE DEF F
<1>8. F[0] = <<>> /\ \A i \in 1 .. n : F[i] = Heaps!Merge(F[i - 1], items[i])
  BY <1>1, <1>6
<1>9. \A i \in 1 .. n : F[i - 1] \in Seq(HeapItems) => F[i] = step[i][F[i - 1]]
  BY <1>2, <1>8
<1> QED BY <1>4, <1>7, <1>8, <1>9, Zenon

(* Defragment.                                                             *)
LEMMA HeapDefragmentKeeps ==
  ASSUME NEW L, NEW h, HeapOk(h, L)
  PROVE  HeapOk(Heaps!Defragment(h), L) /\ SameHeap(Heaps!Defragment(h), h)
<1> DEFINE sorted == [h EXCEPT !.items = Heaps!Sorted(@)]
           trimmed == Heaps!Trimmed(sorted)
           g == [trimmed EXCEPT !.items = Heaps!Merged(@)]
<1>1. h \in HeapRecords /\ Covers(h.items, Below(h) \ L)
  BY DEF HeapOk
<1>2. Covers(Heaps!Sorted(h.items), Below(h) \ L)
  BY <1>1, SortedCovers
<1>3. HeapOk(sorted, L) /\ SameHeap(sorted, h)
  <2>1. Heaps!Sorted(h.items) \in Seq(HeapItems)
    BY <1>2 DEF Covers
  <2>2. /\ sorted \in HeapRecords /\ sorted.items = Heaps!Sorted(h.items)
        /\ sorted.offset = h.offset /\ sorted.freed = h.freed /\ sorted.cut = h.cut
        /\ sorted.size = h.size /\ sorted.id = h.id /\ sorted.kind = h.kind
    BY <1>1, <2>1 DEF HeapRecords
  <2> HIDE DEF sorted
  <2> QED BY <1>2, <2>2, Zenon DEF HeapOk, SameHeap, Below
<1>4. HeapOk(trimmed, L) /\ SameHeap(trimmed, sorted)
  <2> HIDE DEF sorted
  <2> QED BY <1>3, TrimmedKeeps
<1>5. Heaps!Defragment(h) = g
  BY Zenon DEF Heaps!Defragment
<1> HIDE DEF trimmed
<1>6. trimmed \in HeapRecords /\ Covers(trimmed.items, Below(trimmed) \ L)
  BY <1>4 DEF HeapOk
<1>7. Covers(Heaps!Merged(trimmed.items), Below(trimmed) \ L)
  BY <1>6, MergedCovers
<1>8. HeapOk(g, L) /\ SameHeap(g, trimmed)
  <2>1. Heaps!Merged(trimmed.items) \in Seq(HeapItems)
    BY <1>7 DEF Covers
  <2>2. /\ g \in HeapRecords /\ g.items = Heaps!Merged(trimmed.items)
        /\ g.offset = trimmed.offset /\ g.freed = trimmed.freed /\ g.cut = trimmed.cut
        /\ g.size = trimmed.size /\ g.id = trimmed.id /\ g.kind = trimmed.kind
    BY <1>6, <2>1 DEF HeapRecords
  <2> HIDE DEF g
  <2> QED BY <1>4, <1>7, <2>2, Zenon DEF HeapOk, SameHeap, Below
<1> HIDE DEF g, sorted
<1> QED BY <1>3, <1>4, <1>5, <1>8 DEF SameHeap

(* What is allocated was no part of a living resource.                     *)
LEMMA AllocationKeeps ==
  ASSUME NEW L, NEW h, HeapOk(h, L), NEW need \in Nat \ {0}, Heaps!HasEnoughSpace(h, need)
  PROVE  LET x == Heaps!Allocated(h, need)
         IN  /\ x \in HeapItems /\ Heaps!Units(x) \cap L = {}
             /\ HeapOk(Heaps!AfterAllocation(h, need), L \cup Heaps!Units(x))
             /\ SameHeap(Heaps!AfterAllocation(h, need), h)
<1> DEFINE x == Heaps!Allocated(h, need)
           U == Heaps!Units(x)
           R == Below(h) \ L
           fit == Heaps!Fitting(h, need)
           g == Heaps!AfterAllocation(h, need)
<1>1. /\ h \in HeapRecords /\ L \subseteq Below(h) /\ Covers(h.items, R)
      /\ h.freed = Cardinality(R) + h.cut /\ h.offset <= h.size
  BY DEF HeapOk
<1>2. /\ h.offset \in Nat /\ h.size \in Nat /\ h.cut \in Nat /\ h.freed \in Nat
      /\ h.items \in Seq(HeapItems) /\ Len(h.items) \in Nat /\ DOMAIN h.items = 1 .. Len(h.items)
  BY <1>1 DEF HeapRecords
<1>3. IsFiniteSet(R) /\ Cardinality(R) \in Nat
  BY <1>2, BelowIsFinite, Zenon DEF Below
<1> HIDE DEF R
<1>4. CASE fit # {}
  <2> DEFINE k == Heaps!Min(fit)
             t == Heaps!RemoveAt(h.items, k)
  <2>1. k \in DOMAIN h.items
    <3>1. fit \subseteq 0 .. Len(h.items) /\ fit \subseteq DOMAIN h.items
      BY <1>2 DEF Heaps!Fitting
    <3> HIDE DEF fit
    <3>2. Min(fit) \in fit
      BY <1>2, <1>4, <3>1, MinProperties, Zenon
    <3>3. Heaps!Min(fit) = Min(fit)
      BY Zenon DEF Heaps!Min, Min
    <3> QED BY <3>1, <3>2, <3>3
  <2>2. x = h.items[k]
    BY <1>4, Zenon DEF Heaps!Allocated
  <2>3. g = [h EXCEPT !.items = Heaps!RemoveAt(@, k), !.freed = @ - x.size]
    BY <1>4, Zenon DEF Heaps!AfterAllocation
  <2> HIDE DEF x, k, g, fit
  <2>4. x \in HeapItems /\ U \subseteq R /\ Covers(t, R \ U) /\ t \in Seq(HeapItems)
    <3>1. Covers(t, R \ U)
      BY <1>1, <2>1, <2>2, FreedItemIsTaken
    <3>2. U \subseteq R /\ x \in HeapItems
      BY <1>1, <1>2, <2>1, <2>2, ElementOfSeq DEF Covers
    <3> QED BY <3>1, <3>2 DEF Covers
  <2>5. x.size \in Nat \ {0} /\ x.at \in Nat /\ Cardinality(U) = x.size
    BY <2>4, UnitsOfItem, Zenon DEF HeapItems
  <2> HIDE DEF U
  <2>6. Cardinality(R \ U) = Cardinality(R) - x.size /\ Cardinality(R \ U) \in Nat
    BY <1>3, <2>4, <2>5, TakenAway, FS_CardinalityType
  <2>7. h.freed - x.size = Cardinality(R \ U) + h.cut /\ h.freed - x.size \in Nat
    BY <1>1, <1>2, <1>3, <2>5, <2>6
  <2>8. /\ g \in HeapRecords /\ g.items = t /\ g.offset = h.offset /\ g.freed = h.freed - x.size
        /\ g.cut = h.cut /\ g.size = h.size /\ g.id = h.id /\ g.kind = h.kind
    BY <1>1, <2>3, <2>4, <2>7, Zenon DEF HeapRecords
  <2> HIDE DEF t
  <2>9. /\ L \cup U \subseteq Below(g) /\ Below(g) \ (L \cup U) = R \ U /\ U \cap L = {}
    <3>1. Below(g) = Below(h) /\ U \subseteq Below(h) \ L
      BY <2>4, <2>8, Zenon DEF R, Below
    <3> QED BY <1>1, <3>1 DEF R
  <2>10. HeapOk(g, L \cup U)
    BY <1>1, <2>4, <2>7, <2>8, <2>9, Zenon DEF HeapOk
  <2> QED BY <2>4, <2>8, <2>9, <2>10 DEF SameHeap, g, U, x
<1>5. CASE fit = {}
  <2>1. x = Heaps!Item(h.offset, need)
    BY <1>5, Zenon DEF Heaps!Allocated
  <2>2. g = [h EXCEPT !.offset = @ + need]
    BY <1>5, Zenon DEF Heaps!AfterAllocation
  <2>3. h.size - h.offset >= need
    BY <1>5, Zenon DEF Heaps!HasEnoughSpace, Heaps!Unallocated, Heaps!Fitting
  <2>4. x \in HeapItems /\ x.at = h.offset /\ x.size = need
    BY <1>2, <2>1 DEF Heaps!Item, HeapItems
  <2> HIDE DEF x, g, fit
  <2>5. U = h.offset .. h.offset + need - 1
    BY <1>2, <2>4, UnitsOfItem
  <2>6. /\ g \in HeapRecords /\ g.items = h.items /\ g.offset = h.offset + need
        /\ g.freed = h.freed /\ g.cut = h.cut /\ g.size = h.size /\ g.id = h.id /\ g.kind = h.kind
    BY <1>1, <1>2, <2>2 DEF HeapRecords
  <2>7. L \cup U \subseteq Below(g) /\ Below(g) \ (L \cup U) = R /\ U \cap L = {}
    <3>1. Below(g) = 0 .. h.offset + need - 1 /\ Below(h) = 0 .. h.offset - 1
      BY <1>2, <2>6 DEF Below
    <3>2. 0 .. h.offset + need - 1 = (0 .. h.offset - 1) \cup U /\ U \cap (0 .. h.offset - 1) = {}
      BY <1>2, <2>5
    <3> HIDE DEF U
    <3> QED BY <1>1, <3>1, <3>2 DEF R
  <2>8. h.offset + need <= h.size
    BY <1>2, <2>3
  <2> HIDE DEF U
  <2>9. HeapOk(g, L \cup U)
    BY <1>1, <2>6, <2>7, <2>8, Zenon DEF HeapOk
  <2> QED BY <2>4, <2>6, <2>7, <2>9 DEF SameHeap, g, U, x
<1> QED BY <1>4, <1>5

(* A resource that is given back; only a heap of which Defragment has cut  *)
(* a part can be reset while something in it lives.                        *)
LEMMA ReturnKeeps ==
  ASSUME NEW L, NEW h, HeapOk(h, L), NEW r, r.at \in Nat, r.size \in Nat \ {0},
         Heaps!Units(r) \subseteq L
  PROVE  LET g == Heaps!Returned(h, r)
             rest == L \ Heaps!Units(r)
         IN  /\ g \in HeapRecords /\ SameHeap(g, h)
             /\ HeapOk(g, rest) \/ (h.cut > 0 /\ g.offset = 0 /\ rest # {})
<1> DEFINE g == Heaps!Returned(h, r)
           U == Heaps!Units(r)
           rest == L \ U
           R == Below(h) \ L
<1>1. /\ h \in HeapRecords /\ L \subseteq Below(h) /\ Covers(h.items, R)
      /\ h.freed = Cardinality(R) + h.cut /\ h.offset <= h.size
  BY DEF HeapOk
<1>2. /\ h.offset \in Nat /\ h.size \in Nat /\ h.cut \in Nat /\ h.freed \in Nat
      /\ h.items \in Seq(HeapItems)
  BY <1>1 DEF HeapRecords
<1>3. /\ IsFiniteSet(R) /\ IsFiniteSet(L) /\ Cardinality(L) \in Nat
      /\ Cardinality(R) \in Nat /\ Cardinality(R) = h.offset - Cardinality(L)
  BY <1>1, <1>2, BelowIsFinite, Zenon DEF Below
<1>4. /\ U = r.at .. r.at + r.size - 1 /\ Cardinality(U) = r.size /\ IsFiniteSet(U)
  BY UnitsOfItem
<1>5. Heaps!End(r) = r.at + r.size
  BY DEF Heaps!End
<1>6. CASE h.offset = h.freed + r.size
  <2>1. g = [h EXCEPT !.items = <<>>, !.offset = 0, !.freed = 0, !.cut = 0]
    BY <1>6, Zenon DEF Heaps!Returned
  <2>2. /\ g \in HeapRecords /\ g.items = <<>> /\ g.offset = 0 /\ g.freed = 0 /\ g.cut = 0
        /\ g.size = h.size /\ g.id = h.id /\ g.kind = h.kind
    <3>1. <<>> \in Seq(HeapItems) /\ 0 \in Nat
      OBVIOUS
    <3> QED BY <1>1, <2>1, <3>1, Zenon DEF HeapRecords
  <2> HIDE DEF g, U, R
  <2>3. CASE rest = {}
    <3>1. Below(g) = {}
      BY <2>2 DEF Below
    <3>2. Below(g) \ rest = {} /\ Cardinality({}) = 0
      BY <3>1, FS_EmptySet
    <3>3. HeapOk(g, rest)
      <4>1. 0 <= h.size /\ 0 + 0 = 0
        BY <1>2
      <4>2. rest \subseteq Below(g)
        BY <2>3
      <4> QED BY <2>2, <3>2, <4>1, <4>2, NothingCovered, Zenon DEF HeapOk
    <3> QED BY <2>2, <3>3 DEF SameHeap, g, U
  <2>4. CASE rest # {}
    <3>1. h.cut # 0
      <4> SUFFICES ASSUME h.cut = 0 PROVE FALSE
        OBVIOUS
      <4>1. Cardinality(L) = Cardinality(U)
        BY <1>1, <1>2, <1>3, <1>4, <1>6
      <4>2. L = U
        BY <1>3, <4>1, FS_Subset DEF U
      <4> QED BY <2>4, <4>2
    <3> QED BY <1>2, <2>2, <2>4, <3>1 DEF SameHeap, g, U
  <2> QED BY <2>3, <2>4
<1>7. CASE h.offset # h.freed + r.size /\ h.offset = Heaps!End(r)
  <2>1. g = [h EXCEPT !.offset = @ - r.size]
    BY <1>7, Zenon DEF Heaps!Returned
  <2>2. h.offset - r.size = r.at
    BY <1>2, <1>5, <1>7
  <2>3. /\ g \in HeapRecords /\ g.items = h.items /\ g.offset = r.at /\ g.freed = h.freed
        /\ g.cut = h.cut /\ g.size = h.size /\ g.id = h.id /\ g.kind = h.kind
    BY <1>1, <2>1, <2>2 DEF HeapRecords
  <2> HIDE DEF g
  <2>4. rest \subseteq Below(g) /\ Below(g) \ rest = R
    <3>1. Below(g) = 0 .. r.at - 1 /\ Below(h) = 0 .. h.offset - 1
      BY <2>3 DEF Below
    <3>2. 0 .. r.at - 1 = (0 .. h.offset - 1) \ U
      BY <1>2, <1>4, <1>5, <1>7
    <3> HIDE DEF U
    <3> QED BY <1>1, <3>1, <3>2 DEF U
  <2>5. r.at <= h.size
    BY <1>1, <1>2, <2>2
  <2>6. HeapOk(g, rest)
    <3> HIDE DEF rest, R
    <3> QED BY <1>1, <2>3, <2>4, <2>5, Zenon DEF HeapOk
  <2> QED BY <2>3, <2>6 DEF SameHeap, g
<1>8. CASE h.offset # h.freed + r.size /\ h.offset # Heaps!End(r)
  <2> DEFINE x == Heaps!Item(r.at, r.size)
  <2>1. g = [h EXCEPT !.items = Append(@, x), !.freed = @ + r.size]
    BY <1>8, Zenon DEF Heaps!Returned
  <2>2. x \in HeapItems /\ Heaps!Units(x) = U
    BY DEF Heaps!Item, HeapItems, Heaps!Units, Heaps!End
  <2> HIDE DEF x, U
  <2>3. U \cap R = {}
    BY DEF U
  <2> HIDE DEF R
  <2>4. Covers(Append(h.items, x), R \cup U)
    BY <1>1, <2>2, <2>3, AppendedCovers
  <2>5. Append(h.items, x) \in Seq(HeapItems)
    BY <2>4 DEF Covers
  <2>6. /\ g \in HeapRecords /\ g.items = Append(h.items, x) /\ g.offset = h.offset
        /\ g.freed = h.freed + r.size /\ g.cut = h.cut /\ g.size = h.size
        /\ g.id = h.id /\ g.kind = h.kind
    <3>1. h.freed + r.size \in Nat
      BY <1>2
    <3> QED BY <1>1, <2>1, <2>5, <3>1, Zenon DEF HeapRecords
  <2> HIDE DEF g
  <2>7. Cardinality(R \cup U) = Cardinality(R) + r.size
    <3>1. Cardinality(R \cup U) = Cardinality(R) + Cardinality(U) - Cardinality(R \cap U)
      BY <1>3, <1>4, FS_Union, Zenon
    <3>2. R \cap U = {} /\ Cardinality({}) = 0
      BY <2>3, FS_EmptySet
    <3>3. Cardinality(R \cup U) = Cardinality(R) + r.size - 0
      BY <1>4, <3>1, <3>2, Zenon
    <3> QED BY <1>3, <3>3
  <2>8. rest \subseteq Below(g) /\ Below(g) \ rest = R \cup U
    <3>1. Below(g) = Below(h)
      BY <2>6, Zenon DEF Below
    <3>2. U \subseteq L
      BY DEF U
    <3> QED BY <1>1, <3>1, <3>2 DEF R
  <2>9. h.freed + r.size = Cardinality(R \cup U) + h.cut
    <3>1. \A a, b, c \in Nat : (a + b) + c = (a + c) + b
      OBVIOUS
    <3>2. (Cardinality(R) + h.cut) + r.size = (Cardinality(R) + r.size) + h.cut
      BY <1>2, <1>3, <3>1
    <3>3. h.freed = Cardinality(R) + h.cut
      BY <1>1
    <3> QED BY <2>7, <3>2, <3>3, Zenon
  <2>10. HeapOk(g, rest)
    <3> HIDE DEF rest
    <3> QED BY <1>1, <2>4, <2>6, <2>8, <2>9, Zenon DEF HeapOk
  <2> QED BY <2>6, <2>10 DEF SameHeap, g, U
<1> QED BY <1>6, <1>7, <1>8

(* The units of the resources rs in the heap with the given id.            *)
UnitsIn(rs, id) == UNION {Heaps!Units(r) : r \in {s \in rs : s.heap = id}}

(* Until a heap has been reset too early, each heap is sound.              *)
HeapsInv ==
  /\ heaps \in Seq(HeapRecords)
  /\ \A i \in DOMAIN heaps : heaps[i].id \in 1 .. Len(heaps)
  /\ \A i, j \in DOMAIN heaps : i # j => heaps[i].id # heaps[j].id
  /\ \A r \in resources : r.at \in Nat /\ r.size \in Nat \ {0} /\ r.heap \in 1 .. Len(heaps)
  /\ \A r, s \in resources :
       r # s /\ r.heap = s.heap => Heaps!Units(r) \cap Heaps!Units(s) = {}
  /\ \A i \in DOMAIN heaps :
       heaps[i].id \in reset \/ HeapOk(heaps[i], UnitsIn(resources, heaps[i].id))

(* A bucket holds what it is chosen for.                                   *)
LEMMA BucketHolds ==
  ASSUME HeapAssumption, NEW need \in Sizes
  PROVE  Heaps!BucketSize(need) \in Nat /\ need <= Heaps!BucketSize(need)
<1>1. Buckets \subseteq Nat /\ need \in Nat
  BY DEF HeapAssumption
<1> DEFINE B == {b \in Buckets : need <= b}
<1>2. CASE B # {}
  <2>1. PICK m \in B : TRUE
    BY <1>2, Zenon
  <2> DEFINE C == {b \in B : b <= m}
  <2>2. C \subseteq 0 .. m /\ m \in C /\ m \in Nat
    <3>1. m \in Nat /\ \A b \in C : b \in Nat /\ b <= m
      BY <1>1, <2>1
    <3>2. m \in C
      BY <2>1, <3>1
    <3> HIDE DEF C
    <3> QED BY <3>1, <3>2
  <2> HIDE DEF C
  <2>3. Min(C) \in C /\ \A c \in C : Min(C) <= c
    BY <2>2, MinProperties, Zenon
  <2> USE DEF C
  <2>4. Min(C) \in B /\ \A b \in B : Min(C) <= b
    <3>1. ASSUME NEW b \in B PROVE Min(C) <= b
      <4> DEFINE c == Min(C)
      <4>1. c \in Nat /\ b \in Nat /\ m \in Nat /\ m \in C /\ c \in C
        BY <1>1, <2>2, <2>3
      <4>2. c <= m /\ (b <= m => c <= b)
        BY <2>3, <2>2
      <4>3. c <= b
        <5> HIDE DEF c
        <5> QED BY <4>1, <4>2
      <4> QED BY <4>3
    <3> QED BY <2>3, <3>1
  <2> HIDE DEF C
  <2>5. Heaps!Min(B) \in B
    <3>1. \E x \in B : \A y \in B : x <= y
      BY <2>4, Zenon
    <3> HIDE DEF B
    <3> QED BY <3>1 DEF Heaps!Min
  <2>6. Heaps!BucketSize(need) = Heaps!Min(B)
    BY <1>2 DEF Heaps!BucketSize
  <2> QED BY <1>1, <2>5, <2>6, Zenon
<1>3. CASE B = {}
  <2>1. Heaps!BucketSize(need) = need
    BY <1>3 DEF Heaps!BucketSize
  <2> QED BY <1>1, <2>1
<1> QED BY <1>2, <1>3

(* A new heap has room for what it is made for.                            *)
LEMMA NewHeapHasRoom ==
  ASSUME HeapAssumption, HeapsInv, NEW kind \in Kinds, NEW need \in Sizes
  PROVE  LET h == Heaps!NewHeap(kind, need)
         IN  /\ h.id = Len(heaps) + 1
             /\ UnitsIn(resources, Len(heaps) + 1) = {} /\ HeapOk(h, {})
             /\ Heaps!HasEnoughSpace(h, need)
<1> DEFINE h == Heaps!NewHeap(kind, need)
<1>1. need \in Nat \ {0} /\ Len(heaps) \in Nat
  BY DEF HeapAssumption, HeapsInv
<1>2. <<>> \in Seq(HeapItems) /\ 0 \in Nat /\ Len(heaps) + 1 \in Nat
  BY <1>1
<1>3. Heaps!BucketSize(need) \in Nat /\ need <= Heaps!BucketSize(need)
  BY BucketHolds
<1>4. /\ h \in HeapRecords /\ h.id = Len(heaps) + 1 /\ h.items = <<>> /\ h.offset = 0
      /\ h.freed = 0 /\ h.cut = 0 /\ h.size = Heaps!BucketSize(need)
  BY <1>2, <1>3 DEF Heaps!NewHeap, HeapRecords
<1> HIDE DEF h
<1>5. Below(h) = {}
  BY <1>4 DEF Below
<1>6. HeapOk(h, {})
  <2>1. Below(h) \ {} = {} /\ {} \subseteq Below(h) /\ Cardinality({}) = 0
    BY <1>5, FS_EmptySet
  <2>2. 0 <= h.size /\ 0 + 0 = 0
    BY <1>3, <1>4
  <2> QED BY <1>4, <2>1, <2>2, NothingCovered, Zenon DEF HeapOk
<1>7. Heaps!HasEnoughSpace(h, need)
  BY <1>1, <1>3, <1>4 DEF Heaps!HasEnoughSpace, Heaps!Unallocated
<1>8. UnitsIn(resources, Len(heaps) + 1) = {}
  <2>1. \A r \in resources : r.heap # Len(heaps) + 1
    BY <1>1 DEF HeapsInv
  <2> QED BY <2>1 DEF UnitsIn
<1> QED BY <1>4, <1>6, <1>7, <1>8 DEF h

(* What is returned by a new resource's heap.                              *)
LEMMA ResourceAdded ==
  ASSUME NEW rs, NEW r
  PROVE  /\ UnitsIn(rs \cup {r}, r.heap) = UnitsIn(rs, r.heap) \cup Heaps!Units(r)
         /\ \A id : id # r.heap => UnitsIn(rs \cup {r}, id) = UnitsIn(rs, id)
BY DEF UnitsIn

(* Heaps one of which is to serve a request.                               *)
Offered(hs, c, need) ==
  /\ hs \in Seq(HeapRecords) /\ Len(hs) >= Len(heaps) /\ c \in DOMAIN hs
  /\ \A i \in DOMAIN hs : hs[i].id \in 1 .. Len(hs)
  /\ \A i, j \in DOMAIN hs : i # j => hs[i].id # hs[j].id
  /\ \A i \in DOMAIN hs : HeapOk(hs[i], UnitsIn(resources, hs[i].id))
  /\ Heaps!HasEnoughSpace(hs[c], need)

(* The search leaves the heaps as sound as they were.                      *)
LEMMA SearchKeeps ==
  ASSUME HeapsInv, reset = {}, NEW looked
  PROVE  LET searched == [i \in DOMAIN heaps |->
                            IF i \in looked THEN Heaps!Defragment(heaps[i]) ELSE heaps[i]]
         IN  /\ searched \in Seq(HeapRecords) /\ Len(searched) = Len(heaps)
             /\ \A i \in DOMAIN heaps : /\ searched[i].id = heaps[i].id
                                        /\ HeapOk(searched[i], UnitsIn(resources, heaps[i].id))
<1> DEFINE searched == [i \in DOMAIN heaps |->
                          IF i \in looked THEN Heaps!Defragment(heaps[i]) ELSE heaps[i]]
<1>1. DOMAIN heaps = 1 .. Len(heaps) /\ Len(heaps) \in Nat
  BY DEF HeapsInv
<1>2. ASSUME NEW i \in DOMAIN heaps
      PROVE  searched[i].id = heaps[i].id /\ HeapOk(searched[i], UnitsIn(resources, heaps[i].id))
  <2> DEFINE h == heaps[i]
             L == UnitsIn(resources, h.id)
  <2>1. HeapOk(h, L)
    BY DEF HeapsInv
  <2> HIDE DEF L, h
  <2>2. HeapOk(Heaps!Defragment(h), L) /\ SameHeap(Heaps!Defragment(h), h)
    BY <2>1, HeapDefragmentKeeps
  <2>3. searched[i] = Heaps!Defragment(h) \/ searched[i] = h
    BY DEF h
  <2> HIDE DEF searched
  <2>4. searched[i].id = h.id /\ HeapOk(searched[i], L)
    BY <2>1, <2>2, <2>3, Zenon DEF SameHeap
  <2> QED BY <2>4 DEF h, L
<1>3. searched = [i \in 1 .. Len(heaps) |-> searched[i]]
  BY <1>1
<1> HIDE DEF searched
<1>4. \A i \in 1 .. Len(heaps) : searched[i] \in HeapRecords
  BY <1>1, <1>2, Zenon DEF HeapOk
<1>5. searched \in Seq(HeapRecords) /\ Len(searched) = Len(heaps)
  BY <1>1, <1>3, <1>4
<1> QED BY <1>2, <1>5 DEF searched

(* The heap that is chosen has room.                                       *)
LEMMA ChosenHasRoom ==
  ASSUME HeapAssumption, HeapsInv, reset = {}, NEW kind \in Kinds, NEW need \in Sizes
  PROVE  LET suitable == {i \in DOMAIN heaps : Heaps!Suits(heaps[i], kind, need)}
             chosen   == IF suitable = {} THEN Len(heaps) + 1 ELSE Heaps!Min(suitable)
             looked   == {i \in DOMAIN heaps : /\ i <= chosen /\ heaps[i].kind = kind
                                               /\ ~Heaps!HasEnoughSpace(heaps[i], need)}
             searched == [i \in DOMAIN heaps |->
                            IF i \in looked THEN Heaps!Defragment(heaps[i]) ELSE heaps[i]]
             offered  == IF suitable = {} THEN Append(searched, Heaps!NewHeap(kind, need))
                         ELSE searched
         IN  Offered(offered, chosen, need)
<1> DEFINE suitable == {i \in DOMAIN heaps : Heaps!Suits(heaps[i], kind, need)}
           chosen   == IF suitable = {} THEN Len(heaps) + 1 ELSE Heaps!Min(suitable)
           looked   == {i \in DOMAIN heaps : /\ i <= chosen /\ heaps[i].kind = kind
                                             /\ ~Heaps!HasEnoughSpace(heaps[i], need)}
           searched == [i \in DOMAIN heaps |->
                          IF i \in looked THEN Heaps!Defragment(heaps[i]) ELSE heaps[i]]
           new      == Heaps!NewHeap(kind, need)
           offered  == IF suitable = {} THEN Append(searched, new) ELSE searched
<1>1. DOMAIN heaps = 1 .. Len(heaps) /\ Len(heaps) \in Nat
  BY DEF HeapsInv
<1>2. /\ searched \in Seq(HeapRecords) /\ Len(searched) = Len(heaps)
      /\ \A i \in DOMAIN heaps : /\ searched[i].id = heaps[i].id
                                 /\ HeapOk(searched[i], UnitsIn(resources, heaps[i].id))
  <2> HIDE DEF looked
  <2> QED BY SearchKeeps
<1>3. DOMAIN searched = 1 .. Len(heaps)
  BY <1>1
<1>4. /\ \A i \in 1 .. Len(heaps) : heaps[i].id \in 1 .. Len(heaps)
      /\ \A i, j \in 1 .. Len(heaps) : i # j => heaps[i].id # heaps[j].id
  BY <1>1 DEF HeapsInv
<1>5. CASE suitable # {}
  <2>1. chosen \in suitable
    <3>1. suitable \subseteq 0 .. Len(heaps)
      BY <1>1
    <3> HIDE DEF suitable
    <3>2. Min(suitable) \in suitable
      BY <1>1, <1>5, <3>1, MinProperties, Zenon
    <3>3. Heaps!Min(suitable) = Min(suitable)
      BY Zenon DEF Heaps!Min, Min
    <3> QED BY <1>5, <3>2, <3>3
  <2>2. offered = searched
    BY <1>5, Zenon
  <2>3. Heaps!HasEnoughSpace(searched[chosen], need)
    <3> HIDE DEF chosen
    <3>1. chosen \in DOMAIN heaps /\ chosen <= chosen
          /\ heaps[chosen].kind = kind
          /\ (Heaps!HasEnoughSpace(heaps[chosen], need)
                \/ Heaps!HasEnoughSpace(Heaps!Defragment(heaps[chosen]), need))
      BY <1>1, <2>1 DEF Heaps!Suits
    <3>2. CASE Heaps!HasEnoughSpace(heaps[chosen], need)
      <4>1. chosen \notin looked
        BY <3>2
      <4>2. searched[chosen] = heaps[chosen]
        BY <3>1, <4>1
      <4> QED BY <3>2, <4>2, Zenon
    <3>3. CASE ~Heaps!HasEnoughSpace(heaps[chosen], need)
      <4>1. chosen \in looked
        BY <3>1, <3>3
      <4>2. searched[chosen] = Heaps!Defragment(heaps[chosen])
        BY <3>1, <4>1
      <4> QED BY <3>1, <3>3, <4>2, Zenon
    <3> QED BY <3>2, <3>3
  <2>4. chosen \in DOMAIN searched
    BY <1>1, <1>3, <2>1
  <2> HIDE DEF searched, chosen, suitable
  <2>5. Offered(searched, chosen, need)
    <3>1. \A i \in 1 .. Len(heaps) : HeapOk(searched[i], UnitsIn(resources, searched[i].id))
      BY <1>1, <1>2, Zenon
    <3>2. /\ \A i \in 1 .. Len(heaps) : searched[i].id \in 1 .. Len(heaps)
          /\ \A i, j \in 1 .. Len(heaps) : i # j => searched[i].id # searched[j].id
      BY <1>1, <1>2, <1>4, Zenon
    <3>3. Len(searched) >= Len(heaps)
      BY <1>1, <1>2
    <3> QED BY <1>2, <1>3, <2>3, <2>4, <3>1, <3>2, <3>3, Zenon DEF Offered
  <2> QED BY <2>2, <2>5 DEF searched, chosen, suitable
<1>6. CASE suitable = {}
  <2> DEFINE t == Append(searched, new)
             c == Len(heaps) + 1
  <2>1. offered = t /\ chosen = c
    BY <1>6
  <2>2. /\ new.id = c /\ UnitsIn(resources, c) = {} /\ HeapOk(new, {})
        /\ Heaps!HasEnoughSpace(new, need)
    BY NewHeapHasRoom
  <2>3. new \in HeapRecords
    BY <2>2 DEF HeapOk
  <2> HIDE DEF new, searched, chosen, suitable
  <2>4. /\ t \in Seq(HeapRecords) /\ Len(t) = c /\ DOMAIN t = 1 .. c /\ t[c] = new
        /\ \A i \in 1 .. Len(heaps) : t[i] = searched[i]
    BY <1>1, <1>2, <1>3, <2>3
  <2> HIDE DEF t
  <2>5. \A i \in 1 .. c : i = c \/ i \in 1 .. Len(heaps)
    BY <1>1
  <2>6. /\ \A i \in 1 .. c : t[i].id \in 1 .. c
        /\ \A i, j \in 1 .. c : i # j => t[i].id # t[j].id
    <3>1. \A i \in 1 .. Len(heaps) : t[i].id = heaps[i].id
      BY <1>1, <1>2, <2>4
    <3>2. t[c].id = c
      BY <2>2, <2>4
    <3>3. \A i \in 1 .. Len(heaps) : t[i].id \in 1 .. c /\ t[i].id # c
      BY <1>1, <1>4, <3>1
    <3>4. c \in 1 .. c
      BY <1>1
    <3> QED BY <1>4, <2>5, <3>1, <3>2, <3>3, <3>4
  <2>7. \A i \in 1 .. c : HeapOk(t[i], UnitsIn(resources, t[i].id))
    <3>1. ASSUME NEW i \in 1 .. Len(heaps) PROVE HeapOk(t[i], UnitsIn(resources, t[i].id))
      <4>1. t[i] = searched[i] /\ searched[i].id = heaps[i].id
            /\ HeapOk(searched[i], UnitsIn(resources, heaps[i].id))
        BY <1>1, <1>2, <2>4
      <4> QED BY <4>1, Zenon
    <3>2. HeapOk(t[c], UnitsIn(resources, t[c].id))
      BY <2>2, <2>4, Zenon
    <3> QED BY <2>5, <3>1, <3>2
  <2>8. Offered(t, c, need)
    <3>1. c \in 1 .. c /\ c >= Len(heaps)
      BY <1>1
    <3> HIDE DEF c
    <3> QED BY <2>2, <2>4, <2>6, <2>7, <3>1, Zenon DEF Offered
  <2> QED BY <2>1, <2>8, Zenon DEF new, searched, chosen, suitable
<1> QED BY <1>5, <1>6

(* CreateResource cuts what nothing lives in, from a heap with room.       *)
LEMMA CreateResourceKeeps ==
  ASSUME HeapAssumption, HeapsInv, NEW kind \in Kinds, NEW need \in Sizes,
         Heaps!CreateResource(kind, need)
  PROVE  HeapsInv'
<1> DEFINE suitable == {i \in DOMAIN heaps : Heaps!Suits(heaps[i], kind, need)}
           chosen   == IF suitable = {} THEN Len(heaps) + 1 ELSE Heaps!Min(suitable)
           looked   == {i \in DOMAIN heaps : /\ i <= chosen /\ heaps[i].kind = kind
                                             /\ ~Heaps!HasEnoughSpace(heaps[i], need)}
           searched == [i \in DOMAIN heaps |->
                          IF i \in looked THEN Heaps!Defragment(heaps[i]) ELSE heaps[i]]
           offered  == IF suitable = {} THEN Append(searched, Heaps!NewHeap(kind, need))
                       ELSE searched
           heap     == offered[chosen]
           place    == Heaps!Allocated(heap, need)
           name     == Heaps!Min((1 .. MaxLive) \ {r.name : r \in resources})
           r        == [name |-> name, heap |-> heap.id, at |-> place.at, size |-> place.size]
           after    == Heaps!AfterAllocation(heap, need)
           hs       == [offered EXCEPT ![chosen] = after]
<1>1. /\ reset = {} /\ reset' = {} /\ resources' = resources \cup {r}
      /\ Heaps!BecomeSorted(hs)
  BY Zenon DEF Heaps!CreateResource
<1>2. Offered(offered, chosen, need)
  BY <1>1, ChosenHasRoom, Zenon
<1> HIDE DEF offered, chosen, name
<1>3. need \in Nat \ {0} /\ Len(heaps) \in Nat
  BY DEF HeapAssumption, HeapsInv
<1>4. HeapOk(heap, UnitsIn(resources, heap.id)) /\ Heaps!HasEnoughSpace(heap, need)
  BY <1>2 DEF Offered
<1> HIDE DEF heap
<1>5. /\ place \in HeapItems /\ Heaps!Units(place) \cap UnitsIn(resources, heap.id) = {}
      /\ HeapOk(after, UnitsIn(resources, heap.id) \cup Heaps!Units(place))
      /\ SameHeap(after, heap)
  BY <1>3, <1>4, AllocationKeeps, Zenon
<1> HIDE DEF place, after
<1>6. /\ r.heap = heap.id /\ r.at = place.at /\ r.size = place.size
      /\ r.at \in Nat /\ r.size \in Nat \ {0}
  BY <1>5 DEF HeapItems
<1> HIDE DEF r
<1>7. Heaps!Units(r) = Heaps!Units(place)
  BY <1>6 DEF Heaps!Units, Heaps!End
<1>8. /\ UnitsIn(resources', heap.id) = UnitsIn(resources, heap.id) \cup Heaps!Units(r)
      /\ \A id : id # heap.id => UnitsIn(resources', id) = UnitsIn(resources, id)
  BY <1>1, <1>6, ResourceAdded, Zenon
<1> DEFINE n == Len(offered)
<1>9. /\ n \in Nat /\ DOMAIN offered = 1 .. n /\ chosen \in 1 .. n /\ n >= Len(heaps)
      /\ offered[chosen] = heap
  BY <1>2 DEF Offered, heap
<1>10. DOMAIN hs = 1 .. n /\ hs[chosen] = after
       /\ \A i \in 1 .. n : i # chosen => hs[i] = offered[i]
  BY <1>9
<1> HIDE DEF hs
<1>11. \A i \in 1 .. n : hs[i].id = offered[i].id
  BY <1>5, <1>9, <1>10 DEF SameHeap
<1>12. ASSUME NEW i \in 1 .. n PROVE HeapOk(hs[i], UnitsIn(resources', hs[i].id))
  <2>1. CASE i = chosen
    <3>1. hs[i] = after /\ hs[i].id = heap.id
      BY <1>9, <1>10, <1>11, <2>1
    <3> QED BY <1>5, <1>7, <1>8, <3>1, Zenon
  <2>2. CASE i # chosen
    <3>1. hs[i] = offered[i] /\ hs[i].id # heap.id
      BY <1>2, <1>9, <1>10, <1>11, <2>2 DEF Offered
    <3>2. HeapOk(offered[i], UnitsIn(resources, offered[i].id))
      BY <1>2, <1>9 DEF Offered
    <3> QED BY <1>8, <3>1, <3>2, Zenon
  <2> QED BY <2>1, <2>2
<1>13. PICK order \in [1 .. n -> 1 .. n] :
         /\ \A i, j \in 1 .. n : i # j => order[i] # order[j]
         /\ heaps' = [i \in 1 .. n |-> hs[order[i]]]
  <2>1. PICK order \in Heaps!Bijection(1 .. n, 1 .. n) : heaps' = [i \in 1 .. n |-> hs[order[i]]]
    BY <1>1, <1>10 DEF Heaps!BecomeSorted
  <2>2. /\ order \in [1 .. n -> 1 .. n]
        /\ \A i, j \in 1 .. n : order[i] = order[j] => i = j
    BY <2>1 DEF Heaps!Bijection, Heaps!Injection, Heaps!IsInjective
  <2> QED BY <2>1, <2>2
<1> HIDE DEF n
<1>14. \A i \in 1 .. n : heaps'[i] = hs[order[i]] /\ order[i] \in 1 .. n
  BY <1>13
<1>15. \A i \in 1 .. n : HeapOk(heaps'[i], UnitsIn(resources', heaps'[i].id))
  BY <1>12, <1>14
<1>16. heaps' \in Seq(HeapRecords) /\ Len(heaps') = n /\ DOMAIN heaps' = 1 .. n
  <2>1. \A i \in 1 .. n : hs[order[i]] \in HeapRecords
    BY <1>14, <1>15, Zenon DEF HeapOk
  <2> QED BY <1>9, <1>13, <2>1
<1>17. \A i \in 1 .. n : heaps'[i].id \in 1 .. n
  <2>1. \A i \in 1 .. n : offered[i].id \in 1 .. n
    BY <1>2, <1>9 DEF Offered, n
  <2> QED BY <1>11, <1>14, <2>1
<1>18. \A i, j \in 1 .. n : i # j => heaps'[i].id # heaps'[j].id
  <2>1. \A i, j \in 1 .. n : i # j => offered[i].id # offered[j].id
    BY <1>2, <1>9, Zenon DEF Offered
  <2> QED BY <1>11, <1>13, <1>14, <2>1
<1>19. \A x \in resources' : x.at \in Nat /\ x.size \in Nat \ {0} /\ x.heap \in 1 .. n
  <2>1. r.heap \in 1 .. n
    BY <1>2, <1>6, <1>9 DEF Offered, n
  <2>2. \A x \in resources : x.at \in Nat /\ x.size \in Nat \ {0} /\ x.heap \in 1 .. n
    BY <1>3, <1>9 DEF HeapsInv
  <2> QED BY <1>1, <1>6, <2>1, <2>2
<1>20. ASSUME NEW x \in resources', NEW y \in resources', x # y, x.heap = y.heap
       PROVE  Heaps!Units(x) \cap Heaps!Units(y) = {}
  <2>1. ASSUME NEW z \in resources, z.heap = r.heap
        PROVE  Heaps!Units(z) \cap Heaps!Units(r) = {}
    <3>1. Heaps!Units(z) \subseteq UnitsIn(resources, heap.id)
      BY <1>6, <2>1 DEF UnitsIn
    <3> QED BY <1>5, <1>7, <3>1
  <2>2. CASE x \in resources /\ y \in resources
    BY <1>20, <2>2 DEF HeapsInv
  <2>3. CASE x = r /\ y \in resources
    BY <1>20, <2>1, <2>3
  <2>4. CASE x \in resources /\ y = r
    BY <1>20, <2>1, <2>4
  <2> QED BY <1>1, <1>20, <2>2, <2>3, <2>4
<1> QED BY <1>15, <1>16, <1>17, <1>18, <1>19, <1>20, Zenon DEF HeapsInv

(* ReturnResource keeps the heaps sound, or notes that it reset one early. *)
LEMMA ReturnResourceKeeps ==
  ASSUME HeapsInv, NEW r \in resources, Heaps!ReturnResource(r)
  PROVE  HeapsInv'
<1> DEFINE n == Len(heaps)
           returned(h) == Heaps!Returned(h, r)
<1>1. /\ reset = {} /\ resources' = resources \ {r}
      /\ heaps' = [i \in DOMAIN heaps |->
                     IF heaps[i].id = r.heap THEN returned(heaps[i]) ELSE heaps[i]]
      /\ reset' = {heaps[i].id : i \in {j \in DOMAIN heaps' :
                     /\ heaps'[j].offset = 0 /\ heaps[j].cut > 0
                     /\ \E other \in resources' : other.heap = heaps[j].id}}
  BY DEF Heaps!ReturnResource
<1> HIDE DEF returned
<1>2. /\ n \in Nat /\ DOMAIN heaps = 1 .. n /\ DOMAIN heaps' = 1 .. n
      /\ r.at \in Nat /\ r.size \in Nat \ {0} /\ r.heap \in 1 .. n
  <2>1. n \in Nat /\ DOMAIN heaps = 1 .. n
    BY DEF HeapsInv
  <2> QED BY <1>1, <2>1 DEF HeapsInv
<1>3. /\ \A id : id # r.heap => UnitsIn(resources', id) = UnitsIn(resources, id)
      /\ UnitsIn(resources', r.heap) = UnitsIn(resources, r.heap) \ Heaps!Units(r)
      /\ Heaps!Units(r) \subseteq UnitsIn(resources, r.heap)
  <2>1. \A s \in resources' : s.heap = r.heap => Heaps!Units(s) \cap Heaps!Units(r) = {}
    BY <1>1 DEF HeapsInv
  <2>2. UnitsIn(resources', r.heap) = UnitsIn(resources, r.heap) \ Heaps!Units(r)
    <3>1. ASSUME NEW u, u \in UnitsIn(resources, r.heap) \ Heaps!Units(r)
          PROVE  u \in UnitsIn(resources', r.heap)
      <4>1. PICK s \in resources : s.heap = r.heap /\ u \in Heaps!Units(s)
        BY <3>1 DEF UnitsIn
      <4>2. s \in resources'
        BY <1>1, <3>1, <4>1
      <4> QED BY <4>1, <4>2 DEF UnitsIn
    <3>2. ASSUME NEW u, u \in UnitsIn(resources', r.heap)
          PROVE  u \in UnitsIn(resources, r.heap) \ Heaps!Units(r)
      <4>1. PICK s \in resources' : s.heap = r.heap /\ u \in Heaps!Units(s)
        BY <3>2 DEF UnitsIn
      <4> QED BY <1>1, <2>1, <4>1 DEF UnitsIn
    <3> QED BY <3>1, <3>2
  <2>3. \A id : id # r.heap => UnitsIn(resources', id) = UnitsIn(resources, id)
    BY <1>1 DEF UnitsIn
  <2>4. Heaps!Units(r) \subseteq UnitsIn(resources, r.heap)
    BY DEF UnitsIn
  <2> QED BY <2>2, <2>3, <2>4
<1>4. ASSUME NEW i \in 1 .. n
      PROVE  /\ heaps'[i] \in HeapRecords /\ heaps'[i].id = heaps[i].id
             /\ heaps'[i].id \in reset' \/ HeapOk(heaps'[i], UnitsIn(resources', heaps'[i].id))
  <2> DEFINE h == heaps[i]
             L == UnitsIn(resources, h.id)
  <2>1. HeapOk(h, L)
    BY <1>1, <1>2 DEF HeapsInv
  <2>2. CASE h.id # r.heap
    <3>1. heaps'[i] = h
      BY <1>1, <1>2, <2>2
    <3>2. UnitsIn(resources', h.id) = L
      BY <1>3, <2>2
    <3>3. h \in HeapRecords
      BY <2>1 DEF HeapOk
    <3> HIDE DEF h, L
    <3> QED BY <2>1, <3>1, <3>2, <3>3, Zenon DEF h
  <2>3. CASE h.id = r.heap
    <3> DEFINE g == returned(h)
               rest == L \ Heaps!Units(r)
    <3>1. heaps'[i] = g
      BY <1>1, <1>2, <2>3
    <3>2. UnitsIn(resources', h.id) = rest /\ Heaps!Units(r) \subseteq L
      BY <1>3, <2>3
    <3> HIDE DEF h, L
    <3>3. /\ g \in HeapRecords /\ SameHeap(g, h)
          /\ HeapOk(g, rest) \/ (h.cut > 0 /\ g.offset = 0 /\ rest # {})
      BY <1>2, <2>1, <3>2, ReturnKeeps, Zenon DEF returned
    <3> HIDE DEF g, rest
    <3>4. g.id = h.id
      BY <3>3 DEF SameHeap
    <3>5. CASE HeapOk(g, rest)
      <4>1. HeapOk(heaps'[i], UnitsIn(resources', heaps'[i].id))
        BY <3>1, <3>2, <3>4, <3>5, Zenon
      <4> QED BY <3>1, <3>3, <3>4, <4>1, Zenon DEF h
    <3>6. CASE h.cut > 0 /\ g.offset = 0 /\ rest # {}
      <4>1. PICK other \in resources' : other.heap = h.id
        BY <3>2, <3>6 DEF UnitsIn
      <4>2. heaps[i].id \in reset'
        BY <1>1, <1>2, <3>1, <3>6, <4>1 DEF h
      <4> QED BY <3>1, <3>3, <3>4, <4>2, Zenon DEF h
    <3> QED BY <3>3, <3>5, <3>6
  <2> QED BY <2>2, <2>3
<1>5. heaps' \in Seq(HeapRecords) /\ Len(heaps') = n
  <2>1. heaps' = [i \in 1 .. n |-> heaps'[i]]
    BY <1>1, <1>2
  <2>2. \A i \in 1 .. n : heaps'[i] \in HeapRecords
    BY <1>4
  <2> QED BY <1>2, <2>1, <2>2
<1> HIDE DEF n
<1>6. /\ \A i \in 1 .. n : heaps'[i].id \in 1 .. n
      /\ \A i, j \in 1 .. n : i # j => heaps'[i].id # heaps'[j].id
  <2>1. /\ \A i \in 1 .. n : heaps[i].id \in 1 .. n
        /\ \A i, j \in 1 .. n : i # j => heaps[i].id # heaps[j].id
    BY <1>2, Zenon DEF HeapsInv, n
  <2> QED BY <1>4, <2>1
<1>7. /\ \A x \in resources' : x.at \in Nat /\ x.size \in Nat \ {0} /\ x.heap \in 1 .. n
      /\ \A x, y \in resources' :
           x # y /\ x.heap = y.heap => Heaps!Units(x) \cap Heaps!Units(y) = {}
  <2>1. resources' \subseteq resources
    BY <1>1
  <2> QED BY <2>1 DEF HeapsInv, n
<1> QED BY <1>2, <1>4, <1>5, <1>6, <1>7, Zenon DEF HeapsInv

(* A sound heap is partitioned.                                            *)
LEMMA SoundHeapsArePartitioned ==
  ASSUME HeapsInv
  PROVE  HeapsArePartitioned
<1>1. ASSUME NEW i \in DOMAIN heaps, heaps[i].id \notin reset
      PROVE  LET h == heaps[i]
                 R == Heaps!ReleasedUnits(h)
             IN  /\ h.freed = Heaps!Cardinality(R) + h.cut
                 /\ \A r, s \in Heaps!LiveIn(h) : r # s => Heaps!Units(r) \cap Heaps!Units(s) = {}
                 /\ \A k, l \in DOMAIN h.items :
                      k # l => Heaps!Units(h.items[k]) \cap Heaps!Units(h.items[l]) = {}
                 /\ Heaps!LiveUnits(h) \cap R = {}
                 /\ Heaps!LiveUnits(h) \cup R = 0 .. h.offset - 1
                 /\ h.offset <= h.size
  <2> DEFINE h == heaps[i]
             L == Heaps!LiveUnits(h)
             R == Heaps!ReleasedUnits(h)
  <2>1. L = UnitsIn(resources, h.id)
    BY DEF Heaps!LiveUnits, Heaps!LiveIn, UnitsIn
  <2>2. HeapOk(h, UnitsIn(resources, h.id))
    BY <1>1 DEF HeapsInv
  <2>3. \A r, s \in Heaps!LiveIn(h) : r # s => Heaps!Units(r) \cap Heaps!Units(s) = {}
    BY DEF HeapsInv, Heaps!LiveIn
  <2> HIDE DEF h, L
  <2>4. HeapOk(h, L)
    BY <2>1, <2>2, Zenon
  <2>5. R = Below(h) \ L
    BY <2>4 DEF HeapOk, Covers, Heaps!ReleasedUnits
  <2>6. Heaps!Cardinality(R) = Cardinality(R)
    BY Zenon DEF Cardinality, Heaps!Cardinality, IsFiniteSet, Heaps!IsFiniteSet
  <2> HIDE DEF R
  <2>7. h.freed = Heaps!Cardinality(R) + h.cut
    BY <2>4, <2>5, <2>6, Zenon DEF HeapOk
  <2>8. /\ \A k, l \in DOMAIN h.items :
             k # l => Heaps!Units(h.items[k]) \cap Heaps!Units(h.items[l]) = {}
        /\ h.offset <= h.size
    BY <2>4, Zenon DEF HeapOk, Covers
  <2>9. L \cap R = {} /\ L \cup R = 0 .. h.offset - 1
    <3>1. L \subseteq Below(h)
      BY <2>4 DEF HeapOk
    <3>2. L \cup R = Below(h) /\ L \cap R = {}
      BY <2>5, <3>1
    <3> QED BY <3>2, Zenon DEF Below
  <2> QED BY <2>3, <2>7, <2>8, <2>9, Zenon DEF h, L, R
<1> QED BY <1>1, Zenon DEF HeapsArePartitioned, Heaps!HeapsArePartitioned

(* GpuHeap: whatever is created and returned, in a heap no two resources   *)
(* overlap, no room is lost, and freedSizeInBytes counts what is free.     *)
THEOREM HeapsStayPartitioned ==
  Heaps!Spec => []HeapsArePartitioned
<1> USE HeapAssumption
<1>1. Heaps!Init => HeapsInv
  <2> SUFFICES ASSUME Heaps!Init PROVE HeapsInv
    OBVIOUS
  <2>1. heaps = <<>> /\ resources = {}
    BY DEF Heaps!Init
  <2>2. <<>> \in Seq(HeapRecords) /\ DOMAIN <<>> = {}
    OBVIOUS
  <2> QED BY <2>1, <2>2 DEF HeapsInv
<1>2. HeapsInv /\ [Heaps!Next]_(Heaps!heapVars) => HeapsInv'
  <2> SUFFICES ASSUME HeapsInv, [Heaps!Next]_(Heaps!heapVars) PROVE HeapsInv'
    OBVIOUS
  <2>1. ASSUME NEW kind \in Kinds, NEW need \in Sizes, Heaps!CreateResource(kind, need)
        PROVE  HeapsInv'
    BY <2>1, CreateResourceKeeps
  <2>2. ASSUME NEW r \in resources, Heaps!ReturnResource(r) PROVE HeapsInv'
    BY <2>2, ReturnResourceKeeps
  <2>3. CASE UNCHANGED Heaps!heapVars
    <3>1. heaps' = heaps /\ resources' = resources /\ reset' = reset
      BY <2>3 DEF Heaps!heapVars
    <3> QED BY <3>1 DEF HeapsInv
  <2> QED BY <2>1, <2>2, <2>3 DEF Heaps!Next
<1>3. HeapsInv => HeapsArePartitioned
  BY SoundHeapsArePartitioned
<1> QED BY <1>1, <1>2, <1>3, PTL DEF Heaps!Spec
===============================================================================
