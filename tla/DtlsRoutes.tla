----------------------------- MODULE DtlsRoutes ------------------------------
(***************************************************************************)
(* The server's DTLS routes and the connections that point to them.        *)
(*                                                                         *)
(* DtlsRouter keeps its routes in a fixed pool, threaded by `next' into a  *)
(* list of active routes and a list of free ones.  Only DtlsService's      *)
(* strand links and unlinks them.  The game thread holds raw pointers to   *)
(* them all the while: in the nodes of NetcodeService::controlQueue and in *)
(* ConnectionBase::dtlsRoute.                                              *)
(*                                                                         *)
(* OpenSSL is a machine that may finish a handshake with any flight.       *)
(***************************************************************************)
EXTENDS Naturals, Sequences

CONSTANTS
  PoolSize,         \* 64 in the code
  Endpoints,        \* addresses of peers
  MaxQueue,         \* bound: control messages waiting at a time
  BatchesAreShort   \* a handshake takes longer than handling a batch of messages

ASSUME RoutesAssumption ==
  PoolSize \in Nat \ {0} /\ MaxQueue \in Nat /\ BatchesAreShort \in BOOLEAN

NULL == 0
Pool == 1..PoolSize

VARIABLES
  links,            \* DtlsRouter: head, storage and the next pointers
  route,            \* DtlsRoute: state, endpoint, and the age of lastReceivedAt
  sweep,            \* AsyncCheckTimeouts: posted to the strand; where its walk is
  controlQueue,     \* messages with their route, newest first
  batch,            \* those RunFilters has taken and not yet handled
  connections       \* ConnectionStorage

vars == <<links, route, sweep, controlQueue, batch, connections>>
gameVars == <<batch, connections>>

Blank == [state |-> "UNDEFINED", endpoint |-> NULL, age |-> "fresh"]

(* What a walk from a pointer meets, the NULL at its end included: what is *)
(* in every set that has the pointer and with each route the next.         *)
Walk(next, first) ==
  {r \in Pool \cup {NULL} : \A met \in SUBSET (Pool \cup {NULL}) :
     first \in met /\ (\A p \in met \ {NULL} : next[p] \in met) => r \in met}

Active == Walk(links.next, links.head) \ {NULL}
Free == Walk(links.next, links.storage) \ {NULL}

Init ==
  /\ links = [head |-> NULL, storage |-> 1, next |-> [r \in Pool |-> IF r = PoolSize THEN NULL ELSE r + 1]]
  /\ route = [r \in Pool |-> Blank]
  /\ sweep = [posted |-> FALSE, at |-> NULL]
  /\ controlQueue = <<>> /\ batch = <<>>
  /\ connections = <<>>

------------------------------------------------------------------------------
(* DtlsRouter.                                                             *)

Add(l) == [head |-> l.storage, storage |-> l.next[l.storage], next |-> [l.next EXCEPT ![l.storage] = l.head]]

(* The first on the active list: a walk from it meets the others.          *)
Find(e) ==
  LET hits == {r \in Active : route[r].endpoint = e}
  IN  IF hits = {} THEN NULL ELSE CHOOSE r \in hits : hits \subseteq Walk(links.next, r)

EraseKeepsPrevious(l, r) ==
  [l EXCEPT !.head = IF l.head = r THEN l.next[r] ELSE @,
            !.next = [l.next EXCEPT ![r] = l.storage],
            !.storage = r]

(* Unlinks a route, wherever in the active list it is, and pushes it on    *)
(* the free list.                                                          *)
Erase(l, r) ==
  [l EXCEPT !.head = IF l.head = r THEN l.next[r] ELSE @,
            !.next = [p \in Pool |-> CASE p = r -> l.storage
                                       [] p # r /\ l.next[p] = r -> l.next[r]
                                       [] OTHER -> l.next[p]],
            !.storage = r]

------------------------------------------------------------------------------
(* The strand.  It does nothing else while it sweeps.                      *)
StrandIsFree == sweep.at = NULL

(* HandlePacket for an endpoint without a route, ServerListen: a hello     *)
(* that brings the cookie back gets a route, if there is one left.         *)
ServerListen(e) ==
  /\ StrandIsFree /\ Find(e) = NULL
  /\ links.storage # NULL
  /\ links' = Add(links)
  /\ route' = [route EXCEPT ![links.storage] = [state |-> "SERVER_ACCEPT", endpoint |-> e, age |-> "fresh"]]
  /\ UNCHANGED <<sweep, controlQueue, gameVars>>

(* A message the game thread is about to handle still names this route for *)
(* its former peer.                                                        *)
Stale(r) == \E i \in DOMAIN batch : batch[i].route = r /\ batch[i].endpoint # route[r].endpoint

(* The last flight of a handshake.  (The code does not exclude that it     *)
(* arrives while Stale; only the round trips it takes do.)                 *)
ServerAccept(e) ==
  /\ StrandIsFree /\ Find(e) # NULL
  /\ route[Find(e)].state = "SERVER_ACCEPT"
  /\ BatchesAreShort => ~Stale(Find(e))
  /\ route' = [route EXCEPT ![Find(e)].state = "ESTABLISHED"]
  /\ UNCHANGED <<links, sweep, controlQueue, gameVars>>

(* Application data on an established route: HandleRoutedMessage.  The     *)
(* packet may have been posted before its endpoint got a connection.       *)
HandleRoutedMessage(e) ==
  /\ Len(controlQueue) < MaxQueue
  /\ StrandIsFree /\ Find(e) # NULL
  /\ route[Find(e)].state = "ESTABLISHED"
  /\ controlQueue' = <<[endpoint |-> e, route |-> Find(e)]>> \o controlQueue
  /\ UNCHANGED <<links, route, sweep, gameVars>>

ErasableHandshake(r) == route[r].state = "SERVER_ACCEPT" /\ route[r].age # "fresh"

Erasable(r) == \/ route[r].state = "SERVER_ACCEPT" /\ route[r].age # "fresh"
               \/ route[r].state = "DISCONNECTED"

(* AsyncCheckTimeouts, on the strand.                                      *)
StartSweep ==
  /\ sweep.posted /\ StrandIsFree
  /\ sweep' = [posted |-> FALSE, at |-> links.head]
  /\ UNCHANGED <<links, route, controlQueue, gameVars>>

(* One route of the walk; `next' is read before it is erased.  Meanwhile   *)
(* the game thread goes on.                                                *)
SweepRoute ==
  /\ ~StrandIsFree
  /\ IF Erasable(sweep.at)
       THEN links' = Erase(links, sweep.at) /\ route' = [route EXCEPT ![sweep.at] = Blank]
       ELSE UNCHANGED <<links, route>>
  /\ sweep' = [sweep EXCEPT !.at = links.next[sweep.at]]
  /\ UNCHANGED <<controlQueue, gameVars>>

------------------------------------------------------------------------------
(* The game thread.                                                        *)

HasConnection(e) == \E i \in DOMAIN connections : connections[i].endpoint = e

TimedOut(refreshed) ==
  {i \in DOMAIN connections : i \notin refreshed /\ route[connections[i].route].age = "over 5 s"}

(* std::remove: those whose route is not among the given, in their order.  *)
Kept(gone) ==
  LET kept[n \in 0..Len(connections)] ==
        IF n = 0 THEN <<>>
        ELSE IF connections[n].route \in gone THEN kept[n - 1] ELSE Append(kept[n - 1], connections[n])
  IN  kept[Len(connections)]

(* GameServer::Tick, what matters here: FetchActions refreshes the routes  *)
(* of clients that act, CheckTimeouts disconnects those that are silent    *)
(* for 5 s, RunFilters posts the sweep and takes the queued messages.      *)
Tick(refreshed) ==
  /\ batch = <<>>
  /\ LET gone == {connections[i].route : i \in TimedOut(refreshed)}
         alive == {connections[i].route : i \in refreshed}
     IN  /\ route' = [r \in Pool |-> IF r \in gone THEN [route[r] EXCEPT !.state = "DISCONNECTED"]
                                     ELSE IF r \in alive THEN [route[r] EXCEPT !.age = "fresh"]
                                     ELSE route[r]]
         /\ connections' = Kept(gone)
  /\ sweep' = [sweep EXCEPT !.posted = TRUE]
  /\ batch' = controlQueue
  /\ controlQueue' = <<>>
  /\ UNCHANGED links

AcceptableTwice(m) == route[m.route].state = "ESTABLISHED"

(* ServerConnRequestFilter: only over an established route, and only one   *)
(* connection for an endpoint.                                             *)
Acceptable(m) == /\ route[m.route].state = "ESTABLISHED"
                 /\ ~HasConnection(m.endpoint)

(* One message of the batch.  The connection takes its endpoint from the   *)
(* route.                                                                  *)
RunFilter ==
  /\ batch # <<>>
  /\ IF Acceptable(batch[1])
       THEN connections' = Append(connections, [endpoint |-> route[batch[1].route].endpoint,
                                                route |-> batch[1].route])
       ELSE UNCHANGED connections
  /\ batch' = Tail(batch)
  /\ UNCHANGED <<links, route, sweep, controlQueue>>

------------------------------------------------------------------------------
Older(age) == IF age = "fresh" THEN "over 1 s" ELSE "over 5 s"

(* Time passes for a route (for each on its own: more than the clock does).*)
(* A sweep reads the clock when it starts.                                 *)
Age(r) ==
  /\ StrandIsFree \/ route[r].state # "SERVER_ACCEPT"
  /\ route[r].state # "UNDEFINED" /\ route[r].age # "over 5 s"
  /\ route' = [route EXCEPT ![r].age = Older(@)]
  /\ UNCHANGED <<links, sweep, controlQueue, gameVars>>

GameStep == RunFilter \/ \E refreshed \in SUBSET DOMAIN connections : Tick(refreshed)

Next == \/ \E e \in Endpoints : ServerListen(e) \/ ServerAccept(e) \/ HandleRoutedMessage(e)
        \/ StartSweep \/ SweepRoute
        \/ GameStep
        \/ \E r \in Pool : Age(r)

(* The strand runs what is posted; the game thread ticks and drains.       *)
Spec == Init /\ [][Next]_vars /\ WF_vars(StartSweep \/ SweepRoute) /\ WF_vars(GameStep)

------------------------------------------------------------------------------
(* Both lists end and every route is on exactly one of them, whatever is   *)
(* erased from where; active ones are in use, and no endpoint has two.     *)
RoutePoolIsPartitioned ==
  /\ NULL \in Walk(links.next, links.head) /\ NULL \in Walk(links.next, links.storage)
  /\ Active \cup Free = Pool /\ Active \cap Free = {}
  /\ \A r \in Pool : route[r].state # "UNDEFINED" <=> r \in Active
  /\ \A r, s \in Active : route[r].endpoint = route[s].endpoint => r = s

(* The pointer a connection keeps leads to the route of its own peer,      *)
(* established and active, although routes are erased and handed out again *)
(* on another thread; no two connections share one.                        *)
ConnectionsKeepTheirRoute ==
  /\ \A i \in DOMAIN connections :
       LET c == connections[i]
       IN  /\ c.route \in Active
           /\ route[c.route].state = "ESTABLISHED"
           /\ route[c.route].endpoint = c.endpoint
  /\ \A i, j \in DOMAIN connections : connections[i].route = connections[j].route => i = j

(* A handshake that was given up and a route whose connection is gone do   *)
(* not stay in the table.  ("Server side function to check client          *)
(* connections for a timeout.")                                            *)
DeadRoutesAreReclaimed ==
  \A r \in Pool :
    LET dead == route[r].state = "DISCONNECTED"
                \/ (route[r].state = "SERVER_ACCEPT" /\ route[r].age # "fresh")
    IN  dead ~> ~dead
==============================================================================
