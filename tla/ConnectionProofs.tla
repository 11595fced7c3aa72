--------------------------- MODULE ConnectionProofs ---------------------------
(***************************************************************************)
(* Theorems about the two sides of a connection: the server's routes, for  *)
(* every pool, every set of peers and every length of the queues, and the  *)
(* client's connecting, for every set of mtus, every number of flights and *)
(* every number of clock samples; and the acknowledged control messages,   *)
(* for any messages, keys and number of attempts.                          *)
(***************************************************************************)
EXTENDS MCConnection, DataLemmas, TLAPS

(***************************************************************************)
(* The routes of a server.                                                 *)
(***************************************************************************)
Pointers == Pool \cup {NULL}
States == {"UNDEFINED", "SERVER_ACCEPT", "ESTABLISHED", "DISCONNECTED"}
LinksType == [head : Pointers, storage : Pointers, next : [Pool -> Pointers]]
RouteType ==
  [state : States, endpoint : Endpoints \cup {NULL}, age : {"fresh", "over 1 s", "over 5 s"}]
MessageType == [endpoint : Endpoints, route : Pool]
ConnectionType == [endpoint : Endpoints \cup {NULL}, route : Pool]

RoutesType ==
  /\ links \in LinksType /\ route \in [Pool -> RouteType]
  /\ sweep \in [posted : BOOLEAN, at : Pointers]
  /\ controlQueue \in Seq(MessageType) /\ batch \in Seq(MessageType)
  /\ connections \in Seq(ConnectionType)

(* q is the list that begins with the pointer first.                       *)
IsList(next, first, q) ==
  /\ first = IF q = <<>> THEN NULL ELSE q[1]
  /\ \A i \in 1 .. Len(q) : next[q[i]] = IF i = Len(q) THEN NULL ELSE q[i + 1]

IsIn(r, q) == \E i \in 1 .. Len(q) : q[i] = r
Distinct(q) == \A i, j \in 1 .. Len(q) : q[i] = q[j] => i = j

(* The active list a and the free list f.                                  *)
AreLists(l, a, f) ==
  /\ IsList(l.next, l.head, a) /\ IsList(l.next, l.storage, f)
  /\ Distinct(a) /\ Distinct(f)
  /\ \A r \in Pool : IsIn(r, a) <=> ~IsIn(r, f)

Used(r) == route[r].state # "UNDEFINED"

ListsInv(l) == \E a, f \in Seq(Pool) : AreLists(l, a, f) /\ \A r \in Pool : IsIn(r, a) <=> Used(r)
ListsExist == ListsInv(links)

EndpointsDiffer ==
  \A r, s \in Pool : Used(r) /\ Used(s) /\ route[r].endpoint = route[s].endpoint => r = s

(* A message waits with the established route it came by; what the game    *)
(* thread has taken may name a route that is being left or used anew, but  *)
(* never one established for another peer.                                 *)
Proper(m) == route[m.route].state = "ESTABLISHED" /\ route[m.route].endpoint = m.endpoint
MessagesInv ==
  /\ \A i \in 1 .. Len(controlQueue) : Proper(controlQueue[i])
  /\ \A i \in 1 .. Len(batch) : route[batch[i].route].state = "ESTABLISHED" => Proper(batch[i])

(* Connections or messages without a common route.                         *)
RoutesDiffer(t) == \A i, j \in 1 .. Len(t) : t[i].route = t[j].route => i = j

ConnectionsInv ==
  /\ \A i \in 1 .. Len(connections) : Proper(connections[i])
  /\ RoutesDiffer(connections)

PoolInv == RoutesType /\ ListsExist /\ EndpointsDiffer
RoutesInv == PoolInv /\ MessagesInv /\ ConnectionsInv
------------------------------------------------------------------------------
(* The lists behind the pointers.                                          *)

(* Walking a list meets its members and the end.                           *)
LEMMA WalkIsList ==
  ASSUME NEW next \in [Pool -> Pointers], NEW first \in Pointers, NEW q \in Seq(Pool),
         IsList(next, first, q)
  PROVE  \A r \in Pointers : r \in Walk(next, first) <=> r = NULL \/ IsIn(r, q)
<1> DEFINE R == {q[i] : i \in 1 .. Len(q)} \cup {NULL}
           Closed(met) == first \in met /\ \A p \in met \ {NULL} : next[p] \in met
<1>1. /\ Len(q) \in Nat /\ \A i \in 1 .. Len(q) : q[i] \in Pool /\ q[i] # NULL
      /\ R \in SUBSET Pointers
  <2>1. NULL \notin Pool /\ Pointers = Pool \cup {NULL}
    BY DEF Pool, NULL, Pointers
  <2>2. Len(q) \in Nat /\ \A i \in 1 .. Len(q) : q[i] \in Pool
    OBVIOUS
  <2> QED BY <2>1, <2>2
<1>2. first = IF q = <<>> THEN NULL ELSE q[1]
  BY DEF IsList
<1>3. ASSUME NEW i \in 1 .. Len(q) PROVE next[q[i]] = IF i = Len(q) THEN NULL ELSE q[i + 1]
  BY DEF IsList
<1>4. Closed(R)
  <2>1. first \in R
    <3>1. CASE q = <<>>
      BY <1>2, <3>1
    <3>2. CASE q # <<>>
      <4>1. 1 \in 1 .. Len(q)
        BY <1>1, <3>2, EmptySeq
      <4> QED BY <1>2, <3>2, <4>1
    <3> QED BY <3>1, <3>2
  <2>2. ASSUME NEW i \in 1 .. Len(q) PROVE next[q[i]] \in R
    <3>1. CASE i = Len(q)
      BY <1>3, <3>1
    <3>2. CASE i # Len(q)
      <4>1. i + 1 \in 1 .. Len(q)
        BY <1>1, <3>2
      <4> QED BY <1>3, <3>2, <4>1
    <3> QED BY <3>1, <3>2
  <2> QED BY <2>1, <2>2
<1>5. ASSUME NEW met \in SUBSET Pointers, Closed(met), NEW n \in 1 .. Len(q), q[n] \notin met
      PROVE  FALSE
  <2> DEFINE Out == {x \in 1 .. Len(q) : q[x] \notin met}
  <2>1. PICK m \in Out : \A x \in Out : m <= x
    <3>1. Out \subseteq 0 .. Len(q) /\ Out # {}
      BY <1>5
    <3> HIDE DEF Out
    <3> QED BY <1>1, <3>1, MinExists
  <2>2. m \in 1 .. Len(q) /\ q[m] \notin met
    BY <2>1
  <2>3. CASE m = 1
    <3>1. q # <<>>
      BY <1>1, <2>2, EmptySeq
    <3> QED BY <1>2, <1>5, <2>2, <2>3, <3>1
  <2>4. CASE m # 1
    <3>1. m - 1 \in 1 .. Len(q) /\ m - 1 # Len(q) /\ (m - 1) + 1 = m /\ ~ (m <= m - 1)
      BY <1>1, <2>2, <2>4
    <3>2. q[m - 1] \in met
      BY <2>1, <3>1
    <3>3. next[q[m - 1]] = q[m]
      BY <1>3, <3>1
    <3> QED BY <1>1, <1>5, <2>2, <3>1, <3>2, <3>3
  <2> QED BY <2>3, <2>4
<1>6. ASSUME NEW met \in SUBSET Pointers, Closed(met) PROVE NULL \in met
  <2>1. CASE q = <<>>
    BY <1>2, <1>6, <2>1
  <2>2. CASE q # <<>>
    <3>1. Len(q) \in 1 .. Len(q)
      BY <1>1, <2>2, EmptySeq
    <3>2. q[Len(q)] \in met
      BY <1>5, <1>6, <3>1
    <3>3. next[q[Len(q)]] = NULL
      BY <1>3, <3>1
    <3> QED BY <1>1, <1>6, <3>1, <3>2, <3>3
  <2> QED BY <2>1, <2>2
<1>7. Walk(next, first) = {r \in Pointers : \A met \in SUBSET Pointers : Closed(met) => r \in met}
  BY Zenon DEF Walk, Pointers
<1>8. \A r \in Pointers : r \in R <=> r = NULL \/ IsIn(r, q)
  BY DEF IsIn
<1>9. \A r \in R : \A met \in SUBSET Pointers : Closed(met) => r \in met
  BY <1>5, <1>6
<1> HIDE DEF Closed, R
<1> QED BY <1>1, <1>4, <1>7, <1>8, <1>9

(* The active list holds the routes in use, the free list the others.      *)
LEMMA UsedAreActive ==
  ASSUME PoolInv
  PROVE  /\ Active = {r \in Pool : Used(r)} /\ Free = {r \in Pool : ~Used(r)}
         /\ NULL \in Walk(links.next, links.head) /\ NULL \in Walk(links.next, links.storage)
<1>1. /\ links.next \in [Pool -> Pointers] /\ links.head \in Pointers /\ links.storage \in Pointers
      /\ NULL \in Pointers /\ NULL \notin Pool /\ Pointers = Pool \cup {NULL}
  BY DEF PoolInv, RoutesType, LinksType, Pointers, Pool, NULL
<1>2. PICK a \in Seq(Pool) : \E f \in Seq(Pool) :
        AreLists(links, a, f) /\ \A r \in Pool : IsIn(r, a) <=> Used(r)
  BY DEF PoolInv, ListsExist, ListsInv
<1>3. PICK f \in Seq(Pool) : AreLists(links, a, f) /\ \A r \in Pool : IsIn(r, a) <=> Used(r)
  BY <1>2
<1>4. IsList(links.next, links.head, a) /\ IsList(links.next, links.storage, f)
      /\ \A r \in Pool : IsIn(r, a) <=> ~IsIn(r, f)
  BY <1>3, Zenon DEF AreLists
<1>5. \A r \in Pointers : r \in Walk(links.next, links.head) <=> r = NULL \/ IsIn(r, a)
  BY <1>1, <1>4, WalkIsList, Zenon
<1>6. \A r \in Pointers : r \in Walk(links.next, links.storage) <=> r = NULL \/ IsIn(r, f)
  BY <1>1, <1>4, WalkIsList, Zenon
<1>7. \A p, q \in Pointers : \A r \in Walk(links.next, p) : r \in Pointers
  BY Zenon DEF Walk, Pointers
<1> QED BY <1>1, <1>3, <1>4, <1>5, <1>6, <1>7 DEF Active, Free

(* Find is right about every endpoint: its route, or that it has none.     *)
LEMMA FindProperties ==
  ASSUME PoolInv, NEW e \in Endpoints
  PROVE  /\ Find(e) = NULL => \A r \in Pool : Used(r) => route[r].endpoint # e
         /\ Find(e) # NULL => Find(e) \in Pool /\ Used(Find(e)) /\ route[Find(e)].endpoint = e
<1> DEFINE hits == {r \in Active : route[r].endpoint = e}
           Good(r) == hits \subseteq Walk(links.next, r)
<1>1. hits = {r \in Pool : Used(r) /\ route[r].endpoint = e}
  BY UsedAreActive
<1>2. Find(e) = IF hits = {} THEN NULL ELSE CHOOSE r \in hits : Good(r)
  BY Zenon DEF Find
<1>3. ASSUME NEW r \in hits PROVE Good(r)
  <2>1. \A s \in hits : s = r
    BY <1>1, <1>3 DEF PoolInv, EndpointsDiffer
  <2>2. r \in Walk(links.next, r)
    BY <1>1, <1>3 DEF Walk
  <2> QED BY <2>1, <2>2
<1> HIDE DEF Good
<1>4. hits # {} => (CHOOSE r \in hits : Good(r)) \in hits
  BY <1>3, Zenon
<1>5. NULL \notin Pool
  BY DEF NULL, Pool
<1> HIDE DEF hits
<1>6. CASE hits = {}
  <2>1. Find(e) = NULL
    BY <1>2, <1>6
  <2> QED BY <1>1, <1>6, <2>1
<1>7. CASE hits # {}
  <2>1. Find(e) \in hits
    BY <1>2, <1>4, <1>7
  <2> QED BY <1>1, <1>5, <2>1
<1> QED BY <1>6, <1>7

(* t is a list from first without repetition.                              *)
BecomesList(next, first, t) == t \in Seq(Pool) /\ IsList(next, first, t) /\ Distinct(t)

(* Storing a route in front of a list.                                     *)
LEMMA Pushing ==
  ASSUME NEW next, NEW after, NEW first, NEW q \in Seq(Pool), NEW r \in Pool,
         IsList(next, first, q), Distinct(q), ~IsIn(r, q),
         after[r] = first, \A i \in 1 .. Len(q) : after[q[i]] = next[q[i]]
  PROVE  /\ BecomesList(after, r, <<r>> \o q)
         /\ \A x : IsIn(x, <<r>> \o q) <=> x = r \/ IsIn(x, q)
<1> DEFINE t == <<r>> \o q
<1>1. Len(q) \in Nat /\ \A i \in 1 .. Len(q) : q[i] \in Pool
  OBVIOUS
<1>2. /\ t \in Seq(Pool) /\ Len(t) = Len(q) + 1 /\ t[1] = r
      /\ \A i \in 1 .. Len(q) : t[i + 1] = q[i]
  OBVIOUS
<1> HIDE DEF t
<1>3. t # <<>>
  BY <1>1, <1>2, EmptySeq
<1>4. ASSUME NEW i \in 1 .. Len(t)
      PROVE  i = 1 \/ (i # 1 /\ i - 1 \in 1 .. Len(q) /\ t[i] = q[i - 1])
  <2>1. CASE i # 1
    <3>1. i - 1 \in 1 .. Len(q) /\ (i - 1) + 1 = i
      BY <1>1, <1>2, <2>1
    <3> QED BY <1>2, <2>1, <3>1
  <2> QED BY <2>1
<1>5. ASSUME NEW i \in 1 .. Len(t) PROVE after[t[i]] = IF i = Len(t) THEN NULL ELSE t[i + 1]
  <2>1. CASE i = 1 /\ q = <<>>
    <3>1. Len(t) = 1
      BY <1>2, <2>1
    <3> QED BY <1>2, <2>1, <3>1 DEF IsList
  <2>2. CASE i = 1 /\ q # <<>>
    <3>1. 1 \in 1 .. Len(q) /\ Len(t) # 1
      BY <1>1, <1>2, <2>2, EmptySeq
    <3>2. t[2] = q[1] /\ first = q[1]
      <4>1. t[1 + 1] = q[1]
        BY <1>2, <3>1
      <4> QED BY <2>2, <4>1 DEF IsList
    <3> QED BY <1>2, <2>2, <3>1, <3>2
  <2>3. CASE i # 1
    <3>1. i - 1 \in 1 .. Len(q) /\ t[i] = q[i - 1]
      BY <1>4, <2>3
    <3>2. after[t[i]] = IF i - 1 = Len(q) THEN NULL ELSE q[(i - 1) + 1]
      BY <3>1 DEF IsList
    <3>3. CASE i - 1 = Len(q)
      BY <1>1, <1>2, <3>1, <3>2, <3>3
    <3>4. CASE i - 1 # Len(q)
      <4>1. (i - 1) + 1 = i /\ i \in 1 .. Len(q) /\ i # Len(t)
        BY <1>1, <1>2, <3>1, <3>4
      <4> QED BY <1>2, <3>2, <3>4, <4>1
    <3> QED BY <3>3, <3>4
  <2> QED BY <2>1, <2>2, <2>3
<1>6. IsList(after, r, t)
  BY <1>2, <1>3, <1>5 DEF IsList
<1>7. \A x : IsIn(x, t) <=> x = r \/ IsIn(x, q)
  <2>1. ASSUME NEW x, NEW i \in 1 .. Len(t), t[i] = x PROVE x = r \/ IsIn(x, q)
    BY <1>2, <1>4, <2>1 DEF IsIn
  <2>2. ASSUME NEW x, NEW i \in 1 .. Len(q), q[i] = x PROVE IsIn(x, t)
    <3>1. i + 1 \in 1 .. Len(t)
      BY <1>1, <1>2
    <3> QED BY <1>2, <2>2, <3>1 DEF IsIn
  <2>3. IsIn(r, t)
    <3>1. 1 \in 1 .. Len(t)
      BY <1>1, <1>2
    <3> QED BY <1>2, <3>1 DEF IsIn
  <2> QED BY <2>1, <2>2, <2>3 DEF IsIn
<1>8. Distinct(t)
  <2> SUFFICES ASSUME NEW i \in 1 .. Len(t), NEW j \in 1 .. Len(t), t[i] = t[j] PROVE i = j
    BY DEF Distinct
  <2>1. CASE i = 1 /\ j = 1
    BY <2>1
  <2>2. CASE i # 1 /\ j # 1
    <3>1. i - 1 \in 1 .. Len(q) /\ j - 1 \in 1 .. Len(q) /\ q[i - 1] = q[j - 1]
      BY <1>4, <2>2
    <3>2. i - 1 = j - 1
      BY <3>1 DEF Distinct
    <3> QED BY <1>1, <1>2, <3>2
  <2>3. CASE i = 1 /\ j # 1
    BY <1>2, <1>4, <2>3 DEF IsIn
  <2>4. CASE i # 1 /\ j = 1
    BY <1>2, <1>4, <2>4 DEF IsIn
  <2> QED BY <2>1, <2>2, <2>3, <2>4
<1> QED BY <1>2, <1>6, <1>7, <1>8 DEF BecomesList, t

(* Taking the first route of a list.                                       *)
LEMMA Popping ==
  ASSUME NEW next, NEW after, NEW first, NEW q \in Seq(Pool), first # NULL,
         IsList(next, first, q), Distinct(q),
         \A x \in Pool : x # first => after[x] = next[x]
  PROVE  /\ IsIn(first, q) /\ first \in Pool
         /\ BecomesList(after, next[first], Tail(q))
         /\ \A x : IsIn(x, Tail(q)) <=> x # first /\ IsIn(x, q)
<1>1. Len(q) \in Nat /\ \A i \in 1 .. Len(q) : q[i] \in Pool
  OBVIOUS
<1>2. q # <<>> /\ first = q[1]
  BY DEF IsList
<1>3. 1 \in 1 .. Len(q)
  BY <1>1, <1>2, EmptySeq
<1> DEFINE t == Tail(q)
<1>4. t \in Seq(Pool) /\ Len(t) = Len(q) - 1 /\ \A i \in 1 .. Len(t) : t[i] = q[i + 1]
  BY <1>2
<1> HIDE DEF t
<1>5. ASSUME NEW i \in 1 .. Len(t) PROVE i + 1 \in 1 .. Len(q) /\ i + 1 # 1 /\ t[i] = q[i + 1]
  BY <1>1, <1>3, <1>4
<1>6. ASSUME NEW i \in 1 .. Len(q), i # 1
      PROVE  i - 1 \in 1 .. Len(t) /\ t[i - 1] = q[i] /\ q[i] # first
  <2>1. i - 1 \in 1 .. Len(t) /\ (i - 1) + 1 = i
    BY <1>1, <1>4, <1>6
  <2>2. t[i - 1] = q[i]
    BY <1>4, <2>1
  <2>3. q[i] # q[1]
    BY <1>3, <1>6 DEF Distinct
  <2> QED BY <1>2, <2>1, <2>2, <2>3
<1>7. ASSUME NEW i \in 1 .. Len(t) PROVE after[t[i]] = IF i = Len(t) THEN NULL ELSE t[i + 1]
  <2>1. t[i] = q[i + 1] /\ i + 1 \in 1 .. Len(q) /\ q[i + 1] # first
    BY <1>5, <1>6
  <2>2. after[t[i]] = IF i + 1 = Len(q) THEN NULL ELSE q[(i + 1) + 1]
    BY <1>1, <2>1 DEF IsList
  <2>3. CASE i = Len(t)
    BY <1>1, <1>4, <2>2, <2>3
  <2>4. CASE i # Len(t)
    <3>1. i + 1 \in 1 .. Len(t) /\ i + 1 # Len(q)
      BY <1>1, <1>4, <2>4
    <3>2. t[i + 1] = q[(i + 1) + 1]
      BY <1>4, <3>1
    <3> QED BY <2>2, <2>4, <3>1, <3>2
  <2> QED BY <2>3, <2>4
<1>8. next[first] = IF t = <<>> THEN NULL ELSE t[1]
  <2>1. next[first] = IF 1 = Len(q) THEN NULL ELSE q[2]
    <3>1. next[q[1]] = IF 1 = Len(q) THEN NULL ELSE q[1 + 1]
      BY <1>3 DEF IsList
    <3> QED BY <1>2, <3>1
  <2>2. CASE Len(q) = 1
    <3>1. t = <<>>
      BY <1>4, <2>2, EmptySeq
    <3> QED BY <2>1, <2>2, <3>1
  <2>3. CASE Len(q) # 1
    <3>1. 2 \in 1 .. Len(q) /\ 1 \in 1 .. Len(t)
      BY <1>1, <1>3, <1>4, <2>3
    <3>2. t[1] = q[1 + 1]
      BY <1>4, <3>1
    <3>3. t # <<>>
      BY <3>1, EmptySeq
    <3> QED BY <2>1, <2>3, <3>2, <3>3
  <2> QED BY <2>2, <2>3
<1>9. IsList(after, next[first], t)
  BY <1>7, <1>8 DEF IsList
<1>10. Distinct(t)
  <2> SUFFICES ASSUME NEW i \in 1 .. Len(t), NEW j \in 1 .. Len(t), t[i] = t[j] PROVE i = j
    BY DEF Distinct
  <2>1. i + 1 = j + 1
    BY <1>5 DEF Distinct
  <2> QED BY <1>1, <1>4, <2>1
<1>11. \A x : IsIn(x, t) <=> x # first /\ IsIn(x, q)
  <2>1. ASSUME NEW x, NEW i \in 1 .. Len(t), t[i] = x PROVE x # first /\ IsIn(x, q)
    BY <1>5, <1>6, <2>1 DEF IsIn
  <2>2. ASSUME NEW x, NEW i \in 1 .. Len(q), q[i] = x, x # first PROVE IsIn(x, t)
    BY <1>2, <1>6, <2>2 DEF IsIn
  <2> QED BY <2>1, <2>2 DEF IsIn
<1> QED BY <1>1, <1>2, <1>3, <1>4, <1>9, <1>10, <1>11 DEF BecomesList, IsIn, t

(* Unlinking a route from anywhere in a list.                              *)
LEMMA Removing ==
  ASSUME NEW next, NEW after, NEW first, NEW q \in Seq(Pool), NEW k \in 1 .. Len(q), NEW r, r = q[k],
         IsList(next, first, q), Distinct(q),
         \A x \in Pool : x # r => after[x] = IF next[x] = r THEN next[r] ELSE next[x]
  PROVE  /\ BecomesList(after, IF first = r THEN next[r] ELSE first, RemoveAt(q, k))
         /\ \A x : IsIn(x, RemoveAt(q, k)) <=> x # r /\ IsIn(x, q)
<1>1. Len(q) \in Nat /\ (\A i \in 1 .. Len(q) : q[i] \in Pool) /\ NULL \notin Pool
  <2>1. NULL \notin Pool
    BY DEF Pool, NULL
  <2> QED BY <2>1
<1> DEFINE t == RemoveAt(q, k)
<1>2. /\ t \in Seq(Pool) /\ Len(t) = Len(q) - 1
      /\ \A j \in 1 .. Len(q) - 1 : t[j] = IF j < k THEN q[j] ELSE q[j + 1]
  BY RemoveAtProperties
<1> HIDE DEF t
<1>3. ASSUME NEW i \in 1 .. Len(q) PROVE /\ next[q[i]] = IF i = Len(q) THEN NULL ELSE q[i + 1]
                                         /\ q[i] = r <=> i = k
  BY DEF IsList, Distinct
<1>4. ASSUME NEW i \in 1 .. Len(q), i # k
      PROVE  after[q[i]] = IF i + 1 = k THEN next[r] ELSE IF i = Len(q) THEN NULL ELSE q[i + 1]
  <2>1. after[q[i]] = IF next[q[i]] = r THEN next[r] ELSE next[q[i]]
    BY <1>1, <1>3, <1>4
  <2>2. CASE i = Len(q)
    BY <1>1, <1>3, <2>1, <2>2
  <2>3. CASE i # Len(q)
    <3>1. i + 1 \in 1 .. Len(q)
      BY <1>1, <2>3
    <3>2. next[q[i]] = q[i + 1] /\ (q[i + 1] = r <=> i + 1 = k)
      BY <1>3, <2>3, <3>1
    <3> QED BY <2>1, <2>3, <3>2
  <2> QED BY <2>2, <2>3
<1>5. ASSUME NEW j \in 1 .. Len(t) PROVE after[t[j]] = IF j = Len(t) THEN NULL ELSE t[j + 1]
  <2>1. CASE j + 1 < k
    <3>1. /\ j \in 1 .. Len(q) /\ j # k /\ j + 1 # k /\ j # Len(q) /\ j + 1 \in 1 .. Len(q) - 1
          /\ j \in 1 .. Len(q) - 1 /\ j < k
      BY <1>1, <1>2, <2>1
    <3>2. t[j] = q[j] /\ t[j + 1] = q[j + 1]
      BY <1>2, <2>1, <3>1
    <3>3. j # Len(t)
      BY <1>1, <1>2, <2>1
    <3> QED BY <1>4, <3>1, <3>2, <3>3
  <2>2. CASE j + 1 = k
    <3>1. j \in 1 .. Len(q) /\ j # k /\ j \in 1 .. Len(q) - 1 /\ j < k
      BY <1>1, <1>2, <2>2
    <3>2. t[j] = q[j] /\ after[t[j]] = next[r]
      BY <1>2, <1>4, <2>2, <3>1
    <3>3. next[r] = IF k = Len(q) THEN NULL ELSE q[k + 1]
      BY <1>3
    <3>4. CASE k = Len(q)
      BY <1>2, <2>2, <3>2, <3>3, <3>4
    <3>5. CASE k # Len(q)
      <4>1. k \in 1 .. Len(q) - 1 /\ ~ (k < k) /\ j # Len(t)
        BY <1>1, <1>2, <2>2, <3>5
      <4>2. t[k] = q[k + 1]
        BY <1>2, <4>1
      <4> QED BY <2>2, <3>2, <3>3, <3>5, <4>1, <4>2
    <3> QED BY <3>4, <3>5
  <2>3. CASE ~ (j < k)
    <3>1. /\ j + 1 \in 1 .. Len(q) /\ j + 1 # k /\ (j + 1) + 1 # k /\ j \in 1 .. Len(q) - 1
      BY <1>1, <1>2, <2>3
    <3>2. t[j] = q[j + 1]
      BY <1>2, <2>3, <3>1
    <3>3. after[t[j]] = IF j + 1 = Len(q) THEN NULL ELSE q[(j + 1) + 1]
      BY <1>4, <3>1, <3>2
    <3>4. CASE j + 1 = Len(q)
      BY <1>1, <1>2, <3>3, <3>4
    <3>5. CASE j + 1 # Len(q)
      <4>1. j + 1 \in 1 .. Len(q) - 1 /\ ~ (j + 1 < k) /\ j # Len(t)
        BY <1>1, <1>2, <2>3, <3>5
      <4>2. t[j + 1] = q[(j + 1) + 1]
        BY <1>2, <4>1
      <4> QED BY <3>3, <3>5, <4>1, <4>2
    <3> QED BY <3>4, <3>5
  <2>4. j + 1 < k \/ j + 1 = k \/ ~ (j < k)
    BY <1>1, <1>2
  <2> QED BY <2>1, <2>2, <2>3, <2>4
<1>6. (IF first = r THEN next[r] ELSE first) = IF t = <<>> THEN NULL ELSE t[1]
  <2>1. q # <<>> /\ first = q[1] /\ 1 \in 1 .. Len(q)
    BY <1>1, EmptySeq DEF IsList
  <2>2. t = <<>> <=> Len(q) = 1
    BY <1>1, <1>2, EmptySeq
  <2>3. CASE Len(q) = 1
    <3>1. k = 1 /\ first = r /\ next[r] = NULL
      BY <1>3, <2>1, <2>3
    <3> QED BY <2>2, <2>3, <3>1
  <2>4. CASE Len(q) # 1 /\ k = 1
    <3>1. first = r /\ next[r] = q[1 + 1]
      BY <1>3, <2>1, <2>4
    <3>2. 1 \in 1 .. Len(q) - 1 /\ ~ (1 < k)
      <4>1. Len(q) \in Nat /\ 1 \in 1 .. Len(q) /\ Len(q) # 1
        BY <1>1, <2>1, <2>4
      <4>2. \A n \in Nat : 1 \in 1 .. n /\ n # 1 => 1 \in 1 .. n - 1
        OBVIOUS
      <4>3. 1 \in 1 .. Len(q) - 1
        BY <4>1, <4>2
      <4> QED BY <2>4, <4>3
    <3>3. t[1] = q[1 + 1]
      BY <1>2, <3>2
    <3> QED BY <2>2, <2>4, <3>1, <3>3
  <2>5. CASE Len(q) # 1 /\ k # 1
    <3>1. first # r
      BY <1>3, <2>1, <2>5
    <3>2. 1 \in 1 .. Len(q) - 1 /\ 1 < k
      BY <1>1, <2>1, <2>5
    <3>3. t[1] = q[1]
      BY <1>2, <3>2
    <3> QED BY <2>1, <2>2, <2>5, <3>1, <3>3
  <2> QED BY <2>3, <2>4, <2>5
<1>7. IsList(after, IF first = r THEN next[r] ELSE first, t)
  BY <1>5, <1>6 DEF IsList
<1>8. ASSUME NEW j \in 1 .. Len(t)
      PROVE  \E i \in 1 .. Len(q) : t[j] = q[i] /\ i # k /\ i = IF j < k THEN j ELSE j + 1
  <2>1. j \in 1 .. Len(q) - 1 /\ j \in 1 .. Len(q) /\ j + 1 \in 1 .. Len(q)
    BY <1>1, <1>2
  <2>2. CASE j < k
    BY <1>2, <2>1, <2>2
  <2>3. CASE ~ (j < k)
    <3>1. j + 1 # k
      BY <2>1, <2>3
    <3> QED BY <1>2, <2>1, <2>3, <3>1
  <2> QED BY <2>2, <2>3
<1>9. Distinct(t)
  <2> SUFFICES ASSUME NEW i \in 1 .. Len(t), NEW j \in 1 .. Len(t), t[i] = t[j] PROVE i = j
    BY DEF Distinct
  <2>1. PICK x \in 1 .. Len(q) : t[i] = q[x] /\ x # k /\ x = IF i < k THEN i ELSE i + 1
    BY <1>8
  <2>2. PICK y \in 1 .. Len(q) : t[j] = q[y] /\ y # k /\ y = IF j < k THEN j ELSE j + 1
    BY <1>8
  <2>3. x = y
    BY <2>1, <2>2 DEF Distinct
  <2> QED BY <1>1, <1>2, <2>1, <2>2, <2>3
<1>10. \A x : IsIn(x, t) <=> x # r /\ IsIn(x, q)
  <2>1. ASSUME NEW x, NEW j \in 1 .. Len(t), t[j] = x PROVE x # r /\ IsIn(x, q)
    BY <1>3, <1>8, <2>1 DEF IsIn
  <2>2. ASSUME NEW x, NEW i \in 1 .. Len(q), q[i] = x, x # r PROVE IsIn(x, t)
    <3>1. CASE i < k
      <4>1. i \in 1 .. Len(q) - 1 /\ i \in 1 .. Len(t)
        BY <1>1, <1>2, <3>1
      <4> QED BY <1>2, <2>2, <3>1, <4>1 DEF IsIn
    <3>2. CASE ~ (i < k)
      <4>1. i # k
        BY <2>2
      <4>2. i - 1 \in 1 .. Len(q) - 1 /\ i - 1 \in 1 .. Len(t) /\ ~ (i - 1 < k) /\ (i - 1) + 1 = i
        BY <1>1, <1>2, <3>2, <4>1
      <4>3. t[i - 1] = q[i]
        BY <1>2, <4>2
      <4> QED BY <2>2, <4>2, <4>3 DEF IsIn
    <3> QED BY <3>1, <3>2
  <2> QED BY <2>1, <2>2 DEF IsIn
<1> QED BY <1>2, <1>7, <1>9, <1>10 DEF BecomesList, t

(* Add moves the first free route to the front of the active list.         *)
LEMMA AddLists ==
  ASSUME NEW l \in LinksType, NEW a \in Seq(Pool), NEW f \in Seq(Pool), AreLists(l, a, f),
         l.storage # NULL
  PROVE  /\ Add(l) \in LinksType /\ l.storage \in Pool /\ ~IsIn(l.storage, a)
         /\ \E b, g \in Seq(Pool) : /\ AreLists(Add(l), b, g)
                                    /\ \A r \in Pool : IsIn(r, b) <=> r = l.storage \/ IsIn(r, a)
<1>1. IsList(l.next, l.head, a) /\ IsList(l.next, l.storage, f) /\ Distinct(a) /\ Distinct(f)
      /\ \A r \in Pool : IsIn(r, a) <=> ~IsIn(r, f)
  BY Zenon DEF AreLists
<1> DEFINE r == l.storage
           after == [l.next EXCEPT ![r] = l.head]
<1>2. r \in Pool /\ l.next \in [Pool -> Pointers] /\ l.head \in Pointers
  BY DEF LinksType, Pointers
<1>3. Add(l) = [head |-> r, storage |-> l.next[r], next |-> after]
  BY DEF Add
<1>4. after[r] = l.head /\ \A x \in Pool : x # r => after[x] = l.next[x]
  BY <1>2
<1>5. Add(l) \in LinksType
  <2>1. after \in [Pool -> Pointers] /\ l.next[r] \in Pointers /\ r \in Pointers
    BY <1>2 DEF Pointers
  <2> QED BY <1>3, <2>1 DEF LinksType
<1> HIDE DEF r, after
<1>6. IsList(l.next, r, f) /\ r # NULL
  BY <1>1 DEF r
<1>7. /\ IsIn(r, f) /\ BecomesList(after, l.next[r], Tail(f))
      /\ \A x : IsIn(x, Tail(f)) <=> x # r /\ IsIn(x, f)
  BY <1>1, <1>4, <1>6, Popping
<1>8. ~IsIn(r, a)
  BY <1>1, <1>2, <1>7
<1>9. \A i \in 1 .. Len(a) : after[a[i]] = l.next[a[i]]
  <2>1. \A i \in 1 .. Len(a) : a[i] \in Pool
    OBVIOUS
  <2>2. \A i \in 1 .. Len(a) : a[i] # r
    BY <1>8 DEF IsIn
  <2> QED BY <1>4, <2>1, <2>2
<1>10. /\ BecomesList(after, r, <<r>> \o a)
       /\ \A x : IsIn(x, <<r>> \o a) <=> x = r \/ IsIn(x, a)
  <2>1. IsList(l.next, l.head, a) /\ Distinct(a) /\ after[r] = l.head
    BY Zenon, <1>1, <1>4
  <2> QED BY <1>2, <1>8, <1>9, <2>1, Pushing
<1>11. AreLists(Add(l), <<r>> \o a, Tail(f))
  <2>1. Add(l).next = after /\ Add(l).head = r /\ Add(l).storage = l.next[r]
    BY <1>3
  <2>2. \A x \in Pool : IsIn(x, <<r>> \o a) <=> ~IsIn(x, Tail(f))
    BY <1>1, <1>7, <1>10
  <2> QED BY <1>7, <1>10, <2>1, <2>2, Zenon DEF AreLists, BecomesList
<1>12. <<r>> \o a \in Seq(Pool) /\ Tail(f) \in Seq(Pool)
  BY <1>7, <1>10 DEF BecomesList
<1> QED BY <1>2, <1>5, <1>8, <1>10, <1>11, <1>12, Zenon DEF r

(* Erase moves a route from anywhere in the active list to the front of    *)
(* the free list.                                                          *)
LEMMA EraseLists ==
  ASSUME NEW l \in LinksType, NEW a \in Seq(Pool), NEW f \in Seq(Pool), AreLists(l, a, f),
         NEW r \in Pool, IsIn(r, a)
  PROVE  /\ Erase(l, r) \in LinksType
         /\ \E b, g \in Seq(Pool) : /\ AreLists(Erase(l, r), b, g)
                                    /\ \A x \in Pool : IsIn(x, b) <=> x # r /\ IsIn(x, a)
<1>1. IsList(l.next, l.head, a) /\ IsList(l.next, l.storage, f) /\ Distinct(a) /\ Distinct(f)
      /\ \A x \in Pool : IsIn(x, a) <=> ~IsIn(x, f)
  BY Zenon DEF AreLists
<1> DEFINE after == [p \in Pool |-> CASE p = r -> l.storage
                                      [] p # r /\ l.next[p] = r -> l.next[r]
                                      [] OTHER -> l.next[p]]
           first == IF l.head = r THEN l.next[r] ELSE l.head
<1>2. l.next \in [Pool -> Pointers] /\ l.head \in Pointers /\ l.storage \in Pointers /\ r \in Pointers
  BY DEF LinksType, Pointers
<1>3. Erase(l, r) = [head |-> first, storage |-> r, next |-> after]
  <2>1. Erase(l, r) = [l EXCEPT !.head = first, !.next = after, !.storage = r]
    BY Zenon DEF Erase
  <2>2. l = [head |-> l.head, storage |-> l.storage, next |-> l.next]
    BY DEF LinksType
  <2> HIDE DEF first, after
  <2> QED BY <2>1, <2>2
<1>4. /\ after[r] = l.storage
      /\ \A x \in Pool : x # r => after[x] = IF l.next[x] = r THEN l.next[r] ELSE l.next[x]
  OBVIOUS
<1>5. Erase(l, r) \in LinksType
  <2>1. after \in [Pool -> Pointers]
    BY <1>2
  <2>2. first \in Pointers
    BY <1>2
  <2> HIDE DEF after, first
  <2> QED BY <1>2, <1>3, <2>1, <2>2 DEF LinksType
<1>6. PICK k \in 1 .. Len(a) : a[k] = r
  BY DEF IsIn
<1> HIDE DEF after
<1>7. /\ BecomesList(after, first, RemoveAt(a, k))
      /\ \A x : IsIn(x, RemoveAt(a, k)) <=> x # r /\ IsIn(x, a)
  BY <1>1, <1>4, <1>6, Removing
<1> HIDE DEF first
<1>8. ~IsIn(r, f)
  BY <1>1
<1>9. \A i \in 1 .. Len(f) : after[f[i]] = l.next[f[i]]
  <2> SUFFICES ASSUME NEW i \in 1 .. Len(f) PROVE after[f[i]] = l.next[f[i]]
    OBVIOUS
  <2>1. f[i] \in Pool /\ f[i] # r
    <3>1. f[i] # r
      BY <1>8 DEF IsIn
    <3> QED BY <3>1
  <2>2. l.next[f[i]] # r
    <3>1. l.next[f[i]] = IF i = Len(f) THEN NULL ELSE f[i + 1]
      BY <1>1 DEF IsList
    <3>2. CASE i = Len(f)
      <4>1. r # NULL
        BY DEF Pool, NULL
      <4> QED BY <3>1, <3>2, <4>1
    <3>3. CASE i # Len(f)
      <4>1. i + 1 \in 1 .. Len(f)
        BY <3>3
      <4>2. f[i + 1] # r
        BY <1>8, <4>1 DEF IsIn
      <4> QED BY <3>1, <3>3, <4>2
    <3> QED BY <3>2, <3>3
  <2> QED BY <1>4, <2>1, <2>2
<1>10. /\ BecomesList(after, r, <<r>> \o f)
       /\ \A x : IsIn(x, <<r>> \o f) <=> x = r \/ IsIn(x, f)
  BY <1>1, <1>4, <1>8, <1>9, Pushing
<1>11. AreLists(Erase(l, r), RemoveAt(a, k), <<r>> \o f)
  <2>1. Erase(l, r).next = after /\ Erase(l, r).head = first /\ Erase(l, r).storage = r
    BY <1>3
  <2>2. \A x \in Pool : IsIn(x, RemoveAt(a, k)) <=> ~IsIn(x, <<r>> \o f)
    BY <1>1, <1>7, <1>10
  <2> QED BY <1>7, <1>10, <2>1, <2>2, Zenon DEF AreLists, BecomesList
<1>12. RemoveAt(a, k) \in Seq(Pool) /\ <<r>> \o f \in Seq(Pool)
  BY <1>7, <1>10 DEF BecomesList
<1> QED BY <1>5, <1>7, <1>11, <1>12, Zenon

------------------------------------------------------------------------------
IsKept(k, gone, N) ==
  k = [n \in 0 .. N |->
         IF n = 0 THEN <<>>
         ELSE IF connections[n].route \in gone THEN k[n - 1] ELSE Append(k[n - 1], connections[n])]

(* The recursive function in Kept exists.                                  *)
LEMMA KeptExists ==
  ASSUME NEW gone, NEW N \in Nat
  PROVE  \E k : IsKept(k, gone, N)
<1> DEFINE Step(k, n) ==
             IF connections[n].route \in gone THEN k[n - 1] ELSE Append(k[n - 1], connections[n])
           T == {m \in Nat : \E k : IsKept(k, gone, m)}
<1>1. 0 \in T
  <2>1. IsKept([n \in 0 .. 0 |-> <<>>], gone, 0)
    BY DEF IsKept
  <2> QED BY <2>1
<1>2. ASSUME NEW m \in Nat, m \in T PROVE m + 1 \in T
  <2>1. PICK k : IsKept(k, gone, m)
    BY <1>2
  <2> DEFINE g == [n \in 0 .. m + 1 |-> IF n = m + 1 THEN Step(k, n) ELSE k[n]]
             h == [n \in 0 .. m + 1 |-> IF n = 0 THEN <<>> ELSE Step(g, n)]
  <2>2. \A n \in 0 .. m : k[n] = IF n = 0 THEN <<>> ELSE Step(k, n)
    BY <2>1 DEF IsKept
  <2>3. /\ \A n \in 0 .. m : n \in 0 .. m + 1 /\ n # m + 1
        /\ \A n \in 0 .. m + 1 : n = m + 1 \/ n \in 0 .. m
        /\ \A n \in 0 .. m + 1 : n # 0 => n - 1 \in 0 .. m
        /\ m + 1 \in 0 .. m + 1 /\ m + 1 # 0
    OBVIOUS
  <2>4. \A n \in 0 .. m : g[n] = k[n]
    BY <2>3
  <2>5. g[m + 1] = Step(k, m + 1)
    BY <2>3
  <2>6. g = [n \in 0 .. m + 1 |-> g[n]]
    OBVIOUS
  <2> HIDE DEF g
  <2>7. \A n \in 0 .. m + 1 : n # 0 => Step(g, n) = Step(k, n)
    BY <2>3, <2>4
  <2>8. \A n \in 0 .. m + 1 : g[n] = IF n = 0 THEN <<>> ELSE Step(g, n)
    <3> HIDE DEF Step
    <3> QED BY <2>2, <2>3, <2>4, <2>5, <2>7
  <2>9. IsKept(g, gone, m + 1)
    BY <2>6, <2>8 DEF IsKept
  <2> QED BY <2>9
<1> HIDE DEF T
<1>3. N \in T
  BY <1>1, <1>2, SetInduction
<1> QED BY <1>3 DEF T

(* The connections that remain are some of those there were, each once.    *)
LEMMA KeptProperties ==
  ASSUME connections \in Seq(ConnectionType), RoutesDiffer(connections), NEW gone
  PROVE  /\ Kept(gone) \in Seq(ConnectionType) /\ RoutesDiffer(Kept(gone))
         /\ \A i \in 1 .. Len(Kept(gone)) : \E j \in 1 .. Len(connections) :
              Kept(gone)[i] = connections[j] /\ connections[j].route \notin gone
<1> DEFINE N == Len(connections)
           kept == CHOOSE k : IsKept(k, gone, N)
           Some(t, n) == \A i \in 1 .. Len(t) : \E j \in 1 .. n :
                           t[i] = connections[j] /\ connections[j].route \notin gone
           Good(t, n) == t \in Seq(ConnectionType) /\ RoutesDiffer(t) /\ Some(t, n)
           T == {n \in Nat : n \in 0 .. N => Good(kept[n], n)}
<1>1. N \in Nat /\ \A n \in 1 .. N : connections[n] \in ConnectionType
  OBVIOUS
<1>2. Kept(gone) = kept[N]
  BY Zenon DEF Kept, IsKept
<1>3. IsKept(kept, gone, N)
  BY <1>1, KeptExists, Zenon
<1> HIDE DEF kept
<1>4. /\ kept[0] = <<>>
      /\ \A n \in 0 .. N : n # 0 =>
           kept[n] =
             IF connections[n].route \in gone THEN kept[n - 1] ELSE Append(kept[n - 1], connections[n])
  <2>1. 0 \in 0 .. N
    BY <1>1
  <2> QED BY <1>3, <2>1 DEF IsKept
<1>5. 0 \in T
  <2>1. <<>> \in Seq(ConnectionType) /\ \A i \in 1 .. Len(<<>>) : FALSE
    OBVIOUS
  <2>2. Good(<<>>, 0)
    BY <2>1 DEF RoutesDiffer
  <2> HIDE DEF Good
  <2> QED BY <1>4, <2>2
<1>6. ASSUME NEW n \in Nat, n \in T PROVE n + 1 \in T
  <2> SUFFICES ASSUME n + 1 \in 0 .. N PROVE Good(kept[n + 1], n + 1)
    OBVIOUS
  <2> DEFINE t == kept[n]
             c == connections[n + 1]
  <2>1. n \in 0 .. N /\ n + 1 \in 1 .. N /\ (n + 1) - 1 = n /\ n + 1 # 0
    BY <1>1
  <2>2. Good(t, n) /\ c \in ConnectionType
    BY <1>1, <1>6, <2>1
  <2>3. kept[n + 1] = IF c.route \in gone THEN t ELSE Append(t, c)
    BY <1>4, <2>1
  <2> HIDE DEF t, c
  <2>4. Some(t, n + 1)
    BY <2>1, <2>2
  <2>5. CASE c.route \in gone
    BY <2>2, <2>3, <2>4, <2>5
  <2>6. CASE c.route \notin gone
    <3> DEFINE u == Append(t, c)
    <3>1. /\ u \in Seq(ConnectionType) /\ Len(u) = Len(t) + 1 /\ u[Len(t) + 1] = c /\ Len(t) \in Nat
          /\ \A i \in 1 .. Len(t) : u[i] = t[i]
      BY <2>2
    <3> HIDE DEF u
    <3>2. \A i \in 1 .. Len(u) : i = Len(t) + 1 \/ i \in 1 .. Len(t)
      BY <3>1
    <3>3. Some(u, n + 1)
      BY <2>1, <2>4, <2>6, <3>1, <3>2 DEF c
    <3>4. \A i \in 1 .. Len(t) : t[i].route # c.route
      <4>1. ASSUME NEW i \in 1 .. Len(t), t[i].route = c.route PROVE FALSE
        <5>1. PICK j \in 1 .. n : t[i] = connections[j]
          BY <2>2
        <5>2. j \in 1 .. N /\ j # n + 1
          BY <1>1, <2>1
        <5> QED BY <2>1, <4>1, <5>1, <5>2 DEF RoutesDiffer, c
      <4> QED BY <4>1
    <3>5. RoutesDiffer(u)
      <4> SUFFICES ASSUME NEW i \in 1 .. Len(u), NEW j \in 1 .. Len(u), u[i].route = u[j].route
                   PROVE  i = j
        BY DEF RoutesDiffer
      <4>1. CASE i \in 1 .. Len(t) /\ j \in 1 .. Len(t)
        BY <2>2, <3>1, <4>1 DEF RoutesDiffer
      <4>2. CASE i = Len(t) + 1 /\ j \in 1 .. Len(t)
        BY <3>1, <3>4, <4>2
      <4>3. CASE j = Len(t) + 1 /\ i \in 1 .. Len(t)
        BY <3>1, <3>4, <4>3
      <4> QED BY <3>2, <4>1, <4>2, <4>3
    <3>6. Good(u, n + 1)
      BY <3>1, <3>3, <3>5
    <3> HIDE DEF Good
    <3> QED BY <2>3, <2>6, <3>6 DEF u
  <2> QED BY <2>5, <2>6
<1> HIDE DEF T
<1>7. N \in T
  BY <1>1, <1>5, <1>6, SetInduction
<1>8. Good(kept[N], N)
  BY <1>1, <1>7 DEF T
<1> QED BY <1>2, <1>8

------------------------------------------------------------------------------
(* What a step of the pool does, for the invariant.                        *)

(* All routes are free at first.                                           *)
LEMMA RoutesInit == Init => RoutesInv
<1> SUFFICES ASSUME Init PROVE RoutesInv
  OBVIOUS
<1>1. PoolSize \in Nat /\ 1 <= PoolSize
  BY RoutesAssumption
<1>2. RoutesType
  <2>1. links \in LinksType
    <3> DEFINE next == [r \in Pool |-> IF r = PoolSize THEN NULL ELSE r + 1]
    <3>1. next \in [Pool -> Pointers]
      BY <1>1 DEF Pool, Pointers
    <3>2. 1 \in Pointers /\ NULL \in Pointers
      BY <1>1 DEF Pool, Pointers
    <3>3. links = [head |-> NULL, storage |-> 1, next |-> next]
      BY DEF Init
    <3> HIDE DEF next
    <3> QED BY <3>1, <3>2, <3>3 DEF LinksType
  <2>2. route \in [Pool -> RouteType]
    <3>1. Blank \in RouteType
      BY DEF Blank, RouteType, States
    <3> QED BY <3>1 DEF Init
  <2> QED BY <2>1, <2>2 DEF Init, RoutesType, Pointers
<1>3. ListsExist
  <2> DEFINE f == [i \in 1 .. PoolSize |-> i]
  <2>1. f \in Seq(Pool) /\ Len(f) = PoolSize /\ \A i \in 1 .. PoolSize : f[i] = i
    BY <1>1 DEF Pool
  <2>2. <<>> \in Seq(Pool) /\ \A i \in 1 .. Len(<<>>) : FALSE
    OBVIOUS
  <2> HIDE DEF f
  <2>3. f # <<>> /\ 1 \in Pool
    BY <1>1, <2>1 DEF Pool
  <2>4. links = [head |-> NULL, storage |-> 1,
                 next |-> [r \in Pool |-> IF r = PoolSize THEN NULL ELSE r + 1]]
    BY DEF Init
  <2>5. IsList(links.next, links.storage, f)
    <3>1. ASSUME NEW i \in 1 .. Len(f)
          PROVE  links.next[f[i]] = IF i = Len(f) THEN NULL ELSE f[i + 1]
      <4>1. f[i] = i /\ i \in Pool
        BY <2>1 DEF Pool
      <4>2. links.next[i] = IF i = PoolSize THEN NULL ELSE i + 1
        BY <2>4, <4>1
      <4>3. CASE i = PoolSize
        BY <2>1, <4>1, <4>2, <4>3
      <4>4. CASE i # PoolSize
        <5>1. i + 1 \in 1 .. PoolSize
          BY <1>1, <2>1, <4>4
        <5> QED BY <2>1, <4>1, <4>2, <4>4, <5>1
      <4> QED BY <4>3, <4>4
    <3>2. links.storage = f[1]
      BY <1>1, <2>1, <2>4
    <3> QED BY <2>3, <3>1, <3>2 DEF IsList
  <2>6. IsList(links.next, links.head, <<>>)
    BY <2>2, <2>4 DEF IsList
  <2>7. \A r : ~IsIn(r, <<>>)
    BY <2>2 DEF IsIn
  <2>8. \A r \in Pool : IsIn(r, f)
    BY <2>1 DEF IsIn, Pool
  <2>9. Distinct(f) /\ Distinct(<<>>)
    BY <2>1, <2>2 DEF Distinct
  <2>10. AreLists(links, <<>>, f)
    BY <2>5, <2>6, <2>7, <2>8, <2>9, Zenon DEF AreLists
  <2>11. \A r \in Pool : ~Used(r)
    BY DEF Init, Blank, Used
  <2> QED BY <2>1, <2>2, <2>7, <2>10, <2>11, Zenon DEF ListsExist, ListsInv
<1>4. EndpointsDiffer
  BY DEF Init, Blank, Used, EndpointsDiffer
<1>5. MessagesInv /\ ConnectionsInv
  BY DEF Init, MessagesInv, ConnectionsInv, RoutesDiffer
<1> QED BY <1>2, <1>3, <1>4, <1>5 DEF RoutesInv, PoolInv

(* What messages and connections point to are routes.                      *)
LEMMA PointersKnown ==
  ASSUME RoutesType
  PROVE  /\ \A i \in 1 .. Len(controlQueue) : controlQueue[i].route \in Pool
         /\ \A i \in 1 .. Len(batch) : batch[i].route \in Pool
         /\ \A i \in 1 .. Len(connections) : connections[i].route \in Pool
<1>1. /\ \A i \in 1 .. Len(controlQueue) : controlQueue[i] \in MessageType
      /\ \A i \in 1 .. Len(batch) : batch[i] \in MessageType
      /\ \A i \in 1 .. Len(connections) : connections[i] \in ConnectionType
  BY DEF RoutesType
<1>2. (\A m \in MessageType : m.route \in Pool) /\ \A c \in ConnectionType : c.route \in Pool
  BY DEF MessageType, ConnectionType
<1> QED BY <1>1, <1>2

(* What the lists have to follow when routes change their state.           *)
LEMMA ListsFollow ==
  ASSUME ListsExist, links' = links, \A r \in Pool : Used(r)' <=> Used(r)
  PROVE  ListsExist'
<1>1. PICK a \in Seq(Pool) : \E f \in Seq(Pool) :
        AreLists(links, a, f) /\ \A r \in Pool : IsIn(r, a) <=> Used(r)
  BY DEF ListsExist, ListsInv
<1>2. PICK f \in Seq(Pool) : AreLists(links, a, f) /\ \A r \in Pool : IsIn(r, a) <=> Used(r)
  BY <1>1
<1>3. AreLists(links', a, f) /\ \A r \in Pool : IsIn(r, a) <=> Used(r)'
  BY <1>2
<1> QED BY <1>3 DEF ListsExist, ListsInv

(* A hello takes a free route.                                             *)
LEMMA ListenStep == ASSUME RoutesInv, NEW e \in Endpoints, ServerListen(e) PROVE RoutesInv'
<1>1. RoutesType /\ ListsExist /\ EndpointsDiffer /\ PoolInv /\ MessagesInv /\ ConnectionsInv
  BY DEF RoutesInv, PoolInv
<1>0. PICK new : new = links.storage
  OBVIOUS
<1> DEFINE accepted == [state |-> "SERVER_ACCEPT", endpoint |-> e, age |-> "fresh"]
<1>2. PICK a \in Seq(Pool) : \E f \in Seq(Pool) :
        AreLists(links, a, f) /\ \A r \in Pool : IsIn(r, a) <=> Used(r)
  BY <1>1 DEF ListsExist, ListsInv
<1>3. PICK f \in Seq(Pool) : AreLists(links, a, f) /\ \A r \in Pool : IsIn(r, a) <=> Used(r)
  BY <1>2
<1>4. links \in LinksType /\ links.storage # NULL /\ links' = Add(links)
  BY <1>1 DEF RoutesType, ServerListen
<1>5. /\ Add(links) \in LinksType /\ new \in Pool /\ ~IsIn(new, a)
      /\ \E b, g \in Seq(Pool) : /\ AreLists(Add(links), b, g)
                                 /\ \A r \in Pool : IsIn(r, b) <=> r = new \/ IsIn(r, a)
  BY <1>0, <1>3, <1>4, AddLists
<1>6. route' = [route EXCEPT ![new] = accepted] /\ route \in [Pool -> RouteType]
  BY <1>0, <1>1 DEF RoutesType, ServerListen
<1>7. route'[new] = accepted /\ \A r \in Pool : r # new => route'[r] = route[r]
  BY <1>5, <1>6
<1>8. ~Used(new) /\ Used(new)' /\ \A r \in Pool : r # new => (Used(r)' <=> Used(r))
  <2>1. ~Used(new)
    BY <1>3, <1>5, Zenon
  <2>2. Used(new)'
    BY <1>7 DEF Used
  <2>3. \A r \in Pool : r # new => (Used(r)' <=> Used(r))
    BY <1>7 DEF Used
  <2> QED BY <2>1, <2>2, <2>3
<1>9. UNCHANGED <<sweep, controlQueue, batch, connections>>
  BY DEF ServerListen, gameVars
<1>10. RoutesType'
  <2>1. accepted \in RouteType
    BY DEF RouteType, States
  <2>2. route' \in [Pool -> RouteType]
    BY <1>5, <1>6, <2>1
  <2> QED BY <1>1, <1>4, <1>5, <1>9, <2>2 DEF RoutesType
<1>11. ListsExist'
  <2>1. PICK b \in Seq(Pool) : \E g \in Seq(Pool) :
          /\ AreLists(Add(links), b, g)
          /\ \A r \in Pool : IsIn(r, b) <=> r = new \/ IsIn(r, a)
    BY <1>5
  <2>2. PICK g \in Seq(Pool) :
          /\ AreLists(Add(links), b, g)
          /\ \A r \in Pool : IsIn(r, b) <=> r = new \/ IsIn(r, a)
    BY <2>1
  <2>3. \A r \in Pool : IsIn(r, b) <=> Used(r)'
    <3>1. ASSUME NEW r \in Pool PROVE IsIn(r, b) <=> Used(r)'
      <4>1. CASE r = new
        BY <1>8, <2>2, <4>1, Zenon
      <4>2. CASE r # new
        BY <1>3, <1>8, <2>2, <4>2, Zenon
      <4> QED BY <4>1, <4>2
    <3> QED BY <3>1
  <2>4. AreLists(links', b, g)
    BY <1>4, <2>2
  <2> QED BY <2>3, <2>4 DEF ListsExist, ListsInv
<1>12. EndpointsDiffer'
  <2>1. \A r \in Pool : Used(r) => route[r].endpoint # e
    BY <1>1, FindProperties DEF ServerListen
  <2> QED BY <1>1, <1>7, <1>8, <2>1 DEF EndpointsDiffer
<1>13. MessagesInv' /\ ConnectionsInv'
  <2>1. \A r \in Pool : route[r].state = "ESTABLISHED" => route'[r] = route[r]
    BY <1>7, <1>8 DEF Used
  <2>2. \A r \in Pool : route'[r].state = "ESTABLISHED" => route'[r] = route[r]
    BY <1>7
  <2>3. /\ \A i \in 1 .. Len(controlQueue) : controlQueue[i].route \in Pool
        /\ \A i \in 1 .. Len(batch) : batch[i].route \in Pool
        /\ \A i \in 1 .. Len(connections) : connections[i].route \in Pool
    BY <1>1, PointersKnown
  <2> QED BY <1>1, <1>9, <2>1, <2>2, <2>3 DEF MessagesInv, ConnectionsInv, Proper
<1> QED BY <1>10, <1>11, <1>12, <1>13 DEF RoutesInv, PoolInv

(* A finished handshake establishes a route that no message of the batch   *)
(* names for another peer.                                                 *)
LEMMA AcceptStep ==
  ASSUME BatchesAreShort, RoutesInv, NEW e \in Endpoints, ServerAccept(e)
  PROVE  RoutesInv'
<1>1. RoutesType /\ ListsExist /\ EndpointsDiffer /\ PoolInv /\ MessagesInv /\ ConnectionsInv
  BY DEF RoutesInv, PoolInv
<1>2. PICK r : r = Find(e)
  OBVIOUS
<1>3. /\ r # NULL /\ route[r].state = "SERVER_ACCEPT" /\ ~Stale(r)
      /\ route' = [route EXCEPT ![r].state = "ESTABLISHED"]
      /\ UNCHANGED <<links, sweep, controlQueue, batch, connections>>
  BY <1>2 DEF ServerAccept, gameVars
<1>4. r \in Pool /\ Used(r) /\ route[r].endpoint = e
  BY <1>1, <1>2, <1>3, FindProperties
<1>5. /\ route'[r] = [route[r] EXCEPT !.state = "ESTABLISHED"] /\ route' \in [Pool -> RouteType]
      /\ \A x \in Pool : x # r => route'[x] = route[x]
  <2>1. route \in [Pool -> RouteType] /\ route[r] \in RouteType
    BY <1>1, <1>4 DEF RoutesType
  <2>2. [route[r] EXCEPT !.state = "ESTABLISHED"] \in RouteType
    BY <2>1 DEF RouteType, States
  <2> QED BY <1>3, <1>4, <2>1, <2>2
<1>6. route'[r].state = "ESTABLISHED" /\ route'[r].endpoint = route[r].endpoint
  <2>1. route[r] \in RouteType
    BY <1>1, <1>4 DEF RoutesType
  <2> QED BY <1>5, <2>1 DEF RouteType
<1>7. \A x \in Pool : route'[x].endpoint = route[x].endpoint /\ (Used(x)' <=> Used(x))
  <2>1. Used(r)'
    BY <1>6 DEF Used
  <2> QED BY <1>4, <1>5, <1>6, <2>1 DEF Used
<1>8. PoolInv'
  <2>1. RoutesType'
    BY <1>1, <1>3, <1>5 DEF RoutesType
  <2>2. ListsExist'
    BY <1>1, <1>3, <1>7, ListsFollow
  <2>3. EndpointsDiffer'
    BY <1>1, <1>7 DEF EndpointsDiffer
  <2> QED BY <2>1, <2>2, <2>3 DEF PoolInv
<1>9. \A x \in Pool : route[x].state = "ESTABLISHED" => route'[x] = route[x]
  BY <1>3, <1>5
<1>10. MessagesInv' /\ ConnectionsInv'
  <2>1. \A i \in 1 .. Len(batch) : batch[i].route = r => batch[i].endpoint = route[r].endpoint
    <3>1. DOMAIN batch = 1 .. Len(batch)
      BY <1>1 DEF RoutesType
    <3> QED BY <1>3, <3>1 DEF Stale
  <2>2. ASSUME NEW i \in 1 .. Len(batch), route'[batch[i].route].state = "ESTABLISHED"
        PROVE  Proper(batch[i])'
    <3>1. batch[i].route \in Pool
      BY <1>1, PointersKnown
    <3>2. CASE batch[i].route = r
      BY <1>3, <1>6, <2>1, <3>2 DEF Proper
    <3>3. CASE batch[i].route # r
      BY <1>1, <1>3, <1>5, <2>2, <3>1, <3>3 DEF MessagesInv, Proper
    <3> QED BY <3>2, <3>3
  <2>3. ASSUME NEW i \in 1 .. Len(controlQueue) PROVE Proper(controlQueue[i])'
    BY <1>1, <1>3, <1>9, PointersKnown DEF MessagesInv, Proper
  <2>4. ASSUME NEW i \in 1 .. Len(connections) PROVE Proper(connections[i])'
    BY <1>1, <1>3, <1>9, PointersKnown DEF ConnectionsInv, Proper
  <2> QED BY <1>1, <1>3, <2>2, <2>3, <2>4 DEF MessagesInv, ConnectionsInv
<1> QED BY <1>8, <1>10 DEF RoutesInv

(* Data of an established route waits for the game thread.                 *)
LEMMA MessageStep == ASSUME RoutesInv, NEW e \in Endpoints, HandleRoutedMessage(e) PROVE RoutesInv'
<1>1. RoutesType /\ ListsExist /\ EndpointsDiffer /\ PoolInv /\ MessagesInv /\ ConnectionsInv
  BY DEF RoutesInv, PoolInv
<1>2. PICK m : m = [endpoint |-> e, route |-> Find(e)]
  OBVIOUS
<1>3. /\ Find(e) # NULL /\ route[Find(e)].state = "ESTABLISHED" /\ controlQueue' = <<m>> \o controlQueue
      /\ UNCHANGED <<links, route, sweep, batch, connections>>
  BY <1>2 DEF HandleRoutedMessage, gameVars
<1>4. Find(e) \in Pool /\ route[Find(e)].endpoint = e
  BY <1>1, <1>3, FindProperties
<1>5. m \in MessageType /\ Proper(m)
  BY <1>2, <1>3, <1>4 DEF MessageType, Proper
<1>6. /\ controlQueue' \in Seq(MessageType)
      /\ \A i \in 1 .. Len(controlQueue') :
            controlQueue'[i] = m \/ \E j \in 1 .. Len(controlQueue) : controlQueue'[i] = controlQueue[j]
  <2>1. controlQueue \in Seq(MessageType)
    BY <1>1 DEF RoutesType
  <2>2. <<m>> \o controlQueue \in Seq(MessageType) /\ Len(<<m>> \o controlQueue) = Len(controlQueue) + 1
        /\ Len(controlQueue) \in Nat /\ (<<m>> \o controlQueue)[1] = m
        /\ \A j \in 1 .. Len(controlQueue) : (<<m>> \o controlQueue)[j + 1] = controlQueue[j]
    BY <1>5, <2>1
  <2>3. ASSUME NEW i \in 1 .. Len(controlQueue) + 1, i # 1
        PROVE  (<<m>> \o controlQueue)[i] = controlQueue[i - 1] /\ i - 1 \in 1 .. Len(controlQueue)
    <3>1. i - 1 \in 1 .. Len(controlQueue) /\ (i - 1) + 1 = i
      BY <2>2, <2>3
    <3>2. (<<m>> \o controlQueue)[(i - 1) + 1] = controlQueue[i - 1]
      BY <2>2, <3>1
    <3> QED BY <3>1, <3>2
  <2> QED BY <1>3, <2>2, <2>3
<1>7. PoolInv'
  <2>1. RoutesType'
    BY <1>1, <1>3, <1>6 DEF RoutesType
  <2>2. ListsExist'
    BY <1>1, <1>3, ListsFollow DEF Used
  <2> QED BY <1>1, <1>3, <2>1, <2>2 DEF PoolInv, EndpointsDiffer, Used
<1>8. MessagesInv'
  <2>1. \A i \in 1 .. Len(controlQueue') : Proper(controlQueue'[i])
    BY <1>1, <1>5, <1>6 DEF MessagesInv
  <2> QED BY <1>1, <1>3, <2>1 DEF MessagesInv, Proper
<1>9. ConnectionsInv'
  BY <1>1, <1>3 DEF ConnectionsInv, Proper
<1> QED BY <1>7, <1>8, <1>9 DEF RoutesInv

(* A sweep begins at the head.                                             *)
LEMMA StartSweepStep == ASSUME RoutesInv, StartSweep PROVE RoutesInv'
<1>1. RoutesType /\ ListsExist /\ EndpointsDiffer /\ MessagesInv /\ ConnectionsInv
  BY DEF RoutesInv, PoolInv
<1>2. /\ sweep' = [posted |-> FALSE, at |-> links.head]
      /\ UNCHANGED <<links, route, controlQueue, batch, connections>>
  BY DEF StartSweep, gameVars
<1>3. links.head \in Pointers
  BY <1>1 DEF RoutesType, LinksType
<1>4. RoutesType'
  BY <1>1, <1>2, <1>3 DEF RoutesType
<1>5. ListsExist'
  BY <1>1, <1>2, ListsFollow DEF Used
<1>6. EndpointsDiffer' /\ MessagesInv' /\ ConnectionsInv'
  BY <1>1, <1>2 DEF EndpointsDiffer, Used, MessagesInv, ConnectionsInv, Proper
<1> QED BY <1>4, <1>5, <1>6 DEF RoutesInv, PoolInv

(* A sweep erases a route whose connection is gone, or leaves it.          *)
LEMMA SweepStep == ASSUME RoutesInv, SweepRoute PROVE RoutesInv'
<1>1. RoutesType /\ ListsExist /\ EndpointsDiffer /\ MessagesInv /\ ConnectionsInv
  BY DEF RoutesInv, PoolInv
<1>2. PICK r : r = sweep.at
  OBVIOUS
<1>3. /\ r # NULL /\ sweep' = [sweep EXCEPT !.at = links.next[r]]
      /\ UNCHANGED <<controlQueue, batch, connections>>
  BY <1>2 DEF SweepRoute, StrandIsFree, gameVars
<1>4. links \in LinksType /\ route \in [Pool -> RouteType] /\ r \in Pool /\ links.next[r] \in Pointers
  <2>1. sweep \in [posted : BOOLEAN, at : Pointers]
    BY <1>1 DEF RoutesType
  <2>2. r \in Pool
    BY <1>2, <1>3, <2>1 DEF Pointers
  <2> QED BY <1>1, <2>2 DEF RoutesType, LinksType
<1>5. sweep' \in [posted : BOOLEAN, at : Pointers]
  BY <1>1, <1>3, <1>4 DEF RoutesType
<1>6. CASE ~Erasable(r)
  <2>1. UNCHANGED <<links, route>>
    BY <1>2, <1>6 DEF SweepRoute
  <2>2. RoutesType'
    BY <1>1, <1>3, <1>5, <2>1 DEF RoutesType
  <2>3. ListsExist'
    BY <1>1, <2>1, ListsFollow DEF Used
  <2>4. EndpointsDiffer' /\ MessagesInv' /\ ConnectionsInv'
    BY <1>1, <1>3, <2>1 DEF EndpointsDiffer, Used, MessagesInv, ConnectionsInv, Proper
  <2> QED BY <2>2, <2>3, <2>4 DEF RoutesInv, PoolInv
<1>7. CASE Erasable(r)
  <2>1. links' = Erase(links, r) /\ route' = [route EXCEPT ![r] = Blank]
    BY <1>2, <1>7 DEF SweepRoute
  <2>2. route'[r] = Blank /\ \A x \in Pool : x # r => route'[x] = route[x]
    BY <1>4, <2>1
  <2>3. Used(r) /\ ~Used(r)' /\ \A x \in Pool : x # r => (Used(x)' <=> Used(x))
    <3>1. Used(r)
      BY <1>7 DEF Erasable, Used
    <3>2. ~Used(r)'
      BY <2>2 DEF Used, Blank
    <3> QED BY <2>2, <3>1, <3>2 DEF Used
  <2>4. PICK a \in Seq(Pool) : \E f \in Seq(Pool) :
          AreLists(links, a, f) /\ \A x \in Pool : IsIn(x, a) <=> Used(x)
    BY <1>1 DEF ListsExist, ListsInv
  <2>5. PICK f \in Seq(Pool) : AreLists(links, a, f) /\ \A x \in Pool : IsIn(x, a) <=> Used(x)
    BY <2>4
  <2>6. IsIn(r, a)
    BY <1>4, <2>3, <2>5, Zenon
  <2>7. /\ Erase(links, r) \in LinksType
        /\ \E b, g \in Seq(Pool) : /\ AreLists(Erase(links, r), b, g)
                                   /\ \A x \in Pool : IsIn(x, b) <=> x # r /\ IsIn(x, a)
    BY <1>4, <2>5, <2>6, EraseLists
  <2>8. RoutesType'
    <3>1. Blank \in RouteType
      BY DEF Blank, RouteType, States
    <3>2. route' \in [Pool -> RouteType]
      BY <1>4, <2>1, <3>1
    <3> QED BY <1>1, <1>3, <1>5, <2>1, <2>7, <3>2 DEF RoutesType
  <2>9. ListsExist'
    <3>1. PICK b \in Seq(Pool) : \E g \in Seq(Pool) :
            /\ AreLists(Erase(links, r), b, g)
            /\ \A x \in Pool : IsIn(x, b) <=> x # r /\ IsIn(x, a)
      BY <2>7
    <3>2. PICK g \in Seq(Pool) :
            /\ AreLists(Erase(links, r), b, g)
            /\ \A x \in Pool : IsIn(x, b) <=> x # r /\ IsIn(x, a)
      BY <3>1
    <3>3. ASSUME NEW x \in Pool PROVE IsIn(x, b) <=> Used(x)'
      <4>1. CASE x = r
        BY <1>4, <2>3, <3>2, <4>1, Zenon
      <4>2. CASE x # r
        BY <2>3, <2>5, <3>2, <4>2, Zenon
      <4> QED BY <4>1, <4>2
    <3>4. AreLists(links', b, g)
      BY <2>1, <3>2
    <3> QED BY <3>3, <3>4 DEF ListsExist, ListsInv
  <2>10. EndpointsDiffer'
    BY <1>1, <2>2, <2>3 DEF EndpointsDiffer
  <2>11. MessagesInv' /\ ConnectionsInv'
    <3>1. \A x \in Pool : route[x].state = "ESTABLISHED" => route'[x] = route[x]
      BY <1>7, <2>2 DEF Erasable
    <3>2. \A x \in Pool : route'[x].state = "ESTABLISHED" => route'[x] = route[x]
      BY <2>2 DEF Blank
    <3> QED BY <1>1, <1>3, <3>1, <3>2, PointersKnown DEF MessagesInv, ConnectionsInv, Proper
  <2> QED BY <2>8, <2>9, <2>10, <2>11 DEF RoutesInv, PoolInv
<1> QED BY <1>6, <1>7

(* A tick drops connections, disconnects their routes and takes a batch.   *)
LEMMA TickStep ==
  ASSUME RoutesInv, NEW refreshed \in SUBSET DOMAIN connections, Tick(refreshed)
  PROVE  RoutesInv'
<1>1. RoutesType /\ ListsExist /\ EndpointsDiffer /\ MessagesInv /\ ConnectionsInv
  BY DEF RoutesInv, PoolInv
<1>2. PICK gone : gone = {connections[i].route : i \in TimedOut(refreshed)}
  OBVIOUS
<1>3. PICK alive : alive = {connections[i].route : i \in refreshed}
  OBVIOUS
<1>4. /\ route' = [r \in Pool |-> IF r \in gone THEN [route[r] EXCEPT !.state = "DISCONNECTED"]
                                 ELSE IF r \in alive THEN [route[r] EXCEPT !.age = "fresh"]
                                 ELSE route[r]]
      /\ connections' = Kept(gone) /\ sweep' = [sweep EXCEPT !.posted = TRUE]
      /\ batch' = controlQueue /\ controlQueue' = <<>> /\ links' = links
  BY <1>2, <1>3, Zenon DEF Tick
<1>5. route \in [Pool -> RouteType] /\ DOMAIN connections = 1 .. Len(connections)
  BY <1>1 DEF RoutesType
<1>6. ASSUME NEW r \in Pool
      PROVE  /\ route'[r] \in RouteType /\ route'[r].endpoint = route[r].endpoint
             /\ r \notin gone => route'[r].state = route[r].state
             /\ r \in gone => route'[r].state = "DISCONNECTED" /\ route[r].state = "ESTABLISHED"
  <2>1. route[r] \in RouteType
    BY <1>5
  <2>2. r \in gone => route[r].state = "ESTABLISHED"
    BY <1>1, <1>2, <1>5 DEF TimedOut, ConnectionsInv, Proper
  <2>3. CASE r \in gone
    <3>1. route'[r] = [route[r] EXCEPT !.state = "DISCONNECTED"]
      BY <1>4, <2>3
    <3> QED BY <2>1, <2>2, <2>3, <3>1 DEF RouteType, States
  <2>4. CASE r \notin gone
    <3>1. route'[r] = [route[r] EXCEPT !.age = "fresh"] \/ route'[r] = route[r]
      BY <1>4, <2>4
    <3> QED BY <2>1, <2>4, <3>1 DEF RouteType
  <2> QED BY <2>3, <2>4
<1>7. /\ Kept(gone) \in Seq(ConnectionType) /\ RoutesDiffer(Kept(gone))
      /\ \A i \in 1 .. Len(Kept(gone)) : \E j \in 1 .. Len(connections) :
           Kept(gone)[i] = connections[j] /\ connections[j].route \notin gone
  BY <1>1, KeptProperties DEF RoutesType, ConnectionsInv
<1>8. RoutesType'
  <2>1. route' \in [Pool -> RouteType]
    <3>1. route' = [r \in Pool |-> route'[r]]
      BY <1>4
    <3> QED BY <1>6, <3>1
  <2>2. <<>> \in Seq(MessageType)
    OBVIOUS
  <2>3. sweep' \in [posted : BOOLEAN, at : Pointers]
    BY <1>1, <1>4 DEF RoutesType
  <2> QED BY <1>1, <1>4, <1>7, <2>1, <2>2, <2>3 DEF RoutesType
<1>9. \A r \in Pool : Used(r)' <=> Used(r)
  BY <1>6 DEF Used
<1>10. ListsExist'
  BY <1>1, <1>4, <1>9, ListsFollow
<1>11. EndpointsDiffer'
  BY <1>1, <1>6, <1>9 DEF EndpointsDiffer
<1>12. MessagesInv'
  <2>1. \A i \in 1 .. Len(<<>>) : FALSE
    OBVIOUS
  <2>2. ASSUME NEW i \in 1 .. Len(controlQueue), route'[controlQueue[i].route].state = "ESTABLISHED"
        PROVE  route'[controlQueue[i].route].endpoint = controlQueue[i].endpoint
    BY <1>1, <1>6, PointersKnown DEF MessagesInv, Proper
  <2> QED BY <1>4, <2>1, <2>2 DEF MessagesInv, Proper
<1>13. ConnectionsInv'
  <2>1. ASSUME NEW i \in 1 .. Len(Kept(gone))
        PROVE  LET c == Kept(gone)[i]
               IN  route'[c.route].state = "ESTABLISHED" /\ route'[c.route].endpoint = c.endpoint
    <3>1. PICK j \in 1 .. Len(connections) : Kept(gone)[i] = connections[j] /\ connections[j].route \notin gone
      BY <1>7
    <3>2. Proper(connections[j]) /\ connections[j].route \in Pool
      BY <1>1, PointersKnown DEF ConnectionsInv
    <3> QED BY <1>6, <3>1, <3>2 DEF Proper
  <2> QED BY <1>4, <1>7, <2>1 DEF ConnectionsInv, Proper, RoutesDiffer
<1> QED BY <1>8, <1>10, <1>11, <1>12, <1>13 DEF RoutesInv, PoolInv

(* A request becomes a connection of the route it came by, or nothing.     *)
LEMMA FilterStep == ASSUME RoutesInv, RunFilter PROVE RoutesInv'
<1>1. RoutesType /\ ListsExist /\ EndpointsDiffer /\ MessagesInv /\ ConnectionsInv
  BY DEF RoutesInv, PoolInv
<1>2. PICK m : m = batch[1]
  OBVIOUS
<1>3. PICK c : c = [endpoint |-> route[m.route].endpoint, route |-> m.route]
  OBVIOUS
<1>4. /\ batch # <<>> /\ batch' = Tail(batch) /\ UNCHANGED <<links, route, sweep, controlQueue>>
      /\ IF Acceptable(m) THEN connections' = Append(connections, c) ELSE UNCHANGED connections
  BY <1>2, <1>3, Zenon DEF RunFilter
<1>5. batch \in Seq(MessageType) /\ connections \in Seq(ConnectionType) /\ route \in [Pool -> RouteType]
  BY <1>1 DEF RoutesType
<1>6. /\ Tail(batch) \in Seq(MessageType) /\ 1 \in 1 .. Len(batch)
      /\ \A i \in 1 .. Len(Tail(batch)) : i + 1 \in 1 .. Len(batch) /\ Tail(batch)[i] = batch[i + 1]
  <2>1. Len(batch) \in Nat /\ Len(batch) # 0
    BY <1>4, <1>5, EmptySeq
  <2>2. Tail(batch) \in Seq(MessageType) /\ Len(Tail(batch)) = Len(batch) - 1
        /\ \A i \in 1 .. Len(Tail(batch)) : Tail(batch)[i] = batch[i + 1]
    BY <1>4, <1>5
  <2> QED BY <2>1, <2>2
<1>7. m \in MessageType /\ m.route \in Pool
  <2>1. m \in MessageType
    BY <1>2, <1>5, <1>6
  <2> QED BY <2>1 DEF MessageType
<1>8. c \in ConnectionType
  <2>1. route[m.route] \in RouteType
    BY <1>5, <1>7
  <2> QED BY <1>3, <1>7, <2>1 DEF RouteType, ConnectionType
<1>9. ListsExist' /\ EndpointsDiffer'
  BY <1>1, <1>4, ListsFollow DEF Used, EndpointsDiffer
<1>10. MessagesInv'
  BY <1>1, <1>4, <1>6 DEF MessagesInv, Proper
<1>11. CASE ~Acceptable(m)
  <2>1. connections' = connections
    BY <1>4, <1>11
  <2>2. RoutesType'
    BY <1>1, <1>4, <1>6, <2>1 DEF RoutesType
  <2>3. ConnectionsInv'
    BY <1>1, <1>4, <2>1 DEF ConnectionsInv, Proper, RoutesDiffer
  <2> QED BY <1>9, <1>10, <2>2, <2>3 DEF RoutesInv, PoolInv
<1>12. CASE Acceptable(m)
  <2>1. /\ connections' \in Seq(ConnectionType) /\ Len(connections') = Len(connections) + 1
        /\ connections'[Len(connections) + 1] = c /\ Len(connections) \in Nat
        /\ \A i \in 1 .. Len(connections) : connections'[i] = connections[i]
    <3>1. connections' = Append(connections, c)
      BY <1>4, <1>12
    <3>2. ASSUME NEW t, t = Append(connections, c)
          PROVE  /\ t \in Seq(ConnectionType) /\ Len(t) = Len(connections) + 1
                 /\ t[Len(connections) + 1] = c /\ Len(connections) \in Nat
                 /\ \A i \in 1 .. Len(connections) : t[i] = connections[i]
      BY <1>5, <1>8, <3>2
    <3> QED BY <3>1, <3>2
  <2>2. Proper(m) /\ Proper(c)
    <3>1. route[m.route].state = "ESTABLISHED"
      BY <1>12 DEF Acceptable
    <3>2. Proper(m)
      BY <1>1, <1>2, <1>6, <3>1 DEF MessagesInv
    <3> QED BY <1>3, <3>1, <3>2 DEF Proper
  <2>3. ASSUME NEW i \in 1 .. Len(connections) PROVE connections[i].route # m.route
    <3>1. connections[i].endpoint # m.endpoint
      <4>1. DOMAIN connections = 1 .. Len(connections)
        BY <1>5
      <4> QED BY <1>12, <4>1 DEF Acceptable, HasConnection
    <3>2. Proper(connections[i])
      BY <1>1 DEF ConnectionsInv
    <3> QED BY <2>2, <3>1, <3>2 DEF Proper
  <2>4. \A i \in 1 .. Len(connections') : i = Len(connections) + 1 \/ i \in 1 .. Len(connections)
    BY <2>1
  <2>5. \A i \in 1 .. Len(connections') : Proper(connections'[i])
    BY <1>1, <2>1, <2>2, <2>4 DEF ConnectionsInv
  <2>6. RoutesDiffer(connections')
    <3>1. c.route = m.route
      BY <1>3
    <3> SUFFICES ASSUME NEW i \in 1 .. Len(connections'), NEW j \in 1 .. Len(connections'),
                        connections'[i].route = connections'[j].route
                 PROVE  i = j
      BY DEF RoutesDiffer
    <3>2. CASE i \in 1 .. Len(connections) /\ j \in 1 .. Len(connections)
      BY <1>1, <2>1, <3>2 DEF ConnectionsInv, RoutesDiffer
    <3>3. CASE i = Len(connections) + 1 /\ j \in 1 .. Len(connections)
      BY <2>1, <2>3, <3>1, <3>3
    <3>4. CASE j = Len(connections) + 1 /\ i \in 1 .. Len(connections)
      BY <2>1, <2>3, <3>1, <3>4
    <3> QED BY <2>4, <3>2, <3>3, <3>4
  <2>7. ConnectionsInv'
    BY <1>4, <2>5, <2>6 DEF ConnectionsInv, Proper, RoutesDiffer
  <2>8. RoutesType'
    BY <1>1, <1>4, <1>6, <2>1 DEF RoutesType
  <2> QED BY <1>9, <1>10, <2>7, <2>8 DEF RoutesInv, PoolInv
<1> QED BY <1>11, <1>12

(* A route gets older.                                                     *)
LEMMA AgeStep == ASSUME RoutesInv, NEW r \in Pool, Age(r) PROVE RoutesInv'
<1>1. RoutesType /\ ListsExist /\ EndpointsDiffer /\ MessagesInv /\ ConnectionsInv
  BY DEF RoutesInv, PoolInv
<1>2. /\ route' = [route EXCEPT ![r].age = Older(@)]
      /\ UNCHANGED <<links, sweep, controlQueue, batch, connections>>
  BY DEF Age, gameVars
<1>3. route \in [Pool -> RouteType] /\ route[r] \in RouteType
  BY <1>1 DEF RoutesType
<1>4. [route[r] EXCEPT !.age = Older(@)] \in RouteType
  BY <1>3 DEF RouteType, Older
<1>5. /\ route' \in [Pool -> RouteType] /\ route'[r] = [route[r] EXCEPT !.age = Older(@)]
      /\ \A x \in Pool : x # r => route'[x] = route[x]
  BY <1>2, <1>3, <1>4
<1>6. \A x \in Pool : route'[x].state = route[x].state /\ route'[x].endpoint = route[x].endpoint
  BY <1>3, <1>5 DEF RouteType
<1>7. \A x \in Pool : Used(x)' <=> Used(x)
  BY <1>6 DEF Used
<1>8. RoutesType' /\ ListsExist' /\ EndpointsDiffer'
  BY <1>1, <1>2, <1>5, <1>6, <1>7, ListsFollow DEF RoutesType, EndpointsDiffer
<1>9. MessagesInv' /\ ConnectionsInv'
  BY <1>1, <1>2, <1>6, PointersKnown DEF MessagesInv, ConnectionsInv, Proper, RoutesDiffer
<1> QED BY <1>8, <1>9 DEF RoutesInv, PoolInv

(* Lists, messages and connections fit together in every reachable state.  *)
LEMMA RoutesInvariant == ASSUME BatchesAreShort PROVE Spec => []RoutesInv
<1>1. RoutesInv /\ [Next]_vars => RoutesInv'
  <2> SUFFICES ASSUME RoutesInv, [Next]_vars PROVE RoutesInv'
    OBVIOUS
  <2>1. ASSUME NEW e \in Endpoints, ServerListen(e) PROVE RoutesInv'
    BY <2>1, ListenStep
  <2>2. ASSUME NEW e \in Endpoints, ServerAccept(e) PROVE RoutesInv'
    BY <2>2, AcceptStep
  <2>3. ASSUME NEW e \in Endpoints, HandleRoutedMessage(e) PROVE RoutesInv'
    BY <2>3, MessageStep
  <2>4. CASE StartSweep
    BY <2>4, StartSweepStep
  <2>5. CASE SweepRoute
    BY <2>5, SweepStep
  <2>6. CASE RunFilter
    BY <2>6, FilterStep
  <2>7. ASSUME NEW refreshed \in SUBSET DOMAIN connections, Tick(refreshed) PROVE RoutesInv'
    BY <2>7, TickStep
  <2>8. ASSUME NEW r \in Pool, Age(r) PROVE RoutesInv'
    BY <2>8, AgeStep
  <2>9. CASE UNCHANGED vars
    <3>1. ListsExist'
      BY <2>9, ListsFollow DEF vars, RoutesInv, PoolInv, Used
    <3> QED BY <2>9, <3>1
            DEF vars, gameVars, RoutesInv, PoolInv, RoutesType, EndpointsDiffer, Used, MessagesInv,
                ConnectionsInv, Proper, RoutesDiffer
  <2> QED BY <2>1, <2>2, <2>3, <2>4, <2>5, <2>6, <2>7, <2>8, <2>9 DEF Next, GameStep
<1> QED BY <1>1, RoutesInit, PTL DEF Spec

(* However packets, sweeps, erasures and ticks interleave, every route of  *)
(* the pool is on exactly one of the two lists, both lists end, the active *)
(* ones are those in use and no two of them serve one endpoint.  This      *)
(* rests on a batch being handled in less time than a handshake takes:     *)
(* nothing in the code excludes the opposite.                              *)
THEOREM RoutesArePartitioned ==
  ASSUME BatchesAreShort
  PROVE  Spec => []RoutePoolIsPartitioned
<1>1. RoutesInv => RoutePoolIsPartitioned
  <2> SUFFICES ASSUME RoutesInv PROVE RoutePoolIsPartitioned
    OBVIOUS
  <2>1. PoolInv
    BY DEF RoutesInv
  <2> QED BY <2>1, UsedAreActive DEF RoutePoolIsPartitioned, PoolInv, EndpointsDiffer, Used
<1> QED BY <1>1, RoutesInvariant, PTL

(* Under the same hypothesis a connection's route stays established, and   *)
(* its own: no sweep, no erasure of another connection's route and no      *)
(* handshake of another peer takes it away while the connection lasts.     *)
THEOREM ConnectionsAreKept ==
  ASSUME BatchesAreShort
  PROVE  Spec => []ConnectionsKeepTheirRoute
<1>1. RoutesInv => ConnectionsKeepTheirRoute
  <2> SUFFICES ASSUME RoutesInv PROVE ConnectionsKeepTheirRoute
    OBVIOUS
  <2>1. PoolInv /\ ConnectionsInv /\ RoutesType /\ DOMAIN connections = 1 .. Len(connections)
    BY DEF RoutesInv, PoolInv, RoutesType
  <2>2. \A i \in 1 .. Len(connections) : Proper(connections[i]) /\ connections[i].route \in Active
    BY <2>1, UsedAreActive, PointersKnown DEF ConnectionsInv, Proper, Used
  <2> QED BY <2>1, <2>2 DEF ConnectionsKeepTheirRoute, ConnectionsInv, RoutesDiffer, Proper
<1> QED BY <1>1, RoutesInvariant, PTL
------------------------------------------------------------------------------
(***************************************************************************)
(* A client's way to an established connection.                            *)
(***************************************************************************)
(* Stages in which Connect's token has no result.                          *)
Open == {"idle", "resolve", "punchthrough", "probe", "handshake", "request"}

HandshakeType == [flight : Nat, sending : BOOLEAN, timer : BOOLEAN]
SendType == [sent : BOOLEAN, arrived : BOOLEAN, over : BOOLEAN]
RequestType == [send : SendType, filter : BOOLEAN, response : BOOLEAN]
ServerType ==
  [route : BOOLEAN, connection : {"none", "SYNCHRONIZING", "ESTABLISHED"}, filter : BOOLEAN]

ConnectType ==
  /\ stage \in Open \cup {"synchronize", "finishing", "over"}
  /\ handshake \in HandshakeType
  /\ request \in RequestType /\ done \in SendType /\ server \in ServerType
  /\ samples \in Nat /\ pmtu \in Nat /\ link \in Nat /\ path \in Nat

(* The token is set exactly when the chain has left its stages, and        *)
(* nothing of a later stage has begun in an earlier one.                   *)
TokenInv ==
  /\ mainToken = "unset" <=> stage \in Open
  /\ stage \in Open => /\ samples = 0 /\ done = Client!Unsent /\ outcome = "unset"
                       /\ state \notin {"SYNCHRONIZING", "ESTABLISHED"}
  /\ stage \in Open \ {"request"} => ~request.send.sent /\ ~request.filter /\ ~request.response
  /\ stage \in Open \ {"handshake", "request"} =>
       handshake.flight = 0 /\ ~handshake.sending /\ ~server.route

(* The server has a connection only on a route, a route only from a whole  *)
(* handshake that is never run again, and only it answers the request.     *)
ServerInv ==
  /\ server.route => handshake.flight \in {0, Flights}
  /\ server.connection # "none" => server.route
  /\ server.filter \/ request.response => server.connection # "none"

(* CONNECT_DONE is sent once, after the last sample, and what comes of it  *)
(* is decided once.                                                        *)
DoneInv ==
  /\ stage = "synchronize" => samples < Updates /\ done = Client!Unsent /\ outcome = "unset"
  /\ stage \in {"synchronize", "finishing"} => mainToken = "SUCCESS" /\ request.response
  /\ stage = "finishing" => done.sent
  /\ done.arrived \/ done.over => done.sent
  /\ done.sent => mainToken = "SUCCESS" /\ request.response /\ samples = Updates
  /\ done.sent /\ ~done.over => stage = "finishing" /\ outcome = "unset"
  /\ state = "ESTABLISHED" => stage = "over" /\ done.arrived /\ done.over /\ outcome = "established"
  /\ state = "SYNCHRONIZING" => mainToken = "SUCCESS"

(* No candidate that fits lies above the mtu being probed, except those    *)
(* whose probes were lost.                                                 *)
Best == \A m \in (COMMON_MTUS \cup {link}) \ unlucky : m <= link /\ m <= path => m <= pmtu

Probed == {"handshake", "request", "synchronize", "finishing"}

PmtuInv ==
  /\ stage \in {"probe"} \cup Probed => pmtu <= link /\ Best
  /\ stage \in Probed => pmtu <= path

ConnectInv == ConnectType /\ TokenInv /\ ServerInv /\ DoneInv /\ PmtuInv
------------------------------------------------------------------------------
(* The next size to try is the greatest below the one that failed.         *)
LEMMA NextAttemptProperties ==
  ASSUME NEW mtu \in Nat
  PROVE  /\ Client!NextAttempt(mtu) \in Nat
         /\ Client!NextAttempt(mtu) = 0 \/ Client!NextAttempt(mtu) < mtu
         /\ \A m \in COMMON_MTUS : m < mtu => m <= Client!NextAttempt(mtu)
<1> DEFINE S == {0} \cup {m \in COMMON_MTUS : m < mtu}
<1>1. S \subseteq 0 .. mtu /\ S # {}
  <2>1. \A x \in S : x \in Nat /\ x <= mtu
    BY ConnectAssumption DEF Client!SizesAreNatural
  <2>2. 0 \in S
    OBVIOUS
  <2> HIDE DEF S
  <2> QED BY <2>1, <2>2
<1>2. Max(S) \in S /\ \A x \in S : x <= Max(S)
  BY <1>1, MaxProperties
<1>3. Client!NextAttempt(mtu) = Max(S)
  BY Zenon DEF Client!NextAttempt, Client!Max, Max
<1>4. \A x \in S : x = 0 \/ (x \in COMMON_MTUS /\ x < mtu)
  OBVIOUS
<1>5. \A m \in COMMON_MTUS : m < mtu => m \in S
  OBVIOUS
<1> HIDE DEF S
<1>6. Client!NextAttempt(mtu) \in S /\ \A x \in S : x <= Client!NextAttempt(mtu)
  BY <1>2, <1>3
<1>7. COMMON_MTUS \subseteq Nat
  BY ConnectAssumption DEF Client!SizesAreNatural
<1>8. \/ Client!NextAttempt(mtu) = 0
      \/ Client!NextAttempt(mtu) \in COMMON_MTUS /\ Client!NextAttempt(mtu) < mtu
  BY <1>4, <1>6
<1>9. Client!NextAttempt(mtu) \in Nat
  BY <1>7, <1>8, 0 \in Nat, Zenon
<1>10. ASSUME NEW m \in COMMON_MTUS, m < mtu
       PROVE  m <= Client!NextAttempt(mtu)
  BY <1>5, <1>6, <1>10
<1> QED BY <1>8, <1>9, <1>10

(* No callback, timer or answer breaks the invariant.                      *)
LEMMA ConnectStep ==
  ASSUME ConnectInv, [Client!Next]_(Client!vars)
  PROVE  ConnectInv'
<1>0. /\ LinkMtus \subseteq Nat /\ PathMtus \subseteq Nat /\ COMMON_MTUS \subseteq Nat
      /\ Flights \in Nat /\ Updates \in Nat \ {0}
  BY ConnectAssumption DEF Client!SizesAreNatural
<1>1. CASE Client!Connect
  BY <1>1, <1>0
     DEF Client!Connect, Client!chain, Client!Set, Client!Unsent, Client!Sent, Open, ConnectInv,
         ConnectType, HandshakeType, SendType, RequestType, ServerType, TokenInv, ServerInv,
         DoneInv, PmtuInv, Best, Probed
<1>2. CASE Client!SocketFails
  BY <1>2, <1>0
     DEF Client!SocketFails, Client!chain, Client!Set, Client!Unsent, Client!Sent, Open,
         ConnectInv, ConnectType, HandshakeType, SendType, RequestType, ServerType, TokenInv,
         ServerInv, DoneInv, PmtuInv, Best, Probed, Client!Fails
<1>3. CASE Client!ResolveFails
  BY <1>3, <1>0
     DEF Client!ResolveFails, Client!chain, Client!Set, Client!Unsent, Client!Sent, Open,
         ConnectInv, ConnectType, HandshakeType, SendType, RequestType, ServerType, TokenInv,
         ServerInv, DoneInv, PmtuInv, Best, Probed, Client!Fails
<1>4. CASE Client!OnHostnameResolved
  BY <1>4, <1>0
     DEF Client!OnHostnameResolved, Client!chain, Client!Set, Client!Unsent, Client!Sent, Open,
         ConnectInv, ConnectType, HandshakeType, SendType, RequestType, ServerType, TokenInv,
         ServerInv, DoneInv, PmtuInv, Best, Probed
<1>5. CASE Client!PunchthroughAcked
  BY <1>5, <1>0
     DEF Client!PunchthroughAcked, Client!chain, Client!Set, Client!Unsent, Client!Sent, Open,
         ConnectInv, ConnectType, HandshakeType, SendType, RequestType, ServerType, TokenInv,
         ServerInv, DoneInv, PmtuInv, Best, Probed, Client!NULL
<1>6. CASE Client!PunchthroughFails
  BY <1>6, <1>0
     DEF Client!PunchthroughFails, Client!chain, Client!Set, Client!Unsent, Client!Sent, Open,
         ConnectInv, ConnectType, HandshakeType, SendType, RequestType, ServerType, TokenInv,
         ServerInv, DoneInv, PmtuInv, Best, Probed, Client!Fails
<1>7. CASE Client!FlightSent
  <2>1. ConnectType'
    <3>1. handshake' \in HandshakeType
      BY <1>7, <1>0 DEF Client!FlightSent, ConnectInv, ConnectType, HandshakeType
    <3> QED BY <1>7, <3>1 DEF Client!FlightSent, ConnectInv, ConnectType, Client!chain, Open
  <2>2. TokenInv'
    BY <1>7, <1>0
       DEF ConnectInv, Client!FlightSent, Client!chain, Client!Set, ConnectType, HandshakeType,
           SendType, RequestType, ServerType, TokenInv, Open, Client!Unsent, Client!Sent
  <2>3. ServerInv'
    BY <1>7, <1>0
       DEF ConnectInv, Client!FlightSent, Client!chain, Client!Set, ConnectType, HandshakeType,
           SendType, RequestType, ServerType, TokenInv, ServerInv, Open, Client!Unsent,
           Client!Sent
  <2>4. DoneInv'
    BY <1>7, <1>0
       DEF ConnectInv, Client!FlightSent, Client!chain, Client!Set, ConnectType, HandshakeType,
           SendType, RequestType, ServerType, TokenInv, ServerInv, DoneInv, Open, Client!Unsent,
           Client!Sent
  <2>5. PmtuInv'
    BY <1>7, <1>0
       DEF ConnectInv, Client!FlightSent, Client!chain, Client!Set, TokenInv, PmtuInv, Best,
           Probed, Open
  <2> QED BY <2>1, <2>2, <2>3, <2>4, <2>5 DEF ConnectInv
<1>8. CASE Client!FlightFails
  <2>1. ConnectType'
    <3>1. handshake' \in HandshakeType
      BY <1>8, <1>0 DEF Client!FlightFails, ConnectInv, ConnectType, HandshakeType
    <3> QED BY <1>8, <3>1
       DEF Client!FlightFails, ConnectInv, ConnectType, Client!chain, Open, Client!Fails
  <2>2. TokenInv'
    BY <1>8, <1>0
       DEF ConnectInv, Client!FlightFails, Client!chain, Client!Set, Client!Fails, ConnectType,
           HandshakeType, SendType, RequestType, ServerType, TokenInv, Open, Client!Unsent,
           Client!Sent
  <2>3. ServerInv'
    BY <1>8, <1>0
       DEF ConnectInv, Client!FlightFails, Client!chain, Client!Set, Client!Fails, ConnectType,
           HandshakeType, SendType, RequestType, ServerType, TokenInv, ServerInv, Open,
           Client!Unsent, Client!Sent
  <2>4. DoneInv'
    BY <1>8, <1>0
       DEF ConnectInv, Client!FlightFails, Client!chain, Client!Set, Client!Fails, ConnectType,
           HandshakeType, SendType, RequestType, ServerType, TokenInv, ServerInv, DoneInv, Open,
           Client!Unsent, Client!Sent
  <2>5. PmtuInv'
    BY <1>8, <1>0
       DEF ConnectInv, Client!FlightFails, Client!chain, Client!Set, Client!Fails, TokenInv,
           PmtuInv, Best, Probed, Open
  <2> QED BY <2>1, <2>2, <2>3, <2>4, <2>5 DEF ConnectInv
<1>9. CASE Client!NextFlight
  <2>1. ConnectType'
    <3>1. handshake' \in HandshakeType
      <4>1. handshake \in HandshakeType
        BY DEF ConnectInv, ConnectType
      <4>2. handshake.flight + 1 \in Nat
        BY <4>1 DEF HandshakeType
      <4>3. handshake' = [handshake EXCEPT !.flight = handshake.flight + 1, !.sending = TRUE]
        BY <1>9 DEF Client!NextFlight
      <4> QED BY <4>1, <4>2, <4>3 DEF HandshakeType
    <3>2. server' \in ServerType
      BY <1>9, <1>0 DEF Client!NextFlight, ConnectInv, ConnectType, ServerType
    <3> QED BY <1>9, <3>1, <3>2
       DEF Client!NextFlight, ConnectInv, ConnectType, Client!chain, Open
  <2>2. TokenInv'
    BY <1>9, <1>0
       DEF ConnectInv, Client!NextFlight, Client!chain, Client!Set, ConnectType, HandshakeType,
           SendType, RequestType, ServerType, TokenInv, Open, Client!Unsent, Client!Sent
  <2>3. ServerInv'
    BY <1>9, <1>0
       DEF ConnectInv, Client!NextFlight, Client!chain, Client!Set, ConnectType, HandshakeType,
           SendType, RequestType, ServerType, TokenInv, ServerInv, Open, Client!Unsent,
           Client!Sent
  <2>4. DoneInv'
    BY <1>9, <1>0
       DEF ConnectInv, Client!NextFlight, Client!chain, Client!Set, ConnectType, HandshakeType,
           SendType, RequestType, ServerType, TokenInv, ServerInv, DoneInv, Open, Client!Unsent,
           Client!Sent
  <2>5. PmtuInv'
    BY <1>9, <1>0
       DEF ConnectInv, Client!NextFlight, Client!chain, Client!Set, TokenInv, PmtuInv, Best,
           Probed, Open
  <2> QED BY <2>1, <2>2, <2>3, <2>4, <2>5 DEF ConnectInv
<1>10. CASE Client!HandshakeDone
  <2>1. ConnectType'
    <3>1. handshake' \in HandshakeType
      BY <1>10, <1>0
         DEF Client!HandshakeDone, ConnectInv, ConnectType, HandshakeType
    <3>2. request' \in RequestType
      <4>1. request' = request \/ request' = Client!RequestFilter
        BY <1>10 DEF Client!HandshakeDone
      <4>2. Client!RequestFilter \in RequestType
        BY DEF Client!RequestFilter, Client!Sent, Client!Unsent, SendType, RequestType
      <4> QED BY <4>1, <4>2 DEF ConnectInv, ConnectType
    <3> QED BY <1>10, <3>1, <3>2
       DEF Client!HandshakeDone, ConnectInv, ConnectType, Client!chain, Open
  <2>2. TokenInv'
    BY <1>10, <1>0
       DEF ConnectInv, Client!HandshakeDone, Client!chain, Client!Set, Client!RequestFilter,
           ConnectType, HandshakeType, SendType, RequestType, ServerType, TokenInv, Open,
           Client!Unsent, Client!Sent
  <2>3. ServerInv'
    BY <1>10, <1>0
       DEF ConnectInv, Client!HandshakeDone, Client!chain, Client!Set, Client!RequestFilter,
           ConnectType, HandshakeType, SendType, RequestType, ServerType, TokenInv, ServerInv,
           Open, Client!Unsent, Client!Sent
  <2>4. DoneInv'
    BY <1>10, <1>0
       DEF ConnectInv, Client!HandshakeDone, Client!chain, Client!Set, Client!RequestFilter,
           ConnectType, HandshakeType, SendType, RequestType, ServerType, TokenInv, ServerInv,
           DoneInv, Open, Client!Unsent, Client!Sent
  <2>5. PmtuInv'
    BY <1>10, <1>0
       DEF ConnectInv, Client!HandshakeDone, Client!chain, Client!Set, Client!RequestFilter,
           TokenInv, PmtuInv, Best, Probed, Open
  <2> QED BY <2>1, <2>2, <2>3, <2>4, <2>5 DEF ConnectInv
<1>11. CASE Client!HandshakeTimeout
  <2>1. ConnectType'
    <3>1. handshake' \in HandshakeType
      BY <1>11, <1>0
         DEF Client!HandshakeTimeout, ConnectInv, ConnectType, HandshakeType
    <3> QED BY <1>11, <3>1
       DEF Client!HandshakeTimeout, ConnectInv, ConnectType, Client!chain, Open, Client!Fails
  <2>2. TokenInv'
    BY <1>11, <1>0
       DEF ConnectInv, Client!HandshakeTimeout, Client!chain, Client!Set, Client!Fails,
           ConnectType, HandshakeType, SendType, RequestType, ServerType, TokenInv, Open,
           Client!Unsent, Client!Sent
  <2>3. ServerInv'
    BY <1>11, <1>0
       DEF ConnectInv, Client!HandshakeTimeout, Client!chain, Client!Set, Client!Fails,
           ConnectType, HandshakeType, SendType, RequestType, ServerType, TokenInv, ServerInv,
           Open, Client!Unsent, Client!Sent
  <2>4. DoneInv'
    BY <1>11, <1>0
       DEF ConnectInv, Client!HandshakeTimeout, Client!chain, Client!Set, Client!Fails,
           ConnectType, HandshakeType, SendType, RequestType, ServerType, TokenInv, ServerInv,
           DoneInv, Open, Client!Unsent, Client!Sent
  <2>5. PmtuInv'
    BY <1>11, <1>0
       DEF ConnectInv, Client!HandshakeTimeout, Client!chain, Client!Set, Client!Fails,
           TokenInv, PmtuInv, Best, Probed, Open
  <2> QED BY <2>1, <2>2, <2>3, <2>4, <2>5 DEF ConnectInv
<1>12. CASE Client!ServerAccepts
  BY <1>12, <1>0
     DEF Client!ServerAccepts, Client!chain, Client!Set, Client!Unsent, Client!Sent, Open,
         ConnectInv, ConnectType, HandshakeType, SendType, RequestType, ServerType, TokenInv,
         ServerInv, DoneInv, PmtuInv, Best, Probed
<1>13. CASE Client!RequestAcked
  <2>1. ConnectType'
    <3>1. request' \in RequestType
      BY <1>13, <1>0
         DEF Client!RequestAcked, ConnectInv, ConnectType, RequestType, SendType
    <3> QED BY <1>13, <3>1 DEF Client!RequestAcked, ConnectInv, ConnectType, Client!chain, Open
  <2>2. TokenInv'
    BY <1>13, <1>0
       DEF ConnectInv, Client!RequestAcked, Client!chain, Client!Set, ConnectType,
           HandshakeType, SendType, RequestType, ServerType, TokenInv, Open, Client!Unsent,
           Client!Sent
  <2>3. ServerInv'
    BY <1>13, <1>0
       DEF ConnectInv, Client!RequestAcked, Client!chain, Client!Set, ConnectType,
           HandshakeType, SendType, RequestType, ServerType, TokenInv, ServerInv, Open,
           Client!Unsent, Client!Sent
  <2>4. DoneInv'
    BY <1>13, <1>0
       DEF ConnectInv, Client!RequestAcked, Client!chain, Client!Set, ConnectType,
           HandshakeType, SendType, RequestType, ServerType, TokenInv, ServerInv, DoneInv, Open,
           Client!Unsent, Client!Sent
  <2>5. PmtuInv'
    BY <1>13, <1>0
       DEF ConnectInv, Client!RequestAcked, Client!chain, Client!Set, TokenInv, PmtuInv, Best,
           Probed, Open
  <2> QED BY <2>1, <2>2, <2>3, <2>4, <2>5 DEF ConnectInv
<1>14. CASE Client!RequestFails
  BY <1>14, <1>0
     DEF Client!RequestFails, Client!chain, Client!Set, Client!Unsent, Client!Sent, Open,
         ConnectInv, ConnectType, HandshakeType, SendType, RequestType, ServerType, TokenInv,
         ServerInv, DoneInv, PmtuInv, Best, Probed, Client!Fails
<1>15. CASE Client!ResponseArrives
  <2>1. ConnectType'
    BY <1>15, <1>0
       DEF ConnectInv, Client!ResponseArrives, Client!chain, Client!Set, Client!Synchronize,
           ConnectType, HandshakeType, SendType, RequestType, ServerType, Open, Client!Unsent,
           Client!Sent, TokenInv
  <2>2. TokenInv'
    BY <1>15, <1>0
       DEF ConnectInv, Client!ResponseArrives, Client!chain, Client!Set, Client!Synchronize,
           ConnectType, HandshakeType, SendType, RequestType, ServerType, TokenInv, Open,
           Client!Unsent, Client!Sent
  <2>3. ServerInv'
    BY <1>15, <1>0
       DEF ConnectInv, Client!ResponseArrives, Client!chain, Client!Set, Client!Synchronize,
           ConnectType, HandshakeType, SendType, RequestType, ServerType, TokenInv, ServerInv,
           Open, Client!Unsent, Client!Sent
  <2>4. DoneInv'
    BY <1>15, <1>0
       DEF ConnectInv, Client!ResponseArrives, Client!chain, Client!Set, Client!Synchronize,
           ConnectType, HandshakeType, SendType, RequestType, ServerType, TokenInv, ServerInv,
           DoneInv, Open, Client!Unsent, Client!Sent
  <2>5. PmtuInv'
    BY <1>15, <1>0
       DEF ConnectInv, Client!ResponseArrives, Client!chain, Client!Set, Client!Synchronize,
           TokenInv, PmtuInv, Best, Probed, Open
  <2> QED BY <2>1, <2>2, <2>3, <2>4, <2>5 DEF ConnectInv
<1>16. CASE Client!ResponseTimeout
  BY <1>16, <1>0
     DEF Client!ResponseTimeout, Client!chain, Client!Set, Client!Unsent, Client!Sent, Open,
         ConnectInv, ConnectType, HandshakeType, SendType, RequestType, ServerType, TokenInv,
         ServerInv, DoneInv, PmtuInv, Best, Probed, Client!Fails
<1>17. CASE Client!ClockSample
  <2>1. ConnectType'
    <3>1. done' \in SendType
      BY <1>17, <1>0
         DEF Client!ClockSample, ConnectInv, ConnectType, SendType, Client!Sent, Client!Unsent
    <3> QED BY <1>17, <3>1 DEF Client!ClockSample, ConnectInv, ConnectType, Client!chain, Open
  <2>2. TokenInv'
    BY <1>17, <1>0
       DEF ConnectInv, Client!ClockSample, Client!chain, Client!Set, Client!Enough, ConnectType,
           HandshakeType, SendType, RequestType, ServerType, TokenInv, Open, Client!Unsent,
           Client!Sent
  <2>3. ServerInv'
    BY <1>17, <1>0
       DEF ConnectInv, Client!ClockSample, Client!chain, Client!Set, Client!Enough, ConnectType,
           HandshakeType, SendType, RequestType, ServerType, TokenInv, ServerInv, Open,
           Client!Unsent, Client!Sent
  <2>4. DoneInv'
    BY <1>17, <1>0
       DEF ConnectInv, Client!ClockSample, Client!chain, Client!Set, Client!Enough, ConnectType,
           HandshakeType, SendType, RequestType, ServerType, TokenInv, ServerInv, DoneInv, Open,
           Client!Unsent, Client!Sent
  <2>5. PmtuInv'
    BY <1>17, <1>0
       DEF ConnectInv, Client!ClockSample, Client!chain, Client!Set, Client!Enough, TokenInv,
           PmtuInv, Best, Probed, Open
  <2> QED BY <2>1, <2>2, <2>3, <2>4, <2>5 DEF ConnectInv
<1>18. CASE Client!ClockTimeout
  BY <1>18, <1>0
     DEF Client!ClockTimeout, Client!chain, Client!Set, Client!Unsent, Client!Sent, Open,
         ConnectInv, ConnectType, HandshakeType, SendType, RequestType, ServerType, TokenInv,
         ServerInv, DoneInv, PmtuInv, Best, Probed
<1>19. CASE Client!ServerJoins
  BY <1>19, <1>0
     DEF Client!ServerJoins, Client!chain, Client!Set, Client!Unsent, Client!Sent, Open,
         ConnectInv, ConnectType, HandshakeType, SendType, RequestType, ServerType, TokenInv,
         ServerInv, DoneInv, PmtuInv, Best, Probed
<1>20. CASE Client!ServerFilterTimesOut
  <2>1. ConnectType'
    <3>1. server' \in ServerType
      BY <1>20, <1>0
         DEF Client!ServerFilterTimesOut, ConnectInv, ConnectType, ServerType
    <3> QED BY <1>20, <3>1
       DEF Client!ServerFilterTimesOut, ConnectInv, ConnectType, Client!chain, Open
  <2>2. TokenInv'
    BY <1>20, <1>0
       DEF ConnectInv, Client!ServerFilterTimesOut, Client!chain, Client!Set, ConnectType,
           HandshakeType, SendType, RequestType, ServerType, TokenInv, Open, Client!Unsent,
           Client!Sent
  <2>3. ServerInv'
    BY <1>20, <1>0
       DEF ConnectInv, Client!ServerFilterTimesOut, Client!chain, Client!Set, ConnectType,
           HandshakeType, SendType, RequestType, ServerType, TokenInv, ServerInv, Open,
           Client!Unsent, Client!Sent
  <2>4. DoneInv'
    BY <1>20, <1>0
       DEF ConnectInv, Client!ServerFilterTimesOut, Client!chain, Client!Set, ConnectType,
           HandshakeType, SendType, RequestType, ServerType, TokenInv, ServerInv, DoneInv, Open,
           Client!Unsent, Client!Sent
  <2>5. PmtuInv'
    BY <1>20, <1>0
       DEF ConnectInv, Client!ServerFilterTimesOut, Client!chain, Client!Set, TokenInv, PmtuInv,
           Best, Probed, Open
  <2> QED BY <2>1, <2>2, <2>3, <2>4, <2>5 DEF ConnectInv
<1>21. CASE Client!DoneAcked
  BY <1>21, <1>0
     DEF Client!DoneAcked, Client!chain, Client!Set, Client!Unsent, Client!Sent, Open,
         ConnectInv, ConnectType, HandshakeType, SendType, RequestType, ServerType, TokenInv,
         ServerInv, DoneInv, PmtuInv, Best, Probed
<1>22. CASE Client!DoneFails
  BY <1>22, <1>0
     DEF Client!DoneFails, Client!chain, Client!Set, Client!Unsent, Client!Sent, Open,
         ConnectInv, ConnectType, HandshakeType, SendType, RequestType, ServerType, TokenInv,
         ServerInv, DoneInv, PmtuInv, Best, Probed
<1>23. CASE Client!ProbeAcked
  BY <1>23, <1>0
     DEF Client!ProbeAcked, Client!chain, Client!Set, Client!Unsent, Client!Sent, Open,
         ConnectInv, ConnectType, HandshakeType, SendType, RequestType, ServerType, TokenInv,
         ServerInv, DoneInv, PmtuInv, Best, Probed
<1>24. CASE Client!ProbeFails
  BY <1>24, NextAttemptProperties, <1>0
     DEF Client!ProbeFails, Client!chain, Client!Set, Client!Unsent, Client!Sent, Open,
         ConnectInv, ConnectType, HandshakeType, SendType, RequestType, ServerType, TokenInv,
         ServerInv, DoneInv, PmtuInv, Best, Probed, Client!Fails
<1>25. CASE UNCHANGED Client!vars
  BY <1>25 DEF Client!vars, ConnectInv, ConnectType, TokenInv, ServerInv, DoneInv, PmtuInv, Best
<1> QED BY <1>1, <1>2, <1>3, <1>4, <1>5, <1>6, <1>7, <1>8, <1>9, <1>10, <1>11, <1>12, <1>13,
       <1>14, <1>15, <1>16, <1>17, <1>18, <1>19, <1>20, <1>21, <1>22, <1>23, <1>24, <1>25
   DEF Client!Next, Client!Resolving, Client!Probing, Client!Handshaking, Client!Requesting,
       Client!Finishing, Client!Timers

(* The stages of connecting fit together in every reachable state.         *)
LEMMA ConnectInvariant == Client!Spec => []ConnectInv
<1>1. Client!Init => ConnectInv
  BY ConnectAssumption DEF Client!SizesAreNatural, Client!Init, Client!NULL, Client!Unsent, Open, ConnectInv,
         ConnectType, HandshakeType, SendType, RequestType, ServerType, TokenInv, ServerInv,
         DoneInv, PmtuInv, Best, Probed
<1>2. ConnectInv /\ [Client!Next]_(Client!vars) => ConnectInv'
  BY ConnectStep
<1> QED BY <1>1, <1>2, PTL DEF Client!Spec

(* An established client has earned it: whatever late result, timer or     *)
(* retry comes, only the full exchange sets ESTABLISHED, and nothing takes *)
(* it back.                                                                *)
THEOREM ClientIsEstablishedOnce == Client!Spec => []EstablishedIsEarned
<1>1. ConnectInv => EstablishedIsEarned
  BY DEF ConnectInv, ConnectType, TokenInv, ServerInv, DoneInv, EstablishedIsEarned,
         Client!EstablishedIsEarned
<1> QED BY <1>1, ConnectInvariant, PTL

(* Past discovery, the mtu in use is one the path carries, and the largest *)
(* candidate that does, lost probes apart.                                 *)
THEOREM DiscoveryFindsTheMtu == Client!Spec => []PmtuIsBest
<1>1. ConnectInv => PmtuIsBest
  BY DEF ConnectInv, PmtuInv, PmtuIsBest, Client!PmtuIsBest, Best, Probed
<1> QED BY <1>1, ConnectInvariant, PTL

(***************************************************************************)
(* The acknowledged control messages of a connection.                      *)
(***************************************************************************)
USE ControlAssumption DEF ControlAssumption

(* A message not sent yet has no result and no node.                       *)
UnsentInv ==
  \A m \in Messages : step[m] = "idle" => token[m] = "unset" /\ m \notin Control!ToSet(pending)

(* An ack on the wire answers a message the peer has got.                  *)
AcksInv == \A k \in acks : \E r \in received : Key[r] = k

NoDuplicates(s) == \A i, j \in DOMAIN s : s[i] = s[j] => i = j

ControlInv ==
  /\ Control!TypeOK
  /\ UnsentInv
  /\ AcksInv
  /\ Control!SuccessIsEarned
  /\ Control!UnfinishedIsPending
  /\ Control!AcknowledgedIsForgotten
  /\ Control!CancelledIsCompleted

-------------------------------------------------------------------------------
(* The list of pending nodes. *)

(* Ack finds the first of the matching nodes.                              *)
LEMMA FirstMatch ==
  ASSUME Control!TypeOK, NEW k, Control!Matches(k) # {}
  PROVE  Control!Min(Control!Matches(k)) \in Control!Matches(k)
<1>1. DOMAIN pending = 1 .. Len(pending) /\ Len(pending) \in Nat
  BY DEF Control!TypeOK
<1>2. Control!Matches(k) \subseteq 0 .. Len(pending)
  BY <1>1 DEF Control!Matches
<1>3. \E m \in Control!Matches(k) : \A n \in Control!Matches(k) : m <= n
  BY <1>1, <1>2, MinExists
<1> QED BY <1>3 DEF Control!Min

(* Adding a node for a message that has none.                              *)
LEMMA PushNode ==
  ASSUME Control!TypeOK, NoDuplicates(pending), NEW m \in Messages,
        m \notin Control!ToSet(pending)
  PROVE  LET t == <<m>> \o pending
         IN  t \in Seq(Messages) /\ NoDuplicates(t)
               /\ Control!ToSet(t) = Control!ToSet(pending) \cup {m}
<1> DEFINE t == <<m>> \o pending
<1>1. pending \in Seq(Messages) /\ Len(pending) \in Nat /\ DOMAIN pending = 1 .. Len(pending)
  BY DEF Control!TypeOK
<1>2. /\ t \in Seq(Messages) /\ Len(t) = Len(pending) + 1 /\ t[1] = m
      /\ \A i \in 1 .. Len(pending) : t[i + 1] = pending[i]
  BY <1>1
<1>3. DOMAIN t = 1 .. Len(pending) + 1
  BY <1>2
<1> HIDE DEF t
<1>4. \A i \in 2 .. Len(pending) + 1 : i - 1 \in DOMAIN pending /\ t[i] = pending[i - 1]
  <2> TAKE i \in 2 .. Len(pending) + 1
  <2>1. i - 1 \in 1 .. Len(pending) /\ (i - 1) + 1 = i
    BY <1>1
  <2> QED BY <1>1, <1>2, <2>1
<1>5. \A i \in DOMAIN pending : pending[i] \in Control!ToSet(pending)
  BY DEF Control!ToSet
<1>6. NoDuplicates(t)
  <2> SUFFICES ASSUME NEW i \in DOMAIN t, NEW j \in DOMAIN t, t[i] = t[j] PROVE i = j
    BY DEF NoDuplicates
  <2>1. (i = 1 \/ i \in 2 .. Len(pending) + 1) /\ (j = 1 \/ j \in 2 .. Len(pending) + 1)
    BY <1>1, <1>3
  <2>2. i # 1 /\ j # 1 => pending[i - 1] = pending[j - 1] /\ i - 1 = j - 1
    BY <1>4, <2>1 DEF NoDuplicates
  <2>3. i = 1 <=> j = 1
    BY <1>2, <1>4, <1>5, <2>1
  <2> QED BY <1>1, <2>1, <2>2, <2>3
<1>7. Control!ToSet(t) = Control!ToSet(pending) \cup {m}
  <2>1. ASSUME NEW i \in DOMAIN t PROVE t[i] \in Control!ToSet(pending) \cup {m}
    <3>1. i = 1 \/ i \in 2 .. Len(pending) + 1
      BY <1>1, <1>3
    <3> QED BY <1>2, <1>4, <1>5, <3>1
  <2>2. ASSUME NEW i \in DOMAIN pending PROVE pending[i] \in Control!ToSet(t)
    <3>1. i + 1 \in DOMAIN t /\ t[i + 1] = pending[i]
      BY <1>1, <1>2, <1>3
    <3> QED BY <3>1, Zenon DEF Control!ToSet
  <2>3. m \in Control!ToSet(t)
    <3>1. 1 \in DOMAIN t /\ t[1] = m
      BY <1>1, <1>2, <1>3
    <3> QED BY <3>1, Zenon DEF Control!ToSet
  <2>4. Control!ToSet(t) \subseteq Control!ToSet(pending) \cup {m}
    BY <2>1, Zenon DEF Control!ToSet
  <2>5. Control!ToSet(pending) \subseteq Control!ToSet(t)
    BY <2>2, Zenon DEF Control!ToSet
  <2> QED BY <2>3, <2>4, <2>5, Zenon
<1> QED BY <1>2, <1>6, <1>7 DEF t

(* What Ack does: nothing, or one message with the key loses its node, has *)
(* a result and a timer that no longer runs.                               *)
LEMMA AckEffect ==
  ASSUME Control!TypeOK, NoDuplicates(pending), NEW k, Control!Ack(k, step)
  PROVE  \/ UNCHANGED <<pending, token, step>>
         \/ \E m \in Messages :
              /\ Key[m] = k /\ m \in Control!ToSet(pending)
              /\ pending' \in Seq(Messages) /\ NoDuplicates(pending')
              /\ Control!ToSet(pending') = Control!ToSet(pending) \ {m}
              /\ Control!Set(m, "SUCCESS")
              /\ \/ step' = step
                 \/ step[m] = "armed" /\ step' = [step EXCEPT ![m] = "cancelled"]
<1>1. CASE Control!Matches(k) = {}
  BY <1>1 DEF Control!Ack
<1>2. CASE Control!Matches(k) # {}
  <2> DEFINE first == Control!Min(Control!Matches(k))
             m == pending[first]
  <2>1. /\ pending' = Control!RemoveAt(pending, first)
        /\ Control!Set(m, "SUCCESS")
        /\ step' = IF step[m] = "armed" THEN [step EXCEPT ![m] = "cancelled"] ELSE step
    BY <1>2, Zenon DEF Control!Ack
  <2>2. first \in DOMAIN pending /\ Key[m] = k
    BY <1>2, FirstMatch DEF Control!Matches
  <2> HIDE DEF first
  <2>3. pending \in Seq(Messages) /\ first \in 1 .. Len(pending)
    BY <2>2 DEF Control!TypeOK
  <2>4. m \in Messages /\ m \in Control!ToSet(pending)
    BY <2>2, <2>3 DEF Control!ToSet
  <2>5. /\ pending' \in Seq(Messages) /\ NoDuplicates(pending')
        /\ Control!ToSet(pending') = Control!ToSet(pending) \ {m}
    <3> DEFINE t == SubSeq(pending, 1, first - 1) \o SubSeq(pending, first + 1, Len(pending))
    <3>1. \A i, j \in DOMAIN pending : pending[i] = pending[j] => i = j
      BY DEF NoDuplicates
    <3>2. /\ t \in Seq(Messages)
          /\ \A i, j \in DOMAIN t : t[i] = t[j] => i = j
          /\ {t[i] : i \in DOMAIN t} = {pending[i] : i \in DOMAIN pending} \ {m}
      BY <2>3, <3>1, RemoveProperties, Zenon
    <3>3. pending' = t
      BY <2>1 DEF Control!RemoveAt
    <3> HIDE DEF t
    <3>4. NoDuplicates(pending')
      BY <3>2, <3>3 DEF NoDuplicates
    <3> QED BY <3>2, <3>3, <3>4 DEF Control!ToSet
  <2> QED BY <2>1, <2>2, <2>4, <2>5, Zenon
<1> QED BY <1>1, <1>2

-------------------------------------------------------------------------------
(* The inductive invariant. *)

(* No message is pending at first.                                         *)
LEMMA ControlInit == Control!Init => ControlInv
<1> SUFFICES ASSUME Control!Init PROVE ControlInv
  OBVIOUS
<1> USE DEF Control!Init
<1>1. Control!TypeOK
  BY DEF Control!TypeOK, Control!Steps, Control!TokenStates
<1>2. Control!ToSet(pending) = {}
  BY DEF Control!ToSet
<1>3. UnsentInv /\ Control!UnfinishedIsPending
  BY <1>2 DEF UnsentInv, Control!UnfinishedIsPending
<1>4. AcksInv /\ Control!SuccessIsEarned /\ Control!AcknowledgedIsForgotten
      /\ Control!CancelledIsCompleted
  BY DEF AcksInv, Control!SuccessIsEarned, Control!AcknowledgedIsForgotten,
      Control!CancelledIsCompleted
<1> QED BY <1>1, <1>3, <1>4 DEF ControlInv

(* The parts of ControlInv that relate the list, tokens and places.        *)
TokensLinked ==
  /\ UnsentInv /\ Control!UnfinishedIsPending /\ Control!AcknowledgedIsForgotten
        /\ Control!CancelledIsCompleted

(* A handler that leaves the list alone, gives m at most an error and      *)
(* takes m to a place where no cancellation is due, keeps them linked.     *)
LEMMA HandlerStep ==
  ASSUME ControlInv, NEW m \in Messages, step[m] # "idle",
         NEW place \in Control!Steps \ {"idle", "cancelled"}, Control!Goto(m, place),
         UNCHANGED pending,
         \/ UNCHANGED token
         \/ \E e \in {"RESEND_TIMEOUT", "SOCK_ERROR", "SSL_ERROR"} : Control!Set(m, e)
  PROVE  TokensLinked' /\ token' \in [Messages -> Control!TokenStates]
        /\ step' \in [Messages -> Control!Steps]
<1>1. /\ step \in [Messages -> Control!Steps] /\ token \in [Messages -> Control!TokenStates]
      /\ UnsentInv /\ Control!UnfinishedIsPending /\ Control!AcknowledgedIsForgotten
            /\ Control!CancelledIsCompleted
  BY DEF ControlInv, Control!TypeOK
<1>2. /\ step' \in [Messages -> Control!Steps] /\ step'[m] = place
      /\ \A n \in Messages \ {m} : step'[n] = step[n]
  BY <1>1 DEF Control!Goto
<1>3. /\ token' \in [Messages -> Control!TokenStates]
      /\ \A n \in Messages : token'[n] = token[n] \/ (n = m /\ token[n] = "unset")
      /\ token'[m] \in {token[m], "RESEND_TIMEOUT", "SOCK_ERROR", "SSL_ERROR"}
      /\ \A n \in Messages : token[n] # "unset" => token'[n] = token[n]
  BY <1>1 DEF Control!Set, Control!TokenStates
<1>4. Control!ToSet(pending)' = Control!ToSet(pending)
  BY DEF Control!ToSet
<1>5. UnsentInv'
  BY <1>1, <1>2, <1>3, <1>4 DEF UnsentInv
<1>6. Control!UnfinishedIsPending'
  BY <1>1, <1>2, <1>3, <1>4 DEF Control!UnfinishedIsPending
<1>7. Control!AcknowledgedIsForgotten'
  BY <1>1, <1>3, <1>4 DEF Control!AcknowledgedIsForgotten
<1>8. Control!CancelledIsCompleted'
  BY <1>1, <1>2, <1>3 DEF Control!CancelledIsCompleted, Control!IsCompleted
<1> QED BY <1>2, <1>3, <1>5, <1>6, <1>7, <1>8 DEF TokensLinked

(* An error is no success.                                                 *)
LEMMA ErrorIsNoSuccess ==
  ASSUME ControlInv, NEW m \in Messages, UNCHANGED received,
         \/ UNCHANGED token
         \/ \E e \in {"RESEND_TIMEOUT", "SOCK_ERROR", "SSL_ERROR"} : Control!Set(m, e)
  PROVE  Control!SuccessIsEarned'
<1>1. token \in [Messages -> Control!TokenStates] /\ Control!SuccessIsEarned
  BY DEF ControlInv, Control!TypeOK
<1>2. \A n \in Messages : token'[n] = "SUCCESS" => token[n] = "SUCCESS"
  BY <1>1 DEF Control!Set
<1> QED BY <1>1, <1>2 DEF Control!SuccessIsEarned

(* Send pushes a node to the pending list.                                 *)
LEMMA SendInv == ASSUME ControlInv, NEW m \in Messages, Control!Send(m) PROVE ControlInv'
<1> USE DEF Control!Send
<1>1. /\ Control!TypeOK /\ UnsentInv /\ Control!UnfinishedIsPending
      /\ Control!AcknowledgedIsForgotten /\ Control!CancelledIsCompleted
  BY DEF ControlInv
<1>2. m \notin Control!ToSet(pending) /\ NoDuplicates(pending) /\ token[m] = "unset"
  BY <1>1 DEF UnsentInv, Control!AcknowledgedIsForgotten, NoDuplicates
<1>3. /\ pending' \in Seq(Messages) /\ NoDuplicates(pending')
      /\ Control!ToSet(pending') = Control!ToSet(pending) \cup {m}
  BY <1>1, <1>2, PushNode, Zenon
<1>4. /\ step' \in [Messages -> Control!Steps] /\ step'[m] = "attempt"
      /\ \A n \in Messages \ {m} : step'[n] = step[n]
  BY <1>1 DEF Control!Goto, Control!TypeOK, Control!Steps
<1>5. Control!TypeOK'
  BY <1>1, <1>3, <1>4 DEF Control!TypeOK
<1>6. UnsentInv'
  BY <1>1, <1>3, <1>4 DEF UnsentInv
<1>7. Control!UnfinishedIsPending'
  BY <1>1, <1>3, <1>4 DEF Control!UnfinishedIsPending
<1>8. Control!AcknowledgedIsForgotten'
  BY <1>1, <1>2, <1>3 DEF Control!AcknowledgedIsForgotten, NoDuplicates
<1>9. Control!CancelledIsCompleted'
  BY <1>1, <1>4 DEF Control!CancelledIsCompleted, Control!IsCompleted
<1>10. Control!SuccessIsEarned' /\ AcksInv'
  BY DEF ControlInv, Control!SuccessIsEarned, AcksInv
<1> QED BY <1>5, <1>6, <1>7, <1>8, <1>9, <1>10 DEF ControlInv

(* An attempt sends, gives up or fails.                                    *)
LEMMA AttemptInv == ASSUME ControlInv, NEW m \in Messages, Control!Attempt(m) PROVE ControlInv'
<1> DEFINE Errors == {"RESEND_TIMEOUT", "SOCK_ERROR", "SSL_ERROR"}
<1>1. Control!TypeOK /\ AcksInv
  BY DEF ControlInv
<1>2. /\ step[m] # "idle" /\ UNCHANGED <<pending, acks, received>>
      /\ \E place \in Control!Steps \ {"idle", "cancelled"} : Control!Goto(m, place)
      /\ UNCHANGED token \/ \E e \in Errors : Control!Set(m, e)
  BY DEF Control!Attempt, Control!Check, Control!GiveUp, Control!SslFails, Control!Transmit,
      Control!Steps
<1>3. TokensLinked' /\ token' \in [Messages -> Control!TokenStates]
      /\ step' \in [Messages -> Control!Steps]
  BY <1>2, HandlerStep
<1>4. Control!SuccessIsEarned'
  BY <1>2, ErrorIsNoSuccess
<1>5. attemptIndex' \in [Messages -> 0 .. MaxAttempts] /\ toPeer' \subseteq Messages
  <2>1. attemptIndex \in [Messages -> 0 .. MaxAttempts] /\ toPeer \subseteq Messages
    BY <1>1 DEF Control!TypeOK
  <2>2. CASE Control!Transmit(m)
    <3>1. attemptIndex[m] + 1 \in 0 .. MaxAttempts
      BY <2>1, <2>2 DEF Control!Transmit, Control!Exhausted
    <3> QED BY <2>1, <2>2, <3>1 DEF Control!Transmit
  <2> QED BY <2>1, <2>2 DEF Control!Attempt, Control!Check, Control!GiveUp, Control!SslFails
<1>6. Control!TypeOK'
  BY <1>1, <1>2, <1>3, <1>5 DEF Control!TypeOK
<1>7. AcksInv'
  BY <1>1, <1>2 DEF AcksInv
<1> QED BY <1>3, <1>4, <1>6, <1>7 DEF ControlInv, TokensLinked

(* Timers and failed sends come back to the context.                       *)
LEMMA TimerInv ==
  ASSUME ControlInv, NEW m \in Messages, Control!SendFailed(m) \/ Control!InitTimer(m)
        \/ Control!Expire(m)
  PROVE  ControlInv'
<1> DEFINE Errors == {"RESEND_TIMEOUT", "SOCK_ERROR", "SSL_ERROR"}
<1>1. Control!TypeOK /\ AcksInv
  BY DEF ControlInv
<1>2. /\ step[m] # "idle" /\ UNCHANGED <<pending, attemptIndex, toPeer, acks, received>>
      /\ \E place \in Control!Steps \ {"idle", "cancelled"} : Control!Goto(m, place)
      /\ UNCHANGED token \/ \E e \in Errors : Control!Set(m, e)
  BY DEF Control!SendFailed, Control!InitTimer, Control!Expire, Control!Steps
<1>3. TokensLinked' /\ token' \in [Messages -> Control!TokenStates]
      /\ step' \in [Messages -> Control!Steps]
  BY <1>2, HandlerStep
<1>4. Control!SuccessIsEarned'
  BY <1>2, ErrorIsNoSuccess
<1>5. Control!TypeOK'
  BY <1>1, <1>2, <1>3 DEF Control!TypeOK
<1>6. AcksInv'
  BY <1>1, <1>2 DEF AcksInv
<1> QED BY <1>3, <1>4, <1>5, <1>6 DEF ControlInv, TokensLinked

(* The handler of a cancelled timer has nothing left to do.                *)
LEMMA CancelledInv == ASSUME ControlInv, NEW m \in Messages, Control!Cancelled(m)
      PROVE ControlInv'
<1>1. Control!TypeOK /\ AcksInv /\ Control!IsCompleted(m)
  BY DEF ControlInv, Control!CancelledIsCompleted, Control!Cancelled
<1>2. /\ step[m] # "idle" /\ Control!Goto(m, "over")
      /\ UNCHANGED <<pending, token, attemptIndex, toPeer, acks, received>>
  BY <1>1 DEF Control!Cancelled
<1>3. "over" \in Control!Steps \ {"idle", "cancelled"}
  BY DEF Control!Steps
<1>4. TokensLinked' /\ token' \in [Messages -> Control!TokenStates]
      /\ step' \in [Messages -> Control!Steps]
  BY <1>2, <1>3, HandlerStep
<1>5. Control!SuccessIsEarned'
  BY <1>2, ErrorIsNoSuccess
<1>6. Control!TypeOK'
  BY <1>1, <1>2, <1>4 DEF Control!TypeOK
<1>7. AcksInv'
  BY <1>1, <1>2 DEF AcksInv
<1> QED BY <1>4, <1>5, <1>6, <1>7 DEF ControlInv, TokensLinked

(* An ack takes its node out of the list and sets its token.               *)
LEMMA ReceiveAckInv == ASSUME ControlInv, NEW k \in Keys, Control!ReceiveAck(k) PROVE ControlInv'
<1> USE DEF Control!ReceiveAck
<1>1. /\ Control!TypeOK /\ AcksInv /\ UnsentInv /\ Control!UnfinishedIsPending
      /\ Control!AcknowledgedIsForgotten /\ Control!CancelledIsCompleted
            /\ Control!SuccessIsEarned
  BY DEF ControlInv
<1>2. acks' \subseteq acks /\ UNCHANGED <<attemptIndex, toPeer, received>>
  OBVIOUS
<1>3. AcksInv'
  BY <1>1, <1>2 DEF AcksInv
<1>4. NoDuplicates(pending)
  BY <1>1 DEF Control!AcknowledgedIsForgotten, NoDuplicates
<1>5. CASE UNCHANGED <<pending, token, step>>
  <2>1. Control!TypeOK' /\ UnsentInv' /\ Control!UnfinishedIsPending'
        /\ Control!AcknowledgedIsForgotten'
    BY <1>1, <1>2, <1>5 DEF Control!TypeOK, UnsentInv, Control!UnfinishedIsPending,
        Control!AcknowledgedIsForgotten
  <2>2. Control!CancelledIsCompleted' /\ Control!SuccessIsEarned'
    BY <1>1, <1>2, <1>5 DEF Control!CancelledIsCompleted, Control!IsCompleted,
        Control!SuccessIsEarned
  <2> QED BY <1>3, <2>1, <2>2 DEF ControlInv
<1>6. ASSUME NEW m \in Messages,
             Key[m] = k, m \in Control!ToSet(pending),
             pending' \in Seq(Messages), NoDuplicates(pending'),
             Control!ToSet(pending') = Control!ToSet(pending) \ {m},
             Control!Set(m, "SUCCESS"),
             step' = step \/ (step[m] = "armed" /\ step' = [step EXCEPT ![m] = "cancelled"])
      PROVE  ControlInv'
  <2>1. /\ token' \in [Messages -> Control!TokenStates]
        /\ token'[m] = IF token[m] = "unset" THEN "SUCCESS" ELSE token[m]
        /\ \A n \in Messages \ {m} : token'[n] = token[n]
    BY <1>1, <1>6 DEF Control!Set, Control!TypeOK, Control!TokenStates
  <2>2. /\ step' \in [Messages -> Control!Steps]
        /\ step'[m] \in {step[m], "cancelled"} /\ (step'[m] = "idle" => step[m] = "idle")
        /\ \A n \in Messages \ {m} : step'[n] = step[n]
    BY <1>1, <1>6 DEF Control!TypeOK, Control!Steps
  <2>3. token'[m] # "unset" /\ step[m] # "idle"
    BY <1>1, <1>6, <2>1 DEF UnsentInv
  <2>4. Control!TypeOK'
    BY <1>1, <1>2, <1>6, <2>1, <2>2 DEF Control!TypeOK
  <2>5. UnsentInv'
    BY <1>1, <1>6, <2>1, <2>2, <2>3 DEF UnsentInv
  <2>6. Control!UnfinishedIsPending'
    BY <1>1, <1>6, <2>1, <2>2, <2>3 DEF Control!UnfinishedIsPending
  <2>7. Control!AcknowledgedIsForgotten'
    BY <1>1, <1>6, <2>1 DEF Control!AcknowledgedIsForgotten, NoDuplicates
  <2>8. Control!CancelledIsCompleted'
    BY <1>1, <2>1, <2>2, <2>3 DEF Control!CancelledIsCompleted, Control!IsCompleted
  <2>9. Control!SuccessIsEarned'
    <3>1. \E r \in received : Key[r] = Key[m]
      BY <1>1, <1>6 DEF AcksInv
    <3> QED BY <1>1, <1>2, <2>1, <3>1 DEF Control!SuccessIsEarned
  <2> QED BY <1>3, <2>4, <2>5, <2>6, <2>7, <2>8, <2>9 DEF ControlInv
<1> QED BY <1>1, <1>4, <1>5, <1>6, AckEffect

(* The network loses and delivers.                                         *)
LEMMA NetworkInv ==
  ASSUME ControlInv, Control!Lose \/ \E m \in Messages : Control!Arrive(m)
  PROVE  ControlInv'
<1>1. Control!TypeOK /\ AcksInv /\ Control!SuccessIsEarned
  BY DEF ControlInv
<1>2. UNCHANGED <<pending, token, step, attemptIndex>> /\ received \subseteq received'
  BY DEF Control!Lose, Control!Arrive
<1>3. /\ toPeer' \subseteq toPeer /\ received' \subseteq Messages
      /\ acks' \subseteq Keys /\ AcksInv'
  <2>1. CASE Control!Lose
    BY <1>1, <2>1 DEF Control!Lose, Control!TypeOK, AcksInv
  <2>2. ASSUME NEW m \in Messages, Control!Arrive(m)
        PROVE  /\ toPeer' \subseteq toPeer /\ received' \subseteq Messages
               /\ acks' \subseteq Keys /\ AcksInv'
    <3>1. Key[m] \in Keys
      OBVIOUS
    <3> QED BY <1>1, <2>2, <3>1 DEF Control!Arrive, Control!TypeOK, AcksInv
  <2> QED BY <2>1, <2>2
<1>4. Control!TypeOK'
  BY <1>1, <1>2, <1>3 DEF Control!TypeOK
<1>5. Control!SuccessIsEarned'
  BY <1>1, <1>2 DEF Control!SuccessIsEarned
<1>6. UnsentInv' /\ Control!UnfinishedIsPending' /\ Control!AcknowledgedIsForgotten'
      /\ Control!CancelledIsCompleted'
  BY <1>2 DEF ControlInv, UnsentInv, Control!UnfinishedIsPending, Control!AcknowledgedIsForgotten,
              Control!CancelledIsCompleted, Control!IsCompleted
<1> QED BY <1>3, <1>4, <1>5, <1>6 DEF ControlInv

LEMMA ControlStutter == ASSUME ControlInv, UNCHANGED Control!vars PROVE ControlInv'
<1> USE DEF Control!vars
<1>1. Control!TypeOK' /\ UnsentInv' /\ AcksInv' /\ Control!SuccessIsEarned'
  BY DEF ControlInv, Control!TypeOK, UnsentInv, AcksInv, Control!SuccessIsEarned
<1>2. Control!UnfinishedIsPending' /\ Control!AcknowledgedIsForgotten'
      /\ Control!CancelledIsCompleted'
  BY DEF ControlInv, Control!UnfinishedIsPending, Control!AcknowledgedIsForgotten,
      Control!CancelledIsCompleted, Control!IsCompleted
<1> QED BY <1>1, <1>2 DEF ControlInv

(* No step breaks the invariant.                                           *)
LEMMA ControlNext == ControlInv /\ [Control!Next]_Control!vars => ControlInv'
<1> SUFFICES ASSUME ControlInv, [Control!Next]_Control!vars PROVE ControlInv'
  OBVIOUS
<1>1. ASSUME NEW m \in Messages, Control!Send(m) PROVE ControlInv'
  BY <1>1, SendInv
<1>2. ASSUME NEW m \in Messages, Control!Attempt(m) PROVE ControlInv'
  BY <1>2, AttemptInv
<1>3. ASSUME NEW m \in Messages, Control!SendFailed(m) \/ Control!InitTimer(m)
      \/ Control!Expire(m) PROVE ControlInv'
  BY <1>3, TimerInv
<1>4. ASSUME NEW m \in Messages, Control!Cancelled(m) PROVE ControlInv'
  BY <1>4, CancelledInv
<1>5. ASSUME NEW k \in Keys, Control!ReceiveAck(k) PROVE ControlInv'
  BY <1>5, ReceiveAckInv
<1>6. ASSUME Control!Lose \/ \E m \in Messages : Control!Arrive(m) PROVE ControlInv'
  BY <1>6, NetworkInv
<1>7. CASE UNCHANGED Control!vars
  BY <1>7, ControlStutter
<1> QED BY <1>1, <1>2, <1>3, <1>4, <1>5, <1>6, <1>7 DEF Control!Next, Control!Handler

(* Every reachable state satisfies the inductive invariant.                *)
THEOREM ControlInvariance == Control!Spec => []ControlInv
BY ControlInit, ControlNext, PTL DEF Control!Spec

-------------------------------------------------------------------------------

(* Lists, tokens, places, counters and wires keep their types; attemptIndex *)
(* never passes maxAttempts.                                               *)
THEOREM ControlTypeCorrect == Control!Spec => []Control!TypeOK
<1>1. ControlInv => Control!TypeOK
  BY DEF ControlInv
<1> QED BY <1>1, ControlInvariance, PTL

(* No success without an ack for the message's key.                        *)
THEOREM SuccessEarned == Control!Spec => []SuccessIsEarned
<1>1. ControlInv => SuccessIsEarned
  BY DEF ControlInv, SuccessIsEarned
<1> QED BY <1>1, ControlInvariance, PTL

(* An ack of a message without a result finds its node.                    *)
THEOREM UnfinishedPending == Control!Spec => []UnfinishedIsPending
<1>1. ControlInv => UnfinishedIsPending
  BY DEF ControlInv, UnfinishedIsPending
<1> QED BY <1>1, ControlInvariance, PTL

(* An acknowledged message has no node and no message has two.             *)
THEOREM AcknowledgedForgotten == Control!Spec => []Control!AcknowledgedIsForgotten
<1>1. ControlInv => Control!AcknowledgedIsForgotten
  BY DEF ControlInv
<1> QED BY <1>1, ControlInvariance, PTL

(* A cancelled timer belongs to a message with a result.                   *)
THEOREM CancelledCompleted == Control!Spec => []Control!CancelledIsCompleted
<1>1. ControlInv => Control!CancelledIsCompleted
  BY DEF ControlInv
<1> QED BY <1>1, ControlInvariance, PTL
=============================================================================
