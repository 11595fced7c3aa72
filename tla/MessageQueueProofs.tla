------------------------- MODULE MessageQueueProofs -------------------------
(***************************************************************************)
(* The queue loses nothing and hands its batches over newest first, for    *)
(* any number of producers, nodes and messages.                            *)
(*                                                                         *)
(* The inductive invariant names what the pointers only imply: the list q  *)
(* that starts at head, the list w the consumer has still to walk, and for *)
(* each batch the number e[i] of messages published when it was taken.     *)
(* Then the shared list is the newest Len(q) of the published messages,    *)
(* read backwards, w the part before it, and the batches the rest.         *)
(***************************************************************************)
EXTENDS MessageQueue, DataLemmas

MaybeNode == Addresses \cup {Null}

QueueType ==
  /\ head \in MaybeNode /\ taken \in MaybeNode /\ iter \in MaybeNode
  /\ created \in Nat
  /\ next \in [Addresses -> MaybeNode]
  /\ content \in [Addresses -> 0 .. created]
  /\ pc \in [Producers -> {"idle", "load", "link", "cas"}]
  /\ node \in [Producers -> MaybeNode] /\ seen \in [Producers -> MaybeNode]
  /\ consumer \in {"load", "cas", "walk"}
  /\ published \in Seq(Nat) /\ batches \in Seq(Seq(Nat))

(* No message is published twice.                                          *)
PublishedOnce ==
  /\ \A i, j \in 1 .. Len(published) : published[i] = published[j] => i = j
  /\ \A i \in 1 .. Len(published) : published[i] \in 1 .. created

(* The node a producer is about to publish is its own, and keeps the link  *)
(* it was given until the exchange.                                        *)
PrivateNode(p) ==
  /\ node[p] \in Addresses /\ content[node[p]] # 0
  /\ \A i \in 1 .. Len(published) : published[i] # content[node[p]]
  /\ \A r \in Producers \ {p} : pc[r] # "idle" => content[node[r]] # content[node[p]]
  /\ pc[p] = "cas" => next[node[p]] = seen[p]

PrivateInv == \A p \in Producers : pc[p] # "idle" => PrivateNode(p)

IsList(from, q) ==
  /\ from = IF q = <<>> THEN Null ELSE q[1]
  /\ \A i \in 1 .. Len(q) : next[q[i]] = IF i = Len(q) THEN Null ELSE q[i + 1]

(* The nodes of q hold the Len(q) messages published up to the last-th,    *)
(* the newest first.                                                       *)
Holds(q, last) == \A i \in 1 .. Len(q) : content[q[i]] = published[last + 1 - i]

SharedInv(q, w, e) ==
  /\ IsList(head, q) /\ Holds(q, Len(published))
  /\ Len(published) = e[Len(batches)] + Len(q)

WalkInv(q, w, e) ==
  /\ IsList(iter, w) /\ Holds(w, e[Len(batches) - 1] + Len(w))
  /\ w # <<>> => Len(batches) > 0 /\ consumer = "walk"

BatchesInv(q, w, e) ==
  /\ e[0] = 0
  /\ \A i \in 1 .. Len(batches) :
       /\ e[i] = e[i - 1] + Len(batches[i]) + (IF i = Len(batches) THEN Len(w) ELSE 0)
       /\ \A j \in 1 .. Len(batches[i]) : batches[i][j] = published[e[i] + 1 - j]

ListsInv(q, w, e) == SharedInv(q, w, e) /\ WalkInv(q, w, e) /\ BatchesInv(q, w, e)

ListsExist ==
  \E q, w \in Seq(Addresses), e \in [0 .. Len(batches) -> 0 .. Len(published)] : ListsInv(q, w, e)

QueueInv == QueueType /\ PublishedOnce /\ PrivateInv /\ ListsExist

-----------------------------------------------------------------------------
(* The lists behind the pointers.                                          *)

(* What can be reached from a list's first node is the list.               *)
LEMMA ReachIsList ==
  ASSUME QueueType, NEW from, NEW q \in Seq(Addresses), IsList(from, q)
  PROVE  Reach(from) = {q[i] : i \in 1 .. Len(q)}
<1> DEFINE R == {q[i] : i \in 1 .. Len(q)}
           Closed(nodes) == /\ from \in nodes \cup {Null}
                            /\ \A b \in nodes : next[b] \in nodes \cup {Null}
<1>1. \A i \in 1 .. Len(q) : q[i] \in Addresses /\ q[i] # Null
  BY QueueAssumption
<1>2. Len(q) \in Nat /\ R \in SUBSET Addresses
  BY <1>1
<1>3. Closed(R)
  <2>1. from \in R \cup {Null}
    <3>1. CASE q = <<>>
      BY <3>1 DEF IsList
    <3>2. CASE q # <<>>
      <4>1. 1 \in 1 .. Len(q)
        BY <1>2, <3>2, EmptySeq
      <4> QED BY <3>2, <4>1 DEF IsList
    <3> QED BY <3>1, <3>2
  <2>2. ASSUME NEW i \in 1 .. Len(q) PROVE next[q[i]] \in R \cup {Null}
    <3>1. CASE i = Len(q)
      BY <3>1 DEF IsList
    <3>2. CASE i # Len(q)
      <4>1. i + 1 \in 1 .. Len(q)
        BY <1>2, <3>2
      <4>2. next[q[i]] = q[i + 1]
        BY <3>2 DEF IsList
      <4> QED BY <4>1, <4>2
    <3> QED BY <3>1, <3>2
  <2> QED BY <2>1, <2>2
<1>4. ASSUME NEW nodes \in SUBSET Addresses, Closed(nodes), NEW n \in 1 .. Len(q), q[n] \notin nodes
      PROVE  FALSE
  <2> DEFINE Out == {x \in 1 .. Len(q) : q[x] \notin nodes}
  <2>1. PICK m \in Out : \A x \in Out : m <= x
    <3>1. Out \subseteq 0 .. Len(q) /\ Out # {}
      BY <1>4
    <3> HIDE DEF Out
    <3> QED BY <1>2, <3>1, MinExists
  <2>2. m \in 1 .. Len(q) /\ q[m] \notin nodes
    BY <2>1
  <2>3. CASE m = 1
    <3>1. q # <<>>
      BY <1>2, <2>2, EmptySeq
    <3>2. from = q[1]
      BY <3>1 DEF IsList
    <3> QED BY <1>1, <1>4, <2>2, <2>3, <3>2
  <2>4. CASE m # 1
    <3>1. m - 1 \in 1 .. Len(q) /\ m - 1 # Len(q) /\ (m - 1) + 1 = m /\ ~ (m <= m - 1)
      BY <1>2, <2>2, <2>4
    <3>2. q[m - 1] \in nodes
      BY <2>1, <3>1
    <3>3. next[q[m - 1]] = q[m]
      BY <3>1 DEF IsList
    <3> QED BY <1>1, <1>4, <2>2, <3>2, <3>3
  <2> QED BY <2>3, <2>4
<1>5. Reach(from) = {a \in Addresses : \A nodes \in SUBSET Addresses : Closed(nodes) => a \in nodes}
  BY Zenon DEF Reach
<1> HIDE DEF Closed
<1> QED BY <1>2, <1>3, <1>4, <1>5

(* Where the messages of the lists and of the batches are in published.    *)
LEMMA Positions ==
  ASSUME QueueType,
         NEW q \in Seq(Addresses), NEW w \in Seq(Addresses),
         NEW e \in [0 .. Len(batches) -> 0 .. Len(published)], ListsInv(q, w, e)
  PROVE  /\ Len(published) \in Nat /\ Len(batches) \in Nat /\ Len(q) \in Nat /\ Len(w) \in Nat
         /\ \A i \in 0 .. Len(batches) : e[i] \in Nat /\ e[i] <= Len(published)
         /\ Len(published) = e[Len(batches)] + Len(q)
         /\ \A i \in 1 .. Len(q) :
              /\ Len(published) + 1 - i \in 1 .. Len(published)
              /\ Len(published) + 1 - i > e[Len(batches)]
              /\ content[q[i]] = published[Len(published) + 1 - i]
         /\ \A i \in 1 .. Len(w) :
              /\ e[Len(batches) - 1] + Len(w) + 1 - i \in 1 .. Len(published)
              /\ e[Len(batches) - 1] + Len(w) + 1 - i <= e[Len(batches)]
              /\ content[w[i]] = published[e[Len(batches) - 1] + Len(w) + 1 - i]
         /\ \A i \in 1 .. Len(batches) :
              /\ batches[i] \in Seq(Nat) /\ Len(batches[i]) \in Nat
              /\ e[i - 1] \in Nat /\ e[i] \in Nat /\ e[i - 1] <= e[i]
              /\ \A j \in 1 .. Len(batches[i]) : e[i] + 1 - j \in 1 .. Len(published)
<1> DEFINE n == Len(published)
           k == Len(batches)
<1>1. n \in Nat /\ k \in Nat /\ Len(q) \in Nat /\ Len(w) \in Nat
  BY DEF QueueType
<1>2. \A i \in 0 .. k : e[i] \in Nat /\ e[i] <= n
  <2>1. e[0] \in 0 .. n /\ \A i \in 0 .. k : e[i] \in 0 .. n
    BY <1>1
  <2> HIDE DEF n, k
  <2> QED BY <1>1, <2>1
<1>3. n = e[k] + Len(q)
  BY DEF ListsInv, SharedInv
<1>4. ASSUME NEW i \in 1 .. Len(q)
      PROVE  n + 1 - i \in 1 .. n /\ n + 1 - i > e[k] /\ content[q[i]] = published[n + 1 - i]
  <2>1. content[q[i]] = published[n + 1 - i]
    BY DEF ListsInv, SharedInv, Holds
  <2>2. e[k] \in Nat
    BY <1>1, <1>2
  <2> HIDE DEF n, k
  <2> QED BY <1>1, <1>3, <2>1, <2>2
<1>5. ASSUME NEW i \in 1 .. k
      PROVE  /\ batches[i] \in Seq(Nat) /\ Len(batches[i]) \in Nat
             /\ e[i - 1] \in Nat /\ e[i] \in Nat /\ e[i - 1] <= e[i] /\ e[i] <= n
             /\ e[i] = e[i - 1] + Len(batches[i]) + (IF i = k THEN Len(w) ELSE 0)
  <2>1. batches[i] \in Seq(Nat)
    BY DEF QueueType
  <2>2. Len(batches[i]) \in Nat
    BY <2>1
  <2>3. e[i] = e[i - 1] + Len(batches[i]) + (IF i = k THEN Len(w) ELSE 0)
    BY DEF ListsInv, BatchesInv
  <2>4. i \in 0 .. k /\ i - 1 \in 0 .. k
    BY <1>1
  <2>5. e[i] \in Nat /\ e[i - 1] \in Nat /\ e[i] <= n
    BY <1>2, <2>4
  <2> HIDE DEF n, k
  <2> QED BY <1>1, <2>1, <2>2, <2>3, <2>5
<1>6. ASSUME NEW i \in 1 .. k, NEW j \in 1 .. Len(batches[i]) PROVE e[i] + 1 - j \in 1 .. n
  <2>1. /\ Len(batches[i]) \in Nat /\ e[i - 1] \in Nat /\ e[i] \in Nat /\ e[i] <= n
        /\ e[i] >= e[i - 1] + Len(batches[i])
    <3> DEFINE rest == IF i = k THEN Len(w) ELSE 0
    <3>1. rest \in Nat
      BY <1>1
    <3>2. /\ Len(batches[i]) \in Nat /\ e[i - 1] \in Nat /\ e[i] \in Nat /\ e[i] <= n
          /\ e[i] = e[i - 1] + Len(batches[i]) + rest
      BY <1>5, Zenon
    <3> HIDE DEF n, k, rest
    <3> QED BY <1>1, <3>1, <3>2
  <2>2. n \in Nat /\ j \in Nat /\ 1 <= j /\ j <= Len(batches[i])
    BY <1>1, <2>1
  <2>3. PICK a \in Nat, b \in Nat, c \in Nat : a = e[i] /\ b = e[i - 1] /\ c = Len(batches[i])
    BY <2>1
  <2>4. a <= n /\ a >= b + c /\ j <= c
    BY <2>1, <2>2, <2>3
  <2>5. a + 1 - j \in 1 .. n
    <3> HIDE DEF n, k
    <3> QED BY <2>2, <2>4
  <2> QED BY <2>3, <2>5
<1>7. ASSUME NEW i \in 1 .. Len(w)
      PROVE  /\ e[k - 1] + Len(w) + 1 - i \in 1 .. n
             /\ e[k - 1] + Len(w) + 1 - i <= e[k]
             /\ content[w[i]] = published[e[k - 1] + Len(w) + 1 - i]
  <2>1. content[w[i]] = published[e[k - 1] + Len(w) + 1 - i]
    BY DEF ListsInv, WalkInv, Holds
  <2>2. w # <<>>
    BY <1>1, EmptySeq
  <2>3. k \in 1 .. k
    BY <1>1, <2>2 DEF ListsInv, WalkInv
  <2>4. /\ e[k - 1] \in Nat /\ e[k] \in Nat /\ e[k] <= n /\ Len(batches[k]) \in Nat
        /\ e[k] = e[k - 1] + Len(batches[k]) + Len(w)
    BY <1>5, <2>3
  <2> DEFINE base == e[k - 1]
             top == e[k]
  <2>5. base \in Nat /\ top <= n /\ top \in Nat /\ top >= base + Len(w)
    <3> HIDE DEF n, k
    <3> QED BY <1>1, <2>4
  <2>6. base + Len(w) + 1 - i \in 1 .. n /\ base + Len(w) + 1 - i <= top
    <3> HIDE DEF n, k, base, top
    <3> QED BY <1>1, <2>5
  <2> QED BY <2>1, <2>6
<1> QED BY <1>1, <1>2, <1>3, <1>4, <1>5, <1>6, <1>7, Zenon

(* A node on a list holds a published message: it is not free and no       *)
(* producer's.                                                             *)
LEMMA ListedNodes ==
  ASSUME QueueType, PublishedOnce, PrivateInv,
         NEW q \in Seq(Addresses), NEW w \in Seq(Addresses),
         NEW e \in [0 .. Len(batches) -> 0 .. Len(published)], ListsInv(q, w, e)
  PROVE  /\ \A i \in 1 .. Len(q) :
              /\ q[i] \in Addresses /\ content[q[i]] # 0
              /\ \A p \in Producers : pc[p] # "idle" => node[p] # q[i]
         /\ \A i \in 1 .. Len(w) :
              /\ w[i] \in Addresses /\ content[w[i]] # 0
              /\ \A p \in Producers : pc[p] # "idle" => node[p] # w[i]
         /\ \A i \in 1 .. Len(q), j \in 1 .. Len(w) : q[i] # w[j]
         /\ \A i, j \in 1 .. Len(w) : w[i] = w[j] => i = j
<1>1. ASSUME NEW a, NEW i \in 1 .. Len(published), content[a] = published[i]
      PROVE  content[a] # 0 /\ \A p \in Producers : pc[p] # "idle" => node[p] # a
  <2>1. published[i] \in 1 .. created /\ created \in Nat
    BY DEF PublishedOnce, QueueType
  <2> QED BY <1>1, <2>1 DEF PrivateInv, PrivateNode
<1>2. ASSUME NEW i \in 1 .. Len(q)
      PROVE  /\ q[i] \in Addresses /\ content[q[i]] # 0
             /\ \A p \in Producers : pc[p] # "idle" => node[p] # q[i]
  <2>1. /\ Len(published) + 1 - i \in 1 .. Len(published)
        /\ content[q[i]] = published[Len(published) + 1 - i]
    BY Positions, Zenon
  <2>2. content[q[i]] # 0 /\ \A p \in Producers : pc[p] # "idle" => node[p] # q[i]
    BY <1>1, <2>1, Zenon
  <2> QED BY <2>2
<1>3. ASSUME NEW i \in 1 .. Len(w)
      PROVE  /\ w[i] \in Addresses /\ content[w[i]] # 0
             /\ \A p \in Producers : pc[p] # "idle" => node[p] # w[i]
  <2>1. /\ e[Len(batches) - 1] + Len(w) + 1 - i \in 1 .. Len(published)
        /\ content[w[i]] = published[e[Len(batches) - 1] + Len(w) + 1 - i]
    BY Positions, Zenon
  <2>2. content[w[i]] # 0 /\ \A p \in Producers : pc[p] # "idle" => node[p] # w[i]
    BY <1>1, <2>1, Zenon
  <2> QED BY <2>2
<1>4. ASSUME NEW i \in 1 .. Len(q), NEW j \in 1 .. Len(w), q[i] = w[j] PROVE FALSE
  <2> DEFINE x == Len(published) + 1 - i
             y == e[Len(batches) - 1] + Len(w) + 1 - j
  <2>1. x \in 1 .. Len(published) /\ x > e[Len(batches)] /\ content[q[i]] = published[x]
    BY Positions, Zenon
  <2>2. y \in 1 .. Len(published) /\ y <= e[Len(batches)] /\ content[w[j]] = published[y]
    BY Positions, Zenon
  <2>3. Len(published) \in Nat /\ e[Len(batches)] \in Nat
    <3>1. Len(batches) \in Nat /\ Len(published) \in Nat
      BY Positions, Zenon
    <3>2. Len(batches) \in 0 .. Len(batches)
      BY <3>1
    <3> QED BY <3>1, <3>2, Positions, Zenon
  <2> HIDE DEF x, y
  <2>4. x = y
    BY <1>4, <2>1, <2>2 DEF PublishedOnce
  <2> QED BY <2>1, <2>2, <2>3, <2>4
<1> DEFINE base == e[Len(batches) - 1] + Len(w)
<1>5. ASSUME NEW x \in 1 .. Len(w)
      PROVE  base + 1 - x \in 1 .. Len(published) /\ content[w[x]] = published[base + 1 - x]
  BY Positions, Zenon
<1>6. ASSUME NEW i \in 1 .. Len(w), NEW j \in 1 .. Len(w), w[i] = w[j] PROVE i = j
  <2>1. base + 1 - i \in 1 .. Len(published) /\ content[w[i]] = published[base + 1 - i]
    BY <1>5, Zenon
  <2>2. base + 1 - j \in 1 .. Len(published) /\ content[w[j]] = published[base + 1 - j]
    BY <1>5, Zenon
  <2>3. base \in Int
    <3>1. w # <<>> /\ Len(w) \in Nat
      BY EmptySeq
    <3>2. Len(batches) - 1 \in 0 .. Len(batches)
      BY <3>1, Positions DEF ListsInv, WalkInv
    <3>3. e[Len(batches) - 1] \in Nat
      BY <3>2, Positions
    <3> QED BY <3>1, <3>3
  <2> HIDE DEF base
  <2>4. base + 1 - i = base + 1 - j
    BY <1>6, <2>1, <2>2 DEF PublishedOnce
  <2> QED BY <2>3, <2>4
<1> HIDE DEF base
<1> QED BY <1>2, <1>3, <1>4, <1>6

-----------------------------------------------------------------------------
(* The invariant is inductive.                                             *)

(* Nobody has anything at first.                                           *)
LEMMA QueueInit == Init => QueueInv
<1> SUFFICES ASSUME Init PROVE QueueInv
  OBVIOUS
<1> USE DEF Init
<1>1. QueueType
  BY DEF QueueType, MaybeNode
<1>2. PublishedOnce /\ PrivateInv
  BY DEF PublishedOnce, PrivateInv
<1>3. ListsExist
  <2> DEFINE none == [i \in 0 .. Len(batches) |-> 0]
  <2>1. none \in [0 .. Len(batches) -> 0 .. Len(published)] /\ none[0] = 0
    OBVIOUS
  <2>2. <<>> \in Seq(Addresses) /\ Len(published) = 0 /\ Len(batches) = 0
    OBVIOUS
  <2>3. ASSUME NEW q \in Seq(Addresses), q = <<>> PROVE ListsInv(q, q, none)
    BY <2>2, <2>3 DEF ListsInv, SharedInv, WalkInv, BatchesInv, IsList, Holds
  <2> HIDE DEF none
  <2> QED BY <2>1, <2>2, <2>3 DEF ListsExist
<1> QED BY <1>1, <1>2, <1>3 DEF QueueInv

(* The node the consumer is at is the first of its list, has a batch to go *)
(* to and is no producer's.                                                *)
LEMMA WalkNode ==
  ASSUME QueueInv, Walk
  PROVE  \E q, w \in Seq(Addresses), e \in [0 .. Len(batches) -> 0 .. Len(published)] :
           /\ ListsInv(q, w, e)
           /\ Len(w) \in Nat \ {0} /\ w[1] = iter /\ w # <<>>
           /\ Len(batches) \in Nat \ {0}
           /\ \A p \in Producers : pc[p] # "idle" => node[p] # iter
<1>1. PICK q \in Seq(Addresses), w \in Seq(Addresses),
           e \in [0 .. Len(batches) -> 0 .. Len(published)] : ListsInv(q, w, e)
  BY DEF QueueInv, ListsExist
<1>2. w # <<>> /\ w[1] = iter
  BY <1>1 DEF ListsInv, WalkInv, IsList, Walk
<1>3. Len(w) \in Nat \ {0} /\ 1 \in 1 .. Len(w)
  <2>1. Len(w) \in Nat /\ Len(w) # 0
    BY <1>2, EmptySeq
  <2> QED BY <2>1
<1>4. Len(batches) \in Nat \ {0}
  <2>1. batches \in Seq(Seq(Nat)) /\ Len(batches) > 0
    BY <1>1, <1>2 DEF ListsInv, WalkInv, QueueInv, QueueType
  <2> QED BY <2>1
<1>5. \A p \in Producers : pc[p] # "idle" => node[p] # w[1]
  <2>1. QueueType /\ PublishedOnce /\ PrivateInv
    BY DEF QueueInv
  <2>2. \A i \in 1 .. Len(w) : \A p \in Producers : pc[p] # "idle" => node[p] # w[i]
    BY <1>1, <2>1, ListedNodes, Zenon
  <2> QED BY <1>3, <2>2
<1> QED BY <1>1, <1>2, <1>3, <1>4, <1>5

(* Every variable keeps its type.                                          *)
LEMMA TypeStep == QueueInv /\ [Next]_vars => QueueType'
<1> SUFFICES ASSUME QueueInv, [Next]_vars PROVE QueueType'
  OBVIOUS
<1> USE QueueAssumption DEF QueueInv, QueueType, MaybeNode, producerVars, consumerVars
<1>1. ASSUME NEW p \in Producers, Receive(p) PROVE QueueType'
  <2>1. PICK a \in Addresses : /\ node' = [node EXCEPT ![p] = a]
                               /\ content' = [content EXCEPT ![a] = created + 1]
                               /\ next' = [next EXCEPT ![a] = Null]
    BY <1>1 DEF Receive
  <2>2. content' \in [Addresses -> 0 .. created'] /\ created' \in Nat
    BY <1>1, <2>1 DEF Receive
  <2> QED BY <1>1, <2>1, <2>2 DEF Receive
<1>2. ASSUME NEW p \in Producers, ProduceLoad(p) PROVE QueueType'
  BY <1>2 DEF ProduceLoad
<1>3. ASSUME NEW p \in Producers, ProduceLink(p) PROVE QueueType'
  BY <1>3 DEF ProduceLink
<1>4. ASSUME NEW p \in Producers, ProduceCas(p) PROVE QueueType'
  <2>1. node[p] \in Addresses
    BY <1>4 DEF ProduceCas, PrivateInv, PrivateNode
  <2>2. content[node[p]] \in Nat
    BY <2>1
  <2>3. published' \in Seq(Nat)
    BY <1>4, <2>2 DEF ProduceCas
  <2> QED BY <1>4, <2>1, <2>3 DEF ProduceCas
<1>5. ASSUME NEW p \in Producers, ProduceRetry(p) PROVE QueueType'
  BY <1>5 DEF ProduceRetry
<1>6. CASE ConsumeLoad
  BY <1>6 DEF ConsumeLoad
<1>7. CASE ConsumeCas
  <2>1. <<>> \in Seq(Nat)
    OBVIOUS
  <2>2. batches' \in Seq(Seq(Nat))
    BY <1>7, <2>1 DEF ConsumeCas
  <2> QED BY <1>7, <2>2 DEF ConsumeCas
<1>8. CASE ConsumeRetry
  BY <1>8 DEF ConsumeRetry
<1>9. CASE Walk
  <2>1. iter \in Addresses /\ content[iter] \in Nat
    BY <1>9 DEF Walk
  <2>2. batches' \in Seq(Seq(Nat))
    <3>1. PICK c \in Nat : batches' = [batches EXCEPT ![Len(batches)] = Append(@, c)]
      BY <1>9, <2>1 DEF Walk
    <3>2. Len(batches) \in Nat \ {0}
      <4> HIDE DEF QueueInv
      <4> QED BY <1>9, WalkNode, Zenon
    <3>3. Len(batches) \in 1 .. Len(batches)
      BY <3>2
    <3>4. batches[Len(batches)] \in Seq(Nat)
      BY <3>3
    <3>5. Append(batches[Len(batches)], c) \in Seq(Nat)
      BY <3>4
    <3> QED BY <3>1, <3>3, <3>5
  <2>3. content' \in [Addresses -> 0 .. created'] /\ created' = created
    BY <1>9, <2>1 DEF Walk
  <2> QED BY <1>9, <2>1, <2>2, <2>3 DEF Walk
<1>10. CASE WalkEnds
  BY <1>10 DEF WalkEnds
<1>11. CASE UNCHANGED vars
  BY <1>11 DEF vars
<1> QED BY <1>1, <1>2, <1>3, <1>4, <1>5, <1>6, <1>7, <1>8, <1>9, <1>10, <1>11
        DEF Next, Produce, Consume

(* Nothing is published twice.                                             *)
LEMMA PublishedStep == QueueInv /\ [Next]_vars => PublishedOnce'
<1> SUFFICES ASSUME QueueInv, [Next]_vars PROVE PublishedOnce'
  OBVIOUS
<1> USE DEF QueueInv, PublishedOnce
<1>1. ASSUME NEW p \in Producers, Receive(p) PROVE PublishedOnce'
  <2>1. published' = published /\ created' = created + 1 /\ created \in Nat
    BY <1>1 DEF Receive, QueueType
  <2> QED BY <2>1
<1>2. ASSUME NEW p \in Producers, ProduceCas(p) PROVE PublishedOnce'
  <2>1. node[p] \in Addresses /\ content[node[p]] # 0 /\ content[node[p]] \in 0 .. created
    BY <1>2 DEF ProduceCas, PrivateInv, PrivateNode, QueueType
  <2>2. \A i \in 1 .. Len(published) : published[i] # content[node[p]]
    BY <1>2 DEF ProduceCas, PrivateInv, PrivateNode
  <2>3. published \in Seq(Nat) /\ created' = created /\ published' = Append(published, content[node[p]])
    BY <1>2 DEF ProduceCas, QueueType
  <2>4. PICK c \in 1 .. created : c = content[node[p]]
    BY <2>1 DEF QueueType
  <2>5. /\ Len(published') = Len(published) + 1 /\ Len(published) \in Nat
        /\ \A i \in 1 .. Len(published') :
             published'[i] = IF i = Len(published) + 1 THEN c ELSE published[i]
    BY <2>3, <2>4
  <2>6. ASSUME NEW i \in 1 .. Len(published') PROVE published'[i] \in 1 .. created'
    BY <2>3, <2>5
  <2>7. ASSUME NEW i \in 1 .. Len(published'), NEW j \in 1 .. Len(published'), published'[i] = published'[j]
        PROVE  i = j
    BY <2>2, <2>4, <2>5, <2>7
  <2> QED BY <2>6, <2>7
<1>3. CASE published' = published /\ created' = created
  BY <1>3
<1> QED BY <1>1, <1>2, <1>3
        DEF Next, vars, producerVars, consumerVars, Produce, Consume, ProduceLoad, ProduceLink,
            ProduceRetry, ConsumeLoad, ConsumeCas, ConsumeRetry, Walk, WalkEnds

(* A node in the hands of a producer is in no list.                        *)
LEMMA PrivateStep == QueueInv /\ [Next]_vars => PrivateInv'
<1> SUFFICES ASSUME QueueInv, [Next]_vars, NEW r \in Producers, pc'[r] # "idle"
             PROVE  PrivateNode(r)'
  BY DEF PrivateInv
<1> USE DEF QueueInv, QueueType, MaybeNode
<1>1. \A p \in Producers : pc[p] # "idle" => PrivateNode(p)
  BY DEF PrivateInv
<1>2. ASSUME NEW p \in Producers, Receive(p) PROVE PrivateNode(r)'
  <2>1. PICK a \in Addresses : /\ content[a] = 0
                               /\ node' = [node EXCEPT ![p] = a]
                               /\ content' = [content EXCEPT ![a] = created + 1]
                               /\ next' = [next EXCEPT ![a] = Null]
    BY <1>2 DEF Receive
  <2>2. /\ pc' = [pc EXCEPT ![p] = "load"] /\ pc[p] = "idle"
        /\ seen' = seen /\ published' = published
    BY <1>2 DEF Receive
  <2>3. \A i \in 1 .. Len(published) : published[i] # created + 1
    BY DEF PublishedOnce
  <2>4. ASSUME NEW t \in Producers, t # p, pc'[t] # "idle"
        PROVE  /\ node'[t] = node[t] /\ node[t] \in Addresses /\ node[t] # a
               /\ content'[node[t]] = content[node[t]] /\ content[node[t]] # created + 1
               /\ PrivateNode(t) /\ pc'[t] = pc[t] /\ next'[node[t]] = next[node[t]]
    <3>1. pc'[t] = pc[t] /\ node'[t] = node[t]
      BY <2>1, <2>2, <2>4
    <3>2. PrivateNode(t) /\ node[t] \in Addresses /\ node[t] # a
      BY <1>1, <2>1, <2>4, <3>1 DEF PrivateNode
    <3>3. content[node[t]] \in 0 .. created
      BY <3>2
    <3> QED BY <2>1, <3>1, <3>2, <3>3
  <2>5. CASE r = p
    <3>1. node'[r] = a /\ content'[a] = created + 1 /\ pc'[r] = "load"
      BY <2>1, <2>2, <2>5
    <3>2. \A t \in Producers \ {r} : pc'[t] # "idle" => content'[node'[t]] # created + 1
      BY <2>4, <2>5
    <3>3. created + 1 # 0
      OBVIOUS
    <3> QED BY <2>2, <2>3, <3>1, <3>2, <3>3 DEF PrivateNode
  <2>6. CASE r # p
    <3>1. /\ node'[r] = node[r] /\ content'[node[r]] = content[node[r]] /\ content[node[r]] # created + 1
          /\ PrivateNode(r) /\ pc'[r] = pc[r] /\ next'[node[r]] = next[node[r]]
      BY <2>4, <2>6
    <3>2. ASSUME NEW t \in Producers \ {r}, pc'[t] # "idle" PROVE content'[node'[t]] # content[node[r]]
      <4>1. CASE t = p
        BY <2>1, <3>1, <4>1
      <4>2. CASE t # p
        BY <2>4, <3>1, <3>2, <4>2 DEF PrivateNode
      <4> QED BY <4>1, <4>2
    <3> QED BY <2>2, <3>1, <3>2 DEF PrivateNode
  <2> QED BY <2>5, <2>6
<1>3. ASSUME NEW p \in Producers, ProduceLink(p) PROVE PrivateNode(r)'
  <2>1. /\ next' = [next EXCEPT ![node[p]] = seen[p]] /\ pc' = [pc EXCEPT ![p] = "cas"] /\ pc[p] = "link"
        /\ content' = content /\ node' = node /\ seen' = seen /\ published' = published
    BY <1>3 DEF ProduceLink, consumerVars
  <2>2. \A t \in Producers : pc'[t] # "idle" => pc[t] # "idle"
    BY <2>1
  <2>3. PrivateNode(r) /\ PrivateNode(p)
    BY <1>1, <2>1, <2>2
  <2>4. pc'[r] = "cas" => next'[node[r]] = seen[r]
    <3>1. CASE r = p
      BY <2>1, <2>3, <3>1 DEF PrivateNode
    <3>2. CASE r # p
      <4>1. node[r] # node[p] /\ pc'[r] = pc[r]
        BY <2>1, <2>2, <2>3, <3>2 DEF PrivateNode
      <4> QED BY <2>1, <2>3, <4>1 DEF PrivateNode
    <3> QED BY <3>1, <3>2
  <2> QED BY <2>1, <2>2, <2>3, <2>4 DEF PrivateNode
<1>4. ASSUME NEW p \in Producers, ProduceCas(p) PROVE PrivateNode(r)'
  <2>1. /\ published' = Append(published, content[node[p]])
        /\ pc' = [pc EXCEPT ![p] = "idle"] /\ pc[p] = "cas"
        /\ content' = content /\ node' = node /\ seen' = seen /\ next' = next
    BY <1>4 DEF ProduceCas
  <2>2. r # p /\ pc'[r] = pc[r] /\ pc[r] # "idle"
    BY <2>1
  <2>3. PrivateNode(r) /\ content[node[p]] # content[node[r]]
    BY <1>1, <2>1, <2>2 DEF PrivateNode
  <2>4. node[p] \in Addresses
    BY <1>1, <2>1 DEF PrivateNode
  <2>5. ASSUME NEW i \in 1 .. Len(published') PROVE published'[i] # content[node[r]]
    <3>1. PICK c \in Nat : c = content[node[p]]
      BY <2>4
    <3>2. published' = Append(published, c)
      BY <2>1, <3>1
    <3>3. i = Len(published) + 1 => published'[i] = c
      BY <3>2
    <3>4. i # Len(published) + 1 => i \in 1 .. Len(published) /\ published'[i] = published[i]
      BY <3>2
    <3> QED BY <2>3, <3>1, <3>3, <3>4 DEF PrivateNode
  <2>6. \A t \in Producers : pc'[t] # "idle" => pc[t] # "idle"
    BY <2>1
  <2> QED BY <2>1, <2>2, <2>3, <2>5, <2>6 DEF PrivateNode
<1>5. CASE Walk
  <2>1. /\ iter \in Addresses /\ content' = [content EXCEPT ![iter] = 0]
        /\ next' = next /\ node' = node /\ seen' = seen /\ pc' = pc /\ published' = published
    BY <1>5 DEF Walk, producerVars
  <2>2. \A t \in Producers : pc[t] # "idle" => node[t] # iter
    <3> HIDE DEF QueueInv
    <3> QED BY <1>5, WalkNode, Zenon
  <2>3. \A t \in Producers : pc[t] # "idle" => content'[node[t]] = content[node[t]]
    BY <1>1, <2>1, <2>2 DEF PrivateNode
  <2>4. PrivateNode(r) /\ pc[r] # "idle"
    BY <1>1, <2>1
  <2> QED BY <2>1, <2>3, <2>4 DEF PrivateNode
<1>6. CASE /\ UNCHANGED <<next, content, node, published>>
           /\ \A t \in Producers : /\ pc'[t] # "idle" => pc[t] # "idle"
                                   /\ pc'[t] = "cas" => pc[t] = "cas" /\ seen'[t] = seen[t]
  BY <1>1, <1>6 DEF PrivateNode
<1>7. ASSUME NEW p \in Producers, ProduceLoad(p) \/ ProduceRetry(p) PROVE PrivateNode(r)'
  BY <1>6, <1>7 DEF ProduceLoad, ProduceRetry
<1>8. CASE ConsumeLoad \/ ConsumeCas \/ ConsumeRetry \/ WalkEnds \/ UNCHANGED vars
  BY <1>6, <1>8 DEF ConsumeLoad, ConsumeCas, ConsumeRetry, WalkEnds, vars, producerVars
<1> QED BY <1>2, <1>3, <1>4, <1>5, <1>7, <1>8 DEF Next, Produce, Consume
(* A step that leaves the listed nodes and what they stand for as they     *)
(* were leaves the lists.                                                  *)
LEMMA ListsKept ==
  ASSUME NEW q \in Seq(Addresses), NEW w \in Seq(Addresses),
         NEW e \in [0 .. Len(batches) -> 0 .. Len(published)], ListsInv(q, w, e),
         head' = head, iter' = iter, published' = published, batches' = batches,
         w # <<>> => consumer' = "walk",
         \A i \in 1 .. Len(q) : content'[q[i]] = content[q[i]] /\ next'[q[i]] = next[q[i]],
         \A i \in 1 .. Len(w) : content'[w[i]] = content[w[i]] /\ next'[w[i]] = next[w[i]]
  PROVE  ListsExist'
<1>1. SharedInv(q, w, e)'
  BY DEF ListsInv, SharedInv, IsList, Holds
<1>2. WalkInv(q, w, e)'
  BY DEF ListsInv, WalkInv, IsList, Holds
<1>3. BatchesInv(q, w, e)'
  BY DEF ListsInv, BatchesInv
<1>4. e \in [0 .. Len(batches') -> 0 .. Len(published')] /\ ListsInv(q, w, e)'
  BY <1>1, <1>2, <1>3 DEF ListsInv
<1> QED BY <1>4 DEF ListsExist

(* A successful exchange of Produce puts the producer's node in front.     *)
LEMMA CasLists ==
  ASSUME QueueInv, NEW p \in Producers, ProduceCas(p)
  PROVE  ListsExist'
<1>1. QueueType /\ PublishedOnce /\ PrivateInv
  BY DEF QueueInv
<1>2. PICK q \in Seq(Addresses), w \in Seq(Addresses),
           e \in [0 .. Len(batches) -> 0 .. Len(published)] : ListsInv(q, w, e)
  BY DEF QueueInv, ListsExist
<1>3. /\ node[p] \in Addresses /\ next[node[p]] = head
      /\ head' = node[p] /\ published' = Append(published, content[node[p]])
      /\ UNCHANGED <<next, content, iter, consumer, batches>>
  BY <1>1 DEF ProduceCas, Expected, PrivateInv, PrivateNode, consumerVars
<1>4. PICK first \in Addresses, c \in Nat : first = node[p] /\ c = content[node[p]]
  BY <1>1, <1>3 DEF QueueType
<1> DEFINE longer == <<first>> \o q
           n == Len(published)
<1>5. /\ longer \in Seq(Addresses) /\ Len(longer) = Len(q) + 1 /\ Len(q) \in Nat
      /\ longer[1] = first
      /\ \A i \in 1 .. Len(q) : longer[i + 1] = q[i]
      /\ \A i \in 2 .. Len(q) + 1 : longer[i] = q[i - 1]
      /\ longer # <<>>
  OBVIOUS
<1> HIDE DEF longer
<1>6. /\ n \in Nat /\ Len(published') = n + 1 /\ published'[n + 1] = c
      /\ \A i \in 1 .. n : published'[i] = published[i]
  BY <1>1, <1>3, <1>4 DEF QueueType
<1>7. e \in [0 .. Len(batches') -> 0 .. Len(published')]
  BY <1>3, <1>6
<1>8. SharedInv(longer, w, e)'
  <2>1. IsList(head, longer)'
    <3>1. head' = longer[1]
      BY <1>3, <1>4, <1>5
    <3>2. ASSUME NEW i \in 1 .. Len(longer)
          PROVE  next[longer[i]] = IF i = Len(longer) THEN Null ELSE longer[i + 1]
      <4>1. CASE i = 1
        <5>1. next[longer[i]] = IF q = <<>> THEN Null ELSE q[1]
          BY <1>2, <1>3, <1>4, <1>5, <4>1 DEF ListsInv, SharedInv, IsList
        <5>2. CASE q = <<>>
          BY <1>5, <4>1, <5>1, <5>2
        <5>3. CASE q # <<>>
          <6>1. 1 \in 1 .. Len(q) /\ i # Len(longer)
            BY <1>5, <4>1, <5>3, EmptySeq
          <6>2. longer[i + 1] = q[1]
            BY <1>5, <4>1, <6>1
          <6> QED BY <5>1, <5>3, <6>1, <6>2
        <5> QED BY <5>2, <5>3
      <4>2. CASE i # 1
        <5>1. i \in 2 .. Len(q) + 1 /\ i - 1 \in 1 .. Len(q) /\ (i - 1) + 1 = i
          BY <1>5, <4>2
        <5>2. longer[i] = q[i - 1]
          BY <1>5, <5>1
        <5>3. next[q[i - 1]] = IF i - 1 = Len(q) THEN Null ELSE q[i]
          BY <1>2, <5>1 DEF ListsInv, SharedInv, IsList
        <5>4. i - 1 = Len(q) <=> i = Len(longer)
          BY <1>5, <5>1
        <5>5. i # Len(longer) => i \in 1 .. Len(q) /\ longer[i + 1] = q[i]
          BY <1>5, <5>1
        <5> QED BY <5>2, <5>3, <5>4, <5>5
      <4> QED BY <4>1, <4>2
    <3> QED BY <1>3, <1>5, <3>1, <3>2 DEF IsList
  <2>2. ASSUME NEW i \in 1 .. Len(longer) PROVE content[longer[i]] = published'[(n + 1) + 1 - i]
    <3>1. CASE i = 1
      <4>1. (n + 1) + 1 - i = n + 1
        BY <1>6, <3>1
      <4> QED BY <1>4, <1>5, <1>6, <3>1, <4>1
    <3>2. CASE i # 1
      <4>1. i \in 2 .. Len(q) + 1 /\ i - 1 \in 1 .. Len(q) /\ (n + 1) + 1 - i = n + 1 - (i - 1)
        BY <1>5, <1>6, <3>2
      <4>2. n + 1 - (i - 1) \in 1 .. n /\ content[q[i - 1]] = published[n + 1 - (i - 1)]
        BY <1>1, <1>2, <4>1, Positions, Zenon
      <4>3. published'[n + 1 - (i - 1)] = published[n + 1 - (i - 1)]
        BY <1>6, <4>2, Zenon
      <4> QED BY <1>5, <4>1, <4>2, <4>3
    <3> QED BY <3>1, <3>2
  <2>3. Holds(longer, Len(published))'
    BY <1>3, <1>6, <2>2 DEF Holds
  <2>4. Len(published') = e[Len(batches)] + Len(longer)
    <3>1. n = e[Len(batches)] + Len(q) /\ Len(batches) \in 0 .. Len(batches)
      BY <1>1, <1>2 DEF ListsInv, SharedInv, QueueType
    <3>2. e[Len(batches)] \in Nat
      BY <3>1
    <3> QED BY <1>5, <1>6, <3>1, <3>2
  <2> QED BY <1>3, <2>1, <2>3, <2>4 DEF SharedInv
<1>9. WalkInv(longer, w, e)'
  <2>1. IsList(iter, w)'
    BY <1>2, <1>3 DEF ListsInv, WalkInv, IsList
  <2>2. ASSUME NEW i \in 1 .. Len(w) PROVE content[w[i]] = published'[e[Len(batches) - 1] + Len(w) + 1 - i]
    <3>1. /\ e[Len(batches) - 1] + Len(w) + 1 - i \in 1 .. n
          /\ content[w[i]] = published[e[Len(batches) - 1] + Len(w) + 1 - i]
      BY <1>1, <1>2, Positions, Zenon
    <3> QED BY <1>6, <3>1, Zenon
  <2>3. Holds(w, e[Len(batches) - 1] + Len(w))'
    BY <1>3, <2>2 DEF Holds
  <2> QED BY <1>2, <1>3, <2>1, <2>3 DEF ListsInv, WalkInv
<1>10. BatchesInv(longer, w, e)'
  <2>1. ASSUME NEW i \in 1 .. Len(batches), NEW j \in 1 .. Len(batches[i])
        PROVE  batches[i][j] = published'[e[i] + 1 - j]
    <3>1. e[i] + 1 - j \in 1 .. n
      BY <1>1, <1>2, Positions, Zenon
    <3>2. batches[i][j] = published[e[i] + 1 - j]
      BY <1>2 DEF ListsInv, BatchesInv
    <3> QED BY <1>6, <3>1, <3>2, Zenon
  <2> QED BY <1>2, <1>3, <2>1 DEF ListsInv, BatchesInv
<1>11. ListsInv(longer, w, e)'
  BY <1>8, <1>9, <1>10 DEF ListsInv
<1> QED BY <1>5, <1>7, <1>11 DEF ListsExist

(* The exchange of ConsumeAll moves the whole list to the consumer.        *)
LEMMA TakeLists ==
  ASSUME QueueInv, ConsumeCas
  PROVE  ListsExist'
<1>1. QueueType /\ PublishedOnce /\ PrivateInv
  BY DEF QueueInv
<1>2. PICK q \in Seq(Addresses), w \in Seq(Addresses),
           e \in [0 .. Len(batches) -> 0 .. Len(published)] : ListsInv(q, w, e)
  BY DEF QueueInv, ListsExist
<1>3. /\ head' = Null /\ iter' = head /\ consumer = "cas" /\ consumer' = "walk"
      /\ batches' = IF head = Null THEN batches ELSE Append(batches, <<>>)
      /\ UNCHANGED <<next, content, published>>
  BY DEF ConsumeCas
<1>4. w = <<>> /\ iter = Null
  BY <1>2, <1>3 DEF ListsInv, WalkInv, IsList
<1>5. CASE q = <<>>
  <2>1. head = Null
    BY <1>2, <1>5 DEF ListsInv, SharedInv, IsList
  <2>2. head' = head /\ iter' = iter /\ published' = published /\ batches' = batches
    BY <1>3, <1>4, <2>1
  <2>3. UNCHANGED <<next, content>>
    BY <1>3
  <2> QED BY <1>2, <1>3, <2>2, <2>3, ListsKept
<1>6. CASE q # <<>>
  <2>0. PICK n \in Nat, k \in Nat : n = Len(published) /\ k = Len(batches)
    BY <1>1 DEF QueueType
  <2>1. n = Len(published) /\ k = Len(batches) /\ Len(q) \in Nat /\ Len(w) = 0
    BY <1>4, <2>0
  <2>2. head # Null /\ 1 \in 1 .. Len(q) /\ q[1] = head
    <3>1. 1 \in 1 .. Len(q)
      BY <1>6, <2>1, EmptySeq
    <3>2. q[1] \in Addresses
      BY <3>1
    <3> QED BY <1>2, <1>6, <3>1, <3>2, QueueAssumption DEF ListsInv, SharedInv, IsList
  <2>3. batches' = Append(batches, <<>>)
    BY <1>3, <2>2
  <2>4. Len(batches') = k + 1 /\ batches'[k + 1] = <<>> /\ \A i \in 1 .. k : batches'[i] = batches[i]
    <3>1. <<>> \in Seq(Nat) /\ batches \in Seq(Seq(Nat))
      BY <1>1 DEF QueueType
    <3> QED BY <2>1, <2>3, <3>1
  <2>5. n = e[k] + Len(q) /\ e[k] \in Nat
    BY <1>2, <2>1 DEF ListsInv, SharedInv
  <2>6. PICK ends \in [0 .. k + 1 -> 0 .. n] : ends[k + 1] = n /\ \A i \in 0 .. k : ends[i] = e[i]
    <3> DEFINE f == [i \in 0 .. k + 1 |-> IF i = k + 1 THEN n ELSE e[i]]
    <3>1. \A i \in 0 .. k : i # k + 1 /\ e[i] \in 0 .. n
      BY <2>1
    <3>2. f \in [0 .. k + 1 -> 0 .. n] /\ f[k + 1] = n /\ \A i \in 0 .. k : f[i] = e[i]
      BY <3>1
    <3> HIDE DEF f
    <3> QED BY <3>2
  <2>7. SharedInv(<<>>, q, ends)'
    <3>1. \A x : x = <<>> => IsList(head, x)' /\ Holds(x, Len(published))' /\ Len(x) = 0
      BY <1>3 DEF IsList, Holds
    <3>2. Len(published') = ends[Len(batches')] + 0
      BY <1>3, <2>1, <2>4, <2>6
    <3> QED BY <3>1, <3>2 DEF SharedInv
  <2>8. WalkInv(<<>>, q, ends)'
    <3>1. IsList(iter, q)'
      BY <1>2, <1>3 DEF ListsInv, SharedInv, IsList
    <3>2. ends[(k + 1) - 1] + Len(q) = n
      <4>1. (k + 1) - 1 = k /\ k \in 0 .. k
        BY <2>1
      <4> QED BY <2>5, <2>6, <4>1
    <3>3. Holds(q, n)'
      BY <1>2, <1>3, <2>1 DEF ListsInv, SharedInv, Holds
    <3>4. Holds(q, ends[(k + 1) - 1] + Len(q))'
      BY <3>2, <3>3
    <3> QED BY <1>3, <2>1, <2>4, <3>1, <3>4 DEF WalkInv
  <2>9. BatchesInv(<<>>, q, ends)'
    <3>1. ends[0] = 0
      BY <1>2, <2>1, <2>6 DEF ListsInv, BatchesInv
    <3>2. ASSUME NEW i \in 1 .. k
          PROVE  /\ ends[i] = ends[i - 1] + Len(batches'[i]) + (IF i = k + 1 THEN Len(q) ELSE 0)
                 /\ \A j \in 1 .. Len(batches'[i]) : batches'[i][j] = published[ends[i] + 1 - j]
      <4>1. i \in 0 .. k /\ i - 1 \in 0 .. k /\ i # k + 1
        BY <2>1
      <4>2. ends[i] = e[i] /\ ends[i - 1] = e[i - 1] /\ batches'[i] = batches[i]
        BY <2>4, <2>6, <4>1
      <4>3. /\ e[i] = e[i - 1] + Len(batches[i]) + (IF i = k THEN Len(w) ELSE 0)
            /\ \A j \in 1 .. Len(batches[i]) : batches[i][j] = published[e[i] + 1 - j]
        BY <1>2, <2>1 DEF ListsInv, BatchesInv
      <4> QED BY <2>1, <4>1, <4>2, <4>3
    <3>3. /\ ends[k + 1] = ends[(k + 1) - 1] + Len(batches'[k + 1]) + Len(q)
          /\ Len(batches'[k + 1]) = 0
      <4>1. (k + 1) - 1 = k /\ k \in 0 .. k
        BY <2>1
      <4>2. Len(batches'[k + 1]) = 0
        BY <2>4
      <4>3. ends[k + 1] = n /\ ends[(k + 1) - 1] = e[k]
        BY <2>6, <4>1
      <4> QED BY <2>1, <2>5, <4>2, <4>3
    <3>4. ASSUME NEW i \in 1 .. k + 1
          PROVE  /\ ends[i] = ends[i - 1] + Len(batches'[i]) + (IF i = k + 1 THEN Len(q) ELSE 0)
                 /\ \A j \in 1 .. Len(batches'[i]) : batches'[i][j] = published[ends[i] + 1 - j]
      <4>1. CASE i = k + 1
        BY <3>3, <4>1
      <4>2. CASE i # k + 1
        <5>1. i \in 1 .. k
          BY <2>1, <4>2
        <5> QED BY <3>2, <5>1
      <4> QED BY <4>1, <4>2
    <3> QED BY <1>3, <2>4, <3>1, <3>4 DEF BatchesInv
  <2>10. ListsInv(<<>>, q, ends)'
    BY <2>7, <2>8, <2>9 DEF ListsInv
  <2>11. ends \in [0 .. Len(batches') -> 0 .. Len(published')] /\ <<>> \in Seq(Addresses)
    BY <1>3, <2>1, <2>4, <2>6
  <2> QED BY <2>10, <2>11 DEF ListsExist
<1> QED BY <1>5, <1>6

(* The walk handles and frees the first node of its list.                  *)
LEMMA WalkLists ==
  ASSUME QueueInv, Walk
  PROVE  ListsExist'
<1>1. QueueType /\ PublishedOnce /\ PrivateInv
  BY DEF QueueInv
<1>2. PICK q \in Seq(Addresses), w \in Seq(Addresses),
           e \in [0 .. Len(batches) -> 0 .. Len(published)] :
             /\ ListsInv(q, w, e)
             /\ Len(w) \in Nat \ {0} /\ w[1] = iter /\ w # <<>>
             /\ Len(batches) \in Nat \ {0}
  BY WalkNode
<1> DEFINE k == Len(batches)
           n == Len(published)
           rest == Tail(w)
<1>3. /\ consumer = "walk" /\ consumer' = "walk"
      /\ batches' = [batches EXCEPT ![k] = Append(@, content[iter])]
      /\ iter' = next[iter] /\ content' = [content EXCEPT ![iter] = 0]
      /\ UNCHANGED <<head, next, published>>
  BY DEF Walk
<1>4. /\ rest \in Seq(Addresses) /\ Len(rest) = Len(w) - 1
      /\ \A i \in 1 .. Len(w) - 1 : rest[i] = w[i + 1]
      /\ rest = <<>> <=> Len(w) = 1
  <2>1. rest \in Seq(Addresses) /\ Len(rest) = Len(w) - 1
    BY <1>2, HeadTailProperties
  <2>2. \A i \in 1 .. Len(w) - 1 : rest[i] = w[i + 1]
    BY <1>2
  <2> HIDE DEF rest
  <2>3. rest = <<>> <=> Len(rest) = 0
    BY <2>1, EmptySeq
  <2> QED BY <1>2, <2>1, <2>2, <2>3
<1> HIDE DEF rest
<1>5. /\ \A i \in 1 .. Len(q) : q[i] \in Addresses /\ q[i] # iter
      /\ \A i \in 1 .. Len(w) : w[i] \in Addresses /\ (i # 1 => w[i] # iter)
  <2>1. 1 \in 1 .. Len(w)
    BY <1>2
  <2>2. /\ \A i \in 1 .. Len(q), j \in 1 .. Len(w) : q[i] # w[j]
        /\ \A i, j \in 1 .. Len(w) : w[i] = w[j] => i = j
    BY <1>1, <1>2, ListedNodes, Zenon
  <2> QED BY <1>2, <2>1, <2>2
<1>6. /\ \A i \in 1 .. Len(q) : content'[q[i]] = content[q[i]]
      /\ \A i \in 1 .. Len(rest) : content'[rest[i]] = content[rest[i]]
  <2>1. content \in [Addresses -> Nat]
    BY <1>1 DEF QueueType
  <2>2. \A a \in Addresses : a # iter => content'[a] = content[a]
    BY <1>3, <2>1
  <2>3. ASSUME NEW i \in 1 .. Len(rest) PROVE content'[rest[i]] = content[rest[i]]
    <3>1. i + 1 \in 1 .. Len(w) /\ i + 1 # 1 /\ rest[i] = w[i + 1]
      BY <1>2, <1>4
    <3>2. w[i + 1] \in Addresses /\ w[i + 1] # iter
      BY <1>5, <3>1
    <3> QED BY <2>2, <3>1, <3>2
  <2> QED BY <1>5, <2>2, <2>3
<1>7. n \in Nat /\ Len(q) \in Nat /\ k \in 1 .. k /\ e[k - 1] \in Nat /\ e[k] \in Nat
  BY <1>1, <1>2, Positions
<1>8. PICK c \in Nat : c = content[iter]
  BY <1>1, <1>2, <1>5 DEF QueueType
<1>9. batches[k] \in Seq(Nat) /\ Len(batches[k]) \in Nat
  <2>1. batches[k] \in Seq(Nat)
    BY <1>1, <1>7 DEF QueueType
  <2> QED BY <2>1
<1>10. /\ Len(batches') = k /\ \A i \in 1 .. k : i # k => batches'[i] = batches[i]
       /\ Len(batches'[k]) = Len(batches[k]) + 1
       /\ \A j \in 1 .. Len(batches[k]) : batches'[k][j] = batches[k][j]
       /\ batches'[k][Len(batches[k]) + 1] = c
  <2>1. PICK last : last = Append(batches[k], c)
    OBVIOUS
  <2>2. batches' = [batches EXCEPT ![k] = last]
    BY <1>3, <1>8, <2>1
  <2>3. Len(batches') = k /\ batches'[k] = last /\ \A i \in 1 .. k : i # k => batches'[i] = batches[i]
    BY <1>1, <1>7, <2>2 DEF QueueType
  <2>4. /\ Len(last) = Len(batches[k]) + 1 /\ last[Len(batches[k]) + 1] = c
        /\ \A j \in 1 .. Len(batches[k]) : last[j] = batches[k][j]
    BY <1>9, <2>1
  <2> QED BY <2>3, <2>4
<1>11. SharedInv(q, rest, e)'
  <2>1. Holds(q, Len(published))'
    BY <1>2, <1>3, <1>6 DEF ListsInv, SharedInv, Holds
  <2>2. IsList(head, q)'
    BY <1>2, <1>3 DEF ListsInv, SharedInv, IsList
  <2> QED BY <1>2, <1>3, <1>10, <2>1, <2>2 DEF ListsInv, SharedInv
<1>12. WalkInv(q, rest, e)'
  <2>1. IsList(iter, rest)'
    <3>1. \A i \in 1 .. Len(w) : next[w[i]] = IF i = Len(w) THEN Null ELSE w[i + 1]
      BY <1>2 DEF ListsInv, WalkInv, IsList
    <3>2. iter' = IF rest = <<>> THEN Null ELSE rest[1]
      <4>1. 1 \in 1 .. Len(w) /\ next[w[1]] = IF 1 = Len(w) THEN Null ELSE w[1 + 1]
        <5>1. 1 \in 1 .. Len(w)
          BY <1>2
        <5> QED BY <3>1, <5>1, Zenon
      <4>2. 1 # Len(w) => 1 \in 1 .. Len(w) - 1
        BY <1>2
      <4> QED BY <1>2, <1>3, <1>4, <4>1, <4>2
    <3>3. ASSUME NEW i \in 1 .. Len(rest)
          PROVE  next[rest[i]] = IF i = Len(rest) THEN Null ELSE rest[i + 1]
      <4>1. i + 1 \in 1 .. Len(w) /\ rest[i] = w[i + 1] /\ (i = Len(rest) <=> i + 1 = Len(w))
        BY <1>2, <1>4
      <4>2. i # Len(rest) => i + 1 \in 1 .. Len(w) - 1 /\ rest[i + 1] = w[(i + 1) + 1]
        BY <1>2, <1>4
      <4> QED BY <3>1, <4>1, <4>2
    <3> QED BY <1>3, <3>2, <3>3 DEF IsList
  <2>2. ASSUME NEW i \in 1 .. Len(rest)
        PROVE  content'[rest[i]] = published[e[k - 1] + Len(rest) + 1 - i]
    <3>1. i + 1 \in 1 .. Len(w) /\ rest[i] = w[i + 1]
      BY <1>2, <1>4
    <3>2. content[w[i + 1]] = published[e[k - 1] + Len(w) + 1 - (i + 1)]
      BY <1>2, <3>1 DEF ListsInv, WalkInv, Holds
    <3>3. e[k - 1] + Len(w) + 1 - (i + 1) = e[k - 1] + Len(rest) + 1 - i
      <4>1. PICK base \in Nat : base = e[k - 1]
        BY <1>7
      <4>2. Len(w) \in Nat /\ Len(rest) = Len(w) - 1 /\ i \in Nat
        BY <1>2, <1>4
      <4>3. base + Len(w) + 1 - (i + 1) = base + Len(rest) + 1 - i
        BY <4>2
      <4> QED BY <4>1, <4>3
    <3> QED BY <1>6, <3>1, <3>2, <3>3
  <2>3. Holds(rest, e[Len(batches) - 1] + Len(rest))'
    BY <1>3, <1>10, <2>2 DEF Holds
  <2>4. Len(batches') > 0 /\ consumer' = "walk"
    <3>1. k > 0 /\ Len(batches') = k
      BY <1>2, <1>10
    <3> QED BY <1>3, <3>1, Zenon
  <2> QED BY <2>1, <2>3, <2>4, Zenon DEF WalkInv
<1>13. BatchesInv(q, rest, e)'
  <2>1. \A i \in 1 .. k :
          /\ e[i] = e[i - 1] + Len(batches[i]) + (IF i = k THEN Len(w) ELSE 0)
          /\ \A j \in 1 .. Len(batches[i]) : batches[i][j] = published[e[i] + 1 - j]
    BY <1>2 DEF ListsInv, BatchesInv
  <2>2. e[k] = e[k - 1] + Len(batches[k]) + Len(w)
    BY <1>7, <2>1
  <2>3. e[k] = e[k - 1] + Len(batches'[k]) + Len(rest)
    BY <1>2, <1>4, <1>7, <1>9, <1>10, <2>2
  <2>4. c = published[e[k] + 1 - (Len(batches[k]) + 1)]
    <3>1. 1 \in 1 .. Len(w) /\ content[w[1]] = published[e[k - 1] + Len(w) + 1 - 1]
      BY <1>2 DEF ListsInv, WalkInv, Holds
    <3>2. e[k - 1] + Len(w) + 1 - 1 = e[k] + 1 - (Len(batches[k]) + 1)
      BY <1>2, <1>7, <1>9, <2>2
    <3> QED BY <1>2, <1>8, <3>1, <3>2
  <2>5. ASSUME NEW j \in 1 .. Len(batches'[k]) PROVE batches'[k][j] = published[e[k] + 1 - j]
    <3>1. CASE j = Len(batches[k]) + 1
      BY <1>10, <2>4, <3>1
    <3>2. CASE j # Len(batches[k]) + 1
      <4>1. j \in 1 .. Len(batches[k])
        BY <1>9, <1>10, <3>2
      <4> QED BY <1>7, <1>10, <2>1, <4>1
    <3> QED BY <3>1, <3>2
  <2>6. ASSUME NEW i \in 1 .. k
        PROVE  /\ e[i] = e[i - 1] + Len(batches'[i]) + (IF i = k THEN Len(rest) ELSE 0)
               /\ \A j \in 1 .. Len(batches'[i]) : batches'[i][j] = published[e[i] + 1 - j]
    <3>1. CASE i = k
      BY <2>3, <2>5, <3>1
    <3>2. CASE i # k
      <4>1. batches'[i] = batches[i]
        BY <1>10, <3>2
      <4>2. /\ e[i] = e[i - 1] + Len(batches[i]) + (IF i = k THEN Len(w) ELSE 0)
            /\ \A j \in 1 .. Len(batches[i]) : batches[i][j] = published[e[i] + 1 - j]
        BY <2>1
      <4>3. e[i] = e[i - 1] + Len(batches[i]) + 0
        BY <3>2, <4>2
      <4> HIDE DEF k
      <4> QED BY <3>2, <4>1, <4>2, <4>3
    <3> QED BY <3>1, <3>2
  <2>7. e[0] = 0 /\ published' = published /\ Len(batches') = k
    BY <1>2, <1>3, <1>10 DEF ListsInv, BatchesInv
  <2> QED BY <2>6, <2>7 DEF BatchesInv
<1>14. ListsInv(q, rest, e)'
  BY <1>11, <1>12, <1>13 DEF ListsInv
<1>15. e \in [0 .. Len(batches') -> 0 .. Len(published')]
  BY <1>3, <1>10
<1> QED BY <1>4, <1>14, <1>15 DEF ListsExist

(* The two lists stay lists, whatever the threads do.                      *)
LEMMA ListsStep == QueueInv /\ [Next]_vars => ListsExist'
<1> SUFFICES ASSUME QueueInv, [Next]_vars PROVE ListsExist'
  OBVIOUS
<1>1. QueueType /\ PublishedOnce /\ PrivateInv
  BY DEF QueueInv
<1>2. PICK q \in Seq(Addresses), w \in Seq(Addresses),
           e \in [0 .. Len(batches) -> 0 .. Len(published)] : ListsInv(q, w, e)
  BY DEF QueueInv, ListsExist
<1>3. /\ \A i \in 1 .. Len(q) :
           /\ q[i] \in Addresses /\ content[q[i]] # 0
           /\ \A p \in Producers : pc[p] # "idle" => node[p] # q[i]
      /\ \A i \in 1 .. Len(w) :
           /\ w[i] \in Addresses /\ content[w[i]] # 0
           /\ \A p \in Producers : pc[p] # "idle" => node[p] # w[i]
  BY <1>1, <1>2, ListedNodes, Zenon
<1>4. w # <<>> => consumer = "walk" /\ iter # Null
  <2>1. ASSUME w # <<>> PROVE iter # Null
    <3>1. 1 \in 1 .. Len(w)
      <4>1. Len(w) \in Nat /\ Len(w) # 0
        BY <2>1, EmptySeq
      <4> QED BY <4>1
    <3>2. iter = w[1] /\ w[1] \in Addresses
      BY <1>2, <1>3, <2>1, <3>1 DEF ListsInv, WalkInv, IsList
    <3> QED BY <3>2, QueueAssumption
  <2> QED BY <1>2, <2>1 DEF ListsInv, WalkInv
<1>5. ASSUME NEW p \in Producers, Receive(p) PROVE ListsExist'
  <2>1. PICK a \in Addresses : /\ content[a] = 0
                               /\ content' = [content EXCEPT ![a] = created + 1]
                               /\ next' = [next EXCEPT ![a] = Null]
    BY <1>5 DEF Receive
  <2>2. \A b \in Addresses : content[b] # 0 => content'[b] = content[b] /\ next'[b] = next[b]
    BY <1>1, <2>1 DEF QueueType
  <2>3. head' = head /\ iter' = iter /\ published' = published /\ batches' = batches /\ consumer' = consumer
    BY <1>5 DEF Receive, consumerVars
  <2>4. /\ \A i \in 1 .. Len(q) : content'[q[i]] = content[q[i]] /\ next'[q[i]] = next[q[i]]
        /\ \A i \in 1 .. Len(w) : content'[w[i]] = content[w[i]] /\ next'[w[i]] = next[w[i]]
    BY <1>3, <2>2
  <2> QED BY <1>2, <1>4, <2>3, <2>4, ListsKept, Zenon
<1>6. ASSUME NEW p \in Producers, ProduceLink(p) PROVE ListsExist'
  <2>1. /\ pc[p] # "idle" /\ next' = [next EXCEPT ![node[p]] = seen[p]] /\ content' = content
        /\ head' = head /\ iter' = iter /\ published' = published /\ batches' = batches /\ consumer' = consumer
    BY <1>6 DEF ProduceLink, consumerVars
  <2>2. \A b \in Addresses : node[p] # b => next'[b] = next[b]
    BY <1>1, <2>1 DEF QueueType
  <2>3. /\ \A i \in 1 .. Len(q) : content'[q[i]] = content[q[i]] /\ next'[q[i]] = next[q[i]]
        /\ \A i \in 1 .. Len(w) : content'[w[i]] = content[w[i]] /\ next'[w[i]] = next[w[i]]
    BY <1>3, <2>1, <2>2
  <2> QED BY <1>2, <1>4, <2>1, <2>3, ListsKept, Zenon
<1>7. CASE /\ UNCHANGED <<head, iter, published, batches, content, next>>
           /\ consumer = "walk" /\ iter # Null => consumer' = "walk"
  BY <1>2, <1>4, <1>7, ListsKept
<1>8. ASSUME NEW p \in Producers, ProduceLoad(p) \/ ProduceRetry(p) PROVE ListsExist'
  BY <1>7, <1>8 DEF ProduceLoad, ProduceRetry, consumerVars
<1>9. CASE ConsumeLoad \/ ConsumeRetry \/ WalkEnds \/ UNCHANGED vars
  BY <1>7, <1>9 DEF ConsumeLoad, ConsumeRetry, WalkEnds, vars, consumerVars
<1>10. ASSUME NEW p \in Producers, ProduceCas(p) PROVE ListsExist'
  BY <1>10, CasLists
<1>11. CASE ConsumeCas
  BY <1>11, TakeLists
<1>12. CASE Walk
  BY <1>12, WalkLists
<1> QED BY <1>5, <1>6, <1>8, <1>9, <1>10, <1>11, <1>12 DEF Next, Produce, Consume

(* Two disjoint lists of nodes, that of head and that of the consumer,     *)
(* hold the published messages still to be handled, newest first: whatever *)
(* the interleaving of any number of producers, and however soon the       *)
(* address of a freed node comes back.                                     *)
THEOREM QueueInvariant == Spec => []QueueInv
<1>1. QueueInv /\ [Next]_vars => QueueInv'
  BY TypeStep, PublishedStep, PrivateStep, ListsStep DEF QueueInv
<1> QED BY <1>1, QueueInit, PTL DEF Spec

-----------------------------------------------------------------------------
(* What the invariant says of the list as a whole.                         *)

(* Every published message is on the shared list, still to be walked, or   *)
(* in a batch.                                                             *)
LEMMA PublishedIsSomewhere ==
  ASSUME QueueType,
         NEW q \in Seq(Addresses), NEW w \in Seq(Addresses),
         NEW e \in [0 .. Len(batches) -> 0 .. Len(published)], ListsInv(q, w, e),
         NEW x \in 1 .. Len(published)
  PROVE  \/ \E i \in 1 .. Len(q) : content[q[i]] = published[x]
         \/ \E i \in 1 .. Len(w) : content[w[i]] = published[x]
         \/ \E i \in 1 .. Len(batches) : \E j \in 1 .. Len(batches[i]) : batches[i][j] = published[x]
<1> DEFINE n == Len(published)
           k == Len(batches)
<1>1. /\ n \in Nat /\ k \in Nat /\ Len(q) \in Nat /\ Len(w) \in Nat
      /\ \A i \in 0 .. k : e[i] \in Nat
      /\ n = e[k] + Len(q) /\ e[0] = 0
  BY Positions DEF ListsInv, BatchesInv
<1>2. CASE x > e[k]
  <2>1. n + 1 - x \in 1 .. Len(q) /\ n + 1 - (n + 1 - x) = x
    <3>1. PICK last \in Nat, size \in Nat, top \in Nat : last = e[k] /\ size = Len(q) /\ top = n
      BY <1>1
    <3>2. top = last + size /\ x > last /\ x \in 1 .. top
      BY <1>1, <1>2, <3>1
    <3>3. top + 1 - x \in 1 .. size /\ top + 1 - (top + 1 - x) = x
      BY <3>2
    <3> QED BY <3>1, <3>3, Zenon
  <2>2. content[q[n + 1 - x]] = published[n + 1 - (n + 1 - x)]
    BY <2>1, Positions, Zenon
  <2> QED BY <2>1, <2>2
<1>3. CASE x <= e[k]
  <2> DEFINE After == {i \in 0 .. k : x <= e[i]}
  <2>1. PICK m \in After : \A i \in After : m <= i
    <3>1. After \subseteq 0 .. k /\ k \in After
      BY <1>1, <1>3
    <3> HIDE DEF After
    <3> QED BY <1>1, <3>1, MinExists
  <2>2. m \in 1 .. k /\ m - 1 \in 0 .. k /\ x <= e[m] /\ e[m - 1] < x
    <3>1. m \in 0 .. k /\ x <= e[m]
      BY <2>1
    <3>2. m # 0
      BY <1>1, <3>1
    <3>3. m - 1 \in 0 .. k /\ ~ (m <= m - 1)
      BY <1>1, <3>1, <3>2
    <3>4. ~ (x <= e[m - 1])
      BY <2>1, <3>3
    <3>5. e[m - 1] \in Nat
      BY <1>1, <3>3
    <3> QED BY <1>1, <3>1, <3>2, <3>3, <3>4, <3>5
  <2> HIDE DEF After
  <2>3. /\ e[m - 1] \in Nat /\ e[m] \in Nat /\ Len(batches[m]) \in Nat
        /\ e[m] = e[m - 1] + Len(batches[m]) + (IF m = k THEN Len(w) ELSE 0)
        /\ \A j \in 1 .. Len(batches[m]) : batches[m][j] = published[e[m] + 1 - j]
    BY <2>2, Positions DEF ListsInv, BatchesInv
  <2>4. PICK top \in Nat, base \in Nat, size \in Nat :
          top = e[m] /\ base = e[m - 1] /\ size = Len(batches[m])
    BY <2>3
  <2>5. base < x /\ x <= top
    BY <2>2, <2>4
  <2>6. CASE top + 1 - x \in 1 .. size
    <3>1. batches[m][top + 1 - x] = published[top + 1 - (top + 1 - x)]
      BY <2>3, <2>4, <2>6
    <3>2. top + 1 - (top + 1 - x) = x
      OBVIOUS
    <3> QED BY <2>2, <2>4, <2>6, <3>1, <3>2
  <2>7. CASE ~ (top + 1 - x \in 1 .. size)
    <3>1. m = k /\ top = base + size + Len(w)
      <4>1. m # k => top = base + size
        BY <2>3, <2>4
      <4>2. m = k => top = base + size + Len(w)
        BY <2>3, <2>4
      <4>3. top # base + size
        BY <2>5, <2>7
      <4> QED BY <4>1, <4>2, <4>3
    <3>2. /\ base + Len(w) + 1 - x \in 1 .. Len(w)
          /\ base + Len(w) + 1 - (base + Len(w) + 1 - x) = x
      <4>1. PICK length \in Nat : length = Len(w)
        BY <1>1
      <4>2. base + length + 1 - x \in 1 .. length
        BY <2>5, <2>7, <3>1, <4>1
      <4>3. base + length + 1 - (base + length + 1 - x) = x
        BY <2>5
      <4> QED BY <4>1, <4>2, <4>3
    <3>3. content[w[base + Len(w) + 1 - x]] = published[base + Len(w) + 1 - (base + Len(w) + 1 - x)]
      BY <2>4, <3>1, <3>2 DEF ListsInv, WalkInv, Holds
    <3> QED BY <3>2, <3>3
  <2> QED BY <2>6, <2>7
<1>4. x > e[k] \/ x <= e[k]
  <2>1. e[k] \in Nat
    BY <1>1
  <2> QED BY <2>1
<1> QED BY <1>2, <1>3, <1>4
(* The batches end in the order they were taken in.                        *)
LEMMA EndsGrow ==
  ASSUME QueueType,
         NEW q \in Seq(Addresses), NEW w \in Seq(Addresses),
         NEW e \in [0 .. Len(batches) -> 0 .. Len(published)], ListsInv(q, w, e),
         NEW i \in 0 .. Len(batches), NEW j \in 0 .. Len(batches), i <= j
  PROVE  e[i] <= e[j]
<1> DEFINE T == {d \in Nat : i + d <= Len(batches) => e[i] <= e[i + d]}
<1>1. Len(batches) \in Nat /\ \A x \in 0 .. Len(batches) : e[x] \in Nat
  BY Positions, Zenon
<1>2. 0 \in T
  BY <1>1
<1>3. ASSUME NEW d \in Nat, d \in T PROVE d + 1 \in T
  <2> SUFFICES ASSUME i + (d + 1) <= Len(batches) PROVE e[i] <= e[i + (d + 1)]
    OBVIOUS
  <2>1. /\ i + d <= Len(batches) /\ i + d \in 0 .. Len(batches)
        /\ i + (d + 1) \in 1 .. Len(batches) /\ (i + (d + 1)) - 1 = i + d
    BY <1>1
  <2>2. e[(i + (d + 1)) - 1] <= e[i + (d + 1)]
    BY <2>1, Positions, Zenon
  <2>3. e[i] \in Nat /\ e[i + d] \in Nat /\ e[i + (d + 1)] \in Nat
    BY <1>1, <2>1
  <2> QED BY <1>3, <2>1, <2>2, <2>3
<1>4. j - i \in Nat /\ i + (j - i) = j
  BY <1>1
<1>5. j - i \in T
  <2> HIDE DEF T
  <2> QED BY <1>2, <1>3, <1>4, SetInduction
<1> QED BY <1>1, <1>4, <1>5

(* What the batches hold is what was delivered.                            *)
LEMMA DeliveredElements ==
  ASSUME QueueType
  PROVE  /\ Delivered \in Seq(Nat)
         /\ ToSet(Delivered) = UNION {{batches[i][j] : j \in 1 .. Len(batches[i])} : i \in 1 .. Len(batches)}
<1> DEFINE k == Len(batches)
<1>1. k \in Nat /\ \A i \in 1 .. k : batches[i] \in Seq(Nat) /\ Len(batches[i]) \in Nat
  <2>1. k \in Nat /\ \A i \in 1 .. k : batches[i] \in Seq(Nat)
    BY DEF QueueType
  <2> QED BY <2>1
<1>2. PICK s \in [0 .. k -> Nat] : s[0] = 0 /\ \A i \in 1 .. k : s[i] = s[i - 1] + Len(batches[i])
  <2> DEFINE Sums(m, s) == /\ s \in [0 .. m -> Nat] /\ s[0] = 0
                           /\ \A i \in 1 .. m : s[i] = s[i - 1] + Len(batches[i])
             T == {m \in Nat : m <= k => \E s : Sums(m, s)}
  <2>1. 0 \in T
    <3>1. Sums(0, [i \in 0 .. 0 |-> 0])
      OBVIOUS
    <3> HIDE DEF Sums
    <3> QED BY <3>1
  <2>2. ASSUME NEW m \in Nat, m \in T PROVE m + 1 \in T
    <3> SUFFICES ASSUME m + 1 <= k PROVE \E s : Sums(m + 1, s)
      <4> HIDE DEF Sums
      <4> QED OBVIOUS
    <3>1. PICK s : Sums(m, s)
      <4>1. m <= k
        BY <1>1
      <4> HIDE DEF Sums
      <4> QED BY <2>2, <4>1
    <3>2. m + 1 \in 1 .. k
      BY <1>1
    <3>3. PICK last \in Nat : last = s[m] + Len(batches[m + 1])
      BY <1>1, <3>1, <3>2
    <3> DEFINE t == [i \in 0 .. m + 1 |-> IF i = m + 1 THEN last ELSE s[i]]
    <3>4. t \in [0 .. m + 1 -> Nat] /\ t[m + 1] = last /\ \A i \in 0 .. m : t[i] = s[i]
      BY <3>1
    <3> HIDE DEF t
    <3>5. t[0] = 0
      BY <3>1, <3>4
    <3>6. ASSUME NEW i \in 1 .. m + 1 PROVE t[i] = t[i - 1] + Len(batches[i])
      <4>1. CASE i = m + 1
        <5>1. i - 1 = m /\ t[m] = s[m]
          BY <3>4, <4>1
        <5> QED BY <3>3, <3>4, <4>1, <5>1
      <4>2. CASE i # m + 1
        <5>1. i \in 1 .. m /\ i \in 0 .. m /\ i - 1 \in 0 .. m
          BY <4>2
        <5> QED BY <3>1, <3>4, <5>1
      <4> QED BY <4>1, <4>2
    <3>7. Sums(m + 1, t)
      BY <3>4, <3>5, <3>6
    <3> HIDE DEF Sums
    <3> QED BY <3>7
  <2>3. k \in T
    <3> HIDE DEF T
    <3> QED BY <1>1, <2>1, <2>2, SetInduction
  <2>4. PICK s : Sums(k, s)
    <3> HIDE DEF Sums
    <3> QED BY <1>1, <2>3
  <2> QED BY <2>4
<1>3. /\ Delivered \in Seq(Nat) /\ Len(Delivered) = s[k]
      /\ \A i \in 1 .. k : \A j \in 1 .. Len(batches[i]) :
           s[i - 1] + j \in 1 .. s[k] /\ Delivered[s[i - 1] + j] = batches[i][j]
      /\ \A x \in 1 .. s[k] : \E i \in 1 .. k : \E j \in 1 .. Len(batches[i]) : x = s[i - 1] + j
  <2>1. batches \in Seq(Seq(Nat))
    BY DEF QueueType
  <2>2. \A i \in 1 .. Len(batches) : s[i] = s[i - 1] + Len(batches[i])
    BY <1>2
  <2>3. s \in [0 .. Len(batches) -> Nat] /\ s[0] = 0
    BY <1>2
  <2>4. FlattenSeq(batches) \in Seq(Nat) /\ Flattens(FlattenSeq(batches), batches, s)
    BY <2>1, <2>2, <2>3, FlattenProperties, Zenon
  <2>5. Delivered \in Seq(Nat) /\ Flattens(Delivered, batches, s)
    BY <2>4, Zenon DEF Delivered
  <2> QED BY <2>5 DEF Flattens
<1>4. DOMAIN Delivered = 1 .. s[k]
  BY <1>3
<1>5. ASSUME NEW x \in 1 .. s[k]
      PROVE  Delivered[x] \in UNION {{batches[i][j] : j \in 1 .. Len(batches[i])} : i \in 1 .. k}
  <2>1. PICK i \in 1 .. k : \E j \in 1 .. Len(batches[i]) : x = s[i - 1] + j
    BY <1>3
  <2>2. PICK j \in 1 .. Len(batches[i]) : x = s[i - 1] + j
    BY <2>1
  <2>3. Delivered[x] = batches[i][j]
    BY <1>3, <2>2
  <2> QED BY <2>3
<1>6. ASSUME NEW i \in 1 .. k, NEW j \in 1 .. Len(batches[i])
      PROVE  batches[i][j] \in {Delivered[x] : x \in 1 .. s[k]}
  <2>1. s[i - 1] + j \in 1 .. s[k] /\ Delivered[s[i - 1] + j] = batches[i][j]
    BY <1>3
  <2> QED BY <2>1
<1>7. ToSet(Delivered) = {Delivered[x] : x \in 1 .. s[k]}
  BY <1>4 DEF ToSet
<1> DEFINE Walked == UNION {{batches[i][j] : j \in 1 .. Len(batches[i])} : i \in 1 .. k}
<1>8. \A y \in Walked : y \in {Delivered[x] : x \in 1 .. s[k]}
  BY <1>6
<1>9. ToSet(Delivered) = Walked
  <2>1. \A x \in 1 .. s[k] : Delivered[x] \in Walked
    BY <1>5
  <2> HIDE DEF Walked
  <2> QED BY <2>1, <1>7, <1>8
<1> QED BY <1>3, <1>9

(* Nothing is lost: the nodes that can be reached from head and from the   *)
(* consumer hold exactly the published messages that were not handled yet, *)
(* and no node is on both lists.                                           *)
THEOREM NothingIsLost == Spec => []NothingLost
<1>1. QueueInv => NothingLost
  <2> SUFFICES ASSUME QueueInv PROVE NothingLost
    OBVIOUS
  <2>1. QueueType /\ PublishedOnce /\ PrivateInv
    BY DEF QueueInv
  <2>2. PICK q \in Seq(Addresses), w \in Seq(Addresses),
             e \in [0 .. Len(batches) -> 0 .. Len(published)] : ListsInv(q, w, e)
    BY DEF QueueInv, ListsExist
  <2>3. /\ Reach(head) = {q[i] : i \in 1 .. Len(q)}
        /\ Reach(iter) = {w[i] : i \in 1 .. Len(w)}
    <3>1. IsList(head, q) /\ IsList(iter, w)
      BY <2>2 DEF ListsInv, SharedInv, WalkInv
    <3> QED BY <2>1, <3>1, ReachIsList, Zenon
  <2>4. Reach(head) \cap Reach(iter) = {}
    <3>1. \A i \in 1 .. Len(q), j \in 1 .. Len(w) : q[i] # w[j]
      BY <2>1, <2>2, ListedNodes, Zenon
    <3> QED BY <2>3, <3>1
  <2> DEFINE Walked == UNION {{batches[i][j] : j \in 1 .. Len(batches[i])} : i \in 1 .. Len(batches)}
             Waiting == {content[a] : a \in Reach(head) \cup Reach(iter)}
             n == Len(published)
             k == Len(batches)
  <2>5. ToSet(Delivered) = Walked /\ ToSet(published) = {published[x] : x \in 1 .. n}
    <3>1. DOMAIN published = 1 .. n
      BY <2>1 DEF QueueType
    <3> QED BY <2>1, <3>1, DeliveredElements, Zenon DEF ToSet
  <2>6. ASSUME NEW x \in 1 .. n, published[x] \notin Walked PROVE published[x] \in Waiting
    <3>1. \/ \E i \in 1 .. Len(q) : content[q[i]] = published[x]
          \/ \E i \in 1 .. Len(w) : content[w[i]] = published[x]
          \/ \E i \in 1 .. k : \E j \in 1 .. Len(batches[i]) : batches[i][j] = published[x]
      BY <2>1, <2>2, PublishedIsSomewhere, Zenon
    <3>2. ~ \E i \in 1 .. k : \E j \in 1 .. Len(batches[i]) : batches[i][j] = published[x]
      <4>1. ASSUME NEW i \in 1 .. k, NEW j \in 1 .. Len(batches[i]) PROVE batches[i][j] \in Walked
        <5>1. batches[i][j] \in {batches[i][l] : l \in 1 .. Len(batches[i])}
          OBVIOUS
        <5> QED BY <5>1, Zenon
      <4> HIDE DEF Walked
      <4> QED BY <2>6, <4>1
    <3> QED BY <2>3, <3>1, <3>2
  <2>7. ASSUME NEW a \in Reach(head) \cup Reach(iter),
               NEW i \in 1 .. k, NEW j \in 1 .. Len(batches[i])
        PROVE  content[a] \in ToSet(published) /\ content[a] # batches[i][j]
    <3> DEFINE y == e[i] + 1 - j
    <3>0. k \in Nat /\ n \in Nat /\ i \in 0 .. k /\ k \in 0 .. k
      BY <2>1 DEF QueueType
    <3>1. /\ y \in 1 .. n /\ batches[i][j] = published[y]
          /\ e[i] \in Nat /\ e[k] \in Nat /\ y <= e[i] /\ e[i] <= e[k]
      <4>0. i <= k
        BY <3>0
      <4>1. y \in 1 .. n
        BY <2>1, <2>2, Positions, Zenon
      <4>2. batches[i][j] = published[y]
        BY <2>2 DEF ListsInv, BatchesInv
      <4>3. e[i] \in Nat /\ e[k] \in Nat
        BY <2>1, <2>2, <3>0, Positions, Zenon
      <4>4. e[i] <= e[k]
        BY <2>1, <2>2, <3>0, <4>0, EndsGrow, Zenon
      <4> QED BY <4>1, <4>2, <4>3, <4>4
    <3>2. ASSUME NEW h \in 1 .. Len(q), a = q[h]
          PROVE  content[a] \in ToSet(published) /\ content[a] # batches[i][j]
      <4> DEFINE x == n + 1 - h
      <4>1. x \in 1 .. n /\ x > e[k] /\ content[q[h]] = published[x]
        BY <2>1, <2>2, Positions, Zenon
      <4> HIDE DEF x, y, n
      <4>2. x # y
        BY <3>0, <3>1, <4>1
      <4> QED BY <2>1, <2>5, <3>1, <3>2, <4>1, <4>2 DEF PublishedOnce, n
    <3>3. ASSUME NEW h \in 1 .. Len(w), a = w[h]
          PROVE  content[a] \in ToSet(published) /\ content[a] # batches[i][j]
      <4> DEFINE x == e[k - 1] + Len(w) + 1 - h
      <4>1. x \in 1 .. n /\ content[w[h]] = published[x]
        BY <2>1, <2>2, Positions, Zenon
      <4>2. k - 1 \in 0 .. k /\ Len(w) \in Nat
        BY <3>0
      <4>3. PICK base \in Nat, length \in Nat : base = e[k - 1] /\ length = Len(w)
        BY <2>1, <2>2, <4>2, Positions, Zenon
      <4>4. x > base /\ x <= base + length
        BY <4>3
      <4>5. CASE i = k
        <5>1. e[i] = base + Len(batches[i]) + length
          BY <2>2, <4>3, <4>5 DEF ListsInv, BatchesInv
        <5>2. Len(batches[i]) \in Nat
          BY <2>1, <2>2, Positions, Zenon
        <5>3. y > base + length
          BY <3>1, <5>1, <5>2
        <5> HIDE DEF x, y, n
        <5>4. x # y
          BY <3>1, <4>1, <4>3, <4>4, <5>3
        <5> QED BY <2>1, <2>5, <3>1, <3>3, <4>1, <5>4 DEF PublishedOnce, n
      <4>6. CASE i # k
        <5>1. i <= k - 1 /\ i \in 0 .. k
          BY <3>0, <4>6
        <5>2. e[i] <= base
          BY <2>1, <2>2, <4>2, <4>3, <5>1, EndsGrow
        <5> HIDE DEF x, y, n
        <5>3. x # y
          BY <3>1, <4>1, <4>3, <4>4, <5>2
        <5> QED BY <2>1, <2>5, <3>1, <3>3, <4>1, <5>3 DEF PublishedOnce, n
      <4> QED BY <4>5, <4>6
    <3> QED BY <2>3, <3>2, <3>3
  <2>8. ASSUME NEW a \in Reach(head) \cup Reach(iter) PROVE content[a] \in ToSet(published)
    <3>1. CASE a \in Reach(head)
      <4>1. PICK h \in 1 .. Len(q) : a = q[h]
        BY <2>3, <3>1
      <4>2. n + 1 - h \in 1 .. n /\ content[q[h]] = published[n + 1 - h]
        BY <2>1, <2>2, Positions, Zenon
      <4> QED BY <2>5, <4>1, <4>2
    <3>2. CASE a \in Reach(iter)
      <4>1. PICK h \in 1 .. Len(w) : a = w[h]
        BY <2>3, <3>2
      <4>2. e[k - 1] + Len(w) + 1 - h \in 1 .. n /\ content[w[h]] = published[e[k - 1] + Len(w) + 1 - h]
        BY <2>1, <2>2, Positions, Zenon
      <4> QED BY <2>5, <4>1, <4>2
    <3> QED BY <3>1, <3>2
  <2>9. \A z \in Waiting : z \in ToSet(published) /\ z \notin Walked
    BY <2>7, <2>8
  <2>10. Waiting = ToSet(published) \ Walked
    <3> HIDE DEF Waiting, Walked
    <3> QED BY <2>5, <2>6, <2>9
  <2> QED BY <2>4, <2>5, <2>10 DEF NothingLost
<1> QED BY <1>1, QueueInvariant, PTL
(* Between two walks the batches, each read backwards, are a prefix of     *)
(* what was published: nothing overtakes across batches, and within one    *)
(* the newest comes first.                                                 *)
THEOREM BatchesAreReversed == Spec => []BatchesReversePublication
<1>1. QueueInv => BatchesReversePublication
  <2> SUFFICES ASSUME QueueInv, consumer = "load"
               PROVE  FlattenSeq([i \in 1 .. Len(batches) |-> Reverse(batches[i])])
                        = SubSeq(published, 1, Len(Delivered))
    BY DEF BatchesReversePublication
  <2> DEFINE k == Len(batches)
             n == Len(published)
             turned == [i \in 1 .. k |-> Reverse(batches[i])]
  <2>1. QueueType /\ batches \in Seq(Seq(Nat)) /\ published \in Seq(Nat) /\ k \in Nat /\ n \in Nat
    BY DEF QueueInv, QueueType
  <2>2. PICK q \in Seq(Addresses), w \in Seq(Addresses), e \in [0 .. k -> 0 .. n] : ListsInv(q, w, e)
    BY DEF QueueInv, ListsExist
  <2>3. w = <<>> /\ Len(w) = 0
    BY <2>2 DEF ListsInv, WalkInv
  <2>4. \A i \in 1 .. k : batches[i] \in Seq(Nat) /\ Len(batches[i]) \in Nat
    BY <2>1, <2>2, Positions, Zenon
  <2>5. /\ e \in [0 .. k -> Nat] /\ e[0] = 0
        /\ \A i \in 1 .. k : e[i] = e[i - 1] + Len(batches[i])
    <3>1. e \in [0 .. k -> Nat]
      BY <2>1
    <3>2. e[0] = 0
      BY <2>2 DEF ListsInv, BatchesInv
    <3>3. ASSUME NEW i \in 1 .. k PROVE e[i] = e[i - 1] + Len(batches[i])
      <4>1. e[i] = e[i - 1] + Len(batches[i]) + (IF i = k THEN Len(w) ELSE 0)
        BY <2>2 DEF ListsInv, BatchesInv
      <4>2. e[i - 1] \in Nat
        BY <2>1, <2>2, Positions, Zenon
      <4> QED BY <2>3, <2>4, <4>1, <4>2
    <3> QED BY <3>1, <3>2, <3>3
  <2>6. /\ turned \in Seq(Seq(Nat)) /\ Len(turned) = k
        /\ \A i \in 1 .. k :
             /\ Len(turned[i]) = Len(batches[i])
             /\ \A j \in 1 .. Len(batches[i]) : turned[i][j] = batches[i][Len(batches[i]) - j + 1]
    <3>1. ASSUME NEW i \in 1 .. k
          PROVE  /\ Reverse(batches[i]) \in Seq(Nat) /\ Len(Reverse(batches[i])) = Len(batches[i])
                 /\ \A j \in 1 .. Len(batches[i]) :
                      Reverse(batches[i])[j] = batches[i][Len(batches[i]) - j + 1]
      BY <2>4 DEF Reverse
    <3> QED BY <2>1, <3>1
  <2> HIDE DEF turned
  <2>7. Delivered \in Seq(Nat) /\ Flattens(Delivered, batches, e)
    <3>1. FlattenSeq(batches) \in Seq(Nat) /\ Flattens(FlattenSeq(batches), batches, e)
      BY <2>1, <2>5, FlattenProperties, Zenon
    <3> QED BY <3>1, Zenon DEF Delivered
  <2>8. FlattenSeq(turned) \in Seq(Nat) /\ Flattens(FlattenSeq(turned), turned, e)
    <3>1. e \in [0 .. Len(turned) -> Nat] /\ \A i \in 1 .. Len(turned) : e[i] = e[i - 1] + Len(turned[i])
      BY <2>5, <2>6
    <3> QED BY <2>5, <2>6, <3>1, FlattenProperties, Zenon
  <2>9. Len(FlattenSeq(turned)) = e[k] /\ Len(Delivered) = e[k] /\ e[k] \in Nat /\ e[k] <= n
    <3>1. k \in 0 .. k
      BY <2>1
    <3>2. e[k] \in Nat /\ e[k] <= n
      BY <2>1, <2>2, <3>1, Positions, Zenon
    <3> QED BY <2>6, <2>7, <2>8, <3>2 DEF Flattens
  <2>10. ASSUME NEW x \in 1 .. e[k] PROVE FlattenSeq(turned)[x] = published[x]
    <3>1. PICK i \in 1 .. k : \E j \in 1 .. Len(turned[i]) : x = e[i - 1] + j
      BY <2>6, <2>8 DEF Flattens
    <3>2. PICK j \in 1 .. Len(turned[i]) : x = e[i - 1] + j
      BY <3>1
    <3>3. FlattenSeq(turned)[x] = turned[i][j]
      BY <2>6, <2>8, <3>2 DEF Flattens
    <3>4. PICK size \in Nat : size = Len(batches[i])
      BY <2>4
    <3>5. j \in 1 .. size /\ size - j + 1 \in 1 .. size
      BY <2>6, <3>4
    <3>6. turned[i][j] = batches[i][size - j + 1]
      BY <2>6, <3>4, <3>5
    <3>7. batches[i][size - j + 1] = published[e[i] + 1 - (size - j + 1)]
      BY <2>2, <3>4, <3>5 DEF ListsInv, BatchesInv
    <3>8. e[i] + 1 - (size - j + 1) = x
      <4>1. PICK base \in Nat : base = e[i - 1]
        BY <2>1, <2>2, Positions, Zenon
      <4>2. e[i] = base + size
        BY <2>5, <3>4, <4>1
      <4> QED BY <3>2, <3>5, <4>1, <4>2
    <3> QED BY <3>3, <3>6, <3>7, <3>8
  <2>11. /\ SubSeq(published, 1, e[k]) \in Seq(Nat) /\ Len(SubSeq(published, 1, e[k])) = e[k]
         /\ \A x \in 1 .. e[k] : SubSeq(published, 1, e[k])[x] = published[x]
    BY <2>1, <2>9
  <2>12. FlattenSeq(turned) = SubSeq(published, 1, e[k])
    BY <2>8, <2>9, <2>10, <2>11
  <2> QED BY <2>9, <2>12 DEF turned
<1> QED BY <1>1, QueueInvariant, PTL
=============================================================================
