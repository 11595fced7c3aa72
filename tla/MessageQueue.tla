---------------------------- MODULE MessageQueue ----------------------------
(***************************************************************************)
(* MessageQueue: io threads push received messages (Produce), the game     *)
(* thread takes the whole list in one exchange (ConsumeAll), walks it and  *)
(* frees the nodes.  There is no lock; every access of the atomic `head'   *)
(* is a step, and compare_exchange_weak may fail for no reason.  In this   *)
(* program the producers of one queue take turns on a strand; the queue    *)
(* itself is written for, and is modelled with, producers that do not.     *)
(*                                                                         *)
(* A node lives in the allocator of its message, so a freed node's address *)
(* comes back for a later message while a producer may still hold it as    *)
(* the head it has read: the classic setting of an ABA error.              *)
(***************************************************************************)
EXTENDS Naturals, SequencesExt

CONSTANTS
  Producers,      \* io threads
  Addresses,      \* where nodes can be allocated
  Null,           \* nullptr
  MaxMessages     \* bound: messages produced in all

ASSUME QueueAssumption == Null \notin Addresses /\ MaxMessages \in Nat

VARIABLES
  head,           \* the atomic head
  next,           \* next pointer of each node
  content,        \* the message in each node, 0 when it is free
  pc, node, seen, \* per producer: label, its node, the currentHead it has read
  consumer,       \* the consumer's label
  taken,          \* the consumer's currentHead
  iter,           \* the node the consumer's loop is at
  created,        \* messages made so far: message k is the k-th
  published,      \* history: messages in the order their exchange succeeded
  batches         \* history: what each ConsumeAll delivered, in the order of the walk

producerVars == <<pc, node, seen, created>>
consumerVars == <<consumer, taken, iter, batches>>
vars == <<head, next, content, producerVars, consumerVars, published>>

Message == 1..MaxMessages

Init ==
  /\ head = Null /\ taken = Null /\ iter = Null
  /\ next = [a \in Addresses |-> Null]
  /\ content = [a \in Addresses |-> 0]
  /\ pc = [p \in Producers |-> "idle"]
  /\ node = [p \in Producers |-> Null] /\ seen = [p \in Producers |-> Null]
  /\ consumer = "load"
  /\ created = 0
  /\ published = <<>> /\ batches = <<>>

(* A message arrived and was parsed: its allocator makes a Node<T>.        *)
Receive(p) ==
  /\ pc[p] = "idle" /\ created < MaxMessages
  /\ \E a \in {b \in Addresses : content[b] = 0} :
       /\ node' = [node EXCEPT ![p] = a]
       /\ content' = [content EXCEPT ![a] = created + 1]
       /\ next' = [next EXCEPT ![a] = Null]
  /\ created' = created + 1
  /\ pc' = [pc EXCEPT ![p] = "load"]
  /\ UNCHANGED <<head, seen, consumerVars, published>>

(* Produce: currentHead = head.load().                                     *)
ProduceLoad(p) ==
  /\ pc[p] = "load"
  /\ seen' = [seen EXCEPT ![p] = head]
  /\ pc' = [pc EXCEPT ![p] = "link"]
  /\ UNCHANGED <<head, next, content, node, created, consumerVars, published>>

ProduceUnlinked(p) ==
  /\ pc[p] = "link"
  /\ pc' = [pc EXCEPT ![p] = "cas"]
  /\ UNCHANGED <<head, next, content, node, seen, created, consumerVars, published>>

(* msg->next = currentHead.                                                *)
ProduceLink(p) ==
  /\ pc[p] = "link"
  /\ next' = [next EXCEPT ![node[p]] = seen[p]]
  /\ pc' = [pc EXCEPT ![p] = "cas"]
  /\ UNCHANGED <<head, content, node, seen, created, consumerVars, published>>

ExpectedAnything(expected) == TRUE
Expected(expected) == head = expected

(* The exchange publishes the node ...                                     *)
ProduceCas(p) ==
  /\ pc[p] = "cas" /\ Expected(seen[p])
  /\ head' = node[p]
  /\ published' = Append(published, content[node[p]])
  /\ pc' = [pc EXCEPT ![p] = "idle"]
  /\ UNCHANGED <<next, content, node, seen, created, consumerVars>>

(* ... or fails, also spuriously, and the loop starts over.                *)
ProduceRetry(p) ==
  /\ pc[p] = "cas"
  /\ pc' = [pc EXCEPT ![p] = "load"]
  /\ UNCHANGED <<head, next, content, node, seen, created, consumerVars, published>>

(* ConsumeAll: currentHead = head.load().                                  *)
ConsumeLoad ==
  /\ consumer = "load"
  /\ taken' = head
  /\ consumer' = "cas"
  /\ UNCHANGED <<head, next, content, producerVars, iter, batches, published>>

(* The exchange takes the list; the caller starts to walk it.              *)
ConsumeCas ==
  /\ consumer = "cas" /\ head = taken
  /\ head' = Null
  /\ iter' = taken
  /\ consumer' = "walk"
  /\ batches' = IF taken = Null THEN batches ELSE Append(batches, <<>>)
  /\ UNCHANGED <<next, content, producerVars, taken, published>>

ConsumeRetry ==
  /\ consumer = "cas"
  /\ consumer' = "load"
  /\ UNCHANGED <<head, next, content, producerVars, taken, iter, batches, published>>

(* One round of the caller's loop: handle the message, read next, free the *)
(* node with its allocator.                                                *)
Walk ==
  /\ consumer = "walk" /\ iter # Null
  /\ batches' = [batches EXCEPT ![Len(batches)] = Append(@, content[iter])]
  /\ iter' = next[iter]
  /\ content' = [content EXCEPT ![iter] = 0]
  /\ UNCHANGED <<head, next, producerVars, consumer, taken, published>>

(* The caller comes back for the next batch.                               *)
WalkEnds ==
  /\ consumer = "walk" /\ iter = Null
  /\ consumer' = "load"
  /\ UNCHANGED <<head, next, content, producerVars, taken, iter, batches, published>>

Produce(p) == ProduceLoad(p) \/ ProduceLink(p) \/ ProduceCas(p) \/ ProduceRetry(p)
Consume == ConsumeLoad \/ ConsumeCas \/ ConsumeRetry \/ Walk \/ WalkEnds

Next == (\E p \in Producers : Receive(p) \/ Produce(p)) \/ Consume

Spec == Init /\ [][Next]_vars

(* Threads keep running, the game thread comes back every tick, and an     *)
(* exchange that is retried again and again does not fail every time.      *)
FairSpec ==
  /\ Spec
  /\ \A p \in Producers : WF_vars(Produce(p)) /\ SF_vars(ProduceCas(p))
  /\ WF_vars(Consume) /\ SF_vars(ConsumeCas)

-----------------------------------------------------------------------------

(* The nodes a walk that starts at `from' would visit: those in every set  *)
(* that has the first one and with a node the next.                        *)
Reach(from) ==
  {a \in Addresses : \A nodes \in SUBSET Addresses :
     from \in nodes \cup {Null} /\ (\A b \in nodes : next[b] \in nodes \cup {Null}) => a \in nodes}

Delivered == FlattenSeq(batches)

(* A published message that was not handled is on the shared list or on    *)
(* the list the consumer walks, and on one of them only; and nothing else  *)
(* is: no message is lost, walked twice, or reached after it was freed.    *)
NothingLost ==
  /\ Reach(head) \cap Reach(iter) = {}
  /\ {content[a] : a \in Reach(head) \cup Reach(iter)} = ToSet(published) \ ToSet(Delivered)

(* Batches come in publication order and each is read NEWEST first: that   *)
(* is what FetchUpdate and FetchActions have to cope with.                 *)
BatchesReversePublication ==
  consumer = "load" => FlattenSeq([i \in 1..Len(batches) |-> Reverse(batches[i])])
                         = SubSeq(published, 1, Len(Delivered))

(* Every message that was received is handled some day.                    *)
EventuallyDelivered ==
  \A m \in Message : (created >= m) ~> (m \in ToSet(Delivered))
=============================================================================
