-------------------------- MODULE FragmentStorage ---------------------------
(***************************************************************************)
(* FragmentStorage: a connection collects the fragments of game messages,  *)
(* which arrive in any order or not at all, and hands a message up when    *)
(* its last missing fragment comes.  AddFragment runs on the connection's  *)
(* strand, one call at a time; it is one action here, with the three steps *)
(* of RunDefragmentation in order: OrderedInsert, CheckFragments,          *)
(* DeleteFragments.                                                        *)
(*                                                                         *)
(* The intrusive lists are kept as sequences.  `ordered' lists the         *)
(* messages under way from orderedHead on; each is a chain of items linked *)
(* by orderedNext, sorted by fragment index, and only the first item of a  *)
(* chain is in the doubly linked list.  An item lives in the allocator of  *)
(* the packet it came in, so dropping the last reference to the item       *)
(* without releasing that allocator loses its memory.                      *)
(***************************************************************************)
EXTENDS Fragmentation, FiniteSets, SequencesExt

CONSTANTS
  Messages,       \* game messages of the peer (their header sequence numbers)
  DataSize,       \* their sizes
  Copies,         \* bound: how often the network delivers a fragment of each
  MaxAge,         \* the age, in ticks, that a fragment may reach (one second)
  MaxTime         \* bound: ticks

ASSUME StorageAssumption ==
  /\ DataSize \in [Messages -> Nat \ {0}]
  /\ \A m \in Messages : NumFragments(DataSize[m]) <= MaxFragments
  /\ Copies \in [Messages -> Nat] /\ MaxAge \in Nat /\ MaxTime \in Nat

VARIABLES
  now,            \* SystemClock::LocalNow()
  ordered,        \* the chains from orderedHead to orderedTail
  arrived,        \* how often each fragment came
  released,       \* items whose allocator was freed or went up with a message
  delivered       \* history: the messages handed up, in order

vars == <<now, ordered, arrived, released, delivered>>

Count(m) == LoadCount(StoreCount(NumFragments(DataSize[m])))

Fragments == {f \in Messages \X (0..MaxFragments - 1) : f[2] < Count(f[1])}

ContentSize(item) == DataIn(DataSize[item.msg], item.idx) + HeaderSize

Init ==
  /\ now = 0
  /\ ordered = <<>>
  /\ arrived = [f \in Fragments |-> 0]
  /\ released = {}
  /\ delivered = <<>>

Leader(chain) == chain.items[1]
LinkCount(chain) == Len(chain.items)

MatchingAny(list, item) == DOMAIN list

(* IsMatching: same sequence, endpoint and fragment count.                 *)
Matching(list, item) == {k \in DOMAIN list : Leader(list[k]).msg = item.msg}

(* The item goes into its chain behind the last one with a smaller index.  *)
Sorted(items, item) ==
  InsertAt(items, 1 + Max({0} \cup {k \in DOMAIN items : items[k].idx < item.idx}), item)

(* DReplace puts the item in front of its chain and keeps the old          *)
(* timestamp for the new head; further down the chain only orderedNext     *)
(* changes.                                                                *)
Extend(chain, item) == [items |-> Sorted(chain.items, item), oldest |-> chain.oldest]

(* OrderedInsert: a duplicate is marked deletable, an item of a known      *)
(* message joins its chain, and PushFront starts a new one.                *)
OrderedInsert(item) ==
  LET same == Matching(ordered, item)
      k == Min(same)
      isDuplicate == same # {} /\ \E x \in ToSet(ordered[k].items) : x.idx = item.idx
  IN  [list |-> IF isDuplicate THEN ordered
                ELSE IF same # {} THEN [ordered EXCEPT ![k] = Extend(@, item)]
                ELSE << [items |-> <<item>>, oldest |-> item.at] >> \o ordered,
       deletable |-> IF isDuplicate THEN {item} ELSE {}]

TooOld(chain) == now - chain.oldest > MaxAge

Complete(chain) == LinkCount(chain) = Count(Leader(chain).msg)

FragmentsShrink(chain) ==                                              \* mutant
  \A k \in DOMAIN chain.items :
    /\ chain.items[k].idx = k - 1
    /\ k < LinkCount(chain) => ContentSize(chain.items[k]) = ContentSize(Leader(chain))
    /\ 1 < k /\ k = LinkCount(chain) => ContentSize(chain.items[k]) < ContentSize(Leader(chain))

(* Indices follow each other from 0, and only the last fragment is smaller. *)
FragmentsAreConsistent(chain) ==
  \A k \in DOMAIN chain.items :
    /\ chain.items[k].idx = k - 1
    /\ ContentSize(chain.items[k]) <= ContentSize(Leader(chain))
    /\ k < LinkCount(chain) => ContentSize(chain.items[k]) = ContentSize(Leader(chain))

(* CheckFragments walks the list until a chain is complete.  A chain that  *)
(* is too old ends the walk as well: MarkDeletable has already overwritten *)
(* the item's next pointer when the loop follows it, so the walk goes on   *)
(* in the deletable list, where there is at most the duplicate just marked *)
(* (young, and not a whole message).                                       *)
Decisive(list) == {k \in DOMAIN list : TooOld(list[k]) \/ Complete(list[k])}

CheckWithoutErase(list) ==
  LET k == Min(Decisive(list))
      chain == list[k]
  IN  IF Decisive(list) = {} \/ TooOld(chain)
      THEN [list |-> list, deletable |-> {}, messages |-> <<>>]
      ELSE [list |-> list, deletable |-> ToSet(chain.items),
            messages |-> << [sequence |-> Leader(chain).msg, parts |-> chain.items] >>]

(* What CheckFragments returns: the list, what it marked deletable, and    *)
(* the reassembled message or none.  Of a chain that is too old only the   *)
(* first item is marked.                                                   *)
CheckFragments(list) ==
  LET k == Min(Decisive(list))
      chain == list[k]
  IN  IF Decisive(list) = {}
      THEN [list |-> list, deletable |-> {}, messages |-> <<>>]
      ELSE IF TooOld(chain)
      THEN [list |-> RemoveAt(list, k), deletable |-> {Leader(chain)}, messages |-> <<>>]
      ELSE [list |-> RemoveAt(list, k),
            deletable |-> ToSet(chain.items),
            messages |-> IF FragmentsAreConsistent(chain)
                         THEN << [sequence |-> Leader(chain).msg, parts |-> chain.items] >>
                         ELSE <<>>]

(* An item: the fragment's header, the packet's timestamp, and which of    *)
(* the copies it is.                                                       *)
FSItem(f) == [msg |-> f[1], idx |-> f[2], at |-> now, copy |-> arrived[f] + 1]

(* AddFragment and RunDefragmentation.                                     *)
AddFragment(f) ==
  /\ arrived[f] < Copies[f[1]]
  /\ arrived' = [arrived EXCEPT ![f] = @ + 1]
  /\ LET item == FSItem(f)
         inserted == OrderedInsert(item)
         checked == CheckFragments(inserted.list)
     IN  /\ ordered' = checked.list
         /\ delivered' = delivered \o checked.messages
         /\ released' = released \cup inserted.deletable \cup checked.deletable
  /\ UNCHANGED now

(* Time passes between two packets.                                        *)
Tick ==
  /\ now < MaxTime
  /\ now' = now + 1
  /\ UNCHANGED <<ordered, arrived, released, delivered>>

Next == Tick \/ \E f \in Fragments : AddFragment(f)

Spec == Init /\ [][Next]_vars

-----------------------------------------------------------------------------

(* The data TryReassemble copies together: positions of the sent message.  *)
Content(d) == FlattenSeq([k \in DOMAIN d.parts |->
                LET p == d.parts[k]
                IN  [b \in 1..DataIn(DataSize[p.msg], p.idx) |-> Offset(p.idx) + b]])

(* Whatever the order of arrival, and with other messages' fragments in    *)
(* between, a message handed up is the message that was sent, byte by byte. *)
DeliveredWhole ==
  \A d \in ToSet(delivered) :
    /\ \A p \in ToSet(d.parts) : p.msg = d.sequence
    /\ Content(d) = [b \in 1..DataSize[d.sequence] |-> b]

(* No chain holds an item whose memory is gone, no item is in two chains,  *)
(* and no message has two chains.                                          *)
ChainsAreSound ==
  /\ \A k \in DOMAIN ordered : ToSet(ordered[k].items) \cap released = {}
  /\ \A k, l \in DOMAIN ordered : Leader(ordered[k]).msg = Leader(ordered[l]).msg => k = l

(* The fragments of a message that wait for the others.                    *)
Held(m) ==
  {item.idx : item \in {x \in UNION {ToSet(chain.items) : chain \in ToSet(ordered)} : x.msg = m}}

(* The call that brings the last missing fragment of a message hands that  *)
(* message up, whatever the order in which the others came and however     *)
(* many messages are under way; unless the walk meets a chain too old      *)
(* before it.                                                              *)
CompletionIsReturned ==
  [][ \A f \in Fragments :
        /\ arrived'[f] # arrived[f]
        /\ Held(f[1]) \cup {f[2]} = 0..Count(f[1]) - 1
        /\ \A k \in DOMAIN ordered : ~TooOld(ordered[k])
        => Len(delivered') = Len(delivered) + 1 /\ Last(delivered').sequence = f[1] ]_vars

(* A message whose fragments come once is handed up once.                  *)
DeliveredOnce ==
  \A i, j \in DOMAIN delivered :
    delivered[i].sequence = delivered[j].sequence /\ Copies[delivered[i].sequence] = 1 => i = j
=============================================================================
