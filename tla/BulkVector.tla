----------------------------- MODULE BulkVector ------------------------------
(***************************************************************************)
(* BulkVector, which holds the objects of a Scene, and the loops over it.  *)
(* Objects live in bulks of slots; a slot whose object is removed joins a  *)
(* free list sorted by address, kept in the slots themselves.  A loop      *)
(* walks the bulks and passes over the slots of the free list it found     *)
(* when it began; the one of GameApp::Simulate removes the object it has   *)
(* come to, or runs its scripts, which may create objects.                 *)
(*                                                                         *)
(* `debug' is the build: _DEBUG, and with it NETCODE_DEBUG, is defined or  *)
(* is not.  One thread.  The memory of the slots is ordered as the bulks   *)
(* are, which malloc does not promise; up to 512 objects there is one.     *)
(***************************************************************************)
EXTENDS Integers, Sequences, FiniteSetsExt

CONSTANTS
  BulkSize,   \* BULK_SIZE
  MaxBulks    \* bound: bulks, by the order of their addresses

VARIABLES
  debug,      \* whether _DEBUG is defined
  bulks,      \* from head on: the address and nextIndex of each bulk
  freeListHead,
  next,       \* what stands in a slot where a FreeListItem has its next
  live,       \* slots with an object
  camera,     \* the slot of the camera, the first object of a scene
  trails,     \* slots with the object of a trail
  marked,     \* slots whose flags say MARKED_FOR_DELETION
  loop,       \* the Iterator of the loop that runs, and what it has yet to visit
  astray,     \* history: that Iterator has lost the free list
  unexpected  \* history: the end of AppendFreeListItem_SortedImpl was reached

storageVars == <<bulks, freeListHead, next>>
bulkVars == <<debug, storageVars, live, camera, trails, marked, loop, astray, unexpected>>

NULL == 0
Slots == BulkSize .. (MaxBulks + 1) * BulkSize - 1
Slot(bulk, index) == bulk.address * BulkSize + index

NoLoop == [bulk |-> NULL, index |-> 0, free |-> NULL, due |-> {}, created |-> {}]
Idle == loop.bulk = NULL
Current == loop.bulk * BulkSize + loop.index

(* A scene that has just been loaded.                                      *)
Init ==
  /\ debug \in BOOLEAN
  /\ \E address \in 1..MaxBulks :
       bulks = <<[address |-> address, used |-> 1]>> /\ camera = address * BulkSize
  /\ freeListHead = NULL /\ next = [s \in Slots |-> NULL]
  /\ live = {camera} /\ trails = {} /\ marked = {}
  /\ loop = NoLoop /\ astray = FALSE /\ unexpected = FALSE

-----------------------------------------------------------------------------
(* The items from one on.  A live object has no slot's address where an    *)
(* item has its next.                                                      *)
Chain(item, link) ==
  LET nth[n \in 0..Cardinality(Slots)] ==
        IF n = 0 THEN item ELSE IF nth[n - 1] = NULL THEN NULL ELSE link[nth[n - 1]]
  IN  nth
Items(item, link) == {Chain(item, link)[n] : n \in 0..Cardinality(Slots)} \ {NULL}

(* Iterator::TrySetIndex: from an index on to the first slot not free.     *)
TrySetIndex(bulk, index, free, link) ==
  LET item == Chain(free, link)
      n == Max({k \in 0..BulkSize - index : \A j \in 0..k - 1 : Slot(bulk, index + j) = item[j]})
  IN  [found |-> index + n < bulk.used, bulk |-> bulk.address, index |-> index + n,
       free |-> item[n]]

(* Iterator::operator++: on in this bulk, or to the next that has a slot.  *)
Advanced(l, list, link) ==
  LET here == CHOOSE i \in DOMAIN list : list[i].address = l.bulk
      try[n \in 0..Len(list) - here] ==
        IF n = 0 THEN TrySetIndex(list[here], l.index + 1, l.free, link)
        ELSE IF try[n - 1].found THEN try[n - 1]
        ELSE TrySetIndex(list[here + n], 0, try[n - 1].free, link)
      stop == try[Len(list) - here]
  IN IF stop.found
     THEN [l EXCEPT !.bulk = stop.bulk, !.index = stop.index, !.free = stop.free]
     ELSE [l EXCEPT !.bulk = NULL, !.index = 0, !.free = NULL, !.created = {}]

(* Scene::Foreach.  When the first bulk has no object the constructor of   *)
(* Iterator goes on with its argument, which hides the member: the loop    *)
(* begins at the first slot.                                               *)
BeginForeach ==
  LET first == TrySetIndex(bulks[1], 0, freeListHead, next) IN
  /\ Idle /\ ~unexpected
  /\ loop' = [bulk |-> first.bulk, index |-> IF first.found THEN first.index ELSE 0,
              free |-> first.free, due |-> live, created |-> {}]
  /\ astray' = ~first.found
  /\ UNCHANGED <<debug, storageVars, live, camera, trails, marked, unexpected>>

-----------------------------------------------------------------------------
(* Emplace: the first free slot, or the next of the first bulk that has    *)
(* one, or that of a new bulk, which InsertBulk puts in its place.         *)
Emplace(slot) ==
  LET hosts == {i \in DOMAIN bulks : bulks[i].used < BulkSize}
      host  == Min(hosts)
  IN
  /\ \/ /\ freeListHead # NULL
        /\ slot = freeListHead
        /\ freeListHead' = next[slot]
        /\ UNCHANGED bulks
     \/ /\ freeListHead = NULL /\ hosts # {}
        /\ slot = Slot(bulks[host], bulks[host].used)
        /\ bulks' = [bulks EXCEPT ![host].used = @ + 1]
        /\ UNCHANGED freeListHead
     \/ /\ freeListHead = NULL /\ hosts = {}
        /\ \E address \in (1..MaxBulks) \ {bulks[i].address : i \in DOMAIN bulks},
             n \in 1..Len(bulks) + 1 :
             /\ slot = address * BulkSize
             /\ \A i \in DOMAIN bulks : bulks[i].address < address <=> i < n
             /\ bulks' = SubSeq(bulks, 1, n - 1) \o <<[address |-> address, used |-> 1]>>
                         \o SubSeq(bulks, n, Len(bulks))
        /\ UNCHANGED freeListHead
  /\ next' = [next EXCEPT ![slot] = NULL]
  /\ live' = live \cup {slot}
  /\ marked' = marked \ {slot}
  /\ UNCHANGED <<camera, unexpected>>

AppendUnsorted(item, link) ==                                         \* mutant
  /\ freeListHead' = IF freeListHead = NULL THEN item ELSE freeListHead
  /\ next' = [s \in Slots |-> IF s \in Items(freeListHead, link) /\ link[s] = NULL
                              THEN item ELSE link[s]]
  /\ UNCHANGED unexpected

(* AppendFreeListItem_SortedImpl: before the first item, or behind an item *)
(* of a lower address whose next has a higher one, or which has none.      *)
AppendFreeListItem(item, link) ==
  LET places == {i \in Items(freeListHead, link) : i < item /\ (item < link[i] \/ link[i] = NULL)}
      place  == Min(places)
      first  == freeListHead = NULL \/ item < freeListHead
  IN
  /\ freeListHead' = IF first THEN item ELSE freeListHead
  /\ next' = IF first THEN [link EXCEPT ![item] = freeListHead]
             ELSE IF places # {} THEN [link EXCEPT ![item] = link[place], ![place] = item]
             ELSE link
  /\ unexpected' = (~first /\ places = {})

(* Remove: the destructor, which leaves the flags as they are; a debug     *)
(* build then zeroes the object; and a FreeListItem in its place.          *)
RemoveObject(slot) ==
  /\ AppendFreeListItem(slot, [next EXCEPT ![slot] = NULL])
  /\ live' = live \ {slot}
  /\ trails' = trails \ {slot}
  /\ marked' = IF debug THEN marked \ {slot} ELSE marked
  /\ UNCHANGED <<bulks, camera>>

-----------------------------------------------------------------------------
(* Between loops: the game client creates objects and removes those of     *)
(* players that left.                                                      *)
Create ==
  /\ Idle /\ ~unexpected
  /\ \E slot \in Slots : Emplace(slot)
  /\ UNCHANGED <<debug, trails, loop, astray>>

RemoveRemoteObject ==
  /\ Idle /\ ~unexpected
  /\ \E slot \in live \ ({camera} \cup trails) : RemoveObject(slot)
  /\ UNCHANGED <<debug, loop, astray>>

(* CloseScene and ReloadScene: Clear keeps the last bulk.                  *)
ReloadMap ==
  LET kept == [bulks[Len(bulks)] EXCEPT !.used = 1] IN
  /\ Idle /\ ~unexpected
  /\ bulks' = <<kept>> /\ camera' = Slot(kept, 0)
  /\ freeListHead' = NULL /\ next' = [s \in Slots |-> NULL]
  /\ live' = {camera'} /\ trails' = {} /\ marked' = {}
  /\ UNCHANGED <<debug, loop, astray, unexpected>>

-----------------------------------------------------------------------------
(* The callback of Simulate, for the object the loop has come to.          *)
Continue(created) ==
  loop' = Advanced([loop EXCEPT !.due = @ \ {Current},
                                !.created = (@ \cup created) \ {Current}], bulks', next')

RemoveDeletable ==
  /\ Current \in marked
  /\ RemoveObject(Current)
  /\ UNCHANGED astray

(* The script of a trail ends with SetDeletable(true).  A destroyed object *)
(* has no components left to run.                                          *)
RunScripts ==
  /\ Current \notin marked
  /\ \/ UNCHANGED marked
     \/ Current \in trails /\ marked' = marked \cup {Current}
  /\ UNCHANGED <<storageVars, live, camera, trails, astray, unexpected>>

(* LocalPlayerScript fires and creates an object, perhaps in the slot the  *)
(* Iterator waits for: it then passes over the object and follows what     *)
(* stands there.                                                           *)
SpawnTrail ==
  /\ Current \in live \ ({camera} \cup trails)
  /\ \E slot \in Slots :
       /\ Emplace(slot)
       /\ trails' = trails \cup {slot}
       /\ astray' = (astray \/ slot = loop.free)
       /\ Continue({slot})

Visit ==
  /\ ~Idle /\ ~unexpected
  /\ \/ (RemoveDeletable \/ RunScripts) /\ Continue({})
     \/ SpawnTrail
  /\ UNCHANGED debug

Next == BeginForeach \/ Create \/ RemoveRemoteObject \/ ReloadMap \/ Visit

Spec == Init /\ [][Next]_bulkVars

-----------------------------------------------------------------------------
(* A slot in use is live or on the free list, which is sorted.  A loop     *)
(* comes to every object that was there when it began, once, to objects    *)
(* that were created behind the slot it is at, and to no destroyed one,    *)
(* though objects are removed and slots used again under way; unless an    *)
(* object took the slot the Iterator waited for, or the first bulk had no  *)
(* object: then the code is wrong, and a build without _DEBUG may remove   *)
(* an object a second time (see UnexpectedIsUnreached).                    *)
LoopsAreExact ==
  LET free == Items(freeListHead, next) IN
  \/ unexpected /\ ~debug
  \/ /\ live \cap free = {}
     /\ live \cup free = UNION {{Slot(bulks[i], j) : j \in 0..bulks[i].used - 1} :
                                i \in DOMAIN bulks}
     /\ \A s \in free : next[s] = NULL \/ s < next[s]
     /\ ~astray => IF Idle THEN loop.due = {}
                   ELSE Current \in live \cap (loop.due \cup loop.created)

(* BulkVector.hpp says of the end of AppendFreeListItem_SortedImpl:        *)
(* "should never reach this code".  A build without _DEBUG, where neither  *)
(* the memset of Remove nor the throw that follows the comment is          *)
(* compiled, does reach it: a loop that has lost the free list finds a     *)
(* destroyed object still marked and removes it once more, which cuts the  *)
(* free list behind its slot.                                              *)
UnexpectedIsUnreached == ~unexpected
=============================================================================
