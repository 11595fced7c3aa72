------------------------------- MODULE GpuHeap -------------------------------
(***************************************************************************)
(* HeapManager and Heap: GPU memory is taken from heaps that each serve    *)
(* one kind of resource.  A heap cuts resources from its unallocated end,  *)
(* keeps released ones for reuse as they are, and merges them only when a  *)
(* request finds no room.  One thread; a failing Direct3D call ends the    *)
(* program.  Sizes are counted in units of the placement alignment.        *)
(***************************************************************************)
EXTENDS Integers, Sequences, SequencesExt, FiniteSetsExt

CONSTANTS
  Kinds,      \* heap type and flags a resource asks for
  Sizes,      \* bound: allocation sizes asked for
  Buckets,    \* sizes of heaps: 512 KiB, 4 MiB and 64 MiB
  MaxHeaps,   \* bound: heaps
  MaxLive,    \* bound: resources alive
  MaxCut      \* bound: units by which Defragment moves the end of a heap back

VARIABLES
  heaps,      \* HeapManager::heaps in its order
  resources,  \* resources somebody holds
  reset       \* history: heaps reset, after such a move, while something lived

heapVars == <<heaps, resources, reset>>

Item(at, size) == [at |-> at, size |-> size]
End(item) == item.at + item.size

Init == heaps = <<>> /\ resources = {} /\ reset = {}

-----------------------------------------------------------------------------
Unallocated(h) == h.size - h.offset

HasEnoughSpace(h, need) ==
  Unallocated(h) >= need \/ \E i \in DOMAIN h.items : h.items[i].size >= need

(* Heap::Defragment.  std::sort by offset: no two items have the same.     *)
Insert(sorted, item) ==
  InsertAt(sorted, Cardinality({i \in DOMAIN sorted : sorted[i].at < item.at}) + 1, item)

Sorted(items) ==
  LET sorted[n \in 0..Len(items)] == IF n = 0 THEN <<>> ELSE Insert(sorted[n - 1], items[n])
  IN  sorted[Len(items)]

(* The last item goes if it ends where the heap does, though               *)
(* freedSizeInBytes is left as it is (`cut' is a history of that) ...      *)
Trim(h) ==
  IF h.items # <<>> /\ End(Last(h.items)) = h.offset
  THEN [h EXCEPT !.offset = @ - Last(h.items).size, !.items = Front(@),
                 !.cut = @ + Last(h.items).size]
  ELSE h

Trimmed(h) ==
  LET trimmed[n \in 0..Len(h.items)] == IF n = 0 THEN h ELSE Trim(trimmed[n - 1])
  IN  trimmed[Len(h.items)]

(* ... and of the others, each run of neighbours becomes its first item.   *)
Merge(merged, item) ==
  IF merged # <<>> /\ End(Last(merged)) = item.at
  THEN Append(Front(merged), Item(Last(merged).at, Last(merged).size + item.size))
  ELSE Append(merged, item)

Merged(items) ==
  LET merged[n \in 0..Len(items)] == IF n = 0 THEN <<>> ELSE Merge(merged[n - 1], items[n])
  IN  merged[Len(items)]

Defragment(h) ==
  LET trimmed == Trimmed([h EXCEPT !.items = Sorted(@)])
  IN  [trimmed EXCEPT !.items = Merged(@)]

-----------------------------------------------------------------------------
(* Heap::CreateResource: the first released item that is large enough, all *)
(* of it, or the end of the heap.                                          *)
Fitting(h, need) == {i \in DOMAIN h.items : h.items[i].size >= need}

Allocated(h, need) ==
  IF Fitting(h, need) # {} THEN h.items[Min(Fitting(h, need))] ELSE Item(h.offset, need)

AllocatedKeepingCount(h, need) ==                                     \* mutant
  IF Fitting(h, need) # {}
  THEN [h EXCEPT !.items = RemoveAt(@, Min(Fitting(h, need)))]
  ELSE [h EXCEPT !.offset = @ + need]

AfterAllocation(h, need) ==
  IF Fitting(h, need) # {}
  THEN [h EXCEPT !.items = RemoveAt(@, Min(Fitting(h, need))),
                 !.freed = @ - Allocated(h, need).size]
  ELSE [h EXCEPT !.offset = @ + need]

(* GetBucketSize.                                                          *)
BucketSize(need) ==
  IF \E b \in Buckets : need <= b THEN Min({b \in Buckets : need <= b}) ELSE need

NewHeap(kind, need) ==
  [id |-> Len(heaps) + 1, kind |-> kind, size |-> BucketSize(need), offset |-> 0,
   freed |-> 0, items |-> <<>>, cut |-> 0]

(* HeapManager::CreateResource: the first compatible heap that has room,   *)
(* or has it after Defragment; the heaps it passed over are defragmented   *)
(* too.  Then the heaps are sorted, the fullest first.                     *)
Suits(h, kind, need) ==
  h.kind = kind /\ (HasEnoughSpace(h, need) \/ HasEnoughSpace(Defragment(h), need))

BecomeSorted(hs) ==
  \E order \in Bijection(DOMAIN hs, DOMAIN hs) :
    /\ heaps' = [i \in DOMAIN hs |-> hs[order[i]]]
    /\ \A i, j \in DOMAIN hs : i < j => Unallocated(heaps'[i]) <= Unallocated(heaps'[j])

CreateResource(kind, need) ==
  LET suitable == {i \in DOMAIN heaps : Suits(heaps[i], kind, need)}
      chosen   == IF suitable = {} THEN Len(heaps) + 1 ELSE Min(suitable)
      looked   == {i \in DOMAIN heaps : /\ i <= chosen /\ heaps[i].kind = kind
                                        /\ ~HasEnoughSpace(heaps[i], need)}
      searched == [i \in DOMAIN heaps |-> IF i \in looked THEN Defragment(heaps[i]) ELSE heaps[i]]
      offered  == IF suitable = {} THEN Append(searched, NewHeap(kind, need)) ELSE searched
      heap     == offered[chosen]
      name     == Min((1..MaxLive) \ {r.name : r \in resources})
      place    == Allocated(heap, need)
  IN /\ Cardinality(resources) < MaxLive
     /\ chosen <= MaxHeaps /\ heap.cut <= MaxCut /\ reset = {}
     /\ resources' = resources \cup
          {[name |-> name, heap |-> heap.id, at |-> place.at, size |-> place.size]}
     /\ BecomeSorted([offered EXCEPT ![chosen] = AfterAllocation(heap, need)])
     /\ UNCHANGED reset

(* Heap::ReturnResource, the deleter of a resource.                        *)
Returned(h, r) ==
  IF h.offset = h.freed + r.size
  THEN [h EXCEPT !.items = <<>>, !.offset = 0, !.freed = 0, !.cut = 0]
  ELSE IF h.offset = End(r)
  THEN [h EXCEPT !.offset = @ - r.size]
  ELSE [h EXCEPT !.items = Append(@, Item(r.at, r.size)), !.freed = @ + r.size]

ReturnResource(r) ==
  /\ reset = {}
  /\ resources' = resources \ {r}
  /\ heaps' = [i \in DOMAIN heaps |->
                 IF heaps[i].id = r.heap THEN Returned(heaps[i], r) ELSE heaps[i]]
  /\ reset' = {heaps[i].id : i \in {j \in DOMAIN heaps' :
                 /\ heaps'[j].offset = 0 /\ heaps[j].cut > 0
                 /\ \E other \in resources' : other.heap = heaps[j].id}}

Next ==
  \/ \E kind \in Kinds, need \in Sizes : CreateResource(kind, need)
  \/ \E r \in resources : ReturnResource(r)

Spec == Init /\ [][Next]_heapVars

-----------------------------------------------------------------------------
Units(item) == item.at .. End(item) - 1
LiveIn(h) == {r \in resources : r.heap = h.id}
LiveUnits(h) == UNION {Units(r) : r \in LiveIn(h)}
ReleasedUnits(h) == UNION {Units(h.items[k]) : k \in DOMAIN h.items}

(* What a heap has given out is partitioned into living and released       *)
(* resources.  freedSizeInBytes, by which the heap decides that nothing in *)
(* it lives, is the size of the released ones and of what Defragment gave  *)
(* back at the end; only a heap where that has happened can be reset while *)
(* something in it lives (the model stops there).                          *)
HeapsArePartitioned ==
  \A i \in DOMAIN heaps :
    LET h == heaps[i]
    IN \/ h.id \in reset
       \/ /\ h.freed = Cardinality(ReleasedUnits(h)) + h.cut
          /\ \A r, s \in LiveIn(h) : r # s => Units(r) \cap Units(s) = {}
          /\ \A k, l \in DOMAIN h.items : k # l => Units(h.items[k]) \cap Units(h.items[l]) = {}
          /\ LiveUnits(h) \cap ReleasedUnits(h) = {}
          /\ LiveUnits(h) \cup ReleasedUnits(h) = 0 .. h.offset - 1
          /\ h.offset <= h.size
=============================================================================
