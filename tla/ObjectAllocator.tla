--------------------------- MODULE ObjectAllocator ----------------------------
(***************************************************************************)
(* A Page of Memory::ObjectAllocator: blocks with a header are cut from    *)
(* the pristine end of the page or from a free list, are given back to the *)
(* list, and Defragment merges neighbours step by step, resuming where the *)
(* last call has stopped.  One thread; a page that cannot serve a request  *)
(* is left as it is.                                                       *)
(*                                                                         *)
(* Memory is counted in words of 8 bytes, the size of AllocMetaData and    *)
(* the default alignment; BACK_ALIGNMENT is two words and a FreeListItem   *)
(* three.  _aligned_malloc is external: it may put the page's data at an   *)
(* even or at an odd word.                                                 *)
(***************************************************************************)
EXTENDS Integers, Sequences, SequencesExt, FiniteSetsExt

CONSTANTS
  PageSize,   \* words of the page
  Bases,      \* addresses its data may start at, none of them 0
  Needs,      \* bound: words requested by an allocation
  MaxSteps    \* bound: the argument of Defragment (16 for a frame)

HEAD == 1            \* sizeof(AllocMetaData)
ITEM == 3            \* sizeof(FreeListItem)
ALIGNMENT == 1       \* defaultAlignment
BACK_ALIGNMENT == 2
NULL == 0

VARIABLES
  data,       \* PageHeader::data
  offset,     \* PageHeader::offset: the words from data that are not pristine
  live,       \* allocations: what Deallocate finds before and around pData
  list,       \* the free list: items of an address and a size
  left, right,  \* defragLeft, defragRight
  steps       \* iterations left to the Defragment that runs

memoryVars == <<data, offset, live, list, left, right, steps>>

Item(at, size) == [at |-> at, size |-> size]
Align(n, alignment) == ((n + alignment - 1) \div alignment) * alignment

Init ==
  /\ data \in Bases /\ offset = 0
  /\ live = {} /\ list = <<>>
  /\ left = NULL /\ right = NULL /\ steps = 0

-----------------------------------------------------------------------------
(* The free list.                                                          *)
HeadOf(items) == IF items = <<>> THEN NULL ELSE items[1].at
Position(items, at) == CHOOSE i \in DOMAIN items : items[i].at = at
NextOf(items, at) ==
  LET i == Position(items, at) IN IF i = Len(items) THEN NULL ELSE items[i + 1].at

(* FreeList::Insert, by size.                                              *)
Insert(items, item) ==
  CASE items = <<>> -> <<item>>
    [] items # <<>> /\ items[1].size <= item.size -> <<item>> \o items
    [] items # <<>> /\ items[1].size > item.size /\ Last(items).size >= item.size ->
         Append(items, item)
    [] OTHER ->
         InsertAt(items,
                  Min({i \in 2..Len(items) : /\ items[i - 1].size >= item.size
                                             /\ items[i].size <= item.size}),
                  item)

-----------------------------------------------------------------------------
(* GetAlignmentCorrection counts the header in.                            *)
Correction(at) == Align(at + HEAD, ALIGNMENT) - at

(* GetTotalAllocationSize aligns the address the block ends at.            *)
TotalSize(at, words) == Align(at + HEAD + Correction(at) + words, BACK_ALIGNMENT) - at

CanFitWithoutItem(item, total) == total <= item.size        \* mutant
CanFit(item, total) == total = item.size \/ total <= item.size - ITEM

Block(at, need) == [at |-> at + Correction(at), correction |-> Correction(at), need |-> need]

(* The first item that fits; what is left of it becomes an item.           *)
AllocateFree(need) ==
  LET words == Align(need, BACK_ALIGNMENT)
      fits  == {i \in DOMAIN list : CanFit(list[i], TotalSize(list[i].at, words))}
      i     == Min(fits)
      item  == list[i]
      total == TotalSize(item.at, words)
      rest  == Item(item.at + total, item.size - total)
  IN /\ steps = 0 /\ fits # {}
     /\ live' = live \cup {Block(item.at, need)}
     /\ list' = IF rest.size = 0 THEN RemoveAt(list, i) ELSE Insert(RemoveAt(list, i), rest)
     /\ right' = IF right = item.at THEN NextOf(list, item.at) ELSE right
     /\ left' = IF left = item.at THEN NextOf(list, item.at) ELSE left
     /\ UNCHANGED <<data, offset, steps>>

(* The pristine end; here the size is aligned, not the address.            *)
AllocatePristine(need) ==
  LET words == Align(need, BACK_ALIGNMENT)
      total == Correction(data + offset) + HEAD + words
  IN /\ steps = 0
     /\ \A i \in DOMAIN list : ~CanFit(list[i], TotalSize(list[i].at, words))
     /\ PageSize - offset >= total
     /\ live' = live \cup {Block(data + offset, need)}
     /\ offset' = offset + total
     /\ UNCHANGED <<data, list, left, right, steps>>

BlockSize(block) == block.correction + HEAD + Align(block.need, BACK_ALIGNMENT)

Deallocate(block) ==
  /\ steps = 0
  /\ live' = live \ {block}
  /\ list' = Insert(list, Item(block.at - block.correction, BlockSize(block)))
  /\ UNCHANGED <<data, offset, left, right, steps>>

-----------------------------------------------------------------------------
(* Defragment(n), the call.                                                *)
Defragment(n) ==
  /\ steps = 0 /\ Len(list) > 1
  /\ steps' = n
  /\ IF left = NULL \/ right = NULL
     THEN left' = HeadOf(list) /\ right' = HeadOf(list)
     ELSE UNCHANGED <<left, right>>
  /\ UNCHANGED <<data, offset, live, list>>

Without(items, at) == RemoveAt(items, Position(items, at))
ItemAt(at) == list[Position(list, at)]

MeetsPristine == right + ItemAt(right).size = data + offset
NeighboursBehindHead == left + ItemAt(left).size + HEAD = right      \* mutant
Neighbours == left + ItemAt(left).size = right

(* The iteration that gives the right item back to the pristine end.       *)
MergeIntoPristine ==
  /\ MeetsPristine
  /\ offset' = offset - ItemAt(right).size
  /\ list' = Without(list, right)
  /\ left' = HeadOf(list') /\ right' = HeadOf(list')

(* ... that appends the right item to the left one, which keeps its place. *)
MergeNeighbours ==
  /\ ~MeetsPristine /\ Neighbours
  /\ LET grown == [list EXCEPT ![Position(list, left)].size = @ + ItemAt(right).size]
     IN list' = Without(grown, right)
  /\ left' = HeadOf(list') /\ right' = HeadOf(list')
  /\ UNCHANGED offset

(* ... that goes on to the next pair.                                      *)
TryNext ==
  /\ ~MeetsPristine /\ ~Neighbours
  /\ IF right = Last(list).at
     THEN left' = NextOf(list, left) /\ right' = HeadOf(list)
     ELSE left' = left /\ right' = NextOf(list, right)
  /\ UNCHANGED <<offset, list>>

DefragmentStep ==
  /\ steps > 0
  /\ MergeIntoPristine \/ MergeNeighbours \/ TryNext
  /\ steps' = IF left' = NULL \/ right' = NULL THEN 0 ELSE steps - 1
  /\ UNCHANGED <<data, live>>

Next ==
  \/ \E need \in Needs : AllocateFree(need) \/ AllocatePristine(need)
  \/ \E block \in live : Deallocate(block)
  \/ \E n \in 1..MaxSteps : Defragment(n)
  \/ DefragmentStep

(* DX12GraphicsModule calls Defragment every frame; the loop runs on.      *)
Fairness ==
  /\ WF_memoryVars(\E n \in 1..MaxSteps : Defragment(n))
  /\ WF_memoryVars(DefragmentStep)

Spec == Init /\ [][Next]_memoryVars /\ Fairness

-----------------------------------------------------------------------------
(* The words of an allocation, from its correction to the end of its data, *)
(* rounded up, and those of a free item.                                   *)
BlockWords(block) ==
  LET first == block.at - block.correction IN first .. first + BlockSize(block) - 1
FreeWords(item) == item.at .. item.at + item.size - 1

(* No word belongs to two allocations, to an allocation and a free item or *)
(* to two free items; none of them reaches into pristine memory; every     *)
(* free item has room for its own links; and on a page whose data starts   *)
(* at an even word none is lost: what is not pristine is live or free.  In *)
(* every order of allocations, releases and defragmentations that stop     *)
(* half way.                                                               *)
PageIsPartitioned ==
  /\ \A b, c \in live : b # c => BlockWords(b) \cap BlockWords(c) = {}
  /\ \A i, j \in DOMAIN list : i # j => FreeWords(list[i]) \cap FreeWords(list[j]) = {}
  /\ \A i \in DOMAIN list :
       /\ list[i].size >= ITEM
       /\ FreeWords(list[i]) \subseteq data .. data + offset - 1
       /\ \A b \in live : FreeWords(list[i]) \cap BlockWords(b) = {}
  /\ \A b \in live : BlockWords(b) \subseteq data .. data + offset - 1
  /\ offset \in 0..PageSize
  /\ data % BACK_ALIGNMENT = 0 =>
       \A word \in data .. data + offset - 1 :
          \/ \E b \in live : word \in BlockWords(b)
          \/ \E i \in DOMAIN list : word \in FreeWords(list[i])

IsDefragmented ==
  \/ Len(list) <= 1
  \/ \A i \in DOMAIN list :
       /\ list[i].at + list[i].size # data + offset
       /\ \A j \in DOMAIN list : list[i].at + list[i].size # list[j].at

(* While nothing is allocated or released, the calls of Defragment, a few  *)
(* steps each, leave no free item next to another one or to the pristine   *)
(* end: the pair a call has stopped at never hides one.                    *)
DefragmentationEnds == []<><<live' # live>>_memoryVars \/ []<>IsDefragmented
=============================================================================
