------------------------- MODULE GameMessagesProofs -------------------------
(***************************************************************************)
(* A game message at both its ends, for any sizes, any number of messages  *)
(* and copies, and any order of arrival: what the receiver hands up is the *)
(* message that was sent, once for each copy; what the sender reports as   *)
(* sent went out whole.                                                    *)
(***************************************************************************)
EXTENDS MCGameMessages, DataLemmas

Items == [msg : Messages, idx : Nat, at : Nat, copy : Nat]
Chains == [items : Seq(Items), oldest : Nat]
Deliveries == [sequence : Messages, parts : Seq(Items)]

(* One of the copies that counts says have come.                           *)
Known(item, counts) ==
  /\ <<item.msg, item.idx>> \in Fragments
  /\ item.copy \in 1 .. counts[<<item.msg, item.idx>>]

ChainInv(chain, counts) ==
  /\ chain.items # <<>>
  /\ \A i \in 1 .. Len(chain.items) :
       Known(chain.items[i], counts) /\ chain.items[i].msg = Leader(chain).msg
  /\ \A i, j \in 1 .. Len(chain.items) : i < j => chain.items[i].idx < chain.items[j].idx

(* One chain for a message, the newest first.                              *)
ListInv(list, counts) ==
  /\ list \in Seq(Chains)
  /\ \A k \in 1 .. Len(list) : ChainInv(list[k], counts) /\ list[k].oldest <= now
  /\ \A k, l \in 1 .. Len(list) : Leader(list[k]).msg = Leader(list[l]).msg => k = l
  /\ \A k, l \in 1 .. Len(list) : k < l => list[l].oldest <= list[k].oldest

Has(list, x) == \E k \in 1 .. Len(list) : \E i \in 1 .. Len(list[k].items) : list[k].items[i] = x

StorageType ==
  /\ now \in Nat
  /\ arrived \in [Fragments -> Nat]
  /\ \A f \in Fragments : arrived[f] <= Copies[f[1]]
  /\ released \subseteq {x \in Items : Known(x, arrived)}
  /\ delivered \in Seq(Deliveries)

(* Nothing on the list is released, and what is complete there is too old. *)
OrderedInv ==
  /\ ListInv(ordered, arrived)
  /\ \A k \in 1 .. Len(ordered) : ToSet(ordered[k].items) \cap released = {}
  /\ \A k \in 1 .. Len(ordered) : Complete(ordered[k]) => TooOld(ordered[k])

(* All fragments of one message, in order; the first one is a copy no      *)
(* other delivered message and no chain has.                               *)
Whole(d) ==
  /\ Len(d.parts) = Count(d.sequence)
  /\ \A i \in 1 .. Len(d.parts) : d.parts[i].msg = d.sequence /\ d.parts[i].idx = i - 1

DeliveredInv ==
  /\ \A i \in 1 .. Len(delivered) : Whole(delivered[i]) /\ Known(delivered[i].parts[1], arrived)
  /\ \A i, j \in 1 .. Len(delivered) :
       delivered[i].sequence = delivered[j].sequence
         /\ delivered[i].parts[1].copy = delivered[j].parts[1].copy => i = j
  /\ \A i \in 1 .. Len(delivered), x \in Items :
       Has(ordered, x) /\ x.msg = delivered[i].sequence /\ x.idx = 0
         => x.copy # delivered[i].parts[1].copy

StorageInv == StorageType /\ OrderedInv /\ DeliveredInv
-----------------------------------------------------------------------------
(* Fragments.                                                              *)

(* size bytes fill all but the last of n pieces of room bytes.             *)
LEMMA CeilingProperties ==
  ASSUME NEW size \in Nat, NEW room \in Nat \ {0}, NEW n, n = (size + room - 1) \div room
  PROVE  /\ n \in Nat /\ size <= n * room
         /\ n = 0 <=> size = 0
         /\ n # 0 => (n - 1) * room < size
<1>1. size + room - 1 \in Nat
  OBVIOUS
<1>2. n \in Nat
  BY <1>1
<1>3. n * room <= size + room - 1 /\ size + room - 1 < (n + 1) * room
  BY <1>1, <1>2
<1> QED BY <1>2, <1>3
(* The header's byte keeps the number of fragments of every message.       *)
LEMMA CountProperties ==
  ASSUME NEW m \in Messages
  PROVE  /\ Count(m) = NumFragments(DataSize[m]) /\ Count(m) \in 1 .. MaxFragments
         /\ DataSize[m] <= Count(m) * FragmentRoom /\ (Count(m) - 1) * FragmentRoom < DataSize[m]
<1>1. FragmentRoom \in Nat \ {0} /\ DataSize[m] \in Nat \ {0} /\ MaxFragments \in Nat \ {0}
  BY SizesAssumption, StorageAssumption DEF FragmentRoom
<1>2. PICK n : n = NumFragments(DataSize[m])
  OBVIOUS
<1>3. /\ n \in Nat \ {0} /\ DataSize[m] <= n * FragmentRoom
      /\ (n - 1) * FragmentRoom < DataSize[m]
  <2>1. PICK size \in Nat \ {0}, room \in Nat \ {0} : size = DataSize[m] /\ room = FragmentRoom
    BY <1>1
  <2>2. n = (size + room - 1) \div room
    BY <1>2, <2>1 DEF NumFragments
  <2>3. /\ n \in Nat /\ size <= n * room
        /\ n = 0 <=> size = 0
        /\ n # 0 => (n - 1) * room < size
    BY <2>2, CeilingProperties
  <2> QED BY <2>1, <2>3
<1>4. n <= MaxFragments
  BY <1>2, StorageAssumption
<1>5. (n - 1) % MaxFragments = n - 1
  BY <1>1, <1>3, <1>4
<1>6. Count(m) = n
  BY <1>2, <1>3, <1>5 DEF Count, LoadCount, StoreCount
<1> QED BY <1>1, <1>2, <1>3, <1>4, <1>6

(* A fragment is a message and an index below its count.                   *)
LEMMA FragmentProperties ==
  ASSUME NEW f \in Fragments
  PROVE  f[1] \in Messages /\ f[2] \in Nat /\ f[2] < Count(f[1]) /\ f = <<f[1], f[2]>>
BY SizesAssumption DEF Fragments

(* A new item finds its place in a chain that is sorted.                   *)
LEMMA SortedProperties ==
  ASSUME NEW items \in Seq(Items), NEW item \in Items,
         \A i, j \in 1 .. Len(items) : i < j => items[i].idx < items[j].idx,
         \A i \in 1 .. Len(items) : items[i].idx # item.idx
  PROVE  /\ Sorted(items, item) \in Seq(Items) /\ Len(Sorted(items, item)) = Len(items) + 1
         /\ \A i, j \in 1 .. Len(items) + 1 :
              i < j => Sorted(items, item)[i].idx < Sorted(items, item)[j].idx
         /\ \A i \in 1 .. Len(items) + 1 :
              Sorted(items, item)[i] = item \/ \E j \in 1 .. Len(items) : Sorted(items, item)[i] = items[j]
         /\ \E i \in 1 .. Len(items) + 1 : Sorted(items, item)[i] = item
         /\ \A j \in 1 .. Len(items) : \E i \in 1 .. Len(items) + 1 : Sorted(items, item)[i] = items[j]
<1> DEFINE Smaller == {k \in DOMAIN items : items[k].idx < item.idx}
           n == Len(items)
<1>0. n \in Nat /\ DOMAIN items = 1 .. n /\ item.idx \in Nat /\ \A i \in 1 .. n : items[i].idx \in Nat
  <2>1. \A i \in 1 .. n : items[i] \in Items
    OBVIOUS
  <2> QED BY <2>1 DEF Items
<1>1. PICK p : p = Max({0} \cup Smaller)
  OBVIOUS
<1>2. p \in {0} \cup Smaller /\ \A k \in {0} \cup Smaller : k <= p
  <2>1. {0} \cup Smaller \subseteq 0 .. n /\ {0} \cup Smaller # {}
    BY <1>0
  <2> HIDE DEF Smaller, n
  <2> QED BY <1>0, <1>1, <2>1, MaxProperties
<1>3. p \in 0 .. n
  BY <1>0, <1>2
<1>4. ASSUME NEW k \in 1 .. n PROVE k <= p <=> items[k].idx < item.idx
  <2>1. CASE k <= p
    <3>1. p \in Smaller /\ items[p].idx < item.idx /\ p \in 1 .. n
      BY <1>0, <1>2, <2>1
    <3>2. k # p => items[k].idx < items[p].idx
      BY <1>3, <2>1, <3>1
    <3> QED BY <1>0, <2>1, <3>1, <3>2
  <2>2. CASE ~ (k <= p)
    BY <1>0, <1>2, <2>2
  <2> QED BY <2>1, <2>2
<1> HIDE DEF Smaller
<1>5. PICK t : t = Sorted(items, item)
  OBVIOUS
<1>6. /\ t \in Seq(Items) /\ Len(t) = n + 1
      /\ \A j \in 1 .. n + 1 : t[j] = IF j < p + 1 THEN items[j] ELSE IF j = p + 1 THEN item ELSE items[j - 1]
  <2>1. t = InsertAt(items, p + 1, item)
    BY <1>1, <1>3, <1>5 DEF Sorted, Smaller
  <2>2. p + 1 \in 1 .. n + 1
    BY <1>0, <1>3
  <2>3. HasInserted(InsertAt(items, p + 1, item), Items, items, p + 1, item)
    BY <2>2, InsertAtProperties, Zenon
  <2>4. HasInserted(t, Items, items, p + 1, item)
    BY <2>1, <2>3, Zenon
  <2> QED BY <1>0, <2>4 DEF HasInserted
<1>7. \A j \in 1 .. n + 1 : /\ j <= p => j \in 1 .. n /\ t[j] = items[j]
                            /\ j = p + 1 => t[j] = item
                            /\ j > p + 1 => j - 1 \in 1 .. n /\ t[j] = items[j - 1]
  BY <1>0, <1>3, <1>6
<1>8. ASSUME NEW i \in 1 .. n + 1, NEW j \in 1 .. n + 1, i < j PROVE t[i].idx < t[j].idx
  <2>1. CASE j <= p
    <3>1. i <= p
      BY <1>3, <1>8, <2>1
    <3> QED BY <1>7, <1>8, <2>1, <3>1
  <2>2. CASE j = p + 1
    <3>1. i <= p
      BY <1>3, <1>8, <2>2
    <3> QED BY <1>4, <1>7, <2>2, <3>1
  <2>3. CASE j > p + 1
    <3>1. j - 1 \in 1 .. n /\ t[j] = items[j - 1] /\ ~ (j - 1 <= p)
      BY <1>3, <1>7, <2>3
    <3>2. item.idx < items[j - 1].idx
      BY <1>0, <1>4, <3>1
    <3>3. CASE i = p + 1
      BY <1>7, <3>1, <3>2, <3>3
    <3>4. CASE i <= p
      <4>1. i \in 1 .. n /\ t[i] = items[i] /\ items[i].idx < item.idx
        BY <1>4, <1>7, <3>4
      <4> QED BY <1>0, <3>1, <3>2, <4>1
    <3>5. CASE i > p + 1
      <4>1. i - 1 \in 1 .. n /\ t[i] = items[i - 1] /\ i - 1 < j - 1
        BY <1>3, <1>7, <1>8, <3>5
      <4> QED BY <3>1, <4>1
    <3> QED BY <1>3, <3>3, <3>4, <3>5
  <2> QED BY <1>3, <2>1, <2>2, <2>3
<1>9. ASSUME NEW i \in 1 .. n + 1 PROVE t[i] = item \/ \E j \in 1 .. n : t[i] = items[j]
  <2>1. i <= p \/ i = p + 1 \/ i > p + 1
    BY <1>3
  <2> QED BY <1>7, <2>1
<1>10. p + 1 \in 1 .. n + 1 /\ t[p + 1] = item
  BY <1>0, <1>3, <1>7
<1>11. ASSUME NEW j \in 1 .. n PROVE \E i \in 1 .. n + 1 : t[i] = items[j]
  <2>1. CASE j <= p
    <3>1. j \in 1 .. n + 1 /\ t[j] = items[j]
      BY <1>0, <1>7, <2>1
    <3> QED BY <3>1
  <2>2. CASE j > p
    <3>1. j + 1 \in 1 .. n + 1 /\ j + 1 > p + 1 /\ j + 1 - 1 = j
      BY <1>0, <1>3, <2>2
    <3>2. t[j + 1] = items[j]
      BY <1>7, <3>1
    <3> QED BY <3>1, <3>2
  <2> QED BY <1>3, <2>1, <2>2
<1> QED BY <1>5, <1>6, <1>8, <1>9, <1>10, <1>11
-----------------------------------------------------------------------------
(* Putting an item on the list.                                            *)

(* The item a packet becomes.                                              *)
LEMMA ItemProperties ==
  ASSUME NEW f \in Fragments, StorageType
  PROVE  /\ FSItem(f) \in Items /\ FSItem(f).msg = f[1] /\ FSItem(f).idx = f[2]
         /\ FSItem(f).at = now /\ FSItem(f).copy = arrived[f] + 1
         /\ arrived[f] \in Nat /\ <<FSItem(f).msg, FSItem(f).idx>> = f
BY FragmentProperties DEF FSItem, Items, StorageType

(* OrderedInsert meets the item's fragment again, or the chain of its      *)
(* message without it, or no chain of its message.                         *)
LEMMA InsertCases ==
  ASSUME NEW item \in Items, ordered \in Seq(Chains)
  PROVE  \/ /\ OrderedInsert(item) = [list |-> ordered, deletable |-> {item}]
            /\ \E k \in 1 .. Len(ordered) :
                 /\ Leader(ordered[k]).msg = item.msg
                 /\ \E i \in 1 .. Len(ordered[k].items) : ordered[k].items[i].idx = item.idx
         \/ \E k \in 1 .. Len(ordered) :
              /\ Leader(ordered[k]).msg = item.msg
              /\ \A i \in 1 .. Len(ordered[k].items) : ordered[k].items[i].idx # item.idx
              /\ OrderedInsert(item) =
                   [list |-> [ordered EXCEPT ![k] = Extend(ordered[k], item)], deletable |-> {}]
         \/ /\ \A k \in 1 .. Len(ordered) : Leader(ordered[k]).msg # item.msg
            /\ OrderedInsert(item) =
                 [list |-> << [items |-> <<item>>, oldest |-> item.at] >> \o ordered, deletable |-> {}]
<1> DEFINE same == Matching(ordered, item)
           k == Min(same)
           isDuplicate == same # {} /\ \E x \in ToSet(ordered[k].items) : x.idx = item.idx
<1>1. DOMAIN ordered = 1 .. Len(ordered) /\ Len(ordered) \in Nat
  OBVIOUS
<1>2. same = {i \in 1 .. Len(ordered) : Leader(ordered[i]).msg = item.msg}
  BY <1>1 DEF Matching
<1>3. OrderedInsert(item) =
        [list |-> IF isDuplicate THEN ordered
                  ELSE IF same # {} THEN [ordered EXCEPT ![k] = Extend(ordered[k], item)]
                  ELSE << [items |-> <<item>>, oldest |-> item.at] >> \o ordered,
         deletable |-> IF isDuplicate THEN {item} ELSE {}]
  BY Zenon DEF OrderedInsert
<1>5. CASE same = {}
  <2>1. \A i \in 1 .. Len(ordered) : Leader(ordered[i]).msg # item.msg
    BY <1>2, <1>5
  <2>2. OrderedInsert(item) =
          [list |-> << [items |-> <<item>>, oldest |-> item.at] >> \o ordered, deletable |-> {}]
    BY <1>3, <1>5, Zenon
  <2> QED BY <2>1, <2>2, Zenon
<1>4. CASE same # {}
  <2>1. same \subseteq 0 .. Len(ordered)
    BY <1>1, <1>2
  <2>2. k \in same
    <3> HIDE DEF same
    <3> QED BY <1>1, <1>4, <2>1, MinProperties
  <2>3. k \in 1 .. Len(ordered) /\ Leader(ordered[k]).msg = item.msg
    BY <1>2, <2>2
  <2>4. ordered[k] \in Chains
    <3> HIDE DEF k
    <3> QED BY <2>3
  <2>5. ordered[k].items \in Seq(Items)
    <3> HIDE DEF k
    <3> QED BY <2>4 DEF Chains
  <2>6. ToSet(ordered[k].items) = {ordered[k].items[i] : i \in 1 .. Len(ordered[k].items)}
    <3> HIDE DEF k
    <3> QED BY <2>5 DEF ToSet
  <2>7. CASE isDuplicate
    <3>1. OrderedInsert(item) = [list |-> ordered, deletable |-> {item}]
      BY <1>3, <2>7, Zenon
    <3>2. \E i \in 1 .. Len(ordered[k].items) : ordered[k].items[i].idx = item.idx
      BY <2>6, <2>7, Zenon
    <3> QED BY <2>3, <3>1, <3>2, Zenon
  <2>8. CASE ~isDuplicate
    <3>1. \A i \in 1 .. Len(ordered[k].items) : ordered[k].items[i].idx # item.idx
      BY <1>4, <2>6, <2>8, Zenon
    <3>2. OrderedInsert(item) =
            [list |-> [ordered EXCEPT ![k] = Extend(ordered[k], item)], deletable |-> {}]
      BY <1>3, <1>4, <2>8, Zenon
    <3> QED BY <2>3, <3>1, <3>2, Zenon
  <2> QED BY <2>7, <2>8
<1> QED BY <1>4, <1>5, Zenon

(* What comes in more copies was there before.                             *)
LEMMA KnownGrows ==
  ASSUME StorageType, NEW f \in Fragments, NEW counts, counts = [arrived EXCEPT ![f] = @ + 1]
  PROVE  /\ counts \in [Fragments -> Nat]
         /\ \A x \in Items : Known(x, arrived) => Known(x, counts)
         /\ Known(FSItem(f), counts) /\ ~ Known(FSItem(f), arrived)
<1>1. counts \in [Fragments -> Nat] /\ \A g \in Fragments : arrived[g] \in Nat /\ arrived[g] <= counts[g]
  BY DEF StorageType
<1>2. counts[f] = arrived[f] + 1
  BY DEF StorageType
<1>3. ASSUME NEW x \in Items, Known(x, arrived) PROVE Known(x, counts)
  <2>1. PICK g \in Fragments : g = <<x.msg, x.idx>>
    BY <1>3 DEF Known
  <2>2. x.copy \in Nat /\ x.copy \in 1 .. arrived[g]
    BY <1>3, <2>1 DEF Known, Items
  <2>3. x.copy \in 1 .. counts[g]
    BY <1>1, <2>2
  <2> QED BY <2>1, <2>3 DEF Known
<1>4. Known(FSItem(f), counts) /\ ~ Known(FSItem(f), arrived)
  <2>1. /\ <<FSItem(f).msg, FSItem(f).idx>> = f /\ FSItem(f).copy = arrived[f] + 1
        /\ arrived[f] \in Nat
    BY ItemProperties
  <2>2. arrived[f] + 1 \in 1 .. counts[f] /\ arrived[f] + 1 \notin 1 .. arrived[f]
    BY <1>2, <2>1
  <2> QED BY <2>1, <2>2 DEF Known
<1> QED BY <1>1, <1>3, <1>4
(* After the insertion: the list is sound, holds nothing new but the item, *)
(* and only the item's chain can have become complete.                     *)
InsertedInv(list, item, counts) ==
  /\ ListInv(list, counts)
  /\ \A x \in Items : Has(list, x) => x = item \/ Has(ordered, x)
  /\ \A k \in 1 .. Len(list) :
       Complete(list[k]) => TooOld(list[k]) \/ \E i \in 1 .. Len(list[k].items) : list[k].items[i] = item
  /\ \A k \in 1 .. Len(list) :
       list[k].oldest = now \/ \E l \in 1 .. Len(ordered) : list[k].oldest = ordered[l].oldest

(* The list with the item on it has all that was on it before; otherwise   *)
(* the item's fragment was on it.                                          *)
Collected(list, item) == Has(list, item) /\ \A x \in Items : Has(ordered, x) => Has(list, x)
Repeated(item) == \E x \in Items : Has(ordered, x) /\ x.msg = item.msg /\ x.idx = item.idx

(* Another packet leaves the chains that are there sound.                  *)
LEMMA ChainGrows ==
  ASSUME StorageType, NEW f \in Fragments, NEW counts, counts = [arrived EXCEPT ![f] = @ + 1],
         NEW chain \in Chains, ChainInv(chain, arrived)
  PROVE  ChainInv(chain, counts)
<1>1. \A i \in 1 .. Len(chain.items) : chain.items[i] \in Items
  BY DEF Chains
<1> QED BY <1>1, KnownGrows, Zenon DEF ChainInv

(* A chain stays sound when another fragment of its message joins.         *)
Longer(longer, chain, item, counts) ==
  /\ longer \in Chains /\ ChainInv(longer, counts) /\ longer.oldest = chain.oldest
  /\ Leader(longer).msg = item.msg
  /\ \E i \in 1 .. Len(longer.items) : longer.items[i] = item
  /\ \A i \in 1 .. Len(longer.items) :
       longer.items[i] = item \/ \E j \in 1 .. Len(chain.items) : longer.items[i] = chain.items[j]
  /\ \A j \in 1 .. Len(chain.items) : \E i \in 1 .. Len(longer.items) : longer.items[i] = chain.items[j]

(* AddFragment puts the item where its index belongs.                      *)
LEMMA ExtendProperties ==
  ASSUME StorageType, NEW f \in Fragments, NEW counts, counts = [arrived EXCEPT ![f] = @ + 1],
         NEW chain \in Chains, ChainInv(chain, arrived),
         NEW item, item = FSItem(f), Leader(chain).msg = item.msg,
         \A i \in 1 .. Len(chain.items) : chain.items[i].idx # item.idx
  PROVE  Longer(Extend(chain, item), chain, item, counts)
<1>1. item \in Items /\ chain.items \in Seq(Items) /\ chain.oldest \in Nat /\ Len(chain.items) \in Nat
  BY ItemProperties DEF Chains
<1>2. \A i, j \in 1 .. Len(chain.items) : i < j => chain.items[i].idx < chain.items[j].idx
  BY DEF ChainInv
<1> DEFINE t == Sorted(chain.items, item)
           n == Len(chain.items)
<1>3. /\ t \in Seq(Items) /\ Len(t) = n + 1
      /\ \A i, j \in 1 .. n + 1 : i < j => t[i].idx < t[j].idx
      /\ \A i \in 1 .. n + 1 : t[i] = item \/ \E j \in 1 .. n : t[i] = chain.items[j]
      /\ \E i \in 1 .. n + 1 : t[i] = item
      /\ \A j \in 1 .. n : \E i \in 1 .. n + 1 : t[i] = chain.items[j]
  BY <1>1, <1>2, SortedProperties
<1>4. PICK longer : longer = Extend(chain, item)
  OBVIOUS
<1>5. longer.items = t /\ longer.oldest = chain.oldest /\ longer \in Chains
  <2>1. longer = [items |-> t, oldest |-> chain.oldest]
    BY <1>4 DEF Extend
  <2> HIDE DEF t
  <2> QED BY <1>1, <1>3, <2>1 DEF Chains
<1> HIDE DEF t
<1>6. ASSUME NEW i \in 1 .. n + 1 PROVE Known(t[i], counts) /\ t[i].msg = item.msg
  <2>1. CASE t[i] = item
    BY <2>1, KnownGrows
  <2>2. CASE \E j \in 1 .. n : t[i] = chain.items[j]
    <3>1. PICK j \in 1 .. n : t[i] = chain.items[j]
      BY <2>2
    <3>2. chain.items[j] \in Items
      BY <1>1
    <3> QED BY <3>1, <3>2, KnownGrows DEF ChainInv
  <2> QED BY <1>3, <2>1, <2>2
<1>7. t # <<>> /\ 1 \in 1 .. n + 1
  BY <1>1, <1>3
<1>8. Leader(longer).msg = item.msg
  BY <1>5, <1>6, <1>7 DEF Leader
<1>9. ChainInv(longer, counts)
  BY <1>3, <1>5, <1>6, <1>7, <1>8 DEF ChainInv
<1>10. Longer(longer, chain, item, counts)
  BY <1>3, <1>5, <1>8, <1>9 DEF Longer
<1> QED BY <1>4, <1>10

(* One chain of a sound list replaced by a longer one of the same message. *)
LEMMA ReplaceKeepsList ==
  ASSUME NEW list, NEW counts, NEW k \in 1 .. Len(list),
         ListInv(list, counts),
         NEW chain \in Chains, ChainInv(chain, counts), chain.oldest = list[k].oldest,
         Leader(chain).msg = Leader(list[k]).msg
  PROVE  ListInv([list EXCEPT ![k] = chain], counts)
<1> DEFINE t == [list EXCEPT ![k] = chain]
<1>0. /\ list \in Seq(Chains)
      /\ \A i \in 1 .. Len(list) : ChainInv(list[i], counts) /\ list[i].oldest <= now
      /\ \A i, j \in 1 .. Len(list) : Leader(list[i]).msg = Leader(list[j]).msg => i = j
      /\ \A i, j \in 1 .. Len(list) : i < j => list[j].oldest <= list[i].oldest
  BY DEF ListInv
<1>1. /\ t \in Seq(Chains) /\ Len(t) = Len(list)
      /\ \A i \in 1 .. Len(list) : t[i] = IF i = k THEN chain ELSE list[i]
  BY <1>0
<1> HIDE DEF t
<1>2. \A i \in 1 .. Len(list) : /\ ChainInv(t[i], counts) /\ t[i].oldest = list[i].oldest
                                /\ Leader(t[i]).msg = Leader(list[i]).msg
  BY <1>0, <1>1
<1>3. ListInv(t, counts)
  <2>1. \A i \in 1 .. Len(t) : ChainInv(t[i], counts) /\ t[i].oldest <= now
    BY <1>0, <1>1, <1>2
  <2>2. \A i, j \in 1 .. Len(t) : Leader(t[i]).msg = Leader(t[j]).msg => i = j
    BY <1>0, <1>1, <1>2
  <2>3. \A i, j \in 1 .. Len(t) : i < j => t[j].oldest <= t[i].oldest
    BY <1>0, <1>1, <1>2
  <2> QED BY <1>1, <2>1, <2>2, <2>3 DEF ListInv
<1> QED BY <1>3 DEF t

(* A chain of a new message put in front.                                  *)
Pushed(t, chain, list, counts) ==
  /\ ListInv(t, counts) /\ Len(t) = Len(list) + 1 /\ t[1] = chain
  /\ \A i \in 1 .. Len(list) + 1 : i # 1 => i - 1 \in 1 .. Len(list) /\ t[i] = list[i - 1]

(* A chain pushed in front of those of other messages.                     *)
LEMMA PushKeepsList ==
  ASSUME NEW list, NEW counts, now \in Nat, ListInv(list, counts),
         NEW chain \in Chains, ChainInv(chain, counts), chain.oldest = now,
         \A i \in 1 .. Len(list) : Leader(list[i]).msg # Leader(chain).msg
  PROVE  Pushed(<<chain>> \o list, chain, list, counts)
<1> DEFINE t == <<chain>> \o list
<1>0. /\ list \in Seq(Chains)
      /\ \A i \in 1 .. Len(list) : ChainInv(list[i], counts) /\ list[i].oldest <= now
      /\ \A i, j \in 1 .. Len(list) : Leader(list[i]).msg = Leader(list[j]).msg => i = j
      /\ \A i, j \in 1 .. Len(list) : i < j => list[j].oldest <= list[i].oldest
  BY DEF ListInv
<1>1. /\ t \in Seq(Chains) /\ Len(t) = Len(list) + 1 /\ t[1] = chain /\ Len(list) \in Nat
      /\ \A i \in 1 .. Len(list) + 1 : i # 1 => i - 1 \in 1 .. Len(list) /\ t[i] = list[i - 1]
  BY <1>0
<1> HIDE DEF t
<1>2. \A i \in 1 .. Len(t) : ChainInv(t[i], counts) /\ t[i].oldest <= now
  <2> SUFFICES ASSUME NEW i \in 1 .. Len(t) PROVE ChainInv(t[i], counts) /\ t[i].oldest <= now
    OBVIOUS
  <2>1. CASE i = 1
    BY <1>1, <2>1
  <2>2. CASE i # 1
    <3>1. i - 1 \in 1 .. Len(list) /\ t[i] = list[i - 1]
      BY <1>1, <2>2
    <3> QED BY <1>0, <3>1
  <2> QED BY <2>1, <2>2
<1>3. \A i, j \in 1 .. Len(t) : Leader(t[i]).msg = Leader(t[j]).msg => i = j
  <2>0. SUFFICES ASSUME NEW i \in 1 .. Len(t), NEW j \in 1 .. Len(t), Leader(t[i]).msg = Leader(t[j]).msg
               PROVE  i = j
    OBVIOUS
  <2>1. CASE i # 1 /\ j # 1
    <3>1. i - 1 = j - 1
      <4>1. i - 1 \in 1 .. Len(list) /\ j - 1 \in 1 .. Len(list) /\ t[i] = list[i - 1] /\ t[j] = list[j - 1]
        BY <1>1, <2>1
      <4> QED BY <1>0, <2>0, <4>1
    <3> QED BY <3>1
  <2>2. CASE i = 1 /\ j # 1
    <3>1. Leader(t[j]).msg # Leader(chain).msg /\ t[i] = chain
      BY <1>0, <1>1, <2>2
    <3> QED BY <2>0, <3>1
  <2>3. CASE i # 1 /\ j = 1
    <3>1. Leader(t[i]).msg # Leader(chain).msg /\ t[j] = chain
      BY <1>0, <1>1, <2>3
    <3> QED BY <2>0, <3>1
  <2> QED BY <2>1, <2>2, <2>3
<1>4. \A i, j \in 1 .. Len(t) : i < j => t[j].oldest <= t[i].oldest
  <2> SUFFICES ASSUME NEW i \in 1 .. Len(t), NEW j \in 1 .. Len(t), i < j
               PROVE  t[j].oldest <= t[i].oldest
    OBVIOUS
  <2>1. j # 1 /\ j - 1 \in 1 .. Len(list) /\ t[j] = list[j - 1]
    BY <1>0, <1>1
  <2>2. CASE i = 1
    BY <1>0, <1>1, <2>1, <2>2
  <2>3. CASE i # 1
    <3>1. i - 1 \in 1 .. Len(list) /\ t[i] = list[i - 1] /\ i - 1 < j - 1
      BY <1>0, <1>1, <2>3
    <3> QED BY <1>0, <2>1, <3>1
  <2> QED BY <2>2, <2>3
<1>5. ListInv(t, counts)
  BY <1>0, <1>1, <1>2, <1>3, <1>4 DEF ListInv
<1> QED BY <1>1, <1>5 DEF t, Pushed
(* OrderedInsert keeps the list sound; a duplicate alone is deletable.     *)
LEMMA InsertedProperties ==
  ASSUME StorageType, OrderedInv, NEW f \in Fragments,
         NEW counts, counts = [arrived EXCEPT ![f] = @ + 1],
         NEW item, item = FSItem(f), NEW inserted, inserted = OrderedInsert(item)
  PROVE  /\ InsertedInv(inserted.list, item, counts)
         /\ inserted.deletable = {} \/ (inserted.deletable = {item} /\ inserted.list = ordered)
         /\ Collected(inserted.list, item) \/ (Repeated(item) /\ inserted.list = ordered)
<1>1. /\ item \in Items /\ now \in Nat /\ item.at = now
      /\ counts \in [Fragments -> Nat] /\ Known(item, counts) /\ ~ Known(item, arrived)
  BY ItemProperties, KnownGrows DEF StorageType
<1>2. /\ ordered \in Seq(Chains) /\ Len(ordered) \in Nat
      /\ \A k \in 1 .. Len(ordered) : ordered[k] \in Chains /\ ChainInv(ordered[k], arrived)
  BY DEF OrderedInv, ListInv
<1>3. \A k \in 1 .. Len(ordered) : ChainInv(ordered[k], counts)
  BY <1>2, ChainGrows
<1>4. /\ \A k \in 1 .. Len(ordered) : ordered[k].oldest <= now
      /\ \A k, l \in 1 .. Len(ordered) : Leader(ordered[k]).msg = Leader(ordered[l]).msg => k = l
      /\ \A k, l \in 1 .. Len(ordered) : k < l => ordered[l].oldest <= ordered[k].oldest
      /\ \A k \in 1 .. Len(ordered) : Complete(ordered[k]) => TooOld(ordered[k])
  BY DEF OrderedInv, ListInv
<1>5. ListInv(ordered, counts)
  BY <1>2, <1>3, <1>4 DEF ListInv
<1>8. ASSUME inserted = [list |-> ordered, deletable |-> {item}],
             NEW k \in 1 .. Len(ordered), Leader(ordered[k]).msg = item.msg,
             NEW i \in 1 .. Len(ordered[k].items), ordered[k].items[i].idx = item.idx
      PROVE  /\ InsertedInv(inserted.list, item, counts)
             /\ inserted.deletable = {item} /\ inserted.list = ordered /\ Repeated(item)
  <2>1. InsertedInv(ordered, item, counts)
    BY <1>4, <1>5 DEF InsertedInv
  <2>2. ordered[k].items[i] \in Items /\ ordered[k].items[i].msg = item.msg /\ Has(ordered, ordered[k].items[i])
    <3>1. ordered[k].items \in Seq(Items)
      BY <1>2 DEF Chains
    <3> QED BY <1>2, <1>8, <3>1 DEF ChainInv, Has
  <2>3. Repeated(item)
    BY <1>8, <2>2 DEF Repeated
  <2> QED BY <1>8, <2>1, <2>3
<1>6. ASSUME NEW k \in 1 .. Len(ordered), Leader(ordered[k]).msg = item.msg,
             \A i \in 1 .. Len(ordered[k].items) : ordered[k].items[i].idx # item.idx,
             inserted = [list |-> [ordered EXCEPT ![k] = Extend(ordered[k], item)], deletable |-> {}]
      PROVE  /\ InsertedInv(inserted.list, item, counts)
             /\ inserted.deletable = {} /\ Collected(inserted.list, item)
  <2>1. PICK chain : chain = Extend(ordered[k], item)
    OBVIOUS
  <2>2. /\ chain \in Chains /\ ChainInv(chain, counts) /\ chain.oldest = ordered[k].oldest
        /\ Leader(chain).msg = item.msg
        /\ \E i \in 1 .. Len(chain.items) : chain.items[i] = item
        /\ \A i \in 1 .. Len(chain.items) :
             chain.items[i] = item \/ \E j \in 1 .. Len(ordered[k].items) : chain.items[i] = ordered[k].items[j]
        /\ \A j \in 1 .. Len(ordered[k].items) : \E i \in 1 .. Len(chain.items) : chain.items[i] = ordered[k].items[j]
    <3>1. ordered[k] \in Chains /\ ChainInv(ordered[k], arrived)
      BY <1>2
    <3>2. Longer(Extend(ordered[k], item), ordered[k], item, counts)
      BY <1>6, <3>1, ExtendProperties, Zenon
    <3> QED BY <2>1, <3>2 DEF Longer
  <2> DEFINE t == [ordered EXCEPT ![k] = chain]
  <2>3. ListInv(t, counts)
    BY <1>5, <1>6, <2>2, ReplaceKeepsList
  <2>4. Len(t) = Len(ordered) /\ \A i \in 1 .. Len(ordered) : t[i] = IF i = k THEN chain ELSE ordered[i]
    BY <1>2
  <2>5. inserted.list = t /\ inserted.deletable = {}
    BY <1>6, <2>1
  <2> HIDE DEF t
  <2>6. ASSUME NEW x \in Items, Has(t, x) PROVE x = item \/ Has(ordered, x)
    <3>1. PICK l \in 1 .. Len(ordered) : \E i \in 1 .. Len(t[l].items) : t[l].items[i] = x
      BY <2>4, <2>6 DEF Has
    <3>2. CASE l = k
      <4>1. t[l] = chain
        BY <2>4, <3>2
      <4>2. PICK i \in 1 .. Len(chain.items) : chain.items[i] = x
        BY <3>1, <4>1
      <4> QED BY <2>2, <4>2 DEF Has
    <3>3. CASE l # k
      <4>1. t[l] = ordered[l]
        BY <2>4, <3>3
      <4> QED BY <3>1, <4>1 DEF Has
    <3> QED BY <3>2, <3>3
  <2>7. ASSUME NEW l \in 1 .. Len(t), Complete(t[l])
        PROVE  TooOld(t[l]) \/ \E i \in 1 .. Len(t[l].items) : t[l].items[i] = item
    <3>1. CASE l = k
      <4>1. t[l] = chain
        BY <2>4, <3>1
      <4> QED BY <2>2, <4>1
    <3>2. CASE l # k
      <4>1. t[l] = ordered[l] /\ l \in 1 .. Len(ordered)
        BY <2>4, <3>2
      <4> QED BY <1>4, <2>7, <4>1
    <3> QED BY <3>1, <3>2
  <2>8. \A l \in 1 .. Len(t) : \E i \in 1 .. Len(ordered) : t[l].oldest = ordered[i].oldest
    BY <2>2, <2>4
  <2>9. Collected(t, item)
    <3>1. Has(t, item)
      <4>1. k \in 1 .. Len(t) /\ t[k] = chain
        BY <2>4
      <4> QED BY <2>2, <4>1 DEF Has
    <3>2. ASSUME NEW x \in Items, Has(ordered, x) PROVE Has(t, x)
      <4>1. PICK l \in 1 .. Len(ordered) : \E i \in 1 .. Len(ordered[l].items) : ordered[l].items[i] = x
        BY <3>2 DEF Has
      <4>2. \E i \in 1 .. Len(t[l].items) : t[l].items[i] = x
        BY <2>2, <2>4, <4>1
      <4> QED BY <2>4, <4>2 DEF Has
    <3> QED BY <3>1, <3>2 DEF Collected
  <2> QED BY <2>3, <2>5, <2>6, <2>7, <2>8, <2>9 DEF InsertedInv
<1>7. ASSUME \A k \in 1 .. Len(ordered) : Leader(ordered[k]).msg # item.msg,
             inserted = [list |-> << [items |-> <<item>>, oldest |-> item.at] >> \o ordered, deletable |-> {}]
      PROVE  /\ InsertedInv(inserted.list, item, counts)
             /\ inserted.deletable = {} /\ Collected(inserted.list, item)
  <2>1. PICK chain : chain = [items |-> <<item>>, oldest |-> item.at]
    OBVIOUS
  <2>2. /\ chain \in Chains /\ chain.oldest = now
        /\ chain.items = <<item>> /\ Len(chain.items) = 1 /\ chain.items[1] = item
    <3>1. <<item>> \in Seq(Items)
      BY <1>1
    <3> QED BY <1>1, <2>1, <3>1 DEF Chains
  <2>3. Leader(chain) = item
    BY <2>2 DEF Leader
  <2>4. ChainInv(chain, counts)
    BY <1>1, <2>2, <2>3 DEF ChainInv
  <2> DEFINE t == <<chain>> \o ordered
  <2>5. /\ ListInv(t, counts) /\ Len(t) = Len(ordered) + 1 /\ t[1] = chain
        /\ \A i \in 1 .. Len(ordered) + 1 : i # 1 => i - 1 \in 1 .. Len(ordered) /\ t[i] = ordered[i - 1]
    <3>1. \A i \in 1 .. Len(ordered) : Leader(ordered[i]).msg # Leader(chain).msg
      BY <1>7, <2>3
    <3>2. Pushed(t, chain, ordered, counts)
      BY <1>1, <1>5, <2>2, <2>4, <3>1, PushKeepsList, Zenon
    <3> HIDE DEF t
    <3> QED BY <3>2 DEF Pushed
  <2>6. inserted.list = t /\ inserted.deletable = {}
    BY <1>7, <2>1
  <2> HIDE DEF t
  <2>7. ASSUME NEW x \in Items, Has(t, x) PROVE x = item \/ Has(ordered, x)
    <3>1. PICK l \in 1 .. Len(ordered) + 1 : \E i \in 1 .. Len(t[l].items) : t[l].items[i] = x
      BY <2>5, <2>7 DEF Has
    <3>2. CASE l = 1
      <4>1. t[l] = chain
        BY <2>5, <3>2
      <4>2. PICK i \in 1 .. Len(chain.items) : chain.items[i] = x
        BY <3>1, <4>1
      <4> QED BY <2>2, <4>2
    <3>3. CASE l # 1
      <4>1. l - 1 \in 1 .. Len(ordered) /\ t[l] = ordered[l - 1]
        BY <2>5, <3>3
      <4> QED BY <3>1, <4>1 DEF Has
    <3> QED BY <3>2, <3>3
  <2>8. ASSUME NEW l \in 1 .. Len(t), Complete(t[l])
        PROVE  TooOld(t[l]) \/ \E i \in 1 .. Len(t[l].items) : t[l].items[i] = item
    <3>1. CASE l = 1
      <4>1. t[l] = chain /\ 1 \in 1 .. Len(chain.items)
        BY <2>2, <2>5, <3>1
      <4> QED BY <2>2, <4>1
    <3>2. CASE l # 1
      <4>1. l - 1 \in 1 .. Len(ordered) /\ t[l] = ordered[l - 1]
        BY <2>5, <3>2
      <4> QED BY <1>4, <2>8, <4>1
    <3> QED BY <3>1, <3>2
  <2>9. ASSUME NEW l \in 1 .. Len(t)
        PROVE  t[l].oldest = now \/ \E i \in 1 .. Len(ordered) : t[l].oldest = ordered[i].oldest
    <3>1. CASE l = 1
      BY <2>2, <2>5, <3>1
    <3>2. CASE l # 1
      <4>1. l - 1 \in 1 .. Len(ordered) /\ t[l] = ordered[l - 1]
        BY <2>5, <3>2
      <4> QED BY <4>1
    <3> QED BY <3>1, <3>2
  <2>10. Collected(t, item)
    <3>1. Has(t, item)
      <4>1. 1 \in 1 .. Len(t)
        BY <1>2, <2>5
      <4> QED BY <2>2, <2>5, <4>1 DEF Has
    <3>2. ASSUME NEW x \in Items, Has(ordered, x) PROVE Has(t, x)
      <4>1. PICK l \in 1 .. Len(ordered) : \E i \in 1 .. Len(ordered[l].items) : ordered[l].items[i] = x
        BY <3>2 DEF Has
      <4>2. l + 1 \in 1 .. Len(t) /\ l + 1 # 1 /\ l + 1 - 1 = l
        BY <1>2, <2>5
      <4>3. t[l + 1] = ordered[l]
        BY <2>5, <4>2
      <4> QED BY <4>1, <4>2, <4>3 DEF Has
    <3> QED BY <3>1, <3>2 DEF Collected
  <2> QED BY <2>5, <2>6, <2>7, <2>8, <2>9, <2>10 DEF InsertedInv
<1> QED BY <1>1, <1>2, <1>6, <1>7, <1>8, InsertCases, Zenon
-----------------------------------------------------------------------------
(* Taking a chain off the list.                                            *)

(* CheckFragments finds nothing, a chain too old, or a chain that became   *)
(* complete; before that one there is neither.                             *)
Idle(list, n) == \A i \in 1 .. n : ~ TooOld(list[i]) /\ ~ Complete(list[i])

(* The walk of CheckFragments stops at nothing, at the first chain that is *)
(* too old, or at the first that is complete.                              *)
LEMMA CheckCases ==
  ASSUME NEW list \in Seq(Chains)
  PROVE  \/ /\ Idle(list, Len(list))
            /\ CheckFragments(list) = [list |-> list, deletable |-> {}, messages |-> <<>>]
         \/ \E k \in 1 .. Len(list) :
              /\ Idle(list, k - 1) /\ TooOld(list[k])
              /\ CheckFragments(list) =
                   [list |-> RemoveAt(list, k), deletable |-> {Leader(list[k])}, messages |-> <<>>]
         \/ \E k \in 1 .. Len(list) :
              /\ Idle(list, k - 1) /\ ~ TooOld(list[k]) /\ Complete(list[k])
              /\ CheckFragments(list) =
                   [list |-> RemoveAt(list, k), deletable |-> ToSet(list[k].items),
                    messages |-> IF FragmentsAreConsistent(list[k])
                                 THEN << [sequence |-> Leader(list[k]).msg, parts |-> list[k].items] >>
                                 ELSE <<>>]
<1> DEFINE ks == Decisive(list)
           k == Min(ks)
<1>1. DOMAIN list = 1 .. Len(list) /\ Len(list) \in Nat
  OBVIOUS
<1>2. ks = {i \in 1 .. Len(list) : TooOld(list[i]) \/ Complete(list[i])}
  BY <1>1 DEF Decisive
<1>3. CASE ks = {}
  <2>1. Idle(list, Len(list))
    BY <1>2, <1>3 DEF Idle
  <2>2. CheckFragments(list) = [list |-> list, deletable |-> {}, messages |-> <<>>]
    BY <1>3, Zenon DEF CheckFragments
  <2> QED BY <2>1, <2>2, Zenon
<1>4. CASE ks # {}
  <2>1. ks \subseteq 0 .. Len(list)
    BY <1>1, <1>2
  <2>2. k \in ks /\ \A i \in ks : k <= i
    <3> HIDE DEF ks
    <3> QED BY <1>1, <1>4, <2>1, MinProperties
  <2>3. k \in 1 .. Len(list) /\ (TooOld(list[k]) \/ Complete(list[k]))
    BY <1>2, <2>2
  <2>4. Idle(list, k - 1)
    <3> SUFFICES ASSUME NEW i \in 1 .. k - 1 PROVE i \notin ks
      <4>1. \A i \in 1 .. k - 1 : i \in 1 .. Len(list)
        <5> HIDE DEF k
        <5> QED BY <1>1, <2>3
      <4> QED BY <1>2, <4>1, Zenon DEF Idle
    <3>1. i \in ks => k <= i
      BY <2>2
    <3>2. ~ (k <= i)
      <4> HIDE DEF k
      <4> QED BY <2>3
    <3> QED BY <3>1, <3>2
  <2>5. CASE TooOld(list[k])
    <3>1. CheckFragments(list) =
            [list |-> RemoveAt(list, k), deletable |-> {Leader(list[k])}, messages |-> <<>>]
      BY <1>4, <2>5, Zenon DEF CheckFragments
    <3> QED BY <2>3, <2>4, <2>5, <3>1, Zenon
  <2>6. CASE ~ TooOld(list[k])
    <3>1. CheckFragments(list) =
            [list |-> RemoveAt(list, k), deletable |-> ToSet(list[k].items),
             messages |-> IF FragmentsAreConsistent(list[k])
                          THEN << [sequence |-> Leader(list[k]).msg, parts |-> list[k].items] >>
                          ELSE <<>>]
      BY <1>4, <2>6, Zenon DEF CheckFragments
    <3> QED BY <2>3, <2>4, <2>6, <3>1, Zenon
  <2> QED BY <2>5, <2>6
<1> QED BY <1>3, <1>4

(* The list without its k-th chain.                                        *)
Removed(t, list, k, counts) ==
  /\ ListInv(t, counts)
  /\ \A i \in 1 .. Len(t) : \E j \in 1 .. Len(list) : j # k /\ t[i] = list[j]

(* A chain taken from anywhere in the list.                                *)
LEMMA RemoveKeepsList ==
  ASSUME NEW list, NEW counts, ListInv(list, counts), NEW k \in 1 .. Len(list)
  PROVE  Removed(RemoveAt(list, k), list, k, counts)
<1>0. /\ list \in Seq(Chains) /\ Len(list) \in Nat
      /\ \A i \in 1 .. Len(list) : ChainInv(list[i], counts) /\ list[i].oldest <= now
      /\ \A i, j \in 1 .. Len(list) : Leader(list[i]).msg = Leader(list[j]).msg => i = j
      /\ \A i, j \in 1 .. Len(list) : i < j => list[j].oldest <= list[i].oldest
  BY DEF ListInv
<1>1. PICK t : t = RemoveAt(list, k)
  OBVIOUS
<1>2. /\ t \in Seq(Chains) /\ Len(t) = Len(list) - 1
      /\ \A i \in 1 .. Len(list) - 1 : t[i] = IF i < k THEN list[i] ELSE list[i + 1]
  BY <1>0, <1>1, RemoveAtProperties
<1> DEFINE at(i) == IF i < k THEN i ELSE i + 1
<1>3. \A i \in 1 .. Len(t) : at(i) \in 1 .. Len(list) /\ at(i) # k /\ t[i] = list[at(i)]
  BY <1>0, <1>2
<1>4. \A i, j \in 1 .. Len(t) : (i < j <=> at(i) < at(j)) /\ (at(i) = at(j) => i = j)
  BY <1>0, <1>2
<1> HIDE DEF at
<1>5. \A i \in 1 .. Len(t) : ChainInv(t[i], counts) /\ t[i].oldest <= now
  BY <1>0, <1>3
<1>6. \A i, j \in 1 .. Len(t) : Leader(t[i]).msg = Leader(t[j]).msg => i = j
  BY <1>0, <1>3, <1>4
<1>7. \A i, j \in 1 .. Len(t) : i < j => t[j].oldest <= t[i].oldest
  BY <1>0, <1>3, <1>4
<1>8. Removed(t, list, k, counts)
  BY <1>2, <1>3, <1>5, <1>6, <1>7 DEF ListInv, Removed
<1> QED BY <1>1, <1>8

(* What stays on a list that lost its k-th chain has other messages.       *)
LEMMA RemovedItems ==
  ASSUME NEW list, NEW counts, ListInv(list, counts), NEW k \in 1 .. Len(list),
         NEW t, Removed(t, list, k, counts), NEW x, Has(t, x)
  PROVE  Has(list, x) /\ x.msg # Leader(list[k]).msg
<1>1. PICK i \in 1 .. Len(t) : \E n \in 1 .. Len(t[i].items) : t[i].items[n] = x
  BY DEF Has
<1>2. PICK j \in 1 .. Len(list) : j # k /\ t[i] = list[j]
  BY DEF Removed
<1>3. Has(list, x)
  BY <1>1, <1>2 DEF Has
<1>4. x.msg = Leader(list[j]).msg
  BY <1>1, <1>2 DEF ListInv, ChainInv
<1>5. Leader(list[j]).msg # Leader(list[k]).msg
  BY <1>2 DEF ListInv
<1> QED BY <1>3, <1>4, <1>5
(* After CheckFragments: the list is sound and what is complete on it is   *)
(* too old; nothing deletable is left on it; a message handed up is whole, *)
(* and no chain of it is left.                                             *)
HandedUp(d, list, rest) ==
  /\ d \in Deliveries /\ Whole(d) /\ Has(list, d.parts[1])
  /\ \A x \in Items : Has(rest, x) => x.msg # d.sequence

CheckedInv(checked, list, counts) ==
  /\ ListInv(checked.list, counts)
  /\ \A x \in Items : Has(checked.list, x) => Has(list, x) /\ x \notin checked.deletable
  /\ \A x \in checked.deletable : x \in Items /\ Has(list, x)
  /\ \A i \in 1 .. Len(checked.list) : Complete(checked.list[i]) => TooOld(checked.list[i])
  /\ \A i \in 1 .. Len(checked.list) : \E j \in 1 .. Len(list) : checked.list[i].oldest = list[j].oldest
  /\ \/ checked.messages = <<>>
     \/ \E d : checked.messages = <<d>> /\ HandedUp(d, list, checked.list)

(* What the invariant says of one chain.                                   *)
LEMMA ChainFacts ==
  ASSUME NEW list, NEW counts, ListInv(list, counts), NEW k \in 1 .. Len(list)
  PROVE  /\ list[k] \in Chains /\ list[k].items \in Seq(Items) /\ Len(list[k].items) \in Nat \ {0}
         /\ Leader(list[k]) = list[k].items[1] /\ Leader(list[k]) \in Items /\ list[k].oldest \in Nat
         /\ \A i \in 1 .. Len(list[k].items) :
              list[k].items[i] \in Items /\ Has(list, list[k].items[i])
              /\ list[k].items[i].msg = Leader(list[k]).msg /\ Known(list[k].items[i], counts)
         /\ ToSet(list[k].items) = {list[k].items[i] : i \in 1 .. Len(list[k].items)}
<1>1. list \in Seq(Chains) /\ ChainInv(list[k], counts)
  BY DEF ListInv
<1>2. list[k] \in Chains
  BY <1>1
<1>3. list[k].items \in Seq(Items) /\ list[k].oldest \in Nat
  BY <1>2 DEF Chains
<1>4. list[k].items # <<>>
  BY <1>1 DEF ChainInv
<1>5. Len(list[k].items) \in Nat \ {0} /\ 1 \in 1 .. Len(list[k].items)
  BY <1>3, <1>4, EmptySeq
<1>6. \A i \in 1 .. Len(list[k].items) : list[k].items[i] \in Items /\ Has(list, list[k].items[i])
  BY <1>3 DEF Has
<1>7. ToSet(list[k].items) = {list[k].items[i] : i \in 1 .. Len(list[k].items)}
  BY <1>3 DEF ToSet
<1> QED BY <1>1, <1>2, <1>3, <1>5, <1>6, <1>7 DEF Leader, ChainInv

(* What CheckFragments leaves and hands up is sound.                       *)
LEMMA CheckedProperties ==
  ASSUME now \in Nat, NEW list, NEW item, NEW counts, InsertedInv(list, item, counts)
  PROVE  CheckedInv(CheckFragments(list), list, counts)
<1>1. PICK checked : checked = CheckFragments(list)
  OBVIOUS
<1>2. ListInv(list, counts) /\ list \in Seq(Chains) /\ Len(list) \in Nat
  BY DEF InsertedInv, ListInv
<1>3. \A k \in 1 .. Len(list) :
        Complete(list[k]) => TooOld(list[k]) \/ \E i \in 1 .. Len(list[k].items) : list[k].items[i] = item
  BY DEF InsertedInv
<1>4. ASSUME Idle(list, Len(list)), checked = [list |-> list, deletable |-> {}, messages |-> <<>>]
      PROVE  CheckedInv(checked, list, counts)
  <2>1. checked.list = list /\ checked.deletable = {} /\ checked.messages = <<>>
    BY <1>4
  <2>2. \A i \in 1 .. Len(list) : ~ Complete(list[i])
    BY <1>4 DEF Idle
  <2> QED BY <1>2, <2>1, <2>2 DEF CheckedInv
<1>5. ASSUME NEW k \in 1 .. Len(list), Idle(list, k - 1), TooOld(list[k]),
             checked = [list |-> RemoveAt(list, k), deletable |-> {Leader(list[k])}, messages |-> <<>>]
      PROVE  CheckedInv(checked, list, counts)
  <2>1. PICK t : t = RemoveAt(list, k)
    OBVIOUS
  <2>2. checked.list = t /\ checked.deletable = {Leader(list[k])} /\ checked.messages = <<>>
    BY <1>5, <2>1
  <2>3. Removed(t, list, k, counts)
    BY <1>2, <2>1, RemoveKeepsList
  <2>4. \A x \in Items : Has(t, x) => Has(list, x) /\ x # Leader(list[k])
    BY <1>2, <2>3, RemovedItems
  <2>5. Leader(list[k]) \in Items /\ Has(list, Leader(list[k]))
    BY <1>2, ChainFacts
  <2>6. ASSUME NEW i \in 1 .. Len(t), Complete(t[i]) PROVE TooOld(t[i])
    <3>1. PICK j \in 1 .. Len(list) : j # k /\ t[i] = list[j]
      BY <2>3 DEF Removed
    <3>2. CASE j < k
      <4>1. j \in 1 .. k - 1
        BY <3>2
      <4> QED BY <1>5, <2>6, <3>1, <4>1 DEF Idle
    <3>3. CASE j > k
      <4>1. list[j].oldest <= list[k].oldest
        BY <1>2, <3>3 DEF ListInv
      <4>2. list[j].oldest \in Nat /\ list[k].oldest \in Nat
        BY <1>2, ChainFacts
      <4>3. MaxAge \in Nat /\ now - list[k].oldest > MaxAge
        BY <1>5, StorageAssumption DEF TooOld
      <4>4. now - list[j].oldest > MaxAge
        BY <4>1, <4>2, <4>3
      <4> QED BY <3>1, <4>4 DEF TooOld
    <3> QED BY <3>1, <3>2, <3>3
  <2> QED BY <2>2, <2>3, <2>4, <2>5, <2>6 DEF CheckedInv, Removed
<1>6. ASSUME NEW k \in 1 .. Len(list), ~ TooOld(list[k]), Complete(list[k]),
             checked = [list |-> RemoveAt(list, k), deletable |-> ToSet(list[k].items),
                        messages |-> IF FragmentsAreConsistent(list[k])
                                     THEN << [sequence |-> Leader(list[k]).msg, parts |-> list[k].items] >>
                                     ELSE <<>>]
      PROVE  CheckedInv(checked, list, counts)
  <2>1. PICK t : t = RemoveAt(list, k)
    OBVIOUS
  <2> DEFINE d == [sequence |-> Leader(list[k]).msg, parts |-> list[k].items]
  <2>2. /\ checked.list = t /\ checked.deletable = ToSet(list[k].items)
        /\ checked.messages = IF FragmentsAreConsistent(list[k]) THEN <<d>> ELSE <<>>
    BY <1>6, <2>1
  <2>3. Removed(t, list, k, counts)
    BY <1>2, <2>1, RemoveKeepsList
  <2>4. /\ list[k].items \in Seq(Items) /\ Len(list[k].items) \in Nat \ {0}
        /\ Leader(list[k]) = list[k].items[1] /\ Leader(list[k]) \in Items
        /\ \A i \in 1 .. Len(list[k].items) :
             list[k].items[i] \in Items /\ Has(list, list[k].items[i])
             /\ list[k].items[i].msg = Leader(list[k]).msg
        /\ ToSet(list[k].items) = {list[k].items[i] : i \in 1 .. Len(list[k].items)}
    BY <1>2, ChainFacts
  <2>5. \A x \in Items : Has(t, x) => Has(list, x) /\ x.msg # Leader(list[k]).msg
    BY <1>2, <2>3, RemovedItems
  <2>6. \A x \in ToSet(list[k].items) : x \in Items /\ Has(list, x) /\ x.msg = Leader(list[k]).msg
    BY <2>4
  <2>7. ASSUME NEW i \in 1 .. Len(t), Complete(t[i]) PROVE TooOld(t[i])
    <3>1. PICK j \in 1 .. Len(list) : j # k /\ t[i] = list[j]
      BY <2>3 DEF Removed
    <3>2. SUFFICES ASSUME ~ TooOld(list[j]) PROVE FALSE
      BY <3>1
    <3>3. PICK n \in 1 .. Len(list[j].items) : list[j].items[n] = item
      BY <1>3, <2>7, <3>1, <3>2
    <3>4. PICK l \in 1 .. Len(list[k].items) : list[k].items[l] = item
      BY <1>3, <1>6
    <3>5. item.msg = Leader(list[j]).msg
      BY <1>2, <3>3, ChainFacts
    <3>6. item.msg = Leader(list[k]).msg
      BY <2>4, <3>4
    <3> QED BY <1>2, <3>1, <3>5, <3>6 DEF ListInv
  <2>8. ASSUME FragmentsAreConsistent(list[k]) PROVE HandedUp(d, list, t)
    <3>1. d.parts = list[k].items /\ d.sequence = Leader(list[k]).msg
      OBVIOUS
    <3>2. d \in Deliveries
      BY <2>4 DEF Deliveries, Items
    <3>3. Len(list[k].items) = Count(Leader(list[k]).msg)
      BY <1>6 DEF Complete, LinkCount
    <3>4. \A i \in 1 .. Len(list[k].items) : list[k].items[i].idx = i - 1
      BY <2>4, <2>8 DEF FragmentsAreConsistent
    <3> HIDE DEF d
    <3>5. Whole(d)
      BY <2>4, <3>1, <3>3, <3>4 DEF Whole
    <3> QED BY <2>4, <2>5, <3>1, <3>2, <3>5 DEF HandedUp
  <2>9. checked.messages = <<>> \/ (checked.messages = <<d>> /\ HandedUp(d, list, t))
    BY <2>2, <2>8
  <2> HIDE DEF d
  <2> QED BY <2>2, <2>3, <2>5, <2>6, <2>7, <2>9 DEF CheckedInv, Removed
<1>7. CheckedInv(checked, list, counts)
  BY <1>1, <1>2, <1>4, <1>5, <1>6, CheckCases, Zenon
<1> QED BY <1>1, <1>7
-----------------------------------------------------------------------------
(* The receiving end.                                                      *)

(* The first item of a message handed up.                                  *)
LEMMA WholeFacts ==
  ASSUME NEW d \in Deliveries, Whole(d)
  PROVE  /\ d.sequence \in Messages /\ d.parts \in Seq(Items) /\ 1 \in 1 .. Len(d.parts)
         /\ d.parts[1] \in Items /\ d.parts[1].msg = d.sequence /\ d.parts[1].idx = 0
<1>1. d.sequence \in Messages /\ d.parts \in Seq(Items)
  BY DEF Deliveries
<1>2. 1 \in 1 .. Len(d.parts)
  BY <1>1, SizesAssumption, CountProperties DEF Whole
<1> QED BY <1>1, <1>2 DEF Whole

(* A packet: inserted, checked and perhaps handed up.                      *)
LEMMA AddFragmentStep ==
  ASSUME StorageInv, NEW f \in Fragments, AddFragment(f)
  PROVE  StorageInv'
<1>1. PICK counts : counts = [arrived EXCEPT ![f] = @ + 1]
  OBVIOUS
<1>2. PICK item : item = FSItem(f)
  OBVIOUS
<1>3. PICK inserted : inserted = OrderedInsert(item)
  OBVIOUS
<1>4. PICK checked : checked = CheckFragments(inserted.list)
  OBVIOUS
<1>5. /\ arrived[f] < Copies[f[1]] /\ arrived' = counts /\ ordered' = checked.list
      /\ delivered' = delivered \o checked.messages
      /\ released' = released \cup inserted.deletable \cup checked.deletable
      /\ now' = now
  BY <1>1, <1>2, <1>3, <1>4 DEF AddFragment
<1>6. /\ now \in Nat /\ item \in Items /\ counts \in [Fragments -> Nat]
      /\ Known(item, counts) /\ ~ Known(item, arrived)
      /\ \A x \in Items : Known(x, arrived) => Known(x, counts)
  BY <1>1, <1>2, ItemProperties, KnownGrows DEF StorageInv, StorageType
<1>7. /\ InsertedInv(inserted.list, item, counts)
      /\ inserted.deletable = {} \/ (inserted.deletable = {item} /\ inserted.list = ordered)
  BY <1>1, <1>2, <1>3, InsertedProperties DEF StorageInv
<1>8. CheckedInv(checked, inserted.list, counts)
  BY <1>4, <1>6, <1>7, CheckedProperties
<1>9. \A x \in Items : Has(ordered, x) => Known(x, arrived) /\ x \notin released
  <2>1. ListInv(ordered, arrived) /\ \A k \in 1 .. Len(ordered) : ToSet(ordered[k].items) \cap released = {}
    BY DEF StorageInv, OrderedInv
  <2> SUFFICES ASSUME NEW x \in Items, Has(ordered, x) PROVE Known(x, arrived) /\ x \notin released
    OBVIOUS
  <2>2. PICK k \in 1 .. Len(ordered) : \E i \in 1 .. Len(ordered[k].items) : ordered[k].items[i] = x
    BY DEF Has
  <2>3. PICK i \in 1 .. Len(ordered[k].items) : ordered[k].items[i] = x
    BY <2>2
  <2>4. /\ Known(ordered[k].items[i], arrived)
        /\ ToSet(ordered[k].items) = {ordered[k].items[j] : j \in 1 .. Len(ordered[k].items)}
    BY <2>1, ChainFacts
  <2>5. x \in ToSet(ordered[k].items) /\ Known(x, arrived)
    BY <2>3, <2>4
  <2> QED BY <2>1, <2>5
<1>10. /\ ListInv(checked.list, counts)
       /\ \A x \in Items : Has(checked.list, x) => Has(inserted.list, x) /\ x \notin checked.deletable
       /\ \A x \in checked.deletable : x \in Items /\ Has(inserted.list, x)
       /\ \A i \in 1 .. Len(checked.list) : Complete(checked.list[i]) => TooOld(checked.list[i])
       /\ \A i \in 1 .. Len(checked.list) :
            \E j \in 1 .. Len(inserted.list) : checked.list[i].oldest = inserted.list[j].oldest
       /\ \/ checked.messages = <<>>
          \/ \E d : checked.messages = <<d>> /\ HandedUp(d, inserted.list, checked.list)
  BY <1>8 DEF CheckedInv
<1>11. \A x \in Items : Has(inserted.list, x) => x = item \/ Has(ordered, x)
  BY <1>7 DEF InsertedInv
<1>12. \A x \in Items : Has(inserted.list, x) => Known(x, counts)
  BY <1>6, <1>9, <1>11
<1>13. \A x \in released' : x \in Items /\ Known(x, counts)
  <2>1. \A x \in released : x \in Items /\ Known(x, arrived)
    BY DEF StorageInv, StorageType
  <2> QED BY <1>5, <1>6, <1>7, <1>10, <1>12, <2>1
<1>14. \A x \in Items : Has(checked.list, x) => x \notin released'
  <2> SUFFICES ASSUME NEW x \in Items, Has(checked.list, x) PROVE x \notin released'
    OBVIOUS
  <2>1. Has(inserted.list, x) /\ x \notin checked.deletable
    BY <1>10
  <2>2. x \notin released
    <3>1. item \notin released
      BY <1>6 DEF StorageInv, StorageType
    <3> QED BY <1>9, <1>11, <2>1, <3>1
  <2>3. x \notin inserted.deletable
    BY <1>6, <1>7, <1>9, <2>1
  <2> QED BY <1>5, <2>1, <2>2, <2>3
<1>15. OrderedInv'
  <2>1. ListInv(ordered, arrived)'
    BY <1>5, <1>10 DEF ListInv, ChainInv, Known, Leader
  <2>2. \A k \in 1 .. Len(ordered') : ToSet(ordered'[k].items) \cap released' = {}
    <3> SUFFICES ASSUME NEW k \in 1 .. Len(checked.list) PROVE ToSet(checked.list[k].items) \cap released' = {}
      BY <1>5
    <3>1. \A x \in ToSet(checked.list[k].items) : x \in Items /\ Has(checked.list, x)
      <4>1. /\ \A i \in 1 .. Len(checked.list[k].items) :
                 checked.list[k].items[i] \in Items /\ Has(checked.list, checked.list[k].items[i])
            /\ ToSet(checked.list[k].items) =
                 {checked.list[k].items[i] : i \in 1 .. Len(checked.list[k].items)}
        <5>1. PICK list : list = checked.list
          OBVIOUS
        <5>2. ListInv(list, counts) /\ k \in 1 .. Len(list)
          BY <1>10, <5>1
        <5>3. /\ \A i \in 1 .. Len(list[k].items) :
                   list[k].items[i] \in Items /\ Has(list, list[k].items[i])
              /\ ToSet(list[k].items) = {list[k].items[i] : i \in 1 .. Len(list[k].items)}
          BY <5>2, ChainFacts
        <5> QED BY <5>1, <5>3
      <4> QED BY <4>1
    <3> QED BY <1>14, <3>1
  <2>3. \A k \in 1 .. Len(ordered') : Complete(ordered'[k]) => TooOld(ordered[k])'
    BY <1>5, <1>10 DEF TooOld
  <2> QED BY <2>1, <2>2, <2>3 DEF OrderedInv, Complete, LinkCount, Leader
<1>16. ASSUME NEW d, checked.messages = <<d>>, HandedUp(d, inserted.list, checked.list)
       PROVE  /\ d \in Deliveries /\ Whole(d) /\ d.parts[1] \in Items /\ Known(d.parts[1], counts)
              /\ d.sequence \in Messages /\ d.parts[1].msg = d.sequence /\ d.parts[1].idx = 0
              /\ Has(inserted.list, d.parts[1])
  <2>1. d \in Deliveries /\ Whole(d) /\ Has(inserted.list, d.parts[1])
    BY <1>16 DEF HandedUp
  <2> QED BY <1>12, <2>1, WholeFacts
<1>17. \A i \in 1 .. Len(delivered) :
         /\ delivered[i] \in Deliveries /\ Whole(delivered[i])
         /\ delivered[i].parts[1] \in Items /\ delivered[i].sequence \in Messages
         /\ delivered[i].parts[1].msg = delivered[i].sequence /\ delivered[i].parts[1].idx = 0
         /\ Known(delivered[i].parts[1], arrived) /\ Known(delivered[i].parts[1], counts)
  <2>1. delivered \in Seq(Deliveries)
    BY DEF StorageInv, StorageType
  <2>2. \A i \in 1 .. Len(delivered) : delivered[i] \in Deliveries
    BY <2>1
  <2>3. \A i \in 1 .. Len(delivered) : Whole(delivered[i]) /\ Known(delivered[i].parts[1], arrived)
    BY DEF StorageInv, DeliveredInv
  <2> QED BY <1>6, <2>2, <2>3, WholeFacts
<1>18. ASSUME NEW i \in 1 .. Len(delivered), NEW x \in Items, Has(inserted.list, x),
              x.msg = delivered[i].sequence, x.idx = 0
       PROVE  x.copy # delivered[i].parts[1].copy
  <2>1. CASE x = item
    BY <1>6, <1>17, <1>18, <2>1 DEF Known
  <2>2. CASE Has(ordered, x)
    BY <1>18, <2>2 DEF StorageInv, DeliveredInv
  <2> QED BY <1>11, <1>18, <2>1, <2>2
<1>19. delivered \in Seq(Deliveries) /\ Len(delivered) \in Nat
  BY DEF StorageInv, StorageType
<1>20. \A i, j \in 1 .. Len(delivered) :
         delivered[i].sequence = delivered[j].sequence
           /\ delivered[i].parts[1].copy = delivered[j].parts[1].copy => i = j
  BY DEF StorageInv, DeliveredInv
<1>21. delivered' \in Seq(Deliveries) /\ DeliveredInv'
  <2>1. CASE checked.messages = <<>>
    <3>1. delivered' = delivered
      BY <1>5, <1>19, <2>1
    <3>2. \A i \in 1 .. Len(delivered) : Whole(delivered[i])' /\ Known(delivered[i].parts[1], arrived)'
      BY <1>5, <1>17, <3>1 DEF Whole, Known
    <3>3. \A i \in 1 .. Len(delivered), x \in Items :
            Has(checked.list, x) /\ x.msg = delivered[i].sequence /\ x.idx = 0
              => x.copy # delivered[i].parts[1].copy
      BY <1>10, <1>18
    <3>4. DeliveredInv'
      BY <1>5, <1>20, <3>1, <3>2, <3>3 DEF DeliveredInv, Has
    <3> QED BY <1>19, <3>1, <3>4
  <2>2. ASSUME NEW d, checked.messages = <<d>>, HandedUp(d, inserted.list, checked.list)
        PROVE  delivered' \in Seq(Deliveries) /\ DeliveredInv'
    <3>1. PICK n \in Nat : n = Len(delivered)
      BY <1>19
    <3>2. PICK t : t = delivered \o <<d>>
      OBVIOUS
    <3>3. /\ d \in Deliveries /\ Whole(d) /\ d.parts[1] \in Items /\ Known(d.parts[1], counts)
          /\ d.parts[1].msg = d.sequence /\ d.parts[1].idx = 0 /\ Has(inserted.list, d.parts[1])
      BY <1>16, <2>2
    <3>4. /\ t \in Seq(Deliveries) /\ Len(t) = n + 1 /\ t[n + 1] = d
          /\ \A i \in 1 .. n : t[i] = delivered[i]
      BY <1>19, <3>1, <3>2, <3>3
    <3>5. \A i \in 1 .. n + 1 : i = n + 1 \/ i \in 1 .. n
      OBVIOUS
    <3>6. \A i \in 1 .. n + 1 : Whole(t[i]) /\ Known(t[i].parts[1], counts)
      BY <1>17, <3>1, <3>3, <3>4, <3>5
    <3>7. \A i \in 1 .. n : d.sequence = t[i].sequence => d.parts[1].copy # t[i].parts[1].copy
      BY <1>18, <3>1, <3>3, <3>4
    <3>8. ASSUME NEW i \in 1 .. n + 1, NEW j \in 1 .. n + 1, t[i].sequence = t[j].sequence,
                 t[i].parts[1].copy = t[j].parts[1].copy
          PROVE  i = j
      BY <1>20, <3>1, <3>4, <3>5, <3>7, <3>8
    <3>9. ASSUME NEW i \in 1 .. n + 1, NEW x \in Items, Has(checked.list, x),
                 x.msg = t[i].sequence, x.idx = 0
          PROVE  x.copy # t[i].parts[1].copy
      <4>1. CASE i \in 1 .. n
        BY <1>10, <1>18, <3>1, <3>4, <3>9, <4>1
      <4>2. CASE i = n + 1
        BY <2>2, <3>4, <3>9, <4>2 DEF HandedUp
      <4> QED BY <3>5, <4>1, <4>2
    <3>10. delivered' = t
      BY <1>5, <2>2, <3>2
    <3>11. DeliveredInv'
      BY <1>5, <3>4, <3>6, <3>8, <3>9, <3>10 DEF DeliveredInv, Has, Whole, Known
    <3> QED BY <3>4, <3>10, <3>11
  <2> QED BY <1>10, <2>1, <2>2
<1>22. StorageType'
  <2>1. \A g \in Fragments : counts[g] <= Copies[g[1]]
    <3>1. \A g \in Fragments : arrived[g] \in Nat /\ arrived[g] <= Copies[g[1]] /\ Copies[g[1]] \in Nat
      BY FragmentProperties, StorageAssumption DEF StorageInv, StorageType
    <3>2. \A g \in Fragments : counts[g] = IF g = f THEN arrived[g] + 1 ELSE arrived[g]
      BY <1>1 DEF StorageInv, StorageType
    <3> QED BY <1>5, <3>1, <3>2
  <2>2. released' \subseteq {x \in Items : Known(x, arrived)'}
    BY <1>5, <1>13 DEF Known
  <2> QED BY <1>5, <1>6, <1>21, <2>1, <2>2 DEF StorageType
<1> QED BY <1>13, <1>15, <1>21, <1>22 DEF StorageInv

(* Time passes.                                                            *)
LEMMA TickStep ==
  ASSUME StorageInv, Tick
  PROVE  StorageInv'
<1>1. now' = now + 1 /\ UNCHANGED <<ordered, arrived, released, delivered>> /\ now \in Nat
  BY DEF Tick, StorageInv, StorageType
<1>2. \A k \in 1 .. Len(ordered) : /\ ordered[k].oldest \in Nat /\ ordered[k].oldest <= now
                                   /\ Complete(ordered[k]) => TooOld(ordered[k])
  <2>1. ListInv(ordered, arrived) /\ \A k \in 1 .. Len(ordered) : Complete(ordered[k]) => TooOld(ordered[k])
    BY DEF StorageInv, OrderedInv
  <2> QED BY <2>1, ChainFacts DEF ListInv
<1>3. \A k \in 1 .. Len(ordered) : Complete(ordered[k]) => TooOld(ordered[k])'
  BY <1>1, <1>2, StorageAssumption DEF TooOld
<1>4. ListInv(ordered, arrived)'
  <2>1. ListInv(ordered, arrived)
    BY DEF StorageInv, OrderedInv
  <2>2. \A k \in 1 .. Len(ordered) : ordered[k].oldest <= now'
    BY <1>1, <1>2
  <2> QED BY <1>1, <2>1, <2>2 DEF ListInv, ChainInv, Known, Leader
<1>5. OrderedInv'
  BY <1>1, <1>3, <1>4 DEF OrderedInv, StorageInv, Complete, LinkCount, Leader
<1>6. DeliveredInv'
  BY <1>1 DEF DeliveredInv, StorageInv, Has, Whole, Known
<1>7. StorageType'
  BY <1>1 DEF StorageType, StorageInv, Known
<1> QED BY <1>5, <1>6, <1>7 DEF StorageInv

(* What the receiver keeps is sound after any number of packets and ticks. *)
THEOREM StorageInvariant == Spec => []StorageInv
<1>1. Init => StorageInv
  <2> SUFFICES ASSUME Init PROVE StorageInv
    OBVIOUS
  <2>1. /\ now = 0 /\ ordered = <<>> /\ arrived = [f \in Fragments |-> 0]
        /\ released = {} /\ delivered = <<>>
    BY DEF Init
  <2>2. StorageType
    <3>1. \A f \in Fragments : arrived[f] = 0 /\ Copies[f[1]] \in Nat
      BY <2>1, FragmentProperties, StorageAssumption
    <3> QED BY <2>1, <3>1 DEF StorageType
  <2>3. OrderedInv
    BY <2>1 DEF OrderedInv, ListInv
  <2>4. DeliveredInv
    BY <2>1 DEF DeliveredInv
  <2> QED BY <2>2, <2>3, <2>4 DEF StorageInv
<1>2. StorageInv /\ [Next]_vars => StorageInv'
  <2> SUFFICES ASSUME StorageInv, [Next]_vars PROVE StorageInv'
    OBVIOUS
  <2>1. CASE Tick
    BY <2>1, TickStep
  <2>2. CASE \E f \in Fragments : AddFragment(f)
    BY <2>2, AddFragmentStep
  <2>3. CASE UNCHANGED vars
    <3>1. UNCHANGED <<now, ordered, arrived, released, delivered>>
      BY <2>3 DEF vars
    <3>2. StorageType'
      BY <3>1 DEF StorageInv, StorageType, Known
    <3>3. ListInv(ordered, arrived)'
      BY <3>1 DEF StorageInv, OrderedInv, ListInv, ChainInv, Known, Leader
    <3>4. OrderedInv'
      BY <3>1, <3>3 DEF StorageInv, OrderedInv, Complete, LinkCount, Leader, TooOld
    <3>5. DeliveredInv'
      BY <3>1 DEF StorageInv, DeliveredInv, Has, Whole, Known
    <3> QED BY <3>2, <3>4, <3>5 DEF StorageInv
  <2> QED BY <2>1, <2>2, <2>3 DEF Next
<1> QED BY <1>1, <1>2, PTL DEF Spec

(* No chain of the fragment storage holds an item whose memory is gone,    *)
(* and no message has two chains.                                          *)
THEOREM ListsAreSound == Spec => []ChainsAreSound
<1>1. StorageInv => ChainsAreSound
  <2> SUFFICES ASSUME StorageInv PROVE ChainsAreSound
    OBVIOUS
  <2>1. DOMAIN ordered = 1 .. Len(ordered)
    BY DEF StorageInv, OrderedInv, ListInv
  <2> QED BY <2>1 DEF StorageInv, OrderedInv, ListInv, ChainsAreSound
<1> QED BY <1>1, StorageInvariant, PTL

(* A message whose fragments come once is handed up once.                  *)
THEOREM MessagesComeOnce == Spec => []DeliveredOnce
<1>1. StorageInv => DeliveredOnce
  <2> SUFFICES ASSUME StorageInv, NEW i \in DOMAIN delivered, NEW j \in DOMAIN delivered,
                      delivered[i].sequence = delivered[j].sequence, Copies[delivered[i].sequence] = 1
               PROVE  i = j
    BY DEF DeliveredOnce
  <2>1. i \in 1 .. Len(delivered) /\ j \in 1 .. Len(delivered) /\ delivered \in Seq(Deliveries)
    BY DEF StorageInv, StorageType
  <2>2. ASSUME NEW k \in 1 .. Len(delivered), Copies[delivered[k].sequence] = 1
        PROVE  delivered[k].parts[1].copy = 1
    <3>1. delivered[k] \in Deliveries /\ Whole(delivered[k]) /\ Known(delivered[k].parts[1], arrived)
      BY <2>1 DEF StorageInv, DeliveredInv
    <3>2. delivered[k].parts[1] \in Items /\ delivered[k].parts[1].msg = delivered[k].sequence
      BY <3>1, WholeFacts
    <3>3. PICK f \in Fragments : f = <<delivered[k].parts[1].msg, delivered[k].parts[1].idx>>
      BY <3>1 DEF Known
    <3>4. arrived[f] \in Nat /\ arrived[f] <= Copies[f[1]] /\ f[1] = delivered[k].sequence
      BY <3>2, <3>3 DEF StorageInv, StorageType
    <3>5. delivered[k].parts[1].copy \in 1 .. arrived[f]
      BY <3>1, <3>3 DEF Known
    <3> QED BY <2>2, <3>4, <3>5
  <2> QED BY <2>1, <2>2 DEF StorageInv, DeliveredInv
<1> QED BY <1>1, StorageInvariant, PTL
(* The pieces of a whole message follow each other to its end.             *)
LEMMA PieceProperties ==
  ASSUME NEW m \in Messages, NEW k \in 1 .. Count(m)
  PROVE  /\ DataIn(DataSize[m], k - 1) \in Nat /\ Offset(k - 1) \in Nat
         /\ k < Count(m) => Offset(k) = Offset(k - 1) + DataIn(DataSize[m], k - 1)
         /\ k = Count(m) => DataSize[m] = Offset(k - 1) + DataIn(DataSize[m], k - 1)
<1>1. FragmentRoom \in Nat \ {0} /\ DataSize[m] \in Nat \ {0}
  BY SizesAssumption, StorageAssumption DEF FragmentRoom
<1>2. PICK room \in Nat, size \in Nat, n \in {Count(m)} : room = FragmentRoom /\ size = DataSize[m] /\ n = Count(m)
  BY <1>1
<1>3. n \in Nat /\ k \in 1 .. n /\ size <= n * room /\ (n - 1) * room < size
  BY <1>2, SizesAssumption, CountProperties
<1>4. PICK o : o = (k - 1) * room
  OBVIOUS
<1>5. o \in Nat /\ k * room = o + room
  BY <1>2, <1>3, <1>4
<1>6. k < n => k * room <= (n - 1) * room
  BY <1>2, <1>3
<1>7. /\ o < size
      /\ k < n => ~ (size - o < room)
      /\ k = n => size - o <= room
  BY <1>2, <1>3, <1>4, <1>5, <1>6
<1>8. PICK data : data = IF size - o < room THEN size - o ELSE room
  OBVIOUS
<1>9. data \in Nat /\ (k < n => k * room = o + data) /\ (k = n => size = o + data)
  BY <1>2, <1>5, <1>7, <1>8
<1>10. Offset(k - 1) = o /\ Offset(k) = k * room /\ DataIn(DataSize[m], k - 1) = data
  BY <1>2, <1>4, <1>8 DEF Offset, DataIn
<1> QED BY <1>2, <1>5, <1>9, <1>10

(* The parts of a whole message, in order, are its bytes.                  *)
LEMMA WholeContent ==
  ASSUME NEW d \in Deliveries, Whole(d)
  PROVE  Content(d) = [b \in 1 .. DataSize[d.sequence] |-> b]
<1> DEFINE m == d.sequence
           piece(p) == [b \in 1 .. DataIn(DataSize[p.msg], p.idx) |-> Offset(p.idx) + b]
<1>1. PICK n : n = Count(m)
  OBVIOUS
<1>2. /\ m \in Messages /\ n \in Nat \ {0} /\ DOMAIN d.parts = 1 .. n
      /\ DataSize[m] \in Nat \ {0}
      /\ \A k \in 1 .. n : d.parts[k].msg = m /\ d.parts[k].idx = k - 1
  BY <1>1, WholeFacts, CountProperties, StorageAssumption, SizesAssumption DEF Whole
<1>3. PICK seqs : seqs = [k \in 1 .. n |-> [b \in 1 .. DataIn(DataSize[m], k - 1) |-> Offset(k - 1) + b]]
  OBVIOUS
<1>4. Content(d) = FlattenSeq(seqs)
  <2>1. \A k \in 1 .. n : piece(d.parts[k]) = [b \in 1 .. DataIn(DataSize[m], k - 1) |-> Offset(k - 1) + b]
    BY <1>2
  <2>2. seqs = [k \in DOMAIN d.parts |-> piece(d.parts[k])]
    <3> HIDE DEF piece
    <3> QED BY <1>2, <1>3, <2>1
  <2> QED BY <2>2 DEF Content
<1>5. PICK s : s = [k \in 0 .. n |-> IF k = n THEN DataSize[m] ELSE Offset(k)]
  OBVIOUS
<1>6. \A k \in 1 .. n : /\ DataIn(DataSize[m], k - 1) \in Nat /\ Offset(k - 1) \in Nat
                        /\ k < n => Offset(k) = Offset(k - 1) + DataIn(DataSize[m], k - 1)
                        /\ k = n => DataSize[m] = Offset(k - 1) + DataIn(DataSize[m], k - 1)
  BY <1>1, <1>2, PieceProperties
<1>7. /\ seqs \in Seq(Seq(Int)) /\ Len(seqs) = n
      /\ \A k \in 1 .. n : /\ Len(seqs[k]) = DataIn(DataSize[m], k - 1)
                           /\ \A b \in 1 .. Len(seqs[k]) : seqs[k][b] = Offset(k - 1) + b
  <2>1. \A k \in 1 .. n : /\ seqs[k] \in Seq(Int) /\ Len(seqs[k]) = DataIn(DataSize[m], k - 1)
                          /\ \A b \in 1 .. Len(seqs[k]) : seqs[k][b] = Offset(k - 1) + b
    BY <1>3, <1>6
  <2>2. seqs = [k \in 1 .. n |-> seqs[k]]
    BY <1>3
  <2>3. seqs \in Seq(Seq(Int)) /\ Len(seqs) = n
    BY <1>2, <2>1, <2>2
  <2> QED BY <2>1, <2>3
<1>8. s[0] = 0 /\ s[n] = DataSize[m] /\ \A k \in 1 .. n : s[k - 1] = Offset(k - 1)
  <2>1. Offset(0) = 0
    BY SizesAssumption DEF Offset, FragmentRoom
  <2>2. \A k \in 1 .. n : k - 1 \in 0 .. n /\ k - 1 # n
    BY <1>2
  <2> QED BY <1>2, <1>5, <2>1, <2>2
<1>9. \A k \in 1 .. n : s[k] = s[k - 1] + Len(seqs[k])
  <2> SUFFICES ASSUME NEW k \in 1 .. n PROVE s[k] = s[k - 1] + Len(seqs[k])
    OBVIOUS
  <2>1. s[k] = IF k = n THEN DataSize[m] ELSE Offset(k)
    BY <1>2, <1>5
  <2> QED BY <1>2, <1>6, <1>7, <1>8, <2>1
<1>10. s \in [0 .. n -> Nat]
  <2>1. \A k \in 0 .. n : k = 0 \/ k \in 1 .. n
    BY <1>2
  <2>2. \A k \in 1 .. n : s[k] \in Nat
    <3> SUFFICES ASSUME NEW k \in 1 .. n PROVE s[k] \in Nat
      OBVIOUS
    <3>1. /\ s[k] = s[k - 1] + Len(seqs[k]) /\ s[k - 1] = Offset(k - 1) /\ Offset(k - 1) \in Nat
          /\ Len(seqs[k]) = DataIn(DataSize[m], k - 1) /\ DataIn(DataSize[m], k - 1) \in Nat
      BY <1>6, <1>7, <1>8, <1>9
    <3> QED BY <3>1
  <2>3. s = [k \in 0 .. n |-> s[k]]
    BY <1>5
  <2> QED BY <1>8, <2>1, <2>2, <2>3
<1>11. FlattenSeq(seqs) = [x \in 1 .. s[n] |-> x + 0]
  <2>1. \A k \in 1 .. Len(seqs) : \A b \in 1 .. Len(seqs[k]) : seqs[k][b] = s[k - 1] + b + 0
    BY <1>6, <1>7, <1>8
  <2>2. /\ s \in [0 .. Len(seqs) -> Nat] /\ 0 \in Int
        /\ \A k \in 1 .. Len(seqs) : s[k] = s[k - 1] + Len(seqs[k])
    BY <1>7, <1>9, <1>10
  <2>3. FlattenSeq(seqs) = [x \in 1 .. s[Len(seqs)] |-> x + 0]
    BY <1>7, <1>8, <2>1, <2>2, FlattenCounts, Zenon
  <2> QED BY <1>7, <2>3
<1>12. [x \in 1 .. s[n] |-> x + 0] = [b \in 1 .. DataSize[m] |-> b]
  BY <1>8
<1> QED BY <1>4, <1>11, <1>12

(* What the receiver hands up is the message that was sent, byte by byte.  *)
THEOREM MessagesComeWhole == Spec => []DeliveredWhole
<1>1. StorageInv => DeliveredWhole
  <2> SUFFICES ASSUME StorageInv, NEW d \in ToSet(delivered)
               PROVE  /\ \A p \in ToSet(d.parts) : p.msg = d.sequence
                      /\ Content(d) = [b \in 1 .. DataSize[d.sequence] |-> b]
    BY DEF DeliveredWhole
  <2>1. PICK i \in 1 .. Len(delivered) : d = delivered[i]
    BY DEF StorageInv, StorageType, ToSet
  <2>2. d \in Deliveries /\ Whole(d)
    BY <2>1 DEF StorageInv, StorageType, DeliveredInv
  <2>3. \A p \in ToSet(d.parts) : \E k \in 1 .. Len(d.parts) : p = d.parts[k]
    BY <2>2, WholeFacts DEF ToSet
  <2> QED BY <2>2, <2>3, WholeContent DEF Whole
<1> QED BY <1>1, StorageInvariant, PTL

(* Indexes that increase and are all those below count are in order.       *)
LEMMA IndexesInOrder ==
  ASSUME NEW n \in Nat \ {0}, NEW count \in Nat \ {0}, NEW idx \in [1 .. n -> Nat],
         \A i, j \in 1 .. n : i < j => idx[i] < idx[j],
         \A i \in 1 .. n : idx[i] <= count - 1,
         \A c \in 0 .. count - 1 : \E i \in 1 .. n : idx[i] = c
  PROVE  n = count /\ \A i \in 1 .. n : idx[i] = i - 1
<1>1. \A i \in 1 .. n : idx[i] \in Nat /\ idx[i] <= count - 1
  OBVIOUS
<1>2. \A i \in 1 .. n : idx[i] >= i - 1
  <2> SUFFICES ASSUME NEW b \in 1 .. n, ~ (idx[b] >= b - 1) PROVE FALSE
    OBVIOUS
  <2> DEFINE Low == {i \in 1 .. n : idx[i] < i - 1}
  <2>1. Low # {}
    <3>1. b \in Low
      BY <1>1
    <3> QED BY <3>1
  <2>2. PICK i \in Low : \A j \in Low : i <= j
    <3>1. Low \subseteq 0 .. n
      OBVIOUS
    <3> HIDE DEF Low
    <3> QED BY <2>1, <3>1, MinProperties
  <2>3. i - 1 \in 1 .. n /\ i - 1 \notin Low
    BY <1>1, <2>2
  <2>4. idx[i - 1] >= i - 1 - 1 /\ idx[i - 1] < idx[i] /\ idx[i] < i - 1
    BY <1>1, <2>2, <2>3
  <2> QED BY <1>1, <2>2, <2>3, <2>4
<1>3. \A i \in 1 .. n : idx[i] = i - 1
  <2> DEFINE High == {i \in 1 .. n : idx[i] # i - 1}
  <2>1. SUFFICES ASSUME High # {} PROVE FALSE
    OBVIOUS
  <2>2. PICK i \in High : \A j \in High : i <= j
    <3>1. High \subseteq 0 .. n
      OBVIOUS
    <3> HIDE DEF High
    <3> QED BY <2>1, <3>1, MinProperties
  <2>3. idx[i] > i - 1 /\ i - 1 \in 0 .. count - 1
    <3>1. i \in 1 .. n /\ idx[i] # i - 1
      BY <2>2
    <3>2. idx[i] \in Nat /\ idx[i] <= count - 1 /\ idx[i] >= i - 1
      BY <1>1, <1>2, <3>1
    <3>3. PICK v \in Int : v = idx[i]
      BY <3>2
    <3>4. i \in Int /\ i >= 1 /\ count \in Int
      BY <3>1
    <3>5. v > i - 1 /\ i - 1 \in 0 .. count - 1
      <4> HIDE DEF High
      <4>1. v # i - 1 /\ v >= i - 1 /\ v <= count - 1
        BY <3>1, <3>2, <3>3
      <4> QED BY <3>4, <4>1
    <3> QED BY <3>3, <3>5
  <2>4. PICK j \in 1 .. n : idx[j] = i - 1
    BY <2>3
  <2>5. CASE j < i
    <3>1. j \notin High
      BY <2>2, <2>5
    <3> QED BY <2>2, <2>4, <2>5, <3>1
  <2>6. CASE ~ (j < i)
    <3>1. idx[j] >= idx[i]
      <4>1. j = i \/ i < j
        BY <2>2, <2>6
      <4>2. i \in 1 .. n /\ idx[i] \in Nat /\ idx[j] \in Nat
        BY <2>2
      <4>3. i < j => idx[i] < idx[j]
        BY <4>2
      <4>4. CASE j = i
        <5>1. idx[j] = idx[i]
          BY <4>4
        <5> QED BY <4>2, <5>1
      <4>5. CASE i < j
        BY <4>2, <4>3, <4>5
      <4> QED BY <4>1, <4>4, <4>5
    <3>2. PICK v \in Int, w \in Int : v = idx[i] /\ w = i - 1
      BY <2>2
    <3>3. v <= w /\ v > w
      BY <2>3, <2>4, <3>1, <3>2
    <3> QED BY <3>3
  <2> QED BY <2>5, <2>6
<1>4. n <= count
  <2>1. n \in 1 .. n
    OBVIOUS
  <2> QED BY <1>1, <1>3, <2>1
<1>5. count <= n
  <2>1. count - 1 \in 0 .. count - 1
    OBVIOUS
  <2>2. PICK j \in 1 .. n : idx[j] = count - 1
    BY <2>1
  <2> QED BY <1>3, <2>2
<1> QED BY <1>3, <1>4, <1>5

(* The indexes of the fragments of one chain, and those a list holds of m. *)
IndexesOf(chain) == {chain.items[i].idx : i \in 1 .. Len(chain.items)}
IndexesIn(list, m) == {x.idx : x \in {y \in Items : Has(list, y) /\ y.msg = m}}

(* A chain with all fragments of its message is complete and consistent.   *)
LEMMA FullChain ==
  ASSUME NEW list, NEW counts, ListInv(list, counts), NEW k \in 1 .. Len(list),
         NEW m, m = Leader(list[k]).msg,
         IndexesOf(list[k]) = 0 .. Count(m) - 1
  PROVE  Complete(list[k]) /\ FragmentsAreConsistent(list[k])
<1>1. PICK items : items = list[k].items
  OBVIOUS
<1>2. /\ items \in Seq(Items) /\ Len(items) \in Nat \ {0} /\ m \in Messages
      /\ \A i \in 1 .. Len(items) : items[i] \in Items /\ items[i].msg = m
      /\ Leader(list[k]) = items[1]
  <2>1. /\ items \in Seq(Items) /\ Len(items) \in Nat \ {0}
        /\ Leader(list[k]) = items[1] /\ items[1] \in Items
        /\ \A i \in 1 .. Len(items) : items[i] \in Items /\ items[i].msg = Leader(list[k]).msg
    BY <1>1, ChainFacts
  <2>2. m \in Messages
    BY <2>1 DEF Items
  <2> QED BY <2>1, <2>2
<1>3. Count(m) \in Nat \ {0}
  BY <1>2, CountProperties, SizesAssumption
<1>4. PICK n \in Nat \ {0} : n = Len(items)
  BY <1>2
<1>5. PICK idx : idx = [i \in 1 .. n |-> items[i].idx]
  OBVIOUS
<1>6. n = Count(m) /\ \A i \in 1 .. n : idx[i] = i - 1
  <2>1. idx \in [1 .. n -> Nat]
    BY <1>2, <1>4, <1>5 DEF Items
  <2>2. \A i, j \in 1 .. n : i < j => idx[i] < idx[j]
    BY <1>1, <1>4, <1>5 DEF ListInv, ChainInv
  <2>3. PICK c \in Nat \ {0} : c = Count(m)
    BY <1>3
  <2>4. {items[i].idx : i \in 1 .. n} = 0 .. c - 1
    BY <1>1, <1>4, <2>3 DEF IndexesOf
  <2>5. \A i \in 1 .. n : idx[i] <= c - 1
    <3> SUFFICES ASSUME NEW i \in 1 .. n PROVE idx[i] <= c - 1
      OBVIOUS
    <3>1. items[i].idx \in 0 .. c - 1
      BY <2>4
    <3> QED BY <1>5, <3>1
  <2>6. \A d \in 0 .. c - 1 : \E i \in 1 .. n : idx[i] = d
    BY <1>5, <2>4
  <2>7. n = c /\ \A i \in 1 .. n : idx[i] = i - 1
    BY <2>1, <2>2, <2>5, <2>6, IndexesInOrder, Zenon
  <2> QED BY <2>3, <2>7
<1>7. \A i \in 1 .. n : items[i].msg = m /\ items[i].idx = i - 1
  BY <1>2, <1>4, <1>5, <1>6
<1>8. Complete(list[k])
  BY <1>1, <1>2, <1>4, <1>6 DEF Complete, LinkCount
<1>9. \A i \in 1 .. n : /\ DataIn(DataSize[m], i - 1) \in Nat
                        /\ DataIn(DataSize[m], i - 1) <= FragmentRoom
                        /\ i < n => DataIn(DataSize[m], i - 1) = FragmentRoom
  <2> SUFFICES ASSUME NEW i \in 1 .. n
               PROVE  /\ DataIn(DataSize[m], i - 1) \in Nat
                      /\ DataIn(DataSize[m], i - 1) <= FragmentRoom
                      /\ i < n => DataIn(DataSize[m], i - 1) = FragmentRoom
    OBVIOUS
  <2>0. FragmentRoom \in Nat \ {0} /\ DataSize[m] \in Nat
    BY <1>2, SizesAssumption, StorageAssumption DEF FragmentRoom
  <2>1. PICK room \in Nat \ {0}, size \in Nat : room = FragmentRoom /\ size = DataSize[m]
    BY <2>0
  <2>2. (n - 1) * room < size
    BY <1>2, <1>6, <2>1, CountProperties
  <2>3. DataIn(size, i - 1) \in Nat
    BY <1>2, <1>6, <2>1, PieceProperties
  <2>4. ASSUME i < n PROVE i * room <= (n - 1) * room
    <3>1. PICK rest \in Nat : n - 1 = i + rest
      <4>1. n - 1 - i \in Nat /\ n - 1 = i + (n - 1 - i)
        BY <2>4
      <4> QED BY <4>1
    <3>2. rest * room \in Nat /\ i * room \in Nat
      BY <2>1
    <3>3. (i + rest) * room = i * room + rest * room
      BY <2>1
    <3> QED BY <3>1, <3>2, <3>3
  <2>5. i * room = (i - 1) * room + room
    BY <2>1
  <2>6. PICK o, q, e \in Int : o = (i - 1) * room /\ q = (n - 1) * room /\ e = i * room
    <3>1. (i - 1) * room \in Int /\ (n - 1) * room \in Int /\ i * room \in Int
      BY <2>1
    <3> QED BY <3>1, Zenon
  <2>7. i < n => size - o >= room
    <3>1. i < n => e <= q
      BY <2>4, <2>6
    <3>2. e = o + room
      BY <2>5, <2>6
    <3>3. q < size
      BY <2>2, <2>6
    <3>4. o \in Int /\ q \in Int /\ e \in Int /\ room \in Int /\ size \in Int
      BY <2>1, <2>6
    <3> QED BY <3>1, <3>2, <3>3, <3>4
  <2>8. DataIn(size, i - 1) = IF size - o < room THEN size - o ELSE room
    BY <2>1, <2>6 DEF DataIn, Offset
  <2>9. PICK d \in Nat : d = DataIn(size, i - 1)
    BY <2>3
  <2>10. d <= room /\ (i < n => d = room)
    <3>1. d = IF size - o < room THEN size - o ELSE room
      BY <2>8, <2>9, Zenon
    <3> QED BY <2>7, <3>1
  <2> QED BY <2>1, <2>9, <2>10, Zenon
<1>10. HeaderSize \in Nat /\ FragmentRoom \in Nat
  BY SizesAssumption DEF FragmentRoom
<1>11. \A i \in 1 .. n : /\ items[i].idx = i - 1
                         /\ ContentSize(items[i]) <= ContentSize(items[1])
                         /\ i < n => ContentSize(items[i]) = ContentSize(items[1])
  <2> SUFFICES ASSUME NEW i \in 1 .. n
               PROVE  /\ items[i].idx = i - 1
                      /\ ContentSize(items[i]) <= ContentSize(items[1])
                      /\ i < n => ContentSize(items[i]) = ContentSize(items[1])
    OBVIOUS
  <2>1. /\ ContentSize(items[i]) = DataIn(DataSize[m], i - 1) + HeaderSize
        /\ ContentSize(items[1]) = DataIn(DataSize[m], 1 - 1) + HeaderSize
        /\ 1 \in 1 .. n
    BY <1>7 DEF ContentSize
  <2>2. PICK first, this \in Nat : first = DataIn(DataSize[m], 1 - 1) /\ this = DataIn(DataSize[m], i - 1)
    BY <1>9, <2>1
  <2>3. PICK room, head \in Nat : room = FragmentRoom /\ head = HeaderSize
    BY <1>10
  <2>4. first <= room /\ this <= room /\ (1 < n => first = room) /\ (i < n => this = room)
    BY <1>9, <2>1, <2>2, <2>3
  <2>5. i = 1 \/ 1 < n
    OBVIOUS
  <2>6. this <= first /\ (i < n => this = first)
    BY <2>2, <2>3, <2>4, <2>5
  <2>7. this + head <= first + head
    BY <2>2, <2>3, <2>6
  <2>8. ContentSize(items[i]) = this + head /\ ContentSize(items[1]) = first + head
    BY <2>1, <2>2, <2>3, Zenon
  <2>9. ContentSize(items[i]) <= ContentSize(items[1])
    BY <2>7, <2>8, Zenon
  <2>10. i < n => ContentSize(items[i]) = ContentSize(items[1])
    BY <2>6, <2>8, Zenon
  <2> QED BY <1>7, <2>9, <2>10
<1>12. LinkCount(list[k]) = n /\ DOMAIN list[k].items = 1 .. n
  BY <1>1, <1>2, <1>4 DEF LinkCount
<1>13. FragmentsAreConsistent(list[k])
  BY <1>1, <1>2, <1>11, <1>12 DEF FragmentsAreConsistent
<1> QED BY <1>8, <1>13

(* What one chain of a message holds is what the list holds of it.         *)
LEMMA HeldIndexes ==
  ASSUME NEW list, NEW counts, ListInv(list, counts), NEW k \in 1 .. Len(list)
  PROVE  IndexesOf(list[k]) = IndexesIn(list, Leader(list[k]).msg)
<1>1. ASSUME NEW i \in 1 .. Len(list[k].items)
      PROVE  list[k].items[i].idx \in IndexesIn(list, Leader(list[k]).msg)
  BY ChainFacts DEF IndexesIn
<1>2. ASSUME NEW x \in Items, Has(list, x), x.msg = Leader(list[k]).msg
      PROVE  \E i \in 1 .. Len(list[k].items) : list[k].items[i].idx = x.idx
  <2>1. PICK l \in 1 .. Len(list) : \E i \in 1 .. Len(list[l].items) : list[l].items[i] = x
    BY <1>2 DEF Has
  <2>2. x.msg = Leader(list[l]).msg
    BY <2>1, ChainFacts
  <2>3. l = k
    BY <1>2, <2>2 DEF ListInv
  <2> QED BY <2>1, <2>3
<1> QED BY <1>1, <1>2 DEF IndexesOf, IndexesIn

(* Held, in the terms of the invariant.                                    *)
LEMMA HeldProperties ==
  ASSUME ListInv(ordered, arrived), NEW m
  PROVE  Held(m) = IndexesIn(ordered, m)
<1>1. ordered \in Seq(Chains) /\ ToSet(ordered) = {ordered[k] : k \in 1 .. Len(ordered)}
  BY DEF ListInv, ToSet
<1>2. \A k \in 1 .. Len(ordered) :
        /\ \A i \in 1 .. Len(ordered[k].items) : ordered[k].items[i] \in Items
        /\ ToSet(ordered[k].items) = {ordered[k].items[i] : i \in 1 .. Len(ordered[k].items)}
  BY ChainFacts
<1>3. \A x : x \in UNION {ToSet(chain.items) : chain \in ToSet(ordered)} <=> x \in Items /\ Has(ordered, x)
  <2>1. ASSUME NEW x, x \in UNION {ToSet(chain.items) : chain \in ToSet(ordered)}
        PROVE  x \in Items /\ Has(ordered, x)
    <3>1. PICK k \in 1 .. Len(ordered) : x \in ToSet(ordered[k].items)
      BY <1>1, <2>1
    <3>2. PICK i \in 1 .. Len(ordered[k].items) : x = ordered[k].items[i]
      BY <1>2, <3>1
    <3> QED BY <1>2, <3>1, <3>2 DEF Has
  <2>2. ASSUME NEW x \in Items, Has(ordered, x)
        PROVE  x \in UNION {ToSet(chain.items) : chain \in ToSet(ordered)}
    <3>1. PICK k \in 1 .. Len(ordered) : \E i \in 1 .. Len(ordered[k].items) : ordered[k].items[i] = x
      BY <2>2 DEF Has
    <3>2. x \in ToSet(ordered[k].items) /\ ordered[k] \in ToSet(ordered)
      BY <1>1, <1>2, <3>1
    <3> QED BY <3>2
  <2> QED BY <2>1, <2>2
<1>4. {x \in UNION {ToSet(chain.items) : chain \in ToSet(ordered)} : x.msg = m} =
        {y \in Items : Has(ordered, y) /\ y.msg = m}
  BY <1>3
<1> QED BY <1>4, Zenon DEF Held, IndexesIn

(* The last missing fragment completes its chain, and that chain is the    *)
(* one the walk stops at.                                                  *)
LEMMA LastFragment ==
  ASSUME StorageInv, NEW f \in Fragments, AddFragment(f),
         Held(f[1]) \cup {f[2]} = 0 .. Count(f[1]) - 1,
         \A k \in 1 .. Len(ordered) : ~ TooOld(ordered[k])
  PROVE  \E d : d.sequence = f[1] /\ delivered' = delivered \o <<d>>
<1>1. PICK counts : counts = [arrived EXCEPT ![f] = @ + 1]
  OBVIOUS
<1>2. PICK item : item = FSItem(f)
  OBVIOUS
<1>3. PICK inserted : inserted = OrderedInsert(item)
  OBVIOUS
<1>4. PICK list : list = inserted.list
  OBVIOUS
<1>5. delivered' = delivered \o CheckFragments(list).messages
  BY <1>2, <1>3, <1>4 DEF AddFragment
<1>6. item \in Items /\ item.msg = f[1] /\ item.idx = f[2] /\ now \in Nat
  BY <1>2, ItemProperties DEF StorageInv, StorageType
<1>7. /\ ListInv(ordered, arrived)
      /\ \A k \in 1 .. Len(ordered) : ~ Complete(ordered[k])
  BY DEF StorageInv, OrderedInv
<1>8. Held(f[1]) = IndexesIn(ordered, f[1])
  BY <1>7, HeldProperties
<1>9. /\ InsertedInv(list, item, counts)
      /\ Collected(list, item) \/ (Repeated(item) /\ list = ordered)
  BY <1>1, <1>2, <1>3, <1>4, InsertedProperties DEF StorageInv
<1>10. ListInv(list, counts) /\ list \in Seq(Chains)
  BY <1>9 DEF InsertedInv, ListInv
<1>11. ~ Repeated(item)
  <2> SUFFICES ASSUME Repeated(item) PROVE FALSE
    OBVIOUS
  <2>1. PICK x \in Items : Has(ordered, x) /\ x.msg = f[1] /\ x.idx = f[2]
    BY <1>6 DEF Repeated
  <2>2. PICK k \in 1 .. Len(ordered) : \E i \in 1 .. Len(ordered[k].items) : ordered[k].items[i] = x
    BY <2>1 DEF Has
  <2>3. Leader(ordered[k]).msg = f[1]
    BY <1>7, <2>1, <2>2, ChainFacts
  <2>4. Held(f[1]) = 0 .. Count(f[1]) - 1
    <3>1. f[2] \in Held(f[1])
      BY <1>8, <2>1 DEF IndexesIn
    <3> QED BY <3>1
  <2>5. IndexesOf(ordered[k]) = 0 .. Count(f[1]) - 1
    BY <1>7, <1>8, <2>3, <2>4, HeldIndexes
  <2>6. Complete(ordered[k])
    BY <1>7, <2>3, <2>5, FullChain
  <2> QED BY <1>7, <2>6
<1>12. Has(list, item) /\ \A x \in Items : Has(list, x) <=> x = item \/ Has(ordered, x)
  BY <1>6, <1>9, <1>11 DEF Collected, InsertedInv
<1>13. PICK k \in 1 .. Len(list) : \E i \in 1 .. Len(list[k].items) : list[k].items[i] = item
  BY <1>12 DEF Has
<1>14. Leader(list[k]).msg = f[1]
  BY <1>6, <1>10, <1>13, ChainFacts
<1>15. IndexesOf(list[k]) = 0 .. Count(f[1]) - 1
  <2>1. IndexesIn(list, f[1]) = Held(f[1]) \cup {f[2]}
    BY <1>6, <1>8, <1>12 DEF IndexesIn
  <2> QED BY <1>10, <1>14, <2>1, HeldIndexes
<1>16. Complete(list[k]) /\ FragmentsAreConsistent(list[k])
  BY <1>10, <1>14, <1>15, FullChain
<1>17. \A l \in 1 .. Len(list) : ~ TooOld(list[l])
  <2> SUFFICES ASSUME NEW l \in 1 .. Len(list) PROVE ~ TooOld(list[l])
    OBVIOUS
  <2>1. CASE list[l].oldest = now
    BY <1>6, <2>1, StorageAssumption DEF TooOld
  <2>2. CASE \E j \in 1 .. Len(ordered) : list[l].oldest = ordered[j].oldest
    BY <2>2 DEF TooOld
  <2> QED BY <1>9, <2>1, <2>2 DEF InsertedInv
<1>18. \A l \in 1 .. Len(list) : Complete(list[l]) => l = k
  <2> SUFFICES ASSUME NEW l \in 1 .. Len(list), Complete(list[l]) PROVE l = k
    OBVIOUS
  <2>1. \E i \in 1 .. Len(list[l].items) : list[l].items[i] = item
    BY <1>9, <1>17 DEF InsertedInv
  <2>2. Leader(list[l]).msg = f[1]
    BY <1>6, <1>10, <2>1, ChainFacts
  <2> QED BY <1>10, <1>14, <2>2 DEF ListInv
<1>19. ~ Idle(list, Len(list))
  BY <1>16 DEF Idle
<1>20. CheckFragments(list) =
         [list |-> RemoveAt(list, k), deletable |-> ToSet(list[k].items),
          messages |-> IF FragmentsAreConsistent(list[k])
                       THEN << [sequence |-> Leader(list[k]).msg, parts |-> list[k].items] >>
                       ELSE <<>>]
  BY <1>10, <1>17, <1>18, <1>19, CheckCases, Zenon
<1>21. CheckFragments(list).messages = << [sequence |-> Leader(list[k]).msg, parts |-> list[k].items] >>
  BY <1>16, <1>20
<1> DEFINE d == [sequence |-> Leader(list[k]).msg, parts |-> list[k].items]
<1>22. d.sequence = f[1] /\ delivered' = delivered \o <<d>>
  BY <1>5, <1>14, <1>21
<1> QED BY <1>22, Zenon

(* The call that brings the last missing fragment of a message hands that  *)
(* message up, unless the walk met a chain too old in front of it.         *)
THEOREM CompletionReturns == Spec => CompletionIsReturned
<1> DEFINE Returned ==
      \A f \in Fragments :
        /\ arrived'[f] # arrived[f]
        /\ Held(f[1]) \cup {f[2]} = 0 .. Count(f[1]) - 1
        /\ \A k \in DOMAIN ordered : ~ TooOld(ordered[k])
        => Len(delivered') = Len(delivered) + 1 /\ Last(delivered').sequence = f[1]
<1>1. StorageInv /\ [Next]_vars => [Returned]_vars
  <2> SUFFICES ASSUME StorageInv, [Next]_vars, NEW f \in Fragments, arrived'[f] # arrived[f],
                      Held(f[1]) \cup {f[2]} = 0 .. Count(f[1]) - 1,
                      \A k \in DOMAIN ordered : ~ TooOld(ordered[k])
               PROVE  Len(delivered') = Len(delivered) + 1 /\ Last(delivered').sequence = f[1]
    BY Zenon
  <2>1. PICK g \in Fragments : AddFragment(g)
    BY DEF Next, Tick, vars
  <2>2. g = f
    BY <2>1 DEF AddFragment, StorageInv, StorageType
  <2>3. \A k \in 1 .. Len(ordered) : ~ TooOld(ordered[k])
    BY DEF StorageInv, OrderedInv, ListInv
  <2>4. PICK d : d.sequence = f[1] /\ delivered' = delivered \o <<d>>
    BY <2>1, <2>2, <2>3, LastFragment
  <2>5. delivered \in Seq(Deliveries) /\ delivered' \in Seq(Deliveries)
    <3>1. StorageInv'
      BY <2>1, AddFragmentStep
    <3> QED BY <3>1 DEF StorageInv, StorageType
  <2>6. Len(delivered') = Len(delivered) + 1 /\ delivered'[Len(delivered) + 1] = d
    BY <2>4, <2>5
  <2> QED BY <2>4, <2>6 DEF Last
<1>2. CompletionIsReturned <=> [][Returned]_vars
  BY DEF CompletionIsReturned
<1> HIDE DEF Returned
<1> QED BY <1>1, <1>2, StorageInvariant, PTL DEF Spec
-----------------------------------------------------------------------------
(* The sending end.                                                        *)

(* The instance's Max and FlattenSeq are those of the community modules.   *)
LEMMA SameMax == ASSUME NEW S PROVE Sending!Max(S) = Max(S)
BY Zenon DEF Sending!Max, Max

(* The instance has its own copy of FlattenSeq.                            *)
LEMMA SameFlatten == ASSUME NEW seqs PROVE Sending!FlattenSeq(seqs) = FlattenSeq(seqs)
BY Zenon DEF Sending!FlattenSeq, FlattenSeq

(* ends[i] records went out with the first i datagrams.                    *)
EndsOf(ends) ==
  /\ wire \in Seq(Seq(Int)) /\ ends \in [0 .. Len(wire) -> Nat]
  /\ ends[0] = 0 /\ ends[Len(wire)] = dataOffset
  /\ \A i \in 1 .. Len(wire) :
       ends[i] = ends[i - 1] + Len(wire[i]) /\ \A j \in 1 .. Len(wire[i]) : wire[i][j] = ends[i - 1] + j + (-1)

SendingInv ==
  /\ dataSize \in Nat /\ Sending!Records \in Nat /\ dataOffset \in 0 .. Sending!Records
  /\ phase \in {"send", "wait"} \/ wire # <<>> => Sending!Records \in 1 .. SendFragments
  /\ token = "SUCCESS" => phase = "over" /\ dataOffset = Sending!Records
  /\ \E ends : EndsOf(ends)

(* How far SendFragment gets.                                              *)
LEMMA FittingProperties ==
  ASSUME SendingInv, Sending!Fitting(dataOffset) # {}, NEW last, last = Max(Sending!Fitting(dataOffset))
  PROVE  last \in dataOffset .. Sending!Records - 1
<1>1. Sending!Records \in Nat /\ dataOffset \in Nat
  BY DEF SendingInv
<1>2. Sending!Fitting(dataOffset) \subseteq dataOffset .. Sending!Records - 1
  BY DEF Sending!Fitting
<1>3. Sending!Fitting(dataOffset) \subseteq 0 .. Sending!Records
  <2>1. dataOffset .. Sending!Records - 1 \subseteq 0 .. Sending!Records
    BY <1>1
  <2> QED BY <1>2, <2>1
<1>4. last \in Sending!Fitting(dataOffset)
  BY <1>1, <1>3, MaxProperties
<1> QED BY <1>2, <1>4

(* Send dispatches one more group of fragments.                            *)
LEMMA SendFragmentStep ==
  ASSUME SendingInv, Sending!SendFragment
  PROVE  SendingInv'
<1>1. /\ phase = "send" /\ dataSize' = dataSize /\ token' = token /\ Sending!Records' = Sending!Records
      /\ token # "SUCCESS"
  BY DEF Sending!SendFragment, SendingInv, Sending!Records, Sending!NumFragments, Sending!FragmentRoom
<1>2. CASE Sending!Fitting(dataOffset) = {}
  <2>1. phase' = "over" /\ dataOffset' = dataOffset /\ wire' = wire
    BY <1>2 DEF Sending!SendFragment
  <2>2. PICK ends : EndsOf(ends)
    BY DEF SendingInv
  <2>3. EndsOf(ends)'
    BY <2>1, <2>2 DEF EndsOf
  <2> QED BY <1>1, <2>1, <2>3 DEF SendingInv
<1>3. CASE Sending!Fitting(dataOffset) # {}
  <2>1. PICK last : last = Max(Sending!Fitting(dataOffset))
    OBVIOUS
  <2>2. PICK n : n = Sending!Records
    OBVIOUS
  <2>3. last \in dataOffset .. n - 1 /\ n \in 1 .. SendFragments /\ n \in Nat /\ dataOffset \in Nat
    BY <1>1, <1>3, <2>1, <2>2, FittingProperties, SendingAssumption DEF SendingInv
  <2>4. PICK datagram : datagram = [k \in 1 .. last - dataOffset + 1 |-> dataOffset + k - 1]
    OBVIOUS
  <2>5. /\ datagram \in Seq(Int) /\ Len(datagram) = last - dataOffset + 1
        /\ \A j \in 1 .. Len(datagram) : datagram[j] = dataOffset + j + (-1)
    BY <2>3, <2>4
  <2>6. wire' = Append(wire, datagram) /\ dataOffset' = last + 1 /\ phase' = "wait"
    BY <1>3, <2>1, <2>4, SameMax DEF Sending!SendFragment
  <2>7. PICK ends : EndsOf(ends)
    BY DEF SendingInv
  <2>8. PICK k \in Nat : k = Len(wire)
    BY <2>7 DEF EndsOf
  <2>9. PICK t : t = Append(wire, datagram)
    OBVIOUS
  <2>10. PICK e : e = [i \in 0 .. k + 1 |-> IF i = k + 1 THEN last + 1 ELSE ends[i]]
    OBVIOUS
  <2>11. /\ t \in Seq(Seq(Int)) /\ Len(t) = k + 1 /\ t[k + 1] = datagram /\ t # <<>>
         /\ \A i \in 1 .. k : t[i] = wire[i]
    BY <2>5, <2>7, <2>8, <2>9 DEF EndsOf
  <2>12. /\ e \in [0 .. k + 1 -> Nat] /\ e[k + 1] = last + 1
         /\ \A i \in 0 .. k : e[i] = ends[i]
    BY <2>3, <2>7, <2>8, <2>10 DEF EndsOf
  <2>13. ASSUME NEW i \in 1 .. k + 1
         PROVE  e[i] = e[i - 1] + Len(t[i]) /\ \A j \in 1 .. Len(t[i]) : t[i][j] = e[i - 1] + j + (-1)
    <3>1. CASE i = k + 1
      <4>1. i - 1 = k /\ e[i - 1] = dataOffset /\ t[i] = datagram
        BY <2>7, <2>8, <2>11, <2>12, <3>1 DEF EndsOf
      <4> QED BY <2>3, <2>5, <2>12, <3>1, <4>1
    <3>2. CASE i # k + 1
      <4>1. i \in 1 .. k /\ i \in 0 .. k /\ i - 1 \in 0 .. k
        BY <3>2
      <4>2. e[i] = ends[i] /\ e[i - 1] = ends[i - 1] /\ t[i] = wire[i]
        BY <2>11, <2>12, <4>1
      <4> QED BY <2>7, <2>8, <4>1, <4>2 DEF EndsOf
    <3> QED BY <3>1, <3>2
  <2>14. e[0] = 0
    BY <2>7, <2>8, <2>12 DEF EndsOf
  <2>15. EndsOf(e)'
    BY <2>6, <2>9, <2>11, <2>12, <2>13, <2>14 DEF EndsOf
  <2>16. dataOffset' \in 0 .. n
    BY <2>3, <2>6
  <2> QED BY <1>1, <2>2, <2>3, <2>6, <2>15, <2>16 DEF SendingInv
<1> QED BY <1>2, <1>3

(* The number of records, from the size of the message.                    *)
LEMMA RecordsProperties ==
  ASSUME dataSize \in Nat
  PROVE  Sending!Records \in Nat
<1>1. PICK room \in Nat \ {0}, size \in Nat : room = SendPayload - Overhead - HeaderSize /\ size = dataSize
  BY SendingAssumption, SizesAssumption
<1>2. PICK n : n = (size + room - 1) \div room
  OBVIOUS
<1>3. n \in Nat
  <2>1. /\ n \in Nat /\ size <= n * room
        /\ n = 0 <=> size = 0
        /\ n # 0 => (n - 1) * room < size
    BY <1>2, CeilingProperties
  <2> QED BY <2>1
<1> QED BY <1>1, <1>2, <1>3 DEF Sending!Records, Sending!NumFragments, Sending!FragmentRoom

(* Send counts on from where it stopped.                                   *)
THEOREM SendingInvariant == Sending!Spec => []SendingInv
<1>1. Sending!Init => SendingInv
  <2> SUFFICES ASSUME Sending!Init PROVE SendingInv
    OBVIOUS
  <2>1. /\ phase = "new" /\ dataSize \in Nat /\ dataOffset = 0 /\ wire = <<>> /\ token = "none"
    BY SendingAssumption DEF Sending!Init
  <2>2. Sending!Records \in Nat
    BY <2>1, RecordsProperties
  <2>3. EndsOf([i \in 0 .. 0 |-> 0])
    BY <2>1 DEF EndsOf
  <2> QED BY <2>1, <2>2, <2>3 DEF SendingInv
<1>2. SendingInv /\ [Sending!Next]_(Sending!vars) => SendingInv'
  <2> SUFFICES ASSUME SendingInv, [Sending!Next]_(Sending!vars) PROVE SendingInv'
    OBVIOUS
  <2>0. (\E ends : EndsOf(ends)) /\ (UNCHANGED <<dataOffset, wire>> => (\E ends : EndsOf(ends))')
    <3>1. PICK ends : EndsOf(ends)
      BY DEF SendingInv
    <3>2. UNCHANGED <<dataOffset, wire>> => EndsOf(ends)'
      BY <3>1 DEF EndsOf
    <3> QED BY <3>1, <3>2
  <2> USE DEF SendingInv
  <2>1. dataSize' = dataSize => Sending!Records' = Sending!Records
    BY DEF Sending!Records, Sending!NumFragments, Sending!FragmentRoom
  <2>2. CASE Sending!Send
    <3>1. /\ phase = "new" /\ UNCHANGED <<dataSize, dataOffset, wire>> /\ (token' # "SUCCESS" \/ token' = token)
          /\ phase' = "over" \/ (phase' = "send" /\ Sending!Records > 0 /\ ~ Sending!TooMany(Sending!Records))
      BY <2>2 DEF Sending!Send, Sending!Reject
    <3>2. phase' = "send" => Sending!Records \in 1 .. SendFragments
      BY <3>1, SendingAssumption DEF Sending!TooMany
    <3> QED BY <2>0, <2>1, <3>1, <3>2
  <2>3. CASE Sending!SendFragment
    BY <2>3, SendFragmentStep
  <2>4. CASE Sending!SentFailed
    BY <2>0, <2>1, <2>4 DEF Sending!SentFailed
  <2>5. CASE Sending!Sent
    BY <2>0, <2>1, <2>5 DEF Sending!Sent
  <2>6. CASE UNCHANGED Sending!vars
    BY <2>0, <2>1, <2>6 DEF Sending!vars
  <2> QED BY <2>2, <2>3, <2>4, <2>5, <2>6 DEF Sending!Next
<1> QED BY <1>1, <1>2, PTL DEF Sending!Spec

(* The count of fragments in a header is never one that wrapped.           *)
THEOREM CountsAreTrue == Sending!Spec => []CountIsTrue
<1>1. SendingInv => CountIsTrue
  <2> SUFFICES ASSUME SendingInv, wire # <<>>
               PROVE  Sending!LoadCount(Sending!StoreCount(Sending!Records)) = Sending!Records
    BY DEF CountIsTrue, Sending!CountIsTrue
  <2>1. PICK n : n = Sending!Records
    OBVIOUS
  <2>2. n \in 1 .. SendFragments /\ SendFragments \in Nat \ {0}
    BY <2>1, SendingAssumption DEF SendingInv
  <2>3. (n - 1) % SendFragments = n - 1
    BY <2>2
  <2> QED BY <2>1, <2>2, <2>3 DEF Sending!LoadCount, Sending!StoreCount
<1> QED BY <1>1, SendingInvariant, PTL

(* A message whose token says SUCCESS went out whole, once and in order.   *)
THEOREM SuccessIsTrue == Sending!Spec => []SuccessMeansAllSent
<1>1. SendingInv => SuccessMeansAllSent
  <2> SUFFICES ASSUME SendingInv, token = "SUCCESS"
               PROVE  FlattenSeq(wire) = [k \in 1 .. Sending!Records |-> k - 1]
    BY SameFlatten DEF SuccessMeansAllSent, Sending!SuccessMeansAllSent
  <2>1. PICK ends : EndsOf(ends)
    BY DEF SendingInv
  <2>2. FlattenSeq(wire) = [x \in 1 .. ends[Len(wire)] |-> x + (-1)]
    <3>1. /\ wire \in Seq(Seq(Int)) /\ ends \in [0 .. Len(wire) -> Nat] /\ ends[0] = 0 /\ (-1) \in Int
          /\ \A i \in 1 .. Len(wire) : ends[i] = ends[i - 1] + Len(wire[i])
          /\ \A i \in 1 .. Len(wire) : \A j \in 1 .. Len(wire[i]) : wire[i][j] = ends[i - 1] + j + (-1)
      BY <2>1 DEF EndsOf
    <3> QED BY <3>1, FlattenCounts, Zenon
  <2>3. ends[Len(wire)] = Sending!Records /\ Sending!Records \in Nat
    BY <2>1 DEF SendingInv, EndsOf
  <2> QED BY <2>2, <2>3
<1> QED BY <1>1, SendingInvariant, PTL
=============================================================================
