--------------------------- MODULE BulkVectorProofs ---------------------------
(***************************************************************************)
(* BulkVector: loops over a scene are exact, for any number of bulks and   *)
(* any size of them.                                                       *)
(*                                                                         *)
(* First bulks, slots and the free list as sets of addresses, then what a  *)
(* step of the Iterator passes over, then what each handler does to both.  *)
(***************************************************************************)
EXTENDS MCComponents, DataLemmas

(* The address of the first slot of a bulk.                                *)
Base(a) == a * BulkSize

(* Bulks do not overlap.                                                   *)
LEMMA BasesLieApart ==
  ASSUME BulkAssumption, NEW a \in Nat
  PROVE  /\ Base(a) \in Nat /\ Base(a + 1) = Base(a) + BulkSize /\ Base(1) = BulkSize
         /\ \A b \in Nat : a < b => Base(a) + BulkSize <= Base(b)
<1>1. BulkSize \in Nat \ {0}
  BY DEF BulkAssumption
<1>2. \A m \in Nat : m * BulkSize \in Nat
  BY <1>1
<1>3. \A m \in Nat : (m + 1) * BulkSize = m * BulkSize + BulkSize
  BY <1>1
<1>4. ASSUME NEW b \in Nat, a < b PROVE Base(a) + BulkSize <= Base(b)
  <2> DEFINE c == b - a - 1
  <2>1. c \in Nat /\ b = (a + 1) + c
    BY <1>4
  <2> HIDE DEF c
  <2>2. b * BulkSize = (a + 1) * BulkSize + c * BulkSize
    BY <1>1, <2>1
  <2>3. c * BulkSize \in Nat /\ (a + 1) * BulkSize \in Nat
    BY <1>2, <2>1
  <2> QED BY <1>2, <1>3, <2>2, <2>3 DEF Base
<1>5. 1 * BulkSize = BulkSize
  BY <1>1
<1> QED BY <1>2, <1>3, <1>4, <1>5 DEF Base

(* The slots are those of the bulks.                                       *)
SlotCount == Objects!Cardinality(Objects!Slots)

LEMMA SlotsOfBulks ==
  ASSUME BulkAssumption
  PROVE  /\ Objects!Slots \subseteq Nat \ {0}
         /\ Objects!Slots = BulkSize .. Base(MaxBulks + 1) - 1
         /\ Base(MaxBulks + 1) \in Nat /\ BulkSize \in Nat \ {0}
         /\ IsFiniteSet(Objects!Slots) /\ SlotCount \in Nat
         /\ SlotCount = Cardinality(Objects!Slots)
         /\ \A a \in 1 .. MaxBulks : /\ BulkSize <= SlotCount /\ Base(a) \in Nat \ {0}
                                     /\ \A j \in 0 .. BulkSize - 1 : Base(a) + j \in Objects!Slots
<1>1. BulkSize \in Nat \ {0} /\ MaxBulks \in Nat /\ Base(MaxBulks + 1) \in Nat
  BY BasesLieApart DEF BulkAssumption
<1>2. Objects!Slots = BulkSize .. Base(MaxBulks + 1) - 1
  BY DEF Objects!Slots, Base
<1>3. Objects!Slots \subseteq Nat \ {0}
  BY <1>1, <1>2
<1>4. IsFiniteSet(Objects!Slots) /\ Cardinality(Objects!Slots) \in Nat
  <2>1. IsFiniteSet(BulkSize .. Base(MaxBulks + 1) - 1)
    BY <1>1, FS_Interval
  <2> QED BY <1>2, <2>1, FS_CardinalityType
<1>5. SlotCount = Cardinality(Objects!Slots)
  BY Zenon DEF SlotCount, Cardinality, Objects!Cardinality, IsFiniteSet, Objects!IsFiniteSet
<1>6. ASSUME NEW a \in 1 .. MaxBulks
      PROVE  /\ Base(a) \in Nat \ {0} /\ BulkSize <= Base(a)
             /\ Base(a) + BulkSize <= Base(MaxBulks + 1)
  <2>1. /\ a \in Nat /\ Base(a) \in Nat /\ Base(a) + BulkSize <= Base(MaxBulks + 1)
    <3>1. a \in Nat /\ MaxBulks + 1 \in Nat /\ a < MaxBulks + 1
      BY <1>1
    <3> QED BY <3>1, BasesLieApart
  <2>2. Base(1) = BulkSize /\ (1 < a => Base(1) + BulkSize <= Base(a))
    BY <1>1, BasesLieApart
  <2>3. BulkSize <= Base(a)
    <3>1. CASE a = 1
      BY <1>1, <2>2, <3>1
    <3>2. CASE 1 < a
      BY <1>1, <2>1, <2>2, <3>2
    <3> QED BY <1>1, <3>1, <3>2
  <2> QED BY <1>1, <2>1, <2>3
<1>7. ASSUME NEW a \in 1 .. MaxBulks, NEW j \in 0 .. BulkSize - 1
      PROVE  Base(a) + j \in Objects!Slots
  BY <1>1, <1>2, <1>6
<1>8. ASSUME NEW a \in 1 .. MaxBulks PROVE BulkSize <= SlotCount
  <2> DEFINE T == Base(a) .. Base(a) + BulkSize - 1
  <2>1. T \subseteq Objects!Slots
    BY <1>1, <1>2, <1>6
  <2>2. IsFiniteSet(T) /\ Cardinality(T) = BulkSize
    <3>1. Base(a) \in Int /\ Base(a) + BulkSize - 1 \in Int /\ ~(Base(a) > Base(a) + BulkSize - 1)
          /\ (Base(a) + BulkSize - 1) - Base(a) + 1 = BulkSize
      BY <1>1, <1>6
    <3> QED BY <3>1, FS_Interval
  <2> QED BY <1>4, <1>5, <2>1, <2>2, FS_Subset, Zenon
<1> QED BY <1>1, <1>2, <1>3, <1>4, <1>5, <1>6, <1>7, <1>8, Zenon

-----------------------------------------------------------------------------
(* The least element of S from x on, or none.                              *)
IsFrom(m, S, x) ==
  \/ m \in S /\ x <= m /\ \A u \in S : x <= u => m <= u
  \/ m = 0 /\ \A u \in S : u < x

From(S, x) == CHOOSE m \in S \cup {0} : IsFrom(m, S, x)

(* There is one, and only one.                                             *)
LEMMA FromProperties ==
  ASSUME BulkAssumption, NEW S, S \subseteq Objects!Slots, NEW x \in Nat
  PROVE  IsFrom(From(S, x), S, x) /\ From(S, x) \in S \cup {0} /\ From(S, x) \in Nat
<1>1. S \subseteq Nat
  BY SlotsOfBulks
<1>2. \E m \in S \cup {0} : IsFrom(m, S, x)
  <2> DEFINE T == {u \in S : x <= u}
  <2>1. CASE T = {}
    BY <1>1, <2>1 DEF IsFrom
  <2>2. CASE T # {}
    <3>1. T \subseteq 0 .. Base(MaxBulks + 1) /\ Base(MaxBulks + 1) \in Nat
      BY SlotsOfBulks
    <3> HIDE DEF T
    <3>2. PICK m \in T : \A u \in T : m <= u
      BY <2>2, <3>1, MinExists, Zenon
    <3> QED BY <3>2 DEF IsFrom, T
  <2> QED BY <2>1, <2>2
<1>3. From(S, x) \in S \cup {0} /\ IsFrom(From(S, x), S, x)
  <2> HIDE DEF IsFrom
  <2> QED BY <1>2 DEF From
<1>4. \A m \in S \cup {0} : m \in Nat
  BY <1>1
<1> QED BY <1>3, <1>4

LEMMA FromIsTheLeast ==
  ASSUME BulkAssumption, NEW S, S \subseteq Objects!Slots, NEW x \in Nat, NEW m, IsFrom(m, S, x)
  PROVE  From(S, x) = m
<1>1. S \subseteq Nat \ {0}
  BY SlotsOfBulks
<1>2. IsFrom(From(S, x), S, x)
  BY FromProperties
<1> DEFINE f == From(S, x)
<1> HIDE DEF f
<1>3. IsFrom(f, S, x)
  BY <1>2 DEF f
<1>4. f \in Nat /\ m \in Nat
  <2>1. \A u \in S : u \in Nat
    BY <1>1
  <2>2. f \in S \/ f = 0
    BY <1>3 DEF IsFrom
  <2>3. m \in S \/ m = 0
    BY DEF IsFrom
  <2> QED BY <2>1, <2>2, <2>3
<1>5. f = m
  <2>1. CASE f = 0
    BY <1>1, <1>3, <1>4, <2>1 DEF IsFrom
  <2>2. CASE m = 0
    BY <1>1, <1>3, <1>4, <2>2 DEF IsFrom
  <2>3. CASE f # 0 /\ m # 0
    <3>1. f \in S /\ m \in S /\ f <= m /\ m <= f
      BY <1>3, <2>3 DEF IsFrom
    <3> QED BY <1>4, <3>1
  <2> QED BY <2>1, <2>2, <2>3
<1> QED BY <1>5 DEF f

(* Sets that agree from there on have the same least element.              *)
LEMMA FromAgrees ==
  ASSUME BulkAssumption, NEW S, S \subseteq Objects!Slots, NEW T, T \subseteq Objects!Slots,
         NEW x \in Nat, NEW y \in Nat,
         \A u \in Objects!Slots : (u \in S /\ x <= u) <=> (u \in T /\ y <= u)
  PROVE  From(S, x) = From(T, y)
<1>1. Objects!Slots \subseteq Nat \ {0}
  BY SlotsOfBulks
<1>2. IsFrom(From(S, x), S, x)
  BY FromProperties
<1> DEFINE f == From(S, x)
<1> HIDE DEF f
<1>3. IsFrom(f, S, x)
  BY <1>2 DEF f
<1>4. IsFrom(f, T, y)
  <2>1. CASE f = 0 /\ \A u \in S : u < x
    <3>1. ASSUME NEW u \in T PROVE u < y
      <4>1. u \in Objects!Slots /\ u \in Nat /\ (u \in S => ~(x <= u))
        BY <1>1, <2>1
      <4> QED BY <4>1
    <3> QED BY <2>1, <3>1 DEF IsFrom
  <2>2. CASE f \in S /\ x <= f /\ \A u \in S : x <= u => f <= u
    <3>1. f \in T /\ y <= f
      BY <2>2
    <3>2. \A u \in T : y <= u => f <= u
      BY <2>2
    <3> QED BY <3>1, <3>2 DEF IsFrom
  <2> QED BY <1>3, <2>1, <2>2 DEF IsFrom
<1>5. From(T, y) = f
  BY <1>4, FromIsTheLeast
<1> QED BY <1>5 DEF f

-----------------------------------------------------------------------------
(* The items of a free list are the slots of F in their order.             *)
Links == [Objects!Slots -> Objects!Slots \cup {0}]

LinkedAs(lk, F) == \A s \in F : lk[s] = From(F, s + 1)

(* The items that Chain counts.                                            *)
LEMMA ChainSteps ==
  ASSUME BulkAssumption, NEW item \in Objects!Slots \cup {0}, NEW lk \in Links
  PROVE  LET nth == Objects!Chain(item, lk)
         IN  /\ nth[0] = item
             /\ \A n \in 0 .. SlotCount : nth[n] \in Objects!Slots \cup {0}
             /\ \A n \in 1 .. SlotCount :
                  nth[n] = IF nth[n - 1] = 0 THEN 0 ELSE lk[nth[n - 1]]
<1> DEFINE K == SlotCount
           D == Objects!Slots \cup {0}
           to(s) == IF s = 0 THEN 0 ELSE lk[s]
           step == [n \in 1 .. K |-> [s \in D |-> to(s)]]
           Follows(f) == f = [n \in 0 .. K |->
                                IF n = 0 THEN item
                                ELSE IF f[n - 1] = Objects!NULL THEN Objects!NULL
                                ELSE lk[f[n - 1]]]
           nth == CHOOSE f : Follows(f)
<1>1. K \in Nat /\ Objects!NULL = 0
  BY SlotsOfBulks DEF Objects!NULL
<1>2. \A s \in D : to(s) \in D
  BY DEF Links
<1>3. /\ \A n \in 1 .. K : \A s \in D : step[n][s] = to(s)
      /\ \A n \in 1 .. K : \A s \in D : step[n][s] \in D
  BY <1>2
<1> HIDE DEF step, K
<1>4. \E f : Follows(f)
  <2>1. PICK f : Iterates(f, K, item, step) /\ \A n \in 0 .. K : f[n] \in D
    <3>1. item \in D /\ K \in Nat
      BY <1>1
    <3> HIDE DEF D
    <3> QED BY <1>3, <3>1, IterationExists, Zenon
  <2>2. ASSUME NEW n \in 0 .. K, n # 0
        PROVE  f[n] = IF f[n - 1] = Objects!NULL THEN Objects!NULL ELSE lk[f[n - 1]]
    <3>1. n \in 1 .. K /\ n - 1 \in 0 .. K
      BY <1>1, <2>2
    <3>2. f[n] = to(f[n - 1])
      BY <1>3, <2>1, <3>1 DEF Iterates
    <3> QED BY <1>1, <3>2
  <2>3. Follows(f)
    BY <2>1, <2>2 DEF Iterates
  <2> HIDE DEF Follows
  <2> QED BY <2>3
<1>5. Follows(nth)
  <2> HIDE DEF Follows
  <2> QED BY <1>4, Zenon
<1>6. Objects!Chain(item, lk) = nth
  BY DEF Objects!Chain, K, SlotCount
<1> HIDE DEF nth
<1>7. nth[0] = item /\ \A n \in 1 .. K : nth[n] = to(nth[n - 1])
  BY <1>1, <1>5
<1>8. ASSUME NEW m \in 0 .. K PROVE nth[m] \in D
  <2> DEFINE E == [n \in 0 .. K |-> D]
  <2>1. m \in Nat /\ \A n \in 1 .. m : n \in 1 .. K /\ n - 1 \in 0 .. K /\ n \in 0 .. K
    BY <1>1
  <2>2. \A n \in 1 .. m : nth[n - 1] \in E[n - 1] => nth[n] \in E[n]
    <3> HIDE DEF to, D
    <3> QED BY <1>2, <1>7, <2>1
  <2>3. nth[0] \in E[0]
    BY <1>1, <1>7
  <2> HIDE DEF E
  <2>4. nth[m] \in E[m]
    BY <2>1, <2>2, <2>3, IterationKeeps
  <2> QED BY <2>4 DEF E
<1> QED BY <1>6, <1>7, <1>8 DEF K

(* From the least slot of F on, the chain stays in F ...                   *)
LEMMA ChainStays ==
  ASSUME BulkAssumption, NEW F, F \subseteq Objects!Slots, NEW item \in F \cup {0},
         NEW lk \in Links, \A s \in F : lk[s] \in F \cup {0}
  PROVE  Objects!Items(item, lk) \subseteq F
<1> DEFINE nth == Objects!Chain(item, lk)
           E == [n \in 0 .. SlotCount |-> F \cup {0}]
<1>1. SlotCount \in Nat /\ item \in Objects!Slots \cup {0}
  BY SlotsOfBulks
<1>2. /\ nth[0] = item
      /\ \A n \in 1 .. SlotCount : nth[n] = IF nth[n - 1] = 0 THEN 0 ELSE lk[nth[n - 1]]
  BY <1>1, ChainSteps
<1> HIDE DEF nth
<1>3. ASSUME NEW m \in 0 .. SlotCount PROVE nth[m] \in F \cup {0}
  <2>1. m \in Nat /\ \A n \in 1 .. m : n \in 1 .. SlotCount /\ n - 1 \in 0 .. SlotCount
    BY <1>1
  <2>2. \A n \in 0 .. SlotCount : E[n] = F \cup {0}
    OBVIOUS
  <2> HIDE DEF E
  <2>3. ASSUME NEW n \in 1 .. m, nth[n - 1] \in E[n - 1] PROVE nth[n] \in E[n]
    <3>1. n \in 1 .. SlotCount /\ n - 1 \in 0 .. SlotCount /\ n \in 0 .. SlotCount
      BY <2>1
    <3>2. nth[n - 1] \in F \cup {0}
      BY <2>2, <2>3, <3>1
    <3>3. nth[n] \in F \cup {0}
      BY <1>2, <3>1, <3>2
    <3> QED BY <2>2, <3>1, <3>3
  <2>4. 0 \in 0 .. SlotCount /\ m \in 0 .. SlotCount
    BY <1>1
  <2>5. nth[0] \in E[0]
    BY <1>2, <2>2, <2>4
  <2>6. nth[m] \in E[m]
    BY <2>1, <2>3, <2>5, IterationKeeps
  <2> QED BY <2>2, <2>4, <2>6
<1>4. Objects!Items(item, lk) = {nth[n] : n \in 0 .. SlotCount} \ {0}
  BY Zenon DEF Objects!Items, Objects!NULL, nth, SlotCount
<1> QED BY <1>3, <1>4

(* ... runs through consecutive slots one by one ...                       *)
LEMMA ChainRuns ==
  ASSUME BulkAssumption, NEW F, F \subseteq Objects!Slots, NEW lk \in Links, LinkedAs(lk, F),
         NEW x \in Nat, NEW m \in 0 .. SlotCount, \A j \in 0 .. m - 1 : x + j \in F
  PROVE  Objects!Chain(From(F, x), lk)[m] = From(F, x + m)
<1> DEFINE item == From(F, x)
           nth == Objects!Chain(item, lk)
           to(n) == From(F, x + n)
           E == [n \in 0 .. SlotCount |-> {to(n)}]
<1>1. /\ SlotCount \in Nat /\ Objects!Slots \subseteq Nat \ {0}
      /\ item \in Objects!Slots \cup {0}
  BY SlotsOfBulks, FromProperties
<1> HIDE DEF item
<1>2. /\ nth[0] = item
      /\ \A n \in 1 .. SlotCount : nth[n] = IF nth[n - 1] = 0 THEN 0 ELSE lk[nth[n - 1]]
  BY <1>1, ChainSteps
<1> HIDE DEF nth
<1>3. to(0) = item
  <2>1. x + 0 = x
    OBVIOUS
  <2> QED BY <2>1, Zenon DEF item
<1>4. ASSUME NEW n \in 1 .. m PROVE to(n - 1) # 0 /\ lk[to(n - 1)] = to(n)
  <2>1. n - 1 \in 0 .. m - 1 /\ x + (n - 1) \in Nat /\ (x + (n - 1)) + 1 = x + n
    BY <1>1
  <2> DEFINE s == x + (n - 1)
  <2>2. s \in F /\ s \in Nat /\ s # 0
    BY <1>1, <2>1
  <2> HIDE DEF s
  <2>3. IsFrom(s, F, s)
    BY <2>2 DEF IsFrom
  <2>4. From(F, s) = s
    BY <2>2, <2>3, FromIsTheLeast, Zenon
  <2>5. lk[s] = From(F, s + 1)
    BY <2>2 DEF LinkedAs
  <2>6. s + 1 = x + n /\ to(n - 1) = From(F, s)
    BY <2>1 DEF s
  <2> QED BY <2>2, <2>4, <2>5, <2>6, Zenon
<1>5. \A n \in 0 .. SlotCount : E[n] = {to(n)}
  OBVIOUS
<1> HIDE DEF E, to
<1>6. m \in Nat /\ m \in 0 .. SlotCount /\ 0 \in 0 .. SlotCount
  BY <1>1
<1>7. nth[0] \in E[0]
  BY <1>2, <1>3, <1>5, <1>6
<1>8. ASSUME NEW n \in 1 .. m, nth[n - 1] \in E[n - 1] PROVE nth[n] \in E[n]
  <2>1. n \in 1 .. SlotCount /\ n - 1 \in 0 .. SlotCount /\ n \in 0 .. SlotCount
    BY <1>1
  <2>2. nth[n - 1] = to(n - 1)
    BY <1>5, <1>8, <2>1
  <2>3. nth[n] = to(n)
    BY <1>2, <1>4, <2>1, <2>2
  <2> QED BY <1>5, <2>1, <2>3
<1>9. nth[m] \in E[m]
  BY <1>6, <1>7, <1>8, IterationKeeps
<1>10. nth[m] = to(m)
  BY <1>5, <1>6, <1>9
<1> QED BY <1>10 DEF nth, item, to

(* ... and reaches all of it.                                              *)
Rank(F, s) == Cardinality({t \in F : t < s})

(* Of two slots in order the one has a rank more.                          *)
LEMMA RankSteps ==
  ASSUME BulkAssumption, NEW F, F \subseteq Objects!Slots, NEW s \in F
  PROVE  /\ Rank(F, s) \in 0 .. SlotCount
         /\ Rank(F, s) = 0 => From(F, 0) = s
         /\ Rank(F, s) # 0 => \E p \in F : Rank(F, p) = Rank(F, s) - 1 /\ From(F, p + 1) = s
<1>1. /\ SlotCount \in Nat /\ Objects!Slots \subseteq Nat \ {0} /\ IsFiniteSet(Objects!Slots)
      /\ SlotCount = Cardinality(Objects!Slots) /\ Base(MaxBulks + 1) \in Nat
      /\ Objects!Slots \subseteq 0 .. Base(MaxBulks + 1)
  BY SlotsOfBulks
<1>2. \A u \in F : u \in Nat /\ u # 0
  BY <1>1
<1> DEFINE B == {t \in F : t < s}
<1>3. IsFiniteSet(B) /\ Cardinality(B) \in Nat /\ Cardinality(B) <= SlotCount
  <2>1. B \subseteq Objects!Slots
    OBVIOUS
  <2> HIDE DEF B
  <2> QED BY <1>1, <2>1, FS_Subset, FS_CardinalityType, Zenon
<1>4. Rank(F, s) = Cardinality(B)
  BY DEF Rank
<1>5. ASSUME Rank(F, s) = 0 PROVE From(F, 0) = s
  <2>1. B = {}
    <3> HIDE DEF B
    <3> QED BY <1>3, <1>4, <1>5, FS_EmptySet, Zenon
  <2>2. \A u \in F : s <= u
    BY <1>2, <2>1
  <2>3. IsFrom(s, F, 0)
    BY <1>2, <2>2 DEF IsFrom
  <2> QED BY <2>3, FromIsTheLeast
<1>6. ASSUME Rank(F, s) # 0
      PROVE  \E p \in F : Rank(F, p) = Rank(F, s) - 1 /\ From(F, p + 1) = s
  <2>1. B # {}
    <3> HIDE DEF B
    <3> QED BY <1>4, <1>6, FS_EmptySet
  <2>2. B \subseteq 0 .. Base(MaxBulks + 1)
    BY <1>1, Zenon
  <2>3. PICK p \in B : \A t \in B : t <= p
    <3> HIDE DEF B
    <3> QED BY <1>1, <2>1, <2>2, MaxExists, Zenon
  <2>4. p \in F /\ p \in Nat /\ p < s /\ p + 1 \in Nat
    BY <1>2
  <2> DEFINE A == {t \in F : t < p}
  <2>5. B = A \cup {p} /\ p \notin A
    <3>1. ASSUME NEW t \in B PROVE t \in A \cup {p}
      BY <1>2, <2>3, <2>4
    <3>2. ASSUME NEW t \in A PROVE t \in B
      BY <1>2, <2>4
    <3>3. p \in B /\ p \notin A
      BY <2>4
    <3> HIDE DEF B
    <3>4. A \subseteq B
      BY <3>2
    <3> HIDE DEF A
    <3> QED BY <3>1, <3>3, <3>4
  <2>6. Cardinality(B) = Cardinality(A) + 1 /\ Cardinality(A) \in Nat
    <3>1. IsFiniteSet(A)
      BY <1>3, <2>5, FS_Subset
    <3> HIDE DEF A, B
    <3> QED BY <2>5, <3>1, FS_AddElement, FS_CardinalityType, Zenon
  <2>7. Rank(F, p) = Rank(F, s) - 1
    <3>1. Rank(F, p) = Cardinality(A)
      BY DEF Rank
    <3> HIDE DEF A, B
    <3> QED BY <1>4, <2>6, <3>1
  <2>8. \A u \in F : p + 1 <= u => s <= u
    <3> SUFFICES ASSUME NEW u \in F, p + 1 <= u, ~(s <= u) PROVE FALSE
      OBVIOUS
    <3>1. u \in Nat /\ s \in Nat
      BY <1>2
    <3>2. u < s
      BY <3>1
    <3>3. u <= p
      BY <2>3, <3>2
    <3> QED BY <2>4, <3>1, <3>3
  <2>9. IsFrom(s, F, p + 1)
    BY <1>2, <2>4, <2>8 DEF IsFrom
  <2>10. From(F, p + 1) = s
    BY <2>4, <2>9, FromIsTheLeast, Zenon
  <2> QED BY <2>4, <2>7, <2>10
<1> HIDE DEF B
<1> QED BY <1>1, <1>3, <1>4, <1>5, <1>6

LEMMA ChainReaches ==
  ASSUME BulkAssumption, NEW F, F \subseteq Objects!Slots, NEW lk \in Links, LinkedAs(lk, F)
  PROVE  F \subseteq Objects!Items(From(F, 0), lk)
<1> DEFINE item == From(F, 0)
           nth == Objects!Chain(item, lk)
           T == {n \in Nat : \A s \in F : Rank(F, s) = n => nth[n] = s}
<1>1. /\ SlotCount \in Nat /\ item \in Objects!Slots \cup {0}
      /\ \A s \in F : s # 0
  BY SlotsOfBulks, FromProperties
<1> HIDE DEF item
<1>2. /\ nth[0] = item
      /\ \A n \in 1 .. SlotCount : nth[n] = IF nth[n - 1] = 0 THEN 0 ELSE lk[nth[n - 1]]
  BY <1>1, ChainSteps
<1> HIDE DEF nth
<1>3. 0 \in T
  BY <1>2, RankSteps DEF item
<1>4. ASSUME NEW n \in Nat, n \in T PROVE n + 1 \in T
  <2> SUFFICES ASSUME NEW s \in F, Rank(F, s) = n + 1 PROVE nth[n + 1] = s
    OBVIOUS
  <2>1. Rank(F, s) \in 0 .. SlotCount /\ Rank(F, s) # 0
    <3>1. n + 1 # 0
      OBVIOUS
    <3>2. Rank(F, s) \in 0 .. SlotCount
      BY RankSteps, Zenon
    <3> QED BY <3>1, <3>2
  <2>2. PICK p \in F : Rank(F, p) = Rank(F, s) - 1 /\ From(F, p + 1) = s
    BY <2>1, RankSteps
  <2>3. Rank(F, p) = n /\ n + 1 \in 1 .. SlotCount /\ (n + 1) - 1 = n
    BY <1>1, <2>1, <2>2
  <2>4. nth[n] = p /\ p # 0
    BY <1>1, <1>4, <2>3
  <2>5. nth[n + 1] = lk[p]
    BY <1>2, <2>3, <2>4
  <2> QED BY <2>2, <2>5 DEF LinkedAs
<1>5. \A n \in Nat : n \in T
  <2> HIDE DEF T
  <2> QED BY <1>3, <1>4, SetInduction
<1>6. ASSUME NEW s \in F PROVE \E n \in 0 .. SlotCount : nth[n] = s
  <2>1. Rank(F, s) \in 0 .. SlotCount
    BY RankSteps, Zenon
  <2>2. Rank(F, s) \in T
    BY <1>1, <1>5, <2>1
  <2> QED BY <2>1, <2>2
<1>7. Objects!Items(item, lk) = {nth[n] : n \in 0 .. SlotCount} \ {0}
  BY Zenon DEF Objects!Items, Objects!NULL, nth, SlotCount
<1>8. F \subseteq Objects!Items(item, lk)
  BY <1>1, <1>6, <1>7
<1> QED BY <1>8 DEF item

-----------------------------------------------------------------------------
(* TrySetIndex, with whatever list: it stays in the bulk.                  *)
BulkRecords == [address : 1 .. MaxBulks, used : 1 .. BulkSize]

Skipped(bulk, ix, free, lk) ==
  {k \in 0 .. BulkSize - ix :
     \A j \in 0 .. k - 1 : Base(bulk.address) + (ix + j) = Objects!Chain(free, lk)[j]}

LEMMA TrySetIndexStays ==
  ASSUME BulkAssumption, NEW bulk \in BulkRecords, NEW ix \in 0 .. BulkSize,
         NEW free \in Objects!Slots \cup {0}, NEW lk \in Links
  PROVE  LET r == Objects!TrySetIndex(bulk, ix, free, lk)
             n == Max(Skipped(bulk, ix, free, lk))
         IN  /\ n \in Skipped(bulk, ix, free, lk)
             /\ \A k \in Skipped(bulk, ix, free, lk) : k <= n
             /\ r = [found |-> ix + n < bulk.used, bulk |-> bulk.address,
                     index |-> ix + n, free |-> Objects!Chain(free, lk)[n]]
             /\ r.bulk = bulk.address /\ r.free \in Objects!Slots \cup {0}
             /\ r.index = ix + n /\ r.free = Objects!Chain(free, lk)[n]
             /\ r.found <=> ix + n < bulk.used
             /\ n \in 0 .. SlotCount /\ ix + n \in 0 .. BulkSize
<1> DEFINE nth == Objects!Chain(free, lk)
           S == Skipped(bulk, ix, free, lk)
           n == Max(S)
           r == Objects!TrySetIndex(bulk, ix, free, lk)
<1>1. /\ BulkSize \in Nat \ {0} /\ bulk.address \in 1 .. MaxBulks /\ bulk.used \in 1 .. BulkSize
      /\ SlotCount \in Nat /\ BulkSize <= SlotCount
  <2>1. bulk.address \in 1 .. MaxBulks /\ bulk.used \in 1 .. BulkSize
    BY DEF BulkRecords
  <2> QED BY <2>1, SlotsOfBulks
<1>2. n \in S /\ \A k \in S : k <= n
  <2>1. S \subseteq 0 .. BulkSize
    BY <1>1 DEF Skipped
  <2>2. 0 \in S
    <3>1. 0 \in 0 .. BulkSize - ix /\ 0 .. 0 - 1 = {}
      BY <1>1
    <3> QED BY <3>1 DEF Skipped
  <2> HIDE DEF S
  <2> QED BY <1>1, <2>1, <2>2, MaxProperties, Zenon
<1>3. r = [found |-> ix + n < bulk.used, bulk |-> bulk.address,
           index |-> ix + n, free |-> nth[n]]
  <2>1. \A j : Objects!Slot(bulk, ix + j) = Base(bulk.address) + (ix + j)
    BY DEF Objects!Slot, Base
  <2>2. S = {k \in 0 .. BulkSize - ix :
               \A j \in 0 .. k - 1 : Objects!Slot(bulk, ix + j) = nth[j]}
    <3> HIDE DEF nth
    <3>1. ASSUME NEW k
          PROVE  (\A j \in 0 .. k - 1 : Base(bulk.address) + (ix + j) = nth[j])
                 <=> \A j \in 0 .. k - 1 : Objects!Slot(bulk, ix + j) = nth[j]
      BY <2>1, Zenon
    <3>2. S = {k \in 0 .. BulkSize - ix :
                 \A j \in 0 .. k - 1 : Base(bulk.address) + (ix + j) = nth[j]}
      BY Zenon DEF Skipped, nth
    <3> QED BY <3>1, <3>2, Zenon
  <2>3. Objects!Max(S) = Max(S)
    BY Zenon DEF Objects!Max, Max
  <2> HIDE DEF S
  <2> QED BY <2>2, <2>3, Zenon DEF Objects!TrySetIndex
<1>4. n \in 0 .. SlotCount /\ ix + n \in 0 .. BulkSize
  <2>1. n \in 0 .. BulkSize - ix
    BY <1>2 DEF Skipped
  <2> HIDE DEF n
  <2> QED BY <1>1, <2>1
<1>5. nth[n] \in Objects!Slots \cup {0}
  <2> HIDE DEF n
  <2> QED BY <1>4, ChainSteps
<1> HIDE DEF n, S, nth
<1>6. /\ r.bulk = bulk.address /\ r.index = ix + n /\ r.free = nth[n]
      /\ r.found <=> ix + n < bulk.used
  <2> DEFINE b == ix + n < bulk.used
  <2> HIDE DEF r, b
  <2>1. r = [found |-> b, bulk |-> bulk.address, index |-> ix + n, free |-> nth[n]]
    BY <1>3, Zenon DEF r, b
  <2>2. r.bulk = bulk.address /\ r.index = ix + n /\ r.free = nth[n] /\ r.found = b
    BY <2>1
  <2> QED BY <2>2, Zenon DEF r, b
<1> QED BY <1>2, <1>3, <1>4, <1>5, <1>6, Zenon DEF n, S, nth

(* With the list as the Iterator expects it: past what is free.            *)
LEMMA TrySetIndexFinds ==
  ASSUME BulkAssumption, NEW bulk \in BulkRecords, NEW ix \in 0 .. bulk.used,
         NEW F, F \subseteq Objects!Slots, NEW lk \in Links, LinkedAs(lk, F),
         \A j \in bulk.used .. BulkSize - 1 : Base(bulk.address) + j \notin F
  PROVE  LET base == Base(bulk.address)
             r    == Objects!TrySetIndex(bulk, ix, From(F, base + ix), lk)
         IN  IF r.found
             THEN /\ r.index \in ix .. bulk.used - 1 /\ base + r.index \notin F
                  /\ \A j \in ix .. r.index - 1 : base + j \in F
                  /\ r.free = From(F, base + r.index + 1)
             ELSE /\ \A j \in ix .. bulk.used - 1 : base + j \in F
                  /\ r.free = From(F, base + BulkSize)
<1> DEFINE base == Base(bulk.address)
           free == From(F, base + ix)
           nth == Objects!Chain(free, lk)
           S == Skipped(bulk, ix, free, lk)
           n == Max(S)
           r == Objects!TrySetIndex(bulk, ix, free, lk)
<1>1. /\ BulkSize \in Nat \ {0} /\ bulk.address \in 1 .. MaxBulks /\ bulk.used \in 1 .. BulkSize
      /\ base \in Nat \ {0} /\ SlotCount \in Nat /\ BulkSize <= SlotCount
      /\ Objects!Slots \subseteq Nat \ {0}
  <2>1. bulk.address \in 1 .. MaxBulks /\ bulk.used \in 1 .. BulkSize
    BY DEF BulkRecords
  <2> QED BY <2>1, SlotsOfBulks, Zenon
<1> HIDE DEF base
<1>2. ix \in 0 .. BulkSize /\ base + ix \in Nat
  BY <1>1
<1>3. free \in Objects!Slots \cup {0}
  BY <1>2, FromProperties
<1>4. /\ n \in S /\ \A k \in S : k <= n
      /\ r.index = ix + n /\ r.free = nth[n]
      /\ r.found <=> ix + n < bulk.used
      /\ n \in 0 .. SlotCount /\ ix + n \in 0 .. BulkSize
  <2> HIDE DEF free
  <2> QED BY <1>2, <1>3, TrySetIndexStays
<1>5. S = {k \in 0 .. BulkSize - ix : \A j \in 0 .. k - 1 : base + (ix + j) = nth[j]}
  BY Zenon DEF Skipped, base
<1>6. ASSUME NEW k \in 0 .. BulkSize - ix, \A j \in 0 .. k - 1 : (base + ix) + j \in F
      PROVE  nth[k] = From(F, (base + ix) + k)
  <2>1. k \in 0 .. SlotCount
    BY <1>1
  <2> QED BY <1>2, <1>6, <2>1, ChainRuns, Zenon
<1> HIDE DEF nth, free, r
<1>7. \A s \in F : From(F, s) = s
  <2> TAKE s \in F
  <2>1. s \in Nat /\ IsFrom(s, F, s)
    BY <1>1 DEF IsFrom
  <2> QED BY <2>1, FromIsTheLeast, Zenon
<1>8. \A k \in 0 .. BulkSize - ix :
        (\A j \in 0 .. k - 1 : (base + ix) + j \in F) => k \in S
  <2> SUFFICES ASSUME NEW k \in 0 .. BulkSize - ix,
                      \A j \in 0 .. k - 1 : (base + ix) + j \in F
               PROVE  \A j \in 0 .. k - 1 : base + (ix + j) = nth[j]
    BY <1>5, Zenon
  <2> TAKE j \in 0 .. k - 1
  <2>1. /\ j \in 0 .. BulkSize - ix /\ base + (ix + j) = (base + ix) + j
        /\ \A i \in 0 .. j - 1 : i \in 0 .. k - 1
    BY <1>1
  <2>2. nth[j] = From(F, (base + ix) + j)
    BY <1>6, <2>1
  <2>3. (base + ix) + j \in F
    OBVIOUS
  <2> QED BY <1>7, <2>1, <2>2, <2>3
<1>9. ASSUME NEW k \in S PROVE \A j \in 0 .. k - 1 : (base + ix) + j \in F
  <2> DEFINE T == {m \in Nat : m <= k => \A j \in 0 .. m - 1 : (base + ix) + j \in F}
  <2>1. k \in 0 .. BulkSize - ix /\ \A j \in 0 .. k - 1 : base + (ix + j) = nth[j]
    BY <1>5
  <2>2. 0 \in T
    OBVIOUS
  <2>3. ASSUME NEW m \in Nat, m \in T PROVE m + 1 \in T
    <3> SUFFICES ASSUME m + 1 <= k PROVE \A j \in 0 .. m : (base + ix) + j \in F
      OBVIOUS
    <3>1. /\ m <= k /\ m \in 0 .. k - 1 /\ m \in 0 .. BulkSize - ix
          /\ \A j \in 0 .. m : j = m \/ j \in 0 .. m - 1
      BY <1>1, <2>1
    <3>2. \A j \in 0 .. m - 1 : (base + ix) + j \in F
      BY <2>3, <3>1
    <3>3. nth[m] = From(F, (base + ix) + m) /\ nth[m] = base + (ix + m)
      BY <1>6, <2>1, <3>1, <3>2
    <3>4. (base + ix) + m \in Nat \ {0} /\ base + (ix + m) = (base + ix) + m
      BY <1>1
    <3>5. From(F, (base + ix) + m) \in F \cup {0}
      BY <3>4, FromProperties
    <3>6. (base + ix) + m \in F
      BY <3>3, <3>4, <3>5
    <3> QED BY <3>1, <3>2, <3>6
  <2>4. k \in Nat
    BY <1>1, <2>1
  <2>5. k \in T
    <3> HIDE DEF T
    <3> QED BY <2>2, <2>3, <2>4, SetInduction
  <2> QED BY <2>4, <2>5
<1> HIDE DEF S
<1>10. n \in 0 .. BulkSize - ix /\ n \in Nat
  BY <1>1, <1>4, <1>5
<1> HIDE DEF n
<1>11. \A j \in 0 .. n - 1 : (base + ix) + j \in F
  BY <1>4, <1>9
<1>12. \A j \in ix .. ix + n - 1 : base + j \in F
  <2> TAKE j \in ix .. ix + n - 1
  <2>1. j - ix \in 0 .. n - 1 /\ (base + ix) + (j - ix) = base + j
    BY <1>1, <1>10
  <2> QED BY <1>11, <2>1
<1>13. nth[n] = From(F, (base + ix) + n)
  BY <1>6, <1>10, <1>11
<1>14. (base + ix) + n = base + r.index /\ r.index = ix + n /\ r.index \in 0 .. BulkSize
  BY <1>1, <1>4, <1>10
<1>15. CASE r.found
  <2>1. r.index \in ix .. bulk.used - 1
    BY <1>1, <1>4, <1>10, <1>15
  <2>2. base + r.index \notin F
    <3> SUFFICES ASSUME base + r.index \in F PROVE FALSE
      OBVIOUS
    <3>1. n + 1 \in 0 .. BulkSize - ix
      BY <1>1, <1>4, <1>10, <2>1
    <3>2. \A j \in 0 .. (n + 1) - 1 : (base + ix) + j \in F
      <4>1. \A j \in 0 .. (n + 1) - 1 : j = n \/ j \in 0 .. n - 1
        BY <1>10
      <4> QED BY <1>11, <1>14, <4>1
    <3>3. n + 1 \in S
      BY <1>8, <3>1, <3>2
    <3>4. n + 1 <= n
      BY <1>4, <3>3
    <3> QED BY <1>10, <3>4
  <2>3. r.free = From(F, base + r.index + 1)
    <3>1. r.free = From(F, base + r.index)
      BY <1>4, <1>13, <1>14
    <3>2. From(F, base + r.index) = From(F, base + r.index + 1)
      <4> DEFINE x == base + r.index
      <4>1. x \in Nat /\ x + 1 \in Nat /\ x \notin F
        BY <1>1, <1>14, <2>2
      <4> HIDE DEF x
      <4>2. \A u \in Objects!Slots : (u \in F /\ x <= u) <=> (u \in F /\ x + 1 <= u)
        <5> TAKE u \in Objects!Slots
        <5>1. u \in Nat /\ (u = x => u \notin F)
          BY <1>1, <4>1
        <5> QED BY <4>1, <5>1
      <4>3. From(F, x) = From(F, x + 1)
        BY <4>1, <4>2, FromAgrees
      <4> QED BY <4>3 DEF x
    <3> QED BY <3>1, <3>2
  <2>4. \A j \in ix .. r.index - 1 : base + j \in F
    BY <1>4, <1>12
  <2> QED BY <1>15, <2>1, <2>2, <2>3, <2>4 DEF base, r, free
<1>16. CASE ~r.found
  <2>1. ~(ix + n < bulk.used)
    BY <1>4, <1>16
  <2>2. \A j \in ix .. bulk.used - 1 : base + j \in F
    <3> TAKE j \in ix .. bulk.used - 1
    <3>1. j \in ix .. ix + n - 1
      BY <1>1, <1>10, <2>1
    <3> QED BY <1>12, <3>1
  <2>3. r.free = From(F, base + BulkSize)
    <3> DEFINE x == base + r.index
    <3>1. x \in Nat /\ base + BulkSize \in Nat /\ x <= base + BulkSize
          /\ base + bulk.used <= x
      BY <1>1, <1>4, <1>10, <1>14, <2>1
    <3>2. ASSUME NEW u \in F, x <= u PROVE base + BulkSize <= u
      <4> SUFFICES ASSUME ~(base + BulkSize <= u) PROVE FALSE
        OBVIOUS
      <4>1. u \in Nat
        BY <1>1
      <4> HIDE DEF x
      <4>2. u - base \in bulk.used .. BulkSize - 1 /\ base + (u - base) = u
        BY <1>1, <3>1, <3>2, <4>1
      <4> QED BY <4>2 DEF base
    <3> HIDE DEF x
    <3>3. \A u \in Objects!Slots : (u \in F /\ x <= u) <=> (u \in F /\ base + BulkSize <= u)
      <4> TAKE u \in Objects!Slots
      <4>1. u \in Nat
        BY <1>1
      <4> QED BY <1>1, <3>1, <3>2, <4>1
    <3>4. From(F, x) = From(F, base + BulkSize)
      BY <3>1, <3>3, FromAgrees
    <3>5. r.free = From(F, x)
      BY <1>4, <1>13, <1>14 DEF x
    <3> QED BY <3>4, <3>5
  <2> QED BY <1>16, <2>2, <2>3 DEF base, r, free
<1> QED BY <1>15, <1>16

-----------------------------------------------------------------------------
(* Bulks in the order of their addresses, and their slots in use.          *)
BulksOk(bs) ==
  /\ bs \in Seq(BulkRecords) /\ bs # <<>>
  /\ \A i, j \in DOMAIN bs : i < j => bs[i].address < bs[j].address

InUse(bs) == UNION {{Objects!Slot(bs[i], j) : j \in 0 .. bs[i].used - 1} : i \in DOMAIN bs}

(* Every bulk has its own slots.                                           *)
LEMMA SlotsInUse ==
  ASSUME BulkAssumption, NEW bs, BulksOk(bs)
  PROVE  /\ Len(bs) \in Nat \ {0} /\ DOMAIN bs = 1 .. Len(bs)
         /\ \A i \in DOMAIN bs : /\ bs[i] \in BulkRecords /\ Base(bs[i].address) \in Nat \ {0}
                                 /\ bs[i].used \in 1 .. BulkSize
                                 /\ bs[i].address \in 1 .. MaxBulks
         /\ \A i, k \in DOMAIN bs : /\ i < k => Base(bs[i].address) + BulkSize <= Base(bs[k].address)
                                    /\ bs[i].address = bs[k].address => i = k
         /\ \A u : u \in InUse(bs) <=>
                     \E i \in DOMAIN bs : \E j \in 0 .. bs[i].used - 1 : u = Base(bs[i].address) + j
         /\ \A i \in DOMAIN bs : \A j \in 0 .. BulkSize - 1 :
              Base(bs[i].address) + j \in InUse(bs) <=> j < bs[i].used
         /\ InUse(bs) \subseteq Objects!Slots
<1>1. BulkSize \in Nat \ {0}
  BY SlotsOfBulks
<1>2. Len(bs) \in Nat \ {0} /\ DOMAIN bs = 1 .. Len(bs)
  BY EmptySeq DEF BulksOk
<1>3. ASSUME NEW i \in DOMAIN bs
      PROVE  /\ bs[i] \in BulkRecords /\ Base(bs[i].address) \in Nat \ {0}
             /\ bs[i].used \in 1 .. BulkSize /\ bs[i].address \in 1 .. MaxBulks
             /\ \A j \in 0 .. BulkSize - 1 : Base(bs[i].address) + j \in Objects!Slots
  <2>1. bs[i] \in BulkRecords
    BY <1>2, ElementOfSeq DEF BulksOk
  <2>2. bs[i].used \in 1 .. BulkSize /\ bs[i].address \in 1 .. MaxBulks
    BY <2>1 DEF BulkRecords
  <2> QED BY <2>1, <2>2, SlotsOfBulks, Zenon
<1>4. ASSUME NEW i \in DOMAIN bs, NEW k \in DOMAIN bs
      PROVE  /\ i < k => Base(bs[i].address) + BulkSize <= Base(bs[k].address)
             /\ bs[i].address = bs[k].address => i = k
  <2>1. bs[i].address \in Nat /\ bs[k].address \in Nat /\ i \in Nat /\ k \in Nat
    BY <1>2, <1>3
  <2>2. /\ i < k => bs[i].address < bs[k].address
        /\ k < i => bs[k].address < bs[i].address
    BY DEF BulksOk
  <2>3. i < k => Base(bs[i].address) + BulkSize <= Base(bs[k].address)
    BY <2>1, <2>2, BasesLieApart, Zenon
  <2>4. bs[i].address = bs[k].address => i = k
    BY <2>1, <2>2
  <2> QED BY <2>3, <2>4
<1>5. \A u : u \in InUse(bs) <=>
               \E i \in DOMAIN bs : \E j \in 0 .. bs[i].used - 1 : u = Base(bs[i].address) + j
  BY DEF InUse, Objects!Slot, Base
<1>6. ASSUME NEW i \in DOMAIN bs, NEW j \in 0 .. BulkSize - 1
      PROVE  Base(bs[i].address) + j \in InUse(bs) <=> j < bs[i].used
  <2>1. ASSUME j < bs[i].used PROVE Base(bs[i].address) + j \in InUse(bs)
    <3>1. j \in 0 .. bs[i].used - 1
      BY <1>1, <1>3, <2>1
    <3> QED BY <1>5, <3>1
  <2>2. ASSUME Base(bs[i].address) + j \in InUse(bs) PROVE j < bs[i].used
    <3>1. PICK k \in DOMAIN bs : \E m \in 0 .. bs[k].used - 1 :
                                   Base(bs[i].address) + j = Base(bs[k].address) + m
      BY <1>5, <2>2
    <3>2. PICK m \in 0 .. bs[k].used - 1 : Base(bs[i].address) + j = Base(bs[k].address) + m
      BY <3>1
    <3>3. /\ i \in Nat /\ k \in Nat /\ j \in 0 .. BulkSize - 1 /\ m \in 0 .. BulkSize - 1
          /\ Base(bs[i].address) \in Nat /\ Base(bs[k].address) \in Nat
      BY <1>1, <1>2, <1>3, <3>2
    <3>4. /\ i < k => Base(bs[i].address) + BulkSize <= Base(bs[k].address)
          /\ k < i => Base(bs[k].address) + BulkSize <= Base(bs[i].address)
      BY <1>4
    <3>5. i = k
      BY <1>1, <3>2, <3>3, <3>4
    <3>6. m = j
      BY <3>2, <3>3, <3>5
    <3> QED BY <1>3, <3>2, <3>5, <3>6
  <2> QED BY <2>1, <2>2
<1>7. InUse(bs) \subseteq Objects!Slots
  <2> SUFFICES ASSUME NEW u \in InUse(bs) PROVE u \in Objects!Slots
    OBVIOUS
  <2>1. PICK i \in DOMAIN bs : \E j \in 0 .. bs[i].used - 1 : u = Base(bs[i].address) + j
    BY <1>5
  <2>2. PICK j \in 0 .. bs[i].used - 1 : u = Base(bs[i].address) + j
    BY <2>1
  <2>3. j \in 0 .. BulkSize - 1
    BY <1>1, <1>3
  <2> QED BY <1>3, <2>2, <2>3
<1> QED BY <1>2, <1>3, <1>4, <1>5, <1>6, <1>7

-----------------------------------------------------------------------------
(* operator++ tries the rest of a bulk, then the bulks behind it.          *)
Trials == [found : BOOLEAN, bulk : 1 .. MaxBulks, index : Nat, free : Objects!Slots \cup {0}]

Tried(r, bs, lk, b) == IF r.found THEN r ELSE Objects!TrySetIndex(bs[b], 0, r.free, lk)

Tries(f, l, bs, lk, here) ==
  /\ f[0] = Objects!TrySetIndex(bs[here], l.index + 1, l.free, lk)
  /\ \A n \in 1 .. Len(bs) - here : f[n] = Tried(f[n - 1], bs, lk, here + n)

(* What one try returns.                                                   *)
LEMMA TrialsAreRecords ==
  ASSUME BulkAssumption, NEW bs, BulksOk(bs), NEW lk \in Links, NEW b \in DOMAIN bs,
         NEW ix \in 0 .. bs[b].used, NEW free \in Objects!Slots \cup {0}
  PROVE  LET r == Objects!TrySetIndex(bs[b], ix, free, lk)
         IN  /\ r \in Trials /\ r.bulk = bs[b].address
             /\ r.found => r.index \in 0 .. bs[b].used - 1
<1>1. /\ bs[b] \in BulkRecords /\ bs[b].used \in 1 .. BulkSize
      /\ bs[b].address \in 1 .. MaxBulks /\ BulkSize \in Nat
  BY SlotsInUse, SlotsOfBulks
<1>2. ix \in 0 .. BulkSize
  BY <1>1
<1> DEFINE r == Objects!TrySetIndex(bs[b], ix, free, lk)
           n == Max(Skipped(bs[b], ix, free, lk))
           f == Objects!Chain(free, lk)[n]
           c == ix + n < bs[b].used
<1>3. /\ r = [found |-> c, bulk |-> bs[b].address, index |-> ix + n, free |-> f]
      /\ r.free \in Objects!Slots \cup {0} /\ r.bulk = bs[b].address
      /\ r.index = ix + n /\ r.free = f /\ r.found <=> ix + n < bs[b].used
      /\ ix + n \in 0 .. BulkSize
  BY <1>1, <1>2, TrySetIndexStays
<1> HIDE DEF n, f, r
<1>4. f \in Objects!Slots \cup {0} /\ c \in BOOLEAN /\ ix + n \in Nat
  BY <1>1, <1>3
<1>5. r.found => r.index \in 0 .. bs[b].used - 1
  BY <1>1, <1>3
<1> HIDE DEF c
<1>6. r \in Trials
  BY <1>1, <1>3, <1>4 DEF Trials
<1> QED BY <1>3, <1>5, <1>6 DEF r

Stops(r, t, l) ==
  r = IF t.found THEN [l EXCEPT !.bulk = t.bulk, !.index = t.index, !.free = t.free]
      ELSE [l EXCEPT !.bulk = Objects!NULL, !.index = 0, !.free = Objects!NULL, !.created = {}]

(* Advanced ends with the last try.                                        *)
LEMMA AdvancedTries ==
  ASSUME BulkAssumption, NEW bs, BulksOk(bs), NEW lk \in Links, NEW l, NEW here \in DOMAIN bs,
         bs[here].address = l.bulk, l.index \in 0 .. bs[here].used - 1,
         l.free \in Objects!Slots \cup {0}
  PROVE  \E f : /\ Tries(f, l, bs, lk, here)
                /\ \A n \in 0 .. Len(bs) - here : f[n] \in Trials
                /\ Stops(Objects!Advanced(l, bs, lk), f[Len(bs) - here], l)
<1> DEFINE K == Len(bs) - here
           h == CHOOSE i \in DOMAIN bs : bs[i].address = l.bulk
           d == Objects!TrySetIndex(bs[here], l.index + 1, l.free, lk)
           step == [n \in 1 .. K |-> [r \in Trials |-> Tried(r, bs, lk, here + n)]]
           Follows(f) == f = [n \in 0 .. K |->
                                IF n = 0 THEN d
                                ELSE IF f[n - 1].found THEN f[n - 1]
                                ELSE Objects!TrySetIndex(bs[here + n], 0, f[n - 1].free, lk)]
           F == CHOOSE f : Follows(f)
<1>1. /\ Len(bs) \in Nat \ {0} /\ DOMAIN bs = 1 .. Len(bs)
      /\ \A i \in DOMAIN bs : bs[i].used \in 1 .. BulkSize
      /\ \A i, k \in DOMAIN bs : bs[i].address = bs[k].address => i = k
  BY SlotsInUse, Zenon
<1>2. K \in Nat /\ \A n \in 1 .. K : here + n \in DOMAIN bs
  BY <1>1
<1>3. h = here
  <2>1. h \in DOMAIN bs /\ bs[h].address = l.bulk
    OBVIOUS
  <2> HIDE DEF h
  <2> QED BY <1>1, <2>1
<1>4. d \in Trials
  <2>1. l.index + 1 \in 0 .. bs[here].used
    BY <1>1
  <2> QED BY <2>1, TrialsAreRecords
<1>5. ASSUME NEW n \in 1 .. K, NEW r \in Trials PROVE Tried(r, bs, lk, here + n) \in Trials
  <2>1. /\ here + n \in DOMAIN bs /\ 0 \in 0 .. bs[here + n].used
        /\ r.free \in Objects!Slots \cup {0}
    BY <1>1, <1>2 DEF Trials
  <2>2. Objects!TrySetIndex(bs[here + n], 0, r.free, lk) \in Trials
    BY <2>1, TrialsAreRecords
  <2> QED BY <2>2 DEF Tried
<1>6. \A n \in 1 .. K : \A r \in Trials : step[n][r] = Tried(r, bs, lk, here + n)
                                          /\ step[n][r] \in Trials
  BY <1>5
<1> HIDE DEF step, K, d
<1>7. \E f : Follows(f)
  <2>1. PICK f : Iterates(f, K, d, step) /\ \A n \in 0 .. K : f[n] \in Trials
    BY <1>2, <1>4, <1>6, IterationExists, Zenon
  <2>2. ASSUME NEW n \in 0 .. K, n # 0
        PROVE  f[n] = IF f[n - 1].found THEN f[n - 1]
                      ELSE Objects!TrySetIndex(bs[here + n], 0, f[n - 1].free, lk)
    <3>1. n \in 1 .. K /\ n - 1 \in 0 .. K
      BY <1>2, <2>2
    <3>2. f[n] = step[n][f[n - 1]]
      BY <2>1, <2>2, Zenon DEF Iterates
    <3> QED BY <1>6, <2>1, <3>1, <3>2 DEF Tried
  <2>3. Follows(f)
    BY <2>1, <2>2 DEF Iterates
  <2> HIDE DEF Follows
  <2> QED BY <2>3
<1>8. Follows(F)
  <2> HIDE DEF Follows
  <2> QED BY <1>7, Zenon
<1>9. Objects!Advanced(l, bs, lk) =
        IF F[K].found THEN [l EXCEPT !.bulk = F[K].bulk, !.index = F[K].index, !.free = F[K].free]
        ELSE [l EXCEPT !.bulk = Objects!NULL, !.index = 0, !.free = Objects!NULL, !.created = {}]
  <2> DEFINE From0(i, f) == f = [n \in 0 .. Len(bs) - i |->
                                IF n = 0 THEN Objects!TrySetIndex(bs[i], l.index + 1, l.free, lk)
                                ELSE IF f[n - 1].found THEN f[n - 1]
                                ELSE Objects!TrySetIndex(bs[i + n], 0, f[n - 1].free, lk)]
             tried(i) == CHOOSE f : From0(i, f)
             stop(i) == tried(i)[Len(bs) - i]
             Out(i) == IF stop(i).found
                       THEN [l EXCEPT !.bulk = stop(i).bulk, !.index = stop(i).index,
                                      !.free = stop(i).free]
                       ELSE [l EXCEPT !.bulk = Objects!NULL, !.index = 0,
                                      !.free = Objects!NULL, !.created = {}]
  <2>1. Objects!Advanced(l, bs, lk) = Out(h)
    BY Zenon DEF Objects!Advanced
  <2>2. Out(h) = Out(here)
    <3> HIDE DEF Out, h
    <3> QED BY <1>3
  <2>3. F = tried(here)
    BY Zenon DEF K, d
  <2> HIDE DEF F, tried
  <2>4. Out(here) = IF F[K].found
                    THEN [l EXCEPT !.bulk = F[K].bulk, !.index = F[K].index, !.free = F[K].free]
                    ELSE [l EXCEPT !.bulk = Objects!NULL, !.index = 0, !.free = Objects!NULL,
                                   !.created = {}]
    BY <2>3, Zenon DEF K
  <2> HIDE DEF Out
  <2> QED BY <2>1, <2>2, <2>4, Zenon
<1> HIDE DEF F
<1>10. /\ F[0] = d
       /\ \A n \in 1 .. K : F[n] = Tried(F[n - 1], bs, lk, here + n)
  BY <1>2, <1>8 DEF Tried
<1>11. Tries(F, l, bs, lk, here)
  BY <1>10 DEF Tries, K, d
<1>12. ASSUME NEW m \in 0 .. K PROVE F[m] \in Trials
  <2> DEFINE E == [n \in 0 .. K |-> Trials]
  <2>1. m \in Nat /\ \A n \in 1 .. m : n \in 1 .. K /\ n - 1 \in 0 .. K /\ n \in 0 .. K
    BY <1>2
  <2>2. \A n \in 0 .. K : E[n] = Trials
    OBVIOUS
  <2> HIDE DEF E
  <2>3. F[0] \in E[0]
    BY <1>2, <1>4, <1>10, <2>2
  <2>4. \A n \in 1 .. m : F[n - 1] \in E[n - 1] => F[n] \in E[n]
    BY <1>5, <1>10, <2>1, <2>2
  <2>5. F[m] \in E[m]
    BY <2>1, <2>3, <2>4, IterationKeeps
  <2> QED BY <2>2, <2>5
<1>13. Stops(Objects!Advanced(l, bs, lk), F[K], l)
  BY <1>9, Zenon DEF Stops
<1> QED BY <1>11, <1>12, <1>13 DEF K

-----------------------------------------------------------------------------
(* An Iterator stands on a slot in use, or has ended.                      *)
Loops == [bulk : 0 .. MaxBulks, index : Nat, free : Objects!Slots \cup {0},
          due : SUBSET Objects!Slots, created : SUBSET Objects!Slots]

Located(l, bs) ==
  \/ l.bulk = 0
  \/ \E i \in DOMAIN bs : bs[i].address = l.bulk /\ l.index \in 0 .. bs[i].used - 1

Here(l) == Base(l.bulk) + l.index

(* operator++ stays on slots in use, with whatever list.                   *)
LEMMA AdvancedStays ==
  ASSUME BulkAssumption, NEW bs, BulksOk(bs), NEW lk \in Links, NEW l \in Loops,
         Located(l, bs), l.bulk # 0
  PROVE  LET r == Objects!Advanced(l, bs, lk)
         IN  r \in Loops /\ Located(r, bs) /\ r.due = l.due
             /\ r.created = IF r.bulk = 0 THEN {} ELSE l.created
<1> DEFINE r == Objects!Advanced(l, bs, lk)
<1>1. /\ l.free \in Objects!Slots \cup {0}
      /\ l.due \in SUBSET Objects!Slots /\ l.created \in SUBSET Objects!Slots
      /\ DOMAIN l = {"bulk", "index", "free", "due", "created"}
  BY DEF Loops
<1>2. PICK here \in DOMAIN bs : bs[here].address = l.bulk /\ l.index \in 0 .. bs[here].used - 1
  BY DEF Located
<1>3. /\ Len(bs) \in Nat \ {0} /\ DOMAIN bs = 1 .. Len(bs)
      /\ \A i \in DOMAIN bs : bs[i].used \in 1 .. BulkSize /\ bs[i].address \in 1 .. MaxBulks
  BY SlotsInUse
<1> DEFINE K == Len(bs) - here
           Stays(t) == t.found => \E i \in DOMAIN bs : bs[i].address = t.bulk
                                                       /\ t.index \in 0 .. bs[i].used - 1
<1>4. PICK f : /\ Tries(f, l, bs, lk, here) /\ Stops(r, f[K], l)
               /\ \A n \in 0 .. K : f[n] \in Trials
  BY <1>1, <1>2, AdvancedTries
<1>5. K \in Nat /\ \A n \in 1 .. K : here + n \in DOMAIN bs /\ n - 1 \in 0 .. K
  BY <1>3
<1>6. Stays(f[0])
  <2>1. l.index + 1 \in 0 .. bs[here].used
    BY <1>2, <1>3
  <2> QED BY <1>1, <1>4, <2>1, TrialsAreRecords DEF Tries
<1>7. ASSUME NEW n \in 1 .. K, Stays(f[n - 1]) PROVE Stays(f[n])
  <2>1. f[n] = Tried(f[n - 1], bs, lk, here + n)
    BY <1>4 DEF Tries
  <2>2. CASE f[n - 1].found
    BY <1>7, <2>1, <2>2 DEF Tried
  <2>3. CASE ~f[n - 1].found
    <3>1. /\ here + n \in DOMAIN bs /\ 0 \in 0 .. bs[here + n].used
          /\ f[n - 1].free \in Objects!Slots \cup {0}
      BY <1>3, <1>4, <1>5 DEF Trials
    <3>2. f[n] = Objects!TrySetIndex(bs[here + n], 0, f[n - 1].free, lk)
      BY <2>1, <2>3 DEF Tried
    <3> DEFINE b == here + n
               free == f[n - 1].free
               t == Objects!TrySetIndex(bs[b], 0, free, lk)
    <3>3. t.bulk = bs[b].address /\ (t.found => t.index \in 0 .. bs[b].used - 1)
      <4> HIDE DEF b, free
      <4> QED BY <3>1, TrialsAreRecords DEF b, free
    <3> HIDE DEF t
    <3>4. f[n] = t
      BY <3>2 DEF t
    <3> QED BY <3>1, <3>3, <3>4
  <2> QED BY <2>2, <2>3
<1>8. Stays(f[K])
  <2> DEFINE E == [n \in 0 .. K |-> {t \in Trials : Stays(t)}]
  <2>1. \A n \in 0 .. K : E[n] = {t \in Trials : Stays(t)}
    OBVIOUS
  <2> HIDE DEF E, K, Stays
  <2>2. f[0] \in E[0]
    BY <1>4, <1>5, <1>6, <2>1
  <2>3. \A n \in 1 .. K : f[n - 1] \in E[n - 1] => f[n] \in E[n]
    <3> TAKE n \in 1 .. K
    <3>1. n \in 0 .. K /\ n - 1 \in 0 .. K
      BY <1>5
    <3> QED BY <1>4, <1>7, <2>1, <3>1
  <2>4. f[K] \in E[K] /\ K \in 0 .. K
    BY <1>5, <2>2, <2>3, IterationKeeps
  <2> QED BY <2>1, <2>4
<1>9. f[K] \in Trials
  BY <1>4, <1>5
<1> HIDE DEF K, Stays, r
<1>10. CASE f[K].found
  <2> DEFINE t == f[K]
  <2> HIDE DEF t
  <2>1. r = [l EXCEPT !.bulk = t.bulk, !.index = t.index, !.free = t.free]
    BY <1>4, <1>10, Zenon DEF t, Stops
  <2>2. t.bulk \in 1 .. MaxBulks /\ t.index \in Nat /\ t.free \in Objects!Slots \cup {0}
    BY <1>9 DEF Trials, t
  <2>3. r \in Loops /\ r.bulk = t.bulk /\ r.index = t.index /\ r.due = l.due
        /\ r.created = l.created
    <3>1. r \in Loops
      <4>1. l \in [bulk : 0 .. MaxBulks, index : Nat, free : Objects!Slots \cup {0},
                   due : SUBSET Objects!Slots, created : SUBSET Objects!Slots]
        BY DEF Loops
      <4>2. t.bulk \in 0 .. MaxBulks
        BY <2>2
      <4> DEFINE S0 == Objects!Slots \cup {0}
                 SS == SUBSET Objects!Slots
                 B0 == 0 .. MaxBulks
      <4> HIDE DEF S0, SS, B0
      <4>3. l \in [bulk : B0, index : Nat, free : S0, due : SS, created : SS]
        BY <4>1 DEF S0, SS, B0
      <4>4. r \in [bulk : B0, index : Nat, free : S0, due : SS, created : SS]
        BY <2>1, <2>2, <4>2, <4>3, Zenon DEF S0, B0
      <4> QED BY <4>4 DEF Loops, S0, SS, B0
    <3>2. r.bulk = t.bulk /\ r.index = t.index /\ r.due = l.due /\ r.created = l.created
      BY <1>1, <2>1
    <3> QED BY <3>1, <3>2
  <2>4. \E i \in DOMAIN bs : bs[i].address = t.bulk /\ t.index \in 0 .. bs[i].used - 1
    BY <1>8, <1>10 DEF t, Stays
  <2>5. r.bulk # 0
    BY <2>2, <2>3
  <2> QED BY <2>3, <2>4, <2>5, Zenon DEF Located, r
<1>11. CASE ~f[K].found
  <2>1. r = [l EXCEPT !.bulk = Objects!NULL, !.index = 0, !.free = Objects!NULL, !.created = {}]
    BY <1>4, <1>11 DEF Stops
  <2>2. 0 \in 0 .. MaxBulks
    BY DEF BulkAssumption
  <2>3. r \in Loops /\ r.bulk = 0 /\ r.due = l.due /\ r.created = {}
    BY <2>1, <2>2, Zenon DEF Loops, Objects!NULL
  <2> QED BY <2>3, Zenon DEF Located, r
<1> QED BY <1>10, <1>11 DEF r

-----------------------------------------------------------------------------
(* What lies between two slots is free.                                    *)
Passed(F, bs, lo, hi) == \A u \in InUse(bs) : lo < u /\ u < hi => u \in F

Lands(t, F, bs, cur) ==
  /\ Here(t) \in InUse(bs) \ F /\ cur < Here(t)
  /\ t.free = From(F, Here(t) + 1) /\ Passed(F, bs, cur, Here(t))

Ends(b, bs) == Base(bs[b].address) + BulkSize

Goes(t, F, bs, cur, b) ==
  IF t.found THEN Lands(t, F, bs, cur)
  ELSE t.free = From(F, Ends(b, bs)) /\ Passed(F, bs, cur, Ends(b, bs))

(* A try finds the next slot of its bulk that is not free, or passes it.   *)
LEMMA TryGoesOn ==
  ASSUME BulkAssumption, NEW bs, BulksOk(bs), NEW lk \in Links, NEW F, F \subseteq InUse(bs),
         LinkedAs(lk, F), NEW cur \in Nat, NEW b \in DOMAIN bs, NEW ix \in 0 .. bs[b].used,
         cur < Base(bs[b].address) + ix, Passed(F, bs, cur, Base(bs[b].address) + ix)
  PROVE  Goes(Objects!TrySetIndex(bs[b], ix, From(F, Base(bs[b].address) + ix), lk), F, bs, cur, b)
<1> DEFINE base == Base(bs[b].address)
           used == bs[b].used
           free == From(F, base + ix)
           t == Objects!TrySetIndex(bs[b], ix, free, lk)
<1>1. /\ bs[b] \in BulkRecords /\ used \in 1 .. BulkSize /\ base \in Nat \ {0}
      /\ BulkSize \in Nat \ {0} /\ InUse(bs) \subseteq Objects!Slots
      /\ Objects!Slots \subseteq Nat
      /\ \A j \in 0 .. BulkSize - 1 : base + j \in InUse(bs) <=> j < used
  BY SlotsInUse, SlotsOfBulks
<1>2. \A j \in used .. BulkSize - 1 : base + j \notin F
  BY <1>1
<1>3. IF t.found
      THEN /\ t.index \in ix .. used - 1 /\ base + t.index \notin F
           /\ \A j \in ix .. t.index - 1 : base + j \in F
           /\ t.free = From(F, base + t.index + 1)
      ELSE /\ \A j \in ix .. used - 1 : base + j \in F
           /\ t.free = From(F, base + BulkSize)
  <2>1. F \subseteq Objects!Slots
    BY <1>1
  <2> QED BY <1>1, <1>2, <2>1, TrySetIndexFinds, Zenon
<1>4. t.bulk = bs[b].address
  <2>1. base + ix \in Nat /\ ix \in 0 .. BulkSize /\ F \subseteq Objects!Slots
    BY <1>1
  <2>2. free \in Objects!Slots \cup {0}
    BY <2>1, FromProperties
  <2> HIDE DEF free
  <2> QED BY <1>1, <2>1, <2>2, TrySetIndexStays
<1> HIDE DEF t, free
<1>5. Here(t) = base + t.index
  BY <1>4 DEF Here
<1> DEFINE x == base + ix
<1>6. cur < x /\ Passed(F, bs, cur, x) /\ x \in Nat
  BY <1>1
<1> HIDE DEF base, used, x
<1>7. CASE t.found
  <2>1. t.index \in 0 .. BulkSize - 1 /\ t.index < used
    BY <1>1, <1>3, <1>7
  <2>2. Here(t) \in InUse(bs) \ F /\ cur < Here(t) /\ t.free = From(F, Here(t) + 1)
    BY <1>1, <1>3, <1>5, <1>6, <1>7, <2>1 DEF x
  <2>3. ASSUME NEW u \in InUse(bs), cur < u, u < Here(t) PROVE u \in F
    <3>1. u \in Nat
      BY <1>1, Zenon
    <3>2. CASE u < x
      BY <1>6, <2>3, <3>2 DEF Passed
    <3>3. CASE ~(u < x)
      <4>1. u - base \in ix .. t.index - 1 /\ base + (u - base) = u
        BY <1>1, <1>5, <2>1, <2>3, <3>1, <3>3 DEF x
      <4> QED BY <1>3, <1>7, <4>1
    <3> QED BY <3>2, <3>3
  <2>4. Passed(F, bs, cur, Here(t))
    BY <2>3 DEF Passed
  <2> QED BY <1>7, <2>2, <2>4 DEF Goes, Lands, t, free, base
<1>8. CASE ~t.found
  <2>1. ASSUME NEW u \in InUse(bs), cur < u, u < base + BulkSize PROVE u \in F
    <3>1. u \in Nat
      BY <1>1, Zenon
    <3>2. CASE u < x
      BY <1>6, <2>1, <3>2 DEF Passed
    <3>3. CASE ~(u < x)
      <4>1. u - base \in ix .. BulkSize - 1 /\ base + (u - base) = u /\ u - base \in 0 .. BulkSize - 1
        BY <1>1, <2>1, <3>1, <3>3 DEF x
      <4>2. u - base < used
        BY <1>1, <4>1
      <4>3. u - base \in ix .. used - 1
        BY <1>1, <4>1, <4>2
      <4> QED BY <1>3, <1>8, <4>1, <4>3
    <3> QED BY <3>2, <3>3
  <2>2. Passed(F, bs, cur, Ends(b, bs)) /\ t.free = From(F, Ends(b, bs))
    BY <1>3, <1>8, <2>1 DEF Passed, Ends, base
  <2> QED BY <1>8, <2>2 DEF Goes, t, free, base
<1> QED BY <1>7, <1>8 DEF t, free, base

(* There is no slot in use between two bulks, and none behind the last.    *)
LEMMA NothingBetween ==
  ASSUME BulkAssumption, NEW bs, BulksOk(bs), NEW b \in DOMAIN bs, NEW u \in InUse(bs),
         Ends(b, bs) <= u
  PROVE  b + 1 \in DOMAIN bs /\ Base(bs[b + 1].address) <= u
<1>1. /\ Len(bs) \in Nat \ {0} /\ DOMAIN bs = 1 .. Len(bs)
      /\ \A i \in DOMAIN bs : bs[i].used \in 1 .. BulkSize /\ Base(bs[i].address) \in Nat
      /\ \A i, k \in DOMAIN bs : i < k => Base(bs[i].address) + BulkSize <= Base(bs[k].address)
      /\ BulkSize \in Nat
  BY SlotsInUse, SlotsOfBulks
<1>2. PICK i \in DOMAIN bs : \E j \in 0 .. bs[i].used - 1 : u = Base(bs[i].address) + j
  BY SlotsInUse
<1>3. PICK j \in 0 .. bs[i].used - 1 : u = Base(bs[i].address) + j
  BY <1>2
<1>4. j \in Nat /\ j < BulkSize /\ i \in Nat /\ b \in Nat
      /\ Base(bs[i].address) \in Nat /\ Base(bs[b].address) \in Nat
  BY <1>1, <1>3
<1>5. Base(bs[b].address) + BulkSize <= u
  BY DEF Ends
<1>6. b < i
  <2>1. ~(i < b)
    <3> SUFFICES ASSUME i < b PROVE FALSE
      OBVIOUS
    <3>1. Base(bs[i].address) + BulkSize <= Base(bs[b].address)
      BY <1>1
    <3> QED BY <1>1, <1>3, <1>4, <1>5, <3>1
  <2>2. i # b
    BY <1>1, <1>3, <1>4, <1>5
  <2> QED BY <1>4, <2>1, <2>2
<1>7. b + 1 \in DOMAIN bs
  BY <1>1, <1>4, <1>6
<1>8. Base(bs[b + 1].address) <= Base(bs[i].address) /\ Base(bs[b + 1].address) \in Nat
  <2>1. CASE b + 1 = i
    BY <1>4, <2>1
  <2>2. CASE b + 1 < i
    <3>1. Base(bs[b + 1].address) + BulkSize <= Base(bs[i].address)
      BY <1>1, <1>7, <2>2
    <3> QED BY <1>1, <1>4, <1>7, <3>1
  <2> QED BY <1>4, <1>6, <2>1, <2>2
<1>9. Base(bs[b + 1].address) <= u
  BY <1>3, <1>4, <1>8
<1> QED BY <1>7, <1>9

(* A bulk that is passed leads to the next.                                *)
LEMMA MovesOn ==
  ASSUME BulkAssumption, NEW bs, BulksOk(bs), NEW F, F \subseteq InUse(bs), NEW cur \in Nat,
         NEW b \in DOMAIN bs, b + 1 \in DOMAIN bs, Passed(F, bs, cur, Ends(b, bs)),
         cur < Ends(b, bs)
  PROVE  /\ Passed(F, bs, cur, Base(bs[b + 1].address)) /\ cur < Base(bs[b + 1].address)
         /\ From(F, Ends(b, bs)) = From(F, Base(bs[b + 1].address))
<1> DEFINE e == Ends(b, bs)
           x == Base(bs[b + 1].address)
<1>1. e \in Nat /\ x \in Nat /\ e <= x /\ F \subseteq Objects!Slots
      /\ Objects!Slots \subseteq Nat
  <2>1. /\ Base(bs[b].address) \in Nat /\ x \in Nat /\ BulkSize \in Nat
        /\ InUse(bs) \subseteq Objects!Slots /\ Objects!Slots \subseteq Nat
    BY SlotsInUse, SlotsOfBulks, Zenon
  <2>2. b < b + 1
    BY SlotsInUse
  <2>3. Base(bs[b].address) + BulkSize <= x
    BY <2>2, SlotsInUse
  <2> HIDE DEF x
  <2>4. e \in Nat /\ e <= x
    BY <2>1, <2>3 DEF Ends
  <2> QED BY <2>1, <2>4
<1>2. \A u \in InUse(bs) : e <= u => x <= u
  BY NothingBetween
<1> HIDE DEF e, x
<1>3. \A u \in Objects!Slots : (u \in F /\ e <= u) <=> (u \in F /\ x <= u)
  BY <1>1, <1>2
<1>4. From(F, e) = From(F, x)
  <2>1. e \in Nat /\ x \in Nat /\ F \subseteq Objects!Slots
    BY <1>1
  <2> QED BY <1>3, <2>1, FromAgrees
<1>5. Passed(F, bs, cur, x)
  <2> SUFFICES ASSUME NEW u \in InUse(bs), cur < u, u < x PROVE u \in F
    BY DEF Passed
  <2>1. u \in Nat
    BY <1>1, SlotsInUse
  <2>2. u < e
    BY <1>1, <1>2, <2>1
  <2> QED BY <2>2 DEF Passed, e
<1>6. cur < x
  BY <1>1 DEF e
<1> QED BY <1>4, <1>5, <1>6 DEF e, x

(* operator++ comes to the next slot that is not free.                     *)
LEMMA AdvancedFinds ==
  ASSUME BulkAssumption, NEW bs, BulksOk(bs), NEW lk \in Links, NEW F, F \subseteq InUse(bs),
         LinkedAs(lk, F), NEW l \in Loops, Located(l, bs), l.bulk # 0, l.free = From(F, Here(l) + 1)
  PROVE  LET r == Objects!Advanced(l, bs, lk)
         IN  IF r.bulk = 0 THEN \A u \in InUse(bs) : Here(l) < u => u \in F
             ELSE Lands(r, F, bs, Here(l))
<1> DEFINE r == Objects!Advanced(l, bs, lk)
           cur == Here(l)
<1>1. /\ l.free \in Objects!Slots \cup {0}
      /\ DOMAIN l = {"bulk", "index", "free", "due", "created"}
  BY DEF Loops
<1>2. PICK here \in DOMAIN bs : bs[here].address = l.bulk /\ l.index \in 0 .. bs[here].used - 1
  BY DEF Located
<1>3. /\ Len(bs) \in Nat \ {0} /\ DOMAIN bs = 1 .. Len(bs) /\ BulkSize \in Nat \ {0}
      /\ \A i \in DOMAIN bs : bs[i].used \in 1 .. BulkSize /\ bs[i].address \in 1 .. MaxBulks
                              /\ Base(bs[i].address) \in Nat \ {0}
      /\ InUse(bs) \subseteq Objects!Slots /\ Objects!Slots \subseteq Nat
  BY SlotsInUse, SlotsOfBulks
<1>4. /\ cur = Base(bs[here].address) + l.index /\ cur \in Nat
      /\ l.index + 1 \in 0 .. bs[here].used /\ cur < Ends(here, bs)
      /\ cur + 1 = Base(bs[here].address) + (l.index + 1)
  BY <1>2, <1>3 DEF Here, Ends
<1> HIDE DEF cur
<1> DEFINE K == Len(bs) - here
<1>5. PICK f : /\ Tries(f, l, bs, lk, here) /\ Stops(r, f[K], l)
               /\ \A n \in 0 .. K : f[n] \in Trials
  BY <1>1, <1>2, AdvancedTries
<1>6. K \in Nat /\ K \in 0 .. K
      /\ \A n \in 1 .. K : /\ here + n \in DOMAIN bs /\ here + (n - 1) \in DOMAIN bs
                           /\ (here + (n - 1)) + 1 = here + n
                           /\ n \in 0 .. K /\ n - 1 \in 0 .. K
  BY <1>3
<1>7. \A n \in 0 .. K : here + n \in DOMAIN bs /\ cur < Ends(here + n, bs)
  <2> TAKE n \in 0 .. K
  <2>1. here + n \in DOMAIN bs /\ (n = 0 \/ here < here + n)
    BY <1>3
  <2>2. CASE n = 0
    BY <1>3, <1>4, <2>1, <2>2
  <2>3. CASE here < here + n
    <3>1. Base(bs[here].address) + BulkSize <= Base(bs[here + n].address)
      BY <2>1, <2>3, SlotsInUse
    <3>2. cur < Base(bs[here].address) + BulkSize
      BY <1>4 DEF Ends
    <3>3. Base(bs[here].address) \in Nat /\ Base(bs[here + n].address) \in Nat
      BY <1>3, <2>1
    <3> QED BY <1>3, <1>4, <2>1, <3>1, <3>2, <3>3 DEF Ends
  <2> QED BY <2>1, <2>2, <2>3
<1> HIDE DEF r, K
<1>8. Goes(f[0], F, bs, cur, here)
  <2>1. Passed(F, bs, cur, cur + 1)
    <3> SUFFICES ASSUME NEW u \in InUse(bs), cur < u, u < cur + 1 PROVE FALSE
      BY DEF Passed
    <3>1. u \in Nat
      BY <1>3, Zenon
    <3> QED BY <1>4, <3>1
  <2>2. l.free = From(F, cur + 1)
    BY DEF cur
  <2>3. f[0] = Objects!TrySetIndex(bs[here], l.index + 1, From(F, cur + 1), lk)
    BY <1>5, <2>2, Zenon DEF Tries
  <2>4. cur < cur + 1
    BY <1>4
  <2> QED BY <1>4, <2>1, <2>3, <2>4, TryGoesOn
<1>9. ASSUME NEW n \in 1 .. K, Goes(f[n - 1], F, bs, cur, here + (n - 1))
      PROVE  Goes(f[n], F, bs, cur, here + n)
  <2>1. f[n] = Tried(f[n - 1], bs, lk, here + n)
    BY <1>5 DEF Tries, K
  <2>2. CASE f[n - 1].found
    BY <1>9, <2>1, <2>2 DEF Tried, Goes
  <2>3. CASE ~f[n - 1].found
    <3> DEFINE a == here + (n - 1)
               b == here + n
               x == Base(bs[b].address)
    <3>1. a \in DOMAIN bs /\ b \in DOMAIN bs /\ a + 1 = b /\ cur < Ends(a, bs)
      BY <1>6, <1>7
    <3>2. f[n - 1].free = From(F, Ends(a, bs)) /\ Passed(F, bs, cur, Ends(a, bs))
      BY <1>9, <2>3 DEF Goes
    <3>3. f[n] = Objects!TrySetIndex(bs[b], 0, f[n - 1].free, lk)
      BY <2>1, <2>3 DEF Tried
    <3> HIDE DEF a, b
    <3>4. Passed(F, bs, cur, x) /\ cur < x /\ From(F, Ends(a, bs)) = From(F, x)
      BY <1>4, <3>1, <3>2, MovesOn
    <3>5. x + 0 = x /\ 0 \in 0 .. bs[b].used
      BY <1>3, <3>1
    <3>6. f[n] = Objects!TrySetIndex(bs[b], 0, From(F, x + 0), lk)
      BY <3>2, <3>3, <3>4, <3>5, Zenon
    <3>7. Passed(F, bs, cur, x + 0) /\ cur < x + 0
      BY <3>4, <3>5
    <3>8. Goes(f[n], F, bs, cur, b)
      BY <1>4, <3>1, <3>5, <3>6, <3>7, TryGoesOn
    <3> QED BY <3>8 DEF b
  <2> QED BY <2>2, <2>3
<1>10. Goes(f[K], F, bs, cur, here + K)
  <2> DEFINE E == [n \in 0 .. K |-> {t \in Trials : Goes(t, F, bs, cur, here + n)}]
  <2>1. \A n \in 0 .. K : E[n] = {t \in Trials : Goes(t, F, bs, cur, here + n)}
    OBVIOUS
  <2> HIDE DEF E
  <2>2. f[0] \in E[0]
    <3>1. here + 0 = here /\ 0 \in 0 .. K
      BY <1>3, <1>6
    <3> QED BY <1>5, <1>8, <2>1, <3>1
  <2>3. \A n \in 1 .. K : f[n - 1] \in E[n - 1] => f[n] \in E[n]
    <3> TAKE n \in 1 .. K
    <3>1. n \in 0 .. K /\ n - 1 \in 0 .. K
      BY <1>6
    <3> QED BY <1>5, <1>9, <2>1, <3>1
  <2>4. f[K] \in E[K]
    BY <1>6, <2>2, <2>3, IterationKeeps
  <2> QED BY <1>6, <2>1, <2>4
<1> DEFINE t == f[K]
<1>11. t \in Trials /\ here + K = Len(bs) /\ Len(bs) \in DOMAIN bs
       /\ Base(bs[Len(bs)].address) \in Nat
  <2>1. t \in Trials
    BY <1>5, <1>6
  <2>2. here + K = Len(bs) /\ Len(bs) \in DOMAIN bs
    <3> HIDE DEF t
    <3> QED BY <1>3 DEF K
  <2> QED BY <1>3, <2>1, <2>2
<1> HIDE DEF t
<1>12. CASE t.found
  <2>1. r = [l EXCEPT !.bulk = t.bulk, !.index = t.index, !.free = t.free]
    BY <1>5, <1>12, Zenon DEF t, Stops
  <2>2. r.bulk = t.bulk /\ r.index = t.index /\ r.free = t.free
    BY <1>1, <2>1
  <2>3. Lands(t, F, bs, cur)
    BY <1>10, <1>12, Zenon DEF t, Goes
  <2>4. Lands(r, F, bs, cur)
    BY <2>2, <2>3, Zenon DEF Lands, Here
  <2>5. r.bulk # 0
    BY <1>11, <2>2 DEF Trials
  <2> QED BY <2>4, <2>5 DEF r, cur
<1>13. CASE ~t.found
  <2>1. r = [l EXCEPT !.bulk = Objects!NULL, !.index = 0, !.free = Objects!NULL, !.created = {}]
    BY <1>5, <1>13, Zenon DEF t, Stops
  <2>2. r.bulk = 0
    BY <1>1, <2>1 DEF Objects!NULL
  <2>3. Passed(F, bs, cur, Ends(Len(bs), bs))
    BY <1>10, <1>11, <1>13 DEF t, Goes
  <2>4. ASSUME NEW u \in InUse(bs), cur < u PROVE u \in F
    <3>1. ~(Ends(Len(bs), bs) <= u)
      <4> SUFFICES ASSUME Ends(Len(bs), bs) <= u PROVE FALSE
        OBVIOUS
      <4>1. Len(bs) + 1 \in DOMAIN bs
        BY <1>11, NothingBetween
      <4> QED BY <1>3, <4>1
    <3>2. u \in Nat /\ Ends(Len(bs), bs) \in Nat
      <4>1. u \in Nat
        BY <1>3, Zenon
      <4> QED BY <1>3, <1>11, <4>1 DEF Ends
    <3>3. u < Ends(Len(bs), bs)
      BY <3>1, <3>2
    <3> QED BY <2>3, <2>4, <3>3 DEF Passed
  <2> QED BY <2>2, <2>4 DEF r, cur
<1> QED BY <1>12, <1>13

-----------------------------------------------------------------------------
(* The slots in use that have no object are on the free list, in order.    *)
Unused(bs, obs) == InUse(bs) \ obs

StoreOk(bs, obs, head, lk) ==
  /\ BulksOk(bs) /\ obs \subseteq InUse(bs) /\ lk \in Links
  /\ head = From(Unused(bs, obs), 0) /\ LinkedAs(lk, Unused(bs, obs))
  /\ \A s \in Objects!Slots \ Unused(bs, obs) : lk[s] = 0

(* The loop waits for the free slot behind the object it is at, and what   *)
(* lies there was there when it began or came later.                       *)
LoopOk(l, bs, obs, ast) ==
  /\ l \in Loops /\ Located(l, bs)
  /\ ~ast => IF l.bulk = 0 THEN l.due = {}
             ELSE /\ Here(l) \in obs /\ l.free = From(Unused(bs, obs), Here(l) + 1)
                  /\ \A s \in obs : Here(l) <= s => s \in l.due \cup l.created
                  /\ \A s \in l.due : s \in obs /\ Here(l) <= s

BulkInv ==
  \/ unexpected
  \/ StoreOk(bulks, objects, freeListHead, link) /\ LoopOk(loop, bulks, objects, astray)

(* The loop goes on after what its callback did.                           *)
LEMMA ContinueKeeps ==
  ASSUME BulkAssumption, NEW bs, NEW obs, NEW head, NEW lk, StoreOk(bs, obs, head, lk),
         NEW l \in Loops, l.bulk # 0, Located(l, bs), NEW ast, NEW new, new \subseteq Objects!Slots,
         ~ast => /\ l.free = From(Unused(bs, obs), Here(l) + 1)
                 /\ \A s \in obs : Here(l) < s => s \in l.due \cup l.created \cup new
                 /\ \A s \in l.due : s = Here(l) \/ (s \in obs /\ Here(l) < s)
  PROVE  LoopOk(Objects!Advanced([l EXCEPT !.due = @ \ {Here(l)},
                                           !.created = (@ \cup new) \ {Here(l)}], bs, lk),
                bs, obs, ast)
<1> DEFINE cur == Here(l)
           k == [l EXCEPT !.due = @ \ {cur}, !.created = (@ \cup new) \ {cur}]
           r == Objects!Advanced(k, bs, lk)
           F == Unused(bs, obs)
           SS == SUBSET Objects!Slots
           S0 == Objects!Slots \cup {0}
           B0 == 0 .. MaxBulks
<1>1. /\ BulksOk(bs) /\ obs \subseteq InUse(bs) /\ lk \in Links /\ LinkedAs(lk, F)
      /\ F \subseteq InUse(bs) /\ InUse(bs) \ F = obs
      /\ InUse(bs) \subseteq Objects!Slots /\ Objects!Slots \subseteq Nat
  BY SlotsInUse, SlotsOfBulks DEF StoreOk, Unused
<1> HIDE DEF F, cur
<1>2. /\ k \in Loops /\ k.bulk = l.bulk /\ k.index = l.index /\ k.free = l.free
      /\ k.due = l.due \ {cur} /\ k.created = (l.created \cup new) \ {cur}
  <2>1. l \in [bulk : B0, index : Nat, free : S0, due : SS, created : SS]
    BY DEF Loops
  <2>2. l.due \ {cur} \in SS /\ (l.created \cup new) \ {cur} \in SS
    BY <2>1
  <2> HIDE DEF SS, S0, B0
  <2>3. k \in [bulk : B0, index : Nat, free : S0, due : SS, created : SS]
    BY <2>1, <2>2, Zenon
  <2>4. /\ k.bulk = l.bulk /\ k.index = l.index /\ k.free = l.free
        /\ k.due = l.due \ {cur} /\ k.created = (l.created \cup new) \ {cur}
    BY <2>1
  <2> QED BY <2>3, <2>4, Zenon DEF Loops, SS, S0, B0
<1> HIDE DEF k
<1>3. Here(k) = cur /\ Located(k, bs)
  BY <1>2, Zenon DEF Here, Located, cur
<1>4. /\ r \in Loops /\ Located(r, bs) /\ r.due = k.due
      /\ r.created = IF r.bulk = 0 THEN {} ELSE k.created
  <2>1. BulksOk(bs) /\ lk \in Links /\ k \in Loops /\ k.bulk # 0 /\ Located(k, bs)
    BY <1>1, <1>2, <1>3
  <2> QED BY <2>1, AdvancedStays
<1>5. ASSUME ~ast
      PROVE  IF r.bulk = 0 THEN r.due = {}
             ELSE /\ Here(r) \in obs /\ r.free = From(F, Here(r) + 1)
                  /\ \A s \in obs : Here(r) <= s => s \in r.due \cup r.created
                  /\ \A s \in r.due : s \in obs /\ Here(r) <= s
  <2>1. /\ l.free = From(F, cur + 1)
        /\ \A s \in obs : cur < s => s \in l.due \cup l.created \cup new
        /\ \A s \in l.due : s = cur \/ (s \in obs /\ cur < s)
    BY <1>5 DEF cur, F
  <2>2. IF r.bulk = 0 THEN \A u \in InUse(bs) : cur < u => u \in F
        ELSE Lands(r, F, bs, cur)
    <3>1. k.free = From(F, Here(k) + 1) /\ k.bulk # 0
      BY <1>2, <1>3, <2>1
    <3>2. IF r.bulk = 0 THEN \A u \in InUse(bs) : Here(k) < u => u \in F
          ELSE Lands(r, F, bs, Here(k))
      BY <1>1, <1>2, <1>3, <3>1, AdvancedFinds
    <3> QED BY <1>3, <3>2, Zenon
  <2>3. \A s \in k.due : s \in obs /\ cur < s
    BY <1>2, <2>1
  <2> HIDE DEF r
  <2>4. CASE r.bulk = 0
    <3>1. \A s \in r.due : FALSE
      <4> TAKE s \in r.due
      <4>1. s \in obs /\ cur < s /\ s \in InUse(bs)
        BY <1>1, <1>4, <2>3
      <4>2. s \in F
        BY <2>2, <2>4, <4>1
      <4> QED BY <1>1, <4>1, <4>2
    <3> QED BY <2>4, <3>1
  <2>5. CASE r.bulk # 0
    <3>1. /\ Here(r) \in InUse(bs) \ F /\ cur < Here(r) /\ r.free = From(F, Here(r) + 1)
          /\ \A u \in InUse(bs) : cur < u /\ u < Here(r) => u \in F
      BY <2>2, <2>5 DEF Lands, Passed
    <3>2. r.due = k.due /\ r.created = k.created
      BY <1>4, <2>5
    <3>3. cur \in Nat /\ Here(r) \in Nat
      <4>1. Here(r) \in Nat
        BY <1>1, <3>1
      <4>2. PICK i \in DOMAIN bs : bs[i].address = l.bulk /\ l.index \in 0 .. bs[i].used - 1
        BY DEF Located
      <4>3. Base(bs[i].address) \in Nat
        BY <1>1, SlotsInUse
      <4> QED BY <4>1, <4>2, <4>3 DEF cur, Here
    <3>4. ASSUME NEW s \in obs, Here(r) <= s PROVE s \in r.due \cup r.created
      <4>1. s \in Nat
        BY <1>1, Zenon
      <4>2. cur < s /\ s # cur
        BY <3>1, <3>3, <3>4, <4>1
      <4> QED BY <1>2, <2>1, <3>2, <4>2
    <3>5. ASSUME NEW s \in r.due PROVE s \in obs /\ Here(r) <= s
      <4>1. s \in obs /\ cur < s /\ s \in InUse(bs) /\ s \notin F
        BY <1>1, <2>3, <3>2
      <4>2. ~(s < Here(r)) /\ s \in Nat
        BY <1>1, <3>1, <4>1, Zenon
      <4> QED BY <3>3, <4>1, <4>2
    <3> QED BY <1>1, <2>5, <3>1, <3>4, <3>5
  <2> QED BY <2>4, <2>5
<1> QED BY <1>4, <1>5, Zenon DEF LoopOk, r, k, cur, F

-----------------------------------------------------------------------------
(* One slot more is in use: the next of a bulk, or the first of a new one. *)
Grown(bs, cs, slot) ==
  /\ BulksOk(cs) /\ InUse(cs) = InUse(bs) \cup {slot} /\ slot \notin InUse(bs)
  /\ \A i \in DOMAIN bs : \E k \in DOMAIN cs : cs[k].address = bs[i].address
                                               /\ bs[i].used <= cs[k].used

(* The next slot of a bulk.                                                *)
LEMMA GrowsABulk ==
  ASSUME BulkAssumption, NEW bs, BulksOk(bs), NEW h \in DOMAIN bs, bs[h].used < BulkSize
  PROVE  Grown(bs, [bs EXCEPT ![h].used = @ + 1], Objects!Slot(bs[h], bs[h].used))
<1> DEFINE cs == [bs EXCEPT ![h].used = @ + 1]
           n == bs[h].used
           slot == Objects!Slot(bs[h], n)
<1>1. /\ Len(bs) \in Nat \ {0} /\ DOMAIN bs = 1 .. Len(bs) /\ BulkSize \in Nat \ {0}
      /\ \A i \in DOMAIN bs : /\ bs[i] \in BulkRecords
                              /\ bs[i].used \in 1 .. BulkSize /\ bs[i].address \in 1 .. MaxBulks
      /\ \A u : u \in InUse(bs) <=>
                  \E i \in DOMAIN bs : \E j \in 0 .. bs[i].used - 1 : u = Base(bs[i].address) + j
  BY SlotsInUse, SlotsOfBulks, Zenon
<1>2. slot = Base(bs[h].address) + n
  BY DEF Objects!Slot, Base
<1>3. slot \notin InUse(bs)
  <2>1. n \in 0 .. BulkSize - 1 /\ ~(n < bs[h].used)
    BY <1>1
  <2> HIDE DEF n, slot
  <2>2. Base(bs[h].address) + n \notin InUse(bs)
    BY <2>1, SlotsInUse
  <2> QED BY <1>2, <2>2
<1>4. /\ DOMAIN cs = DOMAIN bs
      /\ \A i \in DOMAIN bs : /\ cs[i] \in BulkRecords /\ cs[i].address = bs[i].address
                              /\ cs[i].used = IF i = h THEN n + 1 ELSE bs[i].used
  <2>1. DOMAIN cs = DOMAIN bs
    BY <1>1
  <2>2. ASSUME NEW i \in DOMAIN bs
        PROVE  /\ cs[i] \in BulkRecords /\ cs[i].address = bs[i].address
               /\ cs[i].used = IF i = h THEN n + 1 ELSE bs[i].used
    <3>1. CASE i = h
      <4> DEFINE b == bs[h]
                 c == [b EXCEPT !.used = @ + 1]
      <4>1. cs[i] = c
        BY <1>1, <3>1
      <4>2. b \in [address : 1 .. MaxBulks, used : 1 .. BulkSize] /\ b.used = n
        BY <1>1 DEF BulkRecords
      <4> HIDE DEF cs, b
      <4>3. n + 1 \in 1 .. BulkSize
        BY <1>1
      <4> HIDE DEF n
      <4>4. c \in BulkRecords /\ c.address = b.address /\ c.used = n + 1
        BY <4>2, <4>3 DEF BulkRecords
      <4> HIDE DEF c
      <4> QED BY <3>1, <4>1, <4>4, Zenon DEF b
    <3>2. CASE i # h
      <4>1. cs[i] = bs[i]
        BY <1>1, <3>2
      <4> HIDE DEF cs
      <4> QED BY <1>1, <3>2, <4>1
    <3> QED BY <3>1, <3>2
  <2> HIDE DEF cs
  <2> QED BY <2>1, <2>2
<1>5. BulksOk(cs)
  <2>1. cs = [i \in 1 .. Len(bs) |-> cs[i]]
    BY <1>1, Zenon
  <2> HIDE DEF cs
  <2>2. cs \in Seq(BulkRecords) /\ Len(cs) = Len(bs)
    BY <1>1, <1>4, <2>1
  <2>3. cs # <<>>
    BY <1>1, <2>2
  <2> QED BY <1>4, <2>2, <2>3 DEF BulksOk
<1> HIDE DEF cs
<1>6. ASSUME NEW u PROVE u \in InUse(cs) <=> u \in InUse(bs) \/ u = slot
  <2>1. u \in InUse(cs) <=>
          \E i \in DOMAIN bs : \E j \in 0 .. cs[i].used - 1 : u = Base(bs[i].address) + j
    <3>1. u \in InUse(cs) <=>
            \E i \in DOMAIN cs : \E j \in 0 .. cs[i].used - 1 : u = Base(cs[i].address) + j
      BY <1>5, SlotsInUse, Zenon
    <3>2. \A i \in DOMAIN bs : Base(cs[i].address) = Base(bs[i].address)
      BY <1>4, Zenon
    <3> HIDE DEF slot, n
    <3> QED BY <1>4, <3>1, <3>2
  <2>2. ASSUME NEW i \in DOMAIN bs
        PROVE (\E j \in 0 .. cs[i].used - 1 : u = Base(bs[i].address) + j)
              <=> \/ \E j \in 0 .. bs[i].used - 1 : u = Base(bs[i].address) + j
                  \/ i = h /\ u = slot
    <3>1. CASE i = h
      <4>1. 0 .. cs[i].used - 1 = (0 .. bs[i].used - 1) \cup {n}
        BY <1>1, <1>4, <3>1
      <4> HIDE DEF slot, n
      <4> QED BY <1>2, <3>1, <4>1
    <3>2. CASE i # h
      BY <1>4, <3>2
    <3> QED BY <3>1, <3>2
  <2> HIDE DEF slot
  <2> QED BY <1>1, <2>1, <2>2, Zenon
<1>7. \A i \in DOMAIN bs : \E k \in DOMAIN cs : cs[k].address = bs[i].address
                                                 /\ bs[i].used <= cs[k].used
  <2> TAKE i \in DOMAIN bs
  <2>1. i \in DOMAIN cs /\ cs[i].address = bs[i].address /\ bs[i].used <= cs[i].used
    BY <1>1, <1>4
  <2> QED BY <2>1
<1>8. InUse(cs) = InUse(bs) \cup {slot}
  <2> HIDE DEF slot
  <2> QED BY <1>6
<1> QED BY <1>3, <1>5, <1>7, <1>8, Zenon DEF Grown, cs, slot, n

(* The first slot of a new bulk, which is put in its place.                *)
LEMMA GrowsByABulk ==
  ASSUME BulkAssumption, NEW bs, BulksOk(bs), NEW n \in 1 .. Len(bs) + 1,
         NEW a \in (1 .. MaxBulks) \ {bs[i].address : i \in DOMAIN bs},
         \A i \in DOMAIN bs : bs[i].address < a <=> i < n
  PROVE  Grown(bs, InsertAt(bs, n, [address |-> a, used |-> 1]), Base(a))
<1> DEFINE x == [address |-> a, used |-> 1]
           cs == InsertAt(bs, n, x)
           slot == Base(a)
<1>1. /\ Len(bs) \in Nat \ {0} /\ DOMAIN bs = 1 .. Len(bs) /\ BulkSize \in Nat \ {0}
      /\ \A i \in DOMAIN bs : /\ bs[i] \in BulkRecords
                              /\ bs[i].used \in 1 .. BulkSize /\ bs[i].address \in 1 .. MaxBulks
                              /\ Base(bs[i].address) \in Nat
      /\ \A u : u \in InUse(bs) <=>
                  \E i \in DOMAIN bs : \E j \in 0 .. bs[i].used - 1 : u = Base(bs[i].address) + j
  BY SlotsInUse, SlotsOfBulks, Zenon
<1>2. x \in BulkRecords /\ x.address = a /\ x.used = 1
  BY <1>1 DEF BulkRecords
<1> HIDE DEF x
<1>3. HasInserted(cs, BulkRecords, bs, n, x)
  BY <1>2, InsertAtProperties DEF BulksOk
<1> HIDE DEF cs
<1>4. /\ cs \in Seq(BulkRecords) /\ Len(cs) = Len(bs) + 1 /\ DOMAIN cs = 1 .. Len(bs) + 1
      /\ \A i \in 1 .. Len(bs) : i < n => cs[i] = bs[i]
      /\ \A i \in 1 .. Len(bs) : ~(i < n) => cs[i + 1] = bs[i]
      /\ cs[n] = x
  <2>1. /\ cs \in Seq(BulkRecords) /\ Len(cs) = Len(bs) + 1
        /\ \A j \in 1 .. Len(bs) + 1 :
             cs[j] = IF j < n THEN bs[j] ELSE IF j = n THEN x ELSE bs[j - 1]
    BY <1>3 DEF HasInserted
  <2>2. DOMAIN cs = 1 .. Len(bs) + 1
    BY <2>1
  <2>3. ASSUME NEW i \in 1 .. Len(bs), ~(i < n) PROVE cs[i + 1] = bs[i]
    <3>1. i + 1 \in 1 .. Len(bs) + 1 /\ ~(i + 1 < n) /\ i + 1 # n /\ (i + 1) - 1 = i
      BY <1>1, <2>3
    <3> QED BY <2>1, <3>1
  <2>4. ASSUME NEW i \in 1 .. Len(bs), i < n PROVE cs[i] = bs[i]
    BY <1>1, <2>1, <2>4
  <2>5. cs[n] = x
    BY <1>1, <2>1
  <2> QED BY <2>1, <2>2, <2>3, <2>4, <2>5
<1>5. \A i \in DOMAIN bs : /\ i < n => bs[i].address < a
                           /\ ~(i < n) => a < bs[i].address
  <2> TAKE i \in DOMAIN bs
  <2>1. bs[i].address # a /\ bs[i].address \in Nat /\ a \in Nat
    BY <1>1
  <2> QED BY <2>1
<1> DEFINE old(k) == IF k < n THEN k ELSE k - 1
<1>6. \A k \in DOMAIN cs : k = n \/ (old(k) \in DOMAIN bs /\ cs[k] = bs[old(k)])
  <2> TAKE k \in DOMAIN cs
  <2>1. CASE k < n
    BY <1>1, <1>4, <2>1
  <2>2. CASE k > n
    <3>1. k - 1 \in 1 .. Len(bs) /\ ~(k - 1 < n) /\ (k - 1) + 1 = k /\ ~(k < n)
      BY <1>1, <1>4, <2>2
    <3> QED BY <1>1, <1>4, <3>1
  <2> QED BY <1>4, <2>1, <2>2
<1>7. BulksOk(cs)
  <2>1. ASSUME NEW i \in DOMAIN cs, NEW k \in DOMAIN cs, i < k
        PROVE  cs[i].address < cs[k].address
    <3>1. i \in Nat /\ k \in Nat
      BY <1>4
    <3>2. CASE i = n
      <4>1. old(k) \in DOMAIN bs /\ cs[k] = bs[old(k)] /\ ~(old(k) < n)
        BY <1>6, <2>1, <3>1, <3>2
      <4> HIDE DEF old
      <4> QED BY <1>2, <1>4, <1>5, <3>2, <4>1
    <3>3. CASE k = n
      <4>1. old(i) \in DOMAIN bs /\ cs[i] = bs[old(i)] /\ old(i) < n
        BY <1>6, <2>1, <3>1, <3>3
      <4> HIDE DEF old
      <4> QED BY <1>2, <1>4, <1>5, <3>3, <4>1
    <3>4. CASE i # n /\ k # n
      <4>1. /\ old(i) \in DOMAIN bs /\ cs[i] = bs[old(i)]
            /\ old(k) \in DOMAIN bs /\ cs[k] = bs[old(k)]
        BY <1>6, <3>4
      <4>2. old(i) < old(k)
        BY <2>1, <3>1, <3>4
      <4> HIDE DEF old
      <4> QED BY <4>1, <4>2 DEF BulksOk
    <3> QED BY <3>2, <3>3, <3>4
  <2>2. cs # <<>>
    BY <1>1, <1>4
  <2> QED BY <1>4, <2>1, <2>2 DEF BulksOk
<1>8. ASSUME NEW i \in DOMAIN bs PROVE \E k \in DOMAIN cs : cs[k] = bs[i]
  <2>1. CASE i < n
    BY <1>1, <1>4, <2>1
  <2>2. CASE ~(i < n)
    <3>1. i + 1 \in DOMAIN cs /\ cs[i + 1] = bs[i]
      BY <1>1, <1>4, <2>2
    <3> QED BY <3>1
  <2> QED BY <2>1, <2>2
<1>9. \A u : u \in InUse(cs) <=>
               \E k \in DOMAIN cs : \E j \in 0 .. cs[k].used - 1 : u = Base(cs[k].address) + j
  BY <1>7, SlotsInUse
<1>10. slot \in Nat /\ slot + 0 = slot /\ 0 .. 1 - 1 = {0}
  <2>1. a \in Nat
    BY <1>1
  <2>2. slot \in Nat
    BY <2>1, BasesLieApart, Zenon
  <2> HIDE DEF slot
  <2> QED BY <2>2
<1>11. ASSUME NEW u PROVE u \in InUse(cs) <=> u \in InUse(bs) \/ u = slot
  <2> HIDE DEF old, slot
  <2>1. ASSUME u \in InUse(cs) PROVE u \in InUse(bs) \/ u = slot
    <3>1. PICK k \in DOMAIN cs : \E j \in 0 .. cs[k].used - 1 : u = Base(cs[k].address) + j
      BY <1>9, <2>1
    <3>2. CASE k = n
      <4>1. cs[k].used - 1 = 1 - 1 /\ Base(cs[k].address) = slot
        BY <1>2, <1>4, <3>2 DEF slot
      <4> QED BY <1>10, <3>1, <4>1
    <3>3. CASE k # n
      <4>1. old(k) \in DOMAIN bs /\ cs[k] = bs[old(k)]
        BY <1>6, <3>3
      <4> QED BY <1>1, <3>1, <4>1
    <3> QED BY <3>2, <3>3
  <2>2. ASSUME u \in InUse(bs) PROVE u \in InUse(cs)
    <3>1. PICK i \in DOMAIN bs : \E j \in 0 .. bs[i].used - 1 : u = Base(bs[i].address) + j
      BY <1>1, <2>2, Zenon
    <3>2. PICK k \in DOMAIN cs : cs[k] = bs[i]
      BY <1>8
    <3> QED BY <1>9, <3>1, <3>2
  <2>3. slot \in InUse(cs)
    <3>1. n \in DOMAIN cs /\ 0 \in 0 .. cs[n].used - 1 /\ slot = Base(cs[n].address) + 0
      BY <1>2, <1>4, <1>10 DEF slot
    <3> QED BY <1>9, <3>1
  <2> QED BY <2>1, <2>2, <2>3
<1>12. slot \notin InUse(bs)
  <2> SUFFICES ASSUME slot \in InUse(bs) PROVE FALSE
    OBVIOUS
  <2>1. PICK i \in DOMAIN bs : \E j \in 0 .. bs[i].used - 1 : slot = Base(bs[i].address) + j
    BY <1>1
  <2>2. PICK j \in 0 .. bs[i].used - 1 : slot = Base(bs[i].address) + j
    BY <2>1
  <2>3. /\ j \in Nat /\ j < BulkSize /\ bs[i].address \in Nat /\ a \in Nat
        /\ Base(bs[i].address) \in Nat
    BY <1>1, <2>2
  <2>4. CASE bs[i].address < a
    <3>1. Base(bs[i].address) + BulkSize <= slot
      BY <2>3, <2>4, BasesLieApart, Zenon
    <3> HIDE DEF slot
    <3> QED BY <1>1, <1>10, <2>2, <2>3, <3>1
  <2>5. CASE a < bs[i].address
    <3>1. slot + BulkSize <= Base(bs[i].address)
      BY <2>3, <2>5, BasesLieApart, Zenon
    <3> HIDE DEF slot
    <3> QED BY <1>1, <1>10, <2>2, <2>3, <3>1
  <2> QED BY <1>5, <2>4, <2>5
<1>13. \A i \in DOMAIN bs : \E k \in DOMAIN cs : cs[k].address = bs[i].address
                                                  /\ bs[i].used <= cs[k].used
  <2> TAKE i \in DOMAIN bs
  <2>1. PICK k \in DOMAIN cs : cs[k] = bs[i]
    BY <1>8
  <2>2. bs[i].used <= cs[k].used
    BY <1>1, <2>1
  <2> QED BY <2>1, <2>2
<1>14. InUse(cs) = InUse(bs) \cup {slot}
  <2> HIDE DEF slot
  <2> QED BY <1>11
<1> QED BY <1>7, <1>12, <1>13, <1>14, Zenon DEF Grown, cs, slot, x

(* An object takes the first free slot, or a new one if there is none.     *)
LEMMA EmplaceKeeps ==
  ASSUME BulkAssumption, StoreOk(bulks, objects, freeListHead, link), NEW slot \in Objects!Slots,
         Objects!Emplace(slot)
  PROVE  /\ StoreOk(bulks', objects', freeListHead', link')
         /\ objects' = objects \cup {slot} /\ slot \notin objects /\ unexpected' = unexpected
         /\ \A l : Located(l, bulks) => Located(l, bulks')
         /\ Unused(bulks', objects') = Unused(bulks, objects) \ {slot}
         /\ \A u \in Unused(bulks, objects) : slot \in Unused(bulks, objects) /\ slot <= u
<1> DEFINE F == Unused(bulks, objects)
           G == F \ {slot}
<1>1. /\ BulksOk(bulks) /\ objects \subseteq InUse(bulks) /\ link \in Links
      /\ freeListHead = From(F, 0) /\ LinkedAs(link, F) /\ \A s \in Objects!Slots \ F : link[s] = 0
      /\ F = InUse(bulks) \ objects
  BY DEF StoreOk, Unused
<1>2. /\ F \subseteq Objects!Slots /\ Objects!Slots \subseteq Nat \ {0}
      /\ InUse(bulks) \subseteq Objects!Slots
  BY <1>1, SlotsInUse, SlotsOfBulks
<1> HIDE DEF F
<1>3. /\ objects' = objects \cup {slot} /\ unexpected' = unexpected
      /\ link' = [link EXCEPT ![slot] = 0]
  BY DEF Objects!Emplace, Objects!NULL
<1>4. freeListHead \in F \cup {0} /\ IsFrom(freeListHead, F, 0)
  BY <1>1, <1>2, FromProperties
<1>5. /\ link' \in Links /\ link'[slot] = 0
      /\ \A s \in Objects!Slots : s # slot => link'[s] = link[s]
  BY <1>1, <1>3 DEF Links
<1>6. CASE freeListHead # 0
  <2>1. slot = freeListHead /\ freeListHead' = link[slot] /\ bulks' = bulks
    BY <1>6 DEF Objects!Emplace, Objects!NULL
  <2>2. slot \in F /\ \A u \in F : slot <= u
    BY <1>2, <1>4, <1>6, <2>1 DEF IsFrom
  <2>3. /\ Unused(bulks', objects') = G /\ objects' \subseteq InUse(bulks') /\ BulksOk(bulks')
        /\ slot \notin objects
    BY <1>1, <1>3, <2>1, <2>2 DEF Unused
  <2>4. ASSUME NEW x \in Nat, slot <= x PROVE From(G, x + 1) = From(F, x + 1)
    <3>1. x + 1 \in Nat /\ G \subseteq Objects!Slots /\ slot \in Nat
      BY <1>2
    <3>2. \A u \in Objects!Slots : (u \in G /\ x + 1 <= u) <=> (u \in F /\ x + 1 <= u)
      <4> TAKE u \in Objects!Slots
      <4>1. ~(x + 1 <= slot)
        BY <2>4, <3>1
      <4> QED BY <4>1
    <3>3. F \subseteq Objects!Slots /\ G \subseteq Objects!Slots
      BY <1>2
    <3> DEFINE y == x + 1
    <3>4. y \in Nat /\ \A u \in Objects!Slots : (u \in G /\ y <= u) <=> (u \in F /\ y <= u)
      BY <3>1, <3>2
    <3> HIDE DEF G, y
    <3>5. From(G, y) = From(F, y)
      BY <3>3, <3>4, FromAgrees
    <3> QED BY <3>5 DEF y
  <2>5. From(G, 0) = From(F, slot + 1)
    <3>1. slot + 1 \in Nat /\ 0 \in Nat /\ G \subseteq Objects!Slots /\ slot \in Nat
      BY <1>2
    <3>2. \A u \in Objects!Slots : (u \in G /\ 0 <= u) <=> (u \in F /\ slot + 1 <= u)
      <4> TAKE u \in Objects!Slots
      <4>1. u \in Nat /\ (u \in F => slot <= u)
        BY <1>2, <2>2
      <4> QED BY <3>1, <4>1
    <3>3. F \subseteq Objects!Slots /\ G \subseteq Objects!Slots
      BY <1>2
    <3> DEFINE y == 0
               z == slot + 1
    <3>4. /\ y \in Nat /\ z \in Nat
          /\ \A u \in Objects!Slots : (u \in G /\ y <= u) <=> (u \in F /\ z <= u)
      BY <3>1, <3>2
    <3> HIDE DEF G, y, z
    <3>5. From(G, y) = From(F, z)
      BY <3>3, <3>4, FromAgrees
    <3> QED BY <3>5 DEF y, z
  <2>6. freeListHead' = From(G, 0)
    BY <1>1, <2>1, <2>2, <2>5 DEF LinkedAs
  <2>7. LinkedAs(link', G)
    <3> SUFFICES ASSUME NEW s \in G PROVE link'[s] = From(G, s + 1)
      BY DEF LinkedAs
    <3>1. s \in F /\ s # slot /\ s \in Nat /\ slot <= s /\ s \in Objects!Slots
      BY <1>2, <2>2
    <3>2. link'[s] = From(F, s + 1)
      BY <1>1, <1>5, <3>1 DEF LinkedAs
    <3> QED BY <2>4, <3>1, <3>2
  <2>8. \A s \in Objects!Slots \ G : link'[s] = 0
    BY <1>1, <1>5
  <2>9. StoreOk(bulks', objects', freeListHead', link')
    BY <1>5, <2>3, <2>6, <2>7, <2>8, Zenon DEF StoreOk
  <2> QED BY <1>3, <2>1, <2>2, <2>3, <2>9, Zenon DEF F
<1>7. CASE freeListHead = 0
  <2>1. F = {}
    <3> SUFFICES ASSUME NEW u \in F PROVE FALSE
      OBVIOUS
    <3>1. u < 0 /\ u \in Nat
      BY <1>2, <1>4, <1>7 DEF IsFrom
    <3> QED BY <3>1
  <2>2. Grown(bulks, bulks', slot) /\ freeListHead' = freeListHead
    <3> DEFINE hosts == {i \in DOMAIN bulks : bulks[i].used < BulkSize}
               host == Objects!Min(hosts)
    <3>1. hosts \subseteq 0 .. Len(bulks) /\ Len(bulks) \in Nat
      BY <1>1, SlotsInUse
    <3>2. CASE hosts # {}
      <4>1. /\ slot = Objects!Slot(bulks[host], bulks[host].used)
            /\ bulks' = [bulks EXCEPT ![host].used = @ + 1]
            /\ freeListHead' = freeListHead
        BY <1>7, <3>2, Zenon DEF Objects!Emplace, Objects!NULL
      <4>2. host \in hosts
        <5> HIDE DEF hosts
        <5>1. host = Min(hosts)
          BY Zenon DEF Objects!Min, Min
        <5>2. Min(hosts) \in hosts
          BY <3>1, <3>2, MinProperties, Zenon
        <5> QED BY <5>1, <5>2
      <4>3. host \in DOMAIN bulks /\ bulks[host].used < BulkSize
        BY <4>2
      <4> HIDE DEF host
      <4>4. Grown(bulks, [bulks EXCEPT ![host].used = @ + 1],
                  Objects!Slot(bulks[host], bulks[host].used))
        BY <1>1, <4>3, GrowsABulk
      <4> QED BY <4>1, <4>4, Zenon
    <3>3. CASE hosts = {}
      <4>1. PICK a \in (1 .. MaxBulks) \ {bulks[i].address : i \in DOMAIN bulks},
                 n \in 1 .. Len(bulks) + 1 :
                   /\ slot = a * BulkSize
                   /\ \A i \in DOMAIN bulks : bulks[i].address < a <=> i < n
                   /\ bulks' = SubSeq(bulks, 1, n - 1) \o <<[address |-> a, used |-> 1]>>
                               \o SubSeq(bulks, n, Len(bulks))
                   /\ freeListHead' = freeListHead
        BY <1>7, <3>3, Zenon DEF Objects!Emplace, Objects!NULL
      <4>2. slot = Base(a)
        BY <4>1 DEF Base
      <4>3. bulks' = InsertAt(bulks, n, [address |-> a, used |-> 1])
        BY <4>1, Zenon DEF InsertAt
      <4>4. Grown(bulks, InsertAt(bulks, n, [address |-> a, used |-> 1]), Base(a))
        BY <1>1, <4>1, GrowsByABulk
      <4> QED BY <4>1, <4>2, <4>3, <4>4, Zenon
    <3> QED BY <3>2, <3>3
  <2>3. /\ BulksOk(bulks') /\ InUse(bulks') = InUse(bulks) \cup {slot} /\ slot \notin InUse(bulks)
        /\ \A i \in DOMAIN bulks : \E k \in DOMAIN bulks' :
             bulks'[k].address = bulks[i].address /\ bulks[i].used <= bulks'[k].used
    BY <2>2 DEF Grown
  <2>4. G = {} /\ Unused(bulks', objects') = G /\ objects' \subseteq InUse(bulks')
        /\ slot \notin objects
    BY <1>1, <1>3, <2>1, <2>3 DEF Unused
  <2>5. freeListHead' = From(G, 0)
    BY <1>1, <2>1, <2>2
  <2>6. \A s \in Objects!Slots \ G : link'[s] = 0
    BY <1>1, <1>5, <2>1
  <2>7. LinkedAs(link', G)
    BY <2>4 DEF LinkedAs
  <2>8. StoreOk(bulks', objects', freeListHead', link')
    BY <1>5, <2>3, <2>4, <2>5, <2>6, <2>7, Zenon DEF StoreOk
  <2>9. ASSUME NEW l, Located(l, bulks) PROVE Located(l, bulks')
    <3>1. CASE l.bulk = 0
      BY <3>1 DEF Located
    <3>2. CASE l.bulk # 0
      <4>1. PICK i \in DOMAIN bulks : bulks[i].address = l.bulk /\ l.index \in 0 .. bulks[i].used - 1
        BY <2>9, <3>2 DEF Located
      <4>2. PICK k \in DOMAIN bulks' : bulks'[k].address = bulks[i].address
                                       /\ bulks[i].used <= bulks'[k].used
        BY <2>3
      <4>3. bulks[i].used \in Nat /\ bulks'[k].used \in Nat
        <5>1. bulks[i].used \in 1 .. BulkSize /\ bulks'[k].used \in 1 .. BulkSize
          BY <1>1, <2>3, SlotsInUse
        <5> QED BY <5>1
      <4>4. l.index \in 0 .. bulks'[k].used - 1
        BY <4>1, <4>2, <4>3
      <4> QED BY <4>1, <4>2, <4>4, Zenon DEF Located
    <3> QED BY <3>1, <3>2
  <2> QED BY <1>3, <2>1, <2>4, <2>8, <2>9 DEF F
<1> QED BY <1>6, <1>7

-----------------------------------------------------------------------------
(* No slot of F from x on is less.                                         *)
LEMMA FromIsBelow ==
  ASSUME NEW F, NEW x \in Nat, NEW m, IsFrom(m, F, x), NEW u \in F, u \in Nat, x <= u
  PROVE  m \in F /\ x <= m /\ m <= u
<1>1. CASE m \in F /\ x <= m /\ \A v \in F : x <= v => m <= v
  BY <1>1
<1>2. CASE m = 0 /\ \A v \in F : v < x
  <2>1. u < x
    BY <1>2
  <2> QED BY <2>1
<1> QED BY <1>1, <1>2 DEF IsFrom

(* What a slot more does to the least slot from x on.                      *)
LEMMA FromOfMore ==
  ASSUME BulkAssumption, NEW F, F \subseteq Objects!Slots, NEW slot \in Objects!Slots, slot \notin F,
         NEW x \in Nat
  PROVE  From(F \cup {slot}, x) =
           IF slot < x \/ (From(F, x) # 0 /\ From(F, x) < slot) THEN From(F, x) ELSE slot
<1> DEFINE G == F \cup {slot}
           m == From(F, x)
<1>1. IsFrom(m, F, x) /\ m \in F \cup {0} /\ m \in Nat
  BY FromProperties
<1>2. slot \in Nat /\ G \subseteq Objects!Slots /\ \A u \in F : u \in Nat
  BY SlotsOfBulks
<1> HIDE DEF m
<1>3. CASE slot < x \/ (m # 0 /\ m < slot)
  <2>1. IsFrom(m, G, x)
    <3>1. CASE m = 0
      <4>1. \A u \in G : u < x
        BY <1>1, <1>2, <1>3, <3>1 DEF IsFrom
      <4> QED BY <3>1, <4>1 DEF IsFrom
    <3>2. CASE m # 0
      <4>1. m \in F /\ x <= m /\ \A u \in F : x <= u => m <= u
        BY <1>1, <3>2 DEF IsFrom
      <4>2. x <= slot => m <= slot
        BY <1>1, <1>2, <1>3
      <4> QED BY <4>1, <4>2 DEF IsFrom
    <3> QED BY <3>1, <3>2
  <2>2. From(G, x) = m
    <3> HIDE DEF G
    <3> QED BY <1>2, <2>1, FromIsTheLeast, Zenon
  <2> QED BY <1>3, <2>2 DEF m
<1>4. CASE ~(slot < x \/ (m # 0 /\ m < slot))
  <2>1. IsFrom(slot, G, x)
    <3>1. x <= slot /\ (m = 0 \/ slot <= m)
      BY <1>1, <1>2, <1>4
    <3>2. ASSUME NEW u \in F, x <= u PROVE slot <= u
      <4>1. u \in Nat
        BY <1>2
      <4>2. m \in F /\ m <= u
        BY <1>1, <3>2, <4>1, FromIsBelow
      <4>3. m # 0
        BY <4>2, SlotsOfBulks
      <4> QED BY <1>1, <1>2, <3>1, <4>1, <4>2, <4>3
    <3>3. \A u \in G : x <= u => slot <= u
      BY <1>2, <3>2
    <3> QED BY <3>1, <3>3 DEF IsFrom
  <2>2. From(G, x) = slot
    <3> HIDE DEF G
    <3> QED BY <1>2, <2>1, FromIsTheLeast, Zenon
  <2> QED BY <1>4, <2>2 DEF m
<1> QED BY <1>3, <1>4

(* The free list is the slots of F.                                        *)
LEMMA ItemsAreUnused ==
  ASSUME BulkAssumption, NEW F, F \subseteq Objects!Slots, NEW lk \in Links, LinkedAs(lk, F)
  PROVE  Objects!Items(From(F, 0), lk) = F
<1>1. From(F, 0) \in F \cup {0}
  BY FromProperties
<1>2. \A s \in F : lk[s] \in F \cup {0}
  <2> TAKE s \in F
  <2>1. s + 1 \in Nat
    BY SlotsOfBulks
  <2>2. From(F, s + 1) \in F \cup {0}
    BY <2>1, FromProperties
  <2> QED BY <2>2 DEF LinkedAs
<1>3. Objects!Items(From(F, 0), lk) \subseteq F
  <2> DEFINE item == From(F, 0)
  <2>1. item \in F \cup {0}
    BY <1>1
  <2> HIDE DEF item
  <2>2. Objects!Items(item, lk) \subseteq F
    BY <1>2, <2>1, ChainStays
  <2> QED BY <2>2 DEF item
<1>4. F \subseteq Objects!Items(From(F, 0), lk)
  BY ChainReaches
<1> QED BY <1>3, <1>4

(* What is not used twice is put in its place; of a slot that is free      *)
(* already AppendFreeListItem finds no place.                              *)
LEMMA RemoveKeeps ==
  ASSUME BulkAssumption, StoreOk(bulks, objects, freeListHead, link), NEW slot \in InUse(bulks),
         Objects!RemoveObject(slot)
  PROVE  \/ unexpected' /\ slot \notin objects
         \/ /\ StoreOk(bulks', objects', freeListHead', link')
            /\ ~ unexpected'
            /\ bulks' = bulks /\ slot \in objects /\ objects' = objects \ {slot}
            /\ Unused(bulks', objects') = Unused(bulks, objects) \cup {slot}
<1> DEFINE F == Unused(bulks, objects)
           G == F \cup {slot}
           lk == [link EXCEPT ![slot] = 0]
           its == Objects!Items(freeListHead, lk)
           places == {i \in its : i < slot /\ (slot < lk[i] \/ lk[i] = 0)}
           place == Objects!Min(places)
           first == freeListHead = 0 \/ slot < freeListHead
<1>1. /\ BulksOk(bulks) /\ objects \subseteq InUse(bulks) /\ link \in Links
      /\ freeListHead = From(F, 0) /\ LinkedAs(link, F) /\ \A s \in Objects!Slots \ F : link[s] = 0
      /\ F = InUse(bulks) \ objects
  BY DEF StoreOk, Unused
<1>2. /\ F \subseteq Objects!Slots /\ \A u \in Objects!Slots : u \in Nat \ {0}
      /\ InUse(bulks) \subseteq Objects!Slots /\ slot \in Objects!Slots
  BY <1>1, SlotsInUse, SlotsOfBulks
<1> HIDE DEF F
<1>3. /\ freeListHead' = IF first THEN slot ELSE freeListHead
      /\ link' = IF first THEN [lk EXCEPT ![slot] = freeListHead]
                 ELSE IF places # {} THEN [lk EXCEPT ![slot] = lk[place], ![place] = slot]
                 ELSE lk
      /\ unexpected' = (~first /\ places = {})
      /\ objects' = objects \ {slot} /\ bulks' = bulks
  BY Zenon DEF Objects!RemoveObject, Objects!AppendFreeListItem, Objects!NULL
<1>4. freeListHead \in F \cup {0} /\ IsFrom(freeListHead, F, 0) /\ freeListHead \in Nat
  BY <1>1, <1>2, FromProperties
<1>5. lk \in Links /\ \A s \in Objects!Slots : lk[s] = IF s = slot THEN 0 ELSE link[s]
  BY <1>1, <1>2 DEF Links
<1> HIDE DEF lk, its, place, first
<1>6. \A s \in F : /\ s \in Nat \ {0} /\ s \in Objects!Slots /\ s + 1 \in Nat
                   /\ link[s] = From(F, s + 1) /\ link[s] \in F \cup {0}
                   /\ IsFrom(link[s], F, s + 1)
  <2> TAKE s \in F
  <2>1. s \in Nat \ {0} /\ s + 1 \in Nat /\ s \in Objects!Slots
    BY <1>2
  <2>2. link[s] = From(F, s + 1)
    BY <1>1 DEF LinkedAs
  <2> QED BY <1>2, <2>1, <2>2, FromProperties, Zenon
<1>7. CASE slot \in F
  <2>1. its \subseteq F
    <3>1. \A s \in F : lk[s] \in F \cup {0}
      BY <1>5, <1>6
    <3> QED BY <1>2, <1>4, <1>5, <3>1, ChainStays, Zenon DEF its
  <2>2. ASSUME NEW i \in places PROVE FALSE
    <3>1. i \in F /\ i < slot /\ (slot < lk[i] \/ lk[i] = 0)
      BY <2>1
    <3>2. lk[i] = link[i] /\ i \in Nat /\ slot \in Nat /\ link[i] \in Nat /\ IsFrom(link[i], F, i + 1)
      BY <1>2, <1>5, <1>6, <3>1
    <3>3. i + 1 <= slot
      BY <3>1, <3>2
    <3>4. link[i] # 0 /\ link[i] <= slot
      <4>1. CASE link[i] = 0 /\ \A u \in F : u < i + 1
        BY <1>7, <3>2, <3>3, <4>1
      <4>2. CASE link[i] \in F /\ \A u \in F : i + 1 <= u => link[i] <= u
        BY <1>6, <1>7, <3>3, <4>2
      <4> QED BY <3>2, <4>1, <4>2 DEF IsFrom
    <3> QED BY <3>1, <3>2, <3>4
  <2>3. ~first
    <3>1. slot \in Nat \ {0}
      BY <1>2
    <3>2. freeListHead \in F /\ freeListHead <= slot
      BY <1>4, <1>7, <3>1, FromIsBelow
    <3>3. freeListHead # 0
      BY <1>6, <3>2
    <3> QED BY <1>4, <3>1, <3>2, <3>3 DEF first
  <2>4. unexpected'
    BY <1>3, <2>2, <2>3, Zenon
  <2>5. slot \notin objects
    BY <1>1, <1>7
  <2> QED BY <2>4, <2>5
<1>8. CASE slot \notin F
  <2>1. slot \in objects /\ slot \in Nat /\ slot + 1 \in Nat
    BY <1>1, <1>2, <1>8
  <2>2. \A s \in Objects!Slots : lk[s] = link[s]
    BY <1>1, <1>5, <1>8
  <2>3. LinkedAs(lk, F)
    BY <1>1, <1>2, <2>2, Zenon DEF LinkedAs
  <2>4. its = F
    BY <1>1, <1>2, <1>5, <2>3, ItemsAreUnused DEF its
  <2>5. /\ Unused(bulks', objects') = G /\ objects' \subseteq InUse(bulks') /\ BulksOk(bulks')
        /\ G \subseteq Objects!Slots
    BY <1>1, <1>2, <1>3 DEF Unused
  <2>6. \A x \in Nat : From(G, x) = IF slot < x \/ (From(F, x) # 0 /\ From(F, x) < slot)
                                    THEN From(F, x) ELSE slot
    BY <1>2, <1>8, FromOfMore
  <2>7. freeListHead' = From(G, 0)
    <3>1. ~(slot < 0) /\ 0 \in Nat
      BY <2>1
    <3>2. freeListHead' = IF first THEN slot ELSE freeListHead
      BY <1>3
    <3>3. first <=> ~(freeListHead # 0 /\ freeListHead < slot)
      BY <1>4, <1>8, <2>1 DEF first
    <3> HIDE DEF G
    <3>4. From(G, 0) = IF slot < 0 \/ (freeListHead # 0 /\ freeListHead < slot)
                       THEN freeListHead ELSE slot
      BY <1>1, <2>6, <3>1
    <3> QED BY <3>1, <3>2, <3>3, <3>4
  <2>8. CASE first
    <3>1. link' = [lk EXCEPT ![slot] = freeListHead]
      BY <1>3, <2>8
    <3>2. /\ link' \in Links /\ link'[slot] = freeListHead
          /\ \A s \in Objects!Slots : s # slot => link'[s] = link[s]
      BY <1>2, <1>4, <1>5, <2>2, <3>1 DEF Links
    <3>3. \A u \in F : slot < u
      <4> TAKE u \in F
      <4>1. u \in Nat /\ 0 <= u /\ 0 \in Nat
        BY <1>6
      <4>2. freeListHead <= u
        BY <1>4, <4>1, FromIsBelow
      <4>3. freeListHead # 0
        BY <1>4, <1>6, <4>1, FromIsBelow
      <4> QED BY <1>4, <2>1, <2>8, <4>1, <4>2, <4>3 DEF first
    <3>4. LinkedAs(link', G)
      <4> SUFFICES ASSUME NEW s \in G PROVE link'[s] = From(G, s + 1)
        BY DEF LinkedAs
      <4>1. CASE s = slot
        <5> DEFINE y == 0
                   z == slot + 1
        <5>1. /\ y \in Nat /\ z \in Nat
              /\ \A u \in Objects!Slots : (u \in F /\ y <= u) <=> (u \in F /\ z <= u)
          <6>1. \A u \in F : y <= u /\ z <= u
            BY <1>6, <2>1, <3>3
          <6>2. y \in Nat /\ z \in Nat
            BY <2>1
          <6> QED BY <6>1, <6>2
        <5>2. slot < z
          BY <2>1
        <5> HIDE DEF y, z
        <5>3. From(F, y) = From(F, z)
          BY <1>2, <5>1, FromAgrees
        <5>4. From(G, z) = From(F, z)
          BY <2>6, <5>1, <5>2
        <5> QED BY <1>1, <3>2, <4>1, <5>3, <5>4 DEF y, z
      <4>2. CASE s # slot
        <5>1. s \in F /\ s + 1 \in Nat /\ link'[s] = From(F, s + 1) /\ slot < s + 1
          BY <1>6, <2>1, <3>2, <3>3, <4>2
        <5> QED BY <2>6, <5>1
      <4> QED BY <4>1, <4>2
    <3>5. \A s \in Objects!Slots \ G : link'[s] = 0
      BY <1>1, <3>2
    <3>6. ~ unexpected'
      BY <1>3, <2>8, Zenon
    <3> QED BY <1>3, <2>1, <2>5, <2>7, <3>2, <3>4, <3>5, <3>6, Zenon DEF StoreOk, F
  <2>9. CASE ~first
    <3>1. freeListHead \in F /\ freeListHead < slot /\ freeListHead \in Nat
      BY <1>4, <1>8, <2>1, <2>9 DEF first
    <3>2. places # {}
      <4> DEFINE Lower == {u \in F : u < slot}
      <4>1. Lower \subseteq 0 .. slot /\ freeListHead \in Lower /\ slot \in Nat
        <5>1. \A u \in F : u \in Nat
          BY <1>6
        <5>2. \A u \in Lower : u \in 0 .. slot
          BY <2>1, <5>1
        <5>3. Lower \subseteq 0 .. slot
          <6> HIDE DEF Lower
          <6> QED BY <5>2
        <5>4. freeListHead \in Lower
          BY <3>1
        <5> QED BY <2>1, <5>3, <5>4
      <4> HIDE DEF Lower
      <4>2. Max(Lower) \in Lower /\ \A u \in Lower : u <= Max(Lower)
        BY <4>1, MaxProperties, Zenon
      <4>3. PICK p \in Lower : \A u \in Lower : u <= p
        BY <4>2
      <4>4. p \in F /\ p < slot /\ \A u \in F : u < slot => u <= p
        BY <4>3 DEF Lower
      <4>5. ASSUME link[p] # 0 PROVE slot < link[p]
        <5>1. link[p] \in F /\ p + 1 <= link[p] /\ link[p] \in Nat /\ p \in Nat
          BY <1>6, <4>4, <4>5 DEF IsFrom
        <5>2. ~(link[p] <= p)
          BY <5>1
        <5>3. ~(link[p] < slot) /\ link[p] # slot
          BY <1>8, <4>4, <5>1, <5>2
        <5> QED BY <2>1, <5>1, <5>3
      <4>6. p \in places
        BY <1>6, <2>2, <2>4, <4>4, <4>5
      <4> QED BY <4>6
    <3>3. place \in places
      <4>1. places \subseteq 0 .. slot /\ slot \in Nat
        BY <1>6, <2>1, <2>4
      <4> HIDE DEF places
      <4>2. place = Min(places)
        BY Zenon DEF Objects!Min, Min, place
      <4>3. Min(places) \in places
        BY <3>2, <4>1, MinProperties, Zenon
      <4> QED BY <4>2, <4>3
    <3> DEFINE p == place
    <3> HIDE DEF p
    <3>4. /\ p \in F /\ p < slot /\ (slot < link[p] \/ link[p] = 0)
          /\ p \in Nat /\ p \in Objects!Slots /\ p # slot
      BY <1>6, <1>8, <2>2, <2>4, <3>3 DEF p
    <3>5. \A u \in F : p < u => slot < u
      <4> TAKE u \in F
      <4>1. u \in Nat /\ p + 1 \in Nat /\ IsFrom(link[p], F, p + 1)
        BY <1>6, <3>4
      <4>2. ASSUME p < u PROVE slot < u
        <5>1. p + 1 <= u
          BY <3>4, <4>1, <4>2
        <5>2. link[p] \in F /\ link[p] <= u
          BY <4>1, <5>1, FromIsBelow
        <5>3. link[p] \in Nat \ {0}
          BY <1>6, <5>2
        <5> QED BY <2>1, <3>4, <4>1, <5>2, <5>3
      <4> QED BY <4>2
    <3>6. link' = [lk EXCEPT ![slot] = lk[p], ![p] = slot]
      BY <1>3, <2>9, <3>2 DEF p
    <3>7. /\ link' \in Links /\ link'[slot] = link[p] /\ link'[p] = slot
          /\ \A s \in Objects!Slots : s # slot /\ s # p => link'[s] = link[s]
      <4>1. lk[p] = link[p] /\ lk[p] \in Objects!Slots \cup {0}
        BY <1>5, <2>2, <3>4 DEF Links
      <4>2. link' \in Links
        BY <1>2, <1>5, <3>4, <3>6, <4>1 DEF Links
      <4>3. DOMAIN lk = Objects!Slots
        BY <1>5 DEF Links
      <4> QED BY <1>2, <2>2, <3>4, <3>6, <4>1, <4>2, <4>3
    <3>8. LinkedAs(link', G)
      <4> SUFFICES ASSUME NEW s \in G PROVE link'[s] = From(G, s + 1)
        BY DEF LinkedAs
      <4>1. CASE s = slot
        <5> DEFINE y == p + 1
                   z == slot + 1
        <5>1. y \in Nat /\ z \in Nat /\ slot < z
          BY <2>1, <3>4
        <5>2. \A u \in Objects!Slots : (u \in F /\ y <= u) <=> (u \in F /\ z <= u)
          <6> TAKE u \in Objects!Slots
          <6>1. u \in Nat /\ (u \in F /\ p < u => slot < u)
            BY <1>2, <3>5
          <6> QED BY <2>1, <3>4, <6>1
        <5>3. link'[slot] = From(F, y)
          BY <1>6, <3>4, <3>7
        <5> HIDE DEF y, z
        <5>4. From(F, y) = From(F, z)
          BY <1>2, <5>1, <5>2, FromAgrees
        <5>5. From(G, z) = From(F, z)
          BY <2>6, <5>1
        <5> QED BY <4>1, <5>3, <5>4, <5>5 DEF z
      <4>2. CASE s = p
        <5>1. s + 1 \in Nat /\ link[s] = From(F, s + 1) /\ link[s] \in F \cup {0}
          BY <1>6, <3>4, <4>2
        <5>4. ~(slot < s + 1)
          BY <2>1, <3>4, <4>2
        <5>5. link[s] \in Nat
          BY <1>6, <5>1
        <5>2. ~(link[s] # 0 /\ link[s] < slot)
          BY <2>1, <3>4, <4>2, <5>5
        <5>3. From(G, s + 1) = slot
          BY <2>6, <5>1, <5>2, <5>4, Zenon
        <5> QED BY <3>7, <4>2, <5>3
      <4>3. CASE s # slot /\ s # p
        <5>1. /\ s \in F /\ s \in Nat /\ s + 1 \in Nat /\ link'[s] = link[s]
              /\ link[s] = From(F, s + 1) /\ link[s] \in Nat /\ IsFrom(link[s], F, s + 1)
          BY <1>6, <3>7, <4>3
        <5>2. slot < s + 1 \/ (link[s] # 0 /\ link[s] < slot)
          <6>1. CASE p < s
            BY <2>1, <3>5, <5>1, <6>1
          <6>2. CASE s < p
            <7>1. s + 1 <= p
              BY <3>4, <5>1, <6>2
            <7>2. link[s] # 0 /\ link[s] <= p
              BY <1>6, <3>4, <5>1, <7>1 DEF IsFrom
            <7> QED BY <2>1, <3>4, <5>1, <7>2
          <6> QED BY <3>4, <4>3, <5>1, <6>1, <6>2
        <5> QED BY <2>6, <5>1, <5>2
      <4> QED BY <4>1, <4>2, <4>3
    <3>9. \A s \in Objects!Slots \ G : link'[s] = 0
      BY <1>1, <3>4, <3>7
    <3>10. ~ unexpected'
      BY <1>3, <3>2, Zenon
    <3> QED BY <1>3, <2>1, <2>5, <2>7, <3>7, <3>8, <3>9, <3>10, Zenon DEF StoreOk, F
  <2> QED BY <2>8, <2>9
<1> QED BY <1>7, <1>8

-----------------------------------------------------------------------------
(* Foreach starts at the first object, if the first bulk has one.          *)
LEMMA BeginForeachKeeps ==
  ASSUME BulkAssumption, BulkInv, Objects!BeginForeach
  PROVE  BulkInv'
<1> DEFINE F == Unused(bulks, objects)
           base == Base(bulks[1].address)
           cur == base - 1
           r == Objects!TrySetIndex(bulks[1], 0, freeListHead, link)
           b == ~r.found
           ix == IF r.found THEN r.index ELSE 0
<1>1. /\ ~unexpected /\ astray' = b
      /\ loop' = [bulk |-> r.bulk, index |-> ix, free |-> r.free, due |-> objects, created |-> {}]
      /\ bulks' = bulks /\ objects' = objects /\ freeListHead' = freeListHead /\ link' = link
      /\ unexpected' = unexpected
  BY Zenon DEF Objects!BeginForeach, Objects!storageVars
<1>2. StoreOk(bulks, objects, freeListHead, link)
  BY <1>1 DEF BulkInv
<1>3. /\ BulksOk(bulks) /\ objects \subseteq InUse(bulks) /\ link \in Links
      /\ freeListHead = From(F, 0) /\ LinkedAs(link, F) /\ F = InUse(bulks) \ objects
  BY <1>2 DEF StoreOk, Unused
<1>4. /\ 1 \in DOMAIN bulks /\ bulks[1].used \in 1 .. BulkSize /\ bulks[1].address \in 1 .. MaxBulks
      /\ base \in Nat \ {0} /\ InUse(bulks) \subseteq Objects!Slots /\ BulkSize \in Nat
      /\ Objects!Slots \subseteq Nat
  BY <1>3, SlotsInUse, SlotsOfBulks
<1> HIDE DEF F, base
<1>5. ASSUME NEW u \in InUse(bulks) PROVE u \in Nat /\ base <= u
  <2>1. u \in Nat
    BY <1>4, Zenon
  <2>2. PICK i \in DOMAIN bulks : \E j \in 0 .. bulks[i].used - 1 : u = Base(bulks[i].address) + j
    BY <1>3, SlotsInUse
  <2>3. PICK j \in 0 .. bulks[i].used - 1 : u = Base(bulks[i].address) + j
    BY <2>2
  <2>4. Base(bulks[i].address) \in Nat /\ i \in Nat /\ (i = 1 \/ 1 < i) /\ j \in Nat
    <3>1. Base(bulks[i].address) \in Nat /\ DOMAIN bulks = 1 .. Len(bulks)
          /\ bulks[i].used \in 1 .. BulkSize /\ Len(bulks) \in Nat
      BY <1>3, SlotsInUse
    <3> QED BY <2>3, <3>1
  <2>5. base <= Base(bulks[i].address)
    <3>1. CASE i = 1
      BY <1>4, <3>1 DEF base
    <3>2. CASE 1 < i
      <4>1. base + BulkSize <= Base(bulks[i].address)
        BY <1>3, <1>4, <3>2, SlotsInUse DEF base
      <4> QED BY <1>4, <2>4, <4>1
    <3> QED BY <2>4, <3>1, <3>2
  <2> QED BY <1>4, <2>1, <2>3, <2>4, <2>5
<1>6. freeListHead = From(F, base + 0) /\ base + 0 = base /\ freeListHead \in Objects!Slots \cup {0}
  <2> DEFINE y == 0
             z == base + 0
  <2>1. F \subseteq Objects!Slots
    BY <1>3, <1>4
  <2>2. y \in Nat /\ z \in Nat /\ z = base
    BY <1>4
  <2>3. \A u \in Objects!Slots : (u \in F /\ y <= u) <=> (u \in F /\ z <= u)
    <3>1. \A u \in F : y <= u /\ z <= u
      BY <1>3, <1>5, <2>2
    <3> QED BY <3>1
  <2> HIDE DEF y, z
  <2>4. From(F, y) = From(F, z)
    BY <2>1, <2>2, <2>3, FromAgrees
  <2>5. From(F, y) \in F \cup {0}
    BY <2>1, <2>2, FromProperties
  <2> QED BY <1>3, <2>1, <2>2, <2>4, <2>5 DEF y, z
<1>7. cur \in Nat /\ cur < base + 0
  BY <1>4
<1>8. Goes(r, F, bulks, cur, 1)
  <2>1. Passed(F, bulks, cur, base + 0)
    <3> SUFFICES ASSUME NEW u \in InUse(bulks), u < base + 0 PROVE FALSE
      BY DEF Passed
    <3> QED BY <1>4, <1>5
  <2>2. r = Objects!TrySetIndex(bulks[1], 0, From(F, base + 0), link)
    BY <1>6, Zenon
  <2>3. 0 \in 0 .. bulks[1].used /\ F \subseteq InUse(bulks)
    BY <1>3, <1>4
  <2> HIDE DEF cur
  <2> QED BY <1>3, <1>4, <1>7, <2>1, <2>2, <2>3, TryGoesOn DEF base
<1>9. r \in Trials /\ r.bulk = bulks[1].address /\ (r.found => r.index \in 0 .. bulks[1].used - 1)
  <2>1. 0 \in 0 .. bulks[1].used
    BY <1>4
  <2> QED BY <1>3, <1>4, <1>6, <2>1, TrialsAreRecords
<1> HIDE DEF cur, r
<1>10. /\ ix \in Nat /\ ix \in 0 .. bulks[1].used - 1 /\ r.bulk \in 1 .. MaxBulks
       /\ r.free \in Objects!Slots \cup {0}
  BY <1>4, <1>9 DEF Trials
<1> HIDE DEF ix
<1>11. /\ loop' \in Loops /\ loop'.bulk = r.bulk /\ loop'.index = ix /\ loop'.free = r.free
       /\ loop'.due = objects
  <2>1. objects \in SUBSET Objects!Slots /\ {} \in SUBSET Objects!Slots /\ r.bulk \in 0 .. MaxBulks
    BY <1>3, <1>4, <1>10
  <2> QED BY <1>1, <1>10, <2>1 DEF Loops
<1>12. Located(loop', bulks)
  BY <1>4, <1>9, <1>10, <1>11 DEF Located
<1>13. ASSUME r.found
       PROVE  /\ loop'.bulk # 0 /\ Here(loop') \in objects /\ loop'.free = From(F, Here(loop') + 1)
              /\ \A s \in objects : Here(loop') <= s => s \in loop'.due \cup loop'.created
              /\ \A s \in loop'.due : s \in objects /\ Here(loop') <= s
  <2>1. Lands(r, F, bulks, cur) /\ ix = r.index
    BY <1>8, <1>13 DEF Goes, ix
  <2>2. Here(loop') = Here(r)
    BY <1>11, <2>1 DEF Here
  <2>3. /\ Here(r) \in InUse(bulks) \ F /\ r.free = From(F, Here(r) + 1)
        /\ \A u \in InUse(bulks) : cur < u /\ u < Here(r) => u \in F
    BY <2>1 DEF Lands, Passed
  <2>4. ASSUME NEW s \in objects PROVE Here(r) <= s
    <3>1. s \in InUse(bulks) /\ s \notin F
      BY <1>3
    <3>2. s \in Nat /\ base <= s /\ Here(r) \in Nat
      BY <1>5, <2>3, <3>1
    <3>3. cur < s
      BY <1>4, <3>2 DEF cur
    <3> QED BY <2>3, <3>1, <3>2, <3>3
  <2>5. loop'.bulk # 0
    BY <1>10, <1>11
  <2> QED BY <1>3, <1>11, <2>2, <2>3, <2>4, <2>5
<1>14. LoopOk(loop', bulks, objects, b)
  BY <1>11, <1>12, <1>13, Zenon DEF LoopOk, F
<1> HIDE DEF b
<1>15. StoreOk(bulks', objects', freeListHead', link') /\ LoopOk(loop', bulks', objects', astray')
  BY <1>1, <1>2, <1>14, Zenon
<1> QED BY <1>15 DEF BulkInv

(* Between loops the objects come and go.                                  *)
LEMMA CreateKeeps ==
  ASSUME BulkAssumption, BulkInv, Objects!Create
  PROVE  BulkInv'
<1>1. PICK slot \in Objects!Slots : Objects!Emplace(slot)
  BY DEF Objects!Create
<1>2. loop.bulk = 0 /\ ~unexpected /\ loop' = loop /\ astray' = astray
  BY DEF Objects!Create, Objects!Idle, Objects!NULL
<1>3. StoreOk(bulks, objects, freeListHead, link) /\ LoopOk(loop, bulks, objects, astray)
  BY <1>2 DEF BulkInv
<1>4. StoreOk(bulks', objects', freeListHead', link')
  BY <1>1, <1>3, EmplaceKeeps
<1>5. LoopOk(loop', bulks', objects', astray')
  BY <1>2, <1>3 DEF LoopOk, Located
<1> QED BY <1>4, <1>5 DEF BulkInv

(* An object of a player that left.                                        *)
LEMMA RemoveRemoteObjectKeeps ==
  ASSUME BulkAssumption, BulkInv, Objects!RemoveRemoteObject
  PROVE  BulkInv'
<1>1. PICK slot \in objects : Objects!RemoveObject(slot)
  BY DEF Objects!RemoveRemoteObject
<1>2. loop.bulk = 0 /\ ~unexpected /\ loop' = loop /\ astray' = astray
  BY DEF Objects!RemoveRemoteObject, Objects!Idle, Objects!NULL
<1>3. StoreOk(bulks, objects, freeListHead, link) /\ LoopOk(loop, bulks, objects, astray)
  BY <1>2 DEF BulkInv
<1>4. slot \in InUse(bulks)
  BY <1>3 DEF StoreOk
<1>5. unexpected' \/ StoreOk(bulks', objects', freeListHead', link')
  BY <1>1, <1>3, <1>4, RemoveKeeps
<1>6. LoopOk(loop', bulks', objects', astray')
  BY <1>2, <1>3 DEF LoopOk, Located
<1> QED BY <1>5, <1>6 DEF BulkInv

(* A scene that is loaded has the camera alone, in one bulk.               *)
LEMMA CameraAlone ==
  ASSUME BulkAssumption, NEW a \in 1 .. MaxBulks
  PROVE  StoreOk(<<[address |-> a, used |-> 1]>>, {Base(a)}, 0, [s \in Objects!Slots |-> 0])
<1> DEFINE x == [address |-> a, used |-> 1]
           bs == <<x>>
           lk == [s \in Objects!Slots |-> 0]
<1>1. BulkSize \in Nat \ {0} /\ Base(a) \in Nat
  BY SlotsOfBulks
<1>2. x \in BulkRecords /\ x.address = a /\ x.used = 1
  BY <1>1 DEF BulkRecords
<1> HIDE DEF x
<1>3. bs \in Seq(BulkRecords) /\ DOMAIN bs = {1} /\ bs[1] = x /\ bs # <<>>
  BY <1>2
<1> HIDE DEF bs
<1>4. BulksOk(bs)
  BY <1>3 DEF BulksOk
<1>5. InUse(bs) = {Base(a)}
  <2>1. \A u : u \in InUse(bs) <=>
                 \E i \in DOMAIN bs : \E j \in 0 .. bs[i].used - 1 : u = Base(bs[i].address) + j
    BY <1>4, SlotsInUse, Zenon
  <2>2. 0 .. bs[1].used - 1 = {0} /\ Base(bs[1].address) = Base(a)
    BY <1>2, <1>3
  <2>3. Base(a) + 0 = Base(a)
    BY <1>1
  <2>4. \A u : u \in InUse(bs) <=> u = Base(a) + 0
    BY <1>3, <2>1, <2>2
  <2> QED BY <2>3, <2>4
<1>6. Unused(bs, {Base(a)}) = {}
  BY <1>5 DEF Unused
<1>7. From({}, 0) = 0
  BY FromProperties
<1>8. lk \in Links /\ \A s \in Objects!Slots : lk[s] = 0
  BY DEF Links
<1> HIDE DEF lk
<1> QED BY <1>4, <1>5, <1>6, <1>7, <1>8 DEF StoreOk, LinkedAs, lk, bs, x

(* Clear and Setup leave one bulk with the camera.                         *)
LEMMA ReloadMapKeeps ==
  ASSUME BulkAssumption, BulkInv, Objects!ReloadMap
  PROVE  BulkInv'
<1> DEFINE old == bulks[Len(bulks)]
           kept == [old EXCEPT !.used = 1]
           x == [address |-> old.address, used |-> 1]
<1>1. /\ loop.bulk = 0 /\ ~unexpected /\ loop' = loop /\ astray' = astray
      /\ bulks' = <<kept>> /\ objects' = {Objects!Slot(kept, 0)} /\ freeListHead' = 0
      /\ link' = [s \in Objects!Slots |-> 0]
  BY DEF Objects!ReloadMap, Objects!Idle, Objects!NULL
<1>2. StoreOk(bulks, objects, freeListHead, link) /\ LoopOk(loop, bulks, objects, astray)
  BY <1>1 DEF BulkInv
<1>3. old \in BulkRecords
  <2>1. Len(bulks) \in DOMAIN bulks /\ \A i \in DOMAIN bulks : bulks[i] \in BulkRecords
    BY <1>2, SlotsInUse DEF StoreOk
  <2> QED BY <2>1
<1> HIDE DEF old
<1>4. kept = x /\ x.address = old.address /\ old.address \in 1 .. MaxBulks
  BY <1>3 DEF BulkRecords
<1>5. Objects!Slot(kept, 0) = Base(old.address)
  <2>1. Base(old.address) \in Nat
    BY <1>4, SlotsOfBulks
  <2>2. Objects!Slot(kept, 0) = Base(old.address) + 0
    BY <1>4 DEF Objects!Slot, Base
  <2> HIDE DEF kept
  <2> QED BY <2>1, <2>2
<1>6. StoreOk(<<x>>, {Base(old.address)}, 0, [s \in Objects!Slots |-> 0])
  BY <1>4, CameraAlone
<1>7. StoreOk(bulks', objects', freeListHead', link')
  BY <1>1, <1>4, <1>5, <1>6, Zenon
<1>8. LoopOk(loop', bulks', objects', astray')
  BY <1>1, <1>2 DEF LoopOk, Located
<1> QED BY <1>7, <1>8 DEF BulkInv

-----------------------------------------------------------------------------
(* After each callback of Simulate the loop stands where it should.        *)
LEMMA LoopGoesOn ==
  ASSUME BulkAssumption, StoreOk(bulks', objects', freeListHead', link'), loop \in Loops,
         loop.bulk # 0, Located(loop, bulks'), NEW new, new \subseteq Objects!Slots,
         Objects!Continue(new),
         ~astray' => /\ loop.free = From(Unused(bulks', objects'), Here(loop) + 1)
                     /\ \A s \in objects' : Here(loop) < s => s \in loop.due \cup loop.created \cup new
                     /\ \A s \in loop.due : s = Here(loop) \/ (s \in objects' /\ Here(loop) < s)
  PROVE  BulkInv'
<1>1. Objects!Current = Here(loop)
  BY DEF Objects!Current, Here, Base
<1>2. loop' = Objects!Advanced([loop EXCEPT !.due = @ \ {Here(loop)},
                                            !.created = (@ \cup new) \ {Here(loop)}], bulks', link')
  BY <1>1, Zenon DEF Objects!Continue
<1>3. LoopOk(loop', bulks', objects', astray')
  BY <1>2, ContinueKeeps, Zenon
<1> QED BY <1>3 DEF BulkInv

(* The object is removed, or its scripts run and perhaps create another.   *)
LEMMA VisitKeeps ==
  ASSUME BulkAssumption, BulkInv, Objects!Visit
  PROVE  BulkInv'
<1> DEFINE F == Unused(bulks, objects)
           cur == Here(loop)
<1>1. loop.bulk # 0 /\ ~unexpected /\ Objects!Current = cur
  BY DEF Objects!Visit, Objects!Idle, Objects!NULL, Objects!Current, Here, Base
<1>2. StoreOk(bulks, objects, freeListHead, link) /\ LoopOk(loop, bulks, objects, astray)
  BY <1>1 DEF BulkInv
<1>3. /\ BulksOk(bulks) /\ objects \subseteq InUse(bulks) /\ F = InUse(bulks) \ objects
      /\ F \subseteq Objects!Slots /\ InUse(bulks) \subseteq Objects!Slots
      /\ \A u \in Objects!Slots : u \in Nat
  BY <1>2, SlotsInUse, SlotsOfBulks DEF StoreOk, Unused
<1>4. loop \in Loops /\ Located(loop, bulks)
  BY <1>2 DEF LoopOk
<1>5. cur \in InUse(bulks) /\ cur \in Nat /\ cur + 1 \in Nat
  <2>1. PICK i \in DOMAIN bulks : bulks[i].address = loop.bulk /\ loop.index \in 0 .. bulks[i].used - 1
    BY <1>1, <1>4 DEF Located
  <2>2. cur = Base(bulks[i].address) + loop.index
    BY <2>1 DEF Here
  <2> HIDE DEF cur
  <2>3. cur \in InUse(bulks)
    BY <1>3, <2>1, <2>2, SlotsInUse, Zenon
  <2> QED BY <1>3, <2>3
<1>6. ASSUME ~astray
      PROVE  /\ cur \in objects /\ loop.free = From(F, cur + 1)
             /\ \A s \in objects : cur <= s => s \in loop.due \cup loop.created
             /\ \A s \in loop.due : s \in objects /\ cur <= s
  BY <1>1, <1>2, <1>6 DEF LoopOk
<1>7. ASSUME ~astray, NEW s \in objects, cur < s PROVE s \in loop.due \cup loop.created
  <2>1. s \in Nat
    BY <1>3
  <2>2. cur <= s
    BY <1>5, <1>7, <2>1
  <2> QED BY <1>6, <1>7, <2>2
<1>8. ASSUME ~astray, NEW s \in loop.due PROVE s = cur \/ (s \in objects /\ cur < s)
  <2>1. s \in objects /\ cur <= s /\ s \in Nat
    BY <1>3, <1>6, <1>8
  <2> QED BY <1>5, <2>1
<1> HIDE DEF cur, F
<1>9. CASE Objects!RemoveDeletable /\ Objects!Continue({})
  <2>1. Objects!RemoveObject(cur) /\ astray' = astray
    BY <1>1, <1>9 DEF Objects!RemoveDeletable
  <2>2. CASE unexpected'
    BY <2>2 DEF BulkInv
  <2>3. CASE ~unexpected'
    <3>1. /\ StoreOk(bulks', objects', freeListHead', link')
          /\ bulks' = bulks /\ cur \in objects /\ objects' = objects \ {cur}
          /\ Unused(bulks', objects') = F \cup {cur}
      BY <1>2, <1>5, <2>1, <2>3, RemoveKeeps DEF F
    <3>2. ASSUME ~astray'
          PROVE  /\ loop.free = From(Unused(bulks', objects'), cur + 1)
                 /\ \A s \in objects' : cur < s => s \in loop.due \cup loop.created \cup {}
                 /\ \A s \in loop.due : s = cur \/ (s \in objects' /\ cur < s)
      <4>1. ~astray
        BY <2>1, <3>2
      <4>2. From(F \cup {cur}, cur + 1) = From(F, cur + 1)
        <5>1. cur < cur + 1 /\ cur \notin F /\ cur \in Objects!Slots
          BY <1>3, <1>5, <3>1
        <5> QED BY <1>3, <1>5, <5>1, FromOfMore
      <4>3. loop.free = From(Unused(bulks', objects'), cur + 1)
        BY <1>6, <3>1, <4>1, <4>2
      <4>4. \A s \in objects' : cur < s => s \in loop.due \cup loop.created
        BY <1>7, <3>1, <4>1
      <4>5. \A s \in loop.due : s = cur \/ (s \in objects' /\ cur < s)
        BY <1>8, <3>1, <4>1
      <4> QED BY <4>3, <4>4, <4>5
    <3>3. {} \subseteq Objects!Slots /\ Located(loop, bulks')
      BY <1>4, <3>1
    <3> QED BY <1>1, <1>4, <1>9, <3>1, <3>2, <3>3, LoopGoesOn DEF cur
  <2> QED BY <2>2, <2>3
<1>10. CASE Objects!RunScripts /\ Objects!Continue({})
  <2>1. /\ bulks' = bulks /\ objects' = objects /\ freeListHead' = freeListHead /\ link' = link
        /\ astray' = astray /\ unexpected' = unexpected
    BY <1>10 DEF Objects!RunScripts, Objects!storageVars
  <2>2. ASSUME ~astray'
        PROVE  /\ loop.free = From(Unused(bulks', objects'), cur + 1)
               /\ \A s \in objects' : cur < s => s \in loop.due \cup loop.created \cup {}
               /\ \A s \in loop.due : s = cur \/ (s \in objects' /\ cur < s)
    <3>1. ~astray
      BY <2>1, <2>2
    <3>2. loop.free = From(Unused(bulks', objects'), cur + 1)
      BY <1>6, <2>1, <3>1 DEF F
    <3>3. \A s \in objects' : cur < s => s \in loop.due \cup loop.created
      BY <1>7, <2>1, <3>1
    <3>4. \A s \in loop.due : s = cur \/ (s \in objects' /\ cur < s)
      BY <1>8, <2>1, <3>1
    <3> QED BY <3>2, <3>3, <3>4
  <2>3. {} \subseteq Objects!Slots /\ Located(loop, bulks')
    BY <1>4, <2>1
  <2>4. StoreOk(bulks', objects', freeListHead', link')
    BY <1>2, <2>1
  <2> QED BY <1>1, <1>4, <1>10, <2>2, <2>3, <2>4, LoopGoesOn DEF cur
<1>11. CASE Objects!SpawnTrail
  <2>1. PICK slot \in Objects!Slots : /\ Objects!Emplace(slot) /\ Objects!Continue({slot})
                                      /\ astray' = (astray \/ slot = loop.free)
    BY <1>11, Zenon DEF Objects!SpawnTrail
  <2>2. /\ StoreOk(bulks', objects', freeListHead', link')
        /\ objects' = objects \cup {slot} /\ slot \notin objects
        /\ \A l : Located(l, bulks) => Located(l, bulks')
        /\ Unused(bulks', objects') = F \ {slot}
        /\ \A u \in F : slot \in F /\ slot <= u
    BY <1>2, <2>1, EmplaceKeeps DEF F
  <2>3. ASSUME ~astray'
        PROVE  /\ loop.free = From(Unused(bulks', objects'), cur + 1)
               /\ \A s \in objects' : cur < s => s \in loop.due \cup loop.created \cup {slot}
               /\ \A s \in loop.due : s = cur \/ (s \in objects' /\ cur < s)
    <3>1. ~astray /\ slot # loop.free
      BY <2>1, <2>3, Zenon
    <3> DEFINE y == cur + 1
               G == F \ {slot}
    <3>2. From(G, y) = From(F, y)
      <4>1. CASE F = {}
        BY <4>1
      <4>2. CASE F # {}
        <5>1. slot \in F /\ slot \in Nat /\ y \in Nat
          BY <1>3, <1>5, <2>2, <4>2, Zenon
        <5>2. ASSUME y <= slot PROVE FALSE
          <6>1. IsFrom(slot, F, y)
            BY <2>2, <5>1, <5>2 DEF IsFrom
          <6>2. From(F, y) = slot
            <7> HIDE DEF y
            <7> QED BY <1>3, <5>1, <6>1, FromIsTheLeast
          <6> QED BY <1>6, <3>1, <6>2
        <5> HIDE DEF y
        <5>3. \A u \in Objects!Slots : (u \in G /\ y <= u) <=> (u \in F /\ y <= u)
          BY <5>2
        <5>4. F \subseteq Objects!Slots /\ G \subseteq Objects!Slots /\ y \in Nat
          BY <1>3, <5>1
        <5> HIDE DEF G
        <5> QED BY <5>3, <5>4, FromAgrees
      <4> QED BY <4>1, <4>2
    <3>3. loop.free = From(Unused(bulks', objects'), cur + 1)
      BY <1>6, <2>2, <3>1, <3>2
    <3>4. \A s \in objects' : cur < s => s \in loop.due \cup loop.created \cup {slot}
      BY <1>7, <2>2, <3>1
    <3>5. \A s \in loop.due : s = cur \/ (s \in objects' /\ cur < s)
      BY <1>8, <2>2, <3>1
    <3> QED BY <3>3, <3>4, <3>5
  <2>4. {slot} \subseteq Objects!Slots /\ Located(loop, bulks')
    BY <1>4, <2>2
  <2> QED BY <1>1, <1>4, <2>1, <2>2, <2>3, <2>4, LoopGoesOn DEF cur
<1> QED BY <1>9, <1>10, <1>11 DEF Objects!Visit

(* In a debug build no destroyed object is marked, so none is removed      *)
(* again and the end of AppendFreeListItem_SortedImpl is not reached.      *)
DebugInv == debug => ~ unexpected /\ marked \subseteq objects /\ trails \subseteq objects

LEMMA DebugKeeps ==
  ASSUME BulkAssumption, BulkInv, DebugInv, [Objects!Next]_(Objects!bulkVars)
  PROVE  DebugInv'
<1> SUFFICES ASSUME debug' PROVE ~ unexpected' /\ marked' \subseteq objects' /\ trails' \subseteq objects'
  BY DEF DebugInv
<1>1. debug
  BY DEF Objects!Next, Objects!BeginForeach, Objects!Create, Objects!RemoveRemoteObject,
         Objects!ReloadMap, Objects!Visit, Objects!bulkVars
<1>2. ~ unexpected /\ marked \subseteq objects /\ trails \subseteq objects
  BY <1>1 DEF DebugInv
<1>3. StoreOk(bulks, objects, freeListHead, link) /\ objects \subseteq InUse(bulks)
  BY <1>2 DEF BulkInv, StoreOk
<1>4. ASSUME NEW slot \in objects, Objects!RemoveObject(slot)
      PROVE  ~ unexpected' /\ marked' \subseteq objects' /\ trails' \subseteq objects'
  <2>1. ~ unexpected' /\ objects' = objects \ {slot}
    BY <1>3, <1>4, RemoveKeeps
  <2>2. marked' = marked \ {slot} /\ trails' = trails \ {slot}
    BY <1>1, <1>4 DEF Objects!RemoveObject
  <2> QED BY <1>2, <2>1, <2>2
<1>5. ASSUME NEW slot, Objects!Emplace(slot)
      PROVE  unexpected' = unexpected /\ objects' = objects \cup {slot} /\ marked' = marked \ {slot}
  BY <1>5, Zenon DEF Objects!Emplace
<1>6. CASE Objects!BeginForeach
  BY <1>2, <1>6 DEF Objects!BeginForeach
<1>7. CASE Objects!Create
  <2>1. PICK slot \in Objects!Slots : Objects!Emplace(slot)
    BY <1>7 DEF Objects!Create
  <2>2. trails' = trails
    BY <1>7 DEF Objects!Create
  <2> QED BY <1>2, <1>5, <2>1, <2>2
<1>8. CASE Objects!RemoveRemoteObject
  BY <1>4, <1>8 DEF Objects!RemoveRemoteObject
<1>9. CASE Objects!ReloadMap
  BY <1>2, <1>9 DEF Objects!ReloadMap
<1>10. CASE Objects!Visit
  <2>1. CASE Objects!RemoveDeletable
    BY <1>2, <1>4, <2>1 DEF Objects!RemoveDeletable
  <2>2. CASE Objects!RunScripts
    BY <1>2, <2>2 DEF Objects!RunScripts
  <2>3. CASE Objects!SpawnTrail
    <3>1. PICK slot \in Objects!Slots : Objects!Emplace(slot) /\ trails' = trails \cup {slot}
      BY <2>3, Zenon DEF Objects!SpawnTrail
    <3> QED BY <1>2, <1>5, <3>1
  <2> QED BY <1>10, <2>1, <2>2, <2>3 DEF Objects!Visit
<1>11. CASE UNCHANGED Objects!bulkVars
  BY <1>2, <1>11 DEF Objects!bulkVars
<1> QED BY <1>6, <1>7, <1>8, <1>9, <1>10, <1>11 DEF Objects!Next

(* BulkVector: whatever is created and removed, within loops and between,  *)
(* slots in use are live or on the free list, which is sorted; and a loop  *)
(* that has not lost the list comes to the objects it should, each once.   *)
(* In a debug build no object is ever removed a second time.               *)
THEOREM LoopsStayExact ==
  Objects!Spec => []LoopsAreExact
<1> USE BulkAssumption
<1>1. Objects!Init => BulkInv
  <2> SUFFICES ASSUME Objects!Init PROVE BulkInv
    OBVIOUS
  <2>1. PICK a \in 1 .. MaxBulks : /\ bulks = <<[address |-> a, used |-> 1]>>
                                   /\ camera = a * BulkSize
    BY DEF Objects!Init
  <2>2. /\ freeListHead = 0 /\ link = [s \in Objects!Slots |-> 0] /\ objects = {camera}
        /\ loop = [bulk |-> 0, index |-> 0, free |-> 0, due |-> {}, created |-> {}]
    BY DEF Objects!Init, Objects!NULL, Objects!NoLoop
  <2>3. objects = {Base(a)}
    BY <2>1, <2>2 DEF Base
  <2>4. StoreOk(bulks, objects, freeListHead, link)
    BY <2>1, <2>2, <2>3, CameraAlone, Zenon
  <2>5. 0 \in 0 .. MaxBulks
    BY DEF BulkAssumption
  <2>6. LoopOk(loop, bulks, objects, astray)
    BY <2>2, <2>5 DEF LoopOk, Loops, Located
  <2> QED BY <2>4, <2>6 DEF BulkInv
<1>2. BulkInv /\ [Objects!Next]_(Objects!bulkVars) => BulkInv'
  <2> SUFFICES ASSUME BulkInv, [Objects!Next]_(Objects!bulkVars) PROVE BulkInv'
    OBVIOUS
  <2>1. CASE Objects!BeginForeach
    BY <2>1, BeginForeachKeeps
  <2>2. CASE Objects!Create
    BY <2>2, CreateKeeps
  <2>3. CASE Objects!RemoveRemoteObject
    BY <2>3, RemoveRemoteObjectKeeps
  <2>4. CASE Objects!ReloadMap
    BY <2>4, ReloadMapKeeps
  <2>5. CASE Objects!Visit
    BY <2>5, VisitKeeps
  <2>6. CASE UNCHANGED Objects!bulkVars
    <3>1. /\ bulks' = bulks /\ objects' = objects /\ freeListHead' = freeListHead /\ link' = link
          /\ loop' = loop /\ astray' = astray /\ unexpected' = unexpected
      BY <2>6 DEF Objects!bulkVars, Objects!storageVars
    <3> QED BY <3>1 DEF BulkInv
  <2> QED BY <2>1, <2>2, <2>3, <2>4, <2>5, <2>6 DEF Objects!Next
<1>3. BulkInv /\ DebugInv => LoopsAreExact
  <2> SUFFICES ASSUME BulkInv, ~unexpected PROVE LoopsAreExact
    BY DEF DebugInv, LoopsAreExact, Objects!LoopsAreExact
  <2> DEFINE F == Unused(bulks, objects)
  <2>1. StoreOk(bulks, objects, freeListHead, link) /\ LoopOk(loop, bulks, objects, astray)
    BY DEF BulkInv
  <2>2. /\ BulksOk(bulks) /\ objects \subseteq InUse(bulks) /\ link \in Links
        /\ freeListHead = From(F, 0) /\ LinkedAs(link, F) /\ F = InUse(bulks) \ objects
    BY <2>1 DEF StoreOk, Unused
  <2>3. F \subseteq Objects!Slots /\ \A u \in Objects!Slots : u \in Nat \ {0}
    BY <2>2, SlotsInUse, SlotsOfBulks
  <2> HIDE DEF F
  <2>4. Objects!Items(freeListHead, link) = F
    BY <2>2, <2>3, ItemsAreUnused
  <2>5. \A s \in F : link[s] = 0 \/ s < link[s]
    <3> TAKE s \in F
    <3>1. s \in Nat /\ s + 1 \in Nat /\ link[s] = From(F, s + 1)
      <4>1. s \in Nat
        BY <2>3
      <4>2. link[s] = From(F, s + 1)
        BY <2>2, Zenon DEF LinkedAs
      <4>3. s + 1 \in Nat
        BY <4>1
      <4> QED BY <4>1, <4>2, <4>3
    <3>2. IsFrom(link[s], F, s + 1) /\ link[s] \in Nat
      BY <2>3, <3>1, FromProperties, Zenon
    <3>3. link[s] = 0 \/ s + 1 <= link[s]
      BY <3>2, Zenon DEF IsFrom
    <3>4. PICK following \in Nat : following = link[s]
      BY <3>2
    <3> QED BY <3>1, <3>3, <3>4
  <2>6. objects \cap F = {} /\ objects \cup F = InUse(bulks)
    BY <2>2
  <2>7. ~astray => IF Objects!Idle THEN loop.due = {}
                   ELSE Objects!Current \in objects \cap (loop.due \cup loop.created)
    <3>1. Objects!Current = Here(loop) /\ (Objects!Idle <=> loop.bulk = 0)
      BY DEF Objects!Current, Here, Base, Objects!Idle, Objects!NULL
    <3>2. ASSUME ~astray, loop.bulk # 0
          PROVE  Here(loop) \in objects /\ Here(loop) \in loop.due \cup loop.created
      <4>1. /\ Here(loop) \in objects
            /\ \A s \in objects : Here(loop) <= s => s \in loop.due \cup loop.created
        BY <2>1, <3>2 DEF LoopOk
      <4>2. Here(loop) <= Here(loop)
        BY <2>2, <2>3, <4>1, SlotsInUse
      <4> QED BY <4>1, <4>2
    <3> QED BY <2>1, <3>1, <3>2 DEF LoopOk
  <2> QED BY <2>4, <2>5, <2>6, <2>7, Zenon
          DEF LoopsAreExact, Objects!LoopsAreExact, InUse, Objects!NULL
<1>4. Objects!Init => DebugInv
  BY DEF Objects!Init, DebugInv
<1>5. BulkInv /\ DebugInv /\ [Objects!Next]_(Objects!bulkVars) => DebugInv'
  BY DebugKeeps
<1> QED BY <1>1, <1>2, <1>3, <1>4, <1>5, PTL DEF Objects!Spec
===============================================================================
