----------------------------- MODULE DataLemmas -----------------------------
(* Facts about the data the components are built from, which their proofs  *)
(* share: least and greatest elements, stacks and lists kept as sequences, *)
(* and the concatenation of a sequence of sequences.                       *)
EXTENDS Integers, SequencesExt, FiniteSetTheorems, WellFoundedInduction, SequenceTheorems, TLAPS

(* A nonempty set of naturals with an upper bound has a largest element.   *)
LEMMA MaxExists ==
  ASSUME NEW N \in Nat, NEW S, S \subseteq 0 .. N, S # {}
  PROVE  \E m \in S : \A n \in S : n <= m
<1> DEFINE T == {x .. N : x \in S}
<1>1. IsWellFoundedOn(StrictSubsetOrdering(0 .. N), SUBSET (0 .. N))
  <2>1. IsFiniteSet(0 .. N)
    BY FS_Interval
  <2>2. FiniteSubsetsOf(0 .. N) = SUBSET (0 .. N)
    BY <2>1, FS_FiniteSubsetsOfFinite
  <2>3. IsWellFoundedOn(StrictSubsetOrdering(0 .. N), FiniteSubsetsOf(0 .. N))
    BY FS_StrictSubsetOrderingWellFounded
  <2> QED
    BY <2>2, <2>3, Zenon
<1>2. T \subseteq SUBSET (0 .. N) /\ T # {}
  <2>1. PICK s \in S : TRUE
    OBVIOUS
  <2>2. (s .. N) \in T
    OBVIOUS
  <2>3. \A x \in S : x .. N \subseteq 0 .. N
    OBVIOUS
  <2> QED BY <2>2, <2>3
<1>3. PICK M \in T : \A U \in T : ~ (<<U, M>> \in StrictSubsetOrdering(0 .. N))
  <2> HIDE DEF T
  <2> QED BY <1>1, <1>2, WFMin
<1>4. PICK m \in S : M = m .. N
  BY <1>3
<1>5. ASSUME NEW n \in S, m < n PROVE FALSE
  <2>1. n .. N \in T
    OBVIOUS
  <2>2. n .. N \subseteq m .. N /\ n .. N # m .. N
    BY <1>5
  <2>3. <<n .. N, M>> \in StrictSubsetOrdering(0 .. N)
    BY <2>1, <2>2, <1>2, <1>3, <1>4 DEF StrictSubsetOrdering
  <2> QED
    BY <1>3, <2>1, <2>3
<1> QED
  BY <1>5

(* Pushing an element on a stack keeps its type and adds it to its range.  *)
LEMMA PushProperties ==
  ASSUME NEW S, NEW q \in Seq(S), NEW u \in S
  PROVE  <<u>> \o q \in Seq(S) /\ Range(<<u>> \o q) = Range(q) \cup {u}
<1>1. <<u>> \in Seq(S) /\ Range(<<u>>) = {u}
  BY DEF Range
<1>2. <<u>> \o q \in Seq(S)
  BY <1>1, ConcatProperties
<1>3. Range(<<u>> \o q) = Range(<<u>>) \cup Range(q)
  BY <1>1, RangeConcatenation, ZenonT(40)
<1> QED BY <1>1, <1>2, <1>3, Zenon

(* Popping the first element keeps the type and takes nothing else.        *)
LEMMA PopProperties ==
  ASSUME NEW S, NEW q \in Seq(S), q # <<>>
  PROVE  /\ Head(q) \in S /\ Tail(q) \in Seq(S)
         /\ Head(q) \in Range(q) /\ Range(Tail(q)) \subseteq Range(q)
<1>1. Head(q) \in S /\ Tail(q) \in Seq(S)
  BY HeadTailProperties
<1>2. Head(q) \in Range(q)
  BY RangeEquality, EmptySeq
<1>3. Range(Tail(q)) \subseteq Range(q)
  <2>1. ASSUME NEW i \in 1 .. Len(Tail(q)) PROVE Tail(q)[i] \in Range(q)
    <3>1. Tail(q)[i] = q[i + 1] /\ i + 1 \in 1 .. Len(q)
      BY HeadTailProperties, LenProperties, EmptySeq
    <3>2. DOMAIN q = 1 .. Len(q)
      BY LenProperties
    <3> QED BY <3>1, <3>2, Zenon DEF Range
  <2>2. DOMAIN Tail(q) = 1 .. Len(Tail(q))
    BY <1>1, LenProperties
  <2> QED BY <2>1, <2>2, Zenon DEF Range
<1> QED BY <1>1, <1>2, <1>3


(* ... and a smallest one. *)
LEMMA MinExists ==
  ASSUME NEW N \in Nat, NEW S, S \subseteq 0 .. N, S # {}
  PROVE  \E m \in S : \A n \in S : m <= n
<1> DEFINE R == {N - x : x \in S}
<1>1. R \subseteq 0 .. N /\ R # {}
  <2>1. ASSUME NEW x \in S PROVE N - x \in 0 .. N
    <3>1. x \in 0 .. N
      OBVIOUS
    <3> QED BY <3>1
  <2> QED BY <2>1
<1>2. PICK r \in R : \A q \in R : q <= r
  <2> HIDE DEF R
  <2> QED BY <1>1, MaxExists
<1>3. PICK m \in S : r = N - m
  BY <1>2
<1>4. \A n \in S : N - n <= N - m
  BY <1>2, <1>3
<1> QED
  BY <1>4

(* Taking one element out of a sequence without repetitions.               *)
LEMMA RemoveProperties ==
  ASSUME NEW S, NEW s \in Seq(S), NEW i \in 1 .. Len(s),
         \A j, k \in DOMAIN s : s[j] = s[k] => j = k
  PROVE  LET t == SubSeq(s, 1, i - 1) \o SubSeq(s, i + 1, Len(s))
         IN  /\ t \in Seq(S)
             /\ \A j, k \in DOMAIN t : t[j] = t[k] => j = k
             /\ {t[j] : j \in DOMAIN t} = {s[j] : j \in DOMAIN s} \ {s[i]}
<1> DEFINE left == SubSeq(s, 1, i - 1)
           right == SubSeq(s, i + 1, Len(s))
<1>1. /\ left \in Seq(S) /\ Len(left) = i - 1
      /\ \A j \in 1 .. i - 1 : left[j] = s[j]
  OBVIOUS
<1>2. /\ right \in Seq(S) /\ Len(right) = Len(s) - i
      /\ \A j \in 1 .. Len(s) - i : right[j] = s[i + j]
  OBVIOUS
<1>3. ASSUME NEW l \in Seq(S), NEW r \in Seq(S),
             Len(l) = i - 1, \A j \in 1 .. i - 1 : l[j] = s[j],
             Len(r) = Len(s) - i, \A j \in 1 .. Len(s) - i : r[j] = s[i + j]
      PROVE  /\ l \o r \in Seq(S)
             /\ \A j, k \in DOMAIN (l \o r) : (l \o r)[j] = (l \o r)[k] => j = k
             /\ {(l \o r)[j] : j \in DOMAIN (l \o r)} = {s[j] : j \in DOMAIN s} \ {s[i]}
  <2> USE <1>3
  <2> DEFINE t == l \o r
  <2>1. /\ t \in Seq(S) /\ Len(t) = Len(l) + Len(r)
        /\ \A j \in 1 .. Len(l) + Len(r) :
             t[j] = IF j <= Len(l) THEN l[j] ELSE r[j - Len(l)]
    BY ConcatProperties
  <2> HIDE DEF t
  <2>2. Len(s) \in Nat /\ Len(t) = Len(s) - 1
    BY <2>1
  <2>3. DOMAIN t = 1 .. Len(s) - 1 /\ DOMAIN s = 1 .. Len(s)
    BY <2>1, <2>2
  <2>4. ASSUME NEW j \in 1 .. Len(s) - 1 PROVE t[j] = IF j < i THEN s[j] ELSE s[j + 1]
    <3>1. CASE j < i
      <4>1. j \in 1 .. i - 1 /\ j \in 1 .. Len(l) + Len(r) /\ j <= Len(l)
        BY <2>2, <3>1
      <4>2. t[j] = l[j]
        BY <2>1, <4>1
      <4> QED BY <3>1, <4>1, <4>2
    <3>2. CASE i <= j
      <4>1. /\ j - (i - 1) \in 1 .. Len(s) - i /\ i + (j - (i - 1)) = j + 1
            /\ j \in 1 .. Len(l) + Len(r) /\ ~ (j <= Len(l))
        BY <2>2, <3>2
      <4>2. t[j] = r[j - (i - 1)]
        BY <2>1, <4>1
      <4>3. r[j - (i - 1)] = s[i + (j - (i - 1))]
        BY <4>1
      <4> QED BY <3>2, <4>1, <4>2, <4>3
    <3> QED BY <2>2, <3>1, <3>2
  <2>5. ASSUME NEW j \in DOMAIN t, NEW k \in DOMAIN t, t[j] = t[k] PROVE j = k
    <3>1. /\ t[j] = IF j < i THEN s[j] ELSE s[j + 1]
          /\ t[k] = IF k < i THEN s[k] ELSE s[k + 1]
      BY <2>3, <2>4
    <3>2. /\ j \in 1 .. Len(s) - 1 /\ k \in 1 .. Len(s) - 1
          /\ {j, j + 1, k, k + 1} \subseteq DOMAIN s
      BY <2>2, <2>3
    <3>3. (IF j < i THEN j ELSE j + 1) = (IF k < i THEN k ELSE k + 1)
      BY <2>5, <3>1, <3>2
    <3> QED BY <3>2, <3>3
  <2>6. ASSUME NEW j \in DOMAIN t PROVE t[j] \in {s[k] : k \in DOMAIN s} \ {s[i]}
    <3>1. t[j] = IF j < i THEN s[j] ELSE s[j + 1]
      BY <2>3, <2>4
    <3>2. j \in 1 .. Len(s) - 1 /\ {i, j, j + 1} \subseteq DOMAIN s
      BY <2>2, <2>3
    <3>3. PICK k \in DOMAIN s : k # i /\ t[j] = s[k]
      BY <3>1, <3>2
    <3> QED BY <3>2, <3>3
  <2>7. ASSUME NEW k \in DOMAIN s, s[k] # s[i] PROVE \E j \in DOMAIN t : t[j] = s[k]
    <3>1. CASE k < i
      BY <2>2, <2>3, <2>4, <3>1
    <3>2. CASE k > i
      <4>1. k - 1 \in DOMAIN t /\ t[k - 1] = s[k]
        BY <2>2, <2>3, <2>4, <3>2
      <4> QED BY <4>1
    <3> QED BY <2>2, <2>3, <2>7, <3>1, <3>2
  <2>8. {t[j] : j \in DOMAIN t} = {s[j] : j \in DOMAIN s} \ {s[i]}
    BY <2>6, <2>7
  <2>9. \A j, k \in DOMAIN t : t[j] = t[k] => j = k
    BY <2>5
  <2>10. t \in Seq(S)
    BY <2>1
  <2> QED
    BY <2>8, <2>9, <2>10 DEF t
<1> HIDE DEF left, right
<1>4. /\ left \o right \in Seq(S)
      /\ \A j, k \in DOMAIN (left \o right) : (left \o right)[j] = (left \o right)[k] => j = k
      /\ {(left \o right)[j] : j \in DOMAIN (left \o right)} = {s[j] : j \in DOMAIN s} \ {s[i]}
  BY <1>1, <1>2, <1>3, Zenon
<1> QED
  BY <1>4, Zenon DEF left, right

-----------------------------------------------------------------------------
(* Concatenation.                                                          *)

(* What holds of 0 and passes from n to n + 1 holds of every number.       *)
LEMMA SetInduction ==
  ASSUME NEW T, 0 \in T, \A n \in Nat : n \in T => n + 1 \in T
  PROVE  \A n \in Nat : n \in T
<1> SUFFICES ASSUME NEW n \in Nat, n \notin T PROVE FALSE
  OBVIOUS
<1>1. PICK m \in (0 .. n) \ T : \A x \in (0 .. n) \ T : m <= x
  <2>1. (0 .. n) \ T \subseteq 0 .. n /\ (0 .. n) \ T # {}
    BY SMT
  <2> QED BY <2>1, MinExists
<1>2. m # 0 /\ m \in Nat /\ m - 1 \in Nat /\ m - 1 \in 0 .. n /\ ~ (m <= m - 1)
  BY <1>1
<1>3. m - 1 \in T
  BY <1>1, <1>2
<1>4. (m - 1) + 1 = m
  BY <1>2
<1> QED BY <1>1, <1>2, <1>3, <1>4

Concatenates(f, seqs) ==
  f = [i \in 1 .. Len(seqs) |-> IF i = 1 THEN seqs[i] ELSE f[i - 1] \o seqs[i]]

(* The recursive function in FlattenSeq exists.                            *)
LEMMA ConcatenationExists ==
  ASSUME NEW S, NEW seqs \in Seq(S)
  PROVE  \E f : Concatenates(f, seqs)
<1> DEFINE Up(n, f) == f = [i \in 1 .. n |-> IF i = 1 THEN seqs[i] ELSE f[i - 1] \o seqs[i]]
           T == {n \in Nat : \E f : Up(n, f)}
<1>1. 0 \in T
  <2>1. Up(0, [i \in 1 .. 0 |-> <<>>])
    OBVIOUS
  <2> QED BY <2>1
<1>2. ASSUME NEW n \in Nat, n \in T PROVE n + 1 \in T
  <2>1. PICK f : Up(n, f)
    BY <1>2
  <2> DEFINE g == [i \in 1 .. n + 1 |->
                     IF i = n + 1 THEN (IF i = 1 THEN seqs[i] ELSE f[i - 1] \o seqs[i]) ELSE f[i]]
             h == [i \in 1 .. n + 1 |-> IF i = 1 THEN seqs[i] ELSE g[i - 1] \o seqs[i]]
  <2>2. ASSUME NEW i \in 1 .. n + 1 PROVE g[i] = h[i]
    <3>1. CASE i = 1 /\ n = 0
      BY <3>1
    <3>2. CASE i = n + 1 /\ i # 1
      <4>1. i - 1 \in 1 .. n /\ i - 1 \in 1 .. n + 1 /\ i - 1 # n + 1
        BY <3>2
      <4>2. g[i - 1] = f[i - 1] /\ g[i] = f[i - 1] \o seqs[i]
        BY <3>2, <4>1
      <4> HIDE DEF g
      <4> QED BY <3>2, <4>2
    <3>3. CASE i # n + 1 /\ i = 1
      <4>1. i \in 1 .. n
        BY <3>3
      <4>2. g[i] = f[i] /\ f[i] = seqs[i]
        BY <2>1, <3>3, <4>1
      <4> HIDE DEF g
      <4> QED BY <3>3, <4>2
    <3>4. CASE i # n + 1 /\ i # 1
      <4>1. i \in 1 .. n /\ i - 1 \in 1 .. n + 1 /\ i - 1 # n + 1
        BY <3>4
      <4>2. g[i] = f[i] /\ g[i - 1] = f[i - 1]
        BY <3>4, <4>1
      <4>3. f[i] = f[i - 1] \o seqs[i]
        BY <2>1, <3>4, <4>1
      <4> HIDE DEF g
      <4> QED BY <3>4, <4>2, <4>3
    <3> QED BY <3>1, <3>2, <3>3, <3>4
  <2>3. g = h
    <3>1. g = [i \in 1 .. n + 1 |-> g[i]]
      OBVIOUS
    <3>2. h = [i \in 1 .. n + 1 |-> h[i]]
      <4> HIDE DEF g
      <4> QED OBVIOUS
    <3> HIDE DEF g, h
    <3> QED BY <2>2, <3>1, <3>2
  <2>4. Up(n + 1, g)
    <3> HIDE DEF g
    <3> QED BY <2>3
  <2>5. \E x : Up(n + 1, x)
    <3> HIDE DEF g, Up
    <3> QED BY <2>4
  <2> HIDE DEF Up
  <2> QED BY <2>5
<1>3. Len(seqs) \in Nat
  OBVIOUS
<1>4. Len(seqs) \in T
  <2> HIDE DEF T
  <2> QED BY <1>1, <1>2, <1>3, SetInduction
<1> QED BY <1>4, Zenon DEF Concatenates

(* FlattenSeq is the last of its partial concatenations.                   *)
LEMMA FlattenIsConcatenation ==
  ASSUME NEW S, NEW seqs \in Seq(S), seqs # <<>>
  PROVE  \E f : Concatenates(f, seqs) /\ FlattenSeq(seqs) = f[Len(seqs)]
<1> DEFINE F == CHOOSE f : Concatenates(f, seqs)
<1>1. Concatenates(F, seqs)
  BY ConcatenationExists, Zenon
<1>2. Len(seqs) # 0
  BY EmptySeq
<1>3. FlattenSeq(seqs) = F[Len(seqs)]
  BY <1>2, Zenon DEF FlattenSeq, Concatenates
<1> QED BY <1>1, <1>3, Zenon
(* In the concatenation t of seqs, where s[i] elements end with the i-th,  *)
(* the j-th element of seqs[i] is at s[i - 1] + j, and nothing else is in. *)
Flattens(t, seqs, s) ==
  /\ Len(t) = s[Len(seqs)]
  /\ \A i \in 1 .. Len(seqs) : \A j \in 1 .. Len(seqs[i]) :
       s[i - 1] + j \in 1 .. s[Len(seqs)] /\ t[s[i - 1] + j] = seqs[i][j]
  /\ \A x \in 1 .. s[Len(seqs)] :
       \E i \in 1 .. Len(seqs) : \E j \in 1 .. Len(seqs[i]) : x = s[i - 1] + j

(* Where the elements of flattened sequences come to stand.                *)
LEMMA FlattenProperties ==
  ASSUME NEW S, NEW seqs \in Seq(Seq(S)), NEW s \in [0 .. Len(seqs) -> Nat], s[0] = 0,
         \A i \in 1 .. Len(seqs) : s[i] = s[i - 1] + Len(seqs[i])
  PROVE  FlattenSeq(seqs) \in Seq(S) /\ Flattens(FlattenSeq(seqs), seqs, s)
<1> USE DEF Flattens
<1> DEFINE K == Len(seqs)
           Placed(t, n) ==
             /\ t \in Seq(S) /\ Len(t) = s[n]
             /\ \A i \in 1 .. n : \A j \in 1 .. Len(seqs[i]) :
                  s[i - 1] + j \in 1 .. s[n] /\ t[s[i - 1] + j] = seqs[i][j]
             /\ \A x \in 1 .. s[n] : \E i \in 1 .. n : \E j \in 1 .. Len(seqs[i]) : x = s[i - 1] + j
<1>1. K \in Nat /\ \A i \in 1 .. K : seqs[i] \in Seq(S) /\ Len(seqs[i]) \in Nat
  <2>1. K \in Nat /\ \A i \in 1 .. K : seqs[i] \in Seq(S)
    OBVIOUS
  <2> QED BY <2>1
<1>2. CASE seqs = <<>>
  <2>1. K = 0 /\ FlattenSeq(seqs) = <<>>
    BY <1>2 DEF FlattenSeq
  <2> QED BY <2>1
<1>3. CASE seqs # <<>>
  <2>1. PICK f : Concatenates(f, seqs) /\ FlattenSeq(seqs) = f[K]
    BY <1>3, FlattenIsConcatenation
  <2>2. K > 0
    BY <1>1, <1>3, EmptySeq
  <2> DEFINE T == {n \in Nat : n + 1 \in 1 .. K => Placed(f[n + 1], n + 1)}
  <2>3. Placed(f[1], 1)
    <3>1. 1 \in 1 .. K /\ s[1] = Len(seqs[1]) /\ f[1] = seqs[1]
      BY <1>1, <2>1, <2>2 DEF Concatenates
    <3> QED BY <1>1, <3>1
  <2>4. ASSUME NEW n \in 1 .. K, n + 1 \in 1 .. K, Placed(f[n], n) PROVE Placed(f[n + 1], n + 1)
    <3> DEFINE t == f[n]
               l == seqs[n + 1]
    <3>1. f[n + 1] = t \o l
      <4>1. f[n + 1] = IF n + 1 = 1 THEN seqs[n + 1] ELSE f[(n + 1) - 1] \o seqs[n + 1]
        BY <2>1, <2>4, Zenon DEF Concatenates
      <4>2. n + 1 # 1 /\ (n + 1) - 1 = n
        OBVIOUS
      <4> QED BY <4>1, <4>2
    <3>2. /\ t \in Seq(S) /\ l \in Seq(S) /\ Len(l) \in Nat /\ Len(t) = s[n] /\ s[n] \in Nat
          /\ s[n + 1] = s[n] + Len(l)
      BY <1>1, <2>4
    <3>3. /\ t \o l \in Seq(S) /\ Len(t \o l) = Len(t) + Len(l)
          /\ \A x \in 1 .. Len(t) + Len(l) :
               (t \o l)[x] = IF x <= Len(t) THEN t[x] ELSE l[x - Len(t)]
      BY <3>2, ConcatProperties
    <3>4. ASSUME NEW i \in 1 .. n, NEW j \in 1 .. Len(seqs[i])
          PROVE  s[i - 1] + j \in 1 .. s[n + 1] /\ (t \o l)[s[i - 1] + j] = seqs[i][j]
      <4>1. s[i - 1] + j \in 1 .. s[n] /\ t[s[i - 1] + j] = seqs[i][j]
        BY <2>4
      <4>2. s[i - 1] + j \in 1 .. Len(t) + Len(l) /\ s[i - 1] + j <= Len(t)
        <5>1. \A x \in 1 .. Len(t) : x \in 1 .. Len(t) + Len(l) /\ x <= Len(t)
          <6> HIDE DEF t, l
          <6> QED BY <3>2
        <5>2. s[i - 1] + j \in 1 .. Len(t)
          BY <3>2, <4>1
        <5> QED BY <5>1, <5>2, Zenon
      <4> HIDE DEF t, l
      <4> QED BY <3>2, <3>3, <4>1, <4>2
    <3>5. ASSUME NEW j \in 1 .. Len(l)
          PROVE  s[n] + j \in 1 .. s[n + 1] /\ (t \o l)[s[n] + j] = l[j]
      <4> HIDE DEF t, l
      <4>1. s[n] + j \in 1 .. Len(t) + Len(l) /\ ~ (s[n] + j <= Len(t)) /\ (s[n] + j) - Len(t) = j
        BY <3>2
      <4> QED BY <3>2, <3>3, <4>1
    <3>6. ASSUME NEW x \in 1 .. s[n + 1]
          PROVE  \E i \in 1 .. n + 1 : \E j \in 1 .. Len(seqs[i]) : x = s[i - 1] + j
      <4>1. CASE x <= s[n]
        <5>1. x \in 1 .. s[n]
          BY <3>2, <4>1
        <5>2. PICK i \in 1 .. n : \E j \in 1 .. Len(seqs[i]) : x = s[i - 1] + j
          BY <2>4, <5>1
        <5>3. i \in 1 .. n + 1
          OBVIOUS
        <5> QED BY <5>2, <5>3
      <4>2. CASE ~ (x <= s[n])
        <5>1. x - s[n] \in 1 .. Len(l) /\ x = s[n] + (x - s[n]) /\ (n + 1) - 1 = n
          BY <3>2, <4>2
        <5>2. n + 1 \in 1 .. n + 1
          OBVIOUS
        <5> QED BY <5>1, <5>2
      <4> QED BY <4>1, <4>2
    <3>7. ASSUME NEW i \in 1 .. n + 1, NEW j \in 1 .. Len(seqs[i])
          PROVE  s[i - 1] + j \in 1 .. s[n + 1] /\ (t \o l)[s[i - 1] + j] = seqs[i][j]
      <4>1. CASE i = n + 1
        <5>1. i - 1 = n /\ seqs[i] = l
          BY <4>1
        <5> HIDE DEF t, l
        <5> QED BY <3>5, <5>1
      <4>2. CASE i # n + 1
        <5>1. i \in 1 .. n
          BY <4>2
        <5> HIDE DEF t, l
        <5> QED BY <3>4, <5>1
      <4> QED BY <4>1, <4>2
    <3>8. t \o l \in Seq(S) /\ Len(t \o l) = s[n + 1]
      <4> HIDE DEF t, l
      <4> QED BY <3>2, <3>3
    <3> HIDE DEF t, l
    <3> QED BY <3>1, <3>6, <3>7, <3>8
  <2>5. 0 \in T
    BY <2>3
  <2>6. ASSUME NEW n \in Nat, n \in T PROVE n + 1 \in T
    <3>1. CASE (n + 1) + 1 \in 1 .. K
      <4>1. n + 1 \in 1 .. K
        BY <1>1, <3>1
      <4>2. Placed(f[n + 1], n + 1)
        BY <2>6, <4>1
      <4>3. Placed(f[(n + 1) + 1], (n + 1) + 1)
        <5> HIDE DEF Placed
        <5> QED BY <2>4, <3>1, <4>1, <4>2
      <4> HIDE DEF Placed
      <4> QED BY <4>3
    <3> HIDE DEF Placed
    <3> QED BY <3>1
  <2>7. Placed(FlattenSeq(seqs), K)
    <3>1. \A n \in Nat : n \in T
      <4> HIDE DEF T
      <4> QED BY <2>5, <2>6, SetInduction
    <3>2. K - 1 \in Nat /\ (K - 1) + 1 = K /\ K \in 1 .. K
      BY <1>1, <2>2
    <3>3. K - 1 \in T
      <4> HIDE DEF T
      <4> QED BY <3>1, <3>2
    <3> HIDE DEF Placed
    <3> QED BY <2>1, <3>2, <3>3
  <2> QED BY <2>7
<1> QED BY <1>2, <1>3

(* Where every sequence goes on counting at its place, so does the whole.  *)
LEMMA FlattenCounts ==
  ASSUME NEW seqs \in Seq(Seq(Int)), NEW s \in [0 .. Len(seqs) -> Nat], s[0] = 0, NEW c \in Int,
         \A i \in 1 .. Len(seqs) : s[i] = s[i - 1] + Len(seqs[i]),
         \A i \in 1 .. Len(seqs) : \A j \in 1 .. Len(seqs[i]) : seqs[i][j] = s[i - 1] + j + c
  PROVE  FlattenSeq(seqs) = [x \in 1 .. s[Len(seqs)] |-> x + c]
<1>1. PICK t : t = FlattenSeq(seqs)
  OBVIOUS
<1>2. t \in Seq(Int) /\ Flattens(t, seqs, s)
  BY <1>1, FlattenProperties
<1>3. Len(t) = s[Len(seqs)]
  BY <1>2 DEF Flattens
<1>4. ASSUME NEW x \in 1 .. s[Len(seqs)] PROVE t[x] = x + c
  <2>1. PICK i \in 1 .. Len(seqs) : \E j \in 1 .. Len(seqs[i]) : x = s[i - 1] + j
    BY <1>2 DEF Flattens
  <2>2. PICK j \in 1 .. Len(seqs[i]) : x = s[i - 1] + j
    BY <2>1
  <2>3. t[s[i - 1] + j] = seqs[i][j]
    BY <1>2 DEF Flattens
  <2>4. seqs[i][j] = s[i - 1] + j + c
    OBVIOUS
  <2> QED BY <2>2, <2>3, <2>4
<1>5. t = [x \in 1 .. Len(t) |-> t[x]]
  BY <1>2
<1>6. t = [x \in 1 .. s[Len(seqs)] |-> x + c]
  BY <1>3, <1>4, <1>5
<1> QED BY <1>1, <1>6

-----------------------------------------------------------------------------
(* Max and Min, and taking out or putting in one element of a sequence.    *)

(* The greatest element of a set with a bound.                             *)
LEMMA MaxProperties ==
  ASSUME NEW N \in Nat, NEW S, S \subseteq 0 .. N, S # {}
  PROVE  Max(S) \in S /\ \A x \in S : x <= Max(S)
<1>1. \E x \in S : \A y \in S : x >= y
  <2>1. PICK m \in S : \A n \in S : n <= m
    BY MaxExists
  <2>2. \A n \in S : m >= n
    BY <2>1
  <2> QED BY <2>2
<1>2. Max(S) \in S /\ \A y \in S : Max(S) >= y
  BY <1>1, Zenon DEF Max
<1> QED BY <1>2

(* The least element of a set of naturals.                                 *)
LEMMA MinProperties ==
  ASSUME NEW N \in Nat, NEW S, S \subseteq 0 .. N, S # {}
  PROVE  Min(S) \in S /\ \A x \in S : Min(S) <= x
<1>1. \E x \in S : \A y \in S : x <= y
  BY MinExists
<1> QED BY <1>1, Zenon DEF Min

(* Removing an element moves those behind it.                              *)
LEMMA RemoveAtProperties ==
  ASSUME NEW S, NEW s \in Seq(S), NEW i \in 1 .. Len(s)
  PROVE  /\ RemoveAt(s, i) \in Seq(S) /\ Len(RemoveAt(s, i)) = Len(s) - 1
         /\ \A j \in 1 .. Len(s) - 1 : RemoveAt(s, i)[j] = IF j < i THEN s[j] ELSE s[j + 1]
<1> DEFINE left == SubSeq(s, 1, i - 1)
           right == SubSeq(s, i + 1, Len(s))
<1>1. /\ left \in Seq(S) /\ Len(left) = i - 1
      /\ \A j \in 1 .. i - 1 : left[j] = s[j]
  OBVIOUS
<1>2. /\ right \in Seq(S) /\ Len(right) = Len(s) - i
      /\ \A j \in 1 .. Len(s) - i : right[j] = s[i + j]
  OBVIOUS
<1>3. RemoveAt(s, i) = left \o right
  BY DEF RemoveAt
<1> HIDE DEF left, right
<1>4. /\ left \o right \in Seq(S) /\ Len(left \o right) = Len(left) + Len(right)
      /\ \A j \in 1 .. Len(left) + Len(right) :
           (left \o right)[j] = IF j <= Len(left) THEN left[j] ELSE right[j - Len(left)]
  BY <1>1, <1>2, ConcatProperties
<1>5. Len(s) \in Nat /\ Len(left) + Len(right) = Len(s) - 1
  BY <1>1, <1>2
<1>6. ASSUME NEW j \in 1 .. Len(s) - 1
      PROVE  (left \o right)[j] = IF j < i THEN s[j] ELSE s[j + 1]
  <2>1. CASE j < i
    <3>1. j \in 1 .. i - 1 /\ j \in 1 .. Len(left) + Len(right) /\ j <= Len(left)
      BY <1>1, <1>5, <2>1
    <3> QED BY <1>1, <1>4, <2>1, <3>1
  <2>2. CASE i <= j
    <3>1. /\ j - (i - 1) \in 1 .. Len(s) - i /\ i + (j - (i - 1)) = j + 1
          /\ j \in 1 .. Len(left) + Len(right) /\ ~ (j <= Len(left)) /\ ~ (j < i)
      BY <1>1, <1>5, <2>2
    <3>2. (left \o right)[j] = right[j - (i - 1)]
      BY <1>1, <1>4, <3>1
    <3>3. right[j - (i - 1)] = s[i + (j - (i - 1))]
      BY <1>2, <3>1
    <3> QED BY <3>1, <3>2, <3>3
  <2> QED BY <1>5, <2>1, <2>2
<1> QED BY <1>3, <1>4, <1>5, <1>6

(* t is s with x put in at place i.                                        *)
HasInserted(t, S, s, i, x) ==
  /\ t \in Seq(S) /\ Len(t) = Len(s) + 1
  /\ \A j \in 1 .. Len(s) + 1 : t[j] = IF j < i THEN s[j] ELSE IF j = i THEN x ELSE s[j - 1]

(* Inserting an element moves those behind it.                             *)
LEMMA InsertAtProperties ==
  ASSUME NEW S, NEW s \in Seq(S), NEW i \in 1 .. Len(s) + 1, NEW x \in S
  PROVE  HasInserted(InsertAt(s, i, x), S, s, i, x)
<1> DEFINE left == SubSeq(s, 1, i - 1) \o <<x>>
           right == SubSeq(s, i, Len(s))
<1>1. /\ SubSeq(s, 1, i - 1) \in Seq(S) /\ Len(SubSeq(s, 1, i - 1)) = i - 1
      /\ \A j \in 1 .. i - 1 : SubSeq(s, 1, i - 1)[j] = s[j]
  OBVIOUS
<1>2. left \in Seq(S) /\ Len(left) = i /\ left[i] = x /\ \A j \in 1 .. i - 1 : left[j] = s[j]
  <2>1. ASSUME NEW l \in Seq(S), Len(l) = i - 1, \A j \in 1 .. i - 1 : l[j] = s[j]
        PROVE  /\ l \o <<x>> \in Seq(S) /\ Len(l \o <<x>>) = i /\ (l \o <<x>>)[i] = x
               /\ \A j \in 1 .. i - 1 : (l \o <<x>>)[j] = s[j]
    BY <2>1
  <2> QED BY <1>1, <2>1
<1>3. /\ right \in Seq(S) /\ Len(right) = Len(s) - i + 1
      /\ \A j \in 1 .. Len(s) - i + 1 : right[j] = s[i + j - 1]
  OBVIOUS
<1>4. InsertAt(s, i, x) = left \o right
  BY DEF InsertAt
<1> HIDE DEF left, right
<1>5. /\ left \o right \in Seq(S) /\ Len(left \o right) = Len(left) + Len(right)
      /\ \A j \in 1 .. Len(left) + Len(right) :
           (left \o right)[j] = IF j <= Len(left) THEN left[j] ELSE right[j - Len(left)]
  BY <1>2, <1>3, ConcatProperties
<1>6. Len(s) \in Nat /\ Len(left) + Len(right) = Len(s) + 1
  BY <1>2, <1>3
<1>7. ASSUME NEW j \in 1 .. Len(s) + 1
      PROVE  (left \o right)[j] = IF j < i THEN s[j] ELSE IF j = i THEN x ELSE s[j - 1]
  <2>1. CASE j < i
    <3>1. j \in 1 .. i - 1 /\ j \in 1 .. Len(left) + Len(right) /\ j <= Len(left)
      BY <1>2, <1>6, <2>1
    <3> QED BY <1>2, <1>5, <2>1, <3>1
  <2>2. CASE j = i
    <3>1. j \in 1 .. Len(left) + Len(right) /\ j <= Len(left) /\ ~ (j < i)
      BY <1>2, <1>6, <2>2
    <3> QED BY <1>2, <1>5, <2>2, <3>1
  <2>3. CASE j > i
    <3>1. /\ j - i \in 1 .. Len(s) - i + 1 /\ i + (j - i) - 1 = j - 1
          /\ j \in 1 .. Len(left) + Len(right) /\ ~ (j <= Len(left)) /\ ~ (j < i) /\ j # i
      BY <1>2, <1>6, <2>3
    <3>2. (left \o right)[j] = right[j - i]
      BY <1>2, <1>5, <3>1
    <3>3. right[j - i] = s[i + (j - i) - 1]
      BY <1>3, <3>1
    <3> QED BY <3>1, <3>2, <3>3
  <2> QED BY <1>6, <2>1, <2>2, <2>3
<1>8. HasInserted(left \o right, S, s, i, x)
  BY <1>5, <1>6, <1>7 DEF HasInserted
<1> QED BY <1>4, <1>8

-----------------------------------------------------------------------------
(* The values of a function with a finite domain.                          *)
LEMMA ImageIsFinite ==
  ASSUME NEW S, NEW f, f = [x \in S |-> f[x]], IsFiniteSet(S)
  PROVE  IsFiniteSet({f[x] : x \in S})
<1> DEFINE image == {f[x] : x \in S}
<1>1. f \in [S -> image]
  BY Zenon
<1>2. \A y \in image : \E x \in S : f[x] = y
  OBVIOUS
<1> HIDE DEF image
<1>3. f \in Surjection(S, image)
  BY <1>1, <1>2, Zenon DEF Surjection
<1>4. IsFiniteSet(image)
  BY <1>3, FS_Surjection
<1> QED BY <1>4 DEF image

-----------------------------------------------------------------------------
(* Iteration.                                                              *)

Iterates(f, n, d, g) == f = [i \in 0 .. n |-> IF i = 0 THEN d ELSE g[i][f[i - 1]]]

(* A step that keeps a set can be taken any number of times: the recursive *)
(* function of the results exists.                                         *)
LEMMA IterationExists ==
  ASSUME NEW n \in Nat, NEW D, NEW d \in D, NEW g, \A i \in 1 .. n : \A x \in D : g[i][x] \in D
  PROVE  \E f : Iterates(f, n, d, g) /\ \A i \in 0 .. n : f[i] \in D
<1> DEFINE Up(m, f) == /\ f = [i \in 0 .. m |-> IF i = 0 THEN d ELSE g[i][f[i - 1]]]
                       /\ \A i \in 0 .. m : f[i] \in D
           T == {m \in Nat : m <= n => \E f : Up(m, f)}
<1>1. 0 \in T
  <2> DEFINE f == [i \in 0 .. 0 |-> d]
  <2>1. f = [i \in 0 .. 0 |-> IF i = 0 THEN d ELSE g[i][f[i - 1]]] /\ \A i \in 0 .. 0 : f[i] \in D
    OBVIOUS
  <2> HIDE DEF f
  <2> QED BY <2>1
<1>2. ASSUME NEW m \in Nat, m \in T PROVE m + 1 \in T
  <2> SUFFICES ASSUME m + 1 <= n PROVE \E f : Up(m + 1, f)
    OBVIOUS
  <2>1. PICK f : Up(m, f)
    BY <1>2
  <2> DEFINE e == [i \in 0 .. m + 1 |-> IF i = m + 1 THEN g[i][f[m]] ELSE f[i]]
             h == [i \in 0 .. m + 1 |-> IF i = 0 THEN d ELSE g[i][e[i - 1]]]
  <2>2. f[0] = d /\ \A i \in 1 .. m : f[i] = g[i][f[i - 1]]
    BY <2>1
  <2>3. \A i \in 0 .. m : e[i] = f[i]
    OBVIOUS
  <2>4. e[m + 1] = g[m + 1][f[m]]
    OBVIOUS
  <2>5. ASSUME NEW i \in 0 .. m + 1 PROVE e[i] = h[i] /\ e[i] \in D
    <3> HIDE DEF e
    <3>1. CASE i = 0
      BY <3>1, <2>1, <2>2, <2>3
    <3>2. CASE i \in 1 .. m
      <4>1. i - 1 \in 0 .. m /\ i \in 0 .. m /\ i # 0
        BY <3>2
      <4> QED BY <3>2, <4>1, <2>1, <2>2, <2>3
    <3>3. CASE i = m + 1
      <4>1. i # 0 /\ i - 1 = m /\ m \in 0 .. m /\ i \in 1 .. n
        BY <3>3
      <4> QED BY <3>3, <4>1, <2>1, <2>3, <2>4
    <3> QED BY <3>1, <3>2, <3>3
  <2>6. e = h
    <3>1. e = [i \in 0 .. m + 1 |-> e[i]]
      OBVIOUS
    <3>2. h = [i \in 0 .. m + 1 |-> h[i]]
      <4> HIDE DEF e
      <4> QED OBVIOUS
    <3> HIDE DEF e, h
    <3> QED BY <2>5, <3>1, <3>2
  <2>7. Up(m + 1, e)
    <3> HIDE DEF e
    <3> QED BY <2>5, <2>6
  <2> HIDE DEF e, Up
  <2> QED BY <2>7
<1>3. n \in T
  <2> HIDE DEF T
  <2> QED BY <1>1, <1>2, SetInduction
<1> QED
  BY <1>3 DEF Iterates

(* What a sequence of steps passes on reaches its last result.             *)
LEMMA IterationKeeps ==
  ASSUME NEW n \in Nat, NEW D, NEW f, f[0] \in D[0],
         \A i \in 1 .. n : f[i - 1] \in D[i - 1] => f[i] \in D[i]
  PROVE  f[n] \in D[n]
<1> DEFINE T == {m \in Nat : m <= n => f[m] \in D[m]}
<1>1. 0 \in T
  OBVIOUS
<1>2. ASSUME NEW m \in Nat, m \in T PROVE m + 1 \in T
  <2> SUFFICES ASSUME m + 1 <= n PROVE f[m + 1] \in D[m + 1]
    OBVIOUS
  <2>1. m + 1 \in 1 .. n /\ (m + 1) - 1 = m /\ f[m] \in D[m]
    BY <1>2
  <2>2. f[(m + 1) - 1] \in D[(m + 1) - 1] => f[m + 1] \in D[m + 1]
    BY <2>1
  <2> QED BY <2>1, <2>2
<1>3. n \in T
  <2> HIDE DEF T
  <2> QED BY <1>1, <1>2, SetInduction
<1> QED
  BY <1>3
=============================================================================
