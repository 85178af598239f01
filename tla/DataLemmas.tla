------------------------------ MODULE DataLemmas ------------------------------
(***************************************************************************)
(* Facts about numbers and sequences that the proofs about the components  *)
(* need and the libraries do not state.  Induction is over sets: what is   *)
(* to hold of all numbers, or of all sequences, is the set of those it     *)
(* holds of, so that no theorem takes an operator.                         *)
(***************************************************************************)
EXTENDS Naturals, Sequences, SequencesExt, Lists, FiniteSetTheorems, SequenceTheorems,
        WellFoundedInduction, TLAPS

(* A set of natural numbers has a least one: of the intervals that end in  *)
(* its elements, one has none of the others as a part.                     *)
LEMMA Least ==
  ASSUME NEW S \in SUBSET Nat, S # {}
  PROVE  \E x \in S : \A y \in S : x <= y
<1> DEFINE T == {0..x : x \in S}
<1>1. T \subseteq FiniteSubsetsOf(Nat) /\ T # {}
  <2>1. ASSUME NEW x \in S PROVE IsFiniteSet(0..x) /\ 0..x \subseteq Nat
    BY FS_Interval
  <2> QED
    BY <2>1 DEF FiniteSubsetsOf
<1> HIDE DEF T
<1>2. PICK a \in T : \A b \in T : <<b, a>> \notin StrictSubsetOrdering(Nat)
  BY <1>1, FS_StrictSubsetOrderingWellFounded, WFMin
<1>3. PICK x \in S : a = 0..x
  BY DEF T
<1>4. ASSUME NEW y \in S, y < x PROVE FALSE
  <2>1. 0..y \in T /\ 0..y \subseteq 0..x /\ x \in 0..x /\ x \notin 0..y
    BY <1>4 DEF T
  <2>2. <<0..y, a>> \in StrictSubsetOrdering(Nat)
    BY <1>3, <2>1 DEF StrictSubsetOrdering
  <2> QED
    BY <1>2, <2>1, <2>2
<1> QED
  BY <1>4
(* What holds of 0, and of i + 1 whenever of i, holds up to n.             *)
LEMMA UpTo ==
  ASSUME NEW n \in Nat, NEW S, 0 \in S, \A i \in 0..(n - 1) : i \in S => i + 1 \in S
  PROVE  \A i \in 0..n : i \in S
<1> SUFFICES ASSUME NEW k \in 0..n, k \notin S PROVE FALSE
  OBVIOUS
<1> DEFINE bad == {i \in 0..n : i \notin S}
<1>1. bad \in SUBSET Nat /\ bad # {}
  OBVIOUS
<1>2. PICK m \in bad : \A j \in bad : m <= j
  BY <1>1, Least
<1>3. m # 0 /\ m \in 0..n
  OBVIOUS
<1>4. m - 1 \in 0..(n - 1) /\ m - 1 \in 0..n /\ (m - 1) + 1 = m /\ ~(m <= m - 1)
  BY <1>3
<1>5. m - 1 \in S
  BY <1>2, <1>4
<1> QED
  BY <1>4, <1>5

(* A sequence is its first part and its last element.                      *)
LEMMA FrontAndLast ==
  ASSUME NEW T, NEW s \in Seq(T), s # <<>>
  PROVE  /\ SubSeq(s, 1, Len(s) - 1) \in Seq(T) /\ s[Len(s)] \in T
         /\ Len(SubSeq(s, 1, Len(s) - 1)) = Len(s) - 1
         /\ s = Append(SubSeq(s, 1, Len(s) - 1), s[Len(s)])
<1> DEFINE a == SubSeq(s, 1, Len(s) - 1)
<1>1. Len(s) \in Nat \ {0} /\ DOMAIN s = 1..Len(s)
  BY EmptySeq, LenProperties
<1>2. a \in Seq(T) /\ Len(a) = Len(s) - 1 /\ \A i \in 1..(Len(s) - 1) : a[i] = s[i]
  BY <1>1, SubSeqProperties
<1>3. s[Len(s)] \in T
  BY <1>1
<1> HIDE DEF a
<1>4. ASSUME NEW e \in T
      PROVE  /\ Append(a, e) \in Seq(T) /\ Len(Append(a, e)) = Len(s) /\ Append(a, e)[Len(s)] = e
             /\ \A i \in 1..(Len(s) - 1) : Append(a, e)[i] = s[i]
  <2>1. Len(a) + 1 = Len(s) /\ Len(a) = Len(s) - 1
    BY <1>1, <1>2
  <2>2. /\ Append(a, e) \in Seq(T) /\ Len(Append(a, e)) = Len(a) + 1
        /\ Append(a, e)[Len(a) + 1] = e /\ \A i \in 1..Len(a) : Append(a, e)[i] = a[i]
    BY <1>2, AppendProperties
  <2> QED
    BY <1>2, <2>1, <2>2
<1>5. \A i \in 1..Len(s) : Append(a, s[Len(s)])[i] = s[i]
  <2>1. \A n \in Nat : \A i \in 1..n : i = n \/ i \in 1..(n - 1)
    OBVIOUS
  <2> QED
    BY <1>3, <1>4, <2>1
<1>6. s = Append(a, s[Len(s)])
  BY <1>3, <1>4, <1>5, SeqEqual
<1> QED
  BY <1>2, <1>3, <1>6 DEF a

(* What holds of the empty sequence, and of a sequence with one more       *)
(* element whenever of the sequence, holds of all.                         *)
LEMMA ByAppending ==
  ASSUME NEW T, NEW S, <<>> \in S,
         \A s \in Seq(T), x \in T : s \in S => Append(s, x) \in S
  PROVE  \A s \in Seq(T) : s \in S
<1> SUFFICES ASSUME NEW s \in Seq(T) PROVE s \in S
  OBVIOUS
<1> DEFINE good == {k \in Nat : \A t \in Seq(T) : Len(t) = k => t \in S}
<1>1. 0 \in good
  BY EmptySeq
<1>2. ASSUME NEW k \in Nat, k \in good PROVE k + 1 \in good
  <2> SUFFICES ASSUME NEW t \in Seq(T), Len(t) = k + 1 PROVE t \in S
    OBVIOUS
  <2>1. t # <<>>
    BY EmptySeq
  <2>2. Len(t) - 1 = k
    OBVIOUS
  <2>3. SubSeq(t, 1, Len(t) - 1) \in Seq(T) /\ Len(SubSeq(t, 1, Len(t) - 1)) = k
        /\ t[Len(t)] \in T /\ t = Append(SubSeq(t, 1, Len(t) - 1), t[Len(t)])
    BY <2>1, <2>2, FrontAndLast
  <2> QED
    BY <1>2, <2>3
<1> HIDE DEF good
<1> DEFINE n == Len(s)
<1>3. n \in Nat
  BY LenProperties
<1> HIDE DEF n
<1>4. \A i \in 0..(n - 1) : i \in good => i + 1 \in good
  BY <1>2, <1>3
<1>5. \A i \in 0..n : i \in good
  BY ONLY <1>1, <1>3, <1>4, UpTo
<1>6. n \in good
  BY <1>3, <1>5
<1> QED
  BY <1>6 DEF good, n

(* What is left of a sequence without its i-th element.                    *)
LEMMA RemoveAtIs ==
  ASSUME NEW T, NEW r \in Seq(T), NEW i \in DOMAIN r
  PROVE  /\ RemoveAt(r, i) \in Seq(T) /\ Len(RemoveAt(r, i)) = Len(r) - 1
         /\ DOMAIN RemoveAt(r, i) = 1..(Len(r) - 1)
         /\ \A j \in DOMAIN RemoveAt(r, i) :
              \E h \in DOMAIN r \ {i} : RemoveAt(r, i)[j] = r[h] /\ h = IF j < i THEN j ELSE j + 1
<1> DEFINE a == SubSeq(r, 1, i - 1)
           b == SubSeq(r, i + 1, Len(r))
<1>1. i \in 1..Len(r) /\ Len(r) \in Nat
  BY LenProperties
<1>2. a \in Seq(T) /\ Len(a) = i - 1 /\ \A j \in 1..(i - 1) : a[j] = r[j]
  BY <1>1, SubSeqProperties
<1>3. b \in Seq(T) /\ Len(b) = Len(r) - i /\ \A j \in 1..(Len(r) - i) : b[j] = r[i + j]
  BY <1>1, SubSeqProperties
<1> HIDE DEF a, b
<1>4. /\ a \o b \in Seq(T) /\ Len(a \o b) = Len(r) - 1 /\ DOMAIN (a \o b) = 1..(Len(r) - 1)
      /\ \A j \in 1..(Len(r) - 1) : (a \o b)[j] = IF j < i THEN a[j] ELSE b[j - (i - 1)]
  <2>1. /\ a \o b \in Seq(T) /\ Len(a \o b) = Len(a) + Len(b)
        /\ \A j \in 1..(Len(a) + Len(b)) :
             (a \o b)[j] = IF j <= Len(a) THEN a[j] ELSE b[j - Len(a)]
    BY <1>2, <1>3, ConcatProperties
  <2>2. Len(a) + Len(b) = Len(r) - 1
    BY <1>1, <1>2, <1>3
  <2>3. DOMAIN (a \o b) = 1..(Len(r) - 1)
    BY <2>1, <2>2, LenProperties
  <2>4. \A j \in 1..(Len(r) - 1) : (j <= Len(a)) <=> (j < i)
    BY <1>1, <1>2
  <2> QED
    BY <1>2, <2>1, <2>2, <2>3, <2>4
<1>5. ASSUME NEW j \in 1..(Len(r) - 1)
      PROVE  \E h \in DOMAIN r \ {i} : (a \o b)[j] = r[h] /\ h = IF j < i THEN j ELSE j + 1
  <2>1. CASE j < i
    BY <1>1, <1>2, <1>4, <2>1
  <2>2. CASE ~(j < i)
    <3>1. j - (i - 1) \in 1..(Len(r) - i) /\ i + (j - (i - 1)) = j + 1 /\ j + 1 \in DOMAIN r \ {i}
      BY <1>1, <2>2
    <3> QED
      BY <1>3, <1>4, <2>2, <3>1
  <2> QED
    BY <2>1, <2>2
<1> QED
  BY <1>4, <1>5 DEF RemoveAt, a, b
-----------------------------------------------------------------------------
(* f starts with b and has each next value from the one before, by g.      *)
Recurs(f, n, b, g) == f[0] = b /\ \A i \in 1..n : f[i] = g[i][f[i - 1]]

(* There is a function for every recursion over 0..n.                      *)
LEMMA RecursionExists ==
  ASSUME NEW n \in Nat, NEW V, NEW b \in V, NEW g \in [1..n -> [V -> V]]
  PROVE  \E f \in [0..n -> V] : Recurs(f, n, b, g)
<1> DEFINE good == {k \in 0..n : \E f \in [0..k -> V] :
                      f[0] = b /\ \A i \in 1..k : f[i] = g[i][f[i - 1]]}
<1>1. 0 \in good
  <2> DEFINE f == [i \in 0..0 |-> b]
  <2>1. f \in [0..0 -> V] /\ f[0] = b
    OBVIOUS
  <2>2. 1..0 = {} /\ 0 \in 0..n
    OBVIOUS
  <2> HIDE DEF f
  <2>3. \A i \in 1..0 : f[i] = g[i][f[i - 1]]
    BY <2>2, Zenon
  <2> QED
    BY <2>1, <2>2, <2>3, Zenon
<1>2. ASSUME NEW k \in 0..(n - 1), k \in good PROVE k + 1 \in good
  <2>1. PICK f \in [0..k -> V] : f[0] = b /\ \A i \in 1..k : f[i] = g[i][f[i - 1]]
    BY <1>2
  <2> DEFINE h == [i \in 0..(k + 1) |-> IF i = k + 1 THEN g[k + 1][f[k]] ELSE f[i]]
  <2>2. k + 1 \in 1..n /\ k + 1 \in 0..n /\ k \in 0..k
    OBVIOUS
  <2>3. h \in [0..(k + 1) -> V]
    <3>1. g[k + 1][f[k]] \in V
      BY <2>2
    <3>2. \A i \in 0..(k + 1) : i = k + 1 \/ i \in 0..k
      OBVIOUS
    <3> QED
      BY <3>1, <3>2
  <2>4. h[0] = b /\ h[k + 1] = g[k + 1][h[k]]
    <3>1. 0 # k + 1 /\ k # k + 1 /\ 0 \in 0..(k + 1) /\ k \in 0..(k + 1) /\ k + 1 \in 0..(k + 1)
      OBVIOUS
    <3>2. h[0] = f[0] /\ h[k] = f[k] /\ h[k + 1] = g[k + 1][f[k]]
      BY <3>1
    <3> HIDE DEF h
    <3> QED
      BY <2>1, <3>2
  <2>5. \A i \in 1..k : h[i] = g[i][h[i - 1]]
    <3> SUFFICES ASSUME NEW i \in 1..k PROVE h[i] = g[i][h[i - 1]]
      OBVIOUS
    <3>1. i - 1 \in 0..k /\ i \in 0..k /\ i # k + 1 /\ i - 1 # k + 1
      OBVIOUS
    <3>2. h[i] = f[i] /\ h[i - 1] = f[i - 1]
      BY <3>1
    <3> QED
      BY <2>1, <3>2
  <2>6. \A i \in 1..(k + 1) : i \in 1..k \/ (i = k + 1 /\ i - 1 = k)
    OBVIOUS
  <2> HIDE DEF h
  <2>7. \A i \in 1..(k + 1) : h[i] = g[i][h[i - 1]]
    BY <2>4, <2>5, <2>6
  <2> QED
    BY <2>2, <2>3, <2>4, <2>7
<1> HIDE DEF good
<1>3. n \in good
  <2>1. n \in 0..n
    OBVIOUS
  <2>2. \A i \in 0..n : i \in good
    BY <1>1, <1>2, UpTo
  <2> QED
    BY <2>1, <2>2
<1> QED
  BY <1>3 DEF good, Recurs

(* What Only makes of the first i elements.                                *)
Keeps(s, S, f) ==
  f[0] = <<>> /\ \A i \in 1..Len(s) :
    f[i] = IF s[i] \in S THEN Append(f[i - 1], s[i]) ELSE f[i - 1]

LEMMA OnlyIs ==
  ASSUME NEW T, NEW s \in Seq(T), NEW S
  PROVE  \E f \in [0..Len(s) -> Seq(T)] : Keeps(s, S, f) /\ Only(s, S) = f[Len(s)]
<1> DEFINE n == Len(s)
           Is(f) == f = [i \in 0..n |-> IF i = 0 THEN <<>>
                           ELSE IF s[i] \in S THEN Append(f[i - 1], s[i]) ELSE f[i - 1]]
           g == [i \in 1..n |-> [a \in Seq(T) |-> IF s[i] \in S THEN Append(a, s[i]) ELSE a]]
<1>1. n \in Nat /\ \A i \in 1..n : s[i] \in T
  BY LenProperties, ElementOfSeq
<1>2. g \in [1..n -> [Seq(T) -> Seq(T)]]
  BY <1>1, AppendProperties
<1> HIDE DEF g
<1>3. PICK f \in [0..n -> Seq(T)] : f[0] = <<>> /\ \A i \in 1..n : f[i] = g[i][f[i - 1]]
  <2>1. <<>> \in Seq(T) /\ n \in Nat
    BY <1>1
  <2> HIDE DEF n, Is
  <2>2. \E f \in [0..n -> Seq(T)] : Recurs(f, n, <<>>, g)
    BY <1>2, <2>1, RecursionExists
  <2> QED
    BY <2>2 DEF Recurs
<1>4. \A i \in 1..n : f[i] = IF s[i] \in S THEN Append(f[i - 1], s[i]) ELSE f[i - 1]
  <2> SUFFICES ASSUME NEW i \in 1..n
               PROVE  f[i] = IF s[i] \in S THEN Append(f[i - 1], s[i]) ELSE f[i - 1]
    OBVIOUS
  <2>1. i - 1 \in 0..n
    BY <1>1
  <2>2. f[i - 1] \in Seq(T)
    BY <2>1
  <2> QED
    BY <1>3, <2>2 DEF g
<1>5. f = [i \in 0..n |-> IF i = 0 THEN <<>>
             ELSE IF s[i] \in S THEN Append(f[i - 1], s[i]) ELSE f[i - 1]]
  <2>1. \A i \in 0..n : i = 0 \/ i \in 1..n
    BY <1>1
  <2>2. \A i \in 1..n : i # 0
    BY <1>1
  <2>3. \A i \in 0..n : f[i] = IF i = 0 THEN <<>>
             ELSE IF s[i] \in S THEN Append(f[i - 1], s[i]) ELSE f[i - 1]
    BY <1>3, <1>4, <2>1, <2>2
  <2> DEFINE r(i) == IF i = 0 THEN <<>>
             ELSE IF s[i] \in S THEN Append(f[i - 1], s[i]) ELSE f[i - 1]
  <2>4. \A i \in 0..n : f[i] = r(i)
    BY <2>3
  <2> HIDE DEF n, r
  <2>5. f = [i \in 0..n |-> r(i)]
    BY <1>3, <2>4
  <2> QED
    BY <2>5 DEF r
<1> DEFINE h == CHOOSE k : Is(k)
<1>6. Is(h)
  BY <1>5
<1>7. Only(s, S) = h[n]
  BY DEF Only
<1> HIDE DEF h
<1>8. h[0] = <<>> /\ \A i \in 1..n : h[i] = IF s[i] \in S THEN Append(h[i - 1], s[i]) ELSE h[i - 1]
  <2>1. 0 \in 0..n /\ \A i \in 1..n : i \in 0..n /\ i # 0
    BY <1>1
  <2> HIDE DEF n
  <2> QED
    BY <1>6, <2>1
<1> DEFINE typed == {i \in 0..n : h[i] \in Seq(T)}
<1>9. 0 \in typed
  <2>1. <<>> \in Seq(T) /\ 0 \in 0..n
    BY <1>1
  <2> HIDE DEF n
  <2> QED
    BY <1>8, <2>1
<1>10. \A i \in 0..(n - 1) : i \in typed => i + 1 \in typed
  <2> SUFFICES ASSUME NEW i \in 0..(n - 1), i \in typed PROVE i + 1 \in typed
    OBVIOUS
  <2>1. i + 1 \in 1..n /\ i + 1 \in 0..n /\ (i + 1) - 1 = i
    BY <1>1
  <2>2. s[i + 1] \in T /\ h[i] \in Seq(T)
    BY <1>1, <2>1
  <2>3. Append(h[i], s[i + 1]) \in Seq(T)
    BY <2>2, AppendProperties
  <2> QED
    BY <1>8, <2>1, <2>2, <2>3
<1>11. \A i \in 0..n : h[i] \in Seq(T)
  <2>1. n \in Nat
    BY <1>1
  <2>2. \A i \in 0..n : i \in typed
    <3> HIDE DEF typed, n
    <3> QED
      BY <1>9, <1>10, <2>1, UpTo
  <2> QED
    BY <2>2
<1>12. h \in [0..n -> Seq(T)]
  <2> DEFINE r(i) == IF i = 0 THEN <<>>
             ELSE IF s[i] \in S THEN Append(h[i - 1], s[i]) ELSE h[i - 1]
  <2>1. h = [i \in 0..n |-> r(i)]
    BY <1>6
  <2> HIDE DEF n, r
  <2> QED
    BY <1>11, <2>1
<1> QED
  BY <1>7, <1>8, <1>12 DEF Keeps

(* Two recursions that start alike and go on alike are alike.              *)
LEMMA SameRecursion ==
  ASSUME NEW n \in Nat, NEW f, NEW h, f[0] = h[0],
         \A i \in 1..n : f[i - 1] = h[i - 1] => f[i] = h[i]
  PROVE  f[n] = h[n]
<1> DEFINE same == {i \in 0..n : f[i] = h[i]}
<1>1. 0 \in same
  OBVIOUS
<1>2. \A i \in 0..(n - 1) : i \in same => i + 1 \in same
  <2> SUFFICES ASSUME NEW i \in 0..(n - 1), f[i] = h[i] PROVE i + 1 \in same
    OBVIOUS
  <2>1. i + 1 \in 1..n /\ i + 1 \in 0..n /\ (i + 1) - 1 = i
    OBVIOUS
  <2> QED
    BY <2>1
<1>3. n \in 0..n
  OBVIOUS
<1>4. \A i \in 0..n : i \in same
  <2> HIDE DEF same
  <2> QED
    BY <1>1, <1>2, UpTo
<1> QED
  BY <1>3, <1>4

LEMMA OnlyEmpty == \A S : Only(<<>>, S) = <<>>
<1> SUFFICES ASSUME NEW S PROVE Only(<<>>, S) = <<>>
  OBVIOUS
<1>1. <<>> \in Seq({}) /\ Len(<<>>) = 0
  OBVIOUS
<1>2. PICK f \in [0..Len(<<>>) -> Seq({})] : Keeps(<<>>, S, f) /\ Only(<<>>, S) = f[Len(<<>>)]
  BY <1>1, OnlyIs
<1> QED
  BY <1>1, <1>2 DEF Keeps

LEMMA OnlyAppend ==
  ASSUME NEW T, NEW s \in Seq(T), NEW x \in T, NEW S
  PROVE  Only(Append(s, x), S) = IF x \in S THEN Append(Only(s, S), x) ELSE Only(s, S)
<1> DEFINE n == Len(s)
           t == Append(s, x)
<1>1. n \in Nat /\ t \in Seq(T) /\ Len(t) = n + 1 /\ t[n + 1] = x
      /\ \A i \in 1..n : t[i] = s[i]
  BY LenProperties, AppendProperties
<1>2. PICK f \in [0..Len(s) -> Seq(T)] : Keeps(s, S, f) /\ Only(s, S) = f[n]
  BY OnlyIs
<1> HIDE DEF t
<1> HIDE DEF n
<1>9. t \in Seq(T)
  BY <1>1
<1>10. PICK h \in [0..Len(t) -> Seq(T)] : Keeps(t, S, h) /\ Only(t, S) = h[Len(t)]
  BY <1>9, OnlyIs
<1>3. Keeps(t, S, h) /\ Only(t, S) = h[n + 1]
  BY <1>1, <1>10
<1>4. f[0] = <<>> /\ \A i \in 1..n : f[i] = IF s[i] \in S THEN Append(f[i - 1], s[i]) ELSE f[i - 1]
  BY <1>2 DEF Keeps, n
<1>5. h[0] = <<>> /\ \A i \in 1..(n + 1) : h[i] = IF t[i] \in S THEN Append(h[i - 1], t[i]) ELSE h[i - 1]
  BY <1>1, <1>3 DEF Keeps
<1>6. f[n] = h[n]
  <2>1. \A i \in 1..n : i \in 1..(n + 1)
    BY <1>1
  <2>2. \A i \in 1..n : f[i - 1] = h[i - 1] => f[i] = h[i]
    BY <1>1, <1>4, <1>5, <2>1
  <2>3. n \in Nat /\ f[0] = h[0]
    BY <1>1, <1>4, <1>5
  <2> QED
    BY <2>2, <2>3, SameRecursion
<1>7. n + 1 \in 1..(n + 1) /\ (n + 1) - 1 = n
  <2>1. n \in Nat
    BY <1>1
  <2> QED
    BY ONLY <2>1
<1>8. h[n + 1] = IF x \in S THEN Append(f[n], x) ELSE f[n]
  BY <1>1, <1>5, <1>6, <1>7
<1> QED
  BY <1>2, <1>3, <1>8 DEF t

LEMMA OnlyType ==
  ASSUME NEW T, NEW s \in Seq(T), NEW S
  PROVE  Only(s, S) \in Seq(T)
<1>1. Len(s) \in 0..Len(s)
  BY LenProperties
<1> QED
  BY <1>1, OnlyIs

LEMMA ToSetAppend ==
  ASSUME NEW T, NEW s \in Seq(T), NEW x \in T
  PROVE  ToSet(Append(s, x)) = ToSet(s) \cup {x}
<1>1. /\ Len(s) \in Nat /\ DOMAIN s = 1..Len(s) /\ DOMAIN Append(s, x) = 1..(Len(s) + 1)
      /\ Append(s, x)[Len(s) + 1] = x /\ \A i \in 1..Len(s) : Append(s, x)[i] = s[i]
  BY LenProperties, AppendProperties
<1>2. \A i \in 1..(Len(s) + 1) : i \in 1..Len(s) \/ i = Len(s) + 1
  BY <1>1
<1>3. 1..Len(s) \subseteq 1..(Len(s) + 1) /\ Len(s) + 1 \in 1..(Len(s) + 1)
  BY <1>1
<1>4. ASSUME NEW e \in ToSet(Append(s, x)) PROVE e \in ToSet(s) \cup {x}
  BY <1>1, <1>2 DEF ToSet
<1>5. ASSUME NEW e \in ToSet(s) \cup {x} PROVE e \in ToSet(Append(s, x))
  BY <1>1, <1>3 DEF ToSet
<1> QED
  BY <1>4, <1>5

LEMMA ToSetEmpty == ToSet(<<>>) = {}
  BY DEF ToSet

LEMMA OnlyElements ==
  ASSUME NEW T, NEW s \in Seq(T), NEW S
  PROVE  ToSet(Only(s, S)) = ToSet(s) \cap S
<1> DEFINE good == {r \in Seq(T) : ToSet(Only(r, S)) = ToSet(r) \cap S}
<1>1. <<>> \in good
  BY OnlyEmpty, ToSetEmpty
<1>2. ASSUME NEW r \in Seq(T), NEW x \in T, r \in good PROVE Append(r, x) \in good
  <2>1. Append(r, x) \in Seq(T) /\ Only(r, S) \in Seq(T)
    BY AppendProperties, OnlyType
  <2>2. ToSet(Append(r, x)) = ToSet(r) \cup {x} /\ ToSet(Append(Only(r, S), x)) = ToSet(Only(r, S)) \cup {x}
    BY <2>1, ToSetAppend
  <2>3. Only(Append(r, x), S) = IF x \in S THEN Append(Only(r, S), x) ELSE Only(r, S)
    BY OnlyAppend
  <2> QED
    BY <1>2, <2>1, <2>2, <2>3
<1> HIDE DEF good
<1>3. \A r \in Seq(T) : r \in good
  BY <1>1, <1>2, ByAppending
<1> QED
  BY <1>3 DEF good
-----------------------------------------------------------------------------
(* What SumOver makes of the first i elements.                             *)
Adds(s, f, a) == a[0] = 0 /\ \A i \in 1..Len(s) : a[i] = a[i - 1] + f[s[i]]

LEMMA SumIs ==
  ASSUME NEW T, NEW s \in Seq(T), NEW f \in [T -> Nat]
  PROVE  \E a \in [0..Len(s) -> Nat] : Adds(s, f, a) /\ SumOver(s, f) = a[Len(s)]
<1> DEFINE n == Len(s)
           Is(a) == a = [i \in 0..n |-> IF i = 0 THEN 0 ELSE a[i - 1] + f[s[i]]]
           g == [i \in 1..n |-> [a \in Nat |-> a + f[s[i]]]]
<1>1. n \in Nat /\ \A i \in 1..n : s[i] \in T /\ f[s[i]] \in Nat
  BY LenProperties, ElementOfSeq
<1>2. g \in [1..n -> [Nat -> Nat]]
  BY <1>1
<1> HIDE DEF g
<1>3. PICK a \in [0..n -> Nat] : a[0] = 0 /\ \A i \in 1..n : a[i] = g[i][a[i - 1]]
  <2>1. 0 \in Nat /\ n \in Nat
    BY <1>1
  <2> HIDE DEF n, Is
  <2>2. \E a \in [0..n -> Nat] : Recurs(a, n, 0, g)
    BY <1>2, <2>1, RecursionExists
  <2> QED
    BY <2>2 DEF Recurs
<1>4. \A i \in 1..n : a[i] = a[i - 1] + f[s[i]]
  <2> SUFFICES ASSUME NEW i \in 1..n PROVE a[i] = a[i - 1] + f[s[i]]
    OBVIOUS
  <2>1. i - 1 \in 0..n
    BY <1>1
  <2>2. a[i - 1] \in Nat
    BY <2>1
  <2> QED
    BY <1>3, <2>2 DEF g
<1>5. a = [i \in 0..n |-> IF i = 0 THEN 0 ELSE a[i - 1] + f[s[i]]]
  <2>1. \A i \in 0..n : i = 0 \/ (i \in 1..n /\ i # 0)
    BY <1>1
  <2> DEFINE r(i) == IF i = 0 THEN 0 ELSE a[i - 1] + f[s[i]]
  <2>2. \A i \in 0..n : a[i] = r(i)
    BY <1>3, <1>4, <2>1
  <2> HIDE DEF n, r
  <2>3. a = [i \in 0..n |-> r(i)]
    BY <1>3, <2>2
  <2> QED
    BY <2>3 DEF r
<1> DEFINE h == CHOOSE k : Is(k)
<1>6. Is(h)
  BY <1>5
<1>7. SumOver(s, f) = h[n]
  BY DEF SumOver
<1> HIDE DEF h
<1>8. h[0] = 0 /\ \A i \in 1..n : h[i] = h[i - 1] + f[s[i]]
  <2>1. 0 \in 0..n /\ \A i \in 1..n : i \in 0..n /\ i # 0
    BY <1>1
  <2> HIDE DEF n
  <2> QED
    BY <1>6, <2>1
<1> DEFINE typed == {i \in 0..n : h[i] \in Nat}
<1>9. 0 \in typed
  <2>1. 0 \in 0..n
    BY <1>1
  <2> HIDE DEF n
  <2> QED
    BY <1>8, <2>1
<1>10. \A i \in 0..(n - 1) : i \in typed => i + 1 \in typed
  <2> SUFFICES ASSUME NEW i \in 0..(n - 1), i \in typed PROVE i + 1 \in typed
    OBVIOUS
  <2>1. i + 1 \in 1..n /\ i + 1 \in 0..n /\ (i + 1) - 1 = i
    BY <1>1
  <2>2. f[s[i + 1]] \in Nat /\ h[i] \in Nat
    BY <1>1, <2>1
  <2> QED
    BY <1>8, <2>1, <2>2
<1>11. \A i \in 0..n : h[i] \in Nat
  <2>1. n \in Nat
    BY <1>1
  <2>2. \A i \in 0..n : i \in typed
    <3> HIDE DEF typed, n
    <3> QED
      BY <1>9, <1>10, <2>1, UpTo
  <2> QED
    BY <2>2
<1>12. h \in [0..n -> Nat]
  <2> DEFINE r(i) == IF i = 0 THEN 0 ELSE h[i - 1] + f[s[i]]
  <2>1. h = [i \in 0..n |-> r(i)]
    BY <1>6
  <2> HIDE DEF n, r
  <2> QED
    BY <1>11, <2>1
<1> QED
  BY <1>7, <1>8, <1>12 DEF Adds

LEMMA SumEmpty == ASSUME NEW T, NEW f \in [T -> Nat] PROVE SumOver(<<>>, f) = 0
<1>1. <<>> \in Seq(T) /\ Len(<<>>) = 0
  OBVIOUS
<1>2. PICK a \in [0..Len(<<>>) -> Nat] : Adds(<<>>, f, a) /\ SumOver(<<>>, f) = a[Len(<<>>)]
  BY <1>1, SumIs
<1> QED
  BY <1>1, <1>2 DEF Adds

LEMMA SumType ==
  ASSUME NEW T, NEW s \in Seq(T), NEW f \in [T -> Nat]
  PROVE  SumOver(s, f) \in Nat
<1>1. Len(s) \in 0..Len(s)
  BY LenProperties
<1> QED
  BY <1>1, SumIs

LEMMA SumAppend ==
  ASSUME NEW T, NEW s \in Seq(T), NEW x \in T, NEW f \in [T -> Nat]
  PROVE  SumOver(Append(s, x), f) = SumOver(s, f) + f[x]
<1> DEFINE n == Len(s)
           t == Append(s, x)
<1>1. n \in Nat /\ t \in Seq(T) /\ Len(t) = n + 1 /\ t[n + 1] = x
      /\ \A i \in 1..n : t[i] = s[i]
  BY LenProperties, AppendProperties
<1>2. PICK a \in [0..Len(s) -> Nat] : Adds(s, f, a) /\ SumOver(s, f) = a[n]
  BY SumIs
<1> HIDE DEF t
<1>3. PICK h \in [0..Len(t) -> Nat] : Adds(t, f, h) /\ SumOver(t, f) = h[n + 1]
  BY <1>1, SumIs
<1> HIDE DEF n
<1>4. a[0] = 0 /\ \A i \in 1..n : a[i] = a[i - 1] + f[s[i]]
  BY <1>2 DEF Adds, n
<1>5. h[0] = 0 /\ \A i \in 1..(n + 1) : h[i] = h[i - 1] + f[t[i]]
  BY <1>1, <1>3 DEF Adds
<1>6. a[n] = h[n]
  <2>1. \A i \in 1..n : i \in 1..(n + 1)
    BY <1>1
  <2>2. \A i \in 1..n : a[i - 1] = h[i - 1] => a[i] = h[i]
    BY <1>1, <1>4, <1>5, <2>1
  <2>3. n \in Nat /\ a[0] = h[0]
    BY <1>1, <1>4, <1>5
  <2> QED
    BY <2>2, <2>3, SameRecursion
<1>7. n + 1 \in 1..(n + 1) /\ (n + 1) - 1 = n
  <2>1. n \in Nat
    BY <1>1
  <2> QED
    BY ONLY <2>1
<1>8. h[n + 1] = a[n] + f[x]
  BY <1>1, <1>5, <1>6, <1>7
<1> QED
  BY <1>2, <1>3, <1>8 DEF t
-----------------------------------------------------------------------------
(* What the sequences of seqs make one after another: one sequence, which  *)
(* begins like the first of them that is not empty.                        *)
LEMMA Flattened ==
  ASSUME NEW T, NEW seqs \in Seq(Seq(T)), seqs # <<>>
  PROVE  /\ FlattenSeq(seqs) \in Seq(T)
         /\ \A i \in DOMAIN seqs :
              seqs[i] # <<>> /\ (\A j \in 1..(i - 1) : seqs[j] = <<>>) =>
                FlattenSeq(seqs) # <<>> /\ FlattenSeq(seqs)[1] = seqs[i][1]
<1> DEFINE n == Len(seqs)
           Is(f) == f = [i \in 1..n |-> IF i = 1 THEN seqs[i] ELSE f[i - 1] \o seqs[i]]
           g == [i \in 1..n |-> [a \in Seq(T) |-> a \o seqs[i]]]
<1>1. n \in Nat \ {0} /\ DOMAIN seqs = 1..n /\ \A i \in 1..n : seqs[i] \in Seq(T)
  BY LenProperties, ElementOfSeq, EmptySeq
<1>2. g \in [1..n -> [Seq(T) -> Seq(T)]]
  BY <1>1, ConcatProperties
<1> HIDE DEF g
<1>3. PICK f \in [0..n -> Seq(T)] : f[0] = <<>> /\ \A i \in 1..n : f[i] = g[i][f[i - 1]]
  <2>1. <<>> \in Seq(T) /\ n \in Nat
    BY <1>1
  <2> HIDE DEF n, Is
  <2>2. \E f \in [0..n -> Seq(T)] : Recurs(f, n, <<>>, g)
    BY <1>2, <2>1, RecursionExists
  <2> QED
    BY <2>2 DEF Recurs
<1>4. \A i \in 1..n : f[i] = f[i - 1] \o seqs[i]
  <2> SUFFICES ASSUME NEW i \in 1..n PROVE f[i] = f[i - 1] \o seqs[i]
    OBVIOUS
  <2>1. i - 1 \in 0..n
    BY <1>1
  <2>2. f[i - 1] \in Seq(T)
    BY <2>1
  <2> QED
    BY <1>3, <2>2 DEF g
<1> DEFINE e == [i \in 1..n |-> f[i]]
<1>5. Is(e)
  <2> DEFINE r(i) == IF i = 1 THEN seqs[i] ELSE e[i - 1] \o seqs[i]
  <2>1. ASSUME NEW i \in 1..n PROVE e[i] = r(i)
    <3>1. CASE i = 1
      <4>1. <<>> \o seqs[1] = seqs[1]
        BY <1>1, <3>1
      <4>2. i - 1 = 0
        BY <3>1
      <4> QED
        BY <1>3, <1>4, <3>1, <4>1, <4>2
    <3>2. CASE i # 1
      <4>1. i - 1 \in 1..n
        BY <1>1, <3>2
      <4> QED
        BY <1>4, <3>2, <4>1
    <3> QED
      BY <3>1, <3>2
  <2> HIDE DEF n, r
  <2>2. e = [i \in 1..n |-> r(i)]
    BY <2>1
  <2> HIDE DEF e
  <2> QED
    BY <2>2 DEF r
<1> DEFINE h == CHOOSE k : Is(k)
<1>6. Is(h)
  BY <1>5
<1>7. FlattenSeq(seqs) = h[n]
  BY <1>1 DEF FlattenSeq
<1> HIDE DEF h
<1>8. h[1] = seqs[1] /\ \A i \in 2..n : h[i] = h[i - 1] \o seqs[i]
  <2>1. 1 \in 1..n /\ \A i \in 2..n : i \in 1..n /\ i # 1
    BY <1>1
  <2> HIDE DEF n
  <2> QED
    BY <1>6, <2>1
<1> DEFINE Like(i) ==
             /\ h[i] \in Seq(T)
             /\ (\A j \in 1..i : seqs[j] = <<>>) => h[i] = <<>>
             /\ \A k \in 1..i : seqs[k] # <<>> /\ (\A j \in 1..(k - 1) : seqs[j] = <<>>) =>
                  h[i] # <<>> /\ h[i][1] = seqs[k][1]
           good == {i \in 0..n : i = 0 \/ Like(i)}
<1>9. 0 \in good
  BY <1>1
<1>10. ASSUME NEW i \in 0..(n - 1), i \in good PROVE i + 1 \in good
  <2>1. i + 1 \in 0..n /\ i + 1 \in 1..n
    BY <1>1
  <2>2. CASE i = 0
    <3>1. \A k \in 1..(i + 1) : k = 1
      BY <2>2
    <3>2. 1 \in 1..(i + 1) /\ i + 1 = 1
      BY <2>2
    <3>3. Like(1)
      BY <1>1, <1>8, <2>2, <3>1, <3>2
    <3> QED
      BY <2>1, <3>2, <3>3
  <2>3. CASE i # 0
    <3>1. i + 1 \in 2..n /\ (i + 1) - 1 = i /\ Like(i)
      BY <1>1, <1>10, <2>3
    <3> DEFINE a == h[i]
               b == seqs[i + 1]
    <3>2. h[i + 1] = a \o b /\ a \in Seq(T) /\ b \in Seq(T)
      BY <1>1, <1>8, <2>1, <3>1
    <3>3. /\ a \o b \in Seq(T)
          /\ a = <<>> => a \o b = b
          /\ a # <<>> => a \o b # <<>> /\ (a \o b)[1] = a[1]
      <4> HIDE DEF a, b
      <4>1. /\ a \o b \in Seq(T) /\ Len(a \o b) = Len(a) + Len(b)
            /\ \A j \in 1..(Len(a) + Len(b)) : (a \o b)[j] = IF j <= Len(a) THEN a[j] ELSE b[j - Len(a)]
        BY <3>2, ConcatProperties
      <4>2. Len(a) \in Nat /\ Len(b) \in Nat /\ (a # <<>> => Len(a) # 0)
        BY <3>2, LenProperties, EmptySeq
      <4>3. a # <<>> => 1 \in 1..(Len(a) + Len(b)) /\ 1 <= Len(a) /\ Len(a) + Len(b) # 0
        BY <4>2
      <4>4. a = <<>> => a \o b = b
        BY <3>2
      <4> QED
        BY <4>1, <4>3, <4>4, EmptySeq
    <3> HIDE DEF a, b
    <3>4. (\A j \in 1..(i + 1) : seqs[j] = <<>>) => h[i + 1] = <<>>
      <4>1. i + 1 \in 1..(i + 1) /\ \A j \in 1..i : j \in 1..(i + 1)
        OBVIOUS
      <4> QED
        BY <3>1, <3>2, <3>3, <4>1 DEF a, b
    <3>5. ASSUME NEW k \in 1..(i + 1), seqs[k] # <<>>, \A j \in 1..(k - 1) : seqs[j] = <<>>
          PROVE  h[i + 1] # <<>> /\ h[i + 1][1] = seqs[k][1]
      <4>1. CASE k = i + 1
        <5>1. h[i] = <<>>
          BY <3>1, <3>5, <4>1
        <5> QED
          BY <3>2, <3>3, <3>5, <4>1, <5>1 DEF a, b
      <4>2. CASE k # i + 1
        <5>1. k \in 1..i
          BY <4>2
        <5>2. h[i] # <<>> /\ h[i][1] = seqs[k][1]
          BY <3>1, <3>5, <5>1
        <5> QED
          BY <3>2, <3>3, <5>2 DEF a
      <4> QED
        BY <4>1, <4>2
    <3>6. Like(i + 1)
      BY <3>2, <3>3, <3>4, <3>5
    <3> QED
      BY <2>1, <3>6
  <2> QED
    BY <2>2, <2>3
<1>11. Like(n)
  <2>1. n \in Nat /\ n \in 0..n /\ n # 0
    BY <1>1
  <2>2. \A i \in 0..n : i \in good
    <3> HIDE DEF good, n
    <3> QED
      BY <1>9, <1>10, <2>1, UpTo
  <2> QED
    BY <2>1, <2>2
<1> QED
  BY <1>1, <1>7, <1>11
-----------------------------------------------------------------------------
(* What Only keeps depends on the elements of s alone.                     *)
LEMMA OnlySame ==
  ASSUME NEW T, NEW s \in Seq(T), NEW S, NEW R, \A x \in ToSet(s) : x \in S <=> x \in R
  PROVE  Only(s, S) = Only(s, R)
<1> DEFINE Same(r) == \A x \in ToSet(r) : x \in S <=> x \in R
           good == {r \in Seq(T) : Same(r) => Only(r, S) = Only(r, R)}
<1>1. <<>> \in good
  BY OnlyEmpty
<1>2. ASSUME NEW r \in Seq(T), NEW x \in T, r \in good PROVE Append(r, x) \in good
  <2>1. Append(r, x) \in Seq(T) /\ ToSet(Append(r, x)) = ToSet(r) \cup {x}
    BY AppendProperties, ToSetAppend
  <2>2. /\ Only(Append(r, x), S) = IF x \in S THEN Append(Only(r, S), x) ELSE Only(r, S)
        /\ Only(Append(r, x), R) = IF x \in R THEN Append(Only(r, R), x) ELSE Only(r, R)
    BY OnlyAppend
  <2>3. ASSUME Same(Append(r, x)) PROVE Only(Append(r, x), S) = Only(Append(r, x), R)
    BY <1>2, <2>1, <2>2, <2>3
  <2> QED
    BY <2>1, <2>3
<1> HIDE DEF good
<1>3. \A r \in Seq(T) : r \in good
  BY <1>1, <1>2, ByAppending
<1> QED
  BY <1>3 DEF good

LEMMA OnlyNone ==
  ASSUME NEW T, NEW s \in Seq(T), NEW S, \A x \in ToSet(s) : x \notin S
  PROVE  Only(s, S) = <<>>
<1>1. Only(s, S) = Only(s, {})
  BY OnlySame
<1>2. Only(s, {}) \in Seq(T) /\ ToSet(Only(s, {})) = {}
  BY OnlyType, OnlyElements
<1> DEFINE e == Only(s, {})
<1>3. e = <<>>
  <2> SUFFICES ASSUME e # <<>> PROVE FALSE
    OBVIOUS
  <2> HIDE DEF e
  <2>1. 1 \in DOMAIN e
    BY <1>2, EmptySeq, LenProperties DEF e
  <2>2. e[1] \in ToSet(e)
    BY <2>1 DEF ToSet
  <2> QED
    BY <1>2, <2>2 DEF e
<1> QED
  BY <1>1, <1>3

LEMMA OnlyAll ==
  ASSUME NEW T, NEW s \in Seq(T), NEW S, \A x \in ToSet(s) : x \in S
  PROVE  Only(s, S) = s
<1> DEFINE good == {r \in Seq(T) : (\A x \in ToSet(r) : x \in S) => Only(r, S) = r}
<1>1. <<>> \in good
  BY OnlyEmpty
<1>2. ASSUME NEW r \in Seq(T), NEW x \in T, r \in good PROVE Append(r, x) \in good
  <2>1. Append(r, x) \in Seq(T) /\ ToSet(Append(r, x)) = ToSet(r) \cup {x}
    BY AppendProperties, ToSetAppend
  <2>2. Only(Append(r, x), S) = IF x \in S THEN Append(Only(r, S), x) ELSE Only(r, S)
    BY OnlyAppend
  <2> QED
    BY <1>2, <2>1, <2>2
<1> HIDE DEF good
<1>3. \A r \in Seq(T) : r \in good
  BY <1>1, <1>2, ByAppending
<1> QED
  BY <1>3 DEF good

LEMMA OnlyTwice ==
  ASSUME NEW T, NEW s \in Seq(T), NEW S, NEW R
  PROVE  Only(Only(s, S), R) = Only(s, S \cap R)
<1> DEFINE good == {r \in Seq(T) : Only(Only(r, S), R) = Only(r, S \cap R)}
<1>1. <<>> \in good
  BY OnlyEmpty
<1>2. ASSUME NEW r \in Seq(T), NEW x \in T, r \in good PROVE Append(r, x) \in good
  <2>1. Append(r, x) \in Seq(T) /\ Only(r, S) \in Seq(T)
    BY AppendProperties, OnlyType
  <2>2. /\ Only(Append(r, x), S) = IF x \in S THEN Append(Only(r, S), x) ELSE Only(r, S)
        /\ Only(Append(r, x), S \cap R) =
             IF x \in S \cap R THEN Append(Only(r, S \cap R), x) ELSE Only(r, S \cap R)
    BY OnlyAppend
  <2>3. Only(Append(Only(r, S), x), R) =
          IF x \in R THEN Append(Only(Only(r, S), R), x) ELSE Only(Only(r, S), R)
    BY <2>1, OnlyAppend
  <2>4. CASE x \in S
    <3>1. Only(Only(Append(r, x), S), R) = Only(Append(Only(r, S), x), R)
      BY <2>2, <2>4
    <3>2. Only(Only(r, S), R) = Only(r, S \cap R) /\ (x \in S \cap R <=> x \in R)
      BY <1>2, <2>4
    <3>3. Only(Only(Append(r, x), S), R) = Only(Append(r, x), S \cap R)
      BY <2>2, <2>3, <3>1, <3>2
    <3> QED
      BY <2>1, <3>3
  <2>5. CASE x \notin S
    BY <1>2, <2>1, <2>2, <2>5
  <2> QED
    BY <2>4, <2>5
<1> HIDE DEF good
<1>3. \A r \in Seq(T) : r \in good
  BY <1>1, <1>2, ByAppending
<1> QED
  BY <1>3 DEF good

(* The more elements are kept, the more they are and the larger their sum. *)
LEMMA OnlyMonotone ==
  ASSUME NEW T, NEW s \in Seq(T), NEW f \in [T -> Nat], NEW S, NEW R,
         \A x \in ToSet(s) : x \in S => x \in R
  PROVE  /\ Len(Only(s, S)) <= Len(Only(s, R))
         /\ SumOver(Only(s, S), f) <= SumOver(Only(s, R), f)
<1> DEFINE Less(r) == \A x \in ToSet(r) : x \in S => x \in R
           Holds(r) == /\ Len(Only(r, S)) <= Len(Only(r, R))
                       /\ SumOver(Only(r, S), f) <= SumOver(Only(r, R), f)
           good == {r \in Seq(T) : Less(r) => Holds(r)}
<1>1. <<>> \in good
  <2>1. SumOver(<<>>, f) = 0 /\ Len(<<>>) = 0
    BY SumEmpty
  <2> QED
    BY <2>1, OnlyEmpty
<1>2. ASSUME NEW r \in Seq(T), NEW x \in T, r \in good PROVE Append(r, x) \in good
  <2>1. Append(r, x) \in Seq(T) /\ ToSet(Append(r, x)) = ToSet(r) \cup {x}
    BY AppendProperties, ToSetAppend
  <2> DEFINE a == Only(r, S)
             b == Only(r, R)
  <2>2. a \in Seq(T) /\ b \in Seq(T)
    BY OnlyType
  <2>3. /\ Only(Append(r, x), S) = IF x \in S THEN Append(a, x) ELSE a
        /\ Only(Append(r, x), R) = IF x \in R THEN Append(b, x) ELSE b
    BY OnlyAppend
  <2> HIDE DEF a, b
  <2>4. /\ Len(a) \in Nat /\ Len(b) \in Nat
        /\ Len(Append(a, x)) = Len(a) + 1 /\ Len(Append(b, x)) = Len(b) + 1
    BY <2>2, AppendProperties, LenProperties
  <2>5. /\ SumOver(a, f) \in Nat /\ SumOver(b, f) \in Nat /\ f[x] \in Nat
        /\ SumOver(Append(a, x), f) = SumOver(a, f) + f[x]
        /\ SumOver(Append(b, x), f) = SumOver(b, f) + f[x]
    BY <2>2, SumType, SumAppend
  <2>6. ASSUME Less(Append(r, x)) PROVE Holds(Append(r, x))
    <3>1. (x \in S => x \in R) /\ Less(r)
      BY <2>1, <2>6
    <3>2. Len(a) <= Len(b) /\ SumOver(a, f) <= SumOver(b, f)
      BY <1>2, <3>1 DEF a, b
    <3>3. CASE x \in S
      BY <2>3, <2>4, <2>5, <3>1, <3>2, <3>3
    <3>4. CASE x \notin S /\ x \in R
      BY <2>3, <2>4, <2>5, <3>2, <3>4
    <3>5. CASE x \notin S /\ x \notin R
      BY <2>3, <2>4, <2>5, <3>2, <3>5
    <3> QED
      BY <3>3, <3>4, <3>5
  <2> QED
    BY <2>1, <2>6
<1> HIDE DEF good
<1>3. \A r \in Seq(T) : r \in good
  BY <1>1, <1>2, ByAppending
<1> QED
  BY <1>3 DEF good

-----------------------------------------------------------------------------
(* Sequences in which nothing is twice, and what Only leaves of them. *)
NoneTwice(s) == \A i, j \in 1..Len(s) : s[i] = s[j] => i = j

LEMMA NoneTwiceAppend ==
  ASSUME NEW T, NEW s \in Seq(T), NEW x \in T
  PROVE  NoneTwice(Append(s, x)) <=> NoneTwice(s) /\ x \notin ToSet(s)
<1> DEFINE n == Len(s)
           t == Append(s, x)
<1>1. n \in Nat /\ DOMAIN s = 1..n /\ Len(t) = n + 1 /\ t[n + 1] = x /\ \A i \in 1..n : t[i] = s[i]
  BY LenProperties, AppendProperties
<1>2. ToSet(s) = {s[i] : i \in 1..n}
  BY <1>1 DEF ToSet
<1>3. \A i : i \in 1..(n + 1) <=> i \in 1..n \/ i = n + 1
  BY <1>1
<1>4. n + 1 \notin 1..n
  BY <1>1
<1> HIDE DEF n, t
<1>5. ASSUME NoneTwice(t) PROVE NoneTwice(s) /\ x \notin ToSet(s)
  BY <1>1, <1>2, <1>3, <1>4, <1>5 DEF NoneTwice, n
<1>6. ASSUME NoneTwice(s), x \notin ToSet(s) PROVE NoneTwice(t)
  BY <1>1, <1>2, <1>3, <1>4, <1>6 DEF NoneTwice, n
<1> QED
  BY <1>5, <1>6 DEF t

LEMMA NoneTwiceJoined ==
  ASSUME NEW T, NEW s \in Seq(T), NEW t \in Seq(T), NoneTwice(s), NoneTwice(t),
         ToSet(s) \cap ToSet(t) = {}
  PROVE  NoneTwice(s \o t)
<1> DEFINE m == Len(s)
           n == Len(t)
           j == s \o t
<1>1. m \in Nat /\ n \in Nat /\ Len(j) = m + n /\ DOMAIN s = 1..m /\ DOMAIN t = 1..n
  BY LenProperties, ConcatProperties
<1>2. \A i \in 1..(m + n) : \/ i \in 1..m /\ j[i] = s[i]
                            \/ i - m \in 1..n /\ j[i] = t[i - m]
  BY LenProperties, ConcatProperties
<1>3. (\A i \in 1..m : s[i] \in ToSet(s)) /\ \A i \in 1..n : t[i] \in ToSet(t)
  BY <1>1 DEF ToSet
<1> HIDE DEF j
<1>4. \A i, l \in 1..(m + n) : j[i] = j[l] => i = l
  <2> SUFFICES ASSUME NEW i \in 1..(m + n), NEW l \in 1..(m + n), j[i] = j[l] PROVE i = l
    OBVIOUS
  <2>1. CASE i \in 1..m /\ j[i] = s[i]
    BY <1>2, <1>3, <2>1 DEF NoneTwice
  <2>2. CASE i - m \in 1..n /\ j[i] = t[i - m]
    <3>1. l - m \in 1..n /\ j[l] = t[l - m]
      BY <1>2, <1>3, <2>2
    <3>2. i - m = l - m
      BY <2>2, <3>1 DEF NoneTwice
    <3> QED
      BY <1>1, <3>2
  <2> QED
    BY <1>2, <2>1, <2>2
<1> QED
  BY <1>1, <1>4 DEF NoneTwice, j

LEMMA OnlyNoneTwice ==
  ASSUME NEW T, NEW s \in Seq(T), NEW S, NoneTwice(s)
  PROVE  NoneTwice(Only(s, S))
<1> DEFINE good == {r \in Seq(T) : NoneTwice(r) => NoneTwice(Only(r, S))}
<1>1. <<>> \in good
  BY OnlyEmpty
<1>2. ASSUME NEW r \in Seq(T), NEW x \in T, r \in good PROVE Append(r, x) \in good
  <2>1. Append(r, x) \in Seq(T) /\ Only(r, S) \in Seq(T) /\ ToSet(Only(r, S)) = ToSet(r) \cap S
    BY AppendProperties, OnlyType, OnlyElements
  <2>2. Only(Append(r, x), S) = IF x \in S THEN Append(Only(r, S), x) ELSE Only(r, S)
    BY OnlyAppend
  <2>3. ASSUME NoneTwice(Append(r, x)) PROVE NoneTwice(Only(Append(r, x), S))
    <3>1. NoneTwice(r) /\ x \notin ToSet(r)
      BY <2>3, NoneTwiceAppend
    <3>2. NoneTwice(Only(r, S)) /\ x \notin ToSet(Only(r, S))
      BY <1>2, <2>1, <3>1
    <3>3. NoneTwice(Append(Only(r, S), x))
      BY <2>1, <3>2, NoneTwiceAppend
    <3> QED
      BY <2>2, <3>2, <3>3
  <2> QED
    BY <2>1, <2>3
<1> HIDE DEF good
<1>3. \A r \in Seq(T) : r \in good
  BY <1>1, <1>2, ByAppending
<1> QED
  BY <1>3 DEF good

LEMMA OnlyShorter ==
  ASSUME NEW T, NEW s \in Seq(T), NEW S, NEW x \in ToSet(s), x \notin S
  PROVE  Len(Only(s, S)) + 1 <= Len(s)
<1> DEFINE good == {r \in Seq(T) : /\ Len(Only(r, S)) <= Len(r)
                                   /\ x \in ToSet(r) => Len(Only(r, S)) + 1 <= Len(r)}
<1>1. <<>> \in good
  <2>1. Len(<<>>) = 0 /\ Len(<<>>) <= Len(<<>>)
    OBVIOUS
  <2> QED
    BY <2>1, OnlyEmpty, ToSetEmpty
<1>2. ASSUME NEW r \in Seq(T), NEW y \in T, r \in good PROVE Append(r, y) \in good
  <2> DEFINE a == Only(r, S)
             t == Append(r, y)
  <2>1. a \in Seq(T) /\ t \in Seq(T) /\ Len(t) = Len(r) + 1 /\ ToSet(t) = ToSet(r) \cup {y}
    BY AppendProperties, OnlyType, ToSetAppend
  <2>2. Only(t, S) = IF y \in S THEN Append(a, y) ELSE a
    BY OnlyAppend
  <2>3. Len(a) <= Len(r) /\ (x \in ToSet(r) => Len(a) + 1 <= Len(r))
    BY <1>2
  <2> HIDE DEF a, t
  <2>4. Len(a) \in Nat /\ Len(r) \in Nat /\ Len(Append(a, y)) = Len(a) + 1
    BY <2>1, LenProperties, AppendProperties
  <2>5. Len(Only(t, S)) <= Len(t) /\ (x \in ToSet(t) => Len(Only(t, S)) + 1 <= Len(t))
    <3>1. CASE y \in S
      BY <2>1, <2>2, <2>3, <2>4, <3>1
    <3>2. CASE y \notin S
      BY <2>1, <2>2, <2>3, <2>4, <3>2
    <3> QED
      BY <3>1, <3>2
  <2> QED
    BY <2>1, <2>5 DEF t
<1> HIDE DEF good
<1>3. \A r \in Seq(T) : r \in good
  BY <1>1, <1>2, ByAppending
<1> QED
  BY <1>3 DEF good

LEMMA OnlyTail ==
  ASSUME NEW T, NEW s \in Seq(T), s # <<>>, NEW S, Head(s) \notin S,
         \A x \in ToSet(Tail(s)) : x \in S
  PROVE  Only(s, S) = Tail(s)
<1> DEFINE Fits(r) == r # <<>> /\ Head(r) \notin S /\ \A x \in ToSet(Tail(r)) : x \in S
           good == {r \in Seq(T) : Fits(r) => Only(r, S) = Tail(r)}
<1>1. <<>> \in good
  OBVIOUS
<1>2. ASSUME NEW r \in Seq(T), NEW y \in T, r \in good PROVE Append(r, y) \in good
  <2>1. Append(r, y) \in Seq(T)
        /\ Only(Append(r, y), S) = IF y \in S THEN Append(Only(r, S), y) ELSE Only(r, S)
    BY AppendProperties, OnlyAppend
  <2>2. /\ Head(Append(r, y)) = IF r = <<>> THEN y ELSE Head(r)
        /\ Tail(Append(r, y)) = IF r = <<>> THEN <<>> ELSE Append(Tail(r), y)
    BY HeadTailAppend
  <2>3. ASSUME Fits(Append(r, y)) PROVE Only(Append(r, y), S) = Tail(Append(r, y))
    <3>1. CASE r = <<>>
      BY <2>1, <2>2, <2>3, <3>1, OnlyEmpty
    <3>2. CASE r # <<>>
      <4>1. Tail(r) \in Seq(T) /\ ToSet(Append(Tail(r), y)) = ToSet(Tail(r)) \cup {y}
        <5>1. Tail(r) \in Seq(T)
          BY <3>2, HeadTailProperties
        <5> DEFINE u == Tail(r)
        <5>2. u \in Seq(T)
          BY <5>1
        <5> HIDE DEF u
        <5>3. ToSet(Append(u, y)) = ToSet(u) \cup {y}
          BY <5>2, ToSetAppend
        <5> QED
          BY <5>2, <5>3 DEF u
      <4>2. Fits(r) /\ y \in S
        BY <2>2, <2>3, <3>2, <4>1
      <4> QED
        BY <1>2, <2>1, <2>2, <3>2, <4>2
    <3> QED
      BY <3>1, <3>2
  <2> QED
    BY <2>1, <2>3
<1> HIDE DEF good
<1>3. \A r \in Seq(T) : r \in good
  BY <1>1, <1>2, ByAppending
<1> QED
  BY <1>3 DEF good

LEMMA OnlyNoLonger ==
  ASSUME NEW T, NEW s \in Seq(T), NEW S
  PROVE  Len(Only(s, S)) <= Len(s)
<1> DEFINE f == [x \in T |-> 0]
<1>1. f \in [T -> Nat]
  OBVIOUS
<1>2. \A x \in ToSet(s) : x \in T
  <2>1. \A i \in DOMAIN s : s[i] \in T
    BY LenProperties, ElementOfSeq
  <2> QED
    BY <2>1 DEF ToSet
<1> HIDE DEF f
<1>3. Len(Only(s, S)) <= Len(Only(s, S \cup T))
  BY <1>1, OnlyMonotone
<1>4. Only(s, S \cup T) = s
  BY <1>2, OnlyAll
<1> QED
  BY <1>3, <1>4

LEMMA HeadApart ==
  ASSUME NEW T, NEW s \in Seq(T), s # <<>>, NoneTwice(s)
  PROVE  /\ Head(s) \notin ToSet(Tail(s)) /\ NoneTwice(Tail(s))
         /\ ToSet(s) = ToSet(Tail(s)) \cup {Head(s)}
<1> DEFINE t == Tail(s)
<1>1. Head(s) = s[1] /\ Len(s) \in Nat /\ Len(s) > 0 /\ DOMAIN s = 1..Len(s)
  BY EmptySeq, LenProperties
<1>2. t \in Seq(T) /\ Len(t) = Len(s) - 1 /\ \A i \in 1..Len(t) : t[i] = s[i + 1]
  BY HeadTailProperties
<1> HIDE DEF t
<1>3. DOMAIN t = 1..(Len(s) - 1)
  BY <1>2, LenProperties
<1>4. \A i \in 1..(Len(s) - 1) : i + 1 \in 1..Len(s) /\ i + 1 # 1
  BY <1>1
<1>5. s[1] \notin ToSet(t)
  <2> SUFFICES ASSUME NEW i \in 1..(Len(s) - 1), t[i] = s[1] PROVE FALSE
    BY <1>3 DEF ToSet
  <2>1. s[i + 1] = s[1] /\ i + 1 \in 1..Len(s) /\ 1 \in 1..Len(s) /\ i + 1 # 1
    BY <1>1, <1>2, <1>4
  <2> QED
    BY <2>1 DEF NoneTwice
<1>6. NoneTwice(t)
  <2> SUFFICES ASSUME NEW i \in 1..Len(t), NEW j \in 1..Len(t), t[i] = t[j] PROVE i = j
    BY DEF NoneTwice
  <2>1. s[i + 1] = s[j + 1] /\ i + 1 \in 1..Len(s) /\ j + 1 \in 1..Len(s)
    BY <1>1, <1>2
  <2>2. i + 1 = j + 1
    BY <2>1 DEF NoneTwice
  <2> QED
    BY <1>1, <1>2, <2>2
<1>7. ToSet(s) = ToSet(t) \cup {s[1]}
  <2>1. \A i \in 1..Len(s) : i = 1 \/ (i - 1 \in 1..(Len(s) - 1) /\ s[i] = t[i - 1])
    <3> SUFFICES ASSUME NEW i \in 1..Len(s), i # 1 PROVE i - 1 \in 1..(Len(s) - 1) /\ s[i] = t[i - 1]
      OBVIOUS
    <3>1. i - 1 \in 1..(Len(s) - 1) /\ (i - 1) + 1 = i
      BY <1>1
    <3>2. t[i - 1] = s[(i - 1) + 1]
      BY <1>2, <3>1
    <3> QED
      BY <3>1, <3>2
  <2>2. \A i \in 1..(Len(s) - 1) : t[i] = s[i + 1]
    BY <1>2
  <2>3. 1 \in 1..Len(s)
    BY <1>1
  <2>4. ToSet(s) \subseteq ToSet(t) \cup {s[1]}
    BY <1>1, <1>3, <2>1 DEF ToSet
  <2>5. ToSet(t) \subseteq ToSet(s) /\ s[1] \in ToSet(s)
    BY <1>1, <1>3, <1>4, <2>2, <2>3 DEF ToSet
  <2> QED
    BY <2>4, <2>5
<1> QED
  BY <1>1, <1>5, <1>6, <1>7 DEF t

-----------------------------------------------------------------------------
(* To append to the second of two lists that are joined. *)
LEMMA JoinAppend ==
  ASSUME NEW T, NEW s \in Seq(T), NEW t \in Seq(T), NEW x \in T
  PROVE  s \o Append(t, x) = Append(s \o t, x)
<1>1. <<x>> \in Seq(T) /\ s \o t \in Seq(T)
  BY ConcatProperties
<1>2. Append(t, x) = t \o <<x>> /\ Append(s \o t, x) = (s \o t) \o <<x>>
  BY <1>1, AppendIsConcat
<1>3. (s \o t) \o <<x>> = s \o (t \o <<x>>)
  BY <1>1, ConcatAssociative
<1> QED
  BY <1>2, <1>3

(* The elements of two lists in a row. *)
LEMMA ToSetJoined ==
  ASSUME NEW T, NEW s \in Seq(T), NEW t \in Seq(T)
  PROVE  ToSet(s \o t) = ToSet(s) \cup ToSet(t)
<1> DEFINE m == Len(s)
           n == Len(t)
           j == s \o t
<1>1. /\ m \in Nat /\ n \in Nat /\ Len(j) = m + n /\ DOMAIN s = 1..m /\ DOMAIN t = 1..n
      /\ DOMAIN j = 1..(m + n)
      /\ \A i \in 1..(m + n) : j[i] = IF i <= m THEN s[i] ELSE t[i - m]
  BY LenProperties, ConcatProperties
<1> HIDE DEF m, n, j
<1>2. \A i \in 1..m : i \in 1..(m + n) /\ j[i] = s[i]
  BY <1>1
<1>3. \A i \in 1..n : i + m \in 1..(m + n) /\ j[i + m] = t[i]
  <2>1. \A i \in 1..n : i + m \in 1..(m + n) /\ ~(i + m <= m) /\ i + m - m = i
    BY <1>1
  <2> QED
    BY <1>1, <2>1
<1>4. \A i \in 1..(m + n) : (i \in 1..m /\ j[i] = s[i]) \/ (i - m \in 1..n /\ j[i] = t[i - m])
  <2> SUFFICES ASSUME NEW i \in 1..(m + n)
               PROVE  (i \in 1..m /\ j[i] = s[i]) \/ (i - m \in 1..n /\ j[i] = t[i - m])
    OBVIOUS
  <2>1. m \in Nat /\ n \in Nat /\ j[i] = IF i <= m THEN s[i] ELSE t[i - m]
    BY <1>1
  <2>2. CASE i <= m
    BY <2>1, <2>2
  <2>3. CASE ~(i <= m)
    BY <2>1, <2>3
  <2> QED
    BY <2>2, <2>3
<1>5. ToSet(s) = {s[i] : i \in 1..m} /\ ToSet(t) = {t[i] : i \in 1..n} /\ ToSet(j) = {j[i] : i \in 1..(m + n)}
  BY <1>1 DEF ToSet
<1>6. {s[i] : i \in 1..m} \subseteq {j[i] : i \in 1..(m + n)}
  BY ONLY <1>2
<1>7. {t[i] : i \in 1..n} \subseteq {j[i] : i \in 1..(m + n)}
  BY ONLY <1>3
<1>8. {j[i] : i \in 1..(m + n)} \subseteq {s[i] : i \in 1..m} \cup {t[i] : i \in 1..n}
  BY ONLY <1>4
<1> QED
  BY <1>5, <1>6, <1>7, <1>8 DEF j

LEMMA OnlyJoined ==
  ASSUME NEW T, NEW s \in Seq(T), NEW t \in Seq(T), NEW S
  PROVE  Only(s \o t, S) = Only(s, S) \o Only(t, S)
<1> DEFINE good == {r \in Seq(T) : Only(s \o r, S) = Only(s, S) \o Only(r, S)}
<1>1. <<>> \in good
  <2>1. s \o <<>> = s /\ Only(s, S) \in Seq(T) /\ <<>> \in Seq(T) /\ Only(s, S) \o <<>> = Only(s, S)
    BY ConcatEmptySeq, OnlyType
  <2> QED
    BY <2>1, OnlyEmpty
<1>2. ASSUME NEW r \in Seq(T), NEW x \in T, r \in good PROVE Append(r, x) \in good
  <2>1. s \o r \in Seq(T) /\ Append(r, x) \in Seq(T) /\ s \o Append(r, x) = Append(s \o r, x)
    BY ConcatProperties, AppendProperties, JoinAppend
  <2>2. /\ Only(Append(r, x), S) = IF x \in S THEN Append(Only(r, S), x) ELSE Only(r, S)
        /\ Only(Append(s \o r, x), S) = IF x \in S THEN Append(Only(s \o r, S), x) ELSE Only(s \o r, S)
    BY <2>1, OnlyAppend
  <2>3. Only(s, S) \o Append(Only(r, S), x) = Append(Only(s, S) \o Only(r, S), x)
    BY OnlyType, JoinAppend
  <2> QED
    BY <1>2, <2>1, <2>2, <2>3
<1> HIDE DEF good
<1>3. \A r \in Seq(T) : r \in good
  BY <1>1, <1>2, ByAppending
<1> QED
  BY <1>3 DEF good

(* What follows something is a suffix of what they make together. *)
LEMMA SuffixOfJoined ==
  ASSUME NEW T, NEW s \in Seq(T), NEW t \in Seq(T)
  PROVE  IsSuffix(s, t \o s)
<1> DEFINE u == t \o s
           a == Reverse(s)
           b == Reverse(u)
<1>1. /\ u \in Seq(T) /\ Len(u) = Len(t) + Len(s) /\ Len(s) \in Nat /\ Len(t) \in Nat
      /\ \A i \in 1..(Len(t) + Len(s)) : u[i] = IF i <= Len(t) THEN t[i] ELSE s[i - Len(t)]
  BY ConcatProperties, LenProperties
<1> HIDE DEF u
<1>2. a = [i \in 1..Len(s) |-> s[(Len(s) - i) + 1]] /\ b = [i \in 1..Len(u) |-> u[(Len(u) - i) + 1]]
  BY DEF Reverse
<1>3. a \in Seq(T) /\ Len(a) = Len(s) /\ \A i \in 1..Len(s) : a[i] = s[(Len(s) - i) + 1]
  <2>1. \A i \in 1..Len(s) : (Len(s) - i) + 1 \in 1..Len(s) /\ s[(Len(s) - i) + 1] \in T
    BY <1>1, ElementOfSeq
  <2>2. a \in [1..Len(s) -> T]
    BY <1>2, <2>1
  <2> HIDE DEF a
  <2>3. a \in Seq(T)
    <3>1. Len(s) \in Nat
      BY <1>1
    <3> QED
      BY ONLY <2>2, <3>1, SeqDef
  <2> QED
    BY <1>1, <1>2, <2>2, <2>3, LenProperties
<1>4. b \in Seq(T) /\ Len(b) = Len(u) /\ \A i \in 1..Len(u) : b[i] = u[(Len(u) - i) + 1]
  <2>1. \A i \in 1..Len(u) : (Len(u) - i) + 1 \in 1..Len(u) /\ u[(Len(u) - i) + 1] \in T
    BY <1>1, ElementOfSeq
  <2>2. b \in [1..Len(u) -> T]
    BY <1>2, <2>1
  <2> HIDE DEF b
  <2>3. b \in Seq(T)
    <3>1. Len(u) \in Nat
      BY <1>1
    <3> QED
      BY ONLY <2>2, <3>1, SeqDef
  <2> QED
    BY <1>1, <1>2, <2>2, <2>3, LenProperties
<1> HIDE DEF a, b
<1>5. \A i \in 1..Len(s) : a[i] = b[i] /\ i \in 1..Len(u)
  <2> SUFFICES ASSUME NEW i \in 1..Len(s) PROVE a[i] = b[i] /\ i \in 1..Len(u)
    OBVIOUS
  <2> DEFINE k == (Len(u) - i) + 1
  <2>1. i \in 1..Len(u) /\ k \in 1..(Len(t) + Len(s)) /\ ~(k <= Len(t)) /\ k - Len(t) = (Len(s) - i) + 1
    BY <1>1
  <2>2. u[k] = s[k - Len(t)]
    BY <1>1, <2>1
  <2> QED
    BY <1>3, <1>4, <2>1, <2>2
<1>6. Len(a) <= Len(b) /\ SubSeq(a, 1, Len(a)) = a
  BY <1>1, <1>3, <1>4, SubSeqFull
<1>7. SubSeq(b, 1, Len(a)) = a
  <2> DEFINE c == SubSeq(b, 1, Len(a))
  <2>1. \A i \in 1..Len(a) : b[i] \in T
    BY <1>3, <1>4, <1>5, ElementOfSeq
  <2>2. c \in Seq(T) /\ Len(c) = Len(a) /\ \A i \in 1..Len(a) : c[i] = b[i]
    BY <1>1, <1>3, <2>1, SubSeqProperties
  <2> HIDE DEF c
  <2>3. c = a
    BY <1>3, <1>5, <2>2, SeqEqual
  <2> QED
    BY <2>3 DEF c
<1> QED
  BY <1>6, <1>7 DEF IsSuffix, IsPrefix, a, b, u

(* The last element, seen from the end. *)
LEMMA LastAppended ==
  ASSUME NEW T, NEW s \in Seq(T), NEW x \in T
  PROVE  Last(Append(s, x)) = x
<1>1. Len(Append(s, x)) = Len(s) + 1 /\ Append(s, x)[Len(s) + 1] = x
  BY AppendProperties
<1> QED
  BY <1>1 DEF Last

LEMMA FrontAndLastIs ==
  ASSUME NEW T, NEW s \in Seq(T), s # <<>>
  PROVE  Last(s) \in T /\ \E f \in Seq(T) : s = Append(f, Last(s))
BY FrontAndLast DEF Last
-----------------------------------------------------------------------------
(* A list with g applied to each of its elements. *)
Mapped(s, g) == [i \in DOMAIN s |-> g[s[i]]]

(* What g makes of the elements of T. *)
Image(T, g) == {g[x] : x \in T}

LEMMA MappedValues ==
  ASSUME NEW T, NEW s \in Seq(T), NEW g
  PROVE  /\ Mapped(s, g) \in Seq(Image(T, g)) /\ Len(Mapped(s, g)) = Len(s)
         /\ \A i \in 1..Len(s) : Mapped(s, g)[i] = g[s[i]]
<1> DEFINE n == Len(s)
           m == Mapped(s, g)
           U == Image(T, g)
<1>1. n \in Nat /\ DOMAIN s = 1..n /\ \A i \in 1..n : s[i] \in T
  BY LenProperties, ElementOfSeq
<1>2. m = [i \in 1..n |-> g[s[i]]]
  BY <1>1 DEF Mapped
<1>3. \A i \in 1..n : g[s[i]] \in U
  BY <1>1 DEF Image
<1> HIDE DEF n, m, U
<1>4. m \in [1..n -> U] /\ \A i \in 1..n : m[i] = g[s[i]]
  BY <1>2, <1>3
<1>5. m \in Seq(U)
  BY ONLY <1>1, <1>4, SeqDef
<1>6. Len(m) = n
  BY <1>1, <1>4, <1>5, LenProperties
<1> QED
  BY <1>4, <1>5, <1>6 DEF n, m, U

LEMMA MappedIs ==
  ASSUME NEW T, NEW U, NEW s \in Seq(T), NEW g, \A x \in T : g[x] \in U
  PROVE  Mapped(s, g) \in Seq(U)
<1>1. Mapped(s, g) \in Seq(Image(T, g))
  BY MappedValues
<1>2. Image(T, g) \subseteq U
  BY DEF Image
<1> QED
  BY <1>1, <1>2, SeqMonotonic

LEMMA MappedEmpty == \A g : Mapped(<<>>, g) = <<>>
BY DEF Mapped

LEMMA MappedAppend ==
  ASSUME NEW T, NEW s \in Seq(T), NEW x \in T, NEW g
  PROVE  Mapped(Append(s, x), g) = Append(Mapped(s, g), g[x])
<1> DEFINE t == Append(s, x)
           a == Mapped(t, g)
           m == Mapped(s, g)
           b == Append(m, g[x])
           n == Len(s)
           U == Image(T, g)
<1>1. n \in Nat /\ t \in Seq(T) /\ Len(t) = n + 1 /\ t[n + 1] = x /\ \A i \in 1..n : t[i] = s[i]
  BY LenProperties, AppendProperties
<1>2. m \in Seq(U) /\ Len(m) = n /\ \A i \in 1..n : m[i] = g[s[i]]
  BY MappedValues
<1> HIDE DEF t, m
<1>3. a \in Seq(U) /\ Len(a) = n + 1 /\ \A i \in 1..(n + 1) : a[i] = g[t[i]]
  BY <1>1, MappedValues
<1>4. g[x] \in U
  BY DEF Image
<1> HIDE DEF U
<1>5. b \in Seq(U) /\ Len(b) = n + 1 /\ b[n + 1] = g[x] /\ \A i \in 1..n : b[i] = m[i]
  BY <1>2, <1>4, AppendProperties
<1>6. \A i \in 1..(n + 1) : i \in 1..n \/ i = n + 1
  BY <1>1
<1> HIDE DEF a, b, n
<1>7. \A i \in 1..(n + 1) : a[i] = b[i]
  BY <1>1, <1>2, <1>3, <1>5, <1>6
<1>8. a = b
  BY <1>3, <1>5, <1>7, SeqEqual
<1> QED
  BY <1>8 DEF a, b, t, m

LEMMA MappedJoined ==
  ASSUME NEW T, NEW s \in Seq(T), NEW t \in Seq(T), NEW g
  PROVE  Mapped(s \o t, g) = Mapped(s, g) \o Mapped(t, g)
<1> DEFINE good == {r \in Seq(T) : Mapped(s \o r, g) = Mapped(s, g) \o Mapped(r, g)}
           U == Image(T, g)
<1>0. \A r \in Seq(T) : Mapped(r, g) \in Seq(U)
  BY MappedValues
<1>1. <<>> \in good
  <2>1. s \o <<>> = s /\ Mapped(s, g) \in Seq(U) /\ <<>> \in Seq(T)
    BY <1>0, ConcatEmptySeq
  <2>2. Mapped(s, g) \o <<>> = Mapped(s, g)
    BY <2>1, ConcatEmptySeq
  <2> QED
    BY <2>1, <2>2, MappedEmpty
<1>2. ASSUME NEW r \in Seq(T), NEW x \in T, r \in good PROVE Append(r, x) \in good
  <2> DEFINE u == s \o r
             a == Mapped(s, g)
             b == Mapped(r, g)
             y == g[x]
  <2>1. u \in Seq(T) /\ Append(r, x) \in Seq(T) /\ s \o Append(r, x) = Append(u, x)
    BY ConcatProperties, AppendProperties, JoinAppend
  <2>2. Mapped(Append(r, x), g) = Append(b, y)
    BY MappedAppend
  <2>3. Mapped(u, g) = a \o b
    BY <1>2
  <2> HIDE DEF u
  <2>4. Mapped(Append(u, x), g) = Append(Mapped(u, g), y)
    BY <2>1, MappedAppend
  <2>5. a \in Seq(U) /\ b \in Seq(U) /\ y \in U
    BY <1>0 DEF Image
  <2> HIDE DEF a, b, y, U
  <2>6. a \o Append(b, y) = Append(a \o b, y)
    BY ONLY <2>5, JoinAppend
  <2>7. Mapped(s \o Append(r, x), g) = a \o Mapped(Append(r, x), g)
    BY <2>1, <2>2, <2>3, <2>4, <2>6
  <2> QED
    BY <2>1, <2>7 DEF a
<1> HIDE DEF good
<1>3. \A r \in Seq(T) : r \in good
  BY <1>1, <1>2, ByAppending
<1> QED
  BY <1>3 DEF good

(* To append to a list of lists is to append to what they make.            *)
LEMMA FlatEmpty == FlattenSeq(<<>>) = <<>>
BY DEF FlattenSeq

(* What the first i lists make. *)
Makes(seqs, f) == f[0] = <<>> /\ \A i \in 1..Len(seqs) : f[i] = f[i - 1] \o seqs[i]

LEMMA FlatIs ==
  ASSUME NEW T, NEW seqs \in Seq(Seq(T))
  PROVE  \E f \in [0..Len(seqs) -> Seq(T)] : Makes(seqs, f) /\ FlattenSeq(seqs) = f[Len(seqs)]
<1> DEFINE n == Len(seqs)
           Is(f) == f = [i \in 1..n |-> IF i = 1 THEN seqs[i] ELSE f[i - 1] \o seqs[i]]
           g == [i \in 1..n |-> [a \in Seq(T) |-> a \o seqs[i]]]
<1>1. n \in Nat /\ DOMAIN seqs = 1..n /\ \A i \in 1..n : seqs[i] \in Seq(T)
  BY LenProperties, ElementOfSeq
<1>2. g \in [1..n -> [Seq(T) -> Seq(T)]]
  BY <1>1, ConcatProperties
<1> HIDE DEF g
<1>3. PICK f \in [0..n -> Seq(T)] : f[0] = <<>> /\ \A i \in 1..n : f[i] = g[i][f[i - 1]]
  <2>1. <<>> \in Seq(T) /\ n \in Nat
    BY <1>1
  <2> HIDE DEF n, Is
  <2>2. \E f \in [0..n -> Seq(T)] : Recurs(f, n, <<>>, g)
    BY <1>2, <2>1, RecursionExists
  <2> QED
    BY <2>2 DEF Recurs
<1>4. \A i \in 1..n : f[i] = f[i - 1] \o seqs[i]
  <2> SUFFICES ASSUME NEW i \in 1..n PROVE f[i] = f[i - 1] \o seqs[i]
    OBVIOUS
  <2>1. i - 1 \in 0..n
    BY <1>1
  <2>2. f[i - 1] \in Seq(T)
    BY <2>1
  <2> QED
    BY <1>3, <2>2 DEF g
<1>5. CASE n = 0
  <2>1. seqs = <<>>
    BY <1>5, EmptySeq
  <2>2. FlattenSeq(seqs) = <<>>
    BY <2>1, FlatEmpty
  <2> QED
    BY <1>3, <1>4, <1>5, <2>2 DEF Makes
<1>6. CASE n # 0
  <2> DEFINE e == [i \in 1..n |-> f[i]]
             h == CHOOSE k : Is(k)
  <2>1. Is(e)
    <3> DEFINE r(i) == IF i = 1 THEN seqs[i] ELSE e[i - 1] \o seqs[i]
    <3>1. ASSUME NEW i \in 1..n PROVE e[i] = r(i)
      <4>1. CASE i = 1
        <5>1. <<>> \o seqs[1] = seqs[1]
          BY <1>1, <4>1
        <5>2. i - 1 = 0
          BY <4>1
        <5> QED
          BY <1>3, <1>4, <4>1, <5>1, <5>2
      <4>2. CASE i # 1
        <5>1. i - 1 \in 1..n
          BY <1>1, <4>2
        <5> QED
          BY <1>4, <4>2, <5>1
      <4> QED
        BY <4>1, <4>2
    <3> HIDE DEF n, r
    <3>2. e = [i \in 1..n |-> r(i)]
      BY <3>1
    <3> HIDE DEF e
    <3> QED
      BY <3>2 DEF r
  <2>2. Is(h)
    BY <2>1
  <2>3. FlattenSeq(seqs) = h[n]
    BY <1>1, <1>6 DEF FlattenSeq
  <2> HIDE DEF h
  <2>4. h[1] = f[1]
    <3>1. 1 \in 1..n /\ 1 - 1 = 0
      BY <1>1, <1>6
    <3>2. <<>> \o seqs[1] = seqs[1]
      BY <1>1, <3>1
    <3>3. f[1] = seqs[1]
      BY <1>3, <1>4, <3>1, <3>2
    <3> HIDE DEF n
    <3>4. h[1] = seqs[1]
      BY <2>2, <3>1
    <3> QED
      BY <3>3, <3>4
  <2> DEFINE good == {i \in 0..n : i = 0 \/ h[i] = f[i]}
  <2>5. \A i \in 0..(n - 1) : i \in good => i + 1 \in good
    <3> SUFFICES ASSUME NEW i \in 0..(n - 1), i \in good PROVE h[i + 1] = f[i + 1]
      BY <1>1
    <3>1. CASE i = 0
      BY <2>4, <3>1
    <3>2. CASE i # 0
      <4>1. i + 1 \in 1..n /\ i + 1 # 1 /\ (i + 1) - 1 = i /\ h[i] = f[i]
        BY <1>1, <3>2
      <4>2. h[i + 1] = h[i] \o seqs[i + 1]
        <5> HIDE DEF n, good
        <5> QED
          BY <2>2, <4>1
      <4> QED
        BY <1>4, <4>1, <4>2
    <3> QED
      BY <3>1, <3>2
  <2>6. \A i \in 0..n : i \in good
    <3>1. 0 \in good /\ n \in Nat
      BY <1>1
    <3> HIDE DEF good, n
    <3> QED
      BY <2>5, <3>1, UpTo
  <2>7. h[n] = f[n]
    BY <1>1, <1>6, <2>6
  <2> QED
    BY <1>3, <1>4, <2>3, <2>7 DEF Makes
<1> QED
  BY <1>5, <1>6

LEMMA FlatType ==
  ASSUME NEW T, NEW seqs \in Seq(Seq(T)) PROVE FlattenSeq(seqs) \in Seq(T)
<1>1. Len(seqs) \in 0..Len(seqs)
  BY LenProperties
<1> QED
  BY <1>1, FlatIs

LEMMA FlatAppend ==
  ASSUME NEW T, NEW seqs \in Seq(Seq(T)), NEW x \in Seq(T)
  PROVE  FlattenSeq(Append(seqs, x)) = FlattenSeq(seqs) \o x
<1> DEFINE n == Len(seqs)
           t == Append(seqs, x)
<1>1. n \in Nat /\ t \in Seq(Seq(T)) /\ Len(t) = n + 1 /\ t[n + 1] = x
      /\ \A i \in 1..n : t[i] = seqs[i]
  BY LenProperties, AppendProperties
<1>2. PICK f \in [0..Len(seqs) -> Seq(T)] : Makes(seqs, f) /\ FlattenSeq(seqs) = f[n]
  BY FlatIs
<1> HIDE DEF t
<1>3. PICK h \in [0..Len(t) -> Seq(T)] : Makes(t, h) /\ FlattenSeq(t) = h[Len(t)]
  BY <1>1, FlatIs
<1> HIDE DEF n
<1>4. f[0] = <<>> /\ \A i \in 1..n : f[i] = f[i - 1] \o seqs[i]
  BY <1>2 DEF Makes, n
<1>5. h[0] = <<>> /\ \A i \in 1..(n + 1) : h[i] = h[i - 1] \o t[i]
  BY <1>1, <1>3 DEF Makes
<1>6. f[n] = h[n]
  <2>1. \A i \in 1..n : i \in 1..(n + 1)
    BY <1>1
  <2>2. \A i \in 1..n : f[i - 1] = h[i - 1] => f[i] = h[i]
    BY <1>1, <1>4, <1>5, <2>1
  <2>3. n \in Nat /\ f[0] = h[0]
    BY <1>1, <1>4, <1>5
  <2> QED
    BY <2>2, <2>3, SameRecursion
<1>7. n + 1 \in 1..(n + 1) /\ (n + 1) - 1 = n
  <2>1. n \in Nat
    BY <1>1
  <2> QED
    BY ONLY <2>1
<1>8. h[n + 1] = f[n] \o x
  BY <1>1, <1>5, <1>6, <1>7
<1> QED
  BY <1>1, <1>2, <1>3, <1>8 DEF t

(* A list with each element replaced by a list.                            *)
LEMMA FlatMapped ==
  ASSUME NEW T, NEW U, NEW s \in Seq(T), NEW x \in T, NEW g,
         Mapped(s, g) \in Seq(Seq(U)), g[x] \in Seq(U)
  PROVE  /\ FlattenSeq(Mapped(s, g)) \in Seq(U)
         /\ FlattenSeq(Mapped(Append(s, x), g)) = FlattenSeq(Mapped(s, g)) \o g[x]
<1> DEFINE m == Mapped(s, g)
           y == g[x]
<1>1. m \in Seq(Seq(U)) /\ y \in Seq(U)
  OBVIOUS
<1>2. Mapped(Append(s, x), g) = Append(m, y)
  BY MappedAppend
<1> HIDE DEF m, y
<1>3. FlattenSeq(m) \in Seq(U)
  BY ONLY <1>1, FlatType
<1>4. FlattenSeq(Append(m, y)) = FlattenSeq(m) \o y
  BY ONLY <1>1, FlatAppend
<1> QED
  BY <1>2, <1>3, <1>4 DEF m, y

(* A list of lists of one element each. *)
Boxes(T, g, h) == \A x \in T : g[x] = <<h[x]>>

LEMMA FlatSingles ==
  ASSUME NEW T, NEW g, NEW h, Boxes(T, g, h)
  PROVE  \A s \in Seq(T) : FlattenSeq(Mapped(s, g)) = Mapped(s, h)
<1> DEFINE good == {s \in Seq(T) : FlattenSeq(Mapped(s, g)) = Mapped(s, h)}
           U == Image(T, h)
<1>1. <<>> \in good
  BY MappedEmpty, FlatEmpty
<1>2. ASSUME NEW s \in Seq(T), NEW x \in T, s \in good PROVE Append(s, x) \in good
  <2>1. Append(s, x) \in Seq(T)
    BY AppendProperties
  <2>2. \A y \in T : g[y] \in Seq(U)
    <3> SUFFICES ASSUME NEW y \in T PROVE g[y] \in Seq(U)
      OBVIOUS
    <3>0. g[y] = <<h[y]>>
      BY DEF Boxes
    <3>1. h[y] \in U
      BY DEF Image
    <3> HIDE DEF U
    <3>2. <<h[y]>> \in Seq(U)
      BY <3>1
    <3> QED
      BY <3>0, <3>2
  <2> HIDE DEF U
  <2>3. FlattenSeq(Mapped(Append(s, x), g)) = FlattenSeq(Mapped(s, g)) \o g[x]
    <3>1. Mapped(s, g) \in Seq(Seq(U)) /\ g[x] \in Seq(U)
      BY <2>2, MappedIs
    <3> QED
      BY <3>1, FlatMapped
  <2>4. Mapped(Append(s, x), h) = Append(Mapped(s, h), h[x])
    BY MappedAppend
  <2>5. Mapped(s, h) \in Seq(U) /\ h[x] \in U
    BY MappedValues DEF U, Image
  <2> DEFINE m == Mapped(s, h)
             y == h[x]
  <2> HIDE DEF m, y
  <2>6. Append(m, y) = m \o <<y>>
    <3>1. m \in Seq(U) /\ y \in U
      BY <2>5 DEF m, y
    <3> QED
      BY ONLY <3>1, AppendIsConcat
  <2> QED
    BY <1>2, <2>1, <2>3, <2>4, <2>6 DEF m, y, Boxes
<1> HIDE DEF good
<1>3. \A s \in Seq(T) : s \in good
  BY <1>1, <1>2, ByAppending
<1> QED
  BY <1>3 DEF good

(* Joining lists is associative. *)
LEMMA JoinThree ==
  ASSUME NEW T, NEW s \in Seq(T), NEW t \in Seq(T), NEW u \in Seq(T)
  PROVE  (s \o t) \o u = s \o (t \o u)
<1>1. s \o t \in Seq(T) /\ t \o u \in Seq(T)
  BY ConcatProperties
<1>2. (s \o t) \o u \in Seq(T) /\ s \o (t \o u) \in Seq(T)
  BY <1>1, ConcatProperties
<1> QED
  BY <1>1, <1>2, ConcatAssociative

LEMMA FlatJoined ==
  ASSUME NEW T, NEW a \in Seq(Seq(T)), NEW b \in Seq(Seq(T))
  PROVE  FlattenSeq(a \o b) = FlattenSeq(a) \o FlattenSeq(b)
<1> DEFINE good == {r \in Seq(Seq(T)) : FlattenSeq(a \o r) = FlattenSeq(a) \o FlattenSeq(r)}
<1>1. <<>> \in good
  <2>1. a \o <<>> = a /\ FlattenSeq(a) \in Seq(T) /\ FlattenSeq(a) \o <<>> = FlattenSeq(a)
    BY ConcatEmptySeq, FlatType
  <2>2. <<>> \in Seq(Seq(T))
    OBVIOUS
  <2> QED
    BY <2>1, <2>2, FlatEmpty
<1>2. ASSUME NEW r \in Seq(Seq(T)), NEW x \in Seq(T), r \in good PROVE Append(r, x) \in good
  <2>1. a \o r \in Seq(Seq(T)) /\ Append(r, x) \in Seq(Seq(T)) /\ a \o Append(r, x) = Append(a \o r, x)
    <3> DEFINE S == Seq(T)
    <3>1. a \in Seq(S) /\ r \in Seq(S) /\ x \in S
      OBVIOUS
    <3> HIDE DEF S
    <3>2. a \o r \in Seq(S)
      BY ONLY <3>1, ConcatProperties
    <3>3. Append(r, x) \in Seq(S)
      BY ONLY <3>1, AppendProperties
    <3>4. a \o Append(r, x) = Append(a \o r, x)
      BY ONLY <3>1, JoinAppend
    <3> QED
      BY ONLY <3>2, <3>3, <3>4 DEF S
  <2>2. /\ FlattenSeq(Append(r, x)) = FlattenSeq(r) \o x
        /\ FlattenSeq(Append(a \o r, x)) = FlattenSeq(a \o r) \o x
    BY <2>1, FlatAppend
  <2>3. FlattenSeq(a) \in Seq(T) /\ FlattenSeq(r) \in Seq(T)
    BY FlatType
  <2>4. (FlattenSeq(a) \o FlattenSeq(r)) \o x = FlattenSeq(a) \o (FlattenSeq(r) \o x)
    <3> DEFINE p == FlattenSeq(a)
               q == FlattenSeq(r)
    <3>1. p \in Seq(T) /\ q \in Seq(T) /\ x \in Seq(T)
      BY <2>3
    <3> HIDE DEF p, q
    <3>2. (p \o q) \o x = p \o (q \o x)
      BY ONLY <3>1, JoinThree, SMTT(30)
    <3> QED
      BY ONLY <3>2 DEF p, q
  <2>5. FlattenSeq(a \o r) = FlattenSeq(a) \o FlattenSeq(r)
    BY <1>2
  <2>6. FlattenSeq(a \o Append(r, x)) = FlattenSeq(a) \o FlattenSeq(Append(r, x))
    BY <2>1, <2>2, <2>4, <2>5
  <2> QED
    BY <2>1, <2>6
<1> HIDE DEF good
<1>3. \A r \in Seq(Seq(T)) : r \in good
  BY <1>1, <1>2, ByAppending
<1> QED
  BY <1>3 DEF good
=============================================================================
