------------------------------ MODULE PlanProofs ------------------------------
(***************************************************************************)
(* What KeyRing's operators give for every ring of keys: the index stays   *)
(* within the ring, settles at a key that is enabled if any is, and a      *)
(* rotation moves it to another key if another one is enabled.             *)
(*                                                                         *)
(* What Router makes of the usable entries of a chain, for any entries,    *)
(* penalties and round-robin index: sorting and turning them loses none    *)
(* and repeats none, the local provider's stay behind the others, and the  *)
(* cut to MAX_RETRIES keeps that.                                          *)
(***************************************************************************)
EXTENDS Router, DataLemmas, FunctionTheorems

LEMMA ModSmall ==
  ASSUME NEW n \in Nat \ {0}, NEW x \in 0..(2 * n - 1)
  PROVE  x % n = IF x < n THEN x ELSE x - n
  OBVIOUS

(* A ring of keys, and an index that is within it.                         *)
IsRing(keys) == \E T : keys \in Seq(T) /\ keys # <<>>
Indices(keys) == 0..(Len(keys) - 1)

LEMMA RingLength ==
  ASSUME NEW keys, IsRing(keys)
  PROVE  Len(keys) \in Nat \ {0}
BY EmptySeq, LenProperties DEF IsRing

LEMMA Wraps ==
  ASSUME NEW keys, IsRing(keys), NEW i \in Indices(keys), NEW d \in Indices(keys)
  PROVE  /\ (i + d) % Len(keys) = IF i + d < Len(keys) THEN i + d ELSE i + d - Len(keys)
         /\ (i + d) % Len(keys) \in Indices(keys)
         /\ KeyAt(keys, (i + d) % Len(keys)) = KeyAt(keys, i + d)
         /\ KeyAt(keys, i) = keys[i + 1]
<1> DEFINE n == Len(keys)
<1>1. n \in Nat \ {0}
  BY RingLength
<1> HIDE DEF n
<1>2. ASSUME NEW x \in 0..(2 * n - 1) PROVE x % n = IF x < n THEN x ELSE x - n
  BY <1>1, ModSmall
<1>3. i \in 0..(n - 1) /\ d \in 0..(n - 1) /\ i + d \in 0..(2 * n - 1) /\ i \in 0..(2 * n - 1)
  BY <1>1 DEF Indices, n
<1>4. (i + d) % n = IF i + d < n THEN i + d ELSE i + d - n
  BY <1>1, <1>2, <1>3
<1>5. (i + d) % n \in 0..(n - 1) /\ (i + d) % n \in 0..(2 * n - 1)
  BY <1>1, <1>3, <1>4
<1>6. ((i + d) % n) % n = (i + d) % n /\ i % n = i
  BY <1>1, <1>2, <1>3, <1>5
<1> QED
  BY <1>3, <1>4, <1>5, <1>6 DEF KeyAt, Indices, n

(* Every key is ahead of every index. *)
LEMMA EveryKeyIsAhead ==
  ASSUME NEW keys, IsRing(keys), NEW i \in Indices(keys), NEW j \in 1..Len(keys)
  PROVE  \E d \in Indices(keys) :
           /\ KeyAt(keys, i + d) = keys[j]
           /\ (i + d) % Len(keys) = j - 1
           /\ d = IF j - 1 >= i THEN j - 1 - i ELSE j - 1 - i + Len(keys)
<1> DEFINE d == IF j - 1 >= i THEN j - 1 - i ELSE j - 1 - i + Len(keys)
<1>1. Len(keys) \in Nat \ {0}
  BY RingLength
<1>2. d \in Indices(keys) /\ (IF i + d < Len(keys) THEN i + d ELSE i + d - Len(keys)) = j - 1
      /\ j - 1 \in Indices(keys) /\ 0 \in Indices(keys) /\ (j - 1) + 1 = j
  BY <1>1 DEF Indices
<1> HIDE DEF d
<1>3. (i + d) % Len(keys) = j - 1 /\ KeyAt(keys, i + d) = KeyAt(keys, j - 1)
  BY <1>2, Wraps
<1>4. KeyAt(keys, j - 1) = keys[j]
  <2>1. KeyAt(keys, j - 1) = keys[(j - 1) + 1]
    BY <1>2, Wraps, ZenonT(30)
  <2> QED
    BY <1>2, <2>1
<1> QED
  BY <1>2, <1>3, <1>4 DEF d

(* Reading api_key leaves the index in the ring, and where the enabled key *)
(* that is least far ahead is.                                             *)
LEMMA SettledWhere ==
  ASSUME NEW keys, IsRing(keys), NEW off, NEW i \in Indices(keys)
  PROVE  /\ Settled(keys, off, i) \in Indices(keys)
         /\ EnabledAhead(keys, off, i) # {} =>
              \E d \in EnabledAhead(keys, off, i) :
                /\ Settled(keys, off, i) = (i + d) % Len(keys)
                /\ \A e \in EnabledAhead(keys, off, i) : d <= e
<1> DEFINE ahead == EnabledAhead(keys, off, i)
<1>1. ahead \subseteq Indices(keys) /\ Indices(keys) \subseteq Nat
  BY RingLength DEF EnabledAhead, Indices
<1> HIDE DEF ahead
<1>2. CASE ahead = {}
  BY <1>2 DEF Settled, ahead
<1>3. CASE ahead # {}
  <2>1. \E d \in ahead : \A e \in ahead : d <= e
    BY <1>1, <1>3, Least
  <2>2. PICK d \in ahead : /\ Settled(keys, off, i) = (i + d) % Len(keys)
                           /\ \A e \in ahead : d <= e
    BY <1>3, <2>1 DEF Settled, ahead
  <2>3. (i + d) % Len(keys) \in Indices(keys)
    BY <1>1, Wraps
  <2> QED
    BY <2>2, <2>3 DEF ahead
<1> QED
  BY <1>2, <1>3

(* The active key is enabled if one of the ring is. *)
LEMMA ActiveKeyIsEnabled ==
  ASSUME NEW keys, IsRing(keys), NEW off, NEW i \in Indices(keys),
         NEW j \in 1..Len(keys), keys[j] \notin off
  PROVE  KeyAt(keys, Settled(keys, off, i)) \notin off
<1>1. EnabledAhead(keys, off, i) # {}
  BY EveryKeyIsAhead DEF EnabledAhead, Indices
<1>2. PICK d \in EnabledAhead(keys, off, i) : Settled(keys, off, i) = (i + d) % Len(keys)
  BY <1>1, SettledWhere
<1>3. d \in Indices(keys) /\ KeyAt(keys, i + d) \notin off
  BY DEF EnabledAhead, Indices
<1> QED
  BY <1>2, <1>3, Wraps

(* An index at an enabled key stays. *)
LEMMA EnabledStays ==
  ASSUME NEW keys, IsRing(keys), NEW off, NEW i \in Indices(keys), KeyAt(keys, i) \notin off
  PROVE  Settled(keys, off, i) = i
<1>1. Len(keys) \in Nat \ {0} /\ 0 \in Indices(keys) /\ i \in Nat /\ i < Len(keys)
  BY RingLength DEF Indices
<1>2. 0 \in EnabledAhead(keys, off, i)
  BY <1>1 DEF EnabledAhead, Indices
<1>3. PICK d \in EnabledAhead(keys, off, i) :
        Settled(keys, off, i) = (i + d) % Len(keys) /\ d <= 0
  BY <1>2, SettledWhere
<1>4. d = 0
  BY <1>1, <1>3 DEF EnabledAhead
<1> QED
  BY <1>1, <1>3, <1>4, Wraps

LEMMA KeyIsOfRing ==
  ASSUME NEW keys, IsRing(keys), NEW i \in Indices(keys)
  PROVE  i + 1 \in 1..Len(keys) /\ KeyAt(keys, i) = keys[i + 1]
BY RingLength, Wraps DEF Indices

LEMMA RotatedWithin ==
  ASSUME NEW keys, IsRing(keys), NEW off, NEW i \in Indices(keys), Len(keys) > 1
  PROVE  Rotated(keys, off, i) \in Indices(keys)
<1>1. 1 \in Indices(keys)
  BY RingLength DEF Indices
<1> QED
  BY <1>1, Wraps, SettledWhere DEF Rotated

(* A rotation moves to another key, an enabled one, if another is enabled. *)
LEMMA RotationLeaves ==
  ASSUME NEW keys, IsRing(keys), NEW off, NEW i \in Indices(keys), Len(keys) > 1,
         \A h, j \in 1..Len(keys) : keys[h] = keys[j] => h = j,
         NEW j \in 1..Len(keys), keys[j] \notin off, keys[j] # KeyAt(keys, i)
  PROVE  /\ KeyAt(keys, Rotated(keys, off, i)) # KeyAt(keys, i)
         /\ KeyAt(keys, Rotated(keys, off, i)) \notin off
<1> DEFINE n == Len(keys)
           s == (i + 1) % n
<1>1. n \in Nat \ {0} /\ 1 \in Indices(keys) /\ i \in 0..(n - 1)
  BY RingLength DEF Indices
<1>2. s \in Indices(keys) /\ s = IF i + 1 < n THEN i + 1 ELSE i + 1 - n
  BY <1>1, Wraps
<1>3. KeyAt(keys, Rotated(keys, off, i)) \notin off
  BY <1>2, ActiveKeyIsEnabled DEF Rotated
<1>4. PICK e \in Indices(keys) :
        /\ KeyAt(keys, s + e) = keys[j]
        /\ e = IF j - 1 >= s THEN j - 1 - s ELSE j - 1 - s + n
  BY <1>2, EveryKeyIsAhead
<1>5. e \in EnabledAhead(keys, off, s)
  BY <1>4 DEF EnabledAhead, Indices
<1>6. PICK d \in EnabledAhead(keys, off, s) :
        Rotated(keys, off, i) = (s + d) % n /\ d <= e
  BY <1>2, <1>5, SettledWhere DEF Rotated
<1>7. d \in Indices(keys) /\ (s + d) % n = IF s + d < n THEN s + d ELSE s + d - n
  BY <1>2, Wraps, ZenonT(30) DEF EnabledAhead, Indices
<1>8. j # i + 1
  BY KeyIsOfRing
<1>9. (s + d) % n # i
  <2> HIDE DEF n, s
  <2>1. e \in 0..(n - 1) /\ d \in 0..(n - 1) /\ s \in 0..(n - 1) /\ j \in 1..n
    BY <1>2, <1>4, <1>7 DEF Indices, n
  <2>2. CASE i + 1 < n
    BY <1>1, <1>2, <1>4, <1>6, <1>7, <1>8, <2>1, <2>2, SMTT(20)
  <2>3. CASE i + 1 = n
    BY <1>1, <1>2, <1>4, <1>6, <1>7, <1>8, <2>1, <2>3, SMTT(20)
  <2> QED
    BY <1>1, <2>2, <2>3
<1>10. (s + d) % n \in Indices(keys)
  BY <1>2, <1>7, Wraps
<1>11. KeyAt(keys, (s + d) % n) # KeyAt(keys, i)
  <2>1. /\ ((s + d) % n) + 1 \in 1..n /\ KeyAt(keys, (s + d) % n) = keys[((s + d) % n) + 1]
        /\ i + 1 \in 1..n /\ KeyAt(keys, i) = keys[i + 1]
    BY <1>10, KeyIsOfRing
  <2>2. ((s + d) % n) + 1 # i + 1
    BY <1>1, <1>9, <1>10 DEF Indices
  <2> QED
    BY <2>1, <2>2
<1> QED
  BY <1>3, <1>6, <1>11
-----------------------------------------------------------------------------
(* Ranks in a strict order of a finite set: everyone's number is one more  *)
(* than that of those before it, and the numbers are a counting of the set.*)
Preceding(R, U, i) == {j \in U : <<j, i>> \in R}

StrictOrder(R, U) ==
  /\ \A i \in U : <<i, i>> \notin R
  /\ \A i, j \in U : i # j => <<i, j>> \in R \/ <<j, i>> \in R
  /\ \A i, j, k \in U : <<i, j>> \in R /\ <<j, k>> \in R => <<i, k>> \in R

LEMMA Counting ==
  ASSUME NEW U, IsFiniteSet(U), NEW f \in [U -> 1..Cardinality(U)],
         \A i, j \in U : f[i] = f[j] => i = j
  PROVE  \A k \in 1..Cardinality(U) : \E i \in U : f[i] = k
<1>1. Cardinality(U) \in Nat
  BY FS_CardinalityType
<1>2. IsFiniteSet(1..Cardinality(U)) /\ Cardinality(1..Cardinality(U)) = Cardinality(U)
  BY <1>1, FS_Interval
<1>3. f \in Injection(U, 1..Cardinality(U))
  BY Fun_IsInj
<1>4. f \in Surjection(U, 1..Cardinality(U))
  BY <1>2, <1>3, FS_Injection
<1> QED
  BY <1>4, Fun_SurjectionProperties

LEMMA PrecedingGrows ==
  ASSUME NEW U, IsFiniteSet(U), NEW R, StrictOrder(R, U),
         NEW i \in U, NEW j \in U, <<i, j>> \in R
  PROVE  /\ Cardinality(Preceding(R, U, i)) \in Nat /\ Cardinality(Preceding(R, U, j)) \in Nat
         /\ Cardinality(Preceding(R, U, i)) < Cardinality(Preceding(R, U, j))
<1>1. Preceding(R, U, i) \subseteq Preceding(R, U, j) /\ Preceding(R, U, j) \subseteq U
      /\ i \in Preceding(R, U, j) /\ i \notin Preceding(R, U, i)
  BY DEF Preceding, StrictOrder
<1>2. IsFiniteSet(Preceding(R, U, j))
  BY <1>1, FS_Subset
<1>3. /\ IsFiniteSet(Preceding(R, U, i))
      /\ Cardinality(Preceding(R, U, i)) <= Cardinality(Preceding(R, U, j))
      /\ Cardinality(Preceding(R, U, i)) # Cardinality(Preceding(R, U, j))
  BY <1>1, <1>2, FS_Subset
<1>4. Cardinality(Preceding(R, U, i)) \in Nat /\ Cardinality(Preceding(R, U, j)) \in Nat
  BY <1>2, <1>3, FS_CardinalityType
<1> QED
  BY <1>3, <1>4
-----------------------------------------------------------------------------
(* The state a plan is made in, as far as plans depend on it.              *)
PlanTypes == penalty \in [Entries -> Nat] /\ rr_index \in [Models -> Nat]

Positions(m) == 1..Len(Chain[m])
Order(m, pref) == {x \in Positions(m) \X Positions(m) : Before(m, pref, x[1], x[2])}
Ranked(m, pref, U, r) == {i \in U : Rank(Chain[m][i], pref) = r}

LEMMA Positioned ==
  ASSUME NEW m \in Models
  PROVE  /\ Len(Chain[m]) \in Nat
         /\ \A i \in Positions(m) : Chain[m][i] \in Entries /\ ProviderOf[Chain[m][i]] \in Providers
         /\ \A U \in SUBSET Positions(m) : IsFiniteSet(U) /\ Cardinality(U) \in Nat
<1>1. Chain[m] \in Seq(Entries)
  BY ChainAssumption
<1>2. Len(Chain[m]) \in Nat /\ \A i \in Positions(m) : Chain[m][i] \in Entries
  BY <1>1 DEF Positions
<1>3. IsFiniteSet(Positions(m))
  BY <1>2, FS_Interval DEF Positions
<1> QED
  BY <1>2, <1>3, FS_Subset, FS_CardinalityType, EntriesAssumption

LEMMA Ranks ==
  ASSUME NEW e, NEW pref
  PROVE  Rank(e, pref) \in 0..2
  BY DEF Rank

LEMMA OrderIsStrict ==
  ASSUME PlanTypes, NEW m \in Models, NEW pref, NEW U \in SUBSET Positions(m)
  PROVE  StrictOrder(Order(m, pref), U)
<1> DEFINE rank(i) == Rank(Chain[m][i], pref)
           sunk(i) == IF rank(i) = 1 THEN penalty[Chain[m][i]] ELSE 0
<1>1. \A i \in U : rank(i) \in 0..2 /\ sunk(i) \in Nat /\ i \in Nat
  BY Positioned, Ranks DEF PlanTypes, Positions
<1>2. \A i, j \in U : <<i, j>> \in Order(m, pref) <=>
        \/ rank(i) < rank(j)
        \/ rank(i) = rank(j) /\ sunk(i) < sunk(j)
        \/ rank(i) = rank(j) /\ sunk(i) = sunk(j) /\ i < j
  BY DEF Order, Before
<1> HIDE DEF rank, sunk
<1>3. \A i \in U : <<i, i>> \notin Order(m, pref)
  BY <1>1, <1>2
<1>4. \A i, j \in U : i # j => <<i, j>> \in Order(m, pref) \/ <<j, i>> \in Order(m, pref)
  BY <1>1, <1>2
<1>5. \A i, j, k \in U : <<i, j>> \in Order(m, pref) /\ <<j, k>> \in Order(m, pref) =>
        <<i, k>> \in Order(m, pref)
  BY <1>1, <1>2
<1> QED
  BY <1>3, <1>4, <1>5 DEF StrictOrder
-----------------------------------------------------------------------------
(* The place of a position before the rotating entries are turned.         *)
Sorted(m, pref, U, i) == Cardinality(Preceding(Order(m, pref), U, i)) + 1

LEMMA PrecedingIs ==
  ASSUME NEW m \in Models, NEW pref, NEW U \in SUBSET Positions(m), NEW i \in U
  PROVE  /\ Sorted(m, pref, U, i) = Cardinality({j \in U : Before(m, pref, j, i)}) + 1
         /\ InRotation(m, pref, U) = Ranked(m, pref, U, 1)
         /\ {j \in U : Rank(Chain[m][j], pref) = 0} = Ranked(m, pref, U, 0)
<1>1. Preceding(Order(m, pref), U, i) = {j \in U : Before(m, pref, j, i)}
  BY DEF Preceding, Order
<1> QED
  BY <1>1 DEF Sorted, InRotation, Ranked

(* The preferred entries come first, then those in rotation, then the      *)
(* local ones.                                                             *)
LEMMA Blocks ==
  ASSUME PlanTypes, NEW m \in Models, NEW pref, NEW U \in SUBSET Positions(m)
  PROVE  LET first == Cardinality(Ranked(m, pref, U, 0))
             n == Cardinality(Ranked(m, pref, U, 1))
         IN  /\ first \in Nat /\ n \in Nat /\ first + n <= Cardinality(U)
             /\ \A i \in Ranked(m, pref, U, 0) : Sorted(m, pref, U, i) \in 1..first
             /\ \A i \in Ranked(m, pref, U, 1) : Sorted(m, pref, U, i) \in (first + 1)..(first + n)
             /\ \A i \in Ranked(m, pref, U, 2) :
                  Sorted(m, pref, U, i) \in (first + n + 1)..Cardinality(U)
<1> DEFINE Z == Ranked(m, pref, U, 0)
           O == Ranked(m, pref, U, 1)
           T == Ranked(m, pref, U, 2)
           Pre(i) == Preceding(Order(m, pref), U, i)
<1>1. /\ IsFiniteSet(U) /\ IsFiniteSet(Z) /\ IsFiniteSet(O) /\ IsFiniteSet(Z \cup O)
      /\ Cardinality(U) \in Nat /\ Cardinality(Z) \in Nat /\ Cardinality(O) \in Nat
      /\ Z \cup O \subseteq U
  <2>1. Z \in SUBSET Positions(m) /\ O \in SUBSET Positions(m) /\ Z \cup O \in SUBSET Positions(m)
        /\ Z \cup O \subseteq U
    BY DEF Ranked
  <2> QED
    BY <2>1, Positioned
<1>2. Z \cap O = {}
  BY DEF Ranked
<1>3. Cardinality(Z \cup O) = Cardinality(Z) + Cardinality(O)
  <2>1. Cardinality(Z \cap O) = 0
    BY <1>2, FS_EmptySet
  <2>2. Cardinality(Z \cup O) = Cardinality(Z) + Cardinality(O) - Cardinality(Z \cap O)
    BY <1>1, FS_Union
  <2> QED
    BY <1>1, <2>1, <2>2
<1>4. Cardinality(Z \cup O) <= Cardinality(U)
  BY <1>1, FS_Subset
<1>5. \A i, j \in U : <<j, i>> \in Order(m, pref) =>
        Rank(Chain[m][j], pref) <= Rank(Chain[m][i], pref)
  BY Ranks DEF Order, Before
<1>6. \A i, j \in U : Rank(Chain[m][j], pref) < Rank(Chain[m][i], pref) =>
        <<j, i>> \in Order(m, pref)
  BY DEF Order, Before
<1>7. ASSUME NEW i \in U
      PROVE  /\ IsFiniteSet(Pre(i)) /\ Cardinality(Pre(i)) \in Nat
             /\ Pre(i) \subseteq U /\ i \notin Pre(i)
             /\ \A V \in SUBSET U : Pre(i) \subseteq V /\ i \in V =>
                  Cardinality(Pre(i)) < Cardinality(V)
             /\ \A V \in SUBSET U : V \subseteq Pre(i) => Cardinality(V) <= Cardinality(Pre(i))
  <2>1. Pre(i) \in SUBSET Positions(m) /\ Pre(i) \subseteq U
    BY DEF Preceding
  <2>2. IsFiniteSet(Pre(i)) /\ Cardinality(Pre(i)) \in Nat
    BY <2>1, Positioned
  <2>3. i \notin Pre(i)
    BY OrderIsStrict DEF Preceding, StrictOrder
  <2>4. ASSUME NEW V \in SUBSET U, Pre(i) \subseteq V, i \in V
        PROVE  Cardinality(Pre(i)) < Cardinality(V)
    <3>1. IsFiniteSet(V) /\ Cardinality(V) \in Nat
      BY <1>1, FS_Subset, FS_CardinalityType
    <3>2. Cardinality(Pre(i)) <= Cardinality(V) /\ Cardinality(Pre(i)) # Cardinality(V)
      BY <2>3, <2>4, <3>1, FS_Subset
    <3> QED
      BY <2>2, <3>1, <3>2
  <2>5. ASSUME NEW V \in SUBSET U, V \subseteq Pre(i)
        PROVE  Cardinality(V) <= Cardinality(Pre(i))
    BY <2>2, <2>5, FS_Subset
  <2> QED
    BY <2>1, <2>2, <2>3, <2>4, <2>5
<1>8. ASSUME NEW i \in Z PROVE Sorted(m, pref, U, i) \in 1..Cardinality(Z)
  <2>1. i \in U /\ Pre(i) \subseteq Z
    BY <1>5, Ranks DEF Ranked, Preceding
  <2>2. Cardinality(Pre(i)) < Cardinality(Z) /\ Cardinality(Pre(i)) \in Nat
    BY <1>1, <1>7, <2>1
  <2> QED
    BY <1>1, <2>2 DEF Sorted
<1>9. ASSUME NEW i \in O
      PROVE  Sorted(m, pref, U, i) \in (Cardinality(Z) + 1)..(Cardinality(Z) + Cardinality(O))
  <2>1. i \in U /\ Pre(i) \subseteq Z \cup O /\ Z \subseteq Pre(i)
    BY <1>5, <1>6, Ranks DEF Ranked, Preceding
  <2>2. /\ Cardinality(Pre(i)) < Cardinality(Z \cup O) /\ Cardinality(Pre(i)) \in Nat
        /\ Cardinality(Z) <= Cardinality(Pre(i))
    BY <1>1, <1>7, <2>1
  <2> QED
    BY <1>1, <1>3, <2>2 DEF Sorted
<1>10. ASSUME NEW i \in T
       PROVE  Sorted(m, pref, U, i) \in (Cardinality(Z) + Cardinality(O) + 1)..Cardinality(U)
  <2>1. i \in U /\ Pre(i) \subseteq U /\ Z \cup O \subseteq Pre(i)
    BY <1>6, <1>7 DEF Ranked, Preceding
  <2>2. /\ Cardinality(Pre(i)) < Cardinality(U) /\ Cardinality(Pre(i)) \in Nat
        /\ Cardinality(Z \cup O) <= Cardinality(Pre(i))
    BY <1>1, <1>7, <2>1
  <2> QED
    BY <1>1, <1>3, <2>2 DEF Sorted
<1> QED
  BY <1>1, <1>3, <1>4, <1>8, <1>9, <1>10

LEMMA SortedApart ==
  ASSUME PlanTypes, NEW m \in Models, NEW pref, NEW U \in SUBSET Positions(m),
         NEW i \in U, NEW j \in U, i # j
  PROVE  Sorted(m, pref, U, i) # Sorted(m, pref, U, j)
<1>1. StrictOrder(Order(m, pref), U) /\ IsFiniteSet(U)
  BY OrderIsStrict, Positioned
<1>2. <<i, j>> \in Order(m, pref) \/ <<j, i>> \in Order(m, pref)
  BY <1>1 DEF StrictOrder
<1> QED
  BY <1>1, <1>2, PrecedingGrows DEF Sorted

(* Turning the block of the rotating entries by r places keeps them apart  *)
(* and in the block.                                                       *)
Turned(first, n, r, place) == first + 1 + ((place - first - 1 + (n - (r % n))) % n)

LEMMA TurnedWithin ==
  ASSUME NEW first \in Nat, NEW n \in Nat \ {0}, NEW r \in Nat,
         NEW a \in (first + 1)..(first + n)
  PROVE  /\ Turned(first, n, r, a) \in (first + 1)..(first + n)
         /\ Turned(first, n, r, a) = LET x == a - first - 1 + (n - (r % n))
                                     IN  first + 1 + IF x < n THEN x ELSE x - n
<1> DEFINE x == a - first - 1 + (n - (r % n))
<1>1. r % n \in 0..(n - 1)
  OBVIOUS
<1>2. x \in 0..(2 * n - 1)
  BY <1>1
<1> HIDE DEF x
<1>3. x % n = IF x < n THEN x ELSE x - n
  BY <1>2, ModSmall
<1>4. x % n \in 0..(n - 1)
  BY <1>2, <1>3
<1>5. Turned(first, n, r, a) = first + 1 + (x % n)
  BY DEF Turned, x
<1> QED
  BY <1>3, <1>4, <1>5 DEF x

LEMMA TurnedApart ==
  ASSUME NEW first \in Nat, NEW n \in Nat \ {0}, NEW r \in Nat,
         NEW a \in (first + 1)..(first + n), NEW b \in (first + 1)..(first + n), a # b
  PROVE  Turned(first, n, r, a) # Turned(first, n, r, b)
<1>1. r % n \in 0..(n - 1)
  OBVIOUS
<1> DEFINE s == n - (r % n)
<1>2. s \in 1..n
  BY <1>1
<1>3. /\ Turned(first, n, r, a) = LET x == a - first - 1 + s IN first + 1 + IF x < n THEN x ELSE x - n
      /\ Turned(first, n, r, b) = LET x == b - first - 1 + s IN first + 1 + IF x < n THEN x ELSE x - n
  BY TurnedWithin, ZenonT(30)
<1> HIDE DEF s
<1> QED
  BY <1>2, <1>3

LEMMA PlaceIs ==
  ASSUME PlanTypes, NEW m \in Models, NEW pref, NEW U \in SUBSET Positions(m), NEW i \in U
  PROVE  LET first == Cardinality(Ranked(m, pref, U, 0))
             n == Cardinality(Ranked(m, pref, U, 1))
         IN  Place(m, pref, U, i) =
               IF i \in Ranked(m, pref, U, 1) THEN Turned(first, n, rr_index[m], Sorted(m, pref, U, i))
               ELSE Sorted(m, pref, U, i)
<1> DEFINE before == {j \in U : Before(m, pref, j, i)}
           zero == {j \in U : Rank(Chain[m][j], pref) = 0}
<1>1. /\ Sorted(m, pref, U, i) = Cardinality(before) + 1
      /\ InRotation(m, pref, U) = Ranked(m, pref, U, 1)
      /\ zero = Ranked(m, pref, U, 0)
  BY PrecedingIs
<1>2. Place(m, pref, U, i) =
        IF i \in InRotation(m, pref, U)
          THEN Turned(Cardinality(zero), Cardinality(InRotation(m, pref, U)), rr_index[m],
                      Cardinality(before) + 1)
          ELSE Cardinality(before) + 1
  BY DEF Place, Turned
<1> HIDE DEF before, zero
<1> QED
  BY <1>1, <1>2

(* Every place of a plan is that of one usable entry, and those the local  *)
(* provider has are behind all others.                                     *)
LEMMA PlacesCount ==
  ASSUME PlanTypes, NEW m \in Models, NEW pref, NEW U \in SUBSET Positions(m)
  PROVE  /\ \A i \in U : Place(m, pref, U, i) \in 1..Cardinality(U)
         /\ \A i, j \in U : Place(m, pref, U, i) = Place(m, pref, U, j) => i = j
         /\ \A k \in 1..Cardinality(U) : \E i \in U : Place(m, pref, U, i) = k
         /\ \A i, j \in U : Rank(Chain[m][i], pref) < 2 /\ Rank(Chain[m][j], pref) = 2 =>
              Place(m, pref, U, i) < Place(m, pref, U, j)
<1> DEFINE first == Cardinality(Ranked(m, pref, U, 0))
           n == Cardinality(Ranked(m, pref, U, 1))
           N == Cardinality(U)
           place(i) == Place(m, pref, U, i)
           sorted(i) == Sorted(m, pref, U, i)
           rank(i) == Rank(Chain[m][i], pref)
<1>1. first \in Nat /\ n \in Nat /\ N \in Nat /\ first + n <= N /\ IsFiniteSet(U)
  BY Blocks, Positioned
<1>2. \A i \in U : /\ rank(i) \in 0..2
                   /\ rank(i) = 0 => sorted(i) \in 1..first
                   /\ rank(i) = 1 => sorted(i) \in (first + 1)..(first + n)
                   /\ rank(i) = 2 => sorted(i) \in (first + n + 1)..N
  BY Blocks, Ranks DEF Ranked
<1>3. \A i, j \in U : i # j => sorted(i) # sorted(j)
  BY SortedApart
<1>4. \A i \in U : place(i) = IF rank(i) = 1 THEN Turned(first, n, rr_index[m], sorted(i)) ELSE sorted(i)
  BY PlaceIs DEF Ranked
<1>5. rr_index[m] \in Nat
  BY DEF PlanTypes
<1> HIDE DEF first, n, N, place, sorted, rank
<1>6. \A i \in U : rank(i) = 1 => n # 0 /\ place(i) \in (first + 1)..(first + n)
  <2> SUFFICES ASSUME NEW i \in U, rank(i) = 1
               PROVE  n # 0 /\ place(i) \in (first + 1)..(first + n)
    OBVIOUS
  <2>1. sorted(i) \in (first + 1)..(first + n) /\ n # 0
    BY <1>1, <1>2
  <2>2. Turned(first, n, rr_index[m], sorted(i)) \in (first + 1)..(first + n)
    BY <1>1, <1>5, <2>1, TurnedWithin
  <2> QED
    BY <1>4, <2>1, <2>2
<1>7. \A i \in U : /\ rank(i) = 0 => place(i) \in 1..first
                   /\ rank(i) = 2 => place(i) \in (first + n + 1)..N
  BY <1>2, <1>4
<1>8. \A i \in U : place(i) \in 1..N
  BY <1>1, <1>2, <1>6, <1>7
<1>9. ASSUME NEW i \in U, NEW j \in U, i # j PROVE place(i) # place(j)
  <2>1. CASE rank(i) = 1 /\ rank(j) = 1
    BY <1>1, <1>2, <1>3, <1>4, <1>5, <1>6, <1>9, <2>1, TurnedApart
  <2>2. CASE rank(i) # 1 /\ rank(j) # 1
    BY <1>3, <1>4, <1>9, <2>2
  <2>3. CASE rank(i) = 1 /\ rank(j) # 1
    BY <1>1, <1>2, <1>6, <1>7, <2>3
  <2>4. CASE rank(i) # 1 /\ rank(j) = 1
    BY <1>1, <1>2, <1>6, <1>7, <2>4
  <2> QED
    BY <2>1, <2>2, <2>3, <2>4
<1>10. \A k \in 1..N : \E i \in U : place(i) = k
  <2> DEFINE f == [i \in U |-> place(i)]
  <2>1. f \in [U -> 1..N] /\ \A i, j \in U : f[i] = f[j] => i = j
    BY <1>8, <1>9
  <2> HIDE DEF f
  <2>2. \A k \in 1..N : \E i \in U : f[i] = k
    BY <1>1, <2>1, Counting DEF N
  <2> QED
    BY <2>2 DEF f
<1>11. \A i, j \in U : rank(i) < 2 /\ rank(j) = 2 => place(i) < place(j)
  BY <1>1, <1>2, <1>6, <1>7
<1> QED
  BY <1>8, <1>9, <1>10, <1>11 DEF place, rank, N
-----------------------------------------------------------------------------
Apart(s) == \A i, j \in 1..Len(s) : s[i] = s[j] => i = j
LocalsLast(s) ==
  \A j, k \in 1..Len(s) : j < k /\ ProviderOf[s[j]] = Local => ProviderOf[s[k]] = Local

(* Every usable position of the chain has its place among the candidates.  *)
LEMMA CandidatesAre ==
  ASSUME PlanTypes, NEW m \in Models, NEW pref, NEW U \in SUBSET Positions(m), U # {}
  PROVE  /\ Candidates(m, pref, U) \in Seq(Entries) /\ Candidates(m, pref, U) # <<>>
         /\ Len(Candidates(m, pref, U)) = Cardinality(U)
         /\ \A k \in 1..Cardinality(U) : \E i \in U :
              Place(m, pref, U, i) = k /\ Candidates(m, pref, U)[k] = Chain[m][i]
<1> DEFINE s == Candidates(m, pref, U)
           N == Cardinality(U)
<1>1. N \in Nat \ {0}
  BY Positioned, FS_EmptySet
<1>2. s = [k \in 1..N |-> Chain[m][CHOOSE i \in U : Place(m, pref, U, i) = k]]
  BY DEF Candidates
<1>3. \A k \in 1..N : \E i \in U : Place(m, pref, U, i) = k /\ s[k] = Chain[m][i]
  BY <1>2, PlacesCount
<1>4. \A i \in U : Chain[m][i] \in Entries
  BY Positioned
<1>5. \A k \in 1..N : s[k] \in Entries
  BY <1>3, <1>4
<1> HIDE DEF N
<1>6. s \in [1..N -> Entries]
  BY <1>2, <1>5
<1> HIDE DEF s
<1>7. s \in Seq(Entries) /\ Len(s) = N
  BY <1>1, <1>6
<1> QED
  BY <1>1, <1>3, <1>7 DEF s, N

LEMMA CandidatesKeepApart ==
  ASSUME PlanTypes, NEW m \in Models, NEW pref, NEW U \in SUBSET Positions(m), U # {},
         Apart(Chain[m])
  PROVE  Apart(Candidates(m, pref, U))
<1> DEFINE s == Candidates(m, pref, U)
<1>1. \A k \in 1..Len(s) : \E i \in U : Place(m, pref, U, i) = k /\ s[k] = Chain[m][i]
  BY CandidatesAre
<1>2. \A i, j \in U : Chain[m][i] = Chain[m][j] => i = j
  BY DEF Apart, Positions
<1> HIDE DEF s
<1>3. Apart(s)
  BY <1>1, <1>2 DEF Apart
<1> QED
  BY <1>3 DEF s

LEMMA CandidatesEndLocal ==
  ASSUME PlanTypes, NEW m \in Models, NEW pref, NEW U \in SUBSET Positions(m), U # {},
         pref # Local
  PROVE  LocalsLast(Candidates(m, pref, U))
<1> DEFINE s == Candidates(m, pref, U)
           place(i) == Place(m, pref, U, i)
<1>1. \A k \in 1..Len(s) : \E i \in U : place(i) = k /\ s[k] = Chain[m][i]
  BY CandidatesAre
<1>2. \A i \in U : /\ ProviderOf[Chain[m][i]] = Local => Rank(Chain[m][i], pref) = 2
                   /\ ProviderOf[Chain[m][i]] # Local => Rank(Chain[m][i], pref) < 2
  BY DEF Rank
<1>3. \A i, j \in U : ProviderOf[Chain[m][i]] # Local /\ ProviderOf[Chain[m][j]] = Local =>
        place(i) < place(j)
  BY <1>2, PlacesCount
<1>4. Len(s) \in Nat
  BY CandidatesAre
<1> HIDE DEF s, place
<1>5. LocalsLast(s)
  <2> SUFFICES ASSUME NEW j \in 1..Len(s), NEW k \in 1..Len(s), j < k,
                      ProviderOf[s[j]] = Local, ProviderOf[s[k]] # Local
               PROVE  FALSE
    BY DEF LocalsLast
  <2>1. PICK h \in U : place(h) = j /\ s[j] = Chain[m][h]
    BY <1>1
  <2>2. PICK i \in U : place(i) = k /\ s[k] = Chain[m][i]
    BY <1>1
  <2>3. k < j
    BY <1>3, <2>1, <2>2
  <2> QED
    BY <1>4, <2>3
<1> QED
  BY <1>5 DEF s

(* The cut leaves a plan as it is up to its length, with the last candidate*)
(* after it only if that is the first of the local provider's.             *)
LEMMA CutIs ==
  ASSUME NEW s \in Seq(Entries), s # <<>>
  PROVE  LET plan == Cut(s)
         IN  /\ plan \in Seq(Entries) /\ plan # <<>>
             /\ \A k \in 1..Len(plan) :
                  \/ k \in 1..Len(s) /\ plan[k] = s[k]
                  \/ /\ k = Len(plan) /\ k < Len(s) /\ k = MaxTries + 1
                     /\ plan[k] = s[Len(s)] /\ ProviderOf[plan[k]] = Local
             /\ Len(plan) > MaxTries =>
                  Len(plan) = MaxTries + 1 /\ ProviderOf[plan[Len(plan)]] = Local
<1> DEFINE n == IF Len(s) < MaxTries THEN Len(s) ELSE MaxTries
           head == SubSeq(s, 1, n)
           last == s[Len(s)]
<1>1. Len(s) \in Nat \ {0} /\ MaxTries \in Nat \ {0} /\ \A i \in 1..Len(s) : s[i] \in Entries
  BY EmptySeq, LenProperties, BoundsAssumption
<1>2. n \in 1..Len(s) /\ n <= MaxTries /\ n \in Nat \ {0}
  BY <1>1
<1>3. head \in Seq(Entries) /\ Len(head) = n /\ \A i \in 1..n : head[i] = s[i]
  BY <1>1, <1>2, SubSeqProperties
<1>4. last \in Entries
  BY <1>1
<1>5. Cut(s) = IF ProviderOf[last] = Local /\ \A i \in 1..Len(head) : ProviderOf[head[i]] # Local
                 THEN Append(head, last) ELSE head
  BY DEF Cut
<1>6. CASE ProviderOf[last] = Local /\ \A i \in 1..Len(head) : ProviderOf[head[i]] # Local
  <2>1. n # Len(s)
    BY <1>1, <1>2, <1>3, <1>6
  <2>2. n = MaxTries /\ n < Len(s)
    BY <1>1, <2>1
  <2> HIDE DEF n, head, last
  <2>3. /\ Append(head, last) \in Seq(Entries) /\ Len(Append(head, last)) = n + 1
        /\ \A i \in 1..n : Append(head, last)[i] = s[i]
        /\ Append(head, last)[n + 1] = last
    BY <1>2, <1>3, <1>4, AppendProperties
  <2>4. Append(head, last) # <<>>
    BY <1>2, <2>3
  <2>5. ASSUME NEW k \in 1..(n + 1)
        PROVE  \/ k \in 1..Len(s) /\ Append(head, last)[k] = s[k]
               \/ /\ k = n + 1 /\ Append(head, last)[k] = last
    BY <1>1, <1>2, <2>2, <2>3
  <2>6. n + 1 < Len(s) \/ (n + 1 = Len(s) /\ last = s[n + 1])
    BY <1>1, <1>2, <2>2 DEF last
  <2>7. \A k \in 1..Len(Append(head, last)) :
          \/ k \in 1..Len(s) /\ Append(head, last)[k] = s[k]
          \/ /\ k = Len(Append(head, last)) /\ k < Len(s) /\ k = MaxTries + 1
             /\ Append(head, last)[k] = s[Len(s)] /\ ProviderOf[Append(head, last)[k]] = Local
    <3> SUFFICES ASSUME NEW k \in 1..(n + 1)
                 PROVE  \/ k \in 1..Len(s) /\ Append(head, last)[k] = s[k]
                        \/ /\ k = n + 1 /\ k < Len(s) /\ k = MaxTries + 1
                           /\ Append(head, last)[k] = s[Len(s)]
                           /\ ProviderOf[Append(head, last)[k]] = Local
      BY <2>3
    <3>1. CASE k = n + 1
      BY <1>1, <1>2, <1>6, <2>2, <2>3, <2>6, <3>1 DEF last
    <3>2. CASE k # n + 1
      BY <1>1, <1>2, <2>5, <3>2
    <3> QED
      BY <3>1, <3>2
  <2> QED
    BY <1>5, <1>6, <2>2, <2>3, <2>4, <2>7
<1>7. CASE ~(ProviderOf[last] = Local /\ \A i \in 1..Len(head) : ProviderOf[head[i]] # Local)
  <2>1. Cut(s) = head
    BY <1>5, <1>7
  <2> HIDE DEF n, head, last
  <2>2. head # <<>>
    BY <1>2, <1>3
  <2> QED
    BY <1>1, <1>2, <1>3, <2>1, <2>2
<1> QED
  BY <1>6, <1>7

(* Hence a plan has no entry twice if the chain has none, and the local    *)
(* provider's are behind the others unless it is preferred.                *)
LEMMA CutKeeps ==
  ASSUME NEW s \in Seq(Entries), s # <<>>
  PROVE  (Apart(s) => Apart(Cut(s))) /\ (LocalsLast(s) => LocalsLast(Cut(s)))
<1> DEFINE plan == Cut(s)
<1>1. /\ Len(plan) \in Nat /\ Len(s) \in Nat
      /\ \A k \in 1..Len(plan) :
           \/ k \in 1..Len(s) /\ plan[k] = s[k]
           \/ k = Len(plan) /\ k < Len(s) /\ plan[k] = s[Len(s)] /\ ProviderOf[plan[k]] = Local
  BY CutIs, LenProperties
<1> HIDE DEF plan
<1>2. ASSUME Apart(s) PROVE Apart(plan)
  <2> SUFFICES ASSUME NEW i \in 1..Len(plan), NEW j \in 1..Len(plan), plan[i] = plan[j]
               PROVE  i = j
    BY DEF Apart
  <2>1. CASE i = Len(plan) /\ i < Len(s) /\ plan[i] = s[Len(s)]
    BY <1>1, <1>2, <2>1 DEF Apart
  <2>2. CASE j = Len(plan) /\ j < Len(s) /\ plan[j] = s[Len(s)]
    BY <1>1, <1>2, <2>2 DEF Apart
  <2>3. CASE i \in 1..Len(s) /\ j \in 1..Len(s) /\ plan[i] = s[i] /\ plan[j] = s[j]
    BY <1>2, <2>3 DEF Apart
  <2> QED
    BY <1>1, <2>1, <2>2, <2>3
<1>3. ASSUME LocalsLast(s) PROVE LocalsLast(plan)
  BY <1>1, <1>3 DEF LocalsLast
<1> QED
  BY <1>2, <1>3 DEF plan
==============================================================================
