----------------------------- MODULE RouterProofs -----------------------------
(***************************************************************************)
(* Theorems about Router, for any callers, providers, rings of keys,       *)
(* chains and limits.  RouterInv is inductive.  It says what TypeOK says   *)
(* of the variables (SharedOK, Shapes), and of every caller that its plan  *)
(* has only providers with keys, that it has noted one error for every     *)
(* entry before the current one, and what these errors say of              *)
(* all_rate_limited and of the outcome (CallerOK).  From it follow the     *)
(* types, which entry a plan asks last, when a failure counts as rate      *)
(* limited, which keys are sent, where a rotation ends, and that routing   *)
(* does what Failover promises.                                            *)
(***************************************************************************)
EXTENDS PlanProofs

RingIndices ==
  {f \in [Providers -> Nat] : \A p \in Providers : f[p] > 0 => f[p] < Len(Keys[p])}

SharedOK ==
  /\ keyIndex \in RingIndices
  /\ disabled \in [Providers -> SUBSET KeyNames]
  /\ cooldown \in SUBSET (Entries \X KeyNames)
  /\ penalty \in [Entries -> 0..MaxPenalty]
  /\ used \in [Providers -> Nat]
  /\ rr_index \in [Models -> Nat]

Shapes ==
  /\ pc \in [Callers -> {"idle", "sending", "sleeping"}]
  /\ preferred \in [Callers -> Providers \cup {Anyone}]
  /\ to_try \in [Callers -> Seq(Entries)]
  /\ pos \in [Callers -> Nat \ {0}]
  /\ attempt \in [Callers -> 0..RetryMax]
  /\ key \in [Callers -> KeyNames \cup {NoKey}]
  /\ errors \in [Callers -> Seq(Failures)]
  /\ all_rate_limited \in [Callers -> BOOLEAN]
  /\ outcome \in [Callers -> Outcomes]

(* What a plan is, whoever made it. *)
PlanOK(plan, pref) ==
  /\ \A i \in 1..Len(plan) : Keys[ProviderOf[plan[i]]] # <<>>
  /\ Len(plan) > MaxTries => Len(plan) = MaxTries + 1 /\ ProviderOf[plan[Len(plan)]] = Local
  /\ pref # Local => LocalsLast(plan)

NoOther(e) == \A i \in 1..Len(e) : e[i] # "other"

CallerOK(c) ==
  /\ Busy(c) => /\ PlanOK(to_try[c], preferred[c])
                /\ pos[c] <= Len(to_try[c]) /\ key[c] \in KeysOf(Provider(c))
                /\ Len(errors[c]) = pos[c] - 1
                /\ all_rate_limited[c] <=> NoOther(errors[c])
  /\ pc[c] = "sleeping" => attempt[c] < RetryMax
  /\ Len(to_try[c]) > MaxTries =>
       Len(to_try[c]) = MaxTries + 1 /\ ProviderOf[to_try[c][Len(to_try[c])]] = Local
  /\ ~Busy(c) /\ outcome[c] \in {"AllRateLimitedError", "RuntimeError"} =>
       /\ Len(errors[c]) = Len(to_try[c])
       /\ outcome[c] = "AllRateLimitedError" <=> NoOther(errors[c])

RouterInv == SharedOK /\ Shapes /\ \A c \in Callers : CallerOK(c)

LEMMA InvImpliesTypes == RouterInv => TypeOK
<1> SUFFICES ASSUME RouterInv PROVE TypeOK
  OBVIOUS
<1>1. ASSUME NEW c \in Callers, Busy(c)
      PROVE  pos[c] \in 1..Len(to_try[c]) /\ key[c] \in KeysOf(Provider(c))
  <2>1. pos[c] \in Nat \ {0} /\ Len(to_try[c]) \in Nat
    BY LenProperties DEF RouterInv, Shapes
  <2> QED
    BY <1>1, <2>1 DEF RouterInv, CallerOK
<1> QED
  BY <1>1 DEF RouterInv, SharedOK, Shapes, RingIndices, TypeOK

LEMMA InvImpliesHonest == RouterInv => FailureIsHonest
  BY DEF RouterInv, CallerOK, FailureIsHonest, NoOther

LEMMA InvImpliesLastResort == RouterInv => LocalIsLastResort
<1> SUFFICES ASSUME RouterInv, NEW c \in Callers, Busy(c), preferred[c] # Local,
                    Provider(c) = Local, NEW i \in 1..Len(to_try[c]),
                    ProviderOf[to_try[c][i]] # Local
             PROVE  i \in 1..Len(errors[c])
  BY DEF LocalIsLastResort
<1>1. pos[c] \in Nat \ {0} /\ Len(to_try[c]) \in Nat
  BY LenProperties DEF RouterInv, Shapes
<1>2. pos[c] \in 1..Len(to_try[c]) /\ Len(errors[c]) = pos[c] - 1 /\ LocalsLast(to_try[c])
  BY <1>1 DEF RouterInv, CallerOK, PlanOK
<1>3. ProviderOf[to_try[c][pos[c]]] = Local
  BY DEF Provider, Entry
<1>4. ~(pos[c] < i) /\ pos[c] # i
  BY <1>2, <1>3 DEF LocalsLast
<1> QED
  BY <1>1, <1>2, <1>4

LEMMA InitRouter == Init => RouterInv
<1> SUFFICES ASSUME Init PROVE RouterInv
  OBVIOUS
<1>1. SharedOK
  BY BoundsAssumption DEF Init, SharedOK, RingIndices
<1>2. Shapes
  BY BoundsAssumption DEF Init, Shapes, Outcomes
<1>3. ASSUME NEW c \in Callers PROVE CallerOK(c)
  BY BoundsAssumption DEF Init, CallerOK, Busy
<1> QED
  BY <1>1, <1>2, <1>3 DEF RouterInv
-----------------------------------------------------------------------------
(* Rings.                                                                  *)
LEMMA RingsAssumed ==
  ASSUME NEW p \in Providers
  PROVE  /\ Keys[p] \in Seq(KeyNames) /\ Len(Keys[p]) \in Nat
         /\ Keys[p] # <<>> => IsRing(Keys[p]) /\ Len(Keys[p]) \in Nat \ {0}
  BY KeysAssumption, LenProperties, RingLength DEF IsRing

LEMMA RingIndicesWithin ==
  ASSUME NEW f \in RingIndices, NEW p \in Providers, Keys[p] # <<>>
  PROVE  f[p] \in Indices(Keys[p])
  BY RingsAssumed DEF RingIndices, Indices

LEMMA RingIndicesChange ==
  ASSUME NEW f \in RingIndices, NEW p \in Providers, Keys[p] # <<>>, NEW k \in Indices(Keys[p])
  PROVE  [f EXCEPT ![p] = k] \in RingIndices
<1>1. k \in Nat /\ k < Len(Keys[p])
  BY RingsAssumed DEF Indices
<1> QED
  BY <1>1 DEF RingIndices

LEMMA ChainSettledWithin ==
  ASSUME SharedOK, NEW m \in Models
  PROVE  ChainSettled(m) \in RingIndices
<1>1. ASSUME NEW p \in Providers, Keys[p] # <<>>
      PROVE  /\ Settled(Keys[p], disabled[p], keyIndex[p]) \in Nat
             /\ Settled(Keys[p], disabled[p], keyIndex[p]) < Len(Keys[p])
  <2>1. Settled(Keys[p], disabled[p], keyIndex[p]) \in Indices(Keys[p])
    BY <1>1, RingsAssumed, RingIndicesWithin, SettledWhere DEF SharedOK
  <2> QED
    BY <1>1, <2>1, RingsAssumed DEF Indices
<1> QED
  BY <1>1 DEF ChainSettled, RingIndices, SharedOK

LEMMA RotatedIndexWithin ==
  ASSUME SharedOK, NEW p \in Providers
  PROVE  RotatedIndex(p) \in RingIndices
<1>1. CASE Len(Keys[p]) > 1
  <2>1. Keys[p] # <<>>
    BY <1>1, EmptySeq
  <2>2. Rotated(Keys[p], disabled[p], keyIndex[p]) \in Indices(Keys[p])
    BY <1>1, <2>1, RingsAssumed, RingIndicesWithin, RotatedWithin DEF SharedOK
  <2>3. [keyIndex EXCEPT ![p] = Rotated(Keys[p], disabled[p], keyIndex[p])] \in RingIndices
    BY <2>1, <2>2, RingIndicesChange DEF SharedOK
  <2> QED
    BY <1>1, <2>3 DEF RotatedIndex, SharedOK, RingIndices
<1>2. CASE ~(Len(Keys[p]) > 1)
  BY <1>2 DEF RotatedIndex, SharedOK, RingIndices
<1> QED
  BY <1>1, <1>2

(* What Send does, to the ring and to its caller; the key it sends is not  *)
(* disabled unless all are.                                                *)
LEMMA SendDoes ==
  ASSUME SharedOK, Shapes, NEW c \in Callers, NEW p \in Providers, Keys[p] # <<>>,
         NEW index \in RingIndices, Send(c, p, index)
  PROVE  /\ keyIndex' \in RingIndices /\ used' \in [Providers -> Nat] /\ outcome' = outcome
         /\ pc' = [pc EXCEPT ![c] = "sending"]
         /\ key' \in [Callers -> KeyNames \cup {NoKey}]
         /\ \A d \in Callers \ {c} : key'[d] = key[d]
         /\ key'[c] \in KeysOf(p)
         /\ key'[c] \notin disabled[p] \/ KeysOf(p) \subseteq disabled[p]
         /\ \A q \in Providers \ {p} : keyIndex'[q] = index[q]
         /\ keyIndex'[p] = Settled(Keys[p], disabled[p], index[p])
<1> DEFINE k == Settled(Keys[p], disabled[p], index[p])
<1>1. IsRing(Keys[p]) /\ index[p] \in Indices(Keys[p]) /\ Keys[p] \in Seq(KeyNames)
  BY RingsAssumed, RingIndicesWithin
<1>2. k \in Indices(Keys[p])
  BY <1>1, SettledWhere
<1>3. k + 1 \in 1..Len(Keys[p]) /\ KeyAt(Keys[p], k) = Keys[p][k + 1]
  BY <1>1, <1>2, KeyIsOfRing
<1>4. KeyAt(Keys[p], k) \in KeysOf(p) /\ KeyAt(Keys[p], k) \in KeyNames
  BY <1>1, <1>3 DEF KeysOf
<1>5. KeyAt(Keys[p], k) \notin disabled[p] \/ KeysOf(p) \subseteq disabled[p]
  BY <1>1, ActiveKeyIsEnabled DEF KeysOf
<1>6. [index EXCEPT ![p] = k] \in RingIndices
  BY <1>2, RingIndicesChange
<1>7. Counted(p) \in Nat
  BY DEF Counted, SharedOK
<1>8. /\ pc' = [pc EXCEPT ![c] = "sending"] /\ used' = [used EXCEPT ![p] = Counted(p)]
      /\ keyIndex' = [index EXCEPT ![p] = k]
      /\ key' = [key EXCEPT ![c] = KeyAt(Keys[p], k)] /\ outcome' = outcome
  BY DEF Send
<1> HIDE DEF k
<1>9. key' \in [Callers -> KeyNames \cup {NoKey}] /\ key'[c] = KeyAt(Keys[p], k)
      /\ \A d \in Callers \ {c} : key'[d] = key[d]
  BY <1>4, <1>8 DEF Shapes
<1>10. used' \in [Providers -> Nat]
  BY <1>7, <1>8 DEF SharedOK
<1>11. keyIndex'[p] = k /\ \A q \in Providers \ {p} : keyIndex'[q] = index[q]
  BY <1>8 DEF RingIndices
<1> QED
  BY <1>4, <1>5, <1>6, <1>8, <1>9, <1>10, <1>11 DEF k

LEMMA EndDoes ==
  ASSUME Shapes, NEW c \in Callers, NEW how \in Outcomes, NEW index, End(c, how, index)
  PROVE  /\ keyIndex' = index /\ used' = used
         /\ pc' \in [Callers -> {"idle", "sending", "sleeping"}]
         /\ preferred' \in [Callers -> Providers \cup {Anyone}]
         /\ pos' \in [Callers -> Nat \ {0}]
         /\ attempt' \in [Callers -> 0..RetryMax]
         /\ key' \in [Callers -> KeyNames \cup {NoKey}]
         /\ all_rate_limited' \in [Callers -> BOOLEAN]
         /\ outcome' \in [Callers -> Outcomes]
         /\ pc'[c] = "idle" /\ outcome'[c] = how
         /\ \A d \in Callers \ {c} :
              /\ pc'[d] = pc[d] /\ preferred'[d] = preferred[d] /\ pos'[d] = pos[d]
              /\ attempt'[d] = attempt[d] /\ key'[d] = key[d]
              /\ all_rate_limited'[d] = all_rate_limited[d] /\ outcome'[d] = outcome[d]
  BY BoundsAssumption DEF End, Shapes

(* A caller none of whose variables changes. *)
Same(d) ==
  /\ pc'[d] = pc[d] /\ preferred'[d] = preferred[d] /\ to_try'[d] = to_try[d]
  /\ pos'[d] = pos[d] /\ attempt'[d] = attempt[d] /\ key'[d] = key[d]
  /\ errors'[d] = errors[d]
  /\ all_rate_limited'[d] = all_rate_limited[d] /\ outcome'[d] = outcome[d]

LEMMA SameStays ==
  ASSUME NEW d \in Callers, CallerOK(d), Same(d)
  PROVE  CallerOK(d)'
<1>1. (Busy(d)' <=> Busy(d)) /\ Provider(d)' = Provider(d)
  BY DEF Same, Busy, Provider, Entry
<1> QED
  BY <1>1 DEF CallerOK, Same, KeysOf
-----------------------------------------------------------------------------
(* The plan Start makes.                                                   *)
LEMMA PlanIsOK ==
  ASSUME SharedOK, NEW m \in Models, NEW pref, NEW U \in SUBSET Positions(m), U # {},
         \A i \in U : Keys[ProviderOf[Chain[m][i]]] # <<>>
  PROVE  LET plan == Cut(Candidates(m, pref, U))
         IN  /\ plan \in Seq(Entries) /\ plan # <<>> /\ PlanOK(plan, pref)
             /\ Apart(Chain[m]) => Apart(plan)
<1> DEFINE s == Candidates(m, pref, U)
           plan == Cut(s)
<1>1. PlanTypes
  BY BoundsAssumption DEF SharedOK, PlanTypes
<1>2. /\ s \in Seq(Entries) /\ s # <<>>
      /\ \A k \in 1..Len(s) : \E i \in U : s[k] = Chain[m][i]
  BY <1>1, CandidatesAre
<1>3. Apart(Chain[m]) => Apart(s)
  BY <1>1, CandidatesKeepApart
<1>4. pref # Local => LocalsLast(s)
  BY <1>1, CandidatesEndLocal
<1> HIDE DEF s
<1>5. Len(s) \in Nat \ {0}
  BY <1>2, EmptySeq, LenProperties
<1>6. /\ plan \in Seq(Entries) /\ plan # <<>>
      /\ \A k \in 1..Len(plan) : \E j \in 1..Len(s) : plan[k] = s[j]
      /\ Len(plan) > MaxTries => Len(plan) = MaxTries + 1 /\ ProviderOf[plan[Len(plan)]] = Local
  BY <1>2, <1>5, CutIs
<1>7. (Apart(s) => Apart(plan)) /\ (LocalsLast(s) => LocalsLast(plan))
  BY <1>2, CutKeeps
<1> HIDE DEF plan
<1>8. \A k \in 1..Len(plan) : Keys[ProviderOf[plan[k]]] # <<>>
  BY <1>2, <1>6
<1> QED
  BY <1>3, <1>4, <1>6, <1>7, <1>8 DEF PlanOK, plan, s

(* What a caller's plan says of the entries it tries.                      *)
LEMMA BusyPlan ==
  ASSUME RouterInv, NEW c \in Callers, Busy(c)
  PROVE  /\ pos[c] \in 1..Len(to_try[c]) /\ Len(to_try[c]) \in Nat /\ to_try[c] \in Seq(Entries)
         /\ \A i \in 1..Len(to_try[c]) :
              /\ to_try[c][i] \in Entries /\ ProviderOf[to_try[c][i]] \in Providers
              /\ Keys[ProviderOf[to_try[c][i]]] # <<>>
         /\ Entry(c) \in Entries /\ Provider(c) \in Providers /\ Keys[Provider(c)] # <<>>
         /\ Len(errors[c]) = pos[c] - 1 /\ errors[c] \in Seq(Failures)
         /\ all_rate_limited[c] <=> NoOther(errors[c])
<1>1. /\ to_try[c] \in Seq(Entries) /\ Len(to_try[c]) \in Nat /\ pos[c] \in Nat \ {0}
      /\ errors[c] \in Seq(Failures)
  BY LenProperties DEF RouterInv, Shapes
<1>2. pos[c] \in 1..Len(to_try[c])
  BY <1>1 DEF RouterInv, CallerOK
<1>3. \A i \in 1..Len(to_try[c]) :
        /\ to_try[c][i] \in Entries /\ ProviderOf[to_try[c][i]] \in Providers
        /\ Keys[ProviderOf[to_try[c][i]]] # <<>>
  BY <1>1, EntriesAssumption DEF RouterInv, CallerOK, PlanOK
<1>4. Entry(c) \in Entries /\ Provider(c) \in Providers /\ Keys[Provider(c)] # <<>>
  BY <1>2, <1>3 DEF Entry, Provider
<1> QED
  BY <1>1, <1>2, <1>3, <1>4 DEF RouterInv, CallerOK

LEMMA SendingIsBusy ==
  ASSUME NEW c, pc[c] \in {"sending", "sleeping"}
  PROVE  Busy(c)
  BY DEF Busy

LEMMA StartKeeps ==
  ASSUME RouterInv, NEW c \in Callers, NEW m \in Models, NEW pref \in Preferences,
         NEW down, NEW exhausted, Start(c, m, pref, down, exhausted)
  PROVE  /\ RouterInv' /\ \A d \in Callers \ {c} : Same(d)
         /\ LET p == Provider(c)'
            IN  key'[c] \notin disabled[p] \/ KeysOf(p) \subseteq disabled[p]
         /\ errors'[c] = <<>>
         /\ Apart(Chain[m]) => Apart(to_try'[c])
         /\ pc'[c] = "sending" /\ pos'[c] = 1 /\ to_try'[c] # <<>> /\ outcome' = outcome
         /\ preferred'[c] = pref /\ (pref # Local => LocalsLast(to_try'[c]))
<1> DEFINE U == {i \in 1..Len(Chain[m]) : Usable(Chain[m][i], pref, down, exhausted)}
           plan == Cut(Candidates(m, pref, U))
           p == ProviderOf[plan[1]]
<1>1. U \in SUBSET Positions(m) /\ U # {} /\ \A i \in U : Keys[ProviderOf[Chain[m][i]]] # <<>>
  BY DEF Start, Usable, Positions
<1>2. /\ rr_index' = [rr_index EXCEPT ![m] = NextIndex(m, pref, U)]
      /\ preferred' = [preferred EXCEPT ![c] = pref]
      /\ to_try' = [to_try EXCEPT ![c] = plan]
      /\ pos' = [pos EXCEPT ![c] = 1]
      /\ attempt' = [attempt EXCEPT ![c] = 0]
      /\ errors' = [errors EXCEPT ![c] = <<>>]
      /\ all_rate_limited' = [all_rate_limited EXCEPT ![c] = TRUE]
      /\ Send(c, p, ChainSettled(m))
      /\ UNCHANGED <<disabled, cooldown, penalty>>
  BY DEF Start
<1> HIDE DEF U
<1>3. SharedOK /\ Shapes /\ \A d \in Callers : CallerOK(d)
  BY DEF RouterInv
<1>4. /\ plan \in Seq(Entries) /\ plan # <<>> /\ PlanOK(plan, pref)
      /\ Apart(Chain[m]) => Apart(plan)
  BY <1>1, <1>3, PlanIsOK
<1> HIDE DEF plan
<1>5. Len(plan) \in Nat \ {0} /\ 1 \in 1..Len(plan) /\ plan[1] \in Entries
  BY <1>4, EmptySeq, LenProperties
<1>6. p \in Providers /\ Keys[p] # <<>>
  BY <1>4, <1>5, EntriesAssumption DEF PlanOK
<1>7. ChainSettled(m) \in RingIndices
  BY <1>3, ChainSettledWithin
<1> HIDE DEF p
<1>8. /\ keyIndex' \in RingIndices /\ used' \in [Providers -> Nat] /\ outcome' = outcome
      /\ pc' = [pc EXCEPT ![c] = "sending"]
      /\ key' \in [Callers -> KeyNames \cup {NoKey}]
      /\ \A d \in Callers \ {c} : key'[d] = key[d]
      /\ key'[c] \in KeysOf(p)
      /\ key'[c] \notin disabled[p] \/ KeysOf(p) \subseteq disabled[p]
  BY <1>2, <1>3, <1>6, <1>7, SendDoes
<1>9. NextIndex(m, pref, U) \in Nat
  <2>1. InRotation(m, pref, U) \in SUBSET Positions(m)
    BY <1>1 DEF InRotation
  <2>2. Cardinality(InRotation(m, pref, U)) \in Nat /\ rr_index[m] \in Nat
    BY <2>1, <1>3, Positioned DEF SharedOK
  <2> QED
    BY <2>2 DEF NextIndex
<1>10. SharedOK'
  BY <1>2, <1>3, <1>8, <1>9 DEF SharedOK, RingIndices
<1>11. /\ preferred'[c] = pref /\ to_try'[c] = plan /\ pos'[c] = 1 /\ errors'[c] = <<>>
       /\ all_rate_limited'[c] = TRUE /\ pc'[c] = "sending"
  BY <1>2, <1>3, <1>8 DEF Shapes
<1>12. Shapes'
  <2>1. pref \in Providers \cup {Anyone} /\ <<>> \in Seq(Failures) /\ 0 \in 0..RetryMax
    BY InputsAssumption, BoundsAssumption
  <2> QED
    BY <1>2, <1>3, <1>4, <1>8, <2>1 DEF Shapes
<1>13. \A d \in Callers \ {c} : Same(d)
  BY <1>2, <1>3, <1>8 DEF Same, Shapes
<1>14. Provider(c)' = p
  BY <1>11 DEF Provider, Entry, p
<1>15. CallerOK(c)'
  <2>1. key'[c] \in KeysOf(Provider(c)')
    BY <1>8, <1>14
  <2>2. NoOther(errors'[c]) /\ Len(errors'[c]) = 0
    BY <1>11 DEF NoOther
  <2>3. pos'[c] <= Len(to_try'[c])
    BY <1>5, <1>11
  <2> QED
    BY <1>4, <1>11, <2>1, <2>2, <2>3 DEF CallerOK, PlanOK, Busy, KeysOf
<1>16. \A d \in Callers \ {c} : CallerOK(d)'
  BY <1>3, <1>13, SameStays
<1> QED
  BY <1>4, <1>8, <1>10, <1>11, <1>12, <1>13, <1>14, <1>15, <1>16 DEF RouterInv, PlanOK

LEMMA RefuseKeeps ==
  ASSUME RouterInv, NEW c \in Callers, NEW m \in Models, NEW pref, NEW down, NEW exhausted,
         Refuse(c, m, pref, down, exhausted)
  PROVE  /\ RouterInv' /\ \A d \in Callers \ {c} : Same(d)
         /\ pc[c] = "idle" /\ pc'[c] = "idle" /\ errors'[c] = <<>> /\ to_try'[c] = <<>>
         /\ outcome'[c] = "ValueError"
<1>1. SharedOK /\ Shapes /\ \A d \in Callers : CallerOK(d)
  BY DEF RouterInv
<1>2. /\ to_try' = [to_try EXCEPT ![c] = <<>>] /\ errors' = [errors EXCEPT ![c] = <<>>]
      /\ End(c, "ValueError", ChainSettled(m))
      /\ UNCHANGED <<disabled, cooldown, penalty, rr_index>> /\ pc[c] = "idle"
  BY DEF Refuse
<1>3. /\ keyIndex' = ChainSettled(m) /\ used' = used
      /\ pc' \in [Callers -> {"idle", "sending", "sleeping"}]
      /\ preferred' \in [Callers -> Providers \cup {Anyone}]
      /\ pos' \in [Callers -> Nat \ {0}]
      /\ attempt' \in [Callers -> 0..RetryMax]
      /\ key' \in [Callers -> KeyNames \cup {NoKey}]
      /\ all_rate_limited' \in [Callers -> BOOLEAN]
      /\ outcome' \in [Callers -> Outcomes]
      /\ pc'[c] = "idle" /\ outcome'[c] = "ValueError"
      /\ \A d \in Callers \ {c} :
           /\ pc'[d] = pc[d] /\ preferred'[d] = preferred[d] /\ pos'[d] = pos[d]
           /\ attempt'[d] = attempt[d] /\ key'[d] = key[d]
           /\ all_rate_limited'[d] = all_rate_limited[d] /\ outcome'[d] = outcome[d]
  BY <1>1, <1>2, EndDoes DEF Outcomes
<1>4. SharedOK'
  BY <1>1, <1>2, <1>3, ChainSettledWithin DEF SharedOK, RingIndices
<1>5. <<>> \in Seq(Entries) /\ <<>> \in Seq(Failures)
  OBVIOUS
<1>6. Shapes'
  BY <1>1, <1>2, <1>3, <1>5 DEF Shapes
<1>7. \A d \in Callers \ {c} : Same(d)
  BY <1>1, <1>2, <1>3 DEF Same, Shapes
<1>8. to_try'[c] = <<>> /\ errors'[c] = <<>>
  BY <1>1, <1>2 DEF Shapes
<1>9. CallerOK(c)'
  BY <1>3, <1>8, BoundsAssumption DEF CallerOK, Busy
<1> QED
  BY <1>1, <1>2, <1>3, <1>4, <1>6, <1>7, <1>8, <1>9, SameStays DEF RouterInv

(* A request that ends at its current entry, or after its last one.        *)
LEMMA EndKeeps ==
  ASSUME RouterInv, NEW c \in Callers, NEW how \in Outcomes, NEW index \in RingIndices,
         Busy(c), End(c, how, index),
         to_try' = to_try, errors'[c] \in Seq(Failures),
         errors' = [errors EXCEPT ![c] = errors'[c]],
         UNCHANGED <<disabled, rr_index>>,
         penalty' \in [Entries -> 0..MaxPenalty],
         cooldown' \in SUBSET (Entries \X KeyNames),
         how \in {"AllRateLimitedError", "RuntimeError"} =>
           /\ Len(errors'[c]) = Len(to_try[c])
           /\ how = "AllRateLimitedError" <=> NoOther(errors'[c])
  PROVE  /\ RouterInv' /\ \A d \in Callers \ {c} : Same(d)
         /\ pc'[c] = "idle" /\ outcome'[c] = how /\ keyIndex' = index
<1>1. SharedOK /\ Shapes /\ \A d \in Callers : CallerOK(d)
  BY DEF RouterInv
<1>2. /\ keyIndex' = index /\ used' = used
      /\ pc' \in [Callers -> {"idle", "sending", "sleeping"}]
      /\ preferred' \in [Callers -> Providers \cup {Anyone}]
      /\ pos' \in [Callers -> Nat \ {0}]
      /\ attempt' \in [Callers -> 0..RetryMax]
      /\ key' \in [Callers -> KeyNames \cup {NoKey}]
      /\ all_rate_limited' \in [Callers -> BOOLEAN]
      /\ outcome' \in [Callers -> Outcomes]
      /\ pc'[c] = "idle" /\ outcome'[c] = how
      /\ \A d \in Callers \ {c} :
           /\ pc'[d] = pc[d] /\ preferred'[d] = preferred[d] /\ pos'[d] = pos[d]
           /\ attempt'[d] = attempt[d] /\ key'[d] = key[d]
           /\ all_rate_limited'[d] = all_rate_limited[d] /\ outcome'[d] = outcome[d]
  BY <1>1, EndDoes
<1>3. SharedOK'
  BY <1>1, <1>2 DEF SharedOK, RingIndices
<1>4. errors' \in [Callers -> Seq(Failures)] /\ \A d \in Callers \ {c} : errors'[d] = errors[d]
  BY <1>1 DEF Shapes
<1>5. Shapes'
  BY <1>1, <1>2, <1>4 DEF Shapes
<1>6. \A d \in Callers \ {c} : Same(d)
  BY <1>2, <1>4 DEF Same
<1>7. CallerOK(c)'
  BY <1>1, <1>2 DEF CallerOK, Busy
<1> QED
  BY <1>1, <1>2, <1>3, <1>5, <1>6, <1>7, SameStays DEF RouterInv

(* One more error, and what it makes of all_rate_limited.                  *)
LEMMA OneMoreError ==
  ASSUME NEW e \in Seq(Failures), NEW why \in Failures
  PROVE  /\ Append(e, why) \in Seq(Failures) /\ Len(Append(e, why)) = Len(e) + 1
         /\ Append(e, why)[Len(Append(e, why))] = why
         /\ NoOther(Append(e, why)) <=> NoOther(e) /\ why # "other"
<1>1. /\ Append(e, why) \in Seq(Failures) /\ Len(Append(e, why)) = Len(e) + 1 /\ Len(e) \in Nat
      /\ \A i \in 1..Len(e) : Append(e, why)[i] = e[i]
      /\ Append(e, why)[Len(e) + 1] = why
  BY AppendProperties, LenProperties
<1>2. NoOther(Append(e, why)) <=> NoOther(e) /\ why # "other"
  BY <1>1 DEF NoOther
<1> QED
  BY <1>1, <1>2

(* What moving on does, to the next entry or out of route_request.         *)
LEMMA MoveOnKeeps ==
  ASSUME RouterInv, NEW c \in Callers, NEW why \in Failures, NEW index \in RingIndices,
         pc[c] = "sending", MoveOn(c, why, index),
         penalty' \in [Entries -> 0..MaxPenalty],
         cooldown' \in SUBSET (Entries \X KeyNames)
  PROVE  /\ RouterInv' /\ \A d \in Callers \ {c} : Same(d)
         /\ errors'[c] = Append(errors[c], why) /\ to_try'[c] = to_try[c]
         /\ \/ /\ pos[c] < Len(to_try[c]) /\ pos'[c] = pos[c] + 1
               /\ pc'[c] = "sending" /\ preferred'[c] = preferred[c] /\ outcome' = outcome
               /\ LET p == Provider(c)'
                  IN  key'[c] \notin disabled[p] \/ KeysOf(p) \subseteq disabled[p]
               /\ LET p == Provider(c)'
                  IN  /\ p \in Providers /\ Keys[p] # <<>>
                      /\ keyIndex'[p] = Settled(Keys[p], disabled[p], index[p])
                      /\ \A q \in Providers \ {p} : keyIndex'[q] = index[q]
            \/ /\ pos[c] = Len(to_try[c]) /\ pc'[c] = "idle"
               /\ outcome'[c] \in {"AllRateLimitedError", "RuntimeError"} /\ keyIndex' = index
<1> DEFINE limited == StillLimited(c, why)
<1>1. SharedOK /\ Shapes /\ (\A d \in Callers : CallerOK(d)) /\ Busy(c)
  BY DEF RouterInv, Busy
<1>2. /\ pos[c] \in 1..Len(to_try[c]) /\ Len(to_try[c]) \in Nat /\ to_try[c] \in Seq(Entries)
      /\ \A i \in 1..Len(to_try[c]) :
           /\ to_try[c][i] \in Entries /\ ProviderOf[to_try[c][i]] \in Providers
           /\ Keys[ProviderOf[to_try[c][i]]] # <<>>
      /\ Len(errors[c]) = pos[c] - 1 /\ errors[c] \in Seq(Failures)
      /\ all_rate_limited[c] <=> NoOther(errors[c])
  BY <1>1, BusyPlan
<1>3. /\ Append(errors[c], why) \in Seq(Failures) /\ Len(Append(errors[c], why)) = pos[c]
      /\ NoOther(Append(errors[c], why)) <=> limited
  BY <1>2, OneMoreError, SMTT(20) DEF StillLimited
<1>4. limited \in BOOLEAN
  BY <1>1 DEF StillLimited, Shapes
<1>5. /\ errors' = [errors EXCEPT ![c] = Append(errors[c], why)]
      /\ UNCHANGED <<disabled, rr_index, to_try>>
      /\ \/ /\ pos[c] < Len(to_try[c])
            /\ pos' = [pos EXCEPT ![c] = pos[c] + 1]
            /\ attempt' = [attempt EXCEPT ![c] = 0]
            /\ all_rate_limited' = [all_rate_limited EXCEPT ![c] = limited]
            /\ Send(c, ProviderOf[to_try[c][pos[c] + 1]], index)
            /\ UNCHANGED preferred
         \/ /\ pos[c] >= Len(to_try[c])
            /\ End(c, IF limited THEN "AllRateLimitedError" ELSE "RuntimeError", index)
  BY DEF MoveOn, LastTry
<1> HIDE DEF limited
<1>6. errors'[c] = Append(errors[c], why) /\ to_try'[c] = to_try[c]
  BY <1>1, <1>5 DEF Shapes
<1>7. CASE /\ pos[c] < Len(to_try[c])
           /\ pos' = [pos EXCEPT ![c] = pos[c] + 1]
           /\ attempt' = [attempt EXCEPT ![c] = 0]
           /\ all_rate_limited' = [all_rate_limited EXCEPT ![c] = limited]
           /\ Send(c, ProviderOf[to_try[c][pos[c] + 1]], index)
           /\ UNCHANGED preferred
  <2> DEFINE p == ProviderOf[to_try[c][pos[c] + 1]]
  <2>1. pos[c] + 1 \in 1..Len(to_try[c])
    BY <1>2, <1>7
  <2>2. p \in Providers /\ Keys[p] # <<>>
    BY <1>2, <2>1
  <2> HIDE DEF p
  <2>3. /\ keyIndex' \in RingIndices /\ used' \in [Providers -> Nat] /\ outcome' = outcome
        /\ pc' = [pc EXCEPT ![c] = "sending"]
        /\ key' \in [Callers -> KeyNames \cup {NoKey}]
        /\ \A d \in Callers \ {c} : key'[d] = key[d]
        /\ key'[c] \in KeysOf(p)
        /\ key'[c] \notin disabled[p] \/ KeysOf(p) \subseteq disabled[p]
        /\ \A q \in Providers \ {p} : keyIndex'[q] = index[q]
        /\ keyIndex'[p] = Settled(Keys[p], disabled[p], index[p])
    <3>1. SharedOK /\ Shapes /\ Send(c, p, index)
      BY <1>1, <1>7 DEF p
    <3> QED
      BY <2>2, <3>1, SendDoes, ZenonT(30)
  <2>4. SharedOK'
    BY <1>1, <1>5, <2>3, SMTT(20) DEF SharedOK, RingIndices
  <2>5. Shapes'
    <3>1. 0 \in 0..RetryMax
      BY BoundsAssumption
    <3>2. pos[c] + 1 \in Nat \ {0}
      BY <1>2
    <3> QED
      BY <1>1, <1>3, <1>4, <1>5, <1>7, <2>3, <3>1, <3>2 DEF Shapes
  <2>6. \A d \in Callers \ {c} : Same(d)
    BY <1>1, <1>5, <1>7, <2>3 DEF Same, Shapes
  <2>7. /\ pos'[c] = pos[c] + 1 /\ pc'[c] = "sending" /\ preferred'[c] = preferred[c]
        /\ all_rate_limited'[c] = limited
    BY <1>1, <1>7, <2>3 DEF Shapes
  <2>8. Provider(c)' = p
    BY <1>6, <2>7 DEF Provider, Entry, p
  <2>9. CallerOK(c)'
    <3>1. key'[c] \in KeysOf(Provider(c)')
      BY <2>3, <2>8
    <3>2. pos'[c] <= Len(to_try'[c]) /\ Len(errors'[c]) = pos'[c] - 1
      BY <1>2, <1>3, <1>6, <2>1, <2>7
    <3>3. all_rate_limited'[c] <=> NoOther(errors'[c])
      BY <1>3, <1>6, <2>7
    <3>4. PlanOK(to_try[c], preferred[c])
      BY <1>1 DEF CallerOK
    <3> QED
      BY <1>6, <2>7, <3>1, <3>2, <3>3, <3>4 DEF CallerOK, PlanOK, Busy, KeysOf
  <2>10. \A d \in Callers \ {c} : CallerOK(d)'
    BY <1>1, <2>6, SameStays
  <2> QED
    BY <1>6, <1>7, <2>2, <2>3, <2>4, <2>5, <2>6, <2>7, <2>8, <2>9, <2>10 DEF RouterInv
<1>8. CASE /\ pos[c] >= Len(to_try[c])
           /\ End(c, IF limited THEN "AllRateLimitedError" ELSE "RuntimeError", index)
  <2> DEFINE how == IF limited THEN "AllRateLimitedError" ELSE "RuntimeError"
  <2>1. how \in Outcomes /\ how \in {"AllRateLimitedError", "RuntimeError"}
        /\ (how = "AllRateLimitedError" <=> limited)
    BY DEF Outcomes
  <2>2. End(c, how, index)
    BY <1>8
  <2> HIDE DEF how
  <2>3. pos[c] = Len(to_try[c])
    BY <1>2, <1>8
  <2>4. /\ Len(errors'[c]) = Len(to_try[c]) /\ errors'[c] \in Seq(Failures)
        /\ how = "AllRateLimitedError" <=> NoOther(errors'[c])
        /\ errors' = [errors EXCEPT ![c] = errors'[c]]
    BY <1>3, <1>5, <1>6, <2>1, <2>3
  <2>5. /\ RouterInv' /\ \A d \in Callers \ {c} : Same(d)
        /\ pc'[c] = "idle" /\ outcome'[c] = how /\ keyIndex' = index
    BY <1>1, <1>5, <2>1, <2>2, <2>4, EndKeeps
  <2> QED
    BY <1>6, <2>1, <2>3, <2>5
<1> QED
  BY <1>5, <1>7, <1>8
-----------------------------------------------------------------------------
(* Replies.                                                                *)
LEMMA HitTyped ==
  ASSUME RouterInv, NEW c \in Callers, pc[c] = "sending"
  PROVE  Hit(c) \in [Entries -> 0..MaxPenalty]
<1>1. Entry(c) \in Entries /\ penalty \in [Entries -> 0..MaxPenalty]
  BY SendingIsBusy, BusyPlan DEF RouterInv, SharedOK
<1> QED
  BY <1>1, BoundsAssumption DEF Hit

(* The index a 429 leaves: the ring rotated, then read.                    *)
Cooled(c) ==
  [RotatedIndex(Provider(c)) EXCEPT
     ![Provider(c)] = Settled(Keys[Provider(c)], disabled[Provider(c)], @)]

LEMMA CooledWithin ==
  ASSUME RouterInv, NEW c \in Callers, pc[c] = "sending"
  PROVE  /\ Cooled(c) \in RingIndices
         /\ KeyAt(Keys[Provider(c)], Cooled(c)[Provider(c)]) \in KeyNames
<1> DEFINE p == Provider(c)
           k == Settled(Keys[p], disabled[p], RotatedIndex(p)[p])
<1>1. p \in Providers /\ Keys[p] # <<>> /\ SharedOK
  BY SendingIsBusy, BusyPlan DEF RouterInv
<1> HIDE DEF p
<1>2. RotatedIndex(p) \in RingIndices /\ IsRing(Keys[p]) /\ Keys[p] \in Seq(KeyNames)
  BY <1>1, RotatedIndexWithin, RingsAssumed
<1>3. k \in Indices(Keys[p])
  BY <1>1, <1>2, RingIndicesWithin, SettledWhere
<1>4. Cooled(c) = [RotatedIndex(p) EXCEPT ![p] = k]
  BY <1>1, <1>2 DEF Cooled, RingIndices, p
<1> HIDE DEF k
<1>5. Cooled(c) \in RingIndices
  BY <1>1, <1>2, <1>3, <1>4, RingIndicesChange
<1>6. Cooled(c)[p] = k
  BY <1>1, <1>2, <1>4 DEF RingIndices
<1>7. KeyAt(Keys[p], k) \in KeyNames
  BY <1>2, <1>3, KeyIsOfRing
<1> QED
  BY <1>5, <1>6, <1>7 DEF p

(* A reply that is no answer, and is not tried again, moves on.            *)
MovesOn(c) == ReplyTimeout(c) \/ ReplyRateLimited(c) \/ ReplyAuthError(c) \/ ReplyError(c)

LEMMA MovesOnBy ==
  ASSUME RouterInv, NEW c \in Callers, MovesOn(c)
  PROVE  /\ pc[c] = "sending"
         /\ penalty' \in [Entries -> 0..MaxPenalty]
         /\ cooldown' \in SUBSET (Entries \X KeyNames)
         /\ \E why \in Failures, index \in RingIndices :
              /\ MoveOn(c, why, index)
              /\ why = "rate_limited" => index = Cooled(c)
<1>1. pc[c] = "sending"
  BY DEF MovesOn, ReplyTimeout, ReplyRateLimited, ReplyAuthError, ReplyError
<1>2. Entry(c) \in Entries /\ Provider(c) \in Providers /\ SharedOK
  BY <1>1, SendingIsBusy, BusyPlan DEF RouterInv
<1>3. keyIndex \in RingIndices /\ RotatedIndex(Provider(c)) \in RingIndices
  BY <1>2, RotatedIndexWithin DEF SharedOK
<1>4. CASE ReplyTimeout(c)
  BY <1>1, <1>2, <1>3, <1>4, HitTyped DEF ReplyTimeout, Failures, SharedOK
<1>5. CASE ReplyRateLimited(c)
  <2>1. /\ penalty' = Hit(c)
        /\ cooldown' = CooledDown(c, KeyAt(Keys[Provider(c)], Cooled(c)[Provider(c)]))
        /\ MoveOn(c, "rate_limited", Cooled(c))
    BY <1>5 DEF ReplyRateLimited, Cooled
  <2> QED
    BY <1>1, <1>2, <2>1, HitTyped, CooledWithin DEF CooledDown, Failures, SharedOK
<1>6. CASE ReplyAuthError(c)
  BY <1>1, <1>2, <1>3, <1>6 DEF ReplyAuthError, Failures, SharedOK
<1>7. CASE ReplyError(c)
  BY <1>1, <1>2, <1>3, <1>7 DEF ReplyError, Failures, SharedOK
<1> QED
  BY <1>4, <1>5, <1>6, <1>7 DEF MovesOn

LEMMA EndingKeeps ==
  ASSUME RouterInv, NEW c \in Callers, ReplyOk(c) \/ ReplyRaises(c)
  PROVE  /\ RouterInv' /\ \A d \in Callers \ {c} : Same(d)
         /\ pc[c] = "sending" /\ pc'[c] = "idle" /\ errors' = errors
         /\ ReplyOk(c) => outcome'[c] = "ok"
         /\ ReplyRaises(c) => outcome'[c] = "escaped"
<1>1. pc[c] = "sending" /\ Busy(c) /\ SharedOK /\ Shapes
  BY DEF ReplyOk, ReplyRaises, RouterInv, Busy
<1>2. Entry(c) \in Entries
  BY <1>1, BusyPlan
<1>3. PICK how \in {"ok", "escaped"} :
        /\ End(c, how, keyIndex)
        /\ ReplyOk(c) => how = "ok"
        /\ ReplyRaises(c) => how = "escaped"
  <2>1. CASE ReplyOk(c) /\ ~ReplyRaises(c)
    BY <2>1 DEF ReplyOk
  <2>2. CASE ReplyRaises(c) /\ ~ReplyOk(c)
    BY <2>2 DEF ReplyRaises
  <2>3. CASE ReplyOk(c) /\ ReplyRaises(c)
    <3>1. outcome'[c] = "ok" /\ outcome'[c] = "escaped"
      BY <1>1, <2>3 DEF ReplyOk, ReplyRaises, End, Shapes
    <3> QED
      BY <3>1
  <2> QED
    BY <2>1, <2>2, <2>3
<1>4. /\ to_try' = to_try /\ errors' = errors
      /\ UNCHANGED <<disabled, rr_index, cooldown>>
  BY DEF ReplyOk, ReplyRaises
<1>5. penalty' \in [Entries -> 0..MaxPenalty]
  <2>1. CASE ReplyOk(c)
    BY <1>1, <1>2, <2>1, BoundsAssumption DEF ReplyOk, SharedOK
  <2>2. CASE ReplyRaises(c)
    BY <1>1, <2>2 DEF ReplyRaises, SharedOK
  <2> QED
    BY <2>1, <2>2
<1>6. errors' = [errors EXCEPT ![c] = errors'[c]] /\ errors'[c] \in Seq(Failures)
  BY <1>1, <1>4 DEF Shapes
<1>7. keyIndex \in RingIndices /\ how \in Outcomes /\ cooldown' \in SUBSET (Entries \X KeyNames)
      /\ how \notin {"AllRateLimitedError", "RuntimeError"}
  BY <1>1, <1>3, <1>4 DEF SharedOK, Outcomes
<1>8. /\ RouterInv' /\ \A d \in Callers \ {c} : Same(d)
      /\ pc'[c] = "idle" /\ outcome'[c] = how
  BY <1>1, <1>3, <1>4, <1>5, <1>6, <1>7, EndKeeps
<1> QED
  BY <1>1, <1>3, <1>4, <1>8

LEMMA RetryLaterKeeps ==
  ASSUME RouterInv, NEW c \in Callers, ReplyRetryLater(c)
  PROVE  /\ RouterInv' /\ \A d \in Callers \ {c} : Same(d)
         /\ pc[c] = "sending" /\ pc'[c] = "sleeping"
         /\ UNCHANGED <<plans, progress, outcome>>
<1>1. SharedOK /\ Shapes /\ \A d \in Callers : CallerOK(d)
  BY DEF RouterInv
<1>2. /\ pc[c] = "sending" /\ pc' = [pc EXCEPT ![c] = "sleeping"]
      /\ UNCHANGED <<shared, plans, progress, outcome>>
      /\ attempt[c] < RetryMax
  BY DEF ReplyRetryLater, AttemptsLeft
<1>3. SharedOK' /\ Shapes'
  BY <1>1, <1>2 DEF SharedOK, Shapes, shared, plans, progress, RingIndices
<1>4. \A d \in Callers \ {c} : Same(d)
  BY <1>1, <1>2 DEF Same, Shapes, plans, progress
<1>5. pc'[c] = "sleeping"
  BY <1>1, <1>2 DEF Shapes
<1>6. CallerOK(c)'
  BY <1>1, <1>2, <1>5
     DEF CallerOK, PlanOK, Busy, Provider, Entry, KeysOf, plans, progress
<1> QED
  BY <1>1, <1>2, <1>3, <1>4, <1>5, <1>6, SameStays DEF RouterInv

LEMMA WakeKeeps ==
  ASSUME RouterInv, NEW c \in Callers, Wake(c)
  PROVE  /\ RouterInv' /\ \A d \in Callers \ {c} : Same(d)
         /\ pc[c] = "sleeping" /\ pc'[c] = "sending"
         /\ UNCHANGED <<plans, pos, errors, outcome>>
         /\ LET p == Provider(c)'
            IN  key'[c] \notin disabled[p] \/ KeysOf(p) \subseteq disabled[p]
<1>1. SharedOK /\ Shapes /\ \A d \in Callers : CallerOK(d)
  BY DEF RouterInv
<1>2. /\ pc[c] = "sleeping" /\ attempt' = [attempt EXCEPT ![c] = attempt[c] + 1]
      /\ Send(c, Provider(c), keyIndex)
      /\ UNCHANGED <<disabled, cooldown, penalty, rr_index, plans, pos, errors, all_rate_limited>>
  BY DEF Wake, NextAttempt
<1>3. Busy(c) /\ attempt[c] + 1 \in 0..RetryMax /\ Provider(c) \in Providers /\ Keys[Provider(c)] # <<>>
  <2>1. Busy(c) /\ attempt[c] < RetryMax /\ attempt[c] \in 0..RetryMax
    BY <1>1, <1>2 DEF Busy, CallerOK, Shapes
  <2> QED
    BY <2>1, BusyPlan, BoundsAssumption
<1>p. PICK p \in Providers : p = Provider(c)
  BY <1>3
<1>4. /\ keyIndex' \in RingIndices /\ used' \in [Providers -> Nat] /\ outcome' = outcome
      /\ pc' = [pc EXCEPT ![c] = "sending"]
      /\ key' \in [Callers -> KeyNames \cup {NoKey}]
      /\ \A d \in Callers \ {c} : key'[d] = key[d]
      /\ key'[c] \in KeysOf(p)
      /\ key'[c] \notin disabled[p] \/ KeysOf(p) \subseteq disabled[p]
  BY <1>1, <1>2, <1>3, <1>p, SendDoes DEF SharedOK
<1>5. SharedOK'
  BY <1>1, <1>2, <1>4 DEF SharedOK, RingIndices
<1>6. Shapes'
  BY <1>1, <1>2, <1>3, <1>4 DEF Shapes, plans
<1>7. \A d \in Callers \ {c} : Same(d)
  BY <1>1, <1>2, <1>4 DEF Same, Shapes, plans
<1>8. pc'[c] = "sending" /\ Provider(c)' = p
  BY <1>1, <1>2, <1>4, <1>p DEF Shapes, Provider, Entry, plans
<1>9. CallerOK(c)'
  <2>1. /\ PlanOK(to_try[c], preferred[c]) /\ pos[c] <= Len(to_try[c])
        /\ Len(errors[c]) = pos[c] - 1
        /\ all_rate_limited[c] <=> NoOther(errors[c])
        /\ Len(to_try[c]) > MaxTries =>
             Len(to_try[c]) = MaxTries + 1 /\ ProviderOf[to_try[c][Len(to_try[c])]] = Local
    BY <1>1, <1>3 DEF CallerOK
  <2>2. key'[c] \in KeysOf(Provider(c)')
    BY <1>4, <1>8
  <2> QED
    BY <1>2, <1>8, <2>1, <2>2 DEF CallerOK, PlanOK, Busy, KeysOf, plans
<1> QED
  BY <1>1, <1>2, <1>4, <1>5, <1>6, <1>7, <1>8, <1>9, SameStays DEF RouterInv
-----------------------------------------------------------------------------
(* The clock and the operator touch no caller.                             *)
Environment ==
  \/ CooldownExpires
  \/ \E e \in Entries : PenaltyDecays(e)
  \/ \E p \in Providers : WindowSlides(p)
  \/ \E p \in Toggled : ToggleKey(p)

LEMMA EnvironmentKeeps ==
  ASSUME RouterInv, Environment \/ UNCHANGED vars
  PROVE  RouterInv' /\ UNCHANGED Locals
<1>1. SharedOK /\ Shapes /\ \A d \in Callers : CallerOK(d)
  BY DEF RouterInv
<1>2. UNCHANGED Locals
  BY DEF Environment, CooldownExpires, PenaltyDecays, WindowSlides, ToggleKey, Locals, vars
<1>3. SharedOK'
  <2>1. CASE CooldownExpires
    BY <1>1, <2>1 DEF CooldownExpires, SharedOK, RingIndices
  <2>2. ASSUME NEW e \in Entries, PenaltyDecays(e) PROVE SharedOK'
    BY <1>1, <2>2, BoundsAssumption DEF PenaltyDecays, SharedOK, RingIndices
  <2>3. ASSUME NEW p \in Providers, WindowSlides(p) PROVE SharedOK'
    BY <1>1, <2>3 DEF WindowSlides, SharedOK, RingIndices
  <2>4. ASSUME NEW p \in Toggled, ToggleKey(p) PROVE SharedOK'
    <3>1. p \in Providers /\ Keys[p] \in Seq(KeyNames)
      BY InputsAssumption, RingsAssumed
    <3>2. PICK i \in 1..Len(Keys[p]) :
            disabled' = [disabled EXCEPT ![p] =
              IF Keys[p][i] \in @ THEN @ \ {Keys[p][i]} ELSE @ \cup {Keys[p][i]}]
      BY <2>4 DEF ToggleKey
    <3>3. Keys[p][i] \in KeyNames
      BY <3>1
    <3>4. disabled' \in [Providers -> SUBSET KeyNames]
      BY <1>1, <3>1, <3>2, <3>3 DEF SharedOK
    <3> QED
      BY <1>1, <2>4, <3>4 DEF ToggleKey, SharedOK, RingIndices
  <2>5. CASE UNCHANGED vars
    BY <1>1, <2>5 DEF vars, shared, SharedOK, RingIndices
  <2> QED
    BY <2>1, <2>2, <2>3, <2>4, <2>5 DEF Environment
<1>4. Shapes'
  BY <1>1, <1>2 DEF Shapes, Locals, plans, progress
<1>5. \A d \in Callers : Same(d)
  BY <1>2 DEF Same, Locals, plans, progress
<1> QED
  BY <1>1, <1>2, <1>3, <1>4, <1>5, SameStays DEF RouterInv

(* Every step is one of these.                                             *)
LEMMA Steps ==
  ASSUME [Next]_vars
  PROVE  \/ \E c \in Callers :
              \/ \E m \in Models, pref \in Preferences, down \in Outages, exhausted \in Exhaustions :
                   Start(c, m, pref, down, exhausted) \/ Refuse(c, m, pref, down, exhausted)
              \/ ReplyOk(c) \/ ReplyRaises(c) \/ ReplyRetryLater(c) \/ MovesOn(c) \/ Wake(c)
         \/ Environment \/ UNCHANGED vars
<1>1. CASE \E c \in Callers : Arrive(c) \/ Reply(c) \/ Wake(c)
  BY <1>1 DEF Arrive, Reply, MovesOn
<1> QED
  BY <1>1 DEF Next, Environment

LEMMA StepRouter == RouterInv /\ [Next]_vars => RouterInv'
<1> SUFFICES ASSUME RouterInv, [Next]_vars PROVE RouterInv'
  OBVIOUS
<1>1. ASSUME NEW c \in Callers, MovesOn(c) PROVE RouterInv'
  BY <1>1, MovesOnBy, MoveOnKeeps
<1>2. ASSUME NEW c \in Callers, NEW m \in Models, NEW pref \in Preferences, NEW down \in Outages,
             NEW exhausted \in Exhaustions,
             Start(c, m, pref, down, exhausted) \/ Refuse(c, m, pref, down, exhausted)
      PROVE  RouterInv'
  BY <1>2, StartKeeps, RefuseKeeps
<1>3. ASSUME NEW c \in Callers,
             ReplyOk(c) \/ ReplyRaises(c) \/ ReplyRetryLater(c) \/ Wake(c)
      PROVE  RouterInv'
  BY <1>3, EndingKeeps, RetryLaterKeeps, WakeKeeps
<1>4. ASSUME Environment \/ UNCHANGED vars PROVE RouterInv'
  BY <1>4, EnvironmentKeeps
<1> QED
  BY <1>1, <1>2, <1>3, <1>4, Steps
-----------------------------------------------------------------------------
(* The variables have their types, and the local provider is asked last,   *)
(* whatever the chains are (route_request, _select_provider).              *)
THEOREM RouterTypes == SafetySpec => [](TypeOK /\ LocalIsLastResort)
<1>1. RouterInv => TypeOK /\ LocalIsLastResort
  BY InvImpliesTypes, InvImpliesLastResort
<1> QED
  BY <1>1, InitRouter, StepRouter, PTL DEF SafetySpec

(* A request that fails has tried its whole plan, and fails as rate        *)
(* limited, which is what sends it to the queue, exactly when each of its  *)
(* entries failed with a 429 or a timeout (the end of route_request).      *)
THEOREM FailuresAreHonest == SafetySpec => []FailureIsHonest
  BY InitRouter, StepRouter, InvImpliesHonest, PTL DEF SafetySpec
-----------------------------------------------------------------------------
(* What one caller's step leaves of the plans.                             *)
PlansApart == \A c \in Callers : Apart(to_try[c])

LEMMA StepPlansApart ==
  ASSUME RouterInv, PlansApart, [Next]_vars, \A m \in Models : Apart(Chain[m])
  PROVE  PlansApart'
<1>1. ASSUME NEW c \in Callers, \A d \in Callers \ {c} : Same(d), Apart(to_try'[c])
      PROVE  PlansApart'
  BY <1>1 DEF PlansApart, Same
<1>2. ASSUME NEW c \in Callers, MovesOn(c) PROVE PlansApart'
  <2>1. (\A d \in Callers \ {c} : Same(d)) /\ to_try'[c] = to_try[c]
    BY <1>2, MovesOnBy, MoveOnKeeps
  <2> QED
    BY <1>1, <2>1 DEF PlansApart
<1>3. ASSUME NEW c \in Callers, NEW m \in Models, NEW pref \in Preferences, NEW down \in Outages,
             NEW exhausted \in Exhaustions,
             Start(c, m, pref, down, exhausted) \/ Refuse(c, m, pref, down, exhausted)
      PROVE  PlansApart'
  <2>1. Apart(<<>>)
    BY DEF Apart
  <2>2. (\A d \in Callers \ {c} : Same(d)) /\ Apart(to_try'[c])
    BY <1>3, <2>1, StartKeeps, RefuseKeeps
  <2> QED
    BY <1>1, <2>2
<1>4. ASSUME NEW c \in Callers,
             ReplyOk(c) \/ ReplyRaises(c) \/ ReplyRetryLater(c) \/ Wake(c)
      PROVE  PlansApart'
  <2>1. to_try' = to_try
    BY <1>4 DEF ReplyOk, ReplyRaises, ReplyRetryLater, Wake, plans
  <2> QED
    BY <2>1 DEF PlansApart
<1>5. ASSUME Environment \/ UNCHANGED vars PROVE PlansApart'
  BY <1>5, EnvironmentKeeps DEF Locals, plans, PlansApart
<1> QED
  BY <1>2, <1>3, <1>4, <1>5, Steps

LEMMA InvImpliesSound == RouterInv /\ PlansApart => PlansAreSound
<1> SUFFICES ASSUME RouterInv, PlansApart PROVE PlansAreSound
  OBVIOUS
<1>1. EachEntryOnce
  BY DEF RouterInv, CallerOK, PlansApart, Apart, EachEntryOnce
<1> QED
  BY <1>1, InvImpliesTypes, InvImpliesLastResort DEF PlansAreSound

(* Where no chain names an entry twice, no plan does: sorting the          *)
(* candidates, turning them and cutting the plan loses none that was to be *)
(* kept, and the plan is gone through in order (_select_provider).         *)
THEOREM PlansStaySound ==
  ASSUME \A m \in Models : Apart(Chain[m])
  PROVE  SafetySpec => []PlansAreSound
<1>1. Init => PlansApart
  BY DEF Init, PlansApart, Apart
<1>2. RouterInv /\ PlansApart /\ [Next]_vars => RouterInv' /\ PlansApart'
  BY StepRouter, StepPlansApart
<1> QED
  BY <1>1, <1>2, InitRouter, InvImpliesSound, PTL DEF SafetySpec
-----------------------------------------------------------------------------
LEMMA StepUsesEnabledKey ==
  ASSUME RouterInv, [Next]_vars, NEW c \in Callers, NewSend(c)
  PROVE  LET p == Provider(c)'
         IN  key'[c] \notin disabled[p] \/ KeysOf(p) \subseteq disabled[p]
<1>1. ~Same(c)
  BY DEF NewSend, Same
<1>2. ASSUME NEW d \in Callers, MovesOn(d)
      PROVE  LET p == Provider(c)'
             IN  key'[c] \notin disabled[p] \/ KeysOf(p) \subseteq disabled[p]
  <2>1. c = d
    BY <1>1, <1>2, MovesOnBy, MoveOnKeeps
  <2>2. pc'[c] # "idle"
    BY DEF NewSend
  <2> QED
    BY <1>2, <2>1, <2>2, MovesOnBy, MoveOnKeeps
<1>3. ASSUME NEW d \in Callers, NEW m \in Models, NEW pref \in Preferences, NEW down \in Outages,
             NEW exhausted \in Exhaustions,
             Start(d, m, pref, down, exhausted) \/ Refuse(d, m, pref, down, exhausted)
      PROVE  LET p == Provider(c)'
             IN  key'[c] \notin disabled[p] \/ KeysOf(p) \subseteq disabled[p]
  <2>1. c = d /\ pc'[c] # "idle"
    BY <1>1, <1>3, StartKeeps, RefuseKeeps DEF NewSend
  <2> QED
    BY <1>3, <2>1, StartKeeps, RefuseKeeps
<1>4. ASSUME NEW d \in Callers,
             ReplyOk(d) \/ ReplyRaises(d) \/ ReplyRetryLater(d) \/ Wake(d)
      PROVE  LET p == Provider(c)'
             IN  key'[c] \notin disabled[p] \/ KeysOf(p) \subseteq disabled[p]
  <2>1. c = d /\ pc'[c] = "sending"
    BY <1>1, <1>4, EndingKeeps, RetryLaterKeeps, WakeKeeps DEF NewSend
  <2>2. Wake(d)
    BY <1>4, <2>1, EndingKeeps, RetryLaterKeeps
  <2> QED
    BY <2>1, <2>2, WakeKeeps
<1>5. ~(Environment \/ UNCHANGED vars)
  BY <1>1, EnvironmentKeeps DEF Locals, plans, progress, Same
<1> QED
  BY <1>2, <1>3, <1>4, <1>5, Steps

(* Whatever the others and the operator did to the ring meanwhile, every   *)
(* request goes out with a key that is not disabled, unless all are        *)
(* (api_key, read by send_to_provider after the limiter has counted).      *)
THEOREM EnabledKeysAreUsed == SafetySpec => UsesEnabledKey
<1>1. RouterInv /\ [Next]_vars =>
        [\A c \in Callers : NewSend(c) =>
           LET p == Provider(c)'
           IN  key'[c] \notin disabled[p] \/ KeysOf(p) \subseteq disabled[p]]_vars
  BY StepUsesEnabledKey
<1> QED
  BY <1>1, InitRouter, StepRouter, PTL DEF SafetySpec, UsesEnabledKey
-----------------------------------------------------------------------------
(* Only a 429 adds "rate_limited" to the errors of a caller.               *)
LEMMA OnlyRepliesLimit ==
  ASSUME RouterInv, [Next]_vars, NEW c \in Callers, RateLimited(c)
  PROVE  /\ pc[c] = "sending"
         /\ \/ keyIndex' = Cooled(c)
            \/ \E q \in Providers :
                 /\ Keys[q] # <<>>
                 /\ keyIndex'[q] = Settled(Keys[q], disabled[q], Cooled(c)[q])
                 /\ \A r \in Providers \ {q} : keyIndex'[r] = Cooled(c)[r]
<1>1. errors[c] \in Seq(Failures) /\ Len(errors[c]) \in Nat /\ Len(errors'[c]) = Len(errors[c]) + 1
  BY LenProperties DEF RouterInv, Shapes, RateLimited
<1>2. errors'[c] # errors[c] /\ errors'[c] # <<>> /\ ~Same(c)
  BY <1>1 DEF Same
<1>3. PICK d \in Callers : MovesOn(d)
  <2>1. ~(Environment \/ UNCHANGED vars)
    BY <1>2, EnvironmentKeeps DEF Locals, plans, progress, Same
  <2>2. ASSUME NEW d \in Callers, NEW m \in Models, NEW pref \in Preferences,
               NEW down \in Outages, NEW exhausted \in Exhaustions,
               Start(d, m, pref, down, exhausted) \/ Refuse(d, m, pref, down, exhausted)
        PROVE  FALSE
    BY <1>2, <2>2, StartKeeps, RefuseKeeps
  <2>3. ASSUME NEW d \in Callers,
               ReplyOk(d) \/ ReplyRaises(d) \/ ReplyRetryLater(d) \/ Wake(d)
        PROVE  FALSE
    BY <1>2, <2>3 DEF ReplyOk, ReplyRaises, ReplyRetryLater, Wake, progress
  <2> QED
    BY <2>1, <2>2, <2>3, Steps
<1>4. PICK why \in Failures, index \in RingIndices :
        /\ MoveOn(d, why, index) /\ (why = "rate_limited" => index = Cooled(d))
        /\ pc[d] = "sending" /\ penalty' \in [Entries -> 0..MaxPenalty]
        /\ cooldown' \in SUBSET (Entries \X KeyNames)
  BY <1>3, MovesOnBy
<1>5. d = c
  BY <1>2, <1>4, MoveOnKeeps
<1>6. errors'[c] = Append(errors[c], why)
  BY <1>4, <1>5, MoveOnKeeps
<1>7. index = Cooled(c)
  BY <1>1, <1>4, <1>5, <1>6, OneMoreError DEF RateLimited
<1> QED
  BY <1>4, <1>5, <1>7, MoveOnKeeps

LEMMA StepRotates ==
  ASSUME RouterInv, [Next]_vars, NEW c \in Callers, RateLimited(c),
         \A p \in Providers : \A h, j \in 1..Len(Keys[p]) : Keys[p][h] = Keys[p][j] => h = j,
         ~(KeysOf(Provider(c)) \ {KeyAt(Keys[Provider(c)], keyIndex[Provider(c)])}
             \subseteq disabled[Provider(c)])
  PROVE  KeyAt(Keys[Provider(c)], keyIndex'[Provider(c)])
           # KeyAt(Keys[Provider(c)], keyIndex[Provider(c)])
<1> DEFINE p == Provider(c)
           ring == Keys[p]
           off == disabled[p]
           k == Rotated(ring, off, keyIndex[p])
<1>1. pc[c] = "sending" /\ Busy(c)
  BY OnlyRepliesLimit DEF Busy
<1>2. p \in Providers /\ ring # <<>> /\ IsRing(ring) /\ keyIndex \in RingIndices
      /\ keyIndex[p] \in Indices(ring)
  BY <1>1, BusyPlan, RingsAssumed, RingIndicesWithin DEF RouterInv, SharedOK
<1> HIDE DEF p
<1>3. PICK j \in 1..Len(ring) : ring[j] \notin off /\ ring[j] # KeyAt(ring, keyIndex[p])
  BY DEF KeysOf, p
<1>4. Len(ring) > 1
  <2>1. keyIndex[p] + 1 \in 1..Len(ring) /\ KeyAt(ring, keyIndex[p]) = ring[keyIndex[p] + 1]
    BY <1>2, KeyIsOfRing
  <2>2. j # keyIndex[p] + 1 /\ Len(ring) \in Nat /\ keyIndex[p] \in Nat
    BY <1>2, <1>3, <2>1, RingsAssumed DEF RingIndices
  <2> QED
    BY <2>1, <2>2
<1>5. \A h, l \in 1..Len(ring) : ring[h] = ring[l] => h = l
  BY <1>2
<1>6. KeyAt(ring, k) # KeyAt(ring, keyIndex[p]) /\ KeyAt(ring, k) \notin off
  BY <1>2, <1>3, <1>4, <1>5, RotationLeaves
<1>7. k \in Indices(ring)
  BY <1>2, <1>4, RotatedWithin
<1>8. RotatedIndex(p)[p] = k
  BY <1>2, <1>4 DEF RotatedIndex, RingIndices
<1>9. RotatedIndex(p) \in RingIndices
  BY <1>2, RotatedIndexWithin DEF RouterInv
<1> HIDE DEF k
<1>10. Settled(ring, off, k) = k
  BY <1>2, <1>6, <1>7, EnabledStays
<1>11. Cooled(c)[p] = k
  BY <1>2, <1>8, <1>9, <1>10 DEF Cooled, RingIndices, p
<1>12. keyIndex'[p] = k
  BY <1>2, <1>10, <1>11, OnlyRepliesLimit
<1> QED
  BY <1>6, <1>12 DEF p

(* Where no ring has a key twice: when a provider reports its rate limit   *)
(* on the key its ring is at, the ring moves to another key if another one *)
(* is enabled, whatever the others and the operator did to it (rotate_key  *)
(* and api_key, as route_request calls them after a 429).                  *)
THEOREM RotationLeavesTheLimited ==
  ASSUME \A p \in Providers : \A h, j \in 1..Len(Keys[p]) : Keys[p][h] = Keys[p][j] => h = j
  PROVE  SafetySpec => RotationLeavesLimitedKey
<1>1. RouterInv /\ [Next]_vars =>
        [\A c \in Callers : RateLimited(c) =>
           LET p == Provider(c)
               current == KeyAt(Keys[p], keyIndex[p])
           IN  current = key[c] /\ ~(KeysOf(p) \ {current} \subseteq disabled[p]) =>
                 KeyAt(Keys[p], keyIndex'[p]) # current]_vars
  BY StepRotates
<1> QED
  BY <1>1, InitRouter, StepRouter, PTL DEF SafetySpec, RotationLeavesLimitedKey
-----------------------------------------------------------------------------
(* How Failover sees the callers.                                          *)
Todo == [c \in Callers |-> IF Busy(c) THEN pos[c]..Len(to_try[c]) ELSE {}]
Final == [c \in Callers |->
           IF Busy(c) /\ preferred[c] # Local
             THEN {i \in 1..Len(to_try[c]) : ProviderOf[to_try[c][i]] = Local}
             ELSE {}]
Stage == [c \in Callers |->
            CASE Busy(c) -> "trying"
              [] ~Busy(c) /\ outcome[c] = "none" -> "idle"
              [] ~Busy(c) /\ outcome[c] = "ok" -> "served"
              [] ~Busy(c) /\ outcome[c] = "ValueError" -> "refused"
              [] ~Busy(c) /\ outcome[c] = "escaped" -> "broken"
              [] OTHER -> "failed"]

LEMMA StageIs ==
  ASSUME NEW c \in Callers
  PROVE  /\ Busy(c) <=> Stage[c] = "trying"
         /\ ~Busy(c) /\ outcome[c] = "none" => Stage[c] = "idle"
         /\ ~Busy(c) /\ outcome[c] = "ok" => Stage[c] = "served"
         /\ ~Busy(c) /\ outcome[c] = "ValueError" => Stage[c] = "refused"
         /\ ~Busy(c) /\ outcome[c] = "escaped" => Stage[c] = "broken"
         /\ ~Busy(c) /\ outcome[c] \in {"AllRateLimitedError", "RuntimeError"} =>
              Stage[c] = "failed"
  BY DEF Stage

LEMMA SameIsSeenSame ==
  ASSUME NEW c \in Callers, Same(c)
  PROVE  Todo'[c] = Todo[c] /\ Final'[c] = Final[c] /\ Stage'[c] = Stage[c]
<1>1. Busy(c)' <=> Busy(c)
  BY DEF Busy, Same
<1> QED
  BY <1>1 DEF Same, Todo, Final, Stage

LEMMA OneIsSeen ==
  ASSUME NEW c \in Callers, \A d \in Callers \ {c} : Same(d)
  PROVE  /\ Todo' = [Todo EXCEPT ![c] = Todo'[c]]
         /\ Final' = [Final EXCEPT ![c] = Final'[c]]
         /\ Stage' = [Stage EXCEPT ![c] = Stage'[c]]
<1>1. \A d \in Callers \ {c} :
        Todo'[d] = Todo[d] /\ Final'[d] = Final[d] /\ Stage'[d] = Stage[d]
  BY SameIsSeenSame
<1>2. /\ Todo = [d \in Callers |-> Todo[d]] /\ Todo' = [d \in Callers |-> Todo'[d]]
      /\ Final = [d \in Callers |-> Final[d]] /\ Final' = [d \in Callers |-> Final'[d]]
      /\ Stage = [d \in Callers |-> Stage[d]] /\ Stage' = [d \in Callers |-> Stage'[d]]
  BY DEF Todo, Final, Stage
<1> QED
  BY <1>1, <1>2

LEMMA StageBecomes ==
  ASSUME NEW c \in Callers
  PROVE  /\ pc'[c] # "idle" => Stage'[c] = "trying"
         /\ pc'[c] = "idle" =>
              /\ Todo'[c] = {} /\ Final'[c] = {}
              /\ outcome'[c] = "ok" => Stage'[c] = "served"
              /\ outcome'[c] = "ValueError" => Stage'[c] = "refused"
              /\ outcome'[c] = "escaped" => Stage'[c] = "broken"
              /\ outcome'[c] \in {"AllRateLimitedError", "RuntimeError"} =>
                   Stage'[c] = "failed"
  BY DEF Stage, Todo, Final, Busy

(* The current entry of a request may be tried.                            *)
LEMMA MayTryCurrent ==
  ASSUME RouterInv, NEW c \in Callers, Busy(c)
  PROVE  /\ pos[c] \in Todo[c] /\ Todo[c] = pos[c]..Len(to_try[c]) /\ Stage[c] = "trying"
         /\ pos[c] \in Final[c] => Todo[c] \subseteq Final[c]
<1>1. pos[c] \in 1..Len(to_try[c]) /\ Len(to_try[c]) \in Nat
  BY BusyPlan
<1>2. preferred[c] # Local => LocalsLast(to_try[c])
  BY DEF RouterInv, CallerOK, PlanOK
<1>3. Todo[c] = pos[c]..Len(to_try[c])
  BY DEF Todo
<1>4. ASSUME pos[c] \in Final[c], NEW i \in Todo[c]
      PROVE  i \in Final[c]
  <2>1. preferred[c] # Local /\ ProviderOf[to_try[c][pos[c]]] = Local
    BY <1>4 DEF Final
  <2>2. i \in 1..Len(to_try[c]) /\ pos[c] <= i
    BY <1>1, <1>3, <1>4
  <2>3. ProviderOf[to_try[c][i]] = Local
    BY <1>1, <1>2, <2>1, <2>2 DEF LocalsLast
  <2> QED
    BY <2>1, <2>2, <2>3 DEF Final
<1> QED
  BY <1>1, <1>3, <1>4, StageIs

LEMMA PromisedEnd ==
  ASSUME RouterInv, NEW c \in Callers, Busy(c), \A d \in Callers \ {c} : Same(d),
         pc'[c] = "idle", outcome'[c] \in {"ok", "escaped"}
  PROVE  Promise!Next
<1>1. /\ Todo' = [Todo EXCEPT ![c] = {}] /\ Final' = [Final EXCEPT ![c] = {}]
      /\ outcome'[c] = "ok" => Stage' = [Stage EXCEPT ![c] = "served"]
      /\ outcome'[c] = "escaped" => Stage' = [Stage EXCEPT ![c] = "broken"]
  BY OneIsSeen, StageBecomes
<1>2. /\ pos[c] \in Todo[c] /\ Stage[c] = "trying"
      /\ pos[c] \in Final[c] => Todo[c] \subseteq Final[c]
  BY MayTryCurrent
<1>3. CASE outcome'[c] = "ok"
  <2>1. Promise!Serve(c)
    BY <1>1, <1>2, <1>3
       DEF Promise!Serve, Promise!MayTry, Promise!Close, Todo, Final, Stage
  <2> QED
    BY <2>1 DEF Promise!Next
<1>4. CASE outcome'[c] = "escaped"
  <2>1. Promise!Break(c)
    BY <1>1, <1>2, <1>4 DEF Promise!Break, Promise!Close, Todo, Final, Stage
  <2> QED
    BY <2>1 DEF Promise!Next
<1> QED
  BY <1>3, <1>4

LEMMA PromisedFailure ==
  ASSUME RouterInv, NEW c \in Callers, MovesOn(c)
  PROVE  Promise!Next
<1>1. PICK why \in Failures, index \in RingIndices :
        /\ pc[c] = "sending" /\ MoveOn(c, why, index)
        /\ penalty' \in [Entries -> 0..MaxPenalty]
        /\ cooldown' \in SUBSET (Entries \X KeyNames)
  BY MovesOnBy
<1>2. /\ \A d \in Callers \ {c} : Same(d)
      /\ to_try'[c] = to_try[c]
      /\ \/ /\ pos[c] < Len(to_try[c]) /\ pos'[c] = pos[c] + 1
            /\ pc'[c] = "sending" /\ preferred'[c] = preferred[c]
         \/ /\ pos[c] = Len(to_try[c]) /\ pc'[c] = "idle"
            /\ outcome'[c] \in {"AllRateLimitedError", "RuntimeError"}
  BY <1>1, MoveOnKeeps
<1>3. Busy(c)
  BY <1>1 DEF Busy
<1>4. /\ pos[c] \in Todo[c] /\ Todo[c] = pos[c]..Len(to_try[c]) /\ Stage[c] = "trying"
      /\ pos[c] \in Final[c] => Todo[c] \subseteq Final[c]
  BY <1>3, MayTryCurrent
<1>5. pos[c] \in 1..Len(to_try[c]) /\ Len(to_try[c]) \in Nat
  BY <1>3, BusyPlan
<1>6. /\ Todo' = [Todo EXCEPT ![c] = Todo'[c]]
      /\ Final' = [Final EXCEPT ![c] = Final'[c]]
      /\ Stage' = [Stage EXCEPT ![c] = Stage'[c]]
  BY <1>2, OneIsSeen
<1>7. CASE pos[c] < Len(to_try[c])
  <2>1. /\ pos'[c] = pos[c] + 1 /\ pc'[c] = "sending" /\ preferred'[c] = preferred[c]
    BY <1>2, <1>5, <1>7
  <2>2. Busy(c)'
    BY <2>1 DEF Busy
  <2>3. Todo'[c] = (pos[c] + 1)..Len(to_try[c])
    BY <1>2, <2>1, <2>2 DEF Todo
  <2>4. Todo'[c] = Todo[c] \ {pos[c]} /\ Todo[c] # {pos[c]}
    <3>1. Len(to_try[c]) \in Todo[c] /\ Len(to_try[c]) # pos[c]
      BY <1>4, <1>5, <1>7
    <3> QED
      BY <1>4, <1>5, <2>3, <3>1
  <2>5. Final'[c] = Final[c] /\ Stage'[c] = Stage[c]
    <3>1. Final'[c] = Final[c]
      BY <1>2, <1>3, <2>1, <2>2 DEF Final
    <3>2. Stage'[c] = "trying"
      BY <2>1, StageBecomes
    <3> QED
      BY <1>4, <3>1, <3>2
  <2>6. /\ Final = [d \in Callers |-> Final[d]] /\ Stage = [d \in Callers |-> Stage[d]]
    BY DEF Final, Stage
  <2>7. Todo' = [Todo EXCEPT ![c] = Todo[c] \ {pos[c]}] /\ Final' = Final /\ Stage' = Stage
    BY <1>6, <2>4, <2>5, <2>6
  <2>8. Promise!Fail(c)
    BY <1>4, <2>4, <2>7 DEF Promise!Fail, Promise!MayTry, Todo, Final, Stage
  <2> QED
    BY <2>8 DEF Promise!Next
<1>8. CASE pos[c] = Len(to_try[c])
  <2>1. pc'[c] = "idle" /\ outcome'[c] \in {"AllRateLimitedError", "RuntimeError"}
    BY <1>2, <1>5, <1>8
  <2>2. Todo'[c] = {} /\ Final'[c] = {} /\ Stage'[c] = "failed"
    BY <2>1, StageBecomes
  <2>3. Todo[c] = {pos[c]}
    BY <1>4, <1>5, <1>8
  <2>4. Promise!Close(c, "failed")
    BY <1>6, <2>2 DEF Promise!Close, Todo, Final, Stage
  <2>5. Promise!Fail(c)
    BY <1>4, <2>3, <2>4 DEF Promise!Fail, Promise!MayTry, Todo, Final, Stage
  <2> QED
    BY <2>5 DEF Promise!Next
<1> QED
  BY <1>5, <1>7, <1>8

LEMMA PromisedStart ==
  ASSUME RouterInv, NEW c \in Callers, NEW m \in Models, NEW pref \in Preferences,
         NEW down, NEW exhausted,
         Start(c, m, pref, down, exhausted) \/ Refuse(c, m, pref, down, exhausted)
  PROVE  Promise!Next
<1>1. pc[c] = "idle" /\ Stage[c] # "trying"
  BY StageIs DEF Start, Refuse, Busy
<1>2. \A d \in Callers \ {c} : Same(d)
  BY StartKeeps, RefuseKeeps
<1>3. /\ Todo' = [Todo EXCEPT ![c] = Todo'[c]]
      /\ Final' = [Final EXCEPT ![c] = Final'[c]]
      /\ Stage' = [Stage EXCEPT ![c] = Stage'[c]]
  BY <1>2, OneIsSeen
<1>4. CASE Refuse(c, m, pref, down, exhausted)
  <2>1. Todo'[c] = {} /\ Final'[c] = {} /\ Stage'[c] = "refused"
    BY <1>4, RefuseKeeps, StageBecomes
  <2>2. Promise!Refuse(c)
    BY <1>1, <1>3, <2>1 DEF Promise!Refuse, Promise!Close, Todo, Final, Stage
  <2> QED
    BY <2>2 DEF Promise!Next
<1>5. CASE Start(c, m, pref, down, exhausted)
  <2>1. RouterInv' /\ pc'[c] = "sending" /\ pos'[c] = 1 /\ to_try'[c] # <<>>
    BY <1>5, StartKeeps
  <2>2. to_try'[c] \in Seq(Entries) /\ CallerOK(c)' /\ Busy(c)'
    BY <2>1 DEF RouterInv, Shapes, Busy
  <2>3. Len(to_try'[c]) \in Nat \ {0}
    BY <2>1, <2>2, EmptySeq, LenProperties
  <2>4. Len(to_try'[c]) <= MaxTries + 1
    BY <2>2, <2>3, BoundsAssumption DEF CallerOK
  <2>5. Todo'[c] = 1..Len(to_try'[c])
    BY <2>1, <2>2 DEF Todo
  <2>6. Todo'[c] \in (SUBSET (1..(MaxTries + 1))) \ {{}}
    <3>1. 1 \in 1..Len(to_try'[c]) /\ \A n \in 1..Len(to_try'[c]) : n \in 1..(MaxTries + 1)
      BY <2>3, <2>4, BoundsAssumption
    <3> QED
      BY <2>5, <3>1
  <2>7. Final'[c] \subseteq Todo'[c]
    BY <2>5 DEF Final
  <2>8. Final'[c] \in SUBSET (1..(MaxTries + 1))
    BY <2>6, <2>7
  <2>9. Stage'[c] = "trying"
    BY <2>1, StageBecomes
  <2>10. Promise!Begin(c)
    <3>1. PICK S \in (SUBSET (1..(MaxTries + 1))) \ {{}}, L \in SUBSET (1..(MaxTries + 1)) :
            L \subseteq S /\ S = Todo'[c] /\ L = Final'[c]
      BY <2>6, <2>7, <2>8
    <3>2. Todo' = [Todo EXCEPT ![c] = S] /\ Final' = [Final EXCEPT ![c] = L]
          /\ Stage' = [Stage EXCEPT ![c] = "trying"]
      BY <1>3, <2>9, <3>1
    <3> QED
      BY <1>1, <3>1, <3>2 DEF Promise!Begin, Todo, Final, Stage
  <2> QED
    BY <2>10 DEF Promise!Next
<1> QED
  BY <1>4, <1>5

LEMMA PromisedStutter ==
  ASSUME \A d \in Callers : Todo'[d] = Todo[d] /\ Final'[d] = Final[d] /\ Stage'[d] = Stage[d]
  PROVE  UNCHANGED Promise!fvars
<1>1. Todo' = Todo /\ Final' = Final /\ Stage' = Stage
  <2>1. /\ Todo = [d \in Callers |-> Todo[d]] /\ Todo' = [d \in Callers |-> Todo'[d]]
        /\ Final = [d \in Callers |-> Final[d]] /\ Final' = [d \in Callers |-> Final'[d]]
        /\ Stage = [d \in Callers |-> Stage[d]] /\ Stage' = [d \in Callers |-> Stage'[d]]
    BY DEF Todo, Final, Stage
  <2> QED
    BY <2>1
<1> QED
  BY <1>1 DEF Promise!fvars, Todo, Final, Stage

LEMMA PromisedStep == RouterInv /\ [Next]_vars => [Promise!Next]_(Promise!fvars)
<1> SUFFICES ASSUME RouterInv, [Next]_vars
             PROVE  Promise!Next \/ UNCHANGED Promise!fvars
  OBVIOUS
<1>1. ASSUME NEW c \in Callers, MovesOn(c) PROVE Promise!Next
  BY <1>1, PromisedFailure
<1>2. ASSUME NEW c \in Callers, NEW m \in Models, NEW pref \in Preferences, NEW down \in Outages,
             NEW exhausted \in Exhaustions,
             Start(c, m, pref, down, exhausted) \/ Refuse(c, m, pref, down, exhausted)
      PROVE  Promise!Next
  BY <1>2, PromisedStart
<1>3. ASSUME NEW c \in Callers, ReplyOk(c) \/ ReplyRaises(c) PROVE Promise!Next
  <2>1. /\ \A d \in Callers \ {c} : Same(d)
        /\ pc[c] = "sending" /\ pc'[c] = "idle" /\ outcome'[c] \in {"ok", "escaped"}
    BY <1>3, EndingKeeps
  <2> QED
    BY <2>1, PromisedEnd DEF Busy
<1>4. ASSUME NEW c \in Callers, ReplyRetryLater(c) \/ Wake(c)
      PROVE  UNCHANGED Promise!fvars
  <2>1. /\ \A d \in Callers \ {c} : Same(d)
        /\ Busy(c) /\ Busy(c)' /\ pos' = pos /\ to_try' = to_try /\ preferred' = preferred
    BY <1>4, RetryLaterKeeps, WakeKeeps DEF Busy, progress, plans
  <2>2. Todo'[c] = Todo[c] /\ Final'[c] = Final[c] /\ Stage'[c] = Stage[c]
    BY <2>1, StageIs, StageBecomes DEF Todo, Final, Busy
  <2>3. \A d \in Callers : Todo'[d] = Todo[d] /\ Final'[d] = Final[d] /\ Stage'[d] = Stage[d]
    BY <2>1, <2>2, SameIsSeenSame
  <2> QED
    BY <2>3, PromisedStutter
<1>5. ASSUME Environment \/ UNCHANGED vars
      PROVE  UNCHANGED Promise!fvars
  <2>1. \A d \in Callers : Same(d)
    BY <1>5, EnvironmentKeeps DEF Locals, plans, progress, Same
  <2> QED
    BY <2>1, SameIsSeenSame, PromisedStutter
<1> QED
  BY <1>1, <1>2, <1>3, <1>4, <1>5, Steps

LEMMA PromisedInit == Init => Promise!Init
<1> SUFFICES ASSUME Init PROVE Promise!Init
  OBVIOUS
<1>1. \A c \in Callers : ~Busy(c) /\ outcome[c] = "none"
  BY DEF Init, Busy
<1>2. \A c \in Callers : Stage[c] = "idle" /\ Todo[c] = {} /\ Final[c] = {}
  BY <1>1, StageIs DEF Todo, Final
<1>3. /\ Todo = [c \in Callers |-> Todo[c]] /\ Final = [c \in Callers |-> Final[c]]
      /\ Stage = [c \in Callers |-> Stage[c]]
  BY DEF Todo, Final, Stage
<1>4. /\ Todo = [c \in Callers |-> {}] /\ Final = [c \in Callers |-> {}]
      /\ Stage = [c \in Callers |-> "idle"]
  BY <1>2, <1>3
<1> QED
  BY <1>4 DEF Promise!Init, Todo, Final, Stage

(* Routing implements the safety part of Failover: the candidates of a     *)
(* request are tried one after the other, those of last resort when no     *)
(* other is left, and it fails only when each of them has (route_request). *)
THEOREM RoutingFailsOver == SafetySpec => Promise!SafetySpec
  BY InitRouter, StepRouter, PromisedInit, PromisedStep, PTL
     DEF SafetySpec, Promise!SafetySpec
==============================================================================
