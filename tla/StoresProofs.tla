---------------------------- MODULE StoresProofs ----------------------------
(***************************************************************************)
(* Theorems about the keys of providers and the checks of them (KeyHealth),*)
(* the files behind them (KeyStores), models.yaml and the scripts that     *)
(* write it (ModelFiles) and the models of a running gateway (Catalog),    *)
(* for any keys, checks, runs, providers, models and bounds.               *)
(***************************************************************************)
EXTENDS MCStores, CredentialProofs

(* The initial lists, flags and counters have their types.                 *)
LEMMA InitTyped == Init => TypeOK
<1> SUFFICES ASSUME Init PROVE TypeOK
  OBVIOUS
<1>1. meddled \in BOOLEAN
  BY DEF Init
<1>2. /\ api_keys \in Seq(Keys) /\ Len(api_keys) <= MaxKeys
      /\ runtime \in Seq(Keys) /\ Len(runtime) <= MaxKeys
      /\ encrypted \in Seq(Keys) /\ Len(encrypted) <= MaxKeys
  BY EnvKeysAssumption, ThresholdAssumption DEF Init
<1>3. /\ slot \in [Checks -> Indices] /\ testing \in [Checks -> Keys \cup {NoKey}]
      /\ failures \in [Indices -> 0..Threshold] /\ strikes \in [Indices -> 0..Threshold]
      /\ flag \in [Indices -> BOOLEAN]
  BY ThresholdAssumption DEF Init, Indices
<1> QED
  BY <1>1, <1>2, <1>3 DEF Init, TypeOK

(* What an answer about key k, counted at index i, does to the histories.  *)
LEMMA RecordedIs ==
  ASSUME TypeOK, NEW i \in Indices, NEW k \in Keys, NEW n \in 0..Threshold, Recorded(i, k, n)
  PROVE  /\ strikes' \in [Indices -> 0..Threshold] /\ tainted' \subseteq Indices
         /\ \A j \in Indices : j # i => strikes'[j] = strikes[j] /\ (j \in tainted' <=> j \in tainted)
         /\ i \notin tainted' => Listed(api_keys, i) = k /\ strikes'[i] = n
         /\ i \notin tainted' /\ n # 0 => i \notin tainted
BY DEF TypeOK, Recorded

(* A check under way and its answer (check_key).                           *)
LEMMA AnsweredTypes ==
  ASSUME TypeOK, NEW t \in Checks, testing[t] # NoKey
  PROVE  testing[t] \in Keys /\ slot[t] \in Indices /\ failures[slot[t]] \in 0..Threshold
         /\ OneMore(failures[slot[t]]) \in 0..Threshold /\ OneMore(strikes[slot[t]]) \in 0..Threshold
         /\ 0 \in 0..Threshold /\ OneMore(strikes[slot[t]]) # 0
BY ThresholdAssumption DEF TypeOK, OneMore

(* Starting a check and recording its answer keep the types (check_key).   *)
LEMMA CheckKeepsTypes ==
  ASSUME TypeOK, NEW t \in Checks, Check(t) PROVE TypeOK'
<1>0. ASSUME Finish(t)
      PROVE  /\ testing' \in [Checks -> Keys \cup {NoKey}] /\ slot' \in [Checks -> Indices]
             /\ undercut' \subseteq Checks
  BY <1>0, ThresholdAssumption DEF Finish, TypeOK, Indices
<1>1. CASE \E i \in DOMAIN api_keys : StartCheck(t, i)
  <2>1. PICK i \in DOMAIN api_keys : StartCheck(t, i)
    BY <1>1
  <2>2. /\ api_keys \in Seq(Keys) /\ i \in 1..Len(api_keys)
        /\ Len(api_keys) \in Nat /\ Len(api_keys) <= MaxKeys /\ MaxKeys \in Nat
    BY SMTT(30), ThresholdAssumption DEF TypeOK
  <2>3. i \in Indices /\ api_keys[i] \in Keys
    BY <2>2 DEF Indices
  <2>4. testing' \in [Checks -> Keys \cup {NoKey}] /\ slot' \in [Checks -> Indices]
    BY <2>1, <2>3 DEF StartCheck, TypeOK
  <2>5. QED
    BY <2>1, <2>4 DEF StartCheck, TypeOK, keyLists, health, histories
<1>2. CASE ReplyHealthy(t)
  <2>1. testing[t] \in Keys /\ slot[t] \in Indices /\ 0 \in 0..Threshold
    BY <1>2, AnsweredTypes DEF ReplyHealthy
  <2>2. strikes' \in [Indices -> 0..Threshold] /\ tainted' \subseteq Indices
    BY <1>2, <2>1, RecordedIs DEF ReplyHealthy
  <2>3. failures' \in [Indices -> 0..Threshold]
    BY <1>2, <2>1 DEF ReplyHealthy, Forgiven, TypeOK
  <2>4. flag' \in [Indices -> BOOLEAN] /\ disabled_keys' \in SUBSET Keys
    <3>1. \/ disabled_keys' = disabled_keys \ {testing[t]} /\ flag' = [flag EXCEPT ![slot[t]] = FALSE]
          \/ disabled_keys' = disabled_keys /\ flag' = flag
      BY <1>2 DEF ReplyHealthy, Unflagged
    <3>2. QED
      BY <3>1 DEF TypeOK
  <2>5. UNCHANGED <<keyLists, meddled>>
    BY <1>2 DEF ReplyHealthy
  <2>6. QED
    BY <1>0, <1>2, <2>2, <2>3, <2>4, <2>5 DEF ReplyHealthy, TypeOK, keyLists
<1>3. CASE ReplyInvalid(t)
  <2>1. /\ testing[t] \in Keys /\ slot[t] \in Indices
        /\ OneMore(failures[slot[t]]) \in 0..Threshold /\ OneMore(strikes[slot[t]]) \in 0..Threshold
    BY <1>3, AnsweredTypes DEF ReplyInvalid
  <2>2. strikes' \in [Indices -> 0..Threshold] /\ tainted' \subseteq Indices
    BY <1>3, <2>1, RecordedIs DEF ReplyInvalid
  <2>3. failures' \in [Indices -> 0..Threshold]
    BY <1>3, <2>1 DEF ReplyInvalid, TypeOK
  <2>4. flag' \in [Indices -> BOOLEAN] /\ disabled_keys' \in SUBSET Keys
    <3>1. \/ /\ slot[t] \in 1..Len(api_keys)
             /\ disabled_keys' = disabled_keys \cup {api_keys[slot[t]]}
             /\ flag' = [flag EXCEPT ![slot[t]] = TRUE]
          \/ disabled_keys' = disabled_keys /\ flag' = flag
      BY SMTT(30), <1>3, <2>1, ThresholdAssumption DEF ReplyInvalid, DisableKey, TypeOK, Indices
    <3>2. slot[t] \in 1..Len(api_keys) => api_keys[slot[t]] \in Keys
      BY DEF TypeOK
    <3>3. QED
      BY <3>1, <3>2, <2>1 DEF TypeOK
  <2>5. UNCHANGED <<keyLists, meddled>>
    BY <1>3 DEF ReplyInvalid
  <2>6. QED
    BY <1>0, <1>3, <2>2, <2>3, <2>4, <2>5 DEF ReplyInvalid, TypeOK, keyLists
<1>4. CASE ReplyOther(t)
  BY <1>0, <1>4 DEF ReplyOther, TypeOK, keyLists, health
<1>5. QED
  BY <1>1, <1>2, <1>3, <1>4 DEF Check

(* A provider that is given another list (_sync_keys_to_config).           *)
LEMMA SetKeysTypes ==
  ASSUME TypeOK, NEW keys \in Seq(Keys), Len(keys) <= MaxKeys, SetKeys(keys),
         runtime' \in Seq(Keys), Len(runtime') <= MaxKeys,
         encrypted' \in Seq(Keys), Len(encrypted') <= MaxKeys
  PROVE  TypeOK'
<1>1. /\ api_keys' = keys /\ strikes' \in [Indices -> 0..Threshold]
      /\ tainted' \subseteq Indices /\ undercut' \subseteq Checks
  BY ThresholdAssumption DEF SetKeys, TypeOK
<1>3. meddled' \in BOOLEAN
  BY DEF SetKeys
<1>2. UNCHANGED <<disabled_keys, health, testing, slot>>
  BY DEF SetKeys
<1> QED
  BY <1>1, <1>2, <1>3 DEF TypeOK, health

(* The operator's requests keep the types (toggle_key, the key endpoints). *)
LEMMA OperatorKeepsTypes ==
  ASSUME TypeOK, Toggle \/ Edit \/ SyncOthers PROVE TypeOK'
<1>0. /\ runtime \in Seq(Keys) /\ Len(runtime) <= MaxKeys
      /\ encrypted \in Seq(Keys) /\ Len(encrypted) <= MaxKeys
      /\ api_keys \in Seq(Keys) /\ Len(api_keys) <= MaxKeys
  BY DEF TypeOK
<1>1. CASE Toggle
  <2>1. PICK i \in DOMAIN api_keys : EnableKey(i) \/ DisableByHand(i)
    BY <1>1 DEF Toggle
  <2>2. Toggled /\ meddled' \in BOOLEAN
    BY <2>1 DEF EnableKey, DisableByHand, Toggled
  <2>3. disabled_keys' \subseteq Keys
    BY <1>0, <2>1 DEF EnableKey, DisableByHand, TypeOK
  <2> QED
    BY <2>2, <2>3 DEF Toggled, TypeOK, keyLists, health
<1>2. ASSUME NEW s \in Seq(Keys), Len(s) <= MaxKeys, SetRuntime(s) \/ SetEncrypted(s)
      PROVE  TypeOK'
  <2>1. CASE SetRuntime(s)
    <3>1. Synced(s) \in Seq(Keys) /\ Len(Synced(s)) <= MaxKeys
      BY <1>0, <1>2 DEF Synced
    <3> QED
      BY <1>0, <1>2, <2>1, <3>1, SetKeysTypes DEF SetRuntime
  <2>2. CASE SetEncrypted(s)
    BY <1>0, <1>2, <2>2, SetKeysTypes DEF SetEncrypted
  <2> QED
    BY <1>2, <2>1, <2>2
<1>3. ASSUME NEW s \in Seq(Keys), NEW k \in Keys, Len(s) < MaxKeys
      PROVE  Append(s, k) \in Seq(Keys) /\ Len(Append(s, k)) <= MaxKeys
  BY <1>3, ThresholdAssumption
<1>4. CASE \E k \in Keys : AddKey(k) \/ AddEncryptedKey(k)
  <2>1. PICK k \in Keys : AddKey(k) \/ AddEncryptedKey(k)
    BY <1>4
  <2>2. CASE AddKey(k)
    BY <2>2, <1>0, <1>2, <1>3 DEF AddKey, Room
  <2>3. CASE AddEncryptedKey(k)
    BY <2>3, <1>0, <1>2, <1>3 DEF AddEncryptedKey, Room
  <2>4. QED
    BY <2>1, <2>2, <2>3
<1>5. CASE \E i \in DOMAIN runtime : DeleteKey(i)
  <2>1. PICK i \in DOMAIN runtime : DeleteKey(i)
    BY <1>5
  <2>2. RemoveAt(runtime, i) \in Seq(Keys) /\ Len(RemoveAt(runtime, i)) <= MaxKeys
    BY <1>0, RemoveAtIs, ThresholdAssumption
  <2>3. QED
    BY <2>1, <2>2, <1>2 DEF DeleteKey
<1>6. CASE \E i \in DOMAIN encrypted : DeleteEncryptedKey(i)
  <2>1. PICK i \in DOMAIN encrypted : DeleteEncryptedKey(i)
    BY <1>6
  <2>2. RemoveAt(encrypted, i) \in Seq(Keys) /\ Len(RemoveAt(encrypted, i)) <= MaxKeys
    BY <1>0, RemoveAtIs, ThresholdAssumption
  <2>3. QED
    BY <2>1, <2>2, <1>2 DEF DeleteEncryptedKey
<1>7. CASE SyncOthers
  <2>1. Synced(runtime) \in Seq(Keys) /\ Len(Synced(runtime)) <= MaxKeys
    BY <1>0 DEF Synced
  <2> QED
    BY <1>0, <1>7, <2>1, SetKeysTypes DEF SyncOthers
<1>8. QED
  BY <1>1, <1>4, <1>5, <1>6, <1>7 DEF Edit

(* Whatever the operator does and however checks overlap, the key lists,   *)
(* flags and counters keep their types, and no list outgrows its index.    *)
THEOREM KeyTypes == Spec => []TypeOK
<1>1. TypeOK /\ [Next]_vars => TypeOK'
  <2> SUFFICES ASSUME TypeOK, [Next]_vars PROVE TypeOK'
    OBVIOUS
  <2>1. CASE UNCHANGED vars
    BY <2>1 DEF TypeOK, vars, keyLists, health, histories
  <2>2. QED
    BY <2>1, CheckKeepsTypes, OperatorKeepsTypes DEF Next
<1>2. QED
  BY <1>1, InitTyped, PTL DEF Spec

(***************************************************************************)
(* Whose failures an index counts.  ChecksInv: where no key was replaced,  *)
(* the counter of an index is the one of its key, and a check under way is *)
(* about the key at its index.                                             *)
(***************************************************************************)
AboutTheirKey ==
  \A t \in Checks \ undercut : testing[t] # NoKey => Listed(api_keys, slot[t]) = testing[t]

ChecksInv == TypeOK /\ CountsAreTheKeys /\ AboutTheirKey

LEMMA SetKeysKeepsCounts ==
  ASSUME ChecksInv, NEW keys, SetKeys(keys) PROVE CountsAreTheKeys' /\ AboutTheirKey'
<1> DEFINE replaced == {i \in Indices : Listed(keys, i) # Listed(api_keys, i)}
<1>1. /\ api_keys' = keys
      /\ strikes' = [i \in Indices |-> IF i \in replaced THEN 0 ELSE strikes[i]]
      /\ tainted' = tainted \cup {i \in replaced : failures[i] > 0}
      /\ undercut' = undercut \cup {t \in Checks : testing[t] # NoKey /\ slot[t] \in replaced}
      /\ UNCHANGED <<flag, failures, testing, slot>>
  BY DEF SetKeys, health
<1>2. ASSUME NEW i \in Indices \ tainted' PROVE failures'[i] = strikes'[i]
  <2>1. failures[i] \in 0..Threshold
    BY DEF ChecksInv, TypeOK
  <2>2. CASE i \in replaced
    BY SMTT(30), <1>1, <1>2, <2>1, <2>2, ThresholdAssumption
  <2>3. CASE i \notin replaced
    <3>1. i \notin tainted /\ strikes'[i] = strikes[i]
      BY <1>1, <1>2, <2>3
    <3> QED
      BY <1>1, <1>2, <3>1 DEF ChecksInv, CountsAreTheKeys
  <2> QED
    BY <2>2, <2>3
<1>3. ASSUME NEW t \in Checks \ undercut', testing'[t] # NoKey
      PROVE  Listed(api_keys', slot'[t]) = testing'[t]
  <2>1. slot[t] \in Indices
    BY DEF ChecksInv, TypeOK
  <2>2. t \notin undercut /\ slot[t] \notin replaced /\ slot'[t] = slot[t] /\ testing'[t] = testing[t]
    BY <1>1, <1>3
  <2>3. Listed(keys, slot[t]) = Listed(api_keys, slot[t])
    BY <2>1, <2>2
  <2> QED
    BY <1>1, <1>3, <2>2, <2>3 DEF ChecksInv, AboutTheirKey
<1> QED
  BY <1>2, <1>3 DEF CountsAreTheKeys, AboutTheirKey

LEMMA CheckKeepsCounts ==
  ASSUME ChecksInv, NEW t \in Checks, Check(t) PROVE CountsAreTheKeys' /\ AboutTheirKey'
<1>1. CASE \E i \in DOMAIN api_keys : StartCheck(t, i)
  <2>1. PICK i \in DOMAIN api_keys : StartCheck(t, i)
    BY <1>1
  <2>2. /\ UNCHANGED <<api_keys, failures, strikes, tainted, undercut>>
        /\ testing' = [testing EXCEPT ![t] = api_keys[i]] /\ slot' = [slot EXCEPT ![t] = i]
        /\ Listed(api_keys, i) = api_keys[i]
    BY <2>1 DEF StartCheck, keyLists, health, histories, Listed
  <2>3. CountsAreTheKeys'
    BY <2>2 DEF ChecksInv, CountsAreTheKeys
  <2>4. testing \in [Checks -> Keys \cup {NoKey}] /\ slot \in [Checks -> Indices]
    BY DEF ChecksInv, TypeOK
  <2>5. AboutTheirKey'
    BY <2>2, <2>4 DEF ChecksInv, AboutTheirKey
  <2> QED
    BY <2>3, <2>5
<1>2. CASE ReplyHealthy(t) \/ ReplyInvalid(t) \/ ReplyOther(t)
  <2>1. Finish(t) /\ UNCHANGED api_keys /\ testing[t] # NoKey
    BY <1>2 DEF ReplyHealthy, ReplyInvalid, ReplyOther, keyLists
  <2>2. testing[t] \in Keys /\ slot[t] \in Indices /\ 0 \in 0..Threshold
        /\ OneMore(strikes[slot[t]]) \in 0..Threshold /\ OneMore(strikes[slot[t]]) # 0
    BY <2>1, AnsweredTypes DEF ChecksInv
  <2>3. AboutTheirKey'
    <3>1. testing \in [Checks -> Keys \cup {NoKey}] /\ slot \in [Checks -> Indices]
      BY DEF ChecksInv, TypeOK
    <3>2. ASSUME NEW u \in Checks \ undercut', testing'[u] # NoKey
          PROVE  u \notin undercut /\ testing'[u] = testing[u] /\ slot'[u] = slot[u]
      BY <2>1, <3>1, <3>2 DEF Finish
    <3> QED
      BY <2>1, <3>2 DEF ChecksInv, AboutTheirKey
  <2>4. failures \in [Indices -> 0..Threshold] /\ TypeOK
    BY DEF ChecksInv, TypeOK
  <2>5. CASE ReplyHealthy(t)
    <3>1. Recorded(slot[t], testing[t], 0) /\ failures' = [failures EXCEPT ![slot[t]] = 0]
      BY <2>5 DEF ReplyHealthy, Forgiven
    <3>2. ASSUME NEW j \in Indices \ tainted' PROVE failures'[j] = strikes'[j]
      <4>1. CASE j = slot[t]
        BY <2>2, <2>4, <3>1, <3>2, <4>1, RecordedIs
      <4>2. CASE j # slot[t]
        BY <2>2, <2>4, <3>1, <3>2, <4>2, RecordedIs DEF ChecksInv, CountsAreTheKeys
      <4> QED
        BY <4>1, <4>2
    <3> QED
      BY <2>3, <3>2 DEF CountsAreTheKeys
  <2>6. CASE ReplyInvalid(t)
    <3>1. /\ Recorded(slot[t], testing[t], OneMore(strikes[slot[t]]))
          /\ failures' = [failures EXCEPT ![slot[t]] = OneMore(@)]
      BY <2>6 DEF ReplyInvalid
    <3>2. ASSUME NEW j \in Indices \ tainted' PROVE failures'[j] = strikes'[j]
      <4>1. CASE j = slot[t]
        <5>1. j \notin tainted /\ strikes'[j] = OneMore(strikes[j])
          BY <2>2, <2>4, <3>1, <3>2, <4>1, RecordedIs
        <5>2. failures[j] = strikes[j]
          BY <3>2, <5>1 DEF ChecksInv, CountsAreTheKeys
        <5> QED
          BY <2>4, <3>1, <4>1, <5>1, <5>2
      <4>2. CASE j # slot[t]
        BY <2>2, <2>4, <3>1, <3>2, <4>2, RecordedIs DEF ChecksInv, CountsAreTheKeys
      <4> QED
        BY <4>1, <4>2
    <3> QED
      BY <2>3, <3>2 DEF CountsAreTheKeys
  <2>7. CASE ReplyOther(t)
    <3>1. UNCHANGED <<failures, strikes, tainted>>
      BY <2>7 DEF ReplyOther, health
    <3> QED
      BY <2>3, <3>1 DEF ChecksInv, CountsAreTheKeys
  <2> QED
    BY <1>2, <2>5, <2>6, <2>7
<1> QED
  BY <1>1, <1>2 DEF Check

LEMMA StepKeepsChecks == ChecksInv /\ [Next]_vars => ChecksInv'
<1> SUFFICES ASSUME ChecksInv, [Next]_vars PROVE ChecksInv'
  OBVIOUS
<1>1. TypeOK'
  <2>1. CASE UNCHANGED vars
    BY <2>1 DEF ChecksInv, TypeOK, vars, keyLists, health, histories
  <2> QED
    BY <2>1, CheckKeepsTypes, OperatorKeepsTypes DEF Next, ChecksInv
<1>2. CASE Edit \/ SyncOthers
  <2>1. \E keys : SetKeys(keys)
    BY <1>2 DEF Edit, SyncOthers, AddKey, DeleteKey, AddEncryptedKey, DeleteEncryptedKey,
                SetRuntime, SetEncrypted
  <2> QED
    BY <1>1, <2>1, SetKeysKeepsCounts DEF ChecksInv
<1>3. CASE Toggle \/ UNCHANGED vars
  <2>1. UNCHANGED <<api_keys, failures, testing, slot, strikes, tainted, undercut>>
    BY <1>3 DEF Toggle, EnableKey, DisableByHand, Toggled, vars, keyLists, health, histories
  <2> QED
    BY <1>1, <2>1 DEF ChecksInv, CountsAreTheKeys, AboutTheirKey
<1> QED
  BY <1>1, <1>2, <1>3, CheckKeepsCounts DEF Next, ChecksInv

LEMMA InitChecks == Init => ChecksInv
<1> SUFFICES ASSUME Init PROVE ChecksInv
  OBVIOUS
<1> QED
  BY InitTyped DEF Init, ChecksInv, CountsAreTheKeys, AboutTheirKey

(* However checks overlap with one another and with edits of the list, an  *)
(* index at which no count or check outlived its key counts exactly the    *)
(* failures in a row of the key it has (check_key, _sync_keys_to_config).  *)
THEOREM CountsStayWithKeys == Spec => []CountsAreTheKeys
<1>1. ChecksInv => CountsAreTheKeys
  BY DEF ChecksInv
<1> QED
  BY <1>1, InitChecks, StepKeepsChecks, PTL DEF Spec

(* What the answer to a check enables and disables.                        *)
LEMMA AnswerDisablesItsKey ==
  ASSUME ChecksInv, [Next]_vars, NEW t \in Checks, Answered(t)
  PROVE  /\ disabled_keys \ disabled_keys' \subseteq {testing[t]}
         /\ \A k \in disabled_keys' \ disabled_keys :
              /\ k = Listed(api_keys, slot[t]) /\ (t \notin undercut => k = testing[t])
              /\ slot[t] \notin tainted' => strikes'[slot[t]] >= Threshold
<1>1. ReplyHealthy(t) \/ ReplyInvalid(t) \/ ReplyOther(t)
  <2>1. testing[t] # NoKey /\ testing'[t] = NoKey
    BY DEF Answered
  <2>2. ~UNCHANGED testing
    BY <2>1
  <2>3. PICK u \in Checks : Check(u)
    BY <2>2 DEF Next, Edit, SyncOthers, AddKey, DeleteKey, AddEncryptedKey, DeleteEncryptedKey,
                SetRuntime, SetEncrypted, SetKeys, Toggle, EnableKey, DisableByHand, Toggled, vars
  <2>4. ASSUME u # t PROVE FALSE
    BY <2>1, <2>3, <2>4
    DEF Check, StartCheck, ReplyHealthy, ReplyInvalid, ReplyOther, Finish, ChecksInv, TypeOK
  <2>5. ~(\E i \in DOMAIN api_keys : StartCheck(t, i))
    BY <2>1 DEF StartCheck
  <2> QED
    BY <2>3, <2>4, <2>5 DEF Check
<1>2. CASE ReplyHealthy(t) \/ ReplyOther(t)
  BY <1>2 DEF ReplyHealthy, ReplyOther
<1>3. CASE ReplyInvalid(t)
  <2>1. /\ testing[t] \in Keys /\ slot[t] \in Indices
        /\ OneMore(failures[slot[t]]) \in 0..Threshold /\ OneMore(strikes[slot[t]]) \in 0..Threshold
    BY <1>3, AnsweredTypes DEF ReplyInvalid, ChecksInv
  <2>2. disabled_keys' = disabled_keys
        \/ /\ failures'[slot[t]] >= Threshold /\ slot[t] \in DOMAIN api_keys
           /\ disabled_keys' = disabled_keys \cup {api_keys[slot[t]]}
    <3>1. api_keys \in Seq(Keys) /\ slot[t] \in Nat /\ 1 <= slot[t]
      BY <2>1, ThresholdAssumption DEF ChecksInv, TypeOK, Indices
    <3>2. slot[t] <= Len(api_keys) => slot[t] \in DOMAIN api_keys
      BY <3>1
    <3> QED
      BY <1>3, <3>2 DEF ReplyInvalid, TooMany, DisableKey
  <2>3. ASSUME slot[t] \notin tainted' PROVE failures'[slot[t]] = strikes'[slot[t]]
    BY <1>3, <2>1, <2>3, CheckKeepsCounts DEF Check, CountsAreTheKeys
  <2>4. slot[t] \in DOMAIN api_keys => Listed(api_keys, slot[t]) = api_keys[slot[t]]
    BY DEF Listed
  <2>5. t \notin undercut => Listed(api_keys, slot[t]) = testing[t]
    BY <1>3 DEF ReplyInvalid, ChecksInv, AboutTheirKey
  <2>6. disabled_keys \ disabled_keys' \subseteq {testing[t]}
    BY <2>2
  <2> QED
    BY <2>2, <2>3, <2>4, <2>5, <2>6
<1> QED
  BY <1>1, <1>2, <1>3

(* Whatever is edited meanwhile, a check enables no other key than the one *)
(* it validated, and disables no other one while the key at its index      *)
(* stays the same (check_key, _disable_key).                               *)
THEOREM ChecksJudgeTheirKey == Spec => JudgedKeyOnly
<1> DEFINE Judged == \A t \in Checks : Answered(t) =>
      /\ disabled_keys \ disabled_keys' \subseteq {testing[t]}
      /\ t \notin undercut => disabled_keys' \ disabled_keys \subseteq {testing[t]}
<1>1. ChecksInv /\ [Next]_vars => Judged
  BY AnswerDisablesItsKey
<1>2. Spec => [][Judged]_vars
  BY <1>1, InitChecks, StepKeepsChecks, PTL DEF Spec
<1>3. QED
  BY <1>2 DEF JudgedKeyOnly

(* ... and disables the key at its index only after that many auth         *)
(* failures of it in a row, unless the index has counted another key's.    *)
THEOREM DisablingTakesStrikes == Spec => EnoughStrikes
<1> DEFINE Enough == \A t \in Checks : Answered(t) =>
      \A k \in disabled_keys' \ disabled_keys :
        /\ k = Listed(api_keys, slot[t])
        /\ slot[t] \notin tainted' => strikes'[slot[t]] >= Threshold
<1>1. ChecksInv /\ [Next]_vars => Enough
  BY AnswerDisablesItsKey
<1>2. Spec => [][Enough]_vars
  BY <1>1, InitChecks, StepKeepsChecks, PTL DEF Spec
<1>3. QED
  BY <1>2 DEF EnoughStrikes

(***************************************************************************)
(* While the operator leaves the keys alone, the list is the environment's *)
(* and every count is that of the key.                                     *)
(***************************************************************************)
Unedited == api_keys = EnvKeys /\ tainted = {} /\ undercut = {}
Untouched == ~meddled => Unedited

(* A call of the operator that changes no key changes nothing that counts. *)
LEMMA IdleEdits ==
  ASSUME ChecksInv, NEW keys, SetKeys(keys), ~meddled'
  PROVE  ~meddled /\ UNCHANGED <<api_keys, disabled_keys, flag, strikes, tainted, undercut>>
<1>1. ~meddled /\ keys = api_keys /\ UNCHANGED <<disabled_keys, flag>>
  BY DEF SetKeys, health
<1>2. {i \in Indices : Listed(keys, i) # Listed(api_keys, i)} = {}
  BY <1>1
<1>3. /\ api_keys' = keys
      /\ strikes' = [i \in Indices |-> strikes[i]] /\ tainted' = tainted /\ undercut' = undercut
  BY <1>2 DEF SetKeys
<1>4. strikes' = strikes
  BY <1>3 DEF ChecksInv, TypeOK
<1> QED
  BY <1>1, <1>3, <1>4

LEMMA HandsOff ==
  ASSUME ChecksInv, [Next]_vars, ~meddled'
  PROVE  /\ ~meddled
         /\ \/ \E t \in Checks : Check(t)
            \/ UNCHANGED <<api_keys, disabled_keys, flag, strikes, tainted, undercut>>
<1>1. CASE \E t \in Checks : Check(t)
  BY <1>1 DEF Check, StartCheck, ReplyHealthy, ReplyInvalid, ReplyOther, histories
<1>2. CASE Edit \/ SyncOthers
  <2>1. \E keys : SetKeys(keys)
    BY <1>2 DEF Edit, SyncOthers, AddKey, DeleteKey, AddEncryptedKey, DeleteEncryptedKey,
                SetRuntime, SetEncrypted
  <2> QED
    BY <2>1, IdleEdits
<1>3. ~Toggle
  BY DEF Toggle, EnableKey, DisableByHand, Toggled
<1>4. CASE UNCHANGED vars
  BY <1>4 DEF vars, keyLists, health, histories
<1> QED
  BY <1>1, <1>2, <1>3, <1>4 DEF Next

LEMMA StepKeepsUntouched ==
  ASSUME ChecksInv, Untouched, [Next]_vars PROVE Untouched'
<1> SUFFICES ASSUME ~meddled' PROVE Unedited'
  BY DEF Untouched
<1>0. Unedited
  BY HandsOff DEF Untouched
<1>1. ASSUME NEW t \in Checks, Check(t) PROVE Unedited'
  <2>1. CASE \E i \in DOMAIN api_keys : StartCheck(t, i)
    BY <1>0, <2>1 DEF StartCheck, Unedited, keyLists, histories
  <2>2. CASE ReplyOther(t)
    BY <1>0, <2>2 DEF ReplyOther, Finish, Unedited, keyLists
  <2>3. CASE ReplyHealthy(t) \/ ReplyInvalid(t)
    <3>1. Finish(t) /\ UNCHANGED api_keys /\ Listed(api_keys, slot[t]) = testing[t]
      BY <1>0, <2>3 DEF ReplyHealthy, ReplyInvalid, keyLists, ChecksInv, AboutTheirKey, Unedited
    <3>2. tainted' = {}
      BY <1>0, <2>3, <3>1 DEF ReplyHealthy, ReplyInvalid, Recorded, Unedited
    <3> QED
      BY <1>0, <3>1, <3>2 DEF Finish, Unedited
  <2> QED
    BY <1>1, <2>1, <2>2, <2>3 DEF Check
<1>2. CASE UNCHANGED <<api_keys, disabled_keys, flag, strikes, tainted, undercut>>
  BY <1>0, <1>2 DEF Unedited
<1> QED
  BY <1>1, <1>2, HandsOff

(* Each listed key is disabled or not as its failures demand.              *)
Verdicts ==
  \A i \in DOMAIN api_keys :
    /\ api_keys[i] \in disabled_keys <=> strikes[i] >= Threshold
    /\ api_keys[i] \in disabled_keys <=> flag[i]

(* The answer to a check keeps that while the operator does nothing.       *)
LEMMA StepKeepsVerdicts ==
  ASSUME Distinct, ChecksInv, Untouched, DisabledAfterStrikes, [Next]_vars
  PROVE  DisabledAfterStrikes'
<1> SUFFICES ASSUME ~meddled' PROVE Verdicts'
  BY DEF DisabledAfterStrikes, Verdicts
<1> USE EnvKeysAssumption, ThresholdAssumption, KeysAssumption
<1>0. Unedited /\ Unedited' /\ Verdicts /\ TypeOK /\ CountsAreTheKeys'
  <2>1. Unedited /\ Unedited' /\ Verdicts
    BY HandsOff, StepKeepsUntouched DEF Untouched, DisabledAfterStrikes, Verdicts
  <2> QED
    BY <2>1, StepKeepsChecks DEF ChecksInv
<1>1. ASSUME NEW t \in Checks, ReplyHealthy(t) \/ ReplyInvalid(t) PROVE Verdicts'
  <2> DEFINE i == slot[t]
             k == testing[t]
  <2>1. /\ k = EnvKeys[i] /\ i \in DOMAIN EnvKeys /\ i \in Indices /\ k \in Keys
        /\ i <= Len(api_keys) /\ api_keys[i] = k /\ Listed(api_keys, i) = k
        /\ DOMAIN EnvKeys \subseteq Indices
    <3>1. k \in Keys /\ i \in Indices
      BY <1>0, <1>1, AnsweredTypes DEF ReplyHealthy, ReplyInvalid
    <3>2. Listed(EnvKeys, i) = k
      BY <1>0, <1>1 DEF ReplyHealthy, ReplyInvalid, ChecksInv, AboutTheirKey, Unedited
    <3>3. i \in DOMAIN EnvKeys /\ EnvKeys[i] = k
      BY <3>1, <3>2 DEF Listed
    <3>4. DOMAIN EnvKeys = 1..Len(EnvKeys) /\ Len(EnvKeys) \in Nat /\ api_keys = EnvKeys
      BY <1>0 DEF Unedited
    <3> QED
      BY <3>1, <3>2, <3>3, <3>4 DEF Indices
  <2>2. /\ flag \in [Indices -> BOOLEAN] /\ failures \in [Indices -> 0..Threshold]
        /\ \A j \in DOMAIN EnvKeys :
             /\ EnvKeys[j] \in disabled_keys <=> strikes[j] >= Threshold
             /\ EnvKeys[j] \in disabled_keys <=> flag[j]
    BY <1>0 DEF TypeOK, Unedited, Verdicts
  <2>3. \A j \in DOMAIN EnvKeys : failures'[j] = strikes'[j]
    BY <1>0, <2>1 DEF CountsAreTheKeys, Unedited
  <2>4. \A j \in DOMAIN EnvKeys : j # i => EnvKeys[j] # k
    BY <2>1 DEF Distinct
  <2>5. ASSUME NEW j \in DOMAIN EnvKeys, j # i PROVE strikes'[j] = strikes[j]
    <3>1. strikes \in [Indices -> 0..Threshold] /\ j \in Indices
      BY <1>0, <2>1 DEF TypeOK
    <3> QED
      BY <1>1, <2>1, <2>5, <3>1 DEF ReplyHealthy, ReplyInvalid, Recorded
  <2>6. CASE ReplyHealthy(t)
    <3>1. disabled_keys' = disabled_keys \ {k} /\ flag' = [flag EXCEPT ![i] = FALSE]
      <4>1. CASE flag[i] /\ k \in disabled_keys
        BY <2>6, <4>1 DEF ReplyHealthy, Unflagged
      <4>2. CASE ~(flag[i] /\ k \in disabled_keys)
        <5>1. ~flag[i] /\ k \notin disabled_keys
          BY <2>1, <2>2, <4>2
        <5>2. UNCHANGED <<disabled_keys, flag>>
          BY <2>6, <4>2 DEF ReplyHealthy
        <5>3. flag = [flag EXCEPT ![i] = FALSE]
          BY <2>1, <2>2, <5>1
        <5> QED
          BY <5>1, <5>2, <5>3
      <4> QED
        BY <4>1, <4>2
    <3>2. strikes'[i] = 0
      BY <2>1, <2>6, <1>0 DEF ReplyHealthy, Recorded, TypeOK
    <3>3. ASSUME NEW j \in DOMAIN EnvKeys
          PROVE  /\ EnvKeys[j] \in disabled_keys' <=> strikes'[j] >= Threshold
                 /\ EnvKeys[j] \in disabled_keys' <=> flag'[j]
      <4>1. CASE j = i
        <5>1. EnvKeys[j] \notin disabled_keys' /\ ~flag'[j] /\ ~(strikes'[j] >= Threshold)
          BY <2>1, <2>2, <3>1, <3>2, <4>1
        <5> QED
          BY <5>1
      <4>2. CASE j # i
        <5>1. flag'[j] = flag[j] /\ (EnvKeys[j] \in disabled_keys' <=> EnvKeys[j] \in disabled_keys)
          BY <2>1, <2>2, <2>4, <3>1, <4>2
        <5> QED
          BY <2>2, <2>5, <4>2, <5>1
      <4> QED
        BY <4>1, <4>2
    <3> QED
      BY <1>0, <3>3 DEF Verdicts, Unedited
  <2>7. CASE ReplyInvalid(t)
    <3>1. CASE failures'[i] >= Threshold
      <4>1. disabled_keys' = disabled_keys \cup {k} /\ flag' = [flag EXCEPT ![i] = TRUE]
        <5>1. IF ~flag[i] /\ i <= Len(api_keys)
                THEN /\ flag' = [flag EXCEPT ![i] = TRUE]
                     /\ disabled_keys' = disabled_keys \cup {api_keys[i]}
                ELSE UNCHANGED <<flag, disabled_keys>>
          BY <2>7, <3>1 DEF ReplyInvalid, TooMany, DisableKey
        <5>2. CASE flag[i]
          <6>1. flag' = flag /\ disabled_keys' = disabled_keys /\ k \in disabled_keys
            BY <2>1, <2>2, <5>1, <5>2
          <6>2. flag = [flag EXCEPT ![i] = TRUE]
            BY <2>1, <2>2, <5>2
          <6>3. QED
            BY <6>1, <6>2
        <5>3. CASE ~flag[i]
          BY <2>1, <5>1, <5>3
        <5>4. QED
          BY <5>2, <5>3
      <4>2. strikes'[i] >= Threshold /\ k \in disabled_keys' /\ flag'[i]
        BY <2>1, <2>2, <2>3, <3>1, <4>1
      <4>3. ASSUME NEW j \in DOMAIN EnvKeys
            PROVE  /\ EnvKeys[j] \in disabled_keys' <=> strikes'[j] >= Threshold
                   /\ EnvKeys[j] \in disabled_keys' <=> flag'[j]
        <5>1. CASE j = i
          BY <2>1, <4>2, <5>1
        <5>2. CASE j # i
          <6>1. flag'[j] = flag[j] /\ (EnvKeys[j] \in disabled_keys' <=> EnvKeys[j] \in disabled_keys)
            BY <2>1, <2>2, <2>4, <4>1, <5>2
          <6> QED
            BY <2>2, <2>5, <5>2, <6>1
        <5> QED
          BY <5>1, <5>2
      <4> QED
        BY <1>0, <4>3 DEF Verdicts, Unedited
    <3>2. CASE ~(failures'[i] >= Threshold)
      <4>1. disabled_keys' = disabled_keys /\ flag' = flag
        BY <2>7, <3>2 DEF ReplyInvalid, TooMany
      <4>2. ~(strikes'[i] >= Threshold)
        BY <2>1, <2>3, <3>2
      <4>3. ~(strikes[i] >= Threshold)
        <5>1. strikes[i] \in 0..Threshold /\ strikes'[i] = OneMore(strikes[i])
          BY <1>0, <2>1, <2>7 DEF ReplyInvalid, Recorded, TypeOK
        <5> QED
          BY <4>2, <5>1 DEF OneMore
      <4>4. ASSUME NEW j \in DOMAIN EnvKeys
            PROVE  /\ EnvKeys[j] \in disabled_keys' <=> strikes'[j] >= Threshold
                   /\ EnvKeys[j] \in disabled_keys' <=> flag'[j]
        <5>1. CASE j = i
          BY <2>1, <2>2, <4>1, <4>2, <4>3, <5>1
        <5>2. CASE j # i
          BY <2>2, <2>5, <4>1, <5>2
        <5> QED
          BY <5>1, <5>2
      <4> QED
        BY <1>0, <4>4 DEF Verdicts, Unedited
    <3> QED
      BY <3>1, <3>2
  <2> QED
    BY <1>1, <2>6, <2>7
<1>2. ASSUME NEW t \in Checks, (\E j \in DOMAIN api_keys : StartCheck(t, j)) \/ ReplyOther(t)
      PROVE  Verdicts'
  <2>1. UNCHANGED <<api_keys, disabled_keys, flag, strikes>>
    BY <1>2 DEF StartCheck, ReplyOther, keyLists, health, histories
  <2>2. QED
    BY <1>0, <2>1 DEF Verdicts
<1>3. CASE UNCHANGED <<api_keys, disabled_keys, flag, strikes, tainted, undercut>>
  BY <1>0, <1>3 DEF Verdicts
<1>4. QED
  BY <1>1, <1>2, <1>3, HandsOff DEF Check

(* Until the operator toggles a key or changes the list, a key is disabled *)
(* if and only if the provider has refused it often enough since it last   *)
(* accepted it, for any number of overlapping checks (check_key).          *)
THEOREM VerdictsAreRight ==
  ASSUME Distinct PROVE Spec => []DisabledAfterStrikes
<1>1. Init => DisabledAfterStrikes /\ Untouched
  BY EnvKeysAssumption, ThresholdAssumption
  DEF Init, DisabledAfterStrikes, Untouched, Unedited, Indices
<1>2. ChecksInv /\ Untouched /\ DisabledAfterStrikes /\ [Next]_vars => DisabledAfterStrikes'
  BY StepKeepsVerdicts
<1>3. ChecksInv /\ Untouched /\ [Next]_vars => Untouched'
  BY StepKeepsUntouched
<1>4. QED
  BY <1>1, <1>2, <1>3, InitChecks, StepKeepsChecks, PTL DEF Spec

(* A provider that is given the whole list of a store, by the endpoints of *)
(* either store or because the keys of another provider are edited.        *)
LEMMA EditsKeepOneStore ==
  ASSUME TypeOK, KeysOfOneStore, Edit \/ SyncOthers PROVE KeysOfOneStore'
<1>1. ASSUME NEW keys, SetRuntime(keys),
             runtime = <<>> => keys # <<>>, Len(runtime) > 1 => keys # <<>>
      PROVE  KeysOfOneStore'
  <2>1. runtime' = keys /\ encrypted' = encrypted
        /\ api_keys' = IF keys # <<>> THEN keys ELSE api_keys
    BY <1>1 DEF SetRuntime, SetKeys, Synced
  <2>2. CASE keys # <<>>
    BY <2>1, <2>2 DEF KeysOfOneStore
  <2>3. CASE keys = <<>>
    <3>1. runtime # <<>> /\ ~(Len(runtime) > 1)
      BY <1>1, <2>3
    <3>2. runtime \in Seq(Keys) /\ Len(runtime) \in Nat /\ (Len(runtime) = 0 => runtime = <<>>)
      BY DEF TypeOK
    <3>3. Len(runtime) = 1
      <4> DEFINE n == Len(runtime)
      <4>1. n \in Nat /\ n # 0 /\ ~(n > 1)
        BY <3>1, <3>2
      <4> HIDE DEF n
      <4>2. n = 1
        BY ONLY <4>1
      <4> QED
        BY <4>2 DEF n
    <3> QED
      BY <2>1, <2>3, <3>1, <3>3 DEF KeysOfOneStore
  <2> QED
    BY <2>2, <2>3
<1>2. ASSUME NEW keys, SetEncrypted(keys) PROVE KeysOfOneStore'
  BY <1>2 DEF SetEncrypted, SetKeys, KeysOfOneStore
<1>3. runtime \in Seq(Keys) /\ Len(runtime) \in Nat
  BY DEF TypeOK
<1>4. ASSUME NEW k \in Keys, AddKey(k) PROVE KeysOfOneStore'
  <2>1. Append(runtime, k) # <<>>
    BY <1>3
  <2> QED
    BY <1>1, <1>4, <2>1 DEF AddKey
<1>5. ASSUME NEW i \in DOMAIN runtime, DeleteKey(i) PROVE KeysOfOneStore'
  <2>1. Len(RemoveAt(runtime, i)) = Len(runtime) - 1
    BY <1>3, RemoveAtIs
  <2>2. runtime # <<>> /\ (Len(runtime) > 1 => RemoveAt(runtime, i) # <<>>)
    BY <1>3, <2>1
  <2> QED
    BY <1>1, <1>5, <2>2 DEF DeleteKey
<1>6. CASE SyncOthers
  BY <1>6 DEF SyncOthers, SetKeys, Synced, KeysOfOneStore
<1> QED
  BY <1>2, <1>4, <1>5, <1>6 DEF Edit, AddEncryptedKey, DeleteEncryptedKey

(* Whatever is added to or removed from either store, of this provider or  *)
(* of another one, a provider has the whole list of one store, or, while   *)
(* the runtime store has none of its keys, the environment's or the one    *)
(* left over (_sync_keys_to_config, the key endpoints).                    *)
THEOREM KeysAreOfOneStore == Spec => []KeysOfOneStore
<1>1. Init => KeysOfOneStore
  BY DEF Init, KeysOfOneStore
<1>2. ASSUME TypeOK, KeysOfOneStore, [Next]_vars PROVE KeysOfOneStore'
  <2>1. ASSUME NEW t \in Checks, Check(t) PROVE UNCHANGED keyLists
    BY <2>1 DEF Check, StartCheck, ReplyHealthy, ReplyInvalid, ReplyOther
  <2>2. CASE Toggle
    BY <2>2, <1>2 DEF Toggle, EnableKey, DisableByHand, Toggled, keyLists, KeysOfOneStore
  <2> QED
    BY <2>1, <2>2, <1>2, EditsKeepOneStore DEF Next, vars, keyLists, KeysOfOneStore
<1>3. TypeOK /\ KeysOfOneStore /\ [Next]_vars => KeysOfOneStore'
  BY <1>2
<1> QED
  BY <1>1, <1>3, KeyTypes, PTL DEF Spec
-----------------------------------------------------------------------------
(***************************************************************************)
(* The files of the key stores.  EntriesInv: a file that can be read and   *)
(* whose store is not unread holds what the store has in memory, and while *)
(* no key was removed under a validation, a validation's keys are still    *)
(* the first ones of the list it read and every mark, in memory and in the *)
(* file, is of a key the provider has accepted.                            *)
(***************************************************************************)

EntryTypes(keys, marks) ==
  /\ keys \in Seq(Keys) /\ Len(keys) <= MaxKeys
  /\ marks \in Seq(BOOLEAN) /\ Len(marks) = Len(keys)

Marks(keys, marks) == \A i \in DOMAIN keys : marks[i] => keys[i] \in accepted

FilesTyped ==
  /\ valid \in Seq(BOOLEAN) /\ Len(valid) = Len(runtime)
  /\ runtimeFile # Torn =>
       /\ runtimeFile = [keys |-> runtimeFile.keys, valid |-> runtimeFile.valid]
       /\ EntryTypes(runtimeFile.keys, runtimeFile.valid)
  /\ encryptedFile # Torn => encryptedFile \in Seq(Keys) /\ Len(encryptedFile) <= MaxKeys

FilesHold ==
  /\ runtimeFile = Torn \/ "runtime" \in unread \/ runtimeFile = RuntimeEntries
  /\ encryptedFile = Torn \/ "encrypted" \in unread \/ encryptedFile = encrypted

ProbeTyped(p) ==
  /\ p = [keys |-> p.keys, from |-> p.from, to |-> p.to]
  /\ p.keys \in Seq(Keys) /\ p.from \in Nat /\ p.to \in Nat
  /\ p.from <= p.to => p.from \in DOMAIN p.keys /\ p.to \in DOMAIN p.keys

ProbesTyped ==
  /\ probing = [v \in Validators |-> probing[v]]
  /\ \A v \in Validators : ProbeTyped(probing[v]) /\ (~up => ~Busy(v))
  /\ up \in BOOLEAN /\ mixed \in BOOLEAN

Ahead(r, p) ==
  p.from <= p.to => \A i \in DOMAIN p.keys : i \in DOMAIN r /\ r[i] = p.keys[i]

MarksHold ==
  ~mixed =>
    /\ Marks(runtime, valid)
    /\ runtimeFile # Torn => Marks(runtimeFile.keys, runtimeFile.valid)
    /\ \A v \in Validators : Ahead(runtime, probing[v])

EntriesInv == TypeOK /\ FilesTyped /\ FilesHold /\ ProbesTyped /\ MarksHold

LEMMA EntriesImply == EntriesInv => MarkedIsAccepted
BY DEF EntriesInv, TypeOK, FilesTyped, MarksHold, Marks, MarkedIsAccepted

LEMMA InitEntries == StoresInit => EntriesInv
<1> SUFFICES ASSUME StoresInit PROVE EntriesInv
  OBVIOUS
<1>1. TypeOK /\ runtime = <<>> /\ encrypted = <<>> /\ valid = <<>>
  BY InitTyped DEF StoresInit, Init
<1>2. <<>> \in Seq(Keys) /\ <<>> \in Seq(BOOLEAN) /\ Len(<<>>) = 0 /\ DOMAIN <<>> = {}
  OBVIOUS
<1>3. runtimeFile = [keys |-> <<>>, valid |-> <<>>] /\ encryptedFile = <<>>
  BY <1>1 DEF StoresInit, RuntimeEntries
<1>4. EntryTypes(<<>>, <<>>) /\ Marks(<<>>, <<>>)
  BY <1>2, ThresholdAssumption DEF EntryTypes, Marks
<1>5. ProbeTyped(Quiet) /\ Ahead(runtime, Quiet) /\ ~(Quiet.from <= Quiet.to)
  BY <1>2 DEF ProbeTyped, Ahead, Quiet
<1>6. FilesTyped /\ FilesHold
  BY <1>1, <1>2, <1>3, <1>4, ThresholdAssumption DEF FilesTyped, FilesHold, RuntimeEntries
<1>7. ProbesTyped
  BY <1>5 DEF StoresInit, ProbesTyped, Busy
<1>8. MarksHold
  BY <1>1, <1>3, <1>4, <1>5 DEF StoresInit, MarksHold
<1> QED
  BY <1>1, <1>6, <1>7, <1>8 DEF EntriesInv

LEMMA SameEntries ==
  ASSUME EntriesInv, TypeOK', UNCHANGED <<runtime, encrypted, storeVars>>
  PROVE  EntriesInv'
<1>1. UNCHANGED <<runtime, encrypted, valid, runtimeFile, encryptedFile, unread, up, probing,
                  accepted, mixed>>
  BY DEF storeVars, storeFiles
<1> QED
  BY <1>1 DEF EntriesInv, FilesTyped, FilesHold, RuntimeEntries, ProbesTyped, MarksHold, Marks,
              Ahead, Busy

LEMMA EntriesTyped ==
  ASSUME EntriesInv
  PROVE  /\ runtime \in Seq(Keys) /\ Len(runtime) \in Nat /\ DOMAIN runtime = 1..Len(runtime)
         /\ valid \in Seq(BOOLEAN) /\ Len(valid) = Len(runtime) /\ DOMAIN valid = DOMAIN runtime
  BY DEF EntriesInv, TypeOK, FilesTyped

(* What a saved change of the runtime store has to see to.                 *)
LEMMA SavedEntries ==
  ASSUME EntriesInv, TypeOK', SaveRuntime, UNCHANGED <<encrypted, encryptedFile>>,
         valid' \in Seq(BOOLEAN), Len(valid') = Len(runtime')
  PROVE  /\ FilesTyped' /\ FilesHold'
         /\ runtimeFile'.keys = runtime' /\ runtimeFile'.valid = valid'
<1>1. runtimeFile' = [keys |-> runtime', valid |-> valid'] /\ unread' = unread \ {"runtime"}
  BY DEF SaveRuntime
<1>2. runtimeFile'.keys = runtime' /\ runtimeFile'.valid = valid'
  BY <1>1
<1>3. runtime' \in Seq(Keys) /\ Len(runtime') <= MaxKeys
  BY DEF TypeOK
<1>4. FilesTyped'
  BY <1>1, <1>2, <1>3 DEF EntriesInv, FilesTyped, EntryTypes
<1>5. FilesHold'
  BY <1>1 DEF EntriesInv, FilesHold, RuntimeEntries
<1> QED
  BY <1>2, <1>4, <1>5

LEMMA KeyAdded ==
  ASSUME EntriesInv, TypeOK', SaveRuntime, UNCHANGED <<encrypted, encryptedFile, up, probing>>,
         NEW k \in Keys, runtime' = Append(runtime, k), FlagsFollow
  PROVE  EntriesInv'
<1>1. Len(runtime') = Len(runtime) + 1 /\ DOMAIN runtime' = 1..(Len(runtime) + 1)
      /\ runtime'[Len(runtime) + 1] = k /\ \A i \in DOMAIN runtime : runtime'[i] = runtime[i]
  BY EntriesTyped, AppendProperties
<1>2. \A i \in DOMAIN runtime : Len(RemoveAt(runtime, i)) = Len(runtime) - 1
  BY EntriesTyped, RemoveAtIs
<1>3. PICK ok \in BOOLEAN :
        /\ valid' = Append(valid, ok)
        /\ accepted' = IF ok THEN accepted \cup {runtime'[Len(runtime')]} ELSE accepted
        /\ mixed' = mixed
  <2>1. ASSUME NEW i \in DOMAIN runtime, runtime' = RemoveAt(runtime, i) PROVE FALSE
    <3>1. Len(runtime') = Len(runtime) - 1
      BY ONLY <2>1, <1>2
    <3> QED
      BY <3>1, <1>1, EntriesTyped
  <2> QED
    BY <2>1 DEF FlagsFollow
<1>4. /\ valid' \in Seq(BOOLEAN) /\ Len(valid') = Len(runtime')
      /\ valid'[Len(runtime) + 1] = ok /\ \A i \in DOMAIN runtime : valid'[i] = valid[i]
  BY <1>1, <1>3, EntriesTyped, AppendProperties
<1>5. accepted \subseteq accepted' /\ (ok => k \in accepted')
  BY <1>1, <1>3
<1>6. FilesTyped' /\ FilesHold' /\ runtimeFile'.keys = runtime' /\ runtimeFile'.valid = valid'
  BY <1>4, SavedEntries
<1>7. ProbesTyped'
  BY <1>3 DEF EntriesInv, ProbesTyped, Busy
<1>8. ASSUME ~mixed PROVE \A i \in DOMAIN runtime' : valid'[i] => runtime'[i] \in accepted'
  <2>1. \A i \in DOMAIN runtime' : i \in DOMAIN runtime \/ i = Len(runtime) + 1
    BY <1>1, EntriesTyped
  <2>2. \A i \in DOMAIN runtime : valid[i] => runtime[i] \in accepted
    BY <1>8 DEF EntriesInv, MarksHold, Marks
  <2> QED
    BY <1>1, <1>4, <1>5, <2>1, <2>2
<1>9. ASSUME ~mixed, NEW v \in Validators PROVE Ahead(runtime', probing'[v])
  <2>1. Ahead(runtime, probing[v]) /\ probing' = probing /\ DOMAIN runtime \subseteq DOMAIN runtime'
    BY <1>1, <1>9, EntriesTyped DEF EntriesInv, MarksHold
  <2> QED
    BY <1>1, <2>1 DEF Ahead
<1>10. MarksHold'
  BY <1>3, <1>6, <1>8, <1>9 DEF MarksHold, Marks
<1> QED
  BY <1>6, <1>7, <1>10 DEF EntriesInv

LEMMA KeyRemoved ==
  ASSUME EntriesInv, TypeOK', SaveRuntime, UNCHANGED <<encrypted, encryptedFile, up, probing>>,
         NEW i \in DOMAIN runtime, runtime' = RemoveAt(runtime, i), valid' = RemoveAt(valid, i),
         mixed' = (mixed \/ \E v \in Validators : Busy(v)), accepted' = accepted
  PROVE  EntriesInv'
<1>1. /\ Len(runtime') = Len(runtime) - 1 /\ DOMAIN runtime' = 1..(Len(runtime) - 1)
      /\ \A j \in DOMAIN runtime' : \E h \in DOMAIN runtime \ {i} :
           runtime'[j] = runtime[h] /\ h = IF j < i THEN j ELSE j + 1
  <2>1. runtime \in Seq(Keys)
    BY EntriesTyped
  <2> QED
    BY ONLY <2>1, i \in DOMAIN runtime, runtime' = RemoveAt(runtime, i), RemoveAtIs
<1>2. /\ valid' \in Seq(BOOLEAN) /\ Len(valid') = Len(valid) - 1
      /\ DOMAIN valid' = 1..(Len(valid) - 1)
      /\ \A j \in DOMAIN valid' : \E h \in DOMAIN valid \ {i} :
           valid'[j] = valid[h] /\ h = IF j < i THEN j ELSE j + 1
  <2>1. valid \in Seq(BOOLEAN) /\ i \in DOMAIN valid
    BY EntriesTyped
  <2> QED
    BY ONLY <2>1, valid' = RemoveAt(valid, i), RemoveAtIs
<1>3. FilesTyped' /\ FilesHold' /\ runtimeFile'.keys = runtime' /\ runtimeFile'.valid = valid'
  BY <1>1, <1>2, EntriesTyped, SavedEntries
<1>4. ProbesTyped'
  BY DEF EntriesInv, ProbesTyped, Busy
<1>5. ASSUME ~mixed', NEW j \in DOMAIN runtime', valid'[j] PROVE runtime'[j] \in accepted'
  <2>1. PICK h \in DOMAIN runtime : runtime'[j] = runtime[h] /\ valid'[j] = valid[h]
    BY <1>1, <1>2, EntriesTyped
  <2> QED
    BY <1>5, <2>1 DEF EntriesInv, MarksHold, Marks
<1>6. ASSUME ~mixed', NEW v \in Validators PROVE Ahead(runtime', probing'[v])
  BY <1>6 DEF Ahead, Busy
<1>7. MarksHold'
  BY <1>3, <1>5, <1>6 DEF MarksHold, Marks
<1> QED
  BY <1>3, <1>4, <1>7 DEF EntriesInv

LEMMA EditKeepsEntries == EntriesInv /\ EditAndSave => EntriesInv'
<1> SUFFICES ASSUME EntriesInv, EditAndSave PROVE EntriesInv'
  OBVIOUS
<1>1. TypeOK'
  BY OperatorKeepsTypes DEF EntriesInv, EditAndSave
<1>2. UNCHANGED <<up, probing>> /\ Edit
  BY DEF EditAndSave
<1>3. CASE runtime' # runtime
  <2>1. FlagsFollow /\ SaveRuntime /\ UNCHANGED encryptedFile
    BY <1>3 DEF EditAndSave
  <2>2. \/ \E k \in Keys : AddKey(k)
        \/ \E i \in DOMAIN runtime : DeleteKey(i)
    BY <1>2, <1>3 DEF Edit, AddEncryptedKey, DeleteEncryptedKey, SetEncrypted
  <2>3. UNCHANGED encrypted
    BY <2>2 DEF AddKey, DeleteKey, SetRuntime
  <2>4. ASSUME NEW k \in Keys, AddKey(k) PROVE EntriesInv'
    BY <1>1, <1>2, <2>1, <2>3, <2>4, KeyAdded DEF AddKey, SetRuntime
  <2>5. ASSUME NEW i \in DOMAIN runtime, DeleteKey(i) PROVE EntriesInv'
    <3>1. Len(runtime') = Len(runtime) - 1
      BY <2>5, EntriesTyped, RemoveAtIs DEF DeleteKey, SetRuntime
    <3>2. PICK j \in DOMAIN runtime :
            /\ runtime' = RemoveAt(runtime, j) /\ valid' = RemoveAt(valid, j)
            /\ mixed' = (mixed \/ \E v \in Validators : Busy(v)) /\ accepted' = accepted
      BY <2>1, <3>1, EntriesTyped DEF FlagsFollow
    <3> QED
      BY <1>1, <1>2, <2>1, <2>3, <3>2, KeyRemoved
  <2> QED
    BY <2>2, <2>4, <2>5
<1>4. CASE runtime' = runtime
  <2>1. /\ encryptedFile' = encrypted' /\ unread' = unread \ {"encrypted"}
        /\ UNCHANGED <<valid, runtimeFile, accepted, mixed>>
    BY <1>4 DEF EditAndSave
  <2>2. FilesTyped'
    BY <1>1, <1>4, <2>1 DEF EntriesInv, FilesTyped, EntryTypes, TypeOK
  <2>3. FilesHold'
    BY <1>4, <2>1 DEF EntriesInv, FilesHold, RuntimeEntries
  <2>4. ProbesTyped' /\ MarksHold'
    BY <1>2, <1>4, <2>1 DEF EntriesInv, ProbesTyped, MarksHold, Marks, Ahead, Busy
  <2> QED
    BY <1>1, <2>2, <2>3, <2>4 DEF EntriesInv
<1> QED
  BY <1>3, <1>4

LEMMA ValidationKeepsEntries ==
  ASSUME EntriesInv, NEW v \in Validators, NEW from \in DOMAIN runtime, NEW to \in DOMAIN runtime,
         StartValidation(v, from, to)
  PROVE  EntriesInv'
<1> DEFINE p == [keys |-> runtime, from |-> from, to |-> to]
<1>1. /\ probing' = [probing EXCEPT ![v] = p] /\ up
      /\ UNCHANGED <<vars, valid, runtimeFile, encryptedFile, unread, up, accepted, mixed>>
  BY DEF StartValidation, storeFiles
<1>2. TypeOK'
  BY <1>1 DEF EntriesInv, TypeOK, vars, keyLists, health, histories
<1>3. ProbeTyped(p) /\ Ahead(runtime, p)
  BY EntriesTyped DEF ProbeTyped, Ahead
<1> HIDE DEF p
<1>4. ProbesTyped'
  BY <1>1, <1>3 DEF EntriesInv, ProbesTyped, Busy
<1>5. UNCHANGED <<runtime, encrypted>>
  BY <1>1 DEF vars, keyLists
<1>6. FilesTyped' /\ FilesHold' /\ MarksHold'
  BY <1>1, <1>3, <1>5
  DEF EntriesInv, FilesTyped, FilesHold, RuntimeEntries, ProbesTyped, MarksHold, Marks
<1> QED
  BY <1>2, <1>4, <1>6 DEF EntriesInv

LEMMA AnswerKeepsEntries ==
  ASSUME EntriesInv, NEW v \in Validators, NEW ok \in BOOLEAN, FinishValidation(v, ok)
  PROVE  EntriesInv'
<1> DEFINE p == probing[v]
<1>1. /\ UNCHANGED <<vars, encryptedFile, up, mixed>> /\ Busy(v) /\ SetValidated(p.from, ok)
      /\ accepted' = IF ok THEN accepted \cup {p.keys[p.from]} ELSE accepted
      /\ probing' = [probing EXCEPT ![v] = IF p.from = p.to THEN Quiet ELSE [p EXCEPT !.from = @ + 1]]
      /\ up
  BY DEF FinishValidation
<1>2. /\ ProbeTyped(p) /\ p.from \in DOMAIN p.keys /\ p.from <= p.to
      /\ p.keys \in Seq(Keys) /\ p.from \in Nat /\ p.to \in Nat
  BY <1>1 DEF EntriesInv, ProbesTyped, ProbeTyped, Busy
<1>3. UNCHANGED <<runtime, encrypted>> /\ TypeOK'
  BY <1>1 DEF EntriesInv, TypeOK, vars, keyLists, health, histories
<1>4. ProbeTyped(probing'[v]) /\ (~mixed => Ahead(runtime, probing'[v]))
  <2>1. CASE p.from = p.to
    <3>1. probing'[v] = Quiet
      BY <1>1, <2>1 DEF EntriesInv, ProbesTyped
    <3>2. ProbeTyped(Quiet) /\ Ahead(runtime, Quiet)
      BY DEF ProbeTyped, Ahead, Quiet
    <3> QED
      BY <3>1, <3>2
  <2>2. CASE p.from # p.to
    <3>1. probing'[v] = [keys |-> p.keys, from |-> p.from + 1, to |-> p.to]
      <4>1. probing'[v] = [p EXCEPT !.from = @ + 1]
        BY <1>1, <2>2 DEF EntriesInv, ProbesTyped
      <4>2. p = [keys |-> p.keys, from |-> p.from, to |-> p.to]
        BY <1>2 DEF ProbeTyped
      <4> QED
        BY <4>1, <4>2
    <3>2. DOMAIN p.keys = 1..Len(p.keys) /\ Len(p.keys) \in Nat /\ p.to \in DOMAIN p.keys
      BY <1>2 DEF ProbeTyped
    <3>3. p.from + 1 \in DOMAIN p.keys /\ p.from + 1 \in Nat
      BY <1>2, <2>2, <3>2
    <3>4. ProbeTyped(probing'[v])
      BY <1>2, <3>1, <3>2, <3>3 DEF ProbeTyped
    <3>5. ~mixed => Ahead(runtime, p)
      BY DEF EntriesInv, MarksHold
    <3> QED
      BY <1>2, <3>1, <3>4, <3>5 DEF Ahead
  <2> QED
    BY <2>1, <2>2
<1>5. ASSUME NEW w \in Validators, w # v PROVE probing'[w] = probing[w]
  BY <1>1, <1>5 DEF EntriesInv, ProbesTyped
<1>6. ProbesTyped'
  BY <1>1, <1>4, <1>5 DEF EntriesInv, ProbesTyped, Busy
<1>7. \A w \in Validators : ~mixed => Ahead(runtime', probing'[w])
  BY <1>3, <1>4, <1>5 DEF EntriesInv, MarksHold
<1>8. accepted \subseteq accepted' /\ (ok => p.keys[p.from] \in accepted')
  BY <1>1
<1>9. CASE p.from \in DOMAIN runtime
  <2>1. valid' = [valid EXCEPT ![p.from] = ok] /\ SaveRuntime
    BY <1>1, <1>9 DEF SetValidated
  <2>2. valid' \in Seq(BOOLEAN) /\ Len(valid') = Len(runtime')
    <3>1. valid \in Seq(BOOLEAN) /\ p.from \in 1..Len(valid)
      BY <1>9, EntriesTyped
    <3>2. valid' \in Seq(BOOLEAN) /\ Len(valid') = Len(valid)
      BY ONLY <2>1, <3>1, ok \in BOOLEAN, ExceptSeq
    <3> QED
      BY <1>3, <3>2, EntriesTyped
  <2>3. FilesTyped' /\ FilesHold' /\ runtimeFile'.keys = runtime' /\ runtimeFile'.valid = valid'
    BY <1>1, <1>3, <2>1, <2>2, SavedEntries
  <2>4. ASSUME ~mixed, NEW i \in DOMAIN runtime, valid'[i] PROVE runtime[i] \in accepted'
    <3>1. CASE i = p.from
      <4>1. ok
        BY <2>1, <2>4, <3>1, EntriesTyped
      <4>2. runtime[i] = p.keys[p.from]
        BY <1>2, <2>4, <3>1 DEF EntriesInv, MarksHold, Ahead
      <4> QED
        BY <1>8, <4>1, <4>2
    <3>2. CASE i # p.from
      <4>1. valid[i]
        BY <2>1, <2>4, <3>2, EntriesTyped
      <4> QED
        BY <1>8, <2>4, <4>1 DEF EntriesInv, MarksHold, Marks
    <3> QED
      BY <3>1, <3>2
  <2>5. MarksHold'
    BY <1>1, <1>3, <1>7, <2>3, <2>4 DEF MarksHold, Marks
  <2> QED
    BY <1>3, <1>6, <2>3, <2>5 DEF EntriesInv
<1>10. CASE p.from \notin DOMAIN runtime
  <2>1. UNCHANGED <<valid, runtimeFile, unread>>
    BY <1>1, <1>10 DEF SetValidated
  <2>2. FilesTyped' /\ FilesHold'
    BY <1>1, <1>3, <2>1 DEF EntriesInv, FilesTyped, FilesHold, RuntimeEntries
  <2>3. MarksHold'
    BY <1>1, <1>3, <1>7, <1>8, <2>1 DEF EntriesInv, MarksHold, Marks
  <2> QED
    BY <1>3, <1>6, <2>2, <2>3 DEF EntriesInv
<1> QED
  BY <1>9, <1>10

LEMMA SyncKeepsEntries == EntriesInv /\ SyncAll => EntriesInv'
<1> SUFFICES ASSUME EntriesInv, SyncAll PROVE EntriesInv'
  OBVIOUS
<1>1. UNCHANGED <<runtime, encrypted, storeVars>>
  BY DEF SyncAll, SyncOthers
<1>2. TypeOK'
  BY OperatorKeepsTypes DEF EntriesInv, SyncAll
<1> QED
  BY <1>1, <1>2, SameEntries

LEMMA CrashKeepsEntries == EntriesInv /\ CrashStores => EntriesInv'
<1> SUFFICES ASSUME EntriesInv, CrashStores PROVE EntriesInv'
  OBVIOUS
<1>1. /\ runtimeFile' \in {runtimeFile, Torn} /\ encryptedFile' \in {encryptedFile, Torn}
      /\ up' = FALSE /\ probing' = [v \in Validators |-> Quiet] /\ disabled_keys' = {}
      /\ UNCHANGED <<keyLists, health, testing, slot, histories, valid, accepted, mixed, unread>>
  BY DEF CrashStores
<1>2. TypeOK'
  BY <1>1 DEF EntriesInv, TypeOK, keyLists, health, histories
<1>3. UNCHANGED <<runtime, encrypted>>
  BY <1>1 DEF keyLists
<1>4. ProbeTyped(Quiet) /\ Ahead(runtime, Quiet) /\ ~(Quiet.from <= Quiet.to)
  BY DEF ProbeTyped, Ahead, Quiet
<1>5. ProbesTyped'
  BY <1>1, <1>4 DEF EntriesInv, ProbesTyped, Busy
<1>6. FilesTyped' /\ FilesHold' /\ MarksHold'
  BY <1>1, <1>3, <1>4 DEF EntriesInv, FilesTyped, FilesHold, RuntimeEntries, MarksHold, Marks
<1> QED
  BY <1>2, <1>5, <1>6 DEF EntriesInv

(* What a start finds: a store that is not unread is as it was, and the    *)
(* provider has a key if the environment has one.                          *)
LEMMA RestartLoads ==
  ASSUME EntriesInv, NEW readable \in BOOLEAN, RestartStores(readable)
  PROVE  /\ \/ runtime' = <<>> /\ valid' = <<>>
            \/ runtimeFile # Torn /\ runtime' = runtimeFile.keys /\ valid' = runtimeFile.valid
         /\ \/ encrypted' = <<>>
            \/ encryptedFile # Torn /\ encrypted' = encryptedFile
         /\ api_keys' = IF runtime' # <<>> THEN runtime' ELSE EnvKeys
         /\ "runtime" \notin unread' =>
              runtimeFile # Torn /\ runtime' = runtimeFile.keys /\ valid' = runtimeFile.valid
         /\ "encrypted" \notin unread' => encryptedFile # Torn /\ encrypted' = encryptedFile
<1>1. runtimeFile # Torn => runtimeFile # <<>>
  <2>1. ASSUME runtimeFile # Torn, runtimeFile = <<>> PROVE FALSE
    <3>1. "keys" \in DOMAIN runtimeFile
      BY <2>1 DEF EntriesInv, FilesTyped
    <3> QED
      BY <2>1, <3>1
  <2> QED
    BY <2>1
<1>2. "runtime" \notin unread' => readable /\ runtimeFile # Torn
  BY DEF RestartStores, FailedLoads
<1>3. "encrypted" \notin unread' => readable /\ encryptedFile # Torn
  BY DEF RestartStores, FailedLoads
<1>4. CASE readable /\ runtimeFile # Torn
  <2>1. Loaded(runtimeFile, readable) = runtimeFile
    BY <1>4 DEF Loaded
  <2>2. runtime' = runtimeFile.keys /\ valid' = runtimeFile.valid
    BY <1>1, <1>4, <2>1 DEF RestartStores
  <2> QED
    BY <1>3, <1>4, <2>2 DEF RestartStores, Loaded
<1>5. CASE ~(readable /\ runtimeFile # Torn)
  <2>1. Loaded(runtimeFile, readable) = <<>>
    BY <1>5 DEF Loaded
  <2>2. runtime' = <<>> /\ valid' = <<>>
    BY <2>1 DEF RestartStores
  <2> QED
    BY <1>2, <1>3, <1>5, <2>2 DEF RestartStores, Loaded
<1> QED
  BY <1>4, <1>5

LEMMA RestartKeepsEntries ==
  ASSUME EntriesInv, NEW readable \in BOOLEAN, RestartStores(readable)
  PROVE  EntriesInv'
<1>1. /\ UNCHANGED <<disabled_keys, health, testing, slot, histories>>
      /\ UNCHANGED <<runtimeFile, encryptedFile, probing, accepted, mixed>>
      /\ ~up /\ up' = TRUE
  BY DEF RestartStores
<1>2. <<>> \in Seq(Keys) /\ <<>> \in Seq(BOOLEAN) /\ Len(<<>>) = 0 /\ DOMAIN <<>> = {}
  OBVIOUS
<1>3. /\ runtime' \in Seq(Keys) /\ Len(runtime') <= MaxKeys
      /\ valid' \in Seq(BOOLEAN) /\ Len(valid') = Len(runtime')
      /\ encrypted' \in Seq(Keys) /\ Len(encrypted') <= MaxKeys
  <2>1. 0 <= MaxKeys
    BY ThresholdAssumption
  <2>2. runtimeFile # Torn => EntryTypes(runtimeFile.keys, runtimeFile.valid)
    BY DEF EntriesInv, FilesTyped
  <2>3. EntryTypes(<<>>, <<>>)
    BY <1>2, <2>1 DEF EntryTypes
  <2>4. EntryTypes(runtime', valid')
    BY <2>2, <2>3, RestartLoads
  <2>5. encryptedFile # Torn => encryptedFile \in Seq(Keys) /\ Len(encryptedFile) <= MaxKeys
    BY DEF EntriesInv, FilesTyped
  <2>6. encrypted' \in Seq(Keys) /\ Len(encrypted') <= MaxKeys
    BY <1>2, <2>1, <2>5, RestartLoads
  <2> QED
    BY <2>4, <2>6 DEF EntryTypes
<1>4. api_keys' \in Seq(Keys) /\ Len(api_keys') <= MaxKeys
  BY <1>3, RestartLoads, EnvKeysAssumption
<1>5. TypeOK'
  BY <1>1, <1>3, <1>4 DEF EntriesInv, TypeOK, health, histories
<1>6. FilesTyped'
  BY <1>1, <1>3 DEF EntriesInv, FilesTyped
<1>7. FilesHold'
  <2>1. ASSUME runtimeFile # Torn, "runtime" \notin unread' PROVE (runtimeFile = RuntimeEntries)'
    <3>1. runtime' = runtimeFile.keys /\ valid' = runtimeFile.valid /\ runtimeFile' = runtimeFile
      BY <1>1, <2>1, RestartLoads
    <3>2. runtimeFile = [keys |-> runtimeFile.keys, valid |-> runtimeFile.valid]
      BY <2>1 DEF EntriesInv, FilesTyped
    <3> QED
      BY <3>1, <3>2 DEF RuntimeEntries
  <2>2. ASSUME encryptedFile # Torn, "encrypted" \notin unread' PROVE (encryptedFile = encrypted)'
    BY <1>1, <2>2, RestartLoads
  <2> QED
    BY <1>1, <2>1, <2>2 DEF FilesHold
<1>8. \A v \in Validators : ~(probing[v].from <= probing[v].to)
  BY <1>1 DEF EntriesInv, ProbesTyped, Busy
<1>9. ProbesTyped'
  BY <1>1, <1>8 DEF EntriesInv, ProbesTyped, Busy
<1>10. MarksHold'
  <2>1. ASSUME ~mixed PROVE Marks(runtime, valid)'
    <3>1. CASE runtime' = <<>>
      BY <3>1, <1>2 DEF Marks
    <3>2. CASE runtime' # <<>>
      BY <2>1, <3>2, <1>1, RestartLoads DEF EntriesInv, MarksHold, Marks
    <3> QED
      BY <3>1, <3>2
  <2>2. ASSUME ~mixed, runtimeFile # Torn PROVE Marks(runtimeFile.keys, runtimeFile.valid)'
    BY <2>2, <1>1 DEF EntriesInv, MarksHold, Marks
  <2>3. \A v \in Validators : Ahead(runtime, probing[v])'
    BY <1>1, <1>8 DEF Ahead
  <2> QED
    BY <1>1, <2>1, <2>2, <2>3 DEF MarksHold
<1> QED
  BY <1>5, <1>6, <1>7, <1>9, <1>10 DEF EntriesInv

LEMMA StepEntries == EntriesInv /\ [StoresNext]_allVars => EntriesInv'
<1> SUFFICES ASSUME EntriesInv, [StoresNext]_allVars PROVE EntriesInv'
  OBVIOUS
<1>1. CASE ToggleOnly
  <2>1. TypeOK'
    BY <1>1, OperatorKeepsTypes DEF ToggleOnly, EntriesInv
  <2>2. UNCHANGED <<runtime, encrypted, storeVars>>
    BY <1>1 DEF ToggleOnly, Toggle, EnableKey, DisableByHand, Toggled, keyLists
  <2> QED
    BY <2>1, <2>2, SameEntries
<1>2. CASE EditAndSave
  BY <1>2, EditKeepsEntries
<1>3. CASE SyncAll
  BY <1>3, SyncKeepsEntries
<1>4. ASSUME NEW v \in Validators, NEW i \in DOMAIN runtime, StartValidation(v, i, i)
      PROVE  EntriesInv'
  BY <1>4, ValidationKeepsEntries
<1>5. ASSUME NEW v \in Validators, runtime # <<>>, StartValidation(v, 1, Len(runtime))
      PROVE  EntriesInv'
  <2>1. 1 \in DOMAIN runtime /\ Len(runtime) \in DOMAIN runtime
    BY <1>5, EntriesTyped, EmptySeq
  <2> QED
    BY <1>5, <2>1, ValidationKeepsEntries
<1>6. ASSUME NEW v \in Validators, NEW ok \in BOOLEAN, FinishValidation(v, ok) PROVE EntriesInv'
  BY <1>6, AnswerKeepsEntries
<1>7. CASE CrashStores
  BY <1>7, CrashKeepsEntries
<1>8. ASSUME NEW readable \in BOOLEAN, RestartStores(readable) PROVE EntriesInv'
  BY <1>8, RestartKeepsEntries
<1>9. CASE UNCHANGED allVars
  <2>1. TypeOK'
    BY <1>9 DEF allVars, vars, keyLists, health, histories, EntriesInv, TypeOK
  <2>2. UNCHANGED <<runtime, encrypted, storeVars>>
    BY <1>9 DEF allVars, vars, keyLists
  <2> QED
    BY <2>1, <2>2, SameEntries
<1> QED
  BY <1>1, <1>2, <1>3, <1>4, <1>5, <1>6, <1>7, <1>8, <1>9 DEF StoresNext

(* A key is marked valid only after the provider has accepted it, however  *)
(* validations overlap with one another, with additions, crashes and       *)
(* restarts, unless a key was removed meanwhile (validate_key,             *)
(* set_validated, _load).                                                  *)
THEOREM MarksAreOfAccepted == StoresSpec => []MarkedIsAccepted
<1>1. EntriesInv => MarkedIsAccepted
  BY EntriesImply
<1> QED
  BY <1>1, InitEntries, StepEntries, PTL DEF StoresSpec

(* A restart finds again what a store had whose file could be read, and    *)
(* leaves a provider without keys only when the environment has none       *)
(* (_load, _save, lifespan).                                               *)
THEOREM RestartsKeepStores == StoresSpec => RestartKeepsStores
<1> DEFINE Kept ==
      /\ "runtime" \notin unread \cup unread' => <<runtime, valid>>' = <<runtime, valid>>
      /\ "encrypted" \notin unread \cup unread' => encrypted' = encrypted
      /\ EnvKeys # <<>> => api_keys' # <<>>
<1>1. ASSUME EntriesInv, StoresNext, ~up, up' PROVE Kept
  <2>1. PICK readable \in BOOLEAN : RestartStores(readable)
    BY <1>1 DEF StoresNext, ToggleOnly, EditAndSave, SyncAll, StartValidation, FinishValidation,
                CrashStores
  <2>2. ASSUME "runtime" \notin unread \cup unread' PROVE runtime' = runtime /\ valid' = valid
    <3>1. runtimeFile # Torn /\ runtime' = runtimeFile.keys /\ valid' = runtimeFile.valid
      BY <1>1, <2>1, <2>2, RestartLoads
    <3>2. runtimeFile = [keys |-> runtime, valid |-> valid]
      BY <1>1, <2>2, <3>1 DEF EntriesInv, FilesHold, RuntimeEntries
    <3> QED
      BY <3>1, <3>2
  <2>3. ASSUME "encrypted" \notin unread \cup unread' PROVE encrypted' = encrypted
    BY <1>1, <2>1, <2>3, RestartLoads DEF EntriesInv, FilesHold
  <2>4. EnvKeys # <<>> => api_keys' # <<>>
    BY <1>1, <2>1, RestartLoads
  <2> QED
    BY <2>2, <2>3, <2>4
<1>2. EntriesInv /\ [StoresNext]_allVars => [~up /\ up' => Kept]_allVars
  BY <1>1
<1> QED
  BY <1>2, InitEntries, StepEntries, PTL DEF StoresSpec, RestartKeepsStores
(* The histories of the stores, too, have their types. *)
HistoriesTyped == accepted \subseteq Keys /\ unread \subseteq {"runtime", "encrypted"}

LEMMA HistoriesStay ==
  EntriesInv /\ HistoriesTyped /\ [StoresNext]_allVars => HistoriesTyped'
<1> SUFFICES ASSUME EntriesInv, HistoriesTyped, [StoresNext]_allVars PROVE HistoriesTyped'
  OBVIOUS
<1> USE DEF HistoriesTyped
<1>1. ASSUME UNCHANGED <<accepted, unread>> PROVE HistoriesTyped'
  BY <1>1
<1>2. CASE ToggleOnly \/ SyncAll \/ CrashStores \/ UNCHANGED allVars
  BY <1>1, <1>2 DEF ToggleOnly, SyncAll, CrashStores, allVars, storeVars, storeFiles
<1>3. CASE EditAndSave
  <2>1. runtime' \in Seq(Keys)
    BY <1>3, OperatorKeepsTypes DEF EntriesInv, EditAndSave, TypeOK
  <2>2. CASE runtime' # runtime
    <3>1. FlagsFollow /\ unread' = unread \ {"runtime"}
      BY <1>3, <2>2 DEF EditAndSave, SaveRuntime
    <3>2. \/ Len(runtime') > Len(runtime) /\ accepted' \subseteq accepted \cup {runtime'[Len(runtime')]}
          \/ accepted' = accepted
      BY <3>1 DEF FlagsFollow
    <3>3. ASSUME Len(runtime') > Len(runtime) PROVE runtime'[Len(runtime')] \in Keys
      <4>1. Len(runtime) \in Nat /\ Len(runtime') \in Nat
        BY <2>1, LenProperties DEF EntriesInv, TypeOK
      <4>2. Len(runtime') \in 1..Len(runtime')
        BY <3>3, <4>1
      <4> QED
        BY <2>1, <4>2, ElementOfSeq
    <3> QED
      BY <3>1, <3>2, <3>3
  <2>3. CASE runtime' = runtime
    BY <1>1, <1>3, <2>3 DEF EditAndSave
  <2> QED
    BY <2>2, <2>3
<1>4. ASSUME NEW v \in Validators, NEW from, NEW to, StartValidation(v, from, to) PROVE HistoriesTyped'
  BY <1>1, <1>4 DEF StartValidation, storeFiles
<1>5. ASSUME NEW v \in Validators, NEW ok \in BOOLEAN, FinishValidation(v, ok) PROVE HistoriesTyped'
  <2>1. unread' \subseteq unread
    BY <1>5 DEF FinishValidation, SetValidated, SaveRuntime
  <2>2. accepted' \subseteq accepted \cup {probing[v].keys[probing[v].from]} /\ Busy(v)
    BY <1>5 DEF FinishValidation
  <2>3. probing[v].keys \in Seq(Keys) /\ probing[v].from \in DOMAIN probing[v].keys
    BY <2>2 DEF EntriesInv, ProbesTyped, ProbeTyped, Busy
  <2>4. probing[v].keys[probing[v].from] \in Keys
    BY <2>3, LenProperties, ElementOfSeq
  <2> QED
    BY <2>1, <2>2, <2>4
<1>6. ASSUME NEW readable \in BOOLEAN, RestartStores(readable) PROVE HistoriesTyped'
  BY <1>6 DEF RestartStores, FailedLoads
<1> QED
  BY <1>2, <1>3, <1>4, <1>5, <1>6 DEF StoresNext

LEMMA StoresTypes == EntriesInv /\ HistoriesTyped => StoresTypeOK
<1> SUFFICES ASSUME EntriesInv, HistoriesTyped PROVE StoresTypeOK
  OBVIOUS
<1>1. ASSUME NEW keys, NEW marks, keys \in Seq(Keys), marks \in Seq(BOOLEAN), Len(marks) = Len(keys)
      PROVE  marks \in [DOMAIN keys -> BOOLEAN]
  BY <1>1, LenProperties
<1>2. TypeOK /\ runtime \in Seq(Keys)
  BY DEF EntriesInv, TypeOK
<1>3. valid \in [DOMAIN runtime -> BOOLEAN]
  BY <1>1, <1>2 DEF EntriesInv, FilesTyped
<1>4. runtimeFile # Torn =>
        runtimeFile.keys \in Seq(Keys) /\ runtimeFile.valid \in [DOMAIN runtimeFile.keys -> BOOLEAN]
  BY <1>1 DEF EntriesInv, FilesTyped, EntryTypes
<1>5. encryptedFile \in Seq(Keys) \cup {Torn}
  BY DEF EntriesInv, FilesTyped
<1>6. up \in BOOLEAN /\ mixed \in BOOLEAN
  BY DEF EntriesInv, ProbesTyped
<1>7. ASSUME NEW v \in Validators, Busy(v)
      PROVE  {probing[v].from, probing[v].to} \subseteq DOMAIN probing[v].keys
  BY <1>7 DEF EntriesInv, ProbesTyped, ProbeTyped, Busy
<1> QED
  BY <1>2, <1>3, <1>4, <1>5, <1>6, <1>7 DEF HistoriesTyped, StoresTypeOK

(* A flag belongs to each entry of the runtime store, in memory and in its *)
(* file, however its list is edited while validations wait (set_validated).*)
THEOREM StoresTyped == StoresSpec => []StoresTypeOK
<1>1. StoresInit => HistoriesTyped
  BY DEF StoresInit, HistoriesTyped
<1> QED
  BY <1>1, InitEntries, StepEntries, HistoriesStay, StoresTypes, PTL DEF StoresSpec
-----------------------------------------------------------------------------
(***************************************************************************)
(* models.yaml and its scripts.  FilesInv: what the state file takes for   *)
(* known, and what a run of auto_update.py has read of it or is about to   *)
(* write to it, has been in models.yaml.                                   *)
(***************************************************************************)

Yamls == [ModelIds -> Seq(Offering)]
Knowns == [Offering -> SUBSET ModelIds]

RunsTyped ==
  /\ yaml = Unreadable \/ yaml \in Yamls
  /\ copy \in [Runs -> Yamls]
  /\ stage \in [Runs -> {"idle", "read", "written"}]
  /\ known = Unreadable \/ known \in Knowns
  /\ legible \in BOOLEAN
  /\ noted \in [AutoRuns -> Knowns]
  /\ had \subseteq ModelIds

AllHad ==
  /\ known # Unreadable => \A p \in Offering : known[p] \subseteq had
  /\ \A r \in AutoRuns : \A p \in Offering : noted[r][p] \subseteq had

FilesInv == RunsTyped /\ AllHad

(* What a script makes of a model's fallbacks is a list of providers that  *)
(* begins with them, and not empty when there is one to add.               *)
LEMMA AddedTo ==
  ASSUME NEW f \in Seq(Offering), NEW S \in SUBSET Offering
  PROVE  /\ SyncedWith(f, S) \in Seq(Offering) /\ IsPrefix(f, SyncedWith(f, S))
         /\ UpdatedWith(f, S) \in Seq(Offering) /\ IsPrefix(f, UpdatedWith(f, S))
         /\ f # <<>> => SyncedWith(f, S) # <<>>
         /\ f # <<>> \/ S # {} => UpdatedWith(f, S) # <<>>
<1>1. ProviderOrder \in Seq(Offering)
  BY ModelFilesAssumption
<1>2. ASSUME NEW X PROVE Only(ProviderOrder, X) \in Seq(Offering)
  BY <1>1, OnlyType
<1>3. ASSUME NEW g \in Seq(Offering)
      PROVE  /\ f \o g \in Seq(Offering) /\ IsPrefix(f, f \o g)
             /\ f # <<>> => f \o g # <<>>
  <2>1. /\ f \o g \in Seq(Offering) /\ Len(f \o g) = Len(f) + Len(g)
        /\ \A i \in 1..(Len(f) + Len(g)) : (f \o g)[i] = IF i <= Len(f) THEN f[i] ELSE g[i - Len(f)]
    BY ConcatProperties
  <2>2. Len(f) \in Nat /\ Len(g) \in Nat
    BY LenProperties
  <2>3. IsPrefix(f, f \o g)
    <3> DEFINE h == f \o g
    <3> HIDE DEF h
    <3>1. Len(f) <= Len(h) /\ \A i \in 1..Len(f) : h[i] = f[i]
      BY <2>1, <2>2 DEF h
    <3>2. /\ SubSeq(f, 1, Len(f)) \in Seq(Offering) /\ Len(SubSeq(f, 1, Len(f))) = Len(f)
          /\ \A i \in 1..Len(f) : SubSeq(f, 1, Len(f))[i] = f[i]
      BY <2>2, SubSeqProperties
    <3>3. /\ SubSeq(h, 1, Len(f)) \in Seq(Offering) /\ Len(SubSeq(h, 1, Len(f))) = Len(f)
          /\ \A i \in 1..Len(f) : SubSeq(h, 1, Len(f))[i] = h[i]
      BY <2>1, <2>2, <3>1, SubSeqProperties DEF h
    <3>4. SubSeq(f, 1, Len(f)) = SubSeq(h, 1, Len(f))
      BY <3>1, <3>2, <3>3, SeqEqual
    <3> QED
      BY <3>1, <3>4 DEF IsPrefix, h
  <2>4. f # <<>> => f \o g # <<>>
    BY <2>1, <2>2, EmptySeq
  <2> QED
    BY <2>1, <2>3, <2>4
<1>4. SyncedWith(f, S) \in Seq(Offering) /\ IsPrefix(f, SyncedWith(f, S))
      /\ (f # <<>> => SyncedWith(f, S) # <<>>)
  BY <1>2, <1>3 DEF SyncedWith
<1>5. IsPrefix(f, f)
  <2>1. Len(f) <= Len(f)
    BY LenProperties
  <2> QED
    BY <2>1 DEF IsPrefix
<1>6. CASE f = <<>> /\ S # {}
  <2> DEFINE first == Only(ProviderOrder, S)
  <2>1. ToSet(first) = S
    <3>1. ToSet(Only(ProviderOrder, S)) = ToSet(ProviderOrder) \cap S
      BY <1>1, OnlyElements
    <3>2. ToSet(ProviderOrder) \cap S = S
      BY DEF Offering
    <3> QED
      BY <3>1, <3>2
  <2>2. first \in Seq(Offering) /\ first # <<>>
    BY <1>2, <1>6, <2>1, ToSetEmpty
  <2>3. Head(first) \in Offering
    BY <2>2, HeadTailProperties
  <2>4. UpdatedWith(f, S) = <<Head(first)>>
    BY <1>6 DEF UpdatedWith
  <2> HIDE DEF first
  <2>5. UpdatedWith(f, S) \in Seq(Offering) /\ UpdatedWith(f, S) # <<>>
    BY <2>3, <2>4
  <2>6. <<>> \o UpdatedWith(f, S) = UpdatedWith(f, S)
    BY <2>5
  <2> QED
    BY <1>3, <1>4, <1>6, <2>5, <2>6
<1>7. CASE ~(f = <<>> /\ S # {})
  BY <1>4, <1>5, <1>7 DEF UpdatedWith
<1> QED
  BY <1>6, <1>7

(* What a run writes has every model its copy has, with the fallbacks of   *)
(* the copy first, and auto_update.py's has what is new.                   *)
LEMMA WritesAll ==
  ASSUME RunsTyped, NEW r \in Runs, NEW keyed, NEW offer \in Knowns, r \in AutoRuns => r \notin SyncRuns
  PROVE  /\ Written(r, keyed, offer) \in Yamls
         /\ \A n \in ModelIds : IsPrefix(copy[r][n], Written(r, keyed, offer)[n])
                                /\ (copy[r][n] # <<>> => Written(r, keyed, offer)[n] # <<>>)
         /\ r \in AutoRuns => \A p \in Offering : NewIn(r, keyed, offer)[p] \subseteq Defined(Written(r, keyed, offer))
<1> DEFINE w == Written(r, keyed, offer)
<1>1. copy[r] \in Yamls
  BY DEF RunsTyped
<1>2. ASSUME NEW n \in ModelIds
      PROVE  /\ w[n] \in Seq(Offering) /\ IsPrefix(copy[r][n], w[n])
             /\ copy[r][n] # <<>> => w[n] # <<>>
             /\ r \in AutoRuns /\ OfferingOf(n, NewIn(r, keyed, offer)) # {} => w[n] # <<>>
  <2>1. copy[r][n] \in Seq(Offering)
    BY <1>1 DEF Yamls
  <2>2. OfferingOf(n, offer) \in SUBSET Offering /\ OfferingOf(n, NewIn(r, keyed, offer)) \in SUBSET Offering
    BY DEF OfferingOf
  <2>3. w[n] = IF r \in SyncRuns THEN SyncedWith(copy[r][n], OfferingOf(n, offer))
                                 ELSE UpdatedWith(copy[r][n], OfferingOf(n, NewIn(r, keyed, offer)))
    BY DEF Written
  <2> HIDE DEF w
  <2>4. CASE r \in SyncRuns
    BY <2>1, <2>2, <2>3, <2>4, AddedTo
  <2>5. CASE r \notin SyncRuns
    BY <2>1, <2>2, <2>3, <2>5, AddedTo
  <2> QED
    BY <2>4, <2>5
<1>3. w \in Yamls
  <2>1. w = [n \in ModelIds |-> w[n]]
    BY DEF Written
  <2> HIDE DEF w
  <2> QED
    BY <1>2, <2>1 DEF Yamls
<1>4. ASSUME r \in AutoRuns, NEW p \in Offering, NEW n \in NewIn(r, keyed, offer)[p]
      PROVE  w[n] # <<>>
  <2>1. n \in ModelIds
    BY <1>4 DEF NewIn, Knowns
  <2>2. p \in OfferingOf(n, NewIn(r, keyed, offer))
    BY <1>4 DEF OfferingOf
  <2> QED
    BY <1>2, <1>4, <2>1, <2>2
<1>5. \A p \in Offering : NewIn(r, keyed, offer)[p] \subseteq ModelIds
  BY DEF NewIn, Knowns
<1>6. w # Unreadable
  BY <1>3, ModelFilesAssumption DEF Yamls
<1> QED
  BY <1>2, <1>3, <1>4, <1>5, <1>6 DEF Defined

LEMMA RunsAreApart == \A r \in Runs : r \in AutoRuns => r \notin SyncRuns
BY ModelFilesAssumption DEF Runs

LEMMA OffersTyped == \A offer \in Offers : offer \in Knowns
BY ModelFilesAssumption DEF Knowns

(* The end of a run leaves the others as they are. *)
LEMMA IdleKeeps ==
  ASSUME RunsTyped, NEW r \in Runs, Idle(r)
  PROVE  /\ stage' \in [Runs -> {"idle", "read", "written"}] /\ stage'[r] = "idle"
         /\ copy' \in [Runs -> Yamls] /\ noted' \in [AutoRuns -> Knowns]
         /\ \A a \in Runs : a # r => stage'[a] = stage[a] /\ copy'[a] = copy[a]
         /\ \A a \in AutoRuns : a # r => noted'[a] = noted[a]
<1>1. NoModels \in Yamls /\ NoneKnown \in Knowns
  BY DEF NoModels, NoneKnown, Yamls, Knowns
<1>2. \A a \in AutoRuns : noted'[a] = IF a = r THEN NoneKnown ELSE noted[a]
  BY DEF Idle
<1>3. noted' \in [AutoRuns -> Knowns]
  BY <1>1 DEF Idle, RunsTyped
<1> QED
  BY <1>1, <1>2, <1>3 DEF Idle, RunsTyped

LEMMA BeginKeepsFiles ==
  ASSUME FilesInv, NEW r \in Runs, Begin(r) PROVE FilesInv'
<1> USE DEF FilesInv, RunsTyped
<1>1. (r \in AutoRuns => known \in Knowns /\ known # Unreadable) /\ yaml \in Yamls
  BY DEF Begin
<1>2. stage' \in [Runs -> {"idle", "read", "written"}] /\ copy' \in [Runs -> Yamls]
  BY <1>1 DEF Begin
<1>3. /\ noted' \in [AutoRuns -> Knowns]
      /\ \A a \in AutoRuns : noted'[a] = IF a = r THEN known ELSE noted[a]
  BY <1>1 DEF Begin
<1>4. UNCHANGED <<yaml, known, legible, had>>
  BY DEF Begin, fileVars
<1>5. AllHad'
  BY <1>1, <1>3, <1>4 DEF AllHad
<1> QED
  BY <1>2, <1>3, <1>4, <1>5

(* What a run notes as known it adds to models.yaml, or had been there. *)
LEMMA SaveYamlKeepsFiles ==
  ASSUME FilesInv, NEW r \in Runs, NEW keyed \in SUBSET Offering, NEW offer \in Offers,
         SaveYaml(r, keyed, offer)
  PROVE  FilesInv'
<1> USE DEF FilesInv, RunsTyped
<1> DEFINE w == Written(r, keyed, offer)
           then == [p \in Offering |-> IF p \in keyed THEN offer[p] ELSE noted[r][p]]
<1>1. offer \in Knowns /\ (r \in AutoRuns => r \notin SyncRuns)
  BY OffersTyped, RunsAreApart
<1>2. w \in Yamls /\ (r \in AutoRuns => \A p \in Offering : NewIn(r, keyed, offer)[p] \subseteq Defined(w))
  BY <1>1, WritesAll
<1> HIDE DEF w
<1>3. yaml' = IF Writes(r, keyed, offer) THEN w ELSE yaml
  BY DEF SaveYaml, w
<1>4. stage' \in [Runs -> {"idle", "read", "written"}] /\ copy' \in [Runs -> Yamls]
  <2>1. NoModels \in Yamls
    BY DEF NoModels, Yamls
  <2> QED
    BY <2>1 DEF SaveYaml
<1>5. \A a \in AutoRuns : noted'[a] = IF a = r THEN then ELSE noted[a]
  BY DEF SaveYaml
<1>6. noted' \in [AutoRuns -> Knowns]
  <2>1. r \in AutoRuns => then \in Knowns
    BY <1>1 DEF Knowns
  <2> HIDE DEF then
  <2> QED
    BY <2>1, <1>5 DEF SaveYaml
<1>7. had' = had \cup Defined(yaml') /\ UNCHANGED <<known, legible>> /\ Defined(yaml') \subseteq ModelIds
  BY DEF SaveYaml, Remember, Defined
<1>8. ASSUME r \in AutoRuns, NEW p \in Offering, NEW n \in then[p] PROVE n \in had'
  <2>1. CASE n \in noted[r][p]
    BY <1>7, <1>8, <2>1 DEF AllHad
  <2>2. CASE n \notin noted[r][p]
    <3>1. n \in NewIn(r, keyed, offer)[p]
      BY <1>8, <2>2 DEF NewIn
    <3>2. Writes(r, keyed, offer)
      BY <3>1 DEF Writes
    <3> QED
      BY <1>2, <1>3, <1>7, <1>8, <3>1, <3>2
  <2> QED
    BY <2>1, <2>2
<1> HIDE DEF then
<1>9. AllHad'
  BY <1>5, <1>7, <1>8 DEF AllHad
<1> QED
  BY <1>2, <1>3, <1>4, <1>6, <1>7, <1>9 DEF SaveYaml

(* What a file is cut to is a smaller one, or none. *)
LEMMA CutIs ==
  ASSUME NEW whole \in Yamls, NEW y \in CutShort(whole)
  PROVE  /\ y = Unreadable \/ y \in Yamls
         /\ y # Unreadable => \A n \in ModelIds : y[n] = whole[n] \/ y[n] = <<>>
<1>1. CASE y = Unreadable
  BY <1>1
<1>2. CASE y # Unreadable
  <2>1. PICK S \in SUBSET ModelIds : y = [n \in ModelIds |-> IF n \in S THEN whole[n] ELSE <<>>]
    BY <1>2 DEF CutShort
  <2>2. <<>> \in Seq(Offering) /\ \A n \in ModelIds : whole[n] \in Seq(Offering)
    BY DEF Yamls
  <2> QED
    BY <2>1, <2>2 DEF Yamls
<1> QED
  BY <1>1, <1>2

(* So does every other step. *)
LEMMA OthersKeepFiles ==
  ASSUME FilesInv,
         \/ \E r \in Runs : GiveUp(r) \/ SaveState(r) \/ Kill(r)
         \/ \E n \in ModelIds, fallbacks \in {<<p>> : p \in Offering} \cup {<<>>} : EditYaml(n, fallbacks)
         \/ Repair
  PROVE  FilesInv'
<1> USE DEF FilesInv, RunsTyped
<1>1. \A y : Defined(y) \subseteq ModelIds
  BY DEF Defined
<1>2. ASSUME NEW r \in Runs, Idle(r)
      PROVE  \A a \in AutoRuns : \A p \in Offering : noted'[a][p] \subseteq had
  <2>1. \A p \in Offering : NoneKnown[p] = {}
    BY DEF NoneKnown
  <2> QED
    BY <1>2, <2>1 DEF Idle, AllHad
<1>3. ASSUME NEW r \in Runs, GiveUp(r) PROVE FilesInv'
  <2>1. Idle(r) /\ UNCHANGED <<yaml, known, legible, had>>
    BY <1>3 DEF GiveUp, fileVars
  <2> QED
    BY <1>2, <2>1, IdleKeeps DEF AllHad
<1>4. ASSUME NEW r \in Runs, SaveState(r) PROVE FilesInv'
  <2>1. Idle(r) /\ UNCHANGED <<yaml, had>>
        /\ (known' = known \/ (r \in AutoRuns /\ known' = noted[r])) /\ legible' \in BOOLEAN
    BY <1>4 DEF SaveState
  <2> QED
    BY <1>2, <2>1, IdleKeeps DEF AllHad
<1>5. ASSUME NEW r \in Runs, Kill(r) PROVE FilesInv'
  <2>1. Idle(r) /\ had' = had \cup Defined(yaml') /\ legible' \in BOOLEAN
        /\ (known' = known \/ known' = Unreadable)
    BY <1>5 DEF Kill, Remember
  <2>2. yaml' = Unreadable \/ yaml' \in Yamls
    <3>1. CASE UNCHANGED yaml
      BY <3>1
    <3>2. CASE \E keyed \in SUBSET Offering, offer \in Offers : yaml' \in CutShort(Written(r, keyed, offer))
      <4>1. PICK keyed \in SUBSET Offering, offer \in Offers : yaml' \in CutShort(Written(r, keyed, offer))
        BY <3>2
      <4>2. Written(r, keyed, offer) \in Yamls
        BY OffersTyped, RunsAreApart, WritesAll
      <4> QED
        BY <4>1, <4>2, CutIs
    <3> QED
      BY <1>5, <3>1, <3>2 DEF Kill
  <2> QED
    BY <1>1, <1>2, <2>1, <2>2, IdleKeeps DEF AllHad
<1>6. ASSUME NEW n \in ModelIds, NEW f \in {<<p>> : p \in Offering} \cup {<<>>}, EditYaml(n, f)
      PROVE  FilesInv'
  <2>1. f \in Seq(Offering)
    <3>1. CASE f = <<>>
      BY <3>1, EmptySeq
    <3>2. ASSUME NEW p \in Offering, f = <<p>> PROVE f \in Seq(Offering)
      BY <3>2
    <3> QED
      BY <3>1, <3>2
  <2>2. yaml \in Yamls /\ yaml' = [yaml EXCEPT ![n] = f] /\ had' = had \cup Defined(yaml')
        /\ UNCHANGED <<known, legible, stage, copy, noted>>
    BY <1>6 DEF EditYaml, Remember, runVars
  <2>3. yaml' \in Yamls
    BY <2>1, <2>2 DEF Yamls
  <2> QED
    BY <1>1, <2>2, <2>3 DEF AllHad
<1>7. CASE Repair
  <2>1. FirstYaml \in Yamls /\ NoneKnown \in Knowns /\ \A p \in Offering : NoneKnown[p] = {}
    BY ModelFilesAssumption DEF NoneKnown, Knowns, Yamls
  <2>2. had' = had \cup Defined(yaml') /\ UNCHANGED <<stage, copy, noted>>
    BY <1>7 DEF Repair, Remember, runVars
  <2>3. /\ yaml' = yaml \/ yaml' = FirstYaml
        /\ known' = known \/ known' = NoneKnown
        /\ legible' \in BOOLEAN
    BY <1>7 DEF Repair
  <2> QED
    BY <1>1, <2>1, <2>2, <2>3 DEF AllHad
<1> QED
  BY <1>3, <1>4, <1>5, <1>6, <1>7

LEMMA FilesStayKnown ==
  /\ FilesInit => FilesInv
  /\ FilesInv /\ [FilesNext]_modelFileVars => FilesInv'
<1>1. FilesInit => FilesInv
  <2> SUFFICES ASSUME FilesInit PROVE FilesInv
    OBVIOUS
  <2>1. /\ NoModels \in Yamls /\ NoneKnown \in Knowns /\ FirstYaml \in Yamls
        /\ \A p \in Offering : NoneKnown[p] = {}
        /\ Defined(FirstYaml) \subseteq ModelIds
    BY ModelFilesAssumption DEF NoModels, NoneKnown, Yamls, Knowns, Defined
  <2> QED
    BY <2>1 DEF FilesInit, FilesInv, RunsTyped, AllHad
<1>2. ASSUME FilesInv, FilesNext PROVE FilesInv'
  BY <1>2, BeginKeepsFiles, SaveYamlKeepsFiles, OthersKeepFiles DEF FilesNext
<1>3. ASSUME FilesInv, UNCHANGED modelFileVars PROVE FilesInv'
  BY <1>3 DEF FilesInv, RunsTyped, AllHad, modelFileVars, fileVars, runVars
<1> QED
  BY <1>1, <1>2, <1>3

(* A model auto_update.py takes for seen, and will not add again, has been *)
(* in models.yaml, however runs overlap, are killed or meet edits by hand  *)
(* (save_yaml, then save_state).                                           *)
THEOREM KnownHasBeenDefined == FilesSpec => []KnownWasDefined
<1>1. FilesInv => KnownWasDefined
  BY DEF FilesInv, AllHad, KnownWasDefined
<1> QED
  BY <1>1, FilesStayKnown, PTL DEF FilesSpec

(* No model has a provider twice, in models.yaml or in a copy of it.       *)
Singles(y) == \A n \in ModelIds : NoneTwice(y[n])

SinglesInv ==
  /\ yaml # Unreadable => Singles(yaml)
  /\ \A r \in Runs : Singles(copy[r])

LEMMA Injective == ASSUME NEW T, NEW s \in Seq(T) PROVE NoneTwice(s) <=> IsInjective(s)
BY LenProperties DEF NoneTwice, IsInjective

LEMMA SingleOnes == NoneTwice(<<>>) /\ \A x : NoneTwice(<<x>>)
BY DEF NoneTwice

LEMMA WritesSingles ==
  ASSUME RunsTyped, SinglesInv, NEW r \in Runs, NEW keyed, NEW offer
  PROVE  Singles(Written(r, keyed, offer))
<1> SUFFICES ASSUME NEW n \in ModelIds, NEW S
             PROVE  NoneTwice(SyncedWith(copy[r][n], S)) /\ NoneTwice(UpdatedWith(copy[r][n], S))
  BY DEF Singles, Written
<1> DEFINE f == copy[r][n]
           new == Only(ProviderOrder, S \ ToSet(f))
<1>1. f \in Seq(Offering) /\ NoneTwice(f)
  BY DEF RunsTyped, Yamls, SinglesInv, Singles
<1> HIDE DEF f
<1>2. ProviderOrder \in Seq(Offering) /\ NoneTwice(ProviderOrder)
  BY ModelFilesAssumption, Injective
<1>3. new \in Seq(Offering) /\ NoneTwice(new) /\ ToSet(new) = ToSet(ProviderOrder) \cap (S \ ToSet(f))
  <2> DEFINE D == S \ ToSet(f)
  <2> HIDE DEF D
  <2>1. /\ Only(ProviderOrder, D) \in Seq(Offering)
        /\ ToSet(Only(ProviderOrder, D)) = ToSet(ProviderOrder) \cap D
    BY <1>2, OnlyType, OnlyElements
  <2>2. NoneTwice(Only(ProviderOrder, D))
    BY <1>2, OnlyNoneTwice
  <2> QED
    BY <2>1, <2>2 DEF D
<1> HIDE DEF new
<1>4. NoneTwice(f \o new)
  <2>1. ToSet(f) \cap ToSet(new) = {}
    BY <1>3
  <2> QED
    BY <1>1, <1>3, <2>1, NoneTwiceJoined
<1> QED
  BY <1>1, <1>4, SingleOnes DEF SyncedWith, UpdatedWith, f, new

LEMMA FilesStaySingle ==
  FilesInv /\ SinglesInv /\ [FilesNext]_modelFileVars => SinglesInv'
<1> SUFFICES ASSUME FilesInv, SinglesInv, [FilesNext]_modelFileVars PROVE SinglesInv'
  OBVIOUS
<1>1. RunsTyped /\ copy \in [Runs -> Yamls]
  BY DEF FilesInv, RunsTyped
<1>2. (yaml # Unreadable => Singles(yaml)) /\ \A r \in Runs : Singles(copy[r])
  BY DEF SinglesInv
<1>3. Singles(NoModels)
  BY SingleOnes DEF Singles, NoModels
<1>4. ASSUME NEW r \in Runs, copy' = [copy EXCEPT ![r] = NoModels] PROVE \A a \in Runs : Singles(copy'[a])
  BY <1>1, <1>2, <1>3, <1>4
<1>5. ASSUME NEW r \in Runs, Begin(r) PROVE SinglesInv'
  <2>1. copy' = [copy EXCEPT ![r] = yaml] /\ yaml' = yaml /\ yaml # Unreadable
    BY <1>5 DEF Begin, fileVars
  <2>2. \A a \in Runs : Singles(copy'[a])
    BY <1>1, <1>2, <2>1
  <2> QED
    BY <1>2, <2>1, <2>2 DEF SinglesInv
<1>6. ASSUME NEW r \in Runs, NEW keyed, NEW offer, SaveYaml(r, keyed, offer) PROVE SinglesInv'
  <2>1. /\ yaml' = IF Writes(r, keyed, offer) THEN Written(r, keyed, offer) ELSE yaml
        /\ copy' = [copy EXCEPT ![r] = NoModels]
    BY <1>6 DEF SaveYaml
  <2>2. yaml' # Unreadable => Singles(yaml')
    <3>1. Singles(Written(r, keyed, offer))
      BY <1>1, WritesSingles
    <3> QED
      BY <1>2, <2>1, <3>1
  <2> QED
    BY <1>4, <2>1, <2>2 DEF SinglesInv
<1>7. ASSUME NEW r \in Runs, GiveUp(r) \/ SaveState(r) PROVE SinglesInv'
  <2>1. copy' = [copy EXCEPT ![r] = NoModels] /\ yaml' = yaml
    BY <1>7 DEF GiveUp, SaveState, Idle, fileVars
  <2> QED
    BY <1>2, <1>4, <2>1 DEF SinglesInv
<1>8. ASSUME NEW r \in Runs, Kill(r) PROVE SinglesInv'
  <2>1. copy' = [copy EXCEPT ![r] = NoModels]
    BY <1>8 DEF Kill, Idle
  <2>2. yaml' # Unreadable => Singles(yaml')
    <3>1. CASE UNCHANGED yaml
      BY <1>2, <3>1
    <3>2. CASE \E keyed \in SUBSET Offering, offer \in Offers : yaml' \in CutShort(Written(r, keyed, offer))
      <4>1. PICK keyed \in SUBSET Offering, offer \in Offers : yaml' \in CutShort(Written(r, keyed, offer))
        BY <3>2
      <4>2. Singles(Written(r, keyed, offer)) /\ Written(r, keyed, offer) \in Yamls
        BY <1>1, WritesSingles, WritesAll, OffersTyped, RunsAreApart
      <4> DEFINE w == Written(r, keyed, offer)
      <4> HIDE DEF w
      <4>3. yaml' # Unreadable => \A n \in ModelIds : yaml'[n] = w[n] \/ yaml'[n] = <<>>
        BY <4>1, <4>2, CutIs DEF w
      <4> QED
        BY <4>2, <4>3, SingleOnes DEF Singles, w
    <3> QED
      BY <1>8, <3>1, <3>2 DEF Kill
  <2> QED
    BY <1>4, <2>1, <2>2 DEF SinglesInv
<1>9. ASSUME NEW n \in ModelIds, NEW f \in {<<p>> : p \in Offering} \cup {<<>>}, EditYaml(n, f)
      PROVE  SinglesInv'
  <2>1. yaml # Unreadable /\ yaml' = [yaml EXCEPT ![n] = f] /\ copy' = copy
    BY <1>9 DEF EditYaml, runVars
  <2>2. yaml \in Yamls /\ NoneTwice(f)
    BY <1>1, <2>1, SingleOnes DEF RunsTyped
  <2>3. Singles(yaml')
    BY <1>2, <2>1, <2>2 DEF Singles, Yamls
  <2> QED
    BY <1>2, <2>1, <2>3 DEF SinglesInv
<1>10. CASE Repair
  <2>1. Singles(FirstYaml)
    BY ModelFilesAssumption, Injective DEF Singles
  <2>2. copy' = copy /\ (yaml' = yaml \/ yaml' = FirstYaml)
    BY <1>10 DEF Repair, runVars
  <2> QED
    BY <1>2, <2>1, <2>2 DEF SinglesInv
<1>11. CASE UNCHANGED modelFileVars
  BY <1>11, <1>2 DEF modelFileVars, fileVars, runVars, SinglesInv
<1> QED
  BY <1>5, <1>6, <1>7, <1>8, <1>9, <1>10, <1>11 DEF FilesNext

LEMMA FilesTypes == FilesInv /\ SinglesInv => FilesTypeOK
<1> SUFFICES ASSUME FilesInv, SinglesInv PROVE FilesTypeOK
  OBVIOUS
<1>1. ASSUME NEW f \in Yamls, Singles(f), NEW n \in ModelIds
      PROVE  IsInjective(f[n]) /\ ToSet(f[n]) \subseteq Offering
  <2>1. f[n] \in Seq(Offering) /\ NoneTwice(f[n])
    BY <1>1 DEF Yamls, Singles
  <2>2. \A i \in DOMAIN f[n] : f[n][i] \in Offering
    BY <2>1, LenProperties, ElementOfSeq
  <2> QED
    BY <2>1, <2>2, Injective DEF ToSet
<1>2. \A f \in ({yaml} \ {Unreadable}) \cup {copy[r] : r \in Runs} : f \in Yamls /\ Singles(f)
  BY DEF FilesInv, RunsTyped, SinglesInv
<1>3. \A f \in ({yaml} \ {Unreadable}) \cup {copy[r] : r \in Runs} :
        DOMAIN f = ModelIds /\ \A n \in ModelIds : IsInjective(f[n]) /\ ToSet(f[n]) \subseteq Offering
  BY <1>1, <1>2 DEF Yamls
<1> QED
  BY <1>3 DEF FilesInv, RunsTyped, Knowns, FilesTypeOK

LEMMA InitSingles == FilesInit => SinglesInv
<1> SUFFICES ASSUME FilesInit PROVE SinglesInv
  OBVIOUS
<1>1. Singles(FirstYaml)
  BY ModelFilesAssumption, Injective DEF Singles
<1>2. Singles(NoModels)
  BY SingleOnes DEF Singles, NoModels
<1> QED
  BY <1>1, <1>2 DEF FilesInit, SinglesInv

(* However the scripts overlap, are killed and interfere with edits by     *)
(* hand, no model of models.yaml has a provider twice (sync_providers.py,  *)
(* auto_update.py).                                                        *)
THEOREM YamlTyped == FilesSpec => []FilesTypeOK
BY InitSingles, FilesStayKnown, FilesStaySingle, FilesTypes, PTL DEF FilesSpec

(* A run of sync_providers.py or auto_update.py writes all the models it   *)
(* read, each with its fallbacks at the head of its new ones.              *)
THEOREM ScriptsAdd == FilesSpec => ScriptsOnlyAdd
<1>1. ASSUME FilesInv, [FilesNext]_modelFileVars,
             NEW r \in Runs, stage[r] = "read", stage'[r] = "written", yaml' # yaml,
             NEW n \in ModelIds
      PROVE  IsPrefix(copy[r][n], yaml'[n])
  <2>1. RunsTyped
    BY <1>1 DEF FilesInv
  <2>2. PICK keyed \in SUBSET Offering, offer \in Offers : SaveYaml(r, keyed, offer)
    <3>1. ASSUME NEW a \in Runs, Idle(a) PROVE stage'[r] # "written"
      BY <1>1, <2>1, <3>1, IdleKeeps
    <3>2. ASSUME NEW a \in Runs, Begin(a) PROVE stage'[r] # "written"
      BY <1>1, <2>1, <3>2 DEF Begin, RunsTyped
    <3>3. ASSUME NEW a \in Runs, NEW keyed, NEW offer, SaveYaml(a, keyed, offer) PROVE a = r
      BY <1>1, <2>1, <3>3 DEF SaveYaml, RunsTyped
    <3>4. \/ \E a \in Runs : Begin(a) \/ Idle(a)
          \/ \E a \in Runs, keyed \in SUBSET Offering, offer \in Offers : SaveYaml(a, keyed, offer)
          \/ UNCHANGED stage
      BY <1>1 DEF FilesNext, GiveUp, SaveState, Kill, EditYaml, Repair, modelFileVars, runVars
    <3> QED
      BY <1>1, <3>1, <3>2, <3>3, <3>4
  <2>3. IsPrefix(copy[r][n], Written(r, keyed, offer)[n])
    BY <2>1, OffersTyped, RunsAreApart, WritesAll
  <2> QED
    BY <1>1, <2>2, <2>3 DEF SaveYaml
<1>2. FilesInv /\ [FilesNext]_modelFileVars =>
        [\A r \in Runs : stage[r] = "read" /\ stage'[r] = "written" =>
           yaml' = yaml \/ \A n \in ModelIds : IsPrefix(copy[r][n], yaml'[n])]_modelFileVars
  BY <1>1
<1> QED
  BY <1>2, FilesStayKnown, PTL DEF FilesSpec, ScriptsOnlyAdd
-----------------------------------------------------------------------------
(***************************************************************************)
(* The models of a running gateway.  CatalogTypeOK is inductive; that the  *)
(* router and main.py have the same models until the first reload is what  *)
(* makes a change of one a change of the other.                            *)
(***************************************************************************)

(* A combo's model begins with its heaviest entry.                         *)
LEMMA HeaviestFirst ==
  ASSUME NEW es \in Entries
  PROVE  /\ ToModel(es) \in Entries /\ Fallbacks(es) \in Model
         /\ es # <<>> => \E i \in DOMAIN es :
              /\ Fallbacks(es)[1] = es[i].provider
              /\ \A e \in ToSet(es) : e.weight <= es[i].weight
<1> DEFINE T == [provider : ToSet(Vendors), weight : 1..Heaviest]
           groups == [i \in 1..Heaviest |-> OfWeight(es, Heaviest + 1 - i)]
<1>1. Heaviest \in Nat /\ es \in Seq(T)
  BY CatalogAssumption DEF Entries
<1>2. ASSUME NEW w
      PROVE  /\ OfWeight(es, w) \in Seq(T)
             /\ \A e : e \in ToSet(OfWeight(es, w)) <=> e \in ToSet(es) /\ e.weight = w
  <2> DEFINE S == {e \in ToSet(es) : e.weight = w}
  <2> HIDE DEF S, T
  <2>1. Only(es, S) \in Seq(T) /\ ToSet(Only(es, S)) = ToSet(es) \cap S
    BY <1>1, OnlyType, OnlyElements
  <2> QED
    BY <2>1 DEF OfWeight, S
<1>3. groups \in Seq(Seq(T)) /\ Len(groups) = Heaviest /\ DOMAIN groups = 1..Heaviest
  <2>1. groups \in [1..Heaviest -> Seq(T)]
    <3> HIDE DEF T
    <3> QED
      BY <1>2
  <2> HIDE DEF T, groups
  <2> QED
    BY <1>1, <2>1
<1>4. \A e \in ToSet(es) : e \in T /\ e.weight \in 1..Heaviest
  <2>1. ASSUME NEW i \in DOMAIN es PROVE es[i] \in T
    <3> HIDE DEF T
    <3> QED
      BY <1>1, LenProperties, ElementOfSeq
  <2> QED
    BY <2>1 DEF ToSet
<1>5. ToModel(es) = FlattenSeq(groups)
  BY DEF ToModel
<1>6. ASSUME NEW i \in 1..Heaviest, NEW e
      PROVE  e \in ToSet(groups[i]) <=> e \in ToSet(es) /\ e.weight = Heaviest + 1 - i
  BY <1>2
<1> HIDE DEF groups
<1>7. ToModel(es) \in Seq(T)
  <2>1. CASE groups = <<>>
    <3>1. FlattenSeq(<<>>) = <<>>
      BY DEF FlattenSeq
    <3> HIDE DEF T
    <3>2. <<>> \in Seq(T)
      OBVIOUS
    <3>3. ToModel(es) = <<>>
      BY <1>5, <2>1, <3>1
    <3> QED
      BY <3>2, <3>3
  <2>2. CASE groups # <<>>
    <3> HIDE DEF T
    <3> QED
      BY <1>3, <1>5, <2>2, Flattened
  <2> QED
    BY <2>1, <2>2
<1>8. Fallbacks(es) \in Model
  <2> DEFINE m == ToModel(es)
  <2>1. m \in Seq(T) /\ DOMAIN m = 1..Len(m) /\ Len(m) \in Nat
    BY <1>7, LenProperties
  <2> HIDE DEF m
  <2>2. [i \in DOMAIN m |-> m[i].provider] \in Seq(ToSet(Vendors))
    <3>1. \A i \in 1..Len(m) : m[i] \in T
      BY <2>1, ElementOfSeq
    <3>2. \A i \in 1..Len(m) : m[i].provider \in ToSet(Vendors)
      BY <3>1
    <3> QED
      BY <2>1, <3>2
  <2> QED
    BY <2>2 DEF Fallbacks, Model, m
<1>9. ASSUME es # <<>>
      PROVE  \E i \in DOMAIN es :
               /\ Fallbacks(es)[1] = es[i].provider
               /\ \A e \in ToSet(es) : e.weight <= es[i].weight
  <2> DEFINE filled == {i \in 1..Heaviest : groups[i] # <<>>}
  <2>1. ASSUME NEW e \in ToSet(es) PROVE Heaviest + 1 - e.weight \in filled
    <3>1. Heaviest + 1 - e.weight \in 1..Heaviest
          /\ Heaviest + 1 - (Heaviest + 1 - e.weight) = e.weight
      BY <1>1, <1>4
    <3>2. e \in ToSet(groups[Heaviest + 1 - e.weight])
      BY <1>6, <3>1
    <3> QED
      BY <3>1, <3>2, ToSetEmpty
  <2>2. es[1] \in ToSet(es)
    <3>1. 1 \in DOMAIN es
      BY <1>1, <1>9, EmptySeq, LenProperties
    <3> QED
      BY <3>1 DEF ToSet
  <2>3. filled \in SUBSET Nat /\ filled # {}
    BY <2>1, <2>2
  <2>4. PICK k \in filled : \A j \in filled : k <= j
    BY <2>3, Least
  <2>5. k \in 1..Heaviest /\ groups[k] # <<>> /\ \A j \in 1..(k - 1) : groups[j] = <<>>
    <3>1. k \in 1..Heaviest /\ groups[k] # <<>>
      OBVIOUS
    <3>2. \A j \in 1..(k - 1) : j \in 1..Heaviest /\ ~(k <= j)
      BY <1>1, <3>1
    <3> QED
      BY <2>4, <3>1, <3>2
  <2> HIDE DEF filled
  <2>6. FlattenSeq(groups) # <<>> /\ FlattenSeq(groups)[1] = groups[k][1]
    <3>1. groups # <<>>
      BY <1>3, <2>5
    <3> HIDE DEF T
    <3> QED
      BY <1>3, <2>5, <3>1, Flattened
  <2>7. groups[k] \in Seq(T)
    BY <1>3, <2>5, ElementOfSeq
  <2>8. groups[k][1] \in ToSet(groups[k])
    <3>1. 1 \in DOMAIN groups[k]
      BY <2>5, <2>7, EmptySeq, LenProperties
    <3> QED
      BY <3>1 DEF ToSet
  <2> DEFINE top == groups[k][1]
  <2>9. top \in ToSet(es) /\ top.weight = Heaviest + 1 - k
    BY <1>6, <2>5, <2>8
  <2>10. PICK i \in DOMAIN es : es[i] = top
    BY <2>9 DEF ToSet
  <2>11. \A e \in ToSet(es) : e.weight <= top.weight
    <3> SUFFICES ASSUME NEW e \in ToSet(es) PROVE e.weight <= top.weight
      OBVIOUS
    <3>1. k <= Heaviest + 1 - e.weight /\ e.weight \in 1..Heaviest
      BY <1>4, <2>1, <2>4 DEF filled
    <3> QED
      BY <1>1, <2>5, <2>9, <3>1
  <2>12. Fallbacks(es)[1] = top.provider
    <3>1. 1 \in DOMAIN ToModel(es)
      BY <1>5, <1>7, <2>6, EmptySeq, LenProperties
    <3> QED
      BY <1>5, <2>6, <3>1 DEF Fallbacks
  <2> QED
    BY <2>10, <2>11, <2>12
<1> QED
  BY <1>7, <1>8, <1>9 DEF Entries

LEMMA ListedType == ASSUME NEW n, NEW l PROVE ListedBy(n, l) \in Model
<1>1. Vendors \in Seq(ToSet(Vendors))
  BY CatalogAssumption DEF Model
<1> QED
  BY <1>1, OnlyType DEF ListedBy, Model

(* What a discovery adds is free and keeps the models that are there.      *)
LEMMA DiscoveredType ==
  ASSUME NEW ms \in Catalogued, NEW ns, NEW l
  PROVE  Discovered(ms, ns, l) \in Catalogued /\ AddsFree(ms, Discovered(ms, ns, l), ns)
<1>1. ASSUME NEW n, ListedBy(n, l) # <<>>
      PROVE  /\ <<ListedBy(n, l)[1]>> \in Model
             /\ ListedBy(n, l)[1] \in ToSet(Vendors) /\ <<ListedBy(n, l)[1], n>> \in Free
  <2>1. ListedBy(n, l) \in Seq(ToSet(Vendors)) /\ 1 \in DOMAIN ListedBy(n, l)
    BY <1>1, ListedType, EmptySeq, LenProperties DEF Model
  <2> DEFINE x == ListedBy(n, l)
  <2>2. x[1] \in ToSet(Vendors)
    <3> HIDE DEF x
    <3>1. x \in Seq(ToSet(Vendors)) /\ 1 \in DOMAIN x
      BY <2>1 DEF x
    <3> QED
      BY <3>1, LenProperties, ElementOfSeq
  <2>3. <<x[1], n>> \in Free
    <3>1. ToSet(x) = ToSet(Vendors) \cap {p \in ToSet(Vendors) : n \in l[p] /\ <<p, n>> \in Free}
      <4>1. Vendors \in Seq(ToSet(Vendors))
        BY CatalogAssumption DEF Model
      <4> DEFINE S == {p \in ToSet(Vendors) : n \in l[p] /\ <<p, n>> \in Free}
      <4> HIDE DEF S
      <4>2. ToSet(Only(Vendors, S)) = ToSet(Vendors) \cap S
        BY <4>1, OnlyElements
      <4> QED
        BY <4>2 DEF ListedBy, S
    <3>2. x[1] \in ToSet(x)
      <4> HIDE DEF x
      <4>1. 1 \in DOMAIN x
        BY <2>1 DEF x
      <4> QED
        BY <4>1 DEF ToSet
    <3> QED
      BY <3>1, <3>2
  <2> HIDE DEF x
  <2>4. <<x[1]>> \in Seq(ToSet(Vendors))
    BY <2>2
  <2> QED
    BY <2>2, <2>3, <2>4 DEF Model, x
<1>2. Discovered(ms, ns, l) \in Catalogued
  BY <1>1 DEF Discovered, Catalogued
<1>3. ASSUME NEW n \in Names, Discovered(ms, ns, l)[n] # ms[n]
      PROVE  /\ ms[n] = NoModel /\ n \notin ns
             /\ \E p \in ToSet(Vendors) : <<p, n>> \in Free /\ Discovered(ms, ns, l)[n] = <<p>>
  <2>1. ms[n] = NoModel /\ n \notin ns /\ ListedBy(n, l) # <<>>
        /\ Discovered(ms, ns, l)[n] = <<ListedBy(n, l)[1]>>
    BY <1>3 DEF Discovered
  <2> QED
    BY <1>1, <2>1
<1> QED
  BY <1>2, <1>3 DEF AddsFree

LEMMA MergedType ==
  ASSUME NEW ms \in Catalogued, NEW cs \in Combos PROVE Merged(ms, cs) \in Catalogued
<1>1. \A n \in Names : cs[n] # NoModel => Fallbacks(cs[n]) \in Model
  BY HeaviestFirst DEF Combos
<1> QED
  BY <1>1 DEF Merged, Catalogued

(* A change of a model in main.py keeps the two apart or alike.            *)
LEMMA SetCurrentTypes ==
  ASSUME CatalogTypeOK, NEW n \in Names, NEW m \in Model \cup {NoModel}, SetCurrent(n, m)
  PROVE  /\ current' \in Catalogued /\ served' \in Catalogued /\ (~split' => served' = current')
         /\ split' = split /\ current'[n] = m
BY DEF CatalogTypeOK, SetCurrent, Catalogued

(* A discovery that ends adds to the models of the router or main.py.      *)
LEMMA EndDiscoveryAdds ==
  ASSUME CatalogTypeOK, NEW d \in Discoveries, NEW l \in Listings, EndDiscovery(d, l)
  PROVE  /\ served' \in Catalogued /\ current' \in Catalogued /\ (~split' => served' = current')
         /\ AddsFree(served, served', disc[d].names)
         /\ AddsFree(current, current', disc[d].names)
<1> DEFINE ns == disc[d].names
<1>1. served \in Catalogued /\ current \in Catalogued /\ (~split => served = current)
      /\ split' = split
  BY DEF CatalogTypeOK, EndDiscovery
<1>2. \A ms \in Catalogued :
        /\ Discovered(ms, ns, l) \in Catalogued
        /\ AddsFree(ms, Discovered(ms, ns, l), ns) /\ AddsFree(ms, ms, ns)
  <2> SUFFICES ASSUME NEW ms \in Catalogued
               PROVE  /\ Discovered(ms, ns, l) \in Catalogued
                      /\ AddsFree(ms, Discovered(ms, ns, l), ns) /\ AddsFree(ms, ms, ns)
    OBVIOUS
  <2> HIDE DEF ns
  <2>1. Discovered(ms, ns, l) \in Catalogued /\ AddsFree(ms, Discovered(ms, ns, l), ns)
    BY DiscoveredType
  <2>2. AddsFree(ms, ms, ns)
    BY DEF AddsFree
  <2> QED
    BY <2>1, <2>2
<1>3. served' \in {served, Discovered(served, ns, l)}
      /\ current' \in IF split THEN {current, Discovered(current, ns, l)} ELSE {served'}
  BY DEF EndDiscovery
<1> HIDE DEF ns
<1>4. /\ served' \in Catalogued /\ current' \in Catalogued /\ (~split' => served' = current')
      /\ AddsFree(served, served', ns) /\ AddsFree(current, current', ns)
  BY <1>1, <1>2, <1>3
<1> QED
  BY <1>4 DEF ns

DiscTyped ==
  disc \in [Discoveries -> [busy : BOOLEAN, names : SUBSET Names, target : {"none", "main", "router"}]]

LEMMA CatalogStep ==
  /\ CatalogInit => CatalogTypeOK
  /\ CatalogTypeOK /\ [CatalogNext]_catalogVars => CatalogTypeOK'
<1> USE DEF DiscTyped
<1>1. None \in Catalogued /\ None \in Combos /\ Resting \in
        [busy : BOOLEAN, names : SUBSET Names, target : {"none", "main", "router"}]
  BY DEF None, Catalogued, Combos, Resting
<1>2. CatalogInit => CatalogTypeOK
  BY <1>1 DEF CatalogInit, CatalogTypeOK
<1>3. ASSUME CatalogTypeOK, NEW f \in FileContents, NEW l \in Listings, Start(f, l)
      PROVE  CatalogTypeOK'
  <2>1. f \in Catalogued
    BY CatalogAssumption
  <2>2. combos' \in Combos
    BY <1>1, <1>3 DEF Start, CatalogTypeOK
  <2>3. current' \in Catalogued
    BY <1>3, <2>1, <2>2, DiscoveredType, MergedType DEF Start
  <2> QED
    BY <1>3, <2>2, <2>3 DEF Start, CatalogTypeOK
<1>4. ASSUME CatalogTypeOK, End PROVE CatalogTypeOK'
  BY <1>1, <1>4 DEF End, CatalogTypeOK
<1>5. ASSUME CatalogTypeOK, NEW d \in Discoveries, BeginDiscovery(d) PROVE CatalogTypeOK'
  <2>1. NamesOf(current) \in SUBSET Names
    BY DEF NamesOf
  <2>2. DiscTyped'
    BY <1>5, <2>1 DEF BeginDiscovery, CatalogTypeOK
  <2> QED
    BY <1>5, <2>2 DEF BeginDiscovery, CatalogTypeOK, models
<1>6. ASSUME CatalogTypeOK, NEW d \in Discoveries, NEW l \in Listings, EndDiscovery(d, l)
      PROVE  CatalogTypeOK'
  <2>1. DiscTyped'
    BY <1>1, <1>6 DEF EndDiscovery, CatalogTypeOK
  <2> QED
    BY <1>6, <2>1, EndDiscoveryAdds DEF EndDiscovery, CatalogTypeOK
<1>7. ASSUME CatalogTypeOK, NEW f \in FileContents, Reload(f) PROVE CatalogTypeOK'
  <2>1. f \in Catalogued
    BY CatalogAssumption
  <2>2. DiscTyped'
    BY <1>7 DEF Reload, CatalogTypeOK
  <2> QED
    BY <1>7, <2>1, <2>2 DEF Reload, CatalogTypeOK
<1>8. ASSUME CatalogTypeOK, NEW n \in Names, NEW es \in ComboEntries,
             CreateCombo(n, es) \/ UpdateCombo(n, es)
      PROVE  CatalogTypeOK'
  <2>1. es \in Entries /\ Fallbacks(es) \in Model
    BY CatalogAssumption, HeaviestFirst
  <2>2. combos' \in Combos /\ (combosFile' = TornFile \/ combosFile' \in Combos)
    BY <1>8, <2>1 DEF CreateCombo, UpdateCombo, SaveCombos, CatalogTypeOK, Combos
  <2> QED
    BY <1>8, <2>1, <2>2, SetCurrentTypes DEF CreateCombo, UpdateCombo, CatalogTypeOK
<1>9. ASSUME CatalogTypeOK, NEW n \in Names, DeleteCombo(n) PROVE CatalogTypeOK'
  <2>1. combos' \in Combos /\ (combosFile' = TornFile \/ combosFile' \in Combos)
    BY <1>9 DEF DeleteCombo, SaveCombos, CatalogTypeOK, Combos
  <2> QED
    BY <1>9, <2>1, SetCurrentTypes DEF DeleteCombo, CatalogTypeOK
<1>10. ASSUME CatalogTypeOK, NEW n \in Names, NEW o \in Orders, UpdateFallbacks(n, o)
       PROVE  CatalogTypeOK'
  <2>1. o \in Model
    BY CatalogAssumption
  <2> QED
    BY <1>10, <2>1, SetCurrentTypes DEF UpdateFallbacks, CatalogTypeOK
<1>11. ASSUME CatalogTypeOK, NEW n \in Names, NEW lighter \in SUBSET ToSet(Vendors),
              SortFallbacks(n, lighter)
       PROVE  CatalogTypeOK'
  <2> DEFINE a == Only(current[n], lighter)
             b == Only(current[n], ToSet(Vendors) \ lighter)
  <2>1. current[n] \in Seq(ToSet(Vendors))
    BY <1>11 DEF SortFallbacks, CatalogTypeOK, Catalogued, Model
  <2>2. a \in Seq(ToSet(Vendors)) /\ b \in Seq(ToSet(Vendors))
    BY <2>1, OnlyType
  <2>3. SetCurrent(n, a \o b)
    BY <1>11 DEF SortFallbacks
  <2> HIDE DEF a, b
  <2>4. a \o b \in Model
    BY <2>2, ConcatProperties DEF Model
  <2> QED
    BY <1>11, <2>3, <2>4, SetCurrentTypes DEF SortFallbacks, CatalogTypeOK
<1>12. ASSUME CatalogTypeOK, UNCHANGED catalogVars PROVE CatalogTypeOK'
  BY <1>12 DEF CatalogTypeOK, catalogVars, models
<1> QED
  BY <1>2, <1>3, <1>4, <1>5, <1>6, <1>7, <1>8, <1>9, <1>10, <1>11, <1>12 DEF CatalogNext

(* The models a gateway knows are sequences of providers, and the router   *)
(* and main.py have the same until the providers are synced.               *)
THEOREM CatalogTypes == CatalogSpec => []CatalogTypeOK
BY CatalogStep, PTL DEF CatalogSpec

(* A discovery that ends (discover_models, after its awaits) adds free     *)
(* models only, changes none that is there, and brings none back that was  *)
(* there when it began, whatever was added, deleted or reloaded meanwhile. *)
THEOREM DiscoveriesAdd == CatalogSpec => DiscoveryOnlyAdds
<1>1. ASSUME CatalogTypeOK, [CatalogNext]_catalogVars,
             NEW d \in Discoveries, disc[d].busy, ~disc'[d].busy, alive'
      PROVE  /\ AddsFree(served, served', disc[d].names)
             /\ AddsFree(current, current', disc[d].names)
  <2>1. DiscTyped
    BY <1>1 DEF CatalogTypeOK, DiscTyped
  <2>2. \A f : Reload(f) => disc'[d].busy
    BY <1>1, <2>1 DEF Reload, DiscTyped
  <2>3. \A e \in Discoveries : BeginDiscovery(e) => disc'[d].busy
    BY <1>1, <2>1 DEF BeginDiscovery, DiscTyped
  <2>4. \A e \in Discoveries, l \in Listings : EndDiscovery(e, l) => e = d
    BY <1>1, <2>1 DEF EndDiscovery, DiscTyped
  <2>5. \/ disc' = disc
        \/ ~alive'
        \/ \E f : Reload(f)
        \/ \E e \in Discoveries : BeginDiscovery(e) \/ \E l \in Listings : EndDiscovery(e, l)
    BY <1>1 DEF CatalogNext, Start, End, CreateCombo, UpdateCombo, DeleteCombo, UpdateFallbacks,
                SortFallbacks, catalogVars
  <2>6. PICK l \in Listings : EndDiscovery(d, l)
    BY <1>1, <2>2, <2>3, <2>4, <2>5
  <2> QED
    BY <1>1, <2>6, EndDiscoveryAdds
<1>2. CatalogTypeOK /\ [CatalogNext]_catalogVars =>
        [\A d \in Discoveries : disc[d].busy /\ ~disc'[d].busy /\ alive' =>
           /\ AddsFree(served, served', disc[d].names)
           /\ AddsFree(current, current', disc[d].names)]_catalogVars
  BY <1>1
<1> QED
  BY <1>2, CatalogTypes, PTL DEF CatalogSpec, DiscoveryOnlyAdds

(* At every start a combo wins over a model of its name, with its heaviest *)
(* entry first (merge_into_config, to_model_config); deleting it leaves no *)
(* model of the name in main.py, nor in the router before a reload.        *)
THEOREM CombosWin == CatalogSpec => ModelsFollowCombos
<1>1. ASSUME CatalogTypeOK, [CatalogNext]_catalogVars, NEW n \in Names,
             Starts, combos'[n] \notin {NoModel, <<>>}
      PROVE  \E i \in DOMAIN combos'[n] :
               /\ served'[n][1] = combos'[n][i].provider
               /\ \A e \in ToSet(combos'[n]) : e.weight <= combos'[n][i].weight
  <2>1. PICK f \in FileContents, l \in Listings : Start(f, l)
    BY <1>1 DEF Starts, CatalogNext, Reload, End, BeginDiscovery, EndDiscovery, CreateCombo,
                UpdateCombo, DeleteCombo, UpdateFallbacks, SortFallbacks, catalogVars
  <2>2. CatalogTypeOK'
    BY <1>1, CatalogStep
  <2>3. combos'[n] \in Entries
    BY <1>1, <2>2 DEF CatalogTypeOK, Combos
  <2>4. served'[n] = Fallbacks(combos'[n])
    BY <1>1, <2>1 DEF Start, Merged
  <2> QED
    BY <1>1, <2>3, <2>4, HeaviestFirst
<1>2. ASSUME CatalogTypeOK, [CatalogNext]_catalogVars, NEW n \in Names,
             alive, alive', combos[n] # NoModel, combos'[n] = NoModel
      PROVE  current'[n] = NoModel /\ (~split => served'[n] = NoModel)
  <2>1. combos \in Combos
    BY <1>2 DEF CatalogTypeOK
  <2>2. ASSUME NEW m \in Names, NEW es \in ComboEntries, combos' = [combos EXCEPT ![m] = es]
        PROVE  FALSE
    BY <1>2, <2>1, <2>2, CatalogAssumption DEF Combos
  <2>3. PICK m \in Names : DeleteCombo(m)
    BY <1>2, <2>2 DEF CatalogNext, Start, Reload, End, BeginDiscovery, EndDiscovery, CreateCombo,
                      UpdateCombo, UpdateFallbacks, SortFallbacks, catalogVars
  <2>4. m = n
    BY <1>2, <2>1, <2>3 DEF DeleteCombo, Combos
  <2> QED
    BY <1>2, <2>3, <2>4, SetCurrentTypes DEF DeleteCombo, SetCurrent
<1>3. CatalogTypeOK /\ [CatalogNext]_catalogVars =>
        [\A n \in Names :
           /\ Starts /\ combos'[n] \notin {NoModel, <<>>} =>
                \E i \in DOMAIN combos'[n] :
                  /\ served'[n][1] = combos'[n][i].provider
                  /\ \A e \in ToSet(combos'[n]) : e.weight <= combos'[n][i].weight
           /\ alive /\ alive' /\ combos[n] # NoModel /\ combos'[n] = NoModel =>
                current'[n] = NoModel /\ (~split => served'[n] = NoModel)]_catalogVars
  BY <1>1, <1>2
<1> QED
  BY <1>3, CatalogTypes, PTL DEF CatalogSpec, ModelsFollowCombos
-----------------------------------------------------------------------------
(* The components side by side: what is proved of each while its own steps *)
(* are explored, and of the others, which stay as they start.              *)
StoresInv == EntriesInv /\ HistoriesTyped
YamlInv == FilesInv /\ SinglesInv

LEMMA StoresTogether ==
  /\ AllInit => StoresInv /\ YamlInv /\ CatalogTypeOK /\ OAuthTypeOK /\ RingInv
  /\ StoresInv /\ [AllNext]_<<part, allVars, modelFileVars, catalogVars, oauthVars, gatewayKeyVars>>
       => StoresInv'
  /\ YamlInv /\ [AllNext]_<<part, allVars, modelFileVars, catalogVars, oauthVars, gatewayKeyVars>>
       => YamlInv'
  /\ CatalogTypeOK /\ [AllNext]_<<part, allVars, modelFileVars, catalogVars, oauthVars, gatewayKeyVars>>
       => CatalogTypeOK'
  /\ OAuthTypeOK /\ [AllNext]_<<part, allVars, modelFileVars, catalogVars, oauthVars, gatewayKeyVars>>
       => OAuthTypeOK'
  /\ RingInv /\ [AllNext]_<<part, allVars, modelFileVars, catalogVars, oauthVars, gatewayKeyVars>>
       => RingInv'
<1> DEFINE all == <<part, allVars, modelFileVars, catalogVars, oauthVars, gatewayKeyVars>>
<1>1. AllInit => StoresInv /\ YamlInv /\ CatalogTypeOK /\ OAuthTypeOK /\ RingInv
  <2> SUFFICES ASSUME AllInit PROVE StoresInv /\ YamlInv /\ CatalogTypeOK /\ OAuthTypeOK /\ RingInv
    OBVIOUS
  <2>1. StoresInit /\ FilesInit /\ CatalogInit /\ OAuthInit /\ GatewayKeysInit
    BY DEF AllInit
  <2>2. StoresInv
    BY <2>1, InitEntries DEF StoresInv, StoresInit, HistoriesTyped
  <2>3. YamlInv /\ OAuthTypeOK /\ RingInv
    BY <2>1, FilesStayKnown, InitSingles, InitTypes, InitRing DEF YamlInv
  <2>4. CatalogTypeOK
    BY <2>1, CatalogStep
  <2> QED
    BY <2>2, <2>3, <2>4
<1>2. [AllNext]_all =>
        /\ [StoresNext]_allVars /\ [FilesNext]_modelFileVars /\ [CatalogNext]_catalogVars
        /\ [OAuthNext]_oauthVars /\ [GatewayKeysNext]_gatewayKeyVars
  BY DEF AllNext
<1> QED
  BY <1>1, <1>2, StepEntries, HistoriesStay, FilesStayKnown, FilesStaySingle, CatalogStep,
     StepTypes, StepRing DEF StoresInv, YamlInv

(* What the gateway keeps in files and reads again has the shape the code  *)
(* gives it, after any edits, crashes and restarts.                        *)
THEOREM FilesAndStoresTyped == All => []FilesAndStoresTypeOK
<1>1. StoresInv /\ YamlInv /\ CatalogTypeOK /\ OAuthTypeOK /\ RingInv => FilesAndStoresTypeOK
  BY StoresTypes, FilesTypes, RingImplies DEF StoresInv, YamlInv, FilesAndStoresTypeOK
<1> QED
  BY <1>1, StoresTogether, PTL DEF All
=============================================================================
