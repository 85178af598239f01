------------------------------ MODULE KeyHealth ------------------------------
(***************************************************************************)
(* The keys of one provider and the checks that disable and enable them    *)
(* (health.py, HealthChecker.check_key), with the operator's requests that *)
(* do the same (main.py, toggle_key) or replace the list of keys (main.py, *)
(* the key endpoints over KeyManager and EncryptedKeyStore).               *)
(*                                                                         *)
(* A check awaits the provider's answer between reading its key and        *)
(* recording the result; other checks (the health loop's and those of      *)
(* POST /api/health/check) and the operator's requests run meanwhile.      *)
(* What a KeyHealth record shows but no code reads is left out.            *)
(***************************************************************************)
EXTENDS Naturals, Sequences, SequencesExt

CONSTANTS
  Keys,          \* the API keys there are
  Checks,        \* the check_key coroutines that may be under way
  EnvKeys,       \* the keys the environment gives the provider
  MaxKeys,       \* bound: the length of a list of keys
  MaxStored,     \* bound: the keys in both stores together
  Threshold,     \* CONSECUTIVE_FAILURES_TO_DISABLE
  Toggling,      \* does the operator disable and enable keys?
  Editing,       \* does the operator add and remove keys?
  NoKey          \* the check is not under way

ASSUME KeysAssumption == NoKey \notin Keys
ASSUME EnvKeysAssumption == EnvKeys \in Seq(Keys) /\ Len(EnvKeys) <= MaxKeys
ASSUME ThresholdAssumption == Threshold \in Nat \ {0} /\ MaxKeys \in Nat \ {0} /\ MaxStored \in Nat
ASSUME OperatorAssumption == Toggling \in BOOLEAN /\ Editing \in BOOLEAN

VARIABLES
  api_keys,       \* api_keys
  disabled_keys,  \* disabled_keys; no code path adds a key twice
  runtime,        \* the provider's keys in key_manager
  encrypted,      \* the provider's keys in encrypted_key_store
  flag,           \* per index: KeyHealth.disabled
  failures,       \* per index: KeyHealth.consecutive_failures
  testing,        \* per check: key, the key sent to the provider
  slot,           \* per check: key_index
  strikes,        \* history, per index: auth failures in a row of the key now there
  tainted,        \* history: the indices that have counted an answer about another key
  undercut,       \* history: the checks under way whose index got another key
  meddled         \* history: has the operator toggled a key or changed the list?

keyLists == <<api_keys, runtime, encrypted>>
health == <<flag, failures>>
histories == <<strikes, tainted, undercut, meddled>>
vars == <<keyLists, disabled_keys, health, testing, slot, histories>>

Indices == 1..MaxKeys
Distinct == \A i, j \in DOMAIN EnvKeys : EnvKeys[i] = EnvKeys[j] => i = j

(* A KeyHealth record is created at its first use; until then it is as new.*)
Init ==
  /\ api_keys = EnvKeys
  /\ disabled_keys = {}
  /\ runtime = <<>>
  /\ encrypted = <<>>
  /\ flag = [i \in Indices |-> FALSE]
  /\ failures = [i \in Indices |-> 0]
  /\ testing = [t \in Checks |-> NoKey]
  /\ slot = [t \in Checks |-> 1]
  /\ strikes = [i \in Indices |-> 0]
  /\ tainted = {} /\ undercut = {} /\ meddled = FALSE

(* The key a list has at an index, if it has one. *)
Listed(keys, i) == IF i \in DOMAIN keys THEN keys[i] ELSE NoKey

(* Counting stops at the threshold, the only number compared with. *)
OneMore(n) == IF n < Threshold THEN n + 1 ELSE n

(***************************************************************************)
(* The checks.                                                             *)
(***************************************************************************)

(* Mutated forms of the next definitions. *)
KeepFailures(i) == failures
OneStrikeEarly(i) == failures'[i] + 1 >= Threshold

Forgiven(i) == [failures EXCEPT ![i] = 0]
Unflagged(i) == [flag EXCEPT ![i] = FALSE]
TooMany(i) == failures'[i] >= Threshold

StartCheck(t, i) ==
  /\ testing[t] = NoKey
  /\ testing' = [testing EXCEPT ![t] = api_keys[i]]
  /\ slot' = [slot EXCEPT ![t] = i]
  /\ UNCHANGED <<keyLists, disabled_keys, health, histories>>

Finish(t) ==
  /\ testing' = [testing EXCEPT ![t] = NoKey]
  /\ slot' = [slot EXCEPT ![t] = 1]
  /\ undercut' = undercut \ {t}

(* The histories of an answer about key k that is counted at index i. *)
Recorded(i, k, n) ==
  IF Listed(api_keys, i) = k
    THEN /\ strikes' = [strikes EXCEPT ![i] = n]
         /\ tainted' = IF n = 0 THEN tainted \ {i} ELSE tainted
    ELSE /\ tainted' = tainted \cup {i}
         /\ UNCHANGED strikes

(* 200: a key that a check has disabled is enabled again. *)
ReplyHealthy(t) ==
  LET k == testing[t]
      i == slot[t]
  IN  /\ k # NoKey
      /\ failures' = Forgiven(i)
      /\ IF flag[i] /\ k \in disabled_keys
           THEN disabled_keys' = disabled_keys \ {k} /\ flag' = Unflagged(i)
           ELSE UNCHANGED <<disabled_keys, flag>>
      /\ Recorded(i, k, 0)
      /\ Finish(t)
      /\ UNCHANGED <<keyLists, meddled>>

(* Mutated form of DisableKey: the key at the next index is disabled. *)
DisableNext(i) ==
  /\ flag' = [flag EXCEPT ![i] = TRUE]
  /\ disabled_keys' = disabled_keys \cup ({Listed(api_keys, i + 1)} \ {NoKey})

(* _disable_key reads the key at the index again. *)
DisableKey(i) ==
  IF ~flag[i] /\ i <= Len(api_keys)
    THEN /\ flag' = [flag EXCEPT ![i] = TRUE]
         /\ disabled_keys' = disabled_keys \cup {api_keys[i]}
    ELSE UNCHANGED <<flag, disabled_keys>>

(* 401 or 403. *)
ReplyInvalid(t) ==
  LET k == testing[t]
      i == slot[t]
  IN  /\ k # NoKey
      /\ failures' = [failures EXCEPT ![i] = OneMore(@)]
      /\ Recorded(i, k, OneMore(strikes[i]))
      /\ IF TooMany(i) THEN DisableKey(i) ELSE UNCHANGED <<flag, disabled_keys>>
      /\ Finish(t)
      /\ UNCHANGED <<keyLists, meddled>>

(* Any other status, a timeout or a transport error: nothing is counted. *)
ReplyOther(t) ==
  /\ testing[t] # NoKey
  /\ Finish(t)
  /\ UNCHANGED <<keyLists, disabled_keys, health, strikes, tainted, meddled>>

(***************************************************************************)
(* The operator.                                                           *)
(***************************************************************************)

(* The operator's toggles touch disabled_keys, not the KeyHealth records. *)
Toggled ==
  /\ meddled' = TRUE
  /\ UNCHANGED <<keyLists, health, testing, slot, strikes, tainted, undercut>>

EnableKey(i) == disabled_keys' = disabled_keys \ {api_keys[i]} /\ Toggled
DisableByHand(i) == disabled_keys' = disabled_keys \cup {api_keys[i]} /\ Toggled

(* Mutated form of Synced: a provider that has keys keeps them. *)
SyncedFirst(keys) == IF keys # <<>> /\ api_keys = <<>> THEN keys ELSE api_keys

(* _sync_keys_to_config: a provider without runtime keys keeps its list. *)
Synced(keys) == IF keys # <<>> THEN keys ELSE api_keys

(* The provider is given another list: an index that gets another key has *)
(* counted what was not about it, and so will a check of it under way.    *)
SetKeys(keys) ==
  LET replaced == {i \in Indices : Listed(keys, i) # Listed(api_keys, i)}
  IN  /\ api_keys' = keys
      /\ strikes' = [i \in Indices |-> IF i \in replaced THEN 0 ELSE strikes[i]]
      /\ tainted' = tainted \cup {i \in replaced : failures[i] > 0}
      /\ undercut' = undercut \cup {t \in Checks : testing[t] # NoKey /\ slot[t] \in replaced}
      /\ meddled' = (meddled \/ keys # api_keys)
      /\ UNCHANGED <<disabled_keys, health, testing, slot>>

SetRuntime(keys) ==
  /\ runtime' = keys
  /\ SetKeys(Synced(keys))
  /\ UNCHANGED encrypted

Room(keys) == Len(keys) < MaxKeys /\ Len(runtime) + Len(encrypted) < MaxStored

AddKey(k) == Room(runtime) /\ SetRuntime(Append(runtime, k))
DeleteKey(i) == SetRuntime(RemoveAt(runtime, i))

(* The endpoints of the encrypted store set the list of keys to its own, *)
(* even to an empty one.                                                 *)
SetEncrypted(keys) ==
  /\ encrypted' = keys
  /\ SetKeys(keys)
  /\ UNCHANGED runtime

AddEncryptedKey(k) == Room(encrypted) /\ SetEncrypted(Append(encrypted, k))
DeleteEncryptedKey(i) == SetEncrypted(RemoveAt(encrypted, i))

(* A runtime key of another provider is added or deleted:                *)
(* _sync_keys_to_config goes over all providers.                         *)
SyncOthers ==
  /\ Editing
  /\ SetKeys(Synced(runtime))
  /\ UNCHANGED <<runtime, encrypted>>

Check(t) ==
  \/ \E i \in DOMAIN api_keys : StartCheck(t, i)
  \/ ReplyHealthy(t)
  \/ ReplyInvalid(t)
  \/ ReplyOther(t)

Toggle == Toggling /\ \E i \in DOMAIN api_keys : EnableKey(i) \/ DisableByHand(i)

Edit ==
  /\ Editing
  /\ \/ \E k \in Keys : AddKey(k) \/ AddEncryptedKey(k)
     \/ \E i \in DOMAIN runtime : DeleteKey(i)
     \/ \E i \in DOMAIN encrypted : DeleteEncryptedKey(i)

Next == (\E t \in Checks : Check(t)) \/ Toggle \/ Edit \/ SyncOthers

Spec == Init /\ [][Next]_vars
-----------------------------------------------------------------------------
(***************************************************************************)
(* Properties.                                                             *)
(***************************************************************************)

(* The variables have the types the code gives them, and a check that is   *)
(* under way has an index (check_key).                                     *)
TypeOK ==
  /\ api_keys \in Seq(Keys)
  /\ runtime \in Seq(Keys)
  /\ encrypted \in Seq(Keys)
  /\ Len(api_keys) <= MaxKeys
  /\ Len(runtime) <= MaxKeys
  /\ Len(encrypted) <= MaxKeys
  /\ disabled_keys \in SUBSET Keys
  /\ flag \in [Indices -> BOOLEAN]
  /\ failures \in [Indices -> 0..Threshold]
  /\ testing \in [Checks -> Keys \cup {NoKey}]
  /\ slot \in [Checks -> Indices]
  /\ strikes \in [Indices -> 0..Threshold]
  /\ tainted \subseteq Indices
  /\ undercut \subseteq Checks
  /\ meddled \in BOOLEAN

(* Until the operator toggles a key or an edit changes the list, a listed  *)
(* key is disabled if and only if the provider refused it                  *)
(* CONSECUTIVE_FAILURES_TO_DISABLE times since it last accepted it,        *)
(* however the checks of it overlap, and KeyHealth.disabled tells so       *)
(* (check_key, _disable_key).                                              *)
DisabledAfterStrikes ==
  ~meddled =>
    \A i \in DOMAIN api_keys :
      /\ api_keys[i] \in disabled_keys <=> strikes[i] >= Threshold
      /\ api_keys[i] \in disabled_keys <=> flag[i]

(* An index counts exactly the auth failures in a row of the key it has    *)
(* now, since it has it, unless its key was replaced while the count was   *)
(* not zero or an answer about a replaced key came late; a healthy answer  *)
(* about the key it has sets that right (check_key).                       *)
CountsAreTheKeys ==
  \A i \in Indices \ tainted : failures[i] = strikes[i]

(* The answer to check t arrives. *)
Answered(t) == testing[t] # NoKey /\ testing'[t] = NoKey

(* The answer to a check enables no other key than the one it was about,   *)
(* and disables no other one unless the list was edited while it waited,   *)
(* so that the key at its index was replaced (check_key, _disable_key).    *)
JudgedKeyOnly ==
  [][\A t \in Checks : Answered(t) =>
       /\ disabled_keys \ disabled_keys' \subseteq {testing[t]}
       /\ t \notin undercut => disabled_keys' \ disabled_keys \subseteq {testing[t]}]_vars

(* The answer to a check disables at most the key now at its index, and    *)
(* only after CONSECUTIVE_FAILURES_TO_DISABLE auth failures of that key in *)
(* a row since it is there, unless the index has counted another key's and *)
(* has seen its own healthy not since: edits of the list do that           *)
(* (check_key).                                                            *)
EnoughStrikes ==
  [][\A t \in Checks : Answered(t) =>
       \A k \in disabled_keys' \ disabled_keys :
         /\ k = Listed(api_keys, slot[t])
         /\ slot[t] \notin tainted' => strikes'[slot[t]] >= Threshold]_vars

(* A check disables a key only after CONSECUTIVE_FAILURES_TO_DISABLE       *)
(* confirmed auth failures of this very key, whatever is edited meanwhile  *)
(* (the docstring of check_key).                                           *)
OnlyConfirmed ==
  [][\A t \in Checks : Answered(t) =>
       \A k \in disabled_keys' \ disabled_keys :
         \E i \in DOMAIN api_keys : api_keys[i] = k /\ strikes'[i] >= Threshold]_vars

(* A provider's keys are the whole list of one of the two stores, never a  *)
(* mix of them; only while the runtime store has none may they be the      *)
(* environment's or a single key, since the last key removed from the      *)
(* runtime store stays in use (_sync_keys_to_config, the key endpoints).   *)
KeysOfOneStore ==
  \/ api_keys = runtime
  \/ api_keys = encrypted
  \/ runtime = <<>> /\ (api_keys = EnvKeys \/ Len(api_keys) = 1)
=============================================================================
