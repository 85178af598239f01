------------------------------- MODULE Router -------------------------------
(***************************************************************************)
(* Router.route_request (router.py): a request is sent to the providers of *)
(* its model's fallback chain, one after the other, until one answers.     *)
(*                                                                         *)
(* The gateway runs on one asyncio event loop, so a step is the code from  *)
(* one await to the next: from the call of route_request, a provider's     *)
(* reply or the end of a sleep, to the next request to a provider, the     *)
(* next sleep, or the return.  Between two steps of a request the others   *)
(* run, on the same key rings, penalties, cooldowns and counters.          *)
(*                                                                         *)
(* Time is left out: what the clock lets run out (a cooldown, a penalty,   *)
(* the sliding window of the rate limiter) may run out at any moment.      *)
(* What the health checker and the per-key counters say while a request is *)
(* planned is chosen freely; they are components of their own.             *)
(***************************************************************************)
EXTENDS Naturals, Sequences, FiniteSets, KeyRing

CONSTANTS
  Callers,        \* the clients; each has at most one request in flight
  Providers,
  Local,          \* the provider named "local"
  KeyNames,
  Keys,           \* per provider: api_keys
  Limit,          \* per provider: rpm_limit or rpd_limit, 0 if it has none
  Entries,        \* pairs of a provider and one of its models
  ProviderOf,     \* per entry: its provider
  Models,
  Chain,          \* per model: its enabled fallbacks, in order
  MaxTries,       \* MAX_RETRIES
  RetryMax,       \* RETRY_MAX_ATTEMPTS
  PenaltyPer429,  \* PENALTY_PER_429
  MaxPenalty,     \* MAX_PENALTY
  Anyone,         \* no preferred_connection
  Preferences,    \* what requests may prefer
  Outages,        \* sets of providers the health checker may report down
  Exhaustions,    \* sets of entries the per-key counters may report limited
  Toggled,        \* providers whose keys are disabled and enabled
  NoKey           \* no request to a provider is under way

ASSUME ProvidersAssumption == Local \in Providers /\ Anyone \notin Providers
ASSUME KeysAssumption == Keys \in [Providers -> Seq(KeyNames)] /\ NoKey \notin KeyNames
ASSUME LimitAssumption == Limit \in [Providers -> Nat]
ASSUME EntriesAssumption == ProviderOf \in [Entries -> Providers]
ASSUME ChainAssumption == Chain \in [Models -> Seq(Entries)]
ASSUME InputsAssumption ==
  /\ Preferences \subseteq Providers \cup {Anyone}
  /\ Outages \subseteq SUBSET Providers
  /\ Exhaustions \subseteq SUBSET Entries
  /\ Toggled \subseteq Providers
ASSUME BoundsAssumption ==
  /\ MaxTries \in Nat \ {0}
  /\ RetryMax \in Nat
  /\ PenaltyPer429 \in Nat \ {0}
  /\ MaxPenalty \in Nat
  /\ PenaltyPer429 <= MaxPenalty

VARIABLES
  keyIndex,   \* per provider: _key_index
  disabled,   \* per provider: disabled_keys
  cooldown,   \* the (entry, key) pairs in _cooldowns
  penalty,    \* per entry: its penalty in _penalties, 0 if it has none
  used,       \* per provider with a limit: requests in the limiter's window
  rr_index,   \* per model: _rr_index
  pc,         \* per caller: where its coroutine is suspended
  preferred,  \* per caller: preferred
  to_try,     \* per caller: to_try
  pos,        \* per caller: the index in to_try of the entry being tried
  attempt,    \* per caller: attempt, counted from 0
  key,        \* per caller: the key of the request it sent last
  errors,     \* per caller: why each entry tried so far failed
  all_rate_limited,  \* per caller: all_rate_limited
  outcome     \* per caller: how its last request ended

shared == <<keyIndex, disabled, cooldown, penalty, used, rr_index>>
plans == <<preferred, to_try>>
progress == <<pos, attempt, key, errors, all_rate_limited>>
vars == <<shared, pc, plans, progress, outcome>>

Outcomes == {"none", "ok", "ValueError", "AllRateLimitedError", "RuntimeError",
             "escaped"}
Failures == {"timeout", "rate_limited", "other"}

Init ==
  /\ keyIndex = [p \in Providers |-> 0]
  /\ disabled = [p \in Providers |-> {}]
  /\ cooldown = {}
  /\ penalty = [e \in Entries |-> 0]
  /\ used = [p \in Providers |-> 0]
  /\ rr_index = [m \in Models |-> 0]
  /\ pc = [c \in Callers |-> "idle"]
  /\ preferred = [c \in Callers |-> Anyone]
  /\ to_try = [c \in Callers |-> <<>>]
  /\ pos = [c \in Callers |-> 1]
  /\ attempt = [c \in Callers |-> 0]
  /\ key = [c \in Callers |-> NoKey]
  /\ errors = [c \in Callers |-> <<>>]
  /\ all_rate_limited = [c \in Callers |-> TRUE]
  /\ outcome = [c \in Callers |-> "none"]

Entry(c) == to_try[c][pos[c]]
Provider(c) == ProviderOf[Entry(c)]

(***************************************************************************)
(* The plan of a request: apply_preferred_connection, _select_provider and *)
(* the cut to MAX_RETRIES.  A plan is made from the positions U of the     *)
(* usable entries in the model's chain.                                    *)
(***************************************************************************)

(* Mutated form of Cut: the last entry is kept whatever it is. *)
CutAndAppend(s) ==
  IF Len(s) <= MaxTries THEN s ELSE Append(SubSeq(s, 1, MaxTries), s[Len(s)])

Limited(p) == Limit[p] > 0 /\ used[p] >= Limit[p]

(* What _select_provider demands of an entry. *)
Usable(e, pref, down, exhausted) ==
  LET p == ProviderOf[e]
  IN  /\ Keys[p] # <<>>
      /\ ~Limited(p)
      /\ p \in down => p = pref
      /\ e \notin exhausted
      /\ <<e, ActiveKey(Keys[p], disabled[p], keyIndex[p])>> \notin cooldown

(* The preferred provider comes first, the local one last. *)
Rank(e, pref) ==
  IF ProviderOf[e] = pref THEN 0 ELSE IF ProviderOf[e] = Local THEN 2 ELSE 1

(* Entries are ordered by rank, those that take part in the round-robin by *)
(* their penalty, and otherwise as they are in the chain.                  *)
Before(m, pref, i, j) ==
  LET a == Chain[m][i]
      b == Chain[m][j]
      sunk(e) == IF Rank(e, pref) = 1 THEN penalty[e] ELSE 0
  IN  \/ Rank(a, pref) < Rank(b, pref)
      \/ Rank(a, pref) = Rank(b, pref) /\ sunk(a) < sunk(b)
      \/ Rank(a, pref) = Rank(b, pref) /\ sunk(a) = sunk(b) /\ i < j

InRotation(m, pref, U) == {i \in U : Rank(Chain[m][i], pref) = 1}

(* The place of position i in the plan: its place in that order, and among *)
(* the entries in rotation the order is turned by _rr_index.               *)
Place(m, pref, U, i) ==
  LET place == Cardinality({j \in U : Before(m, pref, j, i)}) + 1
      first == Cardinality({j \in U : Rank(Chain[m][j], pref) = 0})
      n == Cardinality(InRotation(m, pref, U))
  IN  IF i \in InRotation(m, pref, U)
        THEN first + 1 + ((place - first - 1 + (n - (rr_index[m] % n))) % n)
        ELSE place

Candidates(m, pref, U) ==
  [k \in 1..Cardinality(U) |-> Chain[m][CHOOSE i \in U : Place(m, pref, U, i) = k]]

NextIndex(m, pref, U) ==
  LET n == Cardinality(InRotation(m, pref, U))
  IN  IF n > 1 THEN (rr_index[m] % n) + 1 ELSE rr_index[m]

(* The local provider is kept, even beyond MAX_RETRIES, if it is last. *)
Cut(s) ==
  LET head == SubSeq(s, 1, IF Len(s) < MaxTries THEN Len(s) ELSE MaxTries)
      last == s[Len(s)]
  IN  IF /\ ProviderOf[last] = Local
         /\ \A i \in 1..Len(head) : ProviderOf[head[i]] # Local
        THEN Append(head, last) ELSE head

(* _get_provider reads the api_key of every provider in the chain. *)
ChainSettled(m) ==
  [p \in Providers |->
     IF Keys[p] # <<>> /\ \E i \in 1..Len(Chain[m]) : ProviderOf[Chain[m][i]] = p
       THEN Settled(Keys[p], disabled[p], keyIndex[p]) ELSE keyIndex[p]]

(***************************************************************************)
(* The steps of a request.                                                 *)
(***************************************************************************)

(* Mutated forms of the next definitions. *)
EndEarly(c) == Len(to_try[c]) - 1
ForgetOthers(c, why) == why # "other"

AttemptsLeft(c) == attempt[c] < RetryMax
NextAttempt(c) == attempt[c] + 1
LastTry(c) == Len(to_try[c])
StillLimited(c, why) == all_rate_limited[c] /\ why # "other"
CooledDown(c, k) == cooldown \cup {<<Entry(c), k>>}

(* From a point where no await is left to the await of send_to_provider:   *)
(* the limiter counts the request, and the active key is read and sent.    *)
Counted(p) == IF Limit[p] > 0 THEN used[p] + 1 ELSE used[p]

Send(c, p, index) ==
  LET k == Settled(Keys[p], disabled[p], index[p])
  IN  /\ pc' = [pc EXCEPT ![c] = "sending"]
      /\ used' = [used EXCEPT ![p] = Counted(p)]
      /\ keyIndex' = [index EXCEPT ![p] = k]
      /\ key' = [key EXCEPT ![c] = KeyAt(Keys[p], k)]
      /\ UNCHANGED outcome

(* route_request returns or raises; its locals are set back, but for the   *)
(* plan and the errors, so that the properties can look at them.           *)
End(c, how, index) ==
  /\ pc' = [pc EXCEPT ![c] = "idle"]
  /\ preferred' = [preferred EXCEPT ![c] = Anyone]
  /\ pos' = [pos EXCEPT ![c] = 1]
  /\ attempt' = [attempt EXCEPT ![c] = 0]
  /\ key' = [key EXCEPT ![c] = NoKey]
  /\ all_rate_limited' = [all_rate_limited EXCEPT ![c] = TRUE]
  /\ keyIndex' = index
  /\ outcome' = [outcome EXCEPT ![c] = how]
  /\ UNCHANGED used

(* A request arrives and some entries of its chain are usable. *)
Start(c, m, pref, down, exhausted) ==
  LET U == {i \in 1..Len(Chain[m]) : Usable(Chain[m][i], pref, down, exhausted)}
      plan == Cut(Candidates(m, pref, U))
  IN  /\ pc[c] = "idle"
      /\ U # {}
      /\ rr_index' = [rr_index EXCEPT ![m] = NextIndex(m, pref, U)]
      /\ preferred' = [preferred EXCEPT ![c] = pref]
      /\ to_try' = [to_try EXCEPT ![c] = plan]
      /\ pos' = [pos EXCEPT ![c] = 1]
      /\ attempt' = [attempt EXCEPT ![c] = 0]
      /\ errors' = [errors EXCEPT ![c] = <<>>]
      /\ all_rate_limited' = [all_rate_limited EXCEPT ![c] = TRUE]
      /\ Send(c, ProviderOf[plan[1]], ChainSettled(m))
      /\ UNCHANGED <<disabled, cooldown, penalty>>

(* Its model is unknown, or no entry of its chain is usable. *)
Refuse(c, m, pref, down, exhausted) ==
  /\ pc[c] = "idle"
  /\ \A i \in 1..Len(Chain[m]) : ~Usable(Chain[m][i], pref, down, exhausted)
  /\ to_try' = [to_try EXCEPT ![c] = <<>>]
  /\ errors' = [errors EXCEPT ![c] = <<>>]
  /\ End(c, "ValueError", ChainSettled(m))
  /\ UNCHANGED <<disabled, cooldown, penalty, rr_index>>

ReplyOk(c) ==
  /\ pc[c] = "sending"
  /\ penalty' = [penalty EXCEPT ![Entry(c)] = IF @ > 0 THEN @ - 1 ELSE 0]
  /\ End(c, "ok", keyIndex)
  /\ UNCHANGED <<disabled, cooldown, rr_index, to_try, errors>>

(* Another exception than ProviderError, such as a refused connection. *)
ReplyRaises(c) ==
  /\ pc[c] = "sending"
  /\ End(c, "escaped", keyIndex)
  /\ UNCHANGED <<disabled, cooldown, penalty, rr_index, to_try, errors>>

(* 429 with a Retry-After, or 500, 502, 503, and attempts are left: sleep. *)
ReplyRetryLater(c) ==
  /\ pc[c] = "sending"
  /\ AttemptsLeft(c)
  /\ pc' = [pc EXCEPT ![c] = "sleeping"]
  /\ UNCHANGED <<shared, plans, progress, outcome>>

Wake(c) ==
  /\ pc[c] = "sleeping"
  /\ attempt' = [attempt EXCEPT ![c] = NextAttempt(c)]
  /\ Send(c, Provider(c), keyIndex)
  /\ UNCHANGED <<disabled, cooldown, penalty, rr_index, plans, pos, errors,
                 all_rate_limited>>

(* The entry has failed: the next one is tried, or there is none.  After a *)
(* 429 or a timeout all_rate_limited stays, any other failure resets it.   *)
MoveOn(c, why, index) ==
  LET limited == StillLimited(c, why)
  IN  /\ errors' = [errors EXCEPT ![c] = Append(@, why)]
      /\ \/ /\ pos[c] < LastTry(c)
            /\ pos' = [pos EXCEPT ![c] = @ + 1]
            /\ attempt' = [attempt EXCEPT ![c] = 0]
            /\ all_rate_limited' = [all_rate_limited EXCEPT ![c] = limited]
            /\ Send(c, ProviderOf[to_try[c][pos[c] + 1]], index)
            /\ UNCHANGED preferred
         \/ /\ pos[c] >= LastTry(c)
            /\ End(c, IF limited THEN "AllRateLimitedError" ELSE "RuntimeError",
                   index)
      /\ UNCHANGED <<disabled, rr_index, to_try>>

(* record_hit. *)
Hit(c) ==
  [penalty EXCEPT ![Entry(c)] =
     IF @ + PenaltyPer429 < MaxPenalty THEN @ + PenaltyPer429 ELSE MaxPenalty]

ReplyTimeout(c) ==
  /\ pc[c] = "sending"
  /\ penalty' = Hit(c)
  /\ MoveOn(c, "timeout", keyIndex)
  /\ UNCHANGED cooldown

(* What rotate_key does to the key ring when the provider has other keys. *)
RotatedIndex(p) ==
  [keyIndex EXCEPT ![p] = IF Len(Keys[p]) > 1
                            THEN Rotated(Keys[p], disabled[p], @) ELSE @]

(* 429 for good: the key is rotated, then api_key is put on cooldown. *)
ReplyRateLimited(c) ==
  LET p == Provider(c)
      index == [RotatedIndex(p) EXCEPT ![p] = Settled(Keys[p], disabled[p], @)]
  IN  /\ pc[c] = "sending"
      /\ penalty' = Hit(c)
      /\ cooldown' = CooledDown(c, KeyAt(Keys[p], index[p]))
      /\ MoveOn(c, "rate_limited", index)

(* 401 or 403. *)
ReplyAuthError(c) ==
  /\ pc[c] = "sending"
  /\ MoveOn(c, "other", RotatedIndex(Provider(c)))
  /\ UNCHANGED <<cooldown, penalty>>

(* Any other status, or 500, 502, 503 at the last attempt. *)
ReplyError(c) ==
  /\ pc[c] = "sending"
  /\ MoveOn(c, "other", keyIndex)
  /\ UNCHANGED <<cooldown, penalty>>

(***************************************************************************)
(* The clock, and the components that enable and disable keys.             *)
(***************************************************************************)

Locals == <<pc, plans, progress, outcome>>

CooldownExpires ==
  /\ \E x \in cooldown : cooldown' = cooldown \ {x}
  /\ UNCHANGED <<keyIndex, disabled, penalty, used, rr_index, Locals>>

PenaltyDecays(e) ==
  /\ penalty[e] > 0
  /\ penalty' = [penalty EXCEPT ![e] = @ - 1]
  /\ UNCHANGED <<keyIndex, disabled, cooldown, used, rr_index, Locals>>

WindowSlides(p) ==
  /\ used[p] > 0
  /\ used' = [used EXCEPT ![p] = @ - 1]
  /\ UNCHANGED <<keyIndex, disabled, cooldown, penalty, rr_index, Locals>>

(* toggle_key, or the health checker's check_key. *)
ToggleKey(p) ==
  /\ \E i \in 1..Len(Keys[p]) :
       disabled' = [disabled EXCEPT ![p] =
                      IF Keys[p][i] \in @ THEN @ \ {Keys[p][i]} ELSE @ \cup {Keys[p][i]}]
  /\ UNCHANGED <<keyIndex, cooldown, penalty, used, rr_index, Locals>>

Reply(c) ==
  \/ ReplyOk(c) \/ ReplyRaises(c) \/ ReplyRetryLater(c) \/ ReplyTimeout(c)
  \/ ReplyRateLimited(c) \/ ReplyAuthError(c) \/ ReplyError(c)

Arrive(c) ==
  \E m \in Models, pref \in Preferences, down \in Outages, exhausted \in Exhaustions :
    Start(c, m, pref, down, exhausted) \/ Refuse(c, m, pref, down, exhausted)

Next ==
  \/ \E c \in Callers : Arrive(c) \/ Reply(c) \/ Wake(c)
  \/ CooldownExpires
  \/ \E e \in Entries : PenaltyDecays(e)
  \/ \E p \in Providers : WindowSlides(p)
  \/ \E p \in Toggled : ToggleKey(p)

SafetySpec == Init /\ [][Next]_vars

(* Every provider call returns or times out, and every sleep ends. *)
Spec ==
  /\ SafetySpec
  /\ \A c \in Callers : WF_vars(Reply(c)) /\ WF_vars(Wake(c))
-----------------------------------------------------------------------------
(***************************************************************************)
(* Properties.                                                             *)
(***************************************************************************)

Busy(c) == pc[c] # "idle"
KeysOf(p) == {Keys[p][i] : i \in 1..Len(Keys[p])}

(* The variables have the types the code gives them; an entry is tried at  *)
(* most RETRY_MAX_ATTEMPTS + 1 times by a request.                         *)
TypeOK ==
  /\ keyIndex \in [Providers -> Nat]
  /\ \A p \in Providers : keyIndex[p] > 0 => keyIndex[p] < Len(Keys[p])
  /\ disabled \in [Providers -> SUBSET KeyNames]
  /\ cooldown \in SUBSET (Entries \X KeyNames)
  /\ penalty \in [Entries -> 0..MaxPenalty]
  /\ used \in [Providers -> Nat]
  /\ rr_index \in [Models -> Nat]
  /\ pc \in [Callers -> {"idle", "sending", "sleeping"}]
  /\ preferred \in [Callers -> Providers \cup {Anyone}]
  /\ to_try \in [Callers -> Seq(Entries)]
  /\ pos \in [Callers -> Nat \ {0}]
  /\ attempt \in [Callers -> 0..RetryMax]
  /\ key \in [Callers -> KeyNames \cup {NoKey}]
  /\ errors \in [Callers -> Seq(Failures)]
  /\ all_rate_limited \in [Callers -> BOOLEAN]
  /\ outcome \in [Callers -> Outcomes]
  /\ \A c \in Callers : Busy(c) =>
       pos[c] \in 1..Len(to_try[c]) /\ key[c] \in KeysOf(Provider(c))

(* The local provider is asked only when every other entry of the plan has *)
(* failed, unless the request prefers it (_select_provider, route_request).*)
LocalIsLastResort ==
  \A c \in Callers :
    Busy(c) /\ preferred[c] # Local /\ Provider(c) = Local =>
      \A i \in 1..Len(to_try[c]) :
        ProviderOf[to_try[c][i]] # Local => i \in 1..Len(errors[c])

(* A request that fails has tried its whole plan; it fails as rate limited,*)
(* which sends it to the queue, if and only if no entry failed otherwise   *)
(* than with a 429 or a timeout.                                           *)
FailureIsHonest ==
  \A c \in Callers :
    ~Busy(c) /\ outcome[c] \in {"AllRateLimitedError", "RuntimeError"} =>
      /\ Len(errors[c]) = Len(to_try[c])
      /\ outcome[c] = "AllRateLimitedError" <=>
           \A i \in 1..Len(errors[c]) : errors[c][i] # "other"

(* Sorting, rotating and cutting the candidates loses none and repeats     *)
(* none: a plan has no entry twice, and has one more than MAX_RETRIES only *)
(* for the local provider's sake.                                          *)
EachEntryOnce ==
  \A c \in Callers :
    LET plan == to_try[c]
    IN  /\ \A i, j \in 1..Len(plan) : plan[i] = plan[j] => i = j
        /\ Len(plan) > MaxTries =>
             Len(plan) = MaxTries + 1 /\ ProviderOf[plan[Len(plan)]] = Local

(* Every plan is what the preferences and the limits of the gateway allow, *)
(* and is gone through in its order.                                       *)
PlansAreSound == TypeOK /\ EachEntryOnce /\ LocalIsLastResort

(* Caller c sends a request to the provider of its current entry. *)
NewSend(c) == pc'[c] = "sending" /\ (pc[c] # "sending" \/ pos'[c] # pos[c])
(* The current entry of c fails with a 429. *)
RateLimited(c) ==
  Len(errors'[c]) = Len(errors[c]) + 1 /\ errors'[c][Len(errors'[c])] = "rate_limited"

(* Whatever the others did to the key ring meanwhile, a request goes out   *)
(* with a key that is not disabled, unless all keys are (api_key).         *)
UsesEnabledKey ==
  [][\A c \in Callers : NewSend(c) =>
       LET p == Provider(c)'
       IN  key'[c] \notin disabled[p] \/ KeysOf(p) \subseteq disabled[p]]_vars

(* When a provider reports its rate limit on the key its index is at, the  *)
(* ring moves to another key, if another one is enabled, whatever other    *)
(* requests and the operator did to the ring meanwhile (rotate_key).       *)
RotationLeavesLimitedKey ==
  [][\A c \in Callers : RateLimited(c) =>
       LET p == Provider(c)
           current == KeyAt(Keys[p], keyIndex[p])
       IN  current = key[c] /\ ~(KeysOf(p) \ {current} \subseteq disabled[p]) =>
             KeyAt(Keys[p], keyIndex'[p]) # current]_vars

(* The key on which a provider reported its rate limit is on cooldown      *)
(* afterwards (set_cooldown in route_request).                             *)
LimitedKeyCoolsDown ==
  [][\A c \in Callers :
       RateLimited(c) => <<Entry(c), key[c]>> \in cooldown']_vars

(* How Failover sees a request: a candidate is a place in its plan.        *)
Promise == INSTANCE Failover WITH
  Numbers <- 1..(MaxTries + 1),
  todo <- [c \in Callers |-> IF Busy(c) THEN pos[c]..Len(to_try[c]) ELSE {}],
  last <- [c \in Callers |->
             IF Busy(c) /\ preferred[c] # Local
               THEN {i \in 1..Len(to_try[c]) : ProviderOf[to_try[c][i]] = Local}
               ELSE {}],
  stage <- [c \in Callers |->
              CASE Busy(c) -> "trying"
                [] ~Busy(c) /\ outcome[c] = "none" -> "idle"
                [] ~Busy(c) /\ outcome[c] = "ok" -> "served"
                [] ~Busy(c) /\ outcome[c] = "ValueError" -> "refused"
                [] ~Busy(c) /\ outcome[c] = "escaped" -> "broken"
                [] OTHER -> "failed"]

(* Routing is a Failover: each candidate of a request is tried in its turn *)
(* and every request ends, whatever the providers do (route_request).      *)
FailsOver == Promise!Spec
=============================================================================
