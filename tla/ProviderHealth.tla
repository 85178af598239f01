--------------------------- MODULE ProviderHealth ---------------------------
(***************************************************************************)
(* What HealthChecker (health.py) knows of one provider, and the checks    *)
(* that tell it: the one the application runs while it starts, those of    *)
(* the background loop, which alternates between pinging the providers and *)
(* validating their keys, and those of POST /api/health/check.  A check    *)
(* awaits the provider's answer, and the others run meanwhile.             *)
(*                                                                         *)
(* Time is counted in a unit both periods are multiples of.  The code asks *)
(* of last_check_time only how long ago it was compared with               *)
(* COOLDOWN_SECONDS, so the model keeps that age, saturated just above it. *)
(* Timers never fire early and may fire late.                              *)
(***************************************************************************)
EXTENDS Naturals

CONSTANTS
  Startup,          \* the check of the application's start
  Loop,             \* the check of the background loop
  Askers,           \* the requests to POST /api/health/check
  CheckInterval,    \* CHECK_INTERVAL
  CooldownSeconds,  \* COOLDOWN_SECONDS
  DownThreshold     \* DOWN_THRESHOLD

Checkers == {Startup, Loop} \cup Askers

ASSUME CheckersAssumption == Startup # Loop /\ {Startup, Loop} \cap Askers = {}
ASSUME PeriodsAssumption == CheckInterval \in Nat \ {0} /\ CooldownSeconds \in Nat
ASSUME ThresholdAssumption == DownThreshold \in Nat \ {0}

VARIABLES
  alive,     \* does the provider answer pings?
  has_key,   \* does the provider have an api_key?
  status,    \* status
  failures,  \* consecutive_failures
  age,       \* time.time() - last_check_time
  phase,     \* per checker: where its check_provider is suspended
  round,     \* what the loop does: it sleeps, pings or validates keys
  cycle,     \* _check_cycle % 2
  delay      \* what is left of the loop's sleep

health == <<status, failures, age>>
loopVars == <<round, cycle, delay>>
vars == <<alive, has_key, health, phase, loopVars>>

LongAgo == CooldownSeconds + 1

Init ==
  /\ alive \in BOOLEAN
  /\ has_key \in BOOLEAN
  /\ status = "unknown"
  /\ failures = 0
  /\ age = LongAgo
  /\ phase = [c \in Checkers |->
                IF c = Startup /\ has_key THEN "scheduled" ELSE "idle"]
  /\ round = "asleep"
  /\ cycle = 0
  /\ delay = 0

(* The application serves no request before its own check is over. *)
Started == phase[Startup] = "idle"

(* What the router asks before it plans a request to the provider. *)
IsAvailable == status # "down" \/ age > CooldownSeconds

(***************************************************************************)
(* A check.                                                                *)
(***************************************************************************)

(* Mutated forms of the next definitions. *)
NoneMore(n) == n
KeptFailures == failures

(* Counting stops at the threshold, the only number compared with. *)
OneMore(n) == IF n < DownThreshold THEN n + 1 ELSE n
Forgiven == 0

(* check_all's tasks start at the next pass of the event loop. *)
Ping(c) ==
  /\ phase[c] = "scheduled"
  /\ has_key
  /\ phase' = [phase EXCEPT ![c] = "pinging"]
  /\ UNCHANGED <<alive, has_key, health, loopVars>>

(* The provider lost its last key since the tasks were made. *)
CheckWithoutKey(c) ==
  /\ phase[c] = "scheduled"
  /\ ~has_key
  /\ status' = "unknown"
  /\ failures' = 0
  /\ age' = LongAgo
  /\ phase' = [phase EXCEPT ![c] = "idle"]
  /\ UNCHANGED <<alive, has_key, loopVars>>

RecordCheck(c) ==
  /\ phase[c] = "pinging"
  /\ age' = 0
  /\ phase' = [phase EXCEPT ![c] = "idle"]
  /\ UNCHANGED <<alive, has_key, loopVars>>

PingAnswered(c) ==
  /\ alive
  /\ RecordCheck(c)
  /\ status' = "up"
  /\ failures' = Forgiven

(* _ping returns False: a timeout, a refused connection, a status of 500   *)
(* or above.                                                               *)
PingFailed(c) ==
  /\ ~alive
  /\ RecordCheck(c)
  /\ failures' = OneMore(failures)
  /\ status' = IF failures' >= DownThreshold THEN "down" ELSE "up"

(* _ping raises: another transport error. *)
PingRaised(c) ==
  /\ ~alive
  /\ RecordCheck(c)
  /\ failures' = OneMore(failures)
  /\ status' = IF failures' >= DownThreshold THEN "down" ELSE status

(* POST /api/health/check. *)
Ask(c) ==
  /\ Started
  /\ phase[c] = "idle"
  /\ has_key
  /\ phase' = [phase EXCEPT ![c] = "scheduled"]
  /\ UNCHANGED <<alive, has_key, health, loopVars>>

(***************************************************************************)
(* The loop.                                                               *)
(***************************************************************************)

(* Mutated form of Pause. *)
ShorterPause == CheckInterval - 1

Pause == CheckInterval

Awake == round = "asleep" /\ delay = 0

(* Odd cycles ping the providers, those without a key excepted. *)
PingRound ==
  /\ Awake
  /\ cycle = 0
  /\ cycle' = 1
  /\ round' = "providers"
  /\ phase' = [phase EXCEPT ![Loop] = IF has_key THEN "scheduled" ELSE "idle"]
  /\ UNCHANGED <<alive, has_key, health, delay>>

(* Even cycles validate the keys, which is KeyHealth's concern. *)
KeyRound ==
  /\ Awake
  /\ cycle = 1
  /\ cycle' = 0
  /\ round' = "keys"
  /\ UNCHANGED <<alive, has_key, health, phase, delay>>

(* The round waits for all its checks, those of other providers included. *)
RoundEnds ==
  /\ round # "asleep"
  /\ phase[Loop] = "idle"
  /\ round' = "asleep"
  /\ delay' = Pause
  /\ UNCHANGED <<alive, has_key, health, phase, cycle>>

(***************************************************************************)
(* The clock, the provider and the operator.                               *)
(***************************************************************************)

Tick ==
  /\ age' = IF age < LongAgo THEN age + 1 ELSE age
  /\ delay' = IF delay > 0 THEN delay - 1 ELSE 0
  /\ UNCHANGED <<alive, has_key, status, failures, phase, round, cycle>>

ProviderChanges ==
  /\ alive' = ~alive
  /\ UNCHANGED <<has_key, health, phase, loopVars>>

(* The operator removes the provider's last key or adds the first one. *)
EditKeys ==
  /\ Started
  /\ has_key' = ~has_key
  /\ UNCHANGED <<alive, health, phase, loopVars>>

CheckStep(c) ==
  Ping(c) \/ CheckWithoutKey(c) \/ PingAnswered(c) \/ PingFailed(c) \/ PingRaised(c)

LoopStep == PingRound \/ KeyRound \/ RoundEnds

Next ==
  \/ \E c \in Checkers : CheckStep(c)
  \/ \E c \in Askers : Ask(c)
  \/ LoopStep
  \/ Tick
  \/ ProviderChanges
  \/ EditKeys

(* Time passes, the event loop runs what is due, and a ping is answered or *)
(* times out.                                                              *)
Fairness ==
  /\ WF_vars(Tick)
  /\ WF_vars(LoopStep)
  /\ \A c \in Checkers : WF_vars(CheckStep(c))

Spec == Init /\ [][Next]_vars /\ Fairness
-----------------------------------------------------------------------------
(***************************************************************************)
(* Properties.                                                             *)
(***************************************************************************)

(* The variables have the types the code gives them. *)
TypeOK ==
  /\ alive \in BOOLEAN
  /\ has_key \in BOOLEAN
  /\ status \in {"unknown", "up", "down"}
  /\ failures \in 0..DownThreshold
  /\ age \in 0..LongAgo
  /\ phase \in [Checkers -> {"idle", "scheduled", "pinging"}]
  /\ round \in {"asleep", "providers", "keys"}
  /\ cycle \in {0, 1}
  /\ delay \in 0..CheckInterval

(* Whichever checks overlap, whether they fail or raise, and whatever      *)
(* happens to the keys, a provider is down exactly while DOWN_THRESHOLD    *)
(* failures in a row stand against it (check_provider).                    *)
StatusTellsFailures == status = "down" <=> failures >= DownThreshold

(* An outage that lasts is noticed: the router stops offering the provider,*)
(* unless it has no key and is not checked (check_provider, _loop).        *)
OutageIsNoticed == ~alive ~> alive \/ ~IsAvailable \/ ~has_key

(* A provider that answers again is offered again for good (check_provider,*)
(* is_available).                                                          *)
RecoveryIsNoticed == <>[]alive => <>[]IsAvailable

(* What happens to a provider reaches the router, for bad and for good.    *)
ChangesAreNoticed == OutageIsNoticed /\ RecoveryIsNoticed

(* A provider that is down is offered to the router now and then, however  *)
(* long its pings fail, unless someone keeps asking for checks: every      *)
(* second round of the loop pings it, which leaves more than               *)
(* COOLDOWN_SECONDS between two pings (_loop, is_available).               *)
DownIsRetried ==
  status = "down" ~> IsAvailable \/ \E c \in Askers : phase[c] # "idle"
=============================================================================
