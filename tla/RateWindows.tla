----------------------------- MODULE RateWindows -----------------------------
(***************************************************************************)
(* The rolling windows that keep a provider below its limits               *)
(* (rate_limiter.py, one window per provider; rate_tracker.py, one per     *)
(* model and key) and the requests that are planned by them and recorded   *)
(* in them (router.py, main.py).  A provider with one key: the rotation of *)
(* several is in Router.                                                   *)
(*                                                                         *)
(* A request asks when it is planned, is counted by the provider's limiter *)
(* at each attempt and by the model's bucket when it has succeeded; other  *)
(* requests and the operator's calls run between.                          *)
(***************************************************************************)
EXTENDS Naturals, FiniteSets, Sequences, SequencesExt, Lists

CONSTANTS
  Models,        \* the provider's models
  Callers,       \* the requests under way at a time
  Minute, Day,   \* lengths of the windows
  Cooldown,      \* DEFAULT_COOLDOWN_S
  ProviderRpm, ProviderRpd,  \* rpm_limit and rpd_limit of the provider, 0: none
  EntryLimits,   \* per model: the limits of its entry in models.yaml
  SetLimits,     \* the limits the operator may set
  Estimates,     \* the estimates of a request's tokens
  Tokens,        \* the tokens a response reports
  MaxAttempts,   \* RETRY_MAX_ATTEMPTS + 1
  MaxRequests,   \* bound: attempts in a behaviour
  Horizon        \* bound: the last time

LimitRecords == [rpm : Nat, rpd : Nat, tpm : Nat, tpd : Nat]
NoLimits == [rpm |-> 0, rpd |-> 0, tpm |-> 0, tpd |-> 0]

ASSUME RateWindowsAssumption ==
  /\ {Minute, Day, Cooldown, MaxAttempts} \subseteq Nat \ {0} /\ Minute <= Day
  /\ ProviderRpm \in Nat /\ ProviderRpd \in Nat
  /\ EntryLimits \in [Models -> LimitRecords] /\ SetLimits \subseteq LimitRecords
  /\ Estimates \subseteq Nat /\ Tokens \subseteq Nat
  /\ IsFiniteSet(Callers) /\ Callers # {}
  /\ Horizon \in Nat \ {0} /\ "none" \notin Models

VARIABLES
  now,        \* the time
  minute,     \* RateLimitState._minute_timestamps
  day,        \* RateLimitState._day_timestamps
  buckets,    \* per model: the requests of its RateBucket, with their tokens
  limits,     \* per model: _limits; NoLimits when there are none
  cooldowns,  \* per model: when its cooldown expires; 0 when it has none
  planned,    \* per caller: what it has been planned for
  sends,      \* history: when each attempt was made
  booked,     \* history, per model: its requests, never pruned
  honest      \* history: no response had more tokens than its estimate

windows == <<minute, day, buckets, limits, cooldowns>>
rateVars == <<now, windows, planned, sends, booked, honest>>

Idle == [model |-> "none", tries |-> 0, estimate |-> 0]

RateInit ==
  /\ now = 1
  /\ minute = <<>> /\ day = <<>>
  /\ buckets = [m \in Models |-> <<>>]
  /\ limits = [m \in Models |-> NoLimits]
  /\ cooldowns = [m \in Models |-> 0]
  /\ planned = [c \in Callers |-> Idle]
  /\ sends = <<>>
  /\ booked = buckets
  /\ honest = TRUE

Inside(t, w) == t + w > now

Booking == [at : 1..Horizon, tokens : Tokens]
Spent == [r \in Booking |-> r.tokens]

(* The bookings, and the times, of the last w. *)
Lately(w) == {r \in Booking : Inside(r.at, w)}
Recent(times, w) == Only(times, {t \in 1..Horizon : Inside(t, w)})

(* Mutated form of Pruned: the day's requests are pruned by the minute. *)
PrunedEarly(b) == Only(b, Lately(Minute))

Pruned(b) == Only(b, Lately(Day))

Requests(b, w) == Len(Only(b, Lately(w)))
TokensIn(b, w) == SumOver(Only(b, Lately(w)), Spent)

(* Reached(0, n) is FALSE: 0 is no limit. *)
Reached(limit, n) == limit > 0 /\ n >= limit

ProviderFull ==
  \/ Reached(ProviderRpm, Len(Recent(minute, Minute)))
  \/ Reached(ProviderRpd, Len(Recent(day, Day)))

PruneLimiter == minute' = Recent(minute, Minute) /\ day' = Recent(day, Day)

(* is_limited *)
Full(b, l) ==
  \/ Reached(l.rpm, Requests(b, Minute)) \/ Reached(l.rpd, Requests(b, Day))
  \/ Reached(l.tpm, TokensIn(b, Minute)) \/ Reached(l.tpd, TokensIn(b, Day))

(* Mutated form of WouldExceed: it asks only what is used. *)
HasExceeded(b, l, estimate) == l.tpm > 0 /\ TokensIn(b, Minute) > l.tpm

(* would_exceed_token_limit, which a request of no estimate skips. *)
WouldExceed(b, l, estimate) ==
  /\ estimate > 0
  /\ \/ l.tpm > 0 /\ TokensIn(b, Minute) + estimate > l.tpm
     \/ l.tpd > 0 /\ TokensIn(b, Day) + estimate > l.tpd

CoolingDown(m) == now < cooldowns[m]

Registered(m) == IF EntryLimits[m] # NoLimits THEN EntryLimits[m] ELSE limits[m]

(* _select_provider asks the limiter, registers the entry's limits, asks  *)
(* the tracker whether the model is limited, would be, or cools down.      *)
Plan(c, m, estimate) ==
  LET l == Registered(m) IN
  /\ planned[c] = Idle
  /\ PruneLimiter
  /\ \/ ProviderFull /\ UNCHANGED <<buckets, limits, cooldowns, planned>>
     \/ /\ ~ProviderFull
        /\ limits' = [limits EXCEPT ![m] = l]
        /\ buckets' = [buckets EXCEPT ![m] = IF l # NoLimits THEN Pruned(@) ELSE @]
        /\ IF Full(buckets[m], l) \/ WouldExceed(buckets[m], l, estimate) \/ CoolingDown(m)
             THEN UNCHANGED <<cooldowns, planned>>
             ELSE /\ cooldowns' = [cooldowns EXCEPT ![m] = 0]
                  /\ planned' = [planned EXCEPT ![c] =
                       [model |-> m, tries |-> 0, estimate |-> estimate]]
  /\ UNCHANGED <<now, sends, booked, honest>>

(* An attempt, or its repetition after an error that is retried. *)
Send(c) ==
  /\ planned[c] # Idle /\ planned[c].tries < MaxAttempts /\ Len(sends) < MaxRequests
  /\ minute' = Append(Recent(minute, Minute), now)
  /\ day' = Append(Recent(day, Day), now)
  /\ planned' = [planned EXCEPT ![c].tries = @ + 1]
  /\ sends' = Append(sends, now)
  /\ UNCHANGED <<now, buckets, limits, cooldowns, booked, honest>>

Answered(c) == planned[c].tries > 0 /\ planned' = [planned EXCEPT ![c] = Idle]

(* chat_completions, when route_request has returned. *)
Book(c, tokens) ==
  LET m == planned[c].model
      r == [at |-> now, tokens |-> tokens]
  IN  /\ Answered(c)
      /\ buckets' = [buckets EXCEPT ![m] = Append(@, r)]
      /\ booked' = [booked EXCEPT ![m] = Append(@, r)]
      /\ honest' = (honest /\ tokens <= planned[c].estimate)
      /\ UNCHANGED <<now, minute, day, limits, cooldowns, sends>>

(* The last attempt was answered by 429. *)
CoolDown(c) ==
  LET m == planned[c].model
  IN  /\ Answered(c)
      /\ cooldowns' = [cooldowns EXCEPT ![m] = now + Cooldown]
      /\ UNCHANGED <<now, minute, day, buckets, limits, sends, booked, honest>>

(* The last attempt failed in another way. *)
GiveUp(c) ==
  Answered(c) /\ UNCHANGED <<now, windows, sends, booked, honest>>

(* POST /api/rate-tracking/set-limits. *)
SetLimit(m, l) ==
  /\ limits' = [limits EXCEPT ![m] = l]
  /\ UNCHANGED <<now, minute, day, buckets, cooldowns, planned, sends, booked, honest>>

(* The dashboard: get_all_status and get_all_usage prune what they show. *)
Report ==
  /\ PruneLimiter
  /\ buckets' = [m \in Models |-> Pruned(buckets[m])]
  /\ UNCHANGED <<now, limits, cooldowns, planned, sends, booked, honest>>

(* POST /api/rate-tracking/cleanup: a bucket of no request within a day is *)
(* removed, and its limits with it; max_age is not used.                   *)
CleanUp ==
  /\ buckets' = [m \in Models |-> Pruned(buckets[m])]
  /\ limits' = [m \in Models |-> IF Pruned(buckets[m]) = <<>> THEN NoLimits ELSE limits[m]]
  /\ UNCHANGED <<now, minute, day, cooldowns, planned, sends, booked, honest>>

RateTick ==
  /\ now < Horizon
  /\ now' = now + 1
  /\ UNCHANGED <<windows, planned, sends, booked, honest>>

RateNext ==
  \/ \E c \in Callers :
       \/ \E m \in Models, e \in Estimates : Plan(c, m, e)
       \/ Send(c)
       \/ \E t \in Tokens : Book(c, t)
       \/ CoolDown(c)
       \/ GiveUp(c)
  \/ \E m \in Models, l \in SetLimits : SetLimit(m, l)
  \/ Report
  \/ CleanUp
  \/ RateTick

RateSpec == RateInit /\ [][RateNext]_rateVars
-----------------------------------------------------------------------------
(***************************************************************************)
(* Properties.                                                             *)
(***************************************************************************)

(* The variables have the types the code gives them. *)
RateTypeOK ==
  LET records == Seq([at : 1..now, tokens : Tokens]) IN
  /\ now \in 1..Horizon
  /\ {minute, day, sends} \subseteq Seq(1..now)
  /\ buckets \in [Models -> records] /\ booked \in [Models -> records]
  /\ limits \in [Models -> LimitRecords]
  /\ cooldowns \in [Models -> 0..(now + Cooldown)]
  /\ planned \in [Callers -> [model : Models \cup {"none"}, tries : 0..MaxAttempts,
                              estimate : Estimates \cup {0}]]
  /\ honest \in BOOLEAN

(* What the histories hold of the last w. *)
LastSends(w) == Len(Only(sends, {t \in 1..Horizon : now - t < w}))
LastBooked(m, w) == Only(booked[m], {r \in Booking : now - r.at < w})
SumTokens(b) == SumOver(b, Spent)

(* Whatever plans, reports and cleanups prune, the tracker's answer to the *)
(* next request is that of all requests since the start (rate_tracker.py,  *)
(* is_limited).                                                            *)
PruningLosesNothing ==
  \A m \in Models, w \in {Minute, Day} :
    /\ Requests(buckets[m], w) = Len(LastBooked(m, w))
    /\ TokensIn(buckets[m], w) = SumTokens(LastBooked(m, w))

Others == Cardinality(Callers) - 1

(* No minute and no day holds more requests of a model than its entry      *)
(* allows and those that were planned at the same time (_select_provider). *)
ModelWindowHolds ==
  \A m \in Models : LET l == EntryLimits[m] IN
    /\ l.rpm > 0 => Len(LastBooked(m, Minute)) <= l.rpm + Others
    /\ l.rpd > 0 => Len(LastBooked(m, Day)) <= l.rpd + Others

(* While no response has more tokens than its request was estimated to     *)
(* have, only requests planned at the same time exceed the token limit     *)
(* (would_exceed_token_limit).                                             *)
TokenWindowHolds ==
  \A m \in Models : honest /\ EntryLimits[m].tpm > 0 =>
    \A t \in Tokens : (\A u \in Tokens : u <= t) =>
      SumTokens(LastBooked(m, Minute)) <= EntryLimits[m].tpm + Others * t

(* No minute and no day holds more attempts at a provider than its limit   *)
(* and the attempts of the requests planned at the same time (is_limited,  *)
(* record_request).                                                        *)
ProviderWindowHolds ==
  LET over == Cardinality(Callers) * MaxAttempts - 1 IN
  /\ ProviderRpm > 0 => LastSends(Minute) <= ProviderRpm + over
  /\ ProviderRpd > 0 => LastSends(Day) <= ProviderRpd + over

(* Whatever is under way together, no window of a provider or a model is   *)
(* exceeded by more than that (is_limited, would_exceed_token_limit).      *)
WindowsHold == ModelWindowHolds /\ TokenWindowHolds /\ ProviderWindowHolds
=============================================================================
