----------------------------- MODULE UsageBooks -----------------------------
(***************************************************************************)
(* What the gateway counts of the requests it has served and keeps in      *)
(* files: the quota windows of a provider with its limits                  *)
(* (quota_tracker.py) and the token usage by day, provider and model       *)
(* (tracking.py).  Both files are written in place, so that a crash or a   *)
(* full disk may leave one that cannot be read (Torn).                     *)
(***************************************************************************)
EXTENDS Integers, FiniteSets, Sequences, SequencesExt, Lists

CONSTANTS
  Provs, UsedModels,  \* the providers and models that are billed
  Watched,            \* the provider whose quota is modelled
  Amounts,            \* the tokens of a response
  WindowLength,       \* of the windows minute, day and month
  KnownLimits,        \* the provider's entry in PROVIDER_QUOTAS
  NewLimits,          \* the limits the operator may set: [rpm, rpd, daily]
  SaveInterval,       \* the seconds between two saves of the usage
  DayLength,          \* seconds of a calendar day
  FirstTime,          \* the time of the start: later than any window's length
  LastTime,           \* bound: the last time
  MaxBooked,          \* bound: records in a behaviour
  Torn                \* a file that cannot be read

Windows == {"minute", "day", "month"}
Days == 0..(LastTime \div DayLength)

Limitations == [rpm : Nat, rpd : Nat, daily : Nat, monthly : Nat]
Counter == [requests : Nat, tokens : Nat]
Counts ==
  [total : Counter, daily : [Days -> Counter], provider : [Days \X Provs -> Counter],
   model : [Days \X UsedModels -> Counter]]

ASSUME UsageBooksAssumption ==
  /\ WindowLength \in [Windows -> 1..(FirstTime - 1)]
  /\ {SaveInterval, FirstTime, LastTime, MaxBooked} \subseteq Nat /\ DayLength \in Nat \ {0}
  /\ FirstTime <= LastTime /\ Amounts \subseteq Nat /\ Watched \in Provs
  /\ KnownLimits \in Limitations
  /\ NewLimits \subseteq [rpm : Nat, rpd : Nat, daily : Nat]
  /\ Torn \notin Counts

VARIABLES
  time,       \* the time
  running,    \* is the gateway running?
  usage,      \* per window: its QuotaUsage
  quota,      \* the limits of the provider's ProviderQuota
  quotaFile,  \* quotas.json: those limits, or none
  data,       \* UsageTracker._data
  usageFile,  \* usage.json
  dirty,      \* UsageTracker._dirty
  lastSave,   \* UsageTracker._last_save
  kept,       \* history: the records data was counted from
  filed,      \* history: the records that usageFile holds
  loaded,     \* history: how many of kept were there at the start
  spoiled     \* history: did the gateway crash, or the last save fail?

quotas == <<usage, quota, quotaFile>>
books == <<data, usageFile, dirty, lastSave, kept, filed, loaded, spoiled>>
bookVars == <<time, running, quotas, books>>

Nothing == [requests |-> 0, tokens |-> 0]
Plus(c, n) == [requests |-> c.requests + 1, tokens |-> c.tokens + n]

Fresh ==
  [total |-> Nothing, daily |-> [d \in Days |-> Nothing],
   provider |-> [x \in Days \X Provs |-> Nothing],
   model |-> [x \in Days \X UsedModels |-> Nothing]]

Unused == [w \in Windows |-> [count |-> 0, tokens |-> 0, start |-> 0]]

BookInit ==
  /\ time = FirstTime /\ running = TRUE
  /\ usage = Unused /\ quota = KnownLimits /\ quotaFile = <<>>
  /\ data = Fresh /\ usageFile = <<>> /\ dirty = FALSE /\ lastSave = FirstTime
  /\ kept = <<>> /\ filed = <<>> /\ loaded = 0 /\ spoiled = FALSE

-----------------------------------------------------------------------------
(***************************************************************************)
(* The quota windows.                                                      *)
(***************************************************************************)

(* reset_if_expired, of the windows ws. *)
Reset(u, ws) ==
  [w \in Windows |-> IF w \in ws /\ time - u[w].start > WindowLength[w]
                       THEN [count |-> 0, tokens |-> 0, start |-> time] ELSE u[w]]

Counted(u, n) ==
  [w \in Windows |-> [u[w] EXCEPT !.count = @ + 1, !.tokens = @ + n]]

Under(limit, n) == limit > 0 => n < limit

(* Mutated form of the next definition: the day's window is not renewed. *)
VerdictWindowsFew == {"minute"}

(* is_within_limits renews the windows of the minute and the day only. *)
VerdictWindows == {"minute", "day"}

Within(u, q) ==
  /\ Under(q.rpm, u["minute"].count) /\ Under(q.rpd, u["day"].count)
  /\ Under(q.daily, u["day"].tokens) /\ Under(q.monthly, u["month"].tokens)

(* get_quota and get_all_quotas (to_dict) renew all windows, the dashboard *)
(* those of is_within_limits.                                              *)
ReadQuota(ws) ==
  /\ running
  /\ usage' = Reset(usage, ws \cup VerdictWindows)
  /\ UNCHANGED <<time, running, quota, quotaFile, books>>

(* Mutated form of Limits: a new record, without a monthly budget. *)
LimitsAnew(l, q) == l

Limits(l, q) == [rpm |-> l.rpm, rpd |-> l.rpd, daily |-> l.daily, monthly |-> q.monthly]

(* _load: the known limits, then the file's, but never a monthly budget. *)
LoadedQuota ==
  IF quotaFile \in {<<>>, Torn} THEN KnownLimits ELSE Limits(quotaFile, KnownLimits)

(* set_provider_limits changes the limits and saves them. *)
SetQuota(l) ==
  /\ running
  /\ quota' = Limits(l, quota)
  /\ quotaFile' \in {quota', quotaFile, Torn}
  /\ UNCHANGED <<time, running, usage, books>>

-----------------------------------------------------------------------------
(***************************************************************************)
(* The usage of tokens.                                                    *)
(***************************************************************************)

Today == time \div DayLength

(* Mutated form of Entered: the model's counter misses the record. *)
EnteredButModel(r) ==
  [data EXCEPT !.total = Plus(@, r.tokens), !.daily[r.day] = Plus(@, r.tokens),
               !.provider[<<r.day, r.provider>>] = Plus(@, r.tokens)]

Entered(r) ==
  [data EXCEPT !.total = Plus(@, r.tokens), !.daily[r.day] = Plus(@, r.tokens),
               !.provider[<<r.day, r.provider>>] = Plus(@, r.tokens),
               !.model[<<r.day, r.model>>] = Plus(@, r.tokens)]

(* _save replaces the file, or fails before or in the middle of it.  The   *)
(* data are those after the step.                                          *)
SaveUsage ==
  \/ /\ usageFile' = data' /\ filed' = kept'
     /\ dirty' = FALSE /\ lastSave' = time /\ spoiled' = FALSE
  \/ /\ \/ UNCHANGED <<usageFile, filed>>
        \/ usageFile' = Torn /\ filed' = <<>>
     /\ dirty' = TRUE /\ spoiled' = TRUE
     /\ UNCHANGED lastSave

Unsaved == UNCHANGED <<usageFile, filed, lastSave, spoiled>>

(* Mutated form of the next definition: the interval is not looked at in time. *)
SaveLate == time - lastSave > SaveInterval + 1

SaveDue == time - lastSave > SaveInterval

(* chat_completions records one response in both books. *)
RecordUsage(p, m, n) ==
  LET r == [provider |-> p, model |-> m, tokens |-> n, day |-> Today, at |-> time] IN
  /\ running /\ Len(kept) < MaxBooked
  /\ usage' = IF p = Watched THEN Counted(Reset(usage, Windows), n) ELSE usage
  /\ data' = Entered(r)
  /\ kept' = Append(kept, r)
  /\ IF SaveDue THEN SaveUsage ELSE dirty' = TRUE /\ Unsaved
  /\ UNCHANGED <<time, running, quota, quotaFile, loaded>>

(* The end of the lifespan: flush. *)
Stop ==
  /\ running /\ running' = FALSE
  /\ UNCHANGED <<time, quotas, data, kept, loaded>>
  /\ IF dirty THEN SaveUsage ELSE UNCHANGED dirty /\ Unsaved

(* A crash, in the middle of a save perhaps. *)
Crash ==
  /\ running /\ running' = FALSE /\ spoiled' = TRUE
  /\ \/ UNCHANGED <<usageFile, filed>>
     \/ dirty /\ SaveDue /\ usageFile' = Torn /\ filed' = <<>>
  /\ UNCHANGED <<time, quotas, data, dirty, lastSave, kept, loaded>>

(* Both _load: a usage file that cannot be read is as none.  The windows   *)
(* of the quotas are not kept.                                             *)
Restart ==
  /\ ~running /\ running' = TRUE
  /\ usage' = Unused
  /\ quota' = LoadedQuota
  /\ data' = IF usageFile \in {<<>>, Torn} THEN Fresh ELSE usageFile
  /\ kept' = filed /\ loaded' = Len(filed)
  /\ dirty' = FALSE /\ lastSave' = time /\ spoiled' = FALSE
  /\ UNCHANGED <<time, quotaFile, usageFile, filed>>

BookTick ==
  /\ time < LastTime /\ time' = time + 1
  /\ UNCHANGED <<running, quotas, books>>

BookNext ==
  \/ \E p \in Provs, m \in UsedModels, n \in Amounts : RecordUsage(p, m, n)
  \/ ReadQuota(Windows)
  \/ ReadQuota({})
  \/ \E l \in NewLimits : SetQuota(l)
  \/ Stop
  \/ Crash
  \/ Restart
  \/ BookTick

BookSpec == BookInit /\ [][BookNext]_bookVars
-----------------------------------------------------------------------------
(***************************************************************************)
(* Properties.                                                             *)
(***************************************************************************)

Record ==
  [provider : Provs, model : UsedModels, tokens : Amounts, day : Days, at : FirstTime..LastTime]
TokensOf == [r \in Record |-> r.tokens]

(* The number and the tokens of the records of s that are in S. *)
CountOf(s, S) == [requests |-> Len(Only(s, S)), tokens |-> SumOver(Only(s, S), TokensOf)]

(* The variables have the types the code gives them. *)
BookTypeOK ==
  /\ time \in FirstTime..LastTime /\ lastSave \in FirstTime..LastTime
  /\ running \in BOOLEAN /\ dirty \in BOOLEAN /\ spoiled \in BOOLEAN
  /\ usage \in [Windows -> [count : Nat, tokens : Nat, start : 0..LastTime]]
  /\ quota \in Limitations /\ quotaFile \in Limitations \cup {<<>>, Torn}
  /\ data \in Counts /\ usageFile \in Counts \cup {<<>>, Torn}
  /\ kept \in Seq(Record) /\ filed \in Seq(Record) /\ loaded \in 0..Len(kept)

(* The counters of d are each the count of the records of s.               *)
Agrees(d, s) ==
  /\ d.total = CountOf(s, Record)
  /\ \A t \in Days :
       /\ d.daily[t] = CountOf(s, {r \in Record : r.day = t})
       /\ \A p \in Provs :
            d.provider[<<t, p>>] = CountOf(s, {r \in Record : r.day = t /\ r.provider = p})
       /\ \A m \in UsedModels :
            d.model[<<t, m>>] = CountOf(s, {r \in Record : r.day = t /\ r.model = m})

(* The four counters of a record agree, over days, saves, crashes and      *)
(* restarts: each is the count of the same records (record, _save, _load). *)
BooksAgree == Agrees(data, kept)

(* While saves succeed, what a crash now would lose was recorded within    *)
(* SaveInterval of the last save (_maybe_save), and a shutdown loses       *)
(* nothing (flush).                                                        *)
LossIsRecent ==
  ~spoiled =>
    /\ IsPrefix(filed, kept)
    /\ \A i \in (Len(filed) + 1)..Len(kept) :
         running /\ kept[i].at <= lastSave + SaveInterval

(* What the provider was sent since the gateway started. *)
OfWatched ==
  Only(SubSeq(kept, loaded + 1, Len(kept)), {r \in Record : r.provider = Watched})

(* What it was sent in the last length of window w. *)
RecentOf(w) == CountOf(OfWatched, {r \in Record : time - r.at <= WindowLength[w]})

(* A window is shown to hold no more than was sent in its last length      *)
(* (reset_if_expired).                                                     *)
ShownIsRecent ==
  \A w \in Windows : LET shown == Reset(usage, Windows)[w] IN
    running => shown.count <= RecentOf(w).requests /\ shown.tokens <= RecentOf(w).tokens

(* A provider is reported over a limit of the minute or the day only when  *)
(* that much was sent in the last minute or day (is_within_limits).        *)
RefusalIsRecent ==
  running /\ ~Within(Reset(usage, VerdictWindows), quota)
          /\ Under(quota.monthly, usage["month"].tokens) =>
    \/ ~Under(quota.rpm, RecentOf("minute").requests)
    \/ ~Under(quota.rpd, RecentOf("day").requests)
    \/ ~Under(quota.daily, RecentOf("day").tokens)

(* A window counts every request since it began (record_request,           *)
(* reset_if_expired).                                                      *)
WindowsCountAll ==
  \A w \in Windows : running =>
    usage[w].count = CountOf(OfWatched, {r \in Record : r.at >= usage[w].start}).requests

(* The quota's windows tell what was sent in them, no more and no less, and*)
(* its verdict rests on that (quota_tracker.py).                           *)
QuotaIsRecent == ShownIsRecent /\ RefusalIsRecent /\ WindowsCountAll
=============================================================================
