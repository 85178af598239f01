------------------------------- MODULE Naming -------------------------------
(***************************************************************************)
(* Which model a name stands for (smart_router.py) and which one is taken  *)
(* when a client names none (smart_default.py, main.py).                   *)
(*                                                                         *)
(* A name is the sequence of its parts, so that a name is the beginning of *)
(* another one, or contained in it, as sequences are; letter case is not   *)
(* modelled.  Scores are in thousandths.                                   *)
(***************************************************************************)
EXTENDS Integers, Sequences, SequencesExt, FiniteSetsExt, Lists

CONSTANTS
  Wishes,      \* the names clients use
  Catalogs,    \* the models there may be: sequences of names, as in config.models
  Aliases,     \* MODEL_ALIASES: a function from names to names
  Families,    \* MODEL_FAMILIES: a sequence of [prefix, models]
  Tiers,       \* MODEL_TIERS: a sequence of sequences of names, "frontier" first
  FastKnown,   \* the lightweight models, for when nothing was measured
  Preferred,   \* TASK_PREFERRED: a function from tasks to sequences of names
  Keywords,    \* TASK_KEYWORDS: a function from tasks to sequences of names
  Measured,    \* benchmark results: functions from names to latencies in ms
  Sees, Uses,  \* the models that support vision, and tools
  NoName       \* no model; no measured latency

Names == Seq(STRING)

(* A model has a name, which is not empty (that is what "auto" stands for); *)
(* there is a first tier and a list of preferences for these three tasks.  *)
ASSUME NamingAssumption ==
  /\ NoName \notin Wishes /\ FastKnown \in Seq(Names) /\ Tiers \in Seq(Seq(Names)) \ {<<>>}
  /\ Families \in Seq([prefix : Names, models : Seq(Names)])
  /\ Preferred \in [DOMAIN Preferred -> Seq(Names)] /\ {"chat", "fast", "vision"} \subseteq DOMAIN Preferred
  /\ \A c \in Catalogs : c \in Seq(ToSet(c)) /\ NoName \notin ToSet(c) /\ <<>> \notin ToSet(c)
  /\ \A t \in Measured, c \in Catalogs : \A m \in ToSet(c) : t[m] \in Nat \cup {NoName}

VARIABLES
  wish,     \* the name
  offered,  \* the models there are
  times,    \* SmartDefault._benchmarks, of the runs that succeeded
  named     \* what the name stands for: [resolved, forTools, default], once known

namingVars == <<wish, offered, times, named>>

Within(ms) == Only(ms, ToSet(offered))
Having(S) == Only(offered, S)
FirstOf(ms) == IF ms = <<>> THEN NoName ELSE Head(ms)
Kin(m, n) == IsPrefix(m, n) \/ IsPrefix(n, m)
HasPart(m, n) == \E i \in 0..(Len(m) - Len(n)) : SubSeq(m, i + 1, i + Len(n)) = n
Related(m, n) == HasPart(m, n) \/ HasPart(n, m)

(* _find_by_prefix: the first model there is of the first family of the   *)
(* name, then any model of the name's beginning.                          *)
ByPrefix(n) ==
  LET families == Only(Families, {f \in ToSet(Families) : Kin(f.prefix, n)})
      members == FlattenSeq([i \in DOMAIN families |-> Within(families[i].models)])
  IN  FirstOf(members \o Having({m \in ToSet(offered) : Kin(m, n)}))

(* Mutated form of Equivalent: there must be a model of the name's tier. *)
EquivalentOnly(n) ==
  LET tiers == Only(Tiers, {t \in ToSet(Tiers) : \E m \in ToSet(t) : Related(m, n)})
  IN  FirstOf(FlattenSeq([i \in DOMAIN tiers |-> Within(tiers[i])]))

(* _find_equivalent: a model of the name's tier, then of the frontier,    *)
(* then any.                                                              *)
Equivalent(n) ==
  LET tiers == Only(Tiers, {t \in ToSet(Tiers) : \E m \in ToSet(t) : Related(m, n)})
  IN  FirstOf(FlattenSeq([i \in DOMAIN tiers |-> Within(tiers[i])])
              \o Within(Tiers[1]) \o offered)

(* resolve, up to the step that finds something *)
Step(n) ==
  IF n \in ToSet(offered) THEN "exact"
  ELSE IF n \in DOMAIN Aliases /\ Aliases[n] \in ToSet(offered) THEN "alias"
  ELSE IF ByPrefix(n) # NoName THEN "prefix"
  ELSE IF Equivalent(n) # NoName THEN "equivalent"
  ELSE "nothing"

Resolved(n) ==
  CASE Step(n) \in {"exact", "nothing"} -> n
    [] Step(n) = "alias" -> Aliases[n]
    [] Step(n) = "prefix" -> ByPrefix(n)
    [] Step(n) = "equivalent" -> Equivalent(n)

(* A request with tools for the model m that name n stands for: one that  *)
(* does not support them is replaced by the first that does               *)
(* (find_model_with_capability), or the request is refused.               *)
ForTools(n, m) ==
  IF m \notin ToSet(offered) \/ m \in Uses THEN m
  ELSE FirstOf(Having(Uses))

Latest(a, b) == IF a > b THEN a ELSE b
IndexIn(m, ms) == CHOOSE i \in DOMAIN ms : ms[i] = m

(* _pick_by_task: a name with one of the task's keywords, the place in the *)
(* task's list and a short latency count; the best score, then the order  *)
(* of the catalog decides.                                                *)
Score(m, task) ==
  (IF \E k \in ToSet(Keywords[task]) : HasPart(m, k) THEN 10000 ELSE 0)
  + (IF m \in ToSet(Preferred[task]) THEN Latest(0, 6000 - 1000 * IndexIn(m, Preferred[task])) ELSE 0)
  + (IF times[m] # NoName THEN Latest(0, 3000 - times[m]) ELSE 0)

PickByTask(task) ==
  LET scored == {m \in ToSet(offered) : Score(m, task) > 0 \/ task = "chat"}
      best == {m \in scored : \A x \in scored : Score(x, task) <= Score(m, task)}
  IN  FirstOf(Having(best) \o Within(Preferred["chat"]) \o offered)

(* _pick_fastest: of the models that are there and were measured. *)
PickFastest ==
  LET measured == {m \in ToSet(offered) : times[m] # NoName}
      fastest == {m \in measured : \A x \in measured : times[m] <= times[x]}
  IN  FirstOf(IF measured = {} THEN Within(FastKnown) ELSE Having(fastest))

(* _pick_vision: the preferred models that see, then any that does. *)
PickVision ==
  FirstOf(Only(Within(Preferred["vision"]) \o offered, Sees))

(* get_default *)
Default(task) ==
  IF task = "fast" /\ PickFastest # NoName THEN PickFastest
  ELSE IF task = "vision" /\ PickVision # NoName THEN PickVision
  ELSE PickByTask(task)

NamingInit ==
  wish \in Wishes /\ offered \in Catalogs /\ times \in Measured /\ named = NoName

(* A name that is empty or "auto" stands for the default of a chat        *)
(* (_resolve_requested_model).                                            *)
Name ==
  /\ named = NoName
  /\ LET n == IF wish = <<>> THEN Default("chat") ELSE wish
         m == IF n = NoName THEN NoName ELSE Resolved(n)
     IN  named' = [resolved |-> m, forTools |-> IF m = NoName THEN m ELSE ForTools(n, m),
                   default |-> [t \in DOMAIN Preferred |-> Default(t)]]
  /\ UNCHANGED <<wish, offered, times>>

NamingNext == Name

NamingSpec == NamingInit /\ [][NamingNext]_namingVars
-----------------------------------------------------------------------------
(***************************************************************************)
(* Properties.                                                             *)
(***************************************************************************)
Known == named # NoName

(* Every name stands for a model the gateway has, if it has any, so that   *)
(* the router knows it; it stands for itself if that is one (resolve).     *)
ResolvedIsServed ==
  Known /\ offered # <<>> =>
    /\ named.resolved \in ToSet(offered)
    /\ wish \in ToSet(offered) => named.resolved = wish

(* A request with tools goes to a model that supports them, or nowhere     *)
(* (chat_completions).                                                     *)
ToolsAreSupported ==
  Known /\ offered # <<>> => named.forTools \in (Uses \cap ToSet(offered)) \cup {NoName}

(* The default of a task is a model the gateway has, whatever was measured *)
(* of others before; the default for speed is no slower than any that was  *)
(* measured (get_default).                                                 *)
DefaultIsServed ==
  Known /\ offered # <<>> =>
    /\ \A t \in DOMAIN Preferred : named.default[t] \in ToSet(offered)
    /\ \A m \in ToSet(offered) : times[m] # NoName =>
         times[named.default["fast"]] # NoName /\ times[named.default["fast"]] <= times[m]

(* Whatever name, tools or task it comes with, a request goes to a model   *)
(* the gateway has and that can serve it (resolve, get_default).           *)
NamesAreServed == ResolvedIsServed /\ ToolsAreSupported /\ DefaultIsServed

(* The types; a request gets a model whenever there is one.                *)
NamingTypeOK ==
  /\ wish \in Wishes /\ offered \in Catalogs /\ times \in Measured
  /\ Known => named.resolved # NoName \/ offered = <<>>
=============================================================================
