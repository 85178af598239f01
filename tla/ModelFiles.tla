----------------------------- MODULE ModelFiles -----------------------------
(***************************************************************************)
(* models.yaml and the scripts that add models to it: sync_providers.py    *)
(* from an upstream list, auto_update.py from what the providers offer.    *)
(* Each reads the whole file when it starts and writes the whole file when *)
(* it ends; they run as processes of their own, by hand, by the scheduler  *)
(* and by POST /api/sync-providers, which kills its run after a minute.    *)
(*                                                                         *)
(* A model is the sequence of the providers of its fallbacks, empty when   *)
(* the file does not have it.  update_state.json holds, for each provider, *)
(* the models auto_update.py has seen; of sync_state.json, a log, matters  *)
(* only whether it can be read.                                            *)
(***************************************************************************)
EXTENDS Naturals, FiniteSets, Sequences, SequencesExt, Lists

CONSTANTS
  ModelIds,       \* the ids of models
  ProviderOrder,  \* the providers, in the order the scripts go through them
  FirstYaml,      \* models.yaml as it is shipped
  Offers,         \* what the providers may offer: functions to sets of ids
  SyncRuns, AutoRuns,  \* the processes of the two scripts
  Unreadable      \* a file of which a part was written that is none

Offering == ToSet(ProviderOrder)
Runs == SyncRuns \cup AutoRuns

ASSUME ModelFilesAssumption ==
  /\ ProviderOrder \in Seq(Offering) /\ IsInjective(ProviderOrder)
  /\ FirstYaml \in [ModelIds -> Seq(Offering)]
  /\ Offers \subseteq [Offering -> SUBSET ModelIds]
  /\ \A n \in ModelIds : IsInjective(FirstYaml[n])
  /\ SyncRuns \cap AutoRuns = {}
  /\ Unreadable \notin [ModelIds -> Seq(Offering)]

VARIABLES
  yaml,     \* models.yaml
  known,    \* known_models of update_state.json
  legible,  \* can sync_state.json be read?
  stage,    \* per run: "idle", "read" or, when it has written models.yaml, "written"
  copy,     \* per run: the models.yaml it read, until it writes it
  noted,    \* per run of auto_update.py: the state it read, then the one to write
  had       \* history: the models models.yaml has ever had

fileVars == <<yaml, known, legible>>
runVars == <<stage, copy, noted>>
modelFileVars == <<fileVars, runVars, had>>

NoneKnown == [p \in Offering |-> {}]
NoModels == [n \in ModelIds |-> <<>>]

Defined(file) == IF file = Unreadable THEN {} ELSE {n \in ModelIds : file[n] # <<>>}
Remember == had' = had \cup Defined(yaml')

FilesInit ==
  /\ yaml = FirstYaml /\ known = NoneKnown /\ legible = TRUE
  /\ stage = [r \in Runs |-> "idle"]
  /\ copy = [r \in Runs |-> NoModels]
  /\ noted = [r \in AutoRuns |-> NoneKnown]
  /\ had = Defined(FirstYaml)

Idle(r) ==
  /\ stage' = [stage EXCEPT ![r] = "idle"]
  /\ copy' = [copy EXCEPT ![r] = NoModels]
  /\ noted' = [a \in AutoRuns |-> IF a = r THEN NoneKnown ELSE noted[a]]

(* load_yaml and load_state raise on what is unreadable; auto_update.py    *)
(* cannot do with an empty models.yaml either.                            *)
Begin(r) ==
  /\ stage[r] = "idle" /\ yaml # Unreadable
  /\ IF r \in AutoRuns THEN yaml # NoModels /\ known # Unreadable ELSE legible
  /\ stage' = [stage EXCEPT ![r] = "read"]
  /\ copy' = [copy EXCEPT ![r] = yaml]
  /\ noted' = [a \in AutoRuns |-> IF a = r THEN known ELSE noted[a]]
  /\ UNCHANGED <<fileVars, had>>

(* The upstream list could not be fetched, or there are no keys to ask the *)
(* providers with.                                                         *)
GiveUp(r) ==
  /\ stage[r] = "read"
  /\ Idle(r)
  /\ UNCHANGED <<fileVars, had>>

(* Mutated form of SyncedWith: an existing model gets its fallbacks anew. *)
SyncedAnew(fallbacks, offering) ==
  IF offering # {} THEN Only(ProviderOrder, offering) ELSE fallbacks

(* sync_providers.py appends the providers a model does not have yet, and *)
(* adds a model nobody had.                                               *)
SyncedWith(fallbacks, offering) ==
  fallbacks \o Only(ProviderOrder, offering \ ToSet(fallbacks))

(* auto_update.py adds the models it has not seen, with the first provider *)
(* that offers them, unless the file has them.                             *)
UpdatedWith(fallbacks, offering) ==
  IF fallbacks = <<>> /\ offering # {}
    THEN <<Head(Only(ProviderOrder, offering))>>
    ELSE fallbacks

OfferingOf(n, offer) == {p \in Offering : n \in offer[p]}

(* The models a run of auto_update.py has not seen, of the providers it    *)
(* has a key for.                                                          *)
NewIn(r, keyed, offer) == [p \in Offering |-> IF p \in keyed THEN offer[p] \ noted[r][p] ELSE {}]

Written(r, keyed, offer) ==
  [n \in ModelIds |-> IF r \in SyncRuns
     THEN SyncedWith(copy[r][n], OfferingOf(n, offer))
     ELSE UpdatedWith(copy[r][n], OfferingOf(n, NewIn(r, keyed, offer)))]

(* Does the run write models.yaml?  auto_update.py does when there is news. *)
Writes(r, keyed, offer) == r \in AutoRuns => \E p \in Offering : NewIn(r, keyed, offer)[p] # {}

(* save_yaml.  A provider whose list could not be fetched offers nothing,  *)
(* and one without a key keeps the models it was known for.                *)
SaveYaml(r, keyed, offer) ==
  /\ stage[r] = "read" /\ keyed # {}
  /\ stage' = [stage EXCEPT ![r] = "written"]
  /\ yaml' = IF Writes(r, keyed, offer) THEN Written(r, keyed, offer) ELSE yaml
  /\ noted' = [a \in AutoRuns |-> IF a = r
       THEN [p \in Offering |-> IF p \in keyed THEN offer[p] ELSE noted[r][p]]
       ELSE noted[a]]
  /\ copy' = [copy EXCEPT ![r] = NoModels]
  /\ Remember
  /\ UNCHANGED <<known, legible>>

(* Mutated form of SaveState: it does not wait for models.yaml. *)
SaveStateAtOnce(r) ==
  /\ stage[r] \in {"read", "written"}
  /\ known' = IF r \in AutoRuns THEN CHOOSE offer \in Offers : \A p \in Offering : offer[p] # {}
              ELSE known
  /\ IF stage[r] = "written" THEN Idle(r) ELSE UNCHANGED runVars
  /\ UNCHANGED <<yaml, legible, had>>

(* save_state. *)
SaveState(r) ==
  /\ stage[r] = "written"
  /\ IF r \in AutoRuns THEN known' = noted[r] /\ legible' = legible
                       ELSE legible' = TRUE /\ known' = known
  /\ Idle(r)
  /\ UNCHANGED <<yaml, had>>

(* A file of which the end was not written: it cannot be read, or is read  *)
(* as a smaller one.                                                       *)
CutShort(whole) ==
  {Unreadable} \cup
  {[n \in ModelIds |-> IF n \in S THEN whole[n] ELSE <<>>] : S \in SUBSET ModelIds}

(* The run is killed, while it writes a file perhaps. *)
Kill(r) ==
  /\ stage[r] # "idle"
  /\ Idle(r)
  /\ \/ UNCHANGED <<yaml, known, legible>>
     \/ /\ stage[r] = "read"
        /\ \E keyed \in SUBSET Offering, offer \in Offers :
             Writes(r, keyed, offer) /\ yaml' \in CutShort(Written(r, keyed, offer))
        /\ UNCHANGED <<known, legible>>
     \/ /\ stage[r] = "written"
        /\ IF r \in AutoRuns THEN known' = Unreadable /\ legible' = legible
                             ELSE legible' = FALSE /\ known' = known
        /\ UNCHANGED yaml
  /\ Remember

(* The operator edits models.yaml by hand: here, sets the fallbacks of a   *)
(* model, or removes it.                                                   *)
EditYaml(n, fallbacks) ==
  /\ yaml # Unreadable
  /\ yaml' = [yaml EXCEPT ![n] = fallbacks]
  /\ Remember
  /\ UNCHANGED <<known, legible, runVars>>

(* The operator puts another file in the place of one no run can read. *)
Repair ==
  /\ \/ yaml = Unreadable /\ yaml' = FirstYaml /\ UNCHANGED <<known, legible>>
     \/ known = Unreadable /\ known' = NoneKnown /\ UNCHANGED <<yaml, legible>>
     \/ ~legible /\ legible' = TRUE /\ UNCHANGED <<yaml, known>>
  /\ Remember
  /\ UNCHANGED runVars

FilesNext ==
  \/ \E r \in Runs :
       \/ Begin(r) \/ GiveUp(r)
       \/ \E keyed \in SUBSET Offering, offer \in Offers : SaveYaml(r, keyed, offer)
       \/ SaveState(r) \/ Kill(r)
  \/ \E n \in ModelIds, fallbacks \in {<<p>> : p \in Offering} \cup {<<>>} : EditYaml(n, fallbacks)
  \/ Repair

FilesSpec == FilesInit /\ [][FilesNext]_modelFileVars
-----------------------------------------------------------------------------
(***************************************************************************)
(* Properties.                                                             *)
(***************************************************************************)

(* The files and the copies of them have the shape the scripts give them,  *)
(* and no model has a provider twice.                                      *)
FilesTypeOK ==
  /\ \A f \in ({yaml} \ {Unreadable}) \cup {copy[r] : r \in Runs} :
       DOMAIN f = ModelIds /\ \A n \in ModelIds : IsInjective(f[n]) /\ ToSet(f[n]) \subseteq Offering
  /\ known = Unreadable \/ known \in [Offering -> SUBSET ModelIds]
  /\ legible \in BOOLEAN
  /\ stage \in [Runs -> {"idle", "read", "written"}]
  /\ noted \in [AutoRuns -> [Offering -> SUBSET ModelIds]]
  /\ had \subseteq ModelIds

(* A model auto_update.py takes for seen, and will not add again, has been *)
(* in models.yaml, however its runs and others overlap, are killed or meet *)
(* edits by hand (save_yaml, then save_state).  It may have left the file  *)
(* since: by hand, by a run that wrote what it had read before, or by a    *)
(* kill in the middle of a write.                                          *)
KnownWasDefined ==
  known # Unreadable => \A p \in Offering : known[p] \subseteq had

(* A script writes all the models it read, each with all its fallbacks in  *)
(* their order and before new ones (main of both scripts).                 *)
ScriptsOnlyAdd ==
  [][\A r \in Runs : stage[r] = "read" /\ stage'[r] = "written" =>
       yaml' = yaml \/ \A n \in ModelIds : IsPrefix(copy[r][n], yaml'[n])]_modelFileVars
=============================================================================
