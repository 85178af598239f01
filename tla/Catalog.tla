------------------------------- MODULE Catalog -------------------------------
(***************************************************************************)
(* The models a running gateway knows: loaded from models.yaml (config.py),*)
(* discovered at the providers (discover_models), made by the user         *)
(* (custom_combos.py) and changed by the dashboard's calls (main.py).      *)
(*                                                                         *)
(* The router keeps the configuration it was made with; main.py works on   *)
(* the one of the last load, which is another object once the providers    *)
(* have been synced.  A discovery awaits the providers between reading the *)
(* models' names and adding to them.  A model is the sequence of its       *)
(* fallbacks' providers; whether a fallback is enabled is in Router.       *)
(***************************************************************************)
EXTENDS Naturals, Sequences, SequencesExt, Lists

CONSTANTS
  Names,          \* the names of models
  Vendors,        \* the providers, as a sequence: the order of PROVIDER_DEFS
  FileContents,   \* what models.yaml may hold: functions from names
  Listings,       \* what the providers may list: functions to sets of names
  Free,           \* the pairs of a provider and a name that _is_free_model lets through
  ComboEntries,   \* the entries a user may give a combo
  Orders,         \* the fallbacks the dashboard may set
  Discoveries,    \* the discoveries that may be under way
  Heaviest,       \* bound: the largest weight of an entry
  NoModel,        \* there is no model, or no combo, of the name
  TornFile        \* combos.json, cut short

Model == Seq(ToSet(Vendors))
Entries == Seq([provider : ToSet(Vendors), weight : 1..Heaviest])
Catalogued == [Names -> Model \cup {NoModel}]
Combos == [Names -> Entries \cup {NoModel}]

ASSUME CatalogAssumption ==
  /\ Heaviest \in Nat /\ Vendors \in Model /\ Orders \subseteq Model
  /\ FileContents \subseteq Catalogued
  /\ Listings \subseteq [ToSet(Vendors) -> SUBSET Names]
  /\ ComboEntries \subseteq Entries /\ NoModel \notin ComboEntries

VARIABLES
  served,      \* the models of the router's configuration
  current,     \* the models of main.py's configuration
  split,       \* are the two different objects?
  combos,      \* ComboManager._combos
  combosFile,  \* combos.json
  alive,       \* is the gateway running?
  disc         \* per discovery: whether busy, the names it has read, whose models it adds to

models == <<served, current, split>>
catalogVars == <<models, combos, combosFile, alive, disc>>

None == [n \in Names |-> NoModel]
Resting == [busy |-> FALSE, names |-> {}, target |-> "none"]
NamesOf(ms) == {n \in Names : ms[n] # NoModel}

CatalogInit ==
  /\ served = None /\ current = None /\ split = FALSE
  /\ combos = None /\ combosFile = None
  /\ alive = FALSE
  /\ disc = [d \in Discoveries |-> Resting]

OfWeight(entries, w) == Only(entries, {e \in ToSet(entries) : e.weight = w})

(* Mutated form of ToModel: the lightest entry first. *)
ToModelRising(entries) == FlattenSeq([w \in 1..Heaviest |-> OfWeight(entries, w)])

(* to_model_config: the heavier entries first, equal ones as given. *)
ToModel(entries) ==
  FlattenSeq([i \in 1..Heaviest |-> OfWeight(entries, Heaviest + 1 - i)])
Fallbacks(entries) == [i \in DOMAIN ToModel(entries) |-> ToModel(entries)[i].provider]

ListedBy(n, listing) ==
  Only(Vendors, {p \in ToSet(Vendors) : n \in listing[p] /\ <<p, n>> \in Free})

(* Mutated form of Discovered: the names are not read again when it ends. *)
DiscoveredBlindly(ms, names, listing) ==
  [n \in Names |-> IF n \notin names /\ ListedBy(n, listing) # <<>>
                     THEN <<ListedBy(n, listing)[1]>> ELSE ms[n]]

(* discover_models, after its awaits: names is what it read before them. *)
Discovered(ms, names, listing) ==
  [n \in Names |-> IF n \notin names /\ ms[n] = NoModel /\ ListedBy(n, listing) # <<>>
                     THEN <<ListedBy(n, listing)[1]>> ELSE ms[n]]

(* merge_into_config *)
Merged(ms, cs) ==
  [n \in Names |-> IF cs[n] # NoModel THEN Fallbacks(cs[n]) ELSE ms[n]]

(* The lifespan: the file is loaded, then models are discovered, then the *)
(* combos of the file are merged; requests are served after that.         *)
Start(file, listing) ==
  /\ ~alive /\ alive' = TRUE
  /\ combos' = IF combosFile = TornFile THEN None ELSE combosFile
  /\ current' = Merged(Discovered(file, NamesOf(file), listing), combos')
  /\ served' = current' /\ split' = FALSE
  /\ UNCHANGED <<combosFile, disc>>

(* The end of the process; the last write of combos.json was cut short     *)
(* perhaps, by it or by an error before it.                                *)
End ==
  /\ alive /\ alive' = FALSE
  /\ served' = None /\ current' = None /\ split' = FALSE /\ combos' = None
  /\ combosFile' \in {combosFile, TornFile}
  /\ disc' = [d \in Discoveries |-> Resting]

(* config.models[n] = m, in main.py. *)
SetCurrent(n, m) ==
  /\ current' = [current EXCEPT ![n] = m]
  /\ served' = IF split THEN served ELSE current'
  /\ UNCHANGED split

(* POST /api/discover and GET /api/auto-update. *)
BeginDiscovery(d) ==
  /\ alive /\ ~disc[d].busy
  /\ disc' = [disc EXCEPT ![d] =
       [busy |-> TRUE, names |-> NamesOf(current), target |-> IF split THEN "main" ELSE "router"]]
  /\ UNCHANGED <<models, combos, combosFile, alive>>

EndDiscovery(d, listing) ==
  /\ disc[d].busy
  /\ disc' = [disc EXCEPT ![d] = Resting]
  /\ served' = IF disc[d].target = "router"
                 THEN Discovered(served, disc[d].names, listing) ELSE served
  /\ current' = IF ~split THEN served'
                ELSE IF disc[d].target = "main"
                       THEN Discovered(current, disc[d].names, listing) ELSE current
  /\ UNCHANGED <<split, combos, combosFile, alive>>

(* POST /api/sync-providers: main.py gets a new configuration, without the *)
(* combos and what was discovered; the router keeps the old one.           *)
Reload(file) ==
  /\ alive
  /\ current' = file /\ split' = TRUE
  /\ disc' = [d \in Discoveries |->
       IF disc[d].target = "main" THEN [disc[d] EXCEPT !.target = "none"] ELSE disc[d]]
  /\ UNCHANGED <<served, combos, combosFile, alive>>

(* _save: an error of the disk is logged and the file stays as it was.  An *)
(* error in the middle of the write leaves it cut short; who reads it only *)
(* finds that at the next start, so it is among what End leaves.           *)
SaveCombos == combosFile' \in {combos', combosFile}

(* POST /api/combos, with some entries. *)
CreateCombo(n, entries) ==
  /\ alive /\ entries # <<>>
  /\ combos' = [combos EXCEPT ![n] = entries] /\ SaveCombos
  /\ SetCurrent(n, Fallbacks(entries))
  /\ UNCHANGED <<alive, disc>>

(* PUT /api/combos, which may take all entries away. *)
UpdateCombo(n, entries) ==
  /\ alive /\ combos[n] # NoModel
  /\ combos' = [combos EXCEPT ![n] = entries] /\ SaveCombos
  /\ SetCurrent(n, Fallbacks(entries))
  /\ UNCHANGED <<alive, disc>>

(* DELETE /api/combos: the model goes, and is not what the file says of it. *)
DeleteCombo(n) ==
  /\ alive /\ combos[n] # NoModel
  /\ combos' = [combos EXCEPT ![n] = NoModel] /\ SaveCombos
  /\ SetCurrent(n, NoModel)
  /\ UNCHANGED <<alive, disc>>

(* PUT /api/fallbacks: the list given, of old entries and new ones. *)
UpdateFallbacks(n, order) ==
  /\ alive /\ current[n] # NoModel
  /\ SetCurrent(n, order)
  /\ UNCHANGED <<combos, combosFile, alive, disc>>

(* POST /api/fallbacks/{model}/sort: by ascending key, equal ones as they  *)
(* are; the preset "priority" changes nothing.                             *)
SortFallbacks(n, lighter) ==
  /\ alive /\ current[n] # NoModel
  /\ SetCurrent(n, Only(current[n], lighter) \o Only(current[n], ToSet(Vendors) \ lighter))
  /\ UNCHANGED <<combos, combosFile, alive, disc>>

CatalogNext ==
  \/ \E f \in FileContents : Reload(f) \/ (\E l \in Listings : Start(f, l))
  \/ End
  \/ \E d \in Discoveries : BeginDiscovery(d) \/ (\E l \in Listings : EndDiscovery(d, l))
  \/ \E n \in Names :
       \/ \E es \in ComboEntries : CreateCombo(n, es) \/ UpdateCombo(n, es)
       \/ DeleteCombo(n)
       \/ \E o \in Orders : UpdateFallbacks(n, o)
       \/ \E lighter \in SUBSET ToSet(Vendors) : SortFallbacks(n, lighter)

CatalogSpec == CatalogInit /\ [][CatalogNext]_catalogVars
-----------------------------------------------------------------------------
(***************************************************************************)
(* Properties.                                                             *)
(***************************************************************************)

(* The models are sequences of providers, and until the first reload the   *)
(* router and main.py have the same.                                       *)
CatalogTypeOK ==
  /\ served \in Catalogued /\ current \in Catalogued
  /\ ~split => served = current
  /\ combos \in Combos /\ (combosFile = TornFile \/ combosFile \in Combos)
  /\ split \in BOOLEAN /\ alive \in BOOLEAN
  /\ disc \in [Discoveries -> [busy : BOOLEAN, names : SUBSET Names,
                               target : {"none", "main", "router"}]]

(* Where a model changes, it is a new one of a provider that has it free,  *)
(* and names has none of its name.                                         *)
AddsFree(ms, after, names) ==
  \A n \in Names : after[n] # ms[n] =>
    /\ ms[n] = NoModel /\ n \notin names
    /\ \E p \in ToSet(Vendors) : <<p, n>> \in Free /\ after[n] = <<p>>

(* A discovery adds free models only, changes none that is there when it   *)
(* ends, and brings none back that was there when it began ("manual        *)
(* definitions always win").                                               *)
DiscoveryOnlyAdds ==
  [][\A d \in Discoveries : disc[d].busy /\ ~disc'[d].busy /\ alive' =>
       /\ AddsFree(served, served', disc[d].names)
       /\ AddsFree(current, current', disc[d].names)]_catalogVars

(* The gateway starts. *)
Starts == ~alive /\ alive'

(* The models follow the combos (merge_into_config, api_delete_combo).     *)
(*  - A combo wins over a model of its name at every start, with its       *)
(*    heaviest entry first.                                                *)
(*  - A combo that is deleted leaves no model behind in main.py, nor in the*)
(*    router until the first reload.                                       *)
ModelsFollowCombos ==
  [][\A n \in Names :
       /\ Starts /\ combos'[n] \notin {NoModel, <<>>} =>
            \E i \in DOMAIN combos'[n] :
              /\ served'[n][1] = combos'[n][i].provider
              /\ \A e \in ToSet(combos'[n]) : e.weight <= combos'[n][i].weight
       /\ alive /\ alive' /\ combos[n] # NoModel /\ combos'[n] = NoModel =>
            current'[n] = NoModel /\ (~split => served'[n] = NoModel)]_catalogVars

(* New models appear by themselves: what main.py lists the router serves.  *)
ListedIsServed == alive => NamesOf(current) \subseteq NamesOf(served)
=============================================================================
