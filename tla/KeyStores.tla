----------------------------- MODULE KeyStores -----------------------------
(***************************************************************************)
(* KeyHealth with the files behind the two key stores (key_manager.py,     *)
(* key_encryptor.py) and the validations the operator asks for (main.py,   *)
(* the key endpoints).  A file is rewritten in place: a crash may leave    *)
(* one that no load can read, and a load that fails, for that reason or    *)
(* because the master key has changed, leaves the store empty.  The checks *)
(* of keys, which touch no file, are in KeyHealth alone.                   *)
(***************************************************************************)
EXTENDS KeyHealth

CONSTANTS
  Validators,  \* the validations that may be under way
  Torn         \* a file cut short by a crash

VARIABLES
  valid,          \* per entry of runtime: validated
  runtimeFile,    \* keys.json: the provider's keys and whether validated
  encryptedFile,  \* encrypted_keys.json
  up,             \* is the gateway running?
  probing,        \* per validation: the keys it read, the index it tests, its last
  accepted,       \* history: the keys the provider has accepted
  mixed,          \* history: were keys removed under a validation?
  unread          \* history: the stores whose load has failed since their last save

storeFiles == <<runtimeFile, encryptedFile, unread>>
storeVars == <<valid, storeFiles, up, probing, accepted, mixed>>
allVars == <<vars, storeVars>>

Quiet == [keys |-> <<>>, from |-> 1, to |-> 0]
Busy(v) == probing[v].from <= probing[v].to
RuntimeEntries == [keys |-> runtime, valid |-> valid]

StoresInit ==
  /\ Init
  /\ valid = <<>> /\ up = TRUE
  /\ runtimeFile = RuntimeEntries /\ encryptedFile = <<>>
  /\ probing = [v \in Validators |-> Quiet]
  /\ accepted = {} /\ mixed = FALSE /\ unread = {}

(* KeyManager._save writes what the step leaves in memory. *)
SaveRuntime ==
  /\ runtimeFile' = [keys |-> runtime', valid |-> valid']
  /\ unread' = unread \ {"runtime"}

(* Disabling and enabling a key writes no file. *)
ToggleOnly == up /\ Toggle /\ UNCHANGED storeVars

(* The flag of a key that is added comes with it, that of one that is *)
(* removed goes with it.                                              *)
FlagsFollow ==
  \/ \E ok \in BOOLEAN :
       /\ Len(runtime') > Len(runtime)
       /\ valid' = Append(valid, ok)
       /\ accepted' = IF ok THEN accepted \cup {runtime'[Len(runtime')]} ELSE accepted
       /\ UNCHANGED mixed
  \/ \E i \in DOMAIN runtime :
       /\ runtime' = RemoveAt(runtime, i)
       /\ valid' = RemoveAt(valid, i)
       /\ mixed' = (mixed \/ \E v \in Validators : Busy(v))
       /\ UNCHANGED accepted

(* POST and DELETE on /api/keys and /api/encrypted-keys: the changed store *)
(* is saved.                                                               *)
EditAndSave ==
  /\ up /\ Edit
  /\ IF runtime' # runtime
       THEN FlagsFollow /\ SaveRuntime /\ UNCHANGED encryptedFile
       ELSE /\ encryptedFile' = encrypted' /\ unread' = unread \ {"encrypted"}
            /\ UNCHANGED <<valid, runtimeFile, accepted, mixed>>
  /\ UNCHANGED <<up, probing>>

(* The keys of another provider are edited: no file of this one changes. *)
SyncAll == up /\ SyncOthers /\ UNCHANGED storeVars

(* validate_key reads the key at its index, validate_provider_keys all. *)
StartValidation(v, from, to) ==
  /\ up /\ ~Busy(v)
  /\ probing' = [probing EXCEPT ![v] = [keys |-> runtime, from |-> from, to |-> to]]
  /\ UNCHANGED <<vars, valid, storeFiles, up, accepted, mixed>>

(* Mutated form of SetValidated: the flag of the last key is set. *)
SetValidatedLast(i, ok) ==
  IF runtime # <<>> THEN valid' = [valid EXCEPT ![Len(runtime)] = ok] /\ SaveRuntime
                    ELSE UNCHANGED <<valid, runtimeFile, unread>>

(* set_validated: the index is one the list may not have any more. *)
SetValidated(i, ok) ==
  IF i \in DOMAIN runtime THEN valid' = [valid EXCEPT ![i] = ok] /\ SaveRuntime
                          ELSE UNCHANGED <<valid, runtimeFile, unread>>

(* The provider's answer about the key tested, or its failure. *)
FinishValidation(v, ok) ==
  LET p == probing[v] IN
  /\ up /\ Busy(v)
  /\ UNCHANGED <<vars, encryptedFile, up, mixed>>
  /\ SetValidated(p.from, ok)
  /\ accepted' = IF ok THEN accepted \cup {p.keys[p.from]} ELSE accepted
  /\ probing' = [probing EXCEPT ![v] = IF p.from = p.to THEN Quiet ELSE [p EXCEPT !.from = @ + 1]]

(* A crash, perhaps while one of the stores is saved. What the next start *)
(* does not load is lost.                                                 *)
CrashStores ==
  /\ up /\ up' = FALSE
  /\ \/ UNCHANGED <<runtimeFile, encryptedFile>>
     \/ runtimeFile' = Torn /\ UNCHANGED encryptedFile
     \/ encryptedFile' = Torn /\ UNCHANGED runtimeFile
  /\ probing' = [v \in Validators |-> Quiet]
  /\ disabled_keys' = {}
  /\ UNCHANGED <<keyLists, health, testing, slot, histories, valid, accepted, mixed, unread>>

(* Mutated form of Loaded: a file is taken for a torn one. *)
LoadedNot(file, readable) == <<>>

(* _load: empty when the file cannot be read or not be decrypted. *)
Loaded(file, readable) == IF readable /\ file # Torn THEN file ELSE <<>>

FailedLoads(readable) ==
  {s \in {"runtime", "encrypted"} :
     ~readable \/ (IF s = "runtime" THEN runtimeFile ELSE encryptedFile) = Torn}

(* The start: both stores are loaded, and the runtime store's keys are     *)
(* given to the provider.  readable: the master key is the one of before.  *)
RestartStores(readable) ==
  LET entries == Loaded(runtimeFile, readable) IN
  /\ ~up /\ up' = TRUE
  /\ runtime' = IF entries = <<>> THEN <<>> ELSE entries.keys
  /\ valid' = IF entries = <<>> THEN <<>> ELSE entries.valid
  /\ encrypted' = Loaded(encryptedFile, readable)
  /\ unread' = FailedLoads(readable)
  /\ api_keys' = IF runtime' # <<>> THEN runtime' ELSE EnvKeys
  /\ UNCHANGED <<disabled_keys, health, testing, slot, histories>>
  /\ UNCHANGED <<runtimeFile, encryptedFile, probing, accepted, mixed>>

StoresNext ==
  \/ ToggleOnly
  \/ EditAndSave
  \/ SyncAll
  \/ \E v \in Validators :
       \/ \E i \in DOMAIN runtime : StartValidation(v, i, i)
       \/ runtime # <<>> /\ StartValidation(v, 1, Len(runtime))
       \/ \E ok \in BOOLEAN : FinishValidation(v, ok)
  \/ CrashStores
  \/ \E readable \in BOOLEAN : RestartStores(readable)

StoresSpec == StoresInit /\ [][StoresNext]_allVars
-----------------------------------------------------------------------------
(***************************************************************************)
(* Properties.                                                             *)
(***************************************************************************)

(* The variables have the types the code gives them, and a flag belongs to *)
(* each entry, in memory and in the file.                                  *)
StoresTypeOK ==
  /\ TypeOK
  /\ valid \in [DOMAIN runtime -> BOOLEAN]
  /\ runtimeFile # Torn =>
       runtimeFile.keys \in Seq(Keys) /\ runtimeFile.valid \in [DOMAIN runtimeFile.keys -> BOOLEAN]
  /\ encryptedFile \in Seq(Keys) \cup {Torn}
  /\ up \in BOOLEAN /\ mixed \in BOOLEAN /\ accepted \subseteq Keys
  /\ unread \subseteq {"runtime", "encrypted"}
  /\ \A v \in Validators : Busy(v) =>
       {probing[v].from, probing[v].to} \subseteq DOMAIN probing[v].keys

(* A key is marked valid only after the provider has accepted it, unless a *)
(* key was removed while a validation was waiting (validate_key).          *)
MarkedIsAccepted ==
  ~mixed => \A i \in DOMAIN valid : valid[i] => runtime[i] \in accepted

(* A restart loses no key of a store that could be read, and the provider  *)
(* is never without a key that the environment or the runtime store has    *)
(* (lifespan, _sync_keys_to_config).                                       *)
RestartKeepsStores ==
  [][~up /\ up' =>
       /\ "runtime" \notin unread \cup unread' => <<runtime, valid>>' = <<runtime, valid>>
       /\ "encrypted" \notin unread \cup unread' => encrypted' = encrypted
       /\ EnvKeys # <<>> => api_keys' # <<>>]_allVars
=============================================================================
