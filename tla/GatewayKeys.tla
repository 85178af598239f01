----------------------------- MODULE GatewayKeys -----------------------------
(***************************************************************************)
(* The keys clients authenticate with (gateway_auth.py) and the check of   *)
(* every request (verify_master_key in main.py).  A key is the number of   *)
(* its hash; several keys may have one name.  The file is overwritten in   *)
(* place at every change, each use included; where that raises, the call   *)
(* fails after the change in memory.                                       *)
(***************************************************************************)
EXTENDS Naturals, Sequences, SequencesExt

CONSTANTS
  KeyNames,    \* the names of keys
  MasterKey,   \* is a master key set?  Without one there are no gateway keys
  MaxIssued,     \* bound: the keys that are created
  MaxUses,     \* bound: the requests of a key that are counted
  TornKeys     \* a file that cannot be decrypted or parsed

ASSUME GatewayKeysAssumption ==
  /\ MasterKey \in BOOLEAN /\ {MaxIssued, MaxUses} \subseteq Nat
  /\ TornKeys \notin Seq([id : Nat, name : KeyNames, enabled : BOOLEAN, uses : Nat])

VARIABLES
  keyring,   \* _keys, in the order they were created in
  keyFile,   \* gateway_keys.json
  issued,    \* how many keys have been created
  barred,    \* history: the keys that were revoked or disabled, and not enabled since
  unsaved    \* history: has a save failed, or been torn?

gatewayKeyVars == <<keyring, keyFile, issued, barred, unsaved>>

GatewayKeysInit ==
  keyring = <<>> /\ keyFile = <<>> /\ issued = 0 /\ barred = {} /\ unsaved = FALSE

(* _save *)
SaveKeys ==
  \/ keyFile' = keyring' /\ unsaved' = unsaved
  \/ keyFile' = keyFile /\ unsaved' = TRUE

Named(n) == {i \in DOMAIN keyring : keyring[i].name = n}
First(n) == {i \in Named(n) : \A j \in Named(n) : i <= j}

(* create_key *)
CreateKey(n) ==
  /\ MasterKey /\ issued < MaxIssued
  /\ issued' = issued + 1
  /\ keyring' = Append(keyring, [id |-> issued', name |-> n, enabled |-> TRUE, uses |-> 0])
  /\ SaveKeys /\ UNCHANGED barred

(* validate_key *)
Valid(k) == {i \in DOMAIN keyring : keyring[i].id = k /\ keyring[i].enabled}

(* verify_master_key lets the request of key k pass and counts it. *)
Admit(k) ==
  /\ \E i \in Valid(k) :
       /\ keyring[i].uses < MaxUses
       /\ keyring' = [keyring EXCEPT ![i].uses = @ + 1]
  /\ SaveKeys /\ UNCHANGED <<issued, barred>>

(* revoke_key: the first of the name. *)
RevokeKey(n) ==
  /\ \E i \in First(n) :
       keyring' = RemoveAt(keyring, i) /\ barred' = barred \cup {keyring[i].id}
  /\ SaveKeys /\ UNCHANGED issued

(* toggle_key: the first of the name. *)
ToggleKey(n, enabled) ==
  /\ \E i \in First(n) :
       /\ keyring' = [keyring EXCEPT ![i].enabled = enabled]
       /\ barred' = IF enabled THEN barred \ {keyring[i].id} ELSE barred \cup {keyring[i].id}
  /\ SaveKeys /\ UNCHANGED issued

(* Mutated form of LoadedKeys: every key is loaded enabled. *)
LoadedKeysEnabled(f) ==
  IF f = TornKeys THEN <<>> ELSE [i \in DOMAIN f |-> [f[i] EXCEPT !.enabled = TRUE]]

(* _load: nothing can be had of a torn file. *)
LoadedKeys(f) == IF f = TornKeys THEN <<>> ELSE f

(* A restart, in the middle of a write perhaps. *)
RestartKeys ==
  /\ \/ keyFile' = keyFile /\ unsaved' = unsaved
     \/ keyFile' = TornKeys /\ unsaved' = TRUE
  /\ keyring' = LoadedKeys(keyFile')
  /\ UNCHANGED <<issued, barred>>

GatewayKeysNext ==
  \/ \E n \in KeyNames :
       CreateKey(n) \/ RevokeKey(n) \/ (\E enabled \in BOOLEAN : ToggleKey(n, enabled))
  \/ \E k \in 1..issued : Admit(k)
  \/ RestartKeys

GatewayKeysSpec == GatewayKeysInit /\ [][GatewayKeysNext]_gatewayKeyVars
-----------------------------------------------------------------------------
(***************************************************************************)
(* Properties.                                                             *)
(***************************************************************************)

(* The types; keys are in the order of their creation, each once, and      *)
(* until a save fails the file has what the manager has (_save after every *)
(* change).                                                                *)
GatewayKeysTypeOK ==
  LET Ring == Seq([id : 1..issued, name : KeyNames, enabled : BOOLEAN, uses : 0..MaxUses])
  IN  /\ issued \in 0..MaxIssued /\ keyring \in Ring
      /\ keyFile = TornKeys \/ keyFile \in Ring
      /\ \A i, j \in DOMAIN keyring : i < j => keyring[i].id < keyring[j].id
      /\ ~unsaved => keyFile = keyring

(* A key that was revoked, or disabled and not enabled since, admits no    *)
(* request, after any restart, unless a save failed (revoke_key,           *)
(* toggle_key, _load).                                                     *)
BarredStaysBarred == ~unsaved => \A k \in barred : Valid(k) = {}
=============================================================================
