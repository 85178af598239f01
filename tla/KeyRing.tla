------------------------------ MODULE KeyRing ------------------------------
(***************************************************************************)
(* The keys of one provider and the index of the active one, as            *)
(* ProviderConfig (config.py) keeps them.  keys is api_keys, off the set   *)
(* disabled_keys, and i the index _key_index, which counts from 0.         *)
(***************************************************************************)
EXTENDS Naturals, Sequences

KeyAt(keys, i) == keys[(i % Len(keys)) + 1]

(* How far ahead of i the enabled keys are. *)
EnabledAhead(keys, off, i) ==
  {d \in 0..(Len(keys) - 1) : KeyAt(keys, i + d) \notin off}

(* Mutated form of Settled: the index is not moved past disabled keys. *)
SettledAnywhere(keys, off, i) == i

(* Where reading api_key leaves the index: at the first key from i on that *)
(* is not disabled, or at i when all are.                                  *)
Settled(keys, off, i) ==
  LET ahead == EnabledAhead(keys, off, i)
  IN  IF ahead = {} THEN i
      ELSE (i + CHOOSE d \in ahead : \A e \in ahead : d <= e) % Len(keys)

(* The key that api_key returns. *)
ActiveKey(keys, off, i) == KeyAt(keys, Settled(keys, off, i))

(* Mutated form of Rotated: the search starts at the key in use. *)
RotatedNot(keys, off, i) == Settled(keys, off, i)

(* Where rotate_key leaves the index: the search starts one key further. *)
Rotated(keys, off, i) == Settled(keys, off, (i + 1) % Len(keys))
=============================================================================
