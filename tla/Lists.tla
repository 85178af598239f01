-------------------------------- MODULE Lists --------------------------------
(***************************************************************************)
(* Two things the code does with a list over and over: a comprehension     *)
(* that keeps some of its elements, and a sum over them.  The conditions   *)
(* and the summands are given as sets and functions, not as operators, so  *)
(* that they are values the lemmas about lists can speak of.               *)
(***************************************************************************)
EXTENDS Naturals, Sequences

(* The elements of s that are in S, in their order. *)
Only(s, S) ==
  LET kept[i \in 0..Len(s)] ==
        IF i = 0 THEN <<>>
        ELSE IF s[i] \in S THEN Append(kept[i - 1], s[i]) ELSE kept[i - 1]
  IN  kept[Len(s)]

(* The sum of f[e] over the elements e of s. *)
SumOver(s, f) ==
  LET sum[i \in 0..Len(s)] == IF i = 0 THEN 0 ELSE sum[i - 1] + f[s[i]]
  IN  sum[Len(s)]
=============================================================================
