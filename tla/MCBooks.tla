------------------------------- MODULE MCBooks -------------------------------
(***************************************************************************)
(* Instances of RateWindows and UsageBooks for TLC.  The two share no      *)
(* state, so that part chooses the one whose behaviours are explored while *)
(* the other one stays as it starts.                                       *)
(***************************************************************************)
EXTENDS RateWindows, UsageBooks, TLC

VARIABLE part

BothInit == part \in {"rates", "books"} /\ RateInit /\ BookInit
BothNext ==
  /\ part' = part
  /\ \/ part = "rates" /\ RateNext /\ UNCHANGED bookVars
     \/ part = "books" /\ BookNext /\ UNCHANGED rateVars
Both == BothInit /\ [][BothNext]_<<part, rateVars, bookVars>>

(* Model a limits the requests of a minute and a day, b its tokens: one    *)
(* response fits into a minute of b, two do not.                           *)
TheEntryLimits ==
  "a" :> [rpm |-> 1, rpd |-> 2, tpm |-> 0, tpd |-> 0] @@
  "b" :> [rpm |-> 0, rpd |-> 0, tpm |-> 3, tpd |-> 0]
TheSetLimits == {[rpm |-> 3, rpd |-> 0, tpm |-> 0, tpd |-> 3]}

TheWindowLength == "minute" :> 1 @@ "day" :> 2 @@ "month" :> 3
TheKnownLimits == [rpm |-> 1, rpd |-> 2, daily |-> 2, monthly |-> 3]
TheNewLimits == {[rpm |-> 2, rpd |-> 1, daily |-> 0]}

Symmetry == Permutations(Callers)

(* The variables of both have the types the code gives them. *)
BooksTypeOK == RateTypeOK /\ BookTypeOK
=============================================================================
