--------------------------- MODULE MCRequestQueue ---------------------------
(***************************************************************************)
(* Instances of RequestQueue for TLC.  In the code BACKOFF_DELAYS is       *)
(* [5, 15, 30, 60] and MAX_WAIT_TIME 120 seconds.  The first delay is      *)
(* never waited, so it differs from the others here, too.                  *)
(***************************************************************************)
EXTENDS RequestQueue, TLC

MiddleBackoff == <<0, 1, 1>>
ShortBackoff == <<1, 1>>

Symmetry == Permutations(Requests) \cup Permutations(Workers)
=============================================================================
