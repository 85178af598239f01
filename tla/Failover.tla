------------------------------ MODULE Failover ------------------------------
(***************************************************************************)
(* What routing promises the caller of a model: its candidates are tried   *)
(* one after the other, those of last resort only when no other is left,   *)
(* and the request fails only when every candidate has.  A request that    *)
(* breaks is the exception: it ends with candidates untried.               *)
(***************************************************************************)
EXTENDS Naturals

CONSTANTS Callers, Numbers   \* candidates are numbered

VARIABLES
  todo,    \* per caller: the candidates that have not failed
  last,    \* per caller: its candidates of last resort
  stage    \* per caller: "idle", "trying", or how its last request ended

fvars == <<todo, last, stage>>

Init ==
  /\ todo = [c \in Callers |-> {}]
  /\ last = [c \in Callers |-> {}]
  /\ stage = [c \in Callers |-> "idle"]

Close(c, how) ==
  /\ stage' = [stage EXCEPT ![c] = how]
  /\ todo' = [todo EXCEPT ![c] = {}]
  /\ last' = [last EXCEPT ![c] = {}]

Refuse(c) ==
  /\ stage[c] # "trying"
  /\ Close(c, "refused")

Begin(c) ==
  /\ stage[c] # "trying"
  /\ stage' = [stage EXCEPT ![c] = "trying"]
  /\ \E S \in (SUBSET Numbers) \ {{}}, L \in SUBSET Numbers :
       /\ L \subseteq S
       /\ todo' = [todo EXCEPT ![c] = S]
       /\ last' = [last EXCEPT ![c] = L]

(* The candidate that may be tried now. *)
MayTry(c, i) == i \in todo[c] /\ (i \in last[c] => todo[c] \subseteq last[c])

Fail(c) ==
  /\ stage[c] = "trying"
  /\ \E i \in todo[c] :
       /\ MayTry(c, i)
       /\ IF todo[c] = {i}
            THEN Close(c, "failed")
            ELSE /\ todo' = [todo EXCEPT ![c] = @ \ {i}]
                 /\ UNCHANGED <<last, stage>>

Serve(c) ==
  /\ stage[c] = "trying"
  /\ \E i \in todo[c] : MayTry(c, i)
  /\ Close(c, "served")

Break(c) ==
  /\ stage[c] = "trying"
  /\ Close(c, "broken")

Next ==
  \E c \in Callers : Refuse(c) \/ Begin(c) \/ Fail(c) \/ Serve(c) \/ Break(c)

SafetySpec == Init /\ [][Next]_fvars

(* Trying does not go on forever. *)
Spec ==
  /\ SafetySpec
  /\ \A c \in Callers : WF_fvars(Fail(c) \/ Serve(c) \/ Break(c))
=============================================================================
