------------------------------ MODULE Delivery ------------------------------
(***************************************************************************)
(* What a queue of requests promises its clients, whatever happens inside: *)
(* an accepted request is concluded at most once and its outcome never     *)
(* changes; a client that waits gets exactly one reply, a result only if   *)
(* the request succeeded; a client may be told an error before or after    *)
(* the request is concluded, because it may stop waiting at any time.      *)
(***************************************************************************)
CONSTANT Requests

VARIABLES
  outcome,   \* "absent", "open", then "success" or "failure"
  reply      \* what the client knows

dvars == <<outcome, reply>>

Init ==
  /\ outcome = [r \in Requests |-> "absent"]
  /\ reply = [r \in Requests |-> "none"]

Refuse(r) ==
  /\ reply[r] = "none"
  /\ reply' = [reply EXCEPT ![r] = "refused"]
  /\ UNCHANGED outcome

Accept(r) ==
  /\ reply[r] = "none"
  /\ outcome' = [outcome EXCEPT ![r] = "open"]
  /\ \E kind \in {"accepted", "awaiting"} : reply' = [reply EXCEPT ![r] = kind]

Conclude(r) ==
  /\ outcome[r] = "open"
  /\ \E end \in {"success", "failure"} : outcome' = [outcome EXCEPT ![r] = end]
  /\ UNCHANGED reply

Deliver(r) ==
  /\ reply[r] = "awaiting"
  /\ \/ outcome[r] = "success" /\ reply' = [reply EXCEPT ![r] = "result"]
     \/ outcome[r] = "failure" /\ reply' = [reply EXCEPT ![r] = "error"]
  /\ UNCHANGED outcome

GiveUp(r) ==
  /\ reply[r] = "awaiting"
  /\ reply' = [reply EXCEPT ![r] = "error"]
  /\ UNCHANGED outcome

Next ==
  \E r \in Requests :
    Refuse(r) \/ Accept(r) \/ Conclude(r) \/ Deliver(r) \/ GiveUp(r)

SafetySpec == Init /\ [][Next]_dvars

(* A client that waits is not kept waiting forever. *)
Spec ==
  /\ SafetySpec
  /\ \A r \in Requests : WF_dvars(Deliver(r) \/ GiveUp(r))
=============================================================================
