------------------------------ MODULE MCRouter ------------------------------
(***************************************************************************)
(* Instances of Router for TLC: two cloud providers and the local one.     *)
(* The cloud provider a serves two models, b and the local one a model     *)
(* each.                                                                   *)
(***************************************************************************)
EXTENDS Router, TLC

TheProviders == {"a", "b", "local"}
TheEntries == {"a1", "a2", "b1", "l1"}
TheProviderOf == "a1" :> "a" @@ "a2" :> "a" @@ "b1" :> "b" @@ "l1" :> "local"
TheKeyNames == {"k1", "k2", "kb", "kl"}

OneKey == "a" :> <<"k1">> @@ "b" :> <<"kb">> @@ "local" :> <<"kl">>
TwoKeys == "a" :> <<"k1", "k2">> @@ "b" :> <<"kb">> @@ "local" :> <<"kl">>

NoLimit == "a" :> 0 @@ "b" :> 0 @@ "local" :> 0
LimitOne == "a" :> 1 @@ "b" :> 0 @@ "local" :> 0

OneModel == {"m"}
OneEntry == "m" :> <<"a1">>
WithLocal == "m" :> <<"l1", "a1", "b1">>

NoReports == {{}}
AnyOutage == SUBSET {"a", "b"}

Symmetry == Permutations(Callers)
=============================================================================
