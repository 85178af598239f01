------------------------------ MODULE MCStores ------------------------------
(***************************************************************************)
(* Instances, for TLC, of what the gateway keeps in files: the keys of     *)
(* providers (KeyStores), the models (ModelFiles, Catalog) and the         *)
(* credentials (OAuth, GatewayKeys).  They share no state - a running      *)
(* gateway reads models.yaml only when it starts and after a sync, and may *)
(* find any of FileContents in it -, so that part chooses the one whose    *)
(* behaviours are explored while the others stay as they start.            *)
(***************************************************************************)
EXTENDS KeyStores, ModelFiles, Catalog, OAuth, GatewayKeys, TLC

CONSTANTS k1, Parts  \* a key; the parts a run explores

VARIABLE part

AllInit ==
  /\ part \in Parts
  /\ StoresInit /\ FilesInit /\ CatalogInit /\ OAuthInit /\ GatewayKeysInit
AllNext ==
  /\ part' = part
  /\ \/ /\ part = "keys" /\ StoresNext
        /\ UNCHANGED <<modelFileVars, catalogVars, oauthVars, gatewayKeyVars>>
     \/ /\ part = "files" /\ FilesNext
        /\ UNCHANGED <<allVars, catalogVars, oauthVars, gatewayKeyVars>>
     \/ /\ part = "catalog" /\ CatalogNext
        /\ UNCHANGED <<allVars, modelFileVars, oauthVars, gatewayKeyVars>>
     \/ /\ part = "oauth" /\ OAuthNext
        /\ UNCHANGED <<allVars, modelFileVars, catalogVars, gatewayKeyVars>>
     \/ /\ part = "access" /\ GatewayKeysNext
        /\ UNCHANGED <<allVars, modelFileVars, catalogVars, oauthVars>>
All == AllInit /\ [][AllNext]_<<part, allVars, modelFileVars, catalogVars, oauthVars, gatewayKeyVars>>

OneKey == <<k1>>

TheProviders == <<"p", "q">>
TheYaml == "m" :> <<"q">> @@ "n" :> <<>>
TheOffers ==
  {"p" :> {} @@ "q" :> {"n"}, "p" :> {"m"} @@ "q" :> {}, "p" :> {"m", "n"} @@ "q" :> {"n"}}

(* The file has model m, or not; p may list it, and q, which has it free. *)
TheFiles == {"m" :> NoModel, "m" :> <<"p", "q">>}
TheListings == {"p" :> {"m"} @@ "q" :> {}, "p" :> {"m"} @@ "q" :> {"m"}}
TheFree == {<<"q", "m">>}
Entry(p, w) == [provider |-> p, weight |-> w]
TheEntries == {<<Entry("p", 1), Entry("q", 2)>>, <<Entry("p", 1), Entry("q", 1)>>, <<>>}
TheOrders == {<<"q", "p">>}

(* The variables of each part have the types the code gives them. *)
FilesAndStoresTypeOK ==
  StoresTypeOK /\ FilesTypeOK /\ CatalogTypeOK /\ OAuthTypeOK /\ GatewayKeysTypeOK
=============================================================================
