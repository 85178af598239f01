-------------------------------- MODULE OAuth --------------------------------
(***************************************************************************)
(* The OAuth connections of oauth_manager.py: the flow that makes one, and *)
(* the refresh that keeps it, both with an await of the provider between   *)
(* what they read and what they write.  A token is an object: a refresh    *)
(* writes into the one it read, which the manager may hold no longer.  Its *)
(* refresh token is a number, 0 if it has none; its access token and its   *)
(* times are left out, for nothing the manager changes depends on them.    *)
(*                                                                         *)
(* The provider's side is external.  It may give a connection a refresh    *)
(* token, and grants a refresh to the one it has given last.  Its answer   *)
(* carries a new one (rotation), the same one again, or none.              *)
(***************************************************************************)
EXTENDS Naturals, FiniteSets

CONSTANTS
  Linked,        \* the providers of OAUTH_PROVIDERS
  Flows,         \* the flows and refreshes that may be under way at once
  MaxStates,     \* bound: the flows that are started
  MaxTokens,     \* bound: the connections that are made
  MaxRefresh,    \* bound: the refresh tokens of a connection
  Nil            \* no token

ASSUME OAuthAssumption ==
  {MaxStates, MaxTokens} \subseteq Nat /\ MaxRefresh \in Nat \ {0}

VARIABLES
  pending,  \* _pending_states: pairs of a state and its provider
  started,  \* how many states there have been
  tokens,   \* _tokens: the token of a provider
  stored,   \* oauth_tokens.json; NoTokens also if it cannot be read
  made,     \* how many token objects there have been
  good,     \* external, per token object: the refresh token the provider grants
  flows,    \* per flow or refresh: what it awaits
  faulty    \* history: has a save failed or been torn, or a refresh token been
            \* lost with an answer or replaced by an older one?

oauthVars == <<pending, started, tokens, stored, made, good, flows, faulty>>

Rest == [kind |-> "none"]
NoTokens == [p \in Linked |-> Nil]

OAuthInit ==
  /\ pending = {} /\ started = 0
  /\ tokens = NoTokens /\ stored = NoTokens
  /\ made = 0 /\ good = [i \in 1..MaxTokens |-> 0]
  /\ flows = [f \in Flows |-> Rest]
  /\ faulty = FALSE

(* _save: an error of the disk is logged and forgotten; it may come after  *)
(* the file was opened, which empties it.                                  *)
Save(lost) ==
  \/ stored' = tokens' /\ faulty' = (faulty \/ lost)
  \/ stored' \in {stored, NoTokens} /\ faulty' = TRUE

(* get_authorize_url; a state nobody comes back with stays. *)
Authorize(p) ==
  /\ started < MaxStates
  /\ started' = started + 1 /\ pending' = pending \cup {<<started', p>>}
  /\ UNCHANGED <<tokens, stored, made, good, flows, faulty>>

(* Mutated form of Claimed: a state is there until its flow ends. *)
ClaimedLater(s) == pending

(* handle_callback, up to its await: the state is taken. *)
Claimed(s) == pending \ {s}

Callback(f, s) ==
  /\ flows[f].kind = "none" /\ s \in pending
  /\ pending' = Claimed(s)
  /\ flows' = [flows EXCEPT ![f] = [kind |-> "exchange", state |-> s]]
  /\ UNCHANGED <<started, tokens, stored, made, good, faulty>>

(* The provider has given a token, with a refresh token or without one:    *)
(* the connection is made or replaced.                                     *)
ExchangeEnds(f) ==
  /\ flows[f].kind = "exchange" /\ made < MaxTokens
  /\ made' = made + 1
  /\ \E r \in {0, 1} :
       /\ tokens' = [tokens EXCEPT ![flows[f].state[2]] = [id |-> made', refresh |-> r]]
       /\ good' = [good EXCEPT ![made'] = r]
  /\ flows' = [flows EXCEPT ![f] = Rest]
  /\ Save(FALSE)
  /\ UNCHANGED <<pending, started>>

(* The request failed, ran into its timeout, or was answered by an error. *)
ExchangeFails(f) ==
  /\ flows[f].kind = "exchange"
  /\ flows' = [flows EXCEPT ![f] = Rest]
  /\ UNCHANGED <<pending, started, tokens, stored, made, good, faulty>>

(* refresh_token, up to its await; without a refresh token (can_refresh)   *)
(* it answers with an error.                                               *)
BeginRefresh(f, p) ==
  /\ flows[f].kind = "none" /\ tokens[p] # Nil /\ tokens[p].refresh # 0
  /\ flows' = [flows EXCEPT ![f] =
       [kind |-> "refresh", of |-> p, id |-> tokens[p].id, sent |-> tokens[p].refresh]]
  /\ UNCHANGED <<pending, started, tokens, stored, made, good, faulty>>

(* External: the provider grants the refresh; its answer is on its way. *)
Grant(f) ==
  /\ flows[f].kind = "refresh" /\ flows[f].sent = good[flows[f].id]
  /\ \E next \in {0, flows[f].sent, flows[f].sent + 1} \cap 0..MaxRefresh :
       /\ good' = IF next = 0 THEN good ELSE [good EXCEPT ![flows[f].id] = next]
       /\ flows' = [flows EXCEPT ![f] = [kind |-> "granted", of |-> flows[f].of,
            id |-> flows[f].id, sent |-> flows[f].sent, next |-> next]]
  /\ UNCHANGED <<pending, started, tokens, stored, made, faulty>>

(* An answer with a new refresh token is on its way to token object i. *)
Rotates(x, i) == x.kind = "granted" /\ x.id = i /\ x.next > x.sent

(* f has read the token object that the manager holds for provider p. *)
Holds(p, f) == tokens[p] # Nil /\ tokens[p].id = f.id

(* Mutated form of Renewed: without a refresh token in the answer there is *)
(* none.                                                                   *)
RenewedAnew(p, f) ==
  IF Holds(p, f) THEN [tokens[p] EXCEPT !.refresh = f.next] ELSE tokens[p]

(* The token of p after the object f has read was written: with the refresh *)
(* token the answer carries, or with the one it had.                        *)
Renewed(p, f) ==
  IF Holds(p, f) /\ f.next # 0 THEN [tokens[p] EXCEPT !.refresh = f.next] ELSE tokens[p]

(* What f's answer carries has been replaced since. *)
Overtaken(p, f) == Holds(p, f) /\ f.next # 0 /\ f.next < tokens[p].refresh

(* The answer has come. *)
RefreshEnds(f) ==
  /\ flows[f].kind = "granted"
  /\ flows' = [flows EXCEPT ![f] = Rest]
  /\ tokens' = [tokens EXCEPT ![flows[f].of] = Renewed(flows[f].of, flows[f])]
  /\ Save(Overtaken(flows[f].of, flows[f]))
  /\ UNCHANGED <<pending, started, made, good>>

(* The provider denies the refresh, or its answer is lost: the token stays *)
(* as it is.                                                               *)
RefreshFails(f) ==
  /\ flows[f].kind \in {"refresh", "granted"}
  /\ flows' = [flows EXCEPT ![f] = Rest]
  /\ faulty' = (faulty \/ Rotates(flows[f], flows[f].id))
  /\ UNCHANGED <<pending, started, tokens, stored, made, good>>

(* Mutated form of RemoveToken: the file keeps what was removed. *)
RemoveTokenOnly(p) ==
  /\ tokens[p] # Nil
  /\ tokens' = [tokens EXCEPT ![p] = Nil]
  /\ UNCHANGED <<pending, started, stored, made, good, flows, faulty>>

RemoveToken(p) ==
  /\ tokens[p] # Nil
  /\ tokens' = [tokens EXCEPT ![p] = Nil]
  /\ Save(FALSE)
  /\ UNCHANGED <<pending, started, made, good, flows>>

(* The gateway ends and is started again: _load has the tokens of the     *)
(* file, or none when its write was cut short.                            *)
Restart ==
  /\ \/ stored' = stored /\ faulty' = (faulty \/ \E f \in Flows : Rotates(flows[f], flows[f].id))
     \/ stored' = NoTokens /\ faulty' = TRUE
  /\ tokens' = stored' /\ pending' = {}
  /\ flows' = [f \in Flows |-> Rest]
  /\ UNCHANGED <<started, made, good>>

OAuthNext ==
  \/ \E p \in Linked : Authorize(p) \/ RemoveToken(p) \/ (\E f \in Flows : BeginRefresh(f, p))
  \/ \E f \in Flows :
       \/ \E s \in pending : Callback(f, s)
       \/ ExchangeEnds(f) \/ ExchangeFails(f)
       \/ Grant(f) \/ RefreshEnds(f) \/ RefreshFails(f)
  \/ Restart

OAuthSpec == OAuthInit /\ [][OAuthNext]_oauthVars
-----------------------------------------------------------------------------
(***************************************************************************)
(* Properties.                                                             *)
(***************************************************************************)

(* The tokens of the first m objects; what flows wait for, with them and   *)
(* with the first s states.                                                *)
TokensOf(m) == [id : 1..m, refresh : 0..MaxRefresh] \cup {Nil}
FlowsOf(m, s) ==
  {Rest} \cup [kind : {"exchange"}, state : (1..s) \X Linked]
    \cup [kind : {"refresh"}, of : Linked, id : 1..m, sent : 1..MaxRefresh]
    \cup [kind : {"granted"}, of : Linked, id : 1..m, sent : 1..MaxRefresh, next : 0..MaxRefresh]

(* The types, with what _load gives back: the file has the manager's       *)
(* tokens unless a save failed (_save).                                    *)
OAuthTypeOK ==
  /\ started \in 0..MaxStates /\ made \in 0..MaxTokens
  /\ pending \subseteq (1..started) \X Linked
  /\ tokens \in [Linked -> TokensOf(made)] /\ stored \in [Linked -> TokensOf(made)]
  /\ good \in [1..MaxTokens -> 0..MaxRefresh]
  /\ flows \in [Flows -> FlowsOf(made, started)]
  /\ faulty \in BOOLEAN
  /\ ~faulty => stored = tokens

(* A state is redeemed once: no two exchanges are under way for the same   *)
(* one, and none is for one that can still be redeemed (handle_callback    *)
(* takes it before it awaits).                                             *)
StateIsRedeemedOnce ==
  \A f, g \in Flows : flows[f].kind = "exchange" =>
    /\ flows[f].state \notin pending
    /\ g # f /\ flows[g].kind = "exchange" => flows[g].state # flows[f].state

(* Unless an answer with a new refresh token is on its way, the manager    *)
(* has for a connection the refresh token the provider grants, also after  *)
(* several refreshes at once of which it denied some, after answers that   *)
(* carry none, and where there has never been one (refresh_token).  This   *)
(* excuses a save that failed or was cut short, a new refresh token lost   *)
(* with its answer, and one that a late answer with an older refresh token *)
(* has overwritten, which the code does nothing against.                   *)
ConnectionCanBeRefreshed ==
  \A p \in Linked :
    ~faulty /\ tokens[p] # Nil /\ (\A f \in Flows : ~Rotates(flows[f], tokens[p].id)) =>
      tokens[p].refresh = good[tokens[p].id]
=============================================================================
