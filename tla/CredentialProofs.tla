--------------------------- MODULE CredentialProofs ---------------------------
(***************************************************************************)
(* Theorems about the credentials: those the gateway has at providers      *)
(* (OAuth), for any providers, flows and bounds, and those clients have at *)
(* the gateway (GatewayKeys), for any names and bounds.                    *)
(*                                                                         *)
(* OAuth: OAuthTypeOK is inductive; with it, so are StateIsRedeemedOnce    *)
(* and RefreshInv, about refreshes that overlap.  GatewayKeys: KeysInv,    *)
(* which says that no two keys are one and that the file has what the      *)
(* manager has, is inductive.  RingInv is what the types need besides.     *)
(***************************************************************************)
EXTENDS OAuth, GatewayKeys, DataLemmas

(* What flows wait for, by kind. *)
Exchanges(s) == [kind : {"exchange"}, state : (1..s) \X Linked]
Requests(m) == [kind : {"refresh"}, of : Linked, id : 1..m, sent : 1..MaxRefresh]
Answers(m) ==
  [kind : {"granted"}, of : Linked, id : 1..m, sent : 1..MaxRefresh, next : 0..MaxRefresh]

LEMMA TypesGrow ==
  ASSUME NEW m \in Nat, NEW n \in Nat, m <= n, NEW s \in Nat, NEW t \in Nat, s <= t
  PROVE  TokensOf(m) \subseteq TokensOf(n) /\ FlowsOf(m, s) \subseteq FlowsOf(n, t)
<1>1. 1..m \subseteq 1..n /\ (1..s) \X Linked \subseteq (1..t) \X Linked
  OBVIOUS
<1>2. TokensOf(m) \subseteq TokensOf(n) /\ Requests(m) \subseteq Requests(n)
  BY <1>1 DEF TokensOf, Requests
<1>3. Answers(m) \subseteq Answers(n)
  BY <1>1 DEF Answers
<1>4. Exchanges(s) \subseteq Exchanges(t)
  BY <1>1 DEF Exchanges
<1> QED
  BY <1>2, <1>3, <1>4 DEF FlowsOf, Exchanges, Requests, Answers

(* The shape of a flow follows from its kind. *)
LEMMA FlowKinds ==
  ASSUME NEW m, NEW s, NEW x \in FlowsOf(m, s)
  PROVE  /\ x.kind \in {"none", "exchange", "refresh", "granted"}
         /\ x.kind = "none" => x = Rest
         /\ x.kind = "exchange" => x \in Exchanges(s)
         /\ x.kind = "refresh" => x \in Requests(m)
         /\ x.kind = "granted" => x \in Answers(m)
BY DEF FlowsOf, Rest, Exchanges, Requests, Answers

LEMMA BoundsTyped == MaxTokens \in Nat /\ MaxStates \in Nat /\ MaxRefresh \in Nat \ {0}
  BY OAuthAssumption

LEMMA InitTypes == OAuthInit => OAuthTypeOK
<1> SUFFICES ASSUME OAuthInit PROVE OAuthTypeOK
  OBVIOUS
<1>1. Rest \in FlowsOf(made, started) /\ Nil \in TokensOf(made)
  BY DEF FlowsOf, TokensOf
<1>2. tokens \in [Linked -> TokensOf(made)] /\ stored \in [Linked -> TokensOf(made)]
  BY <1>1 DEF OAuthInit, NoTokens
<1>3. flows \in [Flows -> FlowsOf(made, started)]
  BY <1>1 DEF OAuthInit
<1>4. good \in [1..MaxTokens -> 0..MaxRefresh]
  BY BoundsTyped DEF OAuthInit
<1>5. started \in 0..MaxStates /\ made \in 0..MaxTokens
  BY BoundsTyped DEF OAuthInit
<1>6. faulty \in BOOLEAN /\ (~faulty => stored = tokens)
  BY DEF OAuthInit
<1>7. pending \subseteq (1..started) \X Linked
  BY DEF OAuthInit
<1> QED
  BY <1>2, <1>3, <1>4, <1>5, <1>6, <1>7 DEF OAuthTypeOK

LEMMA SavesTyped ==
  ASSUME NEW lost \in BOOLEAN, faulty \in BOOLEAN, Save(lost)
  PROVE  /\ faulty' \in BOOLEAN /\ stored' \in {stored, tokens', NoTokens}
         /\ ~faulty' => stored' = tokens' /\ ~faulty /\ ~lost
  BY DEF Save

LEMMA StepTypes == OAuthTypeOK /\ [OAuthNext]_oauthVars => OAuthTypeOK'
<1> SUFFICES ASSUME OAuthTypeOK, [OAuthNext]_oauthVars PROVE OAuthTypeOK'
  OBVIOUS
<1> USE BoundsTyped DEF OAuthTypeOK
<1>r. /\ Rest \in FlowsOf(made, started) /\ Nil \in TokensOf(made)
      /\ NoTokens \in [Linked -> TokensOf(made)]
  BY DEF FlowsOf, TokensOf, NoTokens
<1>1. ASSUME NEW p \in Linked, Authorize(p) PROVE OAuthTypeOK'
  <2>1. made \in Nat /\ started + 1 \in 0..MaxStates /\ started <= started + 1 /\ made <= made
    BY <1>1 DEF Authorize
  <2>2. FlowsOf(made, started) \subseteq FlowsOf(made, started + 1)
    BY <2>1, TypesGrow
  <2>3. pending' \subseteq (1..started') \X Linked
    BY <1>1, <2>1 DEF Authorize
  <2> QED
    BY <1>1, <2>1, <2>2, <2>3 DEF Authorize
<1>2. ASSUME NEW p \in Linked, RemoveToken(p) PROVE OAuthTypeOK'
  <2>1. Save(FALSE) /\ tokens' = [tokens EXCEPT ![p] = Nil]
    BY <1>2 DEF RemoveToken
  <2>2. /\ faulty' \in BOOLEAN /\ stored' \in {stored, tokens', NoTokens}
        /\ ~faulty' => stored' = tokens'
    BY <2>1, SavesTyped
  <2> QED
    BY <1>2, <1>r, <2>1, <2>2 DEF RemoveToken
<1>3. ASSUME NEW p \in Linked, NEW f \in Flows, BeginRefresh(f, p) PROVE OAuthTypeOK'
  <2>1. tokens[p] \in [id : 1..made, refresh : 0..MaxRefresh] /\ tokens[p].refresh # 0
    BY <1>3 DEF BeginRefresh, TokensOf
  <2>2. tokens[p].id \in 1..made /\ tokens[p].refresh \in 1..MaxRefresh
    BY <2>1
  <2>3. [kind |-> "refresh", of |-> p, id |-> tokens[p].id, sent |-> tokens[p].refresh]
          \in FlowsOf(made, started)
    BY <2>2 DEF FlowsOf
  <2> QED
    BY <1>3, <2>3 DEF BeginRefresh
<1>4. ASSUME NEW f \in Flows, NEW s \in pending, Callback(f, s) PROVE OAuthTypeOK'
  <2>1. [kind |-> "exchange", state |-> s] \in FlowsOf(made, started)
    BY DEF FlowsOf
  <2> QED
    BY <1>4, <2>1 DEF Callback, Claimed
<1>5. ASSUME NEW f \in Flows, ExchangeEnds(f) PROVE OAuthTypeOK'
  <2>1. made' = made + 1 /\ made' \in 1..MaxTokens /\ made \in Nat /\ started \in Nat
    BY <1>5 DEF ExchangeEnds
  <2>2. TokensOf(made) \subseteq TokensOf(made') /\ FlowsOf(made, started) \subseteq FlowsOf(made', started)
    BY <2>1, TypesGrow
  <2>3. PICK r \in {0, 1} :
          /\ tokens' = [tokens EXCEPT ![flows[f].state[2]] = [id |-> made', refresh |-> r]]
          /\ good' = [good EXCEPT ![made'] = r]
    BY <1>5 DEF ExchangeEnds
  <2>4. [id |-> made', refresh |-> r] \in TokensOf(made')
    BY <2>1 DEF TokensOf
  <2>5. tokens' \in [Linked -> TokensOf(made')]
    BY <2>2, <2>3, <2>4
  <2>6. flows' \in [Flows -> FlowsOf(made', started)] /\ good' \in [1..MaxTokens -> 0..MaxRefresh]
    BY <1>5, <1>r, <2>1, <2>2, <2>3 DEF ExchangeEnds
  <2>7. /\ faulty' \in BOOLEAN /\ stored' \in {stored, tokens', NoTokens}
        /\ ~faulty' => stored' = tokens'
    BY <1>5, SavesTyped DEF ExchangeEnds
  <2>8. stored' \in [Linked -> TokensOf(made')]
    BY <1>r, <2>2, <2>5, <2>7
  <2>9. started' = started /\ pending' = pending
    BY <1>5 DEF ExchangeEnds
  <2> QED
    BY <2>1, <2>5, <2>6, <2>7, <2>8, <2>9
<1>6. ASSUME NEW f \in Flows, ExchangeFails(f) PROVE OAuthTypeOK'
  BY <1>6, <1>r DEF ExchangeFails
<1>7. ASSUME NEW f \in Flows, Grant(f) PROVE OAuthTypeOK'
  <2>1. flows[f] \in Requests(made)
    BY <1>7, FlowKinds DEF Grant
  <2>2. flows[f].id \in 1..made /\ flows[f].of \in Linked /\ flows[f].sent \in 1..MaxRefresh
    BY <2>1 DEF Requests
  <2>3. PICK next \in 0..MaxRefresh :
          /\ good' = IF next = 0 THEN good ELSE [good EXCEPT ![flows[f].id] = next]
          /\ flows' = [flows EXCEPT ![f] = [kind |-> "granted", of |-> flows[f].of,
               id |-> flows[f].id, sent |-> flows[f].sent, next |-> next]]
    BY <1>7 DEF Grant
  <2>4. [kind |-> "granted", of |-> flows[f].of, id |-> flows[f].id, sent |-> flows[f].sent,
         next |-> next] \in FlowsOf(made, started)
    BY <2>2, <2>3 DEF FlowsOf
  <2> QED
    BY <1>7, <2>2, <2>3, <2>4 DEF Grant
<1>8. ASSUME NEW f \in Flows, RefreshEnds(f) PROVE OAuthTypeOK'
  <2>1. flows[f] \in Answers(made)
    BY <1>8, FlowKinds DEF RefreshEnds
  <2>2. ASSUME NEW p \in Linked PROVE Renewed(p, flows[f]) \in TokensOf(made)
    <3>1. CASE Holds(p, flows[f]) /\ flows[f].next # 0
      <4>1. tokens[p] \in [id : 1..made, refresh : 0..MaxRefresh]
        BY <3>1 DEF TokensOf, Holds
      <4>2. flows[f].next \in 0..MaxRefresh
        BY <2>1 DEF Answers
      <4> QED
        BY <3>1, <4>1, <4>2 DEF Renewed, TokensOf
    <3> QED
      BY <3>1 DEF Renewed
  <2>3. tokens' \in [Linked -> TokensOf(made)]
    BY <1>8, <2>1, <2>2 DEF RefreshEnds, Answers
  <2>4. Save(Overtaken(flows[f].of, flows[f])) /\ Overtaken(flows[f].of, flows[f]) \in BOOLEAN
    BY <1>8 DEF RefreshEnds, Overtaken
  <2>5. /\ faulty' \in BOOLEAN /\ stored' \in {stored, tokens', NoTokens}
        /\ ~faulty' => stored' = tokens'
    BY <2>4, SavesTyped
  <2>6. flows' \in [Flows -> FlowsOf(made, started)]
    BY <1>8, <1>r DEF RefreshEnds
  <2>7. UNCHANGED <<pending, started, made, good>>
    BY <1>8 DEF RefreshEnds
  <2> QED
    BY <1>r, <2>3, <2>5, <2>6, <2>7
<1>9. ASSUME NEW f \in Flows, RefreshFails(f) PROVE OAuthTypeOK'
  <2>1. faulty' \in BOOLEAN /\ (~faulty' => ~faulty)
    BY <1>9 DEF RefreshFails, Rotates
  <2> QED
    BY <1>9, <1>r, <2>1 DEF RefreshFails
<1>10. CASE Restart
  <2>1. faulty' \in BOOLEAN /\ stored' \in {stored, NoTokens} /\ tokens' = stored'
    BY <1>10 DEF Restart
  <2> QED
    BY <1>10, <1>r, <2>1 DEF Restart
<1>11. CASE UNCHANGED oauthVars
  BY <1>11 DEF oauthVars
<1> QED
  BY <1>1, <1>2, <1>3, <1>4, <1>5, <1>6, <1>7, <1>8, <1>9, <1>10, <1>11
     DEF OAuthNext

(* The manager's tokens, and what each flow waits for, have the shape and  *)
(* the bounds the code gives them, and the file has the same tokens unless *)
(* a save failed (_save, _load).                                           *)
THEOREM TokensTyped == OAuthSpec => []OAuthTypeOK
<1> QED
  BY InitTypes, StepTypes, PTL DEF OAuthSpec
-----------------------------------------------------------------------------
(* A state that was not given out is in no flow, and is not pending.       *)
LEMMA InitStates == OAuthInit => StateIsRedeemedOnce
  BY DEF OAuthInit, StateIsRedeemedOnce, Rest

LEMMA StepStates ==
  OAuthTypeOK /\ StateIsRedeemedOnce /\ [OAuthNext]_oauthVars => StateIsRedeemedOnce'
<1> SUFFICES ASSUME OAuthTypeOK, StateIsRedeemedOnce, [OAuthNext]_oauthVars
             PROVE  StateIsRedeemedOnce'
  OBVIOUS
<1> USE DEF StateIsRedeemedOnce
<1> DEFINE Exchanging(f) == flows[f].kind = "exchange"
<1>f. flows \in [Flows -> FlowsOf(made, started)]
  BY DEF OAuthTypeOK
(* No step but a callback brings a flow to an exchange.                    *)
<1>k. ASSUME pending' \subseteq pending,
             \A g \in Flows : Exchanging(g)' => Exchanging(g) /\ flows'[g] = flows[g]
      PROVE  StateIsRedeemedOnce'
  BY <1>k
<1>1. ASSUME NEW p \in Linked, Authorize(p) PROVE StateIsRedeemedOnce'
  <2>1. ASSUME NEW f \in Flows, Exchanging(f) PROVE flows[f].state \in (1..started) \X Linked
    BY <1>f, <2>1, FlowKinds DEF Exchanges
  <2>2. ASSUME NEW f \in Flows, Exchanging(f) PROVE flows[f].state # <<started + 1, p>>
    BY <2>1, <2>2 DEF OAuthTypeOK
  <2> QED
    BY <1>1, <2>2 DEF Authorize
<1>2. ASSUME NEW p \in Linked, RemoveToken(p) PROVE StateIsRedeemedOnce'
  BY <1>2, <1>k DEF RemoveToken
<1>3. ASSUME NEW p \in Linked, NEW f \in Flows, BeginRefresh(f, p) PROVE StateIsRedeemedOnce'
  BY <1>3, <1>f, <1>k DEF BeginRefresh
<1>4. ASSUME NEW f \in Flows, NEW s \in pending, Callback(f, s) PROVE StateIsRedeemedOnce'
  BY <1>4, <1>f DEF Callback, Claimed
<1>5. ASSUME NEW f \in Flows, ExchangeEnds(f) PROVE StateIsRedeemedOnce'
  BY <1>5, <1>f, <1>k DEF ExchangeEnds, Rest
<1>6. ASSUME NEW f \in Flows, ExchangeFails(f) PROVE StateIsRedeemedOnce'
  BY <1>6, <1>f, <1>k DEF ExchangeFails, Rest
<1>7. ASSUME NEW f \in Flows, Grant(f) PROVE StateIsRedeemedOnce'
  <2>1. /\ pending' = pending
        /\ flows'[f].kind = "granted"
        /\ \A g \in Flows \ {f} : flows'[g] = flows[g]
    BY <1>7, <1>f DEF Grant
  <2> QED
    BY <2>1, <1>k
<1>8. ASSUME NEW f \in Flows, RefreshEnds(f) PROVE StateIsRedeemedOnce'
  BY <1>8, <1>f, <1>k DEF RefreshEnds, Rest
<1>9. ASSUME NEW f \in Flows, RefreshFails(f) PROVE StateIsRedeemedOnce'
  BY <1>9, <1>f, <1>k DEF RefreshFails, Rest
<1>10. CASE Restart
  BY <1>10, <1>k DEF Restart, Rest
<1>11. CASE UNCHANGED oauthVars
  BY <1>11, <1>k DEF oauthVars
<1> QED
  BY <1>1, <1>2, <1>3, <1>4, <1>5, <1>6, <1>7, <1>8, <1>9, <1>10, <1>11
     DEF OAuthNext

(* No two exchanges are under way for one state, and none for a state that *)
(* can still be redeemed: handle_callback takes the state before it awaits *)
(* the provider, and get_authorize_url never gives one out again.          *)
THEOREM StatesRedeemedOnce == OAuthSpec => []StateIsRedeemedOnce
<1>1. OAuthInit => OAuthTypeOK /\ StateIsRedeemedOnce
  BY InitTypes, InitStates
<1>2. OAuthTypeOK /\ StateIsRedeemedOnce /\ [OAuthNext]_oauthVars
        => (OAuthTypeOK /\ StateIsRedeemedOnce)'
  BY StepTypes, StepStates
<1> QED
  BY <1>1, <1>2, PTL DEF OAuthSpec
-----------------------------------------------------------------------------
(* Token object i of provider p is nobody else's; the refresh token in it  *)
(* is the one the provider grants, or the one refresh that makes it so is  *)
(* under way, and then what any other refresh has sent is spent and what   *)
(* any other answer carries is not newer.                                  *)
Sound(p) ==
  LET t == tokens[p]
      i == tokens[p].id
  IN  /\ \A q \in Linked : tokens[q] # Nil /\ tokens[q].id = i => q = p
      /\ \A f \in Flows : flows[f].kind \in {"refresh", "granted"} /\ flows[f].id = i =>
           flows[f].of = p
      /\ \A f \in Flows : flows[f].kind = "refresh" /\ flows[f].id = i =>
           flows[f].sent <= t.refresh
      /\ \A f \in Flows : flows[f].kind = "granted" /\ flows[f].id = i =>
           Rotates(flows[f], i) \/ flows[f].next <= t.refresh
      /\ t.refresh = good[i] \/ \E f \in Flows : Rotates(flows[f], i)
      /\ \A f \in Flows : Rotates(flows[f], i) =>
           /\ t.refresh < good[i] /\ flows[f].next = good[i]
           /\ \A g \in Flows : Rotates(flows[g], i) => g = f

RefreshInv == ~faulty => \A p \in Linked : tokens[p] # Nil => Sound(p)

LEMMA RefreshImplies == RefreshInv => ConnectionCanBeRefreshed
  BY DEF RefreshInv, Sound, ConnectionCanBeRefreshed

LEMMA InitRefresh == OAuthInit => RefreshInv
  BY DEF OAuthInit, RefreshInv, NoTokens

(* A provider's token stays sound if neither it nor what the provider      *)
(* grants for it changes, nor any token or flow of it comes, nor a granted *)
(* rotation of it goes.                                                    *)
LEMMA SoundStays ==
  ASSUME NEW p \in Linked, Sound(p), tokens'[p] = tokens[p],
         good'[tokens[p].id] = good[tokens[p].id],
         \A q \in Linked : tokens'[q] # Nil /\ tokens'[q].id = tokens[p].id =>
           tokens[q] # Nil /\ tokens[q].id = tokens[p].id,
         \A f \in Flows : flows'[f].kind \in {"refresh", "granted"} /\ flows'[f].id = tokens[p].id =>
           flows'[f] = flows[f],
         \A f \in Flows : Rotates(flows[f], tokens[p].id) => flows'[f] = flows[f]
  PROVE  Sound(p)'
BY DEF Sound, Rotates

LEMMA StepRefresh == OAuthTypeOK /\ RefreshInv /\ [OAuthNext]_oauthVars => RefreshInv'
<1> SUFFICES ASSUME OAuthTypeOK, RefreshInv, [OAuthNext]_oauthVars, ~faulty'
             PROVE  \A p \in Linked : tokens'[p] # Nil => Sound(p)'
  BY DEF RefreshInv
<1>t. /\ flows \in [Flows -> FlowsOf(made, started)] /\ faulty \in BOOLEAN
      /\ tokens \in [Linked -> TokensOf(made)] /\ stored \in [Linked -> TokensOf(made)]
      /\ good \in [1..MaxTokens -> 0..MaxRefresh] /\ made \in 0..MaxTokens
      /\ ~faulty => stored = tokens
  BY DEF OAuthTypeOK
<1>i. ~faulty => \A p \in Linked : tokens[p] # Nil => Sound(p)
  BY DEF RefreshInv
<1>n. ASSUME NEW p \in Linked, tokens[p] # Nil
      PROVE  /\ tokens[p] \in [id : 1..made, refresh : 0..MaxRefresh]
             /\ tokens[p].id \in 1..made /\ tokens[p].id \in 1..MaxTokens
             /\ tokens[p].refresh \in Nat
  <2>1. tokens[p] \in [id : 1..made, refresh : 0..MaxRefresh]
    BY <1>n, <1>t DEF TokensOf
  <2>2. tokens[p].id \in 1..made /\ tokens[p].refresh \in Nat
    BY <2>1, BoundsTyped
  <2> QED
    BY <2>1, <2>2, <1>t, BoundsTyped
(* Steps that end flows, none of them a granted rotation, and take tokens. *)
<1>k. ASSUME ~faulty, good' = good,
             \A q \in Linked : tokens'[q] \in {tokens[q], Nil},
             \A f \in Flows : flows'[f].kind \in {"refresh", "granted"} => flows'[f] = flows[f],
             \A f \in Flows : Rotates(flows[f], flows[f].id) => flows'[f] = flows[f]
      PROVE  \A p \in Linked : tokens'[p] # Nil => Sound(p)'
  <2> SUFFICES ASSUME NEW p \in Linked, tokens'[p] # Nil PROVE Sound(p)'
    OBVIOUS
  <2>1. tokens'[p] = tokens[p] /\ Sound(p)
    BY <1>k, <1>i
  <2> QED
    BY <1>k, <2>1, SoundStays DEF Rotates
<1>1. ASSUME NEW p \in Linked, Authorize(p) PROVE RefreshInv'
  BY <1>1, <1>i, <1>k DEF Authorize, RefreshInv
<1>2. ASSUME NEW p \in Linked, RemoveToken(p) PROVE RefreshInv'
  BY <1>2, <1>i, <1>k, <1>t DEF RemoveToken, Save, RefreshInv
<1>3. ASSUME NEW p \in Linked, NEW f \in Flows, BeginRefresh(f, p) PROVE RefreshInv'
  <2>1. /\ flows'[f] = [kind |-> "refresh", of |-> p, id |-> tokens[p].id,
                        sent |-> tokens[p].refresh]
        /\ flows[f].kind = "none" /\ tokens[p] # Nil
        /\ \A g \in Flows \ {f} : flows'[g] = flows[g]
        /\ tokens' = tokens /\ good' = good /\ ~faulty
    BY <1>3, <1>t DEF BeginRefresh
  <2>2. ASSUME NEW q \in Linked, tokens'[q] # Nil PROVE Sound(q)'
    <3>1. Sound(q) /\ Sound(p) /\ tokens[q] # Nil
      BY <2>1, <2>2, <1>i
    <3>2. CASE q = p
      <4>1. tokens[p].refresh \in Nat
        BY <2>1, <1>n
      <4> QED
        BY <2>1, <3>1, <3>2, <4>1 DEF Sound, Rotates
    <3>3. CASE q # p
      <4>1. tokens[q].id # tokens[p].id
        BY <2>1, <3>1, <3>3 DEF Sound
      <4> QED
        BY <2>1, <3>1, <4>1, SoundStays DEF Rotates
    <3> QED
      BY <3>2, <3>3
  <2> QED
    BY <2>1, <2>2, <1>i DEF RefreshInv
<1>4. ASSUME NEW f \in Flows, NEW s \in pending, Callback(f, s) PROVE RefreshInv'
  BY <1>4, <1>i, <1>k, <1>t DEF Callback, RefreshInv, Rotates
<1>5. ASSUME NEW f \in Flows, ExchangeEnds(f) PROVE RefreshInv'
  <2>1. flows[f] \in Exchanges(started) /\ made' = made + 1 /\ made' \in 1..MaxTokens
    BY <1>5, <1>t, FlowKinds, BoundsTyped DEF ExchangeEnds
  <2>2. PICK p \in Linked : p = flows[f].state[2]
    BY <2>1 DEF Exchanges
  <2>3. PICK r \in {0, 1} :
          /\ tokens' = [tokens EXCEPT ![p] = [id |-> made', refresh |-> r]]
          /\ good' = [good EXCEPT ![made'] = r]
    BY <1>5, <2>2 DEF ExchangeEnds
  <2>4. /\ tokens'[p].id = made' /\ tokens'[p].refresh = r
        /\ \A q \in Linked \ {p} : tokens'[q] = tokens[q]
        /\ good' = [good EXCEPT ![made'] = r] /\ good'[made'] = r
        /\ flows' = [flows EXCEPT ![f] = Rest] /\ ~faulty
    BY <1>5, <2>1, <2>2, <2>3, <1>t DEF ExchangeEnds, Save
  <2>5. ASSUME NEW g \in Flows, flows[g].kind \in {"refresh", "granted"} PROVE flows[g].id # made'
    <3>1. flows[g].id \in 1..made
      BY <2>5, <1>t, FlowKinds DEF Requests, Answers
    <3> QED
      BY <3>1, <2>1, <1>t
  <2>6. ASSUME NEW g \in Flows, flows'[g].kind \in {"refresh", "granted"}
        PROVE  flows'[g] = flows[g] /\ flows'[g].id # made'
    <3>1. g # f
      BY <2>4, <2>6, <1>t DEF Rest
    <3> QED
      BY <2>4, <2>5, <2>6, <3>1, <1>t
  <2>7. ASSUME NEW q \in Linked \ {p}, tokens[q] # Nil PROVE tokens[q].id # made'
    BY <2>1, <2>7, <1>n, <1>t
  <2>8. Sound(p)'
    <3>1. \A g \in Flows : ~Rotates(flows'[g], made')
      BY <2>6 DEF Rotates
    <3> QED
      BY <2>2, <2>4, <2>6, <2>7, <3>1 DEF Sound
  <2>9. ASSUME NEW q \in Linked \ {p}, tokens'[q] # Nil PROVE Sound(q)'
    <3>1. Sound(q) /\ tokens'[q] = tokens[q] /\ tokens[q].id # made' /\ tokens[q].id \in 1..MaxTokens
      BY <2>4, <2>7, <2>9, <1>i, <1>n
    <3>2. good'[tokens[q].id] = good[tokens[q].id]
      BY <2>4, <3>1, <1>t
    <3>3. \A x \in Linked : tokens'[x] # Nil /\ tokens'[x].id = tokens[q].id =>
            tokens[x] # Nil /\ tokens[x].id = tokens[q].id
      BY <2>4, <3>1
    <3>4. \A g \in Flows : Rotates(flows[g], tokens[q].id) => flows'[g] = flows[g]
      BY <1>5, <2>4, <1>t DEF Rotates, ExchangeEnds
    <3> QED
      BY <2>6, <3>1, <3>2, <3>3, <3>4, SoundStays
  <2> QED
    BY <2>2, <2>4, <2>8, <2>9 DEF RefreshInv
<1>6. ASSUME NEW f \in Flows, ExchangeFails(f) PROVE RefreshInv'
  BY <1>6, <1>i, <1>k, <1>t DEF ExchangeFails, Rest, RefreshInv, Rotates
<1>7. ASSUME NEW f \in Flows, Grant(f) PROVE RefreshInv'
  <2>1. flows[f] \in Requests(made) /\ flows[f].kind = "refresh"
    BY <1>7, <1>t, FlowKinds DEF Grant
  <2>i. PICK i \in 1..made : i = flows[f].id
    BY <2>1 DEF Requests
  <2>2. i \in 1..MaxTokens /\ good[i] \in Nat /\ flows[f].sent \in Nat /\ good[i] = flows[f].sent
    BY <1>7, <2>i, <2>1, <1>t, BoundsTyped DEF Requests, Grant
  <2>3. PICK next \in {0, good[i], good[i] + 1} \cap (0..MaxRefresh) :
          /\ good' = IF next = 0 THEN good ELSE [good EXCEPT ![i] = next]
          /\ flows' = [flows EXCEPT ![f] = [kind |-> "granted", of |-> flows[f].of, id |-> i,
               sent |-> good[i], next |-> next]]
    BY <1>7, <2>i, <2>2 DEF Grant
  <2>4. /\ flows'[f].kind = "granted"
        /\ flows'[f].of = flows[f].of /\ flows'[f].id = i
        /\ flows'[f].next = next /\ flows'[f].sent = good[i]
        /\ \A g \in Flows \ {f} : flows'[g] = flows[g]
        /\ \A j \in 1..MaxTokens \ {i} : good'[j] = good[j]
        /\ next # 0 => good'[i] = next
        /\ next = 0 => good' = good
    BY <2>2, <2>3, <1>t
  <2>5. tokens' = tokens /\ ~faulty
    BY <1>7 DEF Grant
  <2>6. ASSUME NEW p \in Linked, tokens'[p] # Nil PROVE Sound(p)'
    <3>1. Sound(p) /\ tokens[p] # Nil /\ tokens[p].id \in 1..MaxTokens /\ tokens[p].refresh \in Nat
      BY <2>5, <2>6, <1>i, <1>n
    <3>2. CASE tokens[p].id # i
      BY <2>1, <2>i, <2>4, <2>5, <3>1, <3>2, SoundStays DEF Rotates
    <3>3. CASE tokens[p].id = i
      <4>1. flows[f].sent <= tokens[p].refresh /\ flows[f].of = p
        BY <2>1, <2>i, <3>1, <3>3 DEF Sound
      (* What was sent is granted, so that no rotation is under way.       *)
      <4>2. \A g \in Flows : ~Rotates(flows[g], i)
        BY <2>2, <3>1, <3>3, <4>1 DEF Sound
      <4>3. tokens[p].refresh = good[i]
        BY <3>1, <3>3, <4>2 DEF Sound
      <4>4. /\ \A q \in Linked : tokens'[q] # Nil /\ tokens'[q].id = i => q = p
            /\ \A g \in Flows : flows'[g].kind \in {"refresh", "granted"} /\ flows'[g].id = i =>
                 flows'[g].of = p
            /\ \A g \in Flows : flows'[g].kind = "refresh" /\ flows'[g].id = i =>
                 flows'[g].sent <= tokens[p].refresh
        BY <2>4, <2>5, <3>1, <3>3, <4>1 DEF Sound
      <4>5. \A g \in Flows \ {f} : flows'[g].kind = "granted" /\ flows'[g].id = i =>
              flows'[g].next <= tokens[p].refresh /\ ~Rotates(flows'[g], i)
        BY <2>4, <3>1, <3>3, <4>2 DEF Sound
      <4>6. CASE next = good[i] + 1
        <5>1. good'[i] = next /\ tokens[p].refresh < next /\ Rotates(flows'[f], i)
          BY <2>2, <2>4, <4>3, <4>6 DEF Rotates
        <5>2. \A g \in Flows : Rotates(flows'[g], i) => g = f
          BY <4>5 DEF Rotates
        <5>3. \A g \in Flows : flows'[g].kind = "granted" /\ flows'[g].id = i =>
                Rotates(flows'[g], i) \/ flows'[g].next <= tokens[p].refresh
          BY <4>5, <5>1
        <5>4. flows'[f].next = good'[i]
          BY <2>4, <5>1
        <5> QED
          BY <2>5, <3>3, <4>4, <5>1, <5>2, <5>3, <5>4 DEF Sound
      <4>7. CASE next \in {0, good[i]}
        <5>1. good'[i] = good[i] /\ next <= tokens[p].refresh /\ ~Rotates(flows'[f], i)
          BY <2>2, <2>4, <4>3, <4>7 DEF Rotates
        <5>2. \A g \in Flows : ~Rotates(flows'[g], i)
          BY <4>5, <5>1 DEF Rotates
        <5>3. \A g \in Flows : flows'[g].kind = "granted" /\ flows'[g].id = i =>
                flows'[g].next <= tokens[p].refresh
          BY <2>4, <4>5, <5>1
        <5> QED
          BY <2>5, <3>3, <4>3, <4>4, <5>1, <5>2, <5>3 DEF Sound
      <4> QED
        BY <2>3, <4>6, <4>7
    <3> QED
      BY <3>2, <3>3
  <2> QED
    BY <2>6 DEF RefreshInv
<1>8. ASSUME NEW f \in Flows, RefreshEnds(f) PROVE RefreshInv'
  <2>1. /\ flows[f] \in Answers(made) /\ flows[f].kind = "granted" /\ flows[f].id \in 1..made
        /\ flows[f].next \in Nat /\ flows[f].sent \in Nat
    BY <1>8, <1>t, FlowKinds, BoundsTyped DEF RefreshEnds, Answers
  <2>2. /\ flows'[f] = Rest /\ good' = good
        /\ \A g \in Flows \ {f} : flows'[g] = flows[g]
    BY <1>8, <1>t DEF RefreshEnds
  <2>p. PICK p \in Linked : p = flows[f].of
    BY <2>1 DEF Answers
  <2>3. /\ tokens' = [tokens EXCEPT ![p] = Renewed(p, flows[f])]
        /\ ~faulty /\ ~Overtaken(p, flows[f])
    BY <1>8, <2>p, <1>t, SavesTyped DEF RefreshEnds, Save, Overtaken
  <2>4. \A q \in Linked \ {p} : tokens'[q] = tokens[q]
    BY <2>3, <1>t
  <2>5. CASE Holds(p, flows[f])
    <3>i. PICK i \in 1..made : i = tokens[p].id /\ i = flows[f].id
      BY <2>5, <1>n DEF Holds
    <3>1. /\ tokens[p] \in [id : 1..made, refresh : 0..MaxRefresh] /\ tokens[p].refresh \in Nat
          /\ Sound(p)
      BY <2>3, <2>5, <1>i, <1>n DEF Holds
    <3>2. /\ tokens'[p].id = i
          /\ tokens'[p].refresh = IF flows[f].next # 0 THEN flows[f].next ELSE tokens[p].refresh
      BY <2>3, <2>5, <3>1, <1>t, <3>i DEF Renewed
    <3>3. flows[f].next = 0 \/ tokens[p].refresh <= flows[f].next
      BY <2>1, <2>3, <2>5, <3>1 DEF Overtaken
    <3>4. ASSUME NEW q \in Linked \ {p}, tokens'[q] # Nil PROVE Sound(q)'
      <4>1. Sound(q) /\ tokens'[q] = tokens[q] /\ tokens[q].id # i
        BY <2>3, <2>4, <2>5, <3>1, <3>4, <1>i, <3>i DEF Sound, Holds
      <4>2. \A r \in Linked : tokens'[r] # Nil /\ tokens'[r].id = tokens[q].id =>
              tokens[r] # Nil /\ tokens[r].id = tokens[q].id
        BY <2>4, <3>2, <4>1
      <4> QED
        BY <2>2, <4>1, <4>2, SoundStays, <3>i DEF Rotates, Rest
    <3>5. Sound(p)'
      <4>1. /\ \A q \in Linked : tokens'[q] # Nil /\ tokens'[q].id = i => q = p
            /\ \A g \in Flows : flows'[g].kind \in {"refresh", "granted"} /\ flows'[g].id = i =>
                 flows'[g].of = p
        BY <2>2, <2>4, <3>1, <3>2, <3>i DEF Sound, Rest
      <4>2. ASSUME NEW g \in Flows, flows'[g].kind \in {"refresh", "granted"}
            PROVE  /\ g # f /\ flows'[g] = flows[g]
                   /\ flows[g].kind = "refresh" => flows[g].sent \in Nat
                   /\ flows[g].kind = "granted" => flows[g].next \in Nat
        <5>1. g # f /\ flows'[g] = flows[g]
          BY <2>2, <4>2 DEF Rest
        <5> QED
          BY <4>2, <5>1, <1>t, FlowKinds, BoundsTyped DEF Requests, Answers
      <4>3. CASE Rotates(flows[f], i)
        <5>1. flows[f].next = good[i] /\ tokens[p].refresh < good[i] /\ flows[f].next # 0
          BY <2>1, <3>1, <4>3, <3>i DEF Sound, Rotates
        <5>2. \A g \in Flows : ~Rotates(flows'[g], i)
          BY <2>2, <3>1, <4>3, <3>i DEF Sound, Rotates, Rest
        <5>3. tokens'[p].refresh = good[i] /\ good[i] \in Nat
          BY <2>1, <3>2, <5>1
        <5>4. ASSUME NEW g \in Flows, flows'[g].kind = "refresh", flows'[g].id = i
              PROVE  flows'[g].sent <= good[i]
          <6>1. flows[g].sent <= tokens[p].refresh /\ flows'[g] = flows[g] /\ flows[g].sent \in Nat
            BY <3>1, <4>2, <5>4, <3>i DEF Sound
          <6> QED
            BY <3>1, <5>1, <5>3, <6>1
        <5>5. ASSUME NEW g \in Flows, flows'[g].kind = "granted", flows'[g].id = i
              PROVE  flows'[g].next <= good[i]
          <6>1. flows'[g] = flows[g] /\ flows[g].next \in Nat /\ ~Rotates(flows[g], i)
            BY <4>2, <5>2, <5>5
          <6>2. flows[g].next <= tokens[p].refresh
            BY <3>1, <5>5, <6>1, <3>i DEF Sound
          <6> QED
            BY <3>1, <5>1, <5>3, <6>1, <6>2
        <5> QED
          BY <2>2, <3>2, <4>1, <5>2, <5>3, <5>4, <5>5 DEF Sound
      <4>4. CASE ~Rotates(flows[f], i)
        <5>1. flows[f].next <= tokens[p].refresh
          BY <2>1, <3>1, <4>4, <3>i DEF Sound
        <5>2. tokens'[p].refresh = tokens[p].refresh
          BY <2>1, <3>1, <3>2, <3>3, <5>1
        <5>3. \A g \in Flows : Rotates(flows'[g], i) <=> Rotates(flows[g], i)
          BY <2>2, <4>4 DEF Rotates, Rest
        <5>4. \A g \in Flows : Rotates(flows[g], i) => flows'[g] = flows[g]
          BY <2>2, <4>4 DEF Rotates
        <5>5. /\ \A g \in Flows : flows'[g].kind = "refresh" /\ flows'[g].id = i =>
                   flows'[g].sent <= tokens[p].refresh
              /\ \A g \in Flows : flows'[g].kind = "granted" /\ flows'[g].id = i =>
                   Rotates(flows'[g], i) \/ flows'[g].next <= tokens[p].refresh
          BY <3>1, <4>2, <3>i DEF Sound
        <5>6. /\ tokens[p].refresh = good[i] \/ \E g \in Flows : Rotates(flows'[g], i)
              /\ \A g \in Flows : Rotates(flows'[g], i) =>
                   /\ tokens[p].refresh < good[i] /\ flows'[g].next = good[i]
                   /\ \A h \in Flows : Rotates(flows'[h], i) => h = g
          BY <3>1, <5>3, <5>4, <3>i DEF Sound
        <5> QED
          BY <2>2, <3>2, <4>1, <5>2, <5>5, <5>6 DEF Sound
      <4> QED
        BY <4>3, <4>4
    <3> QED
      BY <3>4, <3>5 DEF RefreshInv
  <2>6. CASE ~Holds(p, flows[f])
    <3>1. tokens' = tokens
      BY <2>3, <2>6, <1>t DEF Renewed
    <3>2. ASSUME NEW q \in Linked, tokens'[q] # Nil PROVE Sound(q)'
      <4>1. Sound(q) /\ tokens[q] # Nil
        BY <2>3, <3>1, <3>2, <1>i
      <4>2. tokens[q].id # flows[f].id
        BY <2>1, <2>p, <2>6, <4>1 DEF Sound, Holds
      <4> QED
        BY <2>2, <3>1, <4>1, <4>2, SoundStays DEF Rotates, Rest
    <3> QED
      BY <3>2 DEF RefreshInv
  <2> QED
    BY <2>5, <2>6
<1>9. ASSUME NEW f \in Flows, RefreshFails(f) PROVE RefreshInv'
  <2>1. /\ ~faulty /\ ~Rotates(flows[f], flows[f].id) /\ tokens' = tokens /\ good' = good
        /\ flows' = [flows EXCEPT ![f] = Rest]
    BY <1>9 DEF RefreshFails
  <2> QED
    BY <2>1, <1>k, <1>t DEF Rest, RefreshInv
<1>10. CASE Restart
  <2>1. /\ ~faulty /\ stored' = stored /\ tokens' = tokens /\ good' = good
        /\ \A f \in Flows : ~Rotates(flows[f], flows[f].id)
        /\ flows' = [f \in Flows |-> Rest]
    BY <1>10, <1>t DEF Restart
  <2> QED
    BY <2>1, <1>k, <1>t DEF Rest, RefreshInv
<1>11. CASE UNCHANGED oauthVars
  BY <1>11, <1>i, <1>k DEF oauthVars, RefreshInv
<1> QED
  BY <1>1, <1>2, <1>3, <1>4, <1>5, <1>6, <1>7, <1>8, <1>9, <1>10, <1>11
     DEF OAuthNext, RefreshInv

(* Once the refreshes that overlapped are over the manager has, for each   *)
(* connection, the refresh token the provider grants, unless a save failed *)
(* or a newer refresh token was lost or overwritten by an older one.       *)
THEOREM ConnectionsRefresh == OAuthSpec => []ConnectionCanBeRefreshed
<1>1. OAuthInit => OAuthTypeOK /\ RefreshInv
  BY InitTypes, InitRefresh
<1>2. OAuthTypeOK /\ RefreshInv /\ [OAuthNext]_oauthVars => (OAuthTypeOK /\ RefreshInv)'
  BY StepTypes, StepRefresh
<1> QED
  BY <1>1, <1>2, RefreshImplies, PTL DEF OAuthSpec
-----------------------------------------------------------------------------
(***************************************************************************)
(* The keys of clients.                                                    *)
(***************************************************************************)

Issued(m) == [id : 1..m, name : KeyNames, enabled : BOOLEAN, uses : Nat]

(* No key of r is a second time in it.                                     *)
Single(r) == \A i, j \in DOMAIN r : r[i].id = r[j].id => i = j

Refused(r, k) == \A i \in DOMAIN r : r[i].id = k => ~r[i].enabled

KeysInv ==
  /\ issued \in Nat /\ unsaved \in BOOLEAN
  /\ ~unsaved => /\ keyring \in Seq(Issued(issued)) /\ Single(keyring)
                 /\ LoadedKeys(keyFile) \in {keyring, <<>>}
                 /\ barred \subseteq 1..issued
                 /\ \A k \in barred : Refused(keyring, k)

LEMMA KeysImply == KeysInv => BarredStaysBarred
  BY DEF KeysInv, Refused, BarredStaysBarred, Valid

LEMMA InitKeys == GatewayKeysInit => KeysInv
<1> SUFFICES ASSUME GatewayKeysInit PROVE KeysInv
  OBVIOUS
<1>1. <<>> \in Seq(Issued(issued)) /\ Single(<<>>)
  BY DEF Single
<1>2. LoadedKeys(<<>>) = <<>>
  BY DEF LoadedKeys
<1> QED
  BY <1>1, <1>2 DEF GatewayKeysInit, KeysInv

(* What is saved can be loaded, or nothing can; so a step that saves has   *)
(* only its keys to see to.                                                *)
LEMMA SavedKeys ==
  ASSUME unsaved \in BOOLEAN, SaveKeys
  PROVE  /\ unsaved' \in BOOLEAN /\ (unsaved => unsaved')
         /\ ~unsaved' => LoadedKeys(keyFile)' \in {keyring', <<>>}
  BY DEF SaveKeys, LoadedKeys

LEMMA StepKeys == KeysInv /\ [GatewayKeysNext]_gatewayKeyVars => KeysInv'
<1> SUFFICES ASSUME KeysInv, [GatewayKeysNext]_gatewayKeyVars PROVE KeysInv'
  OBVIOUS
<1>t. issued \in Nat /\ unsaved \in BOOLEAN
  BY DEF KeysInv
<1>i. ~unsaved => /\ keyring \in Seq(Issued(issued)) /\ Single(keyring)
                  /\ barred \subseteq 1..issued
                  /\ \A k \in barred : Refused(keyring, k)
  BY DEF KeysInv
<1>e. ASSUME ~unsaved, NEW j \in DOMAIN keyring
      PROVE  /\ keyring[j] \in Issued(issued)
             /\ keyring[j].id \in 1..issued /\ keyring[j].uses \in Nat
  <2>1. keyring[j] \in Issued(issued)
    BY <1>e, <1>i
  <2> QED
    BY <2>1 DEF Issued
(* A saving step has only to keep keys apart and refuse those barred.      *)
<1>k. ASSUME SaveKeys, issued' \in Nat,
             ~unsaved => /\ keyring' \in Seq(Issued(issued')) /\ Single(keyring')
                         /\ barred' \subseteq 1..issued'
                         /\ \A k \in barred' : Refused(keyring', k)
      PROVE  KeysInv'
  BY <1>k, <1>t, SavedKeys DEF KeysInv
<1>1. ASSUME NEW n \in KeyNames, CreateKey(n) PROVE KeysInv'
  <2> DEFINE new == [id |-> issued + 1, name |-> n, enabled |-> TRUE, uses |-> 0]
  <2>1. issued' = issued + 1 /\ issued' \in Nat /\ SaveKeys /\ barred' = barred
        /\ keyring' = Append(keyring, new)
    BY <1>1, <1>t DEF CreateKey
  <2>2. ASSUME ~unsaved
        PROVE  /\ keyring' \in Seq(Issued(issued')) /\ Single(keyring')
               /\ barred' \subseteq 1..issued'
               /\ \A k \in barred' : Refused(keyring', k)
    <3>1. Issued(issued) \subseteq Issued(issued') /\ new \in Issued(issued')
      BY <2>1, <1>t DEF Issued
    <3>2. keyring \in Seq(Issued(issued')) /\ Len(keyring) \in Nat
          /\ DOMAIN keyring = 1..Len(keyring)
      BY <2>2, <3>1, <1>i
    <3> HIDE DEF new
    <3>3. /\ keyring' \in Seq(Issued(issued'))
          /\ DOMAIN keyring' = 1..(Len(keyring) + 1)
          /\ \A j \in 1..Len(keyring) : keyring'[j] = keyring[j]
          /\ keyring'[Len(keyring) + 1] = new
      BY <2>1, <3>1, <3>2
    <3>4. /\ \A j \in 1..Len(keyring) : keyring[j].id \in 1..issued
          /\ new.id = issued + 1
      BY <2>2, <3>2, <1>e DEF new
    <3>5. /\ \A j \in 1..Len(keyring) : keyring[j].id # new.id
          /\ \A k \in barred : k # new.id
      BY <2>2, <3>4, <1>i, <1>t
    <3>6. \A j \in DOMAIN keyring' :
            \/ j \in DOMAIN keyring /\ keyring'[j] = keyring[j]
            \/ j = Len(keyring) + 1 /\ keyring'[j] = new
      BY <3>2, <3>3
    <3>7. Single(keyring')
      BY <2>2, <3>2, <3>5, <3>6, <1>i DEF Single
    <3>8. \A k \in barred : Refused(keyring', k)
      BY <2>2, <3>5, <3>6, <1>i DEF Refused
    <3> QED
      BY <2>1, <2>2, <3>3, <3>7, <3>8, <1>i, <1>t
  <2> QED
    BY <2>1, <2>2, <1>k
<1>2. ASSUME NEW n \in KeyNames, RevokeKey(n) PROVE KeysInv'
  <2>1. PICK i \in DOMAIN keyring :
          keyring' = RemoveAt(keyring, i) /\ barred' = barred \cup {keyring[i].id}
    BY <1>2 DEF RevokeKey, First, Named
  <2>2. SaveKeys /\ issued' = issued
    BY <1>2 DEF RevokeKey
  <2>3. ASSUME ~unsaved
        PROVE  /\ keyring' \in Seq(Issued(issued)) /\ Single(keyring')
               /\ barred' \subseteq 1..issued
               /\ \A k \in barred' : Refused(keyring', k)
    <3>1. /\ keyring' \in Seq(Issued(issued))
          /\ \A j \in DOMAIN keyring' : \E h \in DOMAIN keyring \ {i} :
               keyring'[j] = keyring[h] /\ h = IF j < i THEN j ELSE j + 1
      BY <2>1, <2>3, <1>i, RemoveAtIs
    <3>2. DOMAIN keyring \subseteq Nat /\ DOMAIN keyring' \subseteq Nat
      BY <2>3, <3>1, <1>i
    <3>3. Single(keyring')
      <4> SUFFICES ASSUME NEW j \in DOMAIN keyring', NEW l \in DOMAIN keyring',
                          keyring'[j].id = keyring'[l].id
                   PROVE  j = l
        BY DEF Single
      <4>1. PICK h \in DOMAIN keyring : keyring'[j] = keyring[h] /\ h = IF j < i THEN j ELSE j + 1
        BY <3>1
      <4>2. PICK m \in DOMAIN keyring : keyring'[l] = keyring[m] /\ m = IF l < i THEN l ELSE l + 1
        BY <3>1
      <4>3. h = m
        BY <2>3, <4>1, <4>2, <1>i DEF Single
      <4> QED
        BY <3>2, <4>1, <4>2, <4>3
    <3>4. \A j \in DOMAIN keyring' : keyring'[j].id # keyring[i].id
      BY <2>3, <3>1, <1>i DEF Single
    <3>5. \A k \in barred' : Refused(keyring', k)
      BY <2>1, <2>3, <3>1, <3>4, <1>i DEF Refused
    <3>6. keyring[i].id \in 1..issued
      BY <2>3, <1>e
    <3> QED
      BY <2>1, <2>3, <3>1, <3>3, <3>5, <3>6, <1>i
  <2> QED
    BY <2>2, <2>3, <1>k, <1>t
<1>3. ASSUME NEW n \in KeyNames, NEW enabled \in BOOLEAN, ToggleKey(n, enabled) PROVE KeysInv'
  <2>1. PICK i \in DOMAIN keyring :
          /\ keyring' = [keyring EXCEPT ![i].enabled = enabled]
          /\ barred' = IF enabled THEN barred \ {keyring[i].id} ELSE barred \cup {keyring[i].id}
    BY <1>3 DEF ToggleKey, First, Named
  <2>2. SaveKeys /\ issued' = issued
    BY <1>3 DEF ToggleKey
  <2>3. ASSUME ~unsaved
        PROVE  /\ keyring' \in Seq(Issued(issued)) /\ Single(keyring')
               /\ barred' \subseteq 1..issued
               /\ \A k \in barred' : Refused(keyring', k)
    <3>1. keyring[i] \in Issued(issued) /\ keyring[i].id \in 1..issued
      BY <2>3, <1>e
    <3>2. [keyring[i] EXCEPT !.enabled = enabled] \in Issued(issued)
      BY <3>1 DEF Issued
    <3>3. /\ keyring' = [keyring EXCEPT ![i] = [keyring[i] EXCEPT !.enabled = enabled]]
          /\ keyring' \in Seq(Issued(issued))
      BY <2>1, <2>3, <3>2, <1>i
    <3>4. /\ DOMAIN keyring' = DOMAIN keyring
          /\ keyring'[i].id = keyring[i].id /\ keyring'[i].enabled = enabled
          /\ \A j \in DOMAIN keyring \ {i} : keyring'[j] = keyring[j]
      BY <2>3, <3>1, <3>3, <1>i DEF Issued
    <3>5. Single(keyring')
      BY <2>3, <3>4, <1>i DEF Single
    <3>6. \A k \in barred' : Refused(keyring', k)
      <4> SUFFICES ASSUME NEW k \in barred', NEW j \in DOMAIN keyring', keyring'[j].id = k
                   PROVE  ~keyring'[j].enabled
        BY DEF Refused
      <4>1. CASE j = i
        BY <2>1, <3>4, <4>1
      <4>2. CASE j # i
        <5>1. k # keyring[i].id
          BY <2>3, <3>4, <4>2, <1>i DEF Single
        <5>2. k \in barred
          BY <2>1, <5>1
        <5> QED
          BY <2>3, <3>4, <4>2, <5>2, <1>i DEF Refused
      <4> QED
        BY <4>1, <4>2
    <3> QED
      BY <2>1, <2>3, <3>1, <3>3, <3>5, <3>6, <1>i
  <2> QED
    BY <2>2, <2>3, <1>k, <1>t
<1>4. ASSUME NEW k \in 1..issued, Admit(k) PROVE KeysInv'
  <2>1. PICK i \in DOMAIN keyring : keyring' = [keyring EXCEPT ![i].uses = @ + 1]
    BY <1>4 DEF Admit, Valid
  <2>2. SaveKeys /\ issued' = issued /\ barred' = barred
    BY <1>4 DEF Admit
  <2>3. ASSUME ~unsaved
        PROVE  /\ keyring' \in Seq(Issued(issued)) /\ Single(keyring')
               /\ \A b \in barred : Refused(keyring', b)
    <3>1. keyring[i] \in Issued(issued) /\ keyring[i].uses \in Nat
      BY <2>3, <1>e
    <3>2. [keyring[i] EXCEPT !.uses = @ + 1] \in Issued(issued)
      BY <3>1 DEF Issued
    <3>3. /\ keyring' = [keyring EXCEPT ![i] = [keyring[i] EXCEPT !.uses = @ + 1]]
          /\ keyring' \in Seq(Issued(issued))
      BY <2>1, <2>3, <3>2, <1>i
    <3>4. /\ DOMAIN keyring' = DOMAIN keyring
          /\ \A j \in DOMAIN keyring :
               keyring'[j].id = keyring[j].id /\ keyring'[j].enabled = keyring[j].enabled
      BY <2>3, <3>1, <3>3, <1>i DEF Issued
    <3> QED
      BY <2>3, <3>3, <3>4, <1>i DEF Single, Refused
  <2> QED
    BY <2>2, <2>3, <1>k, <1>i, <1>t
<1>5. CASE RestartKeys
  <2>1. unsaved' \in BOOLEAN /\ (unsaved => unsaved') /\ issued' = issued /\ barred' = barred
    BY <1>5, <1>t DEF RestartKeys
  <2>2. ASSUME ~unsaved'
        PROVE  LoadedKeys(keyFile)' = keyring' /\ keyring' \in {keyring, <<>>}
    BY <1>5, <1>t, <2>2 DEF RestartKeys, KeysInv, LoadedKeys
  <2>3. <<>> \in Seq(Issued(issued)) /\ Single(<<>>) /\ \A k \in barred : Refused(<<>>, k)
    BY DEF Single, Refused
  <2> QED
    BY <2>1, <2>2, <2>3, <1>i, <1>t DEF KeysInv
<1>6. CASE UNCHANGED gatewayKeyVars
  BY <1>6 DEF gatewayKeyVars, KeysInv, LoadedKeys
<1> QED
  BY <1>1, <1>2, <1>3, <1>4, <1>5, <1>6 DEF GatewayKeysNext

(* A key that was revoked, or disabled and not enabled since, admits no    *)
(* request whatever keys are created under its name and however often the  *)
(* gateway is restarted, unless a save failed (revoke_key and toggle_key,  *)
(* which act on the first key of a name, and _load).                       *)
THEOREM BarredKeysStayBarred == GatewayKeysSpec => []BarredStaysBarred
<1>1. GatewayKeysInit => KeysInv
  BY InitKeys
<1>2. KeysInv /\ [GatewayKeysNext]_gatewayKeyVars => KeysInv'
  BY StepKeys
<1>3. KeysInv => BarredStaysBarred
  BY KeysImply
<1> QED
  BY <1>1, <1>2, <1>3, PTL DEF GatewayKeysSpec
-----------------------------------------------------------------------------
Counted(m) == [id : 1..m, name : KeyNames, enabled : BOOLEAN, uses : 0..MaxUses]

(* Keys are in the order of their creation. *)
InOrder(r) == \A i, j \in DOMAIN r : i < j => r[i].id < r[j].id

Ring(r) == r \in Seq(Counted(issued)) /\ InOrder(r)

RingInv ==
  /\ issued \in 0..MaxIssued /\ unsaved \in BOOLEAN
  /\ Ring(keyring) /\ (keyFile # TornKeys => Ring(keyFile))
  /\ ~unsaved => keyFile = keyring

LEMMA KeyBounds == MaxIssued \in Nat /\ MaxUses \in Nat /\ MasterKey \in BOOLEAN
  BY GatewayKeysAssumption

LEMMA RingImplies == RingInv => GatewayKeysTypeOK
BY DEF RingInv, Ring, InOrder, Counted, GatewayKeysTypeOK

(* A ring can be read when it has been written. *)
LEMMA RingsAreWhole == ASSUME issued \in Nat, NEW r, Ring(r) PROVE r # TornKeys
<1> DEFINE All == [id : Nat, name : KeyNames, enabled : BOOLEAN, uses : Nat]
<1>1. Counted(issued) \subseteq All
  BY KeyBounds DEF Counted
<1> HIDE DEF All
<1>2. Len(r) \in Nat /\ DOMAIN r = 1..Len(r) /\ r = [i \in 1..Len(r) |-> r[i]]
      /\ \A i \in 1..Len(r) : r[i] \in All
  BY <1>1 DEF Ring
<1>3. r \in [1..Len(r) -> All]
  BY <1>2
<1>4. r \in Seq(All)
  BY <1>2, <1>3, SeqDef
<1> QED
  BY <1>4, GatewayKeysAssumption DEF All

LEMMA InitRing == GatewayKeysInit => RingInv
<1> SUFFICES ASSUME GatewayKeysInit PROVE RingInv
  OBVIOUS
<1>1. <<>> \in Seq(Counted(issued)) /\ InOrder(<<>>)
  BY DEF InOrder
<1>2. keyring = <<>> /\ keyFile = <<>> /\ issued = 0 /\ unsaved = FALSE
  BY DEF GatewayKeysInit
<1>3. issued \in 0..MaxIssued
  BY <1>2, KeyBounds
<1> QED
  BY <1>1, <1>2, <1>3 DEF RingInv, Ring

(* One more key, one less, one that is used or switched. *)
LEMMA RingGrows ==
  ASSUME NEW r \in Seq(Counted(issued)), InOrder(r), issued \in Nat, NEW n \in KeyNames
  PROVE  LET more == Append(r, [id |-> issued + 1, name |-> n, enabled |-> TRUE, uses |-> 0])
         IN  more \in Seq(Counted(issued + 1)) /\ InOrder(more)
<1> DEFINE new == [id |-> issued + 1, name |-> n, enabled |-> TRUE, uses |-> 0]
           T == Counted(issued + 1)
<1>1. Counted(issued) \subseteq T /\ new \in T
  BY KeyBounds DEF Counted
<1>2. Len(r) \in Nat /\ DOMAIN r = 1..Len(r) /\ \A i \in 1..Len(r) : r[i] \in Counted(issued)
  BY LenProperties
<1>3. \A i \in 1..Len(r) : r[i].id \in 1..issued
  BY <1>2 DEF Counted
<1>4. new.id = issued + 1
  OBVIOUS
<1> HIDE DEF new, T
<1>5. r \in Seq(T)
  <2>1. r \in [1..Len(r) -> T]
    BY <1>1, <1>2
  <2> QED
    BY <1>2, <2>1, SeqDef
<1>6. /\ Append(r, new) \in Seq(T) /\ DOMAIN Append(r, new) = 1..(Len(r) + 1)
      /\ \A i \in 1..Len(r) : Append(r, new)[i] = r[i]
      /\ Append(r, new)[Len(r) + 1] = new
  BY <1>1, <1>5, AppendProperties, LenProperties
<1>7. InOrder(Append(r, new))
  <2> DEFINE more == Append(r, new)
  <2> SUFFICES ASSUME NEW i \in DOMAIN more, NEW j \in DOMAIN more, i < j
               PROVE  more[i].id < more[j].id
    BY DEF InOrder
  <2>1. i \in 1..Len(r) /\ (j \in 1..Len(r) \/ j = Len(r) + 1)
    BY <1>2, <1>6
  <2> QED
    BY <1>2, <1>3, <1>4, <1>6, <2>1 DEF InOrder
<1> QED
  BY <1>6, <1>7 DEF new, T

LEMMA RingShrinks ==
  ASSUME NEW T, NEW r \in Seq(T), InOrder(r), NEW i \in DOMAIN r
  PROVE  RemoveAt(r, i) \in Seq(T) /\ InOrder(RemoveAt(r, i))
<1> DEFINE less == RemoveAt(r, i)
<1>1. /\ less \in Seq(T)
      /\ \A j \in DOMAIN less : \E h \in DOMAIN r \ {i} :
           less[j] = r[h] /\ h = IF j < i THEN j ELSE j + 1
  BY RemoveAtIs
<1>2. DOMAIN r \subseteq Nat /\ DOMAIN less \subseteq Nat
  BY <1>1
<1>3. ASSUME NEW j \in DOMAIN less, NEW l \in DOMAIN less, j < l
      PROVE  less[j].id < less[l].id
  <2>1. PICK h \in DOMAIN r : less[j] = r[h] /\ h = IF j < i THEN j ELSE j + 1
    BY <1>1
  <2>2. PICK m \in DOMAIN r : less[l] = r[m] /\ m = IF l < i THEN l ELSE l + 1
    BY <1>1
  <2>3. h < m
    BY <1>2, <1>3, <2>1, <2>2
  <2> QED
    BY <2>1, <2>2, <2>3 DEF InOrder
<1> QED
  BY <1>1, <1>3 DEF InOrder

LEMMA RingChanges ==
  ASSUME NEW T, NEW r \in Seq(T), InOrder(r), NEW i \in DOMAIN r, NEW k \in T, k.id = r[i].id
  PROVE  [r EXCEPT ![i] = k] \in Seq(T) /\ InOrder([r EXCEPT ![i] = k])
<1>1. [r EXCEPT ![i] = k] \in Seq(T)
  OBVIOUS
<1>2. DOMAIN [r EXCEPT ![i] = k] = DOMAIN r
      /\ \A j \in DOMAIN r : [r EXCEPT ![i] = k][j].id = r[j].id
  OBVIOUS
<1> QED
  BY <1>1, <1>2 DEF InOrder

LEMMA StepRing == RingInv /\ [GatewayKeysNext]_gatewayKeyVars => RingInv'
<1> SUFFICES ASSUME RingInv, [GatewayKeysNext]_gatewayKeyVars PROVE RingInv'
  OBVIOUS
<1>t. /\ issued \in 0..MaxIssued /\ issued \in Nat /\ unsaved \in BOOLEAN
      /\ keyring \in Seq(Counted(issued)) /\ InOrder(keyring)
      /\ keyFile # TornKeys => keyFile \in Seq(Counted(issued)) /\ InOrder(keyFile)
      /\ ~unsaved => keyFile = keyring
  BY KeyBounds DEF RingInv, Ring
<1>e. ASSUME NEW j \in DOMAIN keyring PROVE keyring[j] \in Counted(issued)
  BY <1>t
(* What is saved is what there is; what is not is what there was.          *)
<1>k. ASSUME SaveKeys, issued' = issued, keyring' \in Seq(Counted(issued)), InOrder(keyring')
      PROVE  RingInv'
  <2>1. /\ unsaved' \in BOOLEAN /\ keyFile' \in {keyFile, keyring'}
        /\ ~unsaved' => keyFile' = keyring'
    BY <1>k, <1>t DEF SaveKeys
  <2> QED
    BY <1>k, <1>t, <2>1 DEF RingInv, Ring
<1>1. ASSUME NEW n \in KeyNames, CreateKey(n) PROVE RingInv'
  <2> DEFINE new == [id |-> issued + 1, name |-> n, enabled |-> TRUE, uses |-> 0]
  <2>1. issued' = issued + 1 /\ issued < MaxIssued /\ SaveKeys /\ keyring' = Append(keyring, new)
    BY <1>1 DEF CreateKey
  <2>2. keyring' \in Seq(Counted(issued')) /\ InOrder(keyring')
    BY <1>t, <2>1, RingGrows
  <2>3. /\ unsaved' \in BOOLEAN /\ keyFile' \in {keyFile, keyring'}
        /\ ~unsaved' => keyFile' = keyring'
    BY <1>t, <2>1 DEF SaveKeys
  <2>4. keyFile # TornKeys => keyFile \in Seq(Counted(issued'))
    <3> SUFFICES ASSUME keyFile # TornKeys PROVE keyFile \in Seq(Counted(issued'))
      OBVIOUS
    <3>1. Counted(issued) \subseteq Counted(issued')
      BY <1>t, <2>1 DEF Counted
    <3>2. Len(keyFile) \in Nat /\ keyFile \in [1..Len(keyFile) -> Counted(issued')]
      BY <1>t, <3>1, LenProperties
    <3> QED
      BY <3>2, SeqDef
  <2>5. issued' \in 0..MaxIssued
    BY <1>t, <2>1, KeyBounds
  <2> QED
    BY <1>t, <2>2, <2>3, <2>4, <2>5 DEF RingInv, Ring
<1>2. ASSUME NEW n \in KeyNames, RevokeKey(n) PROVE RingInv'
  <2>1. PICK i \in DOMAIN keyring : keyring' = RemoveAt(keyring, i)
    BY <1>2 DEF RevokeKey, First, Named
  <2>2. SaveKeys /\ issued' = issued
    BY <1>2 DEF RevokeKey
  <2>3. keyring' \in Seq(Counted(issued)) /\ InOrder(keyring')
    BY <1>t, <2>1, RingShrinks
  <2> QED
    BY <1>k, <2>2, <2>3
<1>3. ASSUME NEW n \in KeyNames, NEW enabled \in BOOLEAN, ToggleKey(n, enabled) PROVE RingInv'
  <2>1. PICK i \in DOMAIN keyring : keyring' = [keyring EXCEPT ![i].enabled = enabled]
    BY <1>3 DEF ToggleKey, First, Named
  <2>2. SaveKeys /\ issued' = issued
    BY <1>3 DEF ToggleKey
  <2> DEFINE k == [keyring[i] EXCEPT !.enabled = enabled]
  <2>3. k \in Counted(issued) /\ k.id = keyring[i].id
    BY <1>e DEF Counted
  <2>4. keyring' = [keyring EXCEPT ![i] = k]
    BY <2>1
  <2> HIDE DEF k
  <2>5. keyring' \in Seq(Counted(issued)) /\ InOrder(keyring')
    BY <1>t, <2>3, <2>4, RingChanges
  <2> QED
    BY <1>k, <2>2, <2>5
<1>4. ASSUME NEW k \in 1..issued, Admit(k) PROVE RingInv'
  <2>1. PICK i \in DOMAIN keyring :
          keyring[i].uses < MaxUses /\ keyring' = [keyring EXCEPT ![i].uses = @ + 1]
    BY <1>4 DEF Admit, Valid
  <2>2. SaveKeys /\ issued' = issued
    BY <1>4 DEF Admit
  <2> DEFINE used == [keyring[i] EXCEPT !.uses = @ + 1]
  <2>3. used \in Counted(issued) /\ used.id = keyring[i].id
    BY <1>e, <2>1, KeyBounds DEF Counted
  <2>4. keyring' = [keyring EXCEPT ![i] = used]
    BY <2>1
  <2> HIDE DEF used
  <2>5. keyring' \in Seq(Counted(issued)) /\ InOrder(keyring')
    BY <1>t, <2>3, <2>4, RingChanges
  <2> QED
    BY <1>k, <2>2, <2>5
<1>5. CASE RestartKeys
  <2>1. /\ \/ keyFile' = keyFile /\ unsaved' = unsaved
           \/ keyFile' = TornKeys /\ unsaved' = TRUE
        /\ keyring' = LoadedKeys(keyFile') /\ issued' = issued
    BY <1>5 DEF RestartKeys
  <2>2. Ring(<<>>)
    BY DEF Ring, InOrder
  <2>3. keyFile' # TornKeys => keyFile' = keyFile /\ keyring' = keyFile
    BY <2>1 DEF LoadedKeys
  <2>4. keyFile' = TornKeys => keyring' = <<>>
    BY <2>1 DEF LoadedKeys
  <2>5. ~unsaved' => keyFile' # TornKeys
    <3>1. ~unsaved => keyFile # TornKeys
      BY <1>t, RingsAreWhole DEF Ring
    <3> QED
      BY <1>t, <2>1, <3>1
  <2>6. unsaved' \in BOOLEAN
    BY <1>t, <2>1
  <2> QED
    BY <1>t, <2>1, <2>2, <2>3, <2>4, <2>5, <2>6 DEF RingInv, Ring
<1>6. CASE UNCHANGED gatewayKeyVars
  BY <1>6 DEF gatewayKeyVars, RingInv, Ring
<1> QED
  BY <1>1, <1>2, <1>3, <1>4, <1>5, <1>6 DEF GatewayKeysNext

(* The gateway's keys have the shape and the bounds the code gives them,   *)
(* each is there once, in the order of creation, and the file has them all *)
(* until a save fails (_save after every change).                          *)
THEOREM KeyringTyped == GatewayKeysSpec => []GatewayKeysTypeOK
BY InitRing, StepRing, RingImplies, PTL DEF GatewayKeysSpec
=============================================================================
