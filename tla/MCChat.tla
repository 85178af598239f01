------------------------------- MODULE MCChat -------------------------------
(***************************************************************************)
(* Instances, for TLC, of what becomes of a chat request: the way it takes *)
(* (Gateway) and what is computed of it, its name (Naming), its format and *)
(* tools (Translation), its length (Compression), each of inputs that the  *)
(* initial states enumerate.  They share no state: part chooses the one    *)
(* whose behaviours are explored.                                          *)
(***************************************************************************)
EXTENDS Gateway, Translation, Compression, Naming, TLC

VARIABLE part

(* Requests for three keys, of which the cache holds two, one conversation *)
(* and a stream outside of the chat.                                       *)
Req(path, key, conv, stream) == [path |-> path, key |-> key, conv |-> conv, stream |-> stream]
TheAsked ==
  {Req("chat", "k1", "s1", FALSE), Req("chat", "k2", None, FALSE), Req("chat", "k3", None, FALSE),
   Req("chat", "k1", "s1", TRUE), Req("playground", "k1", None, TRUE)}
Symmetry == Permutations(Calls) \cup Permutations(Providers)

(* Conversations: the sequences of a few turns, the pieces, calls and      *)
(* answers numbered by their turn.                                         *)
Piece(i) == ToString(i)
Sequences(S, n) == UNION {[1..k -> S] : k \in 1..n}
LastCall(turns, i, calling) ==
  LET before == {j \in 1..(i - 1) : turns[j] \in calling}
  IN  IF before = {} THEN 0 ELSE CHOOSE j \in before : \A l \in before : l <= j
Sensible(turns, calling, answering) ==
  \A i \in DOMAIN turns : turns[i] \in answering => LastCall(turns, i, calling) # 0

ClaudeTurns == {"user", "text", "text+use", "use", "result", "result+text", "image", "image+text"}
ClaudeMessage(turns, i) ==
  LET call == LastCall(turns, i, {"text+use", "use"})
      turn == turns[i]
  IN  [role |-> IF turn \in {"text", "text+use", "use"} THEN "assistant" ELSE "user",
       blocks |->
         (IF turn \in {"result", "result+text"} THEN <<Result(call, Piece(i))>> ELSE <<>>)
         \o (IF turn \in {"image", "image+text"} THEN <<Other>> ELSE <<>>)
         \o (IF turn \in {"use", "result", "image"} THEN <<>> ELSE <<Text(Piece(i))>>)
         \o (IF turn \in {"text+use", "use"} THEN <<Use(i)>> ELSE <<>>)]
TheClaude ==
  {[format |-> "claude", system |-> system, capped |-> capped, plain |-> FALSE,
    messages |-> [i \in DOMAIN turns |-> ClaudeMessage(turns, i)]] :
      turns \in {x \in Sequences(ClaudeTurns, 4) :
                   Sensible(x, {"text+use", "use"}, {"result", "result+text"})},
      system \in {NoText, <<>>, <<"s">>}, capped \in BOOLEAN}
TheOthers ==
  {[format |-> f, system |-> system, capped |-> f = "claude", plain |-> TRUE,
    messages |-> [i \in DOMAIN roles |->
      [role |-> IF f = "claude" /\ roles[i] = "model" THEN "assistant" ELSE roles[i],
       blocks |-> IF f # "claude" /\ image THEN <<Other, Text(Piece(i))>> ELSE <<Text(Piece(i))>>]]] :
      f \in {"claude", "gemini", "vertex"}, roles \in Sequences({"user", "model"}, 3),
      system \in {NoText, <<>>, <<"s">>}, image \in BOOLEAN}

ChatTurns == {"system", "user", "text", "call", "text+call", "answer"}
ChatMessage(turns, i) ==
  CASE turns[i] = "system" -> Message("system", <<Piece(i)>>)
    [] turns[i] = "user" -> Message("user", <<Piece(i)>>)
    [] turns[i] = "text" -> Message("assistant", <<Piece(i)>>)
    [] turns[i] = "call" -> CallMessage(NoText, <<i>>)
    [] turns[i] = "text+call" -> CallMessage(<<Piece(i)>>, <<i>>)
    [] turns[i] = "answer" -> ToolMessage(LastCall(turns, i, {"call", "text+call"}), Piece(i))
TheChats ==
  {[i \in DOMAIN turns |-> ChatMessage(turns, i)] :
     turns \in {x \in Sequences(ChatTurns, 5) : Sensible(x, {"call", "text+call"}, {"answer"})}}

(* Conversations to compress; a question may be a list of parts. *)
TalkMessage(turns, i) ==
  LET m == ChatMessage([turns EXCEPT ![i] = IF @ = "parts" THEN "user" ELSE @], i)
      listed == turns[i] = "parts"
  IN  [role |-> m.role, text |-> IF listed THEN NoText ELSE m.text,
       parts |-> IF listed THEN m.text ELSE <<>>, calls |-> m.calls, of |-> m.of]
TheTalks ==
  {[i \in DOMAIN turns |-> TalkMessage(turns, i)] :
     turns \in {x \in Sequences(ChatTurns \cup {"parts"}, 5) :
                  Sensible(x, {"call", "text+call"}, {"answer"})}}

TheBodies ==
  TheClaude \cup TheOthers \cup
  {[format |-> "openai", system |-> NoText, capped |-> FALSE, plain |-> TRUE, messages |-> c] :
     c \in {x \in TheChats : Len(x) <= 2} \cup
       {<<Message("assistant", <<>>)>>, <<Message("tool", <<>>)>>, <<Message("developer", <<"1">>)>>}}

TheSchemas ==
  {<<"object">>, <<"array", "integer">>, <<"array", "array", "string">>, <<"null">>}
TheToolsets ==
  {<<[type |-> "function", name |-> "f", schema |-> s], [type |-> k, name |-> "g", schema |-> t],
     [type |-> "function", name |-> "h", schema |-> <<"object">>]>> :
     s \in TheSchemas, t \in TheSchemas, k \in {"function", "other"}}

(* Names: two families, and one model of none of them. *)
TheAliases == <<"gpt", "4">> :> <<"gpt", "big">> @@ <<"best">> :> <<"gem", "big">>
TheFamilies ==
  <<[prefix |-> <<"gem">>, models |-> <<<<"gem", "big">>, <<"gem", "small">>>>],
    [prefix |-> <<"gpt">>, models |-> <<<<"gpt", "big">>>>]>>
TheTiers == <<<<<<"gpt", "big">>, <<"gem", "big">>>>, <<<<"gem", "small">>>>>>
TheModels == {<<"gem", "big">>, <<"gem", "small">>, <<"gpt", "big">>, <<"own", "code">>}
TheCatalogs ==
  {<<>>} \cup {s \in Sequences(TheModels, 3) : IsInjective(s)}
TheWishes ==
  TheModels \cup {<<>>, <<"gem">>, <<"gpt", "4">>, <<"best">>, <<"small">>, <<"code">>, <<"none">>}
TheFast == <<<<"gem", "small">>>>
ThePreferred ==
  "chat" :> <<<<"gpt", "big">>, <<"gem", "big">>>> @@ "fast" :> <<>> @@
  "vision" :> <<<<"gem", "big">>>> @@ "code" :> <<<<"own", "code">>>>
TheKeywords ==
  "chat" :> <<>> @@ "fast" :> <<<<"small">>>> @@ "vision" :> <<>> @@ "code" :> <<<<"code">>>>
TheMeasured ==
  {[m \in TheModels |-> NoName],
   [m \in TheModels |-> IF m = <<"gem", "small">> THEN 200 ELSE 4000],
   [m \in TheModels |-> IF m = <<"gpt", "big">> THEN 100 ELSE NoName]}
TheSees == {<<"gem", "big">>}
TheUses == {<<"gpt", "big">>, <<"gem", "small">>}

(* The inputs of the parts that are not explored are any one. *)
OneChat == <<Message("user", <<"1">>)>>
OneTalk == <<TalkMessage(<<"user">>, 1)>>
OneBody == [format |-> "openai", system |-> NoText, capped |-> FALSE, plain |-> TRUE, messages |-> OneChat]
AllInit ==
  /\ part \in {"gateway", "translation", "tools", "compression", "naming"}
  /\ GatewayInit
  /\ IF part = "translation" THEN TranslationInit
     ELSE body = OneBody /\ status = "new" /\ asOpenAI = <<>>
  /\ IF part = "tools" THEN ToolsInit ELSE tools = <<>> /\ declared = NoText
  /\ IF part = "compression" THEN CompressionInit ELSE chat = OneTalk /\ sent = <<>>
  /\ IF part = "naming" THEN NamingInit
     ELSE wish = <<>> /\ offered = <<>> /\ named = NoName /\ times = [m \in TheModels |-> NoName]
algorithmVars == <<translationVars, toolVars, compressionVars, namingVars>>
AllNext ==
  /\ part' = part
  /\ \/ part = "gateway" /\ GatewayNext /\ UNCHANGED algorithmVars
     \/ /\ part # "gateway" /\ UNCHANGED gatewayVars
        /\ IF part = "translation" THEN TranslationNext ELSE UNCHANGED translationVars
        /\ IF part = "tools" THEN ToolsNext ELSE UNCHANGED toolVars
        /\ IF part = "compression" THEN CompressionNext ELSE UNCHANGED compressionVars
        /\ IF part = "naming" THEN NamingNext ELSE UNCHANGED namingVars
All == AllInit /\ [][AllNext]_<<part, gatewayVars, algorithmVars>>

(* The variables of each part have the types the code gives them. *)
ChatTypeOK == GatewayTypeOK /\ TranslationTypeOK /\ CompressionTypeOK /\ NamingTypeOK
=============================================================================
