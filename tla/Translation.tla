----------------------------- MODULE Translation -----------------------------
(***************************************************************************)
(* How a chat request is checked and brought into the OpenAI format: the   *)
(* validation of main.py, format_translator.py and tool_call_translator.py.*)
(*                                                                         *)
(* A text is the sequence of its pieces, so that joining texts is to       *)
(* concatenate them; calls and their answers have ids.  In Claude's format *)
(* a message has blocks, or a string; in OpenAI's a text (NoText for null),*)
(* the ids of its calls and, of a tool's message, the id it answers.       *)
(* Of Gemini's messages the texts count; Vertex wraps a Gemini body.       *)
(***************************************************************************)
EXTENDS Naturals, Sequences, SequencesExt, Lists

CONSTANTS
  Bodies,      \* the requests: [format, system, capped, plain, messages]; NoText for no
               \* system prompt, <<>> for one without text; capped: max_tokens is given
  Toolsets,    \* the tools of requests: [type, name, schema]; a schema is a type,
               \* then that of its items
  NoText       \* null

VARIABLES
  body,      \* the request
  status,    \* "new", then what has become of it
  asOpenAI,  \* the messages in OpenAI's format
  tools,     \* tools that are translated (/api/translate-tools)
  declared   \* what becomes of them

translationVars == <<body, status, asOpenAI>>
toolVars == <<tools, declared>>

Text(p) == [kind |-> "text", is |-> p]
Use(i) == [kind |-> "tool_use", is |-> i]
Result(i, p) == [kind |-> "tool_result", is |-> i, says |-> p]
Other == [kind |-> "other"]     \* an image, a document, a thought

TextBlocks == [kind : {"text"}, is : STRING]
CallBlocks == [kind : {"tool_use"}, is : Nat \ {0}]
AnswerBlocks == [kind : {"tool_result"}, is : Nat \ {0}, says : STRING]
Blocks == TextBlocks \cup CallBlocks \cup AnswerBlocks \cup {Other}
Said(roles) == [role : roles, blocks : Seq(Blocks)]
OpenAIMessages ==
  [role : {"system", "user", "assistant", "tool"}, text : Seq(STRING) \cup {NoText},
   calls : Seq(Nat \ {0}), of : Nat]
Tools == [type : STRING, name : STRING, schema : Seq(STRING)]
Functions == {t \in Tools : t.type = "function"}

(* Claude's messages are of two roles, only its assistant uses tools and   *)
(* only the user brings results; Gemini's are the user's or the model's,   *)
(* and its limit of tokens is not named max_tokens.                        *)
ASSUME TranslationAssumption ==
  /\ NoText \notin Seq(STRING) /\ NoText \notin STRING /\ Toolsets \subseteq Seq(Tools)
  /\ \A b \in Bodies :
       /\ b \in [format : {"openai", "claude", "gemini", "vertex"},
                 system : Seq(STRING) \cup {NoText}, capped : BOOLEAN,
                 plain : BOOLEAN, messages : {b.messages}]
       /\ b.format = "claude" =>
            /\ b.messages \in Seq(Said({"user", "assistant"}))
            /\ \A m \in ToSet(b.messages) :
                 /\ b.plain => ToSet(m.blocks) \subseteq TextBlocks
                 /\ ToSet(m.blocks) \cap CallBlocks # {} => m.role = "assistant"
                 /\ ToSet(m.blocks) \cap AnswerBlocks # {} => m.role = "user"
       /\ b.format \in {"gemini", "vertex"} =>
            ~b.capped /\ b.messages \in Seq(Said({"user", "model"}))

(* A message of OpenAI's format. *)
Message(role, text) == [role |-> role, text |-> text, calls |-> <<>>, of |-> 0]
CallMessage(text, ids) == [Message("assistant", text) EXCEPT !.calls = ids]
ToolMessage(i, p) == [Message("tool", <<p>>) EXCEPT !.of = i]

Is(blocks) == [i \in DOMAIN blocks |-> blocks[i].is]

(* Mutated form of FromClaudeMessage: calls are taken of text as well. *)
FromClaudeMessageFew(m) ==
  LET texts == Is(Only(m.blocks, TextBlocks))
      uses == Is(Only(m.blocks, CallBlocks))
      results == Only(m.blocks, AnswerBlocks)
  IN  IF texts # <<>> THEN <<Message(m.role, texts)>>
      ELSE IF uses # <<>> THEN <<CallMessage(NoText, uses)>>
      ELSE [i \in DOMAIN results |-> ToolMessage(results[i].is, results[i].says)]

(* A message of Claude's: its text, then its calls with the text again,   *)
(* then the answers it brings.                                            *)
FromClaudeMessage(m) ==
  LET texts == Is(Only(m.blocks, TextBlocks))
      uses == Is(Only(m.blocks, CallBlocks))
      results == Only(m.blocks, AnswerBlocks)
  IN  (IF texts # <<>> THEN <<Message(m.role, texts)>> ELSE <<>>)
      \o (IF uses # <<>> /\ m.role = "assistant"
            THEN <<CallMessage(IF texts # <<>> THEN texts ELSE NoText, uses)>> ELSE <<>>)
      \o [i \in DOMAIN results |-> ToolMessage(results[i].is, results[i].says)]

(* The text of a system prompt, and the message it becomes. *)
Prompt(b) == IF b.system = <<>> THEN NoText ELSE b.system
Opening(b) == IF Prompt(b) = NoText THEN <<>> ELSE <<Message("system", Prompt(b))>>

(* _claude_to_openai *)
FromClaude(b) ==
  Opening(b)
  \o FlattenSeq([i \in DOMAIN b.messages |->
       IF b.plain THEN <<Message(b.messages[i].role, Is(Only(b.messages[i].blocks, TextBlocks)))>>
                  ELSE FromClaudeMessage(b.messages[i])])

(* A message for Claude: calls are blocks after the text, an answer is a  *)
(* message of the user.                                                   *)
ToClaudeMessage(m) ==
  [role |-> IF m.role = "tool" THEN "user" ELSE m.role,
   blocks |-> IF m.role = "tool" THEN <<Result(m.of, m.text[1])>>
              ELSE (IF m.text = NoText THEN <<>> ELSE [i \in DOMAIN m.text |-> Text(m.text[i])])
                   \o [i \in DOMAIN m.calls |-> Use(m.calls[i])]]

SystemsOf(ms) == Only(ms, {m \in OpenAIMessages : m.role = "system"})
OthersOf(ms) == Only(ms, {m \in OpenAIMessages : m.role # "system"})

(* _openai_to_claude: the systems' texts are one; a limit of tokens is set *)
(* where there is none.                                                    *)
ToClaude(ms) ==
  LET system == FlattenSeq([i \in DOMAIN SystemsOf(ms) |-> SystemsOf(ms)[i].text])
  IN  [format |-> "claude", plain |-> FALSE, capped |-> TRUE,
       system |-> IF system = <<>> THEN NoText ELSE system,
       messages |-> [i \in DOMAIN OthersOf(ms) |-> ToClaudeMessage(OthersOf(ms)[i])]]

(* _gemini_to_openai and _vertex_to_openai: the model is the assistant;   *)
(* parts that are no texts are passed over, and so is a message without.  *)
FromGeminiMessage(m) ==
  LET texts == Is(Only(m.blocks, TextBlocks))
  IN  IF texts = <<>> THEN <<>>
      ELSE <<Message(IF m.role = "model" THEN "assistant" ELSE "user", texts)>>

FromGemini(b) ==
  Opening(b) \o FlattenSeq([i \in DOMAIN b.messages |-> FromGeminiMessage(b.messages[i])])

(* _openai_to_gemini, of messages without calls: the last of the system   *)
(* messages counts.                                                       *)
ToGemini(ms) ==
  [format |-> "gemini", plain |-> FALSE, capped |-> FALSE,
   system |-> IF SystemsOf(ms) = <<>> THEN NoText ELSE Last(SystemsOf(ms)).text,
   messages |-> [i \in DOMAIN OthersOf(ms) |->
     [role |-> IF OthersOf(ms)[i].role = "assistant" THEN "model" ELSE "user",
      blocks |-> [j \in DOMAIN OthersOf(ms)[i].text |-> Text(OthersOf(ms)[i].text[j])]]]]

(* detect_format: Claude's has a system prompt, an empty one too, beside   *)
(* max_tokens; Gemini's has its contents, Vertex's its instances.          *)
Detected(b) ==
  IF b.format = "claude" /\ (b.system = NoText \/ ~b.capped) THEN "openai" ELSE b.format

(* translate_to_openai *)
Translated(b) ==
  CASE Detected(b) = "openai" -> b.messages
    [] Detected(b) = "claude" -> FromClaude(b)
    [] Detected(b) \in {"gemini", "vertex"} -> FromGemini(b)

(* ChatCompletionRequest, which is asked before the format is: there are  *)
(* messages, of known roles; one of the assistant has a string or OpenAI's *)
(* calls, one of a tool the id it answers.                                *)
WellFormed(b) ==
  /\ b.format \in {"openai", "claude"} /\ b.messages # <<>>
  /\ \A i \in DOMAIN b.messages : b.messages[i].role \in {"system", "user", "assistant", "tool"}
  /\ \A i \in DOMAIN b.messages :
       LET m == b.messages[i]
       IN  IF b.format = "claude" THEN m.role = "assistant" => b.plain /\ m.blocks # <<>>
           ELSE /\ m.role = "assistant" => m.text \notin {NoText, <<>>} \/ m.calls # <<>>
                /\ m.role = "tool" => m.of # 0

(* The detail of the 400 takes every error for a pair, which it is not:   *)
(* the handler raises instead.                                            *)
Refused == "server error"

TranslationInit == body \in Bodies /\ status = "new" /\ asOpenAI = <<>>

(* A chat; the playground does not ask for the shape. *)
Receive(checked) ==
  /\ status = "new"
  /\ IF checked /\ ~WellFormed(body)
       THEN status' = Refused /\ UNCHANGED asOpenAI
       ELSE /\ status' = IF checked THEN "accepted" ELSE "translated"
            /\ asOpenAI' = Translated(body)
  /\ UNCHANGED body

TranslationNext == \E checked \in BOOLEAN : Receive(checked)

TranslationSpec == TranslationInit /\ [][TranslationNext]_translationVars

-----------------------------------------------------------------------------
(***************************************************************************)
(* Tools: the types of OpenAI's schemas and of Gemini's.                   *)
(***************************************************************************)
TypePairs ==
  {<<"string", "STRING">>, <<"number", "NUMBER">>, <<"integer", "INTEGER">>,
   <<"boolean", "BOOLEAN">>, <<"object", "OBJECT">>, <<"array", "ARRAY">>}

(* _json_type_to_gemini and _gemini_type_to_json *)
GeminiType(t) ==
  IF \E x \in TypePairs : x[1] = t THEN (CHOOSE x \in TypePairs : x[1] = t)[2] ELSE "STRING"
JsonType(t) ==
  IF \E x \in TypePairs : x[2] = t THEN (CHOOSE x \in TypePairs : x[2] = t)[1] ELSE "string"

(* _convert_schema_to_gemini and _convert_schema_to_openai, to the items. *)
SchemaToGemini(s) == [i \in DOMAIN s |-> GeminiType(s[i])]
SchemaToOpenAI(s) == [i \in DOMAIN s |-> JsonType(s[i])]

(* openai_tools_to_gemini: all functions are declarations of one tool;    *)
(* tools that are no functions are passed over.                           *)
Declared(ts) ==
  LET functions == Only(ts, Functions)
  IN  IF functions = <<>> THEN <<>>
      ELSE <<[i \in DOMAIN functions |->
                [name |-> functions[i].name, schema |-> SchemaToGemini(functions[i].schema)]]>>

(* gemini_tools_to_openai *)
Restored(ds) ==
  FlattenSeq([k \in DOMAIN ds |->
    [i \in DOMAIN ds[k] |->
       [type |-> "function", name |-> ds[k][i].name, schema |-> SchemaToOpenAI(ds[k][i].schema)]]])

(* _openai_to_claude: the functions, without their type.                  *)
ToClaudeTools(ts) ==
  LET functions == Only(ts, Functions)
  IN  [i \in DOMAIN functions |-> [functions[i] EXCEPT !.type = NoText]]

(* _claude_to_openai: what is custom or has a name is a function.         *)
ClaudeTools ==
  {t \in [type : STRING \cup {NoText}, name : STRING \cup {NoText}, schema : Seq(STRING)] :
     t.type = "custom" \/ t.name # NoText}
FromClaudeTools(ts) ==
  LET kept == Only(ts, ClaudeTools)
  IN  [i \in DOMAIN kept |->
         [type |-> "function", name |-> IF kept[i].name = NoText THEN "" ELSE kept[i].name,
          schema |-> kept[i].schema]]

ToolsInit == tools \in Toolsets /\ declared = NoText

(* prepare_tools_for_provider, for google_gemini and for any other. *)
Prepare(gemini) ==
  /\ declared = NoText
  /\ declared' = [gemini |-> gemini, tools |-> IF gemini THEN Declared(tools) ELSE tools]
  /\ UNCHANGED tools

ToolsNext == \E gemini \in BOOLEAN : Prepare(gemini)

ToolsSpec == ToolsInit /\ [][ToolsNext]_toolVars
-----------------------------------------------------------------------------
(***************************************************************************)
(* Properties.                                                             *)
(***************************************************************************)

Translates == status \in {"accepted", "translated"}
Contents(b) == FlattenSeq([i \in DOMAIN b.messages |-> b.messages[i].blocks])
OfKind(bs, kind) == Is(Only(bs, kind))
CallsOf(ms) == FlattenSeq([i \in DOMAIN ms |-> ms[i].calls])
AnswersOf(ms) ==
  LET answers == Only(ms, {m \in OpenAIMessages : m.of # 0}) IN [i \in DOMAIN answers |-> answers[i].of]

(* The types; an accepted request has the shape ChatCompletionRequest asks *)
(* for.                                                                    *)
TranslationTypeOK ==
  /\ status \in {"new", "accepted", "translated", Refused}
  /\ \A i \in DOMAIN asOpenAI :
       Detected(body) # "openai" => asOpenAI[i].role \in {"system", "user", "assistant", "tool"}
  /\ status = "accepted" => WellFormed(body)

(* Translating Claude's blocks loses no call and no answer, and keeps      *)
(* their order (_claude_to_openai).                                        *)
CallsAreKept ==
  Translates /\ Detected(body) = "claude" /\ ~body.plain =>
    /\ CallsOf(asOpenAI) = OfKind(Contents(body), CallBlocks)
    /\ AnswersOf(asOpenAI) = OfKind(Contents(body), AnswerBlocks)

(* What is translated to OpenAI's format and back is what it was, but for a *)
(* system prompt without text: Claude's where a message has one text, call *)
(* or answer, or texts alone, or calls alone (a text beside calls would be *)
(* there twice, two answers are two messages), Gemini's where a message    *)
(* has texts alone.                                                        *)
RoundTrip ==
  Translates /\ Detected(body) # "openai" =>
    LET texts(m) == m.blocks # <<>> /\ ToSet(m.blocks) \subseteq TextBlocks
        calls(m) == m.blocks # <<>> /\ ToSet(m.blocks) \subseteq CallBlocks
        answer(m) == Len(m.blocks) = 1 /\ ToSet(m.blocks) \subseteq AnswerBlocks
        same == [body EXCEPT !.plain = FALSE, !.system = Prompt(body)]
    IN  IF Detected(body) = "claude"
        THEN (\A m \in ToSet(body.messages) : texts(m) \/ calls(m) \/ answer(m))
               => ToClaude(asOpenAI) = same
        ELSE (\A m \in ToSet(body.messages) : texts(m))
               => ToGemini(asOpenAI) = [same EXCEPT !.format = "gemini"]

(* Functions that go to Gemini's format and back are the same, in their    *)
(* order, where their types are the six both know                          *)
(* (tests/test_tool_call_translator.py: test_roundtrip), and so are those  *)
(* that go to Claude's and back, of whatever types.                        *)
ToolsRoundTrip ==
  LET functions == Only(tools, Functions)
      known(t) == \A i \in DOMAIN t.schema : \E y \in TypePairs : y[1] = t.schema[i]
  IN  /\ FromClaudeTools(ToClaudeTools(tools)) = functions
      /\ declared # NoText /\ declared.gemini =>
           /\ Len(declared.tools) <= 1
           /\ (\A i \in DOMAIN functions : known(functions[i]))
                => Restored(declared.tools) = functions

(* A request means the same to whoever speaks the other format: its calls  *)
(* and answers, its texts, its tools (format_translator.py,                *)
(* tool_call_translator.py).                                               *)
FormatsAgree == CallsAreKept /\ RoundTrip /\ ToolsRoundTrip
=============================================================================
