----------------------------- MODULE Compression -----------------------------
(***************************************************************************)
(* How the messages of a chat are made fewer before they are routed        *)
(* (token_compressor.py) and how many tokens they are taken for            *)
(* (token_estimator.py).                                                   *)
(*                                                                         *)
(* A message is as in Translation: its text is a sequence of pieces, or    *)
(* NoString when its content is no string, but null or a list, of whose    *)
(* parts the texts are kept.  Whitespace is not modelled, and a piece has  *)
(* PieceLength characters.                                                 *)
(***************************************************************************)
EXTENDS Integers, Sequences, SequencesExt, Lists

CONSTANTS
  Chats,        \* the conversations
  MinMessages,  \* DEFAULT_MIN_MESSAGES_TO_COMPRESS
  KeepRecent,   \* DEFAULT_MAX_CONTEXT_MESSAGES
  PieceLength,  \* the characters of a piece of text
  PreviewLength,  \* the pieces of an old message that its summary keeps
  NoString,     \* a content that is no string: null, or parts
  Summarized    \* "[Earlier conversation summarized]:"

Messages ==
  [role : {"system", "developer", "user", "assistant", "tool", "function"},
   text : Seq(STRING) \cup {NoString}, parts : Seq(STRING), calls : Seq(Nat), of : Nat]

(* Only an assistant calls and only a tool answers; what the system says   *)
(* is a string.                                                            *)
ASSUME CompressionAssumption ==
  /\ {MinMessages, PreviewLength} \subseteq Nat /\ {KeepRecent, PieceLength} \subseteq Nat \ {0}
  /\ NoString \notin Seq(STRING) /\ Summarized \in STRING
  /\ Chats \subseteq Seq(Messages)
  /\ \A c \in Chats : \A m \in ToSet(c) :
       /\ m.calls # <<>> => m.role = "assistant"
       /\ m.of # 0 => m.role = "tool"
       /\ m.role = "system" => m.text # NoString
       /\ m.parts # <<>> => m.text = NoString

VARIABLES
  chat,    \* the conversation
  sent     \* what is routed of it, once it has been compressed

compressionVars == <<chat, sent>>

OfSystem == {m \in Messages : m.role = "system"}
Systems(ms) == Only(ms, OfSystem)
WithoutSystem(ms) == Only(ms, Messages \ OfSystem)
Joined(ms) == FlattenSeq([i \in DOMAIN ms |-> ms[i].text])
SystemMessage(text) == [role |-> "system", text |-> text, parts |-> <<>>, calls |-> <<>>, of |-> 0]

(* _merge_system_messages: one of all the system's texts, at the front; a *)
(* single one stays where it is.                                          *)
SystemsMerged(ms) ==
  LET systems == Systems(ms)
  IN  IF Len(systems) <= 1 THEN ms
      ELSE IF Joined(systems) = <<>> THEN WithoutSystem(ms)
      ELSE <<SystemMessage(Joined(systems))>> \o WithoutSystem(ms)

Alike(m, n) ==
  /\ m.role = n.role /\ m.role \in {"user", "assistant"}
  /\ m.text # NoString /\ n.text # NoString

(* Mutated form of Appended: the later message takes the text of the      *)
(* earlier one, whose calls are lost.                                     *)
AppendedLater(ms, m) ==
  IF ms # <<>> /\ Alike(Last(ms), m) THEN Append(Front(ms), [m EXCEPT !.text = Last(ms).text \o @])
                                     ELSE Append(ms, m)

(* A message of the same role as the one before it goes into that one: its *)
(* text does, its calls do not.                                            *)
Appended(ms, m) ==
  IF ms # <<>> /\ Alike(Last(ms), m) THEN [ms EXCEPT ![Len(ms)].text = @ \o m.text]
                                     ELSE Append(ms, m)

(* _deduplicate_consecutive *)
Deduplicated(ms) ==
  LET merged[i \in 0..Len(ms)] == IF i = 0 THEN <<>> ELSE Appended(merged[i - 1], ms[i])
  IN  merged[Len(ms)]

Preview(text) == SubSeq(text, 1, IF Len(text) < PreviewLength THEN Len(text) ELSE PreviewLength)

RecentOf(ms) == SubSeq(ms, Len(ms) - KeepRecent + 1, Len(ms))
OldOf(ms) == SubSeq(ms, 1, Len(ms) - KeepRecent)

(* _compress_old_messages: the system's messages, a summary of the old    *)
(* ones, the recent ones.                                                 *)
Windowed(ms) ==
  LET talk == WithoutSystem(ms)
      spoken == Only(OldOf(talk), {m \in Messages : m.text # NoString})
      summary == <<Summarized>> \o FlattenSeq([i \in DOMAIN spoken |-> Preview(spoken[i].text)])
  IN  IF Len(talk) <= KeepRecent THEN ms
      ELSE Systems(ms) \o <<SystemMessage(summary)>> \o RecentOf(talk)

(* compress_messages *)
Compressed(ms) ==
  IF Len(ms) < MinMessages THEN ms ELSE Windowed(Deduplicated(SystemsMerged(ms)))

(* Of a content that is a list, the texts of its parts count. *)
Characters ==
  [m \in Messages |-> Len(IF m.text = NoString THEN m.parts ELSE m.text) * PieceLength]

(* estimate_tokens: four characters are a token; each message counts too. *)
EstimatedTokens(ms) ==
  LET characters == SumOver(ms, Characters)
  IN  (IF characters = 0 THEN 0 ELSE IF characters < 4 THEN 1 ELSE characters \div 4)
      + 4 * Len(ms)

CompressionInit == chat \in Chats /\ sent = <<>>

Compress == sent = <<>> /\ sent' = Compressed(chat) /\ UNCHANGED chat

CompressionNext == Compress

CompressionSpec == CompressionInit /\ [][CompressionNext]_compressionVars
-----------------------------------------------------------------------------
(***************************************************************************)
(* Properties, of what is sent.                                            *)
(***************************************************************************)

(* What is sent is a conversation, in which nobody speaks twice in a row   *)
(* unless a message of the system stood between (_deduplicate_consecutive, *)
(* _compress_old_messages).                                                *)
CompressionTypeOK ==
  /\ \A i \in DOMAIN sent :
       /\ sent[i].role \in {"system"} \cup {m.role : m \in ToSet(chat)}
       /\ sent[i].text = NoString \/ sent[i].text \in Seq(STRING)
  /\ Len(chat) >= MinMessages /\ Len(Systems(chat)) # 1 =>
       \A i \in 2..Len(sent) : ~Alike(sent[i - 1], sent[i])

(* However long a conversation is, what is sent of it is bounded, and its  *)
(* last message ends it (_compress_old_messages).                          *)
WindowIsBounded ==
  sent # <<>> /\ Len(chat) >= MinMessages =>
    /\ Len(WithoutSystem(sent)) <= KeepRecent
    /\ Len(Systems(sent)) <= 2
    /\ LET talk == WithoutSystem(chat)
       IN  talk # <<>> /\ Last(talk).text # NoString =>
             IsSuffix(Last(talk).text, Last(WithoutSystem(sent)).text)

(* Every answer to a call comes after it; a call whose message is merged.  *)
Follows(id, ms) ==
  \A i \in DOMAIN ms : ms[i].of = id => \E j \in 1..(i - 1) : id \in ToSet(ms[j].calls)
Merged(id, ms) == \E i \in 2..Len(ms) : Alike(ms[i - 1], ms[i]) /\ id \in ToSet(ms[i].calls)

(* The answers to a call follow it if they do in the conversation, unless  *)
(* the call was summarized, or its message was merged into one before it   *)
(* and lost its calls.                                                     *)
AnswersFollowCalls ==
  LET before == SystemsMerged(chat)
      summarized == Len(WithoutSystem(before)) > KeepRecent
  IN  \A id \in {m.of : m \in ToSet(sent)} \ {0} :
        Follows(id, chat) /\ ~Merged(id, before) /\ ~summarized => Follows(id, sent)

HasText(m) == m.text \notin {NoString, <<>>} \/ m.parts # <<>>

(* The estimate of a conversation grows with each message, and counts any  *)
(* text, a part's too, for something (estimate_tokens: ">= 1 if any        *)
(* content exists").                                                       *)
EstimatesGrow ==
  /\ \A i \in DOMAIN chat :
       EstimatedTokens(SubSeq(chat, 1, i)) >= EstimatedTokens(SubSeq(chat, 1, i - 1)) + 4
  /\ (\E i \in DOMAIN chat : HasText(chat[i])) =>
       EstimatedTokens(chat) > 4 * Len(chat)

(* What is sent makes sense to the provider, fits its window and is        *)
(* accounted for (compress_messages, estimate_tokens).                     *)
CompressionIsSound == AnswersFollowCalls /\ WindowIsBounded /\ EstimatesGrow
=============================================================================
