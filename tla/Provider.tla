------------------------------ MODULE Provider ------------------------------
(***************************************************************************)
(* One request of an OpenAI-compatible provider: the messages it is made   *)
(* of (_openai_messages), the attempts to send it and what is told of them *)
(* (_stream), and the answer's chunks: text, thoughts, and tool calls in   *)
(* fragments, told as they come and put together in a message at the end.  *)
(*                                                                         *)
(* Some servers mark their thoughts in the text.  A marker may be cut by   *)
(* chunks anywhere; here markers are three characters long, "<t>" and      *)
(* "</>", and "t" stands for every other character too.                    *)
(***************************************************************************)
EXTENDS Integers, FiniteSets, SequencesExt

CONSTANTS
    MaxRetries,     \* options.max_retries
    MaxSource,      \* bound: messages of a conversation
    MaxChunk,       \* bound: characters of a chunk
    MaxContent,     \* bound: characters of an answer
    MaxPieces,      \* bound: chunks of an answer without markers
    None

VARIABLES
    source, vision,     \* the conversation, and whether the model sees
    tags, naming,       \* the server: whether it marks thoughts; when it names a call
    phase, attempt, retrying,
    notices,            \* the retries that were told
    open,               \* whether a response is
    content,            \* the characters that came
    buffer, thinking,   \* _InlineReasoningParser
    told,               \* the deltas
    parts, calls,       \* what the message is put together from
    saw, finish, message,
    pieces              \* bound: how many there were

sendVars == <<phase, attempt, retrying, notices, open>>
streamVars == <<content, buffer, thinking, told, parts, calls, saw, finish, message, pieces>>
providerVars == <<source, vision, tags, naming, sendVars, streamVars>>

Kinds == {"user", "answer", "calls", "result", "picture"}
Chars == {"<", "t", "/", ">"}
Phases == {"ready", "sent", "backoff", "start", "streaming", "ended", "done", "error", "raised",
           "left", "abandoned"}
Finishes == {None, "stop", "tool_calls", "length", "content_filter"}

Init ==
    /\ source \in SeqOf(Kinds, MaxSource) /\ vision \in BOOLEAN
    /\ tags \in BOOLEAN /\ naming \in {"first", "each", "never"} /\ (tags => naming = "first")
    /\ phase = "ready" /\ attempt = 0 /\ retrying = FALSE /\ notices = <<>> /\ open = FALSE
    /\ content = <<>> /\ buffer = <<>> /\ thinking = FALSE /\ told = <<>>
    /\ parts = [text |-> <<>>, thinking |-> <<>>] /\ calls = <<>>
    /\ saw = FALSE /\ finish = None /\ message = None /\ pieces = 0

----------------------------------------------------------------------------
(* The conversation: _openai_messages.                                     *)

IsResult(s, i) == i \in DOMAIN s /\ s[i] \in {"result", "picture"}

Roles == [user |-> "user", answer |-> "assistant", calls |-> "assistant",
          result |-> "tool", picture |-> "tool"]

\* Slip: the pictures of a result follow it at once.
BatchEndsAnywhere(s, i) == IsResult(s, i)

BatchEnds(s, i) == IsResult(s, i) /\ ~IsResult(s, i + 1)

\* The pictures of the results up to i that were not observed yet.
Pictures(s, i) ==
    LET first == SelectLastInSubSeq([j \in DOMAIN s |-> j], 1, i - 1,
                                    LAMBDA j : ~IsResult(s, j) \/ BatchEnds(s, j)) + 1
    IN  SelectSeq([k \in 1 .. i - first + 1 |-> first + k - 1], LAMBDA j : s[j] = "picture")

\* A batch of results, and then one message with what they show.
OpenAIMessages(s) ==
    FlattenSeq([i \in DOMAIN s |->
        <<[role |-> Roles[s[i]], of |-> <<i>>]>>
        \o IF BatchEnds(s, i) /\ vision /\ Pictures(s, i) # <<>>
           THEN <<[role |-> "observation", of |-> Pictures(s, i)]>> ELSE <<>>])

----------------------------------------------------------------------------
(* The attempts.                                                           *)

Notified(stage) == notices' = Append(notices, stage)

Send ==
    /\ phase = "ready" /\ source = <<>> /\ ~vision /\ phase' = "sent"
    /\ UNCHANGED <<source, vision, tags, naming, attempt, retrying, notices, open, streamVars>>

\* Slip: only starts are told.
NoEnd(stage) == UNCHANGED notices

\* The end of the retries, if there were any.
TellEnd(stage) == IF retrying THEN Notified(stage) ELSE UNCHANGED notices

Responds ==
    /\ phase = "sent" /\ phase' = "start" /\ open' = TRUE /\ TellEnd("end")
    /\ UNCHANGED <<source, vision, tags, naming, attempt, retrying, streamVars>>

\* A status that is refused, or no connection; the body is read, the response
\* closed.
Refused(retryable) ==
    /\ phase = "sent" /\ (~retryable \/ attempt >= MaxRetries)
    /\ phase' = "raised" /\ TellEnd("end")
    /\ UNCHANGED <<source, vision, tags, naming, attempt, retrying, open, streamVars>>

Retries ==
    /\ phase = "sent" /\ attempt < MaxRetries
    /\ phase' = "backoff" /\ Notified("start") /\ retrying' = TRUE
    /\ UNCHANGED <<source, vision, tags, naming, attempt, open, streamVars>>

SendAgain ==
    /\ phase = "backoff" /\ phase' = "sent" /\ attempt' = attempt + 1
    /\ UNCHANGED <<source, vision, tags, naming, retrying, notices, open, streamVars>>

\* The caller is cancelled, or stops listening.
Leaves ==
    /\ phase \in {"sent", "backoff", "streaming"} /\ phase' = "left" /\ open' = FALSE
    /\ UNCHANGED <<source, vision, tags, naming, attempt, retrying, notices, streamVars>>

\* The first event is yielded outside the try statement that closes.
Abandons ==
    /\ phase = "start" /\ phase' = "abandoned"
    /\ UNCHANGED <<source, vision, tags, naming, attempt, retrying, notices, open, streamVars>>

Listens ==
    /\ phase = "start" /\ phase' = "streaming"
    /\ UNCHANGED <<source, vision, tags, naming, attempt, retrying, notices, open, streamVars>>

----------------------------------------------------------------------------
(* Thoughts in the text: _InlineReasoningParser.                           *)

Marker(mode) == IF mode THEN <<"<", "/", ">">> ELSE <<"<", "t", ">">>

Pieces(chars, mode) ==
    IF chars = <<>> THEN <<>>
    ELSE <<[kind |-> IF mode THEN "thinking" ELSE "text", chars |-> chars]>>

\* Slip: only one character is held back.
HoldOne(b, mode) == IF IsSuffix(<<"<">>, b) THEN 1 ELSE 0

\* _partial_marker_suffix: how much of the end may begin a marker.
PartialMarkerSuffix(b, mode) ==
    LET begins == {n \in 1 .. Len(Marker(mode)) - 1 :
                      n <= Len(b) /\ IsSuffix(SubSeq(Marker(mode), 1, n), b)}
    IN  IF begins = {} THEN 0 ELSE CHOOSE n \in begins : \A k \in begins : k <= n

Found(b, mode) ==
    {i \in DOMAIN b : IsPrefix(Marker(mode), SubSeq(b, i, Len(b)))}

Feed ==
    LET feed[b \in Seq(Chars), mode \in BOOLEAN] ==
            LET here == Found(b, mode)
                i == CHOOSE k \in here : \A j \in here : k <= j
                rest == feed[SubSeq(b, i + Len(Marker(mode)), Len(b)), ~mode]
                kept == Len(b) - PartialMarkerSuffix(b, mode)
            IN  IF here = {}
                THEN [out |-> Pieces(SubSeq(b, 1, kept), mode), mode |-> mode,
                      buffer |-> SubSeq(b, kept + 1, Len(b))]
                ELSE [rest EXCEPT !.out = Pieces(SubSeq(b, 1, i - 1), mode) \o @]
    IN  feed

\* Every piece is told, and is part of the message.  Pieces of a kind that
\* follow each other are kept as one.
Tell(out) ==
    LET add(p, piece) == [p EXCEPT ![piece.kind] = @ \o piece.chars]
        join(t, piece) ==
            IF t # <<>> /\ Last(t).kind = piece.kind
            THEN [t EXCEPT ![Len(t)].chars = @ \o piece.chars] ELSE Append(t, piece)
    IN  told' = FoldLeft(join, told, out) /\ parts' = FoldLeft(add, parts, out)

Room == phase = "streaming" /\ ~tags /\ pieces < MaxPieces /\ pieces' = pieces + 1

----------------------------------------------------------------------------
(* The chunks.                                                             *)

\* Text of a server that marks its thoughts (bound: at the first attempt).
Content(chars) ==
    /\ phase = "streaming" /\ tags /\ Len(content) + Len(chars) <= MaxContent /\ attempt = 0
    /\ content' = content \o chars /\ saw' = TRUE
    /\ LET f == Feed[buffer \o chars, thinking]
       IN  buffer' = f.buffer /\ thinking' = f.mode /\ Tell(f.out)
    /\ UNCHANGED <<source, vision, tags, naming, sendVars, calls, finish, message, pieces>>

Text ==
    /\ Room /\ Tell(Pieces(<<"t">>, FALSE)) /\ saw' = TRUE
    /\ UNCHANGED <<source, vision, tags, naming, sendVars, content, buffer, thinking, calls, finish,
                   message>>

\* Thoughts that have a field of their own.
Reasoning ==
    /\ Room /\ Tell(Pieces(<<"t">>, TRUE)) /\ saw' = TRUE
    /\ UNCHANGED <<source, vision, tags, naming, sendVars, content, buffer, thinking, calls, finish,
                   message>>

\* A call's name: as many copies of it as came.
Names(known) ==
    CASE naming = "first" -> IF known = None THEN 1 ELSE 0
      [] naming = "each" -> 1
      [] naming = "never" -> 0

\* Slip: the last fragment is the call.
FragmentOnly(call, name) == [id |-> call.id + name, size |-> 1]

Fragment(call, name) == [id |-> call.id + name, size |-> call.size + 1]

CallChunk(index) ==
    LET known == SelectInSeq(calls, LAMBDA c : c.index = index)
        call == IF known = 0 THEN [id |-> 0, size |-> 0] ELSE calls[known].call
        more == Fragment(call, Names(IF known = 0 THEN None ELSE known))
    IN  /\ Room
        /\ calls' = IF known = 0 THEN Append(calls, [index |-> index, call |-> more])
                    ELSE [calls EXCEPT ![known].call = more]
        /\ told' = Append(told, [kind |-> "call", index |-> index, id |-> more.id])
        /\ saw' = TRUE
        /\ UNCHANGED <<source, vision, tags, naming, sendVars, content, buffer, thinking, parts,
                       finish, message>>

\* What ends an answer may come with its usage after it, or without anything.
Finishes_(reason) ==
    /\ phase = "streaming" /\ finish = None /\ finish' = reason /\ saw' = TRUE
    /\ tags => reason = "stop"
    /\ UNCHANGED <<source, vision, tags, naming, sendVars, content, buffer, thinking, told, parts,
                   calls, message, pieces>>

\* A chunk without choices: usage.
Usage ==
    /\ phase = "streaming" /\ ~saw /\ saw' = TRUE
    /\ UNCHANGED <<source, vision, tags, naming, sendVars, content, buffer, thinking, told, parts,
                   calls, finish, message, pieces>>

\* Slip: the response is closed after the last line only.
BreaksOpen ==
    /\ phase = "streaming" /\ phase' = "raised"
    /\ UNCHANGED <<source, vision, tags, naming, attempt, retrying, notices, open, streamVars>>

\* An error in the stream, a chunk that is none, a lost connection.
Breaks ==
    /\ phase = "streaming" /\ phase' = "raised" /\ open' = FALSE
    /\ UNCHANGED <<source, vision, tags, naming, attempt, retrying, notices, streamVars>>

Flushed == Pieces(buffer, thinking)

\* The last line: what is held back is told, the response closed.
LinesEnd ==
    /\ phase = "streaming" /\ phase' = "ended" /\ open' = FALSE
    /\ Tell(Flushed) /\ buffer' = <<>>
    /\ UNCHANGED <<source, vision, tags, naming, attempt, retrying, notices, content, thinking,
                   calls, saw, finish, message, pieces>>

\* The calls in the order of their numbers; without a name they get a new one.
Ordered ==
    LET sorted == SortSeq(calls, LAMBDA c, d : c.index < d.index)
    IN  [k \in DOMAIN sorted |-> [index |-> sorted[k].index, size |-> sorted[k].call.size,
             id |-> IF sorted[k].call.id = 0 THEN None ELSE sorted[k].call.id]]

Ends ==
    /\ phase = "ended"
    /\ \/ (~saw \/ finish = None) /\ phase' = "raised" /\ UNCHANGED message
       \/ saw /\ finish = "content_filter" /\ phase' = "error" /\ UNCHANGED message
       \/ /\ saw /\ finish \in {"stop", "tool_calls", "length"} /\ phase' = "done"
          /\ message' = [text |-> parts.text, thinking |-> parts.thinking, calls |-> Ordered]
    /\ UNCHANGED <<source, vision, tags, naming, attempt, retrying, notices, open, content, buffer,
                   thinking, told, parts, calls, saw, finish, pieces>>

----------------------------------------------------------------------------
Next ==
    \/ Send \/ Responds \/ (\E retryable \in BOOLEAN : Refused(retryable)) \/ Retries \/ SendAgain
    \/ Leaves \/ Abandons \/ Listens
    \/ \E chars \in SeqOf(Chars, MaxChunk) \ {<<>>} : Content(chars)
    \/ Text \/ Reasoning \/ (\E index \in 1 .. 2 : CallChunk(index))
    \/ \E reason \in Finishes \ {None} : Finishes_(reason)
    \/ Usage \/ Breaks \/ LinesEnd \/ Ends

Spec == Init /\ [][Next]_providerVars

----------------------------------------------------------------------------
TypeOK ==
    /\ phase \in Phases /\ attempt \in 0 .. MaxRetries /\ retrying \in BOOLEAN
    /\ notices \in Seq({"start", "end"}) /\ open \in BOOLEAN
    /\ content \in Seq(Chars) /\ buffer \in Seq(Chars) /\ Len(buffer) < 3 /\ thinking \in BOOLEAN
    /\ \A k \in DOMAIN told : told[k].kind \in {"text", "thinking", "call"}
    /\ finish \in Finishes /\ saw \in BOOLEAN /\ (message # None <=> phase = "done")

\* What a conversation becomes: its messages in their order; a message that
\* shows the pictures of a whole batch of results comes after the batch and
\* never between a call and one of its results; no picture is lost.
BatchesWhole ==
    LET out == OpenAIMessages(source)
        pictures(i) == \E k \in DOMAIN out : out[k].role = "observation" /\ i \in ToSet(out[k].of)
    IN  phase = "ready" =>
        /\ FlattenSeq([k \in DOMAIN out |-> IF out[k].role = "observation" THEN <<>> ELSE out[k].of])
               = [i \in DOMAIN source |-> i]
        /\ \A k \in DOMAIN out : out[k].role = "tool" =>
               \A i \in out[k].of[1] .. out[k].of[1] :
                   IsResult(source, i - 1) => k > 1 /\ out[k - 1].role = "tool"
        /\ vision => \A i \in DOMAIN source : source[i] = "picture" => pictures(i)

\* Every retry that is told begins with a start, and the last is followed by
\* one end, whatever the retries came to, unless the caller leaves.
RetriesPaired ==
    phase \in {"start", "streaming", "ended", "done", "error", "raised"} =>
        \/ notices = <<>>
        \/ \E n \in 1 .. MaxRetries : notices = [k \in 1 .. n + 1 |-> IF k = n + 1 THEN "end" ELSE "start"]

\* No response stays open, but that of a caller who leaves on the very first
\* event.
ResponsesClosed == open => phase \in {"start", "streaming", "abandoned"}

\* The mode before each character of a whole answer, without chunks.
Modes(s) ==
    LET mode[i \in 1 .. Len(s) + 1] ==
            IF i > 3 /\ SubSeq(s, i - 3, i - 1) = Marker(mode[i - 3]) THEN ~mode[i - 3]
            ELSE IF i = 1 THEN FALSE ELSE mode[i - 1]
    IN  mode

\* The characters of one kind, without the markers.
OfKind(s, isThinking) ==
    LET marked(i) == \E j \in 1 .. Len(s) - 2 :
                         i \in j .. j + 2 /\ SubSeq(s, j, j + 2) = Marker(Modes(s)[j])
        plain == SelectSeq([i \in DOMAIN s |-> i],
                           LAMBDA i : ~marked(i) /\ Modes(s)[i] = isThinking)
    IN  [k \in DOMAIN plain |-> s[plain[k]]]

ToldOf(kind) ==
    FlattenSeq([k \in DOMAIN told |-> IF told[k].kind = kind THEN told[k].chars ELSE <<>>])

\* Thoughts are told from text the same way however the answer is cut into
\* chunks, also in the middle of a marker: as if it had come as a whole.
ChunksDoNotMatter ==
    tags => /\ IsPrefix(ToldOf("text"), OfKind(content, FALSE))
            /\ IsPrefix(ToldOf("thinking"), OfKind(content, TRUE))
            /\ phase \in {"ended", "done"} => /\ ToldOf("text") = OfKind(content, FALSE)
                                              /\ ToldOf("thinking") = OfKind(content, TRUE)

\* The message says what was told before: the same text and thoughts, and of
\* each call all fragments; and, if the server names a call once and first,
\* under the name each of them was told with.
MessageIsTold ==
    LET fragments(index) == {k \in DOMAIN told : told[k].kind = "call" /\ told[k].index = index}
    IN  message # None =>
        /\ message.text = ToldOf("text") /\ message.thinking = ToldOf("thinking")
        /\ {message.calls[k].index : k \in DOMAIN message.calls} = {i \in 1 .. 2 : fragments(i) # {}}
        /\ \A k \in DOMAIN message.calls :
               LET c == message.calls[k]
               IN  /\ Cardinality(fragments(c.index)) = c.size
                   /\ k > 1 => message.calls[k - 1].index < c.index
                   /\ naming = "first" => \A j \in fragments(c.index) : told[j].id = c.id

\* Batches are whole, retries are told with their end, responses are closed, how
\* an answer is cut into chunks does not matter, and what is told is the message.
ProviderSafe ==
    /\ TypeOK /\ BatchesWhole /\ RetriesPaired /\ ResponsesClosed /\ ChunksDoNotMatter
    /\ MessageIsTold
=============================================================================
