------------------------------ MODULE Timeline ------------------------------
(***************************************************************************)
(* What a user is shown of a turn, three times over.  RuntimeService makes *)
(* blocks of the events of a run (_run_event) and tells its clients and    *)
(* the store of every change; the store keeps a row for the turn and does  *)
(* the same changes there (project_event); a thread that is opened later   *)
(* is shown what _project_timeline makes of the session's entries.         *)
(*                                                                         *)
(* The run: attempts at an answer, each streamed piece by piece, which end *)
(* in a message or fail and are made again; the tools of a message, which  *)
(* run side by side; compactions between two attempts.  An exception or a  *)
(* cancellation may break it off anywhere, between two events or amid one. *)
(* Servers name a tool call when they begin it, or with every piece, or    *)
(* not at all; some use the same names in every answer.                    *)
(***************************************************************************)
EXTENDS Context, FiniteSets

CONSTANTS
    MaxAttempts,    \* bound: attempts of a run
    MaxParts,       \* bound: the pieces an attempt streams, those of a call being one
    MaxNames,       \* bound: the pieces of a call that name it again
    None

VARIABLES
    named,      \* calls have their "own" names, or those of other answers "again", are named
                \* with "each" piece, or "never"
    phase,
    attempt,    \* the attempt's number
    parts,      \* what it has streamed: pieces of text, of thoughts and of each call
    tools,      \* call -> how far it is
    truncated,  \* the calls of an answer that hit the token limit are not run
    blocks,     \* Operation.blocks
    row,        \* the blocks of the turn's row
    entries     \* the session's entries

timelineVars == <<named, phase, attempt, parts, tools, truncated, blocks, row, entries>>

\* "broken": over by an exception or a cancellation
Phases == {"between", "streaming", "tools", "over", "broken"}
Names == {"own", "again", "each", "never"}
Nothing == [text |-> 0, thinking |-> 0, calls |-> <<>>]

Full == parts.text + parts.thinking + Len(parts.calls) = MaxParts

Hows == {"partial", "ok", "failed"}
Executions == (0 .. MaxAttempts) \X (1 .. MaxParts) \X Hows

\* The names a call goes by: the pieces of a name are put together, and a call
\* without one is called by its place.
NameAfter(i, n) ==
    CASE named = "own" -> <<"call", attempt, i>>
      [] named = "again" -> <<"call", MaxAttempts, i>>
      [] named = "each" -> <<"call", attempt, i, n>>
      [] named = "never" -> <<"tool", i>>

\* The message gives the nameless ones a name of their own.
CallName(i) == IF named = "never" THEN <<"call", attempt, i>> ELSE NameAfter(i, parts.calls[i])

\* A block is named after a kind or a call, and the attempt it is of.
Block(source, kind, status, content) ==
    [id |-> <<source, attempt>>, kind |-> kind, status |-> status, content |-> content,
     result |-> None, files |-> FALSE]

TypeOK ==
    /\ named \in Names /\ phase \in Phases /\ attempt \in 0 .. MaxAttempts
    /\ parts.text \in 0 .. MaxParts /\ parts.thinking \in 0 .. MaxParts
    /\ parts.calls \in Seq(1 .. MaxNames)
    /\ tools \in Seq({"wait", "runs", "done"}) /\ truncated \in BOOLEAN
    /\ \A b \in ToSet(blocks) \cup ToSet(row) :
           /\ b.kind \in {"text", "thinking", "tool"} /\ b.files \in BOOLEAN
           /\ b.status \in {"running", "streaming", "completed", "failed"}
           /\ b.result \in Executions \cup {None}

Init ==
    /\ named \in Names /\ phase = "between" /\ attempt = 0 /\ parts = Nothing
    /\ tools = <<>> /\ truncated = FALSE /\ blocks = <<>> /\ row = <<>>
    /\ entries = <<[kind |-> "start"], [kind |-> "user"]>>

----------------------------------------------------------------------------
(* The row: project_event.                                                 *)

\* content.started, tool.started
RowStarted(bs, b) == Append(SelectSeq(bs, LAMBDA other : other.id # b.id), b)

\* Slip: a block that changes goes to the end.
RowMoved(bs, b) == RowStarted(bs, b)

\* content.delta, content.completed, tool.updated, tool.completed: of a block
\* the row has.
RowChanged(bs, b) == [k \in DOMAIN bs |-> IF bs[k].id = b.id THEN b ELSE bs[k]]

----------------------------------------------------------------------------
(* The blocks: _run_event.                                                 *)

\* The listeners are told, the store among them, and the run goes on; or the task
\* is cancelled meanwhile.
Tells(after) ==
    \/ row' = after /\ UNCHANGED phase
    \/ row' = row /\ phase' = "broken"

Replaced(bs, b) == [k \in DOMAIN bs |-> IF bs[k].id = b.id THEN b ELSE bs[k]]

Has(id) == \E k \in DOMAIN blocks : blocks[k].id = id

\* A delta's block is found by its name or begun, and told of.
Streamed(b, more) ==
    LET grown(bs) == [k \in DOMAIN bs |->
            IF bs[k].id = b.id THEN [bs[k] EXCEPT !.content = @ + more] ELSE bs[k]]
    IN  IF Has(b.id)
        THEN blocks' = grown(blocks) /\ Tells(grown(row))
        ELSE blocks' = grown(Append(blocks, b)) /\ Tells(grown(RowStarted(row, b)))

TextDelta ==
    /\ phase = "streaming" /\ ~Full /\ parts' = [parts EXCEPT !.text = @ + 1]
    /\ Streamed(Block(<<"text">>, "text", "running", 0), 1)
    /\ UNCHANGED <<named, attempt, tools, truncated, entries>>

ThinkingDelta ==
    /\ phase = "streaming" /\ ~Full /\ parts' = [parts EXCEPT !.thinking = @ + 1]
    /\ Streamed(Block(<<"thinking">>, "thinking", "running", 0), 1)
    /\ UNCHANGED <<named, attempt, tools, truncated, entries>>

\* A piece of a call whose block is there changes nothing but the row's status.
CallDelta(i) ==
    LET begun == i \in DOMAIN parts.calls
        n == IF begun THEN parts.calls[i] + (IF named = "each" THEN 1 ELSE 0) ELSE 1
    IN  /\ phase = "streaming" /\ n <= MaxNames
        /\ begun \/ (~Full /\ i = Len(parts.calls) + 1)
        /\ parts' = [parts EXCEPT !.calls = IF begun THEN [@ EXCEPT ![i] = n] ELSE Append(@, n)]
        /\ Streamed(Block(NameAfter(i, n), "tool", "streaming", 0), 0)
        /\ UNCHANGED <<named, attempt, tools, truncated, entries>>

\* Bound: calls that are named piece by piece are looked at in one attempt.
Attempts == IF named = "each" THEN 1 ELSE MaxAttempts

Begin ==
    /\ phase = "between" /\ attempt < Attempts /\ phase' = "streaming"
    /\ UNCHANGED <<named, attempt, parts, tools, truncated, blocks, row, entries>>

\* _message_blocks: the parts of a message, and what went wrong.
MessageBlocks(m) ==
    LET some(condition, b) == IF condition THEN <<b>> ELSE <<>>
    IN  some(m.thinking > 0, Block(<<"thinking">>, "thinking", "completed", m.thinking))
        \o some(m.text > 0, Block(<<"text">>, "text", "completed", m.text))
        \o [i \in 1 .. Len(m.calls) |-> Block(m.calls[i], "tool", "running", 0)]
        \o some(IsFailed(m), Block(<<"error">>, "text", "failed", 1))

\* _merge_complete_message: the blocks that were streamed are replaced.
Merge(bs, complete) ==
    LET new(b) == \A k \in DOMAIN bs : bs[k].id # b.id
        newer(b) == SelectInSeq(complete, LAMBDA c : c.id = b.id)
    IN  [k \in DOMAIN bs |-> IF newer(bs[k]) = 0 THEN bs[k] ELSE complete[newer(bs[k])]]
        \o SelectSeq(complete, new)

\* Slip: a failed answer leaves its blocks as they were.
StatusKept(m, b) == b

\* All blocks of a failed attempt have failed.
StatusOf(m, b) == IF IsFailed(m) /\ b.id[2] = attempt THEN [b EXCEPT !.status = "failed"] ELSE b

\* message_end: the session has the message first; then its attempt's blocks
\* are told of, one after the other, as far as it gets.
Ends(stop, content, next) ==
    LET calls == [i \in DOMAIN content.calls |-> CallName(i)]
        m == [kind |-> "assistant", stop |-> stop, attempt |-> attempt, text |-> content.text,
              thinking |-> content.thinking, calls |-> calls]
        merged == Merge(blocks, MessageBlocks(m))
        told(bs) == FoldLeft(LAMBDA to, b : IF b.id[2] = attempt THEN RowChanged(to, b) ELSE to, row, bs)
    IN  /\ entries' = Append(entries, m)
        /\ blocks' = [k \in DOMAIN merged |-> StatusOf(m, merged[k])]
        /\ \/ row' = told(blocks') /\ phase' \in next
           \/ phase' = "broken" /\ \E k \in 0 .. Len(merged) - 1 : row' = told(SubSeq(blocks', 1, k))

\* An answer; its calls are run next.
Answer(stop) ==
    /\ phase = "streaming" /\ Ends(stop, parts, {"tools"})
    /\ tools' = [i \in DOMAIN parts.calls |-> "wait"] /\ truncated' = (stop = "length")
    /\ UNCHANGED <<named, attempt, parts>>

\* Slip: the next attempt has the number of this one.
SameAttempt == attempt

\* A run numbers its attempts.
NextAttempt == attempt + 1

\* A failure, an overflow, or an abort: what was streamed is dropped.
Fails(stop) ==
    /\ phase = "streaming"
    /\ Ends(stop, Nothing, IF stop = "error" THEN {"between", "over"} ELSE {"over"})
    /\ attempt' = IF phase' = "broken" THEN attempt ELSE NextAttempt
    /\ parts' = Nothing
    /\ UNCHANGED <<named, tools, truncated>>

\* An abort while the next attempt is waited for, or before the first.
AbortedBetween ==
    /\ phase = "between" /\ Ends("aborted", Nothing, {"over"})
    /\ UNCHANGED <<named, attempt, parts, tools, truncated>>

\* A hook or an event raises, an append fails, the task is cancelled.
Breaks ==
    /\ phase \in {"between", "streaming", "tools"} /\ phase' = "broken"
    /\ UNCHANGED <<named, attempt, parts, tools, truncated, blocks, row, entries>>

\* _find_tool_block: the last one.
FindToolBlock(name) == SelectLastInSeq(blocks, LAMBDA b : b.id[1] = name)

Patched(name, patch) ==
    LET b == patch @@ blocks[FindToolBlock(name)]
    IN  blocks' = Replaced(blocks, b) /\ Tells(RowChanged(row, b))

\* When one call of a batch breaks the run off, the others go on.
AtWork == phase = "tools" \/ (phase = "broken" /\ ~truncated)

ToolStart(i) ==
    /\ AtWork /\ i \in DOMAIN tools /\ tools[i] = "wait"
    /\ truncated => \A j \in 1 .. i - 1 : tools[j] = "done"
    /\ tools' = [tools EXCEPT ![i] = "runs"]
    /\ Patched(CallName(i), [status |-> "running"])
    /\ UNCHANGED <<named, attempt, parts, truncated, entries>>

Result_(i, how) == <<attempt, i, how>>

ToolUpdate(i) ==
    /\ AtWork /\ ~truncated /\ i \in DOMAIN tools /\ tools[i] = "runs"
    /\ Patched(CallName(i), [result |-> Result_(i, "partial"), status |-> "running"])
    /\ UNCHANGED <<named, attempt, parts, tools, truncated, entries>>

\* The files a tool presents are an entry of their own, ahead of its result.
ToolEnd(i, how, presents) ==
    /\ AtWork /\ i \in DOMAIN tools /\ tools[i] = "runs"
    /\ truncated => how = "failed"
    /\ tools' = [tools EXCEPT ![i] = "done"]
    /\ Patched(CallName(i), [result |-> Result_(i, how), files |-> presents,
                          status |-> IF how = "ok" THEN "completed" ELSE "failed"])
    /\ entries' = IF presents THEN Append(entries, [kind |-> "artifact", of |-> CallName(i)])
                  ELSE entries
    /\ UNCHANGED <<named, attempt, parts, truncated>>

Results == [i \in DOMAIN tools |->
    [kind |-> "result", of |-> CallName(i), result |-> blocks[FindToolBlock(CallName(i))].result]]

\* The results are appended when all tools are done, in the order of the calls.
ToolsDone ==
    /\ phase = "tools" /\ \A i \in DOMAIN tools : tools[i] = "done"
    /\ entries' = entries \o Results /\ phase' \in {"between", "over"}
    /\ tools' = <<>> /\ truncated' = FALSE /\ attempt' = NextAttempt /\ parts' = Nothing
    /\ UNCHANGED <<named, blocks, row>>

\* Some of them are appended.
ResultsBreak ==
    /\ phase = "tools" /\ \A i \in DOMAIN tools : tools[i] = "done"
    /\ \E n \in DOMAIN tools : entries' = entries \o SubSeq(Results, 1, n)
    /\ phase' = "broken"
    /\ UNCHANGED <<named, attempt, parts, tools, truncated, blocks, row>>

\* What a compaction may keep from: a user's message or an answer.
Cuts == {i \in DOMAIN entries : entries[i].kind \in {"user", "assistant"}}

Compact ==
    /\ phase = "between" /\ \A i \in DOMAIN entries : entries[i].kind # "compaction"
    /\ \E keep \in Cuts : entries' = Append(entries, Compaction(keep))
    /\ UNCHANGED <<named, phase, attempt, parts, tools, truncated, blocks, row>>

----------------------------------------------------------------------------
(* What is shown of the session: _project_timeline.                        *)

\* The blocks of a message; "of" is its attempt, for the comparison.
Restored(m) == [k \in DOMAIN MessageBlocks(m) |->
                   [MessageBlocks(m)[k] EXCEPT !.id = <<@[1], m.attempt>>]]

\* Slip: results are shown with the first call.
FirstCall(bs, name) == {k \in DOMAIN bs : bs[k].id[1][1] = "call" /\ bs[k].id[1][3] = 1}

\* A result, or files, go to all blocks with this name.
Named(bs, name) == {k \in DOMAIN bs : bs[k].id[1] = name}

Shows(bs, e) ==
    CASE e.kind = "assistant" -> bs \o Restored(e)
      [] e.kind = "result" ->
           [k \in DOMAIN bs |-> IF k \in Named(bs, e.of)
                THEN [bs[k] EXCEPT !.result = e.result,
                                   !.status = IF e.result[3] = "ok" THEN "completed" ELSE "failed"]
                ELSE bs[k]]
      [] e.kind = "artifact" ->
           [k \in DOMAIN bs |-> IF k \in Named(bs, e.of) THEN [bs[k] EXCEPT !.files = TRUE] ELSE bs[k]]
      [] OTHER -> bs

\* The branch is cut off where the compaction keeps it: get_branch.
ShownFrom(s) == BranchStart(s)

\* Without its start, a turn is not shown.
IsShown == entries[ShownFrom(entries)].kind = "start"

ProjectTimeline == FoldLeft(Shows, <<>>, SubSeq(entries, ShownFrom(entries), Len(entries)))

----------------------------------------------------------------------------
Next ==
    \/ Begin \/ TextDelta \/ ThinkingDelta \/ (\E i \in 1 .. MaxParts : CallDelta(i))
    \/ \E stop \in {"stop", "length"} : Answer(stop)
    \/ \E stop \in {"error", "aborted"} : Fails(stop)
    \/ AbortedBetween \/ Breaks
    \/ \E i \in 1 .. MaxParts : ToolStart(i) \/ ToolUpdate(i)
    \/ \E i \in 1 .. MaxParts, how \in {"ok", "failed"}, presents \in BOOLEAN :
           (presents => how = "ok") /\ ToolEnd(i, how, presents)
    \/ ToolsDone \/ ResultsBreak \/ Compact

Spec == Init /\ [][Next]_timelineVars

----------------------------------------------------------------------------
Ids(bs) == {bs[k].id : k \in DOMAIN bs}

\* What was under way when the run was broken off.
LeftOff(b) == phase = "broken" /\ b.id[2] = attempt

\* A block that no event began: what went wrong with an attempt, and a call that
\* was named by its message only.
Unbegun(b) ==
    \/ b.id[1] = <<"error">>
    \/ named = "never" /\ b.kind = "tool" /\ b.id[1][1] = "call"

\* A block that was begun for the first pieces of a call, and that its message
\* calls by another name.
Misnamed(b) ==
    /\ named \in {"each", "never"} /\ b.kind = "tool"
    /\ \A e \in DOMAIN entries : entries[e].kind = "assistant" => b.id[1] \notin ToSet(entries[e].calls)

\* The store's row and the blocks the service holds are the same after every
\* event, but for the blocks that no event began, which the row does not have.
\* Of an attempt that is broken off the row may have missed the last events.
RowFollows ==
    LET kept(bs) == SelectSeq(bs, LAMBDA b : ~LeftOff(b) /\ ~Unbegun(b))
    IN  kept(row) = kept(blocks)

\* What is shown of one attempt is of that attempt alone: a name stands for one
\* block, its text is as long as its own message's, and a call's result is that
\* of the call, whichever answers used its name before.
AttemptsApart ==
    /\ Cardinality(Ids(blocks)) = Len(blocks)
    /\ \A k \in DOMAIN blocks : blocks[k].result # None =>
           /\ blocks[k].result[1] = blocks[k].id[2]
           /\ blocks[k].id[1][3] = blocks[k].result[2]
    /\ \A e \in DOMAIN entries, k \in DOMAIN blocks :
           entries[e].kind = "assistant" /\ blocks[k].id = <<<<"text">>, entries[e].attempt>>
               /\ ~IsFailed(entries[e]) => blocks[k].content = entries[e].text

\* When the run is over nothing seems to go on, but for the attempt at which it was
\* broken off, and for what was shown of a call before it was named.
NothingHangs ==
    phase \in {"over", "broken"} =>
        \A k \in DOMAIN blocks :
            \/ blocks[k].status \in {"completed", "failed"}
            \/ LeftOff(blocks[k]) \/ Misnamed(blocks[k])

\* A turn whose thread is opened later is shown as it was: the answers with
\* their texts, their calls with the results and the files.  What a failed
\* attempt had streamed is not shown again, nor what was shown of a call before
\* it was named, and the attempt at which a run was broken off may differ.  With
\* names that are used again the results of the last answer stand for all (and
\* are not compared here), and a turn whose beginning was compacted is not shown.
TimelineAgrees ==
    LET answered == {entries[i].attempt : i \in {j \in DOMAIN entries :
                        entries[j].kind = "assistant" /\ ~IsFailed(entries[j])}}
        of(bs) == {b \in ToSet(bs) : b.id[2] \in answered /\ ~LeftOff(b) /\ ~Misnamed(b)}
    IN  phase \in {"over", "broken"} /\ named # "again" /\ IsShown =>
            of(ProjectTimeline) = of(blocks)

\* A turn's row follows its events, attempts have blocks of their own, nothing is
\* shown at work when the turn has ended, and the timeline read back from the
\* session is the one that was streamed, with the exceptions named there.
TimelineSafe == TypeOK /\ RowFollows /\ AttemptsApart /\ NothingHangs /\ TimelineAgrees
=============================================================================
