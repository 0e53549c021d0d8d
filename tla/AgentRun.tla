------------------------------ MODULE AgentRun ------------------------------
(***************************************************************************)
(* One run of the agent (core/runner.py) with its controller (control.py), *)
(* inference attempts (inference_runtime.py) and tool calls                *)
(* (tool_runtime.py), on the Session of its turn (runtime/agent.py).       *)
(*                                                                         *)
(* One value of pc is one await of _RunEngine.run, or a few in a row       *)
(* between which the run reads nothing that others change.  While it       *)
(* waits, clients steer, follow up and abort, the provider answers and     *)
(* tools end.  The controller's cancel() reaches only a task that exists   *)
(* at that moment: an attempt, a back-off, a compaction, tool calls.       *)
(***************************************************************************)
EXTENDS Context

CONSTANTS
    History,     \* the entries of the session's branch before the run
    Steers,      \* bound: messages that clients send by turn.steer
    FollowUps,   \* and by turn.follow_up
    OneAtATime,  \* the queue mode of both: one message per drain, or all
    Replies,     \* what the provider may answer
    MaxReplies,  \* bound: final answers of the provider in the run
    MaxRetries,  \* agent.retry.max_retries
    Compacts,    \* context compaction is enabled
    Aborts,      \* a client may cancel the turn
    Breaks       \* a stop may cancel the run's task, an event may fail

\* Of a reply the run looks at how it stopped, at its calls, whether one of them
\* wants the batch in sequence, whether it says that the context is too long,
\* and whether the failure may be tried again.
ReplyType ==
    [stop : {"stop", "length", "toolUse", "error", "aborted"}, calls : Nat,
     sequential : BOOLEAN, overflow : BOOLEAN, retry : BOOLEAN]

ASSUME RunAssumption ==
    /\ Steers \in Nat /\ FollowUps \in Nat /\ MaxRetries \in Nat
    /\ Replies \subseteq ReplyType
    /\ Compacts \in BOOLEAN
    /\ History \in Seq(Range(History))

\* Awaits of the run, in their order.
\*   starting           the before_agent_start hook
\*   refused            an input too large for the window is being reported
\*   opening            agent_start, turn_start, the input is recorded
\*   turn               turn_start, pending messages are recorded
\*   asking             the hooks that see and patch the request
\*   attempt            the provider streams its answer (a task)
\*   retrying           a failed attempt is recorded and announced
\*   backoff            the delay before the next attempt (a task)
\*   answered           the request returned an answer
\*   recorded           the answer is in the context, its message_end is out
\*   tools              the calls of the answer are at work (tasks)
\*   results            their results are recorded, one by one
\*   turnEnd            turn_end
\*   compacting         the compactor is at work
\*   compacted          its success is announced
\*   notCompacted       its failure is announced
\*   agentEnd           agent_end
\*   settling           settled; then the controller is released
Hookable == {"starting", "refused", "opening", "turn", "asking", "retrying", "answered",
             "recorded", "results", "turnEnd", "compacting", "compacted", "notCompacted",
             "agentEnd"}
Stages == Hookable \cup {"attempt", "backoff", "tools", "settling", "done"}

\* A call of the batch: its task awaits tool_execution_start (starting), the
\* tool (executing), or the tool_result hook and tool_execution_end (ending).
\* A task cancelled in the first or the last raises CancelledError: broken.
CallStages == {"waiting", "starting", "executing", "ending", "done", "broken"}
AtWork == {"starting", "executing", "ending"}

VARIABLES
    pc,
    aborted,     \* RunController._abort_requested
    steer,       \* RunController._queues
    followUp,
    pending,     \* messages that were drained and not yet recorded
    context,     \* _RunEngine.messages
    session,     \* the entries of the session's branch
    request,     \* the messages of the latest request, as sent
    attempt,     \* the attempt in progress within the request
    nextAttempt, \* InferenceRuntime._next_attempt_id
    lastAttempt, \* InferenceRuntime.last_attempt
    killed,      \* the attempt, back-off, gather or summary awaited is cancelled
    answer,      \* final, the latest answer
    more,        \* has_more_tools
    overflows,   \* overflow_attempts
    why,         \* what the compaction is for
    calls,       \* the calls of the batch, in order
    sequential,  \* the batch runs one call after the other
    results,     \* how many results of the batch are recorded
    raised,      \* the run ended with an exception
    \* History.
    accepted,    \* messages clients sent and were told are accepted
    cleared,     \* those that the abort took from the queues
    late,        \* those accepted when the run no longer looked
    complete,    \* the loop was left because nothing was left to do
    log,         \* message_start and message_end of attempts
    replies,     \* final answers so far
    repliesAtAbort

\* Messages of a kind are numbered in the order in which they are sent.
Messages(kind, count) == {<<kind, i>> : i \in 1 .. count}
Input == <<"input", 1>>
AllMessages == Messages("steer", Steers) \cup Messages("follow_up", FollowUps)

\* What clients will send is not in the session yet.
ASSUME HistoryAssumption == \A m \in AllMessages : User(m) \notin Range(History)

inputs == <<steer, followUp, pending, accepted, cleared, late>>
history == <<context, session>>
inference == <<request, attempt, nextAttempt, lastAttempt, killed, log>>
batch == <<calls, sequential, results>>
counts == <<replies, repliesAtAbort>>
rounds == <<more, complete>>
vars == <<pc, aborted, inputs, history, inference, rounds, answer, overflows, why, batch, raised, counts>>

NoAnswer == [stop |-> "none", calls |-> 0, sequential |-> FALSE, overflow |-> FALSE, retry |-> FALSE]
Aborted == [NoAnswer EXCEPT !.stop = "aborted"]
Failure == [NoAnswer EXCEPT !.stop = "error"]

TypeOK ==
    /\ pc \in Stages
    /\ aborted \in BOOLEAN /\ raised \in BOOLEAN /\ more \in BOOLEAN /\ killed \in BOOLEAN
    /\ steer \in Seq(Messages("steer", Steers)) /\ followUp \in Seq(Messages("follow_up", FollowUps))
    /\ pending \in Seq(AllMessages)
    /\ attempt \in 0 .. MaxRetries
    /\ nextAttempt \in Nat /\ lastAttempt \in Nat
    /\ answer \in Replies \cup {NoAnswer, Aborted, Failure} \cup {[r EXCEPT !.stop = "error"] : r \in Replies}
    /\ overflows \in 0 .. 2
    /\ why \in {"before", "overflow", "after"}
    /\ calls \in Seq([stage : CallStages, cancelled : BOOLEAN, how : {"none", "ok", "aborted", "skipped"},
                      terminate : BOOLEAN, afterAbort : BOOLEAN])
    /\ results \in 0 .. Len(calls)
    /\ Range(accepted) \cup cleared \cup late \subseteq AllMessages

Init ==
    /\ pc = "starting"
    /\ aborted = FALSE /\ raised = FALSE /\ more = TRUE /\ complete = FALSE
    /\ steer = <<>> /\ followUp = <<>> /\ pending = <<>>
    /\ accepted = <<>> /\ cleared = {} /\ late = {}
    /\ session = History /\ context = BuildContext(History)
    /\ request = <<>> /\ attempt = 0 /\ nextAttempt = 0 /\ lastAttempt = 0
    /\ killed = FALSE /\ log = <<>>
    /\ answer = NoAnswer /\ overflows = 0 /\ why = "before"
    /\ calls = <<>> /\ sequential = FALSE /\ results = 0
    /\ replies = 0 /\ repliesAtAbort = 0

-----------------------------------------------------------------------------
\* Helpers.

\* A slip: an event the session does not hear of.
RecordedInContext(messages) == context' = context \o messages /\ UNCHANGED session

\* message_end reaches SessionAgent._emit, which appends to the session; the
\* run's own list grows as well, unless the message is a failed attempt.
Recorded(messages) == context' = context \o messages /\ session' = session \o messages
OnlyInSession(message) == session' = Append(session, message) /\ UNCHANGED context

Begins(n) == <<[event |-> "start", of |-> n]>>
Ends(n) == <<[event |-> "end", of |-> n]>>

Message(r, n) == Assistant(n, r.stop, r.calls)

\* A slip: a drain of one message forgets the others.
LeftNothing(queue) == <<>>

\* RunController._drain: the first message, or all of them.
Taken(queue) == IF OneAtATime /\ queue # <<>> THEN <<Head(queue)>> ELSE queue
Left(queue) == IF OneAtATime /\ queue # <<>> THEN Tail(queue) ELSE <<>>

\* Where the run no longer looks at its queues.
Deaf == {"refused", "agentEnd", "settling"} \cup
        IF why = "after" THEN {"compacting", "compacted", "notCompacted"} ELSE {}

-----------------------------------------------------------------------------
\* The run, from one await to the next.

\* _compact.  The event that an earlier abort has set cancels the first summary.
CompactFor(reason) ==
    /\ pc' = "compacting"
    /\ why' = reason
    /\ killed' = aborted

\* run(): the hook may have replaced the input; an oversized one is refused, a
\* context near the window is compacted first.
Start ==
    /\ pc = "starting"
    /\ \/ pc' \in {"refused", "opening"} /\ UNCHANGED <<why, killed>>
       \/ Compacts /\ CompactFor("before")
    /\ UNCHANGED <<aborted, inputs, history, request, attempt, nextAttempt, lastAttempt, log, answer,
                   overflows, batch, raised, counts, rounds>>

\* _finish_input_error.
Refuse ==
    /\ pc = "refused"
    /\ Recorded(<<User(Input), Assistant(0, "error", 0)>>)
    /\ log' = log \o Begins(0) \o Ends(0)
    /\ answer' = Failure
    /\ pc' = "agentEnd"
    /\ UNCHANGED <<aborted, inputs, request, attempt, nextAttempt, lastAttempt, killed, overflows,
                   why, batch, raised, counts, rounds>>

\* _aborted_message, appended as an attempt of its own.
RecordAborted(before) ==
    /\ Recorded(Append(before, Message(Aborted, lastAttempt + 1)))
    /\ log' = log \o Begins(lastAttempt + 1) \o Ends(lastAttempt + 1)
    /\ answer' = Aborted
    /\ pc' = "agentEnd"

\* The queue is drained and queue_update announced; what was taken is recorded
\* by the next turn.
DrainSteer ==
    /\ pending' = Taken(steer)
    /\ steer' = Left(steer)
    /\ UNCHANGED <<followUp, accepted, cleared, late>>
DrainFollowUp ==
    /\ pending' = Taken(followUp)
    /\ followUp' = Left(followUp)
    /\ UNCHANGED <<steer, accepted, cleared, late>>

\* _run_loop up to the first look at the steering queue.
Open ==
    /\ pc = "opening"
    /\ \/ /\ aborted
          /\ RecordAborted(<<User(Input)>>)
          /\ UNCHANGED inputs
       \/ /\ ~aborted
          /\ Recorded(<<User(Input)>>)
          /\ DrainSteer
          /\ pc' = "turn"
          /\ UNCHANGED <<log, answer>>
    /\ UNCHANGED <<aborted, request, attempt, nextAttempt, lastAttempt, killed, overflows, why,
                   batch, raised, counts, rounds>>

\* After the inner loop.
FollowUpOrEnd ==
    \/ /\ followUp # <<>>
       /\ pc' = "turn"
       /\ more' = TRUE
       /\ DrainFollowUp
       /\ UNCHANGED complete
    \/ /\ followUp = <<>>
       /\ pc' = "agentEnd"
       /\ complete' = TRUE
       /\ UNCHANGED <<inputs, more>>

Turn ==
    /\ pc = "turn"
    /\ Recorded([i \in DOMAIN pending |-> User(pending[i])])
    /\ pending' = <<>>
    /\ pc' = "asking"
    /\ UNCHANGED <<aborted, steer, followUp, accepted, cleared, late, inference, answer, overflows,
                   why, batch, raised, counts, rounds>>

\* InferenceRuntime.request, up to the task of its first attempt.
Ask ==
    /\ pc = "asking"
    /\ request' = Project(context)
    /\ attempt' = 0
    /\ killed' = FALSE
    /\ pc' = "attempt"
    /\ UNCHANGED <<aborted, inputs, history, nextAttempt, lastAttempt, log, answer, overflows, why,
                   batch, raised, counts, rounds>>

\* The request returns r, as the answer of attempt n.
Returns(r, n) ==
    /\ answer' = r
    /\ lastAttempt' = n
    /\ nextAttempt' = n + 1
    /\ pc' = "answered"
    /\ UNCHANGED <<history, request, attempt, killed>>

\* A slip: every request numbers its attempts from 0.
FirstNumbers == attempt

Current == nextAttempt + attempt

\* An attempt ends by itself.  A failed attempt that will be retried is in the
\* session only.
Answer(r) ==
    /\ pc = "attempt" /\ ~killed
    /\ replies < MaxReplies \/ (r.stop = "stop" /\ ~r.overflow /\ r.calls = 0)
    /\ IF r.retry /\ attempt < MaxRetries
       THEN /\ OnlyInSession(Message(r, Current))
            /\ log' = log \o Begins(Current) \o Ends(Current)
            /\ pc' = "retrying"
            /\ UNCHANGED <<request, attempt, nextAttempt, lastAttempt, killed, answer, replies>>
       ELSE /\ Returns(r, Current)
            /\ log' = log \o Begins(Current)
            /\ replies' = replies + 1
    /\ UNCHANGED <<aborted, inputs, overflows, why, batch, raised, repliesAtAbort, complete, rounds>>

\* except CancelledError: the answer is an aborted one.
AttemptKilled ==
    /\ pc = "attempt" /\ killed
    /\ Returns(Aborted, Current)
    /\ log' = log \o Begins(Current)
    /\ UNCHANGED <<aborted, inputs, overflows, why, batch, raised, counts, rounds>>

Retry ==
    /\ pc = "retrying"
    /\ killed' = FALSE
    /\ pc' = "backoff"
    /\ UNCHANGED <<aborted, inputs, history, request, attempt, nextAttempt, lastAttempt, log,
                   answer, overflows, why, batch, raised, counts, rounds>>

TryAgain ==
    /\ pc = "backoff" /\ ~killed
    /\ attempt' = attempt + 1
    /\ pc' = "attempt"
    /\ UNCHANGED <<aborted, inputs, history, request, nextAttempt, lastAttempt, killed, log,
                   answer, overflows, why, batch, raised, counts, rounds>>

\* A cancelled delay ends the request with an attempt that never ran.
BackoffKilled ==
    /\ pc = "backoff" /\ killed
    /\ Returns(Aborted, Current + 1)
    /\ log' = log \o Begins(Current + 1)
    /\ UNCHANGED <<aborted, inputs, overflows, why, batch, raised, counts, rounds>>

-----------------------------------------------------------------------------
\* What the run makes of an answer.

Overflowed == answer.overflow /\ answer.stop \in {"error", "length"}

\* A slip: one compaction too many.
RecoverableAgain == Overflowed /\ overflows <= 2 /\ Compacts

Recoverable == Overflowed /\ overflows < 2 /\ Compacts

\* The answer says that the context is too long: it stays out of the context,
\* which is compacted, twice at most.
Overflow ==
    /\ pc = "answered"
    /\ Recoverable
    /\ OnlyInSession(Message(answer, lastAttempt))
    /\ log' = log \o Ends(lastAttempt)
    /\ overflows' = overflows + 1
    /\ CompactFor("overflow")
    /\ UNCHANGED <<aborted, inputs, request, attempt, nextAttempt, lastAttempt, answer, batch,
                   raised, counts, rounds>>

Record ==
    /\ pc = "answered"
    /\ ~Recoverable
    /\ answer' = IF Overflowed /\ overflows = 2 THEN [answer EXCEPT !.stop = "error"] ELSE answer
    /\ Recorded(<<Message(answer', lastAttempt)>>)
    /\ log' = log \o Ends(lastAttempt)
    /\ pc' = "recorded"
    /\ UNCHANGED <<aborted, inputs, request, attempt, nextAttempt, lastAttempt, killed, overflows,
                   why, batch, raised, counts, rounds>>

Call(stage, how) ==
    [stage |-> stage, cancelled |-> FALSE, how |-> how, terminate |-> FALSE, afterAbort |-> aborted]

\* The answer is out: a failure ends the run; calls that may be truncated are
\* failed without running; the others start, at once or one by one, whether
\* the run was aborted meanwhile or not.
Proceed ==
    /\ pc = "recorded"
    /\ results' = 0
    /\ sequential' = answer.sequential
    /\ IF answer.stop \in {"error", "aborted"} THEN pc' = "agentEnd" /\ calls' = <<>>
       ELSE IF answer.calls = 0 THEN pc' = "turnEnd" /\ calls' = <<>>
       ELSE IF answer.stop = "length"
       THEN pc' = "results" /\ calls' = [k \in 1 .. answer.calls |-> Call("done", "skipped")]
       ELSE /\ pc' = "tools"
            /\ calls' = [k \in 1 .. answer.calls |->
                            Call(IF answer.sequential /\ k > 1 THEN "waiting" ELSE "starting", "none")]
    /\ UNCHANGED <<aborted, inputs, history, inference, answer, overflows, why, raised, counts, rounds>>

\* ToolRuntime._execute_call: the task of call k, from await to await.  It may
\* go on after the run has ended.
CallStep(k) ==
    /\ calls[k].stage \in AtWork
    /\ \E next \in
            IF calls[k].stage = "executing"
            THEN {[calls[k] EXCEPT !.stage = "ending", !.how = "ok", !.terminate = t] : t \in BOOLEAN}
            ELSE IF calls[k].stage = "starting"
            THEN {[calls[k] EXCEPT !.stage = "executing"],
                  [calls[k] EXCEPT !.stage = "ending", !.how = "ok"]}
            ELSE {[calls[k] EXCEPT !.stage = "done"]} :
        calls' = [calls EXCEPT ![k] =
            IF ~calls[k].cancelled THEN next
            ELSE IF calls[k].stage = "executing"
            THEN [calls[k] EXCEPT !.stage = "ending", !.how = "aborted", !.cancelled = FALSE]
            ELSE [calls[k] EXCEPT !.stage = "broken"]]
    /\ UNCHANGED <<pc, aborted, inputs, history, inference, answer, overflows, why, sequential,
                   results, raised, counts, rounds>>

\* A tool that runs until it is told to stop need not end by itself.
ToolWorks(k) == calls[k].stage = "executing" /\ ~calls[k].cancelled


\* ToolRuntime.cancel.
Cancelled == [k \in DOMAIN calls |->
                [calls[k] EXCEPT !.cancelled = @ \/ calls[k].stage \in AtWork]]

\* execute_calls, sequential: one call after the other; after an abort the
\* rest is failed without running.
NextCall ==
    /\ pc = "tools" /\ sequential
    /\ \E k \in DOMAIN calls :
        /\ calls[k].stage = "done"
        /\ k < Len(calls) /\ calls[k + 1].stage = "waiting"
        /\ calls' = [j \in DOMAIN calls |->
                        IF j <= k THEN calls[j]
                        ELSE IF aborted THEN Call("done", "skipped")
                        ELSE IF j = k + 1 THEN Call("starting", "none") ELSE calls[j]]
    /\ UNCHANGED <<pc, aborted, inputs, history, inference, answer, overflows, why, sequential,
                   results, raised, counts, rounds>>

\* A slip: the first result is as good as all.
BatchBegun == \E k \in DOMAIN calls : calls[k].stage = "done"

BatchDone == \A k \in DOMAIN calls : calls[k].stage = "done"

BatchEnds ==
    /\ pc = "tools"
    /\ BatchDone
    /\ pc' = IF killed THEN "settling" ELSE "results"
    /\ raised' = killed
    /\ UNCHANGED <<aborted, inputs, history, inference, answer, overflows, why, batch, counts, rounds>>

\* gather() and await raise the CancelledError of a broken call; gather()
\* leaves the other tasks running.
BatchBreaks ==
    /\ pc = "tools"
    /\ \E k \in DOMAIN calls : calls[k].stage = "broken"
    /\ pc' = "settling"
    /\ raised' = TRUE
    /\ UNCHANGED <<aborted, inputs, history, inference, answer, overflows, why, batch, counts, rounds>>

RecordResult ==
    /\ pc = "results"
    /\ results' = results + 1
    /\ Recorded(<<Result(lastAttempt, results + 1, calls[results + 1].how)>>)
    /\ pc' = IF results + 1 = Len(calls) THEN "turnEnd" ELSE "results"
    /\ UNCHANGED <<aborted, inputs, inference, answer, overflows, why, calls, sequential, raised,
                   counts, rounds>>

MoreTools == answer.calls > 0 /\ ~\E k \in DOMAIN calls : calls[k].terminate

\* A slip: the loop goes on after an abort.
NeverStopped == FALSE

SeesAbort == aborted

\* The end of the loop's body and its conditions: an abort ends the run, then
\* steering goes before tool results, and those before follow-ups.
TurnEnd ==
    /\ pc = "turnEnd"
    /\ IF SeesAbort THEN pc' = "agentEnd" /\ UNCHANGED <<inputs, rounds>>
       ELSE IF steer # <<>> \/ MoreTools
       THEN /\ pc' = "turn"
            /\ more' = MoreTools
            /\ DrainSteer
            /\ UNCHANGED complete
       ELSE FollowUpOrEnd
    /\ UNCHANGED <<aborted, history, inference, answer, overflows, why, batch, raised, counts>>

\* run(), after the loop: an answer of a context that was too long after all,
\* or a context near the window, is followed by a compaction.
AgentEnd ==
    /\ pc = "agentEnd"
    /\ LET may == answer.stop \notin {"error", "aborted"} /\ ~aborted /\ Compacts
           must == answer.stop = "stop" /\ answer.overflow
       IN  \/ may /\ CompactFor("after")
           \/ ~(may /\ must) /\ pc' = "settling" /\ UNCHANGED <<why, killed>>
    /\ UNCHANGED <<aborted, inputs, history, request, attempt, nextAttempt, lastAttempt, log, answer,
                   overflows, batch, raised, counts, rounds>>

\* finally: settled, then RunController._release.
Settle ==
    /\ pc = "settling"
    /\ steer' = <<>> /\ followUp' = <<>>
    /\ aborted' = FALSE
    /\ pc' = "done"
    /\ UNCHANGED <<pending, accepted, cleared, late, history, inference, answer, overflows, why,
                   batch, raised, counts, rounds>>

-----------------------------------------------------------------------------
\* Compaction (SessionContextCompactor, prepare_compaction).

\* The entries that may be the first kept one: something before it is left to
\* summarise, and results stay with their call.
Cuts(s) ==
    IF s = <<>> \/ Last(s).kind = "compaction" THEN {}
    ELSE {i \in 2 .. Len(s) : s[i].kind \in {"user", "assistant"}}

CompactSucceeds ==
    /\ pc = "compacting" /\ ~killed
    /\ \E keep \in Cuts(session) : session' = Append(session, Compaction(keep))
    /\ context' = BuildContext(session')
    /\ pc' = "compacted"
    /\ UNCHANGED <<aborted, inputs, inference, answer, overflows, why, batch, raised, counts, rounds>>

\* Nothing to summarise, a failing or cancelled summary, or, after it, an event
\* that fails.
CompactFails ==
    /\ pc = "compacting" \/ (Breaks /\ pc = "compacted")
    /\ pc' = "notCompacted"
    /\ UNCHANGED <<aborted, inputs, history, inference, answer, overflows, why, batch, raised,
                   counts, rounds>>

Resumes == IF why = "before" THEN "opening" ELSE "settling"

\* The request is repeated, but only if the loop was going round for tool
\* results: has_more_tools and pending are those of before the request.
Compacted ==
    /\ pc = "compacted"
    /\ IF why # "overflow" THEN pc' = Resumes /\ UNCHANGED <<inputs, rounds>>
       ELSE IF more THEN pc' = "turn" /\ UNCHANGED <<inputs, rounds>>
       ELSE FollowUpOrEnd
    /\ UNCHANGED <<aborted, history, inference, answer, overflows, why, batch, raised, counts>>

\* A failed compaction ends the run only when the context had overflowed.
NotCompacted ==
    /\ pc = "notCompacted"
    /\ \/ /\ why # "overflow"
          /\ pc' = Resumes
          /\ UNCHANGED <<history, log, answer>>
       \/ /\ why = "overflow" /\ aborted
          /\ RecordAborted(<<>>)
       \/ /\ why = "overflow" /\ ~aborted
          /\ pc' = "agentEnd"
          /\ UNCHANGED <<history, log, answer>>
    /\ UNCHANGED <<aborted, inputs, request, attempt, nextAttempt, lastAttempt, killed, overflows,
                   why, batch, raised, counts, rounds>>

-----------------------------------------------------------------------------
\* The others.

\* turn.steer and turn.follow_up are accepted while the controller is bound.
Accept(m) ==
    /\ pc # "done"
    /\ m \notin Range(accepted)
    /\ m[2] = 1 \/ <<m[1], m[2] - 1>> \in Range(accepted)
    /\ accepted' = Append(accepted, m)
    /\ late' = IF pc \in Deaf \/ aborted THEN late \cup {m} ELSE late

Steer(m) ==
    /\ Accept(m)
    /\ steer' = Append(steer, m)
    /\ UNCHANGED <<pc, aborted, followUp, pending, cleared, history, inference, answer, overflows,
                   why, batch, raised, counts, rounds>>

FollowUp(m) ==
    /\ Accept(m)
    /\ followUp' = Append(followUp, m)
    /\ UNCHANGED <<pc, aborted, steer, pending, cleared, history, inference, answer, overflows,
                   why, batch, raised, counts, rounds>>

\* RunController.cancel: it clears the queues and cancels the tasks there are.
Abort ==
    /\ Aborts /\ ~aborted /\ pc # "done"
    /\ aborted' = TRUE
    /\ cleared' = cleared \cup Range(steer \o followUp)
    /\ steer' = <<>> /\ followUp' = <<>>
    /\ killed' = (killed \/ pc \in {"attempt", "backoff"})
    /\ calls' = Cancelled
    /\ repliesAtAbort' = replies
    /\ UNCHANGED <<pc, pending, accepted, late, history, request, attempt, nextAttempt,
                   lastAttempt, log, answer, overflows, why, sequential, results, raised, replies,
                   complete, rounds>>

\* The turn's task is cancelled while it waits for a task of its own, which
\* takes the cancellation; gather() raises it once its tasks have ended.
Interrupt ==
    /\ Breaks /\ pc \in {"attempt", "backoff", "tools"}
    /\ killed' = (pc # "tools" \/ ~sequential)
    /\ calls' = IF pc = "tools" THEN Cancelled ELSE calls
    /\ UNCHANGED <<pc, aborted, inputs, history, request, attempt, nextAttempt, lastAttempt, log,
                   answer, overflows, why, sequential, results, raised, counts, rounds>>

\* An event or a hook raises, or the task is cancelled in it.
Break ==
    /\ Breaks /\ pc \in Hookable
    /\ pc' = "settling"
    /\ raised' = TRUE
    /\ UNCHANGED <<aborted, inputs, history, inference, answer, overflows, why, batch, counts, rounds>>

Over == pc = "done" /\ UNCHANGED vars

RunStep ==
    \/ Start \/ Refuse \/ Open \/ Turn \/ Ask \/ AttemptKilled \/ Retry \/ TryAgain
    \/ BackoffKilled \/ Overflow \/ Record \/ Proceed \/ NextCall \/ BatchEnds \/ BatchBreaks
    \/ RecordResult \/ TurnEnd \/ AgentEnd \/ Settle \/ Compacted \/ NotCompacted

Next ==
    \/ RunStep
    \/ \E r \in Replies : Answer(r)
    \/ \E k \in DOMAIN calls : CallStep(k)
    \/ CompactSucceeds \/ CompactFails
    \/ \E m \in Messages("steer", Steers) : Steer(m)
    \/ \E m \in Messages("follow_up", FollowUps) : FollowUp(m)
    \/ Abort \/ Interrupt \/ Break \/ Over

Spec == Init /\ [][Next]_vars

\* The event loop runs on, provider calls and summaries have timeouts; a tool
\* is sure to end only once it is cancelled, since bash has no default timeout.
ProviderStep == \E r \in Replies : Answer(r)
CompactorStep == CompactSucceeds \/ CompactFails
ToolStep == \E k \in DOMAIN calls : ~ToolWorks(k) /\ CallStep(k)

FairSpec ==
    Spec /\ WF_vars(RunStep) /\ WF_vars(ProviderStep) /\ WF_vars(CompactorStep) /\ WF_vars(ToolStep)

-----------------------------------------------------------------------------
\* Properties.

\* The provider is never sent a call without its result or a result without
\* its call, whatever was aborted, retried or compacted before
\* (inference_runtime.py, project_inference_messages).
RequestsAcceptable == Acceptable(request)

\* What the model is asked is what the session says: a run after a crash would
\* ask the same (runner.py, _append and _compact; agent.py, SessionAgent._emit).
RequestIsTheSession == pc = "attempt" => request = Project(BuildContext(session))

\* Where a message is that was accepted: recorded in the session, drained, or
\* in its queue, and there at which position.
QueueOf(m) == IF m[1] = "steer" THEN steer ELSE followUp
Places(m) ==
    ({0} \X {i \in DOMAIN session : session[i] = User(m)})
    \cup ({1} \X {i \in DOMAIN pending : pending[i] = m})
    \cup ({2} \X {i \in DOMAIN QueueOf(m) : QueueOf(m)[i] = m})
Precedes(p, q) == p[1] < q[1] \/ (p[1] = q[1] /\ p[2] < q[2])

\* Until the run is over every accepted message is in one place, recorded, about
\* to be, or queued, unless the abort cleared it, and the messages of a kind are
\* there in the order in which they were accepted: no drain loses, repeats or
\* overtakes one (control.py, _drain, cancel; runner.py, _run_loop).
InputsInOrder ==
    pc # "done" =>
        /\ \A m \in AllMessages :
              IF m \in Range(accepted) \ cleared THEN \E p \in Places(m) : Places(m) = {p}
              ELSE Places(m) = {}
        /\ \A i, j \in DOMAIN accepted :
              i < j /\ accepted[i][1] = accepted[j][1] =>
                  \A p \in Places(accepted[i]), q \in Places(accepted[j]) : Precedes(p, q)

\* A run that ends because nothing is left to do has recorded every message it
\* accepted, but for those accepted after its last look at the queues or after
\* the abort, and the steering that waits when the answer to a turn without
\* tools overflowed (control.py, _release clears the queues; runner.py:280,
\* where the loop then ends with no look at the steering).
InputsAnswered ==
    pc = "done" /\ complete =>
        \A i \in DOMAIN accepted :
            \/ accepted[i] \in cleared \cup late
            \/ accepted[i][1] = "steer" /\ Overflowed /\ Compacts
            \/ \E j \in DOMAIN session : session[j] = User(accepted[i])

\* Attempts are numbered upwards over the whole run, and each has one
\* message_start and at most one message_end, which comes next
\* (inference_runtime.py, request; runner.py, _append).
AttemptsPaired ==
    \A i \in DOMAIN log :
        IF log[i].event = "end"
        THEN i > 1 /\ log[i - 1] = [event |-> "start", of |-> log[i].of]
        ELSE \A j \in 1 .. i - 1 : log[j].of < log[i].of

\* An abort may come while no task exists that it could cancel, and is then
\* seen only at the end of the turn: one more answer, never two.
AbortStops == aborted => replies <= repliesAtAbort + 1

\* A tool is at work after the run only if the run ended with an exception.
ToolsLeftBehind ==
    pc = "done" /\ (\E k \in DOMAIN calls : calls[k].stage \in AtWork) => raised

\* runner.py:82, "Execute one run without retaining state after the await
\* completes", and tool_runtime.py:26, which owns "all in-flight tool tasks".
ToolsEndWithRun == pc = "done" => \A k \in DOMAIN calls : calls[k].stage \notin AtWork

\* session.py:451-453: the summary of the latest compaction precedes the
\* retained tail, that is, the entries from firstKeptEntryId on and no others.
SummaryThenTail ==
    pc = "compacted" =>
        LET keep == Last(session).keep
        IN  context = <<Summary(Len(session))>> \o SubSeq(session, keep, Len(session) - 1)

\* runner.py:438 announces willRetry after the compaction of an overflow, and
\* tests/test_compaction.py:188 has "test_context_overflow_compacts_once_then_retries":
\* no run ends by itself with the answer that overflowed.
OverflowRetried == complete /\ Compacts => ~Overflowed


\* What the provider is sent is acceptable and what the session says.
RequestsFollow == RequestsAcceptable /\ RequestIsTheSession

\* The accepted input is kept in order while the run goes on, and recorded when
\* nothing is left to do.
InputsKept == InputsInOrder /\ InputsAnswered

\* Attempts are paired, an abort is followed by one more answer at most, and
\* no tool is left at work but by an exception.
RunIsOrderly == TypeOK /\ AttemptsPaired /\ AbortStops /\ ToolsLeftBehind
=============================================================================
