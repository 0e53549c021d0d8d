--------------------------- MODULE TurnLifecycle ----------------------------
(***************************************************************************)
(* The life of the Runtime's operations (runtime/service.py, coordinator): *)
(* turns, which turn.start registers and hands to a task of their own, and *)
(* commands (session navigate and compact), which run inside the request   *)
(* that asked for them.  All of them take their session's lock and then a  *)
(* permit of the service-wide semaphore; turn.cancel interferes with them  *)
(* at any await; every lifecycle event goes through the single worker of   *)
(* the SQLite projection, which the emitter waits for.                     *)
(*                                                                         *)
(* One value of pc[op] is one await of the coroutine that runs op; a step  *)
(* is what happens between two awaits.  A pending task.cancel() makes the  *)
(* next step of the coroutine raise CancelledError.                        *)
(***************************************************************************)
EXTENDS Naturals, Sequences, FiniteSets

CONSTANTS
    Turns,       \* operations started by turn.start
    Commands,    \* navigate and compact operations
    Sessions,
    SessionOf,   \* the session of every operation
    Permits,     \* max_concurrent_operations
    Disconnects, \* TRUE: a closed connection may cancel its requests
    Repeats,     \* operations that clients may send turn.cancel for again
    DiskFaults,  \* TRUE: writing or syncing a run_end may raise
    Shutdowns,   \* TRUE: a client may ask for system.shutdown
    Nobody       \* no operation

Ops == Turns \cup Commands

ASSUME OpsAssumption ==
    Turns \cap Commands = {} /\ Nobody \notin Ops /\ SessionOf \in [Ops -> Sessions]
ASSUME PermitsAssumption == Permits \in Nat \ {0}
ASSUME SwitchesAssumption ==
    Disconnects \in BOOLEAN /\ Repeats \subseteq Ops /\ DiskFaults \in BOOLEAN /\ Shutdowns \in BOOLEAN

InFlightStatuses == {"queued", "active", "cancelling"}
TerminalStatuses == {"completed", "failed", "cancelled"}
Statuses == InFlightStatuses \cup TerminalStatuses

\* Lifecycle events; "started" stands for operation.started, and so on.
TerminalEvents == {"completed", "failed", "cancelled"}
Events == {"created", "queued", "started", "cancelling"} \cup TerminalEvents

\* Awaits of a turn, in their order, and of a command (a subset of them).
\*   announce, enqueue     emits of turn.created / operation.queued
\*   ready                 task created, not yet run
\*   lock, permit          waiting for runtime.lock / the semaphore
\*   started               emit of operation.started
\*   prepare, run          building the agent / the agent's run
\*   runEnd, report, rename
\*                         append_run_end, terminal emit, automatic title
\*   cancelEnd, failEnd, failReport
\*                         the same in the two except clauses
\*   close, settle, farewell
\*                         finally: agent.close, queue.updated, cancelled emit
\*   done                  the coroutine returned
\*   gone                  an exception ended it, or it never ran
Inside == {"started", "prepare", "run", "runEnd", "report", "rename"}
Handler == {"cancelEnd", "failEnd", "failReport"}
Finally == {"close", "settle", "farewell"}
Stages == {"idle", "announce", "enqueue", "ready", "lock", "permit", "done", "gone"}
            \cup Inside \cup Handler \cup Finally

VARIABLES
    status,      \* Operation.status; "none" before it is registered
    requested,   \* Operation.cancel_requested
    pc,          \* where the coroutine that runs the operation awaits
    interrupted, \* a task.cancel() is pending on that coroutine
    agent,       \* Operation.agent: none, idle (no controller), running
    aborted,     \* the run was told to stop: its controller was cancelled, or
                 \* its model call came back aborted
    lock,        \* session -> the operation that holds runtime.lock
    permits,     \* the operations that hold a semaphore permit
    active,      \* session -> SessionRuntime.active
    runEnds,     \* statuses of the run_end entries in the session file
    ending,      \* how the finally clause ends: it returns, announces
                 \* operation.cancelled (terminal_event), or re-raises
    canceller,   \* the turn.cancel request that claimed the operation
    answered,    \* some turn.cancel answered cancelled: true
    published,   \* lifecycle events of the operation, in sequence order
    storeQueue,  \* events in the store worker, oldest first
    projected,   \* turns.status in SQLite; "none" when there is no row
    deaf,        \* the run goes on, or waits for a tool, in spite of a
                 \* cancellation, and nobody says that it ends
    server       \* serving; stopping, system.shutdown was accepted; stopped,
                 \* RuntimeService.close has cancelled the tasks

task == <<status, requested, pc, interrupted, agent, aborted, runEnds, ending>>
sharing == <<lock, permits, active>>
control == <<canceller, answered, deaf, server>>
stream == <<published, storeQueue, projected>>
vars == <<task, sharing, control, stream>>

TypeOK ==
    /\ status \in [Ops -> Statuses \cup {"none"}]
    /\ requested \in [Ops -> BOOLEAN]
    /\ pc \in [Ops -> Stages]
    /\ interrupted \in [Ops -> BOOLEAN]
    /\ agent \in [Ops -> {"none", "idle", "running"}]
    /\ aborted \in [Ops -> BOOLEAN]
    /\ lock \in [Sessions -> Ops \cup {Nobody}]
    /\ permits \subseteq Ops
    /\ active \in [Sessions -> Ops \cup {Nobody}]
    /\ runEnds \in [Ops -> Seq(TerminalStatuses)]
    /\ ending \in [Ops -> {"return", "announce", "raise"}]
    /\ canceller \in [Ops -> {"none", "opening", "emitting"}]
    /\ answered \in [Ops -> BOOLEAN]
    /\ deaf \in [Ops -> BOOLEAN]
    /\ published \in [Ops -> Seq(Events)]
    /\ storeQueue \in Seq([op : Ops, event : Events, live : BOOLEAN])
    /\ projected \in [Ops -> Statuses \cup {"none"}]
    /\ server \in {"serving", "stopping", "stopped"}

Init ==
    /\ status = [op \in Ops |-> "none"]
    /\ requested = [op \in Ops |-> FALSE]
    /\ pc = [op \in Ops |-> "idle"]
    /\ interrupted = [op \in Ops |-> FALSE]
    /\ agent = [op \in Ops |-> "none"]
    /\ aborted = [op \in Ops |-> FALSE]
    /\ lock = [s \in Sessions |-> Nobody]
    /\ permits = {}
    /\ active = [s \in Sessions |-> Nobody]
    /\ runEnds = [op \in Ops |-> <<>>]
    /\ ending = [op \in Ops |-> "return"]
    /\ canceller = [op \in Ops |-> "none"]
    /\ answered = [op \in Ops |-> FALSE]
    /\ deaf = [op \in Ops |-> FALSE]
    /\ published = [op \in Ops |-> <<>>]
    /\ storeQueue = <<>>
    /\ projected = [op \in Ops |-> "none"]
    /\ server = "serving"

-----------------------------------------------------------------------------
\* Events and the store worker.

\* RuntimeService._emit: the listener numbers the event and appends it to the
\* replay buffer at once, then waits for the store worker to project it.  The
\* listener is gone once the server has stopped.
Publish(op, event) ==
    IF server = "stopped"
    THEN UNCHANGED stream
    ELSE /\ published' = [published EXCEPT ![op] = Append(@, event)]
         /\ storeQueue' = Append(storeQueue, [op |-> op, event |-> event, live |-> TRUE])
         /\ UNCHANGED projected

Mine(op, item, cancelling) ==
    item.op = op /\ (item.event = "cancelling") = cancelling

\* A slip: the emitter does not wait for the store.
EmittedUnstored(op, cancelling) == cancelling \in BOOLEAN

\* The emit of the coroutine (or, when cancelling, of turn.cancel) returned.
Emitted(op, cancelling) ==
    \A i \in 1..Len(storeQueue) :
        ~(storeQueue[i].live /\ Mine(op, storeQueue[i], cancelling))

\* The emitter is cancelled before its project_event call was made.
Withdraw(op, cancelling) ==
    /\ storeQueue' = [i \in 1..Len(storeQueue) |->
                        [storeQueue[i] EXCEPT
                            !.live = @ /\ ~Mine(op, storeQueue[i], cancelling)]]
    /\ UNCHANGED <<published, projected>>

\* A slip: the event's name is stored for the status.
ProjectionOfName(event, old) ==
    IF event \in {"created", "queued"} THEN (IF old = "none" THEN "queued" ELSE old) ELSE event

\* RuntimeStore.ensure_turn, then project_event's status rule.
Projection(event, old) ==
    CASE event = "started" -> "active"
      [] event \in {"cancelling"} \cup TerminalEvents -> event
      [] OTHER -> IF old = "none" THEN "queued" ELSE old

\* The single worker of AsyncRuntimeStore takes calls in the order they came.
\* Here none of them raises: EventStream has the ones that do.
StoreStep ==
    /\ storeQueue # <<>>
    /\ storeQueue' = Tail(storeQueue)
    /\ LET item == Head(storeQueue) IN
         projected' = IF item.live
                      THEN [projected EXCEPT ![item.op] = Projection(item.event, @)]
                      ELSE projected
    /\ UNCHANGED <<task, sharing, control, published>>

-----------------------------------------------------------------------------
\* Starting an operation.

\* A step between two awaits, when no cancellation is pending.
Step(op, from, to) ==
    /\ pc[op] = from /\ ~interrupted[op]
    /\ pc' = [pc EXCEPT ![op] = to]

\* turn_start, once run_start is in the session file.
StartTurn(op) ==
    /\ server # "stopped"
    /\ op \in Turns /\ Step(op, "idle", "announce")
    /\ status' = [status EXCEPT ![op] = "queued"]
    /\ Publish(op, "created")
    /\ UNCHANGED <<requested, interrupted, agent, aborted, runEnds, ending, sharing, control>>

AnnounceQueued(op) ==
    /\ Step(op, "announce", "enqueue") /\ Emitted(op, FALSE)
    /\ Publish(op, "queued")
    /\ UNCHANGED <<status, requested, interrupted, agent, aborted, runEnds, ending,
                   sharing, control>>

\* asyncio.create_task; turn_start returns.
Launch(op) ==
    /\ op \in Turns /\ Step(op, "enqueue", "ready") /\ Emitted(op, FALSE)
    /\ UNCHANGED <<status, requested, interrupted, agent, aborted, runEnds, ending,
                   sharing, control, stream>>

\* _session_operation of session_navigate and session_compact.
StartCommand(op) ==
    /\ server # "stopped"
    /\ op \in Commands /\ Step(op, "idle", "enqueue")
    /\ status' = [status EXCEPT ![op] = "queued"]
    /\ Publish(op, "queued")
    /\ UNCHANGED <<requested, interrupted, agent, aborted, runEnds, ending, sharing, control>>

\* The task's first step, or the command's next one: on to the lock.
Approach(op) ==
    /\ \/ op \in Turns /\ Step(op, "ready", "lock")
       \/ op \in Commands /\ Step(op, "enqueue", "lock") /\ Emitted(op, FALSE)
    /\ UNCHANGED <<status, requested, interrupted, agent, aborted, runEnds, ending,
                   sharing, control, stream>>

TakeLock(op) ==
    /\ Step(op, "lock", "permit")
    /\ lock[SessionOf[op]] = Nobody
    /\ lock' = [lock EXCEPT ![SessionOf[op]] = op]
    /\ UNCHANGED <<status, requested, interrupted, agent, aborted, runEnds, ending,
                   permits, active, control, stream>>

\* Slips: the permit, or the lock, is kept.
ReleaseLockOnly(op) ==
    /\ lock' = [lock EXCEPT ![SessionOf[op]] = IF @ = op THEN Nobody ELSE @]
    /\ UNCHANGED permits

ReleasePermitOnly(op) == permits' = permits \ {op} /\ UNCHANGED lock

\* Leaving "async with runtime.lock, self._semaphore".
Release(op) ==
    /\ lock' = [lock EXCEPT ![SessionOf[op]] = IF @ = op THEN Nobody ELSE @]
    /\ permits' = permits \ {op}

\* A permit is free.  A turn looks at cancel_requested first; a command does
\* not look, and overwrites the status turn.cancel gave it.
Enter(op) ==
    /\ Step(op, "permit", "started")
    /\ Cardinality(permits) < Permits
    /\ op \in Commands \/ ~requested[op]
    /\ permits' = permits \cup {op}
    /\ status' = [status EXCEPT ![op] = "active"]
    /\ active' = [active EXCEPT ![SessionOf[op]] = op]
    /\ Publish(op, "started")
    /\ UNCHANGED <<requested, interrupted, agent, aborted, runEnds, ending, lock, control>>

EnterCancelled(op) ==
    /\ op \in Turns /\ Step(op, "permit", "cancelEnd")
    /\ Cardinality(permits) < Permits
    /\ requested[op]
    /\ status' = [status EXCEPT ![op] = "cancelled"]
    /\ Release(op)
    /\ UNCHANGED <<requested, interrupted, agent, aborted, runEnds, ending, active,
                   control, stream>>

-----------------------------------------------------------------------------
\* Running.

Prepare(op) ==
    /\ Step(op, "started", "prepare") /\ Emitted(op, FALSE)
    /\ UNCHANGED <<status, requested, interrupted, agent, aborted, runEnds, ending,
                   sharing, control, stream>>

\* operation.agent = await self._new_agent(...); a command runs it at once.
BuildAgent(op) ==
    /\ Step(op, "prepare", IF op \in Turns THEN "prepare" ELSE "run")
    /\ agent[op] = "none"
    /\ agent' = [agent EXCEPT ![op] = "idle"]
    /\ UNCHANGED <<status, requested, interrupted, aborted, runEnds, ending,
                   sharing, control, stream>>

\* SessionAgent.prompt binds a RunController and enters run_agent.
BeginRun(op) ==
    /\ op \in Turns /\ Step(op, "prepare", "run")
    /\ agent[op] = "idle"
    /\ agent' = [agent EXCEPT ![op] = "running"]
    /\ UNCHANGED <<status, requested, interrupted, aborted, runEnds, ending,
                   sharing, control, stream>>

\* A slip: the stop reason alone decides.
EndRunByReason(op, reason) ==
    /\ op \in Turns /\ Step(op, "run", "runEnd")
    /\ reason = "aborted" => aborted[op]
    /\ agent' = [agent EXCEPT ![op] = "idle"]
    /\ status' = [status EXCEPT ![op] =
                    CASE reason = "aborted" -> "cancelled"
                      [] reason = "error" -> "failed"
                      [] OTHER -> "completed"]
    /\ UNCHANGED <<requested, interrupted, aborted, runEnds, ending, sharing, control, stream>>

\* The run returns its stop reason and the turn takes its terminal status.
EndRun(op, reason) ==
    /\ op \in Turns /\ Step(op, "run", "runEnd")
    /\ reason = "aborted" => aborted[op]
    /\ agent' = [agent EXCEPT ![op] = "idle"]
    /\ status' = [status EXCEPT ![op] =
                    IF requested[op] \/ reason = "aborted" THEN "cancelled"
                    ELSE IF reason = "error" THEN "failed" ELSE "completed"]
    /\ UNCHANGED <<requested, interrupted, aborted, runEnds, ending, sharing, control, stream>>

\* A slip: the operation keeps its status.
FailUnmarked(op) ==
    /\ op \in Turns /\ \E from \in {"prepare", "run"} : Step(op, from, "failEnd")
    /\ agent' = [agent EXCEPT ![op] = IF @ = "none" THEN "none" ELSE "idle"]
    /\ Release(op)
    /\ UNCHANGED <<status, requested, interrupted, aborted, runEnds, ending, active, control,
                   stream>>

\* "except Exception": preparing or running the agent raised.
Fail(op) ==
    /\ op \in Turns /\ \E from \in {"prepare", "run"} : Step(op, from, "failEnd")
    /\ status' = [status EXCEPT ![op] = "failed"]
    /\ agent' = [agent EXCEPT ![op] = IF @ = "none" THEN "none" ELSE "idle"]
    /\ Release(op)
    /\ UNCHANGED <<requested, interrupted, aborted, runEnds, ending, active, control, stream>>

\* A slip: operation.cancelled goes out at once and again in the finally clause.
WriteRunEndAndReport(op) ==
    /\ pc[op] = "runEnd" /\ ~interrupted[op]
    /\ runEnds' = [runEnds EXCEPT ![op] = Append(@, status[op])]
    /\ pc' = [pc EXCEPT ![op] = "report"]
    /\ ending' = [ending EXCEPT ![op] = IF status[op] = "cancelled" THEN "announce" ELSE @]
    /\ Publish(op, status[op])
    /\ UNCHANGED <<status, requested, interrupted, agent, aborted, sharing, control>>

\* append_run_end of a run that returned.
WriteRunEnd(op) ==
    /\ pc[op] = "runEnd" /\ ~interrupted[op]
    /\ runEnds' = [runEnds EXCEPT ![op] = Append(@, status[op])]
    /\ IF status[op] = "cancelled"
       THEN /\ pc' = [pc EXCEPT ![op] = "close"]
            /\ ending' = [ending EXCEPT ![op] = "announce"]
            /\ Release(op)
            /\ UNCHANGED stream
       ELSE /\ pc' = [pc EXCEPT ![op] = "report"]
            /\ Publish(op, status[op])
            /\ UNCHANGED <<ending, lock, permits>>
    /\ UNCHANGED <<status, requested, interrupted, agent, aborted, active, control>>

\* append_run_end raises, before or after its line is in the file.
RunEndFails(op) ==
    /\ DiskFaults
    /\ Step(op, "runEnd", "failEnd")
    /\ status' = [status EXCEPT ![op] = "failed"]
    /\ \/ UNCHANGED runEnds
       \/ runEnds' = [runEnds EXCEPT ![op] = Append(@, status[op])]
    /\ Release(op)
    /\ UNCHANGED <<requested, interrupted, agent, aborted, ending, active, control, stream>>

\* A completed prompt of an untitled session asks the model for a title while
\* it still holds the lock and the permit.
Retitle(op) ==
    /\ op \in Turns /\ Step(op, "report", "rename") /\ Emitted(op, FALSE)
    /\ status[op] = "completed"
    /\ UNCHANGED <<status, requested, interrupted, agent, aborted, runEnds, ending,
                   sharing, control, stream>>

Leave(op) ==
    /\ op \in Turns
    /\ \E from \in {"report", "rename"} : Step(op, from, "close")
    /\ Emitted(op, FALSE)
    /\ Release(op)
    /\ UNCHANGED <<status, requested, interrupted, agent, aborted, runEnds, ending,
                   active, control, stream>>

-----------------------------------------------------------------------------
\* The except and finally clauses of a turn.

\* A slip: whatever is active is cleared.
ClearAnyActive(op) == active' = [active EXCEPT ![SessionOf[op]] = Nobody]

\* "if runtime.active is operation: runtime.active = None"
ClearActive(op) ==
    active' = [active EXCEPT ![SessionOf[op]] = IF @ = op THEN Nobody ELSE @]

\* Into the finally clause: await agent.close() when there is an agent.
ToFinally(op) ==
    IF agent[op] = "none"
    THEN pc' = [pc EXCEPT ![op] = "settle"] /\ ClearActive(op)
    ELSE pc' = [pc EXCEPT ![op] = "close"] /\ UNCHANGED active

WriteCancelEnd(op) ==
    /\ pc[op] = "cancelEnd" /\ ~interrupted[op]
    /\ runEnds' = [runEnds EXCEPT ![op] = Append(@, "cancelled")]
    /\ ending' = [ending EXCEPT ![op] = "announce"]
    /\ ToFinally(op)
    /\ UNCHANGED <<status, requested, interrupted, agent, aborted, lock, permits,
                   control, stream>>

WriteFailEnd(op) ==
    /\ Step(op, "failEnd", "failReport")
    /\ runEnds' = [runEnds EXCEPT ![op] = Append(@, "failed")]
    /\ Publish(op, "failed")
    /\ UNCHANGED <<status, requested, interrupted, agent, aborted, ending, sharing, control>>

\* append_run_end raises inside an except clause: nothing is announced.
HandlerFails(op) ==
    /\ DiskFaults
    /\ pc[op] \in {"cancelEnd", "failEnd"} /\ ~interrupted[op]
    /\ ending' = [ending EXCEPT ![op] = "raise"]
    /\ ToFinally(op)
    /\ UNCHANGED <<status, requested, interrupted, agent, aborted, runEnds, lock, permits,
                   control, stream>>

FailReported(op) ==
    /\ pc[op] = "failReport" /\ ~interrupted[op] /\ Emitted(op, FALSE)
    /\ ToFinally(op)
    /\ UNCHANGED <<status, requested, interrupted, agent, aborted, runEnds, ending,
                   lock, permits, control, stream>>

Close(op) ==
    /\ op \in Turns /\ Step(op, "close", "settle")
    /\ agent' = [agent EXCEPT ![op] = "none"]
    /\ ClearActive(op)
    /\ UNCHANGED <<status, requested, interrupted, aborted, runEnds, ending, lock, permits,
                   control, stream>>

\* queue.updated is out; operation.cancelled comes last.
Settle(op) ==
    /\ pc[op] = "settle" /\ ~interrupted[op]
    /\ pc' = [pc EXCEPT ![op] = CASE ending[op] = "announce" -> "farewell"
                                  [] ending[op] = "return" -> "done"
                                  [] OTHER -> "gone"]
    /\ IF ending[op] = "announce" THEN Publish(op, "cancelled") ELSE UNCHANGED stream
    /\ UNCHANGED <<status, requested, interrupted, agent, aborted, runEnds, ending,
                   sharing, control>>

Finish(op) ==
    /\ Step(op, "farewell", "done") /\ Emitted(op, FALSE)
    /\ UNCHANGED <<status, requested, interrupted, agent, aborted, runEnds, ending,
                   sharing, control, stream>>

-----------------------------------------------------------------------------
\* CancelledError in the task of a turn: task.cancel() comes from turn.cancel,
\* when no controller is bound, or from RuntimeService.close.

\* The coroutine never began: its try and finally are not entered.
InterruptReady(op) ==
    /\ pc[op] = "ready" /\ interrupted[op]
    /\ pc' = [pc EXCEPT ![op] = "gone"]
    /\ interrupted' = [interrupted EXCEPT ![op] = FALSE]
    /\ UNCHANGED <<status, requested, agent, aborted, runEnds, ending, sharing, control, stream>>

\* "except asyncio.CancelledError" before the run_end of the run was noted as
\* written; its line may be in the file all the same.
InterruptBody(op) ==
    /\ pc[op] \in {"lock", "permit", "started", "prepare", "run", "runEnd"} /\ interrupted[op]
    /\ pc' = [pc EXCEPT ![op] = "cancelEnd"]
    /\ interrupted' = [interrupted EXCEPT ![op] = FALSE]
    /\ status' = [status EXCEPT ![op] = "cancelled"]
    /\ agent' = [agent EXCEPT ![op] = IF @ = "none" THEN "none" ELSE "idle"]
    /\ \/ UNCHANGED runEnds
       \/ pc[op] = "runEnd" /\ runEnds' = [runEnds EXCEPT ![op] = Append(@, status[op])]
    /\ Release(op)
    /\ Withdraw(op, FALSE)
    /\ UNCHANGED <<requested, aborted, ending, active, control>>

\* The await that is cancelled makes an ordinary end of it: a model call comes
\* back aborted, and so does the run; a sequential tool call has a result that
\* says so, and the run goes on for as long as it likes.
Absorb(op) ==
    /\ op \in Turns /\ pc[op] = "run" /\ interrupted[op]
    /\ interrupted' = [interrupted EXCEPT ![op] = FALSE]
    /\ \/ aborted' = [aborted EXCEPT ![op] = TRUE] /\ UNCHANGED deaf
       \/ deaf' = [deaf EXCEPT ![op] = TRUE] /\ UNCHANGED aborted
    /\ UNCHANGED <<status, requested, pc, agent, runEnds, ending, sharing, canceller, answered,
                   server, stream>>

\* A tool that the cancellation does not reach: it was started after it, in a
\* parallel batch, or a process that is out of reach holds its pipes.
Deafen(op) ==
    /\ op \in Turns /\ pc[op] = "run" /\ (aborted[op] \/ interrupted[op])
    /\ deaf' = [deaf EXCEPT ![op] = TRUE]
    /\ UNCHANGED <<task, sharing, canceller, answered, server, stream>>

\* The same after the run_end was noted (only shutdown cancels a task there):
\* the status is overwritten, nothing is written or announced.
InterruptReported(op) ==
    /\ op \in Turns /\ pc[op] \in {"report", "rename"} /\ interrupted[op]
    /\ interrupted' = [interrupted EXCEPT ![op] = FALSE]
    /\ status' = [status EXCEPT ![op] = "cancelled"]
    /\ ToFinally(op)
    /\ Release(op)
    /\ Withdraw(op, FALSE)
    /\ UNCHANGED <<requested, agent, aborted, runEnds, ending, control>>

\* Raised inside an except clause: on to the finally clause, with neither
\* terminal_event set nor the rest of the clause run.
InterruptHandler(op) ==
    /\ pc[op] \in Handler /\ interrupted[op]
    /\ interrupted' = [interrupted EXCEPT ![op] = FALSE]
    /\ \/ UNCHANGED runEnds
       \/ /\ pc[op] \in {"cancelEnd", "failEnd"}
          /\ runEnds' = [runEnds EXCEPT ![op] = Append(@, status[op])]
    /\ ending' = [ending EXCEPT ![op] = "raise"]
    /\ ToFinally(op)
    /\ Withdraw(op, FALSE)
    /\ UNCHANGED <<status, requested, agent, aborted, lock, permits, control>>

\* Raised inside the finally clause: the rest of it is not run.
InterruptFinally(op) ==
    /\ op \in Turns /\ pc[op] \in Finally /\ interrupted[op]
    /\ pc' = [pc EXCEPT ![op] = "gone"]
    /\ interrupted' = [interrupted EXCEPT ![op] = FALSE]
    /\ Withdraw(op, FALSE)
    /\ UNCHANGED <<status, requested, agent, aborted, runEnds, ending, sharing, control>>

-----------------------------------------------------------------------------
\* Commands, after BuildAgent.

\* _new_agent raises before the try of _session_operation: the locks go, the
\* status and runtime.active stay.
CommandUnbuilt(op) ==
    /\ op \in Commands /\ Step(op, "prepare", "gone")
    /\ Release(op)
    /\ UNCHANGED <<status, requested, interrupted, agent, aborted, runEnds, ending,
                   active, control, stream>>

CommandResult(op, result) ==
    /\ op \in Commands /\ Step(op, "run", "report")
    /\ status' = [status EXCEPT ![op] = result]
    /\ Publish(op, result)
    /\ UNCHANGED <<requested, interrupted, agent, aborted, runEnds, ending, sharing, control>>

CommandReported(op) ==
    /\ op \in Commands /\ Step(op, "report", "close") /\ Emitted(op, FALSE)
    /\ UNCHANGED <<status, requested, interrupted, agent, aborted, runEnds, ending,
                   sharing, control, stream>>

\* finally, still under the lock: close the agent, runtime.active = None.
CommandClose(op) ==
    /\ op \in Commands /\ Step(op, "close", "done")
    /\ agent' = [agent EXCEPT ![op] = "none"]
    /\ active' = [active EXCEPT ![SessionOf[op]] = Nobody]
    /\ Release(op)
    /\ UNCHANGED <<status, requested, interrupted, aborted, runEnds, ending, control, stream>>

-----------------------------------------------------------------------------
\* turn.cancel.

\* A slip: whatever is not being cancelled can be.
ClaimAnyCancel(op) ==
    /\ server # "stopped"
    /\ status[op] \notin {"none", "cancelling"}
    /\ requested' = [requested EXCEPT ![op] = TRUE]
    /\ status' = [status EXCEPT ![op] = "cancelling"]
    /\ canceller' = [canceller EXCEPT ![op] = "opening"]
    /\ UNCHANGED <<pc, interrupted, agent, aborted, runEnds, ending, sharing, answered, deaf, server, stream>>

\* It found a queued or active operation: it marks it, then opens the session.
ClaimCancel(op) ==
    /\ server # "stopped"
    /\ status[op] \in {"queued", "active"}
    /\ requested' = [requested EXCEPT ![op] = TRUE]
    /\ status' = [status EXCEPT ![op] = "cancelling"]
    /\ canceller' = [canceller EXCEPT ![op] = "opening"]
    /\ UNCHANGED <<pc, interrupted, agent, aborted, runEnds, ending, sharing, answered, deaf, server, stream>>

AnnounceCancel(op) ==
    /\ canceller[op] = "opening"
    /\ canceller' = [canceller EXCEPT ![op] = "emitting"]
    /\ Publish(op, "cancelling")
    /\ UNCHANGED <<task, sharing, answered, deaf, server>>

HasTask(op) == op \in Turns /\ pc[op] \notin {"idle", "announce", "enqueue"}

\* A slip: only the task is cancelled, never a run with a bound controller.
DeliverToTask(op) ==
    /\ canceller[op] = "emitting" /\ Emitted(op, TRUE)
    /\ canceller' = [canceller EXCEPT ![op] = "none"]
    /\ interrupted' = [interrupted EXCEPT ![op] =
            @ \/ (HasTask(op) /\ agent[op] # "running" /\ pc[op] \notin {"done", "gone"})]
    /\ answered' = [answered EXCEPT ![op] = TRUE]
    /\ UNCHANGED <<status, requested, pc, agent, aborted, runEnds, ending, sharing, deaf, server, stream>>

\* With a task and no bound controller the task is cancelled; with a bound
\* controller the run is aborted; an agent without task or controller (a
\* command's) makes abort() raise, so that the request fails.
DeliverCancel(op) ==
    /\ canceller[op] = "emitting" /\ Emitted(op, TRUE)
    /\ canceller' = [canceller EXCEPT ![op] = "none"]
    /\ interrupted' = [interrupted EXCEPT ![op] =
            @ \/ (HasTask(op) /\ agent[op] # "running" /\ pc[op] \notin {"done", "gone"})]
    /\ aborted' = [aborted EXCEPT ![op] = @ \/ agent[op] = "running"]
    /\ answered' = [answered EXCEPT ![op] =
            @ \/ HasTask(op) \/ agent[op] = "none"]
    /\ UNCHANGED <<status, requested, pc, agent, runEnds, ending, sharing, deaf, server, stream>>

\* A further turn.cancel only reports what the first one did.
RepeatCancel(op) ==
    /\ op \in Repeats
    /\ server # "stopped"
    /\ status[op] = "cancelling" /\ ~answered[op]
    /\ answered' = [answered EXCEPT ![op] = TRUE]
    /\ UNCHANGED <<task, sharing, canceller, deaf, server, stream>>

-----------------------------------------------------------------------------
\* The connection closes and its request tasks are cancelled.

\* turn_start, after it registered the operation and before it made the task.
AbandonStart(op) ==
    /\ Disconnects
    /\ op \in Turns /\ pc[op] \in {"announce", "enqueue"}
    /\ pc' = [pc EXCEPT ![op] = "gone"]
    /\ Withdraw(op, FALSE)
    /\ UNCHANGED <<status, requested, interrupted, agent, aborted, runEnds, ending,
                   sharing, control>>

\* _session_operation has no clause for CancelledError: inside its try only
\* the finally clause runs.
AbandonCommand(op) ==
    /\ Disconnects
    /\ op \in Commands
    /\ \/ /\ pc[op] \in {"enqueue", "lock", "permit", "started", "prepare", "close"}
          /\ pc' = [pc EXCEPT ![op] = "gone"]
          /\ Release(op)
       \/ /\ pc[op] \in {"run", "report"}
          /\ pc' = [pc EXCEPT ![op] = "close"]
          /\ UNCHANGED <<lock, permits>>
    /\ Withdraw(op, FALSE)
    /\ UNCHANGED <<status, requested, interrupted, agent, aborted, runEnds, ending,
                   active, control>>

\* turn.cancel itself, before it reached the task or the agent.
AbandonCancel(op) ==
    /\ Disconnects
    /\ canceller[op] # "none"
    /\ canceller' = [canceller EXCEPT ![op] = "none"]
    /\ Withdraw(op, TRUE)
    /\ UNCHANGED <<task, sharing, answered, deaf, server>>

-----------------------------------------------------------------------------
\* Stopping the Runtime.

\* system.shutdown: refused while operations are in flight; otherwise the stop
\* event is set a moment later, and requests are served until then.
AcceptShutdown ==
    /\ Shutdowns /\ server = "serving"
    /\ \A op \in Ops : status[op] \notin InFlightStatuses
    /\ server' = "stopping"
    /\ UNCHANGED <<task, sharing, canceller, answered, deaf, stream>>

NoRequests ==
    /\ \A op \in Turns : pc[op] \notin {"announce", "enqueue"}
    /\ \A op \in Commands : pc[op] \in {"idle", "done", "gone"}
    /\ \A op \in Ops : canceller[op] = "none"

RunningTasks == {op \in Turns : pc[op] \notin {"idle", "announce", "enqueue", "done", "gone"}}

\* A slip: only the task of the active turn is cancelled.
StopActive ==
    /\ server = "stopping" /\ NoRequests
    /\ server' = "stopped"
    /\ interrupted' = [op \in Ops |->
            interrupted[op] \/ (op \in RunningTasks /\ active[SessionOf[op]] = op)]
    /\ UNCHANGED <<status, requested, pc, agent, aborted, runEnds, ending, sharing,
                   canceller, answered, deaf, stream>>

\* The connections are closed and their requests have ended; the event listener
\* is removed and RuntimeService.close cancels the tasks that are not done.
Stop ==
    /\ server = "stopping" /\ NoRequests
    /\ server' = "stopped"
    /\ interrupted' = [op \in Ops |-> interrupted[op] \/ op \in RunningTasks]
    /\ UNCHANGED <<status, requested, pc, agent, aborted, runEnds, ending, sharing,
                   canceller, answered, deaf, stream>>

-----------------------------------------------------------------------------
\* A run that need not end, though it was cancelled.
Stuck(op) == pc[op] = "run" /\ deaf[op]

\* What the event loop runs by itself,
Advance(op) ==
    \/ AnnounceQueued(op) \/ Launch(op) \/ Approach(op) \/ TakeLock(op)
    \/ Enter(op) \/ EnterCancelled(op) \/ Prepare(op) \/ BuildAgent(op) \/ BeginRun(op)
    \/ (~Stuck(op) /\ EndRun(op, "aborted")) \/ WriteRunEnd(op) \/ Retitle(op) \/ Leave(op)
    \/ WriteCancelEnd(op) \/ WriteFailEnd(op) \/ FailReported(op)
    \/ Close(op) \/ Settle(op) \/ Finish(op)
    \/ InterruptReady(op) \/ (~Stuck(op) /\ InterruptBody(op)) \/ InterruptReported(op)
    \/ InterruptHandler(op) \/ InterruptFinally(op)
    \/ CommandReported(op) \/ CommandClose(op)

\* how models, tools, summaries and file writes may end, if they ever do,
Outcome(op) ==
    \/ Stuck(op) /\ (EndRun(op, "aborted") \/ InterruptBody(op))
    \/ EndRun(op, "stop") \/ EndRun(op, "error") \/ Fail(op)
    \/ RunEndFails(op) \/ HandlerFails(op)
    \/ CommandUnbuilt(op) \/ CommandResult(op, "completed") \/ CommandResult(op, "failed")

\* and what a cancellation may come upon.
Escape(op) == Absorb(op) \/ Deafen(op)

CancelStep(op) == AnnounceCancel(op) \/ DeliverCancel(op)

\* What clients do.
Client(op) ==
    \/ StartTurn(op) \/ StartCommand(op) \/ ClaimCancel(op) \/ RepeatCancel(op)
    \/ AbandonStart(op) \/ AbandonCommand(op) \/ AbandonCancel(op)

Next ==
    \/ StoreStep
    \/ \E op \in Ops : Advance(op) \/ Outcome(op) \/ Escape(op) \/ CancelStep(op) \/ Client(op)
    \/ AcceptShutdown
    \/ Stop

Spec == Init /\ [][Next]_vars

\* Wake-ups are run, file writes end, the locks are first come first served,
\* the store worker takes every call, and a stop goes through; a run need not
\* end by itself, nor by a cancellation that its tools do not heed.
FairSpec ==
    /\ Spec
    /\ WF_vars(StoreStep)
    /\ \A op \in Ops :
          WF_vars(Advance(op)) /\ WF_vars(CancelStep(op))
    /\ WF_vars(Stop)

\* The model calls and the tools come to their ends too.
EndingSpec == FairSpec /\ \A op \in Ops : WF_vars(Outcome(op))

-----------------------------------------------------------------------------
Terminal(op) == status[op] \in TerminalStatuses
Over(op) == pc[op] \in {"done", "gone"}

\* Between taking runtime.lock and leaving the "async with" (for a command,
\* its finally clause included).
InLock(op) ==
    pc[op] \in {"permit"} \cup Inside \/ (op \in Commands /\ pc[op] = "close")
InPermit(op) == InLock(op) /\ pc[op] # "permit"

\* The locks are held by exactly the operations inside them, whatever was
\* cancelled or raised where: at most one operation of a session runs, at most
\* Permits run in all, and nothing that ended keeps a session blocked.
LocksExact ==
    /\ \A s \in Sessions : lock[s] # Nobody => SessionOf[lock[s]] = s /\ InLock(lock[s])
    /\ \A op \in Ops : InLock(op) => lock[SessionOf[op]] = op
    /\ permits = {op \in Ops : InPermit(op)}
    /\ Cardinality(permits) <= Permits

\* runtime.active names the operation that runs, although an earlier operation
\* of the session clears it in its finally clause after it gave up the lock.
ActiveIsInside ==
    \A op \in Ops : InPermit(op) => active[SessionOf[op]] = op

\* A terminal status never changes again: not by a late turn.cancel, nor by
\* the except clauses of the turn.
TerminalIsFinal == [][\A op \in Ops : Terminal(op) => status'[op] = status[op]]_vars

\* The run_end entries of a turn, of which a cancellation can leave two, all
\* record one status, the one the operation ended with.
RunEndsAgree ==
    \A op \in Turns : \A i \in 1..Len(runEnds[op]) : runEnds[op][i] = status[op]

TerminalsOf(op) == {i \in 1..Len(published[op]) : published[op][i] \in TerminalEvents}

\* At most one terminal event is published for an operation, and it is the
\* operation's status.
OneTerminalEvent ==
    \A op \in Ops :
        /\ \A i, j \in TerminalsOf(op) : i = j
        /\ \A i \in TerminalsOf(op) : published[op][i] = status[op]

\* A turn nobody cancelled ends with the same status in memory, in SQLite and
\* in its one run_end entry, as long as the store calls do not raise.
UncancelledTurnsAgree ==
    \A op \in Turns :
        ~requested[op] /\ pc[op] = "done" =>
            /\ Terminal(op)
            /\ projected[op] = status[op]
            /\ runEnds[op] = <<status[op]>>

\* Without disconnects, a turn that is in flight with nobody left to end it
\* was cancelled: before its task's first step or in its finally clause.
OrphansWereCancelled ==
    \A op \in Turns : Over(op) /\ ~Terminal(op) => requested[op]

\* Every launched turn comes to an end, however turns queue behind each other.
TurnsEnd == \A op \in Turns : (pc[op] = "ready") ~> Over(op)

\* A turn.cancel that finds the turn's task ends the turn, even when its run
\* would go on for ever or another run keeps it waiting for ever; but not a run
\* that waits for a tool which the cancellation does not reach.  A later
\* turn.cancel does nothing about it (service.py, turn_cancel).
CancelEndsTurn ==
    \A op \in Turns : (canceller[op] = "emitting" /\ HasTask(op)) ~> (Over(op) \/ Stuck(op))

\* A stopped Runtime comes to rest: service.close cancels every task and waits
\* for all of them, whatever they were doing and however runs would go on; it
\* waits for ever for a run that absorbed its cancellation in a tool call, or
\* whose tool does not end (tool_runtime.py, execute_calls; shell.py, execute).
StopEndsAll ==
    (server = "stopped") ~> (\A op \in Turns : Over(op) \/ pc[op] = "idle" \/ Stuck(op))

\* coordinator.py on active_count: "A queued operation is still owned by the
\* Runtime".  An operation that counts as in flight has a coroutine to end it.
InFlightIsOwned ==
    \A op \in Ops : status[op] \in InFlightStatuses => ~Over(op)

\* tests/test_cancellation.py calls turn_cancel idempotent: when it has said
\* cancelled: true and no request is still at work, the run was told to stop.
CancelTookEffect ==
    \A op \in Turns :
        answered[op] /\ canceller[op] = "none" /\ pc[op] = "run" => aborted[op]

\* A turn has one terminal event, and what SQLite says of a turn that nobody
\* cancelled agrees with it.
EventsAgree == OneTerminalEvent /\ UncancelledTurnsAgree

\* Turns that queue behind each other end once each: the active one is the one
\* inside, each has one terminal event, and what is left in flight without a
\* task was cancelled.
TurnsEndOnce == ActiveIsInside /\ OneTerminalEvent /\ OrphansWereCancelled
=============================================================================
