------------------------------ MODULE ShellTool ------------------------------
(***************************************************************************)
(* A call of the bash tool (tool/shell.py, tool/process.py): the command   *)
(* and what it leaves behind, the two pumps that take its output to a      *)
(* temporary file, the timeout, and the cancellations of the call.         *)
(*                                                                         *)
(* A child of the command is in its process group, with the pipes          *)
(* ("group") or with its output elsewhere ("quiet"), or it has the pipes   *)
(* and a session of its own ("away").  Up to Python 3.12.4 Process.wait()  *)
(* returns only when the pipes are at their ends too (job.waits).          *)
(***************************************************************************)
EXTENDS Naturals, FiniteSets

CONSTANTS
    ShellJobs,  \* [timed, waits, stubborn, child, chunks]; stubborn: it ignores SIGTERM
    MaxCancels,
    None

Streams == {"out", "err"}

\* What the StreamReader takes off a pipe unasked, and what the pipe holds.
ReaderRoom == 1
PipeRoom == 1

VARIABLES
    job,
    procs,      \* of "leader" and "child", those that run
    termed,     \* the group was sent SIGTERM
    written,    \* stream -> what the command has written
    read,       \* stream -> what a pump has read
    collected,  \* stream -> what is in the file and in the output
    pump,
    pc,
    result,     \* what the call returns or raises once it has cleaned up
    completed,
    descriptor, \* the temporary file is open
    file,       \* "none", or the suffix of the file there is: "tmp", "log"
    cancels,
    cutAt       \* where the last cancellation found the call

shellVars == <<job, procs, termed, written, read, collected, pump, pc, result, completed,
               descriptor, file, cancels, cutAt>>

PumpEnds == {"done", "failed", "cut"}
Results == {None, "ok", "timeout", "cancelled", "failed"}

TypeOK ==
    /\ job \in ShellJobs /\ procs \subseteq {"leader", "child"}
    /\ termed \in BOOLEAN /\ completed \in BOOLEAN /\ descriptor \in BOOLEAN
    /\ \A s \in Streams : /\ collected[s] <= read[s] /\ read[s] <= written[s]
                          /\ written[s] <= read[s] + ReaderRoom + PipeRoom
                          /\ pump[s] \in PumpEnds \cup {"none", "reading", "writing", "telling"}
    /\ result \in Results /\ file \in {"none", "tmp", "log"} /\ cancels \in 0 .. MaxCancels
    /\ pc = "waiting" => descriptor /\ file = "tmp"

Init ==
    /\ job \in ShellJobs /\ procs = {} /\ termed = FALSE
    /\ written = [s \in Streams |-> 0] /\ read = written /\ collected = written
    /\ pump = [s \in Streams |-> "none"] /\ pc = "spawn" /\ result = None
    /\ completed = FALSE /\ descriptor = FALSE /\ file = "none" /\ cancels = 0 /\ cutAt = None

Ended == pc = "ended"

----------------------------------------------------------------------------
(* The command.                                                            *)

Group == IF job.child = "away" THEN procs \ {"child"} ELSE procs
Holders == IF job.child = "quiet" THEN procs \ {"child"} ELSE procs

CommandWrites(s) ==
    /\ "leader" \in procs /\ written[s] < job.chunks[s]
    /\ written[s] < read[s] + ReaderRoom + PipeRoom
    /\ written' = [written EXCEPT ![s] = @ + 1]
    /\ UNCHANGED <<job, procs, termed, read, collected, pump, pc, result, completed,
                   descriptor, file, cancels, cutAt>>

ProcessGoes(p) ==
    /\ p \in procs /\ procs' = procs \ {p}
    /\ UNCHANGED <<job, termed, written, read, collected, pump, pc, result, completed,
                   descriptor, file, cancels, cutAt>>

Exits(p) ==
    /\ p = "leader" => \A s \in Streams : written[s] = job.chunks[s]
    /\ ProcessGoes(p)

Dies(p) == termed /\ ~job.stubborn /\ p \in Group /\ ProcessGoes(p)

AtEnd(s) == Holders = {} /\ written[s] <= read[s] + ReaderRoom

WaitReturns == "leader" \notin procs /\ (job.waits => \A s \in Streams : AtEnd(s))

----------------------------------------------------------------------------
(* pump()                                                                  *)

PumpGoes(s, stage) ==
    /\ pump' = [pump EXCEPT ![s] = stage]
    /\ UNCHANGED <<job, procs, termed, written, pc, result, completed, descriptor, file,
                   cancels, cutAt>>

ReadChunk(s) ==
    /\ pump[s] = "reading" /\ read[s] < written[s]
    /\ read' = [read EXCEPT ![s] = @ + 1] /\ UNCHANGED collected /\ PumpGoes(s, "writing")

ReadEnd(s) ==
    /\ pump[s] = "reading" /\ read[s] = written[s] /\ Holders = {}
    /\ UNCHANGED <<read, collected>> /\ PumpGoes(s, "done")

WriteChunk(s) ==
    /\ pump[s] = "writing"
    /\ collected' = [collected EXCEPT ![s] = @ + 1] /\ UNCHANGED read /\ PumpGoes(s, "telling")

Told(s) == pump[s] = "telling" /\ UNCHANGED <<read, collected>> /\ PumpGoes(s, "reading")

\* A write or an event fails: nobody reads the pipe any more.
PumpFails(s) ==
    /\ pump[s] \in {"writing", "telling"} /\ UNCHANGED <<read, collected>> /\ PumpGoes(s, "failed")

PumpsOver == \A s \in Streams : pump[s] \in PumpEnds

----------------------------------------------------------------------------
(* execute()                                                               *)

Goes(from, to) ==
    /\ pc = from /\ pc' = to
    /\ UNCHANGED <<job, written, read, collected, cancels, cutAt>>

Spawn ==
    /\ Goes("spawn", "mkdir")
    /\ procs' = {"leader"} \cup (IF job.child = None THEN {} ELSE {"child"})
    /\ UNCHANGED <<termed, pump, result, completed, descriptor, file>>

Mkdir ==
    /\ Goes("mkdir", "mkstemp")
    /\ UNCHANGED <<procs, termed, pump, result, completed, descriptor, file>>

Mkstemp ==
    /\ Goes("mkstemp", "waiting")
    /\ descriptor' = TRUE /\ file' = "tmp" /\ pump' = [s \in Streams |-> "reading"]
    /\ UNCHANGED <<procs, termed, result, completed>>

\* What comes before the try leaves the command running.
PrepareFails ==
    /\ \E p \in {"spawn", "mkdir", "mkstemp"} : Goes(p, "ended")
    /\ result' = "failed"
    /\ UNCHANGED <<procs, termed, pump, completed, descriptor, file>>

Waited ==
    /\ WaitReturns /\ Goes("waiting", "gather")
    /\ result' = "ok" /\ completed' = TRUE
    /\ UNCHANGED <<procs, termed, pump, descriptor, file>>

\* terminate_process_group, up to its first await
Terminate ==
    /\ pc' = IF Group = {} THEN "reap" ELSE "poll"
    /\ termed' = (Group # {})

TimesOut ==
    /\ pc = "waiting" /\ job.timed /\ Terminate /\ result' = "timeout"
    /\ UNCHANGED <<job, procs, written, read, collected, pump, completed, descriptor, file,
                   cancels, cutAt>>

\* Slip: only the command itself is killed, and not its group.
KillLeader == procs \ {"leader"}

Killed == procs \ Group

\* The group is gone, or is killed when the grace is over.
Kill ==
    /\ Goes("poll", "reap") /\ procs' = Killed
    /\ UNCHANGED <<termed, pump, result, completed, descriptor, file>>

Reap ==
    /\ WaitReturns /\ Goes("reap", IF result = "timeout" THEN "drain" ELSE "gather")
    /\ UNCHANGED <<procs, termed, pump, result, completed, descriptor, file>>

\* The gather of the timeout: the first pump that failed raises in its stead.
Drain ==
    LET failed == \E s \in Streams : pump[s] = "failed"
    IN  /\ PumpsOver \/ failed
        /\ Goes("drain", "gather")
        /\ result' = IF failed THEN "failed" ELSE result
        /\ UNCHANGED <<procs, termed, pump, completed, descriptor, file>>

\* Slip: the pumps are not awaited.
GatherNone == TRUE

\* if not all(task.done() for task in pumps): await asyncio.gather(...)
Gathered == PumpsOver

Gather ==
    /\ Gathered /\ Goes("gather", "close")
    /\ UNCHANGED <<procs, termed, pump, result, completed, descriptor, file>>

Close ==
    /\ Goes("close", IF completed THEN "keep" ELSE "unlink") /\ descriptor' = FALSE
    /\ UNCHANGED <<procs, termed, pump, result, completed, file>>

\* A truncated output is kept in a log.
Finish ==
    /\ \/ Goes("keep", "ended") /\ file' \in {"none", "log"}
       \/ Goes("unlink", "ended") /\ file' = "none"
    /\ UNCHANGED <<procs, termed, pump, result, completed, descriptor>>

----------------------------------------------------------------------------
(* Cancellations, of the turn and by a stop.                               *)

Cancelled ==
    /\ cancels < MaxCancels /\ cancels' = cancels + 1 /\ cutAt' = pc
    /\ UNCHANGED <<job, procs, written, read, collected, completed>>

CancelledPumps == [s \in Streams |-> IF pump[s] \in PumpEnds THEN pump[s] ELSE "cut"]

\* mkstemp has made its file when the call is cancelled in it.
CancelEarly ==
    /\ pc \in {"spawn", "mkdir", "mkstemp"} /\ Cancelled
    /\ pc' = "ended" /\ result' = "cancelled"
    /\ IF pc = "mkstemp" THEN descriptor' = TRUE /\ file' = "tmp" ELSE UNCHANGED <<descriptor, file>>
    /\ UNCHANGED <<termed, pump>>

CancelWait ==
    /\ pc = "waiting" /\ Cancelled
    /\ Terminate /\ result' = "cancelled"
    /\ UNCHANGED <<pump, descriptor, file>>

\* In an except clause: the finally clause follows, and the group stays as it is.
CancelTerminate ==
    /\ pc \in {"poll", "reap", "drain"} /\ Cancelled
    /\ pc' = "gather" /\ result' = "cancelled"
    /\ pump' = IF pc = "drain" THEN CancelledPumps ELSE pump
    /\ UNCHANGED <<termed, descriptor, file>>

\* In the finally clause: what is left of it is skipped.
CancelFinally ==
    /\ pc \in {"gather", "close", "keep", "unlink"} /\ (pc = "gather" => ~PumpsOver)
    /\ Cancelled
    /\ pc' = "ended" /\ result' = "cancelled"
    /\ pump' = IF pc = "gather" THEN CancelledPumps ELSE pump
    /\ descriptor' = (descriptor /\ pc # "close")
    /\ CASE pc = "keep" -> file' \in {"none", "log"}
         [] pc = "unlink" -> file' = "none"
         [] OTHER -> UNCHANGED file
    /\ UNCHANGED termed

Step ==
    \/ \E s \in Streams : ReadChunk(s) \/ ReadEnd(s) \/ WriteChunk(s) \/ Told(s)
    \/ \E p \in {"leader", "child"} : Dies(p)
    \/ Mkdir \/ Mkstemp \/ Waited \/ TimesOut \/ Kill \/ Reap \/ Drain
    \/ Gather \/ Close \/ Finish

Next ==
    \/ Step
    \/ \E s \in Streams : CommandWrites(s) \/ PumpFails(s)
    \/ \E p \in {"leader", "child"} : Exits(p)
    \/ Spawn \/ PrepareFails \/ CancelEarly \/ CancelWait \/ CancelTerminate \/ CancelFinally

\* The event loop and its threads go on, and a process that is sent SIGTERM and does
\* not ignore it goes; a command need not come to its end.
Fairness == WF_shellVars(Step)

Spec == Init /\ [][Next]_shellVars /\ Fairness

----------------------------------------------------------------------------
\* A call that was set up, and was not cancelled but while it waited for its
\* command, leaves no process of it, no open descriptor and no temporary file, and
\* after a timeout or a cancellation nothing of the group either.
CleanedUp ==
    Ended /\ pump["out"] # "none" /\ cutAt \in {None, "waiting"} =>
        /\ "leader" \notin procs /\ ~descriptor /\ file # "tmp"
        /\ ~completed => Group = {}

\* A call that succeeds shows all the output, unless a pump has failed: that is
\* swallowed by the gather of the finally clause.
ShownInFull ==
    Ended /\ result = "ok" =>
        \A s \in Streams : pump[s] # "failed" => pump[s] = "done" /\ collected[s] = written[s]

ShellToolSafe == TypeOK /\ CleanedUp /\ ShownInFull

\* What the finally clause waits for though the command is dealt with: a child with
\* a session of its own, one that a command which has ended left with the pipes, and
\* a group whose termination was cut off.
Held ==
    \/ "child" \in procs /\ (job.child = "away" \/ (job.child = "group" /\ completed))
    \/ cutAt = "poll"

\* A pump that has failed leaves a pipe full, and wait() with it.
Stuffed == job.waits /\ \E s \in Streams : pump[s] = "failed" /\ written[s] > read[s] + ReaderRoom

\* A call with a timeout, or one that is cancelled, comes to its end, unless a
\* process that holds the pipes is out of its reach.
CallsEnd == <>[](pc # "spawn" /\ (job.timed \/ cancels > 0) => Ended \/ Held \/ Stuffed)
=============================================================================
