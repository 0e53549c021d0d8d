------------------------------- MODULE Threads --------------------------------
(***************************************************************************)
(* The requests that create and delete what belongs to the threads of one  *)
(* workspace path (runtime_server.py): the project's row, the threads'     *)
(* rows, their session files, managed worktrees, shells and turns.  Every  *)
(* request is a sequence of steps, one per await; others go in between,    *)
(* and it can be cut off at any of them (its client goes away: nothing     *)
(* after the await runs, no `except Exception` either) or by a crash.      *)
(*                                                                         *)
(* A thread is named after the request that creates it, a project after    *)
(* the request that inserts its row.  One store call is one step: the      *)
(* store's worker runs them one at a time.                                 *)
(***************************************************************************)
EXTENDS FiniteSets

CONSTANTS
    Creates,        \* thread.create requests, and the threads they create
    Worktrees,      \* those of kind "worktree"
    Adds,           \* project.add requests
    Deletes,        \* thread.delete requests
    Removes,        \* project.remove requests
    Uninstalls,     \* system.uninstall_prepare requests
    Starts,         \* turn.start requests
    Opens,          \* terminal.open requests
    None

ASSUME WorktreesAssumption == Worktrees \subseteq Creates

Requests == Creates \cup Adds \cup Deletes \cup Removes \cup Uninstalls \cup Starts \cup Opens
Projects == Creates \cup Adds

\* A request is of one kind.
ASSUME KindsAssumption ==
    /\ Creates \cap (Adds \cup Deletes \cup Removes \cup Uninstalls \cup Starts \cup Opens) = {}
    /\ Adds \cap (Deletes \cup Removes \cup Uninstalls \cup Starts \cup Opens) = {}
    /\ Deletes \cap (Removes \cup Uninstalls \cup Starts \cup Opens) = {}
    /\ Removes \cap (Uninstalls \cup Starts \cup Opens) = {}
    /\ Uninstalls \cap (Starts \cup Opens) = {} /\ Starts \cap Opens = {}
    /\ None \notin Projects

VARIABLES
    project,    \* the row of the path's project
    row,        \* thread -> the project its row belongs to
    session,    \* threads with a session file
    stump,      \* those with one that was appended to after it was unlinked
    worktree,   \* threads with a worktree on disk
    shell,      \* threads with a terminal
    turn,       \* turn.start requests whose turn is in flight
    forgotten,  \* those whose SessionRuntime was dropped with the session
    pc,         \* request -> its next step, or how it ended
    saw,        \* request -> the project it has looked up
    on,         \* request -> the threads it is about
    todo,       \* request -> those of them its loop has not come to
    uncleaned,  \* creations of which a failing step left something
    looked,     \* threads whose session a deletion has found idle or gone
    late,       \* turn.start requests that wrote to a session after that
    closed,     \* threads whose shell a deletion has closed
    lateShell   \* those that a shell was opened for after that

threadVars == <<project, row, session, stump, worktree, shell, turn, forgotten, pc, saw, on,
                todo, uncleaned, looked, late, closed, lateShell>>

Ended == {"ok", "refused", "cut"}
Steps == {"idle", "worktree", "session", "row", "clean", "cleanWorktree",
          "check", "project", "inspect", "removeWorktree", "shell",
          "sessions", "unlink", "forget", "listed", "loop", "loopWorktree",
          "active", "remove", "start", "append", "store"} \cup Ended

TypeOK ==
    /\ project \in Projects \cup {None}
    /\ row \in [Creates -> Projects \cup {None}]
    /\ session \subseteq Creates /\ stump \subseteq Creates /\ worktree \subseteq Worktrees
    /\ shell \subseteq Creates /\ turn \subseteq Starts /\ forgotten \subseteq Starts
    /\ pc \in [Requests -> Steps]
    /\ saw \in [Requests -> Projects \cup {None}]
    /\ on \in [Requests -> SUBSET Creates]
    /\ \A r \in Requests : todo[r] \subseteq on[r]
    /\ uncleaned \subseteq Creates /\ looked \subseteq Creates /\ late \subseteq Starts
    /\ closed \subseteq Creates /\ lateShell \subseteq Creates

Init ==
    /\ project = None /\ row = [t \in Creates |-> None]
    /\ session = {} /\ stump = {} /\ worktree = {}
    /\ shell = {} /\ turn = {} /\ forgotten = {}
    /\ uncleaned = {} /\ looked = {} /\ late = {} /\ closed = {} /\ lateShell = {}
    /\ pc = [r \in Requests |-> "idle"]
    /\ saw = [r \in Requests |-> None] /\ on = [r \in Requests |-> {}]
    /\ todo = [r \in Requests |-> {}]

\* One step of request r, from the one to the other.
From(r, here, there) == pc[r] = here /\ pc' = [pc EXCEPT ![r] = there]

rows == <<project, row>>
files == <<session, stump, worktree>>
turns == <<turn, forgotten>>
live == <<shell, turns>>
mind == <<saw, on, todo>>
past == <<uncleaned, looked, late, closed, lateShell>>

\* _thread_workspace: the directory a thread works in is there.
Workspace(t) == t \in Worktrees => t \in worktree

\* session_active_operation_count: the turns that the service still knows of.
Busy(t) == \E s \in turn \ forgotten : t \in on[s]

----------------------------------------------------------------------------
(* thread.create.                                                          *)

\* The project is looked up by its id or its path; a path without one gets
\* an id of this request's making.
CreateLookup(c) ==
    /\ From(c, "idle", IF c \in Worktrees THEN "worktree" ELSE "session")
    /\ saw' = [saw EXCEPT ![c] = IF project = None THEN c ELSE project]
    /\ UNCHANGED <<rows, files, live, on, todo, past>>

\* git worktree add may fail; git_command's timeout may leave what it has made,
\* which nobody cleans up: worktree_created is not set.
CreateWorktree(c) ==
    /\ \/ /\ From(c, "worktree", "session")
          /\ worktree' = worktree \cup {c} /\ UNCHANGED uncleaned
       \/ From(c, "worktree", "refused") /\ UNCHANGED <<worktree, uncleaned>>
       \/ /\ From(c, "worktree", "refused")
          /\ worktree' = worktree \cup {c} /\ uncleaned' = uncleaned \cup {c}
    /\ UNCHANGED <<rows, session, stump, live, mind, looked, late, closed, lateShell>>

\* What cleans up after a failure but for the session.
Cleaning(c) == IF c \in Worktrees THEN "cleanWorktree" ELSE "refused"

\* A session whose creation fails is not deleted, even when its file is there:
\* `session` is None then.
CreateSession(c) ==
    /\ \/ /\ From(c, "session", "row")
          /\ session' = session \cup {c} /\ UNCHANGED uncleaned
       \/ From(c, "session", Cleaning(c)) /\ UNCHANGED <<session, uncleaned>>
       \/ /\ From(c, "session", Cleaning(c))
          /\ session' = session \cup {c} /\ uncleaned' = uncleaned \cup {c}
    /\ UNCHANGED <<rows, stump, worktree, live, mind, looked, late, closed, lateShell>>

\* create_project_and_thread, whose path is UNIQUE, or create_thread, whose
\* project_id REFERENCES a project; either may fail for a reason of its own.
CreateRow(c) ==
    /\ \/ /\ project = IF saw[c] = c THEN None ELSE saw[c]
          /\ From(c, "row", "ok")
          /\ project' = saw[c] /\ row' = [row EXCEPT ![c] = saw[c]]
       \/ From(c, "row", "clean") /\ UNCHANGED rows
    /\ UNCHANGED <<files, live, mind, past>>

\* Slip: the worktree of a thread that could not be created stays.
CleanSessionOnly(c) ==
    /\ From(c, "clean", "refused")
    /\ session' = session \ {c}
    /\ UNCHANGED <<rows, stump, worktree, live, mind, past>>

\* The `except Exception` clause: each clean-up is tried, and may itself fail.
CleanSession(c) ==
    /\ From(c, "clean", Cleaning(c))
    /\ \/ session' = session \ {c} /\ UNCHANGED uncleaned
       \/ uncleaned' = uncleaned \cup {c} /\ UNCHANGED session
    /\ UNCHANGED <<rows, stump, worktree, live, mind, looked, late, closed, lateShell>>

CleanWorktree(c) ==
    /\ From(c, "cleanWorktree", "refused")
    /\ \/ worktree' = worktree \ {c} /\ UNCHANGED uncleaned
       \/ uncleaned' = uncleaned \cup {c} /\ UNCHANGED worktree
    /\ UNCHANGED <<rows, session, stump, live, mind, looked, late, closed, lateShell>>

AddProject(a) ==
    /\ From(a, "idle", "ok")
    /\ project' = IF project = None THEN a ELSE project
    /\ UNCHANGED <<row, files, live, mind, past>>

----------------------------------------------------------------------------
(* RuntimeService.session_delete, of the next thread in a request's loop.   *)

Current(r) == CHOOSE t \in todo[r] : TRUE
Others(r) == [todo EXCEPT ![r] = @ \ {Current(r)}]

\* It opens the file, which a stump does not let it, and goes on with the check
\* for turns; a session that is not there does not stop the request.
FindSession(r) ==
    /\ todo[r] # {}
    /\ \/ /\ Busy(Current(r)) \/ Current(r) \in stump
          /\ From(r, "sessions", "refused") /\ UNCHANGED <<todo, looked>>
       \/ /\ Current(r) \in session /\ ~Busy(Current(r)) /\ From(r, "sessions", "unlink")
          /\ looked' = looked \cup {Current(r)} /\ UNCHANGED todo
       \/ /\ Current(r) \notin session \cup stump /\ From(r, "sessions", "sessions")
          /\ looked' = looked \cup {Current(r)} /\ todo' = Others(r)
    /\ UNCHANGED <<rows, files, live, saw, on, uncleaned, late, closed, lateShell>>

\* Session files are flushed and this one unlinked, whoever has begun to write
\* to it since. One that is gone by now is an error of its own, as is a failing
\* flush.
Unlink(r) ==
    /\ \/ From(r, "unlink", "refused") /\ UNCHANGED <<session, stump>>
       \/ /\ From(r, "unlink", "forget") /\ Current(r) \in session \cup stump
          /\ session' = session \ {Current(r)} /\ stump' = stump \ {Current(r)}
    /\ UNCHANGED <<rows, worktree, live, mind, past>>

\* The SessionRuntime goes with the turns it has by now, and with those that are
\* about to be put there; then the attachments, which may fail.
Forget(r) ==
    /\ pc[r] = "forget"
    /\ \E begun \in SUBSET {s \in Starts : pc[s] = "append" /\ Current(r) \in on[s]} :
           forgotten' = forgotten \cup begun \cup {s \in turn : Current(r) \in on[s]}
    /\ \/ From(r, "forget", "sessions") /\ todo' = Others(r)
       \/ From(r, "forget", "refused") /\ UNCHANGED todo
    /\ UNCHANGED <<rows, files, shell, turn, saw, on, past>>

----------------------------------------------------------------------------
(* thread.delete, whose loop is over the one thread.                       *)

DeleteFetch(d) ==
    /\ \E t \in Creates :
           /\ row[t] # None
           /\ on' = [on EXCEPT ![d] = {t}] /\ todo' = [todo EXCEPT ![d] = {t}]
           /\ saw' = [saw EXCEPT ![d] = row[t]]
    /\ From(d, "idle", "check")
    /\ UNCHANGED <<rows, files, live, past>>

\* The request goes on after its await: is the thread busy?
DeleteCheck(d) ==
    /\ \/ (\E t \in on[d] : Busy(t)) /\ From(d, "check", "refused")
       \/ /\ \A t \in on[d] : ~Busy(t)
          /\ From(d, "check", IF on[d] \subseteq Worktrees THEN "project" ELSE "shell")
    /\ UNCHANGED <<rows, files, live, mind, past>>

\* get_project, and the directory's path: one that is gone is refused, whatever
\* git_worktree_status would say of it.
DeleteProject(d) ==
    /\ IF project # saw[d] THEN From(d, "project", "shell")
       ELSE From(d, "project", IF on[d] \subseteq worktree THEN "inspect" ELSE "refused")
    /\ UNCHANGED <<rows, files, live, mind, past>>

\* git_worktree_status: a dirty worktree is refused; one that vanished after
\* its path was checked has nothing to remove.
Inspect(d) ==
    /\ \/ From(d, "inspect", "refused")
       \/ From(d, "inspect", IF on[d] \subseteq worktree THEN "removeWorktree" ELSE "shell")
    /\ UNCHANGED <<rows, files, live, mind, past>>

\* git worktree remove without --force fails on a worktree that is dirty by now;
\* at git_command's timeout it may have removed it.
RemoveWorktree(d) ==
    /\ \/ From(d, "removeWorktree", "refused") /\ worktree' \in {worktree, worktree \ on[d]}
       \/ /\ on[d] \subseteq worktree
          /\ From(d, "removeWorktree", "shell") /\ worktree' = worktree \ on[d]
    /\ UNCHANGED <<rows, session, stump, live, mind, past>>

CloseShell(d) ==
    /\ From(d, "shell", "sessions") /\ shell' = shell \ on[d] /\ closed' = closed \cup on[d]
    /\ UNCHANGED <<rows, files, turns, mind, uncleaned, looked, late, lateShell>>

DeleteRow(d) ==
    /\ todo[d] = {} /\ From(d, "sessions", "ok")
    /\ row' = [t \in Creates |-> IF t \in on[d] THEN None ELSE row[t]]
    /\ UNCHANGED <<project, files, live, mind, past>>

----------------------------------------------------------------------------
(* project.remove: on holds the threads it has listed, todo those that its  *)
(* loops have not come to.                                                 *)

RemoveFetch(r) ==
    /\ project # None /\ From(r, "idle", "project")
    /\ saw' = [saw EXCEPT ![r] = project]
    /\ UNCHANGED <<rows, files, live, on, todo, past>>

RemoveList(r) ==
    /\ From(r, "project", "listed")
    /\ on' = [on EXCEPT ![r] = {t \in Creates : row[t] = saw[r]}]
    /\ todo' = [todo EXCEPT ![r] = on'[r]]
    /\ UNCHANGED <<rows, files, live, saw, past>>

\* No listed thread may be busy.
RemoveCheck(r, here) ==
    From(r, here, IF \A t \in on[r] : ~Busy(t) THEN "loop" ELSE "refused")

\* Each listed worktree must be there and clean.
RemoveInspect(r) ==
    /\ \/ pc[r] = "listed" /\ on[r] \cap Worktrees = {} /\ RemoveCheck(r, "listed")
       \/ /\ on[r] \cap Worktrees # {}
          /\ From(r, "listed", IF on[r] \cap Worktrees \subseteq worktree THEN "inspect" ELSE "refused")
       \/ From(r, "inspect", "refused")
       \/ RemoveCheck(r, "inspect")
    /\ UNCHANGED <<rows, files, live, mind, past>>

RemoveShell(r) ==
    /\ pc[r] = "loop" /\ todo[r] # {}
    /\ shell' = shell \ {Current(r)} /\ closed' = closed \cup {Current(r)}
    /\ IF Current(r) \in Worktrees
       THEN From(r, "loop", "loopWorktree") /\ UNCHANGED todo
       ELSE todo' = Others(r) /\ UNCHANGED pc
    /\ UNCHANGED <<rows, files, turns, saw, on, uncleaned, looked, late, lateShell>>

RemoveWorktrees(r) ==
    /\ \/ /\ From(r, "loopWorktree", "refused") /\ UNCHANGED todo
          /\ worktree' \in {worktree, worktree \ {Current(r)}}
       \/ /\ From(r, "loopWorktree", "loop") /\ Current(r) \in worktree
          /\ worktree' = worktree \ {Current(r)} /\ todo' = Others(r)
    /\ UNCHANGED <<rows, session, stump, live, saw, on, past>>

RemoveLooped(r) ==
    /\ todo[r] = {} /\ From(r, "loop", "sessions")
    /\ todo' = [todo EXCEPT ![r] = on[r]]
    /\ UNCHANGED <<rows, files, live, saw, on, past>>

\* remove_project and its cascade.
RemoveRow(r) ==
    /\ todo[r] = {} /\ From(r, "sessions", "ok")
    /\ project' = IF project = saw[r] THEN None ELSE project
    /\ row' = [t \in Creates |-> IF row[t] = saw[r] THEN None ELSE row[t]]
    /\ UNCHANGED <<files, live, mind, past>>

----------------------------------------------------------------------------
(* system.uninstall_prepare: inspect every managed worktree, then remove    *)
(* one after the other.                                                     *)

UninstallList(u) ==
    /\ From(u, "idle", "listed")
    /\ saw' = [saw EXCEPT ![u] = project]
    /\ on' = [on EXCEPT ![u] = {t \in Worktrees : row[t] # None}]
    /\ UNCHANGED <<rows, files, live, todo, past>>

\* Those of a project that is gone by now are left out; every other one must be
\* there and clean.
UninstallInspect(u) ==
    /\ IF project # saw[u] THEN From(u, "listed", "active") /\ UNCHANGED todo
       ELSE \/ From(u, "listed", "refused") /\ UNCHANGED todo
            \/ /\ on[u] \subseteq worktree /\ From(u, "listed", "active")
               /\ todo' = [todo EXCEPT ![u] = on[u]]
    /\ UNCHANGED <<rows, files, live, saw, on, past>>

UninstallCheck(u) ==
    /\ From(u, "active", IF turn \subseteq forgotten THEN "remove" ELSE "refused")
    /\ UNCHANGED <<rows, files, live, mind, past>>

\* One that is gone or dirty by now ends the request, as git_command's timeout does.
UninstallRemove(u) ==
    /\ IF todo[u] = {} THEN From(u, "remove", "ok") /\ UNCHANGED <<worktree, todo>>
       ELSE \/ /\ From(u, "remove", "refused") /\ UNCHANGED todo
               /\ worktree' \in {worktree, worktree \ {Current(u)}}
            \/ /\ From(u, "remove", "remove") /\ Current(u) \in worktree
               /\ worktree' = worktree \ {Current(u)} /\ todo' = Others(u)
    /\ UNCHANGED <<rows, session, stump, live, saw, on, past>>

----------------------------------------------------------------------------
(* turn.start and terminal.open.                                           *)

Fetch(r) ==
    /\ \E t \in Creates : row[t] # None /\ on' = [on EXCEPT ![r] = {t}]
    /\ From(r, "idle", "start")
    /\ UNCHANGED <<rows, files, live, saw, todo, past>>

\* turn_start needs the directory and the session, not the row.
TurnOpen(s) ==
    /\ From(s, "start", IF \A t \in on[s] : Workspace(t) /\ t \in session
                        THEN "append" ELSE "refused")
    /\ UNCHANGED <<rows, files, live, mind, past>>

\* It appends run_start, which puts a file where there is none any more, and then
\* makes the turn known. Between the two the file may have been unlinked; the
\* append may fail, or the request be cut off, when it is written.
TurnStart(s) ==
    /\ \/ From(s, "append", "store") /\ turn' = turn \cup {s} /\ UNCHANGED forgotten
       \/ /\ From(s, "append", "refused") \/ From(s, "append", "cut")
          /\ forgotten' = forgotten \ {s} /\ UNCHANGED turn
    /\ late' = IF on[s] \subseteq looked THEN late \cup {s} ELSE late
    /\ stump' \in {stump, stump \cup (on[s] \ session)}
    /\ UNCHANGED <<rows, session, worktree, shell, mind, uncleaned, looked, closed, lateShell>>

\* ensure_turn: the turn's row REFERENCES the thread's.
TurnStored(s) ==
    /\ From(s, "store", IF \A t \in on[s] : row[t] # None THEN "ok" ELSE "refused")
    /\ UNCHANGED <<rows, files, live, mind, past>>

\* What a turn writes after its session was deleted makes a file again.
TurnAppends(s) ==
    /\ s \in turn /\ stump' = stump \cup (on[s] \ session)
    /\ UNCHANGED <<rows, session, worktree, live, pc, mind, past>>

TurnEnds(s) ==
    /\ s \in turn /\ turn' = turn \ {s} /\ forgotten' = forgotten \ {s}
    /\ UNCHANGED <<rows, files, shell, pc, mind, past>>

TerminalOpen(o) ==
    /\ \E t \in on[o] :
           IF Workspace(t)
           THEN /\ From(o, "start", "ok") /\ shell' = shell \cup {t}
                /\ lateShell' = lateShell \cup ({t} \cap closed)
           ELSE From(o, "start", "refused") /\ UNCHANGED <<shell, lateShell>>
    /\ UNCHANGED <<rows, files, turns, mind, uncleaned, looked, late, closed>>

----------------------------------------------------------------------------
(* The request is cancelled: its client went away.                         *)
Cut(r) ==
    /\ pc[r] \notin Ended \cup {"idle"}
    /\ pc' = [pc EXCEPT ![r] = "cut"]
    /\ forgotten' = forgotten \ ({r} \ turn)
    /\ UNCHANGED <<rows, files, shell, turn, mind, past>>

Crash ==
    /\ shell' = {} /\ turn' = {} /\ forgotten' = {}
    /\ pc' = [r \in Requests |-> IF pc[r] \in Ended \cup {"idle"} THEN pc[r] ELSE "cut"]
    /\ UNCHANGED <<rows, files, mind, past>>

Create(c) ==
    \/ CreateLookup(c) \/ CreateWorktree(c) \/ CreateSession(c) \/ CreateRow(c)
    \/ CleanSession(c) \/ CleanWorktree(c)
SessionDelete(r) == FindSession(r) \/ Unlink(r) \/ Forget(r)
Delete(d) ==
    \/ DeleteFetch(d) \/ DeleteCheck(d) \/ DeleteProject(d) \/ Inspect(d)
    \/ RemoveWorktree(d) \/ CloseShell(d) \/ SessionDelete(d) \/ DeleteRow(d)
Remove(r) ==
    \/ RemoveFetch(r) \/ RemoveList(r) \/ RemoveInspect(r) \/ RemoveShell(r)
    \/ RemoveWorktrees(r) \/ RemoveLooped(r) \/ SessionDelete(r) \/ RemoveRow(r)
Uninstall(u) ==
    \/ UninstallList(u) \/ UninstallInspect(u) \/ UninstallCheck(u) \/ UninstallRemove(u)

Step(r) ==
    \/ r \in Creates /\ Create(r)
    \/ r \in Adds /\ AddProject(r)
    \/ r \in Deletes /\ Delete(r)
    \/ r \in Removes /\ Remove(r)
    \/ r \in Uninstalls /\ Uninstall(r)
    \/ r \in Starts /\ (Fetch(r) \/ TurnOpen(r) \/ TurnStart(r) \/ TurnStored(r))
    \/ r \in Opens /\ (Fetch(r) \/ TerminalOpen(r))
    \/ Cut(r)

Next ==
    \/ \E r \in Requests : Step(r)
    \/ \E s \in Starts : TurnAppends(s) \/ TurnEnds(s)
    \/ Crash

Spec == Init /\ [][Next]_threadVars

----------------------------------------------------------------------------
\* A project removal has gone through that listed the project's threads
\* before t was among them.
Unseen(t) ==
    \E r \in Removes : pc[r] = "ok" /\ saw[r] = saw[t] /\ t \notin on[r]

\* A turn wrote to t's session after a deletion had found it idle or gone.
Rewritten(t) == \E s \in late : t \in on[s]

\* Files without a row are those of a thread whose creation was cut off or could
\* not be cleaned up, or whose project was removed by someone who had not seen it,
\* or what a late turn has written to a deleted session; a request that fails, at
\* any of its other steps, leaves none.
NothingLeftBehind ==
    \A t \in session \cup stump \cup worktree :
        row[t] = None /\ pc[t] \in Ended =>
            \/ pc[t] = "cut" \/ t \in uncleaned \/ Unseen(t)
            \/ t \notin session \cup worktree /\ Rewritten(t)

\* A row is there before and after what it stands for: a thread that lacks its
\* session or its worktree is being deleted, its deletion was refused or cut off
\* half-way, or an uninstallation listed it.
RowsAreWhole ==
    \A t \in Creates :
        row[t] # None /\ ~(Workspace(t) /\ t \in session)
            => \/ \E d \in Deletes \cup Removes : t \in on[d] /\ pc[d] # "ok"
               \/ \E u \in Uninstalls : t \in on[u]

\* A turn in flight keeps its thread, unless it began when a deletion had already
\* found the session idle (session_delete awaits between that and the unlink), or
\* the cascade of a removal that never saw the thread takes the row from under it.
TurnsKeepThreads ==
    \A s \in turn : s \in late \/ \A t \in on[s] : row[t] # None \/ Unseen(t)

\* A deletion that reports success has taken everything with it, though others
\* were deleting, creating and starting at the same time: row, session, worktree
\* and shell. What there is again was made since: a shell that was opened after
\* it had closed the thread's, a file that a late turn appended to. An uninstallation
\* has taken the worktrees it listed, but for those of a project removed then.
DeletionsAreWhole ==
    /\ \A u \in Uninstalls : \A t \in on[u] :
           pc[u] = "ok" => t \notin worktree \/ \E r \in Removes : pc[r] = "ok"
    /\ \A d \in Deletes \cup Removes : \A t \in on[d] :
           pc[d] = "ok" =>
               /\ row[t] = None /\ t \notin session
               /\ t \in worktree => Unseen(t)
               /\ t \in shell => t \in lateShell
               /\ t \in stump => Rewritten(t)

\* However creations, deletions and starts of turns interleave, fail, are cut off
\* or crash: nothing is left behind without a row, rows are whole, a turn keeps
\* its thread, and what was answered deleted is gone, each with its exceptions.
ThreadsSafe ==
    /\ TypeOK /\ NothingLeftBehind /\ RowsAreWhole /\ TurnsKeepThreads
    /\ DeletionsAreWhole
=============================================================================
