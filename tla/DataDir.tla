------------------------------- MODULE DataDir --------------------------------
(***************************************************************************)
(* Who owns a data directory: processes that serve a Runtime from it       *)
(* (runtime_server.serve, RuntimeServer.run) or reset it (`reset`), the    *)
(* lock file they share, and what a Runtime leaves where clients look for  *)
(* it, runtime.pid.json and the Unix socket.  Processes interleave at      *)
(* every system call that another one can notice, and may be killed.       *)
(*                                                                         *)
(* flock() locks the file that is open, not the path: files that have been *)
(* at the path of the lock are named after the process that created them.  *)
(***************************************************************************)
CONSTANTS Serves, Resets, None

Processes == Serves \cup Resets

VARIABLES
    lockPath,   \* the file at .runtime.lock
    fd,         \* process -> the lock file it has open
    holding,    \* the processes that hold the flock of their file
    marker,     \* .reset-incomplete exists
    pid,        \* whose runtime.pid.json is there
    socket,     \* whose socket is there, listening or stale
    pc

dataVars == <<lockPath, fd, holding, marker, pid, socket, pc>>

Over == {"gone", "failed", "refused", "killed"}

TypeOK ==
    /\ lockPath \in Processes \cup {None}
    /\ fd \in [Processes -> Processes \cup {None}]
    /\ holding \subseteq {p \in Processes : fd[p] # None}
    /\ marker \in BOOLEAN
    /\ pid \in Serves \cup {None} /\ socket \in Serves \cup {None}
    /\ pc \in [Processes -> {"idle", "checked", "opened", "locked", "composed", "written",
                             "stale", "free", "serving", "closed", "unlinked", "leaving",
                             "failing", "clearing", "unlocking", "unlinking"} \cup Over]

Init ==
    /\ lockPath = None /\ fd = [p \in Processes |-> None] /\ holding = {}
    /\ marker = FALSE /\ pid = None /\ socket = None
    /\ pc = [p \in Processes |-> "idle"]

From(p, here, there) == pc[p] = here /\ pc' = [pc EXCEPT ![p] = there]

lock == <<lockPath, fd, holding>>
places == <<pid, socket>>

----------------------------------------------------------------------------
(* The lock.                                                               *)

\* open(O_CREAT).
Open(p, here) ==
    /\ From(p, here, "opened")
    /\ lockPath' = IF lockPath = None THEN p ELSE lockPath
    /\ fd' = [fd EXCEPT ![p] = lockPath']
    /\ UNCHANGED <<holding, marker, places>>

Taken(file) == \E q \in holding : fd[q] = file

\* Closing the file gives its lock back.
Close(p) == fd' = [fd EXCEPT ![p] = None] /\ holding' = holding \ {p} /\ UNCHANGED lockPath

----------------------------------------------------------------------------
(* serve.                                                                  *)

\* The markers are looked at before the lock is taken.
CheckMarker(s) ==
    /\ From(s, "idle", IF marker THEN "refused" ELSE "checked")
    /\ UNCHANGED <<lock, marker, places>>

\* Slip: the lock is not exclusive.
LockShared(s) ==
    /\ From(s, "opened", "locked") /\ holding' = holding \cup {s}
    /\ UNCHANGED <<lockPath, fd, marker, places>>

Lock(s) ==
    /\ IF Taken(fd[s])
       THEN From(s, "opened", "refused") /\ Close(s)
       ELSE From(s, "opened", "locked") /\ holding' = holding \cup {s} /\ UNCHANGED <<lockPath, fd>>
    /\ UNCHANGED <<marker, places>>

\* create_runtime_service reads, cleans and provisions the data directory; it
\* or the server's constructor may raise.
Compose(s) ==
    /\ \/ From(s, "locked", "composed")
       \/ From(s, "locked", "leaving")
    /\ UNCHANGED <<lock, marker, places>>

\* run: the log, orphan attachments, runtime.pid.json.
WritePid(s) ==
    /\ \/ From(s, "composed", "written") /\ pid' = s
       \/ From(s, "composed", "failing") /\ UNCHANGED pid
    /\ UNCHANGED <<lock, marker, socket>>

\* _remove_stale_socket: whoever answers owns the socket.
ProbeSocket(s) ==
    /\ From(s, "written", IF socket = None THEN "free"
                          ELSE IF pc[socket] = "serving" THEN "failing" ELSE "stale")
    /\ UNCHANGED <<lock, marker, places>>

UnlinkStale(s) ==
    /\ From(s, "stale", "free") /\ socket' = None
    /\ UNCHANGED <<lock, marker, pid>>

\* start_unix_server, and the check of the socket's mode, which may fail.
Bind(s) ==
    /\ From(s, "free", "serving") \/ From(s, "free", "failing")
    /\ socket' = s
    /\ UNCHANGED <<lock, marker, pid>>

\* Slip: a start that fails leaves its runtime.pid.json.
FailQuietly(s) ==
    /\ From(s, "failing", "failed") /\ Close(s)
    /\ UNCHANGED <<marker, places>>

\* The except clause of run.
Fail(s) ==
    /\ From(s, "failing", "failed") /\ pid' = None /\ Close(s)
    /\ UNCHANGED <<marker, socket>>

\* The stop event, or a listener that could not be set up: nobody is accepted
\* any more, connections and terminals are closed.
StopServing(s) ==
    /\ From(s, "serving", "closed")
    /\ UNCHANGED <<lock, marker, places>>

\* Slip: the lock is given back before the files are removed.
UnlockAndUnlink(s) ==
    /\ \/ From(s, "closed", "unlinked") /\ Close(s) /\ UNCHANGED places
       \/ From(s, "unlinked", "leaving") /\ socket' = None /\ pid' = None /\ UNCHANGED lock
    /\ UNCHANGED marker

UnlinkFiles(s) ==
    /\ \/ From(s, "closed", "unlinked") /\ socket' = None /\ UNCHANGED pid
       \/ From(s, "unlinked", "leaving") /\ pid' = None /\ UNCHANGED socket
    /\ UNCHANGED <<lock, marker>>

\* runtime.close, the store, and at last the lock.
Leave(s) ==
    /\ From(s, "leaving", "gone") /\ Close(s)
    /\ UNCHANGED <<marker, places>>

----------------------------------------------------------------------------
(* reset.                                                                  *)

ResetLock(r) ==
    /\ IF Taken(fd[r])
       THEN From(r, "opened", "unlocking") /\ UNCHANGED <<holding, marker>>
       ELSE From(r, "opened", "clearing") /\ holding' = holding \cup {r} /\ marker' = TRUE
    /\ UNCHANGED <<lockPath, fd, places>>

\* Worktrees and entries are removed and a new configuration written; what
\* fails leaves the marker.  The socket may or may not be in the directory.
ResetClear(r) ==
    /\ From(r, "clearing", "unlocking")
    /\ marker' \in BOOLEAN /\ pid' \in {pid, None} /\ socket' \in {socket, None}
    /\ ~marker' => pid' = None
    /\ UNCHANGED lock

\* The finally clause, whichever way it is reached.
ResetUnlock(r) ==
    /\ From(r, "unlocking", "unlinking") /\ Close(r)
    /\ UNCHANGED <<marker, places>>

ResetUnlink(r) ==
    /\ From(r, "unlinking", "gone") /\ lockPath' = None
    /\ UNCHANGED <<fd, holding, marker, places>>

----------------------------------------------------------------------------
\* The process is killed: its files are closed, what it wrote stays.
Kill(p) ==
    /\ pc[p] \notin Over \cup {"idle"}
    /\ pc' = [pc EXCEPT ![p] = "killed"] /\ Close(p)
    /\ UNCHANGED <<marker, places>>

Serve(s) ==
    \/ CheckMarker(s) \/ Open(s, "checked") \/ Lock(s) \/ Compose(s) \/ WritePid(s)
    \/ ProbeSocket(s) \/ UnlinkStale(s) \/ Bind(s) \/ Fail(s)
    \/ StopServing(s) \/ UnlinkFiles(s) \/ Leave(s)
Reset(r) ==
    Open(r, "idle") \/ ResetLock(r) \/ ResetClear(r) \/ ResetUnlock(r) \/ ResetUnlink(r)

Next ==
    \/ \E s \in Serves : Serve(s)
    \/ \E r \in Resets : Reset(r)
    \/ \E p \in Processes : Kill(p)

Spec == Init /\ [][Next]_dataVars

----------------------------------------------------------------------------
Owns(p) == pc[p] \in {"locked", "composed", "written", "stale", "free", "serving", "closed",
                      "unlinked", "leaving", "failing", "clearing"}

\* A reset has come to its end and removed the file that others may hold.
LockUnlinked == \E r \in Resets : pc[r] = "gone"

\* As long as no reset has unlinked the lock file, one process at a time works
\* on the data directory, whoever starts, fails, stops, resets or is killed.
OneOwner == \A p, q \in Processes : Owns(p) /\ Owns(q) => p = q \/ LockUnlinked

\* Clients find a Runtime that serves: no other start, failure, stop or kill
\* takes its socket or its runtime.pid.json away.
ServingIsFound ==
    \A s \in Serves : pc[s] = "serving" => (pid = s /\ socket = s) \/ LockUnlinked

\* A Runtime that ended by itself has left nothing where clients look for one,
\* except the socket of a start that failed after it was bound.
EndsAreClean ==
    \A s \in Serves :
        /\ pid = s => pc[s] \notin {"gone", "failed"}
        /\ socket = s => pc[s] # "gone"

\* "Hold the single-instance lock before composing RuntimeService": no two
\* Runtimes work on one data directory.
SingleInstance == \A s, z \in Serves : Owns(s) /\ Owns(z) => s = z

\* One process works on the data directory unless a reset has unlinked the lock,
\* a Runtime that serves is found, and one that ended is not.
DataDirSafe == TypeOK /\ OneOwner /\ ServingIsFound /\ EndsAreClean
=============================================================================
