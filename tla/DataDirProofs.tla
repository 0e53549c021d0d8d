---------------------------- MODULE DataDirProofs ----------------------------
(***************************************************************************)
(* Proof that the lock file and what a Runtime leaves on the way out do    *)
(* what DataDir says, for any number of starts, resets and kills.          *)
(*                                                                         *)
(* flock() locks files and not paths, so that the argument is about files: *)
(* a file has one holder, and until a reset unlinks the lock every process *)
(* that has it open has the same file.                                     *)
(***************************************************************************)
EXTENDS DataDir, TLAPS

\* Whoever works on the data directory holds the lock of a file that it has open.
OwnersHold == \A p \in Processes : Owns(p) => p \in holding

\* A process that has not come to open() has no file open.
OpenedFiles ==
    \A p \in Processes :
        /\ pc[p] \in {"idle", "checked"} => fd[p] = None
        /\ pc[p] = "opened" => fd[p] # None

\* A lock that flock() gave is nobody else's.
OneHolder == \A p, q \in holding : fd[p] = fd[q] => p = q

\* Until then, every file that is open is the one at the path.
OneFile == ~LockUnlinked => \A p \in Processes : fd[p] \in {None, lockPath}

\* From when a start has written its runtime.pid.json and bound its socket they
\* are its own, as long as it serves.
OwnPlaces ==
    ~LockUnlinked => \A s \in Serves :
        /\ pc[s] \in {"written", "stale", "free", "serving"} => pid = s
        /\ pc[s] = "serving" => socket = s

\* A Runtime is named by its files only between writing and removing them, or
\* where it was killed.
PidNames ==
    \A s \in Serves : pid = s =>
        pc[s] \in {"written", "stale", "free", "serving", "closed", "unlinked", "failing", "killed"}
SocketNames ==
    \A s \in Serves : socket = s => pc[s] \in {"serving", "failing", "closed", "failed", "killed"}

IInv ==
    /\ TypeOK
    /\ OwnersHold /\ OpenedFiles /\ OneHolder /\ OneFile
    /\ OwnPlaces
    /\ PidNames /\ SocketNames

\* Two owners would have the lock of the one file that is open.
LEMMA OneOwnerHolds == ASSUME IInv PROVE OneOwner
BY DEF IInv, TypeOK, OwnersHold, OneHolder, OneFile, OneOwner

LEMMA InitIInv == ASSUME None \notin Processes, Init PROVE IInv
BY DEF Init, IInv, TypeOK, OwnersHold, OpenedFiles, OneHolder, OneFile, OwnPlaces, PidNames,
       SocketNames, Owns, Over, Processes, LockUnlinked

LEMMA ServeStep ==
    ASSUME None \notin Processes, Serves \cap Resets = {}, IInv, NEW s \in Serves, Serve(s)
    PROVE  IInv'
<1> USE DEF IInv, TypeOK, OwnersHold, OpenedFiles, OneHolder, OneFile, OwnPlaces, PidNames,
            SocketNames, Owns, Over, Processes, LockUnlinked, From, Close, lock, places, Taken
<1>1. CASE CheckMarker(s)
  BY <1>1 DEF CheckMarker
<1>2. CASE Open(s, "checked")
  BY <1>2 DEF Open
<1>3. CASE Lock(s)
  BY <1>3 DEF Lock
<1>4. CASE Compose(s)
  BY <1>4 DEF Compose
<1>5. CASE WritePid(s)
  BY <1>5 DEF WritePid
<1>6. CASE ProbeSocket(s)
  BY <1>6 DEF ProbeSocket
<1>7. CASE UnlinkStale(s)
  BY <1>7 DEF UnlinkStale
<1>8. CASE Bind(s)
  BY <1>8 DEF Bind
<1>9. CASE Fail(s)
  BY <1>9 DEF Fail
<1>10. CASE StopServing(s)
  BY <1>10 DEF StopServing
<1>11. CASE UnlinkFiles(s)
  BY <1>11 DEF UnlinkFiles
<1>12. CASE Leave(s)
  BY <1>12 DEF Leave
<1> QED
  BY <1>1, <1>2, <1>3, <1>4, <1>5, <1>6, <1>7, <1>8, <1>9, <1>10, <1>11, <1>12 DEF Serve

LEMMA ResetStep ==
    ASSUME None \notin Processes, Serves \cap Resets = {}, IInv, NEW r \in Resets, Reset(r)
    PROVE  IInv'
<1> USE DEF IInv, TypeOK, OwnersHold, OpenedFiles, OneHolder, OneFile, OwnPlaces, PidNames,
            SocketNames, Owns, Over, Processes, LockUnlinked, From, Close, lock, places, Taken
<1>1. CASE Open(r, "idle")
  BY <1>1 DEF Open
<1>2. CASE ResetLock(r)
  <2>1. CASE Taken(fd[r])
    BY <1>2, <2>1 DEF ResetLock
  <2>2. CASE ~Taken(fd[r])
    BY <1>2, <2>2 DEF ResetLock
  <2> QED BY <2>1, <2>2
<1>3. CASE ResetClear(r)
  BY <1>3 DEF ResetClear
<1>4. CASE ResetUnlock(r)
  BY <1>4 DEF ResetUnlock
<1>5. CASE ResetUnlink(r)
  BY <1>5 DEF ResetUnlink
<1> QED
  BY <1>1, <1>2, <1>3, <1>4, <1>5 DEF Reset

LEMMA KillStep ==
    ASSUME None \notin Processes, Serves \cap Resets = {}, IInv, NEW p \in Processes, Kill(p)
    PROVE  IInv'
BY DEF Kill, IInv, TypeOK, OwnersHold, OpenedFiles, OneHolder, OneFile, OwnPlaces, PidNames,
       SocketNames, Owns, Over, Processes, LockUnlinked, From, Close, lock, places

\* The invariant holds of every start, reset and kill.
LEMMA AlwaysIInv ==
    ASSUME None \notin Processes, Serves \cap Resets = {}
    PROVE  Spec => []IInv
<1>1. IInv /\ [Next]_dataVars => IInv'
  <2> SUFFICES ASSUME IInv, [Next]_dataVars PROVE IInv'
    OBVIOUS
  <2>1. CASE UNCHANGED dataVars
    BY <2>1 DEF dataVars, IInv, TypeOK, OwnersHold, OpenedFiles, OneHolder, OneFile, OwnPlaces,
                PidNames, SocketNames, Owns, LockUnlinked
  <2>2. CASE Next
    BY <2>2, ServeStep, ResetStep, KillStep DEF Next
  <2> QED BY <2>1, <2>2
<1> QED BY <1>1, InitIInv, PTL DEF Spec

\* Until a reset unlinks the lock file, one process at a time works on the data
\* directory, and no start, failure, stop, reset or kill takes the socket or the
\* runtime.pid.json of a Runtime that serves; one that ended has left neither
\* (serve, RuntimeServer.run, _remove_stale_socket, reset).
THEOREM DirectoryIsSafe ==
    ASSUME None \notin Processes, Serves \cap Resets = {}
    PROVE  Spec => []DataDirSafe
<1>1. IInv => DataDirSafe
  <2> SUFFICES ASSUME IInv PROVE DataDirSafe
    OBVIOUS
  <2>1. OneOwner
    BY OneOwnerHolds
  <2>2. ServingIsFound
    BY DEF IInv, OwnPlaces, ServingIsFound
  <2>3. EndsAreClean
    BY DEF IInv, PidNames, SocketNames, EndsAreClean
  <2> QED BY <2>1, <2>2, <2>3 DEF IInv, DataDirSafe
<1> QED BY <1>1, AlwaysIInv, PTL

\* It takes a reset to let two Runtimes work on one data directory: without one,
\* the lock is taken before RuntimeService is composed and kept to the end, as
\* serve says.
THEOREM StartsAloneAreSafe ==
    ASSUME None \notin Serves, Resets = {}
    PROVE  Spec => []SingleInstance
<1>1. None \notin Processes /\ Serves \cap Resets = {}
  BY DEF Processes
<1>2. DataDirSafe => SingleInstance
  BY DEF DataDirSafe, OneOwner, SingleInstance, LockUnlinked, Processes
<1>3. Spec => []DataDirSafe
  BY <1>1, DirectoryIsSafe
<1> QED BY <1>2, <1>3, PTL
=============================================================================
