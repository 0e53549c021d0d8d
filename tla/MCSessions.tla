----------------------------- MODULE MCSessions ------------------------------
(***************************************************************************)
(* One session, in two models: its tree of entries with a set of requests  *)
(* that come to it together, in any order and interleaving; and its file,  *)
(* as long as nothing but the process or the machine fails.  A behaviour   *)
(* is about one of them; the other stays as it is.                         *)
(***************************************************************************)
EXTENDS Sessions

CONSTANTS
    Groups,     \* the sets of requests that come together
    Handles, Contents, Faults, MaxEntries

VARIABLES
    part,       \* the model a behaviour is of
    together    \* the requests it has

VARIABLES disk, synced, created, open, seen, fileLeaf, dirty, timer, lock, call, acked, promised

File == INSTANCE SessionLog WITH leaf <- fileLeaf

fileVars == <<disk, synced, created, open, seen, fileLeaf, dirty, timer, lock, call, acked, promised>>

SessionInit ==
    /\ Init /\ File!Init
    /\ \/ part = "tree" /\ together \in Groups
       \/ part = "file" /\ together = {}

SessionNext ==
    /\ UNCHANGED <<part, together>>
    /\ \/ part = "tree" /\ (\E o \in together : Step(o)) /\ UNCHANGED fileVars
       \/ part = "file" /\ File!Next /\ UNCHANGED vars

SessionSpec ==
    /\ SessionInit /\ [][SessionNext]_<<part, together, vars, fileVars>>
    /\ \A o \in Ops : WF_vars(Continue(o))
    /\ File!Fairness

----------------------------------------------------------------------------
\* Every append that returned is synced or has its flush coming, and every
\* entry a durable append returned for is found by the next reader of the file
\* (_persist, _delayed_flush, _read_session).
LogIsSound == File!LogIsSound

\* A batched append reaches stable storage within its process: the delayed
\* flush is never lost to a cancelled or a concurrent one.
BatchesReachDisk == File!BatchesReachDisk
=============================================================================
