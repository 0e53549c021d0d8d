------------------------------- MODULE MCServer -----------------------------
(***************************************************************************)
(* Parts of the server that do not share state, each on its own small      *)
(* instance: the certificate it listens with, connections and pairing, the *)
(* requests that create and delete threads, terminals, and a call of the   *)
(* bash tool. A behaviour is about one of them; the others stay as they    *)
(* are.                                                                    *)
(***************************************************************************)
EXTENDS Threads

CONSTANTS
    Groups, Remotes, Locals, Paired, MaxClients, MaxPerDevice, MaxPending, SaveFails,
    TerminalOpens, Closes, TerminalThreads, MaxOutput, MaxStarts, ShellJobs, MaxCancels

VARIABLE part   \* the component a behaviour is about
VARIABLE together
VARIABLES accessUp, accessMemory, accessDisk, accessCode, accessTold, accessAsked,
          accessRevoked, accessOvertaken, accessCommand, accessPc, accessDevice,
          accessTries, accessTodo, accessCounted, accessPending, accessLost,
          accessTurn, accessBlocked
VARIABLES terminalsThread, terminalsByThread, terminalsState, terminalsFd,
          terminalsHeld, terminalsReaders, terminalsShell, terminalsTasks,
          terminalsWaiters, terminalsPc, terminalsStop, terminalsEvents,
          terminalsOutputs
VARIABLES shellJob, shellProcs, shellTermed, shellWritten, shellRead, shellCollected,
          shellPump, shellPc, shellResult, shellCompleted, shellDescriptor, shellFile,
          shellCancels, shellCutAt
VARIABLES tlsKey, tlsCert, tlsStart, tlsShown, tlsTorn, tlsRemoved, tlsPc

InAccess == INSTANCE Access WITH up <- accessUp, memory <- accessMemory,
    disk <- accessDisk, code <- accessCode, told <- accessTold, asked <- accessAsked,
    revoked <- accessRevoked, overtaken <- accessOvertaken, command <- accessCommand,
    pc <- accessPc, device <- accessDevice, tries <- accessTries, todo <- accessTodo,
    counted <- accessCounted, pending <- accessPending, lost <- accessLost,
    turn <- accessTurn, blocked <- accessBlocked
InTerminals == INSTANCE Terminals WITH Opens <- TerminalOpens,
    Threads <- TerminalThreads, thread <- terminalsThread,
    byThread <- terminalsByThread, state <- terminalsState, fd <- terminalsFd,
    held <- terminalsHeld, readers <- terminalsReaders, shell <- terminalsShell,
    tasks <- terminalsTasks, waiters <- terminalsWaiters, pc <- terminalsPc,
    stop <- terminalsStop, events <- terminalsEvents, outputs <- terminalsOutputs
InShellTool == INSTANCE ShellTool WITH job <- shellJob, procs <- shellProcs,
    termed <- shellTermed, written <- shellWritten, read <- shellRead,
    collected <- shellCollected, pump <- shellPump, pc <- shellPc,
    result <- shellResult, completed <- shellCompleted, descriptor <- shellDescriptor,
    file <- shellFile, cancels <- shellCancels, cutAt <- shellCutAt
InTlsFiles == INSTANCE TlsFiles WITH key <- tlsKey, cert <- tlsCert, start <- tlsStart,
    shown <- tlsShown, torn <- tlsTorn, removed <- tlsRemoved, pc <- tlsPc

accessPart == <<accessUp, accessMemory, accessDisk, accessCode, accessTold, accessAsked,
    accessRevoked, accessOvertaken, accessCommand, accessPc, accessDevice, accessTries,
    accessTodo, accessCounted, accessPending, accessLost, accessTurn, accessBlocked>>

terminalsPart == <<terminalsThread, terminalsByThread, terminalsState, terminalsFd,
    terminalsHeld, terminalsReaders, terminalsShell, terminalsTasks, terminalsWaiters,
    terminalsPc, terminalsStop, terminalsEvents, terminalsOutputs>>

shellPart == <<shellJob, shellProcs, shellTermed, shellWritten, shellRead,
    shellCollected, shellPump, shellPc, shellResult, shellCompleted, shellDescriptor,
    shellFile, shellCancels, shellCutAt>>

tlsPart == <<tlsKey, tlsCert, tlsStart, tlsShown, tlsTorn, tlsRemoved, tlsPc>>

\* With a stubborn group, with and without a child; with one that listens.
MCShellJobs ==
    [timed : BOOLEAN, waits : BOOLEAN, stubborn : {TRUE}, child : {None, "group", "away", "quiet"},
     chunks : {[out |-> 3, err |-> 0]}] \cup
    [timed : {TRUE}, waits : {FALSE}, stubborn : {FALSE}, child : {"group"},
     chunks : {[out |-> 1, err |-> 1]}]

\* Of the requests about threads, one of the Groups is made together.
ThreadsNext ==
    /\ UNCHANGED together
    /\ \/ \E r \in together : Step(r)
       \/ \E s \in Starts : TurnAppends(s) \/ TurnEnds(s)
       \/ Crash

threadsVars == <<threadVars, together>>

\* The threads of terminals are alike: one of the openings is of this one.
AThread == CHOOSE th \in TerminalThreads : TRUE

ServerInit ==
    /\ part \in {"threads", "access", "terminals", "shell", "tls"}
    /\ Init /\ together \in Groups
    /\ part # "threads" => together = CHOOSE g \in Groups : TRUE
    /\ InAccess!Init
    /\ InTerminals!Init
    /\ part # "terminals" => terminalsThread = [r \in TerminalOpens \cup Closes |-> AThread]
    /\ terminalsThread[CHOOSE o \in TerminalOpens : TRUE] = AThread
    /\ InShellTool!Init
    /\ part # "shell" => shellJob = CHOOSE j \in ShellJobs : TRUE
    /\ InTlsFiles!Init

OthersStay ==
    /\ UNCHANGED part
    /\ part # "threads" => UNCHANGED threadsVars
    /\ part # "access" => UNCHANGED accessPart
    /\ part # "terminals" => UNCHANGED terminalsPart
    /\ part # "shell" => UNCHANGED shellPart
    /\ part # "tls" => UNCHANGED tlsPart

ServerNext ==
    /\ \/ part = "threads" /\ ThreadsNext
       \/ part = "access" /\ InAccess!Next
       \/ part = "terminals" /\ InTerminals!Next
       \/ part = "shell" /\ InShellTool!Next
       \/ part = "tls" /\ InTlsFiles!Next
    /\ OthersStay

ServerVars == <<part, threadsVars, accessPart, terminalsPart, shellPart, tlsPart>>

ServerSpec ==
    /\ ServerInit /\ [][ServerNext]_ServerVars
    /\ InAccess!Fairness
    /\ InTerminals!Fairness
    /\ InShellTool!Fairness

----------------------------------------------------------------------------
\* The other parts stay in their initial states, so an invariant is asked only of the
\* behaviours about its part.

\* As long as both files stay, every start shows the fingerprint that devices
\* have paired with, however starts failed or were killed in between.
FingerprintStays == InTlsFiles!FingerprintStays

\* Descriptors belong to their terminals, a thread has one shell, events come in
\* order, and a stop leaves no shell but those that Terminals names.  A call of bash
\* shows all the output and leaves nothing of its command behind.
ShellsSafe ==
    /\ part = "terminals" => InTerminals!TerminalsSafe
    /\ part = "shell" => InShellTool!ShellToolSafe

\* A handshake is answered, and the place of a connection that has ended is given
\* back, unless its run() never returns; whoever closes a terminal tells of its exit;
\* a call of bash with a timeout or an abort comes to its end, if nothing out of its
\* reach holds its output.
EndsAreTold == InAccess!PlacesReturn /\ InTerminals!ExitsTold /\ InShellTool!CallsEnd

\* The limits on connections hold, tokens that were given work until they are
\* revoked, and revoked ones do not; and the Runtime's certificate lets it start
\* after every end but a kill amid writing it.
AccessSafe ==
    /\ part = "access" => InAccess!AccessSafe
    /\ part = "tls" => InTlsFiles!TlsFilesSafe
=============================================================================
