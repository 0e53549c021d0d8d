------------------------------ MODULE Terminals ------------------------------
(***************************************************************************)
(* The shells of threads (pty_manager.py; runtime_server.py:               *)
(* _terminal_dispatch).  A terminal is a shell, the master side of a pty   *)
(* and the loop's reader on it.  It ends when nobody holds the other side  *)
(* any more, which need not be the end of its shell (the reader sees the   *)
(* end of file and leaves the rest to a task), or when a request, or the   *)
(* stop of the Runtime, closes it.  A file descriptor that is closed is    *)
(* the next one to be handed out.                                          *)
(***************************************************************************)
EXTENDS FiniteSets, Naturals, Sequences

CONSTANTS
    Opens,          \* terminal.open requests, and the terminals they make
    Closes,         \* terminal.close requests
    Threads,
    MaxOutput,      \* reads of output in a run
    None

VARIABLES
    thread,     \* request -> its thread
    byThread,   \* thread -> its terminal
    state,      \* terminal -> "none" | "open" | "finishing" | "gone"
    fd,         \* terminal -> the number of its descriptor
    held,       \* number -> the terminal it is open for
    readers,    \* number -> the terminal the loop calls for it
    shell,      \* terminal -> "none" | "runs" | "detached" | "ignores" | "dead" | "reaped"
    tasks,      \* terminal -> what its reader has given to the loop
    waiters,    \* terminal -> who waits for its shell to end
    pc,
    stop,       \* "no" | "closing" | "done"
    events,     \* terminal -> the events of it, in the order of their numbers
    outputs

terminalsVars ==
    <<thread, byThread, state, fd, held, readers, shell, tasks, waiters, pc, stop, events, outputs>>

Requests == Opens \cup Closes
Numbers == 1..Cardinality(Opens)
Self == "self"      \* the task that finishes a terminal whose shell has ended
Runtime == "runtime"

TypeOK ==
    /\ thread \in [Requests -> Threads] /\ byThread \in [Threads -> Opens \cup {None}]
    /\ state \in [Opens -> {"none", "open", "finishing", "gone"}]
    /\ fd \in [Opens -> Numbers \cup {None}]
    /\ held \in [Numbers -> Opens \cup {None}] /\ readers \in [Numbers -> Opens \cup {None}]
    /\ shell \in [Opens -> {"none", "runs", "detached", "ignores", "dead", "reaped"}]
    /\ \A t \in Opens : tasks[t] \in Seq({"output", "finish"})
    /\ waiters \in [Opens -> SUBSET (Closes \cup {Self, Runtime})]
    /\ pc \in [Requests -> {"idle", "waiting", "ok", "no", "cut"}]
    /\ stop \in {"no", "closing", "done"} /\ outputs \in 0..MaxOutput

Init ==
    /\ thread \in [Requests -> Threads]
    /\ byThread = [th \in Threads |-> None]
    /\ state = [t \in Opens |-> "none"] /\ fd = [t \in Opens |-> None]
    /\ held = [n \in Numbers |-> None] /\ readers = [n \in Numbers |-> None]
    /\ shell = [t \in Opens |-> "none"] /\ tasks = [t \in Opens |-> <<>>]
    /\ waiters = [t \in Opens |-> {}] /\ pc = [r \in Requests |-> "idle"]
    /\ stop = "no" /\ events = [t \in Opens |-> <<>>] /\ outputs = 0

Tell(t, event) == events' = [events EXCEPT ![t] = Append(@, event)]
Goes(r, where) == pc' = [pc EXCEPT ![r] = where]

----------------------------------------------------------------------------
\* Slip: a thread's terminal is not looked for.
OpenAnother(th) == None

\* A terminal that is finishing still counts as the thread's.
Existing(th) == byThread[th]

Free == CHOOSE n \in Numbers : held[n] = None /\ \A m \in 1..n - 1 : held[m] # None

\* Up to its event, opening is one step.
Open(o) ==
    /\ stop = "no" /\ pc[o] = "idle"
    /\ IF Existing(thread[o]) # None
       THEN Goes(o, "no") /\ UNCHANGED <<byThread, state, fd, held, readers, shell, events>>
       ELSE /\ Goes(o, "ok") /\ Tell(o, "opened")
            /\ state' = [state EXCEPT ![o] = "open"] /\ byThread' = [byThread EXCEPT ![thread[o]] = o]
            /\ fd' = [fd EXCEPT ![o] = Free] /\ held' = [held EXCEPT ![Free] = o]
            /\ readers' = [readers EXCEPT ![Free] = o]
            /\ shell' = [shell EXCEPT ![o] = "runs"]
    /\ UNCHANGED <<thread, tasks, waiters, stop, outputs>>

----------------------------------------------------------------------------
(* The reader.                                                             *)

\* The shell of the descriptor the loop has found readable.
Readable(n, what) ==
    /\ stop # "done" /\ readers[n] # None /\ held[n] # None /\ state[readers[n]] = "open"
    /\ tasks' = [tasks EXCEPT ![readers[n]] = Append(@, what)]

ReadOutput(n) ==
    /\ Readable(n, "output") /\ outputs < MaxOutput /\ outputs' = outputs + 1
    /\ UNCHANGED <<thread, byThread, state, fd, held, readers, shell, waiters, pc, stop, events>>

\* Nobody holds the slave: the shell has ended, or lives on without it.
ReadEnd(n) ==
    /\ Readable(n, "finish") /\ shell[held[n]] \in {"dead", "detached"}
    /\ state' = [state EXCEPT ![readers[n]] = "finishing"]
    /\ UNCHANGED <<thread, byThread, fd, held, readers, shell, waiters, pc, stop, events, outputs>>

Emit(t) ==
    /\ tasks[t] # <<>> /\ Head(tasks[t]) = "output" /\ Tell(t, "output")
    /\ tasks' = [tasks EXCEPT ![t] = Tail(@)]
    /\ UNCHANGED <<thread, byThread, state, fd, held, readers, shell, waiters, pc, stop, outputs>>

\* Slip: the reader stays with its number.
ReleaseReading(t) ==
    /\ held' = [held EXCEPT ![fd[t]] = None] /\ UNCHANGED readers
    /\ state' = [state EXCEPT ![t] = "gone"] /\ byThread' = [byThread EXCEPT ![thread[t]] = None]

\* The reader goes, the descriptor is closed, the tables forget the terminal.
Release(t) ==
    /\ held' = [held EXCEPT ![fd[t]] = None] /\ readers' = [readers EXCEPT ![fd[t]] = None]
    /\ state' = [state EXCEPT ![t] = "gone"] /\ byThread' = [byThread EXCEPT ![thread[t]] = None]

Finish(t) ==
    /\ tasks[t] # <<>> /\ Head(tasks[t]) = "finish"
    /\ tasks' = [tasks EXCEPT ![t] = Tail(@)]
    /\ Release(t) /\ waiters' = [waiters EXCEPT ![t] = @ \cup {Self}]
    /\ UNCHANGED <<thread, fd, shell, pc, stop, events, outputs>>

----------------------------------------------------------------------------
(* Closing.                                                                *)

\* The hangup ends the shell, or the shell does not mind.
Hangup(t) ==
    IF shell[t] \in {"runs", "detached"} THEN \E s \in {"dead", "ignores"} : shell' = [shell EXCEPT ![t] = s]
    ELSE UNCHANGED shell

\* Slip: a terminal is closed once more while it finishes.
CloseableTwice(t) == state[t] \in {"open", "finishing"}

Closeable(t) == state[t] = "open"

CloseTerminal(t, who) ==
    /\ Closeable(t) /\ Release(t) /\ Hangup(t) /\ waiters' = [waiters EXCEPT ![t] = @ \cup {who}]
    /\ UNCHANGED <<thread, fd, tasks, events, outputs>>

Close(c) ==
    LET t == byThread[thread[c]]
    IN  /\ c \in Closes /\ stop = "no" /\ pc[c] = "idle" /\ UNCHANGED stop
        /\ IF t # None /\ Closeable(t)
           THEN CloseTerminal(t, c) /\ Goes(c, "waiting")
           ELSE /\ Goes(c, "no")
                /\ UNCHANGED <<thread, byThread, state, fd, held, readers, shell, tasks, waiters,
                               events, outputs>>

ShellEnds(t) ==
    /\ shell[t] \in {"runs", "detached", "ignores"} /\ shell' = [shell EXCEPT ![t] = "dead"]
    /\ UNCHANGED <<thread, byThread, state, fd, held, readers, tasks, waiters, pc, stop, events, outputs>>

\* The shell, and what it has started, close their side of the pty and run on.
Detach(t) ==
    /\ shell[t] = "runs" /\ shell' = [shell EXCEPT ![t] = "detached"]
    /\ UNCHANGED <<thread, byThread, state, fd, held, readers, tasks, waiters, pc, stop, events, outputs>>

\* Slip: the wait has no end of its own.
OverWhenDead(t) == shell[t] \in {"dead", "reaped"}

Over(t) == shell[t] \in {"dead", "ignores", "detached", "reaped"}

\* _wait_for_child: the shell is reaped, or the second is over.  waitpid has
\* said 0 by then, which passes for an exit: the shell is not killed, and nobody
\* knows of it any more.
Waited(t, who) ==
    /\ who \in waiters[t] /\ Over(t) /\ waiters' = [waiters EXCEPT ![t] = @ \ {who}]
    /\ shell' = IF shell[t] = "dead" THEN [shell EXCEPT ![t] = "reaped"] ELSE shell
    /\ Tell(t, IF who = Self THEN "exited" ELSE "closed")
    /\ IF who \in Closes THEN Goes(who, "ok") ELSE UNCHANGED pc
    /\ UNCHANGED <<thread, byThread, state, fd, held, readers, tasks, stop, outputs>>

\* The request is cancelled while it waits: nobody waits any longer.
Cut(c) ==
    /\ pc[c] = "waiting" /\ Goes(c, "cut")
    /\ waiters' = [t \in Opens |-> waiters[t] \ {c}]
    /\ UNCHANGED <<thread, byThread, state, fd, held, readers, shell, tasks, stop, events, outputs>>

----------------------------------------------------------------------------
(* The stop of the Runtime: the connections are closed, with their         *)
(* requests; close_all closes one terminal after the other.                *)

Stop ==
    /\ stop = "no" /\ stop' = "closing"
    /\ \A c \in Closes : pc[c] # "waiting"
    /\ UNCHANGED <<thread, byThread, state, fd, held, readers, shell, tasks, waiters, pc, events, outputs>>

Stopping == stop = "closing" /\ \A t \in Opens : Runtime \notin waiters[t]

StopClose(t) == Stopping /\ CloseTerminal(t, Runtime) /\ UNCHANGED <<pc, stop>>

\* Slip: close_all waits for nothing, and closes what has no task.
AllClosedOrIdle == \A t \in Opens : Closeable(t) => tasks[t] # <<>>

AllClosed == \A t \in Opens : ~Closeable(t)

Stopped ==
    /\ Stopping /\ AllClosed /\ stop' = "done"
    /\ UNCHANGED <<thread, byThread, state, fd, held, readers, shell, tasks, waiters, pc, events, outputs>>

Step ==
    \/ \E t \in Opens : Emit(t) \/ Finish(t) \/ StopClose(t)
    \/ (\E n \in Numbers : ReadEnd(n))
    \/ \E t \in Opens, who \in Closes \cup {Self, Runtime} : Waited(t, who)
    \/ Stopped

Next ==
    \/ stop # "done" /\ Step
    \/ \E o \in Opens : Open(o) \/ ShellEnds(o) \/ Detach(o)
    \/ \E c \in Closes : Close(c) \/ Cut(c)
    \/ \E n \in Numbers : ReadOutput(n)
    \/ Stop

Fairness == WF_terminalsVars(stop # "done" /\ Step)

Spec == Init /\ [][Next]_terminalsVars /\ Fairness

----------------------------------------------------------------------------
\* A thread's terminal has its descriptor, and the loop calls the terminal the
\* descriptor is open for, whichever numbers are used again and however
\* closing and finishing meet: nobody sees the output of another's shell.
FdsAreOwn ==
    /\ \A th \in Threads : byThread[th] # None =>
           held[fd[byThread[th]]] = byThread[th] /\ thread[byThread[th]] = th
    /\ \A n \in Numbers : readers[n] \in {held[n], None}

\* A thread has one terminal: a descriptor that is open is a terminal's in use.
OneShell == \A n \in Numbers : held[n] # None => byThread[thread[held[n]]] = held[n]

Exits(t) == Cardinality({i \in DOMAIN events[t] : events[t][i] \in {"exited", "closed"}})

\* A terminal is opened first and exits once.  What its shell wrote before it
\* ended comes before that, unless the terminal was closed.
EventsInOrder ==
    \A t \in Opens : events[t] # <<>> =>
        /\ events[t][1] = "opened" /\ Exits(t) <= 1
        /\ \A i \in DOMAIN events[t] : events[t][i] = "exited" => i = Len(events[t])

\* A Runtime that has stopped leaves no shell, except one that ignores the
\* hangup, and one whose terminal had ended before it: it had given up the pty,
\* its exit was told while it lived, and close_all does not know it.
StopLeavesNoShell ==
    stop = "done" =>
        \A t \in Opens :
            /\ shell[t] # "runs"
            /\ shell[t] = "detached" =>
                   state[t] # "open" /\ \A i \in DOMAIN events[t] : events[t][i] # "closed"

\* Whoever closes a terminal tells of its exit, unless the request was cut off:
\* neither a shell that does not end nor a task that was there first keeps it.
ExitsTold ==
    <>[](\A t \in Opens :
            state[t] \in {"finishing", "gone"} =>
                \/ stop = "done" \/ Exits(t) = 1
                \/ \E c \in Closes : pc[c] = "cut")

\* Descriptors belong to their terminals, a thread has one shell, events come in
\* order, and a stop leaves no shell but the two kinds said there.
TerminalsSafe == TypeOK /\ FdsAreOwn /\ OneShell /\ EventsInOrder /\ StopLeavesNoShell
=============================================================================
