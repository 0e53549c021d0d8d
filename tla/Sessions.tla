------------------------------- MODULE Sessions -------------------------------
(***************************************************************************)
(* The tree of entries of one session and the requests that read and write *)
(* it (RuntimeService).  Every request opens a Session of its own: what    *)
(* the file holds then, and the entries the request appends itself, are    *)
(* all it knows; its next entry is a child of its own leaf, whatever       *)
(* others have written since.  Turns, configurations, navigations and      *)
(* compactions wait for the lock of the session's runtime after they have  *)
(* opened; renames, inputs for the next turn and deletions do not.         *)
(*                                                                         *)
(* log is every line ever appended; the file holds those after "removed".  *)
(* An entry's id is its index in log.  One entry of kind "message" stands  *)
(* for the messages of a turn, which follow each other on one branch.      *)
(***************************************************************************)
EXTENDS Naturals, SequencesExt

CONSTANTS
    Turns, Configures, Renames, Inputs, Navigates, Compacts, Deletes,
    Breaks,         \* turns may be cancelled in the queue, runs may fail
    Summaries       \* a navigation may summarise what it leaves and set a label

Ops == Turns \cup Configures \cup Renames \cup Inputs \cup Navigates \cup Compacts \cup Deletes
Lives == 1 .. Cardinality(Deletes) + 1
Free == "free"

\* A request is of one kind, and not the mark of a free lock.
ASSUME OpsAssumption ==
    /\ Turns \cap (Configures \cup Renames \cup Inputs \cup Navigates \cup Compacts \cup Deletes) = {}
    /\ Configures \cap (Renames \cup Inputs \cup Navigates \cup Compacts \cup Deletes) = {}
    /\ Renames \cap (Inputs \cup Navigates \cup Compacts \cup Deletes) = {}
    /\ Inputs \cap (Navigates \cup Compacts \cup Deletes) = {}
    /\ Navigates \cap (Compacts \cup Deletes) = {} /\ Compacts \cap Deletes = {}
    /\ Free \notin Ops /\ IsFiniteSet(Deletes)

VARIABLES
    log, removed,
    header,     \* the file begins with the line that makes it a session
    life,       \* which SessionRuntime of the session is registered
    holder,     \* who holds the lock of each of them
    pc,
    at,         \* how long log was when the request opened its Session
    known,      \* the entries its Session holds
    leaf,       \* its Session's leaf
    got,        \* the SessionRuntime it took
    took,       \* the next-turn inputs a turn has put before its prompt
    shown       \* the messages its model was shown

mine == <<at, known, leaf, got>>
vars == <<log, removed, header, life, holder, pc, mine, took, shown>>

Kinds == {"run_start", "message", "run_end", "session_config", "session_info", "next_turn_input",
          "next_turn_consumed", "leaf", "branch_summary", "label", "compaction"}

Init ==
    /\ log = <<>> /\ removed = 0 /\ header = TRUE
    /\ life = 1 /\ holder = [l \in Lives |-> Free]
    /\ pc = [o \in Ops |-> "idle"]
    /\ at = [o \in Ops |-> 0] /\ known = [o \in Ops |-> {}]
    /\ leaf = [o \in Ops |-> 0] /\ got = [o \in Ops |-> 1]
    /\ took = [t \in Turns |-> {}] /\ shown = [t \in Turns |-> {}]

Goes(o, where) == pc' = [pc EXCEPT ![o] = where]

InFlight(o) == pc[o] \in {"queued", "active", "consumed", "running", "answered", "left"}

----------------------------------------------------------------------------
(* What a Session makes of the entries it knows.                           *)

\* Slip: a leaf entry counts as any other.
LastEntry == IF Len(log) = removed THEN 0 ELSE Len(log)

LastLeaf ==
    IF Len(log) = removed THEN 0
    ELSE IF Last(log).kind = "leaf" THEN Last(log).target ELSE Len(log)

Branch(n) ==
    LET path[i \in 0 .. Len(log)] == IF i = 0 THEN {} ELSE {i} \cup path[log[i].parent]
    IN  path[n]

OfKind(S, kind) == {n \in S : log[n].kind = kind}
Newest(S) == CHOOSE n \in S : \A k \in S : k <= n

\* _pending_next_turn.
Pending(S) ==
    OfKind(S, "next_turn_input") \ UNION {log[n].data : n \in OfKind(S, "next_turn_consumed")}

\* _session_overrides: the latest configuration, as the set of the entries
\* that set its keys.
Overrides(S) ==
    LET written == OfKind(S, "session_config")
    IN  IF written = {} THEN {} ELSE log[Newest(written)].data

\* Slip: the name is looked for in the last entry only.
NamedLast(S) == {log[n].by : n \in {k \in OfKind(S, "session_info") : k = Newest(S)}}

\* get_name: who gave the session its name.
Named(S) ==
    LET written == OfKind(S, "session_info")
    IN  IF written = {} THEN {} ELSE {log[Newest(written)].by}

\* The messages a branch shows a model, or summarises for it.
Messages(n) == OfKind(Branch(n), "message")

----------------------------------------------------------------------------
(* Session.open and _append_entry.                                         *)

Opens(o) ==
    /\ pc[o] = "idle" /\ header
    /\ at' = [at EXCEPT ![o] = Len(log)]
    /\ known' = [known EXCEPT ![o] = removed + 1 .. Len(log)]
    /\ leaf' = [leaf EXCEPT ![o] = LastLeaf]

\* Slip: the Session's leaf stays where it was.
WritesAside(o, kind, target, data) ==
    LET n == Len(log) + 1
    IN  /\ log' = Append(log, [kind |-> kind, by |-> o, parent |-> leaf[o],
                               target |-> target, data |-> data])
        /\ known' = [known EXCEPT ![o] = @ \cup {n}]
        /\ UNCHANGED <<removed, header, at, leaf, got>>

Writes(o, kind, target, data) ==
    LET n == Len(log) + 1
    IN  /\ log' = Append(log, [kind |-> kind, by |-> o, parent |-> leaf[o],
                               target |-> target, data |-> data])
        /\ known' = [known EXCEPT ![o] = @ \cup {n}]
        /\ leaf' = [leaf EXCEPT ![o] = IF kind = "leaf" THEN target ELSE n]
        /\ UNCHANGED <<removed, header, at, got>>

Silent == UNCHANGED <<log, removed, header, mine>>

TakesRuntime(o) == got' = [got EXCEPT ![o] = life]
Locks(o) == holder[got[o]] = Free /\ holder' = [holder EXCEPT ![got[o]] = o]
Unlocks(o) == holder' = [holder EXCEPT ![got[o]] = IF @ = o THEN Free ELSE @]

----------------------------------------------------------------------------
(* Turns: turn_start, then _execute_turn as a task.                        *)

TurnOpen(t) ==
    /\ Opens(t) /\ Goes(t, "opened")
    /\ UNCHANGED <<log, removed, header, life, holder, got, took, shown>>

\* The runtime is the one registered now; the turn is in flight once its
\* run_start is in the file.
TurnStart(t) ==
    /\ pc[t] = "opened" /\ Goes(t, "queued")
    /\ LET n == Len(log) + 1
       IN  /\ log' = Append(log, [kind |-> "run_start", by |-> t, parent |-> leaf[t],
                                  target |-> 0, data |-> {}])
           /\ known' = [known EXCEPT ![t] = @ \cup {n}]
           /\ leaf' = [leaf EXCEPT ![t] = n]
    /\ TakesRuntime(t)
    /\ UNCHANGED <<removed, header, at, life, holder, took, shown>>

TurnBegin(t) ==
    /\ pc[t] = "queued" /\ Locks(t) /\ Goes(t, "active")
    /\ Silent /\ UNCHANGED <<life, took, shown>>

\* Slip: inputs that are consumed already are taken again.
ConsumeAll(t) ==
    /\ pc[t] = "active" /\ Goes(t, "consumed")
    /\ took' = [took EXCEPT ![t] = OfKind(known[t], "next_turn_input")]
    /\ IF took'[t] = {} THEN Silent ELSE Writes(t, "next_turn_consumed", 0, took'[t])
    /\ UNCHANGED <<life, holder, shown>>

TurnConsume(t) ==
    /\ pc[t] = "active" /\ Goes(t, "consumed")
    /\ took' = [took EXCEPT ![t] = Pending(known[t])]
    /\ IF took'[t] = {} THEN Silent ELSE Writes(t, "next_turn_consumed", 0, took'[t])
    /\ UNCHANGED <<life, holder, shown>>

\* agent.prompt builds the context from the turn's own Session.
TurnInvoke(t) ==
    /\ pc[t] = "consumed" /\ Goes(t, "running")
    /\ shown' = [shown EXCEPT ![t] = Messages(leaf[t])]
    /\ Silent /\ UNCHANGED <<life, holder, took>>

TurnMessages(t) ==
    /\ pc[t] = "running" /\ Goes(t, "answered")
    /\ Writes(t, "message", 0, took[t])
    /\ UNCHANGED <<life, holder, took, shown>>

\* The operation has its terminal status, and is no longer in flight, before
\* its run_end is in the file.
TurnSettle(t) ==
    /\ pc[t] = "answered" /\ Goes(t, "ending")
    /\ Silent /\ UNCHANGED <<life, holder, took, shown>>

\* A completed prompt of an unnamed session goes on to its title.
TurnEnd(t) ==
    /\ pc[t] = "ending"
    /\ Goes(t, IF Named(known[t]) = {} THEN "titling" ELSE "closing")
    /\ Writes(t, "run_end", 0, {})
    /\ UNCHANGED <<life, holder, took, shown>>

\* Slip: a failed turn forgets the lock.
BreaksLocked(t) ==
    /\ Breaks /\ pc[t] \in {"active", "consumed", "running", "answered"} /\ Goes(t, "done")
    /\ Writes(t, "run_end", 0, {})
    /\ UNCHANGED <<life, holder, took, shown>>

\* The input cannot be resolved, the provider fails, or the run is aborted.
TurnBreaks(t) ==
    /\ Breaks /\ pc[t] \in {"active", "consumed", "running", "answered"} /\ Goes(t, "closing")
    /\ Writes(t, "run_end", 0, {})
    /\ UNCHANGED <<life, holder, took, shown>>

TurnCancelled(t) ==
    /\ Breaks /\ pc[t] = "queued" /\ Goes(t, "done")
    /\ Writes(t, "run_end", 0, {})
    /\ UNCHANGED <<life, holder, took, shown>>

\* rename_session, the model's title at hand: it looks again at the name its
\* own Session has.
TurnTitle(t) ==
    /\ pc[t] = "titling" /\ Goes(t, "closing")
    /\ \/ Named(known[t]) = {} /\ Writes(t, "session_info", 0, {})
       \/ Silent
    /\ UNCHANGED <<life, holder, took, shown>>

TurnClose(t) ==
    /\ pc[t] = "closing" /\ Goes(t, "done") /\ Unlocks(t)
    /\ Silent /\ UNCHANGED <<life, took, shown>>

----------------------------------------------------------------------------
(* session_configure: opened, checked, then merged under the lock with the *)
(* configuration its Session has.                                          *)

ConfigureOpen(c) ==
    /\ Opens(c) /\ Goes(c, "checked") /\ TakesRuntime(c)
    /\ UNCHANGED <<log, removed, header, life, holder, took, shown>>

\* Slip: the new configuration does not keep the old one's keys.
ReplaceConfig(c) ==
    /\ pc[c] = "checked" /\ holder[got[c]] = Free /\ Goes(c, "done")
    /\ Writes(c, "session_config", 0, {Len(log) + 1})
    /\ UNCHANGED <<life, holder, took, shown>>

ConfigureWrite(c) ==
    /\ pc[c] = "checked" /\ holder[got[c]] = Free /\ Goes(c, "done")
    /\ Writes(c, "session_config", 0, Overrides(known[c]) \cup {Len(log) + 1})
    /\ UNCHANGED <<life, holder, took, shown>>

(* session_rename and session_next_turn append without the lock.           *)

OpenToWrite(o) ==
    /\ o \in Renames \cup Inputs
    /\ Opens(o) /\ Goes(o, "opened")
    /\ UNCHANGED <<log, removed, header, life, holder, got, took, shown>>

Rename(r) ==
    /\ r \in Renames /\ pc[r] = "opened" /\ Goes(r, "done")
    /\ Writes(r, "session_info", 0, {})
    /\ UNCHANGED <<life, holder, took, shown>>

NextTurn(i) ==
    /\ i \in Inputs /\ pc[i] = "opened" /\ Goes(i, "done")
    /\ Writes(i, "next_turn_input", 0, {})
    /\ UNCHANGED <<life, holder, took, shown>>

----------------------------------------------------------------------------
(* session_navigate and session_compact: _session_operation.               *)

CommandOpen(o) ==
    /\ o \in Navigates \cup Compacts
    /\ Opens(o) /\ Goes(o, "queued") /\ TakesRuntime(o)
    /\ UNCHANGED <<log, removed, header, life, holder, took, shown>>

CommandBegin(o) ==
    /\ o \in Navigates \cup Compacts
    /\ pc[o] = "queued" /\ Locks(o) /\ Goes(o, "active")
    /\ Silent /\ UNCHANGED <<life, took, shown>>

\* navigate_tree: the leaf moves to an entry the Session knows.
NavigateLeaf(o) ==
    /\ o \in Navigates /\ pc[o] = "active" /\ Goes(o, "left")
    /\ \E target \in known[o] : Writes(o, "leaf", target, {})
    /\ UNCHANGED <<life, holder, took, shown>>

NavigateSummary(o) ==
    /\ Summaries /\ o \in Navigates /\ pc[o] = "left" /\ log[leaf[o]].by # o
    /\ Writes(o, "branch_summary", 0, {})
    /\ UNCHANGED <<life, holder, pc, took, shown>>

NavigateLabel(o) ==
    /\ Summaries /\ o \in Navigates /\ pc[o] = "left" /\ Goes(o, "closing")
    /\ Writes(o, "label", leaf[o], {})
    /\ UNCHANGED <<life, holder, took, shown>>

Compact(o) ==
    /\ o \in Compacts /\ pc[o] = "active" /\ Goes(o, "closing")
    /\ Writes(o, "compaction", 0, {})
    /\ UNCHANGED <<life, holder, took, shown>>

\* The command is over, or it failed: an unknown target, nothing to compact,
\* no answer from the provider.
CommandClose(o) ==
    /\ o \in Navigates \cup Compacts
    /\ pc[o] \in {"active", "left", "closing"} /\ Goes(o, "done") /\ Unlocks(o)
    /\ Silent /\ UNCHANGED <<life, took, shown>>

----------------------------------------------------------------------------
(* session_delete: refused while an operation is in flight; then the file  *)
(* is flushed and unlinked, and the runtime forgotten.                     *)

\* Slip: only the operation that holds the lock counts.
DeleteCheckActive(d) ==
    /\ Opens(d)
    /\ Goes(d, IF holder[life] # Free THEN "done" ELSE "checked")
    /\ UNCHANGED <<log, removed, header, life, holder, got, took, shown>>

DeleteCheck(d) ==
    /\ Opens(d)
    /\ Goes(d, IF \E o \in Ops \ Deletes : InFlight(o) /\ got[o] = life THEN "done" ELSE "checked")
    /\ UNCHANGED <<log, removed, header, life, holder, got, took, shown>>

DeleteUnlink(d) ==
    /\ pc[d] = "checked"
    /\ IF header \/ Len(log) > removed
       THEN removed' = Len(log) /\ header' = FALSE /\ Goes(d, "unlinked")
       ELSE UNCHANGED <<removed, header>> /\ Goes(d, "done")
    /\ UNCHANGED <<log, life, holder, mine, took, shown>>

DeleteForget(d) ==
    /\ pc[d] = "unlinked" /\ Goes(d, "done") /\ life' = life + 1
    /\ Silent /\ UNCHANGED <<holder, took, shown>>

\* Opening fails once the file is gone, or is one without its header.
Refused(o) ==
    /\ pc[o] = "idle" /\ ~header /\ Goes(o, "done")
    /\ Silent /\ UNCHANGED <<life, holder, took, shown>>

----------------------------------------------------------------------------
TurnTask(t) ==
    \/ TurnStart(t) \/ TurnBegin(t) \/ TurnConsume(t) \/ TurnInvoke(t) \/ TurnMessages(t)
    \/ TurnSettle(t) \/ TurnEnd(t) \/ TurnTitle(t) \/ TurnClose(t)

Step(o) ==
    \/ o \in Turns /\ (TurnOpen(o) \/ TurnTask(o) \/ TurnBreaks(o) \/ TurnCancelled(o))
    \/ o \in Configures /\ (ConfigureOpen(o) \/ ConfigureWrite(o))
    \/ OpenToWrite(o) \/ Rename(o) \/ NextTurn(o)
    \/ CommandOpen(o) \/ CommandBegin(o) \/ NavigateLeaf(o) \/ NavigateSummary(o)
    \/ NavigateLabel(o) \/ Compact(o) \/ CommandClose(o)
    \/ o \in Deletes /\ (DeleteCheck(o) \/ DeleteUnlink(o) \/ DeleteForget(o))
    \/ Refused(o)

Next == \E o \in Ops : Step(o)

\* Requests need not come, but one that has been accepted is carried out.
Continue(o) == pc[o] # "idle" /\ Step(o)

Spec == Init /\ [][Next]_vars /\ \A o \in Ops : WF_vars(Continue(o))

----------------------------------------------------------------------------
\* o had opened the session before p wrote its entry of this kind.
Before(o, p, kind) == \A n \in OfKind(DOMAIN log, kind) : log[n].by = p => at[o] < n

\* Somebody else, who had opened the session before entry n, wrote between n
\* and the point where t opened it.
Overlapped(n, t) ==
    \E k \in n + 1 .. at[t] : log[k].by # log[n].by /\ at[log[k].by] < n

\* The variables hold values of their types; a lock is held by an operation
\* at work.
TypeOK ==
    /\ \A n \in DOMAIN log :
        /\ log[n].kind \in Kinds /\ log[n].by \in Ops
        /\ log[n].parent \in 0 .. n - 1 /\ log[n].target \in 0 .. n - 1
        /\ log[n].data \subseteq 1 .. n
    /\ removed \in 0 .. Len(log) /\ header \in BOOLEAN /\ life \in Lives
    /\ \A l \in Lives :
        holder[l] # Free => pc[holder[l]] \in {"active", "consumed", "running", "answered",
                                               "ending", "titling", "closing", "left"}
    /\ \A o \in Ops : at[o] \in 0 .. Len(log) /\ leaf[o] \in {0} \cup known[o]

\* A turn is shown the messages of every turn that was over when it opened
\* the session, unless someone with an older Session wrote in between, or the
\* user navigated away (turn_start, session_configure, _append_entry).
FinishedTurnsSeen ==
    \A t \in Turns : \A m \in OfKind(1 .. at[t], "message") :
        \/ pc[t] \notin {"running", "answered"}
        \/ Before(t, log[m].by, "run_end")
        \/ m \in shown[t] \/ m <= removed
        \/ Overlapped(m, t)
        \/ \E k \in m + 1 .. at[t] : log[k].kind = "leaf"

\* After a navigation a turn is shown nothing of what the navigation left,
\* unless someone with an older Session wrote in between, or another
\* navigation went back (navigate_tree, set_leaf_id).
NavigationHolds ==
    \A t \in Turns : \A n \in OfKind(1 .. at[t], "leaf") :
        \/ pc[t] \notin {"running", "answered"}
        \/ shown[t] \cap 1 .. n \subseteq Branch(log[n].target)
        \/ Overlapped(n, t)
        \/ \E k \in n + 1 .. at[t] : log[k].kind = "leaf"

\* An input for the next turn goes to two turns only if each of them had
\* opened the session before the other one consumed it
\* (_pending_next_turn, append_next_turn_consumed).
InputsGivenOnce ==
    \A t, u \in Turns :
        \/ t = u
        \/ took[t] \cap took[u] = {}
        \/ Before(t, u, "next_turn_consumed") /\ Before(u, t, "next_turn_consumed")

\* A configuration loses a key only to one that opened the session before
\* that key was written (session_configure merges what its Session knows).
ConfigurationKept ==
    \A n \in OfKind(removed + 1 .. Len(log), "session_config") :
        \/ log[n].data \subseteq Overrides(removed + 1 .. Len(log))
        \/ \E k \in OfKind(n + 1 .. Len(log), "session_config") : at[log[k].by] < n

\* An automatic title replaces a name only if that name was given after the
\* turn had opened its Session (rename_session).
TitleAfterName ==
    \A k \in OfKind(DOMAIN log, "session_info") : log[k].by \in Turns =>
        \A n \in OfKind(removed + 1 .. k - 1, "session_info") : n > at[log[k].by]

\* A turn whose start was in the file when a deletion looked keeps its
\* session until it is over (session_delete).
DeletionSparesTurns ==
    \A t \in Turns, d \in Deletes :
        pc[d] = "unlinked" /\ InFlight(t) =>
            Before(d, t, "run_start")

\* Every request that has come is over in the end: whoever holds the lock
\* gives it back, on every path (_execute_turn, _session_operation).
OperationsEnd == <>[](\A o \in Ops : pc[o] \in {"idle", "done"})

\* What rename_session says it guards against: a name a user gave while the
\* title was being generated stays.
ManualNameStays ==
    \A k \in OfKind(DOMAIN log, "session_info") : log[k].by \in Turns =>
        \A n \in OfKind(1 .. k - 1, "session_info") : log[n].by \notin Renames

\* What append_session_config says it does: a configuration does not change
\* what a model is shown of the session.
ConfigurationIsNoContext ==
    \A n \in OfKind(removed + 2 .. Len(log), "session_config") :
        Messages(n) = Messages(IF log[n - 1].kind = "leaf" THEN log[n - 1].target ELSE n - 1)

\* What the requests to a session can rely on although each has a Session of its
\* own: turns see what ended before they opened, navigations hold, inputs are
\* given once, configurations merge, names and deletions keep their order with
\* turns.
SessionsSafe ==
    /\ TypeOK /\ FinishedTurnsSeen /\ NavigationHolds /\ InputsGivenOnce
    /\ ConfigurationKept /\ TitleAfterName /\ DeletionSparesTurns
=============================================================================
