----------------------------- MODULE ThreadRows -----------------------------
(***************************************************************************)
(* What the threads table says of the threads of a project: their order,   *)
(* pins and archive, the state and the unread mark that events of turns    *)
(* give them, and the title that is kept a second time, as the session's   *)
(* name.  A step is one transaction of the store's worker, or one write of *)
(* the session.                                                            *)
(***************************************************************************)
EXTENDS FiniteSets, Integers, SequencesExt

CONSTANTS
    Threads,
    Turns,
    Requests,   \* those that rename or configure the thread; each has its own values
    Lanes,      \* bound: which of "order", "turns", "fields" a behaviour is about
    None

VARIABLES
    lane,
    row,        \* thread -> its row
    created,    \* the threads there are, in the order of created_at
    turn,       \* turn -> its thread, where it stands and whether turn.cancel awaits
    kept,       \* the session's name, model and thinking level
    request,    \* request -> what it sets, the settings it saw and how far it is
    auto,       \* how far the automatic title is
    asked,      \* what the last reorder asked for
    moved,      \* the threads that any reorder named
    told,       \* threads of which a turn completed that nobody has read since
    marked,     \* threads that were marked unread since
    late,       \* threads of a turn that was told to be cancelling once it was over
    alone       \* fields set last by a request that no other was mixed up with

turnVars == <<turn, told, marked, late>>
fieldVars == <<kept, request, auto, alone>>
orderVars == <<asked, moved>>
threadRowsVars == <<lane, row, created, turnVars, fieldVars, orderVars>>

InFlight == {"queued", "active", "cancelling"}
Terminal == {"completed", "failed", "cancelled"}
Fields == {"title", "model", "level"}
Patches == {{"title"}, {"model"}, {"level"}, {"model", "level"}}
NoFields == [f \in Fields |-> None]

Rows ==
    [status : InFlight \cup Terminal \cup {"idle"}, unread : BOOLEAN, pinned : BOOLEAN, archived : BOOLEAN,
     order : (-Cardinality(Threads)) .. Cardinality(Threads), fields : [Fields -> Requests \cup {None}]]

There == ToSet(created)

TypeOK ==
    /\ lane \in Lanes /\ There \subseteq Threads /\ IsInjective(created)
    /\ \A t \in There : row[t] \in Rows
    /\ \A t \in Threads \ There : row[t] = None
    /\ \A n \in Turns : turn[n] = None \/
           turn[n] \in [of : There, status : {"queued", "active", "over", "late"}, cancel : {"no", "asked", "told"}]
    /\ kept \in [Fields -> Requests \cup {"automatic", None}] /\ auto \in {"waits", "asks", "done"}
    /\ \A r \in Requests : request[r] \in
           [sets : Patches \cup {{}}, saw : [Fields -> Requests \cup {"automatic", None}],
            crossed : BOOLEAN,
            step : {"idle", "open", "kept", "done", "cut"}]
    /\ alone \subseteq Fields

Position(s, x) == CHOOSE i \in DOMAIN s : s[i] = x

Fresh(order) ==
    [status |-> "idle", unread |-> FALSE, pinned |-> FALSE, archived |-> FALSE, order |-> order, fields |-> NoFields]

Init ==
    /\ lane \in Lanes
    /\ created = IF lane = "order" THEN <<>> ELSE SetToSeq(Threads)
    /\ row = [t \in Threads |-> IF t \in There THEN Fresh(1 - Position(created, t)) ELSE None]
    /\ turn = [n \in Turns |-> None]
    /\ kept = NoFields /\ auto = "waits" /\ alone = {}
    /\ request = [r \in Requests |-> [sets |-> {}, saw |-> NoFields, crossed |-> FALSE, step |-> "idle"]]
    /\ asked = <<>> /\ moved = {} /\ told = {} /\ marked = {} /\ late = {}

----------------------------------------------------------------------------
(* Order, pins and archive.                                                *)

Minimum(S) == CHOOSE o \in S : \A other \in S : o <= other

\* Slip: only the threads that are not archived are looked at.
FirstOrderShown ==
    LET shown == {row[t].order : t \in {u \in There : ~row[u].archived}}
    IN  IF shown = {} THEN 0 ELSE Minimum(shown) - 1

FirstOrder == IF There = {} THEN 0 ELSE Minimum({row[t].order : t \in There}) - 1

CreateThread(t) ==
    /\ lane = "order" /\ t \notin There
    /\ row' = [row EXCEPT ![t] = Fresh(FirstOrder)]
    /\ created' = Append(created, t)
    /\ UNCHANGED <<lane, turnVars, fieldVars, orderVars>>

\* Slip: an archived thread may be pinned.
PinAny(t, pinned) == [row[t] EXCEPT !.pinned = pinned]

Pinned(t, pinned) == [row[t] EXCEPT !.pinned = IF pinned THEN @ \/ ~row[t].archived ELSE FALSE]

SetPinned(t, pinned) ==
    /\ t \in There /\ row' = [row EXCEPT ![t] = Pinned(t, pinned)]
    /\ UNCHANGED <<lane, created, turnVars, fieldVars, orderVars>>

SetArchived(t, archived) ==
    /\ t \in There
    /\ row' = [row EXCEPT ![t] =
           [@ EXCEPT !.archived = archived, !.pinned = @ /\ ~archived, !.unread = @ /\ ~archived]]
    /\ IF archived THEN told' = told \ {t} /\ marked' = marked \ {t} ELSE UNCHANGED <<told, marked>>
    /\ UNCHANGED <<lane, created, turn, late, fieldVars, orderVars>>

\* Slip: each thread is put before those there are.
InFront(t, threads) == FirstOrder - Position(threads, t)

Place(t, threads) == Position(threads, t) - 1

\* Requests with a thread twice, unknown, archived or pinned are refused.
Reorder(threads) ==
    /\ lane = "order" /\ threads # <<>> /\ IsInjective(threads)
    /\ \A t \in ToSet(threads) : t \in There /\ ~row[t].archived /\ ~row[t].pinned
    /\ row' = [t \in Threads |->
           IF t \in ToSet(threads) THEN [row[t] EXCEPT !.order = Place(t, threads)] ELSE row[t]]
    /\ asked' = threads /\ moved' = moved \cup ToSet(threads)
    /\ UNCHANGED <<lane, created, turnVars, fieldVars>>

\* list_threads: by sort_order, then by created_at.
Before(t, u) ==
    \/ row[t].order < row[u].order
    \/ row[t].order = row[u].order /\ Position(created, t) < Position(created, u)

----------------------------------------------------------------------------
(* The events of turns: project_event.                                     *)

ThreadStatus(status) == IF status = "cancelled" THEN "idle" ELSE status

\* Slip: the mark is what this event says of it.
ProjectedAnew(t, status, completed) ==
    [row[t] EXCEPT !.status = ThreadStatus(status), !.unread = completed]

\* Slip: a cancellation leaves the thread as it is shown.
ProjectedUnlessCancelled(t, status, completed) ==
    [row[t] EXCEPT !.status = IF status = "cancelled" THEN @ ELSE status, !.unread = @ \/ completed]

Projected(t, status, completed) ==
    [row[t] EXCEPT !.status = ThreadStatus(status), !.unread = @ \/ completed]

Told(n, status) == row' = [row EXCEPT ![turn[n].of] = Projected(turn[n].of, status, status = "completed")]

\* The row of a turn is made for its first event.
TurnQueued(n, t) ==
    /\ lane = "turns" /\ t \in There /\ turn[n] = None
    /\ turn' = [turn EXCEPT ![n] = [of |-> t, status |-> "queued", cancel |-> "no"]]
    /\ row' = [row EXCEPT ![t].status = "queued"]
    /\ UNCHANGED <<lane, created, told, marked, late, fieldVars, orderVars>>

\* The turns of a session run one after the other, up to the automatic title.
Running(t) == {n \in Turns : turn[n] # None /\ turn[n].of = t /\ turn[n].status \in {"active", "over"}}

TurnStarted(n) ==
    /\ turn[n] # None /\ turn[n].status = "queued" /\ turn[n].cancel = "no" /\ Running(turn[n].of) = {}
    /\ turn' = [turn EXCEPT ![n].status = "active"]
    /\ Told(n, "active")
    /\ UNCHANGED <<lane, created, told, marked, late, fieldVars, orderVars>>

\* turn.cancel sets the operation's status and tells of it after an await.
CancelAsked(n) ==
    /\ turn[n] # None /\ turn[n].status \in {"queued", "active"} /\ turn[n].cancel = "no"
    /\ turn' = [turn EXCEPT ![n].cancel = "asked"]
    /\ UNCHANGED <<lane, row, created, told, marked, late, fieldVars, orderVars>>

CancelTold(n) ==
    /\ turn[n] # None /\ turn[n].cancel = "asked"
    /\ turn' = [turn EXCEPT ![n].cancel = "told"]
    /\ Told(n, "cancelling")
    /\ late' = IF turn[n].status \in {"queued", "active"} THEN late ELSE late \cup {turn[n].of}
    /\ UNCHANGED <<lane, created, told, marked, fieldVars, orderVars>>

\* A completed turn holds the session until its title is made.
TurnEnds(n, status) ==
    /\ turn[n] # None /\ turn[n].status \in {"queued", "active"}
    /\ status # "cancelled" <=> turn[n].cancel = "no" /\ turn[n].status = "active"
    /\ turn' = [turn EXCEPT ![n].status = IF status = "completed" THEN "over" ELSE "late"]
    /\ Told(n, status)
    /\ told' = IF status = "completed" THEN told \cup {turn[n].of} ELSE told
    /\ UNCHANGED <<lane, created, marked, late, fieldVars, orderVars>>

\* session.renamed of a completed turn gives the thread the turn's status again.
TurnNamed(n) ==
    /\ turn[n] # None /\ turn[n].status = "over"
    /\ turn' = [turn EXCEPT ![n].status = "late"]
    /\ \/ UNCHANGED row
       \/ row' = [row EXCEPT ![turn[n].of] =
              Projected(turn[n].of, IF turn[n].cancel = "told" THEN "cancelling" ELSE "completed", FALSE)]
    /\ UNCHANGED <<lane, created, told, marked, late, fieldVars, orderVars>>

SetRead(t) ==
    /\ lane = "turns" /\ t \in There
    /\ row' = [row EXCEPT ![t] =
           [@ EXCEPT !.status = IF @ = "completed" THEN "idle" ELSE @, !.unread = FALSE]]
    /\ told' = told \ {t} /\ marked' = marked \ {t}
    /\ UNCHANGED <<lane, created, turn, late, fieldVars, orderVars>>

SetUnread(t) ==
    /\ lane = "turns" /\ t \in There /\ ~row[t].archived
    /\ row' = [row EXCEPT ![t].unread = TRUE]
    /\ marked' = marked \cup {t}
    /\ UNCHANGED <<lane, created, turn, told, late, fieldVars, orderVars>>

----------------------------------------------------------------------------
(* Names and settings: thread.rename and thread.configure write to the     *)
(* session first, and to the row when that is done.                        *)

Busy == {r \in Requests : request[r].step \in {"open", "kept"}}

Crossed == [r \in Requests |-> [request[r] EXCEPT !.crossed = @ \/ r \in Busy]]

\* Requests that overlap leave nothing to rely on.
Open(r, sets) ==
    /\ lane = "fields" /\ request[r].step = "idle"
    /\ request' = [Crossed EXCEPT ![r] = [sets |-> sets, saw |-> kept, crossed |-> Busy # {}, step |-> "open"]]
    /\ alone' = IF Busy = {} THEN alone \ sets ELSE {}
    /\ UNCHANGED <<lane, row, created, turnVars, kept, auto, orderVars>>

\* session_configure puts its patch over the settings it has seen;
\* session_rename appends the name.
Keep(r) ==
    /\ request[r].step = "open" /\ request' = [request EXCEPT ![r].step = "kept"]
    /\ kept' = [f \in Fields |->
           IF f \in request[r].sets THEN r
           ELSE IF request[r].sets = {"title"} \/ f = "title" THEN kept[f] ELSE request[r].saw[f]]
    /\ UNCHANGED <<lane, row, created, turnVars, auto, alone, orderVars>>

\* Slip: what a request does not give is set to nothing.
SetAll(fields, r) == [f \in Fields |-> IF f \in request[r].sets THEN r ELSE None]

\* COALESCE
SetGiven(fields, r) == [f \in Fields |-> IF f \in request[r].sets THEN r ELSE fields[f]]

SetRow(r) ==
    /\ request[r].step = "kept" /\ request' = [request EXCEPT ![r].step = "done"]
    /\ row' = [row EXCEPT ![created[1]].fields = SetGiven(@, r)]
    /\ alone' = IF request[r].crossed THEN alone ELSE alone \cup request[r].sets
    /\ UNCHANGED <<lane, created, turnVars, kept, auto, orderVars>>

\* The request ends with its connection.
Cut(r) ==
    /\ r \in Busy /\ request' = [request EXCEPT ![r].step = "cut"]
    /\ UNCHANGED <<lane, row, created, turnVars, kept, auto, alone, orderVars>>

\* rename_session of a turn whose Session had no name when it was opened.
AskForTitle ==
    /\ lane = "fields" /\ auto = "waits"
    /\ auto' = IF kept["title"] = None THEN "asks" ELSE "done"
    /\ UNCHANGED <<lane, row, created, turnVars, kept, request, alone, orderVars>>

\* The row is not told of it.
NameSession ==
    /\ auto = "asks" /\ auto' = "done"
    /\ kept' = [kept EXCEPT !["title"] = "automatic"]
    /\ request' = Crossed /\ alone' = alone \ {"title"}
    /\ UNCHANGED <<lane, row, created, turnVars, orderVars>>

----------------------------------------------------------------------------
Next ==
    \/ \E t \in Threads :
           \/ CreateThread(t) \/ SetRead(t) \/ SetUnread(t)
           \/ lane = "order" /\ \E b \in BOOLEAN : SetPinned(t, b)
           \/ lane # "fields" /\ \E b \in BOOLEAN : SetArchived(t, b)
    \/ \E threads \in SeqOf(Threads, Cardinality(Threads)) : Reorder(threads)
    \/ \E n \in Turns :
           \/ \E t \in Threads : TurnQueued(n, t)
           \/ TurnStarted(n) \/ CancelAsked(n) \/ CancelTold(n) \/ TurnNamed(n)
           \/ \E status \in Terminal : TurnEnds(n, status)
    \/ \E r \in Requests :
           (\E sets \in Patches : Open(r, sets)) \/ Keep(r) \/ SetRow(r) \/ Cut(r)
    \/ AskForTitle
    \/ NameSession

Spec == Init /\ [][Next]_threadRowsVars

----------------------------------------------------------------------------
\* An archived thread is not pinned: not by a pin that comes after the
\* archiving, and not once it is taken out of the archive again
\* (set_thread_pinned, set_thread_archived).
PinnedNotArchived == \A t \in There : ~(row[t].pinned /\ row[t].archived)

\* The listing keeps the order that was asked for last, whatever is created,
\* pinned or archived since; a thread created since comes before every thread
\* that was there, those in the archive too (reorder_threads, create_thread).
ListedAsAsked ==
    /\ \A i, j \in DOMAIN asked : i < j => Before(asked[i], asked[j])
    /\ \A t, u \in There \ moved : Position(created, u) < Position(created, t) => Before(t, u)
    /\ \A t \in There \ moved, u \in moved :
           Position(created, t) = Len(created) => Before(t, u)

\* A thread is marked unread when a turn of it completed that nobody read or
\* archived since, or when it was marked so, and not otherwise; later turns
\* leave the mark (project_event, set_thread_read, set_thread_archived).
UnreadIsTold == \A t \in There : row[t].unread <=> t \in told \cup marked

\* A thread that seems to be at work has a turn that is; the exception is a
\* turn.cancel that tells of a turn that was over by then (project_event).
AtWorkIsTrue ==
    \A t \in There : row[t].status \in InFlight =>
        t \in late \/ \E n \in Turns : turn[n] # None /\ turn[n].of = t /\ turn[n].status \in {"queued", "active"}

\* A field that was set last by a request nobody else's was mixed up with is the
\* same in the session and in the row, whatever other requests had done to it
\* before: the patch of one field leaves the others alone in both, and the
\* automatic title comes between only until it is there (session_configure,
\* configure_thread, session_rename, set_thread_title).
FieldsAgree == \A f \in alone : Busy = {} => kept[f] = row[created[1]].fields[f]

\* Archived threads are not pinned, the list is in the order asked for, unread
\* and at-work marks are told and true, and names and settings agree with the
\* session's where no requests overlap.
ThreadRowsSafe ==
    /\ TypeOK /\ PinnedNotArchived /\ ListedAsAsked /\ UnreadIsTold /\ AtWorkIsTrue
    /\ FieldsAgree
=============================================================================
