----------------------------- MODULE SessionLog -----------------------------
(***************************************************************************)
(* One session file of the Runtime (runtime/session.py): an append-only    *)
(* JSONL file written by several Session objects at once, because the      *)
(* service opens a fresh Session for every request.  A Session caches the  *)
(* entries and the leaf it read when it was opened, appends whole lines    *)
(* through a worker thread, and fsyncs either at once (durable entries) or *)
(* by a delayed flush shared by the appends of 25 ms.                      *)
(*                                                                         *)
(* The file is a sequence of pieces, one per write that reached it.  A     *)
(* piece that was cut short has no newline, so the next append is glued to *)
(* its line: lines, and what a reader decodes, are derived from pieces.    *)
(***************************************************************************)
EXTENDS Naturals, Sequences

CONSTANTS
    Handles,    \* Session objects open on the file
    Contents,   \* what an entry's JSON text may be, a subset of Texts
    Faults,     \* what may go wrong: "tear", a failing write or a crash cuts a
                \* piece short; "fsync", os.fsync raises
    MaxEntries  \* bound on the entries created in a behaviour

Texts == {"entry", "fragment", "broken"}
Stages == {"idle", "lock", "write", "written", "fsync", "fsynced"}
Holders == {"free", "call", "flush", "flushed"}

ASSUME ContentsAssumption == Contents \subseteq {"entry", "broken"}
ASSUME FaultsAssumption == Faults \subseteq {"tear", "fsync"}
ASSUME MaxEntriesAssumption == MaxEntries \in Nat

Ids == 1..MaxEntries
Root == 0       \* the parentId / leaf of an empty session (None)

\* "entry": JSON on one line; "fragment": an undecodable part of one line;
\* "broken": JSON whose text holds a character str.splitlines() splits on.
\* to is the leaf a reader has after the entry: its own id, or the targetId
\* of a "leaf" entry.
Piece == [id : Ids, parent : Ids \cup {Root}, to : Ids \cup {Root},
          by : Handles, text : Texts, ended : BOOLEAN]

\* An entry that an append in progress writes, and the append.
Entry == [id : Ids \cup {Root}, parent : Ids \cup {Root}, to : Ids \cup {Root}, text : Texts]
Call == [stage : Stages, entry : Entry, durable : BOOLEAN, cancelled : BOOLEAN]

VARIABLES
    disk,       \* the pieces in the file, in file order
    synced,     \* how many of them are on stable storage
    created,    \* entries created so far; the next id is created + 1
    open,       \* handle -> the Session object exists
    seen,       \* handle -> ids in its _entries
    leaf,       \* handle -> its _current_leaf_id
    dirty,      \* handle -> its _sync_dirty
    timer,      \* handle -> its delayed flush is pending
    lock,       \* handle -> who holds its _lock, and how far a flush is
    call,       \* handle -> its append in progress
    acked,      \* ids whose append returned, in this process
    promised    \* ids whose durable append returned, in any process

vars == <<disk, synced, created, open, seen, leaf, dirty, timer, lock, call,
          acked, promised>>

NoEntry == [id |-> Root, parent |-> Root, to |-> Root, text |-> "entry"]
Idle == [stage |-> "idle", entry |-> NoEntry, durable |-> FALSE, cancelled |-> FALSE]

TypeOK ==
    /\ disk \in Seq(Piece)
    /\ synced \in 0..Len(disk)
    /\ created \in 0..MaxEntries
    /\ open \in [Handles -> BOOLEAN]
    /\ seen \in [Handles -> SUBSET Ids]
    /\ leaf \in [Handles -> Ids \cup {Root}]
    /\ dirty \in [Handles -> BOOLEAN]
    /\ timer \in [Handles -> BOOLEAN]
    /\ lock \in [Handles -> Holders]
    /\ call \in [Handles -> Call]
    /\ acked \subseteq Ids
    /\ promised \subseteq Ids

-----------------------------------------------------------------------------
\* What _read_session makes of the file.

StartsLine(i) == i > 1 => disk[i - 1].ended
EndsLine(i) == i < Len(disk) => disk[i].ended
Decodes(i) == disk[i].text = "entry" /\ StartsLine(i) /\ EndsLine(i)
OnLastLine(i) == \A j \in i..(Len(disk) - 1) : ~disk[j].ended

\* Only the last line may fail to decode.
Readable ==
    \A i \in 1..Len(disk) :
        ~Decodes(i) => OnLastLine(i) /\ disk[i].text # "broken"

DecodedIds == {disk[i].id : i \in {j \in 1..Len(disk) : Decodes(j)}}

\* The leaf a reader ends with: the last decoded line decides.
ReadLeaf ==
    IF \E i \in 1..Len(disk) : Decodes(i)
    THEN disk[CHOOSE i \in 1..Len(disk) :
                Decodes(i) /\ \A j \in 1..Len(disk) : Decodes(j) => j <= i].to
    ELSE Root

-----------------------------------------------------------------------------
Init ==
    /\ disk = <<>>
    /\ synced = 0
    /\ created = 0
    /\ open = [h \in Handles |-> FALSE]
    /\ seen = [h \in Handles |-> {}]
    /\ leaf = [h \in Handles |-> Root]
    /\ dirty = [h \in Handles |-> FALSE]
    /\ timer = [h \in Handles |-> FALSE]
    /\ lock = [h \in Handles |-> "free"]
    /\ call = [h \in Handles |-> Idle]
    /\ acked = {}
    /\ promised = {}

\* JsonlSessionRepository.open: a new Session over what is in the file now.
\* A file that is not Readable raises SessionError and leaves no Session.
Open(h) ==
    /\ ~open[h]
    /\ Readable
    /\ open' = [open EXCEPT ![h] = TRUE]
    /\ seen' = [seen EXCEPT ![h] = DecodedIds]
    /\ leaf' = [leaf EXCEPT ![h] = ReadLeaf]
    /\ UNCHANGED <<disk, synced, created, dirty, timer, lock, call, acked, promised>>

\* The request is over and the object is collected; a pending delayed flush
\* keeps its Session alive.
Drop(h) ==
    /\ open[h]
    /\ call[h].stage = "idle" /\ lock[h] = "free" /\ ~timer[h]
    /\ open' = [open EXCEPT ![h] = FALSE]
    /\ seen' = [seen EXCEPT ![h] = {}]
    /\ leaf' = [leaf EXCEPT ![h] = Root]
    /\ dirty' = [dirty EXCEPT ![h] = FALSE]
    /\ UNCHANGED <<disk, synced, created, timer, lock, call, acked, promised>>

\* _append_entry, and set_leaf_id (always durable, its target an entry of this
\* Session or None) when to is not the entry itself.  The parent is the leaf
\* this Session has cached, read before the lock is taken.
Begin(h, durable, text, to) ==
    /\ open[h]
    /\ call[h].stage = "idle"
    /\ created < MaxEntries
    /\ to = created + 1 \/ (durable /\ to \in seen[h] \cup {Root})
    /\ created' = created + 1
    /\ call' = [call EXCEPT ![h] =
                  [stage |-> "lock", durable |-> durable, cancelled |-> FALSE,
                   entry |-> [id |-> created + 1, parent |-> leaf[h],
                              to |-> to, text |-> text]]]
    /\ UNCHANGED <<disk, synced, open, seen, leaf, dirty, timer, lock, acked, promised>>

Acquire(h) ==
    /\ call[h].stage = "lock"
    /\ lock[h] = "free"
    /\ lock' = [lock EXCEPT ![h] = "call"]
    /\ call' = [call EXCEPT ![h].stage = "write"]
    /\ UNCHANGED <<disk, synced, created, open, seen, leaf, dirty, timer, acked, promised>>

PieceOf(h, text, ended) ==
    [id |-> call[h].entry.id, parent |-> call[h].entry.parent, to |-> call[h].entry.to,
     by |-> h, text |-> text, ended |-> ended]

\* A slip: the text is written without its newline.
WriteUnended(h) ==
    /\ call[h].stage = "write"
    /\ disk' = Append(disk, PieceOf(h, call[h].entry.text, FALSE))
    /\ call' = [call EXCEPT ![h].stage = "written"]
    /\ UNCHANGED <<synced, created, open, seen, leaf, dirty, timer, lock, acked, promised>>

\* _append in the worker thread.
Write(h) ==
    /\ call[h].stage = "write"
    /\ disk' = Append(disk, PieceOf(h, call[h].entry.text, TRUE))
    /\ call' = [call EXCEPT ![h].stage = "written"]
    /\ UNCHANGED <<synced, created, open, seen, leaf, dirty, timer, lock, acked, promised>>

\* What may be left of a text that was cut short: some of its line, or all of
\* it but the newline.
Cuts(text) == {"fragment", text}

\* A slip: the leaf has moved although the write raised.
WriteFailsAfterMove(h) ==
    /\ call[h].stage = "write"
    /\ leaf' = [leaf EXCEPT ![h] = call[h].entry.to]
    /\ lock' = [lock EXCEPT ![h] = "free"]
    /\ call' = [call EXCEPT ![h] = Idle]
    /\ UNCHANGED <<disk, synced, created, open, seen, dirty, timer, acked, promised>>

\* The write raises (a full disk): nothing, or a cut piece, reaches the file,
\* the lock is released and the exception leaves _append_entry before any of
\* the Session's own state changes.
WriteFails(h) ==
    /\ call[h].stage = "write"
    /\ \/ UNCHANGED disk
       \/ /\ "tear" \in Faults
          /\ \E text \in Cuts(call[h].entry.text) :
                disk' = Append(disk, PieceOf(h, text, FALSE))
    /\ lock' = [lock EXCEPT ![h] = "free"]
    /\ call' = [call EXCEPT ![h] = Idle]
    /\ UNCHANGED <<synced, created, open, seen, leaf, dirty, timer, acked, promised>>

\* The Session's own state, once _persist has returned.
Remember(h) ==
    /\ seen' = [seen EXCEPT ![h] = @ \cup {call[h].entry.id}]
    /\ leaf' = [leaf EXCEPT ![h] = call[h].entry.to]
    /\ lock' = [lock EXCEPT ![h] = "free"]
    /\ call' = [call EXCEPT ![h] = Idle]
    /\ acked' = acked \cup {call[h].entry.id}

\* fsync raises: the exception leaves _persist like a cancellation does, or ends
\* the delayed flush; dirty stays set, for the next flush to try again.
FsyncFails(h) ==
    /\ "fsync" \in Faults
    /\ \/ call[h].stage = "fsync" /\ call' = [call EXCEPT ![h] = Idle]
       \/ lock[h] = "flush" /\ UNCHANGED call
    /\ lock' = [lock EXCEPT ![h] = "free"]
    /\ UNCHANGED <<disk, synced, created, open, seen, leaf, dirty, timer, acked, promised>>

\* A slip: a batch that is dirty already is taken to have its flush coming.
ReturnUnarmed(h) ==
    /\ call[h].stage = "written" /\ ~call[h].durable /\ ~call[h].cancelled
    /\ dirty' = [dirty EXCEPT ![h] = TRUE]
    /\ timer' = [timer EXCEPT ![h] = @ \/ ~dirty[h]]
    /\ Remember(h)
    /\ UNCHANGED <<disk, synced, created, open, promised>>

\* _persist of an ordinary entry after the write: mark dirty, make sure a
\* delayed flush is pending, return.
ReturnBatched(h) ==
    /\ call[h].stage = "written" /\ ~call[h].durable /\ ~call[h].cancelled
    /\ dirty' = [dirty EXCEPT ![h] = TRUE]
    /\ timer' = [timer EXCEPT ![h] = TRUE]
    /\ Remember(h)
    /\ UNCHANGED <<disk, synced, created, open, promised>>

\* A slip: the durable append finds the dirty flag clear and skips its fsync.
StartNoFsync(h) ==
    /\ call[h].stage = "written" /\ call[h].durable /\ ~call[h].cancelled
    /\ call' = [call EXCEPT ![h].stage = IF dirty[h] THEN "fsync" ELSE "fsynced"]
    /\ UNCHANGED <<disk, synced, created, open, seen, leaf, dirty, timer, lock, acked, promised>>

\* _persist of a durable entry after the write: flush under the same lock.
StartFsync(h) ==
    /\ call[h].stage = "written" /\ call[h].durable /\ ~call[h].cancelled
    /\ dirty' = [dirty EXCEPT ![h] = TRUE]
    /\ call' = [call EXCEPT ![h].stage = "fsync"]
    /\ UNCHANGED <<disk, synced, created, open, seen, leaf, timer, lock, acked, promised>>

\* A slip: what was created is taken for what was written.
FsyncCreated(h) ==
    /\ call[h].stage = "fsync"
    /\ synced' = created
    /\ call' = [call EXCEPT ![h].stage = "fsynced"]
    /\ UNCHANGED <<disk, created, open, seen, leaf, dirty, timer, lock, acked, promised>>

\* os.fsync covers the whole file, the other Sessions' appends included.
Fsync(h) ==
    /\ call[h].stage = "fsync"
    /\ synced' = Len(disk)
    /\ call' = [call EXCEPT ![h].stage = "fsynced"]
    /\ UNCHANGED <<disk, created, open, seen, leaf, dirty, timer, lock, acked, promised>>

ReturnDurable(h) ==
    /\ call[h].stage = "fsynced" /\ ~call[h].cancelled
    /\ dirty' = [dirty EXCEPT ![h] = FALSE]
    /\ promised' = promised \cup {call[h].entry.id}
    /\ Remember(h)
    /\ UNCHANGED <<disk, synced, created, open, timer>>

\* task.cancel() of the caller.  Waiting for the lock, the call ends at once;
\* later, run_blocking joins the worker before the cancellation is raised.  Bound: a
\* second one, which would end the join and free the lock while the worker goes on,
\* does not come.
Cancel(h) ==
    \/ /\ call[h].stage = "lock"
       /\ call' = [call EXCEPT ![h] = Idle]
       /\ UNCHANGED <<disk, synced, created, open, seen, leaf, dirty, timer, lock,
                      acked, promised>>
    \/ /\ call[h].stage \in {"write", "written", "fsync", "fsynced"}
       /\ ~call[h].cancelled
       /\ call' = [call EXCEPT ![h].cancelled = TRUE]
       /\ UNCHANGED <<disk, synced, created, open, seen, leaf, dirty, timer, lock,
                      acked, promised>>

\* The cancellation leaves _append_entry: the line is in the file, but the
\* Session neither knows the entry nor, before the flush, marks itself dirty.
RaiseCancelled(h) ==
    /\ call[h].stage \in {"written", "fsynced"} /\ call[h].cancelled
    /\ lock' = [lock EXCEPT ![h] = "free"]
    /\ call' = [call EXCEPT ![h] = Idle]
    /\ UNCHANGED <<disk, synced, created, open, seen, leaf, dirty, timer, acked, promised>>

\* A flush takes the lock and ends the pending delayed flush; nothing to do
\* when nothing is dirty.
TakeForFlush(h) ==
    /\ lock[h] = "free"
    /\ timer' = [timer EXCEPT ![h] = FALSE]
    /\ lock' = [lock EXCEPT ![h] = IF dirty[h] THEN "flush" ELSE "free"]
    /\ UNCHANGED <<disk, synced, created, open, seen, leaf, dirty, call, acked, promised>>

\* A slip: the delayed flush gives up when the lock is taken.
DelayedFlushGivesUp(h) ==
    /\ timer[h]
    /\ \/ TakeForFlush(h)
       \/ /\ lock[h] # "free"
          /\ timer' = [timer EXCEPT ![h] = FALSE]
          /\ UNCHANGED <<disk, synced, created, open, seen, leaf, dirty, lock, call,
                         acked, promised>>

\* _delayed_flush, 25 ms after the first append of its batch.
DelayedFlush(h) == timer[h] /\ TakeForFlush(h)

\* durable_flush (delete, flush_all), whenever the service asks for it; it
\* cancels a pending delayed flush.
DurableFlush(h) == open[h] /\ (timer[h] \/ dirty[h]) /\ TakeForFlush(h)

FlushFsync(h) ==
    /\ lock[h] = "flush"
    /\ synced' = Len(disk)
    /\ lock' = [lock EXCEPT ![h] = "flushed"]
    /\ UNCHANGED <<disk, created, open, seen, leaf, dirty, timer, call, acked, promised>>

EndFlush(h) ==
    /\ lock[h] = "flushed"
    /\ dirty' = [dirty EXCEPT ![h] = FALSE]
    /\ lock' = [lock EXCEPT ![h] = "free"]
    /\ UNCHANGED <<disk, synced, created, open, seen, leaf, timer, call, acked, promised>>

\* Every Session object is gone with the process.
ProcessGone ==
    /\ open' = [h \in Handles |-> FALSE]
    /\ seen' = [h \in Handles |-> {}]
    /\ leaf' = [h \in Handles |-> Root]
    /\ dirty' = [h \in Handles |-> FALSE]
    /\ timer' = [h \in Handles |-> FALSE]
    /\ lock' = [h \in Handles |-> "free"]
    /\ call' = [h \in Handles |-> Idle]
    /\ acked' = {}
    /\ UNCHANGED <<created, promised>>

\* The process dies: what it wrote is still in the page cache.
Kill == ProcessGone /\ UNCHANGED <<disk, synced>>

CutAt(n, text) ==
    Append(SubSeq(disk, 1, n - 1), [disk[n] EXCEPT !.text = text, !.ended = FALSE])

\* The machine dies: a prefix of the file that holds every synced piece is
\* left, its last piece possibly cut when it was not synced.
Crash ==
    /\ \E n \in synced..Len(disk) :
          /\ \/ disk' = SubSeq(disk, 1, n)
             \/ /\ "tear" \in Faults /\ n > synced
                /\ \E text \in Cuts(disk[n].text) : disk' = CutAt(n, text)
          /\ synced' = n
    /\ ProcessGone

\* The steps the event loop and the worker threads take by themselves.
Progress(h) ==
    \/ Acquire(h) \/ Write(h) \/ ReturnBatched(h) \/ StartFsync(h) \/ Fsync(h)
    \/ ReturnDurable(h) \/ RaiseCancelled(h) \/ DelayedFlush(h) \/ FlushFsync(h)
    \/ EndFlush(h)

\* What requests, cancellations and failing writes do.
Environment(h) ==
    \/ Open(h)
    \/ Drop(h)
    \/ \E durable \in BOOLEAN, text \in Contents, to \in Ids \cup {Root} :
          Begin(h, durable, text, to)
    \/ Cancel(h)
    \/ WriteFails(h)
    \/ FsyncFails(h)
    \/ DurableFlush(h)

Next ==
    \/ \E h \in Handles : Progress(h) \/ Environment(h)
    \/ Kill
    \/ Crash

Spec == Init /\ [][Next]_vars

\* A worker thread finishes, asyncio.Lock is first come first served, and the
\* loop runs the timers and wake-ups that are due.
Fairness == \A h \in Handles : WF_vars(Progress(h))

FairSpec == Spec /\ Fairness

-----------------------------------------------------------------------------
SyncedIds == {disk[i].id : i \in 1..synced}

\* The parent and the leaf an entry names exist on the reader's side, and the
\* parent comes before its child: get_branch and build_context never raise
\* "Entry not found" on a Session that open() accepted, whatever was cut,
\* lost, cancelled or written by other Sessions.
BranchesResolve ==
    Readable =>
        \A i \in 1..Len(disk) :
            Decodes(i) =>
                \A id \in {disk[i].parent, disk[i].to} \ {Root, disk[i].id} :
                    \E j \in 1..(i - 1) : Decodes(j) /\ disk[j].id = id

\* A durable append (run_end, session_config, leaf, ...) is on stable storage
\* before its caller goes on, and no crash takes it back.
PromisesKept == promised \subseteq SyncedIds

\* An ordinary append that returned is either on stable storage or still has a
\* flush coming: _sync_dirty is set, and the delayed flush is pending or the
\* lock is held by a flush or an append that will flush or leave it pending.
BatchesArePending ==
    \A i \in (synced + 1)..Len(disk) :
        disk[i].id \in acked =>
            /\ dirty[disk[i].by]
            /\ timer[disk[i].by] \/ lock[disk[i].by] = "flush"
                                 \/ call[disk[i].by].stage = "fsync"

\* Every entry a durable append returned for is found by the next reader, and
\* the file can be read: tests/test_session.py names the file "message
\* durable" and says that a truncated tail is recovered.
PromisesReadable == Readable /\ promised \subseteq DecodedIds

\* What holds of a file as long as no line is torn and no sync fails, whoever
\* appends, is cancelled or killed: every append that returned is synced or has
\* its flush coming, and the next reader finds every durable one (_persist,
\* _delayed_flush, _read_session).
LogIsSound == BatchesArePending /\ PromisesReadable

\* A batched append reaches stable storage within its process: the delayed
\* flush is never lost to a cancelled or a concurrent one.
BatchesReachDisk ==
    \A id \in Ids : (id \in acked) ~> (id \in SyncedIds \/ id \notin acked)

\* The file is a durable log of entry ids, whoever appends to it, flushes it, is
\* cancelled or fails, wherever a crash cuts it: a cut piece still has the place
\* of its entry.
Durable == INSTANCE DurableLog WITH
    Entries <- Ids, log <- [i \in DOMAIN disk |-> disk[i].id], stable <- synced,
    told <- promised

ImplementsDurableLog == Durable!Spec
=============================================================================
