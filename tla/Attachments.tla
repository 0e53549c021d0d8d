----------------------------- MODULE Attachments -----------------------------
(***************************************************************************)
(* Attachments (store.py, runtime/attachments.py, runtime_server.py).  An  *)
(* upload is a row and a blob named after its content, which uploads of    *)
(* the same content share.  A turn copies the blobs of its attachments     *)
(* into its session's directory; a manifest lists the copies.  Rows are    *)
(* written by the store's one worker; copies are made in other threads     *)
(* under a lock of the session; deletions of threads and of uploads come   *)
(* in between, and the process may be killed anywhere.                     *)
(***************************************************************************)
EXTENDS FiniteSets, Naturals

CONSTANTS
    Uploads,        \* attachment.upload calls, and the attachments they make
    Drops,          \* attachment.delete calls
    Turns,          \* turn.start calls
    Threads,
    Contents,
    Empty,          \* the contents without a byte
    Wants,          \* the sets of attachments a turn may name
    None

VARIABLES
    content, thread, wants,     \* what the calls are about
    rows, blobs,    \* the attachments there are, the contents on disk
    told,           \* turns whose row names their attachments
    sessions,       \* threads with a session and a row
    files,          \* thread -> the copies <<turn, attachment>> on disk
    manifest,       \* thread -> the copies its manifest lists
    epoch,          \* thread -> how many locks of it were forgotten
    worker,         \* what the store's worker is about to unlink or to insert
    pc,
    gen,            \* call -> the lock it asked for
    seen,           \* turn -> the copies it has read from the manifest
    up,
    torn            \* History: a removal of copies did not get to its manifest

Calls == Uploads \cup Drops \cup Turns \cup Threads     \* a thread: its deletion
inputs == <<content, thread, wants>>
store == <<rows, blobs, worker>>
copies == <<files, manifest>>
attachmentsVars == <<inputs, store, told, sessions, copies, epoch, pc, gen, seen, up, torn>>

Copies(t, ids) == {t} \X ids
AllCopies == Turns \X Uploads
Inside == {"reading", "copying", "removing", "unlinking", "loading"}
Ended == {"ok", "refused", "cut"}
InFlight == {"queued", "load", "loading", "running"}

TypeOK ==
    /\ content \in [Uploads -> Contents] /\ thread \in [Turns -> Threads] /\ wants \in [Turns -> Wants]
    /\ rows \subseteq Uploads /\ blobs \subseteq Contents
    /\ told \subseteq Turns /\ sessions \subseteq Threads
    /\ files \in [Threads -> SUBSET AllCopies] /\ manifest \in [Threads -> SUBSET AllCopies]
    /\ epoch \in [Threads -> 0..1]
    /\ worker \in [call: Calls, blobs: SUBSET Contents] \cup {None}
    /\ pc \in [Calls -> {"idle", "storing", "fetched", "resolve", "resolved", "remove", "unlinked",
                         "checked", "dir", "row"} \cup Inside \cup InFlight \cup Ended]
    /\ gen \in [Turns -> 0..1] /\ seen \in [Turns -> SUBSET AllCopies]
    /\ up \in BOOLEAN /\ torn \in SUBSET Threads

Init ==
    /\ content \in [Uploads -> Contents] /\ thread \in [Turns -> Threads] /\ wants \in [Turns -> Wants]
    /\ rows = {} /\ blobs = {} /\ told = {} /\ sessions = Threads
    /\ files = [th \in Threads |-> {}] /\ manifest = [th \in Threads |-> {}]
    /\ epoch = [th \in Threads |-> 0] /\ worker = None
    /\ pc = [c \in Calls |-> "idle"]
    /\ gen = [t \in Turns |-> 0] /\ seen = [t \in Turns |-> {}]
    /\ up = TRUE /\ torn = {}

Goes(c, where) == up /\ up' = up /\ pc' = [pc EXCEPT ![c] = where]
From(c, here, there) == pc[c] = here /\ Goes(c, there)

----------------------------------------------------------------------------
(* The store: one worker, which a kill may interrupt.                      *)

\* add_attachment: the blob, unless it is there; then the row, or the blob goes
\* again.
Upload(u) ==
    /\ worker = None /\ u \in Uploads /\ From(u, "idle", "storing")
    /\ blobs' = blobs \cup {content[u]}
    /\ worker' = [call |-> u, blobs |-> {content[u]} \ blobs]
    /\ UNCHANGED <<inputs, rows, told, sessions, copies, epoch, gen, seen, torn>>

\* Slip: a failed upload takes the blob with it, its own or not.
CreatedOrNot(u) == {content[u]}

\* What a failed upload unlinks: the blob, if it was this upload's.
Created(u) == worker.blobs

Uploaded(u) ==
    /\ u \in Uploads /\ worker # None /\ worker.call = u /\ worker' = None
    /\ \/ From(u, "storing", "ok") /\ rows' = rows \cup {u} /\ UNCHANGED blobs
       \/ From(u, "storing", "refused") /\ blobs' = blobs \ Created(u) /\ UNCHANGED rows
    /\ UNCHANGED <<inputs, told, sessions, copies, epoch, gen, seen, torn>>

\* The blobs no row is left for.
BlobsOf(gone) == {content[u] : u \in gone} \ {content[u] : u \in rows \ gone}

\* The rows go, then the blobs that none of the others needs.
Delete(c, gone) ==
    /\ worker = None /\ rows' = rows \ gone
    /\ worker' = [call |-> c, blobs |-> BlobsOf(gone \cap rows)]

\* attachment.delete asks nobody whether a turn names the attachment.
Drop(d) ==
    /\ d \in Drops /\ From(d, "idle", "storing")
    /\ \E u \in rows : Delete(d, {u})
    /\ UNCHANGED <<inputs, blobs, told, sessions, copies, epoch, gen, seen, torn>>

\* delete_thread: what only this thread's turns name is deleted with it.
DeleteThread(th) ==
    LET mine == {t \in told : thread[t] = th}
        named(turns) == UNION {wants[t] : t \in turns}
    IN  /\ th \in Threads /\ From(th, "row", "storing")
        /\ Delete(th, named(mine) \ named(told \ mine)) /\ told' = told \ mine
        /\ UNCHANGED <<inputs, blobs, sessions, copies, epoch, gen, seen, torn>>

Unlink(c) ==
    /\ worker # None /\ worker.call = c /\ c \notin Uploads /\ From(c, "storing", "ok")
    /\ blobs' = blobs \ worker.blobs /\ worker' = None
    /\ UNCHANGED <<inputs, rows, told, sessions, copies, epoch, gen, seen, torn>>

----------------------------------------------------------------------------
(* turn.start.                                                             *)

Start(t) ==
    /\ t \in Turns /\ worker = None /\ thread[t] \in sessions
    /\ From(t, "idle", IF wants[t] \subseteq rows THEN "fetched" ELSE "refused")
    /\ UNCHANGED <<inputs, store, told, sessions, copies, epoch, gen, seen, torn>>

\* It asks for the session's lock, with the session it has opened.
Ask(t, here, there) ==
    /\ From(t, here, there) /\ gen' = [gen EXCEPT ![t] = epoch[thread[t]]]
    /\ UNCHANGED <<inputs, store, told, sessions, copies, epoch, seen, torn>>

Resolve(t) ==
    Ask(t, "fetched", IF thread[t] \in sessions THEN "resolve" ELSE "refused")

\* Slip: resolutions do not wait for each other.
FreeAlways(t) == TRUE

\* A lock that was forgotten by a deletion is another one.
Free(t) ==
    /\ \A s \in Turns : thread[s] = thread[t] /\ gen[s] = gen[t] => pc[s] \notin Inside
    /\ gen[t] = epoch[thread[t]] => pc[thread[t]] # "dir"

Locked(t) ==
    /\ Free(t)
    /\ From(t, "resolve", "reading") \/ From(t, "remove", "removing") \/ From(t, "load", "loading")
    /\ UNCHANGED <<inputs, store, told, sessions, copies, epoch, gen, seen, torn>>

\* A size of 0 is read as -1, which is no file's.
Measures(u) == content[u] \notin Empty

\* _load: a copy that is listed and is not there, or not of its size, spoils all.
Loads(th) == \A copy \in manifest[th] : copy \in files[th] /\ Measures(copy[2])

\* The manifest is read; an attachment has one copy in a session, and its blob
\* is there and has its size.
Read(t) ==
    LET th == thread[t]
        known == {copy[2] : copy \in manifest[th]}
    IN  /\ IF Loads(th) /\ wants[t] \cap known = {} /\ \A u \in wants[t] : content[u] \in blobs
           THEN From(t, "reading", "copying")
           ELSE From(t, "reading", "refused")
        /\ seen' = [seen EXCEPT ![t] = manifest[th]]
        /\ UNCHANGED <<inputs, store, told, sessions, copies, epoch, gen, torn>>

Copied(t) == files[thread[t]] \cap Copies(t, Uploads)

Copy(t, u) ==
    /\ u \in wants[t] /\ <<t, u>> \notin Copied(t) /\ content[u] \in blobs
    /\ From(t, "copying", "copying")
    /\ files' = [files EXCEPT ![thread[t]] = @ \cup {<<t, u>>}]
    /\ UNCHANGED <<inputs, store, told, sessions, manifest, epoch, gen, seen, torn>>

\* Slip: what was copied stays.
CopyFailsLeaving(t) ==
    /\ From(t, "copying", "refused")
    /\ UNCHANGED <<inputs, store, told, sessions, copies, epoch, gen, seen, torn>>

\* A copy fails, or the manifest: the copies are unlinked.
CopyFails(t) ==
    /\ From(t, "copying", "refused")
    /\ files' = [files EXCEPT ![thread[t]] = @ \ Copied(t)]
    /\ UNCHANGED <<inputs, store, told, sessions, manifest, epoch, gen, seen, torn>>

\* Slip: the manifest does not wait for the copies.
WriteManifestFirst(t) ==
    /\ From(t, "copying", "resolved")
    /\ manifest' = [manifest EXCEPT ![thread[t]] = seen[t] \cup Copies(t, wants[t])]
    /\ UNCHANGED <<inputs, store, told, sessions, files, epoch, gen, seen, torn>>

\* The manifest is replaced by what was read and the new copies.
WriteManifest(t) ==
    /\ Copied(t) = Copies(t, wants[t]) /\ From(t, "copying", "resolved")
    /\ manifest' = [manifest EXCEPT ![thread[t]] = seen[t] \cup Copied(t)]
    /\ UNCHANGED <<inputs, store, told, sessions, files, epoch, gen, seen, torn>>

\* append_run_start, and the turn's row with turn.created.
RunStart(t) ==
    /\ From(t, "resolved", "queued") /\ worker = None
    /\ told' = IF pc[thread[t]] \notin {"storing", "ok"} THEN told \cup {t} ELSE told
    /\ UNCHANGED <<inputs, store, sessions, copies, epoch, gen, seen, torn>>

RunStartFails(t) == Ask(t, "resolved", "remove")

\* _remove: the copies of these attachments are unlinked one after the other,
\* then the manifest is replaced by the rest; if that fails it lists what is gone.
RemoveUnlink(t) ==
    LET th == thread[t]
        mine == {copy \in manifest[th] : copy[2] \in wants[t]}
    IN  /\ From(t, "removing", "unlinking") /\ Loads(th)
        /\ files' = [files EXCEPT ![th] = @ \ mine]
        /\ seen' = [seen EXCEPT ![t] = manifest[th] \ mine]
        /\ torn' = IF mine = {} THEN torn ELSE torn \cup {th}
        /\ UNCHANGED <<inputs, store, told, sessions, manifest, epoch, gen>>

RemoveManifest(t) ==
    /\ From(t, "unlinking", "refused")
    /\ \/ /\ manifest' = [manifest EXCEPT ![thread[t]] = seen[t]]
          /\ torn' = torn \ {thread[t]}
       \/ UNCHANGED <<manifest, torn>>
    /\ UNCHANGED <<inputs, store, told, sessions, files, epoch, gen, seen>>

\* The manifest does not load: nothing is removed.
RemoveFails(t) ==
    /\ From(t, "removing", "refused") /\ ~Loads(thread[t])
    /\ UNCHANGED <<inputs, store, told, sessions, copies, epoch, gen, seen, torn>>

\* The turn's own task.
Run(t) == Ask(t, "queued", "load")

Load(t) ==
    /\ From(t, "loading", IF Loads(thread[t]) THEN "running" ELSE "refused")
    /\ UNCHANGED <<inputs, store, told, sessions, copies, epoch, gen, seen, torn>>

RunEnds(t) ==
    /\ From(t, "running", "ok")
    /\ UNCHANGED <<inputs, store, told, sessions, copies, epoch, gen, seen, torn>>

\* The client of turn.start goes away.  A thread that has begun is waited for.
Cut(t) ==
    /\ pc[t] \in {"fetched", "resolve", "resolved", "remove"} /\ Goes(t, "cut")
    /\ UNCHANGED <<inputs, store, told, sessions, copies, epoch, gen, seen, torn>>

----------------------------------------------------------------------------
(* thread.delete: session_delete, then the row.                            *)

DeleteCheck(th) ==
    /\ th \in Threads /\ From(th, "idle", "checked")
    /\ \A t \in Turns : thread[t] = th => pc[t] \notin InFlight
    /\ UNCHANGED <<inputs, store, told, sessions, copies, epoch, gen, seen, torn>>

DeleteSession(th) ==
    /\ From(th, "checked", "unlinked") /\ sessions' = sessions \ {th}
    /\ UNCHANGED <<inputs, store, told, copies, epoch, gen, seen, torn>>

DeleteLocked(th) ==
    /\ \A t \in Turns : thread[t] = th /\ gen[t] = epoch[th] => pc[t] \notin Inside
    /\ From(th, "unlinked", "dir")
    /\ UNCHANGED <<inputs, store, told, sessions, copies, epoch, gen, seen, torn>>

\* delete_session: the directory goes, and the lock is forgotten.
DeleteDir(th) ==
    /\ From(th, "dir", "row")
    /\ files' = [files EXCEPT ![th] = {}] /\ manifest' = [manifest EXCEPT ![th] = {}]
    /\ epoch' = [epoch EXCEPT ![th] = 1] /\ torn' = torn \ {th}
    /\ UNCHANGED <<inputs, store, told, sessions, gen, seen>>

----------------------------------------------------------------------------
Kill ==
    /\ up /\ up' = FALSE /\ worker' = None
    /\ pc' = [c \in Calls |-> IF pc[c] \in Ended \cup {"idle"} THEN pc[c] ELSE "cut"]
    /\ UNCHANGED <<inputs, rows, blobs, told, sessions, copies, epoch, gen, seen, torn>>

\* cleanup_orphan_attachments
Clean == blobs' = {content[u] : u \in rows}

\* A start removes what an interrupted upload, or deletion, has left.
Restart ==
    /\ ~up /\ up' = TRUE /\ Clean
    /\ files' = [th \in Threads |-> IF th \in sessions THEN files[th] ELSE {}]
    /\ manifest' = [th \in Threads |-> IF th \in sessions THEN manifest[th] ELSE {}]
    /\ epoch' = [th \in Threads |-> 0] /\ gen' = [t \in Turns |-> 0]
    /\ torn' = torn \cap sessions
    /\ UNCHANGED <<inputs, rows, worker, told, sessions, pc, seen>>

TurnStep(t) ==
    \/ Resolve(t) \/ Locked(t) \/ Read(t) \/ CopyFails(t) \/ WriteManifest(t) \/ RunStart(t)
    \/ RemoveUnlink(t) \/ RemoveManifest(t) \/ RemoveFails(t) \/ Run(t) \/ Load(t) \/ RunEnds(t)
    \/ \E u \in Uploads : Copy(t, u)

Step ==
    \/ \E t \in Turns : TurnStep(t)
    \/ \E c \in Calls : Unlink(c) \/ Uploaded(c)
    \/ \E th \in Threads : DeleteSession(th) \/ DeleteLocked(th) \/ DeleteDir(th) \/ DeleteThread(th)
    \/ Restart

Next ==
    \/ Step
    \/ \E c \in Calls : Upload(c) \/ Drop(c)
    \/ \E t \in Turns : Start(t) \/ RunStartFails(t) \/ Cut(t)
    \/ \E th \in Threads : DeleteCheck(th)
    \/ Kill

Fairness == WF_attachmentsVars(Step)

Spec == Init /\ [][Next]_attachmentsVars /\ Fairness

----------------------------------------------------------------------------
\* The deletion of a session looks for turns that are in flight, not for those
\* that still resolve their attachments, or remove them.
Overtaken(th) == pc[th] \notin {"idle", "checked"}

\* There is a blob for every row and, when a Runtime has started, a row for
\* every blob, whoever shares it, however uploads and deletions of the same
\* content follow each other, and wherever the process was killed.
BlobsMatchRows ==
    /\ \A u \in rows : content[u] \in blobs
    /\ up /\ worker = None => blobs = {content[u] : u \in rows}

\* A turn has brought an attachment without a byte into the session: it is
\* accepted and copied, and no turn of the session loads its attachments again,
\* this one included, nor removes any.
Spoilt(th) == \E copy \in manifest[th] : ~Measures(copy[2])

\* What a manifest lists is there, so that the session's turns can load it: only
\* a removal that did not get to the manifest breaks it, and, for a session whose
\* copies are all there, an empty attachment.
ManifestsLoad ==
    \A th \in Threads :
        \/ th \in torn \/ Overtaken(th)
        \/ manifest[th] \subseteq files[th] /\ (Loads(th) \/ Spoilt(th))

\* An accepted turn has all its attachments, whatever happens to the uploads
\* and whichever other turns resolve theirs.
TurnsHaveTheirs ==
    \A t \in Turns : pc[t] \in InFlight =>
        Overtaken(thread[t]) \/ Copies(t, wants[t]) \subseteq files[thread[t]] \cap manifest[thread[t]]

\* A turn that was refused leaves no copies, so that it can be sent again: an
\* attachment has one copy in a session.  They stay in a session that an empty
\* attachment has spoilt, its own or another turn's.  A turn.start that was cut off after
\* its copies were made leaves them as well, and is not meant here.
RefusedLeavesNothing ==
    \A t \in Turns : pc[t] = "refused" /\ t \notin told /\ ~Overtaken(thread[t]) =>
        \/ Copied(t) \cup (manifest[thread[t]] \cap Copies(t, Uploads)) = {}
        \/ thread[t] \in torn \/ Spoilt(thread[t])

\* No call is under way.
AllOver == \A c \in Calls : pc[c] \in Ended \cup {"idle"}

\* Blobs match rows, manifests list what is there, accepted turns have their
\* attachments, and refused ones leave nothing.
AttachmentsSafe ==
    /\ TypeOK /\ BlobsMatchRows /\ ManifestsLoad /\ TurnsHaveTheirs
    /\ RefusedLeavesNothing
=============================================================================
