---------------------------- MODULE EventStream -----------------------------
(***************************************************************************)
(* The event stream of the RPC server (runtime_server.py): events are      *)
(* numbered, kept for replay, projected by the store worker and sent to    *)
(* the subscribed connections.  A connection is its read loop (run), its   *)
(* writer task, a bounded queue of event frames, at most one request in    *)
(* flight, and close(), which whoever meets a full queue or a broken       *)
(* transport runs on the spot.                                             *)
(*                                                                         *)
(* An emitter is a turn's task or a request (named by its connection); it  *)
(* awaits each of its events until every send_event has returned.          *)
(***************************************************************************)
EXTENDS Naturals, Sequences, FiniteSets, SequencesExt

CONSTANTS
    Connections,
    Turns,        \* turns that emit events
    StoreCalls,   \* how many store calls an event may need: none when global
    Retained,     \* event_limit, the length of the replay buffer
    QueueLimit,   \* event_queue_limit of a connection
    MaxEvents,    \* bound: events published
    Nobody

Emitters == Turns \cup Connections

ASSUME EmittersAssumption ==
    Turns \cap Connections = {} /\ {Nobody, "writer"} \cap Emitters = {}
ASSUME LimitsAssumption ==
    /\ StoreCalls \subseteq Nat
    /\ Retained \in Nat \ {0} /\ QueueLimit \in Nat \ {0} /\ MaxEvents \in Nat

\* What a writer holds.  Its task is over when it is "gone", or "lost" if it
\* was cancelled while it wrote a frame error, whose future nobody sets then.
Frame == [what : {"event", "reply", "reject", "none", "gone", "lost"}, seq : 0..MaxEvents]
Event(n) == [what |-> "event", seq |-> n]
Plain(what) == [what |-> what, seq |-> 0]

Emission == [stage : {"none", "store", "ready", "closing"}, seq : 0..MaxEvents, calls : Nat]
NoEmission == [stage |-> "none", seq |-> 0, calls |-> 0]

VARIABLES
    published,   \* the emitter of every event; current_seq is its length
    events,      \* sequence numbers in the replay buffer
    dropped,     \* history: events that are not sent: refused, or their emitter
                 \* was cancelled, or a store call failed
    emit,        \* the event an emitter awaits: in the store, about to be
                 \* sent, or waiting for the close() of full connections
    storeQueue,  \* emitters whose call is with the store worker
    cancelled,   \* a pending task.cancel() of the emitter
    request,     \* connection -> none, working, answering (awaits its frame)
    phase,       \* connection -> open; closing, _closed is set and close()
                 \* runs; closed; mute, close() was cut short
    closer,      \* connection -> the task that runs its close()
    waits,       \* close() awaits the request it has cancelled
    run,         \* reading; rejecting (awaits the frame error it sends);
                 \* rejected; ending (awaits requests); returned
    subscribed,
    base,        \* history: the client has, or was told it lacks, all up to here
    got,         \* history: events received, replayed ones first
    frames,      \* event frames in the priority queue
    replies,     \* response frames there, which go first
    writing      \* the frame that the writer task drains

emitting == <<published, events, dropped, emit, storeQueue>>
reading == <<request, run>>
closing == <<phase, closer, waits>>
client == <<subscribed, base, got>>
queues == <<frames, replies, writing>>
vars == <<emitting, cancelled, reading, closing, client, queues>>

TypeOK ==
    /\ published \in Seq(Emitters) /\ Len(published) <= MaxEvents
    /\ events \in Seq(1..MaxEvents) /\ Len(events) <= Retained
    /\ dropped \subseteq 1..MaxEvents
    /\ emit \in [Emitters -> Emission]
    /\ storeQueue \in Seq(Emitters)
    /\ cancelled \in [Emitters -> BOOLEAN]
    /\ request \in [Connections -> {"none", "working", "answering"}]
    /\ phase \in [Connections -> {"open", "closing", "closed", "mute"}]
    /\ closer \in [Connections -> Emitters \cup {"writer", Nobody}]
    /\ waits \in [Connections -> BOOLEAN]
    /\ run \in [Connections -> {"reading", "rejecting", "rejected", "ending", "returned"}]
    /\ subscribed \in [Connections -> BOOLEAN]
    /\ base \in [Connections -> 0..MaxEvents]
    /\ got \in [Connections -> Seq(1..MaxEvents)]
    /\ frames \in [Connections -> Seq(1..MaxEvents)]
    /\ replies \in [Connections -> Seq({"reply", "reject"})]
    /\ writing \in [Connections -> Frame]

Init ==
    /\ published = <<>> /\ events = <<>> /\ dropped = {}
    /\ emit = [e \in Emitters |-> NoEmission] /\ storeQueue = <<>>
    /\ cancelled = [e \in Emitters |-> FALSE]
    /\ request = [c \in Connections |-> "none"]
    /\ phase = [c \in Connections |-> "open"]
    /\ closer = [c \in Connections |-> Nobody]
    /\ waits = [c \in Connections |-> FALSE]
    /\ run = [c \in Connections |-> "reading"]
    /\ subscribed = [c \in Connections |-> FALSE]
    /\ base = [c \in Connections |-> 0]
    /\ got = [c \in Connections |-> <<>>]
    /\ frames = [c \in Connections |-> <<>>]
    /\ replies = [c \in Connections |-> <<>>]
    /\ writing = [c \in Connections |-> Plain("none")]

-----------------------------------------------------------------------------
(* Publishing: _on_runtime_event                                           *)

CurrentSeq == Len(published)

\* A slip: the buffer keeps one event too many.
RetainOneMore(buffer) ==
    IF Len(buffer) > Retained + 1 THEN Tail(buffer) ELSE buffer

Retain(buffer) ==
    IF Len(buffer) > Retained THEN Tail(buffer) ELSE buffer

\* A turn between two events, or a request at work, emits an event.
MayEmit(e) ==
    /\ emit[e].stage = "none" /\ ~cancelled[e] /\ CurrentSeq < MaxEvents
    /\ e \in Connections => request[e] = "working"

\* The event takes its number and a place in the replay buffer; a global one
\* makes no store call.
Publish(e) ==
    /\ MayEmit(e)
    /\ published' = Append(published, e)
    /\ events' = Retain(Append(events, CurrentSeq + 1))
    /\ \E n \in StoreCalls :
        /\ emit' = [emit EXCEPT ![e] =
                [stage |-> IF n = 0 THEN "ready" ELSE "store", seq |-> CurrentSeq + 1, calls |-> n]]
        /\ storeQueue' = IF n = 0 THEN storeQueue ELSE Append(storeQueue, e)
    /\ UNCHANGED <<dropped, cancelled, reading, closing, client, queues>>

\* The payload fails its schema: the number is used up, nothing else happens.
PublishInvalid(e) ==
    /\ MayEmit(e)
    /\ published' = Append(published, e)
    /\ dropped' = dropped \cup {CurrentSeq + 1}
    /\ UNCHANGED <<events, emit, storeQueue, cancelled, reading, closing, client, queues>>

\* The worker ends a call.  The emitter makes the next one, unless it is
\* cancelled: then it raises, having waited for the worker.
StoreStep ==
    /\ storeQueue # <<>>
    /\ LET e == Head(storeQueue)
           more == emit[e].calls > 1 /\ ~cancelled[e]
       IN  /\ storeQueue' = IF more THEN Append(Tail(storeQueue), e) ELSE Tail(storeQueue)
           /\ emit' = [emit EXCEPT ![e].calls = @ - 1,
                                   ![e].stage = IF more THEN "store" ELSE "ready"]
    /\ UNCHANGED <<published, events, dropped, cancelled, reading, closing, client, queues>>

\* The call raises, and _on_runtime_event with it: the event is in the replay
\* buffer, is sent to nobody, and its emitter goes on (RuntimeService._emit
\* passes over what a listener raises).  A cancelled emitter is cancelled.
StoreFails ==
    /\ storeQueue # <<>> /\ ~cancelled[Head(storeQueue)]
    /\ LET e == Head(storeQueue)
       IN  /\ dropped' = dropped \cup {emit[e].seq}
           /\ emit' = [emit EXCEPT ![e] = NoEmission]
    /\ storeQueue' = Tail(storeQueue)
    /\ UNCHANGED <<published, events, cancelled, reading, closing, client, queues>>

Listens(c) == subscribed[c] /\ phase[c] = "open"
PendingFrames(c) == Len(frames[c]) + (IF writing[c].what = "event" THEN 1 ELSE 0)
Full(c) == Listens(c) /\ PendingFrames(c) >= QueueLimit

\* A slip: the request is awaited without being cancelled.
StartCloseUncancelled(C, by) ==
    /\ phase' = [c \in Connections |-> IF c \in C THEN "closing" ELSE phase[c]]
    /\ closer' = [c \in Connections |-> IF c \in C THEN by ELSE closer[c]]
    /\ waits' = [c \in Connections |-> IF c \in C THEN request[c] # "none" ELSE waits[c]]
    /\ UNCHANGED cancelled

\* close() up to its first await: the flag is set, the request is cancelled.
\* send_event runs in a child task of the emitter, so that the emitter's own
\* request is cancelled and awaited like any other.
StartClose(C, by) ==
    /\ phase' = [c \in Connections |-> IF c \in C THEN "closing" ELSE phase[c]]
    /\ closer' = [c \in Connections |-> IF c \in C THEN by ELSE closer[c]]
    /\ waits' = [c \in Connections |-> IF c \in C THEN request[c] # "none" ELSE waits[c]]
    /\ cancelled' = [e \in Emitters |-> cancelled[e] \/ (e \in C /\ request[e] # "none")]

\* The connections that the event is sent to: all, unless the emitter cancels
\* itself by closing its own, which stops the children that have yet to run.
Reaches(e) ==
    IF e \in Connections /\ Full(e)
    THEN {C \cup {e} : C \in SUBSET Connections}
    ELSE {Connections}

\* A slip: events are not queued while a client is being written to.
MaySendDrained(e) ==
    /\ emit[e].stage = "ready" /\ ~cancelled[e]
    /\ \A c \in Connections : Listens(c) => writing[c].what = "none"

MaySend(e) == emit[e].stage = "ready" /\ ~cancelled[e]

\* gather(send_event ...): the event is queued, or a full queue is closed.
Deliver(e) ==
    /\ MaySend(e)
    /\ \E reached \in Reaches(e) :
        LET full == {c \in reached : Full(c)}
            open == {c \in reached : Listens(c)} \ full
        IN  /\ StartClose(full, e)
            /\ frames' = [c \in Connections |->
                    IF c \in open THEN Append(frames[c], emit[e].seq) ELSE frames[c]]
            /\ dropped' = IF reached = Connections THEN dropped ELSE dropped \cup {emit[e].seq}
            /\ emit' = [emit EXCEPT ![e] =
                    IF full = {} THEN NoEmission ELSE [@ EXCEPT !.stage = "closing"]]
    /\ UNCHANGED <<published, events, storeQueue, reading, client, replies, writing>>

-----------------------------------------------------------------------------
(* Cancelled emitters and requests                                         *)

\* The request of c ends; a close() that awaits it may go on.  Its response is
\* skipped by the writer, which leaves at most the one frame error.
EndRequest(c) ==
    /\ request' = [request EXCEPT ![c] = "none"]
    /\ waits' = [waits EXCEPT ![c] = FALSE]
    /\ replies' = [replies EXCEPT ![c] = IF Contains(@, "reject") THEN <<"reject">> ELSE <<>>]

\* e is cancelled outside the store and outside its closes: CancelledError
\* ends its event, and ends it if it is a request.
Raise(e) ==
    /\ emit' = [emit EXCEPT ![e] = NoEmission]
    /\ cancelled' = [cancelled EXCEPT ![e] = FALSE]
    /\ IF e \in Connections
       THEN EndRequest(e)
       ELSE UNCHANGED <<request, waits, replies>>
    /\ UNCHANGED <<published, events, storeQueue, run, phase, closer, client, frames, writing>>

RaiseCancelled(e) ==
    /\ cancelled[e] /\ emit[e].stage \in {"none", "ready"}
    /\ dropped' = IF emit[e].stage = "ready" THEN dropped \cup {emit[e].seq} ELSE dropped
    /\ Raise(e)

ClosedBy(e) == {c \in Connections : phase[c] = "closing" /\ closer[c] = e}

\* The closes that the emitter waited for are over.
EmissionEnds(e) ==
    /\ emit[e].stage = "closing" /\ ClosedBy(e) = {}
    /\ IF cancelled[e]
       THEN Raise(e) /\ UNCHANGED dropped
       ELSE /\ emit' = [emit EXCEPT ![e] = NoEmission]
            /\ UNCHANGED <<published, events, dropped, storeQueue, cancelled, reading, closing,
                           client, queues>>

\* turn.cancel or a stop reaches the turn while it emits.
CancelTurn(t) ==
    /\ emit[t].stage # "none" /\ ~cancelled[t]
    /\ cancelled' = [cancelled EXCEPT ![t] = TRUE]
    /\ UNCHANGED <<emitting, reading, closing, client, queues>>

-----------------------------------------------------------------------------
(* Closing: RuntimeConnection.close                                        *)

CloserCancelled(c) == closer[c] \in Emitters /\ cancelled[closer[c]]

\* After the requests, the writer is cancelled, the frames it has left fail
\* and the transport is aborted.
Discard(c) ==
    /\ frames' = [frames EXCEPT ![c] = <<>>]
    /\ replies' = [replies EXCEPT ![c] = <<>>]
    /\ writing' = [writing EXCEPT ![c] = Plain(IF @.what = "reject" THEN "lost" ELSE "gone")]

\* A slip: what is left in the queue is dropped without a word.
RunAfterDiscardUntold(c) == run[c]

\* A frame error that is still queued fails; one being written is not told.
RunAfterDiscard(c) == IF Contains(replies[c], "reject") THEN "rejected" ELSE run[c]

CloseResumes(c) ==
    /\ phase[c] = "closing" /\ ~waits[c] /\ ~CloserCancelled(c)
    /\ phase' = [phase EXCEPT ![c] = "closed"]
    /\ closer' = [closer EXCEPT ![c] = Nobody]
    /\ Discard(c)
    /\ run' = [run EXCEPT ![c] = RunAfterDiscard(c)]
    /\ UNCHANGED <<emitting, cancelled, request, waits, client>>

\* The emitter that ran close() was cancelled: CancelledError leaves close()
\* at its first await.  A request that closes its own connection waits for
\* itself instead, and the cancellation goes round in a circle.
AbortClose(c) ==
    /\ phase[c] = "closing" /\ closer[c] # c /\ CloserCancelled(c)
    /\ phase' = [phase EXCEPT ![c] = "mute"]
    /\ closer' = [closer EXCEPT ![c] = Nobody]
    /\ waits' = [waits EXCEPT ![c] = FALSE]
    /\ UNCHANGED <<emitting, cancelled, reading, client, queues>>

-----------------------------------------------------------------------------
(* Requests and the read loop: RuntimeConnection.run, handle               *)

Begin(c) ==
    /\ run[c] = "reading" /\ request[c] = "none"
    /\ request' = [request EXCEPT ![c] = "working"]
    /\ UNCHANGED <<emitting, cancelled, run, closing, client, queues>>

\* The response is queued; a closed connection refuses it and the error.
Finish(c) ==
    /\ request[c] = "working" /\ emit[c].stage = "none" /\ ~cancelled[c]
    /\ IF phase[c] = "open"
       THEN /\ request' = [request EXCEPT ![c] = "answering"]
            /\ replies' = [replies EXCEPT ![c] = Append(@, "reply")]
            /\ UNCHANGED waits
       ELSE EndRequest(c)
    /\ UNCHANGED <<emitting, cancelled, run, phase, closer, client, frames, writing>>

FirstSeq == IF events = <<>> THEN CurrentSeq + 1 ELSE Head(events)

\* A slip: one event too few counts as complete.
ReplayAlmostComplete(after, sameServer) == sameServer /\ after + 2 >= FirstSeq

\* events.subscribe after a sequence number, of this server or another one:
\* dispatch, the flag and the response are one step of the request.
ReplayComplete(after, sameServer) == sameServer /\ after >= FirstSeq - 1

\* What the buffer holds after that number is its end, from first on.
Subscribe(c) ==
    /\ run[c] = "reading" /\ phase[c] = "open" /\ ~subscribed[c]
    /\ subscribed' = [subscribed EXCEPT ![c] = TRUE]
    /\ \E after \in 0..CurrentSeq, sameServer \in BOOLEAN, first \in 1..Len(events) + 1 :
        LET complete == ReplayComplete(after, sameServer) IN
        /\ \A i \in DOMAIN events : events[i] > after <=> i >= first
        /\ base' = [base EXCEPT ![c] = IF complete THEN after ELSE CurrentSeq]
        /\ got' = [got EXCEPT ![c] =
                IF complete THEN SubSeq(events, first, Len(events)) ELSE <<>>]
    /\ UNCHANGED <<emitting, cancelled, reading, closing, queues>>

\* A malformed frame: its error is sent and awaited.
Reject(c) ==
    /\ run[c] = "reading"
    /\ IF phase[c] = "open"
       THEN /\ run' = [run EXCEPT ![c] = "rejecting"]
            /\ replies' = [replies EXCEPT ![c] = Append(@, "reject")]
       ELSE /\ run' = [run EXCEPT ![c] = "rejected"]
            /\ UNCHANGED replies
    /\ UNCHANGED <<emitting, cancelled, request, closing, client, frames, writing>>

\* The stream ended, or the frame error was sent: the requests are cancelled.
EndReading(c) ==
    /\ run[c] \in {"reading", "rejected"}
    /\ run' = [run EXCEPT ![c] = "ending"]
    /\ cancelled' = [cancelled EXCEPT ![c] = @ \/ request[c] # "none"]
    /\ UNCHANGED <<emitting, request, closing, client, queues>>

\* They are over: the writer is cancelled and close() runs, which returns at
\* once if it was entered before.  A close() that the writer was in is cut
\* off, but then the transport is already lost.
RunReturns(c) ==
    /\ run[c] = "ending" /\ request[c] = "none"
    /\ run' = [run EXCEPT ![c] = "returned"]
    /\ IF phase[c] = "open" \/ closer[c] = "writer"
       THEN /\ phase' = [phase EXCEPT ![c] = "closed"]
            /\ closer' = [closer EXCEPT ![c] = Nobody]
            /\ Discard(c)
       ELSE /\ writing' = [writing EXCEPT ![c] = Plain("gone")]
            /\ UNCHANGED <<phase, closer, frames, replies>>
    /\ UNCHANGED <<emitting, cancelled, request, waits, client>>

-----------------------------------------------------------------------------
(* Writing: RuntimeConnection._writer_loop                                 *)

\* A slip: the queue is a stack.
StartWriteNewest(c) ==
    /\ writing[c].what = "none" /\ replies[c] = <<>> /\ frames[c] # <<>>
    /\ writing' = [writing EXCEPT ![c] = Event(Last(frames[c]))]
    /\ frames' = [frames EXCEPT ![c] = Front(@)]
    /\ UNCHANGED <<emitting, cancelled, reading, closing, client, replies>>

StartWrite(c) ==
    /\ writing[c].what = "none"
    /\ \/ /\ replies[c] # <<>>
          /\ writing' = [writing EXCEPT ![c] = Plain(Head(replies[c]))]
          /\ replies' = [replies EXCEPT ![c] = Tail(@)]
          /\ UNCHANGED frames
       \/ /\ replies[c] = <<>> /\ frames[c] # <<>>
          /\ writing' = [writing EXCEPT ![c] = Event(Head(frames[c]))]
          /\ frames' = [frames EXCEPT ![c] = Tail(@)]
          /\ UNCHANGED replies
    /\ UNCHANGED <<emitting, cancelled, reading, closing, client>>

\* The future of the frame is done: whoever awaits it goes on.
FrameDone(c) ==
    /\ IF writing[c].what = "reply" /\ request[c] = "answering" /\ ~cancelled[c]
       THEN EndRequest(c)
       ELSE UNCHANGED <<request, replies, waits>>
    /\ run' = [run EXCEPT ![c] = IF writing[c].what = "reject" THEN "rejected" ELSE @]

\* The client reads: the frame is out.
Drained(c) ==
    /\ writing[c].what \in {"event", "reply", "reject"}
    /\ FrameDone(c)
    /\ got' = [got EXCEPT ![c] = IF writing[c].what = "event" THEN Append(@, writing[c].seq) ELSE @]
    /\ writing' = [writing EXCEPT ![c] = Plain("none")]
    /\ UNCHANGED <<emitting, cancelled, phase, closer, subscribed, base, frames>>

\* The connection is lost under the writer, which closes it and returns.  A
\* request that awaited the frame is cancelled with the others.
DrainFails(c) ==
    /\ writing[c].what \in {"event", "reply", "reject"}
    /\ IF phase[c] = "open"
       THEN StartClose({c}, "writer")
       ELSE UNCHANGED <<closing, cancelled>>
    /\ run' = [run EXCEPT ![c] = IF writing[c].what = "reject" THEN "rejected" ELSE @]
    /\ writing' = [writing EXCEPT ![c] = Plain("gone")]
    /\ UNCHANGED <<emitting, request, client, frames, replies>>

-----------------------------------------------------------------------------
Next ==
    \/ StoreStep \/ StoreFails
    \/ \E t \in Turns : CancelTurn(t)
    \/ \E e \in Emitters :
        \/ Publish(e) \/ PublishInvalid(e) \/ Deliver(e)
        \/ RaiseCancelled(e) \/ EmissionEnds(e)
    \/ \E c \in Connections :
        \/ CloseResumes(c) \/ AbortClose(c)
        \/ Begin(c) \/ Finish(c) \/ Subscribe(c)
        \/ Reject(c) \/ EndReading(c) \/ RunReturns(c)
        \/ StartWrite(c) \/ Drained(c) \/ DrainFails(c)

Spec == Init /\ [][Next]_vars

\* The event loop and the store worker go on.  Clients do what they like:
\* requests, reads and the end of the stream are not fair, except that an
\* aborted transport and a rejected stream do end the read loop.
Fairness ==
    /\ WF_vars(StoreStep \/ StoreFails)
    /\ \A e \in Emitters :
        WF_vars(Deliver(e)) /\ WF_vars(RaiseCancelled(e)) /\ WF_vars(EmissionEnds(e))
    /\ \A c \in Connections :
        /\ WF_vars(CloseResumes(c)) /\ WF_vars(AbortClose(c))
        /\ WF_vars(StartWrite(c)) /\ WF_vars(RunReturns(c))
        /\ WF_vars((phase[c] = "closed" \/ run[c] = "rejected") /\ EndReading(c))

FairSpec == Spec /\ Fairness

-----------------------------------------------------------------------------
(* Properties                                                              *)

\* On its way to c: queued, being written, or in the hands of its emitter.
OnItsWay(c, n) ==
    \/ Contains(frames[c], n)
    \/ writing[c] = Event(n)
    \/ \E e \in Emitters : emit[e].stage \in {"store", "ready"} /\ emit[e].seq = n

\* While it stays connected, a subscriber gets every event that is sent after
\* the point it resumed from (or after its subscription, when it was told that
\* the replay is not complete): the replay buffer and the live events leave no
\* gap (_subscribe, _on_runtime_event).  Not sent are the events that fail
\* their schema, whose emitter is cancelled before it sends them, or whose
\* store call raises; the last two are in the buffer, but who is subscribed
\* already never learns of them.
NothingMissed ==
    \A c \in Connections : Listens(c) =>
        \A n \in base[c] + 1 .. CurrentSeq :
            n \in dropped \/ Contains(got[c], n) \/ OnItsWay(c, n)

\* A client receives the events of one turn or request in the order in which
\* they were emitted, replayed or live (_on_runtime_event is awaited by its
\* emitter, _writes is ordered).  Events of different emitters do overtake
\* each other.
EmittersInOrder ==
    \A c \in Connections : \A i, j \in DOMAIN got[c] :
        i < j /\ published[got[c][i]] = published[got[c][j]] => got[c][i] <= got[c][j]

\* A request whose own event met the full queue of its own connection.
ClosesItself(c) == phase[c] = "closing" /\ closer[c] = c

\* A frame error was being written when close() cancelled the writer.
RejectLost(c) == run[c] = "rejecting" /\ writing[c].what = "lost"

\* A client that stops reading never holds up a turn: what the turn emits is
\* sent, or the client is closed, and the turn goes on (send_event, close).
TurnsNeverWait ==
    \A t \in Turns : emit[t].stage # "none" ~> emit[t].stage = "none"

\* A close() that has begun comes to an end, unless its own request runs it.
ClosesEnd ==
    \A c \in Connections : phase[c] = "closing" ~> phase[c] # "closing" \/ ClosesItself(c)

\* The read loop of a connection that is closed, or that has ended, returns
\* and frees its place among MAX_CLIENTS, but for the two ways in which
\* nobody wakes it (RuntimeConnection.run).
RunsReturn ==
    \A c \in Connections :
        phase[c] = "closed" \/ run[c] = "ending"
            ~> run[c] = "returned" \/ RejectLost(c) \/ ClosesItself(c)

\* A connection whose queue overflows is closed: "The bounded queue and
\* overflow close protect the Runtime from a client that stops reading"
\* (send_event).
OverflowCloses ==
    \A c \in Connections : phase[c] = "closing" ~> phase[c] = "closed"

\* Whoever subscribes misses nothing that is sent, and the events of one
\* emitter come in order (twice, perhaps: replayed and live).
EventsArrive == TypeOK /\ NothingMissed /\ EmittersInOrder
=============================================================================
