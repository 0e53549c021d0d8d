------------------------- MODULE TurnLifecycleProofs -------------------------
(***************************************************************************)
(* Proofs about TurnLifecycle, for any operations, sessions and permits,   *)
(* with every switch.                                                      *)
(***************************************************************************)
EXTENDS TurnLifecycle, FiniteSetTheorems, TLAPS

\* A command has no task and no clauses for errors or cancellations.
CommandStages ==
    {"idle", "enqueue", "lock", "permit", "started", "prepare", "run", "report", "close",
     "done", "gone"}

CommandsPlain ==
    \A op \in Commands : pc[op] \in CommandStages /\ ~interrupted[op]

\* A run_end records how the turn ended.
EndingsKnown ==
    \A op \in Ops :
        pc[op] \in {"runEnd", "cancelEnd", "failEnd"} => status[op] \in TerminalStatuses

Typed == TypeOK /\ CommandsPlain /\ EndingsKnown

StreamTyped ==
    /\ published \in [Ops -> Seq(Events)]
    /\ storeQueue \in Seq([op : Ops, event : Events, live : BOOLEAN])
    /\ projected \in [Ops -> Statuses \cup {"none"}]

TypeOKButStream ==
    /\ status \in [Ops -> Statuses \cup {"none"}]
    /\ requested \in [Ops -> BOOLEAN]
    /\ pc \in [Ops -> Stages]
    /\ interrupted \in [Ops -> BOOLEAN]
    /\ agent \in [Ops -> {"none", "idle", "running"}]
    /\ aborted \in [Ops -> BOOLEAN]
    /\ lock \in [Sessions -> Ops \cup {Nobody}]
    /\ permits \subseteq Ops
    /\ active \in [Sessions -> Ops \cup {Nobody}]
    /\ runEnds \in [Ops -> Seq(TerminalStatuses)]
    /\ ending \in [Ops -> {"return", "announce", "raise"}]
    /\ canceller \in [Ops -> {"none", "opening", "emitting"}]
    /\ answered \in [Ops -> BOOLEAN]
    /\ deaf \in [Ops -> BOOLEAN]
    /\ server \in {"serving", "stopping", "stopped"}

\* The invariant in two parts: the emit and store queue, and all else.
LEMMA TypedParts == Typed <=> TypeOKButStream /\ StreamTyped /\ CommandsPlain /\ EndingsKnown
BY DEF Typed, TypeOK, TypeOKButStream, StreamTyped

\* Typed sequences.
LEMMA HeadTailTyped ==
    ASSUME NEW S, NEW s \in Seq(S), s # <<>>
    PROVE  Head(s) \in S /\ Tail(s) \in Seq(S)
OBVIOUS

LEMMA ElementsTyped ==
    ASSUME NEW S, NEW s \in Seq(S)
    PROVE  Len(s) \in Nat /\ \A i \in 1..Len(s) : s[i] \in S
OBVIOUS

LEMMA FunctionIsSeq ==
    ASSUME NEW S, NEW n \in Nat, NEW s \in [1..n -> S]
    PROVE  s \in Seq(S)
OBVIOUS

\* The steps of the stream keep its types.
LEMMA StoreTyped ==
    ASSUME StreamTyped, StoreStep
    PROVE  StreamTyped'
<1>1. /\ Head(storeQueue) \in [op : Ops, event : Events, live : BOOLEAN]
      /\ Tail(storeQueue) \in Seq([op : Ops, event : Events, live : BOOLEAN])
  <2>1. storeQueue \in Seq([op : Ops, event : Events, live : BOOLEAN]) /\ storeQueue # <<>>
    BY DEF StreamTyped, StoreStep
  <2> QED BY <2>1, HeadTailTyped
<1>2. \A event \in Events, old \in Statuses \cup {"none"} :
          Projection(event, old) \in Statuses \cup {"none"}
  BY DEF Projection, Events, Statuses, TerminalEvents, TerminalStatuses, InFlightStatuses
<1> QED
  BY <1>1, <1>2 DEF StreamTyped, StoreStep

LEMMA PublishTyped ==
    ASSUME StreamTyped, NEW op \in Ops, NEW event \in Events, Publish(op, event)
    PROVE  StreamTyped'
<1>1. CASE UNCHANGED stream
  BY <1>1 DEF StreamTyped, stream
<1>2. CASE /\ published' = [published EXCEPT ![op] = Append(@, event)]
           /\ storeQueue' = Append(storeQueue, [op |-> op, event |-> event, live |-> TRUE])
           /\ UNCHANGED projected
  <2>1. published[op] \in Seq(Events)
    BY DEF StreamTyped
  <2>2. Append(published[op], event) \in Seq(Events)
    BY <2>1
  <2>3. published' \in [Ops -> Seq(Events)]
    BY <1>2, <2>2 DEF StreamTyped
  <2>4. storeQueue' \in Seq([op : Ops, event : Events, live : BOOLEAN])
    BY <1>2 DEF StreamTyped
  <2> QED BY <1>2, <2>3, <2>4 DEF StreamTyped
<1> QED BY <1>1, <1>2 DEF Publish

LEMMA WithdrawTyped ==
    ASSUME StreamTyped, NEW op \in Ops, NEW cancelling \in BOOLEAN, Withdraw(op, cancelling)
    PROVE  StreamTyped'
<1> DEFINE Item == [op : Ops, event : Events, live : BOOLEAN]
<1>1. storeQueue \in Seq(Item)
  BY DEF StreamTyped
<1>2. Len(storeQueue) \in Nat /\ \A i \in 1..Len(storeQueue) : storeQueue[i] \in Item
  <2> HIDE DEF Item
  <2> QED BY <1>1, ElementsTyped
<1>3. \A x \in Item, b \in BOOLEAN : [x EXCEPT !.live = b] \in Item
  OBVIOUS
<1>4. \A x \in Item : (x.live /\ ~Mine(op, x, cancelling)) \in BOOLEAN
  OBVIOUS
<1>5. storeQueue' \in [1..Len(storeQueue) -> Item]
  BY <1>2, <1>3, <1>4, Zenon DEF Withdraw
<1>6. storeQueue' \in Seq(Item)
  <2> HIDE DEF Item
  <2> QED BY <1>2, <1>5, FunctionIsSeq
<1> QED BY <1>6 DEF Withdraw, StreamTyped

\* What Release, ToFinally and an appended run_end leave typed.
LEMMA ReleaseTyped ==
    ASSUME TypeOKButStream, NEW op \in Ops, Release(op)
    PROVE  lock' \in [Sessions -> Ops \cup {Nobody}] /\ permits' \subseteq Ops
BY OpsAssumption DEF TypeOKButStream, Release

LEMMA ToFinallyTyped ==
    ASSUME TypeOKButStream, NEW op \in Ops, ToFinally(op)
    PROVE  /\ \E stage \in {"close", "settle"} : pc' = [pc EXCEPT ![op] = stage]
           /\ active' \in [Sessions -> Ops \cup {Nobody}]
<1>1. /\ active \in [Sessions -> Ops \cup {Nobody}]
      /\ SessionOf[op] \in Sessions
  BY OpsAssumption DEF TypeOKButStream
<1>2. \E stage \in {"close", "settle"} : pc' = [pc EXCEPT ![op] = stage]
  BY DEF ToFinally
<1>3. CASE UNCHANGED active
  BY <1>1, <1>2, <1>3
<1>4. CASE ClearActive(op)
  BY <1>1, <1>2, <1>4 DEF ClearActive
<1> QED
  BY <1>3, <1>4 DEF ToFinally

LEMMA RunEndTyped ==
    ASSUME TypeOKButStream, NEW op \in Ops, NEW st \in TerminalStatuses,
           runEnds' = [runEnds EXCEPT ![op] = Append(@, st)]
    PROVE  runEnds' \in [Ops -> Seq(TerminalStatuses)]
<1>1. runEnds[op] \in Seq(TerminalStatuses)
  BY DEF TypeOKButStream
<1>2. Append(runEnds[op], st) \in Seq(TerminalStatuses)
  BY <1>1
<1> QED BY <1>2 DEF TypeOKButStream

\* Every step of an operation keeps all else typed, a command in its own stages,
\* and a turn that is about to write its run_end with a terminal status.
LEMMA TypedStep ==
    ASSUME Typed, NEW op \in Ops,
           Advance(op) \/ Outcome(op) \/ Escape(op) \/ CancelStep(op) \/ Client(op)
    PROVE  TypeOKButStream' /\ CommandsPlain' /\ EndingsKnown'
<1>1. TypeOKButStream /\ CommandsPlain /\ EndingsKnown
  BY TypedParts
<1>2. op \in Turns \/ op \in Commands
  BY DEF Ops
<1>3. ~(op \in Turns /\ op \in Commands)
  BY OpsAssumption
<1> USE <1>1, <1>2, <1>3, OpsAssumption
    DEF TypeOKButStream, CommandsPlain, EndingsKnown, CommandStages, Stages, Inside, Handler,
        Finally, Statuses, InFlightStatuses, TerminalStatuses, Step, task, sharing, control, stream
<1>4. CASE AnnounceQueued(op)
  BY <1>4 DEF AnnounceQueued
<1>5. CASE Launch(op)
  BY <1>5 DEF Launch
<1>6. CASE Approach(op)
  <2>1. pc' = [pc EXCEPT ![op] = "lock"]
    BY <1>6 DEF Approach
  <2> QED BY <1>6, <2>1 DEF Approach
<1>7. CASE TakeLock(op)
  BY <1>7 DEF TakeLock
<1>8. CASE Enter(op)
  BY <1>8 DEF Enter
<1>9. CASE EnterCancelled(op)
  BY <1>9 DEF EnterCancelled, Release
<1>10. CASE Prepare(op)
  BY <1>10 DEF Prepare
<1>11. CASE BuildAgent(op)
  BY <1>11 DEF BuildAgent
<1>12. CASE BeginRun(op)
  BY <1>12 DEF BeginRun
<1>13. CASE WriteRunEnd(op)
  <2>1. runEnds' \in [Ops -> Seq(TerminalStatuses)]
    BY <1>13, RunEndTyped DEF WriteRunEnd
  <2>2. lock' \in [Sessions -> Ops \cup {Nobody}] /\ permits' \subseteq Ops
    BY <1>13, ReleaseTyped DEF WriteRunEnd
  <2>3. \E stage \in {"close", "report"} : pc' = [pc EXCEPT ![op] = stage]
    BY <1>13 DEF WriteRunEnd
  <2>4. ending' \in [Ops -> {"return", "announce", "raise"}]
    BY ZenonT(60), <1>13 DEF WriteRunEnd
  <2>5. op \in Turns
    BY <1>13 DEF WriteRunEnd
  <2>6. UNCHANGED <<status, requested, interrupted, agent, aborted, active, control>>
    BY <1>13 DEF WriteRunEnd
  <2>7. pc' \in [Ops -> Stages] /\ CommandsPlain'
    BY <2>3, <2>5, <2>6
  <2> QED BY <2>1, <2>2, <2>3, <2>4, <2>6, <2>7
<1>14. CASE Retitle(op)
  BY <1>14 DEF Retitle
<1>15. CASE Leave(op)
  BY <1>15 DEF Leave, Release
<1>16. CASE WriteCancelEnd(op)
  <2>1. runEnds' \in [Ops -> Seq(TerminalStatuses)]
    BY <1>16, RunEndTyped DEF WriteCancelEnd
  <2>2. /\ \E stage \in {"close", "settle"} : pc' = [pc EXCEPT ![op] = stage]
       /\ active' \in [Sessions -> Ops \cup {Nobody}]
    BY <1>16, ToFinallyTyped DEF WriteCancelEnd
  <2> QED BY <1>16, <2>1, <2>2 DEF WriteCancelEnd
<1>17. CASE WriteFailEnd(op)
  BY <1>17 DEF WriteFailEnd
<1>18. CASE FailReported(op)
  <2>1. /\ \E stage \in {"close", "settle"} : pc' = [pc EXCEPT ![op] = stage]
       /\ active' \in [Sessions -> Ops \cup {Nobody}]
    BY <1>18, ToFinallyTyped DEF FailReported
  <2> QED BY <1>18, <2>1 DEF FailReported
<1>19. CASE Close(op)
  BY <1>19 DEF Close, ClearActive
<1>20. CASE Settle(op)
  BY <1>20 DEF Settle
<1>21. CASE Finish(op)
  BY <1>21 DEF Finish
<1>22. CASE InterruptReady(op)
  BY <1>22 DEF InterruptReady
<1>23. CASE InterruptBody(op)
  <2>1. runEnds' \in [Ops -> Seq(TerminalStatuses)]
    BY <1>23, RunEndTyped DEF InterruptBody
  <2>2. lock' \in [Sessions -> Ops \cup {Nobody}] /\ permits' \subseteq Ops
    BY <1>23, ReleaseTyped DEF InterruptBody
  <2>3. /\ interrupted[op]
        /\ pc' = [pc EXCEPT ![op] = "cancelEnd"]
        /\ interrupted' = [interrupted EXCEPT ![op] = FALSE]
        /\ status' = [status EXCEPT ![op] = "cancelled"]
        /\ agent' = [agent EXCEPT ![op] = IF @ = "none" THEN "none" ELSE "idle"]
        /\ UNCHANGED <<requested, aborted, ending, active, control>>
    BY <1>23 DEF InterruptBody
  <2> QED BY <2>1, <2>2, <2>3
<1>24. CASE InterruptReported(op)
  <2>1. /\ \E stage \in {"close", "settle"} : pc' = [pc EXCEPT ![op] = stage]
       /\ active' \in [Sessions -> Ops \cup {Nobody}]
    BY <1>24, ToFinallyTyped DEF InterruptReported
  <2>2. lock' \in [Sessions -> Ops \cup {Nobody}] /\ permits' \subseteq Ops
    BY <1>24, ReleaseTyped DEF InterruptReported
  <2> QED BY <1>24, <2>1, <2>2 DEF InterruptReported
<1>25. CASE InterruptHandler(op)
  <2>1. runEnds' \in [Ops -> Seq(TerminalStatuses)]
    BY <1>25, RunEndTyped DEF InterruptHandler
  <2>2. /\ \E stage \in {"close", "settle"} : pc' = [pc EXCEPT ![op] = stage]
       /\ active' \in [Sessions -> Ops \cup {Nobody}]
    BY <1>25, ToFinallyTyped DEF InterruptHandler
  <2> QED BY <1>25, <2>1, <2>2 DEF InterruptHandler
<1>26. CASE InterruptFinally(op)
  BY <1>26 DEF InterruptFinally
<1>27. CASE CommandReported(op)
  BY <1>27 DEF CommandReported
<1>28. CASE CommandClose(op)
  BY <1>28 DEF CommandClose, Release
<1>29. CASE Fail(op)
  BY <1>29 DEF Fail, Release
<1>30. CASE RunEndFails(op)
  <2>1. runEnds' \in [Ops -> Seq(TerminalStatuses)]
    BY <1>30, RunEndTyped DEF RunEndFails
  <2>2. lock' \in [Sessions -> Ops \cup {Nobody}] /\ permits' \subseteq Ops
    BY <1>30, ReleaseTyped DEF RunEndFails
  <2>3. /\ Step(op, "runEnd", "failEnd")
        /\ status' = [status EXCEPT ![op] = "failed"]
        /\ UNCHANGED <<requested, interrupted, agent, aborted, ending, active, control>>
    BY <1>30 DEF RunEndFails
  <2> QED BY <2>1, <2>2, <2>3
<1>31. CASE HandlerFails(op)
  <2>1. /\ \E stage \in {"close", "settle"} : pc' = [pc EXCEPT ![op] = stage]
       /\ active' \in [Sessions -> Ops \cup {Nobody}]
    BY <1>31, ToFinallyTyped DEF HandlerFails
  <2> QED BY <1>31, <2>1 DEF HandlerFails
<1>32. CASE CommandUnbuilt(op)
  BY <1>32 DEF CommandUnbuilt, Release
<1>33. CASE AnnounceCancel(op)
  BY <1>33 DEF AnnounceCancel
<1>34. CASE DeliverCancel(op)
  BY <1>34 DEF DeliverCancel, HasTask
<1>35. CASE StartTurn(op)
  BY <1>35 DEF StartTurn
<1>36. CASE StartCommand(op)
  BY <1>36 DEF StartCommand
<1>37. CASE ClaimCancel(op)
  BY <1>37 DEF ClaimCancel
<1>38. CASE RepeatCancel(op)
  BY <1>38 DEF RepeatCancel
<1>39. CASE AbandonStart(op)
  BY <1>39 DEF AbandonStart
<1>40. CASE AbandonCommand(op)
  <2>1. lock' \in [Sessions -> Ops \cup {Nobody}] /\ permits' \subseteq Ops
    BY <1>40, ReleaseTyped DEF AbandonCommand
  <2>2. \E stage \in {"gone", "close"} : pc' = [pc EXCEPT ![op] = stage]
    BY <1>40 DEF AbandonCommand
  <2>3. /\ op \in Commands
        /\ UNCHANGED <<status, requested, interrupted, agent, aborted, runEnds, ending,
                       active, control>>
    BY <1>40 DEF AbandonCommand
  <2> QED BY <2>1, <2>2, <2>3
<1>41. CASE AbandonCancel(op)
  BY <1>41 DEF AbandonCancel
<1>42. CASE \E reason \in {"aborted", "stop", "error"} : EndRun(op, reason)
  BY <1>42 DEF EndRun
<1>43. CASE \E result \in {"completed", "failed"} : CommandResult(op, result)
  BY <1>43 DEF CommandResult
<1>44. CASE Absorb(op)
  <2>1. /\ interrupted' \in [Ops -> BOOLEAN] /\ aborted' \in [Ops -> BOOLEAN]
        /\ deaf' \in [Ops -> BOOLEAN]
    BY <1>44 DEF Absorb
  <2>2. \A o \in Commands : interrupted'[o] = interrupted[o]
    BY <1>44 DEF Absorb, Ops
  <2>3. /\ status' = status /\ requested' = requested /\ pc' = pc /\ agent' = agent
        /\ runEnds' = runEnds /\ ending' = ending /\ lock' = lock /\ permits' = permits
        /\ active' = active /\ canceller' = canceller /\ answered' = answered
        /\ server' = server
    BY <1>44 DEF Absorb
  <2>4. TypeOKButStream'
    BY ONLY TypeOKButStream, <2>1, <2>3 DEF TypeOKButStream
  <2>5. CommandsPlain' /\ EndingsKnown'
    BY ONLY CommandsPlain, EndingsKnown, <2>2, <2>3 DEF CommandsPlain, EndingsKnown
  <2> QED BY <2>4, <2>5
<1>45. CASE Deafen(op)
  BY <1>45 DEF Deafen
<1> QED
  BY <1>4, <1>5, <1>6, <1>7, <1>8, <1>9, <1>10, <1>11, <1>12, <1>13, <1>14, <1>15, <1>16,
     <1>17, <1>18, <1>19, <1>20, <1>21, <1>22, <1>23, <1>24, <1>25, <1>26, <1>27, <1>28,
     <1>29, <1>30, <1>31, <1>32, <1>33, <1>34, <1>35, <1>36, <1>37, <1>38, <1>39, <1>40,
     <1>41, <1>42, <1>43, <1>44, <1>45
     DEF Advance, Outcome, Escape, CancelStep, Client

\* Every step of an operation publishes one event, withdraws, or leaves the stream.
LEMMA StreamStep ==
    ASSUME Typed, NEW op \in Ops,
           Advance(op) \/ Outcome(op) \/ Escape(op) \/ CancelStep(op) \/ Client(op)
    PROVE  StreamTyped'
<1>1. StreamTyped
  BY TypedParts
<1>2. ASSUME UNCHANGED stream PROVE StreamTyped'
  BY <1>1, <1>2 DEF StreamTyped, stream
<1>3. ASSUME NEW event \in Events, Publish(op, event) PROVE StreamTyped'
  BY <1>1, <1>3, PublishTyped
<1>4. ASSUME NEW cancelling \in BOOLEAN, Withdraw(op, cancelling) PROVE StreamTyped'
  BY <1>1, <1>4, WithdrawTyped
<1>5. CASE AnnounceQueued(op) \/ Enter(op) \/ WriteFailEnd(op) \/ AnnounceCancel(op)
           \/ StartTurn(op) \/ StartCommand(op)
  BY <1>3, <1>5
     DEF AnnounceQueued, Enter, WriteFailEnd, AnnounceCancel, StartTurn, StartCommand, Events,
         TerminalEvents
<1>6. CASE WriteRunEnd(op)
  <2>1. status[op] \in Events
    BY <1>6 DEF WriteRunEnd, Typed, EndingsKnown, Events, TerminalEvents, TerminalStatuses
  <2> QED BY <1>2, <1>3, <1>6, <2>1 DEF WriteRunEnd
<1>7. CASE Settle(op)
  <2>1. "cancelled" \in Events
    BY DEF Events, TerminalEvents
  <2> QED BY <1>2, <1>3, <1>7, <2>1 DEF Settle
<1>8. CASE \E result \in {"completed", "failed"} : CommandResult(op, result)
  BY <1>3, <1>8 DEF CommandResult, Events, TerminalEvents
<1>9. CASE InterruptBody(op) \/ InterruptReported(op) \/ InterruptHandler(op)
           \/ InterruptFinally(op) \/ AbandonStart(op) \/ AbandonCommand(op) \/ AbandonCancel(op)
  BY <1>4, <1>9
     DEF InterruptBody, InterruptReported, InterruptHandler, InterruptFinally, AbandonStart,
         AbandonCommand, AbandonCancel
<1>10. CASE Launch(op) \/ Approach(op) \/ TakeLock(op) \/ EnterCancelled(op) \/ Prepare(op)
            \/ BuildAgent(op) \/ BeginRun(op) \/ Retitle(op) \/ Leave(op)
            \/ \E reason \in {"aborted", "stop", "error"} : EndRun(op, reason)
  BY <1>2, <1>10
     DEF Launch, Approach, TakeLock, EnterCancelled, Prepare, BuildAgent, BeginRun, Retitle, Leave,
         EndRun
<1>11. CASE WriteCancelEnd(op) \/ FailReported(op) \/ Close(op) \/ Finish(op) \/ InterruptReady(op)
            \/ CommandReported(op) \/ CommandClose(op) \/ Fail(op) \/ RunEndFails(op)
            \/ HandlerFails(op) \/ CommandUnbuilt(op)
  BY <1>2, <1>11
     DEF WriteCancelEnd, FailReported, Close, Finish, InterruptReady, CommandReported, CommandClose,
         Fail, RunEndFails, HandlerFails, CommandUnbuilt
<1>12. CASE DeliverCancel(op) \/ ClaimCancel(op) \/ RepeatCancel(op)
  BY <1>2, <1>12 DEF DeliverCancel, ClaimCancel, RepeatCancel
<1>13. CASE Escape(op)
  BY <1>2, <1>13 DEF Escape, Absorb, Deafen, task
<1> QED
  BY <1>5, <1>6, <1>7, <1>8, <1>9, <1>10, <1>11, <1>12, <1>13
     DEF Advance, Outcome, Escape, CancelStep, Client

\* Typed is inductive.
LEMMA NextTyped == Typed /\ [Next]_vars => Typed'
<1> SUFFICES ASSUME Typed, [Next]_vars PROVE Typed'
  OBVIOUS
<1>1. TypeOKButStream /\ StreamTyped /\ CommandsPlain /\ EndingsKnown
  BY TypedParts
<1>2. SUFFICES TypeOKButStream' /\ StreamTyped' /\ CommandsPlain' /\ EndingsKnown'
  BY DEF Typed, TypeOK, TypeOKButStream, StreamTyped
<1>3. CASE StoreStep
  BY <1>1, <1>3, StoreTyped
     DEF StoreStep, task, sharing, control, TypeOKButStream, CommandsPlain, EndingsKnown
<1>4. CASE \E op \in Ops : Advance(op) \/ Outcome(op) \/ Escape(op) \/ CancelStep(op) \/ Client(op)
  BY <1>4, TypedStep, StreamStep
<1>5. CASE AcceptShutdown
  BY <1>1, <1>5
     DEF AcceptShutdown, task, sharing, stream, TypeOKButStream, StreamTyped, CommandsPlain,
         EndingsKnown
<1>6. CASE Stop
  <2>1. interrupted' \in [Ops -> BOOLEAN]
    <3>1. \A op \in Ops : (interrupted[op] \/ op \in RunningTasks) \in BOOLEAN
      OBVIOUS
    <3> QED BY <1>6, <3>1, Zenon DEF Stop
  <2>2. \A op \in Commands : ~interrupted'[op]
    <3>1. \A op \in Commands : op \in Ops /\ ~interrupted[op] /\ op \notin RunningTasks
      BY <1>1, OpsAssumption DEF RunningTasks, CommandsPlain, Ops
    <3> QED BY <1>6, <3>1, Zenon DEF Stop
  <2> QED
    BY <1>1, <1>6, <2>1, <2>2
       DEF Stop, sharing, stream, TypeOKButStream, StreamTyped, CommandsPlain, EndingsKnown
<1>7. CASE UNCHANGED vars
  BY <1>1, <1>7
     DEF vars, task, sharing, control, stream, TypeOKButStream, StreamTyped, CommandsPlain,
         EndingsKnown
<1> QED
  BY <1>3, <1>4, <1>5, <1>6, <1>7 DEF Next

LEMMA InitTyped == Init => Typed
BY DEF Init, Typed, TypeOK, CommandsPlain, EndingsKnown, CommandStages, Stages, Statuses, Ops

\* Every variable of the operations, the locks, the requests and the store keeps
\* its type.
THEOREM TypeCorrect == Spec => []TypeOK
<1>1. Typed => TypeOK
  BY DEF Typed
<1> QED
  BY <1>1, InitTyped, NextTyped, PTL DEF Spec

-----------------------------------------------------------------------------
\* What the locks, the permits and runtime.active say of one another.
SharingInv == LocksExact /\ ActiveIsInside /\ IsFiniteSet(permits)

\* The coroutines stay where they are.
LEMMA SharingKept ==
    ASSUME SharingInv, UNCHANGED <<pc, sharing>>
    PROVE  SharingInv'
BY DEF SharingInv, LocksExact, ActiveIsInside, InLock, InPermit, sharing

\* A step that keeps the locks may not cross their border.
LEMMA Within ==
    ASSUME Typed, SharingInv, NEW op \in Ops, NEW stage,
           pc' = [pc EXCEPT ![op] = stage], UNCHANGED <<lock, permits>>,
           UNCHANGED active \/ (ClearActive(op) /\ ~InPermit(op)),
           InLock(op)' <=> InLock(op), InPermit(op)' <=> InPermit(op)
    PROVE  SharingInv'
<1>1. pc \in [Ops -> Stages] /\ active \in [Sessions -> Ops \cup {Nobody}]
  BY DEF Typed, TypeOK
<1>2. \A o \in Ops : (InLock(o)' <=> InLock(o)) /\ (InPermit(o)' <=> InPermit(o))
  BY <1>1 DEF InLock, InPermit
<1>3. LocksExact'
  <2>1. (\A s \in Sessions : lock[s] # Nobody => SessionOf[lock[s]] = s /\ InLock(lock[s]))'
    <3> SUFFICES ASSUME NEW s \in Sessions, lock'[s] # Nobody
                 PROVE  (SessionOf[lock[s]] = s /\ InLock(lock[s]))'
      OBVIOUS
    <3>1. lock'[s] = lock[s] /\ lock[s] \in Ops
      BY DEF Typed, TypeOK
    <3>2. SessionOf[lock[s]] = s /\ InLock(lock[s])'
      BY <1>2, <3>1 DEF SharingInv, LocksExact, InLock
    <3> QED BY <3>1, <3>2
  <2>2. (\A o \in Ops : InLock(o) => lock[SessionOf[o]] = o)'
    BY <1>2 DEF SharingInv, LocksExact
  <2>3. (permits = {o \in Ops : InPermit(o)} /\ Cardinality(permits) <= Permits)'
    BY <1>2 DEF SharingInv, LocksExact
  <2> QED BY <2>1, <2>2, <2>3 DEF LocksExact
<1>4. \A o \in Ops : InPermit(o) => active'[SessionOf[o]] = active[SessionOf[o]]
  BY <1>1, OpsAssumption DEF SharingInv, ActiveIsInside, ClearActive
<1> QED BY <1>2, <1>3, <1>4 DEF SharingInv, ActiveIsInside

\* A step that leaves the locks releases both of them; what it clears of
\* runtime.active is its own, or it held the session's lock to the end.
LEMMA Released ==
    ASSUME Typed, SharingInv, NEW op \in Ops, NEW stage,
           pc' = [pc EXCEPT ![op] = stage], Release(op), ~InLock(op)',
           \/ UNCHANGED active
           \/ ClearActive(op)
           \/ InLock(op) /\ active' = [active EXCEPT ![SessionOf[op]] = Nobody]
    PROVE  SharingInv'
<1>1. /\ pc \in [Ops -> Stages] /\ active \in [Sessions -> Ops \cup {Nobody}]
      /\ lock \in [Sessions -> Ops \cup {Nobody}]
  BY DEF Typed, TypeOK
<1>2. \A o \in Ops \ {op} : (InLock(o)' <=> InLock(o)) /\ (InPermit(o)' <=> InPermit(o))
  BY <1>1 DEF InLock, InPermit
<1>3. ~InLock(op)' /\ ~InPermit(op)'
  BY DEF InPermit
<1>4. permits' = {o \in Ops : InPermit(o)'}
  BY <1>2, <1>3 DEF SharingInv, LocksExact, Release
<1>5. IsFiniteSet(permits') /\ Cardinality(permits') <= Permits
  <2>1. permits' \subseteq permits /\ IsFiniteSet(permits) /\ Cardinality(permits) <= Permits
    BY DEF Release, SharingInv, LocksExact
  <2>2. IsFiniteSet(permits') /\ Cardinality(permits') <= Cardinality(permits)
    BY <2>1, FS_Subset
  <2>3. Cardinality(permits) \in Nat /\ Cardinality(permits') \in Nat
    BY <2>1, <2>2, FS_CardinalityType
  <2> QED BY <2>1, <2>2, <2>3, PermitsAssumption
<1>6. (\A s \in Sessions : lock[s] # Nobody => SessionOf[lock[s]] = s /\ InLock(lock[s]))'
  <2> SUFFICES ASSUME NEW s \in Sessions, lock'[s] # Nobody
               PROVE  (SessionOf[lock[s]] = s /\ InLock(lock[s]))'
    OBVIOUS
  <2>1. lock'[s] = lock[s] /\ lock[s] \in Ops
    BY <1>1, OpsAssumption DEF Release
  <2>2. SessionOf[lock[s]] = s /\ InLock(lock[s])
    BY <2>1 DEF SharingInv, LocksExact
  <2>3. lock[s] # op
    BY <1>1, <2>1, <2>2, OpsAssumption DEF Release
  <2>4. lock[s] \in Ops \ {op} /\ lock[s] = lock'[s]
    BY <2>1, <2>3
  <2>5. \A o \in Ops \ {op} : InLock(o) => InLock(o)'
    BY <1>2
  <2>6. \A o \in Ops \ {op} : o = lock'[s] => (SessionOf[lock[s]] = s /\ InLock(lock[s]))'
    BY <2>2, <2>4, <2>5 DEF InLock
  <2> QED BY <2>4, <2>6
<1>7. \A o \in Ops : InLock(o)' => lock'[SessionOf[o]] = o
  BY <1>1, <1>2, <1>3, OpsAssumption DEF Release, SharingInv, LocksExact
<1>8. \A o \in Ops : InPermit(o)' => active'[SessionOf[o]] = o
  <2> SUFFICES ASSUME NEW o \in Ops, InPermit(o)' PROVE active'[SessionOf[o]] = o
    OBVIOUS
  <2>1. o # op /\ InPermit(o) /\ InLock(o) /\ SessionOf[o] \in Sessions
    BY <1>2, <1>3, OpsAssumption DEF InPermit
  <2>2. active[SessionOf[o]] = o /\ lock[SessionOf[o]] = o
    BY <2>1 DEF SharingInv, ActiveIsInside, LocksExact
  <2>3. InLock(op) => SessionOf[op] # SessionOf[o]
    BY <2>1, <2>2 DEF SharingInv, LocksExact
  <2> QED BY <1>1, <2>1, <2>2, <2>3, OpsAssumption DEF ClearActive
<1> QED BY <1>4, <1>5, <1>6, <1>7, <1>8 DEF SharingInv, LocksExact, ActiveIsInside

\* Every step of an operation is within the locks, leaves them, takes the lock, or
\* enters with a permit.
LEMMA SharingStep ==
    ASSUME Typed, SharingInv, NEW op \in Ops,
           Advance(op) \/ Outcome(op) \/ Escape(op) \/ CancelStep(op) \/ Client(op)
    PROVE  SharingInv'
<1>1. pc \in [Ops -> Stages] /\ active \in [Sessions -> Ops \cup {Nobody}]
      /\ lock \in [Sessions -> Ops \cup {Nobody}] /\ permits \subseteq Ops
  BY DEF Typed, TypeOK
<1>2. /\ op \in Turns <=> op \notin Commands
      /\ op \in Commands => pc[op] \in CommandStages /\ ~interrupted[op]
  BY OpsAssumption DEF Ops, Typed, CommandsPlain
<1>3. ASSUME UNCHANGED <<pc, sharing>> PROVE SharingInv'
  BY <1>3, SharingKept
<1> USE DEF InLock, InPermit, Inside, Handler, Finally, CommandStages, Step
<1>4. CASE StartTurn(op) \/ AnnounceQueued(op) \/ Launch(op) \/ StartCommand(op) \/
           Approach(op)
  <2>1. PICK stage : pc' = [pc EXCEPT ![op] = stage]
    BY <1>4 DEF StartTurn, AnnounceQueued, Launch, StartCommand, Approach
  <2>2. UNCHANGED <<lock, permits>> /\ (UNCHANGED active)
    BY <1>4 DEF StartTurn, AnnounceQueued, Launch, StartCommand, Approach, sharing
  <2>3. (InLock(op)' <=> InLock(op)) /\ (InPermit(op)' <=> InPermit(op))
    BY <1>1, <1>2, <1>4 DEF StartTurn, AnnounceQueued, Launch, StartCommand, Approach
  <2> QED BY <2>1, <2>2, <2>3, Within
<1>5. CASE Prepare(op) \/ BuildAgent(op) \/ BeginRun(op) \/ Retitle(op)
  <2>1. PICK stage : pc' = [pc EXCEPT ![op] = stage]
    BY <1>5 DEF Prepare, BuildAgent, BeginRun, Retitle
  <2>2. UNCHANGED <<lock, permits>> /\ (UNCHANGED active)
    BY <1>5 DEF Prepare, BuildAgent, BeginRun, Retitle, sharing
  <2>3. (InLock(op)' <=> InLock(op)) /\ (InPermit(op)' <=> InPermit(op))
    BY <1>1, <1>2, <1>5 DEF Prepare, BuildAgent, BeginRun, Retitle
  <2> QED BY <2>1, <2>2, <2>3, Within
<1>6. CASE \/ \E reason \in {"aborted", "stop", "error"} : EndRun(op, reason)
           \/ \E result \in {"completed", "failed"} : CommandResult(op, result)
           \/ CommandReported(op)
  <2>1. PICK stage : pc' = [pc EXCEPT ![op] = stage]
    BY <1>6 DEF EndRun, CommandResult, CommandReported
  <2>2. UNCHANGED <<lock, permits>> /\ (UNCHANGED active)
    BY <1>6 DEF EndRun, CommandResult, CommandReported, sharing
  <2>3. (InLock(op)' <=> InLock(op)) /\ (InPermit(op)' <=> InPermit(op))
    BY <1>1, <1>2, <1>6 DEF EndRun, CommandResult, CommandReported
  <2> QED BY <2>1, <2>2, <2>3, Within
<1>7. CASE WriteFailEnd(op) \/ Settle(op) \/ Finish(op)
  <2>1. PICK stage : pc' = [pc EXCEPT ![op] = stage]
    BY <1>7 DEF WriteFailEnd, Settle, Finish
  <2>2. UNCHANGED <<lock, permits>> /\ (UNCHANGED active)
    BY <1>7 DEF WriteFailEnd, Settle, Finish, sharing
  <2>3. (InLock(op)' <=> InLock(op)) /\ (InPermit(op)' <=> InPermit(op))
    BY <1>1, <1>2, <1>7 DEF WriteFailEnd, Settle, Finish
  <2> QED BY <2>1, <2>2, <2>3, Within
<1>8. CASE InterruptReady(op) \/ InterruptFinally(op) \/ AbandonStart(op)
  <2>1. PICK stage : pc' = [pc EXCEPT ![op] = stage]
    BY <1>8 DEF InterruptReady, InterruptFinally, AbandonStart
  <2>2. UNCHANGED <<lock, permits>> /\ (UNCHANGED active)
    BY <1>8 DEF InterruptReady, InterruptFinally, AbandonStart, sharing
  <2>3. (InLock(op)' <=> InLock(op)) /\ (InPermit(op)' <=> InPermit(op))
    BY <1>1, <1>2, <1>8 DEF InterruptReady, InterruptFinally, AbandonStart
  <2> QED BY <2>1, <2>2, <2>3, Within
<1>9. CASE WriteCancelEnd(op) \/ HandlerFails(op) \/ FailReported(op) \/ InterruptHandler(op)
  <2>1. PICK stage : pc' = [pc EXCEPT ![op] = stage]
    BY <1>9 DEF WriteCancelEnd, HandlerFails, FailReported, InterruptHandler, ToFinally
  <2>2. UNCHANGED <<lock, permits>> /\ (UNCHANGED active \/ ClearActive(op))
    BY <1>9 DEF WriteCancelEnd, HandlerFails, FailReported, InterruptHandler, sharing, ToFinally
  <2>3. (InLock(op)' <=> InLock(op)) /\ (InPermit(op)' <=> InPermit(op))
    BY <1>1, <1>2, <1>9 DEF WriteCancelEnd, HandlerFails, FailReported, InterruptHandler, ToFinally
  <2>4. ~InPermit(op)
    BY <1>1, <1>2, <1>9 DEF WriteCancelEnd, HandlerFails, FailReported, InterruptHandler
  <2> QED BY <2>1, <2>2, <2>3, <2>4, Within
<1>10. CASE Close(op)
  <2>1. PICK stage : pc' = [pc EXCEPT ![op] = stage]
    BY <1>10 DEF Close
  <2>2. UNCHANGED <<lock, permits>> /\ (UNCHANGED active \/ ClearActive(op))
    BY <1>10 DEF Close, sharing
  <2>3. (InLock(op)' <=> InLock(op)) /\ (InPermit(op)' <=> InPermit(op))
    BY <1>1, <1>2, <1>10 DEF Close
  <2>4. ~InPermit(op)
    BY <1>1, <1>2, <1>10 DEF Close
  <2> QED BY <2>1, <2>2, <2>3, <2>4, Within
<1>11. CASE EnterCancelled(op) \/ Fail(op) \/ RunEndFails(op) \/ Leave(op)
  <2>1. PICK stage : pc' = [pc EXCEPT ![op] = stage]
    BY <1>11 DEF EnterCancelled, Fail, RunEndFails, Leave
  <2>2. Release(op) /\ (UNCHANGED active)
    BY <1>11 DEF EnterCancelled, Fail, RunEndFails, Leave
  <2>3. ~InLock(op)'
    BY <1>1, <1>2, <1>11 DEF EnterCancelled, Fail, RunEndFails, Leave
  <2> QED BY <2>1, <2>2, <2>3, Released
<1>12. CASE InterruptBody(op) \/ CommandUnbuilt(op)
  <2>1. PICK stage : pc' = [pc EXCEPT ![op] = stage]
    BY <1>12 DEF InterruptBody, CommandUnbuilt
  <2>2. Release(op) /\ (UNCHANGED active)
    BY <1>12 DEF InterruptBody, CommandUnbuilt
  <2>3. ~InLock(op)'
    BY <1>1, <1>2, <1>12 DEF InterruptBody, CommandUnbuilt
  <2> QED BY <2>1, <2>2, <2>3, Released
<1>13. CASE InterruptReported(op)
  <2>1. PICK stage : pc' = [pc EXCEPT ![op] = stage]
    BY <1>13 DEF InterruptReported, ToFinally
  <2>2. Release(op) /\ (UNCHANGED active \/ ClearActive(op))
    BY <1>13 DEF InterruptReported, ToFinally
  <2>3. ~InLock(op)'
    BY <1>1, <1>2, <1>13 DEF InterruptReported, ToFinally
  <2> QED BY <2>1, <2>2, <2>3, Released
<1>14. CASE CommandClose(op)
  <2>1. PICK stage : pc' = [pc EXCEPT ![op] = stage]
    BY <1>14 DEF CommandClose
  <2>2. Release(op) /\ (InLock(op) /\ active' = [active EXCEPT ![SessionOf[op]] = Nobody])
    BY <1>14 DEF CommandClose
  <2>3. ~InLock(op)'
    BY <1>1, <1>2, <1>14 DEF CommandClose
  <2> QED BY <2>1, <2>2, <2>3, Released
<1>15. CASE WriteRunEnd(op)
  <2>1. CASE status[op] = "cancelled"
    <3>1. pc' = [pc EXCEPT ![op] = "close"] /\ Release(op) /\ UNCHANGED active
      BY <1>15, <2>1 DEF WriteRunEnd
    <3>2. ~InLock(op)'
      BY <1>1, <1>2, <3>1, <1>15 DEF WriteRunEnd
    <3> QED BY <3>1, <3>2, Released
  <2>2. CASE status[op] # "cancelled"
    <3>1. pc' = [pc EXCEPT ![op] = "report"] /\ UNCHANGED <<lock, permits>> /\ UNCHANGED active
      BY <1>15, <2>2 DEF WriteRunEnd
    <3>2. (InLock(op)' <=> InLock(op)) /\ (InPermit(op)' <=> InPermit(op))
      BY <1>1, <3>1, <1>15 DEF WriteRunEnd
    <3> QED BY <3>1, <3>2, Within
  <2> QED BY <2>1, <2>2
<1>16. CASE AbandonCommand(op)
  <2>1. CASE pc[op] \in {"run", "report"}
    <3>1. pc' = [pc EXCEPT ![op] = "close"] /\ UNCHANGED <<lock, permits>> /\ UNCHANGED active
      BY <1>16, <2>1 DEF AbandonCommand
    <3>2. (InLock(op)' <=> InLock(op)) /\ (InPermit(op)' <=> InPermit(op))
      BY <1>1, <2>1, <3>1, <1>16 DEF AbandonCommand
    <3> QED BY <3>1, <3>2, Within
  <2>2. CASE pc[op] \notin {"run", "report"}
    <3>1. pc' = [pc EXCEPT ![op] = "gone"] /\ Release(op) /\ UNCHANGED active
      BY <1>16, <2>2 DEF AbandonCommand
    <3>2. ~InLock(op)'
      BY <1>1, <3>1
    <3> QED BY <3>1, <3>2, Released
  <2> QED BY <2>1, <2>2
<1>17. CASE TakeLock(op)
  <2>1. /\ pc[op] = "lock" /\ pc' = [pc EXCEPT ![op] = "permit"]
        /\ lock[SessionOf[op]] = Nobody /\ lock' = [lock EXCEPT ![SessionOf[op]] = op]
        /\ UNCHANGED <<permits, active>>
    BY <1>17 DEF TakeLock
  <2>2. \A o \in Ops : InPermit(o)' <=> InPermit(o)
    BY <1>1, <2>1
  <2>3. \A o \in Ops : InLock(o)' <=> InLock(o) \/ o = op
    BY <1>1, <2>1
  <2>4. (\A s \in Sessions : lock[s] # Nobody => SessionOf[lock[s]] = s /\ InLock(lock[s]))'
    BY <1>1, <2>1, <2>3, OpsAssumption DEF SharingInv, LocksExact
  <2>5. \A o \in Ops : InLock(o)' => lock'[SessionOf[o]] = o
    <3>1. \A o \in Ops \ {op} : InLock(o)' => lock[SessionOf[o]] = o
      BY <2>3 DEF SharingInv, LocksExact
    <3>2. \A o \in Ops \ {op} : InLock(o)' => SessionOf[o] # SessionOf[op]
      BY <2>1, <3>1, OpsAssumption
    <3> HIDE DEF InLock
    <3> QED BY <1>1, <2>1, <3>1, <3>2, OpsAssumption
  <2> QED BY <2>1, <2>2, <2>4, <2>5 DEF SharingInv, LocksExact, ActiveIsInside
<1>18. CASE Enter(op)
  <2>1. /\ pc[op] = "permit" /\ pc' = [pc EXCEPT ![op] = "started"]
        /\ permits' = permits \cup {op} /\ Cardinality(permits) < Permits
        /\ active' = [active EXCEPT ![SessionOf[op]] = op] /\ UNCHANGED lock
    BY <1>18 DEF Enter
  <2>2. \A o \in Ops : InLock(o)' <=> InLock(o)
    BY <1>1, <2>1
  <2>3. \A o \in Ops : InPermit(o)' <=> InPermit(o) \/ o = op
    BY <1>1, <2>1
  <2>4. (\A s \in Sessions : lock[s] # Nobody => SessionOf[lock[s]] = s /\ InLock(lock[s]))'
    BY <1>1, <2>1, <2>2, OpsAssumption DEF SharingInv, LocksExact
  <2>5. \A o \in Ops : InLock(o)' => lock'[SessionOf[o]] = o
    BY <2>1, <2>2 DEF SharingInv, LocksExact
  <2>6. permits' = {o \in Ops : InPermit(o)'}
    BY <2>1, <2>3 DEF SharingInv, LocksExact
  <2>7. IsFiniteSet(permits') /\ Cardinality(permits') <= Permits
    <3>1. /\ IsFiniteSet(permits') /\ Cardinality(permits) \in Nat
          /\ Cardinality(permits') = IF op \in permits THEN Cardinality(permits)
                                     ELSE Cardinality(permits) + 1
      BY <2>1, FS_AddElement, FS_CardinalityType DEF SharingInv
    <3> QED BY <2>1, <3>1, PermitsAssumption
  <2>8. \A o \in Ops : InPermit(o)' => active'[SessionOf[o]] = o
    <3> SUFFICES ASSUME NEW o \in Ops, InPermit(o)', o # op PROVE active'[SessionOf[o]] = o
      BY <1>1, <2>1, OpsAssumption
    <3>1. InPermit(o) /\ InLock(o) /\ InLock(op)
      BY <2>1, <2>3
    <3>2. lock[SessionOf[o]] = o /\ lock[SessionOf[op]] = op /\ active[SessionOf[o]] = o
      BY <3>1 DEF SharingInv, LocksExact, ActiveIsInside
    <3> QED BY <1>1, <2>1, <3>2, OpsAssumption
  <2> QED BY <2>4, <2>5, <2>6, <2>7, <2>8 DEF SharingInv, LocksExact, ActiveIsInside
<1>19. CASE AnnounceCancel(op) \/ DeliverCancel(op) \/ ClaimCancel(op) \/ RepeatCancel(op)
            \/ AbandonCancel(op)
  BY <1>3, <1>19
     DEF AnnounceCancel, DeliverCancel, ClaimCancel, RepeatCancel, AbandonCancel, task
<1>20. CASE Escape(op)
  BY <1>3, <1>20 DEF Escape, Absorb, Deafen, task
<1> QED
  BY <1>4, <1>5, <1>6, <1>7, <1>8, <1>9, <1>10, <1>11, <1>12, <1>13, <1>14, <1>15, <1>16,
     <1>17, <1>18, <1>19, <1>20
     DEF Advance, Outcome, Escape, CancelStep, Client

\* SharingInv is inductive, given the types.
LEMMA NextSharing == Typed /\ SharingInv /\ [Next]_vars => SharingInv'
<1> SUFFICES ASSUME Typed, SharingInv, [Next]_vars PROVE SharingInv'
  OBVIOUS
<1>1. CASE \E op \in Ops : Advance(op) \/ Outcome(op) \/ Escape(op) \/ CancelStep(op) \/ Client(op)
  BY <1>1, SharingStep
<1>2. CASE StoreStep \/ AcceptShutdown \/ Stop \/ UNCHANGED vars
  <2>1. UNCHANGED <<pc, sharing>>
    BY <1>2 DEF StoreStep, AcceptShutdown, Stop, vars, task
  <2> QED BY <2>1, SharingKept
<1> QED
  BY <1>1, <1>2 DEF Next

LEMMA InitSharing == Init => SharingInv
<1> SUFFICES ASSUME Init PROVE SharingInv
  OBVIOUS
<1>1. \A op \in Ops : ~InLock(op) /\ ~InPermit(op)
  BY DEF Init, InLock, InPermit, Inside
<1>2. IsFiniteSet(permits) /\ Cardinality(permits) <= Permits
  BY FS_EmptySet, PermitsAssumption DEF Init
<1>3. permits = {op \in Ops : InPermit(op)}
  BY <1>1 DEF Init
<1> QED
  BY <1>1, <1>2, <1>3 DEF Init, SharingInv, LocksExact, ActiveIsInside

\* The session locks and the semaphore permits are held by exactly the operations
\* inside them, through every cancellation, failure and shutdown.
THEOREM LocksAreExact == Spec => []LocksExact
<1>1. Typed /\ SharingInv => LocksExact
  BY DEF SharingInv
<1> QED
  BY <1>1, InitTyped, NextTyped, InitSharing, NextSharing, PTL DEF Spec

\* SessionRuntime.active is the operation that runs, whatever earlier operation
\* of the session still is in its finally clause.
THEOREM ActiveRuns == Spec => []ActiveIsInside
<1>1. Typed /\ SharingInv => ActiveIsInside
  BY DEF SharingInv
<1> QED
  BY <1>1, InitTyped, NextTyped, InitSharing, NextSharing, PTL DEF Spec

-----------------------------------------------------------------------------
\* How operations end, when the Runtime is not shut down: a shutdown may overwrite
\* a status, and so may a run_end that raises.
EndStages == {"runEnd", "report", "rename"} \cup Handler

EndingInv ==
    /\ server = "serving"
    /\ \A op \in Ops : interrupted[op] \/ canceller[op] # "none" => requested[op]
    /\ \A op \in Ops : Terminal(op) => pc[op] \in EndStages \cup Finally \cup {"done", "gone"}
    /\ \A op \in Turns : pc[op] \in EndStages => Terminal(op)
    /\ \A op \in Turns : requested[op] =>
           pc[op] \notin {"report", "rename"} /\ (pc[op] = "runEnd" => status[op] = "cancelled")
    /\ \A op \in Turns : pc[op] = "cancelEnd" => status[op] = "cancelled"
    /\ \A op \in Turns : pc[op] = "failEnd" => status[op] = "failed"

StatusKept == \A op \in Ops : Terminal(op) => status'[op] = status[op]

\* No step of an operation changes a terminal status, but for a disk that fails.
LEMMA EndingStep ==
    ASSUME Typed, EndingInv, ~Shutdowns, NEW op \in Ops,
           Advance(op) \/ Outcome(op) \/ Escape(op) \/ CancelStep(op) \/ Client(op)
    PROVE  EndingInv' /\ (~DiskFaults => StatusKept)
<1>1. /\ status \in [Ops -> Statuses \cup {"none"}] /\ requested \in [Ops -> BOOLEAN]
      /\ pc \in [Ops -> Stages] /\ interrupted \in [Ops -> BOOLEAN]
      /\ canceller \in [Ops -> {"none", "opening", "emitting"}]
  BY DEF Typed, TypeOK
<1>2. /\ op \in Turns <=> op \notin Commands
      /\ op \in Commands => pc[op] \in CommandStages /\ ~interrupted[op]
      /\ Turns \subseteq Ops
  BY OpsAssumption DEF Ops, Typed, CommandsPlain
<1> USE <1>1, <1>2
    DEF EndingInv, StatusKept, EndStages, Handler, Finally, Terminal, CommandStages, Statuses,
        InFlightStatuses, TerminalStatuses, Step, control, task
<1>3. CASE AnnounceQueued(op)
  BY <1>3 DEF AnnounceQueued
<1>4. CASE Launch(op)
  BY <1>4 DEF Launch
<1>5. CASE Approach(op)
  <2>1. /\ pc[op] \in {"ready", "enqueue"} /\ pc' = [pc EXCEPT ![op] = "lock"]
        /\ UNCHANGED <<status, requested, interrupted, canceller, server>>
    BY <1>5 DEF Approach
  <2> QED BY <2>1
<1>6. CASE TakeLock(op)
  BY <1>6 DEF TakeLock
<1>7. CASE Enter(op)
  BY <1>7 DEF Enter
<1>8. CASE EnterCancelled(op)
  BY <1>8 DEF EnterCancelled
<1>9. CASE Prepare(op)
  BY <1>9 DEF Prepare
<1>10. CASE BuildAgent(op)
  BY <1>10 DEF BuildAgent
<1>11. CASE BeginRun(op)
  BY <1>11 DEF BeginRun
<1>12. CASE WriteRunEnd(op)
  BY <1>12 DEF WriteRunEnd
<1>13. CASE Retitle(op)
  BY <1>13 DEF Retitle
<1>14. CASE Leave(op)
  BY <1>14 DEF Leave
<1>15. CASE WriteCancelEnd(op)
  BY <1>15 DEF WriteCancelEnd, ToFinally
<1>16. CASE WriteFailEnd(op)
  BY <1>16 DEF WriteFailEnd
<1>17. CASE FailReported(op)
  BY <1>17 DEF FailReported, ToFinally
<1>18. CASE Close(op)
  BY <1>18 DEF Close
<1>19. CASE Settle(op)
  BY <1>19 DEF Settle
<1>20. CASE Finish(op)
  BY <1>20 DEF Finish
<1>21. CASE InterruptReady(op)
  BY <1>21 DEF InterruptReady
<1>22. CASE InterruptBody(op)
  BY <1>22 DEF InterruptBody
<1>23. CASE InterruptReported(op)
  BY <1>23 DEF InterruptReported, ToFinally
<1>24. CASE InterruptHandler(op)
  BY <1>24 DEF InterruptHandler, ToFinally
<1>25. CASE InterruptFinally(op)
  BY <1>25 DEF InterruptFinally
<1>26. CASE CommandReported(op)
  BY <1>26 DEF CommandReported
<1>27. CASE CommandClose(op)
  BY <1>27 DEF CommandClose
<1>28. CASE Fail(op)
  BY <1>28 DEF Fail
<1>29. CASE CommandUnbuilt(op)
  BY <1>29 DEF CommandUnbuilt
<1>30. CASE AnnounceCancel(op)
  BY <1>30 DEF AnnounceCancel
<1>31. CASE DeliverCancel(op)
  BY <1>31 DEF DeliverCancel
<1>32. CASE StartTurn(op)
  BY <1>32 DEF StartTurn
<1>33. CASE StartCommand(op)
  BY <1>33 DEF StartCommand
<1>34. CASE ClaimCancel(op)
  BY <1>34 DEF ClaimCancel
<1>35. CASE RepeatCancel(op)
  BY <1>35 DEF RepeatCancel
<1>36. CASE AbandonStart(op)
  BY <1>36 DEF AbandonStart
<1>37. CASE AbandonCommand(op)
  BY <1>37 DEF AbandonCommand
<1>38. CASE AbandonCancel(op)
  BY <1>38 DEF AbandonCancel
<1>39. CASE \E reason \in {"aborted", "stop", "error"} : EndRun(op, reason)
  BY <1>39 DEF EndRun
<1>40. CASE \E result \in {"completed", "failed"} : CommandResult(op, result)
  BY <1>40 DEF CommandResult
<1>41. CASE RunEndFails(op)
  <2>1. /\ DiskFaults /\ pc[op] = "runEnd" /\ pc' = [pc EXCEPT ![op] = "failEnd"]
        /\ status' = [status EXCEPT ![op] = "failed"]
        /\ UNCHANGED <<requested, interrupted, canceller, server>>
    BY <1>41 DEF RunEndFails
  <2> QED BY <2>1
<1>42. CASE HandlerFails(op)
  <2>1. /\ DiskFaults /\ pc[op] \in {"cancelEnd", "failEnd"}
        /\ \E stage \in {"close", "settle"} : pc' = [pc EXCEPT ![op] = stage]
        /\ UNCHANGED <<status, requested, interrupted, canceller, server>>
    BY <1>42 DEF HandlerFails, ToFinally
  <2> QED BY <2>1
<1>43. CASE Escape(op)
  BY <1>43 DEF Escape, Absorb, Deafen
<1> QED
  BY <1>3, <1>4, <1>5, <1>6, <1>7, <1>8, <1>9, <1>10, <1>11, <1>12, <1>13, <1>14, <1>15,
     <1>16, <1>17, <1>18, <1>19, <1>20, <1>21, <1>22, <1>23, <1>24, <1>25, <1>26, <1>27,
     <1>28, <1>29, <1>30, <1>31, <1>32, <1>33, <1>34, <1>35, <1>36, <1>37, <1>38, <1>39,
     <1>40, <1>41, <1>42, <1>43
     DEF Advance, Outcome, Escape, CancelStep, Client

\* An appended run_end records the status the operation has and keeps.
LEMMA RunEndStep ==
    ASSUME Typed, EndingInv, RunEndsAgree, ~DiskFaults, StatusKept, NEW op \in Ops,
           Advance(op) \/ Outcome(op) \/ Escape(op) \/ CancelStep(op) \/ Client(op)
    PROVE  RunEndsAgree'
<1>1. /\ runEnds \in [Ops -> Seq(TerminalStatuses)] /\ status \in [Ops -> Statuses \cup {"none"}]
      /\ Turns \subseteq Ops
  BY DEF Typed, TypeOK, Ops
<1>2. ASSUME UNCHANGED runEnds PROVE RunEndsAgree'
  <2> SUFFICES ASSUME NEW o \in Turns, NEW i \in 1..Len(runEnds[o]) PROVE runEnds[o][i] = status'[o]
    BY <1>2 DEF RunEndsAgree
  <2>1. runEnds[o][i] \in TerminalStatuses
    BY <1>1, ElementsTyped
  <2>2. runEnds[o][i] = status[o]
    BY DEF RunEndsAgree
  <2> QED BY <1>1, <2>1, <2>2 DEF StatusKept, Terminal
<1>3. ASSUME NEW st \in TerminalStatuses, st = status'[op],
             runEnds' = [runEnds EXCEPT ![op] = Append(@, st)]
      PROVE  RunEndsAgree'
  <2> SUFFICES ASSUME NEW o \in Turns, NEW i \in 1..Len(runEnds'[o])
               PROVE  runEnds'[o][i] = status'[o]
    BY DEF RunEndsAgree
  <2>1. runEnds[o] \in Seq(TerminalStatuses)
    BY <1>1
  <2>2. CASE i \in 1..Len(runEnds[o])
    <3>1. runEnds'[o][i] = runEnds[o][i]
      BY <1>1, <1>3, <2>1, <2>2
    <3>2. runEnds[o][i] \in TerminalStatuses /\ runEnds[o][i] = status[o]
      BY <2>1, <2>2, ElementsTyped DEF RunEndsAgree
    <3> QED BY <1>1, <3>1, <3>2 DEF StatusKept, Terminal
  <2>3. CASE i \notin 1..Len(runEnds[o])
    <3>1. o = op /\ runEnds'[o][i] = st
      BY <1>1, <1>3, <2>1, <2>3
    <3> QED BY <1>3, <3>1
  <2> QED BY <2>2, <2>3
<1>4. op \in Commands => pc[op] \in CommandStages /\ ~interrupted[op]
  BY DEF Typed, CommandsPlain
<1>5. CASE WriteRunEnd(op) \/ InterruptHandler(op)
  <2>1. status[op] \in TerminalStatuses
    BY <1>1, <1>4, <1>5
       DEF WriteRunEnd, InterruptHandler, EndingInv, EndStages, Handler, Terminal,
           CommandStages, Ops
  <2>2. status'[op] = status[op]
    BY <1>5 DEF WriteRunEnd, InterruptHandler
  <2> QED BY <1>2, <1>3, <1>5, <2>1, <2>2 DEF WriteRunEnd, InterruptHandler
<1>6. CASE WriteCancelEnd(op) \/ WriteFailEnd(op)
  <2>1. op \in Turns
    BY <1>4, <1>6 DEF WriteCancelEnd, WriteFailEnd, Step, CommandStages, Ops
  <2>2. status'[op] = status[op]
    BY <1>6 DEF WriteCancelEnd, WriteFailEnd
  <2> QED
    BY <1>3, <1>6, <2>1, <2>2
       DEF WriteCancelEnd, WriteFailEnd, Step, EndingInv, TerminalStatuses
<1>7. CASE InterruptBody(op)
  <2>1. op \in Turns
    BY <1>4, <1>7 DEF InterruptBody, Ops
  <2>2. status'[op] = "cancelled"
    BY <1>1, <1>7 DEF InterruptBody
  <2>3. pc[op] = "runEnd" => status[op] = "cancelled"
    BY <1>7, <2>1 DEF InterruptBody, EndingInv, Ops
  <2> QED BY <1>2, <1>3, <1>7, <2>2, <2>3 DEF InterruptBody, TerminalStatuses
<1>8. CASE AnnounceQueued(op) \/ Launch(op) \/ Approach(op) \/ TakeLock(op) \/ Enter(op) \/
           EnterCancelled(op) \/ Prepare(op) \/ BuildAgent(op) \/ BeginRun(op) \/
           Retitle(op) \/ Leave(op)
  BY <1>2, <1>8
     DEF AnnounceQueued, Launch, Approach, TakeLock, Enter, EnterCancelled, Prepare,
         BuildAgent, BeginRun, Retitle, Leave
<1>9. CASE FailReported(op) \/ Close(op) \/ Settle(op) \/ Finish(op) \/ InterruptReady(op)
           \/ InterruptReported(op) \/ InterruptFinally(op) \/ CommandReported(op) \/
           CommandClose(op) \/ Fail(op) \/ CommandUnbuilt(op)
  BY <1>2, <1>9
     DEF FailReported, Close, Settle, Finish, InterruptReady, InterruptReported,
         InterruptFinally, CommandReported, CommandClose, Fail, CommandUnbuilt
<1>10. CASE AnnounceCancel(op) \/ DeliverCancel(op) \/ StartTurn(op) \/ StartCommand(op) \/
           ClaimCancel(op) \/ RepeatCancel(op) \/ AbandonStart(op) \/ AbandonCommand(op) \/
           AbandonCancel(op)
  BY <1>2, <1>10
     DEF AnnounceCancel, DeliverCancel, StartTurn, StartCommand, ClaimCancel, RepeatCancel,
         AbandonStart, AbandonCommand, AbandonCancel, task
<1>11. CASE \/ \E reason \in {"aborted", "stop", "error"} : EndRun(op, reason)
            \/ \E result \in {"completed", "failed"} : CommandResult(op, result)
  BY <1>2, <1>11 DEF EndRun, CommandResult
<1>12. ~RunEndFails(op) /\ ~HandlerFails(op)
  BY DEF RunEndFails, HandlerFails
<1>13. CASE Escape(op)
  BY <1>2, <1>13 DEF Escape, Absorb, Deafen, task
<1> QED
  BY <1>5, <1>6, <1>7, <1>8, <1>9, <1>10, <1>11, <1>12, <1>13
     DEF Advance, Outcome, Escape, CancelStep, Client

LEMMA NextEnding ==
    ASSUME ~Shutdowns, Typed, EndingInv, [Next]_vars
    PROVE  /\ EndingInv'
           /\ ~DiskFaults => StatusKept /\ (RunEndsAgree => RunEndsAgree')
<1>1. CASE \E op \in Ops : Advance(op) \/ Outcome(op) \/ Escape(op) \/ CancelStep(op) \/ Client(op)
  BY <1>1, EndingStep, RunEndStep
<1>2. CASE StoreStep \/ UNCHANGED vars
  <2>1. UNCHANGED <<task, control>>
    BY <1>2 DEF StoreStep, vars
  <2> QED
    BY <2>1 DEF task, control, EndingInv, RunEndsAgree, StatusKept, Terminal
<1>3. ~AcceptShutdown /\ ~Stop
  BY DEF AcceptShutdown, Stop, EndingInv
<1> QED
  BY <1>1, <1>2, <1>3 DEF Next

LEMMA InitEnding == Init => EndingInv /\ RunEndsAgree
<1> SUFFICES ASSUME Init PROVE EndingInv /\ RunEndsAgree
  OBVIOUS
<1>1. Turns \subseteq Ops
  BY DEF Ops
<1>2. \A op \in Turns : Len(runEnds[op]) = 0
  BY <1>1 DEF Init
<1>3. RunEndsAgree
  BY <1>2 DEF RunEndsAgree
<1> QED
  BY <1>1, <1>3
     DEF Init, EndingInv, EndStages, Handler, Terminal, TerminalStatuses

\* Without disk faults and shutdowns, the status an operation ended with is
\* final: a turn.cancel that comes late, is delivered late or is abandoned, an
\* except clause, the client going away: none of them changes it.
THEOREM StatusIsFinal == ASSUME ~DiskFaults, ~Shutdowns PROVE Spec => TerminalIsFinal
<1>1. Typed /\ EndingInv /\ RunEndsAgree /\ [Next]_vars
          => EndingInv' /\ RunEndsAgree' /\ [StatusKept]_vars
  BY NextEnding
<1>2. [StatusKept]_vars
        => [\A op \in Ops : Terminal(op) => status'[op] = status[op]]_vars
  BY DEF StatusKept
<1> QED
  BY <1>1, <1>2, InitTyped, NextTyped, InitEnding, PTL DEF Spec, TerminalIsFinal

\* Under the same conditions the run_end entries of a turn, however many a
\* cancellation in the middle of append_run_end leaves, all record that status.
THEOREM RunEndsRecordStatus == ASSUME ~DiskFaults, ~Shutdowns PROVE Spec => []RunEndsAgree
<1>1. Typed /\ EndingInv /\ RunEndsAgree /\ [Next]_vars => EndingInv' /\ RunEndsAgree'
  BY NextEnding
<1> QED
  BY <1>1, InitTyped, NextTyped, InitEnding, PTL DEF Spec

-----------------------------------------------------------------------------
\* A step of one operation leaves the others alone, and what was cancelled is.
OthersKept(op) ==
    /\ \A o \in Ops \ {op} :
          /\ status'[o] = status[o] /\ requested'[o] = requested[o] /\ pc'[o] = pc[o]
          /\ ending'[o] = ending[o] /\ runEnds'[o] = runEnds[o]
          /\ published'[o] = published[o]
    /\ requested[op] => requested'[op]

LEMMA OthersStep ==
    ASSUME Typed, NEW op \in Ops,
           Advance(op) \/ Outcome(op) \/ Escape(op) \/ CancelStep(op) \/ Client(op)
    PROVE  OthersKept(op)
<1>1. /\ status \in [Ops -> Statuses \cup {"none"}] /\ requested \in [Ops -> BOOLEAN]
      /\ pc \in [Ops -> Stages] /\ ending \in [Ops -> {"return", "announce", "raise"}]
      /\ runEnds \in [Ops -> Seq(TerminalStatuses)] /\ published \in [Ops -> Seq(Events)]
  BY DEF Typed, TypeOK
<1> USE <1>1 DEF OthersKept, Step, Publish, Withdraw, ToFinally, control, task, stream
<1>2. CASE AnnounceQueued(op) \/ Launch(op) \/ TakeLock(op) \/ Enter(op) \/
           EnterCancelled(op) \/ Prepare(op) \/ BuildAgent(op) \/ BeginRun(op)
  BY <1>2
     DEF AnnounceQueued, Launch, TakeLock, Enter, EnterCancelled, Prepare, BuildAgent, BeginRun
<1>3. CASE Approach(op) \/ WriteRunEnd(op) \/ Retitle(op) \/ Leave(op)
  BY <1>3 DEF Approach, WriteRunEnd, Retitle, Leave
<1>4. CASE WriteCancelEnd(op) \/ WriteFailEnd(op) \/ FailReported(op) \/ Close(op)
           \/ Settle(op) \/ Finish(op)
  BY <1>4 DEF WriteCancelEnd, WriteFailEnd, FailReported, Close, Settle, Finish
<1>5. CASE InterruptReady(op) \/ InterruptBody(op) \/ InterruptReported(op)
           \/ InterruptHandler(op) \/ InterruptFinally(op)
  BY <1>5
     DEF InterruptReady, InterruptBody, InterruptReported, InterruptHandler, InterruptFinally
<1>6. CASE \/ \E reason \in {"aborted", "stop", "error"} : EndRun(op, reason)
           \/ \E result \in {"completed", "failed"} : CommandResult(op, result)
           \/ CommandReported(op) \/ CommandClose(op) \/ CommandUnbuilt(op)
  BY <1>6 DEF EndRun, CommandResult, CommandReported, CommandClose, CommandUnbuilt
<1>7. CASE Fail(op) \/ RunEndFails(op) \/ HandlerFails(op)
  BY <1>7 DEF Fail, RunEndFails, HandlerFails
<1>8. CASE StartTurn(op) \/ StartCommand(op) \/ AbandonStart(op) \/ AbandonCommand(op)
  BY <1>8 DEF StartTurn, StartCommand, AbandonStart, AbandonCommand
<1>9. CASE AnnounceCancel(op) \/ DeliverCancel(op) \/ ClaimCancel(op) \/ RepeatCancel(op)
           \/ AbandonCancel(op)
  BY <1>9 DEF AnnounceCancel, DeliverCancel, ClaimCancel, RepeatCancel, AbandonCancel
<1>10. CASE Escape(op)
  BY <1>10 DEF Escape, Absorb, Deafen
<1> QED
  BY <1>2, <1>3, <1>4, <1>5, <1>6, <1>7, <1>8, <1>9, <1>10
     DEF Advance, Outcome, Escape, CancelStep, Client

-----------------------------------------------------------------------------
\* The events of an operation, when the Runtime is not shut down.

\* Stages at which nothing of the end has been announced.
Silent ==
    {"idle", "announce", "enqueue", "ready", "lock", "permit", "started", "prepare", "run",
     "runEnd", "cancelEnd", "failEnd"}

\* One terminal event at the most, and it is the status; none before the end;
\* and what the finally clause is to announce is not out and is the status.
NewsOf(op) ==
    /\ \A i, j \in TerminalsOf(op) : i = j
    /\ \A i \in TerminalsOf(op) : published[op][i] = status[op]
    /\ pc[op] \in Silent => TerminalsOf(op) = {}
    /\ ending[op] = "announce" =>
         /\ pc[op] \in Finally \cup {"done", "gone"}
         /\ pc[op] \in {"close", "settle"} => status[op] = "cancelled" /\ TerminalsOf(op) = {}

NewsInv == \A op \in Ops : NewsOf(op)

\* The places of the events that end an operation, and one more event.
Ends(s) == {i \in 1..Len(s) : s[i] \in TerminalEvents}

LEMMA NewsAppended ==
    ASSUME NEW s \in Seq(Events), NEW event \in Events
    PROVE  /\ \A i \in Ends(s) : Append(s, event)[i] = s[i]
           /\ event \notin TerminalEvents => Ends(Append(s, event)) = Ends(s)
           /\ event \in TerminalEvents => Ends(Append(s, event)) = Ends(s) \cup {Len(s) + 1}
           /\ Append(s, event)[Len(s) + 1] = event
<1>1. /\ Len(Append(s, event)) = Len(s) + 1 /\ Append(s, event)[Len(s) + 1] = event
      /\ \A i \in 1..Len(s) : Append(s, event)[i] = s[i]
  OBVIOUS
<1>2. /\ Len(s) \in Nat /\ \A i : i \in 1..(Len(s) + 1) <=> i \in 1..Len(s) \/ i = Len(s) + 1
      /\ \A i \in 1..Len(s) : i # Len(s) + 1
  OBVIOUS
<1> QED BY <1>1, <1>2, Zenon DEF Ends

\* A step that announces no end leaves the ends announced as they are.
LEMMA NewsUntold ==
    ASSUME Typed, NEW op \in Ops,
           \/ published' = published
           \/ \E event \in Events \ TerminalEvents :
                  published' = [published EXCEPT ![op] = Append(@, event)]
    PROVE  TerminalsOf(op)' = TerminalsOf(op)
           /\ \A i \in TerminalsOf(op) : published'[op][i] = published[op][i]
<1>1. published \in [Ops -> Seq(Events)]
  BY DEF Typed, TypeOK
<1>2. CASE published' = published
  BY <1>2 DEF TerminalsOf
<1>3. CASE \E event \in Events \ TerminalEvents :
               published' = [published EXCEPT ![op] = Append(@, event)]
  <2>1. PICK event \in Events \ TerminalEvents :
            published' = [published EXCEPT ![op] = Append(@, event)]
    BY <1>3
  <2>2. published[op] \in Seq(Events) /\ published'[op] = Append(published[op], event)
    BY <1>1, <2>1
  <2>3. TerminalsOf(op) = Ends(published[op]) /\ TerminalsOf(op)' = Ends(published'[op])
    BY DEF TerminalsOf, Ends
  <2>4. event \in Events /\ event \notin TerminalEvents
    BY <2>1
  <2>5. /\ Ends(Append(published[op], event)) = Ends(published[op])
        /\ \A i \in Ends(published[op]) : Append(published[op], event)[i] = published[op][i]
    BY <2>2, <2>4, NewsAppended
  <2> QED BY <2>2, <2>3, <2>5, Zenon
<1> QED BY <1>2, <1>3

\* The first end that is announced is the only one.
LEMMA NewsTold ==
    ASSUME Typed, NEW op \in Ops, TerminalsOf(op) = {}, NEW event \in TerminalEvents,
           published' = [published EXCEPT ![op] = Append(@, event)]
    PROVE  \E k : TerminalsOf(op)' = {k} /\ published'[op][k] = event
<1>1. published \in [Ops -> Seq(Events)] /\ event \in Events
  BY DEF Typed, TypeOK, Events
<1>2. published[op] \in Seq(Events) /\ published'[op] = Append(published[op], event)
  BY <1>1
<1>3. TerminalsOf(op) = Ends(published[op]) /\ TerminalsOf(op)' = Ends(published'[op])
  BY DEF TerminalsOf, Ends
<1>4. TerminalsOf(op)' = {} \cup {Len(published[op]) + 1}
      /\ published'[op][Len(published[op]) + 1] = event
  BY <1>1, <1>2, <1>3, NewsAppended
<1> QED BY <1>4

\* What a step that announces no end may do with the rest of the operation.
Calm(op) ==
    /\ status'[op] = status[op] \/ pc[op] \in Silent \/ ~Terminal(op)
    /\ pc'[op] \in Silent => pc[op] \in Silent
    /\ ending'[op] = "announce" =>
         /\ pc'[op] \in Finally \cup {"done", "gone"}
         /\ pc'[op] \in {"close", "settle"} =>
              /\ status'[op] = "cancelled"
              /\ pc[op] \in Silent \/ (ending[op] = "announce" /\ pc[op] \in {"close", "settle"})

\* An operation that announced its end has ended.
LEMMA NewsEnded ==
    ASSUME Typed, NEW op \in Ops, NewsOf(op), ~Terminal(op)
    PROVE  TerminalsOf(op) = {}
<1>1. \A i \in TerminalsOf(op) : published[op][i] \in TerminalEvents
  BY DEF TerminalsOf
<1> QED BY <1>1 DEF NewsOf, Terminal, TerminalEvents, TerminalStatuses

LEMMA NewsCalm ==
    ASSUME Typed, NEW op \in Ops, NewsOf(op), Calm(op),
           \/ published' = published
           \/ \E event \in Events \ TerminalEvents :
                  published' = [published EXCEPT ![op] = Append(@, event)]
    PROVE  NewsOf(op)'
<1>1. /\ TerminalsOf(op)' = TerminalsOf(op)
      /\ \A i \in TerminalsOf(op) : published'[op][i] = published[op][i]
  BY NewsUntold
<1>2. status'[op] = status[op] \/ TerminalsOf(op) = {}
  BY NewsEnded DEF Calm, NewsOf
<1>3. /\ \A i, j \in TerminalsOf(op)' : i = j
      /\ \A i \in TerminalsOf(op)' : published'[op][i] = status'[op]
  BY <1>1, <1>2 DEF NewsOf
<1>4. pc'[op] \in Silent => TerminalsOf(op)' = {}
  BY <1>1 DEF Calm, NewsOf
<1>5. ending'[op] = "announce" =>
         /\ pc'[op] \in Finally \cup {"done", "gone"}
         /\ pc'[op] \in {"close", "settle"} => status'[op] = "cancelled" /\ TerminalsOf(op)' = {}
  BY <1>1 DEF Calm, NewsOf
<1> QED BY <1>3, <1>4, <1>5 DEF NewsOf

LEMMA NewsFinal ==
    ASSUME Typed, NEW op \in Ops, TerminalsOf(op) = {}, NEW event \in TerminalEvents,
           published' = [published EXCEPT ![op] = Append(@, event)],
           event = status'[op], pc'[op] \notin Silent,
           ending'[op] = "announce" => pc'[op] = "farewell"
    PROVE  NewsOf(op)'
<1>1. PICK k : TerminalsOf(op)' = {k} /\ published'[op][k] = event
  BY NewsTold
<1> QED BY <1>1 DEF NewsOf, Finally

\* Each step of an operation announces no end, or the first one.
LEMMA NewsStep ==
    ASSUME Typed, EndingInv, NewsInv, NEW op \in Ops,
           Advance(op) \/ Outcome(op) \/ Escape(op) \/ CancelStep(op) \/ Client(op)
    PROVE  NewsInv'
<1>1. /\ status \in [Ops -> Statuses \cup {"none"}] /\ requested \in [Ops -> BOOLEAN]
      /\ pc \in [Ops -> Stages] /\ interrupted \in [Ops -> BOOLEAN]
      /\ ending \in [Ops -> {"return", "announce", "raise"}]
  BY DEF Typed, TypeOK
<1>2. /\ op \in Turns <=> op \notin Commands
      /\ op \in Commands => pc[op] \in CommandStages /\ ~interrupted[op]
  BY OpsAssumption DEF Ops, Typed, CommandsPlain
<1>3. NewsOf(op) /\ server = "serving"
  BY DEF NewsInv, EndingInv
<1>4. /\ ending[op] = "announce" =>
           /\ pc[op] \in Finally \cup {"done", "gone"}
           /\ pc[op] \in {"close", "settle"} => status[op] = "cancelled"
      /\ Terminal(op) => pc[op] \in EndStages \cup Finally \cup {"done", "gone"}
      /\ op \in Turns /\ pc[op] \in EndStages => Terminal(op)
      /\ op \in Turns /\ interrupted[op] => pc[op] \notin {"report", "rename"}
      /\ op \in Turns /\ pc[op] = "cancelEnd" => status[op] = "cancelled"
      /\ op \in Turns /\ pc[op] = "failEnd" => status[op] = "failed"
  BY <1>3 DEF NewsOf, EndingInv
<1>5. \A event : Publish(op, event) => published' = [published EXCEPT ![op] = Append(@, event)]
  BY <1>3 DEF Publish
<1>6. NewsInv' <=> NewsOf(op)'
  <2>1. ASSUME NEW o \in Ops \ {op} PROVE NewsOf(o)'
    <3>1. /\ status'[o] = status[o] /\ pc'[o] = pc[o] /\ ending'[o] = ending[o]
          /\ published'[o] = published[o]
      BY OthersStep DEF OthersKept
    <3>2. TerminalsOf(o)' = TerminalsOf(o)
      BY <3>1 DEF TerminalsOf
    <3> QED BY <3>1, <3>2 DEF NewsOf, NewsInv
  <2> QED BY <2>1 DEF NewsInv
<1>7. ASSUME published' = published, Calm(op) PROVE NewsInv'
  BY <1>3, <1>6, <1>7, NewsCalm
<1>8. ASSUME NEW event \in Events \ TerminalEvents, Publish(op, event), Calm(op) PROVE NewsInv'
  BY <1>3, <1>5, <1>6, <1>8, NewsCalm
<1>9. ASSUME NEW event \in TerminalEvents, Publish(op, event), TerminalsOf(op) = {},
             event = status'[op], pc'[op] \notin Silent,
             ending'[op] = "announce" => pc'[op] = "farewell"
      PROVE  NewsInv'
  BY <1>5, <1>6, <1>9, NewsFinal
<1>10. CASE StartTurn(op) \/ AnnounceQueued(op) \/ StartCommand(op) \/ Enter(op)
  <2>1. Calm(op)
    BY <1>1, <1>4, <1>10
       DEF StartTurn, AnnounceQueued, StartCommand, Enter, Step, Calm, Silent, Finally, control
  <2>2. Publish(op, "created") \/ Publish(op, "queued") \/ Publish(op, "started")
    BY <1>10 DEF StartTurn, AnnounceQueued, StartCommand, Enter
  <2> QED BY <1>8, <2>1, <2>2 DEF Events, TerminalEvents
<1>11. CASE AnnounceCancel(op)
  BY <1>4, <1>8, <1>11 DEF AnnounceCancel, Calm, task, Events, TerminalEvents
<1>12. CASE Launch(op) \/ Approach(op) \/ TakeLock(op) \/ EnterCancelled(op) \/ Prepare(op)
            \/ BuildAgent(op) \/ BeginRun(op) \/ Retitle(op) \/ Leave(op)
  <2>1. Calm(op)
    BY <1>1, <1>4, <1>12
       DEF Launch, Approach, TakeLock, EnterCancelled, Prepare, BuildAgent, BeginRun, Retitle,
           Leave, Step, Calm, Silent, Finally, control
  <2> QED BY <1>7, <1>12, <2>1
          DEF Launch, Approach, TakeLock, EnterCancelled, Prepare, BuildAgent, BeginRun, Retitle,
              Leave, stream
<1>13. CASE WriteCancelEnd(op) \/ FailReported(op) \/ HandlerFails(op) \/ Close(op) \/ Finish(op)
  <2>1. op \in Turns
    BY <1>2, <1>13
       DEF WriteCancelEnd, FailReported, HandlerFails, Close, Finish, Step, CommandStages
  <2>2. Calm(op)
    BY <1>1, <1>4, <1>13, <2>1
       DEF WriteCancelEnd, FailReported, HandlerFails, Close, Finish, ToFinally, Step, Calm,
           Silent, Finally
  <2> QED BY <1>7, <1>13, <2>2
          DEF WriteCancelEnd, FailReported, HandlerFails, Close, Finish, stream
<1>14. CASE InterruptReady(op) \/ InterruptBody(op) \/ InterruptReported(op)
            \/ InterruptHandler(op) \/ InterruptFinally(op)
  <2>1. op \in Turns
    BY <1>2, <1>14
       DEF InterruptReady, InterruptBody, InterruptReported, InterruptHandler, InterruptFinally
  <2>2. Calm(op)
    BY ZenonT(60), <1>1, <1>4, <1>14, <2>1
       DEF InterruptReady, InterruptBody, InterruptReported, InterruptHandler, InterruptFinally,
           ToFinally, Calm, Silent, Finally, Handler
  <2> QED BY <1>7, <1>14, <2>2
          DEF InterruptReady, InterruptBody, InterruptReported, InterruptHandler,
              InterruptFinally, Withdraw, stream
<1>15. CASE \/ \E reason \in {"aborted", "stop", "error"} : EndRun(op, reason)
            \/ Fail(op) \/ RunEndFails(op)
            \/ CommandReported(op) \/ CommandClose(op) \/ CommandUnbuilt(op)
  <2>1. Calm(op)
    BY <1>1, <1>4, <1>15
       DEF EndRun, Fail, RunEndFails, CommandReported, CommandClose, CommandUnbuilt, Step,
           Calm, Silent, Finally
  <2> QED BY <1>7, <1>15, <2>1
          DEF EndRun, Fail, RunEndFails, CommandReported, CommandClose, CommandUnbuilt, stream
<1>16. CASE DeliverCancel(op) \/ ClaimCancel(op) \/ RepeatCancel(op) \/ AbandonCancel(op)
  <2>1. Calm(op)
    BY <1>1, <1>4, <1>16
       DEF DeliverCancel, ClaimCancel, RepeatCancel, AbandonCancel, Calm, task, Terminal,
           TerminalStatuses, Finally
  <2> QED BY <1>7, <1>16, <2>1
          DEF DeliverCancel, ClaimCancel, RepeatCancel, AbandonCancel, Withdraw, stream
<1>17. CASE AbandonStart(op) \/ AbandonCommand(op)
  <2>1. Calm(op)
    BY <1>1, <1>4, <1>17 DEF AbandonStart, AbandonCommand, Calm, Silent, Finally
  <2> QED BY <1>7, <1>17, <2>1 DEF AbandonStart, AbandonCommand, Withdraw, stream
<1>18. CASE \E result \in {"completed", "failed"} : CommandResult(op, result)
  <2>1. PICK result \in {"completed", "failed"} : CommandResult(op, result)
    BY <1>18
  <2>2. TerminalsOf(op) = {}
    BY <1>3, <2>1 DEF CommandResult, Step, NewsOf, Silent
  <2>3. /\ status'[op] = result /\ pc'[op] = "report" /\ ending'[op] # "announce"
        /\ Publish(op, result)
    BY <1>1, <1>4, <2>1 DEF CommandResult, Step, Finally
  <2> QED BY <1>9, <2>2, <2>3 DEF Silent, TerminalEvents
<1>19. CASE WriteRunEnd(op)
  <2>1. op \in Turns /\ pc[op] = "runEnd" /\ status'[op] = status[op]
        /\ status[op] \in TerminalEvents
    BY <1>2, <1>4, <1>19
       DEF WriteRunEnd, CommandStages, EndStages, Terminal, TerminalEvents, TerminalStatuses
  <2>2. CASE status[op] = "cancelled"
    <3>1. Calm(op)
      BY <1>1, <1>4, <1>19, <2>1, <2>2 DEF WriteRunEnd, Calm, Silent, Finally
    <3> QED BY <1>7, <1>19, <2>2, <3>1 DEF WriteRunEnd, stream
  <2>3. CASE status[op] # "cancelled"
    <3>1. pc'[op] = "report" /\ ending'[op] # "announce" /\ Publish(op, status[op])
      BY <1>1, <1>4, <1>19, <2>1, <2>3 DEF WriteRunEnd, Finally
    <3>2. TerminalsOf(op) = {}
      BY <1>3, <2>1 DEF NewsOf, Silent
    <3> QED BY <1>9, <2>1, <3>1, <3>2 DEF Silent
  <2> QED BY <2>2, <2>3
<1>20. CASE WriteFailEnd(op)
  <2>1. op \in Turns /\ pc[op] = "failEnd" /\ status'[op] = "failed"
    BY <1>2, <1>4, <1>20 DEF WriteFailEnd, Step, CommandStages
  <2>2. pc'[op] = "failReport" /\ ending'[op] # "announce" /\ Publish(op, "failed")
    BY <1>1, <1>4, <1>20, <2>1 DEF WriteFailEnd, Step, Finally
  <2>3. TerminalsOf(op) = {}
    BY <1>3, <2>1 DEF NewsOf, Silent
  <2> QED BY <1>9, <2>1, <2>2, <2>3 DEF Silent, TerminalEvents
<1>21. CASE Settle(op)
  <2>1. pc[op] = "settle" /\ status'[op] = status[op] /\ ending'[op] = ending[op]
    BY <1>21 DEF Settle
  <2>2. CASE ending[op] = "announce"
    <3>1. pc'[op] = "farewell" /\ Publish(op, "cancelled")
      BY <1>1, <1>21, <2>2 DEF Settle
    <3>2. TerminalsOf(op) = {} /\ status'[op] = "cancelled"
      BY <1>3, <2>1, <2>2 DEF NewsOf
    <3> QED BY <1>9, <3>1, <3>2 DEF Silent, TerminalEvents
  <2>3. CASE ending[op] # "announce"
    <3>1. pc'[op] \in {"done", "gone"}
      BY <1>1, <1>21, <2>3 DEF Settle
    <3>2. Calm(op)
      BY <2>1, <2>3, <3>1 DEF Calm, Silent
    <3> QED BY <1>7, <1>21, <2>3, <3>2 DEF Settle, stream
  <2> QED BY <2>2, <2>3
<1>22. CASE Escape(op)
  <2>1. /\ pc[op] = "run" /\ op \in Turns /\ UNCHANGED <<status, pc, ending, published>>
    BY <1>22 DEF Escape, Absorb, Deafen, stream, task
  <2>2. Calm(op)
    BY <1>3, <1>4, <2>1 DEF Calm, Silent, NewsOf
  <2> QED BY <1>7, <2>1, <2>2
<1> QED
  BY <1>10, <1>11, <1>12, <1>13, <1>14, <1>15, <1>16, <1>17, <1>18, <1>19, <1>20, <1>21,
     <1>22
     DEF Advance, Outcome, Escape, CancelStep, Client

-----------------------------------------------------------------------------
\* Where turns end: in a terminal status, or cancelled before their first step.
EndedInv ==
    \A op \in Turns :
        /\ pc[op] \in EndStages \cup Finally \cup {"done"} => Terminal(op)
        /\ pc[op] = "gone" /\ ~Disconnects => Terminal(op) \/ requested[op]

LEMMA EndedStep ==
    ASSUME Typed, EndingInv, EndedInv, NEW op \in Ops,
           Advance(op) \/ Outcome(op) \/ Escape(op) \/ CancelStep(op) \/ Client(op)
    PROVE  EndedInv'
<1>1. /\ status \in [Ops -> Statuses \cup {"none"}] /\ requested \in [Ops -> BOOLEAN]
      /\ pc \in [Ops -> Stages] /\ interrupted \in [Ops -> BOOLEAN] /\ Turns \subseteq Ops
  BY DEF Typed, TypeOK, Ops
<1>2. SUFFICES ASSUME op \in Turns
               PROVE  /\ pc'[op] \in EndStages \cup Finally \cup {"done"}
                           => status'[op] \in TerminalStatuses
                      /\ pc'[op] = "gone" /\ ~Disconnects
                           => status'[op] \in TerminalStatuses \/ requested'[op]
  BY <1>1, OthersStep DEF OthersKept, EndedInv, Terminal
<1>3. /\ op \notin Commands
      /\ interrupted[op] => requested[op]
      /\ pc[op] \in EndStages \cup Finally \cup {"done"} => status[op] \in TerminalStatuses
      /\ pc[op] = "gone" /\ ~Disconnects => status[op] \in TerminalStatuses \/ requested[op]
  BY <1>2, OpsAssumption DEF EndingInv, EndedInv, Terminal
<1> USE <1>1, <1>2, <1>3
    DEF EndStages, Handler, Finally, TerminalStatuses, InFlightStatuses, Statuses, Step, ToFinally,
        control, task
<1>4. CASE StartTurn(op) \/ AnnounceQueued(op) \/ Launch(op) \/ Approach(op) \/ TakeLock(op)
           \/ Enter(op) \/ EnterCancelled(op) \/ Prepare(op) \/ BuildAgent(op) \/ BeginRun(op)
  BY ZenonT(60), <1>4
     DEF StartTurn, AnnounceQueued, Launch, Approach, TakeLock, Enter, EnterCancelled, Prepare,
         BuildAgent, BeginRun
<1>5. CASE WriteRunEnd(op) \/ Retitle(op) \/ Leave(op) \/ RunEndFails(op) \/ Fail(op)
           \/ \E reason \in {"aborted", "stop", "error"} : EndRun(op, reason)
  BY <1>5 DEF WriteRunEnd, Retitle, Leave, RunEndFails, Fail, EndRun
<1>6. CASE WriteCancelEnd(op) \/ WriteFailEnd(op) \/ FailReported(op) \/ HandlerFails(op)
           \/ Close(op) \/ Settle(op) \/ Finish(op)
  BY <1>6
     DEF WriteCancelEnd, WriteFailEnd, FailReported, HandlerFails, Close, Settle, Finish
<1>7. CASE InterruptReady(op) \/ InterruptBody(op) \/ InterruptReported(op)
           \/ InterruptHandler(op) \/ InterruptFinally(op)
  BY <1>7
     DEF InterruptReady, InterruptBody, InterruptReported, InterruptHandler, InterruptFinally
<1>8. CASE AnnounceCancel(op) \/ DeliverCancel(op) \/ ClaimCancel(op) \/ RepeatCancel(op)
           \/ AbandonCancel(op) \/ AbandonStart(op)
  BY <1>8
     DEF AnnounceCancel, DeliverCancel, ClaimCancel, RepeatCancel, AbandonCancel, AbandonStart
<1>9. CASE \/ CommandReported(op) \/ CommandClose(op) \/ CommandUnbuilt(op) \/ StartCommand(op)
           \/ AbandonCommand(op)
           \/ \E result \in {"completed", "failed"} : CommandResult(op, result)
  BY <1>9
     DEF CommandReported, CommandClose, CommandUnbuilt, StartCommand, AbandonCommand, CommandResult
<1>10. CASE Escape(op)
  BY <1>10 DEF Escape, Absorb, Deafen
<1> QED
  BY <1>4, <1>5, <1>6, <1>7, <1>8, <1>9, <1>10
     DEF Advance, Outcome, Escape, CancelStep, Client

-----------------------------------------------------------------------------
\* The store queue, as what each operation still has in it.

\* The events of an operation that the store will project.
WaitingIn(queue, op) ==
    {event \in Events :
        \E i \in 1..Len(queue) : queue[i].live /\ queue[i].op = op /\ queue[i].event = event}

Waiting(op) == WaitingIn(storeQueue, op)

Item == [op : Ops, event : Events, live : BOOLEAN]

\* One more, one less.
LEMMA WaitingAppended ==
    ASSUME NEW S, NEW queue \in Seq(S), NEW o, NEW x, x.live, x.event \in Events
    PROVE  WaitingIn(Append(queue, x), o)
             = IF o = x.op THEN WaitingIn(queue, o) \cup {x.event} ELSE WaitingIn(queue, o)
<1> DEFINE longer == Append(queue, x)
<1>1. /\ Len(longer) = Len(queue) + 1 /\ Len(queue) \in Nat
      /\ longer[Len(queue) + 1] = x
      /\ \A i \in 1..Len(queue) : longer[i] = queue[i]
  OBVIOUS
<1>2. \A i : i \in 1..Len(longer) <=> i \in 1..Len(queue) \/ i = Len(queue) + 1
  BY <1>1
<1> HIDE DEF longer
<1>3. WaitingIn(longer, o) = IF o = x.op THEN WaitingIn(queue, o) \cup {x.event}
                             ELSE WaitingIn(queue, o)
  BY <1>1, <1>2, Zenon DEF WaitingIn
<1> QED BY <1>3 DEF longer

LEMMA WaitingTail ==
    ASSUME NEW S, NEW queue \in Seq(S), queue # <<>>, NEW o
    PROVE  /\ WaitingIn(Tail(queue), o) \subseteq WaitingIn(queue, o)
           /\ WaitingIn(queue, o) \subseteq
                IF Head(queue).live /\ Head(queue).op = o
                THEN WaitingIn(Tail(queue), o) \cup {Head(queue).event}
                ELSE WaitingIn(Tail(queue), o)
           /\ Head(queue).live /\ Head(queue).op = o /\ Head(queue).event \in Events
                => Head(queue).event \in WaitingIn(queue, o)
<1>1. /\ Len(Tail(queue)) = Len(queue) - 1 /\ Len(queue) \in Nat \ {0}
      /\ Head(queue) = queue[1]
      /\ \A i \in 1..Len(Tail(queue)) : Tail(queue)[i] = queue[i + 1]
  OBVIOUS
<1>2. /\ \A i \in 1..Len(Tail(queue)) : i + 1 \in 1..Len(queue)
      /\ \A i \in 1..Len(queue) : i = 1 \/ (i - 1 \in 1..Len(Tail(queue)) /\ (i - 1) + 1 = i)
      /\ 1 \in 1..Len(queue)
  BY <1>1
<1> DEFINE rest == Tail(queue)
<1>3. WaitingIn(rest, o) \subseteq WaitingIn(queue, o)
  BY <1>1, <1>2, Zenon DEF WaitingIn
<1>4. ASSUME NEW event \in WaitingIn(queue, o)
      PROVE  event \in WaitingIn(rest, o)
             \/ (Head(queue).live /\ Head(queue).op = o /\ event = Head(queue).event)
  <2>1. PICK i \in 1..Len(queue) :
            queue[i].live /\ queue[i].op = o /\ queue[i].event = event
    BY <1>4 DEF WaitingIn
  <2>2. CASE i = 1
    BY <1>1, <2>1, <2>2
  <2>3. CASE i - 1 \in 1..Len(rest) /\ (i - 1) + 1 = i
    <3>1. rest[i - 1] = queue[i] /\ event \in Events
      BY <1>1, <1>4, <2>3 DEF WaitingIn
    <3> QED BY <2>1, <2>3, <3>1, Zenon DEF WaitingIn
  <2> QED BY <1>2, <2>1, <2>2, <2>3
<1>5. Head(queue).live /\ Head(queue).op = o /\ Head(queue).event \in Events
        => Head(queue).event \in WaitingIn(queue, o)
  BY <1>1, <1>2, Zenon DEF WaitingIn
<1> QED BY <1>3, <1>4, <1>5

\* What a step of one operation does to the stream.
StreamMoves(op) ==
    \/ UNCHANGED stream
    \/ \E event \in Events : Publish(op, event)
    \/ \E cancelling \in BOOLEAN : Withdraw(op, cancelling)

LEMMA StreamMoved ==
    ASSUME Typed, NEW op \in Ops,
           Advance(op) \/ Outcome(op) \/ Escape(op) \/ CancelStep(op) \/ Client(op)
    PROVE  StreamMoves(op)
<1>1. pc[op] = "runEnd" => status[op] \in Events
  BY DEF Typed, EndingsKnown, Events, TerminalEvents, TerminalStatuses
<1>2. UNCHANGED stream => StreamMoves(op)
  BY DEF StreamMoves
<1>3. \A event \in Events : Publish(op, event) => StreamMoves(op)
  BY DEF StreamMoves
<1>4. \A cancelling \in BOOLEAN : Withdraw(op, cancelling) => StreamMoves(op)
  BY DEF StreamMoves
<1>5. CASE StartTurn(op) \/ StartCommand(op) \/ AnnounceQueued(op) \/ Enter(op)
           \/ AnnounceCancel(op) \/ WriteFailEnd(op)
           \/ \E result \in {"completed", "failed"} : CommandResult(op, result)
  BY <1>3, <1>5
     DEF StartTurn, StartCommand, AnnounceQueued, Enter, AnnounceCancel, WriteFailEnd,
         CommandResult, Events, TerminalEvents
<1>6. CASE WriteRunEnd(op) \/ Settle(op)
  BY <1>1, <1>2, <1>3, <1>6 DEF WriteRunEnd, Settle, Events, TerminalEvents
<1>7. CASE Launch(op) \/ Approach(op) \/ TakeLock(op) \/ EnterCancelled(op) \/ Prepare(op)
           \/ BuildAgent(op) \/ BeginRun(op) \/ Retitle(op) \/ Leave(op)
           \/ \E reason \in {"aborted", "stop", "error"} : EndRun(op, reason)
  BY <1>2, <1>7
     DEF Launch, Approach, TakeLock, EnterCancelled, Prepare, BuildAgent, BeginRun, Retitle,
         Leave, EndRun
<1>8. CASE WriteCancelEnd(op) \/ FailReported(op) \/ Fail(op) \/ RunEndFails(op)
           \/ HandlerFails(op) \/ Close(op) \/ Finish(op) \/ InterruptReady(op)
  BY <1>2, <1>8
     DEF WriteCancelEnd, FailReported, Fail, RunEndFails, HandlerFails, Close, Finish,
         InterruptReady
<1>9. CASE CommandReported(op) \/ CommandClose(op) \/ CommandUnbuilt(op)
           \/ DeliverCancel(op) \/ ClaimCancel(op) \/ RepeatCancel(op)
  BY <1>2, <1>9
     DEF CommandReported, CommandClose, CommandUnbuilt, DeliverCancel, ClaimCancel, RepeatCancel
<1>10. CASE InterruptBody(op) \/ InterruptReported(op) \/ InterruptHandler(op)
            \/ InterruptFinally(op) \/ AbandonStart(op) \/ AbandonCommand(op)
            \/ AbandonCancel(op)
  BY <1>4, <1>10
     DEF InterruptBody, InterruptReported, InterruptHandler, InterruptFinally, AbandonStart,
         AbandonCommand, AbandonCancel
<1>11. CASE Escape(op)
  BY <1>2, <1>11 DEF Escape, Absorb, Deafen, task
<1> QED
  BY <1>5, <1>6, <1>7, <1>8, <1>9, <1>10, <1>11
     DEF Advance, Outcome, Escape, CancelStep, Client

LEMMA WaitingPublished ==
    ASSUME Typed, server = "serving", NEW op \in Ops, NEW event \in Events, Publish(op, event)
    PROVE  /\ Waiting(op)' = Waiting(op) \cup {event} /\ projected' = projected
           /\ \A o \in Ops \ {op} : Waiting(o)' = Waiting(o)
<1> DEFINE item == [op |-> op, event |-> event, live |-> TRUE]
<1>1. /\ storeQueue \in Seq(Item) /\ projected' = projected
      /\ storeQueue' = Append(storeQueue, item)
  BY DEF Typed, TypeOK, Item, Publish
<1>2. item.live /\ item.op = op /\ item.event = event
  OBVIOUS
<1> HIDE DEF item
<1>3. ASSUME NEW o
      PROVE  Waiting(o)' = IF o = op THEN Waiting(o) \cup {event} ELSE Waiting(o)
  <2>1. WaitingIn(Append(storeQueue, item), o)
          = IF o = op THEN WaitingIn(storeQueue, o) \cup {event} ELSE WaitingIn(storeQueue, o)
    BY <1>1, <1>2, WaitingAppended
  <2> QED BY <1>1, <2>1, Zenon DEF Waiting
<1> QED BY <1>1, <1>3

LEMMA WaitingWithdrawn ==
    ASSUME Typed, NEW op \in Ops, NEW cancelling \in BOOLEAN, Withdraw(op, cancelling)
    PROVE  /\ Waiting(op)' \subseteq Waiting(op) /\ projected' = projected
           /\ \A o \in Ops \ {op} : Waiting(o)' = Waiting(o)
<1>1. storeQueue \in Seq(Item) /\ projected' = projected
  BY DEF Typed, TypeOK, Item, Withdraw
<1>2. Len(storeQueue) \in Nat /\ \A i \in 1..Len(storeQueue) : storeQueue[i] \in Item
  <2> HIDE DEF Item
  <2> QED BY <1>1, ElementsTyped
<1> DEFINE Drop(x) == [x EXCEPT !.live = @ /\ ~Mine(op, x, cancelling)]
<1>3. /\ Len(storeQueue') = Len(storeQueue)
      /\ \A i \in 1..Len(storeQueue) : storeQueue'[i] = Drop(storeQueue[i])
  <2>1. storeQueue' = [i \in 1..Len(storeQueue) |-> Drop(storeQueue[i])]
    BY DEF Withdraw
  <2> HIDE DEF Drop
  <2> QED BY <1>2, <2>1
<1>4. ASSUME NEW x \in Item
      PROVE  /\ Drop(x).op = x.op /\ Drop(x).event = x.event
             /\ Drop(x).live => x.live
             /\ x.op # op /\ x.live => Drop(x).live
  BY DEF Item, Mine
<1> HIDE DEF Drop
<1>5. \A i \in 1..Len(storeQueue) :
        /\ storeQueue'[i].op = storeQueue[i].op /\ storeQueue'[i].event = storeQueue[i].event
        /\ storeQueue'[i].live => storeQueue[i].live
        /\ storeQueue[i].op # op /\ storeQueue[i].live => storeQueue'[i].live
  <2> TAKE i \in 1..Len(storeQueue)
  <2>1. storeQueue[i] \in Item /\ storeQueue'[i] = Drop(storeQueue[i])
    BY <1>2, <1>3
  <2> QED BY <1>4, <2>1
<1> QED BY <1>1, <1>3, <1>5, Zenon DEF Waiting, WaitingIn

LEMMA WaitingStored ==
    ASSUME Typed, StoreStep, NEW o \in Ops
    PROVE  \/ /\ Waiting(o)' = Waiting(o) /\ projected'[o] = projected[o]
           \/ \E event \in Waiting(o) :
                /\ Waiting(o)' \subseteq Waiting(o)
                /\ projected'[o] = Projection(event, projected[o])
<1> DEFINE item == Head(storeQueue)
<1>1. storeQueue \in Seq(Item) /\ storeQueue # <<>> /\ storeQueue' = Tail(storeQueue)
  BY DEF Typed, TypeOK, Item, StoreStep
<1>2. item \in Item
  <2> HIDE DEF Item
  <2> QED BY <1>1, HeadTailTyped
<1>3. item.event \in Events /\ item.op \in Ops
  <2> HIDE DEF item
  <2> QED BY <1>2 DEF Item
<1>4. projected \in [Ops -> Statuses \cup {"none"}]
      /\ projected' = IF item.live
                      THEN [projected EXCEPT ![item.op] = Projection(item.event, @)]
                      ELSE projected
  BY DEF Typed, TypeOK, StoreStep
<1> HIDE DEF item
<1>5. /\ Waiting(o)' \subseteq Waiting(o)
      /\ Waiting(o) \subseteq IF item.live /\ item.op = o
                              THEN Waiting(o)' \cup {item.event} ELSE Waiting(o)'
      /\ item.live /\ item.op = o => item.event \in Waiting(o)
  BY <1>1, <1>3, WaitingTail DEF Waiting, item
<1>6. CASE item.live /\ item.op = o
  <2>1. projected'[o] = Projection(item.event, projected[o])
    BY <1>3, <1>4, <1>6
  <2> QED BY <1>5, <1>6, <2>1
<1>7. CASE ~(item.live /\ item.op = o)
  <2>1. projected'[o] = projected[o]
    BY <1>3, <1>4, <1>7
  <2> QED BY <1>5, <1>7, <2>1
<1> QED BY <1>6, <1>7

\* The emit returned: nothing but an operation.cancelling can be waiting.
LEMMA EmittedDrained ==
    ASSUME Typed, NEW op \in Ops, Emitted(op, FALSE), "cancelling" \notin Waiting(op)
    PROVE  Waiting(op) = {}
<1> SUFFICES ASSUME NEW event \in Waiting(op) PROVE FALSE
  OBVIOUS
<1>1. PICK i \in 1..Len(storeQueue) :
          storeQueue[i].live /\ storeQueue[i].op = op /\ storeQueue[i].event = event
  BY DEF Waiting, WaitingIn
<1>2. ~Mine(op, storeQueue[i], FALSE)
  BY <1>1 DEF Emitted
<1> QED BY <1>1, <1>2 DEF Mine

-----------------------------------------------------------------------------
\* The turns nobody cancels, while the disk does not fail.

\* Stages with no event of the turn in the store, and those that tell its end.
Drained ==
    {"idle", "ready", "lock", "permit", "prepare", "run", "runEnd", "failEnd", "close", "settle",
     "done"}
Telling == {"report", "rename", "failReport", "farewell"}

\* The events of the turn come to the store one at a time, and its run_end is
\* there before its last event, with the same status.
Uncut(op) ==
    /\ "cancelling" \notin Waiting(op) /\ pc[op] # "cancelEnd" /\ ending[op] # "raise"
    /\ pc[op] \in Silent => runEnds[op] = <<>>
    /\ pc[op] \in Telling \cup Finally \cup {"done"} => runEnds[op] = <<status[op]>>
    /\ pc[op] \in Drained => Waiting(op) = {}
    /\ pc[op] \in Telling =>
         /\ Waiting(op) \subseteq {status[op]}
         /\ Waiting(op) = {} => projected[op] = status[op]
    /\ (pc[op] \in {"close", "settle"} /\ ending[op] # "announce") \/ pc[op] = "done"
         => projected[op] = status[op]

UncutInv == \A op \in Turns : ~requested[op] => Uncut(op)

\* The store projects the end of a turn as its status.
LEMMA UncutStored ==
    ASSUME Typed, EndedInv, UncutInv, StoreStep
    PROVE  UncutInv'
<1> SUFFICES ASSUME NEW o \in Turns, ~requested[o] PROVE Uncut(o)'
  BY DEF UncutInv, StoreStep, task
<1>1. o \in Ops /\ Uncut(o) /\ UNCHANGED <<pc, ending, runEnds, status>>
  BY DEF Ops, UncutInv, StoreStep, task
<1>2. CASE Waiting(o)' = Waiting(o) /\ projected'[o] = projected[o]
  BY <1>1, <1>2 DEF Uncut
<1>3. CASE \E event \in Waiting(o) :
              /\ Waiting(o)' \subseteq Waiting(o)
              /\ projected'[o] = Projection(event, projected[o])
  <2>1. PICK event \in Waiting(o) :
            /\ Waiting(o)' \subseteq Waiting(o)
            /\ projected'[o] = Projection(event, projected[o])
    BY <1>3
  <2>2. pc[o] \notin Drained
    BY <1>1, <2>1 DEF Uncut
  <2>3. pc[o] \in Telling => projected'[o] = status[o]
    <3> SUFFICES ASSUME pc[o] \in Telling PROVE projected'[o] = status[o]
      OBVIOUS
    <3>1. event = status[o]
      BY <1>1, <2>1 DEF Uncut
    <3>2. status[o] \in TerminalStatuses
      BY DEF EndedInv, Telling, EndStages, Handler, Finally, Terminal
    <3> QED BY <2>1, <3>1, <3>2 DEF Projection, TerminalEvents, TerminalStatuses
  <2>4. pc[o] \notin {"close", "settle", "done"}
    BY <2>2 DEF Drained
  <2> QED BY <1>1, <2>1, <2>2, <2>3, <2>4 DEF Uncut
<1> QED BY <1>1, <1>2, <1>3, WaitingStored

\* Every step of such a turn keeps to that order.
LEMMA UncutStep ==
    ASSUME ~DiskFaults, Typed, EndingInv, NewsInv, UncutInv, NEW op \in Ops,
           Advance(op) \/ Outcome(op) \/ Escape(op) \/ CancelStep(op) \/ Client(op)
    PROVE  UncutInv'
<1>1. /\ status \in [Ops -> Statuses \cup {"none"}] /\ requested \in [Ops -> BOOLEAN]
      /\ pc \in [Ops -> Stages] /\ ending \in [Ops -> {"return", "announce", "raise"}]
      /\ runEnds \in [Ops -> Seq(TerminalStatuses)] /\ Turns \subseteq Ops
  BY DEF Typed, TypeOK, Ops
<1>2. ASSUME UNCHANGED stream
      PROVE  \A o \in Ops : Waiting(o)' = Waiting(o) /\ projected'[o] = projected[o]
  BY <1>2 DEF stream, Waiting
<1>3. ASSUME NEW o \in Turns, o # op, ~requested'[o] PROVE Uncut(o)'
  <2>1. /\ status'[o] = status[o] /\ requested'[o] = requested[o] /\ pc'[o] = pc[o]
        /\ ending'[o] = ending[o] /\ runEnds'[o] = runEnds[o]
    BY <1>1, <1>3, OthersStep DEF OthersKept
  <2>2. Waiting(o)' = Waiting(o) /\ projected'[o] = projected[o]
    <3>1. StreamMoves(op) /\ server = "serving"
      BY StreamMoved DEF EndingInv
    <3> QED BY <1>1, <1>2, <1>3, <3>1, WaitingPublished, WaitingWithdrawn DEF StreamMoves
  <2> QED BY <1>3, <2>1, <2>2 DEF UncutInv, Uncut
<1>4. SUFFICES ASSUME op \in Turns, ~requested'[op] PROVE Uncut(op)'
  BY <1>3 DEF UncutInv
<1>5. /\ ~requested[op] /\ Uncut(op) /\ ~interrupted[op] /\ canceller[op] = "none"
      /\ op \notin Commands /\ server = "serving" /\ NewsOf(op)
  <2>1. ~requested[op]
    BY <1>1, <1>4, OthersStep DEF OthersKept
  <2>2. canceller[op] = "none" /\ ~interrupted[op]
    BY <1>1, <2>1 DEF EndingInv, Typed, TypeOK
  <2> QED BY <1>1, <1>4, <2>1, <2>2, OpsAssumption DEF UncutInv, EndingInv, NewsInv
<1>6. ASSUME NEW event \in Events, Publish(op, event)
      PROVE  Waiting(op)' = Waiting(op) \cup {event} /\ projected'[op] = projected[op]
  BY <1>5, <1>6, WaitingPublished
<1>7. Emitted(op, FALSE) => Waiting(op) = {}
  BY <1>5, EmittedDrained DEF Uncut
<1> USE <1>1, <1>4, <1>5
<1>8. CASE StartTurn(op) \/ AnnounceQueued(op) \/ Enter(op)
  <2>1. PICK event \in {"created", "queued", "started"} : Publish(op, event)
    BY <1>8 DEF StartTurn, AnnounceQueued, Enter
  <2>2. Waiting(op)' = Waiting(op) \cup {event}
    BY <1>6, <2>1 DEF Events
  <2> QED BY <1>8, <2>2
          DEF StartTurn, AnnounceQueued, Enter, Step, Uncut, Silent, Telling, Drained, Finally,
              control
<1>9. CASE Launch(op) \/ Approach(op) \/ TakeLock(op) \/ Prepare(op) \/ BuildAgent(op)
           \/ BeginRun(op) \/ Fail(op)
           \/ \E reason \in {"aborted", "stop", "error"} : EndRun(op, reason)
  <2>1. Waiting(op)' = Waiting(op)
    BY <1>2, <1>9
       DEF Launch, Approach, TakeLock, Prepare, BuildAgent, BeginRun, Fail, EndRun
  <2> QED BY ZenonT(60), <1>7, <1>9, <2>1
          DEF Launch, Approach, TakeLock, Prepare, BuildAgent, BeginRun, Fail, EndRun, Step, Uncut,
              Silent, Telling, Drained, Finally, control
<1>10. CASE Retitle(op) \/ Leave(op) \/ FailReported(op) \/ Close(op) \/ Finish(op)
  <2>1. Waiting(op)' = Waiting(op) /\ projected'[op] = projected[op]
    BY <1>2, <1>10 DEF Retitle, Leave, FailReported, Close, Finish
  <2>2. CASE Retitle(op)
    BY <1>7, <2>1, <2>2 DEF Retitle, Step, Uncut, Silent, Telling, Drained, Finally, control
  <2>3. CASE Leave(op)
    BY <1>7, <2>1, <2>3 DEF Leave, Step, Uncut, Silent, Telling, Drained, Finally, control
  <2>4. CASE FailReported(op)
    BY <1>7, <2>1, <2>4
       DEF FailReported, ToFinally, Step, Uncut, Silent, Telling, Drained, Finally, control
  <2>5. CASE Close(op) \/ Finish(op)
    BY <1>7, <2>1, <2>5
       DEF Close, Finish, ToFinally, Step, Uncut, Silent, Telling, Drained, Finally, control
  <2> QED BY <1>10, <2>2, <2>3, <2>4, <2>5
<1>11. CASE WriteRunEnd(op)
  <2>1. /\ pc[op] = "runEnd" /\ status'[op] = status[op] /\ status[op] \in TerminalStatuses
        /\ runEnds'[op] = Append(runEnds[op], status[op])
    BY <1>11 DEF WriteRunEnd, Typed, EndingsKnown
  <2>2. runEnds'[op] = <<status[op]>> /\ Waiting(op) = {}
    BY <2>1 DEF Uncut, Silent, Drained
  <2>3. CASE status[op] = "cancelled"
    <3>1. Waiting(op)' = {} /\ pc'[op] = "close" /\ ending'[op] = "announce"
      BY <1>2, <1>11, <2>2, <2>3 DEF WriteRunEnd
    <3> QED BY <2>1, <2>2, <3>1 DEF Uncut, Silent, Telling, Drained
  <2>4. CASE status[op] # "cancelled"
    <3>1. Publish(op, status[op]) /\ pc'[op] = "report" /\ ending'[op] = ending[op]
      BY <1>11, <2>4 DEF WriteRunEnd
    <3>2. status[op] \in Events \ {"cancelling"}
      BY <2>1 DEF TerminalStatuses, TerminalEvents, Events
    <3>3. Waiting(op)' = {status[op]}
      BY <1>6, <2>2, <3>1, <3>2
    <3> QED BY <2>1, <2>2, <3>1, <3>2, <3>3 DEF Uncut, Silent, Telling, Drained
  <2> QED BY <2>3, <2>4
<1>12. CASE WriteFailEnd(op)
  <2>1. /\ pc[op] = "failEnd" /\ status'[op] = status[op] /\ status[op] = "failed"
        /\ runEnds'[op] = Append(runEnds[op], "failed") /\ ending'[op] = ending[op]
        /\ pc'[op] = "failReport" /\ Publish(op, "failed")
    BY <1>12 DEF WriteFailEnd, Step, EndingInv
  <2>2. runEnds'[op] = <<"failed">> /\ Waiting(op) = {}
    BY <2>1 DEF Uncut, Silent, Drained
  <2>3. Waiting(op)' = {"failed"}
    BY <1>6, <2>1, <2>2 DEF Events, TerminalEvents
  <2> QED BY <2>1, <2>2, <2>3 DEF Uncut, Silent, Telling, Drained
<1>13. CASE Settle(op)
  <2>1. /\ pc[op] = "settle" /\ status'[op] = status[op] /\ ending'[op] = ending[op]
        /\ runEnds'[op] = runEnds[op] /\ Waiting(op) = {} /\ ending[op] # "raise"
    BY <1>13 DEF Settle, Uncut, Drained
  <2>2. CASE ending[op] = "announce"
    <3>1. pc'[op] = "farewell" /\ Publish(op, "cancelled") /\ status[op] = "cancelled"
      BY <1>13, <2>1, <2>2 DEF Settle, NewsOf
    <3>2. Waiting(op)' = {"cancelled"}
      BY <1>6, <2>1, <3>1 DEF Events, TerminalEvents
    <3> QED BY <2>1, <3>1, <3>2 DEF Uncut, Silent, Telling, Drained, Finally
  <2>3. CASE ending[op] = "return"
    <3>1. pc'[op] = "done" /\ UNCHANGED stream
      BY <1>13, <2>3 DEF Settle
    <3>2. Waiting(op)' = {} /\ projected'[op] = projected[op]
      BY <1>2, <2>1, <3>1
    <3> QED BY <2>1, <2>3, <3>1, <3>2 DEF Uncut, Silent, Telling, Drained, Finally
  <2> QED BY <2>1, <2>2, <2>3
<1>14. CASE AbandonStart(op)
  <2>1. Waiting(op)' \subseteq Waiting(op)
    BY <1>14, WaitingWithdrawn DEF AbandonStart
  <2>2. pc'[op] = "gone" /\ ending'[op] = ending[op]
    BY <1>14 DEF AbandonStart
  <2> QED BY <2>1, <2>2 DEF Uncut, Silent, Telling, Drained, Finally
<1>15. CASE RepeatCancel(op)
  <2>1. Waiting(op)' = Waiting(op) /\ projected'[op] = projected[op] /\ UNCHANGED task
    BY <1>2, <1>15 DEF RepeatCancel
  <2> QED BY <2>1 DEF Uncut, task
<1>16. ~EnterCancelled(op) /\ ~RunEndFails(op) /\ ~HandlerFails(op) /\ ~WriteCancelEnd(op)
  BY DEF EnterCancelled, RunEndFails, HandlerFails, WriteCancelEnd, Uncut
<1>17. /\ ~InterruptReady(op) /\ ~InterruptBody(op) /\ ~InterruptReported(op)
       /\ ~InterruptHandler(op) /\ ~InterruptFinally(op)
  BY DEF InterruptReady, InterruptBody, InterruptReported, InterruptHandler, InterruptFinally
<1>18. /\ ~CommandReported(op) /\ ~CommandClose(op) /\ ~CommandUnbuilt(op) /\ ~StartCommand(op)
       /\ ~AbandonCommand(op) /\ \A result \in {"completed", "failed"} : ~CommandResult(op, result)
  BY DEF CommandReported, CommandClose, CommandUnbuilt, StartCommand, AbandonCommand, CommandResult
<1>19. ~AnnounceCancel(op) /\ ~DeliverCancel(op) /\ ~AbandonCancel(op) /\ ~ClaimCancel(op)
  BY DEF AnnounceCancel, DeliverCancel, AbandonCancel, ClaimCancel
<1>20. CASE Escape(op)
  <2>1. Waiting(op)' = Waiting(op) /\ projected'[op] = projected[op] /\ UNCHANGED task
    BY <1>2, <1>5, <1>20 DEF Escape, Absorb, Deafen
  <2> QED BY <1>5, <2>1 DEF Uncut, task
<1> QED
  BY <1>8, <1>9, <1>10, <1>11, <1>12, <1>13, <1>14, <1>15, <1>16, <1>17, <1>18, <1>19,
     <1>20
     DEF Advance, Outcome, Escape, CancelStep, Client

-----------------------------------------------------------------------------
\* The three together.
EndsInv == EndingInv /\ NewsInv /\ EndedInv /\ (DiskFaults \/ UncutInv)

LEMMA NextEnds ==
    ASSUME ~Shutdowns, Typed, EndsInv, [Next]_vars
    PROVE  EndsInv'
<1>1. EndingInv'
  BY NextEnding DEF EndsInv
<1>2. CASE \E op \in Ops : Advance(op) \/ Outcome(op) \/ Escape(op) \/ CancelStep(op) \/ Client(op)
  <2>1. PICK op \in Ops : Advance(op) \/ Outcome(op) \/ Escape(op) \/ CancelStep(op) \/ Client(op)
    BY <1>2
  <2> QED BY <1>1, <2>1, NewsStep, EndedStep, UncutStep DEF EndsInv
<1>3. CASE StoreStep
  <2>1. UNCHANGED <<task, published>>
    BY <1>3 DEF StoreStep
  <2>2. NewsInv' /\ EndedInv'
    BY <2>1 DEF EndsInv, NewsInv, NewsOf, TerminalsOf, EndedInv, Terminal, task
  <2> QED BY <1>1, <1>3, <2>2, UncutStored DEF EndsInv
<1>4. CASE UNCHANGED vars
  BY <1>1, <1>4
     DEF vars, task, stream, EndsInv, NewsInv, NewsOf, TerminalsOf, EndedInv, Terminal, UncutInv,
         Uncut, Waiting
<1>5. ~AcceptShutdown /\ ~Stop
  BY DEF AcceptShutdown, Stop, EndsInv, EndingInv
<1> QED
  BY <1>2, <1>3, <1>4, <1>5 DEF Next

LEMMA InitEnds == Init => EndsInv
<1> SUFFICES ASSUME Init PROVE EndsInv
  OBVIOUS
<1>1. EndingInv /\ Turns \subseteq Ops
  BY InitEnding DEF Ops
<1>2. \A op \in Ops : TerminalsOf(op) = {} /\ Waiting(op) = {}
  BY DEF Init, TerminalsOf, Waiting, WaitingIn
<1>3. NewsInv
  BY <1>2 DEF Init, NewsInv, NewsOf
<1>4. EndedInv
  BY <1>1 DEF Init, EndedInv, EndStages, Handler, Finally
<1>5. UncutInv
  BY <1>1, <1>2 DEF Init, UncutInv, Uncut, Telling, Drained, Finally
<1> QED BY <1>1, <1>3, <1>4, <1>5 DEF EndsInv

\* One terminal event at the most, and the status is what it says.
LEMMA EndsTold == NewsInv => OneTerminalEvent
BY DEF NewsInv, NewsOf, OneTerminalEvent

\* While the disk does not fail and nothing shuts the Runtime down, an operation
\* announces at most one end, which is its status, through every cancellation,
\* disconnect and failure; and a turn nobody cancelled is done with that status
\* in SQLite and in its one run_end.
THEOREM EventsTellTheEnd == ASSUME ~DiskFaults, ~Shutdowns PROVE Spec => []EventsAgree
<1>1. EndsInv => EventsAgree
  <2> SUFFICES ASSUME EndsInv PROVE EventsAgree
    OBVIOUS
  <2>1. OneTerminalEvent
    BY EndsTold DEF EndsInv
  <2>2. UncancelledTurnsAgree
    BY DEF EndsInv, UncutInv, Uncut, EndedInv, UncancelledTurnsAgree
  <2> QED BY <2>1, <2>2 DEF EventsAgree
<1>2. Typed /\ EndsInv /\ [Next]_vars => EndsInv'
  BY NextEnds
<1> QED
  BY <1>1, <1>2, InitTyped, NextTyped, InitEnds, PTL DEF Spec

\* Turns that queue behind each other, even when the disk fails them: the active
\* one is the one inside, each announces at most one end, and a turn without a
\* task that is still in flight was cancelled, when no connection closes.
THEOREM QueuedTurnsEndOnce == ASSUME ~Disconnects, ~Shutdowns PROVE Spec => []TurnsEndOnce
<1>1. SharingInv /\ EndsInv => TurnsEndOnce
  <2> SUFFICES ASSUME SharingInv, EndsInv PROVE TurnsEndOnce
    OBVIOUS
  <2>1. ActiveIsInside /\ OneTerminalEvent
    BY EndsTold DEF SharingInv, EndsInv
  <2>2. OrphansWereCancelled
    BY DEF EndsInv, EndedInv, OrphansWereCancelled, Over
  <2> QED BY <2>1, <2>2 DEF TurnsEndOnce
<1>2. Typed /\ EndsInv /\ [Next]_vars => EndsInv'
  BY NextEnds
<1> QED
  BY <1>1, <1>2, InitTyped, NextTyped, InitSharing, NextSharing, InitEnds, PTL DEF Spec
=============================================================================
