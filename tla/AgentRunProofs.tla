---------------------------- MODULE AgentRunProofs ----------------------------
(***************************************************************************)
(* Proofs about AgentRun, for any history, any replies and any number of   *)
(* messages, retries and answers: attempts are paired, an abort is         *)
(* followed by one more answer at most, no tool is left at work but by an  *)
(* exception, the messages of a kind keep their order on their way from    *)
(* the queue to the session, and a run that ends of itself has recorded    *)
(* the messages it accepted, but for those that InputsAnswered names.      *)
(*                                                                         *)
(* The invariant says, for every await of the run, which numbers the log   *)
(* of attempts has used, how many answers may still come after an abort,   *)
(* whether a tool may be at work, where each accepted message is, and that *)
(* no step moves one past another of its kind.                             *)
(***************************************************************************)
EXTENDS AgentRun, TLAPS

-----------------------------------------------------------------------------
(* Types.                                                                  *)

CallType == [stage : CallStages, cancelled : BOOLEAN, how : {"none", "ok", "aborted", "skipped"},
             terminate : BOOLEAN, afterAbort : BOOLEAN]
EventType == [event : {"start", "end"}, of : Nat]

InputsTyped ==
    /\ steer \in Seq(Messages("steer", Steers))
    /\ followUp \in Seq(Messages("follow_up", FollowUps))
    /\ pending \in Seq(AllMessages) /\ accepted \in Seq(AllMessages)
    /\ cleared \cup late \subseteq AllMessages

BatchTyped ==
    /\ calls \in Seq(CallType) /\ sequential \in BOOLEAN
    /\ results \in 0 .. Len(calls)
    /\ pc = "tools" => results = 0 /\ Len(calls) > 0
    /\ pc = "results" => results < Len(calls)

AttemptsTyped ==
    /\ attempt \in 0 .. MaxRetries /\ nextAttempt \in Nat /\ lastAttempt \in Nat
    /\ pc \in {"retrying", "backoff"} => attempt < MaxRetries
    /\ replies \in Nat /\ repliesAtAbort \in Nat

Answers == ReplyType \cup {NoAnswer, Aborted, Failure}
KnownAnswers ==
    Replies \cup {NoAnswer, Aborted, Failure} \cup {[r EXCEPT !.stop = "error"] : r \in Replies}

FlagsTyped ==
    /\ pc \in Stages /\ why \in {"before", "overflow", "after"} /\ overflows \in 0 .. 2
    /\ aborted \in BOOLEAN /\ raised \in BOOLEAN /\ more \in BOOLEAN /\ killed \in BOOLEAN
    /\ complete \in BOOLEAN
    /\ answer \in KnownAnswers

Typed == FlagsTyped /\ InputsTyped /\ BatchTyped /\ AttemptsTyped

-----------------------------------------------------------------------------
(* Sequences, answers and records of calls.                                *)

LEMMA AsSequence ==
    ASSUME NEW S, NEW n \in Nat, NEW t \in [1 .. n -> S]
    PROVE  t \in Seq(S) /\ Len(t) = n
OBVIOUS

LEMMA Members ==
    ASSUME NEW S, NEW s \in Seq(S)
    PROVE  Range(s) \subseteq S
BY DEF Range

LEMMA KnownAreAnswers == KnownAnswers \subseteq Answers
BY RunAssumption DEF KnownAnswers, Answers, ReplyType

LEMMA AnswerFields ==
    ASSUME NEW a \in KnownAnswers
    PROVE  /\ a.calls \in Nat /\ a.sequential \in BOOLEAN /\ a.overflow \in BOOLEAN
           /\ a.stop \in {"stop", "length", "toolUse", "error", "aborted", "none"}
<1>1. a \in Answers
  BY KnownAreAnswers
<1>2. CASE a \in ReplyType
  BY <1>2 DEF ReplyType
<1>3. CASE a = NoAnswer
  BY <1>3 DEF NoAnswer
<1>4. CASE a = Aborted
  BY <1>4 DEF NoAnswer, Aborted
<1>5. CASE a = Failure
  BY <1>5 DEF NoAnswer, Failure
<1> QED BY <1>1, <1>2, <1>3, <1>4, <1>5 DEF Answers

LEMMA FailedAnswer ==
    ASSUME NEW a \in KnownAnswers, a.overflow
    PROVE  [a EXCEPT !.stop = "error"] \in KnownAnswers
<1>1. CASE a \in Replies
  BY <1>1 DEF KnownAnswers
<1>2. CASE a \in {NoAnswer, Aborted, Failure}
  BY <1>2 DEF NoAnswer, Aborted, Failure
<1>3. CASE a \in {[r EXCEPT !.stop = "error"] : r \in Replies}
  <2>1. PICK r \in Replies : a = [r EXCEPT !.stop = "error"]
    BY <1>3
  <2>2. r \in ReplyType
    BY RunAssumption
  <2>3. [a EXCEPT !.stop = "error"] = a
    BY <2>1, <2>2 DEF ReplyType
  <2> QED BY <2>3
<1> QED BY <1>1, <1>2, <1>3 DEF KnownAnswers

LEMMA DrainTyped ==
    ASSUME NEW S, NEW queue \in Seq(S)
    PROVE  Taken(queue) \in Seq(S) /\ Left(queue) \in Seq(S)
BY DEF Taken, Left

-----------------------------------------------------------------------------
(* Every step keeps the types.                                             *)

LEMMA FlagsStep == Typed /\ [Next]_vars => FlagsTyped'
<1> SUFFICES ASSUME Typed, [Next]_vars PROVE FlagsTyped'
  OBVIOUS
<1> USE DEF Typed, FlagsTyped, Stages, Hookable, history, inputs, inference, batch, counts, rounds
<1>1. CASE Start \/ Refuse \/ Open \/ Turn \/ Ask \/ AttemptKilled \/ Retry \/ TryAgain \/
  BackoffKilled
  BY ZenonT(60), <1>1
     DEF Start, Refuse, Open, Turn, Ask, AttemptKilled, Retry, TryAgain, BackoffKilled,
         CompactFor, RecordAborted, Returns, KnownAnswers
<1>2. ASSUME NEW r \in Replies, Answer(r) PROVE FlagsTyped'
  BY <1>2 DEF Answer, Returns, KnownAnswers
<1>3. CASE Overflow
  BY <1>3 DEF Overflow, Recoverable, CompactFor
<1>4. CASE Record
  BY <1>4, FailedAnswer, AnswerFields DEF Record, Overflowed
<1>5. CASE Proceed \/ NextCall \/ BatchEnds \/ BatchBreaks \/ RecordResult \/ AgentEnd \/ Settle
  BY ZenonT(60), <1>5
     DEF Proceed, NextCall, BatchEnds, BatchBreaks, RecordResult, AgentEnd, Settle,
         CompactFor
<1>6. CASE TurnEnd \/ Compacted \/ NotCompacted \/ CompactSucceeds \/ CompactFails
  BY ZenonT(60), <1>6
     DEF TurnEnd, Compacted, NotCompacted, CompactSucceeds, CompactFails, FollowUpOrEnd,
         Resumes, RecordAborted, MoreTools, KnownAnswers
<1>7. ASSUME NEW k \in DOMAIN calls, CallStep(k) PROVE FlagsTyped'
  BY <1>7 DEF CallStep
<1>8. CASE (\E m \in Messages("steer", Steers) : Steer(m)) \/
  (\E m \in Messages("follow_up", FollowUps) : FollowUp(m))
  BY <1>8 DEF Steer, FollowUp
<1>9. CASE Abort \/ Interrupt \/ Break \/ Over \/ UNCHANGED vars
  BY <1>9 DEF Abort, Interrupt, Break, Over, vars
<1> QED
  BY <1>1, <1>2, <1>3, <1>4, <1>5, <1>6, <1>7, <1>8, <1>9 DEF Next, RunStep

LEMMA InputsStep == Typed /\ [Next]_vars => InputsTyped'
<1> SUFFICES ASSUME Typed, [Next]_vars PROVE InputsTyped'
  OBVIOUS
<1> USE DEF Typed, InputsTyped, inputs
<1> DEFINE S == Messages("steer", Steers)
           F == Messages("follow_up", FollowUps)
<1>0. /\ S \subseteq AllMessages /\ F \subseteq AllMessages
      /\ \A s : s \in Seq(S) => s \in Seq(AllMessages)
      /\ \A s : s \in Seq(F) => s \in Seq(AllMessages)
  BY DEF AllMessages
<1>a. Taken(steer) \in Seq(S) /\ Left(steer) \in Seq(S)
  BY DrainTyped
<1>b. Taken(followUp) \in Seq(F) /\ Left(followUp) \in Seq(F)
  BY DrainTyped
<1>c. DrainSteer => InputsTyped'
  BY <1>0, <1>a DEF DrainSteer
<1>d. DrainFollowUp => InputsTyped'
  BY <1>0, <1>b DEF DrainFollowUp
<1>1. CASE UNCHANGED inputs
  BY <1>1
<1>2. CASE Open \/ TurnEnd \/ Compacted
  BY <1>2, <1>1, <1>c, <1>d DEF Open, TurnEnd, Compacted, FollowUpOrEnd
<1>3. CASE Turn \/ Settle
  <2>1. <<>> \in Seq(S) /\ <<>> \in Seq(F) /\ <<>> \in Seq(AllMessages)
    OBVIOUS
  <2>2. CASE Turn
    BY <2>1, <2>2 DEF Turn
  <2>3. CASE Settle
    BY <2>1, <2>3 DEF Settle
  <2> QED BY <1>3, <2>2, <2>3
<1>4. ASSUME NEW m \in S, Steer(m) PROVE InputsTyped'
  BY <1>0, <1>4 DEF Steer, Accept
<1>5. ASSUME NEW m \in F, FollowUp(m) PROVE InputsTyped'
  BY <1>0, <1>5 DEF FollowUp, Accept
<1>6. CASE Abort
  <2>1. steer \o followUp \in Seq(AllMessages)
    BY <1>0
  <2>2. Range(steer \o followUp) \subseteq AllMessages
    BY <2>1, Members
  <2>3. <<>> \in Seq(S) /\ <<>> \in Seq(F)
    OBVIOUS
  <2> QED BY <1>6, <2>2, <2>3 DEF Abort
<1>7. CASE Start \/ Refuse \/ Ask \/ AttemptKilled \/ Retry \/ TryAgain \/ BackoffKilled
  BY <1>7, <1>1 DEF Start, Refuse, Ask, AttemptKilled, Retry, TryAgain, BackoffKilled
<1>8. CASE Overflow \/ Record \/ Proceed \/ NextCall \/ BatchEnds \/ BatchBreaks \/
  RecordResult \/ AgentEnd
  BY <1>8, <1>1 DEF Overflow, Record, Proceed, NextCall, BatchEnds, BatchBreaks, RecordResult,
    AgentEnd
<1>9. CASE NotCompacted \/ CompactSucceeds \/ CompactFails \/ Interrupt \/ Break \/ Over \/
  UNCHANGED vars
  BY <1>9, <1>1 DEF NotCompacted, CompactSucceeds, CompactFails, Interrupt, Break, Over, vars
<1>10. CASE (\E r \in Replies : Answer(r)) \/ (\E k \in DOMAIN calls : CallStep(k))
  BY <1>10, <1>1 DEF Answer, CallStep
<1> QED
  BY <1>2, <1>3, <1>4, <1>5, <1>6, <1>7, <1>8, <1>9, <1>10 DEF Next, RunStep

LEMMA AttemptsStep == Typed /\ [Next]_vars => AttemptsTyped'
<1> SUFFICES ASSUME Typed, [Next]_vars PROVE AttemptsTyped'
  OBVIOUS
<1> USE RunAssumption DEF Typed, AttemptsTyped, history, inference, counts
<1>1. CASE Start \/ Refuse \/ Open \/ Turn \/ Ask \/ AttemptKilled \/ Retry \/ TryAgain \/
  BackoffKilled
  BY SMTT(30), <1>1
     DEF Start, Refuse, Open, Turn, Ask, AttemptKilled, Retry, TryAgain, BackoffKilled,
         CompactFor, RecordAborted, Returns, Current
<1>2. ASSUME NEW r \in Replies, Answer(r) PROVE AttemptsTyped'
  BY <1>2 DEF Answer, Returns, Current
<1>3. CASE Overflow \/ Record \/ Proceed \/ NextCall \/ BatchEnds \/ BatchBreaks \/
  RecordResult \/ AgentEnd \/ Settle
  BY <1>3 DEF Overflow, Record, Proceed, NextCall, BatchEnds, BatchBreaks, RecordResult,
    AgentEnd, Settle, CompactFor
<1>6. CASE TurnEnd \/ Compacted \/ NotCompacted \/ CompactSucceeds \/ CompactFails
  BY <1>6 DEF TurnEnd, Compacted, NotCompacted, CompactSucceeds, CompactFails, FollowUpOrEnd,
    Resumes, RecordAborted
<1>7. ASSUME NEW k \in DOMAIN calls, CallStep(k) PROVE AttemptsTyped'
  BY <1>7 DEF CallStep
<1>8. CASE (\E m \in Messages("steer", Steers) : Steer(m)) \/
  (\E m \in Messages("follow_up", FollowUps) : FollowUp(m))
  BY <1>8 DEF Steer, FollowUp
<1>9. CASE Abort \/ Interrupt \/ Break \/ Over \/ UNCHANGED vars
  BY <1>9 DEF Abort, Interrupt, Break, Over, vars
<1> QED
  BY <1>1, <1>2, <1>3, <1>6, <1>7, <1>8, <1>9 DEF Next, RunStep

LEMMA CancelledTyped ==
    ASSUME calls \in Seq(CallType)
    PROVE  Cancelled \in Seq(CallType) /\ Len(Cancelled) = Len(calls)
<1>1. Cancelled \in [1 .. Len(calls) -> CallType]
  <2> SUFFICES ASSUME NEW k \in 1 .. Len(calls)
               PROVE  [calls[k] EXCEPT !.cancelled = @ \/ calls[k].stage \in AtWork] \in CallType
    BY DEF Cancelled
  <2>1. calls[k] \in CallType
    OBVIOUS
  <2> QED BY <2>1 DEF CallType
<1> QED BY <1>1, AsSequence

LEMMA NewCallTyped ==
    ASSUME NEW stage \in CallStages, NEW how \in {"none", "ok", "aborted", "skipped"},
      aborted \in BOOLEAN
    PROVE  Call(stage, how) \in CallType
BY DEF Call, CallType

LEMMA BatchStep == Typed /\ [Next]_vars => BatchTyped'
<1> SUFFICES ASSUME Typed, [Next]_vars PROVE BatchTyped'
  OBVIOUS
<1> USE DEF Typed, BatchTyped, batch
<1> DEFINE Stays == UNCHANGED batch /\ (pc' \in {"tools", "results"} => pc' = pc)
<1>0. Stays => BatchTyped'
  OBVIOUS
<1>1. CASE Start \/ Refuse \/ Open \/ Turn \/ Ask \/ AttemptKilled \/ Retry \/ TryAgain \/
  BackoffKilled
  BY <1>1, <1>0 DEF Start, Refuse, Open, Turn, Ask, AttemptKilled, Retry, TryAgain, BackoffKilled,
    CompactFor, RecordAborted, Returns
<1>2. CASE (\E r \in Replies : Answer(r)) \/ Overflow \/ Record \/ AgentEnd \/ Settle
  BY <1>2, <1>0 DEF Answer, Returns, Overflow, Record, AgentEnd, Settle, CompactFor
<1>3. CASE TurnEnd \/ Compacted \/ NotCompacted \/ CompactSucceeds \/ CompactFails
  BY <1>3, <1>0 DEF TurnEnd, Compacted, NotCompacted, CompactSucceeds, CompactFails,
    FollowUpOrEnd, Resumes, RecordAborted
<1>4. CASE (\E m \in Messages("steer", Steers) : Steer(m)) \/
  (\E m \in Messages("follow_up", FollowUps) : FollowUp(m))
  BY <1>4, <1>0 DEF Steer, FollowUp
<1>5. CASE Break \/ Over \/ UNCHANGED vars
  BY <1>5, <1>0 DEF Break, Over, vars
<1>6. CASE Abort \/ Interrupt
  BY <1>6, CancelledTyped DEF Abort, Interrupt
<1>7. CASE BatchEnds \/ BatchBreaks
  BY <1>7 DEF BatchEnds, BatchBreaks
<1>8. CASE RecordResult
  BY <1>8 DEF RecordResult
<1>9. CASE Proceed
  <2>1. answer.calls \in Nat /\ answer.sequential \in BOOLEAN
    BY AnswerFields DEF FlagsTyped
  <2>2. /\ Call("done", "skipped") \in CallType /\ Call("waiting", "none") \in CallType
        /\ Call("starting", "none") \in CallType
    BY NewCallTyped DEF FlagsTyped, CallStages
  <2>3. CASE calls' = <<>> /\ pc' \notin {"tools", "results"}
    BY <2>1, <2>3, <1>9 DEF Proceed
  <2>4. CASE calls' # <<>> \/ pc' \in {"tools", "results"}
    <3>1. answer.calls > 0 /\ calls' \in [1 .. answer.calls -> CallType]
      BY <2>1, <2>2, <2>4, <1>9 DEF Proceed
    <3>2. calls' \in Seq(CallType) /\ Len(calls') = answer.calls
      BY <3>1, <2>1, AsSequence
    <3> QED BY <3>1, <3>2, <2>1, <1>9 DEF Proceed
  <2> QED BY <2>3, <2>4
<1>10. ASSUME NEW k \in DOMAIN calls, CallStep(k) PROVE BatchTyped'
  <2>1. calls \in [1 .. Len(calls) -> CallType] /\ calls[k] \in CallType
    OBVIOUS
  <2>2. PICK next \in CallType : calls' = [calls EXCEPT ![k] = next]
    <3>1. /\ [calls[k] EXCEPT !.stage = "executing"] \in CallType
          /\ [calls[k] EXCEPT !.stage = "done"] \in CallType
          /\ [calls[k] EXCEPT !.stage = "broken"] \in CallType
      BY <2>1 DEF CallType, CallStages
    <3>2. /\ [calls[k] EXCEPT !.stage = "ending", !.how = "ok"] \in CallType
          /\ [calls[k] EXCEPT !.stage = "ending", !.how = "aborted", !.cancelled = FALSE]
                \in CallType
          /\ \A t \in BOOLEAN :
                 [calls[k] EXCEPT !.stage = "ending", !.how = "ok", !.terminate = t] \in CallType
      BY <2>1 DEF CallType, CallStages
    <3> QED BY <1>10, <3>1, <3>2 DEF CallStep
  <2>3. calls' \in [1 .. Len(calls) -> CallType]
    BY <2>1, <2>2
  <2>4. calls' \in Seq(CallType) /\ Len(calls') = Len(calls)
    BY <2>3, AsSequence
  <2> QED BY <2>4, <1>10 DEF CallStep
<1>11. CASE NextCall
  <2>1. Call("done", "skipped") \in CallType /\ Call("starting", "none") \in CallType
    BY NewCallTyped DEF FlagsTyped, CallStages
  <2>2. calls' \in [1 .. Len(calls) -> CallType]
    BY <2>1, <1>11 DEF NextCall
  <2>3. calls' \in Seq(CallType) /\ Len(calls') = Len(calls)
    BY <2>2, AsSequence
  <2> QED BY <2>3, <1>11 DEF NextCall
<1> QED
  BY <1>1, <1>2, <1>3, <1>4, <1>5, <1>6, <1>7, <1>8, <1>9, <1>10, <1>11 DEF Next, RunStep

LEMMA TypedStep == Typed /\ [Next]_vars => Typed'
BY FlagsStep, InputsStep, AttemptsStep, BatchStep DEF Typed

LEMMA TypedInit == Init => Typed
<1> SUFFICES ASSUME Init PROVE Typed
  OBVIOUS
<1>0. NoAnswer \in KnownAnswers /\ "starting" \in Stages
  BY DEF KnownAnswers, Stages, Hookable
<1>1. FlagsTyped
  <2>1. /\ pc = "starting" /\ aborted = FALSE /\ raised = FALSE /\ more = TRUE /\ complete = FALSE
        /\ killed = FALSE /\ answer = NoAnswer /\ overflows = 0 /\ why = "before"
    BY DEF Init
  <2>2. aborted \in BOOLEAN /\ raised \in BOOLEAN /\ more \in BOOLEAN /\ killed \in BOOLEAN
        /\ complete \in BOOLEAN
    BY <2>1, Zenon
  <2> QED BY <1>0, <2>1, <2>2 DEF FlagsTyped
<1>2. InputsTyped
  BY DEF Init, InputsTyped
<1>3. BatchTyped
  <2>1. <<>> \in Seq(CallType) /\ Len(<<>>) = 0
    OBVIOUS
  <2>2. calls = <<>> /\ sequential = FALSE /\ results = 0 /\ pc = "starting"
    BY DEF Init
  <2>3. sequential \in BOOLEAN
    BY <2>2, Zenon
  <2> QED BY <2>1, <2>2, <2>3 DEF BatchTyped
<1>4. AttemptsTyped
  BY RunAssumption DEF Init, AttemptsTyped
<1> QED BY <1>1, <1>2, <1>3, <1>4 DEF Typed

LEMMA TypedIsTypeOK == Typed => TypeOK
<1> SUFFICES ASSUME Typed PROVE TypeOK
  OBVIOUS
<1>1. Range(accepted) \subseteq AllMessages
  BY Members DEF Typed, InputsTyped
<1> QED
  BY <1>1 DEF Typed, FlagsTyped, InputsTyped, BatchTyped, AttemptsTyped, TypeOK, KnownAnswers,
    CallType

-----------------------------------------------------------------------------
(* Attempts are numbered upwards over the whole run.  What the next one    *)
(* will be called is known at every await before which none may be open.   *)

Summing == {"compacting", "compacted", "notCompacted"}

Paired(s) ==
    \A i \in DOMAIN s :
        IF s[i].event = "end"
        THEN i > 1 /\ s[i - 1] = [event |-> "start", of |-> s[i].of]
        ELSE \A j \in 1 .. i - 1 : s[j].of < s[i].of
Below(s, n) == \A i \in DOMAIN s : s[i].of < n
Begun(s, n) == s # <<>> /\ s[Len(s)] = [event |-> "start", of |-> n]

\* Before the first request nothing is logged.  Between requests all numbers are
\* below nextAttempt, within one they are below the number of the attempt, and
\* an answer is the attempt that was begun last.
LogInv ==
    /\ log \in Seq(EventType)
    /\ Paired(log)
    /\ (pc \in {"starting", "refused", "opening"} \/ (pc \in Summing /\ why = "before"))
        => log = <<>>
    /\ pc \in {"turn", "asking", "recorded", "tools", "results", "turnEnd"}
        => Below(log, nextAttempt)
    /\ pc \in Summing /\ why = "overflow"
        => Below(log, nextAttempt) /\ nextAttempt = lastAttempt + 1
    /\ pc = "attempt" => Below(log, Current)
    /\ pc \in {"retrying", "backoff"} => Below(log, Current + 1)
    /\ pc = "answered" =>
        Begun(log, lastAttempt) /\ Below(log, nextAttempt) /\ nextAttempt = lastAttempt + 1

LEMMA AttemptBegins ==
    ASSUME NEW s \in Seq(EventType), NEW n \in Nat, Paired(s), Below(s, n)
    PROVE  /\ s \o Begins(n) \in Seq(EventType)
           /\ Paired(s \o Begins(n)) /\ Below(s \o Begins(n), n + 1) /\ Begun(s \o Begins(n), n)
<1> DEFINE t == Append(s, [event |-> "start", of |-> n])
<1>1. t = s \o Begins(n)
  BY DEF Begins
<1>2. [event |-> "start", of |-> n] \in EventType
  BY DEF EventType
<1>3. t \in Seq(EventType) /\ Len(t) = Len(s) + 1 /\ t[Len(t)] = [event |-> "start", of |-> n]
      /\ \A i \in 1 .. Len(s) : t[i] = s[i] /\ s[i] \in EventType
  BY <1>2
<1> HIDE DEF t
<1>4. Below(t, n + 1)
  <2> SUFFICES ASSUME NEW i \in DOMAIN t PROVE t[i].of < n + 1
    BY DEF Below
  <2>1. CASE i \in 1 .. Len(s)
    BY <1>3, <2>1 DEF Below, EventType
  <2>2. CASE i = Len(t)
    BY <1>3, <2>2
  <2> QED BY <1>3, <2>1, <2>2
<1>5. Paired(t)
  <2> SUFFICES ASSUME NEW i \in DOMAIN t
               PROVE  IF t[i].event = "end"
                      THEN i > 1 /\ t[i - 1] = [event |-> "start", of |-> t[i].of]
                      ELSE \A j \in 1 .. i - 1 : t[j].of < t[i].of
    BY DEF Paired
  <2>1. CASE i \in 1 .. Len(s)
    <3>1. IF s[i].event = "end"
          THEN i > 1 /\ s[i - 1] = [event |-> "start", of |-> s[i].of]
          ELSE \A j \in 1 .. i - 1 : s[j].of < s[i].of
      BY <2>1 DEF Paired
    <3>2. t[i] = s[i] /\ \A j \in 1 .. i - 1 : t[j] = s[j]
      BY <1>3, <2>1
    <3>3. i > 1 => t[i - 1] = s[i - 1]
      BY <1>3, <2>1
    <3> QED BY <3>1, <3>2, <3>3
  <2>2. CASE i = Len(t)
    BY <1>3, <2>2 DEF Below
  <2> QED BY <1>3, <2>1, <2>2
<1> QED BY <1>1, <1>3, <1>4, <1>5 DEF Begun

LEMMA AttemptEnds ==
    ASSUME NEW s \in Seq(EventType), NEW n \in Nat, NEW m, Paired(s), Begun(s, n), Below(s, m)
    PROVE  /\ s \o Ends(n) \in Seq(EventType)
           /\ Paired(s \o Ends(n)) /\ Below(s \o Ends(n), m)
<1> DEFINE t == Append(s, [event |-> "end", of |-> n])
<1>1. t = s \o Ends(n)
  BY DEF Ends
<1>2. [event |-> "end", of |-> n] \in EventType
  BY DEF EventType
<1>3. t \in Seq(EventType) /\ Len(t) = Len(s) + 1 /\ t[Len(t)] = [event |-> "end", of |-> n]
      /\ \A i \in 1 .. Len(s) : t[i] = s[i] /\ s[i] \in EventType
  BY <1>2
<1>0. Len(s) \in Nat \ {0} /\ s[Len(s)] = [event |-> "start", of |-> n]
  BY DEF Begun
<1> HIDE DEF t
<1>4. Below(t, m)
  <2> SUFFICES ASSUME NEW i \in DOMAIN t PROVE t[i].of < m
    BY DEF Below
  <2>1. CASE i \in 1 .. Len(s)
    BY <1>3, <2>1 DEF Below
  <2>2. CASE i = Len(t)
    <3>1. s[Len(s)].of < m
      BY <1>0 DEF Below
    <3> QED BY <3>1, <1>0, <1>3, <2>2
  <2> QED BY <1>3, <2>1, <2>2
<1>5. Paired(t)
  <2> SUFFICES ASSUME NEW i \in DOMAIN t
               PROVE  IF t[i].event = "end"
                      THEN i > 1 /\ t[i - 1] = [event |-> "start", of |-> t[i].of]
                      ELSE \A j \in 1 .. i - 1 : t[j].of < t[i].of
    BY DEF Paired
  <2>1. CASE i \in 1 .. Len(s)
    <3>1. IF s[i].event = "end"
          THEN i > 1 /\ s[i - 1] = [event |-> "start", of |-> s[i].of]
          ELSE \A j \in 1 .. i - 1 : s[j].of < s[i].of
      BY <2>1 DEF Paired
    <3>2. t[i] = s[i] /\ \A j \in 1 .. i - 1 : t[j] = s[j]
      BY <1>3, <2>1
    <3>3. i > 1 => t[i - 1] = s[i - 1]
      BY <1>3, <2>1
    <3> QED BY <3>1, <3>2, <3>3
  <2>2. CASE i = Len(t)
    <3>1. t[i - 1] = s[Len(s)] /\ i > 1
      BY <1>0, <1>3, <2>2
    <3> QED BY <3>1, <1>0, <1>3, <2>2
  <2> QED BY <1>3, <2>1, <2>2
<1> QED BY <1>1, <1>3, <1>4, <1>5

LEMMA WholeAttempt ==
    ASSUME NEW s \in Seq(EventType), NEW n \in Nat, Paired(s), Below(s, n)
    PROVE  /\ s \o Begins(n) \o Ends(n) \in Seq(EventType)
           /\ Paired(s \o Begins(n) \o Ends(n)) /\ Below(s \o Begins(n) \o Ends(n), n + 1)
<1> DEFINE t == s \o Begins(n)
<1>1. t \in Seq(EventType) /\ Paired(t) /\ Below(t, n + 1) /\ Begun(t, n)
  BY AttemptBegins
<1> HIDE DEF t
<1>2. t \o Ends(n) \in Seq(EventType) /\ Paired(t \o Ends(n)) /\ Below(t \o Ends(n), n + 1)
  BY <1>1, AttemptEnds
<1> QED BY <1>2 DEF t

LEMMA NothingBelow ==
    /\ <<>> \in Seq(EventType) /\ Paired(<<>>) /\ \A n : Below(<<>>, n)
BY DEF Paired, Below

LEMMA LogStep == Typed /\ LogInv /\ [Next]_vars => LogInv'
<1> SUFFICES ASSUME Typed, LogInv, [Next]_vars PROVE LogInv'
  OBVIOUS
<1> USE DEF LogInv, Summing, history, inference, counts
<1>0. /\ nextAttempt \in Nat /\ attempt \in Nat /\ lastAttempt \in Nat
      /\ why \in {"before", "overflow", "after"}
  BY DEF Typed, AttemptsTyped, FlagsTyped
<1>1. CASE Start \/ Turn \/ Ask \/ Retry \/ TryAgain
  BY <1>1, <1>0, NothingBelow DEF Start, Turn, Ask, Retry, TryAgain, CompactFor, Current, Below
<1>2. CASE Refuse
  BY <1>2, <1>0, NothingBelow, WholeAttempt DEF Refuse
<1>3. CASE Open
  <2>1. log = <<>>
    BY <1>3 DEF Open
  <2>2. CASE aborted
    <3>1. pc' = "agentEnd" /\ log' = log \o Begins(lastAttempt + 1) \o Ends(lastAttempt + 1)
      BY <1>3, <2>2 DEF Open, RecordAborted
    <3>2. lastAttempt + 1 \in Nat /\ Below(log, lastAttempt + 1)
      BY <1>0, <2>1, NothingBelow
    <3>3. log' \in Seq(EventType) /\ Paired(log')
      BY <3>1, <3>2, WholeAttempt
    <3> QED BY <3>1, <3>3
  <2>3. CASE ~aborted
    <3>1. pc' = "turn" /\ log' = <<>>
      BY <1>3, <2>1, <2>3 DEF Open
    <3> QED BY <3>1, NothingBelow
  <2> QED BY <2>2, <2>3
<1>4. CASE AttemptKilled
  BY <1>4, <1>0, AttemptBegins DEF AttemptKilled, Returns, Current
<1>5. CASE BackoffKilled
  BY <1>5, <1>0, AttemptBegins DEF BackoffKilled, Returns, Current
<1>6. ASSUME NEW r \in Replies, Answer(r) PROVE LogInv'
  <2>1. Current \in Nat /\ Below(log, Current) /\ pc = "attempt"
    BY <1>6, <1>0 DEF Answer, Current
  <2>2. CASE r.retry /\ attempt < MaxRetries
    <3>1. pc' = "retrying" /\ log' = log \o Begins(Current) \o Ends(Current) /\ Current' = Current
      BY <1>6, <2>2 DEF Answer, Current
    <3>2. log' \in Seq(EventType) /\ Paired(log') /\ Below(log', Current + 1)
      BY <3>1, <2>1, WholeAttempt
    <3> QED BY <3>1, <3>2
  <2>3. CASE ~(r.retry /\ attempt < MaxRetries)
    <3>1. pc' = "answered" /\ log' = log \o Begins(Current)
          /\ lastAttempt' = Current /\ nextAttempt' = Current + 1
      BY <1>6, <2>3 DEF Answer, Returns
    <3>2. log' \in Seq(EventType) /\ Paired(log') /\ Below(log', Current + 1)
          /\ Begun(log', Current)
      BY <3>1, <2>1, AttemptBegins
    <3> QED BY <3>1, <3>2
  <2> QED BY <2>2, <2>3
<1>7. CASE Overflow
  BY <1>7, <1>0, AttemptEnds DEF Overflow, CompactFor
<1>8. CASE Record
  BY <1>8, <1>0, AttemptEnds DEF Record
<1>9. CASE Proceed \/ NextCall \/ BatchEnds \/ BatchBreaks \/ RecordResult \/ AgentEnd \/ Settle
  BY <1>9 DEF Proceed, NextCall, BatchEnds, BatchBreaks, RecordResult, AgentEnd, Settle,
    CompactFor
<1>10. CASE TurnEnd \/ Compacted \/ CompactSucceeds \/ CompactFails
  BY <1>10, <1>0 DEF TurnEnd, Compacted, CompactSucceeds, CompactFails, FollowUpOrEnd, Resumes
<1>11. CASE NotCompacted
  BY <1>11, <1>0, WholeAttempt DEF NotCompacted, Resumes, RecordAborted
<1>12. ASSUME NEW k \in DOMAIN calls, CallStep(k) PROVE LogInv'
  BY <1>12 DEF CallStep, Current
<1>13. CASE (\E m \in Messages("steer", Steers) : Steer(m)) \/
  (\E m \in Messages("follow_up", FollowUps) : FollowUp(m))
  BY <1>13 DEF Steer, FollowUp, Current
<1>14. CASE Abort \/ Interrupt \/ Break \/ Over \/ UNCHANGED vars
  BY <1>14 DEF Abort, Interrupt, Break, Over, vars, Hookable, Current
<1> QED
  BY <1>1, <1>2, <1>3, <1>4, <1>5, <1>6, <1>7, <1>8, <1>9, <1>10, <1>11, <1>12, <1>13, <1>14
  DEF Next, RunStep

-----------------------------------------------------------------------------
(* After an abort.                                                         *)

\* As long as the run may still ask, no answer has come since the abort: a
\* summary that was cancelled ends the run, one that was not lets it go on.
StopInv ==
    /\ aborted /\ pc \in {"starting", "refused", "opening", "turn", "asking", "attempt",
                          "retrying", "backoff", "compacted"}
        => replies <= repliesAtAbort
    /\ aborted /\ pc = "compacting" /\ ~killed => replies <= repliesAtAbort
    /\ aborted /\ pc \in {"compacting", "notCompacted"} /\ why = "before"
        => replies <= repliesAtAbort
    /\ AbortStops

LEMMA StopStep == Typed /\ StopInv /\ [Next]_vars => StopInv'
<1> SUFFICES ASSUME Typed, StopInv, [Next]_vars PROVE StopInv'
  OBVIOUS
<1> USE DEF StopInv, AbortStops, history, inference, counts
<1>0. /\ replies \in Nat /\ repliesAtAbort \in Nat /\ aborted \in BOOLEAN /\ killed \in BOOLEAN
      /\ why \in {"before", "overflow", "after"}
  BY DEF Typed, AttemptsTyped, FlagsTyped
<1>1. CASE Start \/ Refuse \/ Open \/ Turn \/ Ask \/ AttemptKilled \/ Retry \/ TryAgain \/
  BackoffKilled
  BY <1>1, <1>0 DEF Start, Refuse, Open, Turn, Ask, AttemptKilled, Retry, TryAgain, BackoffKilled,
    CompactFor, RecordAborted, Returns
<1>2. ASSUME NEW r \in Replies, Answer(r) PROVE StopInv'
  BY <1>2, <1>0 DEF Answer, Returns
<1>3. CASE Overflow \/ Record \/ Proceed \/ NextCall \/ BatchEnds \/ BatchBreaks \/
  RecordResult \/ AgentEnd \/ Settle
  BY <1>3, <1>0 DEF Overflow, Record, Proceed, NextCall, BatchEnds, BatchBreaks, RecordResult,
    AgentEnd, Settle, CompactFor
<1>6. CASE TurnEnd \/ Compacted \/ NotCompacted \/ CompactSucceeds \/ CompactFails
  BY <1>6, <1>0 DEF TurnEnd, SeesAbort, Compacted, NotCompacted, CompactSucceeds, CompactFails,
    FollowUpOrEnd, Resumes, RecordAborted
<1>7. ASSUME NEW k \in DOMAIN calls, CallStep(k) PROVE StopInv'
  BY <1>7, <1>0 DEF CallStep
<1>8. CASE (\E m \in Messages("steer", Steers) : Steer(m)) \/
  (\E m \in Messages("follow_up", FollowUps) : FollowUp(m))
  BY <1>8, <1>0 DEF Steer, FollowUp
<1>9. CASE Abort \/ Interrupt \/ Break \/ Over \/ UNCHANGED vars
  BY <1>9, <1>0 DEF Abort, Interrupt, Break, Over, vars
<1> QED
  BY <1>1, <1>2, <1>3, <1>6, <1>7, <1>8, <1>9 DEF Next, RunStep

-----------------------------------------------------------------------------
(* Tools are at work only while the run waits for them, or after it raised. *)

Idle == \A k \in DOMAIN calls : calls[k].stage \notin AtWork
ToolInv == pc = "tools" \/ Idle \/ (raised /\ pc \in {"settling", "done"})

LEMMA IdleStep == Typed /\ ToolInv /\ [Next]_vars => ToolInv'
<1> SUFFICES ASSUME Typed, ToolInv, [Next]_vars PROVE ToolInv'
  OBVIOUS
<1> USE DEF ToolInv, Idle, AtWork, batch
<1>1. CASE Start \/ Refuse \/ Open \/ Turn \/ Ask \/ AttemptKilled \/ Retry \/ TryAgain \/
  BackoffKilled
  BY <1>1 DEF Start, Refuse, Open, Turn, Ask, AttemptKilled, Retry, TryAgain, BackoffKilled,
    CompactFor, RecordAborted, Returns
<1>2. CASE (\E r \in Replies : Answer(r)) \/ Overflow \/ Record \/ AgentEnd \/ Settle
  BY <1>2 DEF Answer, Returns, Overflow, Record, AgentEnd, Settle, CompactFor
<1>3. CASE TurnEnd \/ Compacted \/ NotCompacted \/ CompactSucceeds \/ CompactFails
  BY <1>3 DEF TurnEnd, Compacted, NotCompacted, CompactSucceeds, CompactFails, FollowUpOrEnd,
    Resumes, RecordAborted
<1>4. CASE (\E m \in Messages("steer", Steers) : Steer(m)) \/
  (\E m \in Messages("follow_up", FollowUps) : FollowUp(m))
  BY <1>4 DEF Steer, FollowUp
<1>5. CASE Break \/ Over \/ UNCHANGED vars
  BY <1>5 DEF Break, Over, vars, Hookable
<1>6. CASE Abort \/ Interrupt
  <2>1. CASE calls' = calls
    BY <2>1, <1>6 DEF Abort, Interrupt
  <2>2. CASE calls' = Cancelled
    <3>1. DOMAIN calls' = DOMAIN calls /\ \A k \in DOMAIN calls : calls'[k].stage = calls[k].stage
      <4>1. \A k \in DOMAIN calls : calls[k] \in CallType
        BY DEF Typed, BatchTyped
      <4> QED BY <4>1, <2>2 DEF Cancelled, CallType
    <3> QED BY <3>1, <1>6 DEF Abort, Interrupt
  <2> QED BY <2>1, <2>2, <1>6 DEF Abort, Interrupt
<1>7. CASE BatchEnds \/ BatchBreaks \/ RecordResult \/ NextCall
  BY <1>7 DEF BatchEnds, BatchBreaks, BatchDone, RecordResult, NextCall
<1>9. CASE Proceed
  <2>1. CASE pc' = "tools"
    BY <2>1
  <2>2. CASE calls' = <<>>
    BY <2>2
  <2>3. CASE calls' = [k \in 1 .. answer.calls |-> Call("done", "skipped")]
    BY <2>3 DEF Call
  <2> QED BY <2>1, <2>2, <2>3, <1>9 DEF Proceed
<1>10. ASSUME NEW k \in DOMAIN calls, CallStep(k) PROVE ToolInv'
  BY <1>10 DEF CallStep
<1> QED
  BY <1>1, <1>2, <1>3, <1>4, <1>5, <1>6, <1>7, <1>9, <1>10 DEF Next, RunStep

-----------------------------------------------------------------------------
(* Where a message is that was accepted: cleared, late, queued, drained, or *)
(* in the session.                                                         *)

Said(m) == User(m) \in Range(session)
Held(m) ==
    \/ m \in cleared \cup late \cup Range(steer) \cup Range(followUp) \cup Range(pending)
    \/ Said(m)
Answered(m) == m \in cleared \cup late \/ (m[1] = "steer" /\ Overflowed /\ Compacts) \/ Said(m)
Leaving == pc \in {"agentEnd", "settling"} \/ (pc \in Summing /\ why = "after")

\* Drained messages are recorded at the next await; once nothing is left to do
\* nothing is drained and the queues hold only what is late, or the steering
\* that an overflow left behind.
InputInv ==
    /\ session \in Seq(Range(session))
    /\ pc \in Summing /\ why = "overflow" => Overflowed /\ Compacts
    /\ pc # "done" => \A m \in Range(accepted) : Held(m)
    /\ pending # <<>> => pc \in {"turn", "settling", "done"}
    /\ complete => pending = <<>> /\ (Leaving \/ pc = "done")
    /\ complete => \A m \in Range(accepted) : Answered(m)

LEMMA SequenceOfItself ==
    ASSUME NEW S, NEW s \in Seq(S)
    PROVE  s \in Seq(Range(s))
<1>1. s \in [1 .. Len(s) -> Range(s)]
  BY DEF Range
<1> QED BY <1>1, AsSequence

LEMMA Joined ==
    ASSUME NEW S, NEW s \in Seq(S), NEW T, NEW t \in Seq(T)
    PROVE  /\ s \o t \in Seq(Range(s \o t))
           /\ Range(s) \subseteq Range(s \o t) /\ Range(t) \subseteq Range(s \o t)
<1> DEFINE u == s \o t
<1>1. s \in Seq(S \cup T) /\ t \in Seq(S \cup T)
  OBVIOUS
<1>2. /\ u \in Seq(S \cup T) /\ Len(u) = Len(s) + Len(t)
      /\ \A i \in 1 .. Len(s) : u[i] = s[i]
      /\ \A i \in 1 .. Len(t) : u[Len(s) + i] = t[i]
  BY <1>1
<1> HIDE DEF u
<1>3. u \in Seq(Range(u))
  BY <1>2, SequenceOfItself
<1>4. /\ DOMAIN s = 1 .. Len(s) /\ DOMAIN t = 1 .. Len(t) /\ DOMAIN u = 1 .. Len(u)
      /\ Len(s) \in Nat /\ Len(t) \in Nat
  BY <1>2
<1>5. /\ \A i \in 1 .. Len(s) : i \in 1 .. Len(u)
      /\ \A i \in 1 .. Len(t) : Len(s) + i \in 1 .. Len(u)
  <2> DEFINE m == Len(s)
             n == Len(t)
             k == Len(u)
  <2>1. m \in Nat /\ n \in Nat /\ k = m + n
    BY <1>2, <1>4
  <2> HIDE DEF m, n, k
  <2>2. /\ \A i \in 1 .. m : i \in 1 .. k
        /\ \A i \in 1 .. n : m + i \in 1 .. k
    BY <2>1
  <2> QED BY <2>2 DEF m, n, k
<1>6. Range(s) \subseteq Range(u) /\ Range(t) \subseteq Range(u)
  BY <1>2, <1>4, <1>5, Zenon DEF Range
<1> QED BY <1>3, <1>6 DEF u

LEMMA Appended ==
    ASSUME NEW S, NEW s \in Seq(S), NEW e
    PROVE  /\ Append(s, e) \in Seq(Range(Append(s, e)))
           /\ Range(Append(s, e)) = Range(s) \cup {e}
<1> DEFINE u == Append(s, e)
<1>1. s \in Seq(S \cup {e})
  OBVIOUS
<1>2. /\ u \in Seq(S \cup {e}) /\ Len(u) = Len(s) + 1
      /\ \A i \in 1 .. Len(s) : u[i] = s[i]
      /\ u[Len(s) + 1] = e
  BY <1>1
<1> HIDE DEF u
<1>3. u \in Seq(Range(u))
  BY <1>2, SequenceOfItself
<1>4. Range(u) = Range(s) \cup {e}
  BY <1>2 DEF Range
<1> QED BY <1>3, <1>4 DEF u

LEMMA Drained ==
    ASSUME NEW S, NEW queue \in Seq(S)
    PROVE  Range(queue) \subseteq Range(Taken(queue)) \cup Range(Left(queue))
<1>1. CASE queue = <<>> \/ ~OneAtATime
  BY <1>1 DEF Taken, Left
<1>2. CASE queue # <<>> /\ OneAtATime
  <2>1. Taken(queue) = <<queue[1]>> /\ Left(queue) = Tail(queue)
    BY <1>2 DEF Taken, Left
  <2>2. Len(queue) \in Nat \ {0} /\ Len(Tail(queue)) = Len(queue) - 1
        /\ \A i \in 2 .. Len(queue) : Tail(queue)[i - 1] = queue[i]
    BY <1>2
  <2>3. Tail(queue) \in Seq(S)
    BY <1>2
  <2> SUFFICES ASSUME NEW i \in 1 .. Len(queue)
               PROVE  queue[i] \in Range(<<queue[1]>>) \cup Range(Tail(queue))
    BY <2>1 DEF Range
  <2>4. CASE i = 1
    BY <2>4 DEF Range
  <2>5. CASE i \in 2 .. Len(queue)
    <3>1. i - 1 \in DOMAIN Tail(queue)
      BY <2>2, <2>3, <2>5
    <3> QED BY <3>1, <2>2, <2>5 DEF Range
  <2> QED BY <2>4, <2>5
<1> QED BY <1>1, <1>2

LEMMA SessionGrows ==
    session \in Seq(Range(session)) /\ Typed /\ [Next]_vars
        => session' \in Seq(Range(session')) /\ Range(session) \subseteq Range(session')
<1> SUFFICES ASSUME session \in Seq(Range(session)), Typed, [Next]_vars
             PROVE  session' \in Seq(Range(session')) /\ Range(session) \subseteq Range(session')
  OBVIOUS
<1> DEFINE Grows == session' \in Seq(Range(session')) /\ Range(session) \subseteq Range(session')
<1> SUFFICES Grows
  OBVIOUS
<1> HIDE DEF Grows
<1>0. UNCHANGED session => Grows
  BY DEF Grows
<1>a. ASSUME NEW e, session' = Append(session, e) PROVE Grows
  BY <1>a, Appended DEF Grows
<1>b. ASSUME NEW e, session' = session \o <<e>> PROVE Grows
  <2>1. <<e>> \in Seq({e})
    OBVIOUS
  <2> QED BY <1>b, <2>1, Joined DEF Grows
<1>c. ASSUME NEW e, NEW f, session' = session \o <<e, f>> PROVE Grows
  <2>1. <<e, f>> \in Seq({e, f})
    OBVIOUS
  <2> QED BY <1>c, <2>1, Joined DEF Grows
<1>1. CASE UNCHANGED session
  BY <1>0, <1>1
<1>2. CASE Start \/ Ask \/ AttemptKilled \/ Retry \/ TryAgain \/ BackoffKilled \/ Proceed \/
  NextCall
  BY <1>2, <1>0 DEF Start, Ask, AttemptKilled, Retry, TryAgain, BackoffKilled, Returns, history,
    Proceed, NextCall
<1>3. CASE BatchEnds \/ BatchBreaks \/ TurnEnd \/ AgentEnd \/ Settle \/ CompactFails \/ Compacted
  BY <1>3, <1>0 DEF BatchEnds, BatchBreaks, TurnEnd, AgentEnd, Settle, CompactFails, Compacted,
    history
<1>4. CASE Abort \/ Interrupt \/ Break \/ Over \/ UNCHANGED vars
  BY <1>4, <1>0 DEF Abort, Interrupt, Break, Over, vars, history
<1>5. CASE (\E m \in Messages("steer", Steers) : Steer(m)) \/
  (\E m \in Messages("follow_up", FollowUps) : FollowUp(m))
  BY <1>5, <1>0 DEF Steer, FollowUp, history
<1>6. CASE \E k \in DOMAIN calls : CallStep(k)
  BY <1>6, <1>0 DEF CallStep, history
<1>7. CASE Refuse
  <2>1. session' = session \o <<User(Input), Assistant(0, "error", 0)>>
    BY <1>7 DEF Refuse, Recorded
  <2> QED BY <2>1, <1>c
<1>8. CASE Open
  <2>1. CASE ~aborted
    <3>1. session' = session \o <<User(Input)>>
      BY <1>8, <2>1 DEF Open, Recorded
    <3> QED BY <3>1, <1>b
  <2>2. CASE aborted
    <3> DEFINE x == User(Input)
               y == Message(Aborted, lastAttempt + 1)
    <3>1. session' = session \o Append(<<x>>, y)
      BY <1>8, <2>2 DEF Open, Recorded, RecordAborted
    <3> HIDE DEF x, y
    <3>2. Append(<<x>>, y) \in Seq({x, y})
      <4>1. <<x>> \in Seq({x, y})
        OBVIOUS
      <4> QED BY <4>1
    <3> QED BY <3>1, <3>2, Joined DEF Grows
  <2> QED BY <2>1, <2>2
<1>9. CASE Turn
  <2> DEFINE said == [i \in DOMAIN pending |-> User(pending[i])]
  <2>1. pending \in Seq(AllMessages)
    BY DEF Typed, InputsTyped
  <2>2. said \in [1 .. Len(pending) -> {User(m) : m \in AllMessages}]
    BY <2>1
  <2>3. said \in Seq({User(m) : m \in AllMessages})
    BY <2>1, <2>2, AsSequence
  <2>4. session' = session \o said
    BY <1>9 DEF Turn, Recorded
  <2> HIDE DEF said
  <2> QED BY <2>3, <2>4, Joined DEF Grows
<1>10. CASE \E r \in Replies : Answer(r)
  <2> PICK r \in Replies : Answer(r)
    BY <1>10
  <2>1. UNCHANGED session \/ session' = Append(session, Message(r, Current))
    BY DEF Answer, OnlyInSession, Returns, history
  <2> QED BY <2>1, <1>0, <1>a
<1>11. CASE Overflow \/ Record \/ RecordResult
  <2>1. CASE Overflow
    <3>1. session' = Append(session, Message(answer, lastAttempt))
      BY <2>1 DEF Overflow, OnlyInSession
    <3> QED BY <3>1, <1>a
  <2>2. CASE Record
    <3>1. session' = session \o <<Message(answer', lastAttempt)>>
      BY <2>2 DEF Record, Recorded
    <3> QED BY <3>1, <1>b
  <2>3. CASE RecordResult
    <3>1. session' = session \o <<Result(lastAttempt, results + 1, calls[results + 1].how)>>
      BY <2>3 DEF RecordResult, Recorded
    <3> QED BY <3>1, <1>b
  <2> QED BY <1>11, <2>1, <2>2, <2>3
<1>12. CASE CompactSucceeds
  <2>1. PICK keep \in Cuts(session) : session' = Append(session, Compaction(keep))
    BY <1>12 DEF CompactSucceeds
  <2> QED BY <2>1, <1>a
<1>13. CASE NotCompacted
  <2>1. CASE UNCHANGED history
    BY <2>1, <1>0 DEF history
  <2>2. CASE RecordAborted(<<>>)
    <3> DEFINE x == Message(Aborted, lastAttempt + 1)
    <3>1. session' = session \o Append(<<>>, x)
      BY <2>2 DEF RecordAborted, Recorded
    <3> HIDE DEF x
    <3>2. Append(<<>>, x) = <<x>>
      OBVIOUS
    <3> QED BY <3>1, <3>2, <1>b
  <2> QED BY <1>13, <2>1, <2>2 DEF NotCompacted, history
<1> QED
  BY <1>2, <1>3, <1>4, <1>5, <1>6, <1>7, <1>8, <1>9, <1>10, <1>11, <1>12, <1>13 DEF Next, RunStep

-----------------------------------------------------------------------------
(* What a step does to the messages.                                       *)

LEMMA InputStep == Typed /\ InputInv /\ [Next]_vars => InputInv'
<1> SUFFICES ASSUME Typed, InputInv, [Next]_vars PROVE InputInv'
  OBVIOUS
<1> DEFINE Kept == /\ pc' # "done" => \A m \in Range(accepted)' : Held(m)'
                   /\ pending' # <<>> => pc' \in {"turn", "settling", "done"}
           Ended == complete' => /\ pending' = <<>> /\ (Leaving' \/ pc' = "done")
                                 /\ \A m \in Range(accepted)' : Answered(m)'
           Tried == pc' \in Summing /\ why' = "overflow" => Overflowed' /\ Compacts
<1>0. /\ session' \in Seq(Range(session')) /\ Range(session) \subseteq Range(session')
      /\ \A m : Said(m) => Said(m)'
  BY SessionGrows DEF InputInv, Said
<1> SUFFICES Kept /\ Ended /\ Tried
  BY <1>0 DEF InputInv
<1> HIDE DEF Kept, Ended, Tried
<1> USE DEF Summing
\* What most steps do to the messages.
<1>1. ASSUME UNCHANGED inputs,
             \/ pc' = pc
             \/ /\ pc \notin {"settling", "done"} /\ pc' # "done"
                /\ pc = "turn" => pc' \in {"turn", "settling"}
      PROVE  Kept
  BY <1>0, <1>1 DEF InputInv, Held, inputs, Kept
<1>2. ASSUME UNCHANGED <<pending, accepted, cleared, late, answer, complete>>,
             (Leaving \/ pc = "done") => (Leaving' \/ pc' = "done")
      PROVE  Ended
  BY <1>0, <1>2 DEF InputInv, Answered, Overflowed, Ended
<1>3. ASSUME ~complete, UNCHANGED complete PROVE Ended
  BY <1>3 DEF Ended
<1>4. complete => Leaving \/ pc = "done"
  BY DEF InputInv
<1>5. ASSUME DrainSteer, pending = <<>>, pc # "done", pc' = "turn" PROVE Kept
  <2>1. Range(steer) \subseteq Range(pending') \cup Range(steer')
    BY <1>5, Drained DEF DrainSteer, Typed, InputsTyped
  <2>2. Range(pending) = {} /\ Range(<<>>) = {}
    BY <1>5 DEF Range
  <2>3. \A m \in Range(accepted) : Held(m)'
    BY <1>0, <1>5, <2>1, <2>2 DEF DrainSteer, InputInv, Held
  <2> QED BY <1>5, <2>3 DEF DrainSteer, Kept
<1>6. ASSUME DrainFollowUp, pending = <<>>, pc # "done", pc' = "turn" PROVE Kept
  <2>1. Range(followUp) \subseteq Range(pending') \cup Range(followUp')
    BY <1>6, Drained DEF DrainFollowUp, Typed, InputsTyped
  <2>2. Range(pending) = {} /\ Range(<<>>) = {}
    BY <1>6 DEF Range
  <2>3. \A m \in Range(accepted) : Held(m)'
    BY <1>0, <1>6, <2>1, <2>2 DEF DrainFollowUp, InputInv, Held
  <2> QED BY <1>6, <2>3 DEF DrainFollowUp, Kept
<1>7. ASSUME FollowUpOrEnd, UNCHANGED <<session, answer>>, pending = <<>>, ~complete,
             pc \in {"turnEnd", "compacted"},
             steer = <<>> \/ (Overflowed /\ Compacts)
      PROVE  Kept /\ Ended
  <2>1. CASE followUp # <<>>
    BY <1>6, <1>3, <1>7, <2>1 DEF FollowUpOrEnd
  <2>2. CASE followUp = <<>>
    <3>1. pc' = "agentEnd" /\ UNCHANGED inputs /\ Leaving'
      BY <1>7, <2>2 DEF FollowUpOrEnd, Leaving
    <3>2. Kept
      BY <3>1, <1>1, <1>7 DEF InputInv
    <3>3. ASSUME NEW m \in Range(accepted) PROVE Answered(m)'
      <4>1. Held(m)
        BY <3>3, <1>7 DEF InputInv
      <4>2. CASE m \in Range(steer)
        <5>1. steer \in Seq(Messages("steer", Steers)) /\ steer # <<>>
          BY <4>2 DEF Typed, InputsTyped, Range
        <5>2. m[1] = "steer"
          BY <4>2, <5>1, Members DEF Messages
        <5> QED BY <5>1, <5>2, <1>7 DEF Answered, Overflowed
      <4>3. m \notin Range(followUp) \cup Range(pending)
        BY <1>7, <2>2 DEF Range
      <4> QED BY <1>0, <3>1, <4>1, <4>2, <4>3 DEF Held, Answered, inputs
    <3> QED BY <3>1, <3>2, <3>3, <1>7 DEF Ended, inputs
  <2> QED BY <2>1, <2>2
\* The steps.
<1>11. CASE Start \/ Refuse \/ Ask \/ AttemptKilled \/ Retry \/ TryAgain \/ BackoffKilled
  <2>1. pc \notin {"turn", "settling", "done"} /\ ~Leaving /\ pc' # "done"
        /\ UNCHANGED inputs /\ UNCHANGED complete
    BY <1>11 DEF Start, Refuse, Ask, AttemptKilled, Retry, TryAgain, BackoffKilled, Leaving,
      rounds, CompactFor, Returns
  <2>2. Tried
    BY <1>11 DEF Start, Refuse, Ask, AttemptKilled, Retry, TryAgain, BackoffKilled, CompactFor,
      Returns, Tried
  <2> QED BY <2>1, <2>2, <1>1, <1>3, <1>4
<1>12. CASE (\E r \in Replies : Answer(r)) \/ Overflow \/ Record
  <2>1. pc \notin {"turn", "settling", "done"} /\ ~Leaving /\ pc' # "done"
        /\ UNCHANGED inputs /\ UNCHANGED complete
    BY <1>12 DEF Answer, Returns, Overflow, Record, CompactFor, Leaving, rounds
  <2>2. Tried
    BY <1>12 DEF Answer, Returns, Overflow, Record, CompactFor, Recoverable, Overflowed, Tried
  <2> QED BY <2>1, <2>2, <1>1, <1>3, <1>4
<1>13. CASE Proceed \/ NextCall \/ BatchEnds \/ BatchBreaks \/ RecordResult
  <2>1. pc \notin {"turn", "settling", "done"} /\ ~Leaving /\ pc' # "done"
        /\ UNCHANGED inputs /\ UNCHANGED complete
    BY <1>13 DEF Proceed, NextCall, BatchEnds, BatchBreaks, RecordResult, Leaving, rounds
  <2>2. Tried
    BY <1>13 DEF Proceed, NextCall, BatchEnds, BatchBreaks, RecordResult, Tried
  <2> QED BY <2>1, <2>2, <1>1, <1>3, <1>4
<1>14. CASE AgentEnd
  <2>1. pc = "agentEnd" /\ pc' # "done" /\ Leaving' /\ UNCHANGED inputs
        /\ UNCHANGED <<answer, complete>>
    BY <1>14 DEF AgentEnd, CompactFor, Leaving, rounds
  <2>2. Tried
    BY <1>14 DEF AgentEnd, CompactFor, Tried
  <2>3. Kept
    BY <2>1, <1>1
  <2>4. Ended
    BY <2>1, <1>2 DEF inputs
  <2> QED BY <2>2, <2>3, <2>4
<1>15. CASE Settle
  <2>1. Ended
    BY <1>15, <1>2 DEF Settle, rounds
  <2> QED BY <1>15, <2>1 DEF Settle, Kept, Tried
<1>16. CASE CompactSucceeds \/ CompactFails
  <2>1. pc \in Summing /\ pc' \in Summing /\ UNCHANGED inputs
        /\ UNCHANGED <<answer, why, complete>>
    BY <1>16 DEF CompactSucceeds, CompactFails, rounds
  <2>2. Tried
    BY <2>1 DEF Tried, InputInv, Overflowed
  <2>3. Kept
    BY <2>1, <1>1
  <2>4. Ended
    BY <2>1, <1>2 DEF inputs, Leaving
  <2> QED BY <2>2, <2>3, <2>4
<1>17. CASE Compacted
  <2>1. pc = "compacted" /\ pending = <<>> /\ pc' \notin Summing /\ pc' # "done"
        /\ UNCHANGED history /\ UNCHANGED answer
    BY <1>17 DEF Compacted, Resumes, FollowUpOrEnd, InputInv
  <2>2. CASE why # "overflow"
    <3>1. UNCHANGED inputs /\ UNCHANGED complete /\ (Leaving => Leaving')
      BY <1>17, <2>2 DEF Compacted, Resumes, rounds, Leaving
    <3>2. Kept
      BY <2>1, <3>1, <1>1
    <3>3. Ended
      BY <2>1, <3>1, <1>2 DEF inputs
    <3> QED BY <2>1, <3>2, <3>3 DEF Tried
  <2>3. CASE why = "overflow"
    <3>1. ~complete /\ Overflowed /\ Compacts
      BY <2>1, <2>3, <1>4 DEF InputInv, Leaving
    <3>2. CASE more
      <4>1. UNCHANGED inputs /\ UNCHANGED complete
        BY <1>17, <2>3, <3>2 DEF Compacted, rounds
      <4> QED BY <2>1, <3>1, <4>1, <1>1, <1>3 DEF Tried
    <3>3. CASE ~more
      <4>1. FollowUpOrEnd
        BY <1>17, <2>3, <3>3 DEF Compacted
      <4> QED BY <2>1, <3>1, <4>1, <1>7 DEF Tried, history
    <3> QED BY <3>2, <3>3
  <2> QED BY <2>2, <2>3
<1>18. CASE NotCompacted
  <2>1. pc = "notCompacted" /\ pc' \notin Summing /\ pc' # "done" /\ UNCHANGED inputs
        /\ UNCHANGED complete
    BY <1>18 DEF NotCompacted, Resumes, RecordAborted, rounds
  <2>2. Kept /\ Tried
    BY <2>1, <1>1 DEF Tried
  <2>3. CASE why # "overflow"
    <3>1. UNCHANGED answer /\ (Leaving => Leaving')
      BY <1>18, <2>3 DEF NotCompacted, Resumes, Leaving
    <3> QED BY <2>1, <2>2, <3>1, <1>2 DEF inputs
  <2>4. CASE why = "overflow"
    BY <2>1, <2>2, <2>4, <1>3, <1>4 DEF Leaving
  <2> QED BY <2>3, <2>4
<1>19. CASE TurnEnd
  <2>1. pc = "turnEnd" /\ pending = <<>> /\ pc' \notin Summing /\ pc' # "done" /\ ~complete
        /\ UNCHANGED <<session, answer>>
    BY <1>19, <1>4 DEF TurnEnd, FollowUpOrEnd, InputInv, Leaving, history
  <2>2. CASE SeesAbort
    BY <1>19, <2>1, <2>2, <1>1, <1>3 DEF TurnEnd, rounds, Tried
  <2>3. CASE ~SeesAbort /\ (steer # <<>> \/ MoreTools)
    BY <1>19, <2>1, <2>3, <1>5, <1>3 DEF TurnEnd, Tried
  <2>4. CASE ~SeesAbort /\ ~(steer # <<>> \/ MoreTools)
    <3>1. FollowUpOrEnd /\ steer = <<>>
      BY <1>19, <2>4 DEF TurnEnd
    <3> QED BY <2>1, <3>1, <1>7 DEF Tried
  <2> QED BY <2>2, <2>3, <2>4
<1>20. CASE Open
  <2>1. pc = "opening" /\ pending = <<>> /\ ~complete /\ UNCHANGED complete
    BY <1>20, <1>4 DEF Open, InputInv, Leaving, rounds
  <2>2. CASE aborted
    <3>1. pc' = "agentEnd" /\ UNCHANGED inputs
      BY <1>20, <2>2 DEF Open, RecordAborted
    <3> QED BY <2>1, <3>1, <1>1, <1>3 DEF Tried
  <2>3. CASE ~aborted
    <3>1. pc' = "turn" /\ DrainSteer
      BY <1>20, <2>3 DEF Open
    <3> QED BY <2>1, <3>1, <1>5, <1>3 DEF Tried
  <2> QED BY <2>2, <2>3
<1>21. CASE Turn
  <2>1. pc = "turn" /\ pc' = "asking" /\ pending' = <<>> /\ ~complete /\ UNCHANGED complete
        /\ UNCHANGED <<steer, followUp, accepted, cleared, late>>
    BY <1>21, <1>4 DEF Turn, Leaving, rounds
  <2>2. ASSUME NEW m \in Range(pending) PROVE Said(m)'
    <3> DEFINE said == [i \in DOMAIN pending |-> User(pending[i])]
    <3>1. session' = session \o said
      BY <1>21 DEF Turn, Recorded
    <3>2. pending \in Seq(AllMessages)
      BY DEF Typed, InputsTyped
    <3>3. said \in [1 .. Len(pending) -> {User(x) : x \in AllMessages}]
      BY <3>2
    <3>4. said \in Seq({User(x) : x \in AllMessages})
      BY <3>2, <3>3, AsSequence
    <3>5. User(m) \in Range(said)
      BY <2>2 DEF Range
    <3> HIDE DEF said
    <3>6. Range(said) \subseteq Range(session')
      BY <3>1, <3>4, Joined DEF InputInv
    <3> QED BY <3>5, <3>6 DEF Said
  <2>3. Kept
    BY <1>0, <2>1, <2>2 DEF Kept, Held, InputInv
  <2> QED BY <2>1, <2>3, <1>3 DEF Tried
<1>22. ASSUME NEW m \in AllMessages, Accept(m),
              UNCHANGED <<pc, why, answer, pending, cleared, complete>>,
              Range(steer) \cup Range(followUp) \cup {m}
                  \subseteq Range(steer') \cup Range(followUp')
       PROVE  Kept /\ Ended /\ Tried
  <2>1. pc # "done" /\ Range(accepted') = Range(accepted) \cup {m}
    BY <1>22, Appended DEF Accept, Typed, InputsTyped
  <2>2. late \subseteq late' /\ (Leaving => m \in late')
    BY <1>22 DEF Accept, Deaf, Leaving
  <2>3. Kept
    BY <1>0, <1>22, <2>1, <2>2 DEF Kept, Held, InputInv
  <2>4. Ended
    BY <1>0, <1>22, <2>1, <2>2 DEF Ended, Answered, InputInv, Leaving, Overflowed
  <2>5. Tried
    BY <1>22 DEF Tried, InputInv, Overflowed
  <2> QED BY <2>3, <2>4, <2>5
<1>23. ASSUME NEW m \in Messages("steer", Steers), Steer(m) PROVE Kept /\ Ended /\ Tried
  <2>1. Range(steer') = Range(steer) \cup {m} /\ followUp' = followUp
    BY <1>23, Appended DEF Steer, Typed, InputsTyped
  <2> QED BY <1>22, <1>23, <2>1 DEF Steer, AllMessages, rounds
<1>24. ASSUME NEW m \in Messages("follow_up", FollowUps), FollowUp(m) PROVE Kept /\ Ended /\ Tried
  <2>1. Range(followUp') = Range(followUp) \cup {m} /\ steer' = steer
    BY <1>24, Appended DEF FollowUp, Typed, InputsTyped
  <2> QED BY <1>22, <1>24, <2>1 DEF FollowUp, AllMessages, rounds
<1>25. CASE Abort
  <2>1. Range(steer) \cup Range(followUp) \subseteq Range(steer \o followUp)
    BY Joined DEF Typed, InputsTyped
  <2>2. cleared \cup Range(steer) \cup Range(followUp) \subseteq cleared'
        /\ UNCHANGED <<pc, why, answer, pending, accepted, late, complete>>
    BY <1>25, <2>1 DEF Abort, rounds
  <2>3. Kept
    BY <1>0, <2>2 DEF Kept, Held, InputInv
  <2>4. Ended
    BY <1>0, <2>2 DEF Ended, Answered, InputInv, Leaving, Overflowed
  <2>5. Tried
    BY <2>2 DEF Tried, InputInv, Overflowed
  <2> QED BY <2>3, <2>4, <2>5
<1>26. CASE Interrupt \/ (\E k \in DOMAIN calls : CallStep(k)) \/ Over \/ UNCHANGED vars
  <2>1. UNCHANGED inputs /\ UNCHANGED <<pc, why, answer, complete>>
    BY <1>26 DEF Interrupt, CallStep, Over, vars, rounds
  <2>2. Kept
    BY <2>1, <1>1
  <2>3. Ended
    BY <2>1, <1>2 DEF inputs, Leaving
  <2>4. Tried
    BY <2>1 DEF Tried, InputInv, Overflowed
  <2> QED BY <2>2, <2>3, <2>4
<1>27. CASE Break
  <2>1. UNCHANGED inputs /\ UNCHANGED <<answer, complete>> /\ pc' = "settling"
        /\ pc \notin {"settling", "done"} /\ Leaving'
    BY <1>27 DEF Break, Hookable, rounds, Leaving
  <2>2. Kept
    BY <2>1, <1>1
  <2>3. Ended
    BY <2>1, <1>2 DEF inputs
  <2> QED BY <2>1, <2>2, <2>3 DEF Tried
<1> QED
  BY <1>11, <1>12, <1>13, <1>14, <1>15, <1>16, <1>17, <1>18, <1>19, <1>20, <1>21, <1>23, <1>24,
     <1>25, <1>26, <1>27 DEF Next, RunStep

-----------------------------------------------------------------------------
(* The places of the accepted messages, and their order.                   *)

OrderInv == cleared \subseteq Range(accepted) /\ InputsInOrder

\* Places(m), with the session s, the drained messages d and the queue q.
PlacesIn(s, d, q, m) ==
    ({0} \X {i \in DOMAIN s : s[i] = User(m)}) \cup ({1} \X {i \in DOMAIN d : d[i] = m})
    \cup ({2} \X {i \in DOMAIN q : q[i] = m})

LEMMA PlaceForms ==
    ASSUME NEW s, NEW d, NEW q, NEW m, NEW p
    PROVE  p \in PlacesIn(s, d, q, m) <=>
              \/ \E i \in DOMAIN s : s[i] = User(m) /\ p = <<0, i>>
              \/ \E i \in DOMAIN d : d[i] = m /\ p = <<1, i>>
              \/ \E i \in DOMAIN q : q[i] = m /\ p = <<2, i>>
<1>1. ASSUME NEW z, NEW I PROVE p \in {z} \X I <=> \E i \in I : p = <<z, i>>
  <2>1. \A i \in I : <<z, i>> \in {z} \X I
    OBVIOUS
  <2>2. p \in {z} \X I => \E y \in {z}, i \in I : p = <<y, i>>
    OBVIOUS
  <2> QED BY <2>1, <2>2
<1> DEFINE A == {i \in DOMAIN s : s[i] = User(m)}
           B == {i \in DOMAIN d : d[i] = m}
           C == {i \in DOMAIN q : q[i] = m}
<1>2. p \in PlacesIn(s, d, q, m) <=> p \in {0} \X A \/ p \in {1} \X B \/ p \in {2} \X C
  BY DEF PlacesIn
<1>3. /\ p \in {0} \X A <=> \E i \in A : p = <<0, i>>
      /\ p \in {1} \X B <=> \E i \in B : p = <<1, i>>
      /\ p \in {2} \X C <=> \E i \in C : p = <<2, i>>
  BY <1>1
<1> QED BY <1>2, <1>3

LEMMA PlacesAre ==
    ASSUME NEW m
    PROVE  /\ Places(m) = PlacesIn(session, pending, QueueOf(m), m)
           /\ Places(m)' = PlacesIn(session', pending', QueueOf(m)', m)
BY DEF Places, PlacesIn

LEMMA PlacesStay ==
    ASSUME Typed, OrderInv, pc # "done", UNCHANGED <<accepted, cleared>>,
           \A m \in AllMessages : Places(m)' = Places(m)
    PROVE  OrderInv'
<1>1. \A p, q : Precedes(p, q)' <=> Precedes(p, q)
  BY DEF Precedes
<1>2. \A i \in DOMAIN accepted : accepted[i] \in AllMessages
  BY DEF Typed, InputsTyped
<1>3. cleared' \subseteq Range(accepted)'
  BY DEF OrderInv, Range
<1>4. \A m \in AllMessages :
         IF m \in Range(accepted)' \ cleared' THEN \E p \in Places(m)' : Places(m)' = {p}
         ELSE Places(m)' = {}
  BY DEF OrderInv, InputsInOrder, Range
<1> QED BY <1>1, <1>2, <1>3, <1>4 DEF OrderInv, InputsInOrder

\* A step that moves every message, and none past another of its kind.
LEMMA PlacesMove ==
    ASSUME Typed, OrderInv, pc # "done", UNCHANGED <<accepted, cleared>>,
           NEW F, \A m \in AllMessages : Places(m)' = {F[m][p] : p \in Places(m)},
           \A m, n \in AllMessages : m[1] = n[1] =>
               \A p \in Places(m), q \in Places(n) :
                  Precedes(p, q) => Precedes(F[m][p], F[n][q])
    PROVE  OrderInv'
<1>1. \A m, n : \A p, q : Precedes(p, q)' <=> Precedes(p, q)
  BY DEF Precedes
<1>2. ASSUME NEW m \in AllMessages
      PROVE  IF m \in Range(accepted) \ cleared THEN \E p \in Places(m)' : Places(m)' = {p}
             ELSE Places(m)' = {}
  <2>1. CASE m \in Range(accepted) \ cleared
    <3>1. PICK p \in Places(m) : Places(m) = {p}
      BY <2>1 DEF OrderInv, InputsInOrder
    <3>2. Places(m)' = {F[m][p]}
      BY <3>1
    <3> QED BY <2>1, <3>2
  <2>2. CASE m \notin Range(accepted) \ cleared
    <3>1. Places(m) = {}
      BY <2>2 DEF OrderInv, InputsInOrder
    <3> QED BY <2>2, <3>1
  <2> QED BY <2>1, <2>2
<1>3. ASSUME NEW i \in DOMAIN accepted, NEW j \in DOMAIN accepted,
             i < j, accepted[i][1] = accepted[j][1],
             NEW p \in Places(accepted[i])', NEW q \in Places(accepted[j])'
      PROVE  Precedes(p, q)
  <2> DEFINE m == accepted[i]
             n == accepted[j]
  <2>1. m \in AllMessages /\ n \in AllMessages
    BY DEF Typed, InputsTyped
  <2>2. p \in {F[m][r] : r \in Places(m)} /\ q \in {F[n][r] : r \in Places(n)}
    BY <1>3, <2>1
  <2>3. PICK r \in Places(m), s \in Places(n) : p = F[m][r] /\ q = F[n][s]
    BY <2>2
  <2>4. Precedes(r, s)
    BY <1>3 DEF OrderInv, InputsInOrder
  <2> QED BY <1>3, <2>1, <2>3, <2>4
<1> QED BY <1>1, <1>2, <1>3 DEF OrderInv, InputsInOrder

\* Nothing that the run records is a message of the queues, but what it drained.
Elsewhere ==
    \A m \in AllMessages : \A i :
        i \in DOMAIN session' /\ session'[i] = User(m) <=>
            i \in DOMAIN session /\ session[i] = User(m)

LEMMA RecordedElsewhere ==
    ASSUME session \in Seq(Range(session)), NEW T, NEW t \in Seq(T), session' = session \o t,
           \A k \in 1 .. Len(t) : \A m \in AllMessages : t[k] # User(m)
    PROVE  Elsewhere
<1> DEFINE S == Range(session)
<1>1. session \in Seq(S \cup T) /\ t \in Seq(S \cup T)
  OBVIOUS
<1> HIDE DEF S
<1>2. /\ Len(session) \in Nat /\ DOMAIN session = 1 .. Len(session)
      /\ DOMAIN session' = 1 .. Len(session) + Len(t) /\ Len(t) \in Nat
      /\ \A i \in 1 .. Len(session) : session'[i] = session[i]
      /\ \A i \in 1 .. Len(t) : session'[Len(session) + i] = t[i]
  BY <1>1
<1> SUFFICES ASSUME NEW m \in AllMessages, NEW i \in DOMAIN session' \ DOMAIN session
             PROVE  session'[i] # User(m)
  BY <1>2 DEF Elsewhere
<1>3. PICK k \in 1 .. Len(t) : i = Len(session) + k
  <2> DEFINE n == Len(session)
             l == Len(t)
  <2>1. n \in Nat /\ l \in Nat /\ i \in 1 .. n + l /\ i \notin 1 .. n
    BY <1>2
  <2> HIDE DEF n, l
  <2>2. i - n \in 1 .. l /\ i = n + (i - n)
    BY <2>1
  <2> QED BY <2>2 DEF n, l
<1> QED BY <1>2, <1>3

\* Only Turn records messages of the queues.
LEMMA OthersRecord ==
    session \in Seq(Range(session)) /\ Typed /\ [Next]_vars /\ ~Turn => Elsewhere
<1> SUFFICES ASSUME session \in Seq(Range(session)), Typed, [Next]_vars, ~Turn PROVE Elsewhere
  OBVIOUS
<1> DEFINE Other(e) == \A m \in AllMessages : e # User(m)
<1>0. UNCHANGED session => Elsewhere
  BY DEF Elsewhere
<1>d. Other(User(Input))
  BY DEF AllMessages, Messages, Input, User
<1>e. \A n, stop, count : Other(Assistant(n, stop, count))
  BY DEF Assistant, User
<1>f. \A n, k, how : Other(Result(n, k, how))
  BY DEF Result, User
<1>g. \A keep : Other(Compaction(keep))
  BY DEF Compaction, User
<1> HIDE DEF Other
<1>b. ASSUME NEW e, session' = session \o <<e>>, Other(e) PROVE Elsewhere
  <2> DEFINE t == <<e>>
  <2>1. t \in Seq({e}) /\ \A k \in 1 .. Len(t) : t[k] = e
    OBVIOUS
  <2> HIDE DEF t
  <2>2. session' = session \o t
    BY <1>b DEF t
  <2> QED BY <1>b, <2>1, <2>2, RecordedElsewhere DEF Other
<1>a. ASSUME NEW e, session' = Append(session, e), Other(e) PROVE Elsewhere
  <2>1. Append(session, e) = session \o <<e>>
    OBVIOUS
  <2> QED BY <1>a, <2>1, <1>b
<1>c. ASSUME NEW e, NEW f, session' = session \o <<e, f>>, Other(e), Other(f) PROVE Elsewhere
  <2> DEFINE t == <<e, f>>
  <2>1. t \in Seq({e, f}) /\ \A k \in 1 .. Len(t) : t[k] = e \/ t[k] = f
    OBVIOUS
  <2>2. session' = session \o t
    BY <1>c
  <2> HIDE DEF t
  <2> QED BY <1>c, <2>1, <2>2, RecordedElsewhere DEF Other
<1>1. CASE UNCHANGED session
  BY <1>0, <1>1
<1>2. CASE Start \/ Ask \/ AttemptKilled \/ Retry \/ TryAgain \/ BackoffKilled \/ Proceed \/
  NextCall
  BY <1>2, <1>0 DEF Start, Ask, AttemptKilled, Retry, TryAgain, BackoffKilled, Returns, history,
    Proceed, NextCall
<1>3. CASE BatchEnds \/ BatchBreaks \/ TurnEnd \/ AgentEnd \/ Settle \/ CompactFails \/ Compacted
  BY <1>3, <1>0 DEF BatchEnds, BatchBreaks, TurnEnd, AgentEnd, Settle, CompactFails, Compacted,
    history
<1>4. CASE Abort \/ Interrupt \/ Break \/ Over \/ UNCHANGED vars
  BY <1>4, <1>0 DEF Abort, Interrupt, Break, Over, vars, history
<1>5. CASE (\E m \in Messages("steer", Steers) : Steer(m)) \/
  (\E m \in Messages("follow_up", FollowUps) : FollowUp(m))
  BY <1>5, <1>0 DEF Steer, FollowUp, history
<1>6. CASE \E k \in DOMAIN calls : CallStep(k)
  BY <1>6, <1>0 DEF CallStep, history
<1>7. CASE Refuse
  <2>1. session' = session \o <<User(Input), Assistant(0, "error", 0)>>
    BY <1>7 DEF Refuse, Recorded
  <2> QED BY <2>1, <1>c, <1>d, <1>e
<1>8. CASE Open
  <2>1. CASE ~aborted
    <3>1. session' = session \o <<User(Input)>>
      BY <1>8, <2>1 DEF Open, Recorded
    <3> QED BY <3>1, <1>b, <1>d
  <2>2. CASE aborted
    <3> DEFINE x == User(Input)
               y == Message(Aborted, lastAttempt + 1)
    <3>1. session' = session \o Append(<<x>>, y) /\ Other(x) /\ Other(y)
      BY <1>8, <2>2, <1>d, <1>e DEF Open, Recorded, RecordAborted, Message
    <3> HIDE DEF x, y
    <3> DEFINE t == Append(<<x>>, y)
    <3>2. t \in Seq({x, y}) /\ \A k \in 1 .. Len(t) : t[k] = x \/ t[k] = y
      <4>1. <<x>> \in Seq({x, y})
        OBVIOUS
      <4> QED BY <4>1
    <3>3. session' = session \o t
      BY <3>1
    <3> HIDE DEF t
    <3> QED BY <3>1, <3>2, <3>3, RecordedElsewhere DEF Other
  <2> QED BY <2>1, <2>2
<1>10. CASE \E r \in Replies : Answer(r)
  <2> PICK r \in Replies : Answer(r)
    BY <1>10
  <2>1. UNCHANGED session \/ session' = Append(session, Message(r, Current))
    BY DEF Answer, OnlyInSession, Returns, history
  <2> QED BY <2>1, <1>0, <1>a, <1>e DEF Message
<1>11. CASE Overflow \/ Record \/ RecordResult
  <2>1. CASE Overflow
    <3>1. session' = Append(session, Message(answer, lastAttempt))
      BY <2>1 DEF Overflow, OnlyInSession
    <3> QED BY <3>1, <1>a, <1>e DEF Message
  <2>2. CASE Record
    <3>1. session' = session \o <<Message(answer', lastAttempt)>>
      BY <2>2 DEF Record, Recorded
    <3> QED BY <3>1, <1>b, <1>e DEF Message
  <2>3. CASE RecordResult
    <3>1. session' = session \o <<Result(lastAttempt, results + 1, calls[results + 1].how)>>
      BY <2>3 DEF RecordResult, Recorded
    <3> QED BY <3>1, <1>b, <1>f
  <2> QED BY <1>11, <2>1, <2>2, <2>3
<1>12. CASE CompactSucceeds
  <2>1. PICK keep \in Cuts(session) : session' = Append(session, Compaction(keep))
    BY <1>12 DEF CompactSucceeds
  <2> QED BY <2>1, <1>a, <1>g
<1>13. CASE NotCompacted
  <2>1. CASE UNCHANGED history
    BY <2>1, <1>0 DEF history
  <2>2. CASE RecordAborted(<<>>)
    <3> DEFINE x == Message(Aborted, lastAttempt + 1)
    <3>1. session' = session \o Append(<<>>, x) /\ Other(x)
      BY <2>2, <1>e DEF RecordAborted, Recorded, Message
    <3> HIDE DEF x
    <3>2. Append(<<>>, x) = <<x>>
      OBVIOUS
    <3> QED BY <3>1, <3>2, <1>b
  <2> QED BY <1>13, <2>1, <2>2 DEF NotCompacted, history
<1> QED
  BY <1>2, <1>3, <1>4, <1>5, <1>6, <1>7, <1>8, <1>10, <1>11, <1>12, <1>13 DEF Next, RunStep

\* What a drain takes comes before what it leaves.
LEMMA DrainSplits ==
    ASSUME NEW S, NEW queue \in Seq(S)
    PROVE  /\ Taken(queue) \in Seq(S) /\ Left(queue) \in Seq(S)
           /\ Len(queue) = Len(Taken(queue)) + Len(Left(queue))
           /\ \A i \in DOMAIN Taken(queue) : Taken(queue)[i] = queue[i]
           /\ \A i \in DOMAIN Left(queue) : Left(queue)[i] = queue[Len(Taken(queue)) + i]
<1>1. CASE queue = <<>> \/ ~OneAtATime
  BY <1>1 DEF Taken, Left
<1>2. CASE queue # <<>> /\ OneAtATime
  <2>1. Taken(queue) = <<queue[1]>> /\ Left(queue) = Tail(queue)
    BY <1>2 DEF Taken, Left
  <2>2. /\ Len(queue) \in Nat \ {0} /\ Len(Tail(queue)) = Len(queue) - 1
        /\ Tail(queue) \in Seq(S) /\ <<queue[1]>> \in Seq(S)
        /\ \A i \in 1 .. Len(queue) - 1 : Tail(queue)[i] = queue[1 + i]
    BY <1>2
  <2> QED BY <2>1, <2>2
<1> QED BY <1>1, <1>2

\* A drain: from the queue q of a kind, it hands over t and leaves l.
HandsOver(kind, q, t, l) ==
    /\ pc # "done" /\ pending = <<>> /\ UNCHANGED <<accepted, cleared>>
    /\ Len(q) = Len(t) + Len(l) /\ pending' = t
    /\ \A i \in DOMAIN t : t[i] = q[i] /\ t[i][1] = kind
    /\ \A i \in DOMAIN l : l[i] = q[Len(t) + i]
    /\ \A m \in AllMessages : IF m[1] = kind THEN QueueOf(m) = q /\ QueueOf(m)' = l
                              ELSE QueueOf(m)' = QueueOf(m)

LEMMA DrainMoves ==
    ASSUME Typed, OrderInv, Elsewhere, NEW kind, NEW q \in Seq(AllMessages),
           NEW t \in Seq(AllMessages), NEW l \in Seq(AllMessages), HandsOver(kind, q, t, l)
    PROVE  OrderInv'
<1> USE DEF HandsOver
<1> PICK k \in Nat : k = Len(t)
  OBVIOUS
<1> PICK n \in Nat : n = Len(l)
  OBVIOUS
<1>1. DOMAIN t = 1 .. k /\ DOMAIN l = 1 .. n /\ DOMAIN q = 1 .. k + n
  OBVIOUS
<1> DEFINE To(m, p) == IF m[1] = kind /\ p[1] = 2
                       THEN IF p[2] <= k THEN <<1, p[2]>> ELSE <<2, p[2] - k>>
                       ELSE p
           F == [m \in AllMessages |-> [p \in Places(m) |-> To(m, p)]]
<1>2. ASSUME NEW m \in AllMessages
      PROVE  /\ \A p \in Places(m) : \/ \E i \in DOMAIN session : session[i] = User(m) /\ p = <<0, i>>
                                     \/ \E i \in DOMAIN QueueOf(m) : QueueOf(m)[i] = m /\ p = <<2, i>>
             /\ \A p \in Places(m) : To(m, p) \in Places(m)'
             /\ \A p \in Places(m)' : \E r \in Places(m) : p = To(m, r)
  <2>1. \A p : p \in Places(m) <=>
                \/ \E i \in DOMAIN session : session[i] = User(m) /\ p = <<0, i>>
                \/ \E i \in DOMAIN QueueOf(m) : QueueOf(m)[i] = m /\ p = <<2, i>>
    <3>1. DOMAIN pending = {}
      OBVIOUS
    <3> QED BY <3>1, PlaceForms, PlacesAre
  <2>2. \A p : p \in Places(m)' <=>
                \/ \E i \in DOMAIN session : session[i] = User(m) /\ p = <<0, i>>
                \/ \E i \in DOMAIN t : t[i] = m /\ p = <<1, i>>
                \/ \E i \in DOMAIN QueueOf(m)' : QueueOf(m)'[i] = m /\ p = <<2, i>>
    BY PlaceForms, PlacesAre DEF Elsewhere
  <2>3. CASE m[1] # kind
    <3>1. (\A i \in DOMAIN t : t[i] # m) /\ QueueOf(m)' = QueueOf(m) /\ \A p : To(m, p) = p
      BY <2>3
    <3> HIDE DEF To
    <3> QED BY <2>1, <2>2, <3>1
  <2>4. CASE m[1] = kind
    <3>1. QueueOf(m) = q /\ QueueOf(m)' = l
      BY <2>4
    <3>2. \A i \in Nat : /\ To(m, <<0, i>>) = <<0, i>>
                         /\ i <= k => To(m, <<2, i>>) = <<1, i>>
                         /\ i > k => To(m, <<2, i>>) = <<2, i - k>>
      BY <2>4
    <3>3. \A i \in DOMAIN session : To(m, <<0, i>>) = <<0, i>>
      OBVIOUS
    <3> HIDE DEF To
    <3>4. ASSUME NEW p \in Places(m) PROVE To(m, p) \in Places(m)'
      <4>1. CASE \E i \in DOMAIN session : session[i] = User(m) /\ p = <<0, i>>
        BY <2>2, <3>3, <4>1
      <4>2. ASSUME NEW i \in DOMAIN q, q[i] = m, p = <<2, i>> PROVE To(m, p) \in Places(m)'
        <5>1. CASE i <= k
          <6>1. i \in DOMAIN t /\ t[i] = m /\ i \in Nat
            BY <1>1, <4>2, <5>1
          <6>2. To(m, p) = <<1, i>>
            BY <3>2, <4>2, <5>1, <6>1
          <6> QED BY <2>2, <6>1, <6>2
        <5>2. CASE i > k
          <6>1. i \in Nat /\ i - k \in DOMAIN l /\ k + (i - k) = i
            BY <1>1, <4>2, <5>2
          <6>2. l[i - k] = m
            BY <4>2, <6>1
          <6>3. To(m, p) = <<2, i - k>>
            BY <3>2, <4>2, <5>2, <6>1
          <6> QED BY <2>2, <3>1, <6>1, <6>2, <6>3
        <5> QED BY <1>1, <5>1, <5>2
      <4> QED BY <2>1, <3>1, <4>1, <4>2
    <3>5. ASSUME NEW p \in Places(m)' PROVE \E r \in Places(m) : p = To(m, r)
      <4>1. CASE \E i \in DOMAIN session : session[i] = User(m) /\ p = <<0, i>>
        BY <2>1, <3>3, <4>1
      <4>2. ASSUME NEW i \in DOMAIN t, t[i] = m, p = <<1, i>> PROVE \E r \in Places(m) : p = To(m, r)
        <5>1. i \in DOMAIN q /\ q[i] = m /\ i <= k /\ i \in Nat
          BY <1>1, <4>2
        <5>2. <<2, i>> \in Places(m)
          BY <2>1, <3>1, <5>1
        <5> QED BY <3>2, <4>2, <5>1, <5>2
      <4>3. ASSUME NEW i \in DOMAIN l, l[i] = m, p = <<2, i>> PROVE \E r \in Places(m) : p = To(m, r)
        <5>1. k + i \in DOMAIN q /\ q[k + i] = m /\ k + i > k /\ (k + i) - k = i /\ k + i \in Nat
          BY <1>1, <4>3
        <5>2. <<2, k + i>> \in Places(m)
          BY <2>1, <3>1, <5>1
        <5>3. To(m, <<2, k + i>>) = p
          BY <3>2, <4>3, <5>1
        <5> QED BY <5>2, <5>3
      <4> QED BY <2>2, <3>1, <4>1, <4>2, <4>3
    <3> QED BY <2>1, <3>4, <3>5
  <2> QED BY <2>3, <2>4
<1>3. ASSUME NEW m \in AllMessages PROVE Places(m)' = {F[m][p] : p \in Places(m)}
  <2> HIDE DEF To
  <2>1. \A p \in Places(m) : F[m][p] = To(m, p)
    OBVIOUS
  <2> QED BY <1>2, <2>1
<1>4. ASSUME NEW m \in AllMessages, NEW n1 \in AllMessages, m[1] = n1[1],
             NEW p \in Places(m), NEW r \in Places(n1), Precedes(p, r)
      PROVE  Precedes(F[m][p], F[n1][r])
  <2>1. F[m][p] = To(m, p) /\ F[n1][r] = To(n1, r)
    OBVIOUS
  <2>2. \A i \in DOMAIN QueueOf(m) : i \in Nat
    BY DEF QueueOf, Typed, InputsTyped
  <2>3. \E i : p = <<0, i>> \/ (p = <<2, i>> /\ i \in Nat)
    BY <1>2, <2>2
  <2>4. \E i : r = <<0, i>> \/ (r = <<2, i>> /\ i \in Nat)
    BY <1>2, <1>4, <2>2 DEF QueueOf
  <2> QED BY <1>4, <2>1, <2>3, <2>4 DEF Precedes
<1> HIDE DEF F
<1> QED BY <1>3, <1>4, PlacesMove

\* The elements of a concatenation.
LEMMA JoinedParts ==
    ASSUME NEW S, NEW s \in Seq(S), NEW t \in Seq(S)
    PROVE  /\ DOMAIN (s \o t) = 1 .. Len(s) + Len(t)
           /\ \A i \in 1 .. Len(s) : (s \o t)[i] = s[i]
           /\ \A i \in 1 .. Len(t) : (s \o t)[Len(s) + i] = t[i]
OBVIOUS

LEMMA TurnMoves ==
    ASSUME Typed, OrderInv, session \in Seq(Range(session)), Turn
    PROVE  OrderInv'
<1> DEFINE said == [i \in DOMAIN pending |-> User(pending[i])]
<1> PICK N \in Nat : N = Len(session)
  OBVIOUS
<1> PICK k \in Nat : k = Len(pending)
  BY DEF Typed, InputsTyped
<1>1. /\ pc = "turn" /\ pending' = <<>> /\ UNCHANGED <<steer, followUp, accepted, cleared>>
      /\ session' = session \o said
  BY DEF Turn, Recorded
<1>2. DOMAIN pending = 1 .. k /\ DOMAIN session = 1 .. N
  BY DEF Typed, InputsTyped
<1>3. /\ DOMAIN session' = 1 .. N + k
      /\ \A i \in 1 .. N : session'[i] = session[i]
      /\ \A i \in 1 .. k : session'[N + i] = User(pending[i])
  <2> DEFINE S == Range(session) \cup {User(m) : m \in AllMessages}
  <2>1. said \in [1 .. k -> {User(m) : m \in AllMessages}]
    BY <1>2 DEF Typed, InputsTyped
  <2>2. said \in Seq({User(m) : m \in AllMessages}) /\ Len(said) = k
    BY <2>1, AsSequence
  <2>3. \A i \in 1 .. k : said[i] = User(pending[i])
    BY <1>2
  <2> HIDE DEF said
  <2>4. session \in Seq(S) /\ said \in Seq(S)
    BY <2>2
  <2> HIDE DEF S
  <2>5. /\ DOMAIN (session \o said) = 1 .. Len(session) + Len(said)
        /\ \A i \in 1 .. Len(session) : (session \o said)[i] = session[i]
        /\ \A i \in 1 .. Len(said) : (session \o said)[Len(session) + i] = said[i]
    BY <2>4, JoinedParts
  <2> QED BY <1>1, <2>2, <2>3, <2>5
<1> DEFINE To(p) == IF p[1] = 1 THEN <<0, N + p[2]>> ELSE p
           F == [m \in AllMessages |-> [p \in Places(m) |-> To(p)]]
<1>4. ASSUME NEW m \in AllMessages
      PROVE  /\ \A p : p \in Places(m) <=>
                      \/ \E i \in 1 .. N : session[i] = User(m) /\ p = <<0, i>>
                      \/ \E i \in 1 .. k : pending[i] = m /\ p = <<1, i>>
                      \/ \E i \in DOMAIN QueueOf(m) : QueueOf(m)[i] = m /\ p = <<2, i>>
             /\ \A p : p \in Places(m)' <=>
                      \/ \E i \in 1 .. N + k : session'[i] = User(m) /\ p = <<0, i>>
                      \/ \E i \in DOMAIN QueueOf(m) : QueueOf(m)[i] = m /\ p = <<2, i>>
  <2>1. DOMAIN pending' = {} /\ QueueOf(m)' = QueueOf(m)
    BY <1>1 DEF QueueOf
  <2> QED BY <1>2, <1>3, <2>1, PlaceForms, PlacesAre
<1>5. ASSUME NEW m \in AllMessages
      PROVE  /\ \A p \in Places(m) : To(p) \in Places(m)'
             /\ \A p \in Places(m)' : \E r \in Places(m) : p = To(r)
  <2>1. \A i : To(<<0, i>>) = <<0, i>> /\ To(<<1, i>>) = <<0, N + i>> /\ To(<<2, i>>) = <<2, i>>
    OBVIOUS
  <2>2. \A n \in AllMessages : User(m) = User(n) => m = n
    BY DEF User
  <2>3. \A i \in 1 .. k : pending[i] \in AllMessages
    BY <1>2 DEF Typed, InputsTyped
  <2> HIDE DEF To
  <2>4. ASSUME NEW p \in Places(m) PROVE To(p) \in Places(m)'
    <3>1. ASSUME NEW i \in 1 .. N, session[i] = User(m), p = <<0, i>> PROVE To(p) \in Places(m)'
      <4>1. i \in 1 .. N + k /\ session'[i] = User(m)
        BY <1>3, <3>1
      <4>2. <<0, i>> \in Places(m)'
        BY <1>4, <4>1
      <4> QED BY <2>1, <3>1, <4>2
    <3>2. ASSUME NEW i \in 1 .. k, pending[i] = m, p = <<1, i>> PROVE To(p) \in Places(m)'
      <4>1. N + i \in 1 .. N + k /\ session'[N + i] = User(m)
        BY <1>3, <3>2
      <4> PICK j \in 1 .. N + k : j = N + i
        BY <4>1
      <4>2. <<0, j>> \in Places(m)'
        BY <1>4, <4>1
      <4>3. To(p) = <<0, j>>
        BY <2>1, <3>2
      <4> QED BY <4>2, <4>3
    <3>3. CASE \E i \in DOMAIN QueueOf(m) : QueueOf(m)[i] = m /\ p = <<2, i>>
      BY <1>4, <2>1, <3>3
    <3> QED BY <1>4, <3>1, <3>2, <3>3
  <2>5. ASSUME NEW p \in Places(m)' PROVE \E r \in Places(m) : p = To(r)
    <3>1. ASSUME NEW i \in 1 .. N + k, session'[i] = User(m), p = <<0, i>>
          PROVE  \E r \in Places(m) : p = To(r)
      <4>1. CASE i \in 1 .. N
        <5>1. <<0, i>> \in Places(m)
          BY <1>3, <1>4, <3>1, <4>1
        <5> QED BY <2>1, <3>1, <5>1
      <4>2. CASE i \notin 1 .. N
        <5>1. i - N \in 1 .. k /\ N + (i - N) = i
          BY <4>2
        <5> PICK j \in 1 .. k : N + j = i
          BY <5>1
        <5>2. session'[i] = User(pending[j])
          BY <1>3
        <5>3. pending[j] = m
          BY <2>2, <2>3, <3>1, <5>2
        <5>4. <<1, j>> \in Places(m)
          BY <1>4, <5>3
        <5> QED BY <2>1, <3>1, <5>4
      <4> QED BY <4>1, <4>2
    <3>2. CASE \E i \in DOMAIN QueueOf(m) : QueueOf(m)[i] = m /\ p = <<2, i>>
      BY <1>4, <2>1, <3>2
    <3> QED BY <1>4, <3>1, <3>2
  <2> QED BY <2>4, <2>5
<1>6. ASSUME NEW m \in AllMessages PROVE Places(m)' = {F[m][p] : p \in Places(m)}
  <2> HIDE DEF To
  <2>1. \A p \in Places(m) : F[m][p] = To(p)
    OBVIOUS
  <2> QED BY <1>5, <2>1
<1>7. ASSUME NEW m \in AllMessages, NEW n \in AllMessages, m[1] = n[1],
             NEW p \in Places(m), NEW r \in Places(n), Precedes(p, r)
      PROVE  Precedes(F[m][p], F[n][r])
  <2>1. F[m][p] = To(p) /\ F[n][r] = To(r)
    OBVIOUS
  <2>2. \E i : (p = <<0, i>> /\ i \in 1 .. N) \/ (p = <<1, i>> /\ i \in 1 .. k) \/ p = <<2, i>>
    BY <1>4
  <2>3. \E i : (r = <<0, i>> /\ i \in 1 .. N) \/ (r = <<1, i>> /\ i \in 1 .. k) \/ r = <<2, i>>
    BY <1>4
  <2> QED BY <1>7, <2>1, <2>2, <2>3 DEF Precedes
<1> HIDE DEF F
<1> QED BY <1>1, <1>6, <1>7, PlacesMove

LEMMA AcceptMoves ==
    ASSUME Typed, OrderInv, NEW m \in AllMessages, Accept(m), UNCHANGED <<session, pending, cleared>>,
           QueueOf(m) \in Seq(AllMessages), QueueOf(m)' = Append(QueueOf(m), m),
           \A n \in AllMessages : IF n[1] = m[1]
                                  THEN QueueOf(n) = QueueOf(m) /\ QueueOf(n)' = QueueOf(m)'
                                  ELSE QueueOf(n)' = QueueOf(n)
    PROVE  OrderInv'
<1> PICK q \in Seq(AllMessages) : q = QueueOf(m)
  OBVIOUS
<1> PICK k \in Nat : k = Len(q)
  OBVIOUS
<1> PICK l \in Nat : l = Len(accepted)
  BY DEF Typed, InputsTyped
<1> PICK q1 \in Seq(AllMessages) : q1 = Append(q, m)
  OBVIOUS
<1>1. /\ DOMAIN q = 1 .. k /\ DOMAIN q1 = 1 .. k + 1
      /\ \A i \in 1 .. k : q1[i] = q[i]
      /\ q1[k + 1] = m
  OBVIOUS
<1>2. /\ pc # "done" /\ m \notin Range(accepted) /\ accepted' = Append(accepted, m)
      /\ Range(accepted') = Range(accepted) \cup {m}
  BY Appended DEF Accept, Typed, InputsTyped
<1>3. /\ DOMAIN accepted = 1 .. l /\ DOMAIN accepted' = 1 .. l + 1
      /\ \A i \in 1 .. l : accepted'[i] = accepted[i] /\ accepted[i] \in Range(accepted)
      /\ \A i \in 1 .. l : accepted[i] \in AllMessages
      /\ accepted'[l + 1] = m
  <2>1. accepted \in Seq(AllMessages)
    BY DEF Typed, InputsTyped
  <2>2. /\ DOMAIN accepted = 1 .. l /\ DOMAIN accepted' = 1 .. l + 1
        /\ \A i \in 1 .. l : accepted'[i] = accepted[i]
        /\ accepted'[l + 1] = m
    BY <1>2, <2>1
  <2>3. \A i \in 1 .. l : accepted[i] \in Range(accepted) /\ accepted[i] \in AllMessages
    BY <2>1, <2>2 DEF Range
  <2> QED BY <2>2, <2>3
<1>4. m \notin cleared /\ Places(m) = {}
  BY <1>2 DEF OrderInv, InputsInOrder
<1>5. Places(m)' = {<<2, k + 1>>}
  <2>1. \A p : p \notin PlacesIn(session, pending, q, m)
    BY <1>4, PlacesAre
  <2>2. /\ \A i \in DOMAIN session : session[i] # User(m)
        /\ \A i \in DOMAIN pending : pending[i] # m
        /\ \A i \in DOMAIN q : q[i] # m
    <3>1. \A i \in DOMAIN session :
             session[i] = User(m) => <<0, i>> \in PlacesIn(session, pending, q, m)
      BY PlaceForms
    <3>2. \A i \in DOMAIN pending : pending[i] = m => <<1, i>> \in PlacesIn(session, pending, q, m)
      BY PlaceForms
    <3>3. \A i \in DOMAIN q : q[i] = m => <<2, i>> \in PlacesIn(session, pending, q, m)
      BY PlaceForms
    <3> QED BY <2>1, <3>1, <3>2, <3>3
  <2>3. \A i \in DOMAIN q1 : q1[i] = m <=> i = k + 1
    BY <1>1, <2>2
  <2>4. k + 1 \in DOMAIN q1
    BY <1>1
  <2>5. /\ {i \in DOMAIN session : session[i] = User(m)} = {}
        /\ {i \in DOMAIN pending : pending[i] = m} = {}
        /\ {i \in DOMAIN q1 : q1[i] = m} = {k + 1}
    BY <2>2, <2>3, <2>4
  <2>6. PlacesIn(session, pending, q1, m) = ({0} \X {}) \cup ({1} \X {}) \cup ({2} \X {k + 1})
    BY <2>5 DEF PlacesIn
  <2>7. ({0} \X {}) \cup ({1} \X {}) \cup ({2} \X {k + 1}) = {<<2, k + 1>>}
    OBVIOUS
  <2>8. Places(m)' = PlacesIn(session, pending, q1, m)
    BY PlacesAre
  <2> QED BY <2>6, <2>7, <2>8
<1>6. ASSUME NEW n \in AllMessages, n # m PROVE Places(n)' = Places(n)
  <2>1. CASE n[1] = m[1]
    <3>1. /\ Places(n) = PlacesIn(session, pending, q, n)
          /\ Places(n)' = PlacesIn(session, pending, q1, n)
      BY <2>1, PlacesAre
    <3>2. \A i : i \in DOMAIN q1 /\ q1[i] = n <=> i \in DOMAIN q /\ q[i] = n
      BY <1>1, <1>6
    <3> QED BY <3>1, <3>2 DEF PlacesIn
  <2>2. CASE n[1] # m[1]
    BY <2>2, PlacesAre
  <2> QED BY <2>1, <2>2
<1>7. ASSUME NEW n \in AllMessages
      PROVE  IF n \in Range(accepted)' \ cleared' THEN \E p \in Places(n)' : Places(n)' = {p}
             ELSE Places(n)' = {}
  <2>1. CASE n = m
    BY <1>2, <1>4, <1>5, <2>1
  <2>2. CASE n # m
    BY <1>2, <1>6, <2>2 DEF OrderInv, InputsInOrder, Range
  <2> QED BY <2>1, <2>2
<1>8. ASSUME NEW i \in 1 .. l + 1, NEW j \in 1 .. l + 1, i < j, accepted'[i][1] = accepted'[j][1],
             NEW p \in Places(accepted[i])', NEW r \in Places(accepted[j])'
      PROVE  Precedes(p, r)
  <2> PICK a \in AllMessages : a = accepted[i]
    BY <1>3, <1>8
  <2>0. accepted'[j] \in AllMessages
    <3>1. CASE j = l + 1
      BY <1>3, <3>1
    <3>2. CASE j \in 1 .. l
      BY <1>3, <3>2
    <3> QED BY <3>1, <3>2
  <2> PICK b \in AllMessages : b = accepted'[j]
    BY <2>0
  <2>1. i \in 1 .. l /\ a # m /\ a = accepted'[i]
    BY <1>2, <1>3, <1>8
  <2>2. p \in Places(a)' /\ r \in Places(b)'
    BY <1>8, <2>1 DEF Places, QueueOf
  <2>3. p \in Places(a)
    BY <1>6, <2>1, <2>2
  <2>4. CASE j \in 1 .. l
    <3>1. b = accepted[j] /\ b # m
      <4>1. accepted'[j] = accepted[j] /\ accepted[j] \in Range(accepted)
        BY <1>3, <2>4
      <4> QED BY <1>2, <4>1
    <3>2. r \in Places(b)
      BY <1>6, <2>2, <3>1
    <3>3. i \in DOMAIN accepted /\ j \in DOMAIN accepted /\ a[1] = b[1]
      BY <1>3, <1>8, <2>1, <2>4
    <3> QED BY <1>2, <1>8, <2>3, <3>1, <3>2, <3>3 DEF OrderInv, InputsInOrder
  <2>5. CASE j = l + 1
    <3>1. b = m /\ r = <<2, k + 1>>
      BY <1>3, <1>5, <2>2, <2>5
    <3>2. p \in PlacesIn(session, pending, q, a)
      BY <1>8, <2>1, <2>3, <3>1, PlacesAre
    <3>3. \E n : p = <<0, n>> \/ p = <<1, n>> \/ (p = <<2, n>> /\ n \in 1 .. k)
      BY <1>1, <3>2, PlaceForms
    <3> QED BY <3>1, <3>3 DEF Precedes
  <2> QED BY <1>3, <2>4, <2>5
<1>9. \A p, r : Precedes(p, r)' <=> Precedes(p, r)
  BY DEF Precedes
<1>10. cleared' \subseteq Range(accepted)'
  BY <1>2 DEF OrderInv, Range
<1>11. \A i, j \in DOMAIN accepted' :
          i < j /\ accepted'[i][1] = accepted'[j][1] =>
              \A p \in Places(accepted[i])', r \in Places(accepted[j])' : Precedes(p, r)'
  BY <1>3, <1>8, <1>9
<1> QED BY <1>7, <1>10, <1>11 DEF OrderInv, InputsInOrder

LEMMA AbortMoves ==
    ASSUME Typed, OrderInv, Abort
    PROVE  OrderInv'
<1>1. /\ pc # "done" /\ UNCHANGED <<session, pending, accepted>>
      /\ steer' = <<>> /\ followUp' = <<>>
      /\ cleared' = cleared \cup Range(steer \o followUp)
  BY DEF Abort, history
<1>2. Range(steer \o followUp) = Range(steer) \cup Range(followUp)
  <2>1. steer \in Seq(AllMessages) /\ followUp \in Seq(AllMessages)
    BY DEF Typed, InputsTyped, AllMessages
  <2> DEFINE s == steer \o followUp
  <2>2. /\ DOMAIN s = 1 .. Len(steer) + Len(followUp)
        /\ \A i \in 1 .. Len(steer) + Len(followUp) :
              s[i] = IF i <= Len(steer) THEN steer[i] ELSE followUp[i - Len(steer)]
    BY <2>1
  <2>3. Range(s) \subseteq Range(steer) \cup Range(followUp)
    <3> SUFFICES ASSUME NEW i \in DOMAIN s PROVE s[i] \in Range(steer) \cup Range(followUp)
      BY DEF Range
    <3> HIDE DEF s
    <3>1. CASE i <= Len(steer)
      BY <2>1, <2>2, <3>1 DEF Range
    <3>2. CASE i > Len(steer)
      <4>1. i - Len(steer) \in 1 .. Len(followUp)
        BY <2>1, <2>2, <3>2
      <4> QED BY <2>1, <2>2, <3>2, <4>1 DEF Range
    <3> QED BY <2>1, <2>2, <3>1, <3>2
  <2> QED BY <2>1, <2>3, Joined
<1>3. ASSUME NEW m \in AllMessages
      PROVE  m \in Range(steer \o followUp) <=> \E i \in DOMAIN QueueOf(m) : QueueOf(m)[i] = m
  <2>1. /\ \A i \in DOMAIN steer : steer[i][1] = "steer"
        /\ \A i \in DOMAIN followUp : followUp[i][1] = "follow_up"
    BY DEF Typed, InputsTyped, Messages
  <2> QED BY <1>2, <2>1 DEF Range, QueueOf
<1>4. ASSUME NEW m \in AllMessages
      PROVE  \A p : p \in Places(m)' <=>
                \/ \E i \in DOMAIN session : session[i] = User(m) /\ p = <<0, i>>
                \/ \E i \in DOMAIN pending : pending[i] = m /\ p = <<1, i>>
  <2>1. DOMAIN QueueOf(m)' = {}
    BY <1>1 DEF QueueOf
  <2> QED BY <1>1, <2>1, PlaceForms, PlacesAre
<1>5. ASSUME NEW m \in AllMessages
      PROVE  \A p : p \in Places(m) <=>
                p \in Places(m)' \/ \E i \in DOMAIN QueueOf(m) : QueueOf(m)[i] = m /\ p = <<2, i>>
  BY <1>4, PlaceForms, PlacesAre
<1>6. ASSUME NEW m \in AllMessages, m \in Range(steer \o followUp)
      PROVE  m \in Range(accepted) /\ Places(m)' = {}
  <2>1. PICK i \in DOMAIN QueueOf(m) : QueueOf(m)[i] = m
    BY <1>3, <1>6
  <2>2. <<2, i>> \in Places(m)
    BY <1>5, <2>1
  <2>3. m \in Range(accepted) /\ Places(m) = {<<2, i>>}
    BY <1>1, <2>2 DEF OrderInv, InputsInOrder
  <2>4. \A j : <<2, i>> # <<0, j>> /\ <<2, i>> # <<1, j>>
    OBVIOUS
  <2> QED BY <1>4, <1>5, <2>3, <2>4
<1>7. ASSUME NEW m \in AllMessages, m \notin Range(steer \o followUp)
      PROVE  Places(m)' = Places(m) /\ (m \in cleared' <=> m \in cleared)
  BY <1>1, <1>3, <1>5, <1>7
<1>8. ASSUME NEW m \in AllMessages
      PROVE  IF m \in Range(accepted)' \ cleared' THEN \E p \in Places(m)' : Places(m)' = {p}
             ELSE Places(m)' = {}
  <2>1. CASE m \in Range(steer \o followUp)
    BY <1>1, <1>6, <2>1
  <2>2. CASE m \notin Range(steer \o followUp)
    BY <1>1, <1>7, <2>2 DEF OrderInv, InputsInOrder, Range
  <2> QED BY <2>1, <2>2
<1>9. ASSUME NEW i \in DOMAIN accepted, NEW j \in DOMAIN accepted,
             i < j, accepted[i][1] = accepted[j][1],
             NEW p \in Places(accepted[i])', NEW r \in Places(accepted[j])'
      PROVE  Precedes(p, r)
  <2> PICK a \in AllMessages, b \in AllMessages : a = accepted[i] /\ b = accepted[j]
    BY DEF Typed, InputsTyped
  <2>1. p \in Places(a)' /\ r \in Places(b)'
    BY <1>1, <1>9 DEF Places, QueueOf
  <2>2. p \in Places(a) /\ r \in Places(b)
    BY <1>5, <2>1
  <2> QED BY <1>1, <1>9, <2>2 DEF OrderInv, InputsInOrder
<1>10. \A p, r : Precedes(p, r)' <=> Precedes(p, r)
  BY DEF Precedes
<1>11. \A m \in Range(steer \o followUp) : m \in AllMessages
  BY <1>2 DEF Typed, InputsTyped, AllMessages, Range
<1>12. cleared' \subseteq Range(accepted)'
  BY <1>1, <1>6, <1>11 DEF OrderInv, Range
<1>13. \A i, j \in DOMAIN accepted' :
          i < j /\ accepted'[i][1] = accepted'[j][1] =>
              \A p \in Places(accepted[i])', r \in Places(accepted[j])' : Precedes(p, r)'
  BY <1>1, <1>9, <1>10
<1> QED BY <1>8, <1>12, <1>13 DEF OrderInv, InputsInOrder

\* What a step may do to the messages.
LEMMA InputMoves ==
    ASSUME Typed, InputInv, [Next]_vars, ~Turn
    PROVE  \/ /\ UNCHANGED <<steer, followUp, pending, accepted, cleared>>
              /\ pc' = "done" => pc = "done"
           \/ UNCHANGED <<accepted, cleared>> /\ pc' = "done"
           \/ /\ pc # "done" /\ pending = <<>> /\ UNCHANGED <<accepted, cleared>>
              /\ \/ pending' = Taken(steer) /\ steer' = Left(steer) /\ UNCHANGED followUp
                 \/ pending' = Taken(followUp) /\ followUp' = Left(followUp) /\ UNCHANGED steer
           \/ \E m \in Messages("steer", Steers) : Steer(m)
           \/ \E m \in Messages("follow_up", FollowUps) : FollowUp(m)
           \/ Abort
<1> DEFINE Still == /\ UNCHANGED <<steer, followUp, pending, accepted, cleared>>
                    /\ pc' = "done" => pc = "done"
           Drains == /\ pc # "done" /\ pending = <<>> /\ UNCHANGED <<accepted, cleared>>
                     /\ \/ pending' = Taken(steer) /\ steer' = Left(steer) /\ UNCHANGED followUp
                        \/ pending' = Taken(followUp) /\ followUp' = Left(followUp) /\ UNCHANGED steer
<1>1. CASE Start \/ Refuse \/ Ask \/ AttemptKilled \/ Retry \/ TryAgain \/ BackoffKilled
  <2>1. Still
    BY <1>1 DEF Start, Refuse, Ask, AttemptKilled, Retry, TryAgain, BackoffKilled, CompactFor,
      Returns, inputs
  <2> QED BY <2>1
<1>2. CASE (\E r \in Replies : Answer(r)) \/ Overflow \/ Record \/ Proceed \/ NextCall \/ AgentEnd
  <2>1. Still
    BY <1>2 DEF Answer, Returns, Overflow, Record, CompactFor, Proceed, NextCall, AgentEnd, inputs
  <2> QED BY <2>1
<1>3. CASE BatchEnds \/ BatchBreaks \/ RecordResult \/ CompactSucceeds \/ CompactFails \/ NotCompacted
  <2>1. Still
    BY <1>3 DEF BatchEnds, BatchBreaks, RecordResult, CompactSucceeds, CompactFails, NotCompacted,
      Resumes, RecordAborted, inputs
  <2> QED BY <2>1
<1>4. CASE Interrupt \/ Break \/ (\E k \in DOMAIN calls : CallStep(k)) \/ Over \/ UNCHANGED vars
  <2>1. Still
    BY <1>4 DEF Interrupt, Break, CallStep, Over, vars, inputs
  <2> QED BY <2>1
<1>5. CASE Settle
  BY <1>5 DEF Settle
<1>6. CASE Open
  <2>1. pending = <<>>
    BY <1>6 DEF Open, InputInv
  <2>2. Still \/ Drains
    BY <1>6, <2>1 DEF Open, RecordAborted, DrainSteer, inputs
  <2> QED BY <2>2
<1>7. CASE TurnEnd
  <2>1. pending = <<>>
    BY <1>7 DEF TurnEnd, InputInv
  <2>2. Still \/ Drains
    BY <1>7, <2>1 DEF TurnEnd, FollowUpOrEnd, DrainSteer, DrainFollowUp, inputs
  <2> QED BY <2>2
<1>8. CASE Compacted
  <2>1. pending = <<>>
    BY <1>8 DEF Compacted, InputInv
  <2>2. Still \/ Drains
    BY <1>8, <2>1 DEF Compacted, Resumes, FollowUpOrEnd, DrainFollowUp, inputs
  <2> QED BY <2>2
<1> QED
  BY <1>1, <1>2, <1>3, <1>4, <1>5, <1>6, <1>7, <1>8 DEF Next, RunStep

LEMMA OrderStep == Typed /\ InputInv /\ OrderInv /\ [Next]_vars => OrderInv'
<1> SUFFICES ASSUME Typed, InputInv, OrderInv, [Next]_vars PROVE OrderInv'
  OBVIOUS
<1>1. CASE Turn
  BY <1>1, TurnMoves DEF InputInv
<1>2. CASE pc' = "done" /\ UNCHANGED <<accepted, cleared>>
  BY <1>2 DEF OrderInv, InputsInOrder, Range
<1>3. CASE Abort
  BY <1>3, AbortMoves
<1>4. /\ steer \in Seq(AllMessages) /\ followUp \in Seq(AllMessages)
      /\ \A i \in DOMAIN steer : steer[i][1] = "steer"
      /\ \A i \in DOMAIN followUp : followUp[i][1] = "follow_up"
      /\ \A m \in AllMessages : m[1] \in {"steer", "follow_up"}
  BY DEF Typed, InputsTyped, AllMessages, Messages
<1>5. ASSUME ~Turn PROVE Elsewhere
  BY <1>5, OthersRecord DEF InputInv
<1>6. CASE ~Turn /\ pc # "done" /\ UNCHANGED <<steer, followUp, pending, accepted, cleared>>
  <2>1. ASSUME NEW m \in AllMessages PROVE Places(m)' = Places(m)
    <3>1. QueueOf(m)' = QueueOf(m)
      BY <1>6 DEF QueueOf
    <3> QED BY <1>5, <1>6, <3>1 DEF Places, Elsewhere
  <2> QED BY <1>6, <2>1, PlacesStay
<1>7. CASE /\ ~Turn /\ pc # "done" /\ pending = <<>> /\ UNCHANGED <<accepted, cleared>>
           /\ pending' = Taken(steer) /\ steer' = Left(steer) /\ UNCHANGED followUp
  <2>1. /\ Taken(steer) \in Seq(AllMessages) /\ Left(steer) \in Seq(AllMessages)
        /\ Len(steer) = Len(Taken(steer)) + Len(Left(steer))
        /\ \A i \in DOMAIN Taken(steer) : Taken(steer)[i] = steer[i]
        /\ \A i \in DOMAIN Left(steer) : Left(steer)[i] = steer[Len(Taken(steer)) + i]
    BY <1>4, DrainSplits
  <2>2. \A i \in DOMAIN Taken(steer) : Taken(steer)[i][1] = "steer"
    <3>1. \A i \in DOMAIN Taken(steer) : i \in DOMAIN steer
      BY <1>4, <2>1
    <3> QED BY <1>4, <2>1, <3>1
  <2>3. \A m \in AllMessages : IF m[1] = "steer" THEN QueueOf(m) = steer /\ QueueOf(m)' = Left(steer)
                               ELSE QueueOf(m)' = QueueOf(m)
    BY <1>7 DEF QueueOf
  <2>4. PICK q \in Seq(AllMessages), t \in Seq(AllMessages), l \in Seq(AllMessages) :
           q = steer /\ t = Taken(steer) /\ l = Left(steer)
    BY <1>4, <2>1
  <2>5. HandsOver("steer", q, t, l)
    BY <1>7, <2>1, <2>2, <2>3, <2>4 DEF HandsOver
  <2> QED BY <1>5, <1>7, <2>5, DrainMoves
<1>8. CASE /\ ~Turn /\ pc # "done" /\ pending = <<>> /\ UNCHANGED <<accepted, cleared>>
           /\ pending' = Taken(followUp) /\ followUp' = Left(followUp) /\ UNCHANGED steer
  <2>1. /\ Taken(followUp) \in Seq(AllMessages) /\ Left(followUp) \in Seq(AllMessages)
        /\ Len(followUp) = Len(Taken(followUp)) + Len(Left(followUp))
        /\ \A i \in DOMAIN Taken(followUp) : Taken(followUp)[i] = followUp[i]
        /\ \A i \in DOMAIN Left(followUp) : Left(followUp)[i] = followUp[Len(Taken(followUp)) + i]
    BY <1>4, DrainSplits
  <2>2. \A i \in DOMAIN Taken(followUp) : Taken(followUp)[i][1] = "follow_up"
    <3>1. \A i \in DOMAIN Taken(followUp) : i \in DOMAIN followUp
      BY <1>4, <2>1
    <3> QED BY <1>4, <2>1, <3>1
  <2>3. \A m \in AllMessages :
            IF m[1] = "follow_up" THEN QueueOf(m) = followUp /\ QueueOf(m)' = Left(followUp)
            ELSE QueueOf(m)' = QueueOf(m)
    BY <1>4, <1>8 DEF QueueOf
  <2>4. PICK q \in Seq(AllMessages), t \in Seq(AllMessages), l \in Seq(AllMessages) :
           q = followUp /\ t = Taken(followUp) /\ l = Left(followUp)
    BY <1>4, <2>1
  <2>5. HandsOver("follow_up", q, t, l)
    BY <1>8, <2>1, <2>2, <2>3, <2>4 DEF HandsOver
  <2> QED BY <1>5, <1>8, <2>5, DrainMoves
<1>9. ASSUME NEW m \in Messages("steer", Steers), Steer(m) PROVE OrderInv'
  <2>1. /\ m \in AllMessages /\ m[1] = "steer" /\ Accept(m) /\ UNCHANGED <<session, pending, cleared>>
        /\ steer' = Append(steer, m) /\ UNCHANGED followUp
    BY <1>9 DEF Steer, AllMessages, Messages, history
  <2>2. /\ QueueOf(m) \in Seq(AllMessages) /\ QueueOf(m)' = Append(QueueOf(m), m)
        /\ \A n \in AllMessages :
              IF n[1] = m[1] THEN QueueOf(n) = QueueOf(m) /\ QueueOf(n)' = QueueOf(m)'
              ELSE QueueOf(n)' = QueueOf(n)
    BY <1>4, <2>1 DEF QueueOf
  <2> QED BY <2>1, <2>2, AcceptMoves
<1>10. ASSUME NEW m \in Messages("follow_up", FollowUps), FollowUp(m) PROVE OrderInv'
  <2>1. /\ m \in AllMessages /\ m[1] = "follow_up" /\ Accept(m)
        /\ UNCHANGED <<session, pending, cleared>>
        /\ followUp' = Append(followUp, m) /\ UNCHANGED steer
    BY <1>10 DEF FollowUp, AllMessages, Messages, history
  <2>2. /\ QueueOf(m) \in Seq(AllMessages) /\ QueueOf(m)' = Append(QueueOf(m), m)
        /\ \A n \in AllMessages :
              IF n[1] = m[1] THEN QueueOf(n) = QueueOf(m) /\ QueueOf(n)' = QueueOf(m)'
              ELSE QueueOf(n)' = QueueOf(n)
    BY <1>4, <2>1 DEF QueueOf
  <2> QED BY <2>1, <2>2, AcceptMoves
<1>11. CASE pc = "done" /\ UNCHANGED <<accepted, cleared>>
  <2>1. pc' = "done" \/ Turn
    BY <1>11 DEF Next, RunStep, vars, Start, Refuse, Open, Ask, AttemptKilled, Retry, TryAgain,
      BackoffKilled, Overflow, Record, Proceed, NextCall, BatchEnds, BatchBreaks, RecordResult,
      TurnEnd, AgentEnd, Settle, Compacted, NotCompacted, Answer, CallStep, CompactSucceeds,
      CompactFails, Steer, FollowUp, Accept, Abort, Interrupt, Break, Over, Hookable
  <2> QED BY <1>1, <1>2, <1>11, <2>1
<1> QED BY <1>1, <1>2, <1>3, <1>6, <1>7, <1>8, <1>9, <1>10, <1>11, InputMoves

LEMMA OrderInit == Init => OrderInv
<1> SUFFICES ASSUME Init PROVE OrderInv
  OBVIOUS
<1>1. /\ session = History /\ pending = <<>> /\ steer = <<>> /\ followUp = <<>>
      /\ accepted = <<>> /\ cleared = {}
  BY DEF Init
<1>2. ASSUME NEW m \in AllMessages PROVE Places(m) = {}
  <2>1. \A i \in DOMAIN session : session[i] # User(m)
    BY <1>1, HistoryAssumption DEF Range
  <2>2. DOMAIN pending = {} /\ DOMAIN QueueOf(m) = {}
    BY <1>1 DEF QueueOf
  <2> QED BY <2>1, <2>2, PlaceForms, PlacesAre
<1>3. Range(accepted) = {} /\ DOMAIN accepted = {}
  BY <1>1 DEF Range
<1> QED BY <1>1, <1>2, <1>3 DEF OrderInv, InputsInOrder

-----------------------------------------------------------------------------
IInv == Typed /\ LogInv /\ StopInv /\ ToolInv /\ InputInv /\ OrderInv

LEMMA InitIInv == Init => IInv
<1> SUFFICES ASSUME Init PROVE IInv
  OBVIOUS
<1>1. Typed
  BY TypedInit
<1>2. LogInv
  <2>1. pc = "starting" /\ log = <<>>
    BY DEF Init
  <2> QED BY <2>1, NothingBelow DEF LogInv, Summing
<1>3. StopInv
  <2>1. aborted = FALSE /\ replies = 0 /\ repliesAtAbort = 0
    BY DEF Init
  <2> QED BY <2>1 DEF StopInv, AbortStops
<1>4. ToolInv
  BY DEF Init, ToolInv, Idle
<1>5. InputInv
  <2>1. pc = "starting" /\ session = History /\ complete = FALSE /\ pending = <<>>
        /\ accepted = <<>>
    BY DEF Init
  <2> QED BY <2>1, RunAssumption DEF InputInv, Summing, Range
<1> QED BY <1>1, <1>2, <1>3, <1>4, <1>5, OrderInit DEF IInv

LEMMA NextIInv == IInv /\ [Next]_vars => IInv'
BY TypedStep, LogStep, StopStep, IdleStep, InputStep, OrderStep DEF IInv

LEMMA AlwaysIInv == Spec => []IInv
BY InitIInv, NextIInv, PTL DEF Spec

LEMMA IInvIsOrderly == IInv => RunIsOrderly
<1> SUFFICES ASSUME IInv PROVE RunIsOrderly
  OBVIOUS
<1>1. TypeOK
  BY TypedIsTypeOK DEF IInv
<1>2. AttemptsPaired
  BY DEF IInv, LogInv, Paired, AttemptsPaired
<1>3. AbortStops
  BY DEF IInv, StopInv
<1>4. ToolsLeftBehind
  BY DEF IInv, ToolInv, Idle, ToolsLeftBehind
<1> QED BY <1>1, <1>2, <1>3, <1>4 DEF RunIsOrderly

LEMMA IInvAnswers == IInv => InputsAnswered
<1> SUFFICES ASSUME IInv, pc = "done", complete, NEW i \in DOMAIN accepted
             PROVE  \/ accepted[i] \in cleared \cup late
                    \/ accepted[i][1] = "steer" /\ Overflowed /\ Compacts
                    \/ \E j \in DOMAIN session : session[j] = User(accepted[i])
  BY DEF InputsAnswered
<1>1. Answered(accepted[i])
  BY DEF IInv, InputInv, Range
<1> QED BY <1>1 DEF Answered, Said, Range

\* Attempts are numbered upwards over the whole run, over retries, requests and
\* compactions, and end before the next one starts; after an abort one answer
\* comes at most; a tool outlives the run only if the run raised
\* (inference_runtime.py, request; control.py, cancel; tool_runtime.py).
THEOREM RunsAreOrderly == Spec => []RunIsOrderly
BY AlwaysIInv, IInvIsOrderly, PTL

\* Every accepted message that no abort cleared is in one place while the run
\* goes on, recorded, drained or queued, and after every one of its kind that was
\* accepted before it. A run that ends because nothing is left to do has recorded
\* them all, but for those that came after the last look at their queue, and
\* steering that the loop left behind when the answer to a turn without tools
\* overflowed (runner.py, _run_loop; control.py, _drain, cancel).
THEOREM InputsAreKept == Spec => []InputsKept
BY AlwaysIInv, IInvAnswers, PTL DEF IInv, OrderInv, InputsKept
=============================================================================
