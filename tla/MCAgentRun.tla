----------------------------- MODULE MCAgentRun ------------------------------
(***************************************************************************)
(* Four instances of AgentRun, checked in one run: the queues; retries and *)
(* tools; compaction and overflow; and breakdowns of the run.  "part" says *)
(* which one a behaviour is of.                                            *)
(***************************************************************************)
EXTENDS AgentRun

VARIABLE part

\* An earlier turn that broke off between the results of its tool calls.
EarlierTurn == <<User(<<"earlier", 1>>), Assistant(100, "toolUse", 2), Result(100, 1, "ok")>>

Reply(stop, n, seq, over, again) ==
    [stop |-> stop, calls |-> n, sequential |-> seq, overflow |-> over, retry |-> again]

Finished == Reply("stop", 0, FALSE, FALSE, FALSE)
Parallel == Reply("toolUse", 2, FALSE, FALSE, FALSE)
Sequential == Reply("toolUse", 2, TRUE, FALSE, FALSE)
Truncated == Reply("length", 1, FALSE, FALSE, FALSE)
Rejected == Reply("error", 0, FALSE, FALSE, FALSE)
Throttled == Reply("error", 0, FALSE, FALSE, TRUE)
TooLong == Reply("error", 0, FALSE, TRUE, FALSE)
CutShort == Reply("length", 0, FALSE, TRUE, FALSE)
Silent == Reply("stop", 0, FALSE, TRUE, FALSE)
AllReplies == {Finished, Parallel, Sequential, Truncated, Rejected, Throttled, TooLong, CutShort, Silent}

Queues == INSTANCE AgentRun WITH
    Replies <- {Finished, Truncated}, Compacts <- FALSE, Breaks <- FALSE
Loop == INSTANCE AgentRun WITH
    Steers <- 1, FollowUps <- 0,
    Replies <- {Finished, Parallel, Truncated, Throttled}, Compacts <- FALSE, Breaks <- FALSE
Window == INSTANCE AgentRun WITH
    Replies <- {Finished, Sequential, TooLong}, MaxReplies <- 3,
    FollowUps <- 0, Aborts <- FALSE, Breaks <- FALSE
Failing == INSTANCE AgentRun WITH
    Replies <- {Finished, Parallel, Sequential, Rejected, Throttled, CutShort, Silent},
    MaxReplies <- 1, Steers <- 0, FollowUps <- 0

Of(queues, loop, window, failing) ==
    \/ part = "queues" /\ queues
    \/ part = "loop" /\ loop
    \/ part = "window" /\ window
    \/ part = "failing" /\ failing

MCInit == Init /\ part \in {"queues", "loop", "window", "failing"}

MCNext ==
    /\ UNCHANGED part
    /\ Of(Queues!Next, Loop!Next, Window!Next, Failing!Next)

MCSpec ==
    /\ MCInit /\ [][MCNext]_<<vars, part>>
    /\ WF_vars(Of(Queues!RunStep, Loop!RunStep, Window!RunStep, Failing!RunStep))
    /\ WF_vars(Of(Queues!ProviderStep, Loop!ProviderStep, Window!ProviderStep, Failing!ProviderStep))
    /\ WF_vars(Of(Queues!CompactorStep, Loop!CompactorStep, Window!CompactorStep, Failing!CompactorStep))
    /\ WF_vars(Of(Queues!ToolStep, Loop!ToolStep, Window!ToolStep, Failing!ToolStep))
=============================================================================
