----------------------------- MODULE Compaction -----------------------------
(***************************************************************************)
(* Compaction of a session and the count of its tokens.                    *)
(*                                                                         *)
(* A branch grows by messages; when the model's window is nearly full, or  *)
(* overflows, or the user asks, prepare_compaction cuts it in two: what    *)
(* comes before the cut is summarized, request by request, together with   *)
(* the summary before it, and an entry says from where on the messages are *)
(* kept.  The tokens of what a model is shown are estimated, from the last *)
(* usage a provider reported on, and Session.stats keeps the sums of that  *)
(* scan up to date instead of making it again.                             *)
(*                                                                         *)
(* An entry's id is its place in the branch.  Going back to an earlier     *)
(* entry leaves a prefix of the branch.                                    *)
(***************************************************************************)
EXTENDS Context, FiniteSets, Integers

CONSTANTS
    Window,             \* the model's context window
    ReserveTokens,      \* of it, what an answer needs
    KeepRecentTokens,   \* how much of a branch a compaction keeps
    UnitTokens,         \* the largest turn that is summarized as one piece
    RequestTokens,      \* how much one request to summarize holds
    Skews,              \* how far a provider's count may be from the estimates
    Sizes,              \* kind -> the estimates of such messages
    MaxEntries,         \* bound: entries of the branch
    None

\* Budgets and sizes are in tokens; a message has one at least.
Parameters ==
    /\ {Window, ReserveTokens, KeepRecentTokens, UnitTokens, RequestTokens} \subseteq Nat
    /\ Sizes \in [{"user", "assistant", "result"} -> SUBSET (Nat \ {0})] /\ Skews \subseteq Int

VARIABLES
    skew,       \* how far this provider's usage is from the estimates
    branch,     \* the entries from the root to the leaf
    cache,      \* Session._context_stats_cache
    work        \* the compaction at work

compactionVars == <<skew, branch, cache, work>>

IsMessage(e) == e.kind \in {"user", "assistant", "result"}

Entry(id, kind, size, stop, usage) ==
    [id |-> id, kind |-> kind, size |-> size, stop |-> stop, usage |-> usage]

\* Summaries are short.
SizeOf(m) == IF IsMessage(m) THEN m.size ELSE 1

TotalOf(ms) == FoldLeft(LAMBDA sum, m : sum + SizeOf(m), 0, ms)

\* The messages of a branch's context: some entries hold none.
Messages(s) == SelectSeq(BuildContext(s), LAMBDA m : m.kind # "other")

----------------------------------------------------------------------------
(* The estimate: estimate_context_tokens, and Session.stats.               *)

Reports(m) == m.kind = "assistant" /\ ~IsFailed(m) /\ m.usage > 0

\* Slip: only the summary itself is old.
BoundaryAtSummary(s) == IF LastCompaction(s) = 0 THEN 0 ELSE 1

\* How many messages of the context are older than its latest compaction:
\* the usage reported on them is that of a longer context.
Boundary(s) ==
    LET last == LastCompaction(s)
        fresh == SelectSeq(SubSeq(s, last + 1, Len(s)), LAMBDA e : e.kind # "other")
    IN  IF last = 0 THEN 0 ELSE Len(Messages(s)) - Len(fresh)

EstimateContextTokens(s) ==
    LET ms == Messages(s)
        anchor == SelectLastInSubSeq(ms, Boundary(s) + 1, Len(ms), Reports)
    IN  IF anchor = 0 THEN TotalOf(ms)
        ELSE ms[anchor].usage + TotalOf(SubSeq(ms, anchor + 1, Len(ms)))

Types == {"system", "user", "assistant", "result"}

MessageType(m) == IF m.kind \in {"assistant", "result"} THEN m.kind ELSE "user"

\* _ContextStatsCache.append.
Counted(c, m, trusted) ==
    [c EXCEPT !.tokens[MessageType(m)] = @ + SizeOf(m),
              !.anchor = IF trusted /\ Reports(m) THEN m.usage ELSE @,
              !.trailing = IF trusted /\ Reports(m) THEN 0
                           ELSE IF c.anchor # 0 THEN @ + SizeOf(m) ELSE @]

Empty == [tokens |-> [t \in Types |-> 0], anchor |-> 0, trailing |-> 0]

\* _context_stats_cache: the scan.
Scan(s) ==
    LET ms == Messages(s)
        sums[n \in 0 .. Len(ms)] ==
            IF n = 0 THEN Empty ELSE Counted(sums[n - 1], ms[n], n > Boundary(s))
    IN  sums[Len(ms)]

SumOf(tokens) == FoldFunction(+, 0, tokens)

UsedTokens(c) == IF c.anchor = 0 THEN SumOf(c.tokens) ELSE c.anchor + c.trailing

\* Slip: remainders are dropped.
ScaleDown(tokens, total) ==
    [t \in DOMAIN tokens |->
        IF SumOf(tokens) = 0 THEN 0 ELSE (tokens[t] * total) \div SumOf(tokens)]

\* _scale_tokens: shares of a total, the largest remainders rounded up.
ScaleTokens(tokens, total) ==
    LET source == SumOf(tokens)
        down == [t \in DOMAIN tokens |-> (tokens[t] * total) \div source]
        left(t) == (tokens[t] * total) % source
        before(t, u) == left(t) > left(u) \/ (left(t) = left(u) /\ t \in {"system", "user"}
                                              /\ u \in {"assistant", "result"})
    IN  IF source <= 0 \/ total <= 0 THEN [t \in DOMAIN tokens |-> 0]
        ELSE LET order == SetToSortSeq(DOMAIN tokens, before)
                 up == {order[k] : k \in 1 .. total - SumOf(down)}
             IN  [t \in DOMAIN tokens |-> down[t] + IF t \in up THEN 1 ELSE 0]

\* context_statistics_from_aggregates: what the estimates do not explain is
\* the system's; if they exceed what was used, they are scaled to it.
Attributed(c) ==
    IF SumOf(c.tokens) <= UsedTokens(c)
    THEN [c.tokens EXCEPT !["system"] = @ + UsedTokens(c) - SumOf(c.tokens)]
    ELSE ScaleTokens(c.tokens, UsedTokens(c))

BasisPoints(c) == ScaleTokens(Attributed(c), 10000)

----------------------------------------------------------------------------
(* The cut: prepare_compaction.                                            *)

Reserve == Max({1, Min({ReserveTokens, Window \div 4})})

\* effective_context_policy
KeepRecent == Max({1, Min({KeepRecentTokens, (Window - Reserve) \div 2})})

ShouldCompact(s) == EstimateContextTokens(s) > Window - Reserve

\* Slip: a tool result may be the first message that is kept.
AnyCut(s) == {i \in BranchStart(s) .. Len(s) : IsMessage(s[i])}

CutPoints(s) == {i \in BranchStart(s) .. Len(s) : s[i].kind \in {"user", "assistant"}}

MessagesIn(s, from, to) == SelectSeq(SubSeq(s, from, to), IsMessage)

Weight(s, from) == TotalOf(MessagesIn(s, from, Len(s)))

\* Slip: the message that fills the budget is kept, and one more.
ReachesLate(s, budget) ==
    {i \in BranchStart(s) .. Len(s) : IsMessage(s[i]) /\ Weight(s, i) > budget}

\* The messages from which on the budget is filled.
Reaches(s, budget) ==
    {i \in BranchStart(s) .. Len(s) : IsMessage(s[i]) /\ Weight(s, i) >= budget}

\* The first message that may be kept, among the recent ones; or the first of
\* all, if none of the recent ones may.
CutFor(s, budget) ==
    LET reached == Reaches(s, budget)
        recent == {i \in CutPoints(s) : reached # {} /\ i >= Max(reached)}
    IN  IF recent = {} THEN Min(CutPoints(s)) ELSE Min(recent)

\* An overflow cuts in any case.
Cut(s, keep, force) ==
    IF force /\ Reaches(s, keep) = {} /\ Weight(s, BranchStart(s)) > 0
    THEN CutFor(s, Max({1, Weight(s, BranchStart(s)) \div 2}))
    ELSE CutFor(s, keep)

\* If an answer is cut off from its question, the question.
TurnStart(s, cut) ==
    LET questions == {i \in BranchStart(s) .. cut - 1 : s[i].kind = "user"}
    IN  IF s[cut].kind = "assistant" /\ questions # {} THEN Max(questions) ELSE cut

\* Slip: the earlier summary is not passed on.
PreviousNone(s) == {}

\* What the summary of the branch so far tells of.
Previous(s) == IF LastCompaction(s) < BranchStart(s) THEN {} ELSE s[LastCompaction(s)].covers

\* serialize_conversation: failed answers are left out.
Told(ms) == SelectSeq(ms, LAMBDA m : ~IsFailed(m))

\* _conversation_units: turns, or messages where a turn is too long.
Units(ms) ==
    LET first(n) == n = 1 \/ ms[n].kind = "user"
        starts == SelectSeq([n \in 1 .. Len(ms) |-> n], first)
        turn(k) == Told(SubSeq(ms, starts[k], IF k = Len(starts) THEN Len(ms) ELSE starts[k + 1] - 1))
        pieces(t) == IF TotalOf(t) <= UnitTokens THEN <<t>> ELSE [n \in DOMAIN t |-> <<t[n]>>]
    IN  SelectSeq(FlattenSeq([k \in 1 .. Len(starts) |-> pieces(turn(k))]), LAMBDA t : t # <<>>)

Prepare(s, keep, force) ==
    LET cut == Cut(s, keep, force)
        turn == TurnStart(s, cut)
    IN  [keep |-> cut, covers |-> Previous(s),
         history |-> MessagesIn(s, BranchStart(s), turn - 1),
         prefix |-> MessagesIn(s, turn, cut - 1)]

Needed(p) == p.history # <<>> \/ p.prefix # <<>>

\* Messages of which nothing can be told.
Untold(ms) == ms # <<>> /\ Units(ms) = <<>>

BeginCompaction(reason, divisor) ==
    /\ work = None /\ branch # <<>> /\ Last(branch).kind # "compaction"
    /\ Len(branch) < MaxEntries
    /\ reason = "threshold" => ShouldCompact(branch)
    /\ CutPoints(branch) # {}
    /\ LET keep == IF reason = "overflow" THEN Max({1, KeepRecent \div divisor}) ELSE KeepRecent
           p == Prepare(branch, keep, reason = "overflow")
       IN  /\ Needed(p) /\ ~Untold(p.history) /\ ~Untold(p.prefix)
           /\ work' = [keep |-> p.keep, covers |-> p.covers,
                       history |-> Units(p.history), prefix |-> Units(p.prefix)]
    /\ UNCHANGED <<skew, branch, cache>>

\* How many units one request holds; the first is cut to its size.
Fits(units) ==
    CHOOSE n \in 1 .. Len(units) :
        /\ \A k \in 2 .. n : TotalOf(FlattenSeq(SubSeq(units, 1, k))) <= RequestTokens
        /\ \/ n = Len(units)
           \/ TotalOf(FlattenSeq(SubSeq(units, 1, n + 1))) > RequestTokens

Ids(units) == {m.id : m \in ToSet(FlattenSeq(units))}

\* _rolling_summary: one request; its answer stands for what it was shown.
Summarize(part) ==
    /\ work # None /\ work[part] # <<>>
    /\ part = "prefix" => work.history = <<>>
    /\ LET n == Fits(work[part])
       IN  work' = [work EXCEPT ![part] = SubSeq(@, n + 1, Len(@)),
                                !.covers = @ \cup Ids(SubSeq(work[part], 1, n))]
    /\ UNCHANGED <<skew, branch, cache>>

\* A request fails, is cancelled, or its answer is empty.
SummarizeFails == work # None /\ work' = None /\ UNCHANGED <<skew, branch, cache>>

----------------------------------------------------------------------------
(* The branch.                                                             *)

\* Slip: the sums are kept whatever was appended.
CacheKept(e) == IF cache # None /\ IsMessage(e) THEN Counted(cache, e, TRUE) ELSE cache

\* A message is added to the sums; anything else drops them.
CacheAfter(e) == IF cache # None /\ IsMessage(e) THEN Counted(cache, e, TRUE) ELSE None

Appended(e) ==
    /\ Len(branch) < MaxEntries
    /\ branch' = Append(branch, e) /\ cache' = CacheAfter(e)

Next_ == Len(branch) + 1

UserMessage(size) ==
    /\ work = None /\ Appended(Entry(Next_, "user", size, "none", 0)) /\ UNCHANGED <<skew, work>>

MayAnswer == Messages(branch) # <<>> /\ Last(Messages(branch)).kind # "summary"

\* A provider reports the tokens it was shown and those of its answer.
Answer(size) ==
    /\ work = None /\ MayAnswer
    /\ LET shown == TotalOf(Messages(branch)) + size + skew
       IN  Appended(Entry(Next_, "assistant", size, "stop", Max({shown, 0})))
    /\ UNCHANGED <<skew, work>>

Unreported(size) ==
    /\ work = None /\ MayAnswer
    /\ Appended(Entry(Next_, "assistant", size, "stop", 0)) /\ UNCHANGED <<skew, work>>

Failure ==
    /\ work = None /\ MayAnswer /\ ~IsFailed(Last(Messages(branch)))
    /\ Appended(Entry(Next_, "assistant", 0, "error", 0)) /\ UNCHANGED <<skew, work>>

ToolResult(size) ==
    LET messages == MessagesIn(branch, 1, Len(branch))
        call == SelectLastInSeq(messages, LAMBDA m : m.kind # "result")
    IN  /\ work = None /\ call # 0 /\ messages[call].kind = "assistant" /\ ~IsFailed(messages[call])
        /\ Appended(Entry(Next_, "result", size, "none", 0)) /\ UNCHANGED <<skew, work>>

\* The end of a turn, a name, a label.
Other ==
    /\ work = None /\ branch # <<>> /\ Last(branch).kind \in {"assistant", "compaction"}
    /\ Appended(Entry(Next_, "other", 0, "none", 0)) /\ UNCHANGED <<skew, work>>

\* navigate_tree, and the summary of what is left behind.
Navigate(to, summary) ==
    /\ work = None /\ to \in 1 .. Len(branch) - 1
    /\ branch' = SubSeq(branch, 1, to)
                 \o IF summary THEN <<Entry(to + 1, "branch", 0, "none", 0)>> ELSE <<>>
    /\ summary => MessagesIn(branch, to + 1, Len(branch)) # <<>>
    /\ cache' = None /\ UNCHANGED <<skew, work>>

EndCompaction ==
    /\ work # None /\ work.history = <<>> /\ work.prefix = <<>> /\ work' = None
    /\ Appended([kind |-> "compaction", keep |-> work.keep, covers |-> work.covers])
    /\ UNCHANGED skew

Stats == work = None /\ cache = None /\ cache' = Scan(branch) /\ UNCHANGED <<skew, branch, work>>

----------------------------------------------------------------------------
Init == skew \in Skews /\ branch = <<>> /\ cache = None /\ work = None

Next ==
    \/ \E size \in Sizes.user : UserMessage(size)
    \/ \E size \in Sizes.assistant : Answer(size) \/ Unreported(size)
    \/ \E size \in Sizes.result : ToolResult(size)
    \/ Failure \/ Other
    \/ \E to \in 1 .. MaxEntries, summary \in BOOLEAN : Navigate(to, summary)
    \/ \E reason \in {"explicit", "threshold"} : BeginCompaction(reason, 1)
    \/ \E divisor \in {1, 2} : BeginCompaction("overflow", divisor)
    \/ \E part \in {"history", "prefix"} : Summarize(part)
    \/ SummarizeFails \/ EndCompaction \/ Stats

Spec == Init /\ [][Next]_compactionVars

----------------------------------------------------------------------------
TypeOK ==
    /\ skew \in Skews /\ Len(branch) <= MaxEntries
    /\ \A i \in DOMAIN branch :
           /\ branch[i].kind \in {"user", "assistant", "result", "compaction", "branch", "other"}
           /\ branch[i].kind # "compaction" => branch[i].id = i
           /\ branch[i].kind = "compaction" => branch[i].keep \in 1 .. i - 1
    /\ cache # None => cache.tokens \in [Types -> Nat] /\ cache.anchor \in Nat /\ cache.trailing \in Nat
    /\ work # None => work.keep \in DOMAIN branch

\* Whatever was compacted how often, a model knows of every message of its
\* branch: it is shown it, or the latest summary was made of it.
NothingForgotten ==
    LET last == LastCompaction(branch)
        shown == {m.id : m \in {n \in ToSet(Messages(branch)) : IsMessage(n)}}
    IN  \A i \in DOMAIN branch : IsMessage(branch[i]) /\ ~IsFailed(branch[i]) =>
            i \in shown \/ (last # 0 /\ i \in branch[last].covers)

\* A context never shows a tool's result without the call before it, wherever
\* the branch was cut.
ResultsHaveCalls ==
    LET ms == Messages(branch)
    IN  \A k \in DOMAIN ms : ms[k].kind = "result" =>
            \E c \in 1 .. k - 1 : /\ ms[c].kind = "assistant"
                                  /\ \A j \in c + 1 .. k - 1 : ms[j].kind \notin {"user", "assistant"}

\* All messages a compaction kept, but for the first, are within its budget.
TailFits ==
    \A i \in DOMAIN branch : branch[i].kind = "compaction" =>
        TotalOf(MessagesIn(branch, branch[i].keep + 1, i - 1)) < KeepRecent

\* The estimate is that of the very context a model is shown, give or take
\* what the provider counts differently: it never rests on a usage reported on
\* a context that has been cut since.
EstimateExact ==
    EstimateContextTokens(branch) - TotalOf(Messages(branch)) \in {0, skew}

\* The sums that are kept up to date are those of a full scan, and so are the
\* tokens that are told.
StatsExact ==
    cache # None => /\ cache = Scan(branch)
                    /\ UsedTokens(cache) = EstimateContextTokens(branch)

\* The shares that are shown add up to what is used, and to 100 %.
SharesAddUp ==
    cache # None /\ UsedTokens(cache) > 0 =>
        /\ SumOf(Attributed(cache)) = UsedTokens(cache)
        /\ SumOf(BasisPoints(cache)) = 10000

\* Compactions forget no entry, separate no result from its call and keep a tail
\* that fits; the estimate, the statistics and their shares are those of a scan
\* of the whole branch.
CompactionSafe ==
    /\ TypeOK /\ NothingForgotten /\ ResultsHaveCalls /\ TailFits /\ EstimateExact
    /\ StatsExact /\ SharesAddUp
=============================================================================
