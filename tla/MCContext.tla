------------------------------ MODULE MCContext -----------------------------
(***************************************************************************)
(* What a thread shows and what its model is shown, each on its own small  *)
(* instance: the branch and its compactions, the timeline of a turn, the   *)
(* driver of a provider, the rows of threads, and a file that the model    *)
(* reads page by page; and the processes of one data directory. A          *)
(* behaviour is about one of them; the others stay as they are.            *)
(***************************************************************************)
EXTENDS DataDir, Integers, Sequences

CONSTANTS
    Window, ReserveTokens, KeepRecentTokens, UnitTokens, RequestTokens, Skews, Sizes,
    MaxEntries,
    MaxAttempts, MaxParts, MaxNames, MaxRetries, MaxSource, MaxChunk, MaxContent, MaxPieces,
    Threads, Turns, Requests, Lanes, MaxBytes, MaxLines, Files, Limits

VARIABLE part   \* the component a behaviour is about
VARIABLES compactionSkew, compactionBranch, compactionCache, compactionWork
VARIABLES timelineNamed, timelinePhase, timelineAttempt, timelineParts, timelineTools,
          timelineTruncated, timelineBlocks, timelineRow, timelineEntries
VARIABLES providerSource, providerVision, providerTags, providerNaming, providerPhase,
          providerAttempt, providerRetrying, providerNotices, providerOpen,
          providerContent, providerBuffer, providerThinking, providerTold,
          providerParts, providerCalls, providerSaw, providerFinish, providerMessage,
          providerPieces
VARIABLES rowsLane, rowsRow, rowsCreated, rowsTurn, rowsKept, rowsRequest, rowsAuto,
          rowsAsked, rowsMoved, rowsTold, rowsMarked, rowsLate, rowsAlone
VARIABLES readsLines, readsStart, readsShown, readsTooLong, readsOver

InCompaction == INSTANCE Compaction WITH skew <- compactionSkew,
    branch <- compactionBranch, cache <- compactionCache, work <- compactionWork
InTimeline == INSTANCE Timeline WITH named <- timelineNamed, phase <- timelinePhase,
    attempt <- timelineAttempt, parts <- timelineParts, tools <- timelineTools,
    truncated <- timelineTruncated, blocks <- timelineBlocks, row <- timelineRow,
    entries <- timelineEntries
InProvider == INSTANCE Provider WITH source <- providerSource, vision <- providerVision,
    tags <- providerTags, naming <- providerNaming, phase <- providerPhase,
    attempt <- providerAttempt, retrying <- providerRetrying,
    notices <- providerNotices, open <- providerOpen, content <- providerContent,
    buffer <- providerBuffer, thinking <- providerThinking, told <- providerTold,
    parts <- providerParts, calls <- providerCalls, saw <- providerSaw,
    finish <- providerFinish, message <- providerMessage, pieces <- providerPieces
InThreadRows == INSTANCE ThreadRows WITH lane <- rowsLane, row <- rowsRow,
    created <- rowsCreated, turn <- rowsTurn, kept <- rowsKept, request <- rowsRequest,
    auto <- rowsAuto, asked <- rowsAsked, moved <- rowsMoved, told <- rowsTold,
    marked <- rowsMarked, late <- rowsLate, alone <- rowsAlone
InFileReads == INSTANCE FileReads WITH lines <- readsLines, start <- readsStart,
    shown <- readsShown, tooLong <- readsTooLong, over <- readsOver

ASSUME CompactionAssumption == InCompaction!Parameters

compactionPart == <<compactionSkew, compactionBranch, compactionCache, compactionWork>>

timelinePart == <<timelineNamed, timelinePhase, timelineAttempt, timelineParts,
    timelineTools, timelineTruncated, timelineBlocks, timelineRow, timelineEntries>>

providerPart == <<providerSource, providerVision, providerTags, providerNaming,
    providerPhase, providerAttempt, providerRetrying, providerNotices, providerOpen,
    providerContent, providerBuffer, providerThinking, providerTold, providerParts,
    providerCalls, providerSaw, providerFinish, providerMessage, providerPieces>>

rowsPart == <<rowsLane, rowsRow, rowsCreated, rowsTurn, rowsKept, rowsRequest, rowsAuto,
    rowsAsked, rowsMoved, rowsTold, rowsMarked, rowsLate, rowsAlone>>

readsPart == <<readsLines, readsStart, readsShown, readsTooLong, readsOver>>

MCSkews == {-1, 1}
MCSizes == [user |-> {1}, assistant |-> {1}, result |-> {2}]

MCFiles == UNION {[1 .. n -> {<<0>>, <<1>>, <<2>>, <<4>>, <<5>>, <<1, 1>>}] : n \in 0 .. 4}

ContextInit ==
    /\ part \in {"directory", "compaction", "timeline", "provider", "rows", "reads"}
    /\ Init
    /\ InCompaction!Init
    /\ part # "compaction" => compactionSkew = CHOOSE s \in Skews : TRUE
    /\ InTimeline!Init
    /\ part # "timeline" => timelineNamed = "own"
    /\ InProvider!Init
    /\ part # "provider" => providerSource = <<>> /\ providerVision /\ ~providerTags /\ providerNaming = "first"
    /\ InThreadRows!Init
    /\ part # "rows" => rowsLane = "order"
    /\ InFileReads!Init
    /\ part # "reads" => readsLines = <<>>

OthersStay ==
    /\ UNCHANGED part
    /\ part # "directory" => UNCHANGED dataVars
    /\ part # "compaction" => UNCHANGED compactionPart
    /\ part # "timeline" => UNCHANGED timelinePart
    /\ part # "provider" => UNCHANGED providerPart
    /\ part # "rows" => UNCHANGED rowsPart
    /\ part # "reads" => UNCHANGED readsPart

\* Bound: a turn whose beginning is compacted is not shown, and its timeline is
\* compared with nothing: compactions are looked at in runs that are not broken off,
\* with calls that have names of their own.
CompactedApart ==
    (\E i \in DOMAIN timelineEntries' : timelineEntries'[i].kind = "compaction")
        => timelineNamed = "own" /\ timelinePhase' # "broken"

ContextNext ==
    /\ \/ part = "directory" /\ Next
       \/ part = "compaction" /\ InCompaction!Next
       \/ part = "timeline" /\ InTimeline!Next /\ CompactedApart
       \/ part = "provider" /\ InProvider!Next
       \/ part = "rows" /\ InThreadRows!Next
       \/ part = "reads" /\ InFileReads!Next
    /\ OthersStay

ContextVars == <<part, dataVars, compactionPart, timelinePart, providerPart, rowsPart, readsPart>>

ContextSpec ==
    /\ ContextInit /\ [][ContextNext]_ContextVars

----------------------------------------------------------------------------
\* The other parts stay in their initial states, so each property is asked only of
\* the behaviours about its part.

\* Compactions forget no entry, separate no result from its call and keep a tail
\* that fits; the estimate, the statistics and their shares are those of a scan
\* of the whole branch.
CompactionSafe == part = "compaction" => InCompaction!CompactionSafe

\* Batches are whole, retries are told with their end, responses are closed, how
\* an answer is cut into chunks does not matter, and what is told is the message.
ProviderSafe == part = "provider" => InProvider!ProviderSafe

\* Archived threads are not pinned, the list is in the order asked for, unread
\* and at-work marks are told and true, and names and settings agree with the
\* session's where no requests overlap.
ThreadRowsSafe == part = "rows" => InThreadRows!ThreadRowsSafe

\* A turn's row follows its events, attempts have blocks of their own, nothing is
\* shown at work when the turn has ended, and the timeline read back from the
\* session is the one that was streamed, but for attempts that were broken off and
\* calls that were named late.  Whoever reads a file page by page sees its lines in
\* order; and in a file whose lines splitlines() does not split further each line
\* once, but those it is told are too long, on pages that are cut as if all the file
\* had been kept.
ShownIsThere ==
    /\ part = "timeline" => InTimeline!TimelineSafe
    /\ part = "reads" => InFileReads!FileReadsSafe
=============================================================================
