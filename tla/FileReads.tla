------------------------------ MODULE FileReads ------------------------------
(***************************************************************************)
(* The read tool (tool/filesystem.py: ReadTool, _read_text_window;         *)
(* tool/base.py: truncate_head) and a reader who goes on at the line it is *)
(* told, or, when it has set a limit, behind the lines it asked for.       *)
(*                                                                         *)
(* A line is what readline() returns, and a sequence of the sizes of what  *)
(* splitlines() makes of it, which also splits at form feeds and others.   *)
(***************************************************************************)
EXTENDS Integers, Sequences, SequencesExt

CONSTANTS
    MaxBytes, MaxLines,     \* DEFAULT_MAX_BYTES, DEFAULT_MAX_LINES
    Files,                  \* sequences of lines
    Limits,
    None

VARIABLES
    lines,
    start,      \* the lines before the next page
    shown,      \* the numbers of the lines on the pages, one for each part of them
    tooLong,    \* lines that the reader was told to look at with sed
    over        \* the reader was not told to go on

readVars == <<lines, start, shown, tooLong, over>>

TypeOK ==
    /\ lines \in Files /\ start \in Nat /\ over \in BOOLEAN
    /\ \A k \in DOMAIN shown : shown[k] \in 0 .. Len(lines)
    /\ tooLong \subseteq DOMAIN lines

Init == lines \in Files /\ start = 0 /\ shown = <<>> /\ tooLong = {} /\ over = FALSE

----------------------------------------------------------------------------
\* The parts with the characters between them.
Size(line) == FoldLeft(LAMBDA a, b : a + b, Len(line) - 1, line)

\* An empty file has one line.
Total == IF lines = <<>> THEN 1 ELSE Len(lines)

\* The part that stands for what the window leaves out.
Sentinel(long) == [of |-> 0, size |-> IF long THEN MaxBytes + 1 ELSE 9]

Parts(i) == [k \in DOMAIN lines[i] |-> [of |-> i, size |-> lines[i][k]]]

\* The numbers of the lines asked for.
Selection(limit) ==
    LET all == [k \in 1 .. Len(lines) - start |-> start + k]
    IN  IF limit = None \/ limit > Len(all) THEN all ELSE SubSeq(all, 1, limit)

Fits(w, i) ==
    /\ Size(lines[i]) <= MaxBytes /\ Len(w.lines) < MaxLines
    /\ w.bytes + Size(lines[i]) + 1 <= MaxBytes

Scanned(limit) ==
    FoldLeft(LAMBDA w, i :
                 IF w.stopped \/ ~Fits(w, i) THEN [w EXCEPT !.stopped = TRUE]
                 ELSE [w EXCEPT !.lines = Append(@, i), !.bytes = @ + Size(lines[i]) + 1],
             [lines |-> <<>>, bytes |-> 0, stopped |-> FALSE], Selection(limit))

Joined(numbers) == FlattenSeq([k \in DOMAIN numbers |-> Parts(numbers[k])])

\* Slip: what the scan left out is not stood for.
Unmarked(limit) == Joined(Scanned(limit).lines)

\* _read_text_window
ReadWindow(limit) ==
    LET w == Scanned(limit)
    IN  Joined(w.lines) \o (IF w.stopped THEN <<Sentinel(Len(w.lines) < MaxLines)>> ELSE <<>>)

\* splitlines() does not see an empty last part.
Split(text) == IF text # <<>> /\ Last(text).size = 0 THEN Front(text) ELSE text

\* truncate_head: an empty last part that it did not see is shown if all the others are.
TruncateHead(text) ==
    LET parts == Split(text)
        end == FoldLeft(LAMBDA t, p :
                   IF t.by # None THEN t
                   ELSE IF t.count = 0 /\ p.size + 1 > MaxBytes THEN [t EXCEPT !.by = "bytes", !.first = TRUE]
                   ELSE IF t.count >= MaxLines THEN [t EXCEPT !.by = "lines"]
                   ELSE IF t.bytes + p.size + 1 > MaxBytes THEN [t EXCEPT !.by = "bytes"]
                   ELSE [t EXCEPT !.count = @ + 1, !.bytes = @ + p.size + 1],
                   [count |-> 0, bytes |-> 0, by |-> None, first |-> FALSE], parts)
        output == IF end.count = Len(parts) THEN text ELSE SubSeq(parts, 1, end.count)
    IN  [by |-> end.by, first |-> end.first, count |-> end.count,
         of |-> [k \in DOMAIN output |-> output[k].of]]

\* ReadTool.execute, and where its reader goes on.
Read(limit) ==
    LET page == TruncateHead(ReadWindow(limit))
    IN  /\ ~over /\ start < Total
        /\ shown' = shown \o page.of
        /\ IF page.first
           THEN tooLong' = tooLong \cup {start + 1} /\ start' = start + 1 /\ over' = (start' = Total)
           ELSE /\ UNCHANGED tooLong
                /\ IF page.by # None THEN start' = start + page.count /\ UNCHANGED over
                   ELSE IF limit # None THEN start' = start + limit /\ over' = (start' >= Total)
                   ELSE over' = TRUE /\ UNCHANGED start
        /\ UNCHANGED lines

\* "Offset {offset} is beyond end of file"
Beyond == ~over /\ start >= Total /\ over' = TRUE /\ UNCHANGED <<lines, start, shown, tooLong>>

Next == (\E limit \in Limits : Read(limit)) \/ Beyond

Spec == Init /\ [][Next]_readVars

----------------------------------------------------------------------------
Plain == \A i \in DOMAIN lines : Len(lines[i]) = 1

\* "truncate_head remains the single source of truncation metadata ... so it observes
\* the same bounded condition" (_read_text_window): a page is what truncate_head
\* makes of all the lines asked for, though the scan keeps only some of them.  Only of
\* an empty last line that has no room the scan says so, and truncate_head does not.
WindowSuffices ==
    Plain => \A limit \in Limits :
        LET all == Joined(Selection(limit))
        IN  all # <<>> /\ Last(all).size > 0 => TruncateHead(ReadWindow(limit)) = TruncateHead(all)

\* In a file whose lines splitlines() does not split further, who reads on where it
\* is told to sees no line twice and leaves none out but those it is told are too
\* long.  In others it may miss lines, since the offset it is told counts the parts,
\* and only the order of what it sees is kept.
ReadsOn ==
    Plain => /\ \A k, m \in DOMAIN shown : k < m => shown[k] < shown[m]
             /\ \A i \in DOMAIN lines : i <= start \/ over => i \in ToSet(shown) \cup tooLong
InOrder == \A k, m \in DOMAIN shown : k < m => shown[k] <= shown[m]

\* Pages are cut and followed up as said, in files that are Plain; in all files
\* their lines come in order (ReadTool).
FileReadsSafe == TypeOK /\ WindowSuffices /\ ReadsOn /\ InOrder
=============================================================================
