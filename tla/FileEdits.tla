------------------------------ MODULE FileEdits ------------------------------
(***************************************************************************)
(* The tools that change a file of the workspace (tool/filesystem.py:      *)
(* EditTool, WriteTool; tool/base.py: mutation_lock, atomic_write_bytes).  *)
(* Calls of one turn share a ToolContext and its locks; those of turns of  *)
(* other threads have a context of their own, and the user's editor and    *)
(* the commands of a shell have none.                                      *)
(*                                                                         *)
(* A text is a sequence of characters, "cr" and "lf" among them, that may  *)
(* begin with "bom".                                                       *)
(***************************************************************************)
EXTENDS Naturals, Sequences, SequencesExt, FiniteSetsExt, TLC

CONSTANTS
    EditCalls,
    EditJobs,       \* [file, does, context, outside, calm]: what calls meet and do;
                    \* calm if none fails or is cut off
    None

VARIABLES
    job,
    versions,   \* the texts the file has had, and who wrote them
    pc,
    base,       \* call -> the version it read
    text,       \* call -> what it is going to write
    lock,       \* context -> the call that holds the file's lock
    aborts,     \* context -> how often the calls at work in it were cancelled
    temps,      \* temporary files: the calls that made them
    killed

editVars == <<job, versions, pc, base, text, lock, aborts, temps, killed>>

Ended == {"done", "failed", "cut", "gone"}
Busy == {"reading", "writing", "replacing"}

TypeOK ==
    /\ job \in EditJobs /\ Len(versions) > 0 /\ temps \subseteq EditCalls
    /\ \A c \in EditCalls : /\ pc[c] \in Ended \cup Busy \cup {"idle", "waiting"}
                            /\ base[c] \in 0 .. Len(versions)
    /\ \A x \in DOMAIN lock : lock[x] # None => pc[lock[x]] \in Busy /\ job.context[lock[x]] = x

Init ==
    /\ job \in EditJobs
    /\ versions = <<[by |-> None, text |-> job.file]>>
    /\ pc = [c \in EditCalls |-> "idle"] /\ base = [c \in EditCalls |-> 0]
    /\ text = [c \in EditCalls |-> <<>>]
    /\ lock = [x \in {job.context[c] : c \in EditCalls} |-> None]
    /\ aborts = [x \in DOMAIN lock |-> 0] /\ temps = {} /\ killed = FALSE

Content == Last(versions).text

----------------------------------------------------------------------------
(* What an edit makes of a text.                                           *)

HasBom(t) == t # <<>> /\ t[1] = "bom"
Bom(t) == IF HasBom(t) THEN <<"bom">> ELSE <<>>
Decoded(t) == IF HasBom(t) THEN Tail(t) ELSE t

LineEnding(t) ==
    IF \E i \in 1 .. Len(t) - 1 : t[i] = "cr" /\ t[i + 1] = "lf" THEN <<"cr", "lf">> ELSE <<"lf">>

\* replace("\r\n", "\n").replace("\r", "\n")
Normal(t) ==
    LET kept == SelectSeq([i \in DOMAIN t |-> i],
                          LAMBDA i : ~(t[i] = "lf" /\ i > 1 /\ t[i - 1] = "cr"))
    IN  [k \in DOMAIN kept |-> IF t[kept[k]] = "cr" THEN "lf" ELSE t[kept[k]]]

Rendered(t, ending) == FlattenSeq([i \in DOMAIN t |-> IF t[i] = "lf" THEN ending ELSE <<t[i]>>])

Occurrences(old, t) ==
    {i \in 1 .. Len(t) + 1 - Len(old) : SubSeq(t, i, i + Len(old) - 1) = old}

Start(old, t) == Min(Occurrences(old, t))

\* finditer goes on behind each match, so that matches do not overlap.
MatchesOnce(old, t) ==
    /\ old # <<>> /\ Occurrences(old, t) # {}
    /\ \A i \in Occurrences(old, t) : i < Start(old, t) + Len(old)

Overlapping(edits, t) ==
    \E i, j \in DOMAIN edits :
        i # j /\ Start(edits[j].old, t) \in Start(edits[i].old, t) ..
                                            Start(edits[i].old, t) + Len(edits[i].old) - 1

\* Slip: the first replacement moves the places of the others.
FirstToLast(edits, t) == SortSeq(edits, LAMBDA e, f : Start(e.old, t) < Start(f.old, t))

LastToFirst(edits, t) == SortSeq(edits, LAMBDA e, f : Start(e.old, t) > Start(f.old, t))

Changed(edits, t) ==
    FoldLeft(LAMBDA s, e : LET at == Start(e.old, t)
                           IN  SubSeq(s, 1, at - 1) \o e.new \o SubSeq(s, at + Len(e.old), Len(s)),
             t, LastToFirst(edits, t))

\* The text an edit writes, None if it is refused.
Edited(edits, t) ==
    LET original == Normal(Decoded(t))
        normal == [k \in DOMAIN edits |-> [old |-> Normal(edits[k].old), new |-> Normal(edits[k].new)]]
    IN  IF (\E k \in DOMAIN edits : ~MatchesOnce(normal[k].old, original)) \/ Overlapping(normal, original)
        THEN None
        ELSE Bom(t) \o Rendered(Changed(normal, original), LineEnding(Decoded(t)))

----------------------------------------------------------------------------
(* The calls.                                                              *)

Does(c) == job.does[c]
IsEdit(c) == Does(c) # None /\ Does(c).kind = "edit"

Aborts(c) == aborts[job.context[c]]

\* After an abort the tool runtime starts no call any more.
Begin(c) ==
    /\ pc[c] = "idle" /\ Does(c) # None /\ Aborts(c) = 0 /\ pc' = [pc EXCEPT ![c] = "waiting"]
    /\ UNCHANGED <<job, versions, base, text, lock, aborts, temps, killed>>

\* Slip: every call has a lock of its own.
LockIsFree(c) == TRUE

MutationLock(c) == lock[job.context[c]] = None

Lock(c) ==
    /\ pc[c] = "waiting" /\ MutationLock(c)
    /\ lock' = [lock EXCEPT ![job.context[c]] = c] /\ pc' = [pc EXCEPT ![c] = "reading"]
    /\ UNCHANGED <<job, versions, base, text, aborts, temps, killed>>

\* The call ends, cancelled if an abort has found it at work.
Release(c, end) ==
    /\ pc' = [pc EXCEPT ![c] = IF Aborts(c) > 0 THEN "cut" ELSE end]
    /\ lock' = [x \in DOMAIN lock |-> IF lock[x] = c THEN None ELSE lock[x]]

TextOf(c) ==
    IF ~IsEdit(c) THEN Does(c).text
    ELSE IF Content = None THEN None ELSE Edited(Does(c).edits, Content)

\* A worker thread reads the file, or makes the directory for it.
Read(c) ==
    /\ pc[c] = "reading" /\ base' = [base EXCEPT ![c] = Len(versions)]
    /\ LET t == IF Aborts(c) > 0 THEN None ELSE TextOf(c)
       IN  IF t = None
           THEN Release(c, "failed") /\ UNCHANGED text
           ELSE /\ pc' = [pc EXCEPT ![c] = "writing"] /\ text' = [text EXCEPT ![c] = t]
                /\ UNCHANGED lock
    /\ UNCHANGED <<job, versions, aborts, temps, killed>>

WriteTemp(c) ==
    /\ pc[c] = "writing" /\ pc' = [pc EXCEPT ![c] = "replacing"] /\ temps' = temps \cup {c}
    /\ UNCHANGED <<job, versions, base, text, lock, aborts, killed>>

\* The thread comes to its end although the call was cancelled meanwhile.
Replace(c) ==
    /\ pc[c] = "replacing"
    /\ versions' = Append(versions, [by |-> c, text |-> text[c]]) /\ temps' = temps \ {c}
    /\ Release(c, "done")
    /\ UNCHANGED <<job, base, text, aborts, killed>>

CallFails(c) ==
    /\ pc[c] \in Busy /\ ~job.calm /\ temps' = temps \ {c}
    /\ Release(c, "failed")
    /\ UNCHANGED <<job, versions, base, text, aborts, killed>>

\* The calls of a turn are cancelled, by a turn.cancel and once more by a stop.  The
\* first time a call awaits its thread (run_blocking); the second time it gives up
\* the lock and leaves the thread behind.
Cancel(x) ==
    /\ ~job.calm /\ aborts[x] < 2 /\ aborts' = [aborts EXCEPT ![x] = @ + 1]
    /\ pc' = [c \in EditCalls |-> IF job.context[c] = x /\ pc[c] = "waiting" THEN "cut" ELSE pc[c]]
    /\ lock' = IF aborts[x] = 1 THEN [lock EXCEPT ![x] = None] ELSE lock
    /\ UNCHANGED <<job, versions, base, text, temps, killed>>

\* The user, or a command, writes the file (bound: once).
Outside ==
    /\ job.outside # None /\ \A v \in DOMAIN versions : versions[v].by # "outside"
    /\ versions' = Append(versions, [by |-> "outside", text |-> job.outside])
    /\ UNCHANGED <<job, pc, base, text, lock, aborts, temps, killed>>

Kill ==
    /\ ~job.calm /\ ~killed /\ killed' = TRUE
    /\ pc' = [c \in EditCalls |-> IF pc[c] \in Busy \cup {"waiting"} THEN "gone" ELSE pc[c]]
    /\ lock' = [x \in DOMAIN lock |-> None]
    /\ UNCHANGED <<job, versions, base, text, aborts, temps>>

Step == \E c \in EditCalls : Lock(c) \/ Read(c) \/ WriteTemp(c) \/ Replace(c) \/ CallFails(c)

Next == Step \/ (\E c \in EditCalls : Begin(c)) \/ (\E x \in DOMAIN lock : Cancel(x)) \/ Outside \/ Kill

Fairness == WF_editVars(Step)

Spec == Init /\ [][Next]_editVars /\ Fairness

----------------------------------------------------------------------------
\* Line ends that are all alike.
Uniform(t) ==
    \/ \A i \in DOMAIN t : t[i] # "cr"
    \/ \A i \in DOMAIN t : /\ t[i] = "cr" => i < Len(t) /\ t[i + 1] = "lf"
                           /\ t[i] = "lf" => i > 1 /\ t[i - 1] = "cr"

\* t with each place where an old text is, in t's own line ends, replaced.
Spliced(t, edits) ==
    LET own(s) == Rendered(Normal(s), LineEnding(t))
        at(e) == Start(own(e.old), t)
        piece(i) == LET starting == {e \in ToSet(edits) : at(e) = i}
                    IN  IF starting # {} THEN own((CHOOSE e \in starting : TRUE).new)
                        ELSE IF \E e \in ToSet(edits) : i \in at(e) .. at(e) + Len(own(e.old)) - 1
                             THEN <<>> ELSE <<t[i]>>
    IN  FlattenSeq([i \in DOMAIN t |-> piece(i)])

\* An edit puts the new texts where the old ones were and leaves every other
\* character alone, the file's byte order mark and line ends included; in a file
\* that mixes line ends it changes those (EditTool.execute).
EditsExact ==
    \A v \in DOMAIN versions : versions[v].by \in EditCalls /\ IsEdit(versions[v].by) =>
        LET c == versions[v].by
            t == versions[base[c]].text
        IN  Uniform(t) => versions[v].text = Spliced(t, Does(c).edits)

\* An edit is one of what the last call of its turn wrote: what it overwrites
\* unseen comes from another turn, or from outside (mutation_lock).
EditsInTurn ==
    \A v \in DOMAIN versions : versions[v].by \in EditCalls /\ IsEdit(versions[v].by) =>
        \A k \in base[versions[v].by] + 1 .. v - 1 :
            versions[k].by = "outside" \/ job.context[versions[k].by] # job.context[versions[v].by]

\* A call that says it failed has changed nothing; one that says it is done
\* has written the file once, and one that was cancelled has at most.
ToldIsDone ==
    \A c \in EditCalls :
        LET n == Cardinality({v \in DOMAIN versions : versions[v].by = c})
        IN  /\ pc[c] = "failed" => n = 0
            /\ pc[c] = "done" => n = 1
            /\ n <= 1

\* Temporary files in the workspace are removed, except by a kill.
TempsRemoved == \A c \in temps : pc[c] \in Busy \cup {"gone"}

\* No call is under way.
AllOver == \A c \in EditCalls : pc[c] \in Ended \cup {"idle"}

\* Edits change what they name and nothing else, calls of a turn do not undo each
\* other, and what a call says of itself is so.
FileEditsSafe == TypeOK /\ EditsExact /\ EditsInTurn /\ ToldIsDone /\ TempsRemoved
=============================================================================
