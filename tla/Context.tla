------------------------------- MODULE Context -------------------------------
(***************************************************************************)
(* What a model is shown of a session: the messages of a branch after its  *)
(* compactions (Session.get_branch, build_context) and the projection that *)
(* makes them acceptable to a provider (project_inference_messages).       *)
(*                                                                         *)
(* A branch is a sequence of entries, oldest first: user messages,         *)
(* assistant messages with a number of tool calls, tool results, and       *)
(* compactions, which keep the entries from the index "keep" on.           *)
(***************************************************************************)
EXTENDS Naturals, SequencesExt

User(m) == [kind |-> "user", id |-> m]
Summary(i) == [kind |-> "summary", at |-> i]
Assistant(n, stop, calls) == [kind |-> "assistant", id |-> n, stop |-> stop, calls |-> calls]
Result(n, k, how) == [kind |-> "result", of |-> <<n, k>>, how |-> how]
Compaction(keep) == [kind |-> "compaction", keep |-> keep]

IsFailed(m) == m.kind = "assistant" /\ m.stop \in {"error", "aborted"}

\* Where get_branch stops walking back from the end of the branch s: at the
\* entry kept by the compaction it passed last.
BranchStart(s) ==
    LET walk[i \in 0 .. Len(s), stop \in 0 .. Len(s)] ==
            IF i = 0 THEN 1
            ELSE IF i = stop THEN i
            ELSE walk[i - 1, IF s[i].kind = "compaction" THEN s[i].keep ELSE stop]
    IN  walk[Len(s), 0]

LastCompaction(s) ==
    SelectLastInSeq(s, LAMBDA e : e.kind = "compaction")

\* build_context: the latest compaction of the branch speaks first, as its
\* summary; the others stay where they are.
BuildContext(s) ==
    LET first == BranchStart(s)
        last == LastCompaction(s)
        kept == SelectSeq([i \in 1 .. Len(s) |-> i],
                          LAMBDA i : i >= first /\ i # last)
        order == IF last = 0 THEN kept ELSE <<last>> \o kept
    IN  [k \in DOMAIN order |->
            IF s[order[k]].kind = "compaction" THEN Summary(order[k]) ELSE s[order[k]]]

\* A slip: open calls are left open.
NoOrphans(s, i) == <<>>

\* flush_orphans before position i of s: the calls of the open assistant
\* message that have no result get one that says so.
Orphans(s, i) ==
    LET open == SelectLastInSubSeq(s, 1, i - 1, LAMBDA m : m.kind # "result")
        answered == {s[j].of : j \in open + 1 .. i - 1}
    IN  IF (i <= Len(s) /\ s[i].kind = "result") \/ open = 0 THEN <<>>
        ELSE IF s[open].kind # "assistant" \/ IsFailed(s[open]) THEN <<>>
        ELSE SelectSeq([k \in 1 .. s[open].calls |-> Result(s[open].id, k, "none")],
                       LAMBDA r : r.of \notin answered)

\* project_inference_messages.
Project(s) ==
    FlattenSeq([i \in 1 .. Len(s) + 1 |->
        Orphans(s, i) \o IF i > Len(s) \/ IsFailed(s[Min({i, Len(s)})]) THEN <<>> ELSE <<s[i]>>])

\* What a provider accepts: every tool call has exactly one result before the
\* next user or assistant message, and there is no other result.
Acceptable(s) ==
    \A i \in DOMAIN s :
        LET own(j) == \A k \in i + 1 .. j : s[k].kind = "result"
            block == {j \in i + 1 .. Len(s) : own(j)}
        IN  /\ s[i].kind = "assistant" =>
                /\ ~IsFailed(s[i])
                /\ \A k \in 1 .. s[i].calls : \E j \in block : s[j].of = <<s[i].id, k>>
                /\ \A j \in block : s[j].of[1] = s[i].id
                /\ \A j1, j2 \in block : s[j1].of = s[j2].of => j1 = j2
            /\ s[i].kind \in {"user", "summary"} => block = {}
            /\ s[i].kind = "result" => i > 1
=============================================================================
