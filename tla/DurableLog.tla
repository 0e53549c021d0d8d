------------------------------ MODULE DurableLog ------------------------------
(***************************************************************************)
(* What a session file promises those who append to it: entries come after *)
(* one another and are never changed; a crash takes back the last of them, *)
(* as many as are not on stable storage; and an entry whose durable append *)
(* has returned is there for good.                                         *)
(***************************************************************************)
EXTENDS Naturals, Sequences

CONSTANT Entries

VARIABLES
    log,        \* the entries in the file
    stable,     \* how many of them no crash takes back
    told        \* those that a durable append has returned for

logVars == <<log, stable, told>>

Init == log = <<>> /\ stable = 0 /\ told = {}

Add(e) ==
    /\ \A i \in DOMAIN log : log[i] # e
    /\ log' = Append(log, e)
    /\ UNCHANGED <<stable, told>>

Stabilise == stable' = Len(log) /\ UNCHANGED <<log, told>>

Tell(e) ==
    /\ \E i \in 1 .. stable : log[i] = e
    /\ told' = told \cup {e}
    /\ UNCHANGED <<log, stable>>

Lose ==
    /\ \E n \in stable .. Len(log) : log' = SubSeq(log, 1, n) /\ stable' = n
    /\ UNCHANGED told

Next == (\E e \in Entries : Add(e) \/ Tell(e)) \/ Stabilise \/ Lose

Spec == Init /\ [][Next]_logVars
=============================================================================
