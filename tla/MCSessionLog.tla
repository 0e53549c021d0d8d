---------------------------- MODULE MCSessionLog ----------------------------
(* SessionLog for TLC: two Session objects on one file. *)
EXTENDS SessionLog, TLC

AnySession == Permutations(Handles)

\* A machine that dies takes the process with it, so what a Crash leaves is what a
\* Kill and then a Crash leave: the same states are reached when only a machine on
\* which no process runs crashes, by fewer steps.
NoProcess == \A h \in Handles : ~open[h] /\ ~timer[h] /\ call[h] = Idle /\ lock[h] = "free"

LogNext ==
    \/ \E h \in Handles : Progress(h) \/ Environment(h)
    \/ Kill
    \/ NoProcess /\ Crash

LogSpec == Init /\ [][LogNext]_vars
=============================================================================
