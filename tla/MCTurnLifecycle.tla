-------------------------- MODULE MCTurnLifecycle ---------------------------
(* TurnLifecycle for TLC. *)
EXTENDS TurnLifecycle, TLC

CONSTANTS t1, t2, c1, a, b

\* A turn and a command of one session.
TurnAndCommand == (t1 :> a) @@ (c1 :> a)
\* Two turns of one session.
TwoTurns == (t1 :> a) @@ (t2 :> a)
\* One turn alone.
OneTurn == (t1 :> a)
=============================================================================
