----------------------------- MODULE MCTimerManual -----------------------------
(***************************************************************************)
(* Finite instances of TimerManual.                                        *)
(***************************************************************************)
EXTENDS TimerManual

\* Calls of install, uninstall, start, restart, stop, advance and fire.
Calls(i, u, s, r, p, a, f) ==
    [install |-> i, uninstall |-> u, start |-> s, restart |-> r, stop |-> p,
     advance |-> a, fire |-> f]

BudgetManual == Calls(3, 1, 2, 1, 1, 2, 1)
=============================================================================
