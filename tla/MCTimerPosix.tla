----------------------------- MODULE MCTimerPosix -----------------------------
(***************************************************************************)
(* Finite instances of TimerPosix: the values the .cfg files give to its   *)
(* constants that are not numbers or model values.                         *)
(***************************************************************************)
EXTENDS TimerPosix, TLC

FdSymmetry == Permutations(Fds) \cup Permutations(Clients)

\* What the rest of a behaviour, and the properties of the safety run, depend on:
\* not the history, not the fields of a free slot, and not the poll set of the
\* last round.
InUse(f) == [t \in Slots |-> IF state[t] = {} THEN "free" ELSE f[t]]
Round    == IF wpc \in {"top", "exited"} THEN <<>> ELSE <<wi, pfds, ready>>
SafetyView ==
    <<state, InUse(fd), InUse(cb), lock, tfd, wpc, Round, firing, callerVars, ctxVars, useVars>>

\* How often each operation is called: install, start, restart, stop, uninstall,
\* and poll interrupted by a signal.
Calls(i, s, r, p, u, g) ==
    [install |-> i, start |-> s, restart |-> r, stop |-> p, uninstall |-> u, signal |-> g]

\* A start does what a restart does, or nothing: the safety run has restarts only.
BudgetSafety   == Calls(2, 0, 2, 1, 1, 0)
BudgetLiveness == Calls(2, 2, 0, 0, 1, 1)

\* The shortest stories behind the disagreements of the README.
BudgetRestart   == Calls(1, 1, 1, 0, 0, 0)
BudgetArmAll    == Calls(2, 2, 0, 0, 0, 0)
=============================================================================
