----------------------------- MODULE MCTimerZephyr -----------------------------
(***************************************************************************)
(* Finite instances of TimerZephyr.                                        *)
(***************************************************************************)
EXTENDS TimerZephyr, TLC

ClientSymmetry == Permutations(Clients)
=============================================================================
