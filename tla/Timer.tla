--------------------------------- MODULE Timer ---------------------------------
(***************************************************************************)
(* What gabs/timer.h promises of a set of timers, whatever implements it: a *)
(* callback is invoked only for a timer that is installed and armed, once   *)
(* for every time it was armed, and callbacks run one inside another or one *)
(* after another, never side by side.                                      *)
(*                                                                         *)
(* Nothing is said here of time, nor of the calls that bring a step about:  *)
(* a timer may be disarmed by a stop, by a restart that is going to arm it  *)
(* again, or because it has no callback.                                   *)
(***************************************************************************)
EXTENDS Integers, Sequences

CONSTANT Timers

VARIABLES
    phase,    \* of each timer: "none" (not installed), "idle" or "armed"
    running   \* the timers whose callbacks run, innermost last

vars == <<phase, running>>

Becomes(t, p) == phase' = [phase EXCEPT ![t] = p] /\ UNCHANGED running

Init == phase = [t \in Timers |-> "none"] /\ running = <<>>

Install(t) == phase[t] = "none"  /\ Becomes(t, "idle")
Arm(t)     == phase[t] = "idle"  /\ Becomes(t, "armed")
Disarm(t)  == phase[t] = "armed" /\ Becomes(t, "idle")

\* One timer is uninstalled, or all of a context.
Remove(S) ==
    /\ phase' = [t \in Timers |-> IF t \in S THEN "none" ELSE phase[t]]
    /\ UNCHANGED running

\* The timer expires: it may be armed again from its callback.
Fire(t) ==
    /\ phase[t] = "armed"
    /\ phase' = [phase EXCEPT ![t] = "idle"]
    /\ running' = Append(running, t)

Return ==
    /\ running # <<>>
    /\ running' = SubSeq(running, 1, Len(running) - 1)
    /\ UNCHANGED phase

\* A call changes what timers are, and no callback begins or returns.
Call ==
    /\ phase' # phase
    /\ \/ \E t \in Timers : Install(t) \/ Arm(t) \/ Disarm(t)
       \/ \E S \in SUBSET Timers : Remove(S)

Callback ==
    /\ running' # running
    /\ Return \/ \E t \in Timers : Fire(t)

Next == Call \/ Callback

Spec == Init /\ [][Next]_vars
=============================================================================
