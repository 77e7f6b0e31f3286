----------------------------- MODULE VirtualClock -----------------------------
(***************************************************************************)
(* What gabs/timer/manual.h promises: a clock that stands still but for    *)
(* gabs_timer_manual_advance, and timers that fire while it moves, in the  *)
(* order of their expiry and, for equal expiries, in the order in which    *)
(* they were started.                                                      *)
(***************************************************************************)
EXTENDS Integers, Sequences

CONSTANTS Timers, Delays, Steps

VARIABLES
    clock,     \* the time
    expires,   \* when each timer fires, Never if it is not active
    ahead,     \* for each active timer, the active timers that were started before it
    until,     \* the advance in progress: where it ends, how deep it was called
    calls      \* the timers whose callbacks are running, innermost last

vars == <<clock, expires, ahead, until, calls>>

Never     == -1
Active    == {t \in Timers : expires[t] # Never}
NoAdvance == [end |-> -1, level |-> -1]

\* The application runs between the calls, and inside a callback.
AppRuns == until = NoAdvance \/ Len(calls) > until.level

\* The timers of S are not active any more, and so before no other.
Remove(S) ==
    /\ expires' = [t \in Timers |-> IF t \in S THEN Never ELSE expires[t]]
    /\ ahead'   = [t \in Timers |-> IF t \in S THEN {} ELSE ahead[t] \ S]

Init ==
    /\ clock = 0 /\ until = NoAdvance /\ calls = <<>>
    /\ expires = [t \in Timers |-> Never]
    /\ ahead   = [t \in Timers |-> {}]

\* A context is initialised anew.
Reset ==
    /\ until = NoAdvance /\ calls = <<>>
    /\ clock' = 0 /\ Remove(Timers)
    /\ UNCHANGED <<until, calls>>

\* Starting takes effect now; starting an active timer again moves it behind the others.
Start(t) ==
    /\ AppRuns
    /\ \E d \in Delays : expires' = [expires EXCEPT ![t] = clock + d]
    /\ ahead' = [u \in Timers |-> IF u = t THEN Active \ {t} ELSE ahead[u] \ {t}]
    /\ UNCHANGED <<clock, until, calls>>

\* The timers of a set are stopped, by whatever call.
Stop(S) ==
    /\ AppRuns
    /\ Remove(S)
    /\ UNCHANGED <<clock, until, calls>>

\* The callback of an active timer runs; the clock does not move.
FireNow(t) ==
    /\ AppRuns
    /\ t \in Active
    /\ Remove({t})
    /\ calls' = Append(calls, t)
    /\ UNCHANGED <<clock, until>>

Advance ==
    /\ until = NoAdvance
    /\ \E us \in Steps : until' = [end |-> clock + us, level |-> Len(calls)]
    /\ UNCHANGED <<clock, expires, ahead, calls>>

\* Of the timers t and u, t is to fire first.
Earlier(t, u) == expires[t] < expires[u] \/ (expires[t] = expires[u] /\ t \in ahead[u])

FireDue(t) ==
    /\ ~ AppRuns
    /\ t \in Active /\ expires[t] <= until.end
    /\ \A u \in Active \ {t} : Earlier(t, u)
    /\ clock' = expires[t]
    /\ Remove({t})
    /\ calls' = Append(calls, t)
    /\ UNCHANGED until

Arrive ==
    /\ ~ AppRuns
    /\ \A t \in Active : expires[t] > until.end
    /\ clock' = until.end
    /\ until' = NoAdvance
    /\ UNCHANGED <<expires, ahead, calls>>

Return ==
    /\ AppRuns
    /\ calls # <<>>
    /\ calls' = SubSeq(calls, 1, Len(calls) - 1)
    /\ UNCHANGED <<clock, expires, ahead, until>>

Next ==
    \/ Reset \/ Advance \/ Arrive \/ Return
    \/ \E t \in Timers : Start(t) \/ FireNow(t) \/ FireDue(t)
    \/ \E S \in SUBSET Timers : Stop(S)

Spec == Init /\ [][Next]_vars

=============================================================================
