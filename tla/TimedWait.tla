------------------------------- MODULE TimedWait -------------------------------
(***************************************************************************)
(* Semaphores and mutexes (semaphore/, mutex/), on POSIX and on Zephyr:    *)
(* what a timeout means, and what a thread is told when its wait ends.     *)
(*                                                                         *)
(* A wait on POSIX ends at an absolute time of CLOCK_REALTIME, which may   *)
(* be set meanwhile; on Zephyr at a time of the uptime clock, which may    *)
(* not.  Only the distance to that time is kept: posix_timediff_resolve    *)
(* keeps it exactly (Timediff).  The primitives themselves are external.   *)
(***************************************************************************)
EXTENDS Integers, FiniteSets

CONSTANTS
    Threads,
    Objects,      \* the kinds of objects: semaphores and mutexes of either system
    MaxTimeout,   \* GABS_TIMEOUT_MAX
    Timeouts,     \* the timeouts threads ask for
    Jumps,        \* how far the wall clock is set, forward or backward
    MaxSets,      \* how often it is set (bound)
    Limit         \* the largest count of a semaphore, and depth of a mutex (bound)

None  == "none"
Modes == {"idle", "nowait", "timed", "forever"}

ASSUME ObjectAssumption  ==
    Objects \subseteq [system : {"posix", "zephyr"}, kind : {"semaphore", "mutex"}]
ASSUME TimeoutAssumption == MaxTimeout \in Nat \ {0} /\ Timeouts \subseteq 0 .. MaxTimeout
ASSUME BoundAssumption   == /\ Jumps \subseteq Int /\ Limit \in Nat \ {0} /\ MaxSets \in Nat
                            /\ None \notin Threads

VARIABLES
    object,         \* what is waited for
    count, owner,   \* of the semaphore; of the mutex: how deep it is locked, by whom
    mode,           \* per thread: how it waits
    left,           \* the time to the end of its wait
    asked, result,  \* the timeout of its last call, and the status returned
    elapsed,        \* history: how long that call has waited, up to what it asked for
    sets            \* how often the wall clock will still be set

objectVars == <<object, count, owner>>
waitVars   == <<mode, left, asked, elapsed>>
vars == <<objectVars, waitVars, result, sets>>

Init ==
    /\ object \in Objects
    /\ count \in (IF object.kind = "semaphore" THEN 0 .. Limit ELSE {0}) /\ owner = None
    /\ mode = [t \in Threads |-> "idle"] /\ left = [t \in Threads |-> 0]
    /\ asked = [t \in Threads |-> 0] /\ elapsed = [t \in Threads |-> 0]
    /\ result = [t \in Threads |-> "none"] /\ sets = MaxSets

-----------------------------------------------------------------------------
(* Timeouts.                                                                *)

\* gabs_sem_down, gabs_mutex_lock and zephyr_timediff_resolve choose how to wait.
dispatch(timeout) ==
    IF timeout = 0 THEN "nowait" ELSE IF timeout = MaxTimeout THEN "forever" ELSE "timed"

\* A recursive mutex is not locked deeper than the bound.
AtLimit(t) == owner = t /\ count = Limit

\* Mutant: the end of the wait is rounded down.
CallShort(t, timeout) ==
    /\ mode[t] = "idle" /\ ~ AtLimit(t)
    /\ mode' = [mode EXCEPT ![t] = dispatch(timeout)]
    /\ left' = [left EXCEPT ![t] = timeout \div 2]
    /\ asked' = [asked EXCEPT ![t] = timeout]
    /\ elapsed' = [elapsed EXCEPT ![t] = 0]
    /\ UNCHANGED <<objectVars, result, sets>>

\* The end of the wait is computed; then the primitive is called.
Call(t, timeout) ==
    /\ mode[t] = "idle" /\ ~ AtLimit(t)
    /\ mode' = [mode EXCEPT ![t] = dispatch(timeout)]
    /\ left' = [left EXCEPT ![t] = timeout]
    /\ asked' = [asked EXCEPT ![t] = timeout]
    /\ elapsed' = [elapsed EXCEPT ![t] = 0]
    /\ UNCHANGED <<objectVars, result, sets>>

Timed == {t \in Threads : mode[t] = "timed"}

AtLeast0(n) == IF n < 0 THEN 0 ELSE n

Tick ==
    /\ \E t \in Timed : left[t] > 0
    /\ left' = [t \in Threads |-> IF t \in Timed THEN AtLeast0(left[t] - 1) ELSE left[t]]
    /\ elapsed' = [t \in Threads |-> IF t \in Timed /\ elapsed[t] < asked[t]
                                       THEN elapsed[t] + 1 ELSE elapsed[t]]
    /\ UNCHANGED <<mode, asked, objectVars, result, sets>>

\* The wall clock is set; MaxTimeout bounds how far back.
SetClock ==
    /\ object.system = "posix"
    /\ sets > 0 /\ sets' = sets - 1
    /\ \E j \in Jumps :
          /\ \A t \in Timed : left[t] - j <= MaxTimeout
          /\ left' = [t \in Threads |-> IF t \in Timed THEN AtLeast0(left[t] - j) ELSE left[t]]
    /\ UNCHANGED <<mode, asked, elapsed, objectVars, result>>

-----------------------------------------------------------------------------
(* The primitives.                                                          *)

\* A k_mutex may be locked again by its owner, a default pthread mutex not.
Available(t) ==
    IF object.kind = "semaphore"
      THEN count > 0
      ELSE owner = None \/ (owner = t /\ object.system = "zephyr")

Acquire(t) ==
    /\ Available(t)
    /\ UNCHANGED object
    /\ IF object.kind = "semaphore" THEN count' = count - 1 /\ UNCHANGED owner
                             ELSE count' = count + 1 /\ owner' = t

\* Mutant: the count is not limited, and the owner stays.
ReleasePast(t) ==
    /\ mode[t] = "idle"
    /\ IF object.kind = "semaphore" THEN count' = count + 1 ELSE owner = t /\ count' = count - 1
    /\ UNCHANGED <<object, owner, waitVars, result, sets>>

\* gabs_sem_up and gabs_mutex_unlock.  Only the owner unlocks a mutex.
Release(t) ==
    /\ mode[t] = "idle"
    /\ IF object.kind = "semaphore"
         THEN count' = (IF count < Limit THEN count + 1 ELSE count) /\ UNCHANGED owner
         ELSE /\ owner = t
              /\ count' = count - 1
              /\ owner' = (IF count = 1 THEN None ELSE t)
    /\ UNCHANGED <<object, waitVars, result, sets>>

SysSem == object.system = "zephyr" /\ object.kind = "semaphore"

\* What the primitive returns when it may not wait, and when it has waited: sys_sem_take
\* turns both the EBUSY and the EAGAIN of the kernel into ETIMEDOUT, sys_mutex_lock neither.
RefusedStatus ==
    IF object.kind = "mutex" THEN "EBUSY" ELSE IF SysSem THEN "ETIMEDOUT" ELSE "EAGAIN"
ExpiredStatus ==
    IF object.system = "zephyr" /\ object.kind = "mutex" THEN "EAGAIN" ELSE "ETIMEDOUT"

\* Mutant: the status of the primitive as it is.
statusRaw(s) == s

\* The status of the call: gabs_mutex_lock translates on Zephyr.
status(s) ==
    IF object.system = "zephyr" /\ object.kind = "mutex" /\ s = "EAGAIN" THEN "ETIMEDOUT" ELSE s

Finish(t, s) ==
    /\ mode' = [mode EXCEPT ![t] = "idle"]
    /\ result' = [result EXCEPT ![t] = status(s)]
    /\ left' = [left EXCEPT ![t] = 0]
    /\ UNCHANGED <<asked, elapsed, sets>>

Take(t) ==
    /\ mode[t] # "idle"
    /\ Acquire(t)
    /\ Finish(t, "ok")

Refuse(t) ==
    /\ mode[t] = "nowait"
    /\ ~ Available(t)
    /\ Finish(t, RefusedStatus)
    /\ UNCHANGED objectVars

\* Mutant: a wait that has expired begins anew.
ExpireRetry(t) ==
    /\ mode[t] = "timed" /\ left[t] = 0
    /\ ~ Available(t)
    /\ left' = [left EXCEPT ![t] = asked[t]]
    /\ UNCHANGED <<mode, asked, elapsed, objectVars, result, sets>>

Expire(t) ==
    /\ mode[t] = "timed" /\ left[t] = 0
    /\ ~ Available(t)
    /\ Finish(t, ExpiredStatus)
    /\ UNCHANGED objectVars

\* A signal handler ran: sem_wait and sem_timedwait fail, the mutex functions go on.
Interrupt(t) ==
    /\ object.system = "posix" /\ object.kind = "semaphore"
    /\ mode[t] \in {"timed", "forever"}
    /\ ~ Available(t)
    /\ Finish(t, "EINTR")
    /\ UNCHANGED objectVars

Next ==
    \/ \E t \in Threads :
          \/ \E timeout \in Timeouts : Call(t, timeout)
          \/ Take(t) \/ Refuse(t) \/ Expire(t) \/ Interrupt(t) \/ Release(t)
    \/ Tick \/ SetClock

Spec == Init /\ [][Next]_vars

\* Threads run, and time passes.  Nothing makes one call or release.
Fairness ==
    /\ \A t \in Threads : WF_vars(Take(t) \/ Refuse(t) \/ Expire(t))
    /\ WF_vars(Tick)

FairSpec == Spec /\ Fairness

-----------------------------------------------------------------------------
\* Every variable has its type, and a mutex has an owner while it is locked.
TypeOK ==
    /\ object \in Objects
    /\ count \in 0 .. Limit /\ owner \in Threads \cup {None}
    /\ object.kind = "mutex" => (owner = None <=> count = 0)
    /\ mode \in [Threads -> Modes]
    /\ left \in [Threads -> 0 .. MaxTimeout] /\ asked \in [Threads -> Timeouts \cup {0}]
    /\ elapsed \in [Threads -> 0 .. MaxTimeout] /\ sets \in 0 .. MaxSets
    /\ result \in [Threads -> {"none", "ok", "EAGAIN", "EBUSY", "EINTR", "ETIMEDOUT"}]

\* semaphore.h and mutex.h: "Timeout in microseconds before aborting".  A call that
\* reports a timeout has waited for as long as it was asked to.
NotEarly ==
    \A t \in Threads : mode[t] = "idle" /\ result[t] = "ETIMEDOUT" => elapsed[t] >= asked[t]

\* What a try that fails may report.
Refusals == IF SysSem THEN {"ETIMEDOUT"} ELSE {"EAGAIN", "EBUSY"}

\* What gabs_sem_down and gabs_mutex_lock report when they fail, on every primitive: only
\* a signal ends a wait for ever; a wait for a time also ends by ETIMEDOUT; a try is never
\* interrupted, and says ETIMEDOUT, as if it had waited, on a Zephyr semaphore alone.
StatusAsAsked ==
    \A t \in Threads : mode[t] = "idle" /\ result[t] \notin {"none", "ok"} =>
       CASE asked[t] = 0          -> result[t] \in Refusals
         [] asked[t] = MaxTimeout -> result[t] = "EINTR"
         [] OTHER                 -> result[t] \in {"ETIMEDOUT", "EINTR"}

\* A call with a timeout returns, whatever the other threads do.
TimedReturns == \A t \in Threads : mode[t] \in {"nowait", "timed"} ~> mode[t] = "idle"
===============================================================================
