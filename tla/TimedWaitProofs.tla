---------------------------- MODULE TimedWaitProofs ----------------------------
(***************************************************************************)
(* What is proved about TimedWait for all threads, timeouts and kinds of   *)
(* objects: its type invariant, that no call reports a timeout before its  *)
(* time, and that a failed call reports what it was asked to do.           *)
(***************************************************************************)
EXTENDS TimedWait, TLAPS

-----------------------------------------------------------------------------
(* The inductive invariant.                                                 *)

\* A thread that locks a mutex does not own it at its largest depth.
RoomInv ==
    object.kind = "mutex" => \A t \in Threads : mode[t] # "idle" => ~ AtLimit(t)

TypeInv == TypeOK /\ RoomInv

\* A thread in a call waits the way its timeout asks for.
ModeInv == \A t \in Threads : mode[t] # "idle" => mode[t] = dispatch(asked[t])

\* The clock of the waits is never set forward.
NeverAhead == object.system = "zephyr" \/ \A j \in Jumps : j <= 0

\* What is left of a wait and what has elapsed of it make up what was asked for.
LeftInv ==
    NeverAhead => \A t \in Threads : mode[t] = "timed" => elapsed[t] + left[t] >= asked[t]

\* NotEarly holds unless the clock is set forward.
EarlyInv == NeverAhead => NotEarly

IInv == TypeInv /\ ModeInv /\ LeftInv /\ EarlyInv /\ StatusAsAsked

-----------------------------------------------------------------------------
(* What the steps change.                                                   *)

LEMMA DispatchMode ==
  ASSUME NEW timeout
  PROVE  /\ dispatch(timeout) \in {"nowait", "timed", "forever"}
         /\ dispatch(timeout) = "nowait"  <=> timeout = 0
         /\ dispatch(timeout) = "timed"   <=> timeout \notin {0, MaxTimeout}
  BY TimeoutAssumption DEF dispatch

\* The step of one thread that ends its call leaves the others alone.
LEMMA FinishStep ==
  ASSUME TypeOK, NEW t \in Threads, NEW s, Finish(t, s)
  PROVE  /\ mode'[t] = "idle" /\ result'[t] = status(s) /\ left'[t] = 0
         /\ mode' \in [Threads -> Modes] /\ left' \in [Threads -> 0 .. MaxTimeout]
         /\ \A u \in Threads \ {t} :
               mode'[u] = mode[u] /\ result'[u] = result[u] /\ left'[u] = left[u]
         /\ UNCHANGED <<asked, elapsed, sets>>
  BY TimeoutAssumption DEF Finish, TypeOK, Modes

\* What a call returns when it could not have the object.
LEMMA FailureStatus ==
  ASSUME TypeOK
  PROVE  /\ Refusals \subseteq {"EAGAIN", "EBUSY", "ETIMEDOUT"}
         /\ status(RefusedStatus) \in Refusals
         /\ status(ExpiredStatus) = "ETIMEDOUT"
         /\ status("ok") = "ok" /\ status("EINTR") = "EINTR"
  BY DEF status, RefusedStatus, ExpiredStatus, Refusals, SysSem

\* The object, and with it what a try may report, stays.
LEMMA RefusalsSame == ASSUME UNCHANGED object PROVE Refusals' = Refusals
  BY DEF Refusals, SysSem

\* Each way in which a call ends, seen by the thread that made it.
LEMMA EndStep ==
  ASSUME TypeOK, NEW t \in Threads, Take(t) \/ Refuse(t) \/ Expire(t) \/ Interrupt(t)
  PROVE  /\ \E s : Finish(t, s)
         /\ mode[t] # "idle" /\ UNCHANGED object
         /\ \/ result'[t] = "ok"
            \/ result'[t] \in Refusals /\ mode[t] = "nowait"
            \/ result'[t] = "ETIMEDOUT" /\ mode[t] = "timed" /\ left[t] = 0
            \/ result'[t] = "EINTR" /\ mode[t] \in {"timed", "forever"}
<1>1. CASE Take(t)
  BY <1>1, FinishStep, FailureStatus DEF Take, Acquire
<1>2. CASE Refuse(t)
  BY <1>2, FinishStep, FailureStatus DEF Refuse, objectVars
<1>3. CASE Expire(t)
  BY <1>3, FinishStep, FailureStatus DEF Expire, objectVars
<1>4. CASE Interrupt(t)
  BY <1>4, FinishStep, FailureStatus DEF Interrupt, objectVars
<1> QED
  BY <1>1, <1>2, <1>3, <1>4

LEMMA CallStep ==
  ASSUME TypeOK, NEW t \in Threads, NEW timeout \in Timeouts, Call(t, timeout)
  PROVE  /\ mode[t] = "idle" /\ ~ AtLimit(t)
         /\ mode'[t] = dispatch(timeout) /\ left'[t] = timeout
         /\ asked'[t] = timeout /\ elapsed'[t] = 0
         /\ \A u \in Threads \ {t} :
               /\ mode'[u] = mode[u] /\ left'[u] = left[u]
               /\ asked'[u] = asked[u] /\ elapsed'[u] = elapsed[u]
         /\ UNCHANGED <<object, count, owner, result, sets>>
  BY DEF Call, TypeOK, objectVars

\* The times of a wait are in range.
LEMMA WaitTimes ==
  ASSUME TypeOK, NEW t \in Threads
  PROVE  /\ left[t] \in 0 .. MaxTimeout
         /\ elapsed[t] \in 0 .. MaxTimeout /\ asked[t] \in 0 .. MaxTimeout
<1>1. asked[t] \in Timeouts \cup {0}
  BY DEF TypeOK
<1>2. Timeouts \cup {0} \subseteq 0 .. MaxTimeout
  BY TimeoutAssumption
<1> QED
  BY <1>1, <1>2 DEF TypeOK

\* Time passes for the threads whose wait is timed.
LEMMA TimePasses ==
  ASSUME TypeOK, Tick \/ SetClock
  PROVE  /\ UNCHANGED <<mode, asked, object, count, owner, result>>
         /\ left' \in [Threads -> 0 .. MaxTimeout]
         /\ elapsed' \in [Threads -> 0 .. MaxTimeout]
         /\ \A t \in Threads : mode[t] # "timed" => elapsed'[t] = elapsed[t]
         /\ sets' \in 0 .. MaxSets
         /\ NeverAhead => \A t \in Threads : mode[t] = "timed" =>
               \/ elapsed'[t] + left'[t] >= elapsed[t] + left[t]
               \/ elapsed'[t] = elapsed[t] /\ elapsed[t] >= asked[t]
<1> USE TimeoutAssumption, BoundAssumption
<1>1. CASE Tick
  <2>1. \A t \in Threads :
           /\ AtLeast0(left[t] - 1) \in 0 .. MaxTimeout
           /\ AtLeast0(left[t] - 1) >= left[t] - 1
           /\ elapsed[t] < asked[t] => elapsed[t] + 1 \in 0 .. MaxTimeout
    BY WaitTimes DEF AtLeast0
  <2>2. left' \in [Threads -> 0 .. MaxTimeout] /\ elapsed' \in [Threads -> 0 .. MaxTimeout]
    BY <1>1, <2>1 DEF Tick, TypeOK
  <2>3. ASSUME NEW t \in Threads, mode[t] = "timed"
        PROVE  \/ elapsed'[t] + left'[t] >= elapsed[t] + left[t]
               \/ elapsed'[t] = elapsed[t] /\ elapsed[t] >= asked[t]
    <3>1. left'[t] = AtLeast0(left[t] - 1)
      BY <1>1, <2>3 DEF Tick, Timed
    <3>2. elapsed'[t] = IF elapsed[t] < asked[t] THEN elapsed[t] + 1 ELSE elapsed[t]
      BY <1>1, <2>3 DEF Tick, Timed
    <3>3. left[t] \in Int /\ elapsed[t] \in Int /\ asked[t] \in Int /\ left'[t] \in Int
      BY <2>2, WaitTimes
    <3> QED
      BY <2>1, <3>1, <3>2, <3>3
  <2> QED
    BY <1>1, <2>2, <2>3 DEF Tick, TypeOK, Timed, objectVars
<1>2. CASE SetClock
  <2>1. PICK j \in Jumps :
           /\ \A t \in Timed : left[t] - j <= MaxTimeout
           /\ left' = [t \in Threads |-> IF t \in Timed THEN AtLeast0(left[t] - j) ELSE left[t]]
    BY <1>2 DEF SetClock
  <2>2. \A t \in Threads : AtLeast0(left[t] - j) \in Nat /\ AtLeast0(left[t] - j) >= left[t] - j
    BY DEF TypeOK, AtLeast0
  <2>3. left' \in [Threads -> 0 .. MaxTimeout]
    BY <2>1 DEF TypeOK, AtLeast0, Timed
  <2>4. NeverAhead => j <= 0
    BY <1>2 DEF SetClock, NeverAhead
  <2> QED
    BY <1>2, <2>1, <2>2, <2>3, <2>4 DEF SetClock, TypeOK, Timed, objectVars
<1> QED
  BY <1>1, <1>2

-----------------------------------------------------------------------------
(* Every step preserves each part of the invariant.                         *)

LEMMA NextType == TypeInv /\ Next => TypeInv'
<1> USE TimeoutAssumption, BoundAssumption, ObjectAssumption DEF None
<1> SUFFICES ASSUME TypeInv, Next PROVE TypeInv'
  OBVIOUS
<1>0. TypeOK
  BY DEF TypeInv
<1>1. ASSUME NEW t \in Threads, NEW timeout \in Timeouts, Call(t, timeout) PROVE TypeInv'
  <2>1. dispatch(timeout) \in Modes
    BY DEF dispatch, Modes
  <2>2. TypeOK'
    BY <1>0, <1>1, <2>1 DEF Call, TypeOK, objectVars
  <2>3. RoomInv'
    BY <1>0, <1>1, CallStep DEF TypeInv, RoomInv, AtLimit
  <2> QED
    BY <2>2, <2>3 DEF TypeInv
<1>2. ASSUME NEW t \in Threads, Take(t) PROVE TypeInv'
  <2>1. PICK s : Finish(t, s)
    BY <1>0, <1>2, EndStep
  <2>2. result' \in [Threads -> {"none", "ok", "EAGAIN", "EBUSY", "EINTR", "ETIMEDOUT"}]
    BY <1>0, <1>2, FailureStatus DEF Take, Finish, TypeOK
  <2>3. object' = object /\ Acquire(t) /\ mode[t] # "idle"
    BY <1>2 DEF Take, Acquire
  <2>4. /\ count' \in 0 .. Limit /\ owner' \in Threads \cup {None}
        /\ object.kind = "mutex" => (owner' = None <=> count' = 0)
        /\ object.kind = "mutex" => owner' = t
    BY <1>0, <2>3 DEF TypeInv, RoomInv, AtLimit, Acquire, Available, TypeOK
  <2>5. TypeOK'
    BY <1>0, <2>1, <2>2, <2>3, <2>4, FinishStep DEF TypeOK
  <2>6. RoomInv'
    BY <1>0, <2>1, <2>3, <2>4, FinishStep DEF RoomInv, AtLimit
  <2> QED
    BY <2>5, <2>6 DEF TypeInv
<1>3. ASSUME NEW t \in Threads, Refuse(t) \/ Expire(t) \/ Interrupt(t) PROVE TypeInv'
  <2>1. PICK s : Finish(t, s)
    BY <1>0, <1>3, EndStep
  <2>2. result' \in [Threads -> {"none", "ok", "EAGAIN", "EBUSY", "EINTR", "ETIMEDOUT"}]
    BY <1>0, <1>3, FailureStatus DEF Refuse, Expire, Interrupt, Finish, TypeOK
  <2>3. UNCHANGED <<object, count, owner>>
    BY <1>3 DEF Refuse, Expire, Interrupt, objectVars
  <2>4. TypeOK'
    BY <1>0, <2>1, <2>2, <2>3, FinishStep DEF TypeOK
  <2>5. RoomInv'
    BY <1>0, <2>1, <2>3, FinishStep DEF TypeInv, RoomInv, AtLimit
  <2> QED
    BY <2>4, <2>5 DEF TypeInv
<1>4. ASSUME NEW t \in Threads, Release(t) PROVE TypeInv'
  <2>1. /\ UNCHANGED <<object, mode, left, asked, elapsed, result, sets>>
        /\ mode[t] = "idle"
    BY <1>4 DEF Release, waitVars
  <2>2. /\ count' \in 0 .. Limit /\ owner' \in Threads \cup {None}
        /\ object.kind = "mutex" => (owner' = None <=> count' = 0)
        /\ object.kind = "mutex" => owner' \in {t, None}
    BY <1>0, <1>4 DEF Release, TypeOK
  <2>3. TypeOK'
    BY <1>0, <2>1, <2>2 DEF TypeOK
  <2>4. RoomInv'
    BY <2>1, <2>2 DEF RoomInv, AtLimit
  <2> QED
    BY <2>3, <2>4 DEF TypeInv
<1>5. CASE Tick \/ SetClock
  <2>1. TypeOK'
    BY <1>0, <1>5, TimePasses DEF TypeOK
  <2>2. RoomInv'
    BY <1>0, <1>5, TimePasses DEF TypeInv, RoomInv, AtLimit
  <2> QED
    BY <2>1, <2>2 DEF TypeInv
<1> QED
  BY <1>1, <1>2, <1>3, <1>4, <1>5 DEF Next

LEMMA NextWait ==
  IInv /\ Next => ModeInv' /\ LeftInv' /\ EarlyInv' /\ StatusAsAsked'
<1> SUFFICES ASSUME IInv, Next PROVE ModeInv' /\ LeftInv' /\ EarlyInv' /\ StatusAsAsked'
  OBVIOUS
<1>0. TypeOK /\ ModeInv /\ LeftInv /\ EarlyInv /\ StatusAsAsked
  BY DEF IInv, TypeInv
<1>1. ASSUME NEW t \in Threads, NEW timeout \in Timeouts, Call(t, timeout)
      PROVE  ModeInv' /\ LeftInv' /\ EarlyInv' /\ StatusAsAsked'
  <2>1. mode'[t] # "idle"
    BY <1>0, <1>1, CallStep, DispatchMode
  <2>2. ModeInv'
    BY <1>0, <1>1, CallStep DEF ModeInv
  <2>3. LeftInv'
    BY <1>0, <1>1, CallStep, TimeoutAssumption DEF LeftInv, NeverAhead
  <2>4. EarlyInv'
    BY <1>0, <1>1, <2>1, CallStep DEF EarlyInv, NeverAhead, NotEarly
  <2>5. StatusAsAsked'
    BY <1>0, <1>1, <2>1, CallStep, RefusalsSame DEF StatusAsAsked
  <2> QED
    BY <2>2, <2>3, <2>4, <2>5
<1>2. ASSUME NEW t \in Threads, Take(t) \/ Refuse(t) \/ Expire(t) \/ Interrupt(t)
      PROVE  ModeInv' /\ LeftInv' /\ EarlyInv' /\ StatusAsAsked'
  <2>1. PICK s : Finish(t, s)
    BY <1>0, <1>2, EndStep
  <2>2. /\ mode'[t] = "idle" /\ UNCHANGED <<object, asked, elapsed>>
        /\ \A u \in Threads \ {t} :
              mode'[u] = mode[u] /\ result'[u] = result[u] /\ left'[u] = left[u]
    BY <1>0, <1>2, <2>1, EndStep, FinishStep
  <2>3. mode[t] = dispatch(asked[t])
    BY <1>0, <1>2, EndStep DEF ModeInv
  <2>4. ModeInv'
    BY <1>0, <2>2 DEF ModeInv
  <2>5. LeftInv'
    BY <1>0, <2>2 DEF LeftInv, NeverAhead
  <2>6. EarlyInv'
    <3>1. result'[t] = "ETIMEDOUT" => asked[t] = 0 \/ (mode[t] = "timed" /\ left[t] = 0)
      BY <1>0, <1>2, <2>3, EndStep, DispatchMode
    <3>2. NeverAhead => (result'[t] = "ETIMEDOUT" => elapsed[t] >= asked[t])
      BY <1>0, <3>1, WaitTimes DEF LeftInv
    <3> QED
      BY <1>0, <2>2, <3>2 DEF EarlyInv, NeverAhead, NotEarly
  <2>7. StatusAsAsked'
    BY <1>0, <1>2, <2>2, <2>3, EndStep, DispatchMode, RefusalsSame, TimeoutAssumption
    DEF StatusAsAsked
  <2> QED
    BY <2>4, <2>5, <2>6, <2>7
<1>3. ASSUME NEW t \in Threads, Release(t)
      PROVE  ModeInv' /\ LeftInv' /\ EarlyInv' /\ StatusAsAsked'
  BY <1>0, <1>3, RefusalsSame
  DEF Release, waitVars, ModeInv, LeftInv, EarlyInv, NeverAhead, NotEarly, StatusAsAsked
<1>4. CASE Tick \/ SetClock
  <2>1. ModeInv' /\ StatusAsAsked'
    BY <1>0, <1>4, TimePasses, RefusalsSame DEF ModeInv, StatusAsAsked
  <2>2. LeftInv'
    <3> SUFFICES ASSUME NeverAhead, NEW t \in Threads, mode[t] = "timed"
                 PROVE  elapsed'[t] + left'[t] >= asked[t]
      BY <1>0, <1>4, TimePasses DEF LeftInv, NeverAhead
    <3>1. elapsed'[t] \in Nat /\ left'[t] \in Nat
      BY <1>0, <1>4, TimePasses, TimeoutAssumption
    <3>2. elapsed[t] + left[t] >= asked[t]
      BY <1>0 DEF LeftInv
    <3> QED
      BY <1>0, <1>4, <3>1, <3>2, TimePasses, WaitTimes
  <2>3. EarlyInv'
    BY <1>0, <1>4, TimePasses DEF EarlyInv, NeverAhead, NotEarly
  <2> QED
    BY <2>1, <2>2, <2>3
<1> QED
  BY <1>1, <1>2, <1>3, <1>4 DEF Next

-----------------------------------------------------------------------------

LEMMA InitIInv == Init => IInv
  BY TimeoutAssumption, BoundAssumption
  DEF Init, IInv, TypeInv, TypeOK, RoomInv, ModeInv, LeftInv, EarlyInv, NotEarly,
      StatusAsAsked, Modes, None

LEMMA NextIInv == IInv /\ [Next]_vars => IInv'
<1> SUFFICES ASSUME IInv, [Next]_vars PROVE IInv'
  OBVIOUS
<1>1. CASE Next
  BY <1>1, NextType, NextWait DEF IInv
<1>2. CASE UNCHANGED vars
  BY <1>2, RefusalsSame DEF vars, objectVars, waitVars, IInv, TypeInv, TypeOK, RoomInv, AtLimit, ModeInv,
     LeftInv, EarlyInv, NeverAhead, NotEarly, StatusAsAsked
<1> QED
  BY <1>1, <1>2

\* Every variable keeps its type; a semaphore stays within its limit, and a mutex has
\* an owner exactly while it is locked (gabs_sem_up, gabs_mutex_lock, gabs_mutex_unlock).
THEOREM TypeCorrect == Spec => []TypeOK
<1>1. IInv => TypeOK
  BY DEF IInv, TypeInv
<1> QED
  BY <1>1, InitIInv, NextIInv, PTL DEF Spec

\* gabs_sem_down and gabs_mutex_lock: a call that reports a timeout has waited for as
\* long as it was asked to, on Zephyr always, on POSIX unless CLOCK_REALTIME is set
\* forward meanwhile.
THEOREM TimeoutNotEarly == Spec => [](NeverAhead => NotEarly)
<1>1. IInv => (NeverAhead => NotEarly)
  BY DEF IInv, EarlyInv
<1> QED
  BY <1>1, InitIInv, NextIInv, PTL DEF Spec

\* gabs_sem_down and gabs_mutex_lock: a wait for a time that fails reports ETIMEDOUT or was
\* interrupted, whatever the primitive; a wait for ever fails only if it was interrupted; a
\* try reports EAGAIN or EBUSY, but ETIMEDOUT on a Zephyr semaphore.
THEOREM StatusIsAsAsked == Spec => []StatusAsAsked
<1>1. IInv => StatusAsAsked
  BY DEF IInv
<1> QED
  BY <1>1, InitIInv, NextIInv, PTL DEF Spec
===============================================================================
