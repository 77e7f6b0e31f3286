------------------------------ MODULE TimerManual ------------------------------
(***************************************************************************)
(* The manual implementation of the timer interface                        *)
(* (timer/manual/timer_manual.c): a pool of timers, and a clock that the    *)
(* application moves.                                                      *)
(*                                                                         *)
(* There is no concurrency.  The difficulty is re-entrance: advance and    *)
(* fire run callbacks, and a callback may call any function again, on its  *)
(* own timer, on another one, or advance and fire themselves.              *)
(***************************************************************************)
EXTENDS Integers, Sequences, FiniteSets

CONSTANTS
    Max,        \* timers of a context (GABS_CONFIG_TIMER_MANUAL_MAX)
    Wrap,       \* the number of values of a uint64_t
    Delays,     \* delays timers are started with
    Steps,      \* distances the clock is advanced by
    MaxNested,  \* advances that may be in progress at a time
    Budget      \* how many times each function is called in a behaviour

Slots  == 1 .. Max
None   == 0
Ops    == {"install", "uninstall", "start", "restart", "stop", "advance", "fire"}

ASSUME MaxAssumption    == Max \in Nat \ {0} /\ MaxNested \in Nat
ASSUME WrapAssumption   == Wrap \in Nat \ {0}
ASSUME DelayAssumption  == Delays \subseteq 0 .. Wrap - 1 /\ Steps \subseteq 0 .. Wrap - 1
ASSUME BudgetAssumption == Budget \in [Ops -> Nat]

VARIABLES
    now_us, next_seq,                \* the context
    used, active, expiry_us, seq,    \* its timers
    stack,   \* the calls of advance and fire in progress, innermost last
    swept,   \* history: next_seq when the last advance returned
    left     \* calls left of each function (bound)

timerVars == <<used, active, expiry_us, seq>>
vars == <<now_us, next_seq, timerVars, stack, swept, left>>

\* A call in progress: what it was called for, the end_us of an advance, and the
\* timer whose callback it is running.
Frame == [call : {"advance", "fire"}, end : 0 .. Wrap - 1, firing : Slots \cup {None}]

Top == stack[Len(stack)]

\* The application runs outside these calls, and in the callbacks they make.
AppRuns == stack # <<>> => Top.firing # None

Call(o) ==
    /\ AppRuns
    /\ left[o] > 0
    /\ left' = [left EXCEPT ![o] = @ - 1]

Init ==
    /\ now_us = 0 /\ next_seq = 0
    /\ used      = [t \in Slots |-> FALSE]
    /\ active    = [t \in Slots |-> FALSE]
    /\ expiry_us = [t \in Slots |-> 0]
    /\ seq       = [t \in Slots |-> 0]
    /\ stack = <<>> /\ swept = 0
    /\ left = Budget

-----------------------------------------------------------------------------
(* The context is cleared by init, its timers by deinit.                    *)

ClearTimers ==
    /\ used'      = [t \in Slots |-> FALSE]
    /\ active'    = [t \in Slots |-> FALSE]
    /\ expiry_us' = [t \in Slots |-> 0]
    /\ seq'       = [t \in Slots |-> 0]

CtxDeinit ==
    /\ stack = <<>>
    /\ ClearTimers
    /\ UNCHANGED <<now_us, next_seq, stack, swept, left>>

CtxInit ==
    /\ stack = <<>>
    /\ \A t \in Slots : ~ used[t]
    /\ now_us' = 0 /\ next_seq' = 0
    /\ ClearTimers
    /\ swept' = 0
    /\ UNCHANGED <<stack, left>>

\* The first slot that is not used; NULL, and no change, if there is none.
Install ==
    /\ Call("install")
    /\ \/ \E t \in Slots :
             /\ ~ used[t] /\ \A u \in 1 .. t - 1 : used[u]
             /\ used'      = [used EXCEPT ![t] = TRUE]
             /\ active'    = [active EXCEPT ![t] = FALSE]
             /\ expiry_us' = [expiry_us EXCEPT ![t] = 0]
             /\ seq'       = [seq EXCEPT ![t] = 0]
       \/ (\A t \in Slots : used[t]) /\ UNCHANGED timerVars
    /\ UNCHANGED <<now_us, next_seq, stack, swept>>

\* Mutant: the slot is freed while the timer is active.
UninstallActive(t) ==
    /\ Call("uninstall")
    /\ used[t]
    /\ used' = [used EXCEPT ![t] = FALSE]
    /\ UNCHANGED <<active, expiry_us, seq, now_us, next_seq, stack, swept>>

Uninstall(t) ==
    /\ Call("uninstall")
    /\ used[t]
    /\ active' = [active EXCEPT ![t] = FALSE]
    /\ used' = [used EXCEPT ![t] = FALSE]
    /\ UNCHANGED <<expiry_us, seq, now_us, next_seq, stack, swept>>

\* Mutant: the sequence number is not taken.
SetTimerSameSeq(t, delay_us) ==
    /\ active'    = [active EXCEPT ![t] = TRUE]
    /\ expiry_us' = [expiry_us EXCEPT ![t] = (now_us + delay_us) % Wrap]
    /\ seq'       = [seq EXCEPT ![t] = next_seq]
    /\ UNCHANGED next_seq

\* The body of gabs_timer_restart.  Sums are modulo the width of uint64_t.
SetTimer(t, delay_us) ==
    /\ active'    = [active EXCEPT ![t] = TRUE]
    /\ expiry_us' = [expiry_us EXCEPT ![t] = (now_us + delay_us) % Wrap]
    /\ seq'       = [seq EXCEPT ![t] = next_seq]
    /\ next_seq'  = next_seq + 1

\* -EBUSY if the timer is active.
Start(t) ==
    /\ Call("start")
    /\ used[t]
    /\ \/ active[t] /\ UNCHANGED <<active, expiry_us, seq, next_seq>>
       \/ ~ active[t] /\ \E d \in Delays : SetTimer(t, d)
    /\ UNCHANGED <<used, now_us, stack, swept>>

Restart(t) ==
    /\ Call("restart")
    /\ used[t]
    /\ \E d \in Delays : SetTimer(t, d)
    /\ UNCHANGED <<used, now_us, stack, swept>>

Stop(t) ==
    /\ Call("stop")
    /\ used[t]
    /\ active' = [active EXCEPT ![t] = FALSE]
    /\ UNCHANGED <<used, expiry_us, seq, now_us, next_seq, stack, swept>>

-----------------------------------------------------------------------------
(* Advancing the clock.                                                     *)

\* Mutant: a timer that expires at the end of the advance is not due.
dueBefore(end_us) == {t \in Slots : used[t] /\ active[t] /\ expiry_us[t] < end_us}

due(end_us) == {t \in Slots : used[t] /\ active[t] /\ expiry_us[t] <= end_us}

before(t, u) ==
    \/ expiry_us[t] < expiry_us[u]
    \/ expiry_us[t] = expiry_us[u] /\ seq[t] < seq[u]

\* next_expired returns t: the first of the due ones that no other is before.
next_expired(t, end_us) ==
    /\ t \in due(end_us)
    /\ \A u \in due(end_us) \ {t} : before(t, u) \/ (~ before(u, t) /\ t < u)

Advances == Cardinality({i \in DOMAIN stack : stack[i].call = "advance"})

AdvanceBegin ==
    /\ Call("advance")
    /\ Advances < MaxNested
    /\ \E us \in Steps :
          stack' = Append(stack, [call |-> "advance", end |-> (now_us + us) % Wrap,
                                  firing |-> None])
    /\ UNCHANGED <<now_us, next_seq, timerVars, swept>>

\* Mutant: the clock is moved at the end only.
AdvanceFireLate ==
    /\ ~ AppRuns
    /\ \E t \in Slots :
          /\ next_expired(t, Top.end)
          /\ active' = [active EXCEPT ![t] = FALSE]
          /\ stack' = [stack EXCEPT ![Len(stack)].firing = t]
    /\ UNCHANGED <<now_us, used, expiry_us, seq, next_seq, swept, left>>

\* Mutant: the timer stays active while its callback runs.
AdvanceFireActive ==
    /\ ~ AppRuns
    /\ \E t \in Slots :
          /\ next_expired(t, Top.end)
          /\ now_us' = expiry_us[t]
          /\ stack' = [stack EXCEPT ![Len(stack)].firing = t]
    /\ UNCHANGED <<active, used, expiry_us, seq, next_seq, swept, left>>

\* One iteration of the loop, up to the callback.
AdvanceFire ==
    /\ ~ AppRuns
    /\ \E t \in Slots :
          /\ next_expired(t, Top.end)
          /\ now_us' = expiry_us[t]
          /\ active' = [active EXCEPT ![t] = FALSE]
          /\ stack' = [stack EXCEPT ![Len(stack)].firing = t]
    /\ UNCHANGED <<used, expiry_us, seq, next_seq, swept, left>>

AdvanceEnd ==
    /\ ~ AppRuns
    /\ \A t \in Slots : ~ next_expired(t, Top.end)
    /\ now_us' = Top.end
    /\ stack' = SubSeq(stack, 1, Len(stack) - 1)
    /\ swept' = next_seq
    /\ UNCHANGED <<next_seq, timerVars, left>>

\* -EINVAL, and no change, if the timer is not active.
Fire(t) ==
    /\ Call("fire")
    /\ used[t]
    /\ \/ /\ active[t]
          /\ active' = [active EXCEPT ![t] = FALSE]
          /\ stack' = Append(stack, [call |-> "fire", end |-> 0, firing |-> t])
       \/ ~ active[t] /\ UNCHANGED <<active, stack>>
    /\ UNCHANGED <<used, expiry_us, seq, now_us, next_seq, swept>>

\* The callback returns to the advance, or to fire, which returns.
CallbackReturn ==
    /\ stack # <<>> /\ Top.firing # None
    /\ stack' = IF Top.call = "advance"
                  THEN [stack EXCEPT ![Len(stack)].firing = None]
                  ELSE SubSeq(stack, 1, Len(stack) - 1)
    /\ UNCHANGED <<now_us, next_seq, timerVars, swept, left>>

Next ==
    \/ CtxInit \/ CtxDeinit \/ Install
    \/ \E t \in Slots : Uninstall(t) \/ Start(t) \/ Restart(t) \/ Stop(t) \/ Fire(t)
    \/ AdvanceBegin \/ AdvanceFire \/ AdvanceEnd \/ CallbackReturn

Spec == Init /\ [][Next]_vars

-----------------------------------------------------------------------------
\* Every variable has its type, and only installed timers are active.
TypeOK ==
    /\ now_us \in 0 .. Wrap - 1 /\ next_seq \in Nat /\ swept \in Nat
    /\ used \in [Slots -> BOOLEAN] /\ active \in [Slots -> BOOLEAN]
    /\ expiry_us \in [Slots -> 0 .. Wrap - 1] /\ seq \in [Slots -> Nat]
    /\ stack \in Seq(Frame)
    /\ left \in [Ops -> Nat]
    /\ \A t \in Slots : active[t] => used[t]

Pending == {t \in Slots : active[t]}

\* Sequence numbers order the active timers as they were started.
SeqOrders ==
    /\ \A t \in Pending : seq[t] < next_seq
    /\ \A t, u \in Pending : t # u => seq[t] # seq[u]

\* After an advance nothing that was due is left: an active timer expires later,
\* unless it was started since with no delay.
NothingDueLeft ==
    stack = <<>> =>
       \A t \in Pending : \/ expiry_us[t] > now_us
                          \/ expiry_us[t] = now_us /\ seq[t] >= swept

-----------------------------------------------------------------------------
(* The interface.                                                           *)

\* The timers whose callbacks run: of the calls in progress only the innermost may
\* have none running.
Depth   == IF AppRuns THEN Len(stack) ELSE Len(stack) - 1
Running == [i \in 1 .. Depth |-> stack[i].firing]

Phase == [t \in Slots |-> IF ~ used[t] THEN "none" ELSE IF active[t] THEN "armed" ELSE "idle"]

Interface == INSTANCE Timer WITH Timers <- Slots, phase <- Phase, running <- Running

\* The implementation keeps the promise of gabs/timer.h.
ImplementsTimer == Interface!Spec

-----------------------------------------------------------------------------
(* The virtual clock.                                                       *)

\* When a timer fires, and which were started before it: their sequence numbers tell.
Expiry == [t \in Slots |-> IF active[t] THEN expiry_us[t] ELSE -1]
Ahead  == [t \in Slots |-> {u \in Pending : active[t] /\ seq[u] < seq[t]}]

\* The advance in progress, if there is one and no other inside it.
InAdvance == {i \in 1 .. Len(stack) : stack[i].call = "advance"}

Until ==
    IF InAdvance = {}
      THEN [end |-> -1, level |-> -1]
      ELSE LET i == CHOOSE i \in InAdvance : TRUE
           IN  [end |-> stack[i].end, level |-> i - 1]

Clock == INSTANCE VirtualClock WITH
           Timers <- Slots, clock <- now_us, expires <- Expiry, ahead <- Ahead,
           until <- Until, calls <- Running

\* The implementation keeps the promise of gabs/timer/manual.h.
ImplementsVirtualClock == Clock!Spec
=============================================================================
