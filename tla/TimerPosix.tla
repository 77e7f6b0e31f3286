------------------------------ MODULE TimerPosix ------------------------------
(***************************************************************************)
(* The POSIX implementation of the timer interface                         *)
(* (timer/posix/timer_posix.c, timer/posix/atomic_mask.h).                 *)
(*                                                                         *)
(* A context owns N timer slots and one worker thread.  Clients install,   *)
(* start, restart, stop and uninstall timers; every timer is a timerfd, the *)
(* worker polls the timerfds of the timers it has made active, and an       *)
(* eventfd through which clients ask it to rebuild that poll set.  Clients *)
(* and worker share one atomic word of flags per slot, and a mutex per slot *)
(* that the worker holds while a callback runs.                             *)
(*                                                                         *)
(* One action is one access to shared memory or one system call, so the    *)
(* interleavings are those of the threads.  Callbacks are calls of the same *)
(* API made by the worker thread.                                           *)
(***************************************************************************)
EXTENDS Integers, Sequences, FiniteSets

CONSTANTS
    N,          \* slots of a context (GABS_CONFIG_TIMER_POSIX_MAX)
    Clients,    \* application threads that call the API
    Worker,     \* the context's worker thread
    Fds,        \* descriptor numbers the process can give to timerfds
    EventFd,    \* the descriptor of the context's eventfd
    CbKinds,    \* what installed callbacks do (a subset of AllCbKinds)
    MaxTimers,  \* timers the clients keep installed at a time
    Budget      \* how many times each operation is called in a behaviour

Slots    == 1 .. N
NoSlot   == 0
NoFd     == 0
Callers  == Clients \cup {Worker}
Bits     == {"USED", "ZOMBIE", "ACTIVE", "SCHED", "ALLOC"}
Free     == "free"        \* an initialised mutex nobody holds
NoMutex  == "destroyed"   \* a mutex that is not initialised
Closed   == -1            \* the value of "eventfd" when it is not open

\* A callback: absent, returning at once, or calling one function on its timer.
AllCbKinds == {"null", "return", "start", "restart", "stop", "uninstall"}
Ops        == {"install", "start", "restart", "stop", "uninstall", "signal"}
TimerOps   == {"start", "restart", "stop", "uninstall"}
Delays     == {0, 1}      \* zero or not: what to_itimerspec distinguishes

ASSUME NAssumption       == N \in Nat \ {0}
ASSUME ThreadAssumption  == Worker \notin Clients /\ {Free, NoMutex} \cap Callers = {}
ASSUME FdAssumption      == EventFd \notin Fds /\ NoFd \notin Fds /\ NoFd # EventFd
ASSUME CbAssumption      == CbKinds \subseteq AllCbKinds
ASSUME BudgetAssumption  == Budget \in [Ops -> Nat] /\ MaxTimers \in Nat

VARIABLES
    life,       \* the context, as the thread that owns it sees it
    work_state, \* ctx->work_state
    eventfd,    \* the counter of the eventfd, or Closed
    state,      \* t->state, as a set of bits
    fd,         \* t->fd
    cb,         \* t->cb
    lock,       \* t->lock: Free, NoMutex or the thread that holds it
    tfd,        \* the kernel's timerfds
    wpc,        \* where the worker is
    wi,         \* its index: a slot in prepare_pfds, an entry in service_pfds
    pfds,       \* the poll set it has built
    ready,      \* the descriptors the last poll reported
    firing,     \* the thread local "firing" of the worker
    pc, op, tgt,\* per caller: where it is, the function called, its timer
    held,       \* the handles each client may still use
    left,       \* calls left of each operation (bound)
    promise     \* history: t was started and nothing since has cancelled it

sharedVars == <<state, fd, cb, lock, tfd>>
workerVars == <<wpc, wi, pfds, ready, firing>>
callerVars == <<pc, op, tgt>>
ctxVars    == <<life, work_state, eventfd>>
useVars    == <<held, left>>
vars == <<sharedVars, workerVars, callerVars, ctxVars, useVars, promise>>

-----------------------------------------------------------------------------
(* atomic_mask.h.  Every function is a compare-exchange loop with one       *)
(* successful exchange, hence one step.                                     *)

mask_set(s, mask)   == s \cup mask
mask_clear(s, mask) == s \ mask
mask_get(s, mask)   == s \cap mask
mask_test(s, mask)  == mask_get(s, mask) = mask

\* mask_set_strict succeeds only if no bit of the mask is set.
mask_set_strict_ok(s, mask) == mask_get(s, mask) = {}

\* The first exchange compares the whole word, the following ones "cmp" only.
mask_cas(s, cmp, set) ==
    IF s = cmp THEN set ELSE IF mask_test(s, cmp) THEN s \cup set ELSE s

timer_valid(s) == mask_get(s, {"USED", "ZOMBIE"}) = {"USED"}

\* gabs_timer_active
active(t) == mask_get(state[t], {"ACTIVE", "SCHED"}) # {}

(* Descriptors.  A timerfd is armed by a non-zero expiration; reading an    *)
(* expired one makes it unreadable again, reading another fails (NONBLOCK). *)

\* Mutant: a zero delay is passed on, which disarms the timerfd.
to_itimerspecZero(delay) == delay

to_itimerspec(delay) == IF delay = 0 THEN 1 ELSE delay
TimerfdSet(value)    == IF value = 0 THEN "disarmed" ELSE "armed"
TimerfdRead(s)       == IF s = "expired" THEN "disarmed" ELSE s

IsReadable(f) == IF f = EventFd THEN eventfd > 0 ELSE tfd[f] = "expired"

(* Mutexes.  gabs_timer ignores what lock and unlock return, and on a       *)
(* destroyed mutex both return an error at once: the caller carries on      *)
(* without the mutex.  Destroying a mutex that is held fails.               *)

CanLock(t)       == lock[t] \in {Free, NoMutex}
Locked(c, t)     == [lock EXCEPT ![t] = IF @ = Free THEN c ELSE @]
Unlocked(c, t)   == [lock EXCEPT ![t] = IF @ = c THEN Free ELSE @]
Destroyed(t)     == [lock EXCEPT ![t] = IF @ = Free THEN NoMutex ELSE @]

\* timer_lock and timer_unlock skip the mutex of the timer being fired.
InOwnCallback(c, t) == c = Worker /\ firing = t

-----------------------------------------------------------------------------
Init ==
    /\ life = "down" /\ work_state = "NORMAL" /\ eventfd = Closed
    /\ state = [t \in Slots |-> {}]
    /\ fd    = [t \in Slots |-> NoFd]
    /\ cb    = [t \in Slots |-> "null"]
    /\ lock  = [t \in Slots |-> NoMutex]
    /\ tfd   = [f \in Fds |-> "closed"]
    /\ wpc = "exited" /\ wi = 1 /\ pfds = <<>> /\ ready = {} /\ firing = NoSlot
    /\ pc  = [c \in Callers |-> "idle"]
    /\ op  = [c \in Callers |-> "none"]
    /\ tgt = [c \in Callers |-> NoSlot]
    /\ held = [c \in Clients |-> {}]
    /\ left = Budget
    /\ promise = [t \in Slots |-> FALSE]

-----------------------------------------------------------------------------
(* gabs_timer_ctx_init and gabs_timer_ctx_deinit, called by the owner.      *)

\* Creating the eventfd or the thread may fail; the eventfd is closed again.
CtxInit ==
    /\ life = "down"
    /\ state' = [t \in Slots |-> {}]
    /\ fd'    = [t \in Slots |-> NoFd]
    /\ cb'    = [t \in Slots |-> "null"]
    /\ lock'  = [t \in Slots |-> NoMutex]
    /\ work_state' = "NORMAL"
    /\ \/ life' = "up" /\ eventfd' = 0 /\ wpc' = "top"
       \/ UNCHANGED <<life, eventfd, wpc>>
    /\ UNCHANGED <<tfd, wi, pfds, ready, firing, callerVars, useVars, promise>>

\* The application uses no handle once it has called deinit.
DeinitExit ==
    /\ life = "up"
    /\ \A c \in Clients : pc[c] = "idle"
    /\ life' = "exiting"
    /\ work_state' = "EXIT"
    /\ held' = [c \in Clients |-> {}]
    /\ promise' = [t \in Slots |-> FALSE]
    /\ UNCHANGED <<eventfd, sharedVars, workerVars, callerVars, left>>

\* Mutant: deinit does not wake the worker.
DeinitTriggerSilent ==
    /\ life = "exiting"
    /\ life' = "joining"
    /\ UNCHANGED <<eventfd, work_state, sharedVars, workerVars, callerVars, useVars, promise>>

\* Mutant: the eventfd is closed before the worker is joined.
DeinitTriggerClose ==
    /\ life = "exiting"
    /\ life' = "joining"
    /\ eventfd' = Closed
    /\ UNCHANGED <<work_state, sharedVars, workerVars, callerVars, useVars, promise>>

DeinitTrigger ==
    /\ life = "exiting"
    /\ life' = "joining"
    /\ eventfd' = eventfd + 1
    /\ UNCHANGED <<work_state, sharedVars, workerVars, callerVars, useVars, promise>>

\* Mutant: the eventfd is closed without joining the worker.
DeinitJoinEarly ==
    /\ life = "joining"
    /\ life' = "closing"
    /\ eventfd' = Closed
    /\ UNCHANGED <<work_state, sharedVars, workerVars, callerVars, useVars, promise>>

DeinitJoin ==
    /\ life = "joining"
    /\ wpc = "exited"
    /\ life' = "closing"
    /\ eventfd' = Closed
    /\ UNCHANGED <<work_state, sharedVars, workerVars, callerVars, useVars, promise>>

\* No other thread is left: the loop over the slots is one step.
DeinitCleanup ==
    /\ life = "closing"
    /\ life' = "down"
    /\ LET used == {t \in Slots : mask_test(state[t], {"USED"})}
       IN  /\ tfd'   = [f \in Fds |->
                          IF \E t \in used : fd[t] = f THEN "closed" ELSE tfd[f]]
           /\ state' = [t \in Slots |-> IF t \in used THEN {} ELSE state[t]]
           /\ lock'  = [t \in Slots |-> IF t \in used THEN NoMutex ELSE lock[t]]
    /\ UNCHANGED <<work_state, eventfd, fd, cb, workerVars, callerVars, useVars, promise>>

-----------------------------------------------------------------------------
(* Steps.  A caller of the API is "idle" or at a step of the function it is *)
(* in; the worker is at a step of its loop.  A step changes at most one of  *)
(* the shared variables.                                                    *)

SetState(t, s)   == state' = [state EXCEPT ![t] = s] /\ UNCHANGED <<fd, cb, lock, tfd>>
SetTfd(f, s)     == tfd' = [tfd EXCEPT ![f] = s] /\ UNCHANGED <<state, fd, cb, lock>>
SetLock(l)       == lock' = l /\ UNCHANGED <<state, fd, cb, tfd>>
SetPromise(t, b) == promise' = [promise EXCEPT ![t] = b]

\* trigger_reset
Trigger == eventfd' = eventfd + 1 /\ UNCHANGED <<life, work_state>>

Goto(c, where) == pc' = [pc EXCEPT ![c] = where] /\ UNCHANGED <<op, tgt>>

Return(c) ==
    /\ pc'  = [pc  EXCEPT ![c] = "idle"]
    /\ op'  = [op  EXCEPT ![c] = "none"]
    /\ tgt' = [tgt EXCEPT ![c] = NoSlot]

\* What the steps of a caller leave alone: the worker and, but for publishing a
\* timer, what the clients may do.
CallerAt(c, where) == pc[c] = where /\ UNCHANGED <<workerVars, left>>

\* The worker goes from one step to the next, or on to index i.
WorkerAt(from) == wpc = from /\ UNCHANGED <<callerVars, useVars>>
WGoto(to)      == wpc' = to /\ UNCHANGED <<wi, pfds, ready, firing>>
WNext(to, i)   == wpc' = to /\ wi' = i /\ UNCHANGED <<pfds, ready, firing>>

-----------------------------------------------------------------------------
(* Entering a function.                                                     *)

Entry == [install |-> "scan", start |-> "check", restart |-> "r_clear",
          stop |-> "s_clear", uninstall |-> "u_lock"]

Begin(c, o, t) ==
    /\ pc[c] = "idle"
    /\ left[o] > 0
    /\ left' = [left EXCEPT ![o] = @ - 1]
    /\ pc'   = [pc  EXCEPT ![c] = Entry[o]]
    /\ op'   = [op  EXCEPT ![c] = o]
    /\ tgt'  = [tgt EXCEPT ![c] = t]
    /\ UNCHANGED <<ctxVars, sharedVars, promise>>

\* Timers that are installed and not yet uninstalled, and those to come.
Installed  == {t \in Slots : "ALLOC" \in state[t] /\ "ZOMBIE" \notin state[t]}
Installing == {c \in Clients : pc[c] = "scan"}

ClientInstall(c) ==
    /\ life = "up"
    /\ Cardinality(Installed) + Cardinality(Installing) < MaxTimers
    /\ Begin(c, "install", 1)
    /\ UNCHANGED <<workerVars, held>>

\* A client uses the handles it has.  It gives one up when it uninstalls the
\* timer, and when it starts a timer whose callback uninstalls it.
GivesUp(o, t) == o = "uninstall" \/ (cb[t] = "uninstall" /\ o \in {"start", "restart"})

ClientCall(c, o, t) ==
    /\ life = "up"
    /\ t \in held[c]
    /\ Begin(c, o, t)
    /\ held' = IF GivesUp(o, t) THEN [held EXCEPT ![c] = @ \ {t}] ELSE held
    /\ UNCHANGED workerVars

\* The callback of the timer being fired calls one function on it.
CallbackCall(o) ==
    /\ wpc = "callback"
    /\ o = cb[firing]
    /\ Begin(Worker, o, firing)
    /\ WGoto("incall")
    /\ UNCHANGED held

-----------------------------------------------------------------------------
(* gabs_timer_install: timer_add and timer_alloc.                           *)

\* One mask_set_strict of timer_alloc's loop, which gives up past the last slot.
InstallScan(c) ==
    LET t == tgt[c] IN
    /\ CallerAt(c, "scan")
    /\ \/ /\ mask_set_strict_ok(state[t], {"ALLOC"})
          /\ SetState(t, mask_set(state[t], {"ALLOC"}))
          /\ Goto(c, "create")
       \/ /\ ~ mask_set_strict_ok(state[t], {"ALLOC"})
          /\ IF t < N THEN tgt' = [tgt EXCEPT ![c] = t + 1] /\ UNCHANGED <<pc, op>>
                      ELSE Return(c)
          /\ UNCHANGED sharedVars
    /\ UNCHANGED <<ctxVars, held, promise>>

InstallCreate(c) ==
    /\ CallerAt(c, "create")
    /\ \E f \in Fds, k \in CbKinds :
          /\ tfd[f] = "closed"
          /\ tfd' = [tfd EXCEPT ![f] = "disarmed"]
          /\ fd' = [fd EXCEPT ![tgt[c]] = f]
          /\ cb' = [cb EXCEPT ![tgt[c]] = k]
    /\ Goto(c, "mutex")
    /\ UNCHANGED <<state, lock, ctxVars, held, promise>>

\* The callback stays what it was: nobody looks at that of a free slot.
InstallCreateFails(c) ==
    /\ CallerAt(c, "create")
    /\ fd' = [fd EXCEPT ![tgt[c]] = NoFd]
    /\ state' = [state EXCEPT ![tgt[c]] = {}]
    /\ Return(c)
    /\ UNCHANGED <<cb, lock, tfd, ctxVars, held, promise>>

InstallMutex(c) ==
    /\ CallerAt(c, "mutex")
    /\ SetLock([lock EXCEPT ![tgt[c]] = Free])
    /\ Goto(c, "publish")
    /\ UNCHANGED <<ctxVars, held, promise>>

\* Mutant: the error path forgets the descriptor.
InstallMutexFailsLeak(c) ==
    /\ CallerAt(c, "mutex")
    /\ state' = [state EXCEPT ![tgt[c]] = {}]
    /\ Return(c)
    /\ UNCHANGED <<fd, tfd, cb, lock, ctxVars, held, promise>>

\* The descriptor is closed, then the state reset; only this thread knows either.
InstallMutexFails(c) ==
    /\ CallerAt(c, "mutex")
    /\ tfd' = [tfd EXCEPT ![fd[tgt[c]]] = "closed"]
    /\ state' = [state EXCEPT ![tgt[c]] = {}]
    /\ Return(c)
    /\ UNCHANGED <<fd, cb, lock, ctxVars, held, promise>>

InstallPublish(c) ==
    /\ CallerAt(c, "publish")
    /\ SetState(tgt[c], mask_set(state[tgt[c]], {"USED"}))
    /\ held' = [held EXCEPT ![c] = @ \cup {tgt[c]}]
    /\ Return(c)
    /\ UNCHANGED <<ctxVars, promise>>

InstallStep(c) ==
    \/ InstallScan(c) \/ InstallCreate(c) \/ InstallCreateFails(c)
    \/ InstallMutex(c) \/ InstallMutexFails(c) \/ InstallPublish(c)

-----------------------------------------------------------------------------
(* gabs_timer_start: -EBUSY, or what gabs_timer_restart does.               *)

StartCheck(c) ==
    /\ CallerAt(c, "check")
    /\ IF active(tgt[c]) THEN Return(c) ELSE Goto(c, "r_clear")
    /\ UNCHANGED <<sharedVars, ctxVars, held, promise>>

(* timer_restart                                                            *)

\* Mutant: the timer stays active while its timerfd is set.
RestartClearNot(c) ==
    /\ CallerAt(c, "r_clear")
    /\ SetPromise(tgt[c], FALSE)
    /\ Goto(c, "r_settime")
    /\ UNCHANGED <<sharedVars, ctxVars, held>>

RestartClear(c) ==
    /\ CallerAt(c, "r_clear")
    /\ SetState(tgt[c], mask_clear(state[tgt[c]], {"ACTIVE", "SCHED"}))
    /\ SetPromise(tgt[c], FALSE)
    /\ Goto(c, "r_settime")
    /\ UNCHANGED <<ctxVars, held>>

RestartSettime(c) ==
    /\ CallerAt(c, "r_settime")
    /\ \E delay \in Delays : SetTfd(fd[tgt[c]], TimerfdSet(to_itimerspec(delay)))
    /\ Goto(c, "r_sched")
    /\ UNCHANGED <<ctxVars, held, promise>>

RestartSched(c) ==
    /\ CallerAt(c, "r_sched")
    /\ SetState(tgt[c], mask_set(state[tgt[c]], {"SCHED"}))
    /\ SetPromise(tgt[c], life = "up" /\ cb[tgt[c]] # "null")
    /\ Goto(c, "r_trigger")
    /\ UNCHANGED <<ctxVars, held>>

RestartTrigger(c) ==
    /\ CallerAt(c, "r_trigger")
    /\ Trigger
    /\ Return(c)
    /\ UNCHANGED <<sharedVars, held, promise>>

(* gabs_timer_stop, also the body of gabs_timer_uninstall.                  *)

StopClear(c) ==
    /\ CallerAt(c, "s_clear")
    /\ SetState(tgt[c], mask_clear(state[tgt[c]], {"ACTIVE", "SCHED"}))
    /\ SetPromise(tgt[c], FALSE)
    /\ Goto(c, "s_settime")
    /\ UNCHANGED <<ctxVars, held>>

StopSettime(c) ==
    /\ CallerAt(c, "s_settime")
    /\ SetTfd(fd[tgt[c]], TimerfdSet(0))
    /\ Goto(c, "s_trigger")
    /\ UNCHANGED <<ctxVars, held, promise>>

StopTrigger(c) ==
    /\ CallerAt(c, "s_trigger")
    /\ Trigger
    /\ IF op[c] = "uninstall" THEN Goto(c, "u_unlock") ELSE Return(c)
    /\ UNCHANGED <<sharedVars, held, promise>>

(* gabs_timer_uninstall                                                     *)

\* Mutant: uninstall does not wait for the callback.
UninstallLockNot(c) ==
    /\ CallerAt(c, "u_lock")
    /\ Goto(c, "s_clear")
    /\ UNCHANGED <<sharedVars, ctxVars, held, promise>>

UninstallLock(c) ==
    /\ CallerAt(c, "u_lock")
    /\ \/ InOwnCallback(c, tgt[c]) /\ SetLock(lock)
       \/ ~ InOwnCallback(c, tgt[c]) /\ CanLock(tgt[c]) /\ SetLock(Locked(c, tgt[c]))
    /\ Goto(c, "s_clear")
    /\ UNCHANGED <<ctxVars, held, promise>>

UninstallUnlock(c) ==
    /\ CallerAt(c, "u_unlock")
    /\ SetLock(IF InOwnCallback(c, tgt[c]) THEN lock ELSE Unlocked(c, tgt[c]))
    /\ Goto(c, "u_zombie")
    /\ UNCHANGED <<ctxVars, held, promise>>

\* Mutant: the client frees the slot itself instead of leaving it to the worker.
UninstallZombieFree(c) ==
    /\ CallerAt(c, "u_zombie")
    /\ SetState(tgt[c], {})
    /\ Return(c)
    /\ UNCHANGED <<ctxVars, held, promise>>

UninstallZombie(c) ==
    /\ CallerAt(c, "u_zombie")
    /\ SetState(tgt[c], mask_set(state[tgt[c]], {"ZOMBIE"}))
    /\ Return(c)
    /\ UNCHANGED <<ctxVars, held, promise>>

CallerStep(c) ==
    \/ StartCheck(c)
    \/ RestartClear(c) \/ RestartSettime(c) \/ RestartSched(c) \/ RestartTrigger(c)
    \/ StopClear(c) \/ StopSettime(c) \/ StopTrigger(c)
    \/ UninstallLock(c) \/ UninstallUnlock(c) \/ UninstallZombie(c)

-----------------------------------------------------------------------------
(* The worker thread: the head of its loop, and prepare_pfds.               *)

WorkerTop ==
    /\ WorkerAt("top")
    /\ wpc' = IF work_state = "EXIT" THEN "exited" ELSE "prepare"
    /\ pfds' = <<EventFd>>
    /\ wi' = 1
    /\ ready' = {}
    /\ UNCHANGED <<firing, sharedVars, ctxVars, promise>>

\* Mutant: timers that are not valid are skipped, zombies included.
PrepareTestValid ==
    /\ WorkerAt("prepare")
    /\ \/ wi > N /\ WNext("poll", 1)
       \/ wi <= N /\ ~ timer_valid(state[wi]) /\ WNext("prepare", wi + 1)
       \/ wi <= N /\ timer_valid(state[wi]) /\ WGoto("test_active")
    /\ UNCHANGED <<sharedVars, ctxVars, promise>>

\* BIT_USED, then BIT_ZOMBIE.  Only the worker clears BIT_USED, so that the two
\* reads tell no more apart than one.
PrepareTest ==
    /\ WorkerAt("prepare")
    /\ \/ wi > N /\ WNext("poll", 1)
       \/ wi <= N /\ ~ mask_test(state[wi], {"USED"}) /\ WNext("prepare", wi + 1)
       \/ wi <= N /\ mask_test(state[wi], {"USED", "ZOMBIE"}) /\ WGoto("cleanup_close")
       \/ wi <= N /\ timer_valid(state[wi]) /\ WGoto("test_active")
    /\ UNCHANGED <<sharedVars, ctxVars, promise>>

\* timer_cleanup, in the code's order: descriptor, state, mutex.
CleanupClose ==
    /\ WorkerAt("cleanup_close")
    /\ SetTfd(fd[wi], "closed")
    /\ WGoto("cleanup_state")
    /\ UNCHANGED <<ctxVars, promise>>

CleanupState ==
    /\ WorkerAt("cleanup_state")
    /\ SetState(wi, {})
    /\ WGoto("cleanup_mutex")
    /\ UNCHANGED <<ctxVars, promise>>

CleanupMutex ==
    /\ WorkerAt("cleanup_mutex")
    /\ SetLock(Destroyed(wi))
    /\ WNext("prepare", wi + 1)
    /\ UNCHANGED <<ctxVars, promise>>

PrepareActive ==
    /\ WorkerAt("test_active")
    /\ WGoto(IF mask_test(state[wi], {"ACTIVE"}) THEN "push" ELSE "cas")
    /\ UNCHANGED <<sharedVars, ctxVars, promise>>

PrepareCas ==
    /\ WorkerAt("cas")
    /\ SetState(wi, mask_cas(state[wi], {"SCHED"}, {"ACTIVE"}))
    /\ IF mask_test(state[wi], {"SCHED"}) THEN WGoto("push") ELSE WNext("prepare", wi + 1)
    /\ UNCHANGED <<ctxVars, promise>>

\* The array has N entries.  A push past its end is undefined behaviour: the
\* worker is not modelled any further.
PreparePush ==
    /\ WorkerAt("push")
    /\ pfds' = Append(pfds, fd[wi])
    /\ wpc' = IF Len(pfds) < N THEN "unsched" ELSE "overrun"
    /\ UNCHANGED <<wi, ready, firing, sharedVars, ctxVars, promise>>

PrepareUnsched ==
    /\ WorkerAt("unsched")
    /\ SetState(wi, mask_clear(state[wi], {"SCHED"}))
    /\ WNext("prepare", wi + 1)
    /\ UNCHANGED <<ctxVars, promise>>

(* poll blocks until a descriptor of the set is readable, or a signal       *)
(* interrupts it.                                                           *)

PollSet == {pfds[i] : i \in 1 .. Len(pfds)}

Poll ==
    /\ WorkerAt("poll")
    /\ ready' = {f \in PollSet : IsReadable(f)}
    /\ ready' # {}
    /\ wpc' = "polled"
    /\ UNCHANGED <<wi, pfds, firing, sharedVars, ctxVars, promise>>

PollInterrupted ==
    /\ wpc = "poll"
    /\ left["signal"] > 0
    /\ left' = [left EXCEPT !["signal"] = @ - 1]
    /\ WGoto("top")
    /\ UNCHANGED <<callerVars, held, sharedVars, ctxVars, promise>>

\* The eventfd comes first: if it is readable the timers have to wait.
Polled ==
    /\ WorkerAt("polled")
    /\ IF EventFd \in ready
         THEN WGoto("top") /\ eventfd' = eventfd - 1
         ELSE WGoto("service") /\ UNCHANGED eventfd
    /\ UNCHANGED <<sharedVars, life, work_state, promise>>

(* service_pfds, one entry of the poll set at a time.                       *)

ServiceRead ==
    /\ WorkerAt("service")
    /\ \/ wi > Len(pfds) /\ WGoto("top") /\ UNCHANGED sharedVars
       \/ /\ wi <= Len(pfds)
          /\ pfds[wi] \notin ready
          /\ WNext("service", wi + 1)
          /\ UNCHANGED sharedVars
       \/ /\ wi <= Len(pfds)
          /\ pfds[wi] \in ready
          /\ SetTfd(pfds[wi], TimerfdRead(tfd[pfds[wi]]))
          /\ WGoto("lookup")
    /\ UNCHANGED <<ctxVars, promise>>

timer_from_fd(f) == {t \in Slots : timer_valid(state[t]) /\ fd[t] = f}

\* timer_alarm begins by setting "firing", and does nothing without a callback.
ServiceLookup ==
    LET found == timer_from_fd(pfds[wi]) IN
    /\ WorkerAt("lookup")
    /\ \/ found = {} /\ WNext("service", wi + 1)
       \/ \E t \in found :
          /\ \A u \in found : t <= u
          /\ firing' = t
          /\ wpc' = IF cb[t] = "null" THEN "unactive" ELSE "lock"
          /\ UNCHANGED <<wi, pfds, ready>>
    /\ UNCHANGED <<sharedVars, ctxVars, promise>>

AlarmLock ==
    /\ WorkerAt("lock")
    /\ CanLock(firing)
    /\ SetLock(Locked(Worker, firing))
    /\ WGoto("alarm_test")
    /\ UNCHANGED <<ctxVars, promise>>

\* Mutant: the timer may have been stopped meanwhile.
AlarmTestNot ==
    /\ WorkerAt("alarm_test")
    /\ WGoto("callback")
    /\ SetPromise(firing, FALSE)
    /\ UNCHANGED <<sharedVars, ctxVars>>

\* The callback is invoked if the timer has not been stopped meanwhile.
AlarmTest ==
    /\ WorkerAt("alarm_test")
    /\ IF mask_test(state[firing], {"ACTIVE"})
         THEN WGoto("callback") /\ SetPromise(firing, FALSE)
         ELSE WGoto("unlock") /\ UNCHANGED promise
    /\ UNCHANGED <<sharedVars, ctxVars>>

CallbackReturn ==
    /\ wpc \in {"callback", "incall"}
    /\ pc[Worker] = "idle"
    /\ WGoto("unlock")
    /\ UNCHANGED <<callerVars, useVars, sharedVars, ctxVars, promise>>

\* Mutant: the mutex is not released after the callback.
AlarmUnlockNot ==
    /\ WorkerAt("unlock")
    /\ WGoto("unactive")
    /\ UNCHANGED <<sharedVars, ctxVars, promise>>

AlarmUnlock ==
    /\ WorkerAt("unlock")
    /\ SetLock(Unlocked(Worker, firing))
    /\ WGoto("unactive")
    /\ UNCHANGED <<ctxVars, promise>>

\* timer_alarm has returned; BIT_ACTIVE of the timer it was for is cleared.
AlarmDone ==
    /\ WorkerAt("unactive")
    /\ SetState(firing, mask_clear(state[firing], {"ACTIVE"}))
    /\ firing' = NoSlot
    /\ wi' = wi + 1
    /\ wpc' = "service"
    /\ UNCHANGED <<pfds, ready, ctxVars, promise>>

WorkerStep ==
    \/ WorkerTop \/ PrepareTest \/ CleanupClose \/ CleanupState \/ CleanupMutex
    \/ PrepareActive \/ PrepareCas \/ PreparePush \/ PrepareUnsched
    \/ Poll \/ Polled \/ ServiceRead \/ ServiceLookup
    \/ AlarmLock \/ AlarmTest \/ CallbackReturn \/ AlarmUnlock \/ AlarmDone

\* The kernel: a delay elapses.
Expire(f) ==
    /\ tfd[f] = "armed"
    /\ SetTfd(f, "expired")
    /\ UNCHANGED <<workerVars, callerVars, ctxVars, useVars, promise>>

DeinitStep == DeinitTrigger \/ DeinitJoin \/ DeinitCleanup

Next ==
    \/ CtxInit \/ DeinitExit \/ DeinitStep
    \/ \E c \in Clients :
          \/ ClientInstall(c)
          \/ \E o \in TimerOps, t \in Slots : ClientCall(c, o, t)
          \/ InstallStep(c)
    \/ \E c \in Callers : CallerStep(c)
    \/ \E o \in TimerOps : CallbackCall(o)
    \/ WorkerStep \/ PollInterrupted
    \/ \E f \in Fds : Expire(f)

Spec == Init /\ [][Next]_vars

\* A thread inside the library keeps running, and so does time.  Nothing makes
\* a client call a function, nor a call of the system fail.
Fairness ==
    /\ WF_vars(WorkerStep)
    /\ \A c \in Callers : WF_vars(CallerStep(c))
    /\ \A c \in Clients : WF_vars(InstallStep(c))
    /\ \A f \in Fds : WF_vars(Expire(f))
    /\ WF_vars(DeinitStep)

FairSpec == Spec /\ Fairness

-----------------------------------------------------------------------------
CallerPcs == {"idle", "scan", "create", "mutex", "publish", "check",
              "r_clear", "r_settime", "r_sched", "r_trigger",
              "s_clear", "s_settime", "s_trigger", "u_lock", "u_unlock", "u_zombie"}
WorkerPcs == {"top", "prepare", "cleanup_close", "cleanup_state", "cleanup_mutex",
              "test_active", "cas", "push", "overrun", "unsched", "poll", "polled",
              "service", "lookup", "lock", "alarm_test", "callback", "incall",
              "unlock", "unactive", "exited"}

CtxType ==
    /\ life \in {"down", "up", "exiting", "joining", "closing"}
    /\ work_state \in {"NORMAL", "EXIT"}
    /\ eventfd \in Nat \cup {Closed}

SlotType ==
    /\ state \in [Slots -> SUBSET Bits]
    /\ fd \in [Slots -> Fds \cup {NoFd}]
    /\ cb \in [Slots -> AllCbKinds]
    /\ lock \in [Slots -> Callers \cup {Free, NoMutex}]
    /\ tfd \in [Fds -> {"closed", "disarmed", "armed", "expired"}]
    /\ promise \in [Slots -> BOOLEAN]

WorkerType ==
    /\ wpc \in WorkerPcs
    /\ wi \in Nat \ {0}
    /\ pfds \in Seq(Fds \cup {NoFd, EventFd})
    /\ ready \subseteq Fds \cup {NoFd, EventFd}
    /\ firing \in Slots \cup {NoSlot}

CallerType ==
    /\ pc \in [Callers -> CallerPcs]
    /\ op \in [Callers -> Ops \cup {"none"}]
    /\ tgt \in [Callers -> Slots \cup {NoSlot}]

UseType ==
    /\ held \in [Clients -> SUBSET Slots]
    /\ left \in [Ops -> Nat]

\* Every variable has its type.
TypeOK == CtxType /\ SlotType /\ WorkerType /\ CallerType /\ UseType

\* Slot t has a timerfd of its own: an installer that has created it, or a
\* published timer whose cleanup has not closed it.
OwnsFd(t) ==
    \/ "USED" \in state[t] /\ ~ (wpc = "cleanup_state" /\ wi = t)
    \/ \E c \in Clients : pc[c] \in {"mutex", "publish"} /\ tgt[c] = t

\* The open timerfds are those of the slots, one each: none is leaked by a
\* failed install, a cleanup or deinit, none is closed twice, none shared.
FdsAccounted ==
    /\ \A t \in Slots : OwnsFd(t) => fd[t] \in Fds /\ tfd[fd[t]] # "closed"
    /\ \A t, u \in Slots : OwnsFd(t) /\ OwnsFd(u) /\ fd[t] = fd[u] => t = u
    /\ \A f \in Fds : tfd[f] # "closed" => \E t \in Slots : OwnsFd(t) /\ fd[t] = f

\* The worker never polls, reads or looks up a descriptor that has been
\* closed, or that was given to another timer since it was put in the set.
PollSetOwned ==
    wpc \notin {"top", "exited"} =>
       \A i \in 1 .. Len(pfds) :
          \/ pfds[i] = EventFd
          \/ \E t \in Slots : "USED" \in state[t] /\ fd[t] = pfds[i]
                              /\ tfd[pfds[i]] # "closed"

\* The assertion of trigger_reset: the eventfd is open when it is written,
\* deinit included.
TriggerOpen ==
    \A c \in Callers : pc[c] \in {"r_trigger", "s_trigger"} => eventfd # Closed

InCallback(t) == wpc \in {"callback", "incall"} /\ firing = t

\* A client's uninstall of t is past its critical section, or has returned.
Uninstalled(t) ==
    \/ \E c \in Clients : pc[c] = "u_zombie" /\ tgt[c] = t
    \/ "ZOMBIE" \in state[t] /\ cb[t] # "uninstall"

\* gabs_timer_uninstall: once it has released the lock, the callback of the
\* timer is not running and does not run again.  A mutex that
\* is not initialised excludes nothing.
UninstallQuiesces ==
    \A t \in Slots : Uninstalled(t) /\ lock[t] # NoMutex => ~ InCallback(t)

\* A callback is invoked for an expiration of the timer's last (re)start: the
\* timerfd has expired, was read, and has not been armed since.  Only a client
\* and a callback that restart the timer at the same time can break this.
RestartedByCallback(t) == cb[t] \in {"start", "restart"}

NoEarlyFire ==
    [][wpc = "alarm_test" /\ wpc' = "callback" /\ ~ RestartedByCallback(firing)
          => tfd[fd[firing]] = "disarmed"]_vars

InFlight(t) == \E c \in Callers : pc[c] # "idle" /\ tgt[c] = t

\* Test start_makes_active and its siblings: a timer that was started, with no
\* call on it since and no callback run, is active.
StartedIsActive ==
    \A t \in Slots : promise[t] /\ ~ InFlight(t) => active(t)

\* The poll set the worker builds fits the array it is built in.
PollSetFits == Len(pfds) <= N

\* A started timer eventually fires, unless it is stopped, restarted or
\* uninstalled, or the context deinitialised.
StartedFires == \A t \in Slots : promise[t] ~> ~ promise[t]

\* Deinit terminates: the worker always notices the exit request.
DeinitTerminates == life = "exiting" ~> life = "down"

\* Uninstall terminates, from another thread and from the timer's callback.
UninstallReturns == \A c \in Callers : pc[c] = "u_lock" ~> pc[c] = "idle"

\* An uninstalled timer's slot is reclaimed if the worker is asked to rebuild its
\* poll set after the timer was marked, by whoever.
ZombieReclaimedOnTrigger ==
    \A t \in Slots : "ZOMBIE" \in state[t] /\ eventfd > 0 ~> state[t] = {}

-----------------------------------------------------------------------------
(* What the implementation keeps of gabs/timer.h.  Timers that their own    *)
(* callback restarts are left out: if a client restarts one at the same     *)
(* time, one expiry serves both restarts and the timer stays armed.         *)

Promised(t) == timer_valid(state[t]) /\ ~ RestartedByCallback(t)

\* A timer is armed while its flags say so; the flag of the timer that fires is
\* cleared when its callback has returned.
Firing == {"callback", "incall", "unlock", "unactive"}

Armed(t) ==
    \/ "SCHED" \in state[t]
    \/ "ACTIVE" \in state[t] /\ ~ (firing = t /\ wpc \in Firing)

Phase ==
    [t \in Slots |-> IF ~ Promised(t) THEN "none" ELSE IF Armed(t) THEN "armed" ELSE "idle"]

Running ==
    IF wpc \in {"callback", "incall"} /\ ~ RestartedByCallback(firing) THEN <<firing>> ELSE <<>>

Interface == INSTANCE Timer WITH Timers <- Slots, phase <- Phase, running <- Running

\* The implementation keeps the promise of gabs/timer.h.
ImplementsTimer == Interface!Spec
=============================================================================
