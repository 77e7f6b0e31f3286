------------------------------ MODULE TimerZephyr ------------------------------
(***************************************************************************)
(* The Zephyr implementation of the timer interface                        *)
(* (timer/zephyr/timer_zephyr.c).                                          *)
(*                                                                         *)
(* A timer is a slot of a static pool with a delayable work item of the    *)
(* kernel.  When its delay elapses the item is queued, and the thread of   *)
(* the system's work queue runs the callback.  Clients and callbacks call  *)
(* the interface; an owner initialises and deinitialises the context.      *)
(*                                                                         *)
(* The kernel's functions on work items take a spinlock, so each is one    *)
(* step here.  The kernel is external to the repository: its definitions   *)
(* say what k_work_*, k_mutex_* and sys_bitarray_* document.               *)
(***************************************************************************)
EXTENDS Integers, Sequences, FiniteSets

CONSTANTS
    Max,         \* slots of the pool (CONFIG_GABS_TIMER_MAX)
    Clients,     \* application threads
    Queue,       \* the thread of the system's work queue
    Owner,       \* the thread that initialises and deinitialises the context
    ClientOps,   \* what clients call on their timers
    CbKinds,     \* what installed callbacks do
    DeinitWhen   \* "never", "any" time, or "quiet": see DeinitBegin

Slots    == 1 .. Max
None     == 0
Callers  == Clients \cup {Queue, Owner}
Free     == "free"     \* the mutex nobody holds
TimerOps == {"start", "restart", "stop", "uninstall"}
Flags    == {"DELAYED", "QUEUED", "RUNNING", "CANCELING"}   \* of a work item

\* A callback: absent, returning at once, or calling one function on its timer.
AllCbKinds == {"null", "return"} \cup TimerOps

ASSUME MaxAssumption    == Max \in Nat \ {0}
ASSUME ThreadAssumption == {Queue, Owner} \cap Clients = {} /\ Queue # Owner /\ Free \notin Callers
ASSUME UseAssumption    == ClientOps \subseteq TimerOps /\ CbKinds \subseteq AllCbKinds
                           /\ DeinitWhen \in {"never", "quiet", "any"}

VARIABLES
    life,          \* the context: "down", "up" or being deinitialised
    bits,          \* pool_bitarray: the slots that are taken
    list, lock,    \* ctx->list, and the mutex that guards it
    cb,            \* info->callback
    work,          \* the flags of each slot's work item
    pending,       \* the items in the work queue
    sleepers,      \* callers that wait for a cancellation to complete
    qpc, firing,   \* where the queue's thread is, and the item it runs
    pc, op, tgt,   \* per caller: where it is, the function called, its timer
    nxt,           \* the next timer in deinit's walk over the list
    held,          \* the handles each client may still use
    promise,       \* history: started, and nothing since has ended that
    elapsed,       \* history: the delay of the last start has elapsed
    own            \* history: the callback that runs belongs to the timer installed now

poolVars   == <<bits, list, lock, cb>>
kernelVars == <<work, pending, sleepers>>
queueVars  == <<qpc, firing>>
callerVars == <<pc, op, tgt>>
ownerVars  == <<life, nxt>>
history    == <<promise, elapsed, own>>
vars == <<poolVars, kernelVars, queueVars, callerVars, ownerVars, held, history>>

In(s, t) == \E i \in DOMAIN s : s[i] = t

\* A node is taken out of a list, an item out of the queue: either is there once at most.
Without(s, t) ==
    LET i == CHOOSE i \in DOMAIN s : s[i] = t
    IN  IF In(s, t) THEN [j \in 1 .. Len(s) - 1 |-> s[IF j < i THEN j ELSE j + 1]] ELSE s

-----------------------------------------------------------------------------
(* Work items.                                                              *)

busy(t) == work[t] # {}

\* gabs_timer_active
active(t) == work[t] \ {"CANCELING"} # {}

\* k_work_cancel_delayable: the item is neither delayed nor queued any more.  If its
\* handler is running it is marked, until the handler has returned.
Cancelled(t) ==
    /\ work' = [work EXCEPT ![t] = IF "RUNNING" \in @ THEN {"RUNNING", "CANCELING"} ELSE {}]
    /\ pending' = Without(pending, t)

\* k_work_reschedule: a delay that has not elapsed is replaced.
Rescheduled(t) == work' = [work EXCEPT ![t] = @ \cup {"DELAYED"}] /\ UNCHANGED pending

\* The delay elapses.  An item that is queued stays so; one that is being
\* cancelled cannot be queued.
Timeout(t) ==
    /\ "DELAYED" \in work[t]
    /\ IF work[t] \cap {"QUEUED", "CANCELING"} = {}
         THEN /\ work' = [work EXCEPT ![t] = (@ \ {"DELAYED"}) \cup {"QUEUED"}]
              /\ pending' = Append(pending, t)
         ELSE work' = [work EXCEPT ![t] = @ \ {"DELAYED"}] /\ UNCHANGED pending
    /\ elapsed' = [elapsed EXCEPT ![t] = TRUE]
    /\ UNCHANGED <<sleepers, poolVars, queueVars, callerVars, ownerVars, held,
                   promise, own>>

-----------------------------------------------------------------------------
Init ==
    /\ life = "down" /\ nxt = None
    /\ bits = {} /\ list = <<>> /\ lock = Free
    /\ cb = [t \in Slots |-> "null"]
    /\ work = [t \in Slots |-> {}] /\ pending = <<>> /\ sleepers = {}
    /\ qpc = "idle" /\ firing = None
    /\ pc  = [c \in Callers |-> "idle"]
    /\ op  = [c \in Callers |-> "none"]
    /\ tgt = [c \in Callers |-> None]
    /\ held = [c \in Clients |-> {}]
    /\ promise = [t \in Slots |-> FALSE] /\ elapsed = [t \in Slots |-> FALSE]
    /\ own = FALSE

Goto(c, where) == pc' = [pc EXCEPT ![c] = where] /\ UNCHANGED <<op, tgt>>

Return(c) ==
    /\ pc'  = [pc  EXCEPT ![c] = "idle"]
    /\ op'  = [op  EXCEPT ![c] = "none"]
    /\ tgt' = [tgt EXCEPT ![c] = None]

Entry == [start |-> "check", restart |-> "resched", stop |-> "stop", uninstall |-> "u_lock"]

\* A call on the timer t: every function but start ends what was promised.
Begin(c, o, t) ==
    /\ pc[c] = "idle"
    /\ pc'  = [pc  EXCEPT ![c] = Entry[o]]
    /\ op'  = [op  EXCEPT ![c] = o]
    /\ tgt' = [tgt EXCEPT ![c] = t]
    /\ promise' = [promise EXCEPT ![t] = @ /\ o = "start"]
    /\ UNCHANGED <<poolVars, kernelVars, ownerVars, elapsed, own>>

\* A client gives up the handle of a timer it uninstalls.
ClientCall(c, o, t) ==
    /\ life = "up"
    /\ o \in ClientOps
    /\ t \in held[c]
    /\ Begin(c, o, t)
    /\ held' = IF o = "uninstall" THEN [held EXCEPT ![c] = @ \ {t}] ELSE held
    /\ UNCHANGED queueVars

CallbackCall(o) ==
    /\ qpc = "callback"
    /\ o = cb[firing]
    /\ Begin(Queue, o, firing)
    /\ qpc' = "incall"
    /\ UNCHANGED <<firing, held>>

-----------------------------------------------------------------------------
(* The pool.  sys_bitarray_alloc gives the first slot that is free, if any.  *)

reserve(t) == t \notin bits /\ (\A u \in 1 .. t - 1 : u \in bits) /\ bits' = bits \cup {t}
release(t) == bits' = bits \ {t}

-----------------------------------------------------------------------------
(* gabs_timer_install                                                       *)

\* The fields of a slot just reserved, which only this thread knows; NULL, and no
\* change, if all are taken.
InstallReserve(c) ==
    /\ life = "up"
    /\ pc[c] = "idle"
    /\ \E t \in Slots, k \in CbKinds :
          /\ reserve(t)
          /\ cb' = [cb EXCEPT ![t] = k]
          /\ pc'  = [pc  EXCEPT ![c] = "i_lock"]
          /\ op'  = [op  EXCEPT ![c] = "install"]
          /\ tgt' = [tgt EXCEPT ![c] = t]
    /\ UNCHANGED <<list, lock, kernelVars, queueVars, ownerVars, held, history>>

\* The critical sections of install and uninstall.
Lock(c, from, to) ==
    /\ pc[c] = from
    /\ lock = Free
    /\ lock' = c
    /\ Goto(c, to)
    /\ UNCHANGED <<bits, list, cb, kernelVars, queueVars, ownerVars, held, history>>

InstallLock(c) == Lock(c, "i_lock", "append")

InstallAppend(c) ==
    /\ pc[c] = "append"
    /\ list' = Append(list, tgt[c])
    /\ lock' = Free
    /\ held' = [held EXCEPT ![c] = @ \cup {tgt[c]}]
    /\ Return(c)
    /\ UNCHANGED <<bits, cb, kernelVars, queueVars, ownerVars, promise, elapsed, own>>

-----------------------------------------------------------------------------
(* gabs_timer_start and gabs_timer_restart                                  *)

\* Mutant: start does not look whether the timer is started.
StartCheckNot(c) ==
    /\ pc[c] = "check"
    /\ Goto(c, "resched")
    /\ UNCHANGED <<poolVars, kernelVars, queueVars, ownerVars, held, history>>

\* -EBUSY if the timer is started, or its item busy for another reason.
StartCheck(c) ==
    /\ pc[c] = "check"
    /\ IF busy(tgt[c]) THEN Return(c) ELSE Goto(c, "resched")
    /\ UNCHANGED <<poolVars, kernelVars, queueVars, ownerVars, held, history>>

\* timer_start: the delay is at least a tick.  A timer whose callback uninstalls it
\* is given up by the client that starts it.
Reschedule(c) ==
    LET t == tgt[c] IN
    /\ pc[c] = "resched"
    /\ Rescheduled(t)
    /\ promise' = [promise EXCEPT ![t] = life = "up" /\ cb[t] # "null"]
    /\ elapsed' = [elapsed EXCEPT ![t] = FALSE]
    /\ held' = [d \in Clients |-> IF cb[t] = "uninstall" THEN held[d] \ {t} ELSE held[d]]
    /\ Return(c)
    /\ UNCHANGED <<poolVars, sleepers, queueVars, ownerVars, own>>

Stop(c) ==
    /\ pc[c] = "stop"
    /\ Cancelled(tgt[c])
    /\ Return(c)
    /\ UNCHANGED <<poolVars, sleepers, queueVars, ownerVars, held, history>>

-----------------------------------------------------------------------------
(* gabs_timer_uninstall                                                     *)

UninstallLock(c) == Lock(c, "u_lock", "unlink")

\* Mutant: the mutex is not released.
UninstallUnlinkLocked(c) ==
    /\ pc[c] = "unlink"
    /\ list' = Without(list, tgt[c])
    /\ Goto(c, "cancel")
    /\ UNCHANGED <<lock, bits, cb, kernelVars, queueVars, ownerVars, held, history>>

UninstallUnlink(c) ==
    /\ pc[c] = "unlink"
    /\ list' = Without(list, tgt[c])
    /\ lock' = Free
    /\ Goto(c, "cancel")
    /\ UNCHANGED <<bits, cb, kernelVars, queueVars, ownerVars, held, history>>

\* Mutant: uninstall never waits.
CancelAsync(c) ==
    /\ pc[c] = "cancel"
    /\ Cancelled(tgt[c])
    /\ Goto(c, "release")
    /\ UNCHANGED <<sleepers, poolVars, queueVars, ownerVars, held, history>>

\* Mutant: uninstall always waits.
CancelSync(c) ==
    /\ pc[c] = "cancel"
    /\ Cancelled(tgt[c])
    /\ sleepers' = IF work'[tgt[c]] = {} THEN sleepers ELSE sleepers \cup {c}
    /\ Goto(c, "release")
    /\ UNCHANGED <<poolVars, queueVars, ownerVars, held, history>>

\* Uninstall and deinit.  Only the timer's own callback does not wait for its handler.
Cancel(c) ==
    /\ pc[c] = "cancel"
    /\ Cancelled(tgt[c])
    /\ sleepers' = IF (c = Queue /\ tgt[c] = firing) \/ work'[tgt[c]] = {}
                     THEN sleepers ELSE sleepers \cup {c}
    /\ Goto(c, "release")
    /\ UNCHANGED <<poolVars, queueVars, ownerVars, held, history>>

\* Mutant: the slot is not given back.
UninstallLeak(c) ==
    /\ pc[c] = "release" /\ op[c] = "uninstall"
    /\ c \notin sleepers
    /\ own' = (own /\ c # Queue)
    /\ Return(c)
    /\ UNCHANGED <<poolVars, kernelVars, queueVars, ownerVars, held, promise, elapsed>>

UninstallRelease(c) ==
    /\ pc[c] = "release" /\ op[c] = "uninstall"
    /\ c \notin sleepers
    /\ release(tgt[c])
    /\ own' = (own /\ c # Queue)
    /\ Return(c)
    /\ UNCHANGED <<list, lock, cb, kernelVars, queueVars, ownerVars, held, promise, elapsed>>

CallerStep(c) ==
    \/ StartCheck(c) \/ Reschedule(c) \/ Stop(c)
    \/ UninstallLock(c) \/ UninstallUnlink(c) \/ Cancel(c) \/ UninstallRelease(c)

InstallStep(c) == InstallLock(c) \/ InstallAppend(c)

-----------------------------------------------------------------------------
(* gabs_timer_ctx_init and gabs_timer_ctx_deinit                            *)

CtxInit ==
    /\ life = "down"
    /\ life' = "up"
    /\ list' = <<>> /\ lock' = Free
    /\ UNCHANGED <<bits, cb, kernelVars, queueVars, callerVars, nxt, held, history>>

First(s)    == IF s = <<>> THEN None ELSE s[1]
After(s, t) == LET i == {i \in DOMAIN s : s[i] = t /\ i < Len(s)}
               IN  IF i = {} THEN None ELSE s[1 + CHOOSE j \in i : TRUE]

\* No client is in a call, and none uses a handle any more.  "quiet": nor is a
\* timer left whose callback uninstalls it.
DeinitBegin ==
    /\ life = "up"
    /\ \A c \in Clients : pc[c] = "idle"
    /\ DeinitWhen = "any" \/ (DeinitWhen = "quiet" /\ \A t \in bits : cb[t] # "uninstall")
    /\ life' = "deinit"
    /\ pc'  = [pc  EXCEPT ![Owner] = "walk"]
    /\ op'  = [op  EXCEPT ![Owner] = "deinit"]
    /\ tgt' = [tgt EXCEPT ![Owner] = First(list)]
    /\ nxt' = After(list, First(list))
    /\ held' = [c \in Clients |-> {}]
    /\ promise' = [t \in Slots |-> FALSE]
    /\ UNCHANGED <<poolVars, kernelVars, queueVars, elapsed, own>>

\* Without the mutex.
DeinitRemove ==
    /\ pc[Owner] = "walk" /\ tgt[Owner] # None
    /\ list' = Without(list, tgt[Owner])
    /\ Goto(Owner, "cancel")
    /\ UNCHANGED <<bits, lock, cb, kernelVars, queueVars, ownerVars, held, history>>

\* Mutant: the walk goes on where it was.
DeinitReleaseStale ==
    /\ pc[Owner] = "release"
    /\ Owner \notin sleepers
    /\ release(tgt[Owner])
    /\ pc'  = [pc EXCEPT ![Owner] = "walk"]
    /\ tgt' = [tgt EXCEPT ![Owner] = nxt]
    /\ UNCHANGED <<nxt, op, list, lock, cb, kernelVars, life, queueVars, held, promise, elapsed, own>>

DeinitRelease ==
    /\ pc[Owner] = "release"
    /\ Owner \notin sleepers
    /\ release(tgt[Owner])
    /\ pc'  = [pc EXCEPT ![Owner] = "walk"]
    /\ tgt' = [tgt EXCEPT ![Owner] = nxt]
    /\ nxt' = After(list, nxt)
    /\ UNCHANGED <<op, list, lock, cb, kernelVars, queueVars, life, held, promise, elapsed, own>>

DeinitReturn ==
    /\ pc[Owner] = "walk" /\ tgt[Owner] = None
    /\ life' = "down"
    /\ Return(Owner)
    /\ UNCHANGED <<nxt, poolVars, kernelVars, queueVars, held, history>>

DeinitStep == DeinitRemove \/ Cancel(Owner) \/ DeinitRelease \/ DeinitReturn

-----------------------------------------------------------------------------
(* The work queue's thread, and timer_expiry, the handler of every item.    *)

QueueTake ==
    /\ qpc = "idle" /\ pending # <<>>
    /\ qpc' = "expiry"
    /\ firing' = Head(pending)
    /\ pending' = Tail(pending)
    /\ work' = [work EXCEPT ![Head(pending)] = (@ \ {"QUEUED"}) \cup {"RUNNING"}]
    /\ UNCHANGED <<sleepers, poolVars, callerVars, ownerVars, held, history>>

\* Mutant: nobody looks whether the item is being cancelled.
TimerExpiryBlind ==
    /\ qpc = "expiry"
    /\ IF cb[firing] # "null"
         THEN /\ qpc' = "callback"
              /\ promise' = [promise EXCEPT ![firing] = FALSE]
              /\ own' = TRUE
         ELSE qpc' = "done" /\ UNCHANGED <<promise, own>>
    /\ UNCHANGED <<firing, poolVars, kernelVars, callerVars, ownerVars, held, elapsed>>

\* The callback is invoked unless the item is being cancelled.
TimerExpiry ==
    /\ qpc = "expiry"
    /\ IF cb[firing] # "null" /\ "CANCELING" \notin work[firing]
         THEN /\ qpc' = "callback"
              /\ promise' = [promise EXCEPT ![firing] = FALSE]
              /\ own' = TRUE
         ELSE qpc' = "done" /\ UNCHANGED <<promise, own>>
    /\ UNCHANGED <<firing, poolVars, kernelVars, callerVars, ownerVars, held, elapsed>>

CallbackReturn ==
    /\ qpc = "incall" \/ (qpc = "callback" /\ cb[firing] = "return")
    /\ pc[Queue] = "idle"
    /\ qpc' = "done"
    /\ own' = FALSE
    /\ UNCHANGED <<firing, poolVars, kernelVars, callerVars, ownerVars, held,
                   promise, elapsed>>

\* The handler has returned: a cancellation is complete, and who waits for it woken.
QueueDone ==
    /\ qpc = "done"
    /\ work' = [work EXCEPT ![firing] = @ \ {"RUNNING", "CANCELING"}]
    /\ sleepers' = {c \in sleepers : tgt[c] # firing}
    /\ qpc' = "idle" /\ firing' = None
    /\ UNCHANGED <<pending, poolVars, callerVars, ownerVars, held, history>>

QueueStep ==
    \/ QueueTake \/ TimerExpiry \/ CallbackReturn \/ QueueDone
    \/ \E o \in TimerOps : CallbackCall(o)

Next ==
    \/ CtxInit \/ DeinitBegin \/ DeinitStep
    \/ \E c \in Clients :
          \/ InstallReserve(c) \/ InstallStep(c)
          \/ \E o \in TimerOps, t \in Slots : ClientCall(c, o, t)
    \/ \E c \in Clients \cup {Queue} : CallerStep(c)
    \/ QueueStep
    \/ \E t \in Slots : Timeout(t)

Spec == Init /\ [][Next]_vars

\* Threads inside the library and the queue's thread keep running, callbacks
\* return, and time passes.  Unlocking a k_mutex hands it to the waiter of the
\* highest priority, and that is the queue's thread: it gets the mutex.
Fairness ==
    /\ WF_vars(QueueStep)
    /\ WF_vars(DeinitStep)
    /\ \A c \in Clients : WF_vars(InstallStep(c))
    /\ SF_vars(CallerStep(Queue))
    /\ \A c \in Clients : WF_vars(CallerStep(c))
    /\ \A t \in Slots : WF_vars(Timeout(t))

FairSpec == Spec /\ Fairness

-----------------------------------------------------------------------------
CallerPcs == {"idle", "i_lock", "append", "check", "resched", "stop", "u_lock", "unlink",
              "cancel", "release", "walk"}

PoolType ==
    /\ life \in {"down", "up", "deinit"} /\ nxt \in Slots \cup {None}
    /\ bits \subseteq Slots /\ list \in Seq(Slots)
    /\ lock \in Callers \cup {Free}
    /\ cb \in [Slots -> AllCbKinds]

KernelType ==
    /\ work \in [Slots -> SUBSET Flags] /\ pending \in Seq(Slots)
    /\ sleepers \subseteq Callers
    /\ qpc \in {"idle", "expiry", "callback", "incall", "done"}
    /\ firing \in Slots \cup {None}

CallerType ==
    /\ pc \in [Callers -> CallerPcs]
    /\ op \in [Callers -> TimerOps \cup {"none", "install", "deinit"}]
    /\ tgt \in [Callers -> Slots \cup {None}]
    /\ held \in [Clients -> SUBSET Slots]

HistoryType ==
    /\ promise \in [Slots -> BOOLEAN] /\ elapsed \in [Slots -> BOOLEAN]
    /\ own \in BOOLEAN

LockHeld == \A c \in Callers : lock = c <=> pc[c] \in {"append", "unlink"}

\* Every variable has its type, the mutex is held in critical sections only, and an
\* item is in the queue if its flags say so.
TypeOK ==
    /\ PoolType /\ KernelType /\ CallerType /\ HistoryType
    /\ LockHeld
    /\ \A t \in Slots : "QUEUED" \in work[t] <=> In(pending, t)

\* Who has the slot t outside the list: an install before it is listed, an
\* uninstall or deinit after.
HasOutside(t) ==
    {c \in Callers : tgt[c] = t /\ pc[c] \in {"i_lock", "append", "cancel", "release"}}

Places(t) == Cardinality({i \in DOMAIN list : list[i] = t}) + Cardinality(HasOutside(t))

\* A slot that is taken is in the list once or in the hands of one caller, and a
\* free one in neither: no slot is lost, given back twice, or listed when free.
SlotsAccounted == \A t \in Slots : Places(t) = IF t \in bits THEN 1 ELSE 0

InCallback(t) == qpc \in {"callback", "incall"} /\ firing = t

\* The cancellation of t is complete, or its slot given back since.
Gone(t) ==
    \/ t \notin bits
    \/ \E c \in Callers \ {Queue} : pc[c] = "release" /\ c \notin sleepers /\ tgt[c] = t

\* The comment of gabs_timer_uninstall: the callback does not fire once uninstall
\* has cancelled.  Nor is it still running, if it did not uninstall itself.
UninstallQuiesces ==
    \A t \in Slots : Gone(t) => /\ work[t] \cap {"DELAYED", "QUEUED"} = {}
                                /\ ~ (InCallback(t) /\ own)

\* A callback is invoked after the delay of the timer's last start or restart.
NoEarlyFire == [][qpc = "expiry" /\ qpc' = "callback" => elapsed[firing]]_vars

InFlight(t) == \E c \in Callers : pc[c] # "idle" /\ tgt[c] = t

\* gabs_timer_active: "Timer is active (will expire at some point)".  A timer that was
\* started, with no call on it since and no callback run, is active, and will.
ActiveWillExpire ==
    \A t \in Slots : promise[t] /\ ~ InFlight(t) =>
       /\ active(t)
       /\ work[t] \cap {"DELAYED", "QUEUED"} # {} \/ (qpc = "expiry" /\ firing = t)

\* A timer is in the list when uninstall or deinit takes it out: sys_dlist_remove
\* dereferences the pointers of the node, which are null when it is not.
RemovedOnce ==
    \A c \in Callers : pc[c] \in {"unlink", "walk"} /\ tgt[c] # None => In(list, tgt[c])

\* A started timer fires, unless a call ends that.
StartedFires == \A t \in Slots : promise[t] ~> ~ promise[t]

\* Uninstall and deinit do not wait for ever, whatever the callback does.
CancelReturns == \A c \in Callers : c \in sleepers ~> c \notin sleepers

-----------------------------------------------------------------------------
(* What a client sees of it.                                                *)

\* A timer is armed while its delay runs, its item is queued, or the handler is
\* about to invoke the callback.
Armed(t) ==
    \/ work[t] \cap {"DELAYED", "QUEUED"} # {}
    \/ qpc = "expiry" /\ firing = t /\ "CANCELING" \notin work[t]

Phase   == [t \in Slots |-> IF t \notin bits THEN "none" ELSE IF Armed(t) THEN "armed" ELSE "idle"]
Running == IF qpc \in {"callback", "incall"} THEN <<firing>> ELSE <<>>

Interface == INSTANCE Timer WITH Timers <- Slots, phase <- Phase, running <- Running

\* The implementation keeps the promise of gabs/timer.h.
ImplementsTimer == Interface!Spec
=============================================================================
