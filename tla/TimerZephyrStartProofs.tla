------------------------- MODULE TimerZephyrStartProofs -------------------------
(***************************************************************************)
(* What is proved about the timers of TimerZephyr that clients start and   *)
(* nobody restarts: no callback is invoked before its delay has elapsed, a *)
(* started timer stays active until a call or its callback ends that, and  *)
(* the implementation keeps the promise of gabs/timer.h (module Timer).    *)
(*                                                                         *)
(* A restart breaks all three: it leaves an item that is queued in the     *)
(* queue, so the callback runs early and then again.                       *)
(***************************************************************************)
EXTENDS TimerZephyrProofs

-----------------------------------------------------------------------------
(* The inductive invariant, on top of IInv.                                 *)

Unrestarted == Careful /\ "restart" \notin ClientOps

\* An item is in one place at a time.
WorkInv ==
    \A t \in Slots :
       work[t] \in {{}, {"DELAYED"}, {"QUEUED"}, {"RUNNING"}, {"RUNNING", "CANCELING"}}

\* Who is about to schedule an item has found it idle.
ReadyInv == \A c \in Clients : pc[c] = "resched" => work[tgt[c]] = {}

\* The handler is going to invoke the callback of t.
Due(t) == qpc = "expiry" /\ firing = t

\* An item leaves the delay only when the delay has elapsed.
ElapsedInv ==
    \A t \in Slots : "QUEUED" \in work[t] \/ (Due(t) /\ "CANCELING" \notin work[t]) => elapsed[t]

\* As long as the promise of a start holds the item is on its way, and nobody is in a
\* call that ends it.
PromiseInv ==
    \A t \in Slots : promise[t] =>
       /\ life = "up" /\ cb[t] # "null"
       /\ "CANCELING" \notin work[t]
       /\ work[t] \cap {"DELAYED", "QUEUED"} # {} \/ Due(t)
       /\ \A c \in Callers : tgt[c] = t => pc[c] \in {"idle", "check", "resched"}

StartInv == IInv /\ WorkInv /\ ReadyInv /\ ElapsedInv /\ PromiseInv

-----------------------------------------------------------------------------
(* The steps.                                                               *)

LEMMA BothHold ==
    ASSUME NEW S, NEW f \in [S -> BOOLEAN], NEW t \in S, NEW b \in BOOLEAN
    PROVE  [f EXCEPT ![t] = @ /\ b][t] = (f[t] /\ b)
OBVIOUS

LEMMA StartCtxInit ==
    ASSUME StartInv, Unrestarted, CtxInit
    PROVE  (WorkInv /\ ReadyInv /\ ElapsedInv /\ PromiseInv)'
<1> USE Threads DEF StartInv, IInv, TypeInv, PoolType, KernelType, CallerType, HistoryType,
        CallerInv, ClientPcs, OwnerPcs, QueuePcs, CtxInit, poolVars, kernelVars, queueVars,
        callerVars, ownerVars, history
<1>1. WorkInv'
  BY DEF WorkInv, ItemInv
<1>2. ReadyInv'
  BY DEF ReadyInv, Unrestarted
<1>3. ElapsedInv'
  BY DEF ElapsedInv, Due
<1>4. PromiseInv'
  BY DEF PromiseInv, Due
<1> QED
  BY <1>1, <1>2, <1>3, <1>4

LEMMA StartDeinitBegin ==
    ASSUME StartInv, Unrestarted, DeinitBegin
    PROVE  (WorkInv /\ ReadyInv /\ ElapsedInv /\ PromiseInv)'
<1> USE Threads DEF StartInv, IInv, TypeInv, PoolType, KernelType, CallerType, HistoryType,
        CallerInv, ClientPcs, OwnerPcs, QueuePcs, DeinitBegin, poolVars, kernelVars, queueVars,
        callerVars, ownerVars, history
<1>1. WorkInv'
  BY DEF WorkInv, ItemInv
<1>2. ReadyInv'
  BY DEF ReadyInv, Unrestarted
<1>3. ElapsedInv'
  BY DEF ElapsedInv, Due
<1>4. PromiseInv'
  BY DEF PromiseInv, Due
<1> QED
  BY <1>1, <1>2, <1>3, <1>4

LEMMA StartDeinitRemove ==
    ASSUME StartInv, Unrestarted, DeinitRemove
    PROVE  (WorkInv /\ ReadyInv /\ ElapsedInv /\ PromiseInv)'
<1> USE Threads DEF StartInv, IInv, TypeInv, PoolType, KernelType, CallerType, HistoryType,
        CallerInv, ClientPcs, OwnerPcs, QueuePcs, DeinitRemove, Goto, poolVars, kernelVars,
        queueVars, callerVars, ownerVars, history
<1>1. WorkInv'
  BY DEF WorkInv, ItemInv
<1>2. ReadyInv'
  BY DEF ReadyInv, Unrestarted
<1>3. ElapsedInv'
  BY DEF ElapsedInv, Due
<1>4. PromiseInv'
  BY DEF PromiseInv, Due
<1> QED
  BY <1>1, <1>2, <1>3, <1>4

LEMMA StartDeinitRelease ==
    ASSUME StartInv, Unrestarted, DeinitRelease
    PROVE  (WorkInv /\ ReadyInv /\ ElapsedInv /\ PromiseInv)'
<1> USE Threads DEF StartInv, IInv, TypeInv, PoolType, KernelType, CallerType, HistoryType,
        CallerInv, ClientPcs, OwnerPcs, QueuePcs, DeinitRelease, release, poolVars, kernelVars,
        queueVars, callerVars, ownerVars, history
<1>1. WorkInv'
  BY DEF WorkInv, ItemInv
<1>2. ReadyInv'
  BY DEF ReadyInv, Unrestarted
<1>3. ElapsedInv'
  BY DEF ElapsedInv, Due
<1>4. PromiseInv'
  BY DEF PromiseInv, Due
<1> QED
  BY <1>1, <1>2, <1>3, <1>4

LEMMA StartDeinitReturn ==
    ASSUME StartInv, Unrestarted, DeinitReturn
    PROVE  (WorkInv /\ ReadyInv /\ ElapsedInv /\ PromiseInv)'
<1> USE Threads DEF StartInv, IInv, TypeInv, PoolType, KernelType, CallerType, HistoryType,
        CallerInv, ClientPcs, OwnerPcs, QueuePcs, DeinitReturn, Return, poolVars, kernelVars,
        queueVars, callerVars, ownerVars, history
<1>1. WorkInv'
  BY DEF WorkInv, ItemInv
<1>2. ReadyInv'
  BY DEF ReadyInv, Unrestarted
<1>3. ElapsedInv'
  BY DEF ElapsedInv, Due
<1>4. PromiseInv'
  BY DEF PromiseInv, Due
<1> QED
  BY <1>1, <1>2, <1>3, <1>4

LEMMA StartInstallReserve ==
    ASSUME StartInv, Unrestarted, NEW c \in Clients, InstallReserve(c)
    PROVE  (WorkInv /\ ReadyInv /\ ElapsedInv /\ PromiseInv)'
<1> USE Threads DEF StartInv, IInv, TypeInv, PoolType, KernelType, CallerType, HistoryType,
        CallerInv, ClientPcs, OwnerPcs, QueuePcs, InstallReserve, reserve, poolVars, kernelVars,
        queueVars, callerVars, ownerVars, history
<1>1. WorkInv'
  BY DEF WorkInv, ItemInv
<1>2. ReadyInv'
  BY DEF ReadyInv, Unrestarted
<1>3. ElapsedInv'
  BY DEF ElapsedInv, Due
<1>4. PromiseInv'
  BY DEF PromiseInv, WorkInv, ReadyInv, Due, ItemInv, CancelInv, SlotInv, ListInv, HandInv,
     UseInv, QuietInv, Quiet, Uses, Outside, OutsidePcs
<1> QED
  BY <1>1, <1>2, <1>3, <1>4

LEMMA StartInstallLock ==
    ASSUME StartInv, Unrestarted, NEW c \in Clients, InstallLock(c)
    PROVE  (WorkInv /\ ReadyInv /\ ElapsedInv /\ PromiseInv)'
<1> USE Threads DEF StartInv, IInv, TypeInv, PoolType, KernelType, CallerType, HistoryType,
        CallerInv, ClientPcs, OwnerPcs, QueuePcs, InstallLock, Lock, Goto, poolVars, kernelVars,
        queueVars, callerVars, ownerVars, history
<1>1. WorkInv'
  BY DEF WorkInv, ItemInv
<1>2. ReadyInv'
  BY DEF ReadyInv, Unrestarted
<1>3. ElapsedInv'
  BY DEF ElapsedInv, Due
<1>4. PromiseInv'
  BY DEF PromiseInv, Due
<1> QED
  BY <1>1, <1>2, <1>3, <1>4

LEMMA StartInstallAppend ==
    ASSUME StartInv, Unrestarted, NEW c \in Clients, InstallAppend(c)
    PROVE  (WorkInv /\ ReadyInv /\ ElapsedInv /\ PromiseInv)'
<1> USE Threads DEF StartInv, IInv, TypeInv, PoolType, KernelType, CallerType, HistoryType,
        CallerInv, ClientPcs, OwnerPcs, QueuePcs, InstallAppend, Return, poolVars, kernelVars,
        queueVars, callerVars, ownerVars, history
<1>1. WorkInv'
  BY DEF WorkInv, ItemInv
<1>2. ReadyInv'
  BY DEF ReadyInv, Unrestarted
<1>3. ElapsedInv'
  BY DEF ElapsedInv, Due
<1>4. PromiseInv'
  BY DEF PromiseInv, Due
<1> QED
  BY <1>1, <1>2, <1>3, <1>4

LEMMA StartClientCall ==
    ASSUME StartInv, Unrestarted, NEW c \in Clients, NEW o \in TimerOps, NEW t \in Slots,
           ClientCall(c, o, t)
    PROVE  (WorkInv /\ ReadyInv /\ ElapsedInv /\ PromiseInv)'
<1> USE Threads DEF StartInv, IInv, TypeInv, PoolType, KernelType, CallerType, HistoryType,
        CallerInv, ClientPcs, OwnerPcs, QueuePcs, ClientCall, Begin, Entry, TimerOps, poolVars,
        kernelVars, queueVars, callerVars, ownerVars, history
<1>1. WorkInv'
  BY DEF WorkInv, ItemInv
<1>2. ReadyInv'
  BY DEF ReadyInv, Unrestarted
<1>3. ElapsedInv'
  BY DEF ElapsedInv, Due
<1>4. PromiseInv'
  <2>1. /\ promise'[t] => promise[t] /\ pc'[c] = "check"
        /\ \A u \in Slots : promise'[u] => promise[u]
    <3>1. promise' = [promise EXCEPT ![t] = @ /\ o = "start"] /\ t \in Slots
      BY DEF ItemInv
    <3>2. o = "start" => pc'[c] = "check"
      OBVIOUS
    <3>3. promise'[t] => promise[t] /\ o = "start"
      <4>1. promise'[t] = (promise[t] /\ o = "start")
        BY <3>1, BothHold
      <4> QED
        BY <4>1, Zenon
    <3>4. \A u \in Slots : u # t => promise'[u] = promise[u]
      BY <3>1
    <3> QED
      BY <3>2, <3>3, <3>4
  <2>2. /\ \A d \in Callers : d # c => pc'[d] = pc[d] /\ tgt'[d] = tgt[d]
        /\ tgt'[c] = t
    OBVIOUS
  <2>3. UNCHANGED <<life, cb, work>> /\ \A u \in Slots : Due(u) <=> Due(u)'
    BY DEF Due
  <2> QED
    BY <2>1, <2>2, <2>3 DEF PromiseInv
<1> QED
  BY <1>1, <1>2, <1>3, <1>4

LEMMA StartCallbackCall ==
    ASSUME StartInv, Unrestarted, NEW o \in TimerOps, CallbackCall(o)
    PROVE  (WorkInv /\ ReadyInv /\ ElapsedInv /\ PromiseInv)'
<1> USE Threads DEF StartInv, IInv, TypeInv, PoolType, KernelType, CallerType, HistoryType,
        CallerInv, ClientPcs, OwnerPcs, QueuePcs, CallbackCall, Begin, Entry, TimerOps,
        poolVars, kernelVars, queueVars, callerVars, ownerVars, history
<1>1. WorkInv'
  BY DEF WorkInv, ItemInv
<1>2. ReadyInv'
  BY DEF ReadyInv, Unrestarted
<1>3. ElapsedInv'
  BY DEF ElapsedInv, Due
<1>4. PromiseInv'
  <2>1. /\ promise'[firing] => promise[firing] /\ pc'[Queue] = "check"
        /\ \A u \in Slots : promise'[u] => promise[u]
    <3>1. promise' = [promise EXCEPT ![firing] = @ /\ o = "start"] /\ firing \in Slots
      BY DEF ItemInv
    <3>2. o = "start" => pc'[Queue] = "check"
      OBVIOUS
    <3>3. promise'[firing] => promise[firing] /\ o = "start"
      <4>1. promise'[firing] = (promise[firing] /\ o = "start")
        BY <3>1, BothHold
      <4> QED
        BY <4>1, Zenon
    <3>4. \A u \in Slots : u # firing => promise'[u] = promise[u]
      BY <3>1
    <3> QED
      BY <3>2, <3>3, <3>4
  <2>2. /\ \A d \in Callers : d # Queue => pc'[d] = pc[d] /\ tgt'[d] = tgt[d]
        /\ tgt'[Queue] = firing
    OBVIOUS
  <2>3. UNCHANGED <<life, cb, work>> /\ \A u \in Slots : Due(u) <=> Due(u)'
    BY DEF Due
  <2> QED
    BY <2>1, <2>2, <2>3 DEF PromiseInv
<1> QED
  BY <1>1, <1>2, <1>3, <1>4

LEMMA StartStartCheck ==
    ASSUME StartInv, Unrestarted, NEW c \in Clients \cup {Queue}, StartCheck(c)
    PROVE  (WorkInv /\ ReadyInv /\ ElapsedInv /\ PromiseInv)'
<1> USE Threads DEF StartInv, IInv, TypeInv, PoolType, KernelType, CallerType, HistoryType,
        CallerInv, ClientPcs, OwnerPcs, QueuePcs, StartCheck, busy, Return, Goto, poolVars,
        kernelVars, queueVars, callerVars, ownerVars, history
<1>1. WorkInv'
  BY DEF WorkInv, ItemInv
<1>2. ReadyInv'
  <2>1. CASE busy(tgt[c])
    BY <2>1 DEF ReadyInv
  <2>2. CASE ~ busy(tgt[c])
    BY <2>2 DEF ReadyInv
  <2> QED
    BY <2>1, <2>2
<1>3. ElapsedInv'
  BY DEF ElapsedInv, Due
<1>4. PromiseInv'
  BY DEF PromiseInv, WorkInv, ReadyInv, Due, ItemInv
<1> QED
  BY <1>1, <1>2, <1>3, <1>4

LEMMA StartReschedule ==
    ASSUME StartInv, Unrestarted, NEW c \in Clients \cup {Queue}, Reschedule(c)
    PROVE  (WorkInv /\ ReadyInv /\ ElapsedInv /\ PromiseInv)'
<1> USE Threads DEF StartInv, IInv, TypeInv, PoolType, KernelType, CallerType, HistoryType,
        CallerInv, ClientPcs, OwnerPcs, QueuePcs, Reschedule, Rescheduled, Return, poolVars,
        kernelVars, queueVars, callerVars, ownerVars, history
<1>1. PICK t \in Slots : /\ t = tgt[c] /\ c \in Clients /\ work[t] = {} /\ In(list, t)
                          /\ \A d \in Clients : d # c => ~ Uses(d, t)
  BY DEF ReadyInv, UseInv, Uses
<1>2. /\ work'[t] = {"DELAYED"} /\ \A u \in Slots : u # t => work'[u] = work[u]
      /\ ~ elapsed'[t] /\ \A u \in Slots : u # t => elapsed'[u] = elapsed[u]
      /\ promise'[t] => life = "up" /\ cb[t] # "null"
      /\ \A u \in Slots : u # t => promise'[u] = promise[u]
      /\ pc'[c] = "idle" /\ \A d \in Callers : d # c => pc'[d] = pc[d] /\ tgt'[d] = tgt[d]
  BY <1>1
<1>3. ~ Due(t) /\ (pc[Queue] # "idle" => tgt[Queue] # t)
  BY <1>1 DEF Due, ItemInv
<1>4. ASSUME NEW d \in Callers, d # c, tgt[d] = t
      PROVE  pc[d] \in {"idle", "check", "resched"}
  <2>1. ~ Outside(d, t)
    BY <1>1 DEF SlotInv, HandInv
  <2>2. CASE d \in Clients
    BY <1>1, <1>4, <2>1, <2>2 DEF Uses, Outside, OutsidePcs, CallerPcs
  <2>3. CASE d = Owner
    BY <1>1, <1>4, <2>3
  <2> QED
    BY <1>3, <1>4, <2>2, <2>3
<1>5. WorkInv' /\ ReadyInv'
  <2>0. WorkInv /\ ReadyInv
    OBVIOUS
  <2>1. WorkInv'
    <3> HIDE DEF StartInv, IInv, Reschedule
    <3> QED
      BY <1>2, <2>0 DEF WorkInv
  <2>2. ASSUME NEW d \in Clients, pc'[d] = "resched"
        PROVE  work'[tgt'[d]] = {}
    <3>1. d # c /\ pc[d] = "resched" /\ tgt'[d] = tgt[d] /\ tgt[d] \in Slots
      BY <1>2, <2>2
    <3>2. tgt[d] # t
      BY <1>1, <3>1 DEF Uses
    <3> HIDE DEF StartInv, IInv, Reschedule
    <3> QED
      BY <1>2, <2>0, <3>1, <3>2 DEF ReadyInv
  <2> QED
    BY <2>1, <2>2 DEF ReadyInv
<1>6. ElapsedInv'
  <2>1. \A u \in Slots : Due(u)' <=> Due(u)
    BY DEF Due
  <2> QED
    BY <1>1, <1>2, <1>3, <2>1 DEF ElapsedInv
<1>7. PromiseInv'
  <2>1. \A u \in Slots : Due(u)' <=> Due(u)
    BY DEF Due
  <2>2. UNCHANGED <<life, cb>>
    OBVIOUS
  <2> QED
    <3> SUFFICES ASSUME NEW u \in Slots, promise'[u]
                 PROVE  /\ life' = "up" /\ cb'[u] # "null" /\ "CANCELING" \notin work'[u]
                        /\ work'[u] \cap {"DELAYED", "QUEUED"} # {} \/ Due(u)'
                        /\ \A d \in Callers : tgt'[d] = u => pc'[d] \in {"idle", "check", "resched"}
      <4> HIDE DEF StartInv, IInv, Reschedule
      <4> QED
        BY DEF PromiseInv
    <3>1. CASE u # t
      <4>1. promise[u] /\ work'[u] = work[u] /\ (Due(u)' <=> Due(u))
        BY <1>2, <2>1, <3>1
      <4>2. \A d \in Callers : tgt'[d] = u => pc'[d] \in {"idle", "check", "resched"}
        BY <1>2, <4>1 DEF PromiseInv
      <4> QED
        BY <2>2, <4>1, <4>2 DEF PromiseInv
    <3>2. CASE u = t
      <4>1. \A d \in Callers : tgt'[d] = t => pc'[d] \in {"idle", "check", "resched"}
        BY <1>2, <1>4
      <4>2. life' = "up" /\ cb'[t] # "null"
        BY <1>2, <2>2, <3>2
      <4>3. "CANCELING" \notin work'[t] /\ work'[t] \cap {"DELAYED", "QUEUED"} # {}
        BY <1>2
      <4> QED
        BY <3>2, <4>1, <4>2, <4>3
    <3> QED
      BY <3>1, <3>2
<1> QED
  BY <1>5, <1>6, <1>7

LEMMA StartStop ==
    ASSUME StartInv, Unrestarted, NEW c \in Clients \cup {Queue}, Stop(c)
    PROVE  (WorkInv /\ ReadyInv /\ ElapsedInv /\ PromiseInv)'
<1> USE Threads DEF StartInv, IInv, TypeInv, PoolType, KernelType, CallerType, HistoryType,
        CallerInv, ClientPcs, OwnerPcs, QueuePcs, Stop, Cancelled, Return, poolVars, kernelVars,
        queueVars, callerVars, ownerVars, history
<1>1. WorkInv'
  <2>1. PICK t \in Slots : t = tgt[c]
    BY DEF ItemInv
  <2>2. /\ work'[t] \in {{}, {"RUNNING", "CANCELING"}}
        /\ \A u \in Slots : u # t => work'[u] = work[u]
    BY <2>1
  <2> QED
    BY <2>2 DEF WorkInv
<1>2. ReadyInv'
  BY DEF ReadyInv, Unrestarted
<1>3. ElapsedInv'
  BY DEF WorkInv, ElapsedInv, Due, ItemInv
<1>4. PromiseInv'
  BY DEF PromiseInv, Due
<1> QED
  BY <1>1, <1>2, <1>3, <1>4

LEMMA StartUninstallLock ==
    ASSUME StartInv, Unrestarted, NEW c \in Clients \cup {Queue}, UninstallLock(c)
    PROVE  (WorkInv /\ ReadyInv /\ ElapsedInv /\ PromiseInv)'
<1> USE Threads DEF StartInv, IInv, TypeInv, PoolType, KernelType, CallerType, HistoryType,
        CallerInv, ClientPcs, OwnerPcs, QueuePcs, UninstallLock, Lock, Goto, poolVars,
        kernelVars, queueVars, callerVars, ownerVars, history
<1>1. WorkInv'
  BY DEF WorkInv, ItemInv
<1>2. ReadyInv'
  BY DEF ReadyInv, Unrestarted
<1>3. ElapsedInv'
  BY DEF ElapsedInv, Due
<1>4. PromiseInv'
  BY DEF PromiseInv, Due
<1> QED
  BY <1>1, <1>2, <1>3, <1>4

LEMMA StartUninstallUnlink ==
    ASSUME StartInv, Unrestarted, NEW c \in Clients \cup {Queue}, UninstallUnlink(c)
    PROVE  (WorkInv /\ ReadyInv /\ ElapsedInv /\ PromiseInv)'
<1> USE Threads DEF StartInv, IInv, TypeInv, PoolType, KernelType, CallerType, HistoryType,
        CallerInv, ClientPcs, OwnerPcs, QueuePcs, UninstallUnlink, Goto, poolVars, kernelVars,
        queueVars, callerVars, ownerVars, history
<1>1. WorkInv'
  BY DEF WorkInv, ItemInv
<1>2. ReadyInv'
  BY DEF ReadyInv, Unrestarted
<1>3. ElapsedInv'
  BY DEF ElapsedInv, Due
<1>4. PromiseInv'
  BY DEF PromiseInv, Due
<1> QED
  BY <1>1, <1>2, <1>3, <1>4

LEMMA StartCancel ==
    ASSUME StartInv, Unrestarted, NEW c \in Callers, Cancel(c)
    PROVE  (WorkInv /\ ReadyInv /\ ElapsedInv /\ PromiseInv)'
<1> USE Threads DEF StartInv, IInv, TypeInv, PoolType, KernelType, CallerType, HistoryType,
        CallerInv, ClientPcs, OwnerPcs, QueuePcs, Cancel, Cancelled, Goto, poolVars, kernelVars,
        queueVars, callerVars, ownerVars, history
<1>1. WorkInv'
  <2>1. /\ WorkInv
        /\ work'[tgt[c]] \in {{}, {"RUNNING", "CANCELING"}}
        /\ \A t \in Slots : t # tgt[c] => work'[t] = work[t]
    <3>1. tgt[c] \in Slots
      <4>1. c \in Clients \/ c = Owner \/ c = Queue
        OBVIOUS
      <4>2. pc[c] = "cancel"
        OBVIOUS
      <4>3. pc[Queue] # "idle" => tgt[Queue] \in Slots
        BY DEF ItemInv
      <4> QED
        BY <4>1, <4>2, <4>3
    <3>2. work \in [Slots -> SUBSET Flags] /\ Cancelled(tgt[c]) /\ WorkInv
      OBVIOUS
    <3> HIDE DEF StartInv, IInv, Cancel
    <3> QED
      BY <3>1, <3>2
  <2> HIDE DEF StartInv, IInv, Cancel
  <2> QED
    BY <2>1 DEF WorkInv
<1>2. ReadyInv'
  BY DEF ReadyInv, Unrestarted
<1>3. ElapsedInv'
  BY DEF WorkInv, ElapsedInv, Due, ItemInv
<1>4. PromiseInv'
  BY DEF PromiseInv, Due
<1> QED
  BY <1>1, <1>2, <1>3, <1>4

LEMMA StartUninstallRelease ==
    ASSUME StartInv, Unrestarted, NEW c \in Clients \cup {Queue}, UninstallRelease(c)
    PROVE  (WorkInv /\ ReadyInv /\ ElapsedInv /\ PromiseInv)'
<1> USE Threads DEF StartInv, IInv, TypeInv, PoolType, KernelType, CallerType, HistoryType,
        CallerInv, ClientPcs, OwnerPcs, QueuePcs, UninstallRelease, release, Return, poolVars,
        kernelVars, queueVars, callerVars, ownerVars, history
<1>1. WorkInv'
  BY DEF WorkInv, ItemInv
<1>2. ReadyInv'
  BY DEF ReadyInv, Unrestarted
<1>3. ElapsedInv'
  BY DEF ElapsedInv, Due
<1>4. PromiseInv'
  BY DEF PromiseInv, Due
<1> QED
  BY <1>1, <1>2, <1>3, <1>4

LEMMA StartQueueTake ==
    ASSUME StartInv, Unrestarted, QueueTake
    PROVE  (WorkInv /\ ReadyInv /\ ElapsedInv /\ PromiseInv)'
<1> USE Threads DEF StartInv, IInv, TypeInv, PoolType, KernelType, CallerType, HistoryType,
        CallerInv, ClientPcs, OwnerPcs, QueuePcs, QueueTake, poolVars, kernelVars, queueVars,
        callerVars, ownerVars, history
<1>1. PICK h \in Slots : h = Head(pending) /\ "QUEUED" \in work[h]
  BY TailFacts DEF ItemInv
<1>2. work[h] = {"QUEUED"}
  BY <1>1 DEF WorkInv
<1>3. /\ work'[h] = {"RUNNING"} /\ \A u \in Slots : u # h => work'[u] = work[u]
      /\ Due(h)' /\ \A u \in Slots : u # h => ~ Due(u)'
      /\ \A u \in Slots : ~ Due(u)
      /\ UNCHANGED <<life, cb, elapsed, promise, pc, tgt>>
  BY <1>1, <1>2 DEF Due
<1> HIDE DEF QueueTake
<1>4. WorkInv' /\ ReadyInv'
  BY <1>1, <1>3 DEF WorkInv, ReadyInv, Uses
<1>5. ElapsedInv'
  BY <1>1, <1>3 DEF ElapsedInv
<1>6. PromiseInv'
  BY <1>1, <1>3 DEF PromiseInv
<1> QED
  BY <1>4, <1>5, <1>6

LEMMA StartTimerExpiry ==
    ASSUME StartInv, Unrestarted, TimerExpiry
    PROVE  (WorkInv /\ ReadyInv /\ ElapsedInv /\ PromiseInv)'
<1> USE Threads DEF StartInv, IInv, TypeInv, PoolType, KernelType, CallerType, HistoryType,
        CallerInv, ClientPcs, OwnerPcs, QueuePcs, TimerExpiry, poolVars, kernelVars, queueVars,
        callerVars, ownerVars, history
<1>1. WorkInv'
  BY DEF WorkInv, ItemInv
<1>2. ReadyInv'
  BY DEF ReadyInv, Unrestarted
<1>3. ElapsedInv'
  BY DEF ElapsedInv, Due
<1>4. PromiseInv'
  BY DEF PromiseInv, WorkInv, ReadyInv, Due, ItemInv
<1> QED
  BY <1>1, <1>2, <1>3, <1>4

LEMMA StartCallbackReturn ==
    ASSUME StartInv, Unrestarted, CallbackReturn
    PROVE  (WorkInv /\ ReadyInv /\ ElapsedInv /\ PromiseInv)'
<1> USE Threads DEF StartInv, IInv, TypeInv, PoolType, KernelType, CallerType, HistoryType,
        CallerInv, ClientPcs, OwnerPcs, QueuePcs, CallbackReturn, poolVars, kernelVars,
        queueVars, callerVars, ownerVars, history
<1>1. WorkInv'
  BY DEF WorkInv, ItemInv
<1>2. ReadyInv'
  BY DEF ReadyInv, Unrestarted
<1>3. ElapsedInv'
  BY DEF ElapsedInv, Due
<1>4. PromiseInv'
  BY DEF PromiseInv, Due
<1> QED
  BY <1>1, <1>2, <1>3, <1>4

LEMMA StartQueueDone ==
    ASSUME StartInv, Unrestarted, QueueDone
    PROVE  (WorkInv /\ ReadyInv /\ ElapsedInv /\ PromiseInv)'
<1> USE Threads DEF StartInv, IInv, TypeInv, PoolType, KernelType, CallerType, HistoryType,
        CallerInv, ClientPcs, OwnerPcs, QueuePcs, QueueDone, poolVars, kernelVars, queueVars,
        callerVars, ownerVars, history
<1>1. WorkInv'
  <2>1. WorkInv /\ \A t \in Slots : work'[t] = work[t] \/ work'[t] = work[t] \ {"RUNNING", "CANCELING"}
    OBVIOUS
  <2> HIDE DEF StartInv, IInv, QueueDone
  <2> QED
    BY <2>1 DEF WorkInv
<1>2. ReadyInv'
  BY DEF ReadyInv, Unrestarted
<1>3. ElapsedInv'
  BY DEF ElapsedInv, Due
<1>4. PromiseInv'
  BY DEF PromiseInv, Due
<1> QED
  BY <1>1, <1>2, <1>3, <1>4

LEMMA StartTimeout ==
    ASSUME StartInv, Unrestarted, NEW t \in Slots, Timeout(t)
    PROVE  (WorkInv /\ ReadyInv /\ ElapsedInv /\ PromiseInv)'
<1> USE Threads DEF StartInv, IInv, TypeInv, PoolType, KernelType, CallerType, HistoryType,
        CallerInv, ClientPcs, OwnerPcs, QueuePcs, Timeout, poolVars, kernelVars, queueVars,
        callerVars, ownerVars, history
<1>1. WorkInv'
  BY DEF WorkInv, ItemInv
<1>2. ReadyInv'
  BY DEF ReadyInv, Unrestarted
<1>3. ElapsedInv'
  BY DEF ElapsedInv, Due
<1>4. PromiseInv'
  <2>1. work[t] = {"DELAYED"}
    <3>1. "DELAYED" \in work[t] /\ WorkInv
      OBVIOUS
    <3> HIDE DEF StartInv, Timeout
    <3> QED
      BY <3>1 DEF WorkInv
  <2>2. work'[t] = {"QUEUED"} /\ \A u \in Slots : u # t => work'[u] = work[u]
    BY <2>1
  <2>3. UNCHANGED <<life, cb, promise, pc, tgt>> /\ \A u \in Slots : Due(u)' <=> Due(u)
    BY DEF Due
  <2>4. PromiseInv
    OBVIOUS
  <2> HIDE DEF StartInv, Timeout
  <2> QED
    BY <2>2, <2>3, <2>4 DEF PromiseInv
<1> QED
  BY <1>1, <1>2, <1>3, <1>4

-----------------------------------------------------------------------------
(* The invariant, and what follows from it.                                 *)

LEMMA StartInit == Init => StartInv
BY InitInv, Threads DEF StartInv, Init, WorkInv, ReadyInv, ElapsedInv, Due, PromiseInv

LEMMA StartNext ==
    ASSUME Unrestarted, StartInv, [Next]_vars
    PROVE  StartInv'
<1> DEFINE J == WorkInv /\ ReadyInv /\ ElapsedInv /\ PromiseInv
<1>1. IInv'
  BY NextInv DEF Unrestarted, StartInv
<1>2. CASE UNCHANGED vars
  <2>1. J'
    BY <1>2 DEF vars, poolVars, kernelVars, queueVars, callerVars, ownerVars, history,
                StartInv, WorkInv, ReadyInv, ElapsedInv, PromiseInv, Due
  <2> QED
    BY <1>1, <2>1 DEF StartInv
<1>3. CASE CtxInit \/ DeinitBegin \/ DeinitRemove \/ DeinitRelease \/ DeinitReturn
  BY <1>1, <1>3, StartCtxInit, StartDeinitBegin, StartDeinitRemove, StartDeinitRelease,
     StartDeinitReturn DEF StartInv
<1>4. ASSUME NEW c \in Clients, InstallReserve(c) \/ InstallLock(c) \/ InstallAppend(c)
      PROVE  StartInv'
  BY <1>1, <1>4, StartInstallReserve, StartInstallLock, StartInstallAppend DEF StartInv
<1>5. ASSUME NEW c \in Clients, NEW o \in TimerOps, NEW t \in Slots, ClientCall(c, o, t)
      PROVE  StartInv'
  BY <1>1, <1>5, StartClientCall DEF StartInv
<1>6. ASSUME NEW c \in Clients \cup {Queue},
             \/ StartCheck(c) \/ Reschedule(c) \/ Stop(c)
             \/ UninstallLock(c) \/ UninstallUnlink(c) \/ UninstallRelease(c)
      PROVE  StartInv'
  BY <1>1, <1>6, StartStartCheck, StartReschedule, StartStop, StartUninstallLock,
     StartUninstallUnlink, StartUninstallRelease DEF StartInv
<1>7. ASSUME NEW c \in Callers, Cancel(c)
      PROVE  StartInv'
  BY <1>1, <1>7, StartCancel DEF StartInv
<1>8. CASE QueueTake \/ TimerExpiry \/ CallbackReturn \/ QueueDone
  BY <1>1, <1>8, StartQueueTake, StartTimerExpiry, StartCallbackReturn, StartQueueDone
  DEF StartInv
<1>9. ASSUME NEW o \in TimerOps, CallbackCall(o)
      PROVE  StartInv'
  BY <1>1, <1>9, StartCallbackCall DEF StartInv
<1>10. ASSUME NEW t \in Slots, Timeout(t)
       PROVE  StartInv'
  BY <1>1, <1>10, StartTimeout DEF StartInv
<1> QED
  BY <1>2, <1>3, <1>4, <1>5, <1>6, <1>7, <1>8, <1>9, <1>10, NextCases

LEMMA StartInvariance == Unrestarted => (Spec => []StartInv)
<1> SUFFICES ASSUME Unrestarted
             PROVE  Spec => []StartInv
  OBVIOUS
<1>1. StartInv /\ [Next]_vars => StartInv'
  BY StartNext
<1> QED
  BY StartInit, <1>1, PTL DEF Spec

\* gabs_timer_active, "Timer is active (will expire at some point)": a timer that was
\* started, with no call on it since and no callback run, is active, and its item is on
\* its way to the callback.
THEOREM ActiveTimers == Unrestarted => (Spec => []ActiveWillExpire)
<1>1. StartInv => ActiveWillExpire
  <2> SUFFICES ASSUME StartInv, NEW t \in Slots, promise[t]
               PROVE  /\ active(t)
                      /\ work[t] \cap {"DELAYED", "QUEUED"} # {} \/ (qpc = "expiry" /\ firing = t)
    BY DEF ActiveWillExpire
  <2>1. /\ "CANCELING" \notin work[t]
        /\ work[t] \cap {"DELAYED", "QUEUED"} # {} \/ Due(t)
    BY DEF StartInv, PromiseInv
  <2>2. Due(t) => "RUNNING" \in work[t]
    BY DEF StartInv, IInv, ItemInv, Due
  <2> QED
    BY <2>1, <2>2 DEF Due, active
<1> QED
  BY StartInvariance, <1>1, PTL

\* A callback is invoked after the delay of the timer's last start.
THEOREM NotEarly == Unrestarted => (Spec => NoEarlyFire)
<1>1. ASSUME StartInv, [Next]_vars, qpc = "expiry", qpc' = "callback"
      PROVE  elapsed[firing]
  <2>1. TimerExpiry
    BY <1>1, NextCases
    DEF vars, poolVars, kernelVars, queueVars, callerVars, ownerVars, history,
        CtxInit, DeinitBegin, DeinitRemove, DeinitRelease, DeinitReturn,
        InstallReserve, InstallLock, InstallAppend, ClientCall, CallbackCall,
        StartCheck, Reschedule, Stop, UninstallLock, UninstallUnlink, UninstallRelease,
        Cancel, Lock, QueueTake, CallbackReturn, QueueDone, Timeout
  <2> QED
    BY <1>1, <2>1 DEF TimerExpiry, StartInv, ElapsedInv, Due, IInv, ItemInv
<1>2. StartInv /\ [Next]_vars => [qpc = "expiry" /\ qpc' = "callback" => elapsed[firing]]_vars
  BY <1>1
<1> QED
  BY StartInvariance, <1>2, PTL DEF Spec, NoEarlyFire

-----------------------------------------------------------------------------
(* The refinement of Timer.  A step changes the phase of at most one timer. *)

Still == UNCHANGED <<Phase, Running>>

LEMMA ArmedTaken ==
    ASSUME StartInv, NEW t \in Slots, Armed(t)
    PROVE  t \in bits /\ ~ Quiet(t)
BY DEF StartInv, IInv, QuietInv, ItemInv, Quiet, Armed

LEMMA SameRunning ==
    ASSUME UNCHANGED queueVars
    PROVE  Running' = Running
BY DEF Running, queueVars

LEMMA StillMaps ==
    ASSUME StartInv, bits' = bits, \A t \in Slots : Armed(t)' <=> Armed(t), Running' = Running
    PROVE  Still
BY DEF Still, Phase

\* A call changes the phase of one timer.
LEMMA CallMaps ==
    ASSUME StartInv, NEW t \in Slots, \A u \in Slots \ {t} : Armed(u)' <=> Armed(u),
           \/ bits' = bits /\ t \in bits
           \/ t \notin bits /\ bits' = bits \cup {t} /\ ~ Armed(t)'
           \/ bits' = bits \ {t},
           Running' = Running
    PROVE  Interface!Next \/ Still
<1>1. bits \subseteq Slots
  BY DEF StartInv, IInv, TypeInv, PoolType
<1>2. CASE Phase' = Phase
  BY <1>2 DEF Still
<1>3. CASE Phase' # Phase
  <2>1. CASE bits' = bits /\ t \in bits
    <3>1. CASE Armed(t)' <=> Armed(t)
      BY <1>3, <2>1, <3>1 DEF Phase
    <3>2. CASE ~ Armed(t) /\ Armed(t)'
      <4>1. Phase[t] = "idle" /\ Phase' = [Phase EXCEPT ![t] = "armed"]
        BY <1>1, <2>1, <3>2 DEF Phase
      <4> QED
        BY <1>3, <4>1 DEF Interface!Next, Interface!Call, Interface!Arm, Interface!Becomes
    <3>3. CASE Armed(t) /\ ~ Armed(t)'
      <4>1. Phase[t] = "armed" /\ Phase' = [Phase EXCEPT ![t] = "idle"]
        BY <1>1, <2>1, <3>3 DEF Phase
      <4> QED
        BY <1>3, <4>1 DEF Interface!Next, Interface!Call, Interface!Disarm, Interface!Becomes
    <3> QED
      BY <3>1, <3>2, <3>3
  <2>2. CASE t \notin bits /\ bits' = bits \cup {t} /\ ~ Armed(t)'
    <3>1. Phase[t] = "none" /\ Phase' = [Phase EXCEPT ![t] = "idle"]
      BY <1>1, <2>2 DEF Phase
    <3> QED
      BY <1>3, <3>1 DEF Interface!Next, Interface!Call, Interface!Install, Interface!Becomes
  <2>3. CASE bits' = bits \ {t}
    <3>1. Phase' = [u \in Slots |-> IF u \in {t} THEN "none" ELSE Phase[u]]
      BY <1>1, <2>3 DEF Phase
    <3> QED
      BY <1>3, <3>1 DEF Interface!Next, Interface!Call, Interface!Remove
  <2> QED
    BY <2>1, <2>2, <2>3
<1> QED
  BY <1>2, <1>3

\* Steps that no client sees.
LEMMA OtherMaps ==
    ASSUME StartInv,
           \/ CtxInit \/ DeinitBegin \/ DeinitRemove \/ DeinitReturn
           \/ \E c \in Callers : InstallLock(c) \/ InstallAppend(c) \/ StartCheck(c)
                                 \/ UninstallLock(c) \/ UninstallUnlink(c)
           \/ \E c \in Clients, o \in TimerOps, t \in Slots : ClientCall(c, o, t)
           \/ UNCHANGED vars
    PROVE  Still
<1>1. UNCHANGED <<work, bits, qpc, firing>>
  BY DEF CtxInit, DeinitBegin, DeinitRemove, DeinitReturn, InstallLock, InstallAppend,
     StartCheck,
         UninstallLock, UninstallUnlink, ClientCall, Lock, Begin, vars, poolVars, kernelVars,
         queueVars
<1> QED
  BY <1>1, StillMaps DEF Armed, Running

\* Steps of the queue and its thread that change no phase.
LEMMA QueueMaps ==
    ASSUME StartInv,
           \/ QueueTake \/ QueueDone
           \/ \E o \in TimerOps : CallbackCall(o)
           \/ \E t \in Slots : Timeout(t)
    PROVE  Still
<1> USE DEF StartInv, IInv, TypeInv, KernelType, poolVars, kernelVars, queueVars
<1>1. CASE QueueTake
  <2>1. PICK h \in Slots : h = Head(pending) /\ work[h] = {"QUEUED"}
    BY <1>1, TailFacts DEF QueueTake, ItemInv, WorkInv
  <2>2. /\ bits' = bits /\ qpc = "idle" /\ qpc' = "expiry" /\ firing' = h
        /\ work'[h] = {"RUNNING"} /\ \A u \in Slots : u # h => work'[u] = work[u]
    BY <1>1, <2>1 DEF QueueTake
  <2> HIDE DEF StartInv
  <2>3. Running' = Running /\ \A u \in Slots : Armed(u)' <=> Armed(u)
    BY <2>1, <2>2 DEF Running, Armed
  <2> QED
    BY <2>2, <2>3, StillMaps
<1>2. CASE QueueDone
  <2>1. /\ Running' = Running /\ bits' = bits
        /\ \A u \in Slots : Armed(u)' <=> Armed(u)
    BY <1>2 DEF QueueDone, Running, Armed, ItemInv
  <2> QED
    BY <2>1, StillMaps
<1>3. ASSUME NEW o \in TimerOps, CallbackCall(o)
      PROVE  Still
  BY <1>3, StillMaps DEF CallbackCall, Begin, Running, Armed
<1>4. ASSUME NEW t \in Slots, Timeout(t)
      PROVE  Still
  <2>1. work[t] = {"DELAYED"}
    BY <1>4 DEF Timeout, WorkInv
  <2>2. /\ work'[t] = {"QUEUED"} /\ \A u \in Slots : u # t => work'[u] = work[u]
        /\ bits' = bits /\ UNCHANGED queueVars
    BY <1>4, <2>1 DEF Timeout
  <2>3. \A u \in Slots : Armed(u)' <=> Armed(u)
    BY <2>1, <2>2 DEF Armed
  <2> QED
    BY <2>2, <2>3, StillMaps, SameRunning
<1> QED
  BY <1>1, <1>2, <1>3, <1>4

\* A cancellation disarms a timer, a start arms it.
LEMMA ClientMaps ==
    ASSUME StartInv, NEW c \in Callers,
           Cancel(c) \/ (c # Owner /\ Stop(c)) \/ (c # Owner /\ Reschedule(c))
    PROVE  Interface!Next \/ Still
<1> USE DEF poolVars, kernelVars, queueVars
<1>1. PICK t \in Slots : t = tgt[c]
  BY Threads DEF StartInv, IInv, CallerInv, ClientPcs, OwnerPcs, QueuePcs, ItemInv,
                 Cancel, Stop, Reschedule
<1>2. /\ bits' = bits /\ UNCHANGED queueVars
      /\ \A u \in Slots \ {t} : Armed(u)' <=> Armed(u)
  BY <1>1 DEF Cancel, Stop, Reschedule, Cancelled, Rescheduled, Armed, StartInv, IInv, TypeInv,
              KernelType
<1>3. CASE t \in bits
  BY <1>2, <1>3, CallMaps, SameRunning
<1>4. CASE t \notin bits
  <2>1. CASE Cancel(c) \/ Stop(c)
    <3>1. ~ Armed(t)
      BY <1>4, ArmedTaken
    <3>2. ~ Armed(t)'
      BY <1>1, <2>1 DEF Cancel, Stop, Cancelled, Armed, StartInv, IInv, TypeInv, KernelType,
         ItemInv
    <3> QED
      BY <1>2, <3>1, <3>2, StillMaps, SameRunning
  <2>2. CASE c # Owner /\ Reschedule(c)
    BY <1>1, <1>4, <2>2, Threads
    DEF Reschedule, StartInv, IInv, CallerInv, QueuePcs, UseInv, Uses, SlotInv, ListInv
  <2> QED
    BY <2>1, <2>2
<1> QED
  BY <1>3, <1>4

LEMMA PoolMaps ==
    ASSUME StartInv,
           \/ DeinitRelease
           \/ \E c \in Clients \cup {Queue} : UninstallRelease(c)
           \/ \E c \in Clients : InstallReserve(c)
    PROVE  Interface!Next \/ Still
<1> USE DEF poolVars, kernelVars, queueVars
<1>1. UNCHANGED <<work, qpc, firing>>
  BY DEF DeinitRelease, UninstallRelease, InstallReserve
<1>2. \A t \in Slots : Armed(t)' <=> Armed(t)
  BY <1>1 DEF Armed
<1>3. CASE DeinitRelease \/ \E c \in Clients \cup {Queue} : UninstallRelease(c)
  <2>1. PICK t \in Slots : bits' = bits \ {t}
    BY <1>3, Threads DEF DeinitRelease, UninstallRelease, release, StartInv, IInv, CallerInv,
                         ClientPcs, OwnerPcs, QueuePcs, ItemInv
  <2> QED
    BY <1>1, <1>2, <2>1, CallMaps, SameRunning
<1>4. ASSUME NEW c \in Clients, InstallReserve(c)
      PROVE  Interface!Next \/ Still
  <2>1. PICK t \in Slots : t \notin bits /\ bits' = bits \cup {t}
    BY <1>4 DEF InstallReserve, reserve
  <2>2. ~ Armed(t)'
    BY <1>2, <2>1, ArmedTaken
  <2> QED
    BY <1>1, <1>2, <2>1, <2>2, CallMaps, SameRunning
<1> QED
  BY <1>3, <1>4

LEMMA CallbackMaps ==
    ASSUME StartInv, TimerExpiry \/ CallbackReturn
    PROVE  Interface!Next \/ Still
<1> USE DEF StartInv, IInv, ItemInv, poolVars, kernelVars, queueVars
<1>1. /\ firing \in Slots /\ firing' = firing /\ bits' = bits /\ work' = work
      /\ "RUNNING" \in work[firing]
  BY DEF TimerExpiry, CallbackReturn
<1>2. \A u \in Slots \ {firing} : Armed(u)' <=> Armed(u)
  BY <1>1 DEF Armed
<1>3. work[firing] \cap {"DELAYED", "QUEUED"} = {}
  BY <1>1 DEF WorkInv
<1>4. bits \subseteq Slots
  BY DEF TypeInv, PoolType
<1>5. CASE CallbackReturn
  <2>1. Phase' = Phase
    BY <1>1, <1>5 DEF CallbackReturn, Phase, Armed
  <2>2. Running = <<firing>> /\ Running' = <<>>
    BY <1>5 DEF CallbackReturn, Running
  <2>3. Running # <<>> /\ SubSeq(Running, 1, Len(Running) - 1) = <<>>
    BY <2>2
  <2> QED
    BY <2>1, <2>2, <2>3 DEF Interface!Next, Interface!Callback, Interface!Return
<1>6. CASE TimerExpiry /\ qpc' = "callback"
  <2>1. Armed(firing) /\ ~ Armed(firing)'
    BY <1>1, <1>3, <1>6 DEF TimerExpiry, Armed
  <2>2. firing \in bits
    BY <1>1, <2>1, ArmedTaken
  <2>3. Phase[firing] = "armed" /\ Phase' = [Phase EXCEPT ![firing] = "idle"]
    BY <1>1, <1>2, <1>4, <2>1, <2>2 DEF Phase
  <2>4. Running = <<>> /\ Running' = <<firing>>
    BY <1>1, <1>6 DEF TimerExpiry, Running
  <2>5. Running' = Append(Running, firing) /\ Running' # Running
    BY <2>4
  <2> QED
    BY <1>1, <2>3, <2>5 DEF Interface!Next, Interface!Callback, Interface!Fire
<1>7. CASE TimerExpiry /\ qpc' # "callback"
  <2>1. Running' = Running /\ qpc = "expiry" /\ qpc' = "done"
    BY <1>7 DEF TimerExpiry, Running
  <2>2. CASE firing \in bits
    BY <1>1, <1>2, <2>1, <2>2, CallMaps
  <2>3. CASE firing \notin bits
    <3>1. ~ Armed(firing)
      BY <1>1, <2>3, ArmedTaken
    <3>2. ~ Armed(firing)'
      BY <1>1, <1>3, <2>1 DEF Armed
    <3> QED
      BY <1>1, <1>2, <2>1, <3>1, <3>2, StillMaps
  <2> QED
    BY <2>2, <2>3
<1> QED
  BY <1>5, <1>6, <1>7

LEMMA StepMaps ==
    ASSUME StartInv, [Next]_vars
    PROVE  Interface!Next \/ Still
<1>1. CASE UNCHANGED vars
  BY <1>1, OtherMaps
<1>2. ASSUME NEW c \in Clients, InstallReserve(c) \/ InstallLock(c) \/ InstallAppend(c)
      PROVE  Interface!Next \/ Still
  BY <1>2, OtherMaps, PoolMaps, Threads
<1>3. ASSUME NEW c \in Clients \cup {Queue},
             \/ StartCheck(c) \/ Reschedule(c) \/ Stop(c)
             \/ UninstallLock(c) \/ UninstallUnlink(c) \/ UninstallRelease(c)
      PROVE  Interface!Next \/ Still
  BY <1>3, OtherMaps, PoolMaps, ClientMaps, Threads
<1>4. ASSUME NEW c \in Clients, NEW o \in TimerOps, NEW t \in Slots, ClientCall(c, o, t)
      PROVE  Interface!Next \/ Still
  BY <1>4, OtherMaps
<1> QED
  BY <1>1, <1>2, <1>3, <1>4, OtherMaps, QueueMaps, PoolMaps, ClientMaps, CallbackMaps, NextCases

\* gabs/timer.h: a callback is invoked only for a timer that is installed and started,
\* once for every start, and callbacks run one after another.
THEOREM ImplementsInterface == Unrestarted => (Spec => ImplementsTimer)
<1>1. Init => Interface!Init
  <2> SUFFICES ASSUME Init
               PROVE  Interface!Init
    OBVIOUS
  <2>1. Phase = [t \in Slots |-> "none"]
    BY DEF Init, Phase
  <2>2. Running = <<>>
    BY DEF Init, Running
  <2> QED
    BY <2>1, <2>2 DEF Interface!Init
<1>2. StartInv /\ [Next]_vars => [Interface!Next]_(Interface!vars)
  BY StepMaps DEF Still, Interface!vars
<1> QED
  BY StartInvariance, <1>1, <1>2, PTL DEF Spec, ImplementsTimer, Interface!Spec
=============================================================================
