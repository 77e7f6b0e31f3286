--------------------------- MODULE TimerPosixProofs ---------------------------
(***************************************************************************)
(* What is proved about TimerPosix for every number of slots, clients,     *)
(* descriptors and calls: its type invariant, which caller may touch which *)
(* slot when, and that an uninstalled timer is quiescent as long as its    *)
(* mutex is usable.                                                        *)
(***************************************************************************)
EXTENDS TimerPosix, TLAPS

-----------------------------------------------------------------------------
(* Where the callers and the worker are.                                    *)

AtSlot   == {"cleanup_close", "cleanup_state", "cleanup_mutex", "test_active",
             "cas", "push", "unsched"}
AtTimer  == {"lock", "alarm_test", "callback", "incall", "unlock", "unactive"}
AtAlarm  == {"alarm_test", "callback", "incall", "unlock"}
Starting == {"check", "r_clear", "r_settime", "r_sched"}
Making   == {"create", "mutex", "publish"}
Ending   == {"s_settime", "s_trigger", "u_unlock"}
InUninstall == {"u_lock", "u_unlock", "u_zombie"}

\* Every index is in range where it is used, and the worker reads the eventfd
\* only when its counter is positive.
CallerIndex == \A c \in Callers : pc[c] # "idle" => tgt[c] \in Slots
WorkerIndex ==
    /\ wpc \in AtSlot => wi \in Slots
    /\ wpc \in AtTimer => firing \in Slots
EventIndex  == wpc = "polled" /\ EventFd \in ready => eventfd > 0

IndexInv == CallerIndex /\ WorkerIndex /\ EventIndex

TypeInv == TypeOK /\ IndexInv

-----------------------------------------------------------------------------
(* Who may touch a slot.                                                    *)

\* A call of client c that may still change timer t, or read it.
Busy(c, t) ==
    /\ tgt[c] = t
    /\ pc[c] \in Starting \cup Ending \cup {"s_clear", "u_lock", "u_zombie"}

Uses(c, t)  == t \in held[c] \/ Busy(c, t)
Makes(c, t) == tgt[c] = t /\ pc[c] \in Making

\* The context is initialised while a thread other than its owner is active.
LifeInv ==
    /\ life \in {"down", "closing"} => wpc = "exited"
    /\ life # "up" => \A c \in Clients : pc[c] = "idle" /\ held[c] = {}

\* The worker calls the API from a callback only, on the timer of the callback.
WorkerInv ==
    /\ pc[Worker] # "idle" =>
          /\ wpc = "incall"
          /\ tgt[Worker] = firing
          /\ op[Worker] = cb[firing]
          /\ pc[Worker] \notin Making \cup {"scan"}
    /\ \A c \in Callers :
          /\ pc[c] \in InUninstall => op[c] = "uninstall"
          /\ pc[c] \in Making \cup {"scan"} => op[c] = "install"

\* The bits of a slot follow its life: free, allocated, used, zombie.
BitsInv ==
    /\ \A t \in Slots : "USED" \notin state[t] => state[t] \subseteq {"ALLOC"}
    /\ \A t \in Slots : "USED" \in state[t] => "ALLOC" \in state[t]
    /\ wpc \in AtTimer => "USED" \in state[firing]
    /\ wpc \in {"cleanup_close", "cleanup_state"} => "ZOMBIE" \in state[wi]
    /\ wpc \in {"test_active", "cas", "push", "unsched"} => "USED" \in state[wi]

\* One client at a time uses or makes a timer; what it uses has not been
\* uninstalled, what it makes nobody else has seen.
OwnerInv ==
    /\ \A c, d \in Clients : \A t \in Slots :
          (Uses(c, t) \/ Makes(c, t)) /\ (Uses(d, t) \/ Makes(d, t)) => c = d
    /\ \A c \in Clients : \A t \in Slots :
          /\ Uses(c, t)  => "USED" \in state[t] /\ "ZOMBIE" \notin state[t]
          /\ Makes(c, t) => state[t] = {"ALLOC"}
    /\ \A c \in Clients :
          pc[c] # "idle" /\ op[c] = "uninstall" => tgt[c] \notin held[c]

\* A timer whose callback uninstalls it stays inactive until its only start has
\* set BIT_SCHED, and no client has its handle after that.
SelfInv ==
    \A c \in Clients : \A t \in Slots :
       cb[t] = "uninstall" /\ Uses(c, t) =>
          /\ state[t] \cap {"ACTIVE", "SCHED"} = {}
          /\ ~ InCallback(t)
          /\ pc[c] \in Starting /\ tgt[c] = t => t \notin held[c]

SlotInv == LifeInv /\ WorkerInv /\ BitsInv /\ OwnerInv /\ SelfInv

-----------------------------------------------------------------------------
(* The mutex of a slot.                                                     *)

Idle(t) == state[t] \cap {"ACTIVE", "SCHED"} = {} /\ ~ InCallback(t)

\* Whoever is in a critical section of t holds its mutex, if that is usable.
HolderInv ==
    /\ wpc \in AtAlarm => lock[firing] \in {Worker, NoMutex}
    /\ \A c \in Clients :
          pc[c] \in Ending \cup {"s_clear"} /\ op[c] = "uninstall" =>
             lock[tgt[c]] \in {c, NoMutex}

\* The uninstall of t by client c has cleared the bits of t.
Leaving(c, t) == tgt[c] = t /\ pc[c] \in Ending \cup {"u_zombie"} /\ op[c] = "uninstall"

\* From then on a timer stays idle, as long as its mutex is usable.
QuietInv ==
    \A t \in Slots :
       /\ lock[t] # NoMutex
       /\ \/ \E c \in Clients : Leaving(c, t)
          \/ "ZOMBIE" \in state[t] /\ cb[t] # "uninstall"
       => Idle(t)

LockInv == HolderInv /\ QuietInv

IInv == TypeInv /\ SlotInv /\ LockInv

-----------------------------------------------------------------------------
(* The type invariant.                                                      *)

LEMMA InitTypeInv == Init => TypeInv
  BY NAssumption, ThreadAssumption, FdAssumption, CbAssumption, BudgetAssumption
  DEF Init, TypeInv, TypeOK, CtxType, SlotType, WorkerType, CallerType, UseType,
      IndexInv, CallerIndex, WorkerIndex, EventIndex, Slots, NoSlot, NoFd, Callers, Closed,
      Free, NoMutex, AllCbKinds, Ops, CallerPcs, WorkerPcs, AtSlot, AtTimer

\* The three ways in which a caller moves.
LEMMA GotoType ==
  ASSUME CallerType, CallerIndex, NEW c \in Callers, pc[c] # "idle",
         NEW where \in CallerPcs, Goto(c, where)
  PROVE  CallerType' /\ CallerIndex'
  BY DEF CallerType, CallerIndex, Goto

LEMMA ReturnType ==
  ASSUME CallerType, CallerIndex, NEW c \in Callers, Return(c)
  PROVE  CallerType' /\ CallerIndex'
<1>1. "idle" \in CallerPcs
  BY DEF CallerPcs
<1> QED
  BY <1>1 DEF CallerType, CallerIndex, Return

LEMMA BeginType ==
  ASSUME CallerType, CallerIndex, NEW c \in Callers, NEW o \in Ops \ {"signal"},
         NEW t \in Slots, left \in [Ops -> Nat], Begin(c, o, t)
  PROVE  CallerType' /\ CallerIndex' /\ left' \in [Ops -> Nat]
<1>1. Entry[o] \in CallerPcs
  BY DEF Entry, Ops, CallerPcs
<1>2. left[o] - 1 \in Nat
  BY DEF Begin
<1> QED
  BY <1>1, <1>2 DEF CallerType, CallerIndex, Begin

\* Steps of API calls other than install.
LEMMA CallerTypeInv ==
  ASSUME TypeInv, NEW c \in Callers, CallerStep(c)
  PROVE  TypeInv'
<1> USE DEF TypeInv, TypeOK, IndexInv
<1>1. CallerType' /\ CallerIndex'
  <2>1. pc[c] # "idle"
    BY DEF CallerStep, CallerAt, StartCheck, RestartClear, RestartSettime, RestartSched,
           RestartTrigger, StopClear, StopSettime, StopTrigger, UninstallLock,
           UninstallUnlock, UninstallZombie
  <2>2. Return(c) \/ \E where \in CallerPcs : Goto(c, where)
    BY DEF CallerPcs, CallerStep, StartCheck, RestartClear, RestartSettime, RestartSched,
           RestartTrigger, StopClear, StopSettime, StopTrigger, UninstallLock,
           UninstallUnlock, UninstallZombie
  <2> QED
    BY <2>1, <2>2, GotoType, ReturnType
<1>2. UNCHANGED <<workerVars, useVars, life, work_state>> /\ eventfd' \in {eventfd, eventfd + 1}
  BY DEF CallerStep, CallerAt, StartCheck, RestartClear, RestartSettime, RestartSched,
         RestartTrigger, StopClear, StopSettime, StopTrigger, UninstallLock,
         UninstallUnlock, UninstallZombie, useVars, ctxVars, Trigger
<1>3. CtxType' /\ WorkerType' /\ UseType' /\ WorkerIndex' /\ EventIndex'
  BY <1>2 DEF workerVars, useVars, CtxType, WorkerType, UseType, WorkerIndex, EventIndex, Closed
<1>4. SlotType'
  <2> USE DEF SlotType, SetState, SetTfd, SetLock, SetPromise, mask_set, mask_clear
  <2>1. CASE StartCheck(c) \/ RestartTrigger(c) \/ StopTrigger(c)
    BY <2>1 DEF StartCheck, RestartTrigger, StopTrigger, sharedVars
  <2>2. CASE RestartClear(c) \/ StopClear(c)
    BY <2>2 DEF RestartClear, StopClear
  <2>3. CASE RestartSettime(c) \/ StopSettime(c)
    BY <2>3 DEF RestartSettime, StopSettime, TimerfdSet
  <2>4. CASE RestartSched(c)
    BY <2>4 DEF RestartSched, Bits
  <2>5. CASE UninstallLock(c) \/ UninstallUnlock(c)
    BY <2>5 DEF UninstallLock, UninstallUnlock, Locked, Unlocked
  <2>6. CASE UninstallZombie(c)
    BY <2>6 DEF UninstallZombie, Bits
  <2> QED
    BY <2>1, <2>2, <2>3, <2>4, <2>5, <2>6 DEF CallerStep
<1> QED
  BY <1>1, <1>3, <1>4

\* Steps of install.
LEMMA InstallTypeInv ==
  ASSUME TypeInv, NEW c \in Clients, InstallStep(c)
  PROVE  TypeInv'
<1> USE DEF TypeInv, TypeOK, IndexInv
<1>1. c \in Callers /\ tgt[c] \in Slots /\ pc[c] # "idle"
  BY DEF Callers, CallerIndex, InstallStep, InstallScan, InstallCreate, InstallCreateFails,
         InstallMutex, InstallMutexFails, InstallPublish, CallerAt
<1>2. CallerType' /\ CallerIndex'
  <2>1. CASE InstallScan(c)
    <3>1. CASE Goto(c, "create")
      BY <1>1, <3>1, GotoType DEF CallerPcs
    <3>2. CASE Return(c)
      BY <1>1, <3>2, ReturnType
    <3>3. CASE tgt[c] < N /\ tgt' = [tgt EXCEPT ![c] = tgt[c] + 1] /\ UNCHANGED <<pc, op>>
      BY <1>1, <3>3, NAssumption DEF CallerType, CallerIndex, Slots
    <3> QED
      BY <2>1, <3>1, <3>2, <3>3 DEF InstallScan
  <2>2. CASE ~ InstallScan(c)
    <3>1. Return(c) \/ \E where \in CallerPcs : Goto(c, where)
      BY <2>2 DEF CallerPcs, InstallStep, InstallCreate, InstallCreateFails, InstallMutex,
                  InstallMutexFails, InstallPublish
    <3> QED
      BY <1>1, <3>1, GotoType, ReturnType
  <2> QED
    BY <2>1, <2>2
<1>3. UNCHANGED <<workerVars, left, ctxVars>>
      /\ (held' = held \/ held' = [held EXCEPT ![c] = @ \cup {tgt[c]}])
  BY DEF InstallStep, CallerAt, InstallScan, InstallCreate, InstallCreateFails, InstallMutex,
         InstallMutexFails, InstallPublish
<1>4. CtxType' /\ WorkerType' /\ UseType' /\ WorkerIndex' /\ EventIndex'
  BY <1>1, <1>3 DEF workerVars, ctxVars, CtxType, WorkerType, UseType, WorkerIndex, EventIndex
<1>5. SlotType'
  <2> USE <1>1 DEF SlotType, SetState, SetLock, mask_set, Bits
  <2>1. CASE InstallScan(c)
    BY <2>1 DEF InstallScan, sharedVars
  <2>2. CASE InstallCreate(c)
    BY <2>2, CbAssumption DEF InstallCreate
  <2>3. CASE InstallCreateFails(c)
    BY <2>3 DEF InstallCreateFails
  <2>4. CASE InstallMutex(c)
    BY <2>4 DEF InstallMutex
  <2>5. CASE InstallMutexFails(c)
    BY <2>5 DEF InstallMutexFails
  <2>6. CASE InstallPublish(c)
    BY <2>6 DEF InstallPublish
  <2> QED
    BY <2>1, <2>2, <2>3, <2>4, <2>5, <2>6 DEF InstallStep
<1> QED
  BY <1>2, <1>4, <1>5

\* A client or a callback enters a function.
EnterCall ==
    \/ \E c \in Clients : \/ ClientInstall(c)
                          \/ \E o \in TimerOps, t \in Slots : ClientCall(c, o, t)
    \/ \E o \in TimerOps : CallbackCall(o)

LEMMA EnterTypeInv ==
  ASSUME TypeInv, EnterCall
  PROVE  TypeInv'
<1> USE DEF TypeInv, TypeOK, IndexInv
<1>1. PICK c \in Callers, o \in Ops \ {"signal"}, t \in Slots : Begin(c, o, t)
  <2>1. CASE \E c \in Clients : ClientInstall(c)
    BY <2>1, NAssumption DEF ClientInstall, Callers, Ops, Slots
  <2>2. CASE \E c \in Clients, o \in TimerOps, t \in Slots : ClientCall(c, o, t)
    BY <2>2 DEF ClientCall, Callers, Ops, TimerOps
  <2>3. CASE \E o \in TimerOps : CallbackCall(o)
    BY <2>3 DEF CallbackCall, Callers, Ops, TimerOps, WorkerIndex, AtTimer
  <2> QED
    BY <2>1, <2>2, <2>3 DEF EnterCall
<1>2. CallerType' /\ CallerIndex' /\ left' \in [Ops -> Nat]
  BY <1>1, BeginType DEF UseType
<1>3. CtxType' /\ SlotType'
  BY <1>1 DEF Begin, CtxType, SlotType, ctxVars, sharedVars
<1>4. held' \in [Clients -> SUBSET Slots]
  BY DEF EnterCall, ClientInstall, ClientCall, CallbackCall, UseType
<1>5. WorkerType' /\ WorkerIndex' /\ EventIndex'
  <2>1. CASE UNCHANGED workerVars
    BY <1>1, <2>1 DEF Begin, workerVars, ctxVars, WorkerType, WorkerIndex, EventIndex
  <2>2. CASE wpc = "callback" /\ WGoto("incall")
    BY <1>1, <2>2 DEF Begin, ctxVars, WGoto, WorkerType, WorkerIndex, EventIndex,
                      WorkerPcs, AtSlot, AtTimer
  <2> QED
    BY <2>1, <2>2 DEF EnterCall, ClientInstall, ClientCall, CallbackCall
<1> QED
  BY <1>2, <1>3, <1>4, <1>5 DEF UseType

\* Steps of the owner of the context.
LEMMA OwnerTypeInv ==
  ASSUME TypeInv, CtxInit \/ DeinitExit \/ DeinitStep
  PROVE  TypeInv'
<1> USE DEF TypeInv, TypeOK, IndexInv
<1>1. CallerType' /\ CallerIndex'
  BY DEF CtxInit, DeinitExit, DeinitStep, DeinitTrigger, DeinitJoin, DeinitCleanup,
         callerVars, CallerType, CallerIndex
<1>2. UseType'
  BY DEF CtxInit, DeinitExit, DeinitStep, DeinitTrigger, DeinitJoin, DeinitCleanup,
         useVars, UseType
<1>3. CtxType'
  BY DEF CtxInit, DeinitExit, DeinitStep, DeinitTrigger, DeinitJoin, DeinitCleanup,
         CtxType, Closed
<1>4. WorkerType' /\ WorkerIndex' /\ EventIndex'
  <2>1. CASE UNCHANGED workerVars /\ (eventfd' = eventfd \/ eventfd' = eventfd + 1)
    BY <2>1 DEF workerVars, WorkerType, WorkerIndex, EventIndex, CtxType, Closed
  <2>2. CASE wpc' # "polled" /\ wpc' \notin AtSlot \cup AtTimer
             /\ wpc' \in WorkerPcs /\ UNCHANGED <<wi, pfds, ready, firing>>
    BY <2>2 DEF WorkerType, WorkerIndex, EventIndex
  <2>3. CASE DeinitJoin
    BY <2>3 DEF DeinitJoin, workerVars, WorkerType, WorkerIndex, EventIndex
  <2>4. CASE CtxInit
    <3>1. CASE wpc' = "top"
      BY <2>2, <2>4, <3>1 DEF CtxInit, WorkerPcs, AtSlot, AtTimer
    <3>2. CASE wpc' = wpc /\ eventfd' = eventfd
      BY <2>1, <2>4, <3>2 DEF CtxInit, workerVars
    <3> QED
      BY <2>4, <3>1, <3>2 DEF CtxInit
  <2> QED
    BY <2>1, <2>3, <2>4 DEF DeinitExit, DeinitStep, DeinitTrigger, DeinitCleanup
<1>5. SlotType'
  <2>1. CASE CtxInit
    BY <2>1 DEF CtxInit, SlotType, AllCbKinds
  <2>2. CASE DeinitCleanup
    BY <2>2 DEF DeinitCleanup, SlotType
  <2>3. CASE UNCHANGED sharedVars /\ promise' \in [Slots -> BOOLEAN]
    BY <2>3 DEF sharedVars, SlotType
  <2> QED
    BY <2>1, <2>2, <2>3 DEF DeinitExit, DeinitStep, DeinitTrigger, DeinitJoin, SlotType
<1> QED
  BY <1>1, <1>2, <1>3, <1>4, <1>5

\* The descriptors of the poll set.
LEMMA PollSetType ==
  ASSUME TypeInv
  PROVE  PollSet \subseteq Fds \cup {NoFd, EventFd}
  BY DEF TypeInv, TypeOK, WorkerType, PollSet

\* Steps of the worker.  They call no function and enter none.
LEMMA WorkerTypeInv ==
  ASSUME TypeInv, WorkerStep \/ PollInterrupted
  PROVE  TypeInv'
<1> USE DEF TypeInv, TypeOK, IndexInv
<1>1. CallerType' /\ CallerIndex' /\ UseType'
  <2>1. CASE UNCHANGED <<callerVars, useVars>>
    BY <2>1 DEF callerVars, useVars, CallerType, CallerIndex, UseType
  <2>2. CASE PollInterrupted
    BY <2>2 DEF PollInterrupted, callerVars, CallerType, CallerIndex, UseType, Ops
  <2>3. CASE WorkerStep
    BY <2>1, <2>3 DEF WorkerStep, WorkerAt, WorkerTop, PrepareTest, CleanupClose,
         CleanupState, CleanupMutex, PrepareActive, PrepareCas, PreparePush, PrepareUnsched,
         Poll, Polled, ServiceRead, ServiceLookup, AlarmLock, AlarmTest, CallbackReturn,
         AlarmUnlock, AlarmDone
  <2> QED
    BY <2>2, <2>3
<1>2. CtxType' /\ EventIndex'
  <2> USE DEF CtxType, EventIndex, ctxVars
  <2>1. CASE Poll
    BY <2>1 DEF Poll, IsReadable
  <2>2. CASE Polled
    BY <2>2 DEF Polled, WGoto, WorkerAt
  <2>3. CASE wpc' # "polled" /\ UNCHANGED ctxVars
    BY <2>3
  <2> QED
    BY <2>1, <2>2, <2>3
    DEF WorkerStep, WGoto, WNext, WorkerTop, PrepareTest, CleanupClose, CleanupState,
        CleanupMutex, PrepareActive, PrepareCas, PreparePush, PrepareUnsched,
        PollInterrupted, ServiceRead, ServiceLookup, AlarmLock, AlarmTest, CallbackReturn,
        AlarmUnlock, AlarmDone
<1>3. WorkerType' /\ WorkerIndex'
  <2> USE NAssumption DEF WorkerType, WorkerIndex, WorkerPcs, AtSlot, AtTimer, WGoto, WNext,
          Slots
  <2>1. CASE WorkerTop
    BY <2>1 DEF WorkerTop
  <2>2. CASE PrepareTest
    BY <2>2 DEF PrepareTest
  <2>3. CASE CleanupClose \/ CleanupState \/ CleanupMutex
    BY <2>3 DEF CleanupClose, CleanupState, CleanupMutex, WorkerAt
  <2>4. CASE PrepareActive \/ PrepareCas \/ PrepareUnsched
    BY <2>4 DEF PrepareActive, PrepareCas, PrepareUnsched, WorkerAt
  <2>5. CASE PreparePush
    BY <2>5 DEF PreparePush, WorkerAt, SlotType
  <2>6. CASE Poll
    BY <2>6, PollSetType DEF Poll
  <2>7. CASE PollInterrupted \/ Polled
    BY <2>7 DEF PollInterrupted, Polled
  <2>8. CASE ServiceRead
    BY <2>8 DEF ServiceRead
  <2>9. CASE ServiceLookup
    BY <2>9 DEF ServiceLookup, timer_from_fd
  <2>10. CASE AlarmLock \/ AlarmTest \/ CallbackReturn \/ AlarmUnlock
    BY <2>10 DEF AlarmLock, AlarmTest, CallbackReturn, AlarmUnlock, WorkerAt
  <2>11. CASE AlarmDone
    BY <2>11 DEF AlarmDone
  <2> QED
    BY <2>1, <2>2, <2>3, <2>4, <2>5, <2>6, <2>7, <2>8, <2>9, <2>10, <2>11 DEF WorkerStep
<1>4. SlotType'
  <2> USE DEF SlotType, SetState, SetTfd, SetLock, SetPromise, mask_clear
  <2>1. CASE CleanupClose
    BY <2>1 DEF CleanupClose
  <2>2. CASE CleanupState \/ PrepareUnsched \/ AlarmDone
    BY <2>2 DEF CleanupState, PrepareUnsched, AlarmDone
  <2>3. CASE CleanupMutex \/ AlarmLock \/ AlarmUnlock
    BY <2>3 DEF CleanupMutex, AlarmLock, AlarmUnlock, Destroyed, Locked, Unlocked, Callers
  <2>4. CASE PrepareCas
    BY <2>4 DEF PrepareCas, mask_cas, Bits
  <2>5. CASE ServiceRead
    BY <2>5 DEF ServiceRead, TimerfdRead, sharedVars
  <2>6. CASE AlarmTest
    BY <2>6 DEF AlarmTest, sharedVars
  <2>7. CASE UNCHANGED <<sharedVars, promise>>
    BY <2>7 DEF sharedVars
  <2> QED
    BY <2>1, <2>2, <2>3, <2>4, <2>5, <2>6, <2>7
    DEF WorkerStep, WorkerTop, PrepareTest, PrepareActive, PreparePush, Poll, Polled,
        PollInterrupted, ServiceLookup, CallbackReturn
<1> QED
  BY <1>1, <1>2, <1>3, <1>4

\* Next, by who takes the step.
LEMMA NextCases ==
  Next <=> \/ CtxInit \/ DeinitExit \/ DeinitStep
           \/ EnterCall
           \/ \E c \in Clients : InstallStep(c)
           \/ \E c \in Callers : CallerStep(c)
           \/ WorkerStep \/ PollInterrupted
           \/ \E f \in Fds : Expire(f)
  BY DEF Next, EnterCall

LEMMA NextTypeInv == TypeInv /\ [Next]_vars => TypeInv'
<1> SUFFICES ASSUME TypeInv, [Next]_vars PROVE TypeInv'
  OBVIOUS
<1>1. CASE \E f \in Fds : Expire(f)
  BY <1>1 DEF Expire, SetTfd, workerVars, callerVars, ctxVars, useVars, TypeInv, TypeOK,
      CtxType, SlotType, WorkerType, CallerType, UseType, IndexInv, CallerIndex,
      WorkerIndex, EventIndex
<1>2. CASE UNCHANGED vars
  BY <1>2 DEF vars, sharedVars, workerVars, callerVars, ctxVars, useVars, TypeInv, TypeOK,
      CtxType, SlotType, WorkerType, CallerType, UseType, IndexInv, CallerIndex,
      WorkerIndex, EventIndex
<1> QED
  BY <1>1, <1>2, NextCases, CallerTypeInv, InstallTypeInv, EnterTypeInv, OwnerTypeInv,
     WorkerTypeInv

\* Every variable of the timer implementation keeps its type, and every index is
\* in range where it is used.
THEOREM TypeCorrect == Spec => []TypeOK
<1>1. Spec => []TypeInv
  BY InitTypeInv, NextTypeInv, PTL DEF Spec
<1>2. TypeInv => TypeOK
  BY DEF TypeInv
<1> QED
  BY <1>1, <1>2, PTL

-----------------------------------------------------------------------------
(* What the steps of each kind of thread leave alone.                       *)

Others(c) == \A d \in Callers \ {c} : pc'[d] = pc[d] /\ op'[d] = op[d] /\ tgt'[d] = tgt[d]

LEMMA CallerFrame ==
  ASSUME TypeInv, NEW c \in Callers, CallerStep(c)
  PROVE  /\ pc[c] \notin Making \cup {"idle", "scan"}
         /\ UNCHANGED <<workerVars, held, life, cb>>
         /\ Others(c)
<1>1. pc[c] \notin Making \cup {"idle", "scan"} /\ UNCHANGED <<workerVars, held, life>>
  BY DEF CallerStep, CallerAt, StartCheck, RestartClear, RestartSettime, RestartSched,
         RestartTrigger, StopClear, StopSettime, StopTrigger, UninstallLock,
         UninstallUnlock, UninstallZombie, Trigger, ctxVars, Making
<1>2. UNCHANGED cb
  BY DEF CallerStep, StartCheck, RestartClear, RestartSettime, RestartSched,
         RestartTrigger, StopClear, StopSettime, StopTrigger, UninstallLock,
         UninstallUnlock, UninstallZombie, sharedVars, SetState, SetTfd, SetLock
<1>3. Return(c) \/ \E where \in CallerPcs : Goto(c, where)
  BY DEF CallerPcs, CallerStep, StartCheck, RestartClear, RestartSettime, RestartSched,
         RestartTrigger, StopClear, StopSettime, StopTrigger, UninstallLock,
         UninstallUnlock, UninstallZombie
<1> QED
  BY <1>1, <1>2, <1>3 DEF Others, Return, Goto, TypeInv, TypeOK, CallerType

LEMMA InstallFrame ==
  ASSUME TypeInv, NEW c \in Clients, InstallStep(c)
  PROVE  /\ c \in Callers
         /\ pc[c] \in Making \cup {"scan"}
         /\ UNCHANGED <<workerVars, life>>
         /\ Others(c)
<1>1. c \in Callers /\ pc[c] \in Making \cup {"scan"} /\ UNCHANGED <<workerVars, life>>
  BY DEF Callers, InstallStep, CallerAt, InstallScan, InstallCreate, InstallCreateFails,
         InstallMutex, InstallMutexFails, InstallPublish, ctxVars, Making
<1>2. \/ Return(c)
      \/ \E where \in CallerPcs : Goto(c, where)
      \/ UNCHANGED <<pc, op>> /\ tgt' = [tgt EXCEPT ![c] = tgt[c] + 1]
  BY DEF CallerPcs, InstallStep, InstallScan, InstallCreate, InstallCreateFails,
         InstallMutex, InstallMutexFails, InstallPublish
<1> QED
  BY <1>1, <1>2 DEF Others, Return, Goto, TypeInv, TypeOK, CallerType

LEMMA WorkerFrame ==
  ASSUME WorkerStep \/ PollInterrupted
  PROVE  /\ wpc # "exited"
         /\ UNCHANGED <<callerVars, held, life, cb>>
<1>1. wpc # "exited" /\ UNCHANGED <<callerVars, held, life>>
  BY DEF WorkerStep, PollInterrupted, WorkerAt, WorkerTop, PrepareTest, CleanupClose,
         CleanupState, CleanupMutex, PrepareActive, PrepareCas, PreparePush, PrepareUnsched,
         Poll, Polled, ServiceRead, ServiceLookup, AlarmLock, AlarmTest, CallbackReturn,
         AlarmUnlock, AlarmDone, useVars, ctxVars
<1>2. UNCHANGED cb
  BY DEF WorkerStep, PollInterrupted, WorkerTop, PrepareTest, CleanupClose,
         CleanupState, CleanupMutex, PrepareActive, PrepareCas, PreparePush, PrepareUnsched,
         Poll, Polled, ServiceRead, ServiceLookup, AlarmLock, AlarmTest, CallbackReturn,
         AlarmUnlock, AlarmDone, sharedVars, SetState, SetTfd, SetLock
<1> QED
  BY <1>1, <1>2

LEMMA EnterFrame ==
  ASSUME TypeInv, EnterCall
  PROVE  /\ UNCHANGED <<ctxVars, sharedVars, promise>>
         /\ \E c \in Callers : /\ Others(c) /\ pc[c] = "idle"
                               /\ c \in Clients => life = "up" /\ UNCHANGED workerVars
                               /\ c = Worker => /\ wpc = "callback" /\ WGoto("incall")
                                                /\ UNCHANGED held
<1> USE DEF TypeInv, TypeOK, CallerType, Callers, Others
<1>1. ASSUME NEW c \in Clients, ClientInstall(c) PROVE c # Worker /\ Others(c) /\ pc[c] = "idle"
  BY <1>1, ThreadAssumption DEF ClientInstall, Begin
<1>2. ASSUME NEW c \in Clients, NEW o \in TimerOps, NEW t \in Slots, ClientCall(c, o, t)
      PROVE  c # Worker /\ Others(c) /\ pc[c] = "idle"
  BY <1>2, ThreadAssumption DEF ClientCall, Begin
<1>3. ASSUME NEW o \in TimerOps, CallbackCall(o)
      PROVE  Worker \notin Clients /\ Others(Worker) /\ pc[Worker] = "idle"
  BY <1>3, ThreadAssumption DEF CallbackCall, Begin
<1> QED
  BY <1>1, <1>2, <1>3 DEF EnterCall, ClientInstall, ClientCall, CallbackCall, Begin

LEMMA NextLife ==
  ASSUME TypeInv, SlotInv, Next
  PROVE  LifeInv'
<1> USE DEF LifeInv, SlotInv
<1>1. CASE CtxInit \/ DeinitExit \/ DeinitStep
  <2> USE DEF workerVars, callerVars, useVars, TypeInv, TypeOK, CallerType, UseType, Callers
  <2>1. CASE CtxInit
    BY <2>1 DEF CtxInit
  <2>2. CASE DeinitExit
    BY <2>2 DEF DeinitExit
  <2>3. CASE DeinitStep
    BY <2>3 DEF DeinitStep, DeinitTrigger, DeinitJoin, DeinitCleanup
  <2> QED
    BY <1>1, <2>1, <2>2, <2>3
<1>2. ASSUME NEW c \in Callers, CallerStep(c) PROVE LifeInv'
  BY <1>2, CallerFrame, ThreadAssumption DEF Others, Callers, workerVars
<1>3. ASSUME NEW c \in Clients, InstallStep(c) PROVE LifeInv'
  BY <1>3, InstallFrame DEF Others, Callers, workerVars, Making
<1>4. CASE WorkerStep \/ PollInterrupted
  BY <1>4, WorkerFrame DEF callerVars
<1>5. CASE EnterCall
  BY <1>5, EnterFrame DEF Others, Callers, ctxVars, workerVars, WGoto
<1>6. CASE \E f \in Fds : Expire(f)
  BY <1>6 DEF Expire, workerVars, callerVars, ctxVars, useVars
<1> QED
  BY <1>1, <1>2, <1>3, <1>4, <1>5, <1>6, NextCases

-----------------------------------------------------------------------------
(* Every step, part by part of SlotInv.                                     *)

\* The steps of a call go forward; those of uninstall are its own.
LEMMA CallerMoves ==
  ASSUME TypeInv, WorkerInv, NEW c \in Callers, CallerStep(c)
  PROVE  \/ Return(c)
         \/ \E where \in CallerPcs :
               /\ Goto(c, where)
               /\ where \notin Making \cup {"idle", "scan", "check", "u_lock"}
               /\ where \in InUninstall => op[c] = "uninstall"
  BY DEF WorkerInv, CallerPcs, Making, InUninstall, CallerAt, CallerStep, StartCheck,
         RestartClear, RestartSettime, RestartSched, RestartTrigger, StopClear,
         StopSettime, StopTrigger, UninstallLock, UninstallUnlock, UninstallZombie

\* The worker runs its own code only while its callback is not in a call.
LEMMA WorkerIdle ==
  ASSUME WorkerInv, WorkerStep \/ PollInterrupted
  PROVE  pc[Worker] = "idle"
  BY DEF WorkerInv, WorkerStep, PollInterrupted, WorkerAt, WorkerTop, PrepareTest,
         CleanupClose, CleanupState, CleanupMutex, PrepareActive, PrepareCas, PreparePush,
         PrepareUnsched, Poll, Polled, ServiceRead, ServiceLookup, AlarmLock, AlarmTest,
         CallbackReturn, AlarmUnlock, AlarmDone

LEMMA NextWorker ==
  ASSUME TypeInv, SlotInv, Next
  PROVE  WorkerInv'
<1> USE DEF WorkerInv
<1>0. Worker \in Callers /\ LifeInv /\ WorkerInv
  BY DEF SlotInv, Callers
<1>1. CASE CtxInit \/ DeinitExit \/ DeinitStep
  BY <1>0, <1>1 DEF LifeInv, CtxInit, DeinitExit, DeinitStep, DeinitTrigger, DeinitJoin,
     DeinitCleanup, sharedVars, workerVars, callerVars
<1>2. ASSUME NEW c \in Callers, CallerStep(c) PROVE WorkerInv'
  <2>1. UNCHANGED <<firing, wpc, cb>> /\ Others(c) /\ pc[c] # "idle"
    BY <1>2, CallerFrame DEF workerVars
  <2>2. CASE Return(c)
    BY <1>0, <2>1, <2>2 DEF Return, Others, InUninstall, Making, TypeInv, TypeOK, CallerType
  <2>3. ASSUME NEW where \in CallerPcs, Goto(c, where),
               where \notin Making \cup {"idle", "scan"},
               where \in InUninstall => op[c] = "uninstall"
        PROVE  WorkerInv'
    BY <1>0, <2>1, <2>3 DEF Goto, Others, TypeInv, TypeOK, CallerType
  <2> QED
    BY <1>0, <1>2, <2>2, <2>3, CallerMoves
<1>3. ASSUME NEW c \in Clients, InstallStep(c) PROVE WorkerInv'
  <2>1. c \in Callers /\ c # Worker /\ UNCHANGED <<firing, wpc>> /\ Others(c)
    BY <1>3, InstallFrame, ThreadAssumption DEF workerVars
  <2>2. pc'[c] \notin InUninstall /\ (pc'[c] \in Making \cup {"scan"} => op'[c] = "install")
    BY <1>0, <1>3, <2>1 DEF InstallStep, InstallScan, InstallCreate, InstallCreateFails,
       InstallMutex, InstallMutexFails, InstallPublish, CallerAt, Goto, Return, InUninstall,
       Making, TypeInv, TypeOK, CallerType
  <2>3. pc[Worker] # "idle" => cb'[firing] = cb[firing]
    <3>1. UNCHANGED cb \/ (pc[c] = "create" /\ \E k \in CbKinds : cb' = [cb EXCEPT ![tgt[c]] = k])
      BY <1>3 DEF InstallStep, InstallScan, InstallCreate, InstallCreateFails, InstallMutex,
         InstallMutexFails, InstallPublish, CallerAt, SetState, SetLock, sharedVars
    <3>2. ASSUME pc[Worker] # "idle", pc[c] = "create" PROVE firing \in Slots \ {tgt[c]}
      BY <1>0, <2>1, <3>2 DEF SlotInv, OwnerInv, BitsInv, Makes, Making, AtTimer, TypeInv,
         IndexInv, CallerIndex, WorkerIndex
    <3> QED
      BY <3>1, <3>2 DEF TypeInv, TypeOK, SlotType
  <2> QED
    BY <1>0, <2>1, <2>2, <2>3 DEF Others
<1>4. CASE WorkerStep \/ PollInterrupted
  BY <1>0, <1>4, WorkerFrame, WorkerIdle DEF callerVars
<1>5. CASE EnterCall
  <2> USE DEF TypeInv, TypeOK, CallerType
  <2>1. ASSUME NEW c \in Clients, NEW o \in Ops \ {"signal"}, NEW t \in Slots,
               Begin(c, o, t), UNCHANGED workerVars
        PROVE  WorkerInv'
    <3>1. /\ Entry[o] \in InUninstall => o = "uninstall"
          /\ Entry[o] \in Making \cup {"scan"} => o = "install"
      BY DEF Entry, Ops, InUninstall, Making
    <3>2. c # Worker /\ c \in Callers /\ Others(c) /\ pc'[c] = Entry[o] /\ op'[c] = o
      BY <2>1, ThreadAssumption DEF Begin, Callers, Others
    <3>3. UNCHANGED <<firing, wpc, cb>>
      BY <2>1 DEF Begin, sharedVars, workerVars
    <3> QED
      BY <1>0, <3>1, <3>2, <3>3 DEF Others
  <2>2. ASSUME NEW o \in TimerOps, CallbackCall(o) PROVE WorkerInv'
    BY <1>0, <2>2 DEF CallbackCall, Begin, WGoto, Entry, TimerOps, InUninstall, Making,
       sharedVars
  <2> QED
    BY <1>5, <2>1, <2>2, NAssumption DEF EnterCall, ClientInstall, ClientCall, Ops, TimerOps,
       Slots
<1>6. CASE \E f \in Fds : Expire(f)
  BY <1>0, <1>6 DEF Expire, SetTfd, workerVars, callerVars
<1> QED
  BY <1>1, <1>2, <1>3, <1>4, <1>5, <1>6, NextCases

\* A slot that is touched by a call, or being cleaned up, is in use; one that is
\* being installed is not, and is no slot the worker is at.
LEMMA CallerTarget ==
  ASSUME TypeInv, SlotInv, NEW c \in Callers, CallerStep(c), pc[c] # "r_trigger"
  PROVE  /\ tgt[c] \in Slots /\ "USED" \in state[tgt[c]]
         /\ c \in Clients => Uses(c, tgt[c]) /\ "ZOMBIE" \notin state[tgt[c]]
<1>1. tgt[c] \in Slots /\ pc[c] \in Starting \cup Ending \cup {"s_clear", "u_lock", "u_zombie"}
  BY DEF TypeInv, IndexInv, CallerIndex, Starting, Ending, CallerStep, CallerAt, StartCheck,
     RestartClear, RestartSettime, RestartSched, RestartTrigger, StopClear, StopSettime,
     StopTrigger, UninstallLock, UninstallUnlock, UninstallZombie
<1>2. c \in Clients => Uses(c, tgt[c])
  BY <1>1 DEF Uses, Busy
<1>3. c = Worker => "USED" \in state[tgt[c]]
  BY <1>1 DEF SlotInv, WorkerInv, BitsInv, AtTimer, Starting, Ending
<1> QED
  BY <1>1, <1>2, <1>3 DEF SlotInv, OwnerInv, Callers

\* What a call does to the bits.
LEMMA CallerBits ==
  ASSUME TypeInv, NEW c \in Callers, CallerStep(c)
  PROVE  \/ UNCHANGED state
         \/ /\ pc[c] \in {"r_clear", "s_clear"}
            /\ state' = [state EXCEPT ![tgt[c]] = state[tgt[c]] \ {"ACTIVE", "SCHED"}]
         \/ /\ pc[c] = "r_sched"
            /\ state' = [state EXCEPT ![tgt[c]] = state[tgt[c]] \cup {"SCHED"}]
         \/ /\ pc[c] = "u_zombie"
            /\ state' = [state EXCEPT ![tgt[c]] = state[tgt[c]] \cup {"ZOMBIE"}]
  BY DEF CallerAt, CallerStep, StartCheck,
     RestartClear, RestartSettime, RestartSched, RestartTrigger, StopClear, StopSettime,
     StopTrigger, UninstallLock, UninstallUnlock, UninstallZombie, SetState, SetTfd, SetLock,
     sharedVars, mask_set, mask_clear

LEMMA InstallBits ==
  ASSUME TypeInv, BitsInv, OwnerInv, NEW c \in Clients, InstallStep(c)
  PROVE  /\ tgt[c] \in Slots
         /\ \/ UNCHANGED <<state, cb>>
            \/ /\ state[tgt[c]] \subseteq {"ALLOC"}
               /\ UNCHANGED state
               /\ \E k \in CbKinds : cb' = [cb EXCEPT ![tgt[c]] = k]
            \/ /\ state[tgt[c]] \subseteq {"ALLOC"}
               /\ \E s \in {{}, {"ALLOC"}, {"ALLOC", "USED"}} :
                     state' = [state EXCEPT ![tgt[c]] = s]
               /\ UNCHANGED cb
<1>1. tgt[c] \in Slots /\ pc[c] # "idle"
  BY DEF TypeInv, IndexInv, CallerIndex, Callers, InstallStep, InstallScan, InstallCreate,
     InstallCreateFails, InstallMutex, InstallMutexFails, InstallPublish, CallerAt
<1>2. pc[c] \in Making => state[tgt[c]] = {"ALLOC"}
  BY <1>1 DEF OwnerInv, Makes
<1>3. CASE InstallScan(c)
  BY <1>1, <1>3 DEF InstallScan, BitsInv, mask_set_strict_ok, mask_get, mask_set, SetState,
     sharedVars
<1>4. CASE InstallCreate(c) \/ InstallCreateFails(c)
  BY <1>1, <1>2, <1>4 DEF InstallCreate, InstallCreateFails, CallerAt, Making
<1>5. CASE InstallMutex(c) \/ InstallMutexFails(c)
  BY <1>1, <1>2, <1>5 DEF InstallMutex, InstallMutexFails, CallerAt, Making, SetLock
<1>6. CASE InstallPublish(c)
  BY <1>1, <1>2, <1>6 DEF InstallPublish, CallerAt, Making, SetState, mask_set
<1> QED
  BY <1>3, <1>4, <1>5, <1>6 DEF InstallStep

LEMMA WorkerBits ==
  ASSUME TypeInv, BitsInv, WorkerStep \/ PollInterrupted
  PROVE  \/ UNCHANGED state
         \/ /\ wpc = "cleanup_state" /\ wpc' = "cleanup_mutex" /\ wi \in Slots
            /\ state' = [state EXCEPT ![wi] = {}]
         \/ /\ wpc = "cas" /\ wpc' = "push" /\ wi \in Slots /\ "SCHED" \in state[wi]
            /\ state' = [state EXCEPT ![wi] = state[wi] \cup {"ACTIVE"}]
            /\ UNCHANGED <<wi, firing>>
         \/ /\ wpc = "unsched" /\ wpc' = "prepare" /\ wi \in Slots
            /\ state' = [state EXCEPT ![wi] = state[wi] \ {"SCHED"}]
         \/ /\ wpc = "unactive" /\ wpc' = "service" /\ firing \in Slots
            /\ state' = [state EXCEPT ![firing] = state[firing] \ {"ACTIVE"}]
<1> USE DEF TypeInv, TypeOK, SlotType, IndexInv, WorkerIndex, AtSlot, AtTimer, WorkerAt,
            SetState, SetTfd, SetLock, sharedVars
<1>1. CASE CleanupState \/ PrepareUnsched \/ AlarmDone
  BY <1>1 DEF CleanupState, PrepareUnsched, AlarmDone, mask_clear, WGoto, WNext
<1>2. CASE PrepareCas
  <2>1. wi \in Slots /\ "USED" \in state[wi]
    BY <1>2 DEF PrepareCas, BitsInv
  <2>2. mask_cas(state[wi], {"SCHED"}, {"ACTIVE"}) =
           IF "SCHED" \in state[wi] THEN state[wi] \cup {"ACTIVE"} ELSE state[wi]
    BY <2>1 DEF mask_cas, mask_test, mask_get
  <2>3. mask_test(state[wi], {"SCHED"}) <=> "SCHED" \in state[wi]
    BY DEF mask_test, mask_get
  <2>4. CASE "SCHED" \in state[wi]
    BY <1>2, <2>1, <2>2, <2>3, <2>4 DEF PrepareCas, WGoto
  <2>5. CASE "SCHED" \notin state[wi]
    BY <1>2, <2>1, <2>2, <2>3, <2>5 DEF PrepareCas
  <2> QED
    BY <2>4, <2>5
<1>3. CASE \/ WorkerTop \/ PrepareTest \/ CleanupClose \/ CleanupMutex \/ PrepareActive
           \/ PreparePush \/ Poll \/ PollInterrupted \/ Polled
  BY <1>3 DEF WorkerTop, PrepareTest, CleanupClose, CleanupMutex, PrepareActive,
     PreparePush, Poll, PollInterrupted, Polled
<1>4. CASE \/ ServiceRead \/ ServiceLookup
           \/ AlarmLock \/ AlarmTest \/ CallbackReturn \/ AlarmUnlock
  BY <1>4 DEF ServiceRead, ServiceLookup, AlarmLock, AlarmTest, CallbackReturn, AlarmUnlock
<1> QED
  BY <1>1, <1>2, <1>3, <1>4 DEF WorkerStep

\* What the worker knows of the slot it moves to.
LEMMA WorkerMoves ==
  ASSUME TypeInv, BitsInv, WorkerStep \/ PollInterrupted
  PROVE  /\ wpc' \in AtTimer =>
               \/ wpc \in AtTimer /\ UNCHANGED firing
               \/ firing' \in Slots /\ timer_valid(state[firing'])
         /\ wpc' \in {"cleanup_close", "cleanup_state"} =>
               UNCHANGED wi /\ wi \in Slots /\ "ZOMBIE" \in state[wi]
         /\ wpc' \in {"test_active", "cas", "push", "unsched"} =>
               UNCHANGED wi /\ wi \in Slots /\ "USED" \in state[wi]
<1> USE DEF TypeInv, TypeOK, IndexInv, WorkerIndex, AtSlot, AtTimer, WorkerAt, WGoto, WNext
<1>1. CASE \/ WorkerTop \/ CleanupMutex \/ Poll \/ PollInterrupted \/ Polled \/ ServiceRead
           \/ PrepareUnsched \/ AlarmDone
  BY <1>1 DEF WorkerTop, CleanupMutex, Poll, PollInterrupted, Polled, ServiceRead,
     PrepareUnsched, AlarmDone
<1>2. CASE PrepareTest
  BY <1>2 DEF PrepareTest, Slots, WorkerType, mask_test, mask_get, timer_valid
<1>3. CASE CleanupClose \/ CleanupState \/ PrepareActive \/ PrepareCas \/ PreparePush
  BY <1>3 DEF CleanupClose, CleanupState, PrepareActive, PrepareCas, PreparePush, BitsInv
<1>4. CASE ServiceLookup
  BY <1>4 DEF ServiceLookup, timer_from_fd
<1>5. CASE AlarmLock \/ AlarmTest \/ CallbackReturn \/ AlarmUnlock
  BY <1>5 DEF AlarmLock, AlarmTest, CallbackReturn, AlarmUnlock
<1> QED
  BY <1>1, <1>2, <1>3, <1>4, <1>5 DEF WorkerStep

LEMMA NextBits ==
  ASSUME TypeInv, SlotInv, Next
  PROVE  BitsInv'
<1>0. BitsInv /\ LifeInv /\ OwnerInv
  BY DEF SlotInv
<1> USE DEF BitsInv, AtTimer
<1>1. CASE CtxInit \/ DeinitExit \/ DeinitStep
  <2>1. CASE CtxInit
    BY <1>0, <2>1 DEF CtxInit, LifeInv
  <2>2. CASE DeinitExit
    BY <1>0, <2>2 DEF DeinitExit, sharedVars, workerVars
  <2>3. CASE DeinitStep
    BY <1>0, <2>3 DEF DeinitStep, DeinitTrigger, DeinitJoin, DeinitCleanup, LifeInv,
       sharedVars, workerVars
  <2> QED
    BY <1>1, <2>1, <2>2, <2>3
<1>2. ASSUME NEW c \in Callers, CallerStep(c) PROVE BitsInv'
  <2>1. UNCHANGED <<wpc, wi, firing>>
    BY <1>2, CallerFrame DEF workerVars
  <2>2. state' = state \/ (tgt[c] \in Slots /\ "USED" \in state[tgt[c]])
    BY <1>2, CallerBits, CallerTarget
  <2> QED
    BY <1>0, <1>2, <2>1, <2>2, CallerBits
    DEF TypeInv, TypeOK, SlotType, IndexInv, WorkerIndex, AtSlot
<1>3. ASSUME NEW c \in Clients, InstallStep(c) PROVE BitsInv'
  <2>1. UNCHANGED <<wpc, wi, firing>>
    BY <1>3, InstallFrame DEF workerVars
  <2> QED
    BY <1>0, <1>3, <2>1, InstallBits
    DEF TypeInv, TypeOK, SlotType, IndexInv, WorkerIndex, AtSlot
<1>4. CASE WorkerStep \/ PollInterrupted
  BY <1>0, <1>4, WorkerBits, WorkerMoves DEF TypeInv, TypeOK, SlotType, timer_valid, mask_get
<1>5. CASE EnterCall
  <2>1. UNCHANGED <<state, wi, firing>> /\ (wpc' = wpc \/ wpc = "callback")
    BY <1>5, EnterFrame DEF sharedVars, workerVars, WGoto, Callers
  <2>2. UNCHANGED wpc \/ wpc' = "incall"
    BY <1>5, EnterFrame DEF sharedVars, workerVars, WGoto, Callers
  <2> QED
    BY <1>0, <2>1, <2>2
<1>6. CASE \E f \in Fds : Expire(f)
  BY <1>0, <1>6 DEF Expire, SetTfd, workerVars
<1> QED
  BY <1>1, <1>2, <1>3, <1>4, <1>5, <1>6, NextCases

\* A step after which nobody owns more than before keeps the ownership apart.
LEMMA OwnersShrink ==
  ASSUME OwnerInv,
         \A d \in Clients, t \in Slots :
            /\ Uses(d, t)' => /\ Uses(d, t)
                              /\ "USED" \in state'[t] /\ "ZOMBIE" \notin state'[t]
            /\ Makes(d, t)' => Makes(d, t) /\ state'[t] = {"ALLOC"},
         \A d \in Clients : pc'[d] # "idle" /\ op'[d] = "uninstall" => tgt'[d] \notin held'[d]
  PROVE  OwnerInv'
  BY DEF OwnerInv

\* A step of a call makes no client an owner.
LEMMA CallerUses ==
  ASSUME TypeInv, WorkerInv, NEW c \in Callers, CallerStep(c), NEW d \in Clients, NEW t \in Slots
  PROVE  (Uses(d, t)' => Uses(d, t)) /\ (Makes(d, t)' => Makes(d, t))
<1>1. UNCHANGED held /\ Others(c) /\ pc[c] # "idle"
  BY CallerFrame
<1>2. CASE d # c
  BY <1>1, <1>2 DEF Others, Callers, Uses, Busy, Makes
<1>3. CASE d = c /\ pc[c] # "r_trigger"
  <2>1. pc[c] \in Starting \cup Ending \cup {"s_clear", "u_lock", "u_zombie"}
    BY <1>3 DEF Starting, Ending, CallerStep, CallerAt, StartCheck, RestartClear,
       RestartSettime, RestartSched, StopClear, StopSettime, StopTrigger, UninstallLock,
       RestartTrigger, UninstallUnlock, UninstallZombie
  <2>2. Return(c) \/ (UNCHANGED tgt /\ pc'[c] \notin Making)
    BY CallerMoves DEF Goto, TypeInv, TypeOK, CallerType
  <2> QED
    BY <1>1, <1>3, <2>1, <2>2
    DEF Uses, Busy, Makes, Return, Starting, Ending, Making, TypeInv, TypeOK, CallerType
<1>4. CASE d = c /\ pc[c] = "r_trigger"
  <2>1. Return(c)
    BY <1>4 DEF CallerStep, CallerAt, StartCheck, RestartClear, RestartSettime, RestartSched,
       RestartTrigger, StopClear, StopSettime, StopTrigger, UninstallLock, UninstallUnlock,
       UninstallZombie
  <2> QED
    BY <1>1, <1>4, <2>1 DEF Return, Uses, Busy, Makes, Starting, Ending, Making, TypeInv,
       TypeOK, CallerType
<1> QED
  BY <1>2, <1>3, <1>4

LEMMA CallerOwner ==
  ASSUME TypeInv, SlotInv, NEW c \in Callers, CallerStep(c)
  PROVE  OwnerInv'
<1>0. OwnerInv /\ WorkerInv
  BY DEF SlotInv
<1>1. UNCHANGED held /\ Others(c) /\ pc[c] # "idle"
  BY CallerFrame
<1>2. \A d \in Clients, t \in Slots : (Uses(d, t)' => Uses(d, t)) /\ (Makes(d, t)' => Makes(d, t))
  BY <1>0, CallerUses
<1>3. ASSUME NEW d \in Clients, pc'[d] # "idle", op'[d] = "uninstall"
      PROVE  tgt'[d] \notin held'[d]
  <2>1. Return(c) \/ (\E where \in CallerPcs : Goto(c, where))
    BY <1>0, CallerMoves
  <2> QED
    BY <1>0, <1>1, <1>3, <2>1 DEF OwnerInv, Others, Callers, Return, Goto, TypeInv, TypeOK,
       CallerType
<1>4. ASSUME NEW d \in Clients, NEW t \in Slots
      PROVE  /\ Uses(d, t)' => "USED" \in state'[t] /\ "ZOMBIE" \notin state'[t]
             /\ Makes(d, t)' => state'[t] = {"ALLOC"}
  <2>1. Uses(d, t) => "USED" \in state[t] /\ "ZOMBIE" \notin state[t]
    BY <1>0 DEF OwnerInv
  <2>2. Makes(d, t) => state[t] = {"ALLOC"}
    BY <1>0 DEF OwnerInv
  <2>3. CASE state'[t] = state[t]
    BY <1>2, <2>1, <2>2, <2>3
  <2>4. CASE state'[t] # state[t]
    <3>1. t = tgt[c] /\ pc[c] # "r_trigger" /\ "USED" \in state[t]
      BY <2>4, CallerBits, CallerTarget DEF TypeInv, TypeOK, SlotType
    <3>2. CASE pc[c] # "u_zombie"
      BY <1>2, <2>1, <2>2, <3>1, <3>2, CallerBits DEF TypeInv, TypeOK, SlotType
    <3>3. CASE pc[c] = "u_zombie"
      <4>1. op[c] = "uninstall" /\ Return(c)
        BY <1>0, <3>3 DEF WorkerInv, InUninstall, CallerStep, CallerAt, StartCheck,
           RestartClear, RestartSettime, RestartSched, RestartTrigger, StopClear,
           StopSettime, StopTrigger, UninstallLock, UninstallUnlock, UninstallZombie
      <4>2. ASSUME c \in Clients, Uses(d, t)' PROVE FALSE
        <5>1. Uses(c, t) /\ Uses(d, t)
          BY <1>2, <3>1, <4>2, CallerTarget
        <5>2. c = d /\ t \notin held[c]
          BY <1>0, <1>1, <3>1, <4>1, <4>2, <5>1 DEF OwnerInv
        <5> QED
          BY <1>1, <4>1, <4>2, <5>2 DEF Uses, Busy, Return, Starting, Ending, TypeInv, TypeOK,
             CallerType
      <4>3. ASSUME c = Worker, Uses(d, t) PROVE FALSE
        BY <1>0, <1>1, <3>1, <4>1, <4>3 DEF WorkerInv, SlotInv, SelfInv, InCallback
      <4> QED
        BY <1>2, <2>2, <3>1, <4>2, <4>3 DEF Callers
    <3> QED
      BY <3>2, <3>3
  <2> QED
    BY <2>3, <2>4
<1> QED
  BY <1>0, <1>2, <1>3, <1>4, OwnersShrink

LEMMA InstallOwner ==
  ASSUME TypeInv, SlotInv, NEW c \in Clients, InstallStep(c)
  PROVE  OwnerInv'
<1>0. OwnerInv /\ BitsInv /\ WorkerInv
  BY DEF SlotInv
<1>1. Others(c) /\ pc[c] \in Making \cup {"scan"} /\ tgt[c] \in Slots /\ c \in Callers
  BY <1>0, InstallFrame, InstallBits
<1> USE DEF TypeInv, TypeOK, CallerType, SlotType, UseType
<1>2. \A d \in Clients \ {c} :
         held'[d] = held[d] /\ pc'[d] = pc[d] /\ op'[d] = op[d] /\ tgt'[d] = tgt[d]
  BY <1>1 DEF Others, Callers, InstallStep, InstallScan, InstallCreate, InstallCreateFails,
     InstallMutex, InstallMutexFails, InstallPublish
<1>3. \A d \in Clients \ {c}, t \in Slots :
         (Uses(d, t)' <=> Uses(d, t)) /\ (Makes(d, t)' <=> Makes(d, t))
  BY <1>2 DEF Uses, Busy, Makes
<1>4. \A t \in Slots : /\ Uses(c, t) <=> t \in held[c]
                       /\ Makes(c, t) <=> t = tgt[c] /\ pc[c] # "scan"
  BY <1>1 DEF Uses, Busy, Makes, Making, Starting, Ending
<1>5. /\ \A t \in Slots \ {tgt[c]} : state'[t] = state[t]
      /\ UNCHANGED state \/ state[tgt[c]] \subseteq {"ALLOC"}
  BY <1>0, InstallBits
<1>6. op[c] = "install" /\ pc'[c] \notin Starting \cup Ending \cup {"s_clear", "u_lock", "u_zombie"}
      /\ op'[c] # "uninstall"
  BY <1>0, <1>1 DEF WorkerInv, Starting, Ending, Making, CallerAt, InstallStep, InstallScan,
     InstallCreate, InstallCreateFails, InstallMutex, InstallMutexFails, InstallPublish, Goto, Return
<1>7. \A t \in Slots : Uses(c, t)' <=> t \in held'[c]
  BY <1>6 DEF Uses, Busy
<1>8. \A d \in Clients : pc'[d] # "idle" /\ op'[d] = "uninstall" => tgt'[d] \notin held'[d]
  BY <1>0, <1>2, <1>6 DEF OwnerInv
<1>9. \A d \in Clients, t \in Slots :
         /\ Uses(d, t)  => "USED" \in state[t] /\ "ZOMBIE" \notin state[t]
         /\ Makes(d, t) => state[t] = {"ALLOC"}
  BY <1>0 DEF OwnerInv
\* The slot is taken, ...
<1>10. CASE InstallScan(c) /\ Goto(c, "create")
  <2>1. held' = held /\ state[tgt[c]] = {} /\ state'[tgt[c]] = {"ALLOC"}
    BY <1>0, <1>1, <1>10 DEF BitsInv, InstallScan, Goto, Return, mask_set_strict_ok,
       mask_get, mask_set, SetState, CallerAt
  <2>2. \A t \in Slots : Makes(c, t)' <=> t = tgt[c]
    BY <1>1, <1>10 DEF Goto, Makes, Making
  <2>3. \A d \in Clients : ~ Uses(d, tgt[c]) /\ ~ Makes(d, tgt[c])
    BY <1>1, <1>9, <2>1
  <2>4. \A d, e \in Clients : \A t \in Slots :
           (Uses(d, t) \/ Makes(d, t))' /\ (Uses(e, t) \/ Makes(e, t))' => d = e
    BY <1>0, <1>3, <1>4, <1>7, <2>1, <2>2, <2>3 DEF OwnerInv
  <2>5. \A d \in Clients : \A t \in Slots :
           /\ Uses(d, t)'  => "USED" \in state'[t] /\ "ZOMBIE" \notin state'[t]
           /\ Makes(d, t)' => state'[t] = {"ALLOC"}
    BY <1>3, <1>4, <1>5, <1>7, <1>9, <2>1, <2>2, <2>3
  <2> QED
    BY <1>8, <2>4, <2>5 DEF OwnerInv
\* ... published, ...
<1>11. CASE InstallPublish(c)
  <2>1. /\ held'[c] = held[c] \cup {tgt[c]} /\ pc'[c] = "idle" /\ pc[c] = "publish"
        /\ state'[tgt[c]] = state[tgt[c]] \cup {"USED"}
    BY <1>1, <1>11 DEF InstallPublish, SetState, mask_set, Return, CallerAt
  <2>2. Makes(c, tgt[c]) /\ (\A t \in Slots : ~ Makes(c, t)')
    BY <1>1, <2>1 DEF Makes, Making
  <2>3. \A t \in Slots : Uses(c, t)' => Uses(c, t) \/ Makes(c, t)
    BY <1>4, <1>7, <2>1
  <2>4. \A d, e \in Clients : \A t \in Slots :
           (Uses(d, t) \/ Makes(d, t))' /\ (Uses(e, t) \/ Makes(e, t))' => d = e
    BY <1>0, <1>3, <2>2, <2>3 DEF OwnerInv
  <2>5. \A d \in Clients \ {c} : ~ Uses(d, tgt[c]) /\ ~ Makes(d, tgt[c])
    BY <1>0, <1>1, <2>2 DEF OwnerInv
  <2>6. \A d \in Clients : \A t \in Slots :
           /\ Uses(d, t)'  => "USED" \in state'[t] /\ "ZOMBIE" \notin state'[t]
           /\ Makes(d, t)' => state'[t] = {"ALLOC"}
    BY <1>1, <1>3, <1>4, <1>5, <1>7, <1>9, <2>1, <2>2, <2>5
  <2> QED
    BY <1>8, <2>4, <2>6 DEF OwnerInv
\* ... and otherwise made or given back.
<1>12. CASE ~ (InstallScan(c) /\ Goto(c, "create")) /\ ~ InstallPublish(c)
  <2>1. held' = held
    BY <1>12 DEF InstallStep, InstallScan, InstallCreate, InstallCreateFails, InstallMutex,
       InstallMutexFails
  <2>2. \/ pc'[c] \notin Making
        \/ pc[c] \in Making /\ UNCHANGED <<tgt, state>>
    BY <1>1, <1>12 DEF InstallStep, InstallScan, InstallCreate, InstallCreateFails,
       InstallMutex, InstallMutexFails, CallerAt, Goto, Return, Making, SetLock, sharedVars
  <2>3. \A t \in Slots : Makes(c, t)' => Makes(c, t) /\ UNCHANGED state
    BY <2>2 DEF Makes
  <2>4. UNCHANGED state \/ pc[c] \in Making
    BY <1>1, <1>12 DEF InstallStep, InstallScan, InstallCreate, InstallCreateFails,
       InstallMutex, InstallMutexFails, CallerAt, Goto, Return, Making, SetLock, sharedVars
  <2>5. \A d \in Clients \ {c} : ~ UNCHANGED state => ~ Uses(d, tgt[c]) /\ ~ Makes(d, tgt[c])
    BY <1>0, <1>1, <2>4 DEF OwnerInv, Makes
  <2>6. \A d \in Clients, t \in Slots :
           /\ Uses(d, t)' => Uses(d, t) /\ "USED" \in state'[t] /\ "ZOMBIE" \notin state'[t]
           /\ Makes(d, t)' => Makes(d, t) /\ state'[t] = {"ALLOC"}
    BY <1>3, <1>4, <1>5, <1>7, <1>9, <2>1, <2>3, <2>5
  <2> QED
    BY <1>0, <1>8, <2>6, OwnersShrink
<1> QED
  BY <1>10, <1>11, <1>12

LEMMA WorkerOwner ==
  ASSUME TypeInv, SlotInv, WorkerStep \/ PollInterrupted
  PROVE  OwnerInv'
<1>0. OwnerInv /\ BitsInv /\ UNCHANGED <<callerVars, held>>
  BY WorkerFrame DEF SlotInv
<1>1. \A d \in Clients, t \in Slots : (Uses(d, t)' <=> Uses(d, t)) /\ (Makes(d, t)' <=> Makes(d, t))
  BY <1>0 DEF Uses, Busy, Makes, callerVars
<1>2. \A t \in Slots :
         \/ state'[t] = state[t]
         \/ "USED" \in state[t] /\ "USED" \in state'[t] /\ ("ZOMBIE" \in state'[t] => "ZOMBIE" \in state[t])
         \/ "ZOMBIE" \in state[t]
  BY <1>0, WorkerBits DEF BitsInv, AtTimer, TypeInv, TypeOK, SlotType
<1>3. \A d \in Clients, t \in Slots :
         /\ Uses(d, t)  => "USED" \in state[t] /\ "ZOMBIE" \notin state[t]
         /\ Makes(d, t) => state[t] = {"ALLOC"}
  BY <1>0 DEF OwnerInv
<1>4. \A d \in Clients, t \in Slots :
         /\ Uses(d, t)' => Uses(d, t) /\ "USED" \in state'[t] /\ "ZOMBIE" \notin state'[t]
         /\ Makes(d, t)' => Makes(d, t) /\ state'[t] = {"ALLOC"}
  BY <1>1, <1>2, <1>3
<1> QED
  BY <1>0, <1>4, OwnersShrink DEF OwnerInv, callerVars

\* A call that begins uses a timer its client had.
SameClient(d) == pc'[d] = pc[d] /\ op'[d] = op[d] /\ tgt'[d] = tgt[d] /\ held'[d] = held[d]

LEMMA EnterUses ==
  ASSUME TypeInv, EnterCall
  PROVE  /\ \A d \in Clients, t \in Slots : /\ Uses(d, t)' => Uses(d, t)
                                            /\ Makes(d, t)' => Makes(d, t)
         /\ \A d \in Clients : \/ SameClient(d)
                               \/ pc'[d] = "scan" /\ op'[d] = "install"
                               \/ \E o \in TimerOps, t \in Slots :
                                     /\ pc'[d] = Entry[o] /\ op'[d] = o /\ tgt'[d] = t
                                     /\ held'[d] = IF GivesUp(o, t) THEN held[d] \ {t} ELSE held[d]
<1> USE DEF TypeInv, TypeOK, CallerType, UseType, Callers
<1>1. ASSUME NEW c \in Clients, ClientInstall(c)
      PROVE  /\ pc'[c] = "scan" /\ op'[c] = "install" /\ UNCHANGED held
             /\ \A d \in Clients \ {c} : SameClient(d)
  BY <1>1 DEF ClientInstall, Begin, Entry, SameClient
<1>2. ASSUME NEW c \in Clients, NEW o \in TimerOps, NEW t \in Slots, ClientCall(c, o, t)
      PROVE  /\ t \in held[c] /\ held'[c] \subseteq held[c]
             /\ pc'[c] = Entry[o] /\ op'[c] = o /\ tgt'[c] = t
             /\ held'[c] = IF GivesUp(o, t) THEN held[c] \ {t} ELSE held[c]
             /\ \A d \in Clients \ {c} : SameClient(d)
  BY <1>2 DEF ClientCall, Begin, SameClient
<1>3. ASSUME NEW o \in TimerOps, CallbackCall(o)
      PROVE  \A d \in Clients : SameClient(d)
  BY <1>3, ThreadAssumption DEF CallbackCall, Begin, SameClient
<1>4. \A o \in TimerOps : Entry[o] \notin Making
  BY DEF Entry, TimerOps, Making
<1>5. CASE \E c \in Clients : ClientInstall(c)
  BY <1>1, <1>5 DEF Uses, Busy, Makes, Making, Starting, Ending, SameClient
<1>6. CASE \E c \in Clients : \E o \in TimerOps, t \in Slots : ClientCall(c, o, t)
  <2>1. PICK c \in Clients, o \in TimerOps, t \in Slots : ClientCall(c, o, t)
    BY <1>6
  <2>2. \A d \in Clients, u \in Slots : /\ Uses(d, u)' => Uses(d, u)
                                        /\ Makes(d, u)' => Makes(d, u)
    <3>1. ASSUME NEW d \in Clients \ {c}, NEW u \in Slots
          PROVE  (Uses(d, u)' => Uses(d, u)) /\ (Makes(d, u)' => Makes(d, u))
      BY <1>2, <2>1 DEF Uses, Busy, Makes, SameClient
    <3>2. ASSUME NEW u \in Slots
          PROVE  (Uses(c, u)' => Uses(c, u)) /\ ~ Makes(c, u)'
      <4>1. /\ pc'[c] = Entry[o] /\ tgt'[c] = t /\ t \in held[c]
            /\ u \in held'[c] => u \in held[c]
        BY <1>2, <2>1
      <4>2. Uses(c, u)' => u \in held'[c] \/ u = tgt'[c]
        BY DEF Uses, Busy
      <4> QED
        BY <1>4, <4>1, <4>2 DEF Uses, Makes
    <3> QED
      BY <3>1, <3>2
  <2>3. \A d \in Clients \ {c} : SameClient(d)
    BY <1>2, <2>1
  <2>4. /\ pc'[c] = Entry[o] /\ op'[c] = o /\ tgt'[c] = t
        /\ held'[c] = IF GivesUp(o, t) THEN held[c] \ {t} ELSE held[c]
    BY <1>2, <2>1
  <2> QED
    BY <2>2, <2>3, <2>4
<1>7. CASE \E o \in TimerOps : CallbackCall(o)
  BY <1>3, <1>7 DEF Uses, Busy, Makes, SameClient
<1> QED
  BY <1>5, <1>6, <1>7 DEF EnterCall

LEMMA NextOwner ==
  ASSUME TypeInv, SlotInv, Next
  PROVE  OwnerInv'
<1>0. OwnerInv /\ LifeInv
  BY DEF SlotInv
<1>1. CASE CtxInit \/ DeinitExit \/ DeinitStep
  <2>1. \A d \in Clients : pc'[d] = "idle" /\ held'[d] = {}
    BY <1>0, <1>1 DEF LifeInv, CtxInit, DeinitExit, DeinitStep, DeinitTrigger, DeinitJoin,
       DeinitCleanup, callerVars, useVars
  <2>2. \A d \in Clients, t \in Slots : ~ Uses(d, t)' /\ ~ Makes(d, t)'
    BY <2>1 DEF Uses, Busy, Makes, Making, Starting, Ending
  <2> QED
    BY <2>1, <2>2 DEF OwnerInv
<1>2. ASSUME NEW c \in Callers, CallerStep(c) PROVE OwnerInv'
  BY <1>2, CallerOwner
<1>3. ASSUME NEW c \in Clients, InstallStep(c) PROVE OwnerInv'
  BY <1>3, InstallOwner
<1>4. CASE WorkerStep \/ PollInterrupted
  BY <1>4, WorkerOwner
<1>5. CASE EnterCall
  <2>1. UNCHANGED state
    BY <1>5, EnterFrame DEF sharedVars
  <2>2. \A d \in Clients : pc'[d] # "idle" /\ op'[d] = "uninstall" => tgt'[d] \notin held'[d]
    <3>1. ASSUME NEW d \in Clients, SameClient(d), pc'[d] # "idle", op'[d] = "uninstall"
          PROVE  tgt'[d] \notin held'[d]
      BY <1>0, <3>1 DEF OwnerInv, SameClient
    <3>2. ASSUME NEW d \in Clients, NEW o \in TimerOps, NEW t \in Slots,
                 tgt'[d] = t, op'[d] = o, op'[d] = "uninstall",
                 held'[d] = IF GivesUp(o, t) THEN held[d] \ {t} ELSE held[d]
          PROVE  tgt'[d] \notin held'[d]
      BY <3>2 DEF GivesUp
    <3>3. ASSUME NEW d \in Clients
          PROVE  pc'[d] # "idle" /\ op'[d] = "uninstall" => tgt'[d] \notin held'[d]
      <4>1. CASE SameClient(d)
        BY <3>1, <4>1
      <4>2. CASE op'[d] = "install"
        BY <4>2
      <4>3. CASE \E o \in TimerOps, t \in Slots :
                    /\ op'[d] = o /\ tgt'[d] = t
                    /\ held'[d] = IF GivesUp(o, t) THEN held[d] \ {t} ELSE held[d]
        BY <3>2, <4>3
      <4> QED
        BY <1>5, <4>1, <4>2, <4>3, EnterUses
    <3> QED
      BY <3>3
  <2> QED
    BY <1>0, <1>5, <2>1, <2>2, EnterUses, OwnersShrink DEF OwnerInv
<1>6. CASE \E f \in Fds : Expire(f)
  BY <1>0, <1>6 DEF Expire, SetTfd, callerVars, useVars, OwnerInv, Uses, Busy, Makes
<1> QED
  BY <1>1, <1>2, <1>3, <1>4, <1>5, <1>6, NextCases

LEMMA NextSelf ==
  ASSUME TypeInv, SlotInv, Next
  PROVE  SelfInv'
<1>0. SelfInv /\ OwnerInv /\ BitsInv /\ LifeInv /\ WorkerInv
  BY DEF SlotInv
<1> USE DEF InCallback
<1>1. CASE CtxInit \/ DeinitExit \/ DeinitStep
  <2>1. \A d \in Clients : pc'[d] = "idle" /\ held'[d] = {}
    BY <1>0, <1>1 DEF LifeInv, CtxInit, DeinitExit, DeinitStep, DeinitTrigger, DeinitJoin,
       DeinitCleanup, callerVars, useVars
  <2>2. \A d \in Clients, t \in Slots : ~ Uses(d, t)'
    BY <2>1 DEF Uses, Busy, Starting, Ending
  <2> QED
    BY <2>2 DEF SelfInv
<1>2. ASSUME NEW c \in Callers, CallerStep(c) PROVE SelfInv'
  <2>1. UNCHANGED <<wpc, firing, cb, held>> /\ Others(c)
    BY <1>2, CallerFrame DEF workerVars
  <2>2. pc'[c] \in Starting => pc[c] \in Starting /\ tgt'[c] = tgt[c]
    BY <1>2 DEF Starting, CallerStep, CallerAt, StartCheck, RestartClear, RestartSettime,
       RestartSched, RestartTrigger, StopClear, StopSettime, StopTrigger, UninstallLock,
       UninstallUnlock, UninstallZombie, Goto, Return, TypeInv, TypeOK, CallerType
  <2>3. pc[c] = "r_sched" => pc'[c] = "r_trigger"
    BY <1>2 DEF CallerStep, CallerAt, StartCheck, RestartClear, RestartSettime,
       RestartSched, RestartTrigger, StopClear, StopSettime, StopTrigger, UninstallLock,
       UninstallUnlock, UninstallZombie, Goto, TypeInv, TypeOK, CallerType
  <2>4. ASSUME NEW d \in Clients, NEW t \in Slots, cb[t] = "uninstall", Uses(d, t)'
        PROVE  /\ state'[t] \cap {"ACTIVE", "SCHED"} = {}
               /\ ~ InCallback(t)'
               /\ pc'[d] \in Starting /\ tgt'[d] = t => t \notin held'[d]
    <3>1. Uses(d, t)
      BY <1>0, <1>2, <2>4, CallerUses
    <3>2. /\ state[t] \cap {"ACTIVE", "SCHED"} = {}
          /\ ~ InCallback(t)
          /\ pc[d] \in Starting /\ tgt[d] = t => t \notin held[d]
      BY <1>0, <2>4, <3>1 DEF SelfInv
    <3>3. ~ (pc[c] = "r_sched" /\ t = tgt[c])
      <4>1. CASE d = c
        BY <2>1, <2>3, <2>4, <3>2, <4>1 DEF Uses, Busy, Starting, Ending
      <4>2. CASE c = Worker
        BY <1>0, <3>2, <4>2 DEF WorkerInv
      <4>3. CASE c \in Clients /\ c # d /\ pc[c] = "r_sched" /\ t = tgt[c]
        <5>1. Uses(c, t)
          BY <4>3 DEF Uses, Busy, Starting
        <5> QED
          BY <1>0, <3>1, <4>3, <5>1 DEF OwnerInv
      <4> QED
        BY <4>1, <4>2, <4>3 DEF Callers
    <3>4. state'[t] \cap {"ACTIVE", "SCHED"} = {}
      BY <1>2, <3>2, <3>3, CallerBits DEF TypeInv, TypeOK, SlotType
    <3>5. pc'[d] \in Starting /\ tgt'[d] = t => t \notin held'[d]
      BY <2>1, <2>2, <3>2 DEF Others, Callers
    <3> QED
      BY <2>1, <3>2, <3>4, <3>5
  <2> QED
    BY <2>1, <2>4 DEF SelfInv
<1>3. ASSUME NEW c \in Clients, InstallStep(c) PROVE SelfInv'
  <2>1. UNCHANGED <<wpc, firing>> /\ tgt[c] \in Slots /\ Others(c) /\ c \in Callers
    BY <1>0, <1>3, InstallFrame, InstallBits DEF workerVars
  <2>2. /\ pc'[c] \notin Starting \cup Ending \cup {"s_clear", "u_lock", "u_zombie"}
        /\ \/ UNCHANGED held
           \/ /\ held' = [held EXCEPT ![c] = @ \cup {tgt[c]}]
              /\ state' = [state EXCEPT ![tgt[c]] = {"ALLOC", "USED"}]
              /\ state[tgt[c]] = {"ALLOC"} /\ UNCHANGED cb
    <3>1. pc[c] \in Making => state[tgt[c]] = {"ALLOC"}
      BY <1>0, <2>1 DEF OwnerInv, Makes
    <3> QED
      BY <1>3, <2>1, <3>1 DEF InstallStep, InstallScan, InstallCreate, InstallCreateFails,
         InstallMutex, InstallMutexFails, InstallPublish, CallerAt, Goto, Return, SetState,
         mask_set, Starting, Ending, Making, TypeInv, TypeOK, CallerType
  <2>3. ASSUME NEW d \in Clients, NEW t \in Slots, cb'[t] = "uninstall", Uses(d, t)'
        PROVE  /\ state'[t] \cap {"ACTIVE", "SCHED"} = {}
               /\ ~ InCallback(t)'
               /\ pc'[d] \in Starting /\ tgt'[d] = t => t \notin held'[d]
    <3>1. CASE Uses(d, t)
      <4>1. t # tgt[c] \/ UNCHANGED <<state, cb>>
        BY <1>0, <1>3, <3>1, InstallBits DEF OwnerInv
      <4>2. cb[t] = "uninstall" /\ state'[t] = state[t]
        BY <1>0, <1>3, <2>1, <2>3, <4>1, InstallBits DEF TypeInv, TypeOK, SlotType
      <4>3. /\ state[t] \cap {"ACTIVE", "SCHED"} = {}
            /\ ~ InCallback(t)
            /\ pc[d] \in Starting /\ tgt[d] = t => t \notin held[d]
        BY <1>0, <3>1, <4>2 DEF SelfInv
      <4>4. pc'[d] \in Starting /\ tgt'[d] = t => pc[d] \in Starting /\ tgt[d] = t /\ held'[d] = held[d]
        BY <2>1, <2>2 DEF Others, Callers, TypeInv, TypeOK, UseType
      <4> QED
        BY <2>1, <4>2, <4>3, <4>4
    <3>2. CASE ~ Uses(d, t)
      <4>1. d = c /\ t \in held'[c] /\ t \notin held[c]
        <5>1. d # c => held'[d] = held[d]
          BY <2>1, <2>2 DEF TypeInv, TypeOK, UseType
        <5>2. d # c => (Uses(d, t)' <=> Uses(d, t))
          BY <2>1, <5>1 DEF Uses, Busy, Others, Callers
        <5> QED
          BY <2>2, <2>3, <3>2, <5>2 DEF Uses, Busy
      <4>2. t = tgt[c] /\ state[t] = {"ALLOC"} /\ state'[t] = {"ALLOC", "USED"}
        BY <2>1, <2>2, <4>1 DEF TypeInv, TypeOK, SlotType, UseType
      <4> QED
        BY <1>0, <2>1, <2>2, <4>1, <4>2 DEF BitsInv, AtTimer
    <3> QED
      BY <3>1, <3>2
  <2> QED
    BY <2>3 DEF SelfInv
<1>4. CASE WorkerStep \/ PollInterrupted
  <2>1. UNCHANGED <<callerVars, held, cb>>
    BY <1>4, WorkerFrame
  <2>2. ASSUME NEW t \in Slots, state[t] \cap {"ACTIVE", "SCHED"} = {}
        PROVE  state'[t] \cap {"ACTIVE", "SCHED"} = {}
    BY <1>0, <1>4, <2>2, WorkerBits DEF TypeInv, TypeOK, SlotType
  <2>3. ASSUME NEW t \in Slots, InCallback(t)'
        PROVE  InCallback(t) \/ (wpc = "alarm_test" /\ firing = t /\ "ACTIVE" \in state[t])
    BY <1>4, <2>3 DEF WorkerStep, PollInterrupted, WorkerAt, WGoto, WNext, WorkerTop,
       PrepareTest,
       CleanupClose, CleanupState, CleanupMutex, PrepareActive, PrepareCas, PreparePush,
       PrepareUnsched, Poll, Polled, ServiceRead, ServiceLookup, AlarmLock, AlarmTest,
       CallbackReturn, AlarmUnlock, AlarmDone, mask_test, mask_get
  <2> QED
    BY <1>0, <2>1, <2>2, <2>3 DEF SelfInv, Uses, Busy, callerVars
<1>5. CASE EnterCall
  <2>1. UNCHANGED <<state, cb, firing>> /\ (wpc' = wpc \/ wpc = "callback")
    BY <1>5, EnterFrame DEF sharedVars, workerVars, WGoto, Callers
  <2>2. ASSUME NEW d \in Clients, NEW t \in Slots, cb[t] = "uninstall", Uses(d, t)',
               pc'[d] \in Starting, tgt'[d] = t
        PROVE  t \notin held'[d]
    <3>1. Uses(d, t)
      BY <1>5, <2>2, EnterUses
    <3>2. CASE SameClient(d)
      BY <1>0, <2>2, <3>1, <3>2 DEF SelfInv, SameClient
    <3>3. ASSUME NEW o \in TimerOps, pc'[d] = Entry[o],
                 held'[d] = IF GivesUp(o, t) THEN held[d] \ {t} ELSE held[d]
          PROVE  t \notin held'[d]
      BY <2>2, <3>3 DEF GivesUp, Entry, TimerOps, Starting
    <3> QED
      BY <1>5, <2>2, <3>2, <3>3, EnterUses DEF Starting
  <2> QED
    BY <1>0, <1>5, <2>1, <2>2, EnterUses DEF SelfInv
<1>6. CASE \E f \in Fds : Expire(f)
  BY <1>0, <1>6 DEF Expire, SetTfd, workerVars, callerVars, useVars, SelfInv, Uses, Busy
<1> QED
  BY <1>1, <1>2, <1>3, <1>4, <1>5, <1>6, NextCases

-----------------------------------------------------------------------------
(* Every step, part by part of LockInv.                                     *)

\* What a call does to the mutex.  In its own callback the worker leaves it alone.
LEMMA CallerLock ==
  ASSUME TypeInv, SlotInv, NEW c \in Callers, CallerStep(c)
  PROVE  \/ UNCHANGED lock
         \/ /\ c \in Clients /\ tgt[c] \in Slots /\ pc[c] = "u_lock"
            /\ lock[tgt[c]] = Free /\ lock' = [lock EXCEPT ![tgt[c]] = c]
         \/ /\ c \in Clients /\ tgt[c] \in Slots /\ pc[c] = "u_unlock" /\ pc'[c] = "u_zombie"
            /\ lock[tgt[c]] = c /\ lock' = [lock EXCEPT ![tgt[c]] = Free]
<1> USE DEF TypeInv, TypeOK, SlotType, CallerType, IndexInv, CallerIndex
<1>1. c = Worker /\ pc[c] # "idle" => InOwnCallback(c, tgt[c])
  BY DEF SlotInv, WorkerInv, InOwnCallback
<1>2. c \in Clients \/ c = Worker
  BY DEF Callers
<1>3. CASE UninstallLock(c)
  BY <1>1, <1>2, <1>3 DEF UninstallLock, CallerAt, SetLock, Locked, CanLock
<1>4. CASE UninstallUnlock(c)
  BY <1>1, <1>2, <1>4 DEF UninstallUnlock, CallerAt, SetLock, Unlocked, Goto
<1>5. CASE ~ UninstallLock(c) /\ ~ UninstallUnlock(c)
  BY <1>5 DEF CallerStep, StartCheck, RestartClear, RestartSettime, RestartSched,
     RestartTrigger, StopClear, StopSettime, StopTrigger, UninstallZombie, SetState, SetTfd,
     sharedVars
<1> QED
  BY <1>3, <1>4, <1>5

LEMMA InstallLock ==
  ASSUME TypeInv, NEW c \in Clients, InstallStep(c)
  PROVE  \/ UNCHANGED lock
         \/ pc[c] = "mutex" /\ lock' = [lock EXCEPT ![tgt[c]] = Free]
  BY DEF InstallStep, InstallScan, InstallCreate, InstallCreateFails, InstallMutex,
     InstallMutexFails, InstallPublish, CallerAt, SetState, SetLock, sharedVars

LEMMA WorkerLock ==
  ASSUME TypeInv, WorkerStep \/ PollInterrupted
  PROVE  \/ UNCHANGED lock
         \/ /\ wpc = "cleanup_mutex" /\ wpc' = "prepare" /\ wi \in Slots /\ lock[wi] = Free
            /\ lock' = [lock EXCEPT ![wi] = NoMutex]
         \/ /\ wpc = "lock" /\ firing \in Slots /\ lock[firing] = Free
            /\ lock' = [lock EXCEPT ![firing] = Worker]
         \/ /\ wpc = "unlock" /\ wpc' = "unactive" /\ firing \in Slots /\ lock[firing] = Worker
            /\ lock' = [lock EXCEPT ![firing] = Free]
<1> USE DEF TypeInv, TypeOK, SlotType, IndexInv, WorkerIndex, AtSlot, AtTimer, WorkerAt
<1>1. CASE CleanupMutex
  BY <1>1 DEF CleanupMutex, SetLock, Destroyed, WNext
<1>2. CASE AlarmLock
  BY <1>2 DEF AlarmLock, SetLock, Locked, CanLock, WGoto
<1>3. CASE AlarmUnlock
  BY <1>3 DEF AlarmUnlock, SetLock, Unlocked, WGoto
<1>4. CASE ~ CleanupMutex /\ ~ AlarmLock /\ ~ AlarmUnlock
  BY <1>4 DEF WorkerStep, PollInterrupted, WorkerTop, PrepareTest, CleanupClose, CleanupState,
     PrepareActive, PrepareCas, PreparePush, PrepareUnsched, Poll, Polled, ServiceRead,
     ServiceLookup, AlarmTest, CallbackReturn, AlarmDone, SetState, SetTfd, sharedVars
<1> QED
  BY <1>1, <1>2, <1>3, <1>4

\* The worker enters its critical section by taking the lock.
LEMMA WorkerAlarm ==
  ASSUME TypeInv, WorkerStep \/ PollInterrupted, wpc' \in AtAlarm
  PROVE  /\ UNCHANGED firing /\ firing \in Slots
         /\ \/ wpc \in AtAlarm \ {"unlock"}
            \/ wpc = "lock" /\ lock'[firing] \in {Worker, NoMutex}
<1> USE DEF AtAlarm, TypeInv, TypeOK, SlotType, IndexInv, WorkerIndex, AtTimer, WorkerAt, WGoto,
        WNext
<1>1. CASE AlarmLock
  BY <1>1 DEF AlarmLock, SetLock, Locked, CanLock
<1>2. CASE AlarmTest \/ CallbackReturn
  BY <1>2 DEF AlarmTest, CallbackReturn
<1>3. CASE ~ AlarmLock /\ ~ AlarmTest /\ ~ CallbackReturn
  BY <1>3 DEF WorkerStep, PollInterrupted, WorkerTop, PrepareTest, CleanupClose, CleanupState,
     CleanupMutex, PrepareActive, PrepareCas, PreparePush, PrepareUnsched, Poll, Polled,
     ServiceRead, ServiceLookup, AlarmUnlock, AlarmDone
<1> QED
  BY <1>1, <1>2, <1>3

LEMMA NextHolder ==
  ASSUME TypeInv, SlotInv, LockInv, Next
  PROVE  HolderInv'
<1>0. HolderInv /\ LifeInv /\ OwnerInv /\ BitsInv /\ WorkerInv
  BY DEF SlotInv, LockInv
<1> USE ThreadAssumption DEF TypeInv, TypeOK, SlotType, IndexInv, CallerIndex, WorkerIndex
<1>a. AtAlarm \subseteq AtTimer /\ "exited" \notin AtAlarm
  BY DEF AtAlarm, AtTimer
<1>1. CASE CtxInit \/ DeinitExit \/ DeinitStep
  <2>1. /\ \A d \in Clients : pc'[d] = "idle"
        /\ UNCHANGED <<wpc, firing, lock>> \/ wpc' \in {"exited", "top"}
    <3> USE DEF LifeInv, callerVars, workerVars, sharedVars
    <3>1. CASE CtxInit
      BY <1>0, <3>1 DEF CtxInit
    <3>2. CASE DeinitExit
      BY <1>0, <3>2 DEF DeinitExit
    <3>3. CASE DeinitStep
      BY <1>0, <3>3 DEF DeinitStep, DeinitTrigger, DeinitJoin, DeinitCleanup
    <3> QED
      BY <1>1, <3>1, <3>2, <3>3
  <2> QED
    BY <1>0, <2>1 DEF HolderInv, AtAlarm, Ending
<1>2. ASSUME NEW c \in Callers, CallerStep(c) PROVE HolderInv'
  <2>1. UNCHANGED <<wpc, firing>> /\ Others(c)
    BY <1>2, CallerFrame DEF workerVars
  <2>2. wpc \in AtAlarm => firing \in Slots /\ lock'[firing] \in {Worker, NoMutex}
    BY <1>0, <1>2, <1>a, CallerLock DEF HolderInv, Free, NoMutex, Callers
  <2>3. ASSUME NEW d \in Clients, d # c, pc'[d] \in Ending \cup {"s_clear"}, op'[d] = "uninstall"
        PROVE  lock'[tgt'[d]] \in {d, NoMutex}
    BY <1>0, <1>2, <2>1, <2>3, CallerLock DEF HolderInv, Others, Free, NoMutex, Callers, Ending
  <2>4. ASSUME c \in Clients, pc'[c] \in Ending \cup {"s_clear"}, op'[c] = "uninstall"
        PROVE  lock'[tgt'[c]] \in {c, NoMutex}
    <3>1. op[c] = "uninstall" /\ tgt'[c] = tgt[c] /\ tgt[c] \in Slots
          /\ \/ pc[c] \in Ending \cup {"s_clear"}
             \/ CanLock(tgt[c]) /\ SetLock(Locked(c, tgt[c]))
      <4>1. pc'[c] # "idle" /\ ~ Return(c)
        BY <2>4 DEF Ending, Return, CallerType
      <4>2. op[c] = "uninstall" /\ tgt'[c] = tgt[c] /\ tgt[c] \in Slots
        BY <1>0, <1>2, <2>4, <4>1, CallerMoves, CallerFrame DEF Goto
      <4>3. CASE UninstallLock(c)
        BY <2>4, <4>2, <4>3 DEF UninstallLock, InOwnCallback
      <4>4. CASE ~ UninstallLock(c)
        BY <1>2, <2>4, <4>1, <4>4 DEF CallerStep, CallerAt, StartCheck, RestartClear,
           RestartSettime, RestartSched, RestartTrigger, StopClear, StopSettime, StopTrigger,
           UninstallUnlock, UninstallZombie, Goto, CallerType, Ending
      <4> QED
        BY <4>2, <4>3, <4>4
    <3>2. CASE pc[c] \in Ending \cup {"s_clear"}
      <4>1. pc'[c] # "u_zombie"
        BY <2>4 DEF Ending
      <4> QED
        BY <1>0, <1>2, <2>4, <3>1, <3>2, <4>1, CallerLock DEF HolderInv, Ending
    <3>3. CASE CanLock(tgt[c]) /\ SetLock(Locked(c, tgt[c]))
      BY <3>1, <3>3 DEF CanLock, SetLock, Locked
    <3> QED
      BY <3>1, <3>2, <3>3
  <2> QED
    BY <2>1, <2>2, <2>3, <2>4 DEF HolderInv
<1>3. ASSUME NEW c \in Clients, InstallStep(c) PROVE HolderInv'
  <2>1. UNCHANGED <<wpc, firing>> /\ Others(c) /\ c \in Callers /\ pc[c] \in Making \cup {"scan"}
    BY <1>3, InstallFrame DEF workerVars
  <2>2. \/ UNCHANGED lock
        \/ Makes(c, tgt[c]) /\ tgt[c] \in Slots /\ lock' = [lock EXCEPT ![tgt[c]] = Free]
    BY <1>3, <2>1, InstallLock DEF Makes, Making
  <2>3. wpc \in AtAlarm => lock'[firing] \in {Worker, NoMutex}
    BY <1>0, <1>a, <2>1, <2>2 DEF HolderInv, OwnerInv, BitsInv
  <2>4. ASSUME NEW d \in Clients, pc'[d] \in Ending \cup {"s_clear"}, op'[d] = "uninstall"
        PROVE  lock'[tgt'[d]] \in {d, NoMutex}
    <3>1. d # c
      BY <1>3, <2>4 DEF InstallStep, InstallScan, InstallCreate, InstallCreateFails,
         InstallMutex, InstallMutexFails, InstallPublish, Goto, Return, Ending, CallerAt,
         CallerType, Callers
    <3>2. Uses(d, tgt[d]) /\ tgt'[d] = tgt[d] /\ tgt[d] \in Slots
          /\ lock[tgt[d]] \in {d, NoMutex}
      BY <1>0, <2>1, <2>4, <3>1 DEF Others, Callers, HolderInv, Uses, Busy, Ending
    <3> QED
      BY <1>0, <2>2, <3>1, <3>2 DEF OwnerInv
  <2> QED
    BY <2>1, <2>3, <2>4 DEF HolderInv
<1>4. CASE WorkerStep \/ PollInterrupted
  <2>1. UNCHANGED callerVars
    BY <1>4, WorkerFrame
  <2>2. wpc' \in AtAlarm => lock'[firing'] \in {Worker, NoMutex}
    BY <1>0, <1>4, WorkerLock, WorkerAlarm DEF HolderInv, AtAlarm
  <2>3. ASSUME NEW d \in Clients, pc[d] \in Ending \cup {"s_clear"}, op[d] = "uninstall"
        PROVE  lock'[tgt[d]] \in {d, NoMutex}
    BY <1>0, <1>4, <2>3, WorkerLock DEF HolderInv, Free, NoMutex, Callers, Ending
  <2> QED
    BY <2>1, <2>2, <2>3 DEF HolderInv, callerVars
<1>5. CASE EnterCall
  <2>1. UNCHANGED <<lock, firing>> /\ (wpc' = wpc \/ wpc = "callback")
    BY <1>5, EnterFrame DEF sharedVars, workerVars, WGoto, Callers
  <2>2. ASSUME NEW d \in Clients, pc'[d] \in Ending \cup {"s_clear"}, op'[d] = "uninstall"
        PROVE  SameClient(d)
    <3>1. ASSUME NEW o \in TimerOps, pc'[d] = Entry[o], op'[d] = o PROVE FALSE
      BY <2>2, <3>1 DEF Ending, Entry, TimerOps
    <3>2. pc'[d] # "scan"
      BY <2>2 DEF Ending
    <3> QED
      BY <1>5, <3>1, <3>2, EnterUses
  <2> QED
    BY <1>0, <2>1, <2>2 DEF HolderInv, SameClient, AtAlarm
<1>6. CASE \E f \in Fds : Expire(f)
  BY <1>0, <1>6 DEF Expire, SetTfd, workerVars, callerVars, HolderInv
<1> QED
  BY <1>1, <1>2, <1>3, <1>4, <1>5, <1>6, NextCases

\* A slot that is idle, and that nobody may start, stays idle.
LEMMA WorkerQuiet ==
  ASSUME TypeInv, BitsInv, WorkerStep \/ PollInterrupted, NEW t \in Slots, Idle(t)
  PROVE  Idle(t)'
<1>1. state'[t] \cap {"ACTIVE", "SCHED"} = {}
  BY WorkerBits DEF Idle, TypeInv, TypeOK, SlotType
<1>2. ~ InCallback(t)'
  <2>1. ASSUME InCallback(t)'
        PROVE  InCallback(t) \/ (firing = t /\ "ACTIVE" \in state[t])
    BY <2>1 DEF InCallback, WorkerStep, PollInterrupted, WorkerAt, WGoto, WNext, WorkerTop,
       PrepareTest, CleanupClose, CleanupState, CleanupMutex, PrepareActive, PrepareCas,
       PreparePush, PrepareUnsched, Poll, Polled, ServiceRead, ServiceLookup, AlarmLock,
       AlarmTest, CallbackReturn, AlarmUnlock, AlarmDone, mask_test, mask_get
  <2> QED
    BY <2>1 DEF Idle
<1> QED
  BY <1>1, <1>2 DEF Idle

LEMMA CallerQuiet ==
  ASSUME TypeInv, SlotInv, NEW c \in Callers, CallerStep(c), NEW t \in Slots, Idle(t),
         "ZOMBIE" \in state[t] \/ \E d \in Clients : Uses(d, t) /\ pc[d] # "r_sched"
  PROVE  Idle(t)'
<1>1. UNCHANGED <<wpc, firing>>
  BY CallerFrame DEF workerVars
<1>2. ~ (pc[c] = "r_sched" /\ t = tgt[c])
  <2>1. CASE c = Worker
    BY <2>1 DEF SlotInv, WorkerInv, Idle, InCallback
  <2>2. CASE c \in Clients
    BY <2>2, CallerTarget DEF SlotInv, OwnerInv
  <2> QED
    BY <2>1, <2>2 DEF Callers
<1> QED
  BY <1>1, <1>2, CallerBits DEF Idle, InCallback, TypeInv, TypeOK, SlotType

LEMMA NextQuiet ==
  ASSUME TypeInv, SlotInv, LockInv, Next
  PROVE  QuietInv'
<1>0. QuietInv /\ HolderInv /\ LifeInv /\ OwnerInv /\ BitsInv /\ WorkerInv
  BY DEF SlotInv, LockInv
<1> USE DEF TypeInv, TypeOK, SlotType, IndexInv, CallerIndex, WorkerIndex
<1>a. \A d \in Clients, t \in Slots : Leaving(d, t) => Uses(d, t) /\ pc[d] # "r_sched"
  BY DEF Leaving, Uses, Busy, Ending
<1>1. CASE CtxInit \/ DeinitExit \/ DeinitStep
  <2>1. \A d \in Clients, t \in Slots : ~ Leaving(d, t)'
    BY <1>0, <1>1 DEF LifeInv, CtxInit, DeinitExit, DeinitStep, DeinitTrigger, DeinitJoin,
       DeinitCleanup, callerVars, Leaving, Ending
  <2>2. \A t \in Slots :
           \/ lock'[t] = NoMutex
           \/ state'[t] = state[t] /\ cb'[t] = cb[t] /\ lock'[t] = lock[t]
              /\ UNCHANGED <<wpc, firing>>
    <3> USE DEF sharedVars, workerVars
    <3>1. CASE CtxInit
      BY <3>1 DEF CtxInit
    <3>2. CASE DeinitExit
      BY <3>2 DEF DeinitExit
    <3>3. CASE DeinitStep
      BY <3>3 DEF DeinitStep, DeinitTrigger, DeinitJoin, DeinitCleanup
    <3> QED
      BY <1>1, <3>1, <3>2, <3>3
  <2> QED
    BY <1>0, <2>1, <2>2 DEF QuietInv, Idle, InCallback
<1>2. ASSUME NEW c \in Callers, CallerStep(c) PROVE QuietInv'
  <2>1. UNCHANGED <<wpc, firing, cb>> /\ Others(c) /\ pc[c] # "idle"
    BY <1>2, CallerFrame DEF workerVars
  <2>2. \A t \in Slots : lock'[t] # NoMutex => lock[t] # NoMutex
    BY <1>2, CallerLock, ThreadAssumption DEF Callers, Free, NoMutex
  <2>3. ASSUME NEW d \in Clients, NEW t \in Slots, Leaving(d, t), lock[t] # NoMutex
        PROVE  Idle(t)'
    BY <1>0, <1>2, <1>a, <2>3, CallerQuiet DEF QuietInv
  <2>4. ASSUME NEW d \in Clients, NEW t \in Slots, Leaving(d, t)', ~ Leaving(d, t),
               lock[t] # NoMutex
        PROVE  Idle(t)'
    <3>1. d = c
      BY <2>1, <2>4 DEF Others, Leaving, Callers
    <3>2. pc'[c] # "idle" /\ ~ Return(c)
      BY <2>4, <3>1 DEF Leaving, Ending, Return, CallerType
    <3>3. op[c] = "uninstall" /\ tgt'[c] = tgt[c] /\ tgt[c] = t
      BY <1>0, <1>2, <2>4, <3>1, <3>2, CallerMoves DEF Goto, Leaving
    <3>4. StopClear(c)
      BY <1>2, <2>4, <3>1, <3>2, <3>3 DEF Leaving, Ending, CallerStep, CallerAt, StartCheck,
         RestartClear, RestartSettime, RestartSched, RestartTrigger, StopClear, StopSettime,
         StopTrigger, UninstallLock, UninstallUnlock, UninstallZombie, Goto, CallerType
    <3>5. state'[t] \cap {"ACTIVE", "SCHED"} = {} /\ pc[c] = "s_clear"
      BY <3>3, <3>4 DEF StopClear, CallerAt, SetState, mask_clear
    <3>6. lock[t] = c
      BY <1>0, <2>4, <3>1, <3>3, <3>5 DEF HolderInv
    <3>7. ~ InCallback(t)
      BY <1>0, <3>1, <3>6, ThreadAssumption DEF HolderInv, InCallback, AtAlarm, Callers
    <3> QED
      BY <2>1, <3>5, <3>7 DEF Idle, InCallback
  <2>5. ASSUME NEW t \in Slots, "ZOMBIE" \in state'[t], cb[t] # "uninstall", lock[t] # NoMutex
        PROVE  Idle(t)'
    <3>1. CASE "ZOMBIE" \in state[t]
      BY <1>0, <1>2, <2>5, <3>1, CallerQuiet DEF QuietInv
    <3>2. CASE "ZOMBIE" \notin state[t]
      <4>1. pc[c] = "u_zombie" /\ t = tgt[c]
        BY <1>2, <2>5, <3>2, CallerBits
      <4>2. op[c] = "uninstall" /\ c # Worker
        BY <1>0, <2>5, <4>1 DEF WorkerInv, InUninstall
      <4>3. c \in Clients /\ Leaving(c, t)
        BY <4>1, <4>2 DEF Leaving, Callers
      <4> QED
        BY <2>3, <2>5, <4>3
    <3> QED
      BY <3>1, <3>2
  <2> QED
    BY <2>1, <2>2, <2>3, <2>4, <2>5 DEF QuietInv
<1>3. ASSUME NEW c \in Clients, InstallStep(c) PROVE QuietInv'
  <2>1. UNCHANGED <<wpc, firing>> /\ Others(c) /\ c \in Callers /\ pc[c] \in Making \cup {"scan"}
    BY <1>3, InstallFrame DEF workerVars
  <2>2. ASSUME NEW d \in Clients, NEW t \in Slots, Leaving(d, t)'
        PROVE  Leaving(d, t)
    <3>1. d # c
      BY <1>3, <2>2 DEF InstallStep, InstallScan, InstallCreate, InstallCreateFails,
         InstallMutex, InstallMutexFails, InstallPublish, Goto, Return, Ending, CallerAt,
         CallerType, Callers, Leaving
    <3> QED
      BY <2>1, <2>2, <3>1 DEF Others, Callers, Leaving
  <2>3. ASSUME NEW t \in Slots,
               (\E d \in Clients : Leaving(d, t)) \/ "ZOMBIE" \in state'[t]
        PROVE  state'[t] = state[t] /\ lock'[t] = lock[t] /\ cb'[t] = cb[t]
    <3>1. (\E d \in Clients : Uses(d, t)) \/ "ZOMBIE" \in state'[t]
      BY <1>a, <2>3
    <3>2. "USED" \in state[t] \/ "ZOMBIE" \in state'[t]
      BY <1>0, <3>1 DEF OwnerInv
    <3>3. t # tgt[c] \/ UNCHANGED <<state, cb>>
      BY <1>0, <1>3, <3>2, InstallBits DEF BitsInv
    <3>4. "USED" \in state[t]
      BY <1>0, <1>3, <3>2, <3>3, InstallBits DEF BitsInv
    <3>5. pc[c] = "mutex" => t # tgt[c]
      BY <1>0, <3>4 DEF OwnerInv, Makes, Making
    <3> QED
      BY <1>0, <1>3, <3>3, <3>5, InstallBits, InstallLock
  <2> QED
    BY <1>0, <2>1, <2>2, <2>3 DEF QuietInv, Idle, InCallback
<1>4. CASE WorkerStep \/ PollInterrupted
  <2>1. UNCHANGED <<callerVars, cb>>
    BY <1>4, WorkerFrame
  <2>2. \A t \in Slots : lock'[t] # NoMutex => lock[t] # NoMutex
    BY <1>4, WorkerLock, ThreadAssumption DEF Callers, Free, NoMutex
  <2>3. \A t \in Slots : "ZOMBIE" \in state'[t] => "ZOMBIE" \in state[t]
    BY <1>0, <1>4, WorkerBits
  <2>4. \A t \in Slots : Idle(t) => Idle(t)'
    BY <1>0, <1>4, WorkerQuiet
  <2> QED
    BY <1>0, <2>1, <2>2, <2>3, <2>4 DEF QuietInv, Leaving, callerVars
<1>5. CASE EnterCall
  <2>1. UNCHANGED <<state, cb, lock, firing>> /\ (wpc' = wpc \/ wpc = "callback")
    BY <1>5, EnterFrame DEF sharedVars, workerVars, WGoto, Callers
  <2>2. ASSUME NEW d \in Clients, NEW t \in Slots, Leaving(d, t)' PROVE Leaving(d, t)
    <3>1. ASSUME NEW o \in TimerOps, pc'[d] = Entry[o], op'[d] = o PROVE FALSE
      BY <2>2, <3>1 DEF Leaving, Ending, Entry, TimerOps
    <3>2. pc'[d] # "scan"
      BY <2>2 DEF Leaving, Ending
    <3>3. SameClient(d)
      BY <1>5, <3>1, <3>2, EnterUses
    <3> QED
      BY <2>2, <3>3 DEF SameClient, Leaving
  <2> QED
    BY <1>0, <2>1, <2>2 DEF QuietInv, Idle, InCallback
<1>6. CASE \E f \in Fds : Expire(f)
  BY <1>0, <1>6 DEF Expire, SetTfd, workerVars, callerVars, QuietInv, Idle, InCallback, Leaving
<1> QED
  BY <1>1, <1>2, <1>3, <1>4, <1>5, <1>6, NextCases

-----------------------------------------------------------------------------

LEMMA InitIInv == Init => IInv
<1> SUFFICES ASSUME Init PROVE SlotInv /\ LockInv
  BY InitTypeInv DEF IInv
<1>1. \A c \in Clients, t \in Slots : ~ Uses(c, t) /\ ~ Makes(c, t) /\ ~ Leaving(c, t)
  BY DEF Init, Uses, Busy, Makes, Leaving, Making, Starting, Ending, Callers
<1>2. LifeInv /\ WorkerInv /\ BitsInv
  BY DEF Init, LifeInv, WorkerInv, BitsInv, Callers, InUninstall, Making, AtTimer
<1>3. OwnerInv /\ SelfInv
  BY <1>1 DEF Init, OwnerInv, SelfInv, Callers
<1>4. HolderInv /\ QuietInv
  BY <1>1 DEF Init, HolderInv, QuietInv, AtAlarm, Ending, Callers
<1> QED
  BY <1>2, <1>3, <1>4 DEF SlotInv, LockInv

LEMMA NextIInv == IInv /\ [Next]_vars => IInv'
<1> SUFFICES ASSUME IInv, [Next]_vars PROVE IInv'
  OBVIOUS
<1>1. TypeInv'
  BY NextTypeInv DEF IInv
<1>2. CASE Next
  BY <1>1, <1>2, NextLife, NextWorker, NextBits, NextOwner, NextSelf, NextHolder, NextQuiet
  DEF IInv, SlotInv, LockInv
<1>3. CASE UNCHANGED vars
  <2>1. SlotInv'
    BY <1>3 DEF IInv, SlotInv, vars, sharedVars, workerVars, callerVars, ctxVars, useVars,
       LifeInv, WorkerInv, BitsInv, OwnerInv, SelfInv, Uses, Busy, Makes, InCallback
  <2>2. LockInv'
    BY <1>3 DEF IInv, LockInv, vars, sharedVars, workerVars, callerVars, ctxVars, useVars,
       HolderInv, QuietInv, Idle, Leaving, InCallback
  <2> QED
    BY <1>1, <2>1, <2>2 DEF IInv
<1> QED
  BY <1>2, <1>3

\* gabs_timer_uninstall: once a client has released the mutex of the timer, its
\* callback is not running and does not run again, as long as the mutex is usable.
THEOREM Quiescence == Spec => []UninstallQuiesces
<1>1. IInv => UninstallQuiesces
  <2> SUFFICES ASSUME IInv, NEW t \in Slots, Uninstalled(t), lock[t] # NoMutex
               PROVE  ~ InCallback(t)
    BY DEF UninstallQuiesces
  <2>1. \/ \E c \in Clients : Leaving(c, t)
        \/ "ZOMBIE" \in state[t] /\ cb[t] # "uninstall"
    BY DEF Uninstalled, Leaving, IInv, SlotInv, WorkerInv, InUninstall, Callers
  <2> QED
    BY <2>1 DEF IInv, LockInv, QuietInv, Idle
<1> QED
  BY <1>1, InitIInv, NextIInv, PTL DEF Spec
=============================================================================
