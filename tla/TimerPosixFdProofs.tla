-------------------------- MODULE TimerPosixFdProofs --------------------------
(***************************************************************************)
(* What is proved about the descriptors of TimerPosix, for every number of *)
(* slots, clients, descriptors and calls: the eventfd is open when it is   *)
(* written, timerfds are neither leaked nor shared nor used stale, no timer *)
(* fires before its delay, and the timers are those of Timer.              *)
(***************************************************************************)
EXTENDS TimerPosixProofs

-----------------------------------------------------------------------------
(* The eventfd is open while there is a context for it.                     *)

EventInv == eventfd = Closed <=> life \in {"down", "closing"}

\* Whoever is in a call finds the eventfd open.
LEMMA EventOpen ==
  ASSUME LifeInv, WorkerInv, EventInv, NEW c \in Callers, pc[c] # "idle"
  PROVE  eventfd # Closed /\ life \notin {"down", "closing"}
  BY DEF LifeInv, WorkerInv, EventInv, Callers

LEMMA NextEvent ==
  ASSUME TypeInv, SlotInv, EventInv, Next
  PROVE  EventInv'
<1> USE DEF EventInv, TypeInv, TypeOK, CtxType, Closed
<1>1. CASE CtxInit \/ DeinitExit \/ DeinitStep
  BY <1>1 DEF CtxInit, DeinitExit, DeinitStep, DeinitTrigger, DeinitJoin, DeinitCleanup
<1>2. ASSUME NEW c \in Callers, CallerStep(c) PROVE EventInv'
  <2>1. UNCHANGED life /\ eventfd # Closed
    BY <1>2, CallerFrame, EventOpen DEF SlotInv
  <2>2. eventfd' \in {eventfd, eventfd + 1}
    BY <1>2 DEF CallerStep, StartCheck, RestartClear, RestartSettime, RestartSched,
       RestartTrigger, StopClear, StopSettime, StopTrigger, UninstallLock, UninstallUnlock,
       UninstallZombie, ctxVars, Trigger
  <2> QED
    BY <2>1, <2>2
<1>3. ASSUME NEW c \in Clients, InstallStep(c) PROVE EventInv'
  BY <1>3 DEF InstallStep, InstallScan, InstallCreate, InstallCreateFails, InstallMutex,
     InstallMutexFails, InstallPublish, ctxVars
<1>4. CASE WorkerStep \/ PollInterrupted
  <2>1. UNCHANGED <<life, eventfd>> \/ Polled
    BY <1>4 DEF WorkerStep, PollInterrupted, WorkerTop, PrepareTest, CleanupClose,
       CleanupState, CleanupMutex, PrepareActive, PrepareCas, PreparePush, PrepareUnsched, Poll,
       ServiceRead, ServiceLookup, AlarmLock, AlarmTest, CallbackReturn, AlarmUnlock, AlarmDone,
       ctxVars
  <2>2. CASE Polled
    BY <2>2 DEF Polled, WorkerAt, IndexInv, EventIndex
  <2> QED
    BY <2>1, <2>2
<1>5. CASE EnterCall
  BY <1>5, EnterFrame DEF ctxVars
<1>6. CASE \E f \in Fds : Expire(f)
  BY <1>6 DEF Expire, ctxVars
<1> QED
  BY <1>1, <1>2, <1>3, <1>4, <1>5, <1>6, NextCases

-----------------------------------------------------------------------------
(* The timerfds.                                                            *)

\* A context that is down has no timer, so that its slots can be forgotten.
FreeInv == life = "down" => \A t \in Slots : "USED" \notin state[t]

FdInv == FdsAccounted /\ FreeInv

\* An installer between the creation of a timerfd and its publication.
Creates(c, t) == pc[c] \in {"mutex", "publish"} /\ tgt[c] = t

IsOpen(f) == tfd[f] # "closed"

\* Nothing changes as to who owns what.
LEMMA OwnersKept ==
  ASSUME FdsAccounted,
         \A t \in Slots : (OwnsFd(t)' <=> OwnsFd(t)) /\ (OwnsFd(t) => fd'[t] = fd[t]),
         \A f \in Fds : IsOpen(f)' <=> IsOpen(f)
  PROVE  FdsAccounted'
  BY DEF FdsAccounted, IsOpen

\* One owner closes its descriptor and is no owner any more.
LEMMA OwnerLeaves ==
  ASSUME TypeInv, FdsAccounted, NEW u \in Slots, OwnsFd(u), UNCHANGED fd,
         tfd' = [tfd EXCEPT ![fd[u]] = "closed"],
         \A t \in Slots : OwnsFd(t)' <=> OwnsFd(t) /\ t # u
  PROVE  FdsAccounted'
<1>1. fd[u] \in Fds /\ tfd \in [Fds -> {"closed", "disarmed", "armed", "expired"}]
  BY DEF FdsAccounted, TypeInv, TypeOK, SlotType
<1> QED
  BY <1>1 DEF FdsAccounted

\* One slot gets a descriptor that was closed.
LEMMA OwnerComes ==
  ASSUME TypeInv, FdsAccounted, NEW u \in Slots, NEW f \in Fds, ~ IsOpen(f), ~ OwnsFd(u),
         fd' = [fd EXCEPT ![u] = f], tfd' = [tfd EXCEPT ![f] = "disarmed"],
         \A t \in Slots : OwnsFd(t)' <=> OwnsFd(t) \/ t = u
  PROVE  FdsAccounted'
<1>1. /\ tfd \in [Fds -> {"closed", "disarmed", "armed", "expired"}]
      /\ fd \in [Slots -> Fds \cup {NoFd}]
  BY DEF TypeInv, TypeOK, SlotType
<1>2. \A t \in Slots : fd'[t] = IF t = u THEN f ELSE fd[t]
  BY <1>1
<1>3. \A g \in Fds : tfd'[g] # "closed" <=> g = f \/ tfd[g] # "closed"
  BY <1>1
<1>4. \A t \in Slots : OwnsFd(t) => fd[t] # f /\ t # u
  BY DEF FdsAccounted, IsOpen
<1>5. \A t \in Slots : OwnsFd(t)' => fd'[t] \in Fds /\ tfd'[fd'[t]] # "closed"
  BY <1>2, <1>3 DEF FdsAccounted
<1>6. \A t, v \in Slots : OwnsFd(t)' /\ OwnsFd(v)' /\ fd'[t] = fd'[v] => t = v
  BY <1>2, <1>4 DEF FdsAccounted
<1>7. \A g \in Fds : tfd'[g] # "closed" => \E t \in Slots : OwnsFd(t)' /\ fd'[t] = g
  BY <1>2, <1>3, <1>4 DEF FdsAccounted
<1> QED
  BY <1>5, <1>6, <1>7 DEF FdsAccounted

\* Steps of a caller leave descriptors open and where they are.
LEMMA CallerFds ==
  ASSUME TypeInv, NEW c \in Callers, CallerStep(c)
  PROVE  /\ UNCHANGED fd
         /\ \/ UNCHANGED tfd
            \/ /\ pc[c] = "r_settime" /\ UNCHANGED state
               /\ tfd' = [tfd EXCEPT ![fd[tgt[c]]] = "armed"]
            \/ /\ pc[c] = "s_settime" /\ UNCHANGED state
               /\ tfd' = [tfd EXCEPT ![fd[tgt[c]]] = "disarmed"]
<1>1. CASE RestartSettime(c)
  <2>1. \A delay \in Delays : TimerfdSet(to_itimerspec(delay)) = "armed"
    BY DEF Delays, to_itimerspec, TimerfdSet
  <2> QED
    BY <1>1, <2>1 DEF RestartSettime, CallerAt, SetTfd
<1>2. CASE StopSettime(c)
  BY <1>2 DEF StopSettime, CallerAt, SetTfd, TimerfdSet
<1>3. CASE ~ RestartSettime(c) /\ ~ StopSettime(c)
  BY <1>3 DEF CallerStep, StartCheck, RestartClear, RestartSched, RestartTrigger, StopClear,
     StopTrigger, UninstallLock, UninstallUnlock, UninstallZombie, sharedVars, SetState, SetLock
<1> QED
  BY <1>1, <1>2, <1>3

\* Whoever sets a timerfd is a user of its timer.
LEMMA SetterOwns ==
  ASSUME TypeInv, SlotInv, NEW c \in Callers, CallerStep(c), pc[c] \in {"r_settime", "s_settime"}
  PROVE  tgt[c] \in Slots /\ OwnsFd(tgt[c])
<1>1. tgt[c] \in Slots /\ "USED" \in state[tgt[c]]
  BY CallerTarget
<1>2. CASE c \in Clients
  <2>1. "ZOMBIE" \notin state[tgt[c]]
    BY <1>2, CallerTarget
  <2> QED
    BY <1>1, <2>1 DEF OwnsFd, SlotInv, BitsInv
<1>3. CASE c = Worker
  BY <1>1, <1>3 DEF OwnsFd, SlotInv, WorkerInv
<1> QED
  BY <1>2, <1>3 DEF Callers

LEMMA CallerFdInv ==
  ASSUME TypeInv, SlotInv, FdInv, NEW c \in Callers, CallerStep(c)
  PROVE  FdsAccounted'
<1>1. UNCHANGED <<wpc, wi>> /\ Others(c) /\ pc[c] \notin {"mutex", "publish"}
  BY CallerFrame DEF workerVars, Making
<1>2. pc'[c] \notin {"mutex", "publish"}
  BY CallerMoves DEF SlotInv, Making, Return, Goto, TypeInv, TypeOK, CallerType
<1>3. \A t \in Slots : "USED" \in state'[t] <=> "USED" \in state[t]
  BY CallerBits DEF TypeInv, TypeOK, SlotType
<1>4. \A d \in Clients, t \in Slots : Creates(d, t)' <=> Creates(d, t)
  BY <1>1, <1>2 DEF Creates, Others, Callers
<1>5. \A t \in Slots : OwnsFd(t)' <=> OwnsFd(t)
  BY <1>1, <1>3, <1>4 DEF OwnsFd, Creates
<1>6. \A f \in Fds : IsOpen(f)' <=> IsOpen(f)
  <2>1. CASE UNCHANGED tfd
    BY <2>1 DEF IsOpen
  <2>2. CASE pc[c] \in {"r_settime", "s_settime"}
    BY <2>2, CallerFds, SetterOwns DEF IsOpen, FdInv, FdsAccounted, TypeInv, TypeOK, SlotType
  <2> QED
    BY <2>1, <2>2, CallerFds
<1> QED
  BY <1>5, <1>6, CallerFds, OwnersKept DEF FdInv

\* Of the steps of install, three move a descriptor.
LEMMA InstallFdInv ==
  ASSUME TypeInv, SlotInv, FdInv, NEW c \in Clients, InstallStep(c)
  PROVE  FdsAccounted'
<1> USE DEF FdInv
<1>1. PICK t \in Slots : t = tgt[c]
  BY InstallBits DEF SlotInv
<1>2. c \in Callers /\ UNCHANGED <<wpc, wi>> /\ Others(c)
  BY InstallFrame DEF workerVars
<1>3. \A d \in Clients \ {c}, u \in Slots : Creates(d, u)' <=> Creates(d, u)
  BY <1>2 DEF Creates, Others, Callers
<1>4. \A u \in Slots \ {t} : "USED" \in state'[u] <=> "USED" \in state[u]
  BY <1>1, InstallBits DEF SlotInv, TypeInv, TypeOK, SlotType
<1>5. \A u \in Slots \ {t} : ~ Creates(c, u) /\ ~ Creates(c, u)'
  <2>1. UNCHANGED tgt \/ pc'[c] \notin {"mutex", "publish"}
    BY <1>2 DEF InstallStep, InstallScan, InstallCreate, InstallCreateFails, InstallMutex,
       InstallMutexFails, InstallPublish, CallerAt, Goto, Return, TypeInv, TypeOK, CallerType
  <2> QED
    BY <1>1, <2>1 DEF Creates
<1>6. \A u \in Slots \ {t} : OwnsFd(u)' <=> OwnsFd(u)
  BY <1>2, <1>3, <1>4, <1>5 DEF OwnsFd, Creates
<1>7. ~ InstallScan(c) => /\ state[t] = {"ALLOC"} /\ (wpc = "cleanup_state" => wi # t)
                          /\ \A d \in Clients \ {c} : ~ Creates(d, t)
  <2>1. \A d \in Clients, u \in Slots : Creates(d, u) => Makes(d, u)
    BY DEF Creates, Makes, Making
  <2>2. ~ InstallScan(c) => Makes(c, t)
    BY <1>1 DEF InstallStep, InstallCreate, InstallCreateFails, InstallMutex,
       InstallMutexFails, InstallPublish, CallerAt, Makes, Making
  <2> QED
    BY <2>1, <2>2 DEF SlotInv, OwnerInv, BitsInv
<1>8. CASE InstallScan(c)
  <2>1. UNCHANGED <<fd, tfd>> /\ ~ Creates(c, t) /\ ~ Creates(c, t)'
    BY <1>2, <1>8 DEF InstallScan, CallerAt, SetState, sharedVars, Creates, Goto, Return,
       TypeInv, TypeOK, CallerType
  <2>2. "USED" \in state'[t] <=> "USED" \in state[t]
    BY <1>1, <1>8 DEF InstallScan, SetState, mask_set, sharedVars, TypeInv, TypeOK, SlotType
  <2>3. OwnsFd(t)' <=> OwnsFd(t)
    BY <1>2, <1>3, <2>1, <2>2 DEF OwnsFd, Creates
  <2> QED
    BY <1>6, <2>1, <2>3, OwnersKept DEF IsOpen
<1>9. CASE InstallCreate(c)
  <2>1. PICK f \in Fds : /\ ~ IsOpen(f) /\ tfd' = [tfd EXCEPT ![f] = "disarmed"]
                         /\ fd' = [fd EXCEPT ![t] = f] /\ UNCHANGED state
    BY <1>1, <1>9 DEF InstallCreate, IsOpen
  <2>2. Creates(c, t)' /\ ~ Creates(c, t)
    BY <1>1, <1>2, <1>9 DEF InstallCreate, CallerAt, Goto, Creates, TypeInv, TypeOK, CallerType
  <2>3. ~ OwnsFd(t) /\ OwnsFd(t)'
    BY <1>7, <1>9, <2>2 DEF OwnsFd, Creates, InstallScan, InstallCreate, CallerAt
  <2> QED
    BY <1>6, <2>1, <2>3, OwnerComes
<1>10. CASE InstallCreateFails(c)
  <2>1. /\ UNCHANGED tfd /\ fd' = [fd EXCEPT ![t] = NoFd] /\ state'[t] = {}
        /\ ~ Creates(c, t) /\ ~ Creates(c, t)'
    BY <1>1, <1>2, <1>10 DEF InstallCreateFails, CallerAt, Return, Creates, TypeInv, TypeOK,
       CallerType, SlotType
  <2>2. ~ OwnsFd(t) /\ ~ OwnsFd(t)'
    BY <1>3, <1>7, <1>10, <2>1 DEF OwnsFd, Creates, InstallScan, InstallCreateFails, CallerAt
  <2> QED
    BY <1>6, <2>1, <2>2, OwnersKept DEF IsOpen, TypeInv, TypeOK, SlotType
<1>11. CASE InstallMutex(c)
  <2>1. UNCHANGED <<fd, tfd>> /\ Creates(c, t) /\ Creates(c, t)'
    BY <1>1, <1>2, <1>11 DEF InstallMutex, SetLock, CallerAt, Goto, Creates, TypeInv, TypeOK,
       CallerType
  <2> QED
    BY <1>6, <2>1, OwnersKept DEF IsOpen, OwnsFd, Creates
<1>12. CASE InstallMutexFails(c)
  <2>1. /\ UNCHANGED fd /\ tfd' = [tfd EXCEPT ![fd[t]] = "closed"] /\ state'[t] = {}
        /\ Creates(c, t) /\ ~ Creates(c, t)'
    BY <1>1, <1>2, <1>12 DEF InstallMutexFails, CallerAt, Return, Creates, TypeInv, TypeOK,
       CallerType, SlotType
  <2>2. OwnsFd(t) /\ ~ OwnsFd(t)'
    BY <1>3, <1>7, <1>12, <2>1 DEF OwnsFd, Creates, InstallScan, InstallMutexFails, CallerAt
  <2> QED
    BY <1>6, <2>1, <2>2, OwnerLeaves
<1>13. CASE InstallPublish(c)
  <2>1. UNCHANGED <<fd, tfd>> /\ Creates(c, t) /\ "USED" \in state'[t]
    BY <1>1, <1>13 DEF InstallPublish, SetState, mask_set, CallerAt, Creates, TypeInv, TypeOK,
       SlotType
  <2>2. OwnsFd(t) /\ OwnsFd(t)'
    BY <1>2, <1>7, <1>13, <2>1 DEF OwnsFd, Creates, InstallScan, InstallPublish, CallerAt
  <2> QED
    BY <1>6, <2>1, <2>2, OwnersKept DEF IsOpen
<1> QED
  BY <1>8, <1>9, <1>10, <1>11, <1>12, <1>13 DEF InstallStep

\* The worker closes the descriptor of a timer it cleans up; otherwise it only
\* reads timerfds.
LEMMA WorkerFds ==
  ASSUME TypeInv, WorkerStep \/ PollInterrupted
  PROVE  /\ UNCHANGED fd
         /\ \/ UNCHANGED tfd
            \/ CleanupClose
            \/ /\ wpc = "service" /\ wpc' = "lookup" /\ wi \in 1 .. Len(pfds) /\ pfds[wi] \in ready
               /\ UNCHANGED <<wi, pfds, ready, state>>
               /\ tfd' = [tfd EXCEPT ![pfds[wi]] = TimerfdRead(tfd[pfds[wi]])]
<1>1. CASE ServiceRead
  BY <1>1 DEF ServiceRead, WorkerAt, WGoto, SetTfd, sharedVars, TypeInv, TypeOK, WorkerType
<1>2. CASE CleanupClose
  BY <1>2 DEF CleanupClose, SetTfd
<1>3. CASE ~ ServiceRead /\ ~ CleanupClose
  BY <1>3 DEF WorkerStep, PollInterrupted, WorkerTop, PrepareTest, CleanupState, CleanupMutex,
     PrepareActive, PrepareCas, PreparePush, PrepareUnsched, Poll, Polled, ServiceLookup,
     AlarmLock, AlarmTest, CallbackReturn, AlarmUnlock, AlarmDone, sharedVars, SetState, SetLock
<1> QED
  BY <1>1, <1>2, <1>3

LEMMA WorkerFdInv ==
  ASSUME TypeInv, SlotInv, FdInv, WorkerStep \/ PollInterrupted
  PROVE  FdsAccounted'
<1> USE DEF FdInv
<1>1. \A d \in Clients, t \in Slots : Creates(d, t)' <=> Creates(d, t)
  BY WorkerFrame DEF callerVars, Creates
<1>2. CASE CleanupClose
  <2>1. /\ wi \in Slots /\ UNCHANGED <<fd, state, wi>> /\ tfd' = [tfd EXCEPT ![fd[wi]] = "closed"]
        /\ wpc = "cleanup_close" /\ wpc' = "cleanup_state" /\ "ZOMBIE" \in state[wi]
    BY <1>2 DEF CleanupClose, WorkerAt, SetTfd, WGoto, TypeInv, IndexInv, WorkerIndex, AtSlot,
       SlotInv, BitsInv
  <2>2. OwnsFd(wi) /\ \A d \in Clients : ~ Creates(d, wi)
    BY <2>1 DEF OwnsFd, Creates, Makes, Making, SlotInv, OwnerInv, BitsInv
  <2>3. \A t \in Slots : OwnsFd(t)' <=> OwnsFd(t) /\ t # wi
    BY <1>1, <2>1, <2>2 DEF OwnsFd, Creates
  <2> QED
    BY <2>1, <2>2, <2>3, OwnerLeaves
<1>3. CASE ~ CleanupClose
  <2>1. UNCHANGED fd /\ \A f \in Fds : IsOpen(f)' <=> IsOpen(f)
    BY <1>3, WorkerFds DEF IsOpen, TimerfdRead, TypeInv, TypeOK, SlotType
  <2>2. CASE wpc = "cleanup_state"
    <3>1. CleanupState
      BY <2>2 DEF WorkerStep, PollInterrupted, WorkerAt, WorkerTop, PrepareTest, CleanupClose,
         CleanupMutex, PrepareActive, PrepareCas, PreparePush, PrepareUnsched, Poll, Polled,
         ServiceRead, ServiceLookup, AlarmLock, AlarmTest, CallbackReturn, AlarmUnlock, AlarmDone
    <3>2. /\ wi \in Slots /\ UNCHANGED wi /\ state' = [state EXCEPT ![wi] = {}]
          /\ wpc' = "cleanup_mutex"
      BY <2>2, <3>1 DEF CleanupState, SetState, WGoto, TypeInv, IndexInv, WorkerIndex, AtSlot
    <3>3. \A t \in Slots : OwnsFd(t)' <=> OwnsFd(t)
      BY <1>1, <2>2, <3>2 DEF OwnsFd, Creates, TypeInv, TypeOK, SlotType
    <3> QED
      BY <2>1, <3>3, OwnersKept
  <2>3. CASE wpc # "cleanup_state"
    <3>1. \A t \in Slots : "USED" \in state'[t] <=> "USED" \in state[t]
      BY <2>3, WorkerBits DEF SlotInv, TypeInv, TypeOK, SlotType
    <3>2. wpc' # "cleanup_state"
      BY <1>3, <2>3 DEF WorkerStep, PollInterrupted, WorkerTop, PrepareTest,
         CleanupState, CleanupMutex, PrepareActive, PrepareCas, PreparePush, PrepareUnsched,
         Poll, Polled, ServiceRead, ServiceLookup, AlarmLock, AlarmTest, CallbackReturn,
         AlarmUnlock, AlarmDone, WGoto, WNext
    <3>3. \A t \in Slots : OwnsFd(t)' <=> OwnsFd(t)
      BY <1>1, <2>3, <3>1, <3>2 DEF OwnsFd, Creates
    <3> QED
      BY <2>1, <3>3, OwnersKept
  <2> QED
    BY <2>2, <2>3
<1> QED
  BY <1>2, <1>3

\* The owner of the context forgets descriptors only when none is open.
LEMMA LifeFdInv ==
  ASSUME TypeInv, SlotInv, FdInv, CtxInit \/ DeinitExit \/ DeinitStep
  PROVE  FdInv'
<1> USE DEF FdInv
<1>1. CASE CtxInit
  <2>1. \A t \in Slots : ~ OwnsFd(t) /\ ~ OwnsFd(t)'
    BY <1>1 DEF CtxInit, callerVars, OwnsFd, FreeInv, SlotInv, LifeInv
  <2>2. UNCHANGED tfd /\ \A t \in Slots : state'[t] = {}
    BY <1>1 DEF CtxInit
  <2> QED
    BY <2>1, <2>2 DEF FdsAccounted, FreeInv
<1>2. CASE DeinitCleanup
  <2>1. /\ life = "closing" /\ wpc = "exited" /\ UNCHANGED <<fd, wpc, wi, pc, tgt>>
        /\ \A c \in Clients : pc[c] = "idle"
        /\ \A t \in Slots : "USED" \notin state'[t]
        /\ \A f \in Fds : tfd'[f] = IF \E t \in Slots : "USED" \in state[t] /\ fd[t] = f
                                      THEN "closed" ELSE tfd[f]
    BY <1>2 DEF DeinitCleanup, mask_test, mask_get, workerVars, callerVars, SlotInv, LifeInv
  <2>2. \A t \in Slots : (OwnsFd(t) <=> "USED" \in state[t]) /\ ~ OwnsFd(t)'
    BY <2>1 DEF OwnsFd
  <2>3. \A f \in Fds : tfd'[f] = "closed"
    BY <2>1, <2>2 DEF FdsAccounted
  <2> QED
    BY <2>1, <2>2, <2>3 DEF FdsAccounted, FreeInv
<1>3. CASE DeinitExit \/ DeinitTrigger \/ DeinitJoin
  <2>1. UNCHANGED <<state, fd, tfd, wpc, wi, pc, tgt>> /\ life' # "down"
    BY <1>3 DEF DeinitExit, DeinitTrigger, DeinitJoin, sharedVars, workerVars, callerVars
  <2> QED
    BY <2>1 DEF FdsAccounted, FreeInv, OwnsFd
<1> QED
  BY <1>1, <1>2, <1>3 DEF DeinitStep

LEMMA EnterFdInv ==
  ASSUME TypeInv, FdInv, EnterCall
  PROVE  FdsAccounted'
<1>1. UNCHANGED <<state, fd, tfd, wi>> /\ (wpc' = wpc \/ (wpc = "callback" /\ wpc' = "incall"))
  BY EnterFrame DEF sharedVars, workerVars, WGoto, Callers
<1>2. \A d \in Clients, t \in Slots : Creates(d, t)' <=> Creates(d, t)
  <2>1. ASSUME NEW d \in Clients, NEW o \in TimerOps, pc'[d] = Entry[o], pc[d] = "idle"
        PROVE  pc'[d] \notin {"mutex", "publish"}
    BY <2>1 DEF Entry, TimerOps
  <2>2. \A d \in Clients : \/ SameClient(d)
                           \/ pc[d] = "idle" /\ pc'[d] \notin {"mutex", "publish"}
    <3>1. ASSUME NEW d \in Clients, ~ SameClient(d) PROVE pc[d] = "idle"
      BY <3>1, EnterFrame, ThreadAssumption DEF EnterCall, ClientInstall, ClientCall, CallbackCall,
         Begin, SameClient, Others, Callers, TypeInv, TypeOK, CallerType, UseType
    <3> QED
      BY <2>1, <3>1, EnterUses
  <2> QED
    BY <2>2 DEF SameClient, Creates
<1> QED
  BY <1>1, <1>2, OwnersKept DEF OwnsFd, Creates, IsOpen, FdInv

LEMMA NextFd ==
  ASSUME TypeInv, SlotInv, FdInv, Next
  PROVE  FdInv'
<1>1. CASE CtxInit \/ DeinitExit \/ DeinitStep
  BY <1>1, LifeFdInv
<1>2. CASE ~ (CtxInit \/ DeinitExit \/ DeinitStep)
  <2>1. FdsAccounted'
    <3>1. ASSUME NEW f \in Fds, Expire(f) PROVE FdsAccounted'
      <4>1. /\ UNCHANGED <<state, fd, wpc, wi, pc, tgt>>
            /\ \A g \in Fds : IsOpen(g)' <=> IsOpen(g)
        BY <3>1 DEF Expire, SetTfd, workerVars, callerVars, IsOpen, TypeInv, TypeOK, SlotType
      <4> QED
        BY <4>1, OwnersKept DEF OwnsFd, FdInv
    <3> QED
      BY <1>2, <3>1, NextCases, CallerFdInv, InstallFdInv, WorkerFdInv, EnterFdInv
  <2>2. FreeInv'
    <3>1. life' = life
      BY <1>2, NextCases, CallerFrame, InstallFrame, WorkerFrame, EnterFrame DEF Expire, ctxVars
    <3>2. life = "down" => \A t \in Slots : "USED" \in state'[t] => "USED" \in state[t]
      <4>1. CASE life = "down"
        <5>1. wpc = "exited" /\ (\A c \in Clients : pc[c] = "idle" /\ held[c] = {})
              /\ \A c \in Callers : pc[c] = "idle"
          BY <4>1 DEF SlotInv, LifeInv, WorkerInv, Callers
        <5>2. EnterCall \/ \E f \in Fds : Expire(f)
          BY <1>2, <5>1, NextCases, CallerFrame, InstallFrame, WorkerFrame DEF Making
        <5> QED
          BY <5>2, EnterFrame DEF Expire, SetTfd, sharedVars
      <4> QED
        BY <4>1
    <3> QED
      BY <3>1, <3>2 DEF FdInv, FreeInv
  <2> QED
    BY <2>1, <2>2 DEF FdInv
<1> QED
  BY <1>1, <1>2

-----------------------------------------------------------------------------
(* The poll set.                                                            *)

Preparing == {"prepare", "cleanup_close", "cleanup_state", "cleanup_mutex", "test_active",
              "cas", "push"}

\* Descriptor f was put in the poll set for timer t, which the worker has passed.
Polls(t, f) ==
    /\ "USED" \in state[t] /\ fd[t] = f
    /\ wpc \in Preparing => t < wi
    /\ wpc = "unsched" => t <= wi

\* Timers of the poll set are cleaned up in a later round only.
PollInv ==
    wpc \notin {"top", "exited"} =>
       \A i \in 1 .. Len(pfds) : pfds[i] = EventFd \/ \E t \in Slots : Polls(t, pfds[i])

\* The worker's index, while it prepares the poll set.
LEMMA WorkerIndices ==
  ASSUME WorkerStep \/ PollInterrupted
  PROVE  /\ wpc' \in Preparing =>
               \/ wpc = "top"
               \/ wpc \in Preparing /\ wi' = wi
               \/ wpc \in Preparing \cup {"unsched"} /\ wi' = wi + 1
         /\ wpc' = "unsched" => PreparePush
         /\ UNCHANGED pfds \/ WorkerTop \/ PreparePush
  BY DEF WorkerStep, PollInterrupted, WorkerAt, WGoto, WNext, WorkerTop, PrepareTest, CleanupClose,
     CleanupState, CleanupMutex, PrepareActive, PrepareCas, PreparePush, PrepareUnsched, Poll,
     Polled, ServiceRead, ServiceLookup, AlarmLock, AlarmTest, CallbackReturn, AlarmUnlock,
     AlarmDone, Preparing

\* A timer whose flags say more than that its slot is taken keeps its descriptor
\* and its callback.
LEMMA InstallKeeps ==
  ASSUME TypeInv, SlotInv, NEW c \in Clients, InstallStep(c), NEW t \in Slots,
         ~ (state[t] \subseteq {"ALLOC"})
  PROVE  state'[t] = state[t] /\ cb'[t] = cb[t] /\ fd'[t] = fd[t]
<1>1. state'[t] = state[t] /\ cb'[t] = cb[t]
  BY InstallBits DEF SlotInv, TypeInv, TypeOK, SlotType
<1>2. \/ UNCHANGED fd
      \/ Makes(c, tgt[c]) /\ \E f \in Fds \cup {NoFd} : fd' = [fd EXCEPT ![tgt[c]] = f]
  <2>1. CASE InstallCreate(c) \/ InstallCreateFails(c)
    BY <2>1 DEF InstallCreate, InstallCreateFails, CallerAt, Makes, Making
  <2>2. CASE ~ InstallCreate(c) /\ ~ InstallCreateFails(c)
    BY <2>2 DEF InstallStep, InstallScan, InstallMutex, InstallMutexFails, InstallPublish,
       SetState, SetLock, sharedVars
  <2> QED
    BY <2>1, <2>2
<1>3. tgt[c] \in Slots /\ (Makes(c, tgt[c]) => tgt[c] # t)
  BY InstallBits DEF SlotInv, OwnerInv
<1> QED
  BY <1>1, <1>2, <1>3 DEF TypeInv, TypeOK, SlotType

LEMMA WorkerPoll ==
  ASSUME TypeInv, SlotInv, PollInv, WorkerStep \/ PollInterrupted
  PROVE  PollInv'
<1>0. pfds \in Seq(Fds \cup {NoFd, EventFd}) /\ wi \in Nat
  BY DEF TypeInv, TypeOK, WorkerType
<1>1. UNCHANGED fd
  BY WorkerFds
<1>2. ASSUME NEW t \in Slots, NEW f, Polls(t, f), wpc # "top", wpc # "push"
      PROVE  Polls(t, f)'
  <2>1. wpc = "cleanup_state" => t # wi
    BY <1>0, <1>2 DEF Polls, Preparing, Slots
  <2>2. "USED" \in state'[t]
    BY <1>2, <2>1, WorkerBits DEF SlotInv, Polls, TypeInv, TypeOK, SlotType
  <2>3. wpc' # "unsched"
    BY <1>2, WorkerIndices DEF PreparePush, WorkerAt
  <2>4. wpc' \in Preparing => t < wi'
    BY <1>0, <1>2, WorkerIndices DEF Polls, Slots
  <2> QED
    BY <1>1, <1>2, <2>2, <2>3, <2>4 DEF Polls
<1>3. CASE WorkerTop
  <2>1. pfds' = <<EventFd>>
    BY <1>3 DEF WorkerTop
  <2> QED
    BY <2>1 DEF PollInv
<1>4. CASE PreparePush
  <2>1. /\ wi \in Slots /\ "USED" \in state[wi] /\ wpc = "push" /\ wpc' \in {"unsched", "overrun"}
        /\ UNCHANGED <<wi, state, fd>>
    BY <1>4 DEF PreparePush, WorkerAt, sharedVars, TypeInv, IndexInv, WorkerIndex, AtSlot, SlotInv,
       BitsInv
  <2>2. \A t \in Slots : \A f : Polls(t, f) => Polls(t, f)'
    BY <1>0, <2>1 DEF Polls, Preparing, Slots
  <2>3. \A f : f = fd[wi] => \E t \in Slots : Polls(t, f)'
    BY <1>0, <2>1 DEF Polls, Preparing
  <2>4. /\ pfds' = Append(pfds, fd[wi]) /\ Len(pfds') = Len(pfds) + 1
        /\ \A i \in 1 .. Len(pfds) : pfds'[i] = pfds[i]
        /\ pfds'[Len(pfds) + 1] = fd[wi]
    BY <1>0, <1>4, <2>1 DEF PreparePush, TypeInv, TypeOK, SlotType
  <2>5. ASSUME NEW i \in 1 .. Len(pfds')
        PROVE  (pfds[i] = EventFd \/ \E t \in Slots : Polls(t, pfds[i]))'
    <3>1. CASE i \in 1 .. Len(pfds)
      BY <2>1, <2>2, <2>4, <3>1 DEF PollInv
    <3>2. CASE i = Len(pfds) + 1
      BY <2>1, <2>3, <2>4, <3>2
    <3> QED
      BY <1>0, <2>4, <3>1, <3>2
  <2> QED
    BY <2>5 DEF PollInv
<1>5. CASE ~ WorkerTop /\ ~ PreparePush
  <2>1. wpc \notin {"top", "push", "exited"}
    BY <1>5, WorkerFrame DEF WorkerStep, PollInterrupted, WorkerAt, PrepareTest, CleanupClose,
       CleanupState, CleanupMutex, PrepareActive, PrepareCas, PrepareUnsched, Poll,
       Polled, ServiceRead, ServiceLookup, AlarmLock, AlarmTest, CallbackReturn, AlarmUnlock,
       AlarmDone
  <2>2. UNCHANGED pfds
    BY <1>5, WorkerIndices
  <2> QED
    BY <1>2, <2>1, <2>2 DEF PollInv
<1> QED
  BY <1>3, <1>4, <1>5

LEMMA NextPoll ==
  ASSUME TypeInv, SlotInv, PollInv, Next
  PROVE  PollInv'
<1>1. ASSUME UNCHANGED <<wi, pfds>>,
             wpc' = wpc \/ (wpc = "callback" /\ wpc' = "incall"),
             \A t \in Slots : "USED" \in state[t] => "USED" \in state'[t] /\ fd'[t] = fd[t]
      PROVE  PollInv'
  BY <1>1 DEF PollInv, Polls, Preparing
<1>2. CASE CtxInit \/ DeinitExit \/ DeinitStep
  <2>1. CASE CtxInit \/ DeinitCleanup
    <3>1. wpc' \in {"top", "exited"}
      BY <2>1 DEF CtxInit, DeinitCleanup, workerVars, SlotInv, LifeInv
    <3> QED
      BY <3>1 DEF PollInv
  <2>2. CASE DeinitExit \/ DeinitTrigger \/ DeinitJoin
    <3>1. UNCHANGED <<sharedVars, workerVars>>
      BY <2>2 DEF DeinitExit, DeinitTrigger, DeinitJoin
    <3> QED
      BY <1>1, <3>1 DEF sharedVars, workerVars
  <2> QED
    BY <1>2, <2>1, <2>2 DEF DeinitStep
<1>3. ASSUME NEW c \in Callers, CallerStep(c) PROVE PollInv'
  <2>1. \A t \in Slots : "USED" \in state[t] => "USED" \in state'[t] /\ fd'[t] = fd[t]
    BY <1>3, CallerBits, CallerFds DEF TypeInv, TypeOK, SlotType
  <2> QED
    BY <1>1, <1>3, <2>1, CallerFrame DEF workerVars
<1>4. ASSUME NEW c \in Clients, InstallStep(c) PROVE PollInv'
  <2>1. \A t \in Slots : "USED" \in state[t] => "USED" \in state'[t] /\ fd'[t] = fd[t]
    BY <1>4, InstallKeeps
  <2> QED
    BY <1>1, <1>4, <2>1, InstallFrame DEF workerVars
<1>5. CASE EnterCall
  BY <1>1, <1>5, EnterFrame DEF sharedVars, workerVars, WGoto, Callers
<1>6. CASE \E f \in Fds : Expire(f)
  BY <1>1, <1>6 DEF Expire, SetTfd, workerVars
<1> QED
  BY <1>2, <1>3, <1>4, <1>5, <1>6, NextCases, WorkerPoll

-----------------------------------------------------------------------------
(* The flags of a timer that no callback of its own restarts.               *)

\* The call of caller c on timer t has cleared the flags of t, and has not set
\* SCHED if it is going to.
Cleared(c, t) ==
    \/ tgt[c] = t /\ pc[c] \in {"r_settime", "r_sched"}
    \/ Leaving(c, t)

NoFlags(t) == state[t] \cap {"ACTIVE", "SCHED"} = {}

\* What is done under which name: only a start or a restart goes on to SCHED.
StartInv == \A c \in Callers : pc[c] \in Starting => op[c] \in {"start", "restart"}

\* Flags that have been cleared stay so until SCHED is set, or the slot is freed.
ClearInv ==
    \A t \in Slots :
       /\ ~ RestartedByCallback(t)
       /\ "ZOMBIE" \in state[t] \/ \E c \in Callers : Cleared(c, t)
       => NoFlags(t)

\* Both flags are set only while the worker puts the timer in the poll set.
OnceInv ==
    \A t \in Slots :
       ~ RestartedByCallback(t) /\ {"ACTIVE", "SCHED"} \subseteq state[t] =>
          wi = t /\ wpc \in {"push", "unsched", "overrun"}

FlagInv == StartInv /\ ClearInv /\ OnceInv

\* The flags after a step of a caller.
LEMMA CallerFlags ==
  ASSUME TypeInv, SlotInv, FlagInv, NEW c \in Callers, CallerStep(c), NEW t \in Slots,
         ~ RestartedByCallback(t)
  PROVE  /\ "ACTIVE" \in state'[t] => "ACTIVE" \in state[t]
         /\ "SCHED" \in state'[t] /\ "SCHED" \notin state[t] =>
               /\ t = tgt[c] /\ pc[c] = "r_sched" /\ c \in Clients
               /\ "ACTIVE" \notin state'[t]
<1>1. ASSUME "SCHED" \in state'[t], "SCHED" \notin state[t]
      PROVE  /\ t = tgt[c] /\ pc[c] = "r_sched" /\ c \in Clients
             /\ "ACTIVE" \notin state'[t]
  <2>1. /\ t = tgt[c] /\ pc[c] = "r_sched"
        /\ state' = [state EXCEPT ![tgt[c]] = state[tgt[c]] \cup {"SCHED"}]
    BY <1>1, CallerBits DEF TypeInv, TypeOK, SlotType
  <2>2. c # Worker
    BY <2>1 DEF SlotInv, WorkerInv, FlagInv, StartInv, Starting, RestartedByCallback
  <2>3. NoFlags(t)
    BY <2>1 DEF FlagInv, ClearInv, Cleared
  <2> QED
    BY <2>1, <2>2, <2>3 DEF NoFlags, Callers, TypeInv, TypeOK, SlotType
<1>2. "ACTIVE" \in state'[t] => "ACTIVE" \in state[t]
  BY CallerBits DEF TypeInv, TypeOK, SlotType
<1> QED
  BY <1>1, <1>2

LEMMA CallerClear ==
  ASSUME TypeInv, SlotInv, FlagInv, NEW c \in Callers, CallerStep(c)
  PROVE  ClearInv'
<1>0. Others(c) /\ UNCHANGED cb
  BY CallerFrame
<1> SUFFICES ASSUME NEW t \in Slots, ~ RestartedByCallback(t),
                    ("ZOMBIE" \in state[t] \/ \E d \in Callers : Cleared(d, t))'
             PROVE  NoFlags(t)'
  BY <1>0 DEF ClearInv, RestartedByCallback
<1>1. CASE NoFlags(t)
  <2>1. ASSUME "SCHED" \in state'[t] PROVE FALSE
    <3>1. t = tgt[c] /\ pc[c] = "r_sched" /\ c \in Clients
      BY <1>1, <2>1, CallerFlags DEF NoFlags
    <3>2. RestartSched(c)
      BY <3>1 DEF CallerStep, CallerAt, StartCheck, RestartClear, RestartSettime, RestartSched,
         RestartTrigger, StopClear, StopSettime, StopTrigger, UninstallLock, UninstallUnlock,
         UninstallZombie
    <3>3. Uses(c, t) /\ "ZOMBIE" \notin state'[t] /\ pc'[c] = "r_trigger"
      BY <3>1, <3>2, CallerTarget DEF RestartSched, SetState, mask_set, Goto, TypeInv, TypeOK,
         SlotType, CallerType
    <3>4. PICK d \in Callers : Cleared(d, t)'
      BY <3>3
    <3>5. d # c /\ Cleared(d, t)
      BY <1>0, <3>3, <3>4 DEF Cleared, Leaving, Ending, Others
    <3>6. CASE d \in Clients
      BY <3>1, <3>3, <3>5, <3>6 DEF SlotInv, OwnerInv, Uses, Busy, Cleared, Leaving, Ending,
         Starting
    <3>7. CASE d = Worker
      <4>1. wpc = "incall" /\ firing = t /\ op[Worker] = cb[t]
        BY <3>5, <3>7 DEF SlotInv, WorkerInv, Cleared, Leaving, Ending
      <4>2. cb[t] = "uninstall"
        BY <3>5, <3>7, <4>1 DEF Cleared, Leaving, FlagInv, StartInv, Starting,
           RestartedByCallback, Callers
      <4> QED
        BY <3>1, <3>3, <4>1, <4>2 DEF SlotInv, SelfInv, InCallback
    <3> QED
      BY <3>6, <3>7 DEF Callers
  <2> QED
    BY <1>1, <2>1, CallerFlags DEF NoFlags
<1>2. CASE ~ NoFlags(t)
  <2>1. "ZOMBIE" \notin state[t] /\ \A d \in Callers : ~ Cleared(d, t)
    BY <1>2 DEF FlagInv, ClearInv
  <2>2. "ZOMBIE" \notin state'[t]
    <3>1. pc[c] = "u_zombie" => Cleared(c, tgt[c])
      BY DEF Cleared, Leaving, SlotInv, WorkerInv, InUninstall
    <3> QED
      BY <2>1, <3>1, CallerBits DEF TypeInv, TypeOK, SlotType
  <2>3. Cleared(c, t)' /\ ~ Cleared(c, t)
    BY <1>0, <2>1, <2>2 DEF Cleared, Leaving, Others
  <2>4. RestartClear(c) \/ StopClear(c)
    BY <2>3 DEF CallerStep, CallerAt, StartCheck, RestartClear, RestartSettime, RestartSched,
       RestartTrigger, StopClear, StopSettime, StopTrigger, UninstallLock, UninstallUnlock,
       UninstallZombie, Goto, Return, Cleared, Leaving, Ending, TypeInv, TypeOK, CallerType
  <2>5. t = tgt[c]
    BY <2>3, <2>4 DEF RestartClear, StopClear, Goto, Cleared, Leaving
  <2> QED
    BY <2>4, <2>5 DEF RestartClear, StopClear, SetState, mask_clear, NoFlags, TypeInv, TypeOK,
       SlotType
<1> QED
  BY <1>1, <1>2

LEMMA NextClear ==
  ASSUME TypeInv, SlotInv, FlagInv, Next
  PROVE  ClearInv'
<1>0. ClearInv
  BY DEF FlagInv
\* Steps in which flags are only cleared, and nobody gets to have cleared any.
<1>1. ASSUME \A t \in Slots : \/ NoFlags(t)'
                              \/ /\ cb'[t] = cb[t]
                                 /\ "ZOMBIE" \in state'[t] => "ZOMBIE" \in state[t]
                                 /\ NoFlags(t) => NoFlags(t)'
                                 /\ \A d \in Callers : Cleared(d, t)' => Cleared(d, t)
      PROVE  ClearInv'
  BY <1>0, <1>1 DEF ClearInv, RestartedByCallback
<1>2. CASE CtxInit \/ DeinitExit \/ DeinitStep
  <2>1. CASE CtxInit
    <3>1. \A t \in Slots : NoFlags(t)'
      BY <2>1 DEF CtxInit, NoFlags
    <3> QED
      BY <1>1, <3>1
  <2>2. CASE DeinitCleanup
    <3>1. UNCHANGED callerVars /\ UNCHANGED cb
          /\ \A t \in Slots : state'[t] = {} \/ state'[t] = state[t]
      BY <2>2 DEF DeinitCleanup
    <3> QED
      BY <1>1, <3>1 DEF NoFlags, Cleared, Leaving, callerVars
  <2>3. CASE DeinitExit \/ DeinitTrigger \/ DeinitJoin
    <3>1. UNCHANGED callerVars /\ UNCHANGED sharedVars
      BY <2>3 DEF DeinitExit, DeinitTrigger, DeinitJoin
    <3> QED
      BY <1>1, <3>1 DEF NoFlags, Cleared, Leaving, callerVars, sharedVars
  <2> QED
    BY <1>2, <2>1, <2>2, <2>3 DEF DeinitStep
<1>3. ASSUME NEW c \in Clients, InstallStep(c) PROVE ClearInv'
  <2>1. \A d \in Callers, t \in Slots : Cleared(d, t)' => Cleared(d, t)
    <3>1. c \in Callers /\ Others(c)
      BY <1>3, InstallFrame
    <3>2. pc'[c] \notin {"r_settime", "r_sched", "u_zombie"} \cup Ending
      BY <1>3, <3>1 DEF InstallStep, InstallScan, InstallCreate, InstallCreateFails, InstallMutex,
         InstallMutexFails, InstallPublish, CallerAt, Goto, Return, Ending, TypeInv, TypeOK,
         CallerType
    <3> QED
      BY <3>1, <3>2 DEF Cleared, Leaving, Others
  <2>2. ASSUME NEW t \in Slots, ~ NoFlags(t)'
        PROVE  cb'[t] = cb[t] /\ state'[t] = state[t]
    <3>1. CASE state[t] \subseteq {"ALLOC"}
      BY <1>3, <2>2, <3>1, InstallBits DEF SlotInv, NoFlags, TypeInv, TypeOK, SlotType
    <3>2. CASE ~ (state[t] \subseteq {"ALLOC"})
      BY <1>3, <3>2, InstallKeeps
    <3> QED
      BY <3>1, <3>2
  <2> QED
    BY <1>1, <2>1, <2>2 DEF NoFlags
<1>4. CASE WorkerStep \/ PollInterrupted
  <2>1. UNCHANGED <<callerVars, cb>>
    BY <1>4, WorkerFrame
  <2>2. \A d \in Callers, t \in Slots : Cleared(d, t)' => Cleared(d, t)
    BY <2>1 DEF Cleared, Leaving, callerVars
  <2>3. \A t \in Slots : /\ "ZOMBIE" \in state'[t] => "ZOMBIE" \in state[t]
                         /\ NoFlags(t) => NoFlags(t)'
    BY <1>4, WorkerBits DEF SlotInv, NoFlags, TypeInv, TypeOK, SlotType
  <2> QED
    BY <1>1, <2>1, <2>2, <2>3
<1>5. CASE EnterCall
  <2>1. UNCHANGED <<state, cb>>
    BY <1>5, EnterFrame DEF sharedVars
  <2>2. \A d \in Callers, t \in Slots : Cleared(d, t)' => Cleared(d, t)
    <3>1. \A o \in TimerOps : Entry[o] \notin {"r_settime", "r_sched", "u_zombie"} \cup Ending
      BY DEF TimerOps, Entry, Ending
    <3>2. Entry["install"] \notin {"r_settime", "r_sched", "u_zombie"} \cup Ending
      BY DEF Entry, Ending
    <3>3. ASSUME NEW c \in Callers, NEW o \in TimerOps \cup {"install"}, NEW t \in Slots,
                 Begin(c, o, t)
          PROVE  \A d \in Callers, u \in Slots : Cleared(d, u)' => Cleared(d, u)
      BY <3>1, <3>2, <3>3 DEF Begin, Cleared, Leaving, TypeInv, TypeOK, CallerType
    <3> QED
      BY <1>5, <3>3, NAssumption DEF EnterCall, ClientInstall, ClientCall, CallbackCall, Callers,
         Slots, TypeInv, IndexInv, WorkerIndex, AtTimer
  <2> QED
    BY <1>1, <2>1, <2>2 DEF NoFlags
<1>6. CASE \E f \in Fds : Expire(f)
  BY <1>1, <1>6 DEF Expire, SetTfd, callerVars, NoFlags, Cleared, Leaving
<1> QED
  BY <1>2, <1>3, <1>4, <1>5, <1>6, NextCases, CallerClear

LEMMA NextOnce ==
  ASSUME TypeInv, SlotInv, FlagInv, Next
  PROVE  OnceInv'
<1>0. OnceInv
  BY DEF FlagInv
<1>1. ASSUME UNCHANGED <<wi, wpc>> \/ wpc \notin {"push", "unsched", "overrun"},
             \A t \in Slots : \/ ~ ({"ACTIVE", "SCHED"} \subseteq state'[t])
                              \/ cb'[t] = cb[t] /\ state'[t] = state[t]
      PROVE  OnceInv'
  BY <1>0, <1>1 DEF OnceInv, RestartedByCallback
<1>2. CASE CtxInit \/ DeinitExit \/ DeinitStep
  <2>1. CASE CtxInit
    BY <1>1, <2>1 DEF CtxInit, SlotInv, LifeInv
  <2>2. CASE DeinitCleanup
    BY <1>1, <2>2 DEF DeinitCleanup, workerVars
  <2>3. CASE DeinitExit \/ DeinitTrigger \/ DeinitJoin
    BY <1>1, <2>3 DEF DeinitExit, DeinitTrigger, DeinitJoin, sharedVars, workerVars
  <2> QED
    BY <1>2, <2>1, <2>2, <2>3 DEF DeinitStep
<1>3. ASSUME NEW c \in Callers, CallerStep(c) PROVE OnceInv'
  <2>1. UNCHANGED <<wpc, wi, cb>>
    BY <1>3, CallerFrame DEF workerVars
  <2>2. \A t \in Slots : ~ RestartedByCallback(t) /\ {"ACTIVE", "SCHED"} \subseteq state'[t] =>
                            {"ACTIVE", "SCHED"} \subseteq state[t]
    BY <1>3, CallerFlags
  <2> QED
    BY <1>0, <2>1, <2>2 DEF OnceInv, RestartedByCallback
<1>4. ASSUME NEW c \in Clients, InstallStep(c) PROVE OnceInv'
  <2>1. ASSUME NEW t \in Slots, {"ACTIVE", "SCHED"} \subseteq state'[t]
        PROVE  cb'[t] = cb[t] /\ state'[t] = state[t]
    <3>1. CASE state[t] \subseteq {"ALLOC"}
      BY <1>4, <2>1, <3>1, InstallBits DEF SlotInv, TypeInv, TypeOK, SlotType
    <3>2. CASE ~ (state[t] \subseteq {"ALLOC"})
      BY <1>4, <3>2, InstallKeeps
    <3> QED
      BY <3>1, <3>2
  <2> QED
    BY <1>1, <1>4, <2>1, InstallFrame DEF workerVars
<1>5. CASE WorkerStep \/ PollInterrupted
  <2>1. UNCHANGED cb
    BY <1>5, WorkerFrame
  <2>2. wpc \in {"push", "unsched", "overrun"} =>
           (UNCHANGED wi /\ wpc' \in {"unsched", "overrun"}) \/ wpc = "unsched"
    BY <1>5 DEF WorkerStep, PollInterrupted, WorkerAt, WorkerTop, PrepareTest, CleanupClose,
       CleanupState, CleanupMutex, PrepareActive, PrepareCas, PreparePush, PrepareUnsched, Poll,
       Polled, ServiceRead, ServiceLookup, AlarmLock, AlarmTest, CallbackReturn, AlarmUnlock,
       AlarmDone
  <2>3. CASE wpc = "unsched"
    <3>1. wi \in Slots /\ state' = [state EXCEPT ![wi] = state[wi] \ {"SCHED"}]
      BY <1>5, <2>3 DEF WorkerStep, PollInterrupted, WorkerAt, WorkerTop, PrepareTest,
         CleanupClose, CleanupState, CleanupMutex, PrepareActive, PrepareCas, PreparePush,
         PrepareUnsched, Poll, Polled, ServiceRead, ServiceLookup, AlarmLock, AlarmTest,
         CallbackReturn, AlarmUnlock, AlarmDone, SetState, mask_clear, TypeInv, IndexInv,
         WorkerIndex, AtSlot
    <3> QED
      BY <1>0, <2>1, <2>3, <3>1 DEF OnceInv, RestartedByCallback, TypeInv, TypeOK, SlotType
  <2>4. CASE wpc = "cas"
    <3>1. \A t \in Slots : {"ACTIVE", "SCHED"} \subseteq state'[t] =>
             {"ACTIVE", "SCHED"} \subseteq state[t] \/ (wi' = t /\ wpc' = "push")
      BY <1>5, <2>4, WorkerBits DEF SlotInv, TypeInv, TypeOK, SlotType
    <3> QED
      BY <1>0, <2>1, <2>4, <3>1 DEF OnceInv, RestartedByCallback
  <2>5. CASE wpc \notin {"unsched", "cas"}
    <3>1. \A t \in Slots : {"ACTIVE", "SCHED"} \subseteq state'[t] =>
             {"ACTIVE", "SCHED"} \subseteq state[t]
      BY <1>5, <2>5, WorkerBits DEF SlotInv, TypeInv, TypeOK, SlotType
    <3> QED
      BY <1>0, <2>1, <2>2, <2>5, <3>1 DEF OnceInv, RestartedByCallback
  <2> QED
    BY <2>3, <2>4, <2>5
<1>6. CASE EnterCall
  BY <1>1, <1>6, EnterFrame DEF sharedVars, workerVars, WGoto, Callers
<1>7. CASE \E f \in Fds : Expire(f)
  BY <1>1, <1>7 DEF Expire, SetTfd, workerVars
<1> QED
  BY <1>2, <1>3, <1>4, <1>5, <1>6, <1>7, NextCases

LEMMA NextStart ==
  ASSUME TypeInv, SlotInv, FlagInv, Next
  PROVE  StartInv'
<1>0. StartInv
  BY DEF FlagInv
<1>1. CASE UNCHANGED callerVars
  BY <1>0, <1>1 DEF StartInv, callerVars
<1>2. ASSUME NEW c \in Callers, CallerStep(c) PROVE StartInv'
  <2>1. pc'[c] \in Starting => op'[c] = op[c] /\ pc[c] \in Starting
    BY <1>2 DEF CallerStep, CallerAt, StartCheck, RestartClear, RestartSettime, RestartSched,
       RestartTrigger, StopClear, StopSettime, StopTrigger, UninstallLock, UninstallUnlock,
       UninstallZombie, Goto, Return, Starting, TypeInv, TypeOK, CallerType
  <2> QED
    BY <1>0, <1>2, <2>1, CallerFrame DEF StartInv, Others
<1>3. ASSUME NEW c \in Clients, InstallStep(c) PROVE StartInv'
  <2>1. pc'[c] \notin Starting
    BY <1>3, InstallFrame DEF InstallStep, InstallScan, InstallCreate, InstallCreateFails,
       InstallMutex, InstallMutexFails, InstallPublish, CallerAt, Goto, Return, Starting, TypeInv,
       TypeOK, CallerType
  <2> QED
    BY <1>0, <1>3, <2>1, InstallFrame DEF StartInv, Others
<1>4. CASE EnterCall
  <2>1. ASSUME NEW c \in Callers, NEW o \in TimerOps \cup {"install"}, NEW t \in Slots,
               Begin(c, o, t)
        PROVE  StartInv'
    BY <1>0, <2>1 DEF StartInv, Begin, Entry, Starting, TimerOps, TypeInv, TypeOK, CallerType
  <2> QED
    BY <1>4, <2>1, NAssumption DEF EnterCall, ClientInstall, ClientCall, CallbackCall, Callers,
       Slots, TypeInv, IndexInv, WorkerIndex, AtTimer
<1>5. CASE CtxInit \/ DeinitExit \/ DeinitStep
  BY <1>1, <1>5 DEF CtxInit, DeinitExit, DeinitStep, DeinitTrigger, DeinitJoin, DeinitCleanup
<1>6. CASE WorkerStep \/ PollInterrupted
  BY <1>1, <1>6, WorkerFrame
<1>7. CASE \E f \in Fds : Expire(f)
  BY <1>1, <1>7 DEF Expire
<1> QED
  BY <1>2, <1>3, <1>4, <1>5, <1>6, <1>7, NextCases

LEMMA NextFlag ==
  ASSUME TypeInv, SlotInv, FlagInv, Next
  PROVE  FlagInv'
  BY NextStart, NextClear, NextOnce DEF FlagInv

-----------------------------------------------------------------------------
(* What the worker reads.                                                   *)

Serving == {"polled", "service", "lookup"} \cup AtTimer

\* An active timer that no callback of its own restarts.
Live(t) == "ACTIVE" \in state[t] /\ ~ RestartedByCallback(t)

\* The worker has read the timerfd of t and not yet looked at its flags.
Taken(t) ==
    \/ wpc = "lookup" /\ fd[t] = pfds[wi]
    \/ wpc \in {"lock", "alarm_test"} /\ firing = t

\* A timerfd that poll reported has not been armed since, nor has one that was
\* read, unless the timer is not active any more.
ReadyInv == wpc \in Serving => \A t \in Slots : Live(t) /\ fd[t] \in ready => tfd[fd[t]] # "armed"
TakenInv == \A t \in Slots : Live(t) /\ Taken(t) => tfd[fd[t]] = "disarmed"

ReadInv == ReadyInv /\ TakenInv

\* The descriptor of an active timer, while the worker is not cleaning up.
LEMMA LiveOwns ==
  ASSUME TypeInv, SlotInv, FdInv, NEW t \in Slots, Live(t), wpc # "cleanup_state"
  PROVE  /\ OwnsFd(t) /\ fd[t] \in Fds /\ tfd[fd[t]] \in {"disarmed", "armed", "expired"}
         /\ ~ (state[t] \subseteq {"ALLOC"})
<1>1. "USED" \in state[t]
  BY DEF Live, SlotInv, BitsInv
<1> QED
  BY <1>1 DEF OwnsFd, FdInv, FdsAccounted, TypeInv, TypeOK, SlotType

\* What the descriptor of an active timer goes through meanwhile.
Calms(t) ==
    /\ Live(t) /\ fd'[t] = fd[t]
    /\ \/ tfd'[fd[t]] = tfd[fd[t]]
       \/ tfd'[fd[t]] = "disarmed"
       \/ tfd[fd[t]] = "armed" /\ tfd'[fd[t]] = "expired"

LEMMA CallerCalms ==
  ASSUME TypeInv, SlotInv, FdInv, FlagInv, wpc # "cleanup_state",
         NEW c \in Callers, CallerStep(c), NEW t \in Slots, Live(t)'
  PROVE  Calms(t)
<1>1. UNCHANGED <<cb, fd>>
  BY CallerFrame, CallerFds
<1>2. Live(t)
  BY <1>1, CallerFlags DEF Live, RestartedByCallback
<1>3. CASE UNCHANGED tfd
  BY <1>1, <1>2, <1>3 DEF Calms
<1>4. CASE pc[c] \in {"r_settime", "s_settime"} /\ t = tgt[c]
  <2>1. pc[c] # "r_settime"
    BY <1>2, <1>4 DEF FlagInv, ClearInv, Cleared, NoFlags, Live
  <2> QED
    BY <1>1, <1>2, <1>3, <1>4, <2>1, CallerFds, LiveOwns DEF Calms, TypeInv, TypeOK, SlotType
<1>5. CASE pc[c] \in {"r_settime", "s_settime"} /\ t # tgt[c]
  <2>1. fd[tgt[c]] # fd[t]
    BY <1>2, <1>5, SetterOwns, LiveOwns DEF FdInv, FdsAccounted
  <2> QED
    BY <1>1, <1>2, <1>3, <1>5, <2>1, CallerFds, LiveOwns DEF Calms, TypeInv, TypeOK, SlotType
<1> QED
  BY <1>3, <1>4, <1>5, CallerFds

LEMMA InstallCalms ==
  ASSUME TypeInv, SlotInv, FdInv, wpc # "cleanup_state",
         NEW c \in Clients, InstallStep(c), NEW t \in Slots, Live(t)'
  PROVE  Calms(t)
<1>1. ~ (state[t] \subseteq {"ALLOC"})
  BY InstallBits DEF SlotInv, Live, TypeInv, TypeOK, SlotType
<1>2. Live(t) /\ fd'[t] = fd[t]
  BY <1>1, InstallKeeps DEF Live, RestartedByCallback
<1>3. CASE InstallCreate(c)
  <2>1. PICK f \in Fds : tfd[f] = "closed" /\ tfd' = [tfd EXCEPT ![f] = "disarmed"]
    BY <1>3 DEF InstallCreate
  <2> QED
    BY <1>2, <2>1, LiveOwns DEF Calms, TypeInv, TypeOK, SlotType
<1>4. CASE InstallMutexFails(c)
  <2>1. tgt[c] \in Slots /\ Creates(c, tgt[c]) /\ Makes(c, tgt[c])
    BY <1>4, InstallBits DEF SlotInv, InstallMutexFails, CallerAt, Creates, Makes, Making
  <2>2. OwnsFd(tgt[c]) /\ tgt[c] # t
    BY <1>1, <2>1 DEF OwnsFd, Creates, SlotInv, OwnerInv
  <2>3. fd[tgt[c]] # fd[t]
    BY <1>2, <2>1, <2>2, LiveOwns DEF FdInv, FdsAccounted
  <2>4. tfd' = [tfd EXCEPT ![fd[tgt[c]]] = "closed"]
    BY <1>4 DEF InstallMutexFails
  <2> QED
    BY <1>2, <2>3, <2>4, LiveOwns DEF Calms, TypeInv, TypeOK, SlotType
<1>5. CASE ~ InstallCreate(c) /\ ~ InstallMutexFails(c)
  <2>1. UNCHANGED tfd
    BY <1>5 DEF InstallStep, InstallScan, InstallCreateFails, InstallMutex, InstallPublish,
       SetState, SetLock, sharedVars
  <2> QED
    BY <1>2, <2>1 DEF Calms
<1> QED
  BY <1>3, <1>4, <1>5

\* A step of another thread.
LEMMA CalmRead ==
  ASSUME ReadInv, \A t \in Slots : wpc # "cleanup_state" /\ Live(t)' => Calms(t),
         UNCHANGED <<wi, pfds, ready, firing>>,
         wpc' = wpc \/ (wpc = "callback" /\ wpc' = "incall")
  PROVE  ReadInv'
<1>1. wpc' \in Serving \/ (\E t \in Slots : Taken(t)') => wpc # "cleanup_state" /\ wpc \in Serving
  BY DEF Serving, AtTimer, Taken
<1>2. ReadyInv'
  BY <1>1 DEF ReadInv, ReadyInv, Calms
<1>3. ASSUME NEW t \in Slots, Live(t)', Taken(t)'
      PROVE  tfd'[fd'[t]] = "disarmed"
  <2>1. Calms(t) /\ Taken(t)
    BY <1>1, <1>3 DEF Calms, Taken
  <2> QED
    BY <2>1 DEF ReadInv, TakenInv, Calms
<1> QED
  BY <1>2, <1>3 DEF ReadInv, TakenInv

LEMMA WorkerRead ==
  ASSUME TypeInv, SlotInv, FdInv, FlagInv, ReadInv, WorkerStep \/ PollInterrupted
  PROVE  ReadInv'
<1>1. UNCHANGED <<cb, fd>>
  BY WorkerFrame, WorkerFds
<1>2. CASE ServiceRead /\ wpc' = "lookup"
  <2>1. /\ wpc = "service" /\ UNCHANGED <<wi, pfds, ready, state>> /\ pfds[wi] \in ready
        /\ tfd' = [tfd EXCEPT ![pfds[wi]] = TimerfdRead(tfd[pfds[wi]])]
    BY <1>2 DEF ServiceRead, WorkerAt, WGoto, WNext, SetTfd
  <2>2. ASSUME NEW t \in Slots, Live(t)
        PROVE  /\ fd[t] \in ready => tfd'[fd[t]] # "armed"
               /\ fd[t] = pfds[wi] => tfd'[fd[t]] = "disarmed"
    <3>1. fd[t] \in Fds /\ tfd[fd[t]] \in {"disarmed", "armed", "expired"}
      BY <2>1, <2>2, LiveOwns
    <3>2. fd[t] \in ready => tfd[fd[t]] # "armed"
      BY <2>1, <2>2 DEF ReadInv, ReadyInv, Serving
    <3>3. tfd'[fd[t]] = IF fd[t] = pfds[wi] THEN TimerfdRead(tfd[fd[t]]) ELSE tfd[fd[t]]
      BY <2>1, <3>1 DEF TypeInv, TypeOK, SlotType
    <3> QED
      BY <2>1, <3>1, <3>2, <3>3 DEF TimerfdRead
  <2>3. \A t \in Slots : (Live(t)' <=> Live(t)) /\ (Taken(t)' <=> fd[t] = pfds[wi])
    BY <1>1, <1>2, <2>1 DEF Live, RestartedByCallback, Taken
  <2> QED
    BY <1>1, <2>1, <2>2, <2>3 DEF ReadInv, ReadyInv, TakenInv
<1>3. CASE Poll
  <2>1. /\ ready' = {f \in PollSet : IsReadable(f)} /\ UNCHANGED <<state, tfd>> /\ wpc' = "polled"
        /\ wpc = "poll"
    BY <1>3 DEF Poll, WorkerAt, sharedVars
  <2>2. ASSUME NEW t \in Slots, Live(t), fd[t] \in ready'
        PROVE  tfd[fd[t]] = "expired"
    BY <2>1, <2>2, LiveOwns, FdAssumption DEF IsReadable
  <2> QED
    BY <1>1, <2>1, <2>2 DEF ReadInv, ReadyInv, TakenInv, Taken, Live, RestartedByCallback
<1>4. CASE ~ Poll /\ ~ (ServiceRead /\ wpc' = "lookup")
  <2>1. CASE wpc' \notin Serving
    BY <2>1 DEF ReadInv, ReadyInv, TakenInv, Taken, Serving, AtTimer
  <2>2. CASE wpc' \in Serving
    <3>1. wpc \in Serving /\ UNCHANGED <<pfds, ready, tfd>>
      BY <1>4, <2>2 DEF WorkerStep, PollInterrupted, WorkerAt, WGoto, WNext, WorkerTop,
         PrepareTest, CleanupClose, CleanupState, CleanupMutex, PrepareActive, PrepareCas,
         PreparePush, PrepareUnsched, Poll, Polled, ServiceRead, ServiceLookup, AlarmLock,
         AlarmTest, CallbackReturn, AlarmUnlock, AlarmDone, SetState, SetLock, sharedVars,
         Serving, AtTimer
    <3>2. \A t \in Slots : Live(t)' => Live(t)
      BY <1>1, <3>1, WorkerBits DEF SlotInv, Live, RestartedByCallback, Serving, AtTimer, TypeInv,
         TypeOK, SlotType
    <3>3. \A t \in Slots : Taken(t)' => Taken(t)
      BY <1>1, <1>4, <3>1 DEF WorkerStep, PollInterrupted, WorkerAt, WGoto, WNext, WorkerTop,
         PrepareTest, CleanupClose, CleanupState, CleanupMutex, PrepareActive, PrepareCas,
         PreparePush, PrepareUnsched, Polled, ServiceRead, ServiceLookup, timer_from_fd,
         AlarmLock, AlarmTest, CallbackReturn, AlarmUnlock, AlarmDone, Taken
    <3> QED
      BY <1>1, <3>1, <3>2, <3>3 DEF ReadInv, ReadyInv, TakenInv
  <2> QED
    BY <2>1, <2>2
<1> QED
  BY <1>2, <1>3, <1>4

LEMMA NextRead ==
  ASSUME TypeInv, SlotInv, FdInv, FlagInv, ReadInv, Next
  PROVE  ReadInv'
<1>1. CASE CtxInit \/ DeinitExit \/ DeinitStep
  <2>1. CASE CtxInit \/ DeinitCleanup
    <3>1. wpc' \in {"top", "exited"}
      BY <2>1 DEF CtxInit, DeinitCleanup, workerVars, SlotInv, LifeInv
    <3> QED
      BY <3>1 DEF ReadInv, ReadyInv, TakenInv, Taken, Serving, AtTimer
  <2>2. CASE DeinitExit \/ DeinitTrigger \/ DeinitJoin
    <3>1. UNCHANGED <<sharedVars, workerVars>>
      BY <2>2 DEF DeinitExit, DeinitTrigger, DeinitJoin
    <3> QED
      BY <3>1, CalmRead DEF Calms, Live, RestartedByCallback, sharedVars, workerVars
  <2> QED
    BY <1>1, <2>1, <2>2 DEF DeinitStep
<1>2. ASSUME NEW c \in Callers, CallerStep(c) PROVE ReadInv'
  BY <1>2, CallerCalms, CalmRead, CallerFrame DEF workerVars
<1>3. ASSUME NEW c \in Clients, InstallStep(c) PROVE ReadInv'
  BY <1>3, InstallCalms, CalmRead, InstallFrame DEF workerVars
<1>4. CASE EnterCall
  BY <1>4, CalmRead, EnterFrame DEF Calms, Live, RestartedByCallback, sharedVars, workerVars,
     WGoto, Callers
<1>5. ASSUME NEW f \in Fds, Expire(f) PROVE ReadInv'
  <2>1. /\ UNCHANGED <<state, cb, fd, workerVars>> /\ tfd[f] = "armed"
        /\ tfd' = [tfd EXCEPT ![f] = "expired"]
    BY <1>5 DEF Expire, SetTfd
  <2>2. \A t \in Slots : wpc # "cleanup_state" /\ Live(t)' => Calms(t)
    BY <2>1, LiveOwns DEF Calms, Live, RestartedByCallback, TypeInv, TypeOK, SlotType
  <2> QED
    BY <2>1, <2>2, CalmRead DEF workerVars
<1> QED
  BY <1>1, <1>2, <1>3, <1>4, <1>5, NextCases, WorkerRead

-----------------------------------------------------------------------------

FireInv == IInv /\ EventInv /\ FdInv /\ PollInv /\ FlagInv /\ ReadInv

LEMMA InitFireInv == Init => FireInv
<1> SUFFICES ASSUME Init PROVE FireInv
  OBVIOUS
<1>1. IInv
  BY InitIInv
<1>2. \A t \in Slots : ~ OwnsFd(t)
  BY DEF Init, OwnsFd, Callers
<1>3. EventInv /\ FdInv /\ PollInv
  BY <1>2 DEF Init, EventInv, FdInv, FdsAccounted, FreeInv, PollInv
<1>4. FlagInv
  BY DEF Init, FlagInv, StartInv, ClearInv, OnceInv, NoFlags, Starting
<1>5. ReadInv
  BY DEF Init, ReadInv, ReadyInv, TakenInv, Live
<1> QED
  BY <1>1, <1>3, <1>4, <1>5 DEF FireInv

LEMMA NextFireInv == FireInv /\ [Next]_vars => FireInv'
<1> SUFFICES ASSUME FireInv, [Next]_vars PROVE FireInv'
  OBVIOUS
<1>1. IInv' /\ TypeInv /\ SlotInv
  BY NextIInv DEF FireInv, IInv
<1>2. CASE Next
  BY <1>1, <1>2, NextEvent, NextFd, NextPoll, NextFlag, NextRead DEF FireInv
<1>3. CASE UNCHANGED vars
  <2> USE DEF vars, sharedVars, workerVars, callerVars, ctxVars, useVars
  <2>1. EventInv' /\ FdInv'
    BY <1>3 DEF FireInv, EventInv, FdInv, FdsAccounted, FreeInv, OwnsFd
  <2>2. PollInv'
    BY <1>3 DEF FireInv, PollInv, Polls
  <2>3. FlagInv'
    BY <1>3 DEF FireInv, FlagInv, StartInv, ClearInv, OnceInv, NoFlags, Cleared, Leaving,
       RestartedByCallback
  <2>4. ReadInv'
    BY <1>3 DEF FireInv, ReadInv, ReadyInv, TakenInv, Taken, Live, RestartedByCallback
  <2> QED
    BY <1>1, <2>1, <2>2, <2>3, <2>4 DEF FireInv
<1> QED
  BY <1>2, <1>3

LEMMA FireInvariance == Spec => []FireInv
  BY InitFireInv, NextFireInv, PTL DEF Spec

\* The assertion of trigger_reset: a call that wakes the worker finds the eventfd
\* open, whatever deinit does.
THEOREM TriggersOpen == Spec => []TriggerOpen
<1>1. FireInv => TriggerOpen
  BY EventOpen DEF FireInv, IInv, SlotInv, TriggerOpen
<1> QED
  BY <1>1, FireInvariance, PTL

\* gabs_timer_install, timer_cleanup and deinit: the open timerfds are those of the
\* slots, one each, on the error paths too.
THEOREM TimerfdsAccounted == Spec => []FdsAccounted
<1>1. FireInv => FdsAccounted
  BY DEF FireInv, FdInv
<1> QED
  BY <1>1, FireInvariance, PTL

\* prepare_pfds and timer_cleanup: what is in the poll set stays the descriptor of a
\* timer until the set is built anew.
THEOREM PollSetStaysOwned == Spec => []PollSetOwned
<1>1. FireInv => PollSetOwned
  <2> SUFFICES ASSUME FireInv, wpc \notin {"top", "exited"}, NEW i \in 1 .. Len(pfds),
                      pfds[i] # EventFd
               PROVE  \E t \in Slots : "USED" \in state[t] /\ fd[t] = pfds[i]
                                       /\ tfd[pfds[i]] # "closed"
    BY DEF PollSetOwned
  <2>1. PICK t \in Slots : Polls(t, pfds[i])
    BY DEF FireInv, PollInv
  <2>2. ~ (wpc = "cleanup_state" /\ wi = t)
    BY <2>1 DEF Polls, Preparing, Slots
  <2>3. OwnsFd(t)
    BY <2>1, <2>2 DEF OwnsFd, Polls
  <2> QED
    BY <2>1, <2>3 DEF Polls, FireInv, FdInv, FdsAccounted
<1> QED
  BY <1>1, FireInvariance, PTL

\* service_pfds and timer_alarm: a callback is invoked for an expiration of the last
\* start of its timer, and not before.
THEOREM NotEarly == Spec => NoEarlyFire
<1>1. FireInv /\ [Next]_vars =>
         [wpc = "alarm_test" /\ wpc' = "callback" /\ ~ RestartedByCallback(firing)
             => tfd[fd[firing]] = "disarmed"]_vars
  <2> SUFFICES ASSUME FireInv, Next, wpc = "alarm_test", wpc' = "callback",
                      ~ RestartedByCallback(firing)
               PROVE  tfd[fd[firing]] = "disarmed"
    BY DEF vars, workerVars
  <2>1. TypeInv /\ SlotInv /\ firing \in Slots
    BY DEF FireInv, IInv, TypeInv, IndexInv, WorkerIndex, AtTimer
  <2>2. WorkerStep \/ PollInterrupted
    <3>1. ~ (CtxInit \/ DeinitExit \/ DeinitStep)
      BY <2>1 DEF SlotInv, LifeInv, CtxInit, DeinitExit, DeinitStep, DeinitTrigger, DeinitJoin,
         DeinitCleanup, workerVars
    <3>2. ~ EnterCall
      BY <2>1, EnterFrame DEF workerVars, Callers
    <3> QED
      BY <2>1, <3>1, <3>2, NextCases, CallerFrame, InstallFrame DEF Expire, workerVars
  <2>3. AlarmTest
    BY <2>2 DEF WorkerStep, PollInterrupted, WorkerAt, WorkerTop, PrepareTest, CleanupClose,
       CleanupState, CleanupMutex, PrepareActive, PrepareCas, PreparePush, PrepareUnsched, Poll,
       Polled, ServiceRead, ServiceLookup, AlarmLock, CallbackReturn, AlarmUnlock, AlarmDone
  <2>4. Live(firing) /\ Taken(firing)
    BY <2>3 DEF AlarmTest, WGoto, mask_test, mask_get, Live, Taken
  <2> QED
    BY <2>1, <2>4 DEF FireInv, ReadInv, TakenInv
<1> QED
  BY <1>1, FireInvariance, PTL DEF Spec, NoEarlyFire

-----------------------------------------------------------------------------
(* The refinement of Timer.  A step of a thread changes the phase of at most *)
(* one timer.                                                               *)

Still == UNCHANGED <<Phase, Running>>

Kept(t) == (Promised(t)' <=> Promised(t)) /\ (Promised(t) => (Armed(t)' <=> Armed(t)))

LEMMA StillMaps ==
  ASSUME Running' = Running, \A t \in Slots : Kept(t)
  PROVE  Still
  BY DEF Still, Phase, Kept

LEMMA OneMaps ==
  ASSUME Running' = Running, NEW t \in Slots, \A u \in Slots \ {t} : Kept(u),
         \/ ~ Promised(t)'
         \/ Promised(t)
         \/ ~ Armed(t)'
  PROVE  Interface!Next \/ Still
<1>1. CASE Phase' = Phase
  BY <1>1 DEF Still
<1>2. CASE Phase' # Phase
  <2> USE DEF Interface!Next, Interface!Call
  <2>1. CASE ~ Promised(t)'
    <3>1. Phase' = [u \in Slots |-> IF u \in {t} THEN "none" ELSE Phase[u]]
      BY <2>1 DEF Phase, Kept
    <3> QED
      BY <1>2, <3>1 DEF Interface!Remove
  <2>2. CASE Promised(t)' /\ ~ Promised(t) /\ ~ Armed(t)'
    <3>1. Phase[t] = "none" /\ Phase' = [Phase EXCEPT ![t] = "idle"]
      BY <2>2 DEF Phase, Kept
    <3> QED
      BY <1>2, <3>1 DEF Interface!Install, Interface!Becomes
  <2>3. CASE Promised(t) /\ Promised(t)' /\ Armed(t) /\ ~ Armed(t)'
    <3>1. Phase[t] = "armed" /\ Phase' = [Phase EXCEPT ![t] = "idle"]
      BY <2>3 DEF Phase, Kept
    <3> QED
      BY <1>2, <3>1 DEF Interface!Disarm, Interface!Becomes
  <2>4. CASE Promised(t) /\ Promised(t)' /\ ~ Armed(t) /\ Armed(t)'
    <3>1. Phase[t] = "idle" /\ Phase' = [Phase EXCEPT ![t] = "armed"]
      BY <2>4 DEF Phase, Kept
    <3> QED
      BY <1>2, <3>1 DEF Interface!Arm, Interface!Becomes
  <2>5. CASE Promised(t) /\ Promised(t)' /\ (Armed(t)' <=> Armed(t))
    <3>1. Phase' = Phase
      BY <2>5 DEF Phase, Kept
    <3> QED
      BY <1>2, <3>1
  <2> QED
    BY <2>1, <2>2, <2>3, <2>4, <2>5
<1> QED
  BY <1>1, <1>2

\* Nothing that the mapping depends on changes.
LEMMA SameMaps ==
  ASSUME UNCHANGED <<state, cb, firing>>, wpc' \in Firing <=> wpc \in Firing,
         wpc' \in {"callback", "incall"} <=> wpc \in {"callback", "incall"}
  PROVE  Still
  BY StillMaps DEF Kept, Promised, Armed, Running, RestartedByCallback, timer_valid

LEMMA CallerMaps ==
  ASSUME FireInv, NEW c \in Callers, CallerStep(c)
  PROVE  Interface!Next \/ Still
<1>1. TypeInv /\ SlotInv
  BY DEF FireInv, IInv
<1>2. UNCHANGED <<cb, wpc, firing>>
  BY <1>1, CallerFrame DEF workerVars
<1>3. PICK t \in Slots : t = tgt[c]
  BY <1>1, CallerFrame DEF TypeInv, IndexInv, CallerIndex
<1>4. /\ \A u \in Slots \ {t} : state'[u] = state[u]
      /\ "USED" \in state'[t] => "USED" \in state[t]
      /\ "ZOMBIE" \in state[t] => "ZOMBIE" \in state'[t]
  BY <1>1, <1>3, CallerBits DEF TypeInv, TypeOK, SlotType
<1>5. \A u \in Slots \ {t} : Kept(u)
  BY <1>2, <1>4 DEF Kept, Promised, Armed, RestartedByCallback, timer_valid
<1>6. ~ Promised(t)' \/ Promised(t)
  BY <1>2, <1>4 DEF Promised, RestartedByCallback, timer_valid, mask_get
<1>7. Running' = Running
  BY <1>2 DEF Running, RestartedByCallback
<1> QED
  BY <1>5, <1>6, <1>7, OneMaps

LEMMA InstallMaps ==
  ASSUME FireInv, NEW c \in Clients, InstallStep(c)
  PROVE  Interface!Next \/ Still
<1>1. TypeInv /\ SlotInv
  BY DEF FireInv, IInv
<1>2. UNCHANGED <<wpc, firing>>
  BY <1>1, InstallFrame DEF workerVars
<1>3. PICK t \in Slots : t = tgt[c]
  BY <1>1, InstallBits DEF SlotInv
<1>4. CASE UNCHANGED <<state, cb>>
  BY <1>2, <1>4, SameMaps
<1>5. CASE ~ UNCHANGED <<state, cb>>
  <2>1. /\ \A u \in Slots \ {t} : state'[u] = state[u] /\ cb'[u] = cb[u]
        /\ state[t] \subseteq {"ALLOC"} /\ state'[t] \subseteq {"ALLOC", "USED"}
    BY <1>1, <1>3, <1>5, InstallBits DEF SlotInv, TypeInv, TypeOK, SlotType
  <2>2. \A u \in Slots \ {t} : Kept(u)
    BY <1>2, <2>1 DEF Kept, Promised, Armed, RestartedByCallback, timer_valid
  <2>3. ~ Armed(t)'
    BY <2>1 DEF Armed
  <2>4. wpc \in {"callback", "incall"} => firing \in Slots \ {t}
    BY <1>1, <2>1 DEF TypeInv, IndexInv, WorkerIndex, AtTimer, SlotInv, BitsInv
  <2>5. Running' = Running
    BY <1>2, <2>1, <2>4 DEF Running, RestartedByCallback
  <2> QED
    BY <2>2, <2>3, <2>5, OneMaps
<1> QED
  BY <1>4, <1>5

LEMMA LifeMaps ==
  ASSUME FireInv, CtxInit \/ DeinitExit \/ DeinitStep
  PROVE  Interface!Next \/ Still
<1>1. TypeInv /\ SlotInv /\ FreeInv
  BY DEF FireInv, IInv, FdInv
<1>2. CASE CtxInit
  <2>1. Running = <<>> /\ Running' = <<>>
    BY <1>1, <1>2 DEF CtxInit, SlotInv, LifeInv, Running
  <2>2. \A t \in Slots : ~ Promised(t) /\ ~ Promised(t)'
    BY <1>1, <1>2 DEF CtxInit, FreeInv, Promised, timer_valid, mask_get
  <2> QED
    BY <2>1, <2>2, StillMaps DEF Kept
<1>3. CASE DeinitCleanup
  <2>1. Running' = Running
    BY <1>1, <1>3 DEF DeinitCleanup, workerVars, SlotInv, LifeInv, Running
  <2>2. \A t \in Slots : "USED" \notin state'[t]
    BY <1>3 DEF DeinitCleanup, mask_test, mask_get
  <2>3. Phase' = [t \in Slots |-> IF t \in Slots THEN "none" ELSE Phase[t]]
    BY <2>2 DEF Phase, Promised, timer_valid, mask_get
  <2> QED
    BY <2>1, <2>3 DEF Still, Interface!Next, Interface!Call, Interface!Remove
<1>4. CASE DeinitExit \/ DeinitTrigger \/ DeinitJoin
  BY <1>4, SameMaps DEF DeinitExit, DeinitTrigger, DeinitJoin, sharedVars, workerVars
<1> QED
  BY <1>2, <1>3, <1>4 DEF DeinitStep

\* The steps of the worker at which the phase of a timer is read or written.
LEMMA PrepareMaps ==
  ASSUME FireInv, CleanupState \/ PrepareCas \/ PrepareUnsched
  PROVE  Interface!Next \/ Still
<1>1. TypeInv /\ SlotInv
  BY DEF FireInv, IInv
<1>2. PICK t \in Slots : t = wi
  BY <1>1 DEF CleanupState, PrepareCas, PrepareUnsched, WorkerAt, TypeInv, IndexInv, WorkerIndex,
     AtSlot
<1>3. /\ wpc \in {"cleanup_state", "cas", "unsched"} /\ wpc' \notin Firing
      /\ UNCHANGED <<cb, firing>>
  BY DEF CleanupState, PrepareCas, PrepareUnsched, WorkerAt, WGoto, WNext, SetState, Firing
<1>4. /\ \A u \in Slots \ {t} : state'[u] = state[u]
      /\ \/ state'[t] = {}
         \/ state'[t] = state[t]
         \/ state'[t] = state[t] \cup {"ACTIVE"}
         \/ state'[t] = state[t] \ {"SCHED"}
  BY <1>1, <1>2, <1>3, WorkerBits DEF WorkerStep, SlotInv, TypeInv, TypeOK, SlotType
<1>5. \A u \in Slots \ {t} : Kept(u)
  BY <1>3, <1>4 DEF Kept, Promised, Armed, RestartedByCallback, timer_valid, Firing
<1>6. ~ Promised(t)' \/ Promised(t)
  BY <1>3, <1>4 DEF Promised, RestartedByCallback, timer_valid, mask_get
<1>7. Running' = Running
  BY <1>3 DEF Running, Firing
<1> QED
  BY <1>5, <1>6, <1>7, OneMaps

LEMMA LookupMaps ==
  ASSUME FireInv, ServiceLookup
  PROVE  Interface!Next \/ Still
<1>1. /\ UNCHANGED <<state, cb>> /\ wpc = "lookup"
      /\ \/ firing' = firing /\ wpc' = "service"
         \/ firing' \in Slots /\ wpc' \in {"lock", "unactive"}
  BY DEF ServiceLookup, WorkerAt, WNext, sharedVars, timer_from_fd
<1>2. Running' = Running
  BY <1>1 DEF Running
<1>3. CASE firing' \in Slots
  <2>1. PICK t \in Slots : t = firing'
    BY <1>3
  <2>2. \A u \in Slots \ {t} : Kept(u)
    BY <1>1, <2>1 DEF Kept, Promised, Armed, RestartedByCallback, timer_valid, Firing
  <2>3. Promised(t)' <=> Promised(t)
    BY <1>1 DEF Promised, RestartedByCallback, timer_valid
  <2> QED
    BY <1>2, <2>2, <2>3, OneMaps
<1>4. CASE firing' = firing /\ wpc' = "service"
  BY <1>1, <1>4, SameMaps DEF Firing
<1> QED
  BY <1>1, <1>3, <1>4

LEMMA FireMaps ==
  ASSUME FireInv, AlarmTest
  PROVE  Interface!Next \/ Still
<1>1. /\ UNCHANGED <<state, cb, firing>> /\ wpc = "alarm_test" /\ firing \in Slots
      /\ "USED" \in state[firing]
      /\ \/ wpc' = "callback" /\ "ACTIVE" \in state[firing]
         \/ wpc' = "unlock" /\ "ACTIVE" \notin state[firing]
  BY DEF FireInv, IInv, TypeInv, IndexInv, WorkerIndex, AtTimer, SlotInv, BitsInv, AlarmTest,
     WorkerAt, WGoto, sharedVars, mask_test, mask_get
<1>2. \A u \in Slots \ {firing} : Kept(u)
  BY <1>1 DEF Kept, Promised, Armed, RestartedByCallback, timer_valid
<1>3. Promised(firing)' <=> Promised(firing)
  BY <1>1 DEF Promised, RestartedByCallback, timer_valid
<1>4. CASE wpc' = "unlock" \/ RestartedByCallback(firing)
  <2>1. Running' = Running
    BY <1>1, <1>4 DEF Running, RestartedByCallback
  <2>2. Kept(firing)
    BY <1>1, <1>3, <1>4 DEF Kept, Promised, Armed, Firing
  <2> QED
    BY <1>2, <2>1, <2>2, StillMaps
<1>5. CASE wpc' = "callback" /\ ~ RestartedByCallback(firing)
  <2>1. "ZOMBIE" \notin state[firing] /\ "SCHED" \notin state[firing]
    BY <1>1, <1>5 DEF FireInv, FlagInv, ClearInv, OnceInv, NoFlags
  <2>2. Promised(firing) /\ Armed(firing) /\ ~ Armed(firing)'
    BY <1>1, <1>5, <2>1 DEF Promised, timer_valid, mask_get, Armed, Firing
  <2>3. Phase[firing] = "armed" /\ Phase' = [Phase EXCEPT ![firing] = "idle"]
    BY <1>1, <1>2, <1>3, <2>2 DEF Phase, Kept
  <2>4. Running = <<>> /\ Running' = <<firing>>
    BY <1>1, <1>5 DEF Running, RestartedByCallback
  <2>5. Running' = Append(Running, firing) /\ Running' # Running
    BY <2>4
  <2> QED
    BY <1>1, <2>3, <2>5 DEF Interface!Next, Interface!Callback, Interface!Fire
<1> QED
  BY <1>1, <1>4, <1>5

LEMMA ReturnMaps ==
  ASSUME FireInv, CallbackReturn \/ AlarmDone
  PROVE  Interface!Next \/ Still
<1>1. CASE CallbackReturn
  <2>1. /\ UNCHANGED <<state, cb, firing>> /\ wpc \in {"callback", "incall"} /\ wpc' = "unlock"
    BY <1>1 DEF CallbackReturn, WGoto, sharedVars
  <2>2. \A t \in Slots : Kept(t)
    BY <2>1 DEF Kept, Promised, Armed, RestartedByCallback, timer_valid, Firing
  <2>3. Phase' = Phase
    BY <2>2 DEF Phase, Kept
  <2>4. CASE RestartedByCallback(firing)
    BY <2>1, <2>3, <2>4 DEF Still, Running
  <2>5. CASE ~ RestartedByCallback(firing)
    <3>1. Running = <<firing>> /\ Running' = <<>>
      BY <2>1, <2>5 DEF Running
    <3>2. Running # <<>> /\ SubSeq(Running, 1, Len(Running) - 1) = <<>>
      BY <3>1
    <3> QED
      BY <2>3, <3>1, <3>2 DEF Interface!Next, Interface!Callback, Interface!Return
  <2> QED
    BY <2>4, <2>5
<1>2. CASE AlarmDone
  <2>1. /\ firing \in Slots /\ wpc = "unactive" /\ wpc' = "service" /\ firing' = NoSlot
        /\ state' = [state EXCEPT ![firing] = state[firing] \ {"ACTIVE"}] /\ UNCHANGED cb
    BY <1>2 DEF FireInv, IInv, TypeInv, IndexInv, WorkerIndex, AtTimer, AlarmDone, WorkerAt,
       SetState, mask_clear
  <2>2. /\ \A u \in Slots \ {firing} : state'[u] = state[u]
        /\ state'[firing] = state[firing] \ {"ACTIVE"}
    BY <2>1 DEF FireInv, IInv, TypeInv, TypeOK, SlotType
  <2>3. \A t \in Slots : Kept(t)
    BY <2>1, <2>2 DEF Kept, Promised, Armed, RestartedByCallback, timer_valid, mask_get, Firing,
       NoSlot, Slots
  <2>4. Running' = Running
    BY <2>1 DEF Running
  <2> QED
    BY <2>3, <2>4, StillMaps
<1> QED
  BY <1>1, <1>2

LEMMA StepMaps ==
  ASSUME FireInv, [Next]_vars
  PROVE  Interface!Next \/ Still
<1>1. TypeInv
  BY DEF FireInv, IInv
<1>2. CASE UNCHANGED vars
  BY <1>2, SameMaps DEF vars, sharedVars, workerVars
<1>3. CASE EnterCall
  BY <1>1, <1>3, EnterFrame, SameMaps DEF sharedVars, workerVars, WGoto, Callers, Firing
<1>4. CASE \E f \in Fds : Expire(f)
  BY <1>4, SameMaps DEF Expire, SetTfd, workerVars
<1>5. CASE WorkerStep \/ PollInterrupted
  <2>1. CASE \/ WorkerTop \/ PrepareTest \/ CleanupClose \/ CleanupMutex \/ PrepareActive
             \/ PreparePush \/ Poll \/ Polled \/ ServiceRead \/ AlarmLock \/ AlarmUnlock
             \/ PollInterrupted
    BY <2>1, SameMaps DEF WorkerTop, PrepareTest, CleanupClose, CleanupMutex, PrepareActive,
       PreparePush, Poll, Polled, ServiceRead, AlarmLock, AlarmUnlock, PollInterrupted, WorkerAt,
       WGoto, WNext, SetTfd, SetLock, sharedVars, Firing
  <2> QED
    BY <1>5, <2>1, PrepareMaps, LookupMaps, FireMaps, ReturnMaps DEF WorkerStep
<1> QED
  BY <1>2, <1>3, <1>4, <1>5, NextCases, CallerMaps, InstallMaps, LifeMaps

\* gabs/timer.h: a callback is invoked only for a timer that is installed and started,
\* once for every start, and callbacks run one after another (but for timers that
\* their own callback restarts).
THEOREM ImplementsInterface == Spec => ImplementsTimer
<1>1. Init => Interface!Init
  <2> SUFFICES ASSUME Init
               PROVE  Interface!Init
    OBVIOUS
  <2>1. Phase = [t \in Slots |-> "none"]
    BY DEF Init, Phase, Promised, timer_valid, mask_get
  <2>2. Running = <<>>
    BY DEF Init, Running
  <2> QED
    BY <2>1, <2>2 DEF Interface!Init
<1>2. FireInv /\ [Next]_vars => [Interface!Next]_(Interface!vars)
  BY StepMaps DEF Still, Interface!vars
<1> QED
  BY FireInvariance, <1>1, <1>2, PTL DEF Spec, ImplementsTimer, Interface!Spec
=============================================================================
