# A TLA+ development of gabs

gabs is a C library of small abstractions (timers, packet buffers, mutexes,
semaphores, allocators, logging) with one or more implementations of each.
This directory models the parts that have a logic of their own: the three timer
implementations, packet buffers on both of theirs, and timed waits. TLC checks the
models on small instances; TLAPS proves the theorems for all instances.

Paths below are relative to the repository's root; a bare line number is one of
the file under discussion.

## 1. The system

| Part | Files | State | Operations | What is hard |
|---|---|---|---|---|
| timer interface | `include/gabs/timer.h` | – | ctx_init/deinit, install, uninstall, start, restart, stop, active | the contract is a comment per function |
| timer-posix | `timer/posix/` | per slot: flag word, timerfd, callback, mutex; per context: worker thread, eventfd, exit flag | the above, plus the worker's loop: build poll set, poll, read, run callback, clean up | threads that share a flag word without a lock, callbacks that call the interface, a worker that sleeps without a timeout, descriptor numbers that are reused |
| timer-manual | `timer/manual/` | clock, sequence counter, slots | the above, `advance`, `fire` | callbacks re-enter the loop that runs them |
| timer-zephyr | `timer/zephyr/` | static pool and bit array, context list, work items | the above | synchronous and asynchronous cancelling against the work queue |
| pbuf, generic | `pbuf/buf.c` | none | size, chain_at/back/front, view, copy, clone, shrink, strip, put | offsets at fragment boundaries |
| pbuf-basic | `pbuf/basic/` | fragments: bounds, size, reference count, next | new, new_ro, incref, decref, iterators | fragments shared between chains |
| pbuf-zephyr | `pbuf/zephyr/` | Zephyr's net_buf | same | an iterator that must keep the handle's pointer right; the rest is external |
| mutex, semaphore | `mutex/`, `semaphore/` | one kernel object | init, lock/down, unlock/up, deinit | what a timeout means, and which status tells of it |
| timeouts | `contrib/` | none | resolve | width of integers |
| allocators, random, log, testing, C++ helpers, toolchain, build | | none of their own | | – |

How they interact. timer-posix embeds a `gabs_mutex` in every timer and calls
the kernel (timerfd, eventfd, poll). Clients and the worker share the flag word
`state` through the functions of `atomic_mask.h`; clients wake the worker through
the eventfd; the worker calls the client's callback with the timer's mutex held,
and the callback calls the interface again. timer-zephyr has a slot of a static pool for
every timer; the thread of the kernel's work queue runs the handler of a slot's work
item, which calls the callback; clients and callbacks share the context's list under a
mutex, and the state of the work item through the kernel. Semaphores and mutexes turn a timeout into
an absolute time with `contrib/`. pbuf's generic part is written in terms
of the iterators that an implementation defines, and takes memory from an
allocator that each fragment remembers. The other parts are leaves.

What makes each part correct: timer-posix – a started timer fires, once, not
early; nothing runs after uninstall; no descriptor is leaked, shared or used
after it was closed; every call returns. timer-zephyr – the same, for slots. timer-manual – it is a virtual clock.
waits – as long as asked, and the status says how they ended. pbuf – a buffer is a byte sequence, and memory is freed exactly once, when nobody
points to it.

## 2. Modules

| Module | What it is |
|---|---|
| `Timer` | abstract: what `gabs/timer.h` promises, without time |
| `TimerPosix` | timer-posix, one action per access to shared memory or system call, and its refinement mapping to `Timer` |
| `MCTimerPosix` | finite instances of it |
| `TimerPosixProofs`, `TimerPosixFdProofs` | theorems about it: types and exclusion of the callback; descriptors, expirations and the refinement |
| `TimerManual` | timer-manual, one action per call or step of the advance loop, and its refinement mappings to `Timer` and `VirtualClock` |
| `VirtualClock` | abstract: what `gabs/timer/manual.h` promises |
| `MCTimerManual`, `TimerManualProofs` | finite instances; theorems |
| `TimerZephyr` | timer-zephyr, one action per access to shared memory or call of the kernel, and its refinement mapping to `Timer` |
| `MCTimerZephyr` | finite instances of it |
| `TimerZephyrProofs`, `TimerZephyrStartProofs` | theorems about it: slots, list and exclusion of the callback; starts and the refinement |
| `Timediff` | `posix_timediff_resolve`, with the width of its arithmetic |
| `MCTimediff`, `TimediffProofs` | a finite instance, and theorems |
| `TimedWait` | semaphores and mutexes with timeouts, on POSIX and on Zephyr |
| `MCTimedWait`, `TimedWaitProofs` | a finite instance of it, and theorems |
| `Pbuf` | the generic pbuf functions on pbuf-basic, one action per call |
| `Packet` | abstract: what `gabs/pbuf.h` promises |
| `MCPbuf` | finite instances of it and of `NetBuf`, and the refinement mapping to `Packet` |
| `NetBuf` | the operations of the iterator on net_buf, on the heap of `Pbuf` |
| `PbufProofs` | theorems about both: references, bounds, puts, and the agreement of the two implementations |

Definitions marked "Mutant" are plausible mistakes in one definition, each
next to the definition it stands for; no specification uses them. They serve to
show that a property notices the mistake.

### Timer

Each timer is not installed, idle or armed; `running` is the stack of callbacks. A callback is
invoked only for an armed timer, once for every arming, and callbacks nest or follow each other
but never run side by side. There is no time in it, and a step says nothing of the call
it belongs to, so each implementation can map to it (`Interface`): by `used` and `active` (manual), by
the flags of the slot (posix), by the flags of the work item (zephyr). The mapping of posix leaves
out timers that their own callback restarts (finding 16).

### TimerPosix

`state[t]` is the flag word as a set of bits (`USED`, `ZOMBIE`, `ACTIVE`, `SCHED`,
`ALLOC`), `fd`, `cb` and `lock` the other fields of a slot. `tfd` is the kernel's
side: a timerfd is closed, disarmed, armed or expired. `eventfd` counts (it is a
semaphore). `pfds` is the worker's poll set, `ready` what the last poll reported,
`wi` its loop index, `firing` the thread-local of that name.

`wpc` is where the worker is, `pc[c]` where caller `c` is inside a function of the
interface. The worker is itself a caller while a callback runs (`wpc = "incall"`).
Each function is the sequence of steps between its entry (`Entry`) and `Return`,
for instance restart: `RestartClear`, `RestartSettime`, `RestartSched`,
`RestartTrigger`. A function of `atomic_mask.h` is a compare-exchange loop with one
successful exchange and so one step. Local computations are merged with the next
access. `mask_cas` keeps a trait of the code: its first exchange compares the whole
word.

Failures that are modelled: creating the timerfd, the mutex, the eventfd or the
thread fails; a poll is interrupted. Undefined behaviour: after a push past the
end of the poll set the worker stops at `"overrun"` and is not followed further. The
passing runs and the theorems include that state; in the passing runs `N` is larger
than the number of timers, so that it is not reached (see finding 2).
Operations on a destroyed mutex fail at once, as glibc does, and
the code ignores the result.

Assumptions about the application. A handle is used by the client that installed
it, and no more once it has been uninstalled (`held`). A timer whose callback
uninstalls it is given up when it is started. deinit is called when no call is in
progress. `MaxTimers` bounds the timers installed at a time. Each callback makes at
most one call, on its own timer.

`promise[t]` is history: the timer was started, and nothing since – a call or its
callback – has ended that. `left` bounds how often each operation is called.

### TimerManual and VirtualClock

`used`, `active`, `expiry_us`, `seq`, `now_us` and `next_seq` are the fields of that
name. `stack` holds the calls of `advance` and `fire` in progress with the timer whose
callback each is running; the application runs when the stack is empty or its
top is in a callback. Sums are modulo `Wrap`. `swept` is history: the sequence
counter at the end of the last advance.

`VirtualClock` has a clock, when each active timer expires and which of the others were started before it,
the advance in progress and the callbacks running. It knows no sequence numbers: under the mapping, in
`TimerManual`, they tell which of two timers was started first.

### TimerZephyr

`bits` is the bit array of the pool, `list` and `lock` the context's. `work[t]` is the set of flags of the
work item of slot `t`, `pending` the work queue, `sleepers` the callers that wait in
`k_work_cancel_delayable_sync`. `qpc` is where the queue's thread is, `firing` the item it runs
(the variable of that name is thread-local, so it is an item only to that thread). `pc[c]`
is where caller `c` is inside a function; the queue's thread is a caller while a callback runs. The owner
initialises and deinitialises the context.

The kernel's functions on work items hold a spinlock, so each is one action. What they do is
external and follows the kernel's documentation: cancelling takes an item out of the
queue, and marks it if its handler runs; an item so marked cannot be queued; rescheduling replaces
a delay and does not touch an item that is queued already. `Timeout` can happen at any moment
after a start: delays have no length.

Assumptions about the application: as for timer-posix, a handle is used by the client
that installed it and not after it has been uninstalled, and a timer whose callback
uninstalls it is given up when it is started. deinit is called when no client is in a call;
`DeinitWhen` says whether timers may be left whose callback uninstalls them ("any"; finding 11)
or not ("quiet"). `own` is history: the callback that runs belongs to the timer that
is installed in its slot, not to one that uninstalled itself there.

### Timediff and TimedWait

`Timediff` computes in units whose factors are parameters, so that a small instance has timeouts on both sides of
the point where the product in line 13 wraps; `tv_sec` is taken as unbounded. `TimedWait` takes the arithmetic as exact and keeps, of
the end of a wait, the distance to it (`left`); `object`, which no step changes, is what is waited for. `dispatch` is the choice the code makes three
times (no wait, for ever, until a time), `status` the translation of `mutex_zephyr.c`. `RefusedStatus` and
`ExpiredStatus` are what the primitives report: `sys_sem_take` turns both statuses of the kernel, of a try that
failed and of a wait that ended, into ETIMEDOUT, and `semaphore_zephyr.c:8` passes that on; `sys_mutex_lock` keeps them apart. The
primitives are external: a k_mutex is recursive and a default pthread mutex is not; a signal ends a
wait on a sem_t and not one on a mutex; a sys_sem at its limit stays there. `SetClock` sets the wall clock, on which
POSIX waits and Zephyr does not.

### Pbuf and Packet

`frag` maps a fragment to its fields (`Blank` when not allocated), `head[h]` is the pointer
inside the application's variable `h`. A fragment's pointers `base` and `data` are a
memory (`mem`, the fragment that owns it) and offsets. `bytes` is the memory.
The i-th byte ever written has the value i, so that any byte out of
place shows. An iterator, `lastp` and `cur`, is a position in the chain of a handle.

`shrink` is the code's two loops: the first removes fragments one by one through
`ci_remove`, the second finds where to cut. `pieces` is the loop of view and copy.

`Packet` maps each handle to a byte sequence (`content`) and keeps the pairs of
handles that may share data (`kin`). A call changes the buffer it is given, and
otherwise only those that share data with it. What a call was is passed between the
modules by `call`, a history variable; the runs' VIEW leaves it out of the state's
identity, since nothing that can come next depends on it. Properties are checked on every
transition, where `call'` has its value.

Assumptions about the application: a buffer is used through one variable unless
`incref` was called; a view is released before what it looks at, since nothing in the
code keeps it alive (`Release`); no chain has the same memory twice (`Apart`), or it
would be a cycle; offsets and sizes are within the buffer; and, in
`pbuf_safety`, nothing is put into a read-only fragment (`PutsInViews`). Assertions are
on, so allocation does not fail.

### NetBuf

`buf.c` is written in terms of iterators, so with net_buf it does what it does with
the basic implementation if the iterators do the same. An iterator on net_buf is three pointers and its
operations, `nb_insert`, `nb_detach` and `nb_remove`, call net_buf's functions, which
are external. The properties compare what they leave with what the operators of `Pbuf` leave, on
every heap, for every handle and position. `nb_drop` is a loop of removals with one iterator, as in shrink.

## 3. Runs

| Run | Checks | Bounds |
|---|---|---|
| `posix_safety` | `TypeOK`, `FdsAccounted`, `PollSetOwned`, `TriggerOpen`, `UninstallQuiesces`, `NoEarlyFire`, `ImplementsTimer` | 3 slots, 2 clients, 2 descriptors, 2 timers at a time; callbacks return, restart or uninstall; 2 installs, 2 restarts, 1 stop, 1 uninstall, by clients or callbacks (a start does what a restart does, or nothing) |
| `posix_liveness` | `StartedFires`, `DeinitTerminates`, `UninstallReturns`, `ZombieReclaimedOnTrigger` | 3 slots, 1 client, 2 installs, 2 starts, 1 uninstall, 1 interrupted poll |
| `manual_safety` | `TypeOK`, `SeqOrders`, `NothingDueLeft`, `ImplementsVirtualClock`, `ImplementsTimer` | 2 slots, delays 0 and 2, steps 1 and 2, callbacks do anything but a second advance |
| `pbuf_safety` | `TypeOK`, `RefCounts`, `InBounds`, `ImplementsPacket`, `PutAppends`, `InsertAgrees`, `DetachAgrees`, `RemoveAgrees` | 3 handles, 3 fragments of 2 bytes; 3 calls that make buffers, 2 that share or join, 1 put, 1 that trims, any number of decref |
| `zephyr_safety` | `TypeOK`, `SlotsAccounted`, `UninstallQuiesces`, `ActiveWillExpire`, `RemovedOnce`, `NoEarlyFire`, `ImplementsTimer` | 2 slots, 2 clients; clients start, stop and uninstall, callbacks are absent, return, start, stop or uninstall; any number of calls |
| `zephyr_liveness` | `StartedFires`, `CancelReturns` | 3 slots, 1 client; start and uninstall, callbacks return or uninstall |
| `timediff` | `Normalised`, `ExactIfItFits`, `OffByLessThanASecond` | every timeout of a width of 40, every time of a clock of three seconds, with 6 nanoseconds to a second |
| `timed_waits` | `TypeOK`, `NotEarly`, `StatusAsAsked`, `TimedReturns` | each of the four objects; 2 threads, timeouts 0, 1, 3 and the largest, counts and depths to 2, the wall clock set back twice |
| `posix_lost_restart`, `posix_overrun`, `zephyr_uninstall_restart`, `pbuf_readonly` | one property each, which is violated | the shortest story of each of findings 1 to 4 of section 4 |

Why the bounds are enough for what they are to show. timer-posix: the hazards
involve one timer, the worker, and one or two callers; two timers and two
descriptors give a closed descriptor number to another timer, and a third slot gives the
reinstalled timer a place while the old one waits for cleanup. The context may be
initialised and deinitialised any number of times. With fewer installs than slots install never finds all of them
taken; `TimerfdsAccounted` (section 5) covers that. timer-manual: two timers order
each other, with equal and different expiries, and the
delay 0 and steps smaller and larger than the other delay put an expiry before, at
and after the end of an advance. `Wrap` is larger than the clock gets. pbuf: three
fragments make a chain with a first, a middle and a last, and three handles a chain two
others share part of; less than a fragment holds is put, and more,
into fragments that are empty, partly filled and full, and every offset and size is viewed, cloned and stripped. timer-zephyr: nothing is counted, so its runs
have no budget and the state space is that of any number of calls; two slots let a timer be
installed in the slot of one that is going while another fires, and two clients contend for the mutex
with the queue's thread. Restarts are left to
`zephyr_uninstall_restart`: with them `UninstallQuiesces`, `NoEarlyFire` and, once a cancellation can be under
way, `ActiveWillExpire` do not hold (findings 3, 9 and 10). Timed waits: a timeout that is shorter, one that is
longer and one that is the same as another's, one that never ends, and one that does not wait; who holds the object may
keep it for ever, release it before the wait ends, or at the moment it does.

Symmetry is used over descriptors and clients in `posix_safety`, over clients in `zephyr_safety`, and over
fragments and handles in the pbuf runs: all are model values that no definition
tells apart, and none of these runs has a liveness property. The VIEW of `posix_safety` leaves out what
nothing that follows reads: the history, the fields of free slots, and the poll set of the last round. Deadlock is checked but
in the pbuf runs, where an application out of calls and buffers stops, and in `timed_waits`, where all threads
may wait for ever for what none of them releases.

Fairness (`FairSpec`): weak fairness of the worker's steps, of each caller's steps
within a function, of the passing of time for an armed timerfd, and of the steps
of a deinit. That is what a scheduler and a clock give. Nothing makes a client call a
function, a callback make a call, a system call fail or a poll be interrupted. No
strong fairness there: a mutex, in these runs, has at most one waiter beside the
worker. timer-zephyr's `FairSpec` has weak fairness of the same kind for clients, the
queue's thread and the delays, and strong fairness for the calls the queue's thread makes, since a k_mutex is handed
to the waiter of the highest priority and that is the system's work queue. `TimedWait`'s has weak fairness of
the primitives' returns and of the clock; nobody is made to release. `StartedFires` is checked with starts only: with restarts it is violated
(findings 1 and 5).

## 4. What the checks show

Holds, on the instances: descriptors are neither leaked nor shared nor used stale;
the eventfd is open whenever it is written; uninstall excludes the callback unless the
timer's mutex was destroyed (finding 7); no timer fires early (other than when a client and
its own callback restart it at the same time); a started timer fires; deinit and
uninstall return; timer-manual is a virtual clock; pbuf calls do what they say, on
whatever sharing of fragments, and references are counted right, on both implementations. timer-zephyr loses no slot, excludes the callback from uninstall and keeps its promises
as long as timers are not restarted; all three timers implement one abstract timer (zephyr without
restarts, posix but for timers that their own callback restarts). Waits end when and
as they should while the wall clock is not set forward.

Findings, where the code and a statement of the repository disagree. Each of the first four has a run:

1. `posix_lost_restart` – `timer_posix.c:259` erases a SCHED set by a restart that came after
   the worker had looked at the timer. The timer is not active and does not fire;
   `tests/timer/timer.cc:163-170` expects it active.
2. `posix_overrun` – the poll set has room for N entries (308) and gets up to N + 1
   (312, 258).
3. `zephyr_uninstall_restart` – a callback that restarts its timer while an uninstall waits for
   it leaves the slot scheduled when it is given back (`timer_zephyr.c:115-118`), against the comment at 109-110.
4. `pbuf_readonly` – nothing tests `readonly`; after a strip, put writes through a view.

The others have no run of their own. They are why the runs above leave out what they leave out, and where
the property is named, changing the constants as told shows them:

5. posix: the read at 280 takes the expiry of a restart in progress, whose
   ACTIVE is clear, so the callback is skipped; the timer is then active with
   nothing armed, against `include/gabs/timer.h:122`.
6. posix: uninstall wakes the worker (458) before it sets ZOMBIE (419); the slot may
   stay taken, with its descriptor, until another call wakes the worker. `ZombieReclaimedOnTrigger` is what holds.
7. posix: cleanup frees the slot (99) before it destroys the mutex (101); a new
   timer's mutex can be destroyed, and uninstall then does not exclude the callback.
   `UninstallQuiesces` is what holds.
8. manual: an advance within an advance is undone when the outer one ends
   (`timer_manual.c:142`), and a delay near the largest `uint64_t` wraps (108), so that the clock
   goes back to the expiry, against "Move the clock forward", `include/gabs/timer/manual.h:22` (the clock of a
   run with `MaxNested` 2, or with `Wrap` 8 and delays of 7).
9. zephyr: a restart does not take a queued item out of the queue (134): the callback runs
   before the new delay, and again after it. `include/gabs/timer.h:96-97` (`NoEarlyFire`, with restarts).
10. zephyr: while an item is being cancelled, after a stop in its callback or in the slot of
   a timer whose callback has uninstalled it, a restart whose delay elapses before the handler
   returns is dropped by the kernel. `include/gabs/timer.h:122` (`ActiveWillExpire`, with restarts).
11. zephyr: deinit takes nodes out of the list without the mutex (187-189); a callback that uninstalls
   its timer takes the same node out. `include/gabs/timer.h:62-63` (`RemovedOnce`, with `DeinitWhen` "any").
12. zephyr: a timer installed in a slot whose old callback still runs is active without having been
   started (118, 169), against `tests/timer/timer.cc:125`; and start is refused as long as the handler
   runs (144), though the timer has expired, against `include/gabs/timer.h:88`.
13. Timed waits use CLOCK_REALTIME (`posix_timediff.c:8`): setting the clock forward ends them early.
   `include/gabs/semaphore.h:43` (`NotEarly`, with a positive jump).
14. pbuf: put goes on into the following fragments (`buf.c:268`), against
   `include/gabs/pbuf.h:132-133`, "only appends data to the specific buffer ... not at the end of the buffer chain".
   `PutAppends` says what the two agree on, put on a buffer of one fragment, which is also all that the tests do;
   without its `Len(ChainOf(h)) = 1` it is violated, as data lands between the bytes of a chain. `Packet`'s put
   allows both.
15. pbuf: with assertions off, a view whose allocation fails midway is returned short, and okay
   (`buf.c:120`), against `include/gabs/pbuf.h:94-95`. With them on, a failed allocation aborts, though
   `pbuf.h:52` says that it returns a buffer that is not okay.
16. posix: if a client restarts a timer while its callback does, the worker may move the SCHED of one restart to
   ACTIVE (257) before the other sets SCHED (77). One expiry then serves both: the callback runs with SCHED set,
   and the timer stays active with nothing armed, against `include/gabs/timer.h:122`. `ImplementsTimer` is what
   holds; without the exclusion in `Promised` it is violated with three restarts.

Not a disagreement, but worth knowing: within its own callback a posix timer is still active,
so `start` returns -EBUSY there while `restart` works. On Zephyr too a timer
is active while its callback runs, and there `restart` is the one that works. A semaphore or mutex that is tried with
a timeout of 0 says EAGAIN (POSIX semaphore), EBUSY (mutexes) or, as if it had waited, ETIMEDOUT (Zephyr
semaphore); the interface does not say which.

## 5. What is proved

Each theorem holds for every value of the constants that satisfies the named assumptions of its module: any
number of slots, threads, descriptors and calls, any callbacks, delays and widths; any finite sets of fragments
and handles, and any sizes. What the model assumes of the application (section 2) is in the actions' guards, and
so in every theorem.

| Module | Theorems | If |
|---|---|---|
| `TimerPosixProofs` | `TypeCorrect` (`TypeOK`), `Quiescence` (`UninstallQuiesces`) | |
| `TimerPosixFdProofs` | `TriggersOpen` (`TriggerOpen`), `TimerfdsAccounted` (`FdsAccounted`), `PollSetStaysOwned` (`PollSetOwned`), `NotEarly` (`NoEarlyFire`), `ImplementsInterface` (`ImplementsTimer`) | |
| `TimerManualProofs` | `TypeCorrect` (`TypeOK`), `SequenceOrders` (`SeqOrders`), `ImplementsInterface` (`ImplementsTimer`) | |
| | `AdvanceSweeps` (`NothingDueLeft`) | always `InRange` |
| | `ImplementsClock` (`ImplementsVirtualClock`) | always `OneAdvance`, `InRange` and `EndInRange` |
| `TimerZephyrProofs` | `TypeCorrect` (`TypeOK`), `NoSlotLost` (`SlotsAccounted`), `RemovedWhenListed` (`RemovedOnce`), `Quiescence` (`UninstallQuiesces`) | `Careful` |
| `TimerZephyrStartProofs` | `ActiveTimers` (`ActiveWillExpire`), `NotEarly` (`NoEarlyFire`), `ImplementsInterface` (`ImplementsTimer`) | `Unrestarted` |
| `TimediffProofs` | `ResolveNormalised` (`Normalised`), `ResolveExact` (`ExactIfItFits`), `ResolveOffByLessThanASecond` (`OffByLessThanASecond`) | |
| `TimedWaitProofs` | `TypeCorrect` (`TypeOK`), `StatusIsAsAsked` (`StatusAsAsked`) | |
| | `TimeoutNotEarly` (`NotEarly`) | `NeverAhead` |
| `PbufProofs` | `TypeCorrect` (`TypeOK`), `ReferencesCounted` (`RefCounts`), `StaysInBounds` (`InBounds`), `PutsAppend` (`PutAppends`), `InsertsAgree` (`InsertAgrees`), `DetachesAgree` (`DetachAgrees`), `RemovesAgree` (`RemoveAgrees`) | |

The conditions are on the application or the clock, and each is there because the code breaks the theorem
without it:

- `InRange`, `EndInRange`: the clock plus a delay, or plus what an advance is told to add, fits a `uint64_t`;
  `OneAdvance`: no advance is called inside another (both finding 8).
- `Careful`: no callback restarts its own timer (finding 3; the slot it leaves scheduled breaks all four), and
  deinit leaves no timer whose callback uninstalls it (finding 11, which breaks `RemovedOnce` and
  `SlotsAccounted`; `TypeOK` and `UninstallQuiesces` hold on the instance without this second half, and are
  proved with it).
- `Unrestarted`: `Careful`, and clients do not restart timers either (findings 9 and 10).
- `NeverAhead`: on POSIX the wall clock is never set forward (finding 13).

They are the ones under which the runs check the same properties, but that the runs of timer-manual bound the
clock, and that `timed_waits` sets its clock back only. The proofs have one lemma per group of actions or per
action, with a step per part of the invariant it can disturb.

### timer-posix

`UninstallQuiesces` is not inductive: it says nothing of how the worker got into the callback, nor of the
mutex. The invariant `IInv` has three parts, each a conjunction of named ones:

- `TypeInv`: the types, with what they need to be kept (a caller inside a function has a slot, the worker's
  index or `firing` is a slot where it is used as one, and the eventfd is read only when its counter is
  positive).
- `SlotInv`: who may touch a slot when. `LifeInv`: when the context is not up the worker or the clients are
  gone. `WorkerInv`: the worker calls the interface only from a callback, on the timer it is firing.
  `BitsInv`: the flags follow the life of a slot, and the worker's step implies them. `OwnerInv`: one client
  at a time uses or makes a timer, which is then not a zombie. `SelfInv`: a timer whose callback uninstalls it
  is inactive until its only start has set SCHED, after which no client has its handle.
- `LockInv`: `HolderInv` says that whoever is inside a critical section of a timer holds its mutex, if that is
  usable; `QuietInv` that once an uninstall has cleared the flags (`Leaving(c, t)`), the timer is neither
  active nor scheduled and its callback is not running, as long as its mutex is usable.

`TypeCorrect` uses `TypeInv` alone, for the types of descriptors read from a slot depend on the worker's
index.

`FireInv` adds to `IInv` what descriptors and expirations need:

- `EventInv` (the eventfd is open exactly while there is a context for it) and `FdInv` (`FdsAccounted`, with
  no slot taken when the context is down). A descriptor has one owner, a slot or an installer between creating
  and publishing it.
- `PollInv`: what is in the poll set belongs to a slot in use, which the worker has already passed while it
  builds the set; a zombie is cleaned up in a later round only, so its number cannot be used again before the
  set is built anew.
- `FlagInv`: flags that a restart, a stop or an uninstall has cleared stay so until SCHED is set, and ACTIVE
  and SCHED are both set only while the worker puts the timer in the poll set. Hence nobody arms a timer that
  is active.
- `ReadInv`: for an active timer, what poll reported has not been armed since, and what was read is disarmed
  up to the test under the mutex. Otherwise a restart came between, and has cleared ACTIVE.

`NoEarlyFire` is `ReadInv` at that test. For the refinement each step is shown to be `Invoke`, `Return`, a
change of one timer's phase, or no change, from what it does to the flags and to `Running`; `FlagInv` makes
the end of a callback leave its timer idle or newly armed.

### timer-manual

`IInv` has the types and the shape of the stack (only the innermost advance is between callbacks), `SeqOrders`
with all sequence numbers below `next_seq`, and, while `InRange`, `NotPassed` and `DueInv`: no active timer
expires before the clock, even inside an advance, and outside one those that expire now were started after the
last advance ended. So `advance_fire` never sets the clock back, and what it leaves at its end is later or
new.

`ImplementsClock` goes step by step, and needs of the invariant that sequence numbers order the active timers
and are below `next_seq`. A timer that stops leaves the sets of those started before another, and one that
starts has all others before it: its number is the largest. The timer that `next_expired` returns is then the
one whose expiry is least and, among equal ones, that was started first. `OneAdvance` says which frame
of the stack is the abstract advance: it is at the top when the loop runs, and a call of the application never
changes it.

### timer-zephyr

`IInv`: `ItemInv` ties the flags of an item to the queue and its thread; `CallerInv` says where each thread
may be, and `LockHeld` who has the mutex. `SlotInv` with `UseInv` says that a slot taken is in the list once
or in the hands of one caller, and a client's timer in the list; `DeinitInv` that deinit's walk is at the head
of the list. `CancelInv` says what a cancelled item can still be, and `QuietInv` that a free slot is quiet:
not queued or delayed, and if its handler runs, then for an earlier owner whose callback is at its end.
`StartInv` adds `WorkInv` (an item is in one place), `ReadyInv` (who schedules it has found it idle),
`ElapsedInv` and `PromiseInv` (as long as the promise holds the item is on its way, and nobody in a call that
ends it).

### Timeouts and timed waits

`TimediffProofs` rests on lemmas about quotient and remainder: with d the timeout, (d / UsPerSec) seconds and
the rest of d * NsPerUs make up d * NsPerUs when that does not wrap, and when it does only the rest, less than
a second, is wrong. `TimedWaitProofs`: `ModeInv` says that a thread waits as `dispatch` chose, `LeftInv` that
what is left of a wait and what has elapsed make up at least what was asked for; the kernel reports a timeout
when nothing is left.

### Pbufs

Within a call the counts are wrong for a while: a pointer is reset before the reference it stood for is given up,
and shrink removes fragments one by one. So the argument is about heaps, not states. `Sound(fr)` says that
the pointers of `fr` make no cycle, that what is not allocated is blank, and that no fragment has fewer
references than fragments that point to it; `Refs(fr, f)` is what it has beyond those. Each operation of an
iterator, and then each call made of them, gets a lemma: the heap stays `Sound`, and `Refs` changes by one at the
fragments where it says. `Keeps`, `Looks` and `Resized` say what an operation does to the memory a fragment
sees: nothing, nothing but move where its data begins and ends, or that for one fragment only.

The inductive invariant `IInv` is `TypeOK` with three parts. `Counted`: the heap is sound and `Refs` of every
fragment is the number of handles that point to it; `RefCounts` follows, but is not inductive, for it
does not exclude a cycle of fragments that keep each other allocated and that no call would ever get to the end of.
`AllWithin`: data and tailroom lie in the memory a fragment was given. `Backs`: that memory lies in the
bytes of a fragment that is still allocated, which is preserved by decref because views are released first
(`Release`).

That there is no cycle is stated by a rank that falls along each pointer (`Acyclic`). It is what makes the
recursion of `Chain` a function, so that a chain is the path of its pointers (`Path`) and has no fragment
twice. Properties of recursive functions over positions (`upto`, `dropped`, `pieces`, `put`) are shown with
`Induction`: a set of positions that has 0 and the successor of each of its members has them all. That is how
put is shown to stay within the fragments it writes, view to make fragments that fit
in those they look at, and shrink's loop over the iterator of net_buf to leave what the basic one leaves.

`PutsAppend` is about bytes. Those of a buffer are a recursion along its pointers (`Data`), which the rank makes a
function with sequences as values; with one fragment they are what that fragment sees, and `FillAppends` says that
it sees, after the copy, what it saw followed by the data taken.

The agreement of the implementations is proved for every heap of `IInv`: net_buf follows pointers with three of
its own, the basic operators are given a position in a chain, and both come to the same ties and the same references.
`DetachAgrees` compares a loop that stops at the first shared fragment with a set of fragments that go.

### Only model-checked

- Liveness, since the prover handles neither fairness nor ENABLED: the runs `posix_liveness` and
  `zephyr_liveness`, and `TimedReturns`.
- `ImplementsPacket`: the bytes of a buffer are the concatenation of what its fragments see, a recursion over
  the chain whose values are sequences. Each call needs a lemma on how such a concatenation splits, and the
  handles that a call must leave alone one on which memory it writes.

## 6. Not modelled

- Within what is modelled: the kernel, the C library and net_buf, which are external; of pbuf-zephyr, new,
  new_ro and the resizing of a fragment, each a call of net_buf (whose sizes have 16 bits: a read-only
  buffer of 64 KiB or more is truncated); a clock that cannot be read.
- The length of delays in timer-posix and timer-zephyr, and the wrap of K_USEC.
- Restarts without delay that keep an advance of timer-manual from returning, and callers that keep
  the worker of timer-posix from its timers: the interface promises the first and says nothing of the second.
- allocators: a table of two function pointers over malloc, a heap or a pool, and a header with the size in
  `std.hh`; no state beyond what `Pbuf` has as live fragments.
- testing: `async` is a work item that is flushed before its result is read and before it is destroyed.
- random, log, C++ helpers, toolchain and build: no state, or pure I/O.

## 7. Plan

1. timer-zephyr: `TypeOK` and `UninstallQuiesces` without the second half of `Careful`, from an invariant that does not need the list.
2. Lemmas towards `ImplementsPacket`: that no call but put writes bytes, and that put writes only at the end of fragments of its buffer.
