--------------------------- MODULE TimerZephyrProofs ---------------------------
(***************************************************************************)
(* What is proved about TimerZephyr for every number of slots and clients: *)
(* its type invariant, that no slot is lost or given back twice, and that   *)
(* a timer that is uninstalled is quiescent, as long as no callback         *)
(* restarts its own timer and deinit is called when no callback is left    *)
(* that uninstalls its own.  A callback that restarts its timer breaks all *)
(* of this (run zephyr_uninstall_restart).                                 *)
(***************************************************************************)
EXTENDS TimerZephyr, SequenceTheorems, FiniteSetTheorems, TLAPS

-----------------------------------------------------------------------------
(* The inductive invariant.                                                 *)

\* How the application has to behave.
Careful == "restart" \notin CbKinds /\ DeinitWhen # "any"

TypeInv == PoolType /\ KernelType /\ CallerType /\ HistoryType

\* No element is in the sequence twice.
Distinct(s) == \A i, j \in 1 .. Len(s) : s[i] = s[j] => i = j

\* The flags of an item, the queue and its thread agree.
ItemInv ==
    /\ Distinct(pending)
    /\ qpc # "idle" => firing \in Slots
    /\ \A t \in Slots :
          /\ "QUEUED" \in work[t] <=> In(pending, t)
          /\ "RUNNING" \in work[t] <=> qpc # "idle" /\ firing = t
          /\ "CANCELING" \in work[t] => "RUNNING" \in work[t] /\ "QUEUED" \notin work[t]

\* Where clients, the owner and callbacks may be, and with which timer.
ClientPcs == \A c \in Clients :
    /\ pc[c] # "idle" => tgt[c] \in Slots /\ pc[c] # "walk"
    /\ pc[c] \in {"u_lock", "unlink", "cancel", "release"} => op[c] = "uninstall"
    /\ life # "up" => pc[c] = "idle" /\ held[c] = {}
    /\ pc[c] \in {"u_lock", "unlink"} => tgt[c] \notin held[c]

OwnerPcs ==
    /\ pc[Owner] \in {"idle", "walk", "cancel", "release"}
    /\ pc[Owner] # "idle" <=> life = "deinit"
    /\ pc[Owner] # "idle" => op[Owner] = "deinit"
    /\ pc[Owner] \in {"cancel", "release"} => tgt[Owner] \in Slots

QueuePcs ==
    /\ own => qpc \in {"callback", "incall"}
    /\ qpc = "callback" => own /\ pc[Queue] = "idle"
    /\ pc[Queue] # "idle" =>
          /\ qpc = "incall" /\ own
          /\ tgt[Queue] = firing /\ op[Queue] = cb[firing]
          /\ pc[Queue] \in {"check", "stop", "u_lock", "unlink", "cancel", "release"}
    /\ pc[Queue] \in {"u_lock", "unlink", "cancel", "release"} => op[Queue] = "uninstall"
    /\ \A t \in Slots : cb[t] # "restart"

CallerInv == ClientPcs /\ OwnerPcs /\ QueuePcs

\* A cancelled item is not started again; who waits for it is woken when its handler
\* has returned.
CancelInv ==
    /\ \A c \in sleepers :
          c # Queue /\ pc[c] = "release" /\ "CANCELING" \in work[tgt[c]]
    /\ \A c \in Callers : pc[c] = "release" =>
          /\ work[tgt[c]] \subseteq {"RUNNING", "CANCELING"}
          /\ c # Queue /\ c \notin sleepers => work[tgt[c]] = {}
          /\ c = Queue => "CANCELING" \in work[tgt[c]]

\* A client's timer is in the list; a slot that is not in the list is in the hands of
\* one caller, or free.
Uses(c, t) ==
    \/ t \in held[c]
    \/ tgt[c] = t /\ pc[c] \in {"check", "resched", "stop", "u_lock", "unlink"}

OutsidePcs    == {"i_lock", "append", "cancel", "release"}
Outside(c, t) == tgt[c] = t /\ pc[c] \in OutsidePcs

UseInv ==
    \A t \in Slots :
       /\ \A c, d \in Clients : Uses(c, t) /\ Uses(d, t) => c = d
       /\ \A c \in Clients : Uses(c, t) => In(list, t)

ListInv == Distinct(list) /\ \A t \in Slots : In(list, t) => t \in bits

HandInv ==
    \A t \in Slots, c \in Callers : Outside(c, t) =>
       /\ t \in bits /\ ~ In(list, t)
       /\ \A d \in Callers : Outside(d, t) => c = d

NoneLost == \A t \in bits : In(list, t) \/ \E c \in Callers : Outside(c, t)

SlotInv == ListInv /\ HandInv /\ NoneLost

\* Nothing is going to fire t; the callback of a timer that had the slot may be
\* about to return.
Quiet(t) ==
    /\ work[t] \subseteq {"RUNNING", "CANCELING"}
    /\ "RUNNING" \in work[t] => "CANCELING" \in work[t] /\ ~ own /\ qpc \in {"incall", "done"}

\* A free slot is quiet, and a timer whose callback uninstalls it, until it is started:
\* from then on no client has it.
QuietInv ==
    \A t \in Slots :
       /\ t \notin bits => Quiet(t)
       /\ cb[t] = "uninstall" /\ (\E c \in Clients : Uses(c, t) \/ Outside(c, t)) => Quiet(t)

\* Deinit takes the timers out of the list from its head, and leaves none.
DeinitInv ==
    /\ life # "up" => \A t \in bits : cb[t] # "uninstall"
    /\ life = "down" => bits = {}
    /\ pc[Owner] = "walk" => tgt[Owner] = First(list) /\ nxt = After(list, First(list))
    /\ pc[Owner] \in {"cancel", "release"} => nxt = First(list)

IInv ==
    /\ TypeInv /\ LockHeld /\ ItemInv /\ CallerInv
    /\ CancelInv /\ UseInv /\ SlotInv /\ QuietInv /\ DeinitInv

-----------------------------------------------------------------------------
(* Constants and sequences.                                                 *)

LEMMA Threads ==
    /\ Clients \subseteq Callers /\ Queue \in Callers /\ Owner \in Callers
    /\ \A c \in Callers : c \in Clients \/ c = Queue \/ c = Owner
    /\ Queue \notin Clients /\ Owner \notin Clients /\ Queue # Owner /\ Free \notin Callers
    /\ None \notin Slots
BY ThreadAssumption DEF Callers, None, Slots

LEMMA EmptyFacts == Distinct(<<>>) /\ \A t : ~ In(<<>>, t)
BY DEF Distinct, In

LEMMA WithoutFacts ==
    ASSUME NEW S, NEW s \in Seq(S), NEW t, Distinct(s)
    PROVE  /\ Without(s, t) \in Seq(S)
           /\ Distinct(Without(s, t))
           /\ \A u : In(Without(s, t), u) <=> In(s, u) /\ u # t
<1>1. CASE ~ In(s, t)
  BY <1>1 DEF Without, In
<1>2. CASE In(s, t)
  <2> DEFINE k == CHOOSE k \in DOMAIN s : s[k] = t
             r == [j \in 1 .. Len(s) - 1 |-> s[IF j < k THEN j ELSE j + 1]]
  <2>1. k \in 1 .. Len(s) /\ s[k] = t
    BY <1>2 DEF In
  <2>2. Without(s, t) = r
    BY <1>2 DEF Without
  <2> HIDE DEF k
  <2>3. Len(s) - 1 \in Nat
    BY <2>1
  <2>4. r \in Seq(S) /\ Len(r) = Len(s) - 1
    BY <2>1, <2>3
  <2>5. \A j \in 1 .. Len(r) : r[j] = s[IF j < k THEN j ELSE j + 1]
    BY <2>4
  <2> HIDE DEF r
  <2>6. Distinct(r)
    BY <2>1, <2>3, <2>4, <2>5 DEF Distinct
  <2>7. ASSUME NEW u, In(r, u)
        PROVE  In(s, u) /\ u # t
    <3>1. PICK j \in 1 .. Len(r) : r[j] = u
      BY <2>4, <2>7 DEF In
    <3>2. \/ j < k /\ r[j] = s[j] /\ j \in 1 .. Len(s) /\ j # k
          \/ ~ (j < k) /\ r[j] = s[j + 1] /\ j + 1 \in 1 .. Len(s) /\ j + 1 # k
      BY <2>1, <2>4, <2>5, <3>1
    <3>3. PICK i \in 1 .. Len(s) : s[i] = u /\ i # k
      BY <3>1, <3>2
    <3> QED
      BY <2>1, <3>3 DEF In, Distinct
  <2>8. ASSUME NEW u, In(s, u), u # t
        PROVE  In(r, u)
    <3>1. PICK i \in 1 .. Len(s) : s[i] = u
      BY <2>8 DEF In
    <3>2. i # k
      BY <2>1, <2>8, <3>1
    <3>3. CASE i < k
      BY <2>1, <2>4, <2>5, <3>1, <3>3 DEF In
    <3>4. CASE i > k
      <4>1. i - 1 \in 1 .. Len(r) /\ i - 1 + 1 = i /\ ~ (i - 1 < k)
        BY <2>1, <2>4, <3>1, <3>4
      <4> QED
        BY <2>4, <2>5, <3>1, <4>1 DEF In
    <3> QED
      BY <2>1, <3>1, <3>2, <3>3, <3>4
  <2> QED
    BY <2>2, <2>4, <2>6, <2>7, <2>8
<1> QED
  BY <1>1, <1>2

LEMMA AppendFacts ==
    ASSUME NEW S, NEW s \in Seq(S), NEW t \in S
    PROVE  /\ Append(s, t) \in Seq(S)
           /\ \A u : In(Append(s, t), u) <=> In(s, u) \/ u = t
           /\ Distinct(s) /\ ~ In(s, t) => Distinct(Append(s, t))
           /\ s # <<>> => Append(s, t)[1] = s[1]
<1>1. Append(s, t) \in Seq(S) /\ Len(Append(s, t)) = Len(s) + 1
  OBVIOUS
<1>2. \A i \in 1 .. Len(s) : Append(s, t)[i] = s[i]
  OBVIOUS
<1>3. Append(s, t)[Len(s) + 1] = t
  OBVIOUS
<1> DEFINE r == Append(s, t)
<1> HIDE DEF r
<1> QED
  BY <1>1, <1>2, <1>3 DEF r, In, Distinct

LEMMA TailFacts ==
    ASSUME NEW S, NEW s \in Seq(S), s # <<>>, Distinct(s)
    PROVE  /\ Head(s) \in S /\ In(s, Head(s))
           /\ Tail(s) \in Seq(S) /\ Distinct(Tail(s))
           /\ \A u : In(Tail(s), u) <=> In(s, u) /\ u # Head(s)
<1> DEFINE r == Tail(s)
<1>1. Len(s) \in Nat \ {0} /\ Head(s) = s[1] /\ s[1] \in S
  OBVIOUS
<1>2. r \in Seq(S) /\ Len(r) = Len(s) - 1
  BY <1>1
<1>3. \A i \in 1 .. Len(r) : r[i] = s[i + 1]
  BY <1>1, <1>2
<1> HIDE DEF r
<1>4. Distinct(r) /\ In(s, s[1])
  BY <1>1, <1>2, <1>3 DEF Distinct, In
<1>5. \A u : In(r, u) => In(s, u) /\ u # s[1]
  BY <1>1, <1>2, <1>3 DEF Distinct, In
<1>6. ASSUME NEW u, In(s, u), u # s[1]
      PROVE  In(r, u)
  <2>1. PICK i \in 1 .. Len(s) : s[i] = u
    BY <1>6 DEF In
  <2>2. i - 1 \in 1 .. Len(r) /\ i - 1 + 1 = i
    BY <1>1, <1>2, <1>6, <2>1
  <2>3. r[i - 1] = s[i - 1 + 1]
    BY <1>3, <2>2
  <2> QED
    BY <1>2, <2>1, <2>2, <2>3 DEF In
<1> QED
  BY <1>1, <1>2, <1>4, <1>5, <1>6 DEF r

\* Deinit's walk: when the first timer has been taken out, the one after it is first.
LEMMA FirstFacts ==
    ASSUME NEW s \in Seq(Slots), Distinct(s)
    PROVE  /\ First(s) \in Slots \cup {None} /\ After(s, First(s)) \in Slots \cup {None}
           /\ First(s) = None <=> \A t : ~ In(s, t)
           /\ First(s) # None => In(s, First(s))
           /\ After(s, First(s)) = First(Without(s, First(s)))
<1>1. CASE s = <<>>
  BY <1>1, Threads DEF First, After, In, Without
<1>2. CASE s # <<>>
  <2>1. Len(s) \in Nat \ {0} /\ s[1] \in Slots /\ First(s) = s[1]
    BY <1>2 DEF First
  <2>2. In(s, s[1])
    BY <2>1 DEF In
  <2>3. \A i \in 1 .. Len(s) : s[i] = s[1] => i = 1
    BY <2>1 DEF Distinct
  <2>4. (CHOOSE i \in DOMAIN s : s[i] = s[1]) = 1
    BY <2>1, <2>3
  <2> DEFINE r == [j \in 1 .. Len(s) - 1 |-> s[IF j < 1 THEN j ELSE j + 1]]
  <2>5. Without(s, s[1]) = r
    BY <2>2, <2>4 DEF Without
  <2>6. Len(s) - 1 \in Nat
    BY <2>1
  <2>7. r \in Seq(Slots) /\ Len(r) = Len(s) - 1
    BY <2>1, <2>6
  <2>8. \A j \in 1 .. Len(s) - 1 : r[j] = s[IF j < 1 THEN j ELSE j + 1]
    OBVIOUS
  <2> HIDE DEF r
  <2>9. CASE Len(s) = 1
    <3>1. {i \in DOMAIN s : s[i] = s[1] /\ i < Len(s)} = {}
      BY <2>9
    <3>2. r = <<>>
      BY <2>7, <2>9
    <3> QED
      BY <2>1, <2>2, <2>5, <3>1, <3>2, Threads DEF First, After
  <2>10. CASE Len(s) # 1
    <3> DEFINE n == Len(s)
    <3>0. n \in Nat /\ n > 1 /\ DOMAIN s = 1 .. n /\ \A i \in 1 .. n : s[i] \in Slots
      <4>1. n \in Nat /\ n > 1
        <5>1. n \in Nat \ {0} /\ n # 1
          BY <2>1, <2>10
        <5> HIDE DEF n
        <5> QED
          BY <5>1
      <4>2. DOMAIN s = 1 .. n
        OBVIOUS
      <4>3. \A i \in 1 .. n : s[i] \in Slots
        OBVIOUS
      <4> QED
        BY <4>1, <4>2, <4>3
    <3>1. {i \in DOMAIN s : s[i] = s[1] /\ i < n} = {1}
      <4> HIDE DEF n
      <4> QED
        BY <2>3, <3>0 DEF n
    <3>2. After(s, s[1]) = s[2]
      <4>1. (CHOOSE j \in {1} : TRUE) = 1
        OBVIOUS
      <4> QED
        BY <3>1, <4>1 DEF After
    <3>3. s[2] \in Slots
      BY <3>0
    <3>4. r # <<>> /\ r[1] = s[2]
      <4>1. r[1] = s[2]
        BY <2>8, <3>0
      <4>2. r # <<>>
        BY <2>7, <3>0
      <4> QED
        BY <4>1, <4>2
    <3> QED
      BY <2>1, <2>2, <2>5, <3>2, <3>3, <3>4, Threads DEF First
  <2> QED
    BY <2>9, <2>10
<1> QED
  BY <1>1, <1>2

-----------------------------------------------------------------------------
(* Consequences of the invariant.                                           *)

LEMMA OwnCallback ==
    ASSUME IInv, pc[Queue] # "idle"
    PROVE  /\ firing \in bits /\ tgt[Queue] = firing /\ ~ Quiet(firing)
           /\ cb[firing] = "uninstall" =>
                 /\ life = "up"
                 /\ \A c \in Clients : ~ Uses(c, firing) /\ ~ Outside(c, firing)
<1>1. /\ firing \in Slots /\ tgt[Queue] = firing /\ own
      /\ "RUNNING" \in work[firing]
  BY DEF IInv, CallerInv, QueuePcs, ItemInv
<1>2. ~ Quiet(firing)
  BY <1>1 DEF Quiet
<1> QED
  BY <1>1, <1>2 DEF IInv, QuietInv, DeinitInv

LEMMA RemovedOnceInv == IInv => RemovedOnce
<1> SUFFICES ASSUME IInv, NEW c \in Callers, pc[c] \in {"unlink", "walk"}, tgt[c] # None
             PROVE  In(list, tgt[c])
  BY DEF RemovedOnce
<1> USE Threads DEF IInv, CallerInv
<1>1. CASE c \in Clients
  BY <1>1 DEF ClientPcs, UseInv, Uses
<1>2. CASE c = Owner
  BY <1>2, FirstFacts DEF TypeInv, PoolType, SlotInv, ListInv, OwnerPcs, DeinitInv
<1>3. CASE c = Queue
  <2>1. /\ firing \in bits /\ tgt[Queue] = firing /\ cb[firing] = "uninstall"
        /\ life = "up" /\ \A d \in Clients : ~ Outside(d, firing)
    BY <1>3, OwnCallback DEF QueuePcs
  <2>2. ~ Outside(Owner, firing) /\ ~ Outside(Queue, firing)
    BY <2>1, <1>3 DEF OwnerPcs, Outside, OutsidePcs
  <2> QED
    BY <2>1, <2>2, <1>3 DEF SlotInv, NoneLost
<1> QED
  BY <1>1, <1>2, <1>3

-----------------------------------------------------------------------------
(* The steps.                                                               *)

LEMMA StepCtxInit ==
    ASSUME IInv, Careful, CtxInit
    PROVE  IInv'
<1> USE Threads DEF CtxInit, poolVars, kernelVars, queueVars, callerVars, ownerVars, history
<1> USE DEF IInv, CallerInv, SlotInv, TypeInv, PoolType, KernelType, CallerType, HistoryType,
        ClientPcs, OwnerPcs, QueuePcs
<1>1. TypeInv'
  BY UseAssumption DEF CallerPcs, TimerOps, Flags, AllCbKinds, Careful
<1>2. LockHeld'
  BY DEF LockHeld, QuietInv, Quiet, DeinitInv, ItemInv
<1>3. ItemInv'
  BY DEF ItemInv
<1>4. ClientPcs'
  OBVIOUS
<1>5. OwnerPcs'
  OBVIOUS
<1>6. QueuePcs'
  BY DEF ItemInv, Careful
<1>7. CancelInv'
  BY DEF CancelInv, ItemInv
<1>8. UseInv'
  BY DEF UseInv, Uses
<1>9. ListInv'
  BY EmptyFacts DEF UseInv, Uses, ListInv, HandInv
<1>10. HandInv'
  BY EmptyFacts DEF UseInv, Uses, Outside, OutsidePcs, ListInv, HandInv
<1>11. NoneLost'
  BY EmptyFacts DEF UseInv, Uses, Outside, OutsidePcs, ListInv, HandInv, NoneLost, DeinitInv
<1>12. QuietInv'
  BY DEF QuietInv, Quiet, ItemInv, Uses, Outside, OutsidePcs
<1>13. DeinitInv'
  BY DEF DeinitInv, Careful
<1> QED
  BY <1>1, <1>2, <1>3, <1>4, <1>5, <1>6, <1>7, <1>8, <1>9, <1>10, <1>11, <1>12, <1>13

LEMMA StepDeinitBegin ==
    ASSUME IInv, Careful, DeinitBegin
    PROVE  IInv'
<1> USE Threads DEF DeinitBegin, poolVars, kernelVars, queueVars, callerVars, ownerVars, history
<1> USE DEF IInv, CallerInv, SlotInv, TypeInv, PoolType, KernelType, CallerType, HistoryType,
        ClientPcs, OwnerPcs, QueuePcs
<1>1. TypeInv'
  BY UseAssumption, FirstFacts, EmptyFacts DEF CallerPcs, TimerOps, Flags, AllCbKinds, Careful,
     ListInv
<1>2. LockHeld'
  BY DEF LockHeld
<1>3. ItemInv'
  BY DEF ItemInv
<1>4. ClientPcs'
  OBVIOUS
<1>5. OwnerPcs'
  OBVIOUS
<1>6. QueuePcs'
  BY DEF ItemInv, Careful
<1>7. CancelInv'
  BY DEF CancelInv, ItemInv
<1>8. UseInv'
  BY DEF UseInv, Uses
<1>9. ListInv'
  BY DEF ListInv
<1>10. HandInv'
  BY DEF HandInv, Outside, OutsidePcs
<1>11. NoneLost'
  BY DEF NoneLost, Outside, OutsidePcs
<1>12. QuietInv'
  BY DEF QuietInv, Quiet, ItemInv, Uses, Outside, OutsidePcs
<1>13. DeinitInv'
  BY DEF DeinitInv, Careful
<1> QED
  BY <1>1, <1>2, <1>3, <1>4, <1>5, <1>6, <1>7, <1>8, <1>9, <1>10, <1>11, <1>12, <1>13

LEMMA StepDeinitRemove ==
    ASSUME IInv, Careful, DeinitRemove
    PROVE  IInv'
<1> USE Threads DEF DeinitRemove, Goto, poolVars, kernelVars, queueVars, callerVars, ownerVars,
        history
<1> USE DEF IInv, CallerInv, SlotInv, TypeInv, PoolType, KernelType, CallerType, HistoryType,
        ClientPcs, OwnerPcs, QueuePcs
<1>1. /\ list' \in Seq(Slots) /\ Distinct(list')
      /\ \A u : In(list', u) <=> In(list, u) /\ u # tgt[Owner]
  BY WithoutFacts DEF IInv, TypeInv, PoolType, KernelType, CallerType, HistoryType, SlotInv,
     ListInv, CallerInv, ItemInv, ClientPcs, OwnerPcs, QueuePcs
<1>2. TypeInv'
  BY <1>1, UseAssumption DEF CallerPcs, TimerOps, Flags, AllCbKinds, Careful
<1>3. LockHeld'
  BY <1>1 DEF LockHeld
<1>4. ItemInv'
  BY <1>1 DEF ItemInv
<1>5. ClientPcs'
  BY <1>1
<1>6. OwnerPcs'
  BY <1>1
<1>7. QueuePcs'
  BY <1>1 DEF ItemInv, Careful
<1>8. CancelInv'
  BY <1>1 DEF CancelInv, ItemInv
<1>9. UseInv'
  BY <1>1 DEF UseInv, Uses
<1>10. ListInv'
  BY <1>1 DEF ListInv
<1>11. HandInv'
  BY FirstFacts, <1>1, EmptyFacts DEF UseInv, Uses, Outside, OutsidePcs, ListInv, HandInv,
     NoneLost, DeinitInv
<1>12. NoneLost'
  BY <1>1 DEF NoneLost, Outside, OutsidePcs
<1>13. QuietInv'
  BY <1>1 DEF QuietInv, Quiet, ItemInv, Uses, Outside, OutsidePcs
<1>14. DeinitInv'
  BY <1>1, FirstFacts, EmptyFacts DEF DeinitInv, Careful, ListInv, HandInv, Outside, OutsidePcs
<1> QED
  BY <1>2, <1>3, <1>4, <1>5, <1>6, <1>7, <1>8, <1>9, <1>10, <1>11, <1>12, <1>13, <1>14

LEMMA StepDeinitRelease ==
    ASSUME IInv, Careful, DeinitRelease
    PROVE  IInv'
<1> USE Threads DEF DeinitRelease, release, poolVars, kernelVars, queueVars, callerVars,
        ownerVars, history
<1> USE DEF IInv, CallerInv, SlotInv, TypeInv, PoolType, KernelType, CallerType, HistoryType,
        ClientPcs, OwnerPcs, QueuePcs
<1>1. TypeInv'
  BY UseAssumption, FirstFacts, EmptyFacts DEF CallerPcs, TimerOps, Flags, AllCbKinds, Careful,
     ListInv, DeinitInv
<1>2. LockHeld'
  BY DEF LockHeld
<1>3. ItemInv'
  BY DEF ItemInv
<1>4. ClientPcs'
  OBVIOUS
<1>5. OwnerPcs'
  OBVIOUS
<1>6. QueuePcs'
  BY DEF ItemInv, Careful
<1>7. CancelInv'
  BY DEF CancelInv, ItemInv
<1>8. UseInv'
  BY DEF UseInv, Uses
<1>9. ListInv'
  BY EmptyFacts DEF UseInv, Uses, Outside, OutsidePcs, ListInv, HandInv, NoneLost
<1>10. HandInv'
  BY DEF HandInv, Outside, OutsidePcs
<1>11. NoneLost'
  BY DEF NoneLost, Outside, OutsidePcs
<1>12. QuietInv'
  BY DEF ItemInv, CancelInv, UseInv, ListInv, HandInv, NoneLost, QuietInv, Quiet, Uses, Outside,
     OutsidePcs
<1>13. DeinitInv'
  BY DEF DeinitInv, Careful
<1> QED
  BY <1>1, <1>2, <1>3, <1>4, <1>5, <1>6, <1>7, <1>8, <1>9, <1>10, <1>11, <1>12, <1>13

LEMMA StepDeinitReturn ==
    ASSUME IInv, Careful, DeinitReturn
    PROVE  IInv'
<1> USE Threads DEF DeinitReturn, Return, poolVars, kernelVars, queueVars, callerVars,
        ownerVars, history
<1> USE DEF IInv, CallerInv, SlotInv, TypeInv, PoolType, KernelType, CallerType, HistoryType,
        ClientPcs, OwnerPcs, QueuePcs
<1>1. TypeInv'
  BY UseAssumption DEF CallerPcs, TimerOps, Flags, AllCbKinds, Careful
<1>2. LockHeld'
  BY DEF LockHeld
<1>3. ItemInv'
  BY DEF ItemInv
<1>4. ClientPcs'
  OBVIOUS
<1>5. OwnerPcs'
  OBVIOUS
<1>6. QueuePcs'
  BY DEF ItemInv, Careful
<1>7. CancelInv'
  BY DEF CancelInv, ItemInv
<1>8. UseInv'
  BY DEF UseInv, Uses
<1>9. ListInv'
  BY DEF ListInv
<1>10. HandInv'
  BY DEF HandInv, Outside, OutsidePcs
<1>11. NoneLost'
  BY DEF NoneLost, Outside, OutsidePcs
<1>12. QuietInv'
  BY DEF QuietInv, Quiet, ItemInv, Uses, Outside, OutsidePcs
<1>13. DeinitInv'
  <2>1. \A t \in Slots : ~ In(list, t)
    BY FirstFacts DEF IInv, SlotInv, ListInv, DeinitInv, TypeInv, PoolType
  <2>2. \A t \in Slots, c \in Callers : ~ Outside(c, t)
    <3>1. ASSUME NEW c \in Callers PROVE pc[c] \notin OutsidePcs
      <4>1. pc[Owner] = "walk" /\ life = "deinit"
        OBVIOUS
      <4>2. \A d \in Clients : pc[d] = "idle"
        BY <4>1
      <4>3. pc[Queue] \in OutsidePcs => cb[firing] = "uninstall" /\ pc[Queue] # "idle"
        BY DEF OutsidePcs
      <4>4. pc[Queue] \notin OutsidePcs
        BY <4>1, <4>3, OwnCallback
      <4> QED
        BY <4>1, <4>2, <4>4 DEF OutsidePcs
    <3> QED
      BY <3>1 DEF Outside
  <2>3. bits = {}
    BY <2>1, <2>2 DEF IInv, SlotInv, NoneLost, TypeInv, PoolType
  <2> QED
    BY <2>3 DEF IInv, DeinitInv, CallerInv, OwnerPcs, TypeInv, CallerType
<1> QED
  BY <1>1, <1>2, <1>3, <1>4, <1>5, <1>6, <1>7, <1>8, <1>9, <1>10, <1>11, <1>12, <1>13

LEMMA StepInstallReserve ==
    ASSUME IInv, Careful, NEW c \in Clients, InstallReserve(c)
    PROVE  IInv'
<1> USE Threads DEF InstallReserve, reserve, poolVars, kernelVars, queueVars, callerVars,
        ownerVars, history
<1> USE DEF IInv, CallerInv, SlotInv, TypeInv, PoolType, KernelType, CallerType, HistoryType,
        ClientPcs, OwnerPcs, QueuePcs
<1>1. TypeInv'
  BY UseAssumption DEF CallerPcs, TimerOps, Flags, AllCbKinds, Careful
<1>2. LockHeld'
  BY DEF LockHeld
<1>3. ItemInv'
  BY DEF ItemInv
<1>4. ClientPcs'
  OBVIOUS
<1>5. OwnerPcs'
  OBVIOUS
<1>6. QueuePcs'
  BY DEF ItemInv, QuietInv, Quiet, Careful
<1>7. CancelInv'
  BY DEF CancelInv, ItemInv
<1>8. UseInv'
  BY DEF UseInv, Uses
<1>9. ListInv'
  BY DEF ListInv
<1>10. HandInv'
  BY EmptyFacts DEF UseInv, Uses, Outside, OutsidePcs, ListInv, HandInv
<1>11. NoneLost'
  <2>1. PICK t \in Slots : bits' = bits \cup {t} /\ tgt'[c] = t /\ pc'[c] = "i_lock"
    BY DEF IInv, TypeInv, CallerType
  <2>2. Outside(c, t)'
    BY <2>1 DEF Outside, OutsidePcs
  <2>3. \A u \in Slots, d \in Callers : Outside(d, u) => Outside(d, u)'
    BY DEF IInv, TypeInv, CallerType, Outside, OutsidePcs
  <2>4. \A u \in bits : In(list, u)' \/ \E d \in Callers : Outside(d, u)'
    BY <2>3 DEF IInv, SlotInv, NoneLost, TypeInv, PoolType
  <2> QED
    BY <2>1, <2>2, <2>4 DEF NoneLost
<1>12. QuietInv'
  BY DEF QuietInv, Quiet, ItemInv, Uses, Outside, OutsidePcs
<1>13. DeinitInv'
  BY DEF DeinitInv, Careful
<1> QED
  BY <1>1, <1>2, <1>3, <1>4, <1>5, <1>6, <1>7, <1>8, <1>9, <1>10, <1>11, <1>12, <1>13

LEMMA StepInstallLock ==
    ASSUME IInv, Careful, NEW c \in Clients, InstallLock(c)
    PROVE  IInv'
<1> USE Threads DEF InstallLock, Lock, Goto, poolVars, kernelVars, queueVars, callerVars,
        ownerVars, history
<1> USE DEF IInv, CallerInv, SlotInv, TypeInv, PoolType, KernelType, CallerType, HistoryType,
        ClientPcs, OwnerPcs, QueuePcs
<1>1. TypeInv'
  BY UseAssumption DEF CallerPcs, TimerOps, Flags, AllCbKinds, Careful
<1>2. LockHeld'
  BY DEF LockHeld
<1>3. ItemInv'
  BY DEF ItemInv
<1>4. ClientPcs'
  OBVIOUS
<1>5. OwnerPcs'
  OBVIOUS
<1>6. QueuePcs'
  BY DEF ItemInv, Careful
<1>7. CancelInv'
  BY DEF CancelInv, ItemInv
<1>8. UseInv'
  BY DEF UseInv, Uses
<1>9. ListInv'
  BY DEF ListInv
<1>10. HandInv'
  BY DEF HandInv, Outside, OutsidePcs
<1>11. NoneLost'
  BY DEF NoneLost, Outside, OutsidePcs
<1>12. QuietInv'
  BY DEF QuietInv, Quiet, ItemInv, Uses, Outside, OutsidePcs
<1>13. DeinitInv'
  BY DEF DeinitInv, Careful
<1> QED
  BY <1>1, <1>2, <1>3, <1>4, <1>5, <1>6, <1>7, <1>8, <1>9, <1>10, <1>11, <1>12, <1>13

LEMMA StepInstallAppend ==
    ASSUME IInv, Careful, NEW c \in Clients, InstallAppend(c)
    PROVE  IInv'
<1> USE Threads DEF InstallAppend, Return, poolVars, kernelVars, queueVars, callerVars,
        ownerVars, history
<1> USE DEF IInv, CallerInv, SlotInv, TypeInv, PoolType, KernelType, CallerType, HistoryType,
        ClientPcs, OwnerPcs, QueuePcs
<1>1. /\ list' \in Seq(Slots)
      /\ ~ In(list, tgt[c]) => Distinct(list')
      /\ \A u : In(list', u) <=> In(list, u) \/ u = tgt[c]
  BY AppendFacts DEF IInv, TypeInv, PoolType, KernelType, CallerType, HistoryType, SlotInv,
     ListInv, CallerInv, ItemInv, ClientPcs, OwnerPcs, QueuePcs
<1>2. TypeInv'
  BY <1>1, UseAssumption DEF CallerPcs, TimerOps, Flags, AllCbKinds, Careful
<1>3. LockHeld'
  BY <1>1 DEF LockHeld
<1>4. ItemInv'
  BY <1>1 DEF ItemInv
<1>5. ClientPcs'
  BY <1>1
<1>6. OwnerPcs'
  BY <1>1
<1>7. QueuePcs'
  BY <1>1 DEF ItemInv, Careful
<1>8. CancelInv'
  BY <1>1 DEF CancelInv, ItemInv
<1>9. UseInv'
  BY <1>1 DEF UseInv, Uses, Outside, OutsidePcs, ListInv, HandInv, NoneLost
<1>10. ListInv'
  BY <1>1, EmptyFacts DEF UseInv, Uses, Outside, OutsidePcs, ListInv, HandInv, NoneLost
<1>11. HandInv'
  BY <1>1 DEF HandInv, Outside, OutsidePcs
<1>12. NoneLost'
  BY <1>1 DEF NoneLost, Outside, OutsidePcs
<1>13. QuietInv'
  BY <1>1 DEF QuietInv, Quiet, ItemInv, Uses, Outside, OutsidePcs
<1>14. DeinitInv'
  BY <1>1 DEF DeinitInv, Careful
<1> QED
  BY <1>2, <1>3, <1>4, <1>5, <1>6, <1>7, <1>8, <1>9, <1>10, <1>11, <1>12, <1>13, <1>14

LEMMA StepClientCall ==
    ASSUME IInv, Careful, NEW c \in Clients, NEW o \in TimerOps, NEW t \in Slots,
           ClientCall(c, o, t)
    PROVE  IInv'
<1> USE Threads DEF ClientCall, Begin, Entry, TimerOps, poolVars, kernelVars, queueVars,
        callerVars, ownerVars, history
<1> USE DEF IInv, CallerInv, SlotInv, TypeInv, PoolType, KernelType, CallerType, HistoryType,
        ClientPcs, OwnerPcs, QueuePcs
<1>1. TypeInv'
  BY UseAssumption DEF CallerPcs, TimerOps, Flags, AllCbKinds, Careful
<1>2. LockHeld'
  BY DEF LockHeld
<1>3. ItemInv'
  BY DEF ItemInv
<1>4. ClientPcs'
  OBVIOUS
<1>5. OwnerPcs'
  OBVIOUS
<1>6. QueuePcs'
  BY DEF ItemInv, Careful
<1>7. CancelInv'
  BY DEF CancelInv, ItemInv
<1>8. UseInv'
  BY DEF UseInv, Uses
<1>9. ListInv'
  BY DEF ListInv
<1>10. HandInv'
  BY DEF HandInv, Outside, OutsidePcs
<1>11. NoneLost'
  BY DEF NoneLost, Outside, OutsidePcs
<1>12. QuietInv'
  BY DEF QuietInv, Quiet, ItemInv, Uses, Outside, OutsidePcs
<1>13. DeinitInv'
  BY DEF DeinitInv, Careful
<1> QED
  BY <1>1, <1>2, <1>3, <1>4, <1>5, <1>6, <1>7, <1>8, <1>9, <1>10, <1>11, <1>12, <1>13

LEMMA StepCallbackCall ==
    ASSUME IInv, Careful, NEW o \in TimerOps, CallbackCall(o)
    PROVE  IInv'
<1> USE Threads DEF CallbackCall, Begin, Entry, TimerOps, poolVars, kernelVars, queueVars,
        callerVars, ownerVars, history
<1> USE DEF IInv, CallerInv, SlotInv, TypeInv, PoolType, KernelType, CallerType, HistoryType,
        ClientPcs, OwnerPcs, QueuePcs
<1>1. TypeInv'
  BY UseAssumption DEF CallerPcs, TimerOps, Flags, AllCbKinds, Careful, ItemInv
<1>2. LockHeld'
  BY DEF LockHeld
<1>3. ItemInv'
  BY DEF ItemInv
<1>4. ClientPcs'
  OBVIOUS
<1>5. OwnerPcs'
  OBVIOUS
<1>6. QueuePcs'
  BY DEF ItemInv, Careful
<1>7. CancelInv'
  BY DEF CancelInv, ItemInv
<1>8. UseInv'
  BY DEF UseInv, Uses
<1>9. ListInv'
  BY DEF ListInv
<1>10. HandInv'
  BY DEF HandInv, Outside, OutsidePcs
<1>11. NoneLost'
  BY DEF NoneLost, Outside, OutsidePcs
<1>12. QuietInv'
  BY DEF ItemInv, CancelInv, UseInv, ListInv, HandInv, NoneLost, QuietInv, Quiet, Uses, Outside,
     OutsidePcs
<1>13. DeinitInv'
  BY DEF DeinitInv, Careful
<1> QED
  BY <1>1, <1>2, <1>3, <1>4, <1>5, <1>6, <1>7, <1>8, <1>9, <1>10, <1>11, <1>12, <1>13

LEMMA StepStartCheck ==
    ASSUME IInv, Careful, NEW c \in Clients \cup {Queue}, StartCheck(c)
    PROVE  IInv'
<1> USE Threads DEF StartCheck, busy, Return, Goto, poolVars, kernelVars, queueVars, callerVars,
        ownerVars, history
<1> USE DEF IInv, CallerInv, SlotInv, TypeInv, PoolType, KernelType, CallerType, HistoryType,
        ClientPcs, OwnerPcs, QueuePcs
<1>1. TypeInv'
  <2>1. CASE busy(tgt[c])
    BY <2>1 DEF IInv, TypeInv, PoolType, KernelType, CallerType, HistoryType, CallerPcs
  <2>2. CASE ~ busy(tgt[c])
    BY <2>2 DEF IInv, TypeInv, PoolType, KernelType, CallerType, HistoryType, CallerPcs
  <2> QED
    BY <2>1, <2>2
<1>2. LockHeld'
  BY DEF LockHeld
<1>3. ItemInv'
  BY DEF ItemInv
<1>4. ClientPcs'
  OBVIOUS
<1>5. OwnerPcs'
  OBVIOUS
<1>6. QueuePcs'
  BY DEF ItemInv, Careful
<1>7. CancelInv'
  BY DEF CancelInv, ItemInv
<1>8. UseInv'
  <2>1. \A d \in Clients, t \in Slots : Uses(d, t)' => Uses(d, t)
    <3>1. CASE busy(tgt[c])
      BY <3>1 DEF IInv, TypeInv, CallerType, Uses
    <3>2. CASE ~ busy(tgt[c])
      BY <3>2 DEF IInv, TypeInv, CallerType, Uses
    <3> QED
      BY <3>1, <3>2
  <2> QED
    BY <2>1 DEF IInv, UseInv
<1>9. ListInv'
  BY DEF ListInv
<1>10. HandInv'
  BY EmptyFacts DEF UseInv, Uses, Outside, OutsidePcs, ListInv, HandInv
<1>11. NoneLost'
  BY DEF NoneLost, Outside, OutsidePcs
<1>12. QuietInv'
  BY DEF QuietInv, Quiet, ItemInv, Uses, Outside, OutsidePcs
<1>13. DeinitInv'
  BY DEF DeinitInv, Careful
<1> QED
  BY <1>1, <1>2, <1>3, <1>4, <1>5, <1>6, <1>7, <1>8, <1>9, <1>10, <1>11, <1>12, <1>13

LEMMA StepReschedule ==
    ASSUME IInv, Careful, NEW c \in Clients \cup {Queue}, Reschedule(c)
    PROVE  IInv'
<1> USE Threads DEF Reschedule, Rescheduled, Return, poolVars, kernelVars, queueVars,
        callerVars, ownerVars, history
<1> USE DEF IInv, CallerInv, SlotInv, TypeInv, PoolType, KernelType, CallerType, HistoryType,
        ClientPcs, OwnerPcs, QueuePcs
<1>1. TypeInv'
  BY UseAssumption DEF CallerPcs, TimerOps, Flags, AllCbKinds, Careful
<1>2. LockHeld'
  BY DEF LockHeld
<1>3. ItemInv'
  BY DEF ItemInv
<1>4. ClientPcs'
  OBVIOUS
<1>5. OwnerPcs'
  OBVIOUS
<1>6. QueuePcs'
  BY DEF ItemInv, Careful
<1>7. CancelInv'
  BY DEF ItemInv, CancelInv, UseInv, ListInv, HandInv, NoneLost, QuietInv, Quiet, Uses, Outside,
     OutsidePcs
<1>8. UseInv'
  BY DEF UseInv, Uses
<1>9. ListInv'
  BY DEF ListInv
<1>10. HandInv'
  BY DEF HandInv, Outside, OutsidePcs
<1>11. NoneLost'
  BY EmptyFacts DEF UseInv, Uses, Outside, OutsidePcs, ListInv, HandInv, NoneLost
<1>12. QuietInv'
  BY DEF ItemInv, UseInv, ListInv, HandInv, QuietInv, Quiet, Uses, Outside, OutsidePcs
<1>13. DeinitInv'
  BY DEF DeinitInv, Careful
<1> QED
  BY <1>1, <1>2, <1>3, <1>4, <1>5, <1>6, <1>7, <1>8, <1>9, <1>10, <1>11, <1>12, <1>13

LEMMA StepStop ==
    ASSUME IInv, Careful, NEW c \in Clients \cup {Queue}, Stop(c)
    PROVE  IInv'
<1> USE Threads DEF Stop, Cancelled, Return, poolVars, kernelVars, queueVars, callerVars,
        ownerVars, history
<1> USE DEF IInv, CallerInv, SlotInv, TypeInv, PoolType, KernelType, CallerType, HistoryType,
        ClientPcs, OwnerPcs, QueuePcs
<1>1. /\ pending' \in Seq(Slots) /\ Distinct(pending')
      /\ \A u : In(pending', u) <=> In(pending, u) /\ u # tgt[c]
  BY WithoutFacts DEF IInv, TypeInv, PoolType, KernelType, CallerType, HistoryType, SlotInv,
     ListInv, CallerInv, ItemInv, ClientPcs, OwnerPcs, QueuePcs
<1>2. TypeInv'
  BY <1>1, UseAssumption DEF CallerPcs, TimerOps, Flags, AllCbKinds, Careful
<1>3. LockHeld'
  BY <1>1 DEF LockHeld
<1>4. ItemInv'
  BY <1>1 DEF ItemInv
<1>5. ClientPcs'
  BY <1>1
<1>6. OwnerPcs'
  BY <1>1
<1>7. QueuePcs'
  BY <1>1 DEF ItemInv, Careful
<1>8. CancelInv'
  BY <1>1 DEF CancelInv, ItemInv
<1>9. UseInv'
  BY <1>1 DEF UseInv, Uses
<1>10. ListInv'
  BY <1>1 DEF ListInv
<1>11. HandInv'
  BY <1>1 DEF HandInv, Outside, OutsidePcs
<1>12. NoneLost'
  BY <1>1 DEF NoneLost, Outside, OutsidePcs
<1>13. QuietInv'
  BY <1>1 DEF QuietInv, Quiet, ItemInv, Uses, Outside, OutsidePcs
<1>14. DeinitInv'
  BY <1>1 DEF DeinitInv, Careful
<1> QED
  BY <1>2, <1>3, <1>4, <1>5, <1>6, <1>7, <1>8, <1>9, <1>10, <1>11, <1>12, <1>13, <1>14

LEMMA StepUninstallLock ==
    ASSUME IInv, Careful, NEW c \in Clients \cup {Queue}, UninstallLock(c)
    PROVE  IInv'
<1> USE Threads DEF UninstallLock, Lock, Goto, poolVars, kernelVars, queueVars, callerVars,
        ownerVars, history
<1> USE DEF IInv, CallerInv, SlotInv, TypeInv, PoolType, KernelType, CallerType, HistoryType,
        ClientPcs, OwnerPcs, QueuePcs
<1>1. TypeInv'
  BY UseAssumption DEF CallerPcs, TimerOps, Flags, AllCbKinds, Careful
<1>2. LockHeld'
  BY DEF LockHeld
<1>3. ItemInv'
  BY DEF ItemInv
<1>4. ClientPcs'
  OBVIOUS
<1>5. OwnerPcs'
  OBVIOUS
<1>6. QueuePcs'
  BY DEF ItemInv, Careful
<1>7. CancelInv'
  BY DEF CancelInv, ItemInv
<1>8. UseInv'
  BY DEF UseInv, Uses
<1>9. ListInv'
  BY DEF ListInv
<1>10. HandInv'
  BY DEF HandInv, Outside, OutsidePcs
<1>11. NoneLost'
  BY DEF NoneLost, Outside, OutsidePcs
<1>12. QuietInv'
  BY DEF QuietInv, Quiet, ItemInv, Uses, Outside, OutsidePcs
<1>13. DeinitInv'
  BY DEF DeinitInv, Careful
<1> QED
  BY <1>1, <1>2, <1>3, <1>4, <1>5, <1>6, <1>7, <1>8, <1>9, <1>10, <1>11, <1>12, <1>13

LEMMA StepUninstallUnlink ==
    ASSUME IInv, Careful, NEW c \in Clients \cup {Queue}, UninstallUnlink(c)
    PROVE  IInv'
<1> USE Threads DEF UninstallUnlink, Goto, poolVars, kernelVars, queueVars, callerVars,
        ownerVars, history
<1> USE DEF IInv, CallerInv, SlotInv, TypeInv, PoolType, KernelType, CallerType, HistoryType,
        ClientPcs, OwnerPcs, QueuePcs
<1>1. /\ list' \in Seq(Slots) /\ Distinct(list')
      /\ \A u : In(list', u) <=> In(list, u) /\ u # tgt[c]
  BY WithoutFacts DEF IInv, TypeInv, PoolType, KernelType, CallerType, HistoryType, SlotInv,
     ListInv, CallerInv, ItemInv, ClientPcs, OwnerPcs, QueuePcs
<1>2. TypeInv'
  BY <1>1, UseAssumption DEF CallerPcs, TimerOps, Flags, AllCbKinds, Careful
<1>3. LockHeld'
  BY <1>1 DEF LockHeld
<1>4. ItemInv'
  BY <1>1 DEF ItemInv
<1>5. ClientPcs'
  BY <1>1
<1>6. OwnerPcs'
  BY <1>1
<1>7. QueuePcs'
  BY <1>1 DEF ItemInv, Careful
<1>8. CancelInv'
  BY <1>1 DEF CancelInv, ItemInv
<1>9. UseInv'
  <2>1. \A d \in Clients, t \in Slots : Uses(d, t)' => Uses(d, t)
    BY DEF IInv, TypeInv, CallerType, Uses
  <2>2. \A d \in Clients : ~ Uses(d, tgt[c])'
    <3>1. CASE c = Queue
      BY <2>1, <3>1, OwnCallback DEF IInv, CallerInv, QueuePcs, ItemInv
    <3>2. CASE c \in Clients
      BY <2>1, <3>2 DEF IInv, UseInv, CallerInv, ClientPcs, TypeInv, CallerType, Uses
    <3> QED
      BY <3>1, <3>2
  <2> QED
    BY <1>1, <2>1, <2>2 DEF IInv, UseInv
<1>10. ListInv'
  BY <1>1 DEF ListInv
<1>11. HandInv'
  <2>1. tgt[c] \in Slots /\ In(list, tgt[c]) /\ tgt[c] \in bits
    BY RemovedOnceInv DEF RemovedOnce, IInv, SlotInv, ListInv, CallerInv, ClientPcs, QueuePcs,
       ItemInv
  <2>2. \A d \in Callers, t \in Slots : Outside(d, t)' <=> Outside(d, t) \/ (d = c /\ t = tgt[c])
    BY DEF IInv, TypeInv, CallerType, Outside, OutsidePcs
  <2>3. \A d \in Callers : ~ Outside(d, tgt[c])
    BY <2>1 DEF IInv, SlotInv, HandInv
  <2> QED
    BY <1>1, <2>1, <2>2, <2>3 DEF IInv, SlotInv, HandInv
<1>12. NoneLost'
  BY <1>1 DEF NoneLost, Outside, OutsidePcs
<1>13. QuietInv'
  BY <1>1 DEF QuietInv, Quiet, ItemInv, Uses, Outside, OutsidePcs
<1>14. DeinitInv'
  BY <1>1, FirstFacts, EmptyFacts DEF DeinitInv, Careful, ItemInv, CancelInv, UseInv, ListInv,
     HandInv, NoneLost, QuietInv, Quiet, Uses, Outside, OutsidePcs
<1> QED
  BY <1>2, <1>3, <1>4, <1>5, <1>6, <1>7, <1>8, <1>9, <1>10, <1>11, <1>12, <1>13, <1>14

LEMMA StepCancel ==
    ASSUME IInv, Careful, NEW c \in Callers, Cancel(c)
    PROVE  IInv'
<1> USE Threads DEF Cancel, Cancelled, Goto, poolVars, kernelVars, queueVars, callerVars,
        ownerVars, history
<1> USE DEF IInv, CallerInv, SlotInv, TypeInv, PoolType, KernelType, CallerType, HistoryType,
        ClientPcs, OwnerPcs, QueuePcs
<1>1. /\ pending' \in Seq(Slots) /\ Distinct(pending')
      /\ \A u : In(pending', u) <=> In(pending, u) /\ u # tgt[c]
  BY WithoutFacts DEF IInv, TypeInv, PoolType, KernelType, CallerType, HistoryType, SlotInv,
     ListInv, CallerInv, ItemInv, ClientPcs, OwnerPcs, QueuePcs
<1>2. TypeInv'
  <2>1. PoolType' /\ HistoryType'
    OBVIOUS
  <2>2. KernelType'
    <3>1. work' \in [Slots -> SUBSET Flags]
      BY DEF Flags
    <3>2. sleepers' \subseteq Callers
      OBVIOUS
    <3> QED
      BY <1>1, <3>1, <3>2
  <2>3. CallerType'
    BY DEF CallerPcs
  <2> QED
    BY <2>1, <2>2, <2>3
<1>3. LockHeld'
  BY <1>1 DEF LockHeld
<1>4. ItemInv'
  BY <1>1 DEF ItemInv
<1>5. ClientPcs'
  BY <1>1
<1>6. OwnerPcs'
  BY <1>1
<1>7. QueuePcs'
  BY <1>1 DEF ItemInv, Careful
<1>8. CancelInv'
  <2>1. tgt[c] \in Slots /\ Outside(c, tgt[c])
    BY DEF IInv, CallerInv, ClientPcs, OwnerPcs, QueuePcs, ItemInv, TypeInv, KernelType,
       CallerType, Outside, OutsidePcs
  <2>2. \A d \in Callers : d # c /\ pc[d] = "release" => tgt[d] # tgt[c]
    BY <2>1 DEF IInv, SlotInv, HandInv, TypeInv, CallerType, Outside, OutsidePcs
  <2>3. c \notin sleepers
    BY DEF IInv, CancelInv
  <2>4. c = Queue => tgt[c] = firing /\ "RUNNING" \in work[tgt[c]]
    BY <2>1 DEF IInv, CallerInv, QueuePcs, ItemInv
  <2>5. \A d \in Callers : d # c /\ pc[d] = "release" => work'[tgt[d]] = work[tgt[d]]
    BY <2>2 DEF IInv, TypeInv, KernelType
  <2>6. work'[tgt[c]] = IF "RUNNING" \in work[tgt[c]] THEN {"RUNNING", "CANCELING"} ELSE {}
    BY <2>1 DEF IInv, TypeInv, KernelType
  <2>7. /\ \A d \in Callers : pc'[d] = "release" <=> pc[d] = "release" \/ d = c
        /\ tgt' = tgt
    BY DEF IInv, TypeInv, CallerType
  <2>8. \A d \in Callers : d # c => (d \in sleepers' <=> d \in sleepers)
    OBVIOUS
  <2>9. c \in sleepers' => c # Queue /\ "CANCELING" \in work'[tgt[c]]
    BY <2>3, <2>4, <2>6
  <2>10. c # Queue /\ c \notin sleepers' => work'[tgt[c]] = {}
    OBVIOUS
  <2>11. sleepers' \subseteq Callers
    BY DEF IInv, TypeInv, KernelType
  <2> HIDE DEF Cancel
  <2>12. \A d \in Callers : d # c /\ pc[d] = "release" =>
            /\ work'[tgt[d]] \subseteq {"RUNNING", "CANCELING"}
            /\ d # Queue /\ d \notin sleepers' => work'[tgt[d]] = {}
            /\ d = Queue => "CANCELING" \in work'[tgt[d]]
    BY <2>5, <2>8 DEF IInv, CancelInv
  <2>13. \A d \in sleepers' :
            d # Queue /\ pc'[d] = "release" /\ "CANCELING" \in work'[tgt[d]]
    BY <2>5, <2>7, <2>8, <2>9, <2>11 DEF IInv, CancelInv
  <2> QED
    BY <2>4, <2>6, <2>7, <2>10, <2>12, <2>13 DEF CancelInv
<1>9. UseInv'
  BY <1>1 DEF UseInv, Uses
<1>10. ListInv'
  BY <1>1 DEF ListInv
<1>11. HandInv'
  BY <1>1 DEF HandInv, Outside, OutsidePcs
<1>12. NoneLost'
  BY <1>1 DEF NoneLost, Outside, OutsidePcs
<1>13. QuietInv'
  BY <1>1 DEF ItemInv, CancelInv, UseInv, ListInv, HandInv, NoneLost, QuietInv, Quiet, Uses,
     Outside, OutsidePcs
<1>14. DeinitInv'
  BY <1>1 DEF DeinitInv, Careful
<1> QED
  BY <1>2, <1>3, <1>4, <1>5, <1>6, <1>7, <1>8, <1>9, <1>10, <1>11, <1>12, <1>13, <1>14

LEMMA StepUninstallRelease ==
    ASSUME IInv, Careful, NEW c \in Clients \cup {Queue}, UninstallRelease(c)
    PROVE  IInv'
<1> USE Threads DEF UninstallRelease, release, Return, poolVars, kernelVars, queueVars,
        callerVars, ownerVars, history
<1> USE DEF IInv, CallerInv, SlotInv, TypeInv, PoolType, KernelType, CallerType, HistoryType,
        ClientPcs, OwnerPcs, QueuePcs
<1>1. TypeInv'
  BY UseAssumption DEF CallerPcs, TimerOps, Flags, AllCbKinds, Careful
<1>2. LockHeld'
  BY DEF LockHeld
<1>3. ItemInv'
  BY DEF ItemInv
<1>4. ClientPcs'
  OBVIOUS
<1>5. OwnerPcs'
  OBVIOUS
<1>6. QueuePcs'
  BY DEF ItemInv, Careful
<1>7. CancelInv'
  BY DEF CancelInv, ItemInv
<1>8. UseInv'
  BY DEF UseInv, Uses
<1>9. ListInv'
  BY EmptyFacts DEF UseInv, Uses, Outside, OutsidePcs, ListInv, HandInv, NoneLost
<1>10. HandInv'
  BY DEF HandInv, Outside, OutsidePcs
<1>11. NoneLost'
  BY DEF NoneLost, Outside, OutsidePcs
<1>12. QuietInv'
  <2>1. PICK t \in Slots : t = tgt[c] /\ bits' = bits \ {t}
    BY DEF IInv, CallerInv, ClientPcs, QueuePcs, ItemInv
  <2>2. Quiet(t)'
    <3>1. CASE c = Queue
      BY <2>1, <3>1 DEF IInv, CancelInv, CallerInv, QueuePcs, Quiet
    <3>2. CASE c \in Clients
      BY <2>1, <3>2 DEF IInv, CancelInv, Quiet
    <3> QED
      BY <3>1, <3>2
  <2>3. \A u \in Slots : Quiet(u) => Quiet(u)'
    BY DEF Quiet
  <2>4. \A d \in Clients, u \in Slots :
           (Uses(d, u) \/ Outside(d, u))' => Uses(d, u) \/ Outside(d, u)
    BY DEF IInv, TypeInv, CallerType, Uses, Outside, OutsidePcs
  <2> QED
    BY <2>1, <2>2, <2>3, <2>4 DEF IInv, QuietInv
<1>13. DeinitInv'
  BY DEF DeinitInv, Careful
<1> QED
  BY <1>1, <1>2, <1>3, <1>4, <1>5, <1>6, <1>7, <1>8, <1>9, <1>10, <1>11, <1>12, <1>13

LEMMA StepQueueTake ==
    ASSUME IInv, Careful, QueueTake
    PROVE  IInv'
<1> USE Threads DEF QueueTake, poolVars, kernelVars, queueVars, callerVars, ownerVars, history
<1> USE DEF IInv, CallerInv, SlotInv, TypeInv, PoolType, KernelType, CallerType, HistoryType,
        ClientPcs, OwnerPcs, QueuePcs
<1>1. /\ Head(pending) \in Slots /\ In(pending, Head(pending))
      /\ pending' \in Seq(Slots) /\ Distinct(pending')
      /\ \A u : In(pending', u) <=> In(pending, u) /\ u # Head(pending)
  BY TailFacts DEF IInv, TypeInv, PoolType, KernelType, CallerType, HistoryType, SlotInv,
     ListInv, CallerInv, ItemInv, ClientPcs, OwnerPcs, QueuePcs
<1>2. TypeInv'
  BY <1>1, UseAssumption DEF CallerPcs, TimerOps, Flags, AllCbKinds, Careful
<1>3. LockHeld'
  BY <1>1 DEF LockHeld
<1>4. ItemInv'
  BY <1>1 DEF ItemInv
<1>5. ClientPcs'
  BY <1>1
<1>6. OwnerPcs'
  BY <1>1
<1>7. QueuePcs'
  BY <1>1 DEF ItemInv, Careful
<1>8. CancelInv'
  BY <1>1 DEF CancelInv, ItemInv
<1>9. UseInv'
  BY <1>1 DEF UseInv, Uses
<1>10. ListInv'
  BY <1>1 DEF ListInv
<1>11. HandInv'
  BY <1>1 DEF HandInv, Outside, OutsidePcs
<1>12. NoneLost'
  BY <1>1 DEF NoneLost, Outside, OutsidePcs
<1>13. QuietInv'
  BY <1>1 DEF ItemInv, CancelInv, UseInv, ListInv, HandInv, NoneLost, QuietInv, Quiet, Uses,
     Outside, OutsidePcs
<1>14. DeinitInv'
  BY <1>1 DEF DeinitInv, Careful
<1> QED
  BY <1>2, <1>3, <1>4, <1>5, <1>6, <1>7, <1>8, <1>9, <1>10, <1>11, <1>12, <1>13, <1>14

LEMMA StepTimerExpiry ==
    ASSUME IInv, Careful, TimerExpiry
    PROVE  IInv'
<1> USE Threads DEF TimerExpiry, poolVars, kernelVars, queueVars, callerVars, ownerVars, history
<1> USE DEF IInv, CallerInv, SlotInv, TypeInv, PoolType, KernelType, CallerType, HistoryType,
        ClientPcs, OwnerPcs, QueuePcs
<1>1. TypeInv'
  <2>1. KernelType'
    OBVIOUS
  <2>2. HistoryType'
    <3>1. promise' \in [Slots -> BOOLEAN]
      OBVIOUS
    <3> QED
      BY <3>1
  <2> QED
    BY <2>1, <2>2
<1>2. LockHeld'
  BY DEF LockHeld
<1>3. ItemInv'
  BY DEF ItemInv
<1>4. ClientPcs'
  OBVIOUS
<1>5. OwnerPcs'
  OBVIOUS
<1>6. QueuePcs'
  BY DEF ItemInv, Careful
<1>7. CancelInv'
  BY DEF CancelInv, ItemInv
<1>8. UseInv'
  BY DEF UseInv, Uses
<1>9. ListInv'
  BY DEF ListInv
<1>10. HandInv'
  BY DEF HandInv, Outside, OutsidePcs
<1>11. NoneLost'
  BY DEF NoneLost, Outside, OutsidePcs
<1>12. QuietInv'
  BY DEF QuietInv, Quiet, ItemInv, Uses, Outside, OutsidePcs
<1>13. DeinitInv'
  BY DEF DeinitInv, Careful
<1> QED
  BY <1>1, <1>2, <1>3, <1>4, <1>5, <1>6, <1>7, <1>8, <1>9, <1>10, <1>11, <1>12, <1>13

LEMMA StepCallbackReturn ==
    ASSUME IInv, Careful, CallbackReturn
    PROVE  IInv'
<1> USE Threads DEF CallbackReturn, poolVars, kernelVars, queueVars, callerVars, ownerVars,
        history
<1> USE DEF IInv, CallerInv, SlotInv, TypeInv, PoolType, KernelType, CallerType, HistoryType,
        ClientPcs, OwnerPcs, QueuePcs
<1>1. TypeInv'
  BY UseAssumption DEF CallerPcs, TimerOps, Flags, AllCbKinds, Careful
<1>2. LockHeld'
  BY DEF LockHeld
<1>3. ItemInv'
  BY DEF ItemInv
<1>4. ClientPcs'
  OBVIOUS
<1>5. OwnerPcs'
  OBVIOUS
<1>6. QueuePcs'
  BY DEF ItemInv, Careful
<1>7. CancelInv'
  BY DEF CancelInv, ItemInv
<1>8. UseInv'
  BY DEF UseInv, Uses
<1>9. ListInv'
  BY DEF ListInv
<1>10. HandInv'
  BY DEF HandInv, Outside, OutsidePcs
<1>11. NoneLost'
  BY DEF NoneLost, Outside, OutsidePcs
<1>12. QuietInv'
  BY DEF QuietInv, Quiet, ItemInv, Uses, Outside, OutsidePcs
<1>13. DeinitInv'
  BY DEF DeinitInv, Careful
<1> QED
  BY <1>1, <1>2, <1>3, <1>4, <1>5, <1>6, <1>7, <1>8, <1>9, <1>10, <1>11, <1>12, <1>13

LEMMA StepQueueDone ==
    ASSUME IInv, Careful, QueueDone
    PROVE  IInv'
<1> USE Threads DEF QueueDone, poolVars, kernelVars, queueVars, callerVars, ownerVars, history
<1> USE DEF IInv, CallerInv, SlotInv, TypeInv, PoolType, KernelType, CallerType, HistoryType,
        ClientPcs, OwnerPcs, QueuePcs
<1>1. TypeInv'
  BY UseAssumption DEF CallerPcs, TimerOps, Flags, AllCbKinds, Careful
<1>2. LockHeld'
  BY DEF LockHeld
<1>3. ItemInv'
  BY DEF ItemInv
<1>4. ClientPcs'
  OBVIOUS
<1>5. OwnerPcs'
  OBVIOUS
<1>6. QueuePcs'
  BY DEF ItemInv, Careful
<1>7. CancelInv'
  BY DEF CancelInv, ItemInv
<1>8. UseInv'
  BY DEF UseInv, Uses
<1>9. ListInv'
  BY DEF ListInv
<1>10. HandInv'
  BY DEF HandInv, Outside, OutsidePcs
<1>11. NoneLost'
  BY DEF NoneLost, Outside, OutsidePcs
<1>12. QuietInv'
  BY DEF QuietInv, Quiet, ItemInv, Uses, Outside, OutsidePcs
<1>13. DeinitInv'
  BY DEF DeinitInv, Careful
<1> QED
  BY <1>1, <1>2, <1>3, <1>4, <1>5, <1>6, <1>7, <1>8, <1>9, <1>10, <1>11, <1>12, <1>13

LEMMA StepTimeout ==
    ASSUME IInv, Careful, NEW t \in Slots, Timeout(t)
    PROVE  IInv'
<1> USE Threads DEF Timeout, poolVars, kernelVars, queueVars, callerVars, ownerVars, history
<1> DEFINE Queues == work[t] \cap {"QUEUED", "CANCELING"} = {}
<1>1. /\ pending' \in Seq(Slots) /\ Distinct(pending')
      /\ \A u : In(pending', u) <=> In(pending, u) \/ (Queues /\ u = t)
  <2>1. pending \in Seq(Slots) /\ Distinct(pending)
    BY DEF IInv, TypeInv, KernelType, ItemInv
  <2>2. CASE Queues
    <3>1. pending' = Append(pending, t)
      BY <2>2
    <3>2. ~ In(pending, t)
      BY <2>2 DEF IInv, ItemInv
    <3> HIDE DEF Queues, Timeout
    <3> QED
      BY <2>1, <2>2, <3>1, <3>2, AppendFacts
  <2>3. CASE ~ Queues
    BY <2>1, <2>3
  <2> QED
    BY <2>2, <2>3
<1>2. TypeInv'
  <2>1. work' \in [Slots -> SUBSET Flags]
    <3>1. CASE Queues
      BY <3>1 DEF IInv, TypeInv, KernelType, Flags
    <3>2. CASE ~ Queues
      BY <3>2 DEF IInv, TypeInv, KernelType
    <3> QED
      BY <3>1, <3>2
  <2> QED
    BY <1>1, <2>1 DEF IInv, TypeInv, PoolType, KernelType, CallerType, HistoryType
<1> USE DEF IInv, CallerInv, SlotInv, TypeInv, PoolType, KernelType, CallerType, HistoryType,
        ClientPcs, OwnerPcs, QueuePcs
<1>3. LockHeld'
  BY <1>1 DEF LockHeld
<1>4. ItemInv'
  BY <1>1 DEF ItemInv
<1>5. ClientPcs'
  BY <1>1
<1>6. OwnerPcs'
  BY <1>1
<1>7. QueuePcs'
  BY <1>1 DEF ItemInv, Careful
<1>8. CancelInv'
  <2>1. \A u \in Slots : u # t => work'[u] = work[u]
    <3>1. CASE Queues
      BY <3>1 DEF IInv, TypeInv, KernelType
    <3>2. CASE ~ Queues
      BY <3>2 DEF IInv, TypeInv, KernelType
    <3> QED
      BY <3>1, <3>2
  <2>2. \A c \in Callers : pc[c] = "release" => tgt[c] \in Slots /\ tgt[c] # t
    BY DEF IInv, CancelInv, CallerInv, ClientPcs, OwnerPcs, QueuePcs, ItemInv
  <2>3. \A c \in Callers : pc[c] = "release" => work'[tgt[c]] = work[tgt[c]]
    BY <2>1, <2>2
  <2> HIDE DEF Timeout
  <2>4. pc' = pc /\ tgt' = tgt /\ sleepers' = sleepers /\ sleepers \subseteq Callers
    BY DEF Timeout, IInv, TypeInv, KernelType
  <2> QED
    BY <2>3, <2>4 DEF IInv, CancelInv
<1>9. UseInv'
  BY <1>1 DEF UseInv, Uses
<1>10. ListInv'
  BY <1>1 DEF ListInv
<1>11. HandInv'
  BY <1>1 DEF HandInv, Outside, OutsidePcs
<1>12. NoneLost'
  BY <1>1 DEF NoneLost, Outside, OutsidePcs
<1>13. QuietInv'
  BY <1>1 DEF ItemInv, CancelInv, UseInv, ListInv, HandInv, NoneLost, QuietInv, Quiet, Uses,
     Outside, OutsidePcs
<1>14. DeinitInv'
  BY <1>1 DEF DeinitInv, Careful
<1> QED
  BY <1>2, <1>3, <1>4, <1>5, <1>6, <1>7, <1>8, <1>9, <1>10, <1>11, <1>12, <1>13, <1>14

-----------------------------------------------------------------------------
(* The invariant.                                                           *)

LEMMA InitInv == Init => IInv
<1> SUFFICES ASSUME Init
             PROVE  IInv
  OBVIOUS
<1> USE Threads, EmptyFacts DEF Init
<1>1. TypeInv
  <2>1. <<>> \in Seq(Slots)
    OBVIOUS
  <2>2. PoolType
    BY <2>1 DEF PoolType, AllCbKinds
  <2>3. KernelType
    BY <2>1 DEF KernelType
  <2>4. CallerType
    BY DEF CallerType, CallerPcs
  <2>5. HistoryType
    BY DEF HistoryType
  <2> QED
    BY <2>2, <2>3, <2>4, <2>5 DEF TypeInv
<1>2. LockHeld
  BY DEF LockHeld
<1>3. ItemInv
  BY DEF ItemInv
<1>4. CallerInv
  BY DEF CallerInv, ClientPcs, OwnerPcs, QueuePcs
<1>5. CancelInv
  BY DEF CancelInv
<1>6. UseInv
  BY DEF UseInv, Uses
<1>7. SlotInv
  BY DEF SlotInv, ListInv, HandInv, NoneLost, Outside, OutsidePcs
<1>8. QuietInv
  BY DEF QuietInv, Quiet, Uses, Outside, OutsidePcs
<1>9. DeinitInv
  BY DEF DeinitInv
<1> QED
  BY <1>1, <1>2, <1>3, <1>4, <1>5, <1>6, <1>7, <1>8, <1>9 DEF IInv

LEMMA NextCases ==
    ASSUME Next
    PROVE  \/ CtxInit \/ DeinitBegin \/ DeinitRemove \/ DeinitRelease \/ DeinitReturn
           \/ \E c \in Clients : \/ InstallReserve(c) \/ InstallLock(c) \/ InstallAppend(c)
                                 \/ \E o \in TimerOps, t \in Slots : ClientCall(c, o, t)
           \/ \E c \in Clients \cup {Queue} : \/ StartCheck(c) \/ Reschedule(c) \/ Stop(c)
                                              \/ UninstallLock(c) \/ UninstallUnlink(c)
                                              \/ UninstallRelease(c)
           \/ \E c \in Callers : Cancel(c)
           \/ QueueTake \/ TimerExpiry \/ CallbackReturn \/ QueueDone
           \/ \E o \in TimerOps : CallbackCall(o)
           \/ \E t \in Slots : Timeout(t)
BY Threads DEF Next, DeinitStep, InstallStep, CallerStep, QueueStep

LEMMA StutterInv ==
    ASSUME IInv, UNCHANGED vars
    PROVE  IInv'
<1> USE DEF vars, poolVars, kernelVars, queueVars, callerVars, ownerVars, history
<1>1. (TypeInv /\ LockHeld /\ ItemInv /\ CallerInv /\ CancelInv)'
  BY DEF IInv, TypeInv, PoolType, KernelType, CallerType, HistoryType, LockHeld, ItemInv,
         CallerInv, ClientPcs, OwnerPcs, QueuePcs, CancelInv
<1>2. (UseInv /\ SlotInv)'
  BY DEF IInv, UseInv, Uses, SlotInv, ListInv, HandInv, NoneLost, Outside
<1>3. (QuietInv /\ DeinitInv)'
  BY DEF IInv, QuietInv, Quiet, Uses, Outside, DeinitInv
<1> QED
  BY <1>1, <1>2, <1>3 DEF IInv

LEMMA NextInv ==
    ASSUME Careful, IInv, [Next]_vars
    PROVE  IInv'
<1>1. CASE UNCHANGED vars
  BY <1>1, StutterInv
<1>2. CASE CtxInit \/ DeinitBegin \/ DeinitRemove \/ DeinitRelease \/ DeinitReturn
  BY <1>2, StepCtxInit, StepDeinitBegin, StepDeinitRemove, StepDeinitRelease, StepDeinitReturn
<1>3. ASSUME NEW c \in Clients, InstallReserve(c) \/ InstallLock(c) \/ InstallAppend(c)
      PROVE  IInv'
  BY <1>3, StepInstallReserve, StepInstallLock, StepInstallAppend
<1>4. ASSUME NEW c \in Clients, NEW o \in TimerOps, NEW t \in Slots, ClientCall(c, o, t)
      PROVE  IInv'
  BY <1>4, StepClientCall
<1>5. ASSUME NEW c \in Clients \cup {Queue},
             \/ StartCheck(c) \/ Reschedule(c) \/ Stop(c)
             \/ UninstallLock(c) \/ UninstallUnlink(c) \/ UninstallRelease(c)
      PROVE  IInv'
  BY <1>5, StepStartCheck, StepReschedule, StepStop, StepUninstallLock, StepUninstallUnlink,
     StepUninstallRelease
<1>6. ASSUME NEW c \in Callers, Cancel(c)
      PROVE  IInv'
  BY <1>6, StepCancel
<1>7. CASE QueueTake \/ TimerExpiry \/ CallbackReturn \/ QueueDone
  BY <1>7, StepQueueTake, StepTimerExpiry, StepCallbackReturn, StepQueueDone
<1>8. ASSUME NEW o \in TimerOps, CallbackCall(o)
      PROVE  IInv'
  BY <1>8, StepCallbackCall
<1>9. ASSUME NEW t \in Slots, Timeout(t)
      PROVE  IInv'
  BY <1>9, StepTimeout
<1> QED
  BY <1>1, <1>2, <1>3, <1>4, <1>5, <1>6, <1>7, <1>8, <1>9, NextCases

LEMMA Invariance == Careful => (Spec => []IInv)
<1> SUFFICES ASSUME Careful
             PROVE  Spec => []IInv
  OBVIOUS
<1>1. IInv /\ [Next]_vars => IInv'
  BY NextInv
<1> QED
  BY InitInv, <1>1, PTL DEF Spec

\* Every variable has its type, the mutex is held in critical sections only, and an item
\* is in the queue if its flags say so.
THEOREM TypeCorrect == Careful => (Spec => []TypeOK)
<1>1. IInv => TypeOK
  BY DEF IInv, TypeInv, ItemInv, TypeOK
<1> QED
  BY Invariance, <1>1, PTL

\* Uninstall and deinit take a timer out of the list only while it is in it: they never
\* follow the null pointers of a node already removed.
THEOREM RemovedWhenListed == Careful => (Spec => []RemovedOnce)
  BY Invariance, RemovedOnceInv, PTL

\* When uninstall or deinit has cancelled a timer, it neither fires again nor is its
\* callback still running, until its slot is installed and started anew.
THEOREM Quiescence == Careful => (Spec => []UninstallQuiesces)
<1>1. IInv => UninstallQuiesces
  <2> SUFFICES ASSUME IInv, NEW t \in Slots, Gone(t)
               PROVE  /\ work[t] \cap {"DELAYED", "QUEUED"} = {}
                      /\ ~ (InCallback(t) /\ own)
    BY DEF UninstallQuiesces
  <2>1. Quiet(t)
    BY DEF IInv, Gone, CancelInv, QuietInv, Quiet
  <2> QED
    BY <2>1 DEF IInv, ItemInv, InCallback, Quiet
<1> QED
  BY Invariance, <1>1, PTL

\* A slot that is taken is in the list once or in the hands of one caller, and a free one
\* in neither.
THEOREM NoSlotLost == Careful => (Spec => []SlotsAccounted)
<1>1. IInv => SlotsAccounted
  <2> SUFFICES ASSUME IInv, NEW t \in Slots
               PROVE  Places(t) = IF t \in bits THEN 1 ELSE 0
    BY DEF SlotsAccounted
  <2> DEFINE L == {i \in DOMAIN list : list[i] = t}
             H == HasOutside(t)
  <2>1. H = {c \in Callers : Outside(c, t)}
    BY DEF HasOutside, Outside, OutsidePcs
  <2>2. list \in Seq(Slots)
    BY DEF IInv, TypeInv, PoolType
  <2>3. IF In(list, t) THEN \E i : L = {i} ELSE L = {}
    <3>1. CASE In(list, t)
      <4>1. PICK i \in 1 .. Len(list) : list[i] = t
        BY <2>2, <3>1 DEF In
      <4>2. L = {i}
        BY <2>2, <4>1 DEF IInv, SlotInv, ListInv, Distinct
      <4> QED
        BY <3>1, <4>2
    <3>2. CASE ~ In(list, t)
      BY <3>2 DEF In
    <3> QED
      BY <3>1, <3>2
  <2>4. IF \E c \in Callers : Outside(c, t) THEN \E c : H = {c} ELSE H = {}
    <3>1. ASSUME NEW c \in Callers, Outside(c, t)
          PROVE  H = {c}
      BY <2>1, <3>1 DEF IInv, SlotInv, HandInv
    <3>2. CASE \A c \in Callers : ~ Outside(c, t)
      BY <2>1, <3>2
    <3> QED
      BY <3>1, <3>2
  <2>5. /\ t \in bits <=> In(list, t) \/ \E c \in Callers : Outside(c, t)
        /\ ~ (In(list, t) /\ \E c \in Callers : Outside(c, t))
    BY DEF IInv, SlotInv, ListInv, HandInv, NoneLost
  <2> HIDE DEF L, H
  <2>6. Cardinality(L) = IF In(list, t) THEN 1 ELSE 0
    BY <2>3, FS_EmptySet, FS_Singleton
  <2>7. Cardinality(H) = IF \E c \in Callers : Outside(c, t) THEN 1 ELSE 0
    BY <2>4, FS_EmptySet, FS_Singleton
  <2>8. Places(t) = Cardinality(L) + Cardinality(H)
    BY DEF Places, L, H
  <2> QED
    BY <2>5, <2>6, <2>7, <2>8
<1> QED
  BY Invariance, <1>1, PTL
===============================================================================
