--------------------------- MODULE TimerManualProofs ---------------------------
(***************************************************************************)
(* What is proved about TimerManual for every number of timers, of nested  *)
(* advances and of calls: its type invariant, that sequence numbers order  *)
(* the active timers, that an advance leaves nothing that was due, that    *)
(* every step is one the interface (Timer) allows, and that the timers are *)
(* those of a virtual clock (VirtualClock).                                *)
(***************************************************************************)
EXTENDS TimerManual, SequenceTheorems, WellFoundedInduction, TLAPS

-----------------------------------------------------------------------------
(* The inductive invariant.                                                 *)

\* Of the calls in progress, only an advance that is the innermost is not running
\* a callback.
StackInv ==
    \A i \in 1 .. Len(stack) :
       i < Len(stack) \/ stack[i].call = "fire" => stack[i].firing # None

\* As long as the sum of the time and a delay fits in a uint64_t ...
InRange == \A d \in Delays : now_us + d < Wrap

\* ... no active timer has been passed by the clock, not even inside an advance,
NotPassed == \A t \in Pending : expiry_us[t] >= now_us

\* and where no advance is in progress only timers started since the last one expire now.
NoAdvance == \A i \in 1 .. Len(stack) : stack[i].call # "advance"

DueInv ==
    /\ swept <= next_seq
    /\ NoAdvance => \A t \in Pending : expiry_us[t] > now_us \/ seq[t] >= swept

StateInv == TypeOK /\ StackInv /\ SeqOrders

IInv == StateInv /\ NotPassed /\ DueInv

-----------------------------------------------------------------------------
(* The stack of the calls in progress.                                      *)

\* A call begins.
LEMMA PushStack ==
  ASSUME stack \in Seq(Frame), NEW f \in Frame, stack' = Append(stack, f)
  PROVE  /\ stack' \in Seq(Frame)
         /\ Len(stack) \in Nat /\ Len(stack') = Len(stack) + 1
         /\ \A i \in 1 .. Len(stack) : stack'[i] = stack[i]
         /\ stack'[Len(stack')] = f
  BY AppendProperties

\* The innermost call returns.
LEMMA PopStack ==
  ASSUME stack \in Seq(Frame), stack # <<>>, stack' = SubSeq(stack, 1, Len(stack) - 1)
  PROVE  /\ stack' \in Seq(Frame)
         /\ Len(stack) \in Nat \ {0} /\ Len(stack') = Len(stack) - 1
         /\ \A i \in 1 .. Len(stack') : stack'[i] = stack[i]
<1>1. Len(stack) \in Nat \ {0}
  BY EmptySeq
<1>2. \A i \in 1 .. Len(stack) - 1 : stack[i] \in Frame
  BY <1>1, ElementOfSeq
<1> DEFINE n == Len(stack) - 1
<1>3. n \in Nat /\ n + 1 = Len(stack)
  BY <1>1
<1> HIDE DEF n
<1>4. /\ stack' \in Seq(Frame)
      /\ Len(stack') = IF 1 <= n THEN n - 1 + 1 ELSE 0
      /\ \A i \in 1 .. n - 1 + 1 : stack'[i] = stack[1 + i - 1]
  BY <1>2, <1>3, SubSeqProperties DEF n
<1>5. Len(stack') = n
  BY <1>3, <1>4
<1>6. ASSUME NEW i \in 1 .. n PROVE stack'[i] = stack[i]
  <2>1. i \in 1 .. n - 1 + 1 /\ 1 + i - 1 = i
    BY <1>3
  <2> QED
    BY <1>4, <2>1
<1> QED
  BY <1>1, <1>3, <1>4, <1>5, <1>6 DEF n

\* The innermost call begins a callback, or is back from it.
LEMMA SetTop ==
  ASSUME stack \in Seq(Frame), stack # <<>>, NEW t \in Slots \cup {None},
         stack' = [stack EXCEPT ![Len(stack)].firing = t]
  PROVE  /\ stack' \in Seq(Frame)
         /\ Len(stack) \in Nat \ {0} /\ Len(stack') = Len(stack)
         /\ \A i \in 1 .. Len(stack) :
               /\ i # Len(stack) => stack'[i] = stack[i]
               /\ stack'[i].call = stack[i].call /\ stack'[i].end = stack[i].end
         /\ stack'[Len(stack)].firing = t
<1>1. Len(stack) \in Nat \ {0}
  BY EmptySeq
<1> DEFINE f == [stack[Len(stack)] EXCEPT !.firing = t]
<1>2. stack[Len(stack)] \in Frame
  BY <1>1, ElementOfSeq
<1>3. /\ f \in Frame /\ f.firing = t
      /\ f.call = stack[Len(stack)].call /\ f.end = stack[Len(stack)].end
  BY <1>2 DEF Frame
<1>4. stack' = [stack EXCEPT ![Len(stack)] = f]
  OBVIOUS
<1> HIDE DEF f
<1> QED
  BY <1>1, <1>3, <1>4, ExceptSeq

\* Where the callbacks of the calls in progress are.
LEMMA TopFrame ==
  ASSUME TypeOK, stack # <<>>
  PROVE  /\ Len(stack) \in Nat \ {0} /\ Top \in Frame
         /\ StackInv /\ Top.firing = None => Top.call = "advance"
<1>1. Len(stack) \in Nat \ {0}
  BY EmptySeq DEF TypeOK
<1>2. Top \in Frame
  BY <1>1, ElementOfSeq DEF TypeOK, Top
<1> QED
  BY <1>1, <1>2 DEF StackInv, Top, Frame

-----------------------------------------------------------------------------
(* next_expired finds a timer if one is due.                                *)

LEMMA LeastNat ==
  ASSUME NEW S, S \subseteq Nat, S # {}
  PROVE  \E x \in S : \A y \in S : x <= y
<1>1. PICK x \in S : \A y \in S : ~ (<<y, x>> \in OpToRel(<, Nat))
  BY NatLessThanWellFounded, WFMin
<1>2. x \in S /\ \A y \in S : ~ (y < x)
  BY <1>1 DEF OpToRel
<1> QED
  BY <1>2

\* Expiry, then sequence number, then position order the timers that are due totally.
LEMMA FirstDue ==
  ASSUME TypeOK, NEW end_us, due(end_us) # {}
  PROVE  \E t \in Slots : next_expired(t, end_us)
<1> DEFINE D == due(end_us)
           E == {expiry_us[t] : t \in D}
<1>1. /\ D \subseteq Slots /\ D # {}
      /\ \A t \in D : expiry_us[t] \in Nat /\ seq[t] \in Nat /\ t \in Nat
  BY MaxAssumption, WrapAssumption DEF due, TypeOK, Slots
<1>2. E \subseteq Nat /\ E # {}
  BY <1>1
<1>3. PICK e \in E : \A x \in E : e <= x
  BY <1>2, LeastNat
<1> DEFINE De == {t \in D : expiry_us[t] = e}
           Q  == {seq[t] : t \in De}
<1>4. Q \subseteq Nat /\ Q # {}
  BY <1>1, <1>3
<1>5. PICK s \in Q : \A x \in Q : s <= x
  BY <1>4, LeastNat
<1> DEFINE Ds == {t \in De : seq[t] = s}
<1>6. Ds \subseteq Nat /\ Ds # {}
  BY <1>1, <1>5
<1>7. PICK t \in Ds : \A u \in Ds : t <= u
  BY <1>6, LeastNat
<1>8. ASSUME NEW u \in D \ {t} PROVE before(t, u) \/ (~ before(u, t) /\ t < u)
  <2>1. expiry_us[t] <= expiry_us[u] /\ expiry_us[t] = e
    BY <1>3, <1>7
  <2>2. CASE expiry_us[t] < expiry_us[u]
    BY <2>2 DEF before
  <2>3. CASE expiry_us[t] = expiry_us[u]
    <3>1. u \in De /\ seq[t] <= seq[u] /\ seq[t] = s
      BY <1>5, <1>7, <2>1, <2>3
    <3>2. CASE seq[t] < seq[u]
      BY <2>3, <3>2 DEF before
    <3>3. CASE seq[t] = seq[u]
      <4>1. t <= u /\ t # u
        BY <1>7, <3>1, <3>3
      <4>2. t < u
        BY <1>1, <1>6, <1>7, <4>1
      <4> QED
        BY <1>1, <1>7, <2>3, <3>3, <4>2 DEF before
    <3> QED
      BY <1>1, <1>7, <3>1, <3>2, <3>3
  <2> QED
    BY <1>1, <1>7, <2>1, <2>2, <2>3
<1>9. t \in D
  BY <1>7
<1> QED
  BY <1>1, <1>8, <1>9 DEF next_expired

\* An advance whose next_expired returns NULL has fired all that is due.
LEMMA NothingDue ==
  ASSUME TypeOK, NEW end_us \in Nat, \A t \in Slots : ~ next_expired(t, end_us)
  PROVE  \A t \in Pending : expiry_us[t] > end_us
<1>1. due(end_us) = {}
  BY FirstDue
<1> SUFFICES ASSUME NEW t \in Slots, active[t] PROVE expiry_us[t] > end_us
  BY DEF Pending
<1>2. used[t] /\ expiry_us[t] \in Nat
  BY WrapAssumption DEF TypeOK
<1> QED
  BY <1>1, <1>2 DEF due

-----------------------------------------------------------------------------
(* What the steps change.                                                   *)

\* The steps that move no call in progress.
TimerStep ==
    \/ CtxInit \/ CtxDeinit \/ Install
    \/ \E t \in Slots : Uninstall(t) \/ Start(t) \/ Restart(t) \/ Stop(t)

\* A timer is started, with the next sequence number.
Starts(t) == \E d \in Delays : SetTimer(t, d)

LEMMA StartStep ==
  ASSUME TypeOK, NEW t \in Slots, Starts(t)
  PROVE  /\ active' = [active EXCEPT ![t] = TRUE]
         /\ expiry_us' \in [Slots -> 0 .. Wrap - 1]
         /\ InRange => expiry_us'[t] >= now_us
         /\ seq' = [seq EXCEPT ![t] = next_seq]
         /\ \A u \in Slots \ {t} : expiry_us'[u] = expiry_us[u]
         /\ next_seq' = next_seq + 1
<1>1. PICK d \in Delays : SetTimer(t, d)
  BY DEF Starts
<1> DEFINE sum == now_us + d
<1>2. sum \in Nat /\ sum >= now_us /\ now_us \in Nat /\ (InRange => sum < Wrap)
  BY DelayAssumption, WrapAssumption DEF TypeOK, InRange
<1>3. expiry_us' = [expiry_us EXCEPT ![t] = sum % Wrap]
  BY <1>1 DEF SetTimer
<1> HIDE DEF sum
<1>4. sum % Wrap \in 0 .. Wrap - 1 /\ (sum < Wrap => sum % Wrap = sum)
  BY <1>2, WrapAssumption
<1>5. expiry_us' \in [Slots -> 0 .. Wrap - 1] /\ expiry_us'[t] = sum % Wrap
  BY <1>3, <1>4 DEF TypeOK
<1>6. InRange => expiry_us'[t] >= now_us
  BY <1>2, <1>4, <1>5
<1>7. \A u \in Slots \ {t} : expiry_us'[u] = expiry_us[u]
  BY <1>3 DEF TypeOK
<1> QED
  BY <1>1, <1>5, <1>6, <1>7 DEF SetTimer

\* Each step of a timer clears all timers, starts one, or activates none.
LEMMA TimerStepCases ==
  ASSUME TypeOK, TimerStep
  PROVE  /\ stack' = stack
         /\ \/ /\ \A t \in Slots : ~ active'[t]
               /\ UNCHANGED <<next_seq, swept>> \/ (next_seq' = 0 /\ swept' = 0)
            \/ \E t \in Slots : Starts(t) /\ UNCHANGED <<now_us, swept>>
            \/ /\ \A t \in Slots : active'[t] =>
                     active[t] /\ expiry_us'[t] = expiry_us[t] /\ seq'[t] = seq[t]
               /\ UNCHANGED <<now_us, next_seq, swept>>
<1>1. CASE CtxInit \/ CtxDeinit
  BY <1>1 DEF CtxInit, CtxDeinit, ClearTimers
<1>2. CASE Install
  BY <1>2 DEF Install, TypeOK, timerVars
<1>3. ASSUME NEW t \in Slots, Uninstall(t) \/ Stop(t) PROVE stack' = stack /\
               (\A u \in Slots : active'[u] =>
                     active[u] /\ expiry_us'[u] = expiry_us[u] /\ seq'[u] = seq[u])
               /\ UNCHANGED <<now_us, next_seq, swept>>
  BY <1>3 DEF Uninstall, Stop, TypeOK
<1>4. ASSUME NEW t \in Slots, Start(t) \/ Restart(t)
      PROVE  /\ UNCHANGED <<stack, now_us, swept>>
             /\ Starts(t) \/ UNCHANGED <<active, expiry_us, seq, next_seq>>
  BY <1>4 DEF Start, Restart, Starts
<1> QED
  BY <1>1, <1>2, <1>3, <1>4 DEF TimerStep

\* The clock moves to the expiry of the first timer that is due, whose callback begins.
LEMMA FireStep ==
  ASSUME TypeOK, StackInv, NEW t \in Slots,
         ~ AppRuns, next_expired(t, Top.end), now_us' = expiry_us[t],
         stack' = [stack EXCEPT ![Len(stack)].firing = t]
  PROVE  /\ Len(stack) \in Nat \ {0} /\ Len(stack') = Len(stack)
         /\ stack' \in Seq(Frame)
         /\ \A i \in 1 .. Len(stack) :
               stack'[i].call = stack[i].call /\ stack'[i].firing # None
         /\ stack[Len(stack)].call = "advance"
         /\ active[t] /\ \A u \in Pending : expiry_us[u] >= expiry_us[t]
<1>1. stack # <<>> /\ Top.firing = None
  BY DEF AppRuns
<1>2. Len(stack) \in Nat \ {0} /\ Top \in Frame /\ Top.call = "advance"
  BY <1>1, TopFrame
<1>3. t \in due(Top.end) /\ active[t] /\ expiry_us[t] <= Top.end
  BY DEF next_expired, due
<1>4. Top.end \in Nat /\ t # None
  BY <1>2, WrapAssumption, MaxAssumption DEF Frame, Slots, None
<1>5. ASSUME NEW u \in Slots, active[u] PROVE expiry_us[u] >= expiry_us[t]
  <2>1. used[u] /\ expiry_us[u] \in Nat /\ expiry_us[t] \in Nat
    BY <1>5, WrapAssumption DEF TypeOK
  <2>2. CASE u = t
    BY <2>1, <2>2
  <2>3. CASE u \in due(Top.end) \ {t}
    BY <2>1, <2>3 DEF next_expired, before
  <2>4. CASE expiry_us[u] > Top.end
    BY <1>3, <1>4, <2>1, <2>4
  <2> QED
    BY <1>4, <1>5, <2>1, <2>2, <2>3, <2>4 DEF due
<1>6. /\ Len(stack') = Len(stack) /\ stack' \in Seq(Frame)
      /\ \A i \in 1 .. Len(stack) :
            (i # Len(stack) => stack'[i] = stack[i]) /\ stack'[i].call = stack[i].call
      /\ stack'[Len(stack)].firing = t
  BY <1>1, SetTop DEF TypeOK
<1>7. \A i \in 1 .. Len(stack) : stack'[i].firing # None
  BY <1>2, <1>4, <1>6 DEF StackInv
<1>8. \A u \in Pending : expiry_us[u] >= expiry_us[t]
  BY <1>5 DEF Pending
<1> QED
  BY <1>2, <1>3, <1>6, <1>7, <1>8 DEF Top

\* The clock moves to the end of the advance when nothing is due any more.
LEMMA EndStep ==
  ASSUME TypeOK, StackInv, AdvanceEnd
  PROVE  /\ stack' \in Seq(Frame)
         /\ Len(stack) \in Nat \ {0} /\ Len(stack') = Len(stack) - 1
         /\ \A i \in 1 .. Len(stack') : stack'[i] = stack[i] /\ stack[i].firing # None
         /\ stack[Len(stack)].firing = None
         /\ now_us' \in 0 .. Wrap - 1
         /\ \A t \in Pending : expiry_us[t] > now_us'
<1>1. stack # <<>> /\ Top.firing = None /\ stack \in Seq(Frame)
  BY DEF AdvanceEnd, AppRuns, TypeOK
<1>2. Top \in Frame /\ now_us' = Top.end
  BY <1>1, TopFrame DEF AdvanceEnd
<1>3. now_us' \in 0 .. Wrap - 1 /\ now_us' \in Nat
  BY <1>2, WrapAssumption DEF Frame
<1>4. \A t \in Pending : expiry_us[t] > now_us'
  BY <1>2, <1>3, NothingDue DEF AdvanceEnd
<1>5. /\ stack' \in Seq(Frame)
      /\ Len(stack) \in Nat \ {0} /\ Len(stack') = Len(stack) - 1
      /\ \A i \in 1 .. Len(stack') : stack'[i] = stack[i]
  BY <1>1, PopStack DEF AdvanceEnd
<1> QED
  BY <1>1, <1>3, <1>4, <1>5 DEF StackInv, Top

\* The callback returns to the advance, or the call of fire returns.
LEMMA ReturnStep ==
  ASSUME TypeOK, StackInv, CallbackReturn
  PROVE  /\ stack' \in Seq(Frame) /\ Len(stack) \in Nat \ {0}
         /\ \A i \in 1 .. Len(stack) : stack[i].firing # None
         /\ \/ /\ Len(stack') = Len(stack)
               /\ stack[Len(stack)].call = "advance"
               /\ \A i \in 1 .. Len(stack) :
                     /\ i # Len(stack) => stack'[i] = stack[i]
                     /\ stack'[i].call = stack[i].call
               /\ stack'[Len(stack)].firing = None
            \/ /\ Len(stack') = Len(stack) - 1
               /\ stack[Len(stack)].call = "fire"
               /\ \A i \in 1 .. Len(stack') : stack'[i] = stack[i]
<1>1. stack # <<>> /\ Top.firing # None /\ stack \in Seq(Frame)
  BY DEF CallbackReturn, TypeOK
<1>2. Len(stack) \in Nat \ {0} /\ Top.call \in {"advance", "fire"}
  BY <1>1, TopFrame DEF Frame
<1>3. \A i \in 1 .. Len(stack) : stack[i].firing # None
  BY <1>1, <1>2 DEF StackInv, Top
<1>4. CASE Top.call = "advance"
  <2>1. stack' = [stack EXCEPT ![Len(stack)].firing = None]
    BY <1>4 DEF CallbackReturn
  <2> QED
    BY <1>1, <1>2, <1>3, <1>4, <2>1, SetTop DEF Top
<1>5. CASE Top.call = "fire"
  <2>1. stack' = SubSeq(stack, 1, Len(stack) - 1)
    BY <1>5 DEF CallbackReturn
  <2> QED
    BY <1>1, <1>2, <1>3, <1>5, <2>1, PopStack DEF Top
<1> QED
  BY <1>2, <1>4, <1>5

-----------------------------------------------------------------------------
(* Every step preserves each part of the invariant.                         *)

LEMMA NextCases ==
  ASSUME Next
  PROVE  \/ TimerStep \/ AdvanceBegin \/ AdvanceFire \/ AdvanceEnd \/ CallbackReturn
         \/ \E t \in Slots : Fire(t)
  BY DEF Next, TimerStep

LEMMA LeftType ==
  ASSUME TypeOK, NEW o \in Ops, Call(o)
  PROVE  left' \in [Ops -> Nat]
<1>1. left[o] \in Nat /\ left[o] > 0
  BY DEF Call, TypeOK
<1> QED
  BY <1>1 DEF Call, TypeOK

\* What advance pushes on the stack.
LEMMA BeginFrame ==
  ASSUME TypeOK, AdvanceBegin
  PROVE  \E f \in Frame : stack' = Append(stack, f) /\ f.call = "advance" /\ f.firing = None
<1>1. PICK us \in Steps :
         stack' = Append(stack, [call |-> "advance", end |-> (now_us + us) % Wrap,
                                 firing |-> None])
  BY DEF AdvanceBegin
<1>2. now_us + us \in Nat
  BY DelayAssumption, WrapAssumption DEF TypeOK
<1>3. (now_us + us) % Wrap \in 0 .. Wrap - 1
  BY <1>2, WrapAssumption
<1>4. [call |-> "advance", end |-> (now_us + us) % Wrap, firing |-> None] \in Frame
  BY <1>3 DEF Frame
<1> QED
  BY <1>1, <1>4

LEMMA NextType == TypeOK /\ StackInv /\ Next => TypeOK'
<1> SUFFICES ASSUME TypeOK, StackInv, Next PROVE TypeOK'
  OBVIOUS
<1>0. 0 \in 0 .. Wrap - 1
  BY WrapAssumption
<1>1. CASE CtxInit \/ CtxDeinit
  <2>1. ClearTimers /\ UNCHANGED <<stack, left>>
    BY <1>1 DEF CtxInit, CtxDeinit
  <2>2. now_us' \in 0 .. Wrap - 1 /\ next_seq' \in Nat /\ swept' \in Nat
    BY <1>1, <1>0 DEF CtxInit, CtxDeinit, TypeOK
  <2> QED
    BY <1>0, <2>1, <2>2 DEF ClearTimers, TypeOK
<1>2. CASE Install
  <2>1. left' \in [Ops -> Nat]
    BY <1>2, LeftType DEF Install, Ops
  <2>2. UNCHANGED <<now_us, next_seq, stack, swept>>
    BY <1>2 DEF Install
  <2>3. CASE UNCHANGED timerVars
    BY <2>1, <2>2, <2>3 DEF TypeOK, timerVars
  <2>4. ASSUME NEW t \in Slots,
               used'      = [used EXCEPT ![t] = TRUE],
               active'    = [active EXCEPT ![t] = FALSE],
               expiry_us' = [expiry_us EXCEPT ![t] = 0],
               seq'       = [seq EXCEPT ![t] = 0]
        PROVE  TypeOK'
    BY <1>0, <2>1, <2>2, <2>4 DEF TypeOK
  <2> QED
    BY <1>2, <2>3, <2>4 DEF Install
<1>3. ASSUME NEW t \in Slots, Uninstall(t) \/ Stop(t) PROVE TypeOK'
  <2>1. left' \in [Ops -> Nat]
    BY <1>3, LeftType DEF Uninstall, Stop, Ops
  <2> QED
    BY <1>3, <2>1 DEF Uninstall, Stop, TypeOK
<1>4. ASSUME NEW t \in Slots, Start(t) \/ Restart(t) PROVE TypeOK'
  <2>1. left' \in [Ops -> Nat]
    BY <1>4, LeftType DEF Start, Restart, Ops
  <2>2. used[t] /\ UNCHANGED <<used, now_us, stack, swept>>
    BY <1>4 DEF Start, Restart
  <2>3. CASE Starts(t)
    <3>1. expiry_us' \in [Slots -> 0 .. Wrap - 1]
      BY <2>3, StartStep
    <3>2. /\ active' = [active EXCEPT ![t] = TRUE]
          /\ seq' = [seq EXCEPT ![t] = next_seq] /\ next_seq' = next_seq + 1
      BY <2>3, StartStep
    <3> QED
      BY <2>1, <2>2, <3>1, <3>2 DEF TypeOK
  <2>4. CASE UNCHANGED <<active, expiry_us, seq, next_seq>>
    BY <2>1, <2>2, <2>4 DEF TypeOK
  <2> QED
    BY <1>4, <2>3, <2>4 DEF Start, Restart, Starts
<1>5. ASSUME NEW t \in Slots, Fire(t) PROVE TypeOK'
  <2>1. left' \in [Ops -> Nat]
    BY <1>5, LeftType DEF Fire, Ops
  <2>2. [call |-> "fire", end |-> 0, firing |-> t] \in Frame
    BY WrapAssumption DEF Frame
  <2>3. stack' \in Seq(Frame)
    BY <1>5, <2>2, PushStack DEF Fire, TypeOK
  <2> QED
    BY <1>5, <2>1, <2>3 DEF Fire, TypeOK
<1>6. CASE AdvanceBegin
  <2>1. left' \in [Ops -> Nat]
    BY <1>6, LeftType DEF AdvanceBegin, Ops
  <2>2. stack' \in Seq(Frame)
    BY <1>6, BeginFrame, PushStack DEF TypeOK
  <2> QED
    BY <1>6, <2>1, <2>2 DEF AdvanceBegin, TypeOK, timerVars
<1>7. CASE AdvanceFire
  <2>1. stack' \in Seq(Frame)
    BY <1>7, FireStep DEF AdvanceFire
  <2> QED
    BY <1>7, <2>1 DEF AdvanceFire, TypeOK
<1>8. CASE AdvanceEnd
  BY <1>8, EndStep DEF AdvanceEnd, TypeOK, timerVars
<1>9. CASE CallbackReturn
  BY <1>9, ReturnStep DEF CallbackReturn, TypeOK, timerVars
<1> QED
  BY <1>1, <1>2, <1>3, <1>4, <1>5, <1>6, <1>7, <1>8, <1>9 DEF Next

\* What fire and advance push on the stack, and what they leave alone.
LEMMA CallStep ==
  ASSUME TypeOK, StackInv, AdvanceBegin \/ \E t \in Slots : Fire(t)
  PROVE  /\ UNCHANGED <<now_us, next_seq, swept, expiry_us, seq>>
         /\ \A t \in Slots : active'[t] => active[t]
         /\ \A i \in 1 .. Len(stack) : stack[i].firing # None
         /\ \/ stack' = stack
            \/ /\ Len(stack) \in Nat /\ Len(stack') = Len(stack) + 1
               /\ \A i \in 1 .. Len(stack) : stack'[i] = stack[i]
               /\ stack'[Len(stack')].call = "fire" => stack'[Len(stack')].firing # None
<1>0. \A i \in 1 .. Len(stack) : stack[i].firing # None
  <2>1. AppRuns /\ Len(stack) \in Nat
    BY LenProperties DEF AdvanceBegin, Fire, Call, TypeOK
  <2> QED
    BY <2>1 DEF AppRuns, Top, StackInv
<1>1. ASSUME NEW f \in Frame, stack' = Append(stack, f), f.call = "fire" => f.firing # None
      PROVE  /\ Len(stack) \in Nat /\ Len(stack') = Len(stack) + 1
             /\ \A i \in 1 .. Len(stack) : stack'[i] = stack[i]
             /\ stack'[Len(stack')].call = "fire" => stack'[Len(stack')].firing # None
  BY <1>1, PushStack DEF TypeOK
<1>2. CASE AdvanceBegin
  <2> QED
    BY <1>0, <1>1, <1>2, BeginFrame DEF AdvanceBegin, timerVars
<1>3. ASSUME NEW t \in Slots, Fire(t)
      PROVE  /\ UNCHANGED <<now_us, next_seq, swept, expiry_us, seq>>
             /\ \A u \in Slots : active'[u] => active[u]
             /\ stack' = stack \/ stack' = Append(stack, [call |-> "fire", end |-> 0, firing |-> t])
  BY <1>3 DEF Fire, TypeOK
<1>4. \A t \in Slots : [call |-> "fire", end |-> 0, firing |-> t] \in Frame /\ t # None
  BY WrapAssumption DEF Frame, Slots, None
<1> QED
  BY <1>0, <1>1, <1>2, <1>3, <1>4

LEMMA NextStack == TypeOK /\ StackInv /\ Next => StackInv'
<1> SUFFICES ASSUME TypeOK, StackInv, Next PROVE StackInv'
  OBVIOUS
<1>1. CASE TimerStep
  BY <1>1, TimerStepCases DEF StackInv
<1>2. CASE AdvanceBegin \/ \E t \in Slots : Fire(t)
  BY <1>2, CallStep DEF StackInv
<1>3. CASE AdvanceFire
  BY <1>3, FireStep DEF AdvanceFire, StackInv
<1>4. CASE AdvanceEnd
  BY <1>4, EndStep DEF StackInv
<1>5. CASE CallbackReturn
  BY <1>5, ReturnStep DEF StackInv
<1> QED
  BY <1>1, <1>2, <1>3, <1>4, <1>5, NextCases

\* Where no timer is activated nothing has to be said of their order.
LEMMA FewerPending ==
  ASSUME SeqOrders, UNCHANGED next_seq,
         \A t \in Slots : active'[t] => active[t] /\ seq'[t] = seq[t]
  PROVE  SeqOrders'
  BY DEF SeqOrders, Pending

LEMMA NextSeq == StateInv /\ Next => SeqOrders'
<1> SUFFICES ASSUME TypeOK, StackInv, SeqOrders, Next PROVE SeqOrders'
  BY DEF StateInv
<1>1. CASE TimerStep
  <2>1. CASE \A t \in Slots : ~ active'[t]
    BY <2>1 DEF SeqOrders, Pending
  <2>2. ASSUME NEW t \in Slots, Starts(t) PROVE SeqOrders'
    <3>1. /\ seq'[t] = next_seq /\ next_seq' = next_seq + 1 /\ next_seq \in Nat
          /\ \A u \in Slots \ {t} : active'[u] = active[u] /\ seq'[u] = seq[u]
          /\ \A u \in Slots : seq[u] \in Nat
      BY <2>2, StartStep DEF TypeOK
    <3>2. \A u \in Slots \ {t} : active'[u] => seq'[u] < next_seq
      BY <3>1 DEF SeqOrders, Pending
    <3>3. \A u \in Slots : active'[u] => seq'[u] < next_seq'
      BY <3>1, <3>2
    <3>4. \A u, v \in Slots : active'[u] /\ active'[v] /\ u # v => seq'[u] # seq'[v]
      BY <3>1, <3>2 DEF SeqOrders, Pending
    <3> QED
      BY <3>3, <3>4 DEF SeqOrders, Pending
  <2> QED
    BY <1>1, <2>1, <2>2, TimerStepCases, FewerPending
<1>2. CASE AdvanceBegin \/ \E t \in Slots : Fire(t)
  BY <1>2, CallStep, FewerPending
<1>3. CASE AdvanceFire
  BY <1>3, FewerPending DEF AdvanceFire, TypeOK
<1>4. CASE AdvanceEnd \/ CallbackReturn
  BY <1>4, FewerPending DEF AdvanceEnd, CallbackReturn, timerVars
<1> QED
  BY <1>1, <1>2, <1>3, <1>4, NextCases

\* The clock stands still, or moves to where no active timer is before.
LEMMA NextPassed == StateInv /\ NotPassed /\ InRange /\ Next => NotPassed'
<1> SUFFICES ASSUME TypeOK, StackInv, NotPassed, InRange, Next PROVE NotPassed'
  BY DEF StateInv
<1>1. CASE TimerStep
  <2>1. CASE \A t \in Slots : ~ active'[t]
    BY <2>1 DEF NotPassed, Pending
  <2>2. ASSUME NEW t \in Slots, Starts(t), UNCHANGED now_us PROVE NotPassed'
    <3>1. /\ expiry_us'[t] >= now_us
          /\ \A u \in Slots \ {t} : expiry_us'[u] = expiry_us[u] /\ active'[u] = active[u]
      BY <2>2, StartStep DEF TypeOK
    <3> QED
      BY <2>2, <3>1 DEF NotPassed, Pending
  <2> QED
    BY <1>1, <2>1, <2>2, TimerStepCases DEF NotPassed, Pending
<1>2. CASE AdvanceBegin \/ \E t \in Slots : Fire(t)
  BY <1>2, CallStep DEF NotPassed, Pending
<1>3. CASE AdvanceFire
  <2>1. PICK t \in Slots :
           /\ ~ AppRuns /\ next_expired(t, Top.end) /\ now_us' = expiry_us[t]
           /\ active' = [active EXCEPT ![t] = FALSE]
           /\ stack' = [stack EXCEPT ![Len(stack)].firing = t]
           /\ expiry_us' = expiry_us
    BY <1>3 DEF AdvanceFire
  <2>2. \A u \in Pending : expiry_us[u] >= expiry_us[t]
    BY <2>1, FireStep
  <2>3. \A u \in Slots : active'[u] => active[u]
    BY <2>1 DEF TypeOK
  <2> QED
    BY <2>1, <2>2, <2>3 DEF NotPassed, Pending
<1>4. CASE AdvanceEnd
  <2>1. UNCHANGED <<active, expiry_us>>
    BY <1>4 DEF AdvanceEnd, timerVars
  <2>2. \A t \in Pending : expiry_us[t] > now_us' /\ now_us' \in Nat /\ expiry_us[t] \in Nat
    BY <1>4, EndStep, WrapAssumption DEF TypeOK, Pending
  <2> QED
    BY <2>1, <2>2 DEF NotPassed, Pending
<1>5. CASE CallbackReturn
  BY <1>5 DEF CallbackReturn, timerVars, NotPassed, Pending
<1> QED
  BY <1>1, <1>2, <1>3, <1>4, <1>5, NextCases

\* The last advance to end leaves nothing due; from then on there are only new starts.
LEMMA NextDue == StateInv /\ DueInv /\ Next => DueInv'
<1> SUFFICES ASSUME TypeOK, StackInv, DueInv, Next PROVE DueInv'
  BY DEF StateInv
<1>1. CASE TimerStep
  <2>1. NoAdvance' = NoAdvance
    BY <1>1, TimerStepCases DEF NoAdvance
  <2>2. CASE (\A t \in Slots : ~ active'[t])
             /\ (UNCHANGED <<next_seq, swept>> \/ (next_seq' = 0 /\ swept' = 0))
    BY <2>2 DEF DueInv, Pending
  <2>3. ASSUME NEW t \in Slots, Starts(t), UNCHANGED <<now_us, swept>> PROVE DueInv'
    <3>1. /\ seq'[t] = next_seq /\ next_seq' = next_seq + 1 /\ next_seq \in Nat /\ swept \in Nat
          /\ \A u \in Slots \ {t} :
                expiry_us'[u] = expiry_us[u] /\ active'[u] = active[u] /\ seq'[u] = seq[u]
      BY <2>3, StartStep DEF TypeOK
    <3>2. swept' <= next_seq' /\ seq'[t] >= swept'
      BY <2>3, <3>1 DEF DueInv
    <3> QED
      BY <2>1, <2>3, <3>1, <3>2 DEF DueInv, Pending
  <2>4. CASE /\ \A t \in Slots : active'[t] =>
                   active[t] /\ expiry_us'[t] = expiry_us[t] /\ seq'[t] = seq[t]
             /\ UNCHANGED <<now_us, next_seq, swept>>
    BY <2>1, <2>4 DEF DueInv, Pending
  <2> QED
    BY <1>1, <2>2, <2>3, <2>4, TimerStepCases
<1>2. CASE AdvanceBegin \/ \E t \in Slots : Fire(t)
  <2>1. NoAdvance' => NoAdvance
    BY <1>2, CallStep DEF NoAdvance
  <2> QED
    BY <1>2, <2>1, CallStep DEF DueInv, Pending
<1>3. CASE AdvanceFire
  <2>1. Len(stack') \in Nat \ {0} /\ stack'[Len(stack')].call = "advance"
    <3>1. /\ Len(stack) \in Nat \ {0} /\ Len(stack') = Len(stack)
          /\ \A i \in 1 .. Len(stack) : stack'[i].call = stack[i].call
          /\ stack[Len(stack)].call = "advance"
      BY <1>3, FireStep DEF AdvanceFire
    <3>2. Len(stack) \in 1 .. Len(stack)
      BY <3>1
    <3>3. stack'[Len(stack)].call = "advance"
      BY <3>1, <3>2
    <3> QED
      BY <3>1, <3>3
  <2>2. ~ NoAdvance'
    BY <2>1 DEF NoAdvance
  <2> QED
    BY <1>3, <2>2 DEF AdvanceFire, DueInv
<1>4. CASE AdvanceEnd
  BY <1>4, EndStep DEF AdvanceEnd, timerVars, DueInv, Pending, TypeOK
<1>5. CASE CallbackReturn
  <2>1. NoAdvance' => NoAdvance
    BY <1>5, ReturnStep DEF NoAdvance
  <2> QED
    BY <1>5, <2>1 DEF CallbackReturn, timerVars, DueInv, Pending
<1> QED
  BY <1>1, <1>2, <1>3, <1>4, <1>5, NextCases

-----------------------------------------------------------------------------

LEMMA InitIInv == Init => IInv
<1> SUFFICES ASSUME Init PROVE IInv
  OBVIOUS
<1>1. 0 \in 0 .. Wrap - 1
  BY WrapAssumption
<1>2. TypeOK
  BY <1>1, EmptySeq, BudgetAssumption DEF Init, TypeOK
<1>3. Len(stack) = 0
  BY EmptySeq DEF Init
<1> QED
  BY <1>2, <1>3
  DEF Init, IInv, StateInv, StackInv, SeqOrders, NotPassed, DueInv, NoAdvance, Pending

LEMMA NextStateInv == StateInv /\ [Next]_vars => StateInv'
<1>1. StateInv /\ Next => StateInv'
  BY NextType, NextStack, NextSeq DEF StateInv
<1>2. StateInv /\ UNCHANGED vars => StateInv'
  BY DEF vars, timerVars, StateInv, TypeOK, StackInv, SeqOrders, Pending
<1> QED
  BY <1>1, <1>2

LEMMA NextIInv == IInv /\ InRange /\ [Next]_vars => IInv'
<1>1. IInv /\ InRange /\ Next => NotPassed' /\ DueInv'
  BY NextPassed, NextDue DEF IInv
<1>2. IInv /\ UNCHANGED vars => NotPassed' /\ DueInv'
  BY DEF vars, timerVars, IInv, NotPassed, DueInv, NoAdvance, Pending
<1> QED
  BY <1>1, <1>2, NextStateInv DEF IInv

LEMMA InvStateInv == Spec => []StateInv
<1>1. IInv => StateInv
  BY DEF IInv
<1> QED
  BY <1>1, InitIInv, NextStateInv, PTL DEF Spec

\* Every variable keeps its type, whatever callbacks call, and a timer that
\* gabs_timer_uninstall or deinit has freed is not active.
THEOREM TypeCorrect == Spec => []TypeOK
<1>1. StateInv => TypeOK
  BY DEF StateInv
<1> QED
  BY <1>1, InvStateInv, PTL

\* gabs_timer_restart takes a new sequence number each time: no two active timers have
\* the same, so that next_expired decides between timers that expire together.
THEOREM SequenceOrders == Spec => []SeqOrders
<1>1. StateInv => SeqOrders
  BY DEF StateInv
<1> QED
  BY <1>1, InvStateInv, PTL

\* gabs_timer_manual_advance leaves no timer behind that was due, however its callbacks
\* start timers and advance the clock themselves, as long as no delay makes the time of
\* an expiry overflow.
THEOREM AdvanceSweeps == Spec /\ []InRange => []NothingDueLeft
<1>1. IInv => NothingDueLeft
  <2> SUFFICES ASSUME IInv, stack = <<>>, NEW t \in Pending
               PROVE  expiry_us[t] > now_us \/ (expiry_us[t] = now_us /\ seq[t] >= swept)
    BY DEF NothingDueLeft
  <2>1. Len(stack) = 0
    BY EmptySeq
  <2>2. expiry_us[t] \in Nat /\ now_us \in Nat
    BY WrapAssumption DEF IInv, StateInv, TypeOK, Pending
  <2> QED
    BY <2>1, <2>2 DEF IInv, NotPassed, DueInv, NoAdvance
<1> QED
  BY <1>1, InitIInv, NextIInv, PTL DEF Spec

-----------------------------------------------------------------------------
(* The implementation of the interface.                                     *)

\* The callbacks in progress are those of the calls up to Depth.
RunningInv ==
    /\ Running \in Seq(Slots) /\ Depth \in Nat /\ Len(Running) = Depth
    /\ \A i \in 1 .. Depth : Running[i] = stack[i].firing

LEMMA RunningSeq == TypeOK /\ StackInv => RunningInv
<1> SUFFICES ASSUME TypeOK, StackInv PROVE RunningInv
  OBVIOUS
<1>1. stack \in Seq(Frame) /\ Len(stack) \in Nat
  BY LenProperties DEF TypeOK
<1>2. stack # <<>> => Len(stack) \in Nat \ {0} /\ Top = stack[Len(stack)]
  BY <1>1, TopFrame DEF Top
<1>3. /\ Depth \in Nat /\ Depth <= Len(stack)
      /\ Depth = Len(stack) => AppRuns
  BY <1>1, <1>2 DEF Depth, AppRuns
<1>4. ASSUME NEW i \in 1 .. Depth PROVE stack[i].firing \in Slots
  <2>1. i \in 1 .. Len(stack) /\ stack[i] \in Frame
    BY <1>1, <1>3, ElementOfSeq
  <2>2. stack[i].firing # None
    BY <1>1, <1>2, <1>3, <2>1, EmptySeq DEF StackInv, AppRuns
  <2> QED
    BY <2>1, <2>2 DEF Frame
<1>5. Running \in [1 .. Depth -> Slots]
  BY <1>4 DEF Running
<1>6. Running \in Seq(Slots)
  BY <1>3, <1>5, SeqDef
<1>7. Len(Running) = Depth
  BY <1>3, <1>5, <1>6, LenProperties
<1> QED
  BY <1>3, <1>6, <1>7 DEF Running, RunningInv

\* Depth depends on the innermost call.
DepthInv ==
    /\ Len(stack) \in Nat
    /\ Len(stack) > 0 /\ stack[Len(stack)].firing = None => Depth = Len(stack) - 1
    /\ Len(stack) = 0 \/ stack[Len(stack)].firing # None => Depth = Len(stack)

LEMMA DepthIs == TypeOK => DepthInv
<1> SUFFICES ASSUME TypeOK PROVE DepthInv
  OBVIOUS
<1>1. stack \in Seq(Frame) /\ Len(stack) \in Nat
  BY LenProperties DEF TypeOK
<1>2. stack # <<>> => Len(stack) \in Nat \ {0} /\ Top = stack[Len(stack)]
  BY <1>1, TopFrame DEF Top
<1>3. stack = <<>> => Len(stack) = 0
  BY EmptySeq
<1> QED
  BY <1>1, <1>2, <1>3 DEF DepthInv, Depth, AppRuns

\* The steps that begin and end no callback.
LEMMA SameRunning ==
  ASSUME Depth' = Depth, \A i \in 1 .. Depth : stack'[i].firing = stack[i].firing
  PROVE  Running' = Running
  BY DEF Running

\* A callback begins.
LEMMA MoreRunning ==
  ASSUME RunningInv, RunningInv', NEW t \in Slots,
         Depth' = Depth + 1, stack'[Depth'].firing = t,
         \A i \in 1 .. Depth : stack'[i].firing = stack[i].firing
  PROVE  Running' = Append(Running, t) /\ Running' # Running
<1>1. /\ Running \in Seq(Slots) /\ Depth \in Nat /\ Len(Running) = Depth
      /\ \A i \in 1 .. Depth : Running[i] = stack[i].firing
      /\ Running' \in Seq(Slots) /\ Len(Running') = Depth'
      /\ \A i \in 1 .. Depth' : Running'[i] = stack'[i].firing
  BY DEF RunningInv
<1>2. /\ Append(Running, t) \in Seq(Slots) /\ Len(Append(Running, t)) = Depth + 1
      /\ \A i \in 1 .. Depth : Append(Running, t)[i] = Running[i]
      /\ Append(Running, t)[Depth + 1] = t
  BY <1>1, AppendProperties
<1>3. \A i \in 1 .. Depth + 1 : Append(Running, t)[i] = Running'[i]
  BY <1>1, <1>2
<1>4. Running' = Append(Running, t)
  BY <1>1, <1>2, <1>3, SeqEqual
<1> QED
  BY <1>1, <1>2, <1>4

\* The innermost callback ends.
LEMMA FewerRunning ==
  ASSUME RunningInv, RunningInv', Depth > 0, Depth' = Depth - 1,
         \A i \in 1 .. Depth' : stack'[i].firing = stack[i].firing
  PROVE  /\ Running # <<>> /\ Running' # Running
         /\ Running' = SubSeq(Running, 1, Len(Running) - 1)
<1>1. /\ Running \in Seq(Slots) /\ Depth \in Nat /\ Len(Running) = Depth
      /\ \A i \in 1 .. Depth : Running[i] = stack[i].firing /\ Running[i] \in Slots
      /\ Running' \in Seq(Slots) /\ Len(Running') = Depth'
      /\ \A i \in 1 .. Depth' : Running'[i] = stack'[i].firing
  BY ElementOfSeq DEF RunningInv
<1> DEFINE r == SubSeq(Running, 1, Depth')
<1>2. Depth' \in Nat /\ \A i \in 1 .. Depth' : i \in 1 .. Depth
  BY <1>1
<1>3. /\ r \in Seq(Slots) /\ Len(r) = IF 1 <= Depth' THEN Depth' - 1 + 1 ELSE 0
      /\ \A i \in 1 .. Depth' - 1 + 1 : r[i] = Running[1 + i - 1]
  BY <1>1, <1>2, SubSeqProperties
<1> HIDE DEF r
<1>4. Len(r) = Depth'
  BY <1>2, <1>3
<1>5. ASSUME NEW i \in 1 .. Depth' PROVE r[i] = Running'[i]
  <2>1. i \in 1 .. Depth' - 1 + 1 /\ 1 + i - 1 = i
    BY <1>2
  <2>2. r[i] = Running[i]
    BY <1>3, <2>1
  <2> QED
    BY <1>1, <1>2, <2>2
<1>6. Running' = r
  BY <1>1, <1>3, <1>4, <1>5, SeqEqual
<1>7. Running # <<>>
  BY <1>1, EmptySeq
<1>8. Len(Running) - 1 = Depth'
  BY <1>1
<1>9. Running' = SubSeq(Running, 1, Len(Running) - 1)
  BY <1>6, <1>8 DEF r
<1> QED
  BY <1>1, <1>7, <1>9

\* What the calls do to the timers: clear them, or move one from a phase to the next.
LEMMA TimerStepMaps ==
  ASSUME TypeOK, TimerStep
  PROVE  \/ Phase' = Phase
         \/ \E t \in Slots : Phase[t] = "none"  /\ Phase' = [Phase EXCEPT ![t] = "idle"]
         \/ \E t \in Slots : Phase[t] = "idle"  /\ Phase' = [Phase EXCEPT ![t] = "armed"]
         \/ \E t \in Slots : Phase[t] = "armed" /\ Phase' = [Phase EXCEPT ![t] = "idle"]
         \/ \E S \in SUBSET Slots :
               Phase' = [t \in Slots |-> IF t \in S THEN "none" ELSE Phase[t]]
<1>1. CASE CtxInit
  BY <1>1 DEF CtxInit, ClearTimers, Phase
<1>2. CASE CtxDeinit
  <2>1. Phase' = [t \in Slots |-> IF t \in Slots THEN "none" ELSE Phase[t]]
    BY <1>2 DEF CtxDeinit, ClearTimers, Phase
  <2> QED
    BY <2>1
<1>3. CASE Install
  <2>1. CASE UNCHANGED timerVars
    BY <2>1 DEF Phase, timerVars
  <2>2. ASSUME NEW t \in Slots, ~ used[t],
               used' = [used EXCEPT ![t] = TRUE], active' = [active EXCEPT ![t] = FALSE]
        PROVE  Phase[t] = "none" /\ Phase' = [Phase EXCEPT ![t] = "idle"]
    BY <2>2 DEF Phase, TypeOK
  <2> QED
    BY <1>3, <2>1, <2>2 DEF Install
<1>4. ASSUME NEW t \in Slots, Uninstall(t)
      PROVE  Phase' = [u \in Slots |-> IF u \in {t} THEN "none" ELSE Phase[u]]
  BY <1>4 DEF Uninstall, Phase, TypeOK
<1>7. \A t \in Slots : {t} \in SUBSET Slots
  OBVIOUS
<1>5. ASSUME NEW t \in Slots, Stop(t)
      PROVE  Phase' = Phase \/ (Phase[t] = "armed" /\ Phase' = [Phase EXCEPT ![t] = "idle"])
  <2>1. used[t] /\ used' = used /\ active' = [active EXCEPT ![t] = FALSE]
    BY <1>5 DEF Stop
  <2>2. CASE active[t]
    BY <2>1, <2>2 DEF Phase, TypeOK
  <2>3. CASE ~ active[t]
    BY <2>1, <2>3 DEF Phase, TypeOK
  <2> QED
    BY <2>2, <2>3
<1>6. ASSUME NEW t \in Slots, Start(t) \/ Restart(t)
      PROVE  Phase' = Phase \/ (Phase[t] = "idle" /\ Phase' = [Phase EXCEPT ![t] = "armed"])
  <2>1. used[t] /\ used' = used
    BY <1>6 DEF Start, Restart
  <2>2. active' = active \/ active' = [active EXCEPT ![t] = TRUE]
    BY <1>6 DEF Start, Restart, SetTimer
  <2>3. CASE active' = active \/ active[t]
    BY <2>1, <2>2, <2>3 DEF Phase, TypeOK
  <2>4. CASE active' = [active EXCEPT ![t] = TRUE] /\ ~ active[t]
    BY <2>1, <2>4 DEF Phase, TypeOK
  <2> QED
    BY <2>2, <2>3, <2>4
<1> QED
  BY <1>1, <1>2, <1>3, <1>4, <1>5, <1>6, <1>7 DEF TimerStep

\* A call of advance begins: its callbacks have yet to come.
LEMMA BeginRuns ==
  ASSUME StateInv, StateInv', AdvanceBegin
  PROVE  Running' = Running
<1>1. TypeOK /\ StackInv /\ DepthInv /\ DepthInv'
  BY DepthIs, PTL DEF StateInv
<1>2. PICK f \in Frame : stack' = Append(stack, f) /\ f.firing = None
  BY <1>1, BeginFrame
<1> QED
  BY <1>1, <1>2, PushStack, CallStep, SameRunning DEF DepthInv, TypeOK

\* gabs_timer_manual_fire calls back.
LEMMA FireRuns ==
  ASSUME StateInv, StateInv', NEW t \in Slots, Fire(t), active[t]
  PROVE  /\ Len(stack) \in Nat /\ Len(stack') = Len(stack) + 1
         /\ \A i \in 1 .. Len(stack) : stack'[i] = stack[i]
         /\ stack'[Len(stack')].call = "fire"
         /\ Running' = Append(Running, t) /\ Running' # Running
<1>1. /\ TypeOK /\ StackInv
      /\ RunningInv /\ RunningInv' /\ DepthInv /\ DepthInv'
  BY RunningSeq, DepthIs, PTL DEF StateInv
<1> DEFINE f == [call |-> "fire", end |-> 0, firing |-> t]
<1>2. f \in Frame /\ f.call = "fire" /\ f.firing = t /\ t # None
  BY WrapAssumption DEF Frame, Slots, None
<1>3. stack' = Append(stack, f)
  BY DEF Fire
<1> HIDE DEF f
<1>4. /\ Len(stack) \in Nat /\ Len(stack') = Len(stack) + 1
      /\ \A i \in 1 .. Len(stack) : stack'[i] = stack[i] /\ stack[i].firing # None
      /\ stack'[Len(stack')] = f
  BY <1>1, <1>2, <1>3, PushStack, CallStep DEF TypeOK
<1>5. Depth = Len(stack) /\ Depth' = Len(stack')
  BY <1>1, <1>2, <1>4 DEF DepthInv
<1>6. /\ Depth' = Depth + 1 /\ stack'[Depth'].firing = t
      /\ \A i \in 1 .. Depth : stack'[i].firing = stack[i].firing
  BY <1>2, <1>4, <1>5
<1> QED
  BY <1>1, <1>2, <1>4, <1>6, MoreRunning

\* The advance calls back.
LEMMA AdvanceFireRuns ==
  ASSUME StateInv, StateInv', NEW t \in Slots, ~ AppRuns,
         stack' = [stack EXCEPT ![Len(stack)].firing = t]
  PROVE  /\ Len(stack') = Len(stack)
         /\ \A i \in 1 .. Len(stack) :
               stack'[i].call = stack[i].call /\ stack'[i].end = stack[i].end
         /\ Running' = Append(Running, t) /\ Running' # Running
<1>1. /\ TypeOK /\ StackInv
      /\ RunningInv /\ RunningInv' /\ DepthInv /\ DepthInv'
  BY RunningSeq, DepthIs, PTL DEF StateInv
<1>2. stack # <<>> /\ Top.firing = None /\ t # None
  BY DEF AppRuns, Slots, None
<1>3. /\ Len(stack) \in Nat \ {0} /\ Len(stack') = Len(stack)
      /\ \A i \in 1 .. Len(stack) :
            /\ i # Len(stack) => stack'[i] = stack[i]
            /\ stack'[i].call = stack[i].call /\ stack'[i].end = stack[i].end
      /\ stack'[Len(stack')].firing = t
  BY <1>1, <1>2, SetTop DEF TypeOK
<1>4. Depth = Len(stack) - 1 /\ Depth' = Len(stack')
  BY <1>1, <1>2, <1>3 DEF DepthInv, Top
<1>5. /\ Depth' = Depth + 1 /\ stack'[Depth'].firing = t
      /\ \A i \in 1 .. Depth : stack'[i].firing = stack[i].firing
  BY <1>3, <1>4
<1> QED
  BY <1>1, <1>3, <1>5, MoreRunning

\* The advance returns, with no callback of its own running.
LEMMA EndRuns ==
  ASSUME StateInv, StateInv', AdvanceEnd
  PROVE  Running' = Running
<1>1. TypeOK /\ StackInv /\ DepthInv /\ DepthInv'
  BY DepthIs, PTL DEF StateInv
<1>2. /\ Len(stack) \in Nat \ {0} /\ Len(stack') = Len(stack) - 1
      /\ \A i \in 1 .. Len(stack') : stack'[i] = stack[i] /\ stack[i].firing # None
      /\ stack[Len(stack)].firing = None
  BY <1>1, EndStep
<1>3. Depth = Len(stack) - 1
  BY <1>1, <1>2 DEF DepthInv
<1>4. Depth' = Len(stack')
  BY <1>1, <1>2 DEF DepthInv
<1> QED
  BY <1>2, <1>3, <1>4, SameRunning

\* A callback returns.
LEMMA ReturnRuns ==
  ASSUME StateInv, StateInv', CallbackReturn
  PROVE  /\ Running # <<>> /\ Running' # Running
         /\ Running' = SubSeq(Running, 1, Len(Running) - 1)
<1>1. /\ TypeOK /\ StackInv
      /\ RunningInv /\ RunningInv' /\ DepthInv /\ DepthInv'
  BY RunningSeq, DepthIs, PTL DEF StateInv
<1>2. Depth = Len(stack) /\ Len(stack) \in Nat \ {0}
  BY <1>1, ReturnStep DEF DepthInv
<1>3. Depth' = Len(stack) - 1
  <2>1. CASE Len(stack') = Len(stack) /\ stack'[Len(stack)].firing = None
    BY <1>1, <1>2, <2>1 DEF DepthInv
  <2>2. CASE /\ Len(stack') = Len(stack) - 1
             /\ \A i \in 1 .. Len(stack') : stack'[i] = stack[i]
    <3>1. Len(stack') = 0 \/ stack'[Len(stack')].firing # None
      BY <1>1, <1>2, <2>2, ReturnStep
    <3> QED
      BY <1>1, <1>2, <2>2, <3>1 DEF DepthInv
  <2> QED
    BY <1>1, <2>1, <2>2, ReturnStep
<1>4. \A i \in 1 .. Depth' : stack'[i].firing = stack[i].firing
  BY <1>1, <1>2, <1>3, ReturnStep
<1> QED
  BY <1>1, <1>2, <1>3, <1>4, FewerRunning

\* Every step is a call, or the beginning or the end of a callback.
LEMMA StepMaps ==
  ASSUME StateInv, StateInv', Next
  PROVE  Interface!Next \/ UNCHANGED <<Phase, Running>>
<1>0. TypeOK
  BY DEF StateInv
<1>1. CASE TimerStep
  <2>1. Running' = Running
    BY <1>0, <1>1, TimerStepCases DEF Running, Depth, AppRuns, Top
  <2>2. ASSUME Phase' # Phase,
               \/ \E t \in Slots : Interface!Install(t) \/ Interface!Arm(t) \/ Interface!Disarm(t)
               \/ \E S \in SUBSET Slots : Interface!Remove(S)
        PROVE  Interface!Next
    BY <2>2 DEF Interface!Next, Interface!Call
  <2> QED
    BY <1>0, <1>1, <2>1, <2>2, TimerStepMaps
    DEF Interface!Install, Interface!Arm, Interface!Disarm, Interface!Becomes, Interface!Remove
<1>2. ASSUME NEW t \in Slots, active[t], active' = [active EXCEPT ![t] = FALSE], used' = used,
             Running' = Append(Running, t), Running' # Running
      PROVE  Interface!Next
  <2>1. Phase[t] = "armed" /\ Phase' = [Phase EXCEPT ![t] = "idle"]
    BY <1>0, <1>2 DEF Phase, TypeOK
  <2> QED
    BY <1>2, <2>1 DEF Interface!Next, Interface!Callback, Interface!Fire
<1>3. CASE AdvanceBegin
  <2>1. Phase' = Phase
    BY <1>3 DEF AdvanceBegin, timerVars, Phase
  <2> QED
    BY <1>3, <2>1, BeginRuns
<1>4. ASSUME NEW t \in Slots, Fire(t)
      PROVE  Interface!Next \/ UNCHANGED <<Phase, Running>>
  <2>1. CASE ~ active[t]
    BY <1>4, <2>1 DEF Fire, Phase, Running, Depth, AppRuns, Top
  <2>2. CASE active[t]
    <3>1. active' = [active EXCEPT ![t] = FALSE] /\ used' = used
      BY <1>4, <2>2 DEF Fire
    <3>2. Running' = Append(Running, t) /\ Running' # Running
      BY <1>4, <2>2, FireRuns
    <3> QED
      BY <1>2, <2>2, <3>1, <3>2
  <2> QED
    BY <2>1, <2>2
<1>5. CASE AdvanceFire
  <2>1. PICK t \in Slots :
           /\ ~ AppRuns /\ next_expired(t, Top.end)
           /\ active' = [active EXCEPT ![t] = FALSE]
           /\ stack' = [stack EXCEPT ![Len(stack)].firing = t]
           /\ used' = used
    BY <1>5 DEF AdvanceFire
  <2>2. active[t]
    BY <2>1 DEF next_expired, due
  <2>3. Running' = Append(Running, t) /\ Running' # Running
    BY <2>1, AdvanceFireRuns
  <2> QED
    BY <1>2, <2>1, <2>2, <2>3
<1>6. CASE AdvanceEnd
  <2>1. Phase' = Phase
    BY <1>6 DEF AdvanceEnd, timerVars, Phase
  <2> QED
    BY <1>6, <2>1, EndRuns
<1>7. CASE CallbackReturn
  <2>1. Phase' = Phase
    BY <1>7 DEF CallbackReturn, timerVars, Phase
  <2>2. /\ Running # <<>> /\ Running' # Running
        /\ Running' = SubSeq(Running, 1, Len(Running) - 1)
    BY <1>7, ReturnRuns
  <2> QED
    BY <2>1, <2>2 DEF Interface!Next, Interface!Callback, Interface!Return
<1> QED
  BY <1>1, <1>3, <1>4, <1>5, <1>6, <1>7, NextCases

\* gabs/timer.h: whatever the application and the callbacks call, and however deep, a
\* callback begins only for an installed, active timer, which it makes inactive, and
\* callbacks return in the opposite order.
THEOREM ImplementsInterface == Spec => ImplementsTimer
<1>1. Init => Interface!Init
  <2> SUFFICES ASSUME Init PROVE Interface!Init
    OBVIOUS
  <2>1. Phase = [t \in Slots |-> "none"]
    BY DEF Init, Phase
  <2>2. Running = <<>>
    BY DEF Init, Running, Depth, AppRuns
  <2> QED
    BY <2>1, <2>2 DEF Interface!Init
<1>2. StateInv /\ StateInv' /\ [Next]_vars => [Interface!Next]_(Interface!vars)
  <2>1. ASSUME UNCHANGED vars PROVE UNCHANGED <<Phase, Running>>
    BY <2>1 DEF vars, timerVars, Phase, Running, Depth, AppRuns, Top
  <2> QED
    BY <2>1, StepMaps DEF Interface!vars
<1> QED
  BY <1>1, <1>2, InvStateInv, PTL DEF Spec, ImplementsTimer, Interface!Spec

-----------------------------------------------------------------------------
(* The virtual clock.                                                       *)

\* No advance is called inside another.
OneAdvance == \A i, j \in InAdvance : i = j

\* The end of an advance, like an expiry, fits in a uint64_t.
EndInRange == \A us \in Steps : now_us + us < Wrap

\* The advance in progress.
UntilInv ==
    /\ InAdvance = {} => Until = Clock!NoAdvance
    /\ \A i \in InAdvance : Until = [end |-> stack[i].end, level |-> i - 1]

LEMMA UntilIs == OneAdvance => UntilInv
<1> SUFFICES ASSUME OneAdvance PROVE UntilInv
  OBVIOUS
<1>1. InAdvance = {} => Until = Clock!NoAdvance
  BY DEF Until, Clock!NoAdvance
<1>2. ASSUME NEW i \in InAdvance PROVE Until = [end |-> stack[i].end, level |-> i - 1]
  <2> DEFINE j == CHOOSE j \in InAdvance : TRUE
  <2>1. j \in InAdvance /\ InAdvance # {}
    BY <1>2
  <2>2. Until = [end |-> stack[j].end, level |-> j - 1]
    BY <2>1 DEF Until
  <2> HIDE DEF j
  <2>3. j = i
    BY <1>2, <2>1 DEF OneAdvance
  <2> QED BY <2>2, <2>3
<1> QED
  BY <1>1, <1>2 DEF UntilInv

\* It is the same as long as no call of advance begins or returns.
LEMMA UntilStays ==
  ASSUME Len(stack') = Len(stack),
         \A i \in 1 .. Len(stack) : stack'[i].call = stack[i].call /\ stack'[i].end = stack[i].end
  PROVE  Until' = Until
<1>1. InAdvance' = InAdvance
  BY DEF InAdvance
<1>2. CASE InAdvance = {}
  BY <1>1, <1>2 DEF Until
<1>3. CASE InAdvance # {}
  <2> DEFINE j == CHOOSE j \in InAdvance : TRUE
  <2>1. j \in InAdvance
    BY <1>3
  <2>2. Until = [end |-> stack[j].end, level |-> j - 1]
    BY <1>3 DEF Until
  <2>3. Until' = [end |-> stack'[j].end, level |-> j - 1]
    BY <1>1, <1>3 DEF Until
  <2> HIDE DEF j
  <2>4. stack'[j].end = stack[j].end
    BY <2>1 DEF InAdvance
  <2> QED BY <2>2, <2>3, <2>4
<1> QED
  BY <1>2, <1>3

\* The application runs where the virtual clock says: outside an advance, or in a
\* callback that was called since the advance began.
LEMMA AppRunsMaps ==
  ASSUME TypeOK, StackInv, OneAdvance
  PROVE  Clock!AppRuns <=> AppRuns
<1>1. /\ RunningInv /\ DepthInv
      /\ stack # <<>> => Len(stack) \in Nat \ {0} /\ (Top.firing = None => Top.call = "advance")
  BY RunningSeq, DepthIs, TopFrame
<1>2. Len(Running) = Depth /\ Depth \in Nat
  BY <1>1 DEF RunningInv
<1>3. CASE InAdvance = {}
  <2>1. Clock!AppRuns
    BY <1>3, UntilIs DEF Clock!AppRuns, UntilInv
  <2>2. AppRuns
    BY <1>1, <1>3 DEF AppRuns, InAdvance, Top
  <2> QED BY <2>1, <2>2
<1>4. ASSUME NEW i \in InAdvance PROVE Clock!AppRuns <=> AppRuns
  <2>1. i \in 1 .. Len(stack) /\ stack[i].call = "advance" /\ Len(stack) \in Nat
    BY <1>1 DEF InAdvance, DepthInv
  <2>2. Until.level = i - 1 /\ Until # Clock!NoAdvance
    <3>1. Until = [end |-> stack[i].end, level |-> i - 1]
      BY UntilIs DEF UntilInv
    <3>2. i - 1 # -1
      BY <2>1
    <3>3. Until.level = i - 1 /\ Clock!NoAdvance.level = -1
      BY <3>1 DEF Clock!NoAdvance
    <3> QED BY <3>2, <3>3
  <2>3. Clock!AppRuns <=> Depth > i - 1
    BY <1>2, <2>2 DEF Clock!AppRuns
  <2>4. stack # <<>>
    BY <2>1, EmptySeq DEF TypeOK
  <2>5. CASE Top.firing = None
    <3>1. i = Len(stack)
      BY <1>1, <2>1, <2>4, <2>5 DEF OneAdvance, InAdvance, Top
    <3>2. Depth = Len(stack) - 1
      BY <1>1, <2>1, <2>5 DEF DepthInv, Top
    <3>3. ~ AppRuns
      BY <2>4, <2>5 DEF AppRuns
    <3> QED BY <2>1, <2>3, <3>1, <3>2, <3>3
  <2>6. CASE Top.firing # None
    <3>1. Depth = Len(stack) /\ AppRuns
      BY <1>1, <2>6 DEF DepthInv, Top, AppRuns
    <3> QED BY <2>1, <2>3, <3>1
  <2> QED BY <2>5, <2>6
<1> QED
  BY <1>3, <1>4

\* Which timers are active for the virtual clock.
LEMMA ActiveIs ==
  ASSUME TypeOK
  PROVE  /\ Clock!Active = Pending
         /\ \A t \in Pending : Expiry[t] = expiry_us[t] /\ Expiry[t] \in Nat
<1>1. \A t \in Slots : expiry_us[t] \in Nat
  BY WrapAssumption DEF TypeOK
<1>2. \A t \in Slots : Expiry[t] = IF active[t] THEN expiry_us[t] ELSE -1
  BY DEF Expiry
<1> QED
  BY <1>1, <1>2 DEF Clock!Active, Clock!Never, Pending

\* Timers of S become inactive, the others stay as they are.
LEMMA Removed ==
  ASSUME TypeOK, NEW S \in SUBSET Slots,
         \A t \in Slots : (active'[t] <=> active[t] /\ t \notin S),
         \A t \in Slots : active'[t] => expiry_us'[t] = expiry_us[t] /\ seq'[t] = seq[t]
  PROVE  Clock!Remove(S)
<1>1. ASSUME NEW t \in Slots PROVE Expiry'[t] = IF t \in S THEN -1 ELSE Expiry[t]
  BY DEF Expiry
<1>2. ASSUME NEW t \in Slots PROVE Ahead'[t] = IF t \in S THEN {} ELSE Ahead[t] \ S
  <2>1. Ahead'[t] = {u \in Slots : active'[u] /\ active'[t] /\ seq'[u] < seq'[t]}
    BY DEF Ahead, Pending
  <2>2. Ahead[t] = {u \in Slots : active[u] /\ active[t] /\ seq[u] < seq[t]}
    BY DEF Ahead, Pending
  <2> QED BY <2>1, <2>2
<1>3. /\ Expiry' = [t \in Slots |-> Expiry'[t]]
      /\ Ahead' = [t \in Slots |-> Ahead'[t]]
  BY DEF Expiry, Ahead
<1>4. Expiry' = [t \in Slots |-> IF t \in S THEN -1 ELSE Expiry[t]]
  BY <1>1, <1>3
<1>5. Ahead' = [t \in Slots |-> IF t \in S THEN {} ELSE Ahead[t] \ S]
  BY <1>2, <1>3
<1> QED
  BY <1>4, <1>5 DEF Clock!Remove, Clock!Never

\* If none does, the virtual clock's timers stay.
LEMMA NoneRemoved ==
  ASSUME TypeOK, \A t \in Slots : (active'[t] <=> active[t]),
         \A t \in Slots : active'[t] => expiry_us'[t] = expiry_us[t] /\ seq'[t] = seq[t]
  PROVE  UNCHANGED <<Expiry, Ahead>>
<1>1. Clock!Remove({})
  BY Removed
<1>2. /\ Expiry' = [t \in Slots |-> Expiry[t]]
      /\ Ahead' = [t \in Slots |-> Ahead[t]]
  BY <1>1 DEF Clock!Remove
<1> QED
  BY <1>2 DEF Expiry, Ahead

\* A timer that is started comes after all others.
LEMMA Started ==
  ASSUME TypeOK, SeqOrders, InRange, NEW t \in Slots, Starts(t)
  PROVE  /\ \E d \in Delays : Expiry' = [Expiry EXCEPT ![t] = now_us + d]
         /\ Ahead' = [u \in Slots |-> IF u = t THEN Clock!Active \ {t} ELSE Ahead[u] \ {t}]
<1>1. PICK d \in Delays : SetTimer(t, d)
  BY DEF Starts
<1>2. (now_us + d) % Wrap = now_us + d
  <2>1. now_us + d \in Nat /\ now_us + d < Wrap
    BY DelayAssumption, WrapAssumption DEF TypeOK, InRange
  <2> QED BY <2>1, WrapAssumption
<1>3. /\ active' = [active EXCEPT ![t] = TRUE]
      /\ expiry_us' = [expiry_us EXCEPT ![t] = now_us + d]
      /\ seq' = [seq EXCEPT ![t] = next_seq]
  BY <1>1, <1>2 DEF SetTimer
<1>4. Expiry' = [Expiry EXCEPT ![t] = now_us + d]
  BY <1>3 DEF Expiry, TypeOK
<1>5. /\ active'[t] /\ seq'[t] = next_seq
      /\ \A u \in Slots \ {t} : (active'[u] <=> active[u]) /\ seq'[u] = seq[u]
  BY <1>3 DEF TypeOK
<1>6. \A u \in Pending : seq[u] < next_seq
  BY DEF SeqOrders
<1>7. /\ next_seq \in Nat /\ \A u \in Slots : seq[u] \in Nat
  BY DEF TypeOK
<1>8. ASSUME NEW u \in Slots
      PROVE  Ahead'[u] = IF u = t THEN Pending \ {t} ELSE Ahead[u] \ {t}
  <2>1. Ahead'[u] = {v \in Slots : active'[v] /\ active'[u] /\ seq'[v] < seq'[u]}
    BY DEF Ahead, Pending
  <2>2. Ahead[u] = {v \in Slots : active[v] /\ active[u] /\ seq[v] < seq[u]}
    BY DEF Ahead, Pending
  <2>3. \A v \in Slots : active[v] => seq[v] < next_seq
    BY <1>6 DEF Pending
  <2>4. CASE u = t
    BY <2>1, <2>3, <2>4, <1>5, <1>7 DEF Pending
  <2>5. CASE u # t
    BY <2>1, <2>2, <2>3, <2>5, <1>5, <1>7
  <2> QED BY <2>4, <2>5
<1>9. Ahead' = [u \in Slots |-> IF u = t THEN Pending \ {t} ELSE Ahead[u] \ {t}]
  <2>1. Ahead' = [u \in Slots |-> Ahead'[u]]
    BY DEF Ahead
  <2> QED BY <2>1, <1>8
<1> QED
  BY <1>4, <1>9, ActiveIs

\* What the calls do that leave the callbacks in progress alone.
LEMMA TimerStepOnClock ==
  ASSUME StateInv, OneAdvance, InRange, TimerStep
  PROVE  Clock!Next \/ UNCHANGED Clock!vars
<1>1. TypeOK /\ StackInv /\ SeqOrders
  BY DEF StateInv
<1>2. stack' = stack
  BY <1>1, TimerStepCases
<1>3. Until' = Until /\ Running' = Running
  BY <1>2 DEF Until, InAdvance, Running, Depth, AppRuns, Top
<1>4. CASE CtxInit \/ CtxDeinit
  <2>1. /\ stack = <<>> /\ \A t \in Slots : ~ active'[t]
        /\ now_us' = now_us \/ now_us' = 0
    BY <1>4 DEF CtxInit, CtxDeinit, ClearTimers
  <2>2. Clock!Remove(Slots)
    BY <1>1, <2>1, Removed
  <2>3. Until = Clock!NoAdvance /\ Running = <<>> /\ Clock!AppRuns
    <3>1. InAdvance = {}
      BY <2>1 DEF InAdvance
    <3>2. Until = Clock!NoAdvance
      BY <3>1, UntilIs DEF UntilInv
    <3>3. Running = <<>>
      BY <2>1 DEF Running, Depth, AppRuns
    <3> QED BY <3>2, <3>3 DEF Clock!AppRuns
  <2>4. Clock!Reset \/ Clock!Stop(Slots)
    BY <1>3, <2>1, <2>2, <2>3 DEF Clock!Reset, Clock!Stop
  <2> QED BY <2>4 DEF Clock!Next
<1>5. CASE Install
  <2>1. UNCHANGED <<Expiry, Ahead>>
    <3>1. CASE UNCHANGED timerVars
      BY <3>1, <1>1, NoneRemoved DEF timerVars
    <3>2. ASSUME NEW t \in Slots, ~ used[t],
                 active' = [active EXCEPT ![t] = FALSE],
                 expiry_us' = [expiry_us EXCEPT ![t] = 0], seq' = [seq EXCEPT ![t] = 0]
          PROVE  UNCHANGED <<Expiry, Ahead>>
      <4>1. ~ active[t]
        BY <3>2, <1>1 DEF TypeOK
      <4>2. \A u \in Slots : /\ (active'[u] <=> active[u])
                             /\ active'[u] => expiry_us'[u] = expiry_us[u] /\ seq'[u] = seq[u]
        BY <3>2, <4>1, <1>1 DEF TypeOK
      <4> QED BY <4>2, <1>1, NoneRemoved
    <3> QED BY <1>5, <3>1, <3>2 DEF Install
  <2>2. now_us' = now_us
    BY <1>5 DEF Install
  <2> QED BY <1>3, <2>1, <2>2 DEF Clock!vars
<1>6. ASSUME NEW t \in Slots, Uninstall(t) \/ Stop(t) PROVE Clock!Next
  <2>1. /\ AppRuns /\ active' = [active EXCEPT ![t] = FALSE]
        /\ UNCHANGED <<expiry_us, seq, now_us>>
    BY <1>6 DEF Uninstall, Stop, Call
  <2>2. \A u \in Slots : (active'[u] <=> active[u] /\ u \notin {t})
    BY <2>1, <1>1 DEF TypeOK
  <2>3. Clock!Remove({t}) /\ Clock!AppRuns
    BY <1>1, <2>1, <2>2, Removed, AppRunsMaps
  <2>4. Clock!Stop({t})
    BY <1>3, <2>1, <2>3 DEF Clock!Stop
  <2> QED BY <2>4 DEF Clock!Next
<1>7. ASSUME NEW t \in Slots, Start(t) \/ Restart(t)
      PROVE  Clock!Next \/ UNCHANGED Clock!vars
  <2>1. AppRuns /\ now_us' = now_us
    BY <1>7 DEF Start, Restart, Call
  <2>2. CASE UNCHANGED <<active, expiry_us, seq>>
    <3>1. UNCHANGED <<Expiry, Ahead>>
      BY <2>2, <1>1, NoneRemoved
    <3> QED BY <3>1, <1>3, <2>1 DEF Clock!vars
  <2>3. CASE Starts(t)
    <3>1. /\ \E d \in Delays : Expiry' = [Expiry EXCEPT ![t] = now_us + d]
          /\ Ahead' = [u \in Slots |-> IF u = t THEN Clock!Active \ {t} ELSE Ahead[u] \ {t}]
      BY <2>3, <1>1, Started
    <3>2. Clock!AppRuns
      BY <1>1, <2>1, AppRunsMaps
    <3>3. Clock!Start(t)
      BY <3>1, <3>2, <1>3, <2>1 DEF Clock!Start
    <3> QED BY <3>3 DEF Clock!Next
  <2> QED BY <1>7, <2>2, <2>3 DEF Start, Restart, Starts
<1> QED
  BY <1>4, <1>5, <1>6, <1>7 DEF TimerStep

\* gabs_timer_manual_fire, whose callback runs at once while the clock stands still.
LEMMA FireOnClock ==
  ASSUME StateInv, StateInv', OneAdvance, NEW t \in Slots, Fire(t)
  PROVE  Clock!Next \/ UNCHANGED Clock!vars
<1>1. TypeOK /\ StackInv /\ AppRuns /\ now_us' = now_us
  BY DEF StateInv, Fire, Call
<1>2. CASE ~ active[t]
  <2>1. UNCHANGED <<stack, active, expiry_us, seq>>
    BY <1>2 DEF Fire
  <2>2. UNCHANGED <<Expiry, Ahead>>
    BY <2>1, <1>1, NoneRemoved
  <2>3. Until' = Until /\ Running' = Running
    BY <2>1 DEF Until, InAdvance, Running, Depth, AppRuns, Top
  <2> QED BY <1>1, <2>2, <2>3 DEF Clock!vars
<1>3. CASE active[t]
  <2>1. active' = [active EXCEPT ![t] = FALSE] /\ UNCHANGED <<expiry_us, seq>>
    BY <1>3 DEF Fire
  <2>2. Clock!Remove({t})
    <3>1. \A u \in Slots : (active'[u] <=> active[u] /\ u \notin {t})
      BY <2>1, <1>1 DEF TypeOK
    <3> QED BY <2>1, <3>1, <1>1, Removed
  <2>3. /\ Len(stack) \in Nat /\ Len(stack') = Len(stack) + 1
        /\ \A i \in 1 .. Len(stack) : stack'[i] = stack[i]
        /\ stack'[Len(stack')].call = "fire"
        /\ Running' = Append(Running, t)
    BY <1>3, FireRuns
  <2>4. Until' = Until
    <3>1. InAdvance' = InAdvance
      BY <2>3 DEF InAdvance
    <3>2. OneAdvance' /\ \A i \in InAdvance : stack'[i] = stack[i]
      BY <2>3, <3>1 DEF OneAdvance, InAdvance
    <3>3. CASE InAdvance = {}
      BY <3>1, <3>3 DEF Until
    <3>4. ASSUME NEW i \in InAdvance PROVE Until' = Until
      <4>1. UntilInv /\ UntilInv'
        BY <3>2, UntilIs, PTL
      <4>2. /\ Until = [end |-> stack[i].end, level |-> i - 1]
            /\ Until' = [end |-> stack'[i].end, level |-> i - 1]
        BY <3>1, <4>1 DEF UntilInv
      <4> QED BY <3>2, <4>2
    <3> QED BY <3>3, <3>4
  <2>5. t \in Clock!Active /\ Clock!AppRuns
    BY <1>1, <1>3, ActiveIs, AppRunsMaps DEF Pending
  <2>6. Clock!FireNow(t)
    BY <1>1, <2>2, <2>3, <2>4, <2>5 DEF Clock!FireNow
  <2> QED BY <2>6 DEF Clock!Next
<1> QED
  BY <1>2, <1>3

\* gabs_timer_manual_advance is called.
LEMMA BeginOnClock ==
  ASSUME StateInv, StateInv', OneAdvance, OneAdvance', EndInRange, AdvanceBegin
  PROVE  Clock!Advance
<1>1. TypeOK /\ StackInv /\ UNCHANGED <<now_us, timerVars>>
  BY DEF StateInv, AdvanceBegin
<1>2. PICK us \in Steps :
         stack' = Append(stack, [call |-> "advance", end |-> (now_us + us) % Wrap,
                                 firing |-> None])
  BY DEF AdvanceBegin
<1>3. (now_us + us) % Wrap = now_us + us /\ now_us + us \in 0 .. Wrap - 1
  <2>1. now_us + us \in Nat /\ now_us + us < Wrap
    BY <1>1, DelayAssumption, WrapAssumption DEF TypeOK, EndInRange
  <2> QED BY <2>1, WrapAssumption
<1> DEFINE f == [call |-> "advance", end |-> now_us + us, firing |-> None]
<1>4. f \in Frame /\ f.call = "advance" /\ f.end = now_us + us
  BY <1>3 DEF Frame
<1>5. stack' = Append(stack, f)
  BY <1>2, <1>3
<1> HIDE DEF f
<1>6. /\ Len(stack) \in Nat /\ Len(stack') = Len(stack) + 1
      /\ \A i \in 1 .. Len(stack) : stack'[i] = stack[i]
      /\ stack'[Len(stack')] = f
  BY <1>1, <1>4, <1>5, PushStack DEF TypeOK
<1>7. Len(stack) + 1 \in InAdvance'
  BY <1>4, <1>6 DEF InAdvance
<1>8. InAdvance = {}
  <2> SUFFICES ASSUME NEW i \in InAdvance PROVE FALSE
    OBVIOUS
  <2>1. i \in 1 .. Len(stack) /\ stack'[i].call = "advance"
    BY <1>6 DEF InAdvance
  <2>2. i \in InAdvance'
    BY <2>1, <1>6 DEF InAdvance
  <2>3. i = Len(stack) + 1
    BY <2>2, <1>7 DEF OneAdvance
  <2> QED BY <2>1, <2>3, <1>6
<1>9. UntilInv /\ UntilInv' /\ RunningInv /\ DepthInv
  BY <1>1, UntilIs, RunningSeq, DepthIs, PTL
<1>10. Len(Running) = Len(stack)
  <2>1. \A i \in 1 .. Len(stack) : stack[i].firing # None
    BY <1>1, CallStep
  <2>2. Depth = Len(stack)
    BY <2>1, <1>9 DEF DepthInv
  <2> QED BY <2>2, <1>9 DEF RunningInv
<1>11. Until = Clock!NoAdvance
  BY <1>8, <1>9 DEF UntilInv
<1>12. Until' = [end |-> now_us + us, level |-> Len(Running)]
  <2>1. Until' = [end |-> stack'[Len(stack) + 1].end, level |-> (Len(stack) + 1) - 1]
    BY <1>7, <1>9 DEF UntilInv
  <2>2. stack'[Len(stack) + 1].end = now_us + us /\ (Len(stack) + 1) - 1 = Len(Running)
    BY <1>4, <1>6, <1>10
  <2> QED BY <2>1, <2>2
<1>13. UNCHANGED <<Expiry, Ahead, Running>>
  BY <1>1, NoneRemoved, BeginRuns DEF timerVars
<1> QED
  BY <1>1, <1>11, <1>12, <1>13 DEF Clock!Advance

\* Where an advance is between two callbacks, it is the innermost call, and ends when
\* the virtual clock says.
LEMMA TopUntil ==
  ASSUME StateInv, OneAdvance, ~ AppRuns
  PROVE  /\ stack # <<>> /\ Len(stack) \in InAdvance /\ Top = stack[Len(stack)]
         /\ Until.end = Top.end /\ Top.end \in Nat
         /\ ~ Clock!AppRuns
<1>1. TypeOK /\ StackInv
  BY DEF StateInv
<1>2. stack # <<>> /\ Top.firing = None
  BY DEF AppRuns
<1>3. Len(stack) \in Nat \ {0} /\ Top \in Frame /\ Top.call = "advance" /\ Top = stack[Len(stack)]
  BY <1>1, <1>2, TopFrame DEF Top
<1>4. Len(stack) \in InAdvance /\ Top.end \in Nat
  BY <1>3, WrapAssumption DEF InAdvance, Frame
<1>5. Until.end = Top.end
  BY <1>3, <1>4, UntilIs DEF UntilInv
<1> QED
  BY <1>1, <1>2, <1>3, <1>4, <1>5, AppRunsMaps

\* The callback of the first timer that is due begins, at the time of its expiry.
LEMMA AdvanceFireOnClock ==
  ASSUME StateInv, StateInv', OneAdvance, AdvanceFire
  PROVE  Clock!Next
<1>1. PICK t \in Slots :
         /\ ~ AppRuns /\ next_expired(t, Top.end) /\ now_us' = expiry_us[t]
         /\ active' = [active EXCEPT ![t] = FALSE]
         /\ stack' = [stack EXCEPT ![Len(stack)].firing = t]
  BY DEF AdvanceFire
<1>2. TypeOK /\ StackInv /\ SeqOrders /\ UNCHANGED <<expiry_us, seq>>
  BY DEF StateInv, AdvanceFire
<1>3. Until.end = Top.end /\ Top.end \in Nat /\ ~ Clock!AppRuns
  BY <1>1, TopUntil
<1>4. /\ Clock!Active = Pending
      /\ \A u \in Pending : Expiry[u] = expiry_us[u] /\ expiry_us[u] \in Nat /\ used[u]
                            /\ seq[u] \in Nat
  BY <1>2, ActiveIs DEF Pending, TypeOK
<1>5. t \in Pending /\ expiry_us[t] <= Top.end
  BY <1>1 DEF next_expired, due, Pending
<1>6. ASSUME NEW u \in Pending \ {t} PROVE Clock!Earlier(t, u)
  <2>1. seq[t] # seq[u]
    BY <1>2, <1>5 DEF SeqOrders
  <2>2. CASE expiry_us[u] > Top.end
    BY <1>3, <1>4, <1>5, <2>2 DEF Clock!Earlier
  <2>3. CASE expiry_us[u] <= Top.end
    <3>1. u \in due(Top.end) \ {t}
      BY <1>4, <2>3 DEF due, Pending
    <3>2. before(t, u) \/ ~ before(u, t)
      BY <1>1, <3>1 DEF next_expired
    <3>3. expiry_us[t] < expiry_us[u] \/ (expiry_us[t] = expiry_us[u] /\ seq[t] < seq[u])
      BY <3>2, <2>1, <1>4, <1>5 DEF before
    <3>4. seq[t] < seq[u] => t \in Ahead[u]
      BY <1>5 DEF Ahead, Pending
    <3> QED BY <3>3, <3>4, <1>4, <1>5 DEF Clock!Earlier
  <2> QED BY <1>3, <1>4, <2>2, <2>3
<1>7. Clock!Remove({t})
  <2>1. \A u \in Slots : (active'[u] <=> active[u] /\ u \notin {t})
    BY <1>1, <1>2 DEF TypeOK
  <2> QED BY <2>1, <1>2, Removed
<1>8. /\ Len(stack') = Len(stack)
      /\ \A i \in 1 .. Len(stack) :
            stack'[i].call = stack[i].call /\ stack'[i].end = stack[i].end
      /\ Running' = Append(Running, t)
  BY <1>1, AdvanceFireRuns
<1>9. Until' = Until
  BY <1>8, UntilStays
<1>10. Clock!FireDue(t)
  BY <1>1, <1>3, <1>4, <1>5, <1>6, <1>7, <1>8, <1>9 DEF Clock!FireDue
<1> QED
  BY <1>10 DEF Clock!Next

\* gabs_timer_manual_advance returns when the clock is where it was to go.
LEMMA EndOnClock ==
  ASSUME StateInv, StateInv', OneAdvance, OneAdvance', AdvanceEnd
  PROVE  Clock!Arrive
<1>1. /\ TypeOK /\ StackInv /\ ~ AppRuns /\ now_us' = Top.end /\ UNCHANGED timerVars
      /\ \A t \in Slots : ~ next_expired(t, Top.end)
  BY DEF StateInv, AdvanceEnd
<1>2. /\ Until.end = Top.end /\ Top.end \in Nat /\ ~ Clock!AppRuns
      /\ Len(stack) \in InAdvance
  BY <1>1, TopUntil
<1>3. \A t \in Clock!Active : Expiry[t] > Until.end
  BY <1>1, <1>2, NothingDue, ActiveIs
<1>4. Until' = Clock!NoAdvance
  <2>1. /\ Len(stack) \in Nat \ {0} /\ Len(stack') = Len(stack) - 1
        /\ \A i \in 1 .. Len(stack') : stack'[i] = stack[i]
    BY <1>1, EndStep
  <2>2. InAdvance' = {}
    <3> SUFFICES ASSUME NEW i \in InAdvance' PROVE FALSE
      OBVIOUS
    <3>1. i \in 1 .. Len(stack') /\ stack'[i].call = "advance"
      BY DEF InAdvance
    <3>2. i \in InAdvance /\ i < Len(stack)
      BY <2>1, <3>1 DEF InAdvance
    <3> QED BY <1>2, <2>1, <3>2 DEF OneAdvance
  <2>3. UntilInv'
    BY UntilIs, PTL
  <2> QED BY <2>2, <2>3 DEF UntilInv, Clock!NoAdvance
<1>5. UNCHANGED <<Expiry, Ahead, Running>>
  BY <1>1, NoneRemoved, EndRuns DEF timerVars
<1> QED
  BY <1>1, <1>2, <1>3, <1>4, <1>5 DEF Clock!Arrive

\* A callback returns.
LEMMA ReturnOnClock ==
  ASSUME StateInv, StateInv', OneAdvance, CallbackReturn
  PROVE  Clock!Return
<1>1. TypeOK /\ StackInv /\ AppRuns /\ UNCHANGED <<now_us, timerVars>>
  BY DEF StateInv, CallbackReturn, AppRuns
<1>2. /\ Running # <<>> /\ Running' = SubSeq(Running, 1, Len(Running) - 1)
      /\ Clock!AppRuns
  BY <1>1, ReturnRuns, AppRunsMaps
<1>3. UNCHANGED <<Expiry, Ahead>>
  BY <1>1, NoneRemoved DEF timerVars
<1>4. Until' = Until
  <2>1. stack # <<>> /\ Len(stack) \in Nat \ {0} /\ Top = stack[Len(stack)]
    BY <1>1, TopFrame DEF CallbackReturn, Top
  <2>2. CASE Top.call = "advance"
    <3>1. stack' = [stack EXCEPT ![Len(stack)].firing = None]
      BY <2>2 DEF CallbackReturn
    <3>2. /\ Len(stack') = Len(stack)
          /\ \A i \in 1 .. Len(stack) :
                /\ i # Len(stack) => stack'[i] = stack[i]
                /\ stack'[i].call = stack[i].call /\ stack'[i].end = stack[i].end
      BY <1>1, <2>1, <3>1, SetTop DEF TypeOK
    <3> QED BY <3>2, UntilStays
  <2>3. CASE Top.call # "advance"
    <3>1. stack' = SubSeq(stack, 1, Len(stack) - 1)
      BY <2>3 DEF CallbackReturn
    <3>2. Len(stack') = Len(stack) - 1 /\ \A i \in 1 .. Len(stack') : stack'[i] = stack[i]
      BY <1>1, <2>1, <3>1, PopStack DEF TypeOK
    <3>3. InAdvance' = InAdvance /\ \A i \in InAdvance : stack'[i] = stack[i]
      <4>1. \A i \in 1 .. Len(stack) : stack[i].call = "advance" => i \in 1 .. Len(stack')
        BY <2>1, <2>3, <3>2
      <4>2. \A i \in 1 .. Len(stack') : i \in 1 .. Len(stack)
        BY <2>1, <3>2
      <4> QED BY <3>2, <4>1, <4>2 DEF InAdvance
    <3>4. UntilInv
      BY UntilIs
    <3>5. CASE InAdvance = {}
      BY <3>3, <3>5 DEF Until
    <3>6. ASSUME NEW i \in InAdvance PROVE Until' = Until
      <4>1. OneAdvance'
        BY <3>3 DEF OneAdvance
      <4>2. UntilInv'
        BY <4>1, UntilIs, PTL
      <4>3. /\ Until = [end |-> stack[i].end, level |-> i - 1]
            /\ Until' = [end |-> stack'[i].end, level |-> i - 1]
        BY <3>3, <3>4, <4>2 DEF UntilInv
      <4> QED BY <3>3, <4>3
    <3> QED BY <3>5, <3>6
  <2> QED BY <2>2, <2>3
<1> QED
  BY <1>1, <1>2, <1>3, <1>4 DEF Clock!Return

\* gabs/timer/manual.h, lines 25 to 28: the clock stands still but for an advance, which
\* stops at the expiry of each timer that is due, in the order of their expiries and, for
\* equal ones, of their starts, and runs its callback there; as long as advances are not
\* nested, and the time with what is added to it fits in a uint64_t.
THEOREM ImplementsClock ==
    Spec /\ [](OneAdvance /\ InRange /\ EndInRange) => ImplementsVirtualClock
<1> DEFINE Simple == OneAdvance /\ InRange /\ EndInRange
<1>1. Init => Clock!Init
  <2> SUFFICES ASSUME Init PROVE Clock!Init
    OBVIOUS
  <2>1. /\ Expiry = [t \in Slots |-> -1] /\ Ahead = [t \in Slots |-> {}]
        /\ now_us = 0 /\ stack = <<>>
    BY DEF Init, Expiry, Ahead
  <2>2. InAdvance = {} /\ Running = <<>>
    BY <2>1 DEF InAdvance, Running, Depth, AppRuns
  <2> QED
    BY <2>1, <2>2 DEF Clock!Init, Clock!Never, Clock!NoAdvance, Until
<1>2. StateInv /\ StateInv' /\ Simple /\ Simple' /\ [Next]_vars => [Clock!Next]_(Clock!vars)
  <2> SUFFICES ASSUME StateInv, StateInv', Simple, Simple', [Next]_vars
               PROVE  Clock!Next \/ UNCHANGED Clock!vars
    OBVIOUS
  <2>1. CASE UNCHANGED vars
    BY <2>1 DEF vars, timerVars, Clock!vars, Expiry, Ahead, Pending, Until, InAdvance,
                Running, Depth, AppRuns, Top
  <2>2. CASE TimerStep
    BY <2>2, TimerStepOnClock
  <2>3. CASE AdvanceBegin
    BY <2>3, BeginOnClock DEF Clock!Next
  <2>4. CASE AdvanceFire
    BY <2>4, AdvanceFireOnClock
  <2>5. CASE AdvanceEnd
    BY <2>5, EndOnClock DEF Clock!Next
  <2>6. CASE CallbackReturn
    BY <2>6, ReturnOnClock DEF Clock!Next
  <2>7. CASE \E t \in Slots : Fire(t)
    BY <2>7, FireOnClock
  <2> QED
    BY <2>1, <2>2, <2>3, <2>4, <2>5, <2>6, <2>7, NextCases
<1> QED
  BY <1>1, <1>2, InvStateInv, PTL DEF Spec, ImplementsVirtualClock, Clock!Spec
===============================================================================
