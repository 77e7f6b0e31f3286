------------------------------- MODULE Timediff -------------------------------
(***************************************************************************)
(* From a timeout in microseconds to the absolute time at which a wait ends *)
(* (contrib/posix/posix_timediff.c).                                       *)
(*                                                                         *)
(* The arithmetic is that of uint64_t: products wrap at Wrap.  The factors *)
(* between the units are parameters, so that small instances have timeouts *)
(* on both sides of the point where the product wraps.                     *)
(***************************************************************************)
EXTENDS Integers

CONSTANTS
    NsPerUs,    \* 1e3
    UsPerSec,   \* 1e6
    Wrap        \* the number of values of a uint64_t

ASSUME UnitAssumption == NsPerUs \in Nat \ {0} /\ UsPerSec \in Nat \ {0}
ASSUME WrapAssumption == Wrap \in Nat /\ Wrap >= NsPerUs * UsPerSec

NsPerSec == NsPerUs * UsPerSec

Timespec == [sec : Nat, nsec : 0 .. NsPerSec - 1]

\* The instant a timespec denotes, in nanoseconds.
Instant(spec) == spec.sec * NsPerSec + spec.nsec

\* Mutant: the second that is carried stays in the nanoseconds.
CarryKeep(sec, nsec) == [sec |-> IF nsec >= NsPerSec THEN sec + 1 ELSE sec, nsec |-> nsec]

Carry(sec, nsec) ==
    IF nsec >= NsPerSec THEN [sec |-> sec + 1, nsec |-> nsec - NsPerSec]
                        ELSE [sec |-> sec, nsec |-> nsec]

\* posix_timediff_resolve: "now" is what clock_gettime returned.
resolve(diff, now) ==
    Carry(now.sec + diff \div UsPerSec, now.nsec + (((diff * NsPerUs) % Wrap) % NsPerSec))

\* Calls: the wait for "diff" that begins at "now" ends at "spec".
CONSTANT Clocks   \* what the clock may show

ASSUME ClockAssumption == Clocks \subseteq Timespec

VARIABLES now, diff, spec

vars == <<now, diff, spec>>

Init == now \in Clocks /\ diff = 0 /\ spec = resolve(diff, now)

Call(d, n) == now' = n /\ diff' = d /\ spec' = resolve(d, n)

Next == \E d \in 0 .. Wrap - 1, n \in Clocks : Call(d, n)

Spec == Init /\ [][Next]_vars

-----------------------------------------------------------------------------
\* sem_timedwait and pthread_mutex_timedlock refuse nanoseconds of a second or more.
Normalised == spec.nsec \in 0 .. NsPerSec - 1 /\ spec.sec \in Nat

Asked == diff * NsPerUs
Waits == Instant(spec) - Instant(now)

\* A wait is exactly as long as was asked, if that many nanoseconds fit in a uint64_t.
ExactIfItFits == Asked < Wrap => Waits = Asked

\* Otherwise, which takes a timeout of centuries, it is still off by less than a second.
OffByLessThanASecond == Waits - Asked < NsPerSec /\ Asked - Waits < NsPerSec
===============================================================================
