---------------------------- MODULE TimediffProofs ----------------------------
(***************************************************************************)
(* What posix_timediff_resolve returns, for every timeout, clock and width. *)
(***************************************************************************)
EXTENDS Timediff, TLAPS

\* The units are positive, and so is their product.
LEMMA UnitsPositive == NsPerSec \in Nat \ {0}
<1>1. \A a, b \in Nat : a > 0 /\ b > 0 => a * b \in Nat /\ a * b > 0
  OBVIOUS
<1> QED
  BY <1>1, UnitAssumption DEF NsPerSec

\* Division with remainder, by itself and scaled.
LEMMA DivMod ==
    ASSUME NEW a \in Nat, NEW b \in Nat \ {0}
    PROVE  /\ a = b * (a \div b) + (a % b)
           /\ a \div b \in Nat
           /\ a % b \in 0 .. b - 1
  OBVIOUS

\* A remainder is the number below the divisor that a multiple of it leaves.
LEMMA ModUnique ==
    ASSUME NEW m \in Nat \ {0}, NEW q \in Nat, NEW r \in 0 .. m - 1
    PROVE  (m * q + r) % m = r
<1>1. r \in Nat /\ r < m
  OBVIOUS
<1> QED
  BY <1>1, SMTT(30)

\* Scaling a number and what it is divided by scales the remainder.
LEMMA ModScale ==
    ASSUME NEW a \in Nat, NEW b \in Nat \ {0}, NEW k \in Nat \ {0}
    PROVE  (a * k) % (k * b) = (a % b) * k
<1> DEFINE q == a \div b
           r == a % b
<1>1. q \in Nat /\ r \in 0 .. b - 1 /\ a = b * q + r
  BY DivMod
<1>2. r * k \in 0 .. k * b - 1
  <2>1. r \in Nat /\ r <= b - 1
    BY <1>1
  <2>2. \A x, y, z \in Nat : x <= y => x * z <= y * z
    BY SMTT(30)
  <2>3. r * k <= (b - 1) * k
    BY <2>1, <2>2
  <2>4. (b - 1) * k = k * b - k /\ r * k \in Nat /\ k * b \in Nat
    BY <2>1
  <2> QED
    BY <2>3, <2>4
<1>3. a * k = (k * b) * q + r * k
  BY <1>1, SMTT(30)
<1>4. k * b \in Nat \ {0}
  <2>1. \A x, y \in Nat : x > 0 /\ y > 0 => x * y \in Nat /\ x * y > 0
    OBVIOUS
  <2> QED
    BY <2>1
<1>5. ((k * b) * q + r * k) % (k * b) = r * k
  <2> DEFINE m == k * b
             s == r * k
  <2>1. m \in Nat \ {0} /\ q \in Nat /\ s \in 0 .. m - 1
    BY <1>1, <1>2, <1>4
  <2> HIDE DEF m, s, q
  <2>2. (m * q + s) % m = s
    BY <2>1, ModUnique
  <2> QED
    BY <2>2 DEF m, s
<1> QED
  BY <1>3, <1>5

\* The nanoseconds that are added are less than a second.
LEMMA NsecAdded ==
    ASSUME NEW d \in 0 .. Wrap - 1
    PROVE  /\ d \in Nat /\ d * NsPerUs \in Nat
           /\ (d * NsPerUs) % Wrap \in Nat
           /\ ((d * NsPerUs) % Wrap) % NsPerSec \in 0 .. NsPerSec - 1
<1>1. d \in Nat /\ NsPerUs \in Nat /\ Wrap \in Nat \ {0}
  BY UnitAssumption, WrapAssumption
<1>2. d * NsPerUs \in Nat
  BY <1>1
<1>3. (d * NsPerUs) % Wrap \in Nat
  <2> DEFINE p == d * NsPerUs
  <2> HIDE DEF p
  <2>1. p \in Nat => p % Wrap \in Nat
    BY <1>1
  <2> QED
    BY <1>2, <2>1 DEF p
<1>4. ((d * NsPerUs) % Wrap) % NsPerSec \in 0 .. NsPerSec - 1
  <2> DEFINE p == (d * NsPerUs) % Wrap
  <2> HIDE DEF p
  <2>1. p \in Nat => p % NsPerSec \in 0 .. NsPerSec - 1
    BY UnitsPositive
  <2> QED
    BY <1>3, <2>1 DEF p
<1> QED
  BY <1>1, <1>2, <1>3, <1>4

\* The carry keeps the instant, and leaves less than a second of nanoseconds.
LEMMA CarryKeepsInstant ==
    ASSUME NEW s \in Nat, NEW n \in Nat, n < 2 * NsPerSec
    PROVE  /\ Carry(s, n) \in Timespec
           /\ Instant(Carry(s, n)) = s * NsPerSec + n
<1> DEFINE P == NsPerSec
<1>1. P \in Nat \ {0}
  BY UnitsPositive
<1>2. CASE n >= P
  <2>1. Carry(s, n) = [sec |-> s + 1, nsec |-> n - P]
    BY <1>2 DEF Carry
  <2>2. s + 1 \in Nat /\ n - P \in 0 .. P - 1
    BY <1>1, <1>2
  <2>3. (s + 1) * P + (n - P) = s * P + n
    <3> HIDE DEF P
    <3> QED
      BY <1>1, SMTT(30)
  <2> QED
    BY <2>1, <2>2, <2>3 DEF Timespec, Instant
<1>3. CASE ~ (n >= P)
  <2>1. Carry(s, n) = [sec |-> s, nsec |-> n]
    BY <1>3 DEF Carry
  <2>2. n \in 0 .. P - 1
    BY <1>1, <1>3
  <2> QED
    BY <2>1, <2>2 DEF Timespec, Instant
<1> QED
  BY <1>2, <1>3

\* The instant the call returns, before it is compared with what was asked.
LEMMA ResolveInstant ==
    ASSUME NEW d \in 0 .. Wrap - 1, NEW n \in Timespec
    PROVE  /\ resolve(d, n) \in Timespec
           /\ Instant(resolve(d, n)) = Instant(n) + (d \div UsPerSec) * NsPerSec
                                          + (((d * NsPerUs) % Wrap) % NsPerSec)
<1> DEFINE P == NsPerSec
           q == d \div UsPerSec
           r == ((d * NsPerUs) % Wrap) % P
<1>1. P \in Nat \ {0} /\ n.sec \in Nat /\ n.nsec \in 0 .. P - 1
  BY UnitsPositive DEF Timespec
<1>2. q \in Nat
  BY UnitAssumption
<1>3. r \in 0 .. P - 1
  BY NsecAdded
<1>4. resolve(d, n) = Carry(n.sec + q, n.nsec + r)
  BY DEF resolve
<1> HIDE DEF P, q, r
<1>5. n.sec + q \in Nat /\ n.nsec + r \in Nat /\ n.nsec + r < 2 * P
  BY <1>1, <1>2, <1>3
<1>6. /\ resolve(d, n) \in Timespec
      /\ Instant(resolve(d, n)) = (n.sec + q) * P + (n.nsec + r)
  BY <1>4, <1>5, CarryKeepsInstant DEF P
<1>7. Instant(n) = n.sec * P + n.nsec
  BY DEF Instant, P
<1>8. (n.sec + q) * P + (n.nsec + r) = (n.sec * P + n.nsec) + q * P + r
  BY <1>1, <1>2, <1>3, SMTT(30)
<1> QED
  BY <1>6, <1>7, <1>8 DEF P, q, r

\* A timeout in nanoseconds is its seconds and the rest.
LEMMA AskedSplit ==
    ASSUME NEW d \in Nat
    PROVE  /\ d * NsPerUs = (d \div UsPerSec) * NsPerSec + (d % UsPerSec) * NsPerUs
           /\ (d * NsPerUs) % NsPerSec = (d % UsPerSec) * NsPerUs
           /\ (d % UsPerSec) * NsPerUs \in 0 .. NsPerSec - 1
<1> DEFINE q == d \div UsPerSec
           r == d % UsPerSec
<1>1. UsPerSec \in Nat \ {0} /\ NsPerUs \in Nat \ {0}
  BY UnitAssumption
<1>2. d = UsPerSec * q + r /\ q \in Nat /\ r \in 0 .. UsPerSec - 1
  BY <1>1, DivMod
<1>3. (d * NsPerUs) % NsPerSec = r * NsPerUs
  BY <1>1, ModScale DEF NsPerSec
<1>4. d * NsPerUs = q * (NsPerUs * UsPerSec) + r * NsPerUs
  <2> HIDE DEF q, r
  <2> QED
    BY <1>1, <1>2, SMTT(30)
<1>5. r * NsPerUs \in 0 .. NsPerSec - 1
  <2> DEFINE p == d * NsPerUs
  <2>1. p \in Nat
    BY <1>1
  <2> HIDE DEF p
  <2>2. p % NsPerSec \in 0 .. NsPerSec - 1
    BY <2>1, UnitsPositive
  <2> QED
    BY <1>3, <2>2 DEF p
<1> QED
  BY <1>3, <1>4, <1>5 DEF NsPerSec

\* The state after a call.
Called == diff \in 0 .. Wrap - 1 /\ now \in Timespec /\ spec = resolve(diff, now)

\* posix_timediff_resolve: the timespec it returns is one that timed waits accept.
LEMMA CallNormalised ==
    Called => Normalised
<1> SUFFICES ASSUME Called PROVE Normalised
  OBVIOUS
<1> USE DEF Called
<1>1. spec \in Timespec
  BY ResolveInstant
<1> QED
  BY <1>1 DEF Normalised, Timespec

\* posix_timediff_resolve: the wait lasts exactly as long as was asked, if the
\* timeout in nanoseconds fits in a uint64_t.
LEMMA CallExact ==
    Called => ExactIfItFits
<1> SUFFICES ASSUME Called PROVE ExactIfItFits
  OBVIOUS
<1> USE DEF Called
<1> SUFFICES ASSUME diff * NsPerUs < Wrap
             PROVE  Instant(resolve(diff, now)) - Instant(now) = diff * NsPerUs
  BY DEF ExactIfItFits, Asked, Waits
<1> DEFINE p == diff * NsPerUs
           a == (diff \div UsPerSec) * NsPerSec
           b == (diff % UsPerSec) * NsPerUs
           i == Instant(now)
<1>1. p \in Nat /\ diff \in Nat
  BY NsecAdded
<1>2. p % Wrap = p
  <2> HIDE DEF p
  <2>1. Wrap \in Nat \ {0} /\ p \in 0 .. Wrap - 1
    BY <1>1, WrapAssumption DEF p
  <2>2. (Wrap * 0 + p) % Wrap = p
    BY <2>1, ModUnique
  <2> QED
    BY <2>1, <2>2
<1>3. p % NsPerSec = b /\ p = a + b /\ b \in Nat
  BY <1>1, AskedSplit
<1>4. Instant(resolve(diff, now)) = i + a + b
  BY <1>2, <1>3, ResolveInstant
<1>5. i \in Nat /\ a \in Nat
  <2>1. now.sec \in Nat /\ now.nsec \in Nat /\ NsPerSec \in Nat
    BY UnitsPositive DEF Timespec
  <2>2. diff \div UsPerSec \in Nat
    BY <1>1, UnitAssumption
  <2> QED
    BY <2>1, <2>2 DEF Instant
<1> HIDE DEF p, a, b, i
<1> QED
  BY <1>3, <1>4, <1>5 DEF p, i

\* posix_timediff_resolve: however long the timeout, the error is less than a second.
LEMMA CallOffByLessThanASecond ==
    Called => OffByLessThanASecond
<1> SUFFICES ASSUME Called PROVE OffByLessThanASecond
  OBVIOUS
<1> USE DEF Called
<1> DEFINE p == diff * NsPerUs
           a == (diff \div UsPerSec) * NsPerSec
           b == (diff % UsPerSec) * NsPerUs
           c == (p % Wrap) % NsPerSec
           i == Instant(now)
<1>1. p \in Nat /\ diff \in Nat /\ c \in 0 .. NsPerSec - 1
  BY NsecAdded
<1>2. p = a + b /\ b \in 0 .. NsPerSec - 1
  BY <1>1, AskedSplit
<1>3. Instant(resolve(diff, now)) = i + a + c
  BY ResolveInstant
<1>4. i \in Nat /\ a \in Nat /\ NsPerSec \in Nat
  <2>1. now.sec \in Nat /\ now.nsec \in Nat /\ NsPerSec \in Nat
    BY UnitsPositive DEF Timespec
  <2>2. diff \div UsPerSec \in Nat
    BY <1>1, UnitAssumption
  <2> QED
    BY <2>1, <2>2 DEF Instant
<1>5. Waits = Instant(resolve(diff, now)) - i /\ Asked = p
  BY DEF Waits, Asked
<1> HIDE DEF p, a, b, c, i
<1>6. Waits - Asked = c - b
  BY <1>1, <1>2, <1>3, <1>4, <1>5
<1>7. Asked - Waits = b - c
  BY <1>1, <1>2, <1>3, <1>4, <1>5
<1> QED
  BY <1>1, <1>2, <1>4, <1>6, <1>7 DEF OffByLessThanASecond

\* Every state is that of a call: the invariant behind the theorems.
LEMMA CallsReturn == Spec => []Called
<1>1. Init => Called
  <2>1. 0 \in 0 .. Wrap - 1
    BY WrapAssumption, UnitsPositive DEF NsPerSec
  <2> QED
    BY <2>1, ClockAssumption DEF Init, Called
<1>2. Called /\ [Next]_vars => Called'
  BY ClockAssumption DEF Called, Next, Call, vars
<1> QED
  BY <1>1, <1>2, PTL DEF Spec

\* posix_timediff_resolve: the timespec it returns is one that timed waits accept.
THEOREM ResolveNormalised == Spec => []Normalised
  BY CallsReturn, CallNormalised, PTL

\* posix_timediff_resolve: the wait lasts exactly as long as was asked, if the
\* timeout in nanoseconds fits in a uint64_t.
THEOREM ResolveExact == Spec => []ExactIfItFits
  BY CallsReturn, CallExact, PTL

\* posix_timediff_resolve: however long the timeout, the error is less than a second.
THEOREM ResolveOffByLessThanASecond == Spec => []OffByLessThanASecond
  BY CallsReturn, CallOffByLessThanASecond, PTL
===============================================================================
