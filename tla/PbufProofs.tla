------------------------------- MODULE PbufProofs -------------------------------
(***************************************************************************)
(* What is proved about Pbuf and NetBuf for every number of fragments and  *)
(* handles, every size and any calls: that references are counted right,   *)
(* that fragments stay within their memory, that a put fills the tailroom, *)
(* and that an iterator does on net_buf what it does on the basic          *)
(* implementation.                                                         *)
(*                                                                         *)
(* Within a call the counts are wrong for a while: a pointer is reset      *)
(* before the reference it stood for is given up.  So a heap is called     *)
(* Sound with no handle in view, if no fragment has fewer references than  *)
(* pointers of other fragments; what is left over, Refs, are the           *)
(* references held from outside.  Each operation is shown to leave the     *)
(* heap sound and to change Refs where it says; that handles hold exactly  *)
(* the references left over is then put together for each call.            *)
(***************************************************************************)
EXTENDS NetBuf, FiniteSetTheorems, WellFoundedInduction, TLAPS

-----------------------------------------------------------------------------
(* Induction over the positions of a chain: a set of numbers stands for the *)
(* property.                                                                *)

\* A set that has 0 and, below n, the successor of each of its members has all of
\* 0 .. n.
LEMMA Induction ==
  ASSUME NEW n \in Nat, NEW S, 0 \in S, \A k \in 0 .. n - 1 : k \in S => k + 1 \in S
  PROVE  0 .. n \subseteq S
<1> DEFINE T == {k \in Nat : k <= n /\ k \notin S}
<1> SUFFICES ASSUME T # {} PROVE FALSE
  BY SMT
<1>1. PICK k \in T : \A j \in T : ~ (<<j, k>> \in OpToRel(<, Nat))
  BY NatLessThanWellFounded, WFMin, Zenon
<1>2. k # 0 /\ k \in Nat /\ k <= n /\ k \notin S
  OBVIOUS
<1>3. k - 1 \in S
  <2>1. <<k - 1, k>> \in OpToRel(<, Nat)
    BY <1>2 DEF OpToRel
  <2>2. k - 1 \notin T
    BY <2>1, <1>1
  <2> QED BY <2>2, <1>2
<1> QED
  BY <1>2, <1>3

\* ... and if every number passes the property on, all have it.
LEMMA InductionTo ==
  ASSUME NEW n \in Nat, NEW S, 0 \in S, \A k \in Nat : k \in S => k + 1 \in S
  PROVE  n \in S
<1>1. \A k \in 0 .. n - 1 : k \in S => k + 1 \in S
  OBVIOUS
<1>2. 0 .. n \subseteq S
  BY <1>1, Induction
<1> QED
  BY <1>2

-----------------------------------------------------------------------------
(* Chains.                                                                  *)

\* A pointer to a fragment, or none.
FN == Frags \cup {Null}

\* Every chain of the heap ends: the pointers lead down a rank.
Ranked(fr, n, r) ==
    /\ n \in Nat /\ r \in [FN -> 0 .. n]
    /\ \A f \in Frags : fr[f].next \in FN /\ r[fr[f].next] < r[f]

\* Some rank will do.
Acyclic(fr) == \E n, r : Ranked(fr, n, r)

\* One step of the recursion that walks a chain.
WalkStep(fr, w, q) == IF q = Null THEN <<>> ELSE <<q>> \o w[fr[q].next]

\* If every chain ends, the recursion that walks the chains defines a function.
LEMMA WalkExists ==
  ASSUME NEW fr, Acyclic(fr)
  PROVE  \E w : /\ w = [q \in FN |-> IF q = Null THEN <<>> ELSE <<q>> \o w[fr[q].next]]
                /\ w \in [FN -> Seq(Frags)]
<1>1. PICK n, r : Ranked(fr, n, r)
  BY DEF Acyclic
<1> DEFINE D(k) == {q \in FN : r[q] <= k}
           E(w, k) == w \in [D(k) -> Seq(Frags)] /\ \A q \in D(k) : w[q] = WalkStep(fr, w, q)
           S == {k \in Nat : \E w : E(w, k)}
<1>2. 0 \in S
  <2>1. E([q \in D(0) |-> <<>>], 0)
    BY <1>1 DEF Ranked, WalkStep, FN
  <2> QED BY <2>1
<1>3. ASSUME NEW k \in Nat, k \in S PROVE k + 1 \in S
  <2>1. PICK w : E(w, k)
    BY <1>3
  <2> DEFINE v == [q \in D(k + 1) |-> IF q \in D(k) THEN w[q] ELSE WalkStep(fr, w, q)]
  <2>2. ASSUME NEW q \in D(k + 1), q # Null PROVE fr[q].next \in D(k) /\ q \in Frags
    BY <1>1, <2>2 DEF Ranked, FN
  <2>3. ASSUME NEW q \in D(k + 1) PROVE v[q] = WalkStep(fr, v, q) /\ v[q] \in Seq(Frags)
    <3>1. CASE q = Null
      <4>1. v[q] = <<>>
        BY <3>1, <2>1 DEF WalkStep
      <4> HIDE DEF v
      <4> QED BY <3>1, <4>1 DEF WalkStep
    <3>2. CASE q # Null
      <4>1. fr[q].next \in D(k) /\ fr[q].next \in D(k + 1) /\ q \in Frags
        BY <2>2, <3>2, <1>1 DEF Ranked, FN
      <4>2. v[fr[q].next] = w[fr[q].next] /\ w[fr[q].next] \in Seq(Frags)
        BY <4>1, <2>1
      <4>3. v[q] = WalkStep(fr, w, q)
        BY <2>1
      <4>4. WalkStep(fr, w, q) = <<q>> \o w[fr[q].next] /\ WalkStep(fr, v, q) = <<q>> \o v[fr[q].next]
        BY <3>2 DEF WalkStep
      <4>5. <<q>> \o w[fr[q].next] \in Seq(Frags)
        BY <4>1, <4>2
      <4> HIDE DEF v
      <4> QED BY <4>2, <4>3, <4>4, <4>5
    <3> QED BY <3>1, <3>2
  <2>4. E(v, k + 1)
    BY <2>3
  <2> HIDE DEF v, E
  <2> QED BY <2>4
<1>4. PICK w : E(w, n)
  <2>1. n \in Nat
    BY <1>1 DEF Ranked
  <2>2. n \in S
    <3> HIDE DEF S
    <3>1. 0 .. n \subseteq S
      BY <2>1, <1>2, <1>3, Induction
    <3> QED BY <2>1, <3>1
  <2> QED BY <2>2
<1>5. D(n) = FN
  BY <1>1 DEF Ranked
<1> QED
  BY <1>4, <1>5, Zenon DEF WalkStep

\* A chain is its first fragment and the chain that follows it.
LEMMA ChainIs ==
  ASSUME NEW fr, Acyclic(fr)
  PROVE  /\ Chain(fr, Null) = <<>>
         /\ \A p \in Frags : Chain(fr, p) = <<p>> \o Chain(fr, fr[p].next)
<1> DEFINE walk == CHOOSE w : w = [q \in FN |-> IF q = Null THEN <<>> ELSE <<q>> \o w[fr[q].next]]
<1>1. \A p : Chain(fr, p) = walk[p]
  BY Zenon DEF Chain, FN
<1>2. walk = [q \in FN |-> IF q = Null THEN <<>> ELSE <<q>> \o walk[fr[q].next]]
  BY WalkExists, Zenon
<1> HIDE DEF walk
<1>3. walk[Null] = <<>>
  BY <1>2, NullAssumption, Zenon DEF FN
<1>4. \A p \in Frags : walk[p] = <<p>> \o walk[fr[p].next]
  BY <1>2, NullAssumption, Zenon DEF FN
<1> QED
  BY <1>1, <1>3, <1>4, Zenon

\* What is reached from p, in order, up to the end.
Path(fr, p, c) ==
    /\ c \in Seq(Frags)
    /\ At(c, 1) = p
    /\ \A i \in DOMAIN c : fr[c[i]].next = At(c, i + 1)

\* What is at a position of a chain; beyond its ends there is Null.
LEMMA AtType ==
  ASSUME NEW c \in Seq(Frags), NEW i \in Int
  PROVE  /\ At(c, i) \in FN
         /\ At(c, i) # Null <=> i \in 1 .. Len(c)
         /\ i \in 1 .. Len(c) => At(c, i) = c[i] /\ c[i] \in Frags
         /\ DOMAIN c = 1 .. Len(c) /\ Len(c) \in Nat
  BY NullAssumption DEF At, FN

\* A fragment put in front of the path that follows it is a path.
LEMMA PathCons ==
  ASSUME NEW fr, NEW p \in Frags, NEW d, Path(fr, fr[p].next, d)
  PROVE  Path(fr, p, <<p>> \o d)
<1> DEFINE c == <<p>> \o d
<1>1. /\ c \in Seq(Frags) /\ d \in Seq(Frags) /\ Len(c) = Len(d) + 1 /\ Len(d) \in Nat
      /\ c[1] = p /\ \A i \in 1 .. Len(d) : c[i + 1] = d[i]
  BY DEF Path
<1> HIDE DEF c
<1>2. At(c, 1) = p
  BY <1>1 DEF At
<1>3. \A i \in 1 .. Len(d) + 1 : At(c, i + 1) = At(d, i)
  BY <1>1 DEF At
<1>4. ASSUME NEW i \in DOMAIN c PROVE fr[c[i]].next = At(c, i + 1)
  <2>1. i \in 1 .. Len(d) + 1
    BY <1>1
  <2>2. CASE i = 1
    BY <2>2, <1>1, <1>3 DEF Path
  <2>3. CASE i # 1
    <3>1. i - 1 \in 1 .. Len(d) /\ i - 1 \in DOMAIN d /\ i = (i - 1) + 1
      BY <2>1, <2>3, <1>1
    <3>2. c[i] = d[i - 1]
      BY <3>1, <1>1
    <3>3. At(c, i + 1) = At(d, i)
      BY <1>3, <2>1
    <3>4. fr[d[i - 1]].next = At(d, (i - 1) + 1)
      BY <3>1 DEF Path
    <3> QED BY <3>1, <3>2, <3>3, <3>4
  <2> QED BY <2>2, <2>3
<1> QED
  BY <1>1, <1>2, <1>4 DEF Path, c

\* From Null nothing is reached.
LEMMA PathEmpty == ASSUME NEW fr PROVE Path(fr, Null, <<>>)
  BY DEF Path, At

\* The chain at a pointer is the path that starts there.
LEMMA ChainPath ==
  ASSUME NEW fr, Acyclic(fr), NEW p \in FN
  PROVE  Path(fr, p, Chain(fr, p))
<1>1. PICK n, r : Ranked(fr, n, r)
  BY DEF Acyclic
<1> DEFINE S == {k \in Nat : \A q \in FN : r[q] <= k => Path(fr, q, Chain(fr, q))}
<1>2. Chain(fr, Null) = <<>> /\ \A q \in Frags : Chain(fr, q) = <<q>> \o Chain(fr, fr[q].next)
  BY ChainIs
<1>3. 0 \in S
  <2>1. ASSUME NEW q \in FN, r[q] <= 0 PROVE q = Null
    BY <1>1, <2>1 DEF Ranked, FN
  <2> QED BY <2>1, <1>2, PathEmpty
<1>4. ASSUME NEW k \in Nat, k \in S PROVE k + 1 \in S
  <2> SUFFICES ASSUME NEW q \in FN, r[q] <= k + 1 PROVE Path(fr, q, Chain(fr, q))
    OBVIOUS
  <2>1. CASE q = Null
    BY <2>1, <1>2, PathEmpty
  <2>2. CASE q # Null
    <3>1. q \in Frags /\ fr[q].next \in FN /\ r[fr[q].next] <= k
      BY <2>2, <1>1 DEF Ranked, FN
    <3>2. Path(fr, fr[q].next, Chain(fr, fr[q].next))
      BY <3>1, <1>4
    <3> QED BY <3>1, <3>2, <1>2, PathCons
  <2> QED BY <2>1, <2>2
<1>5. n \in Nat /\ r[p] \in 0 .. n
  BY <1>1 DEF Ranked
<1>6. n \in S
  <2> HIDE DEF S
  <2>1. 0 .. n \subseteq S
    BY <1>5, <1>3, <1>4, Induction
  <2> QED BY <1>5, <2>1
<1> QED
  BY <1>5, <1>6

\* From a fragment there is one path: a fragment has one pointer.
LEMMA PathUnique ==
  ASSUME NEW fr, NEW p, NEW c, NEW d, Path(fr, p, c), Path(fr, p, d)
  PROVE  c = d
<1> DEFINE S == {k \in Nat : At(c, k + 1) = At(d, k + 1)}
<1>1. /\ c \in Seq(Frags) /\ Len(c) \in Nat /\ DOMAIN c = 1 .. Len(c)
      /\ d \in Seq(Frags) /\ Len(d) \in Nat /\ DOMAIN d = 1 .. Len(d)
  BY DEF Path
<1>2. 0 \in S
  BY DEF Path
<1>3. ASSUME NEW k \in Nat, k \in S PROVE k + 1 \in S
  <2>1. At(c, k + 1) = At(d, k + 1)
    BY <1>3
  <2>2. CASE At(c, k + 1) = Null
    BY <2>1, <2>2, <1>1, AtType
  <2>3. CASE At(c, k + 1) # Null
    <3>1. k + 1 \in DOMAIN c /\ k + 1 \in DOMAIN d /\ c[k + 1] = d[k + 1]
      BY <2>1, <2>3, <1>1, AtType
    <3>2. At(c, (k + 1) + 1) = At(d, (k + 1) + 1)
      BY <3>1 DEF Path
    <3> QED BY <3>2
  <2> QED BY <2>2, <2>3
<1>4. \A k \in 1 .. Len(c) + Len(d) + 1 : At(c, k) = At(d, k)
  <2> SUFFICES ASSUME NEW k \in 1 .. Len(c) + Len(d) + 1 PROVE At(c, k) = At(d, k)
    OBVIOUS
  <2>1. k - 1 \in Nat /\ k - 1 \in 0 .. k - 1 /\ (k - 1) + 1 = k
    BY <1>1
  <2>2. k - 1 \in S
    <3> HIDE DEF S
    <3> QED BY <2>1, <1>2, <1>3, Induction
  <2> QED BY <2>1, <2>2
<1>5. Len(c) = Len(d)
  <2>1. Len(c) \in Nat /\ Len(d) \in Nat
    BY <1>1
  <2>2. Len(c) + 1 \in 1 .. Len(c) + Len(d) + 1 /\ Len(d) + 1 \in 1 .. Len(c) + Len(d) + 1
    BY <2>1
  <2>3. At(c, Len(c) + 1) = Null /\ At(d, Len(d) + 1) = Null
    BY <2>1, <1>1, AtType
  <2>4. At(d, Len(c) + 1) = Null /\ At(c, Len(d) + 1) = Null
    BY <2>2, <2>3, <1>4
  <2>5. ~ (Len(c) + 1 \in 1 .. Len(d)) /\ ~ (Len(d) + 1 \in 1 .. Len(c))
    BY <2>4, <2>1, <1>1, AtType
  <2> QED BY <2>1, <2>5
<1>6. \A i \in 1 .. Len(c) : c[i] = d[i]
  BY <1>1, <1>4, <1>5 DEF At
<1> QED
  BY <1>1, <1>5, <1>6

\* So whatever is a path is the chain.
LEMMA ChainUnique ==
  ASSUME NEW fr, Acyclic(fr), NEW p \in FN, NEW c, Path(fr, p, c)
  PROVE  Chain(fr, p) = c
  BY ChainPath, PathUnique

\* No fragment comes twice in a chain.
LEMMA PathDistinct ==
  ASSUME NEW fr, Acyclic(fr), NEW p, NEW c, Path(fr, p, c)
  PROVE  \A i, j \in 1 .. Len(c) : i # j => c[i] # c[j]
<1>1. PICK n, r : Ranked(fr, n, r)
  BY DEF Acyclic
<1>2. c \in Seq(Frags) /\ Len(c) \in Nat /\ DOMAIN c = 1 .. Len(c)
  BY DEF Path
<1>3. \A i \in 1 .. Len(c) : r[c[i]] \in Nat
  BY <1>1, <1>2 DEF Ranked, FN
<1>4. \A i \in 1 .. Len(c) - 1 : r[c[i + 1]] < r[c[i]]
  <2> SUFFICES ASSUME NEW i \in 1 .. Len(c) - 1 PROVE r[c[i + 1]] < r[c[i]]
    OBVIOUS
  <2>1. i \in DOMAIN c /\ i + 1 \in DOMAIN c
    BY <1>2
  <2>2. fr[c[i]].next = c[i + 1] /\ c[i] \in Frags
    BY <2>1, <1>2 DEF Path, At
  <2> QED BY <2>2, <1>1 DEF Ranked
<1>5. ASSUME NEW i \in 1 .. Len(c), NEW j \in 1 .. Len(c), i < j PROVE r[c[j]] < r[c[i]]
  <2> DEFINE S == {k \in Nat : i + 1 + k <= Len(c) => r[c[i + 1 + k]] < r[c[i]]}
  <2>1. 0 \in S
    BY <1>2, <1>4
  <2>2. ASSUME NEW k \in Nat, k \in S PROVE k + 1 \in S
    <3> SUFFICES ASSUME i + 1 + (k + 1) <= Len(c) PROVE r[c[i + 1 + (k + 1)]] < r[c[i]]
      OBVIOUS
    <3>1. i + 1 + k \in 1 .. Len(c) - 1 /\ (i + 1 + k) + 1 = i + 1 + (k + 1)
      BY <1>2
    <3>2. r[c[i + 1 + k]] < r[c[i]]
      BY <2>2, <3>1
    <3>3. r[c[(i + 1 + k) + 1]] < r[c[i + 1 + k]]
      BY <3>1, <1>4
    <3>4. i + 1 + k \in 1 .. Len(c) /\ (i + 1 + k) + 1 \in 1 .. Len(c)
      BY <3>1, <1>2
    <3> QED BY <3>1, <3>2, <3>3, <3>4, <1>3
  <2>3. j - i - 1 \in S
    <3> HIDE DEF S
    <3> QED BY <1>5, <1>2, <2>1, <2>2, Induction
  <2> QED BY <2>3, <1>5, <1>2
<1> QED
  BY <1>2, <1>3, <1>5

\* The rest of a path is a path.
LEMMA PathSuffix ==
  ASSUME NEW fr, NEW p, NEW c, Path(fr, p, c), NEW i \in 1 .. Len(c) + 1
  PROVE  Path(fr, At(c, i), SubSeq(c, i, Len(c)))
<1> DEFINE d == SubSeq(c, i, Len(c))
<1>1. /\ c \in Seq(Frags) /\ Len(c) \in Nat /\ DOMAIN c = 1 .. Len(c) /\ i \in Nat
      /\ d \in Seq(Frags) /\ Len(d) = Len(c) - i + 1 /\ DOMAIN d = 1 .. Len(d)
      /\ \A k \in 1 .. Len(d) : d[k] = c[i + k - 1]
  BY DEF Path
<1> HIDE DEF d
<1>2. \A k \in 1 .. Len(d) + 1 : At(d, k) = At(c, i + k - 1)
  BY <1>1 DEF At
<1>3. At(d, 1) = At(c, i)
  BY <1>1, <1>2
<1>4. ASSUME NEW k \in DOMAIN d PROVE fr[d[k]].next = At(d, k + 1)
  <2>0. Len(c) \in Nat /\ Len(d) = Len(c) - i + 1 /\ i \in Nat /\ k \in 1 .. Len(d)
    BY <1>1
  <2>1. i + k - 1 \in DOMAIN c /\ (i + k - 1) + 1 = i + (k + 1) - 1 /\ k + 1 \in 1 .. Len(d) + 1
    <3>1. i + k - 1 \in 1 .. Len(c) /\ (i + k - 1) + 1 = i + (k + 1) - 1
      BY <2>0
    <3> QED BY <3>1, <2>0, <1>1
  <2>2. fr[c[i + k - 1]].next = At(c, (i + k - 1) + 1)
    BY <2>1 DEF Path
  <2> QED BY <2>1, <2>2, <1>1, <1>2
<1> QED
  BY <1>1, <1>3, <1>4 DEF Path, d

-----------------------------------------------------------------------------
(* Cutting and tying pointers.                                              *)

\* Resetting pointers makes no cycle.
LEMMA AcyclicCut ==
  ASSUME NEW fr, Acyclic(fr), NEW fs,
         \A f \in Frags : fs[f].next = fr[f].next \/ fs[f].next = Null
  PROVE  Acyclic(fs)
<1>1. PICK n, r : Ranked(fr, n, r)
  BY DEF Acyclic
<1> DEFINE q == [f \in FN |-> IF f = Null THEN 0 ELSE r[f] + 1]
<1>2. n + 1 \in Nat /\ q \in [FN -> 0 .. n + 1]
  BY <1>1 DEF Ranked
<1>3. ASSUME NEW f \in Frags PROVE fs[f].next \in FN /\ q[fs[f].next] < q[f]
  <2>1. f \in FN /\ f # Null /\ r[f] \in Nat /\ q[f] = r[f] + 1 /\ q[Null] = 0 /\ Null \in FN
    BY <1>1, NullAssumption DEF FN, Ranked
  <2>2. fr[f].next \in FN /\ r[fr[f].next] < r[f] /\ r[fr[f].next] \in Nat
    BY <1>1 DEF Ranked
  <2>3. q[fr[f].next] < q[f]
    BY <2>1, <2>2
  <2> QED BY <2>1, <2>2, <2>3
<1> HIDE DEF q
<1> QED
  BY <1>2, <1>3 DEF Acyclic, Ranked

\* What is reached from a pointer.
Reach(fr, p) == ToSet(Chain(fr, p))

\* What is reached from a fragment: itself, and what is reached from the next.
LEMMA ReachStep ==
  ASSUME NEW fr, Acyclic(fr)
  PROVE  /\ Reach(fr, Null) = {}
         /\ \A f \in Frags : Reach(fr, f) = {f} \cup Reach(fr, fr[f].next)
<1>1. Reach(fr, Null) = {}
  BY ChainIs DEF Reach, ToSet
<1>2. ASSUME NEW f \in Frags PROVE Reach(fr, f) = {f} \cup Reach(fr, fr[f].next)
  <2> DEFINE d == Chain(fr, fr[f].next)
             c == <<f>> \o d
  <2>1. Chain(fr, f) = c
    BY ChainIs
  <2>2. fr[f].next \in FN
    BY DEF Acyclic, Ranked
  <2>3. d \in Seq(Frags)
    BY <2>2, ChainPath DEF Path
  <2> HIDE DEF d
  <2>4. /\ c \in Seq(Frags) /\ DOMAIN c = 1 .. Len(d) + 1 /\ Len(d) \in Nat /\ DOMAIN d = 1 .. Len(d)
        /\ c[1] = f /\ \A i \in 1 .. Len(d) : c[i + 1] = d[i]
    BY <2>3
  <2> HIDE DEF c
  <2>5. ToSet(c) = {f} \cup ToSet(d)
    <3>1. ASSUME NEW g \in ToSet(c) PROVE g \in {f} \cup ToSet(d)
      <4>1. PICK i \in 1 .. Len(d) + 1 : g = c[i]
        BY <3>1, <2>4 DEF ToSet
      <4>2. CASE i = 1
        BY <4>1, <4>2, <2>4
      <4>3. CASE i # 1
        <5>1. i - 1 \in 1 .. Len(d) /\ (i - 1) + 1 = i
          BY <4>3, <2>4
        <5>2. g = d[i - 1]
          BY <5>1, <4>1, <2>4
        <5> QED BY <5>1, <5>2, <2>4 DEF ToSet
      <4> QED BY <4>2, <4>3
    <3>2. f \in ToSet(c)
      BY <2>4 DEF ToSet
    <3>3. ASSUME NEW g \in ToSet(d) PROVE g \in ToSet(c)
      <4>1. PICK i \in 1 .. Len(d) : g = d[i]
        BY <3>3, <2>4 DEF ToSet
      <4>2. i + 1 \in 1 .. Len(d) + 1 /\ g = c[i + 1]
        BY <4>1, <2>4
      <4> QED BY <4>2, <2>4 DEF ToSet
    <3> QED BY <3>1, <3>2, <3>3
  <2> QED BY <2>1, <2>5 DEF Reach, d
<1> QED
  BY <1>1, <1>2

\* A fragment may point to a chain it is not in.
LEMMA AcyclicTie ==
  ASSUME NEW fr, Acyclic(fr), NEW p \in Frags, NEW q \in FN, p \notin Reach(fr, q), NEW fs,
         fs[p].next = q, \A f \in Frags \ {p} : fs[f].next = fr[f].next
  PROVE  Acyclic(fs)
<1>1. PICK n, r : Ranked(fr, n, r)
  BY DEF Acyclic
<1> DEFINE u == [f \in FN |-> IF p \in Reach(fr, f) THEN r[f] + n + 1 ELSE r[f]]
<1>2. 2 * n + 1 \in Nat /\ u \in [FN -> 0 .. 2 * n + 1]
  BY <1>1 DEF Ranked
<1>3. ASSUME NEW f \in Frags PROVE fs[f].next \in FN /\ u[fs[f].next] < u[f]
  <2>1. /\ n \in Nat /\ f \in FN /\ fr[f].next \in FN /\ r[fr[f].next] < r[f]
        /\ \A g \in FN : r[g] \in 0 .. n
    BY <1>1 DEF Ranked, FN
  <2>2. Reach(fr, f) = {f} \cup Reach(fr, fr[f].next)
    BY ReachStep
  <2>3. CASE f = p
    <3>1. u[f] = r[f] + n + 1 /\ u[q] = r[q]
      BY <2>1, <2>2, <2>3
    <3> QED BY <3>1, <2>1, <2>3
  <2>4. CASE f # p
    <3>1. fs[f].next = fr[f].next /\ (p \in Reach(fr, f) <=> p \in Reach(fr, fr[f].next))
      BY <2>2, <2>4
    <3> QED BY <3>1, <2>1
  <2> QED BY <2>3, <2>4
<1> HIDE DEF u
<1> QED
  BY <1>2, <1>3 DEF Acyclic, Ranked

-----------------------------------------------------------------------------
(* Counting references.                                                     *)

\* How many of the pointers u show f.
Pointing(u, f) == Cardinality({s \in DOMAIN u : u[s] = f})
same(x, y) == IF x = y THEN 1 ELSE 0

\* One more pointer to what a pointer now shows, one fewer to what it showed before.
LEMMA Redirected ==
  ASSUME NEW S, IsFiniteSet(S), NEW T, NEW u \in [S -> T], NEW x \in S, NEW b, NEW f
  PROVE  /\ Pointing(u, f) \in Nat
         /\ Pointing([u EXCEPT ![x] = b], f) = Pointing(u, f) + same(f, b) - same(f, u[x])
<1> DEFINE v == [u EXCEPT ![x] = b]
           A == {s \in S \ {x} : u[s] = f}
<1>1. IsFiniteSet(A) /\ Cardinality(A) \in Nat
  <2>1. IsFiniteSet(A)
    BY FS_Subset, A \in SUBSET S
  <2> QED BY <2>1, FS_CardinalityType
<1>2. x \notin A
  OBVIOUS
<1>3. {s \in DOMAIN u : u[s] = f} = IF u[x] = f THEN A \cup {x} ELSE A
  OBVIOUS
<1>4. {s \in DOMAIN v : v[s] = f} = IF b = f THEN A \cup {x} ELSE A
  OBVIOUS
<1> HIDE DEF A, v
<1>5. Cardinality(A \cup {x}) = Cardinality(A) + 1
  BY <1>1, <1>2, FS_AddElement
<1>6. Pointing(u, f) = Cardinality(A) + same(f, u[x])
  BY <1>3, <1>5, <1>1 DEF Pointing, same
<1>7. Pointing(v, f) = Cardinality(A) + same(f, b)
  <2> DEFINE B == {s \in DOMAIN v : v[s] = f}
  <2>1. B = IF b = f THEN A \cup {x} ELSE A
    BY <1>4
  <2> HIDE DEF B
  <2>2. Cardinality(B) = Cardinality(A) + same(f, b)
    BY <2>1, <1>5, <1>1 DEF same
  <2> QED BY <2>2 DEF Pointing, B
<1>8. same(f, u[x]) \in {0, 1} /\ same(f, b) \in {0, 1}
  BY DEF same
<1> QED
  BY <1>1, <1>6, <1>7, <1>8 DEF v

\* Nothing points to a fragment exactly if the count is 0.
LEMMA PointingNone ==
  ASSUME NEW S, IsFiniteSet(S), NEW T, NEW u \in [S -> T], NEW f
  PROVE  /\ Pointing(u, f) \in Nat
         /\ Pointing(u, f) = 0 <=> \A s \in S : u[s] # f
<1> DEFINE A == {s \in DOMAIN u : u[s] = f}
<1>1. IsFiniteSet(A)
  BY FS_Subset, A \in SUBSET S
<1>2. A = {} <=> \A s \in S : u[s] # f
  OBVIOUS
<1> HIDE DEF A
<1>3. Cardinality(A) \in Nat /\ (Cardinality(A) = 0 <=> A = {})
  BY <1>1, FS_CardinalityType, FS_EmptySet
<1> QED
  BY <1>2, <1>3 DEF Pointing, A

\* Heaps, and the pointers in them.
Heap(fr)    == fr \in [Frags -> FragType]
nexts(fr)   == [g \in Frags |-> fr[g].next]

\* The references to f that are not those of fragments.
Refs(fr, f) == fr[f].refcnt - Pointing(nexts(fr), f)

\* What is not allocated is blank.
Tidy(fr) == \A f \in Frags : fr[f].refcnt = 0 => fr[f] = Blank

\* No fragment has fewer references than fragments that point to it.
Sound(fr) ==
    /\ Heap(fr) /\ Acyclic(fr) /\ Tidy(fr)
    /\ \A f \in Frags : Refs(fr, f) >= 0

\* A fragment that is not allocated has the type of a fragment.
LEMMA BlankType == Blank \in FragType
  BY DEF Blank, FragType

\* The pointers of a heap, and how many of them show a fragment.
LEMMA NextsType ==
  ASSUME NEW fr, Heap(fr)
  PROVE  /\ nexts(fr) \in [Frags -> FN]
         /\ \A f : Pointing(nexts(fr), f) \in Nat
         /\ \A f : Pointing(nexts(fr), f) = 0 <=> \A g \in Frags : fr[g].next # f
<1>1. nexts(fr) \in [Frags -> FN]
  BY DEF nexts, Heap, FragType, FN
<1>2. \A f : /\ Pointing(nexts(fr), f) \in Nat
             /\ Pointing(nexts(fr), f) = 0 <=> \A g \in Frags : nexts(fr)[g] # f
  BY <1>1, PointingNone, FiniteAssumption
<1>3. \A g \in Frags : nexts(fr)[g] = fr[g].next
  BY DEF nexts
<1> QED
  BY <1>1, <1>2, <1>3

\* The pointer of g is set to b.
tie(fr, g, b) == [fr EXCEPT ![g].next = b]

\* Tying a fragment to another moves one reference, and changes nothing else.
LEMMA Tie ==
  ASSUME NEW fr, Heap(fr), NEW g \in Frags, NEW b \in FN
  PROVE  /\ Heap(tie(fr, g, b))
         /\ tie(fr, g, b)[g].next = b /\ tie(fr, g, b)[g].refcnt = fr[g].refcnt
         /\ \A f \in Frags \ {g} : tie(fr, g, b)[f] = fr[f]
         /\ \A f \in Frags : Refs(tie(fr, g, b), f) = Refs(fr, f) - same(f, b) + same(f, fr[g].next)
<1> DEFINE fs == tie(fr, g, b)
<1>1. /\ Heap(fs) /\ fs[g] = [fr[g] EXCEPT !.next = b] /\ \A f \in Frags \ {g} : fs[f] = fr[f]
      /\ \A f \in Frags : fs[f].refcnt = fr[f].refcnt /\ fr[f].refcnt \in Nat
      /\ fs[g].next = b
  BY DEF Heap, FragType, FN, tie
<1> HIDE DEF fs
<1>2. nexts(fr) \in [Frags -> FN] /\ nexts(fs) = [nexts(fr) EXCEPT ![g] = b] /\ nexts(fr)[g] = fr[g].next
  <2>1. \A f \in Frags : fs[f].next = IF f = g THEN b ELSE fr[f].next
    BY <1>1
  <2>2. nexts(fr) \in [Frags -> FN]
    BY NextsType
  <2>3. nexts(fs) = [nexts(fr) EXCEPT ![g] = b]
    BY <2>1 DEF nexts
  <2> QED BY <2>2, <2>3 DEF nexts
<1>3. ASSUME NEW f \in Frags PROVE Refs(fs, f) = Refs(fr, f) - same(f, b) + same(f, fr[g].next)
  <2>1. /\ Pointing(nexts(fr), f) \in Nat
        /\ Pointing(nexts(fs), f) = Pointing(nexts(fr), f) + same(f, b) - same(f, nexts(fr)[g])
    <3>1. IsFiniteSet(Frags)
      BY FiniteAssumption
    <3>2. nexts(fr) \in [Frags -> FN]
      BY <1>2
    <3>3. /\ Pointing(nexts(fr), f) \in Nat
          /\ Pointing([nexts(fr) EXCEPT ![g] = b], f)
               = Pointing(nexts(fr), f) + same(f, b) - same(f, nexts(fr)[g])
      BY <3>1, <3>2, Redirected
    <3> QED BY <3>3, <1>2
  <2>2. same(f, b) \in {0, 1} /\ same(f, fr[g].next) \in {0, 1}
    BY DEF same
  <2> QED BY <1>1, <1>2, <2>1, <2>2 DEF Refs
<1> QED
  BY <1>1, <1>3 DEF fs

\* A reference to the first keeps all fragments of a chain.
LEMMA PathLive ==
  ASSUME NEW fr, Sound(fr), NEW p \in Frags, Refs(fr, p) >= 1, NEW c, Path(fr, p, c)
  PROVE  \A i \in 1 .. Len(c) : fr[c[i]].refcnt >= 1
<1> SUFFICES ASSUME NEW i \in 1 .. Len(c) PROVE fr[c[i]].refcnt >= 1
  OBVIOUS
<1>1. Heap(fr) /\ c \in Seq(Frags) /\ DOMAIN c = 1 .. Len(c) /\ Len(c) \in Nat /\ i \in Nat
  BY DEF Sound, Path
<1>2. c[i] \in Frags /\ Pointing(nexts(fr), c[i]) \in Nat /\ Refs(fr, c[i]) >= 0
  BY <1>1, NextsType DEF Sound
<1>3. fr[c[i]].refcnt \in Nat
  BY <1>1, <1>2 DEF Heap, FragType
<1>4. CASE i = 1
  <2>1. c[1] = p
    BY <1>1, <1>4 DEF Path, At
  <2> QED BY <2>1, <1>2, <1>3, <1>4 DEF Refs
<1>5. CASE i # 1
  <2>1. i - 1 \in 1 .. Len(c) /\ (i - 1) + 1 = i
    BY <1>5, <1>1
  <2>2. fr[c[i - 1]].next = c[i] /\ c[i - 1] \in Frags
    BY <2>1, <1>1 DEF Path, At
  <2>3. Pointing(nexts(fr), c[i]) # 0
    BY <2>2, <1>1, NextsType
  <2> QED BY <2>3, <1>2, <1>3 DEF Refs
<1> QED
  BY <1>4, <1>5

\* One reference is given up.
fewer(r) == [r EXCEPT !.refcnt = @ - 1]

\* gabs_pbuf_decref gives up one reference, to the fragment it is called for.
LEMMA DecrefSound ==
  ASSUME NEW fr, Sound(fr), NEW p \in Frags, Refs(fr, p) >= 1
  PROVE  LET fs == decref(fr, p) IN
         /\ Sound(fs)
         /\ \A f \in Frags : Refs(fs, f) = Refs(fr, f) - same(f, p)
         /\ \A f \in Frags \ Reach(fr, p) : fs[f] = fr[f]
         /\ \A f \in Frags : \/ fs[f] = fr[f]
                             \/ fs[f] = Blank
                             \/ fr[f].refcnt > 1 /\ fs[f] = fewer(fr[f])
<1> DEFINE fs == decref(fr, p)
           c == Chain(fr, p)
           I == {i \in DOMAIN c : \A j \in 1 .. i - 1 : fr[c[j]].refcnt = 1}
           S == {c[i] : i \in I}
<1>1. Heap(fr) /\ Acyclic(fr) /\ Tidy(fr)
  BY DEF Sound
<1>2. /\ Path(fr, p, c) /\ c \in Seq(Frags) /\ DOMAIN c = 1 .. Len(c) /\ Len(c) \in Nat
      /\ \A i, j \in 1 .. Len(c) : i # j => c[i] # c[j]
  <2>1. p \in FN
    BY DEF FN
  <2>2. Path(fr, p, c)
    BY <1>1, <2>1, ChainPath
  <2> QED BY <2>2, <1>1, PathDistinct DEF Path
<1>3. Reach(fr, p) = {c[i] : i \in 1 .. Len(c)}
  BY <1>2 DEF Reach, ToSet
<1>4. fs = Unref(fr, S)
  BY DEF decref
<1> HIDE DEF c, fs
<1>5. Len(c) >= 1 /\ c[1] = p /\ \A i \in 1 .. Len(c) : c[i] \in Frags /\ fr[c[i]].next = At(c, i + 1)
  BY <1>2, NullAssumption DEF Path, At
<1>6. S \subseteq Reach(fr, p) /\ p \in S /\ Reach(fr, p) \subseteq Frags
  BY <1>2, <1>3, <1>5
<1>7. \A f \in Frags : fr[f].refcnt \in Nat /\ fr[f].next \in FN
  BY <1>1 DEF Heap, FragType, FN
<1>8. \A f \in Reach(fr, p) : fr[f].refcnt >= 1
  BY <1>2, <1>3, PathLive
<1>9. /\ \A f \in Frags \ S : fs[f] = fr[f]
      /\ \A f \in S : fr[f].refcnt = 1 => fs[f] = Blank
      /\ \A f \in S : fr[f].refcnt # 1 => fr[f].refcnt > 1 /\ fs[f] = fewer(fr[f])
  <2> HIDE DEF S
  <2> QED BY <1>4, <1>6, <1>7, <1>8 DEF Unref, fewer
<1>10. Heap(fs)
  <2>1. \A f \in Frags : fs[f] \in FragType
    <3> SUFFICES ASSUME NEW f \in Frags PROVE fs[f] \in FragType
      OBVIOUS
    <3>1. fr[f] \in FragType
      BY <1>1 DEF Heap
    <3>2. ASSUME fr[f].refcnt > 1 PROVE fewer(fr[f]) \in FragType
      BY <3>1, <3>2 DEF FragType, fewer
    <3> HIDE DEF S
    <3> QED BY <1>9, <3>1, <3>2, BlankType
  <2>2. fs = [f \in Frags |-> fs[f]]
    BY <1>4 DEF Unref
  <2> QED BY <2>1, <2>2 DEF Heap
<1>11. /\ \A f \in Frags \ S : fs[f].next = fr[f].next /\ fs[f].refcnt = fr[f].refcnt
       /\ \A f \in S : /\ fs[f].refcnt = fr[f].refcnt - 1
                       /\ fs[f].next = IF fr[f].refcnt = 1 THEN Null ELSE fr[f].next
  <2> HIDE DEF S
  <2>1. ASSUME NEW f \in S
        PROVE  /\ fs[f].refcnt = fr[f].refcnt - 1
               /\ fs[f].next = IF fr[f].refcnt = 1 THEN Null ELSE fr[f].next
    <3>1. fr[f] \in FragType
      BY <1>1, <1>6 DEF Heap
    <3>2. CASE fr[f].refcnt = 1
      BY <3>2, <1>9 DEF Blank
    <3>3. CASE fr[f].refcnt # 1
      BY <3>1, <3>3, <1>9 DEF FragType, fewer
    <3> QED BY <3>2, <3>3
  <2> QED BY <1>9, <2>1
<1>12. Acyclic(fs)
  BY <1>11, <1>1, AcyclicCut
<1>13. ASSUME NEW f \in Frags PROVE Refs(fs, f) = Refs(fr, f) - same(f, p)
  <2> DEFINE A == {g \in Frags : fr[g].next = f}
             B == {g \in Frags : fs[g].next = f}
  <2>1. Pointing(nexts(fr), f) = Cardinality(A) /\ Pointing(nexts(fs), f) = Cardinality(B)
    BY DEF Pointing, nexts
  <2>2. IsFiniteSet(A) /\ Cardinality(A) \in Nat
    BY FiniteAssumption, FS_Subset, FS_CardinalityType, A \in SUBSET Frags
  <2>3. ASSUME NEW g \in Frags, fr[g].next = f, fs[g].next # f
        PROVE  \E i \in 1 .. Len(c) - 1 : i \in I /\ i + 1 \in I /\ c[i] = g /\ c[i + 1] = f
    <3>1. g \in S /\ fr[g].refcnt = 1
      BY <2>3, <1>11
    <3>2. PICK i \in I : g = c[i]
      BY <3>1
    <3>3. i \in 1 .. Len(c) /\ At(c, i + 1) = f /\ f # Null
      BY <3>2, <1>2, <1>5, <2>3, NullAssumption
    <3>4. i + 1 \in 1 .. Len(c) /\ c[i + 1] = f
      BY <3>3, <1>2 DEF At
    <3>5. \A j \in 1 .. i : fr[c[j]].refcnt = 1
      BY <3>1, <3>2, <1>2
    <3>6. i + 1 \in I
      BY <3>4, <3>5, <1>2
    <3> QED BY <3>2, <3>3, <3>4, <3>6
  <2>4. B \subseteq A
    BY <1>11, NullAssumption
  <2>5. CASE f \in S /\ f # p
    <3>1. PICK k \in I : f = c[k]
      BY <2>5
    <3>2. k \in 1 .. Len(c) /\ k # 1
      BY <3>1, <2>5, <1>5, <1>2
    <3> DEFINE g == c[k - 1]
    <3>3. k - 1 \in 1 .. Len(c) /\ (k - 1) + 1 = k /\ k - 1 \in 1 .. k - 1
      BY <3>2, <1>2
    <3>4. k - 1 \in I /\ fr[g].refcnt = 1
      BY <3>1, <3>3, <1>2
    <3>5. g \in S /\ g \in Frags /\ fr[g].next = f
      BY <3>1, <3>2, <3>3, <3>4, <1>5, <1>2 DEF At
    <3>6. g \in A /\ g \notin B
      BY <3>4, <3>5, <1>11, NullAssumption
    <3>7. ASSUME NEW e \in A, e \notin B PROVE e = g
      <4>1. PICK i \in 1 .. Len(c) - 1 : c[i] = e /\ c[i + 1] = f
        BY <3>7, <2>3
      <4>2. i + 1 \in 1 .. Len(c) /\ i \in 1 .. Len(c)
        BY <1>2
      <4>3. i + 1 = k
        BY <4>1, <4>2, <3>1, <3>2, <1>2
      <4> QED BY <4>1, <4>3, <3>3
    <3>8. B = A \ {g}
      BY <3>6, <3>7, <2>4
    <3> HIDE DEF A, B, g
    <3>9. Cardinality(B) = Cardinality(A) - 1
      BY <3>6, <3>8, <2>2, FS_RemoveElement
    <3> QED BY <3>9, <2>1, <2>2, <2>5, <1>11, <1>7 DEF Refs, same
  <2>6. CASE f = p
    <3>1. \A i \in 1 .. Len(c) - 1 : c[i + 1] # p
      BY <1>5, <1>2
    <3>2. B = A
      BY <3>1, <2>3, <2>4, <2>6
    <3> HIDE DEF A, B, S
    <3> QED BY <3>2, <2>1, <2>2, <2>6, <1>6, <1>7, <1>11 DEF Refs, same
  <2>7. CASE f \notin S
    <3>1. B = A
      BY <2>3, <2>4, <2>7
    <3> HIDE DEF A, B, S
    <3> QED BY <3>1, <2>1, <2>2, <2>7, <1>6, <1>7, <1>11 DEF Refs, same
  <2> QED BY <2>5, <2>6, <2>7
<1>14. Tidy(fs)
  <2> HIDE DEF S
  <2> QED BY <1>1, <1>9, <1>11, <1>6, <1>7 DEF Tidy
<1>15. \A f \in Frags : Refs(fs, f) >= 0
  <2> SUFFICES ASSUME NEW f \in Frags PROVE Refs(fs, f) >= 0
    OBVIOUS
  <2>1. Refs(fr, f) \in Int /\ Refs(fr, f) >= 0 /\ same(f, p) = IF f = p THEN 1 ELSE 0
    BY <1>1, <1>7, NextsType DEF Refs, Sound, same
  <2> QED BY <2>1, <1>13
<1> QED
  <2>1. Sound(fs)
    BY <1>10, <1>12, <1>14, <1>15 DEF Sound
  <2> HIDE DEF S
  <2>2. ASSUME NEW f \in Frags
        PROVE  \/ fs[f] = fr[f]
               \/ fs[f] = Blank
               \/ fr[f].refcnt > 1 /\ fs[f] = fewer(fr[f])
    BY <1>9
  <2>3. \A f \in Frags \ Reach(fr, p) : fs[f] = fr[f]
    BY <1>6, <1>9
  <2> QED BY <2>1, <2>2, <2>3, <1>13 DEF fs

-----------------------------------------------------------------------------
(* What the operations do to the references.                                *)

\* What is left of the fragments sees what it saw.
Keeps(fr, fs) ==
    \A f \in Frags : fs[f].refcnt > 0 =>
       /\ fr[f].refcnt > 0
       /\ fs[f].mem = fr[f].mem /\ fs[f].base = fr[f].base /\ fs[f].cap = fr[f].cap
       /\ fs[f].data = fr[f].data /\ fs[f].size = fr[f].size

\* Keeping what is seen is transitive.
LEMMA KeepsTrans ==
  ASSUME NEW fr, NEW fs, NEW ft, Keeps(fr, fs), Keeps(fs, ft)
  PROVE  Keeps(fr, ft)
  BY DEF Keeps

\* What gabs_pbuf_decref leaves allocated sees what it saw.
LEMMA DecrefKeeps ==
  ASSUME NEW fr, Sound(fr), NEW p \in Frags, Refs(fr, p) >= 1
  PROVE  Keeps(fr, decref(fr, p))
<1> DEFINE fs == decref(fr, p)
<1> SUFFICES ASSUME NEW f \in Frags, fs[f].refcnt > 0
             PROVE  /\ fr[f].refcnt > 0
                    /\ fs[f].mem = fr[f].mem /\ fs[f].base = fr[f].base /\ fs[f].cap = fr[f].cap
                    /\ fs[f].data = fr[f].data /\ fs[f].size = fr[f].size
  BY DEF Keeps
<1>1. \/ fs[f] = fr[f]
      \/ fs[f] = Blank
      \/ fr[f].refcnt > 1 /\ fs[f] = fewer(fr[f])
  BY DecrefSound
<1>2. fr[f] \in FragType
  BY DEF Sound, Heap
<1> HIDE DEF fs
<1>3. CASE fs[f] = Blank
  BY <1>3 DEF Blank
<1>4. CASE fr[f].refcnt > 1 /\ fs[f] = fewer(fr[f])
  BY <1>2, <1>4 DEF FragType, fewer
<1> QED
  BY <1>1, <1>3, <1>4

\* So does what is tied to another.
LEMMA TieKeeps ==
  ASSUME NEW fr, Heap(fr), NEW g \in Frags, NEW b \in FN
  PROVE  Keeps(fr, tie(fr, g, b))
  BY DEF Heap, FragType, Keeps, tie

\* Tying only what is allocated leaves the free fragments blank.
LEMMA TieTidy ==
  ASSUME NEW fr, Heap(fr), Tidy(fr), NEW g \in Frags, NEW b \in FN, fr[g].refcnt > 0 \/ b = Null
  PROVE  Tidy(tie(fr, g, b))
<1> DEFINE fs == tie(fr, g, b)
<1> SUFFICES ASSUME NEW f \in Frags, fs[f].refcnt = 0 PROVE fs[f] = Blank
  BY DEF Tidy
<1>1. /\ fs[g].refcnt = fr[g].refcnt
      /\ \A e \in Frags \ {g} : fs[e] = fr[e]
  BY Tie
<1>2. CASE f = g
  <2>1. b = Null /\ fr[g] = Blank
    BY <1>1, <1>2 DEF Tidy
  <2>2. fr[g] \in FragType
    BY DEF Heap
  <2>3. fr[g].next = Null
    BY <2>1 DEF Blank
  <2>4. fs[g] = [fr[g] EXCEPT !.next = Null]
    BY <2>1 DEF Heap, tie
  <2>5. fs[g] = fr[g]
    BY <2>2, <2>3, <2>4 DEF FragType
  <2> QED BY <1>2, <2>1, <2>5
<1> HIDE DEF fs
<1> QED
  BY <1>1, <1>2 DEF Tidy

\* A fragment lets go of the next: the reference is in somebody's hand.
LEMMA CutSound ==
  ASSUME NEW fr, Sound(fr), NEW g \in Frags
  PROVE  /\ Sound(tie(fr, g, Null)) /\ Keeps(fr, tie(fr, g, Null))
         /\ \A f \in Frags : Refs(tie(fr, g, Null), f) = Refs(fr, f) + same(f, fr[g].next)
         /\ \A f \in Frags \ {g} : tie(fr, g, Null)[f] = fr[f]
         /\ Chain(tie(fr, g, Null), g) = <<g>>
<1> DEFINE fs == tie(fr, g, Null)
<1>1. Heap(fr) /\ Acyclic(fr) /\ Tidy(fr) /\ Null \in FN /\ g \in FN
  BY DEF Sound, FN
<1>2. /\ Heap(fs) /\ fs[g].next = Null
      /\ \A f \in Frags \ {g} : fs[f] = fr[f]
      /\ \A f \in Frags : Refs(fs, f) = Refs(fr, f) - same(f, Null) + same(f, fr[g].next)
  BY <1>1, Tie
<1>3. Acyclic(fs)
  BY <1>1, <1>2, AcyclicCut
<1>4. Tidy(fs)
  BY <1>1, TieTidy
<1>5. ASSUME NEW f \in Frags
      PROVE  Refs(fs, f) = Refs(fr, f) + same(f, fr[g].next) /\ Refs(fs, f) >= 0
  <2>1. same(f, Null) = 0 /\ same(f, fr[g].next) \in {0, 1}
    BY NullAssumption DEF same
  <2>2. Refs(fr, f) \in Int /\ Refs(fr, f) >= 0
    <3>1. fr[f].refcnt \in Nat
      BY <1>1 DEF Heap, FragType
    <3> QED BY <3>1, <1>1, NextsType DEF Refs, Sound
  <2>3. Refs(fs, f) = Refs(fr, f) - same(f, Null) + same(f, fr[g].next)
    BY <1>2
  <2> QED BY <2>1, <2>2, <2>3
<1>6. Chain(fs, g) = <<g>>
  <2>1. Chain(fs, g) = <<g>> \o Chain(fs, Null) /\ Chain(fs, Null) = <<>>
    BY <1>2, <1>3, ChainIs
  <2> QED BY <2>1
<1>7. Keeps(fr, fs)
  BY <1>1, TieKeeps
<1> HIDE DEF fs
<1> QED
  BY <1>2, <1>3, <1>4, <1>5, <1>6, <1>7 DEF Sound, fs

\* A fragment may skip the next.
LEMMA SkipAcyclic ==
  ASSUME NEW fr, Heap(fr), Acyclic(fr), NEW g \in Frags, fr[g].next \in Frags
  PROVE  Acyclic(tie(fr, g, fr[fr[g].next].next))
<1>1. PICK n, r : Ranked(fr, n, r)
  BY DEF Acyclic
<1> DEFINE b  == fr[fr[g].next].next
           fs == tie(fr, g, b)
<1>2. /\ r \in [FN -> 0 .. n] /\ n \in Nat /\ g \in FN /\ fr[g].next \in FN /\ b \in FN
      /\ \A f \in Frags : fr[f].next \in FN /\ r[fr[f].next] < r[f]
  BY <1>1 DEF Ranked, FN
<1>3. r[b] < r[g]
  BY <1>2
<1> HIDE DEF b
<1>4. fs[g].next = b /\ \A f \in Frags \ {g} : fs[f] = fr[f]
  BY <1>2, Tie
<1> HIDE DEF fs
<1>5. \A f \in Frags : fs[f].next \in FN /\ r[fs[f].next] < r[f]
  BY <1>2, <1>3, <1>4
<1> QED
  BY <1>2, <1>5 DEF Acyclic, Ranked, fs, b

\* The heap before gabs_pbuf_ci_remove releases the i-th fragment of c.
takenOut(fr, c, i) ==
    tie(IF i = 1 THEN fr ELSE tie(fr, c[i - 1], fr[c[i]].next), c[i], Null)

\* Out of the chain, a fragment has the reference of its predecessor to give up.
LEMMA TakenOutSound ==
  ASSUME NEW fr, Sound(fr), NEW p \in Frags, Refs(fr, p) >= 1, NEW c, Path(fr, p, c),
         NEW i \in 1 .. Len(c)
  PROVE  LET d == takenOut(fr, c, i) IN
         /\ c[i] \in Frags
         /\ Sound(d) /\ Keeps(fr, d) /\ Refs(d, c[i]) >= 1 /\ d[c[i]].next = Null
         /\ \A f \in Frags : Refs(d, f) = Refs(fr, f)
              + IF i = 1 THEN same(f, fr[p].next) ELSE same(f, c[i])
         /\ \A f \in Frags \ ({c[i]} \cup IF i = 1 THEN {} ELSE {c[i - 1]}) : d[f] = fr[f]
<1> DEFINE b == IF i = 1 THEN fr ELSE tie(fr, c[i - 1], fr[c[i]].next)
           d == tie(b, c[i], Null)
<1>1. /\ Heap(fr) /\ Acyclic(fr) /\ Tidy(fr)
      /\ c \in Seq(Frags) /\ Len(c) \in Nat /\ DOMAIN c = 1 .. Len(c)
      /\ \A j \in 1 .. Len(c) : c[j] \in Frags /\ fr[c[j]].refcnt >= 1 /\ fr[c[j]].next = At(c, j + 1)
      /\ c[1] = p
  <2>1. c \in Seq(Frags) /\ Len(c) \in Nat /\ DOMAIN c = 1 .. Len(c) /\ At(c, 1) = p
    BY DEF Path
  <2>2. \A j \in 1 .. Len(c) : c[j] \in Frags /\ fr[c[j]].next = At(c, j + 1)
    BY <2>1 DEF Path
  <2>3. \A j \in 1 .. Len(c) : fr[c[j]].refcnt >= 1
    BY PathLive
  <2>4. c[1] = p
    BY <2>1, NullAssumption DEF At
  <2> QED BY <2>1, <2>2, <2>3, <2>4 DEF Sound
<1>2. takenOut(fr, c, i) = d
  BY DEF takenOut
<1>3. c[i] \in Frags /\ fr[c[i]].next \in FN /\ fr[c[i]].refcnt >= 1
  BY <1>1 DEF Acyclic, Ranked
<1>4. \A f \in Frags : Refs(fr, f) \in Nat
  <2>1. \A f \in Frags : fr[f].refcnt \in Nat
    BY <1>1 DEF Heap, FragType
  <2> QED BY <2>1, <1>1, NextsType DEF Refs, Sound
<1>5. CASE i = 1
  <2>1. b = fr /\ c[i] = p
    BY <1>1, <1>5
  <2>2. /\ Sound(d) /\ Keeps(fr, d)
        /\ \A f \in Frags : Refs(d, f) = Refs(fr, f) + same(f, fr[p].next)
        /\ \A f \in Frags \ {p} : d[f] = fr[f]
    BY <2>1, CutSound
  <2>3. Refs(d, p) >= 1
    BY <2>2, <1>4 DEF same
  <2>4. d[p].next = Null
    <3>1. d = tie(fr, p, Null) /\ Null \in FN
      BY <2>1 DEF FN
    <3>2. tie(fr, p, Null)[p].next = Null
      BY <1>1, <3>1, Tie
    <3> QED BY <3>1, <3>2
  <2> HIDE DEF d
  <2> QED BY <2>1, <2>2, <2>3, <2>4, <1>2, <1>5
<1>6. CASE i # 1
  <2> DEFINE g == c[i - 1]
  <2>1. /\ i - 1 \in 1 .. Len(c) /\ (i - 1) + 1 = i /\ g \in Frags /\ fr[g].refcnt >= 1
        /\ fr[g].next = c[i] /\ g # c[i]
    <3>1. i - 1 \in 1 .. Len(c) /\ (i - 1) + 1 = i
      BY <1>6, <1>1
    <3>2. g # c[i]
      <4>1. \A j, k \in 1 .. Len(c) : j # k => c[j] # c[k]
        BY <1>1, PathDistinct
      <4> QED BY <4>1, <3>1, <1>6
    <3>3. At(c, i) = c[i]
      BY <1>1 DEF At
    <3> QED BY <3>1, <3>2, <3>3, <1>1
  <2> HIDE DEF g
  <2>2. b = tie(fr, g, fr[c[i]].next)
    BY <1>6 DEF g
  <2> HIDE DEF b
  <2>3. /\ Heap(b) /\ b[g].next = fr[c[i]].next /\ b[g].refcnt = fr[g].refcnt
        /\ \A f \in Frags \ {g} : b[f] = fr[f]
        /\ \A f \in Frags : Refs(b, f) = Refs(fr, f) - same(f, fr[c[i]].next) + same(f, c[i])
    <3> DEFINE a == fr[c[i]].next
               v == tie(fr, g, a)
    <3>1. a \in FN /\ g \in Frags /\ Heap(fr) /\ fr[g].next = c[i]
      BY <2>1, <1>1, <1>3
    <3> HIDE DEF a
    <3>2. /\ Heap(v) /\ v[g].next = a /\ v[g].refcnt = fr[g].refcnt
          /\ \A f \in Frags \ {g} : v[f] = fr[f]
          /\ \A f \in Frags : Refs(v, f) = Refs(fr, f) - same(f, a) + same(f, fr[g].next)
      BY <3>1, Tie
    <3> HIDE DEF v
    <3>3. b = v
      BY <2>2 DEF v, a
    <3> QED BY <3>1, <3>2, <3>3 DEF a
  <2>4. Acyclic(b)
    BY <2>1, <2>2, <1>1, <1>3, SkipAcyclic
  <2>5. Tidy(b) /\ Keeps(fr, b)
    <3>1. fr[g].refcnt > 0
      BY <2>1, <1>1 DEF Heap, FragType
    <3> QED BY <3>1, <2>1, <2>2, <1>1, <1>3, TieTidy, TieKeeps
  <2>6. b[c[i]].next = fr[c[i]].next /\ Null \in FN
    BY <2>3, <2>1, <1>3 DEF FN
  <2>7. /\ Heap(d) /\ d[c[i]].next = Null
        /\ \A f \in Frags \ {c[i]} : d[f] = b[f]
        /\ \A f \in Frags : Refs(d, f) = Refs(b, f) - same(f, Null) + same(f, b[c[i]].next)
    BY <2>3, <2>6, <1>3, Tie
  <2>8. Tidy(d) /\ Keeps(b, d)
    BY <2>3, <2>5, <2>6, <1>3, TieTidy, TieKeeps
  <2> HIDE DEF d
  <2>9. \A f \in Frags : Refs(d, f) = Refs(fr, f) + same(f, c[i])
    <3> SUFFICES ASSUME NEW f \in Frags PROVE Refs(d, f) = Refs(fr, f) + same(f, c[i])
      OBVIOUS
    <3>1. same(f, Null) = 0 /\ same(f, fr[c[i]].next) \in {0, 1} /\ same(f, c[i]) \in {0, 1}
      BY NullAssumption DEF same
    <3> QED BY <3>1, <2>3, <2>6, <2>7, <1>4
  <2>10. Acyclic(d)
    BY <2>4, <2>7, AcyclicCut
  <2>11. Sound(d) /\ Refs(d, c[i]) >= 1
    BY <2>7, <2>8, <2>9, <2>10, <1>3, <1>4 DEF Sound, same
  <2>12. \A f \in Frags \ {c[i], g} : d[f] = fr[f]
    BY <2>3, <2>7
  <2>13. Keeps(fr, d)
    BY <2>5, <2>8, KeepsTrans
  <2> QED BY <1>3, <2>7, <2>9, <2>11, <2>12, <2>13, <1>2, <1>6 DEF g
<1> QED
  BY <1>5, <1>6

\* The i-th fragment is taken out: the reference its handle had to it, if it is the
\* first, goes to the next.
LEMMA RemoveSound ==
  ASSUME NEW fr, Sound(fr), NEW p \in Frags, Refs(fr, p) >= 1, NEW c, Path(fr, p, c),
         NEW i \in 1 .. Len(c)
  PROVE  LET fs == ci_remove(fr, c, i) IN
         /\ Sound(fs) /\ Keeps(fr, fs)
         /\ \A f \in Frags : Refs(fs, f) = Refs(fr, f)
              + IF i = 1 THEN same(f, fr[p].next) - same(f, p) ELSE 0
         /\ \A f \in Frags \ ({c[i]} \cup IF i = 1 THEN {} ELSE {c[i - 1]}) : fs[f] = fr[f]
<1> DEFINE fs == ci_remove(fr, c, i)
           d  == takenOut(fr, c, i)
           R  == {c[i]} \cup IF i = 1 THEN {} ELSE {c[i - 1]}
<1>1. fs = decref(d, c[i])
  BY DEF ci_remove, takenOut, tie
<1> HIDE DEF fs, R
<1>2. /\ c[i] \in Frags
      /\ Sound(d) /\ Keeps(fr, d) /\ Refs(d, c[i]) >= 1 /\ d[c[i]].next = Null
      /\ \A f \in Frags : Refs(d, f) = Refs(fr, f)
           + IF i = 1 THEN same(f, fr[p].next) ELSE same(f, c[i])
      /\ \A f \in Frags \ R : d[f] = fr[f]
  BY TakenOutSound DEF R
<1> HIDE DEF d
<1>3. /\ Sound(fs) /\ Keeps(d, fs)
      /\ \A f \in Frags : Refs(fs, f) = Refs(d, f) - same(f, c[i])
      /\ \A f \in Frags \ Reach(d, c[i]) : fs[f] = d[f]
  BY <1>1, <1>2, DecrefSound, DecrefKeeps
<1>4. Reach(d, c[i]) = {c[i]} /\ c[i] \in R
  BY <1>2, ReachStep DEF R, Sound
<1>5. \A f \in Frags \ R : fs[f] = fr[f]
  BY <1>2, <1>3, <1>4
<1>6. Keeps(fr, fs)
  BY <1>2, <1>3, KeepsTrans
<1>7. i = 1 => c[i] = p
  BY NullAssumption DEF Path, At
<1>8. \A f \in Frags : Refs(fr, f) \in Nat
  <2>1. Heap(fr) /\ \A f \in Frags : fr[f].refcnt \in Nat
    BY DEF Heap, FragType, Sound
  <2> QED BY <2>1, NextsType DEF Refs, Sound
<1>9. ASSUME NEW f \in Frags
      PROVE  Refs(fs, f) = Refs(fr, f) + IF i = 1 THEN same(f, fr[p].next) - same(f, p) ELSE 0
  <2>1. /\ Refs(fs, f) = Refs(d, f) - same(f, c[i])
        /\ Refs(d, f) = Refs(fr, f) + IF i = 1 THEN same(f, fr[p].next) ELSE same(f, c[i])
    BY <1>2, <1>3
  <2>2. /\ Refs(fr, f) \in Nat /\ same(f, c[i]) \in {0, 1} /\ same(f, p) \in {0, 1}
        /\ same(f, fr[p].next) \in {0, 1}
    BY <1>8 DEF same
  <2> QED BY <2>1, <2>2, <1>7
<1> QED
  BY <1>3, <1>5, <1>6, <1>9 DEF fs, R

\* The chain c before gabs_pbuf_ci_detach releases what follows.
parted(fr, c, i) == IF i = 1 THEN fr ELSE tie(fr, c[i - 1], Null)

\* The chain is cut before its i-th fragment: the reference to it is still to be given up.
LEMMA PartedSound ==
  ASSUME NEW fr, Sound(fr), NEW p \in Frags, Refs(fr, p) >= 1, NEW c, Path(fr, p, c),
         NEW i \in 1 .. Len(c)
  PROVE  LET d == parted(fr, c, i) IN
         /\ c[i] \in Frags /\ (i = 1 <=> c[i] = p)
         /\ Sound(d) /\ Keeps(fr, d) /\ Refs(d, c[i]) >= 1
         /\ \A f \in Frags : Refs(d, f) = Refs(fr, f) + IF i = 1 THEN 0 ELSE same(f, c[i])
<1> DEFINE d == parted(fr, c, i)
<1>1. /\ c \in Seq(Frags) /\ Len(c) \in Nat /\ DOMAIN c = 1 .. Len(c)
      /\ \A j \in 1 .. Len(c) : c[j] \in Frags /\ fr[c[j]].next = At(c, j + 1)
      /\ c[1] = p
  BY NullAssumption DEF Path, At
<1>2. \A f \in Frags : Refs(fr, f) \in Nat
  <2>1. Heap(fr) /\ \A f \in Frags : fr[f].refcnt \in Nat
    BY DEF Heap, FragType, Sound
  <2> QED BY <2>1, NextsType DEF Refs, Sound
<1>3. i = 1 <=> c[i] = p
  <2>1. \A j, k \in 1 .. Len(c) : j # k => c[j] # c[k]
    BY PathDistinct DEF Sound
  <2>2. 1 \in 1 .. Len(c)
    BY <1>1
  <2> QED BY <2>1, <2>2, <1>1
<1>4. CASE i = 1
  <2>1. d = fr /\ c[i] = p
    BY <1>1, <1>4 DEF parted
  <2>2. Keeps(fr, fr)
    BY DEF Keeps
  <2> QED BY <2>1, <2>2, <1>2, <1>4
<1>5. CASE i # 1
  <2> DEFINE g == c[i - 1]
  <2>1. g \in Frags /\ fr[g].next = c[i]
    <3>1. i - 1 \in 1 .. Len(c) /\ (i - 1) + 1 = i
      BY <1>5, <1>1
    <3>2. At(c, i) = c[i]
      BY <1>1 DEF At
    <3> QED BY <3>1, <3>2, <1>1
  <2> HIDE DEF g
  <2>2. d = tie(fr, g, Null)
    BY <1>5 DEF g, parted
  <2> HIDE DEF d
  <2>3. /\ Sound(d) /\ Keeps(fr, d)
        /\ \A f \in Frags : Refs(d, f) = Refs(fr, f) + same(f, c[i])
    BY <2>1, <2>2, CutSound
  <2>4. Refs(d, c[i]) >= 1 /\ c[i] \in Frags
    BY <2>3, <1>1, <1>2 DEF same
  <2> QED BY <2>3, <2>4, <1>3, <1>5 DEF d
<1> QED
  BY <1>4, <1>5

\* The chain is cut before its i-th fragment, and the rest of it released.
LEMMA DetachSound ==
  ASSUME NEW fr, Sound(fr), NEW p \in Frags, Refs(fr, p) >= 1, NEW c, Path(fr, p, c),
         NEW i \in 1 .. Len(c)
  PROVE  LET fs == ci_detach(fr, c, i) IN
         /\ Sound(fs) /\ Keeps(fr, fs)
         /\ \A f \in Frags : Refs(fs, f) = Refs(fr, f) - IF i = 1 THEN same(f, p) ELSE 0
<1> DEFINE fs == ci_detach(fr, c, i)
           d  == parted(fr, c, i)
<1>1. fs = decref(d, c[i])
  BY DEF ci_detach, parted, tie
<1> HIDE DEF fs
<1>2. /\ c[i] \in Frags /\ (i = 1 <=> c[i] = p)
      /\ Sound(d) /\ Keeps(fr, d) /\ Refs(d, c[i]) >= 1
      /\ \A f \in Frags : Refs(d, f) = Refs(fr, f) + IF i = 1 THEN 0 ELSE same(f, c[i])
  BY PartedSound
<1> HIDE DEF d
<1>3. /\ Sound(fs) /\ Keeps(d, fs)
      /\ \A f \in Frags : Refs(fs, f) = Refs(d, f) - same(f, c[i])
  BY <1>1, <1>2, DecrefSound, DecrefKeeps
<1>4. Keeps(fr, fs)
  BY <1>2, <1>3, KeepsTrans
<1>5. \A f \in Frags : Refs(fr, f) \in Nat
  <2>1. Heap(fr) /\ \A f \in Frags : fr[f].refcnt \in Nat
    BY DEF Heap, FragType, Sound
  <2> QED BY <2>1, NextsType DEF Refs, Sound
<1>6. ASSUME NEW f \in Frags PROVE Refs(fs, f) = Refs(fr, f) - IF i = 1 THEN same(f, p) ELSE 0
  <2>1. /\ Refs(fs, f) = Refs(d, f) - same(f, c[i])
        /\ Refs(d, f) = Refs(fr, f) + IF i = 1 THEN 0 ELSE same(f, c[i])
    BY <1>2, <1>3
  <2>2. Refs(fr, f) \in Nat /\ same(f, c[i]) \in {0, 1} /\ same(f, p) \in {0, 1}
    BY <1>5 DEF same
  <2> QED BY <2>1, <2>2, <1>2
<1> QED
  BY <1>3, <1>4, <1>6 DEF fs

-----------------------------------------------------------------------------
(* Sizes.                                                                   *)

\* The sizes add up, one fragment after the other.
LEMMA UptoIs ==
  ASSUME NEW fr, NEW c, Len(c) \in Nat
  PROVE  /\ upto(fr, c, 0) = 0
         /\ \A n \in 1 .. Len(c) : upto(fr, c, n) = upto(fr, c, n - 1) + fr[c[n]].size
<1> DEFINE Step(s, j) == s + fr[c[j]].size
<1> HIDE DEF Step
<1> DEFINE G(g, k) == g = [j \in 0 .. k |-> IF j = 0 THEN 0 ELSE Step(g[j - 1], j)]
           S == {k \in Nat : \E g : G(g, k)}
<1>1. 0 \in S
  <2>1. G([j \in 0 .. 0 |-> 0], 0)
    OBVIOUS
  <2> QED BY <2>1
<1>2. ASSUME NEW k \in Nat, k \in S PROVE k + 1 \in S
  <2>1. PICK g : G(g, k)
    BY <1>2
  <2> DEFINE h == [j \in 0 .. k + 1 |-> IF j = k + 1 THEN Step(g[k], k + 1) ELSE g[j]]
  <2>2. ASSUME NEW j \in 0 .. k + 1 PROVE h[j] = IF j = 0 THEN 0 ELSE Step(h[j - 1], j)
    <3>1. CASE j = k + 1
      BY <3>1
    <3>2. CASE j # k + 1
      BY <3>2, <2>1
    <3> QED BY <3>1, <3>2
  <2>3. G(h, k + 1)
    BY <2>2
  <2> HIDE DEF h, G
  <2> QED BY <2>3
<1>3. \E g : G(g, Len(c))
  <2>1. Len(c) \in S
    <3> HIDE DEF S
    <3> QED BY <1>1, <1>2, InductionTo
  <2> QED BY <2>1
<1> DEFINE d == CHOOSE g : G(g, Len(c))
<1>4. G(d, Len(c))
  BY <1>3, Zenon
<1>5. \A n : upto(fr, c, n) = d[n]
  BY Zenon DEF upto, Step
<1> HIDE DEF d
<1>6. d[0] = 0 /\ \A n \in 1 .. Len(c) : d[n] = Step(d[n - 1], n)
  BY <1>4
<1> QED
  BY <1>5, <1>6 DEF Step

\* Sums of sizes are natural numbers.
LEMMA UptoGrows ==
  ASSUME NEW fr, Heap(fr), NEW c \in Seq(Frags)
  PROVE  /\ \A n \in 0 .. Len(c) : upto(fr, c, n) \in Nat
         /\ \A n \in 1 .. Len(c) : /\ fr[c[n]].size \in Nat
                                   /\ upto(fr, c, n) = upto(fr, c, n - 1) + fr[c[n]].size
<1>1. Len(c) \in Nat /\ \A n \in 1 .. Len(c) : fr[c[n]].size \in Nat
  BY DEF Heap, FragType
<1>2. /\ upto(fr, c, 0) = 0
      /\ \A n \in 1 .. Len(c) : upto(fr, c, n) = upto(fr, c, n - 1) + fr[c[n]].size
  BY <1>1, UptoIs
<1>3. ASSUME NEW n \in 0 .. Len(c) PROVE upto(fr, c, n) \in Nat
  <2> DEFINE S == {k \in Nat : k <= Len(c) => upto(fr, c, k) \in Nat}
  <2>1. 0 \in S
    BY <1>2
  <2>2. ASSUME NEW k \in Nat, k \in S PROVE k + 1 \in S
    <3> SUFFICES ASSUME k + 1 <= Len(c) PROVE upto(fr, c, k + 1) \in Nat
      OBVIOUS
    <3>1. k + 1 \in 1 .. Len(c) /\ (k + 1) - 1 = k /\ upto(fr, c, k) \in Nat
      BY <2>2, <1>1
    <3>2. upto(fr, c, k + 1) = upto(fr, c, k) + fr[c[k + 1]].size /\ fr[c[k + 1]].size \in Nat
      BY <3>1, <1>1, <1>2
    <3> QED BY <3>1, <3>2
  <2>3. n \in S
    <3> HIDE DEF S
    <3> QED BY <2>1, <2>2, <1>1, InductionTo
  <2> QED BY <2>3, <1>1
<1> QED
  BY <1>1, <1>2, <1>3

\* A set of natural numbers has a least.
LEMMA MinIs ==
  ASSUME NEW S, S \subseteq Nat, S # {}
  PROVE  Min(S) \in S /\ \A y \in S : Min(S) <= y
<1>1. \E x \in S : \A y \in S : x <= y
  <2> SUFFICES ASSUME \A x \in S : \E y \in S : y < x PROVE FALSE
    OBVIOUS
  <2> DEFINE T == {k \in Nat : \A j \in 0 .. k : j \notin S}
  <2>1. 0 \in T
    OBVIOUS
  <2>2. ASSUME NEW k \in Nat, k \in T PROVE k + 1 \in T
    <3>1. \A j \in 0 .. k : j \notin S
      BY <2>2
    <3>2. k + 1 \notin S
      BY <3>1
    <3> QED BY <3>1, <3>2
  <2>3. PICK x \in S : TRUE
    OBVIOUS
  <2>4. x \in T
    <3> HIDE DEF T
    <3> QED BY <2>1, <2>2, InductionTo
  <2> QED BY <2>3, <2>4
<1> QED
  BY <1>1, Zenon DEF Min

\* buf_seek finds the fragment the offset is in, and stops at the end.
LEMMA SeekIs ==
  ASSUME NEW fr, Heap(fr), NEW c \in Seq(Frags), NEW offset \in Nat
  PROVE  LET i == seek(fr, c, offset) IN
         /\ i \in 1 .. Len(c) + 1 /\ i - 1 \in 0 .. Len(c)
         /\ upto(fr, c, i - 1) \in Nat /\ upto(fr, c, i - 1) <= offset
         /\ i <= Len(c) => /\ c[i] \in Frags
                           /\ offset - upto(fr, c, i - 1) \in 0 .. fr[c[i]].size
         /\ offset < upto(fr, c, Len(c)) => i <= Len(c)
         /\ offset = 0 => i = 1
         /\ i > Len(c) => offset >= upto(fr, c, Len(c))
<1> DEFINE i == seek(fr, c, offset)
           M == {Len(c) + 1} \cup {k \in DOMAIN c : upto(fr, c, k) > offset}
<1>1. /\ Len(c) \in Nat /\ DOMAIN c = 1 .. Len(c)
      /\ \A k \in 0 .. Len(c) : upto(fr, c, k) \in Nat
      /\ \A k \in 1 .. Len(c) : /\ c[k] \in Frags /\ fr[c[k]].size \in Nat
                                /\ upto(fr, c, k) = upto(fr, c, k - 1) + fr[c[k]].size
      /\ upto(fr, c, 0) = 0
  BY UptoGrows, UptoIs
<1>2. CASE offset = 0
  <2>1. i = 1
    BY <1>2 DEF seek
  <2> HIDE DEF i
  <2>2. CASE Len(c) = 0
    BY <1>1, <1>2, <2>1, <2>2 DEF i
  <2>3. CASE Len(c) # 0
    <3>1. 1 \in 1 .. Len(c) /\ c[1] \in Frags /\ fr[c[1]].size \in Nat
      BY <1>1, <2>3
    <3> QED BY <1>1, <1>2, <2>1, <2>3, <3>1 DEF i
  <2> QED BY <2>2, <2>3
<1>3. CASE offset # 0
  <2>1. i = Min(M)
    BY <1>3 DEF seek
  <2>2. i \in M /\ \A y \in M : i <= y
    <3>1. M \subseteq Nat /\ M # {}
      BY <1>1
    <3> HIDE DEF M, i
    <3> QED BY <2>1, <3>1, MinIs
  <2>3. i \in 1 .. Len(c) + 1 /\ i - 1 \in 0 .. Len(c)
    BY <2>2, <1>1
  <2>4. upto(fr, c, i - 1) <= offset
    <3>1. CASE i = 1
      BY <3>1, <1>1
    <3>2. CASE i # 1
      <4>1. i - 1 \in 1 .. Len(c) /\ i - 1 \notin M
        BY <3>2, <2>2, <2>3, <1>1
      <4>2. ~ (upto(fr, c, i - 1) > offset) /\ upto(fr, c, i - 1) \in Nat
        BY <4>1, <1>1
      <4> QED BY <4>2
    <3> QED BY <3>1, <3>2
  <2>5. i <= Len(c) => upto(fr, c, i) > offset
    BY <2>2, <2>3, <1>1
  <2>6. i > Len(c) => ~ (upto(fr, c, Len(c)) > offset)
    <3> SUFFICES ASSUME i > Len(c), upto(fr, c, Len(c)) > offset PROVE FALSE
      OBVIOUS
    <3>1. Len(c) # 0
      BY <1>1
    <3>2. Len(c) \in 1 .. Len(c) /\ DOMAIN c = 1 .. Len(c) /\ Len(c) \in Nat
      BY <3>1, <1>1
    <3>3. Len(c) \in {k \in DOMAIN c : upto(fr, c, k) > offset}
      <4> HIDE DEF i, M
      <4> QED BY <3>2
    <3>4. Len(c) \in M
      <4> HIDE DEF i
      <4> QED BY <3>3
    <3>5. i <= Len(c) /\ i \in Nat
      <4> HIDE DEF i, M
      <4> QED BY <3>4, <2>2, <2>3, <3>2
    <3> HIDE DEF i, M
    <3> QED BY <3>5, <3>2
  <2> HIDE DEF i, M
  <2>7. upto(fr, c, Len(c)) \in Nat /\ upto(fr, c, i - 1) \in Nat
    BY <2>3, <1>1
  <2>8. i <= Len(c) => /\ c[i] \in Frags
                       /\ offset - upto(fr, c, i - 1) \in 0 .. fr[c[i]].size
    BY <2>3, <2>4, <2>5, <2>7, <1>1
  <2> QED BY <2>3, <2>4, <2>6, <2>7, <2>8, <1>1, <1>3 DEF i
<1> QED
  BY <1>2, <1>3

-----------------------------------------------------------------------------
(* gabs_pbuf_shrink.                                                        *)

\* What the first loop of gabs_pbuf_shrink has done after n rounds.
LEMMA DroppedIs ==
  ASSUME NEW fr, NEW c, Len(c) \in Nat
  PROVE  /\ dropped(fr, c, 0) = fr
         /\ \A n \in 1 .. Len(c) :
              dropped(fr, c, n) = ci_remove(dropped(fr, c, n - 1), Chain(dropped(fr, c, n - 1), c[n]), 1)
<1> DEFINE Step(s, j) == ci_remove(s, Chain(s, c[j]), 1)
<1> HIDE DEF Step
<1> DEFINE G(g, k) == g = [j \in 0 .. k |-> IF j = 0 THEN fr ELSE Step(g[j - 1], j)]
           S == {k \in Nat : \E g : G(g, k)}
<1>1. 0 \in S
  <2>1. G([j \in 0 .. 0 |-> fr], 0)
    OBVIOUS
  <2> QED BY <2>1
<1>2. ASSUME NEW k \in Nat, k \in S PROVE k + 1 \in S
  <2>1. PICK g : G(g, k)
    BY <1>2
  <2> DEFINE h == [j \in 0 .. k + 1 |-> IF j = k + 1 THEN Step(g[k], k + 1) ELSE g[j]]
  <2>2. ASSUME NEW j \in 0 .. k + 1 PROVE h[j] = IF j = 0 THEN fr ELSE Step(h[j - 1], j)
    <3>1. CASE j = k + 1
      BY <3>1
    <3>2. CASE j # k + 1
      BY <3>2, <2>1
    <3> QED BY <3>1, <3>2
  <2>3. G(h, k + 1)
    BY <2>2
  <2> HIDE DEF h, G
  <2> QED BY <2>3
<1>3. \E g : G(g, Len(c))
  <2>1. Len(c) \in S
    <3> HIDE DEF S
    <3> QED BY <1>1, <1>2, InductionTo
  <2> QED BY <2>1
<1> DEFINE d == CHOOSE g : G(g, Len(c))
<1>4. G(d, Len(c))
  BY <1>3, Zenon
<1>5. \A n : dropped(fr, c, n) = d[n]
  BY Zenon DEF dropped, Step
<1> HIDE DEF d
<1>6. d[0] = fr /\ \A n \in 1 .. Len(c) : d[n] = Step(d[n - 1], n)
  BY <1>4
<1> QED
  BY <1>5, <1>6, Zenon DEF Step

\* The first n fragments go, one by one: the reference to the first ends up at the
\* one that follows them.
LEMMA DroppedSound ==
  ASSUME NEW fr, Sound(fr), NEW p \in Frags, Refs(fr, p) >= 1, NEW c, Path(fr, p, c),
         NEW n \in 0 .. Len(c)
  PROVE  LET fs == dropped(fr, c, n) IN
         /\ Sound(fs) /\ Keeps(fr, fs)
         /\ \A f \in Frags : Refs(fs, f) = Refs(fr, f) - same(f, p) + same(f, At(c, n + 1))
         /\ \A j \in n + 1 .. Len(c) : fs[c[j]] = fr[c[j]]
<1> DEFINE fs(k) == dropped(fr, c, k)
<1>1. /\ c \in Seq(Frags) /\ Len(c) \in Nat /\ DOMAIN c = 1 .. Len(c)
      /\ \A j \in 1 .. Len(c) : c[j] \in Frags /\ fr[c[j]].next = At(c, j + 1)
      /\ At(c, 1) = p
      /\ \A j \in 1 .. Len(c) : At(c, j) = c[j]
      /\ \A i, j \in 1 .. Len(c) : i # j => c[i] # c[j]
  BY PathDistinct DEF Path, Sound, At
<1>2. /\ fs(0) = fr
      /\ \A k \in 1 .. Len(c) : fs(k) = ci_remove(fs(k - 1), Chain(fs(k - 1), c[k]), 1)
  BY <1>1, DroppedIs
<1>3. \A f \in Frags : Refs(fr, f) \in Nat
  <2>1. Heap(fr) /\ \A f \in Frags : fr[f].refcnt \in Nat
    BY DEF Heap, FragType, Sound
  <2> QED BY <2>1, NextsType DEF Refs, Sound
<1> HIDE DEF fs
<1> DEFINE Holds(k) ==
             /\ Sound(fs(k)) /\ Keeps(fr, fs(k))
             /\ \A f \in Frags : Refs(fs(k), f) = Refs(fr, f) - same(f, p) + same(f, At(c, k + 1))
             /\ \A j \in k + 1 .. Len(c) : fs(k)[c[j]] = fr[c[j]]
           S == {k \in Nat : k <= Len(c) => Holds(k)}
<1>4. 0 \in S
  <2>1. Keeps(fr, fr)
    BY DEF Keeps
  <2>2. \A f \in Frags : Refs(fr, f) = Refs(fr, f) - same(f, p) + same(f, At(c, 0 + 1))
    BY <1>1, <1>3 DEF same
  <2> QED BY <2>1, <2>2, <1>2
<1>5. ASSUME NEW k \in Nat, k \in S PROVE k + 1 \in S
  <2> SUFFICES ASSUME k + 1 <= Len(c) PROVE Holds(k + 1)
    OBVIOUS
  <2> DEFINE s == fs(k)
             q == c[k + 1]
             d == Chain(s, q)
             t == fs(k + 1)
  <2>1. k + 1 \in 1 .. Len(c) /\ (k + 1) - 1 = k /\ k <= Len(c) /\ q \in Frags /\ q \in FN
    BY <1>1 DEF FN
  <2>2. Holds(k)
    BY <2>1, <1>5
  <2>3. t = ci_remove(s, d, 1)
    BY <2>1, <1>2
  <2>4. s[q].next = At(c, (k + 1) + 1)
    <3>1. s[q] = fr[q]
      BY <2>1, <2>2
    <3> QED BY <3>1, <2>1, <1>1
  <2>5. /\ Sound(s) /\ Keeps(fr, s)
        /\ \A f \in Frags : Refs(s, f) = Refs(fr, f) - same(f, p) + same(f, q)
        /\ \A j \in k + 2 .. Len(c) : s[c[j]] = fr[c[j]]
    BY <2>2, <2>1, <1>1
  <2> HIDE DEF s, t
  <2>6. Refs(s, q) >= 1
    <3>1. Refs(s, q) = Refs(fr, q) - same(q, p) + same(q, q) /\ Refs(fr, q) \in Nat
      BY <2>5, <2>1, <1>3
    <3> QED BY <3>1 DEF same
  <2>7. Path(s, q, d) /\ 1 \in 1 .. Len(d) /\ d[1] = q
    <3>1. Path(s, q, d)
      BY <2>5, <2>1, ChainPath DEF Sound
    <3> HIDE DEF d
    <3>2. q # Null
      BY <2>1, NullAssumption
    <3> QED BY <3>1, <3>2, <2>1 DEF Path, At
  <2> HIDE DEF d
  <2>8. /\ Sound(t) /\ Keeps(s, t)
        /\ \A f \in Frags : Refs(t, f) = Refs(s, f) + (same(f, s[q].next) - same(f, q))
        /\ \A f \in Frags \ {q} : t[f] = s[f]
    BY <2>1, <2>3, <2>5, <2>6, <2>7, RemoveSound
  <2>9. \A f \in Frags : Refs(t, f) = Refs(fr, f) - same(f, p) + same(f, At(c, (k + 1) + 1))
    <3> SUFFICES ASSUME NEW f \in Frags
                 PROVE  Refs(t, f) = Refs(fr, f) - same(f, p) + same(f, At(c, (k + 1) + 1))
      OBVIOUS
    <3>1. /\ Refs(t, f) = Refs(s, f) + (same(f, At(c, (k + 1) + 1)) - same(f, q))
          /\ Refs(s, f) = Refs(fr, f) - same(f, p) + same(f, q)
      BY <2>4, <2>5, <2>8
    <3>2. /\ Refs(fr, f) \in Nat /\ same(f, p) \in {0, 1} /\ same(f, q) \in {0, 1}
          /\ same(f, At(c, (k + 1) + 1)) \in {0, 1}
      BY <1>3 DEF same
    <3> QED BY <3>1, <3>2
  <2>10. ASSUME NEW j \in (k + 1) + 1 .. Len(c) PROVE t[c[j]] = fr[c[j]]
    <3>1. j \in 1 .. Len(c) /\ j # k + 1 /\ j \in k + 2 .. Len(c)
      BY <1>1
    <3>2. c[j] \in Frags \ {q}
      BY <3>1, <2>1, <1>1
    <3> QED BY <3>1, <3>2, <2>8, <2>5
  <2>11. Keeps(fr, t)
    BY <2>5, <2>8, KeepsTrans
  <2> QED BY <2>8, <2>9, <2>10, <2>11 DEF t
<1>6. n \in S
  <2>1. n \in Nat
    BY <1>1
  <2> HIDE DEF S
  <2> QED BY <2>1, <1>4, <1>5, InductionTo
<1>7. Holds(n)
  BY <1>6, <1>1
<1> QED
  BY <1>7 DEF fs

\* What is left of the fragments sees the same memory.
Looks(fr, fs) ==
    \A f \in Frags : fs[f].refcnt > 0 =>
       /\ fr[f].refcnt > 0
       /\ fs[f].mem = fr[f].mem /\ fs[f].base = fr[f].base /\ fs[f].cap = fr[f].cap

\* Data and tailroom lie in the memory a fragment sees.
AllWithin(fr) ==
    \A f \in Frags : fr[f].refcnt > 0 =>
       /\ fr[f].base <= fr[f].data
       /\ fr[f].data + fr[f].size <= fr[f].base + fr[f].cap

\* Seeing no more than before is transitive.
LEMMA LooksTrans ==
  ASSUME NEW fr, NEW fs, NEW ft, Looks(fr, fs), Looks(fs, ft)
  PROVE  Looks(fr, ft)
  BY DEF Looks

\* Who keeps what it sees stays within it.
LEMMA KeepsWithin ==
  ASSUME NEW fr, NEW fs, Keeps(fr, fs)
  PROVE  Looks(fr, fs) /\ (AllWithin(fr) => AllWithin(fs))
  BY DEF Keeps, Looks, AllWithin

\* Only where the data of f begins and ends has changed.
Resized(fr, fs, f) ==
    /\ Heap(fs)
    /\ \A g \in Frags \ {f} : fs[g] = fr[g]
    /\ fs[f].next = fr[f].next /\ fs[f].refcnt = fr[f].refcnt
    /\ fs[f].mem = fr[f].mem /\ fs[f].base = fr[f].base /\ fs[f].cap = fr[f].cap

\* A change of data and size alone leaves pointers and references as they are.
LEMMA ResizedSound ==
  ASSUME NEW fr, Sound(fr), NEW f \in Frags, fr[f].refcnt > 0, NEW fs, Resized(fr, fs, f)
  PROVE  /\ Sound(fs) /\ Looks(fr, fs)
         /\ \A g \in Frags : Refs(fs, g) = Refs(fr, g) /\ fs[g].refcnt = fr[g].refcnt
         /\ \A g \in Frags : fs[g].next = fr[g].next
<1>1. \A g \in Frags : fs[g].next = fr[g].next /\ fs[g].refcnt = fr[g].refcnt
  BY DEF Resized
<1>2. nexts(fs) = nexts(fr)
  BY <1>1 DEF nexts
<1>3. \A g \in Frags : Refs(fs, g) = Refs(fr, g)
  BY <1>1, <1>2 DEF Refs
<1>4. Acyclic(fs)
  BY <1>1, AcyclicCut DEF Sound
<1>5. Tidy(fs)
  BY DEF Tidy, Resized, Sound
<1>6. Sound(fs)
  BY <1>3, <1>4, <1>5 DEF Sound, Resized
<1>7. Looks(fr, fs)
  BY DEF Looks, Resized
<1> QED
  BY <1>1, <1>3, <1>6, <1>7

\* gabs_pbuf_ci_reserve_tail and gabs_pbuf_ci_release_tail.
LEMMA TailResized ==
  ASSUME NEW fr, Heap(fr), NEW f \in Frags, NEW n \in Nat
  PROVE  /\ Resized(fr, ci_reserve_tail(fr, f, n), f)
         /\ ci_reserve_tail(fr, f, n)[f].data = fr[f].data
         /\ ci_reserve_tail(fr, f, n)[f].size = fr[f].size + n
         /\ n <= fr[f].size => /\ Resized(fr, ci_release_tail(fr, f, n), f)
                               /\ ci_release_tail(fr, f, n)[f].data = fr[f].data
                               /\ ci_release_tail(fr, f, n)[f].size = fr[f].size - n
  BY DEF Heap, FragType, Resized, ci_reserve_tail, ci_release_tail

\* gabs_pbuf_ci_reserve_head and gabs_pbuf_ci_release_head.
LEMMA HeadResized ==
  ASSUME NEW fr, Heap(fr), NEW f \in Frags, NEW n \in Nat
  PROVE  /\ n <= fr[f].data => /\ Resized(fr, ci_reserve_head(fr, f, n), f)
                               /\ ci_reserve_head(fr, f, n)[f].data = fr[f].data - n
                               /\ ci_reserve_head(fr, f, n)[f].size = fr[f].size + n
         /\ n <= fr[f].size => /\ Resized(fr, ci_release_head(fr, f, n), f)
                               /\ ci_release_head(fr, f, n)[f].data = fr[f].data + n
                               /\ ci_release_head(fr, f, n)[f].size = fr[f].size - n
<1>1. ASSUME n <= fr[f].data
      PROVE  /\ Resized(fr, ci_reserve_head(fr, f, n), f)
             /\ ci_reserve_head(fr, f, n)[f].data = fr[f].data - n
             /\ ci_reserve_head(fr, f, n)[f].size = fr[f].size + n
  <2> DEFINE fs == ci_reserve_head(fr, f, n)
             x  == fr[f].data - n
             y  == fr[f].size + n
             r  == [fr[f] EXCEPT !.data = x, !.size = y]
  <2>1. fr[f] \in FragType /\ DOMAIN fr = Frags /\ \A g \in Frags : fr[g] \in FragType
    BY DEF Heap
  <2>2. fs = [fr EXCEPT ![f] = r]
    BY <2>1 DEF ci_reserve_head
  <2>3. /\ r \in FragType /\ r.data = x /\ r.size = y
        /\ r.next = fr[f].next /\ r.refcnt = fr[f].refcnt
        /\ r.mem = fr[f].mem /\ r.base = fr[f].base /\ r.cap = fr[f].cap
    <3>1. x \in Nat /\ y \in Nat
      BY <2>1, <1>1 DEF FragType
    <3> HIDE DEF x, y
    <3> QED BY <3>1, <2>1 DEF FragType
  <2> HIDE DEF fs, r
  <2>4. /\ fs[f] = r /\ \A g \in Frags \ {f} : fs[g] = fr[g]
        /\ fs \in [Frags -> FragType]
    BY <2>1, <2>2, <2>3
  <2> QED BY <2>3, <2>4 DEF Resized, Heap, fs
<1>2. ASSUME n <= fr[f].size
      PROVE  /\ Resized(fr, ci_release_head(fr, f, n), f)
             /\ ci_release_head(fr, f, n)[f].data = fr[f].data + n
             /\ ci_release_head(fr, f, n)[f].size = fr[f].size - n
  <2> DEFINE fs == ci_release_head(fr, f, n)
             x  == fr[f].data + n
             y  == fr[f].size - n
             r  == [fr[f] EXCEPT !.data = x, !.size = y]
  <2>1. fr[f] \in FragType /\ DOMAIN fr = Frags /\ \A g \in Frags : fr[g] \in FragType
    BY DEF Heap
  <2>2. fs = [fr EXCEPT ![f] = r]
    BY <2>1 DEF ci_release_head
  <2>3. /\ r \in FragType /\ r.data = x /\ r.size = y
        /\ r.next = fr[f].next /\ r.refcnt = fr[f].refcnt
        /\ r.mem = fr[f].mem /\ r.base = fr[f].base /\ r.cap = fr[f].cap
    <3>1. x \in Nat /\ y \in Nat
      BY <2>1, <1>2 DEF FragType
    <3> HIDE DEF x, y
    <3> QED BY <3>1, <2>1 DEF FragType
  <2> HIDE DEF fs, r
  <2>4. /\ fs[f] = r /\ \A g \in Frags \ {f} : fs[g] = fr[g]
        /\ fs \in [Frags -> FragType]
    BY <2>1, <2>2, <2>3
  <2> QED BY <2>3, <2>4 DEF Resized, Heap, fs
<1> QED
  BY <1>1, <1>2

\* Data of a fragment may shrink at either end, and grow into the room there is.
LEMMA ResizedWithin ==
  ASSUME NEW fr, Heap(fr), AllWithin(fr), NEW f \in Frags, NEW fs, Resized(fr, fs, f),
         fr[f].refcnt > 0 => /\ fr[f].base <= fs[f].data
                             /\ fs[f].data + fs[f].size <= fr[f].base + fr[f].cap
  PROVE  AllWithin(fs)
  BY DEF AllWithin, Resized, Heap

\* A path stays one as long as its pointers do.
LEMMA PathSame ==
  ASSUME NEW fr, NEW p, NEW c, Path(fr, p, c), NEW fs,
         \A i \in 1 .. Len(c) : fs[c[i]].next = fr[c[i]].next
  PROVE  Path(fs, p, c)
  BY DEF Path

\* What follows the first size bytes of a chain is cut off.
trimmed(fr, c, size) ==
    LET ends  == {j \in DOMAIN c : upto(fr, c, j) >= size}
        j     == Min(ends)
        short == ci_release_tail(fr, c[j], upto(fr, c, j) - size)
    IN  IF ends = {} THEN fr
        ELSE IF j = Len(c) THEN short
        ELSE ci_detach(short, c, j + 1)

\* What remains sees no more than it saw, and no reference but internal ones is given up.
LEMMA TrimmedSound ==
  ASSUME NEW fr, Sound(fr), AllWithin(fr), NEW p \in Frags, Refs(fr, p) >= 1,
         NEW c, Path(fr, p, c), NEW size \in Nat
  PROVE  LET fs == trimmed(fr, c, size) IN
         /\ Sound(fs) /\ AllWithin(fs) /\ Looks(fr, fs)
         /\ \A f \in Frags : Refs(fs, f) = Refs(fr, f)
<1> DEFINE ends  == {k \in DOMAIN c : upto(fr, c, k) >= size}
           j     == Min(ends)
           short == ci_release_tail(fr, c[j], upto(fr, c, j) - size)
           fs    == trimmed(fr, c, size)
<1>1. /\ Heap(fr) /\ c \in Seq(Frags) /\ DOMAIN c = 1 .. Len(c) /\ Len(c) \in Nat
      /\ \A k \in 1 .. Len(c) : c[k] \in Frags
  BY DEF Sound, Path
<1>2. /\ \A k \in 0 .. Len(c) : upto(fr, c, k) \in Nat
      /\ \A k \in 1 .. Len(c) : /\ fr[c[k]].size \in Nat
                                /\ upto(fr, c, k) = upto(fr, c, k - 1) + fr[c[k]].size
      /\ upto(fr, c, 0) = 0
  BY <1>1, UptoGrows, UptoIs
<1>3. CASE ends = {}
  <2>1. fs = fr
    BY <1>3 DEF trimmed
  <2>2. Looks(fr, fr)
    BY DEF Looks
  <2> HIDE DEF fs
  <2> QED BY <2>1, <2>2 DEF fs
<1>4. CASE ends # {}
  <2>1. j \in ends /\ \A y \in ends : j <= y
    <3>1. ends \subseteq Nat
      BY <1>1
    <3> HIDE DEF ends
    <3> QED BY <3>1, <1>4, MinIs
  <2>2. fs = IF j = Len(c) THEN short ELSE ci_detach(short, c, j + 1)
    BY <1>4 DEF trimmed
  <2> HIDE DEF j, fs
  <2> DEFINE f == c[j]
             n == upto(fr, c, j) - size
  <2>3. j \in 1 .. Len(c) /\ f \in Frags /\ upto(fr, c, j) >= size
    BY <2>1, <1>1
  <2>4. upto(fr, c, j - 1) <= size
    <3>1. CASE j = 1
      BY <3>1, <1>2
    <3>2. CASE j # 1
      <4>1. j - 1 \in 1 .. Len(c) /\ j - 1 \in 0 .. Len(c) /\ j - 1 < j
        BY <3>2, <2>3, <1>1
      <4>2. j - 1 \notin ends
        <5> HIDE DEF ends
        <5> QED BY <4>1, <2>1, <2>3, <1>1
      <4>3. upto(fr, c, j - 1) \in Nat /\ ~ (upto(fr, c, j - 1) >= size)
        BY <4>1, <4>2, <1>1, <1>2
      <4> QED BY <4>3
    <3> QED BY <3>1, <3>2
  <2> HIDE DEF ends, short
  <2>5. n \in Nat /\ n <= fr[f].size /\ fr[f].size \in Nat
    <3>1. j - 1 \in 0 .. Len(c) /\ j \in 0 .. Len(c)
      BY <2>3, <1>1
    <3>2. upto(fr, c, j) = upto(fr, c, j - 1) + fr[f].size /\ fr[f].size \in Nat
      BY <2>3, <1>2
    <3>3. upto(fr, c, j - 1) \in Nat /\ upto(fr, c, j) \in Nat
      BY <3>1, <1>2
    <3> QED BY <3>2, <3>3, <2>3, <2>4
  <2>6. fr[f].refcnt > 0 /\ fr[f] \in FragType
    <3>1. fr[f].refcnt >= 1
      BY <2>3, PathLive
    <3> QED BY <3>1, <2>3, <1>1 DEF Heap, FragType
  <2> HIDE DEF f, n
  <2>7. short = ci_release_tail(fr, f, n)
    BY DEF short, f, n
  <2>8. Resized(fr, short, f) /\ short[f].data = fr[f].data /\ short[f].size = fr[f].size - n
    BY <2>3, <2>5, <2>7, <1>1, TailResized
  <2>9. /\ Sound(short) /\ Looks(fr, short)
        /\ \A g \in Frags : Refs(short, g) = Refs(fr, g)
        /\ \A g \in Frags : short[g].next = fr[g].next
    BY <2>3, <2>6, <2>8, ResizedSound
  <2>10. AllWithin(short)
    <3>1. fr[f].base <= fr[f].data /\ fr[f].data + fr[f].size <= fr[f].base + fr[f].cap
      BY <2>3, <2>6 DEF AllWithin
    <3>2. fr[f].base <= short[f].data /\ short[f].data + short[f].size <= fr[f].base + fr[f].cap
      BY <3>1, <2>8, <2>5, <2>6 DEF FragType
    <3> QED BY <3>2, <2>3, <2>8, <1>1, ResizedWithin
  <2>11. CASE j = Len(c)
    BY <2>2, <2>9, <2>10, <2>11 DEF fs
  <2>12. CASE j # Len(c)
    <3>1. Path(short, p, c) /\ Refs(short, p) >= 1
      BY <2>9, <1>1, PathSame
    <3>2. j + 1 \in 1 .. Len(c) /\ j + 1 # 1
      <4>1. Len(c) \in Nat /\ j \in 1 .. Len(c)
        BY <2>3, <1>1
      <4> QED BY <4>1, <2>12
    <3>3. fs = ci_detach(short, c, j + 1)
      BY <2>2, <2>12
    <3>4. /\ Sound(fs) /\ Keeps(short, fs)
          /\ \A g \in Frags : Refs(fs, g) = Refs(short, g) - 0
      BY <3>1, <3>2, <3>3, <2>9, DetachSound
    <3>5. \A g \in Frags : Refs(fs, g) = Refs(fr, g)
      <4>1. \A g \in Frags : Refs(fr, g) \in Int
        <5>1. \A g \in Frags : fr[g].refcnt \in Nat
          BY <1>1 DEF Heap, FragType
        <5> QED BY <5>1, <1>1, NextsType DEF Refs
      <4> QED BY <4>1, <3>4, <2>9
    <3>6. Looks(short, fs) /\ AllWithin(fs)
      BY <3>4, <2>10, KeepsWithin
    <3>7. Looks(fr, fs)
      BY <3>6, <2>9, LooksTrans
    <3> QED BY <3>4, <3>5, <3>6, <3>7 DEF fs
  <2> QED BY <2>11, <2>12
<1> QED
  BY <1>3, <1>4

\* A handle ends up at the fragment the offset is in, and its reference there.
LEMMA ShrinkSound ==
  ASSUME NEW fr, Sound(fr), AllWithin(fr), NEW p \in Frags, Refs(fr, p) >= 1,
         NEW c, Path(fr, p, c), NEW offset \in Nat, NEW size \in Nat
  PROVE  LET r == shrink(fr, c, offset, size) IN
         /\ r.head \in FN
         /\ Sound(r.frag) /\ AllWithin(r.frag) /\ Looks(fr, r.frag)
         /\ \A f \in Frags : Refs(r.frag, f) = Refs(fr, f) - same(f, p) + same(f, r.head)
<1> DEFINE i    == seek(fr, c, offset)
           n    == offset - upto(fr, c, i - 1)
           gone == dropped(fr, c, i - 1)
           cut  == IF i > Len(c) THEN gone ELSE ci_release_head(gone, c[i], n)
           rest == SubSeq(c, i, Len(c))
           fs   == trimmed(cut, rest, size)
           r    == shrink(fr, c, offset, size)
<1>1. r.frag = fs /\ r.head = At(c, i)
  BY Zenon DEF shrink, trimmed
<1>2. /\ Heap(fr) /\ c \in Seq(Frags) /\ DOMAIN c = 1 .. Len(c) /\ Len(c) \in Nat
      /\ \A k \in 1 .. Len(c) : c[k] \in Frags
  BY DEF Sound, Path
<1>3. /\ i \in 1 .. Len(c) + 1 /\ i - 1 \in 0 .. Len(c)
      /\ i <= Len(c) => n \in 0 .. fr[c[i]].size
  BY <1>2, SeekIs
<1> HIDE DEF i, n, r, fs
<1>4. /\ Sound(gone) /\ Keeps(fr, gone) /\ Looks(fr, gone) /\ AllWithin(gone)
      /\ \A f \in Frags : Refs(gone, f) = Refs(fr, f) - same(f, p) + same(f, At(c, i))
      /\ \A j \in i .. Len(c) : gone[c[j]] = fr[c[j]]
  <2>1. (i - 1) + 1 = i
    BY <1>3, <1>2
  <2> HIDE DEF gone
  <2>2. /\ Sound(gone) /\ Keeps(fr, gone)
        /\ \A f \in Frags : Refs(gone, f) = Refs(fr, f) - same(f, p) + same(f, At(c, i))
        /\ \A j \in i .. Len(c) : gone[c[j]] = fr[c[j]]
    BY <1>3, <2>1, DroppedSound DEF gone
  <2> QED BY <2>2, KeepsWithin
<1> HIDE DEF gone
<1>5. At(c, i) \in FN
  BY <1>2, <1>3, AtType
<1>6. CASE i > Len(c)
  <2>1. cut = gone
    BY <1>6
  <2>2. rest = <<>>
    BY <1>6, <1>2, <1>3
  <2> HIDE DEF cut, rest
  <2>3. fs = gone
    BY <2>1, <2>2 DEF fs, trimmed
  <2> QED BY <2>3, <1>1, <1>4, <1>5 DEF r
<1>7. CASE i <= Len(c)
  <2> DEFINE q == c[i]
  <2>1. /\ cut = ci_release_head(gone, q, n) /\ q \in Frags /\ i \in 1 .. Len(c) /\ At(c, i) = q
        /\ n \in Nat /\ n <= fr[q].size
    <3>1. fr[q].size \in Nat
      BY <1>7, <1>2, <1>3 DEF Heap, FragType
    <3> QED BY <3>1, <1>7, <1>2, <1>3 DEF At
  <2> HIDE DEF cut
  <2>2. gone[q] = fr[q] /\ gone[q].refcnt > 0 /\ gone[q] \in FragType /\ Heap(gone)
    <3>1. fr[q].refcnt >= 1 /\ fr[q].refcnt \in Nat
      BY <2>1, <1>2, PathLive DEF Heap, FragType
    <3>2. gone[q] = fr[q]
      BY <1>4, <2>1, <1>2
    <3> QED BY <3>1, <3>2, <1>2, <1>4, <2>1 DEF Heap, Sound
  <2>3. /\ Resized(gone, cut, q)
        /\ cut[q].data = gone[q].data + n /\ cut[q].size = gone[q].size - n
    BY <2>1, <2>2, HeadResized
  <2>4. /\ Sound(cut) /\ Looks(gone, cut)
        /\ \A f \in Frags : Refs(cut, f) = Refs(gone, f)
        /\ \A f \in Frags : cut[f].next = gone[f].next
    BY <2>1, <2>2, <2>3, <1>4, ResizedSound
  <2>5. AllWithin(cut)
    <3>1. gone[q].base <= gone[q].data /\ gone[q].data + gone[q].size <= gone[q].base + gone[q].cap
      BY <1>4, <2>1, <2>2 DEF AllWithin
    <3>2. gone[q].base <= cut[q].data /\ cut[q].data + cut[q].size <= gone[q].base + gone[q].cap
      BY <3>1, <2>1, <2>2, <2>3 DEF FragType
    <3> QED BY <3>2, <1>4, <2>1, <2>2, <2>3, ResizedWithin
  <2>6. Path(fr, q, rest)
    <3>1. i \in 1 .. Len(c) + 1
      BY <1>3
    <3> QED BY <3>1, <2>1, PathSuffix
  <2>7. Path(cut, q, rest)
    <3>1. \A k \in 1 .. Len(rest) : cut[rest[k]].next = fr[rest[k]].next
      <4> SUFFICES ASSUME NEW k \in 1 .. Len(rest) PROVE cut[rest[k]].next = fr[rest[k]].next
        OBVIOUS
      <4>1. i + k - 1 \in i .. Len(c) /\ rest[k] = c[i + k - 1]
        BY <2>1, <1>2
      <4>2. i + k - 1 \in 1 .. Len(c)
        BY <4>1, <2>1, <1>2
      <4>3. gone[rest[k]] = fr[rest[k]] /\ rest[k] \in Frags
        BY <4>1, <4>2, <1>4, <1>2
      <4> QED BY <4>3, <2>4
    <3> HIDE DEF rest
    <3> QED BY <3>1, <2>6, PathSame
  <2>8. Refs(cut, q) >= 1
    <3>1. Refs(cut, q) = Refs(fr, q) - same(q, p) + same(q, q)
      BY <1>4, <2>1, <2>4
    <3>2. Refs(fr, q) \in Int /\ Refs(fr, q) >= 0
      <4>1. fr[q].refcnt \in Nat
        BY <2>1, <1>2 DEF Heap, FragType
      <4> QED BY <4>1, <2>1, <1>2, NextsType DEF Refs, Sound
    <3> QED BY <3>1, <3>2 DEF same
  <2> HIDE DEF rest, q
  <2>9. /\ Sound(fs) /\ AllWithin(fs) /\ Looks(cut, fs)
        /\ \A f \in Frags : Refs(fs, f) = Refs(cut, f)
    BY <2>1, <2>4, <2>5, <2>7, <2>8, TrimmedSound DEF fs
  <2>10. Looks(fr, fs)
    BY <2>4, <2>9, <1>4, LooksTrans
  <2> QED BY <2>4, <2>9, <2>10, <1>1, <1>4, <1>5 DEF r
<1> QED
  BY <1>6, <1>7, <1>3, <1>2

-----------------------------------------------------------------------------
(* gabs_pbuf_ci_insert.                                                     *)

\* What is reached from a position of a chain is what follows in it.
LEMMA SuffixReach ==
  ASSUME NEW fr, Acyclic(fr), NEW p, NEW c, Path(fr, p, c), NEW i \in 1 .. Len(c) + 1
  PROVE  /\ At(c, i) \in FN
         /\ Reach(fr, At(c, i)) = {c[j] : j \in i .. Len(c)}
<1> DEFINE d == SubSeq(c, i, Len(c))
<1>1. c \in Seq(Frags) /\ Len(c) \in Nat /\ i \in Nat /\ i >= 1 /\ i <= Len(c) + 1
  BY DEF Path
<1>2. At(c, i) \in FN
  BY <1>1, AtType
<1>3. Path(fr, At(c, i), d)
  BY PathSuffix
<1>4. Chain(fr, At(c, i)) = d
  <2> HIDE DEF d
  <2> QED BY <1>2, <1>3, ChainUnique
<1>5. Len(d) = Len(c) - i + 1 /\ DOMAIN d = 1 .. Len(d) /\ \A k \in 1 .. Len(d) : d[k] = c[i + k - 1]
  BY <1>1
<1> HIDE DEF d
<1>6. ToSet(d) = {c[j] : j \in i .. Len(c)}
  <2>1. ASSUME NEW g \in ToSet(d) PROVE g \in {c[j] : j \in i .. Len(c)}
    <3>1. PICK k \in 1 .. Len(d) : g = d[k]
      BY <2>1, <1>5 DEF ToSet
    <3>2. i + k - 1 \in i .. Len(c)
      BY <1>1, <1>5
    <3> QED BY <3>1, <3>2, <1>5
  <2>2. ASSUME NEW j \in i .. Len(c) PROVE c[j] \in ToSet(d)
    <3>1. j - i + 1 \in 1 .. Len(d) /\ i + (j - i + 1) - 1 = j
      BY <1>1, <1>5
    <3>2. d[j - i + 1] = c[j]
      BY <3>1, <1>5
    <3> QED BY <3>1, <3>2, <1>5 DEF ToSet
  <2> QED BY <2>1, <2>2
<1> QED
  BY <1>2, <1>4, <1>6 DEF Reach

\* The reference to the chain x goes into the chain; if it goes in front, the
\* reference to what was first comes out of the handle.
LEMMA InsertSound ==
  ASSUME NEW fr, Sound(fr), NEW p \in Frags, Refs(fr, p) >= 1, NEW c, Path(fr, p, c),
         NEW x \in Frags, Refs(fr, x) >= 1, Reach(fr, x) \cap ToSet(c) = {},
         NEW i \in 1 .. Len(c) + 1
  PROVE  LET fs == ci_insert(fr, c, i, x) IN
         /\ Sound(fs) /\ Keeps(fr, fs)
         /\ \A f \in Frags : fs[f].refcnt = fr[f].refcnt
         /\ \A f \in Frags : Refs(fs, f) = Refs(fr, f) - IF i = 1 THEN same(f, p) ELSE same(f, x)
<1> DEFINE d == Chain(fr, x)
           l == Last(d)
           n == At(c, i)
           b == tie(fr, l, n)
           fs == ci_insert(fr, c, i, x)
<1>1. /\ Heap(fr) /\ Acyclic(fr) /\ Tidy(fr)
      /\ c \in Seq(Frags) /\ Len(c) \in Nat /\ DOMAIN c = 1 .. Len(c)
      /\ \A j \in 1 .. Len(c) : c[j] \in Frags /\ fr[c[j]].refcnt >= 1 /\ fr[c[j]].next = At(c, j + 1)
      /\ c[1] = p /\ At(c, 1) = p
      /\ \A f \in Frags : fr[f].refcnt \in Nat
      /\ \A j, k \in 1 .. Len(c) : j # k => c[j] # c[k]
  <2>1. /\ \A j \in 1 .. Len(c) : fr[c[j]].refcnt >= 1
        /\ \A j, k \in 1 .. Len(c) : j # k => c[j] # c[k]
    BY PathLive, PathDistinct DEF Sound
  <2>2. Heap(fr) /\ Acyclic(fr) /\ Tidy(fr) /\ \A f \in Frags : fr[f].refcnt \in Nat
    BY DEF Sound, Heap, FragType
  <2>3. c \in Seq(Frags) /\ Len(c) \in Nat /\ DOMAIN c = 1 .. Len(c) /\ At(c, 1) = p
    BY DEF Path
  <2>4. \A j \in 1 .. Len(c) : c[j] \in Frags /\ fr[c[j]].next = At(c, j + 1)
    BY <2>3 DEF Path
  <2>5. c[1] = p
    BY <2>3, NullAssumption DEF At
  <2> QED BY <2>1, <2>2, <2>3, <2>4, <2>5
<1>2. /\ l \in Frags /\ fr[l].next = Null /\ fr[l].refcnt > 0 /\ l \in Reach(fr, x)
      /\ l \notin ToSet(c)
  <2>1. Path(fr, x, d) /\ \A j \in 1 .. Len(d) : fr[d[j]].refcnt >= 1
    <3>1. x \in FN
      BY DEF FN
    <3>2. Path(fr, x, d)
      BY <3>1, <1>1, ChainPath
    <3> HIDE DEF d
    <3> QED BY <3>2, PathLive
  <2>2. Reach(fr, x) = ToSet(d)
    BY DEF Reach
  <2> HIDE DEF d
  <2>3. d \in Seq(Frags) /\ Len(d) \in Nat /\ DOMAIN d = 1 .. Len(d) /\ At(d, 1) = x /\ x # Null
    BY <2>1, NullAssumption DEF Path
  <2>4. Len(d) \in 1 .. Len(d) /\ l = d[Len(d)]
    BY <2>3 DEF At, Last
  <2>5. fr[l].next = At(d, Len(d) + 1) /\ At(d, Len(d) + 1) = Null
    <3>1. \A j \in 1 .. Len(d) : fr[d[j]].next = At(d, j + 1)
      BY <2>1, <2>3 DEF Path
    <3>2. At(d, Len(d) + 1) = Null
      BY <2>3 DEF At
    <3> QED BY <3>1, <3>2, <2>4
  <2>6. l \in ToSet(d)
    BY <2>3, <2>4 DEF ToSet
  <2>7. l \in Frags /\ fr[l].refcnt >= 1
    BY <2>1, <2>3, <2>4
  <2>8. fr[l].refcnt > 0
    BY <2>7, <1>1
  <2> QED BY <2>2, <2>5, <2>6, <2>7, <2>8
<1>3. n \in FN /\ Reach(fr, n) = {c[j] : j \in i .. Len(c)} /\ l \notin Reach(fr, n)
  <2>1. n \in FN /\ Reach(fr, n) = {c[j] : j \in i .. Len(c)}
    BY <1>1, SuffixReach
  <2>2. {c[j] : j \in i .. Len(c)} \subseteq ToSet(c)
    <3>1. \A j \in i .. Len(c) : j \in DOMAIN c
      BY <1>1
    <3> QED BY <3>1 DEF ToSet
  <2> QED BY <2>1, <2>2, <1>2
<1> HIDE DEF d, n
<1>4. fs = IF i = 1 THEN b ELSE tie(b, c[i - 1], x)
  BY DEF ci_insert, tie, d, n
<1> HIDE DEF l, fs
<1>5. /\ Heap(b) /\ b[l].next = n /\ b[l].refcnt = fr[l].refcnt
      /\ \A f \in Frags \ {l} : b[f] = fr[f]
      /\ \A f \in Frags : Refs(b, f) = Refs(fr, f) - same(f, n) + same(f, Null)
  BY <1>1, <1>2, <1>3, Tie
<1>6. Keeps(fr, b) /\ Tidy(b)
  BY <1>1, <1>2, <1>3, TieKeeps, TieTidy
<1>7. \A f \in Frags : Refs(fr, f) \in Nat /\ Refs(b, f) = Refs(fr, f) - same(f, n)
  <2>1. \A f \in Frags : same(f, Null) = 0 /\ same(f, n) \in {0, 1}
    BY NullAssumption DEF same
  <2>2. \A f \in Frags : Refs(fr, f) \in Nat
    BY <1>1, NextsType DEF Refs, Sound
  <2> QED BY <2>1, <2>2, <1>5
<1> HIDE DEF b
<1>8. CASE i = 1
  <2>1. fs = b /\ n = p
    BY <1>4, <1>8, <1>1 DEF n
  <2>2. Acyclic(fs)
    <3>1. /\ Acyclic(fr) /\ l \in Frags /\ n \in FN /\ l \notin Reach(fr, n)
          /\ b[l].next = n /\ \A f \in Frags \ {l} : b[f].next = fr[f].next
      BY <1>1, <1>2, <1>3, <1>5
    <3> HIDE DEF n
    <3>2. Acyclic(b)
      BY <3>1, AcyclicTie
    <3> QED BY <3>2, <2>1
  <2>3. \A f \in Frags : Refs(fs, f) >= 0 /\ Refs(fs, f) = Refs(fr, f) - same(f, p)
    BY <2>1, <1>7 DEF same
  <2>4. Sound(fs)
    BY <2>1, <2>2, <2>3, <1>5, <1>6 DEF Sound
  <2> QED BY <2>1, <2>3, <2>4, <1>5, <1>6, <1>8 DEF fs
<1>9. CASE i # 1
  <2> DEFINE g == c[i - 1]
             a == tie(fr, g, x)
  <2>1. /\ i - 1 \in 1 .. Len(c) /\ g \in Frags /\ fr[g].next = n /\ fr[g].refcnt >= 1
        /\ g # l /\ x \in FN
    <3>1. i - 1 \in 1 .. Len(c) /\ (i - 1) + 1 = i
      BY <1>9, <1>1
    <3>2. g \in ToSet(c)
      BY <3>1, <1>1 DEF ToSet
    <3> QED BY <3>1, <3>2, <1>1, <1>2 DEF n, FN
  <2>2. g \notin Reach(fr, n) /\ g \notin Reach(fr, x)
    <3>1. g \in ToSet(c)
      BY <2>1, <1>1 DEF ToSet
    <3>2. \A j \in i .. Len(c) : j \in 1 .. Len(c) /\ j # i - 1
      BY <2>1, <1>1
    <3> QED BY <3>1, <3>2, <2>1, <1>1, <1>3
  <2>3. fs = tie(b, g, x)
    BY <1>4, <1>9
  <2> HIDE DEF g
  <2>4. a[g].next = x /\ \A f \in Frags \ {g} : a[f] = fr[f]
    BY <2>1, <1>1, Tie
  <2> HIDE DEF a
  <2>5. Acyclic(a)
    BY <2>1, <2>2, <2>4, <1>1, AcyclicTie
  <2>6. Reach(a, n) = Reach(fr, n)
    <3> DEFINE e == Chain(fr, n)
    <3>1. Path(fr, n, e) /\ Reach(fr, n) = ToSet(e)
      BY <1>1, <1>3, ChainPath DEF Reach
    <3> HIDE DEF e
    <3>2. \A j \in 1 .. Len(e) : e[j] \in Frags \ {g}
      <4>1. e \in Seq(Frags) /\ DOMAIN e = 1 .. Len(e)
        BY <3>1 DEF Path
      <4> QED BY <4>1, <3>1, <2>2 DEF ToSet
    <3>3. Path(a, n, e)
      BY <3>1, <3>2, <2>4, PathSame
    <3>4. Chain(a, n) = e
      BY <3>3, <2>5, <1>3, ChainUnique
    <3> QED BY <3>1, <3>4 DEF Reach
  <2>7. /\ Heap(fs) /\ fs[g].next = x /\ fs[g].refcnt = b[g].refcnt
        /\ \A f \in Frags \ {g} : fs[f] = b[f]
        /\ \A f \in Frags : Refs(fs, f) = Refs(b, f) - same(f, x) + same(f, n)
    <3>1. b[g].next = n
      BY <2>1, <1>5
    <3> QED BY <3>1, <2>1, <2>3, <1>5, Tie
  <2>8. Acyclic(fs)
    <3>1. fs[l].next = n /\ \A f \in Frags \ {l} : fs[f].next = a[f].next
      BY <2>1, <2>4, <2>7, <1>5, <1>2
    <3>2. l \notin Reach(a, n)
      BY <2>6, <1>3
    <3> QED BY <3>1, <3>2, <2>5, <1>2, <1>3, AcyclicTie
  <2>9. Tidy(fs) /\ Keeps(b, fs)
    <3>1. b[g].refcnt > 0
      BY <2>1, <1>1, <1>5
    <3> QED BY <3>1, <2>1, <2>3, <1>5, <1>6, TieTidy, TieKeeps
  <2>10. Keeps(fr, fs)
    BY <2>9, <1>6, KeepsTrans
  <2>11. \A f \in Frags : Refs(fs, f) >= 0 /\ Refs(fs, f) = Refs(fr, f) - same(f, x)
    BY <2>7, <1>7 DEF same
  <2>12. \A f \in Frags : fs[f].refcnt = fr[f].refcnt
    BY <2>1, <2>7, <1>5, <1>2
  <2>13. Sound(fs)
    BY <2>7, <2>8, <2>9, <2>11 DEF Sound
  <2> QED BY <2>10, <2>11, <2>12, <2>13, <1>9 DEF fs
<1> QED
  BY <1>8, <1>9

-----------------------------------------------------------------------------
(* The pieces of a view, and of a copy.                                     *)

\* What a loop over the fragments of a chain has come to after each of them.
Piece(s, f) ==
    LET len == least(frag[f].size - s.off, s.rest)
    IN  IF s.rest = 0 /\ s.out # <<>> THEN s
        ELSE [rest |-> s.rest - len, off |-> 0,
              out  |-> Append(s.out, [frag |-> f, off |-> s.off, len |-> len])]

\* t is the recursion of pieces: t[k] is what it has after the k-th fragment.
Taken(t, c, offset, n) ==
    \A k \in 0 .. Len(c) :
       t[k] = IF k < seek(frag, c, offset)
              THEN [rest |-> n, off |-> offset - upto(frag, c, seek(frag, c, offset) - 1), out |-> <<>>]
              ELSE Piece(t[k - 1], c[k])

\* The pieces of a view, as they are collected along the chain.
LEMMA PiecesAre ==
  ASSUME NEW c, Len(c) \in Nat, NEW offset, NEW n, seek(frag, c, offset) \in Nat \ {0}
  PROVE  \E t : Taken(t, c, offset, n) /\ pieces(c, offset, n) = t[Len(c)].out
<1> DEFINE i     == seek(frag, c, offset)
           first == [rest |-> n, off |-> offset - upto(frag, c, i - 1), out |-> <<>>]
           Step(s, j) == Piece(s, c[j])
<1>0. i \in Nat /\ i > 0
  OBVIOUS
<1> HIDE DEF Step, first, i
<1> DEFINE G(g, k) == g = [j \in 0 .. k |-> IF j < i THEN first ELSE Step(g[j - 1], j)]
           S == {k \in Nat : \E g : G(g, k)}
<1>1. 0 \in S
  <2>1. G([j \in 0 .. 0 |-> first], 0)
    BY <1>0
  <2> QED BY <2>1
<1>2. ASSUME NEW k \in Nat, k \in S PROVE k + 1 \in S
  <2>1. PICK g : G(g, k)
    BY <1>2
  <2> DEFINE h == [j \in 0 .. k + 1 |-> IF j < i THEN first
                                        ELSE IF j = k + 1 THEN Step(g[k], k + 1) ELSE g[j]]
  <2>2. ASSUME NEW j \in 0 .. k + 1 PROVE h[j] = IF j < i THEN first ELSE Step(h[j - 1], j)
    <3>0. \A m \in 0 .. k : h[m] = g[m]
      BY <2>1
    <3>1. CASE j = k + 1
      BY <3>0, <3>1, <1>0
    <3>2. CASE j # k + 1
      BY <3>0, <3>2, <2>1, <1>0
    <3> QED BY <3>1, <3>2
  <2>3. G(h, k + 1)
    BY <2>2
  <2> HIDE DEF h, G
  <2> QED BY <2>3
<1>3. \E g : G(g, Len(c))
  <2>1. Len(c) \in S
    <3> HIDE DEF S
    <3> QED BY <1>1, <1>2, InductionTo
  <2> QED BY <2>1
<1> DEFINE t == CHOOSE g : G(g, Len(c))
<1>4. G(t, Len(c))
  BY <1>3, Zenon
<1>5. pieces(c, offset, n) = t[Len(c)].out
  BY Zenon DEF pieces, Piece, Step, first, i
<1> HIDE DEF t
<1>6. \A k \in 0 .. Len(c) : t[k] = IF k < i THEN first ELSE Step(t[k - 1], k)
  BY <1>4
<1>7. Taken(t, c, offset, n)
  BY <1>6 DEF Taken, Step, first, i
<1> QED
  BY <1>5, <1>7

\* A piece lies in the data of a fragment of the chain.
PieceType(c) ==
    {e \in [frag : Frags, off : Nat, len : Nat] :
       e.frag \in ToSet(c) /\ e.off + e.len <= frag[e.frag].size}

\* The sum of the lengths of pieces, piece by piece.
Measured(out, w, n) ==
    /\ w \in [0 .. Len(out) -> Nat] /\ w[0] = 0 /\ w[Len(out)] = n
    /\ \A j \in 1 .. Len(out) : w[j] = w[j - 1] + out[j].len

\* A piece more, and its length more.
LEMMA MeasuredAppend ==
  ASSUME NEW T, NEW out \in Seq(T), NEW e \in T, \A x \in T : x.len \in Nat,
         NEW n \in Nat, NEW w, Measured(out, w, n)
  PROVE  \E v : Measured(Append(out, e), v, n + e.len)
<1> DEFINE a == Append(out, e)
           v == [j \in 0 .. Len(out) + 1 |-> IF j = Len(out) + 1 THEN n + e.len ELSE w[j]]
<1>1. /\ Len(out) \in Nat /\ Len(a) = Len(out) + 1 /\ a[Len(out) + 1] = e
      /\ \A j \in 1 .. Len(out) : a[j] = out[j]
  OBVIOUS
<1> HIDE DEF a
<1>2. /\ v \in [0 .. Len(a) -> Nat] /\ v[0] = 0 /\ v[Len(a)] = n + e.len
      /\ \A j \in 0 .. Len(out) : v[j] = w[j]
  BY <1>1 DEF Measured
<1> HIDE DEF v
<1>3. ASSUME NEW j \in 1 .. Len(a) PROVE v[j] = v[j - 1] + a[j].len
  <2>1. CASE j = Len(out) + 1
    BY <2>1, <1>1, <1>2 DEF Measured
  <2>2. CASE j # Len(out) + 1
    <3>1. j \in 1 .. Len(out) /\ j - 1 \in 0 .. Len(out) /\ j \in 0 .. Len(out)
      BY <2>2, <1>1
    <3> QED BY <3>1, <1>1, <1>2 DEF Measured
  <2> QED BY <2>1, <2>2
<1> QED
  BY <1>2, <1>3 DEF Measured, a

\* The pieces come from fragments of the chain, there is one at least if the offset
\* is in the chain, and together they have n bytes if the chain reaches that far.
LEMMA PiecesFit ==
  ASSUME Heap(frag), NEW c \in Seq(Frags), NEW offset \in Nat, NEW n \in Nat,
         offset + n <= upto(frag, c, Len(c))
  PROVE  LET p == pieces(c, offset, n) IN
         /\ p \in Seq(PieceType(c))
         /\ \E w : Measured(p, w, n)
         /\ seek(frag, c, offset) <= Len(c) => p # <<>>
<1> DEFINE i == seek(frag, c, offset)
           T == PieceType(c)
<1>1. /\ Len(c) \in Nat /\ DOMAIN c = 1 .. Len(c)
      /\ \A k \in 0 .. Len(c) : upto(frag, c, k) \in Nat
      /\ \A k \in 1 .. Len(c) : /\ c[k] \in Frags /\ frag[c[k]].size \in Nat /\ c[k] \in ToSet(c)
                                /\ upto(frag, c, k) = upto(frag, c, k - 1) + frag[c[k]].size
  BY UptoGrows DEF ToSet
<1>2. /\ i \in 1 .. Len(c) + 1 /\ i - 1 \in 0 .. Len(c)
      /\ upto(frag, c, i - 1) \in Nat /\ upto(frag, c, i - 1) <= offset
      /\ i <= Len(c) => offset - upto(frag, c, i - 1) \in 0 .. frag[c[i]].size
      /\ i > Len(c) => offset >= upto(frag, c, Len(c))
  BY SeekIs
<1>3. i \in Nat \ {0}
  BY <1>1, <1>2
<1> HIDE DEF i
<1>4. PICK t : Taken(t, c, offset, n) /\ pieces(c, offset, n) = t[Len(c)].out
  BY <1>1, <1>3, PiecesAre DEF i
<1>5. \A k \in 0 .. Len(c) :
        t[k] = IF k < i THEN [rest |-> n, off |-> offset - upto(frag, c, i - 1), out |-> <<>>]
               ELSE Piece(t[k - 1], c[k])
  BY <1>4 DEF Taken, i
<1>6. \A x \in T : x.len \in Nat
  BY DEF PieceType
<1> DEFINE s(k) == t[k]
           Common(k) ==
             /\ s(k).rest \in Nat /\ s(k).rest <= n
             /\ s(k).out \in Seq(T)
             /\ \E w : Measured(s(k).out, w, n - s(k).rest)
           Before(k) ==
             k < i => /\ s(k).out = <<>> /\ s(k).rest = n
                      /\ s(k).off = offset - upto(frag, c, i - 1)
           After(k) ==
             k >= i => /\ s(k).out # <<>> /\ s(k).off = 0
                       /\ s(k).rest = 0 \/ upto(frag, c, k) - offset + s(k).rest = n
           S == {k \in Nat : k <= Len(c) => Common(k) /\ Before(k) /\ After(k)}
<1> HIDE DEF T
<1>7. ASSUME NEW k \in 0 .. Len(c), k < i PROVE Common(k) /\ Before(k) /\ After(k)
  <2>1. s(k).rest = n /\ s(k).out = <<>> /\ s(k).off = offset - upto(frag, c, i - 1)
    BY <1>5, <1>7
  <2>2. Measured(<<>>, [j \in 0 .. 0 |-> 0], 0)
    BY DEF Measured
  <2> HIDE DEF s
  <2>3. n - s(k).rest = 0
    BY <2>1
  <2>4. Common(k)
    BY <2>1, <2>2, <2>3
  <2> QED BY <2>1, <2>4, <1>7, <1>3
<1>8. 0 \in S
  <2>1. 0 \in 0 .. Len(c) /\ 0 < i
    BY <1>1, <1>3
  <2> HIDE DEF Common, Before, After
  <2> QED BY <2>1, <1>7
<1>9. ASSUME NEW k \in Nat, k \in S PROVE k + 1 \in S
  <2> SUFFICES ASSUME k + 1 <= Len(c), k + 1 >= i PROVE Common(k + 1) /\ Before(k + 1) /\ After(k + 1)
    <3>1. k + 1 < i /\ k + 1 <= Len(c) => Common(k + 1) /\ Before(k + 1) /\ After(k + 1)
      <4> HIDE DEF Common, Before, After
      <4> QED BY <1>7, <1>1
    <3>2. k + 1 < i \/ k + 1 >= i
      BY <1>3
    <3> HIDE DEF Common, Before, After
    <3> QED BY <3>1, <3>2
  <2> DEFINE m    == k + 1
             f    == c[m]
             size == frag[f].size
             len  == least(size - s(k).off, s(k).rest)
             e    == [frag |-> f, off |-> s(k).off, len |-> len]
  <2>1. /\ m \in 1 .. Len(c) /\ m - 1 = k /\ k <= Len(c) /\ k \in 0 .. Len(c) /\ m \in 0 .. Len(c)
        /\ f \in Frags /\ f \in ToSet(c) /\ size \in Nat
        /\ upto(frag, c, m) = upto(frag, c, k) + size
        /\ upto(frag, c, m) \in Nat /\ upto(frag, c, k) \in Nat
    <3>1. m \in 1 .. Len(c) /\ m - 1 = k /\ k <= Len(c) /\ k \in 0 .. Len(c) /\ m \in 0 .. Len(c)
      <4>1. Len(c) \in Nat
        BY <1>1
      <4> QED BY <4>1
    <3> HIDE DEF m
    <3> QED BY <3>1, <1>1
  <2>2. Common(k) /\ Before(k) /\ After(k)
    BY <2>1, <1>9
  <2>3. s(m) = IF s(k).rest = 0 /\ s(k).out # <<>> THEN s(k)
               ELSE [rest |-> s(k).rest - len, off |-> 0, out |-> Append(s(k).out, e)]
    <3>1. s(m) = Piece(s(k), f)
      BY <2>1, <1>3, <1>5
    <3> HIDE DEF s, m
    <3> QED BY <3>1, Zenon DEF Piece
  <2> HIDE DEF s
  <2>4. s(k).off \in Nat /\ s(k).off <= size
    <3>1. CASE k < i
      <4>1. m = i
        BY <3>1, <2>1, <1>3
      <4>2. offset - upto(frag, c, i - 1) \in 0 .. size
        BY <4>1, <2>1, <1>2
      <4> QED BY <4>2, <3>1, <2>1, <2>2
    <3>2. CASE k >= i
      <4>1. s(k).off = 0
        BY <3>2, <2>2
      <4>2. size \in Nat
        BY <2>1
      <4> QED BY <4>1, <4>2
    <3> QED BY <3>1, <3>2, <1>3
  <2>5. CASE s(k).rest = 0 /\ s(k).out # <<>>
    <3>1. s(m) = s(k) /\ k >= i
      BY <2>2, <2>3, <2>5, <1>3
    <3>2. ~ (m < i) /\ m >= i
      BY <1>3
    <3> HIDE DEF m
    <3>3. Common(m)
      BY <3>1, <2>2
    <3>4. Before(m) /\ After(m)
      BY <3>1, <3>2, <2>2, <2>5
    <3> QED BY <3>3, <3>4 DEF m
  <2>6. CASE ~ (s(k).rest = 0 /\ s(k).out # <<>>)
    <3> HIDE DEF m, f, size, len, e
    <3>1. s(m).rest = s(k).rest - len /\ s(m).off = 0 /\ s(m).out = Append(s(k).out, e)
      BY <2>3, <2>6
    <3>2. /\ len \in Nat /\ len <= size - s(k).off /\ len <= s(k).rest /\ s(k).rest \in Nat
          /\ len = size - s(k).off \/ len = s(k).rest
      <4>1. size \in Nat /\ s(k).off \in Nat /\ s(k).off <= size /\ s(k).rest \in Nat
        BY <2>1, <2>2, <2>4
      <4> QED BY <4>1 DEF len, least
    <3>3. e \in T /\ e.len = len
      <4>1. e = [frag |-> f, off |-> s(k).off, len |-> len]
        BY DEF e
      <4>2. s(k).off + len <= frag[f].size
        BY <3>2, <2>1, <2>4 DEF size
      <4> QED BY <4>1, <4>2, <3>2, <2>1, <2>4 DEF T, PieceType
    <3>4. s(k).out \in Seq(T) /\ s(m).out \in Seq(T) /\ s(m).out # <<>>
      <4>1. s(k).out \in Seq(T)
        BY <2>2
      <4>2. Append(s(k).out, e) \in Seq(T) /\ Append(s(k).out, e) # <<>>
        <5>1. e \in T
          BY <3>3
        <5> QED BY <4>1, <5>1
      <4> QED BY <4>1, <4>2, <3>1
    <3>5. \E v : Measured(s(m).out, v, n - s(m).rest)
      <4>1. PICK w : Measured(s(k).out, w, n - s(k).rest)
        BY <2>2
      <4>2. n - s(k).rest \in Nat
        BY <2>2
      <4>3. \E v : Measured(Append(s(k).out, e), v, (n - s(k).rest) + e.len)
        BY <4>1, <4>2, <3>3, <3>4, <1>6, MeasuredAppend
      <4>4. (n - s(k).rest) + e.len = n - s(m).rest
        BY <3>1, <3>2, <3>3
      <4> QED BY <4>3, <4>4, <3>1
    <3>6. s(m).rest \in Nat /\ s(m).rest <= n
      <4> DEFINE u == s(k).rest
      <4>1. u \in Nat /\ u <= n
        BY <2>2
      <4>2. len \in Nat /\ len <= u /\ s(m).rest = u - len
        BY <3>1, <3>2
      <4> HIDE DEF u
      <4> QED BY <4>1, <4>2
    <3>7. s(m).rest = 0 \/ upto(frag, c, m) - offset + s(m).rest = n
      <4>1. CASE len = s(k).rest
        <5>1. s(m).rest = s(k).rest - len /\ s(k).rest \in Nat
          BY <3>1, <3>2
        <5> QED BY <5>1, <4>1
      <4>2. CASE len = size - s(k).off
        <5>1. CASE k < i
          <6>1. m = i
            BY <5>1, <2>1, <1>3 DEF m
          <6>2. s(k).off = offset - upto(frag, c, k) /\ s(k).rest = n
            BY <6>1, <5>1, <2>1, <2>2
          <6> QED BY <6>2, <4>2, <3>1, <3>2, <2>1
        <5>2. CASE k >= i
          <6>1. s(k).off = 0 /\ upto(frag, c, k) - offset + s(k).rest = n
            BY <5>2, <2>2, <2>6
          <6> QED BY <6>1, <4>2, <3>1, <3>2, <2>1
        <5> QED BY <5>1, <5>2, <1>3
      <4> QED BY <4>1, <4>2, <3>2
    <3>8. ~ (m < i)
      BY <2>1, <1>3 DEF m
    <3> QED BY <3>1, <3>4, <3>5, <3>6, <3>7, <3>8 DEF m
  <2> QED BY <2>5, <2>6
<1>10. Len(c) \in S
  <2> HIDE DEF S
  <2> QED BY <1>1, <1>8, <1>9, InductionTo
<1>11. Common(Len(c)) /\ Before(Len(c)) /\ After(Len(c))
  BY <1>10, <1>1
<1>12. s(Len(c)).rest = 0
  <2> HIDE DEF s
  <2>1. CASE Len(c) < i
    <3>1. offset >= upto(frag, c, Len(c)) /\ s(Len(c)).rest = n /\ upto(frag, c, Len(c)) \in Nat
      BY <2>1, <1>1, <1>2, <1>11
    <3> QED BY <3>1
  <2>2. CASE Len(c) >= i
    <3>1. upto(frag, c, Len(c)) \in Nat /\ s(Len(c)).rest \in Nat
      BY <1>1, <1>11
    <3>2. s(Len(c)).rest = 0 \/ upto(frag, c, Len(c)) - offset + s(Len(c)).rest = n
      BY <2>2, <1>11
    <3> QED BY <3>1, <3>2
  <2> QED BY <2>1, <2>2, <1>1, <1>3
<1>13. pieces(c, offset, n) = s(Len(c)).out
  BY <1>4
<1> HIDE DEF s
<1>14. n - s(Len(c)).rest = n
  BY <1>12
<1>15. i <= Len(c) => Len(c) >= i
  BY <1>1, <1>3
<1> QED
  BY <1>11, <1>13, <1>14, <1>15 DEF T, i

\* The concatenation of sequences, and its length.
LEMMA Flat ==
  ASSUME NEW V, NEW q \in Seq(Seq(V)), NEW w \in [0 .. Len(q) -> Nat], w[0] = 0,
         \A j \in 1 .. Len(q) : w[j] = w[j - 1] + Len(q[j])
  PROVE  FlattenSeq(q) \in Seq(V) /\ Len(FlattenSeq(q)) = w[Len(q)]
<1>1. Len(q) \in Nat /\ \A j \in 1 .. Len(q) : q[j] \in Seq(V) /\ Len(q[j]) \in Nat
  OBVIOUS
<1>2. CASE Len(q) = 0
  <2>1. FlattenSeq(q) = q /\ q = <<>>
    BY <1>2 DEF FlattenSeq
  <2> QED BY <2>1
<1>3. CASE Len(q) # 0
  <2> DEFINE Step(s, j) == s \o q[j]
  <2> HIDE DEF Step
  <2> DEFINE G(g, k) == g = [j \in 1 .. k |-> IF j = 1 THEN q[j] ELSE Step(g[j - 1], j)]
             S == {k \in Nat : \E g : G(g, k + 1)}
  <2>1. 0 \in S
    <3> DEFINE g == [j \in 1 .. 1 |-> q[1]]
    <3>1. g = [j \in 1 .. 1 |-> IF j = 1 THEN q[j] ELSE Step(g[j - 1], j)]
      OBVIOUS
    <3>2. G(g, 0 + 1)
      BY <3>1
    <3> HIDE DEF g, G
    <3> QED BY <3>2
  <2>2. ASSUME NEW k \in Nat, k \in S PROVE k + 1 \in S
    <3>1. PICK g : G(g, k + 1)
      BY <2>2
    <3> DEFINE h == [j \in 1 .. k + 2 |-> IF j = k + 2 THEN Step(g[k + 1], k + 2) ELSE g[j]]
    <3>2. ASSUME NEW j \in 1 .. k + 2 PROVE h[j] = IF j = 1 THEN q[j] ELSE Step(h[j - 1], j)
      <4>1. CASE j = k + 2
        BY <4>1
      <4>2. CASE j # k + 2
        BY <4>2, <3>1
      <4> QED BY <4>1, <4>2
    <3>3. G(h, (k + 1) + 1)
      <4>1. (k + 1) + 1 = k + 2
        OBVIOUS
      <4> QED BY <3>2, <4>1
    <3> HIDE DEF h, G
    <3> QED BY <3>3
  <2>3. \E g : G(g, Len(q))
    <3>1. Len(q) - 1 \in Nat /\ (Len(q) - 1) + 1 = Len(q)
      BY <1>1, <1>3
    <3>2. Len(q) - 1 \in S
      <4> HIDE DEF S
      <4> QED BY <3>1, <2>1, <2>2, InductionTo
    <3> QED BY <3>1, <3>2
  <2> DEFINE d == CHOOSE g : G(g, Len(q))
  <2>4. G(d, Len(q))
    BY <2>3, Zenon
  <2>5. FlattenSeq(q) = d[Len(q)]
    BY <1>3, Zenon DEF FlattenSeq, Step
  <2> HIDE DEF d
  <2>6. d[1] = q[1] /\ \A j \in 1 .. Len(q) : j # 1 => d[j] = Step(d[j - 1], j)
    <3>1. 1 \in 1 .. Len(q)
      BY <1>1, <1>3
    <3>2. \A j \in 1 .. Len(q) : d[j] = IF j = 1 THEN q[j] ELSE Step(d[j - 1], j)
      BY <2>4
    <3> QED BY <3>1, <3>2
  <2> DEFINE R == {k \in Nat : k + 1 <= Len(q) => d[k + 1] \in Seq(V) /\ Len(d[k + 1]) = w[k + 1]}
  <2>7. 0 \in R
    <3>1. 1 \in 1 .. Len(q) /\ w[1] = w[1 - 1] + Len(q[1]) /\ 1 - 1 = 0
      BY <1>1, <1>3
    <3> QED BY <3>1, <2>6, <1>1
  <2>8. ASSUME NEW k \in Nat, k \in R PROVE k + 1 \in R
    <3> SUFFICES ASSUME (k + 1) + 1 <= Len(q)
                 PROVE  d[(k + 1) + 1] \in Seq(V) /\ Len(d[(k + 1) + 1]) = w[(k + 1) + 1]
      OBVIOUS
    <3> DEFINE j == (k + 1) + 1
    <3>1. j \in 1 .. Len(q) /\ j # 1 /\ j - 1 = k + 1 /\ k + 1 <= Len(q)
      BY <1>1
    <3>2. d[k + 1] \in Seq(V) /\ Len(d[k + 1]) = w[k + 1]
      BY <3>1, <2>8
    <3> HIDE DEF j
    <3>3. d[j] = d[k + 1] \o q[j] /\ w[j] = w[k + 1] + Len(q[j]) /\ q[j] \in Seq(V)
      BY <3>1, <2>6, <1>1 DEF Step
    <3>4. Len(d[j]) = Len(d[k + 1]) + Len(q[j]) /\ d[j] \in Seq(V)
      <4>1. \A a, b \in Seq(V) : a \o b \in Seq(V) /\ Len(a \o b) = Len(a) + Len(b)
        OBVIOUS
      <4>2. d[k + 1] \in Seq(V) /\ q[j] \in Seq(V) /\ d[j] = d[k + 1] \o q[j]
        BY <3>2, <3>3
      <4> QED BY <4>1, <4>2, Zenon
    <3> QED BY <3>2, <3>3, <3>4 DEF j
  <2>9. Len(q) - 1 \in R /\ (Len(q) - 1) + 1 = Len(q)
    <3>1. Len(q) - 1 \in Nat /\ (Len(q) - 1) + 1 = Len(q)
      BY <1>1, <1>3
    <3> HIDE DEF R
    <3> QED BY <3>1, <2>7, <2>8, InductionTo
  <2>10. d[Len(q)] \in Seq(V) /\ Len(d[Len(q)]) = w[Len(q)]
    BY <2>9, <1>1
  <2> QED BY <2>5, <2>10
<1> QED
  BY <1>2, <1>3

\* The memory of fragments is there, as far as they see it.
Backed(S) ==
    /\ written \in Nat /\ bytes \in [Frags -> Seq(0 .. written)]
    /\ \A f \in S : /\ frag[f].mem \in Frags
                    /\ frag[f].data + frag[f].size <= Len(bytes[frag[f].mem])

\* A copy has as many bytes as were asked for.
LEMMA CopyIs ==
  ASSUME Heap(frag), NEW h, ChainOf(h) \in Seq(Frags), Backed(ToSet(ChainOf(h))),
         NEW offset \in Nat, NEW n \in Nat, offset + n <= total(h)
  PROVE  copy(h, offset, n) \in Seq(0 .. written) /\ Len(copy(h, offset, n)) = n
<1> DEFINE c == ChainOf(h)
           p == pieces(c, offset, n)
           q == [k \in DOMAIN p |-> segment(p[k].frag, p[k].off, p[k].len)]
           V == 0 .. written
<1>1. p \in Seq(PieceType(c)) /\ \E w : Measured(p, w, n)
  <2>1. offset + n <= upto(frag, c, Len(c))
    BY DEF total, size_of
  <2> HIDE DEF c
  <2> QED BY <2>1, PiecesFit DEF c
<1>2. PICK w : Measured(p, w, n)
  BY <1>1
<1>3. copy(h, offset, n) = FlattenSeq(q)
  BY DEF copy
<1>4. ASSUME NEW e \in PieceType(c)
      PROVE  segment(e.frag, e.off, e.len) \in Seq(V) /\ Len(segment(e.frag, e.off, e.len)) = e.len
  <2> DEFINE f == e.frag
             b == bytes[frag[f].mem]
  <2>1. /\ f \in Frags /\ f \in ToSet(c) /\ e.off \in Nat /\ e.len \in Nat
        /\ e.off + e.len <= frag[f].size
    BY <1>4 DEF PieceType
  <2>2. frag[f].data \in Nat /\ frag[f].size \in Nat
    BY <2>1 DEF Heap, FragType
  <2>3. b \in Seq(V) /\ frag[f].data + frag[f].size <= Len(b) /\ Len(b) \in Nat
    <3>1. frag[f].mem \in Frags /\ frag[f].data + frag[f].size <= Len(b)
      BY <2>1 DEF Backed
    <3>2. b \in Seq(V)
      BY <3>1 DEF Backed
    <3> QED BY <3>1, <3>2
  <2> HIDE DEF b, V
  <2>4. \A k \in 1 .. e.len : b[frag[f].data + e.off + k] \in V
    <3> SUFFICES ASSUME NEW k \in 1 .. e.len PROVE b[frag[f].data + e.off + k] \in V
      OBVIOUS
    <3>1. frag[f].data + e.off + k \in 1 .. Len(b)
      <4> DEFINE x == frag[f].data
                 y == frag[f].size
                 u == e.off
                 v == e.len
                 l == Len(b)
      <4>1. /\ x \in Nat /\ y \in Nat /\ u \in Nat /\ v \in Nat /\ l \in Nat
            /\ u + v <= y /\ x + y <= l /\ k \in 1 .. v
        BY <2>1, <2>2, <2>3
      <4> HIDE DEF x, y, u, v, l
      <4>2. x + u + k \in 1 .. l
        BY <4>1
      <4> QED BY <4>2 DEF x, u, l
    <3> QED BY <3>1, <2>3
  <2>5. segment(f, e.off, e.len) = [k \in 1 .. e.len |-> b[frag[f].data + e.off + k]]
    BY DEF segment, b
  <2> QED BY <2>1, <2>4, <2>5
<1>5. /\ Len(p) \in Nat /\ DOMAIN p = 1 .. Len(p) /\ \A k \in 1 .. Len(p) : p[k] \in PieceType(c)
  BY <1>1
<1> HIDE DEF p, V, c
<1>6. /\ q \in Seq(Seq(V)) /\ Len(q) = Len(p)
      /\ \A k \in 1 .. Len(p) : Len(q[k]) = p[k].len
  BY <1>4, <1>5
<1> HIDE DEF q
<1>7. w \in [0 .. Len(q) -> Nat] /\ w[0] = 0 /\ w[Len(q)] = n
  BY <1>2, <1>6 DEF Measured
<1>8. \A j \in 1 .. Len(q) : w[j] = w[j - 1] + Len(q[j])
  BY <1>2, <1>6 DEF Measured
<1>9. FlattenSeq(q) \in Seq(V) /\ Len(FlattenSeq(q)) = w[Len(q)]
  BY <1>6, <1>7, <1>8, Flat
<1> QED
  BY <1>3, <1>7, <1>9 DEF V

-----------------------------------------------------------------------------
(* gabs_pbuf_put.                                                           *)

\* What a fragment takes of the data.
taken(s, f) == least(tailroom(s.frag, f), Len(s.data))

\* A fragment takes no more than its tailroom, and nothing moves in the memory of any.
LEMMA FillFits ==
  ASSUME NEW s, NEW f \in Frags, Heap(s.frag), AllWithin(s.frag), s.frag[f].refcnt > 0,
         NEW V, s.bytes \in [Frags -> Seq(V)], s.data \in Seq(V)
  PROVE  LET r == Fill(s, f) IN
         /\ tailroom(s.frag, f) \in Nat /\ taken(s, f) \in Nat
         /\ taken(s, f) <= tailroom(s.frag, f) /\ taken(s, f) <= Len(s.data)
         /\ r.frag = ci_reserve_tail(s.frag, f, taken(s, f))
         /\ Resized(s.frag, r.frag, f) /\ AllWithin(r.frag)
         /\ r.frag[f].size = s.frag[f].size + taken(s, f)
         /\ r.bytes \in [Frags -> Seq(V)]
         /\ \A g \in Frags : Len(r.bytes[g]) = Len(s.bytes[g])
         /\ r.data \in Seq(V) /\ Len(r.data) = Len(s.data) - taken(s, f)
<1> DEFINE r   == Fill(s, f)
           n   == taken(s, f)
           m   == s.frag[f].mem
           end == s.frag[f].data + s.frag[f].size
           b   == [k \in DOMAIN s.bytes[m] |-> IF k \in end + 1 .. end + n
                                               THEN s.data[k - end] ELSE s.bytes[m][k]]
<1>1. /\ r.frag = ci_reserve_tail(s.frag, f, n)
      /\ r.bytes = [s.bytes EXCEPT ![m] = b]
      /\ r.data = SubSeq(s.data, n + 1, Len(s.data))
  BY DEF Fill, taken
<1> HIDE DEF r
<1>2. /\ s.frag[f] \in FragType /\ s.frag[f].base <= s.frag[f].data
      /\ s.frag[f].data + s.frag[f].size <= s.frag[f].base + s.frag[f].cap
  BY DEF Heap, AllWithin
<1>3. tailroom(s.frag, f) \in Nat /\ end \in Nat
  <2>1. /\ s.frag[f].base \in Nat /\ s.frag[f].data \in Nat
        /\ s.frag[f].size \in Nat /\ s.frag[f].cap \in Nat
    BY <1>2 DEF FragType
  <2>2. \A e, d, z, l \in Nat : e <= d /\ d + z <= e + l => l - z - (d - e) \in Nat /\ d + z \in Nat
    OBVIOUS
  <2> QED BY <2>1, <2>2, <1>2 DEF tailroom, headroom
<1>4. n \in Nat /\ n <= tailroom(s.frag, f) /\ n <= Len(s.data) /\ Len(s.data) \in Nat
  <2>1. Len(s.data) \in Nat
    OBVIOUS
  <2> QED BY <2>1, <1>3 DEF taken, least
<1> HIDE DEF n, end
<1>5. /\ Resized(s.frag, r.frag, f)
      /\ r.frag[f].data = s.frag[f].data /\ r.frag[f].size = s.frag[f].size + n
  BY <1>1, <1>4, TailResized
<1>6. AllWithin(r.frag)
  <2>1. s.frag[f].base <= r.frag[f].data
    BY <1>2, <1>5
  <2>2. r.frag[f].data + r.frag[f].size <= s.frag[f].base + s.frag[f].cap
    <3> DEFINE e == s.frag[f].base
               d == s.frag[f].data
               z == s.frag[f].size
               l == s.frag[f].cap
    <3>1. e \in Nat /\ d \in Nat /\ z \in Nat /\ l \in Nat /\ n \in Nat
      BY <1>2, <1>4 DEF FragType
    <3>2. n <= l - z - (d - e)
      BY <1>4 DEF tailroom, headroom
    <3>3. r.frag[f].data = d /\ r.frag[f].size = z + n
      BY <1>5
    <3> HIDE DEF e, d, z, l
    <3>4. d + (z + n) <= e + l
      BY <3>1, <3>2
    <3> QED BY <3>3, <3>4 DEF e, l
  <2> QED BY <2>1, <2>2, <1>5, ResizedWithin
<1>7. r.bytes \in [Frags -> Seq(V)] /\ \A g \in Frags : Len(r.bytes[g]) = Len(s.bytes[g])
  <2>1. CASE m \in Frags
    <3> DEFINE a == s.bytes[m]
    <3>1. a \in Seq(V) /\ Len(a) \in Nat /\ DOMAIN a = 1 .. Len(a) /\ \A k \in 1 .. Len(a) : a[k] \in V
      BY <2>1
    <3> HIDE DEF a, m
    <3>2. \A k \in 1 .. Len(a) : (IF k \in end + 1 .. end + n THEN s.data[k - end] ELSE a[k]) \in V
      <4> SUFFICES ASSUME NEW k \in 1 .. Len(a), k \in end + 1 .. end + n PROVE s.data[k - end] \in V
        BY <3>1
      <4>1. k - end \in 1 .. Len(s.data)
        BY <1>3, <1>4, <3>1
      <4> QED BY <4>1
    <3>3. b = [k \in 1 .. Len(a) |-> IF k \in end + 1 .. end + n THEN s.data[k - end] ELSE a[k]]
      BY <3>1 DEF a
    <3>4. b \in Seq(V) /\ Len(b) = Len(a)
      <4> HIDE DEF b
      <4> QED BY <3>1, <3>2, <3>3
    <3> HIDE DEF b
    <3> QED BY <3>4, <1>1, <2>1 DEF a
  <2>2. CASE m \notin Frags
    <3> HIDE DEF b
    <3>1. r.bytes = s.bytes
      BY <1>1, <2>2
    <3> QED BY <3>1
  <2> QED BY <2>1, <2>2
<1>8. r.data \in Seq(V) /\ Len(r.data) = Len(s.data) - n
  <2>1. \A a \in Seq(V) : \A k \in Nat : k <= Len(a) => /\ SubSeq(a, k + 1, Len(a)) \in Seq(V)
                                                         /\ Len(SubSeq(a, k + 1, Len(a))) = Len(a) - k
    OBVIOUS
  <2> QED BY <2>1, <1>1, <1>4
<1> QED
  BY <1>1, <1>3, <1>4, <1>5, <1>6, <1>7, <1>8 DEF r, n

\* t is the recursion of put.
Filled(t, c, data) ==
    /\ t[0] = [frag |-> frag, bytes |-> bytes, data |-> data]
    /\ \A k \in 1 .. Len(c) : t[k] = Fill(t[k - 1], c[k])

\* What gabs_pbuf_put has done after each fragment.
LEMMA FilledIs ==
  ASSUME NEW c, Len(c) \in Nat, NEW data
  PROVE  \E t : Filled(t, c, data) /\ put(c, data) = t[Len(c)]
<1> DEFINE first == [frag |-> frag, bytes |-> bytes, data |-> data]
           Step(s, j) == Fill(s, c[j])
<1> HIDE DEF Step, first
<1> DEFINE G(g, k) == g = [j \in 0 .. k |-> IF j = 0 THEN first ELSE Step(g[j - 1], j)]
           S == {k \in Nat : \E g : G(g, k)}
<1>1. 0 \in S
  <2>1. G([j \in 0 .. 0 |-> first], 0)
    OBVIOUS
  <2> QED BY <2>1
<1>2. ASSUME NEW k \in Nat, k \in S PROVE k + 1 \in S
  <2>1. PICK g : G(g, k)
    BY <1>2
  <2> DEFINE h == [j \in 0 .. k + 1 |-> IF j = k + 1 THEN Step(g[k], k + 1) ELSE g[j]]
  <2>2. ASSUME NEW j \in 0 .. k + 1 PROVE h[j] = IF j = 0 THEN first ELSE Step(h[j - 1], j)
    <3>1. CASE j = k + 1
      BY <3>1
    <3>2. CASE j # k + 1
      BY <3>2, <2>1
    <3> QED BY <3>1, <3>2
  <2>3. G(h, k + 1)
    BY <2>2
  <2> HIDE DEF h, G
  <2> QED BY <2>3
<1>3. \E g : G(g, Len(c))
  <2>1. Len(c) \in S
    <3> HIDE DEF S
    <3> QED BY <1>1, <1>2, InductionTo
  <2> QED BY <2>1
<1> DEFINE t == CHOOSE g : G(g, Len(c))
<1>4. G(t, Len(c))
  BY <1>3, Zenon
<1>5. put(c, data) = t[Len(c)]
  BY Zenon DEF put, Step, first
<1> HIDE DEF t
<1>6. t[0] = first /\ \A k \in 1 .. Len(c) : t[k] = Step(t[k - 1], k)
  BY <1>4
<1> QED
  BY <1>5, <1>6 DEF Filled, Step, first

\* What is put in a chain lands in its fragments, each as far as it has room.
LEMMA PutFits ==
  ASSUME Sound(frag), AllWithin(frag), NEW p \in Frags, Refs(frag, p) >= 1,
         NEW c, Path(frag, p, c), NEW V, bytes \in [Frags -> Seq(V)], NEW data \in Seq(V)
  PROVE  LET r == put(c, data) IN
         /\ Sound(r.frag) /\ AllWithin(r.frag) /\ Looks(frag, r.frag)
         /\ \A g \in Frags : /\ Refs(r.frag, g) = Refs(frag, g)
                             /\ r.frag[g].refcnt = frag[g].refcnt /\ r.frag[g].next = frag[g].next
         /\ r.bytes \in [Frags -> Seq(V)]
         /\ \A g \in Frags : Len(r.bytes[g]) = Len(bytes[g])
<1>1. /\ c \in Seq(Frags) /\ Len(c) \in Nat /\ DOMAIN c = 1 .. Len(c) /\ Len(c) >= 1
      /\ \A k \in 1 .. Len(c) : c[k] \in Frags /\ frag[c[k]].refcnt >= 1
      /\ \A j, k \in 1 .. Len(c) : j # k => c[j] # c[k]
  <2>1. /\ \A k \in 1 .. Len(c) : frag[c[k]].refcnt >= 1
        /\ \A j, k \in 1 .. Len(c) : j # k => c[j] # c[k]
    BY PathLive, PathDistinct DEF Sound
  <2>2. c \in Seq(Frags) /\ Len(c) \in Nat /\ DOMAIN c = 1 .. Len(c) /\ At(c, 1) = p
    BY DEF Path
  <2>3. Len(c) >= 1
    BY <2>2, NullAssumption DEF At
  <2> QED BY <2>1, <2>2, <2>3
<1>2. PICK t : Filled(t, c, data) /\ put(c, data) = t[Len(c)]
  BY <1>1, FilledIs
<1> DEFINE fr(k) == t[k].frag
           by(k) == t[k].bytes
           da(k) == t[k].data
           Whole(k) ==
             /\ Sound(fr(k)) /\ AllWithin(fr(k)) /\ Looks(frag, fr(k))
             /\ \A g \in Frags : /\ Refs(fr(k), g) = Refs(frag, g)
                                 /\ fr(k)[g].refcnt = frag[g].refcnt
                                 /\ fr(k)[g].next = frag[g].next
           Bytes(k) ==
             /\ by(k) \in [Frags -> Seq(V)] /\ da(k) \in Seq(V)
             /\ \A g \in Frags : Len(by(k)[g]) = Len(bytes[g])
           Inv(k) == Whole(k) /\ Bytes(k)
           S == {k \in Nat : k <= Len(c) => Inv(k)}
<1>3. fr(0) = frag /\ by(0) = bytes /\ da(0) = data
  BY <1>2 DEF Filled
<1>4. \A k \in 1 .. Len(c) : t[k] = Fill(t[k - 1], c[k])
  BY <1>2 DEF Filled
<1>6. 0 \in S
  <2> HIDE DEF fr, by, da
  <2>1. Looks(frag, frag)
    BY DEF Looks
  <2>2. Whole(0)
    BY <2>1, <1>3
  <2>3. Bytes(0)
    BY <1>3
  <2> QED BY <2>2, <2>3
<1>7. ASSUME NEW k \in Nat, k \in S PROVE k + 1 \in S
  <2> DEFINE m == k + 1
             f == c[m]
             n == taken(t[k], f)
  <2> SUFFICES ASSUME m <= Len(c) PROVE Inv(m)
    OBVIOUS
  <2>1. m \in 1 .. Len(c) /\ m - 1 = k /\ k <= Len(c) /\ m \in Nat
    <3>1. Len(c) \in Nat
      BY <1>1
    <3> QED BY <3>1
  <2> HIDE DEF m
  <2>2. f \in Frags /\ frag[f].refcnt >= 1 /\ Inv(k) /\ t[m] = Fill(t[k], f)
    BY <2>1, <1>1, <1>4, <1>7
  <2> HIDE DEF f
  <2>3. Heap(t[k].frag) /\ t[k].frag[f].refcnt > 0 /\ Sound(t[k].frag)
    <3>1. frag[f].refcnt \in Nat
      BY <2>2 DEF Sound, Heap, FragType
    <3> QED BY <3>1, <2>2 DEF Sound
  <2>4. /\ tailroom(fr(k), f) \in Nat /\ n \in Nat
        /\ n <= tailroom(fr(k), f) /\ n <= Len(da(k))
        /\ Resized(fr(k), fr(m), f) /\ AllWithin(fr(m))
        /\ fr(m)[f].size = fr(k)[f].size + n
        /\ by(m) \in [Frags -> Seq(V)]
        /\ \A g \in Frags : Len(by(m)[g]) = Len(by(k)[g])
        /\ da(m) \in Seq(V) /\ Len(da(m)) = Len(da(k)) - n
    <3> DEFINE r == Fill(t[k], f)
    <3>1. AllWithin(t[k].frag) /\ t[k].bytes \in [Frags -> Seq(V)] /\ t[k].data \in Seq(V)
      BY <2>2
    <3>2. /\ tailroom(t[k].frag, f) \in Nat /\ n \in Nat
          /\ n <= tailroom(t[k].frag, f) /\ n <= Len(t[k].data)
          /\ Resized(t[k].frag, r.frag, f) /\ AllWithin(r.frag)
          /\ r.frag[f].size = t[k].frag[f].size + n
          /\ r.bytes \in [Frags -> Seq(V)]
          /\ \A g \in Frags : Len(r.bytes[g]) = Len(t[k].bytes[g])
          /\ r.data \in Seq(V) /\ Len(r.data) = Len(t[k].data) - n
      BY <2>2, <2>3, <3>1, FillFits
    <3> HIDE DEF r, n
    <3>3. t[m] = r
      BY <2>2 DEF r
    <3> QED BY <3>2, <3>3
  <2> HIDE DEF n, fr, by, da
  <2>6. /\ Sound(fr(m)) /\ Looks(fr(k), fr(m))
        /\ \A g \in Frags : Refs(fr(m), g) = Refs(fr(k), g) /\ fr(m)[g].refcnt = fr(k)[g].refcnt
        /\ \A g \in Frags : fr(m)[g].next = fr(k)[g].next
    <3>1. Sound(fr(k)) /\ fr(k)[f].refcnt > 0 /\ Resized(fr(k), fr(m), f)
      BY <2>3, <2>4 DEF fr
    <3> QED BY <3>1, <2>2, ResizedSound
  <2>7. Whole(m)
    <3>1. Looks(frag, fr(m))
      BY <2>2, <2>6, LooksTrans
    <3> QED BY <3>1, <2>2, <2>4, <2>6
  <2>8. Bytes(m)
    BY <2>2, <2>4
  <2> QED BY <2>7, <2>8
<1>8. Len(c) \in S
  <2> HIDE DEF S
  <2> QED BY <1>1, <1>6, <1>7, InductionTo
<1>9. Inv(Len(c))
  <2> HIDE DEF Inv
  <2> QED BY <1>8, <1>1
<1> QED
  BY <1>2, <1>9 DEF fr, by

-----------------------------------------------------------------------------
(* The invariant.                                                           *)

\* The references that are not those of fragments are those of handles.
Counted(fr, hd) == Sound(fr) /\ \A f \in Frags : Refs(fr, f) = Pointing(hd, f)

\* What a fragment sees is there.
Backs(fr, by) ==
    \A f \in Frags : fr[f].refcnt > 0 =>
       /\ fr[f].mem \in Frags /\ fr[fr[f].mem].refcnt > 0
       /\ fr[f].base + fr[f].cap <= Len(by[fr[f].mem])

\* The inductive invariant.
IInv == TypeOK /\ Counted(frag, head) /\ AllWithin(frag) /\ Backs(frag, bytes)

\* The inductive invariant has the checked ones as its consequences.
LEMMA CountsFollow == ASSUME IInv PROVE RefCounts /\ InBounds
<1>1. /\ Sound(frag) /\ Heap(frag) /\ Tidy(frag) /\ \A f \in Frags : frag[f].refcnt \in Nat
      /\ \A f \in Frags : Refs(frag, f) = Pointing(head, f)
  BY DEF IInv, Counted, Sound, Heap, FragType
<1>2. ASSUME NEW f \in Frags
      PROVE  /\ frag[f].refcnt = Cardinality({h \in Handles : head[h] = f})
                               + Cardinality({g \in Live : frag[g].next = f})
             /\ f \notin Live => frag[f] = Blank
  <2>1. Pointing(head, f) = Cardinality({h \in Handles : head[h] = f})
    <3>1. DOMAIN head = Handles
      BY DEF IInv, TypeOK
    <3> QED BY <3>1 DEF Pointing
  <2>2. Pointing(nexts(frag), f) = Cardinality({g \in Live : frag[g].next = f})
    <3>1. \A g \in Frags : g \notin Live => frag[g].next = Null
      BY <1>1 DEF Live, Tidy, Blank
    <3>2. {g \in Frags : nexts(frag)[g] = f} = {g \in Live : frag[g].next = f}
      BY <3>1, NullAssumption DEF nexts, Live
    <3>3. DOMAIN nexts(frag) = Frags
      BY DEF nexts
    <3> QED BY <3>2, <3>3 DEF Pointing
  <2>3. Pointing(nexts(frag), f) \in Nat /\ Pointing(head, f) \in Int
    <3>1. Pointing(nexts(frag), f) \in Nat
      BY <1>1, NextsType
    <3>2. Pointing(head, f) = frag[f].refcnt - Pointing(nexts(frag), f) /\ frag[f].refcnt \in Nat
      BY <1>1 DEF Refs
    <3> QED BY <3>1, <3>2
  <2>4. frag[f].refcnt = Pointing(head, f) + Pointing(nexts(frag), f)
    BY <2>3, <1>1 DEF Refs
  <2>5. f \notin Live => frag[f] = Blank
    BY <1>1 DEF Live, Tidy
  <2> QED BY <2>1, <2>2, <2>4, <2>5
<1>3. RefCounts
  BY <1>2 DEF RefCounts
<1>4. InBounds
  BY DEF IInv, AllWithin, Backs, InBounds, Live
<1> QED
  BY <1>3, <1>4

\* A handle comes to point elsewhere.
given(hd, h, b) == [hd EXCEPT ![h] = b]

\* A handle is given another pointer: the counts follow.
LEMMA Handed ==
  ASSUME NEW hd \in [Handles -> FN], NEW h \in Handles, NEW b \in FN
  PROVE  /\ given(hd, h, b) \in [Handles -> FN]
         /\ given(hd, h, b)[h] = b /\ \A g \in Handles \ {h} : given(hd, h, b)[g] = hd[g]
         /\ \A f \in Frags : /\ Pointing(hd, f) \in Nat
                             /\ Pointing(given(hd, h, b), f)
                                  = Pointing(hd, f) + same(f, b) - same(f, hd[h])
<1>1. /\ given(hd, h, b) \in [Handles -> FN]
      /\ given(hd, h, b)[h] = b /\ \A g \in Handles \ {h} : given(hd, h, b)[g] = hd[g]
  BY DEF given
<1>2. ASSUME NEW f \in Frags
      PROVE  /\ Pointing(hd, f) \in Nat
             /\ Pointing(given(hd, h, b), f) = Pointing(hd, f) + same(f, b) - same(f, hd[h])
  BY FiniteAssumption, Redirected DEF given
<1> QED
  BY <1>1, <1>2

\* The chain of a handle that is not empty.
LEMMA Held ==
  ASSUME IInv, NEW h \in Handles, okay(h)
  PROVE  /\ head[h] \in Frags /\ Refs(frag, head[h]) >= 1
         /\ Path(frag, head[h], ChainOf(h))
         /\ ChainOf(h) \in Seq(Frags) /\ DOMAIN ChainOf(h) = 1 .. Len(ChainOf(h))
         /\ Len(ChainOf(h)) \in Nat /\ Len(ChainOf(h)) >= 1
         /\ \A i \in 1 .. Len(ChainOf(h)) : frag[ChainOf(h)[i]].refcnt >= 1
<1>1. Sound(frag) /\ head \in [Handles -> FN] /\ \A f \in Frags : Refs(frag, f) = Pointing(head, f)
  BY DEF IInv, TypeOK, Counted, FN
<1> DEFINE p == head[h]
           c == ChainOf(h)
<1>2. p \in Frags
  BY <1>1 DEF okay, FN
<1>3. Refs(frag, p) >= 1
  <2>1. Pointing(head, p) \in Nat /\ Pointing(head, p) # 0
    BY <1>1, FiniteAssumption, PointingNone
  <2> QED BY <2>1, <1>1, <1>2
<1>4. Path(frag, p, c)
  BY <1>1, <1>2, ChainPath DEF Sound, ChainOf, FN
<1> HIDE DEF p, c
<1>5. c \in Seq(Frags) /\ DOMAIN c = 1 .. Len(c) /\ Len(c) \in Nat /\ At(c, 1) = p
  BY <1>4 DEF Path
<1>6. Len(c) >= 1
  BY <1>5, <1>2, NullAssumption DEF At
<1>7. \A i \in 1 .. Len(c) : frag[c[i]].refcnt >= 1
  BY <1>1, <1>2, <1>3, <1>4, PathLive
<1> QED
  BY <1>2, <1>3, <1>4, <1>5, <1>6, <1>7 DEF p, c

\* Who finds a fragment in the chain of a handle, finds it allocated.
LEMMA HoldsSome ==
  ASSUME IInv, NEW h \in Handles, NEW f \in ToSet(ChainOf(h))
  PROVE  okay(h) /\ f \in Frags /\ frag[f].refcnt > 0
<1>1. okay(h)
  <2> SUFFICES ASSUME head[h] = Null PROVE FALSE
    BY DEF okay
  <2>1. Acyclic(frag)
    BY DEF IInv, Counted, Sound
  <2>2. Reach(frag, Null) = {}
    BY <2>1, ReachStep
  <2> QED BY <2>2 DEF Reach, ChainOf
<1>2. PICK i \in DOMAIN ChainOf(h) : f = ChainOf(h)[i]
  BY DEF ToSet
<1>3. f \in Frags /\ frag[f].refcnt >= 1
  BY <1>1, <1>2, Held
<1>4. frag[f].refcnt \in Nat
  BY <1>3 DEF IInv, TypeOK, FragType
<1> QED
  BY <1>1, <1>3, <1>4

\* A call costs one of its kind.
LEMMA Calls ==
  ASSUME TypeOK, NEW k \in Kinds, NEW c, Call(k, c)
  PROVE  left' \in [Kinds -> Nat]
  BY DEF TypeOK, Call

\* What is left after fragments have gone is still backed.
LEMMA ReleaseBacks ==
  ASSUME IInv, Heap(frag'), Looks(frag, frag'), Release
  PROVE  bytes' \in [Frags -> Seq(0 .. written)] /\ Backs(frag', bytes')
<1>1. /\ bytes' = [f \in Frags |-> IF frag'[f].refcnt = 0 THEN <<>> ELSE bytes[f]]
      /\ \A f \in Frags : frag'[f].refcnt > 0 => frag'[frag'[f].mem].refcnt > 0
  BY DEF Release
<1>2. bytes \in [Frags -> Seq(0 .. written)]
  BY DEF IInv, TypeOK
<1>3. bytes' \in [Frags -> Seq(0 .. written)]
  <2>1. \A f \in Frags : (IF frag'[f].refcnt = 0 THEN <<>> ELSE bytes[f]) \in Seq(0 .. written)
    <3> DEFINE V == 0 .. written
    <3>1. \A f \in Frags : bytes[f] \in Seq(V) /\ <<>> \in Seq(V)
      BY <1>2
    <3> HIDE DEF V
    <3>2. \A f \in Frags : (IF frag'[f].refcnt = 0 THEN <<>> ELSE bytes[f]) \in Seq(V)
      BY <3>1
    <3> QED BY <3>2 DEF V
  <2> QED BY <1>1, <2>1
<1>4. ASSUME NEW f \in Frags, frag'[f].refcnt > 0
      PROVE  /\ frag'[f].mem \in Frags /\ frag'[frag'[f].mem].refcnt > 0
             /\ frag'[f].base + frag'[f].cap <= Len(bytes'[frag'[f].mem])
  <2>1. /\ frag[f].refcnt > 0 /\ frag'[f].mem = frag[f].mem
        /\ frag'[f].base = frag[f].base /\ frag'[f].cap = frag[f].cap
    BY <1>4 DEF Looks
  <2>2. frag[f].mem \in Frags /\ frag[f].base + frag[f].cap <= Len(bytes[frag[f].mem])
    BY <2>1 DEF IInv, Backs
  <2>3. frag'[frag'[f].mem].refcnt > 0
    BY <1>1, <1>4
  <2>4. bytes'[frag[f].mem] = bytes[frag[f].mem]
    BY <1>1, <2>1, <2>2, <2>3
  <2> QED BY <2>1, <2>2, <2>3, <2>4
<1> QED
  BY <1>3, <1>4 DEF Backs

\* So is everything when nothing has gone.
LEMMA CalmBacks ==
  ASSUME IInv, Looks(frag, frag'), \A f \in Frags : frag'[f].refcnt = frag[f].refcnt,
         \A f \in Frags : Len(bytes'[f]) = Len(bytes[f])
  PROVE  Backs(frag', bytes')
  BY DEF IInv, Looks, Backs

-----------------------------------------------------------------------------
(* Each call keeps the invariant.                                           *)

\* At the start no fragment is allocated.
LEMMA Init_IInv == Init => IInv
<1> SUFFICES ASSUME Init PROVE IInv
  OBVIOUS
<1>1. /\ frag = [f \in Frags |-> Blank] /\ bytes = [f \in Frags |-> <<>>]
      /\ head = [h \in Handles |-> Null] /\ written = 0 /\ left = Budget
  BY DEF Init
<1>2. TypeOK
  <2>1. frag \in [Frags -> FragType]
    BY <1>1, BlankType
  <2>2. bytes \in [Frags -> Seq(0 .. written)]
    BY <1>1
  <2> QED BY <2>1, <2>2, <1>1, BudgetAssumption DEF TypeOK
<1>3. Heap(frag) /\ \A f \in Frags : frag[f].refcnt = 0 /\ frag[f].next = Null
  BY <1>1, <1>2 DEF TypeOK, Heap, Blank
<1>4. \A f \in Frags : Refs(frag, f) = 0 /\ Pointing(head, f) = 0
  <2>1. \A f \in Frags : Pointing(nexts(frag), f) = 0
    BY <1>3, NextsType, NullAssumption
  <2>2. ASSUME NEW f \in Frags PROVE Pointing(head, f) = 0
    <3>1. head \in [Handles -> FN] /\ \A h \in Handles : head[h] # f
      BY <1>1, NullAssumption DEF FN
    <3> QED BY <3>1, FiniteAssumption, PointingNone
  <2> QED BY <2>1, <2>2, <1>3 DEF Refs
<1>5. Acyclic(frag)
  <2> DEFINE r == [f \in FN |-> IF f = Null THEN 0 ELSE 1]
  <2>1. Ranked(frag, 1, r)
    BY <1>3, NullAssumption DEF Ranked, FN
  <2> QED BY <2>1 DEF Acyclic
<1>6. Tidy(frag)
  BY <1>1 DEF Tidy
<1>7. AllWithin(frag) /\ Backs(frag, bytes)
  BY <1>3 DEF AllWithin, Backs
<1> QED
  BY <1>2, <1>3, <1>4, <1>5, <1>6, <1>7 DEF IInv, Counted, Sound

\* One handle has moved, and its reference with it.
LEMMA HandleMoves ==
  ASSUME IInv, Sound(frag'), NEW h \in Handles, NEW b \in FN, head' = given(head, h, b),
         \A f \in Frags : Refs(frag', f) = Refs(frag, f) + same(f, b) - same(f, head[h])
  PROVE  head' \in [Handles -> FN] /\ Counted(frag', head')
<1>1. head \in [Handles -> FN] /\ \A f \in Frags : Refs(frag, f) = Pointing(head, f)
  BY DEF IInv, TypeOK, Counted, FN
<1>2. /\ head' \in [Handles -> FN]
      /\ \A f \in Frags : Pointing(head', f) = Pointing(head, f) + same(f, b) - same(f, head[h])
  <2> DEFINE hd == given(head, h, b)
  <2>1. /\ hd \in [Handles -> FN]
        /\ \A f \in Frags : Pointing(hd, f) = Pointing(head, f) + same(f, b) - same(f, head[h])
    BY <1>1, Handed
  <2> HIDE DEF hd
  <2>2. head' = hd
    BY DEF hd
  <2> QED BY <2>1, <2>2
<1> QED
  BY <1>1, <1>2 DEF Counted

\* gabs_pbuf_decref.
LEMMA Decref_IInv == ASSUME IInv, NEW h \in Handles, Decref(h) PROVE IInv'
<1> DEFINE p == head[h]
<1>1. /\ okay(h) /\ frag' = decref(frag, p) /\ head' = [head EXCEPT ![h] = Null]
      /\ Release /\ written' = written /\ left' = left
  BY DEF Decref
<1>2. Sound(frag) /\ p \in Frags /\ Refs(frag, p) >= 1 /\ AllWithin(frag)
  BY <1>1, Held DEF IInv, Counted
<1> HIDE DEF p
<1>3. /\ Sound(frag') /\ Keeps(frag, frag')
      /\ \A f \in Frags : Refs(frag', f) = Refs(frag, f) - same(f, p)
  BY <1>1, <1>2, DecrefSound, DecrefKeeps
<1>4. Looks(frag, frag') /\ AllWithin(frag') /\ Heap(frag')
  BY <1>2, <1>3, KeepsWithin DEF Sound
<1>5. head' \in [Handles -> FN] /\ Counted(frag', head')
  <2>1. \A f \in Frags : Refs(frag, f) \in Int /\ same(f, Null) = 0
    BY <1>2, NextsType, NullAssumption DEF Refs, Sound, Heap, FragType, same
  <2>2. \A f \in Frags : Refs(frag', f) = Refs(frag, f) + same(f, Null) - same(f, p)
    BY <2>1, <1>3 DEF same
  <2>3. head' = given(head, h, Null) /\ Null \in FN
    BY <1>1 DEF given, FN
  <2>4. \A f \in Frags : Refs(frag', f) = Refs(frag, f) + same(f, Null) - same(f, head[h])
    BY <2>2 DEF p
  <2>5. Sound(frag')
    BY <1>3
  <2> QED BY <2>3, <2>4, <2>5, HandleMoves
<1>6. bytes' \in [Frags -> Seq(0 .. written)] /\ Backs(frag', bytes')
  BY <1>1, <1>4, ReleaseBacks
<1> QED
  BY <1>1, <1>4, <1>5, <1>6 DEF IInv, TypeOK, Heap, FN

\* gabs_pbuf_ci_remove and gabs_pbuf_ci_detach, by what they do to the heap.
LEMMA Unlink_IInv ==
  ASSUME IInv, NEW h \in Handles, NEW fr, NEW b \in FN, NEW c, Unlink(h, fr, b, c),
         Sound(fr), Keeps(frag, fr),
         \A f \in Frags : Refs(fr, f) = Refs(frag, f) + same(f, b) - same(f, head[h])
  PROVE  IInv'
<1>1. /\ Call("trim", c) /\ frag' = fr /\ head' = [head EXCEPT ![h] = b]
      /\ Release /\ written' = written
  BY DEF Unlink
<1>2. Looks(frag, frag') /\ AllWithin(frag') /\ Heap(frag')
  BY <1>1, KeepsWithin DEF Sound, IInv
<1>3. head' \in [Handles -> FN] /\ Counted(frag', head')
  <2>1. head' = given(head, h, b) /\ Sound(frag')
    BY <1>1 DEF given
  <2>2. \A f \in Frags : Refs(frag', f) = Refs(frag, f) + same(f, b) - same(f, head[h])
    BY <1>1
  <2> QED BY <2>1, <2>2, HandleMoves
<1>4. bytes' \in [Frags -> Seq(0 .. written)] /\ Backs(frag', bytes')
  BY <1>1, <1>2, ReleaseBacks
<1>5. left' \in [Kinds -> Nat]
  BY <1>1, Calls DEF IInv, Kinds
<1> QED
  BY <1>1, <1>2, <1>3, <1>4, <1>5 DEF IInv, TypeOK, Heap, FN

\* Counts are numbers.
LEMMA IntRefs ==
  ASSUME NEW fr, Heap(fr)
  PROVE  \A f \in Frags : Refs(fr, f) \in Int
<1>1. \A f \in Frags : fr[f].refcnt \in Nat
  BY DEF Heap, FragType
<1> QED
  BY <1>1, NextsType DEF Refs

\* gabs_pbuf_ci_remove.
LEMMA RemoveFrag_IInv ==
  ASSUME IInv, NEW h \in Handles, NEW i \in DOMAIN ChainOf(h), RemoveFrag(h, i)
  PROVE  IInv'
<1> DEFINE c == ChainOf(h)
           p == head[h]
           fr == ci_remove(frag, c, i)
           b == IF i = 1 THEN At(c, 2) ELSE p
<1>1. okay(h)
  <2>1. c[i] \in ToSet(c)
    BY DEF ToSet
  <2> QED BY <2>1, HoldsSome
<1>2. /\ Sound(frag) /\ p \in Frags /\ Refs(frag, p) >= 1 /\ Path(frag, p, c)
      /\ c \in Seq(Frags) /\ DOMAIN c = 1 .. Len(c) /\ Len(c) \in Nat
  BY <1>1, Held DEF IInv, Counted
<1>3. Unlink(h, fr, b, <<"remove", h>>)
  BY DEF RemoveFrag
<1> HIDE DEF c, p
<1>4. i \in 1 .. Len(c)
  BY <1>2 DEF c
<1>5. /\ Sound(fr) /\ Keeps(frag, fr)
      /\ \A f \in Frags : Refs(fr, f) = Refs(frag, f)
           + IF i = 1 THEN same(f, frag[p].next) - same(f, p) ELSE 0
  BY <1>2, <1>4, RemoveSound
<1> HIDE DEF fr
<1>6. b \in FN
  BY <1>2, AtType DEF FN
<1>7. \A f \in Frags : Refs(fr, f) = Refs(frag, f) + same(f, b) - same(f, p)
  <2>1. \A f \in Frags : Refs(frag, f) \in Int
    BY <1>2, IntRefs DEF Sound
  <2>2. CASE i = 1
    <3>1. frag[p].next = At(c, 2)
      <4>1. c[1] = p /\ 1 \in DOMAIN c
        BY <1>2, <1>4, <2>2 DEF Path, At
      <4> QED BY <4>1, <1>2 DEF Path
    <3>2. b = At(c, 2)
      BY <2>2
    <3> HIDE DEF b
    <3> QED BY <3>1, <3>2, <2>1, <2>2, <1>5 DEF same
  <2>3. CASE i # 1
    <3>1. b = p
      BY <2>3
    <3> HIDE DEF b
    <3> QED BY <3>1, <2>1, <2>3, <1>5 DEF same
  <2> QED BY <2>2, <2>3
<1> HIDE DEF b
<1> QED
  BY <1>3, <1>5, <1>6, <1>7, Unlink_IInv DEF p

\* gabs_pbuf_ci_detach.
LEMMA Detach_IInv ==
  ASSUME IInv, NEW h \in Handles, NEW i \in DOMAIN ChainOf(h), Detach(h, i)
  PROVE  IInv'
<1> DEFINE c == ChainOf(h)
           p == head[h]
           fr == ci_detach(frag, c, i)
           b == IF i = 1 THEN Null ELSE p
<1>1. okay(h)
  <2>1. c[i] \in ToSet(c)
    BY DEF ToSet
  <2> QED BY <2>1, HoldsSome
<1>2. /\ Sound(frag) /\ p \in Frags /\ Refs(frag, p) >= 1 /\ Path(frag, p, c)
      /\ c \in Seq(Frags) /\ DOMAIN c = 1 .. Len(c) /\ Len(c) \in Nat
  BY <1>1, Held DEF IInv, Counted
<1>3. Unlink(h, fr, b, <<"detach", h>>)
  BY DEF Detach
<1> HIDE DEF c, p
<1>4. i \in 1 .. Len(c)
  BY <1>2 DEF c
<1>5. /\ Sound(fr) /\ Keeps(frag, fr)
      /\ \A f \in Frags : Refs(fr, f) = Refs(frag, f) - IF i = 1 THEN same(f, p) ELSE 0
  BY <1>2, <1>4, DetachSound
<1> HIDE DEF fr
<1>6. b \in FN
  BY <1>2 DEF FN
<1>7. \A f \in Frags : Refs(fr, f) = Refs(frag, f) + same(f, b) - same(f, p)
  <2>1. \A f \in Frags : Refs(frag, f) \in Int /\ same(f, Null) = 0
    BY <1>2, IntRefs, NullAssumption DEF Sound, same
  <2>2. CASE i = 1
    <3>1. b = Null
      BY <2>2
    <3> HIDE DEF b
    <3> QED BY <3>1, <2>1, <2>2, <1>5 DEF same
  <2>3. CASE i # 1
    <3>1. b = p
      BY <2>3
    <3> HIDE DEF b
    <3> QED BY <3>1, <2>1, <2>3, <1>5 DEF same
  <2> QED BY <2>2, <2>3
<1> HIDE DEF b
<1> QED
  BY <1>3, <1>5, <1>6, <1>7, Unlink_IInv DEF p

\* The size of a buffer.
LEMMA TotalIs ==
  ASSUME IInv, NEW h \in Handles
  PROVE  /\ total(h) \in Nat /\ total(h) = upto(frag, ChainOf(h), Len(ChainOf(h)))
         /\ ChainOf(h) \in Seq(Frags)
<1>1. Heap(frag) /\ ChainOf(h) \in Seq(Frags)
  <2>1. head[h] \in FN
    BY DEF IInv, TypeOK, FN
  <2>2. Acyclic(frag) /\ Heap(frag)
    BY DEF IInv, Counted, Sound
  <2> QED BY <2>1, <2>2, ChainPath DEF Path, ChainOf
<1> DEFINE c == ChainOf(h)
<1>2. total(h) = upto(frag, c, Len(c))
  BY DEF total, size_of
<1> HIDE DEF c
<1>3. upto(frag, c, Len(c)) \in Nat
  <2>1. c \in Seq(Frags) /\ Len(c) \in 0 .. Len(c)
    BY <1>1 DEF c
  <2> QED BY <2>1, <1>1, UptoGrows
<1> QED
  BY <1>1, <1>2, <1>3 DEF c

\* gabs_pbuf_shrink.
LEMMA Shrink_IInv ==
  ASSUME IInv, NEW h \in Handles, okay(h), NEW offset \in Nat, NEW size \in Nat,
         Shrink(h, offset, size), NEW c, Call("trim", c)
  PROVE  IInv'
<1> DEFINE p == head[h]
           r == shrink(frag, ChainOf(h), offset, size)
<1>1. /\ frag' = r.frag /\ head' = [head EXCEPT ![h] = r.head]
      /\ Release /\ written' = written
  BY DEF Shrink
<1>2. /\ Sound(frag) /\ p \in Frags /\ Refs(frag, p) >= 1 /\ Path(frag, p, ChainOf(h))
      /\ AllWithin(frag)
  BY Held DEF IInv, Counted
<1> HIDE DEF p
<1>3. /\ r.head \in FN
      /\ Sound(r.frag) /\ AllWithin(r.frag) /\ Looks(frag, r.frag)
      /\ \A f \in Frags : Refs(r.frag, f) = Refs(frag, f) - same(f, p) + same(f, r.head)
  BY <1>2, ShrinkSound
<1> HIDE DEF r
<1>4. \A f \in Frags : Refs(frag', f) = Refs(frag, f) + same(f, r.head) - same(f, p)
  <2>1. \A f \in Frags : Refs(frag, f) \in Int
    BY <1>2, IntRefs DEF Sound
  <2> QED BY <2>1, <1>1, <1>3 DEF same
<1>5. head' \in [Handles -> FN] /\ Counted(frag', head')
  <2>1. head' = given(head, h, r.head) /\ Sound(frag')
    BY <1>1, <1>3 DEF given
  <2>2. \A f \in Frags : Refs(frag', f) = Refs(frag, f) + same(f, r.head) - same(f, head[h])
    BY <1>4 DEF p
  <2> QED BY <2>1, <2>2, <1>3, HandleMoves
<1>6. bytes' \in [Frags -> Seq(0 .. written)] /\ Backs(frag', bytes')
  BY <1>1, <1>3, ReleaseBacks DEF Sound
<1>7. left' \in [Kinds -> Nat]
  BY Calls DEF IInv, Kinds
<1> QED
  BY <1>1, <1>3, <1>5, <1>6, <1>7 DEF IInv, TypeOK, Sound, Heap, FN

\* gabs_pbuf_strip_head.
LEMMA StripHead_IInv ==
  ASSUME IInv, NEW h \in Handles, NEW n \in 0 .. total(h), StripHead(h, n)
  PROVE  IInv'
<1>1. total(h) \in Nat
  BY TotalIs
<1>2. n \in Nat /\ total(h) - n \in Nat
  BY <1>1
<1>3. okay(h) /\ Shrink(h, n, total(h) - n) /\ Call("trim", <<"strip_head", h, n>>)
  BY DEF StripHead
<1> QED
  BY <1>2, <1>3, Shrink_IInv

\* gabs_pbuf_strip_tail.
LEMMA StripTail_IInv ==
  ASSUME IInv, NEW h \in Handles, NEW n \in 0 .. total(h), StripTail(h, n)
  PROVE  IInv'
<1>1. total(h) \in Nat
  BY TotalIs
<1>2. 0 \in Nat /\ total(h) - n \in Nat
  BY <1>1
<1>3. okay(h) /\ Shrink(h, 0, total(h) - n) /\ Call("trim", <<"strip_tail", h, n>>)
  BY DEF StripTail
<1> QED
  BY <1>2, <1>3, Shrink_IInv

\* An iterator has moved an end of the data of a fragment, within its memory.
LEMMA Resize_IInv ==
  ASSUME IInv, NEW h, NEW f \in Frags, frag[f].refcnt > 0, NEW fr, Resized(frag, fr, f),
         frag[f].base <= fr[f].data, fr[f].data + fr[f].size <= frag[f].base + frag[f].cap,
         NEW c, Resize(h, fr, c)
  PROVE  IInv'
<1>1. /\ Call("trim", c) /\ frag' = fr /\ bytes' = bytes /\ head' = head /\ written' = written
  BY DEF Resize
<1>2. Sound(frag) /\ AllWithin(frag) /\ Heap(frag) /\ \A g \in Frags : Refs(frag, g) = Pointing(head, g)
  BY DEF IInv, Counted, Sound
<1>3. /\ Sound(fr) /\ Looks(frag, fr)
      /\ \A g \in Frags : Refs(fr, g) = Refs(frag, g) /\ fr[g].refcnt = frag[g].refcnt
  BY <1>2, ResizedSound
<1>4. AllWithin(fr)
  BY <1>2, ResizedWithin
<1>5. Counted(frag', head')
  BY <1>1, <1>2, <1>3 DEF Counted
<1>6. Backs(frag', bytes')
  BY <1>1, <1>3, CalmBacks
<1>7. left' \in [Kinds -> Nat]
  BY <1>1, Calls DEF IInv, Kinds
<1> QED
  BY <1>1, <1>3, <1>4, <1>5, <1>6, <1>7 DEF IInv, TypeOK, Sound, Heap

\* The four operations of an iterator that move the ends of a fragment by one.
LEMMA Iterators_IInv ==
  ASSUME IInv, NEW h \in Handles, NEW f \in ToSet(ChainOf(h)),
         \/ ReserveHead(h, f) \/ ReleaseHead(h, f) \/ ReserveTail(h, f) \/ ReleaseTail(h, f)
  PROVE  IInv'
<1>1. f \in Frags /\ frag[f].refcnt > 0 /\ Heap(frag) /\ 1 \in Nat
  BY HoldsSome DEF IInv, Counted, Sound
<1> DEFINE b == frag[f].base
           d == frag[f].data
           z == frag[f].size
           l == frag[f].cap
<1>2. b \in Nat /\ d \in Nat /\ z \in Nat /\ l \in Nat /\ b <= d /\ d + z <= b + l
  BY <1>1 DEF IInv, AllWithin, Heap, FragType
<1>3. headroom(frag, f) = d - b /\ tailroom(frag, f) = l - z - (d - b)
  BY DEF headroom, tailroom
<1> HIDE DEF b, d, z, l
<1>4. CASE ReserveHead(h, f)
  <2> DEFINE fr == ci_reserve_head(frag, f, 1)
  <2>1. Resize(h, fr, <<"reserve", h>>) /\ 1 <= d /\ 1 <= d - b
    BY <1>2, <1>3, <1>4 DEF ReserveHead
  <2>2. Resized(frag, fr, f) /\ fr[f].data = d - 1 /\ fr[f].size = z + 1
    BY <2>1, <1>1, HeadResized DEF d, z
  <2> HIDE DEF fr
  <2>3. b <= fr[f].data /\ fr[f].data + fr[f].size <= b + l
    BY <2>1, <2>2, <1>2
  <2> QED BY <2>1, <2>2, <2>3, <1>1, Resize_IInv DEF b, l
<1>5. CASE ReleaseHead(h, f)
  <2> DEFINE fr == ci_release_head(frag, f, 1)
  <2>1. Resize(h, fr, <<"release", h>>) /\ 1 <= z
    BY <1>2, <1>5 DEF ReleaseHead, z
  <2>2. Resized(frag, fr, f) /\ fr[f].data = d + 1 /\ fr[f].size = z - 1
    BY <2>1, <1>1, HeadResized DEF d, z
  <2> HIDE DEF fr
  <2>3. b <= fr[f].data /\ fr[f].data + fr[f].size <= b + l
    BY <2>1, <2>2, <1>2
  <2> QED BY <2>1, <2>2, <2>3, <1>1, Resize_IInv DEF b, l
<1>6. CASE ReserveTail(h, f)
  <2> DEFINE fr == ci_reserve_tail(frag, f, 1)
  <2>1. Resize(h, fr, <<"reserve", h>>) /\ 1 <= l - z - (d - b)
    BY <1>2, <1>3, <1>6 DEF ReserveTail
  <2>2. Resized(frag, fr, f) /\ fr[f].data = d /\ fr[f].size = z + 1
    BY <1>1, TailResized DEF d, z
  <2> HIDE DEF fr
  <2>3. b <= fr[f].data /\ fr[f].data + fr[f].size <= b + l
    BY <2>1, <2>2, <1>2
  <2> QED BY <2>1, <2>2, <2>3, <1>1, Resize_IInv DEF b, l
<1>7. CASE ReleaseTail(h, f)
  <2> DEFINE fr == ci_release_tail(frag, f, 1)
  <2>1. Resize(h, fr, <<"release", h>>) /\ 1 <= z
    BY <1>2, <1>7 DEF ReleaseTail, z
  <2>2. Resized(frag, fr, f) /\ fr[f].data = d /\ fr[f].size = z - 1
    BY <2>1, <1>1, TailResized DEF d, z
  <2> HIDE DEF fr
  <2>3. b <= fr[f].data /\ fr[f].data + fr[f].size <= b + l
    BY <2>1, <2>2, <1>2
  <2> QED BY <2>1, <2>2, <2>3, <1>1, Resize_IInv DEF b, l
<1> QED
  BY <1>4, <1>5, <1>6, <1>7

\* A sequence over a set is one over any larger set.
LEMMA SeqWider ==
  ASSUME NEW A, NEW V, A \subseteq V, NEW s \in Seq(A)
  PROVE  s \in Seq(V)
<1>1. Len(s) \in Nat /\ \A i \in 1 .. Len(s) : s[i] \in V
  OBVIOUS
<1>2. s = [i \in 1 .. Len(s) |-> s[i]]
  OBVIOUS
<1> QED
  BY <1>1, <1>2

\* gabs_pbuf_put.
LEMMA Put_IInv ==
  ASSUME IInv, NEW h \in Handles, NEW n \in PutSizes, Put(h, n)
  PROVE  IInv'
<1> DEFINE c == ChainOf(h)
           d == Fresh(n)
           r == put(c, d)
           V == 0 .. written + n
<1>1. /\ Call("put", <<"put", h, d>>) /\ okay(h)
      /\ frag' = r.frag /\ bytes' = r.bytes /\ written' = written + n /\ head' = head
  BY DEF Put, Write
<1>2. n \in Nat /\ written \in Nat /\ bytes \in [Frags -> Seq(0 .. written)]
  BY CapAssumption DEF IInv, TypeOK
<1>3. /\ Sound(frag) /\ head[h] \in Frags /\ Refs(frag, head[h]) >= 1 /\ Path(frag, head[h], c)
      /\ AllWithin(frag) /\ \A f \in Frags : Refs(frag, f) = Pointing(head, f)
  BY <1>1, Held DEF IInv, Counted
<1>4. d \in Seq(V)
  BY <1>2 DEF Fresh
<1>5. bytes \in [Frags -> Seq(V)]
  <2>1. 0 .. written \subseteq V
    BY <1>2
  <2> HIDE DEF V
  <2>2. \A s \in Seq(0 .. written) : s \in Seq(V)
    BY <2>1, SeqWider
  <2> QED BY <2>2, <1>2
<1> HIDE DEF c, d, V
<1>6. /\ Sound(r.frag) /\ AllWithin(r.frag) /\ Looks(frag, r.frag)
      /\ \A g \in Frags : Refs(r.frag, g) = Refs(frag, g) /\ r.frag[g].refcnt = frag[g].refcnt
      /\ r.bytes \in [Frags -> Seq(V)]
      /\ \A g \in Frags : Len(r.bytes[g]) = Len(bytes[g])
  BY <1>3, <1>4, <1>5, PutFits
<1> HIDE DEF r
<1>7. Counted(frag', head')
  BY <1>1, <1>3, <1>6 DEF Counted
<1>8. Backs(frag', bytes')
  BY <1>1, <1>6, CalmBacks
<1>9. left' \in [Kinds -> Nat]
  BY <1>1, Calls DEF IInv, Kinds
<1>10. bytes' \in [Frags -> Seq(0 .. written')] /\ written' \in Nat
  BY <1>1, <1>2, <1>6 DEF V
<1> QED
  BY <1>1, <1>6, <1>7, <1>8, <1>9, <1>10 DEF IInv, TypeOK, Sound, Heap

\* The reference of g goes into the chain of h.
LEMMA Chained_IInv ==
  ASSUME IInv, NEW h \in Handles, NEW g \in Handles, NEW i \in 1 .. Len(ChainOf(h)) + 1, NEW k,
         Chained(h, g, i, k)
  PROVE  IInv'
<1> DEFINE c == ChainOf(h)
           p == head[h]
           x == head[g]
           b == IF i = 1 THEN x ELSE p
           hd == given(head, h, b)
<1>1. /\ Call("join", k) /\ okay(h) /\ okay(g) /\ h # g
      /\ ToSet(c) \cap ToSet(ChainOf(g)) = {}
      /\ frag' = ci_insert(frag, c, i, x)
      /\ head' = given(hd, g, Null)
      /\ bytes' = bytes /\ written' = written
  BY DEF Chained, given
<1>2. /\ Sound(frag) /\ p \in Frags /\ Refs(frag, p) >= 1 /\ Path(frag, p, c)
      /\ x \in Frags /\ Refs(frag, x) >= 1
      /\ AllWithin(frag) /\ head \in [Handles -> FN]
      /\ \A f \in Frags : Refs(frag, f) = Pointing(head, f)
  BY <1>1, Held DEF IInv, TypeOK, Counted, FN
<1>3. Reach(frag, x) \cap ToSet(c) = {}
  BY <1>1 DEF Reach, ChainOf
<1>4. i \in 1 .. Len(c) + 1 /\ b \in FN /\ Null \in FN /\ x = head[g] /\ p = head[h]
  BY <1>2 DEF FN
<1> HIDE DEF c, p, x
<1>5. /\ Sound(frag') /\ Keeps(frag, frag')
      /\ \A f \in Frags : frag'[f].refcnt = frag[f].refcnt
      /\ \A f \in Frags : Refs(frag', f) = Refs(frag, f) - IF i = 1 THEN same(f, p) ELSE same(f, x)
  <2> DEFINE fs == ci_insert(frag, c, i, x)
  <2>1. /\ Sound(fs) /\ Keeps(frag, fs)
        /\ \A f \in Frags : fs[f].refcnt = frag[f].refcnt
        /\ \A f \in Frags : Refs(fs, f) = Refs(frag, f) - IF i = 1 THEN same(f, p) ELSE same(f, x)
    BY <1>2, <1>3, <1>4, InsertSound
  <2> HIDE DEF fs
  <2>2. frag' = fs
    BY <1>1 DEF fs
  <2> QED BY <2>1, <2>2
<1>6. AllWithin(frag') /\ Looks(frag, frag')
  BY <1>2, <1>5, KeepsWithin
<1>7. /\ hd \in [Handles -> FN] /\ hd[g] = x
      /\ \A f \in Frags : /\ Pointing(head, f) \in Nat
                          /\ Pointing(hd, f) = Pointing(head, f) + same(f, b) - same(f, p)
  <2> HIDE DEF b
  <2> QED BY <1>1, <1>2, <1>4, Handed
<1> HIDE DEF hd
<1>8. /\ head' \in [Handles -> FN]
      /\ \A f \in Frags : Pointing(head', f) = Pointing(hd, f) + same(f, Null) - same(f, x)
  <2> DEFINE hx == given(hd, g, Null)
  <2>1. /\ hx \in [Handles -> FN]
        /\ \A f \in Frags : Pointing(hx, f) = Pointing(hd, f) + same(f, Null) - same(f, hd[g])
    BY <1>4, <1>7, Handed
  <2> HIDE DEF hx
  <2>2. head' = hx
    BY <1>1 DEF hx
  <2> QED BY <2>1, <2>2, <1>7
<1>9. ASSUME NEW f \in Frags PROVE Refs(frag', f) = Pointing(head', f)
  <2>1. /\ Refs(frag, f) = Pointing(head, f) /\ Pointing(head, f) \in Nat
        /\ same(f, Null) = 0 /\ same(f, p) \in {0, 1} /\ same(f, x) \in {0, 1}
    BY <1>2, <1>7, NullAssumption DEF same
  <2>2. CASE i = 1
    <3>1. b = x
      BY <2>2
    <3> HIDE DEF b
    <3> QED BY <3>1, <2>1, <2>2, <1>5, <1>7, <1>8
  <2>3. CASE i # 1
    <3>1. b = p
      BY <2>3
    <3> HIDE DEF b
    <3> QED BY <3>1, <2>1, <2>3, <1>5, <1>7, <1>8
  <2> QED BY <2>2, <2>3
<1>10. Backs(frag', bytes')
  BY <1>1, <1>5, <1>6, CalmBacks
<1>11. left' \in [Kinds -> Nat]
  BY <1>1, Calls DEF IInv, Kinds
<1> QED
  BY <1>1, <1>5, <1>6, <1>8, <1>9, <1>10, <1>11 DEF IInv, TypeOK, Counted, Sound, Heap, FN

\* gabs_pbuf_chain_front, gabs_pbuf_chain_back and gabs_pbuf_chain_at.
LEMMA Chains_IInv ==
  ASSUME IInv, NEW h \in Handles, NEW g \in Handles,
         \/ ChainFront(h, g)
         \/ ChainBack(h, g)
         \/ \E o \in 0 .. total(h) : ChainAt(h, g, o)
  PROVE  IInv'
<1>1. Len(ChainOf(h)) \in Nat /\ ChainOf(h) \in Seq(Frags) /\ total(h) \in Nat /\ Heap(frag)
  BY TotalIs DEF IInv, Counted, Sound
<1>2. CASE ChainFront(h, g)
  <2>1. 1 \in 1 .. Len(ChainOf(h)) + 1
    BY <1>1
  <2> QED BY <2>1, <1>2, Chained_IInv DEF ChainFront
<1>3. CASE ChainBack(h, g)
  <2>1. Len(ChainOf(h)) + 1 \in 1 .. Len(ChainOf(h)) + 1
    BY <1>1
  <2> QED BY <2>1, <1>3, Chained_IInv DEF ChainBack
<1>4. ASSUME NEW o \in 0 .. total(h), ChainAt(h, g, o) PROVE IInv'
  <2>1. o \in Nat
    BY <1>1
  <2>2. seek(frag, ChainOf(h), o) \in 1 .. Len(ChainOf(h)) + 1
    BY <2>1, <1>1, SeekIs
  <2> QED BY <2>2, <1>4, Chained_IInv DEF ChainAt
<1> QED
  BY <1>2, <1>3, <1>4

\* One reference is taken.
more(fr, p) == [fr EXCEPT ![p].refcnt = @ + 1]

\* One reference more.
LEMMA IncrefSound ==
  ASSUME NEW fr, Sound(fr), NEW p \in Frags, fr[p].refcnt > 0
  PROVE  /\ Sound(more(fr, p)) /\ Keeps(fr, more(fr, p))
         /\ \A f \in Frags : Refs(more(fr, p), f) = Refs(fr, f) + same(f, p)
         /\ \A f \in Frags : fr[f].refcnt > 0 => more(fr, p)[f].refcnt > 0
<1> DEFINE fs == more(fr, p)
<1>1. Heap(fr) /\ Acyclic(fr) /\ Tidy(fr)
  BY DEF Sound
<1>2. /\ Heap(fs) /\ fs[p].refcnt = fr[p].refcnt + 1 /\ fs[p].next = fr[p].next
      /\ fs[p].mem = fr[p].mem /\ fs[p].base = fr[p].base /\ fs[p].cap = fr[p].cap
      /\ fs[p].data = fr[p].data /\ fs[p].size = fr[p].size
      /\ \A f \in Frags \ {p} : fs[f] = fr[f]
      /\ \A f \in Frags : fr[f].refcnt \in Nat
  BY <1>1 DEF Heap, FragType, more
<1> HIDE DEF fs
<1>3. \A f \in Frags : fs[f].next = fr[f].next
  BY <1>2
<1>4. nexts(fs) = nexts(fr)
  BY <1>3 DEF nexts
<1>5. \A f \in Frags : Refs(fr, f) \in Int /\ Refs(fr, f) >= 0
  BY <1>1, IntRefs DEF Sound
<1>6. ASSUME NEW f \in Frags PROVE Refs(fs, f) = Refs(fr, f) + same(f, p)
  <2>1. fs[f].refcnt = fr[f].refcnt + same(f, p)
    BY <1>2 DEF same
  <2>2. Pointing(nexts(fr), f) \in Nat /\ fr[f].refcnt \in Nat /\ same(f, p) \in {0, 1}
    BY <1>1, <1>2, NextsType DEF same
  <2> QED BY <2>1, <2>2, <1>4 DEF Refs
<1>7. Acyclic(fs)
  BY <1>1, <1>3, AcyclicCut
<1>8. Tidy(fs)
  BY <1>1, <1>2 DEF Tidy
<1>9. Keeps(fr, fs)
  BY <1>2 DEF Keeps
<1>10. \A f \in Frags : Refs(fs, f) >= 0
  BY <1>5, <1>6 DEF same
<1>11. \A f \in Frags : fr[f].refcnt > 0 => fs[f].refcnt > 0
  BY <1>2
<1> QED
  BY <1>2, <1>6, <1>7, <1>8, <1>9, <1>10, <1>11 DEF Sound, fs

\* gabs_pbuf_incref.
LEMMA Incref_IInv ==
  ASSUME IInv, NEW h \in Handles, NEW g \in Handles, Incref(h, g)
  PROVE  IInv'
<1> DEFINE p == head[h]
<1>1. /\ Call("join", <<"incref", h, g>>) /\ okay(h) /\ head[g] = Null
      /\ frag' = more(frag, p) /\ head' = [head EXCEPT ![g] = p]
      /\ bytes' = bytes /\ written' = written
  BY DEF Incref, okay, more
<1>2. /\ Sound(frag) /\ p \in Frags /\ Path(frag, p, ChainOf(h)) /\ AllWithin(frag)
      /\ \A i \in 1 .. Len(ChainOf(h)) : frag[ChainOf(h)[i]].refcnt >= 1
      /\ Len(ChainOf(h)) \in Nat /\ Len(ChainOf(h)) >= 1
  BY <1>1, Held DEF IInv, Counted
<1>3. frag[p].refcnt > 0
  <2>1. 1 \in 1 .. Len(ChainOf(h)) /\ DOMAIN ChainOf(h) = 1 .. Len(ChainOf(h))
    BY <1>2 DEF Path
  <2>2. ChainOf(h)[1] = p
    BY <2>1, <1>2 DEF Path, At
  <2>3. frag[p].refcnt >= 1 /\ frag[p].refcnt \in Nat
    BY <2>1, <2>2, <1>2 DEF Sound, Heap, FragType
  <2> QED BY <2>3
<1> HIDE DEF p
<1>4. /\ Sound(frag') /\ Keeps(frag, frag')
      /\ \A f \in Frags : Refs(frag', f) = Refs(frag, f) + same(f, p)
      /\ \A f \in Frags : frag[f].refcnt > 0 => frag'[f].refcnt > 0
  BY <1>1, <1>2, <1>3, IncrefSound
<1>5. Looks(frag, frag') /\ AllWithin(frag')
  BY <1>2, <1>4, KeepsWithin
<1>6. head' \in [Handles -> FN] /\ Counted(frag', head')
  <2>1. \A f \in Frags : Refs(frag, f) \in Int /\ same(f, Null) = 0
    BY <1>2, IntRefs, NullAssumption DEF Sound, same
  <2>2. \A f \in Frags : Refs(frag', f) = Refs(frag, f) + same(f, p) - same(f, head[g])
    BY <2>1, <1>1, <1>4 DEF same
  <2>3. p \in FN
    BY <1>2 DEF FN
  <2>4. head' = given(head, g, p) /\ Sound(frag')
    BY <1>1, <1>4 DEF given
  <2> QED BY <2>2, <2>3, <2>4, HandleMoves
<1>7. Backs(frag', bytes')
  BY <1>1, <1>4, <1>5 DEF IInv, Backs, Looks
<1>8. left' \in [Kinds -> Nat]
  BY <1>1, Calls DEF IInv, Kinds
<1> QED
  BY <1>1, <1>4, <1>5, <1>6, <1>7, <1>8 DEF IInv, TypeOK, Sound, Heap, FN

\* A fragment is allocated.
plant(fr, f, r) == [fr EXCEPT ![f] = r]

\* A fragment that was not allocated comes to be, and the reference to it is in
\* somebody's hand.
LEMMA PlantSound ==
  ASSUME NEW fr, Sound(fr), NEW f \in Frags, fr[f].refcnt = 0,
         NEW r \in FragType, r.refcnt = 1, r.next = Null
  PROVE  /\ Sound(plant(fr, f, r)) /\ plant(fr, f, r)[f] = r
         /\ \A g \in Frags \ {f} : plant(fr, f, r)[g] = fr[g]
         /\ \A g \in Frags : Refs(plant(fr, f, r), g) = Refs(fr, g) + same(g, f)
<1> DEFINE fs == plant(fr, f, r)
<1>1. Heap(fr) /\ Acyclic(fr) /\ Tidy(fr)
  BY DEF Sound
<1>2. Heap(fs) /\ fs[f] = r /\ \A g \in Frags \ {f} : fs[g] = fr[g]
  BY <1>1 DEF Heap, plant
<1> HIDE DEF fs
<1>3. fr[f].next = Null
  BY <1>1 DEF Tidy, Blank
<1>4. \A g \in Frags : fs[g].next = fr[g].next
  BY <1>2, <1>3
<1>5. nexts(fs) = nexts(fr)
  BY <1>4 DEF nexts
<1>6. ASSUME NEW g \in Frags PROVE Refs(fs, g) = Refs(fr, g) + same(g, f) /\ Refs(fs, g) >= 0
  <2>1. /\ Pointing(nexts(fr), g) \in Nat /\ Refs(fr, g) >= 0 /\ same(g, f) \in {0, 1}
        /\ fr[g].refcnt \in Nat
    BY <1>1, NextsType DEF same, Sound, Heap, FragType
  <2>2. fs[g].refcnt = fr[g].refcnt + same(g, f)
    <3>1. CASE g = f
      BY <3>1, <1>2 DEF same
    <3>2. CASE g # f
      BY <3>2, <2>1, <1>2 DEF same
    <3> QED BY <3>1, <3>2
  <2> QED BY <2>1, <2>2, <1>5 DEF Refs
<1>7. Acyclic(fs)
  BY <1>1, <1>4, AcyclicCut
<1>8. Tidy(fs)
  BY <1>1, <1>2 DEF Tidy
<1> QED
  BY <1>2, <1>6, <1>7, <1>8 DEF Sound, fs

\* A handle that held nothing comes to hold a fragment with memory of its own.
LEMMA Planted_IInv ==
  ASSUME IInv, NEW h \in Handles, head[h] = Null, NEW f \in Frags, frag[f].refcnt = 0,
         NEW r \in FragType, r.refcnt = 1, r.next = Null,
         r.mem = f, r.base = 0, r.data = 0, r.size <= r.cap,
         written' \in Nat, written <= written',
         NEW m \in Seq(0 .. written'), r.cap = Len(m),
         frag' = plant(frag, f, r), bytes' = plant(bytes, f, m), head' = given(head, h, f),
         left' \in [Kinds -> Nat]
  PROVE  IInv'
<1> DEFINE V == 0 .. written'
<1>1. /\ Sound(frag) /\ AllWithin(frag) /\ Backs(frag, bytes)
      /\ bytes \in [Frags -> Seq(0 .. written)] /\ written \in Nat
  BY DEF IInv, Counted, TypeOK
<1>2. head' = [head EXCEPT ![h] = f] /\ bytes' = [bytes EXCEPT ![f] = m]
  BY DEF given, plant
<1>3. /\ Sound(frag') /\ frag'[f] = r
      /\ \A g \in Frags \ {f} : frag'[g] = frag[g]
      /\ \A g \in Frags : Refs(frag', g) = Refs(frag, g) + same(g, f)
  <2> DEFINE fs == plant(frag, f, r)
  <2>1. /\ Sound(fs) /\ fs[f] = r
        /\ \A g \in Frags \ {f} : fs[g] = frag[g]
        /\ \A g \in Frags : Refs(fs, g) = Refs(frag, g) + same(g, f)
    BY <1>1, PlantSound
  <2> HIDE DEF fs
  <2>2. frag' = fs
    BY DEF fs
  <2> QED BY <2>1, <2>2
<1>4. head' \in [Handles -> FN] /\ Counted(frag', head')
  <2>1. \A g \in Frags : Refs(frag, g) \in Int
    BY <1>1, IntRefs DEF Sound
  <2>2. \A g \in Frags : same(g, head[h]) = 0 /\ same(g, f) \in {0, 1}
    BY NullAssumption DEF same
  <2>3. \A g \in Frags : Refs(frag', g) = Refs(frag, g) + same(g, f) - same(g, head[h])
    <3> SUFFICES ASSUME NEW g \in Frags
                 PROVE  Refs(frag', g) = Refs(frag, g) + same(g, f) - same(g, head[h])
      OBVIOUS
    <3> DEFINE x == Refs(frag', g)
               y == Refs(frag, g)
               u == same(g, f)
               v == same(g, head[h])
    <3>1. y \in Int /\ u \in {0, 1} /\ v = 0 /\ x = y + u
      BY <2>1, <2>2, <1>3
    <3> HIDE DEF x, y, u, v
    <3>2. x = y + u - v
      BY <3>1
    <3> QED BY <3>2 DEF x, y, u, v
  <2>4. head' = given(head, h, f) /\ Sound(frag') /\ f \in FN
    BY <1>3 DEF FN
  <2> QED BY <2>3, <2>4, HandleMoves
<1>5. AllWithin(frag')
  <2>1. \A g \in Frags : frag'[g].refcnt > 0 /\ g # f =>
          /\ frag'[g].base <= frag'[g].data
          /\ frag'[g].data + frag'[g].size <= frag'[g].base + frag'[g].cap
    BY <1>1, <1>3 DEF AllWithin
  <2>2. frag'[f].base <= frag'[f].data /\ frag'[f].data + frag'[f].size <= frag'[f].base + frag'[f].cap
    <3>1. r.size \in Nat /\ r.cap \in Nat
      BY DEF FragType
    <3> QED BY <3>1, <1>3
  <2> QED BY <2>1, <2>2 DEF AllWithin
<1>6. bytes' \in [Frags -> Seq(V)] /\ bytes'[f] = m /\ \A g \in Frags \ {f} : bytes'[g] = bytes[g]
  <2>1. 0 .. written \subseteq V
    BY <1>1
  <2>2. m \in Seq(V)
    OBVIOUS
  <2> HIDE DEF V
  <2>3. \A g \in Frags : bytes[g] \in Seq(V)
    BY <2>1, <1>1, SeqWider
  <2> QED BY <2>2, <2>3, <1>1, <1>2
<1>7. Backs(frag', bytes')
  <2>1. ASSUME NEW g \in Frags, frag'[g].refcnt > 0, g # f
        PROVE  /\ frag'[g].mem \in Frags /\ frag'[frag'[g].mem].refcnt > 0
               /\ frag'[g].base + frag'[g].cap <= Len(bytes'[frag'[g].mem])
    <3>1. frag'[g] = frag[g] /\ frag[g].mem \in Frags /\ frag[frag[g].mem].refcnt > 0
      BY <2>1, <1>1, <1>3 DEF Backs
    <3>2. frag[g].mem # f
      BY <3>1
    <3> QED BY <2>1, <3>1, <3>2, <1>1, <1>3, <1>6 DEF Backs
  <2>2. /\ frag'[f].mem \in Frags /\ frag'[frag'[f].mem].refcnt > 0
        /\ frag'[f].base + frag'[f].cap <= Len(bytes'[frag'[f].mem])
    <3>1. Len(m) \in Nat
      OBVIOUS
    <3> QED BY <3>1, <1>3, <1>6
  <2> QED BY <2>1, <2>2 DEF Backs
<1> QED
  BY <1>3, <1>4, <1>5, <1>6, <1>7 DEF IInv, TypeOK, Sound, Heap, FN

\* A fragment that is not allocated has no references.
LEMMA NotLive ==
  ASSUME TypeOK, NEW f \in Frags, f \notin Live
  PROVE  frag[f].refcnt = 0
<1>1. frag[f].refcnt \in Nat
  BY DEF TypeOK, FragType
<1> QED
  BY <1>1 DEF Live

\* An allocation, over memory of its own or of the application.
LEMMA Allocate_IInv ==
  ASSUME IInv, NEW h \in Handles, NEW f \in Frags, NEW readonly \in BOOLEAN,
         written' \in Nat, written <= written', NEW m \in Seq(0 .. written'),
         Allocate(h, f, m, readonly), left' \in [Kinds -> Nat]
  PROVE  IInv'
<1> DEFINE r == [Blank EXCEPT !.refcnt = 1, !.mem = f, !.readonly = readonly, !.cap = Len(m),
                              !.size = IF readonly THEN Len(m) ELSE 0]
<1>1. /\ head[h] = Null /\ frag[f].refcnt = 0
      /\ frag' = plant(frag, f, r) /\ bytes' = plant(bytes, f, m) /\ head' = given(head, h, f)
  BY NotLive DEF Allocate, okay, IInv, plant, given
<1>2. Len(m) \in Nat
  OBVIOUS
<1>3. /\ r \in FragType /\ r.refcnt = 1 /\ r.next = Null
      /\ r.mem = f /\ r.base = 0 /\ r.data = 0 /\ r.cap = Len(m)
      /\ r.size = IF readonly THEN Len(m) ELSE 0
  <2> DEFINE l == Len(m)
             z == IF readonly THEN l ELSE 0
  <2>1. l \in Nat /\ z \in Nat
    BY <1>2
  <2> HIDE DEF l, z
  <2>2. LET q == [Blank EXCEPT !.refcnt = 1, !.mem = f, !.readonly = readonly, !.cap = l, !.size = z]
        IN  /\ q \in FragType /\ q.refcnt = 1 /\ q.next = Null
            /\ q.mem = f /\ q.base = 0 /\ q.data = 0 /\ q.cap = l /\ q.size = z
    BY <2>1 DEF FragType, Blank
  <2> QED BY <2>2 DEF l, z
<1> HIDE DEF r
<1>4. r.size <= r.cap
  BY <1>2, <1>3
<1> QED
  BY <1>1, <1>3, <1>4, Planted_IInv

\* gabs_pbuf_new.
LEMMA New_IInv == ASSUME IInv, NEW h \in Handles, New(h) PROVE IInv'
<1>1. PICK f \in Frags : Allocate(h, f, [i \in 1 .. Cap |-> Junk], FALSE)
  BY DEF New
<1>2. left' \in [Kinds -> Nat] /\ written' = written /\ written \in Nat
  BY Calls DEF New, IInv, Kinds, TypeOK
<1> DEFINE m == [i \in 1 .. Cap |-> Junk]
<1>3. m \in Seq(0 .. written')
  BY <1>2, CapAssumption DEF Junk
<1> HIDE DEF m
<1>4. written <= written' /\ written' \in Nat /\ FALSE \in BOOLEAN
  BY <1>2
<1>5. Allocate(h, f, m, FALSE)
  BY <1>1 DEF m
<1> QED
  BY <1>2, <1>3, <1>4, <1>5, Allocate_IInv

\* gabs_pbuf_new_ro.
LEMMA NewRo_IInv == ASSUME IInv, NEW h \in Handles, NEW n \in Nat, NewRo(h, n) PROVE IInv'
<1>1. PICK f \in Frags : Allocate(h, f, Fresh(n), TRUE)
  BY DEF NewRo
<1>2. left' \in [Kinds -> Nat] /\ written' = written + n /\ written \in Nat
  BY Calls DEF NewRo, Write, IInv, Kinds, TypeOK
<1>3. Fresh(n) \in Seq(0 .. written')
  BY <1>2 DEF Fresh
<1>4. written <= written' /\ written' \in Nat /\ TRUE \in BOOLEAN
  BY <1>2
<1> QED
  BY <1>1, <1>2, <1>3, <1>4, Allocate_IInv

\* The fragments of a buffer have memory, and enough of it.
LEMMA ChainBacked ==
  ASSUME IInv, NEW h \in Handles, okay(h)
  PROVE  Backed(ToSet(ChainOf(h)))
<1>1. ASSUME NEW f \in ToSet(ChainOf(h))
      PROVE  /\ frag[f].mem \in Frags
             /\ frag[f].data + frag[f].size <= Len(bytes[frag[f].mem])
  <2>1. f \in Frags /\ frag[f].refcnt > 0 /\ frag[f] \in FragType
    BY HoldsSome DEF IInv, TypeOK
  <2>2. /\ frag[f].mem \in Frags
        /\ frag[f].base + frag[f].cap <= Len(bytes[frag[f].mem])
        /\ frag[f].data + frag[f].size <= frag[f].base + frag[f].cap
    BY <2>1 DEF IInv, Backs, AllWithin
  <2>3. Len(bytes[frag[f].mem]) \in Nat
    BY <2>2 DEF IInv, TypeOK
  <2> QED BY <2>1, <2>2, <2>3 DEF FragType
<1> QED
  BY <1>1 DEF Backed, IInv, TypeOK

\* gabs_pbuf_clone.
LEMMA Clone_IInv ==
  ASSUME IInv, NEW h \in Handles, NEW g \in Handles, NEW o \in Nat, NEW n \in Nat,
         Clone(h, g, o, n)
  PROVE  IInv'
<1>1. PICK f \in Frags \ Live :
        /\ frag' = [frag EXCEPT ![f] =
                     [Blank EXCEPT !.refcnt = 1, !.mem = f, !.size = n, !.cap = n]]
        /\ bytes' = [bytes EXCEPT ![f] = copy(h, o, n)]
        /\ head' = [head EXCEPT ![g] = f]
  BY DEF Clone
<1>2. /\ okay(h) /\ head[g] = Null /\ o + n <= total(h) /\ written' = written
      /\ left' \in [Kinds -> Nat] /\ frag[f].refcnt = 0 /\ Heap(frag) /\ written \in Nat
  BY Calls, NotLive DEF Clone, okay, IInv, Kinds, TypeOK, Counted, Sound
<1>3. copy(h, o, n) \in Seq(0 .. written) /\ Len(copy(h, o, n)) = n
  BY <1>2, ChainBacked, TotalIs, CopyIs
<1> DEFINE r == [Blank EXCEPT !.refcnt = 1, !.mem = f, !.size = n, !.cap = n]
<1>4. /\ r \in FragType /\ r.refcnt = 1 /\ r.next = Null
      /\ r.mem = f /\ r.base = 0 /\ r.data = 0 /\ r.cap = n /\ r.size = n
  BY DEF FragType, Blank
<1> DEFINE m == copy(h, o, n)
<1>5. frag' = plant(frag, f, r) /\ bytes' = plant(bytes, f, m) /\ head' = given(head, g, f)
  BY <1>1 DEF plant, given
<1> HIDE DEF r
<1>6. /\ m \in Seq(0 .. written') /\ r.cap = Len(m) /\ r.size <= r.cap
      /\ written' \in Nat /\ written <= written'
  BY <1>2, <1>3, <1>4
<1> HIDE DEF m
<1> QED
  BY <1>2, <1>4, <1>5, <1>6, Planted_IInv

\* Fragments that were not allocated come to be, one pointing to the next.
LEMMA StrungSound ==
  ASSUME NEW fr, Sound(fr), NEW fs \in Seq(Frags), Len(fs) >= 1,
         \A i, j \in 1 .. Len(fs) : i # j => fs[i] # fs[j],
         \A i \in 1 .. Len(fs) : fr[fs[i]].refcnt = 0,
         NEW ft, Heap(ft), \A f \in Frags \ ToSet(fs) : ft[f] = fr[f],
         \A i \in 1 .. Len(fs) : ft[fs[i]].refcnt = 1 /\ ft[fs[i]].next = At(fs, i + 1)
  PROVE  /\ Sound(ft)
         /\ \A f \in Frags : Refs(ft, f) = Refs(fr, f) + same(f, fs[1])
<1>1. /\ Heap(fr) /\ Acyclic(fr) /\ Tidy(fr)
      /\ \A f \in Frags : fr[f].refcnt \in Nat /\ Refs(fr, f) >= 0 /\ fr[f].next \in FN
  BY DEF Sound, Heap, FragType, FN
<1>2. Len(fs) \in Nat /\ DOMAIN fs = 1 .. Len(fs) /\ \A i \in 1 .. Len(fs) : fs[i] \in Frags
  OBVIOUS
<1>3. ToSet(fs) = {fs[i] : i \in 1 .. Len(fs)}
  BY <1>2 DEF ToSet
<1>4. ASSUME NEW f \in ToSet(fs)
      PROVE  /\ f \in Frags /\ fr[f].refcnt = 0 /\ fr[f].next = Null
             /\ Refs(fr, f) = 0 /\ \A g \in Frags : fr[g].next # f
  <2>1. f \in Frags /\ fr[f].refcnt = 0
    BY <1>2, <1>3
  <2>2. fr[f].next = Null
    BY <2>1, <1>1 DEF Tidy, Blank
  <2>3. Pointing(nexts(fr), f) \in Nat /\ (Pointing(nexts(fr), f) = 0 <=> \A g \in Frags : fr[g].next # f)
    BY <1>1, NextsType
  <2>4. Refs(fr, f) = 0 - Pointing(nexts(fr), f) /\ Refs(fr, f) >= 0
    BY <2>1, <1>1 DEF Refs
  <2>5. Pointing(nexts(fr), f) = 0 /\ Refs(fr, f) = 0
    BY <2>3, <2>4
  <2> QED BY <2>1, <2>2, <2>3, <2>5
<1>5. ASSUME NEW f \in Frags PROVE Refs(ft, f) = Refs(fr, f) + same(f, fs[1])
  <2> DEFINE A == {g \in Frags : fr[g].next = f}
             B == {g \in Frags : ft[g].next = f}
  <2>1. Pointing(nexts(fr), f) = Cardinality(A) /\ Pointing(nexts(ft), f) = Cardinality(B)
    BY DEF Pointing, nexts
  <2>2. 1 \in 1 .. Len(fs) /\ fs[1] \in ToSet(fs)
    BY <1>2, <1>3
  <2>3. CASE f \notin ToSet(fs)
    <3>1. \A i \in 1 .. Len(fs) : At(fs, i + 1) # f
      <4> SUFFICES ASSUME NEW i \in 1 .. Len(fs), At(fs, i + 1) = f PROVE FALSE
        OBVIOUS
      <4>1. i + 1 \in 1 .. Len(fs) /\ fs[i + 1] = f
        BY <1>2, NullAssumption DEF At
      <4> QED BY <4>1, <2>3, <1>3
    <3>2. \A g \in ToSet(fs) : fr[g].next # f /\ ft[g].next # f
      BY <3>1, <1>3, <1>4, NullAssumption
    <3>3. B = A
      BY <3>2
    <3>4. same(f, fs[1]) = 0 /\ ft[f].refcnt = fr[f].refcnt
      BY <2>2, <2>3 DEF same
    <3> HIDE DEF A, B
    <3>5. Refs(fr, f) \in Int
      BY <1>1, IntRefs
    <3> QED BY <3>3, <3>4, <3>5, <2>1 DEF Refs
  <2>4. CASE f \in ToSet(fs)
    <3>1. PICK k \in 1 .. Len(fs) : f = fs[k]
      BY <2>4, <1>3
    <3>2. ft[f].refcnt = 1 /\ Refs(fr, f) = 0
      BY <3>1, <2>4, <1>4
    <3>3. ASSUME NEW g \in Frags, ft[g].next = f
          PROVE  \E i \in 1 .. Len(fs) : g = fs[i] /\ i + 1 = k
      <4>1. g \in ToSet(fs)
        BY <3>3, <2>4, <1>4
      <4>2. PICK i \in 1 .. Len(fs) : g = fs[i]
        BY <4>1, <1>3
      <4>3. At(fs, i + 1) = f
        BY <4>2, <3>3
      <4>4. i + 1 \in 1 .. Len(fs) /\ fs[i + 1] = f
        BY <4>3, <1>2, NullAssumption DEF At
      <4> QED BY <4>2, <4>4, <3>1
    <3>4. CASE k = 1
      <4>1. B = {}
        <5> SUFFICES ASSUME NEW g \in Frags, ft[g].next = f PROVE FALSE
          OBVIOUS
        <5>1. PICK i \in 1 .. Len(fs) : i + 1 = k
          BY <3>3
        <5> QED BY <5>1, <3>4, <1>2
      <4> HIDE DEF B
      <4>2. Cardinality(B) = 0
        BY <4>1, FS_EmptySet
      <4> QED BY <4>2, <3>1, <3>2, <3>4, <2>1 DEF Refs, same
    <3>5. CASE k # 1
      <4> DEFINE g == fs[k - 1]
      <4>1. k - 1 \in 1 .. Len(fs) /\ (k - 1) + 1 = k /\ g \in Frags
        BY <3>1, <3>5, <1>2
      <4>2. ft[g].next = f
        BY <4>1, <3>1, <1>2 DEF At
      <4>3. B = {g}
        <5>1. \A e \in Frags : ft[e].next = f => e = g
          <6> SUFFICES ASSUME NEW e \in Frags, ft[e].next = f PROVE e = g
            OBVIOUS
          <6>1. PICK i \in 1 .. Len(fs) : e = fs[i] /\ i + 1 = k
            BY <3>3
          <6>2. i = k - 1
            BY <6>1, <3>1, <1>2
          <6> QED BY <6>1, <6>2
        <5> HIDE DEF g
        <5> QED BY <5>1, <4>1, <4>2
      <4>4. same(f, fs[1]) = 0
        BY <3>1, <3>5, <2>2 DEF same
      <4> HIDE DEF B, g
      <4>5. Cardinality(B) = 1
        BY <4>3, FS_Singleton
      <4> QED BY <4>4, <4>5, <3>2, <2>1 DEF Refs
    <3> QED BY <3>4, <3>5
  <2> QED BY <2>3, <2>4
<1>6. Acyclic(ft)
  <2>1. PICK n, r : Ranked(fr, n, r)
    BY <1>1 DEF Acyclic
  <2> DEFINE place(f) == CHOOSE i \in 1 .. Len(fs) : fs[i] = f
             u == [f \in FN |-> IF f \in ToSet(fs) THEN n + 1 + Len(fs) - place(f) ELSE r[f]]
             N == n + 1 + Len(fs)
  <2>2. \A i \in 1 .. Len(fs) : place(fs[i]) = i
    <3> SUFFICES ASSUME NEW i \in 1 .. Len(fs) PROVE place(fs[i]) = i
      OBVIOUS
    <3>1. place(fs[i]) \in 1 .. Len(fs) /\ fs[place(fs[i])] = fs[i]
      OBVIOUS
    <3> HIDE DEF place
    <3> QED BY <3>1
  <2> HIDE DEF place
  <2>3. /\ n \in Nat /\ \A f \in FN : r[f] \in 0 .. n
        /\ \A f \in Frags : fr[f].next \in FN /\ r[fr[f].next] < r[f]
    BY <2>1 DEF Ranked
  <2>4. /\ \A i \in 1 .. Len(fs) : u[fs[i]] = n + 1 + Len(fs) - i
        /\ \A f \in FN \ ToSet(fs) : u[f] = r[f]
    <3>1. \A i \in 1 .. Len(fs) : fs[i] \in FN /\ fs[i] \in ToSet(fs)
      BY <1>2, <1>3 DEF FN
    <3> QED BY <3>1, <2>2
  <2>5. u \in [FN -> 0 .. N] /\ N \in Nat
    <3>1. \A f \in FN : u[f] \in 0 .. N
      <4> SUFFICES ASSUME NEW f \in FN PROVE u[f] \in 0 .. N
        OBVIOUS
      <4>1. CASE f \in ToSet(fs)
        <5>1. PICK i \in 1 .. Len(fs) : f = fs[i]
          BY <4>1, <1>3
        <5>2. u[f] = n + 1 + Len(fs) - i
          BY <5>1, <2>4
        <5> HIDE DEF u
        <5> QED BY <5>2, <2>3, <1>2
      <4>2. CASE f \notin ToSet(fs)
        <5>1. u[f] = r[f]
          BY <4>2, <2>4
        <5> HIDE DEF u
        <5> QED BY <5>1, <2>3, <1>2
      <4> QED BY <4>1, <4>2
    <3> HIDE DEF N
    <3>2. u = [f \in FN |-> u[f]]
      OBVIOUS
    <3>3. N \in Nat
      BY <2>3, <1>2 DEF N
    <3> HIDE DEF u
    <3> QED BY <3>1, <3>2, <3>3
  <2> HIDE DEF u
  <2>6. ASSUME NEW f \in Frags PROVE ft[f].next \in FN /\ u[ft[f].next] < u[f]
    <3>1. CASE f \in ToSet(fs)
      <4>1. PICK i \in 1 .. Len(fs) : f = fs[i]
        BY <3>1, <1>3
      <4>2. u[f] = n + 1 + Len(fs) - i /\ ft[f].next = At(fs, i + 1)
        BY <4>1, <2>4
      <4>3. CASE i = Len(fs)
        <5>1. ft[f].next = Null /\ Null \in FN /\ Null \notin ToSet(fs)
          <6>1. i + 1 \notin DOMAIN fs
            BY <4>3, <1>2
          <6> QED BY <6>1, <4>2, <1>2, <1>3, NullAssumption DEF At, FN
        <5>2. u[Null] = r[Null] /\ r[Null] \in 0 .. n
          BY <5>1, <2>3, <2>4
        <5> QED BY <5>1, <5>2, <4>2, <4>3, <2>3, <1>2
      <4>4. CASE i # Len(fs)
        <5>1. i + 1 \in 1 .. Len(fs)
          <6>1. Len(fs) \in Nat /\ i \in 1 .. Len(fs)
            BY <1>2
          <6> QED BY <6>1, <4>4
        <5>2. ft[f].next = fs[i + 1] /\ fs[i + 1] \in FN
          BY <5>1, <4>2, <1>2 DEF At, FN
        <5>3. u[fs[i + 1]] = n + 1 + Len(fs) - (i + 1)
          BY <5>1, <2>4
        <5> QED BY <5>2, <5>3, <4>2, <2>3, <1>2
      <4> QED BY <4>3, <4>4
    <3>2. CASE f \notin ToSet(fs)
      <4>1. ft[f].next = fr[f].next
        BY <3>2
      <4>2. fr[f].next \notin ToSet(fs)
        BY <1>4
      <4>3. f \in FN
        BY DEF FN
      <4> QED BY <4>1, <4>2, <4>3, <3>2, <2>3, <2>4
    <3> QED BY <3>1, <3>2
  <2> HIDE DEF N
  <2> QED BY <2>5, <2>6 DEF Acyclic, Ranked
<1>7. Tidy(ft)
  <2> SUFFICES ASSUME NEW f \in Frags, ft[f].refcnt = 0 PROVE ft[f] = Blank
    BY DEF Tidy
  <2>1. f \notin ToSet(fs)
    BY <1>3
  <2> QED BY <2>1, <1>1 DEF Tidy
<1>8. \A f \in Frags : Refs(ft, f) >= 0
  <2>1. \A f \in Frags : same(f, fs[1]) \in {0, 1} /\ Refs(fr, f) \in Int
    BY <1>1, IntRefs DEF same
  <2> QED BY <2>1, <1>1, <1>5
<1> QED
  BY <1>5, <1>6, <1>7, <1>8 DEF Sound

\* The fragment of a view that looks at the piece e, followed by b.
looking(e, b) ==
    LET d == frag[e.frag].data + e.off
    IN  [Blank EXCEPT !.refcnt = 1, !.mem = frag[e.frag].mem,
           !.base = d, !.data = d, !.size = e.len, !.cap = e.len,
           !.readonly = TRUE, !.next = b]

\* A fragment of a view.
LEMMA LookingIs ==
  ASSUME Heap(frag), NEW e, e.frag \in Frags, e.off \in Nat, e.len \in Nat, NEW b \in FN
  PROVE  LET r == looking(e, b) IN
         /\ r \in FragType /\ r.refcnt = 1 /\ r.next = b /\ r.mem = frag[e.frag].mem
         /\ r.base = frag[e.frag].data + e.off /\ r.data = r.base
         /\ r.size = e.len /\ r.cap = e.len
<1> DEFINE d == frag[e.frag].data + e.off
           m == frag[e.frag].mem
           l == e.len
<1>1. d \in Nat /\ m \in FN /\ l \in Nat
  BY DEF Heap, FragType, FN
<1>2. looking(e, b) = [Blank EXCEPT !.refcnt = 1, !.mem = m, !.base = d, !.data = d,
                                    !.size = l, !.cap = l, !.readonly = TRUE, !.next = b]
  BY DEF looking
<1> HIDE DEF d, m, l
<1> DEFINE r == [Blank EXCEPT !.refcnt = 1, !.mem = m, !.base = d, !.data = d,
                              !.size = l, !.cap = l, !.readonly = TRUE, !.next = b]
<1>3. /\ r \in FragType /\ r.refcnt = 1 /\ r.next = b /\ r.mem = m
      /\ r.base = d /\ r.data = d /\ r.size = l /\ r.cap = l
  BY <1>1 DEF FragType, Blank, FN
<1> HIDE DEF r
<1>4. looking(e, b) = r
  BY <1>2 DEF r
<1> QED
  BY <1>3, <1>4 DEF d, m, l

\* gabs_pbuf_view.
LEMMA View_IInv ==
  ASSUME IInv, NEW h \in Handles, NEW g \in Handles, NEW o \in Nat, NEW n \in Nat,
         View(h, g, o, n)
  PROVE  IInv'
<1> DEFINE c == ChainOf(h)
           p == pieces(c, o, n)
<1>1. PICK fs \in [DOMAIN p -> Frags \ Live] :
        /\ \A i, j \in DOMAIN p : i # j => fs[i] # fs[j]
        /\ frag' = [f \in Frags |->
             IF \E i \in DOMAIN p : fs[i] = f
               THEN LET i == CHOOSE i \in DOMAIN p : fs[i] = f
                    IN  looking(p[i], At(fs, i + 1))
               ELSE frag[f]]
        /\ head' = [head EXCEPT ![g] = fs[1]]
  BY DEF View, looking
<1>2. /\ okay(h) /\ head[g] = Null /\ o + n <= total(h) /\ (o = 0 \/ o < total(h))
      /\ bytes' = bytes /\ written' = written
      /\ Call("make", <<"view", h, g, o, n>>)
  BY DEF View, okay
<1>3. /\ Heap(frag) /\ Sound(frag) /\ AllWithin(frag) /\ Backs(frag, bytes)
      /\ total(h) \in Nat /\ total(h) = upto(frag, c, Len(c)) /\ c \in Seq(Frags)
      /\ Len(c) \in Nat /\ Len(c) >= 1
  BY <1>2, TotalIs, Held DEF IInv, Counted, Sound
<1>4. Backed(ToSet(c)) /\ \A f \in ToSet(c) : f \in Frags /\ frag[f].refcnt > 0
  BY <1>2, ChainBacked, HoldsSome
<1> HIDE DEF c, p
<1>5. p \in Seq(PieceType(c)) /\ p # <<>>
  <2>1. seek(frag, c, o) <= Len(c)
    <3>1. seek(frag, c, o) \in 1 .. Len(c) + 1 /\ (o = 0 => seek(frag, c, o) = 1)
          /\ (o < upto(frag, c, Len(c)) => seek(frag, c, o) <= Len(c))
      BY <1>3, SeekIs
    <3> QED BY <3>1, <1>2, <1>3
  <2>2. o + n <= upto(frag, c, Len(c))
    BY <1>2, <1>3
  <2> QED BY <2>1, <2>2, <1>3, PiecesFit DEF p
<1>6. /\ Len(p) \in Nat /\ Len(p) >= 1 /\ DOMAIN p = 1 .. Len(p)
      /\ \A i \in 1 .. Len(p) : p[i] \in PieceType(c)
  BY <1>5
<1>7. /\ fs \in Seq(Frags) /\ Len(fs) = Len(p) /\ DOMAIN fs = 1 .. Len(fs)
      /\ \A i \in 1 .. Len(fs) : fs[i] \in Frags /\ fs[i] \notin Live
      /\ \A i, j \in 1 .. Len(fs) : i # j => fs[i] # fs[j]
  <2>1. fs \in [1 .. Len(p) -> Frags \ Live]
    BY <1>1, <1>6
  <2>2. fs \in Seq(Frags) /\ Len(fs) = Len(p)
    BY <2>1, <1>6
  <2>3. \A i \in 1 .. Len(fs) : fs[i] \in Frags /\ fs[i] \notin Live
    BY <2>1, <2>2
  <2>4. \A i, j \in 1 .. Len(fs) : i # j => fs[i] # fs[j]
    BY <2>2, <1>1, <1>6
  <2> QED BY <2>1, <2>2, <2>3, <2>4
<1>8. \A i \in 1 .. Len(fs) : fs[i] \in Frags /\ frag[fs[i]].refcnt = 0
  BY <1>7, NotLive DEF IInv
<1>9. ToSet(fs) = {fs[i] : i \in 1 .. Len(fs)}
  BY <1>7 DEF ToSet
<1>10. ASSUME NEW i \in 1 .. Len(fs) PROVE frag'[fs[i]] = looking(p[i], At(fs, i + 1))
  <2> DEFINE k == CHOOSE j \in DOMAIN p : fs[j] = fs[i]
  <2>1. k \in DOMAIN p /\ fs[k] = fs[i]
    BY <1>6, <1>7
  <2>2. k = i
    <3> HIDE DEF k
    <3> QED BY <2>1, <1>6, <1>7
  <2>3. frag'[fs[i]] = looking(p[k], At(fs, k + 1))
    <3>1. i \in DOMAIN p /\ fs[i] \in Frags
      BY <1>6, <1>7
    <3> QED BY <3>1, <1>1
  <2> HIDE DEF k
  <2> QED BY <2>2, <2>3
<1>11. ASSUME NEW f \in Frags \ ToSet(fs) PROVE frag'[f] = frag[f]
  <2>1. ~ \E i \in DOMAIN p : fs[i] = f
    BY <1>6, <1>7, <1>9
  <2> QED BY <2>1, <1>1
<1>12. ASSUME NEW i \in 1 .. Len(fs)
       PROVE  /\ p[i].frag \in ToSet(c) /\ p[i].frag \in Frags /\ p[i].off \in Nat /\ p[i].len \in Nat
              /\ p[i].off + p[i].len <= frag[p[i].frag].size
              /\ At(fs, i + 1) \in FN
  <2>1. p[i] \in PieceType(c)
    BY <1>6, <1>7
  <2>2. At(fs, i + 1) \in FN
    BY <1>7, AtType
  <2> QED BY <2>1, <2>2 DEF PieceType
<1>13. ASSUME NEW i \in 1 .. Len(fs)
       PROVE  LET r == frag'[fs[i]]
                  e == p[i] IN
              /\ r \in FragType /\ r.refcnt = 1 /\ r.next = At(fs, i + 1)
              /\ r.mem = frag[e.frag].mem
              /\ r.base = frag[e.frag].data + e.off /\ r.data = r.base
              /\ r.size = e.len /\ r.cap = e.len
  <2> DEFINE r == looking(p[i], At(fs, i + 1))
  <2>1. /\ r \in FragType /\ r.refcnt = 1 /\ r.next = At(fs, i + 1)
        /\ r.mem = frag[p[i].frag].mem
        /\ r.base = frag[p[i].frag].data + p[i].off /\ r.data = r.base
        /\ r.size = p[i].len /\ r.cap = p[i].len
    BY <1>3, <1>12, LookingIs
  <2> HIDE DEF r
  <2>2. frag'[fs[i]] = r
    BY <1>10 DEF r
  <2> QED BY <2>1, <2>2
<1>14. Heap(frag')
  <2>1. \A f \in Frags : frag'[f] \in FragType
    <3> SUFFICES ASSUME NEW f \in Frags PROVE frag'[f] \in FragType
      OBVIOUS
    <3>1. CASE f \in ToSet(fs)
      BY <3>1, <1>9, <1>13
    <3>2. CASE f \notin ToSet(fs)
      BY <3>2, <1>3, <1>11 DEF Heap
    <3> QED BY <3>1, <3>2
  <2>2. frag' = [f \in Frags |-> frag'[f]]
    BY <1>1
  <2> QED BY <2>1, <2>2 DEF Heap
<1>15. Sound(frag') /\ \A f \in Frags : Refs(frag', f) = Refs(frag, f) + same(f, fs[1])
  <2>1. \A i \in 1 .. Len(fs) : frag'[fs[i]].refcnt = 1 /\ frag'[fs[i]].next = At(fs, i + 1)
    BY <1>13
  <2>2. Len(fs) >= 1
    BY <1>6, <1>7
  <2>3. Sound(frag) /\ fs \in Seq(Frags) /\ Heap(frag')
    BY <1>3, <1>7, <1>14
  <2>4. \A i, j \in 1 .. Len(fs) : i # j => fs[i] # fs[j]
    BY <1>7
  <2>5. \A i \in 1 .. Len(fs) : frag[fs[i]].refcnt = 0
    BY <1>8
  <2>6. \A f \in Frags \ ToSet(fs) : frag'[f] = frag[f]
    BY <1>11
  <2> QED BY <2>1, <2>2, <2>3, <2>4, <2>5, <2>6, StrungSound
<1>16. head' \in [Handles -> FN] /\ Counted(frag', head')
  <2>1. fs[1] \in FN
    BY <1>6, <1>7 DEF FN
  <2>2. \A f \in Frags : Refs(frag', f) = Refs(frag, f) + same(f, fs[1]) - same(f, head[g])
    <3> SUFFICES ASSUME NEW f \in Frags
                 PROVE  Refs(frag', f) = Refs(frag, f) + same(f, fs[1]) - same(f, head[g])
      OBVIOUS
    <3> DEFINE x == Refs(frag', f)
               y == Refs(frag, f)
               u == same(f, fs[1])
               v == same(f, head[g])
    <3>1. y \in Int
      BY <1>3, IntRefs
    <3>2. u \in {0, 1} /\ v = 0
      BY <1>2, NullAssumption DEF same
    <3>3. x = y + u
      BY <1>15
    <3> HIDE DEF x, y, u, v
    <3>4. x = y + u - v
      BY <3>1, <3>2, <3>3
    <3> QED BY <3>4 DEF x, y, u, v
  <2>3. head' = given(head, g, fs[1]) /\ Sound(frag')
    BY <1>1, <1>15 DEF given
  <2> QED BY <2>1, <2>2, <2>3, HandleMoves
<1>17. ASSUME NEW f \in Frags, frag'[f].refcnt > 0
       PROVE  /\ frag'[f].base <= frag'[f].data
              /\ frag'[f].data + frag'[f].size <= frag'[f].base + frag'[f].cap
              /\ frag'[f].mem \in Frags /\ frag'[frag'[f].mem].refcnt > 0
              /\ frag'[f].base + frag'[f].cap <= Len(bytes[frag'[f].mem])
  <2>1. ASSUME NEW q \in Frags, frag[q].refcnt > 0 PROVE frag'[q].refcnt > 0
    <3>1. q \notin ToSet(fs)
      BY <2>1, <1>8, <1>9
    <3> QED BY <3>1, <2>1, <1>11
  <2>2. CASE f \in ToSet(fs)
    <3>1. PICK i \in 1 .. Len(fs) : f = fs[i]
      BY <2>2, <1>9
    <3> DEFINE q == p[i].frag
               d == frag[q].data
               z == frag[q].size
               a == p[i].off
               l == p[i].len
               m == frag[q].mem
               L == Len(bytes[m])
    <3>2. q \in ToSet(c) /\ q \in Frags /\ a \in Nat /\ l \in Nat /\ a + l <= z
      BY <1>12
    <3>3. /\ frag'[f].mem = m /\ frag'[f].base = d + a /\ frag'[f].data = d + a
          /\ frag'[f].size = l /\ frag'[f].cap = l
      BY <3>1, <1>13
    <3>4. m \in Frags /\ d + z <= L
      BY <3>2, <1>4 DEF Backed
    <3>5. frag'[m].refcnt > 0
      <4>1. frag[q].refcnt > 0
        BY <3>2, <1>4
      <4>2. frag[m].refcnt > 0
        BY <4>1, <3>2, <1>3 DEF Backs
      <4> QED BY <4>2, <3>4, <2>1
    <3>6. d \in Nat /\ z \in Nat /\ L \in Nat
      <4>1. bytes[m] \in Seq(0 .. written)
        BY <3>4 DEF IInv, TypeOK
      <4> QED BY <4>1, <3>2, <1>3 DEF Heap, FragType
    <3> HIDE DEF d, z, a, l, m, L
    <3>7. d + a <= d + a /\ (d + a) + l <= (d + a) + l /\ (d + a) + l <= L
      BY <3>2, <3>4, <3>6
    <3> QED BY <3>3, <3>4, <3>5, <3>7 DEF L
  <2>3. CASE f \notin ToSet(fs)
    <3>1. frag'[f] = frag[f] /\ frag[f].refcnt > 0
      BY <2>3, <1>11, <1>17
    <3>2. /\ frag[f].base <= frag[f].data
          /\ frag[f].data + frag[f].size <= frag[f].base + frag[f].cap
          /\ frag[f].mem \in Frags /\ frag[frag[f].mem].refcnt > 0
          /\ frag[f].base + frag[f].cap <= Len(bytes[frag[f].mem])
      BY <3>1, <1>3 DEF AllWithin, Backs
    <3> QED BY <3>1, <3>2, <2>1
  <2> QED BY <2>2, <2>3
<1>18. AllWithin(frag') /\ Backs(frag', bytes')
  BY <1>2, <1>17 DEF AllWithin, Backs
<1>19. left' \in [Kinds -> Nat]
  BY <1>2, Calls DEF IInv, Kinds
<1> QED
  BY <1>2, <1>14, <1>16, <1>18, <1>19 DEF IInv, TypeOK, Heap, FN

\* Every call keeps the invariant.
LEMMA Next_IInv == IInv /\ [Next]_vars => IInv'
<1> SUFFICES ASSUME IInv, [Next]_vars PROVE IInv'
  OBVIOUS
<1>1. CASE UNCHANGED vars
  BY <1>1 DEF IInv, TypeOK, vars, heapVars
<1>2. ASSUME NEW h \in Handles, New(h) PROVE IInv'
  BY <1>2, New_IInv
<1>3. ASSUME NEW h \in Handles, NewRo(h, Cap) PROVE IInv'
  BY <1>3, NewRo_IInv, CapAssumption
<1>4. ASSUME NEW h \in Handles, Decref(h) PROVE IInv'
  BY <1>4, Decref_IInv
<1>5. ASSUME NEW h \in Handles, NEW n \in PutSizes, Put(h, n) PROVE IInv'
  BY <1>5, Put_IInv
<1>6. ASSUME NEW h \in Handles, NEW n \in 0 .. total(h), StripHead(h, n) \/ StripTail(h, n)
      PROVE  IInv'
  BY <1>6, StripHead_IInv, StripTail_IInv
<1>7. ASSUME NEW h \in Handles, NEW f \in ToSet(ChainOf(h)),
             \/ ReserveHead(h, f) \/ ReleaseHead(h, f) \/ ReserveTail(h, f) \/ ReleaseTail(h, f)
      PROVE  IInv'
  BY <1>7, Iterators_IInv
<1>8. ASSUME NEW h \in Handles, NEW i \in DOMAIN ChainOf(h), RemoveFrag(h, i) \/ Detach(h, i)
      PROVE  IInv'
  BY <1>8, RemoveFrag_IInv, Detach_IInv
<1>9. ASSUME NEW h \in Handles, NEW g \in Handles \ {h}, Incref(h, g) PROVE IInv'
  BY <1>9, Incref_IInv
<1>10. ASSUME NEW h \in Handles, NEW g \in Handles \ {h},
              \/ ChainFront(h, g) \/ ChainBack(h, g)
              \/ \E o \in 0 .. total(h) : ChainAt(h, g, o)
       PROVE  IInv'
  BY <1>10, Chains_IInv
<1>11. ASSUME NEW h \in Handles, NEW g \in Handles \ {h},
              NEW o \in 0 .. total(h), NEW n \in 0 .. total(h) - o,
              View(h, g, o, n) \/ Clone(h, g, o, n)
       PROVE  IInv'
  <2>1. total(h) \in Nat
    BY TotalIs
  <2>2. o \in Nat /\ n \in Nat
    BY <2>1
  <2> QED BY <1>11, <2>2, View_IInv, Clone_IInv
<1>12. CASE Next
  BY <1>12, <1>2, <1>3, <1>4, <1>5, <1>6, <1>7, <1>8, <1>9, <1>10, <1>11, Zenon DEF Next
<1> QED
  BY <1>1, <1>12

\* In every state reached the heap is sound, every reference is counted once, and every
\* fragment stays within memory that is still there.
THEOREM HeapInvariant == Spec => []IInv
<1>1. Init => IInv
  BY Init_IInv
<1>2. IInv /\ [Next]_vars => IInv'
  BY Next_IInv
<1> QED
  BY <1>1, <1>2, PTL DEF Spec

\* Every variable has its type: no count and no size becomes negative, however the calls
\* of the application are ordered.
THEOREM TypeCorrect == Spec => []TypeOK
<1>1. IInv => TypeOK
  BY DEF IInv
<1> QED
  BY <1>1, HeapInvariant, PTL

\* gabs_pbuf_incref and gabs_pbuf_decref: as many references as pointers, so that no
\* fragment leaks and no handle and no fragment points to one that was freed.
THEOREM ReferencesCounted == Spec => []RefCounts
<1>1. IInv => RefCounts
  BY CountsFollow
<1> QED
  BY <1>1, HeapInvariant, PTL

\* No operation of an iterator and no call on a buffer takes a fragment beyond the memory
\* it was given, or keeps it when that memory has gone.
THEOREM StaysInBounds == Spec => []InBounds
<1>1. IInv => InBounds
  BY CountsFollow
<1> QED
  BY <1>1, HeapInvariant, PTL

-----------------------------------------------------------------------------
(* What gabs_pbuf_put appends.                                              *)

\* The bytes that a fragment sees.
seg(fr, by, f) == [k \in 1 .. fr[f].size |-> by[fr[f].mem][fr[f].data + 0 + k]]

\* The bytes of the chain from p on.
Data(fr, by, p) ==
    LET from[f \in Frags \cup {Null}] ==
          IF f = Null THEN <<>> ELSE seg(fr, by, f) \o from[fr[f].next]
    IN  from[p]

\* A heap whose fragments see bytes.
Typed(fr, by) == Heap(fr) /\ Acyclic(fr) /\ \A f \in Frags : seg(fr, by, f) \in Seq(Nat)

\* One step of the recursion that collects the bytes of a chain.
DataStep(fr, by, w, q) == IF q = Null THEN <<>> ELSE seg(fr, by, q) \o w[fr[q].next]

\* If every chain ends, the recursion defines a function.
LEMMA DataExists ==
  ASSUME NEW fr, NEW by, Typed(fr, by)
  PROVE  \E w : /\ w = [q \in FN |-> IF q = Null THEN <<>> ELSE seg(fr, by, q) \o w[fr[q].next]]
                /\ w \in [FN -> Seq(Nat)]
<1>1. PICK n, r : Ranked(fr, n, r)
  BY DEF Acyclic, Typed
<1> DEFINE D(k) == {q \in FN : r[q] <= k}
           E(w, k) == w \in [D(k) -> Seq(Nat)] /\ \A q \in D(k) : w[q] = DataStep(fr, by, w, q)
           S == {k \in Nat : \E w : E(w, k)}
<1>2. 0 \in S
  <2>1. E([q \in D(0) |-> <<>>], 0)
    <3>1. \A q \in D(0) : q = Null
      BY <1>1 DEF Ranked, FN
    <3> QED BY <3>1 DEF DataStep
  <2> QED BY <2>1
<1>3. ASSUME NEW k \in Nat, k \in S PROVE k + 1 \in S
  <2>1. PICK w : E(w, k)
    BY <1>3
  <2> DEFINE v == [q \in D(k + 1) |-> IF q \in D(k) THEN w[q] ELSE DataStep(fr, by, w, q)]
  <2>2. ASSUME NEW q \in D(k + 1), q # Null PROVE fr[q].next \in D(k) /\ q \in Frags
    BY <1>1, <2>2 DEF Ranked, FN
  <2>3. ASSUME NEW q \in D(k + 1) PROVE v[q] = DataStep(fr, by, v, q) /\ v[q] \in Seq(Nat)
    <3>1. CASE q = Null
      <4>1. v[q] = <<>>
        BY <3>1, <2>1 DEF DataStep
      <4> HIDE DEF v
      <4> QED BY <3>1, <4>1 DEF DataStep
    <3>2. CASE q # Null
      <4>1. fr[q].next \in D(k) /\ fr[q].next \in D(k + 1) /\ q \in Frags
        BY <2>2, <3>2, <1>1 DEF Ranked, FN
      <4>2. v[fr[q].next] = w[fr[q].next] /\ w[fr[q].next] \in Seq(Nat)
        BY <4>1, <2>1
      <4>3. v[q] = DataStep(fr, by, w, q)
        BY <2>1
      <4>4. /\ DataStep(fr, by, w, q) = seg(fr, by, q) \o w[fr[q].next]
            /\ DataStep(fr, by, v, q) = seg(fr, by, q) \o v[fr[q].next]
        BY <3>2 DEF DataStep
      <4>5. seg(fr, by, q) \o w[fr[q].next] \in Seq(Nat)
        BY <4>1, <4>2 DEF Typed
      <4> HIDE DEF v
      <4> QED BY <4>2, <4>3, <4>4, <4>5
    <3> QED BY <3>1, <3>2
  <2>4. E(v, k + 1)
    BY <2>3
  <2> HIDE DEF v, E
  <2> QED BY <2>4
<1>4. PICK w : E(w, n)
  <2>1. n \in Nat
    BY <1>1 DEF Ranked
  <2>2. n \in S
    <3> HIDE DEF S
    <3> QED BY <2>1, <1>2, <1>3, InductionTo
  <2> QED BY <2>2
<1>5. D(n) = FN
  BY <1>1 DEF Ranked
<1> QED
  BY <1>4, <1>5, Zenon DEF DataStep

\* The bytes of a chain are those of its first fragment and of the chain that follows.
LEMMA DataIs ==
  ASSUME NEW fr, NEW by, Typed(fr, by)
  PROVE  /\ Data(fr, by, Null) = <<>>
         /\ \A p \in Frags : Data(fr, by, p) = seg(fr, by, p) \o Data(fr, by, fr[p].next)
         /\ \A p \in FN : Data(fr, by, p) \in Seq(Nat)
<1> DEFINE w == CHOOSE w : w = [q \in FN |-> IF q = Null THEN <<>>
                                             ELSE seg(fr, by, q) \o w[fr[q].next]]
<1>1. \A p : Data(fr, by, p) = w[p]
  BY Zenon DEF Data, FN
<1>2. PICK v : /\ v = [q \in FN |-> IF q = Null THEN <<>> ELSE seg(fr, by, q) \o v[fr[q].next]]
               /\ v \in [FN -> Seq(Nat)]
  BY DataExists, Zenon
<1>3. w = [q \in FN |-> IF q = Null THEN <<>> ELSE seg(fr, by, q) \o w[fr[q].next]]
  BY <1>2, Zenon
<1> HIDE DEF w
<1>4. w[Null] = <<>> /\ \A p \in Frags : w[p] = seg(fr, by, p) \o w[fr[p].next]
  BY <1>3, NullAssumption, Zenon DEF FN
<1>5. \A p \in FN : w[p] \in Seq(Nat)
  <2>1. PICK n, r : Ranked(fr, n, r)
    BY DEF Acyclic, Typed
  <2> DEFINE S == {k \in Nat : \A q \in FN : r[q] <= k => w[q] \in Seq(Nat)}
  <2>2. 0 \in S
    <3>1. \A q \in FN : r[q] <= 0 => q = Null
      BY <2>1 DEF Ranked, FN
    <3>2. w[Null] \in Seq(Nat)
      BY <1>4
    <3> QED BY <3>1, <3>2
  <2>3. ASSUME NEW k \in Nat, k \in S PROVE k + 1 \in S
    <3> SUFFICES ASSUME NEW q \in FN, r[q] <= k + 1 PROVE w[q] \in Seq(Nat)
      OBVIOUS
    <3>1. CASE q = Null
      BY <3>1, <1>4
    <3>2. CASE q # Null
      <4>1. q \in Frags /\ fr[q].next \in FN /\ r[fr[q].next] <= k
        BY <3>2, <2>1 DEF Ranked, FN
      <4>2. w[fr[q].next] \in Seq(Nat)
        BY <4>1, <2>3
      <4>3. seg(fr, by, q) \in Seq(Nat) /\ w[q] = seg(fr, by, q) \o w[fr[q].next]
        BY <4>1, <1>4 DEF Typed
      <4> QED BY <4>2, <4>3
    <3> QED BY <3>1, <3>2
  <2>4. n \in Nat /\ \A q \in FN : r[q] <= n
    BY <2>1 DEF Ranked
  <2>5. n \in S
    <3> HIDE DEF S
    <3> QED BY <2>2, <2>3, <2>4, InductionTo
  <2> QED BY <2>4, <2>5
<1> QED
  BY <1>1, <1>4, <1>5, Zenon

\* A chain of one fragment has the bytes that it sees.
LEMMA DataOfOne ==
  ASSUME NEW fr, NEW by, Typed(fr, by), NEW p \in Frags, fr[p].next = Null
  PROVE  Data(fr, by, p) = seg(fr, by, p)
<1>1. /\ Data(fr, by, p) = seg(fr, by, p) \o Data(fr, by, fr[p].next)
      /\ Data(fr, by, Null) = <<>>
  BY DataIs, Zenon
<1>2. seg(fr, by, p) \in Seq(Nat)
  BY DEF Typed
<1>3. Data(fr, by, p) = seg(fr, by, p) \o <<>>
  BY <1>1, Zenon
<1> DEFINE x == seg(fr, by, p)
<1> HIDE DEF x
<1>4. x \in Seq(Nat) => x \o <<>> = x
  OBVIOUS
<1> QED
  BY <1>2, <1>3, <1>4 DEF x

\* Places before the data written are not written.
LEMMA PlaceBefore ==
  ASSUME NEW d \in Nat, NEW z \in Nat, NEW n \in Nat, NEW l \in Nat, d + z + n <= l, NEW k \in 1 .. z
  PROVE  d + 0 + k \in 1 .. l /\ ~(d + 0 + k \in d + z + 1 .. d + z + n)
OBVIOUS

\* The k-th place written is the k-th behind those seen.
LEMMA PlaceIn ==
  ASSUME NEW d \in Nat, NEW z \in Nat, NEW n \in Nat, NEW l \in Nat, d + z + n <= l, NEW k \in 1 .. n
  PROVE  /\ d + 0 + (z + k) \in 1 .. l /\ d + 0 + (z + k) \in d + z + 1 .. d + z + n
         /\ (d + 0 + (z + k)) - (d + z) = k
OBVIOUS

\* Where the elements of two sequences are in the sequence of both.
LEMMA JoinedAt ==
  ASSUME NEW x \in Seq(Nat), NEW y \in Seq(Nat)
  PROVE  /\ x \o y \in Seq(Nat) /\ Len(x \o y) = Len(x) + Len(y)
         /\ \A k \in 1 .. Len(x) : (x \o y)[k] = x[k]
         /\ \A k \in 1 .. Len(y) : (x \o y)[Len(x) + k] = y[k]
OBVIOUS

\* Memory a after the first n bytes of t were copied to it behind place d + z.
Copied(a, t, d, z, n) ==
    [k \in DOMAIN a |-> IF k \in d + z + 1 .. d + z + n THEN t[k - (d + z)] ELSE a[k]]

\* The z bytes of memory a that are seen from d.
Shown(a, d, z) == [k \in 1 .. z |-> a[d + 0 + k]]

\* Memory a has room for n bytes of t behind those seen.
Fits(a, t, d, z, n) ==
    /\ a \in Seq(Nat) /\ t \in Seq(Nat) /\ d \in Nat /\ z \in Nat /\ n \in Nat
    /\ d + z + n <= Len(a) /\ n <= Len(t)

\* Data written behind z bytes that are seen from d is seen behind them.
SeenBehind(a, t, d, z, n) ==
    Shown(Copied(a, t, d, z, n), d, z + n) = Shown(a, d, z) \o SubSeq(t, 1, n)

LEMMA Behind ==
  ASSUME NEW a, NEW t, NEW d, NEW z, NEW n, Fits(a, t, d, z, n)
  PROVE  SeenBehind(a, t, d, z, n)
<1> USE DEF Fits
<1> DEFINE b == Copied(a, t, d, z, n)
           x == [k \in 1 .. z |-> a[d + 0 + k]]
           y == SubSeq(t, 1, n)
<1>1. Len(a) \in Nat /\ DOMAIN a = 1 .. Len(a) /\ \A k \in 1 .. Len(a) : a[k] \in Nat
  OBVIOUS
<1>2. \A i \in 1 .. Len(a) :
         b[i] = IF i \in d + z + 1 .. d + z + n THEN t[i - (d + z)] ELSE a[i]
  BY <1>1, Zenon DEF Copied
<1> HIDE DEF b
<1>3. ASSUME NEW k \in 1 .. z PROVE b[d + 0 + k] = a[d + 0 + k] /\ a[d + 0 + k] \in Nat
  <2>1. /\ d + 0 + k \in 1 .. Len(a)
        /\ ~(d + 0 + k \in d + z + 1 .. d + z + n)
    BY <1>1, PlaceBefore
  <2> QED BY <2>1, <1>1, <1>2, Zenon
<1>4. ASSUME NEW k \in 1 .. n PROVE b[d + 0 + (z + k)] = t[k]
  <2>1. /\ d + 0 + (z + k) \in 1 .. Len(a) /\ d + 0 + (z + k) \in d + z + 1 .. d + z + n
        /\ (d + 0 + (z + k)) - (d + z) = k
    BY <1>1, PlaceIn
  <2> QED BY <2>1, <1>2, Zenon
<1>5. x \in Seq(Nat) /\ Len(x) = z /\ \A k \in 1 .. z : x[k] = b[d + 0 + k]
  <2> DEFINE A(k) == a[d + 0 + k]
  <2>1. x = [k \in 1 .. z |-> A(k)] /\ \A k \in 1 .. z : A(k) \in Nat
    BY <1>3, Zenon
  <2>2. \A k \in 1 .. z : x[k] = b[d + 0 + k]
    BY <1>3, Zenon
  <2> HIDE DEF A, x
  <2>3. x \in Seq(Nat) /\ Len(x) = z
    BY <2>1
  <2> QED BY <2>2, <2>3, Zenon
<1>6. y \in Seq(Nat) /\ Len(y) = n /\ \A k \in 1 .. n : y[k] = t[k]
  OBVIOUS
<1> HIDE DEF x, y
<1> DEFINE u == x \o y
<1>7. /\ u \in Seq(Nat) /\ Len(u) = z + n
      /\ \A k \in 1 .. z : u[k] = x[k]
      /\ \A k \in 1 .. n : u[z + k] = y[k]
  <2>1. /\ u \in Seq(Nat) /\ Len(u) = Len(x) + Len(y)
        /\ \A k \in 1 .. Len(x) : u[k] = x[k]
        /\ \A k \in 1 .. Len(y) : u[Len(x) + k] = y[k]
    BY <1>5, <1>6, JoinedAt, Zenon
  <2> HIDE DEF u
  <2> QED BY <2>1, <1>5, <1>6, Zenon
<1> HIDE DEF u
<1>8. ASSUME NEW k \in 1 .. z + n PROVE b[d + 0 + k] = u[k]
  <2>1. CASE k \in 1 .. z
    BY <2>1, <1>5, <1>7, Zenon
  <2>2. CASE ~(k \in 1 .. z)
    <3>1. PICK j \in 1 .. n : k = z + j
      <4> DEFINE j == k - z
      <4>1. j \in 1 .. n /\ k = z + j
        BY <2>2
      <4> QED BY <4>1, Zenon
    <3> QED BY <3>1, <1>4, <1>6, <1>7, Zenon
  <2> QED BY <2>1, <2>2
<1>9. u = [k \in 1 .. z + n |-> u[k]]
  BY <1>7
<1>10. [k \in 1 .. z + n |-> b[d + 0 + k]] = u
  BY <1>8, <1>9, Zenon
<1> QED
  BY <1>10, Zenon DEF SeenBehind, Shown, u, x, y, b

\* Memory that is there for the fragments that see it.
Seen(fr, by) ==
    /\ by \in [Frags -> Seq(Nat)]
    /\ \A f \in Frags : fr[f].refcnt > 0 =>
          fr[f].mem \in Frags /\ fr[f].base + fr[f].cap <= Len(by[fr[f].mem])

\* In a sound heap within its memory fragments see bytes.
LEMMA SeenTyped ==
  ASSUME NEW fr, NEW by, Sound(fr), AllWithin(fr), Seen(fr, by)
  PROVE  Typed(fr, by)
<1> SUFFICES ASSUME NEW f \in Frags PROVE seg(fr, by, f) \in Seq(Nat)
  BY DEF Typed, Sound
<1>1. /\ fr[f].refcnt \in Nat /\ fr[f].data \in Nat /\ fr[f].size \in Nat
      /\ fr[f].base \in Nat /\ fr[f].cap \in Nat
  BY DEF Sound, Heap, FragType
<1>2. CASE fr[f].refcnt = 0
  <2>1. fr[f].size = 0
    BY <1>2 DEF Sound, Tidy, Blank
  <2> QED BY <2>1 DEF seg
<1>3. CASE fr[f].refcnt > 0
  <2> DEFINE b == by[fr[f].mem]
             d == fr[f].data
             n == fr[f].size
  <2>1. b \in Seq(Nat) /\ d \in Nat /\ n \in Nat /\ d + n <= Len(b)
    <3>1. fr[f].mem \in Frags /\ fr[f].base + fr[f].cap <= Len(b) /\ b \in Seq(Nat)
      BY <1>3 DEF Seen
    <3>2. fr[f].data + fr[f].size <= fr[f].base + fr[f].cap
      BY <1>3, Zenon DEF AllWithin
    <3>3. Len(b) \in Nat
      BY <3>1
    <3> DEFINE l == Len(b)
               e == fr[f].base + fr[f].cap
    <3>4. d + n <= e /\ e <= l /\ d \in Nat /\ n \in Nat /\ e \in Nat /\ l \in Nat
      BY <1>1, <3>1, <3>2, <3>3
    <3>5. d + n <= l
      <4> HIDE DEF d, n, e, l
      <4> QED BY <3>4
    <3> QED BY <3>1, <3>4, <3>5, Zenon
  <2>2. seg(fr, by, f) = [k \in 1 .. n |-> b[d + 0 + k]]
    BY DEF seg
  <2> HIDE DEF b, d, n
  <2>3. \A k \in 1 .. n : b[d + 0 + k] \in Nat
    BY <2>1
  <2> QED BY <2>1, <2>2, <2>3
<1> QED
  BY <1>1, <1>2, <1>3

\* So they do in every state reached.
LEMMA BytesTyped ==
  ASSUME NEW fr, NEW by, NEW hd, NEW w \in Nat, by \in [Frags -> Seq(0 .. w)],
         Counted(fr, hd), AllWithin(fr), Backs(fr, by)
  PROVE  Typed(fr, by) /\ by \in [Frags -> Seq(Nat)]
<1>1. by \in [Frags -> Seq(Nat)]
  <2>1. 0 .. w \subseteq Nat
    OBVIOUS
  <2>2. \A s \in Seq(0 .. w) : s \in Seq(Nat)
    BY <2>1, SeqWider
  <2> QED BY <2>2
<1>2. Seen(fr, by) /\ Sound(fr)
  BY <1>1 DEF Seen, Backs, Counted
<1> QED
  BY <1>1, <1>2, SeenTyped

\* A fragment that takes data has it behind what it had.
LEMMA FillAppends ==
  ASSUME NEW s, NEW f \in Frags, Heap(s.frag), AllWithin(s.frag), s.frag[f].refcnt > 0,
         s.bytes \in [Frags -> Seq(Nat)], s.data \in Seq(Nat), s.frag[f].mem \in Frags,
         s.frag[f].base + s.frag[f].cap <= Len(s.bytes[s.frag[f].mem])
  PROVE  LET r == Fill(s, f) IN
         /\ r.frag[f].next = s.frag[f].next
         /\ seg(r.frag, r.bytes, f)
              = seg(s.frag, s.bytes, f) \o SubSeq(s.data, 1, taken(s, f))
<1> DEFINE r == Fill(s, f)
           n == taken(s, f)
           m == s.frag[f].mem
           d == s.frag[f].data
           z == s.frag[f].size
           a == s.bytes[m]
           b == [k \in DOMAIN a |-> IF k \in d + z + 1 .. d + z + n THEN s.data[k - (d + z)] ELSE a[k]]
           x == seg(s.frag, s.bytes, f)
           y == SubSeq(s.data, 1, n)
           v == seg(r.frag, r.bytes, f)
<1>1. /\ n \in Nat /\ n <= Len(s.data) /\ Len(s.data) \in Nat /\ n <= tailroom(s.frag, f)
      /\ r.frag = ci_reserve_tail(s.frag, f, n)
      /\ AllWithin(r.frag) /\ Resized(s.frag, r.frag, f)
      /\ r.frag[f].size = z + n
  BY FillFits
<1>2. /\ s.frag[f].base \in Nat /\ d \in Nat /\ z \in Nat /\ s.frag[f].cap \in Nat
      /\ r.frag[f] = [s.frag[f] EXCEPT !.size = @ + n]
  BY <1>1 DEF Heap, FragType, ci_reserve_tail
<1>3. r.frag[f].next = s.frag[f].next /\ r.frag[f].mem = m /\ r.frag[f].data = d
  BY <1>2 DEF Heap, FragType
<1>4. a \in Seq(Nat) /\ Len(a) \in Nat
  <2>1. a \in Seq(Nat)
    OBVIOUS
  <2> HIDE DEF a
  <2> QED BY <2>1
<1>5. r.bytes[m] = b
  BY DEF Fill, taken
<1>6. d + z + n <= Len(a)
  <2> DEFINE e == s.frag[f].base
             l == s.frag[f].cap
  <2>1. n <= l - z - (d - e) /\ e + l <= Len(a) /\ e \in Nat /\ l \in Nat
    BY <1>1, <1>2 DEF tailroom, headroom
  <2> HIDE DEF e, l, d, z, n, a
  <2> QED BY <2>1, <1>1, <1>2, <1>4
<1>7. x = Shown(a, d, z)
  BY DEF seg, Shown
<1>8. v = Shown(b, d, z + n)
  BY <1>1, <1>3, <1>5 DEF seg, Shown
<1>9. v = x \o y
  <2> DEFINE t == s.data
  <2>1. Fits(a, t, d, z, n)
    BY <1>1, <1>2, <1>4, <1>6 DEF Fits
  <2>2. b = Copied(a, t, d, z, n)
    BY DEF Copied
  <2>3. y = SubSeq(t, 1, n)
    OBVIOUS
  <2> HIDE DEF n, d, z, a, b, t, x, y, v
  <2>4. SeenBehind(a, t, d, z, n)
    BY <2>1, Behind, Zenon
  <2> QED BY <2>2, <2>3, <2>4, <1>7, <1>8, Zenon DEF SeenBehind
<1> QED
  BY <1>3, <1>9

\* A buffer of one fragment after a put.
LEMMA PutInOne ==
  ASSUME IInv, NEW h \in Handles, NEW n \in PutSizes, Put(h, n), Len(ChainOf(h)) = 1
  PROVE  data_of(h)' = data_of(h) \o SubSeq(Fresh(n), 1, least(n, room(h)))
<1> DEFINE c == ChainOf(h)
           p == head[h]
           d == Fresh(n)
           s == [frag |-> frag, bytes |-> bytes, data |-> d]
           r == Fill(s, p)
<1>1. okay(h) /\ frag' = put(c, d).frag /\ bytes' = put(c, d).bytes /\ head' = head
  BY DEF Put
<1>2. n \in Nat /\ written \in Nat /\ bytes \in [Frags -> Seq(0 .. written)]
  BY CapAssumption DEF IInv, TypeOK
<1>3. d \in Seq(Nat) /\ Len(d) = n
  BY <1>2 DEF Fresh
<1>4. /\ p \in Frags /\ Path(frag, p, c) /\ frag[p].refcnt > 0
      /\ Last(c) = p /\ c[1] = p /\ frag[p].next = Null
  <2>1. /\ p \in Frags /\ Path(frag, p, c) /\ DOMAIN c = 1 .. 1
        /\ \A i \in 1 .. 1 : frag[c[i]].refcnt >= 1
    BY <1>1, Held
  <2>2. At(c, 1) = p /\ frag[c[1]].next = At(c, 1 + 1)
    BY <2>1 DEF Path
  <2>3. c[1] = p /\ At(c, 1 + 1) = Null
    BY <2>1, <2>2 DEF At
  <2>4. frag[p].refcnt \in Nat
    BY <2>1 DEF IInv, TypeOK, FragType
  <2> QED BY <2>1, <2>2, <2>3, <2>4 DEF Last
<1>5. /\ Typed(frag, bytes) /\ bytes \in [Frags -> Seq(Nat)] /\ Heap(frag) /\ AllWithin(frag)
      /\ frag[p].mem \in Frags /\ frag[p].base + frag[p].cap <= Len(bytes[frag[p].mem])
  <2>1. Counted(frag, head) /\ AllWithin(frag) /\ Backs(frag, bytes)
    BY DEF IInv
  <2>2. Typed(frag, bytes) /\ bytes \in [Frags -> Seq(Nat)]
    BY <2>1, <1>2, BytesTyped
  <2> QED BY <2>1, <2>2, <1>4 DEF Typed, Backs
<1>6. Typed(frag', bytes')
  <2>1. IInv'
    BY Put_IInv
  <2>2. /\ Counted(frag', head') /\ AllWithin(frag') /\ Backs(frag', bytes')
        /\ written' \in Nat /\ bytes' \in [Frags -> Seq(0 .. written')]
    BY <2>1 DEF IInv, TypeOK
  <2> QED BY <2>2, BytesTyped
<1>7. put(c, d) = r
  <2>1. PICK t : Filled(t, c, d) /\ put(c, d) = t[Len(c)]
    <3>1. Len(c) \in Nat
      OBVIOUS
    <3> HIDE DEF c, d
    <3> QED BY <3>1, FilledIs
  <2> QED BY <2>1, <1>4 DEF Filled
<1>8. taken(s, p) = least(n, room(h))
  <2>1. taken(s, p) = least(tailroom(frag, p), n) /\ room(h) = tailroom(frag, p)
    BY <1>1, <1>3, <1>4 DEF taken, room
  <2>2. tailroom(frag, p) \in Int
    BY <1>4, <1>5 DEF Heap, FragType, tailroom, headroom
  <2> QED BY <2>1, <2>2, <1>2 DEF least
<1>9. /\ r.frag[p].next = Null
      /\ seg(r.frag, r.bytes, p) = seg(frag, bytes, p) \o SubSeq(d, 1, least(n, room(h)))
  <2>1. s.frag = frag /\ s.bytes = bytes /\ s.data = d
    OBVIOUS
  <2> HIDE DEF s
  <2>2. /\ r.frag[p].next = s.frag[p].next
        /\ seg(r.frag, r.bytes, p) = seg(s.frag, s.bytes, p) \o SubSeq(s.data, 1, taken(s, p))
    BY <2>1, <1>3, <1>4, <1>5, FillAppends
  <2> QED BY <2>1, <2>2, <1>4, <1>8
<1> HIDE DEF r, d, c
<1>10. Data(frag, bytes, p) = seg(frag, bytes, p)
  BY <1>4, <1>5, DataOfOne
<1>11. Data(frag', bytes', p) = seg(frag', bytes', p)
  <2>1. frag'[p].next = Null
    BY <1>1, <1>7, <1>9
  <2> QED BY <2>1, <1>4, <1>6, DataOfOne
<1>12. data_of(h) = Data(frag, bytes, p)
  BY Zenon DEF data_of, Data, seg, segment
<1>13. data_of(h)' = Data(frag', bytes', head'[h])
  BY Zenon DEF data_of, Data, seg, segment
<1> QED
  BY <1>1, <1>7, <1>9, <1>10, <1>11, <1>12, <1>13 DEF d

\* What other calls leave as the last call.
LEMMA OtherCalls ==
  ASSUME NEW h \in Handles,
         \/ New(h) \/ NewRo(h, Cap) \/ Decref(h)
         \/ \E n \in 0 .. total(h) : StripHead(h, n) \/ StripTail(h, n)
         \/ \E f \in ToSet(ChainOf(h)) :
               ReserveHead(h, f) \/ ReleaseHead(h, f) \/ ReserveTail(h, f) \/ ReleaseTail(h, f)
         \/ \E i \in DOMAIN ChainOf(h) : RemoveFrag(h, i) \/ Detach(h, i)
         \/ \E g \in Handles \ {h} :
               \/ Incref(h, g)
               \/ ChainFront(h, g) \/ ChainBack(h, g)
               \/ \E o \in 0 .. total(h) : ChainAt(h, g, o)
               \/ \E o \in 0 .. total(h) : \E n \in 0 .. total(h) - o :
                     View(h, g, o, n) \/ Clone(h, g, o, n)
  PROVE  call'[1] # "put"
<1>1. CASE New(h) \/ NewRo(h, Cap) \/ Decref(h)
  <2>1. call' = <<"new", h>> \/ call' = <<"new_ro", h>> \/ call' = <<"decref", h>>
    BY <1>1, Zenon DEF New, NewRo, Decref, Call
  <2> QED BY <2>1
<1>2. CASE \E n \in 0 .. total(h) : StripHead(h, n) \/ StripTail(h, n)
  BY <1>2 DEF StripHead, StripTail, Call
<1>3. CASE \E f \in ToSet(ChainOf(h)) :
             ReserveHead(h, f) \/ ReleaseHead(h, f) \/ ReserveTail(h, f) \/ ReleaseTail(h, f)
  BY <1>3 DEF ReserveHead, ReleaseHead, ReserveTail, ReleaseTail, Resize, Call
<1>4. CASE \E i \in DOMAIN ChainOf(h) : RemoveFrag(h, i) \/ Detach(h, i)
  BY <1>4 DEF RemoveFrag, Detach, Unlink, Call
<1>5. ASSUME NEW g \in Handles \ {h},
             \/ Incref(h, g)
             \/ ChainFront(h, g) \/ ChainBack(h, g)
             \/ \E o \in 0 .. total(h) : ChainAt(h, g, o)
      PROVE  call'[1] # "put"
  BY <1>5 DEF Incref, ChainFront, ChainBack, ChainAt, Chained, Call
<1>6. ASSUME NEW g \in Handles \ {h}, NEW o, NEW n, View(h, g, o, n) \/ Clone(h, g, o, n)
      PROVE  call'[1] # "put"
  <2>1. call' = <<"view", h, g, o, n>> \/ call' = <<"clone", h, g, o, n>>
    BY <1>6, Zenon DEF View, Clone, Call
  <2> QED BY <2>1
<1> QED
  BY <1>1, <1>2, <1>3, <1>4, <1>5, <1>6

\* gabs_pbuf_put on a buffer of one fragment: the data is behind what the buffer had, all
\* of it that fits what gabs_pbuf_tailroom tells, and what was there is as it was.
THEOREM PutsAppend == Spec => PutAppends
<1> DEFINE A == \A h \in Handles : call'[1] = "put" /\ call'[2] = h /\ Len(ChainOf(h)) = 1 =>
                   data_of(h)' = data_of(h) \o SubSeq(call'[3], 1, least(Len(call'[3]), room(h)))
<1>1. IInv /\ [Next]_vars => [A]_vars
  <2> SUFFICES ASSUME IInv, Next PROVE A
    OBVIOUS
  <2> SUFFICES ASSUME NEW g \in Handles, call'[1] = "put", call'[2] = g, Len(ChainOf(g)) = 1
               PROVE  data_of(g)' = data_of(g) \o SubSeq(call'[3], 1, least(Len(call'[3]), room(g)))
    OBVIOUS
  <2>1. PICK h \in Handles : \E n \in PutSizes : Put(h, n)
    BY OtherCalls, Zenon DEF Next
  <2>2. PICK n \in PutSizes : Put(h, n)
    BY <2>1
  <2>3. call' = <<"put", h, Fresh(n)>> /\ n \in Nat
    BY <2>2, CapAssumption DEF Put, Call
  <2>4. g = h /\ call'[3] = Fresh(n) /\ Len(Fresh(n)) = n
    <3>1. Len(Fresh(n)) = n
      BY <2>3 DEF Fresh
    <3> QED BY <2>3, <3>1
  <2>5. data_of(h)' = data_of(h) \o SubSeq(Fresh(n), 1, least(n, room(h)))
    BY <2>2, <2>4, PutInOne
  <2> QED BY <2>4, <2>5
<1>2. Spec => [][A]_vars
  BY <1>1, HeapInvariant, PTL DEF Spec
<1> QED
  BY <1>2 DEF PutAppends

-----------------------------------------------------------------------------
(* net_buf.                                                                 *)

\* One fragment loses a reference.
losing(fr, f) == Unref(fr, {f})
with(S, f)    == S \cup {f}

\* net_buf_unref lets go of the fragments of the chain in turn.
Letting(s, f) ==
    IF s.held THEN s ELSE [frag |-> losing(s.frag, f), held |-> s.frag[f].refcnt > 1]

\* t is the recursion of net_buf_unref along c.
LetGo(t, fr, c) ==
    /\ t[0] = [frag |-> fr, held |-> FALSE]
    /\ \A k \in 1 .. Len(c) : t[k] = Letting(t[k - 1], c[k])

\* What net_buf_unref has done after each fragment.
LEMMA LetGoIs ==
  ASSUME NEW fr, NEW p, NEW c, c = Chain(fr, p), Len(c) \in Nat
  PROVE  \E t : LetGo(t, fr, c) /\ net_buf_unref(fr, p) = t[Len(c)].frag
<1> DEFINE first == [frag |-> fr, held |-> FALSE]
           Step(s, j) == Letting(s, c[j])
<1> HIDE DEF Step, first
<1> DEFINE G(g, k) == g = [j \in 0 .. k |-> IF j = 0 THEN first ELSE Step(g[j - 1], j)]
           S == {k \in Nat : \E g : G(g, k)}
<1>1. 0 \in S
  <2>1. G([j \in 0 .. 0 |-> first], 0)
    OBVIOUS
  <2> QED BY <2>1
<1>2. ASSUME NEW k \in Nat, k \in S PROVE k + 1 \in S
  <2>1. PICK g : G(g, k)
    BY <1>2
  <2> DEFINE h == [j \in 0 .. k + 1 |-> IF j = k + 1 THEN Step(g[k], k + 1) ELSE g[j]]
  <2>2. ASSUME NEW j \in 0 .. k + 1 PROVE h[j] = IF j = 0 THEN first ELSE Step(h[j - 1], j)
    <3>1. CASE j = k + 1
      BY <3>1
    <3>2. CASE j # k + 1
      BY <3>2, <2>1
    <3> QED BY <3>1, <3>2
  <2>3. G(h, k + 1)
    BY <2>2
  <2> HIDE DEF h, G
  <2> QED BY <2>3
<1>3. \E g : G(g, Len(c))
  <2>1. Len(c) \in S
    <3> HIDE DEF S
    <3> QED BY <1>1, <1>2, InductionTo
  <2> QED BY <2>1
<1> DEFINE t == CHOOSE g : G(g, Len(c))
<1>4. G(t, Len(c))
  BY <1>3, Zenon
<1>5. net_buf_unref(fr, p) = t[Len(c)].frag
  BY Zenon DEF net_buf_unref, Step, Letting, losing, first
<1> HIDE DEF t
<1>6. t[0] = first /\ \A k \in 1 .. Len(c) : t[k] = Step(t[k - 1], k)
  BY <1>4
<1> QED
  BY <1>5, <1>6 DEF LetGo, Step, first

\* The first of n fragments, up to one that is shared.
Freed(fr, c, n) == {c[i] : i \in {i \in 1 .. n : \A j \in 1 .. i - 1 : fr[c[j]].refcnt = 1}}

\* References given up one after the other are given up together.
LEMMA UnrefMore ==
  ASSUME NEW fr, NEW S, NEW f \in Frags, f \notin S
  PROVE  losing(Unref(fr, S), f) = Unref(fr, with(S, f)) /\ Unref(fr, S)[f] = fr[f]
<1> DEFINE u == Unref(fr, S)
           v == losing(u, f)
           w == Unref(fr, with(S, f))
<1>1. u[f] = fr[f]
  BY DEF Unref
<1>2. ASSUME NEW g \in Frags PROVE v[g] = w[g]
  <2>1. CASE g = f
    BY <2>1, <1>1 DEF Unref, losing, with
  <2>2. CASE g # f
    BY <2>2 DEF Unref, losing, with
  <2> QED BY <2>1, <2>2
<1>3. v = [g \in Frags |-> v[g]] /\ w = [g \in Frags |-> w[g]]
  BY DEF Unref, losing
<1> HIDE DEF u, v, w
<1>4. v = w
  BY <1>2, <1>3, Zenon
<1> QED
  BY <1>1, <1>4 DEF u, v, w

\* The next fragment goes if all before it had one reference only.
LEMMA FreedMore ==
  ASSUME NEW fr, NEW c, NEW n \in Nat
  PROVE  /\ Freed(fr, c, 0) = {}
         /\ (\A j \in 1 .. n : fr[c[j]].refcnt = 1)
              => Freed(fr, c, n + 1) = with(Freed(fr, c, n), c[n + 1])
         /\ ~ (\A j \in 1 .. n : fr[c[j]].refcnt = 1) => Freed(fr, c, n + 1) = Freed(fr, c, n)
<1> DEFINE I(k) == {i \in 1 .. k : \A j \in 1 .. i - 1 : fr[c[j]].refcnt = 1}
<1>1. \A k : Freed(fr, c, k) = {c[i] : i \in I(k)}
  BY DEF Freed
<1>2. I(0) = {}
  OBVIOUS
<1>3. ASSUME \A j \in 1 .. n : fr[c[j]].refcnt = 1 PROVE I(n + 1) = I(n) \cup {n + 1}
  BY <1>3
<1>4. ASSUME ~ \A j \in 1 .. n : fr[c[j]].refcnt = 1 PROVE I(n + 1) = I(n)
  <2>1. n + 1 \notin I(n + 1)
    BY <1>4
  <2> QED BY <2>1
<1> HIDE DEF I
<1> QED
  BY <1>1, <1>2, <1>3, <1>4 DEF with

\* A fragment that stays keeps all that follows it.
LEMMA LettingIs ==
  ASSUME NEW s, NEW f
  PROVE  /\ s.held => Letting(s, f) = s
         /\ ~ s.held => Letting(s, f).frag = losing(s.frag, f)
         /\ ~ s.held => (Letting(s, f).held <=> s.frag[f].refcnt > 1)
<1>1. CASE s.held
  BY <1>1, Zenon DEF Letting
<1>2. CASE ~ s.held
  <2>1. Letting(s, f) = [frag |-> losing(s.frag, f), held |-> s.frag[f].refcnt > 1]
    BY <1>2, Zenon DEF Letting
  <2>2. Letting(s, f).frag = losing(s.frag, f) /\ Letting(s, f).held = (s.frag[f].refcnt > 1)
    BY <2>1
  <2> QED BY <1>2, <2>2, Zenon
<1> QED
  BY <1>1, <1>2, Zenon

\* net_buf_unref does what gabs_pbuf_decref does.
LEMMA UnrefAgrees ==
  ASSUME NEW fr, Heap(fr), NEW p, NEW c \in Seq(Frags), Chain(fr, p) = c,
         \A i \in 1 .. Len(c) : fr[c[i]].refcnt >= 1,
         \A i, j \in 1 .. Len(c) : i # j => c[i] # c[j]
  PROVE  net_buf_unref(fr, p) = decref(fr, p)
<1>1. Len(c) \in Nat /\ DOMAIN c = 1 .. Len(c) /\ \A i \in 1 .. Len(c) : c[i] \in Frags
  OBVIOUS
<1>2. PICK t : LetGo(t, fr, c) /\ net_buf_unref(fr, p) = t[Len(c)].frag
  BY <1>1, LetGoIs
<1>3. decref(fr, p) = Unref(fr, Freed(fr, c, Len(c)))
  BY <1>1 DEF decref, Freed
<1> DEFINE Alone(k) == \A j \in 1 .. k : fr[c[j]].refcnt = 1
           Holds(k) == /\ t[k].frag = Unref(fr, Freed(fr, c, k))
                       /\ Alone(k) => ~ t[k].held
                       /\ ~ Alone(k) => t[k].held
<1> HIDE DEF Holds
<1> DEFINE S == {k \in Nat : k <= Len(c) => Holds(k)}
<1>4. 0 \in S
  <2>1. t[0].frag = fr /\ ~ t[0].held
    <3>1. t[0] = [frag |-> fr, held |-> FALSE]
      BY <1>2 DEF LetGo
    <3> QED BY <3>1
  <2>2. Unref(fr, Freed(fr, c, 0)) = fr
    <3>1. Freed(fr, c, 0) = {}
      BY FreedMore
    <3>2. Unref(fr, {}) = [f \in Frags |-> fr[f]]
      BY DEF Unref
    <3> QED BY <3>1, <3>2 DEF Heap
  <2>3. Alone(0)
    OBVIOUS
  <2>4. Holds(0)
    BY <2>1, <2>2, <2>3, Zenon DEF Holds
  <2> QED BY <2>4
<1>5. ASSUME NEW k \in Nat, k \in S PROVE k + 1 \in S
  <2> SUFFICES ASSUME k + 1 <= Len(c) PROVE Holds(k + 1)
    OBVIOUS
  <2>1. k + 1 \in 1 .. Len(c) /\ k <= Len(c) /\ (k + 1) - 1 = k
    BY <1>1
  <2>2. Holds(k)
    BY <2>1, <1>5
  <2> DEFINE q == c[k + 1]
             Q0 == Freed(fr, c, k)
             x == t[k]
             y == t[k + 1]
  <2>3. y = Letting(x, q)
    BY <2>1, <1>2 DEF LetGo
  <2>4. q \in Frags /\ fr[q].refcnt >= 1 /\ q \notin Q0
    <3>1. Q0 \subseteq {c[i] : i \in 1 .. k}
      BY DEF Freed
    <3>2. \A i \in 1 .. k : i \in 1 .. Len(c) /\ i # k + 1
      BY <1>1, <2>1
    <3>3. \A i \in 1 .. k : c[i] # q
      BY <3>2, <2>1
    <3> QED BY <3>1, <3>3, <2>1, <1>1
  <2>5. Alone(k + 1) <=> Alone(k) /\ fr[q].refcnt = 1
    BY <2>1
  <2>6. fr[q].refcnt \in Nat
    BY <2>4 DEF Heap, FragType
  <2>7. /\ Alone(k) => Freed(fr, c, k + 1) = with(Q0, q)
        /\ ~ Alone(k) => Freed(fr, c, k + 1) = Q0
    BY FreedMore
  <2>8. /\ x.frag = Unref(fr, Q0)
        /\ Alone(k) => ~ x.held
        /\ ~ Alone(k) => x.held
    BY <2>2, Zenon DEF Holds
  <2> DEFINE a == Alone(k)
             b == Alone(k + 1)
             Q1 == Freed(fr, c, k + 1)
  <2> HIDE DEF a, b, q, Q0, Q1, x, y
  <2>9. CASE a
    <3>1. Q1 = with(Q0, q) /\ x.frag = Unref(fr, Q0) /\ ~ x.held
      BY <2>9, <2>7, <2>8, Zenon DEF a, Q1
    <3>5. x.frag[q] = fr[q] /\ losing(x.frag, q) = Unref(fr, Q1)
      <4>1. q \in Frags /\ q \notin Q0
        BY <2>4, Zenon
      <4>2. losing(Unref(fr, Q0), q) = Unref(fr, with(Q0, q))
        BY <4>1, UnrefMore
      <4>3. Unref(fr, Q0)[q] = fr[q]
        BY <4>1, UnrefMore
      <4> QED BY <3>1, <4>2, <4>3
    <3>2. /\ y.frag = losing(x.frag, q)
          /\ x.frag[q].refcnt > 1 => y.held
          /\ ~ x.frag[q].refcnt > 1 => ~ y.held
      BY <2>3, <3>1, LettingIs, Zenon
    <3>3. b <=> ~ fr[q].refcnt > 1
      <4>1. fr[q].refcnt = 1 <=> ~ fr[q].refcnt > 1
        BY <2>4, <2>6
      <4>2. b <=> a /\ fr[q].refcnt = 1
        BY <2>5 DEF a, b
      <4> QED BY <4>1, <4>2, <2>9
    <3>4. y.frag = Unref(fr, Q1) /\ (b => ~ y.held) /\ (~ b => y.held)
      BY <3>5, <3>2, <3>3, Zenon
    <3> QED BY <3>4, Zenon DEF Holds, b, y, Q1
  <2>10. CASE ~ a
    <3>1. y = x /\ y.held
      BY <2>3, <2>8, <2>10, LettingIs, Zenon DEF a
    <3>2. Q1 = Q0 /\ ~ b
      BY <2>5, <2>7, <2>10 DEF a, b, Q1
    <3>3. y.frag = Unref(fr, Q1) /\ (b => ~ y.held) /\ (~ b => y.held)
      BY <3>1, <3>2, <2>8, Zenon
    <3> QED BY <3>3, Zenon DEF Holds, b, y, Q1
  <2> QED BY <2>9, <2>10
<1>6. Len(c) \in S
  <2> HIDE DEF S
  <2> QED BY <1>1, <1>4, <1>5, InductionTo
<1>7. t[Len(c)].frag = Unref(fr, Freed(fr, c, Len(c)))
  BY <1>6, <1>1 DEF Holds
<1> QED
  BY <1>2, <1>3, <1>7

\* Tying a fragment to what it is tied to changes nothing.
LEMMA TieSame ==
  ASSUME NEW fr, Heap(fr), NEW g \in Frags
  PROVE  tie(fr, g, fr[g].next) = fr
<1> DEFINE t == tie(fr, g, fr[g].next)
<1>1. fr[g].next \in FN
  BY DEF Heap, FragType, FN
<1>2. Heap(t) /\ \A f \in Frags \ {g} : t[f] = fr[f]
  BY <1>1, Tie
<1>3. t[g] = fr[g]
  <2> DEFINE r == fr[g]
  <2>1. r \in FragType
    BY DEF Heap
  <2>2. t[g] = [r EXCEPT !.next = r.next]
    BY DEF tie, Heap
  <2> HIDE DEF r
  <2>3. [r EXCEPT !.next = r.next] = r
    BY <2>1 DEF FragType
  <2> QED BY <2>2, <2>3 DEF r
<1> HIDE DEF t
<1>4. t = [f \in Frags |-> t[f]] /\ fr = [f \in Frags |-> fr[f]]
  BY <1>2 DEF Heap
<1>5. \A f \in Frags : t[f] = fr[f]
  BY <1>2, <1>3
<1>6. t = fr
  BY <1>4, <1>5, Zenon
<1> QED
  BY <1>6 DEF t

\* A chain ends with its last fragment.
LEMMA LastIs ==
  ASSUME NEW fr, NEW p \in Frags, NEW c, Path(fr, p, c)
  PROVE  Last(c) \in Frags /\ fr[Last(c)].next = Null
<1>1. c \in Seq(Frags) /\ Len(c) \in Nat /\ DOMAIN c = 1 .. Len(c) /\ Len(c) >= 1
  BY NullAssumption DEF Path, At
<1>2. Last(c) = c[Len(c)] /\ Len(c) \in 1 .. Len(c)
  BY <1>1 DEF Last
<1>3. fr[c[Len(c)]].next = At(c, Len(c) + 1)
  BY <1>1, <1>2 DEF Path
<1>4. At(c, Len(c) + 1) = Null
  BY <1>1 DEF At
<1> QED
  BY <1>1, <1>2, <1>3, <1>4

\* net_buf_frag_insert and net_buf_frag_add tie the pointers gabs_pbuf_ci_insert ties.
LEMMA InsertSame ==
  ASSUME NEW fr, Heap(fr), Acyclic(fr), NEW p \in Frags, NEW c, Path(fr, p, c), NEW x \in Frags,
         NEW i \in 1 .. Len(c) + 1
  PROVE  /\ i = 1 => /\ At(c, i - 1) = Null /\ At(c, i) # Null
                     /\ net_buf_frag_add(fr, x, At(c, i)) = ci_insert(fr, c, i, x)
         /\ i # 1 => /\ At(c, i - 1) # Null
                     /\ net_buf_frag_insert(fr, At(c, i - 1), x) = ci_insert(fr, c, i, x)
<1> DEFINE d == Chain(fr, x)
           b == At(c, i)
           l == Last(d)
<1>1. /\ c \in Seq(Frags) /\ Len(c) \in Nat /\ DOMAIN c = 1 .. Len(c)
      /\ \A j \in 1 .. Len(c) : c[j] \in Frags /\ fr[c[j]].next = At(c, j + 1)
      /\ At(c, 1) = p
  BY DEF Path
<1>2. l \in Frags /\ fr[l].next = Null
  <2>1. Path(fr, x, d)
    BY ChainPath DEF FN
  <2> HIDE DEF d
  <2> QED BY <2>1, LastIs
<1>3. ci_insert(fr, c, i, x) = IF i = 1 THEN tie(fr, l, b) ELSE tie(tie(fr, l, b), c[i - 1], x)
  BY DEF ci_insert, tie
<1>4. CASE i = 1
  <2>1. At(c, i - 1) = Null /\ b = p /\ p # Null
    BY <1>1, <1>4, NullAssumption DEF At
  <2>2. net_buf_frag_add(fr, x, b) = net_buf_frag_insert(fr, l, b)
    BY DEF net_buf_frag_add, net_buf_frag_last
  <2> HIDE DEF l, b
  <2>3. net_buf_frag_insert(fr, l, b) = tie(fr, l, b)
    BY <1>2 DEF net_buf_frag_insert, tie
  <2> QED BY <2>1, <2>2, <2>3, <1>3, <1>4 DEF b
<1>5. CASE i # 1
  <2> DEFINE q == c[i - 1]
  <2>1. i - 1 \in 1 .. Len(c) /\ (i - 1) + 1 = i
    BY <1>1, <1>5
  <2>2. At(c, i - 1) = q /\ q \in Frags /\ q # Null
    BY <2>1, <1>1, NullAssumption DEF At
  <2>3. fr[q].next = b
    BY <2>1, <1>1
  <2> HIDE DEF q
  <2>4. net_buf_frag_insert(fr, q, x) = tie(IF b = Null THEN fr ELSE tie(fr, l, b), q, x)
    BY <2>3 DEF net_buf_frag_insert, net_buf_frag_last, tie
  <2> HIDE DEF b, l
  <2>5. b = Null => tie(fr, l, b) = fr
    BY <1>2, TieSame
  <2>6. (IF b = Null THEN fr ELSE tie(fr, l, b)) = tie(fr, l, b)
    BY <2>5, Zenon
  <2>7. net_buf_frag_insert(fr, q, x) = tie(tie(fr, l, b), q, x)
    BY <2>4, <2>6, Zenon
  <2> QED BY <2>2, <2>7, <1>3, <1>5, Zenon DEF q
<1> QED
  BY <1>4, <1>5

\* The iterator after gabs_pbuf_ci_insert.
LEMMA NbInsertIs ==
  ASSUME NEW fr, NEW hd, NEW pv, NEW cu, NEW x, NEW s,
         s = [frag |-> fr, head |-> hd, prev |-> pv, cur |-> cu]
  PROVE  /\ nb_insert(s, x).cur = x
         /\ pv # Null => /\ nb_insert(s, x).frag = net_buf_frag_insert(fr, pv, x)
                         /\ nb_insert(s, x).head = hd
         /\ pv = Null /\ cu # Null => /\ nb_insert(s, x).frag = net_buf_frag_add(fr, x, cu)
                                      /\ nb_insert(s, x).head = x
  BY DEF nb_insert

\* Wherever a chain is inserted.
LEMMA InsertsAlike == ASSUME IInv PROVE InsertAgrees
<1> SUFFICES ASSUME NEW h \in Handles, okay(h), NEW g \in Handles, okay(g),
                    NEW i \in 1 .. Len(ChainOf(h)) + 1
             PROVE  LET s == nb_insert(Iter(h, i), head[g])
                    IN  /\ s.frag = ci_insert(frag, ChainOf(h), i, head[g])
                        /\ s.head = (IF i = 1 THEN head[g] ELSE head[h])
                        /\ s.cur = head[g]
  BY ZenonT(40) DEF InsertAgrees
<1> DEFINE c == ChainOf(h)
           x == head[g]
           p == head[h]
           it == Iter(h, i)
           s == nb_insert(it, x)
           pv == At(c, i - 1)
           cu == At(c, i)
<1>1. p \in Frags /\ x \in Frags /\ Path(frag, p, c) /\ Heap(frag) /\ Acyclic(frag)
  BY Held DEF IInv, Counted, Sound
<1>2. it = [frag |-> frag, head |-> p, prev |-> pv, cur |-> cu]
  BY DEF Iter
<1> HIDE DEF it
<1>3. /\ s.cur = x
      /\ pv # Null => s.frag = net_buf_frag_insert(frag, pv, x) /\ s.head = p
      /\ pv = Null /\ cu # Null => s.frag = net_buf_frag_add(frag, x, cu) /\ s.head = x
  BY <1>2, NbInsertIs
<1>4. /\ i = 1 => /\ pv = Null /\ cu # Null
                  /\ net_buf_frag_add(frag, x, cu) = ci_insert(frag, c, i, x)
      /\ i # 1 => /\ pv # Null
                  /\ net_buf_frag_insert(frag, pv, x) = ci_insert(frag, c, i, x)
  BY <1>1, InsertSame
<1> HIDE DEF c, x, p, s, pv, cu
<1>5. s.frag = ci_insert(frag, c, i, x) /\ s.head = (IF i = 1 THEN x ELSE p) /\ s.cur = x
  BY <1>3, <1>4, Zenon
<1> QED
  BY <1>5, Zenon DEF c, x, p, s, it

\* gabs_pbuf_ci_insert leaves the same chains on either implementation.
THEOREM InsertsAgree == Spec => []InsertAgrees
<1>1. IInv => InsertAgrees
  BY InsertsAlike
<1> QED
  BY <1>1, HeapInvariant, PTL

\* The iterator after gabs_pbuf_ci_detach.
LEMMA NbDetachIs ==
  ASSUME NEW fr, NEW hd, NEW pv, NEW cu, NEW s,
         s = [frag |-> fr, head |-> hd, prev |-> pv, cur |-> cu]
  PROVE  /\ hd = cu => /\ nb_detach(s).frag = net_buf_unref(fr, cu)
                       /\ nb_detach(s).head = Null
         /\ hd # cu => /\ nb_detach(s).frag = net_buf_unref(tie(fr, pv, Null), cu)
                       /\ nb_detach(s).head = hd
  BY DEF nb_detach, tie

\* The iterator after gabs_pbuf_ci_remove.
LEMMA NbRemoveIs ==
  ASSUME NEW fr, NEW hd, NEW pv, NEW cu, NEW s,
         s = [frag |-> fr, head |-> hd, prev |-> pv, cur |-> cu]
  PROVE  nb_remove(s) = [frag |-> net_buf_frag_del(fr, pv, cu),
                         head |-> IF hd = cu THEN fr[cu].next ELSE hd,
                         prev |-> pv, cur |-> fr[cu].next]
<1> DEFINE a == net_buf_frag_del(fr, pv, cu)
           n == fr[cu].next
           b == IF hd = cu THEN n ELSE hd
<1>1. nb_remove(s) = [s EXCEPT !.frag = a, !.cur = n, !.head = b]
  BY DEF nb_remove
<1> HIDE DEF a, n, b
<1>2. nb_remove(s) = [frag |-> a, head |-> b, prev |-> pv, cur |-> n]
  BY <1>1
<1> QED
  BY <1>2 DEF a, n, b

\* In particular for a fragment with a reference to give up.
LEMMA UnrefSame ==
  ASSUME NEW fr, Sound(fr), NEW p \in Frags, Refs(fr, p) >= 1
  PROVE  net_buf_unref(fr, p) = decref(fr, p)
<1> DEFINE c == Chain(fr, p)
<1>1. Path(fr, p, c) /\ Heap(fr) /\ Acyclic(fr)
  BY ChainPath DEF Sound, FN
<1> HIDE DEF c
<1>2. /\ c \in Seq(Frags)
      /\ \A i \in 1 .. Len(c) : fr[c[i]].refcnt >= 1
      /\ \A i, j \in 1 .. Len(c) : i # j => c[i] # c[j]
  BY <1>1, PathLive, PathDistinct DEF Path
<1> QED
  BY <1>1, <1>2, UnrefAgrees DEF c

\* A handle that holds no buffer has an empty chain.
LEMMA NoHandle ==
  ASSUME IInv, NEW h \in Handles, ~ okay(h)
  PROVE  head[h] = Null /\ DOMAIN ChainOf(h) = {} /\ decref(frag, Null) = frag
<1>1. head[h] = Null /\ Heap(frag) /\ Acyclic(frag)
  BY DEF okay, IInv, Counted, Sound
<1>2. Chain(frag, Null) = <<>>
  BY <1>1, ChainIs
<1>3. DOMAIN ChainOf(h) = {}
  BY <1>1, <1>2 DEF ChainOf
<1>4. decref(frag, Null) = Unref(frag, {})
  <2> DEFINE c == Chain(frag, Null)
             I == {i \in DOMAIN c : \A j \in 1 .. i - 1 : frag[c[j]].refcnt = 1}
  <2>1. decref(frag, Null) = Unref(frag, {c[i] : i \in I})
    BY DEF decref
  <2>2. I = {}
    BY <1>2
  <2> HIDE DEF I, c
  <2>3. {c[i] : i \in I} = {}
    BY <2>2
  <2> QED BY <2>1, <2>3
<1>5. Unref(frag, {}) = [f \in Frags |-> frag[f]]
  BY DEF Unref
<1>6. Unref(frag, {}) = frag
  BY <1>1, <1>5 DEF Heap
<1> QED
  BY <1>1, <1>3, <1>4, <1>6

\* gabs_pbuf_decref of a handle, whether it holds a buffer or not.
LEMMA DecrefsAlike ==
  ASSUME IInv, NEW h \in Handles
  PROVE  nb_decref(frag, head[h]) = decref(frag, head[h])
<1>1. CASE okay(h)
  <2>1. head[h] \in Frags /\ head[h] # Null /\ Refs(frag, head[h]) >= 1 /\ Sound(frag)
    BY <1>1, Held, NullAssumption DEF IInv, Counted
  <2>2. net_buf_unref(frag, head[h]) = decref(frag, head[h])
    BY <2>1, UnrefSame
  <2> QED BY <2>1, <2>2 DEF nb_decref
<1>2. CASE ~ okay(h)
  BY <1>2, NoHandle DEF nb_decref
<1> QED
  BY <1>1, <1>2

\* Wherever a chain is cut.
LEMMA DetachesAlike == ASSUME IInv PROVE DetachAgrees
<1>1. ASSUME NEW h \in Handles, NEW i \in DOMAIN ChainOf(h)
      PROVE  LET s == nb_detach(Iter(h, i))
             IN  /\ s.frag = ci_detach(frag, ChainOf(h), i)
                 /\ s.head = (IF i = 1 THEN Null ELSE head[h])
  <2> DEFINE c == ChainOf(h)
             p == head[h]
             it == Iter(h, i)
             s == nb_detach(it)
             pv == At(c, i - 1)
             cu == At(c, i)
             d == parted(frag, c, i)
  <2>1. okay(h)
    BY <1>1, NoHandle
  <2>2. /\ p \in Frags /\ Refs(frag, p) >= 1 /\ Path(frag, p, c) /\ Sound(frag)
        /\ c \in Seq(Frags) /\ i \in 1 .. Len(c) /\ Len(c) \in Nat /\ DOMAIN c = 1 .. Len(c)
    BY <2>1, <1>1, Held DEF IInv, Counted
  <2>3. cu = c[i] /\ (i # 1 => pv = c[i - 1])
    BY <2>2 DEF At
  <2>4. it = [frag |-> frag, head |-> p, prev |-> pv, cur |-> cu]
    BY DEF Iter
  <2> HIDE DEF it
  <2>5. /\ p = cu => s.frag = net_buf_unref(frag, cu) /\ s.head = Null
        /\ p # cu => s.frag = net_buf_unref(tie(frag, pv, Null), cu) /\ s.head = p
    BY <2>4, NbDetachIs
  <2>6. /\ c[i] \in Frags /\ (i = 1 <=> c[i] = p)
        /\ Sound(d) /\ Refs(d, c[i]) >= 1
    BY <2>2, PartedSound
  <2>7. ci_detach(frag, c, i) = decref(d, c[i])
    BY DEF ci_detach, parted, tie
  <2>8. d = IF i = 1 THEN frag ELSE tie(frag, c[i - 1], Null)
    BY DEF parted
  <2> HIDE DEF c, p, s, pv, cu, d
  <2>9. net_buf_unref(d, c[i]) = decref(d, c[i])
    BY <2>6, UnrefSame
  <2>10. s.frag = ci_detach(frag, c, i) /\ s.head = (IF i = 1 THEN Null ELSE p)
    BY <2>3, <2>5, <2>6, <2>7, <2>8, <2>9, Zenon
  <2> QED BY <2>10, Zenon DEF c, p, s, it
<1> QED
  BY <1>1, DecrefsAlike DEF DetachAgrees

\* gabs_pbuf_decref and gabs_pbuf_ci_detach release the same fragments on either
\* implementation.
THEOREM DetachesAgree == Spec => []DetachAgrees
<1>1. IInv => DetachAgrees
  BY DetachesAlike
<1> QED
  BY <1>1, HeapInvariant, PTL

\* net_buf_frag_del takes out the fragment gabs_pbuf_ci_remove takes out.
LEMMA DelSame ==
  ASSUME NEW fr, Sound(fr), NEW p \in Frags, Refs(fr, p) >= 1, NEW c, Path(fr, p, c),
         NEW i \in 1 .. Len(c)
  PROVE  net_buf_frag_del(fr, At(c, i - 1), c[i]) = ci_remove(fr, c, i)
<1> DEFINE d == takenOut(fr, c, i)
           pv == At(c, i - 1)
<1>1. /\ c \in Seq(Frags) /\ Len(c) \in Nat /\ DOMAIN c = 1 .. Len(c)
      /\ \A j \in 1 .. Len(c) : c[j] \in Frags
  BY DEF Path
<1>2. (i = 1 => pv = Null) /\ (i # 1 => pv = c[i - 1] /\ pv # Null)
  BY <1>1, NullAssumption DEF At
<1>3. Sound(d) /\ Refs(d, c[i]) >= 1 /\ c[i] \in Frags
  BY TakenOutSound
<1>4. ci_remove(fr, c, i) = decref(d, c[i])
  BY DEF ci_remove, takenOut, tie
<1>5. net_buf_frag_del(fr, pv, c[i])
        = net_buf_unref(tie(IF pv = Null THEN fr ELSE tie(fr, pv, fr[c[i]].next), c[i], Null), c[i])
  BY DEF net_buf_frag_del, tie
<1>6. d = tie(IF i = 1 THEN fr ELSE tie(fr, c[i - 1], fr[c[i]].next), c[i], Null)
  BY DEF takenOut
<1> HIDE DEF d, pv
<1>7. d = tie(IF pv = Null THEN fr ELSE tie(fr, pv, fr[c[i]].next), c[i], Null)
  BY <1>2, <1>6, Zenon
<1>8. net_buf_unref(d, c[i]) = decref(d, c[i])
  BY <1>3, UnrefSame
<1> QED
  BY <1>4, <1>5, <1>7, <1>8, Zenon DEF pv

\* Whichever fragment is removed.
LEMMA RemovesAlike ==
  ASSUME IInv, NEW h \in Handles
  PROVE  RemovesOne(h, ChainOf(h))
<1> SUFFICES ASSUME NEW i \in DOMAIN ChainOf(h)
             PROVE  LET s == nb_remove(Iter(h, i))
                    IN  /\ s.frag = ci_remove(frag, ChainOf(h), i)
                        /\ s.head = (IF i = 1 THEN At(ChainOf(h), 2) ELSE head[h])
                        /\ s.cur = At(ChainOf(h), i + 1)
  BY Zenon DEF RemovesOne
<1> DEFINE c == ChainOf(h)
           p == head[h]
           it == Iter(h, i)
           s == nb_remove(it)
           pv == At(c, i - 1)
           cu == At(c, i)
<1>1. okay(h)
  BY NoHandle
<1>2. /\ p \in Frags /\ Refs(frag, p) >= 1 /\ Path(frag, p, c) /\ Sound(frag)
      /\ c \in Seq(Frags) /\ i \in 1 .. Len(c) /\ Len(c) \in Nat /\ DOMAIN c = 1 .. Len(c)
  BY <1>1, Held DEF IInv, Counted
<1>3. cu = c[i] /\ frag[c[i]].next = At(c, i + 1)
  BY <1>2 DEF At, Path
<1>4. i = 1 <=> p = c[i]
  BY <1>2, PartedSound
<1>5. net_buf_frag_del(frag, pv, c[i]) = ci_remove(frag, c, i)
  BY <1>2, DelSame
<1>6. it = [frag |-> frag, head |-> p, prev |-> pv, cur |-> cu]
  BY DEF Iter
<1>7. i = 1 => At(c, i + 1) = At(c, 2)
  OBVIOUS
<1> HIDE DEF it, c, p, pv, cu
<1>8. s = [frag |-> net_buf_frag_del(frag, pv, cu),
           head |-> IF p = cu THEN frag[cu].next ELSE p,
           prev |-> pv, cur |-> frag[cu].next]
  BY <1>6, NbRemoveIs
<1>9. /\ s.frag = net_buf_frag_del(frag, pv, cu) /\ s.cur = frag[cu].next
      /\ s.head = IF p = cu THEN frag[cu].next ELSE p
  BY <1>8
<1> HIDE DEF s
<1>10. /\ s.frag = ci_remove(frag, c, i)
       /\ s.head = (IF i = 1 THEN At(c, 2) ELSE p)
       /\ s.cur = At(c, i + 1)
  BY <1>3, <1>4, <1>5, <1>7, <1>9, Zenon
<1> QED
  BY <1>10, Zenon DEF c, p, s, it

\* The next fragment that goes.
LEMMA DropNext ==
  ASSUME NEW fr, Sound(fr), NEW p \in Frags, Refs(fr, p) >= 1, NEW c, Path(fr, p, c),
         NEW k \in Nat, k + 1 <= Len(c)
  PROVE  LET fs == dropped(fr, c, k) IN
         /\ net_buf_frag_del(fs, Null, c[k + 1]) = dropped(fr, c, k + 1)
         /\ fs[c[k + 1]].next = At(c, k + 2)
<1> DEFINE fs == dropped(fr, c, k)
           q == c[k + 1]
           d == Chain(fs, q)
<1>1. /\ c \in Seq(Frags) /\ Len(c) \in Nat /\ DOMAIN c = 1 .. Len(c)
      /\ \A j \in 1 .. Len(c) : c[j] \in Frags /\ fr[c[j]].next = At(c, j + 1)
  BY DEF Path
<1>2. /\ k + 1 \in 1 .. Len(c) /\ (k + 1) - 1 = k /\ (k + 1) + 1 = k + 2 /\ k \in 0 .. Len(c)
      /\ k + 1 \in k + 1 .. Len(c)
  BY <1>1
<1>3. q \in Frags /\ fr[q].next = At(c, k + 2)
  BY <1>1, <1>2
<1>4. At(c, k + 1) = q
  BY <1>1, <1>2 DEF At
<1>5. /\ Sound(fs) /\ fs[q] = fr[q]
      /\ \A f \in Frags : Refs(fs, f) = Refs(fr, f) - same(f, p) + same(f, At(c, k + 1))
  BY <1>2, DroppedSound
<1>6. dropped(fr, c, k + 1) = ci_remove(fs, d, 1)
  <2> DEFINE m == k + 1
             g == dropped(fr, c, m - 1)
  <2>1. m \in 1 .. Len(c) /\ m - 1 = k
    BY <1>2
  <2> HIDE DEF m
  <2>2. dropped(fr, c, m) = ci_remove(g, Chain(g, c[m]), 1)
    BY <1>1, <2>1, DroppedIs
  <2> QED BY <2>1, <2>2 DEF m
<1>7. Refs(fs, q) >= 1
  <2>1. Refs(fr, q) \in Nat
    <3>1. Heap(fr) /\ fr[q].refcnt \in Nat
      BY <1>3 DEF Heap, FragType, Sound
    <3> QED BY <3>1, <1>3, NextsType DEF Refs, Sound
  <2>2. Refs(fs, q) = Refs(fr, q) - same(q, p) + same(q, q)
    BY <1>3, <1>4, <1>5
  <2> QED BY <2>1, <2>2 DEF same
<1> HIDE DEF fs, q
<1>8. Path(fs, q, d)
  BY <1>3, <1>5, ChainPath DEF Sound, FN
<1> HIDE DEF d
<1>9. 1 \in 1 .. Len(d) /\ d[1] = q /\ At(d, 1 - 1) = Null
  BY <1>3, <1>8, NullAssumption DEF Path, At
<1>10. net_buf_frag_del(fs, At(d, 1 - 1), d[1]) = ci_remove(fs, d, 1)
  BY <1>3, <1>5, <1>7, <1>8, <1>9, DelSame
<1>11. net_buf_frag_del(fs, Null, q) = dropped(fr, c, k + 1) /\ fs[q].next = At(c, k + 2)
  BY <1>3, <1>5, <1>6, <1>9, <1>10
<1> QED
  BY <1>11 DEF fs, q

\* t is the recursion of nb_drop.
Removed(t, s, n) == t[0] = s /\ \A k \in 1 .. n : t[k] = nb_remove(t[k - 1])

\* The iterator after n rounds of the loop.
LEMMA RemovedIs ==
  ASSUME NEW s, NEW n \in Nat
  PROVE  \E t : Removed(t, s, n) /\ nb_drop(s, n) = t[n]
<1> DEFINE Step(x) == nb_remove(x)
<1> HIDE DEF Step
<1> DEFINE G(g, k) == g = [j \in 0 .. k |-> IF j = 0 THEN s ELSE Step(g[j - 1])]
           S == {k \in Nat : \E g : G(g, k)}
<1>1. 0 \in S
  <2>1. G([j \in 0 .. 0 |-> s], 0)
    OBVIOUS
  <2> QED BY <2>1
<1>2. ASSUME NEW k \in Nat, k \in S PROVE k + 1 \in S
  <2>1. PICK g : G(g, k)
    BY <1>2
  <2> DEFINE h == [j \in 0 .. k + 1 |-> IF j = k + 1 THEN Step(g[k]) ELSE g[j]]
  <2>2. ASSUME NEW j \in 0 .. k + 1 PROVE h[j] = IF j = 0 THEN s ELSE Step(h[j - 1])
    <3>1. CASE j = k + 1
      BY <3>1
    <3>2. CASE j # k + 1
      BY <3>2, <2>1
    <3> QED BY <3>1, <3>2
  <2>3. G(h, k + 1)
    BY <2>2
  <2> HIDE DEF h, G
  <2> QED BY <2>3
<1>3. \E g : G(g, n)
  <2>1. n \in S
    <3> HIDE DEF S
    <3> QED BY <1>1, <1>2, InductionTo
  <2> QED BY <2>1
<1> DEFINE t == CHOOSE g : G(g, n)
<1>4. G(t, n)
  BY <1>3, Zenon
<1>5. nb_drop(s, n) = t[n]
  BY Zenon DEF nb_drop, Step
<1> HIDE DEF t
<1>6. t[0] = s /\ \A k \in 1 .. n : t[k] = Step(t[k - 1])
  BY <1>4
<1> QED
  BY <1>5, <1>6 DEF Removed, Step

\* However many fragments gabs_pbuf_shrink drops.
LEMMA DropsAlike ==
  ASSUME IInv, NEW h \in Handles
  PROVE  RemovesFirst(h, ChainOf(h))
<1> SUFFICES ASSUME NEW n \in DOMAIN ChainOf(h) \ {1}
             PROVE  LET s == nb_drop(Iter(h, 1), n)
                    IN  /\ s.frag = dropped(frag, ChainOf(h), n)
                        /\ s.head = s.cur /\ s.cur = At(ChainOf(h), n + 1)
  BY Zenon DEF RemovesFirst
<1> DEFINE c == ChainOf(h)
           p == head[h]
           it == Iter(h, 1)
           s == nb_drop(it, n)
           at(k) == [frag |-> dropped(frag, c, k), head |-> At(c, k + 1),
                     prev |-> Null, cur |-> At(c, k + 1)]
<1>1. okay(h)
  BY NoHandle
<1>2. /\ p \in Frags /\ Refs(frag, p) >= 1 /\ Path(frag, p, c) /\ Sound(frag)
      /\ c \in Seq(Frags) /\ Len(c) \in Nat /\ DOMAIN c = 1 .. Len(c)
  BY <1>1, Held DEF IInv, Counted
<1>3. n \in Nat /\ n <= Len(c)
  BY <1>2
<1>4. it = at(0)
  <2>1. dropped(frag, c, 0) = frag
    BY <1>2, DroppedIs
  <2>2. At(c, 0 + 1) = p /\ At(c, 1 - 1) = Null /\ At(c, 1) = p
    BY <1>2 DEF Path, At
  <2> HIDE DEF c, p
  <2>3. it = [frag |-> frag, head |-> p, prev |-> At(c, 1 - 1), cur |-> At(c, 1)]
    BY DEF Iter, p, c
  <2> QED BY <2>1, <2>2, <2>3
<1> HIDE DEF it
<1>5. PICK t : Removed(t, it, n) /\ s = t[n]
  BY <1>3, RemovedIs
<1> HIDE DEF c, p, s, at
<1> DEFINE S == {k \in Nat : k <= n => t[k] = at(k)}
<1>6. 0 \in S
  BY <1>4, <1>5 DEF Removed
<1>7. ASSUME NEW k \in Nat, k \in S PROVE k + 1 \in S
  <2> SUFFICES ASSUME k + 1 <= n PROVE t[k + 1] = at(k + 1)
    OBVIOUS
  <2> DEFINE q == c[k + 1]
             fs == dropped(frag, c, k)
  <2>1. k + 1 \in 1 .. n /\ (k + 1) - 1 = k /\ k <= n /\ k + 1 <= Len(c) /\ k + 1 \in 1 .. Len(c)
        /\ (k + 1) + 1 = k + 2
    BY <1>2, <1>3
  <2>2. t[k + 1] = nb_remove(t[k]) /\ t[k] = at(k)
    BY <2>1, <1>5, <1>7 DEF Removed
  <2>3. At(c, k + 1) = q
    BY <2>1, <1>2 DEF At
  <2>4. net_buf_frag_del(fs, Null, q) = dropped(frag, c, k + 1) /\ fs[q].next = At(c, k + 2)
    BY <2>1, <1>2, DropNext
  <2> HIDE DEF q, fs
  <2>5. at(k) = [frag |-> fs, head |-> q, prev |-> Null, cur |-> q]
    BY <2>3 DEF at, fs
  <2>6. nb_remove(at(k)) = [frag |-> net_buf_frag_del(fs, Null, q),
                            head |-> IF q = q THEN fs[q].next ELSE q,
                            prev |-> Null, cur |-> fs[q].next]
    BY <2>5, NbRemoveIs
  <2> QED BY <2>1, <2>2, <2>4, <2>6 DEF at
<1>8. s = at(n)
  <2>1. n \in S
    <3> HIDE DEF S
    <3> QED BY <1>3, <1>6, <1>7, InductionTo
  <2> QED BY <2>1, <1>5
<1>9. s.frag = dropped(frag, c, n) /\ s.head = s.cur /\ s.cur = At(c, n + 1)
  BY <1>8 DEF at
<1> QED
  BY <1>9, Zenon DEF c, s, it

\* gabs_pbuf_ci_remove, and the loop of gabs_pbuf_shrink over it, take out the same
\* fragments on either implementation and leave the iterator at the same one.
THEOREM RemovesAgree == Spec => []RemoveAgrees
<1>1. IInv => RemoveAgrees
  BY RemovesAlike, DropsAlike DEF RemoveAgrees
<1> QED
  BY <1>1, HeapInvariant, PTL
=============================================================================
