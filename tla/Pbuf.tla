---------------------------------- MODULE Pbuf ----------------------------------
(***************************************************************************)
(* Packet buffers: the generic part (pbuf/buf.c) on the basic              *)
(* implementation (pbuf/basic/basic.c).                                    *)
(*                                                                         *)
(* A buffer is a chain of fragments, linked by pointers and counted by     *)
(* reference.  A fragment made by gabs_pbuf_new has memory of its own; one *)
(* made by gabs_pbuf_new_ro, for a view, looks at the memory of another.   *)
(* Two handles may share a fragment, and with it all that follows it.      *)
(*                                                                         *)
(* There are no threads: an action is a call.  The difficulty is aliasing, *)
(* and arithmetic on sizes at the boundaries of fragments.                 *)
(***************************************************************************)
EXTENDS Integers, Sequences, FiniteSets, SequencesExt

CONSTANTS
    Frags,        \* fragments the allocator can give
    Handles,      \* variables of the application that hold a gabs_pbuf
    Null,         \* the null pointer
    Cap,          \* the size buffers are created with
    PutSizes,     \* how much the application puts at a time
    PutsInViews,  \* whether the application puts data into read-only fragments
    Budget        \* how many times each kind of call is made in a behaviour

\* Calls that make buffers, that share or join them, that write, that cut away.
Kinds == {"make", "join", "put", "trim"}

ASSUME FiniteAssumption == IsFiniteSet(Frags) /\ IsFiniteSet(Handles)
ASSUME NullAssumption   == Null \notin Frags
ASSUME CapAssumption    == Cap \in Nat \ {0} /\ PutSizes \subseteq Nat /\ PutsInViews \in BOOLEAN
ASSUME BudgetAssumption == Budget \in [Kinds -> Nat]

VARIABLES
    frag,     \* struct gabs_pbuf_basic_frag: every fragment, Blank if not allocated
    bytes,    \* the memory that belongs to each fragment
    head,     \* buf.frags of each handle; Null if it holds no reference
    written,  \* bytes written so far: the i-th one written is i
    call,     \* history: the last call and its arguments
    left      \* calls left of each kind (bound)

heapVars == <<frag, bytes, head, written>>
vars == <<heapVars, call, left>>

\* "mem" is the fragment whose memory is seen, "base" and "data" offsets in it.
Blank == [next |-> Null, refcnt |-> 0, mem |-> Null, base |-> 0, data |-> 0,
          size |-> 0, cap |-> 0, readonly |-> FALSE]
Junk  == 0    \* memory nobody has written

Live    == {f \in Frags : frag[f].refcnt > 0}
okay(h) == head[h] # Null

\* The fragments from p on.  Every chain ends: see Chained.
Chain(fr, p) ==
    LET walk[q \in Frags \cup {Null}] == IF q = Null THEN <<>> ELSE <<q>> \o walk[fr[q].next]
    IN  walk[p]

ChainOf(h) == Chain(frag, head[h])
At(c, i)   == IF i \in DOMAIN c THEN c[i] ELSE Null

headroom(fr, f) == fr[f].data - fr[f].base
tailroom(fr, f) == fr[f].cap - fr[f].size - headroom(fr, f)

\* The size of the first i fragments of a chain; gabs_pbuf_size is that of all.
upto(fr, c, i) ==
    LET sum[n \in 0 .. Len(c)] == IF n = 0 THEN 0 ELSE sum[n - 1] + fr[c[n]].size
    IN  sum[i]

size_of(fr, c) == upto(fr, c, Len(c))
total(h)       == size_of(frag, ChainOf(h))
least(m, n)    == IF m < n THEN m ELSE n

\* gabs_pbuf_tailroom: the room at the back of the chain.
room(h) == IF okay(h) THEN tailroom(frag, Last(ChainOf(h))) ELSE 0

\* Mutant: the loops stop at the fragment that reaches the offset.
seekReaches(fr, c, offset) ==
    IF offset = 0 THEN 1
    ELSE Min({Len(c) + 1} \cup {i \in DOMAIN c : upto(fr, c, i) >= offset})

\* buf_seek, and the loops of chain_at and shrink: the position of the first
\* fragment that reaches beyond the offset.
seek(fr, c, offset) ==
    IF offset = 0 THEN 1
    ELSE Min({Len(c) + 1} \cup {i \in DOMAIN c : upto(fr, c, i) > offset})

-----------------------------------------------------------------------------
(* Fragments and references.                                                *)

Unref(fr, S) ==
    [f \in Frags |-> IF f \notin S THEN fr[f]
                     ELSE IF fr[f].refcnt > 1 THEN [fr[f] EXCEPT !.refcnt = @ - 1]
                     ELSE Blank]

\* Mutant: goes on past a fragment that has another reference.
decrefOnward(fr, p) == Unref(fr, ToSet(Chain(fr, p)))

\* gabs_pbuf_decref: frees fragments up to the first that has another reference.
decref(fr, p) ==
    LET c == Chain(fr, p)
    IN  Unref(fr, {c[i] : i \in {i \in DOMAIN c : \A j \in 1 .. i - 1 : fr[c[j]].refcnt = 1}})

\* The chain x is inserted in the chain c, before its i-th fragment.
ci_insert(fr, c, i, x) ==
    LET d == Chain(fr, x)
        linked == [fr EXCEPT ![Last(d)].next = At(c, i)]
    IN  IF i = 1 THEN linked ELSE [linked EXCEPT ![c[i - 1]].next = x]

\* The chain c is cut before its i-th fragment, the rest of it released.
ci_detach(fr, c, i) ==
    decref(IF i = 1 THEN fr ELSE [fr EXCEPT ![c[i - 1]].next = Null], c[i])

\* The i-th fragment is taken out of the chain c, and released on its own.
ci_remove(fr, c, i) ==
    LET bypassed == IF i = 1 THEN fr ELSE [fr EXCEPT ![c[i - 1]].next = fr[c[i]].next]
    IN  decref([bypassed EXCEPT ![c[i]].next = Null], c[i])

ci_reserve_head(fr, f, n) == [fr EXCEPT ![f].data = @ - n, ![f].size = @ + n]
ci_release_head(fr, f, n) == [fr EXCEPT ![f].data = @ + n, ![f].size = @ - n]
ci_reserve_tail(fr, f, n) == [fr EXCEPT ![f].size = @ + n]
ci_release_tail(fr, f, n) == [fr EXCEPT ![f].size = @ - n]

\* The first n fragments of the chain c are taken out, one by one.
dropped(fr, c, n) ==
    LET drop[k \in 0 .. Len(c)] ==
          IF k = 0 THEN fr ELSE LET s == drop[k - 1] IN ci_remove(s, Chain(s, c[k]), 1)
    IN  drop[n]

\* gabs_pbuf_shrink of the buffer whose chain is c: first the fragments before
\* the offset go, one by one, then what follows the size bytes after it.
shrink(fr, c, offset, size) ==
    LET i     == seek(fr, c, offset)
        gone  == dropped(fr, c, i - 1)
        cut   == IF i > Len(c) THEN gone
                 ELSE ci_release_head(gone, c[i], offset - upto(fr, c, i - 1))
        rest  == SubSeq(c, i, Len(c))
        ends  == {j \in DOMAIN rest : upto(cut, rest, j) >= size}
        j     == Min(ends)
        short == ci_release_tail(cut, rest[j], upto(cut, rest, j) - size)
    IN  [head |-> At(c, i),
         frag |-> IF ends = {} THEN cut
                  ELSE IF j = Len(rest) THEN short
                  ELSE ci_detach(short, rest, j + 1)]

-----------------------------------------------------------------------------
(* Data.                                                                    *)

segment(f, off, n) == [k \in 1 .. n |-> bytes[frag[f].mem][frag[f].data + off + k]]

data_of(h) ==
    LET from[f \in Frags \cup {Null}] ==
          IF f = Null THEN <<>> ELSE segment(f, 0, frag[f].size) \o from[frag[f].next]
    IN  from[head[h]]

\* gabs_pbuf_view and gabs_pbuf_copy: the pieces of fragments that make up the n
\* bytes from the offset on.  There is at least one.
pieces(c, offset, n) ==
    LET i     == seek(frag, c, offset)
        first == [rest |-> n, off |-> offset - upto(frag, c, i - 1), out |-> <<>>]
        Piece(s, f) ==
          LET len == least(frag[f].size - s.off, s.rest)
          IN  IF s.rest = 0 /\ s.out # <<>> THEN s
              ELSE [rest |-> s.rest - len, off |-> 0,
                    out  |-> Append(s.out, [frag |-> f, off |-> s.off, len |-> len])]
        taken[k \in 0 .. Len(c)] == IF k < i THEN first ELSE Piece(taken[k - 1], c[k])
    IN  taken[Len(c)].out

copy(h, offset, n) ==
    LET p == pieces(ChainOf(h), offset, n)
    IN  FlattenSeq([k \in DOMAIN p |-> segment(p[k].frag, p[k].off, p[k].len)])

\* Mutant: the first fragment takes all, whether it has room or not.
FillOver(s, f) ==
    [s EXCEPT !.frag = ci_reserve_tail(s.frag, f, Len(s.data)), !.data = <<>>]

\* Mutant: the data is copied to where that of the fragment begins, over what is there.
FillFront(s, f) ==
    LET n     == least(tailroom(s.frag, f), Len(s.data))
        start == s.frag[f].data
    IN  [frag  |-> ci_reserve_tail(s.frag, f, n),
         bytes |-> [s.bytes EXCEPT ![s.frag[f].mem] =
                      [k \in DOMAIN @ |-> IF k \in start + 1 .. start + n
                                          THEN s.data[k - start] ELSE @[k]]],
         data  |-> SubSeq(s.data, n + 1, Len(s.data))]

\* gabs_pbuf_put: every fragment in turn takes what it has room for.
Fill(s, f) ==
    LET n   == least(tailroom(s.frag, f), Len(s.data))
        m   == s.frag[f].mem
        end == s.frag[f].data + s.frag[f].size
    IN  [frag  |-> ci_reserve_tail(s.frag, f, n),
         bytes |-> [s.bytes EXCEPT ![m] =
                      [k \in DOMAIN @ |-> IF k \in end + 1 .. end + n
                                          THEN s.data[k - end] ELSE @[k]]],
         data  |-> SubSeq(s.data, n + 1, Len(s.data))]

put(c, data) ==
    LET filled[n \in 0 .. Len(c)] ==
          IF n = 0 THEN [frag |-> frag, bytes |-> bytes, data |-> data]
          ELSE Fill(filled[n - 1], c[n])
    IN  filled[Len(c)]

-----------------------------------------------------------------------------
Init ==
    /\ frag  = [f \in Frags |-> Blank]
    /\ bytes = [f \in Frags |-> <<>>]
    /\ head  = [h \in Handles |-> Null]
    /\ written = 0
    /\ call = <<"none">>
    /\ left = Budget

\* A call of some kind, with its name and arguments.
Call(kind, c) ==
    /\ left[kind] > 0
    /\ left' = [left EXCEPT ![kind] = @ - 1]
    /\ call' = c

\* Memory goes with its fragment.  Nothing in a view keeps it alive: the
\* application releases a view before what it looks at.
Release ==
    /\ bytes' = [f \in Frags |-> IF frag'[f].refcnt = 0 THEN <<>> ELSE bytes[f]]
    /\ \A f \in Frags : frag'[f].refcnt > 0 => frag'[frag'[f].mem].refcnt > 0

\* What the application writes: the next n bytes.
Write(n)  == written' = written + n
Fresh(n)  == [i \in 1 .. n |-> written + i]

\* gabs_pbuf_new and gabs_pbuf_new_ro assert that the allocation succeeds.
Allocate(h, f, mem, readonly) ==
    /\ ~ okay(h)
    /\ f \notin Live
    /\ frag' = [frag EXCEPT ![f] =
                  [Blank EXCEPT !.refcnt = 1, !.mem = f, !.readonly = readonly, !.cap = Len(mem),
                                !.size = IF readonly THEN Len(mem) ELSE 0]]
    /\ bytes' = [bytes EXCEPT ![f] = mem]
    /\ head' = [head EXCEPT ![h] = f]

New(h) ==
    /\ Call("make", <<"new", h>>)
    /\ \E f \in Frags : Allocate(h, f, [i \in 1 .. Cap |-> Junk], FALSE)
    /\ UNCHANGED written

\* Over memory of the application.
NewRo(h, n) ==
    /\ Call("make", <<"new_ro", h>>)
    /\ \E f \in Frags : Allocate(h, f, Fresh(n), TRUE)
    /\ Write(n)

\* The application keeps a copy of the handle, and takes a reference for it.
Incref(h, g) ==
    /\ Call("join", <<"incref", h, g>>)
    /\ okay(h) /\ ~ okay(g)
    /\ frag' = [frag EXCEPT ![head[h]].refcnt = @ + 1]
    /\ head' = [head EXCEPT ![g] = head[h]]
    /\ UNCHANGED <<bytes, written>>

Decref(h) ==
    /\ call' = <<"decref", h>> /\ UNCHANGED left
    /\ okay(h)
    /\ frag' = decref(frag, head[h])
    /\ head' = [head EXCEPT ![h] = Null]
    /\ Release
    /\ UNCHANGED written

\* No chain the application builds sees the same memory twice.  (Else a buffer
\* could be chained to itself, and the chain not end.)
Apart(c) == \A i, j \in DOMAIN c : i # j => frag'[c[i]].mem # frag'[c[j]].mem

\* The reference that g holds goes to the chain of h, which has none of its fragments.
Chained(h, g, i, c) ==
    /\ Call("join", c)
    /\ okay(h) /\ okay(g) /\ h # g
    /\ ToSet(ChainOf(h)) \cap ToSet(ChainOf(g)) = {}
    /\ frag' = ci_insert(frag, ChainOf(h), i, head[g])
    /\ head' = [head EXCEPT ![h] = IF i = 1 THEN head[g] ELSE @, ![g] = Null]
    /\ \A k \in Handles : Apart(Chain(frag', head'[k]))
    /\ UNCHANGED <<bytes, written>>

ChainFront(h, g) == Chained(h, g, 1, <<"chain_front", h, g>>)
ChainBack(h, g)  == Chained(h, g, Len(ChainOf(h)) + 1, <<"chain_back", h, g>>)

\* The offset is that of a fragment.
ChainAt(h, g, offset) ==
    LET c == ChainOf(h)
        i == seek(frag, c, offset)
    IN  /\ upto(frag, c, i - 1) = offset
        /\ Chained(h, g, i, <<"chain_at", h, g, offset>>)

Put(h, n) ==
    LET c == ChainOf(h)
        r == put(c, Fresh(n))
    IN  /\ Call("put", <<"put", h, Fresh(n)>>)
        /\ okay(h)
        /\ PutsInViews \/ \A i \in DOMAIN c : ~ frag[c[i]].readonly
        /\ frag' = r.frag
        /\ bytes' = r.bytes
        /\ Write(n)
        /\ UNCHANGED head

Shrink(h, offset, size) ==
    LET r == shrink(frag, ChainOf(h), offset, size)
    IN  /\ frag' = r.frag
        /\ head' = [head EXCEPT ![h] = r.head]
        /\ Release
        /\ UNCHANGED written

StripHead(h, n) ==
    /\ Call("trim", <<"strip_head", h, n>>)
    /\ okay(h) /\ n <= total(h)
    /\ Shrink(h, n, total(h) - n)

StripTail(h, n) ==
    /\ Call("trim", <<"strip_tail", h, n>>)
    /\ okay(h) /\ n <= total(h)
    /\ Shrink(h, 0, total(h) - n)

\* A view is a chain of read-only fragments, one for each piece.
View(h, g, offset, n) ==
    LET p == pieces(ChainOf(h), offset, n) IN
    /\ Call("make", <<"view", h, g, offset, n>>)
    /\ okay(h) /\ ~ okay(g)
    /\ offset + n <= total(h) /\ (offset = 0 \/ offset < total(h))
    /\ \E fs \in [DOMAIN p -> Frags \ Live] :
          /\ \A i, j \in DOMAIN p : i # j => fs[i] # fs[j]
          /\ frag' = [f \in Frags |->
               IF \E i \in DOMAIN p : fs[i] = f
                 THEN LET i == CHOOSE i \in DOMAIN p : fs[i] = f
                          d == frag[p[i].frag].data + p[i].off
                      IN  [Blank EXCEPT !.refcnt = 1, !.mem = frag[p[i].frag].mem,
                             !.base = d, !.data = d, !.size = p[i].len, !.cap = p[i].len,
                             !.readonly = TRUE, !.next = At(fs, i + 1)]
                 ELSE frag[f]]
          /\ head' = [head EXCEPT ![g] = fs[1]]
    /\ UNCHANGED <<bytes, written>>

Clone(h, g, offset, n) ==
    /\ Call("make", <<"clone", h, g, offset, n>>)
    /\ okay(h) /\ ~ okay(g)
    /\ offset + n <= total(h)
    /\ \E f \in Frags \ Live :
          /\ frag' = [frag EXCEPT ![f] =
                        [Blank EXCEPT !.refcnt = 1, !.mem = f, !.size = n, !.cap = n]]
          /\ bytes' = [bytes EXCEPT ![f] = copy(h, offset, n)]
          /\ head' = [head EXCEPT ![g] = f]
    /\ UNCHANGED written

-----------------------------------------------------------------------------
(* Iterators.  The application goes to the i-th fragment and works on it.   *)

Resize(h, fr, c) ==
    /\ Call("trim", c)
    /\ frag' = fr
    /\ UNCHANGED <<bytes, head, written>>

\* Mutant: gabs_pbuf_ci_reserve_head does not look at the headroom.
ReserveHeadBlind(h, f) == Resize(h, ci_reserve_head(frag, f, 1), <<"reserve", h>>)

ReserveHead(h, f) ==
    headroom(frag, f) > 0 /\ Resize(h, ci_reserve_head(frag, f, 1), <<"reserve", h>>)

ReleaseHead(h, f) ==
    frag[f].size > 0 /\ Resize(h, ci_release_head(frag, f, 1), <<"release", h>>)

ReserveTail(h, f) ==
    tailroom(frag, f) > 0 /\ Resize(h, ci_reserve_tail(frag, f, 1), <<"reserve", h>>)

ReleaseTail(h, f) ==
    frag[f].size > 0 /\ Resize(h, ci_release_tail(frag, f, 1), <<"release", h>>)

Unlink(h, fr, first, c) ==
    /\ Call("trim", c)
    /\ frag' = fr
    /\ head' = [head EXCEPT ![h] = first]
    /\ Release
    /\ UNCHANGED written

RemoveFrag(h, i) == LET c == ChainOf(h) IN
    Unlink(h, ci_remove(frag, c, i), IF i = 1 THEN At(c, 2) ELSE head[h], <<"remove", h>>)

Detach(h, i) == LET c == ChainOf(h) IN
    Unlink(h, ci_detach(frag, c, i), IF i = 1 THEN Null ELSE head[h], <<"detach", h>>)

Next ==
    \E h \in Handles :
       \/ New(h) \/ NewRo(h, Cap) \/ Decref(h)
       \/ \E n \in PutSizes : Put(h, n)
       \/ \E n \in 0 .. total(h) : StripHead(h, n) \/ StripTail(h, n)
       \/ \E f \in ToSet(ChainOf(h)) :
             ReserveHead(h, f) \/ ReleaseHead(h, f) \/ ReserveTail(h, f) \/ ReleaseTail(h, f)
       \/ \E i \in DOMAIN ChainOf(h) : RemoveFrag(h, i) \/ Detach(h, i)
       \/ \E g \in Handles \ {h} :
             \/ Incref(h, g)
             \/ ChainFront(h, g) \/ ChainBack(h, g)
             \/ \E o \in 0 .. total(h) : ChainAt(h, g, o)
             \/ \E o \in 0 .. total(h) : \E n \in 0 .. total(h) - o :
                   View(h, g, o, n) \/ Clone(h, g, o, n)

Spec == Init /\ [][Next]_vars

-----------------------------------------------------------------------------
FragType == [next : Frags \cup {Null}, refcnt : Nat, mem : Frags \cup {Null}, base : Nat,
             data : Nat, size : Nat, cap : Nat, readonly : BOOLEAN]

\* Every variable has its type.
TypeOK ==
    /\ frag \in [Frags -> FragType]
    /\ bytes \in [Frags -> Seq(0 .. written)]
    /\ head \in [Handles -> Frags \cup {Null}]
    /\ written \in Nat
    /\ left \in [Kinds -> Nat]

\* A fragment is counted once for every handle and every fragment that points
\* to it, and is freed when the last of them lets go: none leaks, none dangles.
RefCounts ==
    \A f \in Frags :
       /\ frag[f].refcnt = Cardinality({h \in Handles : head[h] = f})
                         + Cardinality({g \in Live : frag[g].next = f})
       /\ f \notin Live => frag[f] = Blank

\* A fragment stays within the memory it looks at, which has not been freed.
InBounds ==
    \A f \in Live :
       /\ frag[f].mem \in Live
       /\ frag[f].base <= frag[f].data
       /\ frag[f].data + frag[f].size <= frag[f].base + frag[f].cap
       /\ frag[f].base + frag[f].cap <= Len(bytes[frag[f].mem])

\* gabs_pbuf_put and gabs_pbuf_tailroom, for a buffer of one fragment: what fits the
\* tailroom is found behind what was there, which is left as it was, and no more of it.
\* (Of a longer chain gabs/pbuf.h says that put leaves the other fragments alone, and
\* the code goes on into them.)
PutAppends ==
    [][\A h \in Handles : call'[1] = "put" /\ call'[2] = h /\ Len(ChainOf(h)) = 1 =>
          data_of(h)' = data_of(h) \o SubSeq(call'[3], 1, least(Len(call'[3]), room(h)))]_vars

\* gabs_pbuf_view, "a readonly view": what a read-only fragment looks at is not
\* written through it.
ViewsReadOnly ==
    [][call'[1] = "put" =>
          \A f \in ToSet(ChainOf(call'[2])) :
             frag[f].readonly => bytes'[frag[f].mem] = bytes[frag[f].mem]]_vars
=============================================================================
