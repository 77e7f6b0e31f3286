--------------------------------- MODULE NetBuf ---------------------------------
(***************************************************************************)
(* Packet buffers on Zephyr's net_buf (pbuf/zephyr/net_buf.c): the         *)
(* operations of an iterator, on the heap of Pbuf.  buf.c is the same code *)
(* on either implementation, so what is at stake is that an iterator does  *)
(* to the fragments, and to the pointer in the handle, what the basic one  *)
(* does.                                                                   *)
(*                                                                         *)
(* An iterator has the fragment it is at, the one before and the place the *)
(* handle keeps its first.  net_buf's functions are not in the repository: *)
(* next stands for its frags, refcnt for its ref.                          *)
(***************************************************************************)
EXTENDS Pbuf

\* What an operation starts from and leaves: the fragments, the handle's pointer
\* and the iterator.
Iter(h, i) == [frag |-> frag, head |-> head[h], prev |-> At(ChainOf(h), i - 1),
              cur |-> At(ChainOf(h), i)]

-----------------------------------------------------------------------------
(* net_buf.                                                                 *)

net_buf_frag_last(fr, p) == Last(Chain(fr, p))

\* What the parent was followed by now follows the chain x.
net_buf_frag_insert(fr, parent, x) ==
    LET next == fr[parent].next
        tied == IF next = Null THEN fr ELSE [fr EXCEPT ![net_buf_frag_last(fr, x)].next = next]
    IN  [tied EXCEPT ![parent].next = x]

net_buf_frag_add(fr, p, x) == net_buf_frag_insert(fr, net_buf_frag_last(fr, p), x)

\* A reference is given up; a fragment that had only that one is freed, and with it
\* its reference to the next.
net_buf_unref(fr, p) ==
    LET c == Chain(fr, p)
        Drop(s, f) ==
          IF s.held THEN s
          ELSE [frag |-> Unref(s.frag, {f}), held |-> s.frag[f].refcnt > 1]
        unref[n \in 0 .. Len(c)] ==
          IF n = 0 THEN [frag |-> fr, held |-> FALSE] ELSE Drop(unref[n - 1], c[n])
    IN  unref[Len(c)].frag

net_buf_frag_del(fr, parent, f) ==
    LET bypassed == IF parent = Null THEN fr ELSE [fr EXCEPT ![parent].next = fr[f].next]
    IN  net_buf_unref([bypassed EXCEPT ![f].next = Null], f)

-----------------------------------------------------------------------------
(* References, and the iterator.                                            *)

nb_decref(fr, p) == IF p # Null THEN net_buf_unref(fr, p) ELSE fr

\* Mutant: at the front, the handle keeps its pointer.
nb_insertBehind(s, x) ==
    [s EXCEPT !.cur = x,
              !.frag = IF s.prev # Null THEN net_buf_frag_insert(s.frag, s.prev, x)
                       ELSE IF s.cur # Null THEN net_buf_frag_add(s.frag, x, s.cur) ELSE s.frag]

nb_insert(s, x) ==
    IF s.prev # Null
      THEN [s EXCEPT !.frag = net_buf_frag_insert(s.frag, s.prev, x), !.cur = x]
      ELSE [s EXCEPT !.frag = IF s.cur # Null THEN net_buf_frag_add(s.frag, x, s.cur) ELSE @,
                     !.head = x, !.cur = x]

\* Mutant: what is cut off is not released.
nb_detachKept(s) ==
    IF s.head = s.cur THEN [s EXCEPT !.head = Null]
    ELSE [s EXCEPT !.frag = [s.frag EXCEPT ![s.prev].next = Null]]

nb_detach(s) ==
    IF s.head = s.cur
      THEN [s EXCEPT !.head = Null, !.frag = net_buf_unref(@, s.cur)]
      ELSE [s EXCEPT !.frag = net_buf_unref([@ EXCEPT ![s.prev].next = Null], s.cur)]

\* Mutant: whether it is the first is asked after it has gone.
nb_removeLate(s) ==
    LET cur == s.frag[s.cur].next
    IN  [s EXCEPT !.frag = net_buf_frag_del(@, s.prev, s.cur), !.cur = cur,
                  !.head = IF @ = cur THEN cur ELSE @]

nb_remove(s) ==
    LET cur == s.frag[s.cur].next
    IN  [s EXCEPT !.frag = net_buf_frag_del(@, s.prev, s.cur), !.cur = cur,
                  !.head = IF @ = s.cur THEN cur ELSE @]

\* The first loop of gabs_pbuf_shrink, with one iterator throughout: n fragments go.
nb_drop(s, n) ==
    LET drop[k \in 0 .. n] == IF k = 0 THEN s ELSE nb_remove(drop[k - 1])
    IN  drop[n]

-----------------------------------------------------------------------------
\* gabs_pbuf_ci_insert: the chain goes where it goes with the basic iterator, which
\* then is at its first fragment; chain_front finds it in the handle.
InsertAgrees ==
    \A h, g \in {h \in Handles : okay(h)} :
       LET c == ChainOf(h) IN
       ToSet(c) \cap ToSet(ChainOf(g)) = {} =>
          \A i \in 1 .. Len(c) + 1 :
             LET s == nb_insert(Iter(h, i), head[g])
             IN  /\ s.frag = ci_insert(frag, c, i, head[g])
                 /\ s.head = (IF i = 1 THEN head[g] ELSE head[h])
                 /\ s.cur = head[g]

\* gabs_pbuf_decref and gabs_pbuf_ci_detach: shared fragments lose one reference and
\* stay, with what follows them; others go.
DetachAgrees ==
    \A h \in Handles :
       LET c == ChainOf(h) IN
       /\ nb_decref(frag, head[h]) = decref(frag, head[h])
       /\ \A i \in DOMAIN c :
             LET s == nb_detach(Iter(h, i))
             IN  /\ s.frag = ci_detach(frag, c, i)
                 /\ s.head = (IF i = 1 THEN Null ELSE head[h])

\* One fragment goes, or loses a reference, and the iterator is at the next.
RemovesOne(h, c) ==
    \A i \in DOMAIN c :
       LET s == nb_remove(Iter(h, i))
       IN  /\ s.frag = ci_remove(frag, c, i)
           /\ s.head = (IF i = 1 THEN At(c, 2) ELSE head[h])
           /\ s.cur = At(c, i + 1)

\* An iterator that has removed the first n fragments, one after the other, leaves
\* what the basic one leaves, and the handle where it goes on.
RemovesFirst(h, c) ==
    \A n \in DOMAIN c \ {1} :
       LET s == nb_drop(Iter(h, 1), n)
       IN  /\ s.frag = dropped(frag, c, n)
           /\ s.head = s.cur /\ s.cur = At(c, n + 1)

\* gabs_pbuf_ci_remove, anywhere in a chain; and the loop of gabs_pbuf_shrink over it.
RemoveAgrees ==
    \A h \in Handles : LET c == ChainOf(h) IN RemovesOne(h, c) /\ RemovesFirst(h, c)
=============================================================================
