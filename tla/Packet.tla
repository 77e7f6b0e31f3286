--------------------------------- MODULE Packet ---------------------------------
(***************************************************************************)
(* What gabs/pbuf.h promises: a buffer is a sequence of bytes.  A call     *)
(* changes the buffer it is given, and no other but those that share data  *)
(* with it.  Only copying a handle, making a view and chaining make        *)
(* buffers share data.                                                     *)
(***************************************************************************)
EXTENDS Integers, Sequences, FiniteSets, SequencesExt

CONSTANT Handles

VARIABLES
    content,   \* the bytes of every buffer there is
    kin,       \* the pairs of buffers that may share data
    call       \* the last call and its arguments

vars == <<content, kin, call>>

Buffers  == DOMAIN content
Kin(h)   == {h} \cup UNION {p \in kin : h \in p}
Pairs(S) == {{g, h} : g, h \in S}

Init == Buffers = {} /\ kin = {} /\ call = <<"none">>

\* Buffers outside S keep their content.
Elsewhere(S) ==
    LET then == content' now == content
    IN  \A g \in DOMAIN now \ S : g \in DOMAIN then /\ then[g] = now[g]

\* No sharing arises but within S.
SharingWithin(S) == kin' \subseteq kin \cup Pairs(S)

Take(s, n) == SubSeq(s, 1, n)
After(s, n) == SubSeq(s, n + 1, Len(s))

\* The members of s at the positions in S.
At(s, S) == [i \in 1 .. Cardinality(S) |->
               s[CHOOSE p \in S : Cardinality({q \in S : q < p}) = i - 1]]

-----------------------------------------------------------------------------
Added(h, c) ==
    /\ h \notin Buffers
    /\ Buffers' = Buffers \cup {h}
    /\ content'[h] = c
    /\ Elsewhere({h})

New(h) == Added(h, <<>>) /\ SharingWithin({})

\* Over any memory of the application.
NewRo(h) == h \in Buffers' /\ Added(h, content'[h]) /\ SharingWithin({})

Incref(h, g) == Added(g, content[h]) /\ SharingWithin(Kin(h) \cup {g})

View(h, g, offset, n) ==
    /\ Added(g, SubSeq(content[h], offset + 1, offset + n))
    /\ SharingWithin(Kin(h) \cup {g})

\* "A deep copy".
Clone(h, g, offset, n) ==
    /\ Added(g, SubSeq(content[h], offset + 1, offset + n))
    /\ SharingWithin({})

\* Letting go of a buffer affects none of the others.
Decref(h) ==
    /\ Buffers' = Buffers \ {h}
    /\ Elsewhere({h})
    /\ SharingWithin({})

ChainAt(h, g, offset) ==
    /\ Buffers' = Buffers \ {g}
    /\ content'[h] = Take(content[h], offset) \o content[g] \o After(content[h], offset)
    /\ Elsewhere(Kin(h) \cup Kin(g))
    /\ SharingWithin(Kin(h) \cup Kin(g))

\* The buffer changes, and with it those that share data with it.
Becomes(h, c) ==
    /\ h \in Buffers' /\ content'[h] = c
    /\ Elsewhere(Kin(h))
    /\ SharingWithin({})

\* What is put is found in the buffer, in order, up to what there is room for,
\* and so is all that was in it.
Put(h, data) ==
    LET new == content'[h] was == content[h] IN
    /\ Becomes(h, new)
    /\ \E old \in SUBSET DOMAIN new :
          /\ At(new, old) = was
          /\ IsPrefix(At(new, DOMAIN new \ old), data)

\* A buffer stripped of all it has by the head is gone.
StripHead(h, n) ==
    IF n > 0 /\ n = Len(content[h])
      THEN h \notin Buffers' /\ Elsewhere(Kin(h)) /\ SharingWithin({})
      ELSE Becomes(h, After(content[h], n))

StripTail(h, n) == Becomes(h, Take(content[h], Len(content[h]) - n))

\* Room is added to a fragment, somewhere in the buffer.
Reserve(h) ==
    LET new == content'[h] was == content[h]
    IN  Becomes(h, new) /\ \E i \in DOMAIN new : was = RemoveAt(new, i)

Release(h) ==
    LET was == content[h]
    IN  \E i \in DOMAIN was : Becomes(h, RemoveAt(was, i))

\* A fragment is taken out, or the fragments from one on.
Without(h, c) ==
    \/ h \notin Buffers' /\ Elsewhere(Kin(h)) /\ SharingWithin({})
    \/ Becomes(h, c)

RemoveFrag(h) ==
    \E i \in 0 .. Len(content[h]) : \E j \in i .. Len(content[h]) :
       Without(h, Take(content[h], i) \o After(content[h], j))

Detach(h) == \E i \in 0 .. Len(content[h]) : Without(h, Take(content[h], i))

\* What a call does is told by its name and arguments.
Next ==
    LET c == call' h == c[2] IN
    \/ c[1] = "new" /\ New(h)
    \/ c[1] = "new_ro" /\ NewRo(h)
    \/ c[1] = "decref" /\ Decref(h)
    \/ c[1] = "incref" /\ Incref(h, c[3])
    \/ c[1] = "chain_front" /\ ChainAt(h, c[3], 0)
    \/ c[1] = "chain_back" /\ ChainAt(h, c[3], Len(content[h]))
    \/ c[1] = "chain_at" /\ ChainAt(h, c[3], c[4])
    \/ c[1] = "put" /\ Put(h, c[3])
    \/ c[1] = "strip_head" /\ StripHead(h, c[3])
    \/ c[1] = "strip_tail" /\ StripTail(h, c[3])
    \/ c[1] = "view" /\ View(h, c[3], c[4], c[5])
    \/ c[1] = "clone" /\ Clone(h, c[3], c[4], c[5])
    \/ c[1] = "reserve" /\ Reserve(h)
    \/ c[1] = "release" /\ Release(h)
    \/ c[1] = "remove" /\ RemoveFrag(h)
    \/ c[1] = "detach" /\ Detach(h)

Spec == Init /\ [][Next]_vars
=============================================================================
