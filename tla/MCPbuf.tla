--------------------------------- MODULE MCPbuf ---------------------------------
(***************************************************************************)
(* Finite instances of Pbuf and NetBuf, and what Pbuf implements: every    *)
(* call does what Packet says it does.  Two buffers share data if they see *)
(* a memory in common.                                                     *)
(***************************************************************************)
EXTENDS NetBuf, TLC

Symmetry == Permutations(Frags) \cup Permutations(Handles)

\* The last call tells nothing of what can come next.
HeapView == <<heapVars, left>>

Calls(m, j, p, t) == [make |-> m, join |-> j, put |-> p, trim |-> t]

BudgetPbuf == Calls(3, 2, 1, 1)

\* The pairs of buffers that see a memory in common.
Sharing ==
    LET sees == [h \in Handles |-> {frag[f].mem : f \in ToSet(ChainOf(h))}]
        Seeing(m) == {h \in Handles : m \in sees[h]}
    IN  {p \in UNION {{{g, h} : g, h \in Seeing(m)} : m \in Frags} : Cardinality(p) = 2}

Abstract == INSTANCE Packet WITH
    content <- [h \in {h \in Handles : okay(h)} |-> data_of(h)],
    kin     <- Sharing

\* Every call of gabs/pbuf.h keeps its promise.
ImplementsPacket == Abstract!Spec
=============================================================================
