------------------------------ MODULE MCSvcHeap ------------------------------
(* TLC instance of the heap blocks of add_svcs and commit_svcs.            *)
EXTENDS SvcHeap

\* Up to two elements in each array, valid and invalid ones at every level.
MCElem(arrays) ==
  {[kind |-> "array", elems |-> a] : a \in arrays}
    \union {[kind |-> k, elems |-> << >>] : k \in {"invalid", "plain"}}

MCChr == MCElem({<< >>, <<TRUE>>, <<FALSE>>, <<TRUE, FALSE>>})
MCSvc == MCElem(SeqOf(MCChr, 2))
MCTrees == SeqOf(MCSvc, 2)
=============================================================================
