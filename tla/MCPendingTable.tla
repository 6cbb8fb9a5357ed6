--------------------------- MODULE MCPendingTable ---------------------------
(***************************************************************************)
(* Model-checking instance of PendingTable: two turns at a time over three *)
(* suspended operations in a table of two, so that saving evicts.          *)
(***************************************************************************)
EXTENDS PendingTable

Symmetry == Permutations(Turns) \union Permutations(Pendings)

\* Nothing is promised of an operation that a write put back: the run follows one
\* of them, until it is resumed a second time.
OnePutBack ==
  /\ Cardinality(revived) <= 1
  /\ \A id \in revived : dispatched[id] < 2
=============================================================================
