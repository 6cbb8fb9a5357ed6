--------------------------- MODULE MCEdgeRecovery ---------------------------
(***************************************************************************)
(* Model-checking instance of EdgeRecovery: one operation, from its first  *)
(* dispatch to the purge of its record, with every delay, loss, restart    *)
(* and answer in between.  The operation either needs a confirmation or    *)
(* not; the other one is never dispatched.                                 *)
(***************************************************************************)
EXTENDS EdgeRecovery, TLC

OneInit ==
  /\ Init
  /\ \E op \in Ops : \A other \in Ops :
       step[other].stage = IF other = op THEN "new" ELSE "ended"

OneSpec     == OneInit /\ [][Next]_vars
OneLiveSpec == OneSpec /\ Fairness

Symmetry == Permutations(Params)
=============================================================================
