----------------------------- MODULE MCTurnOutbox -----------------------------
(***************************************************************************)
(* Model-checking instance of TurnOutbox: two turns, in one session or     *)
(* two, and a deletion of the user's memory.  Exchanges and sessions are   *)
(* compared for equality only, so they are symmetric.  Liveness rules out  *)
(* a symmetry set: there the turns arrive in a fixed order, and none is    *)
(* given up or expires.                                                    *)
(***************************************************************************)
EXTENDS TurnOutbox, SequencesExt

Symmetry == Permutations(Exchanges) \union Permutations(Sessions)

InOrder ==
  /\ IsPrefix(order, SetToSeq(Exchanges))
  /\ old = 0
  /\ dropped = {}

OrderedLiveSpec == Init /\ [][Next /\ InOrder']_vars /\ Fairness
===============================================================================
