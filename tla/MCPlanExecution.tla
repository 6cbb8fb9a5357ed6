--------------------------- MODULE MCPlanExecution ---------------------------
(***************************************************************************)
(* A plan of six steps in three layers: an order that may miss a slot and  *)
(* needs a confirmation, beside an action that may miss a slot; then two   *)
(* twins of that action behind the order and a plain query behind the      *)
(* action; last the order again, behind the query.                         *)
(***************************************************************************)
EXTENDS PlanExecution

MCDeps == <<{}, {}, {1}, {1}, {2}, {5}>>
MCActing == {1, 2, 3, 4, 6}
MCConfirming == {1, 6}
MCAsking == {1, 2}
MCPrintOf == <<"order", "remind", "remind", "remind", "query", "order">>
MCEndpointOf == <<"a", "b", "b", "b", "a", "a">>
=============================================================================
