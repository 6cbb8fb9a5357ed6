------------------------ MODULE MCProactiveDelivery ------------------------
(***************************************************************************)
(* The instance of ProactiveDelivery: an alert, durable and on conditions, *)
(* that skips the merge window, and an advice that does neither, both with *)
(* a ttl and under one dedup key.                                          *)
(***************************************************************************)
EXTENDS ProactiveDelivery, TLC

MCMsgs == {"alert", "advice"}
MCDurable == {"alert"}
MCCritical == {"alert"}
MCTimed == MCMsgs
MCConditional == {"alert"}
MCKeyOf == [m \in MCMsgs |-> "key"]
====
