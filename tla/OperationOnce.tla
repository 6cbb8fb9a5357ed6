--------------------------- MODULE OperationOnce ---------------------------
(***************************************************************************)
(* What durable admission promises about each operation id, whatever the   *)
(* retries, crashes and restarts underneath: its side effect happens at    *)
(* most once, and once the system has written down or told anyone that it  *)
(* was not executed, it never is.                                          *)
(***************************************************************************)
EXTENDS Integers

CONSTANT Ops

VARIABLES effects,      \* effects[op]: how often the side effect of op happened
          disclaimed    \* operations somebody was told were not executed

vars == <<effects, disclaimed>>

Init ==
  /\ effects = [op \in Ops |-> 0]
  /\ disclaimed = {}

Execute(op) ==
  /\ effects[op] = 0
  /\ op \notin disclaimed
  /\ effects' = [effects EXCEPT ![op] = 1]
  /\ UNCHANGED disclaimed

Disclaim(op) ==
  /\ effects[op] = 0
  /\ disclaimed' = disclaimed \union {op}
  /\ UNCHANGED effects

Next == \E op \in Ops : Execute(op) \/ Disclaim(op)

Spec == Init /\ [][Next]_vars
=============================================================================
