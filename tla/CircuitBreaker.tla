--------------------------- MODULE CircuitBreaker ---------------------------
(***************************************************************************)
(* The breaker of one endpoint (orchestrator/cloud/circuit.py) as a value. *)
(* Its counter of half-open probes is left out: the code resets it and     *)
(* compares it and never counts, so a half-open breaker admits every call. *)
(***************************************************************************)
EXTENDS Naturals

CONSTANT Threshold   \* failure_threshold

ASSUME ThresholdAssumption == Threshold \in Nat \ {0}

\* failures stop counting at the threshold; cool tells that the recovery
\* timeout has passed since the last of them.
Breaker == [state: {"closed", "open", "half_open"}, failures: 0 .. Threshold,
            cool: BOOLEAN]
\* A breaker is closed only below its threshold.
Sound(b) == b.state = "closed" => b.failures < Threshold
Closed == [state |-> "closed", failures |-> 0, cool |-> FALSE]

\* allow: whether a call may go out, and what asking does to the breaker.
Allowed(b) == b.state # "open" \/ b.cool
Asked(b) == IF b.state = "open" /\ b.cool THEN [b EXCEPT !.state = "half_open"] ELSE b

\* record_success: an answer to a call that went out before the breaker opened
\* clears the count and leaves it open.
Succeeded(b) ==
    [b EXCEPT !.state = IF @ = "half_open" THEN "closed" ELSE @, !.failures = 0]

\* record_failure
KeepsCounting(b) ==
    [b EXCEPT !.failures = IF @ = Threshold THEN @ ELSE @ + 1, !.cool = FALSE]
Counted(b) == IF b.failures = Threshold THEN Threshold ELSE b.failures + 1
Failed(b) ==
    [state |-> IF b.state = "half_open" \/ Counted(b) >= Threshold THEN "open"
               ELSE b.state,
     failures |-> Counted(b),
     cool |-> FALSE]
=============================================================================
