----------------------------- MODULE EdgeExecutor -----------------------------
(***************************************************************************)
(* The vehicle's executor of cloud-dispatched commands (orchestrator/edge/ *)
(* edge_call.py) over its SQLite operation log (operation_log.py).         *)
(*                                                                         *)
(* Calls are served one at a time from the channel's read loop and every   *)
(* log statement is synchronous, so nothing interleaves with a call except *)
(* the death of the process.  What survives a death is the log; the next   *)
(* process marks what it finds executing as orphaned before it serves.     *)
(*                                                                         *)
(* The module declares the vehicle's state and operations; EdgeRecovery    *)
(* composes them with the gateway channel and the cloud.                   *)
(***************************************************************************)
EXTENDS OperationContract, FiniteSets

CONSTANTS Ops,             \* operation ids
          RequireConfirm,  \* operations whose capability has require_confirm
          Vehicle,         \* the subject of every record of this log
          Retention,       \* RETENTION_MS
          Nobody           \* no call is being served

ASSUME RequireConfirmAssumption == RequireConfirm \subseteq Ops
ASSUME VehicleAssumption == Vehicle \in Subjects
ASSUME RetentionAssumption == Retention \in Nat

VARIABLES
  now,        \* one clock for the vehicle and the cloud
  elog,       \* elog[op]: the record of the vehicle's log, or NoRecord
  serving,    \* the call being served, with how far it got, or Nobody
  effects,    \* effects[op]: how often the vehicle carried the command out
  open,       \* calls the cloud gateway holds a result channel for
  replies     \* results on their way to an open channel

edgeVars == <<elog, serving, effects, replies>>

Call == [op : Ops, subject : {Vehicle}, params : Params, confirmed : BOOLEAN, attempt : Nat]
ReplyKinds == {"executed", "already", "need_confirm", "need_slot", "failed", "refused",
               "not_executed", "unsure"}
Reply == [op : Ops, attempt : Nat, kind : ReplyKinds]

Channel(call) == [op |-> call.op, attempt |-> call.attempt]

(* A result whose channel is gone is dropped by the gateway.               *)
Answer(call, kind) ==
  replies' = IF Channel(call) \in open
             THEN replies \union {[op |-> call.op, attempt |-> call.attempt, kind |-> kind]}
             ELSE replies

------------------------------------------------------------------------------
(* Every insert first deletes what was not touched for the retention time. *)
Purged ==
  [op \in Ops |-> IF elog[op] # NoRecord /\ elog[op].touched < now - Retention
                  THEN NoRecord ELSE elog[op]]

(* What the admission gate answers instead of running the command.         *)
GateReply(decision, status) ==
  CASE decision = "duplicate" -> IF status = "done" THEN "executed" ELSE "failed"
    [] decision = "expired" -> "not_executed"
    [] decision \in {"unavailable", "mismatch"} -> "refused"
    [] decision \in {"in_progress", "unknown"} -> "unsure"

DecideCall(call) == Decide(Purged[call.op], call, now)

(* admit, then either the call runs or the gate answers it.                *)
Admit(call) ==
  /\ serving = Nobody
  /\ LET d == DecideCall(call)
     IN  \/ /\ d.kind = "run"
            /\ elog' = [Purged EXCEPT ![call.op] = Envelope(call, now)]
            /\ serving' = [call |-> call, acted |-> FALSE]
            /\ UNCHANGED replies
         \/ /\ d.kind # "run"
            /\ elog' = IF d.mark = "" THEN Purged
                       ELSE [Purged EXCEPT ![call.op].status = d.mark]
            /\ Answer(call, GateReply(d.kind, elog'[call.op].status))
            /\ UNCHANGED serving
  /\ UNCHANGED effects

(* The contract checks refuse the call, or a log statement failed: nothing *)
(* was admitted, though old records may already be gone.                   *)
Refuse(call) ==
  /\ serving = Nobody
  /\ elog' \in {elog, Purged}
  /\ Answer(call, "refused")
  /\ UNCHANGED <<serving, effects>>

(* Another operation's insert purges this log.                             *)
PurgeLog ==
  /\ serving = Nobody
  /\ Purged # elog
  /\ elog' = Purged
  /\ UNCHANGED <<serving, effects, replies>>

(* VAL carries the command out.  It refuses an unconfirmed command that    *)
(* needs a confirmation.                                                   *)
MayAct(call) == call.op \notin RequireConfirm \/ call.confirmed

Act ==
  /\ serving # Nobody
  /\ ~serving.acted /\ MayAct(serving.call)
  /\ effects' = [effects EXCEPT ![serving.call.op] = @ + 1]
  /\ serving' = [serving EXCEPT !.acted = TRUE]
  /\ UNCHANGED <<elog, replies>>

(* How _run ends: executed, or one of the answers that changed nothing; an *)
(* unconfirmed command may find the vehicle already in the wanted state.   *)
CanEnd(o) ==
  IF serving.acted THEN o = "ok"
  ELSE \/ o \in {"need_slot", "rejected", "failed"}
       \/ o \in {"need_confirm", "ok"} /\ ~MayAct(serving.call)

RunReply(o) ==
  CASE o = "ok" -> IF serving.acted THEN "executed" ELSE "already"
    [] o \in {"need_confirm", "need_slot"} -> o
    [] o \in {"rejected", "failed"} -> "failed"

Settlements(o) ==
  LET c == serving.call
  IN  [elog EXCEPT ![c.op] =
         Settled(@, Settle(o, c.op \in RequireConfirm, c.confirmed), now)]

(* gate.settle and the reply.  A settlement the store refuses is logged:   *)
(* the reply stands and the record stays executing.                        *)
Finish(o) ==
  /\ serving # Nobody /\ CanEnd(o)
  /\ elog' \in {elog, Settlements(o)}
  /\ Answer(serving.call, RunReply(o))
  /\ serving' = Nobody
  /\ UNCHANGED effects

\* Mutant: an exception in VAL leaves the operation open to a new attempt.
RaisedOutcomeOpen == "need_confirm"

RaisedOutcome == "uncertain"

(* VAL raised, before or after it moved anything: settle_uncertain, and    *)
(* the exception ends the session without a reply.                         *)
Raise ==
  /\ serving # Nobody
  /\ elog' \in {elog, Settlements(RaisedOutcome)}
  /\ serving' = Nobody
  /\ UNCHANGED <<effects, replies>>

\* Mutant: the next process takes the executing record for one nobody ran.
RecoveredForgets(rec) == IF rec # NoRecord /\ Executing(rec) THEN NoRecord ELSE rec

Recovered(rec) ==
  IF rec # NoRecord /\ Executing(rec) THEN [rec EXCEPT !.status = "orphaned"] ELSE rec

(* The process dies and the next one recovers the log.                     *)
Restart ==
  /\ serving' = Nobody
  /\ elog' = [op \in Ops |-> Recovered(elog[op])]
  /\ <<serving, elog>>' # <<serving, elog>>
  /\ UNCHANGED <<effects, replies>>

(* operation_query: read-only, answered between two calls.                 *)
CanQuery == serving = Nobody
QueryResult(op) == EffectiveStatus(elog[op], now)
===============================================================================
