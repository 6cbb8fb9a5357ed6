----------------------------- MODULE EdgeRecovery -----------------------------
(***************************************************************************)
(* A vehicle command from the cloud's point of view: the step executor     *)
(* (orchestrator/cloud/executor.py), the dispatcher's transport errors     *)
(* (dispatch.py) and the background reconciliation (operation_sync.py),    *)
(* composed with the vehicle (EdgeExecutor) over the gateway channel       *)
(* (gateway/cloud/main.go).                                                *)
(*                                                                         *)
(* A call frame may be lost or arrive at any time within MaxDelay, in any  *)
(* order; a reply may be lost or miss its channel.  When no reply came     *)
(* the cloud asks the vehicle's log, sends the same operation once more    *)
(* only if the log never heard of it, and hands what is still open to the  *)
(* background, which only ever asks.                                       *)
(***************************************************************************)
EXTENDS EdgeExecutor

CONSTANTS
  StepBudget,     \* latency_budget_ms: how long a dispatch waits
  QueryTimeout,   \* _EDGE_QUERY_TIMEOUT_S, QUERY_TIMEOUT_S
  MaxDelay,       \* how late a call frame may still reach the vehicle
  Grace,          \* ABSENT_GRACE_S
  Horizon,        \* HORIZON_S
  PendingTtl,     \* how long a suspended step waits for the user
  MaxSends,       \* bound on the call frames of one operation
  MaxTime         \* bound on the clock

ASSUME TimesAssumption ==
  /\ StepBudget \in Nat \ {0} /\ PendingTtl \in Nat \ {0}
  /\ {QueryTimeout, Grace, Horizon, MaxSends, MaxTime} \subseteq Nat

\* operation_sync.py: no undelivered command may still run after the grace.
ASSUME DelayAssumption == MaxDelay \in Nat /\ MaxDelay <= Grace

\* The vehicle keeps a record until nobody may ask about it any more, or send
\* it: the user may still answer, and the last frame may still be late.
ASSUME KeptAssumption ==
  /\ Retention >= PendingTtl + 2 * (StepBudget + QueryTimeout) + Horizon
  /\ Retention >= PendingTtl + StepBudget + MaxDelay

VARIABLES
  calls,      \* call frames on their way to the vehicle
  step,       \* step[op]: the cloud's step of this operation
  notes,      \* notes[op]: its reconciliation record, or NoNote
  asks,       \* asks[op]: the background's outstanding query, or NoAsk
  forgotten,  \* operations whose owner had the data deleted
  told        \* what was said about operations: to the user or in the audit record

vars == <<now, edgeVars, open, calls, step, notes, asks, forgotten, told>>

NoNote == [status |-> "none"]
NoAsk  == [answer |-> "none"]

EdgeAnswers == Statuses \union {"absent", ""}
Verdicts    == {"done", "failed", "not_executed", "unknown"}

Frame == [op : Ops, subject : {Vehicle}, params : Params, confirmed : BOOLEAN,
          attempt : Nat, sent : Nat]
Step  == [stage : {"new", "waiting", "asking", "answered", "pending", "ended"},
          params : Params, confirmed : BOOLEAN, attempt : Nat, deadline : Nat,
          resent : BOOLEAN, answer : EdgeAnswers \union {"need_confirm", "need_slot"}]
Note  == [status : Verdicts \union {"checking"}, created : Nat, next : Nat]
Claims == {"executed", "failed", "not_executed", "checking", "unreachable"}

Init ==
  /\ now = 0
  /\ elog = [op \in Ops |-> NoRecord]
  /\ serving = Nobody
  /\ effects = [op \in Ops |-> 0]
  /\ open = {}
  /\ replies = {}
  /\ calls = {}
  /\ step \in [Ops -> [stage : {"new", "ended"}, params : Params, confirmed : {FALSE},
                       attempt : {0}, deadline : {0}, resent : {FALSE}, answer : {""}]]
  /\ notes = [op \in Ops |-> NoNote]
  /\ asks = [op \in Ops |-> NoAsk]
  /\ forgotten = {}
  /\ told = {}

------------------------------------------------------------------------------
(* The channel and the vehicle                                             *)

Deliverable(f) == now - f.sent <= MaxDelay
CallOf(f) == [op |-> f.op, subject |-> f.subject, params |-> f.params,
              confirmed |-> f.confirmed, attempt |-> f.attempt]

DeliverCall(f) ==
  /\ Deliverable(f)
  /\ calls' = calls \ {f}
  /\ Admit(CallOf(f)) \/ Refuse(CallOf(f))
  /\ UNCHANGED <<now, open, step, notes, asks, forgotten, told>>

(* A frame is lost with its session, or will not arrive any more.          *)
LoseCall(f) ==
  /\ calls' = calls \ {f}
  /\ UNCHANGED <<now, edgeVars, open, step, notes, asks, forgotten, told>>

VehicleStep ==
  /\ PurgeLog \/ Act \/ Restart \/ Raise \/ \E o \in Outcomes : Finish(o)
  /\ UNCHANGED <<now, open, calls, step, notes, asks, forgotten, told>>

------------------------------------------------------------------------------
(* The step executor                                                       *)

Tell(op, claim) == told' = told \union {[op |-> op, claim |-> claim]}

Close(op) ==
  /\ open' = {c \in open : c.op # op}
  /\ replies' = {r \in replies : r.op # op}

Goto(op, stage) == step' = [step EXCEPT ![op].stage = stage]

(* dispatch: open a channel at the gateway and send the call.              *)
Dispatch(op, s) ==
  LET f == [op |-> op, subject |-> Vehicle, params |-> s.params,
            confirmed |-> s.confirmed, attempt |-> s.attempt, sent |-> now]
  IN  /\ step' = [step EXCEPT ![op] = [s EXCEPT !.stage = "waiting", !.answer = "",
                                                !.deadline = now + StepBudget]]
      /\ calls' = calls \union {f}
      /\ open' = open \union {Channel(CallOf(f))}

Start(op) ==
  /\ step[op].stage = "new" /\ now = 0
  /\ Dispatch(op, [step[op] EXCEPT !.attempt = 1])
  /\ UNCHANGED <<now, edgeVars, notes, asks, forgotten, told>>

(* The user confirms or fills the slot before the suspension expires: the  *)
(* step runs again under the same operation id.                            *)
CanResume(op) ==
  /\ step[op].stage = "pending" /\ now < step[op].deadline
  /\ step[op].attempt + 1 < MaxSends

Again(s) == [s EXCEPT !.attempt = @ + 1, !.resent = FALSE]

Confirm(op) ==
  /\ CanResume(op) /\ step[op].answer = "need_confirm"
  /\ Dispatch(op, [Again(step[op]) EXCEPT !.confirmed = TRUE])
  /\ UNCHANGED <<now, edgeVars, notes, asks, forgotten, told>>

Refill(op, p) ==
  /\ CanResume(op) /\ step[op].answer = "need_slot"
  /\ Dispatch(op, [Again(step[op]) EXCEPT !.params = p])
  /\ UNCHANGED <<now, edgeVars, notes, asks, forgotten, told>>

(* The user cancels, or the suspension expires.                            *)
Abandon(op) ==
  /\ step[op].stage = "pending"
  /\ Goto(op, "ended")
  /\ UNCHANGED <<now, edgeVars, open, calls, notes, asks, forgotten, told>>

ReceiveReply(op) ==
  /\ step[op].stage = "waiting"
  /\ \E r \in replies :
       /\ r.op = op
       /\ \/ /\ r.kind \in {"need_confirm", "need_slot"}
             /\ step' = [step EXCEPT ![op].stage = "pending", ![op].answer = r.kind,
                                     ![op].deadline = now + PendingTtl]
             /\ UNCHANGED told
          \/ /\ r.kind \notin {"need_confirm", "need_slot"}
             /\ Goto(op, "ended")
             /\ IF r.kind \in Claims THEN Tell(op, r.kind) ELSE UNCHANGED told
  /\ Close(op)
  /\ UNCHANGED <<now, elog, serving, effects, calls, notes, asks, forgotten>>

(* EdgeOperationSync.note: one HSETNX that an owner's deletion fences off. *)
\* Mutant: the record keeps the vehicle's own status instead of the conclusion.
NoteOutcomeRaw(status) == status

(* After a resend "absent" settles nothing: that copy may be on its way.   *)
NoteOutcome(status) == IF status = "absent" THEN "checking" ELSE SyncOutcome(status)

Registers(op, status) ==
  /\ notes[op] = NoNote /\ op \notin forgotten
  /\ notes' = [notes EXCEPT ![op] = [status |-> NoteOutcome(status), created |-> now,
                                     next |-> now + 1]]

\* Mutant: the promise to keep checking does not depend on the registration.
PromiseAlways(op) == TRUE

MayPromise(op) == notes'[op] # notes[op]

(* _unsettled_edge and the recovered success: register, then say it.       *)
NoteAndTell(op, status) ==
  /\ Registers(op, status) \/ UNCHANGED notes
  /\ CASE status = "done" -> Tell(op, "executed")
       [] NoteOutcome(status) = "checking" /\ MayPromise(op) -> Tell(op, "checking")
       [] NoteOutcome(status) = "not_executed" -> Tell(op, "not_executed")
       [] OTHER -> UNCHANGED told

(* No answer within the budget.  The first time the vehicle's log is asked;*)
(* a resend that goes unanswered too is left to the background.            *)
TimeOut(op) ==
  /\ step[op].stage = "waiting" /\ now >= step[op].deadline
  /\ Close(op)
  /\ \/ /\ ~step[op].resent
        /\ step' = [step EXCEPT ![op].stage = "asking", ![op].deadline = now + QueryTimeout]
        /\ UNCHANGED <<notes, told>>
     \/ /\ step[op].resent
        /\ Goto(op, "ended")
        /\ NoteAndTell(op, "absent")
  /\ UNCHANGED <<now, elog, serving, effects, calls, asks, forgotten>>

(* Any other transport error, before or after the frame left: FAILED with  *)
(* edge_unreachable, whose code the step result does not keep.             *)
Unreachable(op) ==
  /\ step[op].stage = "waiting"
  /\ Close(op)
  /\ Goto(op, "ended")
  /\ Tell(op, "unreachable")
  /\ UNCHANGED <<now, elog, serving, effects, calls, notes, asks, forgotten>>

QueryAnswered(op) ==
  /\ step[op].stage = "asking" /\ CanQuery
  /\ step' = [step EXCEPT ![op].stage = "answered", ![op].answer = QueryResult(op)]
  /\ UNCHANGED <<now, edgeVars, open, calls, notes, asks, forgotten, told>>

\* Mutant: the query has no timeout of its own.
QueryWaits(op) == QueryAnswered(op)

QueryUnanswered(op) ==
  /\ step[op].stage = "asking"
  /\ step' = [step EXCEPT ![op].stage = "answered", ![op].answer = ""]
  /\ UNCHANGED <<now, edgeVars, open, calls, notes, asks, forgotten, told>>

Resends(status) == status = "absent"

(* _recover_edge                                                           *)
Recover(op) ==
  LET status == step[op].answer
  IN  /\ step[op].stage = "answered"
      /\ \/ /\ Resends(status)
            /\ Dispatch(op, [step[op] EXCEPT !.attempt = @ + 1, !.resent = TRUE])
            /\ UNCHANGED <<notes, told>>
         \/ /\ ~Resends(status)
            /\ Goto(op, "ended")
            /\ IF status = "failed" THEN Tell(op, "failed") /\ UNCHANGED notes
               ELSE NoteAndTell(op, status)
            /\ UNCHANGED <<open, calls>>
      /\ UNCHANGED <<now, edgeVars, asks, forgotten>>

(* The planner restarts: steps and queries in flight are gone, suspended   *)
(* steps and reconciliation records are kept in Redis.                     *)
InFlight(op) == step[op].stage \in {"waiting", "asking", "answered"}

PlannerRestarts ==
  /\ \E op \in Ops : InFlight(op) \/ asks[op] # NoAsk
  /\ step' = [op \in Ops |-> IF InFlight(op) THEN [step[op] EXCEPT !.stage = "ended"]
                             ELSE step[op]]
  /\ asks' = [op \in Ops |-> NoAsk]
  /\ open' = {} /\ replies' = {}
  /\ UNCHANGED <<now, elog, serving, effects, calls, notes, forgotten, told>>

------------------------------------------------------------------------------
(* The background reconciliation                                           *)

Due(op) == notes[op].status = "checking" /\ asks[op] = NoAsk /\ now >= notes[op].next

\* Mutant: the background keeps asking for as long as it has no answer.
OverdueNever(op) == FALSE

Overdue(op) == now >= notes[op].created + Horizon

(* resolve_operation: only a record that is still there is rewritten.      *)
\* Mutant: the record is written whether or not it is still there.
WritableAlways(op) == TRUE

Writable(op) == notes[op] # NoNote /\ op \notin forgotten

WriteVerdict(op, verdict, created) ==
  IF Writable(op)
  THEN /\ notes' = [notes EXCEPT ![op] = [status |-> verdict, created |-> created, next |-> 0]]
       /\ told' = IF verdict = "done" THEN told \union {[op |-> op, claim |-> "executed"]}
                  ELSE IF verdict \in Claims
                  THEN told \union {[op |-> op, claim |-> verdict]}
                  ELSE told
  ELSE UNCHANGED <<notes, told>>

BackgroundGivesUp(op) ==
  /\ Due(op) /\ Overdue(op)
  /\ WriteVerdict(op, "unknown", notes[op].created)
  /\ UNCHANGED <<now, edgeVars, open, calls, step, asks, forgotten>>

BackgroundAsks(op) ==
  /\ Due(op) /\ ~Overdue(op)
  /\ asks' = [asks EXCEPT ![op] = [at |-> now, created |-> notes[op].created,
                                   answer |-> "waiting"]]
  /\ UNCHANGED <<now, edgeVars, open, calls, step, notes, forgotten, told>>

AskAnswered(op) ==
  /\ asks[op].answer = "waiting"
  /\ \/ CanQuery /\ asks' = [asks EXCEPT ![op].answer = QueryResult(op)]
     \/ asks' = [asks EXCEPT ![op].answer = ""]
  /\ UNCHANGED <<now, edgeVars, open, calls, step, notes, forgotten, told>>

\* Mutant: "absent" is taken at its word while a resend may be on its way.
AskOutcomeNoGrace(a) == SyncOutcome(a.answer)

AskOutcome(a) ==
  IF a.answer = "absent" /\ a.at - a.created < Grace THEN "checking"
  ELSE SyncOutcome(a.answer)

BackgroundConcludes(op) ==
  /\ asks[op].answer \notin {"none", "waiting"}
  /\ IF AskOutcome(asks[op]) # "checking"
     THEN WriteVerdict(op, AskOutcome(asks[op]), asks[op].created)
     ELSE /\ notes' = IF Writable(op) THEN [notes EXCEPT ![op].next = asks[op].at + 1] ELSE notes
          /\ UNCHANGED told
  /\ asks' = [asks EXCEPT ![op] = NoAsk]
  /\ UNCHANGED <<now, edgeVars, open, calls, step, forgotten>>

(* The owner's data is deleted; the write fence outlives every step.       *)
Forget(op) ==
  /\ notes[op] # NoNote
  /\ notes' = [notes EXCEPT ![op] = NoNote]
  /\ forgotten' = forgotten \union {op}
  /\ UNCHANGED <<now, edgeVars, open, calls, step, asks, told>>

------------------------------------------------------------------------------
(* The clock does not pass the deadline of a wait or of a query: the timers*)
(* of the two loops fire on time.                                          *)
Overrun ==
  \E op \in Ops :
    \/ step[op].stage \in {"waiting", "asking", "pending"} /\ now >= step[op].deadline
    \/ step[op].stage = "answered"
    \/ asks[op] # NoAsk /\ (asks[op].answer # "waiting" \/ now >= asks[op].at + QueryTimeout)

Tick ==
  /\ now < MaxTime
  /\ ~Overrun
  /\ now' = now + 1
  /\ UNCHANGED <<edgeVars, open, calls, step, notes, asks, forgotten, told>>

CloudStep(op) ==
  \/ Start(op) \/ Confirm(op) \/ (\E p \in Params : Refill(op, p)) \/ Abandon(op)
  \/ ReceiveReply(op) \/ TimeOut(op) \/ Unreachable(op)
  \/ QueryAnswered(op) \/ QueryUnanswered(op) \/ Recover(op)

BackgroundStep(op) ==
  BackgroundGivesUp(op) \/ BackgroundAsks(op) \/ AskAnswered(op) \/ BackgroundConcludes(op)

Next ==
  \/ \E f \in calls : DeliverCall(f) \/ LoseCall(f)
  \/ VehicleStep
  \/ \E op \in Ops : CloudStep(op) \/ BackgroundStep(op) \/ Forget(op)
  \/ PlannerRestarts
  \/ Tick

Spec == Init /\ [][Next]_vars

(* The clock advances whatever else happens, timers fire, and the running  *)
(* loops go on; no frame, reply or query need ever be answered.            *)
Fairness ==
  /\ SF_vars(Tick)
  /\ \A op \in Ops :
       WF_vars(TimeOut(op)) /\ WF_vars(QueryUnanswered(op)) /\ WF_vars(Recover(op))
         /\ WF_vars(Abandon(op)) /\ WF_vars(BackgroundStep(op))

LiveSpec == Spec /\ Fairness

------------------------------------------------------------------------------
(* Properties                                                              *)

\* Every variable keeps its type.
TypeOK ==
  /\ now \in Nat
  /\ elog \in [Ops -> Record \union {NoRecord}]
  /\ serving \in [call : Call, acted : BOOLEAN] \union {Nobody}
  /\ effects \in [Ops -> Nat]
  /\ open \subseteq [op : Ops, attempt : Nat]
  /\ replies \subseteq Reply
  /\ calls \subseteq Frame
  /\ step \in [Ops -> Step]
  /\ notes \in [Ops -> Note \union {NoNote}]
  /\ asks \in [Ops -> [at : Nat, created : Nat, answer : EdgeAnswers \union {"waiting"}]
                        \union {NoAsk}]
  /\ forgotten \subseteq Ops
  /\ told \subseteq [op : Ops, claim : Claims]

Said(op, claim) == [op |-> op, claim |-> claim] \in told

\* The vehicle carries an operation out at most once, through lost replies,
\* resends, late frames, restarts on both sides and purges of its log.
EffectAtMostOnce == \A op \in Ops : effects[op] <= 1

\* What the user was told or the audit record says stays true for ever:
\* executed operations were executed once, failed and not executed ones never
\* run, however late a frame of theirs still arrives.
StatementsStayTrue ==
  \A op \in Ops :
    /\ Said(op, "executed") => effects[op] = 1
    /\ Said(op, "failed") \/ Said(op, "not_executed") => effects[op] = 0

\* "I will keep checking" is said only when a record for the background to
\* work on is there, unless its owner had it deleted.
PromiseHasRecord ==
  \A op \in Ops : Said(op, "checking") => notes[op] # NoNote \/ op \in forgotten

\* An answer that arrives after the owner's deletion does not bring the record
\* back.
ErasedStaysErased == \A op \in forgotten : notes[op] = NoNote

\* dispatch.py: "unreachable" means the command never ran.
UnreachableNeverRan == \A op \in Ops : Said(op, "unreachable") => effects[op] = 0

\* The promise to keep checking comes to a verdict, whether or not the vehicle
\* ever answers, and even if the planner restarts in between.
PromisesAreKept ==
  \A op \in Ops :
    Said(op, "checking") ~> (notes[op].status \in Verdicts \/ op \in forgotten)

\* No dispatched step waits for ever: it ends, or it waits for the user.
StepsSettle == \A op \in Ops : InFlight(op) ~> step[op].stage \in {"ended", "pending"}

\* The distributed command implements the at-most-once contract: saying that an
\* operation failed or was not executed is the disclaimer nothing may break.
Once == INSTANCE OperationOnce
  WITH disclaimed <- {op \in Ops : Said(op, "failed") \/ Said(op, "not_executed")}

ImplementsOnce == Once!Spec
===============================================================================
