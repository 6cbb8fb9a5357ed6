------------------------- MODULE OperationAdmission -------------------------
(***************************************************************************)
(* Receiver-side durable admission of the agent SDK: OperationGate and     *)
(* admit (runtime/operation_gate.py) in the servicer (agents/_sdk/         *)
(* server.py) over the Postgres task ledger (agents/_sdk/ledger.py).       *)
(*                                                                         *)
(* Requests for one operation id may be duplicated, replayed, confirmed    *)
(* or re-sent with other parameters, and are served concurrently by any    *)
(* number of handlers in any number of processes.  Every ledger call is an *)
(* await, so each is one atomic step here and other handlers run between.  *)
(* A call may fail, and then it may or may not have been committed.        *)
(***************************************************************************)
EXTENDS OperationContract, FiniteSets

CONSTANTS Handlers,        \* concurrent Execute calls
          Ops,             \* operation ids
          RequireConfirm,  \* operations whose capability has require_confirm
          MaxTime,         \* bound on the ledger's clock
          NoRequest        \* what an idle handler holds

ASSUME RequireConfirmAssumption == RequireConfirm \subseteq Ops
ASSUME MaxTimeAssumption == MaxTime \in Nat

VARIABLES
  now,        \* the ledger's clock
  log,        \* log[op]: the admission record, or NoRecord
  pc,         \* pc[h]: where handler h is
  req,        \* req[h]: the request it serves
  seen,       \* seen[h]: the record its last operation_get returned
  verdict,    \* verdict[h]: the decision it took on that record
  round,      \* round[h]: how many rounds of the admission loop it began
  outcome,    \* outcome[h]: how the business handler ended
  effects,    \* effects[op]: how often the business side effect happened
  asked,      \* asked[op]: parameters the operation was last left waiting with
  answers     \* what refused callers were told about the operation's fate

ledgerVars  == <<now, log>>
handlerVars == <<pc, req, seen, verdict, round, outcome>>
worldVars   == <<effects, asked, answers>>
vars        == <<ledgerVars, handlerVars, worldVars>>

Request == [op : Ops, subject : Subjects, params : Params, confirmed : BOOLEAN]
Answer  == [op : Ops, kind : {"expired", "duplicate"}, status : Statuses]
NoVerdict == Decision("", "")
Verdicts  == [kind : Decisions \union {""}, mark : {"", "cancelled", "orphaned"}]

\* for _ in range(2)
Rounds == 2

Op(h) == req[h].op

Init ==
  /\ now = 0
  /\ log = [op \in Ops |-> NoRecord]
  /\ pc = [h \in Handlers |-> "idle"]
  /\ req = [h \in Handlers |-> NoRequest]
  /\ seen = [h \in Handlers |-> NoRecord]
  /\ verdict = [h \in Handlers |-> NoVerdict]
  /\ round = [h \in Handlers |-> 0]
  /\ outcome = [h \in Handlers |-> ""]
  /\ effects = [op \in Ops |-> 0]
  /\ asked = [op \in Ops |-> {}]
  /\ answers = {}

------------------------------------------------------------------------------
(* Bookkeeping shared by the steps of one handler.                         *)

GoIdle(h) ==
  /\ pc' = [pc EXCEPT ![h] = "idle"]
  /\ req' = [req EXCEPT ![h] = NoRequest]
  /\ seen' = [seen EXCEPT ![h] = NoRecord]
  /\ verdict' = [verdict EXCEPT ![h] = NoVerdict]
  /\ round' = [round EXCEPT ![h] = 0]
  /\ outcome' = [outcome EXCEPT ![h] = ""]

(* The gate answers and the business handler does not run.  Only "expired" *)
(* and "duplicate" say what became of the operation; those are remembered. *)
Tell(h, kind, status) ==
  /\ answers' = IF kind \in {"expired", "duplicate"}
                THEN answers \union {[op |-> Op(h), kind |-> kind, status |-> status]}
                ELSE answers
  /\ GoIdle(h)

\* Mutant: one round too many.
NextRoundOnceMore(h) ==
  /\ pc' = [pc EXCEPT ![h] = "get"]
  /\ round' = [round EXCEPT ![h] = @ + 1]
  /\ UNCHANGED <<req, seen, verdict, outcome, answers>>

(* An insert that met a record or a claim that lost its CAS: re-read, or   *)
(* answer in_progress when the rounds are used up.                         *)
NextRound(h) ==
  \/ /\ round[h] < Rounds
     /\ pc' = [pc EXCEPT ![h] = "get"]
     /\ round' = [round EXCEPT ![h] = @ + 1]
     /\ UNCHANGED <<req, seen, verdict, outcome, answers>>
  \/ /\ round[h] = Rounds
     /\ Tell(h, "in_progress", "accepted")

Run(h) ==
  /\ pc' = [pc EXCEPT ![h] = "run"]
  /\ UNCHANGED <<req, seen, verdict, round, outcome, answers>>

------------------------------------------------------------------------------
(* Admission                                                               *)

Receive(h, r) ==
  /\ pc[h] = "idle"
  /\ pc' = [pc EXCEPT ![h] = "insert"]
  /\ req' = [req EXCEPT ![h] = r]
  /\ UNCHANGED <<ledgerVars, seen, verdict, round, outcome, worldVars>>

(* operation_insert: INSERT ... ON CONFLICT DO NOTHING.                    *)
InsertWrite(h) == log' = [log EXCEPT ![Op(h)] = Envelope(req[h], now)]

Insert(h) ==
  /\ pc[h] = "insert"
  /\ \/ log[Op(h)] = NoRecord /\ InsertWrite(h) /\ Run(h)
     \/ log[Op(h)] # NoRecord /\ NextRound(h) /\ UNCHANGED log
  /\ UNCHANGED <<now, effects, asked>>

(* operation_get, and in the same breath the decision on what it returned: *)
(* the next ledger call, or an answer when there is nothing to write.      *)
Get(h) ==
  /\ pc[h] = "get"
  /\ LET rec == log[Op(h)]
         d   == Decide(rec, req[h], now)
     IN  \/ /\ d.kind # "run" /\ d.mark = ""
            /\ Tell(h, d.kind, rec.status)
         \/ /\ d.kind = "run" \/ d.mark # ""
            /\ seen' = [seen EXCEPT ![h] = rec]
            /\ verdict' = [verdict EXCEPT ![h] = d]
            /\ pc' = [pc EXCEPT ![h] = IF d.kind # "run" THEN "mark"
                                       ELSE IF rec = NoRecord THEN "insert" ELSE "claim"]
            /\ UNCHANGED <<req, round, outcome, answers>>
  /\ UNCHANGED <<ledgerVars, effects, asked>>

(* operation_claim: awaiting -> executing, CAS on the observed binding.    *)
\* Mutant: the claim does not compare the binding it observed.
ClaimableUnbound(h) == CanClaim(log[Op(h)], log[Op(h)], now)

\* Mutant: the claim does not check that the record is still awaiting.
ClaimableAnyPhase(h) == SameBinding(log[Op(h)], seen[h])

\* Mutant: the claim does not check the expiry again.
ClaimableExpired(h) == CanClaim(log[Op(h)], seen[h], 0)

Claimable(h) == CanClaim(log[Op(h)], seen[h], now)

ClaimWrite(h) == log' = [log EXCEPT ![Op(h)] = Envelope(req[h], now)]

ClaimRecord(h) ==
  /\ pc[h] = "claim"
  /\ \/ Claimable(h) /\ ClaimWrite(h) /\ Run(h)
     \/ ~Claimable(h) /\ NextRound(h) /\ UNCHANGED log
  /\ UNCHANGED <<now, effects, asked>>

(* operation_mark_stale / operation_mark_expired, then the answer.         *)
\* Mutant: the mark is written without checking the status again.
MarkableAlways(h) == verdict[h].mark # ""

Markable(h) ==
  \/ verdict[h].mark = "orphaned" /\ CanMarkStale(log[Op(h)], seen[h], now)
  \/ verdict[h].mark = "cancelled" /\ CanMarkExpired(log[Op(h)], seen[h], now)

MarkWrite(h) ==
  log' = IF Markable(h) THEN [log EXCEPT ![Op(h)].status = verdict[h].mark] ELSE log

MarkRecord(h) ==
  /\ pc[h] = "mark"
  /\ MarkWrite(h)
  /\ Tell(h, verdict[h].kind, verdict[h].mark)
  /\ UNCHANGED <<now, effects, asked>>

(* OperationStoreError in any of the four: the request is refused.  The    *)
(* statement may have been committed before the connection broke.          *)
StoreFails(h) ==
  /\ pc[h] \in {"insert", "get", "claim", "mark"}
  /\ \/ UNCHANGED log
     \/ pc[h] = "insert" /\ log[Op(h)] = NoRecord /\ InsertWrite(h)
     \/ pc[h] = "claim" /\ Claimable(h) /\ ClaimWrite(h)
     \/ pc[h] = "mark" /\ Markable(h) /\ MarkWrite(h)
  /\ Tell(h, "unavailable", "")
  /\ UNCHANGED <<now, effects, asked>>

------------------------------------------------------------------------------
(* The business handler and its settlement.  The handler is the agents'    *)
(* code: it is assumed to keep the side effect of a require_confirm        *)
(* capability for a confirmed call, and to report need_confirm, need_slot, *)
(* refused, rejected and failed only when it changed nothing.              *)

MayAct(r) == r.op \notin RequireConfirm \/ r.confirmed

Act(h) ==
  /\ pc[h] = "run"
  /\ MayAct(req[h])
  /\ effects' = [effects EXCEPT ![Op(h)] = @ + 1]
  /\ pc' = [pc EXCEPT ![h] = "acted"]
  /\ UNCHANGED <<ledgerVars, req, seen, verdict, round, outcome, asked, answers>>

Return(h, o) ==
  /\ \/ pc[h] = "run" /\ o \in Outcomes \ {"ok"}
     \/ pc[h] = "run" /\ o = "ok" /\ ~MayAct(req[h])
     \/ pc[h] = "acted" /\ o \in {"ok", "uncertain"}
  /\ outcome' = [outcome EXCEPT ![h] = o]
  /\ pc' = [pc EXCEPT ![h] = "settle"]
  /\ UNCHANGED <<ledgerVars, req, seen, verdict, round, worldVars>>

\* Mutant: an exception after admission is settled as a plain failure that
\* leaves the operation open to a new confirmation.
ResultUncertainAwaits(h) ==
  IF outcome[h] = "uncertain" THEN Settlement("accepted", "awaiting")
  ELSE Settle(outcome[h], Op(h) \in RequireConfirm, req[h].confirmed)

\* Mutant: an exception after admission is settled as a definite failure.
ResultUncertainFails(h) ==
  IF outcome[h] = "uncertain" THEN Settlement("failed", "executing")
  ELSE Settle(outcome[h], Op(h) \in RequireConfirm, req[h].confirmed)

Result(h) == Settle(outcome[h], Op(h) \in RequireConfirm, req[h].confirmed)

(* operation_settle; a write that matches no record is only logged.        *)
Settleable(h) == CanSettle(log[Op(h)], req[h])

SettleRecord(h) ==
  /\ pc[h] = "settle"
  /\ \/ /\ Settleable(h)
        /\ log' = [log EXCEPT ![Op(h)] = Settled(@, Result(h), now)]
        /\ asked' = IF Result(h).phase = "awaiting"
                    THEN [asked EXCEPT ![Op(h)] = {req[h].params}]
                    ELSE asked
     \/ ~Settleable(h) /\ UNCHANGED <<log, asked>>
  /\ GoIdle(h)
  /\ UNCHANGED <<now, effects, answers>>

(* The settlement is lost (the store failed), or the process dies or the   *)
(* call is torn down anywhere: the record stays as it is.                  *)
Vanish(h) ==
  /\ pc[h] # "idle"
  /\ GoIdle(h)
  /\ UNCHANGED <<ledgerVars, worldVars>>

Tick ==
  /\ now < MaxTime
  /\ now' = now + 1
  /\ UNCHANGED <<log, handlerVars, worldVars>>

HandlerStep(h) ==
  \/ \E r \in Request : Receive(h, r)
  \/ Insert(h) \/ Get(h) \/ ClaimRecord(h) \/ MarkRecord(h) \/ StoreFails(h)
  \/ Act(h)
  \/ \E o \in Outcomes : Return(h, o)
  \/ SettleRecord(h) \/ Vanish(h)

Next == Tick \/ \E h \in Handlers : HandlerStep(h)

Spec == Init /\ [][Next]_vars

------------------------------------------------------------------------------
(* Properties                                                              *)

Running(h) == pc[h] \in {"run", "acted", "settle"}

\* Every variable keeps its type.
TypeOK ==
  /\ now \in Nat
  /\ log \in [Ops -> Record \union {NoRecord}]
  /\ pc \in [Handlers -> {"idle", "insert", "get", "claim", "mark", "run", "acted", "settle"}]
  /\ req \in [Handlers -> Request \union {NoRequest}]
  /\ \A h \in Handlers : pc[h] # "idle" => req[h] \in Request
  /\ seen \in [Handlers -> Record \union {NoRecord}]
  /\ verdict \in [Handlers -> Verdicts]
  /\ round \in [Handlers -> 0 .. Rounds]
  /\ outcome \in [Handlers -> Outcomes \union {""}]
  /\ effects \in [Ops -> Nat]
  /\ asked \in [Ops -> SUBSET Params]
  /\ answers \subseteq Answer

\* However many copies of a request arrive, and however late a stale one is
\* declared unknown, two business handlers never run one operation together.
OneHandlerPerOperation ==
  \A g, h \in Handlers : Running(g) /\ Running(h) /\ Op(g) = Op(h) => g = h

\* The side effect of an operation happens at most once, through replays,
\* lost answers, lost settlements and process deaths.
EffectAtMostOnce == \A op \in Ops : effects[op] <= 1

\* A settled record tells the truth: done means the effect happened; failed,
\* cancelled and waiting for the user mean it did not.
RecordTellsTruth ==
  \A op \in Ops :
    /\ log[op].status = "done" => effects[op] = 1
    /\ log[op].status \in {"failed", "cancelled"} => effects[op] = 0
    /\ log[op] # NoRecord /\ Awaiting(log[op]) => effects[op] = 0

\* What a duplicate or late caller was told stays true for ever: "expired" and
\* "already failed" mean not executed, "already processed" means executed once.
AnswersStayTrue ==
  \A a \in answers :
    /\ a.kind = "expired" \/ (a.kind = "duplicate" /\ a.status = "failed") => effects[a.op] = 0
    /\ a.kind = "duplicate" /\ a.status = "done" => effects[a.op] = 1

\* A confirmed call runs only with the parameters the operation was last left
\* waiting with, even when another request rebinds it in between.
ConfirmedRunsWhatWasAsked ==
  \A h \in Handlers :
    pc[h] \in {"run", "acted"} /\ req[h].confirmed => asked[Op(h)] \subseteq {req[h].params}

\* A definite status is final: no late settlement, mark or claim rewrites it.
DefiniteStatusIsFinal ==
  [][\A op \in Ops : log[op].status \in {"done", "failed", "cancelled"}
                        => log'[op] = log[op]]_vars

(* The inductive strengthening the proofs rest on                          *)

\* Whoever runs the business handler holds the record's binding, and the
\* record is executing or was declared unknown meanwhile.
HoldsRecord(h) ==
  /\ log[Op(h)] \in Record
  /\ SameBinding(log[Op(h)], req[h])
  /\ log[Op(h)].status = "orphaned" \/ Executing(log[Op(h)])

RunnerHoldsRecord == \A h \in Handlers : Running(h) => HoldsRecord(h)

\* How far a running handler got decides whether the effect has happened.
Progress(h) ==
  /\ pc[h] = "run" => effects[Op(h)] = 0
  /\ pc[h] = "acted" => effects[Op(h)] = 1 /\ MayAct(req[h])
  /\ pc[h] = "settle" =>
       /\ outcome[h] \in Outcomes
       /\ outcome[h] \notin {"ok", "uncertain"} => effects[Op(h)] = 0
       /\ outcome[h] = "ok" => effects[Op(h)] = IF MayAct(req[h]) THEN 1 ELSE 0

ProgressMatchesEffect == \A h \in Handlers : Progress(h)

NoRecordNoEffect ==
  \A op \in Ops : log[op] = NoRecord => effects[op] = 0 /\ asked[op] = {}

AwaitingHoldsWhatWasAsked ==
  \A op \in Ops : log[op] # NoRecord /\ Awaiting(log[op]) => asked[op] = {log[op].params}

\* What a handler saw before it claims or marks, as far as it still binds it.
Closed(op) ==
  /\ log[op] \in Record
  /\ log[op].status = "cancelled" \/ (Awaiting(log[op]) /\ AwaitingExpired(log[op], now))

Binds(h) ==
  /\ pc[h] = "claim" =>
       /\ seen[h] \in Record
       /\ seen[h].subject = req[h].subject
       /\ req[h].confirmed => seen[h].params = req[h].params
  /\ pc[h] = "mark" =>
       \/ verdict[h].kind = "expired" /\ verdict[h].mark = "cancelled" /\ Closed(Op(h))
       \/ verdict[h].kind = "unknown" /\ verdict[h].mark = "orphaned"

ObservationBinds == \A h \in Handlers : Binds(h)

\* An answer about the operation's fate rests on a record that cannot move.
Rests(a) ==
  /\ a.kind = "expired" => Closed(a.op)
  /\ a.kind = "duplicate" => a.status \in {"done", "failed"} /\ log[a.op].status = a.status

AnswersRestOnRecords == \A a \in answers : Rests(a)

IInv ==
  /\ TypeOK
  /\ OneHandlerPerOperation
  /\ EffectAtMostOnce
  /\ RecordTellsTruth
  /\ ConfirmedRunsWhatWasAsked
  /\ RunnerHoldsRecord
  /\ ProgressMatchesEffect
  /\ NoRecordNoEffect
  /\ AwaitingHoldsWhatWasAsked
  /\ ObservationBinds
  /\ AnswersRestOnRecords

------------------------------------------------------------------------------
\* The gate implements the at-most-once contract: an operation is disclaimed
\* by a failed or cancelled record, or by an answer that says so.
Disclaimed ==
  {op \in Ops : log[op].status \in {"failed", "cancelled"}}
    \union {a.op : a \in {b \in answers : b.kind = "expired"}}

Once == INSTANCE OperationOnce WITH disclaimed <- Disclaimed

ImplementsOnce == Once!Spec
==============================================================================
