---------------------- MODULE OperationAdmissionProofs ----------------------
(***************************************************************************)
(* Proofs about OperationAdmission, for any number of operations, handlers *)
(* and parameter sets and for an unbounded clock.  The core is that IInv   *)
(* is inductive; the safety properties are conjuncts of it.                *)
(***************************************************************************)
EXTENDS OperationAdmission, OperationContractProofs

------------------------------------------------------------------------------
(* What the shared handler steps leave behind.                             *)

OthersStay(h) ==
  \A g \in Handlers \ {h} :
    /\ pc'[g] = pc[g] /\ req'[g] = req[g] /\ seen'[g] = seen[g]
    /\ verdict'[g] = verdict[g] /\ outcome'[g] = outcome[g]

HandlerTypeOK ==
  /\ pc \in [Handlers -> {"idle", "insert", "get", "claim", "mark", "run", "acted", "settle"}]
  /\ req \in [Handlers -> Request \union {NoRequest}]
  /\ \A h \in Handlers : pc[h] # "idle" => req[h] \in Request
  /\ seen \in [Handlers -> Record \union {NoRecord}]
  /\ verdict \in [Handlers -> Verdicts]
  /\ round \in [Handlers -> 0 .. Rounds]
  /\ outcome \in [Handlers -> Outcomes \union {""}]

LEMMA TypeOKSplits ==
  TypeOK <=> /\ HandlerTypeOK
             /\ now \in Nat
             /\ log \in [Ops -> Record \union {NoRecord}]
             /\ effects \in [Ops -> Nat]
             /\ asked \in [Ops -> SUBSET Params]
             /\ answers \subseteq Answer
BY DEF TypeOK, HandlerTypeOK

LEMMA GoIdleStep ==
  ASSUME HandlerTypeOK, NEW h \in Handlers, GoIdle(h)
  PROVE  HandlerTypeOK' /\ OthersStay(h) /\ pc'[h] = "idle"
<1>1. pc' = [pc EXCEPT ![h] = "idle"] /\ pc'[h] = "idle"
  BY DEF HandlerTypeOK, GoIdle
<1>2. pc' \in [Handlers -> {"idle", "insert", "get", "claim", "mark", "run", "acted", "settle"}]
  BY DEF HandlerTypeOK, GoIdle
<1>3. req' \in [Handlers -> Request \union {NoRequest}]
  BY DEF HandlerTypeOK, GoIdle
<1>4. \A g \in Handlers : pc'[g] # "idle" => req'[g] \in Request
  BY <1>1 DEF HandlerTypeOK, GoIdle
<1>5. seen' \in [Handlers -> Record \union {NoRecord}]
  BY DEF HandlerTypeOK, GoIdle
<1>6. NoVerdict \in Verdicts
  BY DEF NoVerdict, Decision, Verdicts
<1>7. verdict' \in [Handlers -> Verdicts]
  BY <1>6 DEF HandlerTypeOK, GoIdle
<1>8. round' \in [Handlers -> 0 .. Rounds]
  <2>1. round \in [Handlers -> 0 .. Rounds] /\ round' = [round EXCEPT ![h] = 0]
    BY DEF HandlerTypeOK, GoIdle
  <2>2. QED
    BY <2>1 DEF Rounds
<1>9. outcome' \in [Handlers -> Outcomes \union {""}]
  BY DEF HandlerTypeOK, GoIdle
<1>10. OthersStay(h)
  BY DEF HandlerTypeOK, GoIdle, OthersStay
<1>11. QED
  BY <1>1, <1>2, <1>3, <1>4, <1>5, <1>7, <1>8, <1>9, <1>10 DEF HandlerTypeOK

LEMMA NextRoundStep ==
  ASSUME HandlerTypeOK, NEW h \in Handlers, pc[h] # "idle", NextRound(h)
  PROVE  /\ HandlerTypeOK' /\ OthersStay(h)
         /\ pc'[h] \in {"idle", "get"}
         /\ answers' = answers
<1>1. CASE round[h] < Rounds /\ UNCHANGED <<req, seen, verdict, outcome, answers>>
           /\ pc' = [pc EXCEPT ![h] = "get"] /\ round' = [round EXCEPT ![h] = @ + 1]
  <2>1. round' \in [Handlers -> 0 .. Rounds]
    <3>1. round \in [Handlers -> 0 .. Rounds] /\ round[h] < Rounds
          /\ round' = [round EXCEPT ![h] = @ + 1]
      BY <1>1 DEF HandlerTypeOK
    <3>2. QED
      BY <3>1 DEF Rounds
  <2>2. pc' \in [Handlers -> {"idle", "insert", "get", "claim", "mark", "run", "acted", "settle"}]
    BY <1>1 DEF HandlerTypeOK
  <2>3. \A g \in Handlers : pc'[g] # "idle" => req'[g] \in Request
    BY <1>1 DEF HandlerTypeOK
  <2>4. HandlerTypeOK'
    BY <1>1, <2>1, <2>2, <2>3 DEF HandlerTypeOK
  <2>5. OthersStay(h) /\ pc'[h] = "get"
    BY <1>1 DEF HandlerTypeOK, OthersStay
  <2>6. QED
    BY <1>1, <2>4, <2>5
<1>2. CASE Tell(h, "in_progress", "accepted")
  BY <1>2, GoIdleStep DEF Tell
<1>3. QED
  BY <1>1, <1>2 DEF NextRound

LEMMA RunStep ==
  ASSUME HandlerTypeOK, NEW h \in Handlers, pc[h] # "idle", Run(h)
  PROVE  HandlerTypeOK' /\ OthersStay(h) /\ pc'[h] = "run" /\ req' = req /\ answers' = answers
BY DEF HandlerTypeOK, Run, OthersStay

LEMMA OpInOps ==
  ASSUME HandlerTypeOK, NEW h \in Handlers, pc[h] # "idle"
  PROVE  req[h] \in Request /\ Op(h) \in Ops
BY DEF HandlerTypeOK, Op, Request

(* Writing the envelope of a request keeps the ledger well typed.          *)
LEMMA EnvelopeType ==
  ASSUME NEW c \in Request, NEW at \in Nat
  PROVE  Envelope(c, at) \in Record
BY DEF Envelope, Record, Request, Statuses, Phases

------------------------------------------------------------------------------
(* Three kinds of step preserve IInv: one that leaves the ledger alone, one *)
(* that writes a fresh envelope, and one that marks a record.              *)

LEMMA LedgerStays ==
  ASSUME IInv, NEW h \in Handlers,
         UNCHANGED <<now, log, effects, asked>>,
         HandlerTypeOK', OthersStay(h),
         pc'[h] \notin {"run", "acted", "settle"}, Binds(h)',
         answers' \subseteq Answer,
         \A a \in answers' : a \in answers \/ Rests(a)
  PROVE  IInv'
<1>1. TypeOK'
  BY DEF IInv, TypeOK, HandlerTypeOK
<1>2. ~Running(h)'
  BY DEF Running
<1>3. ASSUME NEW g \in Handlers, g # h
      PROVE  /\ pc'[g] = pc[g] /\ req'[g] = req[g] /\ seen'[g] = seen[g]
             /\ verdict'[g] = verdict[g] /\ outcome'[g] = outcome[g]
  BY <1>3 DEF OthersStay
<1>4. OneHandlerPerOperation'
  BY <1>2, <1>3 DEF IInv, OneHandlerPerOperation, Running, Op
<1>5. EffectAtMostOnce' /\ RecordTellsTruth' /\ NoRecordNoEffect' /\ AwaitingHoldsWhatWasAsked'
  BY DEF IInv, EffectAtMostOnce, RecordTellsTruth, NoRecordNoEffect, AwaitingHoldsWhatWasAsked
<1>6. ConfirmedRunsWhatWasAsked'
  BY <1>3 DEF IInv, ConfirmedRunsWhatWasAsked, Op
<1>7. RunnerHoldsRecord'
  BY <1>2, <1>3 DEF IInv, RunnerHoldsRecord, HoldsRecord, Running, Op
<1>8. ProgressMatchesEffect'
  BY <1>3 DEF IInv, ProgressMatchesEffect, Progress, Op
<1>9. ObservationBinds'
  BY <1>3 DEF IInv, ObservationBinds, Binds, Closed, Op
<1>10. AnswersRestOnRecords'
  BY DEF IInv, AnswersRestOnRecords, Rests, Closed
<1>11. QED
  BY <1>1, <1>4, <1>5, <1>6, <1>7, <1>8, <1>9, <1>10 DEF IInv

(* Nobody can be running an operation that has no record, or one that waits *)
(* for the user.                                                           *)
LEMMA NobodyRuns ==
  ASSUME IInv, NEW op \in Ops, log[op] = NoRecord \/ Awaiting(log[op]),
         NEW g \in Handlers, Running(g)
  PROVE  Op(g) # op
<1>1. HoldsRecord(g)
  BY DEF IInv, RunnerHoldsRecord
<1>2. QED
  BY <1>1, NoRecordIsNoRecord DEF HoldsRecord, Awaiting, Executing

LEMMA EnvelopeWritten ==
  ASSUME IInv, NEW h \in Handlers, req[h] \in Request, Op(h) \in Ops,
         log[Op(h)] = NoRecord \/ Awaiting(log[Op(h)]),
         ~Closed(Op(h)),
         req[h].confirmed => asked[Op(h)] \subseteq {req[h].params},
         log' = [log EXCEPT ![Op(h)] = Envelope(req[h], now)],
         UNCHANGED <<now, effects, asked, answers>>,
         HandlerTypeOK', OthersStay(h),
         \/ pc'[h] = "idle"
         \/ pc'[h] = "run" /\ req'[h] = req[h]
  PROVE  IInv'
<1> DEFINE o == Op(h)
<1>1. Envelope(req[h], now) \in Record
  BY EnvelopeType DEF IInv, TypeOK
<1>2. log' \in [Ops -> Record \union {NoRecord}] /\ log'[o] = Envelope(req[h], now)
  BY <1>1 DEF IInv, TypeOK
<1>3. TypeOK'
  BY <1>2 DEF IInv, TypeOK, HandlerTypeOK
<1>4. ASSUME NEW g \in Handlers, g # h
      PROVE  /\ pc'[g] = pc[g] /\ req'[g] = req[g] /\ seen'[g] = seen[g]
             /\ verdict'[g] = verdict[g] /\ outcome'[g] = outcome[g]
  BY <1>4 DEF OthersStay
<1>5. ASSUME NEW g \in Handlers, g # h, Running(g)'
      PROVE  Running(g) /\ Op(g)' = Op(g) /\ Op(g) # o /\ Op(g) \in Ops
  <2>1. Running(g) /\ Op(g)' = Op(g)
    BY <1>4, <1>5 DEF Running, Op
  <2>2. Op(g) \in Ops
    BY <2>1, OpInOps, TypeOKSplits DEF IInv, Running
  <2>3. QED
    BY <2>1, <2>2, NobodyRuns
<1>6. ASSUME NEW op \in Ops, op # o PROVE log'[op] = log[op]
  BY <1>6 DEF IInv, TypeOK
<1>7. Running(h)' => Op(h)' = o /\ req'[h] = req[h] /\ pc'[h] = "run"
  BY DEF Running, Op
<1>8. effects[o] = 0
  BY DEF IInv, NoRecordNoEffect, RecordTellsTruth
<1>9. OneHandlerPerOperation'
  <2>1. ASSUME NEW g \in Handlers, NEW k \in Handlers, g # h, k # h,
               Running(g)', Running(k)', Op(g)' = Op(k)'
        PROVE  g = k
    BY <1>5, <2>1 DEF IInv, OneHandlerPerOperation
  <2>2. ASSUME NEW g \in Handlers, g # h, Running(g)', Running(h)'
        PROVE  Op(g)' # Op(h)'
    BY <1>5, <1>7, <2>2
  <2>3. QED
    BY <2>1, <2>2 DEF OneHandlerPerOperation
<1>10. EffectAtMostOnce'
  BY DEF IInv, EffectAtMostOnce
<1>11. RecordTellsTruth'
  <2>1. ASSUME NEW op \in Ops, op # o
        PROVE  /\ log'[op].status = "done" => effects'[op] = 1
               /\ log'[op].status \in {"failed", "cancelled"} => effects'[op] = 0
               /\ log'[op] # NoRecord /\ Awaiting(log'[op]) => effects'[op] = 0
    BY <1>6, <2>1 DEF IInv, RecordTellsTruth
  <2>2. log'[o].status = "accepted"
    BY <1>2 DEF Envelope
  <2>3. QED
    BY <1>8, <2>1, <2>2 DEF RecordTellsTruth
<1>12. ConfirmedRunsWhatWasAsked'
  <2>1. ASSUME NEW g \in Handlers, g # h, pc'[g] \in {"run", "acted"}, req'[g].confirmed
        PROVE  asked'[Op(g)'] \subseteq {req'[g].params}
    BY <1>4, <2>1 DEF IInv, ConfirmedRunsWhatWasAsked, Op
  <2>2. ASSUME pc'[h] \in {"run", "acted"}, req'[h].confirmed
        PROVE  asked'[Op(h)'] \subseteq {req'[h].params}
    BY <1>7, <2>2 DEF Running
  <2>3. QED
    BY <2>1, <2>2 DEF ConfirmedRunsWhatWasAsked
<1>13. RunnerHoldsRecord'
  <2>1. ASSUME NEW g \in Handlers, g # h, Running(g)'
        PROVE  HoldsRecord(g)'
    <3>1. HoldsRecord(g)
      BY <1>5, <2>1 DEF IInv, RunnerHoldsRecord
    <3>2. log'[Op(g)'] = log[Op(g)] /\ req'[g] = req[g]
      BY <1>4, <1>5, <1>6, <2>1
    <3>3. QED
      BY <3>1, <3>2 DEF HoldsRecord
  <2>2. ASSUME Running(h)'
        PROVE  HoldsRecord(h)'
    BY <1>1, <1>2, <1>7, <2>2 DEF HoldsRecord, SameBinding, Executing, Envelope
  <2>3. QED
    BY <2>1, <2>2 DEF RunnerHoldsRecord
<1>14. ProgressMatchesEffect'
  <2>1. ASSUME NEW g \in Handlers, g # h PROVE Progress(g)'
    BY <1>4, <2>1 DEF IInv, ProgressMatchesEffect, Progress, Op
  <2>2. Progress(h)'
    BY <1>7, <1>8 DEF Progress, Running
  <2>3. QED
    BY <2>1, <2>2 DEF ProgressMatchesEffect
<1>15. NoRecordNoEffect'
  <2>1. log'[o] # NoRecord
    BY <1>1, <1>2, NoRecordIsNoRecord
  <2>2. QED
    BY <1>6, <2>1 DEF IInv, NoRecordNoEffect
<1>16. AwaitingHoldsWhatWasAsked'
  <2>1. ~Awaiting(log'[o])
    BY <1>2 DEF Awaiting, Envelope
  <2>2. QED
    BY <1>6, <2>1 DEF IInv, AwaitingHoldsWhatWasAsked
<1>17. ASSUME NEW op \in Ops, Closed(op) PROVE Closed(op)'
  BY <1>6, <1>17 DEF Closed
<1>18. ObservationBinds'
  <2>1. ASSUME NEW g \in Handlers, g # h PROVE Binds(g)'
    <3>1. Binds(g) /\ Op(g)' = Op(g)
      BY <1>4, <2>1 DEF IInv, ObservationBinds, Op
    <3>2. pc[g] = "mark" => Op(g) \in Ops
      BY OpInOps, TypeOKSplits DEF IInv
    <3>3. QED
      BY <1>4, <1>17, <2>1, <3>1, <3>2 DEF Binds
  <2>2. Binds(h)'
    BY DEF Binds
  <2>3. QED
    BY <2>1, <2>2 DEF ObservationBinds
<1>19. AnswersRestOnRecords'
  <2>1. ASSUME NEW a \in answers PROVE Rests(a)'
    <3>1. Rests(a) /\ a.op \in Ops
      BY <2>1 DEF IInv, AnswersRestOnRecords, TypeOK, Answer
    <3>2. log[o].status \notin {"done", "failed"}
      BY DEF NoRecord, Awaiting
    <3>3. QED
      BY <1>6, <1>17, <3>1, <3>2 DEF Rests
  <2>2. QED
    BY <2>1 DEF AnswersRestOnRecords
<1>20. QED
  BY <1>3, <1>9, <1>10, <1>11, <1>12, <1>13, <1>14, <1>15, <1>16, <1>18, <1>19 DEF IInv

LEMMA RecordMarked ==
  ASSUME IInv, NEW h \in Handlers, Op(h) \in Ops, log[Op(h)] \in Record, NEW m,
         \/ m = "orphaned" /\ Executing(log[Op(h)])
         \/ m = "cancelled" /\ Awaiting(log[Op(h)]),
         log' = [log EXCEPT ![Op(h)].status = m],
         UNCHANGED <<now, effects, asked>>,
         HandlerTypeOK', OthersStay(h), pc'[h] = "idle",
         answers' \subseteq Answer,
         \A a \in answers' : a \in answers \/ Rests(a)'
  PROVE  IInv'
<1> DEFINE o == Op(h)
<1>1. /\ log'[o] = [log[o] EXCEPT !.status = m]
      /\ \A op \in Ops : op # o => log'[op] = log[op]
  BY DEF IInv, TypeOK
<1>2. m \in Statuses
  BY DEF Statuses
<1>3. log'[o] \in Record /\ log'[o] # NoRecord
  BY <1>1, <1>2, NoRecordIsNoRecord DEF Record
<1>4. /\ log'[o].status = m /\ log'[o].phase = log[o].phase
      /\ log'[o].subject = log[o].subject /\ log'[o].params = log[o].params
  BY <1>1 DEF Record
<1>5. TypeOK'
  <2>1. log' \in [Ops -> Record \union {NoRecord}]
    BY <1>1, <1>3 DEF IInv, TypeOK
  <2>2. QED
    BY <2>1 DEF IInv, TypeOK, HandlerTypeOK
<1>6. ASSUME NEW g \in Handlers, g # h
      PROVE  /\ pc'[g] = pc[g] /\ req'[g] = req[g] /\ seen'[g] = seen[g]
             /\ verdict'[g] = verdict[g] /\ outcome'[g] = outcome[g]
  BY <1>6 DEF OthersStay
<1>7. ASSUME NEW g \in Handlers, Running(g)'
      PROVE  g # h /\ Running(g) /\ Op(g)' = Op(g) /\ Op(g) \in Ops
  <2>1. g # h
    BY <1>7 DEF Running
  <2>2. Running(g) /\ Op(g)' = Op(g)
    BY <1>6, <1>7, <2>1 DEF Running, Op
  <2>3. QED
    BY <2>1, <2>2, OpInOps, TypeOKSplits DEF IInv, Running
<1>8. OneHandlerPerOperation'
  BY <1>7 DEF IInv, OneHandlerPerOperation
<1>9. EffectAtMostOnce'
  BY DEF IInv, EffectAtMostOnce
<1>10. log[o] # NoRecord /\ log[o].status = "accepted"
  BY NoRecordIsNoRecord DEF Executing, Awaiting
<1>11. m = "cancelled" => effects[o] = 0
  BY <1>10 DEF IInv, RecordTellsTruth, Executing
<1>12. RecordTellsTruth'
  <2>1. ASSUME NEW op \in Ops, op # o
        PROVE  /\ log'[op].status = "done" => effects'[op] = 1
               /\ log'[op].status \in {"failed", "cancelled"} => effects'[op] = 0
               /\ log'[op] # NoRecord /\ Awaiting(log'[op]) => effects'[op] = 0
    BY <1>1, <2>1 DEF IInv, RecordTellsTruth
  <2>2. ~Awaiting(log'[o])
    BY <1>4 DEF Awaiting
  <2>3. QED
    BY <1>4, <1>11, <2>1, <2>2 DEF RecordTellsTruth
<1>13. ConfirmedRunsWhatWasAsked'
  BY <1>6 DEF IInv, ConfirmedRunsWhatWasAsked, Op
<1>14. RunnerHoldsRecord'
  <2>1. ASSUME NEW g \in Handlers, Running(g)'
        PROVE  HoldsRecord(g)'
    <3>1. HoldsRecord(g) /\ req'[g] = req[g] /\ Op(g)' = Op(g) /\ Op(g) \in Ops
      BY <1>6, <1>7, <2>1 DEF IInv, RunnerHoldsRecord
    <3>2. CASE Op(g) # o
      <4>1. log'[Op(g)'] = log[Op(g)]
        BY <1>1, <3>1, <3>2
      <4>2. QED
        BY <3>1, <4>1 DEF HoldsRecord
    <3>3. CASE Op(g) = o
      <4>1. m = "orphaned"
        BY <1>7, <2>1, <3>3, NobodyRuns
      <4>2. QED
        BY <1>3, <1>4, <3>1, <3>3, <4>1 DEF HoldsRecord, SameBinding
    <3>4. QED
      BY <3>2, <3>3
  <2>2. QED
    BY <2>1 DEF RunnerHoldsRecord
<1>15. ProgressMatchesEffect'
  <2>1. ASSUME NEW g \in Handlers, g # h PROVE Progress(g)'
    BY <1>6, <2>1 DEF IInv, ProgressMatchesEffect, Progress, Op
  <2>2. Progress(h)'
    BY DEF Progress
  <2>3. QED
    BY <2>1, <2>2 DEF ProgressMatchesEffect
<1>16. NoRecordNoEffect'
  BY <1>1, <1>3 DEF IInv, NoRecordNoEffect
<1>17. AwaitingHoldsWhatWasAsked'
  <2>1. ~Awaiting(log'[o])
    BY <1>4 DEF Awaiting
  <2>2. QED
    BY <1>1, <2>1 DEF IInv, AwaitingHoldsWhatWasAsked
<1>18. ASSUME NEW op \in Ops, Closed(op) PROVE Closed(op)'
  <2>1. CASE op # o
    BY <1>1, <1>18, <2>1 DEF Closed
  <2>2. CASE op = o
    BY <1>3, <1>4, <1>18, <2>2 DEF Closed, Executing, Awaiting
  <2>3. QED
    BY <2>1, <2>2
<1>19. ObservationBinds'
  <2>1. ASSUME NEW g \in Handlers, g # h PROVE Binds(g)'
    <3>1. Binds(g) /\ Op(g)' = Op(g)
      BY <1>6, <2>1 DEF IInv, ObservationBinds, Op
    <3>2. pc[g] = "mark" => Op(g) \in Ops
      BY OpInOps, TypeOKSplits DEF IInv
    <3>3. QED
      BY <1>6, <1>18, <2>1, <3>1, <3>2 DEF Binds
  <2>2. Binds(h)'
    BY DEF Binds
  <2>3. QED
    BY <2>1, <2>2 DEF ObservationBinds
<1>20. AnswersRestOnRecords'
  <2>1. ASSUME NEW a \in answers PROVE Rests(a)'
    <3>1. Rests(a) /\ a.op \in Ops
      BY <2>1 DEF IInv, AnswersRestOnRecords, TypeOK, Answer
    <3>2. QED
      BY <1>1, <1>10, <1>18, <3>1 DEF Rests
  <2>2. QED
    BY <2>1 DEF AnswersRestOnRecords
<1>21. QED
  BY <1>5, <1>8, <1>9, <1>12, <1>13, <1>14, <1>15, <1>16, <1>17, <1>19, <1>20 DEF IInv

------------------------------------------------------------------------------
(* Every action preserves IInv.                                            *)

LEMMA TellStep ==
  ASSUME HandlerTypeOK, NEW h \in Handlers, NEW k, NEW st, Tell(h, k, st)
  PROVE  /\ HandlerTypeOK' /\ OthersStay(h) /\ pc'[h] = "idle"
         /\ \A a \in answers' :
              \/ a \in answers
              \/ /\ k \in {"expired", "duplicate"}
                 /\ a = [op |-> Op(h), kind |-> k, status |-> st]
BY GoIdleStep DEF Tell

LEMMA BindsVacuously ==
  ASSUME NEW h \in Handlers, pc'[h] \notin {"claim", "mark"}
  PROVE  Binds(h)'
BY DEF Binds

LEMMA ReceivePreserves ==
  ASSUME IInv, NEW h \in Handlers, NEW r \in Request, Receive(h, r)
  PROVE  IInv'
<1>1. HandlerTypeOK
  BY TypeOKSplits DEF IInv
<1>2. HandlerTypeOK' /\ OthersStay(h) /\ pc'[h] = "insert"
  BY <1>1 DEF HandlerTypeOK, Receive, OthersStay
<1>3. UNCHANGED <<now, log, effects, asked, answers>>
  BY DEF Receive, ledgerVars, worldVars
<1>4. answers' \subseteq Answer
  BY <1>3 DEF IInv, TypeOK
<1>5. QED
  BY <1>2, <1>3, <1>4, BindsVacuously, LedgerStays

LEMMA NextRoundPreserves ==
  ASSUME IInv, NEW h \in Handlers, pc[h] # "idle", NextRound(h),
         UNCHANGED <<now, log, effects, asked>>
  PROVE  IInv'
<1>1. HandlerTypeOK /\ answers \subseteq Answer
  BY TypeOKSplits DEF IInv
<1>2. HandlerTypeOK' /\ OthersStay(h) /\ pc'[h] \in {"idle", "get"} /\ answers' = answers
  BY <1>1, NextRoundStep
<1>3. QED
  BY <1>1, <1>2, BindsVacuously, LedgerStays

LEMMA InsertPreserves ==
  ASSUME IInv, NEW h \in Handlers, Insert(h)
  PROVE  IInv'
<1>1. HandlerTypeOK /\ pc[h] # "idle"
  BY TypeOKSplits DEF IInv, Insert
<1>2. req[h] \in Request /\ Op(h) \in Ops
  BY <1>1, OpInOps
<1>3. CASE log[Op(h)] = NoRecord /\ InsertWrite(h) /\ Run(h)
  <2>1. HandlerTypeOK' /\ OthersStay(h) /\ pc'[h] = "run" /\ req' = req /\ answers' = answers
    BY <1>1, <1>3, RunStep
  <2>2. ~Closed(Op(h)) /\ asked[Op(h)] = {}
    BY <1>2, <1>3, NoRecordIsNoRecord DEF IInv, NoRecordNoEffect, Closed
  <2>3. UNCHANGED <<now, effects, asked>>
    BY DEF Insert
  <2>4. log' = [log EXCEPT ![Op(h)] = Envelope(req[h], now)]
    BY <1>3 DEF InsertWrite
  <2>5. QED
    BY <1>2, <1>3, <2>1, <2>2, <2>3, <2>4, EnvelopeWritten
<1>4. CASE log[Op(h)] # NoRecord /\ NextRound(h) /\ UNCHANGED log
  <2>1. UNCHANGED <<now, log, effects, asked>>
    BY <1>4 DEF Insert
  <2>2. QED
    BY <1>1, <1>4, <2>1, NextRoundPreserves
<1>5. QED
  BY <1>3, <1>4 DEF Insert

(* What makes a claim safe: the record still has the binding the handler   *)
(* saw, and a confirmed handler saw its own parameters.                    *)
LEMMA ClaimIsSafe ==
  ASSUME IInv, NEW h \in Handlers, pc[h] = "claim", Claimable(h)
  PROVE  /\ req[h] \in Request /\ Op(h) \in Ops
         /\ Awaiting(log[Op(h)])
         /\ ~Closed(Op(h))
         /\ req[h].confirmed => asked[Op(h)] \subseteq {req[h].params}
<1>1. req[h] \in Request /\ Op(h) \in Ops
  BY OpInOps, TypeOKSplits DEF IInv
<1>2. log[Op(h)] # NoRecord /\ Awaiting(log[Op(h)]) /\ SameBinding(log[Op(h)], seen[h])
      /\ log[Op(h)].expires > now
  BY DEF Claimable, CanClaim
<1>3. log[Op(h)] \in Record /\ now \in Nat
  BY <1>1, <1>2 DEF IInv, TypeOK
<1>4. ~Closed(Op(h))
  <2>1. log[Op(h)].expires \in Nat
    BY <1>3 DEF Record
  <2>2. QED
    BY <1>2, <1>3, <2>1 DEF Closed, Awaiting, AwaitingExpired
<1>5. req[h].confirmed => seen[h].params = req[h].params
  BY DEF IInv, ObservationBinds, Binds
<1>6. asked[Op(h)] = {log[Op(h)].params}
  BY <1>1, <1>2 DEF IInv, AwaitingHoldsWhatWasAsked
<1>7. QED
  BY <1>1, <1>2, <1>4, <1>5, <1>6 DEF SameBinding

LEMMA ClaimPreserves ==
  ASSUME IInv, NEW h \in Handlers, ClaimRecord(h)
  PROVE  IInv'
<1>1. HandlerTypeOK /\ pc[h] = "claim"
  BY TypeOKSplits DEF IInv, ClaimRecord
<1>2. CASE Claimable(h) /\ ClaimWrite(h) /\ Run(h)
  <2>1. HandlerTypeOK' /\ OthersStay(h) /\ pc'[h] = "run" /\ req' = req /\ answers' = answers
    BY <1>1, <1>2, RunStep
  <2>2. UNCHANGED <<now, effects, asked>>
    BY DEF ClaimRecord
  <2>3. log' = [log EXCEPT ![Op(h)] = Envelope(req[h], now)]
    BY <1>2 DEF ClaimWrite
  <2>4. QED
    BY <1>1, <1>2, <2>1, <2>2, <2>3, ClaimIsSafe, EnvelopeWritten
<1>3. CASE ~Claimable(h) /\ NextRound(h) /\ UNCHANGED log
  <2>1. UNCHANGED <<now, log, effects, asked>>
    BY <1>3 DEF ClaimRecord
  <2>2. QED
    BY <1>1, <1>3, <2>1, NextRoundPreserves
<1>4. QED
  BY <1>2, <1>3 DEF ClaimRecord

LEMMA GetPreserves ==
  ASSUME IInv, NEW h \in Handlers, Get(h)
  PROVE  IInv'
<1> DEFINE rec == log[Op(h)]
           d   == Decide(rec, req[h], now)
<1>1. HandlerTypeOK /\ pc[h] = "get" /\ answers \subseteq Answer
  BY TypeOKSplits DEF IInv, Get
<1>2. req[h] \in Request /\ Op(h) \in Ops
  BY <1>1, OpInOps
<1>3. rec \in Record \union {NoRecord} /\ now \in Nat
  BY <1>2 DEF IInv, TypeOK
<1>4. SoundDecision(d, rec, req[h], now)
  BY <1>2, <1>3, DecideSound DEF Request
<1>5. UNCHANGED <<now, log, effects, asked>>
  BY DEF Get, ledgerVars
<1>6. CASE d.kind # "run" /\ d.mark = "" /\ Tell(h, d.kind, rec.status)
  <2>1. HandlerTypeOK' /\ OthersStay(h) /\ pc'[h] = "idle"
    BY <1>1, <1>6, TellStep
  <2>2. ASSUME NEW a \in answers', a \notin answers
        PROVE  a \in Answer /\ Rests(a)
    <3>1. /\ d.kind \in {"expired", "duplicate"}
          /\ a = [op |-> Op(h), kind |-> d.kind, status |-> rec.status]
      BY <1>1, <1>6, <2>2, TellStep
    <3>2. rec \in Record
      <4>1. CASE d.kind = "expired"
        BY <1>3, <1>4, <4>1 DEF SoundDecision
      <4>2. CASE d.kind = "duplicate"
        <5>1. rec.status \in {"done", "failed"}
          BY <1>4, <4>2 DEF SoundDecision
        <5>2. rec # NoRecord
          BY <5>1 DEF NoRecord
        <5>3. QED
          BY <1>3, <5>2
      <4>3. QED
        BY <3>1, <4>1, <4>2
    <3>3. d.kind = "expired" => rec.status = "cancelled"
      BY <1>4, <1>6 DEF SoundDecision
    <3>4. d.kind = "duplicate" => rec.status \in {"done", "failed"}
      BY <1>4 DEF SoundDecision
    <3>5. a.op = Op(h) /\ a.kind = d.kind /\ a.status = rec.status
      BY <3>1
    <3>6. Rests(a)
      BY <3>2, <3>3, <3>4, <3>5 DEF Rests, Closed
    <3>7. rec.status \in Statuses
      BY <3>2 DEF Record
    <3>8. a \in Answer
      BY <1>2, <3>1, <3>7 DEF Answer
    <3>9. QED
      BY <3>6, <3>8
  <2>3. QED
    BY <1>1, <1>5, <2>1, <2>2, BindsVacuously, LedgerStays
<1>7. CASE /\ d.kind = "run" \/ d.mark # ""
           /\ seen' = [seen EXCEPT ![h] = rec]
           /\ verdict' = [verdict EXCEPT ![h] = d]
           /\ pc' = [pc EXCEPT ![h] = IF d.kind # "run" THEN "mark"
                                      ELSE IF rec = NoRecord THEN "insert" ELSE "claim"]
           /\ UNCHANGED <<req, round, outcome, answers>>
  <2>1. d \in Verdicts
    <3>1. d \in [kind : Decisions, mark : {"", "cancelled", "orphaned"}]
      BY <1>4 DEF SoundDecision
    <3> HIDE DEF d
    <3>2. QED
      BY <3>1 DEF Verdicts
  <2>2. HandlerTypeOK'
    <3>1. verdict' \in [Handlers -> Verdicts]
      BY <1>1, <1>7, <2>1 DEF HandlerTypeOK
    <3>2. seen' \in [Handlers -> Record \union {NoRecord}]
      BY <1>1, <1>3, <1>7 DEF HandlerTypeOK
    <3>3. pc' \in [Handlers -> {"idle", "insert", "get", "claim", "mark", "run", "acted", "settle"}]
      BY <1>1, <1>7 DEF HandlerTypeOK
    <3>4. \A g \in Handlers : pc'[g] # "idle" => req'[g] \in Request
      BY <1>1, <1>2, <1>7 DEF HandlerTypeOK
    <3>5. QED
      BY <1>1, <1>7, <3>1, <3>2, <3>3, <3>4 DEF HandlerTypeOK
  <2>3. OthersStay(h)
    BY <1>1, <1>7 DEF HandlerTypeOK, OthersStay
  <2>4. /\ pc'[h] = IF d.kind # "run" THEN "mark"
                    ELSE IF rec = NoRecord THEN "insert" ELSE "claim"
        /\ seen'[h] = rec /\ verdict'[h] = d /\ req'[h] = req[h]
    BY <1>1, <1>7 DEF HandlerTypeOK
  <2>5. pc'[h] \notin {"run", "acted", "settle"}
    BY <2>4
  <2>6. Binds(h)'
    <3>1. ASSUME pc'[h] = "claim"
          PROVE  /\ seen'[h] \in Record
                 /\ seen'[h].subject = req'[h].subject
                 /\ req'[h].confirmed => seen'[h].params = req'[h].params
      <4>1. d.kind = "run" /\ rec # NoRecord
        BY <2>4, <3>1
      <4>2. rec.subject = req[h].subject /\ (req[h].confirmed => rec.params = req[h].params)
        BY <1>4, <4>1 DEF SoundDecision
      <4>3. QED
        BY <1>3, <2>4, <4>1, <4>2
    <3>2. ASSUME pc'[h] = "mark"
          PROVE  \/ /\ verdict'[h].kind = "expired" /\ verdict'[h].mark = "cancelled"
                    /\ Closed(Op(h))'
                 \/ verdict'[h].kind = "unknown" /\ verdict'[h].mark = "orphaned"
      <4>1. d.kind # "run" /\ d.mark # ""
        <5>1. d.kind = "run" \/ d.mark # ""
          BY <1>7
        <5>2. d.kind # "run"
          BY <2>4, <3>2
        <5>3. QED
          BY <5>1, <5>2
      <4>2. d.mark \in {"cancelled", "orphaned"}
        BY <2>1, <4>1 DEF Verdicts
      <4>3. CASE d.mark = "orphaned"
        BY <1>4, <2>4, <4>3 DEF SoundDecision
      <4>4. CASE d.mark = "cancelled"
        <5>1. d.kind = "expired" /\ rec \in Record /\ Awaiting(rec) /\ AwaitingExpired(rec, now)
          BY <1>3, <1>4, <4>4 DEF SoundDecision
        <5>2. log'[Op(h)'] = rec /\ now' = now
          BY <1>5, <2>4 DEF Op
        <5>3. QED
          BY <2>4, <4>4, <5>1, <5>2 DEF Closed
      <4>5. QED
        BY <4>2, <4>3, <4>4
    <3>3. QED
      BY <3>1, <3>2 DEF Binds
  <2>7. answers' = answers
    BY <1>7
  <2>8. QED
    BY <1>1, <1>5, <2>2, <2>3, <2>5, <2>6, <2>7, LedgerStays
<1>8. QED
  BY <1>6, <1>7 DEF Get

(* What makes a mark safe.                                                 *)
LEMMA MarkIsSafe ==
  ASSUME IInv, NEW h \in Handlers, pc[h] = "mark", Markable(h)
  PROVE  /\ Op(h) \in Ops /\ log[Op(h)] \in Record
         /\ \/ verdict[h].mark = "orphaned" /\ Executing(log[Op(h)])
            \/ verdict[h].mark = "cancelled" /\ Awaiting(log[Op(h)])
<1>1. Op(h) \in Ops
  BY OpInOps, TypeOKSplits DEF IInv
<1>2. log[Op(h)] # NoRecord
  BY DEF Markable, CanMarkStale, CanMarkExpired
<1>3. log[Op(h)] \in Record
  BY <1>1, <1>2 DEF IInv, TypeOK
<1>4. QED
  BY <1>1, <1>3 DEF Markable, CanMarkStale, CanMarkExpired

LEMMA MarkPreserves ==
  ASSUME IInv, NEW h \in Handlers, MarkRecord(h)
  PROVE  IInv'
<1> DEFINE k == verdict[h].kind
           m == verdict[h].mark
<1>1. HandlerTypeOK /\ pc[h] = "mark" /\ answers \subseteq Answer
  BY TypeOKSplits DEF IInv, MarkRecord
<1>2. req[h] \in Request /\ Op(h) \in Ops
  BY <1>1, OpInOps
<1>3. HandlerTypeOK' /\ OthersStay(h) /\ pc'[h] = "idle"
  BY <1>1, TellStep DEF MarkRecord
<1>4. \/ k = "expired" /\ m = "cancelled" /\ Closed(Op(h))
      \/ k = "unknown" /\ m = "orphaned"
  BY <1>1 DEF IInv, ObservationBinds, Binds
<1>5. ASSUME NEW a \in answers', a \notin answers
      PROVE  k = "expired" /\ a = [op |-> Op(h), kind |-> "expired", status |-> "cancelled"]
  <2>1. k \in {"expired", "duplicate"} /\ a = [op |-> Op(h), kind |-> k, status |-> m]
    BY <1>1, <1>5, TellStep DEF MarkRecord
  <2>2. k = "expired" /\ m = "cancelled"
    BY <1>4, <2>1
  <2>3. QED
    BY <2>1, <2>2
<1>6. answers' \subseteq Answer
  BY <1>1, <1>2, <1>5 DEF Answer, Statuses
<1>7. UNCHANGED <<now, effects, asked>>
  BY DEF MarkRecord
<1>8. CASE Markable(h)
  <2>1. log' = [log EXCEPT ![Op(h)].status = m]
    BY <1>8 DEF MarkRecord, MarkWrite
  <2>2. /\ log[Op(h)] \in Record
        /\ \/ m = "orphaned" /\ Executing(log[Op(h)])
           \/ m = "cancelled" /\ Awaiting(log[Op(h)])
    BY <1>1, <1>8, MarkIsSafe
  <2>3. ASSUME NEW a \in answers', a \notin answers PROVE Rests(a)'
    <3>1. a.op = Op(h) /\ a.kind = "expired" /\ m = "cancelled"
      BY <1>4, <1>5, <2>3
    <3>2. log'[Op(h)] = [log[Op(h)] EXCEPT !.status = m]
      BY <1>2, <2>1 DEF IInv, TypeOK
    <3>3. log'[Op(h)] \in Record /\ log'[Op(h)].status = "cancelled"
      BY <2>2, <3>1, <3>2 DEF Record, Statuses
    <3>4. QED
      BY <3>1, <3>3 DEF Rests, Closed
  <2>4. QED
    BY <1>2, <1>3, <1>6, <1>7, <2>1, <2>2, <2>3, RecordMarked
<1>9. CASE ~Markable(h)
  <2>1. log' = log
    BY <1>9 DEF MarkRecord, MarkWrite
  <2>2. ASSUME NEW a \in answers', a \notin answers PROVE Rests(a)
    <3>1. a.op = Op(h) /\ a.kind = "expired"
      BY <1>5, <2>2
    <3>2. QED
      BY <1>4, <1>5, <2>2, <3>1 DEF Rests
  <2>3. QED
    BY <1>3, <1>6, <1>7, <2>1, <2>2, BindsVacuously, LedgerStays
<1>10. QED
  BY <1>8, <1>9

LEMMA VanishPreserves ==
  ASSUME IInv, NEW h \in Handlers, Vanish(h)
  PROVE  IInv'
<1>1. HandlerTypeOK /\ answers \subseteq Answer
  BY TypeOKSplits DEF IInv
<1>2. HandlerTypeOK' /\ OthersStay(h) /\ pc'[h] = "idle"
  BY <1>1, GoIdleStep DEF Vanish
<1>3. UNCHANGED <<now, log, effects, asked, answers>>
  BY DEF Vanish, ledgerVars, worldVars
<1>4. QED
  BY <1>1, <1>2, <1>3, BindsVacuously, LedgerStays

LEMMA StoreFailsPreserves ==
  ASSUME IInv, NEW h \in Handlers, StoreFails(h)
  PROVE  IInv'
<1>1. HandlerTypeOK /\ pc[h] # "idle" /\ answers \subseteq Answer
  BY TypeOKSplits DEF IInv, StoreFails
<1>2. req[h] \in Request /\ Op(h) \in Ops
  BY <1>1, OpInOps
<1>3. HandlerTypeOK' /\ OthersStay(h) /\ pc'[h] = "idle"
  BY <1>1, TellStep DEF StoreFails
<1>4. answers' = answers
  BY DEF StoreFails, Tell
<1>5. UNCHANGED <<now, effects, asked>>
  BY DEF StoreFails
<1>6. CASE UNCHANGED log
  BY <1>1, <1>3, <1>4, <1>5, <1>6, BindsVacuously, LedgerStays
<1>7. CASE log[Op(h)] = NoRecord /\ InsertWrite(h)
  <2>1. ~Closed(Op(h)) /\ asked[Op(h)] = {}
    BY <1>2, <1>7, NoRecordIsNoRecord DEF IInv, NoRecordNoEffect, Closed
  <2>2. log' = [log EXCEPT ![Op(h)] = Envelope(req[h], now)]
    BY <1>7 DEF InsertWrite
  <2>3. QED
    BY <1>2, <1>3, <1>4, <1>5, <1>7, <2>1, <2>2, EnvelopeWritten
<1>8. CASE pc[h] = "claim" /\ Claimable(h) /\ ClaimWrite(h)
  <2>1. log' = [log EXCEPT ![Op(h)] = Envelope(req[h], now)]
    BY <1>8 DEF ClaimWrite
  <2>2. QED
    BY <1>3, <1>4, <1>5, <1>8, <2>1, ClaimIsSafe, EnvelopeWritten
<1>9. CASE pc[h] = "mark" /\ Markable(h) /\ MarkWrite(h)
  <2>1. log' = [log EXCEPT ![Op(h)].status = verdict[h].mark]
    BY <1>9 DEF MarkWrite
  <2>2. QED
    BY <1>1, <1>3, <1>4, <1>5, <1>9, <2>1, MarkIsSafe, RecordMarked
<1>10. QED
  BY <1>6, <1>7, <1>8, <1>9 DEF StoreFails

(* The business handler's steps disturb nobody else: whoever else runs     *)
(* runs another operation.                                                 *)
LEMMA RunnerAlone ==
  ASSUME IInv, NEW h \in Handlers, Running(h)
  PROVE  /\ req[h] \in Request /\ Op(h) \in Ops
         /\ HoldsRecord(h)
         /\ ~Closed(Op(h))
         /\ \A g \in Handlers : g # h /\ Running(g) => Op(g) # Op(h)
<1>1. req[h] \in Request /\ Op(h) \in Ops
  BY OpInOps, TypeOKSplits DEF IInv, Running
<1>2. HoldsRecord(h)
  BY DEF IInv, RunnerHoldsRecord
<1>3. ~Closed(Op(h))
  BY <1>2 DEF HoldsRecord, Closed, Executing, Awaiting
<1>4. QED
  BY <1>1, <1>2, <1>3 DEF IInv, OneHandlerPerOperation

LEMMA ActPreserves ==
  ASSUME IInv, NEW h \in Handlers, Act(h)
  PROVE  IInv'
<1> DEFINE o == Op(h)
<1>1. Running(h) /\ pc[h] = "run" /\ MayAct(req[h])
  BY DEF Act, Running
<1>2. /\ o \in Ops /\ HoldsRecord(h)
      /\ \A g \in Handlers : g # h /\ Running(g) => Op(g) # o
  BY <1>1, RunnerAlone
<1>3. effects[o] = 0
  BY <1>1 DEF IInv, ProgressMatchesEffect, Progress
<1>4. /\ effects'[o] = 1
      /\ \A op \in Ops : op # o => effects'[op] = effects[op]
      /\ effects' \in [Ops -> Nat]
  <2>1. effects' = [effects EXCEPT ![o] = @ + 1] /\ effects \in [Ops -> Nat]
    BY DEF Act, IInv, TypeOK
  <2>2. QED
    BY <1>2, <1>3, <2>1
<1>5. UNCHANGED <<now, log, req, seen, verdict, round, outcome, asked, answers>>
  BY DEF Act, ledgerVars
<1>6. pc'[h] = "acted" /\ \A g \in Handlers : g # h => pc'[g] = pc[g]
  BY DEF Act, IInv, TypeOK
<1>7. TypeOK'
  <2>1. pc' \in [Handlers -> {"idle", "insert", "get", "claim", "mark", "run", "acted", "settle"}]
    BY DEF Act, IInv, TypeOK
  <2>2. \A g \in Handlers : pc'[g] # "idle" => req'[g] \in Request
    BY <1>1, <1>5, <1>6 DEF IInv, TypeOK
  <2>3. QED
    BY <1>4, <1>5, <2>1, <2>2 DEF IInv, TypeOK
<1>8. \A g \in Handlers : Running(g)' <=> Running(g)
  BY <1>1, <1>6 DEF Running
<1>9. \A g \in Handlers : Op(g)' = Op(g)
  BY <1>5 DEF Op
<1>10. OneHandlerPerOperation'
  BY <1>8, <1>9 DEF IInv, OneHandlerPerOperation
<1>11. EffectAtMostOnce'
  BY <1>4 DEF IInv, EffectAtMostOnce
<1>12. log[o] \in Record /\ (log[o].status = "orphaned" \/ Executing(log[o]))
  BY <1>2 DEF HoldsRecord
<1>13. RecordTellsTruth'
  BY <1>4, <1>5, <1>12 DEF IInv, RecordTellsTruth, Executing, Awaiting
<1>14. ConfirmedRunsWhatWasAsked'
  BY <1>1, <1>5, <1>6, <1>9 DEF IInv, ConfirmedRunsWhatWasAsked
<1>15. RunnerHoldsRecord'
  BY <1>5, <1>8, <1>9 DEF IInv, RunnerHoldsRecord, HoldsRecord
<1>16. ProgressMatchesEffect'
  <2>1. ASSUME NEW g \in Handlers, g # h PROVE Progress(g)'
    <3>1. Progress(g) /\ (pc[g] \in {"run", "acted", "settle"} => Op(g) # o /\ Op(g) \in Ops)
      BY <1>2, <2>1, OpInOps, TypeOKSplits DEF IInv, ProgressMatchesEffect, Running
    <3>2. QED
      BY <1>4, <1>5, <1>6, <1>9, <2>1, <3>1 DEF Progress
  <2>2. Progress(h)'
    BY <1>1, <1>4, <1>5, <1>6, <1>9 DEF Progress
  <2>3. QED
    BY <2>1, <2>2 DEF ProgressMatchesEffect
<1>17. NoRecordNoEffect'
  BY <1>4, <1>5, <1>12, NoRecordIsNoRecord DEF IInv, NoRecordNoEffect
<1>18. AwaitingHoldsWhatWasAsked'
  BY <1>5 DEF IInv, AwaitingHoldsWhatWasAsked
<1>19. ObservationBinds'
  BY <1>5, <1>6, <1>9 DEF IInv, ObservationBinds, Binds, Closed
<1>20. AnswersRestOnRecords'
  BY <1>5 DEF IInv, AnswersRestOnRecords, Rests, Closed
<1>21. QED
  BY <1>7, <1>10, <1>11, <1>13, <1>14, <1>15, <1>16, <1>17, <1>18, <1>19, <1>20 DEF IInv

LEMMA ReturnPreserves ==
  ASSUME IInv, NEW h \in Handlers, NEW r \in Outcomes, Return(h, r)
  PROVE  IInv'
<1>1. Running(h)
  BY DEF Return, Running
<1>2. UNCHANGED <<now, log, effects, asked, answers, req, seen, verdict, round>>
  BY DEF Return, ledgerVars, worldVars
<1>3. /\ pc'[h] = "settle" /\ outcome'[h] = r
      /\ \A g \in Handlers : g # h => pc'[g] = pc[g] /\ outcome'[g] = outcome[g]
  BY DEF Return, IInv, TypeOK
<1>4. TypeOK'
  <2>1. pc' \in [Handlers -> {"idle", "insert", "get", "claim", "mark", "run", "acted", "settle"}]
    BY DEF Return, IInv, TypeOK
  <2>2. outcome' \in [Handlers -> Outcomes \union {""}]
    BY DEF Return, IInv, TypeOK
  <2>3. \A g \in Handlers : pc'[g] # "idle" => req'[g] \in Request
    BY <1>1, <1>2, <1>3 DEF IInv, TypeOK, Running
  <2>4. QED
    BY <1>2, <2>1, <2>2, <2>3 DEF IInv, TypeOK
<1>5. \A g \in Handlers : (Running(g)' <=> Running(g)) /\ Op(g)' = Op(g)
  BY <1>1, <1>2, <1>3 DEF Running, Op
<1>6. OneHandlerPerOperation'
  BY <1>5 DEF IInv, OneHandlerPerOperation
<1>7. EffectAtMostOnce' /\ RecordTellsTruth' /\ NoRecordNoEffect' /\ AwaitingHoldsWhatWasAsked'
  BY <1>2 DEF IInv, EffectAtMostOnce, RecordTellsTruth, NoRecordNoEffect, AwaitingHoldsWhatWasAsked
<1>8. ConfirmedRunsWhatWasAsked'
  BY <1>2, <1>3, <1>5 DEF IInv, ConfirmedRunsWhatWasAsked
<1>9. RunnerHoldsRecord'
  BY <1>2, <1>5 DEF IInv, RunnerHoldsRecord, HoldsRecord
<1>10. ProgressMatchesEffect'
  <2>1. ASSUME NEW g \in Handlers, g # h PROVE Progress(g)'
    BY <1>2, <1>3, <1>5, <2>1 DEF IInv, ProgressMatchesEffect, Progress
  <2>2. Progress(h)'
    <3>1. Progress(h)
      BY DEF IInv, ProgressMatchesEffect
    <3>2. CASE pc[h] = "run" /\ r # "ok"
      BY <1>2, <1>3, <1>5, <3>1, <3>2 DEF Progress
    <3>3. CASE pc[h] = "run" /\ r = "ok" /\ ~MayAct(req[h])
      BY <1>2, <1>3, <1>5, <3>1, <3>3 DEF Progress
    <3>4. CASE pc[h] = "acted" /\ r \in {"ok", "uncertain"}
      BY <1>2, <1>3, <1>5, <3>1, <3>4 DEF Progress
    <3>5. QED
      BY <3>2, <3>3, <3>4 DEF Return
  <2>3. QED
    BY <2>1, <2>2 DEF ProgressMatchesEffect
<1>11. ObservationBinds'
  BY <1>2, <1>3, <1>5 DEF IInv, ObservationBinds, Binds, Closed
<1>12. AnswersRestOnRecords'
  BY <1>2 DEF IInv, AnswersRestOnRecords, Rests, Closed
<1>13. QED
  BY <1>4, <1>6, <1>7, <1>8, <1>9, <1>10, <1>11, <1>12 DEF IInv

LEMMA SettlePreserves ==
  ASSUME IInv, NEW h \in Handlers, SettleRecord(h)
  PROVE  IInv'
<1> DEFINE o == Op(h)
           s == Result(h)
<1>1. Running(h) /\ pc[h] = "settle"
  BY DEF SettleRecord, Running
<1>2. /\ req[h] \in Request /\ o \in Ops /\ HoldsRecord(h) /\ ~Closed(o)
      /\ \A g \in Handlers : g # h /\ Running(g) => Op(g) # o
  BY <1>1, RunnerAlone
<1>3. HandlerTypeOK' /\ OthersStay(h) /\ pc'[h] = "idle"
  BY GoIdleStep, TypeOKSplits DEF SettleRecord, IInv
<1>4. UNCHANGED <<now, effects, answers>>
  BY DEF SettleRecord
<1>5. log[o] \in Record /\ now \in Nat
  BY <1>2 DEF HoldsRecord, IInv, TypeOK
<1>6. Settleable(h)
  BY <1>2, NoRecordIsNoRecord DEF HoldsRecord, Settleable, CanSettle
<1>7. /\ log' = [log EXCEPT ![o] = Settled(@, s, now)]
      /\ asked' = IF s.phase = "awaiting" THEN [asked EXCEPT ![o] = {req[h].params}] ELSE asked
  BY <1>6 DEF SettleRecord
<1>8. /\ log'[o] = Settled(log[o], s, now)
      /\ \A op \in Ops : op # o => log'[op] = log[op]
  BY <1>2, <1>7 DEF IInv, TypeOK
<1>9. /\ outcome[h] \in Outcomes
      /\ outcome[h] \notin {"ok", "uncertain"} => effects[o] = 0
      /\ outcome[h] = "ok" => effects[o] = IF MayAct(req[h]) THEN 1 ELSE 0
  BY <1>1 DEF IInv, ProgressMatchesEffect, Progress
<1>10. req[h].confirmed \in BOOLEAN /\ (o \in RequireConfirm) \in BOOLEAN
  BY <1>2 DEF Request
<1>11. /\ s.status \in {"accepted", "done", "failed", "orphaned"}
       /\ s.phase \in Phases
       /\ s.phase = "awaiting" <=> s.status = "accepted"
       /\ s.phase = "awaiting" => \/ outcome[h] \in {"need_confirm", "need_slot"}
                                  \/ outcome[h] = "ok" /\ o \in RequireConfirm /\ ~req[h].confirmed
       /\ s.status = "failed" => outcome[h] \in {"refused", "rejected", "failed"}
       /\ s.status = "done" => outcome[h] = "ok" /\ (req[h].confirmed \/ ~(o \in RequireConfirm))
  <2>1. SoundSettlement(s, outcome[h], o \in RequireConfirm, req[h].confirmed)
    BY <1>9, <1>10, SettleSound DEF Result
  <2>2. QED
    BY <2>1 DEF SoundSettlement
<1>12. /\ s.status \in {"accepted", "failed"} => effects[o] = 0
       /\ s.status = "done" => effects[o] = 1
  BY <1>9, <1>11 DEF MayAct, Op
<1>13. /\ log'[o] \in Record
       /\ log'[o].status = s.status /\ log'[o].phase = s.phase
       /\ log'[o].params = log[o].params
  <2>1. now + AwaitTtl \in Nat
    BY <1>5, AwaitTtlAssumption
  <2>2. s.status \in Statuses
    BY <1>11 DEF Statuses
  <2>3. log[o].expires \in Nat
    BY <1>5 DEF Record
  <2>4. QED
    BY <1>5, <1>8, <1>11, <2>1, <2>2, <2>3 DEF Settled, Record
<1>14. log'[o] # NoRecord
  BY <1>13, NoRecordIsNoRecord
<1>15. /\ asked' \in [Ops -> SUBSET Params]
       /\ \A op \in Ops : op # o => asked'[op] = asked[op]
       /\ s.phase = "awaiting" => asked'[o] = {req[h].params}
  <2>1. req[h].params \in Params
    BY <1>2 DEF Request
  <2>2. asked \in [Ops -> SUBSET Params]
    BY DEF IInv, TypeOK
  <2>3. QED
    BY <1>2, <1>7, <2>1, <2>2
<1>16. TypeOK'
  <2>1. log' \in [Ops -> Record \union {NoRecord}]
    BY <1>7, <1>8, <1>13 DEF IInv, TypeOK
  <2>2. QED
    BY <1>3, <1>4, <1>15, <2>1 DEF IInv, TypeOK, HandlerTypeOK
<1>17. ASSUME NEW g \in Handlers, g # h
       PROVE  /\ pc'[g] = pc[g] /\ req'[g] = req[g] /\ seen'[g] = seen[g]
              /\ verdict'[g] = verdict[g] /\ outcome'[g] = outcome[g]
  BY <1>3, <1>17 DEF OthersStay
<1>18. ASSUME NEW g \in Handlers, Running(g)'
       PROVE  g # h /\ Running(g) /\ Op(g)' = Op(g) /\ Op(g) \in Ops /\ Op(g) # o
  <2>1. g # h
    BY <1>3, <1>18 DEF Running
  <2>2. Running(g) /\ Op(g)' = Op(g)
    BY <1>17, <1>18, <2>1 DEF Running, Op
  <2>3. QED
    BY <1>2, <2>1, <2>2, OpInOps, TypeOKSplits DEF IInv, Running
<1>19. OneHandlerPerOperation'
  BY <1>18 DEF IInv, OneHandlerPerOperation
<1>20. EffectAtMostOnce'
  BY <1>4 DEF IInv, EffectAtMostOnce
<1>21. RecordTellsTruth'
  <2>1. ASSUME NEW op \in Ops, op # o
        PROVE  /\ log'[op].status = "done" => effects'[op] = 1
               /\ log'[op].status \in {"failed", "cancelled"} => effects'[op] = 0
               /\ log'[op] # NoRecord /\ Awaiting(log'[op]) => effects'[op] = 0
    BY <1>4, <1>8, <2>1 DEF IInv, RecordTellsTruth
  <2>2. /\ log'[o].status = "done" => effects'[o] = 1
        /\ log'[o].status \in {"failed", "cancelled"} => effects'[o] = 0
        /\ log'[o] # NoRecord /\ Awaiting(log'[o]) => effects'[o] = 0
    BY <1>4, <1>11, <1>12, <1>13 DEF Awaiting
  <2>3. QED
    BY <2>1, <2>2 DEF RecordTellsTruth
<1>22. ConfirmedRunsWhatWasAsked'
  <2>1. ASSUME NEW g \in Handlers, pc'[g] \in {"run", "acted"}, req'[g].confirmed
        PROVE  asked'[Op(g)'] \subseteq {req'[g].params}
    <3>1. Running(g)'
      BY <2>1 DEF Running
    <3>2. g # h /\ asked'[Op(g)'] = asked[Op(g)]
      BY <1>15, <1>18, <3>1
    <3>3. QED
      BY <1>17, <2>1, <3>2 DEF IInv, ConfirmedRunsWhatWasAsked
  <2>2. QED
    BY <2>1 DEF ConfirmedRunsWhatWasAsked, Op
<1>23. RunnerHoldsRecord'
  <2>1. ASSUME NEW g \in Handlers, Running(g)'
        PROVE  HoldsRecord(g)'
    <3>1. HoldsRecord(g) /\ log'[Op(g)'] = log[Op(g)] /\ req'[g] = req[g]
      BY <1>8, <1>17, <1>18, <2>1 DEF IInv, RunnerHoldsRecord
    <3>2. QED
      BY <3>1 DEF HoldsRecord
  <2>2. QED
    BY <2>1 DEF RunnerHoldsRecord
<1>24. ProgressMatchesEffect'
  <2>1. ASSUME NEW g \in Handlers, g # h PROVE Progress(g)'
    BY <1>4, <1>17, <2>1 DEF IInv, ProgressMatchesEffect, Progress, Op
  <2>2. Progress(h)'
    BY <1>3 DEF Progress
  <2>3. QED
    BY <2>1, <2>2 DEF ProgressMatchesEffect
<1>25. NoRecordNoEffect'
  BY <1>4, <1>8, <1>14, <1>15 DEF IInv, NoRecordNoEffect
<1>26. AwaitingHoldsWhatWasAsked'
  <2>1. Awaiting(log'[o]) => asked'[o] = {log'[o].params}
    BY <1>2, <1>13, <1>15 DEF Awaiting, HoldsRecord, SameBinding
  <2>2. QED
    BY <1>8, <1>15, <2>1 DEF IInv, AwaitingHoldsWhatWasAsked
<1>27. ASSUME NEW op \in Ops, Closed(op) PROVE Closed(op)'
  BY <1>2, <1>4, <1>8, <1>27 DEF Closed
<1>28. ObservationBinds'
  <2>1. ASSUME NEW g \in Handlers, g # h PROVE Binds(g)'
    <3>1. Binds(g) /\ Op(g)' = Op(g)
      BY <1>17, <2>1 DEF IInv, ObservationBinds, Op
    <3>2. pc[g] = "mark" => Op(g) \in Ops
      BY OpInOps, TypeOKSplits DEF IInv
    <3>3. QED
      BY <1>17, <1>27, <2>1, <3>1, <3>2 DEF Binds
  <2>2. Binds(h)'
    BY <1>3 DEF Binds
  <2>3. QED
    BY <2>1, <2>2 DEF ObservationBinds
<1>29. AnswersRestOnRecords'
  <2>1. ASSUME NEW a \in answers PROVE Rests(a)'
    <3>1. Rests(a) /\ a.op \in Ops
      BY <2>1 DEF IInv, AnswersRestOnRecords, TypeOK, Answer
    <3>2. log[o].status \notin {"done", "failed"}
      BY <1>2 DEF HoldsRecord, Executing
    <3>3. QED
      BY <1>8, <1>27, <3>1, <3>2 DEF Rests
  <2>2. QED
    BY <1>4, <2>1 DEF AnswersRestOnRecords
<1>30. QED
  BY <1>16, <1>19, <1>20, <1>21, <1>22, <1>23, <1>24, <1>25, <1>26, <1>28, <1>29 DEF IInv

LEMMA TickPreserves ==
  ASSUME IInv, Tick
  PROVE  IInv'
<1>1. now' = now + 1 /\ now \in Nat
  BY DEF Tick, IInv, TypeOK
<1>2. UNCHANGED <<log, pc, req, seen, verdict, round, outcome, effects, asked, answers>>
  BY DEF Tick, handlerVars, worldVars
<1>3. TypeOK'
  <2>1. now' \in Nat
    BY <1>1
  <2>2. QED
    BY <1>2, <2>1 DEF IInv, TypeOK
<1>4. ASSUME NEW op, Closed(op) PROVE Closed(op)'
  <2>1. log[op].expires \in Nat
    BY <1>4 DEF Closed, Record
  <2>2. QED
    BY <1>1, <1>2, <1>4, <2>1 DEF Closed, AwaitingExpired
<1>5. \A g \in Handlers : (Running(g)' <=> Running(g)) /\ Op(g)' = Op(g)
  BY <1>2 DEF Running, Op
<1>6. OneHandlerPerOperation' /\ EffectAtMostOnce' /\ RecordTellsTruth'
  BY <1>2, <1>5 DEF IInv, OneHandlerPerOperation, EffectAtMostOnce, RecordTellsTruth
<1>7. ConfirmedRunsWhatWasAsked'
  BY <1>2, <1>5 DEF IInv, ConfirmedRunsWhatWasAsked
<1>8. RunnerHoldsRecord'
  BY <1>2, <1>5 DEF IInv, RunnerHoldsRecord, HoldsRecord
<1>9. ProgressMatchesEffect'
  BY <1>2, <1>5 DEF IInv, ProgressMatchesEffect, Progress
<1>10. NoRecordNoEffect' /\ AwaitingHoldsWhatWasAsked'
  BY <1>2 DEF IInv, NoRecordNoEffect, AwaitingHoldsWhatWasAsked
<1>11. ObservationBinds'
  <2>1. ASSUME NEW g \in Handlers PROVE Binds(g)'
    <3>1. Binds(g)
      BY DEF IInv, ObservationBinds
    <3>2. QED
      BY <1>2, <1>4, <1>5, <3>1 DEF Binds
  <2>2. QED
    BY <2>1 DEF ObservationBinds
<1>12. AnswersRestOnRecords'
  <2>1. ASSUME NEW a \in answers PROVE Rests(a)'
    <3>1. Rests(a)
      BY <2>1 DEF IInv, AnswersRestOnRecords
    <3>2. QED
      BY <1>2, <1>4, <3>1 DEF Rests
  <2>2. QED
    BY <1>2, <2>1 DEF AnswersRestOnRecords
<1>13. QED
  BY <1>3, <1>6, <1>7, <1>8, <1>9, <1>10, <1>11, <1>12 DEF IInv

LEMMA StutterPreserves ==
  ASSUME IInv, UNCHANGED vars
  PROVE  IInv'
<1>1. UNCHANGED <<now, log, pc, req, seen, verdict, round, outcome, effects, asked, answers>>
  BY DEF vars, ledgerVars, handlerVars, worldVars
<1>2. \A g \in Handlers : (Running(g)' <=> Running(g)) /\ Op(g)' = Op(g)
  BY <1>1 DEF Running, Op
<1>3. TypeOK'
  BY <1>1 DEF IInv, TypeOK
<1>4. OneHandlerPerOperation' /\ EffectAtMostOnce' /\ RecordTellsTruth'
  BY <1>1, <1>2 DEF IInv, OneHandlerPerOperation, EffectAtMostOnce, RecordTellsTruth
<1>5. ConfirmedRunsWhatWasAsked' /\ NoRecordNoEffect' /\ AwaitingHoldsWhatWasAsked'
  BY <1>1, <1>2 DEF IInv, ConfirmedRunsWhatWasAsked, NoRecordNoEffect, AwaitingHoldsWhatWasAsked
<1>6. RunnerHoldsRecord' /\ ProgressMatchesEffect'
  BY <1>1, <1>2 DEF IInv, RunnerHoldsRecord, HoldsRecord, ProgressMatchesEffect, Progress
<1>7. ObservationBinds' /\ AnswersRestOnRecords'
  BY <1>1, <1>2 DEF IInv, ObservationBinds, Binds, Closed, AnswersRestOnRecords, Rests
<1>8. QED
  BY <1>3, <1>4, <1>5, <1>6, <1>7 DEF IInv

LEMMA NextPreserves ==
  ASSUME IInv, [Next]_vars
  PROVE  IInv'
<1>1. CASE Tick
  BY <1>1, TickPreserves
<1>2. ASSUME NEW h \in Handlers, HandlerStep(h)
      PROVE  IInv'
  BY <1>2, ReceivePreserves, InsertPreserves, GetPreserves, ClaimPreserves, MarkPreserves,
     StoreFailsPreserves, ActPreserves, ReturnPreserves, SettlePreserves, VanishPreserves
     DEF HandlerStep
<1>3. CASE UNCHANGED vars
  BY <1>3, StutterPreserves
<1>4. QED
  BY <1>1, <1>2, <1>3 DEF Next

LEMMA InitEstablishes == Init => IInv
<1> SUFFICES ASSUME Init PROVE IInv
  OBVIOUS
<1>1. NoVerdict \in Verdicts
  BY DEF NoVerdict, Decision, Verdicts
<1>2. TypeOK
  <2>1. round \in [Handlers -> 0 .. Rounds]
    <3>1. 0 \in 0 .. Rounds
      BY DEF Rounds
    <3>2. QED
      BY <3>1 DEF Init
  <2>2. QED
    BY <1>1, <2>1 DEF Init, TypeOK
<1>3. OneHandlerPerOperation /\ ConfirmedRunsWhatWasAsked /\ RunnerHoldsRecord
  BY DEF Init, OneHandlerPerOperation, ConfirmedRunsWhatWasAsked, RunnerHoldsRecord, Running
<1>4. ProgressMatchesEffect /\ ObservationBinds
  BY DEF Init, ProgressMatchesEffect, Progress, ObservationBinds, Binds
<1>5. \A op \in Ops : log[op] = NoRecord /\ effects[op] = 0 /\ asked[op] = {}
  BY DEF Init
<1>6. EffectAtMostOnce /\ NoRecordNoEffect /\ AwaitingHoldsWhatWasAsked /\ RecordTellsTruth
  <2>1. NoRecord.status = "none"
    BY DEF NoRecord
  <2>2. EffectAtMostOnce /\ NoRecordNoEffect
    BY <1>5 DEF EffectAtMostOnce, NoRecordNoEffect
  <2>3. AwaitingHoldsWhatWasAsked
    BY <1>5 DEF AwaitingHoldsWhatWasAsked
  <2>4. RecordTellsTruth
    BY <1>5, <2>1 DEF RecordTellsTruth
  <2>5. QED
    BY <2>2, <2>3, <2>4
<1>7. AnswersRestOnRecords
  BY DEF Init, AnswersRestOnRecords
<1>8. QED
  BY <1>2, <1>3, <1>4, <1>6, <1>7 DEF IInv

------------------------------------------------------------------------------
(* The theorems                                                            *)

\* IInv holds in every reachable state.
THEOREM InductiveInvariant == Spec => []IInv
<1>1. Init => IInv
  BY InitEstablishes
<1>2. IInv /\ [Next]_vars => IInv'
  BY NextPreserves
<1>3. QED
  BY <1>1, <1>2, PTL DEF Spec

\* Every variable keeps its type.
THEOREM TypeCorrect == Spec => []TypeOK
<1>1. IInv => TypeOK
  BY DEF IInv
<1>2. QED
  BY <1>1, InductiveInvariant, PTL

\* No two business handlers ever run one operation at the same time.
THEOREM NeverTwoHandlers == Spec => []OneHandlerPerOperation
<1>1. IInv => OneHandlerPerOperation
  BY DEF IInv
<1>2. QED
  BY <1>1, InductiveInvariant, PTL

\* The side effect of an operation happens at most once.
THEOREM NeverTwice == Spec => []EffectAtMostOnce
<1>1. IInv => EffectAtMostOnce
  BY DEF IInv
<1>2. QED
  BY <1>1, InductiveInvariant, PTL

\* The ledger never says done of what did not happen, nor failed, cancelled
\* or waiting of what did.
THEOREM LedgerTruthful == Spec => []RecordTellsTruth
<1>1. IInv => RecordTellsTruth
  BY DEF IInv
<1>2. QED
  BY <1>1, InductiveInvariant, PTL

\* A confirmed call runs only with the parameters the user was asked about.
THEOREM ConfirmationBinds == Spec => []ConfirmedRunsWhatWasAsked
<1>1. IInv => ConfirmedRunsWhatWasAsked
  BY DEF IInv
<1>2. QED
  BY <1>1, InductiveInvariant, PTL

\* What a refused caller was told stays true, because it rests on a record
\* that can no longer move.
THEOREM AnswersTruthful == Spec => []AnswersStayTrue
<1>1. ASSUME IInv PROVE AnswersStayTrue
  <2>1. ASSUME NEW a \in answers
        PROVE  /\ a.kind = "expired" \/ (a.kind = "duplicate" /\ a.status = "failed")
                    => effects[a.op] = 0
               /\ a.kind = "duplicate" /\ a.status = "done" => effects[a.op] = 1
    <3>1. Rests(a) /\ a.op \in Ops
      BY <1>1, <2>1 DEF IInv, AnswersRestOnRecords, TypeOK, Answer
    <3>2. Closed(a.op) => effects[a.op] = 0
      BY <1>1, <3>1, NoRecordIsNoRecord DEF IInv, Closed, RecordTellsTruth
    <3>3. /\ log[a.op].status = "failed" => effects[a.op] = 0
          /\ log[a.op].status = "done" => effects[a.op] = 1
      BY <1>1, <3>1 DEF IInv, RecordTellsTruth
    <3>4. QED
      BY <3>1, <3>2, <3>3 DEF Rests
  <2>2. QED
    BY <2>1 DEF AnswersStayTrue
<1>2. QED
  BY <1>1, InductiveInvariant, PTL

------------------------------------------------------------------------------
(* What one handler's step may do to the ledger and to the answers.        *)

Definite(op) == log[op].status \in {"done", "failed", "cancelled"}

LEMMA WriteIsLocal ==
  ASSUME NEW f, NEW o \in Ops, NEW v, log \in [Ops -> f], log' = [log EXCEPT ![o] = v],
         ~Definite(o)
  PROVE  /\ \A op \in Ops : op # o => log'[op] = log[op]
         /\ \A op \in Ops : Definite(op) => log'[op] = log[op]
BY DEF Definite

LEMMA TellIsLocal ==
  ASSUME NEW h \in Handlers, NEW k, NEW st, Tell(h, k, st)
  PROVE  answers \subseteq answers' /\ \A a \in answers' : a \in answers \/ a.op = Op(h)
BY DEF Tell

LEMMA LedgerStepLocal ==
  ASSUME IInv, NEW h \in Handlers, HandlerStep(h)
  PROVE  /\ \A op \in Ops : op # Op(h) => log'[op] = log[op]
         /\ \A op \in Ops : Definite(op) => log'[op] = log[op]
<1>1. log \in [Ops -> Record \union {NoRecord}] /\ (pc[h] # "idle" => Op(h) \in Ops)
  BY OpInOps, TypeOKSplits DEF IInv
<1>2. log[Op(h)] = NoRecord => ~Definite(Op(h))
  BY DEF Definite, NoRecord
<1>3. Awaiting(log[Op(h)]) \/ Executing(log[Op(h)]) => ~Definite(Op(h))
  BY DEF Definite, Awaiting, Executing
<1>4. CASE log' = log
  BY <1>4
<1>5. CASE pc[h] = "insert" /\ log[Op(h)] = NoRecord /\ InsertWrite(h)
  BY <1>1, <1>2, <1>5, WriteIsLocal DEF InsertWrite
<1>6. CASE pc[h] = "claim" /\ Claimable(h) /\ ClaimWrite(h)
  BY <1>1, <1>3, <1>6, WriteIsLocal, ClaimIsSafe DEF ClaimWrite
<1>7. CASE pc[h] = "mark" /\ Markable(h) /\ MarkWrite(h)
  <2>1. log' = [log EXCEPT ![Op(h)] = [log[Op(h)] EXCEPT !.status = verdict[h].mark]]
    BY <1>7 DEF MarkWrite
  <2>2. ~Definite(Op(h))
    BY <1>3, <1>7, MarkIsSafe
  <2>3. QED
    BY <1>1, <1>7, <2>1, <2>2, WriteIsLocal
<1>8. CASE SettleRecord(h) /\ Settleable(h)
  <2>1. log' = [log EXCEPT ![Op(h)] = Settled(log[Op(h)], Result(h), now)]
    BY <1>8 DEF SettleRecord
  <2>2. ~Definite(Op(h))
    BY <1>8 DEF Settleable, CanSettle, Executing, Definite
  <2>3. QED
    BY <1>1, <1>8, <2>1, <2>2, WriteIsLocal DEF SettleRecord
<1>9. QED
  <2>1. CASE \E r \in Request : Receive(h, r)
    BY <1>4, <2>1 DEF Receive, ledgerVars
  <2>2. CASE Insert(h)
    BY <1>4, <1>5, <2>2 DEF Insert
  <2>3. CASE Get(h)
    BY <1>4, <2>3 DEF Get, ledgerVars
  <2>4. CASE ClaimRecord(h)
    BY <1>4, <1>6, <2>4 DEF ClaimRecord
  <2>5. CASE MarkRecord(h)
    BY <1>4, <1>7, <2>5 DEF MarkRecord, MarkWrite
  <2>6. CASE StoreFails(h)
    BY <1>4, <1>5, <1>6, <1>7, <2>6 DEF StoreFails
  <2>7. CASE Act(h)
    BY <1>4, <2>7 DEF Act, ledgerVars
  <2>8. CASE \E o \in Outcomes : Return(h, o)
    BY <1>4, <2>8 DEF Return, ledgerVars
  <2>9. CASE SettleRecord(h)
    BY <1>4, <1>8, <2>9 DEF SettleRecord
  <2>10. CASE Vanish(h)
    BY <1>4, <2>10 DEF Vanish, ledgerVars
  <2>11. QED
    BY <2>1, <2>2, <2>3, <2>4, <2>5, <2>6, <2>7, <2>8, <2>9, <2>10 DEF HandlerStep

LEMMA AnswersStepLocal ==
  ASSUME NEW h \in Handlers, HandlerStep(h)
  PROVE  answers \subseteq answers' /\ \A a \in answers' : a \in answers \/ a.op = Op(h)
<1>1. CASE answers' = answers
  BY <1>1
<1>2. ASSUME NEW k, NEW st, Tell(h, k, st)
      PROVE  answers \subseteq answers' /\ \A a \in answers' : a \in answers \/ a.op = Op(h)
  BY <1>2, TellIsLocal
<1>3. CASE NextRound(h)
  BY <1>1, <1>2, <1>3 DEF NextRound
<1>4. CASE Run(h)
  BY <1>1, <1>4 DEF Run
<1>5. CASE (\E r \in Request : Receive(h, r)) \/ Act(h) \/ (\E o \in Outcomes : Return(h, o))
           \/ SettleRecord(h) \/ Vanish(h)
  BY <1>1, <1>5 DEF Receive, Act, Return, SettleRecord, Vanish, worldVars
<1>6. CASE Insert(h) \/ ClaimRecord(h)
  BY <1>3, <1>4, <1>6 DEF Insert, ClaimRecord
<1>7. CASE Get(h)
  BY <1>1, <1>2, <1>7 DEF Get
<1>8. CASE MarkRecord(h)
  BY <1>2, <1>8 DEF MarkRecord
<1>9. CASE StoreFails(h)
  BY <1>2, <1>9 DEF StoreFails
<1>10. QED
  BY <1>5, <1>6, <1>7, <1>8, <1>9 DEF HandlerStep

\* A record that is done, failed or cancelled is never written again.
THEOREM DefiniteIsFinal == Spec => DefiniteStatusIsFinal
<1>1. ASSUME IInv, [Next]_vars
      PROVE  [\A op \in Ops : log[op].status \in {"done", "failed", "cancelled"}
                                => log'[op] = log[op]]_vars
  <2>1. CASE Tick
    BY <2>1 DEF Tick
  <2>2. ASSUME NEW h \in Handlers, HandlerStep(h)
        PROVE  \A op \in Ops : log[op].status \in {"done", "failed", "cancelled"}
                                 => log'[op] = log[op]
    BY <1>1, <2>2, LedgerStepLocal DEF Definite
  <2>3. QED
    BY <1>1, <2>1, <2>2 DEF Next
<1>2. QED
  BY <1>1, InductiveInvariant, PTL DEF Spec, DefiniteStatusIsFinal

------------------------------------------------------------------------------
(* The gate implements the at-most-once contract.                          *)

LEMMA RunnerNotDisclaimed ==
  ASSUME IInv, NEW h \in Handlers, Running(h)
  PROVE  Op(h) \notin Disclaimed
<1>1. HoldsRecord(h) /\ ~Closed(Op(h))
  BY RunnerAlone
<1>2. log[Op(h)].status \notin {"failed", "cancelled"}
  BY <1>1 DEF HoldsRecord, Executing
<1>3. \A a \in answers : a.kind = "expired" => a.op # Op(h)
  BY <1>1 DEF IInv, AnswersRestOnRecords, Rests
<1>4. QED
  BY <1>2, <1>3 DEF Disclaimed

LEMMA ActExecutes ==
  ASSUME IInv, NEW h \in Handlers, Act(h)
  PROVE  Once!Execute(Op(h)) /\ Op(h) \in Ops
<1>1. Running(h) /\ pc[h] = "run"
  BY DEF Act, Running
<1>2. Op(h) \in Ops /\ Op(h) \notin Disclaimed
  BY <1>1, RunnerAlone, RunnerNotDisclaimed
<1>3. effects[Op(h)] = 0
  BY <1>1 DEF IInv, ProgressMatchesEffect, Progress
<1>4. effects' = [effects EXCEPT ![Op(h)] = 1]
  BY <1>3 DEF Act
<1>5. Disclaimed' = Disclaimed
  BY DEF Act, Disclaimed, ledgerVars
<1>6. QED
  BY <1>2, <1>3, <1>4, <1>5 DEF Once!Execute

(* Any other step of a handler disclaims its own operation, or nothing.    *)
LEMMA OthersDisclaim ==
  ASSUME IInv, IInv', NEW h \in Handlers, HandlerStep(h), effects' = effects
  PROVE  (\E op \in Ops : Once!Disclaim(op)) \/ UNCHANGED Once!vars
<1>1. /\ \A op \in Ops : op # Op(h) => log'[op] = log[op]
      /\ \A op \in Ops : Definite(op) => log'[op] = log[op]
  BY LedgerStepLocal
<1>2. answers \subseteq answers' /\ \A a \in answers' : a \in answers \/ a.op = Op(h)
  BY AnswersStepLocal
<1>3. Disclaimed \subseteq Disclaimed'
  BY <1>1, <1>2 DEF Disclaimed, Definite
<1>4. \A op \in Disclaimed' : op \in Disclaimed \/ op = Op(h)
  BY <1>1, <1>2 DEF Disclaimed
<1>5. CASE Op(h) \in Disclaimed'
  <2>1. Op(h) \in Ops /\ effects'[Op(h)] = 0
    <3>1. ASSUME NEW op \in Disclaimed' PROVE op \in Ops /\ effects'[op] = 0
      <4>1. CASE op \in Ops /\ log'[op].status \in {"failed", "cancelled"}
        BY <4>1 DEF IInv, RecordTellsTruth
      <4>2. CASE \E a \in answers' : a.kind = "expired" /\ a.op = op
        <5>1. PICK a \in answers' : a.kind = "expired" /\ a.op = op
          BY <4>2
        <5>2. op \in Ops /\ Closed(op)'
          BY <5>1 DEF IInv, AnswersRestOnRecords, Rests, TypeOK, Answer
        <5>3. QED
          BY <5>2, NoRecordIsNoRecord DEF IInv, Closed, RecordTellsTruth
      <4>3. QED
        BY <3>1, <4>1, <4>2 DEF Disclaimed
    <3>2. QED
      BY <1>5, <3>1
  <2>2. Disclaimed' = Disclaimed \union {Op(h)}
    BY <1>3, <1>4, <1>5
  <2>3. Once!Disclaim(Op(h))
    BY <2>1, <2>2 DEF Once!Disclaim
  <2>4. QED
    BY <2>1, <2>3
<1>6. CASE Op(h) \notin Disclaimed'
  <2>1. Disclaimed' = Disclaimed
    BY <1>3, <1>4, <1>6
  <2>2. QED
    BY <2>1 DEF Once!vars
<1>7. QED
  BY <1>5, <1>6

LEMMA StepImplements ==
  ASSUME IInv, IInv', [Next]_vars
  PROVE  [Once!Next]_(Once!vars)
<1>1. CASE Tick \/ UNCHANGED vars
  <2>1. log' = log /\ answers' = answers /\ effects' = effects
    BY <1>1 DEF Tick, vars, ledgerVars, worldVars
  <2>2. QED
    BY <2>1 DEF Once!vars, Disclaimed
<1>2. ASSUME NEW h \in Handlers, Act(h) PROVE Once!Next
  BY <1>2, ActExecutes DEF Once!Next
<1>3. ASSUME NEW h \in Handlers, HandlerStep(h), ~Act(h)
      PROVE  [Once!Next]_(Once!vars)
  <2>1. effects' = effects
    BY <1>3 DEF HandlerStep, Receive, Insert, Get, ClaimRecord, MarkRecord, StoreFails, Return,
       SettleRecord, Vanish, worldVars
  <2>2. QED
    BY <1>3, <2>1, OthersDisclaim DEF Once!Next
<1>4. QED
  BY <1>1, <1>2, <1>3 DEF Next

\* Every behaviour of the gate is a behaviour of the at-most-once contract.
THEOREM GateImplementsOnce == Spec => ImplementsOnce
<1>1. Init => Once!Init
  <2>1. ASSUME Init PROVE Disclaimed = {}
    BY <2>1 DEF Init, Disclaimed, NoRecord
  <2>2. QED
    BY <2>1 DEF Init, Once!Init
<1>2. IInv /\ IInv' /\ [Next]_vars => [Once!Next]_(Once!vars)
  BY StepImplements
<1>3. QED
  BY <1>1, <1>2, InductiveInvariant, PTL DEF Spec, ImplementsOnce, Once!Spec
=============================================================================
