-------------------------- MODULE EdgeRecoveryProofs --------------------------
(***************************************************************************)
(* Any number of operations, any delays within the assumed limits: the     *)
(* vehicle carries an operation out at most once, and what was said about  *)
(* it stays true.                                                          *)
(*                                                                         *)
(* The argument turns on one stable predicate, CannotRun: the log holds a  *)
(* record that blocks every frame, or the record is gone and so is every   *)
(* frame and everybody who could send one.  That a record is not purged    *)
(* before is a matter of times: Kept bounds everything the cloud may still *)
(* do by the time the record was last touched.                             *)
(***************************************************************************)
EXTENDS EdgeRecovery, OperationContractProofs

(***************************************************************************)
(* The inductive invariant, one operation at a time.                       *)
(***************************************************************************)
\* The vehicle is serving a call of op.
InHand(op) == serving # Nobody /\ serving.call.op = op

\* The step is over and no frame of it will arrive.
Stopped(op) ==
  step[op].stage = "ended" /\ \A f \in calls : f.op = op => ~Deliverable(f)

\* Nobody asks about the operation, or will.
Unasked(op) == asks[op] = NoAsk /\ (notes[op].status = "checking" => Overdue(op))

\* No step of the system can carry op out any more.
CannotRun(op) ==
  /\ InHand(op) => serving.acted
  /\ elog[op] = NoRecord => Stopped(op)
  /\ Awaiting(elog[op]) => AwaitingExpired(elog[op], now)

Void(op) == effects[op] = 0 /\ CannotRun(op)

\* What ran is not run again, and nobody asks when its record is gone.
RunsOnce(op) ==
  /\ effects[op] <= 1
  /\ effects[op] # 0 => CannotRun(op)
  /\ effects[op] # 0 /\ elog[op] = NoRecord => Unasked(op)

\* The log says what happened.
LogTrue(op) ==
  /\ elog[op].status = "done" => effects[op] = 1
  /\ elog[op].status \in {"failed", "cancelled"} \/ Awaiting(elog[op]) => effects[op] = 0

\* A call is served under its executing record.
ServedTrue(op) ==
  InHand(op) =>
    /\ Executing(elog[op])
    /\ serving.acted => MayAct(serving.call) /\ effects[op] = 1
    /\ step[op].stage # "new" /\ serving.call.attempt <= step[op].attempt

\* So do the answers on their way and those the cloud has not looked at yet.
AnswerTrue(op, answer) ==
  /\ answer \in {"done", "executed"} => effects[op] = 1
  /\ answer \in {"failed", "cancelled", "not_executed"} => Void(op)

AnswersTrue(op) ==
  /\ \A r \in replies : r.op = op => AnswerTrue(op, r.kind)
  /\ step[op].stage = "answered" =>
       /\ AnswerTrue(op, step[op].answer)
       /\ step[op].answer = "absent" /\ elog[op] # NoRecord => elog[op].touched >= now
  /\ AnswerTrue(op, asks[op].answer)
  /\ asks[op].answer = "absent" /\ asks[op].at - asks[op].created >= Grace => Void(op)

SaidTrue(op) ==
  /\ Said(op, "executed") => effects[op] = 1
  /\ Said(op, "failed") \/ Said(op, "not_executed") => Void(op)

\* A channel is open while the dispatch it belongs to waits.
Channels(op) ==
  \A c \in open \union replies :
    c.op = op => step[op].stage = "waiting" /\ c.attempt = step[op].attempt

\* A step is untouched until it starts, and over when its record is made.
Stages(op) ==
  /\ step[op].stage = "new" => elog[op] = NoRecord
  /\ notes[op] # NoNote \/ asks[op] # NoAsk => step[op].stage = "ended"

\* No wait is longer than its limit, and none is overrun.
Timers(op) ==
  /\ step[op].stage \in {"waiting", "asking", "answered", "pending"} => now <= step[op].deadline
  /\ step[op].stage = "waiting" => step[op].deadline <= now + StepBudget
  /\ step[op].stage \in {"asking", "answered"} => step[op].deadline <= now + QueryTimeout
  /\ step[op].stage = "pending" => step[op].deadline <= now + PendingTtl
  /\ notes[op] # NoNote => notes[op].created <= now
  /\ asks[op] # NoAsk =>
       asks[op].created <= asks[op].at /\ asks[op].at <= now /\ now <= asks[op].at + QueryTimeout

\* Every frame left before its step went on to the next stage.
FrameTimes(op) ==
  \A f \in calls : f.op = op =>
    /\ f.sent <= now /\ f.attempt <= step[op].attempt /\ step[op].stage # "new"
    /\ step[op].stage = "waiting" => f.sent + StepBudget <= step[op].deadline
    /\ step[op].stage \in {"asking", "answered"} => f.sent + StepBudget <= now
    /\ notes[op] # NoNote => f.sent < notes[op].created
    /\ asks[op] # NoAsk => f.sent < asks[op].created

\* Everything the cloud may still do about op is done by the time `end'.
DoneBy(op, end) ==
  /\ step[op].stage = "waiting" => step[op].deadline + 2 * QueryTimeout + Horizon <= end
  /\ step[op].stage \in {"asking", "answered"} => step[op].deadline + QueryTimeout + Horizon <= end
  /\ step[op].stage = "pending" =>
       /\ step[op].deadline + StepBudget + 2 * QueryTimeout + Horizon <= end
       /\ step[op].deadline + MaxDelay <= end
  /\ \A f \in calls : f.op = op => f.sent + MaxDelay <= end
  /\ notes[op].status = "checking" => notes[op].created + Horizon + QueryTimeout <= end
  /\ asks[op] # NoAsk => asks[op].at + QueryTimeout <= end

\* The vehicle took up the attempt the cloud waits for, so after its dispatch.
Known(op) ==
  \/ \E r \in replies : r.op = op /\ r.kind \in {"need_confirm", "need_slot"}
  \/ InHand(op) /\ step[op].stage = "waiting" /\ serving.call.attempt = step[op].attempt

Kept(op) ==
  elog[op] # NoRecord =>
    /\ DoneBy(op, elog[op].touched + Retention)
    /\ Known(op) => step[op].deadline <= elog[op].touched + StepBudget

OpInv(op) ==
  /\ RunsOnce(op) /\ LogTrue(op) /\ ServedTrue(op) /\ AnswersTrue(op) /\ SaidTrue(op)
  /\ Channels(op) /\ Stages(op) /\ Timers(op) /\ FrameTimes(op) /\ Kept(op)

IInv == TypeOK /\ \A op \in Ops : OpInv(op)

(***************************************************************************)
(* Types.                                                                  *)
(***************************************************************************)
Ask == [at : Nat, created : Nat, answer : EdgeAnswers \union {"waiting"}]

LEMMA Times ==
  /\ StepBudget \in Nat \ {0} /\ PendingTtl \in Nat \ {0} /\ QueryTimeout \in Nat
  /\ Grace \in Nat /\ Horizon \in Nat /\ MaxDelay \in Nat /\ Retention \in Nat
  /\ MaxDelay <= Grace
  /\ Retention >= PendingTtl + 2 * (StepBudget + QueryTimeout) + Horizon
  /\ Retention >= PendingTtl + StepBudget + MaxDelay
BY TimesAssumption, DelayAssumption, KeptAssumption, RetentionAssumption

\* What the type invariant says of one operation.
OpType(op) ==
  /\ elog[op] \in Record \union {NoRecord} /\ effects[op] \in Nat
  /\ step[op] \in Step
  /\ notes[op] \in Note \union {NoNote}
  /\ asks[op] \in Ask \union {NoAsk}

LEMMA OpTypes == ASSUME TypeOK, NEW op \in Ops PROVE OpType(op)
BY DEF TypeOK, OpType, Ask

\* The empty slots are none of the records.
LEMMA EmptySlots ==
  /\ NoNote \notin Note /\ NoAsk \notin Ask /\ NoRecord \notin Record
  /\ NoNote.status = "none" /\ NoAsk.answer = "none" /\ NoRecord.status = "none"
BY NoRecordIsNoRecord
   DEF NoNote, Note, Verdicts, NoAsk, Ask, EdgeAnswers, Statuses, NoRecord, Record

LEMMA RecordTypes ==
  ASSUME TypeOK, NEW op \in Ops
  PROVE  /\ now \in Nat /\ effects[op] \in Nat
         /\ step[op].deadline \in Nat /\ step[op].attempt \in Nat
         /\ elog[op] # NoRecord =>
              elog[op] \in Record /\ elog[op].touched \in Nat /\ elog[op].expires \in Nat
         /\ notes[op] # NoNote => notes[op].created \in Nat
         /\ asks[op] # NoAsk => asks[op].at \in Nat /\ asks[op].created \in Nat
         /\ notes[op].status = "checking" => notes[op] # NoNote
         /\ asks[op].answer # "none" => asks[op] # NoAsk
BY OpTypes, EmptySlots DEF TypeOK, OpType, Record, Step, Note, Ask

LEMMA CallTypes ==
  ASSUME TypeOK
  PROVE  /\ \A f \in calls : f.op \in Ops /\ f.sent \in Nat /\ f.attempt \in Nat
         /\ \A r \in replies : r.op \in Ops /\ r.attempt \in Nat /\ r.kind \in ReplyKinds
         /\ \A c \in open : c.op \in Ops /\ c.attempt \in Nat
         /\ serving # Nobody =>
              /\ serving \in [call : Call, acted : BOOLEAN]
              /\ serving.call \in Call /\ serving.call.op \in Ops
              /\ serving.call.attempt \in Nat /\ serving.acted \in BOOLEAN
BY DEF TypeOK, Frame, Reply, Call

(***************************************************************************)
(* A step that does not concern an operation.                              *)
(***************************************************************************)
Untouched(op) ==
  /\ now' = now /\ elog'[op] = elog[op] /\ effects'[op] = effects[op]
  /\ step'[op] = step[op] /\ notes'[op] = notes[op] /\ asks'[op] = asks[op]
  /\ serving' = serving \/ ~InHand(op)'
  /\ \A f \in calls' : f.op = op => f \in calls
  /\ \A r \in replies' : r.op = op => r \in replies
  /\ \A c \in open' : c.op = op => c \in open
  /\ \A claim \in Claims : Said(op, claim)' => Said(op, claim)

LEMMA UntouchedKept ==
  ASSUME NEW op \in Ops, OpInv(op), Untouched(op)
  PROVE  OpInv(op)'
<1> USE DEF OpInv, Untouched
<1>1. InHand(op)' => InHand(op) /\ serving' = serving
  BY DEF InHand
<1>2. Stopped(op) => Stopped(op)'
  BY DEF Stopped, Deliverable
<1>3. CannotRun(op) => CannotRun(op)'
  BY <1>1, <1>2 DEF CannotRun
<1>4. Void(op) => Void(op)'
  BY <1>3 DEF Void
<1>5. RunsOnce(op)'
  BY <1>3 DEF RunsOnce, Unasked, Overdue
<1>6. LogTrue(op)'
  BY DEF LogTrue
<1>7. ServedTrue(op)'
  BY <1>1 DEF ServedTrue
<1>8. ASSUME NEW answer, AnswerTrue(op, answer) PROVE AnswerTrue(op, answer)'
  BY <1>4, <1>8 DEF AnswerTrue
<1>9. AnswersTrue(op)'
  BY <1>4, <1>8 DEF AnswersTrue
<1>10. SaidTrue(op)'
  BY <1>4 DEF SaidTrue, Claims
<1>11. Channels(op)' /\ Stages(op)' /\ Timers(op)'
  BY DEF Channels, Stages, Timers
<1>12. FrameTimes(op)'
  BY DEF FrameTimes
<1>13. Known(op)' => Known(op)
  BY <1>1 DEF Known
<1>14. Kept(op)'
  BY <1>13 DEF Kept, DoneBy
<1>15. QED
  BY <1>5, <1>6, <1>7, <1>9, <1>10, <1>11, <1>12, <1>14

(***************************************************************************)
(* Purging.  A record is old enough to go only when its step is over, its  *)
(* frames are too late and nobody asks about it any more.                  *)
(***************************************************************************)
Old(op) == elog[op] # NoRecord /\ elog[op].touched < now - Retention

LEMMA OldIsOver ==
  ASSUME IInv, NEW op \in Ops, Old(op)
  PROVE  Stopped(op) /\ Unasked(op)
<1>1. OpInv(op) /\ TypeOK
  BY DEF IInv
<1>2. elog[op] # NoRecord /\ elog[op].touched \in Nat /\ elog[op].touched + Retention < now
  BY <1>1, RecordTypes, Times DEF Old
<1>3. now \in Nat /\ step[op].deadline \in Nat
  BY <1>1, RecordTypes
<1>4. DoneBy(op, elog[op].touched + Retention)
  BY <1>1, <1>2 DEF OpInv, Kept
<1>5. step[op].stage \notin {"waiting", "asking", "answered", "pending"}
  BY <1>1, <1>2, <1>3, <1>4, Times DEF OpInv, Timers, DoneBy
<1>6. step[op].stage = "ended"
  <2>1. step[op].stage # "new"
    BY <1>1, <1>2 DEF OpInv, Stages
  <2>2. QED
    BY <1>1, <1>5, <2>1 DEF TypeOK, Step
<1>7. ASSUME NEW f \in calls, f.op = op PROVE ~Deliverable(f)
  <2>1. f.sent \in Nat /\ f.sent + MaxDelay <= elog[op].touched + Retention
    BY <1>1, <1>4, <1>7, CallTypes DEF DoneBy
  <2>2. QED
    BY <1>2, <1>3, <2>1, Times DEF Deliverable
<1>8. asks[op] = NoAsk
  <2>1. SUFFICES ASSUME asks[op] # NoAsk PROVE FALSE
    OBVIOUS
  <2>2. /\ asks[op].at \in Nat /\ now <= asks[op].at + QueryTimeout
        /\ asks[op].at + QueryTimeout <= elog[op].touched + Retention
    BY <1>1, <1>4, <2>1, RecordTypes DEF OpInv, Timers, DoneBy
  <2>3. QED
    BY <1>2, <1>3, <2>2, Times
<1>9. ASSUME notes[op].status = "checking" PROVE Overdue(op)
  <2>1. /\ notes[op].created \in Nat
        /\ notes[op].created + Horizon + QueryTimeout <= elog[op].touched + Retention
    BY <1>1, <1>4, <1>9, RecordTypes DEF DoneBy
  <2>2. QED
    BY <1>2, <1>3, <2>1, Times DEF Overdue
<1>10. QED
  BY <1>6, <1>7, <1>8, <1>9 DEF Stopped, Unasked

LEMMA PurgedIs ==
  ASSUME TypeOK
  PROVE  /\ Purged \in [Ops -> Record \union {NoRecord}]
         /\ \A op \in Ops : Purged[op] = IF Old(op) THEN NoRecord ELSE elog[op]
BY DEF TypeOK, Purged, Old

\* The record of a frame that can still be delivered is there.
LEMMA FreshRecord ==
  ASSUME IInv, NEW f \in calls, Deliverable(f)
  PROVE  f.op \in Ops /\ ~Old(f.op) /\ Purged[f.op] = elog[f.op]
<1>1. f.op \in Ops
  BY CallTypes DEF IInv
<1>2. ~Old(f.op)
  BY <1>1, OldIsOver DEF Stopped
<1>3. QED
  BY <1>1, <1>2, PurgedIs DEF IInv

(***************************************************************************)
(* A step of the vehicle, seen from one operation: what it must not do.    *)
(***************************************************************************)
LEMMA VehicleKeeps ==
  ASSUME IInv, TypeOK', NEW op \in Ops,
         UNCHANGED <<now, open, step, notes, asks, forgotten, told>>, calls' \subseteq calls,
         CannotRun(op) => CannotRun(op)' /\ effects'[op] = effects[op],
         effects'[op] # effects[op] =>
           effects[op] = 0 /\ effects'[op] = 1 /\ CannotRun(op)' /\ elog'[op] # NoRecord,
         LogTrue(op)', ServedTrue(op)',
         \A r \in replies' : r.op = op =>
           r \in replies \/ (Channel(r) \in open /\ AnswerTrue(op, r.kind)'),
         elog'[op] # NoRecord =>
           \/ elog'[op].touched = now /\ step[op].stage # "new"
           \/ /\ elog[op] # NoRecord /\ elog'[op].touched = elog[op].touched
              /\ Known(op)' => Known(op),
         elog'[op] = NoRecord => elog[op] = NoRecord \/ Old(op)
  PROVE  OpInv(op)'
<1>1. OpInv(op) /\ TypeOK
  BY DEF IInv
<1>2. now \in Nat /\ effects[op] \in Nat /\ effects'[op] \in Nat /\ step[op].deadline \in Nat
  <2>1. effects'[op] \in Nat
    BY DEF TypeOK
  <2>2. QED
    BY <1>1, <2>1, RecordTypes
<1>3. Void(op) => Void(op)'
  BY DEF Void
<1>4. effects[op] = 1 => effects'[op] = 1
  OBVIOUS
<1>5. RunsOnce(op)'
  <2>1. effects'[op] <= 1 /\ (effects'[op] # 0 => CannotRun(op)')
    BY <1>1, <1>2 DEF OpInv, RunsOnce
  <2>2. ASSUME effects'[op] # 0, elog'[op] = NoRecord PROVE Unasked(op)'
    <3>1. Unasked(op) => Unasked(op)'
      BY DEF Unasked, Overdue
    <3>2. CASE Old(op)
      BY <3>1, <3>2, OldIsOver
    <3>3. CASE elog[op] = NoRecord /\ effects[op] # 0
      BY <1>1, <3>1, <3>3 DEF OpInv, RunsOnce
    <3>4. CASE elog[op] = NoRecord /\ effects[op] = 0
      BY <2>2, <3>4
    <3>5. QED
      BY <2>2, <3>2, <3>3, <3>4
  <2>3. QED
    BY <2>1, <2>2 DEF RunsOnce
<1>6. AnswersTrue(op)'
  <2>1. ASSUME NEW answer, AnswerTrue(op, answer) PROVE AnswerTrue(op, answer)'
    BY <1>3, <1>4, <2>1 DEF AnswerTrue
  <2>2. \A r \in replies' : r.op = op => AnswerTrue(op, r.kind)'
    BY <1>1, <2>1 DEF OpInv, AnswersTrue
  <2>3. step[op].stage = "answered" => AnswerTrue(op, step[op].answer)'
    BY <1>1, <2>1 DEF OpInv, AnswersTrue
  <2>4. /\ AnswerTrue(op, asks[op].answer)'
        /\ asks[op].answer = "absent" /\ asks[op].at - asks[op].created >= Grace => Void(op)'
    BY <1>1, <1>3, <2>1 DEF OpInv, AnswersTrue
  <2>5. ASSUME step[op].stage = "answered", step[op].answer = "absent", elog'[op] # NoRecord
        PROVE  elog'[op].touched >= now
    BY <1>1, <1>2, <2>5 DEF OpInv, AnswersTrue
  <2>6. QED
    BY <2>2, <2>3, <2>4, <2>5 DEF AnswersTrue
<1>7. SaidTrue(op)'
  BY <1>1, <1>3, <1>4 DEF OpInv, SaidTrue, Said
<1>8. Channels(op)'
  <2>1. ASSUME NEW r \in replies', r.op = op
        PROVE  step[op].stage = "waiting" /\ r.attempt = step[op].attempt
    <3>1. CASE r \in replies
      BY <1>1, <2>1, <3>1 DEF OpInv, Channels
    <3>2. CASE Channel(r) \in open
      <4>1. Channel(r).op = op /\ Channel(r).attempt = r.attempt
        BY <2>1 DEF Channel
      <4>2. QED
        BY <1>1, <3>2, <4>1 DEF OpInv, Channels
    <3>3. QED
      BY <2>1, <3>1, <3>2
  <2>2. QED
    BY <1>1, <2>1 DEF OpInv, Channels
<1>9. Stages(op)' /\ Timers(op)' /\ FrameTimes(op)'
  BY <1>1 DEF OpInv, Stages, Timers, FrameTimes
<1>10. Kept(op)'
  <2>1. CASE elog'[op] = NoRecord
    BY <2>1 DEF Kept
  <2>2. CASE elog'[op].touched = now /\ step[op].stage # "new"
    <3>1. DoneBy(op, now + Retention)'
      <4>1. /\ step[op].stage = "waiting" =>
                step[op].deadline + 2 * QueryTimeout + Horizon <= now + Retention
            /\ step[op].stage \in {"asking", "answered"} =>
                step[op].deadline + QueryTimeout + Horizon <= now + Retention
            /\ step[op].stage = "pending" =>
                /\ step[op].deadline + StepBudget + 2 * QueryTimeout + Horizon <= now + Retention
                /\ step[op].deadline + MaxDelay <= now + Retention
        BY <1>1, <1>2, Times DEF OpInv, Timers
      <4>2. \A f \in calls' : f.op = op => f.sent + MaxDelay <= now + Retention
        BY <1>1, <1>2, CallTypes, Times DEF OpInv, FrameTimes
      <4>3. notes[op].status = "checking" =>
              notes[op].created + Horizon + QueryTimeout <= now + Retention
        BY <1>1, <1>2, RecordTypes, Times DEF OpInv, Timers
      <4>4. asks[op] # NoAsk => asks[op].at + QueryTimeout <= now + Retention
        BY <1>1, <1>2, RecordTypes, Times DEF OpInv, Timers
      <4>5. QED
        BY <4>1, <4>2, <4>3, <4>4 DEF DoneBy
    <3>2. Known(op)' => step[op].deadline <= now + StepBudget
      <4>1. Known(op)' => step[op].stage = "waiting"
        BY <1>8 DEF Known, Channels
      <4>2. QED
        BY <1>1, <4>1 DEF OpInv, Timers
    <3>3. QED
      BY <2>2, <3>1, <3>2 DEF Kept
  <2>3. CASE /\ elog[op] # NoRecord /\ elog'[op].touched = elog[op].touched
             /\ Known(op)' => Known(op)
    <3>1. DoneBy(op, elog[op].touched + Retention)
      BY <1>1, <2>3 DEF OpInv, Kept
    <3>2. DoneBy(op, elog[op].touched + Retention)'
      BY <2>3, <3>1 DEF DoneBy
    <3>3. QED
      BY <1>1, <2>3, <3>2 DEF OpInv, Kept
  <2>4. QED
    BY <2>1, <2>2, <2>3
<1>11. QED
  BY <1>5, <1>6, <1>7, <1>8, <1>9, <1>10 DEF OpInv

\* Another operation's insert may purge the record of this one.
LEMMA PurgeKeeps ==
  ASSUME IInv, TypeOK', NEW op \in Ops,
         UNCHANGED <<now, open, step, notes, asks, forgotten, told>>, calls' \subseteq calls,
         elog'[op] \in {elog[op], Purged[op]}, effects'[op] = effects[op],
         ~InHand(op)', \A r \in replies' : r.op = op => r \in replies
  PROVE  OpInv(op)'
<1>1. OpInv(op) /\ TypeOK
  BY DEF IInv
<1>2. elog'[op] = elog[op] \/ (Old(op) /\ elog'[op] = NoRecord)
  BY <1>1, PurgedIs
<1>3. CannotRun(op) => CannotRun(op)'
  <2>1. ASSUME elog'[op] = NoRecord, CannotRun(op) PROVE Stopped(op)'
    <3>1. Stopped(op)
      BY <1>2, <2>1, OldIsOver DEF CannotRun
    <3>2. QED
      BY <3>1 DEF Stopped, Deliverable
  <2>2. ~Awaiting(NoRecord)
    BY EmptySlots DEF Awaiting
  <2>3. QED
    BY <1>2, <2>1, <2>2 DEF CannotRun
<1>4. LogTrue(op)'
  BY <1>1, <1>2, EmptySlots DEF OpInv, LogTrue, Awaiting
<1>5. ServedTrue(op)'
  BY DEF ServedTrue
<1>6. Known(op)' => Known(op)
  BY DEF Known
<1>7. QED
  BY <1>2, <1>3, <1>4, <1>5, <1>6, VehicleKeeps

LEMMA AnswerIs ==
  ASSUME TypeOK, NEW call \in Call, NEW kind \in ReplyKinds, Answer(call, kind)
  PROVE  /\ replies' \subseteq Reply
         /\ \A r \in replies' : r \in replies \/
              (Channel(r) \in open /\ r.op = call.op /\ r.attempt = call.attempt /\ r.kind = kind)
<1> DEFINE r0 == [op |-> call.op, attempt |-> call.attempt, kind |-> kind]
<1>1. /\ r0 \in Reply /\ r0.op = call.op /\ r0.attempt = call.attempt /\ r0.kind = kind
      /\ Channel(r0) = Channel(call)
  BY DEF Reply, Call, Channel
<1>2. replies' = IF Channel(call) \in open THEN replies \union {r0} ELSE replies
  BY DEF Answer
<1> HIDE DEF r0
<1>3. QED
  BY <1>1, <1>2 DEF TypeOK

LEMMA VehicleTypes ==
  ASSUME TypeOK, UNCHANGED <<now, open, step, notes, asks, forgotten, told>>,
         calls' \subseteq calls, elog' \in [Ops -> Record \union {NoRecord}],
         serving' \in [call : Call, acted : BOOLEAN] \union {Nobody},
         effects' \in [Ops -> Nat], replies' \subseteq Reply
  PROVE  TypeOK'
BY DEF TypeOK

LEMMA CallOfFrame ==
  ASSUME TypeOK, NEW f \in calls
  PROVE  /\ CallOf(f) \in Call /\ CallOf(f).op = f.op /\ CallOf(f).attempt = f.attempt
         /\ CallOf(f).params \in Params /\ CallOf(f).subject \in Subjects
         /\ CallOf(f).confirmed \in BOOLEAN /\ f.op \in Ops
BY VehicleAssumption DEF TypeOK, Frame, CallOf, Call

(***************************************************************************)
(* A frame reaches the vehicle.                                            *)
(***************************************************************************)
\* What the gate decides about a frame, it decides about the record in the log.
LEMMA DecideCallSound ==
  ASSUME IInv, NEW f \in calls, Deliverable(f)
  PROVE  SoundDecision(DecideCall(CallOf(f)), elog[f.op], CallOf(f), now)
<1>1. f.op \in Ops /\ Purged[f.op] = elog[f.op] /\ TypeOK
  BY FreshRecord DEF IInv
<1>2. elog[f.op] \in Record \union {NoRecord} /\ now \in Nat /\ CallOf(f).confirmed \in BOOLEAN
      /\ CallOf(f).op = f.op
  BY <1>1, CallOfFrame DEF TypeOK
<1>3. QED
  BY <1>1, <1>2, DecideSound DEF DecideCall

\* A frame that may run finds an operation that nothing blocks.
LEMMA RunsCan ==
  ASSUME IInv, NEW f \in calls, Deliverable(f), serving = Nobody,
         DecideCall(CallOf(f)).kind = "run"
  PROVE  ~CannotRun(f.op) /\ effects[f.op] = 0 /\ step[f.op].stage # "new"
<1>1. f.op \in Ops /\ Purged[f.op] = elog[f.op] /\ OpInv(f.op) /\ TypeOK
  BY FreshRecord DEF IInv
<1>3. SoundDecision(DecideCall(CallOf(f)), elog[f.op], CallOf(f), now)
  BY DecideCallSound
<1>4. \/ elog[f.op] = NoRecord
      \/ Awaiting(elog[f.op]) /\ ~AwaitingExpired(elog[f.op], now)
  BY <1>3 DEF SoundDecision
<1>5. ~CannotRun(f.op)
  BY <1>4 DEF CannotRun, Stopped
<1>6. QED
  BY <1>1, <1>5, RecordTypes DEF OpInv, RunsOnce, FrameTimes

LEMMA AdmitRuns ==
  ASSUME IInv, NEW f \in calls, Deliverable(f), calls' = calls \ {f}, serving = Nobody,
         DecideCall(CallOf(f)).kind = "run",
         elog' = [Purged EXCEPT ![f.op] = Envelope(CallOf(f), now)],
         serving' = [call |-> CallOf(f), acted |-> FALSE],
         UNCHANGED <<replies, effects, now, open, step, notes, asks, forgotten, told>>
  PROVE  IInv'
<1> DEFINE c == CallOf(f)
<1>1. TypeOK /\ f.op \in Ops /\ OpInv(f.op)
  BY FreshRecord DEF IInv
<1>2. /\ c \in Call /\ c.op = f.op /\ c.attempt = f.attempt
      /\ c.params \in Params /\ c.subject \in Subjects
  BY <1>1, CallOfFrame
<1>3. /\ Envelope(c, now) \in Record /\ Executing(Envelope(c, now))
      /\ Envelope(c, now).touched = now /\ Envelope(c, now) # NoRecord
  BY <1>1, <1>2, EmptySlots DEF TypeOK, Envelope, Record, Statuses, Phases, Executing
<1>4. ~CannotRun(f.op) /\ effects[f.op] = 0 /\ step[f.op].stage # "new"
  BY RunsCan
<1>5. serving' # Nobody => serving'.call = c /\ serving'.acted = FALSE
  OBVIOUS
<1> HIDE DEF c
<1>6. /\ elog' \in [Ops -> Record \union {NoRecord}]
      /\ elog'[f.op] = Envelope(c, now)
      /\ \A op \in Ops : op # f.op => elog'[op] = Purged[op]
  BY <1>1, <1>3, PurgedIs DEF c
<1>7. TypeOK'
  <2>1. serving' \in [call : Call, acted : BOOLEAN]
    BY <1>2 DEF c
  <2>2. QED
    BY <1>1, <1>6, <2>1, VehicleTypes DEF TypeOK
<1>8. OpInv(f.op)'
  <2>1. LogTrue(f.op)'
    BY <1>3, <1>6 DEF LogTrue, Executing, Awaiting
  <2>2. ServedTrue(f.op)'
    <3>1. f.attempt <= step[f.op].attempt
      BY <1>1 DEF OpInv, FrameTimes
    <3>2. QED
      BY <1>2, <1>3, <1>4, <1>5, <1>6, <3>1 DEF ServedTrue, InHand
  <2>3. QED
    BY <1>1, <1>3, <1>4, <1>6, <1>7, <2>1, <2>2, VehicleKeeps
<1>9. ASSUME NEW op \in Ops, op # f.op PROVE OpInv(op)'
  <2>1. ~InHand(op)'
    BY <1>2, <1>5, <1>9 DEF InHand
  <2>2. QED
    BY <1>1, <1>6, <1>7, <1>9, <2>1, PurgeKeeps DEF TypeOK
<1>10. QED
  BY <1>7, <1>8, <1>9 DEF IInv

LEMMA AdmitAnswers ==
  ASSUME IInv, NEW f \in calls, Deliverable(f), calls' = calls \ {f}, serving = Nobody,
         NEW d, d = DecideCall(CallOf(f)), d.kind # "run",
         elog' = IF d.mark = "" THEN Purged ELSE [Purged EXCEPT ![f.op].status = d.mark],
         NEW status, status = elog'[f.op].status,
         Answer(CallOf(f), GateReply(d.kind, status)),
         UNCHANGED <<serving, effects, now, open, step, notes, asks, forgotten, told>>
  PROVE  IInv'
<1> DEFINE c   == CallOf(f)
           rec == elog[f.op]
           k   == GateReply(d.kind, status)
<1>1. TypeOK /\ f.op \in Ops /\ OpInv(f.op) /\ Purged[f.op] = rec
  BY FreshRecord DEF IInv
<1>2. c \in Call /\ c.op = f.op /\ c.confirmed \in BOOLEAN
  BY <1>1, CallOfFrame
<1>3. rec \in Record \union {NoRecord} /\ now \in Nat
  BY <1>1 DEF TypeOK
<1>4. SoundDecision(d, rec, c, now)
  BY DecideCallSound, Zenon
<1>5. d.kind \in Decisions \ {"run"} /\ d.mark \in {"", "cancelled", "orphaned"}
  BY <1>4 DEF SoundDecision
<1>6. Answer(c, k)
  OBVIOUS
<1> HIDE DEF c, rec, k
<1>7. /\ elog' \in [Ops -> Record \union {NoRecord}]
      /\ \A op \in Ops : op # f.op => elog'[op] = Purged[op]
      /\ d.mark = "" => elog'[f.op] = rec
      /\ d.mark # "" =>
           /\ rec # NoRecord /\ elog'[f.op] # NoRecord /\ elog'[f.op] = [rec EXCEPT !.status = d.mark]
           /\ elog'[f.op].status = d.mark /\ elog'[f.op].touched = rec.touched
  <2>1. CASE d.mark = ""
    BY <1>1, <2>1, PurgedIs
  <2>2. CASE d.mark # ""
    <3>1. rec # NoRecord /\ rec \in Record
      BY <1>3, <1>4, <1>5, <2>2 DEF SoundDecision
    <3>2. elog' = [Purged EXCEPT ![f.op] = [rec EXCEPT !.status = d.mark]]
      BY <1>1, <2>2, PurgedIs
    <3>3. /\ [rec EXCEPT !.status = d.mark] \in Record
          /\ [rec EXCEPT !.status = d.mark].status = d.mark
          /\ [rec EXCEPT !.status = d.mark].touched = rec.touched
      BY <1>5, <2>2, <3>1 DEF Record, Statuses
    <3>4. QED
      BY <1>1, <2>2, <3>1, <3>2, <3>3, PurgedIs, EmptySlots
  <2>3. QED
    BY <2>1, <2>2
<1>8. k \in ReplyKinds
  BY <1>5 DEF k, GateReply, ReplyKinds, Decisions
<1>9. replies' \subseteq Reply /\ TypeOK'
  BY <1>1, <1>2, <1>6, <1>7, <1>8, AnswerIs, VehicleTypes DEF TypeOK
<1>10. /\ ~Awaiting(elog'[f.op]) \/ elog'[f.op] = rec
       /\ Awaiting(elog'[f.op]) => Awaiting(rec)
       /\ d.mark # "" => ~Awaiting(elog'[f.op])
  BY <1>5, <1>7 DEF Awaiting
<1>11. CannotRun(f.op) => CannotRun(f.op)'
  <2>1. elog'[f.op] = NoRecord => elog[f.op] = NoRecord
    BY <1>7 DEF rec
  <2>2. Stopped(f.op) => Stopped(f.op)'
    BY DEF Stopped, Deliverable
  <2>3. QED
    BY <1>10, <2>1, <2>2 DEF CannotRun, rec, InHand
<1>12. LogTrue(f.op)'
  <2>1. LogTrue(f.op) /\ effects'[f.op] = effects[f.op]
    BY <1>1 DEF OpInv
  <2>2. CASE d.mark = ""
    BY <1>7, <2>1, <2>2 DEF LogTrue, rec
  <2>3. CASE d.mark # ""
    <3>1. d.mark = "cancelled" => effects[f.op] = 0
      BY <1>4, <2>1, <2>3 DEF SoundDecision, LogTrue, rec
    <3>2. QED
      BY <1>5, <1>7, <1>10, <2>1, <2>3, <3>1 DEF LogTrue
  <2>4. QED
    BY <2>2, <2>3
<1>13. AnswerTrue(f.op, k)'
  <2>1. k \in {"done", "executed"} => effects'[f.op] = 1
    <3>1. ASSUME k \in {"done", "executed"} PROVE d.kind = "duplicate" /\ elog'[f.op].status = "done"
      BY <1>5, <3>1 DEF k, GateReply, Decisions
    <3>2. QED
      BY <1>12, <3>1 DEF LogTrue
  <2>2. ASSUME k \in {"failed", "cancelled", "not_executed"} PROVE Void(f.op)'
    <3>1. \/ d.kind = "duplicate" /\ elog'[f.op].status # "done" /\ d.mark = "" /\ rec.status \in {"done", "failed"}
          \/ d.kind = "expired"
      BY <1>4, <1>5, <2>2 DEF k, GateReply, Decisions, SoundDecision
    <3>2. elog'[f.op].status \in {"failed", "cancelled"} /\ elog'[f.op] # NoRecord
      <4>1. CASE d.kind = "duplicate"
        BY <1>7, <3>1, <4>1, EmptySlots
      <4>2. CASE d.kind = "expired"
        BY <1>4, <1>7, <4>2 DEF SoundDecision
      <4>3. QED
        BY <3>1, <4>1, <4>2
    <3>3. effects'[f.op] = 0
      BY <1>12, <3>2 DEF LogTrue
    <3>4. QED
      BY <3>2, <3>3 DEF Void, CannotRun, InHand, Awaiting
  <2>3. QED
    BY <2>1, <2>2 DEF AnswerTrue
<1>14. OpInv(f.op)'
  <2>1. ServedTrue(f.op)'
    <3>1. ~InHand(f.op)'
      BY DEF InHand
    <3>2. QED
      BY <3>1 DEF ServedTrue
  <2>2. \A r \in replies' : r.op = f.op =>
          r \in replies \/ (Channel(r) \in open /\ AnswerTrue(f.op, r.kind)')
    BY <1>1, <1>2, <1>6, <1>8, <1>13, AnswerIs
  <2>3. ASSUME Known(f.op)' PROVE Known(f.op)
    <3>1. PICK r \in replies' : r.op = f.op /\ r.kind \in {"need_confirm", "need_slot"}
      BY <2>3 DEF Known, InHand
    <3>2. k \notin {"need_confirm", "need_slot"}
      BY <1>5 DEF k, GateReply, Decisions
    <3>3. r \in replies
      BY <1>1, <1>2, <1>6, <1>8, <3>1, <3>2, AnswerIs
    <3>4. QED
      BY <3>1, <3>3 DEF Known
  <2>4. elog'[f.op] = NoRecord \/ (elog[f.op] # NoRecord /\ elog'[f.op].touched = elog[f.op].touched)
    BY <1>7 DEF rec
  <2>5. elog'[f.op] = NoRecord => elog[f.op] = NoRecord
    BY <1>7 DEF rec
  <2>6. QED
    BY <1>1, <1>9, <1>11, <1>12, <2>1, <2>2, <2>3, <2>4, <2>5, VehicleKeeps
<1>15. ASSUME NEW op \in Ops, op # f.op PROVE OpInv(op)'
  <2>1. ~InHand(op)'
    BY DEF InHand
  <2>2. \A r \in replies' : r.op = op => r \in replies
    BY <1>1, <1>2, <1>6, <1>8, <1>15, AnswerIs
  <2>3. QED
    BY <1>7, <1>9, <1>15, <2>1, <2>2, PurgeKeeps
<1>16. QED
  BY <1>9, <1>14, <1>15 DEF IInv

LEMMA RefuseKeeps ==
  ASSUME IInv, NEW f \in calls, Deliverable(f), calls' = calls \ {f}, Refuse(CallOf(f)),
         UNCHANGED <<now, open, step, notes, asks, forgotten, told>>
  PROVE  IInv'
<1>1. TypeOK /\ f.op \in Ops /\ OpInv(f.op) /\ Purged[f.op] = elog[f.op]
  BY FreshRecord DEF IInv
<1>2. CallOf(f) \in Call /\ CallOf(f).op = f.op /\ "refused" \in ReplyKinds
  BY <1>1, CallOfFrame DEF ReplyKinds
<1>3. Answer(CallOf(f), "refused") /\ elog' \in {elog, Purged} /\ serving' = Nobody
      /\ UNCHANGED <<serving, effects>>
  BY DEF Refuse
<1>4. \A op \in Ops : ~InHand(op)' /\ elog'[op] \in {elog[op], Purged[op]}
  BY <1>3 DEF InHand
<1>5. /\ replies' \subseteq Reply
      /\ \A r \in replies' : r \in replies \/ (Channel(r) \in open /\ r.op = f.op /\ r.kind = "refused")
  BY <1>1, <1>2, <1>3, AnswerIs
<1>6. TypeOK'
  BY <1>1, <1>3, <1>5, PurgedIs, VehicleTypes DEF TypeOK
<1>7. OpInv(f.op)'
  <2>1. elog'[f.op] = elog[f.op]
    BY <1>1, <1>4
  <2>2. CannotRun(f.op) => CannotRun(f.op)'
    BY <1>3, <2>1 DEF CannotRun, InHand, Stopped, Deliverable
  <2>3. LogTrue(f.op)' /\ ServedTrue(f.op)'
    BY <1>1, <1>3, <1>4, <2>1 DEF OpInv, LogTrue, ServedTrue
  <2>4. AnswerTrue(f.op, "refused")'
    BY DEF AnswerTrue
  <2>5. Known(f.op)' => Known(f.op)
    BY <1>3, <1>5 DEF Known, InHand
  <2>6. \A r \in replies' : r.op = f.op =>
          r \in replies \/ (Channel(r) \in open /\ AnswerTrue(f.op, r.kind)')
    BY <1>5, <2>4
  <2>7. QED
    BY <1>1, <1>3, <1>6, <2>1, <2>2, <2>3, <2>5, <2>6, VehicleKeeps
<1>8. ASSUME NEW op \in Ops, op # f.op PROVE OpInv(op)'
  BY <1>3, <1>4, <1>5, <1>6, <1>8, PurgeKeeps
<1>9. QED
  BY <1>6, <1>7, <1>8 DEF IInv

LEMMA DeliverCallKeeps ==
  ASSUME IInv, NEW f \in calls, DeliverCall(f)
  PROVE  IInv'
<1>1. /\ Deliverable(f) /\ calls' = calls \ {f}
      /\ UNCHANGED <<now, open, step, notes, asks, forgotten, told>>
      /\ Admit(CallOf(f)) \/ Refuse(CallOf(f))
  BY DEF DeliverCall
<1>2. CASE Refuse(CallOf(f))
  BY <1>1, <1>2, RefuseKeeps
<1>3. CASE Admit(CallOf(f))
  <2>1. CallOf(f).op = f.op
    BY CallOfFrame DEF IInv
  <2>2. serving = Nobody /\ UNCHANGED effects
    BY <1>3 DEF Admit
  <2>3. CASE DecideCall(CallOf(f)).kind = "run"
    <3>1. /\ elog' = [Purged EXCEPT ![f.op] = Envelope(CallOf(f), now)]
          /\ serving' = [call |-> CallOf(f), acted |-> FALSE]
          /\ UNCHANGED replies
      BY <1>3, <2>1, <2>3 DEF Admit
    <3>2. QED
      BY <1>1, <2>2, <2>3, <3>1, AdmitRuns
  <2>4. CASE DecideCall(CallOf(f)).kind # "run"
    <3>1. PICK d : d = DecideCall(CallOf(f))
      OBVIOUS
    <3>2. PICK status : status = elog'[f.op].status
      OBVIOUS
    <3>3. /\ elog' = IF d.mark = "" THEN Purged ELSE [Purged EXCEPT ![f.op].status = d.mark]
          /\ Answer(CallOf(f), GateReply(d.kind, status))
          /\ UNCHANGED serving
      BY <1>3, <2>1, <2>4, <3>1, <3>2 DEF Admit
    <3>4. QED
      BY <1>1, <2>2, <2>4, <3>1, <3>2, <3>3, AdmitAnswers
  <2>5. QED
    BY <2>3, <2>4
<1>4. QED
  BY <1>1, <1>2, <1>3

LEMMA LoseCallKeeps ==
  ASSUME IInv, NEW f \in calls, LoseCall(f)
  PROVE  IInv'
<1>1. TypeOK /\ calls' = calls \ {f}
      /\ UNCHANGED <<now, elog, serving, effects, replies, open, step, notes, asks, forgotten, told>>
  BY DEF IInv, LoseCall, edgeVars
<1>2. TypeOK'
  BY <1>1, VehicleTypes DEF TypeOK
<1>3. ASSUME NEW op \in Ops PROVE OpInv(op)'
  BY <1>1, UntouchedKept DEF IInv, Untouched, Said
<1>4. QED
  BY <1>2, <1>3 DEF IInv

(***************************************************************************)
(* The vehicle's own steps.                                                *)
(***************************************************************************)
LEMMA PurgeLogKeeps ==
  ASSUME IInv, PurgeLog, UNCHANGED <<now, open, calls, step, notes, asks, forgotten, told>>
  PROVE  IInv'
<1>1. TypeOK /\ serving' = Nobody /\ elog' = Purged /\ UNCHANGED <<serving, effects, replies>>
  BY DEF IInv, PurgeLog
<1>2. TypeOK'
  BY <1>1, PurgedIs, VehicleTypes DEF TypeOK
<1>3. ASSUME NEW op \in Ops PROVE OpInv(op)'
  <2>1. ~InHand(op)'
    BY <1>1 DEF InHand
  <2>2. QED
    BY <1>1, <1>2, <2>1, PurgeKeeps
<1>4. QED
  BY <1>2, <1>3 DEF IInv

LEMMA ServedCall ==
  ASSUME IInv, serving # Nobody
  PROVE  LET op == serving.call.op
         IN  /\ op \in Ops /\ InHand(op) /\ OpInv(op) /\ ServedTrue(op)
             /\ elog[op] \in Record /\ elog[op] # NoRecord
             /\ Executing(elog[op]) /\ ~Awaiting(elog[op])
             /\ ~serving.acted => effects[op] = 0
<1> DEFINE op == serving.call.op
<1>1. TypeOK /\ op \in Ops
  BY CallTypes DEF IInv
<1>2. InHand(op) /\ OpInv(op) /\ ServedTrue(op)
  BY <1>1 DEF IInv, OpInv, InHand
<1>3. Executing(elog[op])
  BY <1>2 DEF ServedTrue
<1>4. elog[op] # NoRecord /\ elog[op] \in Record /\ ~Awaiting(elog[op])
  BY <1>1, <1>3, EmptySlots DEF TypeOK, Executing, Awaiting
<1>5. ~serving.acted => effects[op] = 0
  BY <1>2 DEF OpInv, RunsOnce, CannotRun
<1>6. QED
  BY <1>1, <1>2, <1>3, <1>4, <1>5

LEMMA ActKeeps ==
  ASSUME IInv, Act, UNCHANGED <<now, open, calls, step, notes, asks, forgotten, told>>
  PROVE  IInv'
<1>1. PICK op \in Ops : op = serving.call.op
  BY CallTypes DEF IInv, Act
<1>2. /\ TypeOK /\ serving # Nobody /\ ~serving.acted /\ MayAct(serving.call)
      /\ effects' = [effects EXCEPT ![op] = @ + 1]
      /\ serving' = [serving EXCEPT !.acted = TRUE]
      /\ UNCHANGED <<elog, replies>>
  BY <1>1 DEF IInv, Act
<1>3. /\ InHand(op) /\ OpInv(op) /\ ServedTrue(op) /\ Executing(elog[op])
      /\ elog[op] # NoRecord /\ ~Awaiting(elog[op]) /\ effects[op] = 0
  BY <1>1, <1>2, ServedCall
<1>4. serving' \in [call : Call, acted : BOOLEAN] /\ serving'.call = serving.call /\ serving'.acted
  BY <1>2, CallTypes
<1>5. effects' \in [Ops -> Nat] /\ effects'[op] = 1 /\ \A x \in Ops : x # op => effects'[x] = effects[x]
  BY <1>2, <1>3 DEF TypeOK
<1>6. TypeOK'
  BY <1>2, <1>4, <1>5, VehicleTypes DEF TypeOK
<1>7. OpInv(op)'
  <2>1. ~CannotRun(op)
    BY <1>2, <1>3 DEF CannotRun
  <2>2. CannotRun(op)'
    BY <1>2, <1>3, <1>4 DEF CannotRun
  <2>3. LogTrue(op)'
    BY <1>2, <1>3 DEF LogTrue, Executing
  <2>4. ServedTrue(op)'
    BY <1>2, <1>3, <1>4, <1>5 DEF ServedTrue, MayAct
  <2>5. Known(op)' => Known(op)
    BY <1>2, <1>3, <1>4 DEF Known, InHand
  <2>6. QED
    BY <1>2, <1>3, <1>5, <1>6, <2>1, <2>2, <2>3, <2>4, <2>5, VehicleKeeps
<1>8. ASSUME NEW x \in Ops, x # op PROVE OpInv(x)'
  <2>1. ~InHand(x)'
    BY <1>1, <1>4, <1>8 DEF InHand
  <2>2. Untouched(x)
    BY <1>2, <1>5, <1>8, <2>1 DEF Untouched, Said
  <2>3. QED
    BY <2>2, UntouchedKept DEF IInv
<1>9. QED
  BY <1>6, <1>7, <1>8 DEF IInv

\* A call ends, with or without an answer, settled or not.
LEMMA CallEnds ==
  ASSUME IInv, serving # Nobody, NEW op \in Ops, op = serving.call.op,
         serving' = Nobody, UNCHANGED <<effects, now, open, calls, step, notes, asks, forgotten, told>>,
         elog' \in [Ops -> Record \union {NoRecord}],
         \A x \in Ops : x # op => elog'[x] = elog[x],
         elog'[op] # NoRecord, elog'[op].touched = elog[op].touched,
         elog'[op].status = "done" => serving.acted,
         elog'[op].status \in {"failed", "cancelled"} \/ Awaiting(elog'[op]) => ~serving.acted,
         NEW kind, replies' \subseteq Reply,
         \A r \in replies' : r \in replies \/
           (Channel(r) \in open /\ r.op = op /\ r.attempt = serving.call.attempt /\ r.kind = kind),
         kind # "done" /\ kind # "cancelled" /\ kind # "not_executed",
         kind = "executed" => serving.acted,
         kind = "failed" => ~serving.acted /\ ~Awaiting(elog'[op])
  PROVE  IInv'
<1>1. TypeOK /\ TypeOK'
  BY VehicleTypes DEF IInv, TypeOK
<1>2. /\ InHand(op) /\ OpInv(op) /\ ServedTrue(op) /\ elog[op] # NoRecord
      /\ ~serving.acted => effects[op] = 0
      /\ serving.acted => effects[op] = 1
  BY ServedCall DEF ServedTrue
<1>3. OpInv(op)'
  <2>1. ~InHand(op)'
    BY DEF InHand
  <2>2. CannotRun(op) => CannotRun(op)'
    BY <1>2, <2>1 DEF CannotRun
  <2>3. LogTrue(op)'
    BY <1>2 DEF LogTrue
  <2>4. ServedTrue(op)'
    BY <2>1 DEF ServedTrue
  <2>5. ASSUME NEW r \in replies', r.op = op, r \notin replies
        PROVE  Channel(r) \in open /\ AnswerTrue(op, r.kind)'
    <3>1. kind = "executed" => effects'[op] = 1
      BY <1>2
    <3>2. kind = "failed" => effects'[op] = 0 /\ CannotRun(op)'
      BY <1>2, <2>1 DEF CannotRun
    <3>3. QED
      BY <2>5, <3>1, <3>2 DEF AnswerTrue, Void
  <2>6. ASSUME Known(op)' PROVE Known(op)
    <3>1. PICK r \in replies' : r.op = op /\ r.kind \in {"need_confirm", "need_slot"}
      BY <2>1, <2>6 DEF Known
    <3>2. CASE r \in replies
      BY <3>1, <3>2 DEF Known
    <3>3. CASE Channel(r) \in open /\ r.attempt = serving.call.attempt
      <4>1. Channel(r).op = op /\ Channel(r).attempt = r.attempt
        BY <3>1 DEF Channel
      <4>2. step[op].stage = "waiting" /\ step[op].attempt = serving.call.attempt
        BY <1>2, <3>3, <4>1 DEF OpInv, Channels
      <4>3. QED
        BY <1>2, <4>2 DEF Known
    <3>4. QED
      BY <3>1, <3>2, <3>3
  <2>7. QED
    BY <1>1, <1>2, <2>2, <2>3, <2>4, <2>5, <2>6, VehicleKeeps
<1>4. ASSUME NEW x \in Ops, x # op PROVE OpInv(x)'
  <2>1. ~InHand(x)'
    BY DEF InHand
  <2>2. Untouched(x)
    BY <1>4, <2>1 DEF Untouched, Said
  <2>3. QED
    BY <2>2, UntouchedKept DEF IInv
<1>5. QED
  BY <1>1, <1>3, <1>4 DEF IInv

\* What a settlement leaves in the log.
LEMMA SettlementIs ==
  ASSUME IInv, serving # Nobody, NEW op \in Ops, op = serving.call.op, NEW o \in Outcomes,
         elog' \in {elog, Settlements(o)}
  PROVE  /\ elog' \in [Ops -> Record \union {NoRecord}]
         /\ \A x \in Ops : x # op => elog'[x] = elog[x]
         /\ elog'[op] # NoRecord /\ elog'[op].touched = elog[op].touched
         /\ \/ Executing(elog'[op])
            \/ SoundSettlement(elog'[op], o, op \in RequireConfirm, serving.call.confirmed)
<1>1. /\ TypeOK /\ elog[op] \in Record /\ elog[op] # NoRecord /\ Executing(elog[op])
      /\ now \in Nat
  BY ServedCall DEF IInv, TypeOK
<1>2. CASE elog' = elog
  BY <1>1, <1>2 DEF TypeOK
<1>3. CASE elog' = Settlements(o)
  <2> DEFINE s == Settle(o, op \in RequireConfirm, serving.call.confirmed)
             rec == Settled(elog[op], s, now)
  <2>1. serving.call.confirmed \in BOOLEAN /\ (op \in RequireConfirm) \in BOOLEAN
    BY <1>1, CallTypes DEF Call
  <2>2. SoundSettlement(s, o, op \in RequireConfirm, serving.call.confirmed)
    BY <2>1, SettleSound
  <2>3. elog' = [elog EXCEPT ![op] = rec]
    BY <1>3 DEF Settlements
  <2> HIDE DEF s
  <2>4. s.status \in Statuses /\ s.phase \in Phases
    BY <2>2 DEF SoundSettlement, Statuses
  <2>5. rec \in Record /\ rec.status = s.status /\ rec.phase = s.phase /\ rec.touched = elog[op].touched
    BY <1>1, <2>4, SettledSound
  <2> HIDE DEF rec
  <2>6. SoundSettlement(rec, o, op \in RequireConfirm, serving.call.confirmed)
    BY <2>2, <2>5 DEF SoundSettlement
  <2>7. elog'[op] = rec
    BY <1>1, <2>3 DEF TypeOK
  <2>8. QED
    BY <1>1, <2>3, <2>5, <2>6, <2>7, EmptySlots DEF TypeOK
<1>4. QED
  BY <1>2, <1>3

LEMMA FinishKeeps ==
  ASSUME IInv, NEW o \in Outcomes, Finish(o),
         UNCHANGED <<now, open, calls, step, notes, asks, forgotten, told>>
  PROVE  IInv'
<1>1. PICK op \in Ops : op = serving.call.op
  BY CallTypes DEF IInv, Finish
<1>2. /\ TypeOK /\ serving # Nobody /\ CanEnd(o) /\ elog' \in {elog, Settlements(o)}
      /\ Answer(serving.call, RunReply(o)) /\ serving' = Nobody /\ UNCHANGED effects
  BY DEF IInv, Finish
<1>3. /\ elog' \in [Ops -> Record \union {NoRecord}]
      /\ \A x \in Ops : x # op => elog'[x] = elog[x]
      /\ elog'[op] # NoRecord /\ elog'[op].touched = elog[op].touched
      /\ \/ Executing(elog'[op])
         \/ SoundSettlement(elog'[op], o, op \in RequireConfirm, serving.call.confirmed)
  BY <1>1, <1>2, SettlementIs
<1>4. /\ serving.acted => o = "ok" /\ MayAct(serving.call)
      /\ ~serving.acted => \/ o \in {"need_slot", "rejected", "failed"}
                           \/ o \in {"need_confirm", "ok"} /\ ~MayAct(serving.call)
  BY <1>1, <1>2, ServedCall DEF CanEnd, ServedTrue
<1>5. serving.call \in Call /\ serving.call.confirmed \in BOOLEAN /\ serving.acted \in BOOLEAN
  BY <1>2, CallTypes DEF Call
<1>6. /\ elog'[op].status = "done" => serving.acted
      /\ elog'[op].status \in {"failed", "cancelled"} \/ Awaiting(elog'[op]) => ~serving.acted
  BY <1>1, <1>3, <1>4, <1>5 DEF Executing, Awaiting, SoundSettlement, MayAct
<1>7. PICK kind : kind = RunReply(o)
  OBVIOUS
<1>8. /\ kind \in ReplyKinds
      /\ kind # "done" /\ kind # "cancelled" /\ kind # "not_executed"
      /\ kind = "executed" => serving.acted
      /\ kind = "failed" => ~serving.acted /\ o \in {"rejected", "failed"}
  BY <1>4, <1>5, <1>7 DEF RunReply, ReplyKinds
<1>9. o \in {"rejected", "failed"} => ~Awaiting(elog'[op])
  BY <1>3 DEF Executing, Awaiting, SoundSettlement
<1>10. /\ replies' \subseteq Reply
       /\ \A r \in replies' : r \in replies \/
            (Channel(r) \in open /\ r.op = op /\ r.attempt = serving.call.attempt /\ r.kind = kind)
  BY <1>1, <1>2, <1>5, <1>7, <1>8, AnswerIs
<1>11. QED
  BY <1>1, <1>2, <1>3, <1>6, <1>8, <1>9, <1>10, CallEnds

LEMMA RaiseKeeps ==
  ASSUME IInv, Raise, UNCHANGED <<now, open, calls, step, notes, asks, forgotten, told>>
  PROVE  IInv'
<1>1. PICK op \in Ops : op = serving.call.op
  BY CallTypes DEF IInv, Raise
<1>2. /\ TypeOK /\ serving # Nobody /\ elog' \in {elog, Settlements("uncertain")}
      /\ serving' = Nobody /\ UNCHANGED <<effects, replies>> /\ "uncertain" \in Outcomes
  BY DEF IInv, Raise, RaisedOutcome, Outcomes
<1>3. /\ elog' \in [Ops -> Record \union {NoRecord}]
      /\ \A x \in Ops : x # op => elog'[x] = elog[x]
      /\ elog'[op] # NoRecord /\ elog'[op].touched = elog[op].touched
      /\ \/ Executing(elog'[op])
         \/ SoundSettlement(elog'[op], "uncertain", op \in RequireConfirm, serving.call.confirmed)
  BY <1>1, <1>2, SettlementIs
<1>4. elog'[op].status \notin {"done", "failed", "cancelled"} /\ ~Awaiting(elog'[op])
  BY <1>3 DEF Executing, Awaiting, SoundSettlement
<1>5. replies' \subseteq Reply
  BY <1>2 DEF TypeOK
<1>6. PICK kind : kind = "unsure"
  OBVIOUS
<1>7. QED
  BY <1>1, <1>2, <1>3, <1>4, <1>5, <1>6, CallEnds

LEMMA RestartKeeps ==
  ASSUME IInv, Restart, UNCHANGED <<now, open, calls, step, notes, asks, forgotten, told>>
  PROVE  IInv'
<1>1. /\ TypeOK /\ serving' = Nobody /\ elog' = [op \in Ops |-> Recovered(elog[op])]
      /\ UNCHANGED <<effects, replies>>
  BY DEF IInv, Restart
<1>2. ASSUME NEW op \in Ops
      PROVE  /\ elog'[op] \in Record \union {NoRecord}
             /\ elog'[op] = NoRecord <=> elog[op] = NoRecord
             /\ elog'[op] # NoRecord => elog'[op].touched = elog[op].touched
             /\ elog'[op] = elog[op] \/ (elog'[op].status = "orphaned" /\ elog'[op] # NoRecord)
  <2>1. elog[op] \in Record \union {NoRecord} /\ elog'[op] = Recovered(elog[op])
    BY <1>1 DEF TypeOK
  <2>2. CASE elog[op] # NoRecord /\ Executing(elog[op])
    <3>1. elog[op] \in Record /\ elog'[op] = [elog[op] EXCEPT !.status = "orphaned"]
      BY <2>1, <2>2 DEF Recovered
    <3>2. elog'[op] \in Record /\ elog'[op].status = "orphaned" /\ elog'[op].touched = elog[op].touched
      BY <3>1 DEF Record, Statuses
    <3>3. QED
      BY <2>2, <3>2, EmptySlots
  <2>3. CASE elog[op] = NoRecord \/ ~Executing(elog[op])
    BY <2>1, <2>3 DEF Recovered
  <2>4. QED
    BY <2>2, <2>3
<1>3. TypeOK'
  <2>1. elog' \in [Ops -> Record \union {NoRecord}]
    BY <1>1, <1>2
  <2>2. QED
    BY <1>1, <2>1, VehicleTypes DEF TypeOK
<1>4. ASSUME NEW op \in Ops PROVE OpInv(op)'
  <2>1. ~InHand(op)'
    BY <1>1 DEF InHand
  <2>2. Awaiting(elog'[op]) => elog'[op] = elog[op]
    BY <1>2 DEF Awaiting
  <2>3. CannotRun(op) => CannotRun(op)'
    BY <1>2, <2>1, <2>2 DEF CannotRun, Stopped, Deliverable
  <2>4. LogTrue(op)'
    BY <1>1, <1>2, <2>2 DEF IInv, OpInv, LogTrue
  <2>5. ServedTrue(op)'
    BY <2>1 DEF ServedTrue
  <2>6. Known(op)' => Known(op)
    BY <1>1, <2>1 DEF Known
  <2>7. QED
    BY <1>1, <1>2, <1>3, <2>3, <2>4, <2>5, <2>6, VehicleKeeps
<1>5. QED
  BY <1>3, <1>4 DEF IInv

(***************************************************************************)
(* The cloud's steps leave the vehicle as it is.                           *)
(***************************************************************************)
LEMMA CloudTypes ==
  ASSUME TypeOK, UNCHANGED <<now, elog, serving, effects>>,
         open' \subseteq [op : Ops, attempt : Nat], replies' \subseteq Reply, calls' \subseteq Frame,
         step' \in [Ops -> Step], notes' \in [Ops -> Note \union {NoNote}],
         asks' \in [Ops -> Ask \union {NoAsk}], forgotten' \subseteq Ops,
         told' \subseteq [op : Ops, claim : Claims]
  PROVE  TypeOK'
BY DEF TypeOK, Ask

\* A step under way is not over, so nothing was asked or noted about it yet.
LEMMA UnderWay ==
  ASSUME IInv, NEW op \in Ops, step[op].stage # "ended"
  PROVE  /\ notes[op] = NoNote /\ asks[op] = NoAsk
         /\ CannotRun(op) => elog[op] # NoRecord
BY DEF IInv, OpInv, Stages, CannotRun, Stopped

\* The notes and the claims of one operation.
NotesOnly(op) ==
  \/ notes' = notes
  \/ \E v \in Note : notes' = [notes EXCEPT ![op] = v] /\ v.created = now

TellsOnly(op) == told' = told \/ \E claim \in Claims : Tell(op, claim)

LEMMA TellsOnlyIs ==
  ASSUME TypeOK, NEW op \in Ops, TellsOnly(op)
  PROVE  /\ told' \subseteq [op : Ops, claim : Claims]
         /\ \A x \in Ops, claim \in Claims : x # op => (Said(x, claim)' => Said(x, claim))
BY DEF TypeOK, TellsOnly, Tell, Said

LEMMA NotesOnlyIs ==
  ASSUME TypeOK, NEW op \in Ops, NotesOnly(op)
  PROVE  /\ notes' \in [Ops -> Note \union {NoNote}]
         /\ \A x \in Ops : x # op => notes'[x] = notes[x]
         /\ notes'[op] = notes[op] \/ (notes'[op] \in Note /\ notes'[op].created = now)
BY DEF TypeOK, NotesOnly

\* A step under way goes on to its next stage and nothing is sent.
LEMMA StepMoves ==
  ASSUME IInv, NEW op \in Ops, NEW s \in Step,
         step[op].stage \notin {"new", "ended"}, step' = [step EXCEPT ![op] = s],
         UNCHANGED <<now, elog, serving, effects, calls, asks, forgotten>>,
         s.stage \in {"pending", "asking", "answered", "ended"}, s.attempt = step[op].attempt,
         open' \subseteq {c \in open : c.op # op}, replies' \subseteq {r \in replies : r.op # op},
         NotesOnly(op), TellsOnly(op), notes'[op] # notes[op] => s.stage = "ended",
         s.stage = "pending" => now <= s.deadline /\ s.deadline <= now + PendingTtl,
         s.stage \in {"asking", "answered"} => now <= s.deadline /\ s.deadline <= now + QueryTimeout,
         s.stage \in {"asking", "answered"} \/ notes'[op] # notes[op] =>
           \A f \in calls : f.op = op => f.sent + StepBudget <= now,
         s.stage = "answered" =>
           AnswerTrue(op, s.answer) /\ (s.answer = "absent" => elog[op] = NoRecord),
         Said(op, "executed")' => Said(op, "executed") \/ effects[op] = 1,
         Said(op, "failed")' => Said(op, "failed") \/ Void(op),
         Said(op, "not_executed")' => Said(op, "not_executed") \/ Void(op),
         NEW end, elog[op] # NoRecord => end = elog[op].touched + Retention,
         elog[op] # NoRecord =>
           /\ s.stage = "pending" =>
                s.deadline + StepBudget + 2 * QueryTimeout + Horizon <= end /\ s.deadline + MaxDelay <= end
           /\ s.stage \in {"asking", "answered"} => s.deadline + QueryTimeout + Horizon <= end
           /\ notes'[op] # notes[op] => now + Horizon + QueryTimeout <= end
  PROVE  IInv'
<1>1. TypeOK /\ OpInv(op)
  BY DEF IInv
<1>2. step'[op] = s /\ \A x \in Ops : x # op => step'[x] = step[x]
  BY <1>1 DEF TypeOK
<1>3. /\ notes[op] = NoNote /\ asks[op] = NoAsk /\ asks'[op] = NoAsk
      /\ CannotRun(op) => elog[op] # NoRecord
  BY UnderWay
<1>4. /\ notes' \in [Ops -> Note \union {NoNote}]
      /\ \A x \in Ops : x # op => notes'[x] = notes[x]
      /\ notes'[op] = NoNote \/ (notes'[op] \in Note /\ notes'[op].created = now /\ s.stage = "ended")
  BY <1>1, <1>3, NotesOnlyIs, EmptySlots
<1>5. /\ told' \subseteq [op : Ops, claim : Claims]
      /\ \A x \in Ops, claim \in Claims : x # op => (Said(x, claim)' => Said(x, claim))
  BY <1>1, TellsOnlyIs
<1>6. TypeOK'
  <2>1. step' \in [Ops -> Step]
    BY <1>1 DEF TypeOK
  <2>2. open' \subseteq [op : Ops, attempt : Nat] /\ replies' \subseteq Reply /\ calls' \subseteq Frame
    BY <1>1 DEF TypeOK
  <2>3. asks' \in [Ops -> Ask \union {NoAsk}] /\ forgotten' \subseteq Ops
    BY <1>1 DEF TypeOK, Ask
  <2>4. QED
    BY <1>1, <1>4, <1>5, <2>1, <2>2, <2>3, CloudTypes
<1>7. OpInv(op)'
  <2>1. CannotRun(op) => CannotRun(op)'
    BY <1>3 DEF CannotRun, InHand
  <2>2. Void(op) => Void(op)'
    BY <2>1 DEF Void
  <2>3. RunsOnce(op)'
    BY <1>1, <1>3, <2>1 DEF OpInv, RunsOnce
  <2>4. LogTrue(op)'
    BY <1>1 DEF OpInv, LogTrue
  <2>5. ServedTrue(op)'
    BY <1>1, <1>2 DEF OpInv, ServedTrue, InHand, MayAct
  <2>6. AnswersTrue(op)'
    <3>1. s.stage = "answered" => AnswerTrue(op, s.answer)'
      BY <2>2 DEF AnswerTrue
    <3>2. AnswerTrue(op, NoAsk.answer)' /\ NoAsk.answer # "absent"
      BY EmptySlots DEF AnswerTrue
    <3>3. QED
      BY <1>2, <1>3, <3>1, <3>2 DEF AnswersTrue
  <2>7. SaidTrue(op)'
    BY <1>1, <2>2 DEF OpInv, SaidTrue
  <2>8. Channels(op)' /\ Stages(op)'
    BY <1>2, <1>3, <1>4 DEF Channels, Stages
  <2>9. Timers(op)'
    BY <1>1, <1>2, <1>3, <1>4 DEF Timers, TypeOK
  <2>10. FrameTimes(op)'
    <3>1. ASSUME NEW f \in calls, f.op = op
          PROVE  /\ f.sent <= now /\ f.attempt <= s.attempt
                 /\ s.stage \in {"asking", "answered"} => f.sent + StepBudget <= now
                 /\ notes'[op] # NoNote => f.sent < now
      BY <1>1, <1>3, <3>1, CallTypes, Times DEF OpInv, FrameTimes, TypeOK
    <3>2. QED
      BY <1>2, <1>3, <1>4, <3>1 DEF FrameTimes
  <2>11. Kept(op)'
    <3>1. ~Known(op)'
      BY <1>2 DEF Known
    <3>2. ASSUME elog[op] # NoRecord PROVE DoneBy(op, end)'
      <4>1. \A f \in calls : f.op = op => f.sent + MaxDelay <= end
        BY <1>1, <3>2 DEF OpInv, Kept, DoneBy
      <4>2. notes'[op].status = "checking" => notes'[op].created + Horizon + QueryTimeout <= end
        BY <1>3, <1>4, <3>2, EmptySlots
      <4>3. QED
        BY <1>2, <1>3, <3>2, <4>1, <4>2 DEF DoneBy
    <3>3. QED
      BY <3>1, <3>2 DEF Kept
  <2>12. QED
    BY <2>3, <2>4, <2>5, <2>6, <2>7, <2>8, <2>9, <2>10, <2>11 DEF OpInv
<1>8. ASSUME NEW x \in Ops, x # op PROVE OpInv(x)'
  <2>1. Untouched(x)
    BY <1>2, <1>4, <1>5, <1>8 DEF Untouched
  <2>2. QED
    BY <2>1, UntouchedKept DEF IInv
<1>9. QED
  BY <1>6, <1>7, <1>8 DEF IInv

\* A dispatch: one more frame of a step that may still send one.
LEMMA DispatchKeeps ==
  ASSUME IInv, NEW op \in Ops, NEW s \in Step, Dispatch(op, s),
         step[op].stage \in {"new", "pending", "answered"},
         step[op].stage # "new" => s.attempt > step[op].attempt,
         UNCHANGED <<now, elog, serving, effects, replies, notes, asks, forgotten, told>>,
         elog[op] # NoRecord =>
           /\ now + StepBudget + 2 * QueryTimeout + Horizon <= elog[op].touched + Retention
           /\ now + MaxDelay <= elog[op].touched + Retention
  PROVE  IInv'
<1> DEFINE f0 == [op |-> op, subject |-> Vehicle, params |-> s.params,
                  confirmed |-> s.confirmed, attempt |-> s.attempt, sent |-> now]
           s0 == [s EXCEPT !.stage = "waiting", !.answer = "", !.deadline = now + StepBudget]
<1>1. TypeOK /\ OpInv(op) /\ now \in Nat
  BY DEF IInv, TypeOK
<1>2. step' = [step EXCEPT ![op] = s0] /\ calls' = calls \union {f0}
      /\ open' = open \union {Channel(CallOf(f0))}
  BY DEF Dispatch
<1>3. f0 \in Frame /\ f0.op = op /\ f0.sent = now /\ f0.attempt = s.attempt
  BY <1>1, VehicleAssumption DEF Frame, Step
<1>4. s0 \in Step /\ s0.stage = "waiting" /\ s0.attempt = s.attempt /\ s0.deadline = now + StepBudget
  <2>1. now + StepBudget \in Nat
    BY <1>1, Times
  <2>2. s0 = [s EXCEPT !.stage = "waiting", !.answer = "", !.deadline = now + StepBudget]
    OBVIOUS
  <2> HIDE DEF s0
  <2>3. "" \in EdgeAnswers
    BY DEF EdgeAnswers
  <2>4. QED
    BY <2>1, <2>2, <2>3 DEF Step
<1>5. Channel(CallOf(f0)).op = op /\ Channel(CallOf(f0)).attempt = s.attempt
      /\ Channel(CallOf(f0)) \in [op : Ops, attempt : Nat]
  BY DEF Channel, CallOf, Step
<1> HIDE DEF f0, s0
<1>6. step'[op] = s0 /\ \A x \in Ops : x # op => step'[x] = step[x]
  BY <1>1, <1>2 DEF TypeOK
<1>7. /\ notes[op] = NoNote /\ asks[op] = NoAsk
      /\ CannotRun(op) => elog[op] # NoRecord
  BY UnderWay
<1>8. TypeOK'
  <2>1. step' \in [Ops -> Step] /\ open' \subseteq [op : Ops, attempt : Nat] /\ calls' \subseteq Frame
    BY <1>1, <1>2, <1>3, <1>4, <1>5 DEF TypeOK
  <2>2. asks' \in [Ops -> Ask \union {NoAsk}]
    BY <1>1 DEF TypeOK, Ask
  <2>3. QED
    BY <1>1, <2>1, <2>2, CloudTypes DEF TypeOK
<1>9. OpInv(op)'
  <2>1. CannotRun(op) => CannotRun(op)'
    BY <1>7 DEF CannotRun, InHand
  <2>2. Void(op) => Void(op)'
    BY <2>1 DEF Void
  <2>3. RunsOnce(op)'
    BY <1>1, <1>7, <2>1 DEF OpInv, RunsOnce
  <2>4. LogTrue(op)'
    BY <1>1 DEF OpInv, LogTrue
  <2>5. ASSUME InHand(op)
        PROVE  step[op].stage # "new" /\ serving.call.attempt <= step[op].attempt
               /\ serving.call.attempt < s.attempt
    BY <1>1, <2>5, CallTypes, RecordTypes DEF OpInv, ServedTrue, InHand, Step
  <2>6. ServedTrue(op)'
    <3>1. InHand(op)' => InHand(op)
      BY DEF InHand
    <3>2. QED
      BY <1>1, <1>4, <1>6, <2>5, <3>1, CallTypes DEF OpInv, ServedTrue, MayAct, InHand, Step
  <2>7. AnswersTrue(op)'
    <3>1. \A r \in replies : r.op # op
      BY <1>1 DEF OpInv, Channels
    <3>2. AnswerTrue(op, NoAsk.answer)' /\ NoAsk.answer # "absent"
      BY EmptySlots DEF AnswerTrue
    <3>3. QED
      BY <1>4, <1>6, <1>7, <3>1, <3>2 DEF AnswersTrue
  <2>8. SaidTrue(op)'
    BY <1>1, <2>2 DEF OpInv, SaidTrue, Said
  <2>9. Channels(op)' /\ Stages(op)'
    BY <1>1, <1>2, <1>4, <1>5, <1>6, <1>7 DEF OpInv, Channels, Stages
  <2>10. Timers(op)'
    BY <1>1, <1>4, <1>6, <1>7, Times DEF Timers
  <2>11. FrameTimes(op)'
    <3>1. ASSUME NEW f \in calls', f.op = op
          PROVE  f.sent <= now /\ f.attempt <= s.attempt
      <4>1. CASE f = f0
        BY <1>1, <1>3, <4>1 DEF Step
      <4>2. CASE f \in calls
        BY <1>1, <3>1, <4>2, CallTypes, RecordTypes DEF OpInv, FrameTimes, Step
      <4>3. QED
        BY <1>2, <4>1, <4>2
    <3>2. \A f \in calls' : f.sent \in Nat
      BY <1>8, CallTypes DEF TypeOK, Frame
    <3>3. QED
      BY <1>1, <1>4, <1>6, <1>7, <3>1, <3>2, Times DEF FrameTimes
  <2>12. Kept(op)'
    <3>1. ~Known(op)'
      <4>1. \A r \in replies : r.op # op
        BY <1>1 DEF OpInv, Channels
      <4>2. InHand(op)' => InHand(op)
        BY DEF InHand
      <4>3. InHand(op) => serving.call.attempt # s.attempt
        BY <2>5, CallTypes DEF IInv, Step, InHand
      <4>4. QED
        BY <1>4, <1>6, <4>1, <4>2, <4>3 DEF Known
    <3>2. ASSUME NEW end, end = elog[op].touched + Retention, elog[op] # NoRecord
          PROVE  DoneBy(op, end)'
      <4>1. \A f \in calls' : f.op = op => f.sent + MaxDelay <= end
        BY <1>1, <1>2, <1>3, <3>2 DEF OpInv, Kept, DoneBy
      <4>2. QED
        BY <1>4, <1>6, <1>7, <3>2, <4>1, EmptySlots DEF DoneBy
    <3>3. QED
      BY <3>1, <3>2 DEF Kept
  <2>13. QED
    BY <2>3, <2>4, <2>6, <2>7, <2>8, <2>9, <2>10, <2>11, <2>12 DEF OpInv
<1>10. ASSUME NEW x \in Ops, x # op PROVE OpInv(x)'
  <2>1. Untouched(x)
    BY <1>2, <1>3, <1>5, <1>6, <1>10 DEF Untouched, Said
  <2>2. QED
    BY <2>1, UntouchedKept DEF IInv
<1>11. QED
  BY <1>8, <1>9, <1>10 DEF IInv

(***************************************************************************)
(* The step executor.                                                      *)
(***************************************************************************)
LEMMA StartKeeps ==
  ASSUME IInv, NEW op \in Ops, Start(op)
  PROVE  IInv'
<1>1. step[op].stage = "new" /\ TypeOK /\ elog[op] = NoRecord
  BY DEF IInv, OpInv, Stages, Start
<1>2. [step[op] EXCEPT !.attempt = 1] \in Step
  BY <1>1 DEF TypeOK, Step
<1>3. QED
  BY <1>1, <1>2, DispatchKeeps DEF Start, edgeVars

\* The user's answer comes before the record could be purged.
LEMMA ResumeKeeps ==
  ASSUME IInv, NEW op \in Ops, CanResume(op), NEW s \in Step, Dispatch(op, s),
         s.attempt = step[op].attempt + 1, UNCHANGED <<now, edgeVars, notes, asks, forgotten, told>>
  PROVE  IInv'
<1>1. /\ step[op].stage = "pending" /\ now < step[op].deadline /\ TypeOK /\ OpInv(op)
      /\ now \in Nat /\ step[op].deadline \in Nat /\ step[op].attempt \in Nat
  BY RecordTypes DEF IInv, CanResume
<1>2. ASSUME elog[op] # NoRecord
      PROVE  /\ now + StepBudget + 2 * QueryTimeout + Horizon <= elog[op].touched + Retention
             /\ now + MaxDelay <= elog[op].touched + Retention
  <2>1. elog[op].touched \in Nat
    BY <1>1, <1>2, RecordTypes
  <2>2. /\ step[op].deadline + StepBudget + 2 * QueryTimeout + Horizon <= elog[op].touched + Retention
        /\ step[op].deadline + MaxDelay <= elog[op].touched + Retention
    BY <1>1, <1>2 DEF OpInv, Kept, DoneBy
  <2>3. QED
    BY <1>1, <2>1, <2>2, Times
<1>3. QED
  BY <1>1, <1>2, DispatchKeeps DEF edgeVars

LEMMA AgainIs ==
  ASSUME TypeOK, NEW op \in Ops
  PROVE  /\ [Again(step[op]) EXCEPT !.confirmed = TRUE] \in Step
         /\ [Again(step[op]) EXCEPT !.confirmed = TRUE].attempt = step[op].attempt + 1
         /\ \A p \in Params :
              /\ [Again(step[op]) EXCEPT !.params = p] \in Step
              /\ [Again(step[op]) EXCEPT !.params = p].attempt = step[op].attempt + 1
<1>1. step[op] \in Step
  BY DEF TypeOK
<1>2. ASSUME NEW s \in Step
      PROVE  Again(s) \in Step /\ Again(s).attempt = s.attempt + 1
  <2>1. s.attempt \in Nat /\ s.attempt + 1 \in Nat
    BY DEF Step
  <2>2. Again(s) = [s EXCEPT !.attempt = s.attempt + 1, !.resent = FALSE]
    BY DEF Again
  <2>3. QED
    BY <2>1, <2>2 DEF Step
<1>3. ASSUME NEW a \in Step
      PROVE  /\ [a EXCEPT !.confirmed = TRUE] \in Step
             /\ [a EXCEPT !.confirmed = TRUE].attempt = a.attempt
             /\ \A p \in Params : [a EXCEPT !.params = p] \in Step /\ [a EXCEPT !.params = p].attempt = a.attempt
  BY DEF Step
<1>4. QED
  BY <1>1, <1>2, <1>3

LEMMA ConfirmKeeps ==
  ASSUME IInv, NEW op \in Ops, Confirm(op)
  PROVE  IInv'
BY AgainIs, ResumeKeeps DEF IInv, Confirm

LEMMA RefillKeeps ==
  ASSUME IInv, NEW op \in Ops, NEW p \in Params, Refill(op, p)
  PROVE  IInv'
BY AgainIs, ResumeKeeps DEF IInv, Refill

\* The steps that only end.
LEMMA StageSet ==
  ASSUME TypeOK, NEW op \in Ops, NEW stage, stage \in {"ended", "answered", "asking", "pending"},
         Goto(op, stage)
  PROVE  /\ [step[op] EXCEPT !.stage = stage] \in Step
         /\ [step[op] EXCEPT !.stage = stage].stage = stage
         /\ [step[op] EXCEPT !.stage = stage].attempt = step[op].attempt
         /\ step' = [step EXCEPT ![op] = [step[op] EXCEPT !.stage = stage]]
<1>1. step[op] \in Step
  BY DEF TypeOK
<1>2. QED
  BY <1>1 DEF Step, Goto

LEMMA EndsKeeps ==
  ASSUME IInv, NEW op \in Ops, Goto(op, "ended"), step[op].stage \notin {"new", "ended"},
         UNCHANGED <<now, elog, serving, effects, calls, asks, forgotten>>,
         open' \subseteq {c \in open : c.op # op}, replies' \subseteq {r \in replies : r.op # op},
         NotesOnly(op), TellsOnly(op),
         notes'[op] # notes[op] =>
           \A f \in calls : f.op = op => f.sent + StepBudget <= now,
         Said(op, "executed")' => Said(op, "executed") \/ effects[op] = 1,
         Said(op, "failed")' => Said(op, "failed") \/ Void(op),
         Said(op, "not_executed")' => Said(op, "not_executed") \/ Void(op),
         notes'[op] # notes[op] /\ elog[op] # NoRecord =>
           now + Horizon + QueryTimeout <= elog[op].touched + Retention
  PROVE  IInv'
<1> DEFINE s == [step[op] EXCEPT !.stage = "ended"]
<1>1. s \in Step /\ s.stage = "ended" /\ s.attempt = step[op].attempt /\ step' = [step EXCEPT ![op] = s]
  BY StageSet DEF IInv
<1> HIDE DEF s
<1>2. PICK end : end = elog[op].touched + Retention
  OBVIOUS
<1>3. QED
  BY <1>1, <1>2, StepMoves

LEMMA AbandonKeeps ==
  ASSUME IInv, NEW op \in Ops, Abandon(op)
  PROVE  IInv'
<1>1. /\ Goto(op, "ended") /\ step[op].stage = "pending"
      /\ UNCHANGED <<now, elog, serving, effects, replies, open, calls, notes, asks, forgotten, told>>
  BY DEF Abandon, edgeVars
<1>2. \A c \in open \union replies : c.op # op
  BY <1>1 DEF IInv, OpInv, Channels
<1>3. NotesOnly(op) /\ TellsOnly(op)
  BY <1>1 DEF NotesOnly, TellsOnly
<1>4. QED
  BY <1>1, <1>2, <1>3, EndsKeeps DEF Said

LEMMA ReceiveReplyKeeps ==
  ASSUME IInv, NEW op \in Ops, ReceiveReply(op)
  PROVE  IInv'
<1>1. /\ TypeOK /\ OpInv(op) /\ step[op].stage = "waiting"
      /\ open' = {c \in open : c.op # op} /\ replies' = {r \in replies : r.op # op}
      /\ UNCHANGED <<now, elog, serving, effects, calls, notes, asks, forgotten>>
  BY DEF IInv, ReceiveReply, Close
<1>2. PICK r \in replies :
        /\ r.op = op
        /\ \/ /\ r.kind \in {"need_confirm", "need_slot"}
              /\ step' = [step EXCEPT ![op].stage = "pending", ![op].answer = r.kind,
                                      ![op].deadline = now + PendingTtl]
              /\ UNCHANGED told
           \/ /\ r.kind \notin {"need_confirm", "need_slot"}
              /\ Goto(op, "ended")
              /\ IF r.kind \in Claims THEN Tell(op, r.kind) ELSE UNCHANGED told
  BY DEF ReceiveReply
<1>3. NotesOnly(op) /\ notes'[op] = notes[op]
  BY <1>1 DEF NotesOnly
<1>4. CASE /\ r.kind \in {"need_confirm", "need_slot"}
           /\ step' = [step EXCEPT ![op].stage = "pending", ![op].answer = r.kind,
                                   ![op].deadline = now + PendingTtl]
           /\ UNCHANGED told
  <2> DEFINE s == [step[op] EXCEPT !.stage = "pending", !.answer = r.kind,
                                   !.deadline = now + PendingTtl]
  <2>1. now \in Nat /\ now + PendingTtl \in Nat /\ step[op] \in Step /\ step \in [Ops -> Step]
    BY <1>1, Times DEF TypeOK
  <2>2. step' = [step EXCEPT ![op] = s]
    BY <1>4, <2>1
  <2>3. s \in Step /\ s.stage = "pending" /\ s.deadline = now + PendingTtl
        /\ s.attempt = step[op].attempt
    BY <1>4, <2>1 DEF Step
  <2> HIDE DEF s
  <2>4. PICK end : end = elog[op].touched + Retention
    OBVIOUS
  <2>5. ASSUME elog[op] # NoRecord
        PROVE  /\ s.deadline + StepBudget + 2 * QueryTimeout + Horizon <= end
               /\ s.deadline + MaxDelay <= end
    <3>1. elog[op].touched \in Nat /\ step[op].deadline \in Nat
      BY <1>1, <2>5, RecordTypes
    <3>2. now <= step[op].deadline /\ step[op].deadline <= elog[op].touched + StepBudget
      BY <1>1, <1>2, <1>4, <2>5 DEF OpInv, Timers, Kept, Known
    <3>3. QED
      BY <2>1, <2>3, <2>4, <3>1, <3>2, Times
  <2>6. TellsOnly(op) /\ \A claim : Said(op, claim)' => Said(op, claim)
    BY <1>4 DEF TellsOnly, Said
  <2>7. now <= s.deadline /\ s.deadline <= now + PendingTtl
    BY <2>1, <2>3, Times
  <2>8. QED
    BY <1>1, <1>3, <2>2, <2>3, <2>4, <2>5, <2>6, <2>7, StepMoves
<1>5. CASE /\ r.kind \notin {"need_confirm", "need_slot"}
           /\ Goto(op, "ended")
           /\ IF r.kind \in Claims THEN Tell(op, r.kind) ELSE UNCHANGED told
  <2>1. TellsOnly(op) /\ \A claim \in Claims : Said(op, claim)' => Said(op, claim) \/ claim = r.kind
    BY <1>5 DEF TellsOnly, Tell, Said
  <2>2. AnswerTrue(op, r.kind)
    BY <1>1, <1>2 DEF OpInv, AnswersTrue
  <2>3. /\ Said(op, "executed")' => Said(op, "executed") \/ effects[op] = 1
        /\ Said(op, "failed")' => Said(op, "failed") \/ Void(op)
        /\ Said(op, "not_executed")' => Said(op, "not_executed") \/ Void(op)
    BY <2>1, <2>2 DEF AnswerTrue, Claims
  <2>4. QED
    BY <1>1, <1>3, <1>5, <2>1, <2>3, EndsKeeps
<1>6. QED
  BY <1>2, <1>4, <1>5

\* What registering an outcome leaves, and what may be said with it.
LEMMA NoteAndTellIs ==
  ASSUME TypeOK, NEW op \in Ops, NEW status, NoteAndTell(op, status)
  PROVE  /\ NotesOnly(op) /\ TellsOnly(op)
         /\ \A claim \in Claims : Said(op, claim)' =>
              \/ Said(op, claim)
              \/ claim = "executed" /\ status = "done"
              \/ claim = "checking" /\ notes'[op] # notes[op]
              \/ claim = "not_executed" /\ status = "cancelled"
<1>1. NoteOutcome(status) \in Verdicts \union {"checking"}
  BY DEF NoteOutcome, SyncOutcome, Verdicts
<1>2. NoteOutcome(status) = "not_executed" => status = "cancelled"
  BY DEF NoteOutcome, SyncOutcome
<1>3. status = "done" => NoteOutcome(status) = "done"
  BY DEF NoteOutcome, SyncOutcome
<1>4. NotesOnly(op)
  <2>1. CASE notes' = notes
    BY <2>1 DEF NotesOnly
  <2>2. CASE Registers(op, status)
    <3> DEFINE v == [status |-> NoteOutcome(status), created |-> now, next |-> now + 1]
    <3>1. v \in Note /\ v.created = now
      BY <1>1 DEF Note, TypeOK
    <3>2. notes' = [notes EXCEPT ![op] = v]
      BY <2>2 DEF Registers
    <3> HIDE DEF v
    <3>3. QED
      BY <3>1, <3>2 DEF NotesOnly
  <2>3. QED
    BY <2>1, <2>2 DEF NoteAndTell
<1>5. \/ status = "done" /\ Tell(op, "executed")
      \/ MayPromise(op) /\ Tell(op, "checking")
      \/ status = "cancelled" /\ Tell(op, "not_executed")
      \/ UNCHANGED told
  BY <1>2, <1>3 DEF NoteAndTell
<1>6. QED
  BY <1>4, <1>5 DEF TellsOnly, Tell, Said, MayPromise, Claims

LEMMA TimeOutKeeps ==
  ASSUME IInv, NEW op \in Ops, TimeOut(op)
  PROVE  IInv'
<1>1. /\ TypeOK /\ OpInv(op) /\ step[op].stage = "waiting" /\ now >= step[op].deadline
      /\ open' = {c \in open : c.op # op} /\ replies' = {r \in replies : r.op # op}
      /\ UNCHANGED <<now, elog, serving, effects, calls, asks, forgotten>>
  BY DEF IInv, TimeOut, Close
<1>2. now \in Nat /\ step[op].deadline \in Nat /\ step[op].deadline = now
  BY <1>1, RecordTypes DEF OpInv, Timers
<1>3. \A f \in calls : f.op = op => f.sent + StepBudget <= now
  BY <1>1, <1>2 DEF OpInv, FrameTimes
<1>4. elog[op] # NoRecord => now + 2 * QueryTimeout + Horizon <= elog[op].touched + Retention
  BY <1>1, <1>2 DEF OpInv, Kept, DoneBy
<1>5. CASE /\ step' = [step EXCEPT ![op].stage = "asking", ![op].deadline = now + QueryTimeout]
           /\ UNCHANGED <<notes, told>>
  <2> DEFINE s == [step[op] EXCEPT !.stage = "asking", !.deadline = now + QueryTimeout]
  <2>1. now + QueryTimeout \in Nat /\ step[op] \in Step /\ step \in [Ops -> Step]
    BY <1>1, <1>2, Times DEF TypeOK
  <2>2. step' = [step EXCEPT ![op] = s]
    BY <1>5, <2>1
  <2>3. s \in Step /\ s.stage = "asking" /\ s.deadline = now + QueryTimeout
        /\ s.attempt = step[op].attempt
    BY <2>1 DEF Step
  <2> HIDE DEF s
  <2>4. PICK end : end = elog[op].touched + Retention
    OBVIOUS
  <2>5. elog[op] # NoRecord => s.deadline + QueryTimeout + Horizon <= end
    <3>1. elog[op] # NoRecord => elog[op].touched \in Nat
      BY <1>1, RecordTypes
    <3>2. QED
      BY <1>2, <1>4, <2>3, <2>4, <3>1, Times
  <2>6. NotesOnly(op) /\ TellsOnly(op) /\ notes'[op] = notes[op] /\ \A claim : Said(op, claim)' => Said(op, claim)
    BY <1>5 DEF NotesOnly, TellsOnly, Said
  <2>7. now <= s.deadline /\ s.deadline <= now + QueryTimeout
    BY <1>2, <2>3, Times
  <2>8. QED
    BY <1>1, <1>3, <2>2, <2>3, <2>4, <2>5, <2>6, <2>7, StepMoves
<1>6. CASE Goto(op, "ended") /\ NoteAndTell(op, "absent")
  <2>1. /\ NotesOnly(op) /\ TellsOnly(op)
        /\ \A claim \in {"executed", "failed", "not_executed"} : Said(op, claim)' => Said(op, claim)
    BY <1>1, <1>6, NoteAndTellIs DEF Claims
  <2>2. elog[op] # NoRecord => now + Horizon + QueryTimeout <= elog[op].touched + Retention
    <3>1. elog[op] # NoRecord => elog[op].touched \in Nat
      BY <1>1, RecordTypes
    <3>2. QED
      BY <1>2, <1>4, <3>1, Times
  <2>3. QED
    BY <1>1, <1>3, <1>6, <2>1, <2>2, EndsKeeps
<1>7. QED
  BY <1>5, <1>6 DEF TimeOut

LEMMA UnreachableKeeps ==
  ASSUME IInv, NEW op \in Ops, Unreachable(op)
  PROVE  IInv'
<1>1. /\ step[op].stage = "waiting" /\ Goto(op, "ended") /\ Tell(op, "unreachable")
      /\ open' = {c \in open : c.op # op} /\ replies' = {r \in replies : r.op # op}
      /\ UNCHANGED <<now, elog, serving, effects, calls, notes, asks, forgotten>>
  BY DEF Unreachable, Close
<1>2. /\ NotesOnly(op) /\ TellsOnly(op) /\ notes'[op] = notes[op]
      /\ \A claim \in {"executed", "failed", "not_executed"} : Said(op, claim)' => Said(op, claim)
  BY <1>1 DEF NotesOnly, TellsOnly, Tell, Said, Claims
<1>3. QED
  BY <1>1, <1>2, EndsKeeps

\* What the vehicle's log answers is true, and nothing of it is cached: "absent"
\* means that there is no record at that moment.
LEMMA QueryTrue ==
  ASSUME IInv, NEW op \in Ops, CanQuery
  PROVE  /\ QueryResult(op) \in EdgeAnswers /\ AnswerTrue(op, QueryResult(op))
         /\ QueryResult(op) = "absent" => elog[op] = NoRecord
<1>1. elog[op] \in Record \union {NoRecord} /\ now \in Nat /\ OpInv(op)
  BY DEF IInv, TypeOK
<1>2. PICK q : q = QueryResult(op)
  OBVIOUS
<1>3. SoundStatus(q, elog[op], now)
  BY <1>1, <1>2, EffectiveSound DEF QueryResult
<1>4. q \in EdgeAnswers /\ (q = "absent" => elog[op] = NoRecord)
  BY <1>3 DEF SoundStatus, EdgeAnswers
<1>5. q \in {"done", "executed"} => effects[op] = 1
  BY <1>1, <1>3 DEF SoundStatus, OpInv, LogTrue, Statuses
<1>6. ASSUME q \in {"failed", "cancelled", "not_executed"} PROVE Void(op)
  <2>1. /\ elog[op] # NoRecord
        /\ \/ elog[op].status \in {"failed", "cancelled"}
           \/ Awaiting(elog[op]) /\ AwaitingExpired(elog[op], now)
    BY <1>3, <1>6 DEF SoundStatus, Statuses
  <2>2. effects[op] = 0
    BY <1>1, <2>1 DEF OpInv, LogTrue
  <2>3. CannotRun(op)
    BY <2>1 DEF CannotRun, InHand, CanQuery, Awaiting
  <2>4. QED
    BY <2>2, <2>3 DEF Void
<1>7. AnswerTrue(op, q)
  BY <1>5, <1>6 DEF AnswerTrue
<1>8. QED
  BY <1>2, <1>4, <1>7

\* An answer to the step's own query, or none.
LEMMA AskingEnds ==
  ASSUME IInv, NEW op \in Ops, step[op].stage = "asking", NEW answer \in EdgeAnswers,
         step' = [step EXCEPT ![op].stage = "answered", ![op].answer = answer],
         AnswerTrue(op, answer), answer = "absent" => elog[op] = NoRecord,
         UNCHANGED <<now, edgeVars, open, calls, notes, asks, forgotten, told>>
  PROVE  IInv'
<1>1. /\ TypeOK /\ OpInv(op) /\ step[op] \in Step /\ step \in [Ops -> Step]
      /\ UNCHANGED <<now, elog, serving, effects, replies, open, calls, notes, asks, forgotten, told>>
  BY DEF IInv, TypeOK, edgeVars
<1> DEFINE s == [step[op] EXCEPT !.stage = "answered", !.answer = answer]
<1>2. step' = [step EXCEPT ![op] = s]
  BY <1>1
<1>3. /\ s \in Step /\ s.stage = "answered" /\ s.answer = answer
      /\ s.attempt = step[op].attempt /\ s.deadline = step[op].deadline
  BY <1>1 DEF Step
<1> HIDE DEF s
<1>4. \A c \in open \union replies : c.op # op
  BY <1>1 DEF OpInv, Channels
<1>5. /\ now <= s.deadline /\ s.deadline <= now + QueryTimeout
      /\ \A f \in calls : f.op = op => f.sent + StepBudget <= now
  BY <1>1, <1>3 DEF OpInv, Timers, FrameTimes
<1>6. PICK end : end = elog[op].touched + Retention
  OBVIOUS
<1>7. elog[op] # NoRecord => s.deadline + QueryTimeout + Horizon <= end
  BY <1>1, <1>3, <1>6 DEF OpInv, Kept, DoneBy
<1>8. NotesOnly(op) /\ TellsOnly(op) /\ notes'[op] = notes[op]
      /\ \A claim : Said(op, claim)' => Said(op, claim)
  BY <1>1 DEF NotesOnly, TellsOnly, Said
<1>9. open' \subseteq {c \in open : c.op # op} /\ replies' \subseteq {r \in replies : r.op # op}
  BY <1>1, <1>4
<1>10. s.stage = "answered" => AnswerTrue(op, s.answer) /\ (s.answer = "absent" => elog[op] = NoRecord)
  BY <1>3
<1>11. QED
  BY <1>1, <1>2, <1>3, <1>5, <1>6, <1>7, <1>8, <1>9, <1>10, StepMoves

LEMMA QueryAnsweredKeeps ==
  ASSUME IInv, NEW op \in Ops, QueryAnswered(op)
  PROVE  IInv'
<1>1. step[op].stage = "asking" /\ CanQuery
  BY DEF QueryAnswered
<1>2. PICK q : q = QueryResult(op)
  OBVIOUS
<1>3. /\ step' = [step EXCEPT ![op].stage = "answered", ![op].answer = q]
      /\ UNCHANGED <<now, edgeVars, open, calls, notes, asks, forgotten, told>>
  BY <1>2 DEF QueryAnswered
<1>4. q \in EdgeAnswers /\ AnswerTrue(op, q) /\ (q = "absent" => elog[op] = NoRecord)
  BY <1>1, <1>2, QueryTrue
<1>5. QED
  BY <1>1, <1>3, <1>4, AskingEnds

LEMMA QueryUnansweredKeeps ==
  ASSUME IInv, NEW op \in Ops, QueryUnanswered(op)
  PROVE  IInv'
<1>1. "" \in EdgeAnswers /\ AnswerTrue(op, "")
  BY DEF EdgeAnswers, AnswerTrue
<1>2. QED
  BY <1>1, AskingEnds DEF QueryUnanswered

LEMMA RecoverKeeps ==
  ASSUME IInv, NEW op \in Ops, Recover(op)
  PROVE  IInv'
<1>1. /\ TypeOK /\ OpInv(op) /\ step[op] \in Step /\ step[op].stage = "answered"
      /\ UNCHANGED <<now, elog, serving, effects, replies, asks, forgotten>>
  BY DEF IInv, TypeOK, Recover, edgeVars
<1>2. PICK status : status = step[op].answer
  OBVIOUS
<1>3. now \in Nat /\ step[op].deadline \in Nat /\ now <= step[op].deadline
  BY <1>1, RecordTypes DEF OpInv, Timers
<1>4. AnswerTrue(op, status)
  BY <1>1, <1>2 DEF OpInv, AnswersTrue
<1>5. ASSUME elog[op] # NoRecord PROVE elog[op].touched \in Nat
  BY <1>1, <1>5, RecordTypes
<1>6. CASE /\ status = "absent"
           /\ Dispatch(op, [step[op] EXCEPT !.attempt = @ + 1, !.resent = TRUE])
           /\ UNCHANGED <<notes, told>>
  <2> DEFINE s == [step[op] EXCEPT !.attempt = step[op].attempt + 1, !.resent = TRUE]
  <2>1. step[op].attempt \in Nat /\ step[op].attempt + 1 \in Nat
    BY <1>1, RecordTypes
  <2>2. s \in Step /\ s.attempt = step[op].attempt + 1
    BY <1>1, <2>1 DEF Step
  <2>3. Dispatch(op, s)
    BY <1>6
  <2> HIDE DEF s
  <2>4. ASSUME elog[op] # NoRecord
        PROVE  /\ now + StepBudget + 2 * QueryTimeout + Horizon <= elog[op].touched + Retention
               /\ now + MaxDelay <= elog[op].touched + Retention
    <3>1. elog[op].touched >= now
      BY <1>1, <1>2, <1>6, <2>4 DEF OpInv, AnswersTrue
    <3>2. QED
      BY <1>3, <1>5, <2>4, <3>1, Times
  <2>5. s.attempt > step[op].attempt
    BY <2>1, <2>2
  <2>6. QED
    BY <1>1, <1>6, <2>2, <2>3, <2>4, <2>5, DispatchKeeps
<1>7. CASE /\ Goto(op, "ended") /\ UNCHANGED <<open, calls>>
           /\ \/ status = "failed" /\ Tell(op, "failed") /\ UNCHANGED notes
              \/ NoteAndTell(op, status)
  <2>1. \A c \in open \union replies : c.op # op
    BY <1>1 DEF OpInv, Channels
  <2>2. open' \subseteq {c \in open : c.op # op} /\ replies' \subseteq {r \in replies : r.op # op}
    BY <1>1, <1>7, <2>1
  <2>3. \A f \in calls : f.op = op => f.sent + StepBudget <= now
    BY <1>1 DEF OpInv, FrameTimes
  <2>4. elog[op] # NoRecord => now + Horizon + QueryTimeout <= elog[op].touched + Retention
    <3>1. elog[op] # NoRecord =>
            step[op].deadline + QueryTimeout + Horizon <= elog[op].touched + Retention
      BY <1>1 DEF OpInv, Kept, DoneBy
    <3>2. QED
      BY <1>3, <1>5, <3>1, Times
  <2>5. /\ NotesOnly(op) /\ TellsOnly(op)
        /\ Said(op, "executed")' => Said(op, "executed") \/ effects[op] = 1
        /\ Said(op, "failed")' => Said(op, "failed") \/ Void(op)
        /\ Said(op, "not_executed")' => Said(op, "not_executed") \/ Void(op)
    <3>1. CASE status = "failed" /\ Tell(op, "failed") /\ UNCHANGED notes
      <4>1. \A claim \in Claims : Said(op, claim)' => Said(op, claim) \/ claim = "failed"
        BY <3>1 DEF Tell, Said
      <4>2. Void(op)
        BY <1>4, <3>1 DEF AnswerTrue
      <4>3. QED
        BY <3>1, <4>1, <4>2 DEF NotesOnly, TellsOnly, Claims
    <3>2. CASE NoteAndTell(op, status)
      <4>1. /\ NotesOnly(op) /\ TellsOnly(op)
            /\ Said(op, "executed")' => Said(op, "executed") \/ status = "done"
            /\ Said(op, "failed")' => Said(op, "failed")
            /\ Said(op, "not_executed")' => Said(op, "not_executed") \/ status = "cancelled"
        BY <1>1, <3>2, NoteAndTellIs DEF Claims
      <4>2. QED
        BY <1>4, <4>1 DEF AnswerTrue
    <3>3. QED
      BY <1>7, <3>1, <3>2
  <2>6. QED
    BY <1>1, <1>7, <2>2, <2>3, <2>4, <2>5, EndsKeeps
<1>8. QED
  BY <1>2, <1>6, <1>7 DEF Recover, Resends

\* A restart of the planner drops what is in flight; nothing is said by it.
LEMMA PlannerRestartsKeeps ==
  ASSUME IInv, PlannerRestarts
  PROVE  IInv'
<1>1. /\ TypeOK /\ open' = {} /\ replies' = {} /\ asks' = [op \in Ops |-> NoAsk]
      /\ UNCHANGED <<now, elog, serving, effects, calls, notes, forgotten, told>>
  BY DEF IInv, PlannerRestarts
<1>2. ASSUME NEW op \in Ops
      PROVE  /\ step'[op] \in Step
             /\ step'[op].attempt = step[op].attempt /\ step'[op].deadline = step[op].deadline
             /\ \/ step'[op].stage = step[op].stage /\ step[op].stage \in {"new", "pending", "ended"}
                \/ step'[op].stage = "ended" /\ step[op].stage # "new"
  <2>1. step[op] \in Step
    BY <1>1 DEF TypeOK
  <2>2. step'[op] = IF InFlight(op) THEN [step[op] EXCEPT !.stage = "ended"] ELSE step[op]
    BY DEF PlannerRestarts
  <2>3. QED
    BY <2>1, <2>2 DEF InFlight, Step
<1>3. TypeOK'
  <2>1. step' \in [Ops -> Step]
    BY <1>2 DEF PlannerRestarts
  <2>2. QED
    BY <1>1, <2>1, CloudTypes DEF TypeOK
<1>4. ASSUME NEW op \in Ops PROVE OpInv(op)'
  <2>1. OpInv(op) /\ asks'[op] = NoAsk /\ NoAsk.answer = "none"
    BY <1>1, EmptySlots DEF IInv
  <2>2. CannotRun(op) => CannotRun(op)'
    BY <1>1, <1>2 DEF CannotRun, Stopped, Deliverable, InHand
  <2>3. Void(op) => Void(op)'
    BY <1>1, <2>2 DEF Void
  <2>4. RunsOnce(op)'
    BY <1>1, <2>1, <2>2 DEF OpInv, RunsOnce, Unasked, Overdue
  <2>5. LogTrue(op)'
    BY <1>1, <2>1 DEF OpInv, LogTrue
  <2>6. ServedTrue(op)'
    BY <1>1, <1>2, <2>1 DEF OpInv, ServedTrue, InHand
  <2>7. AnswersTrue(op)'
    <3>1. AnswerTrue(op, "none")'
      BY DEF AnswerTrue
    <3>2. step'[op].stage # "answered"
      BY <1>2
    <3>3. QED
      BY <1>1, <2>1, <3>1, <3>2 DEF AnswersTrue
  <2>8. SaidTrue(op)'
    BY <1>1, <2>1, <2>3 DEF OpInv, SaidTrue, Said
  <2>9. Channels(op)' /\ Stages(op)'
    BY <1>1, <1>2, <2>1 DEF OpInv, Channels, Stages
  <2>10. Timers(op)' /\ FrameTimes(op)'
    BY <1>1, <1>2, <2>1 DEF OpInv, Timers, FrameTimes
  <2>11. Kept(op)'
    <3>1. ~Known(op)'
      BY <1>1, <1>2 DEF Known
    <3>2. ASSUME NEW end, DoneBy(op, end) PROVE DoneBy(op, end)'
      BY <1>1, <1>2, <2>1, <3>2 DEF DoneBy
    <3>3. QED
      BY <1>1, <2>1, <3>1, <3>2 DEF OpInv, Kept
  <2>12. QED
    BY <2>4, <2>5, <2>6, <2>7, <2>8, <2>9, <2>10, <2>11 DEF OpInv
<1>5. QED
  BY <1>3, <1>4 DEF IInv

(***************************************************************************)
(* The background reconciliation works on steps that are over.             *)
(***************************************************************************)
LEMMA BackgroundKeeps ==
  ASSUME IInv, NEW op \in Ops, step[op].stage = "ended",
         UNCHANGED <<now, elog, serving, effects, replies, open, calls, step>>, forgotten' \subseteq Ops,
         NEW note \in Note \union {NoNote}, notes' = [notes EXCEPT ![op] = note],
         NEW ask \in Ask \union {NoAsk}, asks' = [asks EXCEPT ![op] = ask],
         TellsOnly(op),
         note # NoNote =>
           note.created <= now /\ \A f \in calls : f.op = op => f.sent < note.created,
         ask # NoAsk =>
           /\ ask.created <= ask.at /\ ask.at <= now /\ now <= ask.at + QueryTimeout
           /\ \A f \in calls : f.op = op => f.sent < ask.created,
         AnswerTrue(op, ask.answer),
         ask.answer = "absent" /\ ask.at - ask.created >= Grace => Void(op),
         effects[op] # 0 /\ elog[op] = NoRecord =>
           ask = NoAsk /\ (note.status = "checking" => now >= note.created + Horizon),
         elog[op] # NoRecord =>
           /\ note.status = "checking" =>
                note.created + Horizon + QueryTimeout <= elog[op].touched + Retention
           /\ ask # NoAsk => ask.at + QueryTimeout <= elog[op].touched + Retention,
         Said(op, "executed")' => Said(op, "executed") \/ effects[op] = 1,
         Said(op, "failed")' => Said(op, "failed") \/ Void(op),
         Said(op, "not_executed")' => Said(op, "not_executed") \/ Void(op)
  PROVE  IInv'
<1>1. TypeOK /\ OpInv(op)
  BY DEF IInv
<1>2. /\ notes'[op] = note /\ asks'[op] = ask
      /\ \A x \in Ops : x # op => notes'[x] = notes[x] /\ asks'[x] = asks[x]
      /\ notes' \in [Ops -> Note \union {NoNote}] /\ asks' \in [Ops -> Ask \union {NoAsk}]
  BY <1>1 DEF TypeOK, Ask
<1>3. /\ told' \subseteq [op : Ops, claim : Claims]
      /\ \A x \in Ops, claim \in Claims : x # op => (Said(x, claim)' => Said(x, claim))
  BY <1>1, TellsOnlyIs
<1>4. TypeOK'
  BY <1>1, <1>2, <1>3, CloudTypes DEF TypeOK
<1>5. OpInv(op)'
  <2>1. CannotRun(op) => CannotRun(op)'
    BY DEF CannotRun, Stopped, Deliverable, InHand
  <2>2. Void(op) => Void(op)'
    BY <2>1 DEF Void
  <2>3. RunsOnce(op)'
    BY <1>1, <1>2, <2>1 DEF OpInv, RunsOnce, Unasked, Overdue
  <2>4. LogTrue(op)' /\ ServedTrue(op)'
    BY <1>1 DEF OpInv, LogTrue, ServedTrue, InHand
  <2>5. AnswersTrue(op)'
    <3>1. ASSUME NEW answer, AnswerTrue(op, answer) PROVE AnswerTrue(op, answer)'
      BY <2>2, <3>1 DEF AnswerTrue
    <3>2. \A r \in replies' : r.op = op => AnswerTrue(op, r.kind)'
      BY <1>1, <3>1 DEF OpInv, AnswersTrue
    <3>3. AnswerTrue(op, ask.answer)'
      BY <3>1
    <3>4. step'[op].stage # "answered"
      OBVIOUS
    <3>5. QED
      BY <1>2, <2>2, <3>2, <3>3, <3>4 DEF AnswersTrue
  <2>6. SaidTrue(op)'
    BY <1>1, <2>2 DEF OpInv, SaidTrue
  <2>7. Channels(op)' /\ Stages(op)'
    BY <1>1, <1>2 DEF OpInv, Channels, Stages
  <2>8. Timers(op)'
    BY <1>1, <1>2 DEF OpInv, Timers
  <2>9. FrameTimes(op)'
    BY <1>1, <1>2 DEF OpInv, FrameTimes
  <2>10. Kept(op)'
    <3>1. Known(op)' => Known(op)
      BY DEF Known, InHand
    <3>2. ASSUME NEW end, end = elog[op].touched + Retention, elog[op] # NoRecord, DoneBy(op, end)
          PROVE  DoneBy(op, end)'
      BY <1>2, <3>2 DEF DoneBy
    <3>3. QED
      BY <1>1, <3>1, <3>2 DEF OpInv, Kept
  <2>11. QED
    BY <2>3, <2>4, <2>5, <2>6, <2>7, <2>8, <2>9, <2>10 DEF OpInv
<1>6. ASSUME NEW x \in Ops, x # op PROVE OpInv(x)'
  <2>1. Untouched(x)
    BY <1>2, <1>3, <1>6 DEF Untouched
  <2>2. QED
    BY <2>1, UntouchedKept DEF IInv
<1>7. QED
  BY <1>4, <1>5, <1>6 DEF IInv

\* What the invariant says of a record and of a query under way.
LEMMA NoteIs ==
  ASSUME IInv, NEW op \in Ops, notes[op] # NoNote
  PROVE  /\ step[op].stage = "ended" /\ notes[op] \in Note /\ notes[op].created \in Nat
         /\ notes[op].created <= now
         /\ \A f \in calls : f.op = op => f.sent < notes[op].created
BY OpTypes, RecordTypes DEF IInv, OpInv, OpType, Stages, Timers, FrameTimes

LEMMA AskIs ==
  ASSUME IInv, NEW op \in Ops, asks[op] # NoAsk
  PROVE  /\ step[op].stage = "ended" /\ asks[op] \in Ask
         /\ asks[op].at \in Nat /\ asks[op].created \in Nat
         /\ asks[op].created <= asks[op].at /\ asks[op].at <= now
         /\ now <= asks[op].at + QueryTimeout
         /\ \A f \in calls : f.op = op => f.sent < asks[op].created
         /\ elog[op] # NoRecord => asks[op].at + QueryTimeout <= elog[op].touched + Retention
         /\ ~(effects[op] # 0 /\ elog[op] = NoRecord)
<1>1. TypeOK /\ OpInv(op)
  BY DEF IInv
<1>2. asks[op] \in Ask /\ asks[op].at \in Nat /\ asks[op].created \in Nat
  BY <1>1, OpTypes, RecordTypes DEF OpType
<1>3. QED
  BY <1>1, <1>2 DEF OpInv, Stages, Timers, FrameTimes, Kept, DoneBy, RunsOnce, Unasked

\* The background writes down what it concluded, or finds the record deleted.
LEMMA VerdictIs ==
  ASSUME TypeOK, NEW op \in Ops, NEW verdict \in Verdicts, NEW created \in Nat,
         WriteVerdict(op, verdict, created)
  PROVE  /\ \/ notes' = notes
            \/ \E note \in Note : /\ notes' = [notes EXCEPT ![op] = note]
                                  /\ note.status = verdict /\ note.created = created
         /\ TellsOnly(op)
         /\ \A claim \in Claims : Said(op, claim)' =>
              Said(op, claim) \/ claim = verdict \/ (claim = "executed" /\ verdict = "done")
<1>1. CASE Writable(op)
  <2> DEFINE note == [status |-> verdict, created |-> created, next |-> 0]
  <2>1. note \in Note /\ note.status = verdict /\ note.created = created
    BY DEF Note
  <2>2. notes' = [notes EXCEPT ![op] = note]
    BY <1>1 DEF WriteVerdict
  <2> HIDE DEF note
  <2>3. \/ verdict = "done" /\ Tell(op, "executed")
        \/ verdict \in Claims /\ Tell(op, verdict)
        \/ told' = told
    BY <1>1 DEF WriteVerdict, Tell
  <2>4. QED
    BY <2>1, <2>2, <2>3 DEF TellsOnly, Tell, Said, Claims
<1>2. CASE ~Writable(op)
  BY <1>2 DEF WriteVerdict, TellsOnly, Said
<1>3. QED
  BY <1>1, <1>2

\* The background leaves a record it may not write, or only puts off.
LEMMA NoteStays ==
  ASSUME IInv, NEW op \in Ops, NEW note, note = notes[op]
  PROVE  /\ note \in Note \union {NoNote}
         /\ note # NoNote =>
              note.created <= now /\ \A f \in calls : f.op = op => f.sent < note.created
         /\ effects[op] # 0 /\ elog[op] = NoRecord =>
              (note.status = "checking" => now >= note.created + Horizon)
         /\ elog[op] # NoRecord => (note.status = "checking" =>
              note.created + Horizon + QueryTimeout <= elog[op].touched + Retention)
<1>1. TypeOK /\ OpInv(op)
  BY DEF IInv
<1>2. note \in Note \union {NoNote}
  BY <1>1, OpTypes DEF OpType
<1>3. QED
  BY <1>1, <1>2, NoteIs DEF OpInv, Kept, DoneBy, RunsOnce, Unasked, Overdue

LEMMA VerdictKeeps ==
  ASSUME IInv, NEW op \in Ops, step[op].stage = "ended",
         UNCHANGED <<now, edgeVars, open, calls, step, forgotten>>,
         asks' = [asks EXCEPT ![op] = NoAsk],
         NEW verdict \in Verdicts, NEW created \in Nat, WriteVerdict(op, verdict, created),
         created <= now, \A f \in calls : f.op = op => f.sent < created,
         verdict = "done" => effects[op] = 1,
         verdict \in {"failed", "not_executed"} => Void(op)
  PROVE  IInv'
<1>1. TypeOK /\ UNCHANGED <<now, elog, serving, effects, replies, open, calls, step>>
      /\ forgotten' \subseteq Ops
  BY DEF IInv, TypeOK, edgeVars
<1>2. /\ TellsOnly(op)
      /\ Said(op, "executed")' => Said(op, "executed") \/ effects[op] = 1
      /\ Said(op, "failed")' => Said(op, "failed") \/ Void(op)
      /\ Said(op, "not_executed")' => Said(op, "not_executed") \/ Void(op)
  <2>1. /\ TellsOnly(op)
        /\ \A claim \in Claims : Said(op, claim)' =>
             Said(op, claim) \/ claim = verdict \/ (claim = "executed" /\ verdict = "done")
    BY <1>1, VerdictIs
  <2>2. /\ Said(op, "executed")' => Said(op, "executed") \/ verdict = "done"
        /\ Said(op, "failed")' => Said(op, "failed") \/ verdict = "failed"
        /\ Said(op, "not_executed")' => Said(op, "not_executed") \/ verdict = "not_executed"
    BY <2>1 DEF Claims, Verdicts
  <2>3. QED
    BY <2>1, <2>2
<1>3. /\ AnswerTrue(op, NoAsk.answer) /\ NoAsk.answer # "absent" /\ NoAsk \in Ask \union {NoAsk}
  BY EmptySlots DEF AnswerTrue
<1>4. PICK note : note = notes[op]
  OBVIOUS
<1>5. CASE notes' = notes
  <2>1. notes' = [notes EXCEPT ![op] = note]
    BY <1>1, <1>4, <1>5 DEF TypeOK
  <2>2. QED
    BY <1>1, <1>2, <1>3, <1>4, <2>1, NoteStays, BackgroundKeeps
<1>6. CASE \E n \in Note : /\ notes' = [notes EXCEPT ![op] = n]
                           /\ n.status = verdict /\ n.created = created
  <2>1. PICK n \in Note : /\ notes' = [notes EXCEPT ![op] = n]
                          /\ n.status = verdict /\ n.created = created
    BY <1>6
  <2>2. n.status # "checking"
    BY <2>1 DEF Verdicts
  <2>3. QED
    BY <1>1, <1>2, <1>3, <2>1, <2>2, BackgroundKeeps
<1>7. QED
  BY <1>1, <1>5, <1>6, VerdictIs

LEMMA BackgroundGivesUpKeeps ==
  ASSUME IInv, NEW op \in Ops, BackgroundGivesUp(op)
  PROVE  IInv'
<1>1. /\ notes[op].status = "checking" /\ asks[op] = NoAsk
      /\ WriteVerdict(op, "unknown", notes[op].created)
      /\ UNCHANGED <<now, edgeVars, open, calls, step, asks, forgotten>>
  BY DEF BackgroundGivesUp, Due
<1>2. TypeOK /\ notes[op] # NoNote
  BY <1>1, RecordTypes DEF IInv
<1>3. PICK created : created = notes[op].created
  OBVIOUS
<1>4. /\ step[op].stage = "ended" /\ created \in Nat /\ created <= now
      /\ \A f \in calls : f.op = op => f.sent < created
  BY <1>2, <1>3, NoteIs
<1>5. asks' = [asks EXCEPT ![op] = NoAsk]
  BY <1>1, <1>2 DEF TypeOK
<1>6. "unknown" \in Verdicts
  BY DEF Verdicts
<1>7. QED
  BY <1>1, <1>3, <1>4, <1>5, <1>6, VerdictKeeps

\* The record's age bounds when the background may still ask.
LEMMA BackgroundAsksKeeps ==
  ASSUME IInv, NEW op \in Ops, BackgroundAsks(op)
  PROVE  IInv'
<1>1. /\ notes[op].status = "checking" /\ asks[op] = NoAsk /\ ~Overdue(op)
      /\ TypeOK /\ OpInv(op) /\ forgotten' \subseteq Ops
      /\ UNCHANGED <<now, elog, serving, effects, replies, open, calls, step, notes, told>>
  BY DEF IInv, TypeOK, BackgroundAsks, Due, edgeVars
<1>2. notes[op] # NoNote /\ now \in Nat
  BY <1>1, RecordTypes
<1>3. PICK note : note = notes[op]
  OBVIOUS
<1>4. /\ step[op].stage = "ended" /\ note.created \in Nat /\ note.created <= now
      /\ \A f \in calls : f.op = op => f.sent < note.created
  BY <1>2, <1>3, NoteIs
<1>5. ~(now >= note.created + Horizon) /\ note.status = "checking"
  BY <1>1, <1>3 DEF Overdue
<1> DEFINE ask == [at |-> now, created |-> note.created, answer |-> "waiting"]
<1>6. ask \in Ask /\ ask.at = now /\ ask.created = note.created /\ ask.answer = "waiting"
  BY <1>2, <1>4 DEF Ask
<1>7. asks' = [asks EXCEPT ![op] = ask]
  BY <1>3 DEF BackgroundAsks
<1> HIDE DEF ask
<1>8. notes' = [notes EXCEPT ![op] = note]
  BY <1>1, <1>3 DEF TypeOK
<1>9. AnswerTrue(op, ask.answer)
  BY <1>6 DEF AnswerTrue
<1>10. ~(effects[op] # 0 /\ elog[op] = NoRecord)
  BY <1>3, <1>5, NoteStays
<1>11. elog[op] # NoRecord => ask.at + QueryTimeout <= elog[op].touched + Retention
  <2>1. elog[op] # NoRecord =>
          note.created + Horizon + QueryTimeout <= elog[op].touched + Retention
    BY <1>3, <1>5, NoteStays
  <2>2. elog[op] # NoRecord => elog[op].touched \in Nat
    BY <1>1, RecordTypes
  <2>3. QED
    BY <1>2, <1>4, <1>5, <1>6, <2>1, <2>2, Times
<1>12. ask.created <= ask.at /\ ask.at <= now /\ now <= ask.at + QueryTimeout
  BY <1>2, <1>4, <1>6, Times
<1>13. TellsOnly(op) /\ \A claim : Said(op, claim)' => Said(op, claim)
  BY <1>1 DEF TellsOnly, Said
<1>14. QED
  BY <1>1, <1>3, <1>4, <1>6, <1>7, <1>8, <1>9, <1>10, <1>11, <1>12, <1>13,
     NoteStays, BackgroundKeeps

\* "Absent" after the grace: no frame is left that could still be delivered.
LEMMA AbsentIsVoid ==
  ASSUME IInv, NEW op \in Ops, asks[op] # NoAsk, serving = Nobody, elog[op] = NoRecord,
         asks[op].at - asks[op].created >= Grace
  PROVE  Void(op)
<1>1. TypeOK /\ now \in Nat
  BY DEF IInv, TypeOK
<1>2. effects[op] = 0 /\ step[op].stage = "ended"
  BY AskIs
<1>3. ASSUME NEW f \in calls, f.op = op PROVE ~Deliverable(f)
  <2>1. f.sent \in Nat /\ f.sent < asks[op].created
    BY <1>1, <1>3, AskIs, CallTypes
  <2>2. asks[op].at \in Nat /\ asks[op].created \in Nat /\ asks[op].at <= now
    BY AskIs
  <2>3. QED
    BY <1>1, <2>1, <2>2, Times DEF Deliverable
<1>4. QED
  BY <1>2, <1>3, EmptySlots DEF Void, CannotRun, Stopped, InHand, Awaiting

LEMMA AskAnsweredKeeps ==
  ASSUME IInv, NEW op \in Ops, AskAnswered(op)
  PROVE  IInv'
<1>1. /\ TypeOK /\ OpInv(op) /\ asks[op].answer = "waiting" /\ forgotten' \subseteq Ops
      /\ UNCHANGED <<now, elog, serving, effects, replies, open, calls, step, notes, told>>
  BY DEF IInv, TypeOK, AskAnswered, edgeVars
<1>2. asks[op] # NoAsk
  BY <1>1, RecordTypes
<1>3. PICK note, old : note = notes[op] /\ old = asks[op]
  OBVIOUS
<1>4. PICK answer \in EdgeAnswers :
        /\ asks' = [asks EXCEPT ![op].answer = answer]
        /\ AnswerTrue(op, answer)
        /\ answer = "absent" => serving = Nobody /\ elog[op] = NoRecord
  <2>1. CASE CanQuery /\ asks' = [asks EXCEPT ![op].answer = QueryResult(op)]
    <3>1. PICK q : q = QueryResult(op)
      OBVIOUS
    <3>2. asks' = [asks EXCEPT ![op].answer = q]
      BY <2>1, <3>1
    <3>3. q \in EdgeAnswers /\ AnswerTrue(op, q)
          /\ (q = "absent" => serving = Nobody /\ elog[op] = NoRecord)
      BY <2>1, <3>1, QueryTrue DEF CanQuery
    <3>4. QED
      BY <3>2, <3>3
  <2>2. CASE asks' = [asks EXCEPT ![op].answer = ""]
    <3>1. "" \in EdgeAnswers /\ AnswerTrue(op, "") /\ "" # "absent"
      BY DEF AnswerTrue, EdgeAnswers
    <3>2. QED
      BY <2>2, <3>1
  <2>3. QED
    BY <2>1, <2>2 DEF AskAnswered
<1> DEFINE ask == [old EXCEPT !.answer = answer]
<1>5. old \in Ask /\ ask \in Ask /\ ask.at = old.at /\ ask.created = old.created /\ ask.answer = answer
  BY <1>2, <1>3, AskIs DEF Ask
<1>6. asks' = [asks EXCEPT ![op] = ask]
  BY <1>1, <1>3, <1>4 DEF TypeOK
<1> HIDE DEF ask
<1>7. /\ step[op].stage = "ended"
      /\ ask.created <= ask.at /\ ask.at <= now /\ now <= ask.at + QueryTimeout
      /\ \A f \in calls : f.op = op => f.sent < ask.created
      /\ elog[op] # NoRecord => ask.at + QueryTimeout <= elog[op].touched + Retention
      /\ ~(effects[op] # 0 /\ elog[op] = NoRecord)
  BY <1>2, <1>3, <1>5, AskIs
<1>8. ask.answer = "absent" /\ ask.at - ask.created >= Grace => Void(op)
  BY <1>2, <1>3, <1>4, <1>5, AbsentIsVoid
<1>9. notes' = [notes EXCEPT ![op] = note] /\ AnswerTrue(op, ask.answer)
  BY <1>1, <1>3, <1>4, <1>5 DEF TypeOK
<1>10. TellsOnly(op) /\ \A claim : Said(op, claim)' => Said(op, claim)
  BY <1>1 DEF TellsOnly, Said
<1>11. QED
  BY <1>1, <1>3, <1>5, <1>6, <1>7, <1>8, <1>9, <1>10, NoteStays, BackgroundKeeps

LEMMA BackgroundConcludesKeeps ==
  ASSUME IInv, NEW op \in Ops, BackgroundConcludes(op)
  PROVE  IInv'
<1>1. /\ TypeOK /\ OpInv(op) /\ asks[op].answer \notin {"none", "waiting"}
      /\ asks' = [asks EXCEPT ![op] = NoAsk] /\ forgotten' \subseteq Ops
      /\ UNCHANGED <<now, edgeVars, open, calls, step, forgotten>>
      /\ UNCHANGED <<now, elog, serving, effects, replies, open, calls, step>>
  BY DEF IInv, TypeOK, BackgroundConcludes, edgeVars
<1>2. asks[op] # NoAsk
  BY <1>1, EmptySlots
<1>3. PICK ask, note : ask = asks[op] /\ note = notes[op]
  OBVIOUS
<1>4. /\ step[op].stage = "ended" /\ ask \in Ask /\ ask.at \in Nat /\ ask.created \in Nat
      /\ ask.created <= now /\ \A f \in calls : f.op = op => f.sent < ask.created
  <2>1. now \in Nat
    BY <1>1 DEF TypeOK
  <2>2. QED
    BY <1>2, <1>3, <2>1, AskIs
<1>5. /\ AnswerTrue(op, ask.answer)
      /\ ask.answer = "absent" /\ ask.at - ask.created >= Grace => Void(op)
  BY <1>1, <1>3 DEF OpInv, AnswersTrue
<1>6. PICK verdict : verdict = AskOutcome(ask)
  OBVIOUS
<1>7. /\ verdict \in Verdicts \union {"checking"}
      /\ verdict = "done" => ask.answer = "done"
      /\ verdict = "failed" => ask.answer = "failed"
      /\ verdict = "not_executed" =>
           ask.answer = "cancelled" \/ (ask.answer = "absent" /\ ~(ask.at - ask.created < Grace))
  <2>1. CASE ask.answer = "absent" /\ ask.at - ask.created < Grace
    BY <1>6, <2>1 DEF AskOutcome
  <2>2. CASE ~(ask.answer = "absent" /\ ask.at - ask.created < Grace)
    <3>1. verdict = SyncOutcome(ask.answer)
      BY <1>6, <2>2 DEF AskOutcome
    <3>2. QED
      BY <2>2, <3>1 DEF SyncOutcome, Verdicts
  <2>3. QED
    BY <2>1, <2>2
<1>8. CASE verdict # "checking"
  <2>1. verdict = "done" => effects[op] = 1
    BY <1>5, <1>7 DEF AnswerTrue
  <2>2. verdict \in {"failed", "not_executed"} => Void(op)
    <3>1. ~(ask.at - ask.created < Grace) => ask.at - ask.created >= Grace
      BY <1>4, Times
    <3>2. ask.answer \in {"failed", "cancelled"} => Void(op)
      BY <1>5 DEF AnswerTrue
    <3>3. QED
      BY <1>5, <1>7, <3>1, <3>2
  <2>3. WriteVerdict(op, verdict, ask.created)
    BY <1>3, <1>6, <1>8 DEF BackgroundConcludes
  <2>4. verdict \in Verdicts
    BY <1>7, <1>8
  <2>5. QED
    BY <1>1, <1>4, <2>1, <2>2, <2>3, <2>4, VerdictKeeps
<1>9. CASE verdict = "checking"
  <2>1. /\ notes' = IF Writable(op) THEN [notes EXCEPT ![op].next = ask.at + 1] ELSE notes
        /\ UNCHANGED told
    BY <1>3, <1>6, <1>9 DEF BackgroundConcludes
  <2>2. PICK n \in Note \union {NoNote} :
          /\ notes' = [notes EXCEPT ![op] = n]
          /\ n # NoNote <=> note # NoNote
          /\ n # NoNote => n.created = note.created
          /\ n.status = note.status
    <3>1. CASE Writable(op)
      <4>1. note \in Note /\ ask.at + 1 \in Nat
        BY <1>3, <1>4, <3>1, NoteIs DEF Writable
      <4>2. /\ [note EXCEPT !.next = ask.at + 1] \in Note
            /\ [note EXCEPT !.next = ask.at + 1].created = note.created
            /\ [note EXCEPT !.next = ask.at + 1].status = note.status
        BY <4>1 DEF Note
      <4>3. notes' = [notes EXCEPT ![op] = [note EXCEPT !.next = ask.at + 1]]
        BY <1>1, <1>3, <2>1, <3>1 DEF TypeOK
      <4>4. QED
        BY <4>1, <4>2, <4>3, EmptySlots
    <3>2. CASE ~Writable(op)
      <4>1. note \in Note \union {NoNote}
        BY <1>3, NoteStays
      <4>2. notes' = [notes EXCEPT ![op] = note]
        BY <1>1, <1>3, <2>1, <3>2 DEF TypeOK
      <4>3. QED
        BY <4>1, <4>2
    <3>3. QED
      BY <3>1, <3>2
  <2>3. /\ n # NoNote => n.created <= now /\ \A f \in calls : f.op = op => f.sent < n.created
        /\ n.status = "checking" => n # NoNote
    BY <1>3, <2>2, NoteStays, EmptySlots
  <2>4. ~(effects[op] # 0 /\ elog[op] = NoRecord)
    BY <1>2, AskIs
  <2>5. elog[op] # NoRecord => (n.status = "checking" =>
          n.created + Horizon + QueryTimeout <= elog[op].touched + Retention)
    BY <1>3, <2>2, <2>3, NoteStays
  <2>6. AnswerTrue(op, NoAsk.answer) /\ NoAsk.answer # "absent" /\ NoAsk \in Ask \union {NoAsk}
    BY EmptySlots DEF AnswerTrue
  <2>7. TellsOnly(op) /\ \A claim : Said(op, claim)' => Said(op, claim)
    BY <2>1 DEF TellsOnly, Said
  <2>8. QED
    BY <1>1, <1>4, <2>2, <2>3, <2>4, <2>5, <2>6, <2>7, BackgroundKeeps
<1>10. QED
  BY <1>8, <1>9

LEMMA ForgetKeeps ==
  ASSUME IInv, NEW op \in Ops, Forget(op)
  PROVE  IInv'
<1>1. /\ TypeOK /\ OpInv(op) /\ notes' = [notes EXCEPT ![op] = NoNote] /\ forgotten' \subseteq Ops
      /\ UNCHANGED <<now, elog, serving, effects, replies, open, calls, step, asks, told>>
  BY DEF IInv, TypeOK, Forget, edgeVars
<1>2. step[op].stage = "ended"
  BY NoteIs DEF Forget
<1>3. PICK ask : ask = asks[op]
  OBVIOUS
<1>4. ask \in Ask \union {NoAsk} /\ asks' = [asks EXCEPT ![op] = ask]
  BY <1>1, <1>3 DEF TypeOK, Ask
<1>5. /\ AnswerTrue(op, ask.answer)
      /\ ask.answer = "absent" /\ ask.at - ask.created >= Grace => Void(op)
      /\ effects[op] # 0 /\ elog[op] = NoRecord => ask = NoAsk
  BY <1>1, <1>3 DEF OpInv, AnswersTrue, RunsOnce, Unasked
<1>6. ask # NoAsk =>
        /\ ask.created <= ask.at /\ ask.at <= now /\ now <= ask.at + QueryTimeout
        /\ \A f \in calls : f.op = op => f.sent < ask.created
        /\ elog[op] # NoRecord => ask.at + QueryTimeout <= elog[op].touched + Retention
  BY <1>3, AskIs
<1>7. TellsOnly(op) /\ \A claim : Said(op, claim)' => Said(op, claim)
  BY <1>1 DEF TellsOnly, Said
<1>8. QED
  BY <1>1, <1>2, <1>4, <1>5, <1>6, <1>7, EmptySlots, BackgroundKeeps

(***************************************************************************)
(* Time passes only while nobody overruns a limit.                         *)
(***************************************************************************)
LEMMA TickKeeps ==
  ASSUME IInv, Tick
  PROVE  IInv'
<1>1. /\ TypeOK /\ ~Overrun /\ now \in Nat /\ now' = now + 1
      /\ UNCHANGED <<elog, serving, effects, replies, open, calls, step, notes, asks, forgotten, told>>
  BY DEF IInv, TypeOK, Tick, edgeVars
<1>2. TypeOK'
  BY <1>1 DEF TypeOK
<1>3. ASSUME NEW op \in Ops PROVE OpInv(op)'
  <2>1. OpInv(op) /\ step[op].deadline \in Nat
    BY <1>1, RecordTypes DEF IInv
  <2>2. /\ step[op].stage \in {"waiting", "asking", "pending"} => ~(now >= step[op].deadline)
        /\ step[op].stage # "answered"
        /\ asks[op] # NoAsk => asks[op].answer = "waiting" /\ ~(now >= asks[op].at + QueryTimeout)
    BY <1>1 DEF Overrun
  <2>3. CannotRun(op) => CannotRun(op)'
    <3>1. \A f \in calls : ~Deliverable(f) => ~Deliverable(f)'
      BY <1>1, CallTypes, Times DEF Deliverable
    <3>2. Stopped(op) => Stopped(op)'
      BY <1>1, <3>1 DEF Stopped
    <3>3. ASSUME Awaiting(elog[op]), AwaitingExpired(elog[op], now)
          PROVE  AwaitingExpired(elog[op], now)'
      <4>1. elog[op].expires \in Nat
        BY <1>1, <3>3, RecordTypes, EmptySlots DEF Awaiting
      <4>2. QED
        BY <1>1, <3>3, <4>1 DEF AwaitingExpired
    <3>4. InHand(op)' => InHand(op)
      BY <1>1 DEF InHand
    <3>5. QED
      BY <1>1, <3>2, <3>3, <3>4 DEF CannotRun, Awaiting
  <2>4. Void(op) => Void(op)'
    BY <1>1, <2>3 DEF Void
  <2>5. RunsOnce(op)'
    <3>1. ASSUME notes[op].status = "checking", Overdue(op) PROVE Overdue(op)'
      <4>1. notes[op].created \in Nat
        BY <1>1, <3>1, RecordTypes
      <4>2. QED
        BY <1>1, <3>1, <4>1, Times DEF Overdue
    <3>2. Unasked(op) => Unasked(op)'
      BY <1>1, <3>1 DEF Unasked
    <3>3. QED
      BY <1>1, <2>1, <2>3, <3>2 DEF OpInv, RunsOnce
  <2>6. LogTrue(op)' /\ ServedTrue(op)'
    BY <1>1, <2>1 DEF OpInv, LogTrue, ServedTrue, InHand, Awaiting, Executing, MayAct
  <2>7. AnswersTrue(op)'
    <3>1. ASSUME NEW answer, AnswerTrue(op, answer) PROVE AnswerTrue(op, answer)'
      BY <1>1, <2>4, <3>1 DEF AnswerTrue
    <3>2. \A r \in replies' : r.op = op => AnswerTrue(op, r.kind)'
      BY <1>1, <2>1, <3>1 DEF OpInv, AnswersTrue
    <3>3. step'[op].stage # "answered"
      BY <1>1, <2>2
    <3>4. AnswerTrue(op, asks[op].answer)'
      BY <1>1, <2>1, <3>1 DEF OpInv, AnswersTrue
    <3>5. asks[op].answer # "absent"
      BY <2>2, EmptySlots
    <3>6. QED
      BY <1>1, <3>2, <3>3, <3>4, <3>5 DEF AnswersTrue
  <2>8. SaidTrue(op)'
    BY <1>1, <2>1, <2>4 DEF OpInv, SaidTrue, Said
  <2>9. Channels(op)' /\ Stages(op)'
    BY <1>1, <2>1 DEF OpInv, Channels, Stages
  <2>10. Timers(op)'
    <3>1. step[op].stage \in {"waiting", "asking", "pending"} => now + 1 <= step[op].deadline
      BY <1>1, <2>1, <2>2
    <3>2. asks[op] # NoAsk => asks[op].at \in Nat /\ asks[op].created \in Nat
            /\ now + 1 <= asks[op].at + QueryTimeout
      BY <1>1, <2>2, RecordTypes, Times
    <3>3. notes[op] # NoNote => notes[op].created \in Nat
      BY <1>1, RecordTypes
    <3>4. /\ step'[op].stage \in {"waiting", "asking", "answered", "pending"} =>
               now' <= step'[op].deadline
          /\ step'[op].stage = "waiting" => step'[op].deadline <= now' + StepBudget
          /\ step'[op].stage \in {"asking", "answered"} =>
               step'[op].deadline <= now' + QueryTimeout
          /\ step'[op].stage = "pending" => step'[op].deadline <= now' + PendingTtl
      BY <1>1, <2>1, <2>2, <3>1, Times DEF OpInv, Timers
    <3>5. /\ notes'[op] # NoNote => notes'[op].created <= now'
          /\ asks'[op] # NoAsk =>
               asks'[op].created <= asks'[op].at /\ asks'[op].at <= now'
               /\ now' <= asks'[op].at + QueryTimeout
      BY <1>1, <2>1, <3>2, <3>3, Times DEF OpInv, Timers
    <3>6. QED
      BY <3>4, <3>5 DEF Timers
  <2>11. FrameTimes(op)'
    <3>1. ASSUME NEW f \in calls, f.op = op
          PROVE  /\ f.sent <= now + 1 /\ f.attempt <= step[op].attempt /\ step[op].stage # "new"
                 /\ step[op].stage = "waiting" => f.sent + StepBudget <= step[op].deadline
                 /\ step[op].stage \in {"asking", "answered"} => f.sent + StepBudget <= now + 1
                 /\ notes[op] # NoNote => f.sent < notes[op].created
                 /\ asks[op] # NoAsk => f.sent < asks[op].created
      BY <1>1, <2>1, <3>1, CallTypes, Times DEF OpInv, FrameTimes
    <3>2. QED
      BY <1>1, <3>1 DEF FrameTimes
  <2>12. Kept(op)'
    <3>1. Known(op)' => Known(op)
      BY <1>1 DEF Known, InHand
    <3>2. ASSUME NEW end, DoneBy(op, end) PROVE DoneBy(op, end)'
      BY <1>1, <3>2 DEF DoneBy
    <3>3. QED
      BY <1>1, <2>1, <3>1, <3>2 DEF OpInv, Kept
  <2>13. QED
    BY <2>5, <2>6, <2>7, <2>8, <2>9, <2>10, <2>11, <2>12 DEF OpInv
<1>4. QED
  BY <1>2, <1>3 DEF IInv

(***************************************************************************)
(* Every step.                                                             *)
(***************************************************************************)
LEMMA InitIInv == Init => IInv
<1> SUFFICES ASSUME Init PROVE IInv
  OBVIOUS
<1>1. /\ now = 0 /\ elog = [op \in Ops |-> NoRecord] /\ serving = Nobody
      /\ effects = [op \in Ops |-> 0] /\ open = {} /\ replies = {} /\ calls = {}
      /\ notes = [op \in Ops |-> NoNote] /\ asks = [op \in Ops |-> NoAsk]
      /\ forgotten = {} /\ told = {}
  BY DEF Init
<1>2. step \in [Ops -> Step] /\ \A op \in Ops : step[op].stage \in {"new", "ended"}
  <2> DEFINE S == [stage : {"new", "ended"}, params : Params, confirmed : {FALSE},
                   attempt : {0}, deadline : {0}, resent : {FALSE}, answer : {""}]
  <2>1. "" \in EdgeAnswers
    BY DEF EdgeAnswers
  <2>2. ASSUME NEW r \in S PROVE r \in Step /\ r.stage \in {"new", "ended"}
    <3>1. /\ r = [stage |-> r.stage, params |-> r.params, confirmed |-> r.confirmed,
                  attempt |-> r.attempt, deadline |-> r.deadline, resent |-> r.resent,
                  answer |-> r.answer]
          /\ r.stage \in {"new", "ended"} /\ r.params \in Params /\ r.confirmed = FALSE
          /\ r.attempt = 0 /\ r.deadline = 0 /\ r.resent = FALSE /\ r.answer = ""
      OBVIOUS
    <3>2. r.confirmed \in BOOLEAN /\ r.resent \in BOOLEAN
      BY <3>1
    <3>3. r.answer \in EdgeAnswers \union {"need_confirm", "need_slot"} /\ 0 \in Nat
      BY <2>1, <3>1
    <3>4. QED
      BY <3>1, <3>2, <3>3 DEF Step
  <2>3. step \in [Ops -> S]
    BY DEF Init
  <2> HIDE DEF S
  <2>4. QED
    BY <2>2, <2>3
<1>3. TypeOK
  BY <1>1, <1>2 DEF TypeOK
<1>4. ASSUME NEW op \in Ops PROVE OpInv(op)
  <2>1. elog[op] = NoRecord /\ notes[op] = NoNote /\ asks[op] = NoAsk /\ effects[op] = 0
    BY <1>1
  <2>2. NoRecord.status = "none" /\ NoNote.status = "none" /\ NoAsk.answer = "none"
    BY EmptySlots
  <2>3. RunsOnce(op) /\ LogTrue(op)
    BY <2>1, <2>2 DEF RunsOnce, LogTrue, Awaiting
  <2>4. ServedTrue(op) /\ SaidTrue(op)
    BY <1>1 DEF ServedTrue, InHand, SaidTrue, Said
  <2>5. AnswersTrue(op)
    BY <1>1, <1>2, <2>1, <2>2 DEF AnswersTrue, AnswerTrue
  <2>6. Channels(op) /\ Stages(op) /\ FrameTimes(op)
    BY <1>1, <2>1 DEF Channels, Stages, FrameTimes
  <2>7. Timers(op) /\ Kept(op)
    BY <1>2, <2>1 DEF Timers, Kept
  <2>8. QED
    BY <2>3, <2>4, <2>5, <2>6, <2>7 DEF OpInv
<1>5. QED
  BY <1>3, <1>4 DEF IInv

LEMMA VehicleStepKeeps ==
  ASSUME IInv, VehicleStep
  PROVE  IInv'
<1>1. UNCHANGED <<now, open, calls, step, notes, asks, forgotten, told>>
  BY DEF VehicleStep
<1>2. QED
  BY <1>1, PurgeLogKeeps, ActKeeps, RestartKeeps, RaiseKeeps, FinishKeeps DEF VehicleStep

LEMMA StepIInv == IInv /\ [Next]_vars => IInv'
<1> SUFFICES ASSUME IInv, [Next]_vars PROVE IInv'
  OBVIOUS
<1>1. CASE \E f \in calls : DeliverCall(f) \/ LoseCall(f)
  BY <1>1, DeliverCallKeeps, LoseCallKeeps
<1>2. CASE VehicleStep
  BY <1>2, VehicleStepKeeps
<1>3. ASSUME NEW op \in Ops, CloudStep(op) PROVE IInv'
  BY <1>3, StartKeeps, ConfirmKeeps, RefillKeeps, AbandonKeeps, ReceiveReplyKeeps, TimeOutKeeps,
     UnreachableKeeps, QueryAnsweredKeeps, QueryUnansweredKeeps, RecoverKeeps DEF CloudStep
<1>4. ASSUME NEW op \in Ops, BackgroundStep(op) PROVE IInv'
  BY <1>4, BackgroundGivesUpKeeps, BackgroundAsksKeeps, AskAnsweredKeeps,
     BackgroundConcludesKeeps DEF BackgroundStep
<1>5. ASSUME NEW op \in Ops, Forget(op) PROVE IInv'
  BY <1>5, ForgetKeeps
<1>6. CASE PlannerRestarts
  BY <1>6, PlannerRestartsKeeps
<1>7. CASE Tick
  BY <1>7, TickKeeps
<1>8. CASE UNCHANGED vars
  <2>1. TypeOK'
    BY <1>8 DEF IInv, TypeOK, vars, edgeVars
  <2>2. \A op \in Ops : Untouched(op)
    BY <1>8 DEF Untouched, Said, vars, edgeVars
  <2>3. QED
    BY <2>1, <2>2, UntouchedKept DEF IInv
<1>9. QED
  BY <1>1, <1>2, <1>3, <1>4, <1>5, <1>6, <1>7, <1>8 DEF Next

\* Every state the vehicle and the cloud reach satisfies the inductive invariant.
THEOREM InductiveInvariant == Spec => []IInv
BY InitIInv, StepIInv, PTL DEF Spec

\* No step of the vehicle, the channel or the cloud leaves the variables' types.
THEOREM TypeCorrect == Spec => []TypeOK
<1>1. IInv => TypeOK
  BY DEF IInv
<1>2. QED
  BY <1>1, InductiveInvariant, PTL

\* The admission gate on the vehicle's log lets an operation through once: no
\* resend, late frame, restart or purge makes edge_call.py carry it out again.
THEOREM OneEffect == Spec => []EffectAtMostOnce
<1>1. IInv => EffectAtMostOnce
  BY DEF IInv, OpInv, RunsOnce, EffectAtMostOnce
<1>2. QED
  BY <1>1, InductiveInvariant, PTL

\* What executor.py and operation_sync.py say of an operation's outcome is never
\* contradicted later, because the log outlives every frame, query and question.
THEOREM StatementsHold == Spec => []StatementsStayTrue
<1>1. IInv => StatementsStayTrue
  BY DEF IInv, OpInv, SaidTrue, Void, StatementsStayTrue
<1>2. QED
  BY <1>1, InductiveInvariant, PTL

(***************************************************************************)
(* What one step says, and what it does to the reconciliation records.     *)
(***************************************************************************)
\* One step says at most one thing.
TellsOne == told' = told \/ \E op \in Ops, claim \in Claims : Tell(op, claim)

\* A record appears only for an owner who did not have his data deleted, goes
\* only by such a deletion, and a promise is said only with a new record.
NotesStep(x) ==
  /\ \/ notes'[x] = notes[x]
     \/ notes'[x] \in Note /\ x \notin forgotten
     \/ notes'[x] = NoNote /\ x \in forgotten'
  /\ x \in forgotten => x \in forgotten'
  /\ x \in forgotten' => x \in forgotten \/ notes'[x] = NoNote
  /\ Said(x, "checking")' => Said(x, "checking") \/ notes'[x] # notes[x]

SpeaksOnce == effects' = effects /\ TellsOne /\ \A x \in Ops : NotesStep(x)

LEMMA QuietSpeaks ==
  ASSUME UNCHANGED <<effects, notes, forgotten, told>>
  PROVE  SpeaksOnce
BY DEF SpeaksOnce, TellsOne, NotesStep, Said

LEMMA TellSpeaks ==
  ASSUME UNCHANGED <<effects, notes, forgotten>>, NEW op \in Ops, NEW claim \in Claims,
         claim # "checking", Tell(op, claim)
  PROVE  SpeaksOnce
BY DEF SpeaksOnce, TellsOne, NotesStep, Said, Tell

LEMMA NoteAndTellSpeaks ==
  ASSUME TypeOK, NEW op \in Ops, NEW status, NoteAndTell(op, status), UNCHANGED <<effects, forgotten>>
  PROVE  SpeaksOnce
<1>1. /\ NotesOnly(op) /\ TellsOnly(op)
      /\ \A claim \in Claims : Said(op, claim)' =>
           \/ Said(op, claim)
           \/ claim = "executed" /\ status = "done"
           \/ claim = "checking" /\ notes'[op] # notes[op]
           \/ claim = "not_executed" /\ status = "cancelled"
  BY NoteAndTellIs
<1>2. /\ \A x \in Ops : x # op => notes'[x] = notes[x]
      /\ notes'[op] = notes[op] \/ notes'[op] \in Note
  BY <1>1, NotesOnlyIs
<1>3. \A x \in Ops, claim \in Claims : x # op => (Said(x, claim)' => Said(x, claim))
  BY <1>1, TellsOnlyIs
<1>4. notes' = notes \/ op \notin forgotten
  BY DEF NoteAndTell, Registers
<1>5. Said(op, "checking")' => Said(op, "checking") \/ notes'[op] # notes[op]
  BY <1>1 DEF Claims
<1>6. TellsOne
  BY <1>1 DEF TellsOnly, TellsOne
<1>7. QED
  BY <1>2, <1>3, <1>4, <1>5, <1>6 DEF SpeaksOnce, NotesStep, Claims

LEMMA VerdictSpeaks ==
  ASSUME TypeOK, NEW op \in Ops, NEW verdict \in Verdicts, NEW created \in Nat,
         WriteVerdict(op, verdict, created), UNCHANGED <<effects, forgotten>>
  PROVE  SpeaksOnce
<1>1. /\ \/ notes' = notes
         \/ \E note \in Note : notes' = [notes EXCEPT ![op] = note]
      /\ TellsOnly(op)
      /\ \A claim \in Claims : Said(op, claim)' =>
           Said(op, claim) \/ claim = verdict \/ (claim = "executed" /\ verdict = "done")
  BY VerdictIs
<1>2. /\ \A x \in Ops : x # op => notes'[x] = notes[x]
      /\ notes'[op] = notes[op] \/ notes'[op] \in Note
  BY <1>1 DEF TypeOK
<1>3. \A x \in Ops, claim \in Claims : x # op => (Said(x, claim)' => Said(x, claim))
  BY <1>1, TellsOnlyIs
<1>4. notes' = notes \/ op \notin forgotten
  BY DEF WriteVerdict, Writable
<1>5. Said(op, "checking")' => Said(op, "checking")
  BY <1>1 DEF Claims, Verdicts
<1>6. TellsOne
  BY <1>1 DEF TellsOnly, TellsOne
<1>7. QED
  BY <1>2, <1>3, <1>4, <1>5, <1>6 DEF SpeaksOnce, NotesStep, Claims

LEMMA CloudSpeaks ==
  ASSUME TypeOK, NEW op \in Ops, CloudStep(op)
  PROVE  SpeaksOnce
<1>1. CASE Start(op) \/ Confirm(op) \/ (\E p \in Params : Refill(op, p)) \/ Abandon(op)
           \/ QueryAnswered(op) \/ QueryUnanswered(op)
  <2>1. UNCHANGED <<effects, notes, forgotten, told>>
    BY <1>1 DEF Start, Confirm, Refill, Abandon, QueryAnswered, QueryUnanswered, edgeVars
  <2>2. QED
    BY <2>1, QuietSpeaks
<1>2. CASE Unreachable(op)
  <2>1. UNCHANGED <<effects, notes, forgotten>> /\ Tell(op, "unreachable")
    BY <1>2 DEF Unreachable
  <2>2. "unreachable" \in Claims
    BY DEF Claims
  <2>3. QED
    BY <2>1, <2>2, TellSpeaks
<1>3. CASE ReceiveReply(op)
  <2>1. PICK r \in replies : (r.kind \in Claims /\ Tell(op, r.kind)) \/ UNCHANGED told
    BY <1>3 DEF ReceiveReply
  <2>2. UNCHANGED <<effects, notes, forgotten>> /\ r.kind # "checking"
    BY <1>3, CallTypes DEF ReceiveReply, ReplyKinds
  <2>3. QED
    BY <2>1, <2>2, TellSpeaks, QuietSpeaks
<1>4. CASE TimeOut(op)
  BY <1>4, QuietSpeaks, NoteAndTellSpeaks DEF TimeOut
<1>5. CASE Recover(op)
  <2>1. PICK status : status = step[op].answer
    OBVIOUS
  <2>2. UNCHANGED <<effects, forgotten>>
        /\ (UNCHANGED <<notes, told>> \/ (Tell(op, "failed") /\ UNCHANGED notes) \/ NoteAndTell(op, status))
    BY <1>5, <2>1 DEF Recover, edgeVars
  <2>3. "failed" \in Claims
    BY DEF Claims
  <2>4. QED
    BY <2>2, <2>3, QuietSpeaks, TellSpeaks, NoteAndTellSpeaks
<1>6. QED
  BY <1>1, <1>2, <1>3, <1>4, <1>5 DEF CloudStep

LEMMA BackgroundSpeaks ==
  ASSUME IInv, NEW op \in Ops, BackgroundStep(op)
  PROVE  SpeaksOnce
<1>1. TypeOK
  BY DEF IInv
<1>2. CASE BackgroundGivesUp(op)
  <2>1. notes[op] # NoNote /\ WriteVerdict(op, "unknown", notes[op].created)
        /\ UNCHANGED <<effects, forgotten>>
    BY <1>1, <1>2, RecordTypes DEF BackgroundGivesUp, Due, edgeVars
  <2>2. PICK created \in Nat : created = notes[op].created
    BY <2>1, NoteIs
  <2>3. "unknown" \in Verdicts
    BY DEF Verdicts
  <2>4. QED
    BY <1>1, <2>1, <2>2, <2>3, VerdictSpeaks
<1>3. CASE BackgroundAsks(op) \/ AskAnswered(op)
  <2>1. UNCHANGED <<effects, notes, forgotten, told>>
    BY <1>3 DEF BackgroundAsks, AskAnswered, edgeVars
  <2>2. QED
    BY <2>1, QuietSpeaks
<1>4. CASE BackgroundConcludes(op)
  <2>1. asks[op] # NoAsk /\ UNCHANGED <<effects, forgotten>>
    BY <1>4, EmptySlots DEF BackgroundConcludes, edgeVars
  <2>2. PICK created \in Nat, at \in Nat : created = asks[op].created /\ at = asks[op].at
    BY <2>1, AskIs
  <2>3. PICK verdict : verdict = AskOutcome(asks[op])
    OBVIOUS
  <2>4. verdict \in Verdicts \union {"checking"}
    BY <2>3 DEF AskOutcome, SyncOutcome, Verdicts
  <2>5. CASE verdict # "checking"
    <3>1. WriteVerdict(op, verdict, created)
      BY <1>4, <2>2, <2>3, <2>5 DEF BackgroundConcludes
    <3>2. QED
      BY <1>1, <2>1, <2>4, <2>5, <3>1, VerdictSpeaks
  <2>6. CASE verdict = "checking"
    <3>1. notes' = (IF Writable(op) THEN [notes EXCEPT ![op].next = at + 1] ELSE notes)
          /\ UNCHANGED told
      BY <1>4, <2>2, <2>3, <2>6 DEF BackgroundConcludes
    <3>2. ASSUME Writable(op)
          PROVE  notes'[op] \in Note /\ op \notin forgotten
                 /\ \A x \in Ops : x # op => notes'[x] = notes[x]
      <4>1. PICK note \in Note : note = notes[op]
        BY <3>2, NoteIs DEF Writable
      <4>2. [note EXCEPT !.next = at + 1] \in Note
        BY DEF Note
      <4>3. notes' = [notes EXCEPT ![op] = [note EXCEPT !.next = at + 1]]
        BY <1>1, <3>1, <3>2, <4>1 DEF TypeOK
      <4>4. QED
        BY <1>1, <3>2, <4>2, <4>3 DEF TypeOK, Writable
    <3>3. \A x \in Ops : NotesStep(x)
      BY <2>1, <3>1, <3>2 DEF NotesStep, Said
    <3>4. QED
      BY <2>1, <3>1, <3>3 DEF SpeaksOnce, TellsOne
  <2>7. QED
    BY <2>5, <2>6
<1>5. QED
  BY <1>2, <1>3, <1>4 DEF BackgroundStep

\* Only VAL's act changes what the vehicle did; it says nothing.
LEMMA StepSpeaks ==
  ASSUME IInv, [Next]_vars
  PROVE  SpeaksOnce \/ (VehicleStep /\ Act)
<1>1. TypeOK
  BY DEF IInv
<1>2. CASE \E f \in calls : DeliverCall(f) \/ LoseCall(f)
  <2>1. UNCHANGED <<effects, notes, forgotten, told>>
    BY <1>2 DEF DeliverCall, Admit, Refuse, LoseCall, edgeVars
  <2>2. QED
    BY <2>1, QuietSpeaks
<1>3. CASE VehicleStep /\ ~Act
  <2>1. UNCHANGED <<effects, notes, forgotten, told>>
    BY <1>3 DEF VehicleStep, PurgeLog, Restart, Raise, Finish
  <2>2. QED
    BY <2>1, QuietSpeaks
<1>4. ASSUME NEW op \in Ops, Forget(op) PROVE SpeaksOnce
  <2>1. /\ notes' = [notes EXCEPT ![op] = NoNote] /\ forgotten' = forgotten \union {op}
        /\ UNCHANGED <<effects, told>>
    BY <1>4 DEF Forget, edgeVars
  <2>2. QED
    BY <1>1, <2>1 DEF SpeaksOnce, TellsOne, NotesStep, Said, TypeOK
<1>5. CASE PlannerRestarts \/ Tick \/ UNCHANGED vars
  <2>1. UNCHANGED <<effects, notes, forgotten, told>>
    BY <1>5 DEF PlannerRestarts, Tick, vars, edgeVars
  <2>2. QED
    BY <2>1, QuietSpeaks
<1>6. QED
  BY <1>1, <1>2, <1>3, <1>4, <1>5, CloudSpeaks, BackgroundSpeaks DEF Next

LEMMA ActQuiet ==
  ASSUME VehicleStep, Act
  PROVE  UNCHANGED <<notes, forgotten, told>>
BY DEF VehicleStep

LEMMA NotesKept ==
  ASSUME IInv, [Next]_vars
  PROVE  /\ ErasedStaysErased => ErasedStaysErased'
         /\ PromiseHasRecord => PromiseHasRecord'
<1>1. ASSUME NEW x \in Ops PROVE NotesStep(x) /\ NoNote \notin Note
  BY StepSpeaks, ActQuiet, EmptySlots DEF SpeaksOnce, NotesStep, Said
<1>2. ASSUME ErasedStaysErased, NEW x \in forgotten' PROVE notes'[x] = NoNote
  <2>1. forgotten' \subseteq Ops
    BY StepIInv DEF IInv, TypeOK
  <2>2. NotesStep(x)
    BY <1>1, <2>1
  <2>3. QED
    BY <1>2, <2>2 DEF ErasedStaysErased, NotesStep
<1>3. ASSUME PromiseHasRecord, NEW x \in Ops, Said(x, "checking")'
      PROVE  notes'[x] # NoNote \/ x \in forgotten'
  BY <1>1, <1>3 DEF PromiseHasRecord, NotesStep
<1>4. QED
  BY <1>2, <1>3 DEF ErasedStaysErased, PromiseHasRecord

\* operation_sync.py and session.py: a record written after its owner's deletion
\* would outlive him; the fence lets none through, whichever loop comes late.
THEOREM ErasedHolds == Spec => []ErasedStaysErased
<1>1. Init => ErasedStaysErased
  BY DEF Init, ErasedStaysErased
<1>2. IInv /\ ErasedStaysErased /\ [Next]_vars => ErasedStaysErased'
  BY NotesKept
<1>3. QED
  BY <1>1, <1>2, InductiveInvariant, PTL DEF Spec

\* executor.py _unsettled_edge promises to keep checking only when the record the
\* background works on was registered by that very step.
THEOREM PromiseHolds == Spec => []PromiseHasRecord
<1>1. Init => PromiseHasRecord
  BY DEF Init, PromiseHasRecord, Said
<1>2. IInv /\ PromiseHasRecord /\ [Next]_vars => PromiseHasRecord'
  BY NotesKept
<1>3. QED
  BY <1>1, <1>2, InductiveInvariant, PTL DEF Spec

(***************************************************************************)
(* The vehicle, the channel and the cloud together implement OperationOnce.*)
(***************************************************************************)
Disclaimed == {op \in Ops : Said(op, "failed") \/ Said(op, "not_executed")}

LEMMA ActExecutes ==
  ASSUME IInv, VehicleStep, Act
  PROVE  \E op \in Ops : Once!Execute(op)
<1>1. PICK op \in Ops : op = serving.call.op
  BY CallTypes DEF IInv, Act
<1>2. serving # Nobody /\ ~serving.acted /\ effects' = [effects EXCEPT ![op] = @ + 1]
  BY <1>1 DEF Act
<1>3. InHand(op) /\ OpInv(op) /\ effects[op] \in Nat
  BY <1>1, <1>2 DEF IInv, InHand, TypeOK
<1>4. ~CannotRun(op)
  BY <1>2, <1>3 DEF CannotRun
<1>5. effects[op] = 0
  BY <1>3, <1>4 DEF OpInv, RunsOnce
<1>6. op \notin Disclaimed
  BY <1>3, <1>4 DEF OpInv, SaidTrue, Void, Disclaimed
<1>7. effects' = [effects EXCEPT ![op] = 1]
  BY <1>2, <1>5
<1>8. Disclaimed' = Disclaimed
  BY ActQuiet DEF Disclaimed, Said
<1>9. QED
  BY <1>5, <1>6, <1>7, <1>8 DEF Once!Execute, Disclaimed

LEMMA SpeakingDisclaims ==
  ASSUME IInv', SpeaksOnce
  PROVE  (\E op \in Ops : Once!Disclaim(op)) \/ UNCHANGED Once!vars
<1>1. effects' = effects /\ TellsOne
  BY DEF SpeaksOnce
<1>2. CASE Disclaimed' = Disclaimed
  BY <1>1, <1>2 DEF Once!vars, Disclaimed
<1>3. ASSUME NEW op \in Ops, NEW claim \in Claims, Tell(op, claim), Disclaimed' # Disclaimed
      PROVE  Once!Disclaim(op)
  <2>1. /\ \A x \in Ops : x # op => (x \in Disclaimed' <=> x \in Disclaimed)
        /\ op \in Disclaimed => op \in Disclaimed'
    BY <1>3 DEF Tell, Disclaimed, Said
  <2>2. Disclaimed' = Disclaimed \union {op} /\ op \in Disclaimed'
    <3>1. Disclaimed \subseteq Ops /\ Disclaimed' \subseteq Ops
      BY DEF Disclaimed
    <3>2. QED
      BY <1>3, <2>1, <3>1
  <2>3. effects'[op] = 0
    BY <2>2 DEF IInv, OpInv, SaidTrue, Void, Disclaimed
  <2>4. QED
    BY <1>1, <2>2, <2>3 DEF Once!Disclaim, Disclaimed
<1>4. CASE told' = told
  BY <1>2, <1>4 DEF Disclaimed, Said
<1>5. QED
  BY <1>1, <1>2, <1>3, <1>4 DEF TellsOne

\* Whatever is lost, late or restarted: every behaviour of the vehicle and the
\* cloud together is a behaviour of the at-most-once contract.
THEOREM RecoveryImplementsOnce == Spec => ImplementsOnce
<1>1. Init => Once!Init
  <2>1. ASSUME Init PROVE Disclaimed = {} /\ effects = [op \in Ops |-> 0]
    BY <2>1 DEF Init, Disclaimed, Said
  <2>2. QED
    BY <2>1 DEF Once!Init, Disclaimed
<1>2. IInv /\ IInv' /\ [Next]_vars => [Once!Next]_(Once!vars)
  <2> SUFFICES ASSUME IInv, IInv', [Next]_vars PROVE [Once!Next]_(Once!vars)
    OBVIOUS
  <2>1. CASE SpeaksOnce
    BY <2>1, SpeakingDisclaims DEF Once!Next
  <2>2. CASE VehicleStep /\ Act
    BY <2>2, ActExecutes DEF Once!Next
  <2>3. QED
    BY <2>1, <2>2, StepSpeaks
<1>3. QED
  BY <1>1, <1>2, InductiveInvariant, PTL DEF ImplementsOnce, Once!Spec, Spec
===============================================================================
