----------------------- MODULE OperationContractProofs -----------------------
(***************************************************************************)
(* What the pure decision table guarantees, for every record, request and  *)
(* time: the lemmas that the proofs about its two users rest on, the agent *)
(* gate (OperationAdmissionProofs) and the vehicle (EdgeRecoveryProofs).   *)
(***************************************************************************)
EXTENDS OperationContract, TLAPS

\* The mark of an empty slot is not a record.
LEMMA NoRecordIsNoRecord == NoRecord \notin Record
BY DEF NoRecord, Record, Statuses

(* What a decision can be, and what the record it was taken on looked like.*)
SoundDecision(d, rec, c, t) ==
  /\ d \in [kind : Decisions, mark : {"", "cancelled", "orphaned"}]
  /\ d.kind = "run" =>
       /\ d.mark = ""
       /\ \/ rec = NoRecord
          \/ /\ Awaiting(rec) /\ ~AwaitingExpired(rec, t)
             /\ rec.subject = c.subject /\ (c.confirmed => rec.params = c.params)
  /\ d.kind = "expired" =>
       /\ rec # NoRecord
       /\ \/ rec.status = "cancelled" /\ d.mark = ""
          \/ Awaiting(rec) /\ AwaitingExpired(rec, t) /\ d.mark = "cancelled"
  /\ d.kind = "duplicate" => rec.status \in {"done", "failed"} /\ d.mark = ""
  /\ d.mark = "cancelled" => d.kind = "expired"
  /\ d.mark = "orphaned" => d.kind = "unknown" /\ rec # NoRecord /\ Executing(rec)

\* runtime/operation.py decide: which requests it lets run, and what it marks.
LEMMA DecideSound ==
  ASSUME NEW rec \in Record \union {NoRecord}, NEW c, c.confirmed \in BOOLEAN, NEW t \in Nat
  PROVE  SoundDecision(Decide(rec, c, t), rec, c, t)
<1>1. CASE rec = NoRecord
  BY <1>1 DEF Decide, SoundDecision, Decision, Decisions
<1>2. CASE rec # NoRecord
  <2>1. rec.status \in Statuses /\ rec.phase \in Phases
    BY <1>2 DEF Record
  <2>2. c.confirmed \in BOOLEAN
    OBVIOUS
  <2>3. CASE rec.subject # c.subject
    BY <1>2, <2>3 DEF Decide, SoundDecision, Decision, Decisions
  <2>4. CASE rec.subject = c.subject /\ Awaiting(rec)
    <3>1. Decide(rec, c, t) =
            IF AwaitingExpired(rec, t) THEN Decision("expired", "cancelled")
            ELSE IF rec.params # c.params /\ c.confirmed THEN Decision("mismatch", "")
            ELSE Decision("run", "")
      BY <1>2, <2>1, <2>4 DEF Decide, Awaiting, Executing
    <3>2. CASE AwaitingExpired(rec, t)
      <4>1. SoundDecision(Decision("expired", "cancelled"), rec, c, t)
        BY <1>2, <2>4, <3>2 DEF SoundDecision, Decision, Decisions
      <4>2. QED
        BY <3>1, <3>2, <4>1
    <3>3. CASE ~AwaitingExpired(rec, t) /\ rec.params # c.params /\ c.confirmed
      <4>1. SoundDecision(Decision("mismatch", ""), rec, c, t)
        BY <1>2 DEF SoundDecision, Decision, Decisions
      <4>2. QED
        BY <3>1, <3>3, <4>1
    <3>4. CASE ~AwaitingExpired(rec, t) /\ ~(rec.params # c.params /\ c.confirmed)
      <4>1. SoundDecision(Decision("run", ""), rec, c, t)
        BY <1>2, <2>2, <2>4, <3>4 DEF SoundDecision, Decision, Decisions
      <4>2. QED
        BY <3>1, <3>4, <4>1
    <3>5. QED
      BY <3>2, <3>3, <3>4
  <2>5. CASE rec.subject = c.subject /\ rec.status = "cancelled"
    <3>1. Decide(rec, c, t) = Decision("expired", "")
      BY <1>2, <2>5 DEF Decide, Awaiting, Executing
    <3>2. SoundDecision(Decision("expired", ""), rec, c, t)
      BY <1>2, <2>5 DEF SoundDecision, Decision, Decisions
    <3>3. QED
      BY <3>1, <3>2
  <2>6. CASE rec.subject = c.subject /\ ~Awaiting(rec) /\ rec.status # "cancelled" /\ rec.params # c.params
    <3>1. Decide(rec, c, t) = Decision("mismatch", "")
      BY <1>2, <2>6 DEF Decide, Awaiting, Executing
    <3>2. SoundDecision(Decision("mismatch", ""), rec, c, t)
      BY <1>2, <2>6 DEF SoundDecision, Decision, Decisions
    <3>3. QED
      BY <3>1, <3>2
  <2>7. CASE rec.subject = c.subject /\ Executing(rec) /\ rec.params = c.params
    <3>1. Decide(rec, c, t) = IF ExecutingStale(rec, t) THEN Decision("unknown", "orphaned")
                              ELSE Decision("in_progress", "")
      BY <1>2, <2>7 DEF Decide, Awaiting, Executing
    <3>2. CASE ExecutingStale(rec, t)
      <4>1. SoundDecision(Decision("unknown", "orphaned"), rec, c, t)
        BY <1>2, <2>7 DEF SoundDecision, Decision, Decisions
      <4>2. QED
        BY <3>1, <3>2, <4>1
    <3>3. CASE ~ExecutingStale(rec, t)
      <4>1. SoundDecision(Decision("in_progress", ""), rec, c, t)
        BY <1>2 DEF SoundDecision, Decision, Decisions
      <4>2. QED
        BY <3>1, <3>3, <4>1
    <3>4. QED
      BY <3>2, <3>3
  <2>8. CASE rec.subject = c.subject /\ rec.status \in {"done", "failed"} /\ rec.params = c.params
    <3>1. Decide(rec, c, t) = Decision("duplicate", "")
      BY <1>2, <2>8 DEF Decide, Awaiting, Executing
    <3>2. SoundDecision(Decision("duplicate", ""), rec, c, t)
      BY <1>2, <2>8 DEF SoundDecision, Decision, Decisions
    <3>3. QED
      BY <3>1, <3>2
  <2>9. CASE rec.subject = c.subject /\ rec.status = "orphaned" /\ rec.params = c.params
    <3>1. Decide(rec, c, t) = Decision("unknown", "")
      BY <1>2, <2>9 DEF Decide, Awaiting, Executing
    <3>2. SoundDecision(Decision("unknown", ""), rec, c, t)
      BY <1>2, <2>9 DEF SoundDecision, Decision, Decisions
    <3>3. QED
      BY <3>1, <3>2
  <2>10. QED
    BY <2>1, <2>3, <2>4, <2>5, <2>6, <2>7, <2>8, <2>9 DEF Awaiting, Executing, Statuses, Phases
<1>3. QED
  BY <1>1, <1>2

(* A settlement is one of the five statuses, and which one is decided by   *)
(* the handler's outcome.                                                  *)
SoundSettlement(s, o, rc, cf) ==
  /\ s.status \in {"accepted", "done", "failed", "orphaned"}
  /\ s.phase \in Phases
  /\ s.phase = "awaiting" <=> s.status = "accepted"
  /\ s.phase = "awaiting" => o \in {"need_confirm", "need_slot"} \/ (o = "ok" /\ rc /\ ~cf)
  /\ s.status = "failed" => o \in {"refused", "rejected", "failed"}
  /\ s.status = "done" => o = "ok" /\ (cf \/ ~rc)

\* runtime/operation.py settle.
LEMMA SettleSound ==
  ASSUME NEW o \in Outcomes, NEW rc \in BOOLEAN, NEW cf \in BOOLEAN
  PROVE  SoundSettlement(Settle(o, rc, cf), o, rc, cf)
<1>1. CASE o \in {"need_confirm", "need_slot"}
  BY <1>1 DEF Settle, SoundSettlement, Settlement, Phases
<1>2. CASE o = "uncertain"
  BY <1>2 DEF Settle, SoundSettlement, Settlement, Phases
<1>3. CASE o = "ok" /\ rc /\ ~cf
  BY <1>3 DEF Settle, SoundSettlement, Settlement, Phases
<1>4. CASE o = "ok" /\ (cf \/ ~rc)
  BY <1>4 DEF Settle, SoundSettlement, Settlement, Phases
<1>5. CASE o \in {"refused", "rejected", "failed"}
  BY <1>5 DEF Settle, SoundSettlement, Settlement, Phases
<1>6. QED
  BY <1>1, <1>2, <1>3, <1>4, <1>5 DEF Outcomes

(* A settled record is what the settlement says, touched when it was.      *)
\* task_store.settle and operation_log.settle write nothing else.
LEMMA SettledSound ==
  ASSUME NEW rec \in Record, NEW t \in Nat, NEW s,
         s.status \in Statuses, s.phase \in Phases
  PROVE  /\ Settled(rec, s, t) \in Record
         /\ Settled(rec, s, t).status = s.status /\ Settled(rec, s, t).phase = s.phase
         /\ Settled(rec, s, t).touched = rec.touched
<1>1. t + AwaitTtl \in Nat
  BY AwaitTtlAssumption
<1>2. QED
  BY <1>1 DEF Settled, Record

(* What a reader of the log is told, and what he may conclude from it.     *)
SoundStatus(s, rec, t) ==
  /\ s \in Statuses \union {"absent"}
  /\ s = "absent" => rec = NoRecord
  /\ s \in {"done", "failed"} => rec # NoRecord /\ rec.status = s
  /\ s = "cancelled" =>
       rec # NoRecord /\ (rec.status = "cancelled" \/ (Awaiting(rec) /\ AwaitingExpired(rec, t)))

\* runtime/operation.py effective_status: it anticipates the marks of decide.
LEMMA EffectiveSound ==
  ASSUME NEW rec \in Record \union {NoRecord}, NEW t \in Nat
  PROVE  SoundStatus(EffectiveStatus(rec, t), rec, t)
<1>1. CASE rec = NoRecord
  BY <1>1 DEF EffectiveStatus, SoundStatus
<1>2. CASE rec # NoRecord /\ Executing(rec) /\ ExecutingStale(rec, t)
  BY <1>2 DEF EffectiveStatus, SoundStatus, Statuses, Executing, Awaiting
<1>3. CASE rec # NoRecord /\ Awaiting(rec) /\ AwaitingExpired(rec, t)
  BY <1>3 DEF EffectiveStatus, SoundStatus, Statuses, Executing, Awaiting
<1>4. CASE /\ rec # NoRecord /\ ~(Executing(rec) /\ ExecutingStale(rec, t))
           /\ ~(Awaiting(rec) /\ AwaitingExpired(rec, t))
  <2>1. EffectiveStatus(rec, t) = rec.status /\ rec.status \in Statuses
    BY <1>4 DEF EffectiveStatus, Record
  <2>2. QED
    BY <1>4, <2>1 DEF SoundStatus, Statuses
<1>5. QED
  BY <1>1, <1>2, <1>3, <1>4
==============================================================================
