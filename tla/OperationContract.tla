-------------------------- MODULE OperationContract --------------------------
(***************************************************************************)
(* The pure decision table of durable operation admission                  *)
(* (runtime/operation.py), shared by every executor: the agent SDK over    *)
(* the Postgres task ledger and the vehicle over its SQLite log.           *)
(*                                                                         *)
(* An admission record keeps the status and phase of one server-minted     *)
(* operation id, the binding of the request that owns it and two times of  *)
(* the store's clock.  `subject' stands for everything in the binding      *)
(* except the parameters: user, vehicle, agent, intent and capability      *)
(* revision.  Two requests of one operation have the same binding exactly  *)
(* when subject and params are the same, so digests are left out.          *)
(***************************************************************************)
EXTENDS Integers

CONSTANTS Subjects,     \* (user, vehicle, agent, intent, capability revision)
          Params,       \* parameter sets a request can carry
          StaleAfter,   \* OPERATION_EXECUTING_STALE_S
          AwaitTtl      \* OPERATION_AWAIT_TTL_S

ASSUME StaleAfterAssumption == StaleAfter \in Nat \ {0}
ASSUME AwaitTtlAssumption == AwaitTtl \in Nat \ {0}

Statuses  == {"accepted", "done", "failed", "orphaned", "cancelled"}
Phases    == {"executing", "awaiting"}
Decisions == {"run", "in_progress", "unknown", "duplicate", "mismatch", "expired",
              "unavailable"}

NoRecord == [status |-> "none"]

Record == [status : Statuses, phase : Phases, subject : Subjects, params : Params,
           touched : Nat, expires : Nat]

Claim == [subject : Subjects, params : Params, confirmed : BOOLEAN]

(* The record a first admission or a claim leaves: the envelope is         *)
(* rewritten, and has no expiry until a settlement writes one.             *)
Envelope(c, at) ==
  [status |-> "accepted", phase |-> "executing", subject |-> c.subject,
   params |-> c.params, touched |-> at, expires |-> 0]

SameBinding(rec, c) == rec.subject = c.subject /\ rec.params = c.params

Executing(rec) == rec.status = "accepted" /\ rec.phase = "executing"
Awaiting(rec)  == rec.status = "accepted" /\ rec.phase = "awaiting"

AwaitingExpired(rec, now) == rec.expires <= now
ExecutingStale(rec, now)  == now - rec.touched >= StaleAfter

------------------------------------------------------------------------------
(* decide: what a request that found a record may do, and the status it    *)
(* must write down before it answers ("" = none).                          *)
Decision(kind, mark) == [kind |-> kind, mark |-> mark]

Decide(rec, c, now) ==
  IF rec = NoRecord THEN Decision("run", "")
  ELSE IF rec.subject # c.subject THEN Decision("mismatch", "")
  ELSE CASE Awaiting(rec) ->
              IF AwaitingExpired(rec, now) THEN Decision("expired", "cancelled")
              ELSE IF rec.params # c.params /\ c.confirmed THEN Decision("mismatch", "")
              ELSE Decision("run", "")
         [] rec.status = "cancelled" -> Decision("expired", "")
         [] ~Awaiting(rec) /\ rec.status # "cancelled" /\ rec.params # c.params ->
              Decision("mismatch", "")
         [] Executing(rec) /\ rec.params = c.params ->
              IF ExecutingStale(rec, now) THEN Decision("unknown", "orphaned")
              ELSE Decision("in_progress", "")
         [] rec.status \in {"done", "failed"} /\ rec.params = c.params ->
              Decision("duplicate", "")
         [] rec.status = "orphaned" /\ rec.params = c.params -> Decision("unknown", "")

------------------------------------------------------------------------------
(* settle: how a handler's response becomes the record's next status.      *)
Outcomes == {"need_confirm", "need_slot", "ok", "refused", "uncertain", "rejected",
             "failed"}

Settlement(status, phase) == [status |-> status, phase |-> phase]

Settle(outcome, requireConfirm, confirmed) ==
  CASE outcome \in {"need_confirm", "need_slot"} -> Settlement("accepted", "awaiting")
    [] outcome = "uncertain" -> Settlement("orphaned", "executing")
    [] outcome = "ok" /\ requireConfirm /\ ~confirmed -> Settlement("accepted", "awaiting")
    [] outcome = "ok" /\ (confirmed \/ ~requireConfirm) -> Settlement("done", "executing")
    [] outcome \in {"refused", "rejected", "failed"} -> Settlement("failed", "executing")

------------------------------------------------------------------------------
(* effective_status: the read-only view of the two places where decide     *)
(* first marks and then answers.                                           *)
EffectiveStatus(rec, now) ==
  CASE rec = NoRecord -> "absent"
    [] rec # NoRecord /\ Executing(rec) /\ ExecutingStale(rec, now) -> "orphaned"
    [] rec # NoRecord /\ Awaiting(rec) /\ AwaitingExpired(rec, now) -> "cancelled"
    [] OTHER -> rec.status

(* sync_outcome: an answer of the vehicle's log ("" = no answer) as the    *)
(* conclusion the cloud keeps for the user and the execution audit.        *)
SyncOutcome(edgeStatus) ==
  CASE edgeStatus = "done" -> "done"
    [] edgeStatus = "failed" -> "failed"
    [] edgeStatus \in {"absent", "cancelled"} -> "not_executed"
    [] edgeStatus = "orphaned" -> "unknown"
    [] OTHER -> "checking"

(* The conditional writes of the ledger.  Each is one statement whose       *)
(* WHERE clause re-checks the state it starts from.                        *)
CanClaim(rec, observed, now) ==
  /\ rec # NoRecord /\ Awaiting(rec)
  /\ SameBinding(rec, observed)
  /\ rec.expires > now

CanSettle(rec, c) ==
  /\ rec # NoRecord
  /\ SameBinding(rec, c)
  /\ rec.status = "orphaned" \/ Executing(rec)

Settled(rec, s, now) ==
  [rec EXCEPT !.status = s.status, !.phase = s.phase,
              !.expires = IF s.phase = "awaiting" THEN now + AwaitTtl ELSE @]

CanMarkStale(rec, observed, now) ==
  rec # NoRecord /\ Executing(rec) /\ SameBinding(rec, observed) /\ ExecutingStale(rec, now)

CanMarkExpired(rec, observed, now) ==
  rec # NoRecord /\ Awaiting(rec) /\ SameBinding(rec, observed) /\ AwaitingExpired(rec, now)
==============================================================================
