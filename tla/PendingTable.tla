----------------------------- MODULE PendingTable -----------------------------
(***************************************************************************)
(* The suspended operations of one session: SessionStore (orchestrator/    *)
(* cloud/session.py) as the planner's turns use it (engine.py).            *)
(*                                                                         *)
(* The table is one Redis value.  A turn that confirms or cancels wins a   *)
(* claim first, an optimistic transaction.  Suspending and closing read    *)
(* the table and write it back whole, two calls with other turns free to   *)
(* run in between: what they claimed or closed there, the write undoes     *)
(* (revived).  Any call may fail, and then it may or may not have taken    *)
(* effect; what could not be removed from the store is hidden from this    *)
(* process by a local tombstone.                                           *)
(***************************************************************************)
EXTENDS SequencesExt

CONSTANTS Turns,      \* turns of this session running at a time
          Pendings,   \* ids of suspended operations
          Capacity,   \* _PENDING_CAPACITY
          MaxFaults,  \* bound: store calls that fail, and restarts
          NoPending   \* no suspended operation

ASSUME CapacityAssumption == Capacity \in Nat \ {0}
ASSUME FaultsAssumption == MaxFaults \in Nat
ASSUME NoPendingAssumption == NoPending \notin Pendings

VARIABLES
  table,       \* the stored entries, oldest first: [id, claimed]
  tombs,       \* _closing: ids this process no longer sees
  fence,       \* the owner's data is being deleted
  pc,          \* pc[t]: where turn t is
  job,         \* job[t]: what it does to which operation
  snap,        \* snap[t]: the entries it read and is about to write back
  used,        \* ids that were given out
  dispatched,  \* dispatched[id]: how often the suspended step was resumed, up to twice
  told,        \* what the user was told about suspended operations
  revived,     \* history: operations put back as no reader sees them any more
  faults       \* faults so far

storeVars == <<table, tombs, fence>>
turnVars  == <<pc, job, snap>>
vars      == <<storeVars, turnVars, used, dispatched, told, revived, faults>>

Entry == [id : Pendings, claimed : BOOLEAN]
\* purpose: what the turn consumes an operation for; adds: the entry it saves;
\* removes: the entry it closes or replaces.
Job   == [purpose : {"confirm", "cancel", "abandon", "suspend"},
          adds : Pendings \union {NoPending}, removes : Pendings \union {NoPending}]
NoJob == [purpose |-> "none", adds |-> NoPending, removes |-> NoPending]
Notices == {"cancelled", "closed", "deleted"}

Init ==
  /\ table = <<>>
  /\ tombs = {} /\ fence = FALSE
  /\ pc = [t \in Turns |-> "idle"]
  /\ job = [t \in Turns |-> NoJob]
  /\ snap = [t \in Turns |-> <<>>]
  /\ used = {}
  /\ dispatched = [id \in Pendings |-> 0]
  /\ told = {} /\ revived = {}
  /\ faults = 0

------------------------------------------------------------------------------
Ids(entries) == {e.id : e \in ToSet(entries)}
Without(entries, ids) ==
  LET keep[i \in 0 .. Len(entries)] ==
        IF i = 0 THEN <<>>
        ELSE IF entries[i].id \in ids THEN keep[i - 1]
        ELSE Append(keep[i - 1], entries[i])
  IN  keep[Len(entries)]

(* What this process reads: nothing that it has closed itself, and nothing *)
(* at all while the owner's data is being deleted.                         *)
Visible == IF fence THEN <<>> ELSE Without(table, tombs)

\* Mutant: nothing is evicted.
FittingAll(entries) == entries

(* The newest entries that fit; older ones are evicted.                    *)
Fitting(entries) ==
  IF Len(entries) <= Capacity THEN entries
  ELSE SubSeq(entries, Len(entries) - Capacity + 1, Len(entries))

(* What is said of an operation is recorded as long as it was not put back.*)
Tell(ids, what) ==
  told' = {n \in told \union {[id |-> id, what |-> what] : id \in ids} : n.id \notin revived'}

Done(t) ==
  /\ pc' = [pc EXCEPT ![t] = "idle"]
  /\ job' = [job EXCEPT ![t] = NoJob]
  /\ snap' = [snap EXCEPT ![t] = <<>>]

Faulty == faults < MaxFaults /\ faults' = faults + 1

------------------------------------------------------------------------------
(* A turn suspends a new operation, resumes or cancels one it can see, or  *)
(* gives up a slot question nobody answered.                               *)
Begin(t, purpose, id) ==
  /\ pc[t] = "idle"
  /\ IF purpose = "suspend"
     THEN /\ id \in Pendings \ used
          /\ used' = used \union {id}
          /\ job' = [job EXCEPT ![t] = [purpose |-> purpose, adds |-> id,
                                        removes |-> NoPending]]
     ELSE /\ id \in Ids(Visible)
          /\ UNCHANGED used
          /\ job' = [job EXCEPT ![t] = [purpose |-> purpose, adds |-> NoPending,
                                        removes |-> id]]
  /\ pc' = [pc EXCEPT ![t] = IF purpose \in {"confirm", "cancel"} THEN "claim" ELSE "read"]
  /\ UNCHANGED <<storeVars, snap, dispatched, told, revived, faults>>

(* claim_result: one transaction over the table and the fence.             *)
Claimed(id) ==
  [i \in 1 .. Len(Visible) |-> IF Visible[i].id = id THEN [Visible[i] EXCEPT !.claimed = TRUE]
                               ELSE Visible[i]]

\* Mutant: an entry another turn has claimed can be claimed again.
FreeWheneverPresent(id) == id \in Ids(Visible)

Free(id) == \E e \in ToSet(Visible) : e.id = id /\ ~e.claimed

Wins(t) ==
  /\ Free(job[t].removes)
  /\ table' = Claimed(job[t].removes)
  /\ pc' = [pc EXCEPT ![t] = IF job[t].purpose = "confirm" THEN "resume" ELSE "read"]
  /\ IF job[t].purpose = "cancel" THEN Tell({job[t].removes}, "cancelled") ELSE UNCHANGED told
  /\ UNCHANGED <<job, snap, faults>>

(* Fenced, taken by another turn, or gone, which is reported closed.       *)
Loses(t) ==
  /\ ~Free(job[t].removes)
  /\ IF fence \/ job[t].removes \in Ids(Visible) THEN UNCHANGED told
     ELSE Tell({job[t].removes}, "closed")
  /\ Done(t)
  /\ UNCHANGED <<table, faults>>

(* The store does not answer; the claim may still have been made.          *)
ClaimFails(t) ==
  /\ Faulty
  /\ \/ UNCHANGED table
     \/ Free(job[t].removes) /\ table' = Claimed(job[t].removes)
  /\ Done(t)
  /\ UNCHANGED told

Claim(t) ==
  /\ pc[t] = "claim"
  /\ UNCHANGED <<tombs, fence, used, dispatched, revived>>
  /\ Wins(t) \/ Loses(t) \/ ClaimFails(t)

(* The confirmed step is dispatched.  The turn ends by closing the entry,  *)
(* or by replacing it with the next question of the same step.             *)
Resume(t) ==
  /\ pc[t] = "resume"
  /\ dispatched' = [dispatched EXCEPT ![job[t].removes] = IF @ = 2 THEN 2 ELSE @ + 1]
  /\ \/ UNCHANGED <<job, used>>
     \/ \E id \in Pendings \ used :
          job' = [job EXCEPT ![t].adds = id] /\ used' = used \union {id}
  /\ pc' = [pc EXCEPT ![t] = "read"]
  /\ UNCHANGED <<storeVars, snap, told, revived, faults>>

------------------------------------------------------------------------------
(* save_pending_result and clear_result                                    *)

Consumed(t) == {job[t].removes} \ {NoPending}

\* Mutant: a failed close leaves nothing behind.
BuriedNothing(t) == {}

Buried(t) == Consumed(t)

(* closed_operation_ids go with the turn's answer, evicted ones included.  *)
(* What the store did not confirm as deleted is closed for this process.   *)
Closes(t, evicted, how) == Tell(evicted \union Consumed(t), how) /\ Done(t)

(* The store did not take it: what the turn consumed must not come back.   *)
Fails(t) ==
  /\ tombs' = tombs \union Buried(t)
  /\ Closes(t, {}, "closed")

(* load_all_result.  Closing what is not there (any more) is done at once. *)
Read(t) ==
  /\ pc[t] = "read"
  /\ UNCHANGED <<table, fence, used, dispatched, revived>>
  /\ \/ Faulty /\ Fails(t)
     \/ /\ job[t].adds = NoPending /\ job[t].removes \notin Ids(Visible)
        /\ Closes(t, {}, "closed") /\ UNCHANGED <<tombs, faults>>
     \/ /\ job[t].adds # NoPending \/ job[t].removes \in Ids(Visible)
        /\ snap' = [snap EXCEPT ![t] = Visible]
        /\ pc' = [pc EXCEPT ![t] = "write"]
        /\ UNCHANGED <<job, tombs, told, faults>>

Kept(t) == Without(snap[t], {job[t].removes, job[t].adds})

NewTable(t) ==
  IF job[t].adds = NoPending THEN Kept(t)
  ELSE Fitting(Append(Kept(t), [id |-> job[t].adds, claimed |-> FALSE]))

Evicted(t) == Ids(Kept(t)) \ Ids(NewTable(t))

\* Mutant: the table is written while the owner's data is being deleted.
FencedNever(t) == FALSE

\* An empty table is a plain DELETE, anything else a write the fence stops.
Fenced(t) == fence /\ NewTable(t) # <<>>

(* What the write puts back although it was claimed, closed or hidden by a *)
(* tombstone after the turn had read the table.                            *)
Revived(t) ==
  {id \in Pendings \ {job[t].adds} :
     \E e \in ToSet(NewTable(t)) : e.id = id /\ e \notin ToSet(Visible)}

Stored(t) ==
  /\ ~Fenced(t)
  /\ table' = NewTable(t)
  /\ revived' = revived \union Revived(t)

(* The tombstones of the table are dropped: what they hid was not read.    *)
Write(t) ==
  /\ pc[t] = "write"
  /\ \/ Stored(t) /\ tombs' = {} /\ Closes(t, Evicted(t), "deleted") /\ UNCHANGED faults
     \/ Fenced(t) /\ UNCHANGED <<table, revived, faults>> /\ Fails(t)
     \/ Faulty /\ (Stored(t) \/ UNCHANGED <<table, revived>>) /\ Fails(t)
  /\ UNCHANGED <<fence, used, dispatched>>

------------------------------------------------------------------------------
(* The deadline of an entry passes: every read skips it from now on,       *)
(* wherever a copy of it still is.                                         *)
Expire(id) ==
  /\ id \in Ids(table)
  /\ table' = Without(table, {id})
  /\ snap' = [t \in Turns |-> Without(snap[t], {id})]
  /\ UNCHANGED <<tombs, fence, pc, job, used, dispatched, told, revived, faults>>

(* delete_owner: the fence first, then the table.  The fence outlives      *)
(* every record and every turn that started before it: a deletion that     *)
(* fails half-way leaves it to lapse after 300 s, the life of an entry.    *)
RaiseFence ==
  /\ ~fence
  /\ fence' = TRUE
  /\ UNCHANGED <<table, tombs, turnVars, used, dispatched, told, revived, faults>>

WipeTable ==
  /\ fence /\ table # <<>>
  /\ table' = <<>>
  /\ UNCHANGED <<tombs, fence, turnVars, used, dispatched, told, revived, faults>>

LiftFence ==
  /\ fence /\ table = <<>> /\ \A t \in Turns : pc[t] = "idle"
  /\ fence' = FALSE
  /\ UNCHANGED <<table, tombs, turnVars, used, dispatched, told, revived, faults>>

(* The planner restarts: its turns and its tombstones are gone, and with   *)
(* them what it could say of its own process only.                         *)
Restart ==
  /\ tombs # {} \/ \E t \in Turns : pc[t] # "idle"
  /\ Faulty
  /\ tombs' = {}
  /\ pc' = [t \in Turns |-> "idle"]
  /\ job' = [t \in Turns |-> NoJob]
  /\ snap' = [t \in Turns |-> <<>>]
  /\ told' = {n \in told : n.what # "closed"}
  /\ UNCHANGED <<table, fence, used, dispatched, revived>>

TurnStep(t) ==
  \/ \E purpose \in {"confirm", "cancel", "abandon", "suspend"}, id \in Pendings :
       Begin(t, purpose, id)
  \/ Claim(t) \/ Resume(t) \/ Read(t) \/ Write(t)

Next ==
  \/ \E t \in Turns : TurnStep(t)
  \/ \E id \in Pendings : Expire(id)
  \/ RaiseFence \/ WipeTable \/ LiftFence \/ Restart

Spec == Init /\ [][Next]_vars

------------------------------------------------------------------------------
(* Properties                                                              *)

Said(id, what) == [id |-> id, what |-> what] \in told

\* Every variable keeps its type, and the table its capacity.
TypeOK ==
  /\ table \in Seq(Entry) /\ Len(table) <= Capacity
  /\ tombs \subseteq Pendings /\ fence \in BOOLEAN
  /\ pc \in [Turns -> {"idle", "claim", "resume", "read", "write"}]
  /\ job \in [Turns -> Job \union {NoJob}]
  /\ snap \in [Turns -> Seq(Entry)]
  /\ used \subseteq Pendings
  /\ dispatched \in [Pendings -> 0 .. 2]
  /\ told \subseteq [id : Pendings, what : Notices]
  /\ revived \subseteq Pendings
  /\ faults \in 0 .. MaxFaults

\* claim_result and the README: a suspended operation is consumed once.
ConfirmationConsumedOnce == \A id \in Pendings : dispatched[id] <= 1

\* However turns interleave and writes fail, no suspended step is resumed twice,
\* unless a write based on an older table has put its entry back (session.py
\* claim_result, and save_pending_result and clear_result, which undo it).
ConsumedOnce == \A id \in Pendings \ revived : dispatched[id] <= 1

\* Cancelling and confirming exclude each other: what the user was told is
\* cancelled is never resumed, before or after, unless it was put back.
CancelledNeverRuns ==
  \A id \in Pendings \ revived : Said(id, "cancelled") => dispatched[id] = 0

\* An operation that was closed is never offered for confirmation again, unless it
\* was put back: not by this process when the store could not remove it, not by
\* any when it did.
ClosedStaysClosed ==
  \A id \in Pendings \ revived :
    Said(id, "closed") \/ Said(id, "deleted") => id \notin Ids(Visible)

\* While the owner's data is being deleted no write brings the table back.
FenceHoldsTheTable == [][fence /\ table = <<>> => table' = <<>>]_vars
===============================================================================
