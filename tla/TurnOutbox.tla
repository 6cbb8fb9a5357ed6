------------------------------ MODULE TurnOutbox ------------------------------
(***************************************************************************)
(* Conversation turns the vehicle handled itself, on their way into the    *)
(* memory service: the writer of each turn (_record_local_turn in          *)
(* orchestrator/edge/server.py), the SQLite outbox for turns that could    *)
(* not be delivered and its replay loop (turn_outbox.py), and the memory   *)
(* service's owner fence and idempotent append (memory/fence.py, server.py,*)
(* store.py).                                                              *)
(*                                                                         *)
(* Writers and the loop share one event loop: they interleave at their     *)
(* awaits, which are the calls to the memory service.  Any call may fail,  *)
(* before or after it took effect, and so may a write to the outbox file.  *)
(* An exchange is a user row and an assistant row.  All turns are of one   *)
(* user: the fence knows nothing else.                                     *)
(***************************************************************************)
EXTENDS Naturals, Sequences, FiniteSets

CONSTANTS Exchanges,      \* exchange ids, one per local request
          Sessions,       \* sessions of the user
          Capacity,       \* MAX_ROWS, in exchanges
          Batch,          \* BATCH_EXCHANGES
          MaxDeletions    \* bound on the deletions of the user's memory

ASSUME LimitsAssumption == {Capacity, Batch} \subseteq Nat \ {0} /\ MaxDeletions \in Nat

VARIABLES
  gen,       \* the memory service's current epoch; 0 is "no epoch observed"
  history,   \* rows the memory service holds, in the order it took them
  cache,     \* _epochs: the last epoch this process fetched
  order,     \* exchanges in the order they happened
  session,   \* session[e]: where exchange e was said, or None
  pc,        \* pc[e]: where its writer is
  seen,      \* seen[e]: the epoch it fetched, and the one its rows in the file keep
  since,     \* since[e]: the service's epoch when the turn was observed
  outcomes,  \* outcomes[e]: what its direct writes returned
  box,       \* exchanges in the outbox
  due,       \* exchanges in the outbox that are not backing off
  behind,    \* behind[e]: what was waiting before e when it was put
  old,       \* how many exchanges passed the retention time
  kicked,    \* _kicked
  pass,      \* the replay pass: what is left to send and the row it is at
  dropped    \* exchanges given up: no room, a broken file or a dead process

serviceVars == <<gen, history>>
writerVars  == <<order, session, pc, seen, since, outcomes>>
boxVars     == <<box, due, behind>>
vars == <<serviceVars, cache, writerVars, boxVars, old, kicked, pass, dropped>>

None     == "none"
Roles    == {"user", "assistant"}
Outcomes == {"appended", "refused", "unavailable"}
Row      == [exchange : Exchanges, role : Roles, replayed : BOOLEAN, epoch : Nat]
NoPass   == [queue |-> {}, at |-> "idle", outcome |-> None]
NoEpochs == [fresh |-> 0, fence |-> 0]

Init ==
  /\ gen = 1 /\ history = <<>>
  /\ cache = 0
  /\ order = <<>>
  /\ session = [e \in Exchanges |-> None]
  /\ pc = [e \in Exchanges |-> "absent"]
  /\ seen = [e \in Exchanges |-> NoEpochs]
  /\ since = [e \in Exchanges |-> 0]
  /\ outcomes = [e \in Exchanges |-> {}]
  /\ box = {} /\ due = {}
  /\ behind = [e \in Exchanges |-> {}]
  /\ old = 0 /\ kicked = FALSE /\ pass = NoPass /\ dropped = {}

------------------------------------------------------------------------------
(* The memory service.  AppendTurn checks the epoch and writes under one   *)
(* lock per user; a row it already holds is taken again without a trace.   *)

Holds(e, role) == \E i \in DOMAIN history : history[i].exchange = e /\ history[i].role = role

Written(e) == \A role \in Roles : Holds(e, role)

\* No epoch is a caller from before the fence: it may write.
Current(epoch) == epoch \in {0, gen}

\* Mutant: a row that is sent again is written again.
AppendedAgain(e, role, replayed) ==
  Append(history, [exchange |-> e, role |-> role, replayed |-> replayed, epoch |-> gen])

Appended(e, role, replayed) ==
  IF Holds(e, role) THEN history
  ELSE Append(history, [exchange |-> e, role |-> role, replayed |-> replayed, epoch |-> gen])

(* One append call and its outcome for the caller.                         *)
AppendTurn(e, role, epoch, replayed, outcome) ==
  \/ /\ outcome = "appended" /\ Current(epoch)
     /\ history' = Appended(e, role, replayed)
  \/ /\ outcome = "refused" /\ ~Current(epoch)
     /\ UNCHANGED history
  \/ /\ outcome = "unavailable"
     /\ \/ UNCHANGED history
        \/ Current(epoch) /\ history' = Appended(e, role, replayed)

(* ForgetUser and DeleteMemoryItem advance the epoch before they delete;   *)
(* only the first deletes the conversation.                                *)
DeleteMemory ==
  /\ gen <= MaxDeletions
  /\ gen' = gen + 1
  /\ history' \in {history, <<>>}
  /\ UNCHANGED <<cache, writerVars, boxVars, old, kicked, pass, dropped>>

------------------------------------------------------------------------------
(* The outbox file                                                         *)

Position(e) == CHOOSE i \in DOMAIN order : order[i] = e
Expired == {order[i] : i \in 1 .. old}
Fresh   == box \ Expired

HasSession(s) == \E e \in box : session[e] = s

Room == Cardinality(Fresh) < Capacity

(* put: purge, then the rows go in together or not at all.                 *)
Put(e) ==
  /\ Room
  /\ box' = Fresh \union {e}
  /\ due' = (due \cap Fresh) \union {e}
  /\ behind' = [behind EXCEPT ![e] = {f \in Fresh : session[f] = session[e]
                                                      /\ Position(f) < Position(e)}]

(* There is no room, or the file cannot be written.                        *)
PutRefused ==
  /\ box' = Fresh /\ due' = due \cap Fresh
  /\ UNCHANGED behind

\* kick: wakes the loop when something is waiting.
Kicked == kicked \/ box # {}

------------------------------------------------------------------------------
(* One local turn                                                          *)

(* The request arrives: the cached epoch is read and a fetch is started.   *)
Arrive(e, s) ==
  /\ pc[e] = "absent"
  /\ order' = Append(order, e)
  /\ session' = [session EXCEPT ![e] = s]
  /\ seen' = [seen EXCEPT ![e].fence = cache]
  /\ since' = [since EXCEPT ![e] = gen]
  /\ pc' = [pc EXCEPT ![e] = "observe"]
  /\ UNCHANGED <<serviceVars, cache, outcomes, boxVars, old, kicked, pass, dropped>>

Observe(e) ==
  /\ pc[e] = "observe"
  /\ \/ /\ seen' = [seen EXCEPT ![e] = [fresh |-> gen, fence |-> gen]]
        /\ since' = [since EXCEPT ![e] = gen]
        /\ cache' = gen
        /\ kicked' = Kicked
     \/ UNCHANGED <<seen, since, cache, kicked>>
  /\ pc' = [pc EXCEPT ![e] = "record"]
  /\ UNCHANGED <<serviceVars, order, session, outcomes, boxVars, old, pass, dropped>>

(* _observed_epochs: what the turn fetched, else what was cached when it    *)
(* arrived.                                                                *)
\* Mutant: what is cached by now.
FenceEpochLate(e) == IF seen[e].fresh # 0 THEN seen[e].fresh ELSE cache

FenceEpoch(e) == seen[e].fence

Queues(e) == FenceEpoch(e) # 0 /\ HasSession(session[e])

(* A turn of a session that has turns waiting queues behind them.          *)
Record(e) ==
  /\ pc[e] = "record"
  /\ \/ /\ Queues(e) /\ Put(e)
        /\ kicked' = TRUE
        /\ pc' = [pc EXCEPT ![e] = "done"]
     \/ /\ \/ Queues(e) /\ PutRefused
           \/ ~Queues(e) /\ UNCHANGED boxVars
        /\ pc' = [pc EXCEPT ![e] = "user"]
        /\ UNCHANGED kicked
  /\ UNCHANGED <<serviceVars, cache, order, session, seen, since, outcomes, old, pass, dropped>>

(* The direct writes carry the epoch that was fetched, cached or not.      *)
WriteRow(e, role) ==
  /\ pc[e] = role
  /\ \E outcome \in Outcomes :
       /\ AppendTurn(e, role, seen[e].fresh, FALSE, outcome)
       /\ outcomes' = [outcomes EXCEPT ![e] = @ \union {outcome}]
  /\ pc' = [pc EXCEPT ![e] = IF role = "user" THEN "assistant" ELSE "conclude"]
  /\ UNCHANGED <<gen, cache, order, session, seen, since, boxVars, old, kicked, pass, dropped>>

\* Mutant: a turn of which one row arrived is not kept.
KeepsWholeLoss(e) == outcomes[e] = {"unavailable"} /\ FenceEpoch(e) # 0

\* Mutant: a turn without an observed epoch is kept too.
KeepsUnobserved(e) == "unavailable" \in outcomes[e] /\ "refused" \notin outcomes[e]

Keeps(e) == "unavailable" \in outcomes[e] /\ "refused" \notin outcomes[e] /\ FenceEpoch(e) # 0

Conclude(e) ==
  /\ pc[e] = "conclude"
  /\ pc' = [pc EXCEPT ![e] = "done"]
  /\ outcomes' = [outcomes EXCEPT ![e] = {}]
  /\ \/ Keeps(e) /\ Put(e) /\ UNCHANGED <<kicked, dropped>>
     \/ Keeps(e) /\ PutRefused /\ dropped' = dropped \union {e} /\ UNCHANGED kicked
     \/ /\ ~Keeps(e)
        /\ UNCHANGED <<boxVars, dropped>>
        /\ kicked' = IF outcomes[e] = {"appended"} THEN Kicked ELSE kicked
  /\ UNCHANGED <<serviceVars, cache, order, session, seen, since, old, pass>>

------------------------------------------------------------------------------
(* The replay loop                                                         *)

Earlier(e, f) == Position(e) <= Position(f)
FirstBatch(waiting) ==
  {e \in waiting : Cardinality({f \in waiting : Earlier(f, e)}) <= Batch}

\* Mutant: a turn that backs off does not hold up its session.
SendableUnblocked(waiting, ready) == FirstBatch(waiting) \cap ready

(* What one pass sends: nothing of a session behind a turn that backs off. *)
Sendable(waiting, ready) ==
  {e \in FirstBatch(waiting) :
     \A f \in waiting \ ready : session[f] = session[e] => ~Earlier(f, e)}

(* replay_once: purge, void the backoff if kicked, and read the batch.     *)
StartPass ==
  /\ pass.at = "idle"
  /\ box' = Fresh
  /\ due' = IF kicked THEN Fresh ELSE due \cap Fresh
  /\ kicked' = FALSE
  /\ LET queue == Sendable(box', due')
     IN  pass' = [queue |-> queue, at |-> IF queue = {} THEN "idle" ELSE "user",
                  outcome |-> None]
  /\ UNCHANGED <<serviceVars, cache, writerVars, behind, old, dropped>>

\* The turn that is being sent, the oldest of the batch.
Sending(e) == e \in pass.queue /\ \A f \in pass.queue : Earlier(e, f)

(* _send: the rows in turn, up to the first that is not taken.             *)
SendRow(e, role) ==
  /\ pass.at = role /\ Sending(e)
  /\ \E outcome \in Outcomes :
       /\ AppendTurn(e, role, FenceEpoch(e), TRUE, outcome)
       /\ pass' = IF role = "user" /\ outcome = "appended" THEN [pass EXCEPT !.at = "assistant"]
                  ELSE [pass EXCEPT !.at = "sent", !.outcome = outcome]
  /\ UNCHANGED <<gen, cache, writerVars, boxVars, old, kicked, dropped>>

\* Mutant: a turn that was refused is sent again and again.
SettledTakenOnly == pass.outcome = "appended"

Settled == pass.outcome # "unavailable"

Rest(e) == IF pass.outcome = "unavailable" THEN {} ELSE pass.queue \ {e}

(* Taken or refused: the rows go.  Not delivered: the turn backs off and   *)
(* the pass ends.  A broken file keeps what it has.                        *)
Settle(e) ==
  /\ pass.at = "sent" /\ Sending(e)
  /\ \/ Settled /\ box' = box \ {e} /\ due' = due \ {e}
     \/ ~Settled /\ due' = due \ {e} /\ UNCHANGED box
     \/ UNCHANGED <<box, due>>
  /\ pass' = [queue |-> Rest(e), at |-> IF Rest(e) = {} THEN "idle" ELSE "user",
              outcome |-> None]
  /\ UNCHANGED <<serviceVars, cache, writerVars, behind, old, kicked, dropped>>

\* The backoff of a turn is over.
Ripen(e) ==
  /\ e \in box \ due
  /\ due' = due \union {e}
  /\ UNCHANGED <<serviceVars, cache, writerVars, box, behind, old, kicked, pass, dropped>>

------------------------------------------------------------------------------
(* The oldest turn passes the retention time.                              *)
Age ==
  /\ old < Len(order)
  /\ old' = old + 1
  /\ UNCHANGED <<serviceVars, cache, writerVars, boxVars, kicked, pass, dropped>>

(* The vehicle's process dies: only the outbox file is left.               *)
Restart ==
  /\ LET dying == {e \in Exchanges : pc[e] \notin {"absent", "done"}}
     IN  /\ dying # {} \/ pass # NoPass
         /\ pc' = [e \in Exchanges |-> IF e \in dying THEN "done" ELSE pc[e]]
         /\ dropped' = dropped \union dying
  /\ outcomes' = [e \in Exchanges |-> {}]
  /\ cache' = 0 /\ kicked' = FALSE /\ pass' = NoPass
  /\ UNCHANGED <<serviceVars, order, session, seen, since, boxVars, old>>

WriterStep(e) ==
  \/ \E s \in Sessions : Arrive(e, s)
  \/ Observe(e) \/ Record(e)
  \/ \E role \in Roles : WriteRow(e, role)
  \/ Conclude(e)

LoopStep ==
  \/ StartPass
  \/ \E e \in Exchanges : Settle(e) \/ \E role \in Roles : SendRow(e, role)

Next ==
  \/ \E e \in Exchanges : WriterStep(e) \/ Ripen(e)
  \/ LoopStep
  \/ DeleteMemory \/ Age \/ Restart

Spec == Init /\ [][Next]_vars

(* run_forever wakes when the next turn is due and backoffs end.  Calls    *)
(* that are made again and again get through now and then.                 *)
Fairness ==
  /\ WF_vars(LoopStep)
  /\ \A e \in Exchanges : WF_vars(Ripen(e))
  /\ \A role \in Roles :
       SF_vars((\E e \in Exchanges : SendRow(e, role)) /\ pass'.outcome # "unavailable")
  /\ SF_vars(\E e \in Exchanges : Settle(e) /\ e \notin box')

LiveSpec == Spec /\ Fairness

------------------------------------------------------------------------------
(* Properties                                                              *)

\* Every variable keeps its type, and the outbox its capacity.
TypeOK ==
  /\ gen \in 1 .. MaxDeletions + 1 /\ history \in Seq(Row)
  /\ kicked \in BOOLEAN
  /\ cache \in 0 .. gen
  /\ order \in Seq(Exchanges)
  /\ session \in [Exchanges -> Sessions \union {None}]
  /\ pc \in [Exchanges -> {"absent", "observe", "record", "user", "assistant", "conclude", "done"}]
  /\ seen \in [Exchanges -> [fresh : 0 .. gen, fence : 0 .. gen]]
  /\ since \in [Exchanges -> 0 .. gen]
  /\ outcomes \in [Exchanges -> SUBSET Outcomes]
  /\ box \subseteq Exchanges /\ Cardinality(box) <= Capacity
  /\ \A e \in box : FenceEpoch(e) # 0
  /\ due \subseteq box
  /\ behind \in [Exchanges -> SUBSET Exchanges]
  /\ old \in 0 .. Len(order)
  /\ pass \in [queue : SUBSET Exchanges, at : Roles \union {"idle", "sent"},
               outcome : Outcomes \union {None}]
  /\ dropped \subseteq Exchanges

\* A turn is in the conversation history once, however often its rows were sent
\* again after a lost answer, a half delivered exchange or a restart.
WrittenOnce ==
  \A i, j \in DOMAIN history :
    history[i].exchange = history[j].exchange /\ history[i].role = history[j].role => i = j

\* turn_outbox.py: what happened before a deletion is never replayed after it,
\* whichever epoch the turn could observe.
ReplayRespectsDeletion ==
  \A i \in DOMAIN history :
    history[i].replayed => since[history[i].exchange] = history[i].epoch

\* A turn that was put behind waiting turns of its session is not replayed
\* before them, through backoffs, kicks and restarts.
ReplayKeepsOrder ==
  \A i \in DOMAIN history :
    history[i].replayed =>
      \A f \in behind[history[i].exchange] \cap Fresh : Written(f) \/ FenceEpoch(f) # gen

\* A turn that may still be written is written, waits in the outbox, or was
\* given up for a reason: retention, room, the file or the death of the process.
NothingLost ==
  \A e \in Exchanges :
    pc[e] = "done" /\ FenceEpoch(e) = gen =>
      \/ e \in box \union dropped \union Expired
      \/ Written(e)

\* Everything in the outbox is delivered, refused or expires in the end: no
\* backoff and no other session's turn holds it up for ever.
OutboxDrains == \A e \in Exchanges : e \in box ~> e \notin box

\* server.py _observe_memory_epoch: a turn is not written back once the memory
\* was deleted after it was observed.
NoWriteAfterDeletion ==
  \A i \in DOMAIN history : since[history[i].exchange] = history[i].epoch
===============================================================================
