# Cockpit-agent: formal models

TLA+ models, TLC configurations and machine-checked proofs for the parts of
cockpit-agent that decide whether an operation is carried out, how often, and what
the user is told about it. Paths below are relative to `src/`.

## 1. The system

A voice assistant for a vehicle cockpit. A request enters through the HMI and the Go
edge gateway, is served locally by the edge orchestrator (fast intent, vehicle
abstraction layer) or goes up a bidirectional gRPC channel to the cloud gateway and the
planner, which plans steps and dispatches them to domain Agents in the cloud or back
down the channel to the vehicle. Short-lived state is in Redis, durable state in
Postgres, the vehicle keeps two SQLite files.

| Component | State it keeps | Operations | Talks to | Hard because | Correct when |
|---|---|---|---|---|---|
| Operation contract, `runtime/operation.py` | none | claim, decide, settle, effective status, sync outcome | used by cloud Agents and the vehicle | one rule set, two stores | decisions never allow a second execution |
| Agent operation gate, `runtime/operation_gate.py`, `agents/_sdk/server.py` | per call: claim, settled flag | admit (up to 3 rounds), settle, settle_uncertain | the ledger, a row per operation in Postgres | concurrent duplicates, rebinding, stale marks, store errors whose effect is unknown, crashes | one effect per operation; confirmed parameters are the ones that run; records and answers stay true |
| Vehicle executor and log, `orchestrator/edge/edge_call.py`, `operation_log.py` | `edge_operation` rows (SQLite) | dispatch, query, recover, purge | the cloud over the channel; VAL | process death mid-command, retention | as above; an interrupted command becomes "unknown" |
| Cloud step executor, `orchestrator/cloud/executor.py`, `dispatch.py`, `clients.py` | step results of a turn | dispatch, time-out, query, one resend | vehicle through the cloud gateway; reconciliation | lost and late frames, no answer | resend only what never arrived; say only what is known |
| Reconciliation, `orchestrator/cloud/operation_sync.py` | one Redis hash per owner and session, an active set | note, tick, ask, settle, notify | session store, vehicle query | planner restarts, vehicle offline for hours, deletion of the owner's data | every promise gets a verdict; no deleted record returns |
| Session store, `orchestrator/cloud/session.py` | pending table per session (a Redis value), tombstones, focus, owner fence | save, claim, clear, delete owner | turns of the engine | whole-table writes, ambiguous errors, eviction | a pending operation is consumed once; closed stays closed |
| Local turn write-back, `orchestrator/edge/server.py`, `turn_outbox.py` | epoch cache, outbox rows (SQLite) | observe epoch, record, put, replay, back off, purge | memory service | partial delivery, deletion racing replay, restarts | written once, in order, never across a deletion, nothing lost silently |
| Memory fence, `memory/fence.py`, `memory/server.py` | epoch per owner (Redis) | epoch, append, forget, delete item | edge, planner, Agents | deletion while writes are out | nothing observed before a deletion is written after it |
| Cloud gateway, `gateway/cloud/main.go` | a session per vehicle, a result channel per step | connect, dispatch, deliver result | vehicle, planner | results without a channel, reconnects | a result reaches the call it belongs to |
| Plan execution, `orchestrator/cloud/executor.py`, consumers in `engine.py`, `loop.py`; `circuit.py` | results and fingerprints of a turn, a pending record between turns, one breaker per endpoint | run layer by layer, replay duplicates, suspend, resume; allow, succeed, fail | Agents, session store | parallel steps, timeouts whose effect is unknown, results kept only in part | an action runs once, only after its own confirmation, and nothing is dropped silently |
| Payment gateway, `payment-gateway/` | orders, idempotency keys, poll set (Redis) | authorize, capture, cancel, refund, poll | payment channels, Agents | read-modify-write of orders by handlers and the worker, channel calls whose outcome is unknown | order and channel agree about the money; one payment per key; a shown code is watched until it settles |
| Proactive governor, `proactive/` and its producers' client `runtime/proactive.py` | queue, deferred items, delivery rows | take, gate, defer, flush, tick, acknowledge, replay, restore | NATS, gateway, HMI | tasks over shared queues, restart, lost frames and receipts | a row is closed for its stated reason; what was taken reaches an end |
| Privacy deletion, `runtime/privacy_delete_bus.py` | delete jobs and fences | fan-out, confirm, retry | every store of personal data | one of many stores failing | deleted means deleted everywhere |
| Registry, reminder, LLM gateway, domain Agents, clients | rows, schedules, caches | see `PROJECT.json` | | | not modelled yet, or no protocol state |

Every component, modelled or not, is in `PROJECT.json` under `components`; `hazards`
lists, line by line, what is hard to test and which property guards it.

## 2. The modules

| Module | Models | Role |
|---|---|---|
| `OperationContract` | `runtime/operation.py`, and the row conditions of the ledger's SQL | records, `Decide`, `Settle`, `EffectiveStatus`, `SyncOutcome`: used by both executors |
| `OperationContractProofs` | | lemmas on `Decide`, `Settle`, `SyncOutcome` and `EffectiveStatus`, cited by the next proofs |
| `OperationOnce` | the promise, not code | abstract specification: at most one effect, and none once it was disclaimed |
| `OperationAdmission` | gate, ledger rows, SDK `Execute` | cloud Agents: concurrent calls, one step per await |
| `OperationAdmissionProofs` | | inductive invariant, safety theorems, refinement |
| `EdgeExecutor` | vehicle executor and log | operations only; composed by the next module |
| `EdgeRecovery` | cloud step executor, channel, reconciliation | the composition cloud + channel + vehicle |
| `EdgeRecoveryProofs` | | inductive invariant, safety theorems, refinement |
| `PendingTable` | session store and the turns using it | |
| `PendingTableProofs` | | its safety properties, for any turns, ids and capacity |
| `TurnOutbox` | local turns, outbox, replay loop, memory fence | |
| `TurnOutboxProofs` | | its safety properties, for any number of turns and sessions |
| `CircuitBreaker` | `circuit.py` | a breaker as a value, one operator per method |
| `PlanExecution` | plan layers, fingerprints, suspension, both consumers | uses `CircuitBreaker` for every endpoint |
| `PlanExecutionProofs` | | its safety properties, for any plan |
| `PaymentOrder` | payment store, handlers, polling worker | with channel and user as environment |
| `PaymentOrderProofs` | | its safety properties, for any payments, handlers and faults |
| `ProactiveDelivery` | governor, ledger, gateway hop, mobile HMI | producers and connection as environment |
| `ProactiveDeliveryProofs` | | its safety properties, for any messages and faults |
| `MC*` | | instances for TLC: dispatched steps, symmetry, arrival order |

`OperationContract` is extended by `OperationAdmission` and `EdgeExecutor`, as
`runtime/operation.py` is imported by both; `EdgeRecovery` extends `EdgeExecutor`;
`OperationAdmission` and `EdgeRecovery` both refine `OperationOnce`.

### OperationAdmission

State: `log` is the ledger (one row per operation, never purged in Postgres), `pc`,
`req`, `seen`, `verdict`, `outcome`, `rounds` are the locals of the calls in progress,
`effects`, `answers` and `asked` are history variables: how often the side effect
happened, what callers were told, what the operation waits for. One action per await of
`admit`, `Execute` and `settle`: insert, read, claim, mark, business call, settlement.
`NextRound` is the loop of three rounds. Any store call may raise, and an insert, claim,
mark or settlement that raises may have been committed (`InsertWrite`, `ClaimWrite`,
`MarkWrite` are what a commit leaves). `Vanish` is a cancelled call or a dead process.

Abstractions: `subject` stands for user, agent, vehicle, intent and capability revision,
`params` for the parameter digest; the binding digest is equality of both. The handler
is assumed to keep its contract: an operation that requires confirmation has an effect
only in a confirmed call, and need_*, refused, rejected and failed are returned only
without an effect. Commits that land after the raised call has ended are not modelled.

### EdgeExecutor and EdgeRecovery

The vehicle serves calls one at a time from its read loop with synchronous SQLite
statements, so `Admit`, `Act` and `Finish` interleave only with `Restart` (recovery marks
executing records orphaned) and with the clock. `Purged` is the deletion every insert
does first. `Refuse` stands for the contract checks and for a failing statement.

`EdgeRecovery` adds frames in flight (`calls`: lost, reordered, late up to `MaxDelay`,
each delivered at most once), the gateway's result channels (`open`, `replies`: a result
without a channel is dropped), the step of the planner (`step`), the reconciliation
record (`notes`), the background query (`asks`) and what was said (`told`). `told` holds
both speech and audit record. `TimeOut`, `QueryAnswered`/`QueryUnanswered` and `Recover`
are `_recover_edge`; `NoteAndTell` is `_unsettled_edge`; `Background*` are `_advance`,
`_ask` and `_settle`, one action per await.

Abstractions: backoff is at least one tick; the write fence of a deletion outlives the
steps that started before it (300 s against seconds); one planner replica, as deployed;
VAL's own confirmation check agrees with the capability's `require_confirm`; the log file
is persistent (`EDGE_OPERATION_LOG` set). Loss and reordering over-approximate reconnects.
That no frame is delivered after the grace (`DelayAssumption`) is the assumption the code
itself states at `operation_sync.py:33-35`: calls carry no deadline of their own.
`KeptAssumption` says how long the vehicle has to keep a record: through the longest wait
for the user, two dispatches and queries and the horizon of the reconciliation
(section 4). The deployed values meet it: 24 h against 23 h, 300 s and a few seconds
(`operation_log.py:28`, `operation_sync.py:32`, `operation_gate.py:31`).

### PendingTable

State: `table` (the Redis value, oldest entry first), `tombs` (`_closing`), `fence` (the
owner write fence), per turn `pc`, `job`, `snap`; `dispatched`, `told` and `revived` are
history. `Claim` is the optimistic transaction of `claim_result`; `Read` and `Write` are the
two awaited halves of `save_pending_result` and `clear_result`, and any turn may run between
them. `revived` holds the operations that a write put back although no reader saw them any
more as they are written: claimed, removed or hidden by a tombstone after the writer had
read the table. A write also drops tombstones that were set between its halves
(`_forget_closed`). What was said of a revived operation is no longer counted, and the
properties promise nothing of it; finding 2 is such an operation resumed twice. The purpose "confirm" stands for every consumption by
dispatch (confirmation, slot, clarification); "cancel" for one by a claim and a notice;
"abandon" for closing without a claim; "suspend" for a new entry. An operation the claim
finds absent, or that a save evicts, is reported closed as in `engine.py:2842` and `3105`.
Notices that rest on a tombstone ("closed") are this process's own, and `Restart` drops
them; those that rest on a write ("deleted") stay.

Abstractions: without Redis the store keeps the table in memory and saves it without an
await in between, which is a part of these behaviours. The owner fence lapses after 300 s
(`session.py:24`), also when the deletion failed half-way; an entry lives as long and a turn
shorter, so `LiftFence` waits until the table is empty and the turns that ran are over. A
claim that loses its race again and again counts as one that failed.

### TurnOutbox

State: `gen` and `history` of the memory service, `cache` (last epoch fetched), per
exchange `pc`, `seen`, `outcomes`, the file (`box`, `due`), the loop (`pass`, `kicked`),
and history variables `order`, `since`, `behind`, `dropped`. Each call to the memory
service is one step that may fail, having taken effect or not. The service's own lock
makes check and append one step. `Age` replaces the clock: the oldest exchanges pass the
retention time.

Abstractions: one user; an exchange is a user row and an assistant row; attempts and
delays are reduced to "due or backing off"; a failing purge, the 50-row history limit,
its expiry, and appends that land after the client's timeout are not modelled. A fetch
that succeeds is the turn's observation, even when a deletion happened in its two
seconds.

### PlanExecution and CircuitBreaker

State: `done`, `back`, `fresh`, `flying` are the executor's results, the results of the
layer that runs, and its steps that are still to start or out; `results` is what the
consumer was handed, `held` the pending record, `breaker` one `CircuitBreaker` value per
endpoint. `Replay` and `Dispatch` are the two ways `_exec_step` goes on; `Respond`,
`Break` and `Expire` end a call; `NextLayer` and `EndTurn` are the end of a layer;
`Resume` is the user's answer with `_restore`. `driver` chooses the consumer: the engine
takes every result, the T2 loop returns at the first that suspends (`Consumed`).
`KeptAs` is what a pending record keeps of a result. `acts`, `agreed` and `spoiled` are
history: how often a step acted, what the user confirmed, and the fingerprints whose
effect the plan cannot know of, which `RanOnce` excepts one by one: a connection broken
after the effect, a result the loop never took, a timeout that a suspension kept as a plain
failure. Identical steps of one layer start together and are excepted by their depth.

Abstractions: every step is an Agent's; the Agent behind a confirming step keeps the
contract that it acts only with the confirmation, as `_enforce_capability_confirm`
documents; a success of a step that acts carries its actions, without which it would get no
fingerprint (`executor.py:310`); the repetition of a step whose outcome was checked and found
missing (`executor.py:500`) is left out; intent and slots are one value, the fingerprint. The breaker's half-open
counter is left out because the code compares it and never counts it.

### PaymentOrder

State: the three Redis structures (`idem`, `order`, `poll`), the channel's `trade`, the
running handlers (`call`: operation, the await it stands at, the order as read), the
worker and the rest of its tick (`worker`, `batch`), what reached the user (`seen`,
`receipt`). One action per await, so that a transition is a read and, later, a write of
the whole hash. `CloseTrade` stands for the close of every channel, whose negative answer
and whose "there is no such trade" the code treats as success. History: `unclosed`, orders
closed here while the channel had not closed; `cut`, orders whose handler was cut before
its last step; `torn`, keys under which two orders were created at once.

`contended`, orders a handler wrote while another was at work on them. The gateway has no
lock: of two such handlers the slower one overwrites what the faster one did (a Capture that
read the order before a Cancel writes it back afterwards), so the properties promise nothing
of these orders. The worker is no handler in this sense: that it writes between the two
halves of a handler's transition does no harm, and the properties cover it.

`Crossing` bounds which handlers overlap in a run, and the theorems have no such bound. The
run lets the `Authorize` of a key overlap with itself, for a merchant's key also in the
registration of its order, and every handler overlap with the worker. Larger instances were
explored once and found in order: every overlap of one payment's handlers to depth 38 (77
million states), and Capture with Cancel, two Cancels, two Captures and two Refunds in full.

Abstractions: the key's lookup and the order's are one step and the key does not expire
(24 h); so are Capture's two reads before the channel call. The orders of a tick are read at
once, not one by one and at most 50 (`store.py:373`): an order that changes in between is
seen as it was, which only makes the worker know less. A payment whose channel is not
configured (`worker.py:90`) is asked about for ever and never expires; every channel of the
model is configured.

### ProactiveDelivery

State: the governor's queues (`pending`, `deferred`, the tick in progress, rejections
being settled, groups being published), its tasks (`timer`, `kicked`), the ledger's `row`
per message, and the HMI's bubbles, presented ids and receipts. An action is the code
between two awaits of the one asyncio process. `Govern` is the first pass of the gates,
`TickRun` a tick up to its next await, `FlushTimer` and `FlushNow` the two ways a flush
starts, `Publish` and `Mark` its two halves. `Crash` loses the queues, `Restart` restores
open rows past the gates, `Connect` asks for a replay, `Receipt` closes a row.

Abstractions: one owner; the gates' hours, rates and load are the environment's choice
(`Gate`), limited by what a durable message may be held for; a mark may have left its
window; merged text and the batch limit of 20 rows are left out; a queue is a set,
because a message queued twice leaves in one frame all the same. The direct copy a
producer sends when its request times out passes the governor and is not modelled. Reads of
the ledger that fail in `Restart` and `Replay` and so find nothing (`governor.py:196`, `246`)
are not modelled: such a message waits for the next connection, as after a lost frame.

## 3. What TLC checks

| Run | Bounds | Distinct states | Shows |
|---|---|---|---|
| `admission_safety` | 2 calls at a time (any number in sequence), 1 operation that needs confirmation, 2 subjects, 2 parameter sets, `StaleAfter = AwaitTtl = 1`, clock to 3; symmetry | 342 364 | one handler at a time, at most one effect, truthful records and answers, confirmed parameters, final statuses, refinement of `OperationOnce` |
| `edge_recovery` | one operation with or without confirmation, 2 parameter sets, clock to 11, `MaxSends = 4` | 1 030 206 | at most one effect and only true statements through loss, delay, resend, restarts, purge and deletion; refinement |
| `edge_recovery_live` | one parameter set, shorter times, clock to 7 | 64 465 | promises come to a verdict, steps settle |
| `pending_table` | 2 turns, 3 ids, capacity 2, 1 failing call or restart, overlapping writes, 1 operation put back (`OnePutBack`) | 1 805 826 | single consumption, cancel excludes confirm, closed stays closed, the fence holds |
| `outbox` | 2 exchanges, 2 sessions, capacity 2, 1 deletion | 1 430 428 | no duplicate rows, no replay across a deletion or out of order, no silent loss |
| `outbox_live` | 2 exchanges, 1 session, batches of one | 154 998 | the outbox drains |
| `payment` | one key paid by code, one of a merchant, 2 orders, 2 handlers at a time (two only as `Authorize` of one key) and the worker, 1 fault | 731 935 | order and channel agree, one payment per key, waiting orders are watched and settle |
| `proactive` | a durable conditional alert and an advice, both with a ttl and under one dedup key, 2 faults | 217 504 | rows closed for cause, no message stranded outside the queues, every taken message ends |
| `plan` | 6 steps in 3 layers, 2 endpoints, threshold 2, 5 resumptions | 33 432 | single effect, own confirmation, nothing dropped |
| `edge_unreachable`, `pending_overlap`, `outbox_unfenced` | | | the three findings below |

Why the bounds are enough. Calls of one operation are independent of other operations
in every module (records, steps and notes are per operation and nothing is shared but the
clock and the vehicle's read loop), so one operation is run and the theorems cover all.
Two concurrent calls suffice for every race of the gate, whose steps are compare-and-set
on one row; a third would find the same row states. In `edge_recovery` the clock runs
past the horizon, the retention and the purge of the record, so the last possible frame
and query meet an empty log. `PendingTable` has one id more than the table holds, so
saving evicts, and one fault, which makes any of a turn's calls fail in either way; the run follows one
operation that was put back, of which nothing is promised, beside two of which all is.
`TurnOutbox` has exactly as many exchanges as ordering, batching and a
head-of-line block need; they do not fill an outbox of two, so that it refuses a turn in
the run only as a broken file does, and the bound on its rows is left to the proof. `PaymentOrder` has two orders, as a key that is paid anew or
taken twice needs, and one fault, which suffices to cut a handler or a tick at each of
its awaits; two handlers are a double `Authorize`, and the overlaps of others are left to
the proof and to the explorations named above.
`ProactiveDelivery` has two messages that share the queues, the flush task and the dedup
key, and two faults: a lost frame and a lost receipt, or a crash beside either. The plan of
`MCPlanExecution` was chosen for its shape: an order that asks twice, twins in one layer
and across layers, a step that only reads between them. Bounds that are not in the code are constants of the modules:
`MaxTime`, `MaxSends`, `MaxDeletions`, `MaxOrders`, `MaxCalls`, `MaxFaults`,
`MaxResumes`, `Crossing`, and in the MC modules `OnePutBack`, the choice of one
operation and the arrival order of the liveness run.
Scaled values: stale after 120 s, confirmation 900 s, grace 120 s, horizon 23 h,
retention 24 h, pending 300 s and 3 entries, outbox 24 h, 2000 rows, batches of 50.

`CHECK_DEADLOCK FALSE` is said where a run really ends: the clock reaches its bound or
the ids are used up and everything is settled, the orders are final, the plan is over.

Fairness. `EdgeRecovery`: time passes (strong, because a firing timer may hold the clock
back again and again), `asyncio.wait_for` timers fire, and the planner's own loop
(`run_forever`, every 5 s) goes on. Nothing is assumed of the network or the vehicle, not
even that a query is ever answered. The promise still holds because the horizon ends it.
`TurnOutbox`: the loop and the backoffs run; calls that are tried for ever get through now
and then, and the file takes a delete now and then. `outbox_live` further leaves out
retention and crashes, which would empty the outbox without delivering anything, so that
draining has to come from the loop.

`PaymentOrder`: handlers that have started run on, the worker's loop ticks and works
through its batch, and time passes each order's expiry; nobody has to call or to pay, and
faults are bounded, so a channel that answers in the end is assumed and one that never
answers is not. `ProactiveDelivery`: the governor's tasks run, a dead governor is
restarted by its supervisor, and a phone loses and regains its connection. The connection
otherwise lasts as long as something is under way (`Calm`), except for the bounded
faults: a link that drops every single frame delivers nothing, whatever the code does.

## 4. What is proved

### OperationAdmissionProofs

For any finite or infinite sets of handlers,
operations, subjects and parameter sets and any time limits:

- `InductiveInvariant`: `Spec => []IInv`.
- `TypeCorrect`, `NeverTwoHandlers`, `NeverTwice`, `LedgerTruthful`, `ConfirmationBinds`,
  `AnswersTruthful`: the invariants of `admission_safety`.
- `DefiniteIsFinal`: no step rewrites a definite status.
- `GateImplementsOnce`: the gate refines `OperationOnce`.

The assumptions are those of the modules' named `ASSUME`s: times are naturals, the null
values are not members of the sets they extend.

Argument. The safety properties are not inductive: that a second handler cannot start
follows from the row being in the executing phase, which follows from the first handler
holding it. `IInv` therefore adds that a running call holds a record with its binding
which is executing or orphaned (`RunnerHoldsRecord`), that the point a call has reached
determines whether the effect has happened (`ProgressMatchesEffect`), that an operation
without a record never ran (`NoRecordNoEffect`), that an awaiting record holds exactly
what was asked (`AwaitingHoldsWhatWasAsked`), what is still known of an observation made
before a claim or a mark (`ObservationBinds`), and that answers rest on records that
cannot move any more (`AnswersRestOnRecords`). The proofs have one lemma per action and
group of conjuncts. A record is only ever orphaned behind a running call, and an orphaned
record is neither claimable nor settleable to an awaiting phase. The refinement maps
`disclaimed` to the operations with a failed or cancelled record or an "expired" answer.

### EdgeRecoveryProofs

For any operations and parameters, any clock and any number of sends, and all time limits
that satisfy `DelayAssumption` and `KeptAssumption`: `TypeCorrect`, `OneEffect`
(`EffectAtMostOnce`), `StatementsHold` (`StatementsStayTrue`), `ErasedHolds`,
`PromiseHolds`, and `RecoveryImplementsOnce`, the refinement of `OperationOnce`.

Argument, one operation at a time (`OpInv`). What was said is true because it cannot become
false: `Void` says that there was no effect and that none can follow, by `CannotRun`. That
is the case in two ways only. Either the log holds a record that blocks every frame; or the
record is gone, and with it the step, every frame that could still be delivered, and
everybody who might ask (`Stopped`, `Unasked`). So a record must not be purged before the
cloud is done: `Kept` bounds by `DoneBy` everything the cloud may still do about the
operation by the time its record was last touched plus the retention, from the deadlines of
the step (`Timers`) and the ages of its frames (`FrameTimes`). Answers that are on their way,
or read and not yet used, are true in the same sense (`AnswersTrue`).

The proof found a gap in the assumption the model had before, that the retention covers the
horizon and two dispatches: it forgot that a step may wait for the user in between. With a
waiting time longer than the slack TLC then violates `StatementsStayTrue`: the record of the
first attempt is purged while the user thinks, and an answer "absent" passes for "never
ran". The code's values leave an hour of slack for 300 s; that they must is now stated.

### PlanExecutionProofs

For every plan (any number of steps, any acyclic dependencies, fingerprints and
endpoints), any threshold and any number of resumptions: `TypeCorrect`, `ActsOnce`
(`RanOnce`), `ActsWhenAsked` (`AskedBeforeActed`), `NothingIsSilent` (`NothingSilent`). They
need three facts besides
themselves: what is under way belongs to one layer, has no result yet, and no twin among
the results when its call is out (`Order`); an effect that is not spoiled is known, as a
success or a timeout among the results or in the pending record (`Known`); and the
confirmation a step carries was given by the user (`Genuine`). A call that is out has no
result with its fingerprint, so by `Known` its action was not taken in an earlier layer or
turn. The lemmas
about the breaker are about one value (`BreakerSteps`) and lifted to the function.

`NothingIsSilent` needs in addition that whatever lies below the current layer has a result
or stands behind a step that has not succeeded (`Covered`), and that every step lies in some
layer and above all it depends on. The latter is a fact about the recursive function
`Depth`, shown with the least-number principle from the library's theorem on well-founded
relations.

### TurnOutboxProofs

For any finite or infinite sets of turns and sessions, any capacity, batch and number of
deletions: `TypeCorrect`, `RowsAreWrittenOnce`, `DeletionIsFinal`
(`ReplayRespectsDeletion`), `NothingIsLost`, `OrderIsKept` (`ReplayKeepsOrder`). Three
invariants build on each other. `IInv` has what the file and the memory agree on: rows
in the file belong to finished writers and carry an epoch not newer than the one current
at their observation. `LInv` adds where each turn is while it is neither stored nor in the
file (`Answered`, `Writing`, `Delivering`), from which nothing can be lost in between.
`KInv` adds that what a turn was put behind was said before it in the same
session (`BehindIs`), and that a pass that sends a turn also sends what the turn was put
behind, or that has been written (`InTurn`).

### PendingTableProofs

For any turns, ids, capacity and number of faults, with any turns between the two halves of
any write: `TypeCorrect`, `ConsumesOnce`, `CancelHolds`, `CloseHolds`, `FenceHolds`. They say
of every operation that was not `revived` what the code promises of all, and so that a write
which overtakes a claim or a removal is the only way to break the promises; finding 2 and
the run `pending_overlap` show that it is one.

Invariant: an id is used once (`FreshIds`); while an unclaimed copy of an operation exists,
in the table or about to be written to it, and it was not put back, it was neither resumed
nor cancelled, and whoever won the claim is the only one; what was reported closed is out of
the table, behind a tombstone or fenced, and a turn that would write a copy of it back makes
it `revived`. `Without`, which removes an entry from the table, is a recursive function over
prefixes; that it keeps the order, the other entries and the bound is shown by the
least-number principle.

### PaymentOrderProofs

For any number of payments, handlers, orders and faults, and any overlap of handlers with
each other and with the worker: `TypeCorrect`, `MoneyHolds` (`MoneyAgrees`),
`PaysOncePerKey` (`PaidOncePerKey`), `WatchHolds` (`Watched`). `Crossing` may be anything.

Invariant: the part of a handler's state that no overlap can disturb (`Opening`, `Holding`,
`Moving`: it has an order, that is there and has its key) holds always, and gives the types.
For an order that is not `contended` it also says what the handler relies on at each await:
where the order stands, by the status it is moving to (`Knowing`, `Sure`). No other handler
can have moved the order, since that write would have made it contended; only the worker
can, who ends only what waits, and only `Cancel` is then still under way, whose channel is
shut (`Shut`) or whose order has no code. A write beside another handler makes the order
contended and owes nothing more (`SaveBeside`). `Agrees` strengthens `MoneyAgrees` by the
code: an order without one was never shown and is not paid. `Keyed` says that under a key
that is not torn every order but the one the key leads to is over or contended; `Named` that
a key leads to an order of its own. `WorkerIs`, `WorkerKnows` and `BatchIs` bind what the
worker read at the start of its tick: an order it found waiting may since have been
cancelled and nothing else.

That the registration of a merchant's order needs the same care came out of the proof. If
two `Authorize` of one merchant's key overlap, the second one's read and write may enclose
the worker's expiry: it puts the order back to pending_pay, the worker then takes it off the
list, and nobody watches it (`store.py` `_transition`, `server.py:229`). The run reaches it.

### ProactiveDeliveryProofs

For any messages, keys, conditions and number of faults, without further hypotheses:
`TypeCorrect`, `ClosesForCause` (`ClosedForCause`), `NothingIsStranded` (`NotStranded`).
`NotStranded` is not inductive because a tick works on its own copy of the deferred queue
and writes it back at its end. `Carried` says where a message is meanwhile: while a tick
runs its two lists stand for the deferred queue. `Caused` carries the reason of a
rejection from the gate that gave it to the ledger row, across the awaits in between.

### Assumptions, and what is left to TLC

The theorems rest on the modules' named `ASSUME`s: bounds are naturals, thresholds
and batches positive, null values not members of the sets they extend, a step depends on
earlier steps, time limits fit together (`EdgeRecovery`); on nothing else. Every invariant and action property and both
refinements that the passing runs check are theorems.

Each inductive invariant was first checked by TLC on the instance of the run.

Only model-checked: liveness under fairness (`PromisesAreKept`, `StepsSettle`,
`OutboxDrains`, `Settles`, `Reaches`), which with `ENABLED` is out of the prover's reach.
The library's induction theorems take an operator as a parameter, which the installed
provers cannot instantiate; where a recursive function has to be reasoned about
(`Depth`, `Without`), a least counterexample does instead.

## 5. Findings

1. `edge_unreachable`: a transport error after the frame was sent is reported as
   "unreachable", which the dispatcher's own comment defines as "never ran"; the vehicle
   may have executed it, and no recovery follows (`dispatch.py:276`).
2. `pending_overlap`: suspending and closing rewrite the whole pending table from a copy
   read earlier, and erase a claim made in between; the step is resumed twice
   (`session.py:390-406`; `revived` in the properties of `pending_table`).
3. `outbox_unfenced`: a local turn whose epoch fetch failed is written directly without
   an epoch and may land after a deletion that followed its arrival (`server.py:733`).

Further observations, contained in the models as the code behaves, and excepted by name in
the properties they would break:

- Payments. A close that fails, or that finds no trade because nobody scanned the code yet,
  is taken for a closed order (`worker.py:121`, `server.py:312`); the user can still pay it
  (`unclosed`). The loser of `SET NX` finds a key without an order and creates a second one,
  although the comment says it reads the winner's (`store.py:213`); a remap is a plain `SET`
  (`torn`). Two handlers of one payment, of two sessions of one user, overwrite each other's
  transitions (`store.py:278`; `contended`). A refund whose answer is lost puts the order back to captured
  (`server.py:360`). A failed receipt is not sent again.
- Plans. The T2 loop returns at the first result that suspends (`loop.py:611`): later
  results of the layer, although executed, are dropped and run again after the resumption,
  against `executor.py:219`. A pending record keeps no `error`, so that a timeout no longer
  blocks its twin (`engine.py:2666`). A step's budget cancels the call before the dispatcher's
  own deadline of at least 10 s (`executor.py:455`, `dispatch.py:303`), and a cancelled call
  is no `Exception`: step timeouts never open a breaker. Half-open probes are not counted
  (`circuit.py:40`).
- Proactive messages. While a flush task publishes, a message accepted meanwhile arms no
  new timer (`governor.py:459`, `569`) and waits for the next message or reconnect. Restore
  and replay bypass the gates for messages that had been deferred, against the comment at
  `governor.py:190`. The test-namespace admin's
  `purge_owner` replaces the deferred queue while a tick awaits, and the tick puts its own
  copy back (`governor.py:572`); it is off by default and not modelled. The web HMI does not acknowledge again
  what it has presented, the modelled mobile one does.

## 6. Plan

Done: the operation contract and the admission gate, the vehicle path with recovery and
reconciliation, the pending table, the turn outbox, the payment order, proactive delivery,
plan execution with the circuit breaker, and the safety proofs of all of them.

Next modules: `EdgeChannel` (cloud gateway sessions, reconnects, request idempotency),
composed under `EdgeRecovery` in place of the free loss of frames; `PrivacyDeletion`
(deletion bus and fences); the task ledger's tasks, the
reminder scheduler's claims, registry health.

### Not modelled

Planning, context and language understanding, the LLM gateway, the domain Agents and the
user interfaces: prompts, retrieval, wording, calls of external services and views, whose
correctness is not a matter of states and steps. They are most of the repository's lines.
The vehicle abstraction layer and its capability tables: data and a simulated driver.
Observability and permissions: logging and static checks. Conditional requests and
vehicle-state snapshots: pure helpers over data. `PROJECT.json` says for every component
what is left out of it.

## 7. Running

    tlc -workers 2 -config MCOperationAdmission.cfg MCOperationAdmission
    tlapm OperationAdmissionProofs.tla     # likewise every other *Proofs module

`PROJECT.json` pairs every run with its module and configuration, every property with a
mutant of the code that violates it (`mutants`: the replaced definition and its mutated
form, defined next to it), and every definition with the source lines it models (`map`).
