---------------------------- MODULE PaymentOrder ----------------------------
(***************************************************************************)
(* The payment gateway: orders and idempotency keys in Redis               *)
(* (payment-gateway/store.py), the RPC handlers over them (server.py) and  *)
(* the polling worker (worker.py), with the payment channel and the user's *)
(* phone as environment.                                                   *)
(*                                                                         *)
(* A handler is a sequence of awaits and one action runs one of them, so   *)
(* every other handler may run between two.  In particular a transition of *)
(* an order is a read (hgetall) and, later, a write of the WHOLE hash      *)
(* (hset): what another handler wrote in between is overwritten.           *)
(***************************************************************************)
EXTENDS Naturals, FiniteSets

CONSTANTS
    Keys,        \* idempotency keys the agents use
    HostedKeys,  \* those of merchant_hosted payments: the merchant has the money
    MaxOrders,   \* payment ids 1 .. MaxOrders: bound on the orders created
    MaxCalls,    \* bound: handlers running at a time
    Crossing,    \* bound: sets of <<key, payment id, operation>>, what may run
                 \* together; the code allows everything
    MaxFaults    \* bound: handlers cut between two awaits (crash, deadline),
                 \* channel calls and pushes that fail without a reason

Ops == {"authorize", "capture", "cancel", "refund"}

ASSUME HostedAssumption == HostedKeys \subseteq Keys
ASSUME OrdersAssumption == MaxOrders \in Nat
ASSUME CrossingAssumption == Crossing \subseteq SUBSET (Keys \X Nat \X Ops)
ASSUME BoundsAssumption == MaxCalls \in Nat /\ MaxFaults \in Nat

VARIABLES
    idem,      \* payment:idem:<key> -> payment id, 0 for no entry
    order,     \* payment:order:<id>, Absent where there is no hash
    poll,      \* payment:poll, the worker's todo list
    late,      \* orders whose expires_at has passed
    trade,     \* the channel's view of the order
    seen,      \* orders whose code reached the user's screen
    call,      \* the running handlers
    worker,    \* the polling worker
    batch,     \* what is left of the tick's due orders, as read at its start
    receipt,   \* orders whose payment was announced
    unclosed,  \* history: orders closed here while the channel had not closed
    cut,       \* history: orders whose handler was cut before its last step
    torn,      \* history: keys under which two orders were created at once
    contended, \* history: orders a handler wrote while another was at work on them
    faults     \* faults so far

gateway == <<idem, order, poll>>
history == <<unclosed, cut, torn, contended>>
vars == <<gateway, late, trade, seen, call, worker, batch, receipt, history,
          faults>>

Ids == 1 .. MaxOrders
Calls == 1 .. MaxCalls
Statuses == {"authorized", "pending_pay", "captured", "cancelled", "failed",
             "expired", "refunding", "refunded"}
Terminal == {"captured", "cancelled", "failed", "expired", "refunded"}
AnyUnpaid == {"cancelled", "expired", "failed", "pending_pay"}
Repayable == {"cancelled", "expired", "failed"}
Trades == {"none", "coded", "paid", "closed", "refunded"}

Orders == [key: Keys, status: Statuses, coded: BOOLEAN]
Absent == [key |-> "-", status |-> "absent", coded |-> FALSE]

\* The transition table: the statuses a transition may come from.
AllowedFrom ==
    [pending_pay |-> {"authorized"},
     captured    |-> {"pending_pay"},
     cancelled   |-> {"authorized", "pending_pay"},
     expired     |-> {"pending_pay"},
     failed      |-> {"authorized", "pending_pay"},
     refunding   |-> {"captured"},
     refunded    |-> {"refunding"}]

\* A handler: its operation, the await it stands at, its key and order, the
\* status it is moving to and the order as it last read it.
Idle == [op |-> "none", at |-> "idle", key |-> "-", id |-> 0, to |-> "-",
         read |-> Absent]
Asleep == [at |-> "idle", id |-> 0, to |-> "-", read |-> Absent, late |-> FALSE]

Exists(p) == order[p] # Absent
Hosted(p) == order[p].key \in HostedKeys
\* The order a key leads to (Absent when it has no entry or a dead one).
Behind(k) == IF idem[k] = 0 THEN Absent ELSE order[idem[k]]

\* Ids no order, key or handler uses; uuid4 gives one of them.
Fresh == {p \in Ids : /\ order[p] = Absent
                      /\ \A k \in Keys : idem[k] # p
                      /\ \A c \in Calls : call[c].id # p}
NewId == CHOOSE p \in Fresh : \A q \in Fresh : p <= q
\* Authorize until its order is written; and a handler of order p after that.
Early == {"take", "remap", "loser", "write"}
AtWork(c, p) == call[c].id = p /\ call[c].at \notin Early

\* A call comes in while the others run; it takes the first free place.
MayCall(c, k, p, op) ==
    /\ call[c] = Idle
    /\ \A d \in Calls :
          IF call[d] = Idle THEN c <= d
          ELSE {<<k, p, op>>, <<call[d].key, call[d].id, call[d].op>>} \in Crossing

Init ==
    /\ idem = [k \in Keys |-> 0]
    /\ order = [p \in Ids |-> Absent]
    /\ poll = {} /\ late = {} /\ seen = {} /\ batch = {} /\ receipt = {}
    /\ trade = [p \in Ids |-> "none"]
    /\ call = [c \in Calls |-> Idle]
    /\ worker = Asleep
    /\ unclosed = {} /\ cut = {} /\ torn = {} /\ contended = {}
    /\ faults = 0

(***************************************************************************)
(* Authorize: PaymentStore.authorize, and for a merchant_hosted order the  *)
(* registration that follows it.                                           *)
(***************************************************************************)
\* What Authorize does with the order it will return: a merchant_hosted one
\* is registered as pending at once, any other is the answer.
AfterOrder(p, k, o) ==
    IF k \in HostedKeys /\ o.status = "authorized"
    THEN [op |-> "authorize", at |-> "read", key |-> k, id |-> p,
          to |-> "pending_pay", read |-> Absent]
    ELSE Idle

AuthorizeLookup(c, k) ==
    LET old == Behind(k)
        taking(at) == [Idle EXCEPT !.op = "authorize", !.at = at, !.key = k,
                                   !.id = idem[k]]
    IN /\ MayCall(c, k, idem[k], "authorize") /\ Fresh # {}
       /\ call' = [call EXCEPT ![c] =
              IF old = Absent THEN taking("take")
              ELSE IF old.status \in Repayable THEN taking("remap")
              ELSE AfterOrder(idem[k], k, old)]
       /\ UNCHANGED <<gateway, late, trade, seen, worker, batch, receipt, history,
                      faults>>

\* SET NX, or a plain SET over the key of an order that can be paid anew.
AuthorizeTake(c) ==
    /\ call[c].at \in {"take", "remap"}
    /\ LET k == call[c].key
       IN \/ /\ call[c].at = "remap" \/ idem[k] = 0
             /\ Fresh # {}
             /\ idem' = [idem EXCEPT ![k] = NewId]
             /\ call' = [call EXCEPT ![c].at = "write", ![c].id = NewId]
             /\ torn' = IF call[c].at = "remap" /\ idem[k] # call[c].id
                        THEN torn \cup {k} ELSE torn
          \/ /\ call[c].at = "take" /\ idem[k] # 0
             /\ call' = [call EXCEPT ![c].at = "loser"]
             /\ UNCHANGED <<idem, torn>>
    /\ UNCHANGED <<order, poll, late, trade, seen, worker, batch, receipt,
                   unclosed, cut, contended, faults>>

\* The loser of SET NX reads the winner's order, and writes one of its own
\* when there is none to read.
AuthorizeLoser(c) ==
    /\ call[c].at = "loser"
    /\ LET k == call[c].key
       IN \/ /\ Behind(k) # Absent
             /\ call' = [call EXCEPT ![c] = AfterOrder(idem[k], k, Behind(k))]
             /\ UNCHANGED torn
          \/ /\ Behind(k) = Absent
             /\ Fresh # {}
             /\ call' = [call EXCEPT ![c].at = "write", ![c].id = NewId]
             /\ torn' = torn \cup {k}
    /\ UNCHANGED <<gateway, late, trade, seen, worker, batch, receipt, unclosed,
                   cut, contended, faults>>

AuthorizeWrite(c) ==
    /\ call[c].at = "write"
    /\ LET k == call[c].key
           p == call[c].id
           new == [key |-> k, status |-> "authorized", coded |-> FALSE]
       IN /\ order' = [order EXCEPT ![p] = new]
          /\ call' = [call EXCEPT ![c] = AfterOrder(p, k, new)]
    /\ UNCHANGED <<idem, poll, late, trade, seen, worker, batch, receipt, history,
                   faults>>

(***************************************************************************)
(* Capture, Cancel, Refund: the first read of the handler, by the owner.   *)
(***************************************************************************)
Begin(c, p, op, at, to) ==
    /\ MayCall(c, order[p].key, p, op)
    /\ call' = [call EXCEPT ![c] = [op |-> op, at |-> at, key |-> order[p].key,
                                    id |-> p, to |-> to, read |-> Absent]]

\* An authorized order goes to the channel for a code; the merchant is none.
CaptureAuthorized(c, p) ==
    /\ Exists(p) /\ order[p].status = "authorized" /\ ~Hosted(p)
    /\ Begin(c, p, "capture", "create", "-")
    /\ UNCHANGED <<gateway, late, trade, seen, worker, batch, receipt, history,
                   faults>>

\* A pending one answers with the code it stored, and does nothing else.
CapturePending(c, p) ==
    /\ Exists(p) /\ MayCall(c, order[p].key, p, "capture")
    /\ order[p].status = "pending_pay" /\ order[p].coded
    /\ seen' = seen \cup {p}
    /\ UNCHANGED <<gateway, late, trade, call, worker, batch, receipt, history,
                   faults>>

\* The channel has its own trade only for an order it gave a code for.
NeverTells(p) == FALSE
TellsChannel(p) == order[p].status = "pending_pay" /\ ~Hosted(p)

CancelStart(c, p) ==
    /\ Exists(p)
    /\ \/ /\ TellsChannel(p)
          /\ Begin(c, p, "cancel", "close", "cancelled")
       \/ /\ ~TellsChannel(p)
          /\ Begin(c, p, "cancel", "read", "cancelled")
    /\ UNCHANGED <<gateway, late, trade, seen, worker, batch, receipt, history,
                   faults>>

RefundStart(c, p) ==
    /\ Exists(p) /\ order[p].status = "captured"
    /\ Begin(c, p, "refund", "read", "refunding")
    /\ UNCHANGED <<gateway, late, trade, seen, worker, batch, receipt, history,
                   faults>>

(***************************************************************************)
(* The channel.  A call that raises may or may not have reached it.        *)
(***************************************************************************)
\* create_qr: the trade is named by the payment id, so asking again gives the
\* same code; no code for a trade that is closed or paid.
CaptureCreate(c) ==
    LET p == call[c].id
    IN /\ call[c].at = "create"
       /\ \/ /\ trade[p] \in {"none", "coded"}
             /\ trade' = [trade EXCEPT ![p] = "coded"]
             /\ call' = [call EXCEPT ![c].at = "read", ![c].to = "pending_pay"]
             /\ UNCHANGED faults
          \/ /\ IF trade[p] \in {"none", "coded"}
                THEN faults < MaxFaults /\ faults' = faults + 1
                ELSE UNCHANGED faults
             /\ trade' \in {trade, [trade EXCEPT ![p] =
                                       IF @ = "none" THEN "coded" ELSE @]}
             /\ call' = [call EXCEPT ![c].at = "read", ![c].to = "failed"]
    /\ UNCHANGED <<gateway, late, seen, worker, batch, receipt, history>>

\* close: whether it raises, says no, or says yes because nobody scanned the
\* code and there is no trade to close, the handler goes on in the same way.
CloseTrade(p) ==
    \/ /\ trade[p] \in {"coded", "closed"}
       /\ trade' = [trade EXCEPT ![p] = "closed"]
       /\ UNCHANGED unclosed
    \/ /\ unclosed' = unclosed \cup {p}
       /\ UNCHANGED trade

CancelClose(c) ==
    /\ call[c].at = "close"
    /\ CloseTrade(call[c].id)
    /\ call' = [call EXCEPT ![c].at = "read"]
    /\ UNCHANGED <<gateway, late, seen, worker, batch, receipt, cut, torn, contended,
                   faults>>

\* refund: refund_no is derived from the payment id, a second one is the first.
RefundChannel(c) ==
    LET p == call[c].id
    IN /\ call[c].at = "refund"
       /\ \/ /\ trade[p] \in {"paid", "refunded"}
             /\ trade' = [trade EXCEPT ![p] = "refunded"]
             /\ call' = [call EXCEPT ![c].at = "read", ![c].to = "refunded"]
             /\ UNCHANGED faults
          \/ /\ faults < MaxFaults /\ faults' = faults + 1
             /\ trade' \in {trade, [trade EXCEPT ![p] =
                                       IF @ = "paid" THEN "refunded" ELSE @]}
             /\ call' = [call EXCEPT ![c].at = "reread"]
    /\ UNCHANGED <<gateway, late, seen, worker, batch, receipt, history>>

(***************************************************************************)
(* PaymentStore._transition in a handler, and what the handler does after. *)
(***************************************************************************)
\* A payment that waits is put on the poll list.
NotListed(h) == Idle
Listed(h) == [h EXCEPT !.at = "sched"]

\* Where a handler goes when its transition is done, or was done before.
AfterTransition(h) ==
    CASE h.to = "pending_pay"           -> Listed(h)
      [] h.to \in {"failed", "cancelled"} -> [h EXCEPT !.at = "unsched", !.read = Absent]
      [] h.to = "refunding"             -> [h EXCEPT !.at = "refund", !.read = Absent]
      [] h.to \in {"refunded", "captured"} -> Idle

\* Where it goes when the table refuses: Capture and Refund do not look at the
\* answer and go on as if it had been given.
AfterRefusal(h) ==
    IF h.to \in {"pending_pay", "refunding"} THEN AfterTransition(h) ELSE Idle

ChannelsWord(o, to) == [o EXCEPT !.status = IF to = "captured" THEN "paid" ELSE to,
                                 !.coded = @ \/ to = "pending_pay"]
Moved(o, to) == [o EXCEPT !.status = to,
                          !.coded = @ \/ to = "pending_pay"]

CallRead(c) ==
    LET h == call[c]
        o == order[h.id]
    IN /\ h.at = "read"
       /\ call' = [call EXCEPT ![c] =
              IF o.status = h.to THEN AfterTransition([h EXCEPT !.read = o])
              ELSE IF o.status \in AllowedFrom[h.to]
                   THEN [h EXCEPT !.at = "save", !.read = Moved(o, h.to)]
              ELSE AfterRefusal(h)]
       /\ UNCHANGED <<gateway, late, trade, seen, worker, batch, receipt, history,
                      faults>>

\* A refund that failed puts the order back to captured, the table aside.
RefundReread(c) ==
    LET o == order[call[c].id]
    IN /\ call[c].at = "reread"
       /\ call' = [call EXCEPT ![c] =
              IF o.status = "refunding"
              THEN [@ EXCEPT !.at = "save", !.to = "captured",
                             !.read = Moved(o, "captured")]
              ELSE Idle]
       /\ UNCHANGED <<gateway, late, trade, seen, worker, batch, receipt, history,
                      faults>>

\* _save writes every field as it was read, whoever else has read the order or is
\* about to.
CallSave(c) ==
    LET h == call[c]
    IN /\ h.at = "save"
       /\ order' = [order EXCEPT ![h.id] = h.read]
       /\ contended' = IF \E d \in Calls \ {c} : AtWork(d, h.id)
                       THEN contended \cup {h.id} ELSE contended
       /\ call' = [call EXCEPT ![c] = AfterTransition(h)]
       /\ UNCHANGED <<idem, poll, late, trade, seen, worker, batch, receipt,
                      unclosed, cut, torn, faults>>

\* schedule_poll, and the answer: the code of the order as the handler has it.
CallSchedule(c) ==
    LET h == call[c]
    IN /\ h.at = "sched"
       /\ poll' = poll \cup {h.id}
       /\ seen' = IF h.read.coded THEN seen \cup {h.id} ELSE seen
       /\ call' = [call EXCEPT ![c] = Idle]
       /\ UNCHANGED <<idem, order, late, trade, worker, batch, receipt, history,
                      faults>>

CallUnschedule(c) ==
    /\ call[c].at = "unsched"
    /\ poll' = poll \ {call[c].id}
    /\ call' = [call EXCEPT ![c] = Idle]
    /\ UNCHANGED <<idem, order, late, trade, seen, worker, batch, receipt,
                   history, faults>>

(***************************************************************************)
(* PollWorker: a tick reads the orders that are due and handles them one   *)
(* after the other, each as it was at the start of the tick.               *)
(***************************************************************************)
\* due_polls: entries of finished or missing orders are taken off the list.  The
\* time of an entry is left out: every entry is due, some sooner than in the code.
WorkerTick ==
    /\ worker.at = "idle" /\ poll # {}
    /\ LET over == {p \in poll : ~Exists(p) \/ order[p].status \in Terminal}
       IN /\ poll' = poll \ over
          /\ batch' = {[id |-> p, pending |-> order[p].status = "pending_pay",
                       late |-> p \in late] : p \in poll \ over}
          /\ worker' = IF poll = over THEN Asleep ELSE [Asleep EXCEPT !.at = "next"]
    /\ UNCHANGED <<idem, order, late, trade, seen, call, receipt, history, faults>>

\* The worker is done with an order, and with the tick if it was the last.
NextOrEnd == IF batch = {} THEN Asleep ELSE [Asleep EXCEPT !.at = "next"]

\* _handle up to its first await.
NeverLapsed(b) == FALSE
Lapsed(b) == b.late

WorkerTake(b) ==
    /\ worker.at = "next" /\ b \in batch
    /\ batch' = batch \ {b}
    /\ LET rest == IF batch = {b} THEN Asleep ELSE [Asleep EXCEPT !.at = "next"]
           at(w, to, l) == [at |-> w, id |-> b.id, to |-> to, read |-> Absent,
                            late |-> l]
       IN \/ /\ ~b.pending
             /\ poll' = poll \ {b.id} /\ worker' = rest
          \/ /\ b.pending /\ Hosted(b.id)
             /\ \/ /\ Lapsed(b) /\ worker' = at("read", "expired", FALSE)
                   /\ UNCHANGED poll
                \/ /\ ~Lapsed(b) /\ poll' = poll \cup {b.id} /\ worker' = rest
          \/ /\ b.pending /\ ~Hosted(b.id)
             /\ worker' = at("query", "-", Lapsed(b)) /\ UNCHANGED poll
    /\ UNCHANGED <<idem, order, late, trade, seen, call, receipt, history, faults>>

\* query: raises and is asked again later, or says what the trade is.
WorkerQuery ==
    LET p == worker.id
        to(w, s) == worker' = [worker EXCEPT !.at = w, !.to = s, !.late = FALSE]
    IN /\ worker.at = "query"
       /\ \/ /\ faults < MaxFaults /\ faults' = faults + 1
             /\ poll' = poll \cup {p} /\ worker' = NextOrEnd
          \/ /\ trade[p] = "paid" /\ to("read", "captured")
             /\ UNCHANGED <<poll, faults>>
          \/ /\ trade[p] = "closed" /\ to("read", "cancelled")
             /\ UNCHANGED <<poll, faults>>
          \/ /\ trade[p] \notin {"paid", "closed"} /\ worker.late
             /\ to("close", "expired") /\ UNCHANGED <<poll, faults>>
          \/ /\ trade[p] \notin {"paid", "closed"} /\ ~worker.late
             /\ poll' = poll \cup {p} /\ worker' = NextOrEnd
             /\ UNCHANGED faults
       /\ UNCHANGED <<idem, order, late, trade, seen, call, batch, receipt,
                      history>>

WorkerClose ==
    /\ worker.at = "close"
    /\ CloseTrade(worker.id)
    /\ worker' = [worker EXCEPT !.at = "read"]
    /\ UNCHANGED <<gateway, late, seen, call, batch, receipt, cut, torn, contended,
                   faults>>

WorkerRead ==
    LET o == order[worker.id]
    IN /\ worker.at = "read"
       /\ worker' = IF o.status = worker.to THEN [worker EXCEPT !.at = "unsched"]
                    ELSE IF o.status \in AllowedFrom[worker.to]
                         THEN [worker EXCEPT !.at = "save",
                                             !.read = Moved(o, worker.to)]
                    ELSE NextOrEnd
       /\ UNCHANGED <<gateway, late, trade, seen, call, batch, receipt, history,
                      faults>>

WorkerSave ==
    /\ worker.at = "save"
    /\ order' = [order EXCEPT ![worker.id] = worker.read]
    /\ worker' = [worker EXCEPT !.at = "unsched", !.read = Absent]
    /\ UNCHANGED <<idem, poll, late, trade, seen, call, batch, receipt, history,
                   faults>>

WorkerUnschedule ==
    /\ worker.at = "unsched"
    /\ poll' = poll \ {worker.id}
    /\ worker' = IF worker.to = "captured" THEN [worker EXCEPT !.at = "notify"]
                 ELSE NextOrEnd
    /\ UNCHANGED <<idem, order, late, trade, seen, call, batch, receipt, history,
                   faults>>

\* _notify_paid: the receipt, or a push that failed and is not tried again.
WorkerNotify ==
    /\ worker.at = "notify"
    /\ \/ /\ receipt' = receipt \cup {worker.id}
          /\ UNCHANGED <<cut, faults>>
       \/ /\ faults < MaxFaults /\ faults' = faults + 1
          /\ cut' = cut \cup {worker.id}
          /\ UNCHANGED receipt
    /\ worker' = NextOrEnd
    /\ UNCHANGED <<gateway, late, trade, seen, call, batch, unclosed, torn, contended>>

(***************************************************************************)
(* The user, time and faults.                                              *)
(***************************************************************************)
\* Money is paid on a code that was shown and that the channel still honours.
Pay(p) ==
    /\ p \in seen /\ trade[p] = "coded"
    /\ trade' = [trade EXCEPT ![p] = "paid"]
    /\ UNCHANGED <<gateway, late, seen, call, worker, batch, receipt, history,
                   faults>>

PassExpiry(p) ==
    /\ p \notin late /\ Exists(p) /\ order[p].status = "pending_pay"
    /\ late' = late \cup {p}
    /\ UNCHANGED <<gateway, trade, seen, call, worker, batch, receipt, history,
                   faults>>

\* A handler ends between two awaits: its caller's deadline, or a crash.  A
\* code that was stored before the order was put on the poll list stays off it.
CutCall(c) ==
    /\ call[c] # Idle /\ faults < MaxFaults
    /\ faults' = faults + 1
    /\ call' = [call EXCEPT ![c] = Idle]
    /\ cut' = IF call[c].at = "sched" THEN cut \cup {call[c].id} ELSE cut
    /\ UNCHANGED <<gateway, late, trade, seen, worker, batch, receipt, unclosed,
                   torn, contended>>

\* A tick ends in an exception or with the process; the next one reads the poll
\* list again.  A payment recorded and not announced is not seen again.
CutWorker ==
    /\ worker # Asleep /\ faults < MaxFaults
    /\ faults' = faults + 1
    /\ worker' = Asleep /\ batch' = {}
    /\ cut' = IF worker.at \in {"unsched", "notify"} /\ worker.to = "captured"
              THEN cut \cup {worker.id} ELSE cut
    /\ UNCHANGED <<gateway, late, trade, seen, call, receipt, unclosed, torn, contended>>

HandlerStep(c) ==
    \/ AuthorizeTake(c) \/ AuthorizeLoser(c) \/ AuthorizeWrite(c)
    \/ CaptureCreate(c) \/ CancelClose(c) \/ RefundChannel(c) \/ RefundReread(c)
    \/ CallRead(c) \/ CallSave(c) \/ CallSchedule(c) \/ CallUnschedule(c)

WorkerStep ==
    \/ WorkerTick \/ \E b \in batch : WorkerTake(b)
    \/ WorkerQuery \/ WorkerClose \/ WorkerRead \/ WorkerSave
    \/ WorkerUnschedule \/ WorkerNotify

Next ==
    \/ \E c \in Calls :
          \/ \E k \in Keys : AuthorizeLookup(c, k)
          \/ \E p \in Ids : \/ CaptureAuthorized(c, p) \/ CapturePending(c, p)
                            \/ CancelStart(c, p) \/ RefundStart(c, p)
          \/ HandlerStep(c)
          \/ CutCall(c)
    \/ WorkerStep
    \/ CutWorker
    \/ \E p \in Ids : Pay(p) \/ PassExpiry(p)

Spec == Init /\ [][Next]_vars

\* Handlers run, the worker ticks and works through what is due, and time passes.
\* Nobody has to pay or to call.
Fairness ==
    /\ \A c \in Calls : WF_vars(HandlerStep(c))
    /\ WF_vars(WorkerStep)
    /\ \A p \in Ids : WF_vars(PassExpiry(p))

FairSpec == Spec /\ Fairness

(***************************************************************************)
(* Properties.                                                             *)
(***************************************************************************)
Reads == Orders \cup {Absent}
CallSites == {"idle", "take", "remap", "loser", "write", "create", "close", "read",
              "save", "sched", "unsched", "refund", "reread"}
WorkerSites == {"idle", "next", "query", "close", "read", "save", "unsched", "notify"}
Targets == DOMAIN AllowedFrom \cup {"-"}

\* The types of the state.
TypeOK ==
    /\ idem \in [Keys -> Ids \cup {0}]
    /\ order \in [Ids -> Reads]
    /\ poll \in SUBSET Ids /\ late \in SUBSET Ids /\ seen \in SUBSET Ids
    /\ trade \in [Ids -> Trades]
    /\ call \in [Calls -> [op: Ops \cup {"none"}, at: CallSites, key: Keys \cup {"-"},
                           id: Ids \cup {0}, to: Targets, read: Reads]]
    /\ worker \in [at: WorkerSites, id: Ids \cup {0}, to: Targets, read: Reads,
                   late: BOOLEAN]
    /\ batch \subseteq [id: Ids, pending: BOOLEAN, late: BOOLEAN]
    /\ receipt \in SUBSET Ids /\ unclosed \in SUBSET Ids /\ cut \in SUBSET Ids
    /\ torn \in SUBSET Keys /\ contended \in SUBSET Ids
    /\ faults \in 0 .. MaxFaults

Paid(p) == trade[p] \in {"paid", "refunded"}

\* An order that says it was paid was paid in the channel, one that says it was
\* refunded was refunded there; and money lying in the channel belongs to an
\* order that still knows of it, or to one that was closed here although the
\* channel had not closed it (server.py Cancel and worker.py go on when close
\* fails).  Nothing is promised of an order that a handler wrote while another
\* was at work on it (store.py _transition is no transaction); that the worker
\* writes it in between is no harm.
MoneyAgrees ==
    \A p \in Ids \ contended :
        /\ order[p].status \in {"captured", "refunding"} => Paid(p)
        /\ order[p].status = "refunded" => trade[p] = "refunded"
        /\ trade[p] = "paid" => \/ order[p].status \in {"pending_pay", "captured",
                                                       "refunding"}
                                \/ p \in unclosed

\* The key protects the user from paying twice (store.py authorize): two orders
\* of one key are both paid only when one was closed here and not in the channel,
\* or written by two handlers at once, or when they were created at once, which
\* SET NX does not exclude: the key is taken before the order it names can be
\* read, and a remap is a plain SET.
PaidOncePerKey ==
    \A p, q \in Ids \ (unclosed \cup contended) :
        (p # q /\ Paid(p) /\ Paid(q) /\ order[p].key = order[q].key)
            => order[p].key \in torn

\* Nobody who may have paid is forgotten: an order waiting for its payment is on
\* the poll list, or a handler that has not finished will put it there; a
\* captured one was announced, or the worker is about to.  What is cut in between
\* is not taken up again, and two handlers at once may forget it.
Watched ==
    \A p \in Ids \ (cut \cup contended) :
        /\ order[p].status = "pending_pay" =>
              p \in poll \/ \E c \in Calls : call[c].id = p /\ call[c].at = "sched"
        /\ order[p].status = "captured" => p \in receipt \/ worker.id = p

\* Every order shown to the user is settled: the worker polls it until it is
\* paid, closed or expired, through errors of the channel and its own restarts,
\* unless the handler that stored the code was cut before the order was listed,
\* or two handlers wrote the order at once.
Settles ==
    \A p \in Ids : (order[p].status = "pending_pay")
                       ~> (order[p].status # "pending_pay" \/ p \in cut \cup contended)
=============================================================================
