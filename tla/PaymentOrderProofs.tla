------------------------- MODULE PaymentOrderProofs -------------------------
(***************************************************************************)
(* Any number of payments, handlers and faults, and handlers that overlap  *)
(* in any way: the orders agree with the channel's money, a key is paid    *)
(* once, and nobody who may have paid is forgotten.  Of an order that a    *)
(* handler wrote while another was at work on it (contended) only the      *)
(* types are kept: PaymentStore._transition reads and writes in two calls. *)
(***************************************************************************)
EXTENDS PaymentOrder, WellFoundedInduction, TLAPS

(***************************************************************************)
(* The inductive invariant: the types, by the parts of the state.          *)
(***************************************************************************)
CallSet == [op: Ops \cup {"none"}, at: CallSites, key: Keys \cup {"-"},
            id: Ids \cup {0}, to: Targets, read: Reads]
WorkerSet == [at: WorkerSites, id: Ids \cup {0}, to: Targets, read: Reads, late: BOOLEAN]
ItemSet == [id: Ids, pending: BOOLEAN, late: BOOLEAN]

StoreTypes ==
    /\ idem \in [Keys -> Ids \cup {0}]
    /\ order \in [Ids -> Reads]
    /\ poll \subseteq Ids /\ late \subseteq Ids /\ seen \subseteq Ids
    /\ trade \in [Ids -> Trades]
CallTypes == call \in [Calls -> CallSet]
WorkerTypes == worker \in WorkerSet /\ batch \subseteq ItemSet
RestTypes ==
    /\ receipt \subseteq Ids /\ unclosed \subseteq Ids /\ cut \subseteq Ids
    /\ torn \subseteq Keys /\ contended \subseteq Ids
    /\ faults \in 0 .. MaxFaults

(***************************************************************************)
(* The handlers: what each await relies on.                                *)
(***************************************************************************)
Waiting == {"pending_pay", "cancelled"}
CallTargets == {"pending_pay", "failed", "cancelled", "refunding", "refunded", "captured"}

\* Closed in the channel, or known not to be; and an order that is over.
Shut(p) == trade[p] = "closed" \/ p \in unclosed
Over(p) == order[p].status \in Repayable \/ p \in unclosed

\* No handler has written the order over another's shoulder.
Quiet(p) == p \notin contended

\* A handler before it has an order: Authorize, until the order is written.
Opening(h) ==
    /\ h.at \in Early => h.op = "authorize"
    /\ h.at = "remap" => /\ h.id \in Ids /\ Exists(h.id) /\ order[h.id].key = h.key
                         /\ Quiet(h.id) => Over(h.id)
    /\ h.at = "write" => h.id \in Ids /\ order[h.id] = Absent

\* A handler with an order: which operation stands where.
Holding(h) ==
    /\ h.id \in Ids /\ Exists(h.id) /\ order[h.id].key = h.key
    /\ h.op # "authorize" \/ h.key \in HostedKeys
    /\ h.at = "create" => h.op = "capture" /\ h.key \notin HostedKeys
    /\ h.at = "close" => h.op = "cancel" /\ h.to = "cancelled" /\ h.key \notin HostedKeys
    /\ h.at \in {"refund", "reread"} => h.op = "refund"
    /\ h.at = "sched" => h.to = "pending_pay"
    /\ h.at = "unsched" => h.to \in {"failed", "cancelled"}

\* What it saw last of the order is still so, except that the worker may have
\* ended an order that waited.
Knowing(h) ==
    /\ h.at = "create" => order[h.id].status = "authorized"
    /\ h.at \in {"close", "sched"} => order[h.id].coded
    /\ h.at \in {"refund", "reread"} => order[h.id].status = "refunding"
    /\ h.at = "unsched" => order[h.id].status \notin {"authorized", "pending_pay"}

\* A handler in a transition: where it takes the order, and what it writes.
Moving(h) ==
    /\ h.to \in CallTargets
    /\ h.to = "pending_pay" => h.op \in {"authorize", "capture"}
    /\ h.to = "failed" => h.op = "capture"
    /\ h.to = "cancelled" => h.op = "cancel"
    /\ h.to \in {"refunding", "refunded", "captured"} => h.op = "refund"
    /\ h.to = "captured" => h.at = "save"
    /\ h.at = "save" => h.read \in Orders /\ h.read.status = h.to /\ h.read.key = h.key

\* Where the order stands, by where it shall go.
Sure(h) ==
    /\ h.to \in {"pending_pay", "failed"} => order[h.id].status = "authorized"
    /\ h.to = "cancelled" => \/ h.key \in HostedKeys
                             \/ h.at = "read" /\ order[h.id].status # "pending_pay"
                             \/ h.at = "save" /\ ~order[h.id].coded
                             \/ Shut(h.id)
    /\ h.to = "refunding" => order[h.id].status = "captured"
    /\ h.to \in {"refunded", "captured"} => order[h.id].status = "refunding"
    /\ h.to = "refunded" => trade[h.id] = "refunded"
    /\ h.at = "save" => (h.read.coded <=> order[h.id].coded \/ h.to = "pending_pay")

Handler(h) ==
    /\ h.at = "idle" => h = Idle
    /\ h.at # "idle" => h.op \in Ops /\ h.key \in Keys
    /\ Opening(h)
    /\ h.at \notin Early \cup {"idle"} => Holding(h) /\ (Quiet(h.id) => Knowing(h))
    /\ h.at \in {"read", "save"} => Moving(h) /\ (Quiet(h.id) => Sure(h))

Handlers == \A c \in Calls : Handler(call[c])

Writers ==
    \A c, d \in Calls :
        call[c].at = "write" /\ call[d].at = "write" /\ call[c].id = call[d].id => c = d

(***************************************************************************)
(* The orders and the channel, the keys, the worker, and who watches.      *)
(***************************************************************************)
Paying == {"pending_pay", "captured", "refunding", "refunded"}

\* An order without a code was not shown and is not paid; one that has a code
\* the channel honours is pending, or was closed here and not there.
Agrees(p) ==
    /\ ~Exists(p) => trade[p] = "none"
    /\ Hosted(p) /\ Exists(p) => trade[p] = "none"
    /\ order[p].status = "authorized" => ~order[p].coded
    /\ order[p].status \in Paying => order[p].coded
    /\ order[p].status \in Paying \ {"pending_pay"} => Paid(p)
    /\ order[p].status = "refunded" => trade[p] = "refunded"
    /\ Paid(p) => order[p].coded /\ (order[p].status \in Paying \/ p \in unclosed)
    /\ p \in seen \cup poll => order[p].coded
    /\ order[p].coded /\ trade[p] = "coded" => order[p].status = "pending_pay" \/ p \in unclosed
Ledger == (\A p \in contended : Exists(p)) /\ \A p \in Ids : Quiet(p) => Agrees(p)

\* Under a key that was not torn one order can be paid, the one it leads to.
Keyed(k) ==
    /\ \A p \in Ids : Exists(p) /\ order[p].key = k =>
                        idem[k] # 0 /\ (p = idem[k] \/ (Quiet(p) => Over(p)))
    /\ \A c \in Calls : call[c].at = "write" /\ call[c].key = k => call[c].id = idem[k]

\* A key leads to an order of its own, also while that one is being written.
Named(k) ==
    idem[k] # 0 =>
        /\ Exists(idem[k]) => order[idem[k]].key = k
        /\ \A c \in Calls : call[c].at = "write" /\ call[c].id = idem[k] => call[c].key = k
KeysLead == (\A k \in Keys : Named(k)) /\ \A k \in Keys \ torn : Keyed(k)

\* The worker's order, and what it has learned of it from the channel.
WorkerIs ==
    /\ worker.at = "idle" => batch = {}
    /\ worker.at \notin {"idle", "next"} =>
          worker.id \in Ids /\ Exists(worker.id) /\ \A b \in batch : b.id # worker.id
    /\ worker.at \in {"query", "close"} => ~Hosted(worker.id)
    /\ worker.at = "close" => worker.to = "expired"
    /\ worker.at \in {"read", "save", "unsched"} => worker.to \in {"captured", "cancelled", "expired"}
    /\ worker.at \in {"read", "save"} =>
          IF worker.to = "captured" THEN Paid(worker.id)
                                    ELSE Hosted(worker.id) \/ Shut(worker.id)
    /\ worker.at = "save" => /\ worker.read \in Orders /\ worker.read.key = order[worker.id].key
                             /\ worker.read.status = worker.to
    /\ worker.at = "notify" => worker.to = "captured"

\* It waits until the worker has ended it.
WorkerKnows ==
    worker.at \notin {"idle", "next"} /\ Quiet(worker.id) =>
        /\ order[worker.id].coded
        /\ worker.at \in {"query", "close", "read", "save"} => order[worker.id].status \in Waiting
        /\ worker.at = "save" => worker.read.coded
        /\ worker.at \in {"unsched", "notify"} => order[worker.id].status # "pending_pay"

BatchIs ==
    /\ \A a, b \in batch : a.id = b.id => a = b
    /\ \A b \in batch : Exists(b.id)
    /\ \A b \in batch : Quiet(b.id) =>
          /\ order[b.id].coded
          /\ b.pending => order[b.id].status \in Waiting
          /\ ~b.pending => order[b.id].status # "pending_pay"

\* A waiting order is listed or its handler is about to list it; a paid one was
\* announced or the worker is about to announce it.
Announcing(p) == worker.id = p /\ worker.at \in {"unsched", "notify"} /\ worker.to = "captured"
Watch ==
    \A p \in Ids \ (cut \cup contended) :
        /\ order[p].status = "pending_pay" =>
              p \in poll \/ \E c \in Calls : call[c].at = "sched" /\ call[c].id = p
        /\ order[p].status \in {"captured", "refunding"} => p \in receipt \/ Announcing(p)

IInv ==
    /\ StoreTypes /\ CallTypes /\ WorkerTypes /\ RestTypes
    /\ Handlers /\ Writers
    /\ Ledger /\ KeysLead
    /\ WorkerIs /\ WorkerKnows /\ BatchIs
    /\ Watch

LEMMA TypeSplits == TypeOK <=> StoreTypes /\ CallTypes /\ WorkerTypes /\ RestTypes
BY DEF TypeOK, StoreTypes, CallTypes, WorkerTypes, RestTypes, CallSet, WorkerSet, ItemSet

(***************************************************************************)
(* Records, and the least fresh id.                                        *)
(***************************************************************************)
LEMMA Records ==
  /\ Idle \in CallSet /\ Asleep \in WorkerSet /\ [Asleep EXCEPT !.at = "next"] \in WorkerSet
  /\ Idle.at = "idle" /\ Idle.id = 0 /\ Asleep.at = "idle" /\ Asleep.id = 0
  /\ [Asleep EXCEPT !.at = "next"].at = "next" /\ [Asleep EXCEPT !.at = "next"].id = 0
  /\ Absent \in Reads /\ Absent.status = "absent" /\ Absent.coded = FALSE
BY DEF Idle, Asleep, CallSet, WorkerSet, Ops, CallSites, WorkerSites, Targets, AllowedFrom,
       Reads, Absent

\* An order that is there has a key, a status and a code or none.
LEMMA OrderIs ==
  ASSUME StoreTypes, NEW p \in Ids
  PROVE  /\ order[p] \in Reads
         /\ Exists(p) => order[p] \in Orders /\ order[p].key \in Keys
         /\ Exists(p) <=> order[p].status # "absent"
         /\ order[p].status \in Statuses => Exists(p)
         /\ order[p].coded \in BOOLEAN
         /\ order[p].coded => Exists(p)
<1>1. order[p] \in Orders \/ order[p] = Absent
  BY DEF StoreTypes, Reads
<1>2. CASE order[p] = Absent
  BY <1>2, Records DEF Exists, Statuses
<1>3. CASE order[p] \in Orders
  <2>1. order[p].key \in Keys /\ order[p].status \in Statuses /\ order[p].coded \in BOOLEAN
    BY <1>3 DEF Orders
  <2>2. order[p].status # "absent"
    BY <2>1 DEF Statuses
  <2>3. Exists(p) /\ order[p] \in Reads
    BY <1>3, <2>2, Records DEF Exists, Reads
  <2>4. QED
    BY <1>3, <2>1, <2>2, <2>3
<1>4. QED
  BY <1>1, <1>2, <1>3

Less == {p \in Nat \X Nat : p[1] < p[2]}

LEMMA LessIsWellFounded == IsWellFoundedOn(Less, Nat)
<1>1. Less = OpToRel(<, Nat)
  BY DEF Less, OpToRel
<1>2. QED
  BY <1>1, NatLessThanWellFounded

\* Every set of naturals that is not empty has a least number.
LEMMA Least ==
  ASSUME NEW T \in SUBSET Nat, T # {}
  PROVE  \E x \in T : \A y \in T : x <= y
<1>1. PICK x \in T : \A y \in T : <<y, x>> \notin Less
  BY LessIsWellFounded, WFMin
<1>2. ASSUME NEW y \in T PROVE x <= y
  <2>1. y < x => <<y, x>> \in Less
    <3>1. <<y, x>> \in Nat \X Nat /\ <<y, x>>[1] = y /\ <<y, x>>[2] = x
      OBVIOUS
    <3>2. QED
      BY <3>1, Zenon DEF Less
  <2>2. QED
    BY <1>1, <2>1
<1>3. QED
  BY <1>2

LEMMA NewIdIs ==
  ASSUME Fresh # {}
  PROVE  /\ NewId \in Ids /\ order[NewId] = Absent /\ NewId # 0
         /\ \A k \in Keys : idem[k] # NewId
         /\ \A c \in Calls : call[c].id # NewId
<1>1. Fresh \subseteq Ids /\ Ids \subseteq Nat
  BY OrdersAssumption DEF Fresh, Ids
<1>2. \E p \in Fresh : \A q \in Fresh : p <= q
  BY <1>1, Least
<1>3. NewId \in Fresh
  BY <1>2 DEF NewId
<1>4. NewId # 0
  BY <1>1, <1>3, OrdersAssumption DEF Ids
<1>5. QED
  BY <1>1, <1>3, <1>4 DEF Fresh

(***************************************************************************)
(* What a step leaves alone.                                               *)
(***************************************************************************)
\* What a handler relies on does not move: the channel's word on a trade that is
\* closed or refunded is final, and the history grows.
LEMMA HandlerStays ==
  ASSUME NEW h, Handler(h), order' = order, unclosed \subseteq unclosed',
         contended \subseteq contended',
         trade[h.id] \in {"closed", "refunded"} => trade'[h.id] = trade[h.id]
  PROVE  Handler(h)'
<1>1. Opening(h)'
  BY DEF Handler, Opening, Over, Exists, Quiet
<1>2. h.at \notin Early \cup {"idle"} => Holding(h)' /\ (Quiet(h.id)' => Knowing(h)')
  BY DEF Handler, Holding, Knowing, Exists, Quiet
<1>3. h.at \in {"read", "save"} => Moving(h)' /\ (Quiet(h.id)' => Sure(h)')
  BY DEF Handler, Moving, Sure, Shut, Quiet
<1>4. QED
  BY <1>1, <1>2, <1>3 DEF Handler

\* Nor does it when the order is another's.
LEMMA HandlerElsewhere ==
  ASSUME NEW h, Handler(h), order'[h.id] = order[h.id], trade' = trade, unclosed' = unclosed,
         contended \subseteq contended'
  PROVE  Handler(h)'
<1>1. Opening(h)'
  BY DEF Handler, Opening, Over, Exists, Quiet
<1>2. h.at \notin Early \cup {"idle"} => Holding(h)' /\ (Quiet(h.id)' => Knowing(h)')
  BY DEF Handler, Holding, Knowing, Exists, Quiet
<1>3. h.at \in {"read", "save"} => Moving(h)' /\ (Quiet(h.id)' => Sure(h)')
  BY DEF Handler, Moving, Sure, Shut, Quiet
<1>4. QED
  BY <1>1, <1>2, <1>3 DEF Handler

\* Of a contended order it knows the key.
LEMMA HandlerContended ==
  ASSUME NEW h, Handler(h), Exists(h.id), Exists(h.id)', order'[h.id].key = order[h.id].key,
         ~Quiet(h.id)'
  PROVE  Handler(h)'
<1>1. Opening(h)'
  BY DEF Handler, Opening, Exists
<1>2. h.at \notin Early \cup {"idle"} => Holding(h)'
  BY DEF Handler, Holding
<1>3. h.at \in {"read", "save"} => Moving(h)'
  BY DEF Handler, Moving
<1>4. QED
  BY <1>1, <1>2, <1>3 DEF Handler

\* A handler that has no order yet relies on none.
LEMMA HandlerWithout ==
  ASSUME NEW h, Handler(h), h.at \in {"idle", "take", "loser"}
  PROVE  Handler(h)'
BY DEF Handler, Opening, Early

LEMMA IdleHandler == Idle \in CallSet /\ Idle.at = "idle" /\ Handler(Idle)
BY Records DEF Handler, Opening, Early

\* The call table after one handler moved.
LEMMA CallMoves ==
  ASSUME CallTypes, NEW c \in Calls, NEW h \in CallSet, call' = [call EXCEPT ![c] = h]
  PROVE  /\ CallTypes' /\ call'[c] = h
         /\ \A d \in Calls : d # c => call'[d] = call[d]
BY DEF CallTypes

\* A handler that is not about to write a new order.
LEMMA WritersStay ==
  ASSUME IInv, NEW c \in Calls, NEW h \in CallSet, call' = [call EXCEPT ![c] = h], h.at # "write"
  PROVE  Writers'
<1>1. call'[c] = h /\ \A d \in Calls : d # c => call'[d] = call[d]
  BY CallMoves DEF IInv
<1>2. QED
  BY <1>1 DEF IInv, Writers

LEMMA KeysStay ==
  ASSUME IInv, torn \subseteq torn', unclosed \subseteq unclosed', contended' = contended,
         idem' = idem, order' = order,
         \A c \in Calls : call'[c].at = "write" =>
              \/ call'[c] = call[c]
              \/ call'[c].key \in torn' /\ \A k \in Keys : idem[k] # call'[c].id
  PROVE  KeysLead'
<1>1. ASSUME NEW k \in Keys \ torn' PROVE Keyed(k)'
  <2>1. Keyed(k)
    BY <1>1 DEF IInv, KeysLead
  <2>2. QED
    BY <2>1 DEF Keyed, Exists, Over, Quiet
<1>2. ASSUME NEW k \in Keys PROVE Named(k)'
  <2>1. Named(k)
    BY DEF IInv, KeysLead
  <2>2. QED
    BY <2>1 DEF Named, Exists
<1>3. QED
  BY <1>1, <1>2 DEF KeysLead

LEMMA LedgerStays ==
  ASSUME IInv, UNCHANGED <<order, trade, contended>>, unclosed \subseteq unclosed',
         seen' \cup poll' \subseteq seen \cup poll
  PROVE  Ledger'
<1>1. ASSUME NEW p \in Ids, Quiet(p)' PROVE Agrees(p)'
  <2>1. Agrees(p)
    BY <1>1 DEF IInv, Ledger, Quiet
  <2>2. QED
    BY <2>1 DEF Agrees, Exists, Hosted, Paid
<1>2. QED
  BY <1>1 DEF IInv, Ledger, Exists

LEMMA WorkerStays ==
  ASSUME IInv, UNCHANGED <<worker, batch, order, contended>>, unclosed \subseteq unclosed',
         \A p \in Ids : trade[p] \in {"paid", "refunded"} => trade'[p] \in {"paid", "refunded"},
         \A p \in Ids : trade[p] = "closed" => trade'[p] = "closed"
  PROVE  WorkerIs' /\ WorkerKnows' /\ BatchIs' /\ WorkerTypes'
<1>1. WorkerIs' /\ WorkerKnows'
  BY DEF IInv, WorkerIs, WorkerKnows, Exists, Hosted, Paid, Shut, Quiet
<1>2. BatchIs' /\ WorkerTypes'
  BY DEF IInv, BatchIs, Exists, WorkerTypes, Quiet
<1>3. QED
  BY <1>1, <1>2

\* No handler stops before it has listed its order, and no one is unlisted.
LEMMA WatchStays ==
  ASSUME IInv, UNCHANGED <<order, worker, contended>>, poll \subseteq poll', receipt \subseteq receipt',
         cut \subseteq cut',
         \A c \in Calls : call[c].at = "sched" =>
              \/ call[c].id \in cut' \cup poll'
              \/ call'[c].at = "sched" /\ call'[c].id = call[c].id
  PROVE  Watch'
<1>1. ASSUME NEW p \in Ids \ (cut' \cup contended'), order[p].status = "pending_pay"
      PROVE  p \in poll' \/ \E c \in Calls : call'[c].at = "sched" /\ call'[c].id = p
  BY <1>1 DEF IInv, Watch
<1>2. ASSUME NEW p \in Ids \ (cut' \cup contended'), order[p].status \in {"captured", "refunding"}
      PROVE  p \in receipt' \/ Announcing(p)
  BY <1>2 DEF IInv, Watch
<1>3. QED
  BY <1>1, <1>2 DEF Watch, Announcing

\* A step of one handler that changes nothing but where it stands.
LEMMA CallOnly ==
  ASSUME IInv, NEW c \in Calls, NEW h \in CallSet, call' = [call EXCEPT ![c] = h], Handler(h),
         UNCHANGED <<gateway, trade, seen, late, worker, batch, receipt, unclosed, contended>>,
         torn \subseteq torn', torn' \subseteq Keys, cut \subseteq cut', cut' \subseteq Ids,
         faults' \in 0 .. MaxFaults,
         Writers', h.at = "write" => h.key \in torn' /\ \A k \in Keys : idem[k] # h.id,
         call[c].at = "sched" => call[c].id \in cut'
  PROVE  IInv'
<1>1. /\ CallTypes' /\ call'[c] = h
      /\ \A d \in Calls : d # c => call'[d] = call[d]
  BY CallMoves DEF IInv
<1>2. StoreTypes' /\ RestTypes'
  BY DEF IInv, StoreTypes, RestTypes, gateway
<1>3. ASSUME NEW d \in Calls PROVE Handler(call[d])'
  <2>1. PICK x : x = call'[d]
    OBVIOUS
  <2>2. Handler(x)
    BY <1>1, <2>1 DEF IInv, Handlers
  <2>3. Handler(x)'
    BY <2>2, HandlerStays DEF gateway
  <2>4. QED
    BY <2>1, <2>3
<1>4. Handlers'
  BY <1>3 DEF Handlers
<1>5. Ledger' /\ WorkerIs' /\ WorkerKnows' /\ BatchIs' /\ WorkerTypes'
  BY LedgerStays, WorkerStays DEF gateway
<1>6. KeysLead'
  BY <1>1, KeysStay DEF gateway
<1>7. Watch'
  BY <1>1, WatchStays DEF gateway
<1>8. QED
  BY <1>1, <1>2, <1>4, <1>5, <1>6, <1>7 DEF IInv

(***************************************************************************)
(* A handler begins.                                                       *)
(***************************************************************************)
\* What Authorize does with the order it will return.
LEMMA AfterOrderIs ==
  ASSUME StoreTypes, NEW p \in Ids, Exists(p), order[p].key \in Keys
  PROVE  LET h == AfterOrder(p, order[p].key, order[p])
         IN /\ h \in CallSet /\ Handler(h) /\ h.at \in {"idle", "read"}
            /\ h.at = "idle" \/ (h.op = "authorize" /\ h.key = order[p].key)
<1> DEFINE k == order[p].key
           reg == [op |-> "authorize", at |-> "read", key |-> k, id |-> p,
                   to |-> "pending_pay", read |-> Absent]
<1>1. Idle \in CallSet /\ Handler(Idle)
  BY Records DEF Handler, Opening, Early
<1>2. reg \in CallSet
  BY Records DEF CallSet, Ops, CallSites, Targets, AllowedFrom
<1>3. k \in HostedKeys /\ order[p].status = "authorized" => Handler(reg)
  BY DEF Handler, Opening, Holding, Knowing, Moving, Sure, CallTargets, Early, Ops
<1>4. QED
  BY <1>1, <1>2, <1>3, Records DEF AfterOrder

\* Authorize on its way to an order of its own.
Authorizing(at, k, id) == [Idle EXCEPT !.op = "authorize", !.at = at, !.key = k, !.id = id]

LEMMA OpeningIs ==
  ASSUME NEW at \in {"take", "remap"}, NEW k \in Keys, NEW id \in Ids \cup {0}
  PROVE  /\ Authorizing(at, k, id) \in CallSet
         /\ Authorizing(at, k, id).at = at /\ Authorizing(at, k, id).op = "authorize"
         /\ Authorizing(at, k, id).key = k /\ Authorizing(at, k, id).id = id
BY DEF Authorizing, Idle, CallSet, Ops, CallSites, Targets, AllowedFrom, Reads

\* Nothing but the handler's place in the call table changes when it begins.
LEMMA BeginOnly ==
  ASSUME IInv, NEW c \in Calls, call[c] = Idle,
         NEW h \in CallSet, call' = [call EXCEPT ![c] = h], Handler(h), h.at # "write",
         UNCHANGED <<gateway, late, trade, seen, worker, batch, receipt, history, faults>>
  PROVE  IInv'
<1>1. Writers' /\ call[c].at = "idle"
  BY WritersStay, Records
<1>2. /\ torn' = torn /\ torn \subseteq Keys /\ cut' = cut /\ cut \subseteq Ids
      /\ faults' \in 0 .. MaxFaults /\ unclosed' = unclosed /\ contended' = contended
  BY DEF IInv, RestTypes, history
<1>3. QED
  BY <1>1, <1>2, CallOnly

LEMMA LookupStep ==
  ASSUME IInv, NEW c \in Calls, NEW k \in Keys, AuthorizeLookup(c, k)
  PROVE  IInv'
<1>1. PICK old, take, remap :
        /\ old = Behind(k)
        /\ take = Authorizing("take", k, idem[k]) /\ remap = Authorizing("remap", k, idem[k])
        /\ call' = [call EXCEPT ![c] = IF old = Absent THEN take
                                       ELSE IF old.status \in Repayable THEN remap
                                       ELSE AfterOrder(idem[k], k, old)]
  BY Zenon DEF AuthorizeLookup, Authorizing
<1>2. /\ call[c] = Idle
      /\ UNCHANGED <<gateway, late, trade, seen, worker, batch, receipt, history, faults>>
  BY DEF AuthorizeLookup, MayCall
<1>3. idem[k] \in Ids \cup {0}
  BY DEF IInv, StoreTypes
<1>4. take \in CallSet /\ take.at = "take" /\ take.op = "authorize" /\ take.key = k
  BY <1>1, <1>3, OpeningIs
<1>5. /\ remap \in CallSet /\ remap.at = "remap" /\ remap.op = "authorize" /\ remap.key = k
      /\ remap.id = idem[k]
  BY <1>1, <1>3, OpeningIs
<1>6. PICK h : /\ h = IF old = Absent THEN take ELSE IF old.status \in Repayable THEN remap
                      ELSE AfterOrder(idem[k], k, old)
               /\ call' = [call EXCEPT ![c] = h]
  BY <1>1, Zenon
<1>7. h \in CallSet /\ Handler(h) /\ h.at # "write"
  <2>1. CASE old = Absent
    <3>1. Handler(take)
      BY <1>4 DEF Handler, Opening, Early, Ops
    <3>2. QED
      BY <1>4, <1>6, <2>1, <3>1
  <2>2. CASE old # Absent
    <3>1. idem[k] \in Ids /\ Exists(idem[k]) /\ old = order[idem[k]] /\ order[idem[k]].key = k
      <4>1. idem[k] # 0 /\ old = order[idem[k]]
        BY <1>1, <2>2 DEF Behind
      <4>2. QED
        BY <1>3, <2>2, <4>1 DEF IInv, KeysLead, Named, Exists
    <3>2. CASE old.status \in Repayable
      <4>1. Handler(remap)
        BY <1>5, <3>1, <3>2 DEF Handler, Opening, Over, Early, Ops
      <4>2. QED
        BY <1>5, <1>6, <2>2, <3>2, <4>1
    <3>3. CASE old.status \notin Repayable
      <4>1. h = AfterOrder(idem[k], order[idem[k]].key, order[idem[k]])
        BY <1>6, <2>2, <3>1, <3>3
      <4>2. QED
        BY <3>1, <4>1, AfterOrderIs DEF IInv
    <3>4. QED
      BY <3>2, <3>3
  <2>3. QED
    BY <2>1, <2>2
<1>8. QED
  BY <1>2, <1>6, <1>7, BeginOnly

\* Capture, Cancel and Refund begin at an order that is there.
LEMMA BeginStep ==
  ASSUME IInv, NEW c \in Calls, NEW p \in Ids, Exists(p),
         NEW op \in {"capture", "cancel", "refund"}, NEW at \in {"create", "close", "read"},
         NEW to \in Targets, Begin(c, p, op, at, to),
         at = "create" => op = "capture" /\ ~Hosted(p) /\ order[p].status = "authorized",
         at = "close" => /\ op = "cancel" /\ to = "cancelled" /\ ~Hosted(p)
                         /\ Quiet(p) => order[p].coded,
         at = "read" => \/ /\ op = "cancel" /\ to = "cancelled"
                           /\ Hosted(p) \/ order[p].status # "pending_pay"
                        \/ op = "refund" /\ to = "refunding" /\ order[p].status = "captured",
         UNCHANGED <<gateway, late, trade, seen, worker, batch, receipt, history, faults>>
  PROVE  IInv'
<1> DEFINE h == [op |-> op, at |-> at, key |-> order[p].key, id |-> p, to |-> to, read |-> Absent]
<1>1. call[c] = Idle /\ call' = [call EXCEPT ![c] = h]
  BY DEF Begin, MayCall
<1>2. order[p].key \in Keys
  BY OrderIs DEF IInv
<1>3. h \in CallSet
  BY <1>2, Records DEF CallSet, Ops, CallSites
<1>4. Handler(h)
  <2>1. Opening(h) /\ Holding(h) /\ (Quiet(h.id) => Knowing(h))
    BY DEF Opening, Holding, Knowing, Early, Hosted
  <2>2. h.at = "read" => Moving(h) /\ Sure(h)
    BY DEF Moving, Sure, Hosted, CallTargets
  <2>3. QED
    BY <1>2, <2>1, <2>2 DEF Handler, Ops
<1>5. h.at # "write"
  OBVIOUS
<1> HIDE DEF h
<1>6. QED
  BY <1>1, <1>3, <1>4, <1>5, BeginOnly

LEMMA StartSteps ==
  ASSUME IInv, NEW c \in Calls, NEW p \in Ids,
         CaptureAuthorized(c, p) \/ CancelStart(c, p) \/ RefundStart(c, p)
  PROVE  IInv'
<1>1. (Quiet(p) => Agrees(p)) /\ {"-", "cancelled", "refunding"} \subseteq Targets
  BY DEF IInv, Ledger, Targets, AllowedFrom
<1>2. UNCHANGED <<gateway, late, trade, seen, worker, batch, receipt, history, faults>>
  BY DEF CaptureAuthorized, CancelStart, RefundStart
<1>3. CASE CaptureAuthorized(c, p)
  BY <1>1, <1>2, <1>3, BeginStep DEF CaptureAuthorized
<1>4. CASE CancelStart(c, p)
  <2>1. CASE TellsChannel(p) /\ Begin(c, p, "cancel", "close", "cancelled")
    <3>1. Exists(p) /\ ~Hosted(p) /\ (Quiet(p) => order[p].coded)
      BY <1>1, <1>4, <2>1 DEF CancelStart, TellsChannel, Agrees, Paying
    <3>2. QED
      BY <1>1, <1>2, <2>1, <3>1, BeginStep
  <2>2. CASE ~TellsChannel(p) /\ Begin(c, p, "cancel", "read", "cancelled")
    <3>1. Exists(p) /\ (Hosted(p) \/ order[p].status # "pending_pay")
      BY <1>4, <2>2 DEF CancelStart, TellsChannel
    <3>2. QED
      BY <1>1, <1>2, <2>2, <3>1, BeginStep
  <2>3. QED
    BY <1>4, <2>1, <2>2 DEF CancelStart
<1>5. CASE RefundStart(c, p)
  BY <1>1, <1>2, <1>5, BeginStep DEF RefundStart
<1>6. QED
  BY <1>3, <1>4, <1>5

\* The steps in which no handler moves.
LEMMA CallsStay ==
  ASSUME IInv, UNCHANGED <<call, idem, order, torn, contended>>, unclosed \subseteq unclosed',
         \A p \in Ids : trade[p] \in {"closed", "refunded"} => trade'[p] = trade[p]
  PROVE  CallTypes' /\ Handlers' /\ Writers' /\ KeysLead'
<1>1. CallTypes' /\ Writers'
  BY DEF IInv, CallTypes, Writers
<1>2. ASSUME NEW d \in Calls PROVE Handler(call[d])'
  <2>1. PICK x \in CallSet : x = call[d]
    BY DEF IInv, CallTypes
  <2>2. Handler(x)
    BY <2>1 DEF IInv, Handlers
  <2>3. CASE x.id \in Ids
    <3>1. Handler(x)'
      BY <2>2, <2>3, HandlerStays
    <3>2. QED
      BY <2>1, <3>1
  <2>4. CASE x.id \notin Ids
    <3>1. x.at \in {"idle", "take", "loser"}
      BY <2>2, <2>4 DEF Handler, Opening, Holding, Early
    <3>2. Handler(x)'
      BY <2>2, <3>1, HandlerWithout
    <3>3. QED
      BY <2>1, <3>2
  <2>5. QED
    BY <2>3, <2>4
<1>3. KeysLead'
  BY KeysStay
<1>4. QED
  BY <1>1, <1>2, <1>3 DEF Handlers

LEMMA CapturePendingStep ==
  ASSUME IInv, NEW c \in Calls, NEW p \in Ids, CapturePending(c, p)
  PROVE  IInv'
<1>1. /\ order[p].coded /\ seen' = seen \cup {p}
      /\ UNCHANGED <<gateway, late, trade, call, worker, batch, receipt, history, faults>>
  BY DEF CapturePending
<1>2. StoreTypes' /\ RestTypes'
  BY <1>1 DEF IInv, StoreTypes, RestTypes, gateway, history
<1>3. CallTypes' /\ Handlers' /\ Writers' /\ KeysLead'
  BY <1>1, CallsStay DEF gateway, history
<1>4. WorkerIs' /\ WorkerKnows' /\ BatchIs' /\ WorkerTypes'
  BY <1>1, WorkerStays DEF gateway, history
<1>5. Watch'
  BY <1>1, WatchStays DEF gateway, history
<1>6. Ledger'
  <2>1. ASSUME NEW q \in Ids, Quiet(q)' PROVE Agrees(q)'
    <3>1. Agrees(q)
      BY <1>1, <2>1 DEF IInv, Ledger, Quiet, history
    <3>2. QED
      BY <1>1, <3>1 DEF Agrees, Exists, Hosted, Paid, gateway, history
  <2>2. QED
    BY <1>1, <2>1 DEF IInv, Ledger, Exists, gateway, history
<1>7. QED
  BY <1>2, <1>3, <1>4, <1>5, <1>6 DEF IInv

(***************************************************************************)
(* Authorize takes the key and writes its order.                           *)
(***************************************************************************)
\* The handler goes on to write an order of its own.
Writing(h) == [h EXCEPT !.at = "write", !.id = NewId]

LEMMA WritingIs ==
  ASSUME IInv, NEW c \in Calls, call[c].at \in {"take", "remap", "loser"}, Fresh # {}
  PROVE  LET h == Writing(call[c])
         IN /\ h \in CallSet /\ Handler(h) /\ h.at = "write" /\ h.id = NewId
            /\ h.key = call[c].key /\ h.op = call[c].op
<1>1. PICK x \in CallSet : x = call[c]
  BY DEF IInv, CallTypes
<1>2. Handler(x) /\ x.at \in {"take", "remap", "loser"}
  BY <1>1 DEF IInv, Handlers
<1>3. NewId \in Ids /\ order[NewId] = Absent
  BY NewIdIs
<1> DEFINE h == [x EXCEPT !.at = "write", !.id = NewId]
<1>4. /\ h \in CallSet /\ h.at = "write" /\ h.id = NewId /\ h.key = x.key /\ h.op = x.op
  BY <1>3 DEF CallSet, CallSites
<1>5. Writing(call[c]) = h
  BY <1>1 DEF Writing
<1> HIDE DEF h
<1>6. Handler(h)
  BY <1>2, <1>3, <1>4 DEF Handler, Opening, Early
<1>7. QED
  BY <1>1, <1>4, <1>5, <1>6

LEMMA TakeStep ==
  ASSUME IInv, NEW c \in Calls, AuthorizeTake(c)
  PROVE  IInv'
<1> DEFINE k == call[c].key
<1>1. call[c] \in CallSet /\ Handler(call[c]) /\ call[c].at \in {"take", "remap"}
  BY DEF IInv, CallTypes, Handlers, AuthorizeTake
<1>2. k \in Keys /\ call[c].op = "authorize"
  BY <1>1 DEF Handler, Opening, Early
<1>3. UNCHANGED <<order, poll, late, trade, seen, worker, batch, receipt, unclosed, cut, contended, faults>>
  BY DEF AuthorizeTake
<1>4. CASE /\ call[c].at = "remap" \/ idem[k] = 0
           /\ Fresh # {} /\ idem' = [idem EXCEPT ![k] = NewId]
           /\ call' = [call EXCEPT ![c].at = "write", ![c].id = NewId]
           /\ torn' = IF call[c].at = "remap" /\ idem[k] # call[c].id THEN torn \cup {k} ELSE torn
  <2>1. PICK h : h = Writing(call[c])
    OBVIOUS
  <2>2. /\ h \in CallSet /\ Handler(h) /\ h.at = "write" /\ h.id = NewId
        /\ h.key = k /\ h.op = call[c].op
    BY <1>1, <1>4, <2>1, WritingIs
  <2>3. call' = [call EXCEPT ![c] = h]
    BY <1>4, <2>1 DEF Writing, IInv, CallTypes
  <2>4. /\ CallTypes' /\ call'[c] = h
        /\ \A d \in Calls : d # c => call'[d] = call[d]
    BY <2>2, <2>3, CallMoves DEF IInv
  <2>5. /\ NewId \in Ids /\ order[NewId] = Absent /\ NewId # 0
        /\ \A j \in Keys : idem[j] # NewId
        /\ \A d \in Calls : call[d].id # NewId
    BY <1>4, NewIdIs
  <2>6. idem'[k] = NewId /\ \A j \in Keys : j # k => idem'[j] = idem[j]
    BY <1>2, <1>4 DEF IInv, StoreTypes
  <2>7. StoreTypes' /\ RestTypes'
    BY <1>2, <1>3, <1>4, <2>5 DEF IInv, StoreTypes, RestTypes
  <2>8. ASSUME NEW d \in Calls PROVE Handler(call[d])'
    <3>1. PICK x : x = call'[d]
      OBVIOUS
    <3>2. Handler(x)
      BY <2>2, <2>4, <3>1 DEF IInv, Handlers
    <3>3. Handler(x)'
      BY <1>3, <3>2, HandlerStays
    <3>4. QED
      BY <3>1, <3>3
  <2>10. Writers'
    BY <2>2, <2>4, <2>5 DEF IInv, Writers
  <2>11. ASSUME NEW j \in Keys PROVE Named(j)'
    <3>1. Named(j)
      BY DEF IInv, KeysLead
    <3>2. CASE j = k
      BY <1>3, <2>2, <2>4, <2>5, <2>6, <3>2 DEF Named, Exists
    <3>3. CASE j # k
      BY <1>3, <2>2, <2>4, <2>5, <2>6, <3>1, <3>3 DEF Named, Exists
    <3>4. QED
      BY <3>2, <3>3
  <2>12. ASSUME NEW j \in Keys \ torn' PROVE Keyed(j)'
    <3>1. j \notin torn /\ Keyed(j)
      BY <1>4, <2>12 DEF IInv, KeysLead
    <3>2. CASE j # k
      BY <1>3, <2>2, <2>4, <2>6, <3>1, <3>2 DEF Keyed, Exists, Over, Quiet
    <3>3. CASE j = k
      <4>1. \A p \in Ids : Exists(p) /\ order[p].key = k /\ Quiet(p) => Over(p)
        <5>1. CASE call[c].at = "remap"
          <6>1. idem[k] = call[c].id /\ (Quiet(call[c].id) => Over(call[c].id))
            BY <1>1, <1>4, <2>12, <3>3, <5>1 DEF Handler, Opening
          <6>2. QED
            BY <3>1, <3>3, <6>1 DEF Keyed
        <5>2. CASE idem[k] = 0
          BY <3>1, <3>3, <5>2 DEF Keyed
        <5>3. QED
          BY <1>4, <5>1, <5>2
      <4>2. ASSUME NEW d \in Calls, call[d].at = "write", call[d].key = k PROVE FALSE
        <5>1. call[d].id = idem[k] /\ call[d].id \in Ids /\ ~Exists(call[d].id)
          BY <3>1, <3>3, <4>2 DEF Keyed, IInv, Handlers, Handler, Opening, Exists
        <5>2. idem[k] # 0
          BY <5>1, OrdersAssumption DEF Ids
        <5>3. QED
          BY <1>1, <1>4, <2>12, <3>3, <5>1, <5>2 DEF Handler, Opening
      <4>3. QED
        BY <1>3, <2>2, <2>4, <2>5, <2>6, <3>3, <4>1, <4>2 DEF Keyed, Exists, Over, Quiet
    <3>4. QED
      BY <3>2, <3>3
  <2>13. KeysLead'
    BY <2>11, <2>12 DEF KeysLead
  <2>14. Ledger' /\ WorkerIs' /\ WorkerKnows' /\ BatchIs' /\ WorkerTypes'
    BY <1>3, LedgerStays, WorkerStays
  <2>15. Watch'
    BY <1>1, <1>3, <2>4, WatchStays
  <2>16. QED
    BY <2>4, <2>7, <2>8, <2>10, <2>13, <2>14, <2>15 DEF IInv, Handlers
<1>5. CASE /\ call[c].at = "take" /\ idem[k] # 0
           /\ call' = [call EXCEPT ![c].at = "loser"]
           /\ UNCHANGED <<idem, torn>>
  <2>1. PICK x \in CallSet : x = call[c]
    BY <1>1
  <2>2. PICK h : h = [x EXCEPT !.at = "loser"]
    OBVIOUS
  <2>3. h \in CallSet /\ h.at = "loser" /\ h.op = x.op /\ h.key = x.key
    BY <2>2 DEF CallSet, CallSites
  <2>4. call' = [call EXCEPT ![c] = h]
    BY <1>5, <2>1, <2>2 DEF IInv, CallTypes
  <2>5. Handler(h)
    BY <1>1, <1>2, <2>1, <2>3 DEF Handler, Opening, Early
  <2>6. Writers'
    BY <1>1, <2>1, <2>3, <2>4, WritersStay
  <2>7. torn' \subseteq Keys /\ cut' \subseteq Ids /\ faults' \in 0 .. MaxFaults
    BY <1>3, <1>5 DEF IInv, RestTypes
  <2>8. QED
    BY <1>1, <1>3, <1>5, <2>3, <2>4, <2>5, <2>6, <2>7, CallOnly DEF gateway
<1>6. QED
  BY <1>4, <1>5 DEF AuthorizeTake

LEMMA LoserStep ==
  ASSUME IInv, NEW c \in Calls, AuthorizeLoser(c)
  PROVE  IInv'
<1> DEFINE k == call[c].key
<1>1. call[c] \in CallSet /\ Handler(call[c]) /\ call[c].at = "loser"
  BY DEF IInv, CallTypes, Handlers, AuthorizeLoser
<1>2. k \in Keys /\ call[c].op = "authorize"
  BY <1>1 DEF Handler, Opening, Early
<1>3. UNCHANGED <<gateway, late, trade, seen, worker, batch, receipt, unclosed, cut, contended, faults>>
  BY DEF AuthorizeLoser
<1>4. cut' \subseteq Ids /\ faults' \in 0 .. MaxFaults /\ torn \subseteq Keys
  BY <1>3 DEF IInv, RestTypes
<1>5. CASE /\ Behind(k) # Absent
           /\ call' = [call EXCEPT ![c] = AfterOrder(idem[k], k, Behind(k))]
           /\ UNCHANGED torn
  <2>1. idem[k] \in Ids /\ Exists(idem[k]) /\ Behind(k) = order[idem[k]] /\ order[idem[k]].key = k
    <3>1. idem[k] # 0 /\ Behind(k) = order[idem[k]]
      BY <1>5 DEF Behind
    <3>2. QED
      BY <1>2, <1>5, <3>1 DEF IInv, StoreTypes, KeysLead, Named, Exists
  <2>2. PICK h : h = AfterOrder(idem[k], k, Behind(k))
    OBVIOUS
  <2>3. h = AfterOrder(idem[k], order[idem[k]].key, order[idem[k]])
    BY <2>1, <2>2
  <2>4. /\ h \in CallSet /\ Handler(h) /\ h.at \in {"idle", "read"}
        /\ h.at = "idle" \/ (h.op = "authorize" /\ h.key = k)
    BY <1>2, <2>1, <2>3, AfterOrderIs DEF IInv
  <2>5. call' = [call EXCEPT ![c] = h]
    BY <1>5, <2>2
  <2>6. Writers'
    BY <1>1, <1>2, <2>4, <2>5, WritersStay
  <2>7. QED
    BY <1>1, <1>3, <1>4, <1>5, <2>4, <2>5, <2>6, CallOnly
<1>6. CASE /\ Behind(k) = Absent /\ Fresh # {}
           /\ call' = [call EXCEPT ![c].at = "write", ![c].id = NewId]
           /\ torn' = torn \cup {k}
  <2>1. PICK h : h = Writing(call[c])
    OBVIOUS
  <2>2. /\ h \in CallSet /\ Handler(h) /\ h.at = "write" /\ h.id = NewId
        /\ h.key = k /\ h.op = call[c].op
    BY <1>1, <1>6, <2>1, WritingIs
  <2>3. call' = [call EXCEPT ![c] = h]
    BY <1>6, <2>1 DEF Writing, IInv, CallTypes
  <2>4. /\ call'[c] = h /\ \A d \in Calls : d # c => call'[d] = call[d]
    BY <2>2, <2>3, CallMoves DEF IInv
  <2>5. (\A j \in Keys : idem[j] # NewId) /\ \A d \in Calls : call[d].id # NewId
    BY <1>6, NewIdIs
  <2>6. Writers'
    BY <2>2, <2>4, <2>5 DEF IInv, Writers
  <2>7. torn \subseteq torn' /\ torn' \subseteq Keys /\ h.key \in torn'
    BY <1>2, <1>4, <1>6, <2>2
  <2>8. QED
    BY <1>1, <1>3, <1>4, <2>2, <2>3, <2>5, <2>6, <2>7, CallOnly
<1>7. QED
  BY <1>5, <1>6 DEF AuthorizeLoser

LEMMA WriteStep ==
  ASSUME IInv, NEW c \in Calls, AuthorizeWrite(c)
  PROVE  IInv'
<1>1. PICK x \in CallSet : x = call[c] /\ Handler(x) /\ x.at = "write"
  BY DEF IInv, CallTypes, Handlers, AuthorizeWrite
<1>2. PICK k \in Keys, p \in Ids : /\ x.key = k /\ x.id = p /\ x.op = "authorize"
                                   /\ order[p] = Absent
  BY <1>1 DEF Handler, Opening, Early
<1>3. PICK new, h : /\ new = [key |-> k, status |-> "authorized", coded |-> FALSE]
                    /\ h = AfterOrder(p, k, new)
                    /\ order' = [order EXCEPT ![p] = new]
                    /\ call' = [call EXCEPT ![c] = h]
  BY <1>1, <1>2 DEF AuthorizeWrite
<1>4. UNCHANGED <<idem, poll, late, trade, seen, worker, batch, receipt, unclosed, cut, torn, contended, faults>>
  BY DEF AuthorizeWrite, history
<1>5. /\ new \in Orders /\ new \in Reads /\ new # Absent
      /\ new.key = k /\ new.status = "authorized" /\ new.coded = FALSE
  BY <1>3 DEF Orders, Reads, Statuses, Absent
<1>6. order'[p] = new /\ \A q \in Ids : q # p => order'[q] = order[q]
  BY <1>3 DEF IInv, StoreTypes
<1>7. /\ h \in CallSet /\ h.at \in {"idle", "read"}
      /\ h.at = "idle" \/ (h.op = "authorize" /\ h.key = k)
      /\ Handler(h)'
  <2> DEFINE reg == [op |-> "authorize", at |-> "read", key |-> k, id |-> p,
                     to |-> "pending_pay", read |-> Absent]
  <2>1. h = Idle \/ (h = reg /\ k \in HostedKeys)
    BY <1>3 DEF AfterOrder
  <2>2. CASE h = Idle
    <3>1. Handler(h)'
      BY <2>2, Records DEF Handler, Opening, Early
    <3>2. QED
      BY <2>2, <3>1, Records
  <2>3. CASE h = reg /\ k \in HostedKeys
    <3>1. h \in CallSet
      BY <2>3, Records DEF CallSet, Ops, CallSites, Targets, AllowedFrom
    <3>2. /\ h.op = "authorize" /\ h.at = "read" /\ h.key = k /\ h.id = p /\ h.to = "pending_pay"
      BY <2>3
    <3>3. Opening(h)' /\ Holding(h)' /\ Knowing(h)' /\ Moving(h)' /\ Sure(h)'
      BY <1>5, <1>6, <2>3, <3>2
         DEF Opening, Holding, Knowing, Moving, Sure, CallTargets, Early, Exists
    <3>4. Handler(h)'
      BY <3>2, <3>3 DEF Handler, Ops
    <3>5. QED
      BY <3>1, <3>2, <3>4
  <2>4. QED
    BY <2>1, <2>2, <2>3
<1>8. /\ CallTypes' /\ call'[c] = h
      /\ \A d \in Calls : d # c => call'[d] = call[d]
  BY <1>3, <1>7, CallMoves DEF IInv
<1>9. StoreTypes' /\ RestTypes'
  BY <1>3, <1>4, <1>5 DEF IInv, StoreTypes, RestTypes
<1>10. ASSUME NEW d \in Calls PROVE Handler(call[d])'
  <2>1. CASE d = c
    BY <1>7, <1>8, <2>1
  <2>2. CASE d # c
    <3>1. PICK y \in CallSet : y = call[d] /\ y = call'[d] /\ Handler(y)
      BY <1>8, <2>2 DEF IInv, CallTypes, Handlers
    <3>2. y.at \in {"idle", "take", "loser"} \/ (y.id \in Ids /\ y.id # p)
      <4>1. y.at = "write" => y.id \in Ids /\ y.id # p
        BY <1>1, <1>2, <2>2, <3>1 DEF IInv, Writers, Handler, Opening
      <4>2. y.at = "remap" \/ y.at \notin Early \cup {"idle"} => y.id \in Ids /\ y.id # p
        BY <1>2, <3>1 DEF Handler, Opening, Holding, Exists
      <4>3. QED
        BY <4>1, <4>2 DEF Early
    <3>3. Handler(y)'
      BY <1>4, <1>6, <3>1, <3>2, HandlerWithout, HandlerElsewhere
    <3>4. QED
      BY <3>1, <3>3
  <2>3. QED
    BY <2>1, <2>2
<1>11. Writers'
  BY <1>1, <1>2, <1>3, <1>7, WritersStay
<1>12. Ledger'
  <2>1. ASSUME NEW q \in Ids, Quiet(q)' PROVE Agrees(q)'
    <3>1. Agrees(q)
      BY <1>4, <2>1 DEF IInv, Ledger, Quiet
    <3>2. CASE q = p
      BY <1>2, <1>4, <1>5, <1>6, <3>1, <3>2, Records DEF Agrees, Exists, Hosted, Paid, Paying
    <3>3. CASE q # p
      BY <1>4, <1>6, <3>1, <3>3 DEF Agrees, Exists, Hosted, Paid
    <3>4. QED
      BY <3>2, <3>3
  <2>2. contended \subseteq Ids
    BY DEF IInv, RestTypes
  <2>3. QED
    BY <1>4, <1>5, <1>6, <2>1, <2>2 DEF IInv, Ledger, Exists
<1>13. ASSUME NEW j \in Keys PROVE Named(j)'
  <2>1. Named(j) /\ idem[j] \in Ids \cup {0}
    BY DEF IInv, KeysLead, StoreTypes
  <2>2. CASE idem[j] = p /\ p # 0
    BY <1>1, <1>2, <1>4, <1>5, <1>6, <1>7, <1>8, <2>1, <2>2 DEF Named, Exists
  <2>3. CASE idem[j] # p
    BY <1>1, <1>4, <1>6, <1>7, <1>8, <2>1, <2>3 DEF Named, Exists
  <2>4. QED
    BY <2>2, <2>3, OrdersAssumption DEF Ids
<1>14. ASSUME NEW j \in Keys \ torn' PROVE Keyed(j)'
  <2>1. Keyed(j)
    BY <1>4, <1>14 DEF IInv, KeysLead
  <2>2. p # 0 /\ (j = k => idem[j] = p)
    BY <1>1, <1>2, <2>1, OrdersAssumption DEF Keyed, Ids
  <2>3. \A q \in Ids : Exists(q)' /\ (order[q].key = j)' => idem[j] # 0 /\ (q = idem[j] \/ (Quiet(q)' => Over(q)'))
    BY <1>4, <1>5, <1>6, <2>1, <2>2 DEF Keyed, Exists, Over, Quiet
  <2>4. \A d \in Calls : call'[d].at = "write" /\ call'[d].key = j => call'[d].id = idem[j]
    BY <1>7, <1>8, <2>1 DEF Keyed
  <2>5. QED
    BY <1>4, <2>3, <2>4 DEF Keyed
<1>15. worker.at \notin {"idle", "next"} => worker.id \in Ids /\ worker.id # p
  BY <1>2 DEF IInv, WorkerIs, Exists
<1>16. WorkerIs' /\ WorkerKnows'
  BY <1>4, <1>6, <1>15 DEF IInv, WorkerIs, WorkerKnows, Exists, Hosted, Paid, Shut, Quiet
<1>17. BatchIs' /\ WorkerTypes'
  <2>1. \A b \in batch : b.id \in Ids /\ b.id # p
    BY <1>2 DEF IInv, BatchIs, WorkerTypes, ItemSet, Exists
  <2>2. QED
    BY <1>4, <1>6, <2>1 DEF IInv, BatchIs, WorkerTypes, Exists, Quiet
<1>18. Watch'
  BY <1>1, <1>4, <1>5, <1>6, <1>8 DEF IInv, Watch, Announcing
<1>19. QED
  BY <1>8, <1>9, <1>10, <1>11, <1>12, <1>13, <1>14, <1>16, <1>17, <1>18
     DEF IInv, Handlers, KeysLead

(***************************************************************************)
(* The channel.                                                            *)
(***************************************************************************)
\* A step in which only the channel's word on one order changes, and perhaps the
\* history of what was not closed.
LEMMA ChannelOnly ==
  ASSUME IInv, NEW p \in Ids, NEW v \in Trades, trade' = [trade EXCEPT ![p] = v],
         \/ trade[p] = v
         \/ /\ trade[p] = "none" /\ v = "coded"
            /\ Quiet(p) => Exists(p) /\ ~Hosted(p) /\ ~order[p].coded
         \/ trade[p] = "coded" /\ v \in {"closed", "paid"} /\ (Quiet(p) => order[p].coded)
         \/ trade[p] = "paid" /\ v = "refunded",
         unclosed \subseteq unclosed', unclosed' \subseteq Ids,
         UNCHANGED <<gateway, late, seen, batch, contended>>
  PROVE  /\ StoreTypes' /\ Ledger' /\ BatchIs'
         /\ \A h : Handler(h) /\ (h.id \in Ids \/ h.at \in {"idle", "take", "loser"}) => Handler(h)'
         /\ \A q \in Ids : Paid(q) => Paid(q)'
         /\ \A q \in Ids : Shut(q) => Shut(q)'
<1>1. trade'[p] = v /\ \A q \in Ids : q # p => trade'[q] = trade[q]
  BY DEF IInv, StoreTypes
<1>2. \A q \in Ids : trade[q] \in {"closed", "refunded"} => trade'[q] = trade[q]
  BY <1>1
<1>3. StoreTypes'
  BY DEF IInv, StoreTypes, gateway
<1>4. ASSUME NEW q \in Ids, Quiet(q)' PROVE Agrees(q)'
  <2>1. Quiet(q) /\ Agrees(q)
    BY <1>4 DEF IInv, Ledger, Quiet
  <2>2. CASE q = p
    BY <1>1, <2>1, <2>2 DEF Agrees, Exists, Hosted, Paid, Paying, gateway
  <2>3. CASE q # p
    BY <1>1, <2>1, <2>3 DEF Agrees, Exists, Hosted, Paid, gateway
  <2>4. QED
    BY <2>2, <2>3
<1>5. ASSUME NEW h, Handler(h), h.id \in Ids \/ h.at \in {"idle", "take", "loser"}
      PROVE  Handler(h)'
  BY <1>2, <1>5, HandlerStays, HandlerWithout DEF gateway
<1>6. BatchIs'
  BY DEF IInv, BatchIs, Exists, Quiet, gateway
<1>7. \A q \in Ids : Paid(q) => Paid(q)'
  BY <1>1 DEF Paid
<1>8. \A q \in Ids : Shut(q) => Shut(q)'
  BY <1>2 DEF Shut
<1>9. Ledger'
  BY <1>4 DEF IInv, Ledger, Exists, gateway
<1>10. QED
  BY <1>3, <1>5, <1>6, <1>7, <1>8, <1>9

\* A handler calls the channel.
LEMMA ChannelCall ==
  ASSUME IInv, NEW c \in Calls, call[c].at \in {"create", "close", "refund"},
         NEW h \in CallSet, call' = [call EXCEPT ![c] = h],
         h.at \in {"read", "reread"}, h.op = call[c].op, h.key = call[c].key, Handler(h)',
         StoreTypes', Ledger', BatchIs',
         \A x : Handler(x) /\ (x.id \in Ids \/ x.at \in {"idle", "take", "loser"}) => Handler(x)',
         \A q \in Ids : Paid(q) => Paid(q)',
         \A q \in Ids : Shut(q) => Shut(q)',
         unclosed \subseteq unclosed', unclosed' \subseteq Ids, faults' \in 0 .. MaxFaults,
         UNCHANGED <<gateway, late, seen, batch, worker, receipt, cut, torn, contended>>
  PROVE  IInv'
<1>1. /\ CallTypes' /\ call'[c] = h
      /\ \A d \in Calls : d # c => call'[d] = call[d]
  BY CallMoves DEF IInv
<1>2. RestTypes'
  BY DEF IInv, RestTypes
<1>3. ASSUME NEW d \in Calls PROVE Handler(call[d])'
  <2>1. CASE d = c
    BY <1>1, <2>1
  <2>2. CASE d # c
    <3>1. PICK x \in CallSet : x = call[d] /\ x = call'[d] /\ Handler(x)
      BY <1>1, <2>2 DEF IInv, CallTypes, Handlers
    <3>2. x.id \in Ids \/ x.at \in {"idle", "take", "loser"}
      BY <3>1 DEF Handler, Opening, Holding, Early
    <3>3. Handler(x)'
      BY <3>1, <3>2
    <3>4. QED
      BY <3>1, <3>3
  <2>3. QED
    BY <2>1, <2>2
<1>4. Writers'
  BY WritersStay
<1>5. KeysLead'
  BY <1>1, KeysStay DEF gateway
<1>6. WorkerIs' /\ WorkerKnows' /\ WorkerTypes'
  <2>1. worker.at \notin {"idle", "next"} => worker.id \in Ids
    BY DEF IInv, WorkerIs
  <2>2. WorkerIs' /\ WorkerKnows'
    BY <2>1 DEF IInv, WorkerIs, WorkerKnows, Exists, Hosted, Quiet, gateway
  <2>3. QED
    BY <2>2 DEF IInv, WorkerTypes
<1>7. Watch'
  BY <1>1, WatchStays DEF gateway
<1>8. QED
  BY <1>1, <1>2, <1>3, <1>4, <1>5, <1>6, <1>7 DEF IInv, Handlers

\* Where a handler goes from the channel.
Going(x, at, to) == [x EXCEPT !.at = at, !.to = to]

LEMMA GoesOn ==
  ASSUME NEW x \in CallSet, NEW at \in {"read", "reread"},
         NEW to \in {x.to, "pending_pay", "failed", "cancelled", "refunded"}
  PROVE  /\ Going(x, at, to) \in CallSet /\ Going(x, at, to).at = at /\ Going(x, at, to).to = to
         /\ Going(x, at, to).op = x.op /\ Going(x, at, to).key = x.key
         /\ Going(x, at, to).id = x.id
<1>1. to \in Targets /\ at \in CallSites
  BY DEF CallSet, CallSites, Targets, AllowedFrom
<1>2. QED
  BY <1>1 DEF CallSet, Going

LEMMA CreateStep ==
  ASSUME IInv, NEW c \in Calls, CaptureCreate(c)
  PROVE  IInv'
<1>1. PICK x \in CallSet : x = call[c] /\ Handler(x) /\ x.at = "create"
  BY DEF IInv, CallTypes, Handlers, CaptureCreate
<1>2. PICK p \in Ids : /\ x.id = p /\ x.op = "capture" /\ x.key \in Keys /\ x.key \notin HostedKeys
                       /\ Exists(p) /\ order[p].key = x.key
                       /\ Quiet(p) => order[p].status = "authorized"
  BY <1>1 DEF Handler, Holding, Knowing, Early
<1>3. ~Hosted(p) /\ (Quiet(p) => ~order[p].coded)
  BY <1>2 DEF IInv, Ledger, Agrees, Hosted
<1>4. UNCHANGED <<gateway, late, seen, worker, batch, receipt, history>>
  BY DEF CaptureCreate
<1>5. PICK to \in {"pending_pay", "failed"} :
        call' = [call EXCEPT ![c] = Going(x, "read", to)]
  BY <1>1 DEF CaptureCreate, IInv, CallTypes, Going
<1>6. PICK h : h = Going(x, "read", to)
  OBVIOUS
<1>7. /\ h \in CallSet /\ h.at = "read" /\ h.to = to
      /\ h.op = "capture" /\ h.key = x.key /\ h.id = p
  BY <1>2, <1>6, GoesOn
<1>8. Handler(h)'
  BY <1>2, <1>4, <1>7 DEF Handler, Opening, Holding, Knowing, Moving, Sure, CallTargets, Early,
                          Exists, Ops, Quiet, gateway, history
<1>9. PICK v \in Trades : /\ trade' = [trade EXCEPT ![p] = v]
                          /\ trade[p] = v \/ (trade[p] = "none" /\ v = "coded")
  <2>1. trade \in [Ids -> Trades]
    BY DEF IInv, StoreTypes
  <2>2. \/ trade[p] \in {"none", "coded"} /\ trade' = [trade EXCEPT ![p] = "coded"]
        \/ trade' = trade
        \/ trade' = [trade EXCEPT ![p] = IF trade[p] = "none" THEN "coded" ELSE trade[p]]
    BY <1>1, <1>2, <2>1 DEF CaptureCreate
  <2>3. trade = [trade EXCEPT ![p] = trade[p]] /\ "coded" \in Trades /\ trade[p] \in Trades
    BY <2>1 DEF Trades
  <2>4. QED
    BY <2>2, <2>3
<1>10. faults' \in 0 .. MaxFaults
  BY BoundsAssumption DEF CaptureCreate, IInv, RestTypes
<1>11. unclosed' = unclosed /\ unclosed \subseteq Ids /\ contended' = contended
  BY <1>4 DEF IInv, RestTypes, history
<1>12. /\ StoreTypes' /\ Ledger' /\ BatchIs'
       /\ \A y : Handler(y) /\ (y.id \in Ids \/ y.at \in {"idle", "take", "loser"}) => Handler(y)'
       /\ \A q \in Ids : Paid(q) => Paid(q)'
       /\ \A q \in Ids : Shut(q) => Shut(q)'
  BY <1>2, <1>3, <1>4, <1>9, <1>11, ChannelOnly
<1>13. QED
  BY <1>1, <1>2, <1>4, <1>5, <1>6, <1>7, <1>8, <1>10, <1>11, <1>12, ChannelCall DEF history

\* The order's trade after the attempt to close it.
LEMMA CloseIs ==
  ASSUME IInv, NEW p \in Ids, CloseTrade(p)
  PROVE  /\ \E v \in Trades : /\ trade' = [trade EXCEPT ![p] = v]
                              /\ trade[p] = v \/ (trade[p] = "coded" /\ v = "closed")
         /\ unclosed \subseteq unclosed' /\ unclosed' \subseteq Ids
         /\ Shut(p)'
<1>1. trade \in [Ids -> Trades] /\ unclosed \subseteq Ids
  BY DEF IInv, StoreTypes, RestTypes
<1>2. trade = [trade EXCEPT ![p] = trade[p]] /\ "closed" \in Trades /\ trade[p] \in Trades
  BY <1>1 DEF Trades
<1>3. CASE trade[p] \in {"coded", "closed"} /\ trade' = [trade EXCEPT ![p] = "closed"] /\ UNCHANGED unclosed
  BY <1>1, <1>2, <1>3 DEF Shut
<1>4. CASE unclosed' = unclosed \cup {p} /\ UNCHANGED trade
  BY <1>1, <1>2, <1>4 DEF Shut
<1>5. QED
  BY <1>3, <1>4 DEF CloseTrade

LEMMA CancelCloseStep ==
  ASSUME IInv, NEW c \in Calls, CancelClose(c)
  PROVE  IInv'
<1>1. PICK x \in CallSet : x = call[c] /\ Handler(x) /\ x.at = "close"
  BY DEF IInv, CallTypes, Handlers, CancelClose
<1>2. PICK p \in Ids : /\ x.id = p /\ x.op = "cancel" /\ x.key \in Keys /\ x.to = "cancelled"
                       /\ Exists(p) /\ order[p].key = x.key
                       /\ Quiet(p) => order[p].coded
  BY <1>1 DEF Handler, Holding, Knowing, Early
<1>3. /\ CloseTrade(p)
      /\ UNCHANGED <<gateway, late, seen, worker, batch, receipt, cut, torn, contended, faults>>
  BY <1>1, <1>2 DEF CancelClose
<1>4. PICK h : h = Going(x, "read", x.to)
  OBVIOUS
<1>5. /\ h \in CallSet /\ h.at = "read" /\ h.to = "cancelled"
      /\ h.op = "cancel" /\ h.key = x.key /\ h.id = p
  BY <1>2, <1>4, GoesOn
<1>6. call' = [call EXCEPT ![c] = h]
  <2>1. x = [x EXCEPT !.to = x.to]
    BY DEF CallSet
  <2>2. h = [x EXCEPT !.at = "read"]
    BY <1>4, <2>1 DEF CallSet, Going
  <2>3. QED
    BY <1>1, <2>2 DEF CancelClose, IInv, CallTypes
<1>7. /\ \E v \in Trades : /\ trade' = [trade EXCEPT ![p] = v]
                           /\ trade[p] = v \/ (trade[p] = "coded" /\ v = "closed")
      /\ unclosed \subseteq unclosed' /\ unclosed' \subseteq Ids /\ Shut(p)'
  BY <1>2, <1>3, CloseIs
<1>8. Handler(h)'
  BY <1>2, <1>3, <1>5, <1>7 DEF Handler, Opening, Holding, Knowing, Moving, Sure, CallTargets, Early,
                               Exists, Ops, Quiet, gateway, history
<1>9. /\ StoreTypes' /\ Ledger' /\ BatchIs'
      /\ \A y : Handler(y) /\ (y.id \in Ids \/ y.at \in {"idle", "take", "loser"}) => Handler(y)'
      /\ \A q \in Ids : Paid(q) => Paid(q)'
      /\ \A q \in Ids : Shut(q) => Shut(q)'
  BY <1>2, <1>3, <1>7, ChannelOnly
<1>10. faults' \in 0 .. MaxFaults
  BY <1>3 DEF IInv, RestTypes
<1>11. QED
  BY <1>1, <1>2, <1>3, <1>5, <1>6, <1>7, <1>8, <1>9, <1>10, ChannelCall

LEMMA RefundChannelStep ==
  ASSUME IInv, NEW c \in Calls, RefundChannel(c)
  PROVE  IInv'
<1>1. PICK x \in CallSet : x = call[c] /\ Handler(x) /\ x.at = "refund"
  BY DEF IInv, CallTypes, Handlers, RefundChannel
<1>2. PICK p \in Ids : /\ x.id = p /\ x.op = "refund" /\ x.key \in Keys
                       /\ Exists(p) /\ order[p].key = x.key
                       /\ Quiet(p) => order[p].status = "refunding"
  BY <1>1 DEF Handler, Holding, Knowing, Early
<1>3. UNCHANGED <<gateway, late, seen, worker, batch, receipt, history>>
  BY DEF RefundChannel
<1>4. trade \in [Ids -> Trades] /\ x.to \in Targets
  BY DEF IInv, StoreTypes, CallSet
<1>5. PICK h \in CallSet : /\ call' = [call EXCEPT ![c] = h]
                           /\ h.op = "refund" /\ h.key = x.key /\ h.id = p
                           /\ \/ /\ h.at = "read" /\ h.to = "refunded"
                                 /\ trade[p] \in {"paid", "refunded"}
                                 /\ trade' = [trade EXCEPT ![p] = "refunded"]
                              \/ /\ h.at = "reread"
                                 /\ trade' \in {trade, [trade EXCEPT ![p] =
                                               IF trade[p] = "paid" THEN "refunded" ELSE trade[p]]}
  <2>1. CASE /\ trade[p] \in {"paid", "refunded"}
             /\ trade' = [trade EXCEPT ![p] = "refunded"]
             /\ call' = [call EXCEPT ![c].at = "read", ![c].to = "refunded"]
    <3>1. PICK h : h = Going(x, "read", "refunded")
      OBVIOUS
    <3>2. /\ h \in CallSet /\ h.at = "read" /\ h.to = "refunded"
          /\ h.op = "refund" /\ h.key = x.key /\ h.id = p
      BY <1>2, <3>1, GoesOn
    <3>3. call' = [call EXCEPT ![c] = h]
      BY <1>1, <2>1, <3>1 DEF IInv, CallTypes, Going
    <3>4. QED
      BY <2>1, <3>2, <3>3
  <2>2. CASE /\ trade' \in {trade, [trade EXCEPT ![p] =
                                       IF trade[p] = "paid" THEN "refunded" ELSE trade[p]]}
             /\ call' = [call EXCEPT ![c].at = "reread"]
    <3>1. PICK h : h = Going(x, "reread", x.to)
      OBVIOUS
    <3>2. /\ h \in CallSet /\ h.at = "reread"
          /\ h.op = "refund" /\ h.key = x.key /\ h.id = p
      BY <1>2, <3>1, GoesOn
    <3>3. h = [x EXCEPT !.at = "reread"]
      BY <3>1 DEF CallSet, Going
    <3>4. call' = [call EXCEPT ![c] = h]
      BY <1>1, <2>2, <3>3 DEF IInv, CallTypes
    <3>5. QED
      BY <2>2, <3>2, <3>4
  <2>3. QED
    BY <1>1, <1>2, <1>4, <2>1, <2>2 DEF RefundChannel
<1>6. PICK v \in Trades : /\ trade' = [trade EXCEPT ![p] = v]
                          /\ trade[p] = v \/ (trade[p] = "paid" /\ v = "refunded")
                          /\ h.at = "read" => v = "refunded"
  <2>1. trade = [trade EXCEPT ![p] = trade[p]] /\ "refunded" \in Trades /\ trade[p] \in Trades
    BY <1>4 DEF Trades
  <2>2. QED
    BY <1>5, <2>1
<1>7. h.at = "read" => trade'[p] = "refunded"
  BY <1>4, <1>6
<1>8. Handler(h)'
  BY <1>2, <1>3, <1>5, <1>7 DEF Handler, Opening, Holding, Knowing, Moving, Sure, CallTargets, Early,
                               Exists, Ops, Quiet, gateway, history
<1>9. unclosed' = unclosed /\ unclosed \subseteq Ids /\ contended' = contended
  BY <1>3 DEF IInv, RestTypes, history
<1>10. /\ StoreTypes' /\ Ledger' /\ BatchIs'
       /\ \A y : Handler(y) /\ (y.id \in Ids \/ y.at \in {"idle", "take", "loser"}) => Handler(y)'
       /\ \A q \in Ids : Paid(q) => Paid(q)'
       /\ \A q \in Ids : Shut(q) => Shut(q)'
  BY <1>2, <1>3, <1>6, <1>9, ChannelOnly
<1>11. faults' \in 0 .. MaxFaults
  BY BoundsAssumption DEF RefundChannel, IInv, RestTypes
<1>12. QED
  BY <1>1, <1>2, <1>3, <1>5, <1>8, <1>9, <1>10, <1>11, ChannelCall DEF history

(***************************************************************************)
(* Transitions.                                                            *)
(***************************************************************************)
\* A handler that holds its order and moves on or ends: no order, trade or list
\* changes by that.
LEMMA MovesOn ==
  ASSUME IInv, NEW c \in Calls, call[c].at \notin {"idle", "sched"},
         NEW h \in CallSet, call' = [call EXCEPT ![c] = h], Handler(h), h.at # "write",
         UNCHANGED <<gateway, late, trade, seen, worker, batch, receipt, history, faults>>
  PROVE  IInv'
<1>1. Writers'
  BY WritersStay
<1>2. /\ torn \subseteq torn' /\ torn' \subseteq Keys /\ cut \subseteq cut' /\ cut' \subseteq Ids
      /\ faults' \in 0 .. MaxFaults /\ unclosed' = unclosed /\ contended' = contended
  BY DEF IInv, RestTypes, history
<1>3. QED
  BY <1>1, <1>2, CallOnly

\* Where a handler goes when its transition is done.
LEMMA AfterTransitionIs ==
  ASSUME NEW x \in CallSet, x.to \in CallTargets
  PROVE  LET g == AfterTransition(x)
         IN /\ g \in CallSet
            /\ \/ g = Idle /\ x.to \in {"refunded", "captured"}
               \/ /\ g.op = x.op /\ g.key = x.key /\ g.id = x.id /\ g.to = x.to
                  /\ \/ g.at = "sched" /\ x.to = "pending_pay" /\ g.read = x.read
                     \/ g.at = "unsched" /\ x.to \in {"failed", "cancelled"}
                     \/ g.at = "refund" /\ x.to = "refunding"
<1>1. ASSUME NEW at \in {"unsched", "refund"}
      PROVE  LET g == [x EXCEPT !.at = at, !.read = Absent]
             IN /\ g \in CallSet /\ g.at = at
                /\ g.op = x.op /\ g.key = x.key /\ g.id = x.id /\ g.to = x.to
  BY Records DEF CallSet, CallSites
<1>2. LET g == [x EXCEPT !.at = "sched"]
      IN /\ g \in CallSet /\ g.at = "sched" /\ g.read = x.read
         /\ g.op = x.op /\ g.key = x.key /\ g.id = x.id /\ g.to = x.to
  BY DEF CallSet, CallSites
<1>3. CASE x.to = "pending_pay"
  <2>1. AfterTransition(x) = [x EXCEPT !.at = "sched"]
    BY <1>3 DEF AfterTransition, Listed
  <2>2. QED
    BY <1>2, <1>3, <2>1
<1>4. CASE x.to \in {"failed", "cancelled"}
  <2>1. AfterTransition(x) = [x EXCEPT !.at = "unsched", !.read = Absent]
    BY <1>4 DEF AfterTransition
  <2>2. QED
    BY <1>1, <1>4, <2>1
<1>5. CASE x.to = "refunding"
  <2>1. AfterTransition(x) = [x EXCEPT !.at = "refund", !.read = Absent]
    BY <1>5 DEF AfterTransition
  <2>2. QED
    BY <1>1, <1>5, <2>1
<1>6. CASE x.to \in {"refunded", "captured"}
  <2>1. AfterTransition(x) = Idle
    BY <1>6 DEF AfterTransition
  <2>2. QED
    BY <1>6, <2>1, Records
<1>7. QED
  BY <1>3, <1>4, <1>5, <1>6 DEF CallTargets

\* The order a transition writes.
LEMMA MovedIs ==
  ASSUME NEW o \in Orders, NEW to \in Statuses
  PROVE  /\ Moved(o, to) \in Orders /\ Moved(o, to).status = to /\ Moved(o, to).key = o.key
         /\ (Moved(o, to).coded <=> o.coded \/ to = "pending_pay")
BY DEF Orders, Moved

\* A handler that has read its order and will write it.
Saving(x, to, o) == [x EXCEPT !.at = "save", !.to = to, !.read = Moved(o, to)]

LEMMA SavingIs ==
  ASSUME NEW x \in CallSet, NEW o \in Orders,
         NEW to \in CallTargets
  PROVE  \A h : h = Saving(x, to, o) =>
            /\ h \in CallSet /\ h.at = "save" /\ h.op = x.op /\ h.key = x.key /\ h.id = x.id
            /\ h.to = to /\ h.read \in Orders /\ h.read.status = to /\ h.read.key = o.key
            /\ h.read.coded <=> o.coded \/ to = "pending_pay"
<1>1. to \in Statuses /\ to \in Targets /\ "save" \in CallSites
  BY DEF CallTargets, Statuses, Targets, AllowedFrom, CallSites
<1>2. PICK m : m = Moved(o, to)
  OBVIOUS
<1>3. m \in Orders /\ m.status = to /\ m.key = o.key /\ (m.coded <=> o.coded \/ to = "pending_pay")
  BY <1>1, <1>2, MovedIs
<1>4. m \in Reads
  BY <1>3 DEF Reads
<1>5. ASSUME NEW h, h = [x EXCEPT !.at = "save", !.to = to, !.read = m]
      PROVE  /\ h \in CallSet /\ h.at = "save" /\ h.op = x.op /\ h.key = x.key /\ h.id = x.id
             /\ h.to = to /\ h.read = m
  BY <1>1, <1>4, <1>5 DEF CallSet
<1>6. Saving(x, to, o) = [x EXCEPT !.at = "save", !.to = to, !.read = m]
  BY <1>2 DEF Saving
<1>7. QED
  BY <1>3, <1>5, <1>6

LEMMA AllowedIs ==
  /\ AllowedFrom["pending_pay"] = {"authorized"} /\ AllowedFrom["captured"] = {"pending_pay"}
  /\ AllowedFrom["cancelled"] = {"authorized", "pending_pay"} /\ AllowedFrom["expired"] = {"pending_pay"}
  /\ AllowedFrom["failed"] = {"authorized", "pending_pay"}
  /\ AllowedFrom["refunding"] = {"captured"} /\ AllowedFrom["refunded"] = {"refunding"}
BY DEF AllowedFrom

\* A handler that goes on after its transition was found done or was refused: a
\* contended order may stand anywhere, another one was cancelled.
LEMMA GoesAfter ==
  ASSUME IInv, NEW c \in Calls, call[c].at = "read", NEW y \in CallSet,
         y.op = call[c].op, y.key = call[c].key, y.id = call[c].id, y.to = call[c].to,
         Quiet(y.id) => y.to = "cancelled" /\ order[y.id].status = "cancelled"
  PROVE  \A g : g = AfterTransition(y) => g \in CallSet /\ Handler(g) /\ g.at # "write"
<1>1. PICK x : x = call[c] /\ Handler(x) /\ x.at = "read"
  BY DEF IInv, Handlers
<1>2. Holding(x) /\ Moving(x) /\ x.op \in Ops /\ x.key \in Keys
  BY <1>1 DEF Handler, Early
<1>3. ASSUME NEW g, g = AfterTransition(y) PROVE g \in CallSet /\ Handler(g) /\ g.at # "write"
  <2>1. /\ g \in CallSet
        /\ \/ g = Idle
           \/ /\ g.op = x.op /\ g.key = x.key /\ g.id = x.id /\ g.to = x.to
              /\ \/ g.at = "sched" /\ x.to = "pending_pay"
                 \/ g.at = "unsched" /\ x.to \in {"failed", "cancelled"}
                 \/ g.at = "refund" /\ x.to = "refunding"
    BY <1>1, <1>2, <1>3, AfterTransitionIs DEF Moving
  <2>2. CASE g = Idle
    BY <2>1, <2>2, Records DEF Handler, Opening, Early
  <2>3. CASE g # Idle
    <3>1. Opening(g) /\ Holding(g) /\ (Quiet(g.id) => Knowing(g))
      BY <1>1, <1>2, <2>1, <2>3 DEF Opening, Holding, Knowing, Moving, Early
    <3>2. QED
      BY <1>2, <2>1, <2>3, <3>1 DEF Handler
  <2>4. QED
    BY <2>2, <2>3
<1>4. QED
  BY <1>3

\* An order a transition may leave is there.
LEMMA MayMove ==
  ASSUME NEW o \in Reads, NEW to \in CallTargets, o.status \in AllowedFrom[to] \cup {"refunding"}
  PROVE  o \in Orders
<1>1. o # Absent
  BY Records, AllowedIs DEF CallTargets
<1>2. QED
  BY <1>1 DEF Reads

\* A handler that has read its order and will write it.
LEMMA GoesSaving ==
  ASSUME IInv, NEW c \in Calls, call[c].at \in {"read", "reread"}, NEW to \in CallTargets,
         \/ to = call[c].to /\ call[c].at = "read"
         \/ to = "captured" /\ call[c].at = "reread",
         Quiet(call[c].id) /\ to = "cancelled" => order[call[c].id].status \in {"authorized", "pending_pay"}
  PROVE  \A g : g = Saving(call[c], to, order[call[c].id]) =>
             g \in CallSet /\ Handler(g) /\ g.at # "write"
<1>1. PICK x \in CallSet : x = call[c] /\ Handler(x)
  BY DEF IInv, CallTypes, Handlers
<1>2. /\ Holding(x) /\ Opening(x) /\ x.op \in Ops /\ x.key \in Keys
      /\ x.at = "read" => Moving(x) /\ (Quiet(x.id) => Sure(x))
      /\ x.at = "reread" => x.op = "refund" /\ (Quiet(x.id) => order[x.id].status = "refunding")
  BY <1>1 DEF Handler, Holding, Knowing, Early
<1>3. PICK p \in Ids, o \in Orders : p = x.id /\ o = order[p] /\ Exists(p) /\ o.key = x.key
  BY <1>2, OrderIs DEF Holding, IInv
<1>4. Quiet(p) => Agrees(p)
  BY DEF IInv, Ledger
<1>5. ASSUME NEW g, g = Saving(x, to, o) PROVE g \in CallSet /\ Handler(g) /\ g.at # "write"
  <2>1. /\ g \in CallSet /\ g.at = "save" /\ g.op = x.op /\ g.key = x.key /\ g.id = p /\ g.to = to
        /\ g.read \in Orders /\ g.read.status = to /\ g.read.key = x.key
        /\ g.read.coded <=> o.coded \/ to = "pending_pay"
    BY <1>3, <1>5, SavingIs
  <2>2. Opening(g) /\ Holding(g) /\ Knowing(g)
    BY <1>2, <1>3, <2>1 DEF Opening, Holding, Knowing, Early
  <2>3. Moving(g)
    BY <1>1, <1>2, <2>1 DEF Moving
  <2>4. Quiet(p) => Sure(g)
    <3>1. CASE x.at = "read"
      BY <1>1, <1>2, <1>3, <1>4, <2>1, <3>1 DEF Moving, Sure, Agrees, Shut
    <3>2. CASE x.at = "reread"
      BY <1>1, <1>2, <1>3, <2>1, <3>2 DEF Sure
    <3>3. QED
      BY <1>1, <3>1, <3>2
  <2>5. QED
    BY <1>2, <2>1, <2>2, <2>3, <2>4 DEF Handler
<1>6. QED
  BY <1>1, <1>3, <1>5

LEMMA ReadStep ==
  ASSUME IInv, NEW c \in Calls, CallRead(c)
  PROVE  IInv'
<1>1. PICK x \in CallSet : x = call[c] /\ Handler(x) /\ x.at = "read"
  BY DEF IInv, CallTypes, Handlers, CallRead
<1>2. Holding(x) /\ Moving(x) /\ (Quiet(x.id) => Sure(x)) /\ x.to \in CallTargets
  BY <1>1 DEF Handler, Moving, Early
<1>3. PICK p \in Ids, o \in Orders : x.id = p /\ o = order[p] /\ Exists(p)
  BY <1>2, OrderIs DEF Holding, IInv
<1>4. UNCHANGED <<gateway, late, trade, seen, worker, batch, receipt, history, faults>>
  BY DEF CallRead
<1>5. PICK y : y = [x EXCEPT !.read = o]
  OBVIOUS
<1>6. y \in CallSet /\ y.op = x.op /\ y.key = x.key /\ y.id = x.id /\ y.to = x.to
  BY <1>5 DEF CallSet, Reads
<1>7. PICK done, save, refused :
        /\ done = AfterTransition(y)
        /\ save = [x EXCEPT !.at = "save", !.read = Moved(o, x.to)]
        /\ refused = AfterRefusal(x)
        /\ call' = [call EXCEPT ![c] = IF o.status = x.to THEN done
                                       ELSE IF o.status \in AllowedFrom[x.to] THEN save ELSE refused]
  <2>1. PICK done, save, refused :
          /\ done = AfterTransition([x EXCEPT !.read = o])
          /\ save = [x EXCEPT !.at = "save", !.read = Moved(o, x.to)]
          /\ refused = AfterRefusal(x)
    OBVIOUS
  <2>2. call' = [call EXCEPT ![c] = IF o.status = x.to THEN done
                                    ELSE IF o.status \in AllowedFrom[x.to] THEN save ELSE refused]
    BY <1>1, <1>3, <2>1, Zenon DEF CallRead
  <2>3. QED
    BY <1>5, <2>1, <2>2
\* Of a quiet order the table refuses only what is over.
<1>8. Quiet(p) => /\ o.status = x.to => x.to = "cancelled"
                  /\ o.status \in AllowedFrom[x.to] /\ x.to = "cancelled" =>
                        o.status \in {"authorized", "pending_pay"}
                  /\ o.status # x.to /\ o.status \notin AllowedFrom[x.to] => refused = Idle
  <2>1. CASE x.to = "cancelled"
    BY <1>7, <2>1, AllowedIs DEF AfterRefusal
  <2>2. CASE x.to # "cancelled"
    BY <1>1, <1>2, <1>3, <2>2, AllowedIs DEF Moving, Sure, CallTargets
  <2>3. QED
    BY <2>1, <2>2
<1>9. CASE o.status = x.to /\ call' = [call EXCEPT ![c] = done]
  <2>1. Quiet(p) => x.to = "cancelled" /\ o.status = "cancelled"
    BY <1>8, <1>9
  <2>2. done \in CallSet /\ Handler(done) /\ done.at # "write"
    BY <1>1, <1>3, <1>6, <1>7, <2>1, GoesAfter
  <2>3. QED
    BY <1>1, <1>4, <1>9, <2>2, MovesOn
<1>10. CASE o.status \in AllowedFrom[x.to] /\ call' = [call EXCEPT ![c] = save]
  <2>1. PICK g : g = Saving(x, x.to, o)
    OBVIOUS
  <2>2. g \in CallSet /\ Handler(g) /\ g.at # "write"
    BY <1>1, <1>2, <1>3, <1>8, <1>10, <2>1, GoesSaving
  <2>3. save = g
    <3>1. PICK m : m = Moved(o, x.to)
      OBVIOUS
    <3>2. save = [x EXCEPT !.at = "save", !.read = m] /\ g = [x EXCEPT !.at = "save", !.to = x.to, !.read = m]
      BY <1>7, <2>1, <3>1 DEF Saving
    <3>3. QED
      BY <3>2 DEF CallSet
  <2>4. call' = [call EXCEPT ![c] = g]
    BY <1>10, <2>3
  <2>5. QED
    BY <1>1, <1>4, <2>2, <2>4, MovesOn
<1>11. CASE /\ o.status # x.to /\ o.status \notin AllowedFrom[x.to]
            /\ call' = [call EXCEPT ![c] = refused]
  <2>1. refused = Idle \/ refused = AfterTransition(x)
    BY <1>7 DEF AfterRefusal
  <2>2. CASE refused = Idle
    BY <1>1, <1>4, <1>11, <2>2, IdleHandler, MovesOn
  <2>3. CASE refused # Idle
    <3>1. ~Quiet(p) /\ refused = AfterTransition(x)
      BY <1>8, <1>11, <2>1, <2>3
    <3>2. refused \in CallSet /\ Handler(refused) /\ refused.at # "write"
      BY <1>1, <1>3, <3>1, GoesAfter
    <3>3. QED
      BY <1>1, <1>4, <1>11, <3>2, MovesOn
  <2>4. QED
    BY <2>2, <2>3
<1>12. QED
  BY <1>7, <1>9, <1>10, <1>11

LEMMA RereadStep ==
  ASSUME IInv, NEW c \in Calls, RefundReread(c)
  PROVE  IInv'
<1>1. PICK x \in CallSet : x = call[c] /\ Handler(x) /\ x.at = "reread"
  BY DEF IInv, CallTypes, Handlers, RefundReread
<1>2. PICK p \in Ids, o \in Orders : x.id = p /\ o = order[p]
  BY <1>1, OrderIs DEF Handler, Holding, Early, IInv
<1>3. UNCHANGED <<gateway, late, trade, seen, worker, batch, receipt, history, faults>>
  BY DEF RefundReread
<1>4. CASE call' = [call EXCEPT ![c] = Idle]
  BY <1>1, <1>3, <1>4, IdleHandler, MovesOn
<1>5. CASE o.status = "refunding" /\ call' # [call EXCEPT ![c] = Idle]
  <2>1. PICK m, g : m = Moved(o, "captured") /\ g = Saving(x, "captured", o)
    OBVIOUS
  <2>2. "captured" \in CallTargets
    BY DEF CallTargets
  <2>3. g \in CallSet /\ Handler(g) /\ g.at # "write"
    BY <1>1, <1>2, <2>1, <2>2, GoesSaving
  <2>4. g = [x EXCEPT !.at = "save", !.to = "captured", !.read = m]
    BY <2>1 DEF Saving
  <2>5. call' = [call EXCEPT ![c] = [@ EXCEPT !.at = "save", !.to = "captured", !.read = m]]
    BY <1>1, <1>2, <1>5, <2>1 DEF RefundReread
  <2>6. call' = [call EXCEPT ![c] = g]
    BY <1>1, <2>4, <2>5
  <2>7. QED
    BY <1>1, <1>3, <2>3, <2>6, MovesOn
<1>6. QED
  BY <1>1, <1>2, <1>4, <1>5 DEF RefundReread

\* What a handler's write makes of the order it has read.
LEMMA SavedIs ==
  ASSUME IInv, NEW c \in Calls, call[c].at = "save"
  PROVE  LET x == call[c]
             n == x.read
         IN /\ x \in CallSet /\ x.id \in Ids /\ Exists(x.id) /\ order[x.id] \in Orders /\ n \in Orders
            /\ n.key = order[x.id].key /\ n.status \notin {"absent", "authorized"} /\ n.status = x.to
            /\ x.to \in CallTargets
<1>1. PICK x \in CallSet : x = call[c] /\ Handler(x)
  BY DEF IInv, CallTypes, Handlers
<1>2. Holding(x) /\ Moving(x) /\ x.at = "save"
  BY <1>1 DEF Handler, Early
<1>3. PICK p \in Ids : p = x.id /\ Exists(p)
  BY <1>2 DEF Holding
<1>4. order[p] \in Orders
  BY <1>3, OrderIs DEF IInv
<1>5. /\ x.read \in Orders /\ x.read.key = order[p].key /\ x.read.status = x.to /\ x.to \in CallTargets
      /\ x.to \notin {"absent", "authorized"}
  BY <1>2, <1>3 DEF Holding, Moving, CallTargets
<1>6. QED
  BY <1>1, <1>3, <1>4, <1>5

\* When nobody wrote the order in between, it is a step of the order.
LEMMA SavedQuiet ==
  ASSUME IInv, NEW c \in Calls, call[c].at = "save", Quiet(call[c].id)
  PROVE  LET n == call[c].read
             o == order[call[c].id]
         IN /\ o.coded => n.coded /\ n.status # "pending_pay"
            /\ n.status = "pending_pay" => n.coded
            /\ o.status \in Waiting => n.status = "cancelled"
            /\ o.status \in Repayable => n.status \in Repayable
            /\ n.status \in {"captured", "refunding"} => o.status \in {"captured", "refunding"}
<1>1. PICK x : x = call[c] /\ Handler(x)
  BY DEF IInv, Handlers
<1>2. Holding(x) /\ Moving(x) /\ Sure(x) /\ x.at = "save"
  BY <1>1 DEF Handler, Early
<1>3. PICK p \in Ids : p = x.id /\ Agrees(p)
  BY <1>1, <1>2 DEF Holding, IInv, Ledger
<1>4. x.read.status = x.to /\ x.to \in CallTargets /\ (x.read.coded <=> order[p].coded \/ x.to = "pending_pay")
  BY <1>2, <1>3 DEF Moving, Sure
<1>5. /\ order[p].coded => x.read.coded /\ x.to # "pending_pay"
      /\ x.to = "pending_pay" => x.read.coded
  BY <1>2, <1>3, <1>4 DEF Sure, Agrees
<1>6. /\ order[p].status \in Waiting => x.to = "cancelled"
      /\ order[p].status \in Repayable => x.to \in Repayable
      /\ x.to \in {"captured", "refunding"} => order[p].status \in {"captured", "refunding"}
  BY <1>2, <1>3, <1>4 DEF Sure, CallTargets, Waiting, Repayable
<1>7. QED
  BY <1>1, <1>3, <1>4, <1>5, <1>6

\* The order and the money agree after the write.
LEMMA SavedAgrees ==
  ASSUME IInv, NEW c \in Calls, call[c].at = "save", NEW p \in Ids, p = call[c].id, Quiet(p),
         order'[p] = call[c].read, UNCHANGED <<trade, seen, poll, unclosed>>
  PROVE  Agrees(p)'
<1>1. PICK x \in CallSet : x = call[c] /\ Handler(x)
  BY DEF IInv, CallTypes, Handlers
<1>2. Holding(x) /\ Moving(x) /\ Sure(x) /\ x.at = "save" /\ x.id = p
  BY <1>1 DEF Handler, Early
<1>3. PICK n \in Orders : n = x.read /\ n = order'[p]
  BY <1>1, <1>2 DEF Moving
<1>4. Agrees(p) /\ Exists(p) /\ order[p].key = n.key
  BY <1>2, <1>3 DEF Holding, Moving, IInv, Ledger
<1>5. n # Absent /\ n.status = x.to /\ (n.coded <=> order[p].coded \/ x.to = "pending_pay")
      /\ n.status # "absent"
  <2>1. n.status # "absent"
    BY DEF Orders, Statuses
  <2>2. QED
    BY <1>2, <1>3, <2>1, Records DEF Moving, Sure
<1>6. CASE x.to = "pending_pay"
  BY <1>2, <1>3, <1>4, <1>5, <1>6 DEF Agrees, Sure, Paying, Paid, Exists, Hosted
<1>7. CASE x.to = "failed"
  BY <1>2, <1>3, <1>4, <1>5, <1>7 DEF Agrees, Sure, Paying, Paid, Exists, Hosted
<1>8. CASE x.to = "cancelled"
  BY <1>2, <1>3, <1>4, <1>5, <1>8 DEF Agrees, Holding, Sure, Paying, Paid, Shut, Exists, Hosted
<1>9. CASE x.to \in {"refunding", "refunded", "captured"}
  BY <1>2, <1>3, <1>4, <1>5, <1>9 DEF Agrees, Sure, Paying, Paid, Exists, Hosted
<1>10. QED
  BY <1>2, <1>6, <1>7, <1>8, <1>9 DEF Moving, CallTargets

\* After the write the order is contended, or no other handler was at work on it.
LEMMA SaveContends ==
  ASSUME IInv, NEW c \in Calls, CallSave(c), NEW p, p = call[c].id
  PROVE  /\ contended \subseteq contended' /\ contended' \subseteq contended \cup {p}
         /\ Quiet(p)' => Quiet(p) /\ \A d \in Calls : d # c => ~AtWork(d, p)
BY DEF CallSave, Quiet

\* Nor does any other handler's knowledge go stale then.
LEMMA SaveBeside ==
  ASSUME IInv, NEW c \in Calls, CallSave(c), NEW d \in Calls, d # c, NEW p \in Ids, p = call[c].id,
         Exists(p), Exists(p)', order'[p].key = order[p].key, order'[p] = call[c].read,
         \A q \in Ids : q # p => order'[q] = order[q],
         UNCHANGED <<trade, unclosed>>, NEW y \in CallSet, y = call[d]
  PROVE  Handler(y)'
<1>1. Handler(y) /\ call[c].at = "save"
  BY DEF IInv, Handlers, CallSave
<1>2. /\ contended \subseteq contended'
      /\ Quiet(p)' => Quiet(p) /\ ~AtWork(d, p)
  BY SaveContends
<1>3. CASE y.at \in {"idle", "take", "loser"}
  BY <1>1, <1>3, HandlerWithout
<1>4. CASE y.id # p /\ y.at \notin {"idle", "take", "loser"}
  <2>1. y.id \in Ids
    BY <1>1, <1>4 DEF Handler, Opening, Holding, Early
  <2>2. QED
    BY <1>1, <1>2, <1>4, <2>1, HandlerElsewhere
<1>5. CASE y.id = p /\ ~Quiet(p)'
  BY <1>1, <1>5, HandlerContended
<1>6. CASE y.id = p /\ Quiet(p)' /\ y.at \notin {"idle", "take", "loser"}
  <2>1. Quiet(p) /\ y.at = "remap"
    <3>1. y.at \in Early
      BY <1>2, <1>6 DEF AtWork
    <3>2. y.at # "write"
      BY <1>1, <1>6 DEF Handler, Opening, Exists
    <3>3. QED
      BY <1>2, <1>6, <3>1, <3>2 DEF Early
  <2>2. Over(p)
    BY <1>1, <1>6, <2>1 DEF Handler, Opening
  <2>3. Over(p)'
    BY <1>1, <2>1, <2>2, SavedQuiet DEF Over
  <2>4. Opening(y)'
    BY <1>1, <1>6, <2>1, <2>3 DEF Handler, Opening
  <2>5. QED
    BY <1>1, <2>1, <2>4 DEF Handler, Early
<1>7. QED
  BY <1>3, <1>4, <1>5, <1>6

LEMMA SaveStep ==
  ASSUME IInv, NEW c \in Calls, CallSave(c)
  PROVE  IInv'
<1>1. PICK x \in CallSet : x = call[c] /\ Handler(x) /\ x.at = "save"
  BY DEF IInv, CallTypes, Handlers, CallSave
<1>2. PICK p \in Ids, o \in Orders, n \in Orders : p = x.id /\ o = order[p] /\ n = x.read
  BY <1>1, SavedIs
<1>3. /\ Exists(p) /\ n.key = o.key /\ n.status \notin {"absent", "authorized"} /\ n.status = x.to
      /\ x.to \in CallTargets
  BY <1>1, <1>2, SavedIs
<1>3a. Quiet(p) =>
      /\ o.coded => n.coded /\ n.status # "pending_pay"
      /\ n.status = "pending_pay" => n.coded
      /\ o.status \in Waiting => n.status = "cancelled"
      /\ o.status \in Repayable => n.status \in Repayable
      /\ n.status \in {"captured", "refunding"} => o.status \in {"captured", "refunding"}
  BY <1>1, <1>2, SavedQuiet
<1>3b. /\ contended \subseteq contended' /\ contended' \subseteq contended \cup {p}
      /\ \A q \in Ids : Quiet(q)' => Quiet(q)
  BY <1>1, <1>2, SaveContends DEF Quiet
<1>4. PICK g : g = AfterTransition(x)
  OBVIOUS
<1>5. /\ order' = [order EXCEPT ![p] = n] /\ call' = [call EXCEPT ![c] = g]
      /\ UNCHANGED <<idem, poll, late, trade, seen, worker, batch, receipt, unclosed, cut, torn, faults>>
  BY <1>1, <1>2, <1>4 DEF CallSave
<1>6. /\ g \in CallSet
      /\ \/ g = Idle /\ x.to \in {"refunded", "captured"}
         \/ /\ g.op = x.op /\ g.key = x.key /\ g.id = p /\ g.to = x.to
            /\ \/ g.at = "sched" /\ x.to = "pending_pay" /\ g.read = n
               \/ g.at = "unsched" /\ x.to \in {"failed", "cancelled"}
               \/ g.at = "refund" /\ x.to = "refunding"
  BY <1>2, <1>3, <1>4, AfterTransitionIs
<1>7. order'[p] = n /\ \A q \in Ids : q # p => order'[q] = order[q]
  BY <1>5 DEF IInv, StoreTypes
<1>8. n # Absent /\ n \in Reads
  BY <1>3, Records DEF Reads
<1>9. \A q \in Ids : (Exists(q)' <=> Exists(q)) /\ (order'[q].key = order[q].key) /\ (Hosted(q)' <=> Hosted(q))
  BY <1>2, <1>3, <1>7, <1>8 DEF Exists, Hosted
<1>10. /\ CallTypes' /\ call'[c] = g
       /\ \A d \in Calls : d # c => call'[d] = call[d]
  BY <1>5, <1>6, CallMoves DEF IInv
<1>11. StoreTypes' /\ RestTypes' /\ WorkerTypes'
  BY <1>3b, <1>5, <1>8 DEF IInv, StoreTypes, RestTypes, WorkerTypes
<1>12. Handler(g)'
  <2>1. Holding(x) /\ Moving(x) /\ x.op \in Ops /\ x.key \in Keys
    BY <1>1 DEF Handler, Early
  <2>2. CASE g = Idle
    BY <2>2, Records DEF Handler, Opening, Early
  <2>3. CASE g # Idle
    <3>1. Holding(g)' /\ Opening(g)'
      BY <1>2, <1>3, <1>6, <1>7, <1>8, <2>1, <2>3 DEF Holding, Moving, Opening, Early, Exists
    <3>2. Quiet(p)' => Knowing(g)'
      BY <1>3a, <1>3b, <1>3, <1>6, <1>7, <2>3 DEF Knowing
    <3>3. QED
      BY <1>6, <2>1, <2>3, <3>1, <3>2 DEF Handler
  <2>4. QED
    BY <2>2, <2>3
<1>13. ASSUME NEW d \in Calls PROVE Handler(call[d])'
  <2>1. CASE d = c
    BY <1>10, <1>12, <2>1
  <2>2. CASE d # c
    <3>1. PICK y \in CallSet : y = call[d] /\ y = call'[d]
      BY <1>10, <2>2 DEF IInv, CallTypes
    <3>2. Handler(y)'
      BY <1>1, <1>2, <1>3, <1>5, <1>7, <1>9, <2>2, <3>1, SaveBeside
    <3>3. QED
      BY <3>1, <3>2
  <2>3. QED
    BY <2>1, <2>2
<1>14. Writers'
  BY <1>1, <1>5, <1>6, Records, WritersStay
<1>15. Ledger'
  <2>1. ASSUME NEW q \in Ids, Quiet(q)' PROVE Agrees(q)'
    <3>1. Quiet(q)
      BY <1>3b, <2>1
    <3>2. CASE q = p
      BY <1>1, <1>2, <1>5, <1>7, <3>1, <3>2, SavedAgrees
    <3>3. CASE q # p
      <4>1. Agrees(q)
        BY <3>1 DEF IInv, Ledger
      <4>2. QED
        BY <1>5, <1>7, <3>3, <4>1 DEF Agrees, Exists, Hosted, Paid
    <3>4. QED
      BY <3>2, <3>3
  <2>2. \A q \in contended' : Exists(q)'
    <3>1. contended \subseteq Ids /\ \A q \in contended : Exists(q)
      BY DEF IInv, RestTypes, Ledger
    <3>2. QED
      BY <1>3b, <1>3, <1>9, <3>1
  <2>3. QED
    BY <2>1, <2>2 DEF Ledger
<1>16. \A d \in Calls : call'[d].at = "write" => call[d].at = "write" /\ call'[d] = call[d]
  BY <1>6, <1>10, Records
<1>17. ASSUME NEW j \in Keys PROVE Named(j)'
  <2>1. Named(j) /\ idem[j] \in Ids \cup {0}
    BY DEF IInv, KeysLead, StoreTypes
  <2>2. QED
    BY <1>5, <1>9, <1>16, <2>1 DEF Named
<1>18. ASSUME NEW j \in Keys \ torn' PROVE Keyed(j)'
  <2>1. Keyed(j)
    BY <1>5, <1>18 DEF IInv, KeysLead
  <2>2. \A q \in Ids : (Quiet(q) => Over(q)) => (Quiet(q)' => Over(q)')
    BY <1>3a, <1>3b, <1>2, <1>5, <1>7 DEF Over
  <2>3. QED
    BY <1>5, <1>9, <1>16, <2>1, <2>2 DEF Keyed
<1>19. \A q \in Ids : Quiet(q) =>
          /\ order[q].coded => order'[q].coded
          /\ order[q].coded /\ order[q].status # "pending_pay" => order'[q].status # "pending_pay"
          /\ order[q].status \in Waiting => order'[q].status \in Waiting
  BY <1>3a, <1>2, <1>7 DEF Waiting
<1>20. WorkerIs' /\ WorkerKnows'
  <2>1. WorkerIs'
    BY <1>5, <1>9 DEF IInv, WorkerIs, Paid, Shut
  <2>2. WorkerKnows'
    BY <1>3b, <1>5, <1>19 DEF IInv, WorkerIs, WorkerKnows
  <2>3. QED
    BY <2>1, <2>2
<1>21. BatchIs'
  <2>1. \A b \in batch : b.id \in Ids
    BY DEF IInv, WorkerTypes, ItemSet
  <2>2. QED
    BY <1>3b, <1>5, <1>9, <1>19, <2>1 DEF IInv, BatchIs
<1>22. Watch'
  <2>1. ASSUME NEW q \in Ids \ (cut \cup contended'), order'[q].status = "pending_pay"
        PROVE  q \in poll \/ \E d \in Calls : call'[d].at = "sched" /\ call'[d].id = q
    <3>1. CASE q = p
      BY <1>3, <1>6, <1>7, <1>10, <2>1, <3>1
    <3>2. CASE q # p
      BY <1>3b, <1>1, <1>7, <1>10, <2>1, <3>2 DEF IInv, Watch
    <3>3. QED
      BY <3>1, <3>2
  <2>2. ASSUME NEW q \in Ids \ (cut \cup contended'), order'[q].status \in {"captured", "refunding"}
        PROVE  q \in receipt \/ Announcing(q)
    BY <1>3a, <1>3b, <1>2, <1>7, <2>2 DEF IInv, Watch, Quiet
  <2>3. QED
    BY <1>5, <2>1, <2>2 DEF Watch, Announcing
<1>23. QED
  BY <1>10, <1>11, <1>13, <1>14, <1>15, <1>17, <1>18, <1>20, <1>21, <1>22
     DEF IInv, Handlers, KeysLead

\* A handler ends: the other handlers are where they were.
LEMMA CallEnds ==
  ASSUME IInv, NEW c \in Calls, call' = [call EXCEPT ![c] = Idle],
         UNCHANGED <<idem, order, trade, unclosed, torn, contended>>
  PROVE  /\ CallTypes' /\ Handlers' /\ Writers' /\ KeysLead'
         /\ call'[c] = Idle /\ \A d \in Calls : d # c => call'[d] = call[d]
<1>1. /\ CallTypes' /\ call'[c] = Idle
      /\ \A d \in Calls : d # c => call'[d] = call[d]
  BY IdleHandler, CallMoves DEF IInv
<1>2. ASSUME NEW d \in Calls PROVE Handler(call[d])'
  <2>1. PICK y : y = call'[d] /\ Handler(y)
    BY <1>1, IdleHandler DEF IInv, Handlers
  <2>2. Handler(y)'
    BY <2>1, HandlerStays
  <2>3. QED
    BY <2>1, <2>2
<1>3. Writers'
  BY IdleHandler, WritersStay
<1>4. KeysLead'
  BY <1>1, IdleHandler, KeysStay
<1>5. QED
  BY <1>1, <1>2, <1>3, <1>4 DEF Handlers

LEMMA ScheduleStep ==
  ASSUME IInv, NEW c \in Calls, CallSchedule(c)
  PROVE  IInv'
<1>1. PICK x \in CallSet : x = call[c] /\ Handler(x) /\ x.at = "sched"
  BY DEF IInv, CallTypes, Handlers, CallSchedule
<1>2. PICK p \in Ids : p = x.id /\ Exists(p) /\ (Quiet(p) => order[p].coded)
  BY <1>1 DEF Handler, Holding, Knowing, Early
<1>3. /\ poll' = poll \cup {p} /\ seen' \subseteq seen \cup {p}
      /\ call' = [call EXCEPT ![c] = Idle]
      /\ UNCHANGED <<idem, order, late, trade, worker, batch, receipt, unclosed, cut, torn, contended, faults>>
  BY <1>1, <1>2 DEF CallSchedule, history
<1>4. /\ CallTypes' /\ Handlers' /\ Writers' /\ KeysLead'
      /\ call'[c] = Idle /\ \A d \in Calls : d # c => call'[d] = call[d]
  BY <1>3, CallEnds
<1>5. StoreTypes' /\ RestTypes'
  BY <1>3 DEF IInv, StoreTypes, RestTypes
<1>6. Ledger'
  <2>1. ASSUME NEW q \in Ids, Quiet(q)' PROVE Agrees(q)'
    <3>1. Quiet(q) /\ Agrees(q)
      BY <1>3, <2>1 DEF IInv, Ledger, Quiet
    <3>2. QED
      BY <1>2, <1>3, <3>1 DEF Agrees, Exists, Hosted, Paid
  <2>2. QED
    BY <1>3, <2>1 DEF IInv, Ledger, Exists
<1>7. WorkerIs' /\ WorkerKnows' /\ BatchIs' /\ WorkerTypes'
  BY <1>3, WorkerStays
<1>8. Watch'
  BY <1>1, <1>2, <1>3, <1>4, WatchStays
<1>9. QED
  BY <1>4, <1>5, <1>6, <1>7, <1>8 DEF IInv

\* What is taken off the list is not waiting.
LEMMA UnscheduleStep ==
  ASSUME IInv, NEW c \in Calls, CallUnschedule(c)
  PROVE  IInv'
<1>1. PICK x \in CallSet : x = call[c] /\ Handler(x) /\ x.at = "unsched"
  BY DEF IInv, CallTypes, Handlers, CallUnschedule
<1>2. PICK p \in Ids : p = x.id /\ (Quiet(p) => order[p].status # "pending_pay")
  BY <1>1 DEF Handler, Holding, Knowing, Early
<1>3. /\ poll' = poll \ {p} /\ call' = [call EXCEPT ![c] = Idle]
      /\ UNCHANGED <<idem, order, late, trade, seen, worker, batch, receipt, unclosed, cut, torn, contended, faults>>
  BY <1>1, <1>2 DEF CallUnschedule, history
<1>4. /\ CallTypes' /\ Handlers' /\ Writers' /\ KeysLead'
      /\ call'[c] = Idle /\ \A d \in Calls : d # c => call'[d] = call[d]
  BY <1>3, CallEnds
<1>5. StoreTypes' /\ RestTypes'
  BY <1>3 DEF IInv, StoreTypes, RestTypes
<1>6. Ledger'
  BY <1>3, LedgerStays
<1>7. WorkerIs' /\ WorkerKnows' /\ BatchIs' /\ WorkerTypes'
  BY <1>3, WorkerStays
<1>8. Watch'
  <2>1. ASSUME NEW q \in Ids \ (cut \cup contended), order[q].status = "pending_pay"
        PROVE  q \in poll' \/ \E d \in Calls : call'[d].at = "sched" /\ call'[d].id = q
    BY <1>1, <1>2, <1>3, <1>4, <2>1 DEF IInv, Watch, Quiet
  <2>2. ASSUME NEW q \in Ids \ (cut \cup contended), order[q].status \in {"captured", "refunding"}
        PROVE  q \in receipt \/ Announcing(q)
    BY <2>2 DEF IInv, Watch
  <2>3. QED
    BY <1>3, <2>1, <2>2 DEF Watch, Announcing
<1>9. QED
  BY <1>4, <1>5, <1>6, <1>7, <1>8 DEF IInv

LEMMA CutCallStep ==
  ASSUME IInv, NEW c \in Calls, CutCall(c)
  PROVE  IInv'
<1>1. /\ call' = [call EXCEPT ![c] = Idle]
      /\ cut' = IF call[c].at = "sched" THEN cut \cup {call[c].id} ELSE cut
      /\ UNCHANGED <<gateway, late, trade, seen, worker, batch, receipt, unclosed, torn, contended>>
  BY DEF CutCall
<1>2. call[c].at = "sched" => call[c].id \in Ids
  BY DEF IInv, Handlers, Handler, Holding, Early
<1>3. Writers'
  BY <1>1, IdleHandler, WritersStay
<1>4. faults' \in 0 .. MaxFaults
  BY BoundsAssumption DEF CutCall, IInv, RestTypes
<1>5. /\ cut \subseteq cut' /\ cut' \subseteq Ids /\ torn \subseteq torn' /\ torn' \subseteq Keys
      /\ call[c].at = "sched" => call[c].id \in cut'
  BY <1>1, <1>2 DEF IInv, RestTypes
<1>6. QED
  BY <1>1, <1>3, <1>4, <1>5, IdleHandler, CallOnly

(***************************************************************************)
(* The polling worker.                                                     *)
(***************************************************************************)
\* The worker leaves an order, for the next one or for the end of its tick.
Left(w, b) ==
    /\ w \in WorkerSet /\ w.at \in {"idle", "next"} /\ w.id = 0
    /\ w.at = "idle" => b = {}

LEMMA LeavesIs == Left(NextOrEnd, batch) /\ Left(Asleep, {}) /\ \A b : b # {} => Left([Asleep EXCEPT !.at = "next"], b)
BY Records DEF Left, NextOrEnd

\* The worker moves and no order, trade or handler does.
LEMMA WorkerOnly ==
  ASSUME IInv, UNCHANGED <<idem, order, late, trade, seen, call, unclosed, torn, contended>>,
         poll' \subseteq Ids, faults' \in 0 .. MaxFaults, receipt' \subseteq Ids, cut' \subseteq Ids,
         \A p \in poll' \ poll : Quiet(p) => order[p].coded
  PROVE  /\ StoreTypes' /\ CallTypes' /\ RestTypes' /\ Handlers' /\ Writers' /\ Ledger' /\ KeysLead'
<1>1. StoreTypes' /\ RestTypes'
  BY DEF IInv, StoreTypes, RestTypes
<1>2. CallTypes' /\ Handlers' /\ Writers' /\ KeysLead'
  BY CallsStay
<1>3. ASSUME NEW q \in Ids, Quiet(q)' PROVE Agrees(q)'
  <2>1. Quiet(q) /\ Agrees(q)
    BY <1>3 DEF IInv, Ledger, Quiet
  <2>2. QED
    BY <2>1 DEF Agrees, Exists, Hosted, Paid
<1>4. Ledger'
  BY <1>3 DEF IInv, Ledger, Exists
<1>5. QED
  BY <1>1, <1>2, <1>4

\* Nobody is forgotten when the list loses no waiting order and the worker leaves
\* no payment unannounced.
LEMMA WatchKeeps ==
  ASSUME IInv, UNCHANGED <<order, call, contended>>, cut \subseteq cut', receipt \subseteq receipt',
         \A p \in poll \ poll' : p \in Ids /\ Quiet(p) => order[p].status # "pending_pay",
         \A p \in Ids : Announcing(p) => p \in receipt' \cup cut' \/ Announcing(p)'
  PROVE  Watch'
<1>1. ASSUME NEW p \in Ids \ (cut' \cup contended'), order[p].status = "pending_pay"
      PROVE  p \in poll' \/ \E c \in Calls : call[c].at = "sched" /\ call[c].id = p
  BY <1>1 DEF IInv, Watch, Quiet
<1>2. ASSUME NEW p \in Ids \ (cut' \cup contended'), order[p].status \in {"captured", "refunding"}
      PROVE  p \in receipt' \/ Announcing(p)'
  <2>1. p \in receipt \/ Announcing(p)
    BY <1>2 DEF IInv, Watch
  <2>2. QED
    BY <1>2, <2>1
<1>3. QED
  BY <1>1, <1>2 DEF Watch

LEMMA LeftIs ==
  ASSUME NEW w, NEW b, Left(w, b), b \subseteq ItemSet, worker' = w, batch' = b
  PROVE  WorkerTypes' /\ WorkerIs' /\ WorkerKnows' /\ \A p \in Ids : ~Announcing(p)'
<1>1. w.at \in {"idle", "next"} /\ 0 \notin Ids
  BY OrdersAssumption DEF Left, Ids
<1>2. QED
  BY <1>1 DEF Left, WorkerTypes, WorkerIs, WorkerKnows, Announcing

\* An order as a tick finds it on the list.
Item(p) == [id |-> p, pending |-> order[p].status = "pending_pay", late |-> p \in late]

LEMMA ItemIs ==
  ASSUME NEW p \in Ids
  PROVE  /\ Item(p) \in ItemSet /\ Item(p).id = p
         /\ Item(p).pending <=> order[p].status = "pending_pay"
<1>1. PICK l, m : l = (order[p].status = "pending_pay") /\ m = (p \in late)
  OBVIOUS
<1>2. Item(p) = [id |-> p, pending |-> l, late |-> m]
  BY <1>1, Zenon DEF Item
<1>3. l \in BOOLEAN /\ m \in BOOLEAN
  BY <1>1
<1>4. l <=> order[p].status = "pending_pay"
  BY <1>1
<1>5. QED
  BY <1>2, <1>3, <1>4 DEF ItemSet

LEMMA TickStep ==
  ASSUME IInv, WorkerTick
  PROVE  IInv'
<1>1. PICK over : over = {p \in poll : ~Exists(p) \/ order[p].status \in Terminal}
  OBVIOUS
<1>2. /\ worker.at = "idle" /\ poll' = poll \ over
      /\ batch' = {Item(p) : p \in poll \ over}
      /\ worker' = IF poll = over THEN Asleep ELSE [Asleep EXCEPT !.at = "next"]
      /\ UNCHANGED <<idem, order, late, trade, seen, call, receipt, history, faults>>
  BY <1>1, Zenon DEF WorkerTick, Item
<1>3. poll \subseteq Ids
  BY DEF IInv, StoreTypes
<1>4. ASSUME NEW b \in batch'
      PROVE  /\ b \in ItemSet /\ b.id \in poll
             /\ b.pending <=> order[b.id].status = "pending_pay"
             /\ b = Item(b.id)
  <2>1. PICK p \in poll : b = Item(p)
    BY <1>2, <1>4
  <2>2. Item(p) \in ItemSet /\ Item(p).id = p /\ (Item(p).pending <=> order[p].status = "pending_pay")
    BY <1>3, ItemIs
  <2>3. QED
    BY <2>1, <2>2
<1>5. batch' \subseteq ItemSet /\ (poll = over => batch' = {})
  BY <1>2, <1>4
<1>6. Left(worker', batch')
  BY <1>2, <1>5, Records DEF Left
<1>7. WorkerTypes' /\ WorkerIs' /\ WorkerKnows' /\ \A p \in Ids : ~Announcing(p)'
  BY <1>5, <1>6, LeftIs
<1>8. BatchIs'
  <2>1. \A a, b \in batch' : a.id = b.id => a = b
    BY <1>4
  <2>2. ASSUME NEW b \in batch'
        PROVE  /\ Exists(b.id)
               /\ Quiet(b.id) => /\ order[b.id].coded
                                 /\ b.pending => order[b.id].status \in Waiting
                                 /\ ~b.pending => order[b.id].status # "pending_pay"
    <3>1. b.id \in Ids /\ (Quiet(b.id) => order[b.id].coded)
      BY <1>3, <1>4 DEF IInv, Ledger, Agrees
    <3>2. Exists(b.id)
      <4>1. PICK p \in poll \ over : b = Item(p)
        BY <1>2
      <4>2. p = b.id /\ p \in Ids /\ Exists(p)
        BY <1>1, <1>3, <4>1, ItemIs
      <4>3. QED
        BY <4>2
    <3>3. QED
      BY <1>4, <3>1, <3>2 DEF Waiting
  <2>3. order' = order /\ contended' = contended
    BY <1>2 DEF history
  <2>4. QED
    BY <2>1, <2>2, <2>3 DEF BatchIs, Exists, Quiet
<1>9. /\ poll' \subseteq Ids /\ poll' \subseteq poll /\ faults' \in 0 .. MaxFaults
      /\ receipt' \subseteq Ids /\ cut' \subseteq Ids /\ UNCHANGED <<unclosed, torn, cut, contended>>
  BY <1>2, <1>3 DEF IInv, RestTypes, history
<1>10. /\ StoreTypes' /\ CallTypes' /\ RestTypes' /\ Handlers' /\ Writers' /\ Ledger' /\ KeysLead'
  BY <1>2, <1>9, WorkerOnly
<1>11. \A p \in poll \ poll' : order[p].status # "pending_pay"
  <2>1. ASSUME NEW p \in poll \ poll' PROVE order[p].status # "pending_pay"
    <3>1. p \in Ids /\ p \in over
      BY <1>2, <1>3, <2>1
    <3>2. CASE ~Exists(p)
      BY <3>2, Records DEF Exists
    <3>3. CASE order[p].status \in Terminal
      BY <3>3 DEF Terminal
    <3>4. QED
      BY <1>1, <3>1, <3>2, <3>3
  <2>2. QED
    BY <2>1
<1>12. \A p \in Ids : ~Announcing(p)
  BY <1>2 DEF Announcing
<1>13. Watch'
  BY <1>2, <1>9, <1>11, <1>12, WatchKeeps
<1>14. QED
  BY <1>7, <1>8, <1>10, <1>13 DEF IInv

\* The worker takes its next order off the batch.
LEMMA TakesIs ==
  ASSUME IInv, NEW b \in batch, batch' = batch \ {b}, UNCHANGED <<order, contended>>
  PROVE  /\ BatchIs' /\ batch' \subseteq ItemSet /\ b.id \in Ids /\ b \in ItemSet
         /\ Exists(b.id) /\ \A a \in batch' : a.id # b.id
         /\ Quiet(b.id) => /\ order[b.id].coded
                           /\ b.pending => order[b.id].status \in Waiting
                           /\ ~b.pending => order[b.id].status # "pending_pay"
<1>1. BatchIs /\ batch \subseteq ItemSet
  BY DEF IInv, WorkerTypes
<1>2. BatchIs'
  BY <1>1 DEF BatchIs, Exists, Quiet
<1>3. QED
  BY <1>1, <1>2 DEF BatchIs, ItemSet

\* The worker stands at an order it has found waiting.
At(w, to, l, p) == [at |-> w, id |-> p, to |-> to, read |-> Absent, late |-> l]

LEMMA TakeItemStep ==
  ASSUME IInv, NEW b \in batch, WorkerTake(b)
  PROVE  IInv'
<1>1. /\ worker.at = "next" /\ batch' = batch \ {b}
      /\ UNCHANGED <<idem, order, late, trade, seen, call, receipt, history, faults>>
      /\ contended' = contended
  BY DEF WorkerTake, history
<1>2. PICK rest : rest = IF batch = {b} THEN Asleep ELSE [Asleep EXCEPT !.at = "next"]
  OBVIOUS
<1>3. /\ BatchIs' /\ batch' \subseteq ItemSet /\ b.id \in Ids /\ b \in ItemSet
      /\ Exists(b.id) /\ \A a \in batch' : a.id # b.id
      /\ Quiet(b.id) => /\ order[b.id].coded
                        /\ b.pending => order[b.id].status \in Waiting
                        /\ ~b.pending => order[b.id].status # "pending_pay"
  BY <1>1, TakesIs
<1>4. Left(rest, batch')
  BY <1>1, <1>2, Records DEF Left
<1>5. \/ /\ ~b.pending /\ poll' = poll \ {b.id} /\ worker' = rest
      \/ poll' = poll \cup {b.id} /\ worker' = rest
      \/ /\ b.pending /\ Hosted(b.id) /\ poll' = poll
         /\ worker' = At("read", "expired", FALSE, b.id)
      \/ /\ b.pending /\ ~Hosted(b.id) /\ poll' = poll
         /\ worker' = At("query", "-", b.late, b.id)
  BY <1>2 DEF WorkerTake, At, Lapsed
<1>6. WorkerTypes' /\ WorkerIs' /\ WorkerKnows' /\ \A p \in Ids : ~Announcing(p)'
  <2>1. CASE worker' = rest
    BY <1>3, <1>4, <2>1, LeftIs
  <2>2. CASE b.pending /\ Hosted(b.id) /\ worker' = At("read", "expired", FALSE, b.id)
    <3>1. PICK w : w = At("read", "expired", FALSE, b.id)
      OBVIOUS
    <3>2. w \in WorkerSet /\ w.at = "read" /\ w.to = "expired" /\ w.id = b.id
      BY <1>3, <3>1, Records DEF At, WorkerSet, WorkerSites, Targets, AllowedFrom
    <3>3. worker' = w
      BY <2>2, <3>1
    <3>4. WorkerTypes' /\ \A p \in Ids : ~Announcing(p)'
      BY <1>3, <3>2, <3>3 DEF WorkerTypes, Announcing
    <3>5. WorkerIs' /\ WorkerKnows'
      BY <1>1, <1>3, <2>2, <3>2, <3>3 DEF WorkerIs, WorkerKnows, Exists, Hosted, Quiet
    <3>6. QED
      BY <3>4, <3>5
  <2>3. CASE b.pending /\ ~Hosted(b.id) /\ worker' = At("query", "-", b.late, b.id)
    <3>1. PICK w : w = At("query", "-", b.late, b.id)
      OBVIOUS
    <3>2. w \in WorkerSet /\ w.at = "query" /\ w.to = "-" /\ w.id = b.id
      BY <1>3, <3>1, Records DEF At, WorkerSet, WorkerSites, Targets, AllowedFrom, ItemSet
    <3>3. worker' = w
      BY <2>3, <3>1
    <3>4. WorkerTypes' /\ \A p \in Ids : ~Announcing(p)'
      BY <1>3, <3>2, <3>3 DEF WorkerTypes, Announcing
    <3>5. WorkerIs' /\ WorkerKnows'
      BY <1>1, <1>3, <2>3, <3>2, <3>3 DEF WorkerIs, WorkerKnows, Exists, Hosted, Quiet
    <3>6. QED
      BY <3>4, <3>5
  <2>4. QED
    BY <1>5, <2>1, <2>2, <2>3
<1>7. /\ poll' \subseteq Ids /\ faults' \in 0 .. MaxFaults /\ receipt' \subseteq Ids /\ cut' \subseteq Ids
      /\ UNCHANGED <<unclosed, torn, cut, contended>>
      /\ \A p \in poll' \ poll : Quiet(p) => order[p].coded
      /\ \A p \in poll \ poll' : Quiet(p) => order[p].status # "pending_pay"
  BY <1>1, <1>3, <1>5 DEF IInv, StoreTypes, RestTypes, history
<1>8. /\ StoreTypes' /\ CallTypes' /\ RestTypes' /\ Handlers' /\ Writers' /\ Ledger' /\ KeysLead'
  BY <1>1, <1>7, WorkerOnly
<1>9. \A p \in Ids : ~Announcing(p)
  BY <1>1 DEF Announcing
<1>10. Watch'
  BY <1>1, <1>7, <1>9, WatchKeeps
<1>11. QED
  BY <1>3, <1>6, <1>8, <1>10 DEF IInv

\* Where the worker stands with its order.
LEMMA WorkerHolds ==
  ASSUME IInv, worker.at \notin {"idle", "next"}
  PROVE  /\ worker \in WorkerSet /\ worker.id \in Ids /\ Exists(worker.id)
         /\ order[worker.id] \in Orders
         /\ Quiet(worker.id) => Agrees(worker.id) /\ order[worker.id].coded
         /\ \A b \in batch : b.id # worker.id
         /\ batch \subseteq ItemSet
<1>1. worker.id \in Ids /\ worker \in WorkerSet /\ batch \subseteq ItemSet
  BY DEF IInv, WorkerIs, WorkerTypes
<1>2. Exists(worker.id) /\ \A b \in batch : b.id # worker.id
  BY DEF IInv, WorkerIs
<1>3. Quiet(worker.id) => Agrees(worker.id) /\ order[worker.id].coded
  BY <1>1 DEF IInv, Ledger, WorkerKnows
<1>4. order[worker.id] \in Orders
  BY <1>1, <1>2, OrderIs DEF IInv
<1>5. QED
  BY <1>1, <1>2, <1>3, <1>4

\* The worker goes on with its order, from an await to the next.
Onward(w, at, to) == [w EXCEPT !.at = at, !.to = to, !.late = FALSE]

LEMMA OnwardIs ==
  ASSUME NEW w \in WorkerSet, NEW at \in WorkerSites, NEW to \in Targets,
         NEW x, x = Onward(w, at, to)
  PROVE  x \in WorkerSet /\ x.at = at /\ x.to = to /\ x.id = w.id /\ x.read = w.read
BY DEF Onward, WorkerSet

LEMMA SitesIs ==
  /\ {"captured", "cancelled", "expired"} \subseteq Targets
  /\ {"read", "close", "save", "unsched", "notify"} \subseteq WorkerSites
BY DEF Targets, AllowedFrom, WorkerSites

\* A step of the worker alone, in which it announces nothing yet.
LEMMA WorkerMoves ==
  ASSUME IInv, UNCHANGED <<idem, order, late, trade, seen, call, batch, receipt, history>>,
         poll' \subseteq Ids, faults' \in 0 .. MaxFaults,
         \A p \in poll' \ poll : Quiet(p) => order[p].coded,
         \A p \in poll \ poll' : Quiet(p) => order[p].status # "pending_pay",
         \A p \in Ids : Announcing(p) => Announcing(p)',
         WorkerTypes', WorkerIs', WorkerKnows'
  PROVE  IInv'
<1>1. /\ receipt' \subseteq Ids /\ cut' \subseteq Ids /\ UNCHANGED <<unclosed, torn, cut, contended>>
  BY DEF IInv, RestTypes, history
<1>2. /\ StoreTypes' /\ CallTypes' /\ RestTypes' /\ Handlers' /\ Writers' /\ Ledger' /\ KeysLead'
  BY <1>1, WorkerOnly
<1>3. BatchIs'
  BY DEF IInv, BatchIs, Exists, Quiet, history
<1>4. Watch'
  BY <1>1, WatchKeeps
<1>5. QED
  BY <1>2, <1>3, <1>4 DEF IInv

LEMMA QueryStep ==
  ASSUME IInv, WorkerQuery
  PROVE  IInv'
<1>1. PICK w \in WorkerSet, p \in Ids : w = worker /\ w.at = "query" /\ p = w.id
  BY WorkerHolds DEF WorkerQuery
<1>2. /\ Exists(p) /\ ~Hosted(p)
      /\ Quiet(p) => order[p].coded /\ order[p].status \in Waiting
      /\ \A b \in batch : b.id # p
      /\ batch \subseteq ItemSet
  BY <1>1, WorkerHolds DEF IInv, WorkerIs, WorkerKnows
<1>3. UNCHANGED <<idem, order, late, trade, seen, call, batch, receipt, history>> /\ contended' = contended
  BY DEF WorkerQuery, history
<1>4. /\ \A q \in Ids : ~Announcing(q)
      /\ poll \subseteq Ids /\ faults \in 0 .. MaxFaults
  BY <1>1 DEF Announcing, IInv, StoreTypes, RestTypes
<1>5. CASE /\ poll' = poll \cup {p} /\ worker' = NextOrEnd
           /\ faults' \in {faults, faults + 1} /\ faults' \in 0 .. MaxFaults
  <2>1. WorkerTypes' /\ WorkerIs' /\ WorkerKnows' /\ \A q \in Ids : ~Announcing(q)'
    BY <1>2, <1>3, <1>5, LeavesIs, LeftIs
  <2>2. QED
    BY <1>2, <1>3, <1>4, <1>5, <2>1, WorkerMoves
<1>6. CASE \E at \in {"read", "close"}, to \in {"captured", "cancelled", "expired"} :
             /\ at = "close" => to = "expired"
             /\ at = "read" => (to = "captured" /\ trade[p] = "paid") \/ (to = "cancelled" /\ trade[p] = "closed")
             /\ worker' = Onward(w, at, to) /\ UNCHANGED <<poll, faults>>
  <2>1. PICK at \in {"read", "close"}, to \in {"captured", "cancelled", "expired"} :
             /\ at = "close" => to = "expired"
             /\ at = "read" => (to = "captured" /\ trade[p] = "paid") \/ (to = "cancelled" /\ trade[p] = "closed")
             /\ worker' = Onward(w, at, to) /\ UNCHANGED <<poll, faults>>
    BY <1>6
  <2>2. PICK x : x = Onward(w, at, to)
    OBVIOUS
  <2>3. x \in WorkerSet /\ x.at = at /\ x.to = to /\ x.id = p /\ worker' = x
    <3>1. at \in WorkerSites /\ to \in Targets
      BY SitesIs
    <3>2. x \in WorkerSet /\ x.at = at /\ x.to = to /\ x.id = w.id
      BY <2>2, <3>1, OnwardIs
    <3>3. worker' = x
      BY <2>1, <2>2
    <3>4. QED
      BY <1>1, <3>2, <3>3
  <2>4. WorkerTypes'
    BY <1>2, <1>3, <2>3 DEF WorkerTypes
  <2>5. WorkerIs' /\ WorkerKnows'
    BY <1>2, <1>3, <2>1, <2>3 DEF WorkerIs, WorkerKnows, Exists, Hosted, Paid, Shut, Quiet
  <2>6. QED
    BY <1>3, <1>4, <2>1, <2>4, <2>5, WorkerMoves
<1>7. QED
  <2>1. faults < MaxFaults /\ faults' = faults + 1 => faults' \in 0 .. MaxFaults
    BY <1>4, BoundsAssumption
  <2>2. \A s \in {"captured", "cancelled"} :
          worker' = [worker EXCEPT !.at = "read", !.to = s, !.late = FALSE] =>
            worker' = Onward(w, "read", s)
    BY <1>1 DEF Onward
  <2>3. worker' = [worker EXCEPT !.at = "close", !.to = "expired", !.late = FALSE] =>
            worker' = Onward(w, "close", "expired")
    BY <1>1 DEF Onward
  <2>4. QED
    BY <1>1, <1>4, <1>5, <1>6, <2>1, <2>2, <2>3 DEF WorkerQuery

LEMMA WorkerCloseStep ==
  ASSUME IInv, WorkerClose
  PROVE  IInv'
<1>1. PICK w \in WorkerSet, p \in Ids : w = worker /\ w.at = "close" /\ p = w.id
  BY WorkerHolds DEF WorkerClose
<1>2. /\ Exists(p) /\ w.to = "expired" /\ ~Hosted(p)
      /\ Quiet(p) => order[p].coded /\ order[p].status \in Waiting
      /\ \A b \in batch : b.id # p
      /\ batch \subseteq ItemSet
  BY <1>1, WorkerHolds DEF IInv, WorkerIs, WorkerKnows
<1>3. /\ CloseTrade(p) /\ worker' = [worker EXCEPT !.at = "read"]
      /\ UNCHANGED <<gateway, late, seen, call, batch, receipt, cut, torn, contended, faults>>
  BY <1>1 DEF WorkerClose
<1>4. PICK x : x = [w EXCEPT !.at = "read"]
  OBVIOUS
<1>5. x \in WorkerSet /\ x.at = "read" /\ x.to = "expired" /\ x.id = p /\ worker' = x
  BY <1>1, <1>2, <1>3, <1>4, SitesIs DEF WorkerSet
<1>6. /\ \E v \in Trades : /\ trade' = [trade EXCEPT ![p] = v]
                           /\ trade[p] = v \/ (trade[p] = "coded" /\ v = "closed")
      /\ unclosed \subseteq unclosed' /\ unclosed' \subseteq Ids /\ Shut(p)'
  BY <1>2, <1>3, CloseIs
<1>7. StoreTypes' /\ Ledger' /\ BatchIs'
  BY <1>2, <1>3, <1>6, ChannelOnly
<1>8. CallTypes' /\ Handlers' /\ Writers' /\ KeysLead'
  <2>1. \A q \in Ids : trade[q] \in {"closed", "refunded"} => trade'[q] = trade[q]
    BY <1>6 DEF IInv, StoreTypes
  <2>2. QED
    BY <1>3, <1>6, <2>1, CallsStay DEF gateway
<1>9. RestTypes'
  BY <1>3, <1>6 DEF IInv, RestTypes
<1>10. WorkerTypes' /\ WorkerIs' /\ WorkerKnows'
  BY <1>2, <1>3, <1>5, <1>6 DEF WorkerTypes, WorkerIs, WorkerKnows, Exists, Hosted, Quiet, gateway
<1>11. Watch'
  <2>1. \A q \in Ids : ~Announcing(q)
    BY <1>1 DEF Announcing
  <2>2. QED
    BY <1>3, <2>1, WatchKeeps DEF gateway
<1>12. QED
  BY <1>7, <1>8, <1>9, <1>10, <1>11 DEF IInv

LEMMA WorkerReadStep ==
  ASSUME IInv, WorkerRead
  PROVE  IInv'
<1>1. PICK w \in WorkerSet, p \in Ids, o \in Orders :
        w = worker /\ w.at = "read" /\ p = w.id /\ o = order[p]
  BY WorkerHolds DEF WorkerRead
<1>2. /\ Exists(p) /\ (Quiet(p) => o.coded /\ o.status \in Waiting)
      /\ w.to \in {"captured", "cancelled", "expired"}
      /\ IF w.to = "captured" THEN Paid(p) ELSE Hosted(p) \/ Shut(p)
      /\ \A b \in batch : b.id # p
      /\ batch \subseteq ItemSet
  BY <1>1, WorkerHolds DEF IInv, WorkerIs, WorkerKnows
<1>3. UNCHANGED <<gateway, late, trade, seen, call, batch, receipt, history, faults>> /\ contended' = contended
  BY DEF WorkerRead, history
<1>4. /\ \A q \in Ids : ~Announcing(q)
      /\ poll \subseteq Ids /\ faults \in 0 .. MaxFaults
  BY <1>1 DEF Announcing, IInv, StoreTypes, RestTypes
<1>5. PICK m \in Orders : /\ m = Moved(o, w.to) /\ m.status = w.to /\ m.key = o.key
                          /\ m.coded <=> o.coded \/ w.to = "pending_pay"
  BY <1>2, MovedIs DEF Statuses
<1>6. \/ worker' = [w EXCEPT !.at = "unsched"] /\ o.status = w.to
      \/ worker' = [w EXCEPT !.at = "save", !.read = m]
      \/ worker' = NextOrEnd
  BY <1>1, <1>5 DEF WorkerRead
<1>7. CASE worker' = [w EXCEPT !.at = "unsched"] /\ o.status = w.to
  <2>1. PICK x : x = [w EXCEPT !.at = "unsched"]
    OBVIOUS
  <2>2. x \in WorkerSet /\ x.at = "unsched" /\ x.to = w.to /\ x.id = p /\ worker' = x
    BY <1>1, <1>7, <2>1, SitesIs DEF WorkerSet
  <2>3. WorkerTypes' /\ WorkerIs' /\ WorkerKnows'
    BY <1>1, <1>2, <1>3, <1>7, <2>2 DEF WorkerTypes, WorkerIs, WorkerKnows, Exists, Quiet, gateway
  <2>4. QED
    BY <1>3, <1>4, <2>3, WorkerMoves DEF gateway
<1>8. CASE worker' = [w EXCEPT !.at = "save", !.read = m]
  <2>1. PICK x : x = [w EXCEPT !.at = "save", !.read = m]
    OBVIOUS
  <2>2. m \in Reads
    BY DEF Reads
  <2>3. x \in WorkerSet /\ x.at = "save" /\ x.to = w.to /\ x.id = p /\ x.read = m /\ worker' = x
    BY <1>1, <1>8, <2>1, <2>2, SitesIs DEF WorkerSet
  <2>4. WorkerTypes' /\ WorkerIs' /\ WorkerKnows'
    BY <1>1, <1>2, <1>3, <1>5, <2>3
       DEF WorkerTypes, WorkerIs, WorkerKnows, Exists, Hosted, Paid, Shut, Quiet, gateway, history
  <2>5. QED
    BY <1>3, <1>4, <2>4, WorkerMoves DEF gateway
<1>9. CASE worker' = NextOrEnd
  <2>1. WorkerTypes' /\ WorkerIs' /\ WorkerKnows'
    BY <1>2, <1>3, <1>9, LeavesIs, LeftIs
  <2>2. QED
    BY <1>3, <1>4, <2>1, WorkerMoves DEF gateway
<1>10. QED
  BY <1>6, <1>7, <1>8, <1>9

\* The worker ends an order, one that waits unless it is contended.
Ends(p, n) ==
    /\ order' = [order EXCEPT ![p] = n]
    /\ Exists(p) /\ n.key = order[p].key /\ n.status \in {"captured", "cancelled", "expired"}
    /\ Quiet(p) => order[p].status \in Waiting /\ order[p].coded /\ n.coded
    /\ IF n.status = "captured" THEN Paid(p) ELSE Hosted(p) \/ Shut(p)
    /\ UNCHANGED <<idem, poll, late, trade, seen, call, batch, receipt, history, faults>>

LEMMA EndsIs ==
  ASSUME IInv, NEW p \in Ids, NEW n \in Orders, Ends(p, n)
  PROVE  /\ order'[p] = n /\ \A q \in Ids : q # p => order'[q] = order[q]
         /\ \A q \in Ids : /\ (Exists(q)' <=> Exists(q)) /\ (Hosted(q)' <=> Hosted(q))
                           /\ order'[q].key = order[q].key
         /\ \A q \in Ids : Quiet(q) /\ Over(q) => Over(q)'
<1>1. order'[p] = n /\ \A q \in Ids : q # p => order'[q] = order[q]
  BY DEF Ends, IInv, StoreTypes
<1>2. n.status # "absent" /\ n # Absent /\ Exists(p)
  BY Records DEF Ends
<1>3. \A q \in Ids : /\ (Exists(q)' <=> Exists(q)) /\ (Hosted(q)' <=> Hosted(q))
                     /\ order'[q].key = order[q].key
  BY <1>1, <1>2 DEF Ends, Exists, Hosted
<1>4. Quiet(p) /\ Over(p) => Over(p)'
  <2>1. (Quiet(p) => Agrees(p)) /\ unclosed' = unclosed
    BY DEF IInv, Ledger, Ends, history
  <2>2. QED
    BY <1>1, <2>1 DEF Ends, Over, Agrees, Paying, Waiting, Repayable
<1>5. \A q \in Ids : q # p /\ Over(q) => Over(q)'
  BY <1>1 DEF Over, Ends, history
<1>6. QED
  BY <1>1, <1>3, <1>4, <1>5

\* No handler relied on its waiting.
LEMMA HandlerEnds ==
  ASSUME IInv, NEW p \in Ids, NEW n \in Orders, Ends(p, n), NEW h, Handler(h), h.id = p
  PROVE  Handler(h)'
<1>1. /\ order'[p] = n /\ (Quiet(p) /\ Over(p) => Over(p)') /\ Exists(p)' /\ Exists(p)
      /\ order'[p].key = order[p].key
  BY EndsIs DEF Ends
<1>2. UNCHANGED <<trade, unclosed, contended>>
  BY DEF Ends, history
<1>3. CASE ~Quiet(p)
  <2>1. ~Quiet(h.id)'
    BY <1>2, <1>3 DEF Quiet
  <2>2. QED
    BY <1>1, <2>1, HandlerContended
<1>4. CASE Quiet(p)
  <2>1. n.status \notin {"authorized", "pending_pay", "absent"} /\ order[p].status \in Waiting
        /\ n.key = order[p].key /\ n.coded /\ order[p].coded
    BY <1>4 DEF Ends
  <2>2. Opening(h)'
    BY <1>1, <1>4, <2>1 DEF Handler, Opening, Exists
  <2>3. h.at \notin Early \cup {"idle"} => Holding(h)' /\ Knowing(h)'
    BY <1>1, <1>4, <2>1 DEF Handler, Holding, Knowing, Waiting
  <2>4. h.at \in {"read", "save"} => Moving(h)' /\ Sure(h)'
    BY <1>1, <1>2, <1>4, <2>1 DEF Handler, Moving, Sure, Waiting, Shut
  <2>5. QED
    BY <2>2, <2>3, <2>4 DEF Handler
<1>5. QED
  BY <1>3, <1>4

LEMMA WorkerSaveStep ==
  ASSUME IInv, WorkerSave
  PROVE  IInv'
<1>1. PICK w \in WorkerSet, p \in Ids, o \in Orders :
        w = worker /\ w.at = "save" /\ p = w.id /\ o = order[p]
  BY WorkerHolds DEF WorkerSave
<1>2. PICK n \in Orders :
        /\ n = w.read /\ n.status = w.to /\ n.key = o.key /\ Exists(p)
        /\ Quiet(p) => n.coded /\ o.coded /\ o.status \in Waiting
        /\ w.to \in {"captured", "cancelled", "expired"}
        /\ IF w.to = "captured" THEN Paid(p) ELSE Hosted(p) \/ Shut(p)
  BY <1>1, WorkerHolds DEF IInv, WorkerIs, WorkerKnows
<1>3. (\A b \in batch : b.id # p) /\ batch \subseteq ItemSet
  BY <1>1, WorkerHolds
<1>4. Ends(p, n)
  BY <1>1, <1>2 DEF WorkerSave, Ends
<1>5. /\ order'[p] = n /\ \A q \in Ids : q # p => order'[q] = order[q]
      /\ \A q \in Ids : /\ (Exists(q)' <=> Exists(q)) /\ (Hosted(q)' <=> Hosted(q))
                        /\ order'[q].key = order[q].key
      /\ \A q \in Ids : Quiet(q) /\ Over(q) => Over(q)'
  BY <1>4, EndsIs
<1>6. UNCHANGED <<idem, poll, late, trade, seen, call, batch, receipt, unclosed, cut, torn, contended, faults>>
  BY DEF WorkerSave, history
<1>7. PICK x : x = [w EXCEPT !.at = "unsched", !.read = Absent]
  OBVIOUS
<1>8. x \in WorkerSet /\ x.at = "unsched" /\ x.to = w.to /\ x.id = p /\ worker' = x
  BY <1>1, <1>7, SitesIs, Records DEF WorkerSet, WorkerSave
<1>9. StoreTypes' /\ CallTypes' /\ RestTypes' /\ WorkerTypes' /\ Writers'
  <2>1. n \in Reads
    BY DEF Reads
  <2>2. StoreTypes'
    BY <1>4, <1>6, <2>1 DEF IInv, StoreTypes, Ends
  <2>3. QED
    BY <1>6, <1>8, <2>2 DEF IInv, CallTypes, RestTypes, WorkerTypes, Writers
<1>10. ASSUME NEW d \in Calls PROVE Handler(call[d])'
  <2>1. PICK y \in CallSet : y = call[d] /\ y = call'[d] /\ Handler(y)
    BY <1>6 DEF IInv, CallTypes, Handlers
  <2>2. CASE y.id = p
    <3>1. Handler(y)'
      BY <1>4, <2>1, <2>2, HandlerEnds
    <3>2. QED
      BY <2>1, <3>1
  <2>3. CASE y.id # p
    <3>1. y.id \in Ids \/ y.at \in {"idle", "take", "loser"}
      BY <2>1 DEF Handler, Opening, Holding, Early
    <3>2. Handler(y)'
      BY <1>5, <1>6, <2>1, <2>3, <3>1, HandlerElsewhere, HandlerWithout
    <3>3. QED
      BY <2>1, <3>2
  <2>4. QED
    BY <2>2, <2>3
<1>11. Ledger'
  <2>1. ASSUME NEW q \in Ids, Quiet(q)' PROVE Agrees(q)'
    <3>1. Quiet(q) /\ Agrees(q)
      BY <1>6, <2>1 DEF IInv, Ledger, Quiet
    <3>2. CASE q = p
      <4>1. Exists(p)' /\ n.status \in {"captured", "cancelled", "expired"}
        BY <1>2, <1>5
      <4>2. CASE n.status = "captured"
        BY <1>2, <1>5, <1>6, <3>1, <3>2, <4>1, <4>2 DEF Agrees, Hosted, Paid, Paying
      <4>3. CASE n.status \in {"cancelled", "expired"}
        BY <1>2, <1>5, <1>6, <3>1, <3>2, <4>1, <4>3 DEF Agrees, Hosted, Paid, Paying, Shut
      <4>4. QED
        BY <4>1, <4>2, <4>3
    <3>3. CASE q # p
      BY <1>5, <1>6, <3>1, <3>3 DEF Agrees, Exists, Hosted, Paid
    <3>4. QED
      BY <3>2, <3>3
  <2>2. contended \subseteq Ids
    BY DEF IInv, RestTypes
  <2>3. QED
    BY <1>5, <1>6, <2>1, <2>2 DEF IInv, Ledger
<1>12. KeysLead'
  <2>1. ASSUME NEW j \in Keys PROVE Named(j)'
    <3>1. Named(j) /\ idem[j] \in Ids \cup {0}
      BY DEF IInv, KeysLead, StoreTypes
    <3>2. QED
      BY <1>5, <1>6, <3>1 DEF Named
  <2>2. ASSUME NEW j \in Keys \ torn' PROVE Keyed(j)'
    <3>1. Keyed(j)
      BY <1>6, <2>2 DEF IInv, KeysLead
    <3>2. \A q \in Ids : (Quiet(q) => Over(q)) => (Quiet(q)' => Over(q)')
      BY <1>5, <1>6 DEF Quiet
    <3>3. QED
      BY <1>5, <1>6, <3>1, <3>2 DEF Keyed
  <2>3. QED
    BY <2>1, <2>2 DEF KeysLead
<1>13. WorkerIs' /\ WorkerKnows'
  BY <1>2, <1>3, <1>5, <1>6, <1>8 DEF WorkerIs, WorkerKnows, Quiet
<1>14. BatchIs'
  <2>1. \A b \in batch : b.id \in Ids /\ b.id # p
    BY <1>3 DEF ItemSet
  <2>2. QED
    BY <1>5, <1>6, <2>1 DEF IInv, BatchIs, Quiet
<1>15. Watch'
  <2>1. ASSUME NEW q \in Ids \ (cut \cup contended), order'[q].status = "pending_pay"
        PROVE  q \in poll \/ \E d \in Calls : call[d].at = "sched" /\ call[d].id = q
    BY <1>2, <1>5, <2>1 DEF IInv, Watch
  <2>2. ASSUME NEW q \in Ids \ (cut \cup contended), order'[q].status \in {"captured", "refunding"}
        PROVE  q \in receipt \/ Announcing(q)'
    BY <1>1, <1>2, <1>5, <1>8, <2>2 DEF IInv, Watch, Announcing
  <2>3. QED
    BY <1>6, <2>1, <2>2 DEF Watch
<1>16. QED
  BY <1>9, <1>10, <1>11, <1>12, <1>13, <1>14, <1>15 DEF IInv, Handlers

LEMMA WorkerUnscheduleStep ==
  ASSUME IInv, WorkerUnschedule
  PROVE  IInv'
<1>1. PICK w \in WorkerSet, p \in Ids : w = worker /\ w.at = "unsched" /\ p = w.id
  BY WorkerHolds DEF WorkerUnschedule
<1>2. /\ Exists(p) /\ (Quiet(p) => order[p].coded /\ order[p].status # "pending_pay")
      /\ \A b \in batch : b.id # p
      /\ batch \subseteq ItemSet
  BY <1>1, WorkerHolds DEF IInv, WorkerIs, WorkerKnows
<1>3. /\ poll' = poll \ {p}
      /\ worker' = IF w.to = "captured" THEN [w EXCEPT !.at = "notify"] ELSE NextOrEnd
      /\ UNCHANGED <<idem, order, late, trade, seen, call, batch, receipt, history, faults>>
      /\ contended' = contended
  BY <1>1 DEF WorkerUnschedule, history
<1>4. poll \subseteq Ids /\ faults \in 0 .. MaxFaults
  BY DEF IInv, StoreTypes, RestTypes
<1>5. CASE w.to = "captured"
  <2>1. PICK x : x = [w EXCEPT !.at = "notify"]
    OBVIOUS
  <2>2. x \in WorkerSet /\ x.at = "notify" /\ x.to = "captured" /\ x.id = p /\ worker' = x
    BY <1>1, <1>3, <1>5, <2>1, SitesIs DEF WorkerSet
  <2>3. WorkerTypes' /\ WorkerIs' /\ WorkerKnows'
    BY <1>2, <1>3, <2>2 DEF WorkerTypes, WorkerIs, WorkerKnows, Exists, Quiet
  <2>4. \A q \in Ids : Announcing(q) => Announcing(q)'
    BY <1>1, <2>2 DEF Announcing
  <2>5. QED
    BY <1>2, <1>3, <1>4, <2>3, <2>4, WorkerMoves
<1>6. CASE w.to # "captured"
  <2>1. WorkerTypes' /\ WorkerIs' /\ WorkerKnows'
    BY <1>2, <1>3, <1>6, LeavesIs, LeftIs
  <2>2. \A q \in Ids : ~Announcing(q)
    BY <1>1, <1>6 DEF Announcing
  <2>3. QED
    BY <1>2, <1>3, <1>4, <2>1, <2>2, WorkerMoves
<1>7. QED
  BY <1>5, <1>6

\* The worker leaves its order, and what it had to announce is announced or cut.
LEMMA WorkerLeaves ==
  ASSUME IInv, NEW w, Left(w, batch'), worker' = w, batch' \subseteq batch,
         UNCHANGED <<gateway, late, trade, seen, call, unclosed, torn, contended>>,
         receipt \subseteq receipt', receipt' \subseteq Ids, cut \subseteq cut', cut' \subseteq Ids,
         faults' \in 0 .. MaxFaults,
         \A p \in Ids : Announcing(p) => p \in receipt' \cup cut'
  PROVE  IInv'
<1>1. batch' \subseteq ItemSet /\ poll \subseteq Ids
  BY DEF IInv, WorkerTypes, StoreTypes
<1>2. WorkerTypes' /\ WorkerIs' /\ WorkerKnows'
  BY <1>1, LeftIs
<1>3. /\ StoreTypes' /\ CallTypes' /\ RestTypes' /\ Handlers' /\ Writers' /\ Ledger' /\ KeysLead'
  BY <1>1, WorkerOnly DEF gateway
<1>4. BatchIs'
  BY DEF IInv, BatchIs, Exists, Quiet, gateway
<1>5. Watch'
  BY WatchKeeps DEF gateway
<1>6. QED
  BY <1>2, <1>3, <1>4, <1>5 DEF IInv

LEMMA NotifyStep ==
  ASSUME IInv, WorkerNotify
  PROVE  IInv'
<1>1. worker.at = "notify" /\ worker.id \in Ids
  BY WorkerHolds DEF WorkerNotify
<1>2. /\ worker' = NextOrEnd
      /\ UNCHANGED <<gateway, late, trade, seen, call, batch, unclosed, torn, contended>>
      /\ \/ receipt' = receipt \cup {worker.id} /\ UNCHANGED <<cut, faults>>
         \/ /\ cut' = cut \cup {worker.id} /\ UNCHANGED receipt
            /\ faults < MaxFaults /\ faults' = faults + 1
  BY DEF WorkerNotify
<1>3. receipt \subseteq Ids /\ cut \subseteq Ids /\ faults \in 0 .. MaxFaults
  BY DEF IInv, RestTypes
<1>4. faults' \in 0 .. MaxFaults
  BY <1>2, <1>3, BoundsAssumption
<1>5. Left(worker', batch') /\ batch' = batch
  BY <1>2, LeavesIs
<1>6. /\ receipt \subseteq receipt' /\ receipt' \subseteq Ids /\ cut \subseteq cut' /\ cut' \subseteq Ids
      /\ \A p \in Ids : Announcing(p) => p \in receipt' \cup cut'
  BY <1>1, <1>2, <1>3 DEF Announcing
<1>7. QED
  BY <1>2, <1>4, <1>5, <1>6, WorkerLeaves

LEMMA CutWorkerStep ==
  ASSUME IInv, CutWorker
  PROVE  IInv'
<1>1. /\ faults < MaxFaults /\ faults' = faults + 1 /\ worker' = Asleep /\ batch' = {}
      /\ cut' = IF worker.at \in {"unsched", "notify"} /\ worker.to = "captured"
                THEN cut \cup {worker.id} ELSE cut
      /\ UNCHANGED <<gateway, late, trade, seen, call, receipt, unclosed, torn, contended>>
  BY DEF CutWorker
<1>2. receipt \subseteq Ids /\ cut \subseteq Ids /\ faults \in 0 .. MaxFaults
  BY DEF IInv, RestTypes
<1>3. faults' \in 0 .. MaxFaults
  BY <1>1, <1>2, BoundsAssumption
<1>4. Left(worker', batch')
  BY <1>1, LeavesIs
<1>5. worker.at \in {"unsched", "notify"} => worker.id \in Ids
  BY WorkerHolds
<1>6. /\ cut \subseteq cut' /\ cut' \subseteq Ids
      /\ \A p \in Ids : Announcing(p) => p \in receipt' \cup cut'
  BY <1>1, <1>2, <1>5 DEF Announcing
<1>7. QED
  BY <1>1, <1>2, <1>3, <1>4, <1>6, WorkerLeaves

(***************************************************************************)
(* The user and time.                                                      *)
(***************************************************************************)
LEMMA PayStep ==
  ASSUME IInv, NEW p \in Ids, Pay(p)
  PROVE  IInv'
<1>1. /\ p \in seen /\ trade[p] = "coded" /\ trade' = [trade EXCEPT ![p] = "paid"]
      /\ UNCHANGED <<gateway, late, seen, call, worker, batch, receipt, history, faults>>
  BY DEF Pay
<1>2. (Quiet(p) => order[p].coded) /\ "paid" \in Trades
  BY <1>1 DEF IInv, Ledger, Agrees, Trades
<1>3. unclosed' = unclosed /\ unclosed \subseteq Ids /\ contended' = contended
  BY <1>1 DEF IInv, RestTypes, history
<1>4. StoreTypes' /\ Ledger' /\ BatchIs'
  BY <1>1, <1>2, <1>3, ChannelOnly
<1>5. \A q \in Ids : /\ trade[q] \in {"closed", "refunded"} => trade'[q] = trade[q]
                     /\ trade[q] \in {"paid", "refunded"} => trade'[q] \in {"paid", "refunded"}
                     /\ trade[q] = "closed" => trade'[q] = "closed"
  BY <1>1 DEF IInv, StoreTypes
<1>6. CallTypes' /\ Handlers' /\ Writers' /\ KeysLead'
  BY <1>1, <1>3, <1>5, CallsStay DEF gateway, history
<1>7. WorkerTypes' /\ WorkerIs' /\ WorkerKnows'
  BY <1>1, <1>3, <1>5, WorkerStays DEF gateway
<1>8. RestTypes' /\ Watch'
  BY <1>1, WatchStays DEF IInv, RestTypes, gateway, history
<1>9. QED
  BY <1>4, <1>6, <1>7, <1>8 DEF IInv

LEMMA PassExpiryStep ==
  ASSUME IInv, NEW p \in Ids, PassExpiry(p)
  PROVE  IInv'
<1>1. /\ late' = late \cup {p}
      /\ UNCHANGED <<gateway, trade, seen, call, worker, batch, receipt, history, faults>>
  BY DEF PassExpiry
<1>2. StoreTypes' /\ RestTypes'
  BY <1>1 DEF IInv, StoreTypes, RestTypes, gateway, history
<1>3. CallTypes' /\ Handlers' /\ Writers' /\ KeysLead'
  BY <1>1, CallsStay DEF gateway, history
<1>4. Ledger'
  BY <1>1, LedgerStays DEF gateway, history
<1>5. WorkerTypes' /\ WorkerIs' /\ WorkerKnows' /\ BatchIs'
  BY <1>1, WorkerStays DEF gateway, history
<1>6. Watch'
  BY <1>1, WatchStays DEF gateway, history
<1>7. QED
  BY <1>2, <1>3, <1>4, <1>5, <1>6 DEF IInv

LEMMA StutterStep ==
  ASSUME IInv, UNCHANGED vars
  PROVE  IInv'
<1>1. /\ StoreTypes' /\ CallTypes' /\ WorkerTypes' /\ RestTypes' /\ Writers'
  BY DEF IInv, vars, gateway, history, StoreTypes, CallTypes, WorkerTypes, RestTypes, Writers
<1>2. Handlers' /\ KeysLead'
  BY CallsStay DEF vars, gateway, history
<1>3. Ledger' /\ WorkerIs' /\ WorkerKnows' /\ BatchIs' /\ Watch'
  BY LedgerStays, WorkerStays, WatchStays DEF vars, gateway, history
<1>4. QED
  BY <1>1, <1>2, <1>3 DEF IInv

(***************************************************************************)
(* The theorems.                                                           *)
(***************************************************************************)
LEMMA InitIInv == Init => IInv
<1> SUFFICES ASSUME Init PROVE IInv
  OBVIOUS
<1>1. /\ idem = [k \in Keys |-> 0] /\ order = [p \in Ids |-> Absent]
      /\ trade = [p \in Ids |-> "none"] /\ call = [c \in Calls |-> Idle]
      /\ worker = Asleep /\ batch = {} /\ poll = {} /\ seen = {}
  BY DEF Init
<1>2. StoreTypes /\ WorkerTypes /\ RestTypes
  BY Records, BoundsAssumption DEF Init, StoreTypes, WorkerTypes, RestTypes, Trades
<1>3. CallTypes /\ \A c \in Calls : call[c] = Idle /\ call[c].at = "idle"
  BY <1>1, Records DEF CallTypes
<1>4. Handlers /\ Writers
  BY <1>3, IdleHandler DEF Handlers, Writers
<1>5. \A p \in Ids : ~Exists(p) /\ order[p].status = "absent"
  BY <1>1, Records DEF Exists
<1>6. Ledger
  BY <1>1, <1>5, Records DEF Init, Ledger, Agrees, Paid, Paying, Hosted, Exists
<1>7. KeysLead
  BY <1>1, <1>3, <1>5 DEF KeysLead, Named, Keyed
<1>8. WorkerIs /\ WorkerKnows /\ BatchIs
  BY <1>1, Records DEF WorkerIs, WorkerKnows, BatchIs
<1>9. Watch
  BY <1>5 DEF Watch
<1>10. QED
  BY <1>2, <1>3, <1>4, <1>6, <1>7, <1>8, <1>9 DEF IInv

LEMMA CallStep ==
  ASSUME IInv, NEW c \in Calls,
         \/ \E k \in Keys : AuthorizeLookup(c, k)
         \/ \E p \in Ids : \/ CaptureAuthorized(c, p) \/ CapturePending(c, p)
                           \/ CancelStart(c, p) \/ RefundStart(c, p)
         \/ HandlerStep(c)
         \/ CutCall(c)
  PROVE  IInv'
<1>1. ASSUME NEW k \in Keys, AuthorizeLookup(c, k) PROVE IInv'
  BY <1>1, LookupStep
<1>2. ASSUME NEW p \in Ids, CaptureAuthorized(c, p) \/ CancelStart(c, p) \/ RefundStart(c, p)
      PROVE  IInv'
  BY <1>2, StartSteps
<1>3. ASSUME NEW p \in Ids, CapturePending(c, p) PROVE IInv'
  BY <1>3, CapturePendingStep
<1>4. CASE AuthorizeTake(c) \/ AuthorizeLoser(c) \/ AuthorizeWrite(c)
  BY <1>4, TakeStep, LoserStep, WriteStep
<1>5. CASE CaptureCreate(c) \/ CancelClose(c) \/ RefundChannel(c)
  BY <1>5, CreateStep, CancelCloseStep, RefundChannelStep
<1>6. CASE RefundReread(c) \/ CallRead(c) \/ CallSave(c)
  BY <1>6, RereadStep, ReadStep, SaveStep
<1>7. CASE CallSchedule(c) \/ CallUnschedule(c) \/ CutCall(c)
  BY <1>7, ScheduleStep, UnscheduleStep, CutCallStep
<1>8. QED
  BY <1>1, <1>2, <1>3, <1>4, <1>5, <1>6, <1>7 DEF HandlerStep

LEMMA NextStep == IInv /\ [Next]_vars => IInv'
<1> SUFFICES ASSUME IInv, [Next]_vars PROVE IInv'
  OBVIOUS
<1>1. CASE \E c \in Calls :
              \/ \E k \in Keys : AuthorizeLookup(c, k)
              \/ \E p \in Ids : \/ CaptureAuthorized(c, p) \/ CapturePending(c, p)
                                \/ CancelStart(c, p) \/ RefundStart(c, p)
              \/ HandlerStep(c)
              \/ CutCall(c)
  BY <1>1, CallStep
<1>2. CASE WorkerStep
  <2>1. CASE WorkerTick \/ \E b \in batch : WorkerTake(b)
    BY <2>1, TickStep, TakeItemStep
  <2>2. CASE WorkerQuery \/ WorkerClose \/ WorkerRead
    BY <2>2, QueryStep, WorkerCloseStep, WorkerReadStep
  <2>3. CASE WorkerSave \/ WorkerUnschedule \/ WorkerNotify
    BY <2>3, WorkerSaveStep, WorkerUnscheduleStep, NotifyStep
  <2>4. QED
    BY <1>2, <2>1, <2>2, <2>3 DEF WorkerStep
<1>3. CASE CutWorker
  BY <1>3, CutWorkerStep
<1>4. CASE \E p \in Ids : Pay(p) \/ PassExpiry(p)
  BY <1>4, PayStep, PassExpiryStep
<1>5. CASE UNCHANGED vars
  BY <1>5, StutterStep
<1>6. QED
  BY <1>1, <1>2, <1>3, <1>4, <1>5 DEF Next

\* What each await of a handler and of the worker relies on (PaymentStore
\* _transition, server.py, worker.py) is still so when it goes on, for every order
\* that was not written by a handler while another was at work on it.
THEOREM PaymentInvariant == Spec => []IInv
<1>1. IInv /\ [Next]_vars => IInv'
  BY NextStep
<1>2. QED
  BY <1>1, InitIInv, PTL DEF Spec

\* An order and the channel agree about the money (store.py _transition, the
\* handlers of server.py, worker.py), or it was closed here and not there, or two
\* handlers wrote it at once.
THEOREM MoneyHolds == Spec => []MoneyAgrees
<1>1. IInv => MoneyAgrees
  BY DEF IInv, Ledger, Agrees, MoneyAgrees, Paying, Paid, Quiet
<1>2. QED
  BY <1>1, PaymentInvariant, PTL

\* Of two orders of one key one is paid, unless one was closed here and not in
\* the channel or was written by two handlers at once, or both were created at
\* once (store.py authorize).
THEOREM PaysOncePerKey == Spec => []PaidOncePerKey
<1>1. ASSUME IInv, NEW p \in Ids \ (unclosed \cup contended), NEW q \in Ids \ (unclosed \cup contended),
             p # q, Paid(p), Paid(q), order[p].key = order[q].key, order[p].key \notin torn
      PROVE  FALSE
  <2>1. Agrees(p) /\ Agrees(q) /\ Quiet(p) /\ Quiet(q)
    BY <1>1 DEF IInv, Ledger, Quiet
  <2>2. Exists(p) /\ Exists(q)
    BY <1>1, <2>1 DEF Agrees, Paid
  <2>3. order[p].key \in Keys \ torn
    BY <1>1, <2>2, OrderIs DEF IInv
  <2>4. Over(p) \/ Over(q)
    BY <1>1, <2>1, <2>2, <2>3 DEF IInv, KeysLead, Keyed
  <2>5. QED
    BY <1>1, <2>1, <2>4 DEF Agrees, Over, Paying, Repayable
<1>2. IInv => PaidOncePerKey
  BY <1>1 DEF PaidOncePerKey
<1>3. QED
  BY <1>2, PaymentInvariant, PTL

\* A payment that waits is on the list or about to be, one that was made is
\* announced or about to be, unless a handler was cut in between or two handlers
\* wrote it at once (server.py Capture, worker.py _handle and _notify_paid).
THEOREM WatchHolds == Spec => []Watched
<1>1. IInv => Watched
  BY DEF IInv, Watch, Watched, Announcing
<1>2. QED
  BY <1>1, PaymentInvariant, PTL

\* The types of the state, whatever handlers overlap: an order is never written
\* but by a handler that has one, and no transition starts from a missing order.
THEOREM TypeCorrect == Spec => []TypeOK
<1>1. IInv => TypeOK
  BY TypeSplits DEF IInv
<1>2. QED
  BY <1>1, PaymentInvariant, PTL
=============================================================================
