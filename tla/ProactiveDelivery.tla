------------------------- MODULE ProactiveDelivery -------------------------
(***************************************************************************)
(* A proactive message of one user from its producer to the screen: the    *)
(* producer's client (runtime/proactive.py), the governor with its queues  *)
(* (proactive/governor.py, main.py), the delivery ledger                   *)
(* (delivery_store.py), the hop through the vehicle gateway and the mobile *)
(* HMI, which presents a delivery once and acknowledges it.                *)
(*                                                                         *)
(* The governor is one asyncio process: an action is the code between two  *)
(* awaits.  Its queues die with it, the ledger does not.  A queue is a set:*)
(* a replay that appends a message which is queued already leaves two      *)
(* copies in the code, and both go out in one frame.                       *)
(***************************************************************************)
EXTENDS Naturals, FiniteSets

CONSTANTS
    Msgs,         \* messages the producers have to send, each one once
    Durable,      \* those of priority critical or user_contract
    Critical,     \* those that skip the merge window
    Timed,        \* those with a ttl
    Conditional,  \* those with conditions on the vehicle's state
    KeyOf,        \* their dedup keys
    MaxFaults     \* bound: crashes, failed calls, lost frames and connections

ASSUME DurableAssumption == Critical \subseteq Durable /\ Durable \subseteq Msgs
ASSUME TimedAssumption == Timed \subseteq Msgs /\ Conditional \subseteq Msgs
ASSUME FaultsAssumption == MaxFaults \in Nat

VARIABLES
    up,         \* the governor runs
    hand,       \* where its producer and on_request stand with a message
    row,        \* the delivery ledger's row of a message
    pending, deferred,   \* the governor's queues
    marked,     \* dedup keys the running governor has seen
    timer,      \* _flush_task: off, armed, or flushing what it took
    kicked,     \* a flush was spawned and has not started
    groups,     \* messages a flush took and publishes together
    tick,       \* the tick in progress: what is left to visit and what stays
    settling,   \* messages whose rejection is not yet in the ledger
    aged,       \* messages whose ttl has passed
    connected,  \* the HMI holds its connection
    replay,     \* a replay request is on its way to the governor
    bubbles, presented,  \* the HMI's deliveries, those not yet seen and those seen
    acks,       \* receipts the HMI has still to send
    acking,     \* receipts on their way to the governor
    displayed,  \* history: messages some HMI presented
    duty,       \* history: messages the running governor took and has not decided
    faults

queues == <<pending, deferred, tick, settling, groups>>
flushing == <<timer, kicked>>
screen == <<bubbles, presented, acks, acking, displayed>>
hmi == <<connected, replay, screen>>
vars == <<up, hand, row, queues, marked, flushing, aged, hmi, duty, faults>>

Open == {"pending", "dispatched"}
NoTick == [on |-> FALSE, left |-> {}, stay |-> {}]

Init ==
    /\ up = TRUE
    /\ hand = [m \in Msgs |-> "idle"]
    /\ row = [m \in Msgs |-> "none"]
    /\ pending = {} /\ deferred = {} /\ marked = {} /\ groups = {} /\ settling = {}
    /\ tick = NoTick
    /\ timer = "off" /\ kicked = FALSE
    /\ aged = {}
    /\ connected = FALSE /\ replay = FALSE
    /\ bubbles = {} /\ presented = {} /\ acks = {} /\ acking = {}
    /\ displayed = {} /\ duty = {}
    /\ faults = 0

Fault == faults < MaxFaults /\ faults' = faults + 1

(***************************************************************************)
(* on_request: take_ownership, acknowledge, govern.  The subscription      *)
(* hands over one request at a time.  A producer that has no answer in     *)
(* time also sends the message on the old subject, past the governor and   *)
(* without a delivery id: that copy touches nothing of what follows.       *)
(***************************************************************************)
Request(m) ==
    /\ hand[m] = "idle" /\ up
    /\ hand' = [hand EXCEPT ![m] = "queued"]
    /\ UNCHANGED <<up, row, queues, marked, flushing, aged, hmi, duty, faults>>

Busy == \E m \in Msgs : hand[m] \in {"govern", "settle"}

\* take_ownership: a durable message has its row before the answer goes out
\* and before the gates see it.
Take(m) ==
    /\ hand[m] = "queued" /\ ~Busy
    /\ \/ /\ row' = [row EXCEPT ![m] = IF m \in Durable THEN "pending" ELSE @]
          /\ UNCHANGED faults
       \/ /\ m \in Durable /\ Fault
          /\ UNCHANGED row
    /\ hand' = [hand EXCEPT ![m] = "govern"]
    /\ UNCHANGED <<up, queues, marked, flushing, aged, hmi, duty>>

\* What the gates may say, a rejection by its reason: the vehicle's state, the
\* hour and the rate are the environment's, and a key that was marked may have
\* left its window.  Only messages that are not durable are held for the hour,
\* the load and the rate.
Rejected == {"unmet", "dedup", "held"}
Later(m, reason) == IF m \in Timed THEN "deferred" ELSE reason
Gate(m, first) ==
    {"pass"}
    \cup (IF m \notin Conditional THEN {}
          ELSE IF first THEN {Later(m, "unmet")} ELSE {"unmet"})
    \cup (IF first /\ KeyOf[m] \in marked THEN {"dedup"} ELSE {})
    \cup (IF m \in Durable THEN {} ELSE {Later(m, "held")})

\* The merge window opens when no flush task is waiting or running.
Opened(t) == IF t = "off" THEN "armed" ELSE t

\* A message that is deferred while a tick goes over the queue is visited by
\* that tick: it iterates over the live list.
IteratesOverACopy(m) == tick
Joined(m) == IF tick.on THEN [tick EXCEPT !.left = @ \cup {m}] ELSE tick

\* A gated message enters a queue and is marked.
Govern(m) ==
    /\ hand[m] = "govern"
    /\ \E verdict \in Gate(m, TRUE) :
          /\ hand' = [hand EXCEPT ![m] = IF verdict \in Rejected THEN "settle" ELSE "done"]
          /\ \/ /\ verdict = "pass"
                /\ pending' = pending \cup {m}
                /\ kicked' = (kicked \/ m \in Critical)
                /\ timer' = IF m \in Critical THEN timer ELSE Opened(timer)
                /\ UNCHANGED <<deferred, tick, settling>>
             \/ /\ verdict = "deferred"
                /\ deferred' = deferred \cup {m}
                /\ tick' = Joined(m)
                /\ UNCHANGED <<pending, settling, flushing>>
             \/ /\ verdict \in Rejected
                /\ settling' = settling \cup {<<m, verdict>>}
                /\ UNCHANGED <<pending, deferred, tick, flushing>>
          /\ marked' = IF verdict \in Rejected THEN marked ELSE marked \cup {KeyOf[m]}
    /\ duty' = duty \cup {m}
    /\ UNCHANGED <<up, row, groups, aged, hmi, faults>>

\* mark_final closes an open row, or fails in silence.
Settle(m, how) ==
    /\ <<m, how>> \in settling
    /\ settling' = settling \ {<<m, how>>}
    /\ \/ /\ row' = [row EXCEPT ![m] = IF @ \in Open THEN how ELSE @]
          /\ UNCHANGED faults
       \/ /\ row[m] \in Open /\ Fault
          /\ UNCHANGED row
    /\ hand' = [hand EXCEPT ![m] = IF @ = "settle" THEN "done" ELSE @]
    /\ duty' = duty \ {m}
    /\ UNCHANGED <<up, pending, deferred, tick, groups, marked, flushing,
                   aged, hmi>>

\* A ttl runs out, told only while something depends on it.
Age(m) ==
    /\ m \in Timed \ aged /\ (m \in deferred \/ row[m] \in Open)
    /\ aged' = aged \cup {m}
    /\ UNCHANGED <<up, hand, row, queues, marked, flushing, hmi, duty, 
                   faults>>

(***************************************************************************)
(* tick: the deferred queue again.  Only a rejection awaits, so one step   *)
(* runs to the next rejection or to the end.                               *)
(***************************************************************************)
\* The queue as the tick that is ending leaves it.
Visited(ms) ==
    {v \in [ms -> {"pass", "deferred"}] :
        \A m \in ms : v[m] \in Gate(m, FALSE) /\ (m \in aged => tick.on)}
Rejections(m) ==
    (IF m \in aged THEN {"expired"} ELSE {})
    \cup (IF m \notin aged \/ tick.on THEN Gate(m, FALSE) \cap Rejected ELSE {})
Passed(v) == {m \in DOMAIN v : v[m] = "pass"}

Queued(v) ==
    /\ pending' = pending \cup Passed(v)
    /\ timer' = IF Passed(v) = {} THEN timer ELSE Opened(timer)
    /\ UNCHANGED <<up, hand, row, groups, marked, kicked, aged, hmi, duty, 
                   faults>>

TickRun ==
    /\ deferred # {} /\ up
    /\ \A s \in settling : hand[s[1]] = "settle"
    /\ LET todo == IF tick.on THEN tick.left ELSE deferred
           stays(v) == tick.stay \cup (DOMAIN v \ Passed(v))
       IN \/ \E v \in Visited(todo) :
                /\ Queued(v)
                /\ deferred' = stays(v) /\ tick' = NoTick
                /\ UNCHANGED settling
          \/ \E m \in todo :
             \E how \in Rejections(m), before \in SUBSET (todo \ {m}) :
             \E v \in Visited(before) :
                /\ Queued(v)
                /\ settling' = settling \cup {<<m, how>>}
                /\ tick' = [on |-> TRUE, left |-> todo \ (before \cup {m}),
                            stay |-> stays(v)]
                /\ UNCHANGED deferred

(***************************************************************************)
(* Flushes: a group is published, marked in the ledger, and decided.       *)
(***************************************************************************)
FlushTaken(by, ms) ==
    /\ pending' = {}
    /\ groups' = IF ms = {} THEN groups
                 ELSE groups \cup {[by |-> by, ms |-> ms, at |-> "send"]}

FlushTimer ==
    /\ timer = "armed"
    /\ FlushTaken("timer", pending)
    /\ timer' = IF pending = {} THEN "off" ELSE "flushing"
    /\ UNCHANGED <<up, hand, row, deferred, tick, settling, marked, kicked, aged,
                   hmi, duty, faults>>

FlushNow ==
    /\ kicked /\ kicked' = FALSE
    /\ FlushTaken("kick", pending)
    /\ UNCHANGED <<up, hand, row, deferred, tick, settling, marked, timer, aged,
                   hmi, duty, faults>>

\* What the mobile HMI does with a frame: what it presented is acknowledged
\* again, what it never received becomes one bubble.  Only a message with a
\* ledger row carries a delivery id; any other is shown and forgotten.
IgnoredAgain(ids) == {}
SeenBefore(ids) == ids \cap presented
Receive(ms) ==
    LET ids == {m \in ms : row[m] # "none"}
        fresh == ids \ (presented \cup UNION bubbles)
    IN /\ bubbles' = IF fresh = {} THEN bubbles ELSE bubbles \cup {fresh}
       /\ acking' = acking \cup acks \cup SeenBefore(ids)
       /\ acks' = {}
       /\ UNCHANGED <<connected, replay, presented, displayed>>

NeverDone(g) == UNCHANGED timer
Ended(g) == timer' = IF g.by = "timer" THEN "off" ELSE timer

\* The publication fails, or the frame goes out: to the HMI, to nobody, or
\* into a link that loses it.
Publish(g) ==
    /\ g \in groups /\ g.at = "send"
    /\ \/ /\ Fault
          /\ groups' = groups \ {g} /\ duty' = duty \ g.ms
          /\ Ended(g)
          /\ UNCHANGED hmi
       \/ /\ groups' = (groups \ {g}) \cup {[g EXCEPT !.at = "mark"]}
          /\ \/ /\ connected /\ Receive(g.ms)
                /\ UNCHANGED faults
             \/ /\ ~connected
                /\ UNCHANGED <<hmi, faults>>
             \/ /\ connected /\ Fault
                /\ UNCHANGED hmi
          /\ UNCHANGED <<timer, duty>>
    /\ UNCHANGED <<up, hand, row, pending, deferred, tick, settling, marked,
                   kicked, aged>>

\* mark_dispatched, which may fail in silence, and the decision.
SentIsSeen(m, ms) == IF m \in ms /\ row[m] = "pending" THEN "presented" ELSE row[m]
Dispatched(m, ms) == IF m \in ms /\ row[m] = "pending" THEN "dispatched" ELSE row[m]
Mark(g) ==
    /\ g \in groups /\ g.at = "mark"
    /\ \/ row' = [m \in Msgs |-> Dispatched(m, g.ms)] /\ UNCHANGED faults
       \/ Fault /\ UNCHANGED row
    /\ groups' = groups \ {g} /\ duty' = duty \ g.ms
    /\ Ended(g)
    /\ UNCHANGED <<up, hand, pending, deferred, tick, settling, marked,
                   kicked, aged, hmi>>

(***************************************************************************)
(* The governor dies with its queues and comes back with the ledger's.     *)
(***************************************************************************)
Stale(m) == IF row[m] \in Open /\ m \in aged THEN "expired" ELSE row[m]
Undelivered == {m \in Msgs : Stale(m) \in Open}

Crash ==
    /\ up /\ Fault
    /\ up' = FALSE
    /\ hand' = [m \in Msgs |-> IF hand[m] = "idle" THEN "idle" ELSE "done"]
    /\ pending' = {} /\ deferred' = {} /\ groups' = {} /\ settling' = {}
    /\ tick' = NoTick
    /\ marked' = {} /\ duty' = {}
    /\ timer' = "off" /\ kicked' = FALSE
    /\ replay' = FALSE /\ acking' = {}
    /\ UNCHANGED <<row, aged, connected, bubbles, presented, acks, displayed>>

\* restore: expire_stale, and the open rows go to the queue past the gates.
Restart ==
    /\ ~up /\ up' = TRUE
    /\ row' = [m \in Msgs |-> Stale(m)]
    /\ pending' = Undelivered /\ duty' = Undelivered
    /\ timer' = IF Undelivered = {} THEN "off" ELSE "armed"
    /\ UNCHANGED <<hand, deferred, tick, settling, groups, marked, kicked,
                   aged, hmi, faults>>

(***************************************************************************)
(* The HMI and the gateway in front of it.                                 *)
(***************************************************************************)
\* The gateway asks for a replay, the HMI sends the receipts it kept.
Connect ==
    /\ ~connected /\ connected' = TRUE
    /\ replay' = up
    /\ acking' = acking \cup acks /\ acks' = {}
    /\ UNCHANGED <<up, hand, row, queues, marked, flushing, aged, bubbles,
                   presented, displayed, duty, faults>>

\* replay_undelivered: the open rows, past the gates, with whatever waits.
Replay ==
    /\ replay /\ up /\ replay' = FALSE
    /\ \A g \in groups : g.by # "replay"
    /\ row' = [m \in Msgs |-> Stale(m)]
    /\ IF Undelivered = {} THEN UNCHANGED <<pending, groups>>
                           ELSE FlushTaken("replay", pending \cup Undelivered)
    /\ duty' = duty \cup Undelivered
    /\ UNCHANGED <<up, hand, deferred, tick, settling, marked, flushing, aged,
                   connected, screen, faults>>

\* presentProactive: the user sees a bubble, with all its deliveries.
Present(b) ==
    /\ b \in bubbles
    /\ bubbles' = bubbles \ {b}
    /\ presented' = presented \cup b /\ displayed' = displayed \cup b
    /\ IF connected THEN acking' = acking \cup acks \cup b /\ acks' = {}
                    ELSE acks' = acks \cup b /\ UNCHANGED acking
    /\ UNCHANGED <<up, hand, row, queues, marked, flushing, aged, connected,
                   replay, duty, faults>>

\* acknowledge: the receipt closes an open row, or is lost on the way.
Receipt(m) ==
    /\ m \in acking /\ acking' = acking \ {m}
    /\ \/ /\ up
          /\ row' = [row EXCEPT ![m] = IF @ \in Open THEN "presented" ELSE @]
          /\ UNCHANGED faults
       \/ /\ ~up
          /\ UNCHANGED <<row, faults>>
       \/ /\ Fault
          /\ UNCHANGED row
    /\ UNCHANGED <<up, hand, queues, marked, flushing, aged, connected,
                   replay, bubbles, presented, acks, displayed, duty>>

\* The connection breaks at any moment, a restarted HMI has forgotten its
\* receipts, or the user leaves when nothing is under way.
Calm ==
    /\ ~replay /\ groups = {} /\ timer # "armed" /\ ~kicked
    /\ bubbles = {} /\ acking = {}
Disconnect ==
    /\ connected /\ connected' = FALSE
    /\ \/ Calm /\ UNCHANGED <<bubbles, presented, acks, faults>>
       \/ Fault /\ UNCHANGED <<bubbles, presented, acks>>
       \/ Fault /\ bubbles' = {} /\ presented' = {} /\ acks' = {}
    /\ UNCHANGED <<up, hand, row, queues, marked, flushing, aged, replay, acking,
                   displayed, duty>>

GovernorStep ==
    \/ \E m \in Msgs : Take(m) \/ Govern(m)
    \/ \E s \in settling : Settle(s[1], s[2])
    \/ TickRun \/ FlushTimer \/ FlushNow \/ Replay
    \/ \E g \in groups : Publish(g) \/ Mark(g)

HmiStep ==
    \/ \E b \in bubbles : Present(b)
    \/ \E m \in acking : Receipt(m)

Next ==
    \/ \E m \in Msgs : Request(m) \/ Age(m)
    \/ GovernorStep \/ HmiStep
    \/ Crash \/ Restart \/ Connect \/ Disconnect

Spec == Init /\ [][Next]_vars

\* Spec with the fairness of the code's own tasks, of a supervisor that
\* restarts the governor, and of a phone that loses and regains its link.
FairSpec ==
    /\ Spec
    /\ \A m \in Msgs : WF_vars(Take(m)) /\ WF_vars(Govern(m))
    /\ WF_vars(\E s \in settling : Settle(s[1], s[2]))
    /\ WF_vars(TickRun) /\ WF_vars(FlushTimer) /\ WF_vars(FlushNow) /\ WF_vars(Replay)
    /\ WF_vars(\E g \in groups : Publish(g) \/ Mark(g))
    /\ WF_vars(HmiStep)
    /\ WF_vars(Restart) /\ WF_vars(Connect) /\ WF_vars(Disconnect)

(***************************************************************************)
(* Properties.                                                             *)
(***************************************************************************)
\* The state has its type; _flush_task runs exactly while its group does; only
\* a live governor holds queues; the HMI keeps receipts only for what it
\* presented, and nothing is both presented and waiting.
TypeOK ==
    /\ hand \in [Msgs -> {"idle", "queued", "govern", "settle", "done"}]
    /\ row \in [Msgs -> Open \cup {"none", "presented", "expired"} \cup Rejected]
    /\ timer \in {"off", "armed", "flushing"}
    /\ timer = "flushing" <=> \E g \in groups : g.by = "timer"
    /\ \A g, h \in groups : g.by = h.by /\ g.by # "kick" => g = h
    /\ ~up => pending \cup deferred = {} /\ groups = {} /\ duty = {} /\ ~kicked
    /\ acks \subseteq presented /\ presented \subseteq displayed
    /\ presented \cap UNION bubbles = {}
    /\ faults \in 0 .. MaxFaults

\* A ledger row is closed only for the reason it states: presented when an HMI
\* presented it, expired when its ttl passed, unmet when it has conditions that
\* may fail, dedup when the governor had a message under the same key
\* (delivery_store.py: publication is not presentation).
ClosedForCause ==
    \A m \in Msgs :
        /\ row[m] = "presented" => m \in displayed
        /\ row[m] = "expired" => m \in aged
        /\ row[m] = "unmet" => m \in Conditional
        /\ row[m] = "dedup" =>
              \E n \in Msgs \ {m} : KeyOf[n] = KeyOf[m] /\ hand[n] = "done"

\* What a running governor took and has not decided is in one of its queues:
\* a message deferred while a tick awaits a rejection is not lost when that
\* tick replaces the queue (governor.py, tick).
NotStranded ==
    duty \subseteq pending \cup deferred \cup tick.left \cup tick.stay
                  \cup {s[1] : s \in settling} \cup UNION {g.ms : g \in groups}

\* A message the ledger took is in the end presented, dropped or expired,
\* through crashes, failed publications, lost frames and lost receipts
\* (governor.py, acknowledge and replay_undelivered).
Reaches == \A m \in Durable : row[m] \in Open ~> row[m] \notin Open
====
