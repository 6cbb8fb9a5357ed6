------------------------ MODULE ProactiveDeliveryProofs ------------------------
(***************************************************************************)
(* Any number of messages of any kinds, through any number of crashes,     *)
(* failed calls and lost frames: a ledger row is closed only for the cause *)
(* it states, and a running governor loses no message between its queues.  *)
(***************************************************************************)
EXTENDS ProactiveDelivery, TLAPS

(***************************************************************************)
(* The inductive invariant.                                                *)
(***************************************************************************)
\* The queues hold messages of the governor.
Shapes ==
    /\ up \in BOOLEAN /\ aged \subseteq Msgs
    /\ pending \subseteq Msgs /\ deferred \subseteq Msgs /\ duty \subseteq Msgs
    /\ tick \in [on: BOOLEAN, left: SUBSET Msgs, stay: SUBSET Msgs]
    /\ settling \subseteq Msgs \X (Rejected \cup {"expired"})
    /\ groups \subseteq [by: {"timer", "kick", "replay"}, ms: SUBSET Msgs,
                         at: {"send", "mark"}]

\* While the governor is down nothing of it is under way.
Down == ~up => /\ settling = {} /\ tick = NoTick /\ timer = "off"
               /\ \A m \in Msgs : hand[m] \in {"idle", "done"}

\* A bubble was not seen yet, and no delivery is in two of them.
Apart == \A b, c \in bubbles : b \cap c # {} => b = c

\* A receipt is about what an HMI presented, also when it is on its way.
Honest == acking \subseteq displayed

\* A rejection on its way to the ledger has its cause, and a marked key a message.
Caused ==
    /\ \A s \in settling :
          /\ s[2] = "expired" => s[1] \in aged
          /\ s[2] = "unmet" => s[1] \in Conditional
          /\ s[2] = "dedup" =>
                \E n \in Msgs \ {s[1]} : KeyOf[n] = KeyOf[s[1]] /\ hand[n] = "done"
    /\ \A k \in marked : \E n \in Msgs : KeyOf[n] = k /\ hand[n] = "done"

\* What the governor has to decide is in a queue, the tick's own lists standing in
\* for the deferred queue while it runs: at its end they replace the queue.
InQueue(m) ==
    \/ m \in pending
    \/ IF tick.on THEN m \in tick.left \cup tick.stay ELSE m \in deferred
    \/ \E s \in settling : s[1] = m
    \/ \E g \in groups : m \in g.ms
Carried == \A m \in duty : InQueue(m)

IInv == TypeOK /\ Shapes /\ Down /\ Apart /\ Honest /\ Caused /\ ClosedForCause /\ Carried

(***************************************************************************)
(* The parts of the type invariant, and what leaves them alone.            *)
(***************************************************************************)
Ledger ==
    /\ hand \in [Msgs -> {"idle", "queued", "govern", "settle", "done"}]
    /\ row \in [Msgs -> Open \cup {"none", "presented", "expired"} \cup Rejected]
    /\ faults \in 0 .. MaxFaults
Flushing ==
    /\ timer \in {"off", "armed", "flushing"}
    /\ timer = "flushing" <=> \E g \in groups : g.by = "timer"
    /\ \A g, h \in groups : g.by = h.by /\ g.by # "kick" => g = h
Stopped == ~up => pending \cup deferred = {} /\ groups = {} /\ duty = {} /\ ~kicked
Screens ==
    /\ acks \subseteq presented /\ presented \subseteq displayed
    /\ presented \cap UNION bubbles = {}

LEMMA TypeParts == TypeOK <=> Ledger /\ Flushing /\ Stopped /\ Screens
BY DEF TypeOK, Ledger, Flushing, Stopped, Screens

LEMMA TypeAfter == Ledger' /\ Flushing' /\ Stopped' /\ Screens' => TypeOK'
BY DEF TypeOK, Ledger, Flushing, Stopped, Screens

Parts == /\ Ledger /\ Flushing /\ Stopped /\ Screens /\ Shapes /\ Down /\ Apart /\ Honest
         /\ Caused /\ ClosedForCause /\ Carried

LEMMA PartsAre == IInv <=> Parts
BY TypeParts DEF IInv, Parts

LEMMA PartsAfter == Parts' => IInv'
BY TypeAfter DEF IInv, Parts

\* The HMI's side does not move.
LEMMA ScreenStays ==
  ASSUME Parts, UNCHANGED hmi
  PROVE  Screens' /\ Apart' /\ Honest'
BY DEF Parts, hmi, screen, Screens, Apart, Honest

\* A fault is within the bound.
LEMMA FaultIs ==
  ASSUME Parts, Fault \/ UNCHANGED faults
  PROVE  faults' \in 0 .. MaxFaults
BY FaultsAssumption DEF Parts, Ledger, Fault

\* Fewer rejections are on their way, fewer keys marked; what is done stays done.
LEMMA CauseStays ==
  ASSUME Parts, settling' \subseteq settling, marked' \subseteq marked, aged \subseteq aged',
         \A m \in Msgs : hand[m] = "done" => hand'[m] = "done"
  PROVE  Caused'
BY DEF Parts, Caused, Shapes

LEMMA ClosedStays ==
  ASSUME Parts, row' = row, displayed \subseteq displayed', aged \subseteq aged',
         \A m \in Msgs : hand[m] = "done" => hand'[m] = "done"
  PROVE  ClosedForCause'
BY DEF Parts, ClosedForCause

(***************************************************************************)
(* Requests and the gates.                                                 *)
(***************************************************************************)
LEMMA RequestStep ==
  ASSUME IInv, NEW m \in Msgs, Request(m)
  PROVE  IInv'
<1>1. Parts
  BY PartsAre
<1>2. /\ hand[m] = "idle" /\ up /\ hand' = [hand EXCEPT ![m] = "queued"]
      /\ UNCHANGED <<up, row, queues, marked, flushing, aged, hmi, duty, faults>>
  BY DEF Request
<1>3. Ledger' /\ Stopped' /\ Flushing'
  BY <1>1, <1>2 DEF Parts, Ledger, Stopped, Flushing, queues, flushing
<1>4. \A n \in Msgs : hand[n] = "done" => hand'[n] = "done"
  BY <1>1, <1>2 DEF Parts, Ledger
<1>5. Caused' /\ ClosedForCause'
  BY <1>1, <1>2, <1>4, CauseStays, ClosedStays DEF queues, hmi, screen
<1>6. Shapes' /\ Down' /\ Carried'
  BY <1>1, <1>2 DEF Parts, Shapes, Down, Carried, InQueue, queues
<1>7. QED
  BY <1>1, <1>2, <1>3, <1>5, <1>6, ScreenStays, PartsAfter DEF Parts

LEMMA TakeStep ==
  ASSUME IInv, NEW m \in Msgs, Take(m)
  PROVE  IInv'
<1>1. Parts
  BY PartsAre
<1>2. /\ hand[m] = "queued" /\ hand' = [hand EXCEPT ![m] = "govern"]
      /\ row' = row \/ row' = [row EXCEPT ![m] = "pending"]
      /\ Fault \/ UNCHANGED faults
      /\ UNCHANGED <<up, queues, marked, flushing, aged, hmi, duty>>
  BY <1>1 DEF Take, Parts, Ledger
<1>3. Ledger' /\ up
  BY <1>1, <1>2, FaultIs DEF Parts, Ledger, Open, Down
<1>4. Stopped' /\ Flushing' /\ Shapes' /\ Down' /\ Carried'
  BY <1>1, <1>2, <1>3 DEF Parts, Stopped, Flushing, Shapes, Down, Carried, InQueue, queues, flushing
<1>5. \A n \in Msgs : hand[n] = "done" => hand'[n] = "done"
  BY <1>1, <1>2 DEF Parts, Ledger
<1>6. Caused'
  BY <1>1, <1>2, <1>5, CauseStays DEF queues
<1>7. ClosedForCause'
  BY <1>1, <1>2, <1>5 DEF Parts, ClosedForCause, Ledger, hmi, screen
<1>8. QED
  BY <1>1, <1>2, <1>3, <1>4, <1>6, <1>7, ScreenStays, PartsAfter DEF Parts

\* What the gates say has a cause.
LEMMA GateIs ==
  ASSUME NEW m \in Msgs, NEW first \in BOOLEAN, NEW verdict \in Gate(m, first)
  PROVE  /\ verdict \in {"pass", "deferred"} \cup Rejected
         /\ verdict = "unmet" => m \in Conditional
         /\ verdict = "dedup" => first /\ KeyOf[m] \in marked
BY DEF Gate, Later, Rejected

LEMMA GovernStep ==
  ASSUME IInv, NEW m \in Msgs, Govern(m)
  PROVE  IInv'
<1>1. Parts
  BY PartsAre
<1>2. PICK verdict \in Gate(m, TRUE) :
        /\ hand' = [hand EXCEPT ![m] = IF verdict \in Rejected THEN "settle" ELSE "done"]
        /\ \/ /\ verdict = "pass" /\ pending' = pending \cup {m}
              /\ timer' \in {timer, Opened(timer)}
              /\ UNCHANGED <<deferred, tick, settling>>
           \/ /\ verdict = "deferred" /\ deferred' = deferred \cup {m} /\ tick' = Joined(m)
              /\ UNCHANGED <<pending, settling, flushing>>
           \/ /\ verdict \in Rejected /\ settling' = settling \cup {<<m, verdict>>}
              /\ UNCHANGED <<pending, deferred, tick, flushing>>
        /\ marked' = IF verdict \in Rejected THEN marked ELSE marked \cup {KeyOf[m]}
  BY DEF Govern
<1>3. /\ hand[m] = "govern" /\ duty' = duty \cup {m}
      /\ UNCHANGED <<up, row, groups, aged, hmi, faults>>
  BY DEF Govern
<1>4. /\ verdict \in {"pass", "deferred"} \cup Rejected
      /\ verdict = "unmet" => m \in Conditional
      /\ verdict = "dedup" => KeyOf[m] \in marked
  BY GateIs
<1>5. up
  BY <1>1, <1>3 DEF Parts, Down
<1>6. /\ hand'[m] = IF verdict \in Rejected THEN "settle" ELSE "done"
      /\ \A n \in Msgs \ {m} : hand'[n] = hand[n]
      /\ hand' \in [Msgs -> {"idle", "queued", "govern", "settle", "done"}]
  BY <1>1, <1>2 DEF Parts, Ledger
<1>7. Joined(m) \in [on: BOOLEAN, left: SUBSET Msgs, stay: SUBSET Msgs]
      /\ Joined(m).on = tick.on /\ Joined(m).stay = tick.stay
      /\ Joined(m).left = IF tick.on THEN tick.left \cup {m} ELSE tick.left
  <2>1. PICK t \in [on: BOOLEAN, left: SUBSET Msgs, stay: SUBSET Msgs] : t = tick
    BY <1>1 DEF Parts, Shapes
  <2>2. [t EXCEPT !.left = t.left \cup {m}] \in [on: BOOLEAN, left: SUBSET Msgs, stay: SUBSET Msgs]
    BY <2>1
  <2>3. QED
    BY <2>1, <2>2 DEF Joined
<1>8. Ledger' /\ Stopped'
  BY <1>1, <1>3, <1>5, <1>6 DEF Parts, Ledger, Stopped
<1>9. Flushing'
  BY <1>1, <1>2, <1>3 DEF Parts, Flushing, Opened, flushing
<1>10. Shapes'
  BY <1>1, <1>2, <1>3, <1>4, <1>7 DEF Parts, Shapes
<1>11. Down'
  BY <1>3, <1>5 DEF Down
<1>12. \A n \in Msgs : hand[n] = "done" => hand'[n] = "done" /\ n # m
  BY <1>3, <1>6
<1>13. Caused'
  <2>1. ASSUME NEW s \in settling'
        PROVE  /\ s[2] = "expired" => s[1] \in aged
               /\ s[2] = "unmet" => s[1] \in Conditional
               /\ s[2] = "dedup" =>
                     \E n \in Msgs \ {s[1]} : KeyOf[n] = KeyOf[s[1]] /\ hand'[n] = "done"
    <3>1. CASE s \in settling
      BY <1>1, <1>12, <3>1 DEF Parts, Caused
    <3>2. CASE s = <<m, verdict>> /\ verdict \in Rejected
      <4>1. s[1] = m /\ s[2] = verdict /\ verdict # "expired"
        BY <3>2 DEF Rejected
      <4>2. verdict = "dedup" => \E n \in Msgs : KeyOf[n] = KeyOf[m] /\ hand[n] = "done"
        BY <1>1, <1>4 DEF Parts, Caused
      <4>3. QED
        BY <1>4, <1>12, <4>1, <4>2
    <3>3. QED
      BY <1>2, <3>1, <3>2
  <2>2. ASSUME NEW k \in marked' PROVE \E n \in Msgs : KeyOf[n] = k /\ hand'[n] = "done"
    BY <1>1, <1>2, <1>6, <1>12 DEF Parts, Caused
  <2>3. QED
    BY <1>3, <2>1, <2>2 DEF Caused
<1>14. ClosedForCause'
  BY <1>1, <1>3, <1>12, ClosedStays DEF hmi, screen
<1>15. Carried'
  <2>1. ASSUME NEW n \in duty PROVE InQueue(n)'
    <3>1. InQueue(n)
      BY <1>1 DEF Parts, Carried
    <3>2. QED
      BY <1>2, <1>3, <1>7, <3>1 DEF InQueue
  <2>2. InQueue(m)'
    <3>1. <<m, verdict>>[1] = m
      OBVIOUS
    <3>2. QED
      BY <1>2, <1>7, <3>1 DEF InQueue
  <2>3. QED
    BY <1>3, <2>1, <2>2 DEF Carried
<1>16. QED
  BY <1>1, <1>3, <1>8, <1>9, <1>10, <1>11, <1>13, <1>14, <1>15, ScreenStays, PartsAfter DEF Parts

LEMMA SettleStep ==
  ASSUME IInv, NEW p \in settling, Settle(p[1], p[2])
  PROVE  IInv'
<1>1. Parts
  BY PartsAre
<1>2. PICK m \in Msgs, how \in Rejected \cup {"expired"} : p = <<m, how>> /\ p[1] = m /\ p[2] = how
  BY <1>1 DEF Parts, Shapes
<1>3. /\ settling' = settling \ {p} /\ duty' = duty \ {m}
      /\ row' = row \/ row' = [row EXCEPT ![m] = IF @ \in Open THEN how ELSE @]
      /\ Fault \/ UNCHANGED faults
      /\ hand' = [hand EXCEPT ![m] = IF @ = "settle" THEN "done" ELSE @]
      /\ UNCHANGED <<up, pending, deferred, tick, groups, marked, flushing, aged, hmi>>
  BY <1>2 DEF Settle
<1>4. up
  BY <1>1 DEF Parts, Down
<1>5. /\ hand' \in [Msgs -> {"idle", "queued", "govern", "settle", "done"}]
      /\ \A n \in Msgs : hand[n] = "done" => hand'[n] = "done"
  BY <1>1, <1>3 DEF Parts, Ledger
<1>6. \A n \in Msgs : row'[n] = row[n] \/ (n = m /\ row'[n] = how)
  BY <1>1, <1>3 DEF Parts, Ledger
<1>7. Ledger'
  <2>1. row' \in [Msgs -> Open \cup {"none", "presented", "expired"} \cup Rejected]
    BY <1>1, <1>3 DEF Parts, Ledger
  <2>2. QED
    BY <1>1, <1>3, <1>5, <2>1, FaultIs DEF Ledger
<1>8. Flushing' /\ Stopped' /\ Shapes' /\ Down'
  BY <1>1, <1>3, <1>4 DEF Parts, Flushing, Stopped, Shapes, Down, flushing
<1>9. Caused'
  BY <1>1, <1>3, <1>5, CauseStays
<1>10. ClosedForCause'
  <2>1. how # "presented"
    BY DEF Rejected
  <2>2. /\ how = "expired" => m \in aged
        /\ how = "unmet" => m \in Conditional
        /\ how = "dedup" => \E n \in Msgs \ {m} : KeyOf[n] = KeyOf[m] /\ hand[n] = "done"
    BY <1>1, <1>2 DEF Parts, Caused
  <2>3. QED
    BY <1>1, <1>3, <1>5, <1>6, <2>1, <2>2 DEF Parts, ClosedForCause, hmi, screen
<1>11. Carried'
  <2>1. ASSUME NEW n \in duty' PROVE InQueue(n)'
    <3>1. InQueue(n) /\ n # m
      BY <1>1, <1>3 DEF Parts, Carried
    <3>2. QED
      BY <1>2, <1>3, <3>1 DEF InQueue
  <2>2. QED
    BY <2>1 DEF Carried
<1>12. QED
  BY <1>1, <1>3, <1>7, <1>8, <1>9, <1>10, <1>11, ScreenStays, PartsAfter DEF Parts

LEMMA AgeStep ==
  ASSUME IInv, NEW m \in Msgs, Age(m)
  PROVE  IInv'
<1>1. Parts
  BY PartsAre
<1>2. /\ aged' = aged \cup {m}
      /\ UNCHANGED <<up, hand, row, queues, marked, flushing, hmi, duty, faults>>
  BY DEF Age
<1>3. Ledger' /\ Flushing' /\ Stopped' /\ Shapes' /\ Down' /\ Carried'
  BY <1>1, <1>2 DEF Parts, Ledger, Flushing, Stopped, Shapes, Down, Carried, InQueue, queues, flushing
<1>4. Caused' /\ ClosedForCause'
  BY <1>1, <1>2, CauseStays, ClosedStays DEF queues, hmi, screen
<1>5. QED
  BY <1>1, <1>2, <1>3, <1>4, ScreenStays, PartsAfter DEF Parts

(***************************************************************************)
(* The tick.                                                               *)
(***************************************************************************)
LEMMA VisitedIs ==
  ASSUME NEW ms \in SUBSET Msgs, NEW v \in Visited(ms)
  PROVE  /\ DOMAIN v = ms /\ Passed(v) \subseteq ms
         /\ DOMAIN v \ Passed(v) \subseteq ms
         /\ \A m \in ms : m \in Passed(v) \/ m \in DOMAIN v \ Passed(v)
BY DEF Visited, Passed

LEMMA RejectionIs ==
  ASSUME NEW m \in Msgs, NEW how \in Rejections(m)
  PROVE  /\ how \in Rejected \cup {"expired"} /\ how # "dedup"
         /\ how = "expired" => m \in aged
         /\ how = "unmet" => m \in Conditional
<1>1. (how = "expired" /\ m \in aged) \/ (how \in Gate(m, FALSE) /\ how \in Rejected)
  <2>1. \/ how \in IF m \in aged THEN {"expired"} ELSE {}
        \/ how \in IF m \notin aged \/ tick.on THEN Gate(m, FALSE) \cap Rejected ELSE {}
    BY DEF Rejections
  <2>2. CASE how \in IF m \in aged THEN {"expired"} ELSE {}
    BY <2>2
  <2>3. CASE how \in IF m \notin aged \/ tick.on THEN Gate(m, FALSE) \cap Rejected ELSE {}
    BY <2>3
  <2>4. QED
    BY <2>1, <2>2, <2>3
<1>2. CASE how \in Gate(m, FALSE) /\ how \in Rejected
  BY <1>2, GateIs DEF Rejected
<1>3. CASE how = "expired" /\ m \in aged
  BY <1>3
<1>4. QED
  BY <1>1, <1>2, <1>3

LEMMA TickStep ==
  ASSUME IInv, TickRun
  PROVE  IInv'
<1> DEFINE todo == IF tick.on THEN tick.left ELSE deferred
           stays(v) == tick.stay \cup (DOMAIN v \ Passed(v))
           ticks == [on: BOOLEAN, left: SUBSET Msgs, stay: SUBSET Msgs]
<1>1. Parts
  BY PartsAre
<1>2. PICK t \in ticks : t = tick
  BY <1>1 DEF Parts, Shapes
<1>3. todo \in SUBSET Msgs /\ tick.stay \in SUBSET Msgs
  BY <1>1, <1>2 DEF Parts, Shapes
<1>4. up
  BY DEF TickRun
\* A rejection leaves the tick awaiting the ledger, or the tick ends.
<1>5. PICK before \in SUBSET todo : \E v \in Visited(before) :
        /\ Queued(v)
        /\ \/ /\ before = todo /\ deferred' = stays(v) /\ tick' = NoTick /\ settling' = settling
           \/ \E m \in todo \ before : \E how \in Rejections(m) :
                /\ settling' = settling \cup {<<m, how>>}
                /\ tick' = [on |-> TRUE, left |-> todo \ (before \cup {m}), stay |-> stays(v)]
                /\ deferred' = deferred
  <2>1. CASE \E v \in Visited(todo) :
               /\ Queued(v)
               /\ deferred' = stays(v) /\ tick' = NoTick /\ settling' = settling
    BY <2>1
  <2>2. CASE \E m \in todo : \E how \in Rejections(m), before \in SUBSET (todo \ {m}) :
               \E v \in Visited(before) :
                 /\ Queued(v)
                 /\ settling' = settling \cup {<<m, how>>}
                 /\ tick' = [on |-> TRUE, left |-> todo \ (before \cup {m}), stay |-> stays(v)]
                 /\ deferred' = deferred
    <3>1. PICK m \in todo : \E how \in Rejections(m), before \in SUBSET (todo \ {m}) :
                 \E v \in Visited(before) :
                   /\ Queued(v)
                   /\ settling' = settling \cup {<<m, how>>}
                   /\ tick' = [on |-> TRUE, left |-> todo \ (before \cup {m}), stay |-> stays(v)]
                   /\ deferred' = deferred
      BY <2>2
    <3>2. PICK how \in Rejections(m), before \in SUBSET (todo \ {m}) :
                 \E v \in Visited(before) :
                   /\ Queued(v)
                   /\ settling' = settling \cup {<<m, how>>}
                   /\ tick' = [on |-> TRUE, left |-> todo \ (before \cup {m}), stay |-> stays(v)]
                   /\ deferred' = deferred
      BY <3>1
    <3>3. before \in SUBSET todo /\ m \in todo \ before
      BY <3>2
    <3>4. QED
      BY <3>2, <3>3
  <2>3. QED
    BY <2>1, <2>2 DEF TickRun
<1>6. PICK v \in Visited(before) :
        /\ Queued(v)
        /\ \/ /\ before = todo /\ deferred' = stays(v) /\ tick' = NoTick /\ settling' = settling
           \/ \E m \in todo \ before : \E how \in Rejections(m) :
                /\ settling' = settling \cup {<<m, how>>}
                /\ tick' = [on |-> TRUE, left |-> todo \ (before \cup {m}), stay |-> stays(v)]
                /\ deferred' = deferred
  BY <1>5
<1>7. /\ pending' = pending \cup Passed(v) /\ timer' \in {timer, Opened(timer)}
      /\ UNCHANGED <<up, hand, row, groups, marked, kicked, aged, hmi, duty, faults>>
  BY <1>6 DEF Queued
<1>8. /\ before \subseteq Msgs /\ Passed(v) \subseteq Msgs /\ stays(v) \subseteq Msgs
      /\ \A n \in before : n \in Passed(v) \/ n \in stays(v)
      /\ \A n \in tick.stay : n \in stays(v)
  BY <1>3, VisitedIs
<1> HIDE DEF todo, stays
<1>9. Ledger' /\ Stopped' /\ Flushing'
  BY <1>1, <1>4, <1>7 DEF Parts, Ledger, Stopped, Flushing, Opened
<1>10. Down'
  BY <1>4, <1>7 DEF Down
<1>11. ClosedForCause'
  BY <1>1, <1>7, ClosedStays DEF hmi, screen
<1>12. \A n \in duty : \/ n \in pending \/ n \in todo \/ (tick.on /\ n \in tick.stay)
                       \/ \E s \in settling : s[1] = n
                       \/ \E g \in groups : n \in g.ms
  BY <1>1 DEF Parts, Carried, InQueue, todo
<1>13. CASE /\ before = todo /\ deferred' = stays(v) /\ tick' = NoTick /\ settling' = settling
  <2>1. NoTick \in ticks /\ NoTick.on = FALSE
    BY DEF NoTick
  <2>2. Shapes'
    BY <1>1, <1>7, <1>8, <1>13, <2>1 DEF Parts, Shapes
  <2>3. Caused'
    BY <1>1, <1>7, <1>13, CauseStays
  <2>4. Carried'
    <3>1. ASSUME NEW n \in duty PROVE InQueue(n)'
      BY <1>7, <1>8, <1>12, <1>13, <2>1 DEF InQueue
    <3>2. QED
      BY <1>7, <3>1 DEF Carried
  <2>5. QED
    BY <1>1, <1>7, <1>9, <1>10, <1>11, <2>2, <2>3, <2>4, ScreenStays, PartsAfter DEF Parts
<1>14. CASE \E m \in todo \ before : \E how \in Rejections(m) :
              /\ settling' = settling \cup {<<m, how>>}
              /\ tick' = [on |-> TRUE, left |-> todo \ (before \cup {m}), stay |-> stays(v)]
              /\ deferred' = deferred
  <2>1. PICK m \in todo \ before : \E how \in Rejections(m) :
              /\ settling' = settling \cup {<<m, how>>}
              /\ tick' = [on |-> TRUE, left |-> todo \ (before \cup {m}), stay |-> stays(v)]
              /\ deferred' = deferred
    BY <1>14
  <2>2. PICK how \in Rejections(m) :
              /\ settling' = settling \cup {<<m, how>>}
              /\ tick' = [on |-> TRUE, left |-> todo \ (before \cup {m}), stay |-> stays(v)]
              /\ deferred' = deferred
    BY <2>1
  <2>3. m \in Msgs /\ <<m, how>>[1] = m /\ <<m, how>>[2] = how
    BY <1>3, <2>1
  <2>4. /\ how \in Rejected \cup {"expired"} /\ how # "dedup"
        /\ how = "expired" => m \in aged
        /\ how = "unmet" => m \in Conditional
    BY <2>3, RejectionIs
  <2>5. tick' \in ticks /\ tick'.on /\ tick'.left = todo \ (before \cup {m}) /\ tick'.stay = stays(v)
    BY <1>3, <1>8, <2>2
  <2>6. Shapes'
    BY <1>1, <1>7, <1>8, <2>2, <2>3, <2>4, <2>5 DEF Parts, Shapes
  <2>7. Caused'
    BY <1>1, <1>7, <2>2, <2>3, <2>4 DEF Parts, Caused
  <2>8. Carried'
    <3>1. ASSUME NEW n \in duty PROVE InQueue(n)'
      <4>1. CASE n \in pending \/ (tick.on /\ n \in tick.stay) \/ (\E s \in settling : s[1] = n)
                 \/ (\E g \in groups : n \in g.ms)
        BY <1>7, <1>8, <2>2, <2>5, <4>1 DEF InQueue
      <4>2. CASE n \in todo
        BY <1>7, <1>8, <2>2, <2>3, <2>5, <4>2 DEF InQueue
      <4>3. QED
        BY <1>12, <4>1, <4>2
    <3>2. QED
      BY <1>7, <3>1 DEF Carried
  <2>9. QED
    BY <1>1, <1>7, <1>9, <1>10, <1>11, <2>6, <2>7, <2>8, ScreenStays, PartsAfter DEF Parts
<1>15. QED
  BY <1>6, <1>13, <1>14

(***************************************************************************)
(* Flushes.                                                                *)
(***************************************************************************)
Group == [by: {"timer", "kick", "replay"}, ms: SUBSET Msgs, at: {"send", "mark"}]

\* What a flush takes is in a group from then on.
LEMMA FlushIs ==
  ASSUME Parts, NEW by \in {"timer", "kick", "replay"}, NEW ms \in SUBSET Msgs,
         FlushTaken(by, ms)
  PROVE  /\ pending' = {} /\ groups' \subseteq Group /\ groups \subseteq groups'
         /\ \A g \in groups' : g \in groups \/ (ms # {} /\ g = [by |-> by, ms |-> ms, at |-> "send"])
         /\ ms # {} => [by |-> by, ms |-> ms, at |-> "send"] \in groups'
         /\ \A m : m \in ms \/ (\E g \in groups : m \in g.ms) => \E g \in groups' : m \in g.ms
<1> DEFINE new == [by |-> by, ms |-> ms, at |-> "send"]
<1>1. new \in Group /\ new.ms = ms
  BY DEF Group
<1>2. groups \subseteq Group
  BY DEF Parts, Shapes, Group
<1>3. pending' = {} /\ groups' = IF ms = {} THEN groups ELSE groups \cup {new}
  BY DEF FlushTaken
<1> HIDE DEF new
<1>4. \A m : m \in ms \/ (\E g \in groups : m \in g.ms) => \E g \in groups' : m \in g.ms
  BY <1>1, <1>3
<1>5. QED
  BY <1>1, <1>2, <1>3, <1>4 DEF new

LEMMA FlushTimerStep ==
  ASSUME IInv, FlushTimer
  PROVE  IInv'
<1>1. Parts
  BY PartsAre
<1>2. /\ timer = "armed" /\ FlushTaken("timer", pending)
      /\ timer' = IF pending = {} THEN "off" ELSE "flushing"
      /\ UNCHANGED <<up, hand, row, deferred, tick, settling, marked, kicked, aged,
                     hmi, duty, faults>>
  BY DEF FlushTimer
<1>3. up
  BY <1>1, <1>2 DEF Parts, Down
<1> DEFINE new == [by |-> "timer", ms |-> pending, at |-> "send"]
<1>4. /\ pending' = {} /\ groups' \subseteq Group /\ groups \subseteq groups'
      /\ \A g \in groups' : g \in groups \/ (pending # {} /\ g = new)
      /\ pending # {} => new \in groups'
      /\ \A m : m \in pending \/ (\E g \in groups : m \in g.ms) => \E g \in groups' : m \in g.ms
  BY <1>1, <1>2, FlushIs DEF Parts, Shapes
<1>5. new.by = "timer"
  OBVIOUS
<1> HIDE DEF new
<1>6. \A g \in groups : g.by # "timer"
  BY <1>1, <1>2 DEF Parts, Flushing
<1>7. Flushing'
  BY <1>1, <1>2, <1>4, <1>5, <1>6 DEF Parts, Flushing
<1>8. Ledger' /\ Stopped' /\ Shapes' /\ Down'
  BY <1>1, <1>2, <1>3, <1>4 DEF Parts, Ledger, Stopped, Shapes, Down, Group
<1>9. Caused' /\ ClosedForCause'
  BY <1>1, <1>2, CauseStays, ClosedStays DEF hmi, screen
<1>10. Carried'
  BY <1>1, <1>2, <1>4 DEF Parts, Carried, InQueue
<1>11. QED
  BY <1>1, <1>2, <1>7, <1>8, <1>9, <1>10, ScreenStays, PartsAfter DEF Parts

LEMMA FlushNowStep ==
  ASSUME IInv, FlushNow
  PROVE  IInv'
<1>1. Parts
  BY PartsAre
<1>2. /\ kicked /\ kicked' = FALSE /\ FlushTaken("kick", pending)
      /\ UNCHANGED <<up, hand, row, deferred, tick, settling, marked, timer, aged,
                     hmi, duty, faults>>
  BY DEF FlushNow
<1>3. up
  BY <1>1, <1>2 DEF Parts, Stopped
<1> DEFINE new == [by |-> "kick", ms |-> pending, at |-> "send"]
<1>4. /\ pending' = {} /\ groups' \subseteq Group /\ groups \subseteq groups'
      /\ \A g \in groups' : g \in groups \/ (pending # {} /\ g = new)
      /\ \A m : m \in pending \/ (\E g \in groups : m \in g.ms) => \E g \in groups' : m \in g.ms
  BY <1>1, <1>2, FlushIs DEF Parts, Shapes
<1>5. new.by = "kick"
  OBVIOUS
<1> HIDE DEF new
<1>6. Flushing'
  BY <1>1, <1>2, <1>4, <1>5 DEF Parts, Flushing
<1>7. Ledger' /\ Stopped' /\ Shapes' /\ Down'
  BY <1>1, <1>2, <1>3, <1>4 DEF Parts, Ledger, Stopped, Shapes, Down, Group
<1>8. Caused' /\ ClosedForCause'
  BY <1>1, <1>2, CauseStays, ClosedStays DEF hmi, screen
<1>9. Carried'
  BY <1>1, <1>2, <1>4 DEF Parts, Carried, InQueue
<1>10. QED
  BY <1>1, <1>2, <1>6, <1>7, <1>8, <1>9, ScreenStays, PartsAfter DEF Parts

\* The HMI takes a frame.
LEMMA ReceiveIs ==
  ASSUME Parts, NEW ms \in SUBSET Msgs, Receive(ms)
  PROVE  Screens' /\ Apart' /\ Honest' /\ displayed' = displayed
<1> DEFINE ids == {m \in ms : row[m] # "none"}
           new == ids \ (presented \cup UNION bubbles)
<1>1. /\ bubbles' = IF new = {} THEN bubbles ELSE bubbles \cup {new}
      /\ acking' = acking \cup acks \cup (ids \cap presented)
      /\ acks' = {} /\ presented' = presented /\ displayed' = displayed
  BY DEF Receive, SeenBefore
<1>2. new \cap presented = {} /\ \A b \in bubbles : new \cap b = {}
  OBVIOUS
<1> HIDE DEF ids, new
<1>3. Screens'
  BY <1>1, <1>2 DEF Parts, Screens
<1>4. Apart'
  BY <1>1, <1>2 DEF Parts, Apart
<1>5. Honest'
  BY <1>1 DEF Parts, Honest, Screens
<1>6. QED
  BY <1>1, <1>3, <1>4, <1>5

\* A group leaves, or stands at its next await: the flush task ends with its own.
LEMMA GroupLeaves ==
  ASSUME Parts, NEW g \in groups, groups' = groups \ {g}, duty' = duty \ g.ms, Ended(g),
         UNCHANGED <<up, pending, deferred, tick, settling, kicked>>
  PROVE  Flushing' /\ Stopped' /\ Carried' /\ groups' \subseteq groups /\ duty' \subseteq duty /\ up
<1>1. Flushing'
  BY DEF Parts, Flushing, Ended
<1>2. Stopped' /\ up
  BY DEF Parts, Stopped
<1>3. ASSUME NEW m \in duty' PROVE InQueue(m)'
  <2>1. InQueue(m) /\ m \notin g.ms
    BY <1>3 DEF Parts, Carried
  <2>2. QED
    BY <2>1 DEF InQueue
<1>4. QED
  BY <1>1, <1>2, <1>3 DEF Carried

LEMMA PublishStep ==
  ASSUME IInv, NEW g \in groups, Publish(g)
  PROVE  IInv'
<1>1. Parts
  BY PartsAre
<1>2. UNCHANGED <<up, hand, row, pending, deferred, tick, settling, marked, kicked, aged>>
  BY DEF Publish
<1>3. CASE Fault /\ groups' = groups \ {g} /\ duty' = duty \ g.ms /\ Ended(g) /\ UNCHANGED hmi
  <2>1. Flushing' /\ Stopped' /\ Carried' /\ groups' \subseteq groups /\ duty' \subseteq duty /\ up
    BY <1>1, <1>2, <1>3, GroupLeaves
  <2>2. Ledger' /\ Shapes' /\ Down'
    BY <1>1, <1>2, <1>3, <2>1, FaultIs DEF Parts, Ledger, Shapes, Down
  <2>3. Caused' /\ ClosedForCause'
    BY <1>1, <1>2, <1>3, CauseStays, ClosedStays DEF hmi, screen
  <2>4. QED
    BY <1>1, <1>3, <2>1, <2>2, <2>3, ScreenStays, PartsAfter DEF Parts
<1>4. CASE /\ groups' = (groups \ {g}) \cup {[g EXCEPT !.at = "mark"]}
           /\ \/ Receive(g.ms) /\ UNCHANGED faults
              \/ UNCHANGED <<hmi, faults>>
              \/ Fault /\ UNCHANGED hmi
           /\ UNCHANGED <<timer, duty>>
  <2> DEFINE h == [g EXCEPT !.at = "mark"]
  <2>1. g \in Group /\ h \in Group /\ h.by = g.by /\ h.ms = g.ms
    BY <1>1 DEF Parts, Shapes, Group
  <2>2. groups' = (groups \ {g}) \cup {h}
    BY <1>4
  <2> HIDE DEF h
  <2>3. Flushing'
    <3>1. timer' = timer
      BY <1>4
    <3>2. \A x \in groups' : (x \in groups /\ x # g) \/ x = h
      BY <2>2
    <3>3. (\E x \in groups' : x.by = "timer") <=> \E x \in groups : x.by = "timer"
      BY <2>1, <2>2
    <3>4. \A x, y \in groups' : x.by = y.by /\ x.by # "kick" => x = y
      BY <1>1, <2>1, <3>2 DEF Parts, Flushing
    <3>5. QED
      BY <1>1, <3>1, <3>3, <3>4 DEF Parts, Flushing
  <2>4. up
    BY <1>1 DEF Parts, Stopped
  <2>5. Screens' /\ Apart' /\ Honest' /\ displayed' = displayed
    <3>1. CASE Receive(g.ms)
      BY <1>1, <2>1, <3>1, ReceiveIs DEF Group
    <3>2. CASE UNCHANGED hmi
      BY <1>1, <3>2, ScreenStays DEF hmi, screen
    <3>3. QED
      BY <1>4, <3>1, <3>2
  <2>6. Ledger' /\ Stopped' /\ Shapes' /\ Down'
    BY <1>1, <1>2, <1>4, <2>1, <2>2, <2>4, FaultIs DEF Parts, Ledger, Stopped, Shapes, Down, Group
  <2>7. Caused' /\ ClosedForCause'
    BY <1>1, <1>2, <2>5, CauseStays, ClosedStays
  <2>8. Carried'
    <3>1. ASSUME NEW m \in duty PROVE InQueue(m)'
      <4>1. InQueue(m)
        BY <1>1 DEF Parts, Carried
      <4>2. QED
        BY <1>2, <2>1, <2>2, <4>1 DEF InQueue
    <3>2. QED
      BY <1>4, <3>1 DEF Carried
  <2>9. QED
    BY <2>3, <2>5, <2>6, <2>7, <2>8, PartsAfter DEF Parts
<1>5. QED
  BY <1>3, <1>4 DEF Publish

LEMMA MarkStep ==
  ASSUME IInv, NEW g \in groups, Mark(g)
  PROVE  IInv'
<1>1. Parts
  BY PartsAre
<1>2. /\ row' = row \/ row' = [m \in Msgs |-> Dispatched(m, g.ms)]
      /\ Fault \/ UNCHANGED faults
      /\ groups' = groups \ {g} /\ duty' = duty \ g.ms /\ Ended(g)
      /\ UNCHANGED <<up, hand, pending, deferred, tick, settling, marked, kicked, aged, hmi>>
  BY DEF Mark
<1>3. Flushing' /\ Stopped' /\ Carried' /\ groups' \subseteq groups /\ duty' \subseteq duty /\ up
  BY <1>1, <1>2, GroupLeaves
<1>4. \A m \in Msgs : row'[m] = row[m] \/ row'[m] = "dispatched"
  BY <1>2 DEF Dispatched
<1>5. Ledger'
  <2>1. row' \in [Msgs -> Open \cup {"none", "presented", "expired"} \cup Rejected]
    BY <1>1, <1>2 DEF Parts, Ledger, Dispatched, Open
  <2>2. QED
    BY <1>1, <1>2, <2>1, FaultIs DEF Parts, Ledger
<1>6. Shapes' /\ Down'
  BY <1>1, <1>2, <1>3 DEF Parts, Shapes, Down
<1>7. Caused'
  BY <1>1, <1>2, CauseStays
<1>8. ClosedForCause'
  BY <1>1, <1>2, <1>4 DEF Parts, ClosedForCause, hmi, screen
<1>9. QED
  BY <1>1, <1>2, <1>3, <1>5, <1>6, <1>7, <1>8, ScreenStays, PartsAfter DEF Parts

(***************************************************************************)
(* The governor dies and comes back, and is asked for a replay.            *)
(***************************************************************************)
LEMMA CrashStep ==
  ASSUME IInv, Crash
  PROVE  IInv'
<1>1. Parts
  BY PartsAre
<1>2. /\ up' = FALSE /\ Fault
      /\ hand' = [m \in Msgs |-> IF hand[m] = "idle" THEN "idle" ELSE "done"]
      /\ pending' = {} /\ deferred' = {} /\ groups' = {} /\ settling' = {}
      /\ tick' = NoTick /\ marked' = {} /\ duty' = {}
      /\ timer' = "off" /\ kicked' = FALSE /\ acking' = {}
      /\ UNCHANGED <<row, aged, connected, bubbles, presented, acks, displayed>>
  BY DEF Crash
<1>3. NoTick \in [on: BOOLEAN, left: SUBSET Msgs, stay: SUBSET Msgs]
  BY DEF NoTick
<1>4. Ledger' /\ Flushing' /\ Stopped' /\ Shapes' /\ Down'
  BY <1>1, <1>2, <1>3, FaultIs DEF Parts, Ledger, Flushing, Stopped, Shapes, Down
<1>5. Screens' /\ Apart' /\ Honest'
  BY <1>1, <1>2 DEF Parts, Screens, Apart, Honest
<1>6. \A m \in Msgs : hand[m] = "done" => hand'[m] = "done"
  BY <1>2
<1>7. Caused' /\ ClosedForCause'
  BY <1>1, <1>2, <1>6, CauseStays, ClosedStays
<1>8. Carried'
  BY <1>2 DEF Carried
<1>9. QED
  BY <1>4, <1>5, <1>7, <1>8, PartsAfter DEF Parts

\* The rows whose ttl passed are closed for that.
LEMMA StaleRows ==
  ASSUME Parts, row' = [m \in Msgs |-> Stale(m)], UNCHANGED <<hand, displayed, aged>>
  PROVE  /\ row' \in [Msgs -> Open \cup {"none", "presented", "expired"} \cup Rejected]
         /\ ClosedForCause'
<1>1. ASSUME NEW m \in Msgs PROVE row'[m] = row[m] \/ (row'[m] = "expired" /\ m \in aged)
  BY DEF Stale
<1>2. row' \in [Msgs -> Open \cup {"none", "presented", "expired"} \cup Rejected]
  BY <1>1 DEF Parts, Ledger
<1>3. ClosedForCause'
  BY <1>1 DEF Parts, ClosedForCause
<1>4. QED
  BY <1>2, <1>3

LEMMA RestartStep ==
  ASSUME IInv, Restart
  PROVE  IInv'
<1>1. Parts
  BY PartsAre
<1>2. /\ ~up /\ up' = TRUE /\ row' = [m \in Msgs |-> Stale(m)]
      /\ pending' = Undelivered /\ duty' = Undelivered
      /\ timer' = IF Undelivered = {} THEN "off" ELSE "armed"
      /\ UNCHANGED <<hand, deferred, tick, settling, groups, marked, kicked, aged, hmi, faults>>
  BY DEF Restart
<1>3. groups = {} /\ Undelivered \subseteq Msgs
  BY <1>1, <1>2 DEF Parts, Stopped, Undelivered
<1>4. /\ row' \in [Msgs -> Open \cup {"none", "presented", "expired"} \cup Rejected]
      /\ ClosedForCause'
  BY <1>1, <1>2, StaleRows DEF hmi, screen
<1>5. Ledger' /\ Flushing' /\ Stopped' /\ Shapes' /\ Down'
  BY <1>1, <1>2, <1>3, <1>4 DEF Parts, Ledger, Flushing, Stopped, Shapes, Down
<1>6. Caused'
  BY <1>1, <1>2, CauseStays
<1>7. Carried'
  BY <1>2 DEF Carried, InQueue
<1>8. QED
  BY <1>1, <1>2, <1>4, <1>5, <1>6, <1>7, ScreenStays, PartsAfter DEF Parts

LEMMA ReplayStep ==
  ASSUME IInv, Replay
  PROVE  IInv'
<1>1. Parts
  BY PartsAre
<1>2. /\ up /\ \A g \in groups : g.by # "replay"
      /\ row' = [m \in Msgs |-> Stale(m)]
      /\ IF Undelivered = {} THEN UNCHANGED <<pending, groups>>
                             ELSE FlushTaken("replay", pending \cup Undelivered)
      /\ duty' = duty \cup Undelivered
      /\ UNCHANGED <<up, hand, deferred, tick, settling, marked, flushing, aged,
                     connected, screen, faults>>
  BY DEF Replay
<1>3. /\ row' \in [Msgs -> Open \cup {"none", "presented", "expired"} \cup Rejected]
      /\ ClosedForCause'
  BY <1>1, <1>2, StaleRows DEF screen
<1>4. Undelivered \subseteq Msgs /\ pending \subseteq Msgs
  BY <1>1 DEF Parts, Shapes, Undelivered
<1> DEFINE ms == pending \cup Undelivered
           new == [by |-> "replay", ms |-> ms, at |-> "send"]
<1>5. /\ pending' \subseteq Msgs /\ groups' \subseteq Group /\ groups \subseteq groups'
      /\ \A g \in groups' : g \in groups \/ g = new
      /\ \A m : m \in Undelivered => \E g \in groups' : m \in g.ms
      /\ \A m : m \in pending => m \in pending' \/ \E g \in groups' : m \in g.ms
  <2>1. CASE Undelivered = {}
    BY <1>1, <1>2, <2>1 DEF Parts, Shapes, Group
  <2>2. CASE Undelivered # {}
    <3> HIDE DEF ms
    <3>1. ms \in SUBSET Msgs /\ FlushTaken("replay", ms)
      BY <1>2, <1>4, <2>2 DEF ms
    <3>2. /\ pending' = {} /\ groups' \subseteq Group /\ groups \subseteq groups'
          /\ \A g \in groups' : g \in groups \/ g = new
          /\ \A m : m \in ms => \E g \in groups' : m \in g.ms
      BY <1>1, <3>1, FlushIs
    <3>3. \A m : m \in pending \/ m \in Undelivered => m \in ms
      BY DEF ms
    <3>4. QED
      BY <3>2, <3>3
  <2>3. QED
    BY <2>1, <2>2
<1>6. new.by = "replay"
  OBVIOUS
<1> HIDE DEF new, ms
<1>7. Flushing'
  BY <1>1, <1>2, <1>5, <1>6 DEF Parts, Flushing, flushing
<1>8. Ledger' /\ Stopped' /\ Down'
  BY <1>1, <1>2, <1>3 DEF Parts, Ledger, Stopped, Down
<1>9. Shapes'
  BY <1>1, <1>2, <1>4, <1>5 DEF Parts, Shapes, Group
<1>10. Caused'
  BY <1>1, <1>2, CauseStays
<1>11. Screens' /\ Apart' /\ Honest'
  BY <1>1, <1>2 DEF Parts, screen, Screens, Apart, Honest
<1>12. Carried'
  <2>1. ASSUME NEW m \in duty' PROVE InQueue(m)'
    <3>1. InQueue(m) \/ m \in Undelivered
      BY <1>1, <1>2, <2>1 DEF Parts, Carried
    <3>2. QED
      BY <1>2, <1>5, <3>1 DEF InQueue
  <2>2. QED
    BY <2>1 DEF Carried
<1>13. QED
  BY <1>3, <1>7, <1>8, <1>9, <1>10, <1>11, <1>12, PartsAfter DEF Parts

(***************************************************************************)
(* The HMI and the gateway in front of it.                                 *)
(***************************************************************************)
\* A step of the HMI's side alone leaves the governor's state as it is.
LEMMA GovernorStays ==
  ASSUME Parts, UNCHANGED <<up, hand, queues, marked, flushing, aged, duty>>
  PROVE  Flushing' /\ Stopped' /\ Shapes' /\ Down' /\ Caused' /\ Carried'
<1>1. Flushing' /\ Stopped' /\ Shapes' /\ Down'
  BY DEF Parts, Flushing, Stopped, Shapes, Down, queues, flushing
<1>2. Caused'
  BY CauseStays DEF queues
<1>3. Carried'
  BY DEF Parts, Carried, InQueue, queues
<1>4. QED
  BY <1>1, <1>2, <1>3

LEMMA ConnectStep ==
  ASSUME IInv, Connect
  PROVE  IInv'
<1>1. Parts
  BY PartsAre
<1>2. /\ acking' = acking \cup acks /\ acks' = {}
      /\ UNCHANGED <<up, hand, row, queues, marked, flushing, aged, bubbles,
                     presented, displayed, duty, faults>>
  BY DEF Connect
<1>3. Flushing' /\ Stopped' /\ Shapes' /\ Down' /\ Caused' /\ Carried'
  BY <1>1, <1>2, GovernorStays
<1>4. Ledger' /\ Screens' /\ Apart' /\ Honest'
  BY <1>1, <1>2 DEF Parts, Ledger, Screens, Apart, Honest
<1>5. ClosedForCause'
  BY <1>1, <1>2, ClosedStays
<1>6. QED
  BY <1>3, <1>4, <1>5, PartsAfter DEF Parts

\* What is in a bubble was in no other one, so none that stays has been seen.
LEMMA PresentStep ==
  ASSUME IInv, NEW b \in bubbles, Present(b)
  PROVE  IInv'
<1>1. Parts
  BY PartsAre
<1>2. /\ bubbles' = bubbles \ {b}
      /\ presented' = presented \cup b /\ displayed' = displayed \cup b
      /\ \/ acking' = acking \cup acks \cup b /\ acks' = {}
         \/ acks' = acks \cup b /\ UNCHANGED acking
      /\ UNCHANGED <<up, hand, row, queues, marked, flushing, aged, duty, faults>>
  BY DEF Present
<1>3. Flushing' /\ Stopped' /\ Shapes' /\ Down' /\ Caused' /\ Carried'
  BY <1>1, <1>2, GovernorStays
<1>4. Screens'
  <2>1. \A c \in bubbles' : c \cap b = {}
    BY <1>1, <1>2 DEF Parts, Apart
  <2>2. \A c \in bubbles' : c \cap presented = {}
    BY <1>1, <1>2 DEF Parts, Screens
  <2>3. presented' \cap UNION bubbles' = {}
    BY <1>2, <2>1, <2>2
  <2>4. acks' \subseteq presented' /\ presented' \subseteq displayed'
    BY <1>1, <1>2 DEF Parts, Screens
  <2>5. QED
    BY <2>3, <2>4 DEF Screens
<1>5. Ledger' /\ Apart'
  BY <1>1, <1>2 DEF Parts, Ledger, Apart
<1>6. Honest'
  BY <1>1, <1>2 DEF Parts, Screens, Honest
<1>7. ClosedForCause'
  BY <1>1, <1>2, ClosedStays
<1>8. QED
  BY <1>3, <1>4, <1>5, <1>6, <1>7, PartsAfter DEF Parts

LEMMA ReceiptStep ==
  ASSUME IInv, NEW m \in acking, Receipt(m)
  PROVE  IInv'
<1>1. Parts
  BY PartsAre
<1>2. /\ acking' = acking \ {m}
      /\ row' = row \/ row' = [row EXCEPT ![m] = IF @ \in Open THEN "presented" ELSE @]
      /\ Fault \/ UNCHANGED faults
      /\ UNCHANGED <<up, hand, queues, marked, flushing, aged, connected,
                     replay, bubbles, presented, acks, displayed, duty>>
  BY DEF Receipt
<1>3. Flushing' /\ Stopped' /\ Shapes' /\ Down' /\ Caused' /\ Carried'
  BY <1>1, <1>2, GovernorStays
<1>4. Ledger'
  <2>1. row' \in [Msgs -> Open \cup {"none", "presented", "expired"} \cup Rejected]
    BY <1>1, <1>2 DEF Parts, Ledger
  <2>2. QED
    BY <1>1, <1>2, <2>1, FaultIs DEF Parts, Ledger
<1>5. Screens' /\ Apart' /\ Honest'
  BY <1>1, <1>2 DEF Parts, Screens, Apart, Honest
<1>6. ClosedForCause'
  <2>1. m \in displayed
    BY <1>1 DEF Parts, Honest
  <2>2. \A n \in Msgs : row'[n] = row[n] \/ (n = m /\ row'[n] = "presented")
    BY <1>1, <1>2 DEF Parts, Ledger
  <2>3. QED
    BY <1>1, <1>2, <2>1, <2>2 DEF Parts, ClosedForCause
<1>7. QED
  BY <1>3, <1>4, <1>5, <1>6, PartsAfter DEF Parts

LEMMA DisconnectStep ==
  ASSUME IInv, Disconnect
  PROVE  IInv'
<1>1. Parts
  BY PartsAre
<1>2. /\ \/ UNCHANGED <<bubbles, presented, acks>>
         \/ bubbles' = {} /\ presented' = {} /\ acks' = {}
      /\ Fault \/ UNCHANGED faults
      /\ UNCHANGED <<up, hand, row, queues, marked, flushing, aged, replay, acking,
                     displayed, duty>>
  BY DEF Disconnect
<1>3. Flushing' /\ Stopped' /\ Shapes' /\ Down' /\ Caused' /\ Carried'
  BY <1>1, <1>2, GovernorStays
<1>4. Ledger'
  BY <1>1, <1>2, FaultIs DEF Parts, Ledger
<1>5. Screens' /\ Apart' /\ Honest'
  BY <1>1, <1>2 DEF Parts, Screens, Apart, Honest
<1>6. ClosedForCause'
  BY <1>1, <1>2, ClosedStays
<1>7. QED
  BY <1>3, <1>4, <1>5, <1>6, PartsAfter DEF Parts

(***************************************************************************)
(* The invariant is inductive.                                             *)
(***************************************************************************)
LEMMA InitIInv == Init => IInv
<1> SUFFICES ASSUME Init PROVE Parts
  BY PartsAre
<1>1. Ledger
  BY FaultsAssumption DEF Init, Ledger
<1>2. Shapes /\ Down
  BY DEF Init, Shapes, Down, NoTick
<1>3. Flushing /\ Stopped /\ Screens /\ Apart /\ Honest
  BY DEF Init, Flushing, Stopped, Screens, Apart, Honest
<1>4. Caused /\ ClosedForCause /\ Carried
  BY DEF Init, Caused, ClosedForCause, Carried
<1>5. QED
  BY <1>1, <1>2, <1>3, <1>4 DEF Parts

LEMMA StutterStep ==
  ASSUME IInv, UNCHANGED vars
  PROVE  IInv'
<1>1. Parts
  BY PartsAre
<1>2. Flushing' /\ Stopped' /\ Shapes' /\ Down' /\ Caused' /\ Carried'
  BY <1>1, GovernorStays DEF vars
<1>3. Screens' /\ Apart' /\ Honest'
  BY <1>1, ScreenStays DEF vars
<1>4. Ledger'
  BY <1>1 DEF Parts, Ledger, vars
<1>5. ClosedForCause'
  BY <1>1, ClosedStays DEF vars, hmi, screen
<1>6. QED
  BY <1>2, <1>3, <1>4, <1>5, PartsAfter DEF Parts

LEMMA StepIInv == IInv /\ [Next]_vars => IInv'
<1> SUFFICES ASSUME IInv, [Next]_vars PROVE IInv'
  OBVIOUS
<1>1. ASSUME NEW m \in Msgs, Request(m) \/ Age(m) PROVE IInv'
  BY <1>1, RequestStep, AgeStep
<1>2. ASSUME GovernorStep PROVE IInv'
  <2>1. ASSUME NEW m \in Msgs, Take(m) \/ Govern(m) PROVE IInv'
    BY <2>1, TakeStep, GovernStep
  <2>2. ASSUME NEW s \in settling, Settle(s[1], s[2]) PROVE IInv'
    BY <2>2, SettleStep
  <2>3. ASSUME NEW g \in groups, Publish(g) \/ Mark(g) PROVE IInv'
    BY <2>3, PublishStep, MarkStep
  <2>4. CASE TickRun \/ FlushTimer \/ FlushNow \/ Replay
    BY <2>4, TickStep, FlushTimerStep, FlushNowStep, ReplayStep
  <2>5. QED
    BY <1>2, <2>1, <2>2, <2>3, <2>4 DEF GovernorStep
<1>3. ASSUME HmiStep PROVE IInv'
  BY <1>3, PresentStep, ReceiptStep DEF HmiStep
<1>4. CASE Crash \/ Restart \/ Connect \/ Disconnect
  BY <1>4, CrashStep, RestartStep, ConnectStep, DisconnectStep
<1>5. CASE UNCHANGED vars
  BY <1>5, StutterStep
<1>6. QED
  BY <1>1, <1>2, <1>3, <1>4, <1>5 DEF Next

(***************************************************************************)
(* The theorems.                                                           *)
(***************************************************************************)
\* Every reachable state of governor, ledger and HMI satisfies the invariant.
THEOREM DeliveryInvariant == Spec => []IInv
BY InitIInv, StepIInv, PTL DEF Spec

\* The state keeps its type; _flush_task runs exactly while its group does, a
\* governor that is down holds nothing, and the HMI keeps receipts only for what
\* it presented.
THEOREM TypeCorrect == Spec => []TypeOK
<1>1. IInv => TypeOK
  BY DEF IInv
<1>2. QED
  BY <1>1, DeliveryInvariant, PTL

\* The ledger closes a row only for the cause it states: presented only when an
\* HMI presented the message, expired only when its ttl passed, rejected only for
\* a condition or a key it has (delivery_store.py).
THEOREM ClosesForCause == Spec => []ClosedForCause
<1>1. IInv => ClosedForCause
  BY DEF IInv
<1>2. QED
  BY <1>1, DeliveryInvariant, PTL

\* A running governor loses no message between its queues, whatever arrives while
\* a tick awaits the ledger (governor.py, tick).
THEOREM NothingIsStranded == Spec => []NotStranded
<1>1. ASSUME IInv, NEW m \in duty
      PROVE  m \in pending \cup deferred \cup tick.left \cup tick.stay
                     \cup {s[1] : s \in settling} \cup UNION {g.ms : g \in groups}
  <2>1. InQueue(m)
    BY <1>1 DEF IInv, Carried
  <2>2. CASE m \in pending \/ m \in tick.left \cup tick.stay \/ m \in deferred
    BY <2>2
  <2>3. CASE \E s \in settling : s[1] = m
    BY <2>3
  <2>4. CASE \E g \in groups : m \in g.ms
    BY <2>4
  <2>5. QED
    BY <2>1, <2>2, <2>3, <2>4 DEF InQueue
<1>2. IInv => NotStranded
  BY <1>1 DEF NotStranded
<1>3. QED
  BY <1>2, DeliveryInvariant, PTL
=============================================================================
