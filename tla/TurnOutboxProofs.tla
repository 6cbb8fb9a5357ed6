--------------------------- MODULE TurnOutboxProofs ---------------------------
(***************************************************************************)
(* Any number of turns, sessions and deletions, any capacity and batch:    *)
(* what the outbox keeps and sends again is written once, in its order,    *)
(* never after the memory it belongs to was deleted, and nothing is lost   *)
(* without a reason.                                                       *)
(***************************************************************************)
EXTENDS TurnOutbox, TLAPS, FiniteSetTheorems, SequenceTheorems

(***************************************************************************)
(* The inductive invariant.                                                *)
(***************************************************************************)
\* A turn keeps an epoch that was current when it was observed, or an older one.
FencedEarly ==
  \A e \in Exchanges : seen[e].fence <= since[e] /\ seen[e].fresh \in {0, seen[e].fence}

\* Rows in the file or on their way out of it are of writers that are done.
Filed == \A e \in box \union pass.queue : pc[e] = "done" /\ seen[e].fence # 0

\* So are the replayed rows of the conversation.
Replayed == \A i \in DOMAIN history : history[i].replayed => pc[history[i].exchange] = "done"

\* The turns that have been said are in the order, once each.
Said ==
  /\ \A e \in Exchanges : pc[e] # "absent" <=> \E i \in DOMAIN order : order[i] = e
  /\ \A i, j \in DOMAIN order : order[i] = order[j] => i = j

\* Only a turn between its two rows, or after them, has outcomes.
Gathered == \A e \in Exchanges : pc[e] \notin {"assistant", "conclude"} => outcomes[e] = {}

\* A turn that has not been said has no epoch.
Unobserved == \A e \in Exchanges : pc[e] = "absent" => seen[e].fresh = 0

IInv ==
  /\ TypeOK /\ IsFiniteSet(box)
  /\ FencedEarly /\ Filed /\ Replayed /\ Said /\ Gathered /\ Unobserved
  /\ WrittenOnce /\ ReplayRespectsDeletion

\* The type invariant by the part of the system that changes it.
ServiceType == gen \in 1 .. MaxDeletions + 1 /\ history \in Seq(Row)
OrderType   == order \in Seq(Exchanges) /\ old \in 0 .. Len(order)
WriterType ==
  /\ cache \in 0 .. gen
  /\ session \in [Exchanges -> Sessions \union {None}]
  /\ pc \in [Exchanges -> {"absent", "observe", "record", "user", "assistant", "conclude", "done"}]
  /\ seen \in [Exchanges -> [fresh : 0 .. gen, fence : 0 .. gen]]
  /\ since \in [Exchanges -> 0 .. gen]
  /\ outcomes \in [Exchanges -> SUBSET Outcomes]
  /\ dropped \subseteq Exchanges /\ kicked \in BOOLEAN
BoxType ==
  /\ box \subseteq Exchanges /\ Cardinality(box) <= Capacity
  /\ due \subseteq box
  /\ behind \in [Exchanges -> SUBSET Exchanges]
  /\ \A e \in box : seen[e].fence # 0
PassType ==
  pass \in [queue : SUBSET Exchanges, at : Roles \union {"idle", "sent"},
            outcome : Outcomes \union {None}]

LEMMA Types == TypeOK <=> ServiceType /\ OrderType /\ WriterType /\ BoxType /\ PassType
BY DEF TypeOK, ServiceType, OrderType, WriterType, BoxType, PassType, FenceEpoch

(***************************************************************************)
(* The first state.                                                        *)
(***************************************************************************)
LEMMA InitIInv == Init => IInv
<1> SUFFICES ASSUME Init PROVE IInv
  OBVIOUS
<1> USE DEF Init
<1>1. history = <<>> /\ order = <<>> /\ DOMAIN history = {} /\ DOMAIN order = {}
  BY DEF Init
<1>2. ServiceType /\ OrderType
  BY <1>1, LimitsAssumption DEF ServiceType, OrderType
<1>3. WriterType
  <2>1. NoEpochs \in [fresh : 0 .. gen, fence : 0 .. gen]
    BY DEF NoEpochs
  <2>2. seen \in [Exchanges -> [fresh : 0 .. gen, fence : 0 .. gen]]
    BY <2>1
  <2>3. cache \in 0 .. gen /\ since \in [Exchanges -> 0 .. gen]
    OBVIOUS
  <2>4. QED
    BY <2>2, <2>3 DEF WriterType
<1>4. IsFiniteSet(box) /\ Cardinality(box) = 0
  BY FS_EmptySet
<1>5. BoxType
  BY <1>4, LimitsAssumption DEF BoxType
<1>6. PassType
  BY DEF PassType, NoPass, Roles, Outcomes
<1>7. FencedEarly /\ Filed /\ Gathered /\ Unobserved
  BY DEF FencedEarly, Filed, Gathered, Unobserved, NoEpochs, NoPass
<1>8. Replayed /\ Said /\ WrittenOnce /\ ReplayRespectsDeletion
  BY <1>1 DEF Replayed, Said, WrittenOnce, ReplayRespectsDeletion
<1>9. QED
  BY <1>2, <1>3, <1>4, <1>5, <1>6, <1>7, <1>8, Types DEF IInv

(***************************************************************************)
(* The memory service takes a row: once, and never forgets one of its own  *)
(* accord.                                                                 *)
(***************************************************************************)
LEMMA HoldsIsKept ==
  ASSUME IInv, NEW e \in Exchanges, NEW role \in Roles, NEW replayed \in BOOLEAN,
         history' = Appended(e, role, replayed), UNCHANGED gen
  PROVE  /\ history' \in Seq(Row)
         /\ WrittenOnce'
         /\ Holds(e, role)'
         /\ \A x \in Exchanges, r \in Roles : Holds(x, r) => Holds(x, r)'
         /\ \A i \in DOMAIN history' :
              \/ i \in DOMAIN history /\ history'[i] = history[i]
              \/ /\ history'[i].exchange = e /\ history'[i].replayed = replayed
                 /\ history'[i].epoch = gen
<1> DEFINE row == [exchange |-> e, role |-> role, replayed |-> replayed, epoch |-> gen]
<1>1. history \in Seq(Row) /\ gen \in Nat
  BY LimitsAssumption DEF IInv, TypeOK
<1>2. CASE Holds(e, role)
  <2>1. history' = history
    BY <1>2 DEF Appended
  <2>2. QED
    BY <1>1, <1>2, <2>1 DEF Holds, WrittenOnce, IInv
<1>3. CASE ~Holds(e, role)
  <2>1. history' = Append(history, row) /\ row \in Row
    BY <1>1, <1>3 DEF Appended, Row
  <2> HIDE DEF row
  <2>2. /\ history' \in Seq(Row)
        /\ Len(history') = Len(history) + 1
        /\ \A i \in 1 .. Len(history) : history'[i] = history[i]
        /\ history'[Len(history) + 1] = row
    BY <1>1, <2>1, AppendProperties
  <2>3. /\ DOMAIN history' = 1 .. Len(history) + 1
        /\ DOMAIN history = 1 .. Len(history) /\ Len(history) \in Nat
    BY <1>1, <2>2, LenProperties
  <2>4. \A i \in DOMAIN history' :
          (i \in DOMAIN history /\ history'[i] = history[i]) \/ i = Len(history) + 1
    BY <2>2, <2>3
  <2>5. row.exchange = e /\ row.role = role /\ row.replayed = replayed /\ row.epoch = gen
    BY DEF row
  <2>6. \A i \in DOMAIN history : history[i].exchange # e \/ history[i].role # role
    BY <1>3 DEF Holds
  <2>7. WrittenOnce'
    BY <2>2, <2>4, <2>5, <2>6 DEF WrittenOnce, IInv
  <2>8. Holds(e, role)'
    BY <2>2, <2>3, <2>5 DEF Holds
  <2>9. \A x \in Exchanges, r \in Roles : Holds(x, r) => Holds(x, r)'
    BY <2>2, <2>3 DEF Holds
  <2>10. QED
    BY <2>2, <2>4, <2>5, <2>7, <2>8, <2>9
<1>4. QED
  BY <1>2, <1>3

\* An append call: what the history is after it, and when it is refused.
LEMMA AppendSteps ==
  ASSUME IInv, NEW e \in Exchanges, NEW role \in Roles, NEW replayed \in BOOLEAN,
         NEW epoch, NEW outcome \in Outcomes,
         AppendTurn(e, role, epoch, replayed, outcome), UNCHANGED gen
  PROVE  /\ history' \in Seq(Row)
         /\ WrittenOnce'
         /\ outcome = "appended" => Holds(e, role)'
         /\ outcome = "refused" => ~Current(epoch)
         /\ \A x \in Exchanges, r \in Roles : Holds(x, r) => Holds(x, r)'
         /\ \A i \in DOMAIN history' :
              \/ i \in DOMAIN history /\ history'[i] = history[i]
              \/ /\ history'[i].exchange = e /\ history'[i].replayed = replayed
                 /\ history'[i].epoch = gen /\ Current(epoch)
<1>1. outcome = "refused" => ~Current(epoch)
  BY DEF AppendTurn
<1>2. \/ history' = history /\ outcome # "appended"
      \/ history' = Appended(e, role, replayed) /\ Current(epoch)
  BY DEF AppendTurn
<1>3. CASE history' = history /\ outcome # "appended"
  BY <1>1, <1>3 DEF IInv, TypeOK, WrittenOnce, Holds
<1>4. CASE history' = Appended(e, role, replayed) /\ Current(epoch)
  BY <1>1, <1>4, HoldsIsKept
<1>5. QED
  BY <1>2, <1>3, <1>4

(***************************************************************************)
(* The outbox file.                                                        *)
(***************************************************************************)
LEMMA FreshIsSmall ==
  ASSUME IInv
  PROVE  /\ Fresh \subseteq box /\ IsFiniteSet(Fresh)
         /\ Cardinality(Fresh) \in Nat /\ Cardinality(Fresh) <= Capacity
<1>1. IsFiniteSet(box) /\ Fresh \in SUBSET box /\ Cardinality(box) <= Capacity
  BY DEF IInv, TypeOK, Fresh
<1>2. /\ IsFiniteSet(Fresh) /\ Cardinality(Fresh) <= Cardinality(box)
      /\ Cardinality(Fresh) \in Nat /\ Cardinality(box) \in Nat
  BY <1>1, FS_Subset, FS_CardinalityType
<1>3. QED
  BY <1>1, <1>2, LimitsAssumption

LEMMA PutSteps ==
  ASSUME IInv, NEW e \in Exchanges, Put(e) \/ PutRefused, FenceEpoch(e) # 0,
         UNCHANGED seen
  PROVE  /\ BoxType' /\ IsFiniteSet(box')
         /\ Fresh \subseteq box' /\ box' \subseteq box \union {e}
<1>1. /\ box \subseteq Exchanges /\ due \subseteq box
      /\ behind \in [Exchanges -> SUBSET Exchanges]
      /\ \A x \in box : seen[x].fence # 0
  BY DEF IInv, TypeOK, FenceEpoch
<1>2. /\ Fresh \subseteq box /\ IsFiniteSet(Fresh)
      /\ Cardinality(Fresh) \in Nat /\ Cardinality(Fresh) <= Capacity
  BY FreshIsSmall
<1>3. CASE Put(e)
  <2>0. box' = Fresh \union {e}
    BY <1>3 DEF Put
  <2>1. IsFiniteSet(box') /\ Cardinality(box') <= Cardinality(Fresh) + 1
    <3>1. /\ IsFiniteSet(Fresh \union {e})
          /\ Cardinality(Fresh \union {e})
               = IF e \in Fresh THEN Cardinality(Fresh) ELSE Cardinality(Fresh) + 1
      BY <1>2, FS_AddElement
    <3>2. QED
      BY <1>2, <2>0, <3>1
  <2>2. Cardinality(Fresh) + 1 <= Capacity /\ Cardinality(box') \in Nat
    BY <1>2, <1>3, <2>1, LimitsAssumption, FS_CardinalityType DEF Put, Room
  <2>3. Cardinality(box') <= Capacity
    BY <1>2, <2>1, <2>2, LimitsAssumption
  <2>4. behind' \in [Exchanges -> SUBSET Exchanges]
    BY <1>1, <1>2, <1>3 DEF Put
  <2>5. /\ box' = Fresh \union {e} /\ box' \subseteq Exchanges /\ due' \subseteq box'
    BY <1>1, <1>2, <1>3 DEF Put
  <2>6. QED
    BY <1>1, <1>2, <2>1, <2>3, <2>4, <2>5 DEF BoxType, FenceEpoch
<1>4. CASE PutRefused
  BY <1>1, <1>2, <1>4 DEF PutRefused, BoxType
<1>5. QED
  BY <1>3, <1>4

(***************************************************************************)
(* What every step keeps: writers that are done stay done, and the history *)
(* is told from what they observed.                                        *)
(***************************************************************************)
DoneForGood ==
  \A e \in Exchanges : pc[e] = "done" => pc'[e] = "done" /\ since'[e] = since[e]

LEMMA RowTypes ==
  ASSUME IInv, NEW i \in DOMAIN history
  PROVE  history[i].exchange \in Exchanges /\ history[i].role \in Roles
<1>1. history \in Seq(Row) /\ i \in 1 .. Len(history)
  BY LenProperties DEF IInv, TypeOK
<1>2. history[i] \in Row
  BY <1>1, ElementOfSeq
<1>3. QED
  BY <1>2 DEF Row

LEMMA HistoryKept ==
  ASSUME IInv, history' \in {history, <<>>}, DoneForGood
  PROVE  history' \in Seq(Row) /\ Replayed' /\ WrittenOnce' /\ ReplayRespectsDeletion'
<1>1. CASE history' = history
  <2>1. \A i \in DOMAIN history : history[i].exchange \in Exchanges
    BY RowTypes
  <2>2. history' \in Seq(Row) /\ WrittenOnce'
    BY <1>1 DEF IInv, TypeOK, WrittenOnce
  <2>3. Replayed' /\ ReplayRespectsDeletion'
    BY <1>1, <2>1 DEF IInv, DoneForGood, Replayed, ReplayRespectsDeletion
  <2>4. QED
    BY <2>2, <2>3
<1>2. CASE history' = <<>>
  <2>1. DOMAIN history' = {} /\ history' \in Seq(Row)
    BY <1>2
  <2>2. QED
    BY <2>1 DEF Replayed, WrittenOnce, ReplayRespectsDeletion
<1>3. QED
  BY <1>1, <1>2

LEMMA HistoryGrows ==
  ASSUME IInv, NEW e \in Exchanges, NEW role \in Roles, NEW replayed \in BOOLEAN,
         NEW epoch, NEW outcome \in Outcomes,
         AppendTurn(e, role, epoch, replayed, outcome), UNCHANGED gen, DoneForGood,
         replayed => pc[e] = "done",
         replayed /\ Current(epoch) => since[e] = gen
  PROVE  history' \in Seq(Row) /\ Replayed' /\ WrittenOnce' /\ ReplayRespectsDeletion'
<1>1. \A i \in DOMAIN history : history[i].exchange \in Exchanges
  BY RowTypes
<1>2. /\ history' \in Seq(Row) /\ WrittenOnce'
      /\ \A i \in DOMAIN history' :
           \/ i \in DOMAIN history /\ history'[i] = history[i]
           \/ /\ history'[i].exchange = e /\ history'[i].replayed = replayed
              /\ history'[i].epoch = gen /\ Current(epoch)
  BY AppendSteps
<1>3. Replayed'
  BY <1>1, <1>2 DEF IInv, DoneForGood, Replayed
<1>4. ReplayRespectsDeletion'
  <2>1. SUFFICES ASSUME NEW i \in DOMAIN history', history'[i].replayed
                 PROVE  since'[history'[i].exchange] = history'[i].epoch
    BY DEF ReplayRespectsDeletion
  <2>2. CASE i \in DOMAIN history /\ history'[i] = history[i]
    BY <1>1, <2>1, <2>2 DEF IInv, Replayed, DoneForGood, ReplayRespectsDeletion
  <2>3. CASE ~(i \in DOMAIN history /\ history'[i] = history[i])
    BY <1>2, <2>1, <2>3 DEF DoneForGood
  <2>4. QED
    BY <2>2, <2>3
<1>5. QED
  BY <1>2, <1>3, <1>4

LEMMA SaidKept ==
  ASSUME IInv, order' = order, \A e \in Exchanges : pc[e] = "absent" <=> pc'[e] = "absent"
  PROVE  Said'
BY DEF IInv, Said

(***************************************************************************)
(* The deletion of the user's memory, retention and restarts.              *)
(***************************************************************************)
LEMMA DeleteStep == IInv /\ DeleteMemory => IInv'
<1> SUFFICES ASSUME IInv, DeleteMemory PROVE IInv'
  OBVIOUS
<1> USE DEF DeleteMemory, writerVars, boxVars
<1>1. gen \in Nat /\ gen' \in Nat /\ gen < gen' /\ gen' \in 1 .. MaxDeletions + 1
      /\ 0 .. gen \subseteq 0 .. gen'
  BY LimitsAssumption DEF IInv, TypeOK
<1>2. DoneForGood
  BY DEF DoneForGood
<1>3. history' \in Seq(Row) /\ Replayed' /\ WrittenOnce' /\ ReplayRespectsDeletion'
  BY <1>2, HistoryKept
<1>4. ServiceType' /\ OrderType' /\ BoxType' /\ PassType'
  BY <1>1, <1>3, Types DEF IInv, ServiceType, OrderType, BoxType, PassType
<1>5. WriterType'
  <2>1. seen' \in [Exchanges -> [fresh : 0 .. gen', fence : 0 .. gen']]
    BY <1>1 DEF IInv, TypeOK
  <2>2. cache' \in 0 .. gen' /\ since' \in [Exchanges -> 0 .. gen']
    BY <1>1 DEF IInv, TypeOK
  <2>3. QED
    BY <2>1, <2>2, Types DEF IInv, WriterType
<1>6. Said'
  BY SaidKept
<1>7. IsFiniteSet(box)' /\ FencedEarly' /\ Filed' /\ Gathered' /\ Unobserved'
  BY DEF IInv, FencedEarly, Filed, Gathered, Unobserved
<1>8. TypeOK'
  BY <1>3, <1>4, <1>5, <1>6, <1>7 DEF TypeOK, ServiceType, OrderType, WriterType, BoxType, PassType, FenceEpoch
<1>9. QED
  BY <1>3, <1>4, <1>5, <1>6, <1>7, <1>8 DEF IInv

LEMMA AgeStep == IInv /\ Age => IInv'
<1> SUFFICES ASSUME IInv, Age PROVE IInv'
  OBVIOUS
<1> USE DEF Age, serviceVars, writerVars, boxVars
<1>1. DoneForGood
  BY DEF DoneForGood
<1>2. history' \in Seq(Row) /\ Replayed' /\ WrittenOnce' /\ ReplayRespectsDeletion'
  BY <1>1, HistoryKept
<1>3. OrderType'
  <2>1. Len(order) \in Nat
    BY LenProperties DEF IInv, TypeOK
  <2>2. QED
    BY <2>1 DEF IInv, TypeOK, OrderType
<1>4. ServiceType' /\ BoxType' /\ PassType' /\ WriterType'
  BY <1>2, Types DEF IInv, ServiceType, WriterType, BoxType, PassType
<1>5. Said'
  BY SaidKept
<1>6. IsFiniteSet(box)' /\ FencedEarly' /\ Filed' /\ Gathered' /\ Unobserved'
  BY DEF IInv, FencedEarly, Filed, Gathered, Unobserved
<1>7. TypeOK'
  BY <1>2, <1>3, <1>4, <1>5, <1>6 DEF TypeOK, ServiceType, OrderType, WriterType, BoxType, PassType, FenceEpoch
<1>8. QED
  BY <1>2, <1>3, <1>4, <1>5, <1>6, <1>7 DEF IInv

LEMMA RestartStep == IInv /\ Restart => IInv'
<1> SUFFICES ASSUME IInv, Restart PROVE IInv'
  OBVIOUS
<1> USE DEF Restart, serviceVars, boxVars
<1>0. pc \in [Exchanges -> {"absent", "observe", "record", "user", "assistant", "conclude", "done"}]
  BY DEF IInv, TypeOK
<1>1. /\ pc' \in [Exchanges -> {"absent", "done"}]
      /\ \A e \in Exchanges : /\ pc[e] = "absent" <=> pc'[e] = "absent"
                              /\ pc[e] = "done" => pc'[e] = "done"
  BY <1>0
<1>2. history' \in Seq(Row) /\ Replayed' /\ WrittenOnce' /\ ReplayRespectsDeletion'
  BY <1>1, HistoryKept DEF DoneForGood
<1>3. ServiceType' /\ OrderType' /\ BoxType'
  BY <1>2, Types DEF IInv, ServiceType, OrderType, BoxType
<1>4. PassType'
  BY DEF PassType, NoPass, Roles
<1>5. WriterType'
  <2>1. pc' \in [Exchanges -> {"absent", "observe", "record", "user", "assistant", "conclude", "done"}]
    BY <1>1
  <2>2. cache' \in 0 .. gen' /\ dropped' \subseteq Exchanges
    BY LimitsAssumption DEF IInv, TypeOK
  <2>3. QED
    BY <2>1, <2>2, Types DEF IInv, WriterType
<1>6. Said'
  BY <1>1, SaidKept
<1>7. IsFiniteSet(box)' /\ FencedEarly' /\ Filed' /\ Gathered' /\ Unobserved'
  <2>1. box' = box /\ pass'.queue = {}
    BY DEF NoPass
  <2>2. Filed'
    BY <1>1, <2>1 DEF IInv, TypeOK, Filed
  <2>3. QED
    BY <1>1, <2>1, <2>2 DEF IInv, FencedEarly, Gathered, Unobserved
<1>8. TypeOK'
  BY <1>2, <1>3, <1>4, <1>5, <1>6, <1>7 DEF TypeOK, ServiceType, OrderType, WriterType, BoxType, PassType, FenceEpoch
<1>9. QED
  BY <1>2, <1>3, <1>4, <1>5, <1>6, <1>7, <1>8 DEF IInv

(***************************************************************************)
(* The writers.                                                            *)
(***************************************************************************)
LEMMA ArriveStep ==
  ASSUME IInv, NEW e \in Exchanges, NEW s \in Sessions, Arrive(e, s)
  PROVE  IInv'
<1> USE DEF Arrive, serviceVars, boxVars
<1>1. gen \in Nat /\ cache \in 0 .. gen /\ gen' = gen /\ cache' = cache
  BY LimitsAssumption DEF IInv, TypeOK
<1>2. /\ seen' = [seen EXCEPT ![e].fence = cache]
      /\ seen \in [Exchanges -> [fresh : 0 .. gen, fence : 0 .. gen]]
      /\ since \in [Exchanges -> 0 .. gen]
  BY DEF IInv, TypeOK
<1>3. DoneForGood
  BY DEF DoneForGood, IInv, TypeOK
<1>4. history' \in Seq(Row) /\ Replayed' /\ WrittenOnce' /\ ReplayRespectsDeletion'
  BY <1>3, HistoryKept
<1>5. /\ order \in Seq(Exchanges) /\ Len(order) \in Nat /\ DOMAIN order = 1 .. Len(order)
      /\ order' \in Seq(Exchanges)
      /\ Len(order') = Len(order) + 1
      /\ \A i \in 1 .. Len(order) : order'[i] = order[i]
      /\ order'[Len(order) + 1] = e
      /\ DOMAIN order' = 1 .. Len(order')
  BY AppendProperties, LenProperties DEF IInv, TypeOK
<1>6. OrderType'
  BY <1>5 DEF OrderType, IInv, TypeOK
<1>7. WriterType'
  <2>1. seen' \in [Exchanges -> [fresh : 0 .. gen, fence : 0 .. gen]]
    BY <1>1, <1>2
  <2>2. since' \in [Exchanges -> 0 .. gen]
    BY <1>1, <1>2
  <2>3. /\ session' \in [Exchanges -> Sessions \union {None}]
        /\ pc' \in [Exchanges -> {"absent", "observe", "record", "user", "assistant",
                                  "conclude", "done"}]
    BY DEF IInv, TypeOK
  <2>4. QED
    BY <1>1, <2>1, <2>2, <2>3, Types DEF IInv, WriterType
<1>8. Said'
  <2>1. \A x \in Exchanges : pc'[x] # "absent" <=> pc[x] # "absent" \/ x = e
    BY DEF IInv, TypeOK
  <2>2. \A i \in DOMAIN order : order[i] # e
    BY DEF IInv, Said
  <2>3. \A i, j \in DOMAIN order' : order'[i] = order'[j] => i = j
    BY <1>5, <2>2 DEF IInv, Said
  <2>4. \A x \in Exchanges : (\E i \in DOMAIN order' : order'[i] = x)
                              <=> (\E i \in DOMAIN order : order[i] = x) \/ x = e
    BY <1>5
  <2>5. QED
    BY <2>1, <2>3, <2>4 DEF IInv, Said
<1>9. FencedEarly'
  <2>1. since'[e] = gen /\ seen'[e].fence = cache /\ seen'[e].fresh = seen[e].fresh
    BY <1>2
  <2>2. \A x \in Exchanges : x # e => since'[x] = since[x] /\ seen'[x] = seen[x]
    BY <1>2
  <2>3. seen[e].fresh = 0
    BY DEF IInv, Unobserved
  <2>4. QED
    BY <1>1, <2>1, <2>2, <2>3 DEF IInv, FencedEarly
<1>10. IsFiniteSet(box)' /\ Filed' /\ Gathered' /\ ServiceType' /\ BoxType' /\ PassType'
  <2>1. Filed'
    BY <1>2 DEF IInv, TypeOK, Filed
  <2>2. Gathered'
    BY DEF IInv, TypeOK, Gathered
  <2>3. BoxType'
    BY <1>2 DEF IInv, TypeOK, BoxType, Filed
  <2>4. QED
    BY <1>4, <2>1, <2>2, <2>3, Types DEF IInv, ServiceType, PassType
<1>11. TypeOK'
  BY <1>6, <1>7, <1>10 DEF TypeOK, ServiceType, OrderType, WriterType, BoxType, PassType, FenceEpoch
<1>12. Unobserved'
  BY <1>2 DEF IInv, TypeOK, Unobserved
<1>13. QED
  BY <1>4, <1>8, <1>9, <1>10, <1>11, <1>12 DEF IInv

\* A writer that is under way has nothing in the file and nothing on its way out.
LEMMA UnderWay ==
  ASSUME IInv, NEW e \in Exchanges, pc[e] # "done"
  PROVE  e \notin box /\ e \notin pass.queue
BY DEF IInv, Filed

LEMMA ObserveStep ==
  ASSUME IInv, NEW e \in Exchanges, Observe(e)
  PROVE  IInv'
<1> USE DEF Observe, serviceVars, boxVars
<1>1. gen \in Nat \ {0} /\ gen' = gen /\ cache \in 0 .. gen
  BY LimitsAssumption DEF IInv, TypeOK
<1>2. /\ seen \in [Exchanges -> [fresh : 0 .. gen, fence : 0 .. gen]]
      /\ since \in [Exchanges -> 0 .. gen]
      /\ pc' = [pc EXCEPT ![e] = "record"] /\ pc[e] = "observe"
  BY DEF IInv, TypeOK
<1>3. e \notin box /\ e \notin pass.queue
  BY <1>2, UnderWay
<1>4. /\ \A x \in Exchanges : x # e => /\ pc'[x] = pc[x] /\ seen'[x] = seen[x]
                                       /\ since'[x] = since[x]
      /\ pc'[e] = "record" /\ pc' \in [Exchanges -> {"absent", "observe", "record", "user",
                                           "assistant", "conclude", "done"}]
  BY <1>2 DEF IInv, TypeOK
<1>5. /\ seen' \in [Exchanges -> [fresh : 0 .. gen, fence : 0 .. gen]]
      /\ since' \in [Exchanges -> 0 .. gen] /\ cache' \in 0 .. gen
      /\ kicked' \in BOOLEAN
      /\ \/ seen'[e].fresh = gen /\ seen'[e].fence = gen /\ since'[e] = gen
         \/ seen'[e] = seen[e] /\ since'[e] = since[e]
  <2>1. CASE seen' = [seen EXCEPT ![e] = [fresh |-> gen, fence |-> gen]]
             /\ since' = [since EXCEPT ![e] = gen] /\ cache' = gen /\ kicked' = Kicked
    BY <1>1, <1>2, <2>1 DEF Kicked, IInv, TypeOK
  <2>2. CASE UNCHANGED <<seen, since, cache, kicked>>
    BY <1>1, <1>2, <2>2 DEF IInv, TypeOK
  <2>3. QED
    BY <2>1, <2>2
<1>6. history' \in Seq(Row) /\ Replayed' /\ WrittenOnce' /\ ReplayRespectsDeletion'
  BY <1>2, <1>4, HistoryKept DEF DoneForGood
<1>7. ServiceType' /\ OrderType' /\ WriterType' /\ PassType'
  BY <1>4, <1>5, <1>6, Types DEF IInv, ServiceType, OrderType, WriterType, PassType
<1>8. BoxType' /\ Filed'
  <2>1. \A x \in box \union pass.queue : x \in Exchanges /\ pc'[x] = pc[x] /\ seen'[x] = seen[x]
    BY <1>3, <1>4 DEF IInv, TypeOK
  <2>2. Filed'
    BY <2>1 DEF IInv, Filed
  <2>3. BoxType'
    BY <2>1, Types DEF IInv, BoxType
  <2>4. QED
    BY <2>2, <2>3
<1>9. Said'
  BY <1>2, <1>4, SaidKept
<1>10. FencedEarly'
  BY <1>1, <1>4, <1>5 DEF IInv, FencedEarly
<1>11. Gathered' /\ Unobserved' /\ IsFiniteSet(box)'
  BY <1>2, <1>4 DEF IInv, Gathered, Unobserved
<1>12. TypeOK'
  BY <1>7, <1>8 DEF TypeOK, ServiceType, OrderType, WriterType, BoxType, PassType, FenceEpoch
<1>13. QED
  BY <1>6, <1>8, <1>9, <1>10, <1>11, <1>12 DEF IInv

LEMMA RecordStep ==
  ASSUME IInv, NEW e \in Exchanges, Record(e)
  PROVE  IInv'
<1> USE DEF Record, serviceVars, boxVars
<1>1. /\ pc[e] = "record" /\ pc' \in {[pc EXCEPT ![e] = "done"], [pc EXCEPT ![e] = "user"]}
      /\ \A x \in Exchanges : x # e => pc'[x] = pc[x]
      /\ pc'[e] \in {"done", "user"}
      /\ pc' \in [Exchanges -> {"absent", "observe", "record", "user",
                               "assistant", "conclude", "done"}]
      /\ kicked' \in BOOLEAN
  BY DEF IInv, TypeOK
<1>2. e \notin box /\ e \notin pass.queue
  BY <1>1, UnderWay
<1>3. history' \in Seq(Row) /\ Replayed' /\ WrittenOnce' /\ ReplayRespectsDeletion'
  BY <1>1, HistoryKept DEF DoneForGood
<1>4. /\ BoxType' /\ IsFiniteSet(box') /\ box' \subseteq box \union {e}
      /\ e \in box' => pc'[e] = "done" /\ seen[e].fence # 0
  <2>1. CASE Queues(e) /\ Put(e) /\ pc' = [pc EXCEPT ![e] = "done"]
    BY <1>1, <2>1, PutSteps DEF Queues, FenceEpoch, IInv, TypeOK
  <2>2. CASE Queues(e) /\ PutRefused
    <3>1. BoxType' /\ IsFiniteSet(box') /\ box' = Fresh
      BY <2>2, PutSteps DEF Queues, PutRefused
    <3>2. QED
      BY <1>2, <3>1 DEF Fresh
  <2>3. CASE UNCHANGED boxVars
    BY <1>2, <2>3, Types DEF IInv, BoxType
  <2>4. QED
    BY <2>1, <2>2, <2>3
<1>5. ServiceType' /\ OrderType' /\ WriterType' /\ PassType'
  BY <1>1, <1>3, Types DEF IInv, ServiceType, OrderType, WriterType, PassType
<1>6. Filed'
  BY <1>1, <1>2, <1>4 DEF IInv, TypeOK, Filed
<1>7. Said'
  BY <1>1, SaidKept
<1>8. FencedEarly' /\ Gathered' /\ Unobserved'
  BY <1>1 DEF IInv, FencedEarly, Gathered, Unobserved
<1>9. TypeOK'
  BY <1>4, <1>5 DEF TypeOK, ServiceType, OrderType, WriterType, BoxType, PassType, FenceEpoch
<1>10. QED
  BY <1>3, <1>4, <1>6, <1>7, <1>8, <1>9 DEF IInv

LEMMA WriteRowStep ==
  ASSUME IInv, NEW e \in Exchanges, NEW role \in Roles, WriteRow(e, role)
  PROVE  IInv'
<1> USE DEF WriteRow, boxVars
<1>1. PICK outcome \in Outcomes :
        /\ AppendTurn(e, role, seen[e].fresh, FALSE, outcome)
        /\ outcomes' = [outcomes EXCEPT ![e] = @ \union {outcome}]
  OBVIOUS
<1>2. /\ pc[e] = role /\ role \in {"user", "assistant"}
      /\ pc'[e] \in {"assistant", "conclude"}
      /\ \A x \in Exchanges : x # e => pc'[x] = pc[x] /\ outcomes'[x] = outcomes[x]
      /\ pc' \in [Exchanges -> {"absent", "observe", "record", "user",
                               "assistant", "conclude", "done"}]
      /\ outcomes' \in [Exchanges -> SUBSET Outcomes]
  BY <1>1 DEF IInv, TypeOK, Roles
<1>3. e \notin box /\ e \notin pass.queue
  BY <1>2, UnderWay
<1>4. history' \in Seq(Row) /\ Replayed' /\ WrittenOnce' /\ ReplayRespectsDeletion'
  BY <1>1, <1>2, HistoryGrows DEF DoneForGood
<1>5. ServiceType' /\ OrderType' /\ WriterType' /\ PassType' /\ BoxType'
  BY <1>2, <1>4, Types DEF IInv, ServiceType, OrderType, WriterType, PassType, BoxType
<1>6. Filed'
  BY <1>2, <1>3 DEF IInv, TypeOK, Filed
<1>7. Said'
  BY <1>2, SaidKept
<1>8. FencedEarly' /\ Gathered' /\ Unobserved' /\ IsFiniteSet(box)'
  BY <1>2 DEF IInv, FencedEarly, Gathered, Unobserved
<1>9. TypeOK'
  BY <1>5 DEF TypeOK, ServiceType, OrderType, WriterType, BoxType, PassType, FenceEpoch
<1>10. QED
  BY <1>4, <1>6, <1>7, <1>8, <1>9 DEF IInv

LEMMA ConcludeStep ==
  ASSUME IInv, NEW e \in Exchanges, Conclude(e)
  PROVE  IInv'
<1> USE DEF Conclude, serviceVars, boxVars
<1>1. /\ pc[e] = "conclude" /\ pc'[e] = "done" /\ outcomes'[e] = {}
      /\ \A x \in Exchanges : x # e => pc'[x] = pc[x] /\ outcomes'[x] = outcomes[x]
      /\ pc' \in [Exchanges -> {"absent", "observe", "record", "user",
                               "assistant", "conclude", "done"}]
      /\ outcomes' \in [Exchanges -> SUBSET Outcomes]
      /\ kicked' \in BOOLEAN /\ dropped' \subseteq Exchanges
  BY DEF IInv, TypeOK, Kicked
<1>2. e \notin box /\ e \notin pass.queue
  BY <1>1, UnderWay
<1>3. history' \in Seq(Row) /\ Replayed' /\ WrittenOnce' /\ ReplayRespectsDeletion'
  BY <1>1, HistoryKept DEF DoneForGood
<1>4. /\ BoxType' /\ IsFiniteSet(box') /\ box' \subseteq box \union {e}
      /\ e \in box' => seen[e].fence # 0
  <2>1. CASE Keeps(e) /\ (Put(e) \/ PutRefused)
    BY <2>1, PutSteps DEF Keeps, FenceEpoch
  <2>2. CASE ~Keeps(e)
    BY <1>2, <2>2, Types DEF IInv, BoxType
  <2>3. QED
    BY <2>1, <2>2
<1>5. ServiceType' /\ OrderType' /\ WriterType' /\ PassType'
  BY <1>1, <1>3, Types DEF IInv, ServiceType, OrderType, WriterType, PassType
<1>6. Filed'
  BY <1>1, <1>2, <1>4 DEF IInv, TypeOK, Filed
<1>7. Said'
  BY <1>1, SaidKept
<1>8. FencedEarly' /\ Gathered' /\ Unobserved'
  BY <1>1 DEF IInv, FencedEarly, Gathered, Unobserved
<1>9. TypeOK'
  BY <1>4, <1>5 DEF TypeOK, ServiceType, OrderType, WriterType, BoxType, PassType, FenceEpoch
<1>10. QED
  BY <1>3, <1>4, <1>6, <1>7, <1>8, <1>9 DEF IInv

(***************************************************************************)
(* The replay loop.                                                        *)
(***************************************************************************)
\* A smaller file is still one.
LEMMA LessInBox ==
  ASSUME IInv, box' \subseteq box, due' \subseteq box', UNCHANGED <<behind, seen>>
  PROVE  BoxType' /\ IsFiniteSet(box')
<1>1. IsFiniteSet(box) /\ box' \in SUBSET box /\ Cardinality(box) <= Capacity
  BY DEF IInv, TypeOK
<1>2. /\ IsFiniteSet(box') /\ Cardinality(box') <= Cardinality(box)
      /\ Cardinality(box') \in Nat /\ Cardinality(box) \in Nat
  BY <1>1, FS_Subset, FS_CardinalityType
<1>3. Cardinality(box') <= Capacity
  BY <1>1, <1>2, LimitsAssumption
<1>4. QED
  BY <1>2, <1>3 DEF IInv, TypeOK, BoxType, FenceEpoch

\* A step of the loop: writers stand still, and it takes from the file only.
LEMMA LoopKeeps ==
  ASSUME IInv, UNCHANGED <<gen, cache, writerVars, behind, old, dropped>>,
         history' \in Seq(Row), Replayed', WrittenOnce', ReplayRespectsDeletion',
         kicked' \in BOOLEAN, box' \subseteq box, due' \subseteq box', PassType',
         pass'.queue \subseteq box \union pass.queue
  PROVE  IInv'
<1> USE DEF writerVars
<1>1. BoxType' /\ IsFiniteSet(box')
  BY LessInBox
<1>2. ServiceType' /\ OrderType' /\ WriterType'
  BY Types DEF IInv, ServiceType, OrderType, WriterType
<1>3. Filed'
  BY DEF IInv, Filed
<1>4. Said'
  BY SaidKept
<1>5. FencedEarly' /\ Gathered' /\ Unobserved'
  BY DEF IInv, FencedEarly, Gathered, Unobserved
<1>6. TypeOK'
  BY <1>1, <1>2 DEF TypeOK, ServiceType, OrderType, WriterType, BoxType, PassType, FenceEpoch
<1>7. QED
  BY <1>1, <1>3, <1>4, <1>5, <1>6 DEF IInv

LEMMA StartPassStep == IInv /\ StartPass => IInv'
<1> SUFFICES ASSUME IInv, StartPass PROVE IInv'
  OBVIOUS
<1> USE DEF StartPass, serviceVars, writerVars
<1>1. history' \in Seq(Row) /\ Replayed' /\ WrittenOnce' /\ ReplayRespectsDeletion'
  BY HistoryKept DEF DoneForGood
<1>2. box' \subseteq box /\ due' \subseteq box' /\ box \subseteq Exchanges
  BY DEF Fresh, IInv, TypeOK
<1>3. /\ pass'.queue = Sendable(box', due') /\ Sendable(box', due') \subseteq box'
      /\ pass' = [queue |-> Sendable(box', due'),
                  at |-> IF Sendable(box', due') = {} THEN "idle" ELSE "user",
                  outcome |-> None]
  BY DEF Sendable, FirstBatch
<1>4. PassType'
  BY <1>2, <1>3 DEF PassType, Roles
<1>5. QED
  BY <1>1, <1>2, <1>3, <1>4, LoopKeeps

LEMMA SendRowStep ==
  ASSUME IInv, NEW e \in Exchanges, NEW role \in Roles, SendRow(e, role)
  PROVE  IInv'
<1> USE DEF SendRow, writerVars, boxVars
<1>1. PICK outcome \in Outcomes :
        /\ AppendTurn(e, role, FenceEpoch(e), TRUE, outcome)
        /\ pass' = IF role = "user" /\ outcome = "appended" THEN [pass EXCEPT !.at = "assistant"]
                   ELSE [pass EXCEPT !.at = "sent", !.outcome = outcome]
  OBVIOUS
<1>2. PassType' /\ pass'.queue = pass.queue
  BY <1>1 DEF IInv, TypeOK, PassType, Roles
<1>3. pc[e] = "done" /\ FenceEpoch(e) # 0
  BY DEF IInv, Filed, Sending, FenceEpoch
<1>4. /\ gen \in Nat /\ since[e] \in 0 .. gen /\ FenceEpoch(e) <= since[e]
      /\ FenceEpoch(e) \in Nat
  BY LimitsAssumption DEF IInv, TypeOK, FencedEarly, FenceEpoch
<1>5. Current(FenceEpoch(e)) => since[e] = gen
  BY <1>3, <1>4 DEF Current
<1>6. history' \in Seq(Row) /\ Replayed' /\ WrittenOnce' /\ ReplayRespectsDeletion'
  BY <1>1, <1>3, <1>5, HistoryGrows DEF DoneForGood
<1>7. QED
  BY <1>2, <1>6, LoopKeeps DEF IInv, TypeOK

LEMMA SettleStep ==
  ASSUME IInv, NEW e \in Exchanges, Settle(e)
  PROVE  IInv'
<1> USE DEF Settle, serviceVars, writerVars
<1>1. history' \in Seq(Row) /\ Replayed' /\ WrittenOnce' /\ ReplayRespectsDeletion'
  BY HistoryKept DEF DoneForGood
<1>2. box' \subseteq box /\ due' \subseteq box'
  BY DEF IInv, TypeOK
<1>3. PassType' /\ pass'.queue \subseteq pass.queue
  BY DEF Rest, IInv, TypeOK, PassType, Roles
<1>4. QED
  BY <1>1, <1>2, <1>3, LoopKeeps DEF IInv, TypeOK

LEMMA RipenStep ==
  ASSUME IInv, NEW e \in Exchanges, Ripen(e)
  PROVE  IInv'
<1> USE DEF Ripen, serviceVars, writerVars
<1>1. history' \in Seq(Row) /\ Replayed' /\ WrittenOnce' /\ ReplayRespectsDeletion'
  BY HistoryKept DEF DoneForGood
<1>2. box' \subseteq box /\ due' \subseteq box' /\ PassType' /\ kicked' \in BOOLEAN
  BY Types DEF IInv, TypeOK, PassType
<1>3. QED
  BY <1>1, <1>2, LoopKeeps

(***************************************************************************)
(* Every step.                                                             *)
(***************************************************************************)
LEMMA StutterKeepsIInv == IInv /\ UNCHANGED vars => IInv'
BY DEF IInv, vars, serviceVars, writerVars, boxVars, TypeOK, FenceEpoch, FencedEarly, Filed,
       Replayed, Said, Gathered, Unobserved, WrittenOnce, ReplayRespectsDeletion

LEMMA NextKeepsIInv == IInv /\ [Next]_vars => IInv'
<1> SUFFICES ASSUME IInv, [Next]_vars PROVE IInv'
  OBVIOUS
<1>1. ASSUME NEW e \in Exchanges, WriterStep(e) PROVE IInv'
  BY <1>1, ArriveStep, ObserveStep, RecordStep, WriteRowStep, ConcludeStep DEF WriterStep
<1>2. ASSUME NEW e \in Exchanges, Ripen(e) PROVE IInv'
  BY <1>2, RipenStep
<1>3. CASE LoopStep
  BY <1>3, StartPassStep, SendRowStep, SettleStep DEF LoopStep
<1>4. CASE DeleteMemory \/ Age \/ Restart
  BY <1>4, DeleteStep, AgeStep, RestartStep
<1>5. CASE UNCHANGED vars
  BY <1>5, StutterKeepsIInv
<1>6. QED
  BY <1>1, <1>2, <1>3, <1>4, <1>5 DEF Next

LEMMA AlwaysIInv == Spec => []IInv
BY InitIInv, NextKeepsIInv, PTL DEF Spec

\* Every variable keeps its type, and the outbox never holds more than its capacity.
THEOREM TypeCorrect == Spec => []TypeOK
<1>1. IInv => TypeOK
  BY DEF IInv
<1>2. QED
  BY <1>1, AlwaysIInv, PTL

\* A turn is in the conversation history once, however often its rows are sent again.
THEOREM RowsAreWrittenOnce == Spec => []WrittenOnce
<1>1. IInv => WrittenOnce
  BY DEF IInv
<1>2. QED
  BY <1>1, AlwaysIInv, PTL

\* What was said before a deletion is never replayed after it.
THEOREM DeletionIsFinal == Spec => []ReplayRespectsDeletion
<1>1. IInv => ReplayRespectsDeletion
  BY DEF IInv
<1>2. QED
  BY <1>1, AlwaysIInv, PTL

(***************************************************************************)
(* Nothing is lost: what a writer and the loop know of a turn that may     *)
(* still be written.                                                       *)
(***************************************************************************)
\* A writer that was told of no failure has its rows in the conversation.
Writing(e) ==
  FenceEpoch(e) = gen =>
    /\ "refused" \notin outcomes[e]
    /\ pc[e] = "assistant" => "unavailable" \in outcomes[e] \/ Holds(e, "user")
    /\ pc[e] = "conclude" => "unavailable" \in outcomes[e] \/ Written(e)

\* So has the loop.
Delivering(e) ==
  Sending(e) /\ FenceEpoch(e) = gen =>
    /\ pass.at = "assistant" => Holds(e, "user")
    /\ pass.at = "sent" => /\ pass.outcome # "refused"
                           /\ pass.outcome = "appended" => Written(e)

\* A pass that sent a turn knows the outcome.
Answered == pass.at = "sent" => pass.outcome # None

LInv == NothingLost /\ Answered /\ \A e \in Exchanges : Writing(e) /\ Delivering(e)

LEMMA InitLInv == Init => LInv
BY DEF Init, LInv, NothingLost, Answered, Writing, Delivering, Sending, NoPass

(***************************************************************************)
(* The place of a turn in the order is one, and it keeps it.               *)
(***************************************************************************)
LEMMA OnePosition ==
  ASSUME NEW o, \A i, j \in DOMAIN o : o[i] = o[j] => i = j, NEW k \in DOMAIN o
  PROVE  (CHOOSE i \in DOMAIN o : o[i] = o[k]) = k
<1>1. \E i \in DOMAIN o : o[i] = o[k]
  OBVIOUS
<1> DEFINE c == CHOOSE i \in DOMAIN o : o[i] = o[k]
<1>2. c \in DOMAIN o /\ o[c] = o[k]
  BY <1>1
<1> HIDE DEF c
<1>3. c = k
  BY <1>2
<1>4. QED
  BY <1>3 DEF c

LEMMA PositionOf ==
  ASSUME IInv, NEW e \in Exchanges, pc[e] # "absent"
  PROVE  /\ Position(e) \in DOMAIN order /\ order[Position(e)] = e
         /\ Position(e) \in Nat
<1>1. PICK k \in DOMAIN order : order[k] = e
  BY DEF IInv, Said
<1>2. Position(e) = k
  BY <1>1, OnePosition DEF IInv, Said, Position
<1>3. DOMAIN order = 1 .. Len(order) /\ Len(order) \in Nat
  BY LenProperties DEF IInv, TypeOK
<1>4. QED
  BY <1>1, <1>2, <1>3

\* The order grows at its end only.
OrderGrows ==
  /\ \A i \in DOMAIN order : i \in DOMAIN order' /\ order'[i] = order[i]
  /\ \A i, j \in DOMAIN order' : order'[i] = order'[j] => i = j

LEMMA PositionKept ==
  ASSUME IInv, OrderGrows, NEW e \in Exchanges, pc[e] # "absent"
  PROVE  Position(e)' = Position(e)
<1>1. Position(e) \in DOMAIN order /\ order[Position(e)] = e
  BY PositionOf
<1>2. Position(e) \in DOMAIN order' /\ order'[Position(e)] = e
  BY <1>1 DEF OrderGrows
<1> DEFINE k == Position(e)
<1> HIDE DEF k
<1>3. k \in DOMAIN order' /\ order'[k] = e
  BY <1>2 DEF k
<1>4. (CHOOSE i \in DOMAIN order' : order'[i] = e) = k
  BY <1>3, OnePosition DEF OrderGrows
<1>5. QED
  BY <1>4 DEF Position, k

LEMMA SendingKept ==
  ASSUME IInv, OrderGrows, pass' = pass, NEW e \in Exchanges, Sending(e)'
  PROVE  Sending(e)
<1>1. \A f \in pass.queue : f \in Exchanges /\ pc[f] # "absent" /\ Position(f)' = Position(f)
  BY PositionKept DEF IInv, TypeOK, Filed
<1>2. e \in pass.queue /\ \A f \in pass.queue : Earlier(e, f)'
  BY DEF Sending
<1>3. \A f \in pass.queue : Earlier(e, f)' => Earlier(e, f)
  BY <1>1, <1>2 DEF Earlier
<1>4. QED
  BY <1>2, <1>3 DEF Sending

LEMMA OneSending ==
  ASSUME IInv, NEW e \in Exchanges, NEW f \in Exchanges, Sending(e), Sending(f)
  PROVE  e = f
<1>1. e \in pass.queue /\ f \in pass.queue /\ Earlier(e, f) /\ Earlier(f, e)
  BY DEF Sending
<1>2. pc[e] # "absent" /\ pc[f] # "absent"
  BY <1>1 DEF IInv, Filed
<1>3. Position(e) = Position(f)
  BY <1>1, <1>2, PositionOf DEF Earlier
<1>4. QED
  BY <1>2, <1>3, PositionOf

LEMMA SameOrder == IInv /\ order' = order => OrderGrows
BY DEF OrderGrows, IInv, Said

(***************************************************************************)
(* What steps keep of it.                                                  *)
(***************************************************************************)
HistoryKeeps == \A e \in Exchanges, role \in Roles : Holds(e, role) => Holds(e, role)'

LEMMA WrittenKept ==
  ASSUME HistoryKeeps, NEW e \in Exchanges, Written(e)
  PROVE  Written(e)'
BY DEF HistoryKeeps, Written

LEMMA WritingKept ==
  ASSUME LInv, HistoryKeeps, UNCHANGED gen, NEW e \in Exchanges,
         pc'[e] = pc[e], outcomes'[e] = outcomes[e], seen'[e] = seen[e]
  PROVE  Writing(e)'
<1>1. FenceEpoch(e)' = FenceEpoch(e) /\ Writing(e)
  BY DEF FenceEpoch, LInv
<1>2. "user" \in Roles
  BY DEF Roles
<1>3. QED
  BY <1>1, <1>2, WrittenKept DEF Writing, HistoryKeeps

LEMMA DeliveringKept ==
  ASSUME IInv, LInv, HistoryKeeps, OrderGrows, UNCHANGED <<gen, pass>>,
         \A e \in Exchanges : pc[e] = "done" => seen'[e] = seen[e]
  PROVE  Answered' /\ \A e \in Exchanges : Delivering(e)'
<1>1. Answered'
  BY DEF LInv, Answered
<1>2. SUFFICES ASSUME NEW e \in Exchanges, Sending(e)', FenceEpoch(e)' = gen'
               PROVE  Delivering(e)'
  BY <1>1 DEF Delivering
<1>3. Sending(e) /\ e \in pass.queue
  BY <1>2, SendingKept DEF Sending
<1>4. FenceEpoch(e) = gen /\ "user" \in Roles
  BY <1>2, <1>3 DEF IInv, Filed, FenceEpoch, Roles
<1>5. Delivering(e)
  BY DEF LInv
<1>6. QED
  BY <1>3, <1>4, <1>5, WrittenKept DEF Delivering, HistoryKeeps

\* A turn that is done and may be written is where it was, or has its rows.
LEMMA StillThere ==
  ASSUME LInv, HistoryKeeps, UNCHANGED gen, dropped \subseteq dropped',
         Expired \subseteq Expired',
         \A e \in Exchanges :
           pc'[e] = "done" /\ FenceEpoch(e)' = gen =>
             \/ e \in box' \union dropped' \/ Written(e)'
             \/ /\ pc[e] = "done" /\ seen'[e] = seen[e]
                /\ e \in box => e \in box' \union Expired
  PROVE  NothingLost'
<1>1. SUFFICES ASSUME NEW e \in Exchanges, pc'[e] = "done", FenceEpoch(e)' = gen'
               PROVE  e \in box' \union dropped' \union Expired' \/ Written(e)'
  BY DEF NothingLost
<1>2. CASE e \in box' \union dropped' \/ Written(e)'
  BY <1>2
<1>3. CASE /\ pc[e] = "done" /\ seen'[e] = seen[e]
           /\ e \in box => e \in box' \union Expired
  <2>1. FenceEpoch(e) = gen
    BY <1>1, <1>3 DEF FenceEpoch
  <2>2. e \in box \union dropped \union Expired \/ Written(e)
    BY <1>3, <2>1 DEF LInv, NothingLost
  <2>3. QED
    BY <1>3, <2>2, WrittenKept
<1>4. QED
  BY <1>1, <1>2, <1>3

LEMMA HistorySame == history' = history => HistoryKeeps
BY DEF HistoryKeeps, Holds

(***************************************************************************)
(* Nothing is lost by any step.                                            *)
(***************************************************************************)
LEMMA LDelete ==
  ASSUME IInv, LInv, DeleteMemory PROVE LInv'
<1> USE DEF DeleteMemory, writerVars, boxVars
<1>1. \A e \in Exchanges : FenceEpoch(e)' # gen'
  <2>1. gen \in Nat /\ gen' = gen + 1
    BY LimitsAssumption DEF IInv, TypeOK
  <2>2. \A e \in Exchanges : seen[e].fence \in 0 .. gen
    BY DEF IInv, TypeOK
  <2>3. QED
    BY <2>1, <2>2 DEF FenceEpoch
<1>2. Answered'
  BY DEF LInv, Answered
<1>3. QED
  BY <1>1, <1>2 DEF LInv, NothingLost, Writing, Delivering

LEMMA LAge ==
  ASSUME IInv, LInv, Age PROVE LInv'
<1> USE DEF Age, serviceVars, writerVars, boxVars
<1>1. HistoryKeeps /\ OrderGrows
  BY HistorySame, SameOrder
<1>2. Expired \subseteq Expired'
  <2>1. old \in Nat /\ old' = old + 1
    BY LenProperties DEF IInv, TypeOK
  <2>2. QED
    BY <2>1 DEF Expired
<1>3. NothingLost'
  BY <1>1, <1>2, StillThere
<1>4. \A e \in Exchanges : Writing(e)'
  BY <1>1, WritingKept
<1>5. Answered' /\ \A e \in Exchanges : Delivering(e)'
  BY <1>1, DeliveringKept
<1>6. QED
  BY <1>3, <1>4, <1>5 DEF LInv

LEMMA LRestart ==
  ASSUME IInv, LInv, Restart PROVE LInv'
<1> USE DEF Restart, serviceVars, boxVars
<1>1. HistoryKeeps
  BY HistorySame
<1>2. pc \in [Exchanges -> {"absent", "observe", "record", "user", "assistant", "conclude", "done"}]
  BY DEF IInv, TypeOK
<1>3. \A e \in Exchanges :
        /\ pc'[e] \in {"absent", "done"} /\ outcomes'[e] = {}
        /\ pc'[e] = "done" => pc[e] = "done" \/ e \in dropped'
  BY <1>2
<1>4. NothingLost'
  <2>1. dropped \subseteq dropped' /\ Expired' = Expired
    BY DEF Expired
  <2>2. QED
    BY <1>1, <1>3, <2>1, StillThere
<1>5. \A e \in Exchanges : Writing(e)'
  BY <1>3 DEF Writing
<1>6. Answered' /\ \A e \in Exchanges : Delivering(e)'
  BY DEF Answered, Delivering, Sending, NoPass
<1>7. QED
  BY <1>4, <1>5, <1>6 DEF LInv

LEMMA LArrive ==
  ASSUME IInv, IInv', LInv, NEW e \in Exchanges, NEW s \in Sessions, Arrive(e, s) PROVE LInv'
<1> USE DEF Arrive, serviceVars, boxVars
<1>1. HistoryKeeps
  BY HistorySame
<1>2. /\ \A x \in Exchanges : x # e => /\ pc'[x] = pc[x] /\ seen'[x] = seen[x]
                                       /\ outcomes'[x] = outcomes[x]
      /\ pc'[e] = "observe" /\ outcomes'[e] = {}
  BY DEF IInv, TypeOK, Gathered
<1>3. /\ \A i \in 1 .. Len(order) : order'[i] = order[i]
      /\ DOMAIN order = 1 .. Len(order) /\ DOMAIN order' = 1 .. Len(order) + 1
      /\ Len(order) \in Nat /\ old \in 0 .. Len(order)
  BY AppendProperties, LenProperties DEF IInv, TypeOK
<1>4. OrderGrows
  BY <1>3 DEF OrderGrows, IInv, Said
<1>5. Expired' = Expired
  <2>1. \A i \in 1 .. old : order'[i] = order[i]
    BY <1>3
  <2>2. QED
    BY <2>1 DEF Expired
<1>6. NothingLost'
  BY <1>1, <1>2, <1>5, StillThere
<1>7. \A x \in Exchanges : Writing(x)'
  <2>1. Writing(e)'
    BY <1>2 DEF Writing
  <2>2. QED
    BY <1>1, <1>2, <2>1, WritingKept
<1>8. Answered' /\ \A x \in Exchanges : Delivering(x)'
  BY <1>1, <1>2, <1>4, DeliveringKept
<1>9. QED
  BY <1>6, <1>7, <1>8 DEF LInv

LEMMA LObserve ==
  ASSUME IInv, LInv, NEW e \in Exchanges, Observe(e) PROVE LInv'
<1> USE DEF Observe, serviceVars, boxVars
<1>1. HistoryKeeps /\ OrderGrows
  BY HistorySame, SameOrder
<1>2. /\ \A x \in Exchanges : x # e => pc'[x] = pc[x] /\ seen'[x] = seen[x]
      /\ pc[e] = "observe" /\ pc'[e] = "record" /\ outcomes'[e] = {} /\ outcomes' = outcomes
  BY DEF IInv, TypeOK, Gathered
<1>3. NothingLost'
  <2>1. Expired' = Expired
    BY DEF Expired
  <2>2. QED
    BY <1>1, <1>2, <2>1, StillThere
<1>4. \A x \in Exchanges : Writing(x)'
  <2>1. Writing(e)'
    BY <1>2 DEF Writing
  <2>2. QED
    BY <1>1, <1>2, <2>1, WritingKept
<1>5. Answered' /\ \A x \in Exchanges : Delivering(x)'
  BY <1>1, <1>2, DeliveringKept
<1>6. QED
  BY <1>3, <1>4, <1>5 DEF LInv

LEMMA LRecord ==
  ASSUME IInv, LInv, NEW e \in Exchanges, Record(e) PROVE LInv'
<1> USE DEF Record, serviceVars
<1>1. HistoryKeeps /\ OrderGrows
  BY HistorySame, SameOrder
<1>2. /\ \A x \in Exchanges : x # e => pc'[x] = pc[x]
      /\ pc[e] = "record" /\ pc'[e] \in {"done", "user"} /\ outcomes'[e] = {}
  BY DEF IInv, TypeOK, Gathered
<1>3. NothingLost'
  <2>1. Expired' = Expired
    BY DEF Expired
  <2>2. Fresh \subseteq box' \/ box' = box
    BY DEF Put, PutRefused, boxVars
  <2>3. \A x \in box : x \in box' \union Expired
    BY <2>2 DEF Fresh
  <2>4. pc'[e] = "done" => e \in box'
    BY <1>2 DEF Put, IInv, TypeOK
  <2>5. QED
    BY <1>1, <1>2, <2>1, <2>3, <2>4, StillThere
<1>4. \A x \in Exchanges : Writing(x)'
  <2>1. Writing(e)'
    BY <1>2 DEF Writing
  <2>2. QED
    BY <1>1, <1>2, <2>1, WritingKept
<1>5. Answered' /\ \A x \in Exchanges : Delivering(x)'
  BY <1>1, <1>2, DeliveringKept
<1>6. QED
  BY <1>3, <1>4, <1>5 DEF LInv

LEMMA LWriteRow ==
  ASSUME IInv, LInv, NEW e \in Exchanges, NEW role \in Roles, WriteRow(e, role) PROVE LInv'
<1> USE DEF WriteRow, boxVars
<1>1. PICK outcome \in Outcomes :
        /\ AppendTurn(e, role, seen[e].fresh, FALSE, outcome)
        /\ outcomes' = [outcomes EXCEPT ![e] = @ \union {outcome}]
  OBVIOUS
<1>2. /\ outcome = "appended" => Holds(e, role)'
      /\ outcome = "refused" => ~Current(seen[e].fresh)
      /\ HistoryKeeps
  <2>1. gen' = gen /\ FALSE \in BOOLEAN
    OBVIOUS
  <2>2. AppendTurn(e, role, seen[e].fresh, FALSE, outcome)
    BY <1>1
  <2> HIDE DEF WriteRow
  <2>3. QED
    BY <2>1, <2>2, AppendSteps DEF HistoryKeeps
<1>3. /\ \A x \in Exchanges : x # e => pc'[x] = pc[x] /\ outcomes'[x] = outcomes[x]
      /\ pc[e] = role /\ pc'[e] = IF role = "user" THEN "assistant" ELSE "conclude"
      /\ outcomes'[e] = outcomes[e] \union {outcome}
  BY <1>1 DEF IInv, TypeOK
<1>4. NothingLost'
  <2>1. Expired' = Expired
    BY DEF Expired
  <2>2. QED
    BY <1>2, <1>3, <2>1, StillThere
<1>5. Writing(e)'
  <2>1. SUFFICES ASSUME FenceEpoch(e) = gen PROVE Writing(e)'
    BY DEF Writing, FenceEpoch
  <2>2. outcome \in {"appended", "unavailable"}
    BY <1>2, <2>1 DEF Current, IInv, FencedEarly, FenceEpoch, Outcomes
  <2>3. CASE role = "user"
    <3>1. outcomes[e] = {}
      BY <1>3, <2>3 DEF IInv, Gathered
    <3>2. QED
      BY <1>2, <1>3, <2>2, <2>3, <3>1 DEF Writing
  <2>4. CASE role = "assistant"
    <3>1. /\ "refused" \notin outcomes[e]
          /\ "unavailable" \in outcomes[e] \/ Holds(e, "user")
      BY <1>3, <2>1, <2>4 DEF LInv, Writing
    <3>2. "unavailable" \in outcomes'[e] \/ Written(e)'
      BY <1>2, <1>3, <2>2, <2>4, <3>1 DEF Written, HistoryKeeps, Roles
    <3>3. QED
      BY <1>3, <2>2, <2>4, <3>1, <3>2 DEF Writing
  <2>5. QED
    BY <2>3, <2>4 DEF Roles
<1>6. \A x \in Exchanges : Writing(x)'
  BY <1>2, <1>3, <1>5, WritingKept
<1>7. Answered' /\ \A x \in Exchanges : Delivering(x)'
  BY <1>2, SameOrder, DeliveringKept
<1>8. QED
  BY <1>4, <1>6, <1>7 DEF LInv

LEMMA LConclude ==
  ASSUME IInv, LInv, NEW e \in Exchanges, Conclude(e) PROVE LInv'
<1> USE DEF Conclude, serviceVars
<1>1. HistoryKeeps /\ OrderGrows
  BY HistorySame, SameOrder
<1>2. /\ \A x \in Exchanges : x # e => pc'[x] = pc[x] /\ outcomes'[x] = outcomes[x]
      /\ pc[e] = "conclude" /\ pc'[e] = "done" /\ outcomes'[e] = {}
  BY DEF IInv, TypeOK
<1>3. NothingLost'
  <2>1. Expired' = Expired /\ dropped \subseteq dropped'
    BY DEF Expired
  <2>2. Fresh \subseteq box' \/ box' = box
    BY DEF Put, PutRefused, boxVars
  <2>3. \A x \in box : x \in box' \union Expired
    BY <2>2 DEF Fresh
  <2>4. FenceEpoch(e)' = gen => e \in box' \union dropped' \/ Written(e)'
    <3>1. SUFFICES ASSUME FenceEpoch(e) = gen, ~Keeps(e) PROVE Written(e)'
      BY DEF FenceEpoch, Put
    <3>2. gen # 0
      BY LimitsAssumption DEF IInv, TypeOK
    <3>3. Written(e)
      BY <1>2, <3>1, <3>2 DEF Keeps, LInv, Writing
    <3>4. QED
      BY <1>1, <3>3, WrittenKept
  <2>5. QED
    BY <1>1, <1>2, <2>1, <2>3, <2>4, StillThere
<1>4. \A x \in Exchanges : Writing(x)'
  <2>1. Writing(e)'
    BY <1>2 DEF Writing
  <2>2. QED
    BY <1>1, <1>2, <2>1, WritingKept
<1>5. Answered' /\ \A x \in Exchanges : Delivering(x)'
  BY <1>1, DeliveringKept
<1>6. QED
  BY <1>3, <1>4, <1>5 DEF LInv

LEMMA LStartPass ==
  ASSUME IInv, LInv, StartPass PROVE LInv'
<1> USE DEF StartPass, serviceVars, writerVars
<1>1. HistoryKeeps
  BY HistorySame
<1>2. NothingLost'
  <2>1. Expired' = Expired
    BY DEF Expired
  <2>2. QED
    BY <1>1, <2>1, StillThere DEF Fresh
<1>3. \A x \in Exchanges : Writing(x)'
  BY <1>1, WritingKept
<1>4. pass'.at \in {"idle", "user"}
  OBVIOUS
<1>5. Answered' /\ \A x \in Exchanges : Delivering(x)'
  BY <1>4 DEF Answered, Delivering
<1>6. QED
  BY <1>2, <1>3, <1>5 DEF LInv

LEMMA LSendRow ==
  ASSUME IInv, LInv, NEW e \in Exchanges, NEW role \in Roles, SendRow(e, role) PROVE LInv'
<1> USE DEF SendRow, writerVars, boxVars
<1>1. PICK outcome \in Outcomes :
        /\ AppendTurn(e, role, FenceEpoch(e), TRUE, outcome)
        /\ pass' = IF role = "user" /\ outcome = "appended" THEN [pass EXCEPT !.at = "assistant"]
                   ELSE [pass EXCEPT !.at = "sent", !.outcome = outcome]
  OBVIOUS
<1>2. /\ outcome = "appended" => Holds(e, role)'
      /\ outcome = "refused" => ~Current(FenceEpoch(e))
      /\ HistoryKeeps
  BY <1>1, AppendSteps DEF HistoryKeeps
<1>3. NothingLost'
  <2>1. Expired' = Expired
    BY DEF Expired
  <2>2. QED
    BY <1>2, <2>1, StillThere
<1>4. \A x \in Exchanges : Writing(x)'
  BY <1>2, WritingKept
<1>5. pass.queue = pass'.queue /\ pass \in [queue : SUBSET Exchanges,
         at : Roles \union {"idle", "sent"}, outcome : Outcomes \union {None}]
  BY <1>1 DEF IInv, TypeOK
<1>6. Answered'
  BY <1>1, <1>5 DEF Answered, Outcomes, None
<1>7. ASSUME NEW x \in Exchanges PROVE Delivering(x)'
  <2>1. SUFFICES ASSUME Sending(x)', FenceEpoch(x)' = gen' PROVE Delivering(x)'
    BY DEF Delivering
  <2>2. Sending(x) /\ FenceEpoch(x) = gen
    BY <1>5, <2>1 DEF Sending, FenceEpoch, Earlier, Position
  <2>3. x = e
    BY <2>2, OneSending
  <2>4. outcome # "refused"
    BY <1>2, <2>2, <2>3 DEF Current
  <2>5. CASE role = "user" /\ outcome = "appended"
    BY <1>1, <1>2, <1>5, <2>3, <2>5 DEF Delivering
  <2>6. CASE ~(role = "user" /\ outcome = "appended")
    <3>1. pass'.at = "sent" /\ pass'.outcome = outcome
      BY <1>1, <1>5, <2>6
    <3>2. outcome = "appended" => Written(x)'
      <4>1. SUFFICES ASSUME outcome = "appended" PROVE Written(x)'
        OBVIOUS
      <4>2. role = "assistant" /\ pass.at = "assistant"
        BY <2>6, <4>1 DEF Roles
      <4>3. Holds(x, "user")
        BY <2>2, <4>2 DEF LInv, Delivering
      <4>4. QED
        BY <1>2, <2>3, <4>1, <4>2, <4>3 DEF Written, HistoryKeeps, Roles
    <3>3. QED
      BY <2>4, <3>1, <3>2 DEF Delivering
  <2>7. QED
    BY <2>5, <2>6
<1>8. QED
  BY <1>3, <1>4, <1>6, <1>7 DEF LInv

\* A turn that leaves the pass may not be written any more or has its rows.
LEMMA LeavesInOrder ==
  ASSUME IInv, LInv, NEW e \in Exchanges, Settle(e), Settled, FenceEpoch(e) = gen
  PROVE  Written(e)
<1>1. pass.at = "sent" /\ pass.outcome \in Outcomes
  BY DEF Settle, LInv, Answered, IInv, TypeOK
<1>2. pass.outcome = "appended"
  <2>1. Delivering(e) /\ Sending(e)
    BY DEF LInv, Settle
  <2>2. pass.outcome # "refused" /\ pass.outcome # "unavailable"
    BY <1>1, <2>1 DEF Delivering, Settled
  <2>3. QED
    BY <1>1, <2>2 DEF Outcomes
<1>3. QED
  BY <1>1, <1>2 DEF Settle, LInv, Delivering

LEMMA LSettle ==
  ASSUME IInv, LInv, NEW e \in Exchanges, Settle(e) PROVE LInv'
<1> USE DEF Settle, serviceVars, writerVars
<1>1. HistoryKeeps
  BY HistorySame
<1>2. NothingLost'
  <2>1. Expired' = Expired
    BY DEF Expired
  <2>2. FenceEpoch(e)' = gen => (e \in box => e \in box' \/ Written(e)')
    BY <1>1, LeavesInOrder, WrittenKept DEF FenceEpoch
  <2>3. \A x \in box : x # e => x \in box'
    OBVIOUS
  <2>4. QED
    BY <1>1, <2>1, <2>2, <2>3, StillThere
<1>3. \A x \in Exchanges : Writing(x)'
  BY <1>1, WritingKept
<1>4. pass'.at \in {"idle", "user"}
  OBVIOUS
<1>5. Answered' /\ \A x \in Exchanges : Delivering(x)'
  BY <1>4 DEF Answered, Delivering
<1>6. QED
  BY <1>2, <1>3, <1>5 DEF LInv

LEMMA LRipen ==
  ASSUME IInv, LInv, NEW e \in Exchanges, Ripen(e) PROVE LInv'
<1> USE DEF Ripen, serviceVars, writerVars
<1>1. HistoryKeeps /\ OrderGrows
  BY HistorySame, SameOrder
<1>2. NothingLost'
  <2>1. Expired' = Expired
    BY DEF Expired
  <2>2. QED
    BY <1>1, <2>1, StillThere
<1>3. \A x \in Exchanges : Writing(x)'
  BY <1>1, WritingKept
<1>4. Answered' /\ \A x \in Exchanges : Delivering(x)'
  BY <1>1, DeliveringKept
<1>5. QED
  BY <1>2, <1>3, <1>4 DEF LInv

LEMMA LStutter ==
  ASSUME IInv, LInv, UNCHANGED vars PROVE LInv'
<1> USE DEF vars, serviceVars, writerVars, boxVars
<1>1. HistoryKeeps /\ OrderGrows
  BY HistorySame, SameOrder
<1>2. NothingLost'
  <2>1. Expired' = Expired
    BY DEF Expired
  <2>2. QED
    BY <1>1, <2>1, StillThere
<1>3. \A x \in Exchanges : Writing(x)'
  BY <1>1, WritingKept
<1>4. Answered' /\ \A x \in Exchanges : Delivering(x)'
  BY <1>1, DeliveringKept
<1>5. QED
  BY <1>2, <1>3, <1>4 DEF LInv

LEMMA NextKeepsLInv == IInv /\ IInv' /\ LInv /\ [Next]_vars => LInv'
<1> SUFFICES ASSUME IInv, IInv', LInv, [Next]_vars PROVE LInv'
  OBVIOUS
<1>1. ASSUME NEW e \in Exchanges, WriterStep(e) PROVE LInv'
  BY <1>1, LArrive, LObserve, LRecord, LWriteRow, LConclude DEF WriterStep
<1>2. ASSUME NEW e \in Exchanges, Ripen(e) PROVE LInv'
  BY <1>2, LRipen
<1>3. CASE LoopStep
  BY <1>3, LStartPass, LSendRow, LSettle DEF LoopStep
<1>4. CASE DeleteMemory \/ Age \/ Restart
  BY <1>4, LDelete, LAge, LRestart
<1>5. CASE UNCHANGED vars
  BY <1>5, LStutter
<1>6. QED
  BY <1>1, <1>2, <1>3, <1>4, <1>5 DEF Next

LEMMA AlwaysLInv == Spec => []LInv
BY InitLInv, NextKeepsLInv, AlwaysIInv, PTL DEF Spec

\* A turn that may still be written is in the conversation, in the outbox or was
\* given up for a reason.
THEOREM NothingIsLost == Spec => []NothingLost
<1>1. LInv => NothingLost
  BY DEF LInv
<1>2. QED
  BY <1>1, AlwaysLInv, PTL

(***************************************************************************)
(* The order of a session: a turn that was put behind others leaves the    *)
(* file after them.                                                        *)
(***************************************************************************)
\* What a turn was put behind was said before it, in its session.
BehindIs ==
  \A e \in Exchanges : \A f \in behind[e] :
    /\ pc[e] = "done" /\ pc[f] = "done" /\ f # e
    /\ session[f] = session[e] /\ Earlier(f, e)

\* A pass that sends a turn sends what it was put behind, or has done so.
InTurn ==
  \A e \in pass.queue : \A f \in behind[e] \cap Fresh :
    f \in pass.queue \/ Written(f) \/ FenceEpoch(f) # gen

KInv == BehindIs /\ InTurn /\ ReplayKeepsOrder

LEMMA InitKInv == Init => KInv
<1> SUFFICES ASSUME Init PROVE KInv
  OBVIOUS
<1>1. DOMAIN history = {}
  BY DEF Init
<1>2. QED
  BY <1>1 DEF Init, KInv, BehindIs, InTurn, ReplayKeepsOrder, NoPass

LEMMA BehindKept ==
  ASSUME IInv, BehindIs, OrderGrows, behind' = behind,
         \A x \in Exchanges : pc[x] = "done" => pc'[x] = "done" /\ session'[x] = session[x]
  PROVE  BehindIs'
<1>1. SUFFICES ASSUME NEW e \in Exchanges, NEW f \in behind[e]
               PROVE  /\ pc'[e] = "done" /\ pc'[f] = "done" /\ f # e
                      /\ session'[f] = session'[e] /\ Earlier(f, e)'
  BY DEF BehindIs
<1>2. f \in Exchanges /\ pc[e] = "done" /\ pc[f] = "done" /\ Earlier(f, e)
  BY <1>1 DEF BehindIs, IInv, TypeOK
<1>3. Position(e)' = Position(e) /\ Position(f)' = Position(f)
  BY <1>2, PositionKept
<1>4. Earlier(f, e)'
  BY <1>2, <1>3 DEF Earlier
<1>5. QED
  BY <1>1, <1>2, <1>4 DEF BehindIs

LEMMA BehindPut ==
  ASSUME IInv, BehindIs, NEW e \in Exchanges, pc[e] \notin {"absent", "done"}, Put(e) \/ PutRefused,
         UNCHANGED <<order, session>>, Put(e) => pc'[e] = "done",
         \A x \in Exchanges : pc[x] = "done" => pc'[x] = "done"
  PROVE  BehindIs'
<1>1. CASE PutRefused
  BY <1>1, BehindKept, SameOrder DEF PutRefused
<1>2. CASE Put(e)
  <2>1. SUFFICES ASSUME NEW x \in Exchanges, NEW f \in behind'[x]
                 PROVE  /\ pc'[x] = "done" /\ pc'[f] = "done" /\ f # x
                        /\ session[f] = session[x] /\ Earlier(f, x)
    BY DEF BehindIs, Earlier, Position
  <2>2. CASE x # e
    <3>1. f \in behind[x] /\ f \in Exchanges
      BY <1>2, <2>1, <2>2 DEF Put, IInv, TypeOK
    <3>2. QED
      BY <3>1 DEF BehindIs
  <2>3. CASE x = e
    <3>1. /\ f \in box /\ f \in Exchanges
          /\ session[f] = session[e] /\ Position(f) < Position(e)
      BY <1>2, <2>1, <2>3 DEF Put, Fresh, IInv, TypeOK
    <3>2. pc[f] = "done" /\ f # e
      BY <3>1 DEF IInv, Filed
    <3>3. Position(f) \in Nat /\ Position(e) \in Nat
      BY <3>1, <3>2, PositionOf
    <3>4. Earlier(f, e)
      BY <3>1, <3>3 DEF Earlier
    <3>5. QED
      BY <1>2, <2>3, <3>1, <3>2, <3>4
  <2>4. QED
    BY <2>2, <2>3
<1>3. QED
  BY <1>1, <1>2

LEMMA KKept ==
  ASSUME IInv, KInv, BehindIs', HistoryKeeps, UNCHANGED gen,
         \A x \in Exchanges :
           pc[x] = "done" => /\ behind'[x] = behind[x] /\ seen'[x] = seen[x]
                             /\ x \in Fresh' => x \in Fresh,
         pass'.queue \in {pass.queue, {}},
         \A i \in DOMAIN history' :
           history'[i].replayed => \E j \in DOMAIN history : history[j] = history'[i]
  PROVE  KInv'
<1>1. \A e \in Exchanges : \A f \in behind[e] : f \in Exchanges /\ pc[f] = "done"
  BY DEF KInv, BehindIs, IInv, TypeOK
<1>2. ASSUME NEW e \in Exchanges, pc[e] = "done", NEW f \in behind'[e] \cap Fresh'
      PROVE  /\ f \in behind[e] \cap Fresh
             /\ (f \in pass.queue \/ Written(f) \/ FenceEpoch(f) # gen)
                  => (f \in pass.queue \/ Written(f)' \/ FenceEpoch(f)' # gen')
             /\ (Written(f) \/ FenceEpoch(f) # gen) => (Written(f)' \/ FenceEpoch(f)' # gen')
  <2>1. f \in behind[e] \cap Fresh /\ f \in Exchanges /\ pc[f] = "done"
    BY <1>1, <1>2
  <2>2. FenceEpoch(f)' = FenceEpoch(f)
    BY <2>1 DEF FenceEpoch
  <2>3. QED
    BY <2>1, <2>2, WrittenKept
<1>3. InTurn'
  <2>1. SUFFICES ASSUME NEW e \in pass'.queue, NEW f \in behind'[e] \cap Fresh'
                 PROVE  f \in pass'.queue \/ Written(f)' \/ FenceEpoch(f)' # gen'
    BY DEF InTurn
  <2>2. pass'.queue = pass.queue /\ e \in pass.queue
    BY <2>1
  <2>3. e \in Exchanges /\ pc[e] = "done"
    BY <2>2 DEF IInv, Filed, TypeOK
  <2>4. f \in behind[e] \cap Fresh
    BY <1>2, <2>3
  <2>5. f \in pass.queue \/ Written(f) \/ FenceEpoch(f) # gen
    BY <2>2, <2>4 DEF KInv, InTurn
  <2>6. QED
    BY <1>2, <2>2, <2>3, <2>5
<1>4. ReplayKeepsOrder'
  <2>1. SUFFICES ASSUME NEW i \in DOMAIN history', history'[i].replayed,
                        NEW f \in behind'[history'[i].exchange] \cap Fresh'
                 PROVE  Written(f)' \/ FenceEpoch(f)' # gen'
    BY DEF ReplayKeepsOrder
  <2>2. PICK j \in DOMAIN history : history[j] = history'[i]
    BY <2>1
  <2> DEFINE e == history'[i].exchange
  <2>3. e \in Exchanges /\ pc[e] = "done" /\ history[j].exchange = e /\ history[j].replayed
    BY <2>1, <2>2, RowTypes DEF IInv, Replayed
  <2> HIDE DEF e
  <2>4. f \in behind'[e] \cap Fresh'
    BY <2>1 DEF e
  <2>5. f \in behind[e] \cap Fresh
    BY <1>2, <2>3, <2>4
  <2>6. Written(f) \/ FenceEpoch(f) # gen
    BY <2>3, <2>5 DEF KInv, ReplayKeepsOrder
  <2>7. QED
    BY <1>2, <2>3, <2>4, <2>6
<1>5. QED
  BY <1>3, <1>4 DEF KInv

\* A turn is sent with what waits before it in its session.
LEMMA SendableIsClosed ==
  ASSUME IInv, NEW W \in SUBSET box, NEW R, NEW e \in Sendable(W, R), NEW f \in W,
         session[f] = session[e], Earlier(f, e)
  PROVE  f \in Sendable(W, R)
<1>1. e \in W /\ \A g \in W : g \in Exchanges /\ Position(g) \in Nat
  <2>1. \A g \in box : g \in Exchanges /\ pc[g] # "absent"
    BY DEF IInv, TypeOK, Filed
  <2>2. QED
    BY <2>1, PositionOf DEF Sendable, FirstBatch
<1>2. \A g \in W : Earlier(g, f) => Earlier(g, e)
  BY <1>1 DEF Earlier
<1> DEFINE Before(x) == {g \in W : Earlier(g, x)}
<1>3. Before(f) \in SUBSET Before(e) /\ Before(e) \in SUBSET box
  BY <1>2
<1>4. IsFiniteSet(box)
  BY DEF IInv
<1>5. IsFiniteSet(Before(e))
  BY <1>3, <1>4, FS_Subset
<1>6. /\ IsFiniteSet(Before(f)) /\ Cardinality(Before(f)) <= Cardinality(Before(e))
      /\ Cardinality(Before(f)) \in Nat /\ Cardinality(Before(e)) \in Nat
  BY <1>3, <1>5, FS_Subset, FS_CardinalityType
<1>7. Cardinality(Before(e)) <= Batch
  BY DEF Sendable, FirstBatch
<1> HIDE DEF Before
<1>8. Cardinality(Before(f)) <= Batch
  BY <1>6, <1>7, LimitsAssumption
<1>9. f \in FirstBatch(W)
  BY <1>8 DEF FirstBatch, Before
<1>10. QED
  BY <1>2, <1>9 DEF Sendable

(***************************************************************************)
(* The order is kept by every step.                                        *)
(***************************************************************************)
LEMMA SameHistory ==
  ASSUME history' = history
  PROVE  /\ HistoryKeeps
         /\ \A i \in DOMAIN history' : \E j \in DOMAIN history : history[j] = history'[i]
BY HistorySame

LEMMA KDelete ==
  ASSUME IInv, KInv, DeleteMemory PROVE KInv'
<1> USE DEF DeleteMemory, writerVars, boxVars
<1>1. \A f \in Exchanges : FenceEpoch(f)' # gen'
  <2>1. gen \in Nat /\ gen' = gen + 1
    BY LimitsAssumption DEF IInv, TypeOK
  <2>2. \A f \in Exchanges : seen[f].fence \in 0 .. gen
    BY DEF IInv, TypeOK
  <2>3. QED
    BY <2>1, <2>2 DEF FenceEpoch
<1>2. BehindIs'
  BY BehindKept, SameOrder DEF KInv
<1>3. \A f \in Fresh' : f \in Exchanges
  BY DEF IInv, TypeOK, Fresh
<1>4. QED
  BY <1>1, <1>2, <1>3 DEF KInv, InTurn, ReplayKeepsOrder

LEMMA KAge ==
  ASSUME IInv, KInv, Age PROVE KInv'
<1> USE DEF Age, serviceVars, writerVars, boxVars
<1>1. BehindIs'
  BY BehindKept, SameOrder DEF KInv
<1>2. Fresh' \subseteq Fresh
  <2>1. old \in Nat /\ old' = old + 1
    BY LenProperties DEF IInv, TypeOK
  <2>2. QED
    BY <2>1 DEF Fresh, Expired
<1>3. QED
  BY <1>1, <1>2, SameHistory, KKept

LEMMA KRestart ==
  ASSUME IInv, KInv, Restart PROVE KInv'
<1> USE DEF Restart, serviceVars, boxVars
<1>1. \A x \in Exchanges : pc[x] = "done" => pc'[x] = "done"
  BY DEF IInv, TypeOK
<1>2. BehindIs'
  BY <1>1, BehindKept, SameOrder DEF KInv
<1>3. pass'.queue = {} /\ Fresh' = Fresh
  BY DEF NoPass, Fresh, Expired
<1>4. QED
  BY <1>2, <1>3, SameHistory, KKept

LEMMA KArrive ==
  ASSUME IInv, KInv, IInv', NEW e \in Exchanges, NEW s \in Sessions, Arrive(e, s) PROVE KInv'
<1> USE DEF Arrive, serviceVars, boxVars
<1>1. /\ \A i \in 1 .. Len(order) : order'[i] = order[i]
      /\ DOMAIN order = 1 .. Len(order) /\ DOMAIN order' = 1 .. Len(order) + 1
      /\ Len(order) \in Nat /\ old \in 0 .. Len(order)
  BY AppendProperties, LenProperties DEF IInv, TypeOK
<1>2. OrderGrows
  BY <1>1 DEF OrderGrows, IInv, Said
<1>3. \A x \in Exchanges : pc[x] = "done" => /\ pc'[x] = "done" /\ session'[x] = session[x]
                                             /\ seen'[x] = seen[x]
  BY DEF IInv, TypeOK
<1>4. BehindIs'
  BY <1>2, <1>3, BehindKept DEF KInv
<1>5. Fresh' = Fresh
  <2>1. \A i \in 1 .. old : order'[i] = order[i]
    BY <1>1
  <2>2. QED
    BY <2>1 DEF Fresh, Expired
<1>6. QED
  BY <1>3, <1>4, <1>5, SameHistory, KKept

LEMMA KObserve ==
  ASSUME IInv, KInv, NEW e \in Exchanges, Observe(e) PROVE KInv'
<1> USE DEF Observe, serviceVars, boxVars
<1>1. \A x \in Exchanges : pc[x] = "done" => pc'[x] = "done" /\ seen'[x] = seen[x]
  BY DEF IInv, TypeOK
<1>2. BehindIs'
  BY <1>1, BehindKept, SameOrder DEF KInv
<1>3. Fresh' = Fresh
  BY DEF Fresh, Expired
<1>4. QED
  BY <1>1, <1>2, <1>3, SameHistory, KKept

\* Putting a turn in the file, or failing to.
LEMMA KPut ==
  ASSUME IInv, KInv, NEW e \in Exchanges, pc[e] \notin {"absent", "done"},
         Put(e) \/ PutRefused, Put(e) => pc'[e] = "done",
         \A x \in Exchanges : pc[x] = "done" => pc'[x] = "done",
         UNCHANGED <<gen, history, order, session, seen, old, pass>>
  PROVE  KInv'
<1>1. BehindIs'
  BY BehindPut DEF KInv
<1>2. Fresh' \subseteq Fresh \union {e}
  BY DEF Put, PutRefused, Fresh, Expired
<1>3. \A x \in Exchanges : pc[x] = "done" => behind'[x] = behind[x]
  BY DEF Put, PutRefused, IInv, TypeOK
<1>4. QED
  BY <1>1, <1>2, <1>3, SameHistory, KKept

LEMMA KRecord ==
  ASSUME IInv, KInv, NEW e \in Exchanges, Record(e) PROVE KInv'
<1> USE DEF Record, serviceVars
<1>1. /\ pc[e] = "record"
      /\ \A x \in Exchanges : pc[x] = "done" => pc'[x] = "done"
      /\ pc' = [pc EXCEPT ![e] = "done"] => pc'[e] = "done"
  BY DEF IInv, TypeOK
<1>2. CASE Put(e) /\ pc' = [pc EXCEPT ![e] = "done"]
  BY <1>1, <1>2, KPut
<1>3. CASE PutRefused /\ ~Put(e)
  BY <1>1, <1>3, KPut
<1>4. CASE UNCHANGED boxVars
  <2>1. BehindIs'
    BY <1>1, <1>4, BehindKept, SameOrder DEF KInv, boxVars
  <2>2. Fresh' = Fresh
    BY <1>4 DEF Fresh, Expired, boxVars
  <2>3. QED
    BY <1>4, <2>1, <2>2, SameHistory, KKept DEF boxVars
<1>5. PutRefused => ~Put(e)
  <2>1. e \notin box
    BY <1>1, UnderWay
  <2>2. QED
    BY <2>1 DEF Put, PutRefused, Fresh
<1>6. QED
  BY <1>2, <1>3, <1>4, <1>5

LEMMA KConclude ==
  ASSUME IInv, KInv, NEW e \in Exchanges, Conclude(e) PROVE KInv'
<1> USE DEF Conclude, serviceVars
<1>1. /\ pc[e] = "conclude" /\ pc'[e] = "done"
      /\ \A x \in Exchanges : pc[x] = "done" => pc'[x] = "done"
  BY DEF IInv, TypeOK
<1>2. CASE Put(e) \/ PutRefused
  BY <1>1, <1>2, KPut
<1>3. CASE UNCHANGED boxVars
  <2>1. BehindIs'
    BY <1>1, <1>3, BehindKept, SameOrder DEF KInv, boxVars
  <2>2. Fresh' = Fresh
    BY <1>3 DEF Fresh, Expired, boxVars
  <2>3. QED
    BY <1>3, <2>1, <2>2, SameHistory, KKept DEF boxVars
<1>4. QED
  BY <1>2, <1>3

LEMMA KWriteRow ==
  ASSUME IInv, KInv, NEW e \in Exchanges, NEW role \in Roles, WriteRow(e, role) PROVE KInv'
<1> USE DEF boxVars
<1>1. PICK outcome \in Outcomes : AppendTurn(e, role, seen[e].fresh, FALSE, outcome)
  BY DEF WriteRow
<1>2. FALSE \in BOOLEAN /\ gen' = gen
  BY DEF WriteRow
<1>3. /\ HistoryKeeps
      /\ \A i \in DOMAIN history' :
           history'[i].replayed => \E j \in DOMAIN history : history[j] = history'[i]
  BY <1>1, <1>2, AppendSteps DEF HistoryKeeps
<1>4. \A x \in Exchanges : pc[x] = "done" => pc'[x] = "done"
  BY DEF WriteRow, IInv, TypeOK, Roles
<1>5. BehindIs'
  BY <1>4, BehindKept, SameOrder DEF KInv, WriteRow
<1>6. Fresh' = Fresh
  BY DEF Fresh, Expired, WriteRow
<1>7. QED
  BY <1>3, <1>5, <1>6, KKept DEF WriteRow

LEMMA KRipen ==
  ASSUME IInv, KInv, NEW e \in Exchanges, Ripen(e) PROVE KInv'
<1> USE DEF Ripen, serviceVars, writerVars
<1>1. BehindIs'
  BY BehindKept, SameOrder DEF KInv
<1>2. Fresh' = Fresh
  BY DEF Fresh, Expired
<1>3. QED
  BY <1>1, <1>2, SameHistory, KKept

LEMMA KStutter ==
  ASSUME IInv, KInv, UNCHANGED vars PROVE KInv'
<1> USE DEF vars, serviceVars, writerVars, boxVars
<1>1. BehindIs'
  BY BehindKept, SameOrder DEF KInv
<1>2. Fresh' = Fresh
  BY DEF Fresh, Expired
<1>3. QED
  BY <1>1, <1>2, SameHistory, KKept

LEMMA KStartPass ==
  ASSUME IInv, KInv, StartPass PROVE KInv'
<1> USE DEF StartPass, serviceVars, writerVars
<1>1. BehindIs'
  BY BehindKept, SameOrder DEF KInv
<1>2. box' = Fresh /\ Fresh' = Fresh /\ Fresh \in SUBSET box
  BY DEF Fresh, Expired
<1>3. pass'.queue = Sendable(box', due')
  OBVIOUS
<1>4. InTurn'
  <2>1. SUFFICES ASSUME NEW e \in pass'.queue, NEW f \in behind[e] \cap Fresh
                 PROVE  f \in pass'.queue
    BY <1>2 DEF InTurn
  <2>2. e \in Exchanges
    BY <1>2, <1>3, <2>1 DEF Sendable, FirstBatch, IInv, TypeOK
  <2>3. session[f] = session[e] /\ Earlier(f, e)
    BY <2>1, <2>2 DEF KInv, BehindIs
  <2>4. QED
    BY <1>2, <1>3, <2>1, <2>3, SendableIsClosed
<1>5. ReplayKeepsOrder'
  <2>1. HistoryKeeps
    BY SameHistory
  <2>2. \A f \in Fresh : f \in Exchanges
    BY <1>2 DEF IInv, TypeOK
  <2>3. SUFFICES ASSUME NEW i \in DOMAIN history, history[i].replayed,
                        NEW f \in behind[history[i].exchange] \cap Fresh
                 PROVE  Written(f)' \/ FenceEpoch(f)' # gen'
    BY <1>2 DEF ReplayKeepsOrder
  <2>4. Written(f) \/ FenceEpoch(f) # gen
    BY <2>3 DEF KInv, ReplayKeepsOrder
  <2>5. QED
    BY <2>1, <2>2, <2>4, WrittenKept DEF FenceEpoch
<1>6. QED
  BY <1>1, <1>4, <1>5 DEF KInv

LEMMA KSendRow ==
  ASSUME IInv, KInv, NEW e \in Exchanges, NEW role \in Roles, SendRow(e, role) PROVE KInv'
<1> USE DEF writerVars, boxVars
<1>1. PICK outcome \in Outcomes : AppendTurn(e, role, FenceEpoch(e), TRUE, outcome)
  BY DEF SendRow
<1>2. /\ TRUE \in BOOLEAN /\ gen' = gen /\ behind' = behind /\ pass'.queue = pass.queue
      /\ Sending(e) /\ UNCHANGED <<order, session, pc, seen, box, old>>
  BY DEF SendRow, IInv, TypeOK
<1>3. /\ HistoryKeeps
      /\ \A i \in DOMAIN history' :
           \/ i \in DOMAIN history /\ history'[i] = history[i]
           \/ history'[i].exchange = e
  BY <1>1, <1>2, AppendSteps DEF HistoryKeeps
<1>4. BehindIs'
  BY <1>2, BehindKept, SameOrder DEF KInv
<1>5. Fresh' = Fresh /\ \A f \in Fresh : f \in Exchanges
  BY <1>2 DEF Fresh, Expired, IInv, TypeOK
<1>6. ASSUME NEW f \in Exchanges, Written(f) \/ FenceEpoch(f) # gen
      PROVE  Written(f)' \/ FenceEpoch(f)' # gen'
  BY <1>2, <1>3, <1>6, WrittenKept DEF FenceEpoch
<1>7. InTurn'
  BY <1>2, <1>5, <1>6 DEF KInv, InTurn
<1>8. \A f \in behind[e] \cap Fresh : Written(f) \/ FenceEpoch(f) # gen
  <2>1. SUFFICES ASSUME NEW f \in behind[e] \cap Fresh, f \in pass.queue PROVE FALSE
    BY <1>2 DEF KInv, InTurn, Sending
  <2>2. f \in Exchanges /\ Earlier(f, e) /\ f # e
    BY <1>5, <2>1 DEF KInv, BehindIs
  <2>3. Sending(f)
    <3>1. \A g \in pass.queue \union {e, f} : g \in Exchanges /\ pc[g] # "absent"
      BY <1>2, <2>1, <2>2 DEF Sending, IInv, TypeOK, Filed
    <3>2. \A g \in pass.queue \union {e, f} : Position(g) \in Nat
      BY <3>1, PositionOf
    <3>3. \A g \in pass.queue : Earlier(e, g)
      BY <1>2 DEF Sending
    <3>4. \A g \in pass.queue : Earlier(f, g)
      BY <2>2, <3>2, <3>3 DEF Earlier
    <3>5. QED
      BY <2>1, <3>4 DEF Sending
  <2>4. QED
    BY <1>2, <2>2, <2>3, OneSending
<1>9. ReplayKeepsOrder'
  <2>1. SUFFICES ASSUME NEW i \in DOMAIN history', history'[i].replayed,
                        NEW f \in behind[history'[i].exchange] \cap Fresh
                 PROVE  Written(f)' \/ FenceEpoch(f)' # gen'
    BY <1>2, <1>5 DEF ReplayKeepsOrder
  <2>2. CASE i \in DOMAIN history /\ history'[i] = history[i]
    BY <1>5, <1>6, <2>1, <2>2 DEF KInv, ReplayKeepsOrder
  <2>3. CASE history'[i].exchange = e
    BY <1>5, <1>6, <1>8, <2>1, <2>3
  <2>4. QED
    BY <1>3, <2>2, <2>3
<1>10. QED
  BY <1>4, <1>7, <1>9 DEF KInv

LEMMA KSettle ==
  ASSUME IInv, LInv, KInv, NEW e \in Exchanges, Settle(e) PROVE KInv'
<1> USE DEF serviceVars, writerVars
<1>1. /\ UNCHANGED <<gen, history, behind, order, session, pc, seen, old>>
      /\ box' \subseteq box /\ pass'.queue = Rest(e)
  BY DEF Settle
<1>2. BehindIs'
  BY <1>1, BehindKept, SameOrder DEF KInv
<1>3. /\ HistoryKeeps /\ Fresh' \subseteq Fresh
      /\ \A f \in Fresh : f \in Exchanges
  BY <1>1, SameHistory DEF Fresh, Expired, IInv, TypeOK
<1>4. ASSUME NEW f \in Exchanges, Written(f) \/ FenceEpoch(f) # gen
      PROVE  Written(f)' \/ FenceEpoch(f)' # gen'
  BY <1>1, <1>3, <1>4, WrittenKept DEF FenceEpoch
<1>5. InTurn'
  <2>1. SUFFICES ASSUME NEW x \in pass'.queue, NEW f \in behind[x] \cap Fresh, f \notin pass'.queue
                 PROVE  Written(f) \/ FenceEpoch(f) # gen
    BY <1>1, <1>3, <1>4 DEF InTurn
  <2>2. /\ Settled /\ pass'.queue = pass.queue \ {e}
    BY <1>1, <2>1 DEF Rest, Settled
  <2>3. CASE f = e
    BY <2>2, <2>3, LeavesInOrder
  <2>4. CASE f # e
    BY <2>1, <2>2, <2>4 DEF KInv, InTurn
  <2>5. QED
    BY <2>3, <2>4
<1>6. ReplayKeepsOrder'
  BY <1>1, <1>3, <1>4 DEF KInv, ReplayKeepsOrder
<1>7. QED
  BY <1>2, <1>5, <1>6 DEF KInv

LEMMA NextKeepsKInv == IInv /\ IInv' /\ LInv /\ KInv /\ [Next]_vars => KInv'
<1> SUFFICES ASSUME IInv, IInv', LInv, KInv, [Next]_vars PROVE KInv'
  OBVIOUS
<1>1. ASSUME NEW e \in Exchanges, WriterStep(e) PROVE KInv'
  BY <1>1, KArrive, KObserve, KRecord, KWriteRow, KConclude DEF WriterStep
<1>2. ASSUME NEW e \in Exchanges, Ripen(e) PROVE KInv'
  BY <1>2, KRipen
<1>3. CASE LoopStep
  BY <1>3, KStartPass, KSendRow, KSettle DEF LoopStep
<1>4. CASE DeleteMemory \/ Age \/ Restart
  BY <1>4, KDelete, KAge, KRestart
<1>5. CASE UNCHANGED vars
  BY <1>5, KStutter
<1>6. QED
  BY <1>1, <1>2, <1>3, <1>4, <1>5 DEF Next

\* A turn that was put behind waiting turns of its session is not replayed before
\* them, however passes fail, back off or are cut short.
THEOREM OrderIsKept == Spec => []ReplayKeepsOrder
<1>1. KInv => ReplayKeepsOrder
  BY DEF KInv
<1>2. QED
  BY <1>1, InitKInv, NextKeepsKInv, AlwaysIInv, AlwaysLInv, PTL DEF Spec
===============================================================================
