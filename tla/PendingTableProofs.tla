-------------------------- MODULE PendingTableProofs --------------------------
(***************************************************************************)
(* Sessions of any number of turns and suspended operations, tables of any *)
(* capacity, any number of faults: what the table promises of every        *)
(* operation that no write based on an older table has put back, and what  *)
(* the fence promises of all.                                              *)
(***************************************************************************)
EXTENDS PendingTable, SequenceTheorems, WellFoundedInduction, TLAPS

(***************************************************************************)
(* Entries.  Without is a recursive function over the prefixes of its      *)
(* argument; what it returns is shown by induction, which is here the      *)
(* least-number principle.                                                 *)
(***************************************************************************)
Less == {p \in Nat \X Nat : p[1] < p[2]}

LEMMA LessIsWellFounded == IsWellFoundedOn(Less, Nat)
<1>1. Less = OpToRel(<, Nat)
  BY DEF Less, OpToRel
<1>2. QED
  BY <1>1, NatLessThanWellFounded

\* Every set of naturals that is not empty has a least number.
LEMMA Least ==
  ASSUME NEW T \in SUBSET Nat, T # {}
  PROVE  \E x \in T : \A y \in T : x <= y
<1>1. PICK x \in T : \A y \in T : <<y, x>> \notin Less
  BY LessIsWellFounded, WFMin
<1>2. ASSUME NEW y \in T PROVE x <= y
  <2>1. y < x => <<y, x>> \in Less
    <3>1. <<y, x>> \in Nat \X Nat /\ <<y, x>>[1] = y /\ <<y, x>>[2] = x
      OBVIOUS
    <3>2. QED
      BY <3>1, Zenon DEF Less
  <2>2. QED
    BY <1>1, <2>1
<1>3. QED
  BY <1>2

LEMMA ToSetIs ==
  ASSUME NEW S, NEW s \in Seq(S)
  PROVE  ToSet(s) = {s[i] : i \in 1 .. Len(s)} /\ ToSet(s) \subseteq S
BY DEF ToSet

LEMMA ToSetEmpty ==
  ASSUME NEW S
  PROVE  <<>> \in Seq(S) /\ Len(<<>>) = 0 /\ ToSet(<<>>) = {}
BY DEF ToSet

LEMMA ToSetAppend ==
  ASSUME NEW S, NEW s \in Seq(S), NEW e \in S
  PROVE  /\ Append(s, e) \in Seq(S) /\ Len(Append(s, e)) = Len(s) + 1
         /\ ToSet(Append(s, e)) = ToSet(s) \union {e}
<1> DEFINE t == Append(s, e)
<1>1. /\ t \in Seq(S) /\ Len(t) = Len(s) + 1 /\ Len(s) \in Nat
      /\ \A i \in 1 .. Len(s) : t[i] = s[i]
      /\ t[Len(s) + 1] = e
  BY AppendProperties, LenProperties
<1> HIDE DEF t
<1>2. ToSet(t) = {t[i] : i \in 1 .. Len(s) + 1} /\ ToSet(s) = {s[i] : i \in 1 .. Len(s)}
  BY <1>1, ToSetIs
<1>3. ToSet(t) = ToSet(s) \union {e}
  BY <1>1, <1>2
<1>4. QED
  BY <1>1, <1>3 DEF t

\* What is kept of the first i entries, from what is kept of the first i - 1.
KeepBy(f, entries, ids, i) ==
  IF i = 0 THEN <<>>
  ELSE IF entries[i].id \in ids THEN f[i - 1]
  ELSE Append(f[i - 1], entries[i])

KeepsTo(n, f, entries, ids) == f = [i \in 0 .. n |-> KeepBy(f, entries, ids, i)]

LEMMA KeepExists ==
  ASSUME NEW entries, NEW ids, NEW len \in Nat
  PROVE  \E f : KeepsTo(len, f, entries, ids)
<1> DEFINE without == {n \in Nat : n <= len /\ ~\E f : KeepsTo(n, f, entries, ids)}
<1>1. SUFFICES ASSUME without # {} PROVE FALSE
  OBVIOUS
<1>2. PICK n \in without : \A m \in without : n <= m
  BY <1>1, Least
<1>3. n # 0
  <2> DEFINE f == [i \in 0 .. 0 |-> <<>>]
  <2>1. \A i \in 0 .. 0 : KeepBy(f, entries, ids, i) = <<>>
    BY DEF KeepBy
  <2>2. KeepsTo(0, f, entries, ids)
    BY <2>1 DEF KeepsTo
  <2>3. QED
    BY <1>2, <2>2
<1>4. n - 1 \in Nat /\ n - 1 <= len /\ n - 1 \notin without
  BY <1>2, <1>3
<1>5. PICK f : KeepsTo(n - 1, f, entries, ids)
  BY <1>4
<1> DEFINE g == [i \in 0 .. n |-> IF i = n THEN KeepBy(f, entries, ids, n) ELSE f[i]]
<1>6. ASSUME NEW i \in 0 .. (n - 1) PROVE g[i] = f[i] /\ f[i] = KeepBy(f, entries, ids, i)
  <2>1. i \in 0 .. n /\ i # n
    BY <1>2
  <2>2. g[i] = f[i]
    BY <2>1
  <2>3. f[i] = KeepBy(f, entries, ids, i)
    <3> HIDE DEF g
    <3>1. QED
      BY <1>5, Zenon DEF KeepsTo
  <2>4. QED
    BY <2>2, <2>3
<1>7. ASSUME NEW i \in 0 .. n PROVE KeepBy(g, entries, ids, i) = KeepBy(f, entries, ids, i)
  <2>1. i = 0 \/ i - 1 \in 0 .. (n - 1)
    BY <1>2
  <2>2. i = 0 \/ g[i - 1] = f[i - 1]
    BY <1>6, <2>1
  <2> HIDE DEF g
  <2>3. QED
    BY <2>2 DEF KeepBy
<1>8. ASSUME NEW i \in 0 .. n PROVE g[i] = KeepBy(f, entries, ids, i)
  <2>1. CASE i = n
    BY <1>2, <2>1
  <2>2. CASE i # n
    <3>1. i \in 0 .. (n - 1)
      BY <1>2, <2>2
    <3>2. QED
      BY <1>6, <3>1
  <2>3. QED
    BY <2>1, <2>2
<1>9. KeepsTo(n, g, entries, ids)
  <2>1. g = [i \in 0 .. n |-> g[i]]
    OBVIOUS
  <2> HIDE DEF g
  <2>2. QED
    BY <1>7, <1>8, <2>1 DEF KeepsTo
<1>10. QED
  BY <1>2, <1>9

LEMMA WithoutKeeps ==
  ASSUME NEW entries \in Seq(Entry), NEW ids
  PROVE  \E f : KeepsTo(Len(entries), f, entries, ids) /\ Without(entries, ids) = f[Len(entries)]
<1> DEFINE f == CHOOSE h : KeepsTo(Len(entries), h, entries, ids)
<1>1. KeepsTo(Len(entries), f, entries, ids)
  BY KeepExists, LenProperties
<1>2. Without(entries, ids) = f[Len(entries)]
  BY DEF Without, KeepsTo, KeepBy
<1>3. QED
  BY <1>1, <1>2

\* session.py: filtering a table keeps its entries but for those with the ids.
LEMMA WithoutIs ==
  ASSUME NEW entries \in Seq(Entry), NEW ids
  PROVE  /\ Without(entries, ids) \in Seq(Entry)
         /\ Len(Without(entries, ids)) <= Len(entries)
         /\ ToSet(Without(entries, ids)) = {e \in ToSet(entries) : e.id \notin ids}
<1>1. PICK f : KeepsTo(Len(entries), f, entries, ids)
               /\ Without(entries, ids) = f[Len(entries)]
  BY WithoutKeeps
<1> DEFINE len == Len(entries)
           Good(i) == /\ f[i] \in Seq(Entry) /\ Len(f[i]) <= i
                      /\ ToSet(f[i]) = {e \in {entries[j] : j \in 1 .. i} : e.id \notin ids}
           bad == {i \in 0 .. len : ~Good(i)}
<1>2. len \in Nat /\ \A i \in 1 .. len : entries[i] \in Entry
  BY LenProperties, ElementOfSeq
<1>3. \A i \in 0 .. len : f[i] = KeepBy(f, entries, ids, i)
  BY <1>1 DEF KeepsTo
<1> HIDE DEF len, Good
<1>4. Good(0)
  <2>1. f[0] = <<>>
    BY <1>2, <1>3 DEF KeepBy
  <2>2. QED
    BY <2>1, ToSetEmpty DEF Good
<1>5. ASSUME NEW i \in 1 .. len, Good(i - 1) PROVE Good(i)
  <2>1. /\ i \in Nat /\ i # 0 /\ i \in 0 .. len /\ entries[i] \in Entry
        /\ f[i] = KeepBy(f, entries, ids, i)
    BY <1>2, <1>3
  <2>2. {entries[j] : j \in 1 .. i} = {entries[j] : j \in 1 .. (i - 1)} \union {entries[i]}
    BY <2>1
  <2>3. CASE entries[i].id \in ids
    <3>1. f[i] = f[i - 1]
      BY <2>1, <2>3 DEF KeepBy
    <3>2. Len(f[i - 1]) <= i
      BY <1>5, <2>1, LenProperties DEF Good
    <3>3. QED
      BY <1>5, <2>2, <2>3, <3>1, <3>2 DEF Good
  <2>4. CASE entries[i].id \notin ids
    <3>1. f[i] = Append(f[i - 1], entries[i])
      BY <2>1, <2>4 DEF KeepBy
    <3>2. /\ f[i] \in Seq(Entry) /\ Len(f[i]) = Len(f[i - 1]) + 1
          /\ ToSet(f[i]) = ToSet(f[i - 1]) \union {entries[i]}
      BY <1>5, <2>1, <3>1, ToSetAppend DEF Good
    <3>3. Len(f[i]) <= i
      BY <1>5, <2>1, <3>2, LenProperties DEF Good
    <3>4. QED
      BY <1>5, <2>2, <2>4, <3>2, <3>3 DEF Good
  <2>5. QED
    BY <2>3, <2>4
<1>6. Good(len)
  <2>1. SUFFICES ASSUME bad # {} PROVE FALSE
    BY <1>2
  <2>2. bad \in SUBSET Nat
    BY <1>2
  <2>3. PICK i \in bad : \A k \in bad : i <= k
    BY <2>1, <2>2, Least
  <2>4. i \in 1 .. len /\ i - 1 \in 0 .. len /\ i - 1 \notin bad
    BY <1>2, <1>4, <2>3
  <2>5. QED
    BY <1>5, <2>3, <2>4
<1>7. ToSet(entries) = {entries[j] : j \in 1 .. len}
  BY ToSetIs DEF len
<1>8. QED
  BY <1>1, <1>6, <1>7 DEF Good, len

(***************************************************************************)
(* The inductive invariant.                                                *)
(***************************************************************************)
\* A copy of an entry, in the table or about to be written back to it.
Copy(e) == e \in ToSet(table) \/ \E t \in Turns : pc[t] = "write" /\ e \in ToSet(snap[t])
\* It can be claimed.
Open(id) == \E e \in ToSet(table) : e.id = id /\ ~e.claimed
Resuming(t, id) == pc[t] = "resume" /\ job[t].removes = id

\* What the session already knows of an operation, and what it is about to save.
Known(id) ==
  \/ \E e \in Entry : Copy(e) /\ e.id = id
  \/ \E t \in Turns : pc[t] # "idle" /\ job[t].removes = id
  \/ dispatched[id] > 0
  \/ \E what \in Notices : Said(id, what)
Saving(t, id) == pc[t] # "idle" /\ job[t].adds = id

Typed ==
  /\ TypeOK
  /\ \A t \in Turns :
       /\ Len(snap[t]) <= Capacity
       /\ pc[t] # "idle" => job[t] \in Job
       /\ pc[t] \in {"claim", "resume"} => job[t].removes \in Pendings /\ job[t].adds = NoPending

\* An operation is saved under an id that nothing carries yet.
FreshIds ==
  /\ \A id \in Pendings : Known(id) => id \in used
  /\ \A t \in Turns, id \in Pendings : Saving(t, id) =>
       id \in used /\ ~Known(id) /\ \A u \in Turns : Saving(u, id) => u = t

\* While an operation can be claimed nobody has resumed or cancelled it, and whoever
\* won the claim is the only one, and comes before any cancellation.
ClaimedOnce ==
  /\ \A id \in Pendings \ revived : Open(id) =>
       dispatched[id] = 0 /\ ~Said(id, "cancelled") /\ \A t \in Turns : ~Resuming(t, id)
  /\ \A t \in Turns, id \in Pendings \ revived : Resuming(t, id) =>
       /\ dispatched[id] = 0 /\ ~Said(id, "cancelled")
       /\ \A u \in Turns : Resuming(u, id) => u = t

\* What was closed is out of the table, hidden by a tombstone, or to be wiped before
\* the fence is lifted.
Shut ==
  \A id \in Pendings \ revived :
    /\ Said(id, "deleted") => id \notin Ids(table)
    /\ Said(id, "closed") => fence \/ id \notin Ids(table) \/ id \in tombs

IInv == Typed /\ FreshIds /\ ClaimedOnce /\ Shut /\ ConsumedOnce /\ CancelledNeverRuns

(***************************************************************************)
(* What a turn reads, claims and writes back.                              *)
(***************************************************************************)
LEMMA VisibleIs ==
  ASSUME TypeOK
  PROVE  /\ Visible \in Seq(Entry) /\ Len(Visible) <= Capacity
         /\ ToSet(Visible) = IF fence THEN {} ELSE {e \in ToSet(table) : e.id \notin tombs}
<1>1. table \in Seq(Entry) /\ Len(table) \in Nat /\ Len(table) <= Capacity
  BY LenProperties DEF TypeOK
<1>2. CASE fence
  BY <1>2, ToSetEmpty, CapacityAssumption DEF Visible
<1>3. CASE ~fence
  <2>1. Visible = Without(table, tombs)
    BY <1>3 DEF Visible
  <2>2. /\ Visible \in Seq(Entry) /\ Len(Visible) <= Len(table) /\ Len(Visible) \in Nat
        /\ ToSet(Visible) = {e \in ToSet(table) : e.id \notin tombs}
    BY <1>1, <2>1, WithoutIs, LenProperties
  <2>3. QED
    BY <1>1, <1>3, <2>2, CapacityAssumption
<1>4. QED
  BY <1>2, <1>3

\* claim_result marks the operation's entries and keeps the others it can see.
LEMMA ClaimedIs ==
  ASSUME TypeOK, NEW id \in Pendings
  PROVE  /\ Claimed(id) \in Seq(Entry) /\ Len(Claimed(id)) <= Capacity
         /\ \A e \in ToSet(Claimed(id)) :
              /\ e \in Entry /\ (e.id = id => e.claimed)
              /\ \E o \in ToSet(Visible) : o.id = e.id /\ (~e.claimed => e = o)
<1> DEFINE v == Visible
           Mark(i) == IF v[i].id = id THEN [v[i] EXCEPT !.claimed = TRUE] ELSE v[i]
           c == [i \in 1 .. Len(v) |-> Mark(i)]
<1>1. v \in Seq(Entry) /\ Len(v) \in Nat /\ Len(v) <= Capacity /\ \A i \in 1 .. Len(v) : v[i] \in Entry
  BY VisibleIs, LenProperties, ElementOfSeq
<1>2. Claimed(id) = c
  BY DEF Claimed
<1> HIDE DEF v
<1>3. ASSUME NEW i \in 1 .. Len(v)
      PROVE  /\ Mark(i) \in Entry /\ (Mark(i).id = id => Mark(i).claimed)
             /\ v[i].id = Mark(i).id /\ (~Mark(i).claimed => Mark(i) = v[i])
  <2>1. PICK e \in Entry : e = v[i]
    BY <1>1
  <2>2. [e EXCEPT !.claimed = TRUE] \in Entry /\ [e EXCEPT !.claimed = TRUE].claimed = TRUE
        /\ [e EXCEPT !.claimed = TRUE].id = e.id
    BY DEF Entry
  <2>3. QED
    BY <2>1, <2>2
<1> HIDE DEF Mark
<1>4. c \in Seq(Entry) /\ Len(c) = Len(v)
  <2>1. c \in [1 .. Len(v) -> Entry]
    BY <1>3
  <2>2. QED
    BY <1>1, <2>1
<1>5. ToSet(c) = {c[i] : i \in 1 .. Len(v)} /\ ToSet(v) = {v[i] : i \in 1 .. Len(v)}
  <2> HIDE DEF c
  <2>1. ToSet(c) = {c[i] : i \in 1 .. Len(c)}
    BY <1>4, ToSetIs
  <2>2. ToSet(v) = {v[i] : i \in 1 .. Len(v)}
    BY <1>1, ToSetIs
  <2>3. QED
    BY <1>4, <2>1, <2>2
<1> HIDE DEF c
<1>6. ASSUME NEW e \in ToSet(c)
      PROVE  /\ e \in Entry /\ (e.id = id => e.claimed)
             /\ \E o \in ToSet(v) : o.id = e.id /\ (~e.claimed => e = o)
  <2>1. PICK i \in 1 .. Len(v) : e = Mark(i)
    BY <1>5 DEF c
  <2>2. v[i] \in ToSet(v)
    BY <1>5
  <2>3. QED
    BY <1>3, <2>1, <2>2
<1>7. Len(c) <= Capacity
  BY <1>1, <1>4
<1>8. QED
  <2>1. c \in Seq(Entry)
    BY <1>4
  <2>2. QED
    BY <1>2, <1>6, <1>7, <2>1 DEF v

LEMMA FittingIs ==
  ASSUME NEW entries \in Seq(Entry)
  PROVE  /\ Fitting(entries) \in Seq(Entry) /\ Len(Fitting(entries)) <= Capacity
         /\ ToSet(Fitting(entries)) \subseteq ToSet(entries)
<1>1. Len(entries) \in Nat /\ \A i \in 1 .. Len(entries) : entries[i] \in Entry
  BY LenProperties, ElementOfSeq
<1>2. CASE Len(entries) <= Capacity
  BY <1>2 DEF Fitting
<1>3. CASE ~(Len(entries) <= Capacity)
  <2> DEFINE m == Len(entries) - Capacity + 1
             n == Len(entries)
             cut == SubSeq(entries, m, n)
  <2>1. m \in Int /\ n \in Int /\ m <= n /\ n - m + 1 = Capacity /\ m >= 1 /\ m .. n \subseteq 1 .. n
    BY <1>1, <1>3, CapacityAssumption
  <2>2. /\ cut \in Seq(Entry) /\ Len(cut) = Capacity
        /\ \A i \in 1 .. Capacity : cut[i] = entries[m + i - 1]
    <3> HIDE DEF m, n
    <3>1. \A i \in m .. n : entries[i] \in Entry
      BY <1>1, <2>1 DEF n
    <3>2. /\ cut \in Seq(Entry) /\ Len(cut) = n - m + 1
          /\ \A i \in 1 .. n - m + 1 : cut[i] = entries[m + i - 1]
      BY <2>1, <3>1, SubSeqProperties
    <3>3. QED
      BY <2>1, <3>2
  <2>3. Fitting(entries) = cut
    BY <1>3 DEF Fitting
  <2> HIDE DEF cut
  <2>4. ToSet(cut) = {cut[i] : i \in 1 .. Capacity}
    BY <2>2, ToSetIs
  <2>5. ToSet(entries) = {entries[i] : i \in 1 .. Len(entries)}
    BY ToSetIs
  <2>6. \A i \in 1 .. Capacity : m + i - 1 \in 1 .. Len(entries)
    BY <1>1, <1>3, CapacityAssumption
  <2>7. ToSet(cut) \subseteq ToSet(entries)
    BY <2>2, <2>4, <2>5, <2>6
  <2>8. QED
    BY <2>2, <2>3, <2>7
<1>4. QED
  BY <1>2, <1>3

\* The table a turn writes back: what it read but for what it consumes and replaces,
\* and the entry it saves, within the capacity.
LEMMA NewTableIs ==
  ASSUME Typed, NEW t \in Turns, pc[t] = "write"
  PROVE  /\ NewTable(t) \in Seq(Entry) /\ Len(NewTable(t)) <= Capacity
         /\ ToSet(Kept(t)) = {e \in ToSet(snap[t]) : e.id # job[t].removes /\ e.id # job[t].adds}
         /\ \A e \in ToSet(NewTable(t)) :
              \/ e \in ToSet(Kept(t))
              \/ job[t].adds \in Pendings /\ e = [id |-> job[t].adds, claimed |-> FALSE]
<1>1. snap[t] \in Seq(Entry) /\ Len(snap[t]) <= Capacity /\ Len(snap[t]) \in Nat
  BY LenProperties DEF Typed, TypeOK
<1>2. job[t].adds \in Pendings \union {NoPending}
  BY DEF Typed, Job
<1>3. /\ Kept(t) \in Seq(Entry) /\ Len(Kept(t)) <= Capacity /\ Len(Kept(t)) \in Nat
      /\ ToSet(Kept(t)) = {e \in ToSet(snap[t]) : e.id # job[t].removes /\ e.id # job[t].adds}
  <2>1. /\ Kept(t) \in Seq(Entry) /\ Len(Kept(t)) <= Len(snap[t])
        /\ ToSet(Kept(t)) = {e \in ToSet(snap[t]) : e.id \notin {job[t].removes, job[t].adds}}
    BY <1>1, WithoutIs DEF Kept
  <2>2. Len(Kept(t)) \in Nat
    BY <2>1, LenProperties
  <2>3. QED
    BY <1>1, <2>1, <2>2, CapacityAssumption
<1>4. CASE job[t].adds = NoPending
  BY <1>3, <1>4 DEF NewTable
<1>5. CASE job[t].adds # NoPending
  <2> DEFINE new == [id |-> job[t].adds, claimed |-> FALSE]
             long == Append(Kept(t), new)
  <2>1. job[t].adds \in Pendings /\ new \in Entry
    BY <1>2, <1>5 DEF Entry
  <2> HIDE DEF new
  <2>2. long \in Seq(Entry) /\ ToSet(long) = ToSet(Kept(t)) \union {new}
    BY <1>3, <2>1, ToSetAppend
  <2> HIDE DEF long
  <2>3. NewTable(t) = Fitting(long)
    BY <1>5 DEF NewTable, long, new
  <2>4. /\ NewTable(t) \in Seq(Entry) /\ Len(NewTable(t)) <= Capacity
        /\ ToSet(NewTable(t)) \subseteq ToSet(Kept(t)) \union {new}
    BY <2>2, <2>3, FittingIs
  <2>5. QED
    BY <1>3, <2>1, <2>4 DEF new
<1>6. QED
  BY <1>4, <1>5

LEMMA IdsIs ==
  ASSUME NEW entries, NEW id
  PROVE  id \in Ids(entries) <=> \E e \in ToSet(entries) : e.id = id
BY DEF Ids

LEMMA TellIs ==
  ASSUME NEW ids, NEW what, Tell(ids, what)
  PROVE  /\ \A id, w : Said(id, w)' => Said(id, w) \/ (id \in ids /\ w = what)
         /\ told \subseteq [id : Pendings, what : Notices] /\ ids \subseteq Pendings /\ what \in Notices
              => told' \subseteq [id : Pendings, what : Notices]
<1>1. told' \subseteq told \union {[id |-> id, what |-> what] : id \in ids}
  BY DEF Tell
<1>2. ASSUME NEW id, NEW w, Said(id, w)'
      PROVE  Said(id, w) \/ (id \in ids /\ w = what)
  <2>1. \A i : [id |-> id, what |-> w] = [id |-> i, what |-> what] => id = i /\ w = what
    OBVIOUS
  <2>2. QED
    BY <1>1, <1>2, <2>1 DEF Said
<1>3. QED
  BY <1>1, <1>2

\* The part of the types that speaks of the turns.
TurnsTyped ==
  /\ pc \in [Turns -> {"idle", "claim", "resume", "read", "write"}]
  /\ job \in [Turns -> Job \union {NoJob}]
  /\ snap \in [Turns -> Seq(Entry)]
  /\ \A t \in Turns :
       /\ Len(snap[t]) <= Capacity
       /\ pc[t] # "idle" => job[t] \in Job
       /\ pc[t] \in {"claim", "resume"} => job[t].removes \in Pendings /\ job[t].adds = NoPending

LEMMA TypedTurns == Typed => TurnsTyped
BY DEF Typed, TypeOK, TurnsTyped

\* A turn that is done is idle, and the others are where they were.
LEMMA DoneIs ==
  ASSUME Typed, NEW t \in Turns, Done(t)
  PROVE  /\ TurnsTyped' /\ pc'[t] = "idle"
         /\ \A u \in Turns \ {t} : pc'[u] = pc[u] /\ job'[u] = job[u] /\ snap'[u] = snap[u]
<1>1. <<>> \in Seq(Entry) /\ Len(<<>>) <= Capacity
  BY ToSetEmpty, CapacityAssumption
<1>2. TurnsTyped
  BY TypedTurns
<1>3. /\ pc' \in [Turns -> {"idle", "claim", "resume", "read", "write"}] /\ pc'[t] = "idle"
      /\ job' \in [Turns -> Job \union {NoJob}]
      /\ snap' \in [Turns -> Seq(Entry)] /\ snap'[t] = <<>>
      /\ \A u \in Turns \ {t} : pc'[u] = pc[u] /\ job'[u] = job[u] /\ snap'[u] = snap[u]
  BY <1>1, <1>2 DEF Done, TurnsTyped
<1>4. ASSUME NEW u \in Turns
      PROVE  /\ Len(snap'[u]) <= Capacity
             /\ pc'[u] # "idle" => job'[u] \in Job
             /\ pc'[u] \in {"claim", "resume"}
                  => job'[u].removes \in Pendings /\ job'[u].adds = NoPending
  <2>1. CASE u = t
    BY <1>1, <1>3, <2>1
  <2>2. CASE u # t
    BY <1>2, <1>3, <2>2 DEF TurnsTyped
  <2>3. QED
    BY <2>1, <2>2
<1>5. QED
  BY <1>3, <1>4 DEF TurnsTyped

(***************************************************************************)
(* Steps after which no operation can be claimed that could not before, but *)
(* for one being saved and those put back, and which tell of no            *)
(* cancellation: what was claimed once stays so.                           *)
(***************************************************************************)
Quiet ==
  /\ used' = used /\ dispatched' = dispatched /\ revived \subseteq revived'
  /\ \A e \in Entry : Copy(e)' =>
       \/ \E o \in Entry : Copy(o) /\ o.id = e.id
       \/ \E t \in Turns : Saving(t, e.id) /\ pc'[t] = "idle"
  /\ \A id \in Pendings \ revived' : Open(id)' =>
       Open(id) \/ \E t \in Turns : Saving(t, id)
  /\ \A t \in Turns : pc'[t] # "idle" =>
       pc[t] # "idle" /\ job'[t] = job[t] /\ (pc'[t] = "resume" => pc[t] = "resume")
  /\ \A id \in Pendings, what \in Notices : Said(id, what)' =>
       Said(id, what) \/ (Known(id) /\ what # "cancelled")

\* An operation that is known after such a step was known, or has been saved in it.
LEMMA QuietKnown ==
  ASSUME Quiet, NEW id \in Pendings, Known(id)'
  PROVE  Known(id) \/ \E t \in Turns : Saving(t, id) /\ pc'[t] = "idle"
<1>1. CASE \E e \in Entry : Copy(e)' /\ e.id = id
  <2>1. PICK e \in Entry : Copy(e)' /\ e.id = id
    BY <1>1
  <2>2. QED
    BY <2>1 DEF Quiet, Known
<1>2. CASE \E t \in Turns : pc'[t] # "idle" /\ job'[t].removes = id
  BY <1>2 DEF Quiet, Known
<1>3. CASE dispatched'[id] > 0
  BY <1>3 DEF Quiet, Known
<1>4. CASE \E what \in Notices : Said(id, what)'
  BY <1>4 DEF Quiet, Known
<1>5. QED
  BY <1>1, <1>2, <1>3, <1>4 DEF Known

LEMMA QuietFresh ==
  ASSUME FreshIds, Quiet
  PROVE  FreshIds'
<1>1. ASSUME NEW id \in Pendings, Known(id)' PROVE id \in used'
  BY <1>1, QuietKnown DEF Quiet, FreshIds
<1>2. ASSUME NEW t \in Turns, NEW id \in Pendings, Saving(t, id)'
      PROVE  id \in used' /\ ~Known(id)' /\ \A u \in Turns : Saving(u, id)' => u = t
  <2>1. \A u \in Turns : Saving(u, id)' => Saving(u, id) /\ pc'[u] # "idle"
    BY DEF Quiet, Saving
  <2>2. id \in used /\ ~Known(id) /\ \A u \in Turns : Saving(u, id) => u = t
    BY <1>2, <2>1 DEF FreshIds
  <2>3. ~Known(id)'
    BY <1>2, <2>1, <2>2, QuietKnown
  <2>4. QED
    BY <2>1, <2>2, <2>3 DEF Quiet
<1>3. QED
  BY <1>1, <1>2 DEF FreshIds

LEMMA QuietClaims ==
  ASSUME FreshIds, ClaimedOnce, ConsumedOnce, CancelledNeverRuns, Typed, Quiet
  PROVE  ClaimedOnce' /\ ConsumedOnce' /\ CancelledNeverRuns'
<1>1. \A id \in Pendings : Said(id, "cancelled")' => Said(id, "cancelled")
  BY DEF Quiet, Notices
<1>2. \A t \in Turns, id \in Pendings : Resuming(t, id)' => Resuming(t, id)
  BY DEF Quiet, Resuming
<1>3. ASSUME NEW id \in Pendings, ~Known(id)
      PROVE  dispatched[id] = 0 /\ ~Said(id, "cancelled") /\ \A t \in Turns : ~Resuming(t, id)
  <2>1. dispatched[id] \in 0 .. 2
    BY DEF Typed, TypeOK
  <2>2. ~(dispatched[id] > 0) /\ \A what \in Notices : ~Said(id, what)
    BY <1>3 DEF Known
  <2>3. \A t \in Turns : ~(pc[t] # "idle" /\ job[t].removes = id)
    BY <1>3 DEF Known
  <2>4. dispatched[id] = 0
    BY <2>1, <2>2
  <2>5. QED
    BY <2>2, <2>3, <2>4 DEF Resuming, Notices
<1>4. ASSUME NEW id \in Pendings \ revived', Open(id)'
      PROVE  dispatched[id] = 0 /\ ~Said(id, "cancelled") /\ \A t \in Turns : ~Resuming(t, id)
  <2>1. id \notin revived
    BY <1>4 DEF Quiet
  <2>2. Open(id) \/ ~Known(id)
    BY <1>4 DEF Quiet, FreshIds
  <2>3. QED
    BY <1>3, <2>1, <2>2 DEF ClaimedOnce
<1>5. dispatched' = dispatched /\ revived \subseteq revived'
  BY DEF Quiet
<1>6. ClaimedOnce'
  <2>1. ASSUME NEW id \in Pendings \ revived', Open(id)'
        PROVE  dispatched'[id] = 0 /\ ~Said(id, "cancelled")' /\ \A t \in Turns : ~Resuming(t, id)'
    BY <1>1, <1>2, <1>4, <1>5, <2>1
  <2>2. ASSUME NEW t \in Turns, NEW id \in Pendings \ revived', Resuming(t, id)'
        PROVE  /\ dispatched'[id] = 0 /\ ~Said(id, "cancelled")'
               /\ \A u \in Turns : Resuming(u, id)' => u = t
    BY <1>1, <1>2, <1>5, <2>2 DEF ClaimedOnce
  <2>3. QED
    BY <2>1, <2>2 DEF ClaimedOnce
<1>7. ConsumedOnce' /\ CancelledNeverRuns'
  BY <1>1, <1>5 DEF ConsumedOnce, CancelledNeverRuns
<1>8. QED
  BY <1>6, <1>7

\* What was closed stays closed when no id comes back into the table that is not put
\* back, no tombstone goes, and nothing more is told to be closed.
LEMMA ShutStays ==
  ASSUME Shut, Ids(table') \subseteq Ids(table), tombs \subseteq tombs', fence => fence',
         revived \subseteq revived',
         \A id \in Pendings, what \in {"closed", "deleted"} : Said(id, what)' => Said(id, what)
  PROVE  Shut'
BY DEF Shut

\* The rest of the types.
StoreTyped ==
  /\ table \in Seq(Entry) /\ Len(table) <= Capacity
  /\ tombs \subseteq Pendings /\ fence \in BOOLEAN
  /\ used \subseteq Pendings
  /\ dispatched \in [Pendings -> 0 .. 2]
  /\ told \subseteq [id : Pendings, what : Notices]
  /\ revived \subseteq Pendings
  /\ faults \in 0 .. MaxFaults

LEMMA FaultyIs == TypeOK /\ Faulty => faults' \in 0 .. MaxFaults
BY FaultsAssumption DEF TypeOK, Faulty

LEMMA TypedParts == Typed <=> TurnsTyped /\ StoreTyped
BY DEF Typed, TypeOK, TurnsTyped, StoreTyped

LEMMA TypedAfter == TurnsTyped' /\ StoreTyped' => Typed'
BY DEF Typed, TypeOK, TurnsTyped, StoreTyped

(***************************************************************************)
(* The actions.                                                            *)
(***************************************************************************)
LEMMA BeginStep ==
  ASSUME IInv, NEW t \in Turns, NEW purpose \in {"confirm", "cancel", "abandon", "suspend"},
         NEW id \in Pendings, Begin(t, purpose, id)
  PROVE  IInv'
<1>1. /\ Typed /\ FreshIds /\ ClaimedOnce /\ Shut /\ ConsumedOnce
      /\ CancelledNeverRuns /\ TurnsTyped /\ StoreTyped
  BY TypedParts DEF IInv
<1>2. /\ pc[t] = "idle" /\ UNCHANGED <<table, tombs, fence, snap, dispatched, told, revived, faults>>
      /\ pc' = [pc EXCEPT ![t] = IF purpose \in {"confirm", "cancel"} THEN "claim" ELSE "read"]
  BY DEF Begin, storeVars
<1>3. PICK new \in Job :
        /\ job' = [job EXCEPT ![t] = new]
        /\ \/ /\ purpose = "suspend" /\ id \notin used /\ used' = used \union {id}
              /\ new.adds = id /\ new.removes = NoPending
           \/ /\ purpose # "suspend" /\ id \in Ids(Visible) /\ used' = used
              /\ new.adds = NoPending /\ new.removes = id
  <2>1. [purpose |-> purpose, adds |-> id, removes |-> NoPending] \in Job
    BY DEF Job
  <2>2. [purpose |-> purpose, adds |-> NoPending, removes |-> id] \in Job
    BY DEF Job
  <2>3. QED
    BY <2>1, <2>2 DEF Begin
<1>4. /\ pc'[t] \in {"claim", "read"} /\ (purpose = "suspend" => pc'[t] = "read")
      /\ job'[t] = new
      /\ \A u \in Turns \ {t} : pc'[u] = pc[u] /\ job'[u] = job[u]
  BY <1>1, <1>2, <1>3 DEF TurnsTyped
<1>5. \A e \in Entry : Copy(e)' <=> Copy(e)
  BY <1>2, <1>4 DEF Copy
<1>6. \A x \in Pendings : Open(x)' <=> Open(x)
  BY <1>2 DEF Open
<1>7. \A u \in Turns, x \in Pendings : Resuming(u, x)' => Resuming(u, x)
  BY <1>4 DEF Resuming
<1>8. id \in Ids(Visible) => Known(id)
  <2>1. ASSUME id \in Ids(Visible) PROVE Known(id)
    <3>1. PICK e \in ToSet(Visible) : e.id = id
      BY <2>1, IdsIs
    <3>2. e \in ToSet(table) /\ e \in Entry
      BY <1>1, <3>1, VisibleIs, ToSetIs DEF Typed, TypeOK
    <3>3. QED
      BY <3>1, <3>2 DEF Known, Copy
  <2>2. QED
    BY <2>1
<1>9. ASSUME NEW x \in Pendings, Known(x)' PROVE Known(x)
  <2>1. CASE \E e \in Entry : Copy(e)' /\ e.id = x
    BY <1>5, <2>1 DEF Known
  <2>2. CASE \E u \in Turns : pc'[u] # "idle" /\ job'[u].removes = x
    <3>1. PICK u \in Turns : pc'[u] # "idle" /\ job'[u].removes = x
      BY <2>2
    <3>2. CASE u = t
      BY <1>3, <1>4, <1>8, <3>1, <3>2, NoPendingAssumption
    <3>3. CASE u # t
      BY <1>4, <3>1, <3>3 DEF Known
    <3>4. QED
      BY <3>2, <3>3
  <2>3. CASE dispatched'[x] > 0
    BY <1>2, <2>3 DEF Known
  <2>4. CASE \E what \in Notices : Said(x, what)'
    BY <1>2, <2>4 DEF Known, Said
  <2>5. QED
    BY <1>9, <2>1, <2>2, <2>3, <2>4 DEF Known
<1>10. ASSUME NEW u \in Turns, NEW x \in Pendings, Saving(u, x)'
       PROVE  \/ Saving(u, x)
              \/ u = t /\ x = id /\ id \notin used
  BY <1>3, <1>4, <1>10, NoPendingAssumption DEF Saving
<1>11. used \subseteq used' /\ used' \subseteq Pendings /\ (purpose = "suspend" => id \in used')
  BY <1>1, <1>3 DEF StoreTyped
<1>12. FreshIds'
  <2>1. ASSUME NEW x \in Pendings, Known(x)' PROVE x \in used'
    BY <1>1, <1>9, <1>11, <2>1 DEF FreshIds
  <2>2. ASSUME NEW u \in Turns, NEW x \in Pendings, Saving(u, x)'
        PROVE  x \in used' /\ ~Known(x)' /\ \A w \in Turns : Saving(w, x)' => w = u
    <3>1. CASE Saving(u, x)
      BY <1>1, <1>9, <1>10, <1>11, <3>1 DEF FreshIds
    <3>2. CASE u = t /\ x = id /\ id \notin used
      <4>1. id \in used'
        BY <1>3, <1>4, <2>2, <3>2, NoPendingAssumption DEF Saving
      <4>2. ~Known(id) /\ \A w \in Turns : ~Saving(w, id)
        BY <1>1, <3>2 DEF FreshIds
      <4>3. QED
        BY <1>9, <1>10, <3>2, <4>1, <4>2
    <3>3. QED
      BY <1>10, <2>2, <3>1, <3>2
  <2>3. QED
    BY <2>1, <2>2 DEF FreshIds
<1>13. TurnsTyped'
  <2>1. /\ pc' \in [Turns -> {"idle", "claim", "resume", "read", "write"}]
        /\ job' \in [Turns -> Job \union {NoJob}] /\ snap' \in [Turns -> Seq(Entry)]
    BY <1>1, <1>2, <1>3 DEF TurnsTyped
  <2>2. ASSUME NEW u \in Turns
        PROVE  /\ Len(snap'[u]) <= Capacity
               /\ pc'[u] # "idle" => job'[u] \in Job
               /\ pc'[u] \in {"claim", "resume"}
                    => job'[u].removes \in Pendings /\ job'[u].adds = NoPending
    <3>1. CASE u = t
      BY <1>1, <1>2, <1>3, <1>4, <3>1 DEF TurnsTyped
    <3>2. CASE u # t
      BY <1>1, <1>2, <1>4, <3>2 DEF TurnsTyped
    <3>3. QED
      BY <3>1, <3>2
  <2>3. QED
    BY <2>1, <2>2 DEF TurnsTyped
<1>14. Typed'
  <2>1. StoreTyped'
    BY <1>1, <1>2, <1>11 DEF StoreTyped
  <2>2. QED
    BY <1>13, <2>1, TypedAfter
<1>15. ClaimedOnce' /\ ConsumedOnce' /\ CancelledNeverRuns'
  BY <1>1, <1>2, <1>6, <1>7 DEF ClaimedOnce, ConsumedOnce, CancelledNeverRuns, Said
<1>16. Shut'
  BY <1>1, <1>2 DEF Shut, Said
<1>17. QED
  BY <1>12, <1>14, <1>15, <1>16 DEF IInv

LEMMA ResumeStep ==
  ASSUME IInv, NEW t \in Turns, Resume(t)
  PROVE  IInv'
<1>1. /\ Typed /\ FreshIds /\ ClaimedOnce /\ Shut /\ ConsumedOnce
      /\ CancelledNeverRuns /\ TurnsTyped /\ StoreTyped
  BY TypedParts DEF IInv
<1>2. PICK id \in Pendings : id = job[t].removes
  BY <1>1 DEF Resume, TurnsTyped
<1>3. /\ pc[t] = "resume" /\ UNCHANGED <<table, tombs, fence, snap, told, revived, faults>>
      /\ dispatched' = [dispatched EXCEPT ![id] = IF @ = 2 THEN 2 ELSE @ + 1]
      /\ pc' = [pc EXCEPT ![t] = "read"]
  BY <1>2 DEF Resume, storeVars
<1>4. PICK new \in Job :
        /\ job' = [job EXCEPT ![t] = new] /\ new.removes = id
        /\ \/ new.adds = NoPending /\ used' = used
           \/ new.adds \in Pendings \ used /\ used' = used \union {new.adds}
  <2>1. job[t] \in Job /\ job[t].removes = id /\ job[t].adds = NoPending
    BY <1>1, <1>2, <1>3 DEF TurnsTyped
  <2>2. CASE UNCHANGED <<job, used>>
    <3>1. job' = [job EXCEPT ![t] = job[t]]
      BY <1>1, <2>2 DEF TurnsTyped
    <3>2. QED
      BY <2>1, <2>2, <3>1
  <2>3. CASE \E x \in Pendings \ used :
               job' = [job EXCEPT ![t].adds = x] /\ used' = used \union {x}
    <3>1. PICK x \in Pendings \ used :
                 job' = [job EXCEPT ![t].adds = x] /\ used' = used \union {x}
      BY <2>3
    <3>2. PICK j \in Job : j = job[t]
      BY <2>1
    <3>3. [j EXCEPT !.adds = x] \in Job /\ [j EXCEPT !.adds = x].adds = x
          /\ [j EXCEPT !.adds = x].removes = j.removes
      BY DEF Job
    <3>4. job' = [job EXCEPT ![t] = [j EXCEPT !.adds = x]]
      BY <3>1, <3>2
    <3>5. QED
      BY <2>1, <3>1, <3>2, <3>3, <3>4
  <2>4. QED
    BY <2>2, <2>3 DEF Resume
<1>5. /\ pc'[t] = "read" /\ job'[t] = new
      /\ \A u \in Turns \ {t} : pc'[u] = pc[u] /\ job'[u] = job[u]
  BY <1>1, <1>3, <1>4 DEF TurnsTyped
<1>6. \A e \in Entry : Copy(e)' <=> Copy(e)
  BY <1>3, <1>5 DEF Copy
<1>7. \A x \in Pendings : Open(x)' <=> Open(x)
  BY <1>3 DEF Open
<1>8. Resuming(t, id) /\ \A u \in Turns, x \in Pendings : Resuming(u, x)' => Resuming(u, x) /\ u # t
  BY <1>2, <1>3, <1>5 DEF Resuming
<1>9. /\ dispatched' \in [Pendings -> 0 .. 2]
      /\ \A x \in Pendings \ {id} : dispatched'[x] = dispatched[x]
      /\ id \notin revived =>
           /\ dispatched[id] = 0 /\ dispatched'[id] = 1 /\ ~Said(id, "cancelled") /\ ~Open(id)
           /\ \A u \in Turns : ~Resuming(u, id)'
  <2>1. dispatched' \in [Pendings -> 0 .. 2] /\ \A x \in Pendings \ {id} : dispatched'[x] = dispatched[x]
    BY <1>1, <1>3 DEF StoreTyped
  <2>2. ASSUME id \notin revived
        PROVE  /\ dispatched[id] = 0 /\ dispatched'[id] = 1 /\ ~Said(id, "cancelled") /\ ~Open(id)
               /\ \A u \in Turns : ~Resuming(u, id)'
    BY <1>1, <1>3, <1>8, <2>2 DEF ClaimedOnce, StoreTyped
  <2>3. QED
    BY <2>1, <2>2
<1>10. ASSUME NEW x \in Pendings, Known(x)' PROVE Known(x)
  <2>1. Known(id)
    BY <1>2, <1>3 DEF Known
  <2>2. CASE \E e \in Entry : Copy(e)' /\ e.id = x
    BY <1>6, <2>2 DEF Known
  <2>3. CASE \E u \in Turns : pc'[u] # "idle" /\ job'[u].removes = x
    <3>1. PICK u \in Turns : pc'[u] # "idle" /\ job'[u].removes = x
      BY <2>3
    <3>2. CASE u = t
      BY <1>4, <1>5, <2>1, <3>1, <3>2
    <3>3. CASE u # t
      BY <1>5, <3>1, <3>3 DEF Known
    <3>4. QED
      BY <3>2, <3>3
  <2>4. CASE dispatched'[x] > 0
    <3>1. CASE x = id
      BY <2>1, <3>1
    <3>2. CASE x # id
      BY <1>9, <2>4, <3>2 DEF Known
    <3>3. QED
      BY <3>1, <3>2
  <2>5. CASE \E what \in Notices : Said(x, what)'
    BY <1>3, <2>5 DEF Known, Said
  <2>6. QED
    BY <1>10, <2>2, <2>3, <2>4, <2>5 DEF Known
<1>11. ASSUME NEW u \in Turns, NEW x \in Pendings, Saving(u, x)'
       PROVE  \/ Saving(u, x)
              \/ u = t /\ x = new.adds /\ x \notin used /\ x \in used'
  BY <1>4, <1>5, <1>11, NoPendingAssumption DEF Saving
<1>12. used \subseteq used' /\ used' \subseteq Pendings
  BY <1>1, <1>4 DEF StoreTyped
<1>13. FreshIds'
  <2>1. ASSUME NEW x \in Pendings, Known(x)' PROVE x \in used'
    BY <1>1, <1>10, <1>12, <2>1 DEF FreshIds
  <2>2. ASSUME NEW u \in Turns, NEW x \in Pendings, Saving(u, x)'
        PROVE  x \in used' /\ ~Known(x)' /\ \A w \in Turns : Saving(w, x)' => w = u
    <3>1. CASE Saving(u, x)
      BY <1>1, <1>10, <1>11, <1>12, <3>1 DEF FreshIds
    <3>2. CASE u = t /\ x = new.adds /\ x \notin used /\ x \in used'
      <4>1. ~Known(x) /\ \A w \in Turns : ~Saving(w, x)
        BY <1>1, <3>2 DEF FreshIds
      <4>2. QED
        BY <1>10, <1>11, <3>2, <4>1
    <3>3. QED
      BY <1>11, <2>2, <3>1, <3>2
  <2>3. QED
    BY <2>1, <2>2 DEF FreshIds
<1>14. TurnsTyped'
  <2>1. /\ pc' \in [Turns -> {"idle", "claim", "resume", "read", "write"}]
        /\ job' \in [Turns -> Job \union {NoJob}] /\ snap' \in [Turns -> Seq(Entry)]
    BY <1>1, <1>3, <1>4 DEF TurnsTyped
  <2>2. ASSUME NEW u \in Turns
        PROVE  /\ Len(snap'[u]) <= Capacity
               /\ pc'[u] # "idle" => job'[u] \in Job
               /\ pc'[u] \in {"claim", "resume"}
                    => job'[u].removes \in Pendings /\ job'[u].adds = NoPending
    BY <1>1, <1>3, <1>4, <1>5 DEF TurnsTyped
  <2>3. QED
    BY <2>1, <2>2 DEF TurnsTyped
<1>15. Typed'
  <2>1. StoreTyped'
    BY <1>1, <1>3, <1>9, <1>12 DEF StoreTyped
  <2>2. QED
    BY <1>14, <2>1, TypedAfter
<1>16. ClaimedOnce'
  <2>1. \A x \in Pendings : Said(x, "cancelled")' <=> Said(x, "cancelled")
    BY <1>3 DEF Said
  <2>2. ASSUME NEW x \in Pendings \ revived, Open(x)'
        PROVE  dispatched'[x] = 0 /\ ~Said(x, "cancelled")' /\ \A u \in Turns : ~Resuming(u, x)'
    BY <1>1, <1>7, <1>8, <1>9, <2>1, <2>2 DEF ClaimedOnce
  <2>3. ASSUME NEW u \in Turns, NEW x \in Pendings \ revived, Resuming(u, x)'
        PROVE  /\ dispatched'[x] = 0 /\ ~Said(x, "cancelled")'
               /\ \A w \in Turns : Resuming(w, x)' => w = u
    <3>1. Resuming(u, x) /\ x # id
      BY <1>8, <1>9, <2>3
    <3>2. QED
      BY <1>1, <1>8, <1>9, <2>1, <3>1 DEF ClaimedOnce
  <2>4. QED
    BY <1>3, <2>2, <2>3 DEF ClaimedOnce
<1>17. ConsumedOnce' /\ CancelledNeverRuns'
  BY <1>1, <1>3, <1>9 DEF ConsumedOnce, CancelledNeverRuns, Said
<1>18. Shut'
  BY <1>1, <1>3 DEF Shut, Said
<1>19. QED
  BY <1>13, <1>15, <1>16, <1>17, <1>18 DEF IInv

\* Every step but those of a turn that begins, wins a claim or resumes.
LEMMA QuietStep ==
  ASSUME IInv, Quiet, TurnsTyped', StoreTyped', Shut'
  PROVE  IInv'
<1>1. FreshIds' /\ ClaimedOnce' /\ ConsumedOnce' /\ CancelledNeverRuns'
  BY QuietFresh, QuietClaims DEF IInv
<1>2. QED
  BY <1>1, TypedAfter DEF IInv

LEMMA WinsStep ==
  ASSUME IInv, NEW t \in Turns, Claim(t), Wins(t)
  PROVE  IInv'
<1>1. /\ Typed /\ FreshIds /\ ClaimedOnce /\ Shut /\ ConsumedOnce
      /\ CancelledNeverRuns /\ TurnsTyped /\ StoreTyped
  BY TypedParts DEF IInv
<1>2. PICK id \in Pendings : id = job[t].removes
  BY <1>1 DEF Claim, TurnsTyped
<1>3. /\ pc[t] = "claim" /\ Free(id) /\ table' = Claimed(id)
      /\ pc' = [pc EXCEPT ![t] = IF job[t].purpose = "confirm" THEN "resume" ELSE "read"]
      /\ IF job[t].purpose = "cancel" THEN Tell({id}, "cancelled") ELSE UNCHANGED told
      /\ UNCHANGED <<tombs, fence, job, snap, used, dispatched, revived, faults>>
  BY <1>2 DEF Claim, Wins
<1>4. /\ pc'[t] \in {"resume", "read"} /\ (job[t].purpose = "cancel" => pc'[t] = "read")
      /\ \A u \in Turns \ {t} : pc'[u] = pc[u]
  BY <1>1, <1>3 DEF TurnsTyped
<1>5. \A u \in Turns : pc'[u] = "write" => pc[u] = "write"
  BY <1>4
<1>6. /\ Claimed(id) \in Seq(Entry) /\ Len(Claimed(id)) <= Capacity
      /\ \A e \in ToSet(Claimed(id)) :
           /\ e \in Entry /\ (e.id = id => e.claimed)
           /\ \E o \in ToSet(table) : o.id = e.id /\ (~e.claimed => e = o)
  <2>1. TypeOK
    BY <1>1 DEF Typed
  <2>2. ToSet(Visible) \subseteq ToSet(table)
    BY <2>1, VisibleIs
  <2>3. QED
    BY <2>1, <2>2, ClaimedIs
<1>7. ToSet(table) \subseteq Entry
  BY <1>1, ToSetIs DEF StoreTyped
<1>8. ASSUME NEW e \in Entry, Copy(e)'
      PROVE  \E o \in Entry : Copy(o) /\ o.id = e.id
  <2>1. CASE e \in ToSet(table')
    BY <1>3, <1>6, <1>7, <2>1 DEF Copy
  <2>2. CASE \E u \in Turns : pc'[u] = "write" /\ e \in ToSet(snap'[u])
    BY <1>3, <1>5, <2>2 DEF Copy
  <2>3. QED
    BY <1>8, <2>1, <2>2 DEF Copy
<1>9. ASSUME NEW x \in Pendings, Open(x)' PROVE Open(x) /\ x # id
  BY <1>3, <1>6, <1>9 DEF Open
<1>10. Open(id)
  <2>1. PICK e \in ToSet(Visible) : e.id = id /\ ~e.claimed
    BY <1>3 DEF Free
  <2>2. e \in ToSet(table)
    BY <1>1, <2>1, VisibleIs DEF Typed
  <2>3. QED
    BY <2>1, <2>2 DEF Open
<1>11. id \notin revived =>
         dispatched[id] = 0 /\ ~Said(id, "cancelled") /\ \A u \in Turns : ~Resuming(u, id)
  BY <1>1, <1>10 DEF ClaimedOnce
<1>12. \A x \in Pendings, what \in Notices : Said(x, what)' =>
         \/ Said(x, what)
         \/ x = id /\ what = "cancelled" /\ job[t].purpose = "cancel"
  BY <1>3, TellIs DEF Said
<1>13. \A u \in Turns, x \in Pendings : Resuming(u, x)' =>
         Resuming(u, x) \/ (u = t /\ x = id /\ job[t].purpose # "cancel")
  BY <1>2, <1>3, <1>4 DEF Resuming
<1>14. "cancelled" \in Notices /\ "closed" \in Notices /\ "deleted" \in Notices
  BY DEF Notices
<1>15. ClaimedOnce'
  <2>1. ASSUME NEW x \in Pendings \ revived, Open(x)'
        PROVE  dispatched'[x] = 0 /\ ~Said(x, "cancelled")' /\ \A u \in Turns : ~Resuming(u, x)'
    BY <1>1, <1>3, <1>9, <1>12, <1>13, <1>14, <2>1 DEF ClaimedOnce
  <2>2. ASSUME NEW u \in Turns, NEW x \in Pendings \ revived, Resuming(u, x)'
        PROVE  /\ dispatched'[x] = 0 /\ ~Said(x, "cancelled")'
               /\ \A w \in Turns : Resuming(w, x)' => w = u
    <3>1. CASE Resuming(u, x)
      <4>1. x # id
        BY <1>11, <3>1
      <4>2. QED
        BY <1>1, <1>3, <1>12, <1>13, <1>14, <3>1, <4>1 DEF ClaimedOnce
    <3>2. CASE u = t /\ x = id /\ job[t].purpose # "cancel"
      BY <1>3, <1>11, <1>12, <1>13, <1>14, <3>2
    <3>3. QED
      BY <1>13, <2>2, <3>1, <3>2
  <2>3. QED
    BY <1>3, <2>1, <2>2 DEF ClaimedOnce
<1>16. ConsumedOnce' /\ CancelledNeverRuns'
  BY <1>1, <1>3, <1>11, <1>12, <1>14 DEF ConsumedOnce, CancelledNeverRuns
<1>17. ASSUME NEW x \in Pendings, Known(x)' PROVE Known(x)
  <2>1. Known(id)
    BY <1>2, <1>3 DEF Known
  <2>2. CASE \E e \in Entry : Copy(e)' /\ e.id = x
    BY <1>8, <2>2 DEF Known
  <2>3. CASE \E u \in Turns : pc'[u] # "idle" /\ job'[u].removes = x
    BY <1>3, <1>4, <2>3 DEF Known
  <2>4. CASE dispatched'[x] > 0
    BY <1>3, <2>4 DEF Known
  <2>5. CASE \E what \in Notices : Said(x, what)'
    BY <1>12, <2>1, <2>5 DEF Known
  <2>6. QED
    BY <1>17, <2>2, <2>3, <2>4, <2>5 DEF Known
<1>18. FreshIds'
  <2>1. \A u \in Turns, x \in Pendings : Saving(u, x)' => Saving(u, x)
    BY <1>3, <1>4 DEF Saving
  <2>2. QED
    BY <1>1, <1>3, <1>17, <2>1 DEF FreshIds
<1>19. TurnsTyped'
  BY <1>1, <1>3, <1>4 DEF TurnsTyped
<1>20. StoreTyped'
  <2>1. told' \subseteq [id : Pendings, what : Notices]
    BY <1>1, <1>3, <1>14, TellIs DEF StoreTyped
  <2>2. QED
    BY <1>1, <1>3, <1>6, <2>1 DEF StoreTyped
<1>21. Shut'
  <2>1. Ids(table') \subseteq Ids(table)
    BY <1>3, <1>6 DEF Ids
  <2>2. \A x \in Pendings, what \in {"closed", "deleted"} : Said(x, what)' => Said(x, what)
    BY <1>12, <1>14
  <2>3. QED
    BY <1>1, <1>3, <2>1, <2>2, ShutStays
<1>22. QED
  BY <1>15, <1>16, <1>18, <1>19, <1>20, <1>21, TypedAfter DEF IInv

\* A turn that is done disturbs no other.
LEMMA DoneLeavesOthers ==
  ASSUME Typed, NEW t \in Turns, Done(t)
  PROVE  /\ \A u \in Turns : pc'[u] # "idle" =>
              /\ u # t /\ pc[u] # "idle" /\ pc'[u] = pc[u]
              /\ job'[u] = job[u] /\ snap'[u] = snap[u]
         /\ TurnsTyped' /\ pc'[t] = "idle"
BY DoneIs

LEMMA LosesStep ==
  ASSUME IInv, NEW t \in Turns, Claim(t), Loses(t) \/ ClaimFails(t)
  PROVE  IInv'
<1>1. /\ Typed /\ FreshIds /\ ClaimedOnce /\ Shut /\ TurnsTyped /\ StoreTyped /\ TypeOK
  BY TypedParts DEF IInv, Typed
<1>2. PICK id \in Pendings : id = job[t].removes
  BY <1>1 DEF Claim, TurnsTyped
<1>3. /\ pc[t] = "claim" /\ Done(t) /\ UNCHANGED <<tombs, fence, used, dispatched, revived>>
      /\ faults' \in 0 .. MaxFaults
      /\ \/ UNCHANGED <<table, told>>
         \/ table' = Claimed(id) /\ UNCHANGED told
         \/ /\ ~fence /\ id \notin Ids(Visible) /\ Tell({id}, "closed") /\ UNCHANGED table
  <2>1. CASE Loses(t)
    BY <1>1, <1>2, <2>1 DEF Claim, Loses, StoreTyped
  <2>2. CASE ClaimFails(t)
    BY <1>1, <1>2, <2>2, FaultyIs DEF Claim, ClaimFails
  <2>3. QED
    BY <2>1, <2>2
<1>4. /\ \A u \in Turns : pc'[u] # "idle" =>
           /\ u # t /\ pc[u] # "idle" /\ pc'[u] = pc[u]
           /\ job'[u] = job[u] /\ snap'[u] = snap[u]
      /\ TurnsTyped'
  BY <1>1, <1>3, DoneLeavesOthers
<1>5. ToSet(table) \subseteq Entry
  BY <1>1, ToSetIs DEF StoreTyped
<1>6. /\ table' \in Seq(Entry) /\ Len(table') <= Capacity
      /\ \A e \in ToSet(table') :
           \E o \in ToSet(table) : o.id = e.id /\ (~e.claimed => ~o.claimed)
  <2>1. CASE table' = table
    BY <1>1, <2>1 DEF StoreTyped
  <2>2. CASE table' = Claimed(id)
    <3>1. ToSet(Visible) \subseteq ToSet(table)
      BY <1>1, VisibleIs
    <3>2. QED
      BY <1>1, <2>2, <3>1, ClaimedIs
  <2>3. QED
    BY <1>3, <2>1, <2>2
<1>7. "cancelled" \in Notices /\ "closed" \in Notices /\ "deleted" \in Notices
  BY DEF Notices
<1>8. /\ \A x \in Pendings, what \in Notices : Said(x, what)' =>
           \/ Said(x, what)
           \/ x = id /\ what = "closed" /\ id \notin Ids(Visible) /\ ~fence
      /\ told' \subseteq [id : Pendings, what : Notices]
  <2>1. CASE told' = told
    BY <1>1, <2>1 DEF Said, StoreTyped
  <2>2. CASE ~fence /\ id \notin Ids(Visible) /\ Tell({id}, "closed")
    BY <1>1, <1>7, <2>2, TellIs DEF StoreTyped
  <2>3. QED
    BY <1>3, <2>1, <2>2
<1>9. Quiet
  <2>1. ASSUME NEW e \in Entry, Copy(e)' PROVE \E o \in Entry : Copy(o) /\ o.id = e.id
    <3>1. CASE e \in ToSet(table')
      BY <1>5, <1>6, <3>1 DEF Copy
    <3>2. CASE \E u \in Turns : pc'[u] = "write" /\ e \in ToSet(snap'[u])
      BY <1>4, <3>2 DEF Copy
    <3>3. QED
      BY <2>1, <3>1, <3>2 DEF Copy
  <2>2. \A x \in Pendings : Open(x)' => Open(x)
    BY <1>6 DEF Open
  <2>3. Known(id)
    BY <1>2, <1>3 DEF Known
  <2>4. QED
    BY <1>3, <1>4, <1>7, <1>8, <2>1, <2>2, <2>3 DEF Quiet
<1>10. StoreTyped'
  BY <1>1, <1>3, <1>6, <1>8 DEF StoreTyped
<1>11. Shut'
  <2>1. Ids(table') \subseteq Ids(table)
    BY <1>6 DEF Ids
  <2>2. ~fence /\ id \notin Ids(Visible) => id \notin Ids(table) \/ id \in tombs
    BY <1>1, VisibleIs DEF Ids
  <2>3. ASSUME NEW x \in Pendings \ revived
        PROVE  /\ Said(x, "deleted")' => x \notin Ids(table')
               /\ Said(x, "closed")' => fence' \/ x \notin Ids(table') \/ x \in tombs'
    BY <1>1, <1>3, <1>7, <1>8, <2>1, <2>2 DEF Shut
  <2>4. QED
    BY <1>3, <2>3 DEF Shut
<1>12. QED
  BY <1>4, <1>9, <1>10, <1>11, QuietStep

\* A turn that fails buries what it consumed.
LEMMA FailsIs ==
  ASSUME Typed, NEW t \in Turns, pc[t] # "idle", Fails(t)
  PROVE  /\ Done(t) /\ tombs \subseteq tombs' /\ tombs' \subseteq Pendings
         /\ told' \subseteq [id : Pendings, what : Notices]
         /\ \A x \in Pendings, what \in Notices : Said(x, what)' =>
              \/ Said(x, what)
              \/ what = "closed" /\ x = job[t].removes /\ x \in tombs'
<1>1. Consumed(t) \subseteq Pendings /\ Consumed(t) \subseteq {job[t].removes}
  BY DEF Consumed, Typed, Job
<1>2. /\ tombs' = tombs \union Consumed(t) /\ Done(t)
      /\ Tell({} \union Consumed(t), "closed")
  BY DEF Fails, Closes, Buried, Consumed
<1>3. "closed" \in Notices
  BY DEF Notices
<1>4. told \subseteq [id : Pendings, what : Notices] /\ tombs \subseteq Pendings
  BY DEF Typed, TypeOK
<1>5. /\ told' \subseteq [id : Pendings, what : Notices]
      /\ \A x, w : Said(x, w)' => Said(x, w) \/ (x \in Consumed(t) /\ w = "closed")
  <2>1. {} \union Consumed(t) = Consumed(t)
    OBVIOUS
  <2>2. Tell(Consumed(t), "closed")
    BY <1>2, <2>1
  <2>3. QED
    BY <1>1, <1>3, <1>4, <2>2, TellIs
<1>6. QED
  BY <1>1, <1>2, <1>4, <1>5

LEMMA ReadStep ==
  ASSUME IInv, NEW t \in Turns, Read(t)
  PROVE  IInv'
<1>1. /\ Typed /\ FreshIds /\ ClaimedOnce /\ Shut /\ TurnsTyped /\ StoreTyped /\ TypeOK
  BY TypedParts DEF IInv, Typed
<1>2. pc[t] = "read" /\ UNCHANGED <<table, fence, used, dispatched, revived>>
  BY DEF Read
<1>3. \A x \in Pendings : Open(x)' => Open(x)
  BY <1>2 DEF Open
<1>4. "cancelled" \in Notices /\ "closed" \in Notices /\ "deleted" \in Notices
  BY DEF Notices
<1>5. ASSUME Done(t), tombs \subseteq tombs', tombs' \subseteq Pendings, faults' \in 0 .. MaxFaults,
             told' \subseteq [id : Pendings, what : Notices],
             \A x \in Pendings, what \in Notices : Said(x, what)' =>
               \/ Said(x, what)
               \/ /\ what = "closed" /\ x = job[t].removes
                  /\ x \in tombs' \/ x \notin Ids(Visible)
      PROVE  IInv'
  <2>1. /\ \A u \in Turns : pc'[u] # "idle" =>
             /\ u # t /\ pc[u] # "idle" /\ pc'[u] = pc[u]
             /\ job'[u] = job[u] /\ snap'[u] = snap[u]
        /\ TurnsTyped'
    BY <1>1, <1>5, DoneLeavesOthers
  <2>2. Quiet
    <3>1. \A e \in Entry : Copy(e)' => Copy(e)
      BY <1>2, <2>1 DEF Copy
    <3>2. \A x \in Pendings : x = job[t].removes => Known(x)
      BY <1>2 DEF Known
    <3>3. QED
      BY <1>2, <1>3, <1>4, <1>5, <2>1, <3>1, <3>2 DEF Quiet
  <2>3. StoreTyped'
    BY <1>1, <1>2, <1>5 DEF StoreTyped
  <2>4. Shut'
    <3>1. \A x \in Pendings : x \notin Ids(Visible) => fence \/ x \notin Ids(table) \/ x \in tombs
      BY <1>1, VisibleIs DEF Ids
    <3>2. ASSUME NEW x \in Pendings \ revived
          PROVE  /\ Said(x, "deleted")' => x \notin Ids(table')
                 /\ Said(x, "closed")' => fence' \/ x \notin Ids(table') \/ x \in tombs'
      BY <1>1, <1>2, <1>4, <1>5, <3>1 DEF Shut
    <3>3. QED
      BY <1>2, <3>2 DEF Shut
  <2>5. QED
    BY <2>1, <2>2, <2>3, <2>4, QuietStep
<1>6. CASE Faulty /\ Fails(t)
  BY <1>1, <1>2, <1>5, <1>6, FailsIs, FaultyIs
<1>7. CASE /\ job[t].adds = NoPending /\ job[t].removes \notin Ids(Visible)
           /\ Closes(t, {}, "closed") /\ UNCHANGED <<tombs, faults>>
  <2>1. Consumed(t) \subseteq Pendings /\ Consumed(t) \subseteq {job[t].removes}
    BY <1>1, <1>2 DEF Consumed, Typed, Job
  <2>2. {} \union Consumed(t) = Consumed(t)
    OBVIOUS
  <2>3. Done(t) /\ Tell(Consumed(t), "closed")
    BY <1>7, <2>2 DEF Closes
  <2>4. /\ told' \subseteq [id : Pendings, what : Notices]
        /\ \A x, w : Said(x, w)' => Said(x, w) \/ (x \in Consumed(t) /\ w = "closed")
    BY <1>1, <1>4, <2>1, <2>3, TellIs DEF StoreTyped
  <2>5. tombs \subseteq tombs' /\ tombs' \subseteq Pendings /\ faults' \in 0 .. MaxFaults
    BY <1>1, <1>7 DEF StoreTyped
  <2>6. QED
    BY <1>5, <1>7, <2>1, <2>3, <2>4, <2>5
<1>8. CASE /\ snap' = [snap EXCEPT ![t] = Visible]
           /\ pc' = [pc EXCEPT ![t] = "write"]
           /\ UNCHANGED <<job, tombs, told, faults>>
  <2>1. /\ Visible \in Seq(Entry) /\ Len(Visible) <= Capacity
        /\ ToSet(Visible) = IF fence THEN {} ELSE {e \in ToSet(table) : e.id \notin tombs}
    BY <1>1, VisibleIs
  <2>2. /\ snap'[t] = Visible /\ pc'[t] = "write"
        /\ \A u \in Turns \ {t} : snap'[u] = snap[u] /\ pc'[u] = pc[u]
    BY <1>1, <1>8 DEF TurnsTyped
  <2>3. TurnsTyped'
    <3>1. /\ pc' \in [Turns -> {"idle", "claim", "resume", "read", "write"}]
          /\ job' \in [Turns -> Job \union {NoJob}] /\ snap' \in [Turns -> Seq(Entry)]
      BY <1>1, <1>8, <2>1 DEF TurnsTyped
    <3>2. ASSUME NEW u \in Turns
          PROVE  /\ Len(snap'[u]) <= Capacity
                 /\ pc'[u] # "idle" => job'[u] \in Job
                 /\ pc'[u] \in {"claim", "resume"}
                      => job'[u].removes \in Pendings /\ job'[u].adds = NoPending
      BY <1>1, <1>2, <1>8, <2>1, <2>2 DEF TurnsTyped
    <3>3. QED
      BY <3>1, <3>2 DEF TurnsTyped
  <2>4. Quiet
    <3>1. ASSUME NEW e \in Entry, Copy(e)' PROVE Copy(e)
      <4>1. CASE e \in ToSet(table')
        BY <1>2, <4>1 DEF Copy
      <4>2. CASE \E u \in Turns : pc'[u] = "write" /\ e \in ToSet(snap'[u])
        <5>1. PICK u \in Turns : pc'[u] = "write" /\ e \in ToSet(snap'[u])
          BY <4>2
        <5>2. CASE u = t
          BY <2>1, <2>2, <5>1, <5>2 DEF Copy
        <5>3. CASE u # t
          BY <2>2, <5>1, <5>3 DEF Copy
        <5>4. QED
          BY <5>2, <5>3
      <4>3. QED
        BY <3>1, <4>1, <4>2 DEF Copy
    <3>2. QED
      BY <1>2, <1>3, <1>8, <2>2, <3>1 DEF Quiet, Said
  <2>5. StoreTyped'
    BY <1>1, <1>2, <1>8 DEF StoreTyped
  <2>6. Shut'
    BY <1>1, <1>2, <1>8 DEF Shut, Said
  <2>7. QED
    BY <2>3, <2>4, <2>5, <2>6, QuietStep
<1>9. QED
  BY <1>6, <1>7, <1>8 DEF Read

\* What a write stores of an operation it does not put back is the entry it saves or
\* one that everybody can still see.
LEMMA StoredIs ==
  ASSUME Typed, FreshIds, NEW t \in Turns, pc[t] = "write", Stored(t)
  PROVE  /\ table' \in Seq(Entry) /\ Len(table') <= Capacity
         /\ revived \subseteq revived' /\ revived' \subseteq Pendings
         /\ \A e \in ToSet(table') :
              /\ e \in Entry /\ e.id # job[t].removes
              /\ Saving(t, e.id) \/ Copy(e)
              /\ \/ Saving(t, e.id)
                 \/ e.id \in revived'
                 \/ e \in ToSet(table) /\ e.id \notin tombs
<1>1. /\ NewTable(t) \in Seq(Entry) /\ Len(NewTable(t)) <= Capacity
      /\ ToSet(Kept(t)) = {e \in ToSet(snap[t]) : e.id # job[t].removes /\ e.id # job[t].adds}
      /\ \A e \in ToSet(NewTable(t)) :
           \/ e \in ToSet(Kept(t))
           \/ job[t].adds \in Pendings /\ e = [id |-> job[t].adds, claimed |-> FALSE]
  BY NewTableIs
<1>2. table' = NewTable(t) /\ revived' = revived \union Revived(t)
  BY DEF Stored
<1>3. Revived(t) \subseteq Pendings /\ revived \subseteq Pendings
  BY DEF Revived, Typed, TypeOK
<1>4. ToSet(NewTable(t)) \subseteq Entry
  BY <1>1, ToSetIs
<1>5. TypeOK /\ ToSet(Visible) = IF fence THEN {} ELSE {e \in ToSet(table) : e.id \notin tombs}
  BY VisibleIs DEF Typed
<1>6. ASSUME NEW e \in ToSet(NewTable(t))
      PROVE  /\ e \in Entry /\ e.id # job[t].removes
             /\ Saving(t, e.id) \/ Copy(e)
             /\ \/ Saving(t, e.id)
                \/ e.id \in revived'
                \/ e \in ToSet(table) /\ e.id \notin tombs
  <2>1. e \in Entry /\ e.id \in Pendings
    BY <1>4 DEF Entry
  <2>2. CASE e \in ToSet(Kept(t))
    <3>1. e \in ToSet(snap[t]) /\ e.id # job[t].removes /\ e.id # job[t].adds
      BY <1>1, <2>2
    <3>2. e \in ToSet(Visible) \/ e.id \in revived'
      BY <1>2, <2>1, <3>1 DEF Revived
    <3>3. QED
      BY <1>5, <2>1, <3>1, <3>2 DEF Copy
  <2>3. CASE job[t].adds \in Pendings /\ e = [id |-> job[t].adds, claimed |-> FALSE]
    <3>1. Saving(t, e.id) /\ e.id = job[t].adds
      BY <2>3 DEF Saving
    <3>2. ~Known(e.id)
      BY <2>1, <3>1 DEF FreshIds
    <3>3. e.id # job[t].removes
      BY <2>1, <3>2 DEF Known
    <3>4. QED
      BY <2>1, <3>1, <3>3
  <2>4. QED
    BY <1>1, <2>2, <2>3
<1>7. QED
  BY <1>1, <1>2, <1>3, <1>6

LEMMA WriteStep ==
  ASSUME IInv, NEW t \in Turns, Write(t)
  PROVE  IInv'
<1>1. /\ Typed /\ FreshIds /\ ClaimedOnce /\ Shut /\ TurnsTyped /\ StoreTyped /\ TypeOK
  BY TypedParts DEF IInv, Typed
<1>2. pc[t] = "write" /\ UNCHANGED <<fence, used, dispatched>>
  BY DEF Write
<1>3. ToSet(table) \subseteq Entry /\ ToSet(snap[t]) \subseteq Entry
  BY <1>1, ToSetIs DEF StoreTyped, TurnsTyped
<1>4. "cancelled" \in Notices /\ "closed" \in Notices /\ "deleted" \in Notices
  BY DEF Notices
<1>5. /\ \A x \in Pendings, what \in Notices : Said(x, what) => Known(x)
      /\ \A x \in Pendings : x = job[t].removes => Known(x)
      /\ \A x \in Pendings : Saving(t, x) => ~Known(x)
  BY <1>1, <1>2 DEF Known, FreshIds
<1>6. ASSUME Done(t), Stored(t) \/ UNCHANGED <<table, revived>>, tombs' \subseteq Pendings,
             faults' \in 0 .. MaxFaults, told' \subseteq [id : Pendings, what : Notices],
             \A x \in Pendings, what \in Notices : Said(x, what)' =>
               Said(x, what) \/ (Known(x) /\ what # "cancelled"),
             \A x \in Pendings \ revived' :
               /\ Said(x, "deleted")' => x \notin Ids(table')
               /\ Said(x, "closed")' => fence' \/ x \notin Ids(table') \/ x \in tombs'
      PROVE  IInv'
  <2>1. /\ \A u \in Turns : pc'[u] # "idle" =>
             /\ u # t /\ pc[u] # "idle" /\ pc'[u] = pc[u]
             /\ job'[u] = job[u] /\ snap'[u] = snap[u]
        /\ TurnsTyped' /\ pc'[t] = "idle"
    BY <1>1, <1>6, DoneLeavesOthers
  <2>2. /\ table' \in Seq(Entry) /\ Len(table') <= Capacity
        /\ revived \subseteq revived' /\ revived' \subseteq Pendings
        /\ \A e \in ToSet(table') :
             /\ e \in Entry
             /\ Saving(t, e.id) \/ Copy(e)
             /\ Saving(t, e.id) \/ e.id \in revived' \/ e \in ToSet(table)
    <3>1. CASE Stored(t)
      BY <1>1, <1>2, <3>1, StoredIs
    <3>2. CASE UNCHANGED <<table, revived>>
      BY <1>1, <1>3, <3>2 DEF StoreTyped, Copy
    <3>3. QED
      BY <1>6, <3>1, <3>2
  <2>3. Quiet
    <3>1. ASSUME NEW e \in Entry, Copy(e)'
          PROVE  Copy(e) \/ \E u \in Turns : Saving(u, e.id) /\ pc'[u] = "idle"
      <4>1. CASE e \in ToSet(table')
        BY <2>1, <2>2, <4>1
      <4>2. CASE \E u \in Turns : pc'[u] = "write" /\ e \in ToSet(snap'[u])
        BY <2>1, <4>2 DEF Copy
      <4>3. QED
        BY <3>1, <4>1, <4>2 DEF Copy
    <3>2. \A x \in Pendings \ revived' : Open(x)' => Open(x) \/ Saving(t, x)
      BY <2>2 DEF Open
    <3>3. QED
      BY <1>2, <1>6, <2>1, <2>2, <3>1, <3>2 DEF Quiet
  <2>4. StoreTyped'
    BY <1>1, <1>2, <1>6, <2>2 DEF StoreTyped
  <2>5. Shut'
    BY <1>6 DEF Shut
  <2>6. QED
    BY <2>1, <2>3, <2>4, <2>5, QuietStep
\* Nothing that was closed, and nothing the turn consumed, is in what it writes.
<1>7. ASSUME Stored(t), NEW x \in Pendings \ revived'
      PROVE  /\ x = job[t].removes \/ Said(x, "deleted") => x \notin Ids(table')
             /\ Said(x, "closed") => fence \/ x \notin Ids(table')
  <2>1. x \notin revived /\ (x = job[t].removes \/ Said(x, "deleted") \/ Said(x, "closed") => ~Saving(t, x))
    BY <1>1, <1>2, <1>4, <1>5, <1>7, StoredIs
  <2>2. /\ Said(x, "deleted") => x \notin Ids(table)
        /\ Said(x, "closed") => fence \/ x \notin Ids(table) \/ x \in tombs
    BY <1>1, <1>7, <2>1 DEF Shut
  <2>3. \A e \in ToSet(table') : e.id = x =>
          /\ x # job[t].removes
          /\ Saving(t, x) \/ (x \in Ids(table) /\ x \notin tombs)
    BY <1>1, <1>2, <1>7, StoredIs DEF Ids
  <2>4. QED
    BY <2>1, <2>2, <2>3 DEF Ids
<1>8. CASE /\ Stored(t) /\ tombs' = {} /\ Closes(t, Evicted(t), "deleted") /\ UNCHANGED faults
  <2> DEFINE gone == Evicted(t) \union Consumed(t)
  <2>1. Done(t) /\ Tell(gone, "deleted") /\ table' = NewTable(t)
    BY <1>8 DEF Closes, Stored
  <2>2. ASSUME NEW x \in Evicted(t)
        PROVE  x \in Pendings /\ Known(x) /\ x \notin Ids(table')
    <3>1. x \in Ids(Kept(t)) /\ x \notin Ids(table')
      BY <2>1, <2>2 DEF Evicted
    <3>2. PICK e \in ToSet(snap[t]) : e.id = x
      BY <1>1, <1>2, <3>1, NewTableIs DEF Ids
    <3>3. e \in Entry /\ Copy(e)
      BY <1>2, <1>3, <3>2 DEF Copy
    <3>4. QED
      BY <3>1, <3>2, <3>3 DEF Known, Entry
  <2>3. ASSUME NEW x \in Consumed(t)
        PROVE  x \in Pendings /\ Known(x) /\ x = job[t].removes
    BY <1>1, <1>2, <1>5, <2>3 DEF Consumed, Typed, Job
  <2>4. /\ gone \subseteq Pendings
        /\ \A x \in gone : Known(x) /\ (x = job[t].removes \/ x \notin Ids(table'))
    BY <2>2, <2>3
  <2> HIDE DEF gone
  <2>5. /\ told' \subseteq [id : Pendings, what : Notices]
        /\ \A x, w : Said(x, w)' => Said(x, w) \/ (x \in gone /\ w = "deleted")
    BY <1>1, <1>4, <2>1, <2>4, TellIs DEF StoreTyped
  <2>6. ASSUME NEW x \in Pendings \ revived'
        PROVE  /\ Said(x, "deleted")' => x \notin Ids(table')
               /\ Said(x, "closed")' => fence' \/ x \notin Ids(table') \/ x \in tombs'
    BY <1>2, <1>7, <1>8, <2>4, <2>5
  <2>7. tombs' \subseteq Pendings /\ faults' \in 0 .. MaxFaults
    BY <1>1, <1>8 DEF StoreTyped
  <2>8. \A x \in Pendings, what \in Notices : Said(x, what)' =>
          Said(x, what) \/ (Known(x) /\ what # "cancelled")
    BY <2>4, <2>5
  <2>9. QED
    BY <1>6, <1>8, <2>1, <2>5, <2>6, <2>7, <2>8
<1>9. CASE /\ Stored(t) \/ UNCHANGED <<table, revived>>
           /\ faults' \in 0 .. MaxFaults /\ Fails(t)
  <2>1. /\ Done(t) /\ tombs \subseteq tombs' /\ tombs' \subseteq Pendings
        /\ told' \subseteq [id : Pendings, what : Notices]
        /\ \A x \in Pendings, what \in Notices : Said(x, what)' =>
             \/ Said(x, what)
             \/ what = "closed" /\ x = job[t].removes /\ x \in tombs'
    BY <1>1, <1>2, <1>9, FailsIs
  <2>2. ASSUME NEW x \in Pendings \ revived'
        PROVE  /\ Said(x, "deleted")' => x \notin Ids(table')
               /\ Said(x, "closed")' => fence' \/ x \notin Ids(table') \/ x \in tombs'
    <3>1. CASE Stored(t)
      BY <1>2, <1>4, <1>7, <2>1, <3>1
    <3>2. CASE UNCHANGED <<table, revived>>
      BY <1>1, <1>2, <1>4, <2>1, <3>2 DEF Shut
    <3>3. QED
      BY <1>9, <3>1, <3>2
  <2>3. \A x \in Pendings, what \in Notices : Said(x, what)' =>
          Said(x, what) \/ (Known(x) /\ what # "cancelled")
    BY <1>5, <2>1
  <2>4. QED
    BY <1>6, <1>9, <2>1, <2>2, <2>3
<1>10. CASE Faulty /\ (Stored(t) \/ UNCHANGED <<table, revived>>) /\ Fails(t)
  BY <1>1, <1>9, <1>10, FaultyIs
<1>11. CASE Fenced(t) /\ UNCHANGED <<table, revived, faults>> /\ Fails(t)
  BY <1>1, <1>9, <1>11 DEF StoreTyped
<1>12. QED
  BY <1>8, <1>10, <1>11 DEF Write

LEMMA ExpireStep ==
  ASSUME IInv, NEW id \in Pendings, Expire(id)
  PROVE  IInv'
<1>1. /\ Typed /\ FreshIds /\ ClaimedOnce /\ Shut /\ TurnsTyped /\ StoreTyped
  BY TypedParts DEF IInv
<1>2. /\ table' = Without(table, {id}) /\ snap' = [t \in Turns |-> Without(snap[t], {id})]
      /\ UNCHANGED <<tombs, fence, pc, job, used, dispatched, told, revived, faults>>
  BY DEF Expire
<1>3. /\ table' \in Seq(Entry) /\ Len(table') <= Len(table) /\ ToSet(table') \subseteq ToSet(table)
      /\ Len(table') \in Nat /\ Len(table) \in Nat
  BY <1>1, <1>2, WithoutIs, LenProperties DEF StoreTyped
<1>4. ASSUME NEW t \in Turns
      PROVE  /\ snap'[t] \in Seq(Entry) /\ Len(snap'[t]) <= Capacity
             /\ ToSet(snap'[t]) \subseteq ToSet(snap[t])
  <2>1. snap[t] \in Seq(Entry) /\ Len(snap[t]) <= Capacity /\ Len(snap[t]) \in Nat
    BY <1>1, LenProperties DEF TurnsTyped
  <2>2. snap'[t] = Without(snap[t], {id})
    BY <1>2
  <2>3. /\ snap'[t] \in Seq(Entry) /\ Len(snap'[t]) <= Len(snap[t]) /\ Len(snap'[t]) \in Nat
        /\ ToSet(snap'[t]) \subseteq ToSet(snap[t])
    BY <2>1, <2>2, WithoutIs, LenProperties
  <2>4. QED
    BY <2>1, <2>3, CapacityAssumption
<1>5. TurnsTyped'
  <2>1. snap' \in [Turns -> Seq(Entry)]
    BY <1>2, <1>4
  <2>2. QED
    BY <1>1, <1>2, <1>4, <2>1 DEF TurnsTyped
<1>6. StoreTyped'
  <2>1. Len(table') <= Capacity
    BY <1>1, <1>3, CapacityAssumption DEF StoreTyped
  <2>2. QED
    BY <1>1, <1>2, <1>3, <2>1 DEF StoreTyped
<1>7. Quiet
  <2>1. \A e \in Entry : Copy(e)' => Copy(e)
    BY <1>2, <1>3, <1>4 DEF Copy
  <2>2. \A x \in Pendings : Open(x)' => Open(x)
    BY <1>3 DEF Open
  <2>3. QED
    BY <1>2, <2>1, <2>2 DEF Quiet, Said
<1>8. Shut'
  <2>1. Ids(table') \subseteq Ids(table)
    BY <1>3 DEF Ids
  <2>2. QED
    BY <1>1, <1>2, <2>1, ShutStays DEF Said
<1>9. QED
  BY <1>5, <1>6, <1>7, <1>8, QuietStep

\* The fence goes up, the table is wiped, the fence goes down; or nothing happens.
LEMMA OwnerStep ==
  ASSUME IInv, UNCHANGED <<tombs, turnVars, used, dispatched, told, revived, faults>>,
         \/ table' = table /\ (fence' = TRUE \/ fence' = fence)
         \/ table' = <<>> /\ (fence' = TRUE \/ fence' = FALSE)
  PROVE  IInv'
<1>1. /\ Typed /\ FreshIds /\ ClaimedOnce /\ Shut /\ TurnsTyped /\ StoreTyped
  BY TypedParts DEF IInv
<1>2. UNCHANGED <<pc, job, snap>>
  BY DEF turnVars
<1>3. /\ table' \in Seq(Entry) /\ Len(table') <= Capacity
      /\ ToSet(table') \subseteq ToSet(table)
      /\ table' = table \/ ToSet(table') = {}
  <2>1. <<>> \in Seq(Entry) /\ Len(<<>>) <= Capacity /\ ToSet(<<>>) = {}
    BY ToSetEmpty, CapacityAssumption
  <2>2. CASE table' = table
    BY <1>1, <2>2 DEF StoreTyped
  <2>3. CASE table' = <<>>
    BY <2>1, <2>3
  <2>4. QED
    BY <2>2, <2>3
<1>4. TurnsTyped'
  BY <1>1, <1>2 DEF TurnsTyped
<1>5. StoreTyped'
  BY <1>1, <1>3 DEF StoreTyped
<1>6. Quiet
  <2>1. \A e \in Entry : Copy(e)' => Copy(e)
    BY <1>2, <1>3 DEF Copy
  <2>2. \A x \in Pendings : Open(x)' => Open(x)
    BY <1>3 DEF Open
  <2>3. QED
    BY <1>2, <2>1, <2>2 DEF Quiet, Said
<1>7. Shut'
  <2>1. Ids(table') \subseteq Ids(table) /\ (table' = table \/ Ids(table') = {})
    BY <1>3 DEF Ids
  <2>2. (fence => fence') \/ Ids(table') = {}
    BY <2>1, ToSetEmpty DEF Ids
  <2>3. ASSUME NEW x \in Pendings \ revived
        PROVE  /\ Said(x, "deleted")' => x \notin Ids(table')
               /\ Said(x, "closed")' => fence' \/ x \notin Ids(table') \/ x \in tombs'
    BY <1>1, <2>1, <2>2 DEF Shut, Said
  <2>4. QED
    BY <2>3 DEF Shut
<1>8. QED
  BY <1>4, <1>5, <1>6, <1>7, QuietStep

LEMMA RestartStep ==
  ASSUME IInv, Restart
  PROVE  IInv'
<1>1. /\ Typed /\ FreshIds /\ ClaimedOnce /\ Shut /\ TurnsTyped /\ StoreTyped
  BY TypedParts DEF IInv
<1>2. /\ tombs' = {} /\ pc' = [t \in Turns |-> "idle"] /\ job' = [t \in Turns |-> NoJob]
      /\ snap' = [t \in Turns |-> <<>>] /\ told' = {n \in told : n.what # "closed"}
      /\ UNCHANGED <<table, fence, used, dispatched, revived>> /\ faults' \in 0 .. MaxFaults
  BY <1>1, FaultyIs DEF Restart, Typed
<1>3. \A x \in Pendings, what \in Notices : Said(x, what)' => Said(x, what) /\ what # "closed"
  BY <1>2 DEF Said
<1>4. TurnsTyped'
  BY <1>2, ToSetEmpty, CapacityAssumption DEF TurnsTyped
<1>5. StoreTyped'
  BY <1>1, <1>2 DEF StoreTyped
<1>6. Quiet
  <2>1. \A e \in Entry : Copy(e)' => Copy(e)
    BY <1>2 DEF Copy
  <2>2. \A x \in Pendings : Open(x)' => Open(x)
    BY <1>2 DEF Open
  <2>3. QED
    BY <1>2, <1>3, <2>1, <2>2 DEF Quiet
<1>7. Shut'
  BY <1>1, <1>2, <1>3 DEF Shut, Notices
<1>8. QED
  BY <1>4, <1>5, <1>6, <1>7, QuietStep

(***************************************************************************)
(* The theorems.                                                           *)
(***************************************************************************)
LEMMA InitIInv == Init => IInv
<1> SUFFICES ASSUME Init PROVE IInv
  OBVIOUS
<1>1. <<>> \in Seq(Entry) /\ Len(<<>>) = 0 /\ ToSet(<<>>) = {} /\ 0 <= Capacity
  BY ToSetEmpty, CapacityAssumption
<1>2. TurnsTyped /\ StoreTyped
  <2>1. TurnsTyped
    BY <1>1 DEF Init, TurnsTyped
  <2>2. 0 \in 0 .. MaxFaults /\ [id \in Pendings |-> 0] \in [Pendings -> 0 .. 2]
    BY FaultsAssumption
  <2>3. StoreTyped
    BY <1>1, <2>2 DEF Init, StoreTyped
  <2>4. QED
    BY <2>1, <2>3
<1>3. \A e \in Entry : ~Copy(e)
  BY <1>1 DEF Init, Copy
<1>4. \A id \in Pendings : ~Known(id) /\ ~Open(id) /\ \A t \in Turns : ~Resuming(t, id) /\ ~Saving(t, id)
  BY <1>1, <1>3 DEF Init, Known, Open, Resuming, Saving, Said
<1>5. FreshIds /\ ClaimedOnce
  BY <1>4 DEF Init, FreshIds, ClaimedOnce
<1>6. Shut /\ ConsumedOnce /\ CancelledNeverRuns
  BY DEF Init, Shut, ConsumedOnce, CancelledNeverRuns, Said
<1>7. QED
  BY <1>2, <1>5, <1>6, TypedParts DEF IInv

LEMMA StepIInv ==
  ASSUME IInv, [Next]_vars
  PROVE  IInv'
<1>1. ASSUME NEW t \in Turns, TurnStep(t)
      PROVE  IInv'
  BY <1>1, BeginStep, WinsStep, LosesStep, ResumeStep, ReadStep, WriteStep DEF TurnStep, Claim
<1>2. ASSUME NEW id \in Pendings, Expire(id)
      PROVE  IInv'
  BY <1>2, ExpireStep
<1>3. CASE RaiseFence
  BY <1>3, OwnerStep DEF RaiseFence
<1>4. CASE WipeTable
  BY <1>4, OwnerStep, TypedParts DEF WipeTable, IInv, StoreTyped
<1>5. CASE LiftFence
  BY <1>5, OwnerStep DEF LiftFence
<1>6. CASE Restart
  BY <1>6, RestartStep
<1>7. CASE UNCHANGED vars
  BY <1>7, OwnerStep DEF vars, storeVars
<1>8. QED
  BY <1>1, <1>2, <1>3, <1>4, <1>5, <1>6, <1>7 DEF Next

\* However turns interleave, whatever fails: a turn that wins a claim is the only one,
\* and what is closed stays out of the table, for every operation that no write based
\* on an older table has put back (session.py claim_result, _write).
THEOREM TableInvariant == Spec => []IInv
<1>1. IInv /\ [Next]_vars => IInv'
  BY StepIInv
<1>2. QED
  BY <1>1, InitIInv, PTL DEF Spec

\* However many turns and operations, the state has its type and the table its
\* capacity (session.py _PENDING_CAPACITY).
THEOREM TypeCorrect == Spec => []TypeOK
<1>1. IInv => TypeOK
  BY DEF IInv, Typed
<1>2. QED
  BY <1>1, TableInvariant, PTL

\* No suspended step is resumed twice, whatever fails and whoever writes the table in
\* between, unless its entry was put back (session.py claim_result).
THEOREM ConsumesOnce == Spec => []ConsumedOnce
<1>1. IInv => ConsumedOnce
  BY DEF IInv
<1>2. QED
  BY <1>1, TableInvariant, PTL

\* What the user was told is cancelled is never resumed, unless it was put back
\* (engine.py, claim before cancel).
THEOREM CancelHolds == Spec => []CancelledNeverRuns
<1>1. IInv => CancelledNeverRuns
  BY DEF IInv
<1>2. QED
  BY <1>1, TableInvariant, PTL

\* What was closed is not offered again, unless it was put back (session.py
\* _close_locally, clear_result).
THEOREM CloseHolds == Spec => []ClosedStaysClosed
<1>1. IInv => ClosedStaysClosed
  <2>1. TypeOK => \A id \in Ids(Visible) : ~fence /\ id \in Ids(table) /\ id \notin tombs
    BY VisibleIs DEF Ids
  <2>2. QED
    BY <2>1 DEF IInv, Typed, Shut, ClosedStaysClosed
<1>2. QED
  BY <1>1, TableInvariant, PTL

\* While the fence stands nothing brings the owner's table back, overlapping turns
\* included (session.py, the fenced write script).
THEOREM FenceHolds == Spec => FenceHoldsTheTable
<1>1. ASSUME [Next]_vars, fence, table = <<>> PROVE table' = <<>>
  <2>1. Visible = <<>> /\ ToSet(<<>>) = {}
    BY <1>1, ToSetEmpty DEF Visible
  <2>2. \A id : ~Free(id) /\ id \notin Ids(table)
    BY <1>1, <2>1 DEF Free, Ids
  <2>3. ASSUME NEW t \in Turns, TurnStep(t) PROVE table' = <<>>
    <3>1. ASSUME NEW purpose, NEW id, Begin(t, purpose, id) PROVE table' = <<>>
      BY <1>1, <3>1 DEF Begin, storeVars
    <3>2. CASE Claim(t)
      BY <1>1, <2>2, <3>2 DEF Claim, Wins, Loses, ClaimFails
    <3>3. CASE Resume(t)
      BY <1>1, <3>3 DEF Resume, storeVars
    <3>4. CASE Read(t)
      BY <1>1, <3>4 DEF Read
    <3>5. CASE Write(t)
      BY <1>1, <3>5 DEF Write, Stored, Fenced
    <3>6. QED
      BY <2>3, <3>1, <3>2, <3>3, <3>4, <3>5 DEF TurnStep
  <2>4. ASSUME NEW id \in Pendings, Expire(id) PROVE table' = <<>>
    BY <2>2, <2>4 DEF Expire
  <2>5. CASE RaiseFence \/ WipeTable \/ LiftFence \/ Restart \/ UNCHANGED vars
    BY <1>1, <2>5 DEF RaiseFence, WipeTable, LiftFence, Restart, vars, storeVars
  <2>6. QED
    BY <1>1, <2>3, <2>4, <2>5 DEF Next
<1>2. QED
  BY <1>1, PTL DEF Spec, FenceHoldsTheTable
===============================================================================
