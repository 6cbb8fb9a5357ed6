------------------------ MODULE PlanExecutionProofs ------------------------
(***************************************************************************)
(* Every plan, of any number of steps, dependencies and fingerprints: an   *)
(* action takes effect once, where the plan can know of it, and only after *)
(* the confirmation it needs; and nothing is left out in silence.          *)
(***************************************************************************)
EXTENDS PlanExecution, WellFoundedInduction, TLAPS

(***************************************************************************)
(* The inductive invariant.                                                *)
(***************************************************************************)
\* Nothing is under way between turns.
Idle ==
    phase # "run" => fresh = {} /\ flying = {} /\ \A s \in Steps : back[s] = "none"

\* What is under way is of one layer and has no result from before.
InLayer ==
    \A s \in Steps :
        s \in fresh \/ s \in flying \/ back[s] # "none"
            => Depth[s] = layer /\ done[s] = "none"

\* A step that has a result in this layer is not under way any more.
Apart == \A s \in Steps : s \in fresh \/ s \in flying => back[s] = "none"

\* A call that is out has no twin among the results.
Unseen == \A s \in Steps : s \in flying => Duplicates(s) = {}

\* The consumer has every result of the executor while the turn runs.
Handed == phase = "run" => \A s \in Steps : done[s] # "none" => s \in results

\* An effect the plan can know of is in its results, or in the pending record.
Telling(status) == status = "ok" \/ status = "timeout"
Remembered(s) ==
    IF phase = "wait" THEN held.kept[s] = "ok" ELSE Telling(done[s]) \/ Telling(back[s])
Known ==
    \A s \in Steps :
        acts[s] > 0 /\ PrintOf[s] \notin spoiled => s \in Acting /\ Remembered(s)

\* The confirmation a step carries was given by the user.
Genuine == confirmed \in agreed \cup {0}

Order == Idle /\ InLayer /\ Apart /\ Unseen /\ Handed
IInv == TypeOK /\ Order /\ Known /\ Genuine /\ RanOnce /\ AskedBeforeActed

(***************************************************************************)
(* The breaker.                                                            *)
(***************************************************************************)
LEMMA ClosedIsSound == Closed \in Breaker /\ Sound(Closed)
BY ThresholdAssumption DEF Closed, Breaker, Sound

LEMMA BreakerSteps ==
  ASSUME NEW b \in Breaker, Sound(b)
  PROVE  /\ Asked(b) \in Breaker /\ Sound(Asked(b))
         /\ Succeeded(b) \in Breaker /\ Sound(Succeeded(b))
         /\ Failed(b) \in Breaker /\ Sound(Failed(b))
         /\ [b EXCEPT !.cool = TRUE] \in Breaker /\ Sound([b EXCEPT !.cool = TRUE])
<1>1. /\ Asked(b) \in Breaker /\ Sound(Asked(b))
  BY ThresholdAssumption DEF Asked, Breaker, Sound
<1>2. /\ Succeeded(b) \in Breaker /\ Sound(Succeeded(b))
  <2>1. 0 \in 0 .. Threshold /\ 0 < Threshold
    BY ThresholdAssumption
  <2>2. CASE b.state = "half_open"
    BY <2>1, <2>2 DEF Succeeded, Breaker, Sound
  <2>3. CASE b.state # "half_open"
    BY <2>1, <2>3 DEF Succeeded, Breaker, Sound
  <2>4. QED
    BY <2>2, <2>3
<1>3. /\ Failed(b) \in Breaker /\ Sound(Failed(b))
  BY ThresholdAssumption DEF Failed, Counted, Breaker, Sound
<1>4. /\ [b EXCEPT !.cool = TRUE] \in Breaker /\ Sound([b EXCEPT !.cool = TRUE])
  BY DEF Breaker, Sound
<1>5. QED
  BY <1>1, <1>2, <1>3, <1>4

(***************************************************************************)
(* The first state.                                                        *)
(***************************************************************************)
LEMMA InitIInv == Init => IInv
<1> SUFFICES ASSUME Init PROVE IInv
  OBVIOUS
<1> USE DEF Init
<1>1. NoResults \in [Steps -> Statuses] /\ \A s \in Steps : NoResults[s] = "none"
  BY DEF NoResults, Statuses
<1>2. TypeOK
  <2>1. held \in [step: Steps \cup {0}, kept: [Steps -> Statuses]] /\ held.step = 0
    BY <1>1 DEF NoRecord
  <2>2. breaker \in [Endpoints -> Breaker] /\ \A e \in Endpoints : Sound(breaker[e])
    BY ClosedIsSound
  <2>3. fresh \subseteq Steps
    BY DEF Runnable, Layer
  <2>4. resumes \in 0 .. MaxResumes
    BY StepsAssumption
  <2>5. QED
    BY <1>1, <2>1, <2>2, <2>3, <2>4 DEF TypeOK
<1>3. Order
  BY <1>1 DEF Order, Idle, InLayer, Apart, Unseen, Handed, Runnable, Layer
<1>4. /\ Known /\ Genuine /\ RanOnce /\ AskedBeforeActed
  BY KindsAssumption DEF Known, Genuine, RanOnce, AskedBeforeActed
<1>5. QED
  BY <1>2, <1>3, <1>4 DEF IInv

(***************************************************************************)
(* A step that takes effect, and one that does not.                        *)
(***************************************************************************)
\* A call that is out is the first of its fingerprint that the plan knows of,
\* but for its twins in the same layer.
LEMMA NewEffect ==
  ASSUME IInv, NEW s \in Steps, s \in flying, NEW p \in Steps,
         PrintOf[p] = PrintOf[s], acts[p] > 0, PrintOf[s] \notin spoiled
  PROVE  p # s /\ Depth[p] = Depth[s]
<1>1. phase = "run"
  BY DEF IInv, Order, Idle
<1>2. p \in Acting /\ (Telling(done[p]) \/ Telling(back[p]))
  BY <1>1 DEF IInv, Known, Remembered
<1>3. ~Telling(done[p])
  BY <1>2 DEF IInv, Order, Unseen, Duplicates, Telling
<1>4. back[p] # "none"
  BY <1>2, <1>3 DEF Telling
<1>5. QED
  BY <1>4 DEF IInv, Order, InLayer, Apart

LEMMA EffectOnce ==
  ASSUME IInv, NEW s \in Steps, s \in flying, Acted(s), spoiled \subseteq spoiled'
  PROVE  RanOnce'
<1>1. acts \in [Steps -> Nat]
  BY DEF IInv, TypeOK
<1>2. \A p \in Steps : acts'[p] = IF p = s THEN acts[s] + 1 ELSE acts[p]
  BY <1>1 DEF Acted
<1>3. SUFFICES ASSUME NEW p \in Steps, NEW q \in Steps,
                      PrintOf[p] = PrintOf[q], acts'[p] > 0, acts'[q] > 0,
                      IF p = q THEN acts'[p] > 1 ELSE Depth[p] # Depth[q],
                      PrintOf[p] \notin spoiled'
               PROVE  FALSE
  BY DEF RanOnce
<1>4. PrintOf[p] \notin spoiled
  BY <1>3
<1>5. CASE p # s /\ q # s
  BY <1>2, <1>3, <1>4, <1>5 DEF IInv, RanOnce
<1>6. CASE p = s /\ q = s
  <2>1. acts[s] > 0
    BY <1>1, <1>2, <1>3, <1>6
  <2>2. QED
    BY <1>4, <1>6, <2>1, NewEffect
<1>7. CASE p = s /\ q # s
  BY <1>2, <1>3, <1>4, <1>7, NewEffect
<1>8. CASE p # s /\ q = s
  BY <1>2, <1>3, <1>4, <1>8, NewEffect
<1>9. QED
  BY <1>5, <1>6, <1>7, <1>8

\* A step may act only with the confirmation it needs.
LEMMA EffectAsked ==
  ASSUME IInv, NEW s \in Steps, MayAct(s), Acted(s), agreed' = agreed
  PROVE  AskedBeforeActed'
<1>1. acts \in [Steps -> Nat] /\ 0 \notin Steps
  BY DEF IInv, TypeOK, Steps
<1>2. \A p \in Steps : p # s => acts'[p] = acts[p]
  BY <1>1 DEF Acted
<1>3. s \in Confirming => s \in agreed
  BY <1>1 DEF MayAct, IInv, Genuine
<1>4. QED
  BY <1>2, <1>3, KindsAssumption DEF AskedBeforeActed, IInv

(***************************************************************************)
(* The actions of a layer.  What changes is a step's place - waiting, out, *)
(* back - so Landing and Leaving collect what they share.                  *)
(***************************************************************************)
\* A step gets its result of this layer: it leaves fresh or flying.
GetsBack(s, status) ==
    /\ s \in fresh \/ s \in flying
    /\ back' = [back EXCEPT ![s] = status]
    /\ fresh' \subseteq fresh /\ flying' \subseteq flying
    /\ s \notin fresh' /\ s \notin flying'
    /\ UNCHANGED <<turn, done, results, user>>

LEMMA BackOrder ==
  ASSUME IInv, NEW s \in Steps, NEW status \in Statuses \ {"none"}, GetsBack(s, status)
  PROVE  Order' /\ Genuine' /\ back' \in [Steps -> Statuses]
<1> USE DEF GetsBack
<1>1. /\ back' \in [Steps -> Statuses]
      /\ \A p \in Steps : back'[p] = IF p = s THEN status ELSE back[p]
  BY DEF IInv, TypeOK
<1>2. phase = "run"
  BY DEF IInv, Order, Idle
<1>3. Idle'
  BY <1>2 DEF Idle, turn
<1>4. InLayer'
  BY <1>1 DEF InLayer, IInv, Order, turn
<1>5. Apart'
  BY <1>1 DEF Apart, IInv, Order
<1>6. Unseen'
  BY DEF Unseen, Duplicates, IInv, Order
<1>7. Handed'
  BY DEF Handed, IInv, Order, turn
<1>8. Genuine'
  BY DEF Genuine, IInv, user
<1>9. QED
  BY <1>1, <1>3, <1>4, <1>5, <1>6, <1>7, <1>8 DEF Order

\* Steps other than s keep what is known of them; s has an unknown effect at most
\* where the plan is told so.
LEMMA BackKnown ==
  ASSUME IInv, NEW s \in Steps, NEW status, GetsBack(s, status),
         spoiled \subseteq spoiled',
         \/ UNCHANGED acts
         \/ Acted(s) /\ s \in Acting /\ (Telling(status) \/ PrintOf[s] \in spoiled')
  PROVE  Known'
<1> USE DEF GetsBack
<1>1. /\ acts \in [Steps -> Nat] /\ back \in [Steps -> Statuses]
  BY DEF IInv, TypeOK
<1>2. \A p \in Steps : p # s => acts'[p] = acts[p] /\ back'[p] = back[p]
  BY <1>1 DEF Acted
<1>3. back'[s] = status /\ back[s] = "none"
  BY <1>1 DEF IInv, Order, Apart
<1>4. phase = "run" /\ phase' = "run" /\ done' = done
  BY DEF IInv, Order, Idle, turn
<1>5. SUFFICES ASSUME NEW p \in Steps, acts'[p] > 0, PrintOf[p] \notin spoiled'
               PROVE  p \in Acting /\ (Telling(done[p]) \/ Telling(back'[p]))
  BY <1>4 DEF Known, Remembered
<1>6. CASE p # s
  BY <1>2, <1>4, <1>5, <1>6 DEF IInv, Known, Remembered
<1>7. CASE p = s /\ UNCHANGED acts
  <2>1. p \in Acting /\ (Telling(done[p]) \/ Telling(back[p]))
    BY <1>4, <1>5, <1>7 DEF IInv, Known, Remembered
  <2>2. QED
    BY <1>3, <1>7, <2>1 DEF Telling
<1>8. CASE p = s /\ ~UNCHANGED acts
  BY <1>3, <1>5, <1>8
<1>9. QED
  BY <1>6, <1>7, <1>8

LEMMA NoEffect ==
  ASSUME IInv, acts' = acts, spoiled \subseteq spoiled', agreed \subseteq agreed'
  PROVE  RanOnce' /\ AskedBeforeActed'
BY DEF IInv, RanOnce, AskedBeforeActed

LEMMA ReplayStep ==
  ASSUME IInv, NEW s \in Steps, Replay(s)
  PROVE  IInv'
<1>1. GetsBack(s, "ok")
  BY DEF Replay, GetsBack, IInv, TypeOK
<1>2. "ok" \in Statuses \ {"none"}
  BY DEF Statuses
<1>3. Order' /\ Genuine' /\ back' \in [Steps -> Statuses]
  BY <1>1, <1>2, BackOrder
<1>4. Known'
  <2>1. UNCHANGED <<acts, spoiled>>
    BY DEF Replay
  <2>2. QED
    BY <1>1, <2>1, BackKnown
<1>5. RanOnce' /\ AskedBeforeActed'
  BY NoEffect DEF Replay, user
<1>6. TypeOK'
  BY <1>3 DEF Replay, IInv, TypeOK, turn, user
<1>7. QED
  BY <1>3, <1>4, <1>5, <1>6 DEF IInv

LEMMA BreakerOf ==
  ASSUME IInv, NEW s \in Steps
  PROVE  /\ EndpointOf[s] \in Endpoints
         /\ breaker[EndpointOf[s]] \in Breaker /\ Sound(breaker[EndpointOf[s]])
BY DEF IInv, TypeOK, Endpoints

LEMMA BreakersStay ==
  ASSUME IInv, NEW e \in Endpoints, NEW b \in Breaker, Sound(b),
         breaker' = [breaker EXCEPT ![e] = b]
  PROVE  breaker' \in [Endpoints -> Breaker] /\ \A f \in Endpoints : Sound(breaker'[f])
BY DEF IInv, TypeOK

LEMMA DispatchStep ==
  ASSUME IInv, NEW s \in Steps, Dispatch(s)
  PROVE  IInv'
<1> DEFINE e == EndpointOf[s]
<1>1. breaker' \in [Endpoints -> Breaker] /\ \A f \in Endpoints : Sound(breaker'[f])
  <2>1. e \in Endpoints /\ Asked(breaker[e]) \in Breaker /\ Sound(Asked(breaker[e]))
    BY BreakerOf, BreakerSteps
  <2>2. breaker' = [breaker EXCEPT ![e] = Asked(breaker[e])]
    BY DEF Dispatch
  <2>3. QED
    BY <2>1, <2>2, BreakersStay
<1>2. UNCHANGED <<turn, done, results, user, acts, spoiled>>
  BY DEF Dispatch
<1>3. RanOnce' /\ AskedBeforeActed'
  BY <1>2, NoEffect DEF user
<1>4. CASE Allowed(breaker[e])
  <2>1. /\ s \in fresh /\ Duplicates(s) = {}
        /\ fresh' = fresh \ {s} /\ flying' = flying \cup {s} /\ back' = back
    BY <1>4 DEF Dispatch
  <2>2. phase = "run"
    BY <2>1 DEF IInv, Order, Idle
  <2>3. Idle' /\ InLayer' /\ Apart' /\ Handed'
    BY <1>2, <2>1, <2>2 DEF Idle, InLayer, Apart, Handed, IInv, Order, turn
  <2>4. Unseen'
    BY <1>2, <2>1 DEF Unseen, Duplicates, IInv, Order
  <2>5. Known' /\ Genuine'
    BY <1>2, <2>1 DEF Known, Remembered, Genuine, IInv, turn, user
  <2>6. TypeOK'
    BY <1>1, <1>2, <2>1 DEF IInv, TypeOK, turn, user
  <2>7. QED
    BY <1>3, <2>3, <2>4, <2>5, <2>6 DEF IInv, Order
<1>5. CASE ~Allowed(breaker[e])
  <2>1. GetsBack(s, "failed")
    BY <1>5 DEF Dispatch, GetsBack, IInv, TypeOK
  <2>2. "failed" \in Statuses \ {"none"}
    BY DEF Statuses
  <2>3. Order' /\ Genuine' /\ back' \in [Steps -> Statuses]
    BY <2>1, <2>2, BackOrder
  <2>4. Known'
    BY <1>2, <2>1, BackKnown
  <2>5. TypeOK'
    BY <1>1, <1>2, <1>5, <2>3 DEF Dispatch, IInv, TypeOK, turn, user
  <2>6. QED
    BY <1>3, <2>3, <2>4, <2>5 DEF IInv
<1>6. QED
  BY <1>4, <1>5

\* What every landing call has in common.
LEMMA LandedBack ==
  ASSUME IInv, NEW s \in Steps, NEW status \in Statuses \ {"none"}, Landed(s, status),
         breaker' \in [Endpoints -> Breaker] /\ (\A f \in Endpoints : Sound(breaker'[f])),
         acts' = acts \/ Acted(s)
  PROVE  GetsBack(s, status) /\ Order' /\ Genuine' /\ TypeOK'
<1>1. GetsBack(s, status)
  BY DEF Landed, GetsBack, IInv, TypeOK
<1>2. Order' /\ Genuine' /\ back' \in [Steps -> Statuses]
  BY <1>1, BackOrder
<1>3. acts' \in [Steps -> Nat]
  BY DEF Acted, IInv, TypeOK
<1>4. TypeOK'
  BY <1>2, <1>3 DEF Landed, IInv, TypeOK, turn, user
<1>5. QED
  BY <1>1, <1>2, <1>4

LEMMA RespondStep ==
  ASSUME IInv, NEW s \in Steps, Respond(s)
  PROVE  IInv'
<1>1. PICK answer \in Answers(s) :
        /\ Landed(s, answer)
        /\ breaker' = [breaker EXCEPT ![EndpointOf[s]] = Succeeded(breaker[EndpointOf[s]])]
        /\ IF answer = "ok" /\ s \in Acting THEN Acted(s) ELSE UNCHANGED acts
        /\ UNCHANGED spoiled
  BY DEF Respond
<1>2. answer \in Statuses \ {"none"}
  BY DEF Answers, Statuses, Suspending
<1>3. breaker' \in [Endpoints -> Breaker] /\ \A f \in Endpoints : Sound(breaker'[f])
  BY <1>1, BreakerOf, BreakerSteps, BreakersStay
<1>4. GetsBack(s, answer) /\ Order' /\ Genuine' /\ TypeOK'
  BY <1>1, <1>2, <1>3, LandedBack
<1>5. CASE answer = "ok" /\ s \in Acting
  <2>1. Acted(s) /\ Telling(answer)
    BY <1>1, <1>5 DEF Telling
  <2>2. Known'
    BY <1>1, <1>4, <1>5, <2>1, BackKnown
  <2>3. RanOnce'
    BY <1>1, <2>1, EffectOnce DEF Landed
  <2>4. MayAct(s)
    BY <1>5 DEF Answers, MayAct
  <2>5. AskedBeforeActed'
    BY <1>1, <2>1, <2>4, EffectAsked DEF Landed, user
  <2>6. QED
    BY <1>4, <2>2, <2>3, <2>5 DEF IInv
<1>6. CASE ~(answer = "ok" /\ s \in Acting)
  <2>1. acts' = acts /\ agreed' = agreed
    BY <1>1, <1>6 DEF Landed, user
  <2>2. Known' /\ RanOnce' /\ AskedBeforeActed'
    BY <1>1, <1>4, <2>1, BackKnown, NoEffect
  <2>3. QED
    BY <1>4, <2>2 DEF IInv
<1>7. QED
  BY <1>5, <1>6

LEMMA BreakStep ==
  ASSUME IInv, NEW s \in Steps, Break(s)
  PROVE  IInv'
<1>1. breaker' \in [Endpoints -> Breaker] /\ \A f \in Endpoints : Sound(breaker'[f])
  <2>1. breaker' = [breaker EXCEPT ![EndpointOf[s]] = Failed(breaker[EndpointOf[s]])]
    BY DEF Break
  <2>2. QED
    BY <2>1, BreakerOf, BreakerSteps, BreakersStay
<1>2. Landed(s, "failed") /\ "failed" \in Statuses \ {"none"}
  BY DEF Break, Statuses
<1>3. GetsBack(s, "failed") /\ Order' /\ Genuine' /\ TypeOK'
  <2>1. acts' = acts \/ Acted(s)
    BY DEF Break
  <2>2. QED
    BY <1>1, <1>2, <2>1, LandedBack
<1>4. CASE UNCHANGED <<acts, spoiled>>
  <2>1. agreed' = agreed
    BY <1>2 DEF Landed, user
  <2>2. Known' /\ RanOnce' /\ AskedBeforeActed'
    BY <1>3, <1>4, <2>1, BackKnown, NoEffect
  <2>3. QED
    BY <1>3, <2>2 DEF IInv
<1>5. CASE MayAct(s) /\ Acted(s) /\ spoiled' = spoiled \cup {PrintOf[s]}
  <2>1. Known'
    BY <1>3, <1>5, BackKnown DEF MayAct
  <2>2. RanOnce'
    BY <1>2, <1>5, EffectOnce DEF Landed
  <2>3. AskedBeforeActed'
    BY <1>2, <1>5, EffectAsked DEF Landed, user
  <2>4. QED
    BY <1>3, <2>1, <2>2, <2>3 DEF IInv
<1>6. QED
  BY <1>4, <1>5 DEF Break

LEMMA ExpireStep ==
  ASSUME IInv, NEW s \in Steps, Expire(s)
  PROVE  IInv'
<1>1. /\ Landed(s, "timeout") /\ "timeout" \in Statuses \ {"none"}
      /\ UNCHANGED <<breaker, spoiled>> /\ (acts' = acts \/ Acted(s))
  BY DEF Expire, Statuses
<1>2. GetsBack(s, "timeout") /\ Order' /\ Genuine' /\ TypeOK'
  <2>1. breaker' \in [Endpoints -> Breaker] /\ \A f \in Endpoints : Sound(breaker'[f])
    BY <1>1 DEF IInv, TypeOK
  <2>2. QED
    BY <1>1, <2>1, LandedBack
<1>3. CASE UNCHANGED acts
  <2>1. agreed' = agreed
    BY <1>1 DEF Landed, user
  <2>2. Known' /\ RanOnce' /\ AskedBeforeActed'
    BY <1>1, <1>2, <1>3, <2>1, BackKnown, NoEffect
  <2>3. QED
    BY <1>2, <2>2 DEF IInv
<1>4. CASE MayAct(s) /\ Acted(s)
  <2>1. Known'
    BY <1>1, <1>2, <1>4, BackKnown DEF MayAct, Telling
  <2>2. RanOnce'
    BY <1>1, <1>4, EffectOnce DEF Landed
  <2>3. AskedBeforeActed'
    BY <1>1, <1>4, EffectAsked DEF Landed, user
  <2>4. QED
    BY <1>2, <2>1, <2>2, <2>3 DEF IInv
<1>5. QED
  BY <1>3, <1>4 DEF Expire

LEMMA CoolDownStep ==
  ASSUME IInv, NEW e \in Endpoints, CoolDown(e)
  PROVE  IInv'
<1>1. breaker' \in [Endpoints -> Breaker] /\ \A f \in Endpoints : Sound(breaker'[f])
  <2>1. breaker[e] \in Breaker /\ Sound(breaker[e])
    BY DEF IInv, TypeOK
  <2>2. breaker' = [breaker EXCEPT ![e] = [breaker[e] EXCEPT !.cool = TRUE]]
    BY <2>1 DEF CoolDown, IInv, TypeOK
  <2>3. QED
    BY <2>1, <2>2, BreakerSteps, BreakersStay
<1>2. UNCHANGED <<turn, work, done, results, user, acts, spoiled>>
  BY DEF CoolDown
<1>3. TypeOK'
  BY <1>1, <1>2 DEF IInv, TypeOK, turn, work, user
<1>4. Order' /\ Known' /\ Genuine'
  BY <1>2 DEF IInv, Order, Idle, InLayer, Apart, Unseen, Duplicates, Handed, Known, Remembered,
              Genuine, turn, work, user
<1>5. RanOnce' /\ AskedBeforeActed'
  BY <1>2, NoEffect DEF user
<1>6. QED
  BY <1>3, <1>4, <1>5 DEF IInv

(***************************************************************************)
(* The end of a layer, of a turn, and the next turn.                       *)
(***************************************************************************)
LEMMA MergedResults ==
  ASSUME IInv, Complete
  PROVE  /\ Merged \in [Steps -> Statuses]
         /\ \A s \in Steps : /\ s \in Ran => Merged[s] = back[s]
                             /\ s \notin Ran => Merged[s] = done[s]
         /\ \A s \in Steps : Merged[s] # "none" => s \in results \cup Ran
         /\ \A s \in Steps : acts[s] > 0 /\ PrintOf[s] \notin spoiled
                                => s \in Acting /\ Telling(Merged[s])
<1>1. Merged \in [Steps -> Statuses]
  BY DEF Merged, IInv, TypeOK
<1>2. \A s \in Steps : /\ s \in Ran => Merged[s] = back[s]
                       /\ s \notin Ran => Merged[s] = done[s]
  BY DEF Merged
<1>3. phase = "run"
  BY DEF Complete
<1>4. \A s \in Steps : Merged[s] # "none" => s \in results \cup Ran
  BY <1>2, <1>3 DEF IInv, Order, Handed
<1>5. ASSUME NEW s \in Steps, acts[s] > 0, PrintOf[s] \notin spoiled
      PROVE  s \in Acting /\ Telling(Merged[s])
  <2>1. s \in Acting /\ (Telling(done[s]) \/ Telling(back[s]))
    BY <1>3, <1>5 DEF IInv, Known, Remembered
  <2>2. CASE s \in Ran
    <3>1. done[s] = "none"
      BY <2>2 DEF Ran, IInv, Order, InLayer
    <3>2. Merged[s] = back[s]
      BY <1>2, <2>2
    <3>3. ~Telling(done[s])
      BY <3>1 DEF Telling
    <3>4. QED
      BY <2>1, <3>2, <3>3
  <2>3. CASE s \notin Ran
    <3>1. back[s] = "none"
      BY <2>3 DEF Ran
    <3>2. QED
      BY <1>2, <2>1, <2>3, <3>1 DEF Telling
  <2>4. QED
    BY <2>2, <2>3
<1>6. QED
  BY <1>1, <1>2, <1>4, <1>5

LEMMA Blank == NoResults \in [Steps -> Statuses] /\ \A s \in Steps : NoResults[s] = "none"
BY DEF NoResults, Statuses

LEMMA NextLayerStep ==
  ASSUME IInv, NextLayer
  PROVE  IInv'
<1>1. /\ Complete /\ phase = "run" /\ flying = {}
      /\ layer' = layer + 1 /\ done' = Merged /\ results' = results \cup Ran
      /\ fresh' = Runnable(layer + 1, Merged) /\ back' = NoResults
      /\ UNCHANGED <<phase, driver, flying, user, breaker, acts, spoiled>>
  BY DEF NextLayer, Complete
<1>2. fresh' \subseteq Steps /\ \A s \in fresh' : Depth[s] = layer' /\ done'[s] = "none"
  BY <1>1 DEF Runnable, Layer
<1>3. TypeOK'
  BY <1>1, <1>2, MergedResults, Blank DEF IInv, TypeOK, Ran, user
<1>4. Idle' /\ InLayer' /\ Apart' /\ Unseen'
  BY <1>1, <1>2, Blank DEF Idle, InLayer, Apart, Unseen
<1>5. Handed'
  BY <1>1, MergedResults DEF Handed
<1>6. Known'
  BY <1>1, MergedResults DEF Known, Remembered
<1>7. Genuine'
  BY <1>1 DEF IInv, Genuine, user
<1>8. RanOnce' /\ AskedBeforeActed'
  BY <1>1, NoEffect DEF user
<1>9. QED
  BY <1>3, <1>4, <1>5, <1>6, <1>7, <1>8 DEF IInv, Order

LEMMA KeptType ==
  ASSUME NEW status \in Statuses
  PROVE  KeptAs(status) \in Statuses /\ (status = "ok" => KeptAs(status) = "ok")
BY DEF KeptAs, Statuses, Suspending

\* What the turn leaves for the plan not to know of.
Forgotten(seen) ==
    {PrintOf[s] : s \in
        (  {s \in Ran \ Consumed : Merged[s] = "ok" \/ Merged[s] = "timeout"}
        \cup In({"timeout"}, seen)) \cap Acting}

LEMMA KeptOk ==
  ASSUME IInv, Complete, NEW s \in Steps, acts[s] > 0, PrintOf[s] \notin spoiled,
         PrintOf[s] \notin Forgotten(results \cup Consumed)
  PROVE  Kept(results \cup Consumed)[s] = "ok"
<1> DEFINE seen == results \cup Consumed
<1>1. s \in Acting /\ Telling(Merged[s]) /\ s \in results \cup Ran
  BY MergedResults DEF Telling
<1>2. s \in seen
  BY <1>1 DEF Forgotten, Telling
<1>3. Merged[s] # "timeout"
  BY <1>1, <1>2 DEF Forgotten, In
<1>4. Merged[s] = "ok" /\ "ok" \in Statuses
  BY <1>1, <1>3 DEF Telling, Statuses
<1>5. QED
  BY <1>2, <1>4, KeptType DEF Kept

LEMMA EndTurnStep ==
  ASSUME IInv, EndTurn
  PROVE  IInv'
<1> DEFINE seen == results \cup Consumed
<1>1. /\ Complete /\ phase = "run" /\ fresh = {} /\ flying = {} /\ held.step = 0
      /\ done' = Merged /\ results' = seen /\ back' = NoResults
      /\ UNCHANGED <<driver, layer, fresh, flying, confirmed, filled, resumes, agreed,
                     breaker, acts>>
  BY DEF EndTurn, Complete, IInv, TypeOK
<1>2. \/ phase' = "over" /\ UNCHANGED <<held, spoiled>>
      \/ /\ phase' = "wait"
         /\ \E first \in Steps : held' = [step |-> first, kept |-> Kept(seen)]
         /\ spoiled' = spoiled \cup Forgotten(seen)
  BY DEF EndTurn, Forgotten
<1>3. seen \subseteq Steps
  BY DEF Consumed, Ran, IInv, TypeOK
<1>4. /\ held' \in [step: Steps \cup {0}, kept: [Steps -> Statuses]]
      /\ phase' \in {"run", "wait", "over"} /\ (phase' = "wait" <=> held'.step # 0)
  <2>1. Kept(seen) \in [Steps -> Statuses]
    <3>1. \A s \in Steps : Merged[s] \in Statuses /\ KeptAs(Merged[s]) \in Statuses
      BY <1>1, MergedResults, KeptType
    <3>2. "none" \in Statuses
      BY DEF Statuses
    <3>3. QED
      BY <3>1, <3>2 DEF Kept
  <2>2. 0 \notin Steps
    BY DEF Steps
  <2>3. CASE phase' = "over"
    BY <1>1, <1>2, <2>3 DEF IInv, TypeOK
  <2>4. CASE phase' = "wait"
    <3>1. PICK first \in Steps : held' = [step |-> first, kept |-> Kept(seen)]
      BY <1>2, <2>4
    <3>2. QED
      BY <2>1, <2>2, <2>4, <3>1
  <2>5. QED
    BY <1>2, <2>3, <2>4
<1>5. TypeOK'
  BY <1>1, <1>3, <1>4, MergedResults, Blank DEF IInv, TypeOK
<1>6. Order'
  BY <1>1, <1>2, Blank DEF Order, Idle, InLayer, Apart, Unseen, Handed
<1>7. Known'
  <2>1. CASE phase' = "over"
    BY <1>1, <1>2, <2>1, MergedResults DEF Known, Remembered
  <2>2. CASE phase' = "wait"
    <3>1. spoiled' = spoiled \cup Forgotten(seen) /\ held'.kept = Kept(seen)
      BY <1>2, <2>2
    <3>2. ASSUME NEW s \in Steps, acts'[s] > 0, PrintOf[s] \notin spoiled'
          PROVE  s \in Acting /\ held'.kept[s] = "ok"
      BY <1>1, <3>1, <3>2, KeptOk, MergedResults
    <3>3. QED
      BY <2>2, <3>2 DEF Known, Remembered
  <2>3. QED
    BY <1>2, <2>1, <2>2
<1>8. Genuine'
  BY <1>1 DEF IInv, Genuine
<1>9. RanOnce' /\ AskedBeforeActed'
  BY <1>1, <1>2, NoEffect
<1>10. QED
  BY <1>5, <1>6, <1>7, <1>8, <1>9 DEF IInv

LEMMA ResumeStep ==
  ASSUME IInv, Resume
  PROVE  IInv'
<1>1. /\ phase = "wait" /\ phase' = "run" /\ resumes < MaxResumes /\ resumes' = resumes + 1
      /\ done' = held.kept /\ results' = {s \in Steps : held.kept[s] # "none"}
      /\ layer' = 0 /\ fresh' = Runnable(0, held.kept) /\ held' = NoRecord
      /\ UNCHANGED <<driver, flying, back, breaker, acts, spoiled>>
  BY DEF Resume
<1>2. /\ held.step \in Steps /\ held.kept \in [Steps -> Statuses]
      /\ flying = {} /\ \A s \in Steps : back[s] = "none"
  BY <1>1 DEF IInv, TypeOK, Order, Idle
<1>3. /\ confirmed' \in agreed' \cup {0} /\ confirmed' \in Steps \cup {0}
      /\ agreed \subseteq agreed' /\ agreed' \subseteq Steps /\ filled' \subseteq Steps
  BY <1>2 DEF Resume, ConfirmedBy, IInv, TypeOK
<1>4. fresh' \subseteq Steps /\ \A s \in fresh' : Depth[s] = layer' /\ done'[s] = "none"
  BY <1>1 DEF Runnable, Layer
<1>5. NoRecord \in [step: Steps \cup {0}, kept: [Steps -> Statuses]] /\ NoRecord.step = 0
  BY Blank DEF NoRecord
<1>6. resumes' \in 0 .. MaxResumes
  BY <1>1, StepsAssumption DEF IInv, TypeOK
<1>7. TypeOK'
  BY <1>1, <1>2, <1>3, <1>4, <1>5, <1>6 DEF IInv, TypeOK
<1>8. Order'
  BY <1>1, <1>2, <1>4 DEF Order, Idle, InLayer, Apart, Unseen, Handed
<1>9. Known'
  BY <1>1 DEF IInv, Known, Remembered, Telling
<1>10. Genuine'
  BY <1>3 DEF Genuine
<1>11. RanOnce' /\ AskedBeforeActed'
  BY <1>1, <1>3, NoEffect
<1>12. QED
  BY <1>7, <1>8, <1>9, <1>10, <1>11 DEF IInv

(***************************************************************************)
(* The theorems.                                                           *)
(***************************************************************************)
LEMMA StepIInv == IInv /\ [Next]_vars => IInv'
<1> SUFFICES ASSUME IInv, [Next]_vars PROVE IInv'
  OBVIOUS
<1>1. ASSUME NEW s \in Steps, Replay(s) \/ Dispatch(s) \/ Respond(s) \/ Break(s) \/ Expire(s)
      PROVE  IInv'
  BY <1>1, ReplayStep, DispatchStep, RespondStep, BreakStep, ExpireStep
<1>2. ASSUME NEW e \in Endpoints, CoolDown(e)
      PROVE  IInv'
  BY <1>2, CoolDownStep
<1>3. CASE NextLayer
  BY <1>3, NextLayerStep
<1>4. CASE EndTurn
  BY <1>4, EndTurnStep
<1>5. CASE Resume
  BY <1>5, ResumeStep
<1>6. CASE UNCHANGED vars
  <2>1. TypeOK' /\ Genuine'
    BY <1>6 DEF IInv, TypeOK, Genuine, vars, turn, work, user
  <2>2. Order' /\ Known'
    BY <1>6 DEF IInv, Order, Idle, InLayer, Apart, Unseen, Duplicates, Handed, Known, Remembered,
                vars, turn, work, user
  <2>3. RanOnce' /\ AskedBeforeActed'
    BY <1>6, NoEffect DEF vars, user
  <2>4. QED
    BY <2>1, <2>2, <2>3 DEF IInv
<1>7. QED
  BY <1>1, <1>2, <1>3, <1>4, <1>5, <1>6 DEF Next

LEMMA PlanInvariant == Spec => []IInv
<1>1. QED
  BY InitIInv, StepIInv, PTL DEF Spec

\* Whatever the plan, the state has its type and a closed breaker is below its
\* threshold (executor.py run, circuit.py).
THEOREM TypeCorrect == Spec => []TypeOK
<1>1. IInv => TypeOK
  BY DEF IInv
<1>2. QED
  BY <1>1, PlanInvariant, PTL

\* Whatever the plan, and however often it is suspended and resumed, an action
\* takes effect once where the plan can know of it (executor.py _find_duplicate).
THEOREM ActsOnce == Spec => []RanOnce
<1>1. IInv => RanOnce
  BY DEF IInv
<1>2. QED
  BY <1>1, PlanInvariant, PTL

\* Whatever the plan, a step that needs a confirmation acts only after the user
\* gave that one (engine.py _restore, executor.py _enforce_capability_confirm).
THEOREM ActsWhenAsked == Spec => []AskedBeforeActed
<1>1. IInv => AskedBeforeActed
  BY DEF IInv
<1>2. QED
  BY <1>1, PlanInvariant, PTL

(***************************************************************************)
(* The layers of a plan.  Depth is a recursive function: that it is what   *)
(* its equation says has to be proved, by induction, from the plan being   *)
(* listed in an order its dependencies respect.  The induction is the      *)
(* least-number principle.                                                 *)
(***************************************************************************)
Less == {p \in Nat \X Nat : p[1] < p[2]}

LEMMA LessIsWellFounded == IsWellFoundedOn(Less, Nat)
<1>1. Less = OpToRel(<, Nat)
  BY DEF Less, OpToRel
<1>2. QED
  BY <1>1, NatLessThanWellFounded

\* Every set of naturals that is not empty has a least number.
LEMMA Least ==
  ASSUME NEW T \in SUBSET Nat, T # {}
  PROVE  \E x \in T : \A y \in T : x <= y
<1>1. PICK x \in T : \A y \in T : <<y, x>> \notin Less
  BY LessIsWellFounded, WFMin
<1>2. ASSUME NEW y \in T PROVE x <= y
  <2>1. y < x => <<y, x>> \in Less
    <3>1. <<y, x>> \in Nat \X Nat /\ <<y, x>>[1] = y /\ <<y, x>>[2] = x
      OBVIOUS
    <3>2. QED
      BY <3>1, Zenon DEF Less
  <2>2. QED
    BY <1>1, <2>1
<1>3. QED
  BY <1>2

\* A set of naturals below a bound has a highest one.
LEMMA HighestIs ==
  ASSUME NEW ns \in SUBSET Nat, ns # {}, NEW b \in Nat, \A m \in ns : m <= b
  PROVE  Highest(ns) \in ns /\ \A m \in ns : m <= Highest(ns)
<1> DEFINE bounds == {n \in Nat : \A m \in ns : m <= n}
<1>1. PICK least \in bounds : \A n \in bounds : least <= n
  BY Least
<1>2. least \in ns
  <2>1. SUFFICES ASSUME least \notin ns PROVE FALSE
    OBVIOUS
  <2>2. PICK m \in ns : TRUE
    OBVIOUS
  <2>3. \A k \in ns : k <= least /\ k # least
    BY <1>1, <2>1
  <2>4. least - 1 \in Nat /\ \A k \in ns : k <= least - 1
    BY <1>1, <2>2, <2>3
  <2>5. QED
    BY <1>1, <2>4
<1>3. \E n \in ns : \A m \in ns : m <= n
  BY <1>1, <1>2
<1>4. QED
  BY <1>3 DEF Highest

\* The layer a function gives to a step, from those it gives to the earlier ones.
LayerBy(f, s) == IF Deps[s] = {} THEN 0 ELSE 1 + Highest({f[d] : d \in Deps[s]})

LEMMA LayerBySound ==
  ASSUME NEW s \in Steps, NEW f, \A d \in 1 .. (s - 1) : f[d] \in Nat /\ f[d] < d
  PROVE  /\ LayerBy(f, s) \in Nat /\ LayerBy(f, s) < s
         /\ \A d \in Deps[s] : f[d] < LayerBy(f, s)
<1>1. Deps[s] \subseteq 1 .. (s - 1) /\ s \in Nat /\ s >= 1
  BY DepsAssumption, StepsAssumption DEF Steps
<1>2. CASE Deps[s] = {}
  BY <1>1, <1>2 DEF LayerBy
<1>3. CASE Deps[s] # {}
  <2> DEFINE ns == {f[d] : d \in Deps[s]}
  <2>1. ns \in SUBSET Nat /\ ns # {} /\ \A m \in ns : m <= s /\ m + 1 < s
    BY <1>1, <1>3
  <2>2. Highest(ns) \in ns /\ \A m \in ns : m <= Highest(ns)
    BY <1>1, <2>1, HighestIs
  <2>3. LayerBy(f, s) = 1 + Highest(ns)
    BY <1>3 DEF LayerBy
  <2>4. \A d \in Deps[s] : f[d] \in ns
    OBVIOUS
  <2> HIDE DEF ns
  <2>5. LayerBy(f, s) \in Nat /\ LayerBy(f, s) < s
    <3>1. PICK h \in ns : h = Highest(ns)
      BY <2>2
    <3>2. h \in Nat /\ h + 1 < s
      BY <2>1, <3>1
    <3>3. LayerBy(f, s) = 1 + h
      BY <2>3, <3>1
    <3>4. QED
      BY <1>1, <3>2, <3>3
  <2>6. ASSUME NEW d \in Deps[s] PROVE f[d] < LayerBy(f, s)
    <3>1. f[d] \in ns /\ f[d] \in Nat /\ Highest(ns) \in Nat
      BY <2>1, <2>2, <2>4
    <3>2. QED
      BY <2>2, <2>3, <3>1
  <2>7. QED
    BY <2>5, <2>6
<1>4. QED
  BY <1>2, <1>3

\* It reads no other value of the function than those of the dependencies.
LEMMA LayerByLocal ==
  ASSUME NEW s, NEW f, NEW g, \A d \in Deps[s] : f[d] = g[d]
  PROVE  LayerBy(f, s) = LayerBy(g, s)
<1>1. {f[d] : d \in Deps[s]} = {g[d] : d \in Deps[s]}
  OBVIOUS
<1>2. QED
  BY <1>1 DEF LayerBy

LayersTo(n, f) ==
  /\ f \in [1 .. n -> Nat]
  /\ \A s \in 1 .. n : f[s] < s /\ f[s] = LayerBy(f, s)

LEMMA LayersExist == \E f : LayersTo(NumSteps, f)
<1> DEFINE without == {n \in Nat : n <= NumSteps /\ ~\E f : LayersTo(n, f)}
<1>1. SUFFICES ASSUME without # {} PROVE FALSE
  <2>1. NumSteps \in Nat
    BY StepsAssumption
  <2>2. QED
    BY <2>1
<1>2. PICK n \in without : \A m \in without : n <= m
  BY <1>1, Least
<1>3. n # 0
  <2>1. LayersTo(0, [s \in 1 .. 0 |-> 0])
    BY DEF LayersTo
  <2>2. QED
    BY <1>2, <2>1
<1>4. n - 1 \in Nat /\ n - 1 <= NumSteps /\ n - 1 \notin without
  BY <1>2, <1>3, StepsAssumption
<1>5. PICK f : LayersTo(n - 1, f)
  BY <1>4
<1> DEFINE g == [s \in 1 .. n |-> IF s = n THEN LayerBy(f, n) ELSE f[s]]
<1>6. n \in Steps /\ 1 .. n \subseteq Steps /\ 1 .. (n - 1) \subseteq 1 .. n
  BY <1>2, <1>3, StepsAssumption DEF Steps
<1>7. LayerBy(f, n) \in Nat /\ LayerBy(f, n) < n
  BY <1>5, <1>6, LayerBySound DEF LayersTo
<1>8. \A s \in 1 .. (n - 1) : g[s] = f[s]
  BY <1>2, <1>3
<1>9. g[n] = LayerBy(f, n)
  BY <1>2, <1>3
<1>10. g \in [1 .. n -> Nat]
  BY <1>2, <1>3, <1>5, <1>7 DEF LayersTo
<1> HIDE DEF g
<1>11. ASSUME NEW s \in 1 .. n PROVE g[s] < s /\ g[s] = LayerBy(g, s)
  <2>1. Deps[s] \subseteq 1 .. (n - 1)
    BY <1>2, <1>6, DepsAssumption
  <2>2. LayerBy(g, s) = LayerBy(f, s)
    BY <1>8, <2>1, LayerByLocal
  <2>3. CASE s = n
    BY <1>7, <1>9, <2>2, <2>3
  <2>4. CASE s # n
    <3>1. s \in 1 .. (n - 1)
      BY <1>2, <2>4
    <3>2. QED
      BY <1>5, <1>8, <2>2, <3>1 DEF LayersTo
  <2>5. QED
    BY <2>3, <2>4
<1>12. LayersTo(n, g)
  BY <1>10, <1>11 DEF LayersTo
<1>13. QED
  BY <1>2, <1>12

\* executor.py _topo_layers: a step lies in a later layer than what it depends on.
LEMMA DepthIs ==
  /\ Depth \in [Steps -> Nat]
  /\ \A s \in Steps : \A d \in Deps[s] : d \in Steps /\ Depth[d] < Depth[s]
<1>1. PICK f : LayersTo(NumSteps, f)
  BY LayersExist
<1>2. f \in [Steps -> Nat] /\ \A s \in Steps : f[s] < s /\ f[s] = LayerBy(f, s)
  BY <1>1 DEF LayersTo, Steps
<1>3. f = [s \in Steps |-> IF Deps[s] = {} THEN 0 ELSE 1 + Highest({f[d] : d \in Deps[s]})]
  BY <1>2 DEF LayerBy
<1>4. Depth = [s \in Steps |->
                 IF Deps[s] = {} THEN 0 ELSE 1 + Highest({Depth[d] : d \in Deps[s]})]
  BY <1>3 DEF Depth
<1>5. \A s \in Steps : Depth[s] = LayerBy(Depth, s)
  BY <1>4 DEF LayerBy
<1>6. \A s \in Steps : Depth[s] \in Nat /\ Depth[s] < s
  <2> DEFINE bad == {s \in Steps : ~(Depth[s] \in Nat /\ Depth[s] < s)}
  <2>1. SUFFICES ASSUME bad # {} PROVE FALSE
    OBVIOUS
  <2>2. bad \in SUBSET Nat
    BY DEF Steps
  <2>3. PICK s \in bad : \A t \in bad : s <= t
    BY <2>1, <2>2, Least
  <2>4. s \in Steps /\ \A d \in 1 .. (s - 1) : d \in Steps /\ d \notin bad
    BY <2>3, StepsAssumption DEF Steps
  <2>5. \A d \in 1 .. (s - 1) : Depth[d] \in Nat /\ Depth[d] < d
    BY <2>4
  <2>6. Depth[s] \in Nat /\ Depth[s] < s
    BY <1>5, <2>4, <2>5, LayerBySound
  <2>7. QED
    BY <2>3, <2>6
<1>7. ASSUME NEW s \in Steps, NEW d \in Deps[s] PROVE d \in Steps /\ Depth[d] < Depth[s]
  <2>1. d \in Steps /\ \A e \in 1 .. (s - 1) : e \in Steps
    BY DepsAssumption, StepsAssumption DEF Steps
  <2>2. \A e \in 1 .. (s - 1) : Depth[e] \in Nat /\ Depth[e] < e
    BY <1>6, <2>1
  <2>3. Depth[d] < LayerBy(Depth, s)
    BY <2>2, LayerBySound
  <2>4. QED
    BY <1>5, <2>1, <2>3
<1>8. Depth \in [Steps -> Nat]
  BY <1>4, <1>6
<1>9. QED
  BY <1>7, <1>8

(***************************************************************************)
(* Nothing is left out: every step of a layer that was reached is under    *)
(* way, has a result, or is behind a step that did not succeed.            *)
(***************************************************************************)
Behind(s) == \E d \in Deps[s] : done[d] # "ok"
UnderWay(s) == s \in fresh \/ s \in flying \/ back[s] # "none"
Covered ==
    phase = "run" =>
        \A s \in Steps :
            /\ Depth[s] = layer => UnderWay(s) \/ done[s] # "none" \/ Behind(s)
            /\ Depth[s] < layer => done[s] # "none" \/ Behind(s)

LEMMA InitCovered == Init => Covered /\ NothingSilent
<1> SUFFICES ASSUME Init PROVE Covered /\ NothingSilent
  OBVIOUS
<1>1. NothingSilent
  BY DEF Init, NothingSilent
<1>2. ASSUME NEW s \in Steps PROVE ~(Depth[s] < layer)
  BY DepthIs DEF Init
<1>3. ASSUME NEW s \in Steps, Depth[s] = layer PROVE s \in fresh \/ Behind(s)
  BY <1>3, Blank DEF Init, Runnable, Layer, ShouldRun, Behind
<1>4. QED
  BY <1>1, <1>2, <1>3 DEF Covered, UnderWay

\* Inside a layer a step only goes from one way of being under way to the next.
LEMMA LayerCovered ==
  ASSUME Covered, NothingSilent, phase' = phase, layer' = layer, done' = done,
         results' = results,
         \A s \in Steps : UnderWay(s) => UnderWay(s)'
  PROVE  Covered' /\ NothingSilent'
<1>1. NothingSilent'
  BY DEF NothingSilent
<1>2. \A s \in Steps : Behind(s) => Behind(s)'
  BY DEF Behind
<1>3. Covered'
  BY <1>2 DEF Covered
<1>4. QED
  BY <1>1, <1>3

LEMMA StepCovered ==
  ASSUME IInv, Covered, NothingSilent, NEW s \in Steps,
         Replay(s) \/ Dispatch(s) \/ Respond(s) \/ Break(s) \/ Expire(s)
  PROVE  Covered' /\ NothingSilent'
<1>1. back \in [Steps -> Statuses]
  BY DEF IInv, TypeOK
<1>2. UNCHANGED <<phase, layer, done, results>>
  BY DEF Replay, Dispatch, Respond, Break, Expire, Landed, turn
<1>3. ASSUME NEW status, status # "none", Landed(s, status)
      PROVE  \A t \in Steps : UnderWay(t) => UnderWay(t)'
  BY <1>1, <1>3 DEF Landed, UnderWay
<1>4. CASE Replay(s)
  BY <1>1, <1>2, <1>4, LayerCovered DEF Replay, UnderWay
<1>5. CASE Dispatch(s)
  <2>1. \A t \in Steps : UnderWay(t) => UnderWay(t)'
    BY <1>1, <1>5 DEF Dispatch, UnderWay
  <2>2. QED
    BY <1>2, <2>1, LayerCovered
<1>6. CASE Respond(s) \/ Break(s) \/ Expire(s)
  <2>1. PICK status : status # "none" /\ Landed(s, status)
    BY <1>6 DEF Respond, Break, Expire, Answers
  <2>2. QED
    BY <1>2, <1>3, <2>1, LayerCovered
<1>7. QED
  BY <1>4, <1>5, <1>6

\* A complete layer: each of its steps, and of those below it, has a result or is
\* behind a step that did not succeed.
LEMMA CoveredSoFar ==
  ASSUME IInv, Covered, Complete, NEW s \in Steps, Depth[s] <= layer
  PROVE  Merged[s] # "none" \/ \E d \in Deps[s] : Merged[d] # "ok"
<1>1. layer \in Nat /\ \A t \in Steps : Depth[t] \in Nat
  BY DepthIs DEF IInv, TypeOK
<1>2. \A t \in Steps : back[t] # "none" => Depth[t] = layer /\ done[t] = "none"
  BY DEF IInv, Order, InLayer
<1>3. back[s] # "none" \/ done[s] # "none" \/ Behind(s)
  BY <1>1 DEF Covered, Complete, UnderWay
<1>4. CASE back[s] # "none" \/ done[s] # "none"
  BY <1>2, <1>4 DEF Merged, Ran
<1>5. CASE Behind(s)
  <2>1. PICK d \in Deps[s] : done[d] # "ok"
    BY <1>5 DEF Behind
  <2>2. d \in Steps /\ Depth[d] < Depth[s]
    BY DepthIs
  <2>3. back[d] = "none"
    BY <1>1, <1>2, <2>2
  <2>4. d \notin Ran
    BY <2>3 DEF Ran
  <2>5. Merged[d] = done[d]
    BY <2>2, <2>4 DEF Merged
  <2>6. QED
    BY <2>1, <2>5
<1>6. QED
  BY <1>3, <1>4, <1>5

LEMMA NextLayerCovered ==
  ASSUME IInv, Covered, NextLayer
  PROVE  Covered' /\ NothingSilent'
<1>1. /\ Complete /\ phase = "run" /\ phase' = "run" /\ fresh = {} /\ flying = {}
      /\ layer' = layer + 1 /\ done' = Merged /\ fresh' = Runnable(layer + 1, Merged)
  BY DEF NextLayer, Complete
<1>2. \A s \in Steps : back[s] # "none" => Depth[s] = layer
  BY DEF IInv, Order, InLayer
<1>3. layer \in Nat /\ \A s \in Steps : Depth[s] \in Nat
  BY DepthIs DEF IInv, TypeOK
<1>4. ASSUME NEW s \in Steps, Depth[s] = layer' PROVE s \in fresh' \/ done'[s] # "none" \/ Behind(s)'
  BY <1>1, <1>4 DEF Runnable, Layer, ShouldRun, Behind
<1>5. ASSUME NEW s \in Steps, Depth[s] < layer' PROVE done'[s] # "none" \/ Behind(s)'
  <2>1. Depth[s] <= layer
    BY <1>1, <1>3, <1>5
  <2>2. QED
    BY <1>1, <2>1, CoveredSoFar DEF Behind
<1>6. QED
  BY <1>1, <1>4, <1>5 DEF Covered, UnderWay, NothingSilent

LEMMA ResumeCovered ==
  ASSUME IInv, Resume
  PROVE  Covered' /\ NothingSilent'
<1>1. phase' = "run" /\ layer' = 0 /\ done' = held.kept /\ fresh' = Runnable(0, held.kept)
  BY DEF Resume
<1>2. ASSUME NEW s \in Steps, Depth[s] = layer' PROVE s \in fresh' \/ done'[s] # "none" \/ Behind(s)'
  BY <1>1, <1>2 DEF Runnable, Layer, ShouldRun, Behind
<1>3. ASSUME NEW s \in Steps PROVE ~(Depth[s] < layer')
  BY <1>1, DepthIs
<1>4. QED
  BY <1>1, <1>2, <1>3 DEF Covered, UnderWay, NothingSilent

\* A consumer that was handed a question has it: the engine takes every result,
\* and the loop returns at the first that suspends, with that one.
LEMMA QuestionIsSeen ==
  ASSUME IInv, In(Suspending, Ran) # {}
  PROVE  Pending(results \cup Consumed) # {}
<1> DEFINE asking == In(Suspending, Ran)
<1>1. asking \subseteq Ran /\ asking \subseteq Steps
  BY DEF In, Ran
<1>2. CASE driver = "engine"
  BY <1>1, <1>2 DEF Consumed, Pending, In
<1>3. CASE driver # "engine"
  <2> DEFINE depths == {Depth[s] : s \in asking}
  <2>1. depths \in SUBSET Nat /\ depths # {}
    BY <1>1, DepthIs
  <2>2. PICK dm \in depths : \A n \in depths : dm <= n
    BY <2>1, Least
  <2> DEFINE lowest == {s \in asking : Depth[s] = dm}
  <2>3. lowest \in SUBSET Nat /\ lowest # {}
    BY <1>1, <2>2 DEF Steps
  <2>4. PICK s \in lowest : \A t \in lowest : s <= t
    BY <2>3, Least
  <2>5. ASSUME NEW t \in asking PROVE Before(s, t)
    <3>1. dm \in Nat /\ Depth[t] \in Nat /\ Depth[s] = dm /\ dm <= Depth[t]
      BY <1>1, <2>1, <2>2, <2>4, DepthIs
    <3>2. CASE Depth[t] = dm
      BY <2>4, <3>1, <3>2 DEF Before
    <3>3. CASE Depth[t] # dm
      BY <3>1, <3>3 DEF Before
    <3>4. QED
      BY <3>2, <3>3
  <2>6. s \in Consumed
    BY <1>1, <1>3, <2>4, <2>5 DEF Consumed
  <2>7. s \in Pending(results \cup Consumed)
    BY <2>4, <2>6 DEF Pending, In
  <2>8. QED
    BY <2>7
<1>4. QED
  BY <1>2, <1>3

LEMMA EndTurnCovered ==
  ASSUME IInv, Covered, NothingSilent, EndTurn
  PROVE  Covered' /\ NothingSilent'
<1> DEFINE seen == results \cup Consumed
<1>1. /\ Complete /\ StopsHere /\ phase = "run"
      /\ done' = Merged /\ results' = seen
      /\ phase' = IF Pending(seen) = {} THEN "over" ELSE "wait"
  BY DEF EndTurn, Complete
<1>2. Covered'
  BY <1>1 DEF Covered
<1>3. NothingSilent'
  <2>1. SUFFICES ASSUME Pending(seen) = {} PROVE NothingSilent'
    BY <1>1 DEF NothingSilent
  <2>2. In(Suspending, Ran) = {}
    BY <2>1, QuestionIsSeen
  <2>3. In({"confirm"}, Ran) = {}
    BY <2>2 DEF In, Suspending
  <2>4. \A s \in Steps : Depth[s] <= layer
    BY <1>1, <2>2, <2>3 DEF StopsHere
  <2>5. Consumed = Ran
    BY <2>2 DEF Consumed, Ran
  <2>6. ASSUME NEW s \in Steps, Merged[s] # "none"
        PROVE  s \in results' /\ done'[s] \notin Suspending \cup {"none"}
    <3>1. s \in seen
      BY <1>1, <2>5, <2>6, MergedResults
    <3>2. QED
      BY <1>1, <2>1, <2>6, <3>1 DEF Pending, In
  <2>7. ASSUME NEW s \in Steps
        PROVE  \/ s \in results' /\ done'[s] \notin Suspending \cup {"none"}
               \/ \E d \in Deps[s] : done'[d] # "ok"
    BY <1>1, <2>4, <2>6, CoveredSoFar
  <2>8. QED
    BY <2>7 DEF NothingSilent
<1>4. QED
  BY <1>2, <1>3

LEMMA NextCovered ==
  ASSUME IInv, Covered, NothingSilent, [Next]_vars
  PROVE  Covered' /\ NothingSilent'
<1>1. ASSUME NEW s \in Steps, Replay(s) \/ Dispatch(s) \/ Respond(s) \/ Break(s) \/ Expire(s)
      PROVE  Covered' /\ NothingSilent'
  BY <1>1, StepCovered
<1>2. ASSUME NEW e \in Endpoints, CoolDown(e)
      PROVE  Covered' /\ NothingSilent'
  BY <1>2, LayerCovered DEF CoolDown, turn, work, UnderWay
<1>3. CASE NextLayer
  BY <1>3, NextLayerCovered
<1>4. CASE EndTurn
  BY <1>4, EndTurnCovered
<1>5. CASE Resume
  BY <1>5, ResumeCovered
<1>6. CASE UNCHANGED vars
  BY <1>6, LayerCovered DEF vars, turn, work, UnderWay
<1>7. QED
  BY <1>1, <1>2, <1>3, <1>4, <1>5, <1>6 DEF Next

\* Whatever the plan, and whoever consumes its results, when it is over every
\* step has been answered for, or is behind one that did not succeed
\* (executor.py run, engine.py, loop.py).
THEOREM NothingIsSilent == Spec => []NothingSilent
<1>1. Init => IInv /\ Covered /\ NothingSilent
  BY InitIInv, InitCovered
<1>2. IInv /\ Covered /\ NothingSilent /\ [Next]_vars => IInv' /\ Covered' /\ NothingSilent'
  BY StepIInv, NextCovered
<1>3. QED
  BY <1>1, <1>2, PTL DEF Spec
===============================================================================
