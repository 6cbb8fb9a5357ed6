---------------------------- MODULE PlanExecution ----------------------------
(***************************************************************************)
(* One plan from its first turn to its last: DagExecutor.run and           *)
(* _exec_step (orchestrator/cloud/executor.py), the dispatch through the   *)
(* circuit breakers (dispatch.py), the two consumers of the results - the  *)
(* engine (engine.py) and the T2 loop (loop.py) - and the suspension and   *)
(* resumption of the rest of the plan (engine.py _suspend, _restore).      *)
(*                                                                         *)
(* The steps of a layer run together; what they return is handed over when *)
(* the layer is complete.  The pending table is PendingTable's, the log    *)
(* behind vehicle steps is EdgeRecovery's: here every step is an Agent's,  *)
(* and none of them has an operation store.                                *)
(***************************************************************************)
EXTENDS Naturals, CircuitBreaker

CONSTANTS
    NumSteps,     \* steps 1 .. NumSteps, in the order of the plan
    Deps,         \* depends_on of each step
    Acting,       \* steps with a side effect
    Confirming,   \* those that need the user's confirmation
    Asking,       \* steps that may find a slot missing
    PrintOf,      \* fingerprint of each step: intent and slots
    EndpointOf,   \* endpoint of each step's Agent
    MaxResumes    \* bound: times the plan is resumed

Steps == 1 .. NumSteps
Endpoints == {EndpointOf[s] : s \in Steps}

ASSUME StepsAssumption == NumSteps \in Nat /\ MaxResumes \in Nat
ASSUME DepsAssumption == \A s \in Steps : Deps[s] \subseteq 1 .. (s - 1)
ASSUME KindsAssumption == Confirming \subseteq Acting /\ Acting \union Asking \subseteq Steps

VARIABLES
    phase,      \* the turn runs, waits for the user, or the plan is over
    driver,     \* who consumes the results: the engine, or the loop of an adaptive plan
    layer,      \* the layer that is next, or running
    fresh,      \* its steps that have still to start
    flying,     \* its steps whose call is out
    back,       \* its results, until the layer is complete
    done,       \* the executor's results, those of earlier turns included
    results,    \* steps whose result the consumer of this turn has
    held,       \* the pending record: the step it is about and the results kept
    confirmed,  \* the step that carries the user's confirmation
    filled,     \* steps whose missing slot the user gave
    breaker,    \* the breaker of each endpoint
    resumes,    \* times the plan was resumed
    acts,       \* history: times each step took effect
    agreed,     \* history: steps the user confirmed
    spoiled     \* history: fingerprints whose effect the plan cannot know of

turn == <<phase, driver, layer>>
work == <<fresh, flying, back>>
user == <<held, confirmed, filled, resumes, agreed>>
vars == <<turn, work, done, results, user, breaker, acts, spoiled>>

Suspending == {"confirm", "slot"}
Statuses == {"none", "ok", "failed", "timeout"} \cup Suspending
NoResults == [s \in Steps |-> "none"]
NoRecord == [step |-> 0, kept |-> NoResults]

\* _topo_layers: a step lies one layer above the highest step it depends on.
Highest(ns) == CHOOSE n \in ns : \A m \in ns : m <= n
Depth[s \in Steps] == IF Deps[s] = {} THEN 0 ELSE 1 + Highest({Depth[d] : d \in Deps[s]})
Layer(n) == {s \in Steps : Depth[s] = n}

\* _should_run, and the seeds that are not run again.
ShouldRun(s, d) == \A p \in Deps[s] : d[p] = "ok"
Runnable(n, d) == {s \in Layer(n) : d[s] = "none" /\ ShouldRun(s, d)}

Init ==
    /\ phase = "run" /\ driver \in {"engine", "loop"}
    /\ layer = 0 /\ fresh = Runnable(0, NoResults)
    /\ flying = {} /\ back = NoResults
    /\ done = NoResults /\ results = {}
    /\ held = NoRecord /\ confirmed = 0 /\ filled = {} /\ resumes = 0
    /\ breaker = [e \in Endpoints |-> Closed]
    /\ acts = [s \in Steps |-> 0]
    /\ agreed = {} /\ spoiled = {}

(***************************************************************************)
(* _exec_step                                                              *)
(***************************************************************************)
\* _find_duplicate: a result of the plan that carries the same fingerprint,
\* because it acted or because nobody knows whether it did.
OnlySuccesses(s) ==
    {p \in Steps : PrintOf[p] = PrintOf[s] /\ done[p] = "ok" /\ p \in Acting}
Duplicates(s) ==
    {p \in Steps : PrintOf[p] = PrintOf[s] /\ \/ done[p] = "ok" /\ p \in Acting
                                              \/ done[p] = "timeout"}

\* A duplicate is answered with what is known, and not sent.
Replay(s) ==
    /\ s \in fresh /\ Duplicates(s) # {}
    /\ fresh' = fresh \ {s}
    /\ back' = [back EXCEPT ![s] = "ok"]
    /\ UNCHANGED <<turn, flying, done, results, user, breaker, acts, spoiled>>

\* The call goes out, or the breaker answers in the Agent's place.
Dispatch(s) ==
    LET b == breaker[EndpointOf[s]]
    IN /\ s \in fresh /\ Duplicates(s) = {}
       /\ fresh' = fresh \ {s}
       /\ breaker' = [breaker EXCEPT ![EndpointOf[s]] = Asked(b)]
       /\ IF Allowed(b) THEN flying' = flying \cup {s} /\ UNCHANGED back
                        ELSE back' = [back EXCEPT ![s] = "failed"] /\ UNCHANGED flying
       /\ UNCHANGED <<turn, done, results, user, acts, spoiled>>

\* What the Agent may do: act and say so, fail, ask.  Without the confirmation
\* a step that needs it does not act: the Agent asks, or its success is turned
\* into a question and its actions are withheld.
MayAct(s) == s \in Acting /\ (s \in Confirming => confirmed = s)
Answers(s) ==
    {"failed"}
    \cup (IF s \in Confirming /\ confirmed # s THEN {"confirm"} ELSE {"ok"})
    \cup (IF s \in Asking \ filled THEN {"slot"} ELSE {})
Acted(s) == acts' = [acts EXCEPT ![s] = @ + 1]

Landed(s, status) ==
    /\ s \in flying
    /\ flying' = flying \ {s}
    /\ back' = [back EXCEPT ![s] = status]
    /\ UNCHANGED <<turn, fresh, done, results, user>>

\* An answer of any kind tells the breaker that the endpoint lives.
Respond(s) ==
    \E answer \in Answers(s) :
        /\ Landed(s, answer)
        /\ breaker' = [breaker EXCEPT ![EndpointOf[s]] = Succeeded(@)]
        /\ IF answer = "ok" /\ s \in Acting THEN Acted(s) ELSE UNCHANGED acts
        /\ UNCHANGED spoiled

\* The connection breaks, before the Agent acted or after: a failure either way.
Break(s) ==
    /\ Landed(s, "failed")
    /\ breaker' = [breaker EXCEPT ![EndpointOf[s]] = Failed(@)]
    /\ \/ UNCHANGED <<acts, spoiled>>
       \/ /\ MayAct(s) /\ Acted(s)
          /\ spoiled' = spoiled \cup {PrintOf[s]}

\* The step's own budget runs out, which cancels the call before its deadline:
\* the breaker is not told.  The Agent acted, or acts later, or does not.
Expire(s) ==
    /\ Landed(s, "timeout")
    /\ UNCHANGED <<breaker, spoiled>>
    /\ \/ UNCHANGED acts
       \/ MayAct(s) /\ Acted(s)

CoolDown(e) ==
    /\ breaker[e].state = "open" /\ ~breaker[e].cool
    /\ breaker' = [breaker EXCEPT ![e].cool = TRUE]
    /\ UNCHANGED <<turn, work, done, results, user, acts, spoiled>>

(***************************************************************************)
(* The end of a layer.                                                     *)
(***************************************************************************)
Ran == {s \in Steps : back[s] # "none"}
Merged == [s \in Steps |-> IF s \in Ran THEN back[s] ELSE done[s]]
In(status, ms) == {s \in ms : Merged[s] \in status}
\* Results come layer by layer, and in a layer in the order of the plan.
Before(s, t) == Depth[s] < Depth[t] \/ (Depth[s] = Depth[t] /\ s <= t)
IsFirst(s, ms) == s \in ms /\ \A q \in ms : Before(s, q)

\* The engine takes every result it is handed; the loop returns at the first
\* that suspends and never sees the later ones.
Consumed ==
    IF driver = "engine" THEN Ran
    ELSE {s \in Ran : \A q \in In(Suspending, Ran) : Before(s, q)}

Complete == phase = "run" /\ fresh = {} /\ flying = {}
\* The executor stops at a layer that needs a confirmation, the loop at any
\* layer that suspends; a missing slot alone lets the other steps go on.
StopsHere ==
    \/ In({"confirm"}, Ran) # {}
    \/ driver = "loop" /\ In(Suspending, Ran) # {}
    \/ \A s \in Steps : Depth[s] <= layer

NextLayer ==
    /\ Complete /\ ~StopsHere
    /\ layer' = layer + 1
    /\ done' = Merged /\ results' = results \cup Ran
    /\ fresh' = Runnable(layer + 1, Merged) /\ back' = NoResults
    /\ UNCHANGED <<phase, driver, flying, user, breaker, acts, spoiled>>

\* What a pending record keeps of a result: its status and its fingerprint,
\* not the error that tells a timeout from a failure; a result that itself
\* suspends is not restored.
KeptAs(status) ==
    IF status \in Suspending THEN "none" ELSE IF status = "timeout" THEN "failed" ELSE status
Kept(seen) == [s \in Steps |-> IF s \in seen THEN KeptAs(Merged[s]) ELSE "none"]

\* The results that hold up the turn.
QuestionsIn(seen) == In({"confirm"}, seen)
Pending(seen) == In(Suspending, seen)

\* The turn ends: the first result that suspends becomes the pending record.
EndTurn ==
    LET seen == results \cup Consumed
        asks == Pending(seen)
        timeouts == In({"timeout"}, seen)
        lost == Ran \ Consumed
        unknown == {s \in lost : Merged[s] = "ok" \/ Merged[s] = "timeout"} \cup timeouts
    IN /\ Complete /\ StopsHere
       /\ done' = Merged /\ results' = seen /\ back' = NoResults
       /\ IF asks = {}
          THEN phase' = "over" /\ UNCHANGED <<held, spoiled>>
          ELSE /\ phase' = "wait"
               /\ \E first \in Steps :
                     /\ IsFirst(first, asks)
                     /\ held' = [step |-> first, kept |-> Kept(seen)]
               /\ spoiled' = spoiled \cup {PrintOf[s] : s \in unknown \cap Acting}
       /\ UNCHANGED <<driver, layer, fresh, flying, confirmed, filled, resumes, agreed,
                      breaker, acts>>

(***************************************************************************)
(* The user answers and the rest of the plan runs again from its top.      *)
(***************************************************************************)
AnyAnswer(s) == s
ConfirmedBy(s) == IF done[s] = "confirm" THEN s ELSE 0

Resume ==
    /\ phase = "wait" /\ resumes < MaxResumes
    /\ resumes' = resumes + 1
    /\ phase' = "run"
    /\ confirmed' = ConfirmedBy(held.step)
    /\ IF done[held.step] = "confirm"
       THEN agreed' = agreed \cup {held.step} /\ UNCHANGED filled
       ELSE filled' = filled \cup {held.step} /\ UNCHANGED agreed
    /\ done' = held.kept
    /\ results' = {s \in Steps : held.kept[s] # "none"}
    /\ layer' = 0 /\ fresh' = Runnable(0, held.kept)
    /\ held' = NoRecord
    /\ UNCHANGED <<driver, flying, back, breaker, acts, spoiled>>

Next ==
    \/ \E s \in Steps : Replay(s) \/ Dispatch(s) \/ Respond(s) \/ Break(s) \/ Expire(s)
    \/ \E e \in Endpoints : CoolDown(e)
    \/ NextLayer \/ EndTurn \/ Resume

Spec == Init /\ [][Next]_vars

(***************************************************************************)
(* Properties.                                                             *)
(***************************************************************************)
\* The state has its type, a turn that runs holds no record, and a breaker is
\* closed only below its threshold.
TypeOK ==
    /\ phase \in {"run", "wait", "over"} /\ driver \in {"engine", "loop"}
    /\ layer \in Nat
    /\ fresh \subseteq Steps /\ flying \subseteq Steps /\ fresh \cap flying = {}
    /\ back \in [Steps -> Statuses] /\ done \in [Steps -> Statuses]
    /\ results \subseteq Steps /\ filled \subseteq Steps /\ agreed \subseteq Steps
    /\ held \in [step: Steps \cup {0}, kept: [Steps -> Statuses]]
    /\ phase = "wait" <=> held.step # 0
    /\ confirmed \in Steps \cup {0} /\ resumes \in 0 .. MaxResumes
    /\ breaker \in [Endpoints -> Breaker] /\ \A e \in Endpoints : Sound(breaker[e])
    /\ acts \in [Steps -> Nat]

\* An action takes effect once in the life of a plan, through duplicated steps,
\* timeouts, suspensions and resumptions, except where the plan cannot know of
\* the first time: twins of one layer start together and do not see each other,
\* the connection broke after the effect, the T2 loop returned before it took
\* the result, or a suspension kept the timeout as a plain failure
\* (executor.py _find_duplicate).
RanOnce ==
    \A s, t \in Steps :
        /\ PrintOf[s] = PrintOf[t] /\ acts[s] > 0 /\ acts[t] > 0
        /\ IF s = t THEN acts[s] > 1 ELSE Depth[s] # Depth[t]
        => PrintOf[s] \in spoiled

\* A step that needs a confirmation acts only after the user gave that very
\* confirmation: the answer to a missing slot or to another step's question is
\* none (engine.py _restore).
AskedBeforeActed == \A s \in Confirming : acts[s] > 0 => s \in agreed

\* When the plan is over nothing of it was left out in silence: the consumer has
\* the result of every step, but for those behind a step that did not succeed
\* (executor.py run: what ran is handed over before anything stops).
NothingSilent ==
    phase = "over" =>
        \A s \in Steps : \/ s \in results /\ done[s] \notin Suspending \cup {"none"}
                         \/ \E d \in Deps[s] : done[d] # "ok"
=============================================================================
