---------------------------- MODULE Orchestration ----------------------------
(***************************************************************************)
(* Runs of the intelligence orchestrator (intelligence_orchestrator_runs,  *)
(* _specialists, _synthesis) with the evaluation record and the circuit    *)
(* breaker that watch them (intelligence_evaluation_safety).  A run is one *)
(* request in a process of its own: a main thread, and one worker thread   *)
(* for each specialist, which outlives the deadline when its provider      *)
(* does.  Workers share the budget of their run; runs share the evaluation *)
(* tables.  One organization, one task class, one pass of the fan-out.     *)
(*                                                                         *)
(* A charge stands for tokens and cost alike; an opinion for a specialist's*)
(* result: what it cites and the direction it recommends.                  *)
(***************************************************************************)
EXTENDS Naturals, Sequences, FiniteSets

CONSTANTS
    Run,            \* requests
    Asked,          \* Asked[r]: the profiles of the runbook chosen for r, in order
    Visible,        \* evidence the reader may see
    Replies,        \* what a provider may answer: [cites, stance]
    Local,          \* the opinion of the deterministic path
    MaxTokens,      \* the caps of the policy at the start
    Runtime,        \* max_runtime_ms, in ticks
    Window, OpenFor,    \* breaker_window_seconds, breaker_open_seconds
    Thresholds,     \* breaker_threshold: values an administrator sets
    MaxTime, MaxChanges, MaxCrashes     \* bounds: ticks, requests of others, dead processes

OrchestrationAssumption ==
    /\ \A r \in Run : Asked[r] \in Seq(STRING)
    /\ {MaxTokens, Runtime, Window, OpenFor, MaxTime, MaxChanges, MaxCrashes} \subseteq Nat
    /\ Thresholds \subseteq Nat

Profiles == UNION {{Asked[r][i] : i \in 1..Len(Asked[r])} : r \in Run}
Threads == [r \in Run |-> {Asked[r][i] : i \in 1..Len(Asked[r])}]

VARIABLES
    now,
    policy,     \* [threshold, tokens, openUntil]
    events,     \* circuit events: [at, run]
    evaluation, \* the evaluation row of each run: [status, started]
    main,       \* the main thread of each run
    budget,     \* the budget its threads share: [tokens, max, policyMax, cap, closed]
    worker,     \* each worker: [at, owes, opinion]
    gathered,   \* opinions and errors collected so far
    report,     \* the result of each run
    called,     \* runs that called a provider
    changes, crashes

safety == <<policy, events, evaluation>>
threads == <<budget, worker, called>>
bounds == <<changes, crashes>>
vars == <<now, policy, events, evaluation, main, budget, worker, gathered, report, called,
          changes, crashes>>

NoOpinion == [cites |-> {}, stance |-> "none"]
Opinions == Replies \cup {Local, NoOpinion}
Waiting == [at |-> "waiting", owes |-> 0, opinion |-> NoOpinion]
NoReport == [status |-> "none"]
\* What complete reads of a policy
NoPolicy == [threshold |-> 0, tokens |-> 0]
\* An evaluation that belongs to no run: one that was started over the API.
Other == "other"

TypeOK ==
    /\ now \in 0..MaxTime
    /\ policy \in [threshold: Thresholds, tokens: {MaxTokens, MaxTokens + 1},
                   openUntil: 0..(MaxTime + OpenFor)]
    /\ \A i \in 1..Len(events) : events[i] \in [at: 0..MaxTime, run: Run \cup {Other}]
    /\ evaluation \in [Run -> [status: {"none", "shadow_only", "completed", "capped"},
                               started: 0..MaxTime]]
    /\ \A r \in Run : budget[r].tokens \in 0..budget[r].max
    /\ \A r \in Run : worker[r] \in [Threads[r] ->
            [at: {"waiting", "looked", "ready", "calling", "answered", "charging", "done", "failed"},
             owes: 0..(MaxTokens + 1), opinion: Opinions]]
    /\ called \subseteq Run

Init ==
    /\ now = 0
    /\ \E t \in Thresholds : policy = [threshold |-> t, tokens |-> MaxTokens, openUntil |-> 0]
    /\ events = <<>>
    /\ evaluation = [r \in Run |-> [status |-> "none", started |-> 0]]
    /\ main = [r \in Run |-> [at |-> "idle", blocked |-> "no", deadline |-> 0, verdict |-> "none",
                              tokens |-> 0, read |-> NoPolicy]]
    /\ budget = [r \in Run |-> [tokens |-> 0, max |-> MaxTokens, policyMax |-> MaxTokens,
                                cap |-> FALSE, closed |-> FALSE]]
    /\ worker = [r \in Run |-> [p \in Threads[r] |-> Waiting]]
    /\ gathered = [r \in Run |-> [opinions |-> <<>>, errors |-> {}]]
    /\ report = [r \in Run |-> NoReport]
    /\ called = {} /\ changes = 0 /\ crashes = 0

At(r, place) == main[r].at = place
Goto(r, place) == main' = [main EXCEPT ![r].at = place]

---------------------------------------------------------------------------
(* The start of a run *)

\* can_start
BreakerOpen == policy.openUntil > now

\* run asks can_start first; the limits of the policy it reads are its own from then on.
Ask(r) ==
    /\ At(r, "idle")
    /\ \/ /\ ~BreakerOpen /\ Goto(r, "allowed")
          /\ budget' = [budget EXCEPT ![r].max = policy.tokens, ![r].policyMax = policy.tokens]
       \/ /\ BreakerOpen /\ main' = [main EXCEPT ![r].at = "routing", ![r].blocked = "circuit_open"]
          /\ UNCHANGED budget
       \/ \* The policy cannot be read: "safety_unavailable".
          /\ main' = [main EXCEPT ![r].at = "routing", ![r].blocked = "blocked"]
          /\ UNCHANGED budget
    /\ UNCHANGED <<now, safety, worker, gathered, report, called, bounds>>

\* start looks at the breaker again and stores the evaluation.
Register(r) ==
    /\ At(r, "allowed")
    /\ \/ /\ ~BreakerOpen
          /\ evaluation' = [evaluation EXCEPT ![r] = [status |-> "shadow_only", started |-> now]]
          /\ Goto(r, "routing")
       \/ \* The breaker opened, or the row cannot be stored: "safety_telemetry_unavailable".
          /\ main' = [main EXCEPT ![r].at = "routing", ![r].blocked = "blocked"]
          /\ UNCHANGED evaluation
    /\ UNCHANGED <<now, policy, events, threads, gathered, report, bounds>>

\* Mutant: an open breaker stops the run, missing telemetry does not.
OnlyBreaker(r) == main[r].blocked # "circuit_open"
\* iteration_budget is 0 for a blocked run.
MayFanOut(r) == main[r].blocked = "no"

\* The runbook is chosen and its workers are started; Asked[r] is empty if none matches.
FanOut(r) ==
    /\ At(r, "routing")
    /\ main' = [main EXCEPT ![r].at = "collecting",
                            ![r].deadline = IF MayFanOut(r) THEN now + Runtime ELSE 0]
    /\ UNCHANGED <<now, safety, threads, gathered, report, bounds>>

---------------------------------------------------------------------------
(* Workers: _invoke_specialist *)

Alive(r) == ~At(r, "dead") /\ main[r].deadline > 0
Step(r, p, w) == worker' = [worker EXCEPT ![r][p] = w]

\* _consume_budget: under the lock the charge fits, or it leaves the reason of the cap.
Reserve(r, p, paid, refused) ==
    LET next == budget[r].tokens + worker[r][p].owes
    IN  \/ /\ next > budget[r].max
           /\ budget' = [budget EXCEPT ![r].cap = TRUE] /\ Step(r, p, refused)
        \/ /\ next <= budget[r].max
           /\ budget' = [budget EXCEPT ![r].tokens = next] /\ Step(r, p, paid)

\* The deterministic path: a bounded opinion from the evidence the worker was given.
\* It also takes over when the provider failed or could not be paid.
Answer(opinion) == [at |-> "done", owes |-> 0, opinion |-> opinion]

\* The estimate of the context; a refused estimate fails the worker.  _consume_budget looks
\* at "closed" before it takes the lock.
LookBeforeEstimate(r, p) ==
    /\ Alive(r) /\ worker[r][p].at = "waiting"
    /\ Step(r, p, [Waiting EXCEPT !.at = IF budget[r].closed THEN "failed" ELSE "looked", !.owes = 1])
    /\ UNCHANGED <<now, safety, main, budget, gathered, report, called, bounds>>

Estimate(r, p) ==
    /\ Alive(r) /\ worker[r][p].at = "looked"
    /\ Reserve(r, p, [Waiting EXCEPT !.at = "ready"], [Waiting EXCEPT !.at = "failed"])
    /\ UNCHANGED <<now, safety, main, gathered, report, called, bounds>>

\* A provider is called before the deadline only; without one, or late, the local path answers.
Invoke(r, p) ==
    /\ Alive(r) /\ worker[r][p].at = "ready"
    /\ \/ /\ now < main[r].deadline
          /\ Step(r, p, [worker[r][p] EXCEPT !.at = "calling"])
          /\ called' = called \cup {r}
       \/ /\ Step(r, p, Answer(Local)) /\ UNCHANGED called
    /\ UNCHANGED <<now, safety, main, budget, gathered, report, bounds>>

\* The provider raises, or answers and reports what it used.
Provider(r, p) ==
    /\ Alive(r) /\ worker[r][p].at = "calling"
    /\ \/ Step(r, p, Answer(Local))
       \/ \E reply \in Replies, used \in 1..MaxTokens :
            Step(r, p, [at |-> "answered", owes |-> used, opinion |-> reply])
    /\ UNCHANGED <<now, safety, main, budget, gathered, report, called, bounds>>

LookBeforeCharge(r, p) ==
    /\ Alive(r) /\ worker[r][p].at = "answered"
    /\ \/ budget[r].closed /\ Step(r, p, Answer(Local))
       \/ ~budget[r].closed /\ Step(r, p, [worker[r][p] EXCEPT !.at = "charging"])
    /\ UNCHANGED <<now, safety, main, budget, gathered, report, called, bounds>>

Charge(r, p) ==
    /\ Alive(r) /\ worker[r][p].at = "charging"
    /\ Reserve(r, p, Answer(worker[r][p].opinion), Answer(Local))
    /\ UNCHANGED <<now, safety, main, gathered, report, called, bounds>>

---------------------------------------------------------------------------
(* Collection: _run_specialists, in the order of the profiles *)

Next1(r) == Asked[r][Len(gathered[r].opinions) + Cardinality(gathered[r].errors) + 1]
AllCollected(r) == Len(gathered[r].opinions) + Cardinality(gathered[r].errors) = Len(Asked[r])

\* _filter_raw_evidence_refs, validate_expert_result: what the reader may not see is dropped.
Filtered(p, opinion) ==
    [profile |-> p, cites |-> opinion.cites \cap Visible, stance |-> opinion.stance,
     degraded |-> ~(opinion.cites \subseteq Visible)]

\* Mutant: a worker that is late is passed over.
PassedOver(r, p) == [gathered[r] EXCEPT !.opinions = Append(@, Filtered(p, NoOpinion))]
\* future.result raised: the profile and the reason.
Failure(r, p) == [gathered[r] EXCEPT !.errors = @ \cup {p}]

Collect(r) ==
    /\ At(r, "collecting") /\ ~AllCollected(r)
    /\ LET p == Next1(r)
           w == worker[r][p]
       IN  \/ /\ w.at = "done"
              /\ gathered' = [gathered EXCEPT ![r].opinions = Append(@, Filtered(p, w.opinion))]
           \/ /\ \/ w.at = "failed"
                 \/ w.at # "done" /\ now >= main[r].deadline
              /\ gathered' = [gathered EXCEPT ![r] = Failure(r, p)]
    /\ UNCHANGED <<now, safety, main, threads, report, bounds>>

\* The budget is closed, without the lock.
Close(r) ==
    /\ At(r, "collecting") /\ (MayFanOut(r) => AllCollected(r))
    /\ budget' = [budget EXCEPT ![r].closed = TRUE]
    /\ Goto(r, "closed")
    /\ UNCHANGED <<now, safety, worker, called, gathered, report, bounds>>

---------------------------------------------------------------------------
(* The result *)

\* _contradictions: two opinions whose recommended directions are incompatible.
Contradictory(opinions) ==
    \E i, j \in 1..Len(opinions) : opinions[i].stance # opinions[j].stance

\* _synthesize, _reality_check, _runbook_gates
NeedsReview(g) ==
    \/ g.opinions = <<>> \/ g.errors # {}
    \/ Contradictory(g.opinions)
    \/ \E i \in 1..Len(g.opinions) : g.opinions[i].degraded

\* The result of the run; what it says of the budget is read here.
Compose(r) ==
    /\ At(r, "closed")
    /\ LET g == gathered[r]
           degraded == \E i \in 1..Len(g.opinions) : g.opinions[i].degraded
       IN report' = [report EXCEPT ![r] =
            [status |-> IF g.errors # {} \/ g.opinions = <<>> \/ degraded THEN "degraded" ELSE "ready",
             review |-> NeedsReview(g),
             opinions |-> g.opinions,
             safety |-> IF budget[r].cap THEN "capped"
                        ELSE IF main[r].blocked = "no" THEN "shadow_only" ELSE main[r].blocked,
             telemetry |-> "ok", policyMax |-> budget[r].policyMax, saved |-> FALSE]]
    /\ Goto(r, IF evaluation[r].status = "none" THEN "saving" ELSE "reporting")
    /\ UNCHANGED <<now, safety, threads, gathered, bounds>>

\* Mutant: the tokens as they were charged.
AsCharged(r) == budget[r].tokens
\* A run that was stopped by a cap reports more than the cap.
ReportedTokens(r) == IF budget[r].cap /\ budget[r].tokens <= budget[r].policyMax
                     THEN budget[r].policyMax + 1 ELSE budget[r].tokens

\* complete reads the row and the policy; a row that is completed, or an error, is
\* noted in the trace of the run.
ReadEvaluation(r) ==
    /\ At(r, "reporting")
    /\ \/ /\ evaluation[r].status = "shadow_only"
          /\ main' = [main EXCEPT ![r].at = "completing", ![r].tokens = ReportedTokens(r),
                ![r].read = [threshold |-> policy.threshold, tokens |-> policy.tokens],
                ![r].verdict = IF now - evaluation[r].started > Runtime
                                  \/ ReportedTokens(r) > policy.tokens
                               THEN "capped" ELSE "completed"]
          /\ UNCHANGED report
       \/ /\ Goto(r, "saving")
          /\ report' = [report EXCEPT ![r].telemetry = "error"]
    /\ UNCHANGED <<now, safety, threads, gathered, bounds>>

\* _record_failure: events in the rolling window, this one included.
Recent == Cardinality({i \in 1..Len(events) : events[i].at + Window >= now}) + 1

Failed(run, threshold) ==
    /\ events' = Append(events, [at |-> now, run |-> run])
    /\ policy' = [policy EXCEPT !.openUntil = IF Recent >= threshold THEN now + OpenFor ELSE 0]

\* The row, the event and the breaker are written in one transaction.  A policy that was
\* stored since is kept except for the breaker: the threshold is the one that was read.
CompleteEvaluation(r) ==
    /\ At(r, "completing")
    /\ evaluation' = [evaluation EXCEPT ![r].status = main[r].verdict]
    /\ IF main[r].verdict = "capped" THEN Failed(r, main[r].read.threshold) ELSE UNCHANGED <<events, policy>>
    /\ Goto(r, "saving")
    /\ UNCHANGED <<now, threads, gathered, report, bounds>>

\* _persist_run
Save(r) ==
    /\ At(r, "saving")
    /\ report' = [report EXCEPT ![r].saved = TRUE]
    /\ Goto(r, "done")
    /\ UNCHANGED <<now, safety, threads, gathered, bounds>>

---------------------------------------------------------------------------
(* Others *)

\* POST /dashboard/intelligence/evaluation/complete closes the row of a run that is under way.
CompleteByHand(r) ==
    /\ evaluation[r].status = "shadow_only"
    /\ evaluation' = [evaluation EXCEPT ![r].status = "completed"]
    /\ UNCHANGED <<now, policy, events, main, threads, gathered, report, bounds>>

\* An evaluation that was started over the API is completed beyond a cap.
CappedElsewhere ==
    /\ changes < MaxChanges /\ changes' = changes + 1
    /\ Failed(Other, policy.threshold)
    /\ UNCHANGED <<now, evaluation, main, threads, gathered, report, crashes>>

\* configure_policy keeps what it read of the breaker.
ConfigurePolicy(threshold, tokens) ==
    /\ changes < MaxChanges /\ changes' = changes + 1
    /\ policy' = [policy EXCEPT !.threshold = threshold, !.tokens = tokens]
    /\ UNCHANGED <<now, events, evaluation, main, threads, gathered, report, crashes>>

\* The process of a run dies with its threads.
Crash(r) ==
    /\ crashes < MaxCrashes /\ crashes' = crashes + 1
    /\ main[r].at \notin {"idle", "done", "dead"}
    /\ Goto(r, "dead")
    /\ UNCHANGED <<now, safety, threads, gathered, report, changes>>

Tick ==
    /\ now < MaxTime /\ now' = now + 1
    /\ UNCHANGED <<safety, main, threads, gathered, report, bounds>>

Next ==
    \/ \E r \in Run :
        \/ Ask(r) \/ Register(r) \/ FanOut(r) \/ Collect(r) \/ Close(r)
        \/ Compose(r) \/ ReadEvaluation(r) \/ CompleteEvaluation(r) \/ Save(r)
        \/ CompleteByHand(r) \/ Crash(r)
        \/ \E p \in Threads[r] :
            \/ LookBeforeEstimate(r, p) \/ Estimate(r, p) \/ Invoke(r, p) \/ Provider(r, p)
            \/ LookBeforeCharge(r, p) \/ Charge(r, p)
    \/ \E threshold \in Thresholds, tokens \in {MaxTokens, MaxTokens + 1} :
        ConfigurePolicy(threshold, tokens)
    \/ CappedElsewhere \/ Tick

Spec == Init /\ [][Next]_vars

---------------------------------------------------------------------------
(* Properties *)

(* A saved result that says its run was stopped by a cap has been counted by *)
(* the breaker, unless the trace says that telemetry failed or the cap had   *)
(* been raised when complete read it; and a run that was blocked has called  *)
(* no provider and charged nothing (run, complete, _record_failure).         *)
CapsAreCounted ==
    \A r \in Run :
        /\ (/\ report[r] # NoReport /\ report[r].saved /\ report[r].safety = "capped"
            /\ report[r].telemetry = "ok" /\ main[r].read.tokens <= report[r].policyMax)
             => \E i \in 1..Len(events) : events[i].run = r
        /\ main[r].blocked # "no" => r \notin called /\ budget[r].tokens = 0

(* A result that is "ready" has an opinion of every profile that was asked,  *)
(* in their order, and each cites only evidence the reader may see; if it    *)
(* asks for no review, the opinions agree (_run_specialists, _synthesize).   *)
ReadyIsWhole ==
    \A r \in Run : (report[r] # NoReport /\ report[r].status = "ready") =>
        /\ [i \in 1..Len(report[r].opinions) |-> report[r].opinions[i].profile] = Asked[r]
        /\ \A i \in 1..Len(report[r].opinions) :
              report[r].opinions[i] = Filtered(Asked[r][i], worker[r][Asked[r][i]].opinion)
        /\ ~report[r].review => ~Contradictory(report[r].opinions)

\* Does not hold: "Closing it here means a late surviving worker can never charge this run
\* again" (intelligence_orchestrator_runs.py:166). A worker that looked before the budget
\* was closed still charges it, or leaves a cap that the evaluation counts and the result
\* does not tell.
NoLateCharge ==
    [][\A r \in Run : budget[r].closed => budget'[r] = budget[r]]_vars

=============================================================================
