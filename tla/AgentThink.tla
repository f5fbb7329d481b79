------------------------------ MODULE AgentThink ------------------------------
(***************************************************************************)
(* Thinking for one agent run (services/agent_execution.py): a fallback    *)
(* chain of models is tried within a budget, every attempt is recorded,    *)
(* one result per run is kept, and a worker applies the plan of a          *)
(* succeeded run through a pending action row.  The job handler of         *)
(* agent.think does the same without the last part.                        *)
(*                                                                         *)
(* Several executions of one run may overlap, since a reclaimed job is     *)
(* executed again while its first execution still runs.  Costs are whole   *)
(* numbers here; a price is a cost per token.                              *)
(***************************************************************************)
EXTENDS Integers, Sequences

CONSTANTS
    Chain,               \* models of the tier's fallback chain, in order
    MaxTokens, Price,    \* max_tokens and price of every model
    Registered,          \* models whose provider is registered
    TokenBudget, CostBudget,
    UsageBound,          \* bound: tokens a provider reports for one call
    Worker, Handler,     \* executions of AgentExecutionWorker, of AgentThinkJobHandler
    MaxCrashes           \* bound: executions that die

Model == {Chain[n] : n \in DOMAIN Chain}
Executor == Worker \cup Handler

ASSUME ThinkAssumption ==
    /\ Chain \in Seq(Model) /\ Len(Chain) > 0
    /\ MaxTokens \in [Model -> Nat \ {0}] /\ Price \in [Model -> Nat]
    /\ Registered \subseteq Model
    /\ TokenBudget \in Nat /\ CostBudget \in Nat /\ UsageBound \in Nat \ {0}
    /\ MaxCrashes \in Nat

VARIABLES
    result,    \* agent_thinking_results: status, and whether a plan is for review only
    action,    \* agent_executor_actions: status
    pc, at,    \* executors: step, and position in the chain
    tokens, cost,  \* what an execution has used
    got,       \* its result, before it is kept
    cancelled, \* cancel() was called
    recorded,  \* agent_thinking_attempts: the models tried for the run
    applied,   \* times the plan was applied
    crashes

thinking == <<at, tokens, cost, got, cancelled>>
vars == <<result, action, pc, thinking, recorded, applied, crashes>>

Outcome == {"plan", "advice", "failed", "cancelled"}

TypeOK ==
    /\ result \in Outcome \cup {"absent"}
    /\ action \in {"absent", "pending", "done", "failed"}
    /\ pc \in [Executor -> {"idle", "next", "call", "record", "keep", "insert",
                            "ensure", "open", "apply", "done", "failed"}]
    /\ at \in [Executor -> 1..Len(Chain) + 1]
    /\ tokens \in [Executor -> Nat] /\ cost \in [Executor -> Nat]
    /\ got \in [Executor -> Outcome \cup {"none"}]
    /\ cancelled \in [Executor -> BOOLEAN]
    /\ recorded \subseteq Model /\ applied \in Nat /\ crashes \in 0..MaxCrashes

Init ==
    /\ result = "absent"
    /\ action = "absent"
    /\ pc = [e \in Executor |-> "idle"]
    /\ at = [e \in Executor |-> 1]
    /\ tokens = [e \in Executor |-> 0]
    /\ cost = [e \in Executor |-> 0]
    /\ got = [e \in Executor |-> "none"]
    /\ cancelled = [e \in Executor |-> FALSE]
    /\ recorded = {}
    /\ applied = 0
    /\ crashes = 0
------------------------------------------------------------------------------
(* Thinking.                                                               *)

Goto(e, step) == pc' = [pc EXCEPT ![e] = step]

\* ThinkingTask.execute returns an outcome, and with it goes what it counted.
Return(e, outcome) ==
    /\ at' = [at EXCEPT ![e] = 1]
    /\ tokens' = [tokens EXCEPT ![e] = 0]
    /\ cost' = [cost EXCEPT ![e] = 0]
    /\ cancelled' = [cancelled EXCEPT ![e] = FALSE]
    /\ got' = [got EXCEPT ![e] = outcome]

\* An execution ends, and forgets.
Leave(e) == Goto(e, "idle") /\ Return(e, "none")

\* A kept result is not thought again: a worker goes on to the action, a handler is done.
Begin(e) ==
    /\ pc[e] = "idle"
    /\ \/ result = "absent" /\ Goto(e, "next")
       \/ result # "absent" /\ e \in Worker /\ Goto(e, "ensure")
    /\ UNCHANGED <<result, action, thinking, recorded, applied, crashes>>

\* The model's whole allowance still fits into the budget.
Affordable(e, m) ==
    /\ tokens[e] + MaxTokens[m] <= TokenBudget
    /\ cost[e] + MaxTokens[m] * Price[m] <= CostBudget

\* The chain goes on with its next model.
MayTry(e) == at[e] <= Len(Chain) /\ Affordable(e, Chain[at[e]]) /\ ~cancelled[e]

\* The end of the chain, of the budget, or a cancellation makes the run fail.
StopTrying(e) ==
    /\ pc[e] = "next"
    /\ ~MayTry(e)
    /\ Return(e, "failed")
    /\ Goto(e, "keep")
    /\ UNCHANGED <<result, action, recorded, applied, crashes>>

\* Mutant: a model without a provider is tried again.
AfterMissingSame(e) == at[e]

\* A model without a provider is recorded as a failed attempt and skipped.
AfterMissing(e) == at[e] + 1

TryMissing(e) ==
    /\ pc[e] = "next"
    /\ MayTry(e)
    /\ Chain[at[e]] \notin Registered
    /\ recorded' = recorded \cup {Chain[at[e]]}
    /\ at' = [at EXCEPT ![e] = AfterMissing(e)]
    /\ UNCHANGED <<result, action, pc, tokens, cost, got, cancelled, applied, crashes>>

\* Mutant: what the provider reports is charged as it is.
ChargeReported(m, usage) == usage

\* What is charged is capped by the model's allowance.
Charge(m, usage) == IF usage <= MaxTokens[m] THEN usage ELSE MaxTokens[m]

\* The provider is called in a subprocess: it answers with a plan or with advice, fails
\* or times out.
CallProvider(e) ==
    /\ pc[e] = "next"
    /\ MayTry(e)
    /\ Chain[at[e]] \in Registered
    /\ \E usage \in 1..UsageBound :
          /\ tokens' = [tokens EXCEPT ![e] = @ + Charge(Chain[at[e]], usage)]
          /\ cost' = [cost EXCEPT ![e] = @ + Charge(Chain[at[e]], usage) * Price[Chain[at[e]]]]
    /\ \E answer \in {"plan", "advice", "none"} : got' = [got EXCEPT ![e] = answer]
    /\ Goto(e, "record")
    /\ UNCHANGED <<result, action, at, cancelled, recorded, applied, crashes>>

\* cancel(): a call under way is terminated and its outcome is a cancelled attempt.
Cancel(e) ==
    /\ pc[e] \in {"next", "record"}
    /\ ~cancelled[e]
    /\ cancelled' = [cancelled EXCEPT ![e] = TRUE]
    /\ got' = [got EXCEPT ![e] = IF pc[e] = "record" THEN "cancelled" ELSE @]
    /\ UNCHANGED <<result, action, pc, at, tokens, cost, recorded, applied, crashes>>

\* Mutant: only failed attempts are recorded.
RecordableFailed(e) == got[e] = "none"

\* Every attempt is.
Recordable(e) == TRUE

\* The attempt is recorded; what failed makes room for the next model.
RecordAttempt(e) ==
    /\ pc[e] = "record"
    /\ recorded' = IF Recordable(e) THEN recorded \cup {Chain[at[e]]} ELSE recorded
    /\ \/ got[e] # "none" /\ Return(e, got[e]) /\ Goto(e, "keep")
       \/ /\ got[e] = "none"
          /\ at' = [at EXCEPT ![e] = @ + 1]
          /\ Goto(e, "next")
          /\ UNCHANGED <<tokens, cost, got, cancelled>>
    /\ UNCHANGED <<result, action, applied, crashes>>
------------------------------------------------------------------------------
(* Keeping the result.                                                     *)

\* persist_thinking_result looks for a result of the run first ...
LookForResult(e) ==
    /\ pc[e] = "keep"
    /\ \/ result = "absent" /\ Goto(e, "insert") /\ UNCHANGED thinking
       \/ result # "absent" /\ e \in Worker /\ Goto(e, "ensure") /\ Return(e, "none")
       \/ result # "absent" /\ e \in Handler /\ Leave(e)
    /\ UNCHANGED <<result, action, recorded, applied, crashes>>

\* UNIQUE(organization_id, run_id) of agent_thinking_results.
Keepable == result = "absent"

\* ... and inserts its own, or is refused by the unique index.
KeepResult(e) ==
    /\ pc[e] = "insert"
    /\ \/ /\ Keepable
          /\ result' = got[e]
          /\ \/ e \in Worker /\ Goto(e, "ensure") /\ Return(e, "none")
             \/ e \in Handler /\ Leave(e)
       \/ /\ ~Keepable
          /\ Leave(e)
          /\ UNCHANGED result
    /\ UNCHANGED <<action, recorded, applied, crashes>>
------------------------------------------------------------------------------
(* Applying the plan.                                                      *)

\* Mutant: suggestions are applied without a review.
ActionableSucceeded(r) == r \in {"plan", "advice"}

\* A succeeded result without action descriptors.
Actionable(r) == r = "plan"

\* ensure_pending_action looks for the row of the run: a finished one answers the call,
\* a pending one is taken up.
LookForAction(e) ==
    /\ pc[e] = "ensure"
    /\ \/ Actionable(result) /\ action = "absent" /\ Goto(e, "open") /\ UNCHANGED thinking
       \/ Actionable(result) /\ action = "pending" /\ Goto(e, "apply") /\ UNCHANGED thinking
       \/ ~Actionable(result) /\ Leave(e)
       \/ Actionable(result) /\ action \in {"done", "failed"} /\ Leave(e)
    /\ UNCHANGED <<result, action, recorded, applied, crashes>>

\* The row is inserted, unless the unique index has one already.
OpenAction(e) ==
    /\ pc[e] = "open"
    /\ \/ action = "absent" /\ action' = "pending" /\ Goto(e, "apply") /\ UNCHANGED thinking
       \/ action # "absent" /\ Leave(e) /\ UNCHANGED action
    /\ UNCHANGED <<result, recorded, applied, crashes>>

Apply(e) ==
    /\ pc[e] = "apply"
    /\ \/ applied' = applied + 1 /\ Goto(e, "done")
       \/ UNCHANGED applied /\ Goto(e, "failed")
    /\ UNCHANGED <<result, action, thinking, recorded, crashes>>

\* WHERE id=? AND status='pending'
Finishable == action = "pending"

FinishAction(e) ==
    /\ pc[e] \in {"done", "failed"}
    /\ action' = IF Finishable THEN pc[e] ELSE action
    /\ Leave(e)
    /\ UNCHANGED <<result, recorded, applied, crashes>>

Crash(e) ==
    /\ pc[e] # "idle"
    /\ crashes < MaxCrashes
    /\ crashes' = crashes + 1
    /\ Leave(e)
    /\ UNCHANGED <<result, action, recorded, applied>>
------------------------------------------------------------------------------
Step(e) ==
    \/ StopTrying(e)
    \/ TryMissing(e)
    \/ CallProvider(e)
    \/ RecordAttempt(e)
    \/ LookForResult(e)
    \/ KeepResult(e)
    \/ LookForAction(e)
    \/ OpenAction(e)
    \/ Apply(e)
    \/ FinishAction(e)

Next == \E e \in Executor : Begin(e) \/ Step(e) \/ Cancel(e) \/ Crash(e)

Spec == Init /\ [][Next]_vars

\* The job is executed again until its run has a result, and executions go on.
Fairness == \A e \in Executor : WF_vars(Begin(e)) /\ WF_vars(Step(e))

FairSpec == Spec /\ Fairness
------------------------------------------------------------------------------
(* Properties.                                                             *)

\* No execution uses more tokens or money than its budget, whatever providers report
\* and however its chain falls back.
WithinBudget ==
    \A e \in Executor : tokens[e] <= TokenBudget /\ cost[e] <= CostBudget

\* Only a succeeded plan is applied, never suggestions that ask for an approval.
OnlyPlansApplied == applied > 0 => result = "plan"

\* An answer that is kept, or a cancellation, is among the recorded attempts: spending can
\* be traced though executions die between the two rows.
KeptIsRecorded ==
    result \in {"plan", "advice", "cancelled"} => recorded \cap Registered # {}

\* The three together: what thinking may spend, what traces it, and what it may change.
ThinkingIsBounded == WithinBudget /\ KeptIsRecorded /\ OnlyPlansApplied

\* A run that is thought about gets a result, though models lack providers, executions
\* are cancelled and some die.
ThinkingEnds == result = "absent" ~> result # "absent"

------------------------------------------------------------------------------
(* Promises of the documentation, a test or an error message that the      *)
(* code does not keep: TLC refutes each of them.                           *)

\* "durable resume completes action once": what the test of that name says of a resumed
\* execution.
AppliedOnce == applied <= 1
===============================================================================
