---------------------------- MODULE ThinkProofs ----------------------------
(***************************************************************************)
(* Proofs about AgentThink, for any chain of models, budgets and numbers   *)
(* of executions of a run.                                                 *)
(*                                                                         *)
(* The argument: a call is made only when the whole allowance of its model *)
(* fits into what is left, and is charged no more than that.  An answer    *)
(* is recorded before its execution may keep it, and the result of a run   *)
(* is written once, so whoever applies a plan saw the plan that is kept.   *)
(***************************************************************************)
EXTENDS AgentThink, TLAPS

\* What an execution spends fits, and the positions of its chain are those of a model.
Spent ==
    /\ at \in [Executor -> 1..(Len(Chain) + 1)]
    /\ tokens \in [Executor -> Nat] /\ cost \in [Executor -> Nat]
    /\ \A e \in Executor : tokens[e] <= TokenBudget /\ cost[e] <= CostBudget
    /\ \A e \in Executor : pc[e] = "record" => at[e] \in 1..Len(Chain)

\* The answers that only a provider gives, and a call that is cancelled.
Answers == {"plan", "advice", "cancelled"}

\* An answer comes from a model with a provider and is recorded before it is kept.
Traced ==
    /\ \A e \in Executor :
        /\ pc[e] = "record" => Chain[at[e]] \in Registered
        /\ pc[e] \in {"keep", "insert"} =>
            got[e] \in Outcome /\ (got[e] \in Answers => recorded \cap Registered # {})
    /\ result \in Answers => recorded \cap Registered # {}

\* Whoever has come as far as the action has seen a plan kept.
Planned ==
    /\ \A e \in Executor : pc[e] \in {"open", "apply", "done", "failed"} => result = "plan"
    /\ applied > 0 => result = "plan"

\* The types that the other parts need.
Steps == {"idle", "next", "call", "record", "keep", "insert", "ensure", "open", "apply", "done", "failed"}
Types ==
    /\ pc \in [Executor -> Steps] /\ got \in [Executor -> Outcome \cup {"none"}]
    /\ cancelled \in [Executor -> BOOLEAN]
    /\ result \in Outcome \cup {"absent"} /\ action \in {"absent", "pending", "done", "failed"}
    /\ recorded \subseteq Model /\ applied \in Nat /\ crashes \in 0..MaxCrashes

Inv == Types /\ Spent /\ Traced /\ Planned

LEMMA ChainOf ==
    /\ Chain \in Seq(Model) /\ Len(Chain) \in Nat /\ Len(Chain) > 0
    /\ \A n \in 1..Len(Chain) : Chain[n] \in Model
    /\ \A m \in Model : MaxTokens[m] \in Nat /\ MaxTokens[m] # 0 /\ Price[m] \in Nat
    /\ TokenBudget \in Nat /\ CostBudget \in Nat /\ UsageBound \in Nat /\ MaxCrashes \in Nat
BY ThinkAssumption

LEMMA Initially == Init => Inv
<1> SUFFICES ASSUME Init PROVE Inv
    OBVIOUS
<1>1. Types
    BY ChainOf DEF Init, Types, Steps
<1>2. Spent
    BY ChainOf DEF Init, Spent
<1>3. Traced /\ Planned
    BY DEF Init, Traced, Planned, Answers
<1> QED
    BY <1>1, <1>2, <1>3 DEF Inv

\* A smaller charge costs no more.
LEMMA Cheaper ==
    ASSUME NEW a \in Nat, NEW b \in Nat, a <= b, NEW price \in Nat
    PROVE  a * price <= b * price /\ a * price \in Nat /\ b * price \in Nat
<1>1. b - a \in Nat /\ b = a + (b - a)
    OBVIOUS
<1>2. b * price = a * price + (b - a) * price
    BY <1>1
<1>3. a * price \in Nat /\ (b - a) * price \in Nat /\ b * price \in Nat
    BY <1>1
<1> QED
    BY <1>2, <1>3

\* An execution that returns, with an outcome that may be kept.
LEMMA ReturnKeeps ==
    ASSUME Inv, NEW e \in Executor, NEW outcome \in Outcome \cup {"none"}, Return(e, outcome),
           NEW step \in Steps, Goto(e, step), step # "record"
    PROVE  /\ Spent' /\ pc' \in [Executor -> Steps] /\ got' \in [Executor -> Outcome \cup {"none"}]
           /\ cancelled' \in [Executor -> BOOLEAN]
           /\ pc'[e] = step /\ got'[e] = outcome
           /\ \A f \in Executor : f # e => pc'[f] = pc[f] /\ got'[f] = got[f] /\ at'[f] = at[f]
<1>1. /\ pc' = [pc EXCEPT ![e] = step] /\ at' = [at EXCEPT ![e] = 1]
      /\ tokens' = [tokens EXCEPT ![e] = 0] /\ cost' = [cost EXCEPT ![e] = 0]
      /\ cancelled' = [cancelled EXCEPT ![e] = FALSE] /\ got' = [got EXCEPT ![e] = outcome]
    BY DEF Goto, Return
<1>2. Types /\ Spent
    BY DEF Inv
<1>3. 1 \in 1..(Len(Chain) + 1)
    BY ChainOf
<1>4. Spent'
    BY <1>1, <1>2, <1>3, ChainOf DEF Spent, Types
<1> QED
    BY <1>1, <1>2, <1>4 DEF Types, Spent

\* A step that writes no row and comes to no place where something is promised.
LEMMA ElsewhereTraced ==
    ASSUME Inv, NEW e \in Executor, UNCHANGED <<result, applied>>, recorded \subseteq recorded',
           \A f \in Executor : f # e => pc'[f] = pc[f] /\ got'[f] = got[f] /\ at'[f] = at[f],
           pc'[e] \in {"idle", "next", "ensure"}
    PROVE  Traced' /\ Planned'
<1>1. Traced /\ Planned
    BY DEF Inv
<1>2. recorded \cap Registered # {} => recorded' \cap Registered # {}
    OBVIOUS
<1>3. Traced'
    BY <1>1, <1>2 DEF Traced
<1>4. Planned'
    BY <1>1 DEF Planned
<1> QED
    BY <1>3, <1>4

LEMMA LeaveStep ==
    ASSUME Inv, NEW e \in Executor, Leave(e), UNCHANGED <<result, recorded, applied>>,
           action' \in {"absent", "pending", "done", "failed"}, crashes' \in 0..MaxCrashes
    PROVE  Inv'
<1>1. Return(e, "none") /\ Goto(e, "idle") /\ "idle" \in Steps
    BY DEF Leave, Steps
<1>2. /\ Spent' /\ pc' \in [Executor -> Steps] /\ got' \in [Executor -> Outcome \cup {"none"}]
      /\ cancelled' \in [Executor -> BOOLEAN] /\ pc'[e] = "idle"
      /\ \A f \in Executor : f # e => pc'[f] = pc[f] /\ got'[f] = got[f] /\ at'[f] = at[f]
    BY <1>1, ReturnKeeps
<1>3. Traced' /\ Planned'
    BY <1>2, ElsewhereTraced
<1> QED
    BY <1>2, <1>3 DEF Inv, Types

\* A worker goes on to the action of the run.
LEMMA EnsureStep ==
    ASSUME Inv, NEW e \in Executor, Goto(e, "ensure"), Return(e, "none"),
           UNCHANGED <<result, action, recorded, applied, crashes>>
    PROVE  Inv'
<1>1. "ensure" \in Steps
    BY DEF Steps
<1>2. /\ Spent' /\ pc' \in [Executor -> Steps] /\ got' \in [Executor -> Outcome \cup {"none"}]
      /\ cancelled' \in [Executor -> BOOLEAN] /\ pc'[e] = "ensure"
      /\ \A f \in Executor : f # e => pc'[f] = pc[f] /\ got'[f] = got[f] /\ at'[f] = at[f]
    BY <1>1, ReturnKeeps
<1>3. Traced' /\ Planned'
    BY <1>2, ElsewhereTraced
<1> QED
    BY <1>2, <1>3 DEF Inv, Types

\* A step that changes the place of an execution only.
LEMMA GotoStep ==
    ASSUME Inv, NEW e \in Executor, NEW step \in Steps, Goto(e, step),
           step # "record", step = "keep" => FALSE, step = "insert" => pc[e] = "keep",
           step \in {"open", "apply", "done", "failed"} => result = "plan",
           UNCHANGED <<result, thinking, recorded, crashes>>,
           action' \in {"absent", "pending", "done", "failed"},
           applied' \in Nat, applied' = applied \/ result = "plan"
    PROVE  Inv'
<1>1. /\ Types /\ Spent /\ Traced /\ Planned
      /\ at' = at /\ tokens' = tokens /\ cost' = cost /\ got' = got /\ cancelled' = cancelled
    BY DEF Inv, thinking
<1>2. pc' \in [Executor -> Steps] /\ pc'[e] = step /\ \A f \in Executor : f # e => pc'[f] = pc[f]
    BY <1>1 DEF Goto, Types
<1>3. Spent'
    BY <1>1, <1>2 DEF Spent
<1>4. Traced'
    BY <1>1, <1>2 DEF Traced
<1>5. Planned'
    BY <1>1, <1>2 DEF Planned
<1> QED
    BY <1>1, <1>2, <1>3, <1>4, <1>5 DEF Inv, Types

LEMMA BeginStep ==
    ASSUME Inv, NEW e \in Executor, Begin(e)
    PROVE  Inv'
<1>1. "next" \in Steps /\ "ensure" \in Steps /\ Types
    BY DEF Steps, Inv
<1>2. /\ Goto(e, "next") \/ Goto(e, "ensure")
      /\ UNCHANGED <<result, action, thinking, recorded, applied, crashes>>
    BY DEF Begin
<1> QED
    BY <1>1, <1>2, GotoStep DEF Types

LEMMA StopTryingStep ==
    ASSUME Inv, NEW e \in Executor, StopTrying(e)
    PROVE  Inv'
<1>1. /\ Return(e, "failed") /\ Goto(e, "keep") /\ UNCHANGED <<result, action, recorded, applied, crashes>>
      /\ "keep" \in Steps /\ "failed" \in Outcome
    BY DEF StopTrying, Steps, Outcome
<1>2. /\ Spent' /\ pc' \in [Executor -> Steps] /\ got' \in [Executor -> Outcome \cup {"none"}]
      /\ cancelled' \in [Executor -> BOOLEAN] /\ pc'[e] = "keep" /\ got'[e] = "failed"
      /\ \A f \in Executor : f # e => pc'[f] = pc[f] /\ got'[f] = got[f] /\ at'[f] = at[f]
    BY <1>1, ReturnKeeps
<1>3. Traced'
    BY <1>1, <1>2 DEF Inv, Traced, Answers
<1>4. Planned'
    BY <1>1, <1>2 DEF Inv, Planned
<1> QED
    BY <1>1, <1>2, <1>3, <1>4 DEF Inv, Types

LEMMA TryMissingStep ==
    ASSUME Inv, NEW e \in Executor, TryMissing(e)
    PROVE  Inv'
<1> DEFINE m == Chain[at[e]]
<1>1. /\ Types /\ Spent /\ pc[e] = "next" /\ at[e] <= Len(Chain)
      /\ recorded' = recorded \cup {m} /\ at' = [at EXCEPT ![e] = at[e] + 1]
      /\ UNCHANGED <<result, action, pc, tokens, cost, got, cancelled, applied, crashes>>
    BY DEF TryMissing, MayTry, AfterMissing, Inv
<1>2. at[e] \in 1..Len(Chain) /\ at[e] + 1 \in 1..(Len(Chain) + 1) /\ m \in Model
    BY <1>1, ChainOf DEF Spent
<1>3. Spent'
    BY <1>1, <1>2 DEF Spent
<1>4. \A f \in Executor : f # e => at'[f] = at[f]
    BY <1>1 DEF Spent
<1>5. Traced' /\ Planned'
    BY <1>1, <1>4, ElsewhereTraced
<1> QED
    BY <1>1, <1>2, <1>3, <1>5 DEF Inv, Types

\* The allowance of the model fits, and the charge is no more.
LEMMA CallProviderStep ==
    ASSUME Inv, NEW e \in Executor, CallProvider(e)
    PROVE  Inv'
<1> DEFINE m == Chain[at[e]]
<1>1. /\ Types /\ Spent /\ pc[e] = "next" /\ at[e] <= Len(Chain) /\ m \in Registered
      /\ tokens[e] + MaxTokens[m] <= TokenBudget
      /\ cost[e] + MaxTokens[m] * Price[m] <= CostBudget
      /\ pc' = [pc EXCEPT ![e] = "record"]
      /\ UNCHANGED <<result, action, at, cancelled, recorded, applied, crashes>>
    BY DEF CallProvider, MayTry, Affordable, Goto, Inv
<1>2. PICK usage \in 1..UsageBound :
        /\ tokens' = [tokens EXCEPT ![e] = @ + Charge(m, usage)]
        /\ cost' = [cost EXCEPT ![e] = @ + Charge(m, usage) * Price[m]]
    BY DEF CallProvider
<1>3. PICK answer \in {"plan", "advice", "none"} : got' = [got EXCEPT ![e] = answer]
    BY DEF CallProvider
<1>4. at[e] \in 1..Len(Chain) /\ m \in Model /\ tokens[e] \in Nat /\ cost[e] \in Nat
    BY <1>1, ChainOf DEF Spent
<1>5. MaxTokens[m] \in Nat /\ Price[m] \in Nat
    BY <1>4, ChainOf
<1> HIDE DEF m
<1> DEFINE charge == Charge(m, usage)
           paid == charge * Price[m]
<1>6. charge \in Nat /\ charge <= MaxTokens[m]
    BY <1>5 DEF Charge
<1> HIDE DEF charge
<1>7. paid \in Nat /\ paid <= MaxTokens[m] * Price[m] /\ MaxTokens[m] * Price[m] \in Nat
    BY <1>5, <1>6, Cheaper
<1> HIDE DEF paid
<1>8. /\ tokens' = [tokens EXCEPT ![e] = tokens[e] + charge]
      /\ cost' = [cost EXCEPT ![e] = cost[e] + paid]
    BY <1>2 DEF charge, paid
<1>9. tokens[e] + charge \in Nat /\ tokens[e] + charge <= TokenBudget
  <2>1. tokens[e] + MaxTokens[m] <= TokenBudget
      BY <1>1
  <2>2. tokens[e] \in Nat /\ TokenBudget \in Nat
      BY <1>4, ChainOf
  <2> QED
      BY <1>5, <1>6, <2>1, <2>2
<1>10. cost[e] + paid \in Nat /\ cost[e] + paid <= CostBudget
  <2> DEFINE most == MaxTokens[m] * Price[m]
  <2>1. cost[e] + most <= CostBudget /\ most \in Nat /\ paid <= most /\ paid \in Nat
      BY <1>1, <1>7
  <2>2. cost[e] \in Nat /\ CostBudget \in Nat
      BY <1>4, ChainOf
  <2> HIDE DEF most
  <2> QED
      BY <2>1, <2>2
<1>11. /\ pc'[e] = "record" /\ \A f \in Executor : f # e => pc'[f] = pc[f] /\ got'[f] = got[f]
       /\ pc' \in [Executor -> Steps] /\ got' \in [Executor -> Outcome \cup {"none"}]
    BY <1>1, <1>3 DEF Types, Steps, Outcome
<1>12. Spent'
  <2>1. \A f \in Executor : pc'[f] = "record" => at'[f] \in 1..Len(Chain)
      BY <1>1, <1>4, <1>11 DEF Spent
  <2> QED
      BY <1>1, <1>8, <1>9, <1>10, <2>1 DEF Spent
<1>13. Traced'
    BY <1>1, <1>11 DEF Inv, Traced, m
<1>14. Planned'
    BY <1>1, <1>11 DEF Inv, Planned
<1> QED
    BY <1>1, <1>11, <1>12, <1>13, <1>14 DEF Inv, Types

LEMMA CancelStep ==
    ASSUME Inv, NEW e \in Executor, Cancel(e)
    PROVE  Inv'
<1> DEFINE answer == IF pc[e] = "record" THEN "cancelled" ELSE got[e]
<1>1. /\ pc[e] \in {"next", "record"} /\ cancelled' = [cancelled EXCEPT ![e] = TRUE]
      /\ got' = [got EXCEPT ![e] = answer] /\ Types
      /\ UNCHANGED <<result, action, pc, at, tokens, cost, recorded, applied, crashes>>
    BY DEF Cancel, Inv
<1>2. answer \in Outcome \cup {"none"}
    BY <1>1 DEF Types, Outcome
<1> HIDE DEF answer
<1>3. /\ got' \in [Executor -> Outcome \cup {"none"}] /\ cancelled' \in [Executor -> BOOLEAN]
      /\ \A f \in Executor : f # e => got'[f] = got[f]
    BY <1>1, <1>2 DEF Types
<1>4. Spent'
    BY <1>1 DEF Inv, Spent
<1>5. Traced'
    BY <1>1, <1>3 DEF Inv, Traced
<1>6. Planned'
    BY <1>1 DEF Inv, Planned
<1> QED
    BY <1>1, <1>3, <1>4, <1>5, <1>6 DEF Inv, Types

LEMMA RecordAttemptStep ==
    ASSUME Inv, NEW e \in Executor, RecordAttempt(e)
    PROVE  Inv'
<1> DEFINE m == Chain[at[e]]
<1>1. /\ Types /\ Spent /\ pc[e] = "record" /\ recorded' = recorded \cup {m}
      /\ UNCHANGED <<result, action, applied, crashes>>
    BY DEF RecordAttempt, Recordable, Inv
<1>2. at[e] \in 1..Len(Chain) /\ m \in Model /\ m \in Registered
    BY <1>1, ChainOf DEF Spent, Inv, Traced
<1> HIDE DEF m
<1>3. recorded' \cap Registered # {} /\ recorded' \subseteq Model
    BY <1>1, <1>2 DEF Types
<1>4. CASE got[e] # "none" /\ Return(e, got[e]) /\ Goto(e, "keep")
  <2>1. got[e] \in Outcome /\ "keep" \in Steps
      BY <1>1, <1>4 DEF Types, Steps
  <2>2. /\ Spent' /\ pc' \in [Executor -> Steps] /\ got' \in [Executor -> Outcome \cup {"none"}]
        /\ cancelled' \in [Executor -> BOOLEAN] /\ pc'[e] = "keep" /\ got'[e] = got[e]
        /\ \A f \in Executor : f # e => pc'[f] = pc[f] /\ got'[f] = got[f] /\ at'[f] = at[f]
      BY <1>4, <2>1, ReturnKeeps
  <2>3. Traced'
      BY <1>1, <1>3, <2>1, <2>2 DEF Inv, Traced
  <2>4. Planned'
      BY <1>1, <2>2 DEF Inv, Planned
  <2> QED
      BY <1>1, <1>3, <2>2, <2>3, <2>4 DEF Inv, Types
<1>5. CASE /\ at' = [at EXCEPT ![e] = at[e] + 1] /\ Goto(e, "next")
           /\ UNCHANGED <<tokens, cost, got, cancelled>>
  <2>1. at[e] + 1 \in 1..(Len(Chain) + 1)
      BY <1>2, ChainOf
  <2>2. /\ pc' \in [Executor -> Steps] /\ pc'[e] = "next" /\ at' \in [Executor -> 1..(Len(Chain) + 1)]
        /\ \A f \in Executor : f # e => pc'[f] = pc[f] /\ at'[f] = at[f]
      BY <1>1, <1>5, <2>1 DEF Types, Spent, Steps, Goto
  <2>3. Spent'
      BY <1>1, <1>5, <2>2 DEF Spent
  <2>4. Traced' /\ Planned'
      BY <1>1, <1>5, <2>2, ElsewhereTraced
  <2> QED
      BY <1>1, <1>3, <1>5, <2>2, <2>3, <2>4 DEF Inv, Types
<1> QED
    BY <1>4, <1>5 DEF RecordAttempt

LEMMA LookForResultStep ==
    ASSUME Inv, NEW e \in Executor, LookForResult(e)
    PROVE  Inv'
<1>1. pc[e] = "keep" /\ UNCHANGED <<result, action, recorded, applied, crashes>> /\ Types
    BY DEF LookForResult, Inv
<1>2. CASE Goto(e, "insert") /\ UNCHANGED thinking
  <2>1. "insert" \in Steps
      BY DEF Steps
  <2> QED
      BY <1>1, <1>2, <2>1, GotoStep DEF Types
<1>3. CASE Goto(e, "ensure") /\ Return(e, "none")
    BY <1>1, <1>3, EnsureStep
<1>4. CASE Leave(e)
    BY <1>1, <1>4, LeaveStep DEF Types
<1> QED
    BY <1>2, <1>3, <1>4 DEF LookForResult

\* The result is written once: nobody has come to an action before.
LEMMA KeepResultStep ==
    ASSUME Inv, NEW e \in Executor, KeepResult(e)
    PROVE  Inv'
<1>1. pc[e] = "insert" /\ UNCHANGED <<action, recorded, applied, crashes>> /\ Types
    BY DEF KeepResult, Inv
<1>2. CASE Leave(e) /\ UNCHANGED result
    BY <1>1, <1>2, LeaveStep DEF Types
<1>3. ASSUME Keepable, result' = got[e], NEW step \in {"idle", "ensure"}, Goto(e, step), Return(e, "none")
      PROVE  Inv'
  <2>1. /\ result = "absent" /\ got[e] \in Outcome /\ step \in Steps /\ step # "record"
        /\ got[e] \in Answers => recorded \cap Registered # {}
      BY <1>1, <1>3 DEF Keepable, Inv, Traced, Steps
  <2>2. /\ Spent' /\ pc' \in [Executor -> Steps] /\ got' \in [Executor -> Outcome \cup {"none"}]
        /\ cancelled' \in [Executor -> BOOLEAN] /\ pc'[e] = step
        /\ \A f \in Executor : f # e => pc'[f] = pc[f] /\ got'[f] = got[f] /\ at'[f] = at[f]
      BY <1>3, <2>1, ReturnKeeps
  <2>3. Traced'
      BY <1>1, <1>3, <2>1, <2>2 DEF Inv, Traced
  <2>4. /\ \A f \in Executor : pc[f] \notin {"open", "apply", "done", "failed"}
        /\ ~(applied > 0)
      BY <2>1 DEF Inv, Planned
  <2>5. Planned'
      BY <1>1, <1>3, <2>2, <2>4 DEF Planned
  <2> QED
      BY <1>1, <1>3, <2>1, <2>2, <2>3, <2>5 DEF Inv, Types
<1> QED
    BY <1>2, <1>3 DEF KeepResult, Leave

LEMMA LookForActionStep ==
    ASSUME Inv, NEW e \in Executor, LookForAction(e)
    PROVE  Inv'
<1>1. UNCHANGED <<result, action, recorded, applied, crashes>> /\ Types
    BY DEF LookForAction, Inv
<1>2. CASE Leave(e)
    BY <1>1, <1>2, LeaveStep DEF Types
<1>3. CASE Actionable(result) /\ (Goto(e, "open") \/ Goto(e, "apply")) /\ UNCHANGED thinking
  <2>1. result = "plan" /\ "open" \in Steps /\ "apply" \in Steps
      BY <1>3 DEF Actionable, Steps
  <2> QED
      BY <1>1, <1>3, <2>1, GotoStep DEF Types
<1> QED
    BY <1>2, <1>3 DEF LookForAction

LEMMA OpenActionStep ==
    ASSUME Inv, NEW e \in Executor, OpenAction(e)
    PROVE  Inv'
<1>1. pc[e] = "open" /\ UNCHANGED <<result, recorded, applied, crashes>> /\ Types /\ result = "plan"
    BY DEF OpenAction, Inv, Planned
<1>2. CASE Leave(e) /\ UNCHANGED action
    BY <1>1, <1>2, LeaveStep DEF Types
<1>3. CASE action' = "pending" /\ Goto(e, "apply") /\ UNCHANGED thinking
  <2>1. "apply" \in Steps
      BY DEF Steps
  <2> QED
      BY <1>1, <1>3, <2>1, GotoStep DEF Types
<1> QED
    BY <1>2, <1>3 DEF OpenAction

LEMMA ApplyStep ==
    ASSUME Inv, NEW e \in Executor, Apply(e)
    PROVE  Inv'
<1>1. /\ pc[e] = "apply" /\ UNCHANGED <<result, action, thinking, recorded, crashes>> /\ Types
      /\ result = "plan"
    BY DEF Apply, Inv, Planned
<1>2. "done" \in Steps /\ "failed" \in Steps /\ applied + 1 \in Nat /\ applied \in Nat
    BY <1>1 DEF Steps, Types
<1>3. (Goto(e, "done") /\ applied' = applied + 1) \/ (Goto(e, "failed") /\ applied' = applied)
    BY DEF Apply
<1> QED
    BY <1>1, <1>2, <1>3, GotoStep DEF Types

LEMMA FinishActionStep ==
    ASSUME Inv, NEW e \in Executor, FinishAction(e)
    PROVE  Inv'
<1>1. /\ Leave(e) /\ UNCHANGED <<result, recorded, applied, crashes>> /\ Types
      /\ action' \in {"absent", "pending", "done", "failed"}
    BY DEF FinishAction, Inv, Types
<1> QED
    BY <1>1, LeaveStep DEF Types

LEMMA CrashStep ==
    ASSUME Inv, NEW e \in Executor, Crash(e)
    PROVE  Inv'
<1>1. /\ Leave(e) /\ UNCHANGED <<result, action, recorded, applied>> /\ Types
      /\ crashes' \in 0..MaxCrashes
    BY ChainOf DEF Crash, Inv, Types
<1> QED
    BY <1>1, LeaveStep DEF Types

LEMMA NextStep == Inv /\ [Next]_vars => Inv'
<1> SUFFICES ASSUME Inv, [Next]_vars PROVE Inv'
    OBVIOUS
<1>1. CASE UNCHANGED vars
  <2>1. UNCHANGED <<result, action, pc, at, tokens, cost, got, cancelled, recorded, applied, crashes>>
      BY <1>1 DEF vars, thinking
  <2>2. Types'
      BY <2>1 DEF Inv, Types
  <2>3. Spent'
      BY <2>1 DEF Inv, Spent
  <2>4. Traced' /\ Planned'
      BY <2>1 DEF Inv, Traced, Planned
  <2> QED
      BY <2>2, <2>3, <2>4 DEF Inv
<1>2. CASE Next
    BY <1>2, BeginStep, StopTryingStep, TryMissingStep, CallProviderStep, RecordAttemptStep,
       LookForResultStep, KeepResultStep, LookForActionStep, OpenActionStep, ApplyStep,
       FinishActionStep, CancelStep, CrashStep DEF Next, Step
<1> QED
    BY <1>1, <1>2

\* For any chain, budgets and numbers of executions: what thinking spends, what traces it and
\* what it may change, as persist_thinking_result and ensure_pending_action leave it.
THEOREM Invariance == Spec => []Inv
BY Initially, NextStep, PTL DEF Spec

\* No execution spends more than its budget, what is kept was recorded, and only a plan
\* that succeeded is applied.
THEOREM ThinkingIsBoundedHolds == Spec => []ThinkingIsBounded
<1>1. Inv => ThinkingIsBounded
    BY DEF Inv, Spent, Traced, Planned, Answers, ThinkingIsBounded, WithinBudget, KeptIsRecorded,
           OnlyPlansApplied
<1> QED
    BY <1>1, Invariance, PTL

\* The variables keep their types; the budgets are what makes it true of the costs.
THEOREM TypeCorrect == Spec => []TypeOK
<1>1. Inv => TypeOK
    BY DEF Inv, Types, Spent, Steps, TypeOK
<1> QED
    BY <1>1, Invariance, PTL
============================================================================
