--------------------------- MODULE AutomationProofs ---------------------------
(***************************************************************************)
(* Proofs about Automation, for any number of changes, keys, callers and   *)
(* sessions and for any actions.                                           *)
(*                                                                         *)
(* The argument: nothing fences a session that lost its job, but the       *)
(* execution row of a key is inserted once, by one session, and only that  *)
(* session applies the action and writes that it succeeded.  What is       *)
(* recorded as succeeded therefore was applied once and stays recorded,    *)
(* and a session that is past some actions of its run finds them recorded  *)
(* whoever applied them.                                                   *)
(***************************************************************************)
EXTENDS Automation, TLAPS

\* The steps at one action of a run, those of them after the insert, and those under way.
AtAction == {"lookup", "insert", "effect", "finish", "finishFailed"}
Past == {"effect", "finish", "finishFailed"}
Before == {"check", "reconcile", "fence", "mark"}
UnderWay == AtAction \cup {"reconcile", "fence", "mark", "complete"}

Execution == [status: {"absent", "running", "succeeded", "failed"},
              hash: Hash \cup {"none"}, by: Change \cup {NoChange}]
Descriptor == [key: Key, hash: Hash]

Steps == {"idle", "check", "reconcile", "fence", "mark", "lookup", "insert", "effect", "finish",
          "finishFailed", "complete", "succeed", "raised", "failJob"}

\* The parts of TypeOK that the arguments need.
RowTypes ==
    /\ run \in [Change -> {"absent", "waiting_approval", "queued", "running",
                           "completed", "failed"}]
    /\ approval \in [Change -> {"absent", "pending", "approved", "rejected"}]
    /\ inserted \in [Change -> Nat]
    /\ endorsed \subseteq Change
    /\ phase \in [Change -> Queue!Phases]
    /\ outcome \in [Change -> {"open", "succeeded", "failed"}]
ExecTypes == exec \in [Key -> Execution] /\ effects \in [Key -> Nat]
SessionTypes ==
    /\ pc \in [Session -> Steps] /\ work \in [Session -> Change \cup {NoChange}]
    /\ step \in [Session -> Nat]
Types == RowTypes /\ ExecTypes /\ SessionTypes /\ DOMAIN caller = Caller

\* Only runs with actions are queued, and a session counts the actions of its run.
Carried ==
    /\ \A a \in Caller :
        /\ caller[a].at \in {"insert", "enqueue"} => caller[a].on \in Change
        /\ caller[a].at = "enqueue" \/ (caller[a].at = "insert" /\ caller[a].auto) =>
                Actions[caller[a].on] # <<>>
    /\ \A c \in Change : phase[c] # "absent" => Actions[c] # <<>>
    /\ \A s \in Session :
        /\ pc[s] # "idle" => work[s] \in Change /\ Actions[work[s]] # <<>>
        /\ pc[s] \in Before => step[s] = 1
        /\ pc[s] \in AtAction => step[s] \in 1..Len(Actions[work[s]])
        /\ pc[s] = "complete" => step[s] = Len(Actions[work[s]]) + 1

\* A change has one run at most, and then its run is there.
Once == \A c \in Change : inserted[c] <= 1 /\ (inserted[c] > 0 => run[c] # "absent")

\* Whoever acts for a run acts for a released one, and so did who inserted an execution.
Consent ==
    /\ active => endorsed # {}
    /\ \A c \in Change : approval[c] = "approved" => Released(c)
    /\ \A a \in Caller :
        /\ caller[a].at = "activate" => endorsed # {}
        /\ caller[a].at = "insert" /\ caller[a].auto => AutoPolicy /\ endorsed # {}
    /\ \A s \in Session : pc[s] \in UnderWay => Released(work[s])
    /\ \A k \in Key : exec[k] # NoExecution => Released(exec[k].by)

\* A session past the insert holds the row of its key, alone, and knows whether it was applied.
Holding ==
    \A s \in Session : pc[s] \in Past =>
        LET x == Action(s)
        IN  /\ exec[x.key].status \in {"running", "failed"} /\ exec[x.key].hash = x.hash
            /\ pc[s] = "effect" => effects[x.key] = 0
            /\ pc[s] = "finish" => effects[x.key] = 1
            /\ \A t \in Session : t # s /\ pc[t] \in Past => Action(t).key # x.key

\* What was applied has a row, and a row that says succeeded was applied.
Accounted ==
    \A k \in Key :
        /\ exec[k].status = "absent" => exec[k] = NoExecution
        /\ effects[k] <= 1
        /\ effects[k] > 0 => exec[k].status # "absent"
        /\ exec[k].status = "succeeded" => effects[k] = 1

DoneIn(rows, x) == rows[x.key].status = "succeeded" /\ rows[x.key].hash = x.hash
Applied(x) == DoneIn(exec, x)
AllApplied(c) == \A i \in 1..Len(Actions[c]) : Applied(Actions[c][i])

\* What a session has passed, and what a run or a job is said to have done, is recorded.
Progress ==
    /\ \A s \in Session :
        /\ pc[s] \in AtAction \cup {"complete"} =>
                \A i \in 1..(step[s] - 1) : Applied(Actions[work[s]][i])
        /\ pc[s] = "succeed" => AllApplied(work[s])
    /\ \A c \in Change : run[c] = "completed" \/ outcome[c] = "succeeded" => AllApplied(c)

Inv == Types /\ Carried /\ Once /\ Consent /\ Holding /\ Accounted /\ Progress
------------------------------------------------------------------------------
(* Types *)

\* The action at which a session stands is one of its run.
LEMMA ActionTyped ==
    ASSUME Types, Carried, NEW s \in Session, pc[s] \in AtAction
    PROVE  /\ work[s] \in Change /\ step[s] \in 1..Len(Actions[work[s]])
           /\ Action(s) = Actions[work[s]][step[s]]
           /\ Action(s) \in Descriptor /\ Action(s).key \in Key /\ Action(s).hash \in Hash
<1>1. work[s] \in Change /\ step[s] \in 1..Len(Actions[work[s]])
    BY DEF Carried, AtAction
<1>2. Actions[work[s]] \in Seq(Descriptor)
    BY <1>1, AutomationAssumption DEF Descriptor
<1>3. Actions[work[s]][step[s]] \in Descriptor
    BY <1>1, <1>2
<1> QED
    BY <1>1, <1>3 DEF Action, Descriptor

LEMMA InvInit == Init => Inv
<1> SUFFICES ASSUME Init PROVE Inv
    OBVIOUS
<1>1. NoExecution \in Execution /\ NoExecution.status = "absent"
    BY DEF NoExecution, Execution
<1>2. Types
    BY <1>1 DEF Init, Types, RowTypes, ExecTypes, SessionTypes, Steps, Queue!Init, Queue!Phases, Resting
<1>3. Carried
    BY DEF Init, Carried, Queue!Init, Resting, Before, AtAction
<1>4. Once /\ Consent /\ Holding
    BY DEF Init, Once, Consent, Holding, Resting, UnderWay, AtAction, Past
<1>5. Accounted /\ Progress
    BY <1>1 DEF Init, Accounted, Progress, AtAction
<1> QED
    BY <1>2, <1>3, <1>4, <1>5 DEF Inv

\* How a session moves, and what becomes of the others.
Moved(s) ==
    \/ \E to \in Steps \ {"idle"} : Moves(s, to)
    \/ Advances(s)
    \/ Leave(s)

LEMMA RowTypesNext == Types /\ Carried /\ [Next]_vars => RowTypes'
<1> SUFFICES ASSUME Types, Carried, [Next]_vars PROVE RowTypes'
    OBVIOUS
<1>1. CASE UNCHANGED <<ledger, job, outcome>>
    BY <1>1 DEF ledger, job, Types, RowTypes
<1>2. ASSUME NEW a \in Caller, TriggerInsert(a) PROVE RowTypes'
  <2>1. caller[a].on \in Change
      BY <1>2 DEF TriggerInsert, Carried
  <2>2. UNCHANGED <<endorsed, outcome>>
      BY <1>2 DEF TriggerInsert, Done
  <2>3. run' \in [Change -> {"absent", "waiting_approval", "queued", "running",
                              "completed", "failed"}]
        /\ approval' \in [Change -> {"absent", "pending", "approved", "rejected"}]
        /\ inserted' \in [Change -> Nat]
      BY <1>2, <2>1 DEF TriggerInsert, Types, RowTypes
  <2>4. phase' \in [Change -> Queue!Phases]
      BY <1>2 DEF TriggerInsert, Queue!Submit, Queue!Phases, job, Types, RowTypes
  <2> QED
      BY <2>2, <2>3, <2>4 DEF Types, RowTypes
<1>3. ASSUME NEW a \in Caller, ExecuteEnqueue(a) PROVE RowTypes'
  <2>1. UNCHANGED <<approval, inserted, endorsed, outcome>>
      BY <1>3 DEF ExecuteEnqueue, Done
  <2>2. run' \in [Change -> {"absent", "waiting_approval", "queued", "running",
                              "completed", "failed"}]
      BY <1>3 DEF ExecuteEnqueue, Types, RowTypes
  <2>3. phase' \in [Change -> Queue!Phases]
      BY <1>3 DEF ExecuteEnqueue, Queue!Submit, Queue!Phases, job, Types, RowTypes
  <2> QED
      BY <2>1, <2>2, <2>3 DEF Types, RowTypes
<1>4. ASSUME NEW c \in Change, NEW decision \in {"approved", "rejected"}, Decide(c, decision)
      PROVE  RowTypes'
    BY <1>4 DEF Decide, Types, RowTypes, job
<1>5. ASSUME NEW c \in Change, CancelJob(c) PROVE RowTypes'
    BY <1>5 DEF CancelJob, Queue!Withdraw, Queue!Phases, Types, RowTypes, ledger
<1>6. ASSUME NEW s \in Session, NEW c \in Change, ClaimJob(s, c) PROVE RowTypes'
    BY <1>6 DEF ClaimJob, Queue!Grant, Queue!Phases, Types, RowTypes, ledger
<1>7. ASSUME NEW s \in Session, MarkRunning(s) \/ CompleteRun(s) \/ FailRun(s) PROVE RowTypes'
    BY <1>7 DEF MarkRunning, CompleteRun, FailRun, WriteRun, Types, RowTypes, job
<1>8. ASSUME NEW s \in Session, CloseJob(s) PROVE RowTypes'
    BY <1>8 DEF CloseJob, Queue!Close, Queue!Phases, Types, RowTypes, ledger, job
<1>9. ASSUME NEW a \in Caller, ActivateWrite(a) PROVE RowTypes'
    BY <1>9 DEF ActivateWrite, Done, Types, RowTypes, job
<1>10. ASSUME NEW a \in Caller, NEW c \in Change,
              TriggerRead(a, c) \/ ExecuteRead(a, c) \/ ActivateRead(a)
       PROVE  UNCHANGED <<ledger, job, outcome>>
    BY <1>10 DEF TriggerRead, ExecuteRead, ActivateRead, Calls
<1>11. ASSUME NEW a \in Caller, ActivateRead(a) PROVE UNCHANGED <<ledger, job, outcome>>
    BY <1>11 DEF ActivateRead, Calls
<1>12. ASSUME NEW s \in Session,
              \/ CheckRun(s) \/ Reconcile(s) \/ FenceExecutions(s) \/ LookupExecution(s)
              \/ InsertExecution(s) \/ ApplyAction(s) \/ FinishExecution(s) \/ Crash(s)
       PROVE  UNCHANGED <<ledger, job, outcome>>
    BY <1>12 DEF CheckRun, Reconcile, FenceExecutions, LookupExecution, InsertExecution,
                 ApplyAction, FinishExecution, Crash
<1>13. CASE UNCHANGED vars
    BY <1>1, <1>13 DEF vars
<1> QED
    BY <1>1, <1>2, <1>3, <1>4, <1>5, <1>6, <1>7, <1>8, <1>9, <1>10, <1>11, <1>12, <1>13
       DEF Next, Operate, Execute

\* A session claims, moves, or everybody else's step leaves all sessions alone.
LEMMA SessionStep ==
    ASSUME [Next]_vars
    PROVE  \/ UNCHANGED session
           \/ \E s \in Session, c \in Change : ClaimJob(s, c)
           \/ \E s \in Session : Moved(s) /\ (Execute(s) \/ Crash(s))
<1>1. ASSUME Operate PROVE UNCHANGED session
    BY <1>1 DEF Operate, TriggerRead, ExecuteRead, TriggerInsert, ActivateRead, ActivateWrite,
                ExecuteEnqueue, Decide, CancelJob, Calls, Done
<1>2. ASSUME NEW s \in Session, Execute(s) PROVE Moved(s)
  <2>1. CASE CheckRun(s) \/ Reconcile(s) \/ FenceExecutions(s) \/ MarkRunning(s)
      BY <2>1 DEF CheckRun, Reconcile, FenceExecutions, MarkRunning, Moved, Steps
  <2>2. CASE LookupExecution(s) \/ InsertExecution(s) \/ ApplyAction(s) \/ FinishExecution(s)
      BY <2>2 DEF LookupExecution, InsertExecution, ApplyAction, FinishExecution, Moved, Steps
  <2>3. CASE CompleteRun(s) \/ FailRun(s) \/ CloseJob(s)
      BY <2>3 DEF CompleteRun, FailRun, CloseJob, Moved, Steps
  <2> QED
      BY <1>2, <2>1, <2>2, <2>3 DEF Execute
<1>3. ASSUME NEW s \in Session, Crash(s) PROVE Moved(s)
    BY <1>3 DEF Crash, Moved
<1>4. CASE UNCHANGED vars
    BY <1>4 DEF vars
<1> QED
    BY <1>1, <1>2, <1>3, <1>4 DEF Next

LEMMA SessionTypesNext == Types /\ [Next]_vars => SessionTypes'
<1> SUFFICES ASSUME Types, [Next]_vars PROVE SessionTypes'
    OBVIOUS
<1>1. CASE UNCHANGED session
    BY <1>1 DEF session, Types, SessionTypes
<1>2. ASSUME NEW s \in Session, NEW c \in Change, ClaimJob(s, c) PROVE SessionTypes'
    BY <1>2 DEF ClaimJob, Types, SessionTypes, Steps
<1>3. ASSUME NEW s \in Session, NEW to \in Steps, Moves(s, to) PROVE SessionTypes'
    BY <1>3 DEF Moves, Types, SessionTypes
<1>4. ASSUME NEW s \in Session, Advances(s) PROVE SessionTypes'
  <2>1. \E to \in Steps : pc' = [pc EXCEPT ![s] = to]
      BY <1>4 DEF Advances, Steps
  <2>2. step[s] + 1 \in Nat /\ step' = [step EXCEPT ![s] = step[s] + 1]
      BY <1>4 DEF Advances, Types, SessionTypes
  <2> QED
      BY <1>4, <2>1, <2>2 DEF Advances, Types, SessionTypes
<1>5. ASSUME NEW s \in Session, Leave(s) PROVE SessionTypes'
    BY <1>5 DEF Leave, Types, SessionTypes, Steps
<1> QED
    BY <1>1, <1>2, <1>3, <1>4, <1>5, SessionStep DEF Moved

\* The four steps that write executions or effects.
LEMMA ExecStep ==
    ASSUME [Next]_vars
    PROVE  \/ UNCHANGED <<exec, effects>>
           \/ \E s \in Session : FenceExecutions(s) \/ InsertExecution(s) \/ ApplyAction(s)
                                 \/ FinishExecution(s)
<1>1. ASSUME Operate PROVE UNCHANGED <<exec, effects>>
    BY <1>1 DEF Operate, TriggerRead, ExecuteRead, TriggerInsert, ActivateRead, ActivateWrite,
                ExecuteEnqueue, Decide, CancelJob, Calls, Done
<1>2. ASSUME NEW s \in Session, NEW c \in Change, ClaimJob(s, c) PROVE UNCHANGED <<exec, effects>>
    BY <1>2 DEF ClaimJob
<1>3. ASSUME NEW s \in Session,
             \/ CheckRun(s) \/ Reconcile(s) \/ MarkRunning(s) \/ LookupExecution(s)
             \/ CompleteRun(s) \/ FailRun(s) \/ CloseJob(s) \/ Crash(s)
      PROVE  UNCHANGED <<exec, effects>>
    BY <1>3 DEF CheckRun, Reconcile, MarkRunning, LookupExecution, CompleteRun, FailRun, CloseJob,
                Crash
<1>4. CASE UNCHANGED vars
    BY <1>4 DEF vars
<1> QED
    BY <1>1, <1>2, <1>3, <1>4 DEF Next, Execute

LEMMA ExecTypesNext == Types /\ Carried /\ [Next]_vars => ExecTypes'
<1> SUFFICES ASSUME Types, Carried, [Next]_vars PROVE ExecTypes'
    OBVIOUS
<1>1. CASE UNCHANGED <<exec, effects>>
    BY <1>1 DEF Types, ExecTypes
<1>2. ASSUME NEW s \in Session, FenceExecutions(s) PROVE ExecTypes'
  <2>1. \A k \in Key : [exec[k] EXCEPT !.status = "failed"] \in Execution
      BY DEF Types, ExecTypes, Execution
  <2> QED
      BY <1>2, <2>1 DEF FenceExecutions, Types, ExecTypes
<1>3. ASSUME NEW s \in Session, InsertExecution(s) PROVE ExecTypes'
  <2> DEFINE row == [status |-> "running", hash |-> Action(s).hash, by |-> work[s]]
  <2>1. row \in Execution
      BY <1>3, ActionTyped DEF InsertExecution, AtAction, Execution
  <2>2. exec' \in {exec, [exec EXCEPT ![Action(s).key] = row]} /\ UNCHANGED effects
      BY <1>3 DEF InsertExecution
  <2> HIDE DEF row
  <2> QED
      BY <2>1, <2>2 DEF Types, ExecTypes
<1>4. ASSUME NEW s \in Session, ApplyAction(s) PROVE ExecTypes'
  <2>1. Action(s).key \in Key
      BY <1>4, ActionTyped DEF ApplyAction, AtAction
  <2>2. effects' \in {effects, [effects EXCEPT ![Action(s).key] = effects[Action(s).key] + 1]}
        /\ UNCHANGED exec
      BY <1>4 DEF ApplyAction
  <2> QED
      BY <2>1, <2>2 DEF Types, ExecTypes
<1>5. ASSUME NEW s \in Session, FinishExecution(s) PROVE ExecTypes'
  <2> DEFINE k == Action(s).key
  <2>1. k \in Key
      BY <1>5, ActionTyped DEF FinishExecution, AtAction
  <2>2. PICK status \in {"succeeded", "failed"} : exec' = [exec EXCEPT ![k].status = status]
      BY <1>5 DEF FinishExecution
  <2>3. [exec[k] EXCEPT !.status = status] \in Execution
      BY <2>1 DEF Types, ExecTypes, Execution
  <2>4. UNCHANGED effects
      BY <1>5 DEF FinishExecution
  <2> QED
      BY <2>1, <2>2, <2>3, <2>4 DEF Types, ExecTypes
<1> QED
    BY <1>1, <1>2, <1>3, <1>4, <1>5, ExecStep

\* What a caller does to what it carries.
CallerGoes(a) ==
    \/ caller' = [caller EXCEPT ![a] = Resting]
    \/ \E c \in Change : caller' = [caller EXCEPT ![a] = [at |-> "insert", on |-> c, auto |-> AutoExecutes(c)]]
    \/ \E c \in Change : /\ Actions[c] # <<>>
                         /\ caller' = [caller EXCEPT ![a] = [at |-> "enqueue", on |-> c, auto |-> FALSE]]
    \/ /\ Trained
       /\ caller' = [caller EXCEPT ![a] = [at |-> "activate", on |-> NoChange, auto |-> FALSE]]

LEMMA CallerStep ==
    ASSUME [Next]_vars
    PROVE  UNCHANGED caller \/ \E a \in Caller : CallerGoes(a)
<1>1. ASSUME NEW a \in Caller, NEW c \in Change, TriggerRead(a, c) \/ ExecuteRead(a, c)
      PROVE  CallerGoes(a)
    BY <1>1 DEF TriggerRead, ExecuteRead, Calls, CallerGoes
<1>2. ASSUME NEW a \in Caller,
             TriggerInsert(a) \/ ActivateRead(a) \/ ActivateWrite(a) \/ ExecuteEnqueue(a)
      PROVE  CallerGoes(a)
    BY <1>2 DEF TriggerInsert, ActivateRead, ActivateWrite, ExecuteEnqueue, Calls, Done, CallerGoes
<1>3. ASSUME NEW c \in Change, NEW decision \in {"approved", "rejected"},
             Decide(c, decision) \/ CancelJob(c)
      PROVE  UNCHANGED caller
    BY <1>3 DEF Decide, CancelJob
<1>4. ASSUME NEW s \in Session, NEW c \in Change, ClaimJob(s, c) PROVE UNCHANGED caller
    BY <1>4 DEF ClaimJob
<1>5. ASSUME NEW s \in Session, Execute(s) \/ Crash(s) PROVE UNCHANGED caller
    BY <1>5 DEF Execute, Crash, CheckRun, Reconcile, FenceExecutions, MarkRunning, LookupExecution,
                InsertExecution, ApplyAction, FinishExecution, CompleteRun, FailRun, CloseJob,
                Moves, Advances
<1>6. CASE UNCHANGED vars
    BY <1>6 DEF vars
<1> QED
    BY <1>1, <1>2, <1>3, <1>4, <1>5, <1>6 DEF Next, Operate

LEMMA TypesNext == Types /\ Carried /\ [Next]_vars => Types'
<1> SUFFICES ASSUME Types, Carried, [Next]_vars PROVE DOMAIN caller' = Caller
    BY RowTypesNext, ExecTypesNext, SessionTypesNext DEF Types
<1> QED
    BY CallerStep DEF Types, CallerGoes
------------------------------------------------------------------------------
(* What callers and sessions carry *)

\* A session that moves leaves the others where they are.
LEMMA OthersStay ==
    ASSUME Types, NEW s \in Session, Moved(s), NEW t \in Session, t # s
    PROVE  pc'[t] = pc[t] /\ work'[t] = work[t] /\ step'[t] = step[t]
BY DEF Moved, Moves, Advances, Leave, Types, SessionTypes

\* Where a session may stand that moves on.
LEMMA SessionGoes ==
    ASSUME Types, Carried, NEW s \in Session, Moved(s), Execute(s) \/ Crash(s)
    PROVE  \/ pc'[s] = "idle"
           \/ /\ work'[s] = work[s] /\ step'[s] = step[s]
              /\ \/ pc[s] \in Before /\ pc'[s] \in Before \cup {"failJob"}
                 \/ pc[s] = "check" /\ pc'[s] = "succeed" /\ run[work[s]] = "completed"
                 \/ pc[s] = "mark" /\ pc'[s] = "lookup"
                 \/ pc[s] = "lookup" /\ pc'[s] = "insert"
                 \/ pc[s] = "insert" /\ pc'[s] = "effect"
                 \/ pc[s] = "effect" /\ pc'[s] \in {"finish", "finishFailed"}
                 \/ pc[s] \in AtAction /\ pc'[s] = "raised"
                 \/ pc[s] = "complete" /\ pc'[s] = "succeed"
                 \/ pc[s] = "raised" /\ pc'[s] = "failJob"
           \/ /\ pc[s] \in {"lookup", "finish"}
              /\ work'[s] = work[s] /\ step'[s] = step[s] + 1
              /\ pc'[s] = IF step[s] < Len(Actions[work[s]]) THEN "lookup" ELSE "complete"
<1>1. CASE CheckRun(s) \/ Reconcile(s) \/ FenceExecutions(s) \/ MarkRunning(s)
    BY <1>1 DEF CheckRun, Reconcile, FenceExecutions, MarkRunning, Moves, Before, Types, SessionTypes
<1>2. CASE LookupExecution(s) \/ FinishExecution(s)
    BY <1>2 DEF LookupExecution, FinishExecution, Moves, Advances, AtAction, Types, SessionTypes
<1>3. CASE InsertExecution(s) \/ ApplyAction(s)
    BY <1>3 DEF InsertExecution, ApplyAction, Moves, AtAction, Types, SessionTypes
<1>4. CASE CompleteRun(s) \/ FailRun(s)
    BY <1>4 DEF CompleteRun, FailRun, Moves, Types, SessionTypes
<1>5. CASE CloseJob(s) \/ Crash(s)
    BY <1>5 DEF CloseJob, Crash, Leave, Types, SessionTypes
<1> QED
    BY <1>1, <1>2, <1>3, <1>4, <1>5 DEF Execute

\* What Carried says of one session.
SessionCarries(s) ==
    /\ pc[s] # "idle" => work[s] \in Change /\ Actions[work[s]] # <<>>
    /\ pc[s] \in Before => step[s] = 1
    /\ pc[s] \in AtAction => step[s] \in 1..Len(Actions[work[s]])
    /\ pc[s] = "complete" => step[s] = Len(Actions[work[s]]) + 1

\* A run with actions has a first one.
LEMMA SomeAction ==
    ASSUME NEW c \in Change, Actions[c] # <<>>
    PROVE  Len(Actions[c]) \in Nat /\ 1 <= Len(Actions[c])
<1>1. Actions[c] \in Seq(Descriptor)
    BY AutomationAssumption DEF Descriptor
<1> QED
    BY <1>1

LEMMA SessionsCarry ==
    ASSUME Types, Carried, [Next]_vars, NEW t \in Session
    PROVE  SessionCarries(t)'
<1>1. SessionCarries(t)
    BY DEF Carried, SessionCarries
<1>2. CASE UNCHANGED session
    BY <1>1, <1>2 DEF SessionCarries, session
<1>3. ASSUME NEW s \in Session, NEW c \in Change, ClaimJob(s, c) PROVE SessionCarries(t)'
  <2>1. CASE s # t
      BY <1>1, <1>3, <2>1 DEF ClaimJob, SessionCarries, Types, SessionTypes
  <2>2. CASE s = t
    <3>1. Actions[c] # <<>>
        BY <1>3 DEF ClaimJob, Queue!Grant, Carried
    <3>2. pc'[t] = "check" /\ work'[t] = c /\ step'[t] = 1
        BY <1>3, <2>2 DEF ClaimJob, Types, SessionTypes
    <3> QED
        BY <3>1, <3>2 DEF SessionCarries, AtAction
  <2> QED
      BY <2>1, <2>2
<1>4. ASSUME NEW s \in Session, Moved(s), Execute(s) \/ Crash(s) PROVE SessionCarries(t)'
  <2>1. CASE s # t
      BY <1>1, <1>4, <2>1, OthersStay DEF SessionCarries
  <2>2. CASE s = t
    <3>1. CASE pc'[t] = "idle"
        BY <3>1 DEF SessionCarries, Before, AtAction
    <3>2. CASE work'[t] = work[t] /\ step'[t] = step[t] /\ pc'[t] # "idle"
      <4>1. pc[t] # "idle" => 1 <= Len(Actions[work[t]]) /\ Len(Actions[work[t]]) \in Nat
          BY <1>1, SomeAction DEF SessionCarries
      <4> QED
          BY <1>1, <1>4, <2>2, <3>2, <4>1, SessionGoes DEF SessionCarries, Before, AtAction
    <3>3. CASE /\ pc[t] \in {"lookup", "finish"}
               /\ work'[t] = work[t] /\ step'[t] = step[t] + 1
               /\ pc'[t] = IF step[t] < Len(Actions[work[t]]) THEN "lookup" ELSE "complete"
      <4>1. 1 <= Len(Actions[work[t]]) /\ Len(Actions[work[t]]) \in Nat
          BY <1>1, <3>3, SomeAction DEF SessionCarries
      <4> QED
          BY <1>1, <3>3, <4>1 DEF SessionCarries, Before, AtAction
    <3> QED
        BY <1>4, <2>2, <3>1, <3>2, <3>3, SessionGoes
  <2> QED
      BY <2>1, <2>2
<1> QED
    BY <1>2, <1>3, <1>4, SessionStep

LEMMA CallersCarry ==
    ASSUME Types, Carried, [Next]_vars, NEW b \in Caller
    PROVE  /\ caller'[b].at \in {"insert", "enqueue"} => caller'[b].on \in Change
           /\ caller'[b].at = "enqueue" \/ (caller'[b].at = "insert" /\ caller'[b].auto) =>
                Actions[caller'[b].on] # <<>>
<1>1. CASE UNCHANGED caller
    BY <1>1 DEF Carried
<1>2. ASSUME NEW a \in Caller, CallerGoes(a), a # b
      PROVE  caller'[b] = caller[b]
    BY <1>2 DEF CallerGoes, Types
<1>3. CASE caller' = [caller EXCEPT ![b] = Resting]
    BY <1>3 DEF Types, Resting
<1>4. ASSUME NEW c \in Change,
             caller' = [caller EXCEPT ![b] = [at |-> "insert", on |-> c, auto |-> AutoExecutes(c)]]
      PROVE  /\ caller'[b].at = "insert" /\ caller'[b].on \in Change
             /\ caller'[b].auto => Actions[caller'[b].on] # <<>>
    BY <1>4 DEF Types, AutoExecutes
<1>5. ASSUME NEW c \in Change, Actions[c] # <<>>,
             caller' = [caller EXCEPT ![b] = [at |-> "enqueue", on |-> c, auto |-> FALSE]]
      PROVE  caller'[b].on \in Change /\ Actions[caller'[b].on] # <<>>
    BY <1>5 DEF Types
<1>6. CASE caller' = [caller EXCEPT ![b] = [at |-> "activate", on |-> NoChange, auto |-> FALSE]]
    BY <1>6 DEF Types
<1>7. CASE caller'[b] = caller[b]
    BY <1>7 DEF Carried
<1> QED
    BY <1>1, <1>2, <1>3, <1>4, <1>5, <1>6, <1>7, CallerStep DEF CallerGoes

LEMMA JobsHaveActions ==
    ASSUME Types, Carried, [Next]_vars, NEW c \in Change, phase'[c] # "absent"
    PROVE  Actions[c] # <<>>
<1>1. CASE phase[c] # "absent"
    BY <1>1 DEF Carried
<1>2. ASSUME NEW a \in Caller, TriggerInsert(a), phase[c] = "absent" PROVE Actions[c] # <<>>
    BY <1>2 DEF TriggerInsert, Queue!Submit, job, Types, RowTypes, Carried
<1>3. ASSUME NEW a \in Caller, ExecuteEnqueue(a), phase[c] = "absent" PROVE Actions[c] # <<>>
    BY <1>3 DEF ExecuteEnqueue, Queue!Submit, job, Types, RowTypes, Carried
<1>4. ASSUME NEW d \in Change, CancelJob(d) PROVE phase[c] # "absent"
    BY <1>4 DEF CancelJob, Queue!Withdraw, Types, RowTypes
<1>5. ASSUME NEW s \in Session, NEW d \in Change, ClaimJob(s, d) PROVE phase[c] # "absent"
    BY <1>5 DEF ClaimJob, Queue!Grant, Types, RowTypes
<1>6. ASSUME NEW s \in Session, CloseJob(s) PROVE phase[c] # "absent"
    BY <1>6 DEF CloseJob, Queue!Close, job, Types, RowTypes
<1>7. CASE UNCHANGED phase
    BY <1>7 DEF Carried
<1>8. ASSUME NEW a \in Caller, NEW d \in Change,
             TriggerRead(a, d) \/ ExecuteRead(a, d)
      PROVE  UNCHANGED phase
    BY <1>8 DEF TriggerRead, ExecuteRead, job
<1>9. ASSUME NEW a \in Caller, ActivateRead(a) \/ ActivateWrite(a) PROVE UNCHANGED phase
    BY <1>9 DEF ActivateRead, ActivateWrite, job
<1>10. ASSUME NEW d \in Change, NEW decision \in {"approved", "rejected"}, Decide(d, decision)
       PROVE  UNCHANGED phase
    BY <1>10 DEF Decide, job
<1>11. ASSUME NEW s \in Session, Execute(s) \/ Crash(s), ~CloseJob(s) PROVE UNCHANGED phase
    BY <1>11 DEF Execute, Crash, CheckRun, Reconcile, FenceExecutions, MarkRunning, LookupExecution,
                 InsertExecution, ApplyAction, FinishExecution, CompleteRun, FailRun, job
<1>12. ASSUME UNCHANGED vars PROVE UNCHANGED phase
    BY <1>12 DEF vars, job
<1>13. \/ UNCHANGED phase
       \/ \E a \in Caller : TriggerInsert(a) \/ ExecuteEnqueue(a)
       \/ \E d \in Change : CancelJob(d)
       \/ \E s \in Session : CloseJob(s) \/ \E d \in Change : ClaimJob(s, d)
    BY <1>8, <1>9, <1>10, <1>11, <1>12 DEF Next, Operate
<1>14. CASE phase[c] = "absent"
    BY <1>2, <1>3, <1>4, <1>5, <1>6, <1>7, <1>13, <1>14
<1> QED
    BY <1>1, <1>14

LEMMA CarriedNext == Types /\ Carried /\ [Next]_vars => Carried'
<1> SUFFICES ASSUME Types, Carried, [Next]_vars PROVE Carried'
    OBVIOUS
<1>1. \A b \in Caller :
        /\ caller'[b].at \in {"insert", "enqueue"} => caller'[b].on \in Change
        /\ caller'[b].at = "enqueue" \/ (caller'[b].at = "insert" /\ caller'[b].auto) =>
                Actions[caller'[b].on] # <<>>
    BY CallersCarry
<1>2. \A c \in Change : phase'[c] # "absent" => Actions[c] # <<>>
    BY JobsHaveActions
<1>3. \A s \in Session : SessionCarries(s)'
    BY SessionsCarry
<1> QED
    BY <1>1, <1>2, <1>3 DEF Carried, SessionCarries
------------------------------------------------------------------------------
(* One run for a change, and consent *)

\* The steps that write rows, approvals or the automation, and nothing else of these.
LEMMA RunStep ==
    ASSUME [Next]_vars
    PROVE  \/ UNCHANGED <<run, inserted>>
           \/ \E a \in Caller : TriggerInsert(a) \/ ExecuteEnqueue(a)
           \/ \E s \in Session : MarkRunning(s) \/ CompleteRun(s) \/ FailRun(s)
<1>1. ASSUME NEW a \in Caller, NEW c \in Change,
             TriggerRead(a, c) \/ ExecuteRead(a, c)
      PROVE  UNCHANGED <<run, inserted>>
    BY <1>1 DEF TriggerRead, ExecuteRead, ledger
<1>2. ASSUME NEW a \in Caller, ActivateRead(a) \/ ActivateWrite(a) PROVE UNCHANGED <<run, inserted>>
    BY <1>2 DEF ActivateRead, ActivateWrite, ledger
<1>3. ASSUME NEW c \in Change, NEW decision \in {"approved", "rejected"},
             Decide(c, decision) \/ CancelJob(c)
      PROVE  UNCHANGED <<run, inserted>>
    BY <1>3 DEF Decide, CancelJob, ledger
<1>4. ASSUME NEW s \in Session, NEW c \in Change, ClaimJob(s, c) PROVE UNCHANGED <<run, inserted>>
    BY <1>4 DEF ClaimJob, ledger
<1>5. ASSUME NEW s \in Session,
             \/ CheckRun(s) \/ Reconcile(s) \/ FenceExecutions(s) \/ LookupExecution(s)
             \/ InsertExecution(s) \/ ApplyAction(s) \/ FinishExecution(s) \/ CloseJob(s) \/ Crash(s)
      PROVE  UNCHANGED <<run, inserted>>
    BY <1>5 DEF CheckRun, Reconcile, FenceExecutions, LookupExecution, InsertExecution,
                ApplyAction, FinishExecution, CloseJob, Crash, ledger
<1>6. CASE UNCHANGED vars
    BY <1>6 DEF vars, ledger
<1> QED
    BY <1>1, <1>2, <1>3, <1>4, <1>5, <1>6 DEF Next, Operate, Execute

LEMMA OnceNext == Types /\ Once /\ [Next]_vars => Once'
<1> SUFFICES ASSUME Types, Once, [Next]_vars PROVE Once'
    OBVIOUS
<1>1. CASE UNCHANGED <<run, inserted>>
    BY <1>1 DEF Once
<1>2. ASSUME NEW a \in Caller, TriggerInsert(a) PROVE Once'
    BY <1>2 DEF TriggerInsert, Unrecorded, Once, Types, RowTypes
<1>3. ASSUME NEW a \in Caller, ExecuteEnqueue(a) PROVE Once'
    BY <1>3 DEF ExecuteEnqueue, Once, Types, RowTypes
<1>4. ASSUME NEW s \in Session, MarkRunning(s) \/ CompleteRun(s) \/ FailRun(s) PROVE Once'
    BY <1>4 DEF MarkRunning, CompleteRun, FailRun, WriteRun, Once, Types, RowTypes
<1> QED
    BY <1>1, <1>2, <1>3, <1>4, RunStep

\* The steps that write approvals, endorsements or the automation.
LEMMA ApprovalStep ==
    ASSUME [Next]_vars
    PROVE  \/ UNCHANGED <<active, approval, endorsed>>
           \/ \E a \in Caller : TriggerInsert(a) \/ ActivateWrite(a)
           \/ \E c \in Change, decision \in {"approved", "rejected"} : Decide(c, decision)
<1>1. ASSUME NEW a \in Caller, NEW c \in Change, TriggerRead(a, c) \/ ExecuteRead(a, c)
      PROVE  UNCHANGED <<active, approval, endorsed>>
    BY <1>1 DEF TriggerRead, ExecuteRead, ledger
<1>2. ASSUME NEW a \in Caller, ActivateRead(a) \/ ExecuteEnqueue(a)
      PROVE  UNCHANGED <<active, approval, endorsed>>
    BY <1>2 DEF ActivateRead, ExecuteEnqueue, ledger
<1>3. ASSUME NEW c \in Change, CancelJob(c) PROVE UNCHANGED <<active, approval, endorsed>>
    BY <1>3 DEF CancelJob, ledger
<1>4. ASSUME NEW s \in Session, NEW c \in Change, ClaimJob(s, c)
      PROVE  UNCHANGED <<active, approval, endorsed>>
    BY <1>4 DEF ClaimJob, ledger
<1>5. ASSUME NEW s \in Session, Execute(s) \/ Crash(s)
      PROVE  UNCHANGED <<active, approval, endorsed>>
    BY <1>5 DEF Execute, Crash, CheckRun, Reconcile, FenceExecutions, MarkRunning, LookupExecution,
                InsertExecution, ApplyAction, FinishExecution, CompleteRun, FailRun, CloseJob,
                WriteRun, ledger
<1>6. CASE UNCHANGED vars
    BY <1>6 DEF vars, ledger
<1> QED
    BY <1>1, <1>2, <1>3, <1>4, <1>5, <1>6 DEF Next, Operate

\* Endorsements are never taken back.
LEMMA EndorsedGrows == Types /\ [Next]_vars => endorsed \subseteq endorsed'
<1> SUFFICES ASSUME Types, [Next]_vars PROVE endorsed \subseteq endorsed'
    OBVIOUS
<1>1. ASSUME NEW a \in Caller, TriggerInsert(a) \/ ActivateWrite(a) PROVE UNCHANGED endorsed
    BY <1>1 DEF TriggerInsert, ActivateWrite
<1>2. ASSUME NEW c \in Change, NEW decision \in {"approved", "rejected"}, Decide(c, decision)
      PROVE  endorsed \subseteq endorsed'
    BY <1>2 DEF Decide
<1> QED
    BY <1>1, <1>2, ApprovalStep

LEMMA ConsentNext == Types /\ Carried /\ Consent /\ Holding /\ [Next]_vars => Consent'
<1> SUFFICES ASSUME Types, Carried, Consent, Holding, [Next]_vars PROVE Consent'
    OBVIOUS
<1>1. endorsed \subseteq endorsed' /\ \A c : Released(c) => Released(c)'
    BY EndorsedGrows DEF Released
<1>2. active' => endorsed' # {}
  <2>1. ASSUME NEW a \in Caller, TriggerInsert(a) PROVE UNCHANGED active
      BY <2>1 DEF TriggerInsert
  <2>2. ASSUME NEW a \in Caller, ActivateWrite(a) PROVE endorsed # {}
      BY <2>2 DEF ActivateWrite, Consent
  <2>3. ASSUME NEW c \in Change, NEW decision \in {"approved", "rejected"}, Decide(c, decision)
        PROVE  UNCHANGED active
      BY <2>3 DEF Decide
  <2> QED
      BY <1>1, <2>1, <2>2, <2>3, ApprovalStep DEF Consent
<1>3. ASSUME NEW c \in Change, approval'[c] = "approved" PROVE Released(c)'
  <2>1. ASSUME NEW a \in Caller, TriggerInsert(a) PROVE Released(c)'
    <3>1. caller[a].auto /\ caller[a].on = c => AutoPolicy /\ endorsed # {}
        BY <2>1 DEF TriggerInsert, Consent
    <3>2. approval[c] = "approved" \/ (caller[a].auto /\ caller[a].on = c)
        BY <2>1, <1>3 DEF TriggerInsert, Types, RowTypes
    <3> QED
        BY <1>1, <3>1, <3>2 DEF Consent, Released
  <2>2. ASSUME NEW a \in Caller, ActivateWrite(a) PROVE Released(c)'
      BY <1>1, <1>3, <2>2 DEF ActivateWrite, Consent
  <2>3. ASSUME NEW d \in Change, NEW decision \in {"approved", "rejected"}, Decide(d, decision)
        PROVE  Released(c)'
      BY <1>1, <1>3, <2>3 DEF Decide, Consent, Released, Types, RowTypes
  <2>4. CASE UNCHANGED approval
      BY <1>1, <1>3, <2>4 DEF Consent
  <2> QED
      BY <2>1, <2>2, <2>3, <2>4, ApprovalStep
<1>4. ASSUME NEW b \in Caller
      PROVE  /\ caller'[b].at = "activate" => endorsed' # {}
             /\ caller'[b].at = "insert" /\ caller'[b].auto => AutoPolicy /\ endorsed' # {}
  <2>1. CASE caller'[b] = caller[b]
      BY <1>1, <2>1 DEF Consent
  <2>2. CASE caller' = [caller EXCEPT ![b] = Resting]
      BY <2>2 DEF Types, Resting
  <2>3. ASSUME NEW c \in Change,
               caller' = [caller EXCEPT ![b] = [at |-> "insert", on |-> c, auto |-> AutoExecutes(c)]]
        PROVE  caller'[b].at = "insert" /\ (caller'[b].auto => AutoPolicy /\ endorsed # {})
      BY <2>3 DEF Types, AutoExecutes, Consent
  <2>4. ASSUME NEW c \in Change,
               caller' = [caller EXCEPT ![b] = [at |-> "enqueue", on |-> c, auto |-> FALSE]]
        PROVE  caller'[b].at = "enqueue"
      BY <2>4 DEF Types
  <2>5. CASE /\ Trained
             /\ caller' = [caller EXCEPT ![b] = [at |-> "activate", on |-> NoChange, auto |-> FALSE]]
    <3>1. endorsed # {} /\ caller'[b].at = "activate"
        BY <2>5 DEF Types, Trained, Consent, Released
    <3> QED
        BY <1>1, <3>1
  <2>6. ASSUME NEW a \in Caller, CallerGoes(a), a # b PROVE caller'[b] = caller[b]
      BY <2>6 DEF CallerGoes, Types
  <2>7. caller'[b] = caller[b] \/ CallerGoes(b)
      BY <2>6, CallerStep
  <2> QED
      BY <1>1, <2>1, <2>2, <2>3, <2>4, <2>5, <2>7 DEF CallerGoes
<1>5. ASSUME NEW t \in Session, pc'[t] \in UnderWay PROVE Released(work[t])' 
  <2>1. CASE UNCHANGED session
      BY <1>1, <1>5, <2>1 DEF session, Consent, Released
  <2>2. ASSUME NEW s \in Session, NEW c \in Change, ClaimJob(s, c) PROVE Released(work[t])'
    <3>1. t # s /\ pc'[t] = pc[t] /\ work'[t] = work[t]
        BY <1>5, <2>2 DEF ClaimJob, Types, SessionTypes, UnderWay, AtAction
    <3> QED
        BY <1>1, <1>5, <3>1 DEF Consent, Released
  <2>3. ASSUME NEW s \in Session, Moved(s), Execute(s) \/ Crash(s) PROVE Released(work[t])'
    <3>1. CASE t # s
        BY <1>1, <1>5, <2>3, <3>1, OthersStay DEF Consent, Released
    <3>2. CASE t = s /\ pc[t] \in UnderWay
      <4>1. work'[t] = work[t]
          BY <1>5, <2>3, <3>2, SessionGoes DEF UnderWay, AtAction
      <4> QED
          BY <1>1, <3>2, <4>1 DEF Consent, Released
    <3>3. CASE t = s /\ pc[t] \notin UnderWay
      <4>1. pc[t] = "check" /\ pc'[t] \in UnderWay /\ work'[t] = work[t]
          BY <1>5, <2>3, <3>3, SessionGoes DEF UnderWay, AtAction, Before
      <4>2. CheckRun(t) /\ approval[work[t]] = "approved"
          BY <1>5, <2>3, <3>3, <4>1 DEF Execute, Crash, CheckRun, Reconcile, FenceExecutions,
                MarkRunning, LookupExecution, InsertExecution, ApplyAction, FinishExecution,
                CompleteRun, FailRun, CloseJob, Moves, Leave, Executable, UnderWay, AtAction,
                Types, SessionTypes
      <4>3. work[t] \in Change
          BY <4>1 DEF Carried
      <4> QED
          BY <1>1, <4>1, <4>2, <4>3 DEF Consent, Released
    <3> QED
        BY <3>1, <3>2, <3>3
  <2> QED
      BY <2>1, <2>2, <2>3, SessionStep
<1>6. ASSUME NEW k \in Key, exec'[k] # NoExecution PROVE Released(exec[k].by)'
  <2>1. CASE exec'[k] = exec[k]
      BY <1>1, <1>6, <2>1 DEF Consent, Released
  <2>2. ASSUME NEW s \in Session, FenceExecutions(s), exec'[k] # exec[k]
        PROVE  exec[k] # NoExecution /\ exec'[k].by = exec[k].by
      BY <2>2 DEF FenceExecutions, Unfinished, Types, ExecTypes, Execution, NoExecution
  <2>3. ASSUME NEW s \in Session, InsertExecution(s), exec'[k] # exec[k]
        PROVE  Released(work[s]) /\ exec'[k].by = work[s]
      BY <2>3 DEF InsertExecution, Types, ExecTypes, Consent, UnderWay, AtAction
  <2>4. ASSUME NEW s \in Session, ApplyAction(s) PROVE exec'[k] = exec[k]
      BY <2>4 DEF ApplyAction
  <2>5. ASSUME NEW s \in Session, FinishExecution(s), exec'[k] # exec[k]
        PROVE  exec[k] # NoExecution /\ exec'[k].by = exec[k].by
    <3>1. Action(s).key = k
        BY <2>5 DEF FinishExecution, Types, ExecTypes
    <3>2. exec[k] # NoExecution
        BY <2>5, <3>1 DEF FinishExecution, Holding, Past, NoExecution
    <3>3. PICK status \in {"succeeded", "failed"} : exec' = [exec EXCEPT ![k].status = status]
        BY <2>5, <3>1 DEF FinishExecution
    <3> QED
        BY <3>2, <3>3 DEF Types, ExecTypes, Execution
  <2> QED
      BY <1>1, <1>6, <2>1, <2>2, <2>3, <2>4, <2>5, ExecStep DEF Consent, Released
<1> QED
    BY <1>2, <1>3, <1>4, <1>5, <1>6 DEF Consent
------------------------------------------------------------------------------
(* One effect for a key *)

Writes(s) == InsertExecution(s) \/ ApplyAction(s) \/ FinishExecution(s)

Same(t) == pc'[t] = pc[t] /\ work'[t] = work[t] /\ step'[t] = step[t] /\ Action(t)' = Action(t)

\* Only a session that writes comes to stand past an insert, or goes on there.
LEMMA PastStays ==
    ASSUME Types, Carried, [Next]_vars, NEW t \in Session, pc'[t] \in Past, ~Writes(t)
    PROVE  pc[t] \in Past /\ Same(t)
<1>1. CASE UNCHANGED session
    BY <1>1 DEF session, Same, Action
<1>2. ASSUME NEW s \in Session, NEW c \in Change, ClaimJob(s, c) PROVE pc[t] \in Past /\ Same(t)
    BY <1>2 DEF ClaimJob, Same, Action, Types, SessionTypes, Past
<1>3. ASSUME NEW s \in Session, Moved(s), Execute(s) \/ Crash(s), s # t
      PROVE  pc[t] \in Past /\ Same(t)
    BY <1>3, OthersStay DEF Same, Action
<1>4. ASSUME Execute(t) \/ Crash(t) PROVE FALSE
  <2>1. CASE CheckRun(t) \/ Reconcile(t) \/ FenceExecutions(t) \/ MarkRunning(t)
      BY <2>1 DEF CheckRun, Reconcile, FenceExecutions, MarkRunning, Moves, Past, Types, SessionTypes
  <2>2. CASE LookupExecution(t)
      BY <2>2 DEF LookupExecution, Moves, Advances, Past, Types, SessionTypes
  <2>3. CASE CompleteRun(t) \/ FailRun(t) \/ CloseJob(t) \/ Crash(t)
      BY <2>3 DEF CompleteRun, FailRun, CloseJob, Crash, Moves, Leave, Past, Types, SessionTypes
  <2> QED
      BY <1>4, <2>1, <2>2, <2>3 DEF Execute, Writes
<1> QED
    BY <1>1, <1>2, <1>3, <1>4, SessionStep

\* What Holding says of one session.
Holds(t) ==
    pc[t] \in Past =>
        LET x == Action(t)
        IN  /\ exec[x.key].status \in {"running", "failed"} /\ exec[x.key].hash = x.hash
            /\ pc[t] = "effect" => effects[x.key] = 0
            /\ pc[t] = "finish" => effects[x.key] = 1
            /\ \A u \in Session : u # t /\ pc[u] \in Past => Action(u).key # x.key

LEMMA EffectsNext ==
    ASSUME Types, Carried, Holding, Accounted, [Next]_vars
    PROVE  Holding' /\ Accounted'
<1>1. ASSUME \A s \in Session : ~Writes(s) PROVE Holding' /\ Accounted'
  <2>1. \A t \in Session : pc'[t] \in Past => pc[t] \in Past /\ Same(t)
      BY <1>1, PastStays
  <2>2. CASE UNCHANGED <<exec, effects>>
    <3>1. Holding'
        BY <2>1, <2>2 DEF Holding, Same
    <3>2. Accounted'
        BY <2>2 DEF Accounted
    <3> QED
        BY <3>1, <3>2
  <2>3. ASSUME NEW s \in Session, FenceExecutions(s) PROVE Holding' /\ Accounted'
    <3>1. UNCHANGED effects
        BY <2>3 DEF FenceExecutions
    <3>2. \A k \in Key : \/ exec'[k] = exec[k]
                         \/ /\ exec[k].status = "running"
                            /\ exec'[k].status = "failed" /\ exec'[k].hash = exec[k].hash
        BY <2>3 DEF FenceExecutions, Unfinished, Types, ExecTypes, Execution
    <3>3. \A t \in Session : pc[t] \in Past => Action(t).key \in Key
        BY ActionTyped DEF Past, AtAction
    <3>4. Holding'
        BY <2>1, <3>1, <3>2, <3>3 DEF Holding, Same
    <3>5. Accounted'
        BY <3>1, <3>2 DEF Accounted
    <3> QED
        BY <3>4, <3>5
  <2> QED
      BY <1>1, <2>2, <2>3, ExecStep DEF Writes
<1>2. ASSUME NEW s \in Session, Writes(s) PROVE Holding' /\ Accounted'
  <2> DEFINE x == Action(s)
             k == x.key
  <2>1. pc[s] \in AtAction /\ k \in Key /\ x.hash \in Hash
      BY <1>2, ActionTyped DEF Writes, InsertExecution, ApplyAction, FinishExecution, AtAction
  <2>2. \A t \in Session : t # s => pc'[t] = pc[t] /\ Same(t)
    <3>1. Moved(s)
        BY <1>2 DEF Writes, InsertExecution, ApplyAction, FinishExecution, Moved, Steps
    <3> QED
        BY <3>1, OthersStay DEF Same, Action
  <2>3. CASE InsertExecution(s) /\ Insertable(k)
    <3> DEFINE row == [status |-> "running", hash |-> x.hash, by |-> work[s]]
    <3>1. /\ exec' = [exec EXCEPT ![k] = row] /\ UNCHANGED effects
          /\ pc' = [pc EXCEPT ![s] = "effect"] /\ UNCHANGED <<work, step>>
        BY <2>3 DEF InsertExecution, Moves
    <3>2. pc'[s] = "effect" /\ x' = x
        BY <3>1 DEF Types, SessionTypes, Action
    <3>3. exec[k].status = "absent"
        BY <2>3 DEF Insertable, NoExecution
    <3>4. effects[k] = 0
        BY <2>1, <3>3 DEF Accounted, Types, ExecTypes
    <3>5. \A t \in Session : pc[t] \in Past => Action(t).key # k
        BY <3>3 DEF Holding
    <3>6. exec'[k].status = "running" /\ exec'[k].hash = x.hash
          /\ \A j \in Key : j # k => exec'[j] = exec[j]
        BY <2>1, <3>1 DEF Types, ExecTypes
    <3>7. \A t \in Session : pc[t] \in Past => Action(t).key \in Key
        BY ActionTyped DEF Past, AtAction
    <3>8. Holding'
      <4>1. Holds(s)'
          BY <2>2, <3>1, <3>2, <3>4, <3>5, <3>6 DEF Holds, Same
      <4>2. \A t \in Session : t # s => Holds(t)'
          BY <2>2, <3>1, <3>2, <3>5, <3>6, <3>7 DEF Holds, Same, Holding
      <4> QED
          BY <4>1, <4>2 DEF Holding, Holds
    <3>9. Accounted'
        BY <2>1, <3>1, <3>4, <3>6 DEF Accounted
    <3> QED
        BY <3>8, <3>9
  <2>4. CASE InsertExecution(s) /\ ~Insertable(k)
    <3>1. UNCHANGED <<exec, effects>> /\ pc'[s] = "raised"
        BY <2>4 DEF InsertExecution, Moves, Types, SessionTypes
    <3>2. Holding'
        BY <2>2, <3>1 DEF Holding, Same, Past
    <3> QED
        BY <3>1, <3>2 DEF Accounted
  <2>5. CASE ApplyAction(s)
    <3>1. /\ pc[s] = "effect" /\ effects[k] = 0
          /\ exec[k].status \in {"running", "failed"} /\ exec[k].hash = x.hash
          /\ \A t \in Session : t # s /\ pc[t] \in Past => Action(t).key # k
        BY <2>5 DEF ApplyAction, Holding, Past
    <3>2. UNCHANGED <<exec, work, step>> /\ x' = x
        BY <2>5 DEF ApplyAction, Moves, Action
    <3>10. \/ pc'[s] = "finish" /\ effects' = [effects EXCEPT ![k] = effects[k] + 1]
           \/ pc'[s] = "finishFailed" /\ UNCHANGED effects
        BY <2>5 DEF ApplyAction, Moves, Types, SessionTypes
    <3>3. \/ pc'[s] = "finish" /\ effects' = [effects EXCEPT ![k] = 1]
          \/ pc'[s] = "finishFailed" /\ UNCHANGED effects
      <4>1. effects[k] + 1 = 1
          BY <3>1
      <4> QED
          BY <3>10, <4>1
    <3>4. \A j \in Key : j # k => effects'[j] = effects[j]
        BY <3>3 DEF Types, ExecTypes
    <3>5. pc'[s] = "finish" => effects'[k] = 1
        BY <2>1, <3>3 DEF Types, ExecTypes
    <3>6. \A t \in Session : pc[t] \in Past => Action(t).key \in Key
        BY ActionTyped DEF Past, AtAction
    <3>7. Holds(s)'
        BY <2>2, <3>1, <3>2, <3>3, <3>5 DEF Holds, Same
    <3>8. \A t \in Session : t # s => Holds(t)'
        BY <2>2, <3>1, <3>2, <3>4, <3>6 DEF Holds, Same, Holding
    <3>9. Accounted'
        BY <2>1, <3>1, <3>2, <3>3, <3>4 DEF Accounted, Types, ExecTypes
    <3> QED
        BY <3>7, <3>8, <3>9 DEF Holding, Holds
  <2>6. CASE FinishExecution(s)
    <3>1. /\ pc[s] \in {"finish", "finishFailed"} /\ (pc[s] = "finish" => effects[k] = 1)
          /\ exec[k].status \in {"running", "failed"}
          /\ \A t \in Session : t # s /\ pc[t] \in Past => Action(t).key # k
        BY <2>6 DEF FinishExecution, Holding, Past
    <3>2. pc'[s] \notin Past /\ UNCHANGED effects
        BY <2>6 DEF FinishExecution, Moves, Advances, Past, Types, SessionTypes
    <3>3. PICK status \in {"succeeded", "failed"} :
            /\ exec' = [exec EXCEPT ![k].status = status]
            /\ status = "succeeded" => pc[s] = "finish"
        BY <2>6 DEF FinishExecution
    <3>4. /\ exec'[k].status = status
          /\ \A j \in Key : j # k => exec'[j] = exec[j]
        BY <2>1, <3>3 DEF Types, ExecTypes, Execution
    <3>5. \A t \in Session : pc[t] \in Past => Action(t).key \in Key
        BY ActionTyped DEF Past, AtAction
    <3>6. Holding'
        BY <2>2, <3>1, <3>2, <3>4, <3>5 DEF Holding, Same
    <3>7. Accounted'
        BY <3>1, <3>2, <3>3, <3>4 DEF Accounted
    <3> QED
        BY <3>6, <3>7
  <2> QED
      BY <1>2, <2>3, <2>4, <2>5, <2>6 DEF Writes
<1> QED
    BY <1>1, <1>2
------------------------------------------------------------------------------
(* What is recorded as succeeded stays recorded *)

\* Any action of a run is one.
LEMMA OneOfTheActions ==
    ASSUME NEW c \in Change, NEW i \in 1..Len(Actions[c])
    PROVE  Actions[c][i] \in Descriptor /\ Actions[c][i].key \in Key
<1>1. Actions[c] \in Seq(Descriptor)
    BY AutomationAssumption DEF Descriptor
<1>2. Actions[c][i] \in Descriptor
    BY <1>1
<1> QED
    BY <1>2 DEF Descriptor

\* An execution that succeeded is not written any more.
LEMMA SucceededStays ==
    ASSUME Types, Carried, Holding, [Next]_vars, NEW k \in Key, exec[k].status = "succeeded"
    PROVE  exec'[k] = exec[k]
<1>1. ASSUME NEW s \in Session, FenceExecutions(s) PROVE exec'[k] = exec[k]
    BY <1>1 DEF FenceExecutions, Unfinished
<1>2. ASSUME NEW s \in Session, InsertExecution(s) PROVE exec'[k] = exec[k]
    BY <1>2 DEF InsertExecution, Insertable, NoExecution, Types, ExecTypes
<1>3. ASSUME NEW s \in Session, ApplyAction(s) PROVE exec'[k] = exec[k]
    BY <1>3 DEF ApplyAction
<1>4. ASSUME NEW s \in Session, FinishExecution(s) PROVE exec'[k] = exec[k]
  <2>1. Action(s).key # k
      BY <1>4 DEF FinishExecution, Holding, Past
  <2> QED
      BY <1>4, <2>1 DEF FinishExecution, Types, ExecTypes
<1> QED
    BY <1>1, <1>2, <1>3, <1>4, ExecStep

LEMMA AppliedStays ==
    ASSUME Types, Carried, Holding, [Next]_vars, NEW c \in Change, NEW i \in 1..Len(Actions[c]),
           Applied(Actions[c][i])
    PROVE  DoneIn(exec', Actions[c][i])
<1>1. exec'[Actions[c][i].key] = exec[Actions[c][i].key]
    BY OneOfTheActions, SucceededStays DEF Applied, DoneIn
<1> QED
    BY <1>1 DEF Applied, DoneIn

LEMMA AllAppliedStays ==
    ASSUME Types, Carried, Holding, [Next]_vars, NEW c \in Change, AllApplied(c)
    PROVE  AllApplied(c)'
BY AppliedStays DEF AllApplied, Applied

\* A session passes an action it found recorded, or has recorded itself.
LEMMA PassedIsApplied ==
    ASSUME Types, Carried, Holding, NEW s \in Session, Execute(s),
           pc[s] \in {"lookup", "finish"}, step'[s] = step[s] + 1
    PROVE  DoneIn(exec', Actions[work[s]][step[s]])
<1>1. /\ Action(s) = Actions[work[s]][step[s]] /\ Action(s).key \in Key
      /\ step[s] \in Nat
    BY ActionTyped DEF AtAction, Types, SessionTypes
<1>2. LookupExecution(s) \/ FinishExecution(s)
    BY DEF Execute, CheckRun, Reconcile, FenceExecutions, MarkRunning, InsertExecution,
           ApplyAction, CompleteRun, FailRun, CloseJob
<1>3. CASE LookupExecution(s)
  <2>1. Recorded(Action(s)) /\ exec' = exec
      BY <1>1, <1>3 DEF LookupExecution, Moves
  <2> QED
      BY <1>1, <2>1 DEF Recorded, DoneIn
<1>4. CASE FinishExecution(s)
  <2> DEFINE k == Action(s).key
  <2>1. exec' = [exec EXCEPT ![k].status = "succeeded"]
      BY <1>1, <1>4 DEF FinishExecution, Moves
  <2>2. exec[k].hash = Action(s).hash
      BY <1>4 DEF FinishExecution, Holding, Past
  <2>3. exec'[k].status = "succeeded" /\ exec'[k].hash = exec[k].hash
      BY <1>1, <2>1 DEF Types, ExecTypes, Execution
  <2> QED
      BY <1>1, <2>2, <2>3 DEF DoneIn
<1> QED
    BY <1>2, <1>3, <1>4

\* What Progress says of the actions a session has passed.
HasApplied(t) ==
    pc[t] \in AtAction \cup {"complete"} =>
        \A i \in 1..(step[t] - 1) : Applied(Actions[work[t]][i])

\* A session that stays where it was has applied what it had applied.
LEMMA PassedStays ==
    ASSUME Types, Carried, Holding, [Next]_vars, NEW t \in Session, HasApplied(t),
           pc[t] \in AtAction \cup {"complete"}, work'[t] = work[t],
           NEW i \in 1..(step[t] - 1)
    PROVE  DoneIn(exec', Actions[work'[t]][i])
<1>1. work[t] \in Change /\ Len(Actions[work[t]]) \in Nat
      /\ step[t] \in Nat /\ step[t] <= Len(Actions[work[t]]) + 1
    BY SomeAction DEF Carried, AtAction, Types, SessionTypes
<1>2. i \in 1..Len(Actions[work[t]])
    BY <1>1
<1> QED
    BY <1>1, <1>2, AppliedStays DEF HasApplied

LEMMA HasAppliedNext ==
    ASSUME Types, Carried, Holding, [Next]_vars, NEW t \in Session, HasApplied(t)
    PROVE  HasApplied(t)'
<1> SUFFICES ASSUME pc'[t] \in AtAction \cup {"complete"}, NEW i \in 1..(step'[t] - 1)
             PROVE  DoneIn(exec', Actions[work'[t]][i])
    BY DEF HasApplied, Applied
<1>1. CASE pc'[t] = pc[t] /\ work'[t] = work[t] /\ step'[t] = step[t]
    BY <1>1, PassedStays
<1>2. CASE UNCHANGED session
    BY <1>1, <1>2 DEF session
<1>3. ASSUME NEW s \in Session, NEW c \in Change, ClaimJob(s, c)
      PROVE  DoneIn(exec', Actions[work'[t]][i])
    BY <1>1, <1>3 DEF ClaimJob, Types, SessionTypes, AtAction
<1>4. ASSUME NEW s \in Session, Moved(s), Execute(s) \/ Crash(s), s # t
      PROVE  DoneIn(exec', Actions[work'[t]][i])
    BY <1>1, <1>4, OthersStay
<1>5. ASSUME Moved(t), Execute(t) \/ Crash(t) PROVE DoneIn(exec', Actions[work'[t]][i])
  <2>1. CASE work'[t] = work[t] /\ step'[t] = step[t]
    <3>1. CASE pc[t] \in AtAction \cup {"complete"}
        BY <2>1, <3>1, PassedStays
    <3>2. CASE pc[t] \notin AtAction \cup {"complete"}
      <4>1. pc[t] = "mark"
          BY <1>5, <2>1, <3>2, SessionGoes DEF AtAction, Before
      <4>2. step[t] = 1
          BY <4>1 DEF Carried, Before
      <4> QED
          BY <2>1, <4>2
    <3> QED
        BY <3>1, <3>2
  <2>2. CASE /\ pc[t] \in {"lookup", "finish"}
             /\ work'[t] = work[t] /\ step'[t] = step[t] + 1
    <3>1. step[t] \in Nat
        BY DEF Types, SessionTypes
    <3>2. CASE i = step[t]
      <4>1. ~Crash(t)
          BY <3>1, <2>2, <1>5 DEF Crash, Leave, Types, SessionTypes, AtAction
      <4> QED
          BY <1>5, <2>2, <3>2, <4>1, PassedIsApplied
    <3>3. CASE i # step[t]
      <4>1. i \in 1..(step[t] - 1)
          BY <2>2, <3>1, <3>3
      <4> QED
          BY <2>2, <4>1, PassedStays DEF AtAction
    <3> QED
        BY <3>2, <3>3
  <2>3. pc'[t] # "idle"
      BY DEF AtAction
  <2> QED
      BY <1>5, <2>1, <2>2, <2>3, SessionGoes
<1> QED
    BY <1>2, <1>3, <1>4, <1>5, SessionStep

\* A run at its end has applied everything.
LEMMA CompleteIsApplied ==
    ASSUME Types, Carried, Progress, NEW s \in Session, pc[s] = "complete"
    PROVE  work[s] \in Change /\ AllApplied(work[s])
<1>1. work[s] \in Change /\ Len(Actions[work[s]]) \in Nat
      /\ step[s] = Len(Actions[work[s]]) + 1
    BY SomeAction DEF Carried
<1>2. \A i \in 1..(step[s] - 1) : Applied(Actions[work[s]][i])
    BY DEF Progress
<1>3. step[s] - 1 = Len(Actions[work[s]])
    BY <1>1
<1> QED
    BY <1>1, <1>2, <1>3 DEF AllApplied

\* Only the close of a job writes how it ended.
LEMMA OutcomeStep ==
    ASSUME [Next]_vars
    PROVE  UNCHANGED outcome \/ \E s \in Session : CloseJob(s)
<1>1. ASSUME Operate PROVE UNCHANGED outcome
    BY <1>1 DEF Operate, TriggerRead, ExecuteRead, TriggerInsert, ActivateRead, ActivateWrite,
                ExecuteEnqueue, Decide, CancelJob, Calls, Done
<1>2. ASSUME NEW s \in Session, NEW c \in Change, ClaimJob(s, c) PROVE UNCHANGED outcome
    BY <1>2 DEF ClaimJob
<1>3. ASSUME NEW s \in Session, Execute(s) \/ Crash(s), ~CloseJob(s) PROVE UNCHANGED outcome
    BY <1>3 DEF Execute, Crash, CheckRun, Reconcile, FenceExecutions, MarkRunning,
                LookupExecution, InsertExecution, ApplyAction, FinishExecution, CompleteRun, FailRun
<1>4. CASE UNCHANGED vars
    BY <1>4 DEF vars
<1> QED
    BY <1>1, <1>2, <1>3, <1>4 DEF Next

LEMMA ProgressNext == Types /\ Carried /\ Holding /\ Progress /\ [Next]_vars => Progress'
<1> SUFFICES ASSUME Types, Carried, Holding, Progress, [Next]_vars PROVE Progress'
    OBVIOUS
<1>1. \A t \in Session : HasApplied(t)'
    BY HasAppliedNext DEF Progress, HasApplied
<1>2. ASSUME NEW t \in Session, pc'[t] = "succeed" PROVE AllApplied(work[t])'
  <2>1. CASE pc[t] = "succeed" /\ work'[t] = work[t]
    <3>1. work[t] \in Change /\ AllApplied(work[t])
        BY <2>1 DEF Carried, Progress
    <3> QED
        BY <2>1, <3>1, AllAppliedStays DEF AllApplied
  <2>2. CASE UNCHANGED session
      BY <1>2, <2>1, <2>2 DEF session
  <2>3. ASSUME NEW s \in Session, NEW c \in Change, ClaimJob(s, c) PROVE AllApplied(work[t])'
      BY <1>2, <2>1, <2>3 DEF ClaimJob, Types, SessionTypes
  <2>4. ASSUME NEW s \in Session, Moved(s), Execute(s) \/ Crash(s), s # t
        PROVE  AllApplied(work[t])'
      BY <1>2, <2>1, <2>4, OthersStay
  <2>5. ASSUME Moved(t), Execute(t) \/ Crash(t) PROVE AllApplied(work[t])'
    <3>1. /\ work'[t] = work[t]
          /\ pc[t] = "complete" \/ (pc[t] = "check" /\ run[work[t]] = "completed")
        BY <1>2, <2>5, SessionGoes DEF Before
    <3>2. work[t] \in Change /\ AllApplied(work[t])
        BY <3>1, CompleteIsApplied DEF Carried, Progress
    <3> QED
        BY <3>1, <3>2, AllAppliedStays DEF AllApplied
  <2> QED
      BY <2>2, <2>3, <2>4, <2>5, SessionStep
<1>3. ASSUME NEW c \in Change, run'[c] = "completed" PROVE AllApplied(c)'
  <2>1. CASE run[c] = "completed"
      BY <2>1, AllAppliedStays DEF Progress
  <2>2. ASSUME NEW a \in Caller, TriggerInsert(a) \/ ExecuteEnqueue(a) PROVE run[c] = "completed"
      BY <1>3, <2>2 DEF TriggerInsert, ExecuteEnqueue, Types, RowTypes
  <2>3. ASSUME NEW s \in Session, MarkRunning(s) \/ CompleteRun(s) \/ FailRun(s),
               run[c] # "completed"
        PROVE  AllApplied(c)'
    <3>1. pc[s] = "complete" /\ work[s] = c
        BY <1>3, <2>3 DEF MarkRunning, CompleteRun, FailRun, WriteRun, Types, RowTypes
    <3> QED
        BY <3>1, CompleteIsApplied, AllAppliedStays
  <2> QED
      BY <1>3, <2>1, <2>2, <2>3, RunStep
<1>4. ASSUME NEW c \in Change, outcome'[c] = "succeeded" PROVE AllApplied(c)'
  <2>1. CASE outcome[c] = "succeeded"
      BY <2>1, AllAppliedStays DEF Progress
  <2>2. ASSUME NEW s \in Session, CloseJob(s), outcome[c] # "succeeded" PROVE AllApplied(c)'
    <3>1. pc[s] = "succeed" /\ work[s] = c
        BY <1>4, <2>2 DEF CloseJob, Types, RowTypes
    <3>2. AllApplied(c)
        BY <3>1 DEF Progress
    <3> QED
        BY <3>2, AllAppliedStays
  <2> QED
      BY <1>4, <2>1, <2>2, OutcomeStep
<1> QED
    BY <1>1, <1>2, <1>3, <1>4 DEF Progress, HasApplied
------------------------------------------------------------------------------
(* The theorems *)

LEMMA InvNext == Inv /\ [Next]_vars => Inv'
BY TypesNext, CarriedNext, OnceNext, ConsentNext, EffectsNext, ProgressNext DEF Inv

\* Whatever callers trigger and people decide, and however sessions overlap, lose their job
\* and crash in between, the rows, executions and sessions stay in the states Inv describes.
THEOREM Invariance == Spec => []Inv
<1>1. Inv /\ UNCHANGED vars => Inv'
    BY InvNext
<1> QED
    BY InvInit, InvNext, PTL DEF Spec

\* A change has one run, and a job of it that is reported as succeeded had every action of
\* the run applied once and recorded under its own descriptor (trigger_automations,
\* execute_automation_job).
THEOREM OneRunIsAppliedHolds == Spec => []OneRunIsApplied
<1>1. Inv => OneRunPerChange
    BY DEF Inv, Once, OneRunPerChange
<1>2. Inv => SuccessIsApplied
  <2> SUFFICES ASSUME Inv, NEW c \in Change, outcome[c] = "succeeded",
                      NEW i \in 1..Len(Actions[c])
               PROVE  /\ exec[Actions[c][i].key].status = "succeeded"
                      /\ exec[Actions[c][i].key].hash = Actions[c][i].hash
                      /\ effects[Actions[c][i].key] = 1
      BY DEF SuccessIsApplied
  <2>1. Applied(Actions[c][i])
      BY DEF Inv, Progress, AllApplied
  <2> QED
      BY <2>1, OneOfTheActions DEF Inv, Accounted, Applied, DoneIn
<1> QED
    BY <1>1, <1>2, Invariance, PTL DEF OneRunIsApplied

\* Nothing is applied before a person has approved a run of the automation, and outside the
\* auto policy nothing before a person has approved the run that applies it
\* (activate_automation, execute_approved_automation_run).
THEOREM AppliedAfterApprovalHolds == Spec => []AppliedAfterApproval
<1>1. Inv => AppliedAfterApproval
    BY DEF Inv, Accounted, Consent, Released, NoExecution, AppliedAfterApproval
<1> QED
    BY <1>1, Invariance, PTL
------------------------------------------------------------------------------
(* The contract of the effects                                             *)

\* Whatever keeps the contract applies nothing twice or without permission, and reports
\* nothing it did not do.
THEOREM ContractIsKept == ActionsKeepContract => []Contract!Kept
<1> DEFINE permitted == UNION {KeysOf[c] : c \in {c \in Change : Released(c)}}
           told == {k \in Key : exec[k].status = "succeeded"}
           K == /\ effects \in [Key -> {0, 1}]
                /\ \A k \in Key : effects[k] = 1 => k \in permitted
                /\ \A k \in Key : k \in told => effects[k] = 1
<1> HIDE DEF permitted, told
<1>1. Contract!Init => K
    BY DEF Contract!Init, permitted, told
<1>2. K /\ [Contract!Next]_(Contract!evars) => K'
  <2> SUFFICES ASSUME K, [Contract!Next]_(Contract!evars) PROVE K'
      OBVIOUS
  <2>1. CASE Contract!Permit
      BY <2>1 DEF Contract!Permit, permitted, told
  <2>2. ASSUME NEW k \in Key, Contract!Perform(k) PROVE K'
      BY <2>2 DEF Contract!Perform, permitted, told
  <2>3. ASSUME NEW k \in Key, Contract!Tell(k) PROVE K'
      BY <2>3 DEF Contract!Tell, permitted, told
  <2>4. CASE UNCHANGED Contract!evars
      BY <2>4 DEF Contract!evars, permitted, told
  <2> QED
      BY <2>1, <2>2, <2>3, <2>4 DEF Contract!Next
<1>3. K => Contract!Kept
    BY DEF Contract!Kept, permitted, told
<1> QED
    BY <1>1, <1>2, <1>3, PTL DEF ActionsKeepContract, Contract!Spec

\* The keys of a session that stands at an action may be applied, once its run is released.
LEMMA AtPermitted ==
    ASSUME Types, Carried, Consent, NEW s \in Session, pc[s] \in AtAction
    PROVE  Action(s).key \in UNION {KeysOf[c] : c \in {c \in Change : Released(c)}}
<1>1. /\ work[s] \in Change /\ step[s] \in 1..Len(Actions[work[s]])
      /\ Action(s) = Actions[work[s]][step[s]]
    BY ActionTyped
<1>2. Action(s).key \in KeysOf[work[s]]
    BY <1>1 DEF KeysOf
<1>3. Released(work[s])
    BY DEF Consent, UnderWay
<1> QED
    BY <1>1, <1>2, <1>3

\* Releasing a run permits keys and takes none back.
LEMMA PermittedGrows ==
    ASSUME Types, [Next]_vars
    PROVE  /\ UNION {KeysOf[c] : c \in {c \in Change : Released(c)}}
                \subseteq UNION {KeysOf[c] : c \in {c \in Change : Released(c)'}}
           /\ UNION {KeysOf[c] : c \in {c \in Change : Released(c)'}} \in SUBSET Key
<1>1. endorsed \subseteq endorsed'
    BY EndorsedGrows
<1>2. \A c \in Change : Released(c) => Released(c)'
    BY <1>1 DEF Released
<1>3. \A c \in Change : KeysOf[c] \subseteq Key
    BY OneOfTheActions DEF KeysOf
<1> QED
    BY <1>2, <1>3

\* A step that writes no execution, or fences some, records no success.
LEMMA NothingTold ==
    ASSUME Types, NEW s \in Session, FenceExecutions(s)
    PROVE  \A k \in Key : exec'[k].status = "succeeded" <=> exec[k].status = "succeeded"
BY DEF FenceExecutions, Unfinished, Types, ExecTypes, Execution

\* Every step of the automation is one of the contract, or none.
LEMMA ContractStep ==
    ASSUME Types, Carried, Consent, Holding, Types', [Next]_vars
    PROVE  [Contract!Next]_(Contract!evars)
<1> DEFINE permitted == UNION {KeysOf[c] : c \in {c \in Change : Released(c)}}
           told == {k \in Key : exec[k].status = "succeeded"}
<1>1. permitted \subseteq permitted' /\ permitted' \in SUBSET Key
    BY PermittedGrows
<1>2. UNCHANGED endorsed => UNCHANGED permitted
    BY DEF Released
<1>3. \A s \in Session : Writes(s) => UNCHANGED endorsed
    BY DEF Writes, InsertExecution, ApplyAction, FinishExecution, ledger
<1>4. \A s \in Session : pc[s] \in AtAction => Action(s).key \in Key /\ Action(s).key \in permitted
    BY ActionTyped, AtPermitted
<1> HIDE DEF permitted
<1>5. CASE effects' = effects /\ told' = told
    BY <1>1, <1>5 DEF Contract!Next, Contract!Permit, permitted, told
<1>6. CASE UNCHANGED <<exec, effects>>
    BY <1>5, <1>6 DEF told
<1>7. ASSUME NEW s \in Session, FenceExecutions(s) PROVE [Contract!Next]_(Contract!evars)
  <2>1. UNCHANGED effects
      BY <1>7 DEF FenceExecutions
  <2>2. told' = told
      BY <1>7, NothingTold DEF told
  <2> QED
      BY <1>5, <2>1, <2>2
<1>8. ASSUME NEW s \in Session, NEW k \in Key, k = Action(s).key, Writes(s)
      PROVE  [Contract!Next]_(Contract!evars)
  <2>1. pc[s] \in AtAction /\ k \in permitted /\ UNCHANGED permitted
      BY <1>2, <1>3, <1>4, <1>8
         DEF Writes, InsertExecution, ApplyAction, FinishExecution, AtAction
  <2>2. CASE InsertExecution(s)
    <3>1. UNCHANGED effects
        BY <1>8, <2>2 DEF InsertExecution
    <3>2. \A j \in Key : exec'[j].status = "succeeded" <=> exec[j].status = "succeeded"
        BY <1>8, <2>1, <2>2 DEF InsertExecution, Insertable, NoExecution, Types, ExecTypes
    <3>3. told' = told
        BY <3>2 DEF told
    <3> QED
        BY <1>5, <3>1, <3>3
  <2>3. CASE ApplyAction(s)
    <3>1. effects[k] = 0 /\ UNCHANGED exec
        BY <1>8, <2>3 DEF ApplyAction, Holding, Past
    <3>2. effects' = [effects EXCEPT ![k] = effects[k] + 1] \/ UNCHANGED effects
        BY <1>8, <2>3 DEF ApplyAction
    <3>3. told' = told
        BY <3>1 DEF told
    <3>4. effects' = [effects EXCEPT ![k] = 1] => Contract!Perform(k)
        BY <2>1, <3>1, <3>3 DEF Contract!Perform, permitted, told
    <3>5. effects[k] + 1 = 1
        BY <3>1
    <3>6. effects' = [effects EXCEPT ![k] = 1] \/ UNCHANGED effects
        BY <3>2, <3>5
    <3> QED
        BY <1>5, <2>1, <3>3, <3>4, <3>6 DEF Contract!Next
  <2>4. CASE FinishExecution(s)
    <3>1. /\ pc[s] = "finish" => effects[k] = 1
          /\ exec[k].status \in {"running", "failed"} /\ UNCHANGED effects
        BY <1>8, <2>4 DEF FinishExecution, Holding, Past
    <3>2. PICK status \in {"succeeded", "failed"} :
            /\ exec' = [exec EXCEPT ![k].status = status]
            /\ status = "succeeded" => pc[s] = "finish"
        BY <1>8, <2>4 DEF FinishExecution
    <3>3. exec'[k].status = status /\ \A j \in Key : j # k => exec'[j] = exec[j]
        BY <2>1, <3>2 DEF Types, ExecTypes, Execution
    <3>4. ASSUME status = "succeeded" PROVE Contract!Tell(k)
      <4>1. told' = told \cup {k}
          BY <2>1, <3>3, <3>4 DEF told
      <4>2. effects[k] = 1 /\ UNCHANGED effects /\ UNCHANGED permitted
          BY <2>1, <3>1, <3>2, <3>4
      <4> QED
          BY <4>1, <4>2 DEF Contract!Tell, permitted, told
    <3>5. ASSUME status = "failed" PROVE told' = told
        BY <2>1, <3>1, <3>3, <3>5 DEF told
    <3> QED
        BY <1>5, <2>1, <3>1, <3>4, <3>5 DEF Contract!Next
  <2> QED
      BY <1>8, <2>2, <2>3, <2>4 DEF Writes
<1>9. ASSUME NEW s \in Session, Writes(s) PROVE [Contract!Next]_(Contract!evars)
  <2>1. Action(s).key \in Key
      BY <1>4, <1>9 DEF Writes, InsertExecution, ApplyAction, FinishExecution, AtAction
  <2> QED
      BY <1>8, <1>9, <2>1
<1> QED
    BY <1>6, <1>7, <1>9, ExecStep DEF Writes

\* Every behaviour of the automation keeps the contract: an action is applied once, by a run
\* that was released, and recorded as succeeded only once it was applied, whoever triggers
\* the run and whichever sessions execute it (_execute_automation_actions).
THEOREM ActionsKeepContractHolds == Spec => ActionsKeepContract
<1>1. Init => Contract!Init
  <2> SUFFICES ASSUME Init PROVE Contract!Init
      OBVIOUS
  <2>1. \A c \in Change : ~Released(c)
      BY DEF Init, Released
  <2>2. UNION {KeysOf[c] : c \in {c \in Change : Released(c)}} = {}
      BY <2>1
  <2>3. {k \in Key : exec[k].status = "succeeded"} = {}
      BY DEF Init, NoExecution
  <2> QED
      BY <2>2, <2>3 DEF Init, Contract!Init
<1>2. Inv /\ Inv' /\ [Next]_vars => [Contract!Next]_(Contract!evars)
    BY ContractStep DEF Inv
<1> QED
    BY <1>1, <1>2, Invariance, PTL DEF Spec, ActionsKeepContract, Contract!Spec
==============================================================================
