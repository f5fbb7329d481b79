------------------------------ MODULE Automation ------------------------------
(***************************************************************************)
(* One automation from trigger to local effect                             *)
(* (services/agent_ops_automations.py): a trigger that matches records one *)
(* run per change, a person approves it or the active automation approves  *)
(* itself, the run gets one automation.execute job, and a worker applies   *)
(* the actions of the run one by one.                                      *)
(*                                                                         *)
(* The job of a change is used through JobContract, as in AgentRun.  A     *)
(* caller is a process with a connection of its own that serves triggers   *)
(* and operator requests; its lookups are autocommitted reads, so each     *)
(* write comes a step after the read it relies on.                         *)
(***************************************************************************)
EXTENDS Integers, FiniteSets, Sequences

CONSTANTS
    Change, NoChange,   \* fingerprints of the changes that match the trigger
    Key, Hash,          \* idempotency keys and descriptor hashes of actions
    Actions,            \* Actions[c]: the descriptors of c's run, <<>> if c is blocked
    AutoPolicy,         \* the approval policy of the automation is auto
    Caller,             \* processes that trigger, approve and activate
    Session,            \* executions of run_one_job that may overlap
    MaxExpiries,        \* bound: leases lost by a session that is still at work
    MaxCrashes          \* bound: crashes of sessions

ASSUME AutomationAssumption ==
    /\ NoChange \notin Change
    /\ Actions \in [Change -> Seq([key: Key, hash: Hash])]
    /\ AutoPolicy \in BOOLEAN
    /\ MaxExpiries \in Nat /\ MaxCrashes \in Nat

VARIABLES
    active,                 \* automations.status is active, not training
    run,                    \* automation_runs.status by change fingerprint
    approval,               \* status of the run's approval request
    inserted,               \* inserted[c]: rows of automation_runs written for c
    endorsed,               \* changes whose run a person has approved
    phase, ticket, spent, verdict,  \* the job of each change, as JobContract has it
    outcome,                \* how a session closed the job
    exec,                   \* automation_action_executions by idempotency key
    effects,                \* effects[k]: times an action of key k was applied
    caller,                 \* callers: [at, on, auto]
    pc, work, mine, step,   \* sessions: step, change, ticket, index of the action
    expiries, crashes

ledger == <<active, run, approval, inserted, endorsed>>
job == <<phase, ticket, spent, verdict>>
session == <<pc, work, mine, step>>
bounds == <<expiries, crashes>>
vars == <<ledger, job, outcome, exec, effects, caller, session, bounds>>

Queue == INSTANCE JobContract WITH Job <- Change

Resting == [at |-> "idle", on |-> NoChange, auto |-> FALSE]
NoExecution == [status |-> "absent", hash |-> "none", by |-> NoChange]

TypeOK ==
    /\ active \in BOOLEAN
    /\ run \in [Change -> {"absent", "waiting_approval", "queued", "running",
                           "completed", "failed"}]
    /\ approval \in [Change -> {"absent", "pending", "approved", "rejected"}]
    /\ inserted \in [Change -> Nat]
    /\ endorsed \subseteq Change
    /\ phase \in [Change -> Queue!Phases]
    /\ spent \subseteq Nat
    /\ ticket \in [Change -> {0} \cup spent] /\ verdict \in [Change -> {0} \cup spent]
    /\ outcome \in [Change -> {"open", "succeeded", "failed"}]
    /\ exec \in [Key -> [status: {"absent", "running", "succeeded", "failed"},
                         hash: Hash \cup {"none"}, by: Change \cup {NoChange}]]
    /\ effects \in [Key -> Nat]
    /\ caller \in [Caller -> [at: {"idle", "insert", "enqueue", "activate"},
                              on: Change \cup {NoChange}, auto: BOOLEAN]]
    /\ pc \in [Session -> {"idle", "check", "reconcile", "fence", "mark", "lookup", "insert",
                           "effect", "finish", "finishFailed", "complete", "succeed",
                           "raised", "failJob"}]
    /\ work \in [Session -> Change \cup {NoChange}]
    /\ mine \in [Session -> {0} \cup spent]
    /\ step \in [Session -> Nat]
    /\ expiries \in 0..MaxExpiries /\ crashes \in 0..MaxCrashes

\* The automation is as create_automation leaves it.
Init ==
    /\ active = FALSE
    /\ run = [c \in Change |-> "absent"]
    /\ approval = [c \in Change |-> "absent"]
    /\ inserted = [c \in Change |-> 0]
    /\ endorsed = {}
    /\ Queue!Init
    /\ outcome = [c \in Change |-> "open"]
    /\ exec = [k \in Key |-> NoExecution]
    /\ effects = [k \in Key |-> 0]
    /\ caller = [a \in Caller |-> Resting]
    /\ pc = [s \in Session |-> "idle"]
    /\ work = [s \in Session |-> NoChange]
    /\ mine = [s \in Session |-> 0]
    /\ step = [s \in Session |-> 0]
    /\ expiries = 0
    /\ crashes = 0
------------------------------------------------------------------------------
(* Callers: triggers, decisions, activation and the queueing of a run.     *)

Calls(a, at, c, auto) ==
    /\ caller' = [caller EXCEPT ![a] = [at |-> at, on |-> c, auto |-> auto]]
    /\ UNCHANGED <<exec, effects, outcome, session, bounds>>

Done(a) ==
    /\ caller' = [caller EXCEPT ![a] = Resting]
    /\ UNCHANGED <<exec, effects, outcome, session, bounds>>

\* The automation is active, approves for itself, and the change is not blocked.
AutoExecutes(c) == active /\ AutoPolicy /\ Actions[c] # <<>>

\* trigger_automations reads the automation and looks the fingerprint up ...
TriggerRead(a, c) ==
    /\ caller[a] = Resting
    /\ run[c] = "absent"
    /\ Calls(a, "insert", c, AutoExecutes(c))
    /\ UNCHANGED <<ledger, job>>

\* Mutant: neither the second lookup nor the unique index.
UnrecordedAlways(c) == TRUE

\* The lookup is repeated inside BEGIN IMMEDIATE, and the index is unique.
Unrecorded(c) == run[c] = "absent"

\* ... and records approval, run and, for an automatic run, its job in one transaction.
TriggerInsert(a) ==
    LET c == caller[a].on
    IN  /\ caller[a].at = "insert"
        /\ \/ /\ Unrecorded(c)
              /\ inserted' = [inserted EXCEPT ![c] = @ + 1]
              /\ \/ /\ caller[a].auto
                    /\ approval' = [approval EXCEPT ![c] = "approved"]
                    /\ run' = [run EXCEPT ![c] = "queued"]
                    /\ Queue!Submit(c)
                 \/ /\ ~caller[a].auto
                    /\ approval' = [approval EXCEPT ![c] = "pending"]
                    /\ run' = [run EXCEPT ![c] = "waiting_approval"]
                    /\ UNCHANGED job
           \/ /\ ~Unrecorded(c)
              /\ UNCHANGED <<inserted, approval, run, job>>
        /\ Done(a)
        /\ UNCHANGED <<active, endorsed>>

\* A person decides.  The status is read before it is written by id, so decisions that were
\* read as pending together are written over one another; the approval an automation gives
\* itself never was pending.
Decide(c, decision) ==
    /\ approval[c] \notin {"absent", decision}
    /\ approval[c] = "approved" => c \in endorsed
    /\ approval' = [approval EXCEPT ![c] = decision]
    /\ endorsed' = IF decision = "approved" THEN endorsed \cup {c} ELSE endorsed
    /\ UNCHANGED <<active, run, inserted, job, outcome, exec, effects, caller, session, bounds>>

\* Mutant: any recorded run will do.
TrainedWhenRecorded == \E c \in Change : approval[c] # "absent"

\* "automation needs an approved training run before activation"
Trained == \E c \in Change : approval[c] = "approved"

ActivateRead(a) ==
    /\ caller[a] = Resting
    /\ ~active
    /\ Trained
    /\ Calls(a, "activate", NoChange, FALSE)
    /\ UNCHANGED <<ledger, job>>

ActivateWrite(a) ==
    /\ caller[a].at = "activate"
    /\ active' = TRUE
    /\ Done(a)
    /\ UNCHANGED <<run, approval, inserted, endorsed, job>>

\* execute_approved_automation_run reads the run and its approval ...
ExecuteRead(a, c) ==
    /\ caller[a] = Resting
    /\ approval[c] = "approved"
    /\ run[c] = "waiting_approval"
    /\ Actions[c] # <<>>
    /\ Calls(a, "enqueue", c, FALSE)
    /\ UNCHANGED <<ledger, job>>

\* ... and enqueues the job, which attach_job ties to the run in the same transaction: the
\* repair of the run after it finds nothing to do.  A job of the same key is returned, or
\* refused by its unique index when it came after the lookup.
ExecuteEnqueue(a) ==
    LET c == caller[a].on
    IN  /\ caller[a].at = "enqueue"
        /\ \/ /\ Queue!Submit(c)
              /\ run' = [run EXCEPT ![c] = "queued"]
           \/ /\ phase[c] # "absent"
              /\ UNCHANGED <<run, job>>
        /\ Done(a)
        /\ UNCHANGED <<active, approval, inserted, endorsed>>

\* POST /jobs/cancel withdraws the job and leaves the run alone.
CancelJob(c) ==
    /\ Queue!Withdraw(c)
    /\ UNCHANGED <<ledger, outcome, exec, effects, caller, session, bounds>>
------------------------------------------------------------------------------
(* Sessions: claiming the job and applying the actions of the run.         *)

\* A waiting job, one whose session died, or one whose lease ran out under its session.
Grantable(c) ==
    \/ phase[c] = "waiting"
    \/ phase[c] = "held" /\ ((\A s \in Session : mine[s] # ticket[c]) \/ expiries < MaxExpiries)

ClaimJob(s, c) ==
    /\ pc[s] = "idle"
    /\ Grantable(c)
    /\ ticket' = [ticket EXCEPT ![c] = Cardinality(spent) + 1]
    /\ Queue!Grant(c)
    /\ expiries' = IF \E o \in Session : mine[o] # 0 /\ mine[o] = ticket[c]
                   THEN expiries + 1 ELSE expiries
    /\ pc' = [pc EXCEPT ![s] = "check"]
    /\ work' = [work EXCEPT ![s] = c]
    /\ mine' = [mine EXCEPT ![s] = ticket'[c]]
    /\ step' = [step EXCEPT ![s] = 1]
    /\ UNCHANGED <<ledger, outcome, exec, effects, caller, crashes>>

\* Session s goes on at another step, with the action its index names.
Moves(s, to) ==
    /\ pc' = [pc EXCEPT ![s] = to]
    /\ UNCHANGED <<work, mine, step, caller, bounds>>

\* Session s is through with its action: to the next one, or to the end of the run.
Advances(s) ==
    /\ step' = [step EXCEPT ![s] = @ + 1]
    /\ pc' = [pc EXCEPT ![s] = IF step[s] < Len(Actions[work[s]]) THEN "lookup" ELSE "complete"]
    /\ UNCHANGED <<work, mine, caller, bounds>>

Action(s) == Actions[work[s]][step[s]]

\* The run may be executed under its approval.
Executable(c) == run[c] \in {"queued", "running"} /\ approval[c] = "approved"

\* execute_automation_job validates the run before it opens its try; the principal may
\* have lost its rights, too.
CheckRun(s) ==
    /\ pc[s] = "check"
    /\ \/ Executable(work[s]) /\ Moves(s, "reconcile")
       \/ run[work[s]] = "completed" /\ approval[work[s]] = "approved" /\ Moves(s, "succeed")
       \/ Moves(s, "failJob")
    /\ UNCHANGED <<ledger, job, outcome, exec, effects>>

Unfinished(c) == {k \in Key : exec[k].by = c /\ exec[k].status = "running"}

\* _reconcile_stale_automation_action_executions looks for running executions of the run.
\* A first attempt finds none, so the exception for it never applies.
Reconcile(s) ==
    /\ pc[s] = "reconcile"
    /\ Moves(s, IF Unfinished(work[s]) = {} THEN "mark" ELSE "fence")
    /\ UNCHANGED <<ledger, job, outcome, exec, effects>>

\* They are marked as failed, also those that came after the lookup.
FenceExecutions(s) ==
    /\ pc[s] = "fence"
    /\ exec' = [k \in Key |-> IF k \in Unfinished(work[s])
                              THEN [exec[k] EXCEPT !.status = "failed"] ELSE exec[k]]
    /\ Moves(s, "mark")
    /\ UNCHANGED <<ledger, job, outcome, effects>>

WriteRun(s, status) ==
    /\ run' = [run EXCEPT ![work[s]] = status]
    /\ UNCHANGED <<active, approval, inserted, endorsed>>

MarkRunning(s) ==
    /\ pc[s] = "mark"
    /\ WriteRun(s, "running")
    /\ Moves(s, "lookup")
    /\ UNCHANGED <<job, outcome, exec, effects>>

\* Mutant: the key alone identifies the action.
RecordedUnderKey(x) == exec[x.key].status = "succeeded"

\* The key stands for this action, and the action was done.
Recorded(x) == exec[x.key].status = "succeeded" /\ exec[x.key].hash = x.hash

\* The descriptor is validated again (which may raise), and its key is looked up.
LookupExecution(s) ==
    /\ pc[s] = "lookup"
    /\ \/ Recorded(Action(s)) /\ Advances(s)
       \/ exec[Action(s).key] = NoExecution /\ Moves(s, "insert")
       \/ Moves(s, "raised")
    /\ UNCHANGED <<ledger, job, outcome, exec, effects>>

\* Mutant: the insert replaces an execution that is not finished.
InsertableAgain(k) == exec[k].status # "succeeded"

\* idx_automation_action_executions_idempotency: one execution per key.
Insertable(k) == exec[k] = NoExecution

InsertExecution(s) ==
    LET x == Action(s)
    IN  /\ pc[s] = "insert"
        /\ \/ /\ Insertable(x.key)
              /\ exec' = [exec EXCEPT ![x.key] =
                             [status |-> "running", hash |-> x.hash, by |-> work[s]]]
              /\ Moves(s, "effect")
           \/ /\ ~Insertable(x.key)
              /\ UNCHANGED exec
              /\ Moves(s, "raised")
        /\ UNCHANGED <<ledger, job, outcome, effects>>

\* The canonical action is applied, or raises before it is.
ApplyAction(s) ==
    /\ pc[s] = "effect"
    /\ \/ /\ effects' = [effects EXCEPT ![Action(s).key] = @ + 1]
          /\ Moves(s, "finish")
       \/ /\ UNCHANGED effects
          /\ Moves(s, "finishFailed")
    /\ UNCHANGED <<ledger, job, outcome, exec>>

\* The outcome is written by the id of the execution, whatever its status is by now.
FinishExecution(s) ==
    LET k == Action(s).key
    IN  /\ \/ /\ pc[s] = "finish"
              /\ exec' = [exec EXCEPT ![k].status = "succeeded"]
              /\ Advances(s)
           \/ /\ pc[s] = "finishFailed"
              /\ exec' = [exec EXCEPT ![k].status = "failed"]
              /\ Moves(s, "raised")
        /\ UNCHANGED <<ledger, job, outcome, effects>>
------------------------------------------------------------------------------
(* Sessions: ending the run and the job.                                   *)

CompleteRun(s) ==
    /\ pc[s] = "complete"
    /\ WriteRun(s, "completed")
    /\ Moves(s, "succeed")
    /\ UNCHANGED <<job, outcome, exec, effects>>

FailRun(s) ==
    /\ pc[s] = "raised"
    /\ WriteRun(s, "failed")
    /\ Moves(s, "failJob")
    /\ UNCHANGED <<job, outcome, exec, effects>>

Leave(s) ==
    /\ pc' = [pc EXCEPT ![s] = "idle"]
    /\ work' = [work EXCEPT ![s] = NoChange]
    /\ mine' = [mine EXCEPT ![s] = 0]
    /\ step' = [step EXCEPT ![s] = 0]

\* succeed_job and fail_job without retry close the job; with a stale ticket both raise.
CloseJob(s) ==
    /\ pc[s] \in {"succeed", "failJob"}
    /\ \/ /\ ticket[work[s]] = mine[s]
          /\ Queue!Close(work[s])
          /\ outcome' = [outcome EXCEPT ![work[s]] =
                            IF pc[s] = "succeed" THEN "succeeded" ELSE "failed"]
       \/ /\ ticket[work[s]] # mine[s]
          /\ UNCHANGED <<job, outcome>>
    /\ Leave(s)
    /\ UNCHANGED <<ledger, exec, effects, caller, bounds>>

Crash(s) ==
    /\ pc[s] # "idle"
    /\ crashes < MaxCrashes
    /\ crashes' = crashes + 1
    /\ Leave(s)
    /\ UNCHANGED <<ledger, job, outcome, exec, effects, caller, expiries>>
------------------------------------------------------------------------------
Operate ==
    \/ \E a \in Caller :
          \/ \E c \in Change : TriggerRead(a, c) \/ ExecuteRead(a, c)
          \/ TriggerInsert(a)
          \/ ActivateRead(a)
          \/ ActivateWrite(a)
          \/ ExecuteEnqueue(a)
    \/ \E c \in Change :
          \/ \E decision \in {"approved", "rejected"} : Decide(c, decision)
          \/ CancelJob(c)

Execute(s) ==
    \/ CheckRun(s)
    \/ Reconcile(s)
    \/ FenceExecutions(s)
    \/ MarkRunning(s)
    \/ LookupExecution(s)
    \/ InsertExecution(s)
    \/ ApplyAction(s)
    \/ FinishExecution(s)
    \/ CompleteRun(s)
    \/ FailRun(s)
    \/ CloseJob(s)

Next ==
    \/ Operate
    \/ \E s \in Session :
          \/ \E c \in Change : ClaimJob(s, c)
          \/ Execute(s)
          \/ Crash(s)

Spec == Init /\ [][Next]_vars

------------------------------------------------------------------------------
(* Properties.                                                             *)

\* Repeated and simultaneous triggers of one change record one run.
OneRunPerChange == \A c \in Change : inserted[c] <= 1

\* A person has approved a run of the automation, and outside the auto policy that of c.
Released(c) == endorsed # {} /\ (AutoPolicy \/ c \in endorsed)

\* The keys of the actions of each run.
KeysOf == [c \in Change |-> {Actions[c][i].key : i \in 1..Len(Actions[c])}]

\* What EffectContract knows of the actions: a key is permitted once a run that has an
\* action of this key is released, and done once its execution is recorded as succeeded.
Contract == INSTANCE EffectContract WITH
    Effect <- Key,
    permitted <- UNION {KeysOf[c] : c \in {c \in Change : Released(c)}},
    times <- effects,
    told <- {k \in Key : exec[k].status = "succeeded"}

\* The actions keep the contract: the action of a key is applied once, by a run that was
\* released, and recorded as succeeded only once it was applied, although its outcome is
\* written without asking whether the job was reclaimed or the execution fenced meanwhile.
ActionsKeepContract == Contract!Spec

\* A job is reported as succeeded only if every action of its run, and no other action
\* under the same key, was applied and recorded, by this run or by an earlier one.
SuccessIsApplied ==
    \A c \in Change : outcome[c] = "succeeded" =>
        \A i \in 1..Len(Actions[c]) :
            LET x == Actions[c][i]
            IN  /\ exec[x.key].status = "succeeded"
                /\ exec[x.key].hash = x.hash
                /\ effects[x.key] = 1

\* A change has one run, and a success reported for it stands for all its actions.
OneRunIsApplied == OneRunPerChange /\ SuccessIsApplied

\* Nothing is applied before a person has approved a run of the automation, and outside
\* the auto policy nothing before a person has approved the very run that applies it.
AppliedAfterApproval ==
    \A k \in Key : effects[k] > 0 => Released(exec[k].by)

------------------------------------------------------------------------------
(* Promises of the documentation, a test or an error message that the      *)
(* code does not keep: TLC refutes each of them.                           *)

\* "stale running automation action fenced after job lease recovery": an execution
\* marked as failed stays so.
FencedIsFinal ==
    [][\A k \in Key : exec[k].status = "failed" => exec'[k].status = "failed"]_vars

\* What a session reports as the end of a run is not taken back by a stale one.
SuccessKeepsRunCompleted ==
    \A c \in Change : outcome[c] = "succeeded" => run[c] = "completed"
===============================================================================
