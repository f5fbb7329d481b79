------------------------------- MODULE AgentRun -------------------------------
(***************************************************************************)
(* Approved agent actions from task to effect: the HTTP server starts runs *)
(* (services/agent_ops_execution.py) and enqueues their agent.run jobs,    *)
(* workers execute them (services/worker.py) through the reversible action *)
(* executor (services/reversible_actions.py).                              *)
(*                                                                         *)
(* The job of a task is used through JobContract, which JobLedger          *)
(* implements: a worker holds it under a ticket, may lose it while it is   *)
(* still at work, and closes it if its ticket is the latest.  The handler  *)
(* itself is fenced by nothing but the rows it reads, so it is one step    *)
(* per transaction.  agents.status, the queue items and the trace rows,    *)
(* which no step reads, are left out.                                      *)
(***************************************************************************)
EXTENDS Integers, FiniteSets

CONSTANTS
    Task, NoTask,   \* agent tasks with an action descriptor
    Run, NoRun,     \* ids of agent runs
    Key, KeyOf,     \* idempotency keys of actions; KeyOf[t]: the key of t's descriptor
    Session,        \* executions of run_one_job that may overlap
    MaxExpiries,    \* bound: leases lost by a session that is still at work
    MaxCrashes      \* bound: crashes of sessions and of the server

AgentRunAssumption ==
    /\ NoTask \notin Task /\ NoRun \notin Run
    /\ KeyOf \in [Task -> Key]
    /\ MaxExpiries \in Nat /\ MaxCrashes \in Nat

VARIABLES
    task, approval,         \* agent_tasks.status, and the status of the task's approval
    runTask, run,           \* agent_runs: task and status
    output, error,          \* the run has a row in run_outputs, in run_errors
    exec,                   \* agent_action_executions: status by idempotency key
    phase, ticket, spent, verdict,  \* the job of each task, as JobContract has it
    jobRun, outcome,        \* the run in the job's payload; how a session closed the job
    server,                 \* the HTTP server: [pc, task, run]
    pc, work, mine,         \* sessions: step, task of the job, ticket
    effects,                \* effects[k]: times the action of key k was applied
    expiries, crashes

ledger == <<task, approval, runTask, run, output, error>>
job == <<phase, ticket, spent, verdict>>
session == <<pc, work, mine>>
vars == <<ledger, exec, job, jobRun, outcome, server, session, effects, expiries, crashes>>

Queue == INSTANCE JobContract WITH Job <- Task

Resting == [pc |-> "idle", task |-> NoTask, run |-> NoRun]

TypeOK ==
    /\ task \in [Task -> {"queued", "running", "completed", "failed"}]
    /\ approval \in [Task -> {"approved", "rejected"}]
    /\ runTask \in [Run -> Task \cup {NoTask}]
    /\ run \in [Run -> {"absent", "running", "completed", "failed"}]
    /\ output \in [Run -> BOOLEAN] /\ error \in [Run -> BOOLEAN]
    /\ exec \in [Key -> {"absent", "running", "succeeded", "failed"}]
    /\ phase \in [Task -> Queue!Phases]
    /\ spent \subseteq Nat
    /\ ticket \in [Task -> {0} \cup spent] /\ verdict \in [Task -> {0} \cup spent]
    /\ jobRun \in [Task -> Run \cup {NoRun}]
    /\ outcome \in [Task -> {"open", "succeeded", "failed"}]
    /\ server \in [pc: {"idle", "start", "enqueue", "complete"}, task: Task \cup {NoTask},
                   run: Run \cup {NoRun}]
    /\ pc \in [Session -> {"idle", "check", "lookup", "insert", "trace", "effect", "finish",
                           "finishFailed", "report", "read", "complete", "succeed",
                           "raised", "fail", "failJob"}]
    /\ work \in [Session -> Task \cup {NoTask}]
    /\ mine \in [Session -> {0} \cup spent]
    /\ effects \in [Key -> Nat]
    /\ expiries \in 0..MaxExpiries /\ crashes \in 0..MaxCrashes

\* Every task is as enqueue_task leaves it, and approved.
Init ==
    /\ task = [t \in Task |-> "queued"]
    /\ approval = [t \in Task |-> "approved"]
    /\ runTask = [r \in Run |-> NoTask]
    /\ run = [r \in Run |-> "absent"]
    /\ output = [r \in Run |-> FALSE]
    /\ error = [r \in Run |-> FALSE]
    /\ exec = [k \in Key |-> "absent"]
    /\ Queue!Init
    /\ jobRun = [t \in Task |-> NoRun]
    /\ outcome = [t \in Task |-> "open"]
    /\ server = Resting
    /\ pc = [s \in Session |-> "idle"]
    /\ work = [s \in Session |-> NoTask]
    /\ mine = [s \in Session |-> 0]
    /\ effects = [k \in Key |-> 0]
    /\ expiries = 0
    /\ crashes = 0
------------------------------------------------------------------------------
(* What complete_run and fail_run write, each in one transaction.          *)

\* run_outputs holds one row per run; a second one is refused with the whole write.
WriteCompleted(r) ==
    \/ /\ ~output[r]
       /\ output' = [output EXCEPT ![r] = TRUE]
       /\ run' = [run EXCEPT ![r] = "completed"]
       /\ task' = [task EXCEPT ![runTask[r]] = "completed"]
    \/ /\ output[r]
       /\ UNCHANGED <<output, run, task>>

FailedStatus == "failed"

\* run_errors holds one row per run, too.
WriteFailed(r) ==
    \/ /\ ~error[r]
       /\ error' = [error EXCEPT ![r] = TRUE]
       /\ run' = [run EXCEPT ![r] = FailedStatus]
       /\ task' = [task EXCEPT ![runTask[r]] = FailedStatus]
    \/ /\ error[r]
       /\ UNCHANGED <<error, run, task>>
------------------------------------------------------------------------------
(* The HTTP server: one request at a time.                                 *)

\* Mutant: the status of the task is not looked at.
StartableWhenApproved(t) == approval[t] = "approved"

\* The task is queued and its descriptor approved.
Startable(t) == task[t] = "queued" /\ approval[t] = "approved"

StartRead(t) ==
    /\ server = Resting
    /\ Startable(t)
    /\ server' = [pc |-> "start", task |-> t, run |-> NoRun]
    /\ UNCHANGED <<ledger, exec, job, jobRun, outcome, session, effects, expiries, crashes>>

\* The run, its task and its queue item, in one transaction.
StartWrite(r) ==
    /\ server.pc = "start"
    /\ run[r] = "absent"
    /\ run' = [run EXCEPT ![r] = "running"]
    /\ runTask' = [runTask EXCEPT ![r] = server.task]
    /\ task' = [task EXCEPT ![server.task] = "running"]
    /\ server' = [server EXCEPT !.pc = "enqueue", !.run = r]
    /\ UNCHANGED <<approval, output, error, exec, job, jobRun, outcome, session, effects,
                   expiries, crashes>>

\* The job, in a transaction of its own, under the key agent-action:<task>; a job of
\* that key for another run makes enqueue_job raise.
StartEnqueue ==
    /\ server.pc = "enqueue"
    /\ \/ /\ Queue!Submit(server.task)
          /\ jobRun' = [jobRun EXCEPT ![server.task] = server.run]
       \/ /\ phase[server.task] # "absent"
          /\ UNCHANGED <<job, jobRun>>
    /\ server' = Resting
    /\ UNCHANGED <<ledger, exec, outcome, session, effects, expiries, crashes>>

\* POST /agents/runs/complete reads the run ...
ServerRead(r) ==
    /\ server = Resting
    /\ run[r] = "running"
    /\ server' = [pc |-> "complete", task |-> NoTask, run |-> r]
    /\ UNCHANGED <<ledger, exec, job, jobRun, outcome, session, effects, expiries, crashes>>

\* ... and completes it.
ServerComplete ==
    /\ server.pc = "complete"
    /\ WriteCompleted(server.run)
    /\ server' = Resting
    /\ UNCHANGED <<approval, runTask, error, exec, job, jobRun, outcome, session, effects,
                   expiries, crashes>>

ServerCrash ==
    /\ server # Resting
    /\ crashes < MaxCrashes
    /\ crashes' = crashes + 1
    /\ server' = Resting
    /\ UNCHANGED <<ledger, exec, job, jobRun, outcome, session, effects, expiries>>

\* Decisions that were read as pending together are written over one another.
Overturn(t) ==
    /\ approval' = [approval EXCEPT ![t] = IF @ = "approved" THEN "rejected" ELSE "approved"]
    /\ UNCHANGED <<task, runTask, run, output, error, exec, job, jobRun, outcome, server,
                   session, effects, expiries, crashes>>

\* POST /jobs/cancel withdraws the job and leaves the run alone.
CancelJob(t) ==
    /\ Queue!Withdraw(t)
    /\ UNCHANGED <<ledger, exec, jobRun, outcome, server, session, effects, expiries, crashes>>
------------------------------------------------------------------------------
(* Sessions: claiming the job and executing the action.                    *)

\* A waiting job, one whose session died, or one whose lease ran out under its session.
Grantable(t) ==
    \/ phase[t] = "waiting"
    \/ phase[t] = "held" /\ ((\A s \in Session : mine[s] # ticket[t]) \/ expiries < MaxExpiries)

ClaimJob(s, t) ==
    /\ pc[s] = "idle"
    /\ Grantable(t)
    /\ ticket' = [ticket EXCEPT ![t] = Cardinality(spent) + 1]
    /\ Queue!Grant(t)
    /\ expiries' = IF \E o \in Session : mine[o] # 0 /\ mine[o] = ticket[t]
                   THEN expiries + 1 ELSE expiries
    /\ pc' = [pc EXCEPT ![s] = "check"]
    /\ work' = [work EXCEPT ![s] = t]
    /\ mine' = [mine EXCEPT ![s] = ticket'[t]]
    /\ UNCHANGED <<ledger, exec, jobRun, outcome, server, effects, crashes>>

\* A step of session s that changes nothing but where it stands.
Moves(s, to) ==
    /\ pc' = [pc EXCEPT ![s] = to]
    /\ UNCHANGED <<work, mine, jobRun, server, expiries, crashes>>

Running(s) == run[jobRun[work[s]]] = "running"
ActionKey(s) == KeyOf[work[s]]

\* execute() reads the run and validates the approved descriptor, unless the principal of
\* the job has lost the right to run agents.
CheckRun(s) ==
    /\ pc[s] = "check"
    /\ \/ Running(s) /\ approval[work[s]] = "approved" /\ Moves(s, "lookup")
       \/ Moves(s, "raised")
    /\ UNCHANGED <<ledger, exec, job, outcome, effects>>

\* Mutant: an execution under way counts as done.
RecordedWhileRunning(k) == exec[k] \in {"running", "succeeded"}

\* The recorded result of the key is returned instead of executing again.
Recorded(k) == exec[k] = "succeeded"

\* _begin_execution looks the key up: done before, to be done, or blocked.
LookupExecution(s) ==
    LET k == ActionKey(s)
    IN  /\ pc[s] = "lookup"
        /\ \/ Recorded(k) /\ Moves(s, "read")
           \/ exec[k] = "absent" /\ Moves(s, "insert")
           \/ ~Recorded(k) /\ exec[k] # "absent" /\ Moves(s, "raised")
        /\ UNCHANGED <<ledger, exec, job, outcome, effects>>

\* Mutant: the insert replaces a row of the same key.
InsertableAlways(k) == TRUE

\* idx_agent_action_executions_idempotency: one execution per key.
Insertable(k) == exec[k] = "absent"

InsertExecution(s) ==
    LET k == ActionKey(s)
    IN  /\ pc[s] = "insert"
        /\ \/ /\ Insertable(k)
              /\ exec' = [exec EXCEPT ![k] = "running"]
              /\ Moves(s, "trace")
           \/ /\ ~Insertable(k)
              /\ UNCHANGED exec
              /\ Moves(s, "raised")
        /\ UNCHANGED <<ledger, job, outcome, effects>>

\* record_trace refuses a run that is not running; the execution stays as it is.
TraceStart(s) ==
    /\ pc[s] = "trace"
    /\ Moves(s, IF Running(s) THEN "effect" ELSE "raised")
    /\ UNCHANGED <<ledger, exec, job, outcome, effects>>

\* _execute_canonical: the action is applied, or raises before it is.
ApplyAction(s) ==
    /\ pc[s] = "effect"
    /\ \/ /\ effects' = [effects EXCEPT ![ActionKey(s)] = @ + 1]
          /\ Moves(s, "finish")
       \/ /\ UNCHANGED effects
          /\ Moves(s, "finishFailed")
    /\ UNCHANGED <<ledger, exec, job, outcome>>

\* _finish_execution, by the id of the execution.
FinishExecution(s) ==
    /\ \/ /\ pc[s] = "finish"
          /\ exec' = [exec EXCEPT ![ActionKey(s)] = "succeeded"]
          /\ Moves(s, "report")
       \/ /\ pc[s] = "finishFailed"
          /\ exec' = [exec EXCEPT ![ActionKey(s)] = "failed"]
          /\ Moves(s, "raised")
    /\ UNCHANGED <<ledger, job, outcome, effects>>

\* The audit row, and the second trace, which again wants a running run.
TraceEnd(s) ==
    /\ pc[s] = "report"
    /\ Moves(s, IF Running(s) THEN "read" ELSE "raised")
    /\ UNCHANGED <<ledger, exec, job, outcome, effects>>
------------------------------------------------------------------------------
(* Sessions: ending the run and the job.                                   *)

\* complete_run reads the run ...
ReadForComplete(s) ==
    /\ pc[s] = "read"
    /\ Moves(s, IF Running(s) THEN "complete" ELSE "raised")
    /\ UNCHANGED <<ledger, exec, job, outcome, effects>>

\* ... and writes the outcome.
CompleteRun(s) ==
    /\ pc[s] = "complete"
    /\ WriteCompleted(jobRun[work[s]])
    /\ Moves(s, IF output[jobRun[work[s]]] THEN "raised" ELSE "succeed")
    /\ UNCHANGED <<approval, runTask, error, exec, job, outcome, effects>>

Leave(s) ==
    /\ pc' = [pc EXCEPT ![s] = "idle"]
    /\ work' = [work EXCEPT ![s] = NoTask]
    /\ mine' = [mine EXCEPT ![s] = 0]
    /\ UNCHANGED <<jobRun, server, expiries, crashes>>

\* succeed_job, which raises when the ticket is stale.
SucceedJob(s) ==
    /\ pc[s] = "succeed"
    /\ \/ /\ ticket[work[s]] = mine[s]
          /\ Queue!Close(work[s])
          /\ outcome' = [outcome EXCEPT ![work[s]] = "succeeded"]
          /\ Leave(s)
       \/ /\ ticket[work[s]] # mine[s]
          /\ Moves(s, "raised")
          /\ UNCHANGED <<job, outcome>>
    /\ UNCHANGED <<ledger, exec, effects>>

\* Mutant: the run is left as it is when the handler raises.
ToFailNever(s) == FALSE

\* The handler raised: a run still running is to be failed.
ToFail(s) == Running(s)

\* fail_run reads the run; its own refusal is swallowed ...
ReadForFail(s) ==
    /\ pc[s] = "raised"
    /\ Moves(s, IF ToFail(s) THEN "fail" ELSE "failJob")
    /\ UNCHANGED <<ledger, exec, job, outcome, effects>>

\* ... and writes the failure.
FailRun(s) ==
    /\ pc[s] = "fail"
    /\ WriteFailed(jobRun[work[s]])
    /\ Moves(s, "failJob")
    /\ UNCHANGED <<approval, runTask, output, exec, job, outcome, effects>>

\* fail_job without retry closes the job; with a stale ticket it raises out of the worker.
FailJob(s) ==
    /\ pc[s] = "failJob"
    /\ \/ /\ ticket[work[s]] = mine[s]
          /\ Queue!Close(work[s])
          /\ outcome' = [outcome EXCEPT ![work[s]] = "failed"]
       \/ /\ ticket[work[s]] # mine[s]
          /\ UNCHANGED <<job, outcome>>
    /\ Leave(s)
    /\ UNCHANGED <<ledger, exec, effects>>

Crash(s) ==
    /\ pc[s] # "idle"
    /\ crashes < MaxCrashes
    /\ crashes' = crashes + 1
    /\ pc' = [pc EXCEPT ![s] = "idle"]
    /\ work' = [work EXCEPT ![s] = NoTask]
    /\ mine' = [mine EXCEPT ![s] = 0]
    /\ UNCHANGED <<ledger, exec, job, jobRun, outcome, server, effects, expiries>>
------------------------------------------------------------------------------
Execute(s) ==
    \/ CheckRun(s)
    \/ LookupExecution(s)
    \/ InsertExecution(s)
    \/ TraceStart(s)
    \/ ApplyAction(s)
    \/ FinishExecution(s)
    \/ TraceEnd(s)

Conclude(s) ==
    \/ ReadForComplete(s)
    \/ CompleteRun(s)
    \/ SucceedJob(s)
    \/ ReadForFail(s)
    \/ FailRun(s)
    \/ FailJob(s)

ServerStep ==
    \/ \E t \in Task : StartRead(t)
    \/ \E r \in Run : StartWrite(r) \/ ServerRead(r)
    \/ StartEnqueue
    \/ ServerComplete

Next ==
    \/ ServerStep
    \/ ServerCrash
    \/ \E t \in Task : Overturn(t) \/ CancelJob(t)
    \/ \E s \in Session :
          \/ \E t \in Task : ClaimJob(s, t)
          \/ Execute(s)
          \/ Conclude(s)
          \/ Crash(s)

Spec == Init /\ [][Next]_vars

------------------------------------------------------------------------------
(* Properties.                                                             *)

\* A job reported as succeeded stands for an action that was applied and recorded.
SuccessIsRecorded ==
    \A t \in Task : outcome[t] = "succeeded" =>
        exec[KeyOf[t]] = "succeeded" /\ effects[KeyOf[t]] = 1

\* An execution that succeeded or failed keeps that result: same-key executions replay
\* it or are refused.
ExecutionIsFinal ==
    [][\A k \in Key : exec[k] \in {"succeeded", "failed"} => exec'[k] = exec[k]]_vars

\* A session that closed the job left no running run behind, whether it applied the
\* action, was refused, or lost a race.
ClosedJobEndsRun ==
    \A t \in Task : outcome[t] # "open" => run[jobRun[t]] # "running"

\* One task has one run, also when the server dies between the run and its job.
OneRunPerTask ==
    \A r, q \in Run : runTask[r] = runTask[q] /\ runTask[r] # NoTask => r = q

\* What EffectContract knows of the actions: a key is permitted once a run of an approved
\* task with that key was started, and done once its execution is recorded as succeeded.
Permitted == {KeyOf[runTask[r]] : r \in {r \in Run : runTask[r] # NoTask}}
Told == {k \in Key : exec[k] = "succeeded"}

------------------------------------------------------------------------------
(* Promises of the documentation, a test or an error message that the      *)
(* code does not keep: TLC refutes each of them.                           *)

\* "running agent run required": complete_run and fail_run end running runs only.
EndedRunIsFinal ==
    [][\A r \in Run : run[r] \in {"completed", "failed"} => run'[r] = run[r]]_vars

\* "active executions block parallel replay": an execution that is said to be running
\* is being executed by somebody.
RunningIsActive ==
    \A k \in Key : exec[k] = "running" =>
        \E s \in Session : work[s] # NoTask /\ KeyOf[work[s]] = k
===============================================================================
