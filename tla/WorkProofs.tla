------------------------------ MODULE WorkProofs ------------------------------
(***************************************************************************)
(* Proofs about the approved actions of agent runs and about workflow runs *)
(* (MCWork), for any number of tasks, runs, keys, stages and callers.      *)
(*                                                                         *)
(* Agent runs: a session that lost its job goes on, but it can only come to*)
(* the effect through the one insert of its key, and only the session that *)
(* made the insert writes what became of it.  A run that has ended never   *)
(* runs again, because each end leaves a row that refuses the next.        *)
(*                                                                         *)
(* Workflow runs: as long as a caller is not stale, what it checked about  *)
(* its stage when it read still holds when it commits.  Sound says so for  *)
(* each operation.                                                         *)
(***************************************************************************)
EXTENDS MCWork, TLAPS

\* Where a session has the execution of its key to itself, and where it was recorded.
Past == {"trace", "effect", "finish", "finishFailed"}
After == {"report", "read", "complete", "succeed"}
Ends == {"completed", "failed"}
Steps == {"idle", "check", "lookup", "insert", "trace", "effect", "finish", "finishFailed",
          "report", "read", "complete", "succeed", "raised", "fail", "failJob"}

KeyAt(s) == KeyOf[work[s]]

\* The parts of Agent!TypeOK that the arguments need.
RunTypes ==
    /\ task \in [Task -> {"queued", "running", "completed", "failed"}]
    /\ runTask \in [Run -> Task \cup {NoTask}]
    /\ agentRun \in [Run -> {"absent", "running", "completed", "failed"}]
    /\ output \in [Run -> BOOLEAN] /\ error \in [Run -> BOOLEAN]
JobTypes ==
    /\ phase \in [Task -> Agent!Queue!Phases]
    /\ jobRun \in [Task -> Run \cup {NoRun}]
    /\ outcome \in [Task -> {"open", "succeeded", "failed"}]
ServerTypes ==
    server \in [pc: {"idle", "start", "enqueue", "complete"}, task: Task \cup {NoTask},
                run: Run \cup {NoRun}]
ExecTypes ==
    /\ exec \in [Key -> {"absent", "running", "succeeded", "failed"}]
    /\ effects \in [Key -> Nat]
SessionTypes == pc \in [Session -> Steps] /\ work \in [Session -> Task \cup {NoTask}]
Types == RunTypes /\ JobTypes /\ ServerTypes /\ ExecTypes /\ SessionTypes

\* Whoever acts for a task or a run acts for one that is there.
Errands ==
    /\ server.pc \in {"start", "enqueue"} => server.task \in Task
    /\ server.pc \in {"enqueue", "complete"} =>
            server.run \in Run /\ agentRun[server.run] # "absent"
    /\ \A t \in Task :
        /\ phase[t] # "absent" => jobRun[t] \in Run /\ agentRun[jobRun[t]] # "absent"
        /\ outcome[t] # "open" => phase[t] # "absent"
    /\ \A s \in Session : pc[s] # "idle" => work[s] \in Task /\ phase[work[s]] # "absent"

\* A queued task has no run yet, also while the server is about to start one.
OneRun ==
    /\ \A r \in Run : agentRun[r] = "absent" <=> runTask[r] = NoTask
    /\ \A r \in Run : runTask[r] # NoTask => task[runTask[r]] # "queued"
    /\ server.pc = "start" => task[server.task] = "queued"
    /\ Agent!OneRunPerTask

\* The run in the payload of a job is a run of its task.
Assigned ==
    /\ server.pc = "enqueue" => runTask[server.run] = server.task
    /\ \A t \in Task : phase[t] # "absent" => runTask[jobRun[t]] = t

\* What ended a run left its row, and who closes a job, or has closed it, saw the end.
Ended ==
    /\ \A r \in Run : output[r] \/ error[r] => agentRun[r] \in Ends
    /\ \A s \in Session : pc[s] \in {"succeed", "failJob"} => agentRun[jobRun[work[s]]] \in Ends
    /\ \A t \in Task : outcome[t] # "open" => agentRun[jobRun[t]] \in Ends

\* A session past the insert holds the row of its key, alone, and knows whether it was applied.
Holding ==
    \A s \in Session : pc[s] \in Past =>
        /\ exec[KeyAt(s)] = "running"
        /\ effects[KeyAt(s)] = IF pc[s] = "finish" THEN 1 ELSE 0
        /\ \A t \in Session : t # s /\ pc[t] \in Past => KeyAt(t) # KeyAt(s)

\* What was applied has a row, and a row that says succeeded was applied.
Accounted ==
    \A k \in Key :
        /\ effects[k] <= 1
        /\ effects[k] > 0 => exec[k] # "absent"
        /\ exec[k] = "succeeded" => effects[k] = 1

\* Whoever reports a success, or has reported it, found it recorded.
Recorded ==
    /\ \A s \in Session : pc[s] \in After => exec[KeyAt(s)] = "succeeded"
    /\ \A t \in Task : outcome[t] = "succeeded" => exec[KeyOf[t]] = "succeeded"

Inv == Types /\ Errands /\ OneRun /\ Assigned /\ Ended /\ Holding /\ Accounted /\ Recorded
------------------------------------------------------------------------------
(* What a step of the agents does, part of the state by part of the state *)

LEMMA InvInit == Agent!Init => Inv
<1> SUFFICES ASSUME Agent!Init PROVE Inv
    OBVIOUS
<1>1. Types
    BY DEF Agent!Init, Agent!Queue!Init, Agent!Queue!Phases, Agent!Resting, Types, RunTypes,
           JobTypes, ServerTypes, ExecTypes, SessionTypes, Steps
<1>2. Errands /\ Assigned /\ Ended /\ Holding /\ Accounted /\ Recorded
    BY AgentAssumption DEF Agent!Init, Agent!Queue!Init, Agent!Resting, Errands, Assigned, Ended,
           Holding, Accounted, Recorded, Past, After, Agent!AgentRunAssumption
<1>3. OneRun
    BY DEF Agent!Init, Agent!Resting, OneRun, Agent!OneRunPerTask
<1> QED
    BY <1>1, <1>2, <1>3 DEF Inv

\* Run r ends, and leaves a row behind; or it had a row already, and nothing is written.
RunEnds(r) ==
    \/ UNCHANGED <<task, runTask, agentRun, output, error>>
    \/ \E end \in Ends :
          /\ agentRun' = [agentRun EXCEPT ![r] = end]
          /\ task' = [task EXCEPT ![runTask[r]] = end]
          /\ \/ output' = [output EXCEPT ![r] = TRUE] /\ UNCHANGED error
             \/ error' = [error EXCEPT ![r] = TRUE] /\ UNCHANGED output
          /\ UNCHANGED runTask

LEMMA RunStep ==
    ASSUME Types, Errands, [Agent!Next]_AgentVars
    PROVE  \/ UNCHANGED <<task, runTask, agentRun, output, error>>
           \/ \E r \in Run : Agent!StartWrite(r)
           \/ \E r \in Run : agentRun[r] # "absent" /\ RunEnds(r)
<1>1. CASE Agent!ServerComplete
    BY <1>1 DEF Agent!ServerComplete, Agent!WriteCompleted, RunEnds, Ends, Errands
<1>2. ASSUME NEW s \in Session, Agent!CompleteRun(s) \/ Agent!FailRun(s)
      PROVE  \E r \in Run : agentRun[r] # "absent" /\ RunEnds(r)
  <2>1. jobRun[work[s]] \in Run /\ agentRun[jobRun[work[s]]] # "absent"
      BY <1>2 DEF Agent!CompleteRun, Agent!FailRun, Errands
  <2>2. RunEnds(jobRun[work[s]])
      BY <1>2 DEF Agent!CompleteRun, Agent!FailRun, Agent!WriteCompleted, Agent!WriteFailed,
                  Agent!FailedStatus, RunEnds, Ends
  <2> QED
      BY <2>1, <2>2
<1>3. ASSUME Agent!StartEnqueue \/ Agent!ServerCrash
             \/ (\E t \in Task : Agent!StartRead(t) \/ Agent!Overturn(t) \/ Agent!CancelJob(t))
             \/ (\E r \in Run : Agent!ServerRead(r))
      PROVE  UNCHANGED <<task, runTask, agentRun, output, error>>
    BY <1>3 DEF Agent!StartEnqueue, Agent!ServerCrash, Agent!StartRead, Agent!Overturn,
                Agent!CancelJob, Agent!ServerRead, Agent!ledger
<1>4. ASSUME NEW s \in Session, Agent!Execute(s) \/ Agent!Crash(s)
             \/ \E t \in Task : Agent!ClaimJob(s, t)
      PROVE  UNCHANGED <<task, runTask, agentRun, output, error>>
    BY <1>4 DEF Agent!Execute, Agent!Crash, Agent!ClaimJob, Agent!CheckRun,
                Agent!LookupExecution, Agent!InsertExecution, Agent!TraceStart,
                Agent!ApplyAction, Agent!FinishExecution, Agent!TraceEnd, Agent!ledger
<1>5. ASSUME NEW s \in Session, Agent!Conclude(s), ~Agent!CompleteRun(s), ~Agent!FailRun(s)
      PROVE  UNCHANGED <<task, runTask, agentRun, output, error>>
    BY <1>5 DEF Agent!Conclude, Agent!ReadForComplete, Agent!SucceedJob, Agent!ReadForFail,
                Agent!FailJob, Agent!ledger
<1>6. CASE UNCHANGED AgentVars
    BY <1>6 DEF AgentVars
<1> QED
    BY <1>1, <1>2, <1>3, <1>4, <1>5, <1>6 DEF Agent!Next, Agent!ServerStep

\* Session s closes the job it holds, and reports a success or a failure.
Closes(s) ==
    /\ pc[s] \in {"succeed", "failJob"} /\ phase[work[s]] = "held"
    /\ phase' = [phase EXCEPT ![work[s]] = "closed"]
    /\ outcome' = [outcome EXCEPT ![work[s]] =
                      IF pc[s] = "succeed" THEN "succeeded" ELSE "failed"]
    /\ UNCHANGED jobRun

LEMMA JobStep ==
    ASSUME [Agent!Next]_AgentVars
    PROVE  \/ UNCHANGED <<phase, jobRun, outcome>>
           \/ /\ server.pc = "enqueue" /\ phase[server.task] = "absent"
              /\ phase' = [phase EXCEPT ![server.task] = "waiting"]
              /\ jobRun' = [jobRun EXCEPT ![server.task] = server.run]
              /\ UNCHANGED outcome
           \/ \E t \in Task, to \in {"held", "closed"} :
                 /\ phase[t] # "absent" /\ phase' = [phase EXCEPT ![t] = to]
                 /\ UNCHANGED <<jobRun, outcome>>
           \/ \E s \in Session : Closes(s)
<1>1. ASSUME NEW t \in Task, Agent!CancelJob(t) \/ (\E s \in Session : Agent!ClaimJob(s, t))
      PROVE  \E to \in {"held", "closed"} :
                 /\ phase[t] # "absent" /\ phase' = [phase EXCEPT ![t] = to]
                 /\ UNCHANGED <<jobRun, outcome>>
    BY <1>1 DEF Agent!CancelJob, Agent!ClaimJob, Agent!Queue!Withdraw, Agent!Queue!Grant
<1>2. ASSUME NEW s \in Session, Agent!SucceedJob(s) \/ Agent!FailJob(s)
      PROVE  UNCHANGED <<phase, jobRun, outcome>> \/ Closes(s)
    BY <1>2 DEF Agent!SucceedJob, Agent!FailJob, Agent!Queue!Close, Agent!Leave, Agent!Moves,
                Agent!job, Closes
<1>3. ASSUME Agent!StartEnqueue
      PROVE  \/ UNCHANGED <<phase, jobRun, outcome>>
             \/ /\ server.pc = "enqueue" /\ phase[server.task] = "absent"
                /\ phase' = [phase EXCEPT ![server.task] = "waiting"]
                /\ jobRun' = [jobRun EXCEPT ![server.task] = server.run]
                /\ UNCHANGED outcome
    BY <1>3 DEF Agent!StartEnqueue, Agent!Queue!Submit, Agent!job
<1>4. ASSUME Agent!ServerCrash \/ Agent!ServerComplete
             \/ (\E t \in Task : Agent!StartRead(t) \/ Agent!Overturn(t))
             \/ (\E r \in Run : Agent!ServerRead(r) \/ Agent!StartWrite(r))
      PROVE  UNCHANGED <<phase, jobRun, outcome>>
    BY <1>4 DEF Agent!ServerCrash, Agent!ServerComplete, Agent!StartRead, Agent!Overturn,
                Agent!ServerRead, Agent!StartWrite, Agent!job
<1>5. ASSUME NEW s \in Session, Agent!Execute(s) \/ Agent!Crash(s)
      PROVE  UNCHANGED <<phase, jobRun, outcome>>
    BY <1>5 DEF Agent!Execute, Agent!Crash, Agent!CheckRun, Agent!LookupExecution,
                Agent!InsertExecution, Agent!TraceStart, Agent!ApplyAction,
                Agent!FinishExecution, Agent!TraceEnd, Agent!Moves, Agent!job
<1>6. ASSUME NEW s \in Session, Agent!Conclude(s), ~Agent!SucceedJob(s), ~Agent!FailJob(s)
      PROVE  UNCHANGED <<phase, jobRun, outcome>>
    BY <1>6 DEF Agent!Conclude, Agent!ReadForComplete, Agent!CompleteRun, Agent!ReadForFail,
                Agent!FailRun, Agent!Moves, Agent!job
<1>7. CASE UNCHANGED AgentVars
    BY <1>7 DEF AgentVars
<1> QED
    BY <1>1, <1>2, <1>3, <1>4, <1>5, <1>6, <1>7 DEF Agent!Next, Agent!ServerStep

LEMMA ServerStep ==
    ASSUME [Agent!Next]_AgentVars
    PROVE  \/ UNCHANGED server
           \/ server' = Agent!Resting
           \/ \E t \in Task : Agent!StartRead(t)
           \/ \E r \in Run : Agent!StartWrite(r) \/ Agent!ServerRead(r)
<1>1. CASE Agent!ServerStep \/ Agent!ServerCrash
    BY <1>1 DEF Agent!ServerStep, Agent!ServerCrash, Agent!StartEnqueue, Agent!ServerComplete
<1>2. ASSUME NEW t \in Task, Agent!Overturn(t) \/ Agent!CancelJob(t)
             \/ (\E s \in Session : Agent!ClaimJob(s, t))
      PROVE  UNCHANGED server
    BY <1>2 DEF Agent!Overturn, Agent!CancelJob, Agent!ClaimJob
<1>3. ASSUME NEW s \in Session, Agent!Execute(s) \/ Agent!Crash(s) PROVE UNCHANGED server
    BY <1>3 DEF Agent!Execute, Agent!Crash, Agent!CheckRun, Agent!LookupExecution,
                Agent!InsertExecution, Agent!TraceStart, Agent!ApplyAction,
                Agent!FinishExecution, Agent!TraceEnd, Agent!Moves
<1>4. ASSUME NEW s \in Session, Agent!Conclude(s) PROVE UNCHANGED server
    BY <1>4 DEF Agent!Conclude, Agent!ReadForComplete, Agent!CompleteRun, Agent!ReadForFail,
                Agent!FailRun, Agent!SucceedJob, Agent!FailJob, Agent!Leave, Agent!Moves
<1>5. CASE UNCHANGED AgentVars
    BY <1>5 DEF AgentVars
<1> QED
    BY <1>1, <1>2, <1>3, <1>4, <1>5 DEF Agent!Next

\* The three steps that write executions or effects.
Writes(s) == Agent!InsertExecution(s) \/ Agent!ApplyAction(s) \/ Agent!FinishExecution(s)

LEMMA ExecStep ==
    ASSUME [Agent!Next]_AgentVars
    PROVE  UNCHANGED <<exec, effects>> \/ \E s \in Session : Writes(s)
<1>1. CASE Agent!ServerStep \/ Agent!ServerCrash
    BY <1>1 DEF Agent!ServerStep, Agent!ServerCrash, Agent!StartEnqueue, Agent!ServerComplete,
                Agent!StartRead, Agent!ServerRead, Agent!StartWrite
<1>2. ASSUME NEW t \in Task, Agent!Overturn(t) \/ Agent!CancelJob(t)
             \/ (\E s \in Session : Agent!ClaimJob(s, t))
      PROVE  UNCHANGED <<exec, effects>>
    BY <1>2 DEF Agent!Overturn, Agent!CancelJob, Agent!ClaimJob
<1>3. ASSUME NEW s \in Session, Agent!Execute(s) \/ Agent!Crash(s), ~Writes(s)
      PROVE  UNCHANGED <<exec, effects>>
    BY <1>3 DEF Writes, Agent!Execute, Agent!Crash, Agent!CheckRun, Agent!LookupExecution,
                Agent!TraceStart, Agent!TraceEnd
<1>4. ASSUME NEW s \in Session, Agent!Conclude(s) PROVE UNCHANGED <<exec, effects>>
    BY <1>4 DEF Agent!Conclude, Agent!ReadForComplete, Agent!CompleteRun, Agent!ReadForFail,
                Agent!FailRun, Agent!SucceedJob, Agent!FailJob
<1>5. CASE UNCHANGED AgentVars
    BY <1>5 DEF AgentVars
<1> QED
    BY <1>1, <1>2, <1>3, <1>4, <1>5 DEF Agent!Next

\* Where a session goes on from where it stands; a run that is not running takes it aside.
Goes(s) ==
    /\ UNCHANGED work
    /\ \E to \in Steps \ {"idle"} :
        /\ pc' = [pc EXCEPT ![s] = to]
        /\ \/ pc[s] = "check" /\ to \in {"lookup", "raised"}
           \/ pc[s] = "lookup" /\ to = "read" /\ exec[KeyAt(s)] = "succeeded"
           \/ pc[s] = "lookup" /\ to \in {"insert", "raised"}
           \/ pc[s] = "insert" /\ Agent!InsertExecution(s) /\ to \in {"trace", "raised"}
           \/ pc[s] = "trace" /\ to \in {"effect", "raised"}
           \/ pc[s] = "effect" /\ Agent!ApplyAction(s) /\ to \in {"finish", "finishFailed"}
           \/ pc[s] = "finish" /\ Agent!FinishExecution(s) /\ to = "report"
           \/ pc[s] = "finishFailed" /\ Agent!FinishExecution(s) /\ to = "raised"
           \/ pc[s] = "report" /\ to \in {"read", "raised"}
           \/ pc[s] = "read" /\ to \in {"complete", "raised"}
           \/ pc[s] = "complete" /\ Agent!CompleteRun(s) /\ to \in {"succeed", "raised"}
           \/ pc[s] = "succeed" /\ to = "raised"
           \/ pc[s] = "raised" /\ to = "fail"
           \/ pc[s] = "raised" /\ ~Agent!Running(s) /\ to = "failJob" /\ UNCHANGED agentRun
           \/ pc[s] = "fail" /\ Agent!FailRun(s) /\ to = "failJob"

Leaves(s) == pc' = [pc EXCEPT ![s] = "idle"] /\ work' = [work EXCEPT ![s] = NoTask]

LEMMA SessionStep ==
    ASSUME [Agent!Next]_AgentVars
    PROVE  \/ UNCHANGED <<pc, work>>
           \/ \E s \in Session, t \in Task : Agent!ClaimJob(s, t)
           \/ \E s \in Session : Goes(s) \/ Leaves(s)
<1>1. CASE Agent!ServerStep \/ Agent!ServerCrash
    BY <1>1 DEF Agent!ServerStep, Agent!ServerCrash, Agent!StartEnqueue, Agent!ServerComplete,
                Agent!StartRead, Agent!ServerRead, Agent!StartWrite, Agent!session
<1>2. ASSUME NEW t \in Task, Agent!Overturn(t) \/ Agent!CancelJob(t) PROVE UNCHANGED <<pc, work>>
    BY <1>2 DEF Agent!Overturn, Agent!CancelJob, Agent!session
<1>3. ASSUME NEW s \in Session, Agent!Execute(s) PROVE Goes(s)
  <2>1. CASE Agent!CheckRun(s) \/ Agent!LookupExecution(s) \/ Agent!TraceStart(s)
             \/ Agent!TraceEnd(s)
      BY <2>1 DEF Agent!CheckRun, Agent!LookupExecution, Agent!TraceStart, Agent!TraceEnd,
                  Agent!Recorded, Agent!ActionKey, Agent!Moves, Goes, Steps, KeyAt
  <2>2. CASE Agent!InsertExecution(s) \/ Agent!ApplyAction(s) \/ Agent!FinishExecution(s)
    <3>1. CASE Agent!InsertExecution(s)
      <4>1. /\ pc[s] = "insert" /\ UNCHANGED work
            /\ \E to \in {"trace", "raised"} : pc' = [pc EXCEPT ![s] = to]
          BY <3>1 DEF Agent!InsertExecution, Agent!Moves
      <4> QED
          BY <3>1, <4>1 DEF Goes, Steps
    <3>2. CASE Agent!ApplyAction(s)
      <4>1. /\ pc[s] = "effect" /\ UNCHANGED work
            /\ \E to \in {"finish", "finishFailed"} : pc' = [pc EXCEPT ![s] = to]
          BY <3>2 DEF Agent!ApplyAction, Agent!Moves
      <4> QED
          BY <3>2, <4>1 DEF Goes, Steps
    <3>3. CASE Agent!FinishExecution(s)
      <4>1. /\ UNCHANGED work
            /\ \/ pc[s] = "finish" /\ pc' = [pc EXCEPT ![s] = "report"]
               \/ pc[s] = "finishFailed" /\ pc' = [pc EXCEPT ![s] = "raised"]
          BY <3>3 DEF Agent!FinishExecution, Agent!Moves
      <4> QED
          BY <3>3, <4>1 DEF Goes, Steps
    <3> QED
        BY <2>2, <3>1, <3>2, <3>3
  <2> QED
      BY <1>3, <2>1, <2>2 DEF Agent!Execute
<1>4. ASSUME NEW s \in Session, Agent!Conclude(s) PROVE Goes(s) \/ Leaves(s)
  <2>1. CASE Agent!ReadForComplete(s) \/ Agent!SucceedJob(s) \/ Agent!FailJob(s)
      BY <2>1 DEF Agent!ReadForComplete, Agent!SucceedJob, Agent!FailJob, Agent!Moves,
                  Agent!Leave, Goes, Leaves, Steps
  <2>2. CASE Agent!ReadForFail(s)
      BY <2>2 DEF Agent!ReadForFail, Agent!ToFail, Agent!Moves, Agent!ledger, Goes, Steps
  <2>3. CASE Agent!CompleteRun(s)
    <3>1. /\ pc[s] = "complete" /\ UNCHANGED work
          /\ \E to \in {"succeed", "raised"} : pc' = [pc EXCEPT ![s] = to]
        BY <2>3 DEF Agent!CompleteRun, Agent!Moves
    <3> QED
        BY <2>3, <3>1 DEF Goes, Steps
  <2>4. CASE Agent!FailRun(s)
    <3>1. pc[s] = "fail" /\ UNCHANGED work /\ pc' = [pc EXCEPT ![s] = "failJob"]
        BY <2>4 DEF Agent!FailRun, Agent!Moves
    <3> QED
        BY <2>4, <3>1 DEF Goes, Steps
  <2> QED
      BY <1>4, <2>1, <2>2, <2>3, <2>4 DEF Agent!Conclude
<1>5. ASSUME NEW s \in Session, Agent!Crash(s) PROVE Leaves(s)
    BY <1>5 DEF Agent!Crash, Leaves
<1>6. CASE UNCHANGED AgentVars
    BY <1>6 DEF AgentVars
<1> QED
    BY <1>1, <1>2, <1>3, <1>4, <1>5, <1>6 DEF Agent!Next
------------------------------------------------------------------------------
(* Types *)

LEMMA TypesNext == Types /\ Errands /\ [Agent!Next]_AgentVars => Types'
<1> SUFFICES ASSUME Types, Errands, [Agent!Next]_AgentVars PROVE Types'
    OBVIOUS
<1>1. RunTypes'
  <2>1. CASE UNCHANGED <<task, runTask, agentRun, output, error>>
      BY <2>1 DEF Types, RunTypes
  <2>2. ASSUME NEW r \in Run, Agent!StartWrite(r) PROVE RunTypes'
      BY <2>2 DEF Agent!StartWrite, Types, RunTypes, Errands
  <2>3. ASSUME NEW r \in Run, RunEnds(r) PROVE RunTypes'
      BY <2>3 DEF RunEnds, Ends, Types, RunTypes
  <2> QED
      BY <2>1, <2>2, <2>3, RunStep
<1>2. JobTypes'
  <2>1. ASSUME NEW s \in Session, Closes(s) PROVE JobTypes'
      BY <2>1 DEF Closes, Types, JobTypes, Agent!Queue!Phases
  <2>2. ASSUME NEW t \in Task, NEW to \in {"held", "closed"}, phase' = [phase EXCEPT ![t] = to],
               UNCHANGED <<jobRun, outcome>>
        PROVE  JobTypes'
      BY <2>2 DEF Types, JobTypes, Agent!Queue!Phases
  <2>3. ASSUME phase' = [phase EXCEPT ![server.task] = "waiting"],
               jobRun' = [jobRun EXCEPT ![server.task] = server.run], UNCHANGED outcome
        PROVE  JobTypes'
      BY <2>3 DEF Types, JobTypes, ServerTypes, Agent!Queue!Phases
  <2> QED
      BY <2>1, <2>2, <2>3, JobStep DEF Types, JobTypes
<1>3. ServerTypes'
  <2>1. ASSUME NEW t \in Task, Agent!StartRead(t) PROVE ServerTypes'
      BY <2>1 DEF Agent!StartRead, Types, ServerTypes
  <2>2. ASSUME NEW r \in Run, Agent!StartWrite(r) PROVE ServerTypes'
    <3>1. server' = [server EXCEPT !.pc = "enqueue", !.run = r]
        BY <2>2 DEF Agent!StartWrite
    <3> QED
        BY <3>1 DEF Types, ServerTypes
  <2>3. ASSUME NEW r \in Run, Agent!ServerRead(r) PROVE ServerTypes'
      BY <2>3 DEF Agent!ServerRead, Types, ServerTypes
  <2> QED
      BY <2>1, <2>2, <2>3, ServerStep DEF Types, ServerTypes, Agent!Resting
<1>4. ExecTypes'
  <2>1. ASSUME NEW s \in Session, Agent!InsertExecution(s) PROVE ExecTypes'
      BY <2>1 DEF Agent!InsertExecution, Types, ExecTypes
  <2>2. ASSUME NEW s \in Session, Agent!ApplyAction(s) PROVE ExecTypes'
      BY <2>2 DEF Agent!ApplyAction, Types, ExecTypes
  <2>3. ASSUME NEW s \in Session, Agent!FinishExecution(s) PROVE ExecTypes'
      BY <2>3 DEF Agent!FinishExecution, Types, ExecTypes
  <2> QED
      BY <2>1, <2>2, <2>3, ExecStep DEF Types, ExecTypes, Writes
<1>5. SessionTypes'
  <2>1. ASSUME NEW s \in Session, NEW t \in Task, Agent!ClaimJob(s, t) PROVE SessionTypes'
      BY <2>1 DEF Agent!ClaimJob, Types, SessionTypes, Steps
  <2>2. ASSUME NEW s \in Session, Goes(s) PROVE SessionTypes'
      BY <2>2 DEF Goes, Types, SessionTypes
  <2>3. ASSUME NEW s \in Session, Leaves(s) PROVE SessionTypes'
      BY <2>3 DEF Leaves, Types, SessionTypes, Steps
  <2> QED
      BY <2>1, <2>2, <2>3, SessionStep DEF Types, SessionTypes
<1> QED
    BY <1>1, <1>2, <1>3, <1>4, <1>5 DEF Types

\* What is there stays there, with the run it was given.
LEMMA RunsStay ==
    ASSUME Types, Errands, [Agent!Next]_AgentVars, NEW r \in Run, agentRun[r] # "absent"
    PROVE  /\ agentRun'[r] # "absent" /\ runTask'[r] = runTask[r]
           /\ agentRun[r] \in Ends => agentRun'[r] \in Ends
<1>1. ASSUME NEW q \in Run, Agent!StartWrite(q)
      PROVE  agentRun'[r] = agentRun[r] /\ runTask'[r] = runTask[r]
    BY <1>1 DEF Agent!StartWrite, Types, RunTypes
<1>2. ASSUME NEW q \in Run, RunEnds(q)
      PROVE  agentRun'[r] \in Ends \cup {agentRun[r]} /\ runTask'[r] = runTask[r]
    BY <1>2 DEF RunEnds, Types, RunTypes
<1> QED
    BY <1>1, <1>2, RunStep DEF Ends

LEMMA JobsStay ==
    ASSUME Types, Errands, [Agent!Next]_AgentVars, NEW t \in Task, phase[t] # "absent"
    PROVE  phase'[t] # "absent" /\ jobRun'[t] = jobRun[t]
<1>1. ASSUME NEW s \in Session, Closes(s) PROVE phase'[t] # "absent" /\ jobRun'[t] = jobRun[t]
    BY <1>1 DEF Closes, Types, JobTypes
<1> QED
    BY <1>1, JobStep DEF Types, JobTypes

LEMMA ErrandsNext == Types /\ Errands /\ [Agent!Next]_AgentVars => Errands'
<1> SUFFICES ASSUME Types, Errands, [Agent!Next]_AgentVars PROVE Errands'
    OBVIOUS
<1>1. /\ server'.pc \in {"start", "enqueue"} => server'.task \in Task
      /\ server'.pc \in {"enqueue", "complete"} =>
              server'.run \in Run /\ agentRun'[server'.run] # "absent"
  <2>1. CASE UNCHANGED server
      BY <2>1, RunsStay DEF Errands
  <2>2. CASE server' = Agent!Resting
      BY <2>2 DEF Agent!Resting
  <2>3. ASSUME NEW t \in Task, Agent!StartRead(t)
        PROVE  server'.task \in Task /\ server'.pc = "start"
      BY <2>3 DEF Agent!StartRead
  <2>4. ASSUME NEW r \in Run, Agent!StartWrite(r)
        PROVE  /\ server'.task \in Task /\ server'.pc = "enqueue"
               /\ server'.run \in Run /\ agentRun'[server'.run] # "absent"
    <3>1. server' = [server EXCEPT !.pc = "enqueue", !.run = r]
          /\ agentRun' = [agentRun EXCEPT ![r] = "running"] /\ server.pc = "start"
        BY <2>4 DEF Agent!StartWrite
    <3> QED
        BY <3>1 DEF Errands, Types, RunTypes, ServerTypes
  <2>5. ASSUME NEW r \in Run, Agent!ServerRead(r)
        PROVE  server'.pc = "complete" /\ server'.run \in Run /\ agentRun'[server'.run] # "absent"
      BY <2>5 DEF Agent!ServerRead, Agent!ledger, Types, RunTypes
  <2> QED
      BY <2>1, <2>2, <2>3, <2>4, <2>5, ServerStep
<1>2. ASSUME NEW t \in Task
      PROVE  /\ phase'[t] # "absent" => jobRun'[t] \in Run /\ agentRun'[jobRun'[t]] # "absent"
             /\ outcome'[t] # "open" => phase'[t] # "absent"
  <2>1. CASE phase[t] # "absent"
      BY <2>1, JobsStay, RunsStay DEF Errands
  <2>2. CASE phase[t] = "absent"
    <3>1. outcome[t] = "open"
        BY <2>2 DEF Errands, Types, JobTypes
    <3>2. ASSUME NEW s \in Session, Closes(s) PROVE phase'[t] = phase[t] /\ outcome'[t] = outcome[t]
        BY <2>2, <3>2 DEF Closes, Types, JobTypes
    <3>3. ASSUME server.pc = "enqueue", phase' = [phase EXCEPT ![server.task] = "waiting"],
                 jobRun' = [jobRun EXCEPT ![server.task] = server.run], UNCHANGED outcome
          PROVE  /\ phase'[t] # "absent" => jobRun'[t] \in Run /\ agentRun'[jobRun'[t]] # "absent"
                 /\ outcome'[t] = outcome[t]
      <4>1. CASE t = server.task
          BY <3>3, <4>1, RunsStay DEF Errands, Types, JobTypes
      <4>2. CASE t # server.task
          BY <2>2, <3>3, <4>2 DEF Types, JobTypes
      <4> QED
          BY <4>1, <4>2
    <3>4. ASSUME NEW u \in Task, NEW to \in {"held", "closed"}, phase[u] # "absent",
                 phase' = [phase EXCEPT ![u] = to], UNCHANGED outcome
          PROVE  phase'[t] = phase[t] /\ outcome'[t] = outcome[t]
        BY <2>2, <3>4 DEF Types, JobTypes
    <3> QED
        BY <2>2, <3>1, <3>2, <3>3, <3>4, JobStep
  <2> QED
      BY <2>1, <2>2
<1>3. ASSUME NEW s \in Session, pc'[s] # "idle"
      PROVE  work'[s] \in Task /\ phase'[work'[s]] # "absent"
  <2>1. CASE work'[s] = work[s] /\ pc[s] # "idle"
      BY <2>1, JobsStay DEF Errands
  <2>2. ASSUME NEW u \in Session, NEW t \in Task, Agent!ClaimJob(u, t)
        PROVE  \/ work'[s] = work[s] /\ pc[s] # "idle"
               \/ work'[s] = t /\ phase'[t] # "absent"
    <3>1. /\ work' = [work EXCEPT ![u] = t] /\ pc' = [pc EXCEPT ![u] = "check"]
          /\ phase' = [phase EXCEPT ![t] = "held"]
        BY <2>2 DEF Agent!ClaimJob, Agent!Queue!Grant
    <3> QED
        BY <1>3, <3>1 DEF Types, JobTypes, SessionTypes
  <2>3. ASSUME NEW u \in Session, Goes(u) PROVE work'[s] = work[s] /\ pc[s] # "idle"
      BY <1>3, <2>3 DEF Goes, Types, SessionTypes
  <2>4. ASSUME NEW u \in Session, Leaves(u) PROVE work'[s] = work[s] /\ pc[s] # "idle"
      BY <1>3, <2>4 DEF Leaves, Types, SessionTypes
  <2> QED
      BY <1>3, <2>1, <2>2, <2>3, <2>4, SessionStep
<1> QED
    BY <1>1, <1>2, <1>3 DEF Errands
------------------------------------------------------------------------------
(* One run for a task, and its end *)

LEMMA OneRunNext == Types /\ Errands /\ OneRun /\ [Agent!Next]_AgentVars => OneRun'
<1> SUFFICES ASSUME Types, Errands, OneRun, [Agent!Next]_AgentVars PROVE OneRun'
    OBVIOUS
<1> DEFINE Rows ==
              /\ \A r \in Run : agentRun[r] = "absent" <=> runTask[r] = NoTask
              /\ \A r \in Run : runTask[r] # NoTask => task[runTask[r]] # "queued"
              /\ Agent!OneRunPerTask
           Started == server.pc = "start" => task[server.task] = "queued"
<1>1. NoTask \notin Task
    BY AgentAssumption DEF Agent!AgentRunAssumption
<1>2. ASSUME NEW r \in Run, Agent!StartWrite(r) PROVE Rows' /\ Started'
  <2>1. /\ agentRun[r] = "absent" /\ agentRun' = [agentRun EXCEPT ![r] = "running"]
        /\ runTask' = [runTask EXCEPT ![r] = server.task]
        /\ task' = [task EXCEPT ![server.task] = "running"]
        /\ server.task \in Task /\ task[server.task] = "queued"
      BY <1>2 DEF Agent!StartWrite, Errands, OneRun
  <2>2. \A q \in Run : runTask[q] # server.task
      BY <1>1, <2>1 DEF OneRun
  <2>3. \A q \in Run : /\ runTask'[q] = IF q = r THEN server.task ELSE runTask[q]
                       /\ agentRun'[q] = IF q = r THEN "running" ELSE agentRun[q]
      BY <2>1 DEF Types, RunTypes
  <2>4. \A t \in Task : task'[t] = IF t = server.task THEN "running" ELSE task[t]
      BY <2>1 DEF Types, RunTypes
  <2>5. \A q \in Run : runTask[q] \in Task \cup {NoTask}
      BY DEF Types, RunTypes
  <2>6. \A q \in Run : agentRun'[q] = "absent" <=> runTask'[q] = NoTask
      BY <1>1, <2>1, <2>3 DEF OneRun
  <2>7. \A q \in Run : runTask'[q] # NoTask => task'[runTask'[q]] # "queued"
      BY <2>1, <2>3, <2>4, <2>5 DEF OneRun
  <2>8. Agent!OneRunPerTask'
      BY <2>2, <2>3 DEF OneRun, Agent!OneRunPerTask
  <2>9. server'.pc # "start"
      BY <1>2 DEF Agent!StartWrite, Types, ServerTypes
  <2> QED
      BY <2>6, <2>7, <2>8, <2>9
<1>3. ASSUME NEW r \in Run, agentRun[r] # "absent", RunEnds(r) PROVE Rows'
  <2>1. CASE UNCHANGED <<task, runTask, agentRun, output, error>>
      BY <2>1 DEF OneRun, Agent!OneRunPerTask
  <2>2. ASSUME NEW end \in Ends, agentRun' = [agentRun EXCEPT ![r] = end],
               task' = [task EXCEPT ![runTask[r]] = end], UNCHANGED runTask
        PROVE  Rows'
    <3>1. \A q \in Run : agentRun'[q] = "absent" <=> agentRun[q] = "absent"
        BY <1>3, <2>2 DEF Ends, Types, RunTypes
    <3>2. \A t \in Task : task[t] # "queued" => task'[t] # "queued"
        BY <2>2 DEF Ends, Types, RunTypes
    <3>3. \A q \in Run : runTask[q] \in Task \cup {NoTask}
        BY DEF Types, RunTypes
    <3>4. Agent!OneRunPerTask'
        BY <2>2 DEF OneRun, Agent!OneRunPerTask
    <3> QED
        BY <2>2, <3>1, <3>2, <3>3, <3>4 DEF OneRun
  <2> QED
      BY <1>3, <2>1, <2>2 DEF RunEnds
<1>4. ASSUME UNCHANGED <<task, runTask, agentRun, output, error>> PROVE Rows'
    BY <1>4 DEF OneRun, Agent!OneRunPerTask
<1>5. Rows'
    BY <1>2, <1>3, <1>4, RunStep
<1>6. Started'
  <2> SUFFICES ASSUME server'.pc = "start" PROVE task'[server'.task] = "queued"
      OBVIOUS
  <2>1. ASSUME NEW t \in Task, Agent!StartRead(t) PROVE task'[server'.task] = "queued"
      BY <2>1 DEF Agent!StartRead, Agent!Startable, Agent!ledger
  <2>2. ASSUME NEW r \in Run, Agent!StartWrite(r) \/ Agent!ServerRead(r) PROVE FALSE
    <3>1. Agent!StartWrite(r) => server' = [server EXCEPT !.pc = "enqueue", !.run = r]
        BY DEF Agent!StartWrite
    <3>2. Agent!ServerRead(r) => server'.pc = "complete"
        BY DEF Agent!ServerRead
    <3> QED
        BY <2>2, <3>1, <3>2 DEF Types, ServerTypes
  <2>3. CASE UNCHANGED server
    <3>1. server.task \in Task /\ task[server.task] = "queued"
        BY <2>3 DEF Errands, OneRun
    <3>2. ASSUME NEW r \in Run, agentRun[r] # "absent", RunEnds(r)
          PROVE  task'[server.task] = "queued"
      <4>1. runTask[r] # server.task
          BY <1>1, <3>1, <3>2 DEF OneRun
      <4> QED
          BY <3>1, <3>2, <4>1 DEF RunEnds, Types, RunTypes
    <3> QED
        BY <2>2, <2>3, <3>1, <3>2, RunStep
  <2>4. CASE server' = Agent!Resting
      BY <2>4 DEF Agent!Resting
  <2> QED
      BY <2>1, <2>2, <2>3, <2>4, ServerStep
<1> QED
    BY <1>5, <1>6 DEF OneRun

\* A job gets the run its server has just given to the task, and both keep it.
LEMMA AssignedNext == Types /\ Errands /\ OneRun /\ Assigned /\ [Agent!Next]_AgentVars => Assigned'
<1> SUFFICES ASSUME Types, Errands, OneRun, Assigned, [Agent!Next]_AgentVars PROVE Assigned'
    OBVIOUS
<1>1. \A r \in Run : agentRun[r] # "absent" => runTask'[r] = runTask[r]
    BY RunsStay
<1>2. ASSUME server'.pc = "enqueue" PROVE runTask'[server'.run] = server'.task
  <2>1. CASE UNCHANGED server
      BY <1>1, <1>2, <2>1 DEF Errands, Assigned
  <2>2. ASSUME NEW r \in Run, Agent!StartWrite(r) PROVE runTask'[server'.run] = server'.task
      BY <2>2 DEF Agent!StartWrite, Types, RunTypes, ServerTypes
  <2> QED
      BY <1>2, <2>1, <2>2, ServerStep DEF Agent!Resting, Agent!StartRead, Agent!ServerRead
<1>3. ASSUME NEW t \in Task, phase'[t] # "absent" PROVE runTask'[jobRun'[t]] = t
  <2>1. CASE phase[t] # "absent"
      BY <1>1, <2>1, JobsStay DEF Errands, Assigned
  <2>2. CASE phase[t] = "absent"
    <3>1. /\ server.pc = "enqueue" /\ t = server.task
          /\ jobRun' = [jobRun EXCEPT ![server.task] = server.run]
        BY <1>3, <2>2, JobStep DEF Closes, Types, JobTypes
    <3>2. jobRun'[t] = server.run /\ server.run \in Run /\ agentRun[server.run] # "absent"
        BY <3>1 DEF Errands, Types, JobTypes
    <3> QED
        BY <1>1, <3>1, <3>2 DEF Assigned
  <2> QED
      BY <2>1, <2>2
<1> QED
    BY <1>2, <1>3 DEF Assigned

\* The run of a job that a session holds, or that is closed, is there and stays what it is.
LEMMA EndStays ==
    ASSUME Types, Errands, [Agent!Next]_AgentVars, NEW t \in Task, phase[t] # "absent",
           agentRun[jobRun[t]] \in Ends
    PROVE  agentRun'[jobRun'[t]] \in Ends
BY JobsStay, RunsStay DEF Errands

LEMMA EndedNext == Types /\ Errands /\ Ended /\ [Agent!Next]_AgentVars => Ended'
<1> SUFFICES ASSUME Types, Errands, Ended, [Agent!Next]_AgentVars PROVE Ended'
    OBVIOUS
<1>1. ASSUME NEW r \in Run, output'[r] \/ error'[r] PROVE agentRun'[r] \in Ends
  <2>1. CASE UNCHANGED <<task, runTask, agentRun, output, error>>
      BY <1>1, <2>1 DEF Ended
  <2>2. ASSUME NEW q \in Run, Agent!StartWrite(q) PROVE agentRun'[r] \in Ends
      BY <1>1, <2>2 DEF Agent!StartWrite, Ended, Ends, Types, RunTypes
  <2>3. ASSUME NEW q \in Run, RunEnds(q) PROVE agentRun'[r] \in Ends
      BY <1>1, <2>3 DEF RunEnds, Ended, Types, RunTypes
  <2> QED
      BY <2>1, <2>2, <2>3, RunStep
<1>2. ASSUME NEW s \in Session, pc'[s] \in {"succeed", "failJob"}
      PROVE  agentRun'[jobRun'[work'[s]]] \in Ends
  <2>1. CASE pc'[s] = pc[s] /\ work'[s] = work[s]
      BY <1>2, <2>1, EndStays DEF Ended, Errands
  <2>2. ASSUME NEW u \in Session, NEW t \in Task, Agent!ClaimJob(u, t)
        PROVE  pc'[s] = pc[s] /\ work'[s] = work[s]
      BY <1>2, <2>2 DEF Agent!ClaimJob, Types, SessionTypes
  <2>3. ASSUME NEW u \in Session, Goes(u) \/ Leaves(u), u # s
        PROVE  pc'[s] = pc[s] /\ work'[s] = work[s]
      BY <2>3 DEF Goes, Leaves, Types, SessionTypes
  <2>4. ASSUME Goes(s) PROVE agentRun'[jobRun'[work'[s]]] \in Ends
    <3> DEFINE t == work[s]
               r == jobRun[t]
    <3>1. /\ t \in Task /\ phase[t] # "absent" /\ r \in Run /\ agentRun[r] # "absent"
          /\ work'[s] = t /\ jobRun'[t] = r
      <4>1. pc[s] # "idle" /\ work'[s] = work[s]
          BY <2>4 DEF Goes
      <4> QED
          BY <4>1, JobsStay DEF Errands
    <3>2. \/ pc[s] = "complete" /\ Agent!CompleteRun(s) /\ pc'[s] = "succeed"
          \/ pc[s] = "raised" /\ ~Agent!Running(s) /\ UNCHANGED agentRun
          \/ pc[s] = "fail" /\ Agent!FailRun(s)
        BY <1>2, <2>4 DEF Goes, Types, SessionTypes
    <3>3. CASE Agent!CompleteRun(s) /\ pc'[s] = "succeed"
        BY <3>1, <3>3 DEF Agent!CompleteRun, Agent!WriteCompleted, Agent!Moves, Ends, Types,
                          RunTypes, SessionTypes
    <3>4. CASE ~Agent!Running(s) /\ UNCHANGED agentRun
        BY <3>1, <3>4 DEF Agent!Running, Ends, Types, RunTypes
    <3>5. CASE Agent!FailRun(s)
        BY <3>1, <3>5 DEF Agent!FailRun, Agent!WriteFailed, Agent!FailedStatus, Ends, Ended,
                          Types, RunTypes
    <3> QED
        BY <3>2, <3>3, <3>4, <3>5
  <2>5. ~Leaves(s)
      BY <1>2 DEF Leaves, Types, SessionTypes
  <2> QED
      BY <2>1, <2>2, <2>3, <2>4, <2>5, SessionStep
<1>3. ASSUME NEW t \in Task, outcome'[t] # "open" PROVE agentRun'[jobRun'[t]] \in Ends
  <2>1. CASE outcome[t] # "open"
      BY <2>1, EndStays DEF Ended, Errands
  <2>2. ASSUME NEW s \in Session, Closes(s), outcome[t] = "open"
        PROVE  agentRun'[jobRun'[t]] \in Ends
    <3>1. work[s] = t /\ pc[s] \in {"succeed", "failJob"}
        BY <1>3, <2>2 DEF Closes, Types, JobTypes
    <3> QED
        BY <3>1, EndStays DEF Ended, Errands
  <2> QED
      BY <1>3, <2>1, <2>2, JobStep
<1> QED
    BY <1>1, <1>2, <1>3 DEF Ended
------------------------------------------------------------------------------
(* One effect for a key *)

\* The key of a session at work is a key.
LEMMA KeyTyped == ASSUME Errands, NEW s \in Session, pc[s] # "idle" PROVE KeyAt(s) \in Key
BY AgentAssumption DEF Errands, KeyAt, Agent!AgentRunAssumption

\* Only a session that writes comes to stand past an insert, or goes on there.
LEMMA PastStays ==
    ASSUME Types, [Agent!Next]_AgentVars, NEW t \in Session, pc'[t] \in Past, ~Writes(t)
    PROVE  /\ pc[t] \in Past /\ KeyAt(t)' = KeyAt(t)
           /\ pc'[t] = "finish" <=> pc[t] = "finish"
<1>1. CASE UNCHANGED <<pc, work>>
    BY <1>1 DEF KeyAt
<1>2. ASSUME NEW s \in Session, NEW u \in Task, Agent!ClaimJob(s, u)
      PROVE  pc'[t] = pc[t] /\ work'[t] = work[t]
    BY <1>2 DEF Agent!ClaimJob, Types, SessionTypes, Past
<1>3. ASSUME NEW s \in Session, Goes(s) \/ Leaves(s), s # t
      PROVE  pc'[t] = pc[t] /\ work'[t] = work[t]
    BY <1>3 DEF Goes, Leaves, Types, SessionTypes
<1>4. ASSUME Goes(t)
      PROVE  pc[t] = "trace" /\ pc'[t] = "effect" /\ work'[t] = work[t]
    BY <1>4 DEF Goes, Writes, Past, Types, SessionTypes
<1>5. ~Leaves(t)
    BY DEF Leaves, Past, Types, SessionTypes
<1> QED
    BY <1>1, <1>2, <1>3, <1>4, <1>5, SessionStep DEF KeyAt, Past

LEMMA EffectsNext ==
    Types /\ Errands /\ Holding /\ Accounted /\ [Agent!Next]_AgentVars => Holding' /\ Accounted'
<1> SUFFICES ASSUME Types, Errands, Holding, Accounted, [Agent!Next]_AgentVars
             PROVE  Holding' /\ Accounted'
    OBVIOUS
<1>1. \A t \in Session : pc[t] \in Past => KeyAt(t) \in Key
    BY KeyTyped DEF Past
<1>2. CASE \A s \in Session : ~Writes(s)
  <2>1. UNCHANGED <<exec, effects>>
      BY <1>2, ExecStep
  <2>2. \A t \in Session : pc'[t] \in Past =>
            /\ pc[t] \in Past /\ KeyAt(t)' = KeyAt(t) /\ (pc'[t] = "finish" <=> pc[t] = "finish")
      BY <1>2, PastStays
  <2>3. Holding'
      BY <2>1, <2>2 DEF Holding
  <2> QED
      BY <2>1, <2>3 DEF Accounted
<1>3. ASSUME NEW s \in Session, Writes(s) PROVE Holding' /\ Accounted'
  <2> DEFINE k == KeyAt(s)
  <2>1. /\ pc[s] \in {"insert", "effect", "finish", "finishFailed"}
        /\ UNCHANGED work /\ k \in Key /\ \E to \in Steps : pc' = [pc EXCEPT ![s] = to]
    <3>1. pc[s] \in {"insert", "effect", "finish", "finishFailed"} /\ UNCHANGED work
          /\ \E to \in Steps : pc' = [pc EXCEPT ![s] = to]
        BY <1>3 DEF Writes, Agent!InsertExecution, Agent!ApplyAction, Agent!FinishExecution,
                    Agent!Moves, Steps
    <3> QED
        BY <3>1, KeyTyped
  <2>2. \A t \in Session : KeyAt(t)' = KeyAt(t) /\ (t # s => pc'[t] = pc[t])
      BY <2>1 DEF KeyAt, Types, SessionTypes
  <2>3. CASE Agent!InsertExecution(s) /\ Agent!Insertable(k)
    <3>1. exec[k] = "absent" /\ exec' = [exec EXCEPT ![k] = "running"] /\ UNCHANGED effects
          /\ pc' = [pc EXCEPT ![s] = "trace"]
        BY <2>3 DEF Agent!InsertExecution, Agent!Insertable, Agent!ActionKey, KeyAt, Agent!Moves
    <3>2. /\ pc'[s] = "trace" /\ exec'[k] = "running"
          /\ \A j \in Key : j # k => exec'[j] = exec[j]
        BY <2>1, <3>1 DEF Types, SessionTypes, ExecTypes
    <3>3. effects[k] = 0
        BY <2>1, <3>1 DEF Accounted, Types, ExecTypes
    <3>4. \A t \in Session : pc[t] \in Past => KeyAt(t) # k
        BY <3>1 DEF Holding
    <3>5. Holding'
        BY <1>1, <2>2, <3>1, <3>2, <3>3, <3>4 DEF Holding
    <3>6. Accounted'
        BY <3>1, <3>2, <3>3 DEF Accounted
    <3> QED
        BY <3>5, <3>6
  <2>4. CASE Agent!InsertExecution(s) /\ ~Agent!Insertable(k)
    <3>1. UNCHANGED <<exec, effects>> /\ pc'[s] = "raised"
        BY <2>4 DEF Agent!InsertExecution, Agent!ActionKey, KeyAt, Agent!Moves, Types, SessionTypes
    <3>2. Holding'
        BY <2>2, <3>1 DEF Holding, Past
    <3> QED
        BY <3>1, <3>2 DEF Accounted
  <2>5. CASE Agent!ApplyAction(s)
    <3>1. /\ pc[s] = "effect" /\ effects[k] = 0 /\ exec[k] = "running"
          /\ \A t \in Session : t # s /\ pc[t] \in Past => KeyAt(t) # k
        BY <2>5 DEF Agent!ApplyAction, Holding, Past
    <3>2. UNCHANGED exec
        BY <2>5 DEF Agent!ApplyAction
    <3>3. \/ pc'[s] = "finish" /\ effects' = [effects EXCEPT ![k] = effects[k] + 1]
          \/ pc'[s] = "finishFailed" /\ UNCHANGED effects
        BY <2>5 DEF Agent!ApplyAction, Agent!ActionKey, KeyAt, Agent!Moves, Types, SessionTypes
    <3>4. /\ \A j \in Key : j # k => effects'[j] = effects[j]
          /\ effects'[k] = IF pc'[s] = "finish" THEN 1 ELSE 0
        BY <2>1, <3>1, <3>3 DEF Types, ExecTypes
    <3>5. Holding'
        BY <1>1, <2>2, <3>1, <3>2, <3>4 DEF Holding
    <3>6. Accounted'
        BY <3>1, <3>2, <3>4 DEF Accounted
    <3> QED
        BY <3>5, <3>6
  <2>6. CASE Agent!FinishExecution(s)
    <3>1. /\ pc[s] \in Past /\ effects[k] = (IF pc[s] = "finish" THEN 1 ELSE 0)
          /\ exec[k] = "running"
          /\ \A t \in Session : t # s /\ pc[t] \in Past => KeyAt(t) # k
        BY <2>6 DEF Agent!FinishExecution, Holding, Past
    <3>2. pc'[s] \notin Past /\ UNCHANGED effects
        BY <2>6 DEF Agent!FinishExecution, Agent!Moves, Past, Types, SessionTypes
    <3>3. \/ pc[s] = "finish" /\ exec' = [exec EXCEPT ![k] = "succeeded"]
          \/ pc[s] = "finishFailed" /\ exec' = [exec EXCEPT ![k] = "failed"]
        BY <2>6 DEF Agent!FinishExecution, Agent!ActionKey, KeyAt
    <3>4. /\ \A j \in Key : j # k => exec'[j] = exec[j]
          /\ exec'[k] # "absent" /\ (exec'[k] = "succeeded" => pc[s] = "finish")
        BY <2>1, <3>3 DEF Types, ExecTypes
    <3>5. Holding'
        BY <1>1, <2>2, <3>1, <3>2, <3>4 DEF Holding
    <3>6. Accounted'
        BY <3>1, <3>2, <3>4 DEF Accounted
    <3> QED
        BY <3>5, <3>6
  <2> QED
      BY <1>3, <2>3, <2>4, <2>5, <2>6 DEF Writes
<1> QED
    BY <1>2, <1>3

\* The result of an execution is not written twice.
LEMMA ResultStays ==
    ASSUME Types, Errands, Holding, [Agent!Next]_AgentVars, NEW k \in Key,
           exec[k] \in {"succeeded", "failed"}
    PROVE  exec'[k] = exec[k]
<1>1. ASSUME NEW s \in Session, Agent!InsertExecution(s) PROVE exec'[k] = exec[k]
    BY <1>1 DEF Agent!InsertExecution, Agent!Insertable, Types, ExecTypes
<1>2. ASSUME NEW s \in Session, Agent!ApplyAction(s) PROVE exec'[k] = exec[k]
    BY <1>2 DEF Agent!ApplyAction
<1>3. ASSUME NEW s \in Session, Agent!FinishExecution(s) PROVE exec'[k] = exec[k]
  <2>1. Agent!ActionKey(s) # k
      BY <1>3 DEF Agent!FinishExecution, Agent!ActionKey, KeyAt, Holding, Past
  <2> QED
      BY <1>3, <2>1 DEF Agent!FinishExecution, Types, ExecTypes
<1> QED
    BY <1>1, <1>2, <1>3, ExecStep DEF Writes

LEMMA RecordedNext ==
    Types /\ Errands /\ Holding /\ Recorded /\ [Agent!Next]_AgentVars => Recorded'
<1> SUFFICES ASSUME Types, Errands, Holding, Recorded, [Agent!Next]_AgentVars PROVE Recorded'
    OBVIOUS
<1>1. ASSUME NEW s \in Session, pc'[s] \in After PROVE exec'[KeyOf[work'[s]]] = "succeeded"
  <2>1. CASE pc[s] \in After /\ work'[s] = work[s]
      BY <2>1, KeyTyped, ResultStays DEF Recorded, KeyAt, After
  <2>2. ASSUME NEW u \in Session, NEW t \in Task, Agent!ClaimJob(u, t)
        PROVE  pc[s] \in After /\ work'[s] = work[s]
      BY <1>1, <2>2 DEF Agent!ClaimJob, After, Types, SessionTypes
  <2>3. ASSUME NEW u \in Session, Goes(u) \/ Leaves(u), u # s
        PROVE  pc[s] \in After /\ work'[s] = work[s]
      BY <1>1, <2>3 DEF Goes, Leaves, Types, SessionTypes
  <2>4. ASSUME Goes(s) PROVE exec'[KeyOf[work'[s]]] = "succeeded"
    <3>1. CASE pc[s] = "lookup" /\ exec[KeyAt(s)] = "succeeded"
        BY <2>4, <3>1, KeyTyped, ResultStays DEF Goes, KeyAt
    <3>2. CASE pc[s] = "finish" /\ Agent!FinishExecution(s)
        BY <2>4, <3>2, KeyTyped DEF Agent!FinishExecution, Agent!ActionKey, KeyAt, Agent!Moves,
                                    Types, ExecTypes
    <3>3. \/ pc[s] = "lookup" /\ exec[KeyAt(s)] = "succeeded"
          \/ pc[s] = "finish" /\ Agent!FinishExecution(s)
          \/ pc[s] \in After /\ work'[s] = work[s]
        BY <1>1, <2>4 DEF Goes, After, Types, SessionTypes
    <3> QED
        BY <2>1, <3>1, <3>2, <3>3
  <2>5. ~Leaves(s)
      BY <1>1 DEF Leaves, After, Types, SessionTypes
  <2> QED
      BY <1>1, <2>1, <2>2, <2>3, <2>4, <2>5, SessionStep
<1>2. ASSUME NEW t \in Task, outcome'[t] = "succeeded" PROVE exec'[KeyOf[t]] = "succeeded"
  <2>1. KeyOf[t] \in Key
      BY AgentAssumption DEF Agent!AgentRunAssumption
  <2>2. CASE outcome[t] = "succeeded"
      BY <2>1, <2>2, ResultStays DEF Recorded
  <2>3. ASSUME NEW s \in Session, Closes(s), outcome[t] # "succeeded"
        PROVE  exec'[KeyOf[t]] = "succeeded"
    <3>1. work[s] = t /\ pc[s] = "succeed"
        BY <1>2, <2>3 DEF Closes, Types, JobTypes
    <3> QED
        BY <2>1, <3>1, ResultStays DEF Recorded, KeyAt, After
  <2> QED
      BY <1>2, <2>2, <2>3, JobStep
<1> QED
    BY <1>1, <1>2 DEF Recorded, KeyAt
------------------------------------------------------------------------------
(* The theorems *)

LEMMA InvNext == Inv /\ [Agent!Next]_AgentVars => Inv'
BY TypesNext, ErrandsNext, OneRunNext, AssignedNext, EndedNext, EffectsNext, RecordedNext DEF Inv

\* The part of a behaviour does not change.
AgentInv == part = "agent" => Inv

\* Whatever the server starts, sessions lose and run into, the rows of tasks, runs, jobs and
\* executions stay in the states Inv describes.
THEOREM AgentInvariance == SideBySide => []AgentInv
<1>1. StartAll => AgentInv
    BY InvInit DEF StartAll, AgentInv
<1>2. AgentInv /\ [StepOne]_allVars => AgentInv'
  <2> SUFFICES ASSUME AgentInv, [StepOne]_allVars, part' = "agent" PROVE Inv'
      BY DEF AgentInv
  <2>1. part = "agent" /\ [Agent!Next]_AgentVars
      BY DEF StepOne, allVars
  <2> QED
      BY <2>1, InvNext DEF AgentInv
<1> QED
    BY <1>1, <1>2, PTL DEF SideBySide

\* Who closed the job of a task left no running run behind, and reported a success only of
\* an action that was applied once and recorded; and a task has one run (_run_agent_job,
\* complete_run, fail_run, start_run).
THEOREM ClosedJobEndsRunHolds == SideBySide => []ClosedJobEndsRun
<1>1. AgentInv => ClosedJobEndsRun
    BY AgentAssumption DEF AgentInv, Inv, Ended, Ends, Recorded, Accounted, OneRun,
       ClosedJobEndsRun, Agent!ClosedJobEndsRun, Agent!SuccessIsRecorded, Agent!AgentRunAssumption
<1> QED
    BY <1>1, AgentInvariance, PTL

\* An execution that succeeded or failed keeps that result: executions of the same key
\* replay it or are refused (idx_agent_action_executions_idempotency).
THEOREM ExecutionIsFinalHolds ==
    SideBySide =>
        [][part = "agent" =>
            \A k \in Key : exec[k] \in {"succeeded", "failed"} => exec'[k] = exec[k]]_allVars
<1>1. AgentInv /\ [StepOne]_allVars =>
        [part = "agent" =>
            \A k \in Key : exec[k] \in {"succeeded", "failed"} => exec'[k] = exec[k]]_allVars
  <2> SUFFICES ASSUME AgentInv, [StepOne]_allVars, part = "agent", NEW k \in Key,
                      exec[k] \in {"succeeded", "failed"}
               PROVE  exec'[k] = exec[k]
      OBVIOUS
  <2>1. [Agent!Next]_AgentVars
      BY DEF StepOne, allVars
  <2> QED
      BY <2>1, ResultStays DEF AgentInv, Inv
<1> QED
    BY <1>1, AgentInvariance, PTL DEF SideBySide
------------------------------------------------------------------------------
(* The contract of the effects                                             *)

\* The key of a session at work is permitted: the run of its job is a run of its task.
LEMMA AtPermitted ==
    ASSUME Errands, OneRun, Assigned, NEW s \in Session, pc[s] # "idle"
    PROVE  KeyAt(s) \in Agent!Permitted
<1>1. work[s] \in Task /\ phase[work[s]] # "absent"
    BY DEF Errands
<1>2. /\ jobRun[work[s]] \in Run /\ agentRun[jobRun[work[s]]] # "absent"
      /\ runTask[jobRun[work[s]]] = work[s]
    BY <1>1 DEF Errands, Assigned
<1>3. runTask[jobRun[work[s]]] # NoTask
    BY <1>2 DEF OneRun
<1> QED
    BY <1>2, <1>3 DEF Agent!Permitted, KeyAt

\* A run keeps its task, so what it permits stays permitted; and only starting a run permits.
LEMMA PermittedGrows ==
    ASSUME Types, Errands, OneRun, Types', [Agent!Next]_AgentVars
    PROVE  Agent!Permitted \subseteq Agent!Permitted' /\ Agent!Permitted' \subseteq Key
<1>1. \A r \in Run : runTask[r] # NoTask => runTask'[r] = runTask[r]
    BY RunsStay DEF OneRun
<1>2. \A r \in Run : runTask'[r] # NoTask => runTask'[r] \in Task
    BY DEF Types, RunTypes
<1> QED
    BY <1>1, <1>2, AgentAssumption DEF Agent!Permitted, Agent!AgentRunAssumption

\* What one session writes is one step of the contract, or none.
LEMMA WriteStep ==
    ASSUME Types, Holding, part = "agent", part' = "agent",
           NEW s \in Session, NEW k \in Key, k = KeyAt(s), Writes(s),
           k \in Agent!Permitted, UNCHANGED Agent!Permitted
    PROVE  [Actions!Next]_(Actions!evars)
<1>1. CASE Agent!InsertExecution(s)
  <2>1. UNCHANGED effects
      BY <1>1 DEF Agent!InsertExecution
  <2>2. \A j \in Key : exec'[j] = "succeeded" <=> exec[j] = "succeeded"
      BY <1>1 DEF Agent!InsertExecution, Agent!Insertable, Types, ExecTypes
  <2>3. Agent!Told' = Agent!Told
      BY <2>2 DEF Agent!Told
  <2> QED
      BY <2>1, <2>3 DEF Actions!evars
<1>2. CASE Agent!ApplyAction(s)
  <2>1. effects[k] = 0 /\ Agent!Told' = Agent!Told
      BY <1>2 DEF Agent!ApplyAction, Holding, Past, Agent!Told
  <2>2. effects' = [effects EXCEPT ![k] = effects[k] + 1] \/ UNCHANGED effects
      BY <1>2 DEF Agent!ApplyAction, Agent!ActionKey, KeyAt
  <2>3. effects[k] + 1 = 1
      BY <2>1
  <2>4. CASE effects' = [effects EXCEPT ![k] = 1]
    <3>1. Actions!Perform(k)
        BY <2>1, <2>4 DEF Actions!Perform
    <3> QED
        BY <3>1 DEF Actions!Next
  <2>5. CASE UNCHANGED effects
      BY <2>1, <2>5 DEF Actions!evars
  <2> QED
      BY <2>2, <2>3, <2>4, <2>5
<1>3. CASE Agent!FinishExecution(s)
  <2>1. /\ pc[s] = "finish" => effects[k] = 1
        /\ exec[k] = "running" /\ UNCHANGED effects
      BY <1>3 DEF Agent!FinishExecution, Holding, Past
  <2>2. \/ pc[s] = "finish" /\ exec' = [exec EXCEPT ![k] = "succeeded"]
        \/ pc[s] = "finishFailed" /\ exec' = [exec EXCEPT ![k] = "failed"]
      BY <1>3 DEF Agent!FinishExecution, Agent!ActionKey, KeyAt
  <2>3. CASE pc[s] = "finish" /\ exec' = [exec EXCEPT ![k] = "succeeded"]
    <3>1. Agent!Told' = Agent!Told \cup {k}
        BY <2>3 DEF Agent!Told, Types, ExecTypes
    <3>2. Actions!Tell(k)
        BY <2>1, <2>3, <3>1 DEF Actions!Tell
    <3> QED
        BY <3>2 DEF Actions!Next
  <2>4. CASE exec' = [exec EXCEPT ![k] = "failed"]
    <3>1. Agent!Told' = Agent!Told
        BY <2>1, <2>4 DEF Agent!Told, Types, ExecTypes
    <3> QED
        BY <2>1, <3>1 DEF Actions!evars
  <2> QED
      BY <2>2, <2>3, <2>4
<1> QED
    BY <1>1, <1>2, <1>3 DEF Writes

\* Every step of an agent run is one of the contract, or none.
LEMMA ContractStep ==
    ASSUME Inv, Inv', [Agent!Next]_AgentVars, part = "agent", part' = "agent"
    PROVE  [Actions!Next]_(Actions!evars)
<1>1. Agent!Permitted \subseteq Agent!Permitted' /\ Agent!Permitted' \subseteq Key
    BY PermittedGrows DEF Inv
<1>2. CASE UNCHANGED <<exec, effects>>
  <2>1. Agent!Told' = Agent!Told
      BY <1>2 DEF Agent!Told
  <2> QED
      BY <1>1, <1>2, <2>1 DEF Actions!Next, Actions!Permit
<1>3. ASSUME NEW s \in Session, Writes(s) PROVE [Actions!Next]_(Actions!evars)
  <2>1. UNCHANGED Agent!Permitted
      BY <1>3 DEF Writes, Agent!InsertExecution, Agent!ApplyAction, Agent!FinishExecution,
                  Agent!ledger, Agent!Permitted
  <2>2. pc[s] # "idle"
      BY <1>3 DEF Writes, Agent!InsertExecution, Agent!ApplyAction, Agent!FinishExecution
  <2>3. KeyAt(s) \in Key /\ KeyAt(s) \in Agent!Permitted
      BY <2>2, KeyTyped, AtPermitted DEF Inv
  <2> QED
      BY <1>3, <2>1, <2>3, WriteStep DEF Inv
<1> QED
    BY <1>2, <1>3, ExecStep

\* Every behaviour keeps the contract of the effects: the action of a key is applied once,
\* after a run of an approved task asked for it, and recorded as succeeded only once it was
\* applied, whatever jobs are reclaimed and sessions overlap or die (_begin_execution,
\* _finish_execution).
THEOREM ActionsKeepContractHolds == SideBySide => ActionsKeepContract
<1>1. StartAll => Actions!Init
  <2>1. ASSUME Agent!Init PROVE Agent!Permitted = {} /\ Agent!Told = {}
      BY <2>1 DEF Agent!Init, Agent!Permitted, Agent!Told
  <2>2. Agent!Init => effects = [k \in Key |-> 0]
      BY DEF Agent!Init
  <2> QED
      BY <2>1, <2>2 DEF StartAll, Actions!Init
<1>2. AgentInv /\ AgentInv' /\ [StepOne]_allVars => [Actions!Next]_(Actions!evars)
  <2> SUFFICES ASSUME AgentInv, AgentInv', [StepOne]_allVars
               PROVE  [Actions!Next]_(Actions!evars)
      OBVIOUS
  <2>1. part' = part
      BY DEF StepOne, allVars
  <2>2. CASE part = "agent"
    <3>1. [Agent!Next]_AgentVars
        BY <2>2 DEF StepOne, allVars
    <3> QED
        BY <2>1, <2>2, <3>1, ContractStep DEF AgentInv
  <2>3. CASE part # "agent"
      BY <2>1, <2>3 DEF Actions!evars
  <2> QED
      BY <2>2, <2>3
<1> QED
    BY <1>1, <1>2, AgentInvariance, PTL DEF SideBySide, ActionsKeepContract, Actions!Spec
------------------------------------------------------------------------------
(* Workflow runs                                                           *)
OnStage == Operation \ {"cancel"}

\* What an operation on a stage checked.
Checked(c) ==
    /\ c.op = "start" =>
         /\ status[c.on] \in {"pending", "waiting_approval", "blocked"}
         /\ Needs[c.on] \subseteq finished
    /\ c.op = "request" => c.on \in Gated /\ status[c.on] = "in_progress"
    /\ c.op = "reject" => status[c.on] = "waiting_approval"
    /\ c.op = "complete" =>
         /\ status[c.on] \in {"in_progress", "waiting_approval"}
         /\ c.on \in Gated => decision[c.on] = "approve"
    /\ c.op = "block" => status[c.on] \in {"pending", "in_progress", "waiting_approval"}

\* What a caller checked, and what lasts of it while its stage is not written.
SoundAt(c) ==
    /\ c.op \in OnStage => c.on \in Stage
    /\ c.op = "acknowledge" => c.to \in Stage
    /\ c.op # "none" /\ c.run # "pending" => run # "pending"
    /\ c.op = "cancel" /\ ~c.runStale => run \notin TERMINAL_STATUSES
    /\ c.op = "block" /\ ~c.runStale => run = c.run
    /\ c.op \in OnStage /\ ~c.stale => Checked(c)

Sound == \A a \in Caller : SoundAt(caller[a])

\* A completed stage was completed at least once, which outlives its being reopened.
Remembered == \A s \in Stage : status[s] = "completed" => s \in finished

\* Caller a is about to block stage s without blocking the run.
BlocksAlone(a, s) ==
    /\ caller[a].op = "block" /\ caller[a].on = s /\ ~caller[a].stale
    /\ caller[a].run \in TERMINAL_STATUSES \cup {"blocked"}

\* The stage that makes a run a waiting one is not about to be blocked behind its back.
Sustained ==
    run = "waiting_approval" =>
        \E s \in Stage : status[s] = "waiting_approval" /\ \A a \in Caller : ~BlocksAlone(a, s)

RunInv == TypeOK /\ Sound /\ Remembered /\ Sustained /\ EndedRunIsSettled /\ RunReflectsStages
           /\ GateApproved /\ OrderKept

\* What is left of the other callers' readings when one caller commits.
LEMMA Leftover ==
  ASSUME TypeOK, NEW a \in Caller, NEW changed, NEW overtaken, Finishes(a, changed, overtaken),
         run' \in STATUSES, NEW o \in Caller
  PROVE  \/ caller'[o] = Resting
         \/ /\ caller'[o] \in Reading
            /\ caller'[o].op = caller[o].op /\ caller'[o].on = caller[o].on
            /\ caller'[o].to = caller[o].to /\ caller'[o].run = caller[o].run
            /\ ~caller'[o].stale =>
                  ~caller[o].stale /\ (caller[o].op \in ComparesStage => caller[o].on \notin changed)
            /\ ~caller'[o].runStale =>
                  ~caller[o].runStale /\ (caller[o].op \in ComparesRun => run' = run)
<1>1. caller[o] \in Reading
  BY DEF TypeOK
<1>2. CASE o = a \/ caller[o] = Resting
  BY <1>2 DEF Finishes
<1>3. CASE ~(o = a \/ caller[o] = Resting)
  <2> DEFINE c == caller[o]
             s == c.stale \/ (c.op \in ComparesStage /\ c.on \in changed)
             r == c.runStale \/ (c.op \in ComparesRun /\ run' # run)
             y == c.younger \ {a}
             l == c.late \/ o \in overtaken
  <2>1. caller'[o] = [c EXCEPT !.stale = s, !.runStale = r, !.younger = y, !.late = l]
    BY <1>3 DEF Finishes
  <2>2. caller'[o] = [op |-> c.op, on |-> c.on, to |-> c.to, run |-> c.run,
                      stale |-> s, runStale |-> r, younger |-> y, late |-> l]
    BY <2>1, <1>1 DEF Reading
  <2>3. s \in BOOLEAN /\ r \in BOOLEAN /\ y \in SUBSET Caller /\ l \in BOOLEAN
    BY <1>1 DEF Reading
  <2>4. /\ c.op \in Operation \cup {"none"} /\ c.run \in STATUSES
        /\ c.on \in Stage \cup {NoStage} /\ c.to \in Stage \cup {NoStage}
    BY <1>1 DEF Reading
  <2>5. /\ ~s => ~c.stale /\ (c.op \in ComparesStage => c.on \notin changed)
        /\ ~r => ~c.runStale /\ (c.op \in ComparesRun => run' = run)
    OBVIOUS
  <2> HIDE DEF c, s, r, y, l
  <2>6. caller'[o] \in Reading
    BY <2>2, <2>3, <2>4 DEF Reading
  <2>7. /\ caller'[o].op = c.op /\ caller'[o].on = c.on
        /\ caller'[o].to = c.to /\ caller'[o].run = c.run
        /\ ~caller'[o].stale => ~c.stale /\ (c.op \in ComparesStage => c.on \notin changed)
        /\ ~caller'[o].runStale => ~c.runStale /\ (c.op \in ComparesRun => run' = run)
    BY <2>2, <2>5
  <2> QED
    BY <2>6, <2>7 DEF c
<1> QED
  BY <1>2, <1>3

\* A commit that writes no stage outside changed leaves every reading sound.
LEMMA CommitSound ==
  ASSUME TypeOK, Sound, NEW a \in Caller, NEW changed, NEW overtaken,
         Finishes(a, changed, overtaken), run' \in STATUSES,
         run # "pending" => run' # "pending",
         finished \subseteq finished',
         \A s \in Stage : s \notin changed =>
            status'[s] = status[s] /\ (decision[s] = "approve" => decision'[s] = "approve")
  PROVE  Sound' /\ caller' \in [Caller -> Reading]
<1>1. Resting \in Reading
  BY DEF Resting, STATUSES, Reading
<1>2. caller' \in [Caller -> Reading]
  <2>1. \A o \in Caller :
          caller'[o] \in Reading
    BY <1>1, Leftover
  <2>2. caller' = [o \in Caller |-> caller'[o]]
    BY DEF Finishes
  <2> QED
    BY <2>1, <2>2
<1>3. ASSUME NEW o \in Caller PROVE SoundAt(caller[o])'
  <2>1. CASE caller'[o] = Resting
    BY <2>1 DEF SoundAt, Resting, OnStage, Operation
  <2>2. CASE caller'[o] # Resting
    <3>0. PICK c : c = caller[o]
      OBVIOUS
    <3>1. /\ caller'[o].op = c.op /\ caller'[o].on = c.on
          /\ caller'[o].to = c.to /\ caller'[o].run = c.run
          /\ ~caller'[o].stale => ~c.stale /\ (c.op \in ComparesStage => c.on \notin changed)
          /\ ~caller'[o].runStale => ~c.runStale /\ (c.op \in ComparesRun => run' = run)
      BY <3>0, <2>2, Leftover
    <3>2. SoundAt(c)
      BY <3>0 DEF Sound
    <3>3. c.op \in OnStage => c.on \in Stage
      BY <3>2 DEF SoundAt
    <3>4. c.op \in OnStage \cap ComparesStage /\ ~caller'[o].stale =>
            /\ c.on \in Stage /\ ~c.stale
            /\ status'[c.on] = status[c.on]
            /\ decision[c.on] = "approve" => decision'[c.on] = "approve"
      BY <3>1, <3>3
    <3>5. c.op \in OnStage /\ ~caller'[o].stale => Checked(c)'
      BY <3>2, <3>4 DEF SoundAt, Checked, ComparesStage
    <3>6. /\ c.op # "none" /\ c.run # "pending" => run' # "pending"
          /\ c.op = "cancel" /\ ~caller'[o].runStale => run' \notin TERMINAL_STATUSES
          /\ c.op = "block" /\ ~caller'[o].runStale => run' = c.run
      BY <3>1, <3>2 DEF SoundAt, ComparesRun
    <3> QED
      BY <3>1, <3>2, <3>3, <3>5, <3>6 DEF SoundAt, Checked
  <2> QED
    BY <2>1, <2>2
<1> QED
  BY <1>2, <1>3 DEF Sound

\* Who blocks alone after a commit did so before, on a stage that was not written.
LEMMA StillBlocksAlone ==
  ASSUME TypeOK, NEW a \in Caller, NEW changed, NEW overtaken, Finishes(a, changed, overtaken),
         run' \in STATUSES, NEW o \in Caller, NEW s \in Stage, BlocksAlone(o, s)'
  PROVE  BlocksAlone(o, s) /\ s \notin changed
BY Leftover DEF BlocksAlone, Resting, ComparesStage

\* The rows of CAN_TRANSITION, read backwards.
LEMMA Transitions ==
  \A from \in STATUSES :
    /\ "in_progress" \in CAN_TRANSITION[from] => from \in {"pending", "waiting_approval", "blocked"}
    /\ "waiting_approval" \in CAN_TRANSITION[from] => from = "in_progress"
    /\ "blocked" \in CAN_TRANSITION[from] => from \in {"pending", "in_progress", "waiting_approval"}
BY DEF CAN_TRANSITION, STATUSES

\* What a caller remembers.
LEMMA RemembersAll ==
  ASSUME NEW op \in Operation, NEW s \in Stage \cup {NoStage}, NEW t \in Stage \cup {NoStage},
         run \in STATUSES
  PROVE  Remembers(op, s, t) \in Reading
<1>1. PICK r \in STATUSES : r = RunRead(op)
  BY DEF RunRead, STATUSES
<1>2. Remembers(op, s, t) = [op |-> op, on |-> s, to |-> t, run |-> r, stale |-> FALSE,
                             runStale |-> FALSE, younger |-> {}, late |-> FALSE]
  BY <1>1 DEF Remembers
<1> QED
  BY <1>1, <1>2 DEF Reading

\* Reading what may be read keeps the invariant.
LEMMA ReadKeeps ==
  ASSUME RunInv, NEW a \in Caller, NEW c \in Reading, SoundAt(c), c.run = RunRead(c.op),
         caller' \in [Caller -> Reading], caller'[a] = c,
         \A o \in Caller : o # a =>
            /\ caller'[o].op = caller[o].op /\ caller'[o].on = caller[o].on
            /\ caller'[o].to = caller[o].to /\ caller'[o].run = caller[o].run
            /\ caller'[o].stale = caller[o].stale /\ caller'[o].runStale = caller[o].runStale,
         UNCHANGED <<status, run, evidence, decision, acked, finished>>
  PROVE  RunInv'
<1>3. UNCHANGED <<status, run, evidence, decision, acked, finished>>
  OBVIOUS
<1>4. TypeOK'
  BY <1>3 DEF RunInv, TypeOK
<1>5. Sound'
  <2> SUFFICES ASSUME NEW o \in Caller PROVE SoundAt(caller[o])'
    BY DEF Sound
  <2>1. PICK d : d = caller'[o]
    OBVIOUS
  <2>2. SoundAt(d)
    <3>1. CASE o = a
      BY <3>1, <2>1
    <3>2. CASE o # a
      <4>1. SoundAt(caller[o])
        BY DEF RunInv, Sound
      <4>2. /\ d.op = caller[o].op /\ d.on = caller[o].on /\ d.to = caller[o].to
            /\ d.run = caller[o].run /\ d.stale = caller[o].stale
            /\ d.runStale = caller[o].runStale
        BY <2>1, <3>2
      <4> QED
        BY <4>1, <4>2 DEF SoundAt, Checked
    <3> QED
      BY <3>1, <3>2
  <2> QED
    BY <2>1, <2>2, <1>3 DEF SoundAt, Checked
<1>6. Sustained'
  <2> SUFFICES ASSUME run = "waiting_approval" PROVE Sustained'
    BY <1>3 DEF Sustained
  <2>1. PICK d \in Stage : status[d] = "waiting_approval" /\ \A o \in Caller : ~BlocksAlone(o, d)
    BY DEF RunInv, Sustained
  <2>2. \A o \in Caller : ~BlocksAlone(o, d)'
    BY <2>1 DEF BlocksAlone, RunRead, TERMINAL_STATUSES
  <2> QED
    BY <2>1, <2>2, <1>3 DEF Sustained
<1> QED
  BY <1>3, <1>4, <1>5, <1>6
     DEF RunInv, Remembered, EndedRunIsSettled, RunReflectsStages, GateApproved, OrderKept

\* A caller holds what it reads; the others stay as they are.
LEMMA HoldsKeeps ==
  ASSUME RunInv, NEW a \in Caller, NEW op \in Operation, NEW s \in Stage \cup {NoStage},
         NEW t \in Stage \cup {NoStage}, Holds(a, op, s, t), SoundAt(Remembers(op, s, t))
  PROVE  RunInv'
<1> DEFINE c == Remembers(op, s, t)
<1>0. run \in STATUSES
  BY DEF RunInv, TypeOK
<1>1. c \in Reading /\ c.run = RunRead(c.op)
  <2>1. c.op = op /\ c.run = RunRead(op)
    BY DEF Remembers
  <2>2. c \in Reading
    BY <1>0, RemembersAll
  <2> HIDE DEF c
  <2> QED
    BY <2>1, <2>2
<1>2. /\ caller' = [caller EXCEPT ![a] = c]
      /\ UNCHANGED <<status, run, evidence, decision, acked, finished>>
  BY DEF Holds
<1>3. SoundAt(c)
  OBVIOUS
<1> HIDE DEF c
<1>4. /\ caller' \in [Caller -> Reading] /\ caller'[a] = c
      /\ \A o \in Caller : o # a => caller'[o] = caller[o]
  BY <1>1, <1>2 DEF RunInv, TypeOK
<1> QED
  BY <1>1, <1>2, <1>3, <1>4, ReadKeeps

\* Whoever reads to decide is only noted by those it may overtake.
LEMMA DecideKeeps ==
  ASSUME RunInv, NEW a \in Caller, NEW op \in {"approve", "reject"}, NEW s \in Stage,
         ReadToDecide(a, op, s)
  PROVE  RunInv'
<1>1. /\ run \in STATUSES /\ op \in Operation
      /\ s \in Stage \cup {NoStage} /\ NoStage \in Stage \cup {NoStage}
  BY DEF RunInv, TypeOK, Operation
<1>2. PICK older \in SUBSET Deciding(s), younger \in SUBSET Deciding(s), late \in BOOLEAN :
        caller' = [o \in Caller |->
            IF o = a THEN Stamped(op, s, younger, late)
            ELSE IF o \in older THEN [caller[o] EXCEPT !.younger = @ \cup {a}] ELSE caller[o]]
  BY DEF ReadToDecide
<1> DEFINE c == Stamped(op, s, younger, late)
<1>3. /\ c \in Reading /\ c.op = op /\ c.on = s /\ c.run = RunRead(op)
      /\ c.stale = FALSE /\ c.runStale = FALSE
  <2>1. /\ c.op = op /\ c.on = s /\ c.run = RunRead(op)
        /\ c.stale = FALSE /\ c.runStale = FALSE
    BY DEF Stamped
  <2>2. c \in Reading
    <3>1. PICK r \in STATUSES : r = RunRead(op)
      BY <1>1 DEF RunRead, STATUSES
    <3>2. c = [op |-> op, on |-> s, to |-> NoStage, run |-> r, stale |-> FALSE,
               runStale |-> FALSE, younger |-> younger, late |-> late]
      BY <3>1 DEF Stamped
    <3>3. younger \in SUBSET Caller
      BY DEF Deciding
    <3> QED
      BY <1>1, <3>1, <3>2, <3>3 DEF Reading
  <2> QED
    BY <2>1, <2>2
<1>4. SoundAt(c)
  <2>1. status[s] = "waiting_approval"
    BY DEF ReadToDecide
  <2> HIDE DEF c
  <2> QED
    BY <1>3, <2>1 DEF SoundAt, Checked, RunRead
<1>5. UNCHANGED <<status, run, evidence, decision, acked, finished>>
  BY DEF ReadToDecide
<1>6. caller' = [o \in Caller |->
        IF o = a THEN c
        ELSE IF o \in older THEN [caller[o] EXCEPT !.younger = @ \cup {a}] ELSE caller[o]]
  BY <1>2
<1> HIDE DEF c
<1>7. ASSUME NEW o \in Caller, o # a
      PROVE  /\ caller'[o] \in Reading
             /\ caller'[o].op = caller[o].op /\ caller'[o].on = caller[o].on
             /\ caller'[o].to = caller[o].to /\ caller'[o].run = caller[o].run
             /\ caller'[o].stale = caller[o].stale /\ caller'[o].runStale = caller[o].runStale
  <2>1. caller[o] \in Reading
    BY DEF RunInv, TypeOK
  <2>2. caller'[o] \in {caller[o], [caller[o] EXCEPT !.younger = @ \cup {a}]}
    BY <1>6, <1>7
  <2> QED
    BY <2>1, <2>2 DEF Reading
<1>8. caller' \in [Caller -> Reading] /\ caller'[a] = c
  BY <1>3, <1>6, <1>7
<1> QED
  BY <1>3, <1>4, <1>5, <1>7, <1>8, ReadKeeps

\* Starting a stage keeps the invariant.
LEMMA StartKeeps ==
  ASSUME RunInv, NEW a \in Caller, StartStage(a)
  PROVE  RunInv'
<1>0. PICK s : s = caller[a].on
  OBVIOUS
<1>1. /\ s \in Stage
      /\ status[s] \in {"pending", "waiting_approval", "blocked"}
      /\ Needs[s] \subseteq finished
  BY <1>0 DEF RunInv, Sound, SoundAt, Checked, OnStage, Operation, StartStage, Current
<1>2. /\ status' = [status EXCEPT ![s] = "in_progress"]
      /\ run' = RunStarted
      /\ Finishes(a, {s}, {})
      /\ UNCHANGED <<evidence, decision, acked, finished>>
  BY <1>0 DEF StartStage, Committed
<1>3. run \notin {"completed", "cancelled"} /\ run' = "in_progress"
  BY <1>1, <1>2 DEF RunInv, TypeOK, EndedRunIsSettled, RunStarted, TERMINAL_STATUSES, STATUSES
<1>4. Sound' /\ caller' \in [Caller -> Reading]
  BY <1>2, <1>3, CommitSound DEF RunInv, TypeOK, STATUSES
<1>5. TypeOK'
  BY <1>2, <1>3, <1>4 DEF RunInv, TypeOK, STATUSES
<1>6. Remembered' /\ OrderKept'
  BY <1>1, <1>2 DEF RunInv, TypeOK, Remembered, OrderKept
<1>7. EndedRunIsSettled' /\ RunReflectsStages' /\ Sustained'
  BY <1>1, <1>2, <1>3 DEF RunInv, TypeOK, EndedRunIsSettled, RunReflectsStages, Sustained
<1>8. GateApproved'
  BY <1>1, <1>2 DEF RunInv, TypeOK, GateApproved
<1> QED
  BY <1>4, <1>5, <1>6, <1>7, <1>8 DEF RunInv

\* A commit that writes neither a status nor a handoff keeps the invariant: evidence,
\* an approving decision, an acknowledgement, a refusal.
LEMMA QuietKeeps ==
  ASSUME RunInv, NEW a \in Caller, NEW overtaken, Finishes(a, {}, overtaken),
         UNCHANGED <<status, run, finished>>,
         evidence' \subseteq Stage, acked' \subseteq Stage \X Stage,
         decision' \in [Stage -> {"none", "approve", "reject"}],
         \A s \in Stage : decision[s] = "approve" => decision'[s] = "approve"
  PROVE  RunInv'
<1>1. Sound' /\ caller' \in [Caller -> Reading]
  BY CommitSound DEF RunInv, TypeOK
<1>2. TypeOK'
  BY <1>1 DEF RunInv, TypeOK
<1>3. Sustained'
  <2> SUFFICES ASSUME run = "waiting_approval" PROVE Sustained'
    BY DEF Sustained
  <2>1. PICK d \in Stage : status[d] = "waiting_approval" /\ \A o \in Caller : ~BlocksAlone(o, d)
    BY DEF RunInv, Sustained
  <2>2. \A o \in Caller : ~BlocksAlone(o, d)'
    BY <2>1, StillBlocksAlone DEF RunInv, TypeOK
  <2> QED
    BY <2>1, <2>2 DEF Sustained
<1>4. GateApproved'
  BY WorkflowAssumption DEF RunInv, GateApproved
<1>5. Remembered' /\ EndedRunIsSettled' /\ RunReflectsStages' /\ OrderKept'
  BY DEF RunInv, Remembered, EndedRunIsSettled, RunReflectsStages, OrderKept
<1> QED
  BY <1>1, <1>2, <1>3, <1>4, <1>5 DEF RunInv

\* Requesting an approval keeps the invariant: the stage itself sustains the waiting run.
LEMMA RequestKeeps ==
  ASSUME RunInv, NEW a \in Caller, RequestApproval(a)
  PROVE  RunInv'
<1>0. PICK s : s = caller[a].on
  OBVIOUS
<1>1. s \in Stage /\ status[s] = "in_progress"
  BY <1>0 DEF RunInv, Sound, SoundAt, Checked, OnStage, Operation, RequestApproval, Current
<1>2. /\ status' = [status EXCEPT ![s] = "waiting_approval"]
      /\ run' = IF run \in TERMINAL_STATUSES THEN run ELSE "waiting_approval"
      /\ Finishes(a, {s}, {})
      /\ UNCHANGED <<evidence, decision, acked, finished>>
  BY <1>0 DEF RequestApproval, Committed
<1>3. run \notin {"completed", "cancelled"} /\ run' = "waiting_approval"
  BY <1>1, <1>2 DEF RunInv, TypeOK, EndedRunIsSettled, TERMINAL_STATUSES, STATUSES
<1>4. Sound' /\ caller' \in [Caller -> Reading]
  BY <1>2, <1>3, CommitSound DEF RunInv, TypeOK, STATUSES
<1>5. TypeOK'
  BY <1>2, <1>3, <1>4 DEF RunInv, TypeOK, STATUSES
<1>6. Remembered' /\ OrderKept'
  BY <1>1, <1>2 DEF RunInv, TypeOK, Remembered, OrderKept
<1>7. EndedRunIsSettled' /\ RunReflectsStages'
  BY <1>1, <1>2, <1>3 DEF RunInv, TypeOK, EndedRunIsSettled, RunReflectsStages
<1>8. Sustained'
  <2>1. status'[s] = "waiting_approval"
    BY <1>1, <1>2 DEF RunInv, TypeOK
  <2>2. \A o \in Caller : ~BlocksAlone(o, s)'
    BY <1>1, <1>2, <1>5, StillBlocksAlone DEF RunInv, TypeOK
  <2> QED
    BY <1>1, <2>1, <2>2 DEF Sustained
<1>9. GateApproved'
  BY <1>1, <1>2 DEF RunInv, TypeOK, GateApproved
<1> QED
  BY <1>4, <1>5, <1>6, <1>7, <1>8, <1>9 DEF RunInv

\* Rejecting a stage keeps the invariant: what it reopens was completed, so the run is not.
LEMMA RejectKeeps ==
  ASSUME RunInv, NEW a \in Caller, Reject(a)
  PROVE  RunInv'
<1>0. PICK s : s = caller[a].on
  OBVIOUS
<1>1. s \in Stage /\ status[s] = "waiting_approval"
  BY <1>0 DEF RunInv, Sound, SoundAt, Checked, OnStage, Operation, Reject, Current
<1>2. PICK R : R = {d \in {RejectTo[s]} \cap Stage : status[d] = "completed"}
  OBVIOUS
<1>3. /\ status' = [d \in Stage |->
                     IF d = s THEN IF RejectTo[s] = NoStage THEN "in_progress" ELSE "blocked"
                     ELSE IF d \in R THEN "in_progress" ELSE status[d]]
      /\ decision' \in {decision, [decision EXCEPT ![s] = "reject"]}
      /\ run' = IF run = "waiting_approval" THEN "in_progress" ELSE run
      /\ acked' = {p \in acked : p[1] \notin R}
      /\ Finishes(a, {s} \cup R, Overtaken(a))
      /\ UNCHANGED <<evidence, finished>>
  BY <1>0, <1>2 DEF Reject, Decided
<1>4. \A d \in R : d \in Stage /\ status[d] = "completed"
  BY <1>2
<1>5. run \notin {"completed", "cancelled", "pending"}
  BY <1>1 DEF RunInv, TypeOK, EndedRunIsSettled, RunReflectsStages, TERMINAL_STATUSES
<1>6. run' \in STATUSES /\ run' \notin {"completed", "cancelled", "pending", "waiting_approval"}
  BY <1>3, <1>5 DEF RunInv, TypeOK, STATUSES
<1>7. \A d \in Stage : d \notin {s} \cup R =>
         status'[d] = status[d] /\ (decision[d] = "approve" => decision'[d] = "approve")
  BY <1>3 DEF RunInv, TypeOK
<1>8. Sound' /\ caller' \in [Caller -> Reading]
  BY <1>3, <1>6, <1>7, CommitSound DEF RunInv
<1>9. TypeOK'
  BY <1>3, <1>6, <1>8 DEF RunInv, TypeOK, STATUSES
<1>10. Remembered' /\ OrderKept'
  BY <1>1, <1>3, <1>4 DEF RunInv, TypeOK, Remembered, OrderKept
<1>11. EndedRunIsSettled' /\ Sustained'
  BY <1>1, <1>3, <1>6 DEF EndedRunIsSettled, Sustained
<1>12. RunReflectsStages'
  <2> SUFFICES ASSUME run' = "blocked" PROVE \E d \in Stage : status'[d] = "blocked"
    BY <1>6 DEF RunReflectsStages
  <2>1. PICK d \in Stage : status[d] = "blocked"
    BY <1>3 DEF RunInv, RunReflectsStages
  <2>2. d # s /\ d \notin R
    BY <1>1, <1>4, <2>1
  <2> QED
    BY <1>7, <2>1, <2>2
<1>13. GateApproved'
  BY <1>1, <1>3, <1>4, <1>7, WorkflowAssumption DEF RunInv, GateApproved
<1> QED
  BY <1>8, <1>9, <1>10, <1>11, <1>12, <1>13 DEF RunInv

\* Completing a stage keeps the invariant.
LEMMA CompleteKeeps ==
  ASSUME RunInv, NEW a \in Caller, CompleteStage(a)
  PROVE  RunInv'
<1>0. PICK s : s = caller[a].on
  OBVIOUS
<1>1. /\ s \in Stage /\ status[s] \in {"in_progress", "waiting_approval"}
      /\ s \in Gated => decision[s] = "approve"
  BY <1>0 DEF RunInv, Sound, SoundAt, Checked, OnStage, Operation, CompleteStage, Current
<1>2. /\ status' = [status EXCEPT ![s] = "completed"]
      /\ finished' = finished \cup {s}
      /\ run' = IF \A d \in Stage : status'[d] = "completed" THEN "completed"
                ELSE IF run \in {"waiting_approval", "blocked"} THEN "in_progress" ELSE run
      /\ Finishes(a, {s}, {})
      /\ UNCHANGED <<evidence, decision, acked>>
  BY <1>0 DEF CompleteStage, Committed
<1>3. run \notin {"completed", "cancelled", "pending"}
  BY <1>1 DEF RunInv, TypeOK, EndedRunIsSettled, RunReflectsStages, TERMINAL_STATUSES
<1>4. /\ run' \in {"completed", "in_progress"}
      /\ run' = "completed" <=> \A d \in Stage : status'[d] = "completed"
  BY <1>2, <1>3 DEF RunInv, TypeOK, STATUSES
<1>5. \A d \in Stage : d \notin {s} => status'[d] = status[d]
  BY <1>2 DEF RunInv, TypeOK
<1>6. Sound' /\ caller' \in [Caller -> Reading]
  BY <1>2, <1>4, <1>5, CommitSound DEF RunInv, STATUSES
<1>7. TypeOK'
  BY <1>1, <1>2, <1>4, <1>6 DEF RunInv, TypeOK, STATUSES
<1>8. Remembered' /\ OrderKept'
  BY <1>1, <1>2, <1>5 DEF RunInv, Remembered, OrderKept
<1>9. EndedRunIsSettled' /\ RunReflectsStages' /\ Sustained'
  BY <1>4 DEF EndedRunIsSettled, RunReflectsStages, Sustained
<1>10. GateApproved'
  BY <1>1, <1>2, <1>5 DEF RunInv, GateApproved
<1> QED
  BY <1>6, <1>7, <1>8, <1>9, <1>10 DEF RunInv

\* Cancelling the run keeps the invariant: it was not completed, and no stage stays open.
LEMMA CancelKeeps ==
  ASSUME RunInv, NEW a \in Caller, CancelRun(a)
  PROVE  RunInv'
<1>1. PICK P : P = {s \in Stage : status[s] \notin TERMINAL_STATUSES}
  OBVIOUS
<1>2. /\ status' = [s \in Stage |-> IF s \in P THEN "cancelled" ELSE status[s]]
      /\ run' = "cancelled"
      /\ Finishes(a, P, {})
      /\ UNCHANGED <<evidence, decision, acked, finished>>
  BY <1>1 DEF CancelRun, Committed
<1>3. run \notin TERMINAL_STATUSES
  BY DEF RunInv, Sound, SoundAt, CancelRun
<1>4. \A s \in Stage : s \notin P => status'[s] = status[s]
  BY <1>2
<1>5. Sound' /\ caller' \in [Caller -> Reading]
  BY <1>2, <1>4, CommitSound DEF RunInv, STATUSES
<1>6. TypeOK'
  BY <1>2, <1>5 DEF RunInv, TypeOK, STATUSES
<1>7. Remembered' /\ OrderKept' /\ GateApproved'
  BY <1>2, WorkflowAssumption DEF RunInv, Remembered, OrderKept, GateApproved
<1>8. EndedRunIsSettled'
  <2>1. PICK s \in Stage : status[s] # "completed"
    BY <1>3 DEF RunInv, EndedRunIsSettled, TERMINAL_STATUSES
  <2>2. status'[s] # "completed"
    BY <1>2, <2>1
  <2>3. \A d \in Stage : status'[d] \in TERMINAL_STATUSES
    BY <1>1, <1>2 DEF TERMINAL_STATUSES
  <2> QED
    BY <1>2, <2>2, <2>3 DEF EndedRunIsSettled
<1>9. RunReflectsStages' /\ Sustained'
  BY <1>2 DEF RunReflectsStages, Sustained
<1> QED
  BY <1>5, <1>6, <1>7, <1>8, <1>9 DEF RunInv

\* Blocking a stage keeps the invariant.  When the run does not follow, a stage that
\* sustains a waiting run is another one; a blocked run keeps its blocked stage.
LEMMA BlockKeeps ==
  ASSUME RunInv, NEW a \in Caller, BlockStage(a)
  PROVE  RunInv'
<1>0. PICK s : s = caller[a].on
  OBVIOUS
<1>1. /\ s \in Stage
      /\ status[s] \in {"pending", "in_progress", "waiting_approval"}
      /\ caller[a].run # "pending" => run # "pending"
  BY <1>0 DEF RunInv, Sound, SoundAt, Checked, OnStage, Operation, BlockStage, Current
<1>2. PICK f \in BOOLEAN : f = (caller[a].run \notin TERMINAL_STATUSES \cup {"blocked"})
  OBVIOUS
<1>3. /\ status' = [status EXCEPT ![s] = "blocked"]
      /\ run' = IF f THEN "blocked" ELSE run
      /\ Finishes(a, {s}, {})
      /\ UNCHANGED <<evidence, decision, acked, finished>>
  BY <1>0, <1>2 DEF BlockStage, Committed
<1>4. ~f => BlocksAlone(a, s) /\ run # "pending"
  BY <1>0, <1>1, <1>2 DEF BlocksAlone, BlockStage, Current, TERMINAL_STATUSES
<1>5. run \notin {"completed", "cancelled"}
  BY <1>1 DEF RunInv, TypeOK, EndedRunIsSettled, TERMINAL_STATUSES
<1>6. run' \in STATUSES /\ run' \notin {"completed", "cancelled", "pending"}
  BY <1>3, <1>4, <1>5 DEF RunInv, TypeOK, STATUSES
<1>7. \A d \in Stage : d \notin {s} => status'[d] = status[d]
  BY <1>3 DEF RunInv, TypeOK
<1>8. status'[s] = "blocked"
  BY <1>1, <1>3 DEF RunInv, TypeOK
<1>9. Sound' /\ caller' \in [Caller -> Reading]
  BY <1>3, <1>6, <1>7, CommitSound DEF RunInv
<1>10. TypeOK'
  BY <1>3, <1>6, <1>9 DEF RunInv, TypeOK, STATUSES
<1>11. Remembered' /\ OrderKept'
  BY <1>3, <1>7, <1>8 DEF RunInv, Remembered, OrderKept
<1>12. EndedRunIsSettled' /\ GateApproved'
  BY <1>1, <1>3, <1>6, <1>7, <1>8, WorkflowAssumption DEF RunInv, EndedRunIsSettled, GateApproved
<1>13. ASSUME run' = "waiting_approval"
       PROVE  \E d \in Stage : status'[d] = "waiting_approval" /\ \A o \in Caller : ~BlocksAlone(o, d)'
  <2>1. run = "waiting_approval" /\ ~f
    BY <1>3, <1>13
  <2>2. PICK d \in Stage : status[d] = "waiting_approval" /\ \A o \in Caller : ~BlocksAlone(o, d)
    BY <2>1 DEF RunInv, Sustained
  <2>3. d # s
    BY <1>4, <2>1, <2>2
  <2>4. \A o \in Caller : ~BlocksAlone(o, d)'
    BY <1>3, <1>6, <2>2, StillBlocksAlone DEF RunInv
  <2> QED
    BY <1>7, <2>2, <2>3, <2>4
<1>14. Sustained'
  BY <1>13 DEF Sustained
<1>15. RunReflectsStages'
  BY <1>1, <1>6, <1>8, <1>13 DEF RunReflectsStages
<1> QED
  BY <1>9, <1>10, <1>11, <1>12, <1>14, <1>15 DEF RunInv

\* RunInv is inductive.
THEOREM RunInvariance == Spec => []RunInv
<1>1. Init => RunInv
  BY WorkflowAssumption
     DEF Init, RunInv, TypeOK, Reading, Resting, STATUSES, TERMINAL_STATUSES, Operation, OnStage,
         Sound, SoundAt, Remembered, Sustained, EndedRunIsSettled, RunReflectsStages,
         GateApproved, OrderKept
<1>2. RunInv /\ [Next]_vars => RunInv'
  <2> SUFFICES ASSUME RunInv, [Next]_vars PROVE RunInv'
    OBVIOUS
  <2>0. run \in STATUSES /\ NoStage \in Stage \cup {NoStage}
    BY DEF RunInv, TypeOK
  <2>r. "cancel" \in Operation /\ "acknowledge" \in Operation
    BY DEF Operation
  <2>1. ASSUME NEW a \in Caller, NEW op \in Operation, NEW s \in Stage, Read(a, op, s)
        PROVE  RunInv'
    <3> DEFINE c == Remembers(op, s, NoStage)
    <3>0. s \in Stage \cup {NoStage} /\ c = Remembers(op, s, NoStage)
      OBVIOUS
    <3> HIDE DEF c
    <3>1. /\ c.op = op /\ c.on = s /\ c.run = RunRead(op) /\ c.stale = FALSE /\ c.runStale = FALSE
      BY <3>0 DEF Remembers
    <3>2. SoundAt(c)
      <4>1. Admitted(op, s)
        BY <2>1 DEF Read
      <4>2. op = "start" => Needs[s] \subseteq finished
        BY <4>1, WorkflowAssumption
           DEF Admitted, Startable, DependenciesClear, RunInv, Remembered
      <4>3. status[s] \in STATUSES
        BY DEF RunInv, TypeOK
      <4>4. Checked(c)
        BY <3>1, <4>1, <4>2, <4>3, Transitions DEF Checked, Admitted, Startable, GateOpen
      <4>5. op # "cancel" /\ op # "acknowledge"
        BY <4>1 DEF Admitted
      <4> QED
        BY <3>1, <4>4, <4>5 DEF SoundAt, RunRead
    <3> QED
      BY <2>1, <3>0, <3>2, HoldsKeeps DEF Read
  <2>6. ASSUME NEW a \in Caller, ReadRun(a) PROVE RunInv'
    <3> DEFINE c == Remembers("cancel", NoStage, NoStage)
    <3>1. run \notin TERMINAL_STATUSES
      BY <2>6 DEF RunInv, TypeOK, ReadRun, CAN_TRANSITION, STATUSES, TERMINAL_STATUSES
    <3>c. c = Remembers("cancel", NoStage, NoStage)
      OBVIOUS
    <3> HIDE DEF c
    <3>2. c.op = "cancel" /\ c.run = "pending"
      <4>1. c.op = "cancel" /\ c.run = RunRead("cancel")
        BY <3>c DEF Remembers
      <4> QED
        BY <4>1 DEF RunRead
    <3>3. SoundAt(c)
      BY <3>1, <3>2 DEF SoundAt, OnStage
    <3> QED
      BY <2>0, <2>6, <2>r, <3>c, <3>3, HoldsKeeps DEF ReadRun
  <2>3. ASSUME NEW a \in Caller, NEW s \in Stage, NEW t \in Stage, ReadHandoff(a, s, t)
        PROVE  RunInv'
    <3> DEFINE c == Remembers("acknowledge", s, t)
    <3>0. s \in Stage \cup {NoStage} /\ t \in Stage \cup {NoStage} /\ c = Remembers("acknowledge", s, t)
      OBVIOUS
    <3> HIDE DEF c
    <3>1. c.op = "acknowledge" /\ c.on = s /\ c.to = t /\ c.run = "pending"
      <4>1. c.op = "acknowledge" /\ c.on = s /\ c.to = t /\ c.run = RunRead("acknowledge")
        BY <3>0 DEF Remembers
      <4> QED
        BY <4>1 DEF RunRead
    <3>2. SoundAt(c)
      BY <3>1 DEF SoundAt, Checked
    <3> QED
      BY <2>3, <2>r, <3>0, <3>2, HoldsKeeps DEF ReadHandoff
  <2>4. ASSUME NEW a \in Caller,
               SubmitEvidence(a) \/ Approve(a) \/ AcknowledgeHandoff(a) \/ Refused(a)
        PROVE  RunInv'
    <3>1. caller[a].op \in OnStage => caller[a].on \in Stage
      BY DEF RunInv, Sound, SoundAt
    <3>2. CASE SubmitEvidence(a)
      BY <3>1, <3>2, QuietKeeps
         DEF RunInv, TypeOK, SubmitEvidence, Committed, OnStage, Operation
    <3>3. CASE Approve(a)
      <4>1. /\ decision' \in [Stage -> {"none", "approve", "reject"}]
            /\ \A s \in Stage : decision[s] = "approve" => decision'[s] = "approve"
        BY <3>3 DEF RunInv, TypeOK, Approve, Decided
      <4> QED
        BY <3>3, <4>1, QuietKeeps DEF RunInv, TypeOK, Approve
    <3>4. CASE AcknowledgeHandoff(a)
      <4>1. caller[a].on \in Stage /\ caller[a].to \in Stage
        BY <3>4 DEF RunInv, Sound, SoundAt, AcknowledgeHandoff, OnStage, Operation
      <4> QED
        BY <3>4, <4>1, QuietKeeps DEF RunInv, TypeOK, AcknowledgeHandoff, Committed
    <3>5. CASE Refused(a)
      BY <3>5, QuietKeeps DEF RunInv, TypeOK, Refused, Committed
    <3> QED
      BY <2>4, <3>2, <3>3, <3>4, <3>5
  <2>5. CASE UNCHANGED vars
    BY <2>5 DEF vars, RunInv, TypeOK, Sound, SoundAt, Checked, Remembered, Sustained, BlocksAlone,
                EndedRunIsSettled, RunReflectsStages, GateApproved, OrderKept
  <2> QED
    BY <2>1, <2>3, <2>4, <2>5, <2>6, DecideKeeps, StartKeeps, RequestKeeps, RejectKeeps, CompleteKeeps,
       BlockKeeps, CancelKeeps DEF Next, Commit
<1> QED
  BY <1>1, <1>2, PTL DEF Spec

\* Whatever processes race on a run, it is completed exactly when its stages are, and a
\* cancelled run has no open stage.
THEOREM RunSettled == Spec => []EndedRunIsSettled
<1>1. RunInv => EndedRunIsSettled
  BY DEF RunInv
<1> QED
  BY <1>1, RunInvariance, PTL

\* A waiting or blocked run has a stage that makes it so.
THEOREM RunReflected == Spec => []RunReflectsStages
<1>1. RunInv => RunReflectsStages
  BY DEF RunInv
<1> QED
  BY <1>1, RunInvariance, PTL

\* A completed gate was approved.
THEOREM GatesApproved == Spec => []GateApproved
<1>1. RunInv => GateApproved
  BY DEF RunInv
<1> QED
  BY <1>1, RunInvariance, PTL

\* No stage runs whose dependencies were never completed.
THEOREM OrderIsKept == Spec => []OrderKept
<1>1. RunInv => OrderKept
  BY DEF RunInv
<1> QED
  BY <1>1, RunInvariance, PTL
==============================================================================
