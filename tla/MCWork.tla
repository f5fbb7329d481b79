------------------------------- MODULE MCWork --------------------------------
(* Small instances of the two ways in which approved work is carried out:   *)
(* the stages of a workflow run and the approved action of an agent run.    *)
(* They share no state here: a behaviour explores one of them.              *)
EXTENDS WorkflowRun, Naturals, TLC

CONSTANTS
    Parts,      \* the parts a run explores
    brief, creative, launch, Task, NoTask, Run, NoRun, Key, KeyOf, Session, MaxExpiries,
    MaxCrashes

VARIABLES
    part,       \* the part this behaviour explores: the others stay as they begin
    \* Agent
    task, approval, runTask, agentRun, output, error, exec, phase, ticket, spent, verdict,
    jobRun, outcome, server, pc, work, mine, effects, expiries, crashes

\* creative takes brief over and is a gate that sends brief to rework; launch follows brief,
\* is a gate of its own and sends creative to rework.
Follows == [s \in Stage |-> IF s = brief THEN {} ELSE {brief}]
Rework == [s \in Stage |->
    IF s = creative THEN brief ELSE IF s = launch THEN creative ELSE NoStage]

\* Two tasks whose descriptors carry one idempotency key.
OneKey == [t \in Task |-> CHOOSE k \in Key : TRUE]

\* Callers, or sessions, are interchangeable, and so are run ids.
Symmetry == Permutations(Session) \cup Permutations(Run)

Agent == INSTANCE AgentRun WITH
    run <- agentRun

\* The variables of each part; 0 while it is not explored.
AgentVars == <<
    task, approval, runTask, agentRun, output, error, exec, phase, ticket, spent, verdict,
    jobRun, outcome, server, pc, work, mine, effects, expiries, crashes>>

AgentRests ==
    /\ task = 0 /\ approval = 0 /\ runTask = 0 /\ agentRun = 0 /\ output = 0 /\ error = 0
    /\ exec = 0 /\ phase = 0 /\ ticket = 0 /\ spent = 0 /\ verdict = 0 /\ jobRun = 0
    /\ outcome = 0 /\ server = 0 /\ pc = 0 /\ work = 0 /\ mine = 0 /\ effects = 0
    /\ expiries = 0 /\ crashes = 0

StartAll ==
    /\ part \in Parts
    /\ Init
    /\ IF part = "agent" THEN Agent!Init ELSE AgentRests

StepOne ==
    /\ UNCHANGED part
    /\ \/ part = "workflow" /\ Next /\ UNCHANGED AgentVars
       \/ part = "agent" /\ Agent!Next /\ UNCHANGED vars

allVars == <<part, vars, AgentVars>>

SideBySide == StartAll /\ [][StepOne]_allVars

ASSUME AgentAssumption == Agent!AgentRunAssumption

\* One disturbance of the sessions: a lost lease or a crash.
Focus == part = "agent" => expiries + crashes <= 1

Actions == INSTANCE EffectContract WITH
    Effect <- Key,
    permitted <- IF part = "agent" THEN Agent!Permitted ELSE {},
    times <- IF part = "agent" THEN effects ELSE [k \in Key |-> 0],
    told <- IF part = "agent" THEN Agent!Told ELSE {}

\* The actions keep the contract: the action of a key is applied once and after a run of
\* an approved task asked for it, and recorded as succeeded only once it was applied,
\* whatever jobs are reclaimed, sessions overlap or die, and tasks share the key.
ActionsKeepContract == Actions!Spec

\* A session that closed the job left no running run behind, whether it applied the
\* action, was refused, or lost a race, and reported success only of what was recorded;
\* and that run is the only one of its task.
ClosedJobEndsRun ==
    part = "agent" =>
        Agent!ClosedJobEndsRun /\ Agent!SuccessIsRecorded /\ Agent!OneRunPerTask
==============================================================================
