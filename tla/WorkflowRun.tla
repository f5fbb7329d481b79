------------------------------ MODULE WorkflowRun ------------------------------
(***************************************************************************)
(* One run of a wing workflow (services/workflow_ops_runs.py over          *)
(* storage/workflows.py): stages with dependencies, acknowledged handoffs, *)
(* required evidence and approval gates, driven by several processes (the  *)
(* REST server, the MCP server) over one database.                         *)
(*                                                                         *)
(* Each operation reads and checks in autocommit and opens its transaction *)
(* with its first write, so it is two steps: Read and a commit.  The       *)
(* version columns are only ever compared for equality with what the same  *)
(* operation read; a caller therefore carries one bit that says whether    *)
(* the row was written since.  An acknowledgement holds for one version of *)
(* its source, so it is dropped when the source is reopened.               *)
(*                                                                         *)
(* The latest decision of a stage is the one with the latest stamp, and of *)
(* those of one second the one inserted last.  A stamp is taken before the *)
(* operation reads, and a decision of an older second may be inserted      *)
(* after one of a later second: then it is never the latest.               *)
(***************************************************************************)
EXTENDS FiniteSets

CONSTANTS
    Stage, NoStage,
    Needs,        \* Needs[s]: the stages s depends on
    HandsOff,     \* stages whose dependents must acknowledge the handoff
    Evidenced,    \* stages with required evidence
    Gated,        \* stages that require an approval
    RejectTo,     \* RejectTo[s]: the stage a rejection of s reopens, or NoStage
    Caller        \* processes that operate on the run

ASSUME WorkflowAssumption ==
    /\ Stage # {} /\ NoStage \notin Stage
    /\ Needs \in [Stage -> SUBSET Stage]
    /\ HandsOff \subseteq Stage /\ Evidenced \subseteq Stage /\ Gated \subseteq Stage
    /\ RejectTo \in [Stage -> Stage \cup {NoStage}]
    /\ \A s \in Stage : s \notin Needs[s] /\ RejectTo[s] # s

VARIABLES
    status,     \* workflow_stage_runs.status
    run,        \* workflow_runs.status
    evidence,   \* stages whose required evidence is submitted
    decision,   \* the approval decision of each stage with the latest stamp
    acked,      \* <<from, to>>: acknowledged for the current version of from
    finished,   \* stages that were completed at least once
    caller      \* what each caller has read: [op, on, to, run, stale, runStale, younger, late]

vars == <<status, run, evidence, decision, acked, finished, caller>>

STATUSES == {"pending", "in_progress", "waiting_approval", "blocked", "completed", "cancelled"}
TERMINAL_STATUSES == {"completed", "cancelled"}

CAN_TRANSITION ==
    [from \in STATUSES |->
        CASE from = "pending" -> {"in_progress", "blocked", "cancelled"}
          [] from = "in_progress" -> {"waiting_approval", "blocked", "completed", "cancelled"}
          [] from = "waiting_approval" -> {"in_progress", "blocked", "completed", "cancelled"}
          [] from = "blocked" -> {"in_progress", "cancelled"}
          [] OTHER -> {}]

Operation == {"start", "evidence", "request", "approve", "reject", "acknowledge",
              "complete", "block", "cancel"}

Resting == [op |-> "none", on |-> NoStage, to |-> NoStage, run |-> "pending",
            stale |-> FALSE, runStale |-> FALSE, younger |-> {}, late |-> FALSE]

\* younger: who decides the same stage with the stamp of a later second; late: one of them has.
Reading == [op: Operation \cup {"none"}, on: Stage \cup {NoStage}, to: Stage \cup {NoStage},
            run: STATUSES, stale: BOOLEAN, runStale: BOOLEAN,
            younger: SUBSET Caller, late: BOOLEAN]

TypeOK ==
    /\ status \in [Stage -> STATUSES]
    /\ run \in STATUSES
    /\ evidence \subseteq Stage
    /\ decision \in [Stage -> {"none", "approve", "reject"}]
    /\ acked \subseteq Stage \X Stage
    /\ finished \subseteq Stage
    /\ caller \in [Caller -> Reading]

Init ==
    /\ status = [s \in Stage |-> "pending"]
    /\ run = "pending"
    /\ evidence = {}
    /\ decision = [s \in Stage |-> "none"]
    /\ acked = {}
    /\ finished = {}
    /\ caller = [a \in Caller |-> Resting]
------------------------------------------------------------------------------
(* What an operation checks when it reads.                                 *)

DependenciesClear(s) ==
    \A d \in Needs[s] :
        /\ status[d] = "completed"
        /\ d \in HandsOff => <<d, s>> \in acked

EvidenceComplete(s) == s \in Evidenced => s \in evidence

\* Mutant: any decision opens the gate.
GateOpenWhenDecided(s) == s \in Gated => decision[s] # "none"

\* latest_approval_decision: ORDER BY created_at DESC, rowid DESC
GateOpen(s) == s \in Gated => decision[s] = "approve"

\* Mutant: the dependencies are not looked at.
StartableAlways(s) == run \notin TERMINAL_STATUSES /\ "in_progress" \in CAN_TRANSITION[status[s]]

Startable(s) ==
    /\ run \notin TERMINAL_STATUSES
    /\ "in_progress" \in CAN_TRANSITION[status[s]]
    /\ DependenciesClear(s)

Admitted(op, s) ==
    \/ op = "start" /\ Startable(s)
    \/ op = "evidence" /\ status[s] \notin TERMINAL_STATUSES
    \/ /\ op = "request"
       /\ s \in Gated
       /\ EvidenceComplete(s)
       /\ "waiting_approval" \in CAN_TRANSITION[status[s]]
    \/ /\ op = "complete"
       /\ status[s] \in {"in_progress", "waiting_approval"}
       /\ EvidenceComplete(s)
       /\ GateOpen(s)
    \/ op = "block" /\ "blocked" \in CAN_TRANSITION[status[s]]

\* The status of the run is remembered by block_stage only, which decides by it.
RunRead(op) == IF op = "block" THEN run ELSE "pending"

\* What caller a remembers of what it reads.
Remembers(op, s, t) ==
    [op |-> op, on |-> s, to |-> t, run |-> RunRead(op), stale |-> FALSE, runStale |-> FALSE,
     younger |-> {}, late |-> FALSE]

Holds(a, op, s, t) ==
    /\ caller' = [caller EXCEPT ![a] = Remembers(op, s, t)]
    /\ UNCHANGED <<status, run, evidence, decision, acked, finished>>

Read(a, op, s) ==
    /\ caller[a] = Resting
    /\ Admitted(op, s)
    /\ Holds(a, op, s, NoStage)

Deciding(s) == {o \in Caller : caller[o].op \in {"approve", "reject"} /\ caller[o].on = s}

\* What is remembered of a decision: who stamps later, and whether a later one is there already.
Stamped(op, s, younger, late) ==
    [op |-> op, on |-> s, to |-> NoStage, run |-> RunRead(op), stale |-> FALSE, runStale |-> FALSE,
     younger |-> younger, late |-> late]

\* decide_approval: the second of the decision was taken before the stage is read, so those who
\* decide the stage too may have an earlier or a later one, and so may a decision that is there.
ReadToDecide(a, op, s) ==
    /\ caller[a] = Resting
    /\ status[s] = "waiting_approval"
    /\ \E older \in SUBSET Deciding(s), younger \in SUBSET Deciding(s), late \in BOOLEAN :
        /\ older \cap younger = {}
        /\ late => decision[s] # "none"
        /\ caller' = [o \in Caller |->
            IF o = a THEN Stamped(op, s, younger, late)
            ELSE IF o \in older THEN [caller[o] EXCEPT !.younger = @ \cup {a}] ELSE caller[o]]
    /\ UNCHANGED <<status, run, evidence, decision, acked, finished>>

\* cancel_run looks at the run only.
ReadRun(a) ==
    /\ caller[a] = Resting
    /\ "cancelled" \in CAN_TRANSITION[run]
    /\ Holds(a, "cancel", NoStage, NoStage)

\* The source of a handoff is completed, and the target depends on it.
ReadHandoff(a, s, t) ==
    /\ caller[a] = Resting
    /\ status[s] = "completed" /\ s \in Needs[t]
    /\ Holds(a, "acknowledge", s, t)
------------------------------------------------------------------------------
(* Commits.                                                                *)

\* The operations that compare a version of the stage, and of the run, with the one they read.
ComparesStage == {"start", "request", "reject", "acknowledge", "complete", "block"}
ComparesRun == {"block", "cancel"}

\* Caller a is done; who has read a stage in changed, or the run if it changed, is stale, and
\* those overtaken will decide too late.
Finishes(a, changed, overtaken) ==
    caller' = [o \in Caller |->
        IF o = a \/ caller[o] = Resting THEN Resting
        ELSE [caller[o] EXCEPT !.stale = @ \/ (caller[o].op \in ComparesStage /\ caller[o].on \in changed),
                               !.runStale = @ \/ (caller[o].op \in ComparesRun /\ run' # run),
                               !.younger = @ \ {a}, !.late = @ \/ o \in overtaken]]

Committed(a, changed) == Finishes(a, changed, {})

\* Mutant: the update finds the row whatever its version is.
CurrentAlways(a) == TRUE

\* UPDATE ... WHERE status=? AND version=? finds the stage as it was read.
Current(a) == ~caller[a].stale

\* Mutant: a blocked run stays so when a stage is started.
RunStartedUnlessBlocked == IF run \in {"pending", "waiting_approval"} THEN "in_progress" ELSE run

RunStarted == IF run \in {"pending", "blocked", "waiting_approval"} THEN "in_progress" ELSE run

StartStage(a) ==
    LET s == caller[a].on
    IN  /\ caller[a].op = "start"
        /\ Current(a)
        /\ status' = [status EXCEPT ![s] = "in_progress"]
        /\ run' = RunStarted
        /\ Committed(a, {s})
        /\ UNCHANGED <<evidence, decision, acked, finished>>

\* Evidence is only inserted.
SubmitEvidence(a) ==
    /\ caller[a].op = "evidence"
    /\ evidence' = evidence \cup {caller[a].on}
    /\ UNCHANGED <<status, run, decision, acked, finished>>
    /\ Committed(a, {})

RequestApproval(a) ==
    LET s == caller[a].on
    IN  /\ caller[a].op = "request"
        /\ Current(a)
        /\ status' = [status EXCEPT ![s] = "waiting_approval"]
        /\ run' = IF run \in TERMINAL_STATUSES THEN run ELSE "waiting_approval"
        /\ Committed(a, {s})
        /\ UNCHANGED <<evidence, decision, acked, finished>>

\* The decision is inserted; it is the latest unless one of a later second is there.
Decided(a, what) ==
    decision' = IF caller[a].late THEN decision ELSE [decision EXCEPT ![caller[a].on] = what]

Overtaken(a) == {o \in Caller : a \in caller[o].younger}

\* An approving decision is inserted; the stage is not written, so nobody notices that
\* it moved on since it was read.
Approve(a) ==
    /\ caller[a].op = "approve"
    /\ Decided(a, "approve")
    /\ UNCHANGED <<status, run, evidence, acked, finished>>
    /\ Finishes(a, {}, Overtaken(a))

\* A rejection sends the stage back, or blocks it and reopens the stage to rework.
Reject(a) ==
    LET s == caller[a].on
        r == RejectTo[s]
        reopened == {d \in {r} \cap Stage : status[d] = "completed"}
    IN  /\ caller[a].op = "reject"
        /\ Current(a)
        /\ Decided(a, "reject")
        /\ status' = [d \in Stage |->
                        IF d = s THEN IF r = NoStage THEN "in_progress" ELSE "blocked"
                        ELSE IF d \in reopened THEN "in_progress" ELSE status[d]]
        /\ run' = IF run = "waiting_approval" THEN "in_progress" ELSE run
        /\ acked' = {p \in acked : p[1] \notin reopened}
        /\ Finishes(a, {s} \cup reopened, Overtaken(a))
        /\ UNCHANGED <<evidence, finished>>

\* The acknowledgement names the version of the source that was read.
AcknowledgeHandoff(a) ==
    /\ caller[a].op = "acknowledge"
    /\ acked' = IF caller[a].stale THEN acked ELSE acked \cup {<<caller[a].on, caller[a].to>>}
    /\ UNCHANGED <<status, run, evidence, decision, finished>>
    /\ Committed(a, {})

\* Completing the last stage completes the run.
CompleteStage(a) ==
    LET s == caller[a].on
    IN  /\ caller[a].op = "complete"
        /\ Current(a)
        /\ status' = [status EXCEPT ![s] = "completed"]
        /\ finished' = finished \cup {s}
        /\ run' = IF \A d \in Stage : status'[d] = "completed" THEN "completed"
                  ELSE IF run \in {"waiting_approval", "blocked"} THEN "in_progress" ELSE run
        /\ Committed(a, {s})
        /\ UNCHANGED <<evidence, decision, acked>>

\* The run is blocked unless it was blocked or over when it was read; if it changed since,
\* the whole transaction is rolled back.
BlockStage(a) ==
    LET s == caller[a].on
        follows == caller[a].run \notin TERMINAL_STATUSES \cup {"blocked"}
    IN  /\ caller[a].op = "block"
        /\ Current(a)
        /\ follows => ~caller[a].runStale
        /\ status' = [status EXCEPT ![s] = "blocked"]
        /\ run' = IF follows THEN "blocked" ELSE run
        /\ Committed(a, {s})
        /\ UNCHANGED <<evidence, decision, acked, finished>>

\* Every stage that is not over is cancelled with the run, as the transaction finds it.
CancelRun(a) ==
    LET open == {s \in Stage : status[s] \notin TERMINAL_STATUSES}
    IN  /\ caller[a].op = "cancel"
        /\ ~caller[a].runStale
        /\ run' = "cancelled"
        /\ status' = [s \in Stage |-> IF s \in open THEN "cancelled" ELSE status[s]]
        /\ Committed(a, open)
        /\ UNCHANGED <<evidence, decision, acked, finished>>

\* "workflow stage changed concurrently": nothing is written.
Refused(a) ==
    /\ \/ caller[a].op \in {"start", "request", "reject", "complete", "block"} /\ caller[a].stale
       \/ caller[a].op \in {"block", "cancel"} /\ caller[a].runStale
    /\ UNCHANGED <<status, run, evidence, decision, acked, finished>>
    /\ Committed(a, {})
------------------------------------------------------------------------------
Commit(a) ==
    \/ StartStage(a)
    \/ SubmitEvidence(a)
    \/ RequestApproval(a)
    \/ Approve(a)
    \/ Reject(a)
    \/ AcknowledgeHandoff(a)
    \/ CompleteStage(a)
    \/ BlockStage(a)
    \/ CancelRun(a)

Next ==
    \E a \in Caller :
        \/ \E op \in Operation, s \in Stage : Read(a, op, s)
        \/ \E op \in {"approve", "reject"}, s \in Stage : ReadToDecide(a, op, s)
        \/ \E s, t \in Stage : ReadHandoff(a, s, t)
        \/ ReadRun(a)
        \/ Commit(a)
        \/ Refused(a)

Spec == Init /\ [][Next]_vars

------------------------------------------------------------------------------
(* Properties.                                                             *)

\* The run is completed exactly when all its stages are, and a cancelled run has no open
\* stage, although operations act on what they read before the run ended.
EndedRunIsSettled ==
    /\ run = "completed" <=> \A s \in Stage : status[s] = "completed"
    /\ run = "cancelled" => \A s \in Stage : status[s] \in TERMINAL_STATUSES

\* A run shown as pending, waiting or blocked has the stages that make it so.
RunReflectsStages ==
    /\ run = "pending" => \A s \in Stage : status[s] = "pending"
    /\ run \in {"waiting_approval", "blocked"} => \E s \in Stage : status[s] = run

\* The decision of a completed gate that has the latest stamp, of those of one second the one
\* inserted last, approves it, whoever decides, reworks and completes the stage beside.
GateApproved == \A s \in Gated : status[s] = "completed" => decision[s] = "approve"

\* No stage is worked on, waits or is completed whose dependencies were never completed.
OrderKept ==
    \A s \in Stage : status[s] \in {"in_progress", "waiting_approval", "completed"} =>
        Needs[s] \subseteq finished

------------------------------------------------------------------------------
(* Promises of the documentation, a test or an error message that the      *)
(* code does not keep: TLC refutes each of them.                           *)

\* "workflow stage is not waiting for approval": only a waiting stage is decided.
DecidedWhileWaiting ==
    [][\A s \in Stage : decision'[s] # decision[s] => status[s] = "waiting_approval"]_vars

\* "workflow stage dependencies are not complete": a stage is started after them.
StartedAfterDependencies ==
    [][\A s \in Stage :
        (status[s] = "pending" /\ status'[s] = "in_progress") =>
            (\A d \in Needs[s] : status[d] = "completed")]_vars

\* "workflow stage requires approval before completion": a stage sent back needs a new decision.
\* A rejection that waited for the lock longer than an approval is not the latest decision.
SentBackIsRejected ==
    [][\A a \in Caller : Reject(a) => decision'[caller[a].on] = "reject"]_vars

\* A stage that is reworked passes its gate anew.
ReworkIsApprovedAnew ==
    \A s \in Gated : status[s] = "in_progress" => decision[s] # "approve"
===============================================================================
