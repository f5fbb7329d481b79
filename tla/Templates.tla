------------------------------ MODULE Templates ------------------------------
(***************************************************************************)
(* How a workflow run comes to be: the validation of its template and the  *)
(* assignment of its stages from the client's roster                       *)
(* (services/workflow_ops_template.py), the versions of definitions        *)
(* (storage/workflows.py), the rosters (services/client_ops_roster.py),    *)
(* and what the run asks of its owners and dependencies when a stage       *)
(* starts.  What happens inside a run is the subject of WorkflowRun.       *)
(*                                                                         *)
(* One client workspace.  A template is normalised and assigned before the *)
(* transaction that stores it; several processes create runs.              *)
(***************************************************************************)
EXTENDS Naturals, Sequences, FiniteSets

CONSTANTS
    Process, Principal, Stage, Role, Key, None,
    Offered,        \* the templates clients send
    Assignments,    \* the rosters administrators write
    MaxTime, MaxRosters, MaxRuns, MaxChanges    \* bounds: the clock, rosters, runs, changes of people

VARIABLES
    clock, eligible,    \* principals who may work in the workspace
    rosters,            \* client_account_rosters with their roles
    versions,           \* workflow_definition_versions
    runs,               \* workflow_runs with their stages
    making,             \* the run each process is creating
    changes

vars == <<clock, eligible, rosters, versions, runs, making, changes>>

\* For each stage: the stages it waits for, the role that owns it, the owner the client insists
\* on, its place, and the stage a rejection goes back to.
Template == [version: Nat, after: [Stage -> SUBSET Stage], role: [Stage -> Role],
             insists: [Stage -> Principal \cup {None}], sequence: [Stage -> Nat],
             reject: [Stage -> Stage \cup {None}]]

TemplatesAssumption ==
    /\ {MaxTime, MaxRosters, MaxRuns, MaxChanges} \subseteq Nat
    /\ Offered \subseteq Template /\ Assignments \subseteq [Role -> Principal \cup {None}]
    /\ IsFiniteSet(Stage) /\ None \notin Principal

Snapshot == [template: Offered, roster: 1..MaxRosters, owner: [Stage -> Principal]]
Idle == [at |-> "idle"]

TypeOK ==
    /\ Offered \subseteq Template
    /\ clock \in 0..MaxTime /\ eligible \subseteq Principal
    /\ \A r \in 1..Len(rosters) : rosters[r].roles \in [Role -> Principal \cup {None}]
    /\ versions \subseteq Snapshot
    /\ \A r \in 1..Len(runs) : runs[r].of \in Snapshot /\ runs[r].done \subseteq Stage

Init ==
    /\ clock = 0 /\ eligible = Principal
    /\ rosters = <<>> /\ versions = {} /\ runs = <<>>
    /\ making = [p \in Process |-> Idle]
    /\ changes = 0

---------------------------------------------------------------------------
(* Validation *)

\* Mutant: only a pair of stages that wait for each other is a cycle.
OneDeep(t) == \A s \in Stage : s \notin t.after[s] /\ \A d \in t.after[s] : s \notin t.after[d]
\* visit: no stage is met again below itself.
Acyclic(t) ==
    LET Clean[above \in SUBSET Stage] ==
            [s \in Stage |-> s \notin above /\ \A d \in t.after[s] : Clean[above \cup {s}][d]]
    IN  \A s \in Stage : Clean[{}][s]

\* _validate_dependencies: rejections go back to earlier stages, dependencies form no cycle.
Valid(t) ==
    /\ \A s \in Stage : t.reject[s] # None => t.sequence[t.reject[s]] < t.sequence[s]
    /\ Acyclic(t)

---------------------------------------------------------------------------
(* Rosters *)

Rosters == 1..Len(rosters)

\* _active_client_roster: the one that took effect last.
Active ==
    LET past == {r \in Rosters : rosters[r].from <= clock}
    IN  {r \in past : \A q \in past : rosters[q].from <= rosters[r].from}

\* create_client_roster, in one transaction: no two take effect at once.
CreateRoster(roles, from) ==
    /\ Len(rosters) < MaxRosters
    /\ \A r \in Rosters : rosters[r].from # from
    /\ \A role \in Role : roles[role] \in eligible \cup {None}
    /\ rosters' = Append(rosters, [roles |-> roles, from |-> from])
    /\ UNCHANGED <<clock, eligible, versions, runs, making, changes>>

\* A person joins or leaves the workspace, an agent is enabled or disabled.
Change(x) ==
    /\ changes < MaxChanges
    /\ changes' = changes + 1
    /\ eligible' = IF x \in eligible THEN eligible \ {x} ELSE eligible \cup {x}
    /\ UNCHANGED <<clock, rosters, versions, runs, making>>

---------------------------------------------------------------------------
(* create_run *)

\* _resolve_roster_assignments: the roster's one match for the role, whom the client may name.
Assignable(t, r) ==
    \A s \in Stage :
        /\ rosters[r].roles[t.role[s]] \in eligible
        /\ t.insists[s] \in {None, rosters[r].roles[t.role[s]]}

\* Everything before the transaction.  A key that was used answers with its run.
Plan(p, t, key) ==
    /\ making[p] = Idle /\ Len(runs) < MaxRuns
    /\ \A r \in 1..Len(runs) : runs[r].key # key
    /\ Valid(t)
    /\ \E r \in Active :
        /\ Assignable(t, r)
        /\ making' = [making EXCEPT ![p] = [at |-> "store", key |-> key, of |-> [template |-> t, roster |-> r,
                owner |-> [s \in Stage |-> rosters[r].roles[t.role[s]]]]]]
    /\ UNCHANGED <<clock, eligible, rosters, versions, runs, changes>>

\* The version of a definition is the template's, with the roster it was assigned from.
SameVersion(new) ==
    {old \in versions : old.template.version = new.template.version /\ old.roster = new.roster}

\* Mutant: the version that is stored already will do.
AnyStored(new) == TRUE
\* save_definition_version: a version is stored once, with one snapshot.
Agrees(new) == \A old \in SameVersion(new) : old = new

\* save_definition_version and create_run of the repository
WithVersion(new) == IF SameVersion(new) = {} THEN versions \cup {new} ELSE versions
WithRun(new, key) == Append(runs, [of |-> new, key |-> key, done |-> {}])

\* The version and the run are stored together, or neither.
Store(p) ==
    LET new == making[p].of
    IN  /\ making[p].at = "store" /\ Len(runs) < MaxRuns
        /\ IF Agrees(new) /\ \A r \in 1..Len(runs) : runs[r].key # making[p].key
           THEN /\ versions' = WithVersion(new)
                /\ runs' = WithRun(new, making[p].key)
           ELSE UNCHANGED <<versions, runs>>
        /\ making' = [making EXCEPT ![p] = Idle]
        /\ UNCHANGED <<clock, eligible, rosters, changes>>

---------------------------------------------------------------------------
(* The stages *)

Ready(run, s) == s \notin run.done /\ run.of.template.after[s] \subseteq run.done

\* _start_stage, with the work that completes it: the owner must still be eligible and nothing
\* reassigns a stage.
Perform(r, s) ==
    /\ Ready(runs[r], s) /\ runs[r].of.owner[s] \in eligible
    /\ runs' = [runs EXCEPT ![r].done = @ \cup {s}]
    /\ UNCHANGED <<clock, eligible, rosters, versions, making, changes>>

Tick ==
    /\ clock < MaxTime
    /\ clock' = clock + 1
    /\ UNCHANGED <<eligible, rosters, versions, runs, making, changes>>

Next ==
    \/ \E roles \in Assignments, from \in 0..MaxTime : CreateRoster(roles, from)
    \/ \E x \in Principal : Change(x)
    \/ \E p \in Process : Store(p) \/ \E t \in Offered, key \in Key : Plan(p, t, key)
    \/ \E r \in 1..Len(runs), s \in Stage : Perform(r, s)
    \/ Tick

Spec == Init /\ [][Next]_vars

---------------------------------------------------------------------------
(* Properties *)

\* However templates and rosters change and whoever creates runs at the same time, a run is what
\* the version of its definition says: the same stages, dependencies and owners.
RunsFollowTheirVersion ==
    \A r \in 1..Len(runs) : SameVersion(runs[r].of) = {runs[r].of}

\* A template that is accepted can be finished: while stages are left, one of them waits for
\* nothing.
NoDeadEnd ==
    \A r \in 1..Len(runs) : runs[r].done # Stage => \E s \in Stage : Ready(runs[r], s)

\* Does not hold: a stage that waits for nothing has an owner who may start it.  An owner who
\* leaves is not replaced, so the run can only be cancelled.
ReadyHasOwner ==
    \A r \in 1..Len(runs) : \A s \in Stage : Ready(runs[r], s) => runs[r].of.owner[s] \in eligible
==============================================================================
