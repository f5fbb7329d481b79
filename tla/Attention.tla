------------------------------ MODULE Attention ------------------------------
(***************************************************************************)
(* Proactive snapshots and the attention items of one person               *)
(* (services/proactive_intelligence.py).  A refresh is a job of the worker *)
(* or a direct call in any process: it projects the canonical records,     *)
(* compares the projection with the latest snapshot, reads the next        *)
(* version, and stores the snapshot, its attention items and their         *)
(* lifecycle rows in one transaction.                                      *)
(*                                                                         *)
(* The same finding may be seen from the workspace and from the executive  *)
(* view; its fingerprint does not tell them apart.                         *)
(***************************************************************************)
EXTENDS Naturals, Sequences, FiniteSets

CONSTANTS
    Process,
    Ranking,        \* the findings, the most urgent first
    Shown,          \* attention items of a snapshot (three in the code)
    MaxTime, MaxRefreshes, MaxChanges, MaxUpdates   \* bounds

AttentionAssumption ==
    /\ Len(Ranking) \in Nat
    /\ MaxTime \in Nat /\ MaxRefreshes \in Nat

Finding == {Ranking[i] : i \in 1..Len(Ranking)}
Scope == {"executive", "workspace"}
Closed == {"resolved", "dismissed"}
Statuses == {"acknowledged", "acted_on"} \cup Closed

VARIABLES
    now,
    open,       \* the findings the canonical records give
    snapshots,  \* of each scope: [at, content, trace]; the version is the place
    row,        \* lifecycle row of each scope and finding: [status, snapshot, approval]
    refresh,    \* what each process is doing
    refreshes, changes, updates

bounds == <<changes, updates>>
vars == <<now, open, snapshots, row, refresh, refreshes, changes, updates>>

NoRow == [status |-> "none", snapshot |-> 0, approval |-> FALSE]
Idle == [at |-> "idle", scope |-> "workspace", since |-> 0, content |-> {}, trace |-> 0, version |-> 0]

TypeOK ==
    /\ now \in 0..MaxTime /\ open \subseteq Finding
    /\ \A s \in Scope : \A v \in 1..Len(snapshots[s]) :
        snapshots[s][v] \in [at: 0..MaxTime, content: SUBSET Finding, trace: 0..MaxRefreshes]
    /\ row \in [Scope -> [Finding ->
        [status: {"none", "new", "resurfaced"} \cup Statuses, snapshot: Nat, approval: BOOLEAN]]]
    /\ refresh \in [Process -> [at: {"idle", "projected", "differs", "numbered"}, scope: Scope,
        since: 0..MaxTime, content: SUBSET Finding, trace: 0..MaxRefreshes, version: Nat]]

Init ==
    /\ now = 0 /\ open \in SUBSET Finding
    /\ snapshots = [s \in Scope |-> <<>>]
    /\ row = [s \in Scope |-> [f \in Finding |-> NoRow]]
    /\ refresh = [p \in Process |-> Idle]
    /\ refreshes = 0 /\ changes = 0 /\ updates = 0

---------------------------------------------------------------------------
(* Refreshing *)

\* The projection, and the trace of an orchestration when the refresh names a runbook.
Project(p, scope, runbook) ==
    /\ refresh[p].at = "idle" /\ refreshes < MaxRefreshes
    /\ runbook => scope = "workspace"
    /\ refreshes' = refreshes + 1
    /\ refresh' = [refresh EXCEPT ![p] =
        [at |-> "projected", scope |-> scope, since |-> now, content |-> open,
         trace |-> IF runbook THEN refreshes' ELSE 0, version |-> 0]]
    /\ UNCHANGED <<now, open, snapshots, row, bounds>>

\* latest_snapshot: the newest projection, and of these the highest version.
Latest(scope) ==
    CHOOSE v \in 1..Len(snapshots[scope]) : \A w \in 1..Len(snapshots[scope]) :
        \/ snapshots[scope][w].at < snapshots[scope][v].at
        \/ snapshots[scope][w].at = snapshots[scope][v].at /\ w <= v

\* _projection_fingerprint: times are left out of it, the trace is not.
Unchanged(r) ==
    /\ snapshots[r.scope] # <<>>
    /\ LET latest == snapshots[r.scope][Latest(r.scope)]
       IN  latest.content = r.content /\ latest.trace = r.trace

Compare(p) ==
    /\ refresh[p].at = "projected"
    /\ refresh' = [refresh EXCEPT ![p] = IF Unchanged(@) THEN Idle ELSE [@ EXCEPT !.at = "differs"]]
    /\ UNCHANGED <<now, open, snapshots, row, refreshes, bounds>>

\* _next_version
Number(p) ==
    /\ refresh[p].at = "differs"
    /\ refresh' = [refresh EXCEPT ![p].at = "numbered",
                                  ![p].version = Len(snapshots[refresh[p].scope]) + 1]
    /\ UNCHANGED <<now, open, snapshots, row, refreshes, bounds>>

\* _attention_items: the first of the ranking.
Items(content) ==
    {f \in content : Cardinality({i \in 1..Len(Ranking) : Ranking[i] \in content /\
        \E j \in i..Len(Ranking) : Ranking[j] = f}) <= Shown}

\* Mutant: no unique index on the version.
AnyVersion(r) == TRUE
\* The version is unique in its scope; a second insert of it is rolled back.
VersionFree(r) == r.version = Len(snapshots[r.scope]) + 1

\* Mutant: a row that is known keeps its snapshot.
OldSnapshot(old, version) ==
    [old EXCEPT !.status = IF @ \in Closed THEN "resurfaced" ELSE IF @ = "none" THEN "new" ELSE @,
                !.snapshot = IF @ = 0 THEN version ELSE @]
\* _sync_attention_lifecycle
Seen(old, version) ==
    [old EXCEPT !.status = IF @ \in Closed THEN "resurfaced" ELSE IF @ = "none" THEN "new" ELSE @,
                !.snapshot = version]

Save(p) ==
    LET r == refresh[p]
    IN  /\ r.at = "numbered" /\ VersionFree(r)
        /\ snapshots' = [snapshots EXCEPT ![r.scope] =
                Append(@, [at |-> r.since, content |-> r.content, trace |-> r.trace])]
        /\ row' = [row EXCEPT ![r.scope] = [f \in Finding |->
                IF f \in Items(r.content) THEN Seen(@[f], r.version) ELSE @[f]]]
        /\ refresh' = [refresh EXCEPT ![p] = Idle]
        /\ UNCHANGED <<now, open, refreshes, bounds>>

\* The version was taken, an exception, or the process dies: nothing was stored, and the job
\* is tried again.
Abandon(p) ==
    /\ refresh[p].at # "idle"
    /\ refresh' = [refresh EXCEPT ![p] = Idle]
    /\ UNCHANGED <<now, open, snapshots, row, refreshes, bounds>>

---------------------------------------------------------------------------
(* The lifecycle of an item *)

\* The row of the person and the fingerprint that the unique index gives first.
Picked(f) == IF row["executive"][f] # NoRow THEN "executive" ELSE "workspace"

Update(scope, f, new) ==
    /\ updates < MaxUpdates /\ updates' = updates + 1
    /\ row[scope][f] # NoRow
    /\ row' = [row EXCEPT ![scope][f] = new]
    /\ UNCHANGED <<now, open, snapshots, refresh, refreshes, changes>>

\* update_attention_status
UpdateStatus(f, status) ==
    LET scope == Picked(f) IN Update(scope, f, [row[scope][f] EXCEPT !.status = status])

\* acknowledge_attention of an approved plan in the workspace: refused when the picked row is
\* that of the executive view.
Acknowledge(f) ==
    /\ Picked(f) = "workspace"
    /\ Update("workspace", f, [row["workspace"][f] EXCEPT !.status = "acknowledged"])

\* mark_action_acted_on: the caller names an approved request of the scope of the row.
ActOn(f) ==
    LET scope == Picked(f)
    IN  Update(scope, f, [row[scope][f] EXCEPT !.status = "acted_on", !.approval = TRUE])

---------------------------------------------------------------------------
(* The canonical records change; time passes. *)

Change(f) ==
    /\ changes < MaxChanges /\ changes' = changes + 1
    /\ open' = IF f \in open THEN open \ {f} ELSE open \cup {f}
    /\ UNCHANGED <<now, snapshots, row, refresh, refreshes, updates>>

Tick ==
    /\ now < MaxTime /\ now' = now + 1
    /\ UNCHANGED <<open, snapshots, row, refresh, refreshes, bounds>>

Next ==
    \/ \E p \in Process :
        \/ \E scope \in Scope, runbook \in BOOLEAN : Project(p, scope, runbook)
        \/ Compare(p) \/ Number(p) \/ Save(p) \/ Abandon(p)
    \/ \E f \in Finding :
        \/ \E status \in Statuses : UpdateStatus(f, status)
        \/ Acknowledge(f) \/ ActOn(f) \/ Change(f)
    \/ Tick

Spec == Init /\ [][Next]_vars

---------------------------------------------------------------------------
(* Properties *)

(* A finding has a lifecycle row in a scope exactly when a stored snapshot   *)
(* of the scope shows it, and the row refers to the last of these: refreshes *)
(* that raced for a version left no row behind (refresh_snapshot,            *)
(* _sync_attention_lifecycle).                                               *)
RowsFollowSnapshots ==
    \A s \in Scope, f \in Finding :
        LET showing == {v \in 1..Len(snapshots[s]) : f \in Items(snapshots[s][v].content)}
        IN  IF row[s][f] = NoRow THEN showing = {}
            ELSE row[s][f].snapshot \in showing /\ \A v \in showing : v <= row[s][f].snapshot

\* Does not hold: "Marking an item acted_on requires an approved, current, same-scope
\* approval request" (docs/intelligence-contracts.md:116): update_attention_status takes
\* the status from any caller.
ActedOnWasApproved ==
    \A s \in Scope, f \in Finding : row[s][f].status = "acted_on" => row[s][f].approval

\* Does not hold: An item that was closed comes back only with a change of the records: a
\* refresh with a runbook stores a snapshot whenever it runs, for its trace is new, and
\* brings it back.
ReopenedByNews ==
    [][\A s \in Scope, f \in Finding :
        (row[s][f].status \in Closed /\ row'[s][f].status = "resurfaced")
        => snapshots'[s][Len(snapshots'[s])].content # snapshots[s][Latest(s)].content]_vars

=============================================================================
