------------------------------ MODULE Detectors ------------------------------
(***************************************************************************)
(* The ten detectors of proactive_intelligence.py, as functions of the     *)
(* canonical records of the workspaces a person may see.  Each answers     *)
(* with one item: "open" with the workspace it is about (0 for a person's  *)
(* capacity, which is of none), "ready", or "insufficient".  The records   *)
(* are the inputs worth telling apart: values on both sides of each        *)
(* threshold.  Workspaces are asked in the order of their ids,             *)
(* 1..Workspaces.                                                          *)
(***************************************************************************)
EXTENDS Integers, FiniteSets

CONSTANT Workspaces

DetectorsAssumption == Workspaces \in Nat

VARIABLES
    detector,   \* which of the detectors is asked
    records,    \* records[w]: the set of records its query may return for w
    item        \* what it answered

vars == <<detector, records, item>>
Workspace == 1..Workspaces

\* What a detector reads of a record.  "level" is the value its threshold is about; "source" a
\* record that only shows there is something to read.
Health == [overall: {60, 79, 80, 90}, drop: {0, 5}, down: BOOLEAN]      \* client_health_snapshots
Levels == [
    overdue_commitment |-> {-1, 0, 1, 2},       \* days an open work item is late
    scope |-> {50, 90, 91, 120},                \* percentage of an allowance
    margin |-> {-10, 24, 25, 40},               \* margin in percent
    stalled_review |-> {47, 48, 49, 72},        \* hours an open review is open
    capacity |-> {-1, 0, 5},                    \* remaining hours of a person
    campaign_anomaly |-> {0, 1, 2},             \* severity of an open anomaly; 0 is a metric
    feedback |-> {1, 2, 3},                     \* occurrences of an undecided pattern
    renewal |-> {-1, 0, 60, 61},                \* days to the renewal of an active contract
    expansion |-> {0, 1, 2}]                    \* value of an open opportunity; 0 is another
Detector == DOMAIN Levels \cup {"health"}
RecordsOf(d) == IF d = "health" THEN Health ELSE Levels[d]

Open(w) == [status |-> "open", workspace |-> w]
Ready == [status |-> "ready", workspace |-> 0]
Insufficient == [status |-> "insufficient", workspace |-> 0]

Sources == {w \in Workspace : records[w] # {}}
All == UNION {records[w] : w \in Workspace}
First(ws) == CHOOSE w \in ws : \A other \in ws : w <= other
Lowest(values) == CHOOSE v \in values : \A other \in values : v <= other
Highest(values) == CHOOSE v \in values : \A other \in values : v >= other
\* The workspace a value came from, the first of them.
From(value) == First({w \in Workspace : value \in records[w]})

---------------------------------------------------------------------------
\* _rows_for_workspaces with rows[0]: the first workspace with a record beyond the threshold.
FirstBeyond(Beyond(_)) ==
    LET beyond == {w \in Workspace : \E level \in records[w] : Beyond(level)}
    IN  IF Sources = {} THEN Insufficient ELSE IF beyond = {} THEN Ready ELSE Open(First(beyond))

\* _latest_workspace_rows: one row of each workspace; only the worst overall score is looked at.
DetectHealth ==
    LET lowest == Lowest({row.overall : row \in All})
        w == First({v \in Sources : \E row \in records[v] : row.overall = lowest})
        worst == CHOOSE row \in records[w] : row.overall = lowest
    IN  IF All = {} THEN Insufficient
        ELSE IF worst.overall < 80 \/ worst.drop >= 5 \/ worst.down THEN Open(w) ELSE Ready

DetectOverdue == FirstBeyond(LAMBDA days : days > 0)
DetectScope ==
    IF All = {} THEN Insufficient
    ELSE IF Highest(All) > 90 THEN Open(From(Highest(All))) ELSE Ready

\* Mutant: the first workspace stands for all.
FirstMargin ==
    IF All = {} THEN Insufficient
    ELSE LET w == First(Sources) IN IF Lowest(records[w]) < 25 THEN Open(w) ELSE Ready
DetectMargin ==
    IF All = {} THEN Insufficient
    ELSE IF Lowest(All) < 25 THEN Open(From(Lowest(All))) ELSE Ready

DetectReview == FirstBeyond(LAMBDA hours : hours > 48)
\* One person of the organization, of no workspace: overloaded is less than no hours left.
DetectCapacity ==
    IF All = {} THEN Insufficient ELSE IF Lowest(All) < 0 THEN Open(0) ELSE Ready
DetectAnomaly == FirstBeyond(LAMBDA severity : severity > 0)
DetectFeedback == FirstBeyond(LAMBDA times : times >= 2)
DetectRenewal ==
    LET due == {days \in All : days \in 0..60}
    IN  IF All = {} THEN Insufficient ELSE IF due = {} THEN Ready ELSE Open(From(Lowest(due)))
DetectExpansion == FirstBeyond(LAMBDA value : value > 0)

Answer ==
    CASE detector = "health" -> DetectHealth
      [] detector = "overdue_commitment" -> DetectOverdue
      [] detector = "scope" -> DetectScope
      [] detector = "margin" -> DetectMargin
      [] detector = "stalled_review" -> DetectReview
      [] detector = "capacity" -> DetectCapacity
      [] detector = "campaign_anomaly" -> DetectAnomaly
      [] detector = "feedback" -> DetectFeedback
      [] detector = "renewal" -> DetectRenewal
      [] detector = "expansion" -> DetectExpansion

NotAsked == [status |-> "not_asked", workspace |-> 0]

\* Health and margin have one current record of a workspace, the others several.
Init ==
    /\ detector \in Detector
    /\ records \in [Workspace -> {rs \in SUBSET RecordsOf(detector) :
            Cardinality(rs) <= IF detector \in {"health", "margin"} THEN 1 ELSE 2}]
    /\ item = NotAsked

Detect == item = NotAsked /\ item' = Answer /\ UNCHANGED <<detector, records>>
Next == Detect
Spec == Init /\ [][Next]_vars

TypeOK ==
    /\ detector \in Detector /\ \A w \in Workspace : records[w] \subseteq RecordsOf(detector)
    /\ item \in [status: {"open", "ready", "insufficient", "not_asked"}, workspace: 0..Workspaces]

---------------------------------------------------------------------------
(* Properties *)

\* What each detector is there to tell, for one record.
Deserved(record) ==
    CASE detector = "health" -> record.overall < 80 \/ record.drop >= 5 \/ record.down
      [] detector = "overdue_commitment" -> record > 0
      [] detector = "scope" -> record > 90
      [] detector = "margin" -> record < 25
      [] detector = "stalled_review" -> record > 48
      [] detector = "capacity" -> record < 0
      [] detector = "campaign_anomaly" -> record > 0
      [] detector = "feedback" -> record >= 2
      [] detector = "renewal" -> record \in 0..60
      [] detector = "expansion" -> record > 0

(* An open item names a workspace, unless it is about a person, with a       *)
(* record that deserves it; except for health, an item is ready only when no *)
(* visible record does; and no workspace is worse off than the one scope and *)
(* margin name.                                                              *)
AlertsAreDeserved ==
    item # NotAsked =>
        /\ item.status = "open" =>
            \E record \in IF detector = "capacity" THEN All ELSE records[item.workspace] : Deserved(record)
        /\ item.status = "ready" /\ detector # "health" => \A record \in All : ~Deserved(record)
        /\ item.status = "insufficient" <=> All = {}
        /\ item.status = "open" =>
            /\ detector = "scope" => Highest(All) \in records[item.workspace]
            /\ detector = "margin" => Lowest(All) \in records[item.workspace]

\* Does not hold: "none crossed the alert threshold", the text of the ready item
\* (proactive_intelligence.py:661). Only the worst score is looked at, so a client whose
\* score is higher but fell is not seen.
HealthIsTold ==
    (item.status = "ready" /\ detector = "health") => \A record \in All : ~Deserved(record)

=============================================================================
