--------------------------- MODULE MCIntelligence ----------------------------
(* Small instances of what the system knows and concludes: recommendations  *)
(* and lessons, facts, entities, alerts and their attention items.  A       *)
(* behaviour explores one of them.                                          *)
EXTENDS Learning, TLC

CONSTANTS
    Parts,      \* the parts a run explores
    x, y, Object, FirstStates, Proposal, Says, MaxAge, MaxFacts, MaxRecords, MaxTasks, MaxTime,
    Entity, Name, NoOne, MaxProposals, Workspaces, Ranking, Shown, MaxRefreshes, MaxUpdates

VARIABLES
    part,       \* the part this behaviour explores: the others stay as they begin
    \* Facts
    now, fact, events, decision, task, records, tasks,
    \* Entities
    entitiesNow, created, alias, mergedInto, mergedAt, proposal, proposals,
    \* Alerts
    detector, alertsRecords, item,
    \* Attention
    attentionNow, open, snapshots, row, refresh, refreshes, attentionChanges, updates

\* Processes are interchangeable, and so are the names of entities.
Symmetry == Permutations(Process) \cup Permutations(Name)

\* The proposals say y.
Claims == [r \in Proposal |-> y]

\* x is more urgent than y.
Urgency == <<x, y>>

Facts == INSTANCE Knowledge WITH
    First <- FirstStates

Entities == INSTANCE Entities WITH
    now <- entitiesNow

Alerts == INSTANCE Detectors WITH
    records <- alertsRecords

Attention == INSTANCE Attention WITH
    now <- attentionNow, changes <- attentionChanges

\* The variables of each part; 0 while it is not explored.
FactsVars == <<now, fact, events, decision, task, records, tasks>>
EntitiesVars == <<
    entitiesNow, created, alias, mergedInto, mergedAt, proposal, proposals>>
AlertsVars == <<detector, alertsRecords, item>>
AttentionVars == <<
    attentionNow, open, snapshots, row, refresh, refreshes, attentionChanges, updates>>

FactsRests ==
    /\ now = 0 /\ fact = 0 /\ events = 0 /\ decision = 0 /\ task = 0 /\ records = 0
    /\ tasks = 0
EntitiesRests ==
    /\ entitiesNow = 0 /\ created = 0 /\ alias = 0 /\ mergedInto = 0 /\ mergedAt = 0
    /\ proposal = 0 /\ proposals = 0
AlertsRests ==
    /\ detector = 0 /\ alertsRecords = 0 /\ item = 0
AttentionRests ==
    /\ attentionNow = 0 /\ open = 0 /\ snapshots = 0 /\ row = 0 /\ refresh = 0
    /\ refreshes = 0 /\ attentionChanges = 0 /\ updates = 0

StartAll ==
    /\ part \in Parts
    /\ Init
    /\ part = "learning" \/ Len(log) = 1
    /\ IF part = "facts" THEN Facts!Init ELSE FactsRests
    /\ IF part = "entities" THEN Entities!Init ELSE EntitiesRests
    /\ IF part = "alerts" THEN Alerts!Init ELSE AlertsRests
    /\ IF part = "attention" THEN Attention!Init ELSE AttentionRests

StepOne ==
    /\ UNCHANGED part
    /\ \/ /\ part = "learning" /\ Next
          /\ UNCHANGED <<FactsVars, EntitiesVars, AlertsVars, AttentionVars>>
       \/ /\ part = "facts" /\ Facts!Next
          /\ UNCHANGED <<vars, EntitiesVars, AlertsVars, AttentionVars>>
       \/ /\ part = "entities" /\ Entities!Next
          /\ UNCHANGED <<vars, FactsVars, AlertsVars, AttentionVars>>
       \/ /\ part = "alerts" /\ Alerts!Next
          /\ UNCHANGED <<vars, FactsVars, EntitiesVars, AttentionVars>>
       \/ /\ part = "attention" /\ Attention!Next
          /\ UNCHANGED <<vars, FactsVars, EntitiesVars, AlertsVars>>

allVars == <<part, vars, FactsVars, EntitiesVars, AlertsVars, AttentionVars>>

SideBySide == StartAll /\ [][StepOne]_allVars

ASSUME KnowledgeAssumption == Facts!KnowledgeAssumption
ASSUME EntitiesAssumption == Entities!EntitiesAssumption
ASSUME DetectorsAssumption == Alerts!DetectorsAssumption
ASSUME AttentionAssumption == Attention!AttentionAssumption

\* Few disturbances at once.
Focus ==
    /\ part = "learning" =>
        changes + crashes <= 1 /\ \A p \in Process : request[p].lessons => request[p].op = "evaluated"
    /\ part = "facts" => records + tasks <= 2
    /\ part = "attention" => attentionChanges + updates <= 1

\* A proposal has one fact when it was approved and none otherwise, whoever decides it at
\* the same time, and a promoted fact is compared with every fact.
PromotedOnce ==
    part = "facts" => Facts!TypeOK /\ Facts!PromotedOnce /\ Facts!PromotedIsCompared

\* Wherever merges lead, they end at an active entity.
MergesEnd == part = "entities" => Entities!TypeOK /\ Entities!MergesEnd

\* A name that was known stays known, and what it meant at a moment that has passed does
\* not change, whatever was merged since.
NamesStayKnown ==
    [][part = "entities" => Entities!NameKept /\ Entities!PastKept]_allVars

\* An open alert names a workspace with a record that deserves it, and no workspace is
\* worse off than the one that scope and margin name; a finding has an attention row in a
\* scope exactly when a snapshot of the scope shows it, and the row refers to the last of
\* these, although refreshes race for a version.
AlertsHold ==
    /\ part = "alerts" => Alerts!TypeOK /\ Alerts!AlertsAreDeserved
    /\ part = "attention" => Attention!TypeOK /\ Attention!RowsFollowSnapshots
==============================================================================
