------------------------------ MODULE MCStorage ------------------------------
(* Small instances of the parts that keep the database and what is derived  *)
(* from it: retention, backup and restore, migrations, the graph           *)
(* projection, the routes of provider files, connector synchronization and *)
(* evidence in time.                                                       *)
(* They share no state here: a behaviour explores one of them.             *)
EXTENDS Retention, TLC

CONSTANTS
    Parts,      \* the parts a run explores
    doc1, doc2, doc3, here, there, Row, MaxFiles, MaxRestores, MaxDamage, MaxSessions,
    KeepDaily, KeepWeekly, Process, Documents, MaxRebuilds, MaxDeletes, Stream, Session,
    NoSession, Event, Pages, EventsOf, Backlog, Routed, MaxAttempts, MaxPulls, MaxJobs,
    MaxTakeovers, MaxRotations, Key, Contents, Private, Reader, Admin, Dates, NeedsAll,
    PresentOnly, MaxTime, MaxSources, MaxIntervals, Shared, PageOf, MaxEdits, MaxMoves, MaxExpiries

VARIABLES
    part,       \* the part this behaviour explores: the others stay as they begin
    \* Recovery
    live, serving, files, making, step, source, temporary, issued, epoch, gone, unseen,
    restores, damages,
    \* Migrations
    migrationsDb, applied, phase, at, script, unnumbered, held, torn, migrationsCrashes,
    \* Projection
    recorded, documents, generations, episodes, projectionAt, doc, snapshot, gen, health,
    failed, deletes, projectionCrashes,
    \* Routes
    place, content, lost, since, tracking, running, tasks, listed, seen, page, todo, keys,
    staged, log, routes, visible, opened, wedged, deaf, regressed, moves, expiries,
    \* Sync
    jobs, job, holder, reserver, fresh, cursor, version, batches, status, tries, owner, lapsed,
    ingests, pc, mine, syncAt, own, ev, sure, takeovers, rotations, syncCrashes,
    \* Sources
    now, evidenceSource, interval, begun, search

\* Processes, streams and sessions are interchangeable.
Symmetry == Permutations(Process) \cup Permutations(Stream) \cup Permutations(Session)

\* Two pieces of evidence in one workspace and one in another.
Places == doc1 :> here @@ doc2 :> here @@ doc3 :> there

\* The file is on the second page of its folder.
LastPage == doc2 :> 2

\* Two pages; the second repeats the event of the first and adds one.
TwoPages == [c \in 0..Pages |-> IF c = 0 THEN {1} ELSE IF c = 1 THEN {1, 2} ELSE {}]

\* Evidence dated on arrival, or late: in force at 2 and observed at 1.
Held == {<<0, 0>>, <<2, 1>>}

Recovery == INSTANCE Recovery

Migrations == INSTANCE Migrations WITH
    StartVersions <- {1, 13, 40, 51, 58}, db <- migrationsDb, crashes <- migrationsCrashes

Projection == INSTANCE Projection WITH
    at <- projectionAt, crashes <- projectionCrashes

Routes == INSTANCE ProviderRoutes WITH
    File <- Shared

Sync == INSTANCE ConnectorSync WITH
    at <- syncAt, crashes <- syncCrashes

Sources == INSTANCE Evidence WITH
    Content <- Contents, source <- evidenceSource

\* The variables of each part; 0 while it is not explored.
RecoveryVars == <<
    live, serving, files, making, step, source, temporary, issued, epoch, gone, unseen,
    restores, damages>>
MigrationsVars == <<
    migrationsDb, applied, phase, at, script, unnumbered, held, torn, migrationsCrashes>>
ProjectionVars == <<
    recorded, documents, generations, episodes, projectionAt, doc, snapshot, gen, health,
    failed, deletes, projectionCrashes>>
RoutesVars == <<
    place, content, lost, since, tracking, running, tasks, listed, seen, page, todo, keys,
    staged, log, routes, visible, opened, wedged, deaf, regressed, moves, expiries>>
SyncVars == <<
    jobs, job, holder, reserver, fresh, cursor, version, batches, status, tries, owner, lapsed,
    ingests, pc, mine, syncAt, own, ev, sure, takeovers, rotations, syncCrashes>>
SourcesVars == <<now, evidenceSource, interval, begun, search>>

RecoveryRests ==
    /\ live = 0 /\ serving = 0 /\ files = 0 /\ making = 0 /\ step = 0 /\ source = 0
    /\ temporary = 0 /\ issued = 0 /\ epoch = 0 /\ gone = 0 /\ unseen = 0 /\ restores = 0
    /\ damages = 0
MigrationsRests ==
    /\ migrationsDb = 0 /\ applied = 0 /\ phase = 0 /\ at = 0 /\ script = 0
    /\ unnumbered = 0 /\ held = 0 /\ torn = 0 /\ migrationsCrashes = 0
ProjectionRests ==
    /\ recorded = 0 /\ documents = 0 /\ generations = 0 /\ episodes = 0 /\ projectionAt = 0
    /\ doc = 0 /\ snapshot = 0 /\ gen = 0 /\ health = 0 /\ failed = 0 /\ deletes = 0
    /\ projectionCrashes = 0
RoutesRests ==
    /\ place = 0 /\ content = 0 /\ lost = 0 /\ since = 0 /\ tracking = 0 /\ running = 0
    /\ tasks = 0 /\ listed = 0 /\ seen = 0 /\ page = 0 /\ todo = 0 /\ keys = 0 /\ staged = 0
    /\ log = 0 /\ routes = 0 /\ visible = 0 /\ opened = 0 /\ wedged = 0 /\ deaf = 0
    /\ regressed = 0 /\ moves = 0 /\ expiries = 0
SyncRests ==
    /\ jobs = 0 /\ job = 0 /\ holder = 0 /\ reserver = 0 /\ fresh = 0 /\ cursor = 0
    /\ version = 0 /\ batches = 0 /\ status = 0 /\ tries = 0 /\ owner = 0 /\ lapsed = 0
    /\ ingests = 0 /\ pc = 0 /\ mine = 0 /\ syncAt = 0 /\ own = 0 /\ ev = 0 /\ sure = 0
    /\ takeovers = 0 /\ rotations = 0 /\ syncCrashes = 0
SourcesRests ==
    /\ now = 0 /\ evidenceSource = 0 /\ interval = 0 /\ begun = 0 /\ search = 0

StartAll ==
    /\ part \in Parts
    /\ Init
    /\ IF part = "recovery" THEN Recovery!Init ELSE RecoveryRests
    /\ IF part = "migrations" THEN Migrations!Init ELSE MigrationsRests
    /\ IF part = "projection" THEN Projection!Init ELSE ProjectionRests
    /\ IF part = "routes" THEN Routes!Init ELSE RoutesRests
    /\ IF part = "sync" THEN Sync!Init ELSE SyncRests
    /\ IF part = "evidence" THEN Sources!Init ELSE SourcesRests

StepOne ==
    /\ UNCHANGED part
    /\ \/ /\ part = "retention" /\ Next
          /\ UNCHANGED <<RecoveryVars, MigrationsVars, ProjectionVars, RoutesVars, SyncVars, SourcesVars>>
       \/ /\ part = "recovery" /\ Recovery!Next
          /\ UNCHANGED <<vars, MigrationsVars, ProjectionVars, RoutesVars, SyncVars, SourcesVars>>
       \/ /\ part = "migrations" /\ Migrations!Next
          /\ UNCHANGED <<vars, RecoveryVars, ProjectionVars, RoutesVars, SyncVars, SourcesVars>>
       \/ /\ part = "projection" /\ Projection!Next
          /\ UNCHANGED <<vars, RecoveryVars, MigrationsVars, RoutesVars, SyncVars, SourcesVars>>
       \/ /\ part = "routes" /\ Routes!Next
          /\ UNCHANGED <<vars, RecoveryVars, MigrationsVars, ProjectionVars, SyncVars, SourcesVars>>
       \/ /\ part = "sync" /\ Sync!Next
          /\ UNCHANGED <<vars, RecoveryVars, MigrationsVars, ProjectionVars, RoutesVars, SourcesVars>>
       \/ /\ part = "evidence" /\ Sources!Next
          /\ UNCHANGED <<vars, RecoveryVars, MigrationsVars, ProjectionVars, RoutesVars, SyncVars>>

allVars == <<part, vars, RecoveryVars, MigrationsVars, ProjectionVars, RoutesVars, SyncVars, SourcesVars>>

SideBySide == StartAll /\ [][StepOne]_allVars

ASSUME SyncAssumption == Sync!ConnectorSyncAssumption
ASSUME RoutesAssumption == Routes!ProviderRoutesAssumption
ASSUME MigrationsAssumption == Migrations!MigrationsAssumption
ASSUME EvidenceAssumption == Sources!EvidenceAssumption
ASSUME ProjectionAssumption == Projection!ProjectionAssumption
ASSUME RecoveryAssumption == Recovery!RecoveryAssumption

\* Few disturbances at once; two rebuilds of two documents, or one of three.
Focus ==
    /\ part = "routes" => moves + expiries <= 2
    /\ part = "projection" =>
        deletes + projectionCrashes <= 1 /\ recorded + Len(generations) <= 4
    /\ part = "sync" => takeovers + rotations + syncCrashes <= 1
    /\ (part = "evidence" /\ search # Sources!Idle) => now > 0 /\ Len(interval) + Cardinality(begun) <= now

\* A backup, a rotation or a restore, wherever it stops, loses no committed row, a restored
\* database is fenced when it is there, and rotation keeps the newest described backup.
RecoveryIsSafe ==
    [][part = "recovery" =>
        Recovery!RowsKept /\ Recovery!FencedAtOnce /\ Recovery!NewestKept]_allVars

\* An open of the database that ends leaves exactly what an upgrade nobody interrupted
\* leaves, and only a death in one of seven scripts makes it fail or lose rows.
FinishedIsWhole ==
    part = "migrations" => Migrations!FinishedIsWhole /\ Migrations!HarmedOnlyInRebuilds

\* A document that was committed is in the active generation of the graph, or on its way,
\* or its own upsert failed, whoever rebuilds and activates meanwhile.
NothingLostBySwitch ==
    part = "projection" => Projection!TypeOK /\ Projection!NothingLostBySwitch

\* A stream that has caught up refers to exactly the files of its root, and evidence is
\* visible exactly while a root holds its file.
RoutesFollowRoots ==
    part = "routes" => Routes!TypeOK /\ Routes!FollowsItsRoot /\ Routes!VisibleIsHeld

\* The cursor of a stream never passes an event that is neither ingested nor quarantined,
\* and no event is ingested twice, however pages are pulled and sessions overtaken.
SyncSkipsNothing == part = "sync" => Sync!TypeOK /\ Sync!NothingSkipped /\ Sync!IngestedOnce

\* Of a key one version is shown; as of a moment one is read, but for versions of one number,
\* and none when all were retired by then; and the graph answers nothing that was not visible
\* to its reader when the search began.
OneVersionAtATime ==
    part = "evidence" =>
        Sources!TypeOK /\ Sources!OneVersionAtATime /\ Sources!AnswersWereVisible

\* What is ingested, shown again or retired, with whatever date, changes what is read as of a
\* moment only from that date on, and brings nothing back that goes on; and a session that was
\* overtaken never moves the cursor of its stream back.
NothingGoesBack ==
    [][/\ part = "evidence" => Sources!PastKept
       /\ part = "sync" => Sync!CursorMovesOn]_allVars

\* Does not hold: "Migrations preserve canonical rows" (docs/upgrade-guide.md:19).  A process
\* that dies in a script that rebuilds a table may leave the rows in a copy, which the next
\* open drops.
RowsPreserved == part = "migrations" => Migrations!RowsPreserved

\* Does not hold for a Google source: "Replayed pages are harmless" (docs/live-connectors.md).
ReplayedPageCompletes == part = "sync" => Sync!ReplayedPageCompletes
==============================================================================
