# Auremgrid Company OS in TLA+

Auremgrid Company OS is a local-first "operating system" for agencies: a Python
program over one SQLite database, reached by a single-threaded HTTP server, a CLI,
an MCP server and worker processes.  The processes share nothing but the database
file, so nearly everything that can go wrong between them goes wrong between two SQL
statements.  This directory models the parts of the program whose correctness
depends on such interleavings, on leases and timeouts, on crashes and on retries;
checks them with TLC; and proves the central results with TLAPS.

## The system

### Processes and what they share

| process | code | what it does to the shared state |
| --- | --- | --- |
| HTTP server, CLI, MCP server | `api/http.py`, `cli.py`, `api/mcp.py` | serve requests: everything a person does, and the callbacks and webhooks of providers |
| worker | `services/worker.py`, `services/scheduler.py` | claims one job at a time, runs its handler, reports the outcome |
| operator | `storage/backup.py`, `storage/migrations.py` | takes backups, restores one while everything else is stopped, opens a database of an older version |
| providers | injected transports | are called by sync handlers, imports, the outbound dispatcher, the graph projection and model calls |

SQLite serialises write transactions.  Two kinds of statements are *not* inside one:
a `SELECT` in autocommit mode followed by a write (Python's `sqlite3` opens its implicit
transaction at the first `INSERT`/`UPDATE`/`DELETE`, not at a `SELECT`), and anything
done between two commits, such as a call to a provider.  These are the places where the
models let other processes step in.

### Components

| component | state it keeps | operations | what makes it correct |
| --- | --- | --- | --- |
| Durable job queue (`services/job_ops.py`, `storage/jobs.py`) | `jobs` rows: status, attempts, lease, version | enqueue, claim, heartbeat, succeed, fail, cancel | only the latest holder decides, one job per key, retries bounded, every job closes |
| Generic outbox (same files) | `outbox_events` rows | add, claim a batch, publish, fail | fenced publishing, at-least-once |
| Outbound sends (`services/integration_security.py`) | send intents, their events, approvals, recovery flags | create, decide, dispatch | approval and recovery fence, sent at most once |
| External actions (`services/external_actions.py`) | event, approval request | queue, decide, dispatch | nothing goes out unapproved |
| OAuth and webhook intake (`services/integration_security.py`, `services/secrets.py`) | handshakes, verifiers, installations, tokens, receipts | begin, callback, activate, revoke, receive | one request takes a handshake to the provider |
| Sessions and credentials (`services/auth.py`, `domain/security.py`) | principals, sessions, tokens, invitations | issue, rotate, revoke, invite, redeem | an invitation gives one session, clients stay narrow |
| Agent runs (`services/agent_ops_execution.py`, `services/reversible_actions.py`) | tasks, runs, action executions | start, execute, complete, fail | each approved action is applied once, a run ends |
| Agent thinking (`services/agent_execution.py`) | attempts, results, pending actions | think, persist, finish | one result, spend within the budget |
| Automations (`services/agent_ops_automations.py`) | runs, action executions | trigger, approve, execute, reconcile | unchanged triggers create nothing, each action applied once |
| Workflow runs (`services/workflow_ops_*.py`, `storage/workflows.py`) | run and stage statuses, evidence, decisions, acknowledgements | create, start, submit, decide, acknowledge, complete, block, cancel | a stage completes only after its dependencies, evidence, gate and hand-off |
| Templates and rosters (`workflow_ops_template.py`, `client_ops_roster.py`) | definition versions, rosters, assignments | normalise, assign, create a run | a run is what the version says, an accepted template can be finished |
| Connector sync (`integration_ops_sync.py`, `connectors/google_auth.py`) | stream locks, cursors, batches, inbox events | enqueue, resume, pull, ingest, promote, release | the cursor never passes an event that was not ingested |
| Provider routes (`storage/sqlite.py`, `connectors/google_drive.py`) | routes, generations, their tasks | list a root, follow its changes, retire | evidence is visible exactly while a root holds its file |
| Provider imports (`services/provider_imports.py`, `connectors/financial.py`) | records, quarantine, cursors | pull, apply | what the cursor passed is kept or quarantined |
| Calendar and meeting notes (`services/calendar_connector.py`, `services/meeting_notes.py`) | meetings, notes, items | create, hold, capture, close, sync | notes taken before the meeting was closed are in it |
| Onboarding (`services/onboarding.py`) | batches, errors, receipts | preview, commit | a receipt tells the truth |
| Evidence in time (`services/brain_ingestion.py`, `storage/sqlite.py`) | sources with intervals in two times | ingest, show again, retire, search | one version is read of a moment, what was replaced stays so |
| Graph projection (`services/brain_projection.py`, `adapters/graphiti_upstream.py`) | generations, episodes | ingest, rebuild, activate, restore | no committed document is lost by a switch |
| Knowledge (`brain_ops_knowledge_state.py`, `brain_ops_promotion.py`, `brain_ops_resolution.py`) | facts, events, proposals; entities, aliases, merges | extract, promote, resolve, derive; merge, rename | a proposal has one fact, merges end, names stay known |
| Intelligence (`intelligence_orchestrator_*.py`, `intelligence_evaluation_safety.py`, `intelligence_learning.py`, `intelligence_governance.py`, `attribution_ops.py`, `proactive_intelligence.py`) | evaluations, breaker; append-only learning log; snapshots and attention rows | run profiles; record, hand over, decide, attribute; refresh, detect, act | what a run reports was counted; rows of one request stand together; alerts are deserved |
| Retention (`services/retention_ops.py`) | what evidence is made of, audit rows | delete by policy | an erasure is whole and audited |
| Backup and restore (`storage/backup.py`) | database files, manifests | back up, rotate, restore | no committed row is lost, a restored database is fenced |
| Schema and migrations (`storage/migrations.py`) | tables, columns, triggers, the ledger of versions | open | an open that ends leaves the whole schema |

The components that are not modelled are listed with their reasons under "Not modelled"
and in `PROJECT.json`.

SQLite rows and Python objects become functions over small sets of model values; text,
payloads, JSON and formatting are left out, times are ticks.  A statement, transaction or
provider call between which another process can step in is an action of its own; what one
transaction does is one action.

### Facts about the processes that the models rely on

- The HTTP server answers one request at a time, so requests do not overlap each other,
  but the CLI, the MCP server and any number of workers overlap them and each other.
  "Caller", "Client", "Approver" and `Process` stand for processes, not for threads.
- All requests of the HTTP server share one connection.  A statement that writes opens a
  transaction on it, an exception does not close it, and the next commit, such as the one
  every authenticated request makes, commits what is open.  `Retention`, `Learning`,
  `Imports` and `Onboarding` model this (`open`, `pending`, `CommitLeftover`).
- `sqlite3.Connection` used as a context manager commits at the end of its block; a `with`
  inside another one commits the outer one's work as well.  `executescript` commits what is
  open and then every statement on its own.
- `IntegrityError` of a unique index reaches the caller and rolls back at most the caller's
  transaction.
- A worker session is one execution of `run_one_job`.  Two sessions may carry one worker
  name: a restarted process uses the name it had before.

## The modules

| module | models | composed with |
| --- | --- | --- |
| `JobContract` | what the queue promises, without clocks | abstract specification of `JobLedger` |
| `JobLedger` | the job queue, and the stream locks that the ends of jobs release | implements `JobContract` |
| `EffectContract` | what approved effects promise: permitted first, once, reported after | abstract specification of the next three |
| `OutboundSend` | `OutboundSendService`, approvals, recovery flags, backup and restore of them | implements `EffectContract`, with restores |
| `Outbox` | the generic outbox | |
| `ExternalAction` | `services/external_actions.py` | |
| `AgentRun` | agent runs and their approved action | uses jobs as `JobContract` promises them, implements `EffectContract` |
| `AgentThink` | `services/agent_execution.py` | |
| `Automation` | automations and their actions | uses jobs as `JobContract` promises them, implements `EffectContract` |
| `WorkflowRun` | one workflow run with all its operations | |
| `Templates` | templates, rosters, definition versions and the creation of runs | makes what `WorkflowRun` starts from |
| `ConnectorSync` | one stream of the inbox | relies on `StreamLockedWhileLive` of `JobLedger` |
| `ProviderRoutes` | several streams over shared files | takes pages as `ConnectorSync` delivers them |
| `Imports` | read-only imports of finance and CRM providers | |
| `Onboarding` | CSV imports | |
| `OAuthIntake` | handshakes, tokens, installations, webhook receipts | |
| `Access` | principals, credentials, invitations, capabilities | |
| `Meetings` | meetings, notes, action items | |
| `Evidence` | versions of evidence, their visibility and the search | |
| `Projection` | graph generations | |
| `Knowledge`, `Entities` | facts and proposals; entities, names and merges | |
| `Orchestration` | runs of specialist profiles, their budget, the breaker | |
| `Learning` | the append-only records of what was recommended and learned | |
| `Attention`, `Detectors` | snapshots and attention rows; what each detector answers | |
| `Retention` | erasure on the shared connection | |
| `Recovery` | backup, rotation and restore as steps on files | |
| `SchemaScripts`, `Migrations` | the scripts of all versions as data; opening a database with them | |

`MCx` modules hold the instances that TLC checks, modules ending in `Proofs` the theorems.
After its properties a module may have a last section of promises that a document, an error
message, a comment or a test makes and the code does not keep, each marked "Does not hold".
They are discussed under "Disagreements".

### Work and its queue

**JobLedger.**  A row has status, attempts, limit, priority, version, key, payload, stream
and a lease (owner, token, time left).  `wait` and `left` are distances from now that `Tick`
counts down to 0.  `enqueue_job` looks its key up in autocommit (`EnqueueLookup`) and inserts
later (`EnqueueInsert`); `enqueue_connector_sync` does both in one transaction
(`EnqueueSync`) and takes the stream lock.  `ClaimJob` picks the candidate that the
`ORDER BY` of `claim_job` picks, waiting or with an expired lease, and gives it a fresh
token.  `HeartbeatJob`, `SucceedJob` and `FailJob` require the lease (status, owner,
token, not expired); the transaction that closes a job also releases its stream.
`ReadForCancel` and `CancelJob` are the two halves of a cancellation with an expected
version.  `Refused` is the error that a session without the lease gets, `Crash` a worker that
dies; since the lease runs on, it also stands for a session that never reports.  A session
remembers the job, token and version of its claim, which makes `OneLiveLease` and
`LatestHolderDecides` statements about what a session believes and what the row says.

**AgentRun, Automation.**  Both use the job of a task or change by `JobContract` alone:
`ClaimJob` grants it under a new ticket, a session may lose its ticket while it is at work
(`MaxExpiries`), and closes the job if the ticket is still the latest.  What is proved about
`JobLedger` is thus what is assumed here.  The handler is one action per transaction:
`CheckRun`, `LookupExecution`, `InsertExecution`, `ApplyAction`, `FinishExecution`, the run's
end.  `effects` counts what was applied under a key, not rows that say so.

**EffectContract.**  What a person who approves something relies on, whichever part carries it
out: `Permit`, `Perform` (once, and only what is permitted), `Tell` (only what took place).  The
refinement mappings say what each part means by these:

| | permitted | took place | reported |
| --- | --- | --- | --- |
| `AgentRun` | a run of the (approved) task was started | `effects` of the key | the execution is `succeeded` |
| `Automation` | a person approved the run, or, by policy, an earlier one of its automation | `effects` of the key | the execution is `succeeded` |
| `OutboundSend` | the intent was created under an approval that was given | the provider accepted it | the intent is `sent` |

A permission outlives the approval being overturned, as in the code: whoever is past the
read acts.  With `Restore` (`RestorableSpec`) permissions and reports go back to those of a backup, and
of what took place only the reported part stays known: the provider may get an intent again that
it had accepted after the backup was made.  `ExternalAction` is no implementation, since
overlapping dispatches call twice (Disagreements, 6), nor is `AgentThink` (10).

**AgentThink.**  One run, its fallback chain and its budget.  Three kinds of executions of it
overlap: the agent execution worker, that worker again after a restart, and the
`agent.think` handler.  Costs are whole numbers, a reported usage is any number up to
`UsageBound`.

**WorkflowRun.**  All operations of `workflow_ops_runs.py` on one run.  Each is `Read` (or
`ReadRun`, `ReadHandoff`) with the guards that the code evaluates in autocommit, and a commit action
that is admitted only if the rows it writes under a version were not written since.  Versions are
compared for equality only with what the same operation read, so a caller carries one bit per row
instead of a number, and the state space is finite without a bound.  A decision is ordered by a
stamp in whole seconds that is taken before the operation reads and waits for the lock:
`ReadToDecide` chooses which of the callers that decide the same stage stamp in an earlier second
and which in a later one, and a caller that is overtaken inserts a decision which is not the latest
(`younger`, `late`).  Of the status of the run it keeps only what `block_stage` decides by
(`RunRead`).

**Templates.**  `Valid` is the normalisation: a rejection goes back to an earlier stage, and the
dependencies form no cycle.  `CreateRoster` supersedes the active roster, `Assignable` resolves each
stage's role in it.  `Plan` is what `create_run` reads, `Store` its transaction: the version of
the definition, which is refused when it is stored already with another snapshot (`Agrees`),
and the run.  `Perform` completes a stage whose dependencies are done, by its owner.

### What leaves the system

**OutboundSend.**  `create_intent` is a check and an insert, `decide_approval` a read and a
write, `dispatch` is read-and-fence, claim, call, record.  The provider counts what it accepts
(`accepted`).  `Backup` copies the database, `Restore` puts the copy back, returns claimed
events to pending, raises the recovery flag and stops every process; `Reenable` and
`LeaveRecovery` are the operator's two switches.  The attempt rows with their unique index are
the set `claimed`.

**Outbox, ExternalAction.**  `Outbox` has adds under a key, batch claims of at most `Limit` due
events, publishing and failing under a token.  The row version is compared in the transaction
that has just read it, so it is left out.  `ExternalAction` has the three operations of its
service, each as a read and a write.  Neither has callers in the source other than tests.

**Orchestration.**  A run has a main thread (`main`: read the policy, fan out, collect, close,
compose, evaluate, save) and one `worker` per profile that invokes its provider, looks at the
shared `budget` and charges it, possibly after the deadline of the run.  `events` is the
breaker's window, `evaluation` the row of the run, `CompleteByHand` the endpoint that finishes
an evaluation a crash left open.  A charge stands for tokens and cost alike.

### What comes in

**ConnectorSync.**  One stream.  `Enqueue`, `ClaimJob`, `Resume` (the hand-over of the
reservation to the worker), `ReadCursor`, `RecordPull` (the page becomes a batch of
deduplicated events), `Look`/`Take`/`Ingest` or `IngestFails`/`FailLook`/`FailWrite` for each
event, `ToComplete`/`Complete` for each batch in turn, which promotes the cursor, and `Succeed`
or `FailJob`.  `EventsOf` says which events a page has; the second page of the instance repeats
one of the first.  `Backlog` is the branch for Google sources, which complete every pending
batch of the stream; other sources complete the batch they recorded.  `Routed` says whether the
source stages route mutations.

**ProviderRoutes.**  `place` says which roots hold a file, `content` its revision; `Start` opens
a generation, `ListPage` and `PullChanges` fetch, `Activate` and `Retire` apply one event,
`FinishPage` completes the page and, when the last task of a generation is done, retires what
was not seen.  `keys` and `log` are the deduplication of events by file, revision and kind.
`visible` is the evidence that is current.

**OAuthIntake.**  `Begin` makes a state whose verifier is in the memory of the process and, where a
key is configured, sealed in the vault.  `Callback` reads the row, `TakeVerifier` takes the
verifier, unless the caller brings one; `UseState` is the conditional update that uses the state up,
`Exchange` calls the provider, `ExchangeAgain` calls it once more with positional arguments when the
first call raised `TypeError`, before it asked or after, `Activate` and `StoreToken` write
installation and token.  `Receive` and `Accept` are the two halves of a webhook, its receipt and its
job.

**Imports.**  An account is a feed of versions of objects; `Items` is the page after a cursor,
`Accepted` and `Refused` split it as the adapter does.  `Pull` inserts quarantine rows without
committing them, `Look`/`Insert` keep one record per external id, `Write` the row of the books,
`Finish` the cursor.

**Onboarding.**  `Preview` keeps the valid rows of a file, `Begin`, `AppendRow`,
`ReadWorkspace`/`MakeWorkspace`/`JoinWorkspace` and `WriteReceipt` are a commit; `RollBack` undoes
only what no service has committed meanwhile, `LosesRace` is a row another writer made first.

**Meetings.**  Several processes share the tables.  `Look` is the status that `start_meeting`,
`capture_notes_and_actions` and `close_meeting` check, `StartMeeting`, `CaptureNotes` and
`CloseMeeting` their updates by id; whatever happened between is not seen.  Recording notes is
`BeginNotes`, `ReadToHold` and `StartMeeting` (the meeting is held if it was not), `WriteNote`,
`ReadToCopy` and `CopyToMeeting`, three transactions.  `Fail` is an error of the database at any of
them: recording passes over it when the meeting is held and when the items are copied.  `Sync` makes
a meeting of every event the process does not remember, `Crash` forgets them.

**Access.**  A request acts with the identity it starts with; what it reads and uses later is
kept in `request`.  `ReadInvite`, then `ConsumeInvite`; `ReadForRevocation`, then `RevokeInvite`;
`Rotate`, then `Renew`.  `RoleCapabilities` is the intersection the code computes, cut down to
four capabilities.

### What is known

**Evidence.**  Each content of a key is a source; `interval` has activated/retired (when this system
showed it) and effective from/until (when it held).  `ReadToIngest` takes the number of the version
and the stamps, before the transaction; `Ingest` is the transaction, refused when the content is
known by then or a version of a later stamp is shown, and ends the interval of the version before.
`Reactivate` shows a version again and `Retire` ends it, on any date the code accepts: that of the
clock, truncated to seconds, or one of the provider.  `AsOf` ranks the intervals of a key the way
the query does.  The search is `Begin` (the sources the reader may see), `AskGraph`, `GraphAnswers`
or `GraphFails`, `Answer`.

**Projection.**  `Commit` stores a document, `ReadActive` and `Upsert` add it to the active
generation afterwards; `ReadDocuments`, `StartGeneration`, `Project`, `Activate` are a rebuild, which
is activated only if the watermark and the generation it started from are the same
(`Current`).  `Crash` and `Restart` are the restoration of generations when the process starts.

**Knowledge.**  `events` is the history of each fact; `Effective` is the state a read takes,
`MayBecome` what the next event may be.  A promotion that contradicts one fact of its claim marks
them all, an ingestion only those it contradicts.  Promotion (`ReadProposal`, `Promote`), resolution
(`ReadConflict`, `Resolve`) and staleness (`ReadOld`, `Derive`) read first.

**Entities.**  `Create`, `ProposeAlias`, `Propose` and `Decide`, which merges or adds a name in one
transaction.  `Resolve` follows the merges made by a moment; it is a recursive function.

**Learning.**  `log` is all tables as one sequence of rows.  A request validates (`Read`), writes
its rows into the open transaction of its process (`Write`; an evaluation writes a lesson only if it
states lessons that are not blank), and commits with its key (`Commit`) or meets the key another
process stored (`WriteMeetsKey`); an exception leaves the rows open until `CommitLeftover`.

**Attention, Detectors.**  A refresh is `Project`, `Compare`, `Number` (the next version),
`Save` or `Abandon`.  `Update` writes the row of a person.  `Detectors` evaluates each of the ten
detectors once (`Detect`) on every assignment of the record values that lie on either side of a
threshold.  Each names a workspace, but for capacity, which is about a person and names none.

### What keeps it

**Retention.**  `db` is what is committed, `view` what the server's connection sees.  A deletion is
`StartDeletion`, `EraseRow` or `SkipRow` for each row of the plan, `FinishDeletion`; `Forbidden` and
`HeldByForeignKey` end it with an exception and leave the transaction open.  `Authenticate` is the
commit of the next request.

**Recovery.**  Backups are `CopyBackup` and `DescribeBackup` (the manifest); `Rotate` keeps the
newest files as the code ranks them; a restore is `VerifySource`, `CopySafety`, `DescribeSafety`,
`CopySource`, `Fence`, `Replace`, and may die after each.  `Damage` alters a file.

**SchemaScripts, Migrations.**  `SchemaScripts` holds the 68 versions of `MIGRATIONS` and `SCHEMA` as
sequences of statements: tables made, renamed, dropped and copied, columns added, triggers made
and dropped.  `Executed` is what a statement does to a database and `Executable` whether it may.
`Migrations` opens one: `Open`, `Execute` statement by statement, `Record` the version, `Fail`,
`Crash`.  The column lists of `CREATE TABLE`, bodies of triggers and indexes are left out.

## The runs

A run explores one component or several *side by side*: `MCSending`, `MCWork`, `MCStorage`,
`MCIntelligence` and `MCOffice` instantiate components with variables of their own, a behaviour
picks one of them at the start (`part`, of the set `Parts`) and the others rest at 0.  That checks
the components separately, in one search; it is not a composition, and the properties of a
run say `part = "..." =>` for that reason.  Where components do interact, the interaction is
inside a module: `AgentRun` and `Automation` instantiate `JobContract`, `JobLedger` owns the
stream locks of the sync, `Migrations` executes `SchemaScripts`.

| run | question | instances and bounds |
| --- | --- | --- |
| `ledger_safety` | fencing, idempotency, stream locks, and does the ledger implement `JobContract`? | 2 jobs, 3 sessions under 2 worker names, 2 clients, 1 key, a plain and a sync payload, 5 versions per row, 2 lapses, 1 crash |
| `ledger_liveness` | is every job closed in the end? | 2 jobs, 1 session, 1 client, 3 versions, 1 lapse, 1 crash |
| `sending` | do sends keep `EffectContract` over restores, is what leaves approved, fenced, within its budget? | *send*: 1 intent, 2 dispatchers, callers and approvers, 1 crash, 1 backup and restore; *outbox*: 2 events, 2 publishers, 2 attempts; *action*: 2 actions under 1 key, 2 calls each; *profiles*: 1 run of 2 profiles, a clock of 3 moments, 2 in all of policy changes (so the cap may be raised and lowered again), ticks and deaths |
| `think` | budget, one result, termination | 3 models (the middle one has no provider), 2 workers, 1 handler, 1 crash |
| `automation_safety` | one run per change, does a run keep `EffectContract`, is nothing applied before an approval? | 2 changes sharing a key, 2 callers, 2 sessions, 1 lost lease or crash |
| `work` | are runs, gates and dependencies consistent; do approved actions keep `EffectContract`? | *workflow*: 3 stages with a hand-off, evidence, 2 gates, 2 rework targets, 2 callers, unbounded; *agent*: 2 tasks sharing a key, 2 runs, 2 sessions, 1 lost lease or crash |
| `storage` | is nothing lost, skipped, shown wrongly or half erased? | *retention*: 3 pieces of evidence in 2 workspaces, 2 deletions, 1 crash; *recovery*: 3 files, 1 restore, 1 damage; *migrations*: databases of versions 1, 13, 40, 51 and 58, 1 crash; *projection*: 2 rebuilds of 2 documents or 1 of 3, 1 erasure or crash; *routes*: 2 streams, 1 file on 2 pages, 2 edits, 2 moves or expiries; *sync*: 2 sessions, 2 events on 2 pages, 3 pulls, 2 jobs, 1 of takeover, rotation and crash; *evidence*: 1 key, 2 contents, 2 dates of arrival, 3 moments |
| `intelligence` | do the records of one request stand together, are proposals, merges and alerts right? | *learning*: 2 processes, 2 people, 1 key, 3 requests, 1 change or crash; *facts*: 1 proposal, 2 facts besides, 2 tasks at once; *entities*: 3 entities, 2 names, 2 proposals; *alerts*: 2 workspaces, values on both sides of each threshold; *attention*: 2 findings of which 1 is shown, 2 scopes, 3 refreshes |
| `office` | races of callbacks, invitations, imports, batches, templates and notes | *oauth*: 2 processes, 1 installation, 2 states, 1 tick or crash; *access*: an owner, a client, 1 invitation, 3 credentials; *imports*: 2 accounts sharing an id, 2 versions, 2 pulls, 1 crash; *sheets*: 4 files, 2 batches, 3 commits, 1 crash, a contested workspace; *templates*: 5 templates of 3 stages, with cycles, insisted owners and rejections, 2 rosters, 2 runs; *meetings*: 2 processes, 4 provider events, 2 meetings, 2 notes, 1 crash |
| `outbound_stuck` | is every intent settled in the end?  (It is not.) | `OutboundSend` without a restore, 1 caller and 1 approver |
| `sync_replay` | can a replayed page of a Google source be completed?  (It cannot.) | *sync* with `Backlog`, 3 pulls |
| `migration_rows` | do migrations preserve rows over a crash?  (They do not.) | *migrations* |

Why the bounds are enough.  A hazard of this code takes two actors: one that read, and one
that moved the row before the first wrote.  Every instance has two of each kind of
process that can overlap, so every such pair occurs; a third session in `ledger_safety` gives
a session that comes back after *two* others had the job.  One lapse, takeover or crash puts a
process in the position of acting on stale beliefs; a second one in `ledger_safety` shows
that the first does not use something up.  Attempts are 2 where the code says 3: that gives a
first failure that is retried and a last one that is not; *send* keeps the 3 of the code,
since the number is written in it.  Two contents or pages with an overlap give every order of
arrival; three entities give a chain of merges; the start versions of *migrations* are the
first one and those that lead into each of the scripts that rebuild tables.

Some instances would be too large as they are, and a constraint `Focus` keeps the states that
matter.  `MCJobLedger!Focus` asks for *either* many sessions on one job, *or* two clients
and two jobs under one session: what is left out is overlapping sessions *while* two clients
enqueue a second job, and operations on different jobs touch different rows there, apart from
the stream lock and the choice of the next job to claim, which both cases exercise.
`MCSending!Focus` asks for two publishers at once, or two events with one publisher at a time, and for
two approvers and dispatchers of one external action, or two actions with one of each at a time.
`MCAutomation!Focus` asks for two callers at once while one of the two changes has no run, or
one at a time.
`MCOffice!Focus` asks for webhooks only beside one handshake, a tick or crash beside two handshakes
only while one of the processes rests, at most three versions of objects over both accounts, one
finished action item, no crash beside two notes, two items on one meeting only, and events of the
calendar (two at once) beside no items.  `MCStorage!Focus` asks for a search of evidence only beside
as many intervals and ingests under way as the clock has ticked; `MCIntelligence!Focus` for lessons
only with evaluations, which alone record them.  The others, and these besides, ask for few
disturbances at once: one or two of crashes, lapses, clock ticks, edits and changes by others.

Every property of a passing run has a mutant in `PROJECT.json`: a change of one definition, of
the kind a plausible bug would make, under which the run finds the property violated.

Deadlock.  `CHECK_DEADLOCK FALSE` is given where an instance stops when its ids or bounds
are used up and where the system may rest: a run that is completed, an intent that is
sent.  The runs of the ledger, whose clock never stops, check for deadlock.

### Fairness

Liveness is claimed only where the code drives itself.

- `ledger_liveness`: `run_forever` polls, so a claim that is possible happens; a handler
  returns or its lease runs out; time passes.  Crashes, cancellations and enqueues are not
  fair.  `EveryJobCloses` needs the crashes to be finitely many, which `MaxCrashes` says.
- `think`: an execution that is not dead proceeds.
- `outbound_stuck`: dispatchers proceed and one that is free takes up a pending intent:
  more than the code promises, and the intent is still not settled.

Nothing in the source drives the generic outbox, external actions, workflow runs, imports,
rebuilds or the second half of a sync to an end (each happens because somebody asks for it), so
no liveness is claimed for them.

## What is proved

TLC says that a formula holds for two or three of everything; the proofs say so for any sets
of jobs, sessions, keys, rows and files and any bounds that satisfy the `ASSUME`s of the
modules, which TLC evaluates in the runs.  They ask that bounds are numbers and that the value
for "nobody" or "nothing" is not one of the things themselves; `Outbox` also asks for finitely
many events, `ConnectorSync` that pages are sets of events, `Evidence` that dates are times,
`Entities` for finitely many entities, `Learning` that the author is one of the people, `Meetings` and
`Templates` for finitely many events and stages, `Access` that roles are among those the code knows.
The theorems about `MCSending`, `MCWork`, `MCStorage`, `MCIntelligence` and `MCOffice` are about the
specification that the runs check, but for any value of its constants.

| module of theorems | about |
| --- | --- |
| `JobLedgerProofs` | `JobLedger`, and that it implements `JobContract` |
| `SendingProofs` | `OutboundSend`, `ExternalAction`, `Outbox`, `Orchestration` |
| `WorkProofs` | `AgentRun`, `WorkflowRun` |
| `AutomationProofs` | `Automation` |
| `OfficeProofs` | `OAuthIntake`, `Access`, `Meetings`, `Onboarding`, `Templates`, `Imports` |
| `ThinkProofs` | `AgentThink` |
| `StorageProofs` | `Retention`, `Recovery`, `ConnectorSync`, `Evidence`, `Projection`, `ProviderRoutes` |
| `IntelligenceProofs` | `Learning`, `Knowledge`, `Entities`, `Attention`, `Detectors` |

### The queue

`JobLedgerProofs`, from `LedgerAssumption`:

- `TypeCorrect`.  `TypeInv` is `TypeOK` with what typing needs to be inductive: a job at
  work has been attempted (the exponent of its backoff is a number), and a client about to
  insert or cancel holds a payload or a job.
- `LeaseInvariance`.  `OneLiveLease` is not inductive: a session with a stale token and a
  lease that looks unexpired would break it.  `LeaseInv` adds that tokens are never used
  twice (`TokenInv`), that a session which still believes in its lease knows the row's
  token and time (`HolderInv`), and that an open or closed row bears no lease and a closed
  one only the verdict of its last token (`RowInv`).  `OneLiveLeaseHolds`, `LatestHolderDecidesHolds`,
  `RetriesWithinBudgetHolds` and `ClosedIsFinalHolds` follow.
- `ImplementsContractHolds`: `JobLedger` implements `JobContract`.  `StepShape` shows that
  each step changes no row or one, `PhaseOf` and `OneRowMapped` translate that to the
  abstract variables, and `EdgeIsContractStep` matches it with an abstract action or a
  stutter.
- `OneJobPerKeyHolds`.  The property speaks of answers; they agree because an answer repeats
  the row it names (`Answered`) and no two rows carry one key (`KeyUnique`, which the unique
  index gives at the insert and not at the lookup).
- `StreamLockedWhileLiveHolds`.  `Plain` adds that a lock belongs to a row, rows carry
  payloads, and a client between lookup and insert holds no sync payload: `enqueue_job`
  takes no lock.
- `CancelSawTheJobHolds`, from `Remembers`: as long as a row bears the version a client
  read, it bears the attempts it had then, since every claim raises both.

### What leaves the system

`SendingProofs`:

- Outbound sends, from `OutboundAssumption`.  `AcceptedOnce` is not inductive, because what
  keeps a second dispatcher out is not the lease, which may run out during the call, but the
  attempt row.  `SendInv` therefore says that the attempts up to the recorded number are
  claimed, at most the next one besides (`Consistent`, of the database and of the backup
  alike), that no dispatcher has seen more attempts than there are (`Seen`), and that a
  dispatcher at work holds the next attempt and the token of the event, alone (`Holding`).  A
  claim needs the next attempt to be unclaimed, so it excludes everybody at work and everything
  accepted (`Accounted`).  The same argument shows why `outbound_stuck` fails: an attempt row
  of a dead dispatcher keeps everybody out for good.  `LeaseKeptHolds`,
  `AcceptedOnceHolds`, `IntentMatchesEventHolds`, `GivenUpAfterThreeHolds`,
  `NoCallInRecoveryHolds` and `SentIsFinalHolds` follow.
- `SendsKeepContractHolds`: `OutboundSend` implements `EffectContract`, restores included.  To `SendInv`
  it adds `SignedInv`: every approval the database or the backup shows was given, and every intent
  in either names one (`Agreed`); what the backup holds of an intent is still so (`Later`), which is why
  a restore is one of the contract and reports nothing that was not reported; and a dispatcher
  whose call returned knows of one acceptance (`Checked`).  `StatusStep`, `ApprovedStep` and
  `AcceptedStep` bound what a step writes; a call that returns is `Perform`, the record of it `Tell`,
  a restore `Restore`, and every other step permits or stutters.
- `ActionsAreApprovedHolds`.  An approval is read in one transaction and the provider called
  later, and nothing locks it meanwhile.  `Consent` says that whoever is past the read works on
  an action that was queued and that somebody approved; this outlives every later step because
  consent once given is not forgotten.  `Receipts`: a published action, and a dispatcher about to
  publish one, stand for a call.
- `DeliveriesWithinBudgetHolds` and `HolderDecidesHolds`.  The number of deliveries is not bounded
  by anything the row says at the moment, since a publisher may deliver long after its lease
  ended.  The invariant counts: every token of an event was paid for by an attempt, a token is
  held by one publisher, and what was delivered together with what is still held never exceeds
  the attempts.
- `RunsAreAccountedHolds` (runs of the profiles, any runs and runbooks).  `ProfilesInv` follows two
  threads of reasoning past each other.  What was collected: as long as no worker failed, the
  opinions are the answers of the first profiles in order, whose workers are done and stay so
  (`Collected`); a result that is ready therefore has them all, and a blocked run, whose
  workers never started, has none.  What stopped the run: a cap is only set after the fan-out
  (`Funded`), so the run stored its evaluation (`Started`), and what `complete` reads of it is
  more than the cap in the result; hence the verdict is "capped" and the event is written,
  unless the cap had been raised when `complete` read it (`Stopped`).  The last exception was found
  by the proof: two changes of the policy during one run, which the bound of one change
  had hidden, leave a result that says "capped" although the breaker counted nothing, and
  comparing it with the policy of the end does not tell; so the model keeps what `complete` read.

### Work

`WorkProofs` and `AutomationProofs` take the queue as `JobContract` promises it, so they use of
it only what `ImplementsContractHolds` established.

- `ActionsKeepContractHolds` (agent runs, and automations): both implement `EffectContract`; and
  `OneRunIsAppliedHolds`, `AppliedAfterApprovalHolds` (automations).  Sessions that
  lost their job go on; what keeps them from
  a second effect is the row of the execution, which is inserted once under its key.  The
  invariants (`AgentInv`; `Carried`, `Holding`, `Accounted`) say that past the insert a session is
  alone with its key, that only this session writes what became of it, and what each local
  variable still knows about the rows it was read from.  For agent runs `Assigned` adds that the run
  of a job is one of its task, so what a session applies is permitted (`AtPermitted`).  The step of one
  session is then `Perform` when it applies, `Tell` when it records a success, and a stutter
  otherwise; permissions only grow, since a run keeps its task and a release is not taken back
  (`PermittedGrows`).  `ContractIsKept` says what this gives: nothing takes place twice or without
  permission.  `ClosedJobEndsRunHolds` needs besides
  that each end of a run leaves a row that refuses the next.  `ExecutionIsFinalHolds`: a result
  is not written over.
- `RunSettled`, `RunReflected`, `GatesApproved`, `OrderIsKept` (workflow runs, any template).
  `RunInv` adds three parts.  *Sound*: what a caller checked in autocommit still holds when it
  commits, as long as the row it writes was not written since; this is the argument by which the
  optimistic scheme of the code is right, and the place where approvals and dependencies are
  reasoned about; a gate is read and the completion written under the version of the stage, which
  every rejection raises, also one whose decision is not the latest.  *Sustained*: a waiting run has
  a stage that makes it so, and no caller is about to take that stage away without updating the
  run.  *Remembered*: a completed stage was completed at least once, which outlives its being
  reopened.

- `ThinkProofs`, `ThinkingIsBoundedHolds`.  A call is made only when the whole allowance of its model
  fits into what is left, and is charged no more than that (`Spent`); an answer is recorded before
  it is kept (`Traced`), and since the result of a run is written once, whoever applies a plan saw
  the plan that is kept (`Planned`).

### What comes in

- `OfficeProofs`, `ExchangedOnceHolds`.  Two callbacks may both read a handshake unused and both
  hold its verifier.  `Alone` says that whoever is about to go to the provider is the only one with
  its handshake, which is used up and was not taken there, but by the call of the same request that
  raised `TypeError`; the conditional update (`UseState`) is what makes it so, and `Spent` keeps it
  so.
- `OfficeProofs`, `InviteGivesOneSessionHolds`.  The credential of an invitation is made by the
  update that consumes it, so the invariant has one credential for each consumed invitation and
  none for the others; what a request read before is only of use if that update still finds the
  invitation pending.
- `OfficeProofs`, `NotesReachTheMeetingHolds`.  A note is settled (`Settled`: its items are on the
  meeting, or the meeting was closed once, or an error came) or some process is about to copy it
  (`AtHand`).  A copy is refused by a meeting that is scheduled or closed.  The first does not occur
  without an error: a recording holds the meeting first, and `Fits` carries that the meeting has
  begun past whatever the other processes write by id, since no update makes a meeting scheduled
  again.  The second is in the log of the meeting, which `Logged` keeps although a late update may
  open a closed meeting again.
- `OfficeProofs`, `ReceiptIsTrueHolds`.  The longest of these.  A connection owns rows, errors and
  workspaces that nobody else sees until it commits, and a failure leaves some of them open.
  `Going` says of a commit that every valid row behind it is written whole or has its error in the
  tables or in what its own connection holds; `Honest` says so of a receipt; `Grows` is what the steps
  of the others may do to the tables, and both survive it.
- `OfficeProofs`, `RunsFollowTheirVersionHolds`.  One snapshot of a version is immediate from the
  transaction that compares before it stores.  That an accepted template never leaves a run without
  a stage to do is about the validation itself: `Cleaned` shows that the walk over the dependencies,
  a recursive function, has a solution on the finite set of stages, and `NoCircle` that every
  non-empty set of stages then has one that waits for none of the set.
- `OfficeProofs`, `PassedIsAccountedHolds`.  A process puts the cursor where its page ended, long
  after it fetched the page.  `Fetched` keeps, for the whole import, that each version up to there
  is recorded, in quarantine, in the process's own open transaction or still waiting on its page;
  `EachItem` shows that the adapter leaves nothing of a page out.  `BookedOnce` needs that two
  processes which are about to write have records of different ids.
- `StorageProofs`, `SyncSkipsNothingHolds`.  A cursor is promoted by a batch that the session may have
  recorded long ago.  The invariant shows that only the session with the reservation records and
  completes, hence that the cursor is the one it pulled with, its batch the last of the stream and
  the expected version the one there is (`Ours`); so a completed batch is that of the page at the
  cursor, whose events are all finished.  `Counted` relates the ingests to the row of the event.
- `StorageProofs`, `RoutesFollowRootsHolds`.  The property speaks of a stream that has caught up; the
  invariant says what every other stream still has in hand (`RoutesInv`), for the files that did not
  change since its checkpoint.  A stream that follows the changes has the right route already or an
  event of its page that brings it (`Following`).  A stream that lists its root has the page of each
  of its files to come, or its event, or has marked it as seen, and marks no other (`Listing`);
  so what it retires at the end is what the root does not hold.  Every stream is told of every change,
  which moves a file out of both.  For evidence: whatever is visible is held by a route, and a
  route to the last content keeps that visible (`HeldUp`), since no route is ahead of the
  provider (`NothingAhead`) and a retirement hides only what no other route holds.
- `StorageProofs`, `OneVersionAtATimeHolds` and `NothingGoesBackHolds`.  A key has one interval that
  is open (`OneOpen`), and an interval whose semantic end is open belongs to a key that is shown
  (`GoesOnShown`); one that ended did so when one of its key was retired, or before, unless it never
  held (`EndedBy`).  The dates themselves keep no order: an ingest is stamped before others write,
  and a provider dates back.  So the argument is about ends, not about moments.  As of a moment by
  which all of a key were retired nothing of it holds, since every end is no later than one of the
  retirements; and a retirement, whatever its date, ends all versions of the key that still go on,
  so the one before does not come back.  Versions of one number, which two overlapping ingests take,
  are the exception that is left.  For the search: what it has found was visible to its reader when
  it began (`SearchTypes` and the property itself).

### What is known

`IntelligenceProofs`:

- `LearningInvariance`, which states `AppendedTogether`.  The property is about committed rows, but
  which request commits a row is open: one that failed leaves its rows behind, and any later commit
  of its process takes them along.  So the invariant (`Together`) says of every open transaction
  that its rows, added to the committed ones, leave no row without the one it stands for
  (`Grounded`).  One process at a time has inserted rows (`OneWriter`), since an insert takes the
  write lock; what was learned of a plan is written only when its outcome is there or is being
  written by the same process (`OutcomeFirst`); and a request that has not read has written
  nothing (`ReadsFirst`).
- `PromotedOnceHolds`.  Two reviewers may both read a proposal undecided.  `OneFactEach` says the facts
  of an approved proposal are exactly one and of any other none, which the check inside the
  transaction preserves; `JoinedRows` says what joining a fact to a history does to the
  groups.
- `MergesEndHolds`.  A merge is decided in one transaction that looks at both entities, but the
  proposal may be old.  `Ranked` gives an active entity the number of merged ones as its rank,
  and a merged one less than the entity it leads to: so merges form no cycle and a walk of as many
  steps as there are entities has ended.  The walk is a recursive function; that it exists, is
  unique and depends only on the merges along it is shown through the least number at which it
  would not (`HasLeast`, `UpTo`, `WalkExists`, `WalkUnique`).
- `NamesStayKnownHolds`.  `EntitiesAct` bounds what any step does: names, entities and merges are
  recorded at the present moment and never withdrawn.  A walk at a past moment looks only at earlier
  merges, so it is the same before and after the step.
- `AlertsHoldAlways`.  Of attention: refreshes race for a version, and only the one that stores the
  snapshot writes rows (`RowFollows`).  Of the detectors: each takes either the extreme record or the first
  workspace beyond a threshold, and both are shown to deserve the alert (`FirstBeyondTells`,
  `ExtremeTells`), with a lemma of its own for each detector that does neither.

### What keeps it

`StorageProofs`:

- `ErasureIsWholeHolds`.  The rows that the server's connection sees may be committed by any
  request at any time, so the invariant (`RetentionInv`) is said of them as well: every statement
  group of a deletion leaves whole rows, also where a refusal or a foreign key stops it.
- `RecoveryIsSafeHolds`.  From the safety copy on, every row of the database that is about to be
  replaced is in a file, or was in one that is gone (`Saved`); nobody writes the database meanwhile
  (`Alone`); what replaces it is fenced and without sessions (`FencedCopy`).  Rotation keeps the
  newest described file because a finite set of numbers has a greatest one (`HasGreatest`).
- `NothingLostBySwitchHolds`.  The property lets any upsert count that is under way; the inductive
  invariant may not, since an upsert into a generation that was replaced adds nothing to the
  active one.  `Behind` counts only those that will reach it, and is still no larger than the number
  of erasures since the active generation was read.  Activation compares how many documents
  there are, so it is there that erasures hide documents: two sets of one size miss as many of each
  other's elements (`MissAsMany`), and what a rebuild read and is gone was erased (`ReadFits`).

Theorems only, which no run checks any more because a theorem says more: `TypeOK`, `OneLiveLease`,
`CancelSawTheJob`, `RetriesWithinBudget` and `ClosedIsFinal` of the ledger; `AcceptedOnce`, `LeaseKept`,
`IntentMatchesEvent`, `GivenUpAfterThree` and `SentIsFinal` of sends; `RunReflectsStages` of
workflow runs; `ExecutionIsFinal` of agent runs.

### What is only model-checked

- `EveryJobCloses` and `ThinkingEnds`: liveness is out of the provers' reach.
- `FinishedIsWhole`: what 68 scripts leave is a computation on data, which TLC does and a proof
  would only repeat; it needs induction over the scripts.

## Disagreements

Three of them are runs that end in a counterexample; the others are formulas in the last
section of a module, which TLC refutes when they are put in a configuration, or (where no
formula is named) readings of the code that the models follow.

### Queue, work and sends

1. **An intent is never delivered after a dispatcher died** (`outbound_stuck`,
   `integration_security.py:554`).  The claim commits a row `(intent, attempt, claimed)`
   and `attempts` of the intent is raised only with the outcome.  If the dispatcher dies
   between the two, every later dispatch inserts the same row and fails on the unique
   index.  `docs/jobs-and-recovery.md:37` promises at-least-once publishing.
2. `JobLedger!AttemptsBounded`: `docs/jobs-and-recovery.md:11` promises bounded retry, but
   a reclaim of an expired lease raises `attempts` without looking at `max_attempts`
   (`storage/jobs.py:145`).  Jobs of crashing workers may run more often.
3. `JobLedger!EnqueueIdempotent`: "Enqueue is idempotent" (`docs/jobs-and-recovery.md:9`),
   but of two clients that enqueue at once one gets an `IntegrityError`
   (`services/job_ops.py:76`).  No second job comes into being (`OneJobPerKey`).
4. `OutboundSend!RunbookReopens`: `docs/operations.md:300` has the operator re-enable
   outbound dispatch after a restore; `recovery_mode` stays set and dispatch looks at both
   (`integration_security.py:533`).
5. `OutboundSend!BlockedOnlyWhileFenced`: `docs/secure-integrations.md:25` says sends are
   blocked *while* recovery lasts; an intent dispatched then is `blocked` for good
   (`integration_security.py:535`).
6. `ExternalAction!ReceiptIsFinal`, `DecidedOnce`, `NoCallInRecovery`: two overlapping
   dispatches both call the provider and the second overwrites the receipt
   (`external_actions.py:554`); two decisions are both taken in spite of the error message
   at line 445; `dispatch_action` reads no recovery flag, although
   `docs/jobs-and-recovery.md:67` describes the fence.
7. Generic outbox: an event whose publisher dies at its last attempt stays pending and no
   claim accepts it (`storage/jobs.py:297`).
8. `AgentRun!EndedRunIsFinal`: a completed or failed run may be written once more by a
   session that read it as running (`agent_ops_execution.py:493`), although line 634
   raises for runs that ended.
9. `AgentRun!RunningIsActive`: after a crash between `InsertExecution` and
   `FinishExecution` the execution says `running` for ever and its key refuses further
   actions (`reversible_actions.py:441`), against `docs/agent-model.md:102`.
10. `AgentThink!AppliedOnce`: `tests/test_agent_execution.py:113` expects a plan to be
    applied once; a worker that dies between applying and finishing the pending action
    (`agent_execution.py:597`) applies it again.
11. `Automation!FencedIsFinal`, `SuccessKeepsRunCompleted`: a reclaimed job fails the
    running executions with "stale running automation action fenced", but `_finish`
    (`agent_ops_automations.py:551`) writes by id, so the stale session turns its fenced
    execution into a succeeded one; and it may write a run failed or running that another
    session completed.
12. `WorkflowRun!DecidedWhileWaiting`: an approving decision is inserted without touching the stage
    (`workflow_ops_runs.py:625`), so it may land after the stage moved on, against the message
    "workflow stage is not waiting for approval". `StartedAfterDependencies`: dependencies are read
    before the transaction of `start` (line 444), so a dependency may be reopened in between.
    `ReworkIsApprovedAnew`: a gate that was sent to rework passes with the approval it had (line
    763).  `SentBackIsRejected`: the latest decision is that of the latest second
    (`storage/workflows.py:427`), and the second is taken before the reads and the wait for the lock
    (`workflow_ops_shared.py:46`); a rejection that waited longer than an approval sends the stage
    back and is not its latest decision, so the stage completes on the approval.
13. `Templates!ReadyHasOwner`: owners are resolved when the run is created; one who leaves is
    not replaced, so a stage can wait for a person who may no longer start it.  Two different
    agents as DRI and backup of a roster role are refused as "not distinct".

### Storage

14. **A crash during a migration loses rows** (`migration_rows`).  Versions 52, 53, 59 and 63
    rebuild a table and begin with `DROP TABLE IF EXISTS` of the copy; a process that dies
    between the drop of the original and the rename leaves the rows in the copy alone, the
    next open drops it and fails at the copying `INSERT`.  `docs/upgrade-guide.md:19`
    says "Migrations preserve canonical rows".  A death in the other rebuilds (14, 15, 41) makes
    the next open fail as well, but keeps the rows; everywhere else the next open repairs what was
    left (`HarmedOnlyInRebuilds`).
15. The rebuild of version 59 drops the triggers `provider_mutation_event_key_required`,
    `provider_mutation_identity_no_update`, `provider_mutation_source_bind_once` and
    `provider_mutation_apply_once` and the indexes `idx_provider_mutation_exact_event` and
    `idx_graphiti_episode_scope` with their tables and does not make them again.
16. `Retention!RefusedErasesNothing`: `tests/test_evidence_lifecycle.py:293` expects a refused
    deletion to leave the document and no audit row.  It is so on a connection of its own; on the
    server's, the rows before the refused one stay in the open transaction, which the next
    authenticated request commits.
17. Rotation: `--keep-daily N` keeps the last N backups, not those of N days; a database file in
    the backup directory that has no manifest ranks last and is deleted.  A restore is not
    prevented while the server runs.  Evidence that retention has erased returns with a restore.
    An asset manifest that was verified is never looked at again.
18. `Projection`: the workspace's graph is reported healthy by the next ingestion that succeeds,
    although an earlier document failed to be projected.

### Providers

19. **A replayed page wedges a Google stream** (`sync_replay`,
    `integration_ops_sync.py:370`).  A page that is pulled again after a failed event leaves
    two pending batches with one `cursor_version_before`; both are completed in one
    transaction, the second fails, and so does every later sync.
    `docs/live-connectors.md:46` says "Replayed pages are harmless".
20. `ConnectorSync!ReservedForHolder`: `resume_job_stream` looks at the lock of the job
    only (`integration_ops_sync.py:474`), so a worker that lost the job before it resumed
    takes the reservation from the holder.  `QuarantineBlocksRouted`:
    `tests/test_provider_sync_atomicity.py:193` has a quarantined lifecycle event block the
    cursor, but its mutation belongs to the first batch that had it, and a later batch of
    the same page is completed without it.
21. `ProviderRoutes!RetiresOnlyUnlisted`: "Retire only unseen objects after every generation
    task is durable and complete" (`storage/sqlite.py`, `complete_provider_sync_generation`), but
    an object listed in a revision that the inbox knows is not processed again, hence not
    marked as seen.  A file that was moved away and back unedited is taken for a repetition or
    wedges the stream.  `NeverWedged`: `docs/live-connectors.md:50` promises a degraded integration
    "rather than wedging the stream"; a file moved out of its root without an edit retires at a
    moment before its evidence, which is refused on every attempt.  A slower stream may also
    replace the content a faster one brought by an older one.
22. `Imports!ImportedIsWritten`: a process that dies between the record and the row of the
    books, or an import by a person without finance rights, leaves a record that every later page
    takes for a duplicate.  `CursorOnlyForward`: two imports finish in either order, and a pull
    without a transport stores the cursor it was given.  A changed payload of a known id is
    quarantined, never applied; external ids that two accounts share meet the other account's
    fence; the status says "configured" though rows were quarantined.
23. `OAuthIntake!PresentedOnce`: `complete` takes a `TypeError` of the transport for a sign that it
    knows no named arguments and calls it again (`integration_security.py:266`); one that had asked
    the provider before it raised presents the code twice.  `TokenOfItsAccount`,
    `RevokedHasNoToken`: the token is stored under the workspace of the handshake while health and
    revocation look under that of the installation, and an installation that is re-registered keeps
    the token of the account before.  A handshake is used up although the exchange or the activation
    then fails; verifiers of a process without a vault key do not survive it.
24. `Meetings!NotesAreCopied`: between the note and the copy of its items another process may close
    the meeting, or the database be locked, and the error is passed over (`meeting_notes.py:300`):
    the items are on the note alone and nobody hears of it.  `ClosedIsFinal`: statuses are checked
    before the update by id, so who read a meeting before it was closed opens it again.
    `OneMeetingPerEvent`: what was imported is remembered in memory only, so a restart imports
    again; events without an id share one key and are one meeting.  The status of an action item is
    not passed between its two copies, notes on a closed meeting are not copied, and a meeting is
    held although its note was refused.
25. `Onboarding!RowWrittenOnce`: `docs/operator-runtime.md:56` promises that a commit is
    idempotent; a process that dies before the receipt leaves rows that the next commit writes
    again.  `BatchCommittedOnce`: the unique index covers receipts without errors only.

### People

26. `Access!RevokedGaveNothing`: an invitation redeemed while it is being revoked ends up both.
    `rotate_session` ends the old session in a transaction of its own: a crash locks the person out.

### Knowledge and intelligence

27. `Knowledge!ContradictionIsGrouped`: a source that is shown again is not compared with what
    was ingested meanwhile.  `ResolvedOnce`: two resolutions both pass the check at
    `brain_ops_knowledge_state.py:168`.  `OnlyOldBecomesStale`: a state recorded after the read is
    made stale although it is new (line 68).
28. `Entities!WaitingCanBeApproved`: the row in which a proposed name waits is the one its approval
    would insert, so the unique index refuses it.  Merges across the organization, without a
    workspace, are always refused.
29. `Evidence!NumberedApart`: number and stamp of a version are taken before the transaction
    (`brain_ingestion.py:61`, 76, 204), so two overlapping ingests of one key both store version n +
    1, and a read as of a moment at which both hold shows both.  Only direct ingests and connectors
    overlap so; the sync of an integration wraps the whole of `ingest_text` in a transaction.
    `PastLoses`: an ingest stamped before and written now, or a provider's date of an activation
    (`sqlite.py:771`, `apply_staged_provider_route_mutations`), adds to what is read as of a past
    moment; what remains is `PastKept`.  The current read and a read as of now differ after a
    content came back or arrived late; the entity, neighbour and recent lookups do not drop stale
    facts.
30. `Orchestration!NoLateCharge`: "a late surviving worker can never charge this run again"
    (`intelligence_orchestrator_runs.py:166`) does not hold for one that looked at the budget before
    it was closed.  A late cap closes an open breaker early; an evaluation stays `shadow_only`
    after a crash; raising the cap during a run loses the count of it.
31. `Learning!DecidedOnce`: two processes that read a lesson undecided approve and reject it
    (`intelligence_governance.py:310`).  Rows a loser left in an open transaction are committed
    by the next request (`AppendedTogether` says how far), and an attribution that is evaluated
    again with changed values commits its snapshot and then has its learning refused.
32. `Attention!ActedOnWasApproved`: `docs/intelligence-contracts.md:116` requires an approved request
    for `acted_on`; `update_attention_status` takes the status from anybody.  `ReopenedByNews`: a
    refresh with a runbook stores a snapshot whenever it runs and brings closed items back.
33. `Detectors!HealthIsTold`: "none crossed the alert threshold" (`proactive_intelligence.py:661`) is
    said after a look at the worst score alone; a client whose score is higher but fell is not
    seen.  Overdue, review, anomaly, feedback and expansion name the first workspace, not the
    worst.

## Not modelled

- *Inside modelled parts.*  Level resolution, delegation and trace rows of agent tasks, which no
  step reads back; conditions and templates of automations; idempotency keys of workflow operations
  and their overdue escalations; which of several approval requests is canonical; nested folders,
  cursor expiry, the 20-page bound and the seven-day lease of a stream reservation; sync calls
  without a fence, which only tests make; an import that starts at a cursor of the caller's choice;
  a person who is bound to another actor, and the role check of `bind_actor` (`auth.py:315`); a
  `conflict_group` that the payload of a proposal brings (`brain_ops_promotion.py:48`); the
  creations of one calendar sync as separate transactions; dates of evidence in several text
  formats; repeated fan-out passes of the orchestrator; read models and filters of learning and
  attention; entity resolution candidates; the preview of imports, and analytics providers, whose
  adapters have no HTTP hook; column lists, trigger bodies and indexes of the schema.
- *Worker loop and scheduler*: the loop is in the modules whose handlers it runs; the pause
  flag is one read before a claim.
- *Secret bindings, asset recovery, CRM, revenue, delivery and portal records*: single-row
  writes after a read, under one connection.
- *Understanding and extraction, provider adapters, HTTP routing, dashboards, domain contracts*:
  computation on text, look-ups, validation and I/O.

`PROJECT.json` lists all components with the reason for each.

## Plan

1. *Done.*  The queue, work and outbound path with their proofs (`JobContract`, `JobLedger`,
   `OutboundSend`, `WorkflowRun`; `Outbox`, `ExternalAction`, `AgentRun`, `AgentThink`,
   `Automation`); what comes in (`ConnectorSync`, `ProviderRoutes`, `OAuthIntake`, `Imports`,
   `Onboarding`, `Meetings`, `Access`, `Templates`); what is known (`Evidence`, `Projection`,
   `Knowledge`, `Entities`, `Orchestration`, `Learning`, `Attention`, `Detectors`); what keeps it
   (`Retention`, `Recovery`, `Migrations`).
2. *Prove more.*  Done for the queue, sends, work, thinking, automations, what comes in,
   synchronization, provider routes, evidence, graph generations, retention, recovery, learning,
   knowledge, alerts and the runs of the profiles; and that sends, agent runs and automations
   implement one contract of effects.
3. *Model more.*  Idempotency keys of workflow operations, whose callback commits before
   the key is stored (`workflow_ops_shared.py:48`); nested folders of `ProviderRoutes`; secret
   bindings next to `ConnectorSync`.
4. *Abstract more.*  `ConnectorSync` as the implementation of the pages that `ProviderRoutes` takes.
