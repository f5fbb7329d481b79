----------------------------- MODULE ConnectorSync -----------------------------
(***************************************************************************)
(* One managed connector stream (services/integration_ops_sync.py and      *)
(* ConnectorInboxRepository of connectors/google_auth.py).  A              *)
(* connector.sync job reserves the stream; a worker that claims the job    *)
(* takes the reservation over, pulls a page at the cursor, records it as a *)
(* batch of deduplicated events, ingests the events under leases of their  *)
(* own and only then promotes the cursor.                                  *)
(*                                                                         *)
(* The stream is reserved exactly while its job is queued or leased        *)
(* (StreamLockedWhileLive of JobLedger), so the lock row is the job's      *)
(* phase and the session that holds the reservation token.  Pages are      *)
(* numbered by the cursor that pulls them.  Provider tasks, backfill       *)
(* generations and the seven-day lease of the reservation are left out.    *)
(***************************************************************************)
EXTENDS Integers, Sequences, FiniteSets

CONSTANTS
    Session, NoSession,     \* executions of run_one_job that may overlap
    Event,                  \* dedupe keys, numbered in the order of the pages
    Pages,                  \* pages of the provider; the cursor after all is Pages
    EventsOf,               \* EventsOf[c]: the events pulled at cursor c
    Backlog,                \* a Google source: every pending batch is completed
    Routed,                 \* a source whose events stage route mutations
    MaxAttempts,            \* connector_source_events.max_attempts
    MaxPulls,               \* bound: recorded batches
    MaxJobs,                \* bound: jobs enqueued for the stream
    MaxTakeovers,           \* bound: claims of a job whose lease ran out
    MaxRotations,           \* bound: rotations of the credential
    MaxCrashes              \* bound: crashes of sessions

ConnectorSyncAssumption ==
    /\ NoSession \notin Session
    /\ Pages \in Nat \ {0} /\ Event \subseteq Nat \ {0}
    /\ EventsOf \in [0..Pages -> SUBSET Event] /\ EventsOf[Pages] = {}
    /\ Backlog \in BOOLEAN /\ Routed \in BOOLEAN
    /\ MaxAttempts \in Nat \ {0}
    /\ {MaxPulls, MaxJobs, MaxTakeovers, MaxRotations, MaxCrashes} \subseteq Nat

VARIABLES
    jobs, job, holder,      \* jobs enqueued, phase of the last, holder of its lease
    reserver, fresh,        \* session with the reservation token; those with the current generation
    cursor, version,        \* connector_cursors: value and version
    batches,                \* connector_ingest_batches in order
    status, tries, owner,   \* connector_source_events by dedupe key
    lapsed,                 \* leased events whose lease ran out
    ingests,                \* ingests[e]: committed ingestions of e
    pc, mine, at, own, ev,  \* sessions: step, job, cursor, batch, event in hand
    sure,                   \* sessions whose event row is as they read it
    takeovers, rotations, crashes

queue == <<jobs, job, holder>>
fences == <<reserver, fresh>>
stream == <<cursor, version, batches>>
inbox == <<status, tries, owner, lapsed, ingests>>
session == <<pc, mine, at, own, ev>>
bounds == <<takeovers, rotations, crashes>>
vars == <<queue, fences, stream, inbox, session, sure, bounds>>

Batch == [version: Nat, after: 0..Pages, events: SUBSET Event, staged: SUBSET Event,
          state: {"pending", "completed"}]

TypeOK ==
    /\ jobs \in 0..MaxJobs /\ job \in {"queued", "leased", "ended"}
    /\ holder \in Session \cup {NoSession} /\ reserver \in Session \cup {NoSession}
    /\ fresh \subseteq Session
    /\ cursor \in 0..Pages /\ version \in Nat
    /\ batches \in Seq(Batch)
    /\ status \in [Event -> {"absent", "pending", "leased", "failed", "ingested", "quarantined"}]
    /\ tries \in [Event -> Nat] /\ ingests \in [Event -> Nat]
    /\ owner \in [Event -> Session \cup {NoSession}]
    /\ lapsed \subseteq {e \in Event : status[e] = "leased"}
    /\ pc \in [Session -> {"idle", "claimed", "resumed", "read", "pulled", "drain", "take",
                           "leased", "failing", "failWrite", "complete", "finish", "succeed",
                           "retry", "fatal"}]
    /\ mine \in [Session -> 0..MaxJobs] /\ at \in [Session -> 0..Pages]
    /\ own \in [Session -> 0..MaxPulls] /\ ev \in [Session -> Event \cup {0}]
    /\ sure \subseteq Session
    /\ takeovers \in 0..MaxTakeovers /\ rotations \in 0..MaxRotations
    /\ crashes \in 0..MaxCrashes

Init ==
    /\ jobs = 0 /\ job = "ended" /\ holder = NoSession
    /\ reserver = NoSession /\ fresh = {}
    /\ cursor = 0 /\ version = 0 /\ batches = <<>>
    /\ status = [e \in Event |-> "absent"]
    /\ tries = [e \in Event |-> 0] /\ ingests = [e \in Event |-> 0]
    /\ owner = [e \in Event |-> NoSession] /\ lapsed = {}
    /\ pc = [s \in Session |-> "idle"] /\ mine = [s \in Session |-> 0]
    /\ at = [s \in Session |-> 0] /\ own = [s \in Session |-> 0]
    /\ ev = [s \in Session |-> 0] /\ sure = {}
    /\ takeovers = 0 /\ rotations = 0 /\ crashes = 0

\* ------------------------------------------------------------ fences and rows

\* Mutant: a write looks at the credential only.
FencedByCredential(s) == s \in fresh

\* The reservation token and the credential generation are still the session's.
Fenced(s) == reserver = s /\ s \in fresh

\* The lease on the event in hand is still the session's.
Leased(s) ==
    /\ status[ev[s]] = "leased" /\ owner[ev[s]] = s
    /\ ev[s] \notin lapsed

\* A write of e makes what others have read of it stale.
Touch(s, e) == sure' = {t \in sure : t # s /\ ev[t] # e}

\* Mutant: an event that will be retried counts as processed.
FinishedOrFailed(e) == status[e] \in {"ingested", "quarantined", "failed"}

\* The event will not be processed again.
Finished(e) == status[e] \in {"ingested", "quarantined"}

Following(c) == IF c < Pages THEN c + 1 ELSE c
HasMore(c) == c + 1 < Pages

Goto(s, step) == pc' = [pc EXCEPT ![s] = step]

\* The session is over and forgets; so is the row it had read.
Leave(s) ==
    /\ Goto(s, "idle")
    /\ mine' = [mine EXCEPT ![s] = 0] /\ at' = [at EXCEPT ![s] = 0]
    /\ own' = [own EXCEPT ![s] = 0] /\ ev' = [ev EXCEPT ![s] = 0]
    /\ sure' = sure \ {s}

\* The end of the job gives the stream back.
EndJob == job' = "ended" /\ holder' = NoSession /\ reserver' = NoSession

\* ------------------------------------------------------------------- the job

\* enqueue_sync: job and reservation in one transaction, refused while one is active.
Enqueue ==
    /\ job = "ended" /\ jobs < MaxJobs
    /\ jobs' = jobs + 1 /\ job' = "queued"
    /\ UNCHANGED <<holder, fences, stream, inbox, session, sure, bounds>>

\* A job that no worker holds can be cancelled.
Cancel ==
    /\ job = "queued"
    /\ EndJob
    /\ UNCHANGED <<jobs, fresh, stream, inbox, session, sure, bounds>>

\* run_one_job claims a due job, or one whose lease ran out.
ClaimJob(s) ==
    /\ pc[s] = "idle"
    /\ \/ job = "queued" /\ UNCHANGED takeovers
       \/ job = "leased" /\ takeovers < MaxTakeovers /\ takeovers' = takeovers + 1
    /\ job' = "leased" /\ holder' = s
    /\ mine' = [mine EXCEPT ![s] = jobs]
    /\ Goto(s, "claimed")
    /\ UNCHANGED <<jobs, fences, stream, inbox, at, own, ev, sure, rotations, crashes>>

\* resume_job_stream hands the reservation to whoever asks for the job's lock,
\* and sync reads the credential binding.
Resume(s) ==
    /\ pc[s] = "claimed"
    /\ IF job # "ended" /\ mine[s] = jobs
       THEN reserver' = s /\ fresh' = fresh \cup {s} /\ Goto(s, "resumed")
       ELSE UNCHANGED fences /\ Goto(s, "fatal")
    /\ UNCHANGED <<queue, stream, inbox, mine, at, own, ev, sure, bounds>>

\* The principal lost its access, or the integration is not verified or not mapped.
Refuse(s) ==
    /\ pc[s] \in {"claimed", "resumed"}
    /\ Goto(s, "fatal")
    /\ UNCHANGED <<queue, fences, stream, inbox, mine, at, own, ev, sure, bounds>>

\* The worker reports success; without the lease the report is refused.
Succeed(s) ==
    /\ pc[s] = "succeed"
    /\ IF holder = s THEN EndJob ELSE UNCHANGED <<job, holder, reserver>>
    /\ Leave(s)
    /\ UNCHANGED <<jobs, fresh, stream, inbox, bounds>>

\* The worker reports the failure: a transport error is retried while attempts last.
FailJob(s) ==
    /\ pc[s] \in {"retry", "fatal"}
    /\ \/ holder = s /\ EndJob
       \/ holder = s /\ pc[s] = "retry" /\ job' = "queued" /\ holder' = NoSession
                     /\ UNCHANGED reserver
       \/ holder # s /\ UNCHANGED <<job, holder, reserver>>
    /\ Leave(s)
    /\ UNCHANGED <<jobs, fresh, stream, inbox, bounds>>

\* ------------------------------------------------------------------ the page

\* sync marks the integration as syncing, behind both fences.
Open(s) ==
    /\ pc[s] = "resumed"
    /\ Goto(s, IF Fenced(s) THEN "read" ELSE "fatal")
    /\ UNCHANGED <<queue, fences, stream, inbox, mine, at, own, ev, sure, bounds>>

\* The cursor is read outside a transaction, and the page is pulled with it.
ReadCursor(s) ==
    /\ pc[s] = "read"
    /\ at' = [at EXCEPT ![s] = cursor]
    /\ Goto(s, "pulled")
    /\ UNCHANGED <<queue, fences, stream, inbox, mine, own, ev, sure, bounds>>

\* The provider refuses, limits or fails the pull.
PullFails(s) ==
    /\ pc[s] = "pulled"
    /\ \E step \in {"retry", "fatal"} : Goto(s, step)
    /\ UNCHANGED <<queue, fences, stream, inbox, mine, at, own, ev, sure, bounds>>

\* Mutant: the batch expects the cursor version that its cursor would have had.
VersionOfPage(s) == at[s]

\* The batch expects the cursor to be as it is when the page is recorded.
ExpectedVersion(s) == version

\* Mutant: the dedupe key is not looked up.
AlwaysNew(e) == TRUE

\* The dedupe key of the event is not known yet.
Unknown(e) == status[e] = "absent"

\* record_pull: the batch, its new events and their route mutations.
RecordPull(s) ==
    LET events == EventsOf[at[s]]
        new == {e \in events : Unknown(e)} IN
    /\ batches' = Append(batches,
            [version |-> ExpectedVersion(s), after |-> Following(at[s]), events |-> events,
             staged |-> IF Routed THEN new ELSE {}, state |-> "pending"])
    /\ status' = [e \in Event |-> IF e \in new THEN "pending" ELSE status[e]]
    /\ lapsed' = lapsed \ new
    /\ own' = [own EXCEPT ![s] = Len(batches) + 1]
    /\ UNCHANGED <<cursor, version, tries, owner, ingests>>

Record(s) ==
    /\ pc[s] = "pulled"
    /\ IF Fenced(s)
       THEN Len(batches) < MaxPulls /\ RecordPull(s) /\ Goto(s, "drain")
       ELSE UNCHANGED <<stream, inbox, own>> /\ Goto(s, "fatal")
    /\ UNCHANGED <<queue, fences, mine, at, ev, sure, bounds>>

\* ---------------------------------------------------------------- the events

\* claim_event may pick e: no pending event is older, and its own lease is over.
Due(e) ==
    /\ \/ status[e] \in {"pending", "failed"}
       \/ e \in lapsed
    /\ \A d \in Event : status[d] = "pending" => e <= d

\* claim_event checks the fences and selects an event, in autocommit.
Look(s) ==
    /\ pc[s] = "drain"
    /\ \/ ~Fenced(s) /\ Goto(s, "fatal") /\ UNCHANGED <<ev, sure>>
       \/ Fenced(s) /\ \E e \in Event :
              /\ Due(e)
              /\ ev' = [ev EXCEPT ![s] = e] /\ sure' = sure \cup {s}
              /\ Goto(s, "take")
       \/ Fenced(s) /\ lapsed = {} /\ (\A e \in Event : status[e] # "pending")
              /\ Goto(s, "complete") /\ UNCHANGED <<ev, sure>>
    /\ UNCHANGED <<queue, fences, stream, inbox, mine, at, own, bounds>>

\* claim_event writes the lease unless the row has changed, and then claims nothing.
Take(s) ==
    LET e == ev[s] IN
    /\ pc[s] = "take"
    /\ IF s \in sure
       THEN /\ status' = [status EXCEPT ![e] = "leased"]
            /\ tries' = [tries EXCEPT ![e] = @ + 1]
            /\ owner' = [owner EXCEPT ![e] = s] /\ lapsed' = lapsed \ {e}
            /\ Touch(s, e) /\ Goto(s, "leased")
       ELSE UNCHANGED <<status, tries, owner, lapsed, sure>> /\ Goto(s, "complete")
    /\ UNCHANGED <<queue, fences, stream, ingests, mine, at, own, ev, bounds>>

\* The lease of an event runs out.
LeaseLapses(e) ==
    /\ status[e] = "leased" /\ e \notin lapsed
    /\ lapsed' = lapsed \cup {e}
    /\ UNCHANGED <<queue, fences, stream, status, tries, owner, ingests, session, sure, bounds>>

\* One transaction behind fences and lease: the source, the event, its mutations.
Ingest(s) ==
    LET e == ev[s] IN
    /\ pc[s] = "leased" /\ Fenced(s) /\ Leased(s)
    /\ status' = [status EXCEPT ![e] = "ingested"]
    /\ owner' = [owner EXCEPT ![e] = NoSession]
    /\ ingests' = [ingests EXCEPT ![e] = @ + 1]
    /\ Touch(s, e) /\ Goto(s, "drain")
    /\ UNCHANGED <<queue, fences, stream, tries, lapsed, mine, at, own, ev, bounds>>

\* The transaction is rolled back: content, fence or lease was refused.
IngestFails(s) ==
    /\ pc[s] = "leased"
    /\ Goto(s, "failing")
    /\ UNCHANGED <<queue, fences, stream, inbox, mine, at, own, ev, sure, bounds>>

\* fail_event checks fences and lease in autocommit; a stale session ends here.
FailLook(s) ==
    /\ pc[s] = "failing"
    /\ IF Fenced(s) /\ Leased(s)
       THEN sure' = sure \cup {s} /\ Goto(s, "failWrite")
       ELSE UNCHANGED sure /\ Goto(s, "fatal")
    /\ UNCHANGED <<queue, fences, stream, inbox, mine, at, own, ev, bounds>>

\* fail_event writes the outcome if the row has not changed; a quarantined event
\* is passed over, any other one sends the job into its retry.
FailWrite(s) ==
    LET e == ev[s]
        outcome == IF tries[e] >= MaxAttempts THEN "quarantined" ELSE "failed" IN
    /\ pc[s] = "failWrite"
    /\ IF s \in sure
       THEN /\ status' = [status EXCEPT ![e] = outcome]
            /\ owner' = [owner EXCEPT ![e] = NoSession] /\ lapsed' = lapsed \ {e}
            /\ Touch(s, e)
       ELSE UNCHANGED <<status, owner, lapsed, sure>>
    /\ Goto(s, IF status'[e] = "quarantined" THEN "drain" ELSE "retry")
    /\ UNCHANGED <<queue, fences, stream, tries, ingests, mine, at, own, ev, bounds>>

\* ----------------------------------------------------------------- the cursor

\* A Google page completes every pending batch of the stream, another its own.
ToComplete(s) ==
    {i \in DOMAIN batches : batches[i].state = "pending" /\ (Backlog \/ i = own[s])}

\* complete_batch: all events processed, all staged mutations applied.
Processed(b) ==
    /\ \A e \in b.events : Finished(e)
    /\ \A e \in b.staged : status[e] = "ingested"

\* Each batch must find the cursor at the version it expects, the ones before it done.
InTurn(s) ==
    \A i \in ToComplete(s) :
        batches[i].version = version + Cardinality({j \in ToComplete(s) : j < i})

Completable(s) ==
    /\ Fenced(s) /\ InTurn(s)
    /\ \A i \in ToComplete(s) : Processed(batches[i])

\* All batches at hand in one transaction, or a retry of the job.
Complete(s) ==
    LET done == ToComplete(s)
        last == CHOOSE i \in done : \A j \in done : j <= i IN
    /\ pc[s] = "complete"
    /\ IF Completable(s)
       THEN /\ cursor' = batches[last].after
            /\ version' = version + Cardinality(done)
            /\ batches' = [i \in DOMAIN batches |->
                    IF i \in done THEN [batches[i] EXCEPT !.state = "completed"] ELSE batches[i]]
            /\ at' = [at EXCEPT ![s] = Following(@)]
            /\ Goto(s, IF HasMore(at[s]) THEN "pulled" ELSE "finish")
       ELSE UNCHANGED <<stream, at>> /\ Goto(s, "retry")
    /\ UNCHANGED <<queue, fences, inbox, mine, own, ev, sure, bounds>>

\* The integration's status is rolled up behind both fences.
Finish(s) ==
    /\ pc[s] = "finish"
    /\ Goto(s, IF Fenced(s) THEN "succeed" ELSE "fatal")
    /\ UNCHANGED <<queue, fences, stream, inbox, mine, at, own, ev, sure, bounds>>

\* ------------------------------------------------------------- disturbances

\* The credential is rotated, verified anew or revoked: its generation moves on.
Rotate ==
    /\ rotations < MaxRotations /\ rotations' = rotations + 1
    /\ fresh' = {}
    /\ UNCHANGED <<queue, reserver, stream, inbox, session, sure, takeovers, crashes>>

\* A worker dies, or its report comes after its lease; the job stays leased.
Crash(s) ==
    /\ pc[s] # "idle" /\ crashes < MaxCrashes /\ crashes' = crashes + 1
    /\ Leave(s)
    /\ UNCHANGED <<queue, fences, stream, inbox, takeovers, rotations>>

Sync(s) ==
    \/ ClaimJob(s) \/ Resume(s) \/ Refuse(s) \/ Open(s) \/ ReadCursor(s)
    \/ PullFails(s) \/ Record(s)
    \/ Look(s) \/ Take(s) \/ Ingest(s) \/ IngestFails(s) \/ FailLook(s) \/ FailWrite(s)
    \/ Complete(s) \/ Finish(s) \/ Succeed(s) \/ FailJob(s)

Next ==
    \/ Enqueue \/ Cancel \/ Rotate
    \/ \E s \in Session : Sync(s) \/ Crash(s)
    \/ \E e \in Event : LeaseLapses(e)

Spec == Init /\ [][Next]_vars

\* ------------------------------------------------------------------ properties

\* The cursor never passes an event that is neither ingested nor quarantined,
\* whoever recorded, claimed or failed it (complete_batch, _promote_cursor).
NothingSkipped ==
    \A c \in 0..(cursor - 1) : \A e \in EventsOf[c] : status[e] \in {"ingested", "quarantined"}

\* An event is ingested at most once, however often its page is pulled, its lease
\* runs out or its session is overtaken (_store_or_reference_event, complete_event).
IngestedOnce == \A e \in Event : ingests[e] <= 1

\* The cursor never moves back: a session that pulled with an old cursor and lost
\* the stream cannot promote what it saw (_assert_stream_fence, _promote_cursor).
CursorMovesOn == cursor' >= cursor
CursorOnlyForward == [][CursorMovesOn]_cursor

\* A page that is replayed after a failure or a crash is harmless: once every event
\* recorded so far is ingested, the holder of the stream can complete its page.
ReplayedPageCompletes ==
    \A s \in Session :
        (/\ pc[s] = "complete" /\ Fenced(s)
         /\ \A e \in Event : status[e] \in {"absent", "ingested"})
            => Completable(s)

\* ------------------------------------ promises that the code does not keep

\* The session that holds the job also holds the reservation once it has resumed:
\* a worker that lost the job before it resumed takes the stream from its holder.
ReservedForHolder ==
    \A s \in Session : pc[s] \in {"read", "pulled", "drain"} /\ holder = s => reserver = s

\* A quarantined event of a routed source blocks the cursor: its mutation belongs to
\* the batch that saw it first, and a later batch of the page completes without it.
QuarantineBlocksRouted ==
    Routed => \A c \in 0..(cursor - 1) : \A e \in EventsOf[c] : status[e] = "ingested"
================================================================================
