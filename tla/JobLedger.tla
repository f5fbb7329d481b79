------------------------------ MODULE JobLedger ------------------------------
(***************************************************************************)
(* The durable job queue: rows of the "jobs" table and the operations of   *)
(* services/job_ops.py and storage/jobs.py on them, called by client       *)
(* processes (HTTP server, CLI, automations) and by worker sessions (one   *)
(* run of services/worker.py each).                                        *)
(*                                                                         *)
(* Every operation runs in one BEGIN IMMEDIATE transaction, so it is one   *)
(* action, except enqueue_job, whose idempotency lookup precedes its       *)
(* transaction.  Timestamps are kept as distances from now: "wait" is      *)
(* available_at - now and "left" is lease_expires_at - now, both stopped   *)
(* at 0, so "<= now" in the code reads "= 0" here.                         *)
(***************************************************************************)
EXTENDS Integers, FiniteSets

CONSTANTS
    Job, NoJob,          \* job ids that can be inserted, and none
    Client,              \* processes that enqueue and cancel
    Session,             \* executions of the worker code that may overlap
    Worker, NoWorker,    \* lease_owner names, and none
    OwnerOf,             \* OwnerOf[s]: the worker name session s runs under
    Key, NoKey,          \* idempotency keys, and none
    Payload, NoPayload,  \* payload hashes, and none
    Stream, NoStream,    \* connector streams a sync job may own, and none
    StreamOf,            \* StreamOf[p]: the stream a connector.sync payload names
    Priority,            \* the priorities callers pass
    AttemptLimit,        \* the max_attempts callers pass
    StartDelay,          \* available_at - now at enqueue
    LeaseTime,           \* the lease_seconds callers pass
    RetryAfter,          \* the retry_after_seconds callers pass
    BackoffUnit,         \* 60 seconds of backoff, in ticks
    MaxVersion,          \* bound: no heartbeat at or beyond this row version
    MaxSlips,            \* bound: ticks in which a session at work loses its lease
    MaxCrashes           \* bound: sessions that vanish without a word

ASSUME LedgerAssumption ==
    /\ NoJob \notin Job
    /\ NoWorker \notin Worker
    /\ OwnerOf \in [Session -> Worker]
    /\ NoKey \notin Key
    /\ NoPayload \notin Payload
    /\ NoStream \notin Stream
    /\ StreamOf \in [Payload -> Stream \cup {NoStream}]
    /\ Priority \subseteq Int
    /\ AttemptLimit \subseteq Nat \ {0}
    /\ StartDelay \subseteq Nat
    /\ LeaseTime \subseteq Nat \ {0}
    /\ RetryAfter \subseteq Nat
    /\ BackoffUnit \in Nat
    /\ MaxVersion \in Nat /\ MaxSlips \in Nat /\ MaxCrashes \in Nat

VARIABLES
    \* The columns of table "jobs" that change, for each job id.
    status, attempts, version,
    wait,       \* available_at - now
    left,       \* lease_expires_at - now
    owner,      \* lease_owner
    token,      \* lease_token, 0 for NULL
    \* The columns insert_job sets for good.
    request,    \* request[j]: its limit, priority, key and payload
    lock,       \* lock[j]: status of the managed stream lock enqueued with j
    \* What processes remember.
    held,       \* held[s]: the job session s claimed and works on
    heldToken,  \* heldToken[s]: the token of that claim
    heldLeft,   \* heldLeft[s]: how long s still believes in its lease
    client,     \* client[c]: what client c read before it writes
    \* Bookkeeping of the model.
    replies,    \* every answer enqueue_job gave, NoJob for an error
    issued,     \* lease tokens handed out: token n is the n-th one (new_id)
    granted,    \* history: granted[j] is the last token handed out for j
    verdict,    \* history: verdict[j] is the token under which j was closed, or 0
    slips,      \* ticks in which some session at work lost its lease
    crashes     \* sessions that vanished

lease == <<left, owner, token>>
session == <<held, heldToken, heldLeft>>
history == <<issued, granted, verdict>>
budget == <<slips, crashes>>
row == <<status, attempts, version, wait, lease, request>>

vars == <<row, lock, session, client, replies, history, budget>>
------------------------------------------------------------------------------
Active == {"leased", "running"}                     \* ACTIVE_JOB_STATUSES
Open == {"queued", "retry_wait"}
Final == {"succeeded", "failed", "dead_letter", "cancelled"}
Status == Active \cup Open \cup Final               \* JOB_STATUSES

Request == [max: Nat, priority: Int, key: Key \cup {NoKey}, payload: Payload \cup {NoPayload}]
Reply == [key: Key \cup {NoKey}, payload: Payload, job: Job \cup {NoJob}]
Errand == [pc: {"idle", "insert", "cancel"}, key: Key \cup {NoKey},
           payload: Payload \cup {NoPayload}, job: Job \cup {NoJob}, version: Nat, seen: Nat]

NoRequest == [max |-> 0, priority |-> 0, key |-> NoKey, payload |-> NoPayload]
NoErrand == [pc |-> "idle", key |-> NoKey, payload |-> NoPayload,
             job |-> NoJob, version |-> 0, seen |-> 0]

TypeOK ==
    /\ status \in [Job -> Status \cup {"absent"}]
    /\ attempts \in [Job -> Nat]
    /\ version \in [Job -> Nat]
    /\ wait \in [Job -> Nat]
    /\ left \in [Job -> Nat]
    /\ owner \in [Job -> Worker \cup {NoWorker}]
    /\ token \in [Job -> Nat]
    /\ request \in [Job -> Request]
    /\ lock \in [Job -> {"none", "active", "released"}]
    /\ held \in [Session -> Job \cup {NoJob}]
    /\ heldToken \in [Session -> Nat]
    /\ heldLeft \in [Session -> Nat]
    /\ client \in [Client -> Errand]
    /\ replies \subseteq Reply
    /\ issued \in Nat
    /\ granted \in [Job -> Nat]
    /\ verdict \in [Job -> Nat]
    /\ slips \in Nat
    /\ crashes \in Nat

Init ==
    /\ status = [j \in Job |-> "absent"]
    /\ attempts = [j \in Job |-> 0]
    /\ version = [j \in Job |-> 0]
    /\ wait = [j \in Job |-> 0]
    /\ left = [j \in Job |-> 0]
    /\ owner = [j \in Job |-> NoWorker]
    /\ token = [j \in Job |-> 0]
    /\ request = [j \in Job |-> NoRequest]
    /\ lock = [j \in Job |-> "none"]
    /\ held = [s \in Session |-> NoJob]
    /\ heldToken = [s \in Session |-> 0]
    /\ heldLeft = [s \in Session |-> 0]
    /\ client = [c \in Client |-> NoErrand]
    /\ replies = {}
    /\ issued = 0
    /\ granted = [j \in Job |-> 0]
    /\ verdict = [j \in Job |-> 0]
    /\ slips = 0
    /\ crashes = 0
------------------------------------------------------------------------------
(* Enqueueing.                                                             *)

Exists(j) == status[j] # "absent"

\* find_job_by_idempotency: the rows that carry key k.
Holders(k) == {j \in Job : k # NoKey /\ Exists(j) /\ request[j].key = k}

\* What the lookup answers when the key is taken: the existing job, or an error
\* when its payload hash differs.
Existing(k, p, r) ==
    /\ r \in Holders(k) \cup {NoJob}
    /\ r = NoJob <=> \A j \in Holders(k) : request[j].payload # p

\* Mutant: the insert without the unique index on (organization, key).
InsertUnchecked(j, k, p) ==
    /\ status[j] = "absent"
    /\ status' = [status EXCEPT ![j] = "queued"]
    /\ version' = [version EXCEPT ![j] = 1]
    /\ \E n \in AttemptLimit, pr \in Priority :
          request' = [request EXCEPT ![j] = [max |-> n, priority |-> pr, key |-> k, payload |-> p]]
    /\ \E d \in StartDelay : wait' = [wait EXCEPT ![j] = d]
    /\ replies' = replies \cup {[key |-> k, payload |-> p, job |-> j]}
    /\ UNCHANGED <<attempts, lease>>

\* insert_job under idx_jobs_idempotency.
InsertJob(j, k, p) ==
    /\ status[j] = "absent"
    /\ Holders(k) = {}
    /\ status' = [status EXCEPT ![j] = "queued"]
    /\ version' = [version EXCEPT ![j] = 1]
    /\ \E n \in AttemptLimit, pr \in Priority :
          request' = [request EXCEPT ![j] = [max |-> n, priority |-> pr, key |-> k, payload |-> p]]
    /\ \E d \in StartDelay : wait' = [wait EXCEPT ![j] = d]
    /\ replies' = replies \cup {[key |-> k, payload |-> p, job |-> j]}
    /\ UNCHANGED <<attempts, lease>>

\* Bound: a client sets out to insert only while Job has an id left for it.
IdLeft ==
    Cardinality({j \in Job : ~Exists(j)}) > Cardinality({c \in Client : client[c].pc = "insert"})

\* enqueue_job up to its transaction: the key is looked up in autocommit mode.
EnqueueLookup(c, k, p) ==
    /\ client[c].pc = "idle"
    /\ StreamOf[p] = NoStream
    /\ \/ /\ Holders(k) # {}
          /\ \E r \in Job \cup {NoJob} :
                Existing(k, p, r) /\ replies' = replies \cup {[key |-> k, payload |-> p, job |-> r]}
          /\ UNCHANGED client
       \/ /\ Holders(k) = {}
          /\ IdLeft
          /\ client' = [client EXCEPT ![c] = [pc |-> "insert", key |-> k, payload |-> p,
                                              job |-> NoJob, version |-> 0, seen |-> 0]]
          /\ UNCHANGED replies
    /\ UNCHANGED <<row, lock, session, history, budget>>

\* The rest of enqueue_job: the insert, or the unique index raises IntegrityError.
EnqueueInsert(c) ==
    LET k == client[c].key
        p == client[c].payload
    IN  /\ client[c].pc = "insert"
        /\ \/ \E j \in Job : InsertJob(j, k, p)
           \/ /\ Holders(k) # {}
              /\ replies' = replies \cup {[key |-> k, payload |-> p, job |-> NoJob]}
              /\ UNCHANGED row
        /\ client' = [client EXCEPT ![c] = NoErrand]
        /\ UNCHANGED <<lock, session, history, budget>>

\* The jobs whose managed lock on stream st is active.
LockHolders(st) ==
    {j \in Job : lock[j] = "active" /\ \E p \in Payload : request[j].payload = p /\ StreamOf[p] = st}

\* enqueue_sync: lookup, insert and stream reservation share one transaction; a
\* key used before returns its job and reserves nothing.
EnqueueSync(c, k, p) ==
    /\ client[c].pc = "idle"
    /\ StreamOf[p] # NoStream
    /\ LockHolders(StreamOf[p]) = {}
    /\ \/ /\ Holders(k) # {}
          /\ \E r \in Job \cup {NoJob} :
                Existing(k, p, r) /\ replies' = replies \cup {[key |-> k, payload |-> p, job |-> r]}
          /\ UNCHANGED <<row, lock>>
       \/ \E j \in Job :
             /\ IdLeft
             /\ InsertJob(j, k, p)
             /\ lock' = [lock EXCEPT ![j] = "active"]
    /\ UNCHANGED <<session, client, history, budget>>
------------------------------------------------------------------------------
(* Claiming and working.                                                   *)

\* Mutant: a job can be claimed when its lease is about to run out.
ClaimableEarly(j) ==
    \/ status[j] \in Open /\ wait[j] = 0
    \/ status[j] \in Active /\ left[j] <= 1

\* Mutant: a job whose worker died is nobody's to claim.
ClaimableOpenOnly(j) == status[j] \in Open /\ wait[j] = 0

\* The WHERE clause find_claimable_job and claim_job share.
Claimable(j) ==
    \/ status[j] \in Open /\ wait[j] = 0
    \/ status[j] \in Active /\ left[j] = 0

\* ORDER BY priority DESC.  Rows of one priority are ordered by timestamps that
\* the distances forget: any of them may be picked.
Candidate(j) ==
    /\ Claimable(j)
    /\ \A k \in Job : Claimable(k) => request[k].priority <= request[j].priority

\* claim_job: a fresh token, one more attempt, whatever max_attempts says.
ClaimJob(s) ==
    /\ held[s] = NoJob
    /\ issued' = issued + 1
    /\ \E j \in Job, d \in LeaseTime :
          /\ Candidate(j)
          /\ status' = [status EXCEPT ![j] = "leased"]
          /\ attempts' = [attempts EXCEPT ![j] = @ + 1]
          /\ version' = [version EXCEPT ![j] = @ + 1]
          /\ left' = [left EXCEPT ![j] = d]
          /\ owner' = [owner EXCEPT ![j] = OwnerOf[s]]
          /\ token' = [token EXCEPT ![j] = issued']
          /\ held' = [held EXCEPT ![s] = j]
          /\ heldToken' = [heldToken EXCEPT ![s] = issued']
          /\ heldLeft' = [heldLeft EXCEPT ![s] = d]
          /\ granted' = [granted EXCEPT ![j] = issued']
    /\ UNCHANGED <<wait, request, lock, client, replies, verdict, budget>>

\* Mutant: the lease test without the fencing token.
LeasedByName(s) ==
    LET j == held[s]
    IN  /\ j # NoJob
        /\ status[j] \in Active
        /\ owner[j] = OwnerOf[s]
        /\ left[j] > 0

\* _leased_job: session s still holds the lease on its job.
Leased(s) ==
    LET j == held[s]
    IN  /\ j # NoJob
        /\ status[j] \in Active
        /\ owner[j] = OwnerOf[s]
        /\ token[j] = heldToken[s]
        /\ left[j] > 0

\* heartbeat_job: the lease is renewed, for longer or for less.
HeartbeatJob(s) ==
    LET j == held[s]
    IN  /\ Leased(s)
        /\ version[j] < MaxVersion
        /\ status' = [status EXCEPT ![j] = "running"]
        /\ version' = [version EXCEPT ![j] = @ + 1]
        /\ \E d \in LeaseTime :
              /\ left' = [left EXCEPT ![j] = d]
              /\ heldLeft' = [heldLeft EXCEPT ![s] = d]
        /\ UNCHANGED <<attempts, wait, owner, token, request, lock, held, heldToken,
                       client, replies, history, budget>>

\* The session ends and forgets its claim.
EndSession(s) ==
    /\ held' = [held EXCEPT ![s] = NoJob]
    /\ heldToken' = [heldToken EXCEPT ![s] = 0]
    /\ heldLeft' = [heldLeft EXCEPT ![s] = 0]

\* Mutant: a dead-lettered job keeps its stream.
ReleasedUnlessDead(j, new) ==
    [lock EXCEPT ![j] = IF @ = "active" /\ new \in Final \ {"dead_letter"} THEN "released" ELSE @]

\* _release_managed_connector_stream, in the transaction that gives j its new status.
ReleaseManagedStream(j, new) ==
    [lock EXCEPT ![j] = IF @ = "active" /\ new \in Final THEN "released" ELSE @]

\* update_job_status as the end of a lease: a new status, the lease columns cleared.
EndLease(j, new) ==
    /\ status' = [status EXCEPT ![j] = new]
    /\ version' = [version EXCEPT ![j] = @ + 1]
    /\ left' = [left EXCEPT ![j] = 0]
    /\ owner' = [owner EXCEPT ![j] = NoWorker]
    /\ token' = [token EXCEPT ![j] = 0]
    /\ lock' = ReleaseManagedStream(j, new)

\* succeed_job
SucceedJob(s) ==
    /\ Leased(s)
    /\ EndLease(held[s], "succeeded")
    /\ verdict' = [verdict EXCEPT ![held[s]] = heldToken[s]]
    /\ EndSession(s)
    /\ UNCHANGED <<attempts, wait, request, client, replies, issued, granted, budget>>

\* _backoff: 60 seconds doubled per attempt, at most an hour.
Backoff(n) == BackoffUnit * (IF n <= 6 THEN <<1, 2, 4, 8, 16, 32>>[n] ELSE 60)

\* fail_job: does the attempt that just failed leave another one?
RetryAllowed(j) == attempts[j] < request[j].max

\* fail_job: a retry waits for its backoff, or longer when the provider asks so.
FailJob(s) ==
    LET j == held[s]
    IN  /\ Leased(s)
        /\ \/ /\ RetryAllowed(j)
              /\ EndLease(j, "retry_wait")
              /\ \E after \in RetryAfter \cup {0} :
                    wait' = [wait EXCEPT ![j] = IF after > Backoff(attempts[j]) THEN after
                                                ELSE Backoff(attempts[j])]
              /\ UNCHANGED verdict
           \/ /\ \/ EndLease(j, "failed")
                 \/ ~RetryAllowed(j) /\ EndLease(j, "dead_letter")
              /\ verdict' = [verdict EXCEPT ![j] = heldToken[s]]
              /\ UNCHANGED wait
        /\ EndSession(s)
        /\ UNCHANGED <<attempts, request, client, replies, issued, granted, budget>>

\* succeed_job and then fail_job raise: run_one_job ends and the row is untouched.
Refused(s) ==
    /\ held[s] # NoJob
    /\ ~Leased(s)
    /\ EndSession(s)
    /\ UNCHANGED <<row, lock, client, replies, history, budget>>
------------------------------------------------------------------------------
(* Cancelling, time and crashes.                                           *)

\* A client reads a job and decides to cancel it, naming the version it saw or none (0).
ReadForCancel(c, j) ==
    /\ client[c].pc = "idle"
    /\ Exists(j)
    /\ \E v \in {0, version[j]} :
          client' = [client EXCEPT ![c] = [pc |-> "cancel", key |-> NoKey, payload |-> NoPayload,
                                           job |-> j, version |-> v, seen |-> attempts[j]]]
    /\ UNCHANGED <<row, lock, session, replies, history, budget>>

\* Mutant: the update without its version test.
CancellableAtAnyVersion(j, expected) == status[j] \in Open

\* cancel_job's update_job_status: an open job, at the version the caller named if any.
Cancellable(j, expected) == status[j] \in Open /\ expected \in {0, version[j]}

\* cancel_job: done or refused.
CancelJob(c) ==
    LET j == client[c].job
    IN  /\ client[c].pc = "cancel"
        /\ \/ /\ Cancellable(j, client[c].version)
              /\ status' = [status EXCEPT ![j] = "cancelled"]
              /\ version' = [version EXCEPT ![j] = @ + 1]
              /\ lock' = ReleaseManagedStream(j, "cancelled")
           \/ /\ ~Cancellable(j, client[c].version)
              /\ UNCHANGED <<status, version, lock>>
        /\ client' = [client EXCEPT ![c] = NoErrand]
        /\ UNCHANGED <<attempts, wait, lease, request, session, replies, history, budget>>

\* The process of a session dies: its claim is forgotten, the row stays leased.
Crash(s) ==
    /\ held[s] # NoJob
    /\ crashes < MaxCrashes
    /\ crashes' = crashes + 1
    /\ EndSession(s)
    /\ UNCHANGED <<row, lock, client, replies, history, slips>>

\* Mutant: a distance that runs on past its date.
LessAndLess(n) == n - 1

\* A distance to a date, one tick later.
Less(n) == IF n = 0 THEN 0 ELSE n - 1

\* The sessions that lose their lease while at work if a tick passes now.
Lapsing == {s \in Session : heldLeft[s] = 1}

Tick ==
    /\ \E j \in Job : wait[j] > 0 \/ left[j] > 0
    /\ Lapsing # {} => slips < MaxSlips
    /\ slips' = IF Lapsing = {} THEN slips ELSE slips + 1
    /\ wait' = [j \in Job |-> Less(wait[j])]
    /\ left' = [j \in Job |-> Less(left[j])]
    /\ heldLeft' = [s \in Session |-> Less(heldLeft[s])]
    /\ UNCHANGED <<status, attempts, version, owner, token, request, lock, held, heldToken,
                   client, replies, history, crashes>>
------------------------------------------------------------------------------
ClientStep(c) ==
    \/ \E k \in Key \cup {NoKey}, p \in Payload : EnqueueLookup(c, k, p)
    \/ EnqueueInsert(c)
    \/ \E k \in Key \cup {NoKey}, p \in Payload : EnqueueSync(c, k, p)
    \/ \E j \in Job : ReadForCancel(c, j)
    \/ CancelJob(c)

Finish(s) == SucceedJob(s) \/ FailJob(s) \/ Refused(s)

SessionStep(s) == ClaimJob(s) \/ HeartbeatJob(s) \/ Finish(s) \/ Crash(s)

Next ==
    \/ \E c \in Client : ClientStep(c)
    \/ \E s \in Session : SessionStep(s)
    \/ Tick

Spec == Init /\ [][Next]_vars

\* Workers keep polling (run_forever) and handlers return; nobody owes a heartbeat,
\* a crash, an enqueue or a cancellation.
Fairness ==
    /\ WF_vars(Tick)
    /\ \A s \in Session : WF_vars(ClaimJob(s)) /\ WF_vars(Finish(s))

FairSpec == Spec /\ Fairness
------------------------------------------------------------------------------
(* Properties.                                                             *)

\* Two sessions never both believe, by their own clocks, that they hold an unexpired
\* lease on one job: claim_job hands a job over only when the lease it last promised,
\* at the claim or at any later heartbeat, has run out.
OneLiveLease ==
    \A s, t \in Session :
        s # t /\ heldLeft[s] > 0 /\ heldLeft[t] > 0 => held[s] # held[t]

\* A job closed by a worker was closed under the last token handed out for it, so a
\* worker whose job was reclaimed never decides its outcome, whatever its name.
LatestHolderDecides ==
    \A j \in Job : verdict[j] # 0 => verdict[j] = granted[j]

\* A final status is final: no late worker, no cancellation and no later claim changes
\* the status, the attempt count or the version of a closed job.
ClosedIsFinal ==
    [][\A j \in Job : status[j] \in Final =>
          /\ status'[j] = status[j]
          /\ attempts'[j] = attempts[j]
          /\ version'[j] = version[j]]_vars

\* All successful answers to one idempotency key name one job and one payload, even
\* when two clients look the key up before either inserts.
OneJobPerKey ==
    \A r, q \in replies :
        r.key = q.key /\ r.key # NoKey /\ r.job # NoJob /\ q.job # NoJob =>
            r.job = q.job /\ r.payload = q.payload

\* A managed stream is locked exactly as long as its sync job is unfinished, and by one
\* job at a time: no way of closing a job leaves the stream locked for good, and no
\* retry runs without the lock.
StreamLockedWhileLive ==
    /\ \A j \in Job : Exists(j) /\ StreamOf[request[j].payload] # NoStream =>
          (lock[j] = "active") = (status[j] \notin Final)
    /\ \A j, k \in Job : j # k /\ lock[j] = "active" /\ lock[k] = "active" =>
          StreamOf[request[j].payload] # StreamOf[request[k].payload]

\* A job waits for a retry only while it has attempts left, and is dead-lettered only
\* when they are used up, however crashes and failures alternate.
RetriesWithinBudget ==
    \A j \in Job :
        /\ status[j] = "retry_wait" => attempts[j] < request[j].max
        /\ status[j] = "dead_letter" => attempts[j] >= request[j].max

\* A cancellation that names the version its caller saw never lands on a job that a
\* worker picked up in between, not even when the job is open again by then.
CancelSawTheJob ==
    [][\A c \in Client :
          client[c].pc = "cancel" /\ client'[c].pc = "idle" /\ client[c].version # 0
             /\ status'[client[c].job] # status[client[c].job] =>
          attempts[client[c].job] = client[c].seen]_vars

\* Every job that is enqueued is eventually closed, if workers poll and handlers return
\* and only MaxCrashes sessions vanish and MaxSlips leases run out under a worker.
EveryJobCloses ==
    \A j \in Job : status[j] = "queued" ~> status[j] \in Final

\* The contract the ledger implements.
Phase(st) ==
    IF st \in Open THEN "waiting"
    ELSE IF st \in Active THEN "held"
    ELSE IF st \in Final THEN "closed" ELSE "absent"

Contract == INSTANCE JobContract WITH
    phase <- [j \in Job |-> Phase(status[j])],
    ticket <- token,
    spent <- 1..issued

\* The ledger implements the contract: clocks, leases, retries and stale workers never
\* make a job do anything the contract does not allow.
ImplementsContract == Contract!Spec
------------------------------------------------------------------------------
(* Promises of the documentation, a test or an error message that the      *)
(* code does not keep: TLC refutes each of them.                           *)

\* What docs/jobs-and-recovery.md calls bounded retry: no job is attempted more often
\* than its max_attempts.
AttemptsBounded == \A j \in Job : attempts[j] <= request[j].max

\* What docs/jobs-and-recovery.md calls idempotent by payload hash: an enqueue is
\* refused only if its key belongs to another payload.
EnqueueIdempotent ==
    \A r \in replies : r.job = NoJob =>
        \E j \in Holders(r.key) : request[j].payload # r.payload
==============================================================================
