---------------------------- MODULE OutboundSend -----------------------------
(***************************************************************************)
(* Outbound sends (OutboundSendService in services/integration_security.py)*)
(* with what they depend on: the approval each send names, the provider    *)
(* installation, the recovery flags, and backup and restore of the whole   *)
(* database (storage/backup.py).                                           *)
(*                                                                         *)
(* dispatch() is four transactions with unprotected gaps: it reads the     *)
(* intent and its fences, claims the outbox event under a lease and a new  *)
(* token, calls the provider outside any transaction, and records the      *)
(* outcome.  The lease's remaining time is "left", stopped at 0.           *)
(***************************************************************************)
EXTENDS Integers, FiniteSets

CONSTANTS
    Intent, NoIntent,      \* ids of send intents, and none
    Key, NoKey,            \* idempotency keys, and none
    Approval, NoApproval,  \* approval requests, and none
    Caller,                \* processes inside create_intent
    Dispatcher,            \* executions of dispatch that may overlap
    Approver,              \* executions of decide_approval that may overlap
    LeaseTime,             \* 60 seconds, in ticks
    MaxCrashes,            \* bound: dispatchers that die
    MaxBackups             \* bound: backups taken, and restores made

ASSUME OutboundAssumption ==
    /\ NoIntent \notin Intent /\ NoKey \notin Key /\ NoApproval \notin Approval
    /\ LeaseTime \in Nat \ {0}
    /\ MaxCrashes \in Nat /\ MaxBackups \in Nat

VARIABLES
    \* The database.
    approval,    \* approval[a]: status of the approval request
    installed,   \* the provider installation is active
    recovery,    \* system_state.recovery_mode is '1'
    dispatchOff, \* system_state.outbound_dispatch is 'disabled'
    key,         \* key[i]: idempotency key of intent i, NoKey before it exists
    names,       \* names[i]: the approval intent i was created under
    status,      \* status[i] of outbound_send_intents
    attempts,    \* attempts[i] of outbound_send_intents
    event,       \* event[i]: status of the intent's outbox event
    token,       \* token[i]: lease token of the outbox event, 0 for NULL
    left,        \* left[i]: lease_expires_at - now of the outbox event
    claimed,     \* claimed[i]: attempt numbers with a 'claimed' row in outbound_send_attempts
    \* What processes remember.
    creating,    \* creating[c]: the key and the approval caller c has checked
    deciding,    \* deciding[r]: the approval approver r has read as pending
    pc, work, seen, mine,  \* dispatcher: step, intent, attempts it read, its token
    \* The provider and the model's bookkeeping.
    accepted,    \* accepted[i]: provider calls that returned, since the last restore
    approved,    \* approved[a]: a was approved at some time
    issued,      \* lease tokens handed out
    saved,       \* the last backup of the database
    backups, restores, crashes

fences == <<approval, installed, recovery, dispatchOff>>
intents == <<key, names, status, attempts>>
events == <<event, token, left, claimed>>
database == <<fences, intents, events>>
dispatchers == <<pc, work, seen, mine>>
disaster == <<saved, backups, restores, crashes>>

vars == <<database, creating, deciding, dispatchers, accepted, approved, issued, disaster>>
------------------------------------------------------------------------------
MaxTries == 3

Idle(d) ==
    /\ pc' = [pc EXCEPT ![d] = "idle"]
    /\ work' = [work EXCEPT ![d] = NoIntent]
    /\ seen' = [seen EXCEPT ![d] = 0]
    /\ mine' = [mine EXCEPT ![d] = 0]

TypeOK ==
    /\ approval \in [Approval -> {"pending", "approved", "rejected"}]
    /\ installed \in BOOLEAN /\ recovery \in BOOLEAN /\ dispatchOff \in BOOLEAN
    /\ key \in [Intent -> Key \cup {NoKey}]
    /\ names \in [Intent -> Approval \cup {NoApproval}]
    /\ status \in [Intent -> {"absent", "pending", "sent", "failed", "blocked"}]
    /\ attempts \in [Intent -> 0..MaxTries]
    /\ event \in [Intent -> {"absent", "pending", "published", "failed"}]
    /\ token \in [Intent -> 0..issued]
    /\ left \in [Intent -> 0..LeaseTime]
    /\ claimed \in [Intent -> SUBSET (1..MaxTries)]
    /\ creating \in [Caller -> [key: Key \cup {NoKey}, approval: Approval \cup {NoApproval}]]
    /\ deciding \in [Approver -> Approval \cup {NoApproval}]
    /\ pc \in [Dispatcher -> {"idle", "block", "claim", "call", "returned", "raised"}]
    /\ work \in [Dispatcher -> Intent \cup {NoIntent}]
    /\ seen \in [Dispatcher -> 0..MaxTries]
    /\ mine \in [Dispatcher -> 0..issued]
    /\ accepted \in [Intent -> Nat]
    /\ approved \in [Approval -> BOOLEAN]
    /\ saved \in [approval: [Approval -> {"pending", "approved", "rejected"}], installed: BOOLEAN,
                 key: [Intent -> Key \cup {NoKey}], names: [Intent -> Approval \cup {NoApproval}],
                 status: [Intent -> {"absent", "pending", "sent", "failed", "blocked"}],
                 attempts: [Intent -> 0..MaxTries],
                 event: [Intent -> {"absent", "pending", "published", "failed"}],
                 claimed: [Intent -> SUBSET (1..MaxTries)]]
    /\ issued \in Nat /\ backups \in Nat /\ restores \in Nat /\ crashes \in Nat

\* What a backup holds of the database; leases and flags do not outlive a restore.
Copy == [approval |-> approval, installed |-> installed, key |-> key, names |-> names,
         status |-> status, attempts |-> attempts, event |-> event, claimed |-> claimed]

Init ==
    /\ approval = [a \in Approval |-> "pending"]
    /\ installed = TRUE
    /\ recovery = FALSE
    /\ dispatchOff = FALSE
    /\ key = [i \in Intent |-> NoKey]
    /\ names = [i \in Intent |-> NoApproval]
    /\ status = [i \in Intent |-> "absent"]
    /\ attempts = [i \in Intent |-> 0]
    /\ event = [i \in Intent |-> "absent"]
    /\ token = [i \in Intent |-> 0]
    /\ left = [i \in Intent |-> 0]
    /\ claimed = [i \in Intent |-> {}]
    /\ creating = [c \in Caller |-> [key |-> NoKey, approval |-> NoApproval]]
    /\ deciding = [r \in Approver |-> NoApproval]
    /\ pc = [d \in Dispatcher |-> "idle"]
    /\ work = [d \in Dispatcher |-> NoIntent]
    /\ seen = [d \in Dispatcher |-> 0]
    /\ mine = [d \in Dispatcher |-> 0]
    /\ accepted = [i \in Intent |-> 0]
    /\ approved = [a \in Approval |-> FALSE]
    /\ issued = 0
    /\ saved = Copy
    /\ backups = 0
    /\ restores = 0
    /\ crashes = 0
------------------------------------------------------------------------------
(* Approvals and the installation.                                         *)

\* decide_approval reads the request in autocommit mode ...
DecideRead(r, a) ==
    /\ deciding[r] = NoApproval
    /\ approval[a] = "pending"
    /\ deciding' = [deciding EXCEPT ![r] = a]
    /\ UNCHANGED <<database, creating, dispatchers, accepted, approved, issued, disaster>>

\* ... and updates it by id alone.
DecideWrite(r, decision) ==
    LET a == deciding[r]
    IN  /\ a # NoApproval
        /\ approval' = [approval EXCEPT ![a] = decision]
        /\ approved' = [approved EXCEPT ![a] = @ \/ decision = "approved"]
        /\ deciding' = [deciding EXCEPT ![r] = NoApproval]
        /\ UNCHANGED <<installed, recovery, dispatchOff, intents, events, creating, dispatchers,
                       accepted, issued, disaster>>

\* OAuthConnectorService.revoke
Revoke ==
    /\ installed
    /\ installed' = FALSE
    /\ UNCHANGED <<approval, recovery, dispatchOff, intents, events, creating, deciding,
                   dispatchers, accepted, approved, issued, disaster>>
------------------------------------------------------------------------------
(* Creating an intent.                                                     *)

\* The two rows of system_state that stop every outbound send.
Fenced == recovery \/ dispatchOff

\* create_intent checks the installation, the approval and the flags, and looks the
\* key up, one autocommit read after the other.
CreateCheck(c, k, a) ==
    /\ creating[c].key = NoKey
    /\ installed
    /\ approval[a] = "approved"
    /\ ~Fenced
    /\ \A i \in Intent : key[i] # k
    /\ creating' = [creating EXCEPT ![c] = [key |-> k, approval |-> a]]
    /\ UNCHANGED <<database, deciding, dispatchers, accepted, approved, issued, disaster>>

\* The unique index on the intents' idempotency key.
KeyFree(k) == \A i \in Intent : key[i] # k

\* The intent and its outbox event are inserted together, or the key was taken meanwhile.
CreateInsert(c) ==
    LET k == creating[c].key
    IN  /\ k # NoKey
        /\ \/ \E i \in Intent :
                 /\ KeyFree(k)
                 /\ status[i] = "absent"
                 /\ key' = [key EXCEPT ![i] = k]
                 /\ names' = [names EXCEPT ![i] = creating[c].approval]
                 /\ status' = [status EXCEPT ![i] = "pending"]
                 /\ event' = [event EXCEPT ![i] = "pending"]
           \/ /\ ~KeyFree(k)
              /\ UNCHANGED <<key, names, status, event>>
        /\ creating' = [creating EXCEPT ![c] = [key |-> NoKey, approval |-> NoApproval]]
        /\ UNCHANGED <<fences, attempts, token, left, claimed, deciding, dispatchers, accepted,
                       approved, issued, disaster>>
------------------------------------------------------------------------------
(* Dispatching.                                                            *)

\* Mutant: the flags are left to the check create_intent made.
SendAllowedUnfenced(i) == installed /\ approval[names[i]] = "approved"

\* The installation, the approval and the recovery flags let intent i out.
SendAllowed(i) == installed /\ approval[names[i]] = "approved" /\ ~Fenced

\* dispatch reads the intent and its fences; sent and blocked ones end here.
DispatchCheck(d, i) ==
    /\ pc[d] = "idle"
    /\ status[i] \in {"pending", "failed"}
    /\ pc' = [pc EXCEPT ![d] = IF SendAllowed(i) THEN "claim" ELSE "block"]
    /\ work' = [work EXCEPT ![d] = i]
    /\ seen' = [seen EXCEPT ![d] = attempts[i]]
    /\ UNCHANGED <<database, creating, deciding, mine, accepted, approved, issued, disaster>>

\* A fence is closed: the intent is blocked, unless it was sent meanwhile.
Block(d) ==
    LET i == work[d]
    IN  /\ pc[d] = "block"
        /\ status' = [status EXCEPT ![i] = IF @ = "sent" THEN @ ELSE "blocked"]
        /\ Idle(d)
        /\ UNCHANGED <<fences, key, names, attempts, events, creating, deciding, accepted,
                       approved, issued, disaster>>

\* Mutant: the claim without the row of outbound_send_attempts.
ClaimableByLease(i, n) == event[i] = "pending" /\ left[i] = 0

\* The event is free, and no attempt of this number was claimed before: the row
\* (intent, attempt, 'claimed') of outbound_send_attempts is unique.
Claimable(i, n) ==
    /\ event[i] = "pending"
    /\ left[i] = 0
    /\ n \notin claimed[i]

\* The claim, under a new token, or an error that leaves everything as it was.
Claim(d) ==
    LET i == work[d]
        n == seen[d] + 1
    IN  /\ pc[d] = "claim"
        /\ \/ /\ Claimable(i, n)
              /\ issued' = issued + 1
              /\ token' = [token EXCEPT ![i] = issued']
              /\ left' = [left EXCEPT ![i] = LeaseTime]
              /\ claimed' = [claimed EXCEPT ![i] = @ \cup {n}]
              /\ mine' = [mine EXCEPT ![d] = issued']
              /\ pc' = [pc EXCEPT ![d] = "call"]
              /\ UNCHANGED <<work, seen>>
           \/ /\ ~Claimable(i, n)
              /\ Idle(d)
              /\ UNCHANGED <<issued, token, left, claimed>>
        /\ UNCHANGED <<fences, intents, event, creating, deciding, accepted, approved, disaster>>

\* transport(payload): the provider is called, outside any transaction.
Call(d) ==
    /\ pc[d] = "call"
    /\ \/ /\ pc' = [pc EXCEPT ![d] = "returned"]
          /\ accepted' = [accepted EXCEPT ![work[d]] = @ + 1]
       \/ /\ pc' = [pc EXCEPT ![d] = "raised"]
          /\ UNCHANGED accepted
    /\ UNCHANGED <<database, creating, deciding, work, seen, mine, approved, issued, disaster>>

\* Mutant: one attempt too few.
GivesUpEarly(n) == n >= MaxTries - 1

\* The failure handler gives up at the third attempt.
GivesUp(n) == n >= MaxTries

\* The call raised: the intent is updated by its id alone, its event under the lease.
RecordFailure(d) ==
    LET i == work[d]
        n == seen[d] + 1
        outcome == IF GivesUp(n) THEN "failed" ELSE "pending"
    IN  /\ pc[d] = "raised"
        /\ status' = [status EXCEPT ![i] = outcome]
        /\ attempts' = [attempts EXCEPT ![i] = n]
        /\ event' = [event EXCEPT ![i] = IF token[i] = mine[d] THEN outcome ELSE @]
        /\ token' = [token EXCEPT ![i] = IF @ = mine[d] THEN 0 ELSE @]
        /\ left' = [left EXCEPT ![i] = IF token[i] = mine[d] THEN 0 ELSE @]
        /\ Idle(d)
        /\ UNCHANGED <<fences, key, names, claimed, creating, deciding, accepted, approved,
                       issued, disaster>>

\* The call returned: event and intent are updated together.
RecordSuccess(d) ==
    LET i == work[d]
    IN  /\ pc[d] = "returned"
        /\ token[i] = mine[d]
        /\ event' = [event EXCEPT ![i] = "published"]
        /\ token' = [token EXCEPT ![i] = 0]
        /\ left' = [left EXCEPT ![i] = 0]
        /\ status' = [status EXCEPT ![i] = "sent"]
        /\ attempts' = [attempts EXCEPT ![i] = @ + 1]
        /\ Idle(d)
        /\ UNCHANGED <<fences, key, names, claimed, creating, deciding, accepted, approved,
                       issued, disaster>>
------------------------------------------------------------------------------
(* Time, crashes, backup and restore.                                      *)

Tick ==
    /\ \E i \in Intent : left[i] > 0
    /\ left' = [i \in Intent |-> IF left[i] = 0 THEN 0 ELSE left[i] - 1]
    /\ UNCHANGED <<fences, intents, event, token, claimed, creating, deciding, dispatchers,
                   accepted, approved, issued, disaster>>

Crash(d) ==
    /\ pc[d] # "idle"
    /\ crashes < MaxCrashes
    /\ crashes' = crashes + 1
    /\ Idle(d)
    /\ UNCHANGED <<database, creating, deciding, accepted, approved, issued, saved, backups,
                   restores>>

\* create_backup: a copy of the database.
Backup ==
    /\ backups < MaxBackups
    /\ backups' = backups + 1
    /\ saved' = Copy
    /\ UNCHANGED <<database, creating, deciding, dispatchers, accepted, approved, issued,
                   restores, crashes>>

\* restore_backup: every process is stopped, the database is as it was, leases are
\* cleared and both flags are raised.
Restore ==
    /\ backups > 0
    /\ restores < MaxBackups
    /\ restores' = restores + 1
    /\ approval' = saved.approval
    /\ installed' = saved.installed
    /\ recovery' = TRUE
    /\ dispatchOff' = TRUE
    /\ key' = saved.key
    /\ names' = saved.names
    /\ status' = saved.status
    /\ attempts' = saved.attempts
    /\ event' = saved.event
    /\ claimed' = saved.claimed
    /\ token' = [i \in Intent |-> 0]
    /\ left' = [i \in Intent |-> 0]
    /\ creating' = [c \in Caller |-> [key |-> NoKey, approval |-> NoApproval]]
    /\ deciding' = [r \in Approver |-> NoApproval]
    /\ pc' = [d \in Dispatcher |-> "idle"]
    /\ work' = [d \in Dispatcher |-> NoIntent]
    /\ seen' = [d \in Dispatcher |-> 0]
    /\ mine' = [d \in Dispatcher |-> 0]
    /\ accepted' = [i \in Intent |-> 0]
    /\ UNCHANGED <<approved, issued, saved, backups, crashes>>

\* The statement of docs/operations.md 7.3 that re-enables outbound dispatch.
Reenable ==
    /\ dispatchOff
    /\ dispatchOff' = FALSE
    /\ UNCHANGED <<approval, installed, recovery, intents, events, creating, deciding,
                   dispatchers, accepted, approved, issued, disaster>>

\* An operator who clears the recovery mode too; no code and no document does.
LeaveRecovery ==
    /\ recovery
    /\ recovery' = FALSE
    /\ UNCHANGED <<approval, installed, dispatchOff, intents, events, creating, deciding,
                   dispatchers, accepted, approved, issued, disaster>>
------------------------------------------------------------------------------
DispatcherStep(d) ==
    \/ \E i \in Intent : DispatchCheck(d, i)
    \/ Block(d)
    \/ Claim(d)
    \/ Call(d)
    \/ RecordFailure(d)
    \/ RecordSuccess(d)

Next ==
    \/ \E r \in Approver :
          \/ \E a \in Approval : DecideRead(r, a)
          \/ \E decision \in {"approved", "rejected"} : DecideWrite(r, decision)
    \/ Revoke
    \/ \E c \in Caller :
          \/ \E k \in Key, a \in Approval : CreateCheck(c, k, a)
          \/ CreateInsert(c)
    \/ \E d \in Dispatcher : DispatcherStep(d) \/ Crash(d)
    \/ Tick
    \/ Backup
    \/ Restore
    \/ Reenable
    \/ LeaveRecovery

Spec == Init /\ [][Next]_vars

\* Somebody keeps dispatching every intent that is not settled, and transports return.
Fairness ==
    /\ WF_vars(Tick)
    /\ \A d \in Dispatcher :
          /\ \A i \in Intent : WF_vars(DispatchCheck(d, i))
          /\ WF_vars(Block(d) \/ Claim(d) \/ Call(d) \/ RecordFailure(d) \/ RecordSuccess(d))

FairSpec == Spec /\ Fairness
------------------------------------------------------------------------------
(* Properties.                                                             *)

\* The provider accepts an intent at most once between two restores, however dispatchers
\* overlap, die or outlive their lease: dispatch hands every attempt number to one
\* dispatcher only.
AcceptedOnce == \A i \in Intent : accepted[i] <= 1

\* A dispatcher that called the provider still holds the lease when it records the
\* outcome, so the update of a failed intent, which names no lease, overwrites nobody's
\* outcome and the refusal "lease fencing rejected completion" never happens.
LeaseKept ==
    \A d \in Dispatcher : pc[d] \in {"call", "returned", "raised"} =>
        /\ token[work[d]] = mine[d]
        /\ event[work[d]] = "pending"
        /\ status[work[d]] # "sent"

\* The intent and its outbox event agree on what was sent and on what was given up,
\* except that a fence may have blocked a failed intent.
IntentMatchesEvent ==
    \A i \in Intent :
        /\ status[i] = "sent" <=> event[i] = "published"
        /\ status[i] = "failed" => event[i] = "failed"

\* An intent is given up only after three attempts, none of which the provider accepted.
GivenUpAfterThree ==
    \A i \in Intent : event[i] = "failed" => claimed[i] = 1..MaxTries /\ accepted[i] = 0

\* A sent intent stays sent, until a restore goes back to an older database.
SentIsFinal ==
    [][\A i \in Intent : status[i] = "sent" /\ restores' = restores => status'[i] = "sent"]_vars

\* No provider call takes place while a restored database waits for reconciliation.
NoCallInRecovery ==
    [][accepted' # accepted /\ restores' = restores => ~Fenced]_vars

\* What EffectContract knows of the sends: an intent is permitted when it is created under
\* an approval, sent when the provider accepted it, and done when it is recorded as sent.
\* An intent a restored database calls sent was sent before the restore.
Consented == {i \in Intent : names[i] # NoApproval /\ approved[names[i]]}
SentIntents == {i \in Intent : status[i] = "sent"}
TimesSent == [i \in Intent |-> IF accepted[i] = 0 /\ i \in SentIntents THEN 1 ELSE accepted[i]]

Contract == INSTANCE EffectContract WITH
    Effect <- Intent, permitted <- Consented, times <- TimesSent, told <- SentIntents

\* The sends keep the contract, restores included: an intent goes out once, under an
\* approval somebody gave, and is recorded as sent only once the provider accepted it.
SendsKeepContract == Contract!RestorableSpec

\* Every intent is eventually sent, given up or blocked.
EveryIntentSettles ==
    \A i \in Intent : status[i] = "pending" ~> status[i] \in {"sent", "failed", "blocked"}

------------------------------------------------------------------------------
(* Promises of the documentation, a test or an error message that the      *)
(* code does not keep: TLC refutes each of them.                           *)

\* What docs/operations.md 7.3 says its step 4 does: it re-enables outbound dispatch.
RunbookReopens == restores > 0 /\ ~dispatchOff => ~Fenced

\* What docs/secure-integrations.md says: intents are blocked while recovery mode or
\* disabled dispatch is active (or their approval or installation is not valid).
BlockedOnlyWhileFenced ==
    \A i \in Intent : status[i] = "blocked" =>
        Fenced \/ ~installed \/ approval[names[i]] # "approved"
==============================================================================
