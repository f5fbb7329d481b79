---------------------------- MODULE ExternalAction ----------------------------
(***************************************************************************)
(* External actions (services/external_actions.py): an action is queued as *)
(* an outbox event with an approval request of its own, a person decides   *)
(* the request, and dispatch_action calls the provider and records a       *)
(* receipt in the event.                                                   *)
(*                                                                         *)
(* Reads run in autocommit mode and each write is a transaction of its     *)
(* own, so every operation is a read and, some time later, a write.        *)
(***************************************************************************)
EXTENDS Integers, FiniteSets

CONSTANTS
    Action, Key, NoKey,             \* outbox events of actions; idempotency keys, and none
    Caller, Approver, Dispatcher,   \* overlapping calls of the three operations
    NoAction,
    MaxCalls                        \* bound: provider calls per action

ActionAssumption ==
    NoKey \notin Key /\ NoAction \notin Action /\ MaxCalls \in Nat \ {0}

VARIABLES
    key, event, approval,  \* columns: the event's key and status, the request's status
    fenced,                \* recovery_mode is '1' or outbound_dispatch is 'disabled'
    queueing,              \* queueing[c]: {k} after a lookup that found no event
    deciding,              \* deciding[r]: the action whose request r read as pending
    pc, work,              \* dispatchers: step and action
    calls,                 \* calls[a]: provider calls that returned
    agreed                 \* agreed[a]: somebody approved a at some time

database == <<key, event, approval>>
processes == <<queueing, deciding, pc, work>>
vars == <<database, fenced, processes, calls, agreed>>

TypeOK ==
    /\ key \in [Action -> Key \cup {NoKey}]
    /\ event \in [Action -> {"absent", "pending", "published", "failed"}]
    /\ approval \in [Action -> {"absent", "pending", "approved", "rejected"}]
    /\ fenced \in BOOLEAN
    /\ queueing \in [Caller -> {{}} \cup {{k} : k \in Key \cup {NoKey}}]
    /\ deciding \in [Approver -> Action \cup {NoAction}]
    /\ pc \in [Dispatcher -> {"idle", "call", "returned", "raised"}]
    /\ work \in [Dispatcher -> Action \cup {NoAction}]
    /\ calls \in [Action -> 0..MaxCalls]
    /\ agreed \in [Action -> BOOLEAN]
    /\ \A a \in Action : event[a] = "absent" <=> approval[a] = "absent"

Init ==
    /\ key = [a \in Action |-> NoKey]
    /\ event = [a \in Action |-> "absent"]
    /\ approval = [a \in Action |-> "absent"]
    /\ fenced = FALSE
    /\ queueing = [c \in Caller |-> {}]
    /\ deciding = [r \in Approver |-> NoAction]
    /\ pc = [d \in Dispatcher |-> "idle"]
    /\ work = [d \in Dispatcher |-> NoAction]
    /\ calls = [a \in Action |-> 0]
    /\ agreed = [a \in Action |-> FALSE]
------------------------------------------------------------------------------
(* queue_action.                                                           *)

\* Actions queued under key k; NoKey is SQL's NULL and never matches.
Holders(k) == {a \in Action : event[a] # "absent" /\ key[a] = k /\ k # NoKey}

QueueLookup(c, k) ==
    /\ queueing[c] = {}
    /\ Holders(k) = {}
    /\ queueing' = [queueing EXCEPT ![c] = {k}]
    /\ UNCHANGED <<database, fenced, deciding, pc, work, calls, agreed>>

\* Mutant: no unique index on the key.
KeyFreeAlways(k) == TRUE

\* idx_outbox_idempotency: the key is not taken.
KeyFree(k) == Holders(k) = {}

\* The approval request of action a, in the same transaction as its event.
Link(a) == approval' = [approval EXCEPT ![a] = "pending"]

\* Event and approval request are inserted together, or the index refuses the event.
QueueInsert(c) ==
    \E k \in queueing[c] :
        /\ \/ \E a \in Action :
                 /\ KeyFree(k)
                 /\ event[a] = "absent"
                 /\ key' = [key EXCEPT ![a] = k]
                 /\ event' = [event EXCEPT ![a] = "pending"]
                 /\ Link(a)
           \/ /\ ~KeyFree(k)
              /\ UNCHANGED database
        /\ queueing' = [queueing EXCEPT ![c] = {}]
        /\ UNCHANGED <<fenced, deciding, pc, work, calls, agreed>>
------------------------------------------------------------------------------
(* decide_approval.                                                        *)

DecideRead(r, a) ==
    /\ deciding[r] = NoAction
    /\ approval[a] = "pending"
    /\ deciding' = [deciding EXCEPT ![r] = a]
    /\ UNCHANGED <<database, fenced, queueing, pc, work, calls, agreed>>

\* The request is updated by its id alone.
DecideWrite(r, decision) ==
    LET a == deciding[r]
    IN  /\ a # NoAction
        /\ approval' = [approval EXCEPT ![a] = decision]
        /\ agreed' = [agreed EXCEPT ![a] = @ \/ decision = "approved"]
        /\ deciding' = [deciding EXCEPT ![r] = NoAction]
        /\ UNCHANGED <<key, event, fenced, queueing, pc, work, calls>>
------------------------------------------------------------------------------
(* dispatch_action.                                                        *)

\* Mutant: only a rejection stops the dispatch.
MayDispatchUnlessRejected(a) ==
    /\ event[a] \in {"pending", "failed"}
    /\ approval[a] # "rejected"

\* The event is not published and its request is approved.
MayDispatch(a) ==
    /\ event[a] \in {"pending", "failed"}
    /\ approval[a] = "approved"

DispatchRead(d, a) ==
    /\ pc[d] = "idle"
    /\ MayDispatch(a)
    /\ pc' = [pc EXCEPT ![d] = "call"]
    /\ work' = [work EXCEPT ![d] = a]
    /\ UNCHANGED <<database, fenced, queueing, deciding, calls, agreed>>

\* dispatcher.dispatch: the provider acts, or raises.
Call(d) ==
    /\ pc[d] = "call"
    /\ \/ /\ calls[work[d]] < MaxCalls
          /\ calls' = [calls EXCEPT ![work[d]] = @ + 1]
          /\ pc' = [pc EXCEPT ![d] = "returned"]
       \/ /\ pc' = [pc EXCEPT ![d] = "raised"]
          /\ UNCHANGED calls
    /\ UNCHANGED <<database, fenced, queueing, deciding, work, agreed>>

\* Mutant: whatever the provider did, the event counts as published.
OutcomeAlways(d) == "published"

\* The receipt's status.
Outcome(d) == IF pc[d] = "returned" THEN "published" ELSE "failed"

\* The receipt is written into the event, by its id alone.
Record(d) ==
    /\ pc[d] \in {"returned", "raised"}
    /\ event' = [event EXCEPT ![work[d]] = Outcome(d)]
    /\ pc' = [pc EXCEPT ![d] = "idle"]
    /\ work' = [work EXCEPT ![d] = NoAction]
    /\ UNCHANGED <<key, approval, fenced, queueing, deciding, calls, agreed>>

Crash(d) ==
    /\ pc[d] # "idle"
    /\ pc' = [pc EXCEPT ![d] = "idle"]
    /\ work' = [work EXCEPT ![d] = NoAction]
    /\ UNCHANGED <<database, fenced, queueing, deciding, calls, agreed>>

\* restore_backup of a backup just taken: processes are stopped and the flags raised.
Restore ==
    /\ ~fenced
    /\ fenced' = TRUE
    /\ queueing' = [c \in Caller |-> {}]
    /\ deciding' = [r \in Approver |-> NoAction]
    /\ pc' = [d \in Dispatcher |-> "idle"]
    /\ work' = [d \in Dispatcher |-> NoAction]
    /\ UNCHANGED <<database, calls, agreed>>

Next ==
    \/ \E c \in Caller :
          \/ \E k \in Key \cup {NoKey} : QueueLookup(c, k)
          \/ QueueInsert(c)
    \/ \E r \in Approver :
          \/ \E a \in Action : DecideRead(r, a)
          \/ \E decision \in {"approved", "rejected"} : DecideWrite(r, decision)
    \/ \E d \in Dispatcher :
          \/ \E a \in Action : DispatchRead(d, a)
          \/ Call(d)
          \/ Record(d)
          \/ Crash(d)
    \/ Restore

Spec == Init /\ [][Next]_vars
------------------------------------------------------------------------------
(* Properties.                                                             *)

\* The provider is called only for actions somebody approved, in whatever order approvers
\* and dispatchers overlap.
CalledOnlyIfApproved == \A a \in Action : calls[a] > 0 => agreed[a]

\* A receipt that says published stands for a call the provider accepted.
PublishedWasCalled == \A a \in Action : event[a] = "published" => calls[a] > 0

\* At most one action carries an idempotency key, also when two callers queue it at once.
OneActionPerKey == \A k \in Key : Cardinality(Holders(k)) <= 1

------------------------------------------------------------------------------
(* Promises of the documentation, a test or an error message that the      *)
(* code does not keep: TLC refutes each of them.                           *)

\* "Immutable receipt and outcome tracking", and "outbox event has already been
\* published": the module's word that a published action stays published.
ReceiptIsFinal == [][\A a \in Action : event[a] = "published" => event'[a] = "published"]_vars

\* "approval request already decided": the error that promises one decision per request.
DecidedOnce ==
    [][\A a \in Action : approval[a] \in {"approved", "rejected"} => approval'[a] = approval[a]]_vars

\* "outbound dispatch remains disabled pending human reconciliation": what the recovery
\* documentation says of a restored database.
NoCallInRecovery == [][calls' # calls => ~fenced]_vars
===============================================================================
