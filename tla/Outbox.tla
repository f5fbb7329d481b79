-------------------------------- MODULE Outbox --------------------------------
(***************************************************************************)
(* The generic outbox (services/job_ops.py and storage/jobs.py): clients   *)
(* add events under optional idempotency keys, publishers claim batches of *)
(* due events under leases with fresh tokens, and publish or fail each one *)
(* if the lease still stands.                                              *)
(*                                                                         *)
(* Every operation but the lookup of add_outbox_event and the fence check  *)
(* of claim_outbox_events runs in one BEGIN IMMEDIATE transaction, so the  *)
(* row version compared there is always the current one and is left out;   *)
(* the lease token is fresh on every claim, so it stands for the owner too.*)
(* Times are what is left of them, in ticks, and stop at 0.                *)
(***************************************************************************)
EXTENDS Integers, FiniteSets

CONSTANTS
    Event, Key, NoKey,   \* outbox rows; idempotency keys, and none
    Client, Publisher,   \* processes inside add_outbox_event; publishers
    MaxAttempts,         \* max_attempts of every event
    Limit,               \* limit of claim_outbox_events
    LeaseTime,           \* lease_seconds, in ticks
    MaxWait,             \* bound: the longest backoff told apart, in ticks
    MaxCrashes           \* bound: publishers that die

OutboxAssumption ==
    /\ NoKey \notin Key
    /\ IsFiniteSet(Event)
    /\ MaxAttempts \in Nat \ {0} /\ Limit \in Nat \ {0} /\ LeaseTime \in Nat \ {0}
    /\ MaxWait \in Nat \ {0} /\ MaxCrashes \in Nat

VARIABLES
    key, status, attempts, wait, created,  \* columns of outbox_events
    left, token,                           \* the lease: time left, token (0: NULL)
    open,        \* neither recovery_mode nor outbound_dispatch stops the outbox
    adding,      \* adding[c]: the key client c looked up and did not find, {} when idle
    claiming,    \* claiming[p]: p has read that the outbox is open
    held,        \* held[p]: the <<event, token>> pairs p believes it holds
    delivered,   \* delivered[e]: times a publisher delivered e
    issued, crashes

columns == <<key, status, attempts, wait, created>>
lease == <<left, token>>
vars == <<columns, lease, open, adding, claiming, held, delivered, issued, crashes>>
------------------------------------------------------------------------------
TypeOK ==
    /\ key \in [Event -> Key \cup {NoKey}]
    /\ status \in [Event -> {"absent", "pending", "published", "failed"}]
    /\ attempts \in [Event -> 0..MaxAttempts]
    /\ wait \in [Event -> 0..MaxWait]
    /\ created \in [Event -> 0..Cardinality(Event)]
    /\ left \in [Event -> 0..LeaseTime]
    /\ token \in [Event -> 0..issued]
    /\ open \in BOOLEAN
    /\ adding \in [Client -> {{}} \cup {{k} : k \in Key \cup {NoKey}}]
    /\ claiming \in [Publisher -> BOOLEAN]
    /\ held \in [Publisher -> SUBSET (Event \X (1..issued))]
    /\ delivered \in [Event -> Nat]
    /\ issued \in Nat /\ crashes \in Nat

Init ==
    /\ key = [e \in Event |-> NoKey]
    /\ status = [e \in Event |-> "absent"]
    /\ attempts = [e \in Event |-> 0]
    /\ wait = [e \in Event |-> 0]
    /\ created = [e \in Event |-> 0]
    /\ left = [e \in Event |-> 0]
    /\ token = [e \in Event |-> 0]
    /\ open = TRUE
    /\ adding = [c \in Client |-> {}]
    /\ claiming = [p \in Publisher |-> FALSE]
    /\ held = [p \in Publisher |-> {}]
    /\ delivered = [e \in Event |-> 0]
    /\ issued = 0
    /\ crashes = 0
------------------------------------------------------------------------------
(* Adding an event.                                                        *)

\* Events that carry idempotency key k; NoKey is SQL's NULL and never matches.
Holders(k) == {e \in Event : status[e] # "absent" /\ key[e] = k /\ k # NoKey}

\* The lookup, outside the transaction; a key already there answers the call at once.
AddLookup(c, k) ==
    /\ adding[c] = {}
    /\ Holders(k) = {}
    /\ adding' = [adding EXCEPT ![c] = {k}]
    /\ UNCHANGED <<columns, lease, open, claiming, held, delivered, issued, crashes>>

\* Mutant: no unique index on the key.
KeyFreeAlways(k) == TRUE

\* idx_outbox_idempotency: the key is not taken.
KeyFree(k) == Holders(k) = {}

\* The insert, which the unique index refuses when the key was taken meanwhile.
\* created_at has whole seconds, so two events may carry the same one.
AddInsert(c) ==
    \E k \in adding[c] :
        /\ \/ \E e \in Event : \E second \in {0, 1} :
                 /\ KeyFree(k)
                 /\ status[e] = "absent"
                 /\ \E newest \in {created[f] : f \in Event} :
                       /\ \A f \in Event : created[f] <= newest
                       /\ created' = [created EXCEPT ![e] = newest + second]
                 /\ key' = [key EXCEPT ![e] = k]
                 /\ status' = [status EXCEPT ![e] = "pending"]
           \/ /\ ~KeyFree(k)
              /\ UNCHANGED <<key, status, created>>
        /\ adding' = [adding EXCEPT ![c] = {}]
        /\ UNCHANGED <<attempts, wait, lease, open, claiming, held, delivered, issued, crashes>>
------------------------------------------------------------------------------
(* Claiming, publishing, failing.                                          *)

\* claim_outbox_events reads the two flags in autocommit mode.
ClaimCheck(p) ==
    /\ ~claiming[p]
    /\ open
    /\ claiming' = [claiming EXCEPT ![p] = TRUE]
    /\ UNCHANGED <<columns, lease, open, adding, held, delivered, issued, crashes>>

\* Mutant: the comparison attempts < max_attempts is missing.
ClaimableAgain(e) ==
    /\ status[e] \in {"pending", "failed"}
    /\ wait[e] = 0
    /\ left[e] = 0

Claimable(e) ==
    /\ status[e] \in {"pending", "failed"}
    /\ attempts[e] < MaxAttempts
    /\ wait[e] = 0
    /\ left[e] = 0

\* Batches ORDER BY created_at LIMIT limit can return.
Batch(S) ==
    /\ S \subseteq {e \in Event : Claimable(e)}
    /\ \/ Cardinality(S) = Limit
       \/ Cardinality(S) < Limit /\ S = {e \in Event : Claimable(e)}
    /\ \A e \in S, f \in Event \ S : Claimable(f) => created[e] <= created[f]

\* The batch is claimed in one transaction, each event under a token of its own.
ClaimBatch(p) ==
    /\ claiming[p]
    /\ \E S \in SUBSET Event : \E tokens \in [S -> issued + 1 .. issued + Cardinality(S)] :
          /\ Batch(S)
          /\ \A e, f \in S : e # f => tokens[e] # tokens[f]
          /\ status' = [e \in Event |-> IF e \in S THEN "pending" ELSE status[e]]
          /\ attempts' = [e \in Event |-> IF e \in S THEN attempts[e] + 1 ELSE attempts[e]]
          /\ token' = [e \in Event |-> IF e \in S THEN tokens[e] ELSE token[e]]
          /\ left' = [e \in Event |-> IF e \in S THEN LeaseTime ELSE left[e]]
          /\ held' = [held EXCEPT ![p] = @ \cup {<<e, tokens[e]>> : e \in S}]
          /\ issued' = issued + Cardinality(S)
    /\ claiming' = [claiming EXCEPT ![p] = FALSE]
    /\ UNCHANGED <<key, wait, created, open, adding, delivered, crashes>>

\* Mutant: whoever comes within anybody's lease may end it.
LeasedByTime(e, t) == status[e] # "published" /\ left[e] > 0

\* _outbox_leased: the event is not published and the lease is the caller's and runs.
Leased(e, t) ==
    /\ status[e] # "published"
    /\ token[e] = t
    /\ left[e] > 0

\* The publisher delivers the event, while it believes the lease stands, and reports it;
\* a refusal is all it gets when it does not.
Publish(p, e, t) ==
    /\ <<e, t>> \in held[p]
    /\ delivered' = [delivered EXCEPT ![e] = @ + 1]
    /\ \/ /\ Leased(e, t)
          /\ status' = [status EXCEPT ![e] = "published"]
          /\ token' = [token EXCEPT ![e] = 0]
          /\ left' = [left EXCEPT ![e] = 0]
       \/ /\ ~Leased(e, t)
          /\ UNCHANGED <<status, token, left>>
    /\ held' = [held EXCEPT ![p] = @ \ {<<e, t>>}]
    /\ UNCHANGED <<key, attempts, wait, created, open, adding, claiming, issued, crashes>>

\* fail_outbox_event: back to the queue after a backoff; at the last attempt, or with
\* retry=False, next_attempt_at stays as it was.
Fail(p, e, t, retry) ==
    /\ <<e, t>> \in held[p]
    /\ \/ /\ Leased(e, t)
          /\ status' = [status EXCEPT ![e] = "failed"]
          /\ token' = [token EXCEPT ![e] = 0]
          /\ left' = [left EXCEPT ![e] = 0]
          /\ wait' = [wait EXCEPT ![e] = IF retry /\ attempts[e] < MaxAttempts
                                           THEN IF attempts[e] < MaxWait THEN attempts[e] ELSE MaxWait
                                           ELSE @]
       \/ /\ ~Leased(e, t)
          /\ UNCHANGED <<status, token, left, wait>>
    /\ held' = [held EXCEPT ![p] = @ \ {<<e, t>>}]
    /\ UNCHANGED <<key, attempts, created, open, adding, claiming, delivered, issued, crashes>>
------------------------------------------------------------------------------
(* Time, crashes, and the flags.                                           *)

Tick ==
    /\ \E e \in Event : left[e] > 0 \/ wait[e] > 0
    /\ left' = [e \in Event |-> IF left[e] = 0 THEN 0 ELSE left[e] - 1]
    /\ wait' = [e \in Event |-> IF wait[e] = 0 THEN 0 ELSE wait[e] - 1]
    /\ UNCHANGED <<key, status, attempts, created, token, open, adding, claiming, held, delivered,
                   issued, crashes>>

Crash(p) ==
    /\ crashes < MaxCrashes
    /\ claiming[p] \/ held[p] # {}
    /\ claiming' = [claiming EXCEPT ![p] = FALSE]
    /\ held' = [held EXCEPT ![p] = {}]
    /\ crashes' = crashes + 1
    /\ UNCHANGED <<columns, lease, open, adding, delivered, issued>>

\* An operator, or a restore, sets or clears the flags of system_state.
Toggle ==
    /\ open' = ~open
    /\ UNCHANGED <<columns, lease, adding, claiming, held, delivered, issued, crashes>>
------------------------------------------------------------------------------
PublisherStep(p) ==
    \/ ClaimCheck(p)
    \/ ClaimBatch(p)
    \/ \E h \in held[p] : Publish(p, h[1], h[2])
    \/ \E h \in held[p], retry \in BOOLEAN : Fail(p, h[1], h[2], retry)

Next ==
    \/ \E c \in Client :
          \/ \E k \in Key \cup {NoKey} : AddLookup(c, k)
          \/ AddInsert(c)
    \/ \E p \in Publisher : PublisherStep(p) \/ Crash(p)
    \/ Tick
    \/ Toggle

Spec == Init /\ [][Next]_vars

------------------------------------------------------------------------------
(* Properties.                                                             *)

\* The last publisher the event was given to decides what becomes of it: whoever ends
\* the lease hands in the token the row carries, while the lease runs.
EndedByHolder(e) ==
    status'[e] # status[e] /\ status'[e] \in {"published", "failed"} =>
        /\ left[e] > 0
        /\ \E p \in Publisher : <<e, token[e]>> \in held[p] \ held'[p]
HolderDecides == [][\A e \in Event : EndedByHolder(e)]_vars

\* An event is delivered at most max_attempts times, whatever leases run out and however
\* late a publisher delivers: every delivery used up an attempt of its own.
DeliveriesWithinBudget ==
    \A e \in Event : delivered[e] <= MaxAttempts

\* At most one event carries an idempotency key, also when two clients add it at once.
OneEventPerKey == \A k \in Key : Cardinality(Holders(k)) <= 1

===============================================================================
