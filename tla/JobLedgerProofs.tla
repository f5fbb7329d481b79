--------------------------- MODULE JobLedgerProofs ---------------------------
(***************************************************************************)
(* Proofs about JobLedger, for every value of its constants.               *)
(***************************************************************************)
EXTENDS JobLedger, TLAPS

\* A backoff is a natural number of ticks.
LEMMA BackoffType == ASSUME NEW n \in Nat \ {0} PROVE Backoff(n) \in Nat
<1> DEFINE f == IF n <= 6 THEN <<1, 2, 4, 8, 16, 32>>[n] ELSE 60
<1>1. f \in Nat
  OBVIOUS
<1>2. \A k \in Nat : BackoffUnit * k \in Nat
  BY LedgerAssumption
<1> HIDE DEF f
<1>3. BackoffUnit * f \in Nat
  BY <1>1, <1>2
<1> QED
  BY <1>3 DEF Backoff, f

\* What the bare type invariant does not know: a job at work has been attempted (its
\* backoff needs it), and a client about to
\* insert or to cancel holds a payload or a job.
Attempted == \A j \in Job : status[j] \in Active => attempts[j] >= 1
Errands ==
    \A c \in Client : /\ client[c].pc = "insert" => client[c].payload \in Payload
                      /\ client[c].pc = "cancel" => client[c].job \in Job
TypeInv == TypeOK /\ Attempted /\ Errands

\* What ending a lease does to the types of the row.
LEMMA EndLeaseType ==
  ASSUME TypeOK, NEW j \in Job, NEW new \in Open \cup Final, EndLease(j, new)
  PROVE  /\ status' \in [Job -> Status \cup {"absent"}]
         /\ version' \in [Job -> Nat]
         /\ left' \in [Job -> Nat]
         /\ owner' \in [Job -> Worker \cup {NoWorker}]
         /\ token' \in [Job -> Nat]
         /\ lock' \in [Job -> {"none", "active", "released"}]
         /\ \A k \in Job : status'[k] \in Active => status[k] \in Active
BY DEF TypeOK, EndLease, ReleaseManagedStream, Status, Active, Open, Final

\* Ending a session keeps the types of what sessions remember.
LEMMA EndSessionType ==
  ASSUME TypeOK, NEW s \in Session, EndSession(s)
  PROVE  /\ held' \in [Session -> Job \cup {NoJob}]
         /\ heldToken' \in [Session -> Nat]
         /\ heldLeft' \in [Session -> Nat]
BY DEF TypeOK, EndSession

\* Type correctness: every reachable state of the ledger is well typed.
THEOREM TypeInvariance == Spec => []TypeInv
<1>1. Init => TypeInv
  BY LedgerAssumption
     DEF Init, TypeInv, TypeOK, Attempted, Errands, NoRequest, NoErrand, Request, Errand, Active
<1>2. TypeInv /\ [Next]_vars => TypeOK' /\ Attempted'
  <2> SUFFICES ASSUME TypeOK, Attempted, Errands, [Next]_vars
               PROVE  TypeOK' /\ Attempted'
    BY DEF TypeInv
  <2> USE LedgerAssumption DEF TypeOK, Attempted, Active
  <2>1. ASSUME NEW c \in Client, NEW k \in Key \cup {NoKey}, NEW p \in Payload,
               EnqueueLookup(c, k, p)
        PROVE  TypeOK' /\ Attempted'
    BY <2>1 DEF EnqueueLookup, Existing, Errand, Reply, row, lease, session, history, budget
  <2>2. ASSUME NEW j \in Job, NEW k \in Key \cup {NoKey}, NEW p \in Payload, InsertJob(j, k, p)
        PROVE  /\ status' \in [Job -> Status \cup {"absent"}]
               /\ version' \in [Job -> Nat]
               /\ wait' \in [Job -> Nat]
               /\ request' \in [Job -> Request]
               /\ replies' \subseteq Reply
               /\ UNCHANGED <<attempts, left, owner, token>>
               /\ Attempted'
    BY <2>2 DEF InsertJob, Request, Reply, Status, Open, Final, lease
  <2>3. ASSUME NEW c \in Client, EnqueueInsert(c) PROVE TypeOK' /\ Attempted'
    <3>1. client[c].payload \in Payload /\ client[c].key \in Key \cup {NoKey}
      BY <2>3 DEF EnqueueInsert, Errand, Errands
    <3>2. CASE \E j \in Job : InsertJob(j, client[c].key, client[c].payload)
      BY <2>3, <3>1, <3>2, <2>2 DEF EnqueueInsert, NoErrand, Errand, session, history, budget
    <3>3. CASE UNCHANGED row
      BY <2>3, <3>1, <3>3 DEF EnqueueInsert, NoErrand, Errand, Reply, InsertJob, row, lease, session, history, budget
    <3> QED BY <2>3, <3>2, <3>3 DEF EnqueueInsert
  <2>4. ASSUME NEW c \in Client, NEW k \in Key \cup {NoKey}, NEW p \in Payload,
               EnqueueSync(c, k, p)
        PROVE  TypeOK' /\ Attempted'
    BY <2>4, <2>2 DEF EnqueueSync, Reply, row, lease, session, history, budget
  <2>5. ASSUME NEW c \in Client, NEW j \in Job, ReadForCancel(c, j) PROVE TypeOK' /\ Attempted'
    BY <2>5 DEF ReadForCancel, Errand, row, lease, session, history, budget
  <2>6. ASSUME NEW c \in Client, CancelJob(c) PROVE TypeOK' /\ Attempted'
    <3>1. client[c].job \in Job
      BY <2>6 DEF CancelJob, Errands
    <3>2. client' \in [Client -> Errand]
      BY <2>6 DEF CancelJob, NoErrand, Errand
    <3>3. /\ status' \in [Job -> Status \cup {"absent"}]
          /\ version' \in [Job -> Nat]
          /\ lock' \in [Job -> {"none", "active", "released"}]
          /\ \A k \in Job : status'[k] \in Active => status[k] \in Active
      BY <2>6, <3>1 DEF CancelJob, ReleaseManagedStream, Status, Final, Open
    <3> QED
      BY <2>6, <3>2, <3>3 DEF CancelJob, lease, session, history, budget
  <2>7. ASSUME NEW s \in Session, ClaimJob(s) PROVE TypeOK' /\ Attempted'
    BY <2>7 DEF ClaimJob, Status, budget
  <2>8. ASSUME NEW s \in Session, HeartbeatJob(s) PROVE TypeOK' /\ Attempted'
    BY <2>8 DEF HeartbeatJob, Leased, Status, history, budget
  <2>9. ASSUME NEW s \in Session, SucceedJob(s) PROVE TypeOK' /\ Attempted'
    <3>1. held[s] \in Job
      BY <2>9 DEF SucceedJob, Leased
    <3>2. PICK new \in Open \cup Final : EndLease(held[s], new)
      BY <2>9 DEF SucceedJob, Final
    <3>3. verdict' \in [Job -> Nat]
      BY <2>9, <3>1 DEF SucceedJob
    <3>4. EndSession(s) /\ UNCHANGED <<attempts, wait, request, client, replies, issued, granted, slips, crashes>>
      BY <2>9 DEF SucceedJob, budget
    <3> QED
      BY <3>1, <3>2, <3>3, <3>4, EndLeaseType, EndSessionType
  <2>10. ASSUME NEW s \in Session, FailJob(s) PROVE TypeOK' /\ Attempted'
    <3> DEFINE j == held[s]
    <3>1. j \in Job /\ Backoff(attempts[j]) \in Nat
      BY <2>10, BackoffType DEF FailJob, Leased
    <3>2. PICK new \in Open \cup Final : EndLease(j, new)
      BY <2>10 DEF FailJob, Open, Final
    <3>3. wait' \in [Job -> Nat]
      <4>1. CASE UNCHANGED wait
        BY <4>1
      <4>2. CASE \E after \in RetryAfter \cup {0} :
                    wait' = [wait EXCEPT ![j] = IF after > Backoff(attempts[j]) THEN after
                                                ELSE Backoff(attempts[j])]
        BY <4>2, <3>1
      <4> QED
        BY <2>10, <4>1, <4>2 DEF FailJob
    <3>4. verdict' \in [Job -> Nat]
      BY <2>10, <3>1 DEF FailJob
    <3>5. EndSession(s) /\ UNCHANGED <<attempts, request, client, replies, issued, granted, slips, crashes>>
      BY <2>10 DEF FailJob, budget
    <3> HIDE DEF j
    <3> QED
      BY <3>1, <3>2, <3>3, <3>4, <3>5, EndLeaseType, EndSessionType
  <2>11. ASSUME NEW s \in Session, Refused(s) \/ Crash(s) PROVE TypeOK' /\ Attempted'
    BY <2>11 DEF Refused, Crash, EndSession, row, lease, history, budget
  <2>12. ASSUME Tick PROVE TypeOK' /\ Attempted'
    BY <2>12 DEF Tick, Less, history
  <2>13. CASE UNCHANGED vars
    BY <2>13 DEF vars, row, lease, session, history, budget
  <2> QED
    BY <2>1, <2>3, <2>4, <2>5, <2>6, <2>7, <2>8, <2>9, <2>10, <2>11, <2>12, <2>13
       DEF Next, ClientStep, SessionStep, Finish
<1>3. TypeInv /\ [Next]_vars => Errands'
  <2> SUFFICES ASSUME TypeOK, Errands, [Next]_vars PROVE Errands'
    BY DEF TypeInv
  <2>1. CASE UNCHANGED client
    BY <2>1 DEF Errands
  <2>2. ASSUME NEW c \in Client, ClientStep(c) PROVE Errands'
    BY <2>2 DEF ClientStep, EnqueueLookup, EnqueueInsert, EnqueueSync, ReadForCancel, CancelJob,
                NoErrand, Errands, TypeOK
  <2> QED
    BY <2>1, <2>2 DEF Next, SessionStep, Finish, ClaimJob, HeartbeatJob, SucceedJob, FailJob,
                      Refused, Crash, Tick, vars
<1> QED
  BY <1>1, <1>2, <1>3, PTL DEF Spec, TypeInv
------------------------------------------------------------------------------
(***************************************************************************)
(* The lease discipline.  OneLiveLease and LatestHolderDecides are not     *)
(* inductive: both rest on what the row says of its current holder (RowInv)*)
(* and on what a session knows when it still believes in its lease         *)
(* (HolderInv).  A token is only ever in the hands of one session.         *)
(***************************************************************************)
RowInv ==
    \A j \in Job :
        /\ granted[j] <= issued
        /\ status[j] \in Active => token[j] = granted[j] /\ token[j] >= 1
        /\ status[j] \notin Active => token[j] = 0 /\ left[j] = 0
        /\ verdict[j] # 0 => status[j] \in Final /\ verdict[j] = granted[j]

HolderInv ==
    \A s \in Session :
        /\ heldToken[s] <= issued
        /\ held[s] = NoJob => heldLeft[s] = 0
        /\ held[s] # NoJob => heldToken[s] >= 1
        /\ heldLeft[s] > 0 => /\ held[s] \in Job
                              /\ status[held[s]] \in Active
                              /\ token[held[s]] = heldToken[s]
                              /\ left[held[s]] = heldLeft[s]

TokenInv ==
    \A s, t \in Session : s # t /\ held[s] # NoJob /\ held[t] # NoJob => heldToken[s] # heldToken[t]

LeaseInv == RowInv /\ HolderInv /\ TokenInv

\* What a session and its job look like while the lease test succeeds.
LEMMA LeasedFacts ==
  ASSUME TypeOK, LeaseInv, NEW s \in Session, Leased(s)
  PROVE  /\ held[s] \in Job
         /\ status[held[s]] \in Active
         /\ token[held[s]] = heldToken[s]
         /\ granted[held[s]] = heldToken[s]
         /\ heldToken[s] >= 1
         /\ \A t \in Session : t # s /\ held[t] = held[s] => heldLeft[t] = 0
BY LedgerAssumption DEF TypeOK, LeaseInv, RowInv, HolderInv, TokenInv, Leased

\* Closing or returning a job keeps the lease discipline, when the verdict, if one is
\* recorded, is recorded under the session's token.
LEMMA EndKeepsLeaseInv ==
  ASSUME TypeOK, LeaseInv, NEW s \in Session, NEW new \in Open \cup Final,
         Leased(s), EndLease(held[s], new), EndSession(s),
         \/ UNCHANGED verdict
         \/ new \in Final /\ verdict' = [verdict EXCEPT ![held[s]] = heldToken[s]],
         UNCHANGED <<issued, granted>>
  PROVE  LeaseInv'
<1> DEFINE j == held[s]
<1>1. /\ j \in Job
      /\ granted[j] = heldToken[s]
      /\ status[j] \in Active
      /\ \A t \in Session : t # s /\ held[t] = j => heldLeft[t] = 0
  BY LeasedFacts
<1>2. /\ status' = [status EXCEPT ![j] = new]
      /\ left' = [left EXCEPT ![j] = 0]
      /\ token' = [token EXCEPT ![j] = 0]
      /\ held' = [held EXCEPT ![s] = NoJob]
      /\ heldToken' = [heldToken EXCEPT ![s] = 0]
      /\ heldLeft' = [heldLeft EXCEPT ![s] = 0]
  BY DEF EndLease, EndSession
<1>3. new \notin Active
  BY DEF Open, Final, Active
<1> HIDE DEF j
<1>4. RowInv'
  <2>1. verdict[j] = 0
    BY <1>1 DEF LeaseInv, RowInv, TypeOK, Active, Final
  <2> QED
    BY <1>1, <1>2, <1>3, <2>1 DEF LeaseInv, RowInv, TypeOK, j
<1>5. HolderInv'
  BY <1>1, <1>2 DEF LeaseInv, HolderInv, TypeOK
<1>6. TokenInv'
  BY <1>2 DEF LeaseInv, TokenInv, TypeOK
<1> QED
  BY <1>4, <1>5, <1>6 DEF LeaseInv

\* Nothing a client does touches a lease: enqueueing and cancelling happen off the lease.
LEMMA ClientKeepsLeaseInv ==
  ASSUME TypeInv, LeaseInv, NEW c \in Client, ClientStep(c)
  PROVE  LeaseInv'
<1> USE DEF TypeInv, TypeOK, LeaseInv, RowInv, HolderInv, TokenInv, session, history
<1>1. ASSUME NEW j \in Job, NEW k \in Key \cup {NoKey}, NEW p \in Payload,
             InsertJob(j, k, p), UNCHANGED <<session, history>>
      PROVE  LeaseInv'
  BY <1>1 DEF InsertJob, lease, Active, Final
<1>2. CASE EnqueueInsert(c)
  <2>1. client[c].payload \in Payload /\ client[c].key \in Key \cup {NoKey}
    BY <1>2 DEF EnqueueInsert, Errands, Errand
  <2>2. CASE UNCHANGED row
    BY <1>2, <2>2 DEF EnqueueInsert, row, lease
  <2> QED
    BY <1>1, <1>2, <2>1, <2>2 DEF EnqueueInsert
<1>3. ASSUME NEW k \in Key \cup {NoKey}, NEW p \in Payload, EnqueueSync(c, k, p)
      PROVE  LeaseInv'
  <2>1. CASE UNCHANGED row
    BY <1>3, <2>1 DEF EnqueueSync, row, lease
  <2> QED
    BY <1>1, <1>3, <2>1 DEF EnqueueSync
<1>4. CASE CancelJob(c)
  <2>1. client[c].job \in Job
    BY <1>4 DEF CancelJob, Errands
  <2> QED
    BY <1>4, <2>1 DEF CancelJob, Cancellable, lease, Open, Active, Final
<1>5. ASSUME UNCHANGED <<row, session, history>>
      PROVE  LeaseInv'
  BY <1>5 DEF row, lease
<1> QED
  BY <1>2, <1>3, <1>4, <1>5 DEF ClientStep, EnqueueLookup, ReadForCancel

\* The lease discipline is inductive.
LEMMA LeaseInvStep == TypeInv /\ LeaseInv /\ [Next]_vars => LeaseInv'
<1> SUFFICES ASSUME TypeInv, LeaseInv, [Next]_vars PROVE LeaseInv'
  OBVIOUS
<1> USE LedgerAssumption DEF TypeInv, TypeOK
<1>1. ASSUME NEW s \in Session, ClaimJob(s) PROVE LeaseInv'
  <2>1. PICK j \in Job, d \in LeaseTime :
           /\ Claimable(j)
           /\ status' = [status EXCEPT ![j] = "leased"]
           /\ left' = [left EXCEPT ![j] = d]
           /\ token' = [token EXCEPT ![j] = issued']
           /\ held' = [held EXCEPT ![s] = j]
           /\ heldToken' = [heldToken EXCEPT ![s] = issued']
           /\ heldLeft' = [heldLeft EXCEPT ![s] = d]
           /\ granted' = [granted EXCEPT ![j] = issued']
    BY <1>1 DEF ClaimJob, Candidate
  <2>2. issued' = issued + 1 /\ UNCHANGED verdict
    BY <1>1 DEF ClaimJob
  <2>3. verdict[j] = 0 /\ \A t \in Session : held[t] = j => heldLeft[t] = 0
    BY <2>1 DEF Claimable, LeaseInv, RowInv, HolderInv, Open, Active, Final
  <2>4. RowInv'
    BY <2>1, <2>2, <2>3 DEF LeaseInv, RowInv, Active, Final
  <2>5. HolderInv'
    BY <2>1, <2>2, <2>3 DEF LeaseInv, HolderInv, Active
  <2>6. TokenInv'
    BY <2>1, <2>2 DEF LeaseInv, TokenInv, HolderInv
  <2> QED
    BY <2>4, <2>5, <2>6 DEF LeaseInv
<1>2. ASSUME NEW s \in Session, HeartbeatJob(s) PROVE LeaseInv'
  <2>1. PICK d \in LeaseTime : /\ left' = [left EXCEPT ![held[s]] = d]
                               /\ heldLeft' = [heldLeft EXCEPT ![s] = d]
    BY <1>2 DEF HeartbeatJob
  <2>2. /\ status' = [status EXCEPT ![held[s]] = "running"]
        /\ UNCHANGED <<token, held, heldToken, issued, granted, verdict>>
    BY <1>2 DEF HeartbeatJob, history
  <2>3. /\ held[s] \in Job
        /\ status[held[s]] \in Active
        /\ token[held[s]] = heldToken[s]
        /\ \A t \in Session : t # s /\ held[t] = held[s] => heldLeft[t] = 0
    BY <1>2, LeasedFacts DEF HeartbeatJob
  <2>4. RowInv'
    BY <2>1, <2>2, <2>3 DEF LeaseInv, RowInv, Active, Final
  <2>5. HolderInv'
    BY <2>1, <2>2, <2>3 DEF LeaseInv, HolderInv, Active
  <2>6. TokenInv'
    BY <2>2 DEF LeaseInv, TokenInv
  <2> QED
    BY <2>4, <2>5, <2>6 DEF LeaseInv
<1>3. ASSUME NEW s \in Session, SucceedJob(s) PROVE LeaseInv'
  <2>1. /\ Leased(s) /\ EndLease(held[s], "succeeded") /\ EndSession(s)
        /\ verdict' = [verdict EXCEPT ![held[s]] = heldToken[s]]
        /\ UNCHANGED <<issued, granted>>
    BY <1>3 DEF SucceedJob
  <2>2. "succeeded" \in Final /\ "succeeded" \in Open \cup Final
    BY DEF Final
  <2> QED
    BY <2>1, <2>2, EndKeepsLeaseInv
<1>4. ASSUME NEW s \in Session, FailJob(s) PROVE LeaseInv'
  <2>1. /\ Leased(s) /\ EndSession(s) /\ UNCHANGED <<issued, granted>>
    BY <1>4 DEF FailJob
  <2>2. PICK new \in Open \cup Final :
           /\ EndLease(held[s], new)
           /\ \/ UNCHANGED verdict
              \/ new \in Final /\ verdict' = [verdict EXCEPT ![held[s]] = heldToken[s]]
    BY <1>4 DEF FailJob, Open, Final
  <2> QED
    BY <2>1, <2>2, EndKeepsLeaseInv
<1>5. ASSUME NEW s \in Session, Refused(s) \/ Crash(s) PROVE LeaseInv'
  BY <1>5 DEF Refused, Crash, EndSession, row, lease, history, LeaseInv, RowInv, HolderInv, TokenInv
<1>6. ASSUME Tick PROVE LeaseInv'
  <2>1. RowInv'
    BY <1>6 DEF Tick, Less, history, LeaseInv, RowInv
  <2>2. HolderInv'
    BY <1>6 DEF Tick, Less, history, LeaseInv, HolderInv
  <2>3. TokenInv'
    BY <1>6 DEF Tick, LeaseInv, TokenInv
  <2> QED
    BY <2>1, <2>2, <2>3 DEF LeaseInv
<1>7. CASE UNCHANGED vars
  BY <1>7 DEF vars, row, lease, session, history, LeaseInv, RowInv, HolderInv, TokenInv
<1>8. ASSUME NEW c \in Client, ClientStep(c) PROVE LeaseInv'
  BY <1>8, ClientKeepsLeaseInv
<1> QED
  BY <1>1, <1>2, <1>3, <1>4, <1>5, <1>6, <1>7, <1>8 DEF Next, SessionStep, Finish

\* The lease discipline holds in every reachable state.
THEOREM LeaseInvariance == Spec => []LeaseInv
<1>1. Init => LeaseInv
  BY DEF Init, LeaseInv, RowInv, HolderInv, TokenInv, Active
<1> QED
  BY <1>1, LeaseInvStep, TypeInvariance, PTL DEF Spec

\* Two sessions never both believe in an unexpired lease on one job.
THEOREM OneLiveLeaseHolds == Spec => []OneLiveLease
<1>1. TypeInv /\ LeaseInv => OneLiveLease
  BY DEF TypeInv, TypeOK, LeaseInv, HolderInv, TokenInv, OneLiveLease
<1> QED
  BY <1>1, TypeInvariance, LeaseInvariance, PTL

\* Only the last holder of a job decides its outcome.
THEOREM LatestHolderDecidesHolds == Spec => []LatestHolderDecides
<1>1. LeaseInv => LatestHolderDecides
  BY DEF LeaseInv, RowInv, LatestHolderDecides
<1> QED
  BY <1>1, LeaseInvariance, PTL

------------------------------------------------------------------------------
(***************************************************************************)
(* Final statuses, retry budgets and the contract.                         *)
(***************************************************************************)

\* The row of job k, its history included, stays as it is.
SameRow(k) ==
    /\ status'[k] = status[k] /\ attempts'[k] = attempts[k] /\ version'[k] = version[k]
    /\ token'[k] = token[k] /\ verdict'[k] = verdict[k] /\ request'[k] = request[k]

\* A worker or a client gives an existing job the status new, under its token.
Moves(j, new) ==
    /\ status'[j] = new
    /\ attempts'[j] = attempts[j]
    /\ request'[j] = request[j]
    /\ issued' = issued

\* The edges a row can move along: an insert, a claim, a heartbeat, the end of a lease
\* and a cancellation.
Edge(j) ==
    \/ /\ status[j] = "absent" /\ status'[j] = "queued"
       /\ attempts'[j] = attempts[j] /\ token'[j] = token[j] /\ verdict'[j] = verdict[j]
       /\ issued' = issued
    \/ /\ status[j] \in Open \cup Active /\ status'[j] = "leased"
       /\ attempts'[j] = attempts[j] + 1
       /\ issued' = issued + 1 /\ token'[j] = issued + 1
       /\ verdict'[j] = verdict[j] /\ request'[j] = request[j]
    \/ /\ status[j] \in Active /\ Moves(j, "running")
       /\ token'[j] = token[j] /\ verdict'[j] = verdict[j]
    \/ /\ status[j] \in Active /\ RetryAllowed(j) /\ Moves(j, "retry_wait")
       /\ token'[j] = 0 /\ verdict'[j] = verdict[j]
    \/ /\ status[j] \in Active
       /\ \/ Moves(j, "succeeded")
          \/ Moves(j, "failed")
          \/ ~RetryAllowed(j) /\ Moves(j, "dead_letter")
       /\ token'[j] = 0 /\ verdict'[j] = token[j]
    \/ /\ status[j] \in Open /\ Moves(j, "cancelled")
       /\ token'[j] = token[j] /\ verdict'[j] = verdict[j]

\* A step moves one row and leaves the others, or leaves them all.
OneRow(j) == Edge(j) /\ \A k \in Job \ {j} : SameRow(k)
NoRow == issued' = issued /\ \A k \in Job : SameRow(k)

\* Every step of the ledger changes at most one row, along an edge.
LEMMA StepShape == TypeInv /\ LeaseInv /\ [Next]_vars => NoRow \/ \E j \in Job : OneRow(j)
<1> SUFFICES ASSUME TypeInv, LeaseInv, [Next]_vars PROVE NoRow \/ \E j \in Job : OneRow(j)
  OBVIOUS
<1> USE DEF TypeInv, TypeOK, SameRow, Moves
<1>1. ASSUME NEW j \in Job, NEW k \in Key \cup {NoKey}, NEW p \in Payload,
             InsertJob(j, k, p), UNCHANGED history
      PROVE  OneRow(j)
  BY <1>1 DEF InsertJob, OneRow, Edge, history, lease, Active
<1>2. ASSUME NEW c \in Client, ClientStep(c) PROVE NoRow \/ \E j \in Job : OneRow(j)
  <2>1. CASE EnqueueInsert(c)
    <3>1. client[c].payload \in Payload /\ client[c].key \in Key \cup {NoKey}
      BY <2>1 DEF EnqueueInsert, Errands, Errand
    <3>2. CASE UNCHANGED row
      BY <2>1, <3>2 DEF EnqueueInsert, NoRow, row, lease, history
    <3> QED
      BY <1>1, <2>1, <3>1, <3>2 DEF EnqueueInsert
  <2>2. ASSUME NEW k \in Key \cup {NoKey}, NEW p \in Payload, EnqueueSync(c, k, p)
        PROVE  NoRow \/ \E j \in Job : OneRow(j)
    <3>1. CASE UNCHANGED row
      BY <2>2, <3>1 DEF EnqueueSync, NoRow, row, lease, history
    <3> QED
      BY <1>1, <2>2, <3>1 DEF EnqueueSync
  <2>3. CASE CancelJob(c)
    <3>1. client[c].job \in Job
      BY <2>3 DEF CancelJob, Errands
    <3>2. CASE Cancellable(client[c].job, client[c].version)
      <4>1. PICK j \in Job : j = client[c].job
        BY <3>1
      <4>2. OneRow(j)
        BY <2>3, <4>1, <3>2 DEF CancelJob, OneRow, Edge, Cancellable, lease, history
      <4> QED BY <4>2
    <3>3. CASE ~Cancellable(client[c].job, client[c].version)
      BY <2>3, <3>3 DEF CancelJob, NoRow, lease, history
    <3> QED
      BY <3>2, <3>3
  <2>4. CASE UNCHANGED <<row, history>>
    BY <2>4 DEF NoRow, row, lease, history
  <2> QED
    BY <1>2, <2>1, <2>2, <2>3, <2>4 DEF ClientStep, EnqueueLookup, ReadForCancel
<1>3. ASSUME NEW s \in Session, ClaimJob(s) PROVE \E j \in Job : OneRow(j)
  <2>1. PICK j \in Job :
           /\ Claimable(j)
           /\ status' = [status EXCEPT ![j] = "leased"]
           /\ attempts' = [attempts EXCEPT ![j] = @ + 1]
           /\ version' = [version EXCEPT ![j] = @ + 1]
           /\ token' = [token EXCEPT ![j] = issued']
           /\ issued' = issued + 1
           /\ UNCHANGED <<request, verdict>>
    BY <1>3 DEF ClaimJob, Candidate
  <2>2. status[j] \in Open \cup Active
    BY <2>1 DEF Claimable
  <2>3. OneRow(j)
    BY <2>1, <2>2 DEF OneRow, Edge
  <2> QED BY <2>3
<1>4. ASSUME NEW s \in Session, HeartbeatJob(s) PROVE \E j \in Job : OneRow(j)
  <2>1. PICK j \in Job : j = held[s] /\ status[j] \in Active
    BY <1>4, LeasedFacts DEF HeartbeatJob
  <2>2. OneRow(j)
    BY <1>4, <2>1 DEF HeartbeatJob, OneRow, Edge, history
  <2> QED BY <2>2
<1>5. ASSUME NEW s \in Session, SucceedJob(s) \/ FailJob(s) PROVE \E j \in Job : OneRow(j)
  <2>1. PICK j \in Job : j = held[s] /\ status[j] \in Active /\ token[j] = heldToken[s]
    BY <1>5, LeasedFacts DEF SucceedJob, FailJob
  <2>2. PICK new :
           /\ EndLease(j, new)
           /\ UNCHANGED <<attempts, request, issued>>
           /\ \/ new = "retry_wait" /\ RetryAllowed(j) /\ UNCHANGED verdict
              \/ /\ new \in {"succeeded", "failed"}
                 /\ verdict' = [verdict EXCEPT ![j] = heldToken[s]]
              \/ /\ new = "dead_letter" /\ ~RetryAllowed(j)
                 /\ verdict' = [verdict EXCEPT ![j] = heldToken[s]]
    BY <1>5, <2>1 DEF SucceedJob, FailJob
  <2>3. \A k \in Job \ {j} : SameRow(k)
    BY <2>1, <2>2 DEF EndLease
  <2>4. Moves(j, new) /\ token'[j] = 0
    BY <2>1, <2>2 DEF EndLease
  <2>5. Edge(j)
    <3>1. verdict'[j] = IF new = "retry_wait" THEN verdict[j] ELSE token[j]
      BY <2>1, <2>2
    <3>2. CASE new = "retry_wait"
      BY <2>1, <2>2, <2>4, <3>1, <3>2 DEF Edge
    <3>3. CASE new \in {"succeeded", "failed"}
      BY <2>1, <2>2, <2>4, <3>1, <3>3 DEF Edge
    <3>4. CASE new = "dead_letter"
      BY <2>1, <2>2, <2>4, <3>1, <3>4 DEF Edge
    <3> QED
      BY <2>2, <3>2, <3>3, <3>4
  <2>6. OneRow(j)
    BY <2>3, <2>5 DEF OneRow
  <2> QED BY <2>6
<1>6. ASSUME NEW s \in Session, Refused(s) \/ Crash(s) PROVE NoRow
  BY <1>6 DEF Refused, Crash, NoRow, row, lease, history
<1>7. CASE Tick
  BY <1>7 DEF Tick, NoRow, history
<1>8. CASE UNCHANGED vars
  BY <1>8 DEF vars, row, lease, history, NoRow
<1> QED
  BY <1>2, <1>3, <1>4, <1>5, <1>6, <1>7, <1>8 DEF Next, SessionStep, Finish

\* A closed job never changes again.
THEOREM ClosedIsFinalHolds == Spec => ClosedIsFinal
<1> DEFINE A == \A j \in Job : status[j] \in Final =>
                   /\ status'[j] = status[j]
                   /\ attempts'[j] = attempts[j]
                   /\ version'[j] = version[j]
<1>1. TypeInv /\ LeaseInv /\ [Next]_vars => A
  BY StepShape DEF NoRow, OneRow, SameRow, Moves, Edge, Final, Open, Active
<1> QED
  BY <1>1, TypeInvariance, LeaseInvariance, PTL DEF Spec, ClosedIsFinal

\* Retries stay within the attempt budget.
THEOREM RetriesWithinBudgetHolds == Spec => []RetriesWithinBudget
<1>1. Init => RetriesWithinBudget
  BY DEF Init, RetriesWithinBudget
<1>2. TypeInv /\ LeaseInv /\ RetriesWithinBudget /\ [Next]_vars => RetriesWithinBudget'
  BY StepShape DEF NoRow, OneRow, SameRow, Moves, Edge, Final, Open, Active, RetriesWithinBudget, RetryAllowed,
                   TypeInv, TypeOK, Request
<1> QED
  BY <1>1, <1>2, TypeInvariance, LeaseInvariance, PTL DEF Spec

\* The ledger is typed by TypeOK in every reachable state.
THEOREM TypeCorrect == Spec => []TypeOK
<1>1. TypeInv => TypeOK
  BY DEF TypeInv
<1> QED
  BY <1>1, TypeInvariance, PTL

\* What the ledger's phases look like, status by status.
LEMMA PhaseOf ==
  /\ Phase("absent") = "absent"
  /\ \A st \in Open : Phase(st) = "waiting"
  /\ \A st \in Active : Phase(st) = "held"
  /\ \A st \in Final : Phase(st) = "closed"
BY DEF Phase, Open, Active, Final

\* The phases of all jobs, as the refinement mapping gives them.
phaseOf == [j \in Job |-> Phase(status[j])]

\* Moving one row changes the contract's variables at that job alone.
LEMMA OneRowMapped ==
  ASSUME TypeInv, TypeInv', NEW j \in Job, OneRow(j)
  PROVE  /\ phaseOf' = [phaseOf EXCEPT ![j] = Phase(status'[j])]
         /\ token' = [token EXCEPT ![j] = token'[j]]
         /\ verdict' = [verdict EXCEPT ![j] = verdict'[j]]
         /\ phaseOf[j] = Phase(status[j])
         /\ token \in [Job -> Nat]
         /\ verdict \in [Job -> Nat]
         /\ issued \in Nat
<1>1. \A k \in Job \ {j} : status'[k] = status[k] /\ token'[k] = token[k] /\ verdict'[k] = verdict[k]
  BY DEF OneRow, SameRow
<1>2. \A k \in Job \ {j} : Phase(status'[k]) = Phase(status[k])
  BY <1>1
<1>3. phaseOf' = [phaseOf EXCEPT ![j] = Phase(status'[j])]
  BY <1>2 DEF phaseOf
<1>4. /\ token \in [Job -> Nat] /\ token' \in [Job -> Nat]
      /\ verdict \in [Job -> Nat] /\ verdict' \in [Job -> Nat]
      /\ issued \in Nat
  BY DEF TypeInv, TypeOK
<1>5. token' = [token EXCEPT ![j] = token'[j]] /\ verdict' = [verdict EXCEPT ![j] = verdict'[j]]
  BY <1>1, <1>4
<1> QED
  BY <1>3, <1>4, <1>5 DEF phaseOf

\* Moving one row along an edge is a step of the contract for its job.
LEMMA EdgeIsContractStep ==
  ASSUME TypeInv, TypeInv', NEW j \in Job, OneRow(j)
  PROVE  Contract!Next \/ UNCHANGED <<phaseOf, token, verdict, issued>>
<1>1. /\ phaseOf' = [phaseOf EXCEPT ![j] = Phase(status'[j])]
      /\ token' = [token EXCEPT ![j] = token'[j]]
      /\ verdict' = [verdict EXCEPT ![j] = verdict'[j]]
      /\ phaseOf[j] = Phase(status[j])
      /\ token \in [Job -> Nat] /\ verdict \in [Job -> Nat] /\ issued \in Nat
  BY OneRowMapped
<1>2. CASE /\ status[j] = "absent" /\ status'[j] = "queued"
           /\ token'[j] = token[j] /\ verdict'[j] = verdict[j] /\ issued' = issued
  <2>1. phaseOf[j] = "absent" /\ phaseOf' = [phaseOf EXCEPT ![j] = "waiting"]
    BY <1>1, <1>2, PhaseOf DEF Open
  <2>2. token' = token /\ verdict' = verdict
    BY <1>1, <1>2
  <2>3. Contract!Submit(j)
    BY <2>1, <2>2, <1>2 DEF Contract!Submit, phaseOf
  <2> QED
    BY <2>3 DEF Contract!Next
<1>3. CASE /\ status[j] \in Open \cup Active /\ status'[j] = "leased"
           /\ issued' = issued + 1 /\ token'[j] = issued + 1 /\ verdict'[j] = verdict[j]
  <2>1. phaseOf[j] \in {"waiting", "held"} /\ phaseOf' = [phaseOf EXCEPT ![j] = "held"]
    <3>1. Phase(status'[j]) = "held"
      BY <1>3, PhaseOf DEF Active
    <3>2. Phase(status[j]) \in {"waiting", "held"}
      BY <1>3, PhaseOf
    <3> QED
      BY <1>1, <3>1, <3>2
  <2>2. /\ verdict' = verdict
        /\ token'[j] \notin (1..issued) \cup {0}
        /\ 1..issued' = (1..issued) \cup {token'[j]}
    BY <1>1, <1>3
  <2>3. Contract!Grant(j)
    BY <1>1, <2>1, <2>2 DEF Contract!Grant, phaseOf
  <2> QED
    BY <2>3 DEF Contract!Next
<1>4. CASE /\ status[j] \in Active /\ status'[j] = "running"
           /\ token'[j] = token[j] /\ verdict'[j] = verdict[j] /\ issued' = issued
  <2>1. Phase(status'[j]) = "held" /\ phaseOf[j] = "held"
    BY <1>1, <1>4, PhaseOf DEF Active
  <2>2. phaseOf \in [Job -> {phaseOf[k] : k \in Job}]
    BY DEF phaseOf
  <2>3. phaseOf' = phaseOf
    BY <1>1, <2>1, <2>2
  <2>4. token' = token /\ verdict' = verdict
    BY <1>1, <1>4
  <2> QED
    BY <2>3, <2>4, <1>4
<1>5. CASE /\ status[j] \in Active /\ status'[j] = "retry_wait"
           /\ token'[j] = 0 /\ verdict'[j] = verdict[j] /\ issued' = issued
  <2>1. phaseOf[j] = "held" /\ phaseOf' = [phaseOf EXCEPT ![j] = "waiting"]
    BY <1>1, <1>5, PhaseOf DEF Open
  <2>2. verdict' = verdict /\ token' = [token EXCEPT ![j] = 0]
    BY <1>1, <1>5
  <2>3. Contract!Return(j)
    BY <2>1, <2>2, <1>5 DEF Contract!Return, phaseOf
  <2> QED
    BY <2>3 DEF Contract!Next
<1>6. CASE /\ status[j] \in Active /\ status'[j] \in {"succeeded", "failed", "dead_letter"}
           /\ token'[j] = 0 /\ verdict'[j] = token[j] /\ issued' = issued
  <2>1. phaseOf[j] = "held" /\ phaseOf' = [phaseOf EXCEPT ![j] = "closed"]
    BY <1>1, <1>6, PhaseOf DEF Final
  <2>2. verdict' = [verdict EXCEPT ![j] = token[j]] /\ token' = [token EXCEPT ![j] = 0]
    BY <1>1, <1>6
  <2>3. Contract!Close(j)
    BY <2>1, <2>2, <1>6 DEF Contract!Close, phaseOf
  <2> QED
    BY <2>3 DEF Contract!Next
<1>7. CASE /\ status[j] \in Open /\ status'[j] = "cancelled"
           /\ token'[j] = token[j] /\ verdict'[j] = verdict[j] /\ issued' = issued
  <2>1. phaseOf[j] = "waiting" /\ phaseOf' = [phaseOf EXCEPT ![j] = "closed"]
    BY <1>1, <1>7, PhaseOf DEF Final
  <2>2. verdict' = verdict /\ token' = token
    BY <1>1, <1>7
  <2>3. Contract!Withdraw(j)
    BY <2>1, <2>2, <1>7 DEF Contract!Withdraw, phaseOf
  <2> QED
    BY <2>3 DEF Contract!Next
<1> QED
  BY <1>2, <1>3, <1>4, <1>5, <1>6, <1>7 DEF OneRow, Edge, Moves

\* The ledger implements the contract: its first state and each of its steps are the
\* contract's, for any number of jobs, sessions, clients and lease lengths.
THEOREM ImplementsContractHolds == Spec => ImplementsContract
<1>1. Init => Contract!Init
  <2> SUFFICES ASSUME Init PROVE Contract!Init
    OBVIOUS
  <2>1. phaseOf = [j \in Job |-> "absent"]
    BY PhaseOf DEF Init, phaseOf
  <2> QED
    BY <2>1 DEF Init, Contract!Init, phaseOf
<1>2. TypeInv /\ TypeInv' /\ LeaseInv /\ [Next]_vars => [Contract!Next]_(Contract!cvars)
  <2> SUFFICES ASSUME TypeInv, TypeInv', LeaseInv, [Next]_vars
               PROVE  Contract!Next \/ UNCHANGED <<phaseOf, token, verdict, issued>>
    BY DEF Contract!cvars, phaseOf
  <2>1. CASE NoRow
    <3>1. \A k \in Job : status'[k] = status[k]
      BY <2>1 DEF NoRow, SameRow
    <3>2. phaseOf' = phaseOf
      BY <3>1 DEF phaseOf
    <3>3. token' = token /\ verdict' = verdict /\ issued' = issued
      BY <2>1 DEF NoRow, SameRow, TypeInv, TypeOK
    <3> QED
      BY <3>2, <3>3
  <2>2. CASE \E j \in Job : OneRow(j)
    BY <2>2, EdgeIsContractStep
  <2> QED
    BY <2>1, <2>2, StepShape
<1> QED
  BY <1>1, <1>2, TypeInvariance, LeaseInvariance, PTL DEF Spec, ImplementsContract, Contract!Spec
------------------------------------------------------------------------------
(* What the ledger promises the processes that enqueue and cancel: one job *)
(* per idempotency key, one unfinished sync job per stream, and            *)
(* cancellations that land on what their caller saw.                       *)

\* How a step that inserts nothing treats row j: it neither comes nor goes, its lock is
\* given back exactly when it is closed, and no attempt is made under one version.
Lasts(j) ==
    /\ status'[j] = "absent" <=> status[j] = "absent"
    /\ \/ lock'[j] = lock[j] /\ (status'[j] \in Final <=> status[j] \in Final)
       \/ /\ status[j] \notin Final /\ status'[j] \in Final
          /\ lock'[j] = IF lock[j] = "active" THEN "released" ELSE lock[j]
    /\ version'[j] >= version[j]
    /\ version'[j] = version[j] => attempts'[j] = attempts[j]

AllLast == request' = request /\ \A j \in Job : Lasts(j)

\* Giving a job at work or an open job another status under a new version.
LEMMA EndLasts ==
  ASSUME TypeInv, NEW j \in Job, NEW new \in Open \cup Final, status[j] \in Open \cup Active,
         status' = [status EXCEPT ![j] = new], version' = [version EXCEPT ![j] = @ + 1],
         lock' = ReleaseManagedStream(j, new), UNCHANGED <<attempts, request>>
  PROVE  AllLast
<1>1. Lasts(j)
  BY DEF TypeInv, TypeOK, Lasts, ReleaseManagedStream, Open, Final, Active
<1>2. ASSUME NEW k \in Job, k # j PROVE Lasts(k)
  BY <1>2 DEF TypeInv, TypeOK, Lasts, ReleaseManagedStream
<1> QED
  BY <1>1, <1>2 DEF AllLast

\* Workers, time and crashes keep every row and its request.
LEMMA WorkerLasts ==
  ASSUME TypeInv, LeaseInv, (\E s \in Session : SessionStep(s)) \/ Tick \/ UNCHANGED vars
  PROVE  AllLast /\ UNCHANGED <<client, replies>>
<1>1. ASSUME NEW s \in Session, ClaimJob(s) PROVE AllLast
  <2>1. PICK j \in Job :
           /\ Claimable(j)
           /\ status' = [status EXCEPT ![j] = "leased"]
           /\ attempts' = [attempts EXCEPT ![j] = @ + 1]
           /\ version' = [version EXCEPT ![j] = @ + 1]
    BY <1>1 DEF ClaimJob, Candidate
  <2>2. UNCHANGED <<request, lock>>
    BY <1>1 DEF ClaimJob
  <2> QED
    BY <2>1, <2>2 DEF AllLast, Lasts, Claimable, Open, Active, Final, TypeInv, TypeOK
<1>2. ASSUME NEW s \in Session, HeartbeatJob(s) PROVE AllLast
  <2>1. PICK j \in Job : j = held[s] /\ status[j] \in Active
    BY <1>2, LeasedFacts DEF HeartbeatJob, TypeInv
  <2>2. /\ status' = [status EXCEPT ![j] = "running"]
        /\ version' = [version EXCEPT ![j] = @ + 1]
        /\ UNCHANGED <<attempts, request, lock>>
    BY <1>2, <2>1 DEF HeartbeatJob
  <2> QED
    BY <2>1, <2>2 DEF AllLast, Lasts, Active, Final, TypeInv, TypeOK
<1>3. ASSUME NEW s \in Session, SucceedJob(s) \/ FailJob(s) PROVE AllLast
  <2>1. PICK j \in Job : j = held[s] /\ status[j] \in Active
    BY <1>3, LeasedFacts DEF SucceedJob, FailJob, TypeInv
  <2>2. PICK new \in Open \cup Final : EndLease(j, new) /\ UNCHANGED <<attempts, request>>
    BY <1>3, <2>1 DEF SucceedJob, FailJob, Open, Final
  <2> QED
    BY <2>1, <2>2, EndLasts DEF EndLease
<1>4. ASSUME UNCHANGED <<status, attempts, version, request, lock>> PROVE AllLast
  BY <1>4 DEF AllLast, Lasts, TypeInv, TypeOK
<1>5. (\E s \in Session : Refused(s) \/ Crash(s)) \/ Tick \/ UNCHANGED vars => AllLast
  BY <1>4 DEF Refused, Crash, Tick, vars, row
<1>6. UNCHANGED <<client, replies>>
  BY DEF SessionStep, Finish, ClaimJob, HeartbeatJob, SucceedJob, FailJob, Refused, Crash, Tick,
         vars
<1> QED
  BY <1>1, <1>2, <1>3, <1>5, <1>6 DEF SessionStep, Finish

\* So does a cancellation.
LEMMA CancelLasts ==
  ASSUME TypeInv, NEW c \in Client, CancelJob(c)
  PROVE  AllLast /\ UNCHANGED replies
<1>1. PICK j \in Job : j = client[c].job
  BY DEF TypeInv, Errands, CancelJob
<1>2. UNCHANGED <<attempts, request, replies>>
  BY DEF CancelJob
<1>3. CASE Cancellable(j, client[c].version)
  <2>1. /\ status' = [status EXCEPT ![j] = "cancelled"]
        /\ version' = [version EXCEPT ![j] = @ + 1]
        /\ lock' = ReleaseManagedStream(j, "cancelled")
    BY <1>1, <1>3 DEF CancelJob
  <2>2. status[j] \in Open \cup Active /\ "cancelled" \in Open \cup Final
    BY <1>3 DEF Cancellable, Final
  <2> QED
    BY <1>2, <2>1, <2>2, EndLasts
<1>4. CASE ~Cancellable(j, client[c].version)
  BY <1>1, <1>2, <1>4 DEF CancelJob, AllLast, Lasts, TypeInv, TypeOK
<1> QED
  BY <1>2, <1>3, <1>4
------------------------------------------------------------------------------
(***************************************************************************)
(* One job per key.  OneJobPerKey speaks of answers only; what keeps them  *)
(* together is that an answer repeats the row it names (Answered) and that *)
(* no two rows carry one key (KeyUnique).                                  *)
(***************************************************************************)
Answered ==
    \A r \in replies : r.job # NoJob /\ r.key # NoKey =>
        Exists(r.job) /\ request[r.job].key = r.key /\ request[r.job].payload = r.payload

KeyUnique ==
    \A j, k \in Job :
        Exists(j) /\ Exists(k) /\ request[j].key # NoKey /\ request[j].key = request[k].key => j = k

KeyInv == Answered /\ KeyUnique

\* An insert under a key that no row carries.
LEMMA InsertKeepsKeys ==
  ASSUME TypeInv, KeyInv, NEW j \in Job, NEW k \in Key \cup {NoKey}, NEW p \in Payload,
         InsertJob(j, k, p)
  PROVE  KeyInv'
<1>1. /\ status[j] = "absent" /\ status'[j] = "queued"
      /\ \A i \in Job : i # j => status'[i] = status[i] /\ request'[i] = request[i]
      /\ request'[j].key = k /\ request'[j].payload = p
  BY DEF InsertJob, TypeInv, TypeOK
<1>2. replies' = replies \cup {[key |-> k, payload |-> p, job |-> j]} /\ Holders(k) = {}
  BY DEF InsertJob
<1>3. \A r \in replies : r.job \in Job \cup {NoJob}
  BY DEF TypeInv, TypeOK, Reply
<1>4. Answered'
  BY <1>1, <1>2, <1>3 DEF KeyInv, Answered, Exists
<1>5. KeyUnique'
  BY <1>1, <1>2 DEF KeyInv, KeyUnique, Exists, Holders
<1> QED
  BY <1>4, <1>5 DEF KeyInv

\* An answer from the lookup names the row that carries the key, or none.
LEMMA AnswerKeepsKeys ==
  ASSUME TypeInv, KeyInv, NEW k \in Key \cup {NoKey}, NEW p \in Payload, NEW r \in Job \cup {NoJob},
         r = NoJob \/ Existing(k, p, r), UNCHANGED <<status, request>>,
         replies' = replies \cup {[key |-> k, payload |-> p, job |-> r]}
  PROVE  KeyInv'
<1>1. KeyUnique'
  BY DEF KeyInv, KeyUnique, Exists
<1>2. ASSUME r # NoJob, k # NoKey
      PROVE  Exists(r) /\ request[r].key = k /\ request[r].payload = p
  <2>1. r \in Holders(k)
    BY <1>2 DEF Existing
  <2>2. PICK h \in Holders(k) : request[h].payload = p
    BY <1>2 DEF Existing
  <2>3. h = r
    BY <1>2, <2>1, <2>2 DEF Holders, KeyInv, KeyUnique
  <2> QED
    BY <2>1, <2>2, <2>3 DEF Holders
<1>3. Answered'
  BY <1>2 DEF KeyInv, Answered, Exists
<1> QED
  BY <1>1, <1>3 DEF KeyInv

\* No step gives a key to a second job.
LEMMA KeyInvStep == TypeInv /\ LeaseInv /\ KeyInv /\ [Next]_vars => KeyInv'
<1> SUFFICES ASSUME TypeInv, LeaseInv, KeyInv, [Next]_vars PROVE KeyInv'
  OBVIOUS
<1>1. ASSUME AllLast, UNCHANGED replies PROVE KeyInv'
  <2>1. \A r \in replies : r.job \in Job \cup {NoJob}
    BY DEF TypeInv, TypeOK, Reply
  <2> QED
    BY <1>1, <2>1 DEF KeyInv, Answered, KeyUnique, Exists, AllLast, Lasts
<1>2. ASSUME NEW c \in Client, NEW k \in Key \cup {NoKey}, NEW p \in Payload, EnqueueLookup(c, k, p)
      PROVE  KeyInv'
  <2>1. CASE UNCHANGED replies
    BY <1>2, <2>1 DEF EnqueueLookup, row, KeyInv, Answered, KeyUnique, Exists
  <2> QED
    BY <1>2, <2>1, AnswerKeepsKeys DEF EnqueueLookup, row
<1>3. ASSUME NEW c \in Client, EnqueueInsert(c) PROVE KeyInv'
  <2>1. client[c].payload \in Payload /\ client[c].key \in Key \cup {NoKey}
    BY <1>3 DEF EnqueueInsert, TypeInv, TypeOK, Errands, Errand
  <2> QED
    BY <1>3, <2>1, InsertKeepsKeys, AnswerKeepsKeys DEF EnqueueInsert, row
<1>4. ASSUME NEW c \in Client, NEW k \in Key \cup {NoKey}, NEW p \in Payload, EnqueueSync(c, k, p)
      PROVE  KeyInv'
  BY <1>4, InsertKeepsKeys, AnswerKeepsKeys DEF EnqueueSync, row
<1>5. ASSUME NEW c \in Client, NEW j \in Job, ReadForCancel(c, j) PROVE KeyInv'
  BY <1>5 DEF ReadForCancel, row, KeyInv, Answered, KeyUnique, Exists
<1> QED
  BY <1>1, <1>2, <1>3, <1>4, <1>5, WorkerLasts, CancelLasts DEF Next, ClientStep

\* For any number of clients, keys and jobs, an idempotency key names one job and one
\* payload in every successful answer.
THEOREM OneJobPerKeyHolds == Spec => []OneJobPerKey
<1>1. Init => KeyInv
  BY DEF Init, KeyInv, Answered, KeyUnique, Exists
<1>2. TypeInv /\ KeyInv => OneJobPerKey
  <2> SUFFICES ASSUME TypeInv, KeyInv PROVE OneJobPerKey
    OBVIOUS
  <2>1. \A r \in replies : r.job \in Job \cup {NoJob}
    BY DEF TypeInv, TypeOK, Reply
  <2> QED
    BY <2>1 DEF KeyInv, Answered, KeyUnique, OneJobPerKey
<1> QED
  BY <1>1, <1>2, KeyInvStep, TypeInvariance, LeaseInvariance, PTL DEF Spec
------------------------------------------------------------------------------
(***************************************************************************)
(* One unfinished sync job per stream.  StreamLockedWhileLive needs to     *)
(* know that a lock belongs to a row, that rows carry payloads, and that a *)
(* client about to insert without a lock inserts no sync job.              *)
(***************************************************************************)
Plain ==
    /\ \A j \in Job : lock[j] = "active" => Exists(j)
    /\ \A j \in Job : Exists(j) => request[j].payload \in Payload
    /\ \A c \in Client : client[c].pc = "insert" => StreamOf[client[c].payload] = NoStream

StreamInv == Plain /\ StreamLockedWhileLive

\* Steps that insert nothing.
LEMMA LastingKeepsStreams ==
  ASSUME TypeInv, StreamInv, AllLast,
         \A c \in Client : client'[c] = client[c] \/ client'[c].pc # "insert"
                              \/ StreamOf[client'[c].payload] = NoStream
  PROVE  StreamInv'
<1>1. Plain'
  BY DEF StreamInv, Plain, Exists, AllLast, Lasts
<1>2. StreamLockedWhileLive'
  BY DEF StreamInv, StreamLockedWhileLive, Exists, AllLast, Lasts
<1> QED
  BY <1>1, <1>2 DEF StreamInv

\* An insert that takes the lock of its stream, if its payload names one.
LEMMA InsertKeepsStreams ==
  ASSUME TypeInv, StreamInv, NEW j \in Job, NEW k \in Key \cup {NoKey}, NEW p \in Payload,
         InsertJob(j, k, p),
         \/ StreamOf[p] = NoStream /\ lock' = lock
         \/ StreamOf[p] # NoStream /\ LockHolders(StreamOf[p]) = {}
            /\ lock' = [lock EXCEPT ![j] = "active"],
         \A c \in Client : client'[c] = client[c] \/ client'[c].pc # "insert"
  PROVE  StreamInv'
<1>1. /\ status[j] = "absent" /\ status'[j] = "queued"
      /\ \A i \in Job : i # j => status'[i] = status[i] /\ request'[i] = request[i]
                                 /\ lock'[i] = lock[i]
      /\ request'[j].payload = p /\ lock[j] # "active"
  BY DEF InsertJob, TypeInv, TypeOK, StreamInv, Plain, Exists
<1>2. \/ StreamOf[p] = NoStream /\ lock'[j] # "active"
      \/ /\ StreamOf[p] # NoStream /\ lock'[j] = "active"
         /\ \A i \in Job : i # j /\ lock[i] = "active" => StreamOf[request[i].payload] # StreamOf[p]
  BY <1>1 DEF LockHolders, TypeInv, TypeOK, StreamInv, Plain
<1>3. Plain'
  BY <1>1, <1>2 DEF StreamInv, Plain, Exists
<1>4. StreamLockedWhileLive'
  BY <1>1, <1>2 DEF StreamInv, StreamLockedWhileLive, Exists, Final
<1> QED
  BY <1>3, <1>4 DEF StreamInv

LEMMA StreamInvStep == TypeInv /\ LeaseInv /\ StreamInv /\ [Next]_vars => StreamInv'
<1> SUFFICES ASSUME TypeInv, LeaseInv, StreamInv, [Next]_vars PROVE StreamInv'
  OBVIOUS
<1>1. CASE (\E s \in Session : SessionStep(s)) \/ Tick \/ UNCHANGED vars
  BY <1>1, WorkerLasts, LastingKeepsStreams
<1>2. ASSUME UNCHANGED <<status, attempts, version, request, lock>> PROVE AllLast
  BY <1>2 DEF AllLast, Lasts, TypeInv, TypeOK
<1>3. ASSUME NEW c \in Client, NEW k \in Key \cup {NoKey}, NEW p \in Payload, EnqueueLookup(c, k, p)
      PROVE  StreamInv'
  <2>1. \A e \in Client : client'[e] = client[e] \/ StreamOf[client'[e].payload] = NoStream
    BY <1>3 DEF EnqueueLookup, TypeInv, TypeOK
  <2> QED
    BY <1>2, <1>3, <2>1, LastingKeepsStreams DEF EnqueueLookup, row
<1>4. ASSUME NEW c \in Client, EnqueueInsert(c) PROVE StreamInv'
  <2>1. /\ client[c].payload \in Payload /\ client[c].key \in Key \cup {NoKey}
        /\ StreamOf[client[c].payload] = NoStream
    BY <1>4 DEF EnqueueInsert, TypeInv, TypeOK, Errands, Errand, StreamInv, Plain
  <2>2. \A e \in Client : client'[e] = client[e] \/ client'[e].pc # "insert"
    BY <1>4 DEF EnqueueInsert, NoErrand, TypeInv, TypeOK
  <2>3. lock' = lock
    BY <1>4 DEF EnqueueInsert
  <2> QED
    BY <1>2, <1>4, <2>1, <2>2, <2>3, LastingKeepsStreams, InsertKeepsStreams DEF EnqueueInsert, row
<1>5. ASSUME NEW c \in Client, NEW k \in Key \cup {NoKey}, NEW p \in Payload, EnqueueSync(c, k, p)
      PROVE  StreamInv'
  <2>1. UNCHANGED client /\ StreamOf[p] # NoStream /\ LockHolders(StreamOf[p]) = {}
    BY <1>5 DEF EnqueueSync
  <2> QED
    BY <1>2, <1>5, <2>1, LastingKeepsStreams, InsertKeepsStreams DEF EnqueueSync, row
<1>6. ASSUME NEW c \in Client, NEW j \in Job, ReadForCancel(c, j) PROVE StreamInv'
  <2>1. \A e \in Client : client'[e] = client[e] \/ client'[e].pc # "insert"
    BY <1>6 DEF ReadForCancel, TypeInv, TypeOK
  <2> QED
    BY <1>2, <1>6, <2>1, LastingKeepsStreams DEF ReadForCancel, row
<1>7. ASSUME NEW c \in Client, CancelJob(c) PROVE StreamInv'
  <2>1. \A e \in Client : client'[e] = client[e] \/ client'[e].pc # "insert"
    BY <1>7 DEF CancelJob, NoErrand, TypeInv, TypeOK
  <2> QED
    BY <1>7, <2>1, CancelLasts, LastingKeepsStreams
<1> QED
  BY <1>1, <1>3, <1>4, <1>5, <1>6, <1>7 DEF Next, ClientStep

\* For any number of clients, sessions and streams, a stream is locked exactly while its
\* sync job is unfinished, and by one job.
THEOREM StreamLockedWhileLiveHolds == Spec => []StreamLockedWhileLive
<1>1. Init => StreamInv
  BY DEF Init, StreamInv, Plain, StreamLockedWhileLive, Exists, NoErrand
<1>2. StreamInv => StreamLockedWhileLive
  BY DEF StreamInv
<1> QED
  BY <1>1, <1>2, StreamInvStep, TypeInvariance, LeaseInvariance, PTL DEF Spec
------------------------------------------------------------------------------
(***************************************************************************)
(* Cancellations.  As long as a row bears the version that a client read,  *)
(* it also bears the attempts that it had then.                            *)
(***************************************************************************)
Remembers ==
    \A c \in Client : client[c].pc = "cancel" /\ client[c].version # 0 =>
        /\ Exists(client[c].job)
        /\ client[c].version <= version[client[c].job]
        /\ client[c].version = version[client[c].job] =>
              attempts[client[c].job] = client[c].seen

\* A client that goes on or comes to rest while rows last.
LEMMA LastingKeepsMemory ==
  ASSUME TypeInv, TypeInv', Remembers, AllLast,
         \A c \in Client : client'[c] = client[c] \/ client'[c].pc # "cancel"
  PROVE  Remembers'
<1> SUFFICES ASSUME NEW c \in Client, client[c].pc = "cancel", client[c].version # 0
             PROVE  /\ status'[client[c].job] # "absent"
                    /\ client[c].version <= version'[client[c].job]
                    /\ client[c].version = version'[client[c].job] =>
                          attempts'[client[c].job] = client[c].seen
  BY DEF Remembers, Exists
<1>1. PICK j \in Job : j = client[c].job
  BY DEF TypeInv, Errands
<1>2. client[c].version \in Nat /\ version[j] \in Nat /\ version'[j] \in Nat
  BY DEF TypeInv, TypeOK, Errand
<1>3. Exists(j) /\ client[c].version <= version[j]
      /\ (client[c].version = version[j] => attempts[j] = client[c].seen)
  BY <1>1 DEF Remembers
<1>4. Lasts(j)
  BY DEF AllLast
<1> QED
  BY <1>1, <1>2, <1>3, <1>4 DEF Lasts, Exists

\* An insert concerns no job that somebody is about to cancel.
LEMMA InsertKeepsMemory ==
  ASSUME TypeInv, Remembers, NEW j \in Job, NEW k \in Key \cup {NoKey}, NEW p \in Payload,
         InsertJob(j, k, p),
         \A c \in Client : client'[c] = client[c] \/ client'[c].pc # "cancel"
  PROVE  Remembers'
<1>1. /\ status[j] = "absent" /\ UNCHANGED attempts
      /\ \A i \in Job : i # j => status'[i] = status[i] /\ version'[i] = version[i]
  BY DEF InsertJob, TypeInv, TypeOK
<1> SUFFICES ASSUME NEW c \in Client, client[c].pc = "cancel", client[c].version # 0
             PROVE  /\ status'[client[c].job] # "absent"
                    /\ client[c].version <= version'[client[c].job]
                    /\ client[c].version = version'[client[c].job] =>
                          attempts'[client[c].job] = client[c].seen
  BY DEF Remembers, Exists
<1>2. PICK i \in Job : i = client[c].job
  BY DEF TypeInv, Errands
<1>3. i # j
  BY <1>1, <1>2 DEF Remembers, Exists
<1> QED
  BY <1>1, <1>2, <1>3 DEF Remembers, Exists

LEMMA RemembersStep == TypeInv /\ TypeInv' /\ LeaseInv /\ Remembers /\ [Next]_vars => Remembers'
<1> SUFFICES ASSUME TypeInv, TypeInv', LeaseInv, Remembers, [Next]_vars PROVE Remembers'
  OBVIOUS
<1>1. CASE (\E s \in Session : SessionStep(s)) \/ Tick \/ UNCHANGED vars
  BY <1>1, WorkerLasts, LastingKeepsMemory
<1>2. ASSUME UNCHANGED <<status, attempts, version, request, lock>> PROVE AllLast
  BY <1>2 DEF AllLast, Lasts, TypeInv, TypeOK
<1>3. ASSUME NEW c \in Client, NEW k \in Key \cup {NoKey}, NEW p \in Payload, EnqueueLookup(c, k, p)
      PROVE  Remembers'
  <2>1. \A e \in Client : client'[e] = client[e] \/ client'[e].pc # "cancel"
    BY <1>3 DEF EnqueueLookup, TypeInv, TypeOK
  <2> QED
    BY <1>2, <1>3, <2>1, LastingKeepsMemory DEF EnqueueLookup, row
<1>4. ASSUME NEW c \in Client, EnqueueInsert(c) PROVE Remembers'
  <2>1. client[c].payload \in Payload /\ client[c].key \in Key \cup {NoKey}
    BY <1>4 DEF EnqueueInsert, TypeInv, TypeOK, Errands, Errand
  <2>2. \A e \in Client : client'[e] = client[e] \/ client'[e].pc # "cancel"
    BY <1>4 DEF EnqueueInsert, NoErrand, TypeInv, TypeOK
  <2>3. lock' = lock
    BY <1>4 DEF EnqueueInsert
  <2> QED
    BY <1>2, <1>4, <2>1, <2>2, <2>3, LastingKeepsMemory, InsertKeepsMemory DEF EnqueueInsert, row
<1>5. ASSUME NEW c \in Client, NEW k \in Key \cup {NoKey}, NEW p \in Payload, EnqueueSync(c, k, p)
      PROVE  Remembers'
  <2>1. UNCHANGED client
    BY <1>5 DEF EnqueueSync
  <2> QED
    BY <1>2, <1>5, <2>1, LastingKeepsMemory, InsertKeepsMemory DEF EnqueueSync, row
<1>6. ASSUME NEW c \in Client, NEW j \in Job, ReadForCancel(c, j) PROVE Remembers'
  <2>1. \A e \in Client : e # c => client'[e] = client[e]
    BY <1>6 DEF ReadForCancel, TypeInv, TypeOK
  <2>2. /\ client'[c].job = j /\ client'[c].version \in {0, version[j]}
        /\ client'[c].seen = attempts[j] /\ Exists(j) /\ version[j] \in Nat
    BY <1>6 DEF ReadForCancel, TypeInv, TypeOK
  <2>3. UNCHANGED <<status, attempts, version>>
    BY <1>6 DEF ReadForCancel, row
  <2> QED
    BY <2>1, <2>2, <2>3 DEF Remembers, Exists
<1>7. ASSUME NEW c \in Client, CancelJob(c) PROVE Remembers'
  <2>1. \A e \in Client : client'[e] = client[e] \/ client'[e].pc # "cancel"
    BY <1>7 DEF CancelJob, NoErrand, TypeInv, TypeOK
  <2> QED
    BY <1>7, <2>1, CancelLasts, LastingKeepsMemory
<1> QED
  BY <1>1, <1>3, <1>4, <1>5, <1>6, <1>7 DEF Next, ClientStep

\* For any number of clients and sessions, a cancellation that names a version lands on
\* the attempt that its caller saw.
THEOREM CancelSawTheJobHolds == Spec => CancelSawTheJob
<1>1. Init => Remembers
  BY DEF Init, Remembers, NoErrand
<1>2. Spec => []Remembers
  BY <1>1, RemembersStep, TypeInvariance, LeaseInvariance, PTL DEF Spec
<1>3. TypeInv /\ LeaseInv /\ Remembers /\ [Next]_vars =>
        [\A c \in Client :
            client[c].pc = "cancel" /\ client'[c].pc = "idle" /\ client[c].version # 0
               /\ status'[client[c].job] # status[client[c].job] =>
            attempts[client[c].job] = client[c].seen]_vars
  <2> SUFFICES ASSUME TypeInv, LeaseInv, Remembers, Next, NEW c \in Client,
                      client[c].pc = "cancel", client'[c].pc = "idle", client[c].version # 0,
                      status'[client[c].job] # status[client[c].job]
               PROVE  attempts[client[c].job] = client[c].seen
    BY DEF vars
  <2>1. ~ ((\E s \in Session : SessionStep(s)) \/ Tick)
    BY WorkerLasts
  <2>2. PICK e \in Client : ClientStep(e)
    BY <2>1 DEF Next
  <2>3. CASE e # c
    BY <2>2, <2>3 DEF ClientStep, EnqueueLookup, EnqueueInsert, EnqueueSync, ReadForCancel,
                      CancelJob, TypeInv, TypeOK
  <2>4. CASE e = c
    <3>1. CancelJob(c)
      BY <2>2, <2>4 DEF ClientStep, EnqueueLookup, EnqueueInsert, EnqueueSync, ReadForCancel
    <3>2. Cancellable(client[c].job, client[c].version)
      BY <3>1 DEF CancelJob
    <3> QED
      BY <3>2 DEF Cancellable, Remembers
  <2> QED
    BY <2>3, <2>4
<1> QED
  BY <1>2, <1>3, TypeInvariance, LeaseInvariance, PTL DEF Spec, CancelSawTheJob
================================================================================
