---------------------------- MODULE SendingProofs ----------------------------
(***************************************************************************)
(* Proofs about outbound sends, external actions, the generic outbox and   *)
(* the runs of the profiles, for any number of rows, keys and processes.   *)
(*                                                                         *)
(* External actions: an approval is read in one transaction and the        *)
(* provider called later, but consent once given is never forgotten, so    *)
(* whoever is past the read acts with it.                                  *)
(*                                                                         *)
(* The outbox: every attempt pays for the token it hands out.  A token is  *)
(* held by one publisher, who delivers once and gives it back, so what was *)
(* delivered and what is still out never exceed the attempts.              *)
(*                                                                         *)
(* Outbound sends: an attempt number is claimed once, every number up to   *)
(* the recorded attempts is claimed, and a dispatcher that has called the  *)
(* provider holds the next one.  Hence nobody else claims the intent until *)
(* its outcome is recorded, whatever becomes of its lease.                 *)
(*                                                                         *)
(* Runs of the profiles: as long as no worker failed, what was collected   *)
(* is the answers of the first profiles, which are done and stay so.  A    *)
(* cap is only set after the fan-out, so the run has an evaluation, and    *)
(* what complete reads of the run is more than the cap the result states:  *)
(* unless the cap was raised since, the run goes to the breaker.           *)
(***************************************************************************)
EXTENDS MCSending, Sequences, FiniteSetTheorems, TLAPS

\* A set whose members are all equal has at most one.
LEMMA AtMostOne ==
    ASSUME NEW S, \A x, y \in S : x = y
    PROVE  Cardinality(S) <= 1
<1>1. CASE S = {}
    BY <1>1, FS_EmptySet
<1>2. ASSUME NEW x \in S PROVE Cardinality(S) <= 1
  <2>1. S = {x}
      BY <1>2
  <2> QED
      BY <2>1, FS_Singleton
<1> QED
    BY <1>1, <1>2
\* Each instance counts as the library does.
LEMMA SameCount ==
    ASSUME NEW S
    PROVE  /\ Actions!Cardinality(S) = Cardinality(S)
           /\ Outbox!Cardinality(S) = Cardinality(S)
<1>1. Actions!Cardinality(S) = Cardinality(S)
    BY DEF Actions!Cardinality, Cardinality
<1>2. Outbox!Cardinality(S) = Cardinality(S)
    BY DEF Outbox!Cardinality, Cardinality
<1> QED
    BY <1>1, <1>2
------------------------------------------------------------------------------
(* External actions                                                        *)

\* Whoever works on an action works on one that was queued and somebody approved.
Consent ==
    /\ \A a \in Action : actionApproval[a] = "approved" => agreed[a]
    /\ \A a \in Action : calls[a] > 0 => agreed[a]
    /\ \A r \in Approver : actionDeciding[r] # NoAction =>
            actionApproval[actionDeciding[r]] # "absent"
    /\ \A d \in Dispatcher : actionPc[d] # "idle" =>
            /\ actionWork[d] \in Action
            /\ actionEvent[actionWork[d]] # "absent"
            /\ agreed[actionWork[d]]

\* A receipt, and a dispatcher about to write one, stand for a call.
Receipts ==
    /\ \A a \in Action : actionEvent[a] = "published" => calls[a] > 0
    /\ \A d \in Dispatcher : actionPc[d] = "returned" => calls[actionWork[d]] > 0

\* Two actions queued under one key are the same action.
ActionKeys ==
    \A k \in Key : \A a, b \in Actions!Holders(k) : a = b

ActionInv == Actions!TypeOK /\ Consent /\ Receipts /\ ActionKeys

LEMMA ActionInit == Actions!Init => ActionInv
<1> SUFFICES ASSUME Actions!Init PROVE ActionInv
    OBVIOUS
<1>1. Actions!TypeOK
  <2>1. 0 \in 0..MaxCalls
      BY ActionAssumption DEF Actions!ActionAssumption
  <2> QED
      BY <2>1 DEF Actions!Init, Actions!TypeOK
<1>2. Consent /\ Receipts /\ ActionKeys
    BY DEF Actions!Init, Consent, Receipts, ActionKeys, Actions!Holders
<1> QED
    BY <1>1, <1>2 DEF ActionInv

LEMMA QueueKeeps ==
    ASSUME ActionInv, NEW c \in Caller,
           Actions!QueueInsert(c) \/ \E k \in Key \cup {NoKey} : Actions!QueueLookup(c, k)
    PROVE  ActionInv'
<1>1. ASSUME NEW k \in Key \cup {NoKey}, Actions!QueueLookup(c, k) PROVE ActionInv'
  <2>1. Actions!TypeOK'
      BY <1>1 DEF ActionInv, Actions!TypeOK, Actions!QueueLookup, Actions!database
  <2>2. (Consent /\ Receipts /\ ActionKeys)'
      BY <1>1 DEF ActionInv, Consent, Receipts, ActionKeys, Actions!Holders,
                  Actions!QueueLookup, Actions!database
  <2> QED
      BY <2>1, <2>2 DEF ActionInv
<1>2. ASSUME Actions!QueueInsert(c) PROVE ActionInv'
  <2>1. PICK k \in queueing[c] :
            /\ \/ \E a \in Action :
                     /\ Actions!KeyFree(k)
                     /\ actionEvent[a] = "absent"
                     /\ actionKey' = [actionKey EXCEPT ![a] = k]
                     /\ actionEvent' = [actionEvent EXCEPT ![a] = "pending"]
                     /\ actionApproval' = [actionApproval EXCEPT ![a] = "pending"]
               \/ UNCHANGED <<actionKey, actionEvent, actionApproval>>
            /\ queueing' = [queueing EXCEPT ![c] = {}]
            /\ UNCHANGED <<fenced, actionDeciding, actionPc, actionWork, calls, agreed>>
      BY <1>2 DEF Actions!QueueInsert, Actions!Link, Actions!database
  <2>2. k \in Key \cup {NoKey}
      BY <2>1 DEF ActionInv, Actions!TypeOK
  <2>3. CASE UNCHANGED <<actionKey, actionEvent, actionApproval>>
    <3>1. Actions!TypeOK'
        BY <2>1, <2>3 DEF ActionInv, Actions!TypeOK
    <3>2. (Consent /\ Receipts /\ ActionKeys)'
        BY <2>1, <2>3 DEF ActionInv, Consent, Receipts, ActionKeys, Actions!Holders
    <3> QED
        BY <3>1, <3>2 DEF ActionInv
  <2>4. ASSUME NEW a \in Action, Actions!KeyFree(k), actionEvent[a] = "absent",
               actionKey' = [actionKey EXCEPT ![a] = k],
               actionEvent' = [actionEvent EXCEPT ![a] = "pending"],
               actionApproval' = [actionApproval EXCEPT ![a] = "pending"]
        PROVE  ActionInv'
    <3>1. Actions!TypeOK'
        BY <2>1, <2>2, <2>4 DEF ActionInv, Actions!TypeOK
    <3>2. Consent' /\ Receipts'
        BY <2>1, <2>4 DEF ActionInv, Actions!TypeOK, Consent, Receipts
    <3>3. ActionKeys'
        BY <2>1, <2>4 DEF ActionInv, Actions!TypeOK, ActionKeys, Actions!KeyFree, Actions!Holders
    <3> QED
        BY <3>1, <3>2, <3>3 DEF ActionInv
  <2> QED
      BY <2>1, <2>3, <2>4
<1> QED
    BY <1>1, <1>2

LEMMA DecideKeeps ==
    ASSUME ActionInv, NEW r \in Approver,
           \/ \E a \in Action : Actions!DecideRead(r, a)
           \/ \E decision \in {"approved", "rejected"} : Actions!DecideWrite(r, decision)
    PROVE  ActionInv'
<1>1. ASSUME NEW a \in Action, Actions!DecideRead(r, a) PROVE ActionInv'
  <2>1. Actions!TypeOK'
      BY <1>1 DEF ActionInv, Actions!TypeOK, Actions!DecideRead, Actions!database
  <2>2. (Consent /\ Receipts /\ ActionKeys)'
      BY <1>1 DEF ActionInv, Actions!TypeOK, Consent, Receipts, ActionKeys, Actions!Holders,
                  Actions!DecideRead, Actions!database
  <2> QED
      BY <2>1, <2>2 DEF ActionInv
<1>2. ASSUME NEW decision \in {"approved", "rejected"}, Actions!DecideWrite(r, decision)
      PROVE  ActionInv'
  <2> DEFINE a == actionDeciding[r]
  <2>1. a \in Action
      BY <1>2 DEF ActionInv, Actions!TypeOK, Actions!DecideWrite
  <2>2. agreed' \in [Action -> BOOLEAN]
      BY <1>2 DEF ActionInv, Actions!TypeOK, Actions!DecideWrite
  <2>3. actionApproval[a] # "absent"
      BY <1>2 DEF ActionInv, Consent, Actions!DecideWrite
  <2>4. Actions!TypeOK'
      BY <1>2, <2>1, <2>2, <2>3 DEF ActionInv, Actions!TypeOK, Actions!DecideWrite
  <2>5. \A b \in Action : agreed[b] => agreed'[b]
      BY <1>2, <2>1 DEF ActionInv, Actions!TypeOK, Actions!DecideWrite
  <2>6. decision = "approved" => agreed'[a]
      BY <1>2, <2>1 DEF ActionInv, Actions!TypeOK, Actions!DecideWrite
  <2>7. Consent'
      BY <1>2, <2>1, <2>5, <2>6 DEF ActionInv, Actions!TypeOK, Consent, Actions!DecideWrite
  <2>8. Receipts' /\ ActionKeys'
      BY <1>2 DEF ActionInv, Receipts, ActionKeys, Actions!Holders, Actions!DecideWrite
  <2> QED
      BY <2>4, <2>7, <2>8 DEF ActionInv
<1> QED
    BY <1>1, <1>2

LEMMA CallKeeps ==
    ASSUME ActionInv, NEW d \in Dispatcher, Actions!Call(d)
    PROVE  ActionInv'
<1>1. actionWork[d] \in Action
    BY DEF ActionInv, Consent, Actions!Call
<1>2. Actions!TypeOK'
    BY <1>1, ActionAssumption
       DEF ActionInv, Actions!TypeOK, Actions!Call, Actions!database, Actions!ActionAssumption
<1>3. Consent' /\ Receipts'
    BY <1>1, ActionAssumption
       DEF ActionInv, Actions!TypeOK, Consent, Receipts, Actions!Call, Actions!database,
           Actions!ActionAssumption
<1>4. ActionKeys'
    BY DEF ActionInv, ActionKeys, Actions!Holders, Actions!Call, Actions!database
<1> QED
    BY <1>2, <1>3, <1>4 DEF ActionInv

LEMMA RecordKeeps ==
    ASSUME ActionInv, NEW d \in Dispatcher, Actions!Record(d)
    PROVE  ActionInv'
<1>1. actionWork[d] \in Action /\ actionEvent[actionWork[d]] # "absent"
    BY DEF ActionInv, Consent, Actions!Record
<1>2. Actions!TypeOK'
    BY <1>1 DEF ActionInv, Actions!TypeOK, Actions!Record, Actions!Outcome
<1>3. Consent' /\ Receipts'
    BY <1>1 DEF ActionInv, Actions!TypeOK, Consent, Receipts, Actions!Record, Actions!Outcome
<1>4. ActionKeys'
    BY <1>1 DEF ActionInv, Actions!TypeOK, ActionKeys, Actions!Holders, Actions!Record,
                Actions!Outcome
<1> QED
    BY <1>2, <1>3, <1>4 DEF ActionInv

LEMMA DispatcherKeeps ==
    ASSUME ActionInv, NEW d \in Dispatcher,
           Actions!Crash(d) \/ \E a \in Action : Actions!DispatchRead(d, a)
    PROVE  ActionInv'
<1>1. ASSUME NEW a \in Action, Actions!DispatchRead(d, a) PROVE ActionInv'
  <2>1. Actions!TypeOK'
      BY <1>1 DEF ActionInv, Actions!TypeOK, Actions!DispatchRead, Actions!database
  <2>2. Consent' /\ Receipts'
      BY <1>1 DEF ActionInv, Actions!TypeOK, Consent, Receipts, Actions!DispatchRead,
                  Actions!MayDispatch, Actions!database
  <2>3. ActionKeys'
      BY <1>1 DEF ActionInv, ActionKeys, Actions!Holders, Actions!DispatchRead, Actions!database
  <2> QED
      BY <2>1, <2>2, <2>3 DEF ActionInv
<1>2. ASSUME Actions!Crash(d) PROVE ActionInv'
  <2>1. Actions!TypeOK'
      BY <1>2 DEF ActionInv, Actions!TypeOK, Actions!Crash, Actions!database
  <2>2. Consent' /\ Receipts'
      BY <1>2 DEF ActionInv, Actions!TypeOK, Consent, Receipts, Actions!Crash, Actions!database
  <2>3. ActionKeys'
      BY <1>2 DEF ActionInv, ActionKeys, Actions!Holders, Actions!Crash, Actions!database
  <2> QED
      BY <2>1, <2>2, <2>3 DEF ActionInv
<1> QED
    BY <1>1, <1>2

LEMMA RestoreKeeps ==
    ASSUME ActionInv, Actions!Restore
    PROVE  ActionInv'
<1>1. Actions!TypeOK'
    BY DEF ActionInv, Actions!TypeOK, Actions!Restore, Actions!database
<1>2. Consent' /\ Receipts'
    BY DEF ActionInv, Consent, Receipts, Actions!Restore, Actions!database
<1>3. ActionKeys'
    BY DEF ActionInv, ActionKeys, Actions!Holders, Actions!Restore, Actions!database
<1> QED
    BY <1>1, <1>2, <1>3 DEF ActionInv

LEMMA ActionNext == ActionInv /\ [Actions!Next]_ActionsVars => ActionInv'
<1> SUFFICES ASSUME ActionInv, [Actions!Next]_ActionsVars PROVE ActionInv'
    OBVIOUS
<1>1. CASE UNCHANGED ActionsVars
    BY <1>1 DEF ActionsVars, ActionInv, Actions!TypeOK, Consent, Receipts, ActionKeys,
                Actions!Holders
<1>2. CASE Actions!Next
    BY <1>2, QueueKeeps, DecideKeeps, CallKeeps, RecordKeeps, DispatcherKeeps, RestoreKeeps
       DEF Actions!Next
<1> QED
    BY <1>1, <1>2

\* The part of a behaviour does not change.
ActionsInv == part = "action" => ActionInv

\* Whatever callers, approvers and dispatchers do to each other's actions, the rows stay in
\* the states ActionInv describes (queue_action, decide_approval, dispatch_action).
THEOREM ActionInvariance == SideBySide => []ActionsInv
<1>1. StartAll => ActionsInv
    BY ActionInit DEF StartAll, ActionsInv
<1>2. ActionsInv /\ [StepOne]_allVars => ActionsInv'
  <2> SUFFICES ASSUME ActionsInv, [StepOne]_allVars, part' = "action" PROVE ActionInv'
      BY DEF ActionsInv
  <2>1. part = "action" /\ [Actions!Next]_ActionsVars
      BY DEF StepOne, allVars
  <2> QED
      BY <2>1, ActionNext DEF ActionsInv
<1> QED
    BY <1>1, <1>2, PTL DEF SideBySide

\* The provider is called only for actions that somebody approved, a receipt stands for a
\* call, and a key has one action (dispatch_action, idx_outbox_idempotency).
THEOREM ActionsAreApprovedHolds == SideBySide => []ActionsAreApproved
<1>1. ActionsInv => ActionsAreApproved
  <2> SUFFICES ASSUME ActionInv
               PROVE  Actions!CalledOnlyIfApproved /\ Actions!PublishedWasCalled
                      /\ Actions!OneActionPerKey
      BY DEF ActionsInv, ActionsAreApproved
  <2>1. Actions!CalledOnlyIfApproved /\ Actions!PublishedWasCalled
      BY DEF ActionInv, Consent, Receipts, Actions!CalledOnlyIfApproved,
             Actions!PublishedWasCalled
  <2>2. ASSUME NEW k \in Key PROVE Actions!Cardinality(Actions!Holders(k)) <= 1
    <3>1. \A a, b \in Actions!Holders(k) : a = b
        BY DEF ActionInv, ActionKeys
    <3> QED
        BY <3>1, AtMostOne, SameCount
  <2> QED
      BY <2>1, <2>2 DEF Actions!OneActionPerKey
<1> QED
    BY <1>1, ActionInvariance, PTL
------------------------------------------------------------------------------
(* The outbox                                                              *)

\* The parts of Outbox!TypeOK that the arguments need.
OutboxTypes ==
    /\ outboxKey \in [Event -> Key \cup {NoKey}]
    /\ outboxStatus \in [Event -> {"absent", "pending", "published", "failed"}]
    /\ outboxAttempts \in [Event -> 0..MaxAttempts]
    /\ outboxLeft \in [Event -> 0..LeaseTime]
    /\ outboxToken \in [Event -> 0..outboxIssued]
    /\ adding \in [Caller -> {{}} \cup {{k} : k \in Key \cup {NoKey}}]
    /\ held \in [Dispatcher -> SUBSET (Event \X (1..outboxIssued))]
    /\ delivered \in [Event -> Nat]
    /\ outboxIssued \in Nat

\* The tokens of event e that some publisher still holds.
Out(e) == {t \in 1..outboxIssued : \E p \in Dispatcher : <<e, t>> \in held[p]}

\* A token is held by one publisher.
OneHolder ==
    \A p, q \in Dispatcher : p # q => held[p] \cap held[q] = {}

\* What was delivered and what may still be delivered was paid for with attempts.
Budget ==
    \A e \in Event : delivered[e] + Cardinality(Out(e)) <= outboxAttempts[e]

\* Two events under one key are the same event.
OutboxKeys ==
    \A k \in Key : \A e, f \in Outbox!Holders(k) : e = f

\* An event that is not there is leased to nobody.
AbsentIsFree ==
    \A e \in Event : outboxStatus[e] = "absent" => outboxToken[e] = 0

OutboxInv == OutboxTypes /\ OneHolder /\ Budget /\ AbsentIsFree /\ OutboxKeys

LEMMA Bounds ==
    /\ IsFiniteSet(Event)
    /\ MaxAttempts \in Nat \ {0} /\ LeaseTime \in Nat \ {0}
    /\ NoKey \notin Key
<1>1. ASSUME NEW S PROVE Outbox!IsFiniteSet(S) = IsFiniteSet(S)
    BY DEF Outbox!IsFiniteSet, IsFiniteSet
<1> QED
    BY <1>1, OutboxAssumption DEF Outbox!OutboxAssumption

LEMMA OutIsFinite ==
    ASSUME OutboxTypes, NEW e
    PROVE  IsFiniteSet(Out(e)) /\ Cardinality(Out(e)) \in Nat
<1>1. IsFiniteSet(1..outboxIssued)
    BY FS_Interval DEF OutboxTypes
<1>2. Out(e) \in SUBSET (1..outboxIssued)
    BY DEF Out
<1>3. IsFiniteSet(Out(e))
    BY <1>1, <1>2, FS_Subset
<1> QED
    BY <1>3, FS_CardinalityType

LEMMA OutboxInit == Outbox!Init => OutboxInv
<1> SUFFICES ASSUME Outbox!Init PROVE OutboxInv
    OBVIOUS
<1>1. OutboxTypes
  <2>1. 0 \in 0..MaxAttempts /\ 0 \in 0..LeaseTime
      BY Bounds
  <2> QED
      BY <2>1 DEF Outbox!Init, OutboxTypes
<1>2. OneHolder /\ AbsentIsFree /\ OutboxKeys
    BY DEF Outbox!Init, OneHolder, AbsentIsFree, OutboxKeys, Outbox!Holders
<1>3. \A e \in Event : Out(e) = {}
    BY DEF Outbox!Init, Out
<1>4. Budget
    BY <1>3, FS_EmptySet DEF Outbox!Init, Budget
<1> QED
    BY <1>1, <1>2, <1>4 DEF OutboxInv

\* Publisher p is given the events of S, each under a token of its own.
Given(p, S, tokens) ==
    /\ \A e \in S : outboxAttempts[e] < MaxAttempts
    /\ outboxAttempts' =
            [e \in Event |-> IF e \in S THEN outboxAttempts[e] + 1 ELSE outboxAttempts[e]]
    /\ held' = [held EXCEPT ![p] = @ \cup {<<e, tokens[e]>> : e \in S}]
    /\ outboxIssued' = outboxIssued + Cardinality(S)
    /\ UNCHANGED delivered

\* What claiming does to the rest of the rows.
Leases(S, tokens) ==
    /\ \A e \in S : outboxStatus[e] # "absent"
    /\ outboxStatus' = [e \in Event |-> IF e \in S THEN "pending" ELSE outboxStatus[e]]
    /\ outboxToken' = [e \in Event |-> IF e \in S THEN tokens[e] ELSE outboxToken[e]]
    /\ outboxLeft' = [e \in Event |-> IF e \in S THEN LeaseTime ELSE outboxLeft[e]]
    /\ UNCHANGED <<outboxKey, adding>>

LEMMA ClaimStep ==
    ASSUME NEW p \in Dispatcher, Outbox!ClaimBatch(p)
    PROVE  \E S \in SUBSET Event :
              \E tokens \in [S -> outboxIssued + 1 .. outboxIssued + Cardinality(S)] :
                  Given(p, S, tokens) /\ Leases(S, tokens)
<1>1. PICK S \in SUBSET Event :
        \E tokens \in [S -> outboxIssued + 1 .. outboxIssued + Outbox!Cardinality(S)] :
          /\ Outbox!Batch(S)
          /\ outboxStatus' = [e \in Event |-> IF e \in S THEN "pending" ELSE outboxStatus[e]]
          /\ outboxAttempts' =
              [e \in Event |-> IF e \in S THEN outboxAttempts[e] + 1 ELSE outboxAttempts[e]]
          /\ outboxToken' = [e \in Event |-> IF e \in S THEN tokens[e] ELSE outboxToken[e]]
          /\ outboxLeft' = [e \in Event |-> IF e \in S THEN LeaseTime ELSE outboxLeft[e]]
          /\ held' = [held EXCEPT ![p] = @ \cup {<<e, tokens[e]>> : e \in S}]
          /\ outboxIssued' = outboxIssued + Outbox!Cardinality(S)
    BY DEF Outbox!ClaimBatch
<1>2. PICK tokens \in [S -> outboxIssued + 1 .. outboxIssued + Outbox!Cardinality(S)] :
          /\ Outbox!Batch(S)
          /\ outboxStatus' = [e \in Event |-> IF e \in S THEN "pending" ELSE outboxStatus[e]]
          /\ outboxAttempts' =
              [e \in Event |-> IF e \in S THEN outboxAttempts[e] + 1 ELSE outboxAttempts[e]]
          /\ outboxToken' = [e \in Event |-> IF e \in S THEN tokens[e] ELSE outboxToken[e]]
          /\ outboxLeft' = [e \in Event |-> IF e \in S THEN LeaseTime ELSE outboxLeft[e]]
          /\ held' = [held EXCEPT ![p] = @ \cup {<<e, tokens[e]>> : e \in S}]
          /\ outboxIssued' = outboxIssued + Outbox!Cardinality(S)
    BY <1>1
<1>3. Outbox!Cardinality(S) = Cardinality(S)
    BY SameCount
<1>4. tokens \in [S -> outboxIssued + 1 .. outboxIssued + Cardinality(S)]
    BY <1>3
<1>5. \A e \in S : outboxAttempts[e] < MaxAttempts /\ outboxStatus[e] # "absent"
    BY <1>2 DEF Outbox!Batch, Outbox!Claimable
<1>6. Given(p, S, tokens)
    BY <1>2, <1>3, <1>5 DEF Given, Outbox!ClaimBatch
<1>7. Leases(S, tokens)
    BY <1>2, <1>5 DEF Leases, Outbox!ClaimBatch
<1> QED
    BY <1>4, <1>6, <1>7

\* Publisher p gives token t of event e back, having delivered the event or not.
GivesBack(p, e, t) ==
    /\ <<e, t>> \in held[p]
    /\ held' = [held EXCEPT ![p] = @ \ {<<e, t>>}]
    /\ delivered' \in {delivered, [delivered EXCEPT ![e] = @ + 1]}
    /\ UNCHANGED <<outboxAttempts, outboxIssued>>

\* What a step does to attempts, tokens and deliveries.
LEMMA TokenStep ==
    ASSUME OutboxTypes, [Outbox!Next]_OutboxVars
    PROVE  \/ UNCHANGED <<outboxAttempts, held, outboxIssued, delivered>>
           \/ \E p \in Dispatcher, S \in SUBSET Event :
                \E tokens \in [S -> outboxIssued + 1 .. outboxIssued + Cardinality(S)] :
                    Given(p, S, tokens)
           \/ \E p \in Dispatcher : \E h \in held[p] : GivesBack(p, h[1], h[2])
           \/ \E p \in Dispatcher :
                /\ held' = [held EXCEPT ![p] = {}]
                /\ UNCHANGED <<outboxAttempts, outboxIssued, delivered>>
<1>1. ASSUME NEW p \in Dispatcher, Outbox!ClaimBatch(p)
      PROVE  \E S \in SUBSET Event :
                \E tokens \in [S -> outboxIssued + 1 .. outboxIssued + Cardinality(S)] :
                    Given(p, S, tokens)
    BY <1>1, ClaimStep
<1>2. ASSUME NEW p \in Dispatcher, NEW h \in held[p],
             \/ Outbox!Publish(p, h[1], h[2])
             \/ \E retry \in BOOLEAN : Outbox!Fail(p, h[1], h[2], retry)
      PROVE  GivesBack(p, h[1], h[2])
    BY <1>2 DEF Outbox!Publish, Outbox!Fail, GivesBack
<1>3. ASSUME NEW p \in Dispatcher, Outbox!Crash(p)
      PROVE  /\ held' = [held EXCEPT ![p] = {}]
             /\ UNCHANGED <<outboxAttempts, outboxIssued, delivered>>
    BY <1>3 DEF Outbox!Crash, Outbox!columns
<1>4. ASSUME NEW c \in Caller,
             Outbox!AddInsert(c) \/ \E k \in Key \cup {NoKey} : Outbox!AddLookup(c, k)
      PROVE  UNCHANGED <<outboxAttempts, held, outboxIssued, delivered>>
    BY <1>4 DEF Outbox!AddInsert, Outbox!AddLookup, Outbox!columns
<1>5. ASSUME Outbox!Tick \/ Outbox!Toggle \/ \E p \in Dispatcher : Outbox!ClaimCheck(p)
      PROVE  UNCHANGED <<outboxAttempts, held, outboxIssued, delivered>>
    BY <1>5 DEF Outbox!Tick, Outbox!Toggle, Outbox!ClaimCheck, Outbox!columns
<1>6. CASE UNCHANGED OutboxVars
    BY <1>6 DEF OutboxVars
<1> QED
    BY <1>1, <1>2, <1>3, <1>4, <1>5, <1>6 DEF Outbox!Next, Outbox!PublisherStep

\* A batch is finite, and so is what it hands out.
LEMMA GivenIsTyped ==
    ASSUME OutboxTypes, NEW p \in Dispatcher, NEW S \in SUBSET Event,
           NEW tokens \in [S -> outboxIssued + 1 .. outboxIssued + Cardinality(S)],
           Given(p, S, tokens)
    PROVE  /\ outboxIssued' \in Nat /\ outboxIssued <= outboxIssued'
           /\ \A e \in S : tokens[e] \in outboxIssued + 1 .. outboxIssued'
           /\ outboxAttempts' \in [Event -> 0..MaxAttempts]
           /\ held' \in [Dispatcher -> SUBSET (Event \X (1..outboxIssued'))]
<1>1. Cardinality(S) \in Nat
    BY Bounds, FS_Subset, FS_CardinalityType
<1>2. outboxIssued' \in Nat /\ outboxIssued <= outboxIssued'
    BY <1>1 DEF OutboxTypes, Given
<1>3. \A e \in S : tokens[e] \in outboxIssued + 1 .. outboxIssued'
    BY DEF Given
<1>4. outboxAttempts' \in [Event -> 0..MaxAttempts]
  <2>1. ASSUME NEW e \in Event
        PROVE  (IF e \in S THEN outboxAttempts[e] + 1 ELSE outboxAttempts[e]) \in 0..MaxAttempts
      BY Bounds DEF OutboxTypes, Given
  <2> QED
      BY <2>1 DEF Given
<1>5. held' \in [Dispatcher -> SUBSET (Event \X (1..outboxIssued'))]
  <2>1. {<<e, tokens[e]>> : e \in S} \subseteq Event \X (1..outboxIssued')
      BY <1>2, <1>3 DEF OutboxTypes
  <2>2. \A q \in Dispatcher : held[q] \subseteq Event \X (1..outboxIssued')
      BY <1>2 DEF OutboxTypes
  <2>3. held[p] \cup {<<e, tokens[e]>> : e \in S} \in SUBSET (Event \X (1..outboxIssued'))
      BY <2>1, <2>2
  <2> QED
      BY <2>2, <2>3 DEF Given, OutboxTypes
<1> QED
    BY <1>2, <1>3, <1>4, <1>5

\* What is given out is paid for with an attempt, and nobody else holds it.
LEMMA GivenKeeps ==
    ASSUME OutboxTypes, OneHolder, Budget, NEW p \in Dispatcher, NEW S \in SUBSET Event,
           NEW tokens \in [S -> outboxIssued + 1 .. outboxIssued + Cardinality(S)],
           Given(p, S, tokens)
    PROVE  OneHolder' /\ Budget'
<1>1. /\ outboxIssued' \in Nat /\ outboxIssued <= outboxIssued'
      /\ \A e \in S : tokens[e] \in outboxIssued + 1 .. outboxIssued'
    BY GivenIsTyped
<1>2. \A q \in Dispatcher : \A h \in held[q] : h[2] \in 1..outboxIssued
    BY DEF OutboxTypes
<1>3. \A q \in Dispatcher : held[q] \cap {<<e, tokens[e]>> : e \in S} = {}
    BY <1>1, <1>2 DEF OutboxTypes
<1>4. OneHolder'
    BY <1>3 DEF OneHolder, Given, OutboxTypes
<1>5. ASSUME NEW e \in S
      PROVE  delivered'[e] + Cardinality(Out(e))' <= outboxAttempts'[e]
  <2>1. Out(e)' = Out(e) \cup {tokens[e]}
    <3>1. ASSUME NEW t \in Out(e)' PROVE t \in Out(e) \cup {tokens[e]}
      <4>1. PICK q \in Dispatcher : <<e, t>> \in held'[q]
          BY <3>1 DEF Out
      <4>2. <<e, t>> \in held[q] \/ t = tokens[e]
          BY <4>1 DEF Given, OutboxTypes
      <4> QED
          BY <4>2, <1>2 DEF Out
    <3>2. ASSUME NEW t \in Out(e) PROVE t \in Out(e)'
      <4>1. PICK q \in Dispatcher : <<e, t>> \in held[q]
          BY <3>2 DEF Out
      <4>2. <<e, t>> \in held'[q]
          BY <4>1 DEF Given, OutboxTypes
      <4>3. t \in 1..outboxIssued'
          BY <3>2, <1>1 DEF Out, OutboxTypes
      <4> QED
          BY <4>2, <4>3 DEF Out
    <3>3. tokens[e] \in Out(e)'
      <4>1. <<e, tokens[e]>> \in held'[p]
          BY DEF Given, OutboxTypes
      <4>2. tokens[e] \in 1..outboxIssued'
          BY <1>1 DEF OutboxTypes
      <4> QED
          BY <4>1, <4>2 DEF Out
    <3> QED
        BY <3>1, <3>2, <3>3
  <2>2. tokens[e] \notin Out(e)
      BY <1>1 DEF Out, OutboxTypes
  <2>3. Cardinality(Out(e)') = Cardinality(Out(e)) + 1
      BY <2>1, <2>2, OutIsFinite, FS_AddElement
  <2>4. outboxAttempts'[e] = outboxAttempts[e] + 1 /\ delivered'[e] = delivered[e]
      BY DEF Given
  <2>5. outboxAttempts[e] \in Nat /\ delivered[e] \in Nat
      BY Bounds DEF OutboxTypes
  <2>6. delivered[e] + Cardinality(Out(e)) <= outboxAttempts[e]
      BY DEF Budget
  <2> QED
      BY <2>3, <2>4, <2>5, <2>6, OutIsFinite
<1>6. ASSUME NEW e \in Event \ S
      PROVE  delivered'[e] + Cardinality(Out(e))' <= outboxAttempts'[e]
  <2>1. \A q \in Dispatcher, t \in 1..outboxIssued' : <<e, t>> \in held'[q] <=> <<e, t>> \in held[q]
      BY DEF Given, OutboxTypes
  <2>2. Out(e)' = Out(e)
      BY <2>1, <1>1, <1>2 DEF Out, OutboxTypes
  <2> QED
      BY <2>2 DEF Budget, Given
<1>7. Budget'
    BY <1>5, <1>6 DEF Budget
<1> QED
    BY <1>4, <1>7

\* A token given back leaves room for the delivery it may have been used for.
LEMMA GivesBackKeeps ==
    ASSUME OutboxTypes, OneHolder, Budget, NEW p \in Dispatcher, NEW h \in held[p],
           GivesBack(p, h[1], h[2])
    PROVE  OneHolder' /\ Budget'
<1> DEFINE e == h[1]
           t == h[2]
<1>1. e \in Event /\ t \in 1..outboxIssued /\ h = <<e, t>>
    BY DEF OutboxTypes
<1>2. OneHolder'
    BY DEF OneHolder, GivesBack, OutboxTypes
<1>3. ASSUME NEW f \in Event
      PROVE  delivered'[f] + Cardinality(Out(f))' <= outboxAttempts'[f]
  <2>1. delivered[f] + Cardinality(Out(f)) <= outboxAttempts[f]
      BY DEF Budget
  <2>2. delivered[f] \in Nat /\ outboxAttempts[f] \in Nat
      BY Bounds DEF OutboxTypes
  <2>3. CASE f = e
    <3>1. Out(f)' = Out(f) \ {t}
      <4>1. \A q \in Dispatcher \ {p} : <<e, t>> \notin held[q]
          BY <1>1 DEF OneHolder
      <4>2. \A q \in Dispatcher, u \in 1..outboxIssued :
                <<e, u>> \in held'[q] <=> (<<e, u>> \in held[q] /\ u # t)
          BY <1>1, <4>1 DEF GivesBack, OutboxTypes
      <4> QED
          BY <2>3, <4>2 DEF Out, GivesBack
    <3>2. t \in Out(f)
        BY <1>1, <2>3 DEF Out
    <3>3. Cardinality(Out(f)') = Cardinality(Out(f)) - 1
      <4>1. IsFiniteSet(Out(f))
          BY OutIsFinite
      <4>2. Cardinality(Out(f) \ {t}) = Cardinality(Out(f)) - 1
          BY <3>2, <4>1, FS_RemoveElement
      <4> QED
          BY <3>1, <4>2
    <3>4. delivered'[f] <= delivered[f] + 1 /\ delivered'[f] \in Nat
        BY <1>1, <2>3 DEF GivesBack, OutboxTypes
    <3>5. outboxAttempts'[f] = outboxAttempts[f]
        BY DEF GivesBack
    <3> QED
        BY <2>1, <2>2, <3>3, <3>4, <3>5, OutIsFinite
  <2>4. CASE f # e
    <3>1. \A q \in Dispatcher, u \in 1..outboxIssued :
                <<f, u>> \in held'[q] <=> <<f, u>> \in held[q]
        BY <1>1, <2>4 DEF GivesBack, OutboxTypes
    <3>2. Out(f)' = Out(f)
        BY <3>1 DEF Out, GivesBack
    <3>3. delivered'[f] = delivered[f]
        BY <2>4 DEF GivesBack, OutboxTypes
    <3> QED
        BY <2>1, <3>2, <3>3 DEF GivesBack
  <2> QED
      BY <2>3, <2>4
<1> QED
    BY <1>2, <1>3 DEF Budget

\* Who dies takes its tokens along.
LEMMA CrashKeeps ==
    ASSUME OutboxTypes, OneHolder, Budget, NEW p \in Dispatcher,
           held' = [held EXCEPT ![p] = {}],
           UNCHANGED <<outboxAttempts, outboxIssued, delivered>>
    PROVE  OneHolder' /\ Budget'
<1>1. OneHolder'
    BY DEF OneHolder, OutboxTypes
<1>2. ASSUME NEW e \in Event
      PROVE  delivered[e] + Cardinality(Out(e)') <= outboxAttempts[e]
  <2>1. Out(e)' \in SUBSET Out(e)
      BY DEF Out, OutboxTypes
  <2>2. Cardinality(Out(e)') <= Cardinality(Out(e)) /\ Cardinality(Out(e)') \in Nat
      BY <2>1, OutIsFinite, FS_Subset, FS_CardinalityType
  <2>3. delivered[e] \in Nat /\ outboxAttempts[e] \in Nat
      BY Bounds DEF OutboxTypes
  <2> QED
      BY <2>2, <2>3, OutIsFinite DEF Budget
<1> QED
    BY <1>1, <1>2 DEF Budget

LEMMA BudgetNext ==
    OutboxTypes /\ OneHolder /\ Budget /\ [Outbox!Next]_OutboxVars => OneHolder' /\ Budget'
<1> SUFFICES ASSUME OutboxTypes, OneHolder, Budget, [Outbox!Next]_OutboxVars
             PROVE  OneHolder' /\ Budget'
    OBVIOUS
<1>1. CASE UNCHANGED <<outboxAttempts, held, outboxIssued, delivered>>
    BY <1>1 DEF OneHolder, Budget, Out
<1> QED
    BY <1>1, TokenStep, GivenKeeps, GivesBackKeeps, CrashKeeps

\* What a step does to keys and statuses: an event is added under a free key, events are
\* claimed, or the publisher with the token of a running lease ends it.
LEMMA RowStep ==
    ASSUME OutboxTypes, AbsentIsFree, [Outbox!Next]_OutboxVars
    PROVE  \/ UNCHANGED <<outboxKey, outboxStatus>>
           \/ \E k \in Key \cup {NoKey}, e \in Event :
                /\ Outbox!Holders(k) = {} /\ outboxStatus[e] = "absent"
                /\ outboxKey' = [outboxKey EXCEPT ![e] = k]
                /\ outboxStatus' = [outboxStatus EXCEPT ![e] = "pending"]
           \/ \E S \in SUBSET Event :
                /\ \A e \in S : outboxStatus[e] # "absent"
                /\ outboxStatus' = [e \in Event |-> IF e \in S THEN "pending"
                                                               ELSE outboxStatus[e]]
                /\ UNCHANGED outboxKey
           \/ \E p \in Dispatcher : \E h \in held[p], end \in {"published", "failed"} :
                /\ outboxStatus[h[1]] # "absent"
                /\ outboxToken[h[1]] = h[2] /\ outboxLeft[h[1]] > 0
                /\ held' = [held EXCEPT ![p] = @ \ {<<h[1], h[2]>>}]
                /\ outboxStatus' = [outboxStatus EXCEPT ![h[1]] = end]
                /\ UNCHANGED outboxKey
<1>1. ASSUME NEW c \in Caller, Outbox!AddInsert(c)
      PROVE  \/ UNCHANGED <<outboxKey, outboxStatus>>
             \/ \E k \in Key \cup {NoKey}, e \in Event :
                  /\ Outbox!Holders(k) = {} /\ outboxStatus[e] = "absent"
                  /\ outboxKey' = [outboxKey EXCEPT ![e] = k]
                  /\ outboxStatus' = [outboxStatus EXCEPT ![e] = "pending"]
  <2>1. PICK k \in adding[c] :
            \/ \E e \in Event :
                 /\ Outbox!KeyFree(k)
                 /\ outboxStatus[e] = "absent"
                 /\ outboxKey' = [outboxKey EXCEPT ![e] = k]
                 /\ outboxStatus' = [outboxStatus EXCEPT ![e] = "pending"]
            \/ UNCHANGED <<outboxKey, outboxStatus>>
      BY <1>1 DEF Outbox!AddInsert
  <2>2. k \in Key \cup {NoKey}
      BY <2>1 DEF OutboxTypes
  <2> QED
      BY <2>1, <2>2 DEF Outbox!KeyFree
<1>2. ASSUME NEW p \in Dispatcher, Outbox!ClaimBatch(p)
      PROVE  \E S \in SUBSET Event :
                /\ \A e \in S : outboxStatus[e] # "absent"
                /\ outboxStatus' = [e \in Event |-> IF e \in S THEN "pending"
                                                               ELSE outboxStatus[e]]
                /\ UNCHANGED outboxKey
    BY <1>2, ClaimStep DEF Leases
<1>3. ASSUME NEW p \in Dispatcher, NEW h \in held[p],
             \/ Outbox!Publish(p, h[1], h[2])
             \/ \E retry \in BOOLEAN : Outbox!Fail(p, h[1], h[2], retry)
      PROVE  \/ UNCHANGED <<outboxKey, outboxStatus>>
             \/ \E end \in {"published", "failed"} :
                  /\ outboxStatus[h[1]] # "absent"
                  /\ outboxToken[h[1]] = h[2] /\ outboxLeft[h[1]] > 0
                  /\ held' = [held EXCEPT ![p] = @ \ {<<h[1], h[2]>>}]
                  /\ outboxStatus' = [outboxStatus EXCEPT ![h[1]] = end]
                  /\ UNCHANGED outboxKey
  <2>1. h[1] \in Event /\ h[2] \in 1..outboxIssued
      BY DEF OutboxTypes
  <2>2. Outbox!Leased(h[1], h[2]) => outboxStatus[h[1]] # "absent"
      BY <2>1 DEF Outbox!Leased, AbsentIsFree, OutboxTypes
  <2> QED
      BY <1>3, <2>2 DEF Outbox!Publish, Outbox!Fail, Outbox!Leased
<1>4. ASSUME Outbox!Tick \/ Outbox!Toggle
             \/ (\E p \in Dispatcher : Outbox!ClaimCheck(p) \/ Outbox!Crash(p))
             \/ (\E c \in Caller, k \in Key \cup {NoKey} : Outbox!AddLookup(c, k))
      PROVE  UNCHANGED <<outboxKey, outboxStatus>>
    BY <1>4 DEF Outbox!Tick, Outbox!Toggle, Outbox!ClaimCheck, Outbox!Crash, Outbox!AddLookup,
                Outbox!columns
<1>5. CASE UNCHANGED OutboxVars
    BY <1>5 DEF OutboxVars
<1> QED
    BY <1>1, <1>2, <1>3, <1>4, <1>5 DEF Outbox!Next, Outbox!PublisherStep

LEMMA OutboxKeysNext ==
    OutboxTypes /\ AbsentIsFree /\ OutboxKeys /\ [Outbox!Next]_OutboxVars => OutboxKeys'
<1> SUFFICES ASSUME OutboxTypes, AbsentIsFree, OutboxKeys, [Outbox!Next]_OutboxVars
             PROVE  OutboxKeys'
    OBVIOUS
<1>1. CASE UNCHANGED <<outboxKey, outboxStatus>>
    BY <1>1 DEF OutboxKeys, Outbox!Holders
<1>2. ASSUME NEW k \in Key \cup {NoKey}, NEW e \in Event, Outbox!Holders(k) = {},
             outboxKey' = [outboxKey EXCEPT ![e] = k],
             outboxStatus' = [outboxStatus EXCEPT ![e] = "pending"]
      PROVE  OutboxKeys'
    BY <1>2 DEF OutboxKeys, Outbox!Holders, OutboxTypes
<1>3. ASSUME NEW S \in SUBSET Event, \A e \in S : outboxStatus[e] # "absent",
             outboxStatus' = [e \in Event |-> IF e \in S THEN "pending" ELSE outboxStatus[e]],
             UNCHANGED outboxKey
      PROVE  OutboxKeys'
    BY <1>3 DEF OutboxKeys, Outbox!Holders, OutboxTypes
<1>4. ASSUME NEW p \in Dispatcher, NEW h \in held[p], NEW end \in {"published", "failed"},
             outboxStatus[h[1]] # "absent",
             outboxStatus' = [outboxStatus EXCEPT ![h[1]] = end],
             UNCHANGED outboxKey
      PROVE  OutboxKeys'
    BY <1>4 DEF OutboxKeys, Outbox!Holders, OutboxTypes
<1> QED
    BY <1>1, <1>2, <1>3, <1>4, RowStep

LEMMA OutboxTypesNext ==
    OutboxTypes /\ AbsentIsFree /\ [Outbox!Next]_OutboxVars => OutboxTypes' /\ AbsentIsFree'
<1> SUFFICES ASSUME OutboxTypes, AbsentIsFree, [Outbox!Next]_OutboxVars
             PROVE  OutboxTypes' /\ AbsentIsFree'
    OBVIOUS
<1>1. CASE UNCHANGED OutboxVars
    BY <1>1 DEF OutboxVars, OutboxTypes, AbsentIsFree
<1>2. ASSUME NEW c \in Caller, NEW k \in Key \cup {NoKey}, Outbox!AddLookup(c, k)
      PROVE  OutboxTypes' /\ AbsentIsFree'
    BY <1>2 DEF Outbox!AddLookup, Outbox!columns, Outbox!lease, OutboxTypes, AbsentIsFree
<1>3. ASSUME NEW c \in Caller, Outbox!AddInsert(c)
      PROVE  OutboxTypes' /\ AbsentIsFree'
  <2>1. outboxKey' \in [Event -> Key \cup {NoKey}]
        /\ outboxStatus' \in [Event -> {"absent", "pending", "published", "failed"}]
        /\ \A e \in Event : outboxStatus'[e] = "absent" => outboxStatus[e] = "absent"
      BY <1>3 DEF Outbox!AddInsert, OutboxTypes
  <2> QED
      BY <1>3, <2>1 DEF Outbox!AddInsert, Outbox!lease, OutboxTypes, AbsentIsFree
<1>4. ASSUME NEW p \in Dispatcher, Outbox!ClaimBatch(p)
      PROVE  OutboxTypes' /\ AbsentIsFree'
  <2>1. PICK S \in SUBSET Event :
          \E tokens \in [S -> outboxIssued + 1 .. outboxIssued + Cardinality(S)] :
              Given(p, S, tokens) /\ Leases(S, tokens)
      BY <1>4, ClaimStep
  <2>2. PICK tokens \in [S -> outboxIssued + 1 .. outboxIssued + Cardinality(S)] :
            Given(p, S, tokens) /\ Leases(S, tokens)
      BY <2>1
  <2>3. /\ outboxIssued' \in Nat /\ outboxIssued <= outboxIssued'
        /\ \A e \in S : tokens[e] \in outboxIssued + 1 .. outboxIssued'
        /\ outboxAttempts' \in [Event -> 0..MaxAttempts]
        /\ held' \in [Dispatcher -> SUBSET (Event \X (1..outboxIssued'))]
      BY <2>2, GivenIsTyped
  <2>4. outboxToken' \in [Event -> 0..outboxIssued']
    <3>1. ASSUME NEW e \in Event
          PROVE  (IF e \in S THEN tokens[e] ELSE outboxToken[e]) \in 0..outboxIssued'
        BY <2>3 DEF OutboxTypes
    <3> QED
        BY <2>2, <3>1 DEF Leases
  <2>5. outboxLeft' \in [Event -> 0..LeaseTime]
        /\ outboxStatus' \in [Event -> {"absent", "pending", "published", "failed"}]
      BY <2>2, Bounds DEF Leases, OutboxTypes
  <2>6. UNCHANGED <<outboxKey, adding, delivered>>
      BY <2>2 DEF Leases, Given
  <2>7. OutboxTypes'
      BY <2>3, <2>4, <2>5, <2>6 DEF OutboxTypes
  <2>8. AbsentIsFree'
      BY <2>2 DEF Leases, AbsentIsFree, OutboxTypes
  <2> QED
      BY <2>7, <2>8
<1>5. ASSUME NEW p \in Dispatcher, NEW h \in held[p],
             \/ Outbox!Publish(p, h[1], h[2])
             \/ \E retry \in BOOLEAN : Outbox!Fail(p, h[1], h[2], retry)
      PROVE  OutboxTypes' /\ AbsentIsFree'
  <2>1. h[1] \in Event /\ h[2] \in 1..outboxIssued
      BY DEF OutboxTypes
  <2>2. /\ outboxStatus' \in [Event -> {"absent", "pending", "published", "failed"}]
        /\ outboxToken' \in [Event -> 0..outboxIssued]
        /\ outboxLeft' \in [Event -> 0..LeaseTime]
        /\ AbsentIsFree'
      BY <1>5, <2>1, Bounds DEF Outbox!Publish, Outbox!Fail, OutboxTypes, AbsentIsFree
  <2>3. /\ UNCHANGED <<outboxKey, outboxAttempts, adding, outboxIssued>>
        /\ held' \in [Dispatcher -> SUBSET (Event \X (1..outboxIssued))]
        /\ delivered' \in [Event -> Nat]
      BY <1>5, <2>1 DEF Outbox!Publish, Outbox!Fail, OutboxTypes
  <2> QED
      BY <2>2, <2>3 DEF OutboxTypes
<1>6. ASSUME NEW p \in Dispatcher, Outbox!ClaimCheck(p) \/ Outbox!Crash(p)
      PROVE  OutboxTypes' /\ AbsentIsFree'
    BY <1>6 DEF Outbox!ClaimCheck, Outbox!Crash, Outbox!columns, Outbox!lease, OutboxTypes,
                AbsentIsFree
<1>7. CASE Outbox!Tick
  <2>1. outboxLeft' \in [Event -> 0..LeaseTime]
    <3>1. ASSUME NEW e \in Event
          PROVE  (IF outboxLeft[e] = 0 THEN 0 ELSE outboxLeft[e] - 1) \in 0..LeaseTime
        BY Bounds DEF OutboxTypes
    <3> QED
        BY <1>7, <3>1 DEF Outbox!Tick
  <2> QED
      BY <1>7, <2>1 DEF Outbox!Tick, OutboxTypes, AbsentIsFree
<1>8. CASE Outbox!Toggle
    BY <1>8 DEF Outbox!Toggle, Outbox!columns, Outbox!lease, OutboxTypes, AbsentIsFree
<1> QED
    BY <1>1, <1>2, <1>3, <1>4, <1>5, <1>6, <1>7, <1>8 DEF Outbox!Next, Outbox!PublisherStep

LEMMA OutboxNext == OutboxInv /\ [Outbox!Next]_OutboxVars => OutboxInv'
BY OutboxTypesNext, BudgetNext, OutboxKeysNext DEF OutboxInv

\* The part of a behaviour does not change.
OutboxPartInv == part = "outbox" => OutboxInv

\* Whatever clients and publishers do, and whatever leases run out, the rows and the tokens
\* stay in the states OutboxInv describes (add_outbox_event, claim_outbox_events).
THEOREM OutboxInvariance == SideBySide => []OutboxPartInv
<1>1. StartAll => OutboxPartInv
    BY OutboxInit DEF StartAll, OutboxPartInv
<1>2. OutboxPartInv /\ [StepOne]_allVars => OutboxPartInv'
  <2> SUFFICES ASSUME OutboxPartInv, [StepOne]_allVars, part' = "outbox" PROVE OutboxInv'
      BY DEF OutboxPartInv
  <2>1. part = "outbox" /\ [Outbox!Next]_OutboxVars
      BY DEF StepOne, allVars
  <2> QED
      BY <2>1, OutboxNext DEF OutboxPartInv
<1> QED
    BY <1>1, <1>2, PTL DEF SideBySide

\* An event is delivered at most max_attempts times, whatever leases run out and however
\* late a publisher delivers, and an idempotency key has one event (claim_outbox_events).
THEOREM DeliveriesWithinBudgetHolds == SideBySide => []DeliveriesWithinBudget
<1>1. OutboxPartInv => DeliveriesWithinBudget
  <2> SUFFICES ASSUME OutboxInv
               PROVE  Outbox!DeliveriesWithinBudget /\ Outbox!OneEventPerKey
      BY DEF OutboxPartInv, DeliveriesWithinBudget
  <2>1. ASSUME NEW e \in Event PROVE delivered[e] <= MaxAttempts
    <3>1. delivered[e] + Cardinality(Out(e)) <= outboxAttempts[e]
        BY DEF OutboxInv, Budget
    <3>2. Cardinality(Out(e)) \in Nat
        BY OutIsFinite DEF OutboxInv
    <3>3. delivered[e] \in Nat /\ outboxAttempts[e] \in 0..MaxAttempts /\ MaxAttempts \in Nat
        BY Bounds DEF OutboxInv, OutboxTypes
    <3> QED
        BY <3>1, <3>2, <3>3
  <2>2. ASSUME NEW k \in Key PROVE Outbox!Cardinality(Outbox!Holders(k)) <= 1
    <3>1. \A e, f \in Outbox!Holders(k) : e = f
        BY DEF OutboxInv, OutboxKeys
    <3> QED
        BY <3>1, AtMostOne, SameCount
  <2> QED
      BY <2>1, <2>2 DEF Outbox!DeliveriesWithinBudget, Outbox!OneEventPerKey
<1> QED
    BY <1>1, OutboxInvariance, PTL

\* Whoever ends an event hands in the token the row carries, while the lease runs: late
\* publishers are refused (_outbox_leased).
THEOREM HolderDecidesHolds == SideBySide => HolderDecides
<1>1. OutboxPartInv /\ [StepOne]_allVars =>
        [part = "outbox" => \A e \in Event : Outbox!EndedByHolder(e)]_allVars
  <2> SUFFICES ASSUME OutboxPartInv, [StepOne]_allVars, part = "outbox", NEW e \in Event
               PROVE  Outbox!EndedByHolder(e)
      OBVIOUS
  <2>1. OutboxTypes /\ AbsentIsFree /\ [Outbox!Next]_OutboxVars
      BY DEF StepOne, allVars, OutboxPartInv, OutboxInv
  <2>2. SUFFICES ASSUME outboxStatus'[e] # outboxStatus[e],
                        outboxStatus'[e] \in {"published", "failed"}
                 PROVE  /\ outboxLeft[e] > 0
                        /\ \E p \in Dispatcher : <<e, outboxToken[e]>> \in held[p] \ held'[p]
      BY DEF Outbox!EndedByHolder
  <2> DEFINE Ends(p, h, end) ==
            /\ outboxToken[h[1]] = h[2] /\ outboxLeft[h[1]] > 0
            /\ held' = [held EXCEPT ![p] = @ \ {<<h[1], h[2]>>}]
            /\ outboxStatus' = [outboxStatus EXCEPT ![h[1]] = end]
  <2>3. \E p \in Dispatcher : \E h \in held[p], end \in {"published", "failed"} : Ends(p, h, end)
      BY <2>1, <2>2, RowStep DEF OutboxTypes
  <2>4. PICK p \in Dispatcher : \E h \in held[p], end \in {"published", "failed"} : Ends(p, h, end)
      BY <2>3
  <2>5. PICK h \in held[p], end \in {"published", "failed"} : Ends(p, h, end)
      BY <2>4
  <2>6. e = h[1] /\ h = <<h[1], h[2]>>
      BY <2>1, <2>2, <2>5 DEF OutboxTypes
  <2>7. <<e, outboxToken[e]>> \in held[p] \ held'[p]
      BY <2>1, <2>5, <2>6 DEF OutboxTypes
  <2> QED
      BY <2>5, <2>6, <2>7
<1> QED
    BY <1>1, OutboxInvariance, PTL DEF SideBySide, HolderDecides
------------------------------------------------------------------------------
(* Outbound sends                                                          *)
\* The steps between the claim and the record of the outcome.
AtWork == {"call", "returned", "raised"}

\* What intents, events and attempt rows say of each other, in the database and in a backup.
Consistent(db) ==
    \A i \in Intent :
        /\ 1..db.attempts[i] \subseteq db.claimed[i]
        /\ db.claimed[i] \subseteq 1..(db.attempts[i] + 1)
        /\ db.event[i] = "pending" => db.attempts[i] < MaxTries
        /\ db.event[i] = "failed" => db.attempts[i] = MaxTries
        /\ db.event[i] = "absent" => db.attempts[i] = 0
        /\ db.event[i] = "absent" <=> db.status[i] = "absent"
        /\ db.event[i] = "published" <=> db.status[i] = "sent"
        /\ db.status[i] = "failed" => db.event[i] = "failed"

\* A dispatcher works on an intent that exists and has seen no more attempts than it has.
Seen ==
    \A d \in Dispatcher : pc[d] # "idle" =>
        /\ work[d] \in Intent
        /\ seen[d] <= attempts[work[d]]
        /\ event[work[d]] # "absent"

\* A dispatcher at work holds the next attempt and the event, and nobody else does.
Holding ==
    \A d \in Dispatcher : pc[d] \in AtWork =>
        /\ seen[d] = attempts[work[d]]
        /\ seen[d] + 1 \in claimed[work[d]]
        /\ mine[d] >= 1 /\ token[work[d]] = mine[d]
        /\ event[work[d]] = "pending"
        /\ \A e \in Dispatcher : e # d /\ pc[e] \in AtWork => work[e] # work[d]

\* What the provider has accepted is published, or its attempt is still open and the
\* dispatcher that holds it, if there still is one, knows.
Accounted ==
    /\ \A i \in Intent :
          /\ accepted[i] <= 1
          /\ accepted[i] >= 1 =>
                event[i] = "published" \/ (event[i] = "pending" /\ attempts[i] + 1 \in claimed[i])
    /\ \A d \in Dispatcher : pc[d] \in {"call", "raised"} => accepted[work[d]] = 0

\* A dispatcher that passed the fences finds them open until it calls.
PassedFences == \A d \in Dispatcher : pc[d] \in {"claim", "call"} => ~Fenced

SendInv == TypeOK /\ Consistent(Copy) /\ Consistent(saved) /\ Seen /\ Holding /\ Accounted
           /\ PassedFences
------------------------------------------------------------------------------
(* Steps that touch neither intents nor dispatchers.                       *)

\* What a step leaves alone that neither dispatches nor inserts.
Rows == <<status, attempts, event, token, claimed, dispatchers, accepted>>

\* Approvals, the installation, the flags being lowered, time and a backup do not disturb
\* what intents, dispatchers and the provider know of each other.
LEMMA QuietKeeps ==
  ASSUME SendInv, UNCHANGED Rows, TypeOK', Fenced' => Fenced, saved' = saved \/ saved' = Copy
  PROVE  SendInv'
<1>1. Consistent(Copy)'
  BY DEF SendInv, Consistent, Copy, Rows
<1>2. Consistent(saved)'
  BY DEF SendInv, Consistent, Copy
<1>3. Seen' /\ Holding' /\ Accounted' /\ PassedFences'
  BY DEF SendInv, Seen, Holding, Accounted, PassedFences, Rows, dispatchers, AtWork
<1> QED
  BY <1>1, <1>2, <1>3 DEF SendInv

LEMMA DecideReadKeeps ==
  ASSUME SendInv, NEW r \in Approver, NEW a \in Approval, DecideRead(r, a)
  PROVE  SendInv'
<1>1. TypeOK'
  BY DEF SendInv, TypeOK, DecideRead, database, fences, intents, events, dispatchers, disaster
<1> QED
  BY <1>1, QuietKeeps
     DEF DecideRead, Rows, Fenced, database, fences, intents, events, disaster

LEMMA DecideWriteKeeps ==
  ASSUME SendInv, NEW r \in Approver, NEW decision \in {"approved", "rejected"},
         DecideWrite(r, decision)
  PROVE  SendInv'
<1>1. deciding[r] \in Approval
  BY DEF SendInv, TypeOK, DecideWrite
<1>2. TypeOK'
  BY <1>1 DEF SendInv, TypeOK, DecideWrite, intents, events, dispatchers, disaster
<1> QED
  BY <1>2, QuietKeeps DEF DecideWrite, Rows, Fenced, intents, events, disaster

LEMMA FlagsKeepType ==
  ASSUME SendInv, Revoke \/ Reenable \/ LeaveRecovery
  PROVE  TypeOK'
<1>1. CASE Revoke
  BY <1>1 DEF SendInv, TypeOK, Revoke, intents, events, dispatchers, disaster
<1>2. CASE Reenable
  BY <1>2 DEF SendInv, TypeOK, Reenable, intents, events, dispatchers, disaster
<1>3. CASE LeaveRecovery
  BY <1>3 DEF SendInv, TypeOK, LeaveRecovery, intents, events, dispatchers, disaster
<1> QED
  BY <1>1, <1>2, <1>3

LEMMA FlagsKeep ==
  ASSUME SendInv, Revoke \/ Reenable \/ LeaveRecovery
  PROVE  SendInv'
<1>1. TypeOK'
  BY FlagsKeepType
<1>2. UNCHANGED Rows /\ saved' = saved
  BY DEF Revoke, Reenable, LeaveRecovery, Rows, intents, events, disaster
<1>3. Fenced' => Fenced
  BY DEF Revoke, Reenable, LeaveRecovery, Fenced
<1> QED
  BY <1>1, <1>2, <1>3, QuietKeeps

LEMMA CreateCheckKeeps ==
  ASSUME SendInv, NEW c \in Caller, NEW k \in Key, NEW a \in Approval, CreateCheck(c, k, a)
  PROVE  SendInv'
<1>1. TypeOK'
  BY DEF SendInv, TypeOK, CreateCheck, database, fences, intents, events, dispatchers, disaster
<1> QED
  BY <1>1, QuietKeeps
     DEF CreateCheck, Rows, Fenced, database, fences, intents, events, disaster

LEMMA TickKeeps ==
  ASSUME SendInv, Tick
  PROVE  SendInv'
<1>1. left' \in [Intent -> 0..LeaseTime]
  <2>1. LeaseTime \in Nat /\ left \in [Intent -> 0..LeaseTime]
    BY OutboundAssumption DEF SendInv, TypeOK
  <2>2. ASSUME NEW i \in Intent
        PROVE  (IF left[i] = 0 THEN 0 ELSE left[i] - 1) \in 0..LeaseTime
    BY <2>1
  <2> QED
    BY <2>2 DEF Tick
<1>2. TypeOK'
  BY <1>1 DEF SendInv, TypeOK, Tick, fences, intents, dispatchers, disaster
<1> QED
  BY <1>2, QuietKeeps DEF Tick, Rows, Fenced, fences, intents, disaster

LEMMA BackupKeeps ==
  ASSUME SendInv, Backup
  PROVE  SendInv'
<1>1. TypeOK'
  BY DEF SendInv, TypeOK, Backup, Copy, database, fences, intents, events, dispatchers
<1> QED
  BY <1>1, QuietKeeps DEF Backup, Rows, Fenced, database, fences, intents, events
------------------------------------------------------------------------------
(* Steps of callers and dispatchers.                                       *)

\* An intent that is inserted is new: nobody works on it and nothing of it was sent.
LEMMA CreateInsertKeeps ==
  ASSUME SendInv, NEW c \in Caller, CreateInsert(c)
  PROVE  SendInv'
<1>1. CASE UNCHANGED <<key, names, status, event>>
  <2>1. TypeOK'
    BY <1>1 DEF SendInv, TypeOK, CreateInsert, fences, dispatchers, disaster
  <2> QED
    BY <1>1, <2>1, QuietKeeps DEF CreateInsert, Rows, Fenced, fences, disaster
<1>2. ASSUME NEW i \in Intent, status[i] = "absent",
             key' = [key EXCEPT ![i] = creating[c].key],
             names' = [names EXCEPT ![i] = creating[c].approval],
             status' = [status EXCEPT ![i] = "pending"],
             event' = [event EXCEPT ![i] = "pending"]
      PROVE  SendInv'
  <2>1. TypeOK'
    BY <1>2 DEF SendInv, TypeOK, CreateInsert, fences, dispatchers, disaster
  <2>2. event[i] = "absent" /\ attempts[i] = 0 /\ accepted[i] = 0
    <3>1. event[i] = "absent" /\ attempts[i] = 0
      BY <1>2 DEF SendInv, Consistent, Copy
    <3>2. accepted[i] \in Nat
      BY DEF SendInv, TypeOK
    <3> QED
      BY <3>1, <3>2 DEF SendInv, Accounted
  <2>3. \A j \in Intent : j # i => event'[j] = event[j] /\ status'[j] = status[j]
    BY <1>2 DEF SendInv, TypeOK
  <2>4. event'[i] = "pending" /\ status'[i] = "pending"
    BY <1>2 DEF SendInv, TypeOK
  <2>5. UNCHANGED <<attempts, claimed, token, pc, work, seen, mine, accepted, recovery, dispatchOff,
                    saved>>
    BY DEF CreateInsert, fences, dispatchers, disaster
  <2>6. Consistent(Copy)'
    BY <2>2, <2>3, <2>4, <2>5 DEF SendInv, Consistent, Copy, MaxTries
  <2>7. Seen' /\ Holding' /\ PassedFences'
    BY <2>2, <2>3, <2>5 DEF SendInv, Seen, Holding, PassedFences, Fenced, AtWork
  <2>8. Accounted'
    BY <2>2, <2>3, <2>5 DEF SendInv, Accounted
  <2> QED
    BY <2>1, <2>5, <2>6, <2>7, <2>8 DEF SendInv, Consistent
<1> QED
  BY <1>1, <1>2 DEF CreateInsert

\* A dispatcher that gives up takes nothing from the others.
LEMMA IdleKeeps ==
  ASSUME SendInv, NEW d \in Dispatcher, Idle(d),
         UNCHANGED <<attempts, event, token, claimed, accepted, recovery, dispatchOff>>
  PROVE  Seen' /\ Holding' /\ Accounted' /\ PassedFences'
<1>1. \A e \in Dispatcher :
          /\ e # d => pc'[e] = pc[e] /\ work'[e] = work[e] /\ seen'[e] = seen[e] /\ mine'[e] = mine[e]
          /\ pc'[d] = "idle"
  BY DEF SendInv, TypeOK, Idle
<1>2. Seen' /\ PassedFences'
  BY <1>1 DEF SendInv, Seen, PassedFences, Fenced
<1>3. Holding'
  BY <1>1 DEF SendInv, Holding, AtWork
<1>4. Accounted'
  BY <1>1 DEF SendInv, Accounted
<1> QED
  BY <1>2, <1>3, <1>4

\* What an idle dispatcher remembers is well typed.
LEMMA IdleType ==
  ASSUME TypeOK, NEW d \in Dispatcher, Idle(d), issued' = issued
  PROVE  /\ pc' \in [Dispatcher -> {"idle", "block", "claim", "call", "returned", "raised"}]
         /\ work' \in [Dispatcher -> Intent \cup {NoIntent}]
         /\ seen' \in [Dispatcher -> 0..MaxTries]
         /\ mine' \in [Dispatcher -> 0..issued']
<1>1. issued \in Nat /\ 0 \in 0..MaxTries
  BY DEF TypeOK, MaxTries
<1> QED
  BY <1>1 DEF TypeOK, Idle

LEMMA SendCrashKeeps ==
  ASSUME SendInv, NEW d \in Dispatcher, Crash(d)
  PROVE  SendInv'
<1>1. issued' = issued
  BY DEF Crash
<1>2. TypeOK'
  BY <1>1, IdleType DEF SendInv, TypeOK, Crash, database, fences, intents, events
<1>3. Seen' /\ Holding' /\ Accounted' /\ PassedFences'
  BY IdleKeeps DEF Crash, database, fences, intents, events
<1>4. Consistent(Copy)' /\ Consistent(saved)'
  BY DEF SendInv, Crash, Consistent, Copy, database, fences, intents, events
<1> QED
  BY <1>2, <1>3, <1>4 DEF SendInv

LEMMA BlockKeeps ==
  ASSUME SendInv, NEW d \in Dispatcher, Block(d)
  PROVE  SendInv'
<1>1. work[d] \in Intent /\ event[work[d]] # "absent"
  BY DEF SendInv, Seen, Block
<1>2. issued' = issued
  BY DEF Block
<1>3. status' \in [Intent -> {"absent", "pending", "sent", "failed", "blocked"}]
  BY <1>1 DEF SendInv, TypeOK, Block
<1>4. TypeOK'
  BY <1>2, <1>3, IdleType DEF SendInv, TypeOK, Block, fences, events, disaster
<1>5. Seen' /\ Holding' /\ Accounted' /\ PassedFences'
  BY IdleKeeps DEF Block, fences, events
<1>6. \A i \in Intent : \/ status'[i] = status[i]
                        \/ status'[i] = "blocked" /\ status[i] # "sent" /\ event[i] # "absent"
  BY <1>1 DEF SendInv, TypeOK, Block
<1>7. Consistent(Copy)'
  BY <1>6 DEF SendInv, Block, Consistent, Copy, events
<1>8. Consistent(saved)'
  BY DEF SendInv, Block, Consistent, disaster
<1> QED
  BY <1>4, <1>5, <1>7, <1>8 DEF SendInv

LEMMA DispatchCheckKeeps ==
  ASSUME SendInv, NEW d \in Dispatcher, NEW i \in Intent, DispatchCheck(d, i)
  PROVE  SendInv'
<1>1. TypeOK'
  BY DEF SendInv, TypeOK, DispatchCheck, database, fences, intents, events, disaster
<1>2. UNCHANGED <<recovery, dispatchOff, status, attempts, event, token, claimed, mine, accepted,
                  saved>>
  BY DEF DispatchCheck, database, fences, intents, events, disaster
<1>3. /\ pc'[d] \in {"claim", "block"} /\ (pc'[d] = "claim" => ~Fenced)
      /\ work'[d] = i /\ seen'[d] = attempts[i]
  BY DEF SendInv, TypeOK, DispatchCheck, SendAllowed
<1>4. \A e \in Dispatcher : e # d => pc'[e] = pc[e] /\ work'[e] = work[e] /\ seen'[e] = seen[e]
  BY DEF SendInv, TypeOK, DispatchCheck
<1>5. event[i] # "absent" /\ attempts[i] \in Nat
  BY DEF SendInv, TypeOK, Consistent, Copy, DispatchCheck
<1>6. Seen'
  BY <1>2, <1>3, <1>4, <1>5 DEF SendInv, Seen
<1>7. Holding'
  BY <1>2, <1>3, <1>4 DEF SendInv, Holding, AtWork
<1>8. Accounted' /\ PassedFences'
  BY <1>2, <1>3, <1>4 DEF SendInv, Accounted, PassedFences, Fenced
<1>9. Consistent(Copy)' /\ Consistent(saved)'
  BY <1>2 DEF SendInv, Consistent, Copy
<1> QED
  BY <1>1, <1>6, <1>7, <1>8, <1>9 DEF SendInv

\* A call adds an acceptance to an intent of which nothing was accepted before.
LEMMA SendCallKeeps ==
  ASSUME SendInv, NEW d \in Dispatcher, Call(d)
  PROVE  SendInv'
<1>1. /\ work[d] \in Intent /\ accepted[work[d]] = 0
      /\ event[work[d]] = "pending" /\ attempts[work[d]] + 1 \in claimed[work[d]]
  BY DEF SendInv, Seen, Holding, Accounted, Call, AtWork
<1>2. UNCHANGED <<recovery, dispatchOff, status, attempts, event, token, claimed, work, seen, mine,
                  saved>>
  BY DEF Call, database, fences, intents, events, disaster
<1>3. \A e \in Dispatcher : e # d => pc'[e] = pc[e]
  BY DEF SendInv, TypeOK, Call
<1>4. pc[d] = "call" /\ pc'[d] \in {"returned", "raised"}
  BY DEF SendInv, TypeOK, Call
<1>5. \A i \in Intent : i # work[d] => accepted'[i] = accepted[i]
  BY DEF SendInv, TypeOK, Call
<1>6. \/ pc'[d] = "returned" /\ accepted'[work[d]] = 1
      \/ pc'[d] = "raised" /\ accepted'[work[d]] = 0
  BY <1>1 DEF SendInv, TypeOK, Call
<1>7. TypeOK'
  <2>1. accepted' \in [Intent -> Nat]
    BY DEF SendInv, TypeOK, Call
  <2>2. pc' \in [Dispatcher -> {"idle", "block", "claim", "call", "returned", "raised"}]
    BY DEF SendInv, TypeOK, Call
  <2> QED
    BY <2>1, <2>2 DEF SendInv, TypeOK, Call, database, fences, intents, events, disaster
<1>8. Seen' /\ PassedFences'
  BY <1>2, <1>3, <1>4 DEF SendInv, Seen, PassedFences, Fenced
<1>9. Holding'
  BY <1>2, <1>3, <1>4 DEF SendInv, Holding, AtWork
<1>10. Accounted'
  <2>1. ASSUME NEW e \in Dispatcher, pc'[e] \in {"call", "raised"}
        PROVE  accepted'[work'[e]] = 0
    <3>1. CASE e = d
      BY <1>2, <1>6, <2>1, <3>1
    <3>2. CASE e # d
      BY <1>2, <1>3, <1>4, <1>5, <2>1, <3>2 DEF SendInv, Seen, Holding, Accounted, AtWork
    <3> QED
      BY <3>1, <3>2
  <2>2. ASSUME NEW i \in Intent
        PROVE  /\ accepted'[i] <= 1
               /\ accepted'[i] >= 1 => \/ event'[i] = "published"
                                       \/ event'[i] = "pending" /\ attempts'[i] + 1 \in claimed'[i]
    BY <1>1, <1>2, <1>5, <1>6 DEF SendInv, Accounted
  <2> QED
    BY <2>1, <2>2 DEF Accounted
<1>11. Consistent(Copy)' /\ Consistent(saved)'
  BY <1>2 DEF SendInv, Consistent, Copy
<1> QED
  BY <1>7, <1>8, <1>9, <1>10, <1>11 DEF SendInv

\* The attempt that is claimed is the next one, so nobody is at work on the intent and
\* nothing of it was accepted.
LEMMA ClaimKeeps ==
  ASSUME SendInv, NEW d \in Dispatcher, Claim(d)
  PROVE  SendInv'
<1> DEFINE i == work[d]
           n == seen[d] + 1
<1>1. /\ i \in Intent /\ seen[d] \in Nat /\ attempts[i] \in Nat /\ seen[d] <= attempts[i]
      /\ issued \in Nat /\ accepted[i] \in Nat /\ pc[d] = "claim"
  BY DEF SendInv, TypeOK, Seen, Claim
<1>2. UNCHANGED <<recovery, dispatchOff, status, attempts, event, accepted, saved>>
  BY DEF Claim, fences, intents, disaster
<1>3. CASE ~Claimable(i, n)
  <2>1. Idle(d) /\ UNCHANGED <<issued, token, left, claimed>>
    BY <1>3 DEF Claim
  <2>2. TypeOK'
    BY <2>1, IdleType DEF SendInv, TypeOK, Claim, fences, intents, disaster
  <2>3. Seen' /\ Holding' /\ Accounted' /\ PassedFences'
    BY <1>2, <2>1, IdleKeeps
  <2>4. Consistent(Copy)' /\ Consistent(saved)'
    BY <1>2, <2>1 DEF SendInv, Consistent, Copy
  <2> QED
    BY <2>2, <2>3, <2>4 DEF SendInv
<1>4. CASE Claimable(i, n)
  <2>1. /\ issued' = issued + 1
        /\ token' = [token EXCEPT ![i] = issued']
        /\ left' = [left EXCEPT ![i] = LeaseTime]
        /\ claimed' = [claimed EXCEPT ![i] = claimed[i] \cup {n}]
        /\ mine' = [mine EXCEPT ![d] = issued']
        /\ pc' = [pc EXCEPT ![d] = "call"]
        /\ UNCHANGED <<work, seen>>
    BY <1>4 DEF Claim
  <2>2. event[i] = "pending" /\ n \notin claimed[i]
    BY <1>4 DEF Claimable
  <2>3. 1..attempts[i] \subseteq claimed[i] /\ attempts[i] < MaxTries
    BY <1>1, <2>2 DEF SendInv, Consistent, Copy
  <2>4. n = attempts[i] + 1 /\ n \in 1..MaxTries
    BY <1>1, <2>2, <2>3 DEF MaxTries
  <2>5. accepted[i] = 0
    BY <1>1, <2>2, <2>4 DEF SendInv, Accounted
  <2>6. \A e \in Dispatcher : pc[e] \in AtWork => work[e] # i
    BY <1>1, <2>2, <2>4 DEF SendInv, Holding
  <2>7. /\ \A j \in Intent : j # i => token'[j] = token[j] /\ claimed'[j] = claimed[j]
        /\ token'[i] = issued + 1 /\ claimed'[i] = claimed[i] \cup {n}
    BY <1>1, <2>1 DEF SendInv, TypeOK
  <2>8. /\ \A e \in Dispatcher : e # d => pc'[e] = pc[e] /\ mine'[e] = mine[e]
        /\ pc'[d] = "call" /\ mine'[d] = issued + 1
    BY <2>1 DEF SendInv, TypeOK
  <2>9. TypeOK'
    <3>1. /\ token' \in [Intent -> 0..issued'] /\ mine' \in [Dispatcher -> 0..issued']
          /\ issued' \in Nat
      BY <1>1, <2>1 DEF SendInv, TypeOK
    <3>2. left' \in [Intent -> 0..LeaseTime]
      <4>1. LeaseTime \in 0..LeaseTime
        BY OutboundAssumption
      <4>2. left \in [Intent -> 0..LeaseTime]
        BY DEF SendInv, TypeOK
      <4> QED
        BY <2>1, <4>1, <4>2
    <3>3. claimed' \in [Intent -> SUBSET (1..MaxTries)]
      <4>1. claimed \in [Intent -> SUBSET (1..MaxTries)]
        BY DEF SendInv, TypeOK
      <4>2. claimed[i] \cup {n} \in SUBSET (1..MaxTries)
        BY <1>1, <2>4, <4>1
      <4> HIDE DEF i, n
      <4> QED
        BY <2>1, <4>1, <4>2
    <3>4. pc' \in [Dispatcher -> {"idle", "block", "claim", "call", "returned", "raised"}]
      BY <2>1 DEF SendInv, TypeOK
    <3> QED
      BY <2>1, <3>1, <3>2, <3>3, <3>4 DEF SendInv, TypeOK, Claim, fences, intents, disaster
  <2>10. Consistent(Copy)'
    BY <1>1, <1>2, <2>4, <2>7 DEF SendInv, Consistent, Copy
  <2>11. Consistent(saved)'
    BY <1>2 DEF SendInv, Consistent
  <2>12. Seen' /\ PassedFences'
    BY <1>1, <1>2, <2>1, <2>2, <2>8 DEF SendInv, Seen, PassedFences, Fenced
  <2>13. Holding'
    <3>1. ASSUME NEW e \in Dispatcher, pc'[e] \in AtWork, e # d
          PROVE  /\ work[e] # i /\ work[e] \in Intent /\ pc[e] \in AtWork
                 /\ token'[work[e]] = token[work[e]] /\ claimed'[work[e]] = claimed[work[e]]
                 /\ mine'[e] = mine[e]
      BY <2>6, <2>7, <2>8, <3>1 DEF SendInv, Seen, AtWork
    <3>2. /\ seen'[d] = attempts'[work'[d]] /\ seen'[d] + 1 \in claimed'[work'[d]]
          /\ mine'[d] >= 1 /\ token'[work'[d]] = mine'[d] /\ event'[work'[d]] = "pending"
      BY <1>1, <1>2, <2>1, <2>2, <2>4, <2>7, <2>8
    <3> QED
      BY <1>2, <2>1, <3>1, <3>2 DEF SendInv, Holding
  <2>14. Accounted'
    <3>1. ASSUME NEW e \in Dispatcher, pc'[e] \in {"call", "raised"}
          PROVE  accepted'[work'[e]] = 0
      BY <1>2, <2>1, <2>5, <2>8, <3>1 DEF SendInv, Accounted
    <3>2. ASSUME NEW j \in Intent
          PROVE  /\ accepted'[j] <= 1
                 /\ accepted'[j] >= 1 => \/ event'[j] = "published"
                                         \/ event'[j] = "pending" /\ attempts'[j] + 1 \in claimed'[j]
      BY <1>2, <2>5, <2>7 DEF SendInv, Accounted
    <3> QED
      BY <3>1, <3>2 DEF Accounted
  <2> QED
    BY <2>9, <2>10, <2>11, <2>12, <2>13, <2>14 DEF SendInv
<1> QED
  BY <1>3, <1>4

\* Dispatcher d, at work, records that its intent is now st and its event ev.
Records(d, st, ev) ==
    /\ pc[d] \in AtWork
    /\ \/ st = "pending" /\ ev = "pending" /\ attempts[work[d]] + 1 < MaxTries
       \/ st = "failed" /\ ev = "failed" /\ attempts[work[d]] + 1 >= MaxTries
       \/ st = "sent" /\ ev = "published"
    /\ ev # "published" => accepted[work[d]] = 0
    /\ status' = [status EXCEPT ![work[d]] = st]
    /\ event' = [event EXCEPT ![work[d]] = ev]
    /\ attempts' = [attempts EXCEPT ![work[d]] = attempts[work[d]] + 1]
    /\ token' = [token EXCEPT ![work[d]] = 0]
    /\ left' = [left EXCEPT ![work[d]] = 0]
    /\ Idle(d)
    /\ UNCHANGED <<fences, key, names, claimed, creating, deciding, accepted, approved, issued,
                   disaster>>

\* Recording an outcome ends the work of the one dispatcher that was at it.
LEMMA SendRecordKeeps ==
  ASSUME SendInv, NEW d \in Dispatcher, NEW st, NEW ev, Records(d, st, ev)
  PROVE  SendInv'
<1> USE DEF Records
<1> DEFINE i == work[d]
<1>1. /\ i \in Intent /\ attempts[i] \in Nat /\ attempts[i] < MaxTries
      /\ attempts[i] + 1 \in claimed[i]
      /\ \A e \in Dispatcher : e # d /\ pc[e] \in AtWork => work[e] # i
  BY DEF SendInv, TypeOK, Seen, Holding, Consistent, Copy, AtWork
<1>2. /\ \A j \in Intent : j # i => /\ status'[j] = status[j] /\ event'[j] = event[j]
                                    /\ attempts'[j] = attempts[j] /\ token'[j] = token[j]
      /\ status'[i] = st /\ event'[i] = ev /\ attempts'[i] = attempts[i] + 1
  BY <1>1 DEF SendInv, TypeOK
<1>3. /\ \A e \in Dispatcher : e # d => /\ pc'[e] = pc[e] /\ work'[e] = work[e]
                                        /\ seen'[e] = seen[e] /\ mine'[e] = mine[e]
      /\ pc'[d] = "idle"
  BY DEF SendInv, TypeOK, Idle
<1>4. UNCHANGED <<claimed, accepted, recovery, dispatchOff, saved, issued>>
  BY DEF fences, disaster
<1>5. \/ st = "pending" /\ ev = "pending"
      \/ st = "failed" /\ ev = "failed"
      \/ st = "sent" /\ ev = "published"
  OBVIOUS
<1>6. TypeOK'
  <2>1. /\ status' \in [Intent -> {"absent", "pending", "sent", "failed", "blocked"}]
        /\ event' \in [Intent -> {"absent", "pending", "published", "failed"}]
    BY <1>5 DEF SendInv, TypeOK
  <2>2. attempts' \in [Intent -> 0..MaxTries]
    BY <1>1 DEF SendInv, TypeOK, MaxTries
  <2>3. token' \in [Intent -> 0..issued']
    <3>1. token \in [Intent -> 0..issued] /\ 0 \in 0..issued
      BY DEF SendInv, TypeOK
    <3> QED
      BY <1>4, <3>1
  <2>4. left' \in [Intent -> 0..LeaseTime]
    <3>1. 0 \in 0..LeaseTime
      BY OutboundAssumption
    <3>2. left \in [Intent -> 0..LeaseTime]
      BY DEF SendInv, TypeOK
    <3> QED
      BY <3>1, <3>2
  <2>5. TypeOK /\ issued' = issued
    BY <1>4 DEF SendInv
  <2> QED
    BY <2>1, <2>2, <2>3, <2>4, <2>5, IdleType DEF TypeOK, fences, disaster
<1>7. Consistent(Copy)'
  <2>1. ASSUME NEW j \in Intent, j # i
        PROVE  /\ 1..attempts'[j] \subseteq claimed'[j]
               /\ claimed'[j] \subseteq 1..(attempts'[j] + 1)
               /\ event'[j] = "pending" => attempts'[j] < MaxTries
               /\ event'[j] = "failed" => attempts'[j] = MaxTries
               /\ event'[j] = "absent" => attempts'[j] = 0
               /\ event'[j] = "absent" <=> status'[j] = "absent"
               /\ event'[j] = "published" <=> status'[j] = "sent"
               /\ status'[j] = "failed" => event'[j] = "failed"
    BY <1>2, <1>4, <2>1 DEF SendInv, Consistent, Copy
  <2>2. 1..(attempts[i] + 1) \subseteq claimed[i] /\ claimed[i] \subseteq 1..(attempts[i] + 2)
    BY <1>1 DEF SendInv, Consistent, Copy
  <2>3. ev = "failed" => attempts[i] + 1 = MaxTries
    BY <1>1 DEF MaxTries
  <2> QED
    BY <1>1, <1>2, <1>4, <1>5, <2>1, <2>2, <2>3 DEF Consistent, Copy
<1>8. Consistent(saved)'
  BY <1>4 DEF SendInv, Consistent
<1>9. Seen' /\ PassedFences'
  <2>1. ASSUME NEW e \in Dispatcher, pc'[e] # "idle"
        PROVE  /\ work'[e] \in Intent
               /\ seen'[e] <= attempts'[work'[e]]
               /\ event'[work'[e]] # "absent"
    <3>1. /\ pc[e] # "idle" /\ work'[e] = work[e] /\ seen'[e] = seen[e]
      BY <1>3, <2>1
    <3>2. work[e] \in Intent /\ seen[e] <= attempts[work[e]] /\ event[work[e]] # "absent"
      BY <3>1 DEF SendInv, Seen
    <3>3. seen[e] \in Nat
      BY DEF SendInv, TypeOK
    <3> HIDE DEF i
    <3> QED
      BY <1>1, <1>2, <1>5, <3>1, <3>2, <3>3
  <2>2. PassedFences'
    BY <1>3, <1>4 DEF SendInv, PassedFences, Fenced
  <2> QED
    BY <2>1, <2>2 DEF Seen
<1>10. Holding'
  BY <1>1, <1>2, <1>3, <1>4 DEF SendInv, Seen, Holding, AtWork
<1>11. Accounted'
  <2>1. ASSUME NEW e \in Dispatcher, pc'[e] \in {"call", "raised"}
        PROVE  accepted'[work'[e]] = 0
    BY <1>3, <1>4, <2>1 DEF SendInv, Accounted
  <2>2. ASSUME NEW j \in Intent
        PROVE  /\ accepted'[j] <= 1
               /\ accepted'[j] >= 1 => \/ event'[j] = "published"
                                       \/ event'[j] = "pending" /\ attempts'[j] + 1 \in claimed'[j]
    BY <1>2, <1>4, <1>5 DEF SendInv, Accounted
  <2> QED
    BY <2>1, <2>2 DEF Accounted
<1> QED
  BY <1>6, <1>7, <1>8, <1>9, <1>10, <1>11 DEF SendInv

LEMMA RecordFailureKeeps ==
  ASSUME SendInv, NEW d \in Dispatcher, RecordFailure(d)
  PROVE  SendInv'
<1> DEFINE i == work[d]
           n == seen[d] + 1
           outcome == IF GivesUp(n) THEN "failed" ELSE "pending"
<1>1. /\ pc[d] = "raised" /\ i \in Intent /\ token[i] = mine[d] /\ seen[d] = attempts[i]
      /\ accepted[i] = 0 /\ attempts[i] \in Nat
  BY DEF SendInv, TypeOK, Seen, Holding, Accounted, RecordFailure, AtWork
<1>2. \/ outcome = "pending" /\ attempts[i] + 1 < MaxTries
      \/ outcome = "failed" /\ attempts[i] + 1 >= MaxTries
  BY <1>1 DEF GivesUp, MaxTries
<1> HIDE DEF outcome
<1>3. /\ status' = [status EXCEPT ![i] = outcome]
      /\ attempts' = [attempts EXCEPT ![i] = attempts[i] + 1]
      /\ event' = [event EXCEPT ![i] = outcome]
      /\ token' = [token EXCEPT ![i] = 0]
      /\ left' = [left EXCEPT ![i] = 0]
      /\ Idle(d)
      /\ UNCHANGED <<fences, key, names, claimed, creating, deciding, accepted, approved, issued,
                     disaster>>
  BY <1>1 DEF RecordFailure, outcome
<1>4. Records(d, outcome, outcome)
  BY <1>1, <1>2, <1>3 DEF Records, AtWork
<1> QED
  BY <1>4, SendRecordKeeps

LEMMA RecordSuccessKeeps ==
  ASSUME SendInv, NEW d \in Dispatcher, RecordSuccess(d)
  PROVE  SendInv'
<1>1. Records(d, "sent", "published")
  BY DEF RecordSuccess, Records, AtWork
<1> QED
  BY <1>1, SendRecordKeeps

\* A restore brings back a consistent copy and leaves no process that remembers another.
LEMMA SendRestoreKeeps ==
  ASSUME SendInv, Restore
  PROVE  SendInv'
<1>1. TypeOK'
  <2>1. 0 \in 0..LeaseTime /\ 0 \in 0..MaxTries /\ 0 \in 0..issued /\ issued \in Nat
    BY OutboundAssumption DEF SendInv, TypeOK, MaxTries
  <2> QED
    BY <2>1 DEF SendInv, TypeOK, Restore
<1>2. Consistent(Copy)' /\ Consistent(saved)'
  BY DEF SendInv, Restore, Consistent, Copy
<1>3. \A d \in Dispatcher : pc'[d] = "idle"
  BY DEF Restore
<1>4. \A i \in Intent : accepted'[i] = 0
  BY DEF Restore
<1>5. Seen' /\ Holding' /\ Accounted' /\ PassedFences'
  BY <1>3, <1>4 DEF Seen, Holding, Accounted, PassedFences, AtWork
<1> QED
  BY <1>1, <1>2, <1>5 DEF SendInv
------------------------------------------------------------------------------
(* The results.                                                            *)

LEMMA InitInv == Init => SendInv
<1> SUFFICES ASSUME Init PROVE SendInv
  OBVIOUS
<1>1. 0 \in 0..LeaseTime /\ 0 \in 0..MaxTries
  BY OutboundAssumption DEF MaxTries
<1>2. Consistent(Copy) /\ saved = Copy
  BY DEF Init, Consistent, Copy, MaxTries
<1>3. saved \in [approval: [Approval -> {"pending", "approved", "rejected"}], installed: BOOLEAN,
                 key: [Intent -> Key \cup {NoKey}], names: [Intent -> Approval \cup {NoApproval}],
                 status: [Intent -> {"absent", "pending", "sent", "failed", "blocked"}],
                 attempts: [Intent -> 0..MaxTries],
                 event: [Intent -> {"absent", "pending", "published", "failed"}],
                 claimed: [Intent -> SUBSET (1..MaxTries)]]
  BY <1>1 DEF Init, Copy
<1>4. TypeOK
  <2>1. issued = 0 /\ 0 \in 0..0
    BY DEF Init
  <2>2. token \in [Intent -> 0..issued] /\ mine \in [Dispatcher -> 0..issued]
    BY <2>1 DEF Init
  <2>3. /\ left \in [Intent -> 0..LeaseTime] /\ attempts \in [Intent -> 0..MaxTries]
        /\ seen \in [Dispatcher -> 0..MaxTries] /\ claimed \in [Intent -> SUBSET (1..MaxTries)]
    BY <1>1 DEF Init
  <2>4. /\ creating \in [Caller -> [key: Key \cup {NoKey}, approval: Approval \cup {NoApproval}]]
        /\ deciding \in [Approver -> Approval \cup {NoApproval}]
    BY DEF Init
  <2>5. /\ approval \in [Approval -> {"pending", "approved", "rejected"}]
        /\ key \in [Intent -> Key \cup {NoKey}] /\ names \in [Intent -> Approval \cup {NoApproval}]
        /\ status \in [Intent -> {"absent", "pending", "sent", "failed", "blocked"}]
        /\ event \in [Intent -> {"absent", "pending", "published", "failed"}]
    BY DEF Init
  <2>6. /\ pc \in [Dispatcher -> {"idle", "block", "claim", "call", "returned", "raised"}]
        /\ work \in [Dispatcher -> Intent \cup {NoIntent}]
        /\ accepted \in [Intent -> Nat] /\ approved \in [Approval -> BOOLEAN]
    BY DEF Init
  <2>7. /\ installed \in BOOLEAN /\ recovery \in BOOLEAN /\ dispatchOff \in BOOLEAN
        /\ issued \in Nat /\ backups \in Nat /\ restores \in Nat /\ crashes \in Nat
    BY DEF Init
  <2> QED
    BY <1>3, <2>2, <2>3, <2>4, <2>5, <2>6, <2>7 DEF TypeOK
<1>5. Seen /\ Holding /\ Accounted /\ PassedFences
  BY DEF Init, Seen, Holding, Accounted, PassedFences, AtWork
<1> QED
  BY <1>2, <1>4, <1>5 DEF SendInv

LEMMA NextKeeps == SendInv /\ [Next]_vars => SendInv'
<1> SUFFICES ASSUME SendInv, [Next]_vars PROVE SendInv'
  OBVIOUS
<1>1. CASE UNCHANGED vars
  <2>1. TypeOK'
    BY <1>1 DEF SendInv, TypeOK, vars, database, fences, intents, events, dispatchers, disaster
  <2> QED
    BY <1>1, <2>1, QuietKeeps
       DEF vars, database, fences, intents, events, disaster, Rows, Fenced
<1>2. ASSUME NEW r \in Approver, NEW a \in Approval, DecideRead(r, a) PROVE SendInv'
  BY <1>2, DecideReadKeeps
<1>3. ASSUME NEW r \in Approver, NEW decision \in {"approved", "rejected"},
             DecideWrite(r, decision)
      PROVE SendInv'
  BY <1>3, DecideWriteKeeps
<1>4. CASE Revoke \/ Reenable \/ LeaveRecovery
  BY <1>4, FlagsKeep
<1>5. ASSUME NEW c \in Caller, NEW k \in Key, NEW a \in Approval, CreateCheck(c, k, a) PROVE SendInv'
  BY <1>5, CreateCheckKeeps
<1>6. ASSUME NEW c \in Caller, CreateInsert(c) PROVE SendInv'
  BY <1>6, CreateInsertKeeps
<1>7. ASSUME NEW d \in Dispatcher, DispatcherStep(d) PROVE SendInv'
  BY <1>7, DispatchCheckKeeps, BlockKeeps, ClaimKeeps, SendCallKeeps, RecordFailureKeeps,
     RecordSuccessKeeps DEF DispatcherStep
<1>8. ASSUME NEW d \in Dispatcher, Crash(d) PROVE SendInv'
  BY <1>8, SendCrashKeeps
<1>9. CASE Tick
  BY <1>9, TickKeeps
<1>10. CASE Backup
  BY <1>10, BackupKeeps
<1>11. CASE Restore
  BY <1>11, SendRestoreKeeps
<1> QED
  BY <1>1, <1>2, <1>3, <1>4, <1>5, <1>6, <1>7, <1>8, <1>9, <1>10, <1>11 DEF Next

\* The inductive invariant: attempt numbers are claimed in order and once, and a
\* dispatcher at work holds the next one together with the event's lease token.
THEOREM SendInvariance == Spec => []SendInv
BY InitInv, NextKeeps, PTL DEF Spec

\* For any number of intents, callers and dispatchers, the provider accepts an intent at
\* most once between two restores.
THEOREM AcceptedOnceHolds == Spec => []AcceptedOnce
<1>1. SendInv => AcceptedOnce
  BY DEF SendInv, Accounted, AcceptedOnce
<1> QED
  BY <1>1, SendInvariance, PTL

\* A dispatcher that called the provider still holds the event when it records the
\* outcome, although the lease it took may have run out.
THEOREM LeaseKeptHolds == Spec => []LeaseKept
<1>1. SendInv => LeaseKept
  BY DEF SendInv, Seen, Holding, Consistent, Copy, LeaseKept, AtWork
<1> QED
  BY <1>1, SendInvariance, PTL

\* The two status columns tell one story.
THEOREM IntentMatchesEventHolds == Spec => []IntentMatchesEvent
<1>1. SendInv => IntentMatchesEvent
  BY DEF SendInv, Consistent, Copy, IntentMatchesEvent
<1> QED
  BY <1>1, SendInvariance, PTL

\* An intent is given up after three claimed attempts and only if none was accepted.
THEOREM GivenUpAfterThreeHolds == Spec => []GivenUpAfterThree
<1>1. SendInv => GivenUpAfterThree
  <2> SUFFICES ASSUME SendInv, NEW i \in Intent, event[i] = "failed"
               PROVE  claimed[i] = 1..MaxTries /\ accepted[i] = 0
    BY DEF GivenUpAfterThree
  <2>1. claimed[i] \subseteq 1..MaxTries
    BY DEF SendInv, TypeOK
  <2>2. 1..MaxTries \subseteq claimed[i]
    BY DEF SendInv, Consistent, Copy
  <2>3. claimed[i] = 1..MaxTries
    BY <2>1, <2>2
  <2>4. accepted[i] \in Nat /\ ~(accepted[i] >= 1)
    BY DEF SendInv, TypeOK, Accounted
  <2> QED
    BY <2>3, <2>4
<1> QED
  BY <1>1, SendInvariance, PTL

\* No provider call is made while the flags of a restored database are up.
THEOREM NoCallInRecoveryHolds == Spec => NoCallInRecovery
<1>1. SendInv /\ [Next]_vars => [accepted' # accepted /\ restores' = restores => ~Fenced]_vars
  <2> SUFFICES ASSUME SendInv, Next, accepted' # accepted, restores' = restores
               PROVE  ~Fenced
    BY DEF vars
  <2>1. restores + 1 # restores
    BY DEF SendInv, TypeOK
  <2>2. ~Restore
    BY <2>1 DEF Restore
  <2>3. PICK d \in Dispatcher : Call(d)
    BY <2>2 DEF Next, DispatcherStep, DecideRead, DecideWrite, Revoke, CreateCheck, CreateInsert,
                DispatchCheck, Block, Claim, RecordFailure, RecordSuccess, Crash, Tick, Backup,
                Reenable, LeaveRecovery
  <2> QED
    BY <2>3 DEF SendInv, PassedFences, Call
<1> QED
  BY <1>1, SendInvariance, PTL DEF Spec, NoCallInRecovery

\* What is sent stays sent until a restore.
LEMMA SentStays ==
    ASSUME SendInv, [Next]_vars, ~Restore, NEW i \in Intent, status[i] = "sent"
    PROVE  status'[i] = "sent"
<1>1. /\ event[i] = "published"
      /\ status \in [Intent -> {"absent", "pending", "sent", "failed", "blocked"}]
  BY DEF SendInv, TypeOK, Consistent, Copy
<1>2. ASSUME NEW c \in Caller, CreateInsert(c) PROVE status'[i] = "sent"
  BY <1>1, <1>2 DEF CreateInsert
<1>3. ASSUME NEW d \in Dispatcher, Block(d) PROVE status'[i] = "sent"
  BY <1>1, <1>3 DEF Block
<1>4. ASSUME NEW d \in Dispatcher, RecordFailure(d) PROVE status'[i] = "sent"
  <2>1. work[d] # i
    BY <1>1, <1>4 DEF SendInv, Holding, RecordFailure, AtWork
  <2> QED
    BY <1>4, <2>1, <1>1 DEF RecordFailure
<1>5. ASSUME NEW d \in Dispatcher, RecordSuccess(d) PROVE status'[i] = "sent"
  BY <1>1, <1>5 DEF RecordSuccess
<1>6. CASE UNCHANGED status
  BY <1>6
<1> QED
  BY <1>2, <1>3, <1>4, <1>5, <1>6
     DEF Next, vars, DispatcherStep, DecideRead, DecideWrite, Revoke, CreateCheck, DispatchCheck,
         Claim, Call, Crash, Tick, Backup, Reenable, LeaveRecovery, database, intents

\* A sent intent is never written again, by whatever dispatcher comes late.
THEOREM SentIsFinalHolds == Spec => SentIsFinal
<1>1. SendInv /\ [Next]_vars =>
        [\A i \in Intent : status[i] = "sent" /\ restores' = restores => status'[i] = "sent"]_vars
  <2> SUFFICES ASSUME SendInv, [Next]_vars, NEW i \in Intent, status[i] = "sent",
                      restores' = restores
               PROVE  status'[i] = "sent"
    OBVIOUS
  <2>1. ~Restore
    BY DEF SendInv, TypeOK, Restore
  <2> QED
    BY <2>1, SentStays
<1> QED
  BY <1>1, SendInvariance, PTL DEF Spec, SentIsFinal
------------------------------------------------------------------------------
(* The contract of the effects, kept by the sends                          *)

\* Who approved stays known, in the database and in a backup: of every request, and of
\* every intent there is.
Agreed(db) ==
    /\ \A a \in Approval : db.approval[a] = "approved" => approved[a]
    /\ \A i \in Intent :
          IF db.status[i] = "absent" THEN db.names[i] = NoApproval
                                     ELSE db.names[i] \in Approval /\ approved[db.names[i]]

\* What a backup holds of an intent is still so.
Later ==
    \A i \in Intent :
        /\ saved.status[i] # "absent" => status[i] # "absent" /\ names[i] = saved.names[i]
        /\ saved.status[i] = "sent" => status[i] = "sent"

\* A caller past its checks found an approval, and a dispatcher whose call returned knows
\* that the provider accepted the intent.
Checked ==
    /\ \A c \in Caller : creating[c].key # NoKey =>
          creating[c].approval \in Approval /\ approved[creating[c].approval]
    /\ \A d \in Dispatcher : pc[d] = "returned" => accepted[work[d]] = 1

SignedInv == Agreed(Copy) /\ Agreed(saved) /\ Later /\ Checked

\* The steps, the restore aside, that write what the contract speaks of.
LEMMA StatusStep ==
    ASSUME SendInv, [Next]_vars, ~Restore, NEW i \in Intent
    PROVE  \/ /\ names'[i] = names[i]
              /\ status'[i] = "absent" <=> status[i] = "absent"
           \/ /\ status[i] = "absent" /\ status'[i] = "pending"
              /\ \E c \in Caller : creating[c].key # NoKey /\ names'[i] = creating[c].approval
<1>1. ASSUME NEW c \in Caller, CreateInsert(c), NEW j \in Intent, status[j] = "absent",
             names' = [names EXCEPT ![j] = creating[c].approval],
             status' = [status EXCEPT ![j] = "pending"], creating[c].key # NoKey
      PROVE  \/ names'[i] = names[i] /\ status'[i] = status[i]
             \/ /\ status[i] = "absent" /\ status'[i] = "pending"
                /\ creating[c].key # NoKey /\ names'[i] = creating[c].approval
    BY <1>1 DEF SendInv, TypeOK
<1>2. CASE \E c \in Caller : CreateInsert(c)
    BY <1>1, <1>2 DEF CreateInsert
<1>3. CASE UNCHANGED <<status, names>>
    BY <1>3
<1>4. ASSUME NEW d \in Dispatcher, Block(d) \/ RecordFailure(d) \/ RecordSuccess(d)
      PROVE  names' = names /\ (status'[i] = "absent" <=> status[i] = "absent")
  <2>1. pc[d] # "idle" /\ names' = names
      BY <1>4 DEF Block, RecordFailure, RecordSuccess
  <2>2. work[d] \in Intent /\ status[work[d]] # "absent"
      BY <2>1 DEF SendInv, Seen, Consistent, Copy
  <2>3. PICK v \in {"pending", "sent", "failed", "blocked"} :
            status' = [status EXCEPT ![work[d]] = v]
    <3>1. CASE Block(d)
      <4>1. status' = [status EXCEPT ![work[d]] = IF status[work[d]] = "sent" THEN "sent"
                                                                            ELSE "blocked"]
          BY <3>1, <2>2 DEF Block
      <4> QED
          BY <4>1
    <3>2. CASE RecordFailure(d)
        BY <3>2 DEF RecordFailure
    <3>3. CASE RecordSuccess(d)
        BY <3>3 DEF RecordSuccess
    <3> QED
        BY <1>4, <3>1, <3>2, <3>3
  <2>4. status'[i] = IF i = work[d] THEN v ELSE status[i]
      BY <2>2, <2>3 DEF SendInv, TypeOK
  <2> QED
      BY <2>1, <2>2, <2>4
<1>5. \/ \E c \in Caller : CreateInsert(c)
      \/ UNCHANGED <<status, names>>
      \/ \E d \in Dispatcher : Block(d) \/ RecordFailure(d) \/ RecordSuccess(d)
    BY DEF Next, vars, DispatcherStep, DecideRead, DecideWrite, Revoke, CreateCheck, DispatchCheck,
           Claim, Call, Crash, Tick, Backup, Reenable, LeaveRecovery, database, intents
<1> QED
    BY <1>2, <1>3, <1>4, <1>5

\* Consent is not forgotten, and a request becomes approved only by it.
LEMMA ApprovedStep ==
    ASSUME SendInv, [Next]_vars
    PROVE  /\ \A a \in Approval : approved[a] => approved'[a]
           /\ ~Restore => \A a \in Approval :
                 approval'[a] = "approved" => approval[a] = "approved" \/ approved'[a]
<1>1. ASSUME NEW r \in Approver, NEW decision \in {"approved", "rejected"},
             DecideWrite(r, decision), NEW a \in Approval
      PROVE  /\ approved[a] => approved'[a]
             /\ approval'[a] = "approved" => approval[a] = "approved" \/ approved'[a]
  <2>1. deciding[r] \in Approval
      BY <1>1 DEF SendInv, TypeOK, DecideWrite
  <2>2. CASE a = deciding[r]
    <3>1. approval'[a] = decision
        BY <1>1, <2>2 DEF SendInv, TypeOK, DecideWrite
    <3>2. approved'[a] = (approved[a] \/ decision = "approved")
        BY <1>1, <2>2 DEF SendInv, TypeOK, DecideWrite
    <3> QED
        BY <3>1, <3>2
  <2>3. CASE a # deciding[r]
      BY <1>1, <2>1, <2>3 DEF SendInv, TypeOK, DecideWrite
  <2> QED
      BY <2>2, <2>3
<1>2. \/ \E r \in Approver, decision \in {"approved", "rejected"} : DecideWrite(r, decision)
      \/ UNCHANGED <<approval, approved>>
      \/ Restore /\ UNCHANGED approved
    BY DEF Next, vars, DispatcherStep, DecideRead, Revoke, CreateCheck, CreateInsert, DispatchCheck,
           Block, Claim, Call, RecordFailure, RecordSuccess, Crash, Tick, Backup, Restore,
           Reenable, LeaveRecovery, database, fences
<1> QED
    BY <1>1, <1>2

\* The provider accepts, outside a restore, only what a dispatcher calls it for.
LEMMA AcceptedStep ==
    ASSUME SendInv, [Next]_vars, ~Restore
    PROVE  \/ UNCHANGED accepted
           \/ \E d \in Dispatcher : Call(d) /\ pc'[d] = "returned"
                                    /\ accepted' = [accepted EXCEPT ![work[d]] = 1]
<1>1. ASSUME NEW d \in Dispatcher, Call(d), accepted' # accepted
      PROVE  pc'[d] = "returned" /\ accepted' = [accepted EXCEPT ![work[d]] = 1]
  <2>1. accepted[work[d]] = 0
      BY <1>1 DEF SendInv, Accounted, Call
  <2>2. accepted[work[d]] + 1 = 1
      BY <2>1
  <2>3. /\ pc' = [pc EXCEPT ![d] = "returned"]
        /\ accepted' = [accepted EXCEPT ![work[d]] = accepted[work[d]] + 1]
      BY <1>1 DEF Call
  <2>4. accepted' = [accepted EXCEPT ![work[d]] = 1]
      BY <2>2, <2>3
  <2>5. pc'[d] = "returned"
      BY <2>3 DEF SendInv, TypeOK
  <2> QED
      BY <2>4, <2>5
<1>2. (\E d \in Dispatcher : Call(d)) \/ UNCHANGED accepted
    BY DEF Next, vars, DispatcherStep, DecideRead, DecideWrite, Revoke, CreateCheck, CreateInsert,
           DispatchCheck, Block, Claim, RecordFailure, RecordSuccess, Crash, Tick, Backup,
           Reenable, LeaveRecovery
<1> QED
    BY <1>1, <1>2

LEMMA SignedInit == Init => SignedInv
    BY DEF Init, SignedInv, Agreed, Later, Checked, Copy

\* Consent and names, while no database is restored.
LEMMA AgreedNext ==
    ASSUME SendInv, SignedInv, [Next]_vars, ~Restore
    PROVE  Agreed(Copy)' /\ Agreed(saved)'
<1>1. \A a \in Approval : approved[a] => approved'[a]
    BY ApprovedStep
<1>2. \A a \in Approval : approval'[a] = "approved" => approved'[a]
    BY <1>1, ApprovedStep DEF SignedInv, Agreed, Copy
<1>3. ASSUME NEW i \in Intent
      PROVE  IF status'[i] = "absent" THEN names'[i] = NoApproval
                                      ELSE names'[i] \in Approval /\ approved'[names'[i]]
    BY <1>1, StatusStep DEF SignedInv, Agreed, Checked, Copy
<1>4. Agreed(Copy)'
    BY <1>2, <1>3 DEF Agreed, Copy
<1>5. saved' = saved \/ (saved' = Copy /\ UNCHANGED approved)
    BY DEF Next, vars, DispatcherStep, DecideRead, DecideWrite, Revoke, CreateCheck, CreateInsert,
           DispatchCheck, Block, Claim, Call, RecordFailure, RecordSuccess, Crash, Tick, Backup,
           Reenable, LeaveRecovery, disaster
<1>6. CASE saved' = saved
  <2>1. \A a \in Approval : saved.approval[a] = "approved" => approved'[a]
      BY <1>1 DEF SignedInv, Agreed
  <2>2. \A i \in Intent :
            IF saved.status[i] = "absent" THEN saved.names[i] = NoApproval
                                 ELSE saved.names[i] \in Approval /\ approved'[saved.names[i]]
      BY <1>1 DEF SignedInv, Agreed
  <2> QED
      BY <1>4, <1>6, <2>1, <2>2 DEF Agreed
<1>7. CASE saved' = Copy /\ UNCHANGED approved
  <2>1. saved'.approval = approval /\ saved'.status = status /\ saved'.names = names
      BY <1>7 DEF Copy
  <2>2. /\ \A a \in Approval : approval[a] = "approved" => approved[a]
        /\ \A i \in Intent : IF status[i] = "absent" THEN names[i] = NoApproval
                                             ELSE names[i] \in Approval /\ approved[names[i]]
      BY DEF SignedInv, Agreed, Copy
  <2> QED
      BY <1>4, <1>7, <2>1, <2>2 DEF Agreed
<1> QED
    BY <1>4, <1>5, <1>6, <1>7

\* A restore brings consent back that was given.
LEMMA AgreedRestored ==
    ASSUME SignedInv, Restore
    PROVE  SignedInv'
<1>1. Agreed(Copy)' /\ Agreed(saved)'
    BY DEF SignedInv, Agreed, Copy, Restore
<1>2. Later' /\ Checked'
    BY DEF Later, Checked, Restore
<1> QED
    BY <1>1, <1>2 DEF SignedInv

LEMMA LaterNext ==
    ASSUME SendInv, SignedInv, [Next]_vars, ~Restore
    PROVE  Later'
<1>1. \A i \in Intent :
          /\ status[i] # "absent" => status'[i] # "absent" /\ names'[i] = names[i]
          /\ status[i] = "sent" => status'[i] = "sent"
    BY StatusStep, SentStays
<1>2. CASE saved' = saved
    BY <1>1, <1>2 DEF SignedInv, Later
<1>3. CASE saved' = Copy /\ UNCHANGED <<status, names>>
    BY <1>3 DEF Later, Copy
<1> QED
    BY <1>2, <1>3
       DEF Next, vars, DispatcherStep, DecideRead, DecideWrite, Revoke, CreateCheck, CreateInsert,
           DispatchCheck, Block, Claim, Call, RecordFailure, RecordSuccess, Crash, Tick, Backup,
           Reenable, LeaveRecovery, disaster, database, intents

LEMMA CheckedNext ==
    ASSUME SendInv, SignedInv, [Next]_vars, ~Restore
    PROVE  Checked'
<1>1. ASSUME NEW c \in Caller, creating'[c].key # NoKey
      PROVE  creating'[c].approval \in Approval /\ approved'[creating'[c].approval]
  <2>1. ASSUME NEW e \in Caller, NEW k \in Key, NEW a \in Approval, CreateCheck(e, k, a)
        PROVE  creating'[c] = creating[c] \/ (creating'[c].approval = a /\ approved[a])
      BY <2>1 DEF SendInv, TypeOK, SignedInv, Agreed, Copy, CreateCheck
  <2>2. ASSUME NEW e \in Caller, CreateInsert(e)
        PROVE  creating'[c] = creating[c]
    <3>1. creating' = [creating EXCEPT ![e] = [key |-> NoKey, approval |-> NoApproval]]
        BY <2>2 DEF CreateInsert
    <3>2. CASE c = e
        BY <1>1, <3>1, <3>2 DEF SendInv, TypeOK
    <3>3. CASE c # e
        BY <3>1, <3>3 DEF SendInv, TypeOK
    <3> QED
        BY <3>2, <3>3
  <2>3. ASSUME UNCHANGED creating PROVE creating'[c] = creating[c]
      BY <2>3
  <2>4. \/ creating'[c] = creating[c]
        \/ creating'[c].approval \in Approval /\ approved[creating'[c].approval]
      BY <2>1, <2>2, <2>3
         DEF Next, vars, DispatcherStep, DecideRead, DecideWrite, Revoke, DispatchCheck, Block,
             Claim, Call, RecordFailure, RecordSuccess, Crash, Tick, Backup, Reenable,
             LeaveRecovery
  <2> QED
      BY <1>1, <2>4, ApprovedStep DEF SignedInv, Checked
<1>2. ASSUME NEW d \in Dispatcher, pc'[d] = "returned"
      PROVE  accepted'[work'[d]] = 1
  <2>1. CASE Call(d)
    <3>1. /\ work' = work /\ accepted'[work[d]] = accepted[work[d]] + 1
          /\ accepted[work[d]] = 0
        BY <1>2, <2>1 DEF Call, SendInv, TypeOK, Accounted, Seen
    <3> QED
        BY <3>1
  <2>2. CASE ~Call(d)
    <3>1. pc[d] = "returned" /\ work'[d] = work[d]
      <4>1. ASSUME NEW e \in Dispatcher, Idle(e)
            PROVE  pc[d] = "returned" /\ work'[d] = work[d]
          BY <1>2, <4>1 DEF SendInv, TypeOK, Idle
      <4>2. ASSUME NEW e \in Dispatcher, NEW i \in Intent, DispatchCheck(e, i)
            PROVE  pc[d] = "returned" /\ work'[d] = work[d]
          BY <1>2, <4>2 DEF SendInv, TypeOK, DispatchCheck
      <4>3. ASSUME NEW e \in Dispatcher, Claim(e), ~Idle(e)
            PROVE  pc[d] = "returned" /\ work'[d] = work[d]
          BY <1>2, <4>3 DEF SendInv, TypeOK, Claim
      <4>4. ASSUME NEW e \in Dispatcher, Call(e)
            PROVE  pc[d] = "returned" /\ work'[d] = work[d]
          BY <1>2, <2>2, <4>4 DEF SendInv, TypeOK, Call
      <4>5. CASE UNCHANGED <<pc, work>>
          BY <1>2, <4>5
      <4> QED
          BY <4>1, <4>2, <4>3, <4>4, <4>5
             DEF Next, vars, DispatcherStep, DecideRead, DecideWrite, Revoke, CreateCheck,
                 CreateInsert, Block, RecordFailure, RecordSuccess, Crash, Tick, Backup, Reenable,
                 LeaveRecovery, dispatchers
    <3>2. accepted[work[d]] = 1 /\ work[d] \in Intent
        BY <3>1 DEF SignedInv, Checked, SendInv, Seen
    <3>3. accepted' = accepted \/ \E e \in Dispatcher : accepted' = [accepted EXCEPT ![work[e]] = 1]
        BY AcceptedStep
    <3> QED
        BY <3>1, <3>2, <3>3 DEF SendInv, TypeOK
  <2> QED
      BY <2>1, <2>2
<1> QED
    BY <1>1, <1>2 DEF Checked

LEMMA SignedNext == SendInv /\ SignedInv /\ [Next]_vars => SignedInv'
    BY AgreedNext, AgreedRestored, LaterNext, CheckedNext DEF SignedInv

\* What one step, the restore aside, adds to what is permitted.
LEMMA ConsentGrows ==
    ASSUME SendInv, SignedInv, SignedInv', [Next]_vars, ~Restore
    PROVE  /\ Consented \subseteq Consented' /\ Consented' \subseteq Intent
           /\ UNCHANGED <<names, approved>> => UNCHANGED Consented
<1>1. \A i \in Intent : i \in Consented <=> status[i] # "absent"
    BY OutboundAssumption DEF Consented, SignedInv, Agreed, Copy
<1>2. \A i \in Intent : i \in Consented' <=> status'[i] # "absent"
    BY OutboundAssumption DEF Consented, SignedInv, Agreed, Copy
<1>3. \A i \in Intent : status[i] # "absent" => status'[i] # "absent"
    BY StatusStep
<1>4. Consented \subseteq Intent /\ Consented' \subseteq Intent
    BY DEF Consented
<1> QED
    BY <1>1, <1>2, <1>3, <1>4 DEF Consented

\* The call of a dispatcher that passed the approval, when the provider accepts it.
LEMMA PerformStep ==
    ASSUME SendInv, SignedInv, NEW d \in Dispatcher, NEW i \in Intent, i = work[d], Call(d),
           accepted' = [accepted EXCEPT ![i] = 1]
    PROVE  Contract!Perform(i)
<1>1. accepted[i] = 0 /\ status[i] # "sent" /\ status[i] # "absent"
    BY DEF SendInv, Accounted, Seen, Holding, Consistent, Copy, Call, AtWork
<1>2. UNCHANGED <<names, approved, status>>
    BY DEF Call, database, intents
<1>3. i \in Consented
    BY <1>1, OutboundAssumption DEF Consented, SignedInv, Agreed, Copy
<1>4. TimesSent' = [TimesSent EXCEPT ![i] = 1]
    BY <1>2 DEF TimesSent, SentIntents, SendInv, TypeOK
<1>5. TimesSent[i] = 0 /\ UNCHANGED <<Consented, SentIntents>>
    BY <1>1, <1>2 DEF TimesSent, Consented, SentIntents
<1> QED
    BY <1>3, <1>4, <1>5 DEF Contract!Perform

\* The outcome of a call that returned, when it is recorded.
LEMMA TellStep ==
    ASSUME SendInv, SignedInv, NEW d \in Dispatcher, NEW i \in Intent, i = work[d],
           RecordSuccess(d)
    PROVE  Contract!Tell(i)
<1>1. accepted[i] = 1
    BY DEF SignedInv, Checked, RecordSuccess
<1>2. UNCHANGED <<names, approved, accepted>> /\ status' = [status EXCEPT ![i] = "sent"]
    BY DEF RecordSuccess
<1>3. UNCHANGED Consented
    BY <1>2 DEF Consented
<1>4. SentIntents' = SentIntents \cup {i}
    BY <1>2 DEF SentIntents, SendInv, TypeOK
<1>5. UNCHANGED TimesSent
    BY <1>1, <1>2 DEF TimesSent, SentIntents, SendInv, TypeOK
<1>6. TimesSent[i] = 1
    BY <1>1 DEF TimesSent
<1> QED
    BY <1>3, <1>4, <1>5, <1>6 DEF Contract!Tell

\* Back to the backup: what it calls sent was sent, under an approval it knows of.
LEMMA RestoreStep ==
    ASSUME SendInv, SignedInv, Restore
    PROVE  Contract!Restore
<1>1. /\ names' = saved.names /\ status' = saved.status /\ UNCHANGED approved
      /\ accepted' = [i \in Intent |-> 0]
    BY DEF Restore
<1>2. Consented' \subseteq Consented
    BY <1>1, OutboundAssumption DEF Consented, SignedInv, Later, Agreed
<1>3. SentIntents' \subseteq SentIntents \cap Consented'
    BY <1>1, OutboundAssumption DEF Consented, SentIntents, SignedInv, Later, Agreed
<1>4. TimesSent' = [i \in Intent |-> IF i \in SentIntents' THEN 1 ELSE 0]
    BY <1>1 DEF TimesSent, SentIntents
<1> QED
    BY <1>2, <1>3, <1>4 DEF Contract!Restore

\* Every step of the sends is one of the contract, or none.
LEMMA SendContractStep ==
    ASSUME SendInv, SignedInv, SignedInv', [Next]_vars
    PROVE  [Contract!Next \/ Contract!Restore]_(Contract!evars)
<1>1. CASE Restore
    BY <1>1, RestoreStep
<1>2. ASSUME NEW d \in Dispatcher, Call(d), accepted' = [accepted EXCEPT ![work[d]] = 1]
      PROVE  Contract!Next
  <2>1. work[d] \in Intent
      BY <1>2 DEF SendInv, Seen, Call
  <2>2. ASSUME NEW i \in Intent, i = work[d] PROVE Contract!Perform(i)
      BY <1>2, <2>2, PerformStep
  <2> QED
      BY <2>1, <2>2 DEF Contract!Next
<1>3. ASSUME NEW d \in Dispatcher, RecordSuccess(d)
      PROVE  Contract!Next
  <2>1. work[d] \in Intent
      BY <1>3 DEF SendInv, Seen, RecordSuccess
  <2>2. ASSUME NEW i \in Intent, i = work[d] PROVE Contract!Tell(i)
      BY <1>3, <2>2, TellStep
  <2> QED
      BY <2>1, <2>2 DEF Contract!Next
<1>4. CASE ~Restore /\ UNCHANGED accepted /\ ~\E d \in Dispatcher : RecordSuccess(d)
  <2>1. ASSUME NEW i \in Intent
        PROVE  status'[i] = "sent" <=> status[i] = "sent"
    <3>1. status[i] = "sent" => status'[i] = "sent"
        BY <1>4, SentStays
    <3>2. ASSUME NEW c \in Caller, CreateInsert(c), status'[i] = "sent" PROVE status[i] = "sent"
        BY <3>2 DEF CreateInsert, SendInv, TypeOK
    <3>3. ASSUME NEW d \in Dispatcher, Block(d), status'[i] = "sent" PROVE status[i] = "sent"
        BY <3>3 DEF Block, SendInv, TypeOK
    <3>4. ASSUME NEW d \in Dispatcher, RecordFailure(d), status'[i] = "sent"
          PROVE  status[i] = "sent"
        BY <3>4 DEF RecordFailure, SendInv, TypeOK
    <3>5. ASSUME UNCHANGED status, status'[i] = "sent" PROVE status[i] = "sent"
        BY <3>5
    <3>6. status'[i] = "sent" => status[i] = "sent"
        BY <1>4, <3>2, <3>3, <3>4, <3>5
           DEF Next, vars, DispatcherStep, DecideRead, DecideWrite, Revoke, CreateCheck,
               DispatchCheck, Claim, Call, Crash, Tick, Backup, Reenable, LeaveRecovery,
               database, intents
    <3> QED
        BY <3>1, <3>6
  <2>2. UNCHANGED <<SentIntents, TimesSent>>
      BY <1>4, <2>1 DEF SentIntents, TimesSent
  <2>3. Consented \subseteq Consented' /\ Consented' \in SUBSET Intent
      BY <1>4, ConsentGrows
  <2> QED
      BY <2>2, <2>3 DEF Contract!Next, Contract!Permit
<1> QED
    BY <1>1, <1>2, <1>3, <1>4, AcceptedStep

\* Every behaviour of the sends keeps the contract of the effects, restores included: the
\* provider accepts an intent once, under an approval somebody gave, and an intent is
\* recorded as sent only once it was accepted, however dispatchers overlap or die
\* (OutboundSendService.dispatch, restore_backup).
THEOREM SendsKeepContractHolds == Spec => SendsKeepContract
<1>1. Init => Contract!Init
  <2>1. Init => Consented = {} /\ SentIntents = {}
      BY DEF Init, Consented, SentIntents
  <2>2. Init => TimesSent = [i \in Intent |-> 0]
      BY DEF Init, TimesSent, SentIntents
  <2> QED
      BY <2>1, <2>2 DEF Contract!Init
<1>2. /\ SendInv /\ SignedInv /\ SignedInv' /\ [Next]_vars
         => [Contract!Next \/ Contract!Restore]_(Contract!evars)
    BY SendContractStep
<1> QED
    BY <1>1, <1>2, SendInvariance, SignedInit, SignedNext, PTL
       DEF Spec, SendsKeepContract, Contract!RestorableSpec
------------------------------------------------------------------------------
(* Runs of the profiles                                                    *)

MainThread ==
    [at : {"idle", "allowed", "routing", "collecting", "closed", "reporting", "completing", "saving",
           "done", "dead"},
     blocked : {"no", "circuit_open", "blocked"}, deadline : Nat,
     verdict : {"none", "capped", "completed"}, tokens : Nat, read : [threshold : Nat, tokens : Nat]]
Purse == [tokens : Nat, max : Nat, policyMax : Nat, cap : BOOLEAN, closed : BOOLEAN]
Hand ==
    [at : {"waiting", "looked", "ready", "calling", "answered", "charging", "done", "failed"},
     owes : 0..(MaxTokens + 1), opinion : Profiles!Opinions]
Results == {Profiles!Filtered(p, o) : p \in STRING, o \in Profiles!Opinions}

PolicyRow ==
    [threshold : Thresholds, tokens : {MaxTokens, MaxTokens + 1}, openUntil : 0..(MaxTime + OpenFor)]
CircuitEvent == [at : 0..MaxTime, run : Run \cup {Profiles!Other}]
EvaluationRow == [status : {"none", "shadow_only", "completed", "capped"}, started : 0..MaxTime]

ProfileTypes ==
    /\ now \in 0..MaxTime
    /\ policy \in PolicyRow /\ profilesEvents \in Seq(CircuitEvent)
    /\ evaluation \in [Run -> EvaluationRow]
    /\ main \in [Run -> MainThread] /\ budget \in [Run -> Purse]
    /\ DOMAIN worker = Run /\ \A r \in Run : worker[r] \in [Profiles!Threads[r] -> Hand]
    /\ DOMAIN gathered = Run /\ \A r \in Run : DOMAIN gathered[r] = {"opinions", "errors"}
    /\ DOMAIN report = Run /\ called \subseteq Run

\* A charge never exceeds the cap, and nothing is charged before the fan-out.
Funded(r) ==
    /\ budget[r].tokens <= budget[r].max
    /\ main[r].deadline = 0 =>
        /\ r \notin called /\ budget[r].tokens = 0 /\ ~budget[r].cap
        /\ \A p \in Profiles!Threads[r] : worker[r][p].at = "waiting"

\* A run that is blocked has no deadline, any other one stored its evaluation.
Started(r) ==
    /\ main[r].at \in {"idle", "allowed", "routing"} \/ main[r].blocked # "no" => main[r].deadline = 0
    /\ main[r].at \in {"routing", "collecting", "closed"} /\ main[r].blocked = "no" =>
        evaluation[r].status # "none"

\* As long as no worker failed, what was collected is the answers of the first profiles.
Heard(r, opinions) ==
    /\ opinions \in Seq(Results) /\ Len(opinions) <= Len(Asked[r])
    /\ \A i \in 1..Len(opinions) :
        /\ worker[r][Asked[r][i]].at = "done"
        /\ opinions[i] = Profiles!Filtered(Asked[r][i], worker[r][Asked[r][i]].opinion)
Collected(r) ==
    /\ gathered[r].errors = {} => Heard(r, gathered[r].opinions)
    /\ main[r].at = "closed" /\ main[r].blocked = "no" => Profiles!AllCollected(r)

ReportFields == {"status", "review", "opinions", "safety", "telemetry", "policyMax", "saved"}
Composed == {"reporting", "completing", "saving", "done"}
Told(r) == main[r].at \in Composed \/ (main[r].at = "dead" /\ report[r] # Profiles!NoReport)

Counted(r) == \E i \in 1..Len(profilesEvents) : profilesEvents[i].run = r
\* The cap had been raised when complete read it.
Raised(r) == ~(main[r].read.tokens <= report[r].policyMax)

\* What stopped the run is on its way to the breaker.
Stopped(r) ==
    /\ main[r].at = "reporting" => budget[r].cap /\ budget[r].policyMax = report[r].policyMax
    /\ main[r].at = "completing" => main[r].verdict = "capped" \/ Raised(r)
    /\ main[r].at \in {"saving", "done"} => Counted(r) \/ Raised(r)

Ready(r) ==
    report[r].status = "ready" =>
        /\ Heard(r, report[r].opinions) /\ Len(report[r].opinions) = Len(Asked[r])
        /\ report[r].review \/ ~Profiles!Contradictory(report[r].opinions)
Reported(r) ==
    /\ report[r] # Profiles!NoReport => Told(r)
    /\ Told(r) =>
        /\ DOMAIN report[r] = ReportFields /\ Ready(r)
        /\ report[r].saved => main[r].at = "done"
    /\ main[r].at \in Composed /\ report[r].safety = "capped" /\ report[r].telemetry = "ok" => Stopped(r)

RunOk(r) == Funded(r) /\ Started(r) /\ Collected(r) /\ Reported(r)
ProfilesInv == ProfileTypes /\ \A r \in Run : RunOk(r)

LEMMA ProfilesBounds ==
    /\ \A r \in Run : Asked[r] \in Seq(STRING)
    /\ MaxTokens \in Nat /\ Runtime \in Nat /\ Window \in Nat /\ OpenFor \in Nat /\ MaxTime \in Nat
    /\ MaxChanges \in Nat /\ MaxCrashes \in Nat /\ Thresholds \subseteq Nat
BY ProfilesAssumption DEF Profiles!OrchestrationAssumption

LEMMA ThreadsAre ==
    ASSUME NEW r \in Run
    PROVE  Profiles!Threads[r] = {Asked[r][i] : i \in 1..Len(Asked[r])}
BY DEF Profiles!Threads

LEMMA ProfilesInitially == Profiles!Init => ProfilesInv
<1> SUFFICES ASSUME Profiles!Init PROVE ProfilesInv
    OBVIOUS
<1>1. /\ now = 0 /\ profilesEvents = <<>> /\ called = {} /\ changes = 0 /\ profilesCrashes = 0
      /\ \E t \in Thresholds : policy = [threshold |-> t, tokens |-> MaxTokens, openUntil |-> 0]
      /\ evaluation = [r \in Run |-> [status |-> "none", started |-> 0]]
      /\ main = [r \in Run |-> [at |-> "idle", blocked |-> "no", deadline |-> 0, verdict |-> "none",
                                tokens |-> 0, read |-> Profiles!NoPolicy]]
      /\ budget = [r \in Run |-> [tokens |-> 0, max |-> MaxTokens, policyMax |-> MaxTokens,
                                  cap |-> FALSE, closed |-> FALSE]]
      /\ worker = [r \in Run |-> [p \in Profiles!Threads[r] |-> Profiles!Waiting]]
      /\ gathered = [r \in Run |-> [opinions |-> <<>>, errors |-> {}]]
      /\ report = [r \in Run |-> Profiles!NoReport]
    BY DEF Profiles!Init
<1>2. Profiles!Waiting \in Hand /\ Profiles!Waiting.at = "waiting"
  <2>1. 0 \in 0..(MaxTokens + 1)
      BY ProfilesBounds
  <2> QED
      BY <2>1 DEF Profiles!Waiting, Hand, Profiles!Opinions
<1>3. ProfileTypes
  <2>1. /\ now \in 0..MaxTime /\ 0 \in 0..(MaxTime + OpenFor)
        /\ profilesEvents \in Seq(CircuitEvent)
      BY <1>1, ProfilesBounds
  <2>2. policy \in PolicyRow
      BY <1>1, <2>1 DEF PolicyRow
  <2>3. /\ evaluation \in [Run -> EvaluationRow] /\ called \subseteq Run /\ DOMAIN report = Run
      BY <1>1, <2>1 DEF EvaluationRow
  <2>4. main \in [Run -> MainThread]
      BY <1>1 DEF MainThread, Profiles!NoPolicy
  <2>5. budget \in [Run -> Purse]
      BY <1>1, ProfilesBounds DEF Purse
  <2>6. DOMAIN worker = Run /\ \A r \in Run : worker[r] \in [Profiles!Threads[r] -> Hand]
      BY <1>1, <1>2
  <2>7. DOMAIN gathered = Run /\ \A r \in Run : DOMAIN gathered[r] = {"opinions", "errors"}
      BY <1>1
  <2> QED
      BY <2>1, <2>2, <2>3, <2>4, <2>5, <2>6, <2>7 DEF ProfileTypes
<1>4. ASSUME NEW r \in Run PROVE RunOk(r)
  <2>1. /\ main[r].at = "idle" /\ main[r].blocked = "no" /\ main[r].deadline = 0
        /\ budget[r].tokens = 0 /\ budget[r].max = MaxTokens /\ budget[r].cap = FALSE
        /\ gathered[r].opinions = <<>> /\ report[r] = Profiles!NoReport
      BY <1>1
  <2>2. \A p \in Profiles!Threads[r] : worker[r][p].at = "waiting"
      BY <1>1, <1>2
  <2>3. Funded(r)
      BY <1>1, <2>1, <2>2, ProfilesBounds DEF Funded
  <2>4. Collected(r)
    <3>1. Len(Asked[r]) \in Nat
        BY ProfilesBounds
    <3> QED
        BY <2>1, <3>1 DEF Collected, Heard
  <2> QED
      BY <2>1, <2>3, <2>4 DEF RunOk, Started, Reported, Told, Composed
<1> QED
    BY <1>3, <1>4 DEF ProfilesInv

\* The other runs rest while r takes a step; what was counted stays counted.
OnlyRun(r) ==
    /\ \A t \in Run : t # r =>
        /\ main'[t] = main[t] /\ budget'[t] = budget[t] /\ worker'[t] = worker[t]
        /\ gathered'[t] = gathered[t] /\ report'[t] = report[t] /\ evaluation'[t] = evaluation[t]
        /\ (t \in called' <=> t \in called)
    /\ \A t \in Run : Counted(t) => Counted(t)'

\* Nothing that the invariant says of a run changes.
Rests(r) ==
    /\ main'[r] = main[r] /\ budget'[r] = budget[r] /\ worker'[r] = worker[r]
    /\ gathered'[r] = gathered[r] /\ report'[r] = report[r]
    /\ evaluation'[r].status = "none" => evaluation[r].status = "none"
    /\ (r \in called' <=> r \in called) /\ (Counted(r) => Counted(r)')

LEMMA HeardStays ==
    ASSUME NEW r \in Run, NEW opinions, Heard(r, opinions),
           \A p \in Profiles!Threads[r] : worker[r][p].at = "done" => worker'[r][p] = worker[r][p]
    PROVE  Heard(r, opinions)'
<1>1. \A i \in 1..Len(opinions) : i \in 1..Len(Asked[r])
  <2>1. Len(opinions) \in Nat /\ Len(Asked[r]) \in Nat /\ Len(opinions) <= Len(Asked[r])
      BY ProfilesBounds DEF Heard
  <2> QED
      BY <2>1
<1>2. \A i \in 1..Len(opinions) : Asked[r][i] \in Profiles!Threads[r]
    BY <1>1, ThreadsAre
<1> QED
    BY <1>2 DEF Heard

LEMMA RestingIsOk ==
    ASSUME NEW r \in Run, RunOk(r), Rests(r)
    PROVE  RunOk(r)'
<1>1. Funded(r)'
    BY DEF RunOk, Funded, Rests
<1>2. Started(r)'
    BY DEF RunOk, Started, Rests
<1>3. \A opinions : Heard(r, opinions) => Heard(r, opinions)'
    BY DEF Heard, Rests
<1>4. Collected(r)'
    BY <1>3 DEF RunOk, Collected, Rests, Profiles!AllCollected, Profiles!Cardinality
<1>5. Told(r)' <=> Told(r)
    BY DEF Told, Rests
<1>6. Ready(r) => Ready(r)'
    BY <1>3 DEF Ready, Rests
<1>7. Stopped(r) => Stopped(r)'
    BY DEF Stopped, Raised, Rests
<1>8. Reported(r)'
    BY <1>5, <1>6, <1>7 DEF RunOk, Reported, Rests
<1> QED
    BY <1>1, <1>2, <1>4, <1>8 DEF RunOk

LEMMA RunStep ==
    ASSUME ProfilesInv, NEW r \in Run, OnlyRun(r), ProfileTypes', RunOk(r)'
    PROVE  ProfilesInv'
<1>1. ASSUME NEW t \in Run, t # r PROVE RunOk(t)'
  <2>1. Rests(t)
      BY <1>1 DEF OnlyRun, Rests
  <2> QED
      BY <2>1, RestingIsOk DEF ProfilesInv
<1> QED
    BY <1>1 DEF ProfilesInv

\* One hand changes.
LEMMA HandGiven ==
    ASSUME NEW r \in Run, NEW p \in Profiles!Threads[r], NEW w \in Hand, ProfileTypes,
           Profiles!Step(r, p, w)
    PROVE  /\ DOMAIN worker' = Run /\ \A t \in Run : worker'[t] \in [Profiles!Threads[t] -> Hand]
           /\ worker'[r][p] = w
           /\ \A q \in Profiles!Threads[r] : q # p => worker'[r][q] = worker[r][q]
           /\ \A t \in Run : t # r => worker'[t] = worker[t]
<1> DEFINE hands == worker[r]
           new == [hands EXCEPT ![p] = w]
<1>0. DOMAIN worker = Run /\ \A t \in Run : worker[t] \in [Profiles!Threads[t] -> Hand]
    BY DEF ProfileTypes
<1>1. hands \in [Profiles!Threads[r] -> Hand]
    BY <1>0
<1>2. /\ new \in [Profiles!Threads[r] -> Hand] /\ new[p] = w
      /\ \A q \in Profiles!Threads[r] : q # p => new[q] = hands[q]
    BY <1>1
<1>3. worker' = [worker EXCEPT ![r] = new]
    BY DEF Profiles!Step
<1> HIDE DEF new
<1>4. \A t \in Run : t # r => worker'[t] = worker[t]
    BY <1>0, <1>3
<1>5. DOMAIN worker' = Run /\ worker'[r] = new
    BY <1>0, <1>3
<1>6. \A t \in Run : worker'[t] \in [Profiles!Threads[t] -> Hand]
    BY <1>0, <1>2, <1>4, <1>5
<1> QED
    BY <1>2, <1>4, <1>5, <1>6

\* The purse of a run: its fields change one at a time.
PurseGiven(r) == budget' \in [Run -> Purse] /\ \A t \in Run : t # r => budget'[t] = budget[t]

LEMMA PurseIs ==
    ASSUME NEW r \in Run, ProfileTypes, NEW purse \in Purse, budget' = [budget EXCEPT ![r] = purse]
    PROVE  PurseGiven(r) /\ budget'[r] = purse
BY DEF ProfileTypes, PurseGiven

LEMMA PursePaid ==
    ASSUME NEW r \in Run, ProfileTypes, NEW n \in Nat, budget' = [budget EXCEPT ![r].tokens = n]
    PROVE  /\ PurseGiven(r) /\ budget'[r].tokens = n /\ budget'[r].max = budget[r].max
           /\ budget'[r].policyMax = budget[r].policyMax /\ (budget'[r].cap <=> budget[r].cap)
<1> DEFINE own == budget[r]
           paid == [own EXCEPT !.tokens = n]
<1>1. own \in Purse /\ budget' = [budget EXCEPT ![r] = paid]
    BY DEF ProfileTypes
<1> HIDE DEF own
<1>2. /\ paid \in Purse /\ paid.tokens = n /\ paid.max = own.max /\ paid.policyMax = own.policyMax
      /\ (paid.cap <=> own.cap)
    BY <1>1 DEF Purse
<1> HIDE DEF paid
<1> QED
    BY <1>1, <1>2, PurseIs DEF own

LEMMA PurseCapped ==
    ASSUME NEW r \in Run, ProfileTypes, budget' = [budget EXCEPT ![r].cap = TRUE]
    PROVE  /\ PurseGiven(r) /\ budget'[r].tokens = budget[r].tokens /\ budget'[r].max = budget[r].max
           /\ budget'[r].policyMax = budget[r].policyMax /\ budget'[r].cap
<1> DEFINE own == budget[r]
           capped == [own EXCEPT !.cap = TRUE]
<1>1. own \in Purse /\ budget' = [budget EXCEPT ![r] = capped]
    BY DEF ProfileTypes
<1> HIDE DEF own
<1>2. /\ capped \in Purse /\ capped.tokens = own.tokens /\ capped.max = own.max
      /\ capped.policyMax = own.policyMax /\ capped.cap
    BY <1>1 DEF Purse
<1> HIDE DEF capped
<1> QED
    BY <1>1, <1>2, PurseIs DEF own

LEMMA PurseShut ==
    ASSUME NEW r \in Run, ProfileTypes, budget' = [budget EXCEPT ![r].closed = TRUE]
    PROVE  /\ PurseGiven(r) /\ budget'[r].tokens = budget[r].tokens /\ budget'[r].max = budget[r].max
           /\ budget'[r].policyMax = budget[r].policyMax /\ (budget'[r].cap <=> budget[r].cap)
<1> DEFINE own == budget[r]
           shut == [own EXCEPT !.closed = TRUE]
<1>1. own \in Purse /\ budget' = [budget EXCEPT ![r] = shut]
    BY DEF ProfileTypes
<1> HIDE DEF own
<1>2. /\ shut \in Purse /\ shut.tokens = own.tokens /\ shut.max = own.max
      /\ shut.policyMax = own.policyMax /\ (shut.cap <=> own.cap)
    BY <1>1 DEF Purse
<1> HIDE DEF shut
<1> QED
    BY <1>1, <1>2, PurseIs DEF own

LEMMA PurseAllowed ==
    ASSUME NEW r \in Run, ProfileTypes, NEW n \in Nat,
           budget' = [budget EXCEPT ![r].max = n, ![r].policyMax = n]
    PROVE  /\ PurseGiven(r) /\ budget'[r].tokens = budget[r].tokens /\ budget'[r].max = n
           /\ (budget'[r].cap <=> budget[r].cap)
<1> DEFINE own == budget[r]
           allowed == [own EXCEPT !.max = n, !.policyMax = n]
<1>1. own \in Purse /\ budget' = [budget EXCEPT ![r] = allowed]
    BY DEF ProfileTypes
<1> HIDE DEF own
<1>2. /\ allowed \in Purse /\ allowed.tokens = own.tokens /\ allowed.max = n
      /\ (allowed.cap <=> own.cap)
    BY <1>1 DEF Purse
<1> HIDE DEF allowed
<1> QED
    BY <1>1, <1>2, PurseIs DEF own


\* A worker that is not done yet takes a step.
Works(r, p) ==
    /\ Profiles!Alive(r) /\ worker[r][p].at # "done" /\ PurseGiven(r)
    /\ budget'[r].tokens <= budget'[r].max /\ budget'[r].policyMax = budget[r].policyMax
    /\ budget[r].cap => budget'[r].cap
    /\ called' = called \/ called' = called \cup {r}
    /\ UNCHANGED <<now, policy, profilesEvents, evaluation, main, gathered, report>>

LEMMA WorkerStep ==
    ASSUME ProfilesInv, NEW r \in Run, NEW p \in Profiles!Threads[r], NEW w \in Hand,
           Profiles!Step(r, p, w), Works(r, p)
    PROVE  ProfilesInv'
<1>1. ProfileTypes /\ RunOk(r)
    BY DEF ProfilesInv
<1>2. /\ DOMAIN worker' = Run /\ \A t \in Run : worker'[t] \in [Profiles!Threads[t] -> Hand]
      /\ worker'[r][p] = w
      /\ \A q \in Profiles!Threads[r] : q # p => worker'[r][q] = worker[r][q]
      /\ \A t \in Run : t # r => worker'[t] = worker[t]
    BY <1>1, HandGiven
<1>3. ProfileTypes'
    BY <1>1, <1>2 DEF ProfileTypes, Works, PurseGiven
<1>4. OnlyRun(r)
    BY <1>2 DEF OnlyRun, Works, PurseGiven, Counted
<1>5. main[r].deadline # 0
    BY DEF Works, Profiles!Alive
<1>6. Funded(r)'
    BY <1>5 DEF Funded, Works
<1>7. Started(r)'
    BY <1>1 DEF RunOk, Started, Works
<1>8. \A opinions : Heard(r, opinions) => Heard(r, opinions)'
  <2>1. \A q \in Profiles!Threads[r] : worker[r][q].at = "done" => worker'[r][q] = worker[r][q]
      BY <1>2 DEF Works
  <2> QED
      BY <2>1, HeardStays
<1>9. Collected(r)'
    BY <1>1, <1>8 DEF RunOk, Collected, Works, Profiles!AllCollected, Profiles!Cardinality
<1>10. Told(r)' <=> Told(r)
    BY DEF Told, Works
<1>11. Ready(r) => Ready(r)'
    BY <1>8 DEF Ready, Works
<1>12. Stopped(r) => Stopped(r)'
    BY DEF Stopped, Raised, Counted, Works
<1>13. Reported(r)'
    BY <1>1, <1>10, <1>11, <1>12 DEF RunOk, Reported, Works
<1> QED
    BY <1>3, <1>4, <1>6, <1>7, <1>9, <1>13, RunStep DEF RunOk

\* A charge fits, or it leaves the reason of the cap.
LEMMA ReserveStep ==
    ASSUME ProfilesInv, NEW r \in Run, NEW p \in Profiles!Threads[r], NEW paid \in Hand,
           NEW refused \in Hand, Profiles!Alive(r), worker[r][p].at # "done",
           Profiles!Reserve(r, p, paid, refused),
           UNCHANGED <<now, policy, profilesEvents, evaluation, main, gathered, report, called>>
    PROVE  ProfilesInv'
<1> DEFINE next == budget[r].tokens + worker[r][p].owes
<1>1. ProfileTypes /\ budget[r].tokens <= budget[r].max
    BY DEF ProfilesInv, RunOk, Funded
<1>2. next \in Nat
  <2>1. worker[r][p] \in Hand
      BY <1>1 DEF ProfileTypes
  <2>2. worker[r][p].owes \in Nat
      BY <2>1, ProfilesBounds DEF Hand
  <2>3. budget[r].tokens \in Nat
      BY <1>1 DEF ProfileTypes, Purse
  <2> QED
      BY <2>2, <2>3
<1>3. \/ /\ next <= budget[r].max /\ budget' = [budget EXCEPT ![r].tokens = next]
         /\ Profiles!Step(r, p, paid)
      \/ budget' = [budget EXCEPT ![r].cap = TRUE] /\ Profiles!Step(r, p, refused)
    BY DEF Profiles!Reserve
<1> HIDE DEF next
<1>4. CASE next <= budget[r].max /\ budget' = [budget EXCEPT ![r].tokens = next] /\ Profiles!Step(r, p, paid)
  <2>1. /\ PurseGiven(r) /\ budget'[r].tokens = next /\ budget'[r].max = budget[r].max
        /\ budget'[r].policyMax = budget[r].policyMax /\ (budget'[r].cap <=> budget[r].cap)
      BY <1>1, <1>2, <1>4, PursePaid
  <2>2. Works(r, p)
      BY <1>4, <2>1 DEF Works
  <2> QED
      BY <1>4, <2>2, WorkerStep
<1>5. CASE budget' = [budget EXCEPT ![r].cap = TRUE] /\ Profiles!Step(r, p, refused)
  <2>1. Works(r, p)
      BY <1>1, <1>2, <1>5, PurseCapped DEF Works
  <2> QED
      BY <1>5, <2>1, WorkerStep
<1> QED
    BY <1>3, <1>4, <1>5

\* The opinions of the workers, and what they owe.
LEMMA HandsAre ==
    ASSUME NEW opinion \in Profiles!Opinions, NEW owes \in {0, 1} \cup 1..MaxTokens,
           NEW place \in {"waiting", "looked", "ready", "calling", "answered", "charging", "done", "failed"}
    PROVE  [at |-> place, owes |-> owes, opinion |-> opinion] \in Hand
<1>1. owes \in 0..(MaxTokens + 1)
    BY ProfilesBounds
<1> QED
    BY <1>1 DEF Hand

LEMMA WorkersStep ==
    ASSUME ProfilesInv, NEW r \in Run, NEW p \in Profiles!Threads[r],
           \/ Profiles!LookBeforeEstimate(r, p) \/ Profiles!Estimate(r, p) \/ Profiles!Invoke(r, p)
           \/ Profiles!Provider(r, p) \/ Profiles!LookBeforeCharge(r, p) \/ Profiles!Charge(r, p)
    PROVE  ProfilesInv'
<1> DEFINE h == worker[r][p]
           waiting(place, owes) == [at |-> place, owes |-> owes, opinion |-> Profiles!NoOpinion]
<1>1. ProfileTypes /\ RunOk(r)
    BY DEF ProfilesInv
<1>2. /\ h \in Hand /\ h.opinion \in Profiles!Opinions
      /\ \A place \in {"calling", "charging"} : [h EXCEPT !.at = place] \in Hand
  <2>1. h \in Hand
      BY <1>1 DEF ProfileTypes
  <2> HIDE DEF h
  <2> QED
      BY <2>1 DEF Hand
<1>3. \A opinion \in Profiles!Opinions : Profiles!Answer(opinion) \in Hand
    BY HandsAre DEF Profiles!Answer
<1>4. Local \in Profiles!Opinions /\ Replies \subseteq Profiles!Opinions
      /\ Profiles!NoOpinion \in Profiles!Opinions
    BY DEF Profiles!Opinions
<1>5. \A place \in {"looked", "ready", "failed"}, owes \in {0, 1} : waiting(place, owes) \in Hand
    BY <1>4, HandsAre
<1>6. ASSUME Profiles!Alive(r), h.at # "done", budget' = budget, called' = called \/ called' = called \cup {r},
             UNCHANGED <<now, policy, profilesEvents, evaluation, main, gathered, report>>
      PROVE  Works(r, p)
    BY <1>1, <1>6 DEF Works, PurseGiven, RunOk, Funded, ProfileTypes
<1>7. CASE Profiles!LookBeforeEstimate(r, p)
  <2>1. \E place \in {"looked", "failed"} : Profiles!Step(r, p, waiting(place, 1))
    <3>1. Profiles!Step(r, p, [Profiles!Waiting EXCEPT
              !.at = IF budget[r].closed THEN "failed" ELSE "looked", !.owes = 1])
        BY <1>7 DEF Profiles!LookBeforeEstimate
    <3>2. /\ [Profiles!Waiting EXCEPT !.at = "looked", !.owes = 1] = waiting("looked", 1)
          /\ [Profiles!Waiting EXCEPT !.at = "failed", !.owes = 1] = waiting("failed", 1)
      <4>1. /\ [Profiles!Waiting EXCEPT !.at = "looked"] = waiting("looked", 0)
            /\ [Profiles!Waiting EXCEPT !.at = "failed"] = waiting("failed", 0)
          BY DEF Profiles!Waiting
      <4>2. \A place \in {"looked", "failed"} : [waiting(place, 0) EXCEPT !.owes = 1] = waiting(place, 1)
          OBVIOUS
      <4> HIDE DEF waiting
      <4> QED
          BY <4>1, <4>2
    <3>3. CASE budget[r].closed
        BY <3>1, <3>2, <3>3
    <3>4. CASE ~budget[r].closed
        BY <3>1, <3>2, <3>4
    <3> QED
        BY <3>3, <3>4
  <2>2. Works(r, p)
      BY <1>6, <1>7 DEF Profiles!LookBeforeEstimate, Profiles!safety
  <2> QED
      BY <1>5, <2>1, <2>2, WorkerStep
<1>8. CASE Profiles!Estimate(r, p)
  <2>1. Profiles!Reserve(r, p, waiting("ready", 0), waiting("failed", 0))
      BY <1>8 DEF Profiles!Estimate, Profiles!Waiting
  <2>2. /\ Profiles!Alive(r) /\ h.at # "done"
        /\ UNCHANGED <<now, policy, profilesEvents, evaluation, main, gathered, report, called>>
      BY <1>8 DEF Profiles!Estimate, Profiles!safety
  <2> QED
      BY <1>5, <2>1, <2>2, ReserveStep
<1>9. CASE Profiles!Invoke(r, p)
  <2>1. Profiles!Step(r, p, [h EXCEPT !.at = "calling"]) \/ Profiles!Step(r, p, Profiles!Answer(Local))
      BY <1>9 DEF Profiles!Invoke
  <2>2. Works(r, p)
      BY <1>6, <1>9 DEF Profiles!Invoke, Profiles!safety
  <2> QED
      BY <1>2, <1>3, <1>4, <2>1, <2>2, WorkerStep
<1>10. CASE Profiles!Provider(r, p)
  <2>1. \/ Profiles!Step(r, p, Profiles!Answer(Local))
        \/ \E reply \in Replies, used \in 1..MaxTokens :
              Profiles!Step(r, p, [at |-> "answered", owes |-> used, opinion |-> reply])
      BY <1>10 DEF Profiles!Provider
  <2>2. Works(r, p)
      BY <1>6, <1>10 DEF Profiles!Provider, Profiles!safety
  <2>3. \A reply \in Replies, used \in 1..MaxTokens :
            [at |-> "answered", owes |-> used, opinion |-> reply] \in Hand
      BY <1>4, HandsAre
  <2> QED
      BY <1>3, <1>4, <2>1, <2>2, <2>3, WorkerStep
<1>11. CASE Profiles!LookBeforeCharge(r, p)
  <2>1. Profiles!Step(r, p, Profiles!Answer(Local)) \/ Profiles!Step(r, p, [h EXCEPT !.at = "charging"])
      BY <1>11 DEF Profiles!LookBeforeCharge
  <2>2. Works(r, p)
      BY <1>6, <1>11 DEF Profiles!LookBeforeCharge, Profiles!safety
  <2> QED
      BY <1>2, <1>3, <1>4, <2>1, <2>2, WorkerStep
<1>12. CASE Profiles!Charge(r, p)
  <2>1. /\ Profiles!Reserve(r, p, Profiles!Answer(h.opinion), Profiles!Answer(Local))
        /\ Profiles!Alive(r) /\ h.at # "done"
        /\ UNCHANGED <<now, policy, profilesEvents, evaluation, main, gathered, report, called>>
      BY <1>12 DEF Profiles!Charge, Profiles!safety
  <2> QED
      BY <1>2, <1>3, <1>4, <2>1, ReserveStep
<1> QED
    BY <1>7, <1>8, <1>9, <1>10, <1>11, <1>12

\* The main thread of r goes on; the others stay where they are.
MainGiven(r) == main' \in [Run -> MainThread] /\ \A t \in Run : t # r => main'[t] = main[t]
MainPlaces == {"idle", "allowed", "routing", "collecting", "closed", "reporting", "completing", "saving",
               "done", "dead"}

LEMMA MainIs ==
    ASSUME NEW r \in Run, ProfileTypes, NEW m \in MainThread, main' = [main EXCEPT ![r] = m]
    PROVE  MainGiven(r) /\ main'[r] = m
BY DEF ProfileTypes, MainGiven

LEMMA MainGoes ==
    ASSUME NEW r \in Run, ProfileTypes, NEW place \in MainPlaces, Profiles!Goto(r, place)
    PROVE  /\ MainGiven(r) /\ main'[r].at = place /\ main'[r].blocked = main[r].blocked
           /\ main'[r].deadline = main[r].deadline /\ main'[r].verdict = main[r].verdict
           /\ main'[r].read = main[r].read
<1> DEFINE m == main[r]
           gone == [m EXCEPT !.at = place]
<1>1. m \in MainThread /\ main' = [main EXCEPT ![r] = gone]
    BY DEF ProfileTypes, Profiles!Goto
<1> HIDE DEF m
<1>2. /\ gone \in MainThread /\ gone.at = place /\ gone.blocked = m.blocked /\ gone.read = m.read
      /\ gone.deadline = m.deadline /\ gone.verdict = m.verdict
    BY <1>1 DEF MainThread, MainPlaces
<1> HIDE DEF gone
<1> QED
    BY <1>1, <1>2, MainIs DEF m

LEMMA MainBlocked ==
    ASSUME NEW r \in Run, ProfileTypes, NEW reason \in {"circuit_open", "blocked"},
           main' = [main EXCEPT ![r].at = "routing", ![r].blocked = reason]
    PROVE  /\ MainGiven(r) /\ main'[r].at = "routing" /\ main'[r].blocked = reason
           /\ main'[r].deadline = main[r].deadline
<1> DEFINE m == main[r]
           gone == [m EXCEPT !.at = "routing", !.blocked = reason]
<1>1. m \in MainThread /\ main' = [main EXCEPT ![r] = gone]
    BY DEF ProfileTypes
<1> HIDE DEF m
<1>2. /\ gone \in MainThread /\ gone.at = "routing" /\ gone.blocked = reason
      /\ gone.deadline = m.deadline
    BY <1>1 DEF MainThread
<1> HIDE DEF gone
<1> QED
    BY <1>1, <1>2, MainIs DEF m

LEMMA MainFansOut ==
    ASSUME NEW r \in Run, ProfileTypes, NEW n \in Nat,
           main' = [main EXCEPT ![r].at = "collecting", ![r].deadline = n]
    PROVE  /\ MainGiven(r) /\ main'[r].at = "collecting" /\ main'[r].blocked = main[r].blocked
           /\ main'[r].deadline = n
<1> DEFINE m == main[r]
           gone == [m EXCEPT !.at = "collecting", !.deadline = n]
<1>1. m \in MainThread /\ main' = [main EXCEPT ![r] = gone]
    BY DEF ProfileTypes
<1> HIDE DEF m
<1>2. /\ gone \in MainThread /\ gone.at = "collecting" /\ gone.blocked = m.blocked
      /\ gone.deadline = n
    BY <1>1 DEF MainThread
<1> HIDE DEF gone
<1> QED
    BY <1>1, <1>2, MainIs DEF m

HasRead(r, n, read, verdict) ==
    main' = [main EXCEPT ![r].at = "completing", ![r].tokens = n, ![r].read = read,
                         ![r].verdict = verdict]

LEMMA MainReads ==
    ASSUME NEW r \in Run, ProfileTypes, NEW n \in Nat, NEW verdict \in {"capped", "completed"},
           NEW read \in [threshold : Nat, tokens : Nat], HasRead(r, n, read, verdict)
    PROVE  /\ MainGiven(r) /\ main'[r].at = "completing" /\ main'[r].blocked = main[r].blocked
           /\ main'[r].deadline = main[r].deadline /\ main'[r].read = read
           /\ main'[r].verdict = verdict
<1> DEFINE m == main[r]
           gone == [m EXCEPT !.at = "completing", !.tokens = n, !.read = read, !.verdict = verdict]
<1>1. m \in MainThread /\ main' = [main EXCEPT ![r] = gone]
    BY DEF ProfileTypes, HasRead
<1> HIDE DEF m
<1>2. /\ gone \in MainThread /\ gone.at = "completing" /\ gone.blocked = m.blocked
      /\ gone.deadline = m.deadline /\ gone.read = read /\ gone.verdict = verdict
    BY <1>1 DEF MainThread
<1> HIDE DEF gone
<1> QED
    BY <1>1, <1>2, MainIs DEF m

\* The main thread takes a step; its workers and what was collected stay.
Advances(r) ==
    /\ MainGiven(r) /\ PurseGiven(r)
    /\ budget'[r].tokens = budget[r].tokens /\ budget'[r].tokens <= budget'[r].max
    /\ (budget'[r].cap <=> budget[r].cap)
    /\ main'[r].deadline = 0 => main[r].deadline = 0
    /\ UNCHANGED <<now, worker, gathered, called>>

\* What the tables of the evaluations say of the other runs stays.
RecordsGiven(r) ==
    /\ policy' \in PolicyRow /\ profilesEvents' \in Seq(CircuitEvent)
    /\ evaluation' \in [Run -> EvaluationRow] /\ \A t \in Run : t # r => evaluation'[t] = evaluation[t]
    /\ \A t \in Run : Counted(t) => Counted(t)'
RecordsRest == UNCHANGED <<policy, profilesEvents, evaluation>>
ReportGiven(r) == DOMAIN report' = Run /\ \A t \in Run : t # r => report'[t] = report[t]

LEMMA RecordsAre ==
    ASSUME ProfileTypes, RecordsRest, NEW r \in Run
    PROVE  RecordsGiven(r)
BY DEF ProfileTypes, RecordsRest, RecordsGiven, Counted

LEMMA ReportIs ==
    ASSUME ProfileTypes, NEW r \in Run, NEW row, report' = [report EXCEPT ![r] = row]
    PROVE  ReportGiven(r) /\ report'[r] = row
BY DEF ProfileTypes, ReportGiven

LEMMA ReportRests ==
    ASSUME ProfileTypes, NEW r \in Run, report' = report
    PROVE  ReportGiven(r)
BY DEF ProfileTypes, ReportGiven

LEMMA HeardRests ==
    ASSUME UNCHANGED worker, NEW r \in Run, NEW opinions
    PROVE  Heard(r, opinions)' <=> Heard(r, opinions)
BY DEF Heard

\* An event more: what was counted stays counted.
CountedBefore(e) ==
    /\ profilesEvents' \in Seq(CircuitEvent)
    /\ \A t \in Run : (Counted(t) \/ e.run = t) => Counted(t)'

LEMMA EventAdded ==
    ASSUME ProfileTypes, NEW e \in CircuitEvent, profilesEvents' = Append(profilesEvents, e)
    PROVE  CountedBefore(e)
<1> DEFINE n == Len(profilesEvents)
<1>1. profilesEvents \in Seq(CircuitEvent) /\ n \in Nat
    BY DEF ProfileTypes
<1>2. /\ profilesEvents' \in Seq(CircuitEvent) /\ Len(profilesEvents') = n + 1
      /\ profilesEvents'[n + 1] = e /\ \A i \in 1..n : profilesEvents'[i] = profilesEvents[i]
    BY <1>1
<1>3. \A i \in 1..n : i \in 1..(n + 1)
    BY <1>1
<1>4. n + 1 \in 1..(n + 1)
    BY <1>1
<1> QED
    BY <1>2, <1>3, <1>4 DEF CountedBefore, Counted

\* What a step of the main thread leaves to be shown.
LEMMA MainStep ==
    ASSUME ProfilesInv, NEW r \in Run, Advances(r), RecordsGiven(r), ReportGiven(r), Started(r)',
           main'[r].at = "closed" /\ main'[r].blocked = "no" => Profiles!AllCollected(r),
           Reported(r)'
    PROVE  ProfilesInv'
<1>1. ProfileTypes /\ RunOk(r)
    BY DEF ProfilesInv
<1>2. ProfileTypes'
    BY <1>1 DEF ProfileTypes, Advances, MainGiven, PurseGiven, RecordsGiven, ReportGiven
<1>3. OnlyRun(r)
    BY DEF OnlyRun, Advances, MainGiven, PurseGiven, RecordsGiven, ReportGiven
<1>4. Funded(r)'
    BY <1>1 DEF RunOk, Funded, Advances
<1>5. \A opinions : Heard(r, opinions) => Heard(r, opinions)'
    BY HeardRests DEF Advances
<1>6. Collected(r)'
    BY <1>1, <1>5 DEF RunOk, Collected, Advances, Profiles!AllCollected, Profiles!Cardinality
<1> QED
    BY <1>2, <1>3, <1>4, <1>6, RunStep DEF RunOk

\* Nothing was reported before the run is closed.
LEMMA NothingToldYet ==
    ASSUME NEW r \in Run, RunOk(r), main[r].at \notin Composed \cup {"dead"},
           main'[r].at \notin Composed \cup {"dead"}, report' = report
    PROVE  Reported(r)'
<1>1. report[r] = Profiles!NoReport
    BY DEF RunOk, Reported, Told
<1> QED
    BY <1>1 DEF Reported, Told

LEMMA AskStep ==
    ASSUME ProfilesInv, NEW r \in Run, Profiles!Ask(r)
    PROVE  ProfilesInv'
<1>1. ProfileTypes /\ RunOk(r) /\ main[r].at = "idle" /\ main[r].deadline = 0
    BY DEF ProfilesInv, RunOk, Started, Profiles!Ask, Profiles!At
<1>2. /\ RecordsGiven(r) /\ ReportGiven(r) /\ UNCHANGED <<now, worker, gathered, called>>
      /\ report' = report
    BY <1>1, RecordsAre, ReportRests DEF Profiles!Ask, Profiles!safety, RecordsRest
<1>3. budget[r].tokens <= budget[r].max /\ budget[r].tokens = 0
    BY <1>1 DEF RunOk, Funded
<1>4. CASE /\ Profiles!Goto(r, "allowed")
           /\ budget' = [budget EXCEPT ![r].max = policy.tokens, ![r].policyMax = policy.tokens]
  <2>1. /\ MainGiven(r) /\ main'[r].at = "allowed" /\ main'[r].blocked = main[r].blocked
        /\ main'[r].deadline = main[r].deadline
      BY <1>1, <1>4, MainGoes DEF MainPlaces
  <2>2. policy.tokens \in Nat
      BY <1>1, ProfilesBounds DEF ProfileTypes, PolicyRow
  <2>3. /\ PurseGiven(r) /\ budget'[r].tokens = budget[r].tokens /\ budget'[r].max = policy.tokens
        /\ (budget'[r].cap <=> budget[r].cap)
      BY <1>1, <1>4, <2>2, PurseAllowed
  <2>4. Advances(r)
      BY <1>1, <1>2, <1>3, <2>1, <2>2, <2>3 DEF Advances
  <2>5. Started(r)'
      BY <1>1, <2>1 DEF Started
  <2>6. Reported(r)'
      BY <1>1, <1>2, <2>1, NothingToldYet DEF Composed
  <2> QED
      BY <1>2, <2>1, <2>4, <2>5, <2>6, MainStep
<1>5. CASE /\ \E reason \in {"circuit_open", "blocked"} :
                main' = [main EXCEPT ![r].at = "routing", ![r].blocked = reason]
           /\ UNCHANGED budget
  <2>1. /\ MainGiven(r) /\ main'[r].at = "routing" /\ main'[r].blocked # "no"
        /\ main'[r].deadline = main[r].deadline
      BY <1>1, <1>5, MainBlocked
  <2>2. PurseGiven(r)
      BY <1>1, <1>5 DEF ProfileTypes, PurseGiven
  <2>3. Advances(r)
      BY <1>1, <1>2, <1>3, <1>5, <2>1, <2>2 DEF Advances
  <2>4. Started(r)'
      BY <1>1, <2>1 DEF Started
  <2>5. Reported(r)'
      BY <1>1, <1>2, <2>1, NothingToldYet DEF Composed
  <2> QED
      BY <1>2, <2>1, <2>3, <2>4, <2>5, MainStep
<1> QED
    BY <1>4, <1>5 DEF Profiles!Ask

\* A step of the main thread that leaves the budget alone.
LEMMA PurseRests ==
    ASSUME ProfilesInv, NEW r \in Run, UNCHANGED budget, MainGiven(r),
           main'[r].deadline = main[r].deadline, UNCHANGED <<now, worker, gathered, called>>
    PROVE  Advances(r)
BY DEF ProfilesInv, ProfileTypes, RunOk, Funded, PurseGiven, Advances

LEMMA RegisterStep ==
    ASSUME ProfilesInv, NEW r \in Run, Profiles!Register(r)
    PROVE  ProfilesInv'
<1>1. ProfileTypes /\ RunOk(r) /\ main[r].at = "allowed" /\ main[r].deadline = 0
    BY DEF ProfilesInv, RunOk, Started, Profiles!Register, Profiles!At
<1>2. /\ ReportGiven(r) /\ UNCHANGED <<now, budget, worker, gathered, called, policy, profilesEvents>>
      /\ report' = report
    BY <1>1, ReportRests DEF Profiles!Register, Profiles!threads
<1>3. CASE /\ evaluation' = [evaluation EXCEPT ![r] = [status |-> "shadow_only", started |-> now]]
           /\ Profiles!Goto(r, "routing")
  <2>1. /\ MainGiven(r) /\ main'[r].at = "routing" /\ main'[r].deadline = main[r].deadline
        /\ main'[r].blocked = main[r].blocked
      BY <1>1, <1>3, MainGoes DEF MainPlaces
  <2>2. Advances(r)
      BY <1>2, <2>1, PurseRests
  <2>3. [status |-> "shadow_only", started |-> now] \in EvaluationRow
      BY <1>1 DEF ProfileTypes, EvaluationRow
  <2>4. /\ evaluation' \in [Run -> EvaluationRow] /\ evaluation'[r].status = "shadow_only"
        /\ \A t \in Run : t # r => evaluation'[t] = evaluation[t]
      BY <1>1, <1>3, <2>3 DEF ProfileTypes
  <2>5. RecordsGiven(r)
      BY <1>1, <1>2, <2>4 DEF ProfileTypes, RecordsGiven, Counted
  <2>6. Started(r)'
      BY <1>1, <2>1, <2>4 DEF Started
  <2>7. Reported(r)'
      BY <1>1, <1>2, <2>1, NothingToldYet DEF Composed
  <2> QED
      BY <1>2, <2>1, <2>2, <2>5, <2>6, <2>7, MainStep
<1>4. CASE main' = [main EXCEPT ![r].at = "routing", ![r].blocked = "blocked"] /\ UNCHANGED evaluation
  <2>1. /\ MainGiven(r) /\ main'[r].at = "routing" /\ main'[r].blocked # "no"
        /\ main'[r].deadline = main[r].deadline
      BY <1>1, <1>4, MainBlocked
  <2>2. Advances(r)
      BY <1>2, <2>1, PurseRests
  <2>3. RecordsGiven(r)
      BY <1>1, <1>2, <1>4, RecordsAre DEF RecordsRest
  <2>4. Started(r)'
      BY <1>1, <2>1 DEF Started
  <2>5. Reported(r)'
      BY <1>1, <1>2, <2>1, NothingToldYet DEF Composed
  <2> QED
      BY <1>2, <2>1, <2>2, <2>3, <2>4, <2>5, MainStep
<1> QED
    BY <1>3, <1>4 DEF Profiles!Register

LEMMA FanOutStep ==
    ASSUME ProfilesInv, NEW r \in Run, Profiles!FanOut(r)
    PROVE  ProfilesInv'
<1> DEFINE n == IF Profiles!MayFanOut(r) THEN now + Runtime ELSE 0
<1>1. /\ ProfileTypes /\ RunOk(r) /\ main[r].at = "routing" /\ main[r].deadline = 0
      /\ main[r].blocked = "no" => evaluation[r].status # "none"
    BY DEF ProfilesInv, RunOk, Started, Profiles!FanOut, Profiles!At
<1>2. n \in Nat /\ (main[r].blocked # "no" => n = 0)
    BY <1>1, ProfilesBounds DEF ProfileTypes, Profiles!MayFanOut
<1>3. main' = [main EXCEPT ![r].at = "collecting", ![r].deadline = n]
    BY DEF Profiles!FanOut
<1> HIDE DEF n
<1>4. /\ MainGiven(r) /\ main'[r].at = "collecting" /\ main'[r].blocked = main[r].blocked
      /\ main'[r].deadline = n
    BY <1>1, <1>2, <1>3, MainFansOut
<1>5. /\ RecordsGiven(r) /\ ReportGiven(r) /\ UNCHANGED <<now, budget, worker, gathered, called>>
      /\ report' = report /\ evaluation' = evaluation
    BY <1>1, RecordsAre, ReportRests
    DEF Profiles!FanOut, Profiles!safety, Profiles!threads, RecordsRest
<1>6. Advances(r)
    BY <1>1, <1>4, <1>5 DEF ProfileTypes, RunOk, Funded, PurseGiven, Advances
<1>7. Started(r)'
    BY <1>1, <1>2, <1>4, <1>5 DEF Started
<1>8. Reported(r)'
    BY <1>1, <1>4, <1>5, NothingToldYet DEF Composed
<1> QED
    BY <1>4, <1>5, <1>6, <1>7, <1>8, MainStep

LEMMA CloseStep ==
    ASSUME ProfilesInv, NEW r \in Run, Profiles!Close(r)
    PROVE  ProfilesInv'
<1>1. ProfileTypes /\ RunOk(r) /\ main[r].at = "collecting"
    BY DEF ProfilesInv, Profiles!Close, Profiles!At
<1>2. /\ MainGiven(r) /\ main'[r].at = "closed" /\ main'[r].blocked = main[r].blocked
      /\ main'[r].deadline = main[r].deadline
    BY <1>1, MainGoes DEF Profiles!Close, MainPlaces
<1>3. /\ PurseGiven(r) /\ budget'[r].tokens = budget[r].tokens /\ budget'[r].max = budget[r].max
      /\ (budget'[r].cap <=> budget[r].cap)
    BY <1>1, PurseShut DEF Profiles!Close
<1>4. /\ RecordsGiven(r) /\ ReportGiven(r) /\ UNCHANGED <<now, worker, gathered, called>>
      /\ report' = report /\ evaluation' = evaluation
    BY <1>1, RecordsAre, ReportRests DEF Profiles!Close, Profiles!safety, RecordsRest
<1>5. Advances(r)
    BY <1>1, <1>2, <1>3, <1>4 DEF RunOk, Funded, Advances
<1>6. Started(r)'
    BY <1>1, <1>2, <1>4 DEF RunOk, Started
<1>7. main'[r].blocked = "no" => Profiles!AllCollected(r)
    BY <1>2 DEF Profiles!Close, Profiles!MayFanOut
<1>8. Reported(r)'
    BY <1>1, <1>2, <1>4, NothingToldYet DEF Composed
<1> QED
    BY <1>4, <1>5, <1>6, <1>7, <1>8, MainStep

\* The answer of the next profile is collected, or what it failed with.
LEMMA CollectStep ==
    ASSUME ProfilesInv, NEW r \in Run, Profiles!Collect(r)
    PROVE  ProfilesInv'
<1> DEFINE had == gathered[r]
           p == Profiles!Next1(r)
           heard == [had EXCEPT !.opinions = Append(@, Profiles!Filtered(p, worker[r][p].opinion))]
           failed == [had EXCEPT !.errors = @ \cup {p}]
<1>1. ProfileTypes /\ RunOk(r) /\ main[r].at = "collecting" /\ ~Profiles!AllCollected(r)
    BY DEF ProfilesInv, Profiles!Collect, Profiles!At
<1>2. /\ UNCHANGED <<now, policy, profilesEvents, evaluation, main, budget, worker, called, report>>
      /\ \/ worker[r][p].at = "done" /\ gathered' = [gathered EXCEPT ![r] = heard]
         \/ gathered' = [gathered EXCEPT ![r] = failed]
    BY DEF Profiles!Collect, Profiles!safety, Profiles!threads, Profiles!Failure
<1>3. DOMAIN had = {"opinions", "errors"} /\ DOMAIN gathered = Run
    BY <1>1 DEF ProfileTypes
<1>4. /\ DOMAIN gathered' = Run /\ \A t \in Run : t # r => gathered'[t] = gathered[t]
      /\ \/ worker[r][p].at = "done" /\ gathered'[r] = heard
         \/ gathered'[r] = failed
  <2> HIDE DEF heard, failed
  <2> QED
      BY <1>2, <1>3
<1>5. /\ DOMAIN heard = {"opinions", "errors"} /\ heard.errors = had.errors
      /\ heard.opinions = Append(had.opinions, Profiles!Filtered(p, worker[r][p].opinion))
      /\ DOMAIN failed = {"opinions", "errors"} /\ failed.errors # {}
    BY <1>3
<1>6. ASSUME had.errors = {}, worker[r][p].at = "done" PROVE Heard(r, heard.opinions)
  <2> DEFINE o == had.opinions
             n == Len(o) + 1
             answer == Profiles!Filtered(Asked[r][n], worker[r][Asked[r][n]].opinion)
  <2>1. Heard(r, o)
      BY <1>1, <1>6 DEF RunOk, Collected
  <2>2. Len(o) \in Nat /\ Len(Asked[r]) \in Nat /\ Len(o) <= Len(Asked[r]) /\ o \in Seq(Results)
      BY <2>1, ProfilesBounds DEF Heard
  <2>3. Profiles!Cardinality(had.errors) = 0
    <3>1. Cardinality({}) = 0
        BY FS_EmptySet
    <3>2. Profiles!Cardinality({}) = Cardinality({})
        BY DEF Cardinality, Profiles!Cardinality
    <3> QED
        BY <1>6, <3>1, <3>2
  <2>4. p = Asked[r][n] /\ Len(o) # Len(Asked[r])
      BY <1>1, <2>2, <2>3 DEF Profiles!Next1, Profiles!AllCollected
  <2>5. n \in 1..Len(Asked[r])
      BY <2>2, <2>4
  <2>6. answer \in Results
    <3>1. Asked[r][n] \in STRING /\ Asked[r][n] \in Profiles!Threads[r]
        BY <2>5, ProfilesBounds, ThreadsAre
    <3>2. worker[r][Asked[r][n]] \in Hand
        BY <1>1, <3>1 DEF ProfileTypes
    <3>3. worker[r][Asked[r][n]].opinion \in Profiles!Opinions
        BY <3>2 DEF Hand
    <3> QED
        BY <3>1, <3>3 DEF Results
  <2>7. heard.opinions = Append(o, answer)
      BY <1>5, <2>4
  <2> HIDE DEF answer, heard, o, p
  <2>8. /\ Append(o, answer) \in Seq(Results) /\ Len(Append(o, answer)) = n
        /\ \A i \in 1..n : Append(o, answer)[i] = IF i = n THEN answer ELSE o[i]
      BY <2>2, <2>6
  <2>9. \A i \in 1..Len(o) : worker[r][Asked[r][i]].at = "done"
                            /\ o[i] = Profiles!Filtered(Asked[r][i], worker[r][Asked[r][i]].opinion)
      BY <2>1 DEF Heard
  <2>10. \A i \in 1..n : i = n \/ i \in 1..Len(o)
      BY <2>2
  <2>11. \A i \in 1..n : /\ worker[r][Asked[r][i]].at = "done"
                         /\ Append(o, answer)[i] = Profiles!Filtered(Asked[r][i], worker[r][Asked[r][i]].opinion)
      BY <1>6, <2>2, <2>4, <2>8, <2>9, <2>10 DEF answer
  <2> QED
      BY <2>2, <2>5, <2>7, <2>8, <2>11 DEF Heard
<1>7. gathered'[r].errors = {} => Heard(r, gathered'[r].opinions)
  <2> HIDE DEF heard, failed
  <2> QED
      BY <1>4, <1>5, <1>6
<1>8. DOMAIN gathered'[r] = {"opinions", "errors"}
  <2> HIDE DEF heard, failed
  <2> QED
      BY <1>4, <1>5
<1>9. ProfileTypes'
    BY <1>1, <1>2, <1>4, <1>8 DEF ProfileTypes
<1>10. OnlyRun(r)
    BY <1>2, <1>4 DEF OnlyRun, Counted
<1>11. \A opinions : Heard(r, opinions)' <=> Heard(r, opinions)
    BY <1>2, HeardRests
<1>12. Collected(r)'
    BY <1>1, <1>2, <1>7, <1>11 DEF Collected
<1>13. Funded(r)' /\ Started(r)'
    BY <1>1, <1>2 DEF RunOk, Funded, Started
<1>14. Reported(r)'
    BY <1>1, <1>2, <1>11 DEF RunOk, Reported, Told, Ready, Stopped, Raised, Counted
<1> QED
    BY <1>9, <1>10, <1>12, <1>13, <1>14, RunStep DEF RunOk

\* A run that was blocked collected nothing, and was not stopped by a cap.
LEMMA BlockedIsEmpty ==
    ASSUME NEW r \in Run, RunOk(r), main[r].blocked # "no"
    PROVE  /\ ~budget[r].cap /\ r \notin called /\ budget[r].tokens = 0
           /\ gathered[r].errors = {} => gathered[r].opinions = <<>>
<1>1. main[r].deadline = 0
    BY DEF RunOk, Started
<1>2. /\ ~budget[r].cap /\ r \notin called /\ budget[r].tokens = 0
      /\ \A p \in Profiles!Threads[r] : worker[r][p].at = "waiting"
    BY <1>1 DEF RunOk, Funded
<1>3. ASSUME gathered[r].errors = {}, gathered[r].opinions # <<>> PROVE FALSE
  <2> DEFINE o == gathered[r].opinions
  <2>1. Heard(r, o)
      BY <1>3 DEF RunOk, Collected
  <2>2. o \in Seq(Results) /\ Len(o) \in Nat /\ Len(Asked[r]) \in Nat /\ Len(o) <= Len(Asked[r])
      BY <2>1, ProfilesBounds DEF Heard
  <2>3. Len(o) # 0
      BY <1>3, <2>2
  <2>4. 1 \in 1..Len(o) /\ 1 \in 1..Len(Asked[r])
      BY <2>2, <2>3
  <2>5. worker[r][Asked[r][1]].at = "done"
      BY <2>1, <2>4 DEF Heard
  <2>6. Asked[r][1] \in Profiles!Threads[r]
      BY <2>4, ThreadsAre
  <2> QED
      BY <1>2, <2>5, <2>6
<1> QED
    BY <1>2, <1>3

\* The result tells what was collected, and whether a cap stopped the run.
LEMMA ComposeStep ==
    ASSUME ProfilesInv, NEW r \in Run, Profiles!Compose(r)
    PROVE  ProfilesInv'
<1> DEFINE g == gathered[r]
           degraded == \E i \in 1..Len(g.opinions) : g.opinions[i].degraded
           outcome == IF g.errors # {} \/ g.opinions = <<>> \/ degraded THEN "degraded" ELSE "ready"
           stop == IF budget[r].cap THEN "capped"
                   ELSE IF main[r].blocked = "no" THEN "shadow_only" ELSE main[r].blocked
           review == Profiles!NeedsReview(g)
           row == [status |-> outcome, review |-> review, opinions |-> g.opinions, safety |-> stop,
                   telemetry |-> "ok", policyMax |-> budget[r].policyMax, saved |-> FALSE]
           place == IF evaluation[r].status = "none" THEN "saving" ELSE "reporting"
<1>1. ProfileTypes /\ RunOk(r) /\ main[r].at = "closed"
    BY DEF ProfilesInv, Profiles!Compose, Profiles!At
<1>2. /\ report' = [report EXCEPT ![r] = row] /\ Profiles!Goto(r, place)
      /\ UNCHANGED <<now, policy, profilesEvents, evaluation, budget, worker, called, gathered>>
    BY DEF Profiles!Compose, Profiles!safety, Profiles!threads
<1>3. place \in {"saving", "reporting"}
    OBVIOUS
<1>4. /\ MainGiven(r) /\ main'[r].at = place /\ main'[r].blocked = main[r].blocked
      /\ main'[r].deadline = main[r].deadline
    BY <1>1, <1>2, <1>3, MainGoes DEF MainPlaces
<1>5. ReportGiven(r) /\ report'[r] = row
  <2> HIDE DEF row
  <2> QED
      BY <1>1, <1>2, ReportIs
<1>6. Advances(r) /\ RecordsGiven(r)
    BY <1>1, <1>2, <1>4, PurseRests, RecordsAre DEF RecordsRest
<1>7. Started(r)'
    BY <1>1, <1>3, <1>4 DEF RunOk, Started
<1>8. Told(r)'
    BY <1>3, <1>4 DEF Told, Composed
<1>9. /\ DOMAIN row = ReportFields /\ ~row.saved /\ row.telemetry = "ok"
      /\ row.status = outcome /\ (row.review <=> review) /\ row.opinions = g.opinions
      /\ row.safety = stop /\ row.policyMax = budget[r].policyMax
  <2> HIDE DEF outcome, review, stop, g
  <2> QED
      BY DEF ReportFields
<1>10. outcome = "ready" =>
          /\ Heard(r, g.opinions) /\ Len(g.opinions) = Len(Asked[r])
          /\ review \/ ~Profiles!Contradictory(g.opinions)
  <2> SUFFICES ASSUME outcome = "ready"
               PROVE  /\ Heard(r, g.opinions) /\ Len(g.opinions) = Len(Asked[r])
                      /\ review \/ ~Profiles!Contradictory(g.opinions)
      OBVIOUS
  <2>1. g.errors = {} /\ g.opinions # <<>>
      OBVIOUS
  <2>2. Heard(r, g.opinions)
      BY <1>1, <2>1 DEF RunOk, Collected
  <2>3. main[r].blocked = "no"
      BY <1>1, <2>1, BlockedIsEmpty
  <2>4. Profiles!AllCollected(r)
      BY <1>1, <2>3 DEF RunOk, Collected
  <2>5. Profiles!Cardinality(g.errors) = 0
    <3>1. Cardinality({}) = 0
        BY FS_EmptySet
    <3>2. Profiles!Cardinality({}) = Cardinality({})
        BY DEF Cardinality, Profiles!Cardinality
    <3> QED
        BY <2>1, <3>1, <3>2
  <2>6. Len(g.opinions) \in Nat
      BY <2>2 DEF Heard
  <2>7. Len(g.opinions) = Len(Asked[r])
      BY <2>4, <2>5, <2>6 DEF Profiles!AllCollected
  <2>8. review \/ ~Profiles!Contradictory(g.opinions)
      BY DEF Profiles!NeedsReview
  <2> QED
      BY <2>2, <2>7, <2>8
<1>11. stop = "capped" => budget[r].cap /\ place = "reporting"
  <2>1. main[r].blocked # "capped"
      BY <1>1 DEF ProfileTypes, MainThread
  <2>2. budget[r].cap => main[r].blocked = "no"
      BY <1>1, BlockedIsEmpty
  <2>3. main[r].blocked = "no" => place = "reporting"
      BY <1>1 DEF RunOk, Started
  <2> QED
      BY <2>1, <2>2, <2>3
<1> HIDE DEF g, outcome, stop, review, row, place
<1>12. Ready(r)'
  <2>1. Heard(r, g.opinions)' <=> Heard(r, g.opinions)
      BY <1>2 DEF Heard, g
  <2>2. g' = g
      BY <1>2 DEF g
  <2> QED
      BY <1>5, <1>9, <1>10, <2>1, <2>2 DEF Ready
<1>13. stop = "capped" => Stopped(r)'
    BY <1>2, <1>4, <1>5, <1>9, <1>11 DEF Stopped
<1>14. Reported(r)'
    BY <1>5, <1>8, <1>9, <1>12, <1>13 DEF Reported
<1> QED
    BY <1>3, <1>4, <1>5, <1>6, <1>7, <1>14, MainStep

\* A change of one field that Ready does not read.
LEMMA FieldIs ==
    ASSUME ProfileTypes, NEW r \in Run, DOMAIN report[r] = ReportFields,
           NEW field \in {"telemetry", "saved"}, NEW v, report' = [report EXCEPT ![r][field] = v]
    PROVE  /\ ReportGiven(r) /\ DOMAIN report'[r] = ReportFields /\ report'[r][field] = v
           /\ \A f \in ReportFields : f # field => report'[r][f] = report[r][f]
<1> DEFINE row == [report[r] EXCEPT ![field] = v]
<1>1. report' = [report EXCEPT ![r] = row]
    OBVIOUS
<1>2. DOMAIN row = ReportFields /\ row[field] = v /\ \A f \in ReportFields : f # field => row[f] = report[r][f]
    BY DEF ReportFields
<1> HIDE DEF row
<1>3. ReportGiven(r) /\ report'[r] = row
    BY <1>1, ReportIs
<1> QED
    BY <1>2, <1>3

\* complete reads more tokens than the cap that stopped the run.
LEMMA ReadStep ==
    ASSUME ProfilesInv, NEW r \in Run, Profiles!ReadEvaluation(r)
    PROVE  ProfilesInv'
<1> DEFINE n == Profiles!ReportedTokens(r)
           reading == [threshold |-> policy.threshold, tokens |-> policy.tokens]
           verdict == IF now - evaluation[r].started > Runtime \/ n > policy.tokens
                      THEN "capped" ELSE "completed"
<1>1. ProfileTypes /\ RunOk(r) /\ main[r].at = "reporting" /\ Told(r)
    BY DEF ProfilesInv, Profiles!ReadEvaluation, Profiles!At, Told, Composed
<1>2. UNCHANGED <<now, policy, profilesEvents, evaluation, budget, worker, called, gathered>>
    BY DEF Profiles!ReadEvaluation, Profiles!safety, Profiles!threads
<1>3. RecordsGiven(r)
    BY <1>1, <1>2, RecordsAre DEF RecordsRest
<1>4. \A opinions : Heard(r, opinions)' <=> Heard(r, opinions)
    BY <1>2, HeardRests
<1>5. CASE HasRead(r, n, reading, verdict) /\ report' = report
  <2>1. policy.tokens \in Nat /\ policy.threshold \in Nat
    <3>1. policy.tokens \in {MaxTokens, MaxTokens + 1} /\ policy.threshold \in Thresholds
        BY <1>1 DEF ProfileTypes, PolicyRow
    <3>2. MaxTokens \in Nat /\ Thresholds \subseteq Nat
        BY ProfilesBounds
    <3>3. policy.threshold \in Nat
        BY <3>1, <3>2
    <3>4. policy.tokens \in Nat
        BY <3>1, <3>2
    <3> QED
        BY <3>3, <3>4
  <2>2. /\ budget[r] \in Purse /\ budget[r].tokens \in Nat /\ budget[r].policyMax \in Nat
      BY <1>1 DEF ProfileTypes, Purse
  <2>3. n \in Nat /\ (budget[r].cap => n > budget[r].policyMax)
      BY <2>2 DEF Profiles!ReportedTokens
  <2>4. verdict \in {"capped", "completed"} /\ reading \in [threshold : Nat, tokens : Nat]
        /\ reading.tokens = policy.tokens /\ (n > policy.tokens => verdict = "capped")
      BY <2>1
  <2> HIDE DEF n, reading, verdict
  <2>5. /\ MainGiven(r) /\ main'[r].at = "completing" /\ main'[r].blocked = main[r].blocked
        /\ main'[r].deadline = main[r].deadline /\ main'[r].read = reading
        /\ main'[r].verdict = verdict
      BY <1>1, <1>5, <2>3, <2>4, MainReads
  <2>6. Advances(r) /\ ReportGiven(r)
      BY <1>1, <1>2, <1>5, <2>5, PurseRests, ReportRests
  <2>7. Started(r)'
      BY <1>1, <2>5 DEF RunOk, Started
  <2>8. Stopped(r) => Stopped(r)'
    <3> SUFFICES ASSUME Stopped(r), policy.tokens <= report[r].policyMax PROVE verdict = "capped"
        BY <1>5, <2>4, <2>5 DEF Stopped, Raised
    <3>1. budget[r].cap /\ budget[r].policyMax = report[r].policyMax
        BY <1>1 DEF Stopped
    <3> QED
        BY <2>1, <2>2, <2>3, <2>4, <3>1
  <2>9. Told(r)' /\ (Ready(r) => Ready(r)')
      BY <1>4, <1>5, <2>5 DEF Told, Composed, Ready
  <2>10. Reported(r)'
      BY <1>1, <1>5, <2>5, <2>8, <2>9 DEF RunOk, Reported, Composed
  <2> QED
      BY <1>3, <2>5, <2>6, <2>7, <2>10, MainStep
<1>6. CASE Profiles!Goto(r, "saving") /\ report' = [report EXCEPT ![r].telemetry = "error"]
  <2>1. /\ MainGiven(r) /\ main'[r].at = "saving" /\ main'[r].deadline = main[r].deadline
        /\ main'[r].blocked = main[r].blocked
      BY <1>1, <1>6, MainGoes DEF MainPlaces
  <2>2. DOMAIN report[r] = ReportFields /\ Ready(r) /\ ~report[r].saved
      BY <1>1 DEF RunOk, Reported
  <2>3. /\ ReportGiven(r) /\ DOMAIN report'[r] = ReportFields /\ report'[r].telemetry = "error"
        /\ \A f \in ReportFields : f # "telemetry" => report'[r][f] = report[r][f]
      BY <1>1, <1>6, <2>2, FieldIs
  <2>4. /\ report'[r].status = report[r].status /\ report'[r].opinions = report[r].opinions
        /\ report'[r].review = report[r].review /\ report'[r].saved = report[r].saved
      BY <2>3 DEF ReportFields
  <2>5. Advances(r)
      BY <1>2, <2>1, PurseRests
  <2>6. Started(r)'
      BY <1>1, <2>1 DEF RunOk, Started
  <2>7. Told(r)' /\ Ready(r)'
      BY <1>4, <2>1, <2>2, <2>4 DEF Told, Composed, Ready
  <2>8. Reported(r)'
      BY <2>2, <2>3, <2>4, <2>7 DEF Reported
  <2> QED
      BY <1>3, <2>1, <2>3, <2>5, <2>6, <2>8, MainStep
<1> QED
    BY <1>5, <1>6 DEF Profiles!ReadEvaluation, HasRead

LEMMA CompleteStep ==
    ASSUME ProfilesInv, NEW r \in Run, Profiles!CompleteEvaluation(r)
    PROVE  ProfilesInv'
<1> DEFINE row == [evaluation[r] EXCEPT !.status = main[r].verdict]
           at == [at |-> now, run |-> r]
           until == IF Profiles!Recent >= main[r].read.threshold THEN now + OpenFor ELSE 0
<1>1. ProfileTypes /\ RunOk(r) /\ main[r].at = "completing" /\ Told(r)
    BY DEF ProfilesInv, Profiles!CompleteEvaluation, Profiles!At, Told, Composed
<1>2. /\ UNCHANGED <<now, budget, worker, called, gathered, report>>
      /\ evaluation' = [evaluation EXCEPT ![r] = row] /\ Profiles!Goto(r, "saving")
      /\ \/ /\ main[r].verdict = "capped" /\ profilesEvents' = Append(profilesEvents, at)
            /\ policy' = [policy EXCEPT !.openUntil = until]
         \/ main[r].verdict # "capped" /\ UNCHANGED <<profilesEvents, policy>>
    BY DEF Profiles!CompleteEvaluation, Profiles!threads, Profiles!Failed
<1>3. /\ MainGiven(r) /\ main'[r].at = "saving" /\ main'[r].deadline = main[r].deadline
      /\ main'[r].blocked = main[r].blocked /\ main'[r].read = main[r].read
    BY <1>1, <1>2, MainGoes DEF MainPlaces
<1>4. Advances(r) /\ ReportGiven(r)
    BY <1>1, <1>2, <1>3, PurseRests, ReportRests
<1>5. row \in EvaluationRow
  <2>1. evaluation[r] \in EvaluationRow /\ main[r].verdict \in {"none", "capped", "completed"}
      BY <1>1 DEF ProfileTypes, MainThread
  <2> QED
      BY <2>1 DEF EvaluationRow
<1>6. evaluation' \in [Run -> EvaluationRow] /\ \A t \in Run : t # r => evaluation'[t] = evaluation[t]
  <2> HIDE DEF row
  <2> QED
      BY <1>1, <1>2, <1>5 DEF ProfileTypes
<1>7. at \in CircuitEvent /\ at.run = r
    BY <1>1 DEF ProfileTypes, CircuitEvent
<1>8. until \in 0..(MaxTime + OpenFor)
    BY <1>1, ProfilesBounds DEF ProfileTypes
<1> HIDE DEF row, at, until
<1>9. /\ policy' \in PolicyRow /\ profilesEvents' \in Seq(CircuitEvent)
      /\ \A t \in Run : Counted(t) => Counted(t)'
      /\ main[r].verdict = "capped" => Counted(r)'
  <2>1. CASE /\ main[r].verdict = "capped" /\ profilesEvents' = Append(profilesEvents, at)
             /\ policy' = [policy EXCEPT !.openUntil = until]
    <3>1. policy' \in PolicyRow
        BY <1>1, <1>8, <2>1 DEF ProfileTypes, PolicyRow
    <3>2. CountedBefore(at)
        BY <1>1, <1>7, <2>1, EventAdded
    <3> QED
        BY <1>7, <3>1, <3>2 DEF CountedBefore
  <2>2. CASE main[r].verdict # "capped" /\ UNCHANGED <<profilesEvents, policy>>
      BY <1>1, <2>2 DEF ProfileTypes, Counted
  <2> QED
      BY <1>2, <2>1, <2>2
<1>10. RecordsGiven(r)
    BY <1>6, <1>9 DEF RecordsGiven
<1>11. Started(r)'
    BY <1>1, <1>3 DEF RunOk, Started
<1>12. Stopped(r) => Stopped(r)'
    BY <1>1, <1>2, <1>3, <1>9 DEF Stopped, Raised
<1>13. \A opinions : Heard(r, opinions)' <=> Heard(r, opinions)
    BY <1>2, HeardRests
<1>14. Told(r)' /\ (Ready(r) => Ready(r)')
    BY <1>2, <1>3, <1>13 DEF Told, Composed, Ready
<1>15. Reported(r)'
    BY <1>1, <1>2, <1>3, <1>12, <1>14 DEF RunOk, Reported, Composed
<1> QED
    BY <1>3, <1>4, <1>10, <1>11, <1>15, MainStep

LEMMA SaveStep ==
    ASSUME ProfilesInv, NEW r \in Run, Profiles!Save(r)
    PROVE  ProfilesInv'
<1>1. ProfileTypes /\ RunOk(r) /\ main[r].at = "saving" /\ Told(r)
    BY DEF ProfilesInv, Profiles!Save, Profiles!At, Told, Composed
<1>2. /\ UNCHANGED <<now, policy, profilesEvents, evaluation, budget, worker, called, gathered>>
      /\ Profiles!Goto(r, "done") /\ report' = [report EXCEPT ![r].saved = TRUE]
    BY DEF Profiles!Save, Profiles!safety, Profiles!threads
<1>3. /\ MainGiven(r) /\ main'[r].at = "done" /\ main'[r].deadline = main[r].deadline
      /\ main'[r].blocked = main[r].blocked /\ main'[r].read = main[r].read
    BY <1>1, <1>2, MainGoes DEF MainPlaces
<1>4. DOMAIN report[r] = ReportFields /\ Ready(r)
    BY <1>1 DEF RunOk, Reported
<1>5. /\ ReportGiven(r) /\ DOMAIN report'[r] = ReportFields
      /\ \A f \in ReportFields : f # "saved" => report'[r][f] = report[r][f]
    BY <1>1, <1>2, <1>4, FieldIs
<1>6. /\ report'[r].status = report[r].status /\ report'[r].opinions = report[r].opinions
      /\ report'[r].review = report[r].review /\ report'[r].safety = report[r].safety
      /\ report'[r].telemetry = report[r].telemetry /\ report'[r].policyMax = report[r].policyMax
    BY <1>5 DEF ReportFields
<1>7. Advances(r) /\ RecordsGiven(r)
    BY <1>1, <1>2, <1>3, PurseRests, RecordsAre DEF RecordsRest
<1>8. Started(r)'
    BY <1>1, <1>3 DEF RunOk, Started
<1>9. \A opinions : Heard(r, opinions)' <=> Heard(r, opinions)
    BY <1>2, HeardRests
<1>10. Told(r)' /\ Ready(r)'
    BY <1>3, <1>4, <1>6, <1>9 DEF Told, Composed, Ready
<1>11. Stopped(r) => Stopped(r)'
    BY <1>1, <1>2, <1>3, <1>6 DEF Stopped, Raised, Counted
<1>12. Reported(r)'
    BY <1>1, <1>3, <1>5, <1>6, <1>10, <1>11 DEF RunOk, Reported, Composed
<1> QED
    BY <1>3, <1>5, <1>7, <1>8, <1>12, MainStep

\* A process dies after what it reported, or before.
LEMMA DeathStep ==
    ASSUME ProfilesInv, NEW r \in Run, Profiles!Crash(r)
    PROVE  ProfilesInv'
<1>1. ProfileTypes /\ RunOk(r) /\ main[r].at # "done"
    BY DEF ProfilesInv, Profiles!Crash
<1>2. /\ UNCHANGED <<now, policy, profilesEvents, evaluation, budget, worker, called, gathered>>
      /\ Profiles!Goto(r, "dead") /\ report' = report
    BY DEF Profiles!Crash, Profiles!safety, Profiles!threads
<1>3. /\ MainGiven(r) /\ main'[r].at = "dead" /\ main'[r].deadline = main[r].deadline
      /\ main'[r].blocked = main[r].blocked
    BY <1>1, <1>2, MainGoes DEF MainPlaces
<1>4. Advances(r) /\ RecordsGiven(r) /\ ReportGiven(r)
    BY <1>1, <1>2, <1>3, PurseRests, RecordsAre, ReportRests DEF RecordsRest
<1>5. Started(r)'
    BY <1>1, <1>3 DEF RunOk, Started
<1>6. \A opinions : Heard(r, opinions)' <=> Heard(r, opinions)
    BY <1>2, HeardRests
<1>7. Reported(r)'
    BY <1>1, <1>2, <1>3, <1>6 DEF RunOk, Reported, Told, Composed, Ready
<1> QED
    BY <1>3, <1>4, <1>5, <1>7, MainStep

\* What others do: no run goes on, and what was counted stays counted.
Others ==
    /\ ProfileTypes' /\ (\A t \in Run : Counted(t) => Counted(t)')
    /\ \A t \in Run : evaluation'[t].status = "none" => evaluation[t].status = "none"
    /\ UNCHANGED <<main, budget, worker, gathered, report, called>>

LEMMA OthersStep ==
    ASSUME ProfilesInv, Others
    PROVE  ProfilesInv'
<1>1. ASSUME NEW r \in Run PROVE RunOk(r)'
  <2>1. Rests(r)
      BY DEF Others, Rests
  <2> QED
      BY <2>1, RestingIsOk DEF ProfilesInv
<1> QED
    BY <1>1 DEF Others, ProfilesInv

LEMMA OthersNext ==
    ASSUME ProfilesInv,
           \/ \E r \in Run : Profiles!CompleteByHand(r)
           \/ \E threshold \in Thresholds, tokens \in {MaxTokens, MaxTokens + 1} :
                Profiles!ConfigurePolicy(threshold, tokens)
           \/ Profiles!CappedElsewhere \/ Profiles!Tick
    PROVE  ProfilesInv'
<1>1. ProfileTypes
    BY DEF ProfilesInv
<1>2. ASSUME NEW r \in Run, Profiles!CompleteByHand(r) PROVE Others
  <2> DEFINE row == [evaluation[r] EXCEPT !.status = "completed"]
  <2>1. /\ UNCHANGED <<now, policy, profilesEvents, main, budget, worker, called, gathered, report>>
        /\ evaluation' = [evaluation EXCEPT ![r] = row]
      BY <1>2 DEF Profiles!CompleteByHand, Profiles!threads
  <2>2. row \in EvaluationRow /\ row.status = "completed"
    <3>1. evaluation[r] \in EvaluationRow
        BY <1>1 DEF ProfileTypes
    <3> QED
        BY <3>1 DEF EvaluationRow
  <2> HIDE DEF row
  <2>3. /\ evaluation' \in [Run -> EvaluationRow] /\ evaluation'[r] = row
        /\ \A t \in Run : t # r => evaluation'[t] = evaluation[t]
      BY <1>1, <2>1, <2>2 DEF ProfileTypes
  <2>4. ProfileTypes'
      BY <1>1, <2>1, <2>3 DEF ProfileTypes
  <2>5. \A t \in Run : evaluation'[t].status = "none" => evaluation[t].status = "none"
      BY <2>2, <2>3
  <2> QED
      BY <2>1, <2>4, <2>5 DEF Others, Counted
<1>3. ASSUME NEW threshold \in Thresholds, NEW tokens \in {MaxTokens, MaxTokens + 1},
             Profiles!ConfigurePolicy(threshold, tokens)
      PROVE  Others
  <2>1. /\ UNCHANGED <<now, profilesEvents, evaluation, main, budget, worker, called, gathered, report>>
        /\ policy' = [policy EXCEPT !.threshold = threshold, !.tokens = tokens]
      BY <1>3 DEF Profiles!ConfigurePolicy, Profiles!threads
  <2>2. policy' \in PolicyRow
      BY <1>1, <2>1 DEF ProfileTypes, PolicyRow
  <2>3. ProfileTypes'
      BY <1>1, <2>1, <2>2 DEF ProfileTypes
  <2> QED
      BY <2>1, <2>3 DEF Others, Counted
<1>4. ASSUME Profiles!CappedElsewhere PROVE Others
  <2> DEFINE e == [at |-> now, run |-> Profiles!Other]
             until == IF Profiles!Recent >= policy.threshold THEN now + OpenFor ELSE 0
  <2>1. /\ UNCHANGED <<now, evaluation, main, budget, worker, called, gathered, report>>
        /\ profilesEvents' = Append(profilesEvents, e)
        /\ policy' = [policy EXCEPT !.openUntil = until]
      BY <1>4 DEF Profiles!CappedElsewhere, Profiles!Failed, Profiles!threads
  <2>2. e \in CircuitEvent
      BY <1>1 DEF ProfileTypes, CircuitEvent
  <2>3. until \in 0..(MaxTime + OpenFor)
      BY <1>1, ProfilesBounds DEF ProfileTypes
  <2> HIDE DEF e, until
  <2>4. CountedBefore(e)
      BY <1>1, <2>1, <2>2, EventAdded
  <2>5. policy' \in PolicyRow
      BY <1>1, <2>1, <2>3 DEF ProfileTypes, PolicyRow
  <2>6. ProfileTypes'
      BY <1>1, <2>1, <2>4, <2>5 DEF ProfileTypes, CountedBefore
  <2> QED
      BY <2>1, <2>4, <2>6 DEF Others, CountedBefore
<1>5. ASSUME Profiles!Tick PROVE Others
  <2>1. /\ UNCHANGED <<policy, profilesEvents, evaluation, main, budget, worker, called, gathered, report>>
        /\ now < MaxTime /\ now' = now + 1
      BY <1>5 DEF Profiles!Tick, Profiles!safety, Profiles!threads
  <2>2. now' \in 0..MaxTime
      BY <1>1, <2>1, ProfilesBounds DEF ProfileTypes
  <2>3. ProfileTypes'
      BY <1>1, <2>1, <2>2 DEF ProfileTypes
  <2> QED
      BY <2>1, <2>3 DEF Others, Counted
<1> QED
    BY <1>2, <1>3, <1>4, <1>5, OthersStep

LEMMA ProfilesNext ==
    ASSUME ProfilesInv, Profiles!Next
    PROVE  ProfilesInv'
<1>1. ASSUME NEW r \in Run,
             \/ Profiles!Ask(r) \/ Profiles!Register(r) \/ Profiles!FanOut(r)
             \/ Profiles!Collect(r) \/ Profiles!Close(r)
      PROVE  ProfilesInv'
    BY <1>1, AskStep, RegisterStep, FanOutStep, CollectStep, CloseStep
<1>2. ASSUME NEW r \in Run,
             \/ Profiles!Compose(r) \/ Profiles!ReadEvaluation(r) \/ Profiles!CompleteEvaluation(r)
             \/ Profiles!Save(r) \/ Profiles!Crash(r)
      PROVE  ProfilesInv'
    BY <1>2, ComposeStep, ReadStep, CompleteStep, SaveStep, DeathStep
<1>3. ASSUME NEW r \in Run, NEW p \in Profiles!Threads[r],
             \/ Profiles!LookBeforeEstimate(r, p) \/ Profiles!Estimate(r, p) \/ Profiles!Invoke(r, p)
             \/ Profiles!Provider(r, p) \/ Profiles!LookBeforeCharge(r, p) \/ Profiles!Charge(r, p)
      PROVE  ProfilesInv'
    BY <1>3, WorkersStep
<1> QED
    BY <1>1, <1>2, <1>3, OthersNext DEF Profiles!Next

LEMMA ProfilesRest ==
    ASSUME ProfilesInv, UNCHANGED ProfilesVars
    PROVE  ProfilesInv'
<1>1. Others
    BY DEF ProfilesInv, ProfileTypes, ProfilesVars, Others, Counted
<1> QED
    BY <1>1, OthersStep

\* What the invariant says is what the property promises.
LEMMA ProfilesAccounted ==
    ASSUME ProfilesInv
    PROVE  Profiles!TypeOK /\ Profiles!CapsAreCounted /\ Profiles!ReadyIsWhole
<1>0. ProfileTypes /\ \A r \in Run : RunOk(r)
    BY DEF ProfilesInv
<1>1. Profiles!TypeOK
  <2>1. \A i \in 1..Len(profilesEvents) : profilesEvents[i] \in CircuitEvent
    <3>1. profilesEvents \in Seq(CircuitEvent)
        BY <1>0 DEF ProfileTypes
    <3> QED
        BY <3>1
  <2>2. \A r \in Run : budget[r].tokens \in 0..budget[r].max
      BY <1>0 DEF ProfileTypes, Purse, RunOk, Funded
  <2>3. \A r \in Run : worker[r] \in [Profiles!Threads[r] -> Hand]
      BY <1>0 DEF ProfileTypes
  <2> QED
      BY <1>0, <2>1, <2>2, <2>3
      DEF Profiles!TypeOK, ProfileTypes, PolicyRow, CircuitEvent, EvaluationRow, Hand
<1>2. Profiles!CapsAreCounted
  <2> SUFFICES ASSUME NEW r \in Run
               PROVE  /\ (/\ report[r] # Profiles!NoReport /\ report[r].saved
                          /\ report[r].safety = "capped" /\ report[r].telemetry = "ok"
                          /\ main[r].read.tokens <= report[r].policyMax)
                            => Counted(r)
                      /\ main[r].blocked # "no" => r \notin called /\ budget[r].tokens = 0
      BY DEF Profiles!CapsAreCounted, Counted
  <2>1. main[r].blocked # "no" => r \notin called /\ budget[r].tokens = 0
      BY <1>0, BlockedIsEmpty
  <2>2. RunOk(r)
      BY <1>0
  <2>3. report[r] # Profiles!NoReport /\ report[r].saved => main[r].at = "done"
      BY <2>2 DEF RunOk, Reported
  <2>4. main[r].at = "done" /\ report[r].safety = "capped" /\ report[r].telemetry = "ok" => Stopped(r)
      BY <2>2 DEF RunOk, Reported, Composed
  <2>5. main[r].at = "done" /\ Stopped(r) => Counted(r) \/ Raised(r)
      BY DEF Stopped
  <2> QED
      BY <2>1, <2>3, <2>4, <2>5 DEF Raised
<1>3. Profiles!ReadyIsWhole
  <2> SUFFICES ASSUME NEW r \in Run, report[r] # Profiles!NoReport, report[r].status = "ready"
               PROVE  /\ [i \in 1..Len(report[r].opinions) |-> report[r].opinions[i].profile] = Asked[r]
                      /\ \A i \in 1..Len(report[r].opinions) : report[r].opinions[i] =
                            Profiles!Filtered(Asked[r][i], worker[r][Asked[r][i]].opinion)
                      /\ ~report[r].review => ~Profiles!Contradictory(report[r].opinions)
      BY DEF Profiles!ReadyIsWhole
  <2> DEFINE o == report[r].opinions
  <2>1. /\ Heard(r, o) /\ Len(o) = Len(Asked[r])
        /\ report[r].review \/ ~Profiles!Contradictory(o)
      BY <1>0 DEF RunOk, Reported, Ready
  <2>2. \A i \in 1..Len(o) : o[i] = Profiles!Filtered(Asked[r][i], worker[r][Asked[r][i]].opinion)
      BY <2>1 DEF Heard
  <2> HIDE DEF o
  <2>3. \A i \in 1..Len(o) : o[i].profile = Asked[r][i]
    <3> TAKE i \in 1..Len(o)
    <3> DEFINE p == Asked[r][i]
               h == worker[r][Asked[r][i]].opinion
    <3>1. o[i] = Profiles!Filtered(p, h)
        BY <2>2
    <3> HIDE DEF p, h
    <3>2. Profiles!Filtered(p, h).profile = p
        BY DEF Profiles!Filtered
    <3> QED
        BY <3>1, <3>2 DEF p
  <2>4. Asked[r] = [i \in 1..Len(Asked[r]) |-> Asked[r][i]]
      BY ProfilesBounds
  <2>5. [i \in 1..Len(o) |-> o[i].profile] = Asked[r]
      BY <2>1, <2>3, <2>4
  <2> QED
      BY <2>1, <2>2, <2>5 DEF o
<1> QED
    BY <1>1, <1>2, <1>3

\* The runs of the profiles keep their invariant, whatever the other threads, the other
\* runs and the administrators do in between.
ProfilesPartInv == part = "profiles" => ProfilesInv

THEOREM ProfilesInvariance == SideBySide => []ProfilesPartInv
<1>1. StartAll => ProfilesPartInv
    BY ProfilesInitially DEF StartAll, ProfilesPartInv
<1>2. ASSUME ProfilesPartInv, [StepOne]_allVars PROVE ProfilesPartInv'
  <2>1. part' = part /\ (part = "profiles" => Profiles!Next \/ UNCHANGED ProfilesVars)
      BY <1>2 DEF StepOne, allVars
  <2> QED
      BY <1>2, <2>1, ProfilesNext, ProfilesRest DEF ProfilesPartInv
<1> QED
    BY <1>1, <1>2, PTL DEF SideBySide

\* What a run reports was counted by the breaker when a cap stopped it, a blocked run calls
\* no provider, and a ready result has an opinion of every profile, on visible evidence.
THEOREM RunsAreAccountedHolds == SideBySide => []RunsAreAccounted
<1>1. ProfilesPartInv => RunsAreAccounted
    BY ProfilesAccounted DEF ProfilesPartInv, RunsAreAccounted
<1> QED
    BY <1>1, ProfilesInvariance, PTL
==============================================================================
