------------------------------ MODULE MCSending ------------------------------
(* Small instances of what calls providers: outbound sends, the generic     *)
(* outbox, external actions and the runs of the specialist profiles.  Each  *)
(* keeps rows of its own: a behaviour explores one of them.                 *)
EXTENDS OutboundSend, TLC

CONSTANTS
    Parts,      \* the parts a run explores
    k1, e1, e2, Event, MaxAttempts, Limit, MaxWait, Action, NoAction, MaxCalls,
    Run, Asked, Visible, Replies, Local, MaxTokens, Runtime, Window, OpenFor, Thresholds,
    MaxTime, MaxChanges

VARIABLES
    part,       \* the part this behaviour explores: the others stay as they begin
    \* Outbox
    outboxKey, outboxStatus, outboxAttempts, wait, created, outboxLeft, outboxToken, open,
    adding, claiming, held, delivered, outboxIssued, outboxCrashes,
    \* Actions
    actionKey, actionEvent, actionApproval, fenced, queueing, actionDeciding, actionPc,
    actionWork, calls, agreed,
    \* Profiles
    now, policy, profilesEvents, evaluation, main, budget, worker, gathered, report, called,
    changes, profilesCrashes

\* Callers, dispatchers (or publishers) and approvers are interchangeable.
Symmetry == Permutations(Caller) \cup Permutations(Dispatcher) \cup Permutations(Approver)

\* Two profiles; a provider cites what the reader may not see, or another stance.
Runbook == k1 :> <<"a", "b">>
Answers == {[cites |-> {e1, e2}, stance |-> "act"], [cites |-> {e1}, stance |-> "hold"]}
Bounded == [cites |-> {e1}, stance |-> "act"]

Outbox == INSTANCE Outbox WITH
    Client <- Caller, Publisher <- Dispatcher, key <- outboxKey, status <- outboxStatus,
    attempts <- outboxAttempts, left <- outboxLeft, token <- outboxToken,
    issued <- outboxIssued, crashes <- outboxCrashes

Actions == INSTANCE ExternalAction WITH
    key <- actionKey, event <- actionEvent, approval <- actionApproval,
    deciding <- actionDeciding, pc <- actionPc, work <- actionWork

Profiles == INSTANCE Orchestration WITH
    events <- profilesEvents, crashes <- profilesCrashes

\* The variables of each part; 0 while it is not explored.
OutboxVars == <<
    outboxKey, outboxStatus, outboxAttempts, wait, created, outboxLeft, outboxToken, open,
    adding, claiming, held, delivered, outboxIssued, outboxCrashes>>
ActionsVars == <<
    actionKey, actionEvent, actionApproval, fenced, queueing, actionDeciding, actionPc,
    actionWork, calls, agreed>>
ProfilesVars == <<
    now, policy, profilesEvents, evaluation, main, budget, worker, gathered, report, called,
    changes, profilesCrashes>>

OutboxRests ==
    /\ outboxKey = 0 /\ outboxStatus = 0 /\ outboxAttempts = 0 /\ wait = 0 /\ created = 0
    /\ outboxLeft = 0 /\ outboxToken = 0 /\ open = 0 /\ adding = 0 /\ claiming = 0
    /\ held = 0 /\ delivered = 0 /\ outboxIssued = 0 /\ outboxCrashes = 0
ActionsRests ==
    /\ actionKey = 0 /\ actionEvent = 0 /\ actionApproval = 0 /\ fenced = 0 /\ queueing = 0
    /\ actionDeciding = 0 /\ actionPc = 0 /\ actionWork = 0 /\ calls = 0 /\ agreed = 0
ProfilesRests ==
    /\ now = 0 /\ policy = 0 /\ profilesEvents = 0 /\ evaluation = 0 /\ main = 0
    /\ budget = 0 /\ worker = 0 /\ gathered = 0 /\ report = 0 /\ called = 0 /\ changes = 0
    /\ profilesCrashes = 0

StartAll ==
    /\ part \in Parts
    /\ Init
    /\ IF part = "outbox" THEN Outbox!Init ELSE OutboxRests
    /\ IF part = "action" THEN Actions!Init ELSE ActionsRests
    /\ IF part = "profiles" THEN Profiles!Init ELSE ProfilesRests

StepOne ==
    /\ UNCHANGED part
    /\ \/ part = "send" /\ Next /\ UNCHANGED <<OutboxVars, ActionsVars, ProfilesVars>>
       \/ part = "outbox" /\ Outbox!Next /\ UNCHANGED <<vars, ActionsVars, ProfilesVars>>
       \/ part = "action" /\ Actions!Next /\ UNCHANGED <<vars, OutboxVars, ProfilesVars>>
       \/ part = "profiles" /\ Profiles!Next /\ UNCHANGED <<vars, OutboxVars, ActionsVars>>

allVars == <<part, vars, OutboxVars, ActionsVars, ProfilesVars>>

SideBySide == StartAll /\ [][StepOne]_allVars

ASSUME OutboxAssumption == Outbox!OutboxAssumption
ASSUME ActionAssumption == Actions!ActionAssumption
ASSUME ProfilesAssumption == Profiles!OrchestrationAssumption

\* The outbox with one event, or with two of which one publisher at a time knows; external
\* actions with one action, or with two and one approver and one dispatcher at a time; the
\* profiles with a change of the policy or a death.
Focus ==
    /\ part = "outbox" =>
        \/ \E x \in Event : outboxStatus[x] = "absent"
        \/ /\ outboxIssued + outboxCrashes <= 3
           /\ \E d \in Dispatcher : ~claiming[d] /\ held[d] = {}
    /\ part = "action" =>
        \/ \E a \in Action : actionEvent[a] = "absent"
        \/ /\ \E r \in Approver : actionDeciding[r] = NoAction
           /\ \E d \in Dispatcher : actionPc[d] = "idle"
    /\ part = "profiles" => now + changes + profilesCrashes <= 2

\* The outbox delivers an event at most max_attempts times, whatever leases run out and
\* however late a publisher delivers, and has one event per idempotency key.
DeliveriesWithinBudget ==
    part = "outbox" => Outbox!DeliveriesWithinBudget /\ Outbox!OneEventPerKey

\* The last publisher an event was given to decides what becomes of it: whoever ends the
\* lease hands in the token the row carries, while the lease runs.
HolderDecides ==
    [][part = "outbox" => \A e \in Event : Outbox!EndedByHolder(e)]_allVars

\* The provider is called only for actions that somebody approved, a receipt stands for a
\* call, and a key has one action, however callers, approvers and dispatchers overlap.
ActionsAreApproved ==
    part = "action" =>
        Actions!CalledOnlyIfApproved /\ Actions!PublishedWasCalled /\ Actions!OneActionPerKey

\* What a run of the profiles reports was counted by the breaker when a cap stopped it,
\* and a result that is ready has an opinion of every profile, on visible evidence.
RunsAreAccounted ==
    part = "profiles" => Profiles!TypeOK /\ Profiles!CapsAreCounted /\ Profiles!ReadyIsWhole
==============================================================================
