------------------------------ MODULE Knowledge ------------------------------
(***************************************************************************)
(* Facts about one claim, the states they pass through and who decides     *)
(* them (services/brain_ops_knowledge_state.py, brain_ops_promotion.py,    *)
(* brain_company.py).  A state is an event that is never changed: the next *)
(* event is checked against the last one in sequence, a read takes the one *)
(* that is effective last.                                                 *)
(*                                                                         *)
(* Promoting a proposal, resolving a conflict and deriving staleness read  *)
(* first and write in a transaction of their own; processes run them side  *)
(* by side.                                                                *)
(***************************************************************************)
EXTENDS Naturals, Sequences, FiniteSets

CONSTANTS
    Process,
    Object,                     \* what the claim may say
    First,                      \* the states extraction gives for its confidence
    Proposal,                   \* proposals of a fact
    Says,                       \* the object of each proposal
    MaxAge,                     \* age that makes a state stale
    MaxFacts, MaxRecords, MaxTasks, MaxTime     \* bounds

VARIABLES
    now,
    fact,       \* [object, grouped, shown, proposal]; shown: the source is visible
    events,     \* of each fact: [state, from]; the place is the sequence
    decision,   \* of each proposal
    task,       \* what each process has read and not yet written
    records, tasks

vars == <<now, fact, events, decision, task, records, tasks>>

States == {"verified", "high_confidence", "inferred", "conflicted", "stale"}
NoTask == [op |-> "none", facts |-> {}, winner |-> 0, proposal |-> CHOOSE p \in Proposal : TRUE,
           action |-> "approve", moment |-> 0]
Facts == 1..Len(fact)
Extracted == "extracted"    \* not from a proposal

KnowledgeAssumption ==
    /\ Says \in [Proposal -> Object] /\ Extracted \notin Proposal
    /\ First \subseteq States /\ MaxTime \in Nat

TypeOK ==
    /\ now \in 0..MaxTime
    /\ \A f \in Facts : fact[f] \in [object: Object, grouped: BOOLEAN, shown: BOOLEAN,
                                     proposal: Proposal \cup {Extracted}]
    /\ Len(events) = Len(fact)
    /\ \A f \in Facts : \A i \in 1..Len(events[f]) : events[f][i] \in [state: States, from: 0..MaxTime]
    /\ decision \in [Proposal -> {"none", "approve", "reject"}]

Init ==
    /\ now = 0 /\ fact = <<>> /\ events = <<>>
    /\ decision = [p \in Proposal |-> "none"]
    /\ task = [p \in Process |-> NoTask]
    /\ records = 0 /\ tasks = 0

---------------------------------------------------------------------------
(* State events *)

\* KNOWLEDGE_STATE_TRANSITIONS without "proposed", which facts never have.
Successors ==
    [inferred |-> States, high_confidence |-> States \ {"inferred"},
     verified |-> {"verified", "conflicted", "stale"},
     conflicted |-> {"conflicted", "verified", "stale"}, stale |-> States]

Last(f) == events[f][Len(events[f])]
MayBecome(f, state) == state \in Successors[Last(f).state]
WithEvent(history, state, from) == Append(history, [state |-> state, from |-> from])

\* _knowledge_state_row; "none" when no event is effective yet.
Effective(f, t) ==
    LET due == {i \in 1..Len(events[f]) : events[f][i].from <= t}
    IN  IF due = {} THEN "none"
        ELSE events[f][CHOOSE i \in due : \A j \in due :
                events[f][j].from < events[f][i].from \/ (events[f][j].from = events[f][i].from /\ j <= i)].state

\* record_knowledge_state
Record(f, state, from) ==
    /\ records < MaxRecords /\ records' = records + 1 /\ MayBecome(f, state)
    /\ events' = [events EXCEPT ![f] = WithEvent(@, state, from)]
    /\ UNCHANGED <<now, fact, decision, task, tasks>>

---------------------------------------------------------------------------
(* A new fact *)

Against(object, others) == {f \in others : fact[f].object # object}

\* The marked facts become conflicted, and form a group with the new one.
Joined(marked, new, first, from) ==
    LET conflict == marked # {}
    IN  /\ \A f \in marked : MayBecome(f, "conflicted")
        /\ fact' = Append([f \in Facts |-> [fact[f] EXCEPT !.grouped = @ \/ f \in marked]],
                          [new EXCEPT !.grouped = conflict])
        /\ events' = Append([f \in Facts |->
                                IF f \in marked THEN WithEvent(events[f], "conflicted", now) ELSE events[f]],
                            <<[state |-> IF conflict THEN "conflicted" ELSE first, from |-> from]>>)

\* _persist_ingestion: compared with the facts of the sources that are visible; the first
\* state holds from when the text says.
Extract(object, first, from) ==
    /\ Len(fact) < MaxFacts
    /\ Joined(Against(object, {f \in Facts : fact[f].shown}),
              [object |-> object, grouped |-> FALSE, shown |-> TRUE, proposal |-> Extracted], first, from)
    /\ UNCHANGED <<now, decision, task, records, tasks>>

\* The source of a fact is retired, or ingested again.
ShowOrHide(f) ==
    /\ fact' = [fact EXCEPT ![f].shown = ~@]
    /\ UNCHANGED <<now, events, decision, task, records, tasks>>

---------------------------------------------------------------------------
(* Operations in two steps *)

Reads(p, new) ==
    /\ task[p] = NoTask /\ tasks < MaxTasks /\ tasks' = tasks + 1
    /\ task' = [task EXCEPT ![p] = new] /\ UNCHANGED <<now, fact, events, decision, records>>
Done(p) == task' = [task EXCEPT ![p] = NoTask] /\ UNCHANGED <<records, tasks>>

\* brain_promote_fact: the prior decision is looked up before the transaction.
ReadProposal(p, proposal, action) ==
    /\ decision[proposal] = "none"
    /\ Reads(p, [NoTask EXCEPT !.op = "promote", !.proposal = proposal, !.action = action])

\* Mutant: a second decision is stored beside the first.
AnyDecision(proposal) == TRUE
\* A decision is unique for its proposal: with a second one the fact is rolled back too.
Undecided(proposal) == decision[proposal] = "none"

\* All live facts are compared, visible or not; one that says something else marks them all.
Promote(p) ==
    LET t == task[p]
        marked == IF Against(Says[t.proposal], Facts) = {} THEN {} ELSE Facts
    IN  /\ t.op = "promote" /\ Undecided(t.proposal)
        /\ IF t.action = "approve"
           THEN /\ Len(fact) < MaxFacts
                /\ Joined(marked, [object |-> Says[t.proposal], grouped |-> FALSE,
                            shown |-> TRUE, proposal |-> t.proposal], "verified", now)
           ELSE UNCHANGED <<fact, events>>
        /\ decision' = [decision EXCEPT ![t.proposal] = t.action]
        /\ Done(p) /\ UNCHANGED now

Group == {f \in Facts : fact[f].grouped}
\* Verified and stale, as resolving leaves them.
ResolvedFor(w) ==
    Effective(w, now) = "verified" /\ \A f \in Group \ {w} : Effective(f, now) = "stale"

\* resolve_fact_conflict: refused when resolved, or when a source is not visible.
ReadConflict(p, winner) ==
    /\ winner \in Group /\ \A f \in Group : fact[f].shown
    /\ ~\E w \in Group : ResolvedFor(w)
    /\ Reads(p, [NoTask EXCEPT !.op = "resolve", !.winner = winner, !.facts = Group])

Resolve(p) ==
    LET t == task[p]
        outcome(f) == IF f = t.winner THEN "verified" ELSE "stale"
    IN  /\ t.op = "resolve" /\ \A f \in t.facts : MayBecome(f, outcome(f))
        /\ events' = [f \in Facts |->
                IF f \in t.facts THEN WithEvent(events[f], outcome(f), now) ELSE events[f]]
        /\ Done(p) /\ UNCHANGED <<now, fact, decision>>

\* derive_stale_states: the states that are old at the moment asked for.
Old(f, moment) == Last(f).state \notin {"stale", "conflicted"} /\ Last(f).from + MaxAge <= moment
ReadOld(p, moment) ==
    Reads(p, [NoTask EXCEPT !.op = "derive", !.facts = {f \in Facts : Old(f, moment)}, !.moment = moment])

Derive(p) ==
    LET t == task[p]
    IN  /\ t.op = "derive" /\ \A f \in t.facts : MayBecome(f, "stale")
        /\ events' = [f \in Facts |->
                IF f \in t.facts THEN WithEvent(events[f], "stale", t.moment) ELSE events[f]]
        /\ Done(p) /\ UNCHANGED <<now, fact, decision>>

\* A transition is not allowed, the proposal is decided, or the process dies.
GiveUp(p) == task[p] # NoTask /\ Done(p) /\ UNCHANGED <<now, fact, events, decision>>

Tick == now < MaxTime /\ now' = now + 1 /\ UNCHANGED <<fact, events, decision, task, records, tasks>>

Next ==
    \/ \E object \in Object, first \in First, from \in 0..MaxTime : Extract(object, first, from)
    \/ \E f \in Facts :
        \/ ShowOrHide(f)
        \/ \E state \in States, from \in 0..MaxTime : Record(f, state, from)
    \/ \E p \in Process :
        \/ \E proposal \in Proposal, action \in {"approve", "reject"} : ReadProposal(p, proposal, action)
        \/ \E winner \in Facts : ReadConflict(p, winner)
        \/ \E moment \in 0..MaxTime : ReadOld(p, moment)
        \/ Promote(p) \/ Resolve(p) \/ Derive(p) \/ GiveUp(p)
    \/ Tick

Spec == Init /\ [][Next]_vars

---------------------------------------------------------------------------
(* Properties *)

(* A proposal has one fact when it was approved and none otherwise, whichever *)
(* reviewers decided it at the same time (brain_promote_fact).                *)
PromotedOnce ==
    \A p \in Proposal :
        Cardinality({f \in Facts : fact[f].proposal = p}) = IF decision[p] = "approve" THEN 1 ELSE 0

(* What a person approved is compared with every fact: a promoted fact and a *)
(* fact that says something else, older than it, are in the group of the     *)
(* conflict, even when the source of the older was retired (brain_promote_   *)
(* fact reads all facts, ingestion those that are visible).                  *)
PromotedIsCompared ==
    \A f, g \in Facts :
        (f < g /\ fact[g].proposal # Extracted /\ fact[f].object # fact[g].object)
        => fact[f].grouped /\ fact[g].grouped

\* Does not hold: two visible facts that contradict each other are in the group. They are
\* not when the source of one was retired while the other was ingested and is shown again,
\* for a source that is shown again is not compared.
ContradictionIsGrouped ==
    \A f, g \in Facts :
        (fact[f].shown /\ fact[g].shown /\ fact[f].object # fact[g].object) => fact[f].grouped

\* Does not hold: "conflict already resolved with a different winner"
\* (brain_ops_knowledge_state.py:168) is what the second of two resolutions is told. Both
\* pass when both read before either wrote, and the second winner replaces the first.
ResolvedOnce ==
    [][\A p \in Process :
        (task[p].op = "resolve" /\ task'[p] = NoTask /\ events' # events)
        => ~\E w \in task[p].facts : w # task[p].winner /\ ResolvedFor(w)]_vars

\* Does not hold: "Append stale events for active states older than the deterministic
\* cutoff" (brain_ops_knowledge_state.py:68): a state recorded after the read is made
\* stale although it is new.
OnlyOldBecomesStale ==
    [][\A p \in Process :
        (task[p].op = "derive" /\ task'[p] = NoTask /\ events' # events)
        => \A f \in task[p].facts : Old(f, task[p].moment)]_vars

=============================================================================
