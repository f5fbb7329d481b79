------------------------------- MODULE Entities -------------------------------
(***************************************************************************)
(* Entities, the names they go by and their merges                         *)
(* (services/brain_ops_resolution.py, brain_ops_promotion.py).  Nothing is *)
(* deleted: a merge leaves the entity and its names behind as a pointer,   *)
(* and a name is resolved as of a moment by following the merges made by   *)
(* then.  Names and merges come from proposals a second person decides.    *)
(***************************************************************************)
EXTENDS Naturals, FiniteSets

CONSTANTS Entity, Name, NoOne, MaxTime, MaxProposals

Time == 0..MaxTime
NotYet == MaxTime + 1

EntitiesAssumption ==
    /\ IsFiniteSet(Entity) /\ NoOne \notin Entity
    /\ MaxTime \in Nat /\ MaxProposals \in Nat

VARIABLES
    now,
    created,    \* when the entity was made
    alias,      \* the rows [entity, name, approved, at]
    mergedInto, mergedAt,
    proposal,   \* the proposals that are not decided: [kind, source, target, name, id]
    proposals

vars == <<now, created, alias, mergedInto, mergedAt, proposal, proposals>>

TypeOK ==
    /\ now \in Time /\ created \in [Entity -> Time \cup {NotYet}]
    /\ alias \subseteq [entity: Entity, name: Name, approved: BOOLEAN, at: Time]
    /\ mergedInto \in [Entity -> Entity \cup {NoOne}] /\ mergedAt \in [Entity -> Time \cup {NotYet}]
    /\ proposal \subseteq [kind: {"alias", "merge"}, source: Entity, target: Entity, name: Name \cup {NoOne},
                           id: 1..MaxProposals]

Init ==
    /\ now = 0 /\ created = [e \in Entity |-> NotYet] /\ alias = {}
    /\ mergedInto = [e \in Entity |-> NoOne] /\ mergedAt = [e \in Entity |-> NotYet]
    /\ proposal = {} /\ proposals = 0

Exists(e) == created[e] <= now
Active(e) == Exists(e) /\ mergedInto[e] = NoOne

---------------------------------------------------------------------------
(* Resolving a name *)

\* Mutant: today's merges answer for the past.
TodaysRedirect(e, t) == mergedInto[e]
\* _entity_redirect: an entity is merged once.
Redirect(e, t) == IF mergedAt[e] <= t THEN mergedInto[e] ELSE NoOne

\* Where the merges lead; a cycle would end where it began.
End(e, t) ==
    LET step[n \in 0..Cardinality(Entity)] ==
            IF n = 0 THEN e
            ELSE IF Redirect(step[n - 1], t) = NoOne THEN step[n - 1] ELSE Redirect(step[n - 1], t)
    IN  step[Cardinality(Entity)]

\* Mutant: the names of a merged entity are gone.
StillActive(e, t) == Redirect(e, t) = NoOne
\* A retired name is kept when its entity leads somewhere; names are retired only by a merge.
Kept(e, t) == mergedAt[e] > t \/ Redirect(e, t) # NoOne

Resolve(name, t) ==
    {End(a.entity, t) : a \in {b \in alias :
        b.name = name /\ b.approved /\ b.at <= t /\ created[b.entity] <= t /\ Kept(b.entity, t)}}

---------------------------------------------------------------------------

\* (entity_id, normalized_alias) is unique
HasName(e, name) == \E a \in alias : a.entity = e /\ a.name = name
NewAlias(e, name, approved) == [entity |-> e, name |-> name, approved |-> approved, at |-> now]

\* The canonical name is approved, the others are not.
Create(e, name, others) ==
    /\ ~Exists(e) /\ name \notin others
    /\ created' = [created EXCEPT ![e] = now]
    /\ alias' = alias \cup {NewAlias(e, name, TRUE)} \cup {NewAlias(e, other, FALSE) : other \in others}
    /\ UNCHANGED <<now, mergedInto, mergedAt, proposal, proposals>>

ProposeAlias(e, name) ==
    /\ proposals < MaxProposals /\ proposals' = proposals + 1
    /\ Exists(e) /\ ~HasName(e, name)
    /\ alias' = alias \cup {NewAlias(e, name, FALSE)}
    /\ UNCHANGED <<now, created, mergedInto, mergedAt, proposal>>

\* brain_propose; merged entities may be named.
Propose(kind, source, target, name) ==
    /\ proposals < MaxProposals /\ proposals' = proposals + 1
    /\ Exists(source) /\ Exists(target)
    /\ proposal' = proposal \cup
        {[kind |-> kind, source |-> source, target |-> target, name |-> name, id |-> proposals']}
    /\ UNCHANGED <<now, created, alias, mergedInto, mergedAt>>

\* Mutant: only the entity that goes away is looked at.
SourceActive(source, target) == source # target /\ Active(source)
\* Both are active; then the walk along merged_into cannot meet the source.
MayMerge(source, target) == source # target /\ Active(source) /\ Active(target)

Merge(p) ==
    /\ p.kind = "merge" /\ MayMerge(p.source, p.target)
    /\ mergedInto' = [mergedInto EXCEPT ![p.source] = p.target]
    /\ mergedAt' = [mergedAt EXCEPT ![p.source] = now]
    /\ UNCHANGED alias

AddName(p) ==
    /\ p.kind = "alias" /\ ~HasName(p.target, p.name)
    /\ alias' = alias \cup {NewAlias(p.target, p.name, TRUE)}
    /\ UNCHANGED <<mergedInto, mergedAt>>

\* brain_promote: one transaction; an approval that is refused leaves the proposal undecided.
Decide(p) ==
    /\ Merge(p) \/ AddName(p) \/ UNCHANGED <<alias, mergedInto, mergedAt>>
    /\ proposal' = proposal \ {p}
    /\ UNCHANGED <<now, created, proposals>>

Tick == now < MaxTime /\ now' = now + 1
        /\ UNCHANGED <<created, alias, mergedInto, mergedAt, proposal, proposals>>

Next ==
    \/ \E e \in Entity, name \in Name :
        ProposeAlias(e, name) \/ \E others \in SUBSET Name : Create(e, name, others)
    \/ \E e \in Entity :
        \/ \E name \in Name : Propose("alias", e, e, name)
        \/ \E target \in Entity : Propose("merge", e, target, NoOne)
    \/ \E p \in proposal : Decide(p)
    \/ Tick

Spec == Init /\ [][Next]_vars

---------------------------------------------------------------------------
(* Properties *)

(* Wherever the merges lead, they end at an active entity, although a merge *)
(* may be decided long after it was proposed, and its entities merged since *)
(* (_brain_promote_impl, resolve_entity).                                   *)
MergesEnd == \A e \in Entity : Exists(e) => Active(End(e, now))

(* A name that was known stays known: its entity may have been merged, and  *)
(* then the name leads to the one that remains.                             *)
NameKept == \A name \in Name : Resolve(name, now) # {} => Resolve(name, now)' # {}
NamesStayKnown == [][NameKept]_vars

(* What a name meant at a moment that has passed does not change.           *)
PastKept == \A name \in Name : \A t \in 0..(now - 1) : Resolve(name, t)' = Resolve(name, t)
PastNamesStand == [][PastKept]_vars

\* Does not hold: a name that waits as proposed can be approved. The row it waits in is
\* the one that the approval would insert.
WaitingCanBeApproved ==
    \A p \in proposal : (p.kind = "alias" /\ \E a \in alias :
        a.entity = p.target /\ a.name = p.name /\ ~a.approved) => ENABLED AddName(p)

=============================================================================
