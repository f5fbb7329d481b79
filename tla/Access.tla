-------------------------------- MODULE Access --------------------------------
(***************************************************************************)
(* Who may do what (services/auth.py, domain/security.py): principals,     *)
(* sessions and tokens, the invitations an administrator makes, and the    *)
(* identity each request acts with.  Every process has a connection of its *)
(* own; what a request reads before it writes may have changed meanwhile.  *)
(***************************************************************************)
EXTENDS Naturals, Sequences, FiniteSets

CONSTANTS
    Process, Person, None,
    OrgRole,        \* of each person, given once
    Role,           \* the workspace roles given
    MaxTime, Lifetime, MaxCredentials, MaxInvites, MaxCrashes

Capability == {"auth_manage", "workspace_read", "workspace_write", "client_portal"}

\* ROLE_CAPABILITIES and WORKSPACE_ROLE_CAPABILITIES, cut down to the capabilities above
OfOrganization ==
    [owner |-> Capability, admin |-> Capability, member |-> {"workspace_read", "workspace_write"},
     client |-> {"workspace_read", "client_portal"}]
OfWorkspace ==
    [admin |-> Capability, operator |-> {"workspace_read", "workspace_write"}, viewer |-> {"workspace_read"},
     client |-> {"workspace_read", "client_portal"}]

AccessAssumption ==
    /\ {MaxTime, Lifetime, MaxCredentials, MaxInvites, MaxCrashes} \subseteq Nat /\ MaxCredentials # 0
    /\ OrgRole \in [Person -> DOMAIN OfOrganization] /\ Role \subseteq DOMAIN OfWorkspace
    /\ None \notin Nat /\ None \notin Person

VARIABLES
    now, crashes,
    member,         \* the role of a person in the workspace
    principal,      \* "none", "active" or "disabled"
    actor,          \* the person the workspace's actor is bound to
    credential,     \* sessions and tokens: [person, scopes, expires, revoked, invite]
    invite,         \* [person, binds, expires, revoked, consumed]
    request         \* what a request has read: [at, on], on an invitation or a credential

vars == <<now, crashes, member, principal, actor, credential, invite, request>>

Idle == [at |-> "idle", on |-> None]

TypeOK ==
    /\ now \in 0..MaxTime /\ crashes \in 0..MaxCrashes
    /\ member \in [Person -> Role \cup {None}] /\ principal \in [Person -> {"none", "active", "disabled"}]
    /\ actor \in Person \cup {None}
    /\ credential \in Seq([person: Person, scopes: SUBSET Capability, expires: Nat, revoked: BOOLEAN,
                           invite: 1..MaxInvites \cup {None}])
    /\ invite \in Seq([person: Person, binds: BOOLEAN, expires: Nat, revoked: BOOLEAN, consumed: BOOLEAN])
    /\ request \in [Process -> [at: {"idle", "consume", "revoke", "renew"},
                                on: 1..(MaxCredentials + MaxInvites) \cup {None}]]

NewSession(person, from) ==
    [person |-> person, scopes |-> Capability, expires |-> now + Lifetime, revoked |-> FALSE, invite |-> from]

\* The first administrator has a session.
Init ==
    /\ now = 0 /\ crashes = 0
    /\ member = [x \in Person |-> None]
    /\ principal = [x \in Person |-> IF OrgRole[x] = "owner" THEN "active" ELSE "none"]
    /\ actor = None
    /\ \E owner \in Person : OrgRole[owner] = "owner" /\ credential = <<NewSession(owner, None)>>
    /\ invite = <<>>
    /\ request = [p \in Process |-> Idle]

---------------------------------------------------------------------------
(* Identities *)

Usable(c) == ~credential[c].revoked /\ credential[c].expires > now /\ principal[credential[c].person] = "active"

\* Mutant: the workspace role decides where there is one.
ByWorkspace(org, ws) == IF ws = None THEN OfOrganization[org] ELSE OfWorkspace[ws]
\* role_capabilities: the workspace only narrows
RoleCapabilities(org, ws) == IF ws = None THEN OfOrganization[org] ELSE OfOrganization[org] \cap OfWorkspace[ws]

\* _identity: sessions carry no scopes (all of them here), tokens narrow the role further
Identity(c, workspace) ==
    LET person == credential[c].person
    IN  RoleCapabilities(OrgRole[person], IF workspace THEN member[person] ELSE None) \cap credential[c].scopes

\* authenticate_bearer: in the workspace only its members.  A request runs with the identity it starts with; only
\* what it reads and later uses is kept apart from what it writes.
MayDo(c, capability, workspace) ==
    /\ Usable(c)
    /\ workspace => member[credential[c].person] # None
    /\ capability \in Identity(c, workspace)

Manager == \E c \in DOMAIN credential, workspace \in BOOLEAN : MayDo(c, "auth_manage", workspace)

Idles(p) == request[p].at = "idle"
Ends(p) == request' = [request EXCEPT ![p] = Idle]
Reads(p, at, on) == request' = [request EXCEPT ![p] = [at |-> at, on |-> on]]

---------------------------------------------------------------------------
(* Credentials *)

CreatePrincipal(person) ==
    /\ Manager /\ principal[person] = "none"
    /\ principal' = [principal EXCEPT ![person] = "active"]
    /\ UNCHANGED <<now, crashes, member, actor, credential, invite, request>>

CreateApiToken(c, scopes) ==
    /\ Len(credential) < MaxCredentials /\ Usable(c)
    /\ credential' = Append(credential, [NewSession(credential[c].person, None) EXCEPT !.scopes = scopes])
    /\ UNCHANGED <<now, crashes, member, principal, actor, invite, request>>

\* Its own, or any of the organization's
Revoke(c) ==
    /\ Usable(c) \/ Manager
    /\ credential' = [credential EXCEPT ![c].revoked = TRUE]
    /\ UNCHANGED <<now, crashes, member, principal, actor, invite, request>>

\* rotate_session: the old session ends in a transaction of its own
Rotate(p, c) ==
    /\ Idles(p) /\ Usable(c)
    /\ credential' = [credential EXCEPT ![c].revoked = TRUE]
    /\ Reads(p, "renew", c)
    /\ UNCHANGED <<now, crashes, member, principal, actor, invite>>

Renew(p) ==
    /\ request[p].at = "renew" /\ Len(credential) < MaxCredentials
    /\ LET person == credential[request[p].on].person
       IN  credential' = IF principal[person] = "active" THEN Append(credential, NewSession(person, None))
                                                          ELSE credential
    /\ Ends(p)
    /\ UNCHANGED <<now, crashes, member, principal, actor, invite>>

BindActor(c) ==
    LET person == credential[c].person
    IN  /\ \E workspace \in BOOLEAN : MayDo(c, "auth_manage", workspace)
        /\ member[person] # None /\ actor \in {None, person}
        /\ actor' = person
        /\ UNCHANGED <<now, crashes, member, principal, credential, invite, request>>

---------------------------------------------------------------------------
(* Invitations *)

CreateInvite(person, binds) ==
    /\ Manager /\ Len(invite) < MaxInvites
    /\ binds => member[person] # None
    /\ invite' = Append(invite, [person |-> person, binds |-> binds, expires |-> now + Lifetime,
                                 revoked |-> FALSE, consumed |-> FALSE])
    /\ UNCHANGED <<now, crashes, member, principal, actor, credential, request>>

Pending(i) == ~invite[i].revoked /\ ~invite[i].consumed /\ invite[i].expires > now

ReadInvite(p, i) ==
    /\ Idles(p) /\ Manager /\ Pending(i) /\ Reads(p, "consume", i)
    /\ UNCHANGED <<now, crashes, member, principal, actor, credential, invite>>

\* Mutant: the row read before the transaction decides.
AsRead(i) == TRUE
\* UPDATE auth_invites ... WHERE consumed_at IS NULL AND revoked_at IS NULL AND expires_at>?
Claims(i) == Pending(i)

\* The principal has to be active, a bound actor must be theirs or free.
Admissible(i) ==
    /\ principal[invite[i].person] # "disabled"
    /\ invite[i].binds => actor \in {None, invite[i].person}

\* Mutant: the claim stands when what follows fails.
ClaimFirst(i) == [invite EXCEPT ![i].consumed = TRUE]
\* consume_invite is one transaction.
Claimed(i) == IF Admissible(i) THEN [invite EXCEPT ![i].consumed = TRUE] ELSE invite

ConsumeInvite(p) ==
    /\ request[p].at = "consume" /\ Len(credential) < MaxCredentials
    /\ LET i == request[p].on
           person == invite[i].person
       IN  IF ~Claims(i)
           THEN UNCHANGED <<principal, actor, credential, invite>>
           ELSE /\ invite' = Claimed(i)
                /\ IF ~Admissible(i)
                   THEN UNCHANGED <<principal, actor, credential>>
                   ELSE /\ principal' = [principal EXCEPT ![person] = "active"]
                        /\ actor' = IF invite[i].binds THEN person ELSE actor
                        /\ credential' = Append(credential, NewSession(person, i))
    /\ Ends(p)
    /\ UNCHANGED <<now, crashes, member>>

ReadForRevocation(p, i) ==
    /\ Idles(p) /\ Manager /\ ~invite[i].consumed /\ Reads(p, "revoke", i)
    /\ UNCHANGED <<now, crashes, member, principal, actor, credential, invite>>

\* ... whatever has become of the invitation
RevokeInvite(p) ==
    /\ request[p].at = "revoke"
    /\ invite' = [invite EXCEPT ![request[p].on].revoked = TRUE]
    /\ Ends(p)
    /\ UNCHANGED <<now, crashes, member, principal, actor, credential>>

---------------------------------------------------------------------------
(* Surroundings: memberships are given once and never taken back *)

Join(person, role) ==
    /\ member[person] = None /\ member' = [member EXCEPT ![person] = role]
    /\ UNCHANGED <<now, crashes, principal, actor, credential, invite, request>>

Disable(person) ==
    /\ principal[person] = "active" /\ principal' = [principal EXCEPT ![person] = "disabled"]
    /\ UNCHANGED <<now, crashes, member, actor, credential, invite, request>>

Crash(p) ==
    /\ crashes < MaxCrashes /\ crashes' = crashes + 1
    /\ request[p].at # "idle" /\ Ends(p)
    /\ UNCHANGED <<now, member, principal, actor, credential, invite>>

Tick ==
    /\ now < MaxTime /\ now' = now + 1
    /\ UNCHANGED <<crashes, member, principal, actor, credential, invite, request>>

Next ==
    \/ \E p \in Process :
        \/ \E c \in DOMAIN credential : Rotate(p, c)
        \/ \E i \in DOMAIN invite : ReadInvite(p, i) \/ ReadForRevocation(p, i)
        \/ Renew(p) \/ ConsumeInvite(p) \/ RevokeInvite(p) \/ Crash(p)
    \/ \E c \in DOMAIN credential : \/ Revoke(c) \/ BindActor(c)
                                    \/ CreateApiToken(c, {"workspace_read"})
    \/ \E x \in Person : \/ CreatePrincipal(x) \/ Disable(x)
                         \/ \E binds \in BOOLEAN : CreateInvite(x, binds)
                         \/ \E role \in Role : Join(x, role)
    \/ Tick

Spec == Init /\ [][Next]_vars

---------------------------------------------------------------------------

(* An invitation gives one session, though two administrators redeem it at once or it is revoked meanwhile, and
   a redeemed one has given it: with its principal and, where it says so, the actor. *)
InviteGivesOneSession ==
    \A i \in DOMAIN invite :
        /\ Cardinality({c \in DOMAIN credential : credential[c].invite = i}) = (IF invite[i].consumed THEN 1 ELSE 0)
        /\ invite[i].consumed => /\ principal[invite[i].person] # "none"
                                 /\ invite[i].binds => actor = invite[i].person

(* Nobody from outside may do what only staff may, whatever role a workspace gives them. *)
ClientsStayNarrow ==
    \A c \in DOMAIN credential, workspace \in BOOLEAN :
        OrgRole[credential[c].person] = "client" => Identity(c, workspace) \subseteq OfOrganization["client"]

\* Does not hold: A revoked invitation has given nothing.  One redeemed while it is being
\* revoked ends up both.
RevokedGaveNothing == \A i \in DOMAIN invite : ~(invite[i].revoked /\ invite[i].consumed)
=============================================================================
