----------------------------- MODULE OAuthIntake -----------------------------
(***************************************************************************)
(* Provider installations (services/integration_security.py): the OAuth    *)
(* handshake with its PKCE verifier, the token vault, revocation, and the  *)
(* receipt of webhooks.  The handshake commits at four places: the state   *)
(* is used up, the provider is asked, the installation is activated, the   *)
(* token is stored; a crash or another request may come between any two.   *)
(* The transport that asks the provider is called with named arguments,    *)
(* and a second time with positional ones if it raises TypeError.          *)
(***************************************************************************)
EXTENDS Naturals, FiniteSets

CONSTANTS
    Process, Installation, Account, Body,
    None,
    HasKey,         \* AUREMGRID_VAULT_KEY: without it verifiers live in memory and tokens cannot be stored
    MaxTime, TTL, MaxStates, MaxCrashes

ASSUME OAuthAssumption == {MaxTime, TTL, MaxStates, MaxCrashes} \subseteq Nat

Time == 0..MaxTime
State == 1..MaxStates
\* A token is kept under the workspace the handshake named: the one of the installation, or none.
Where == {"own", "wide"}

VARIABLES
    now, crashes,
    oauth,      \* the handshakes: [where, install, expires, used]
    verifier,   \* <<process, handshake>>: the verifiers in memory
    sealed,     \* the verifiers in the vault
    exchanges,  \* (history) how often a handshake was taken to the provider, each way it is called
    install,    \* [status, account]; "none" until the row is there
    token,      \* [account, expires], or None when there is none or it is revoked
    received, quarantined,
    request     \* what a request has read: [at, state, where, install, account]

vars == <<now, crashes, oauth, verifier, sealed, exchanges, install, token, received, quarantined, request>>

Nothing == [at |-> "idle", state |-> None, install |-> None, account |-> None, body |-> None]
NoRow == [status |-> "none", account |-> None]
NoCall == [named |-> 0, positional |-> 0]

TypeOK ==
    /\ now \in Time /\ crashes \in 0..MaxCrashes
    /\ \A s \in DOMAIN oauth : oauth[s] \in
        [where: Where, install: Installation \cup {None}, expires: Nat, used: BOOLEAN]
    /\ DOMAIN oauth \subseteq State /\ verifier \subseteq Process \X State /\ sealed \subseteq State
    /\ install \in [Installation -> [status: {"none", "disabled", "active", "revoked"}, account: Account \cup {None}]]
    /\ token \in [Where \X Installation -> [account: Account, expires: Nat] \cup {None}]
    /\ received \subseteq Installation \X Body
    /\ request \in [Process -> [at: {"idle", "take", "use", "exchange", "again", "install", "store", "unlink",
                                     "receipt"},
                                state: State \cup {None}, install: Installation \cup {None},
                                account: Account \cup {None}, body: Body \cup {None}]]

Init ==
    /\ now = 0 /\ crashes = 0
    /\ oauth = <<>> /\ verifier = {} /\ sealed = {} /\ exchanges = [s \in State |-> NoCall]
    /\ install = [i \in Installation |-> NoRow] /\ token = [wi \in Where \X Installation |-> None]
    /\ received = {} /\ quarantined = {}
    /\ request = [p \in Process |-> Nothing]

Exists(i) == install[i].status # "none"
\* UNIQUE(organization_id, workspace_id, provider, account_id)
Taken(i, a) == \E j \in Installation \ {i} : Exists(j) /\ install[j].account = a

Goes(p, at) == request' = [request EXCEPT ![p].at = at]
Ends(p) == request' = [request EXCEPT ![p] = Nothing]

---------------------------------------------------------------------------
(* The handshake *)

\* begin: nobody has the state before its verifier is put away, so the two commits are one step here.
Begin(p, where, i) ==
    /\ Cardinality(DOMAIN oauth) < MaxStates
    /\ i # None => Exists(i) /\ install[i].status # "revoked"
    /\ LET s == Cardinality(DOMAIN oauth) + 1
       IN  /\ oauth' = [t \in 1..s |-> IF t < s THEN oauth[t]
                            ELSE [where |-> where, install |-> i, expires |-> now + TTL, used |-> FALSE]]
           /\ verifier' = verifier \cup {<<p, s>>}
           /\ sealed' = IF HasKey THEN sealed \cup {s} ELSE sealed
    /\ UNCHANGED <<now, crashes, exchanges, install, token, received, quarantined, request>>

\* _consume_with_verifier: the row is read
Callback(p, s) ==
    /\ request[p].at = "idle" /\ s \in DOMAIN oauth
    /\ ~oauth[s].used /\ oauth[s].expires > now
    /\ request' = [request EXCEPT ![p] = [Nothing EXCEPT !.at = "take", !.state = s, !.install = oauth[s].install]]
    /\ UNCHANGED <<now, crashes, oauth, verifier, sealed, exchanges, install, token, received, quarantined>>

\* ... the verifier is the one the caller sends, right or wrong, or it is taken from memory, else
\* from the vault
TakeVerifier(p) ==
    /\ request[p].at = "take"
    /\ LET s == request[p].state
       IN  \/ (Goes(p, "use") \/ Ends(p)) /\ UNCHANGED verifier
           \/ /\ verifier' = verifier \ {<<p, s>>}
              /\ IF <<p, s>> \in verifier \/ s \in sealed THEN Goes(p, "use") ELSE Ends(p)
    /\ UNCHANGED <<now, crashes, oauth, sealed, exchanges, install, token, received, quarantined>>

\* Mutant: the row read a moment ago decides.
AsRead(s) == TRUE
\* UPDATE oauth_states ... WHERE used_at IS NULL
StillUnused(s) == ~oauth[s].used

\* ... and the state is used up, whatever becomes of the rest
UseState(p) ==
    /\ request[p].at = "use"
    /\ LET s == request[p].state
       IN  IF StillUnused(s)
           THEN /\ oauth' = [oauth EXCEPT ![s].used = TRUE]
                /\ verifier' = verifier \ {<<p, s>>} /\ sealed' = sealed \ {s}
                /\ Goes(p, "exchange")
           ELSE /\ Ends(p) /\ UNCHANGED <<oauth, verifier, sealed>>
    /\ UNCHANGED <<now, crashes, exchanges, install, token, received, quarantined>>

\* The provider names an account and grants the scopes, or it fails or grants too little.
Answered(p) ==
    \/ Ends(p)
    \/ \E a \in Account : /\ HasKey
                          /\ request' = [request EXCEPT ![p].at = "install", ![p].account = a]

Exchange(p) ==
    /\ request[p].at = "exchange"
    /\ exchanges' = [exchanges EXCEPT ![request[p].state].named = @ + 1]
    /\ Answered(p) \/ Goes(p, "again")
    /\ UNCHANGED <<now, crashes, oauth, verifier, sealed, install, token, received, quarantined>>

\* The first call raised TypeError, before it asked the provider or after.
ExchangeAgain(p) ==
    /\ request[p].at = "again"
    /\ exchanges' = [exchanges EXCEPT ![request[p].state].positional = @ + 1]
    /\ Answered(p)
    /\ UNCHANGED <<now, crashes, oauth, verifier, sealed, install, token, received, quarantined>>

\* The row is made or changed, whatever its status is by now; the account is not compared with the one it had.
Activate(p) ==
    /\ request[p].at = "install"
    /\ LET a == request[p].account
           rows == IF request[p].install # None THEN {request[p].install} ELSE {i \in Installation : ~Exists(i)}
       IN  /\ rows # {}
           /\ \E i \in rows :
                IF Taken(i, a)
                THEN Ends(p) /\ UNCHANGED install
                ELSE /\ install' = [install EXCEPT ![i] = [status |-> "active", account |-> a]]
                     /\ request' = [request EXCEPT ![p].at = "store", ![p].install = i]
    /\ UNCHANGED <<now, crashes, oauth, verifier, sealed, exchanges, token, received, quarantined>>

\* vault.upsert, under the workspace of the handshake
StoreToken(p) ==
    /\ request[p].at = "store"
    /\ token' = [token EXCEPT ![<<oauth[request[p].state].where, request[p].install>>] =
                    [account |-> request[p].account, expires |-> now + 1]]
    /\ Ends(p)
    /\ UNCHANGED <<now, crashes, oauth, verifier, sealed, exchanges, install, received, quarantined>>

---------------------------------------------------------------------------
(* Installations *)

Register(i, a) ==
    /\ ~Exists(i) /\ ~Taken(i, a)
    /\ install' = [install EXCEPT ![i] = [status |-> "disabled", account |-> a]]
    /\ UNCHANGED <<now, crashes, oauth, verifier, sealed, exchanges, token, received, quarantined, request>>

\* revoke: the provider is told and the token overwritten first, the status follows
RevokeToken(p, i) ==
    /\ request[p].at = "idle" /\ Exists(i)
    /\ token' = [token EXCEPT ![<<"own", i>>] = None]
    /\ request' = [request EXCEPT ![p] = [Nothing EXCEPT !.at = "unlink", !.install = i]]
    /\ UNCHANGED <<now, crashes, oauth, verifier, sealed, exchanges, install, received, quarantined>>

RevokeInstallation(p) ==
    /\ request[p].at = "unlink"
    /\ install' = [install EXCEPT ![request[p].install].status = "revoked"]
    /\ Ends(p)
    /\ UNCHANGED <<now, crashes, oauth, verifier, sealed, exchanges, token, received, quarantined>>

\* health looks under the workspace of the row
Healthy(i) ==
    /\ install[i].status = "active"
    /\ token["own", i] # None /\ token["own", i].expires > now

---------------------------------------------------------------------------
(* Webhooks *)

\* Inactive installations and whatever is not signed, or is too old, are put aside.
Quarantine(i, body) ==
    /\ quarantined' = quarantined \cup {<<i, body>>}
    /\ UNCHANGED <<now, crashes, oauth, verifier, sealed, exchanges, install, token, received, request>>

Receive(p, i, body) ==
    /\ request[p].at = "idle" /\ install[i].status = "active"
    /\ request' = [request EXCEPT ![p] = [Nothing EXCEPT !.at = "receipt", !.install = i, !.body = body]]
    /\ UNCHANGED <<now, crashes, oauth, verifier, sealed, exchanges, install, token, received, quarantined>>

\* UNIQUE(installation_id, event_digest): a second delivery is told it is a duplicate
Accept(p) ==
    /\ request[p].at = "receipt"
    /\ received' = received \cup {<<request[p].install, request[p].body>>}
    /\ Ends(p)
    /\ UNCHANGED <<now, crashes, oauth, verifier, sealed, exchanges, install, token, quarantined>>

---------------------------------------------------------------------------

Crash(p) ==
    /\ crashes < MaxCrashes /\ crashes' = crashes + 1
    /\ verifier' = {held \in verifier : held[1] # p} /\ Ends(p)
    /\ UNCHANGED <<now, oauth, sealed, exchanges, install, token, received, quarantined>>

Tick ==
    /\ now < MaxTime /\ now' = now + 1
    /\ UNCHANGED <<crashes, oauth, verifier, sealed, exchanges, install, token, received, quarantined, request>>

Next ==
    \/ \E p \in Process : \/ \E where \in Where, i \in Installation \cup {None} : Begin(p, where, i)
                          \/ \E s \in State : Callback(p, s)
                          \/ TakeVerifier(p) \/ UseState(p) \/ Exchange(p) \/ ExchangeAgain(p)
                          \/ Activate(p) \/ StoreToken(p)
                          \/ \E i \in Installation : RevokeToken(p, i)
                          \/ RevokeInstallation(p)
                          \/ \E i \in Installation, b \in Body : Receive(p, i, b)
                          \/ Accept(p) \/ Crash(p)
    \/ \E i \in Installation, a \in Account : Register(i, a)
    \/ \E i \in Installation, b \in Body : Quarantine(i, b)
    \/ Tick

Spec == Init /\ [][Next]_vars

---------------------------------------------------------------------------

(* A handshake is taken to the provider by one request, however often its   *)
(* callback arrives and whoever restarts meanwhile: the transport is called *)
(* once, and once more only by the request whose call it refused            *)
(* (OAuthConnectorService.complete).                                        *)
ExchangedOnce ==
    \A s \in State : exchanges[s].named <= 1 /\ exchanges[s].positional <= exchanges[s].named

\* Does not hold: The code of a handshake is presented to the provider once.  A transport that
\* raises TypeError when it has asked the provider is called again with the same code.
PresentedOnce == \A s \in State : exchanges[s].named + exchanges[s].positional <= 1

\* Does not hold: An installation that reports itself healthy holds a token of the account
\* it shows.
TokenOfItsAccount == \A i \in Installation : Healthy(i) => token["own", i].account = install[i].account

\* Does not hold: A revoked installation has no token left.
RevokedHasNoToken == \A i \in Installation : install[i].status = "revoked" => token["own", i] = None
=============================================================================
