--------------------------- MODULE OfficeProofs ---------------------------
(***************************************************************************)
(* Proofs about what comes in from outside and who may work on it, for any *)
(* constants of the parts of MCOffice.  A behaviour explores one part, and *)
(* each section gives the inductive invariant of one.                      *)
(*                                                                         *)
(* Handshakes: two callbacks may read a state unused and both take its     *)
(* verifier, but the update that uses the state up lets one of them on to  *)
(* the provider, and a state that is used is never unused again, whether   *)
(* or not its exchange succeeds.                                           *)
(*                                                                         *)
(* Invitations: a session is issued by whoever consumed the invitation,    *)
(* which is pending for one of them.  Meetings: the items of a note are on *)
(* its meeting or in the hands of its recorder, unless an error came; a    *)
(* meeting that has begun refuses them only when it has been closed, and   *)
(* none is scheduled again.  Spreadsheets: each row a commit has behind it *)
(* is written whole in the connection or has its error, and what           *)
(* one connection has open no other sees.  Templates: a template without   *)
(* cycles leaves a stage to do in every set of stages.  Imports: what was  *)
(* fetched is recorded, in quarantine, in the connection or on the page.   *)
(***************************************************************************)
EXTENDS MCOffice, FiniteSetTheorems, SequenceTheorems, TLAPS

Row == [where: Where, install: Installation \cup {None}, expires: Nat, used: BOOLEAN]
Request == [at: {"idle", "take", "use", "exchange", "again", "install", "store", "unlink", "receipt"},
            state: State \cup {None}, install: Installation \cup {None},
            account: Account \cup {None}, body: Body \cup {None}]

\* States are numbered in the order of their making.
Numbered == \E n \in 0..MaxStates : oauth \in [1..n -> Row]

\* What a request needs at a step, it has read at the steps before.
Carried ==
    \A p \in Process :
        /\ request[p].at \in {"take", "use", "exchange", "again", "install", "store"} =>
                request[p].state \in DOMAIN oauth
        /\ request[p].at \in {"install", "store"} => request[p].account \in Account
        /\ request[p].at \in {"store", "unlink", "receipt"} => request[p].install \in Installation
        /\ request[p].at = "receipt" => request[p].body \in Body

TypeInv == TypeOK /\ Numbered /\ Carried

\* Who may go to the provider is alone with its state, which is used up and has been there only
\* by the call the transport refused.
AtProvider(p) == request[p].at \in {"exchange", "again"}
Alone ==
    \A p \in Process : AtProvider(p) =>
        /\ oauth[request[p].state].used
        /\ exchanges[request[p].state].positional = 0
        /\ exchanges[request[p].state].named = IF request[p].at = "again" THEN 1 ELSE 0
        /\ \A q \in Process : (q # p /\ AtProvider(q)) => request[q].state # request[p].state

\* A state that has been taken to the provider was used up before.
Calls == [named: {0, 1}, positional: {0, 1}]
Spent ==
    /\ exchanges \in [State -> Calls]
    /\ \A s \in State : exchanges[s].named = 1 => s \in DOMAIN oauth /\ oauth[s].used
    /\ \A s \in State : exchanges[s].positional = 1 => exchanges[s].named = 1

Inv == TypeInv /\ Alone /\ Spent
------------------------------------------------------------------------------
(* Types *)

LEMMA TypeInvInit == Init => TypeInv
<1> SUFFICES ASSUME Init PROVE TypeInv
    OBVIOUS
<1>1. oauth = <<>> /\ oauth \in [1..0 -> Row]
    BY DEF Init
<1>2. Numbered
    BY <1>1, OAuthAssumption DEF Numbered
<1>3. TypeOK
    BY <1>1, OAuthAssumption DEF Init, TypeOK, Time, State, NoRow, Nothing
<1>4. Carried
    BY DEF Init, Carried, Nothing
<1> QED
    BY <1>2, <1>3, <1>4 DEF TypeInv

\* A new handshake takes the next number.
LEMMA BeginNumbers ==
    ASSUME TypeInv, NEW p \in Process, NEW where \in Where, NEW i \in Installation \cup {None},
           Begin(p, where, i)
    PROVE  \E n \in 0..MaxStates :
                /\ n < MaxStates /\ oauth \in [1..n -> Row] /\ oauth' \in [1..(n + 1) -> Row]
                /\ \A s \in 1..n : oauth'[s] = oauth[s]
                /\ n + 1 \in State
                /\ verifier' = verifier \cup {<<p, n + 1>>}
                /\ sealed' \in {sealed, sealed \cup {n + 1}}
<1>1. PICK n \in 0..MaxStates : oauth \in [1..n -> Row]
    BY DEF TypeInv, Numbered
<1>2. n \in Nat /\ DOMAIN oauth = 1..n /\ Cardinality(DOMAIN oauth) = n
    BY <1>1, OAuthAssumption, FS_Interval
<1>3. n < MaxStates /\ n + 1 \in State
    BY <1>2, OAuthAssumption DEF Begin, State
<1> DEFINE row == [where |-> where, install |-> i, expires |-> now + TTL, used |-> FALSE]
<1>4. row \in Row
    BY OAuthAssumption DEF Row, TypeInv, TypeOK, Time
<1> HIDE DEF row
<1>5. oauth' = [t \in 1..(n + 1) |-> IF t < n + 1 THEN oauth[t] ELSE row]
    BY <1>2 DEF Begin, row
<1>6. oauth' \in [1..(n + 1) -> Row] /\ \A s \in 1..n : oauth'[s] = oauth[s]
    BY <1>1, <1>2, <1>4, <1>5
<1>7. verifier' = verifier \cup {<<p, n + 1>>} /\ sealed' \in {sealed, sealed \cup {n + 1}}
    BY <1>2 DEF Begin
<1> QED
    BY <1>1, <1>3, <1>6, <1>7

\* Requests that go on with what they have, or end, stay well typed.
LEMMA RequestMoves ==
    ASSUME TypeInv, NEW p \in Process,
           \/ Ends(p)
           \/ \E at \in {"use", "exchange", "again"} :
                request[p].at \in {"take", "use", "exchange"} /\ Goes(p, at),
           DOMAIN oauth \subseteq DOMAIN oauth'
    PROVE  request' \in [Process -> Request] /\ Carried'
<1>1. request \in [Process -> Request] /\ Nothing \in Request
    BY DEF TypeInv, TypeOK, Request, Nothing
<1>2. Carried
    BY DEF TypeInv
<1>3. CASE Ends(p)
    BY <1>1, <1>2, <1>3 DEF Ends, Carried, Nothing
<1>4. ASSUME NEW at \in {"use", "exchange", "again"},
             request[p].at \in {"take", "use", "exchange"}, Goes(p, at)
      PROVE  request' \in [Process -> Request] /\ Carried'
  <2>1. /\ request' = [request EXCEPT ![p] = [request[p] EXCEPT !.at = at]]
        /\ [request[p] EXCEPT !.at = at] \in Request
        /\ [request[p] EXCEPT !.at = at].state = request[p].state
        /\ [request[p] EXCEPT !.at = at].at = at
      BY <1>1, <1>4 DEF Goes, Request
  <2> QED
      BY <1>1, <1>2, <1>4, <2>1 DEF Carried
<1> QED
    BY <1>3, <1>4

\* Requests of others stay as they are when one is given what it has read.
LEMMA RequestReads ==
    ASSUME TypeInv, NEW p \in Process, NEW r \in Request,
           request' = [request EXCEPT ![p] = r], DOMAIN oauth' = DOMAIN oauth,
           r.at \in {"take", "use", "exchange", "again", "install", "store"} => r.state \in DOMAIN oauth,
           r.at \in {"install", "store"} => r.account \in Account,
           r.at \in {"store", "unlink", "receipt"} => r.install \in Installation,
           r.at = "receipt" => r.body \in Body
    PROVE  request' \in [Process -> Request] /\ Carried'
BY DEF TypeInv, TypeOK, Carried, Request

LEMMA TypeInvNext == TypeInv /\ [Next]_vars => TypeInv'
<1> SUFFICES ASSUME TypeInv, [Next]_vars PROVE TypeInv'
    OBVIOUS
<1> USE OAuthAssumption
<1>1. ASSUME NEW p \in Process, NEW where \in Where, NEW i \in Installation \cup {None},
             Begin(p, where, i)
      PROVE  TypeInv'
  <2>1. PICK n \in 0..MaxStates :
            /\ n < MaxStates /\ oauth \in [1..n -> Row] /\ oauth' \in [1..(n + 1) -> Row]
            /\ n + 1 \in State
            /\ verifier' = verifier \cup {<<p, n + 1>>}
            /\ sealed' \in {sealed, sealed \cup {n + 1}}
      BY <1>1, BeginNumbers
  <2>2. Numbered' /\ DOMAIN oauth \subseteq DOMAIN oauth'
      BY <2>1 DEF Numbered
  <2>3. TypeOK'
    <3>1. DOMAIN oauth' \subseteq State /\ \A s \in DOMAIN oauth' : oauth'[s] \in Row
        BY <2>1 DEF State
    <3>2. verifier' \subseteq Process \X State /\ sealed' \subseteq State
        BY <2>1 DEF TypeInv, TypeOK
    <3> QED
        BY <1>1, <3>1, <3>2 DEF TypeInv, TypeOK, Begin, Row
  <2>4. Carried'
      BY <1>1, <2>2 DEF TypeInv, Carried, Begin
  <2> QED
      BY <2>2, <2>3, <2>4 DEF TypeInv
<1>2. ASSUME NEW p \in Process, NEW s \in State, Callback(p, s) PROVE TypeInv'
  <2> DEFINE r == [Nothing EXCEPT !.at = "take", !.state = s, !.install = oauth[s].install]
  <2>1. r \in Request /\ r.at = "take" /\ r.state = s /\ s \in DOMAIN oauth
      BY <1>2 DEF Callback, TypeInv, TypeOK, Nothing, Request
  <2>2. request' = [request EXCEPT ![p] = r] /\ UNCHANGED oauth
      BY <1>2 DEF Callback
  <2> HIDE DEF r
  <2>3. request' \in [Process -> Request] /\ Carried'
      BY <2>1, <2>2, RequestReads
  <2> QED
      BY <1>2, <2>3 DEF Callback, TypeInv, TypeOK, Numbered, Request
<1>3. ASSUME NEW p \in Process, TakeVerifier(p) PROVE TypeInv'
  <2>1. request' \in [Process -> Request] /\ Carried'
      BY <1>3, RequestMoves DEF TakeVerifier
  <2> QED
      BY <1>3, <2>1 DEF TakeVerifier, TypeInv, TypeOK, Numbered, Request
<1>4. ASSUME NEW p \in Process, UseState(p) PROVE TypeInv'
  <2> DEFINE s == request[p].state
  <2>1. s \in DOMAIN oauth
      BY <1>4 DEF UseState, TypeInv, Carried
  <2>2. oauth' \in {oauth, [oauth EXCEPT ![s].used = TRUE]}
      BY <1>4 DEF UseState
  <2>3. PICK n \in 0..MaxStates : oauth \in [1..n -> Row]
      BY DEF TypeInv, Numbered
  <2>4. oauth' \in [1..n -> Row]
    <3>1. oauth[s] \in Row /\ [oauth[s] EXCEPT !.used = TRUE] \in Row
        BY <2>1, <2>3 DEF Row
    <3> QED
        BY <2>1, <2>2, <2>3, <3>1
  <2>5. request' \in [Process -> Request] /\ Carried'
      BY <1>4, <2>3, <2>4, RequestMoves DEF UseState
  <2>6. DOMAIN oauth' \subseteq State /\ \A t \in DOMAIN oauth' : oauth'[t] \in Row
      BY <2>3, <2>4 DEF TypeInv, TypeOK
  <2>7. verifier' \subseteq Process \X State /\ sealed' \subseteq State
      BY <1>4 DEF UseState, TypeInv, TypeOK
  <2>8. TypeOK'
      BY <1>4, <2>5, <2>6, <2>7 DEF UseState, TypeInv, TypeOK, Request, Row
  <2> QED
      BY <2>4, <2>5, <2>8 DEF TypeInv, Numbered
<1>5. ASSUME NEW p \in Process, Exchange(p) \/ ExchangeAgain(p) PROVE TypeInv'
  <2>0. /\ request[p] \in Request /\ request[p].at \in {"exchange", "again"}
        /\ request[p].state \in DOMAIN oauth
        /\ Ends(p) \/ (request[p].at = "exchange" /\ Goes(p, "again"))
           \/ \E a \in Account : request' = [request EXCEPT ![p].at = "install", ![p].account = a]
        /\ UNCHANGED <<now, crashes, oauth, verifier, sealed, install, token, received, quarantined>>
      BY <1>5 DEF Exchange, ExchangeAgain, Answered, TypeInv, TypeOK, Carried, Request
  <2>1. request' \in [Process -> Request] /\ Carried'
    <3>1. CASE Ends(p) \/ (request[p].at = "exchange" /\ Goes(p, "again"))
        BY <2>0, <3>1, RequestMoves
    <3>2. ASSUME NEW a \in Account,
                 request' = [request EXCEPT ![p].at = "install", ![p].account = a]
          PROVE  request' \in [Process -> Request] /\ Carried'
      <4> DEFINE r == [request[p] EXCEPT !.at = "install", !.account = a]
      <4>2. r \in Request /\ r.at = "install" /\ r.account = a /\ r.state = request[p].state
          BY <2>0 DEF Request
      <4>3. request' = [request EXCEPT ![p] = r]
          BY <3>2 DEF TypeInv, TypeOK
      <4> HIDE DEF r
      <4> QED
          BY <2>0, <4>2, <4>3, RequestReads
    <3> QED
        BY <2>0, <3>1, <3>2
  <2> QED
      BY <2>0, <2>1 DEF TypeInv, TypeOK, Numbered, Request
<1>6. ASSUME NEW p \in Process, Activate(p) PROVE TypeInv'
  <2>1. /\ request[p] \in Request /\ request[p].at = "install"
        /\ request[p].state \in DOMAIN oauth /\ request[p].account \in Account
      BY <1>6 DEF Activate, TypeInv, TypeOK, Carried, Request
  <2>2. \/ Ends(p) /\ UNCHANGED install
        \/ \E i \in Installation :
            /\ install' = [install EXCEPT ![i] = [status |-> "active", account |-> request[p].account]]
            /\ request' = [request EXCEPT ![p].at = "store", ![p].install = i]
      BY <1>6, <2>1 DEF Activate, Request
  <2>3. CASE Ends(p) /\ UNCHANGED install
    <3>1. request' \in [Process -> Request] /\ Carried'
        BY <1>6, <2>3, RequestMoves DEF Activate
    <3> QED
        BY <1>6, <2>3, <3>1 DEF Activate, TypeInv, TypeOK, Numbered, Request
  <2>4. ASSUME NEW i \in Installation,
               install' = [install EXCEPT ![i] = [status |-> "active", account |-> request[p].account]],
               request' = [request EXCEPT ![p].at = "store", ![p].install = i]
        PROVE  TypeInv'
    <3> DEFINE r == [request[p] EXCEPT !.at = "store", !.install = i]
    <3>1. /\ r \in Request /\ r.at = "store" /\ r.account = request[p].account
          /\ r.state = request[p].state /\ r.install = i
        BY <2>1 DEF Request
    <3>2. request' = [request EXCEPT ![p] = r]
        BY <2>4 DEF TypeInv, TypeOK
    <3> HIDE DEF r
    <3>3. request' \in [Process -> Request] /\ Carried'
        BY <1>6, <2>1, <3>1, <3>2, RequestReads DEF Activate
    <3> QED
        BY <1>6, <2>1, <2>4, <3>3 DEF Activate, TypeInv, TypeOK, Numbered, Request
  <2> QED
      BY <2>2, <2>3, <2>4
<1>7. ASSUME NEW p \in Process, StoreToken(p) PROVE TypeInv'
  <2>1. /\ request[p].state \in DOMAIN oauth /\ request[p].account \in Account
        /\ request[p].install \in Installation
      BY <1>7 DEF StoreToken, TypeInv, Carried
  <2>2. oauth[request[p].state].where \in Where /\ now + 1 \in Nat
      BY <2>1 DEF TypeInv, TypeOK, Time
  <2>3. token' \in [Where \X Installation -> [account: Account, expires: Nat] \cup {None}]
      BY <1>7, <2>1, <2>2 DEF StoreToken, TypeInv, TypeOK
  <2>4. request' \in [Process -> Request] /\ Carried'
      BY <1>7, RequestMoves DEF StoreToken
  <2> QED
      BY <1>7, <2>3, <2>4 DEF StoreToken, TypeInv, TypeOK, Numbered, Request
<1>8. ASSUME NEW i \in Installation, NEW a \in Account, Register(i, a) PROVE TypeInv'
    BY <1>8 DEF Register, TypeInv, TypeOK, Numbered, Carried
<1>9. ASSUME NEW p \in Process, NEW i \in Installation, RevokeToken(p, i) PROVE TypeInv'
  <2> DEFINE r == [Nothing EXCEPT !.at = "unlink", !.install = i]
  <2>1. r \in Request /\ r.at = "unlink" /\ r.install = i
      BY DEF Nothing, Request
  <2>2. request' = [request EXCEPT ![p] = r] /\ UNCHANGED oauth
      BY <1>9 DEF RevokeToken
  <2> HIDE DEF r
  <2>3. request' \in [Process -> Request] /\ Carried'
      BY <2>1, <2>2, RequestReads
  <2>4. token' \in [Where \X Installation -> [account: Account, expires: Nat] \cup {None}]
      BY <1>9 DEF RevokeToken, TypeInv, TypeOK
  <2> QED
      BY <1>9, <2>3, <2>4 DEF RevokeToken, TypeInv, TypeOK, Numbered, Request
<1>10. ASSUME NEW p \in Process, RevokeInstallation(p) PROVE TypeInv'
  <2>1. request[p].install \in Installation
      BY <1>10 DEF RevokeInstallation, TypeInv, Carried
  <2>2. install' \in [Installation -> [status: {"none", "disabled", "active", "revoked"},
                                       account: Account \cup {None}]]
      BY <1>10, <2>1 DEF RevokeInstallation, TypeInv, TypeOK
  <2>3. request' \in [Process -> Request] /\ Carried'
      BY <1>10, RequestMoves DEF RevokeInstallation
  <2> QED
      BY <1>10, <2>2, <2>3 DEF RevokeInstallation, TypeInv, TypeOK, Numbered, Request
<1>11. ASSUME NEW i \in Installation, NEW b \in Body, Quarantine(i, b) PROVE TypeInv'
    BY <1>11 DEF Quarantine, TypeInv, TypeOK, Numbered, Carried
<1>12. ASSUME NEW p \in Process, NEW i \in Installation, NEW b \in Body, Receive(p, i, b)
       PROVE  TypeInv'
  <2> DEFINE r == [Nothing EXCEPT !.at = "receipt", !.install = i, !.body = b]
  <2>1. r \in Request /\ r.at = "receipt" /\ r.install = i /\ r.body = b
      BY DEF Nothing, Request
  <2>2. request' = [request EXCEPT ![p] = r] /\ UNCHANGED oauth
      BY <1>12 DEF Receive
  <2> HIDE DEF r
  <2>3. request' \in [Process -> Request] /\ Carried'
      BY <2>1, <2>2, RequestReads
  <2> QED
      BY <1>12, <2>3 DEF Receive, TypeInv, TypeOK, Numbered, Request
<1>13. ASSUME NEW p \in Process, Accept(p) PROVE TypeInv'
  <2>1. request[p].install \in Installation /\ request[p].body \in Body
      BY <1>13 DEF Accept, TypeInv, Carried
  <2>2. request' \in [Process -> Request] /\ Carried'
      BY <1>13, RequestMoves DEF Accept
  <2> QED
      BY <1>13, <2>1, <2>2 DEF Accept, TypeInv, TypeOK, Numbered, Request
<1>14. ASSUME NEW p \in Process, Crash(p) PROVE TypeInv'
  <2>1. request' \in [Process -> Request] /\ Carried'
      BY <1>14, RequestMoves DEF Crash
  <2>2. crashes' \in 0..MaxCrashes
      BY <1>14, OAuthAssumption DEF Crash, TypeInv, TypeOK
  <2>3. UNCHANGED <<now, oauth, sealed, install, token, received>> /\ verifier' \subseteq verifier
      BY <1>14 DEF Crash
  <2> QED
      BY <2>1, <2>2, <2>3 DEF TypeInv, TypeOK, Numbered, Request
<1>15. CASE Tick
  <2>1. now' \in Time
      BY <1>15, OAuthAssumption DEF Tick, Time, TypeInv, TypeOK
  <2>2. UNCHANGED <<crashes, oauth, verifier, sealed, install, token, received, request>>
      BY <1>15 DEF Tick
  <2> QED
      BY <2>1, <2>2 DEF TypeInv, TypeOK, Numbered, Carried
<1>16. CASE UNCHANGED vars
    BY <1>16 DEF vars, TypeInv, TypeOK, Numbered, Carried
<1> QED
    BY <1>1, <1>2, <1>3, <1>4, <1>5, <1>6, <1>7, <1>8, <1>9, <1>10, <1>11, <1>12, <1>13,
       <1>14, <1>15, <1>16 DEF Next
------------------------------------------------------------------------------
(* One exchange for a handshake *)

LEMMA InvInit == Init => Inv
<1> SUFFICES ASSUME Init PROVE Inv
    OBVIOUS
<1>1. Alone /\ Spent
    BY DEF Init, Alone, AtProvider, Spent, Calls, NoCall, Nothing
<1> QED
    BY <1>1, TypeInvInit DEF Inv

\* A step after which nobody new may go to the provider.
LEMMA NobodyNew ==
    ASSUME Inv, NEW p \in Process,
           \A q \in Process : q # p => request'[q] = request[q],
           request'[p].at \in {"exchange", "again"} => request'[p] = request[p],
           UNCHANGED exchanges,
           DOMAIN oauth \subseteq DOMAIN oauth',
           \A s \in DOMAIN oauth : oauth[s].used => oauth'[s].used
    PROVE  Alone' /\ Spent'
<1>1. \A q \in Process : AtProvider(q)' => request'[q] = request[q] /\ AtProvider(q)
    BY DEF AtProvider
<1>2. \A q \in Process : AtProvider(q) => request[q].state \in DOMAIN oauth
    BY DEF Inv, TypeInv, Carried, AtProvider
<1>3. Alone'
    BY <1>1, <1>2 DEF Inv, Alone
<1>4. Spent'
    BY DEF Inv, Spent
<1> QED
    BY <1>3, <1>4

\* Of those who took the verifier, the one that uses the state up goes on: nobody has been at
\* the provider with it, for a state with which somebody was is used.
LEMMA UseKeepsInv ==
    ASSUME Inv, NEW p \in Process, UseState(p)
    PROVE  Alone' /\ Spent'
<1> DEFINE s == request[p].state
<1>1. s \in DOMAIN oauth /\ s \in State /\ request \in [Process -> Request]
    BY DEF UseState, Inv, TypeInv, TypeOK, Carried, Request
<1>2. CASE StillUnused(s)
  <2>1. /\ oauth' = [oauth EXCEPT ![s].used = TRUE]
        /\ request' = [request EXCEPT ![p].at = "exchange"]
        /\ UNCHANGED exchanges
      BY <1>2 DEF UseState, Goes
  <2>2. /\ request'[p].at = "exchange" /\ request'[p].state = s
        /\ \A q \in Process : q # p => request'[q] = request[q]
      BY <1>1, <2>1 DEF Request
  <2>3. /\ DOMAIN oauth' = DOMAIN oauth /\ oauth'[s].used
        /\ \A t \in DOMAIN oauth : oauth[t].used => oauth'[t].used
      BY <1>1, <2>1 DEF Inv, TypeInv, TypeOK
  <2>4. exchanges[s].named = 0 /\ exchanges[s].positional = 0
      BY <1>1, <1>2 DEF Inv, Spent, StillUnused, Calls
  <2>5. \A q \in Process : AtProvider(q) => request[q].state # s
      BY <1>2 DEF Inv, Alone, StillUnused
  <2>6. \A q \in Process : AtProvider(q) => request[q].state \in DOMAIN oauth
      BY DEF Inv, TypeInv, Carried, AtProvider
  <2>a. \A q \in Process : q # p => (AtProvider(q)' <=> AtProvider(q))
      BY <2>2 DEF AtProvider
  <2>7. Alone'
      BY <2>1, <2>2, <2>3, <2>4, <2>5, <2>6, <2>a DEF Inv, Alone
  <2>8. Spent'
      BY <2>1, <2>3 DEF Inv, Spent
  <2> QED
      BY <2>7, <2>8
<1>3. CASE ~StillUnused(s)
  <2>1. request' = [request EXCEPT ![p] = Nothing] /\ UNCHANGED <<oauth, exchanges>>
      BY <1>3 DEF UseState, Ends
  <2>2. /\ request'[p].at \notin {"exchange", "again"}
        /\ \A q \in Process : q # p => request'[q] = request[q]
      BY <1>1, <2>1 DEF Nothing
  <2> QED
      BY <2>1, <2>2, NobodyNew
<1> QED
    BY <1>2, <1>3

\* Who is at the provider leaves it or calls again, and its state stays used.
LEMMA ExchangeKeepsInv ==
    ASSUME Inv, NEW p \in Process, Exchange(p) \/ ExchangeAgain(p)
    PROVE  Alone' /\ Spent'
<1> DEFINE s == request[p].state
<1>1. s \in DOMAIN oauth /\ s \in State /\ request \in [Process -> Request] /\ AtProvider(p)
    BY DEF Exchange, ExchangeAgain, AtProvider, Inv, TypeInv, TypeOK, Carried, Request
<1>2. /\ oauth[s].used /\ exchanges[s].positional = 0 /\ exchanges \in [State -> Calls]
      /\ exchanges[s].named = IF request[p].at = "again" THEN 1 ELSE 0
      /\ exchanges[s] \in Calls
    BY <1>1 DEF Inv, Alone, Spent
<1>3. UNCHANGED oauth /\ \A q \in Process : q # p => request'[q] = request[q]
    BY <1>1 DEF Exchange, ExchangeAgain, Answered, Ends, Goes, Request
<1>4. \A q \in Process : q # p => (AtProvider(q)' <=> AtProvider(q))
    BY <1>3 DEF AtProvider
<1>5. \A q \in Process : q # p /\ AtProvider(q) => request[q].state # s
    BY <1>1 DEF Inv, Alone
<1>6. CASE Exchange(p)
  <2> DEFINE calls == [exchanges[s] EXCEPT !.named = @ + 1]
  <2>1. exchanges' = [exchanges EXCEPT ![s] = calls]
      BY <1>1, <1>2, <1>6 DEF Exchange
  <2>2. request[p].at = "exchange" /\ exchanges[s].named = 0
      BY <1>2, <1>6 DEF Exchange
  <2>3. exchanges[s].named + 1 = 1
      BY <2>2
  <2>4. calls \in Calls /\ calls.named = 1 /\ calls.positional = 0
      BY <1>2, <2>3 DEF Calls
  <2> HIDE DEF calls
  <2>5. /\ exchanges' \in [State -> Calls] /\ exchanges'[s] = calls
        /\ \A t \in State : t # s => exchanges'[t] = exchanges[t]
      BY <1>1, <1>2, <2>1, <2>4
  <2>6. AtProvider(p)' => request'[p].at = "again" /\ request'[p].state = s
      BY <1>1, <1>6, <2>2 DEF Exchange, Answered, Ends, Goes, Nothing, Request, AtProvider
  <2>7. Alone'
    <3> SUFFICES ASSUME NEW q \in Process, AtProvider(q)'
                 PROVE  /\ oauth'[request'[q].state].used
                        /\ exchanges'[request'[q].state].positional = 0
                        /\ exchanges'[request'[q].state].named =
                                IF request'[q].at = "again" THEN 1 ELSE 0
                        /\ \A o \in Process :
                                (o # q /\ AtProvider(o)') => request'[o].state # request'[q].state
        BY DEF Alone
    <3>1. CASE q = p
        BY <1>2, <1>3, <1>4, <1>5, <2>4, <2>5, <2>6, <3>1
    <3>2. CASE q # p
      <4>1. AtProvider(q) /\ request'[q] = request[q] /\ request[q].state \in State
          BY <1>1, <1>3, <1>4, <3>2 DEF AtProvider, Inv, TypeInv, TypeOK, Carried, Request
      <4>2. request[q].state # s
          BY <1>5, <3>2, <4>1
      <4> QED
          BY <1>3, <1>4, <2>5, <2>6, <3>2, <4>1, <4>2 DEF Inv, Alone
    <3> QED
        BY <3>1, <3>2
  <2>8. Spent'
      BY <1>1, <1>2, <1>3, <2>4, <2>5 DEF Inv, Spent
  <2> QED
      BY <2>7, <2>8
<1>7. CASE ExchangeAgain(p)
  <2> DEFINE calls == [exchanges[s] EXCEPT !.positional = @ + 1]
  <2>1. exchanges' = [exchanges EXCEPT ![s] = calls]
      BY <1>1, <1>2, <1>7 DEF ExchangeAgain
  <2>2. request[p].at = "again" /\ exchanges[s].named = 1
      BY <1>2, <1>7 DEF ExchangeAgain
  <2>3. exchanges[s].positional + 1 = 1
      BY <1>2
  <2>4. calls \in Calls /\ calls.named = 1 /\ calls.positional = 1
      BY <1>2, <2>2, <2>3 DEF Calls
  <2> HIDE DEF calls
  <2>5. /\ exchanges' \in [State -> Calls] /\ exchanges'[s] = calls
        /\ \A t \in State : t # s => exchanges'[t] = exchanges[t]
      BY <1>1, <1>2, <2>1, <2>4
  <2>6. ~AtProvider(p)'
      BY <1>1, <1>7 DEF ExchangeAgain, Answered, Ends, Nothing, Request, AtProvider
  <2>7. Alone'
    <3> SUFFICES ASSUME NEW q \in Process, AtProvider(q)'
                 PROVE  /\ oauth'[request'[q].state].used
                        /\ exchanges'[request'[q].state].positional = 0
                        /\ exchanges'[request'[q].state].named =
                                IF request'[q].at = "again" THEN 1 ELSE 0
                        /\ \A o \in Process :
                                (o # q /\ AtProvider(o)') => request'[o].state # request'[q].state
        BY DEF Alone
    <3>1. /\ q # p /\ AtProvider(q) /\ request'[q] = request[q] /\ request[q].state \in State
          /\ request[q].state # s
        BY <1>1, <1>3, <1>4, <1>5, <2>6 DEF AtProvider, Inv, TypeInv, TypeOK, Carried, Request
    <3> QED
        BY <1>3, <1>4, <2>5, <2>6, <3>1 DEF Inv, Alone
  <2>8. Spent'
      BY <1>1, <1>2, <1>3, <2>4, <2>5 DEF Inv, Spent
  <2> QED
      BY <2>7, <2>8
<1> QED
    BY <1>6, <1>7

LEMMA InvNext == Inv /\ [Next]_vars => Inv'
<1> SUFFICES ASSUME Inv, [Next]_vars PROVE Alone' /\ Spent'
    BY TypeInvNext DEF Inv
<1>1. request \in [Process -> Request] /\ \E n \in 0..MaxStates : oauth \in [1..n -> Row]
    BY DEF Inv, TypeInv, TypeOK, Numbered, Request
<1>2. ASSUME NEW p \in Process, NEW where \in Where, NEW i \in Installation \cup {None},
             Begin(p, where, i)
      PROVE  Alone' /\ Spent'
  <2>1. PICK n \in 0..MaxStates :
            /\ n < MaxStates /\ oauth \in [1..n -> Row] /\ oauth' \in [1..(n + 1) -> Row]
            /\ \A s \in 1..n : oauth'[s] = oauth[s]
      BY <1>2, BeginNumbers DEF Inv
  <2>2. UNCHANGED <<request, exchanges>>
      BY <1>2 DEF Begin
  <2> QED
      BY <2>1, <2>2, NobodyNew
<1>3. ASSUME NEW p \in Process, UseState(p) PROVE Alone' /\ Spent'
    BY <1>3, UseKeepsInv
<1>4. ASSUME NEW p \in Process, Exchange(p) \/ ExchangeAgain(p) PROVE Alone' /\ Spent'
    BY <1>4, ExchangeKeepsInv
<1>5. ASSUME NEW p \in Process,
             \/ \E s \in State : Callback(p, s)
             \/ TakeVerifier(p) \/ Activate(p) \/ StoreToken(p)
             \/ \E i \in Installation : RevokeToken(p, i)
             \/ RevokeInstallation(p)
             \/ \E i \in Installation, b \in Body : Receive(p, i, b)
             \/ Accept(p) \/ Crash(p)
      PROVE  Alone' /\ Spent'
  <2>1. UNCHANGED <<oauth, exchanges>>
      BY <1>5 DEF Callback, TakeVerifier, Activate, StoreToken, RevokeToken, RevokeInstallation,
                  Receive, Accept, Crash
  <2>2. \/ Ends(p)
        \/ Goes(p, "use")
        \/ \E s \in State : request' = [request EXCEPT ![p] =
                [Nothing EXCEPT !.at = "take", !.state = s, !.install = oauth[s].install]]
        \/ \E i \in Installation : request' = [request EXCEPT ![p].at = "store", ![p].install = i]
        \/ \E i \in Installation : request' = [request EXCEPT ![p] =
                [Nothing EXCEPT !.at = "unlink", !.install = i]]
        \/ \E i \in Installation, b \in Body : request' = [request EXCEPT ![p] =
                [Nothing EXCEPT !.at = "receipt", !.install = i, !.body = b]]
    <3>1. CASE Activate(p)
        BY <1>1, <3>1 DEF Activate, Request
    <3> QED
        BY <1>5, <3>1 DEF Callback, TakeVerifier, StoreToken, RevokeToken, RevokeInstallation,
                          Receive, Accept, Crash
  <2>3. CASE Ends(p) \/ Goes(p, "use")
    <3>1. request'[p].at \notin {"exchange", "again"} /\ \A q \in Process : q # p => request'[q] = request[q]
        BY <1>1, <2>3 DEF Ends, Goes, Nothing, Request
    <3> QED
        BY <2>1, <3>1, NobodyNew
  <2>4. ASSUME NEW s \in State, request' = [request EXCEPT ![p] =
                    [Nothing EXCEPT !.at = "take", !.state = s, !.install = oauth[s].install]]
        PROVE  Alone' /\ Spent'
    <3>1. request'[p].at \notin {"exchange", "again"} /\ \A q \in Process : q # p => request'[q] = request[q]
        BY <1>1, <2>4 DEF Nothing
    <3> QED
        BY <2>1, <3>1, NobodyNew
  <2>5. ASSUME NEW i \in Installation,
               \/ request' = [request EXCEPT ![p].at = "store", ![p].install = i]
               \/ request' = [request EXCEPT ![p] = [Nothing EXCEPT !.at = "unlink", !.install = i]]
        PROVE  Alone' /\ Spent'
    <3>1. CASE request' = [request EXCEPT ![p].at = "store", ![p].install = i]
      <4> DEFINE mine == [request[p] EXCEPT !.at = "store"]
                 then == [mine EXCEPT !.install = i]
      <4>1. request' = [request EXCEPT ![p] = then]
          BY <1>1, <3>1
      <4>2. mine.at = "store" /\ mine \in Request
          BY <1>1 DEF Request
      <4>3. then.at \notin {"exchange", "again"}
        <5> HIDE DEF mine
        <5> QED
            BY <4>2 DEF Request
      <4> HIDE DEF then
      <4>4. request'[p].at \notin {"exchange", "again"} /\ \A q \in Process : q # p => request'[q] = request[q]
          BY <1>1, <4>1, <4>3
      <4> QED
          BY <2>1, <4>4, NobodyNew
    <3>2. CASE request' = [request EXCEPT ![p] =
                    [Nothing EXCEPT !.at = "unlink", !.install = i]]
      <4>1. request'[p].at \notin {"exchange", "again"} /\ \A q \in Process : q # p => request'[q] = request[q]
          BY <1>1, <3>2 DEF Nothing
      <4> QED
          BY <2>1, <4>1, NobodyNew
    <3> QED
        BY <2>5, <3>1, <3>2
  <2>6. ASSUME NEW i \in Installation, NEW b \in Body, request' = [request EXCEPT ![p] =
                    [Nothing EXCEPT !.at = "receipt", !.install = i, !.body = b]]
        PROVE  Alone' /\ Spent'
    <3>1. request'[p].at \notin {"exchange", "again"} /\ \A q \in Process : q # p => request'[q] = request[q]
        BY <1>1, <2>6 DEF Nothing
    <3> QED
        BY <2>1, <3>1, NobodyNew
  <2> QED
      BY <2>2, <2>3, <2>4, <2>5, <2>6
<1>6. CASE \/ \E i \in Installation, a \in Account : Register(i, a)
           \/ \E i \in Installation, b \in Body : Quarantine(i, b)
           \/ Tick \/ UNCHANGED vars
    BY <1>6 DEF Register, Quarantine, Tick, vars, Inv, Alone, AtProvider, Spent
<1> QED
    BY <1>2, <1>3, <1>4, <1>5, <1>6 DEF Next
------------------------------------------------------------------------------
(* Theorems *)

(* Every reachable state is well typed, and a handshake that went to the      *)
(* provider, or is about to, was used up by the one process that takes it     *)
(* there (_consume_with_verifier).                                            *)
THEOREM Invariance == Spec => []Inv
BY InvInit, InvNext, PTL DEF Spec

(* For any number of processes, callbacks and crashes, a handshake is taken   *)
(* to the provider at most once.                                              *)
THEOREM ExchangedOnceHolds == Spec => []ExchangedOnce
<1>1. ASSUME Inv, NEW s \in State
      PROVE  exchanges[s].named <= 1 /\ exchanges[s].positional <= exchanges[s].named
  <2>1. exchanges[s].named \in {0, 1} /\ exchanges[s].positional \in {0, 1}
      BY <1>1 DEF Inv, Spent, Calls
  <2>2. exchanges[s].positional = 1 => exchanges[s].named = 1
      BY <1>1 DEF Inv, Spent
  <2> QED
      BY <2>1, <2>2
<1>2. Inv => ExchangedOnce
    BY <1>1 DEF ExchangedOnce
<1> QED
    BY <1>2, Invariance, PTL
------------------------------------------------------------------------------
(* Invitations                                                              *)

Credential == [person: Person, scopes: SUBSET Access!Capability, expires: Nat, revoked: BOOLEAN,
               invite: 1..MaxInvites \cup {None}]
Invite == [person: Person, binds: BOOLEAN, expires: Nat, revoked: BOOLEAN, consumed: BOOLEAN]
Asking == [at: {"idle", "consume", "revoke", "renew"},
           on: 1..(MaxCredentials + MaxInvites) \cup {None}]

AccessTypes ==
    /\ accessNow \in 0..MaxTime /\ accessCrashes \in 0..MaxCrashes
    /\ member \in [Person -> WorkspaceRole \cup {None}]
    /\ principal \in [Person -> {"none", "active", "disabled"}] /\ actor \in Person \cup {None}

Sessions ==
    /\ credential \in Seq(Credential) /\ Len(credential) <= MaxCredentials
    /\ invite \in Seq(Invite) /\ Len(invite) <= MaxInvites
    /\ \A c \in 1..Len(credential) : credential[c].invite \in 1..Len(invite) \cup {None}

\* A request is about what was there when it read.
Asked ==
    /\ accessRequest \in [Process -> Asking]
    /\ \A p \in Process :
        /\ accessRequest[p].at \in {"consume", "revoke"} => accessRequest[p].on \in 1..Len(invite)
        /\ accessRequest[p].at = "renew" => accessRequest[p].on \in 1..Len(credential)

\* A redeemed invitation has one session, any other none.
GivenOnce ==
    /\ \A i \in 1..Len(invite) :
        /\ invite[i].consumed => \E c \in 1..Len(credential) : credential[c].invite = i
        /\ ~invite[i].consumed => \A c \in 1..Len(credential) : credential[c].invite # i
    /\ \A c, d \in 1..Len(credential) :
        credential[c].invite # None /\ credential[c].invite = credential[d].invite => c = d

\* What a redeemed invitation gave besides stays.
Granted ==
    \A i \in 1..Len(invite) : invite[i].consumed =>
        /\ principal[invite[i].person] # "none"
        /\ invite[i].binds => actor = invite[i].person

AccessInv == AccessTypes /\ Sessions /\ Asked /\ GivenOnce /\ Granted

LEMMA AccessBounds ==
    /\ MaxTime \in Nat /\ Lifetime \in Nat /\ MaxCredentials \in Nat /\ MaxInvites \in Nat
    /\ MaxCrashes \in Nat /\ None \notin Nat /\ None \notin Person /\ MaxCredentials # 0
BY AccessAssumption DEF Access!AccessAssumption

LEMMA SessionType ==
    ASSUME AccessTypes, NEW x \in Person, NEW i \in 1..MaxInvites \cup {None}
    PROVE  /\ Access!NewSession(x, i) \in Credential
           /\ Access!NewSession(x, i).invite = i
BY AccessBounds DEF AccessTypes, Access!NewSession, Credential

LEMMA IdleAsking == Access!Idle \in Asking /\ Access!Idle.at = "idle"
BY DEF Access!Idle, Asking

LEMMA AccessInit == Access!Init => AccessInv
<1> SUFFICES ASSUME Access!Init PROVE AccessInv
    OBVIOUS
<1>1. AccessTypes
    BY AccessBounds DEF Access!Init, AccessTypes
<1>2. PICK x \in Person : credential = <<Access!NewSession(x, None)>>
    BY DEF Access!Init
<1> DEFINE s == Access!NewSession(x, None)
<1>3. s \in Credential /\ s.invite = None
    BY <1>1, SessionType
<1> HIDE DEF s
<1>4. credential = <<s>>
    BY <1>2 DEF s
<1>5. credential \in Seq(Credential) /\ Len(credential) = 1 /\ credential[1] = s
    BY <1>3, <1>4
<1>6. invite = <<>> /\ invite \in Seq(Invite) /\ Len(invite) = 0
    BY DEF Access!Init
<1>7. Asked
    BY IdleAsking DEF Access!Init, Asked
<1>8. GivenOnce /\ Granted
    BY <1>3, <1>5, <1>6 DEF GivenOnce, Granted
<1>9. Sessions
    BY <1>3, <1>5, <1>6, AccessBounds DEF Sessions
<1> QED
    BY <1>1, <1>7, <1>8, <1>9 DEF AccessInv

\* A session that came from no invitation, or none at all, is added.
LEMMA SessionAdded ==
    ASSUME AccessInv, NEW s \in Credential, s.invite = None,
           credential' = Append(credential, s), Len(credential) < MaxCredentials,
           UNCHANGED invite
    PROVE  /\ (Sessions /\ GivenOnce)' /\ Len(credential') = Len(credential) + 1
<1> DEFINE n == Len(credential)
<1>1. credential \in Seq(Credential) /\ n \in Nat /\ n < MaxCredentials
    BY DEF AccessInv, Sessions
<1>2. /\ credential' \in Seq(Credential) /\ Len(credential') = n + 1
      /\ \A c \in 1..n : credential'[c] = credential[c]
      /\ credential'[n + 1] = s
    BY <1>1
<1>3. \A c \in 1..(n + 1) : c \in 1..n \/ c = n + 1
    BY <1>1
<1> HIDE DEF n
<1>4. Sessions'
  <2>1. \A c \in 1..(n + 1) : credential'[c].invite \in 1..Len(invite) \cup {None}
      BY <1>2, <1>3 DEF AccessInv, Sessions, n
  <2> QED
      BY <1>1, <1>2, <2>1, AccessBounds DEF AccessInv, Sessions
<1>5. \A c, d \in 1..(n + 1) :
        credential'[c].invite # None /\ credential'[c].invite = credential'[d].invite => c = d
  <2>1. ASSUME NEW c \in 1..(n + 1), NEW d \in 1..(n + 1), credential'[c].invite # None,
               credential'[c].invite = credential'[d].invite
        PROVE  c = d
    <3>1. c \in 1..n /\ d \in 1..n
        BY <1>2, <1>3, <2>1
    <3> QED
        BY <1>2, <2>1, <3>1 DEF AccessInv, GivenOnce, n
  <2> QED
      BY <2>1
<1>6. ASSUME NEW i \in 1..Len(invite)
      PROVE  /\ invite[i].consumed => \E c \in 1..(n + 1) : credential'[c].invite = i
             /\ ~invite[i].consumed => \A c \in 1..(n + 1) : credential'[c].invite # i
  <2>1. i # None
      BY AccessBounds
  <2>2. 1..n \subseteq 1..(n + 1)
      BY <1>1
  <2> QED
      BY <1>2, <1>3, <2>1, <2>2 DEF AccessInv, GivenOnce, n
<1> QED
    BY <1>2, <1>4, <1>5, <1>6 DEF GivenOnce, n

\* A session ends.
LEMMA SessionEnds ==
    ASSUME AccessInv, NEW c \in DOMAIN credential,
           credential' = [credential EXCEPT ![c].revoked = TRUE], UNCHANGED invite
    PROVE  (Sessions /\ GivenOnce)' /\ Len(credential') = Len(credential)
<1> DEFINE n == Len(credential)
           ended == [credential[c] EXCEPT !.revoked = TRUE]
<1>1. credential \in Seq(Credential) /\ n \in Nat /\ n <= MaxCredentials /\ c \in 1..n
    BY DEF AccessInv, Sessions
<1>2. ended \in Credential /\ ended.invite = credential[c].invite
  <2>1. credential[c] \in Credential
      BY <1>1
  <2> QED
      BY <2>1 DEF Credential
<1>3. credential' = [credential EXCEPT ![c] = ended]
    OBVIOUS
<1> HIDE DEF ended
<1>4. credential' \in Seq(Credential) /\ Len(credential') = n
  <2>1. credential \in [1..n -> Credential]
      BY <1>1
  <2> HIDE DEF n
  <2>2. credential' \in [1..n -> Credential]
      BY <1>2, <1>3, <2>1
  <2> QED
      BY <1>1, <2>2
<1>7. \A d \in 1..n : credential'[d].invite = credential[d].invite
    BY <1>1, <1>2, <1>3
<1>5. Sessions'
    BY <1>1, <1>4, <1>7 DEF AccessInv, Sessions
<1>6. GivenOnce'
    BY <1>4, <1>7 DEF AccessInv, GivenOnce
<1> QED
    BY <1>4, <1>5, <1>6

\* What a request goes on with.
GoesOn(r) ==
    \/ r.at = "idle"
    \/ r.at \in {"consume", "revoke"} /\ r.on \in 1..Len(invite)
    \/ r.at = "renew" /\ r.on \in 1..Len(credential)

LEMMA RequestGoesOn ==
    ASSUME AccessInv, NEW p \in Process, NEW r \in Asking, GoesOn(r),
           accessRequest' = [accessRequest EXCEPT ![p] = r]
    PROVE  /\ accessRequest' \in [Process -> Asking]
           /\ \A q \in Process : accessRequest'[q] = accessRequest[q] \/ GoesOn(accessRequest'[q])
BY DEF AccessInv, Asked

LEMMA RequestEnds ==
    ASSUME AccessInv, NEW p \in Process,
           accessRequest' = [accessRequest EXCEPT ![p] = Access!Idle]
    PROVE  /\ accessRequest' \in [Process -> Asking]
           /\ \A q \in Process : accessRequest'[q] = accessRequest[q] \/ GoesOn(accessRequest'[q])
<1> DEFINE r == Access!Idle
<1>1. r \in Asking /\ GoesOn(r)
    BY IdleAsking DEF GoesOn
<1>2. accessRequest' = [accessRequest EXCEPT ![p] = r]
    OBVIOUS
<1> HIDE DEF r
<1> QED
    BY <1>1, <1>2, RequestGoesOn

LEMMA AskedAgain ==
    ASSUME AccessInv, accessRequest' \in [Process -> Asking],
           \A q \in Process : accessRequest'[q] = accessRequest[q] \/ GoesOn(accessRequest'[q]),
           Len(invite) \in Nat, Len(invite') \in Nat, Len(credential) \in Nat, Len(credential') \in Nat,
           Len(invite) <= Len(invite'), Len(credential) <= Len(credential')
    PROVE  Asked'
<1>1. 1..Len(invite) \subseteq 1..Len(invite') /\ 1..Len(credential) \subseteq 1..Len(credential')
    OBVIOUS
<1> QED
    BY <1>1 DEF AccessInv, Asked, GoesOn

LEMMA AskedStill ==
    ASSUME AccessInv, UNCHANGED accessRequest,
           Len(invite) \in Nat, Len(invite') \in Nat, Len(credential) \in Nat, Len(credential') \in Nat,
           Len(invite) <= Len(invite'), Len(credential) <= Len(credential')
    PROVE  Asked'
<1>1. 1..Len(invite) \subseteq 1..Len(invite') /\ 1..Len(credential) \subseteq 1..Len(credential')
    OBVIOUS
<1> QED
    BY <1>1 DEF AccessInv, Asked

LEMMA Lengths == AccessInv => Len(invite) \in Nat /\ Len(credential) \in Nat
BY DEF AccessInv, Sessions

\* An action that leaves invitations and what they granted alone.
LEMMA GrantedStill ==
    ASSUME AccessInv, UNCHANGED <<invite, actor>>,
           \A x \in Person : principal[x] # "none" => principal'[x] # "none"
    PROVE  Granted'
<1>1. \A i \in 1..Len(invite) : invite[i].person \in Person
  <2>1. \A i \in 1..Len(invite) : invite[i] \in Invite
      BY DEF AccessInv, Sessions
  <2> QED
      BY <2>1 DEF Invite
<1> QED
    BY <1>1 DEF AccessInv, Granted

\* An invitation is added.
LEMMA InviteAdded ==
    ASSUME AccessInv, NEW v \in Invite, ~v.consumed, invite' = Append(invite, v),
           Len(invite) < MaxInvites, UNCHANGED <<credential, principal, actor>>
    PROVE  (Sessions /\ GivenOnce /\ Granted)' /\ Len(invite') = Len(invite) + 1
<1> DEFINE n == Len(invite)
<1>1. invite \in Seq(Invite) /\ n \in Nat /\ n < MaxInvites
    BY DEF AccessInv, Sessions
<1>2. /\ invite' \in Seq(Invite) /\ Len(invite') = n + 1
      /\ \A i \in 1..n : invite'[i] = invite[i]
      /\ invite'[n + 1] = v
    BY <1>1
<1>3. \A i \in 1..(n + 1) : i \in 1..n \/ i = n + 1
    BY <1>1
<1>4. \A c \in 1..Len(credential) : credential[c].invite \in 1..n \cup {None}
    BY DEF AccessInv, Sessions
<1>5. n + 1 \notin 1..n \cup {None} /\ 1..n \subseteq 1..(n + 1)
    BY <1>1, AccessBounds
<1> HIDE DEF n
<1>6. Sessions'
    BY <1>1, <1>2, <1>4, <1>5, AccessBounds DEF AccessInv, Sessions
<1>7. GivenOnce'
  <2>1. ASSUME NEW i \in 1..(n + 1)
        PROVE  /\ invite'[i].consumed => \E c \in 1..Len(credential) : credential[c].invite = i
               /\ ~invite'[i].consumed => \A c \in 1..Len(credential) : credential[c].invite # i
    <3>1. CASE i = n + 1
        BY <1>2, <1>4, <1>5, <3>1
    <3>2. CASE i \in 1..n
        BY <1>2, <3>2 DEF AccessInv, GivenOnce, n
    <3> QED
        BY <1>3, <3>1, <3>2
  <2> QED
      BY <1>2, <2>1 DEF AccessInv, GivenOnce
<1>8. Granted'
    BY <1>2, <1>3 DEF AccessInv, Granted, n
<1> QED
    BY <1>2, <1>6, <1>7, <1>8 DEF n

\* What is not consumed by it leaves an invitation as it is.
LEMMA InviteRevoked ==
    ASSUME AccessInv, NEW j \in 1..Len(invite),
           invite' = [invite EXCEPT ![j].revoked = TRUE], UNCHANGED <<credential, principal, actor>>
    PROVE  (Sessions /\ GivenOnce /\ Granted)' /\ Len(invite') = Len(invite)
<1> DEFINE n == Len(invite)
           revoked == [invite[j] EXCEPT !.revoked = TRUE]
<1>1. invite \in Seq(Invite) /\ n \in Nat /\ n <= MaxInvites /\ j \in 1..n
    BY DEF AccessInv, Sessions
<1>2. /\ revoked \in Invite /\ revoked.consumed = invite[j].consumed
      /\ revoked.person = invite[j].person /\ revoked.binds = invite[j].binds
  <2>1. invite[j] \in Invite
      BY <1>1
  <2> QED
      BY <2>1 DEF Invite
<1>3. invite' = [invite EXCEPT ![j] = revoked]
    OBVIOUS
<1> HIDE DEF revoked
<1>4. invite \in [1..n -> Invite]
    BY <1>1
<1>5. invite' \in Seq(Invite) /\ Len(invite') = n
  <2> HIDE DEF n
  <2>1. invite' \in [1..n -> Invite]
      BY <1>2, <1>3, <1>4
  <2> QED
      BY <1>1, <2>1
<1>6. \A i \in 1..n : /\ invite'[i].consumed = invite[i].consumed
                      /\ invite'[i].person = invite[i].person /\ invite'[i].binds = invite[i].binds
    BY <1>2, <1>3, <1>4
<1>7. Sessions'
    BY <1>1, <1>5 DEF AccessInv, Sessions
<1>8. GivenOnce'
    BY <1>5, <1>6 DEF AccessInv, GivenOnce
<1>9. Granted'
    BY <1>5, <1>6 DEF AccessInv, Granted
<1> QED
    BY <1>5, <1>7, <1>8, <1>9

\* An invitation nobody has redeemed gives its session.
LEMMA InviteRedeemed ==
    ASSUME AccessInv, NEW j \in 1..Len(invite), ~invite[j].consumed,
           NEW s \in Credential, s.invite = j, Len(credential) < MaxCredentials,
           invite' = [invite EXCEPT ![j].consumed = TRUE], credential' = Append(credential, s)
    PROVE  /\ (Sessions /\ GivenOnce)'
           /\ Len(invite') = Len(invite) /\ Len(credential') = Len(credential) + 1
           /\ \A i \in 1..Len(invite) :
                /\ invite'[i].person = invite[i].person /\ invite'[i].binds = invite[i].binds
                /\ i # j => invite'[i].consumed = invite[i].consumed
<1> DEFINE n == Len(invite)
           m == Len(credential)
           redeemed == [invite[j] EXCEPT !.consumed = TRUE]
<1>1. /\ invite \in Seq(Invite) /\ n \in Nat /\ n <= MaxInvites /\ j \in 1..n
      /\ credential \in Seq(Credential) /\ m \in Nat /\ m < MaxCredentials
    BY DEF AccessInv, Sessions
<1>2. /\ redeemed \in Invite /\ redeemed.consumed
      /\ redeemed.person = invite[j].person /\ redeemed.binds = invite[j].binds
  <2>1. invite[j] \in Invite
      BY <1>1
  <2> QED
      BY <2>1 DEF Invite
<1>3. invite' = [invite EXCEPT ![j] = redeemed]
    OBVIOUS
<1> HIDE DEF redeemed
<1>4. invite \in [1..n -> Invite]
    BY <1>1
<1>5. invite' \in Seq(Invite) /\ Len(invite') = n
  <2> HIDE DEF n
  <2>1. invite' \in [1..n -> Invite]
      BY <1>2, <1>3, <1>4
  <2> QED
      BY <1>1, <2>1
<1>6. \A i \in 1..n : /\ invite'[i].consumed = IF i = j THEN TRUE ELSE invite[i].consumed
                      /\ invite'[i].person = invite[i].person /\ invite'[i].binds = invite[i].binds
    BY <1>2, <1>3, <1>4
<1>7. /\ credential' \in Seq(Credential) /\ Len(credential') = m + 1
      /\ \A c \in 1..m : credential'[c] = credential[c]
      /\ credential'[m + 1] = s
    BY <1>1
<1>8. /\ \A c \in 1..(m + 1) : c \in 1..m \/ c = m + 1
      /\ 1..m \subseteq 1..(m + 1) /\ m + 1 \in 1..(m + 1) /\ j # None
    BY <1>1, AccessBounds
<1>9. \A c \in 1..m : credential[c].invite \in 1..n \cup {None} /\ credential[c].invite # j
    BY DEF AccessInv, Sessions, GivenOnce
<1> HIDE DEF n, m
<1>10. Sessions'
  <2>1. \A c \in 1..(m + 1) : credential'[c].invite \in 1..n \cup {None}
      BY <1>1, <1>7, <1>8, <1>9
  <2> QED
      BY <1>1, <1>5, <1>7, <2>1, AccessBounds DEF AccessInv, Sessions
<1>11. ASSUME NEW i \in 1..n
       PROVE  /\ invite'[i].consumed => \E c \in 1..(m + 1) : credential'[c].invite = i
              /\ ~invite'[i].consumed => \A c \in 1..(m + 1) : credential'[c].invite # i
  <2>1. CASE i = j
      BY <1>6, <1>7, <1>8, <2>1
  <2>2. CASE i # j
    <3>1. invite'[i].consumed = invite[i].consumed
        BY <1>6, <2>2
    <3>2. /\ invite[i].consumed => \E c \in 1..m : credential[c].invite = i
          /\ ~invite[i].consumed => \A c \in 1..m : credential[c].invite # i
        BY DEF AccessInv, GivenOnce, n, m
    <3> QED
        BY <1>7, <1>8, <2>2, <3>1, <3>2
  <2> QED
      BY <2>1, <2>2
<1>12. ASSUME NEW c \in 1..(m + 1), NEW d \in 1..(m + 1), credential'[c].invite # None,
              credential'[c].invite = credential'[d].invite
       PROVE  c = d
  <2>1. CASE c \in 1..m /\ d \in 1..m
      BY <1>7, <1>12, <2>1 DEF AccessInv, GivenOnce, m
  <2>2. CASE ~(c \in 1..m /\ d \in 1..m)
      BY <1>7, <1>8, <1>9, <1>12, <2>2
  <2> QED
      BY <2>1, <2>2
<1>13. GivenOnce'
    BY <1>5, <1>7, <1>11, <1>12 DEF GivenOnce
<1> QED
    BY <1>5, <1>6, <1>7, <1>10, <1>13 DEF n, m

\* The session a request gives, and what it goes on with.
LEMMA Asks ==
    /\ \A at \in {"consume", "revoke"}, i \in 1..MaxInvites : [at |-> at, on |-> i] \in Asking
    /\ \A c \in 1..MaxCredentials : [at |-> "renew", on |-> c] \in Asking
BY AccessBounds DEF Asking

LEMMA PersonOf == AccessInv =>
    /\ \A c \in 1..Len(credential) : credential[c].person \in Person
    /\ \A i \in 1..Len(invite) : invite[i].person \in Person /\ invite[i].binds \in BOOLEAN
<1> SUFFICES ASSUME AccessInv
             PROVE  /\ \A c \in 1..Len(credential) : credential[c].person \in Person
                    /\ \A i \in 1..Len(invite) : invite[i].person \in Person /\ invite[i].binds \in BOOLEAN
    OBVIOUS
<1>1. /\ \A c \in 1..Len(credential) : credential[c] \in Credential
      /\ \A i \in 1..Len(invite) : invite[i] \in Invite
    BY DEF AccessInv, Sessions
<1> QED
    BY <1>1 DEF Credential, Invite

\* A request of administration, or a member that joins: sessions and invitations stay.
LEMMA Administered ==
    ASSUME AccessInv, AccessTypes', UNCHANGED <<credential, invite, actor, accessRequest>>,
           \A x \in Person : principal[x] # "none" => principal'[x] # "none"
    PROVE  AccessInv'
<1>1. Sessions' /\ GivenOnce'
    BY DEF AccessInv, Sessions, GivenOnce
<1>2. Granted'
    BY GrantedStill
<1>3. Asked'
    BY Lengths, AskedStill
<1> QED
    BY <1>1, <1>2, <1>3 DEF AccessInv

\* A request reads, or ends: only where it stands changes.
LEMMA RequestOnly ==
    ASSUME AccessInv, NEW p \in Process, NEW r \in Asking,
           GoesOn(r), accessRequest' = [accessRequest EXCEPT ![p] = r], AccessTypes',
           UNCHANGED <<credential, invite, actor, principal>>
    PROVE  AccessInv'
<1>1. Sessions' /\ GivenOnce' /\ Granted'
    BY DEF AccessInv, Sessions, GivenOnce, Granted
<1>2. Asked'
  <2>1. /\ accessRequest' \in [Process -> Asking]
        /\ \A q \in Process : accessRequest'[q] = accessRequest[q] \/ GoesOn(accessRequest'[q])
      BY RequestGoesOn
  <2> QED
      BY <2>1, Lengths, AskedAgain
<1> QED
    BY <1>1, <1>2 DEF AccessInv

LEMMA RotateStep ==
    ASSUME AccessInv, NEW p \in Process, NEW c \in DOMAIN credential, Access!Rotate(p, c)
    PROVE  AccessInv'
<1>1. /\ c \in 1..Len(credential) /\ c \in 1..MaxCredentials
      /\ credential' = [credential EXCEPT ![c].revoked = TRUE]
      /\ accessRequest' = [accessRequest EXCEPT ![p] = [at |-> "renew", on |-> c]]
      /\ UNCHANGED <<accessNow, accessCrashes, member, principal, actor, invite>>
    BY AccessBounds DEF Access!Rotate, Access!Reads, AccessInv, Sessions
<1>2. (Sessions /\ GivenOnce)' /\ Len(credential') = Len(credential)
    BY <1>1, SessionEnds
<1>3. Granted' /\ AccessTypes'
    BY <1>1 DEF AccessInv, Granted, AccessTypes
<1>4. Asked'
  <2> DEFINE r == [at |-> "renew", on |-> c]
  <2>1. r \in Asking /\ GoesOn(r)
      BY <1>1, Asks DEF GoesOn
  <2> HIDE DEF r
  <2>2. accessRequest' = [accessRequest EXCEPT ![p] = r]
      BY <1>1 DEF r
  <2>3. /\ accessRequest' \in [Process -> Asking]
        /\ \A q \in Process : accessRequest'[q] = accessRequest[q] \/ GoesOn(accessRequest'[q])
      BY <2>1, <2>2, RequestGoesOn
  <2> QED
      BY <1>1, <1>2, <2>3, Lengths, AskedAgain
<1> QED
    BY <1>2, <1>3, <1>4 DEF AccessInv

LEMMA RevokeStep ==
    ASSUME AccessInv, NEW c \in DOMAIN credential, Access!Revoke(c)
    PROVE  AccessInv'
<1>1. /\ credential' = [credential EXCEPT ![c].revoked = TRUE]
      /\ UNCHANGED <<accessNow, accessCrashes, member, principal, actor, invite, accessRequest>>
    BY DEF Access!Revoke
<1>2. (Sessions /\ GivenOnce)' /\ Len(credential') = Len(credential)
    BY <1>1, SessionEnds
<1>3. Granted' /\ AccessTypes'
    BY <1>1 DEF AccessInv, Granted, AccessTypes
<1>4. Asked'
    BY <1>1, <1>2, Lengths, AskedStill
<1> QED
    BY <1>2, <1>3, <1>4 DEF AccessInv

LEMMA TokenStep ==
    ASSUME AccessInv, NEW c \in DOMAIN credential, NEW scopes \in SUBSET Access!Capability,
           Access!CreateApiToken(c, scopes)
    PROVE  AccessInv'
<1> DEFINE t == Access!NewSession(credential[c].person, None)
           s == [t EXCEPT !.scopes = scopes]
<1>1. /\ credential' = Append(credential, s) /\ Len(credential) < MaxCredentials
      /\ UNCHANGED <<accessNow, accessCrashes, member, principal, actor, invite, accessRequest>>
    BY DEF Access!CreateApiToken
<1>2. t \in Credential /\ t.invite = None
  <2>1. credential[c].person \in Person
      BY PersonOf DEF AccessInv, Sessions
  <2> QED
      BY <2>1, SessionType DEF AccessInv
<1> HIDE DEF t
<1>3. s \in Credential /\ s.invite = None
    BY <1>2 DEF Credential
<1> HIDE DEF s
<1>4. (Sessions /\ GivenOnce)' /\ Len(credential') = Len(credential) + 1
    BY <1>1, <1>3, SessionAdded
<1>5. Granted' /\ AccessTypes'
    BY <1>1 DEF AccessInv, Granted, AccessTypes
<1>6. Asked'
    BY <1>1, <1>4, Lengths, AskedStill
<1> QED
    BY <1>4, <1>5, <1>6 DEF AccessInv

LEMMA RenewStep ==
    ASSUME AccessInv, NEW p \in Process, Access!Renew(p)
    PROVE  AccessInv'
<1> DEFINE person == credential[accessRequest[p].on].person
           s == Access!NewSession(person, None)
<1>1. /\ Len(credential) < MaxCredentials /\ accessRequest[p].on \in 1..Len(credential)
      /\ credential' = Append(credential, s) \/ UNCHANGED credential
      /\ accessRequest' = [accessRequest EXCEPT ![p] = Access!Idle]
      /\ UNCHANGED <<accessNow, accessCrashes, member, principal, actor, invite>>
    BY DEF Access!Renew, Access!Ends, AccessInv, Asked
<1>2. s \in Credential /\ s.invite = None
  <2>1. person \in Person
      BY <1>1, PersonOf
  <2> QED
      BY <2>1, SessionType DEF AccessInv
<1> HIDE DEF s
<1>3. /\ (Sessions /\ GivenOnce)' /\ Len(credential') \in Nat /\ Len(credential) <= Len(credential')
  <2>1. CASE credential' = Append(credential, s)
      BY <1>1, <1>2, <2>1, SessionAdded, Lengths
  <2>2. CASE UNCHANGED credential
      BY <1>1, <2>2, Lengths DEF AccessInv, Sessions, GivenOnce
  <2> QED
      BY <1>1, <2>1, <2>2
<1>4. Granted' /\ AccessTypes'
    BY <1>1 DEF AccessInv, Granted, AccessTypes
<1>5. Asked'
  <2>1. /\ accessRequest' \in [Process -> Asking]
        /\ \A q \in Process : accessRequest'[q] = accessRequest[q] \/ GoesOn(accessRequest'[q])
      BY <1>1, RequestEnds
  <2> QED
      BY <1>1, <1>3, Lengths, <2>1, AskedAgain
<1> QED
    BY <1>3, <1>4, <1>5 DEF AccessInv

\* The actor is free or theirs already.
LEMMA BindStep ==
    ASSUME AccessInv, NEW c \in DOMAIN credential, Access!BindActor(c)
    PROVE  AccessInv'
<1> DEFINE person == credential[c].person
<1>1. /\ actor \in {None, person} /\ actor' = person
      /\ UNCHANGED <<accessNow, accessCrashes, member, principal, credential, invite, accessRequest>>
    BY DEF Access!BindActor
<1>2. person \in Person
    BY PersonOf DEF AccessInv, Sessions
<1>3. Sessions' /\ GivenOnce' /\ AccessTypes'
    BY <1>1, <1>2 DEF AccessInv, Sessions, GivenOnce, AccessTypes
<1>4. Asked'
    BY <1>1, Lengths, AskedStill
<1>5. Granted'
    BY <1>1, PersonOf, AccessBounds DEF AccessInv, Granted
<1> QED
    BY <1>3, <1>4, <1>5 DEF AccessInv

LEMMA InviteStep ==
    ASSUME AccessInv, NEW x \in Person, NEW binds \in BOOLEAN, Access!CreateInvite(x, binds)
    PROVE  AccessInv'
<1> DEFINE v == [person |-> x, binds |-> binds, expires |-> accessNow + Lifetime,
                 revoked |-> FALSE, consumed |-> FALSE]
<1>1. /\ invite' = Append(invite, v) /\ Len(invite) < MaxInvites
      /\ UNCHANGED <<accessNow, accessCrashes, member, principal, actor, credential, accessRequest>>
    BY DEF Access!CreateInvite
<1>2. v \in Invite /\ ~v.consumed
    BY AccessBounds DEF Invite, AccessInv, AccessTypes
<1> HIDE DEF v
<1>3. (Sessions /\ GivenOnce /\ Granted)' /\ Len(invite') = Len(invite) + 1
    BY <1>1, <1>2, InviteAdded
<1>4. AccessTypes'
    BY <1>1 DEF AccessInv, AccessTypes
<1>5. Asked'
    BY <1>1, <1>3, Lengths, AskedStill
<1> QED
    BY <1>3, <1>4, <1>5 DEF AccessInv

LEMMA RevokeInviteStep ==
    ASSUME AccessInv, NEW p \in Process, Access!RevokeInvite(p)
    PROVE  AccessInv'
<1> DEFINE j == accessRequest[p].on
<1>1. /\ j \in 1..Len(invite) /\ invite' = [invite EXCEPT ![j].revoked = TRUE]
      /\ accessRequest' = [accessRequest EXCEPT ![p] = Access!Idle]
      /\ UNCHANGED <<accessNow, accessCrashes, member, principal, actor, credential>>
    BY DEF Access!RevokeInvite, Access!Ends, AccessInv, Asked
<1>2. (Sessions /\ GivenOnce /\ Granted)' /\ Len(invite') = Len(invite)
    BY <1>1, InviteRevoked
<1>3. AccessTypes'
    BY <1>1 DEF AccessInv, AccessTypes
<1>4. Asked'
  <2>1. /\ accessRequest' \in [Process -> Asking]
        /\ \A q \in Process : accessRequest'[q] = accessRequest[q] \/ GoesOn(accessRequest'[q])
      BY <1>1, RequestEnds
  <2> QED
      BY <1>1, <1>2, Lengths, <2>1, AskedAgain
<1> QED
    BY <1>2, <1>3, <1>4 DEF AccessInv

\* Two requests may have read an invitation while it was open: the one whose update finds
\* it so redeems it, and what it gives comes with it or not at all.
LEMMA ConsumeStep ==
    ASSUME AccessInv, NEW p \in Process, Access!ConsumeInvite(p)
    PROVE  AccessInv'
<1> DEFINE j == accessRequest[p].on
           person == invite[j].person
           s == Access!NewSession(person, j)
<1>1. /\ j \in 1..Len(invite) /\ j \in 1..MaxInvites /\ person \in Person
      /\ Len(credential) < MaxCredentials
      /\ accessRequest' = [accessRequest EXCEPT ![p] = Access!Idle]
      /\ UNCHANGED <<accessNow, accessCrashes, member>>
  <2>1. j \in 1..Len(invite)
      BY DEF Access!ConsumeInvite, AccessInv, Asked
  <2>2. Len(invite) \in Nat /\ Len(invite) <= MaxInvites /\ MaxInvites \in Nat
      BY Lengths, AccessBounds DEF AccessInv, Sessions
  <2>3. j \in 1..MaxInvites
      BY <2>1, <2>2
  <2> QED
      BY <2>1, <2>3, PersonOf DEF Access!ConsumeInvite, Access!Ends
<1>2. CASE UNCHANGED <<principal, actor, credential, invite>>
  <2>1. AccessTypes'
      BY <1>1, <1>2 DEF AccessInv, AccessTypes
  <2> QED
      BY <1>1, <1>2, <2>1, IdleAsking, RequestOnly DEF GoesOn
<1>3. CASE Access!Claims(j) /\ Access!Admissible(j)
  <2>1. /\ ~invite[j].consumed /\ invite' = [invite EXCEPT ![j].consumed = TRUE]
        /\ invite[j].binds => actor \in {None, person}
        /\ principal' = [principal EXCEPT ![person] = "active"]
        /\ actor' = IF invite[j].binds THEN person ELSE actor
        /\ credential' = Append(credential, s)
      BY <1>3 DEF Access!ConsumeInvite, Access!Claimed, Access!Claims, Access!Pending,
         Access!Admissible
  <2>2. s \in Credential /\ s.invite = j
      BY <1>1, SessionType DEF AccessInv
  <2> HIDE DEF s
  <2>3. /\ (Sessions /\ GivenOnce)'
        /\ Len(invite') = Len(invite) /\ Len(credential') = Len(credential) + 1
        /\ \A i \in 1..Len(invite) :
             /\ invite'[i].person = invite[i].person /\ invite'[i].binds = invite[i].binds
             /\ i # j => invite'[i].consumed = invite[i].consumed
      BY <1>1, <2>1, <2>2, InviteRedeemed
  <2>4. AccessTypes'
      BY <1>1, <2>1 DEF AccessInv, AccessTypes
  <2>5. Asked'
    <3>1. /\ accessRequest' \in [Process -> Asking]
          /\ \A q \in Process : accessRequest'[q] = accessRequest[q] \/ GoesOn(accessRequest'[q])
        BY <1>1, RequestEnds
    <3> QED
        BY <1>1, <2>3, <3>1, Lengths, AskedAgain
  <2>6. Granted'
    <3>1. ASSUME NEW i \in 1..Len(invite), invite'[i].consumed
          PROVE  /\ principal'[invite[i].person] # "none"
                 /\ invite[i].binds => actor' = invite[i].person
      <4>1. invite[i].person \in Person
          BY PersonOf
      <4>2. CASE i = j
          BY <1>1, <2>1, <4>2 DEF AccessInv, AccessTypes
      <4>3. CASE i # j
        <5>1. /\ principal[invite[i].person] # "none"
              /\ invite[i].binds => actor = invite[i].person
            BY <2>3, <3>1, <4>3 DEF AccessInv, Granted
        <5>2. principal'[invite[i].person] # "none"
            BY <2>1, <4>1, <5>1 DEF AccessInv, AccessTypes
        <5>3. invite[i].binds => actor' = invite[i].person
            BY <2>1, <4>1, <5>1, AccessBounds
        <5> QED
            BY <5>2, <5>3
      <4> QED
          BY <4>2, <4>3
    <3> QED
        BY <2>3, <3>1 DEF Granted
  <2> QED
      BY <2>3, <2>4, <2>5, <2>6 DEF AccessInv
<1>4. \/ UNCHANGED <<principal, actor, credential, invite>>
      \/ Access!Claims(j) /\ Access!Admissible(j)
    BY DEF Access!ConsumeInvite, Access!Claimed
<1> QED
    BY <1>2, <1>3, <1>4

LEMMA AccessStep == AccessInv /\ [Access!Next]_AccessVars => AccessInv'
<1> SUFFICES ASSUME AccessInv, [Access!Next]_AccessVars PROVE AccessInv'
    OBVIOUS
<1>1. ASSUME NEW p \in Process, NEW c \in DOMAIN credential, Access!Rotate(p, c) PROVE AccessInv'
    BY <1>1, RotateStep
<1>2. ASSUME NEW p \in Process, NEW i \in DOMAIN invite,
             Access!ReadInvite(p, i) \/ Access!ReadForRevocation(p, i)
      PROVE  AccessInv'
  <2>1. i \in 1..Len(invite) /\ i \in 1..MaxInvites
      BY AccessBounds DEF AccessInv, Sessions
  <2>2. AccessTypes' /\ UNCHANGED <<credential, invite, actor, principal>>
      BY <1>2 DEF Access!ReadInvite, Access!ReadForRevocation, AccessInv, AccessTypes
  <2>3. PICK at \in {"consume", "revoke"} :
            accessRequest' = [accessRequest EXCEPT ![p] = [at |-> at, on |-> i]]
      BY <1>2 DEF Access!ReadInvite, Access!ReadForRevocation, Access!Reads
  <2> DEFINE r == [at |-> at, on |-> i]
  <2>4. r \in Asking /\ GoesOn(r)
      BY <2>1, Asks DEF GoesOn
  <2> HIDE DEF r
  <2>5. accessRequest' = [accessRequest EXCEPT ![p] = r]
      BY <2>3 DEF r
  <2> QED
      BY <2>2, <2>4, <2>5, RequestOnly
<1>3. ASSUME NEW p \in Process, Access!Renew(p) PROVE AccessInv'
    BY <1>3, RenewStep
<1>4. ASSUME NEW p \in Process, Access!ConsumeInvite(p) PROVE AccessInv'
    BY <1>4, ConsumeStep
<1>5. ASSUME NEW p \in Process, Access!RevokeInvite(p) PROVE AccessInv'
    BY <1>5, RevokeInviteStep
<1>6. ASSUME NEW p \in Process, Access!Crash(p) PROVE AccessInv'
  <2>1. AccessTypes' /\ UNCHANGED <<credential, invite, actor, principal>>
      BY <1>6, AccessBounds DEF Access!Crash, AccessInv, AccessTypes
  <2>2. accessRequest' = [accessRequest EXCEPT ![p] = Access!Idle]
      BY <1>6 DEF Access!Crash, Access!Ends
  <2> DEFINE r == Access!Idle
  <2>3. r \in Asking /\ GoesOn(r)
      BY IdleAsking DEF GoesOn
  <2>4. accessRequest' = [accessRequest EXCEPT ![p] = r]
      BY <2>2
  <2> HIDE DEF r
  <2> QED
      BY <2>1, <2>3, <2>4, RequestOnly
<1>7. ASSUME NEW c \in DOMAIN credential, Access!Revoke(c) PROVE AccessInv'
    BY <1>7, RevokeStep
<1>8. ASSUME NEW c \in DOMAIN credential, Access!BindActor(c) PROVE AccessInv'
    BY <1>8, BindStep
<1>9. ASSUME NEW c \in DOMAIN credential, Access!CreateApiToken(c, {"workspace_read"})
      PROVE  AccessInv'
  <2>1. {"workspace_read"} \in SUBSET Access!Capability
      BY DEF Access!Capability
  <2> QED
      BY <1>9, <2>1, TokenStep
<1>10. ASSUME NEW x \in Person, Access!CreatePrincipal(x) \/ Access!Disable(x) PROVE AccessInv'
  <2>1. AccessTypes' /\ \A y \in Person : principal[y] # "none" => principal'[y] # "none"
      BY <1>10 DEF Access!CreatePrincipal, Access!Disable, AccessInv, AccessTypes
  <2>2. UNCHANGED <<credential, invite, actor, accessRequest>>
      BY <1>10 DEF Access!CreatePrincipal, Access!Disable
  <2> QED
      BY <2>1, <2>2, Administered
<1>11. ASSUME NEW x \in Person, NEW binds \in BOOLEAN, Access!CreateInvite(x, binds)
       PROVE  AccessInv'
    BY <1>11, InviteStep
<1>12. ASSUME NEW x \in Person, NEW role \in WorkspaceRole, Access!Join(x, role)
       PROVE  AccessInv'
  <2>1. AccessTypes' /\ \A y \in Person : principal[y] # "none" => principal'[y] # "none"
      BY <1>12 DEF Access!Join, AccessInv, AccessTypes
  <2>2. UNCHANGED <<credential, invite, actor, accessRequest>>
      BY <1>12 DEF Access!Join
  <2> QED
      BY <2>1, <2>2, Administered
<1>13. CASE Access!Tick
  <2>1. AccessTypes' /\ \A y \in Person : principal[y] # "none" => principal'[y] # "none"
      BY <1>13, AccessBounds DEF Access!Tick, AccessInv, AccessTypes
  <2>2. UNCHANGED <<credential, invite, actor, accessRequest>>
      BY <1>13 DEF Access!Tick
  <2> QED
      BY <2>1, <2>2, Administered
<1>14. CASE UNCHANGED AccessVars
  <2>1. AccessTypes' /\ \A y \in Person : principal[y] # "none" => principal'[y] # "none"
      BY <1>14 DEF AccessVars, AccessInv, AccessTypes
  <2>2. UNCHANGED <<credential, invite, actor, accessRequest>>
      BY <1>14 DEF AccessVars
  <2> QED
      BY <2>1, <2>2, Administered
<1> QED
    BY <1>1, <1>2, <1>3, <1>4, <1>5, <1>6, <1>7, <1>8, <1>9, <1>10, <1>11, <1>12, <1>13, <1>14
    DEF Access!Next

\* What the part says, of the invariant.
LEMMA AccessConcludes ==
    AccessInv => Access!TypeOK /\ Access!InviteGivesOneSession /\ Access!ClientsStayNarrow
<1> SUFFICES ASSUME AccessInv
             PROVE  Access!TypeOK /\ Access!InviteGivesOneSession /\ Access!ClientsStayNarrow
    OBVIOUS
<1>1. Access!TypeOK
    BY DEF AccessInv, AccessTypes, Sessions, Asked, Credential, Invite, Asking, Access!TypeOK
<1>2. ASSUME NEW i \in DOMAIN invite
      PROVE  Access!Cardinality({c \in DOMAIN credential : credential[c].invite = i}) =
                (IF invite[i].consumed THEN 1 ELSE 0)
  <2> DEFINE S == {c \in DOMAIN credential : credential[c].invite = i}
  <2>1. /\ i \in 1..Len(invite) /\ i # None /\ DOMAIN credential = 1..Len(credential)
        /\ invite[i] \in Invite
      BY AccessBounds DEF AccessInv, Sessions
  <2>2. Access!Cardinality(S) = Cardinality(S)
      BY DEF Access!Cardinality, Cardinality
  <2>3. CASE invite[i].consumed
    <3>1. PICK c : S = {c}
      <4>1. PICK c \in 1..Len(credential) : credential[c].invite = i
          BY <2>1, <2>3 DEF AccessInv, GivenOnce
      <4>2. S = {c}
          BY <2>1, <4>1 DEF AccessInv, GivenOnce
      <4> QED
          BY <4>2
    <3> HIDE DEF S
    <3>2. Cardinality({c}) = 1
        BY FS_Singleton
    <3>3. Access!Cardinality(S) = 1
        BY <2>2, <3>1, <3>2
    <3> QED
        BY <2>3, <3>3 DEF S
  <2>4. CASE ~invite[i].consumed
    <3>1. S = {}
        BY <2>1, <2>4 DEF AccessInv, GivenOnce
    <3>2. Access!Cardinality(S) = 0
        BY <2>2, <3>1, FS_EmptySet
    <3> QED
        BY <2>4, <3>2
  <2> QED
      BY <2>3, <2>4
<1>3. Access!InviteGivesOneSession
  <2>1. DOMAIN invite = 1..Len(invite)
      BY DEF AccessInv, Sessions
  <2> QED
      BY <1>2, <2>1 DEF Access!InviteGivesOneSession, AccessInv, Granted
<1>4. Access!ClientsStayNarrow
    BY DEF Access!ClientsStayNarrow, Access!Identity, Access!RoleCapabilities, Access!OfOrganization
<1> QED
    BY <1>1, <1>3, <1>4

\* An invitation gives one session and with it, for good, its principal and its actor, and
\* nobody from outside may do what only staff may, for any number of requests that redeem
\* and revoke it at the same time.
THEOREM InviteGivesOneSessionHolds == SideBySide => []InviteGivesOneSession
<1> DEFINE PartInv == part = "access" => AccessInv
<1>1. StartAll => PartInv
    BY AccessInit DEF StartAll
<1>2. PartInv /\ [StepOne]_allVars => PartInv'
  <2> SUFFICES ASSUME PartInv, [StepOne]_allVars, part' = "access" PROVE AccessInv'
      OBVIOUS
  <2>1. part = "access" /\ [Access!Next]_AccessVars
      BY DEF StepOne, allVars
  <2> QED
      BY <2>1, AccessStep
<1>3. PartInv => InviteGivesOneSession
    BY AccessConcludes DEF InviteGivesOneSession
<1> QED
    BY <1>1, <1>2, <1>3, PTL DEF SideBySide
------------------------------------------------------------------------------
(* Meetings                                                                 *)

Errands == {"idle", "start", "capture", "close", "hold", "holding", "write", "copy", "copying"}
Copies == {"copy", "copying"}
MeetingRow == [event: Event \cup {None}, status: Meetings!Status, item: SUBSET (1..MaxItems),
               log: SUBSET Meetings!Status]
NoteRow == [meeting: Nat, item: SUBSET (1..MaxItems), failed: BOOLEAN]
Recorder == [at: Errands, meeting: Nat, note: Nat, failed: BOOLEAN]
Completed(n) == {"note", "meeting"} \X (1..n)

MeetingTypes ==
    /\ meeting \in Seq(MeetingRow) /\ note \in Seq(NoteRow)
    /\ items \in 0..MaxItems /\ finished \subseteq Completed(items)
    /\ published \subseteq Event /\ meetingsCrashes \in 0..MaxCrashes
    /\ doing \in [Process -> Recorder]

\* A closed meeting has been closed.
Logged(ms) == \A m \in 1..Len(ms) : ms[m].status = "closed" => "closed" \in ms[m].log

\* What a process has begun is about a meeting, which has begun when its note is written without
\* an error; what it is about to copy is of a note of that meeting.
Fits(e, ms, ns) ==
    /\ e.meeting \in 0..Len(ms) /\ e.note \in 0..Len(ns)
    /\ e.at # "idle" => e.meeting # 0
    /\ e.at = "write" /\ ~e.failed => ms[e.meeting].status # "scheduled"
    /\ e.at \in Copies =>
        /\ e.note # 0 /\ ns[e.note].meeting = e.meeting
        /\ ~ns[e.note].failed => ms[e.meeting].status # "scheduled"

\* Nothing is left to do for a note, as it arrived or as its meeting was closed or an error came.
Settled(n, ms, ns) ==
    \/ ns[n].item \subseteq ms[ns[n].meeting].item
    \/ "closed" \in ms[ns[n].meeting].log
    \/ ns[n].failed
AtHand(n) == \E p \in Process : doing[p].at \in Copies /\ doing[p].note = n

MeetingsInv ==
    /\ MeetingTypes /\ Logged(meeting)
    /\ \A p \in Process : Fits(doing[p], meeting, note)
    /\ \A n \in 1..Len(note) : /\ note[n].meeting \in 1..Len(meeting)
                               /\ Settled(n, meeting, note) \/ AtHand(n)

\* Meetings keep their items and what was logged, and none is scheduled again.
Grown(ms, ms2) ==
    /\ Len(ms) <= Len(ms2)
    /\ \A m \in 1..Len(ms) : /\ ms[m].item \subseteq ms2[m].item /\ ms[m].log \subseteq ms2[m].log
                             /\ ms[m].status # "scheduled" => ms2[m].status # "scheduled"
\* Notes stay, and what failed has failed.
Kin(ns, ns2) ==
    /\ Len(ns) <= Len(ns2)
    /\ \A n \in 1..Len(ns) : /\ ns2[n].meeting = ns[n].meeting /\ ns2[n].item = ns[n].item
                             /\ ns[n].failed => ns2[n].failed

LEMMA MeetingBounds == MaxItems \in Nat /\ MaxCrashes \in Nat /\ IsFiniteSet(Event) /\ None \notin Event
<1>1. Meetings!IsFiniteSet(Event) <=> IsFiniteSet(Event)
    BY DEF Meetings!IsFiniteSet, IsFiniteSet
<1> QED
    BY <1>1, MeetingsAssumption DEF Meetings!MeetingsAssumption

LEMMA MeetingsBegin == Meetings!Init => MeetingsInv
<1> SUFFICES ASSUME Meetings!Init PROVE MeetingsInv
    OBVIOUS
<1>1. /\ meeting = <<>> /\ note = <<>> /\ items = 0 /\ finished = {} /\ published = {}
      /\ meetingsCrashes = 0 /\ doing = [p \in Process |-> Meetings!Idle]
    BY DEF Meetings!Init
<1>2. /\ Meetings!Idle \in Recorder /\ Meetings!Idle.at = "idle"
      /\ Meetings!Idle.meeting = 0 /\ Meetings!Idle.note = 0
    BY DEF Meetings!Idle, Recorder, Errands
<1>3. Len(meeting) = 0 /\ Len(note) = 0 /\ meeting \in Seq(MeetingRow) /\ note \in Seq(NoteRow)
    BY <1>1
<1>4. MeetingTypes
    BY <1>1, <1>2, <1>3, MeetingBounds DEF MeetingTypes
<1>5. \A p \in Process : Fits(doing[p], meeting, note)
    BY <1>1, <1>2, <1>3 DEF Fits, Copies
<1> QED
    BY <1>3, <1>4, <1>5 DEF MeetingsInv, Logged

\* What fits goes on fitting ...
LEMMA GoesOnFitting ==
    ASSUME NEW e, NEW ms, NEW ms2, NEW ns, NEW ns2, Fits(e, ms, ns),
           Len(ms) \in Nat, Len(ms2) \in Nat, Len(ns) \in Nat, Len(ns2) \in Nat,
           Grown(ms, ms2), Kin(ns, ns2)
    PROVE  Fits(e, ms2, ns2)
<1>1. e.meeting \in 0..Len(ms2) /\ e.note \in 0..Len(ns2)
    BY DEF Fits, Grown, Kin
<1>2. ASSUME e.at = "write", ~e.failed PROVE ms2[e.meeting].status # "scheduled"
  <2>1. e.meeting \in 1..Len(ms) /\ ms[e.meeting].status # "scheduled"
      BY <1>2 DEF Fits
  <2> QED
      BY <2>1 DEF Grown
<1>3. ASSUME e.at \in Copies
      PROVE  /\ e.note # 0 /\ ns2[e.note].meeting = e.meeting
             /\ ~ns2[e.note].failed => ms2[e.meeting].status # "scheduled"
  <2>1. /\ e.note \in 1..Len(ns) /\ ns[e.note].meeting = e.meeting /\ e.meeting \in 1..Len(ms)
        /\ ~ns[e.note].failed => ms[e.meeting].status # "scheduled"
      BY <1>3 DEF Fits, Copies
  <2> QED
      BY <2>1 DEF Grown, Kin
<1> QED
    BY <1>1, <1>2, <1>3 DEF Fits

\* ... and what is settled stays so.
LEMMA StaysSettled ==
    ASSUME NEW ms, NEW ms2, NEW ns, NEW ns2, NEW n \in 1..Len(ns), ns[n].meeting \in 1..Len(ms),
           Settled(n, ms, ns), Grown(ms, ms2), Kin(ns, ns2)
    PROVE  Settled(n, ms2, ns2)
BY DEF Settled, Grown, Kin

\* A step keeps the invariant when meetings grow, notes stay, a new note is about to be copied,
\* and who was about to copy a note goes on or leaves it settled.
LEMMA EveryoneGoes ==
    ASSUME MeetingsInv, MeetingTypes', Logged(meeting'), Grown(meeting, meeting'), Kin(note, note'),
           \A q \in Process :
               \/ doing'[q] = doing[q]
               \/ /\ Fits(doing'[q], meeting', note')
                  /\ doing[q].at \in Copies =>
                        \/ doing'[q].at \in Copies /\ doing'[q].note = doing[q].note
                        \/ Settled(doing[q].note, meeting', note'),
           \A n \in 1..Len(note') : n > Len(note) =>
               /\ note'[n].meeting \in 1..Len(meeting')
               /\ \E q \in Process : doing'[q].at \in Copies /\ doing'[q].note = n
    PROVE  MeetingsInv'
<1>1. /\ Len(meeting) \in Nat /\ Len(meeting') \in Nat /\ Len(note) \in Nat /\ Len(note') \in Nat
    BY DEF MeetingsInv, MeetingTypes
<1>2. ASSUME NEW q \in Process PROVE Fits(doing'[q], meeting', note')
  <2>1. Fits(doing[q], meeting, note)
      BY DEF MeetingsInv
  <2>2. Fits(doing[q], meeting', note')
      BY <1>1, <2>1, GoesOnFitting
  <2> QED
      BY <2>2
<1>3. ASSUME NEW n \in 1..Len(note')
      PROVE  /\ note'[n].meeting \in 1..Len(meeting')
             /\ \/ Settled(n, meeting', note')
                \/ \E q \in Process : doing'[q].at \in Copies /\ doing'[q].note = n
  <2>1. CASE n > Len(note)
      BY <2>1
  <2>2. CASE ~(n > Len(note))
    <3>1. n \in 1..Len(note)
        BY <1>1, <2>2
    <3>2. note[n].meeting \in 1..Len(meeting) /\ (Settled(n, meeting, note) \/ AtHand(n))
        BY <3>1 DEF MeetingsInv
    <3>3. note'[n].meeting \in 1..Len(meeting')
        BY <1>1, <3>1, <3>2 DEF Grown, Kin
    <3>4. CASE Settled(n, meeting, note)
      <4>1. Settled(n, meeting', note')
          BY <3>1, <3>2, <3>4, StaysSettled
      <4> QED
          BY <3>3, <4>1
    <3>5. CASE AtHand(n)
      <4>1. PICK q \in Process : doing[q].at \in Copies /\ doing[q].note = n
          BY <3>5 DEF AtHand
      <4>2. \/ doing'[q].at \in Copies /\ doing'[q].note = n
            \/ Settled(n, meeting', note')
          BY <4>1
      <4> QED
          BY <3>3, <4>2
    <3> QED
        BY <3>2, <3>4, <3>5
  <2> QED
      BY <2>1, <2>2
<1> QED
    BY <1>2, <1>3 DEF MeetingsInv, AtHand

\* One process goes on; the notes stay.
LEMMA OneGoes ==
    ASSUME MeetingsInv, MeetingTypes', Logged(meeting'), Grown(meeting, meeting'), note' = note,
           NEW p \in Process, NEW e, doing' = [doing EXCEPT ![p] = e], Fits(e, meeting', note),
           doing[p].at \in Copies =>
               \/ e.at \in Copies /\ e.note = doing[p].note
               \/ Settled(doing[p].note, meeting', note)
    PROVE  MeetingsInv'
<1>1. Kin(note, note') /\ Len(note') = Len(note) /\ Len(note) \in Nat
    BY DEF Kin, MeetingsInv, MeetingTypes
<1>2. doing'[p] = e /\ \A q \in Process : q # p => doing'[q] = doing[q]
    BY DEF MeetingsInv, MeetingTypes
<1>3. \A q \in Process :
        \/ doing'[q] = doing[q]
        \/ /\ Fits(doing'[q], meeting', note')
           /\ doing[q].at \in Copies =>
                \/ doing'[q].at \in Copies /\ doing'[q].note = doing[q].note
                \/ Settled(doing[q].note, meeting', note')
    BY <1>2
<1>4. \A n \in 1..Len(note') : ~(n > Len(note))
    BY <1>1
<1> QED
    BY <1>1, <1>3, <1>4, EveryoneGoes

\* Meetings change; nobody begins or ends anything.
LEMMA NobodyGoes ==
    ASSUME MeetingsInv, MeetingTypes', Logged(meeting'), Grown(meeting, meeting'),
           UNCHANGED <<note, doing>>
    PROVE  MeetingsInv'
<1>1. Kin(note, note') /\ Len(note') = Len(note) /\ Len(note) \in Nat
    BY DEF Kin, MeetingsInv, MeetingTypes
<1>2. \A n \in 1..Len(note') : ~(n > Len(note))
    BY <1>1
<1> QED
    BY <1>1, <1>2, EveryoneGoes

LEMMA SameMeetings == Grown(meeting, meeting)
<1>1. Len(meeting) \in Nat => Len(meeting) <= Len(meeting)
    OBVIOUS
<1> QED
    BY <1>1 DEF Grown

\* What a process at work is about.
LEMMA AtWork ==
    ASSUME MeetingsInv, NEW p \in Process
    PROVE  /\ doing[p] \in Recorder /\ Fits(doing[p], meeting, note)
           /\ Len(meeting) \in Nat /\ Len(note) \in Nat /\ items \in Nat /\ MaxItems \in Nat
           /\ meeting \in [1..Len(meeting) -> MeetingRow] /\ note \in [1..Len(note) -> NoteRow]
           /\ doing[p].at # "idle" => doing[p].meeting \in 1..Len(meeting)
           /\ doing[p].at \in Copies =>
                /\ doing[p].note \in 1..Len(note) /\ note[doing[p].note].meeting = doing[p].meeting
                /\ ~note[doing[p].note].failed => meeting[doing[p].meeting].status # "scheduled"
<1>1. doing[p] \in Recorder /\ Fits(doing[p], meeting, note)
    BY DEF MeetingsInv, MeetingTypes
<1>2. Len(meeting) \in Nat /\ Len(note) \in Nat /\ items \in Nat
    BY MeetingBounds DEF MeetingsInv, MeetingTypes
<1>3. meeting \in [1..Len(meeting) -> MeetingRow] /\ note \in [1..Len(note) -> NoteRow]
    BY DEF MeetingsInv, MeetingTypes
<1>4. doing[p].at # "idle" => doing[p].meeting \in 1..Len(meeting)
    BY <1>1, <1>2 DEF Fits
<1>5. doing[p].at \in Copies =>
        /\ doing[p].note \in 1..Len(note) /\ note[doing[p].note].meeting = doing[p].meeting
        /\ ~note[doing[p].note].failed => meeting[doing[p].meeting].status # "scheduled"
    BY <1>1, <1>2 DEF Fits
<1> QED
    BY <1>1, <1>2, <1>3, <1>4, <1>5, MeetingBounds

\* A meeting becomes another row.
LEMMA MeetingBecomes ==
    ASSUME MeetingsInv, NEW m \in 1..Len(meeting), NEW row \in MeetingRow,
           meeting[m].item \subseteq row.item, meeting[m].log \subseteq row.log,
           row.status # "scheduled", row.status \in row.log
    PROVE  LET new == [meeting EXCEPT ![m] = row]
           IN  /\ new \in Seq(MeetingRow) /\ Len(new) = Len(meeting) /\ new[m] = row
               /\ Grown(meeting, new) /\ Logged(new)
<1> DEFINE l == Len(meeting)
           new == [meeting EXCEPT ![m] = row]
<1>1. l \in Nat /\ m \in 1..l /\ meeting \in [1..l -> MeetingRow]
    BY DEF MeetingsInv, MeetingTypes
<1>2. new \in [1..l -> MeetingRow] /\ new[m] = row /\ \A k \in 1..l : k # m => new[k] = meeting[k]
    BY <1>1
<1> HIDE DEF new
<1>3. new \in Seq(MeetingRow) /\ Len(new) = l
    BY <1>1, <1>2
<1> HIDE DEF l
<1>4. Grown(meeting, new)
  <2>1. ASSUME NEW k \in 1..l
        PROVE  /\ meeting[k].item \subseteq new[k].item /\ meeting[k].log \subseteq new[k].log
               /\ meeting[k].status # "scheduled" => new[k].status # "scheduled"
      BY <1>2
  <2>2. l = Len(meeting) /\ l <= l
      BY <1>1 DEF l
  <2> QED
      BY <1>3, <2>1, <2>2 DEF Grown
<1>5. Logged(new)
    BY <1>2, <1>3 DEF MeetingsInv, Logged, l
<1> QED
    BY <1>2, <1>3, <1>4, <1>5 DEF new, l

\* A meeting moves on: it keeps its items.
LEMMA MeetingMoves ==
    ASSUME MeetingsInv, NEW m \in 1..Len(meeting), NEW status \in Meetings!Status \ {"scheduled"}
    PROVE  LET new == Meetings!Moved(m, status)
           IN  /\ new \in Seq(MeetingRow) /\ Len(new) = Len(meeting) /\ new[m].status = status
               /\ Grown(meeting, new) /\ Logged(new)
<1> DEFINE row == Meetings!Become(meeting[m], status)
           new == [meeting EXCEPT ![m] = row]
<1>1. meeting[m] \in MeetingRow
    BY DEF MeetingsInv, MeetingTypes
<1>2. /\ row \in MeetingRow /\ row.status = status /\ row.item = meeting[m].item
      /\ row.log = meeting[m].log \cup {status}
    BY <1>1 DEF MeetingRow, Meetings!Become
<1>3. Meetings!Moved(m, status) = new
    BY DEF Meetings!Moved
<1> HIDE DEF row
<1>4. /\ meeting[m].item \subseteq row.item /\ meeting[m].log \subseteq row.log
      /\ row.status # "scheduled" /\ row.status \in row.log
    BY <1>2
<1>5. /\ new \in Seq(MeetingRow) /\ Len(new) = Len(meeting) /\ new[m] = row
      /\ Grown(meeting, new) /\ Logged(new)
    BY <1>2, <1>4, MeetingBecomes
<1> HIDE DEF new
<1> QED
    BY <1>2, <1>3, <1>5

\* ... and takes new ones.
LEMMA MeetingTakes ==
    ASSUME MeetingsInv, NEW m \in 1..Len(meeting), NEW more \in SUBSET (1..MaxItems)
    PROVE  LET new == Meetings!WithItems(m, more)
           IN  /\ new \in Seq(MeetingRow) /\ Len(new) = Len(meeting) /\ more \subseteq new[m].item
               /\ new[m].status = "notes_captured" /\ Grown(meeting, new) /\ Logged(new)
<1> DEFINE moved == Meetings!Become(meeting[m], "notes_captured")
           row == Meetings!Noted(meeting[m], more)
           new == [meeting EXCEPT ![m] = row]
<1>1. meeting[m] \in MeetingRow
    BY DEF MeetingsInv, MeetingTypes
<1>2. "notes_captured" \in Meetings!Status
    BY DEF Meetings!Status
<1>3. /\ moved \in MeetingRow /\ moved.status = "notes_captured" /\ moved.item = meeting[m].item
      /\ moved.log = meeting[m].log \cup {"notes_captured"}
    BY <1>1, <1>2 DEF MeetingRow, Meetings!Become
<1>4. row = [moved EXCEPT !.item = moved.item \cup more]
    BY DEF Meetings!Noted
<1> HIDE DEF moved, row
<1>5. /\ row \in MeetingRow /\ row.status = "notes_captured" /\ row.item = meeting[m].item \cup more
      /\ row.log = meeting[m].log \cup {"notes_captured"}
    BY <1>3, <1>4 DEF MeetingRow
<1>6. Meetings!WithItems(m, more) = new
    BY DEF Meetings!WithItems, row
<1>7. /\ meeting[m].item \subseteq row.item /\ meeting[m].log \subseteq row.log
      /\ row.status # "scheduled" /\ row.status \in row.log
    BY <1>5
<1>8. /\ new \in Seq(MeetingRow) /\ Len(new) = Len(meeting) /\ new[m] = row
      /\ Grown(meeting, new) /\ Logged(new)
    BY <1>5, <1>7, MeetingBecomes
<1> HIDE DEF new
<1> QED
    BY <1>5, <1>6, <1>8

LEMMA CreateMeetingStep ==
    ASSUME MeetingsInv, Meetings!CreateMeeting
    PROVE  MeetingsInv'
<1> DEFINE row == Meetings!Scheduled(None)
<1>1. row \in MeetingRow /\ row.status = "scheduled"
    BY DEF Meetings!Scheduled, MeetingRow, Meetings!Status
<1>2. meeting' = Append(meeting, row) /\ UNCHANGED <<note, finished, items, published, doing, meetingsCrashes>>
    BY DEF Meetings!CreateMeeting
<1> HIDE DEF row
<1>3. meeting \in Seq(MeetingRow) /\ Len(meeting) \in Nat
    BY DEF MeetingsInv, MeetingTypes
<1>4. /\ meeting' \in Seq(MeetingRow) /\ Len(meeting') = Len(meeting) + 1
      /\ \A k \in 1..Len(meeting) : meeting'[k] = meeting[k]
      /\ meeting'[Len(meeting) + 1] = row
    BY <1>1, <1>2, <1>3
<1>5. Grown(meeting, meeting') /\ Logged(meeting')
    BY <1>1, <1>3, <1>4 DEF Grown, Logged, MeetingsInv
<1>6. MeetingTypes'
    BY <1>2, <1>4 DEF MeetingsInv, MeetingTypes
<1> QED
    BY <1>2, <1>5, <1>6, NobodyGoes

\* The process goes on and nothing is written.
LEMMA OnlyOneGoes ==
    ASSUME MeetingsInv, NEW p \in Process, NEW e \in Recorder, doing' = [doing EXCEPT ![p] = e],
           UNCHANGED <<meeting, note, finished, items, published, meetingsCrashes>>,
           Fits(e, meeting, note),
           doing[p].at \in Copies =>
               \/ e.at \in Copies /\ e.note = doing[p].note
               \/ Settled(doing[p].note, meeting, note)
    PROVE  MeetingsInv'
<1>1. MeetingTypes'
    BY DEF MeetingsInv, MeetingTypes
<1>2. Grown(meeting, meeting') /\ Logged(meeting')
    BY SameMeetings DEF MeetingsInv
<1> QED
    BY <1>1, <1>2, OneGoes

LEMMA IdleFits == /\ Meetings!Idle \in Recorder /\ Meetings!Idle.at = "idle"
                  /\ \A ms, ns : Len(ms) \in Nat /\ Len(ns) \in Nat => Fits(Meetings!Idle, ms, ns)
BY DEF Meetings!Idle, Recorder, Errands, Fits, Copies

\* What a process begins with.
LEMMA IdleBecomes ==
    ASSUME NEW at \in Errands, NEW m \in Nat
    PROVE  LET e == [Meetings!Idle EXCEPT !.at = at, !.meeting = m]
           IN  e \in Recorder /\ e.at = at /\ e.meeting = m /\ e.note = 0
<1> DEFINE idle == Meetings!Idle
<1>1. idle \in Recorder /\ idle.note = 0
    BY IdleFits DEF Meetings!Idle
<1> HIDE DEF idle
<1>2. [idle EXCEPT !.at = at, !.meeting = m] \in Recorder
    BY <1>1 DEF Recorder
<1>3. /\ [idle EXCEPT !.at = at, !.meeting = m].at = at
      /\ [idle EXCEPT !.at = at, !.meeting = m].meeting = m
      /\ [idle EXCEPT !.at = at, !.meeting = m].note = 0
    BY <1>1 DEF Recorder
<1> QED
    BY <1>2, <1>3 DEF idle

LEMMA LookAtMeetingStep ==
    ASSUME MeetingsInv, NEW p \in Process, NEW m \in DOMAIN meeting, Meetings!Look(p, m)
    PROVE  MeetingsInv'
<1>1. PICK at \in {"start", "capture", "close"} :
        doing' = [doing EXCEPT ![p] = [Meetings!Idle EXCEPT !.at = at, !.meeting = m]]
    BY DEF Meetings!Look
<1> DEFINE e == [Meetings!Idle EXCEPT !.at = at, !.meeting = m]
<1>2. m \in 1..Len(meeting) /\ Len(meeting) \in Nat /\ Len(note) \in Nat
    BY DEF MeetingsInv, MeetingTypes
<1>3. /\ e \in Recorder /\ e.at = at /\ e.meeting = m /\ e.note = 0
  <2>1. at \in Errands /\ m \in Nat
      BY <1>2 DEF Errands
  <2> QED
      BY <2>1, IdleBecomes
<1> HIDE DEF e
<1>4. Fits(e, meeting, note)
    BY <1>2, <1>3 DEF Fits, Copies
<1>5. /\ doing' = [doing EXCEPT ![p] = e] /\ doing[p].at = "idle"
      /\ UNCHANGED <<meeting, note, finished, items, published, meetingsCrashes>>
    BY <1>1 DEF Meetings!Look, Meetings!Rests, e
<1> QED
    BY <1>3, <1>4, <1>5, OnlyOneGoes DEF Copies

\* A meeting starts, in its own right or for a note, or is closed.
LEMMA MoveStep ==
    ASSUME MeetingsInv, NEW p \in Process, Meetings!StartMeeting(p) \/ Meetings!CloseMeeting(p)
    PROVE  MeetingsInv'
<1> DEFINE m == doing[p].meeting
<1>1. PICK status \in Meetings!Status \ {"scheduled"}, e \in {Meetings!Idle, [doing[p] EXCEPT !.at = "write"]} :
        /\ meeting' = Meetings!Moved(m, status) /\ doing' = [doing EXCEPT ![p] = e]
  <2>1. {"held", "closed"} \subseteq Meetings!Status \ {"scheduled"}
      BY DEF Meetings!Status
  <2> QED
      BY <2>1 DEF Meetings!StartMeeting, Meetings!CloseMeeting, Meetings!Ends
<1>2. /\ doing[p].at \in {"start", "close", "holding"}
      /\ UNCHANGED <<note, finished, items, published, meetingsCrashes>>
    BY DEF Meetings!StartMeeting, Meetings!CloseMeeting
<1>3. /\ doing[p] \in Recorder /\ m \in 1..Len(meeting) /\ Len(meeting) \in Nat /\ Len(note) \in Nat
      /\ doing[p].note \in 0..Len(note)
    BY <1>2, AtWork DEF Fits
<1>4. /\ meeting' \in Seq(MeetingRow) /\ Len(meeting') = Len(meeting) /\ meeting'[m].status = status
      /\ Grown(meeting, meeting') /\ Logged(meeting')
    BY <1>1, <1>3, MeetingMoves
<1>5. e \in Recorder
    BY <1>3, IdleFits DEF Recorder, Errands
<1>6. Fits(e, meeting', note)
  <2>1. CASE e = Meetings!Idle
      BY <1>3, <1>4, <2>1, IdleFits
  <2>2. CASE e = [doing[p] EXCEPT !.at = "write"]
    <3>1. e.at = "write" /\ e.meeting = m /\ e.note = doing[p].note
        BY <1>3, <2>2 DEF Recorder
    <3> HIDE DEF m
    <3> QED
        BY <1>3, <1>4, <3>1 DEF Fits, Copies
  <2> QED
      BY <2>1, <2>2
<1>7. MeetingTypes'
    BY <1>1, <1>2, <1>4, <1>5 DEF MeetingsInv, MeetingTypes
<1> QED
    BY <1>1, <1>2, <1>4, <1>6, <1>7, OneGoes DEF Copies

LEMMA CaptureStep ==
    ASSUME MeetingsInv, NEW p \in Process, Meetings!CaptureNotes(p)
    PROVE  MeetingsInv'
<1> DEFINE m == doing[p].meeting
           more == {items'}
<1>1. /\ doing[p].at = "capture" /\ items < MaxItems /\ items' = items + 1
      /\ meeting' = Meetings!WithItems(m, more)
      /\ doing' = [doing EXCEPT ![p] = Meetings!Idle]
      /\ UNCHANGED <<note, finished, published, meetingsCrashes>>
    BY DEF Meetings!CaptureNotes, Meetings!Ends
<1>2. /\ m \in 1..Len(meeting) /\ Len(meeting) \in Nat /\ Len(note) \in Nat
      /\ items \in Nat /\ MaxItems \in Nat
    BY <1>1, AtWork
<1>3. items' \in 0..MaxItems /\ 1..items \subseteq 1..items' /\ more \in SUBSET (1..MaxItems)
    BY <1>1, <1>2
<1> HIDE DEF more
<1>4. /\ meeting' \in Seq(MeetingRow) /\ Len(meeting') = Len(meeting)
      /\ Grown(meeting, meeting') /\ Logged(meeting')
    BY <1>1, <1>2, <1>3, MeetingTakes
<1>5. MeetingTypes'
  <2>1. Completed(items) \subseteq Completed(items')
      BY <1>3 DEF Completed
  <2> QED
      BY <1>1, <1>3, <1>4, <2>1, IdleFits DEF MeetingsInv, MeetingTypes
<1>6. Fits(Meetings!Idle, meeting', note)
    BY <1>2, <1>4, IdleFits
<1> QED
    BY <1>1, <1>4, <1>5, <1>6, OneGoes DEF Copies

LEMMA FinishStep ==
    ASSUME MeetingsInv, NEW place \in {"note", "meeting"}, NEW item \in 1..items,
           Meetings!FinishItem(place, item)
    PROVE  MeetingsInv'
<1>1. /\ finished' = finished \cup {<<place, item>>}
      /\ UNCHANGED <<meeting, note, items, published, doing, meetingsCrashes>>
    BY DEF Meetings!FinishItem
<1>2. MeetingTypes'
    BY <1>1 DEF MeetingsInv, MeetingTypes, Completed
<1>3. Grown(meeting, meeting') /\ Logged(meeting')
    BY <1>1, SameMeetings DEF MeetingsInv
<1> QED
    BY <1>1, <1>2, <1>3, NobodyGoes

\* Notes begin with a meeting that has begun, or is about to.
LEMMA BeginNotesStep ==
    ASSUME MeetingsInv, NEW p \in Process, NEW m \in DOMAIN meeting, Meetings!BeginNotes(p, m)
    PROVE  MeetingsInv'
<1> DEFINE at == IF Meetings!Startable(m) THEN "hold" ELSE "write"
           e == [Meetings!Idle EXCEPT !.at = at, !.meeting = m]
<1>1. /\ doing[p].at = "idle" /\ doing' = [doing EXCEPT ![p] = e]
      /\ UNCHANGED <<meeting, note, finished, items, published, meetingsCrashes>>
    BY DEF Meetings!BeginNotes, Meetings!Rests
<1>2. m \in 1..Len(meeting) /\ Len(meeting) \in Nat /\ Len(note) \in Nat
    BY DEF MeetingsInv, MeetingTypes
<1>3. /\ e \in Recorder /\ e.at = at /\ e.meeting = m /\ e.note = 0
  <2>1. at \in Errands /\ m \in Nat
      BY <1>2 DEF Errands
  <2> HIDE DEF at
  <2> QED
      BY <2>1, IdleBecomes
<1> HIDE DEF e
<1>4. Fits(e, meeting, note)
    BY <1>2, <1>3 DEF Fits, Copies, Meetings!Startable
<1> QED
    BY <1>1, <1>3, <1>4, OnlyOneGoes DEF Copies

LEMMA ReadToHoldStep ==
    ASSUME MeetingsInv, NEW p \in Process, Meetings!ReadToHold(p)
    PROVE  MeetingsInv'
<1> DEFINE e == [doing[p] EXCEPT
                    !.at = IF Meetings!Startable(doing[p].meeting) THEN "holding" ELSE "write"]
<1>1. /\ doing[p].at = "hold" /\ doing' = [doing EXCEPT ![p] = e]
      /\ UNCHANGED <<meeting, note, finished, items, published, meetingsCrashes>>
    BY DEF Meetings!ReadToHold
<1>2. /\ doing[p] \in Recorder /\ Fits(doing[p], meeting, note)
      /\ doing[p].meeting \in 1..Len(meeting) /\ Len(meeting) \in Nat /\ Len(note) \in Nat
    BY <1>1, AtWork
<1>3. /\ e \in Recorder /\ e.meeting = doing[p].meeting /\ e.note = doing[p].note
      /\ e.at = IF Meetings!Startable(doing[p].meeting) THEN "holding" ELSE "write"
    BY <1>2 DEF Recorder, Errands
<1> HIDE DEF e
<1>4. Fits(e, meeting, note)
    BY <1>2, <1>3 DEF Fits, Copies, Meetings!Startable
<1> QED
    BY <1>1, <1>3, <1>4, OnlyOneGoes DEF Copies

\* Recording ends before a note is written.
LEMMA RefuseStep ==
    ASSUME MeetingsInv, NEW p \in Process, Meetings!RefuseNote(p)
    PROVE  MeetingsInv'
<1>1. /\ doing[p].at = "write" /\ doing' = [doing EXCEPT ![p] = Meetings!Idle]
      /\ UNCHANGED <<meeting, note, finished, items, published, meetingsCrashes>>
    BY DEF Meetings!RefuseNote, Meetings!Ends
<1>2. Fits(Meetings!Idle, meeting, note)
    BY AtWork, IdleFits
<1> QED
    BY <1>1, <1>2, IdleFits, OnlyOneGoes DEF Copies

\* The note is written, and its recorder is about to copy it.
LEMMA WriteNoteStep ==
    ASSUME MeetingsInv, NEW p \in Process, Meetings!WriteNote(p)
    PROVE  MeetingsInv'
<1> DEFINE l == Len(note)
           m == doing[p].meeting
           new == [meeting |-> m, item |-> {items'}, failed |-> doing[p].failed]
           e == [doing[p] EXCEPT !.at = "copy", !.note = l + 1]
<1>1. /\ doing[p].at = "write" /\ items < MaxItems /\ items' = items + 1
      /\ note' = Append(note, new) /\ doing' = [doing EXCEPT ![p] = e]
      /\ UNCHANGED <<meeting, finished, published, meetingsCrashes>>
    BY DEF Meetings!WriteNote
<1>2. /\ doing[p] \in Recorder /\ Fits(doing[p], meeting, note) /\ m \in 1..Len(meeting)
      /\ Len(meeting) \in Nat /\ l \in Nat /\ items \in Nat /\ MaxItems \in Nat
      /\ note \in Seq(NoteRow)
    BY <1>1, AtWork DEF MeetingsInv, MeetingTypes
<1>3. items' \in 0..MaxItems /\ 1..items \subseteq 1..items' /\ {items'} \in SUBSET (1..MaxItems)
    BY <1>1, <1>2
<1>4. new \in NoteRow /\ new.meeting = m /\ new.failed = doing[p].failed
    BY <1>2, <1>3 DEF NoteRow, Recorder
<1>5. e \in Recorder /\ e.at = "copy" /\ e.meeting = m /\ e.note = l + 1
  <2>1. l + 1 \in Nat /\ "copy" \in Errands
      BY <1>2 DEF Errands
  <2> DEFINE k == l + 1
  <2> HIDE DEF k, l
  <2>2. [doing[p] EXCEPT !.at = "copy", !.note = k] \in Recorder
      BY <1>2, <2>1 DEF Recorder, k
  <2>3. /\ [doing[p] EXCEPT !.at = "copy", !.note = k].at = "copy"
        /\ [doing[p] EXCEPT !.at = "copy", !.note = k].meeting = doing[p].meeting
        /\ [doing[p] EXCEPT !.at = "copy", !.note = k].note = k
      BY <1>2 DEF Recorder
  <2> QED
      BY <2>2, <2>3 DEF k
<1>6. ~doing[p].failed => meeting[m].status # "scheduled"
    BY <1>1, <1>2 DEF Fits
<1> HIDE DEF new, e, l, m
<1>7. /\ note' \in Seq(NoteRow) /\ Len(note') = l + 1 /\ note'[l + 1] = new
      /\ \A n \in 1..l : note'[n] = note[n]
    BY <1>1, <1>2, <1>4 DEF l
<1>8. doing \in [Process -> Recorder]
    BY DEF MeetingsInv, MeetingTypes
<1>9. doing' \in [Process -> Recorder] /\ doing'[p] = e /\ \A q \in Process : q # p => doing'[q] = doing[q]
    BY <1>1, <1>5, <1>8
<1>10. MeetingTypes'
  <2>1. Completed(items) \subseteq Completed(items')
      BY <1>3 DEF Completed
  <2> QED
      BY <1>1, <1>3, <1>7, <1>9, <2>1 DEF MeetingsInv, MeetingTypes
<1>11. Grown(meeting, meeting') /\ Logged(meeting')
    BY <1>1, SameMeetings DEF MeetingsInv
<1>12. Kin(note, note')
    BY <1>2, <1>7 DEF Kin, l
<1>13. Fits(e, meeting', note')
    BY <1>1, <1>2, <1>4, <1>5, <1>6, <1>7 DEF Fits, Copies
<1>14. \A q \in Process : \/ doing'[q] = doing[q]
                          \/ Fits(doing'[q], meeting', note') /\ ~(doing[q].at \in Copies)
    BY <1>1, <1>9, <1>13 DEF Copies
<1>15. \A n \in 1..Len(note') : n > Len(note) =>
        /\ note'[n].meeting \in 1..Len(meeting')
        /\ \E q \in Process : doing'[q].at \in Copies /\ doing'[q].note = n
  <2>1. ASSUME NEW n \in 1..Len(note'), n > Len(note) PROVE n = l + 1
      BY <1>2, <1>7, <2>1 DEF l
  <2>2. note'[l + 1].meeting \in 1..Len(meeting')
      BY <1>1, <1>2, <1>4, <1>7
  <2>3. doing'[p].at \in Copies /\ doing'[p].note = l + 1
      BY <1>5, <1>9 DEF Copies
  <2> QED
      BY <2>1, <2>2, <2>3
<1> QED
    BY <1>10, <1>11, <1>12, <1>14, <1>15, EveryoneGoes

\* A meeting that has begun refuses items only when it is closed.
LEMMA ReadToCopyStep ==
    ASSUME MeetingsInv, NEW p \in Process, Meetings!ReadToCopy(p)
    PROVE  MeetingsInv'
<1> DEFINE m == doing[p].meeting
           n == doing[p].note
<1>1. /\ doing[p].at = "copy"
      /\ UNCHANGED <<meeting, note, finished, items, published, meetingsCrashes>>
    BY DEF Meetings!ReadToCopy
<1>2. /\ doing[p] \in Recorder /\ Fits(doing[p], meeting, note)
      /\ m \in 1..Len(meeting) /\ Len(meeting) \in Nat /\ Len(note) \in Nat
      /\ meeting[m] \in MeetingRow /\ n \in 1..Len(note) /\ note[n].meeting = m
      /\ ~note[n].failed => meeting[m].status # "scheduled"
    BY <1>1, AtWork DEF Copies
<1>3. CASE Meetings!Capturable(m)
  <2> DEFINE e == [doing[p] EXCEPT !.at = "copying"]
  <2>1. doing' = [doing EXCEPT ![p] = e]
      BY <1>3 DEF Meetings!ReadToCopy
  <2>2. e \in Recorder /\ e.at = "copying" /\ e.meeting = m /\ e.note = n
      BY <1>2 DEF Recorder, Errands
  <2> HIDE DEF e
  <2>3. Fits(e, meeting, note)
      BY <1>2, <2>2 DEF Fits, Copies
  <2> QED
      BY <1>1, <2>1, <2>2, <2>3, OnlyOneGoes DEF Copies
<1>4. CASE ~Meetings!Capturable(m)
  <2>1. doing' = [doing EXCEPT ![p] = Meetings!Idle]
      BY <1>4 DEF Meetings!ReadToCopy, Meetings!Ends
  <2>2. meeting[m].status \in {"scheduled", "closed"}
      BY <1>2, <1>4 DEF MeetingRow, Meetings!Status, Meetings!Capturable
  <2>3. Settled(n, meeting, note)
      BY <1>2, <2>2 DEF Settled, MeetingsInv, Logged
  <2>4. Fits(Meetings!Idle, meeting, note)
      BY <1>2, IdleFits
  <2> QED
      BY <1>1, <2>1, <2>3, <2>4, IdleFits, OnlyOneGoes
<1> QED
    BY <1>3, <1>4

LEMMA CopyStep ==
    ASSUME MeetingsInv, NEW p \in Process, Meetings!CopyToMeeting(p)
    PROVE  MeetingsInv'
<1> DEFINE m == doing[p].meeting
           n == doing[p].note
           more == note[n].item
<1>1. /\ doing[p].at = "copying" /\ doing' = [doing EXCEPT ![p] = Meetings!Idle]
      /\ meeting' = Meetings!WithItems(m, more)
      /\ UNCHANGED <<note, finished, items, published, meetingsCrashes>>
    BY DEF Meetings!CopyToMeeting, Meetings!Ends
<1>2. /\ m \in 1..Len(meeting) /\ Len(meeting) \in Nat /\ Len(note) \in Nat
      /\ n \in 1..Len(note) /\ note[n].meeting = m /\ note[n] \in NoteRow
    BY <1>1, AtWork DEF Copies
<1>3. more \in SUBSET (1..MaxItems)
    BY <1>2 DEF NoteRow
<1> HIDE DEF more, m, n
<1>4. /\ meeting' \in Seq(MeetingRow) /\ Len(meeting') = Len(meeting) /\ more \subseteq meeting'[m].item
      /\ Grown(meeting, meeting') /\ Logged(meeting')
    BY <1>1, <1>2, <1>3, MeetingTakes
<1>5. MeetingTypes'
    BY <1>1, <1>4, IdleFits DEF MeetingsInv, MeetingTypes
<1>6. Fits(Meetings!Idle, meeting', note)
    BY <1>2, <1>4, IdleFits
<1>7. Settled(n, meeting', note)
    BY <1>2, <1>4 DEF Settled, more
<1> QED
    BY <1>1, <1>4, <1>5, <1>6, <1>7, OneGoes DEF n

LEMMA PublishStep ==
    ASSUME MeetingsInv, NEW e \in Event, Meetings!Publish(e)
    PROVE  MeetingsInv'
<1>1. published' = published \cup {e} /\ UNCHANGED <<meeting, note, finished, items, doing, meetingsCrashes>>
    BY DEF Meetings!Publish
<1>2. MeetingTypes'
    BY <1>1 DEF MeetingsInv, MeetingTypes
<1>3. Grown(meeting, meeting') /\ Logged(meeting')
    BY <1>1, SameMeetings DEF MeetingsInv
<1> QED
    BY <1>1, <1>2, <1>3, NobodyGoes

LEMMA Concatenation ==
    ASSUME NEW S, NEW s \in Seq(S), NEW r \in Seq(S)
    PROVE  /\ s \o r \in Seq(S) /\ Len(s \o r) = Len(s) + Len(r)
           /\ \A k \in 1..(Len(s) + Len(r)) :
                (s \o r)[k] = IF k <= Len(s) THEN s[k] ELSE r[k - Len(s)]
OBVIOUS

LEMMA SyncStep ==
    ASSUME MeetingsInv, NEW p \in Process, Meetings!Sync(p)
    PROVE  MeetingsInv'
<1>1. PICK new \in SUBSET (published \ BadEvent) :
        \E order \in [1..Meetings!Cardinality(new) -> new] :
            meeting' = meeting \o [n \in DOMAIN order |-> Meetings!Scheduled(order[n])]
    BY DEF Meetings!Sync
<1>2. PICK order \in [1..Meetings!Cardinality(new) -> new] :
        meeting' = meeting \o [n \in DOMAIN order |-> Meetings!Scheduled(order[n])]
    BY <1>1
<1> DEFINE size == Meetings!Cardinality(new)
           more == [n \in 1..size |-> Meetings!Scheduled(order[n])]
<1>3. size \in Nat
  <2>1. new \subseteq Event
      BY DEF MeetingsInv, MeetingTypes
  <2>2. IsFiniteSet(new)
      BY <2>1, MeetingBounds, FS_Subset
  <2>3. Meetings!Cardinality(new) = Cardinality(new)
      BY DEF Meetings!Cardinality, Cardinality
  <2> QED
      BY <2>2, <2>3, FS_CardinalityType
<1> HIDE DEF size
<1>4. meeting' = meeting \o more
    BY <1>2 DEF size
<1>5. more \in Seq(MeetingRow) /\ Len(more) = size
      /\ \A k \in 1..size : more[k].status = "scheduled"
  <2>1. \A e \in Event : Meetings!Scheduled(e) \in MeetingRow /\ Meetings!Scheduled(e).status = "scheduled"
      BY DEF Meetings!Scheduled, MeetingRow, Meetings!Status
  <2>2. \A n \in 1..size : order[n] \in Event
      BY <1>2 DEF MeetingsInv, MeetingTypes, size
  <2>3. more \in [1..size -> MeetingRow] /\ \A k \in 1..size : more[k].status = "scheduled"
      BY <2>1, <2>2
  <2> QED
      BY <1>3, <2>3
<1> HIDE DEF more
<1>6. UNCHANGED <<note, finished, items, published, doing, meetingsCrashes>>
    BY DEF Meetings!Sync
<1>7. meeting \in Seq(MeetingRow) /\ Len(meeting) \in Nat
    BY DEF MeetingsInv, MeetingTypes
<1>8. /\ meeting' \in Seq(MeetingRow) /\ Len(meeting') = Len(meeting) + size
      /\ \A k \in 1..Len(meeting) : meeting'[k] = meeting[k]
      /\ \A k \in 1..Len(meeting') : k > Len(meeting) => meeting'[k] = more[k - Len(meeting)]
  <2>1. meeting' \in Seq(MeetingRow) /\ Len(meeting') = Len(meeting) + Len(more)
      BY <1>4, <1>5, <1>7, Concatenation
  <2>2. \A k \in 1..(Len(meeting) + Len(more)) :
            meeting'[k] = IF k <= Len(meeting) THEN meeting[k] ELSE more[k - Len(meeting)]
      BY <1>4, <1>5, <1>7, Concatenation
  <2> QED
      BY <1>3, <1>5, <1>7, <2>1, <2>2
<1>9. Grown(meeting, meeting')
    BY <1>3, <1>7, <1>8 DEF Grown
<1>10. Logged(meeting')
  <2>1. ASSUME NEW k \in 1..Len(meeting'), meeting'[k].status = "closed"
        PROVE  "closed" \in meeting'[k].log
    <3>1. CASE k > Len(meeting)
      <4>1. k - Len(meeting) \in 1..size
          BY <1>3, <1>7, <1>8, <3>1
      <4> QED
          BY <1>5, <1>8, <2>1, <3>1, <4>1
    <3>2. CASE ~(k > Len(meeting))
      <4>1. k \in 1..Len(meeting)
          BY <1>7, <3>2
      <4> QED
          BY <1>8, <2>1, <4>1 DEF MeetingsInv, Logged
    <3> QED
        BY <3>1, <3>2
  <2> QED
      BY <2>1 DEF Logged
<1>11. MeetingTypes'
    BY <1>6, <1>8 DEF MeetingsInv, MeetingTypes
<1> QED
    BY <1>6, <1>9, <1>10, <1>11, NobodyGoes

\* A note whose recorder fails or dies before it has copied it says so.
LEMMA AbandonedStep ==
    ASSUME MeetingsInv, NEW p \in Process, Meetings!Abandoned(p), NEW e \in Recorder,
           doing' = [doing EXCEPT ![p] = e], doing[p].at \in Copies => e.at = "idle",
           Fits(e, meeting, note), meetingsCrashes' \in 0..MaxCrashes,
           UNCHANGED <<meeting, finished, items, published>>
    PROVE  MeetingsInv'
<1> DEFINE n == doing[p].note
<1>1. /\ Len(meeting) \in Nat /\ Len(note) \in Nat /\ note \in [1..Len(note) -> NoteRow]
      /\ doing[p].at \in Copies => n \in 1..Len(note)
    BY AtWork
<1>2. /\ note' \in [1..Len(note) -> NoteRow]
      /\ \A k \in 1..Len(note) : /\ note'[k].meeting = note[k].meeting /\ note'[k].item = note[k].item
                                 /\ note[k].failed => note'[k].failed
      /\ doing[p].at \in Copies => note'[n].failed
  <2>1. CASE doing[p].at \in Copies
    <3> DEFINE row == [note[n] EXCEPT !.failed = TRUE]
    <3>1. note' = [note EXCEPT ![n] = row]
        BY <2>1 DEF Meetings!Abandoned, Copies
    <3>2. /\ row \in NoteRow /\ row.failed = TRUE
          /\ row.meeting = note[n].meeting /\ row.item = note[n].item
        BY <1>1, <2>1 DEF NoteRow
    <3> HIDE DEF row, n
    <3>3. note' \in [1..Len(note) -> NoteRow] /\ note'[n] = row /\ \A k \in 1..Len(note) : k # n => note'[k] = note[k]
        BY <1>1, <2>1, <3>1, <3>2
    <3> QED
        BY <3>2, <3>3
  <2>2. CASE doing[p].at \notin Copies
    <3>1. note' = note
        BY <2>2 DEF Meetings!Abandoned, Copies
    <3> QED
        BY <1>1, <2>2, <3>1
  <2> QED
      BY <2>1, <2>2
<1>3. note' \in Seq(NoteRow) /\ Len(note') = Len(note)
    BY <1>1, <1>2
<1>4. Kin(note, note')
    BY <1>1, <1>2, <1>3 DEF Kin
<1>5. Grown(meeting, meeting') /\ Logged(meeting')
    BY SameMeetings DEF MeetingsInv
<1>6. doing \in [Process -> Recorder]
    BY DEF MeetingsInv, MeetingTypes
<1>7. doing' \in [Process -> Recorder] /\ doing'[p] = e /\ \A q \in Process : q # p => doing'[q] = doing[q]
    BY <1>6
<1>8. MeetingTypes'
    BY <1>3, <1>7 DEF MeetingsInv, MeetingTypes
<1>9. Fits(e, meeting', note')
    BY <1>1, <1>3, <1>4, <1>5, GoesOnFitting
<1>10. doing[p].at \in Copies => Settled(n, meeting', note')
    BY <1>2 DEF Settled
<1>11. \A q \in Process :
        \/ doing'[q] = doing[q]
        \/ /\ Fits(doing'[q], meeting', note')
           /\ doing[q].at \in Copies => Settled(doing[q].note, meeting', note')
    BY <1>7, <1>9, <1>10
<1>12. \A k \in 1..Len(note') : ~(k > Len(note))
    BY <1>1, <1>3
<1> QED
    BY <1>4, <1>5, <1>8, <1>11, <1>12, EveryoneGoes

LEMMA FailStep ==
    ASSUME MeetingsInv, NEW p \in Process, Meetings!Fail(p)
    PROVE  MeetingsInv'
<1>1. /\ doing[p].at # "idle" /\ Meetings!Abandoned(p)
      /\ UNCHANGED <<meeting, finished, items, published, meetingsCrashes>>
    BY DEF Meetings!Fail, Meetings!Rests
<1>2. /\ doing[p] \in Recorder /\ Fits(doing[p], meeting, note)
      /\ Len(meeting) \in Nat /\ Len(note) \in Nat
    BY AtWork
<1>3. meetingsCrashes' \in 0..MaxCrashes
    BY <1>1 DEF MeetingsInv, MeetingTypes
<1>4. CASE doing[p].at \in {"hold", "holding"}
  <2> DEFINE e == [doing[p] EXCEPT !.at = "write", !.failed = TRUE]
  <2>1. doing' = [doing EXCEPT ![p] = e]
      BY <1>4 DEF Meetings!Fail
  <2>2. /\ e \in Recorder /\ e.at = "write" /\ e.failed = TRUE
        /\ e.meeting = doing[p].meeting /\ e.note = doing[p].note
      BY <1>2 DEF Recorder, Errands
  <2> HIDE DEF e
  <2>3. Fits(e, meeting, note)
      BY <1>1, <1>2, <2>2 DEF Fits, Copies
  <2> QED
      BY <1>1, <1>3, <1>4, <2>1, <2>2, <2>3, AbandonedStep DEF Copies
<1>5. CASE doing[p].at \notin {"hold", "holding"}
  <2>1. doing' = [doing EXCEPT ![p] = Meetings!Idle]
      BY <1>5 DEF Meetings!Fail, Meetings!Ends
  <2> QED
      BY <1>1, <1>2, <1>3, <2>1, IdleFits, AbandonedStep
<1> QED
    BY <1>4, <1>5

LEMMA MeetingsCrashStep ==
    ASSUME MeetingsInv, NEW p \in Process, Meetings!Crash(p)
    PROVE  MeetingsInv'
<1>1. /\ meetingsCrashes < MaxCrashes /\ meetingsCrashes' = meetingsCrashes + 1
      /\ Meetings!Abandoned(p) /\ doing' = [doing EXCEPT ![p] = Meetings!Idle]
      /\ UNCHANGED <<meeting, finished, items, published>>
    BY DEF Meetings!Crash, Meetings!Ends
<1>2. meetingsCrashes' \in 0..MaxCrashes
    BY <1>1, MeetingBounds DEF MeetingsInv, MeetingTypes
<1>3. Fits(Meetings!Idle, meeting, note)
    BY AtWork, IdleFits
<1> QED
    BY <1>1, <1>2, <1>3, IdleFits, AbandonedStep

LEMMA MeetingsStep == MeetingsInv /\ [Meetings!Next]_MeetingsVars => MeetingsInv'
<1> SUFFICES ASSUME MeetingsInv, [Meetings!Next]_MeetingsVars PROVE MeetingsInv'
    OBVIOUS
<1>1. CASE UNCHANGED MeetingsVars
  <2>1. UNCHANGED <<meeting, note, finished, items, published, doing, meetingsCrashes>>
      BY <1>1 DEF MeetingsVars
  <2>2. MeetingTypes' /\ Grown(meeting, meeting') /\ Logged(meeting')
      BY <2>1, SameMeetings DEF MeetingsInv, MeetingTypes
  <2> QED
      BY <2>1, <2>2, NobodyGoes
<1>2. CASE Meetings!Next
    BY <1>2, CreateMeetingStep, LookAtMeetingStep, MoveStep, CaptureStep, FinishStep, BeginNotesStep,
       ReadToHoldStep, RefuseStep, WriteNoteStep, ReadToCopyStep, CopyStep, PublishStep, SyncStep,
       FailStep, MeetingsCrashStep DEF Meetings!Next
<1> QED
    BY <1>1, <1>2

\* What the part says, of the invariant.
LEMMA MeetingsConclude == MeetingsInv => Meetings!TypeOK /\ Meetings!NotesReachTheMeeting
<1> SUFFICES ASSUME MeetingsInv PROVE Meetings!TypeOK /\ Meetings!NotesReachTheMeeting
    OBVIOUS
<1>1. DOMAIN note = 1..Len(note) /\ DOMAIN meeting = 1..Len(meeting)
    BY DEF MeetingsInv, MeetingTypes
<1>2. \A m \in 1..Len(meeting) : meeting[m] \in MeetingRow
    BY DEF MeetingsInv, MeetingTypes
<1>3. ASSUME NEW n \in 1..Len(note)
      PROVE  note[n] \in [meeting: 1..Len(meeting), item: SUBSET (1..MaxItems), failed: BOOLEAN]
  <2>1. note[n] \in NoteRow /\ note[n].meeting \in 1..Len(meeting)
      BY DEF MeetingsInv, MeetingTypes
  <2> QED
      BY <2>1 DEF NoteRow
<1>4. doing \in [Process -> [at: Errands, meeting: {0} \cup 1..Len(meeting),
                             note: {0} \cup 1..Len(note), failed: BOOLEAN]]
  <2>1. ASSUME NEW p \in Process
        PROVE  doing[p] \in [at: Errands, meeting: {0} \cup 1..Len(meeting),
                             note: {0} \cup 1..Len(note), failed: BOOLEAN]
    <3>1. doing[p] \in Recorder /\ doing[p].meeting \in 0..Len(meeting) /\ doing[p].note \in 0..Len(note)
        BY AtWork DEF Fits
    <3>2. Len(meeting) \in Nat /\ Len(note) \in Nat
        BY AtWork
    <3>3. doing[p].meeting \in {0} \cup 1..Len(meeting) /\ doing[p].note \in {0} \cup 1..Len(note)
        BY <3>1, <3>2
    <3> QED
        BY <3>1, <3>3 DEF Recorder
  <2>2. doing \in [Process -> Recorder]
      BY DEF MeetingsInv, MeetingTypes
  <2> QED
      BY <2>1, <2>2
<1>5. finished \subseteq {"note", "meeting"} \X (1..items) /\ items \in 0..MaxItems
      /\ published \subseteq Event /\ meetingsCrashes \in 0..MaxCrashes
    BY DEF MeetingsInv, MeetingTypes, Completed
<1>6. Meetings!TypeOK
    BY <1>1, <1>2, <1>3, <1>4, <1>5 DEF Meetings!TypeOK, MeetingRow, Errands
<1>7. Meetings!NotesReachTheMeeting
    BY <1>1 DEF Meetings!NotesReachTheMeeting, MeetingsInv, Settled, AtHand, Copies
<1> QED
    BY <1>6, <1>7

\* Whatever any number of processes do to the meeting meanwhile, the items of a note are on it
\* or about to be, unless it was closed once or an error or a death came first.
THEOREM NotesReachTheMeetingHolds == SideBySide => []NotesReachTheMeeting
<1> DEFINE PartInv == part = "meetings" => MeetingsInv
<1>1. StartAll => PartInv
    BY MeetingsBegin DEF StartAll
<1>2. PartInv /\ [StepOne]_allVars => PartInv'
  <2> SUFFICES ASSUME PartInv, [StepOne]_allVars, part' = "meetings" PROVE MeetingsInv'
      OBVIOUS
  <2>1. part = "meetings" /\ [Meetings!Next]_MeetingsVars
      BY DEF StepOne, allVars
  <2> QED
      BY <2>1, MeetingsStep
<1>3. PartInv => NotesReachTheMeeting
    BY MeetingsConclude DEF NotesReachTheMeeting
<1> QED
    BY <1>1, <1>2, <1>3, PTL DEF SideBySide
------------------------------------------------------------------------------
(* Spreadsheets                                                             *)

LEMMA HasLeast ==
    ASSUME NEW S \in SUBSET Nat, IsFiniteSet(S), S # {}
    PROVE  \E a \in S : \A b \in S : a <= b
<1> DEFINE Below(a) == {b \in S : b < a}
           Family == {Below(a) : a \in S}
<1>1. IsWellFoundedOn(StrictSubsetOrdering(S), SUBSET S)
    BY FS_StrictSubsetOrderingWellFounded, FS_FiniteSubsetsOfFinite
<1>2. Family \subseteq SUBSET S /\ Family # {}
    OBVIOUS
<1>3. PICK F \in Family : \A G \in Family : ~(<<G, F>> \in StrictSubsetOrdering(S))
  <2> HIDE DEF Family
  <2> QED
      BY <1>1, <1>2, WFMin
<1>4. PICK a \in S : F = Below(a)
    BY <1>3
<1>5. ASSUME NEW b \in S, b < a PROVE FALSE
  <2>1. Below(b) \in Family
      OBVIOUS
  <2>2. Below(b) \subseteq Below(a)
    <3>1. ASSUME NEW c \in S, c < b PROVE c < a
      <4>1. a \in Nat /\ b \in Nat /\ c \in Nat
          OBVIOUS
      <4> QED
          BY <1>5, <3>1, <4>1
    <3> QED
        BY <3>1
  <2>3. b \in Below(a) /\ b \notin Below(b)
      BY <1>5
  <2>4. <<Below(b), Below(a)>> \in StrictSubsetOrdering(S)
    <3>1. Below(a) \in SUBSET S /\ Below(b) \in SUBSET S
        OBVIOUS
    <3> QED
        BY <2>2, <2>3, <3>1 DEF StrictSubsetOrdering
  <2> QED
      BY <1>3, <1>4, <2>1, <2>4
<1>6. \A b \in S : a <= b
    BY <1>5
<1> QED
    BY <1>6

LEMMA LeastIn ==
    ASSUME NEW n \in Nat, NEW S \in SUBSET (1..n), S # {}
    PROVE  Onboarding!Min(S) \in S
<1>1. S \in SUBSET Nat /\ IsFiniteSet(S)
  <2>1. IsFiniteSet(1..n) /\ 1..n \subseteq Nat
      BY FS_Interval
  <2> QED
      BY <2>1, FS_Subset
<1>2. \E a \in S : \A b \in S : a <= b
    BY <1>1, HasLeast
<1> QED
    BY <1>2 DEF Onboarding!Min

Sheet == [key: ClientKey, rows: Seq(Onboarding!Row), valid: SUBSET Nat]
Whole == {"made", "attached", "joined"}
Stages == {{}, {"made"}, {"made", "attached"}, Whole, {"made", "attached", "foreign"}}
Doing == [at: {"row", "made", "attached", "joined"}, batch: Nat, key: ClientKey, todo: SUBSET Nat,
          failed: SUBSET Nat, seen: SUBSET (Whole \cup {"foreign"})]

\* Each batch keeps its file, and which of its rows are valid.
Kept(bs) ==
    /\ bs \in Seq(Sheet)
    /\ \A b \in 1..Len(bs) : bs[b].valid \subseteq 1..Len(bs[b].rows)

\* Row i of batch b is written: the definition Written, of given tables.
Wrote(b, i, bs, ws, wr) ==
    LET row == bs[b].rows[i]
    IN  IF row.type = "client" THEN ws[row.of] = Whole ELSE \E n \in 1..Len(wr) : wr[n] = <<b, i>>

Turn(c) == Onboarding!Min(c.todo)
RowOf(c, bs) == bs[c.batch].rows[Turn(c)]

\* A commit under way accounts for the rows it is done with: they are written, or it failed on
\* them and their errors are there for it to see.
Going(c, own, bs, ws, wr, er) ==
    c.at # "idle" =>
        /\ c \in Doing /\ c.batch \in 1..Len(bs) /\ c.todo \subseteq bs[c.batch].valid
        /\ \A i \in bs[c.batch].valid \ c.todo :
            \/ Wrote(c.batch, i, bs, ws, wr)
            \/ i \in c.failed /\ <<c.batch, i>> \in er \cup own
        /\ c.at # "row" => c.todo # {} /\ RowOf(c, bs).type = "client"
        /\ c.at \in {"attached", "joined"} => "made" \in ws[RowOf(c, bs).of]
        /\ c.at = "joined" => "attached" \in ws[RowOf(c, bs).of]

\* What a receipt says is so.
Honest(r, bs, ws, wr, er) ==
    /\ r.batch \in 1..Len(bs)
    /\ \A i \in bs[r.batch].valid :
        \/ Wrote(r.batch, i, bs, ws, wr)
        \/ r.status = "committed_with_errors" /\ <<r.batch, i>> \in er

SheetTypes ==
    /\ Kept(batches) /\ receipts \subseteq Onboarding!Receipt /\ workspace \in [Workspace -> Stages]
    /\ Len(written) \in Nat /\ written \in Seq(Nat \X Nat)
    /\ commit \in [Process -> Doing \cup {Onboarding!Idle}]
    /\ sheetsPending \in [Process -> SUBSET (Nat \X Nat)]

LockHeld == \A p \in Process : sheetsPending[p] # {} => sheetsLock = p
AllGoing == \A p \in Process : Going(commit[p], sheetsPending[p], batches, workspace, written, errors)
AllHonest == \A r \in receipts : Honest(r, batches, workspace, written, errors)

SheetsInv == SheetTypes /\ LockHeld /\ AllGoing /\ AllHonest

\* Nothing that was written is taken back.
Grows(bs, bs2, ws, ws2, wr, wr2, er, er2) ==
    /\ Len(bs) <= Len(bs2) /\ \A b \in 1..Len(bs) : bs2[b] = bs[b]
    /\ \A w \in Workspace : ws[w] \subseteq ws2[w] /\ (ws[w] = Whole => ws2[w] = Whole)
    /\ Len(wr) <= Len(wr2) /\ \A n \in 1..Len(wr) : wr2[n] = wr[n]
    /\ er \subseteq er2

LEMMA RowTyped ==
    ASSUME NEW row \in Onboarding!Row
    PROVE  row.type = "client" => row.of \in Workspace
BY DEF Onboarding!Row

LEMMA RowAt ==
    ASSUME NEW bs, Kept(bs), NEW b \in 1..Len(bs), NEW i \in bs[b].valid
    PROVE  bs[b].rows[i] \in Onboarding!Row
<1>1. bs[b] \in Sheet /\ i \in 1..Len(bs[b].rows)
    BY DEF Kept
<1> QED
    BY <1>1 DEF Sheet

LEMMA WroteStays ==
    ASSUME NEW bs, NEW bs2, NEW ws, NEW ws2, NEW wr, NEW wr2, NEW er, NEW er2,
           Kept(bs), Len(wr) \in Nat, Len(wr2) \in Nat, Grows(bs, bs2, ws, ws2, wr, wr2, er, er2),
           NEW b \in 1..Len(bs), NEW i \in bs[b].valid, Wrote(b, i, bs, ws, wr)
    PROVE  Wrote(b, i, bs2, ws2, wr2)
<1> DEFINE row == bs[b].rows[i]
<1>1. row \in Onboarding!Row /\ bs2[b] = bs[b]
    BY RowAt DEF Grows
<1>2. CASE row.type = "client"
    BY <1>1, <1>2, RowTyped DEF Wrote, Grows
<1>3. CASE row.type # "client"
  <2>1. PICK n \in 1..Len(wr) : wr[n] = <<b, i>>
      BY <1>3 DEF Wrote
  <2>2. n \in 1..Len(wr2) /\ wr2[n] = wr[n]
      BY DEF Grows
  <2> QED
      BY <1>1, <1>3, <2>1, <2>2 DEF Wrote
<1> QED
    BY <1>2, <1>3

LEMMA GoingStays ==
    ASSUME NEW bs, NEW bs2, NEW ws, NEW ws2, NEW wr, NEW wr2, NEW er, NEW er2,
           Kept(bs), Len(bs2) \in Nat, Len(wr) \in Nat, Len(wr2) \in Nat,
           Grows(bs, bs2, ws, ws2, wr, wr2, er, er2),
           NEW c, NEW own, Going(c, own, bs, ws, wr, er)
    PROVE  Going(c, own, bs2, ws2, wr2, er2)
<1> SUFFICES ASSUME c.at # "idle" PROVE Going(c, own, bs2, ws2, wr2, er2)
    BY DEF Going
<1>1. /\ c \in Doing /\ c.batch \in 1..Len(bs) /\ c.todo \subseteq bs[c.batch].valid
      /\ Len(bs) \in Nat
    BY DEF Going, Kept
<1>2. bs2[c.batch] = bs[c.batch] /\ c.batch \in 1..Len(bs2)
    BY <1>1 DEF Grows
<1>3. ASSUME NEW i \in bs[c.batch].valid \ c.todo
      PROVE  \/ Wrote(c.batch, i, bs2, ws2, wr2)
             \/ i \in c.failed /\ <<c.batch, i>> \in er2 \cup own
    BY <1>1, WroteStays DEF Going, Grows
<1>4. c.at # "row" => c.todo # {} /\ RowOf(c, bs).type = "client" /\ RowOf(c, bs2) = RowOf(c, bs)
    BY <1>2 DEF Going, RowOf
<1>5. c.at # "row" => RowOf(c, bs).of \in Workspace
  <2>1. ASSUME c.at # "row" PROVE RowOf(c, bs).of \in Workspace
    <3>1. c.todo # {} /\ Len(bs[c.batch].rows) \in Nat /\ c.todo \subseteq 1..Len(bs[c.batch].rows)
      <4>1. bs[c.batch] \in Sheet
          BY <1>1 DEF Kept
      <4>2. bs[c.batch].rows \in Seq(Onboarding!Row)
          BY <4>1 DEF Sheet
      <4>3. bs[c.batch].valid \subseteq 1..Len(bs[c.batch].rows)
          BY <1>1 DEF Kept
      <4> QED
          BY <1>1, <1>4, <2>1, <4>2, <4>3
    <3>2. Turn(c) \in c.todo
        BY <3>1, LeastIn DEF Turn
    <3>3. RowOf(c, bs) \in Onboarding!Row
        BY <1>1, <3>2, RowAt DEF RowOf
    <3> QED
        BY <1>4, <2>1, <3>3, RowTyped
  <2> QED
      BY <2>1
<1> QED
    BY <1>1, <1>2, <1>3, <1>4, <1>5 DEF Going, Grows

LEMMA HonestStays ==
    ASSUME NEW bs, NEW bs2, NEW ws, NEW ws2, NEW wr, NEW wr2, NEW er, NEW er2,
           Kept(bs), Len(bs2) \in Nat, Len(wr) \in Nat, Len(wr2) \in Nat,
           Grows(bs, bs2, ws, ws2, wr, wr2, er, er2), NEW r, Honest(r, bs, ws, wr, er)
    PROVE  Honest(r, bs2, ws2, wr2, er2)
<1>1. r.batch \in 1..Len(bs) /\ Len(bs) \in Nat
    BY DEF Honest, Kept
<1>2. bs2[r.batch] = bs[r.batch] /\ r.batch \in 1..Len(bs2)
    BY <1>1 DEF Grows
<1> QED
    BY <1>1, <1>2, WroteStays DEF Honest, Grows

\* One commit goes on, whatever it writes: the others and the receipts stay true.
LEMMA CommitGoesOn ==
    ASSUME SheetsInv, NEW p \in Process, NEW c \in Doing \cup {Onboarding!Idle},
           NEW own \in SUBSET (Nat \X Nat), UNCHANGED batches,
           commit' = [commit EXCEPT ![p] = c], sheetsPending' = [sheetsPending EXCEPT ![p] = own],
           workspace' \in [Workspace -> Stages], written' \in Seq(Nat \X Nat),
           Grows(batches, batches', workspace, workspace', written, written', errors, errors'),
           own # {} => sheetsLock' = p,
           \A q \in Process : q # p /\ sheetsPending[q] # {} => sheetsLock' = q,
           Going(c, own, batches, workspace', written', errors'),
           receipts' \subseteq Onboarding!Receipt,
           \A r \in receipts' : r \in receipts \/ Honest(r, batches, workspace', written', errors')
    PROVE  SheetsInv'
<1>1. Len(batches) \in Nat /\ Len(written) \in Nat /\ Len(written') \in Nat /\ Kept(batches)
  <2>1. Kept(batches) /\ Len(written) \in Nat
      BY DEF SheetsInv, SheetTypes
  <2>2. Len(batches) \in Nat
      BY <2>1 DEF Kept
  <2> QED
      BY <2>1, <2>2
<1>2. \A q \in Process : \/ q = p /\ commit'[q] = c /\ sheetsPending'[q] = own
                         \/ q # p /\ commit'[q] = commit[q] /\ sheetsPending'[q] = sheetsPending[q]
    BY DEF SheetsInv, SheetTypes
<1>3. SheetTypes'
    BY <1>1 DEF SheetsInv, SheetTypes, Kept
<1>4. LockHeld'
    BY <1>2 DEF SheetsInv, LockHeld
<1>5. ASSUME NEW q \in Process
      PROVE  Going(commit'[q], sheetsPending'[q], batches', workspace', written', errors')
  <2>1. CASE q = p
      BY <1>2, <2>1
  <2>2. CASE q # p
    <3>1. Going(commit[q], sheetsPending[q], batches, workspace, written, errors)
        BY DEF SheetsInv, AllGoing
    <3>2. Going(commit[q], sheetsPending[q], batches', workspace', written', errors')
        BY <1>1, <3>1, GoingStays
    <3> QED
        BY <1>2, <2>2, <3>2
  <2> QED
      BY <2>1, <2>2
<1>6. ASSUME NEW r \in receipts'
      PROVE  Honest(r, batches', workspace', written', errors')
  <2>1. CASE r \in receipts
    <3>1. Honest(r, batches, workspace, written, errors)
        BY <2>1 DEF SheetsInv, AllHonest
    <3> QED
        BY <1>1, <3>1, HonestStays
  <2>2. CASE r \notin receipts
      BY <2>2
  <2> QED
      BY <2>1, <2>2
<1> QED
    BY <1>3, <1>4, <1>5, <1>6 DEF SheetsInv, AllGoing, AllHonest

LEMMA SheetsBounds ==
    /\ Files \subseteq Seq(Onboarding!Row) /\ Contested \subseteq Workspace /\ "none" \notin Process
BY OnboardingAssumption DEF Onboarding!OnboardingAssumption

LEMMA SheetsBegin == Onboarding!Init => SheetsInv
<1> SUFFICES ASSUME Onboarding!Init PROVE SheetsInv
    OBVIOUS
<1>1. batches \in Seq(Sheet) /\ Len(batches) = 0 /\ written \in Seq(Nat \X Nat) /\ Len(written) = 0
    BY DEF Onboarding!Init
<1>2. SheetTypes
    BY <1>1 DEF Onboarding!Init, SheetTypes, Kept, Stages
<1>3. LockHeld /\ AllGoing /\ AllHonest
    BY DEF Onboarding!Init, Onboarding!Idle, LockHeld, AllGoing, Going, AllHonest
<1> QED
    BY <1>2, <1>3 DEF SheetsInv

\* A commit under way, and what it looks at.
LEMMA CommitAt ==
    ASSUME SheetsInv, NEW p \in Process, commit[p].at # "idle"
    PROVE  LET c == commit[p]
           IN  /\ c \in Doing /\ c.batch \in 1..Len(batches) /\ Len(batches) \in Nat
               /\ c.todo \subseteq batches[c.batch].valid /\ batches[c.batch].valid \subseteq Nat
               /\ c.todo # {} => /\ Turn(c) \in c.todo /\ RowOf(c, batches) \in Onboarding!Row
               /\ Onboarding!At(p) = Turn(c) /\ Onboarding!Current(p) = RowOf(c, batches)
<1> DEFINE c == commit[p]
<1>1. /\ c \in Doing /\ c.batch \in 1..Len(batches) /\ Len(batches) \in Nat
      /\ c.todo \subseteq batches[c.batch].valid /\ Kept(batches)
    BY DEF SheetsInv, SheetTypes, AllGoing, Going, Kept
<1>2. batches[c.batch] \in Sheet /\ batches[c.batch].valid \subseteq 1..Len(batches[c.batch].rows)
    BY <1>1 DEF Kept
<1>3. batches[c.batch].valid \subseteq Nat /\ Len(batches[c.batch].rows) \in Nat
    BY <1>2 DEF Sheet
<1>4. c.todo # {} => Turn(c) \in c.todo
    BY <1>1, <1>2, <1>3, LeastIn DEF Turn
<1>5. c.todo # {} => RowOf(c, batches) \in Onboarding!Row
  <2> HIDE DEF c
  <2> QED
      BY <1>1, <1>4, RowAt DEF RowOf
<1>6. Onboarding!At(p) = Turn(c) /\ Onboarding!Current(p) = RowOf(c, batches)
    BY DEF Onboarding!At, Onboarding!Current, Turn, RowOf
<1> QED
    BY <1>1, <1>3, <1>4, <1>5, <1>6

\* What Grows asks when tables stay.
LEMMA NothingLost ==
    ASSUME SheetsInv, UNCHANGED <<batches, workspace, written>>, errors \subseteq errors'
    PROVE  Grows(batches, batches', workspace, workspace', written, written', errors, errors')
BY DEF Grows, SheetsInv, SheetTypes, Kept

LEMMA RollBackStep ==
    ASSUME SheetsInv, NEW p \in Process, Onboarding!RollBack(p),
           UNCHANGED <<batches, receipts, written, workspace>>
    PROVE  SheetsInv'
<1> DEFINE c == Onboarding!Idle
           own == {}
<1>1. /\ commit' = [commit EXCEPT ![p] = c] /\ sheetsPending' = [sheetsPending EXCEPT ![p] = own]
      /\ sheetsLock' = (IF sheetsLock = p THEN "none" ELSE sheetsLock) /\ errors' = errors
    BY DEF Onboarding!RollBack
<1>2. Grows(batches, batches', workspace, workspace', written, written', errors, errors')
    BY <1>1, NothingLost
<1>3. /\ \A q \in Process : q # p /\ sheetsPending[q] # {} => sheetsLock' = q
      /\ receipts' \subseteq Onboarding!Receipt
      /\ workspace' \in [Workspace -> Stages] /\ written' \in Seq(Nat \X Nat)
    BY <1>1 DEF SheetsInv, LockHeld, SheetTypes
<1>4. Going(c, own, batches, workspace', written', errors')
    BY DEF Going, Onboarding!Idle
<1>5. own \in SUBSET (Nat \X Nat) /\ c \in Doing \cup {Onboarding!Idle} /\ own = {}
    OBVIOUS
<1> HIDE DEF c, own
<1> QED
    BY <1>1, <1>2, <1>3, <1>4, <1>5, CommitGoesOn

LEMMA PreviewStep ==
    ASSUME SheetsInv, NEW key \in ClientKey, NEW rows \in Files, Onboarding!Preview(key, rows)
    PROVE  SheetsInv'
<1> DEFINE l == Len(batches)
           new == [key |-> key, rows |-> rows, valid |-> Onboarding!Valid(rows)]
<1>1. /\ batches' = Append(batches, new)
      /\ UNCHANGED <<receipts, errors, written, workspace, commit, sheetsPending, sheetsLock>>
    BY DEF Onboarding!Preview
<1>2. /\ new \in Sheet /\ new.valid \subseteq 1..Len(new.rows)
  <2>1. rows \in Seq(Onboarding!Row)
      BY SheetsBounds
  <2>2. Onboarding!Valid(rows) \subseteq 1..Len(rows) /\ 1..Len(rows) \subseteq Nat
      BY <2>1 DEF Onboarding!Valid
  <2> QED
      BY <2>1, <2>2 DEF Sheet
<1> HIDE DEF new
<1>3. batches \in Seq(Sheet) /\ l \in Nat
    BY DEF SheetsInv, SheetTypes, Kept
<1>4. /\ batches' \in Seq(Sheet) /\ Len(batches') = l + 1 /\ batches'[l + 1] = new
      /\ \A b \in 1..l : batches'[b] = batches[b]
    BY <1>1, <1>2, <1>3
<1>5. \A b \in 1..(l + 1) : b \in 1..l \/ b = l + 1
    BY <1>3
<1>6. Kept(batches')
    BY <1>2, <1>4, <1>5 DEF Kept, SheetsInv, SheetTypes
<1>7. Grows(batches, batches', workspace, workspace', written, written', errors, errors')
    BY <1>1, <1>3, <1>4 DEF Grows, SheetsInv, SheetTypes
<1>8. SheetTypes' /\ LockHeld'
    BY <1>1, <1>6 DEF SheetsInv, SheetTypes, LockHeld
<1>9. Kept(batches) /\ Len(batches') \in Nat /\ Len(written) \in Nat /\ Len(written') \in Nat
    BY <1>1, <1>3, <1>4 DEF SheetsInv, SheetTypes
<1>10. ASSUME NEW q \in Process
       PROVE  Going(commit'[q], sheetsPending'[q], batches', workspace', written', errors')
  <2>1. Going(commit[q], sheetsPending[q], batches, workspace, written, errors)
      BY DEF SheetsInv, AllGoing
  <2>2. Going(commit[q], sheetsPending[q], batches', workspace', written', errors')
      BY <1>7, <1>9, <2>1, GoingStays
  <2> QED
      BY <1>1, <2>2
<1>11. ASSUME NEW r \in receipts'
       PROVE  Honest(r, batches', workspace', written', errors')
  <2>1. Honest(r, batches, workspace, written, errors)
      BY <1>1 DEF SheetsInv, AllHonest
  <2> QED
      BY <1>7, <1>9, <2>1, HonestStays
<1> QED
    BY <1>8, <1>10, <1>11 DEF SheetsInv, AllGoing, AllHonest

LEMMA BeginStep ==
    ASSUME SheetsInv, NEW p \in Process, NEW b \in Onboarding!Batches, NEW key \in ClientKey,
           Onboarding!Begin(p, b, key)
    PROVE  SheetsInv'
<1> DEFINE c == [at |-> "row", batch |-> b, key |-> key, todo |-> batches[b].valid, failed |-> {},
                 seen |-> {}]
           own == sheetsPending[p]
<1>1. /\ commit' = [commit EXCEPT ![p] = c]
      /\ UNCHANGED <<batches, receipts, errors, written, workspace, sheetsPending, sheetsLock>>
    BY DEF Onboarding!Begin
<1>2. b \in 1..Len(batches) /\ b \in Nat /\ batches[b].valid \subseteq Nat
  <2>1. b \in 1..Len(batches) /\ batches[b] \in Sheet
      BY DEF Onboarding!Batches, SheetsInv, SheetTypes, Kept
  <2> QED
      BY <2>1 DEF Sheet
<1>3. c \in Doing /\ Going(c, own, batches, workspace', written', errors')
    BY <1>2 DEF Going, Doing
<1>4. Grows(batches, batches', workspace, workspace', written, written', errors, errors')
    BY <1>1, NothingLost
<1>5. /\ sheetsPending' = [sheetsPending EXCEPT ![p] = own] /\ own \in SUBSET (Nat \X Nat)
      /\ own # {} => sheetsLock' = p
      /\ \A q \in Process : q # p /\ sheetsPending[q] # {} => sheetsLock' = q
      /\ workspace' \in [Workspace -> Stages] /\ written' \in Seq(Nat \X Nat)
      /\ receipts' \subseteq Onboarding!Receipt
    BY <1>1 DEF SheetsInv, LockHeld, SheetTypes
<1> HIDE DEF c, own
<1> QED
    BY <1>1, <1>3, <1>4, <1>5, CommitGoesOn

Through(c) == [c EXCEPT !.at = "row", !.todo = @ \ {Turn(c)}]
Failing(c) == [Through(c) EXCEPT !.failed = @ \cup {Turn(c)}]

LEMMA ThroughRow ==
    ASSUME NEW c \in Doing, Turn(c) \in Nat
    PROVE  /\ Through(c) \in Doing /\ Failing(c) \in Doing
           /\ Through(c).at = "row" /\ Failing(c).at = "row"
           /\ Through(c).batch = c.batch /\ Failing(c).batch = c.batch
           /\ Through(c).todo = c.todo \ {Turn(c)} /\ Failing(c).todo = c.todo \ {Turn(c)}
           /\ Through(c).failed = c.failed /\ Failing(c).failed = c.failed \cup {Turn(c)}
<1>1. /\ Through(c) \in Doing /\ Through(c).at = "row" /\ Through(c).batch = c.batch
      /\ Through(c).todo = c.todo \ {Turn(c)} /\ Through(c).failed = c.failed
    BY DEF Through, Doing
<1> DEFINE d == Through(c)
<1>2. d \in Doing /\ Failing(c) = [d EXCEPT !.failed = @ \cup {Turn(c)}]
    BY <1>1 DEF Failing
<1> HIDE DEF d
<1>3. /\ Failing(c) \in Doing /\ Failing(c).at = d.at /\ Failing(c).batch = d.batch
      /\ Failing(c).todo = d.todo /\ Failing(c).failed = d.failed \cup {Turn(c)}
    BY <1>2 DEF Doing
<1> QED
    BY <1>1, <1>3 DEF d

\* The row in turn is written, or fails and has its error.
LEMMA RowDone ==
    ASSUME NEW bs, NEW ws, NEW wr, NEW er, NEW er2, NEW c, NEW own, NEW own2,
           Going(c, own, bs, ws, wr, er), c.at # "idle", Turn(c) \in Nat,
           er \cup own \subseteq er2 \cup own2, Wrote(c.batch, Turn(c), bs, ws, wr)
    PROVE  Through(c) \in Doing /\ Going(Through(c), own2, bs, ws, wr, er2)
<1>1. c \in Doing
    BY DEF Going
<1> DEFINE d == Through(c)
<1>2. d \in Doing /\ d.at = "row" /\ d.batch = c.batch /\ d.todo = c.todo \ {Turn(c)} /\ d.failed = c.failed
    BY <1>1, ThroughRow
<1> HIDE DEF d
<1>3. \A i \in bs[c.batch].valid \ d.todo : i \in bs[c.batch].valid \ c.todo \/ i = Turn(c)
    BY <1>2
<1>4. Going(d, own2, bs, ws, wr, er2)
    BY <1>2, <1>3 DEF Going
<1> QED
    BY <1>2, <1>4 DEF d

LEMMA RowFailed ==
    ASSUME NEW bs, NEW ws, NEW wr, NEW er, NEW c, NEW own,
           Going(c, own, bs, ws, wr, er), c.at # "idle", Turn(c) \in Nat
    PROVE  Failing(c) \in Doing /\ Going(Failing(c), own \cup {<<c.batch, Turn(c)>>}, bs, ws, wr, er)
<1>1. c \in Doing
    BY DEF Going
<1> DEFINE d == Failing(c)
<1>2. d \in Doing /\ d.at = "row" /\ d.batch = c.batch /\ d.todo = c.todo \ {Turn(c)}
      /\ d.failed = c.failed \cup {Turn(c)}
    BY <1>1, ThroughRow
<1> HIDE DEF d
<1>3. \A i \in bs[c.batch].valid \ d.todo : i \in bs[c.batch].valid \ c.todo \/ i = Turn(c)
    BY <1>2
<1>4. Going(d, own \cup {<<c.batch, Turn(c)>>}, bs, ws, wr, er)
    BY <1>2, <1>3 DEF Going
<1> QED
    BY <1>2, <1>4 DEF d

\* Done and Refuse, as they change a commit.
LEMMA DoneIs ==
    ASSUME SheetsInv, NEW p \in Process, commit[p].at # "idle"
    PROVE  Onboarding!Done(p) = [commit EXCEPT ![p] = Through(commit[p])]
<1>1. commit \in [Process -> Doing \cup {Onboarding!Idle}] /\ Onboarding!At(p) = Turn(commit[p])
    BY CommitAt DEF SheetsInv, SheetTypes
<1> QED
    BY <1>1 DEF Onboarding!Done, Through

LEMMA RefusedStep ==
    ASSUME SheetsInv, NEW p \in Process, commit[p].at # "idle", commit[p].todo # {},
           Onboarding!Refuse(p), Onboarding!MayWrite(p),
           UNCHANGED <<batches, receipts, written, workspace>>
    PROVE  SheetsInv'
<1> DEFINE c == commit[p]
           d == Failing(c)
           own == sheetsPending[p] \cup {<<c.batch, Turn(c)>>}
<1>1. /\ c \in Doing /\ Turn(c) \in Nat /\ c.batch \in Nat
      /\ Onboarding!At(p) = Turn(c)
    BY CommitAt
<1>2. sheetsPending' = [sheetsPending EXCEPT ![p] = own] /\ sheetsLock' = p /\ errors' = errors
    BY <1>1 DEF Onboarding!Refuse
<1>3. commit' = [commit EXCEPT ![p] = d]
  <2>1. commit' = [[commit EXCEPT ![p] = Through(c)] EXCEPT ![p].failed = @ \cup {Turn(c)}]
      BY <1>1, DoneIs DEF Onboarding!Refuse
  <2>2. commit \in [Process -> Doing \cup {Onboarding!Idle}]
      BY DEF SheetsInv, SheetTypes
  <2> HIDE DEF c
  <2> QED
      BY <2>1, <2>2 DEF Failing
<1>4. d \in Doing /\ Going(d, own, batches, workspace', written', errors')
  <2>1. Going(c, sheetsPending[p], batches, workspace', written', errors')
      BY <1>2 DEF SheetsInv, AllGoing
  <2> QED
      BY <1>1, <2>1, RowFailed
<1>5. Grows(batches, batches', workspace, workspace', written, written', errors, errors')
    BY <1>2, NothingLost
<1>6. /\ \A q \in Process : q # p /\ sheetsPending[q] # {} => sheetsLock' = q
      /\ workspace' \in [Workspace -> Stages] /\ written' \in Seq(Nat \X Nat)
      /\ receipts' \subseteq Onboarding!Receipt
    BY <1>2, SheetsBounds DEF SheetsInv, LockHeld, SheetTypes, Onboarding!MayWrite
<1>7. own \in SUBSET (Nat \X Nat)
    BY <1>1 DEF SheetsInv, SheetTypes
<1> HIDE DEF d, own
<1> QED
    BY <1>2, <1>3, <1>4, <1>5, <1>6, <1>7, CommitGoesOn

\* A commit of the connection, for a row or a receipt.
LEMMA ConnectionCommits ==
    ASSUME SheetsInv, NEW p \in Process, Onboarding!MayWrite(p), Onboarding!Commit(p)
    PROVE  /\ sheetsPending' = [sheetsPending EXCEPT ![p] = {}]
           /\ errors' = errors \cup sheetsPending[p]
           /\ \A q \in Process : q # p /\ sheetsPending[q] # {} => sheetsLock' = q
BY SheetsBounds DEF SheetsInv, LockHeld, Onboarding!MayWrite, Onboarding!Commit

\* A row is written, and with it what its connection has not committed.
LEMMA WrittenStep ==
    ASSUME SheetsInv, NEW p \in Process, commit[p].at # "idle", commit[p].todo # {},
           UNCHANGED <<batches, receipts>>, NEW own \in SUBSET (Nat \X Nat),
           Wrote(commit[p].batch, Turn(commit[p]), batches, workspace', written'),
           commit' = Onboarding!Done(p), sheetsPending' = [sheetsPending EXCEPT ![p] = own],
           errors' \cup sheetsPending[p] \subseteq errors' \cup own, own # {} => sheetsLock' = p,
           workspace' \in [Workspace -> Stages], written' \in Seq(Nat \X Nat),
           Grows(batches, batches', workspace, workspace', written, written', errors, errors'),
           \A q \in Process : q # p /\ sheetsPending[q] # {} => sheetsLock' = q
    PROVE  SheetsInv'
<1> DEFINE c == commit[p]
           d == Through(c)
<1>1. c \in Doing /\ Turn(c) \in Nat
    BY CommitAt
<1>2. commit' = [commit EXCEPT ![p] = d]
    BY DoneIs
<1>3. Going(c, sheetsPending[p], batches, workspace', written', errors')
  <2>1. Going(c, sheetsPending[p], batches, workspace, written, errors)
      BY DEF SheetsInv, AllGoing
  <2>2. Len(written) \in Nat /\ Len(written') \in Nat /\ Kept(batches) /\ Len(batches') \in Nat
      BY DEF SheetsInv, SheetTypes, Kept
  <2>3. Going(c, sheetsPending[p], batches', workspace', written', errors')
      BY <2>1, <2>2, GoingStays
  <2> QED
      BY <2>3
<1>4. d \in Doing /\ Going(d, own, batches, workspace', written', errors')
    BY <1>1, <1>3, RowDone
<1>5. receipts' \subseteq Onboarding!Receipt
    BY DEF SheetsInv, SheetTypes
<1> HIDE DEF d
<1> QED
    BY <1>2, <1>4, <1>5, CommitGoesOn

LEMMA AppendRowStep ==
    ASSUME SheetsInv, NEW p \in Process, Onboarding!AppendRow(p)
    PROVE  SheetsInv'
<1> DEFINE c == commit[p]
<1>1. /\ c.at = "row" /\ c.todo # {} /\ RowOf(c, batches).type # "client" /\ Onboarding!MayWrite(p)
      /\ Turn(c) \in Nat /\ c.batch \in Nat /\ Onboarding!At(p) = Turn(c)
      /\ UNCHANGED <<batches, receipts, workspace>>
    BY CommitAt DEF Onboarding!AppendRow
<1>2. CASE written' = Append(written, <<c.batch, Turn(c)>>) /\ commit' = Onboarding!Done(p) /\ Onboarding!Commit(p)
  <2>1. /\ sheetsPending' = [sheetsPending EXCEPT ![p] = {}]
        /\ errors' = errors \cup sheetsPending[p]
        /\ \A q \in Process : q # p /\ sheetsPending[q] # {} => sheetsLock' = q
      BY <1>1, <1>2, ConnectionCommits
  <2>2. written \in Seq(Nat \X Nat) /\ Len(written) \in Nat /\ <<c.batch, Turn(c)>> \in Nat \X Nat
      BY <1>1 DEF SheetsInv, SheetTypes
  <2>3. /\ written' \in Seq(Nat \X Nat) /\ Len(written') = Len(written) + 1
        /\ written'[Len(written) + 1] = <<c.batch, Turn(c)>>
        /\ \A n \in 1..Len(written) : written'[n] = written[n]
      BY <1>2, <2>2
  <2>4. Wrote(c.batch, Turn(c), batches, workspace', written')
    <3>1. Len(written) + 1 \in 1..Len(written')
        BY <2>2, <2>3
    <3> QED
        BY <1>1, <2>3, <3>1 DEF Wrote, RowOf
  <2>5. Grows(batches, batches', workspace, workspace', written, written', errors, errors')
    <3>1. Len(batches) <= Len(batches')
        BY <1>1 DEF SheetsInv, SheetTypes, Kept
    <3> QED
        BY <1>1, <2>1, <2>2, <2>3, <3>1 DEF Grows
  <2>6. workspace' \in [Workspace -> Stages] /\ {} \in SUBSET (Nat \X Nat)
      BY <1>1 DEF SheetsInv, SheetTypes
  <2> QED
      BY <1>1, <1>2, <2>1, <2>3, <2>4, <2>5, <2>6, WrittenStep
<1>3. CASE Onboarding!Refuse(p) /\ UNCHANGED written
    BY <1>1, <1>3, RefusedStep
<1> QED
    BY <1>1, <1>2, <1>3 DEF Onboarding!AppendRow

LEMMA ReadWorkspaceStep ==
    ASSUME SheetsInv, NEW p \in Process, Onboarding!ReadWorkspace(p)
    PROVE  SheetsInv'
<1> DEFINE c == commit[p]
           w == RowOf(c, batches).of
           d == [c EXCEPT !.at = "made", !.seen = workspace[w]]
           own == sheetsPending[p]
<1>1. /\ c.at = "row" /\ c.todo # {} /\ RowOf(c, batches).type = "client" /\ c \in Doing
      /\ RowOf(c, batches) \in Onboarding!Row
      /\ commit' = [commit EXCEPT ![p].at = "made", ![p].seen = workspace[w]]
      /\ UNCHANGED <<batches, receipts, errors, written, workspace, sheetsPending, sheetsLock>>
    BY CommitAt DEF Onboarding!ReadWorkspace
<1>2. workspace[w] \in SUBSET (Whole \cup {"foreign"})
  <2>1. w \in Workspace
      BY <1>1, RowTyped
  <2>2. workspace[w] \in Stages
      BY <2>1 DEF SheetsInv, SheetTypes
  <2> QED
      BY <2>2 DEF Stages, Whole
<1>3. commit' = [commit EXCEPT ![p] = d]
  <2>1. commit \in [Process -> Doing \cup {Onboarding!Idle}]
      BY DEF SheetsInv, SheetTypes
  <2> HIDE DEF w
  <2> QED
      BY <1>1, <2>1
<1>4. /\ d \in Doing /\ d.at = "made" /\ d.batch = c.batch /\ d.todo = c.todo /\ d.failed = c.failed
  <2> HIDE DEF w, c
  <2> QED
      BY <1>1, <1>2 DEF Doing
<1>5. Going(d, own, batches, workspace', written', errors')
  <2>1. Going(c, own, batches, workspace, written, errors)
      BY DEF SheetsInv, AllGoing
  <2>2. RowOf(d, batches) = RowOf(c, batches)
      BY <1>4 DEF RowOf, Turn
  <2> HIDE DEF c, d, own
  <2> QED
      BY <1>1, <1>4, <2>1, <2>2 DEF Going
<1>6. Grows(batches, batches', workspace, workspace', written, written', errors, errors')
    BY <1>1, NothingLost
<1>7. /\ sheetsPending' = [sheetsPending EXCEPT ![p] = own] /\ own \in SUBSET (Nat \X Nat)
      /\ own # {} => sheetsLock' = p
      /\ \A q \in Process : q # p /\ sheetsPending[q] # {} => sheetsLock' = q
      /\ workspace' \in [Workspace -> Stages] /\ written' \in Seq(Nat \X Nat)
      /\ receipts' \subseteq Onboarding!Receipt /\ UNCHANGED <<batches, receipts>>
    BY <1>1 DEF SheetsInv, LockHeld, SheetTypes
<1> HIDE DEF c, d, own
<1> QED
    BY <1>3, <1>4, <1>5, <1>6, <1>7, CommitGoesOn

LEMMA MakeWorkspaceStep ==
    ASSUME SheetsInv, NEW p \in Process, Onboarding!MakeWorkspace(p)
    PROVE  SheetsInv'
<1> DEFINE c == commit[p]
           piece == c.at
           w == RowOf(c, batches).of
           d == [c EXCEPT !.at = Onboarding!Then[piece], !.seen = workspace'[w]]
           own == IF piece \notin workspace[w] THEN {} ELSE sheetsPending[p]
<1>1. /\ piece \in {"made", "attached"} /\ c \in Doing
      /\ UNCHANGED <<batches, receipts, written>>
      /\ Onboarding!Current(p) = RowOf(c, batches)
    BY CommitAt DEF Onboarding!MakeWorkspace
<1>2. /\ IF piece \notin workspace[w]
         THEN /\ Onboarding!MayWrite(p) /\ Onboarding!Commit(p)
              /\ workspace' = [workspace EXCEPT ![w] = @ \cup {piece}]
         ELSE UNCHANGED <<workspace, errors, sheetsPending, sheetsLock>>
      /\ commit' = [commit EXCEPT ![p].at = Onboarding!Then[piece], ![p].seen = workspace'[w]]
    BY <1>1 DEF Onboarding!MakeWorkspace
<1>3. /\ c.todo # {} /\ RowOf(c, batches).type = "client"
      /\ piece = "attached" => "made" \in workspace[w]
  <2>1. Going(c, sheetsPending[p], batches, workspace, written, errors)
      BY DEF SheetsInv, AllGoing
  <2> QED
      BY <1>1, <2>1 DEF Going
<1>4. w \in Workspace /\ workspace[w] \in Stages /\ workspace \in [Workspace -> Stages]
  <2>1. RowOf(c, batches) \in Onboarding!Row
      BY <1>1, <1>3, CommitAt
  <2> QED
      BY <1>3, <2>1, RowTyped DEF SheetsInv, SheetTypes
<1>5. /\ workspace' \in [Workspace -> Stages] /\ piece \in workspace'[w]
      /\ workspace[w] \subseteq workspace'[w]
      /\ \A v \in Workspace : v # w => workspace'[v] = workspace[v]
      /\ workspace[w] = Whole => workspace'[w] = Whole
  <2> HIDE DEF w, piece
  <2>1. CASE piece \notin workspace[w]
    <3>1. workspace[w] \cup {piece} \in Stages /\ workspace[w] # Whole
        BY <1>1, <1>3, <1>4, <2>1 DEF Stages, Whole
    <3> QED
        BY <1>2, <1>4, <2>1, <3>1
  <2>2. CASE piece \in workspace[w]
      BY <1>2, <1>4, <2>2
  <2> QED
      BY <2>1, <2>2
<1>6. /\ sheetsPending' = [sheetsPending EXCEPT ![p] = own] /\ own \in SUBSET (Nat \X Nat)
      /\ own # {} => sheetsLock' = p
      /\ \A q \in Process : q # p /\ sheetsPending[q] # {} => sheetsLock' = q
      /\ errors \subseteq errors' /\ errors \cup sheetsPending[p] \subseteq errors' \cup own
  <2>1. CASE piece \notin workspace[w]
      BY <1>2, <2>1, ConnectionCommits
  <2>2. CASE piece \in workspace[w]
      BY <1>2, <2>2 DEF SheetsInv, SheetTypes, LockHeld
  <2> QED
      BY <2>1, <2>2
<1>7. Grows(batches, batches', workspace, workspace', written, written', errors, errors')
  <2>1. Len(batches) <= Len(batches') /\ Len(written) <= Len(written')
      BY <1>1 DEF SheetsInv, SheetTypes, Kept
  <2> HIDE DEF w
  <2> QED
      BY <1>1, <1>5, <1>6, <2>1 DEF Grows
<1>8. Onboarding!Then[piece] = IF piece = "made" THEN "attached" ELSE "joined"
    BY <1>1 DEF Onboarding!Then
<1>9. commit' = [commit EXCEPT ![p] = d]
  <2>1. commit \in [Process -> Doing \cup {Onboarding!Idle}]
      BY DEF SheetsInv, SheetTypes
  <2> HIDE DEF w, piece
  <2> QED
      BY <1>2, <2>1
<1>10. /\ d \in Doing /\ d.at = Onboarding!Then[piece] /\ d.batch = c.batch /\ d.todo = c.todo
       /\ d.failed = c.failed
  <2>1. workspace'[w] \in SUBSET (Whole \cup {"foreign"})
      BY <1>4, <1>5 DEF Stages, Whole
  <2> HIDE DEF w, c
  <2> QED
      BY <1>1, <1>8, <2>1 DEF Doing
<1>11. Going(d, own, batches, workspace', written', errors')
  <2>1. Going(c, sheetsPending[p], batches', workspace', written', errors')
    <3>1. Going(c, sheetsPending[p], batches, workspace, written, errors)
        BY DEF SheetsInv, AllGoing
    <3>2. Len(written) \in Nat /\ Len(written') \in Nat /\ Kept(batches) /\ Len(batches') \in Nat
        BY <1>1 DEF SheetsInv, SheetTypes, Kept
    <3> QED
        BY <1>7, <3>1, <3>2, GoingStays
  <2>2. RowOf(d, batches) = RowOf(c, batches)
      BY <1>10 DEF RowOf, Turn
  <2>3. sheetsPending[p] \subseteq errors' \cup own
      BY <1>6
  <2>4. "made" \in workspace'[w] /\ (piece = "attached" => "attached" \in workspace'[w])
      BY <1>1, <1>3, <1>5
  <2> HIDE DEF d, own
  <2> QED
      BY <1>1, <1>3, <1>8, <1>10, <2>1, <2>2, <2>3, <2>4 DEF Going
<1>12. written' \in Seq(Nat \X Nat) /\ receipts' \subseteq Onboarding!Receipt
    BY <1>1 DEF SheetsInv, SheetTypes
<1> HIDE DEF c, d, own
<1> QED
    BY <1>1, <1>5, <1>6, <1>7, <1>9, <1>10, <1>11, <1>12, CommitGoesOn

LEMMA JoinWorkspaceStep ==
    ASSUME SheetsInv, NEW p \in Process, Onboarding!JoinWorkspace(p)
    PROVE  SheetsInv'
<1> DEFINE c == commit[p]
           w == RowOf(c, batches).of
<1>1. /\ c.at = "joined" /\ c.todo # {} /\ RowOf(c, batches).type = "client"
      /\ Onboarding!Current(p) = RowOf(c, batches) /\ c \in Doing /\ c.batch \in 1..Len(batches)
      /\ UNCHANGED <<batches, receipts, written>>
  <2>1. c.at = "joined" /\ UNCHANGED <<batches, receipts, written>>
      BY DEF Onboarding!JoinWorkspace
  <2>2. Going(c, sheetsPending[p], batches, workspace, written, errors)
      BY DEF SheetsInv, AllGoing
  <2> QED
      BY <2>1, <2>2, CommitAt DEF Going
<1>2. w \in Workspace /\ workspace \in [Workspace -> Stages]
  <2>1. RowOf(c, batches) \in Onboarding!Row
      BY <1>1, CommitAt
  <2> QED
      BY <1>1, <2>1, RowTyped DEF SheetsInv, SheetTypes
<1>3. \/ Onboarding!MayWrite(p) /\ Onboarding!Refuse(p) /\ UNCHANGED workspace
      \/ /\ workspace[w] = {"made", "attached"} /\ Onboarding!MayWrite(p)
         /\ workspace' = [workspace EXCEPT ![w] = Whole]
         /\ commit' = Onboarding!Done(p) /\ Onboarding!Commit(p)
      \/ /\ workspace[w] = Whole
         /\ commit' = Onboarding!Done(p) /\ UNCHANGED <<workspace, errors, sheetsPending, sheetsLock>>
    BY <1>1 DEF Onboarding!JoinWorkspace, Onboarding!Pieces, Whole
<1>4. Len(batches) <= Len(batches') /\ Len(written) <= Len(written') /\ written' \in Seq(Nat \X Nat)
    BY <1>1 DEF SheetsInv, SheetTypes, Kept
<1>5. CASE /\ workspace[w] = {"made", "attached"} /\ Onboarding!MayWrite(p)
           /\ workspace' = [workspace EXCEPT ![w] = Whole]
           /\ commit' = Onboarding!Done(p) /\ Onboarding!Commit(p)
  <2>1. /\ sheetsPending' = [sheetsPending EXCEPT ![p] = {}]
        /\ errors' = errors \cup sheetsPending[p]
        /\ \A q \in Process : q # p /\ sheetsPending[q] # {} => sheetsLock' = q
      BY <1>5, ConnectionCommits
  <2>2. /\ workspace' \in [Workspace -> Stages] /\ workspace'[w] = Whole
        /\ \A v \in Workspace : workspace[v] \subseteq workspace'[v]
        /\ \A v \in Workspace : workspace[v] = Whole => workspace'[v] = Whole
    <3>1. Whole \in Stages /\ {"made", "attached"} \subseteq Whole
        BY DEF Stages, Whole
    <3> HIDE DEF w
    <3> QED
        BY <1>2, <1>5, <3>1
  <2>3. Wrote(c.batch, Turn(c), batches, workspace', written')
      BY <1>1, <2>2 DEF Wrote, RowOf
  <2>4. Grows(batches, batches', workspace, workspace', written, written', errors, errors')
      BY <1>1, <1>4, <2>1, <2>2 DEF Grows
  <2>5. {} \in SUBSET (Nat \X Nat)
      OBVIOUS
  <2> QED
      BY <1>1, <1>4, <1>5, <2>1, <2>2, <2>3, <2>4, <2>5, WrittenStep
<1>6. CASE /\ workspace[w] = Whole
           /\ commit' = Onboarding!Done(p) /\ UNCHANGED <<workspace, errors, sheetsPending, sheetsLock>>
  <2>1. Wrote(c.batch, Turn(c), batches, workspace', written')
      BY <1>1, <1>6 DEF Wrote, RowOf
  <2>2. Grows(batches, batches', workspace, workspace', written, written', errors, errors')
      BY <1>1, <1>6, NothingLost
  <2> DEFINE own == sheetsPending[p]
  <2>3. /\ own \in SUBSET (Nat \X Nat) /\ sheetsPending' = [sheetsPending EXCEPT ![p] = own]
        /\ errors' \cup sheetsPending[p] \subseteq errors' \cup own
        /\ own # {} => sheetsLock' = p
        /\ \A q \in Process : q # p /\ sheetsPending[q] # {} => sheetsLock' = q
        /\ workspace' \in [Workspace -> Stages]
      BY <1>6 DEF SheetsInv, SheetTypes, LockHeld
  <2> HIDE DEF own
  <2> QED
      BY <1>1, <1>4, <1>6, <2>1, <2>2, <2>3, WrittenStep
<1>7. CASE Onboarding!MayWrite(p) /\ Onboarding!Refuse(p) /\ UNCHANGED workspace
    BY <1>1, <1>7, RefusedStep
<1> QED
    BY <1>3, <1>5, <1>6, <1>7

\* Another organization takes a workspace this one has not attached.
LEMMA OtherOrganizationStep ==
    ASSUME SheetsInv, NEW w \in Contested, Onboarding!OtherOrganization(w)
    PROVE  SheetsInv'
<1> DEFINE theirs == {"made", "attached", "foreign"}
<1>1. /\ "attached" \notin workspace[w] /\ workspace' = [workspace EXCEPT ![w] = theirs]
      /\ UNCHANGED <<batches, receipts, errors, written, commit, sheetsPending, sheetsLock>>
    BY DEF Onboarding!OtherOrganization, Onboarding!Others
<1>2. w \in Workspace /\ workspace \in [Workspace -> Stages]
    BY SheetsBounds DEF SheetsInv, SheetTypes
<1>3. theirs \in Stages /\ workspace[w] \subseteq theirs /\ workspace[w] # Whole
    BY <1>1, <1>2 DEF Stages, Whole
<1> HIDE DEF theirs
<1>4. /\ workspace' \in [Workspace -> Stages]
      /\ \A v \in Workspace : workspace[v] \subseteq workspace'[v]
      /\ \A v \in Workspace : workspace[v] = Whole => workspace'[v] = Whole
    BY <1>1, <1>2, <1>3
<1>5. Kept(batches) /\ Len(batches') \in Nat /\ Len(written) \in Nat /\ Len(written') \in Nat
    BY <1>1 DEF SheetsInv, SheetTypes, Kept
<1>6. Grows(batches, batches', workspace, workspace', written, written', errors, errors')
    BY <1>1, <1>4, <1>5 DEF Grows
<1>7. SheetTypes' /\ LockHeld'
    BY <1>1, <1>4 DEF SheetsInv, SheetTypes, LockHeld
<1>8. ASSUME NEW q \in Process
      PROVE  Going(commit'[q], sheetsPending'[q], batches', workspace', written', errors')
  <2>1. Going(commit[q], sheetsPending[q], batches, workspace, written, errors)
      BY DEF SheetsInv, AllGoing
  <2>2. Going(commit[q], sheetsPending[q], batches', workspace', written', errors')
      BY <1>5, <1>6, <2>1, GoingStays
  <2> QED
      BY <1>1, <2>2
<1>9. ASSUME NEW r \in receipts'
      PROVE  Honest(r, batches', workspace', written', errors')
  <2>1. Honest(r, batches, workspace, written, errors)
      BY <1>1 DEF SheetsInv, AllHonest
  <2> QED
      BY <1>5, <1>6, <2>1, HonestStays
<1> QED
    BY <1>7, <1>8, <1>9 DEF SheetsInv, AllGoing, AllHonest

\* The receipt owns up to errors when the commit failed on a row, and commits them with it.
LEMMA WriteReceiptStep ==
    ASSUME SheetsInv, NEW p \in Process, Onboarding!WriteReceipt(p)
    PROVE  SheetsInv'
<1> DEFINE c == commit[p]
           new == [batch |-> c.batch, key |-> c.key, status |-> Onboarding!Status(c.failed)]
<1>1. /\ c.at = "row" /\ c.todo = {} /\ Onboarding!MayWrite(p)
      /\ UNCHANGED <<batches, written, workspace>>
      /\ \/ Onboarding!RollBack(p) /\ UNCHANGED receipts
         \/ /\ receipts' = receipts \cup {new}
            /\ commit' = [commit EXCEPT ![p] = Onboarding!Idle] /\ Onboarding!Commit(p)
    BY DEF Onboarding!WriteReceipt
<1>2. CASE Onboarding!RollBack(p) /\ UNCHANGED receipts
    BY <1>1, <1>2, RollBackStep
<1>3. CASE /\ receipts' = receipts \cup {new}
           /\ commit' = [commit EXCEPT ![p] = Onboarding!Idle] /\ Onboarding!Commit(p)
  <2>1. /\ sheetsPending' = [sheetsPending EXCEPT ![p] = {}]
        /\ errors' = errors \cup sheetsPending[p]
        /\ \A q \in Process : q # p /\ sheetsPending[q] # {} => sheetsLock' = q
      BY <1>1, <1>3, ConnectionCommits
  <2>2. Grows(batches, batches', workspace, workspace', written, written', errors, errors')
      BY <1>1, <2>1, NothingLost
  <2>3. c \in Doing /\ Going(c, sheetsPending[p], batches, workspace, written, errors)
      BY <1>1, CommitAt DEF SheetsInv, AllGoing
  <2>4. new \in Onboarding!Receipt
      BY <2>3 DEF Onboarding!Receipt, Onboarding!Status, Doing
  <2>5. Honest(new, batches, workspace', written', errors')
    <3>1. ASSUME NEW i \in batches[c.batch].valid
          PROVE  \/ Wrote(c.batch, i, batches, workspace', written')
                 \/ new.status = "committed_with_errors" /\ <<c.batch, i>> \in errors'
      <4>1. \/ Wrote(c.batch, i, batches, workspace, written)
            \/ i \in c.failed /\ <<c.batch, i>> \in errors \cup sheetsPending[p]
          BY <1>1, <2>3 DEF Going
      <4>2. c.failed # {} => new.status = "committed_with_errors"
          BY DEF Onboarding!Status
      <4> QED
          BY <1>1, <2>1, <4>1, <4>2
    <3>2. new.batch = c.batch /\ c.batch \in 1..Len(batches)
        BY <1>1, CommitAt
    <3> HIDE DEF new
    <3> QED
        BY <3>1, <3>2 DEF Honest
  <2>6. Going(Onboarding!Idle, {}, batches, workspace', written', errors')
      BY DEF Going, Onboarding!Idle
  <2> HIDE DEF new
  <2>7. /\ receipts' \subseteq Onboarding!Receipt
        /\ \A r \in receipts' : r \in receipts \/ Honest(r, batches, workspace', written', errors')
        /\ workspace' \in [Workspace -> Stages] /\ written' \in Seq(Nat \X Nat)
        /\ {} \in SUBSET (Nat \X Nat) /\ Onboarding!Idle \in Doing \cup {Onboarding!Idle}
      BY <1>1, <1>3, <2>4, <2>5 DEF SheetsInv, SheetTypes
  <2> QED
      BY <1>1, <1>3, <2>1, <2>2, <2>6, <2>7, CommitGoesOn
<1> QED
    BY <1>1, <1>2, <1>3

LEMMA SheetsStep == SheetsInv /\ [Onboarding!Next]_OnboardingVars => SheetsInv'
<1> SUFFICES ASSUME SheetsInv, [Onboarding!Next]_OnboardingVars PROVE SheetsInv'
    OBVIOUS
<1>1. CASE UNCHANGED OnboardingVars
    BY <1>1 DEF OnboardingVars, SheetsInv, SheetTypes, LockHeld, AllGoing, AllHonest, Kept
<1>2. ASSUME NEW p \in Process, Onboarding!LosesRace(p) \/ Onboarding!Crash(p)
      PROVE  SheetsInv'
    BY <1>2, RollBackStep DEF Onboarding!LosesRace, Onboarding!Crash
<1>3. CASE Onboarding!Next
    BY <1>2, <1>3, PreviewStep, BeginStep, AppendRowStep, ReadWorkspaceStep, MakeWorkspaceStep,
       JoinWorkspaceStep, WriteReceiptStep, OtherOrganizationStep DEF Onboarding!Next
<1> QED
    BY <1>1, <1>3

\* What the part says, of the invariant.
LEMMA SheetsConclude == SheetsInv => Onboarding!TypeOK /\ Onboarding!ReceiptIsTrue
<1> SUFFICES ASSUME SheetsInv PROVE Onboarding!TypeOK /\ Onboarding!ReceiptIsTrue
    OBVIOUS
<1>1. ASSUME NEW b \in Onboarding!Batches
      PROVE  /\ batches[b].valid \subseteq 1..Len(batches[b].rows)
             /\ \A i \in 1..Len(batches[b].rows) : batches[b].rows[i] \in Onboarding!Row
  <2>1. b \in 1..Len(batches) /\ batches[b] \in Sheet
      BY DEF Onboarding!Batches, SheetsInv, SheetTypes, Kept
  <2>2. batches[b].rows \in Seq(Onboarding!Row)
      BY <2>1 DEF Sheet
  <2> QED
      BY <2>1, <2>2 DEF SheetsInv, SheetTypes, Kept
<1>2. workspace \in [Workspace -> {{}, {"made"}, {"made", "attached"}, Onboarding!Pieces,
                                   Onboarding!Others}]
    BY DEF SheetsInv, SheetTypes, Stages, Whole, Onboarding!Pieces, Onboarding!Others
<1>3. Onboarding!TypeOK
    BY <1>1, <1>2 DEF Onboarding!TypeOK, SheetsInv, SheetTypes, LockHeld
<1>4. \A b, i : Wrote(b, i, batches, workspace, written) <=> Onboarding!Written(b, i)
    BY DEF Wrote, Onboarding!Written, Whole, Onboarding!Pieces
<1>5. Onboarding!ReceiptIsTrue
    BY <1>4 DEF Onboarding!ReceiptIsTrue, SheetsInv, AllHonest, Honest
<1> QED
    BY <1>3, <1>5

\* A receipt tells the truth, for any files, processes and crashes: each valid row of its batch
\* is written, or the receipt owns up to errors and the row has one.
THEOREM ReceiptIsTrueHolds == SideBySide => []ReceiptIsTrue
<1> DEFINE PartInv == part = "sheets" => SheetsInv
<1>1. StartAll => PartInv
    BY SheetsBegin DEF StartAll
<1>2. PartInv /\ [StepOne]_allVars => PartInv'
  <2> SUFFICES ASSUME PartInv, [StepOne]_allVars, part' = "sheets" PROVE SheetsInv'
      OBVIOUS
  <2>1. part = "sheets" /\ [Onboarding!Next]_OnboardingVars
      BY DEF StepOne, allVars
  <2> QED
      BY <2>1, SheetsStep
<1>3. PartInv => ReceiptIsTrue
    BY SheetsConclude DEF ReceiptIsTrue
<1> QED
    BY <1>1, <1>2, <1>3, PTL DEF SideBySide
------------------------------------------------------------------------------
(* Templates                                                                *)

\* No stage above is met again below, for given dependencies.
Solves(f, after) ==
    f = [above \in SUBSET Stage |->
            [s \in Stage |-> s \notin above /\ \A d \in after[s] : f[above \cup {s}][d]]]

\* The recursion has a solution: of all sets of stages with what is above them that are closed
\* under it, the largest.
LEMMA Solvable ==
    ASSUME NEW after \in [Stage -> SUBSET Stage]
    PROVE  \E f : Solves(f, after)
<1> DEFINE D == Stage \X SUBSET Stage
           Closed(X) == \A x \in X : x[1] \notin x[2] /\ \A d \in after[x[1]] : <<d, x[2] \cup {x[1]}>> \in X
           G == UNION {X \in SUBSET D : Closed(X)}
           f == [above \in SUBSET Stage |-> [s \in Stage |-> <<s, above>> \in G]]
<1>1. Closed(G)
    OBVIOUS
<1>2. ASSUME NEW s \in Stage, NEW above \in SUBSET Stage, s \notin above,
             \A d \in after[s] : <<d, above \cup {s}>> \in G
      PROVE  <<s, above>> \in G
  <2> DEFINE X == G \cup {<<s, above>>}
  <2>1. X \in SUBSET D
      OBVIOUS
  <2>2. ASSUME NEW x \in X
        PROVE  x[1] \notin x[2] /\ \A d \in after[x[1]] : <<d, x[2] \cup {x[1]}>> \in X
    <3>1. CASE x = <<s, above>>
        BY <1>2, <3>1
    <3>2. CASE x \in G
        BY <1>1, <3>2
    <3> QED
        BY <3>1, <3>2
  <2> QED
      BY <2>1, <2>2
<1>3. \A s \in Stage, above \in SUBSET Stage :
        <<s, above>> \in G <=> (s \notin above /\ \A d \in after[s] : <<d, above \cup {s}>> \in G)
    BY <1>1, <1>2
<1> HIDE DEF G
<1>4. f = [above \in SUBSET Stage |->
            [s \in Stage |-> s \notin above /\ \A d \in after[s] : f[above \cup {s}][d]]]
  <2>1. ASSUME NEW above \in SUBSET Stage, NEW s \in Stage
        PROVE  (<<s, above>> \in G) <=> (s \notin above /\ \A d \in after[s] : f[above \cup {s}][d])
    <3>1. \A d \in after[s] : f[above \cup {s}][d] <=> <<d, above \cup {s}>> \in G
        OBVIOUS
    <3> QED
        BY <1>3, <3>1
  <2> HIDE DEF f
  <2>2. ASSUME NEW above \in SUBSET Stage
        PROVE [s \in Stage |-> <<s, above>> \in G] = [s \in Stage |-> s \notin above /\ \A d \in after[s] : f[above \cup {s}][d]]
      BY <2>1
  <2> QED
      BY <2>2 DEF f
<1> QED
    BY <1>4 DEF Solves

LEMMA Cleaned ==
    ASSUME NEW t, Templates!Acyclic(t), t.after \in [Stage -> SUBSET Stage]
    PROVE  \E f : Solves(f, t.after) /\ \A s \in Stage : f[{}][s]
<1>1. PICK f :
        /\ f = (CHOOSE g : g = [above \in SUBSET Stage |->
                [s \in Stage |-> s \notin above /\ \A d \in t.after[s] : g[above \cup {s}][d]]])
        /\ \A s \in Stage : f[{}][s]
    BY DEF Templates!Acyclic
<1>2. f = CHOOSE g : Solves(g, t.after)
    BY <1>1 DEF Solves
<1>3. \E g : Solves(g, t.after)
    BY Solvable
<1> QED
    BY <1>1, <1>2, <1>3

\* Stages that each wait for one of them would never be clean.
LEMMA NoCircle ==
    ASSUME IsFiniteSet(Stage), NEW after \in [Stage -> SUBSET Stage], NEW f, Solves(f, after),
           \A s \in Stage : f[{}][s], NEW S \in SUBSET Stage, S # {}
    PROVE  \E s \in S : after[s] \cap S = {}
<1> SUFFICES ASSUME \A s \in S : after[s] \cap S # {} PROVE FALSE
    OBVIOUS
<1> DEFINE W == {above \in SUBSET Stage : \E s \in S : f[above][s]}
           Left == {Stage \ above : above \in W}
<1>1. Left \subseteq SUBSET Stage /\ Left # {}
    OBVIOUS
<1>2. IsWellFoundedOn(StrictSubsetOrdering(Stage), SUBSET Stage)
    BY FS_StrictSubsetOrderingWellFounded, FS_FiniteSubsetsOfFinite
<1>3. PICK F \in Left : \A H \in Left : ~(<<H, F>> \in StrictSubsetOrdering(Stage))
  <2> HIDE DEF Left
  <2> QED
      BY <1>1, <1>2, WFMin
<1>4. PICK above \in SUBSET Stage, s \in S : F = Stage \ above /\ f[above][s]
    BY <1>3
<1>5. s \notin above /\ \A d \in after[s] : f[above \cup {s}][d]
  <2>1. f[above] = [x \in Stage |-> x \notin above /\ \A d \in after[x] : f[above \cup {x}][d]]
      BY DEF Solves
  <2>2. f[above][s] = (s \notin above /\ \A d \in after[s] : f[above \cup {s}][d])
      BY <2>1
  <2> QED
      BY <1>4, <2>2
<1>6. PICK d \in S : d \in after[s]
    OBVIOUS
<1>7. above \cup {s} \in W
    BY <1>5, <1>6
<1>8. Stage \ (above \cup {s}) \in Left
    BY <1>7
<1>9. <<Stage \ (above \cup {s}), F>> \in StrictSubsetOrdering(Stage)
  <2> DEFINE H == Stage \ (above \cup {s})
  <2>1. H \in SUBSET Stage /\ F \in SUBSET Stage /\ H \subseteq F /\ s \in F /\ s \notin H
      BY <1>4, <1>5
  <2>2. H # F
      BY <2>1
  <2> HIDE DEF H
  <2>3. <<H, F>> \in (SUBSET Stage) \X (SUBSET Stage) /\ H \subseteq F /\ H # F
      BY <2>1, <2>2
  <2>4. <<H, F>> \in StrictSubsetOrdering(Stage)
      BY <2>3, Zenon DEF StrictSubsetOrdering
  <2> QED
      BY <2>4 DEF H
<1> QED
    BY <1>3, <1>8, <1>9

\* Of the stages that are left, one waits for none of them.
Progresses(t) == \A S \in SUBSET Stage : S # {} => \E s \in S : t.after[s] \cap S = {}

LEMMA TemplateBounds ==
    /\ MaxTime \in Nat /\ MaxRosters \in Nat
    /\ Offered \subseteq Templates!Template /\ Assignments \subseteq [Role -> Principal \cup {None}]
    /\ IsFiniteSet(Stage) /\ None \notin Principal
<1>1. Templates!IsFiniteSet(Stage) <=> IsFiniteSet(Stage)
    BY DEF Templates!IsFiniteSet, IsFiniteSet
<1> QED
    BY <1>1, TemplatesAssumption DEF Templates!TemplatesAssumption

\* What the validation lets through.
LEMMA ValidProgresses ==
    ASSUME NEW t \in Offered, Templates!Valid(t)
    PROVE  Progresses(t)
<1>1. t.after \in [Stage -> SUBSET Stage] /\ Templates!Acyclic(t)
  <2>1. t \in Templates!Template
      BY TemplateBounds
  <2> QED
      BY <2>1 DEF Templates!Template, Templates!Valid
<1> DEFINE after == t.after
<1>2. PICK f : Solves(f, after) /\ \A s \in Stage : f[{}][s]
    BY <1>1, Cleaned
<1>3. after \in [Stage -> SUBSET Stage]
    BY <1>1
<1> HIDE DEF after
<1>4. \A S \in SUBSET Stage : S # {} => \E s \in S : after[s] \cap S = {}
    BY <1>2, <1>3, NoCircle, TemplateBounds
<1> QED
    BY <1>4 DEF Progresses, after

RosterRow == [roles: [Role -> Principal \cup {None}], from: Nat]
RunRow == [of: Templates!Snapshot, key: ClientKey, done: SUBSET Stage]
MakingRow == [at: {"store"}, key: ClientKey, of: Templates!Snapshot]

TemplateTypes ==
    /\ clock \in 0..MaxTime /\ eligible \subseteq Principal
    /\ rosters \in Seq(RosterRow) /\ Len(rosters) <= MaxRosters
    /\ versions \subseteq Templates!Snapshot /\ runs \in Seq(RunRow)
    /\ making \in [Process -> MakingRow \cup {Templates!Idle}]

\* A version has one snapshot.
OneSnapshot ==
    \A old, new \in versions :
        old.template.version = new.template.version /\ old.roster = new.roster => old = new

\* What is run, or will be, has been validated, and what is run has its version.
Validated ==
    /\ \A r \in 1..Len(runs) : runs[r].of \in versions /\ Progresses(runs[r].of.template)
    /\ \A p \in Process : making[p].at = "store" => Progresses(making[p].of.template)

TemplatesInv == TemplateTypes /\ OneSnapshot /\ Validated

LEMMA TemplatesBegin == Templates!Init => TemplatesInv
<1> SUFFICES ASSUME Templates!Init PROVE TemplatesInv
    OBVIOUS
<1>1. rosters \in Seq(RosterRow) /\ Len(rosters) = 0 /\ runs \in Seq(RunRow) /\ Len(runs) = 0
    BY DEF Templates!Init
<1>2. TemplateTypes
    BY <1>1, TemplateBounds DEF Templates!Init, TemplateTypes
<1>3. OneSnapshot /\ Validated
    BY <1>1 DEF Templates!Init, Templates!Idle, OneSnapshot, Validated
<1> QED
    BY <1>2, <1>3 DEF TemplatesInv

LEMMA CreateRosterStep ==
    ASSUME TemplatesInv, NEW roles \in Assignments, NEW from \in 0..MaxTime,
           Templates!CreateRoster(roles, from)
    PROVE  TemplatesInv'
<1> DEFINE row == [roles |-> roles, from |-> from]
<1>1. /\ rosters' = Append(rosters, row) /\ Len(rosters) < MaxRosters
      /\ UNCHANGED <<clock, eligible, versions, runs, making>>
    BY DEF Templates!CreateRoster
<1>2. row \in RosterRow
    BY TemplateBounds DEF RosterRow
<1> HIDE DEF row
<1>3. rosters' \in Seq(RosterRow) /\ Len(rosters') <= MaxRosters
    BY <1>1, <1>2, TemplateBounds DEF TemplatesInv, TemplateTypes
<1>4. TemplateTypes'
    BY <1>1, <1>3 DEF TemplatesInv, TemplateTypes
<1> QED
    BY <1>1, <1>4 DEF TemplatesInv, OneSnapshot, Validated, Progresses

\* A run is planned from the roster that is in force, with a template that is valid.
LEMMA PlanStep ==
    ASSUME TemplatesInv, NEW p \in Process, NEW t \in Offered, NEW key \in ClientKey,
           Templates!Plan(p, t, key)
    PROVE  TemplatesInv'
<1>1. PICK r \in Templates!Active :
        /\ Templates!Assignable(t, r)
        /\ making' = [making EXCEPT ![p] = [at |-> "store", key |-> key,
                of |-> [template |-> t, roster |-> r,
                        owner |-> [s \in Stage |-> rosters[r].roles[t.role[s]]]]]]
    BY DEF Templates!Plan
<1> DEFINE owner == [s \in Stage |-> rosters[r].roles[t.role[s]]]
           of == [template |-> t, roster |-> r, owner |-> owner]
           row == [at |-> "store", key |-> key, of |-> of]
<1>2. r \in 1..Len(rosters) /\ r \in 1..MaxRosters
    BY TemplateBounds DEF Templates!Active, Templates!Rosters, TemplatesInv, TemplateTypes
<1>3. owner \in [Stage -> Principal]
    BY <1>1 DEF Templates!Assignable, TemplatesInv, TemplateTypes
<1>4. making' = [making EXCEPT ![p] = row]
    BY <1>1
<1> HIDE DEF owner
<1>5. of \in Templates!Snapshot /\ of.template = t
    BY <1>2, <1>3 DEF Templates!Snapshot
<1> HIDE DEF of
<1>6. row \in MakingRow /\ row.of.template = t
    BY <1>5 DEF MakingRow
<1>7. Progresses(t) /\ UNCHANGED <<clock, eligible, rosters, versions, runs>>
    BY ValidProgresses DEF Templates!Plan
<1> HIDE DEF row
<1>8. TemplateTypes'
    BY <1>4, <1>6, <1>7 DEF TemplatesInv, TemplateTypes
<1>9. Validated'
  <2>1. /\ \A q \in Process : making[q].at = "store" => Progresses(making[q].of.template)
        /\ making \in [Process -> MakingRow \cup {Templates!Idle}]
      BY DEF TemplatesInv, TemplateTypes, Validated
  <2>2. \A q \in Process : making'[q] = row \/ making'[q] = making[q]
      BY <1>4, <2>1
  <2>3. \A q \in Process : making'[q].at = "store" => Progresses(making'[q].of.template)
      BY <1>6, <1>7, <2>1, <2>2
  <2>4. \A q \in 1..Len(runs') : runs'[q].of \in versions' /\ Progresses(runs'[q].of.template)
      BY <1>7 DEF TemplatesInv, Validated
  <2> QED
      BY <2>3, <2>4 DEF Validated, Progresses
<1> QED
    BY <1>7, <1>8, <1>9 DEF TemplatesInv, OneSnapshot

\* The version and the run are stored together, or neither.
LEMMA StoreStep ==
    ASSUME TemplatesInv, NEW p \in Process, Templates!Store(p)
    PROVE  TemplatesInv'
<1> DEFINE new == making[p].of
           row == [of |-> new, key |-> making[p].key, done |-> {}]
<1>1. making[p] \in MakingRow /\ making[p].at = "store" /\ Progresses(new.template)
    BY DEF Templates!Store, TemplatesInv, TemplateTypes, Validated, Templates!Idle
<1>2. new \in Templates!Snapshot /\ row \in RunRow /\ row.of = new
    BY <1>1 DEF MakingRow, RunRow
<1>3. UNCHANGED <<clock, eligible, rosters>> /\ making' = [making EXCEPT ![p] = Templates!Idle]
    BY DEF Templates!Store
<1>4. /\ making' \in [Process -> MakingRow \cup {Templates!Idle}]
      /\ \A q \in Process : making'[q].at = "store" => making'[q] = making[q]
    BY <1>3 DEF TemplatesInv, TemplateTypes, Templates!Idle
<1>5. CASE UNCHANGED <<versions, runs>>
  <2>1. TemplateTypes' /\ OneSnapshot'
      BY <1>3, <1>4, <1>5 DEF TemplatesInv, TemplateTypes, OneSnapshot
  <2>2. Validated'
      BY <1>4, <1>5 DEF TemplatesInv, Validated, Progresses
  <2> QED
      BY <2>1, <2>2 DEF TemplatesInv
<1>6. CASE /\ Templates!Agrees(new) /\ versions' = Templates!WithVersion(new)
           /\ runs' = Append(runs, row)
  <2> HIDE DEF row
  <2>1. /\ runs \in Seq(RunRow) /\ Len(runs) \in Nat
      BY DEF TemplatesInv, TemplateTypes
  <2>2. /\ runs' \in Seq(RunRow) /\ Len(runs') = Len(runs) + 1 /\ runs'[Len(runs) + 1] = row
        /\ \A r \in 1..Len(runs) : runs'[r] = runs[r]
      BY <1>2, <1>6, <2>1
  <2>3. \A r \in 1..Len(runs') : r \in 1..Len(runs) \/ r = Len(runs) + 1
      BY <2>1, <2>2
  <2>4. versions \subseteq versions' /\ new \in versions' /\ versions' \subseteq versions \cup {new}
    <3>1. \A old \in Templates!SameVersion(new) : old = new /\ old \in versions
        BY <1>6 DEF Templates!Agrees, Templates!SameVersion
    <3> QED
        BY <1>6, <3>1 DEF Templates!WithVersion
  <2>5. OneSnapshot'
    <3>1. \A old \in versions : old.template.version = new.template.version
                                    /\ old.roster = new.roster => old = new
        BY <1>6 DEF Templates!Agrees, Templates!SameVersion
    <3> HIDE DEF new
    <3> QED
        BY <2>4, <3>1 DEF OneSnapshot, TemplatesInv
  <2>6. TemplateTypes'
      BY <1>2, <1>3, <1>4, <2>2, <2>4 DEF TemplatesInv, TemplateTypes
  <2>7. \A r \in 1..Len(runs') : runs'[r].of \in versions' /\ Progresses(runs'[r].of.template)
      BY <1>1, <1>2, <2>2, <2>3, <2>4 DEF TemplatesInv, Validated
  <2>8. \A q \in Process : making'[q].at = "store" => Progresses(making'[q].of.template)
      BY <1>4 DEF TemplatesInv, Validated
  <2> QED
      BY <2>5, <2>6, <2>7, <2>8 DEF TemplatesInv, Validated, Progresses
<1> QED
    BY <1>5, <1>6 DEF Templates!Store, Templates!WithRun

LEMMA PerformStep ==
    ASSUME TemplatesInv, NEW r \in 1..Len(runs), NEW s \in Stage, Templates!Perform(r, s)
    PROVE  TemplatesInv'
<1> DEFINE row == [runs[r] EXCEPT !.done = @ \cup {s}]
           l == Len(runs)
<1>1. runs' = [runs EXCEPT ![r] = row] /\ UNCHANGED <<clock, eligible, rosters, versions, making>>
    BY DEF Templates!Perform
<1>2. runs \in [1..l -> RunRow] /\ l \in Nat
    BY DEF TemplatesInv, TemplateTypes
<1>3. row \in RunRow /\ row.of = runs[r].of
  <2>1. runs[r] \in RunRow
      BY <1>2
  <2> QED
      BY <2>1 DEF RunRow
<1> HIDE DEF row
<1>4. runs' \in Seq(RunRow) /\ Len(runs') = l
  <2>1. r \in 1..l
      OBVIOUS
  <2> HIDE DEF l
  <2>2. runs' \in [1..l -> RunRow]
      BY <1>1, <1>2, <1>3, <2>1
  <2> QED
      BY <1>2, <2>2
<1>5. \A q \in 1..l : runs'[q].of = runs[q].of
    BY <1>1, <1>2, <1>3
<1>6. TemplateTypes' /\ OneSnapshot'
    BY <1>1, <1>4 DEF TemplatesInv, TemplateTypes, OneSnapshot
<1>7. Validated'
  <2>1. /\ \A q \in 1..l : runs[q].of \in versions /\ Progresses(runs[q].of.template)
        /\ \A q \in Process : making[q].at = "store" => Progresses(making[q].of.template)
        /\ versions' = versions /\ making' = making
      BY <1>1 DEF TemplatesInv, Validated
  <2> HIDE DEF l
  <2>2. \A q \in 1..Len(runs') : runs'[q].of \in versions' /\ Progresses(runs'[q].of.template)
      BY <1>4, <1>5, <2>1
  <2>3. \A q \in Process : making'[q].at = "store" => Progresses(making'[q].of.template)
      BY <2>1
  <2> QED
      BY <2>2, <2>3 DEF Validated, Progresses
<1> QED
    BY <1>6, <1>7 DEF TemplatesInv

\* The clock and the people change; what is stored does not.
LEMMA SurroundingsStep ==
    ASSUME TemplatesInv, clock' \in 0..MaxTime, eligible' \subseteq Principal,
           UNCHANGED <<rosters, versions, runs, making>>
    PROVE  TemplatesInv'
BY DEF TemplatesInv, TemplateTypes, OneSnapshot, Validated, Progresses

LEMMA TemplatesStep == TemplatesInv /\ [Templates!Next]_TemplatesVars => TemplatesInv'
<1> SUFFICES ASSUME TemplatesInv, [Templates!Next]_TemplatesVars PROVE TemplatesInv'
    OBVIOUS
<1>1. CASE UNCHANGED TemplatesVars
    BY <1>1, SurroundingsStep DEF TemplatesVars, TemplatesInv, TemplateTypes
<1>2. CASE Templates!Tick
    BY <1>2, SurroundingsStep, TemplateBounds DEF Templates!Tick, TemplatesInv, TemplateTypes
<1>3. ASSUME NEW x \in Principal, Templates!Change(x) PROVE TemplatesInv'
    BY <1>3, SurroundingsStep DEF Templates!Change, TemplatesInv, TemplateTypes
<1>4. CASE Templates!Next
    BY <1>2, <1>3, <1>4, CreateRosterStep, PlanStep, StoreStep, PerformStep DEF Templates!Next
<1> QED
    BY <1>1, <1>4

\* What the part says, of the invariant.
LEMMA TemplatesConclude ==
    TemplatesInv => Templates!TypeOK /\ Templates!RunsFollowTheirVersion /\ Templates!NoDeadEnd
<1> SUFFICES ASSUME TemplatesInv
             PROVE  Templates!TypeOK /\ Templates!RunsFollowTheirVersion /\ Templates!NoDeadEnd
    OBVIOUS
<1>1. \A r \in 1..Len(runs) : /\ runs[r] \in RunRow /\ runs[r].of \in versions
                              /\ Progresses(runs[r].of.template)
    BY DEF TemplatesInv, TemplateTypes, Validated
<1>2. \A r \in 1..Len(rosters) : rosters[r] \in RosterRow
    BY DEF TemplatesInv, TemplateTypes
<1>3. Templates!TypeOK
    BY <1>1, <1>2, TemplateBounds
    DEF Templates!TypeOK, TemplatesInv, TemplateTypes, RunRow, RosterRow
<1>4. Templates!RunsFollowTheirVersion
    BY <1>1 DEF Templates!RunsFollowTheirVersion, Templates!SameVersion, TemplatesInv, OneSnapshot
<1>5. ASSUME NEW r \in 1..Len(runs), runs[r].done # Stage
      PROVE  \E s \in Stage : Templates!Ready(runs[r], s)
  <2> DEFINE t == runs[r].of.template
             left == Stage \ runs[r].done
  <2>1. left # {} /\ t \in Templates!Template
    <3>1. runs[r] \in RunRow
        BY <1>1
    <3> QED
        BY <1>5, <3>1, TemplateBounds DEF RunRow, Templates!Snapshot
  <2>2. PICK s \in left : t.after[s] \cap left = {}
      BY <1>1, <2>1 DEF Progresses
  <2>3. t.after[s] \subseteq Stage
      BY <2>1 DEF Templates!Template
  <2> QED
      BY <2>2, <2>3 DEF Templates!Ready
<1> QED
    BY <1>3, <1>4, <1>5 DEF Templates!NoDeadEnd

\* A run is what the version of its definition says, whoever creates runs at the same time, and
\* a template whose validation finds no cycle leaves no run without a stage to go on with.
THEOREM RunsFollowTheirVersionHolds == SideBySide => []RunsFollowTheirVersion
<1> DEFINE PartInv == part = "templates" => TemplatesInv
<1>1. StartAll => PartInv
    BY TemplatesBegin DEF StartAll
<1>2. PartInv /\ [StepOne]_allVars => PartInv'
  <2> SUFFICES ASSUME PartInv, [StepOne]_allVars, part' = "templates" PROVE TemplatesInv'
      OBVIOUS
  <2>1. part = "templates" /\ [Templates!Next]_TemplatesVars
      BY DEF StepOne, allVars
  <2> QED
      BY <2>1, TemplatesStep
<1>3. PartInv => RunsFollowTheirVersion
    BY TemplatesConclude DEF RunsFollowTheirVersion
<1> QED
    BY <1>1, <1>2, <1>3, PTL DEF SideBySide
---------------------------------------------------------------------------
(* Imports.  What the cursor of an account has passed is recorded or in     *)
(* quarantine; what an import has fetched is that, or waits in its          *)
(* connection or on its page.  A record is written by whoever inserted it.  *)

\* An import that is under way.
PullRow == [at: {"look", "insert", "write"}, account: Books, page: Seq(Imports!Item),
            todo: SUBSET Nat, next: Nat, refused: BOOLEAN, finance: BOOLEAN]

ImportTypes ==
    /\ feed \in [Books -> Seq(Imports!Item)] /\ \A a \in Books : Len(feed[a]) \in 0..MaxFeed
    /\ records \subseteq Imports!Row /\ quarantine \subseteq Imports!Row
    /\ canonical \in Seq(Imports!Row)
    /\ cursor \in [Books -> [at: 0..MaxFeed,
                             status: {"none", "not_connected", "configured", "degraded"}]]
    /\ pull \in [Process -> PullRow \cup {Imports!Idle}]
    /\ pending \in [Process -> SUBSET Imports!Row]
    /\ \A p \in Process : pending[p] # {} => lock = p
    /\ lock \in Process \cup {Imports!NoProcess}

\* The first n versions of the account, in the feeds f, are among the rows.
Passed(f, a, n, rows) ==
    n \in 0..Len(f[a]) /\ \A i \in 1..n : Imports!RowOf(f[a][i], a) \in rows

\* The rows an import still has to look at.
Waiting(c) == {Imports!RowOf(c.page[i], c.account) : i \in c.todo}

\* An import has its versions in the rows, or before it.
Fetched(c, f, rows) ==
    c.at # "idle" =>
        /\ c \in PullRow /\ c.todo \subseteq 1..Len(c.page)
        /\ c.at \in {"insert", "write"} => c.todo # {}
        /\ Passed(f, c.account, c.next, rows \cup Waiting(c))

\* An import after its item, with the rest of the page before it.
Follows(c, d) ==
    /\ d \in PullRow /\ d.at = "look" /\ d.todo = Imports!Onward(c).todo
    /\ d.page = c.page /\ d.account = c.account /\ d.next = c.next

Tracked ==
    /\ \A a \in Books : Passed(feed, a, cursor[a].at, records \cup quarantine)
    /\ \A p \in Process : Fetched(pull[p], feed, records \cup quarantine \cup pending[p])

\* One record of an id, one row of the books for it, and one process that writes it.
BookedOnce ==
    /\ \A r, s \in records : r.id = s.id => r = s
    /\ \A i \in 1..Len(canonical) : canonical[i] \in records
    /\ \A i, j \in 1..Len(canonical) : canonical[i].id = canonical[j].id => i = j
    /\ \A p \in Process : pull[p].at = "write" =>
        /\ Imports!Current(pull[p]) \in records
        /\ \A i \in 1..Len(canonical) : canonical[i].id # Imports!Current(pull[p]).id
    /\ \A p, q \in Process : pull[p].at = "write" /\ pull[q].at = "write" /\ p # q =>
        Imports!Current(pull[p]).id # Imports!Current(pull[q]).id

ImportsInv == ImportTypes /\ Tracked /\ BookedOnce

LEMMA ImportBounds == MaxFeed \in Nat /\ PageSize \in Nat /\ Imports!NoProcess \notin Process
BY ImportsAssumption DEF Imports!ImportsAssumption

LEMMA ImportsBegin == Imports!Init => ImportsInv
<1> SUFFICES ASSUME Imports!Init PROVE ImportsInv
    OBVIOUS
<1>1. /\ canonical \in Seq(Imports!Row) /\ Len(canonical) = 0
      /\ \A a \in Books : feed[a] \in Seq(Imports!Item) /\ Len(feed[a]) = 0 /\ cursor[a].at = 0
    BY DEF Imports!Init
<1>2. ImportTypes
    BY <1>1, ImportBounds DEF Imports!Init, ImportTypes
<1>3. Tracked
    BY <1>1 DEF Imports!Init, Imports!Idle, Tracked, Passed, Fetched
<1>4. BookedOnce
    BY <1>1 DEF Imports!Init, Imports!Idle, BookedOnce
<1> QED
    BY <1>2, <1>3, <1>4 DEF ImportsInv

\* The item whose turn it is waits on the page, and nothing else leaves it.
LEMMA TurnTaken ==
    ASSUME NEW c \in PullRow, c.todo # {}, c.todo \subseteq 1..Len(c.page)
    PROVE  /\ Imports!Current(c) \in Imports!Row /\ Imports!Current(c) \in Waiting(c)
           /\ Imports!Onward(c) \in PullRow /\ Imports!Onward(c).todo \subseteq 1..Len(c.page)
           /\ Imports!Onward(c).page = c.page /\ Imports!Onward(c).account = c.account
           /\ Imports!Onward(c).next = c.next /\ Imports!Onward(c).at = "look"
           /\ Follows(c, Imports!Onward(c))
           /\ Waiting(c) \subseteq Waiting(Imports!Onward(c)) \cup {Imports!Current(c)}
<1>1. c.page \in Seq(Imports!Item) /\ c.account \in Books /\ Len(c.page) \in Nat /\ c.todo \subseteq Nat
    BY DEF PullRow
<1>2. \E a \in c.todo : \A b \in c.todo : a <= b
  <2>1. 0 \in Int /\ 1 \in Int /\ Len(c.page) \in Int
      BY <1>1
  <2> DEFINE l == Len(c.page)
  <2> HIDE DEF l
  <2>2. IsFiniteSet(1..l)
      BY <2>1, FS_Interval DEF l
  <2>3. IsFiniteSet(c.todo)
      BY <2>2, FS_Subset DEF l
  <2> QED
      BY <1>1, <2>3, HasLeast
<1>3. Imports!Turn(c) \in c.todo
    BY <1>2 DEF Imports!Turn, Imports!Min
<1>4. c.page[Imports!Turn(c)] \in Imports!Item
    BY <1>1, <1>3
<1>5. Imports!Current(c) \in Imports!Row
    BY <1>1, <1>4 DEF Imports!Current, Imports!RowOf, Imports!Row, Imports!Item
<1>6. Imports!Current(c) \in Waiting(c)
    BY <1>3 DEF Imports!Current, Waiting
<1>7. /\ Imports!Onward(c) \in PullRow /\ Imports!Onward(c).todo = c.todo \ {Imports!Turn(c)}
      /\ Imports!Onward(c).page = c.page /\ Imports!Onward(c).account = c.account
      /\ Imports!Onward(c).next = c.next /\ Imports!Onward(c).at = "look"
    BY DEF Imports!Onward, PullRow
<1>8. ASSUME NEW i \in c.todo
      PROVE  Imports!RowOf(c.page[i], c.account) \in Waiting(Imports!Onward(c)) \cup {Imports!Current(c)}
  <2>1. CASE i = Imports!Turn(c)
      BY <2>1 DEF Imports!Current
  <2>2. CASE i # Imports!Turn(c)
      BY <1>7, <2>2 DEF Waiting
  <2> QED
      BY <2>1, <2>2
<1>9. Waiting(c) \subseteq Waiting(Imports!Onward(c)) \cup {Imports!Current(c)}
    BY <1>8 DEF Waiting
<1> QED
    BY <1>5, <1>6, <1>7, <1>9 DEF Follows

\* That something was refused is noted, and nothing else.
LEMMA MarkedKeeps ==
    ASSUME NEW c \in PullRow, NEW refused
    PROVE  /\ Imports!Marked(c, refused) \in PullRow /\ Imports!Marked(c, refused).at = c.at
           /\ Imports!Marked(c, refused).todo = c.todo /\ Imports!Marked(c, refused).page = c.page
           /\ Imports!Marked(c, refused).account = c.account
           /\ Imports!Marked(c, refused).next = c.next
<1>1. (c.refused \/ refused) \in BOOLEAN
    OBVIOUS
<1> DEFINE b == c.refused \/ refused
<1>2. Imports!Marked(c, refused) = [c EXCEPT !.refused = b]
    BY DEF Imports!Marked
<1>3. b \in BOOLEAN
    BY <1>1
<1> HIDE DEF b
<1> QED
    BY <1>2, <1>3 DEF PullRow

\* What was passed stays passed while feeds get longer and rows are added.
LEMMA PassedStays ==
    ASSUME NEW f, NEW g, NEW a \in Books, NEW n, NEW old, NEW new, old \subseteq new,
           Passed(f, a, n, old), Len(f[a]) \in Nat, Len(g[a]) \in Nat, Len(f[a]) <= Len(g[a]),
           \A i \in 1..Len(f[a]) : g[a][i] = f[a][i]
    PROVE  Passed(g, a, n, new)
BY DEF Passed

\* The pages of an import are kept by a process whatever another does to the tables.
LEMMA FetchedStays ==
    ASSUME NEW f, NEW g, NEW old, NEW new, old \subseteq new, NEW c, Fetched(c, f, old),
           \A a \in Books : /\ Len(f[a]) \in Nat /\ Len(g[a]) \in Nat /\ Len(f[a]) <= Len(g[a])
                            /\ \A i \in 1..Len(f[a]) : g[a][i] = f[a][i]
    PROVE  Fetched(c, g, new)
<1> SUFFICES ASSUME c.at # "idle" PROVE Fetched(c, g, new)
    BY DEF Fetched
<1>1. c.account \in Books /\ Passed(f, c.account, c.next, old \cup Waiting(c))
    BY DEF Fetched, PullRow
<1>2. old \cup Waiting(c) \subseteq new \cup Waiting(c)
    OBVIOUS
<1>3. Passed(g, c.account, c.next, new \cup Waiting(c))
  <2> HIDE DEF Waiting
  <2> QED
      BY <1>1, <1>2, PassedStays
<1> QED
    BY <1>3 DEF Fetched

\* An item that is recorded or in quarantine need not wait.
LEMMA FetchedGoesOn ==
    ASSUME NEW f, NEW old, NEW new, old \subseteq new, NEW c, Fetched(c, f, old), c.at # "idle",
           c.todo # {}, Imports!Current(c) \in new, NEW d, Follows(c, d)
    PROVE  Fetched(d, f, new)
<1>0. /\ d \in PullRow /\ d.todo = Imports!Onward(c).todo /\ d.page = c.page /\ d.account = c.account
      /\ d.next = c.next /\ d.at = "look"
    BY DEF Follows
<1>1. /\ c \in PullRow /\ c.todo \subseteq 1..Len(c.page)
      /\ Passed(f, c.account, c.next, old \cup Waiting(c))
    BY DEF Fetched
<1>2. /\ Imports!Onward(c).todo \subseteq 1..Len(c.page)
      /\ Imports!Onward(c).page = c.page /\ Imports!Onward(c).account = c.account
      /\ Waiting(c) \subseteq Waiting(Imports!Onward(c)) \cup {Imports!Current(c)}
    BY <1>1, TurnTaken
<1>3. Waiting(Imports!Onward(c)) = Waiting(d)
    BY <1>0, <1>2 DEF Waiting
<1>4. old \cup Waiting(c) \subseteq new \cup Waiting(d)
    BY <1>2, <1>3
<1>5. Passed(f, d.account, d.next, new \cup Waiting(d))
    BY <1>0, <1>1, <1>4 DEF Passed
<1> QED
    BY <1>0, <1>2, <1>5 DEF Fetched

\* A step of one process that keeps what the others hold, and moves no cursor.
LEMMA TrackedStays ==
    ASSUME ImportsInv, UNCHANGED <<feed, cursor>>, NEW p \in Process, NEW c,
           pull' = [pull EXCEPT ![p] = c], records \subseteq records', quarantine \subseteq quarantine',
           \A q \in Process : q # p => pending'[q] = pending[q],
           Fetched(c, feed, records' \cup quarantine' \cup pending'[p])
    PROVE  Tracked'
<1>1. \A a \in Books : Len(feed[a]) \in Nat
    BY DEF ImportsInv, ImportTypes
<1>2. pull'[p] = c /\ \A q \in Process : q # p => pull'[q] = pull[q]
    BY DEF ImportsInv, ImportTypes
<1>3. ASSUME NEW a \in Books PROVE Passed(feed, a, cursor[a].at, records' \cup quarantine')
  <2>1. Passed(feed, a, cursor[a].at, records \cup quarantine)
      BY DEF ImportsInv, Tracked
  <2> QED
      BY <2>1 DEF Passed
<1>4. ASSUME NEW q \in Process
      PROVE  Fetched(pull'[q], feed, records' \cup quarantine' \cup pending'[q])
  <2>1. CASE q = p
      BY <1>2, <2>1
  <2>2. CASE q # p
    <3>1. Fetched(pull[q], feed, records \cup quarantine \cup pending[q])
        BY DEF ImportsInv, Tracked
    <3>2. records \cup quarantine \cup pending[q] \subseteq records' \cup quarantine' \cup pending'[q]
        BY <2>2
    <3>3. Fetched(pull[q], feed, records' \cup quarantine' \cup pending'[q])
        BY <1>1, <3>1, <3>2, FetchedStays
    <3> QED
        BY <1>2, <2>2, <3>3
  <2> QED
      BY <2>1, <2>2
<1>5. feed' = feed /\ cursor' = cursor
    OBVIOUS
<1> QED
    BY <1>3, <1>4, <1>5 DEF Tracked

\* A step that writes nothing down.
LEMMA BookedStays ==
    ASSUME ImportsInv, UNCHANGED <<records, canonical>>,
           \A p \in Process : pull'[p].at = "write" => pull'[p] = pull[p]
    PROVE  BookedOnce'
<1>1. \A p \in Process : pull'[p].at = "write" =>
        pull[p].at = "write" /\ Imports!Current(pull'[p]) = Imports!Current(pull[p])
    OBVIOUS
<1> HIDE DEF Imports!Current
<1> QED
    BY <1>1 DEF ImportsInv, BookedOnce

\* A commit: what the connection holds comes into quarantine.
LEMMA CommitKeeps ==
    ASSUME ImportsInv, NEW p \in Process, Imports!MayWrite(p), NEW more \in SUBSET Imports!Row,
           Imports!Commit(p, more)
    PROVE  /\ quarantine' = quarantine \cup pending[p] \cup more
           /\ quarantine' \subseteq Imports!Row /\ quarantine \subseteq quarantine'
           /\ pending' \in [Process -> SUBSET Imports!Row] /\ pending'[p] = {}
           /\ \A q \in Process : q # p => pending'[q] = pending[q]
           /\ \A q \in Process : pending'[q] # {} => lock' = q
           /\ lock' \in Process \cup {Imports!NoProcess}
<1>1. /\ quarantine' = quarantine \cup pending[p] \cup more /\ lock' = Imports!NoProcess
      /\ pending' = [pending EXCEPT ![p] = {}]
    BY DEF Imports!Commit
<1>2. /\ quarantine \subseteq Imports!Row /\ pending \in [Process -> SUBSET Imports!Row]
      /\ \A q \in Process : pending[q] # {} => lock = q
      /\ lock \in {p, Imports!NoProcess}
    BY DEF ImportsInv, ImportTypes, Imports!MayWrite
<1>3. \A q \in Process : q # p => pending[q] = {}
    BY <1>2, ImportBounds
<1> QED
    BY <1>1, <1>2, <1>3

\* A connection that takes the lock holds what it may commit.
LEMMA HoldKeeps ==
    ASSUME ImportsInv, NEW p \in Process, Imports!MayWrite(p), NEW more \in SUBSET Imports!Row,
           lock' = p, pending' = [pending EXCEPT ![p] = pending[p] \cup more]
    PROVE  /\ pending' \in [Process -> SUBSET Imports!Row] /\ pending'[p] = pending[p] \cup more
           /\ \A q \in Process : q # p => pending'[q] = pending[q]
           /\ \A q \in Process : pending'[q] # {} => lock' = q
           /\ lock' \in Process \cup {Imports!NoProcess}
<1>1. /\ pending \in [Process -> SUBSET Imports!Row]
      /\ \A q \in Process : pending[q] # {} => lock = q
      /\ lock \in {p, Imports!NoProcess}
    BY DEF ImportsInv, ImportTypes, Imports!MayWrite
<1>2. \A q \in Process : q # p => pending[q] = {}
    BY <1>1, ImportBounds
<1> QED
    BY <1>1, <1>2

\* The types of a step of one process.
LEMMA TypesStay ==
    ASSUME ImportsInv, UNCHANGED <<feed, cursor>>, NEW p \in Process, NEW c \in PullRow \cup {Imports!Idle},
           pull' = [pull EXCEPT ![p] = c], records' \subseteq Imports!Row, quarantine' \subseteq Imports!Row,
           canonical' \in Seq(Imports!Row), pending' \in [Process -> SUBSET Imports!Row],
           \A q \in Process : pending'[q] # {} => lock' = q, lock' \in Process \cup {Imports!NoProcess}
    PROVE  ImportTypes'
BY DEF ImportsInv, ImportTypes

\* The import of a process, as the invariant has it.
LEMMA Underway ==
    ASSUME ImportsInv, NEW p \in Process, pull[p].at # "idle"
    PROVE  /\ pull[p] \in PullRow /\ pull[p].todo \subseteq 1..Len(pull[p].page)
           /\ pull[p].at \in {"insert", "write"} => pull[p].todo # {}
           /\ Fetched(pull[p], feed, records \cup quarantine \cup pending[p])
BY DEF ImportsInv, ImportTypes, Tracked, Fetched, Imports!Idle

\* A process that gives up, or dies.
LEMMA StoppedStep ==
    ASSUME ImportsInv, NEW p \in Process, UNCHANGED <<feed, records, canonical, quarantine, cursor>>,
           pull' = [pull EXCEPT ![p] = Imports!Idle], pending' \in [Process -> SUBSET Imports!Row],
           \A q \in Process : q # p => pending'[q] = pending[q],
           \A q \in Process : pending'[q] # {} => lock' = q, lock' \in Process \cup {Imports!NoProcess}
    PROVE  ImportsInv'
<1>1. ImportTypes'
    BY TypesStay DEF ImportsInv, ImportTypes
<1>2. Fetched(Imports!Idle, feed, records' \cup quarantine' \cup pending'[p])
    BY DEF Fetched, Imports!Idle
<1>3. Tracked'
    BY <1>2, TrackedStays
<1>4. \A q \in Process : pull'[q].at = "write" => pull'[q] = pull[q]
    BY DEF ImportsInv, ImportTypes, Imports!Idle
<1>5. BookedOnce'
    BY <1>4, BookedStays
<1> QED
    BY <1>1, <1>3, <1>5 DEF ImportsInv

LEMMA ImportsCrashStep ==
    ASSUME ImportsInv, NEW p \in Process, Imports!Crash(p)
    PROVE  ImportsInv'
<1>1. /\ UNCHANGED <<feed, records, canonical, quarantine, cursor>>
      /\ pull' = [pull EXCEPT ![p] = Imports!Idle] /\ pending' = [pending EXCEPT ![p] = {}]
      /\ lock' = IF lock = p THEN Imports!NoProcess ELSE lock
    BY DEF Imports!Crash
<1>2. /\ pending \in [Process -> SUBSET Imports!Row] /\ lock \in Process \cup {Imports!NoProcess}
      /\ \A q \in Process : pending[q] # {} => lock = q
    BY DEF ImportsInv, ImportTypes
<1>3. /\ pending' \in [Process -> SUBSET Imports!Row] /\ lock' \in Process \cup {Imports!NoProcess}
      /\ \A q \in Process : q # p => pending'[q] = pending[q]
      /\ \A q \in Process : pending'[q] # {} => lock' = q
    BY <1>1, <1>2
<1> QED
    BY <1>1, <1>3, StoppedStep

LEMMA NewVersionStep ==
    ASSUME ImportsInv, NEW b \in Books, NEW item \in Imports!Item, Imports!Publish(b, item)
    PROVE  ImportsInv'
<1>1. /\ feed' = [feed EXCEPT ![b] = Append(feed[b], item)] /\ Len(feed[b]) < MaxFeed
      /\ UNCHANGED <<records, canonical, quarantine, cursor, pull, pending, lock>>
    BY DEF Imports!Publish
<1>2. /\ feed \in [Books -> Seq(Imports!Item)] /\ \A a \in Books : Len(feed[a]) \in 0..MaxFeed
    BY DEF ImportsInv, ImportTypes
<1>3. \A a \in Books : a # b => feed'[a] = feed[a]
    BY <1>1, <1>2
<1>4. /\ feed'[b] \in Seq(Imports!Item) /\ Len(feed'[b]) = Len(feed[b]) + 1
      /\ \A i \in 1..Len(feed[b]) : feed'[b][i] = feed[b][i]
  <2>1. feed'[b] = Append(feed[b], item) /\ feed[b] \in Seq(Imports!Item)
      BY <1>1, <1>2
  <2> QED
      BY <2>1
<1>5. \A a \in Books : /\ Len(feed[a]) \in Nat /\ Len(feed'[a]) \in Nat /\ Len(feed[a]) <= Len(feed'[a])
                       /\ \A i \in 1..Len(feed[a]) : feed'[a][i] = feed[a][i]
    BY <1>2, <1>3, <1>4
<1>6. ImportTypes'
  <2>1. Len(feed'[b]) \in 0..MaxFeed
      BY <1>1, <1>2, <1>4, ImportBounds
  <2>2. feed' \in [Books -> Seq(Imports!Item)]
      BY <1>1, <1>2, <1>3, <1>4
  <2> QED
      BY <1>1, <1>2, <1>3, <2>1, <2>2 DEF ImportsInv, ImportTypes
<1>7. Tracked'
  <2>1. ASSUME NEW a \in Books PROVE Passed(feed', a, cursor[a].at, records \cup quarantine)
    <3>1. Passed(feed, a, cursor[a].at, records \cup quarantine)
        BY DEF ImportsInv, Tracked
    <3> QED
        BY <1>5, <3>1, PassedStays
  <2>2. ASSUME NEW p \in Process
        PROVE  Fetched(pull[p], feed', records \cup quarantine \cup pending[p])
    <3>1. Fetched(pull[p], feed, records \cup quarantine \cup pending[p])
        BY DEF ImportsInv, Tracked
    <3> QED
        BY <1>5, <3>1, FetchedStays
  <2> QED
      BY <1>1, <2>1, <2>2 DEF Tracked
<1>8. BookedOnce'
    BY <1>1, BookedStays
<1> QED
    BY <1>6, <1>7, <1>8 DEF ImportsInv

LEMMA LeftoverStep ==
    ASSUME ImportsInv, NEW p \in Process, Imports!CommitLeftover(p)
    PROVE  ImportsInv'
<1>1. /\ UNCHANGED <<feed, records, canonical, cursor, pull>> /\ pull[p] = Imports!Idle
      /\ Imports!Commit(p, {}) /\ Imports!MayWrite(p)
    BY DEF Imports!CommitLeftover, Imports!MayWrite
<1>2. /\ quarantine' \subseteq Imports!Row /\ quarantine \subseteq quarantine'
      /\ pending' \in [Process -> SUBSET Imports!Row]
      /\ \A q \in Process : q # p => pending'[q] = pending[q]
      /\ \A q \in Process : pending'[q] # {} => lock' = q
      /\ lock' \in Process \cup {Imports!NoProcess}
    BY <1>1, CommitKeeps
<1>3. pull' = [pull EXCEPT ![p] = Imports!Idle]
    BY <1>1 DEF ImportsInv, ImportTypes
<1>4. ImportTypes'
    BY <1>1, <1>2, <1>3, TypesStay DEF ImportsInv, ImportTypes
<1>5. Fetched(Imports!Idle, feed, records' \cup quarantine' \cup pending'[p])
    BY DEF Fetched, Imports!Idle
<1>6. Tracked'
    BY <1>1, <1>2, <1>3, <1>5, TrackedStays
<1>7. BookedOnce'
    BY <1>1, BookedStays
<1> QED
    BY <1>4, <1>6, <1>7 DEF ImportsInv

\* The cursor of an account moves to where everything before it is accounted for.
LEMMA CursorMoves ==
    ASSUME ImportsInv, NEW p \in Process, NEW a \in Books, UNCHANGED <<feed, records, canonical>>,
           Imports!MayWrite(p), Imports!Commit(p, {}),
           NEW n \in Nat, NEW status \in {"not_connected", "configured", "degraded"},
           cursor' = [cursor EXCEPT ![a] = [at |-> n, status |-> status]],
           Passed(feed, a, n, records \cup quarantine \cup pending[p]),
           pull' = [pull EXCEPT ![p] = Imports!Idle]
    PROVE  ImportsInv'
<1>1. /\ quarantine' \subseteq Imports!Row /\ quarantine \subseteq quarantine'
      /\ pending[p] \subseteq quarantine' /\ pending' \in [Process -> SUBSET Imports!Row]
      /\ \A q \in Process : q # p => pending'[q] = pending[q]
      /\ \A q \in Process : pending'[q] # {} => lock' = q
      /\ lock' \in Process \cup {Imports!NoProcess}
    BY CommitKeeps
<1>2. \A b \in Books : Len(feed[b]) \in 0..MaxFeed
    BY DEF ImportsInv, ImportTypes
<1>3. /\ cursor'[a].at = n /\ \A b \in Books : b # a => cursor'[b] = cursor[b]
      /\ cursor' \in [Books -> [at: 0..MaxFeed,
                                status: {"none", "not_connected", "configured", "degraded"}]]
  <2>1. n \in 0..MaxFeed
      BY <1>2, ImportBounds DEF Passed
  <2> DEFINE row == [at |-> n, status |-> status]
  <2>2. row \in [at: 0..MaxFeed, status: {"none", "not_connected", "configured", "degraded"}] /\ row.at = n
      BY <2>1
  <2>3. cursor' = [cursor EXCEPT ![a] = row]
      OBVIOUS
  <2> HIDE DEF row
  <2> QED
      BY <2>2, <2>3 DEF ImportsInv, ImportTypes
<1>4. ImportTypes'
    BY <1>1, <1>3 DEF ImportsInv, ImportTypes
<1>5. ASSUME NEW b \in Books PROVE Passed(feed, b, cursor'[b].at, records \cup quarantine')
  <2>1. CASE b = a
      BY <1>1, <1>3, <2>1 DEF Passed
  <2>2. CASE b # a
    <3>1. Passed(feed, b, cursor[b].at, records \cup quarantine)
        BY DEF ImportsInv, Tracked
    <3> QED
        BY <1>1, <1>3, <2>2, <3>1 DEF Passed
  <2> QED
      BY <2>1, <2>2
<1>6. ASSUME NEW q \in Process
      PROVE  Fetched(pull'[q], feed, records \cup quarantine' \cup pending'[q])
  <2>1. CASE q = p
    <3>1. pull'[q] = Imports!Idle
        BY <2>1 DEF ImportsInv, ImportTypes
    <3> QED
        BY <3>1 DEF Fetched, Imports!Idle
  <2>2. CASE q # p
    <3>1. Fetched(pull[q], feed, records \cup quarantine \cup pending[q]) /\ pull'[q] = pull[q]
        BY <2>2 DEF ImportsInv, ImportTypes, Tracked
    <3>2. records \cup quarantine \cup pending[q] \subseteq records \cup quarantine' \cup pending'[q]
        BY <1>1, <2>2
    <3>3. Fetched(pull[q], feed, records \cup quarantine' \cup pending'[q])
        BY <1>2, <3>1, <3>2, FetchedStays
    <3> QED
        BY <3>1, <3>3
  <2> QED
      BY <2>1, <2>2
<1>7. Tracked'
    BY <1>5, <1>6 DEF Tracked
<1>8. \A q \in Process : pull'[q].at = "write" => pull'[q] = pull[q]
    BY DEF ImportsInv, ImportTypes, Imports!Idle
<1>9. BookedOnce'
    BY <1>8, BookedStays
<1> QED
    BY <1>4, <1>7, <1>9 DEF ImportsInv

LEMMA ImportEndsStep ==
    ASSUME ImportsInv, NEW p \in Process, Imports!Finish(p)
    PROVE  ImportsInv'
<1> DEFINE a == pull[p].account
           n == pull[p].next
           status == IF pull[p].refused THEN "degraded" ELSE "configured"
<1>1. /\ pull[p].at = "look" /\ pull[p].todo = {} /\ Imports!MayWrite(p) /\ Imports!Commit(p, {})
      /\ UNCHANGED <<feed, records, canonical>> /\ pull' = [pull EXCEPT ![p] = Imports!Idle]
      /\ cursor' = [cursor EXCEPT ![a] = [at |-> n, status |-> status]]
    BY DEF Imports!Finish
<1>2. /\ a \in Books /\ n \in Nat /\ status \in {"not_connected", "configured", "degraded"}
      /\ Passed(feed, a, n, records \cup quarantine \cup pending[p] \cup Waiting(pull[p]))
    BY <1>1, Underway DEF Fetched, PullRow
<1>3. Passed(feed, a, n, records \cup quarantine \cup pending[p])
    BY <1>1, <1>2 DEF Waiting, Passed
<1> HIDE DEF a, n, status
<1> QED
    BY <1>1, <1>2, <1>3, CursorMoves

LEMMA NotConnectedStep ==
    ASSUME ImportsInv, NEW p \in Process, NEW a \in Books, NEW from \in {0, cursor[a].at},
           Imports!NotConnected(p, a, from)
    PROVE  ImportsInv'
<1>1. /\ pull[p] = Imports!Idle /\ Imports!MayWrite(p) /\ Imports!Commit(p, {})
      /\ UNCHANGED <<feed, records, canonical, pull>>
      /\ cursor' = [cursor EXCEPT ![a] = [at |-> from, status |-> "not_connected"]]
    BY DEF Imports!NotConnected
<1>2. pull' = [pull EXCEPT ![p] = Imports!Idle]
    BY <1>1 DEF ImportsInv, ImportTypes
<1>3. Passed(feed, a, cursor[a].at, records \cup quarantine) /\ Len(feed[a]) \in 0..MaxFeed
    BY DEF ImportsInv, ImportTypes, Tracked
<1>4. from \in Nat /\ Passed(feed, a, from, records \cup quarantine \cup pending[p])
    BY <1>3 DEF Passed
<1>5. "not_connected" \in {"not_connected", "configured", "degraded"}
    OBVIOUS
<1> QED
    BY <1>1, <1>2, <1>4, <1>5, CursorMoves

LEMMA LookStep ==
    ASSUME ImportsInv, NEW p \in Process, Imports!Look(p)
    PROVE  ImportsInv'
<1> DEFINE c == pull[p]
           row == Imports!Current(c)
           next == Imports!Onward(c)
           kept == records \cup quarantine \cup pending[p]
<1>1. /\ c.at = "look" /\ c.todo # {} /\ UNCHANGED <<feed, records, canonical, cursor>>
    BY DEF Imports!Look
<1>2. /\ c \in PullRow /\ c.todo \subseteq 1..Len(c.page) /\ Fetched(c, feed, kept)
    BY <1>1, Underway
<1>3. /\ row \in Imports!Row /\ next \in PullRow /\ next.page = c.page /\ next.account = c.account
      /\ next.next = c.next /\ next.at = "look"
      /\ Follows(c, next)
    BY <1>1, <1>2, TurnTaken
<1>4. CASE /\ pull' = [pull EXCEPT ![p] = [c EXCEPT !.at = "insert"]]
           /\ UNCHANGED <<quarantine, pending, lock>>
  <2> DEFINE d == [c EXCEPT !.at = "insert"]
  <2>1. /\ d \in PullRow /\ d.at = "insert" /\ d.todo = c.todo /\ d.page = c.page
        /\ d.account = c.account /\ d.next = c.next
      BY <1>2 DEF PullRow
  <2> HIDE DEF d
  <2>2. Waiting(d) = Waiting(c)
      BY <2>1 DEF Waiting
  <2>3. Fetched(d, feed, kept)
      BY <1>1, <1>2, <2>1, <2>2 DEF Fetched
  <2>4. ImportTypes'
      BY <1>1, <1>4, <2>1, TypesStay DEF ImportsInv, ImportTypes, d
  <2>5. Tracked'
      BY <1>1, <1>4, <2>3, TrackedStays DEF d
  <2>6. \A q \in Process : pull'[q].at = "write" => pull'[q] = pull[q]
      BY <1>4, <2>1 DEF ImportsInv, ImportTypes, d
  <2>7. BookedOnce'
      BY <1>1, <2>6, BookedStays
  <2> QED
      BY <2>4, <2>5, <2>7 DEF ImportsInv
<1>5. CASE /\ Imports!Duplicates(row) # {} /\ pull' = [pull EXCEPT ![p] = next]
           /\ UNCHANGED <<quarantine, pending, lock>>
  <2>1. row \in kept
      BY <1>5 DEF Imports!Duplicates, Imports!SameId
  <2>2. Fetched(next, feed, kept)
      BY <1>1, <1>2, <1>3, <2>1, FetchedGoesOn
  <2> HIDE DEF next
  <2>3. ImportTypes'
      BY <1>1, <1>3, <1>5, TypesStay DEF ImportsInv, ImportTypes
  <2>4. Tracked'
      BY <1>1, <1>5, <2>2, TrackedStays
  <2>5. \A q \in Process : pull'[q].at = "write" => pull'[q] = pull[q]
      BY <1>3, <1>5 DEF ImportsInv, ImportTypes
  <2>6. BookedOnce'
      BY <1>1, <2>5, BookedStays
  <2> QED
      BY <2>3, <2>4, <2>6 DEF ImportsInv
<1>6. CASE /\ Imports!MayWrite(p) /\ Imports!Commit(p, {row})
           /\ pull' = [pull EXCEPT ![p] = Imports!Marked(next, TRUE)]
  <2> DEFINE d == Imports!Marked(next, TRUE)
  <2>1. /\ d \in PullRow /\ d.at = "look" /\ d.todo = next.todo /\ d.page = c.page
        /\ d.account = c.account /\ d.next = c.next
    <3> HIDE DEF next
    <3> QED
        BY <1>3, MarkedKeeps
  <2>2. /\ quarantine' = quarantine \cup pending[p] \cup {row}
        /\ quarantine' \subseteq Imports!Row /\ quarantine \subseteq quarantine'
        /\ pending' \in [Process -> SUBSET Imports!Row]
        /\ \A q \in Process : q # p => pending'[q] = pending[q]
        /\ \A q \in Process : pending'[q] # {} => lock' = q
        /\ lock' \in Process \cup {Imports!NoProcess}
      BY <1>3, <1>6, CommitKeeps
  <2>3. kept \subseteq records \cup quarantine' \cup pending'[p]
        /\ row \in records \cup quarantine' \cup pending'[p]
      BY <2>2
  <2> HIDE DEF d
  <2>4. Fetched(d, feed, records \cup quarantine' \cup pending'[p])
    <3>1. Follows(c, d)
        BY <2>1 DEF Follows
    <3> QED
        BY <1>1, <1>2, <2>3, <3>1, FetchedGoesOn
  <2>5. pull' = [pull EXCEPT ![p] = d]
      BY <1>6 DEF d
  <2>6. ImportTypes'
      BY <1>1, <2>1, <2>2, <2>5, TypesStay DEF ImportsInv, ImportTypes
  <2>7. Tracked'
      BY <1>1, <2>2, <2>4, <2>5, TrackedStays
  <2>8. \A q \in Process : pull'[q].at = "write" => pull'[q] = pull[q]
      BY <2>1, <2>5 DEF ImportsInv, ImportTypes
  <2>9. BookedOnce'
      BY <1>1, <2>8, BookedStays
  <2> QED
      BY <2>6, <2>7, <2>9 DEF ImportsInv
<1> QED
    BY <1>4, <1>5, <1>6 DEF Imports!Look

\* The record of an id is inserted once; who finds it taken gives up.
LEMMA InsertStep ==
    ASSUME ImportsInv, NEW p \in Process, Imports!Insert(p)
    PROVE  ImportsInv'
<1> DEFINE c == pull[p]
           row == Imports!Current(c)
           kept == records \cup quarantine \cup pending[p]
           d == [c EXCEPT !.at = "write"]
<1>1. /\ c.at = "insert" /\ Imports!MayWrite(p) /\ UNCHANGED <<feed, canonical, cursor>>
    BY DEF Imports!Insert
<1>2. /\ c \in PullRow /\ c.todo \subseteq 1..Len(c.page) /\ c.todo # {} /\ Fetched(c, feed, kept)
    BY <1>1, Underway
<1>3. row \in Imports!Row
    BY <1>2, TurnTaken
<1>4. CASE /\ pull' = [pull EXCEPT ![p] = Imports!Idle] /\ lock' = p
           /\ UNCHANGED <<records, quarantine, pending>>
  <2>1. /\ pending \in [Process -> SUBSET Imports!Row]
        /\ \A q \in Process : pending[q] # {} => lock = q
        /\ lock \in {p, Imports!NoProcess}
      BY <1>1 DEF ImportsInv, ImportTypes, Imports!MayWrite
  <2>2. \A q \in Process : pending'[q] # {} => lock' = q
      BY <1>4, <2>1, ImportBounds
  <2> QED
      BY <1>1, <1>4, <2>1, <2>2, StoppedStep
<1>5. CASE /\ Imports!Unique(row) /\ records' = records \cup {row}
           /\ pull' = [pull EXCEPT ![p] = d] /\ Imports!Commit(p, {})
  <2>1. /\ d \in PullRow /\ d.at = "write" /\ d.todo = c.todo /\ d.page = c.page
        /\ d.account = c.account /\ d.next = c.next
      BY <1>2 DEF PullRow
  <2>2. Waiting(d) = Waiting(c) /\ Imports!Current(d) = row
    <3> HIDE DEF d
    <3> QED
        BY <2>1 DEF Waiting, Imports!Current, Imports!Turn
  <2>3. /\ quarantine' = quarantine \cup pending[p]
        /\ quarantine' \subseteq Imports!Row /\ quarantine \subseteq quarantine'
        /\ pending' \in [Process -> SUBSET Imports!Row]
        /\ \A q \in Process : q # p => pending'[q] = pending[q]
        /\ \A q \in Process : pending'[q] # {} => lock' = q
        /\ lock' \in Process \cup {Imports!NoProcess}
      BY <1>1, <1>5, CommitKeeps
  <2> HIDE DEF d, row
  <2>4. Fetched(d, feed, records' \cup quarantine' \cup pending'[p])
    <3>1. kept \cup Waiting(c) \subseteq (records' \cup quarantine' \cup pending'[p]) \cup Waiting(d)
        BY <1>5, <2>2, <2>3
    <3>2. Passed(feed, c.account, c.next, kept \cup Waiting(c))
        BY <1>1, <1>2 DEF Fetched
    <3>3. Passed(feed, d.account, d.next, (records' \cup quarantine' \cup pending'[p]) \cup Waiting(d))
        BY <2>1, <3>1, <3>2 DEF Passed
    <3> QED
        BY <1>2, <2>1, <3>3 DEF Fetched
  <2>5. ImportTypes'
      BY <1>1, <1>3, <1>5, <2>1, <2>3, TypesStay DEF ImportsInv, ImportTypes
  <2>6. Tracked'
      BY <1>1, <1>5, <2>3, <2>4, TrackedStays
  <2>7. \A other \in records : other.id # row.id
      BY <1>5 DEF Imports!Unique, Imports!SameId
  <2>8. /\ Imports!Current(pull'[p]) = row
        /\ \A q \in Process : q # p => pull'[q] = pull[q]
      BY <1>5, <2>2 DEF ImportsInv, ImportTypes
  <2>9. /\ \A r, s \in records : r.id = s.id => r = s
        /\ \A i \in 1..Len(canonical) : canonical[i] \in records
        /\ \A i, j \in 1..Len(canonical) : canonical[i].id = canonical[j].id => i = j
        /\ \A q \in Process : q # p /\ pull'[q].at = "write" =>
            /\ Imports!Current(pull'[q]) \in records
            /\ \A i \in 1..Len(canonical) : canonical[i].id # Imports!Current(pull'[q]).id
        /\ \A q, o \in Process : q # p /\ o # p /\ pull'[q].at = "write" /\ pull'[o].at = "write" /\ q # o
            => Imports!Current(pull'[q]).id # Imports!Current(pull'[o]).id
    <3> HIDE DEF Imports!Current
    <3>1. \A q \in Process : q # p => Imports!Current(pull'[q]) = Imports!Current(pull[q])
        BY <2>8
    <3> QED
        BY <2>8, <3>1 DEF ImportsInv, BookedOnce
  <2>10. BookedOnce'
    <3>1. \A r, s \in records' : r.id = s.id => r = s
        BY <1>5, <2>7, <2>9
    <3>2. \A q \in Process : pull'[q].at = "write" =>
            /\ Imports!Current(pull'[q]) \in records'
            /\ \A i \in 1..Len(canonical) : canonical[i].id # Imports!Current(pull'[q]).id
        BY <1>5, <2>7, <2>8, <2>9
    <3>3. \A q, o \in Process : pull'[q].at = "write" /\ pull'[o].at = "write" /\ q # o
            => Imports!Current(pull'[q]).id # Imports!Current(pull'[o]).id
        BY <2>7, <2>8, <2>9
    <3>4. canonical' = canonical /\ records \subseteq records'
        BY <1>1, <1>5
    <3> QED
        BY <2>9, <3>1, <3>2, <3>3, <3>4 DEF BookedOnce
  <2> QED
      BY <2>5, <2>6, <2>10 DEF ImportsInv
<1> QED
    BY <1>4, <1>5 DEF Imports!Insert

LEMMA WriteStep ==
    ASSUME ImportsInv, NEW p \in Process, Imports!Write(p)
    PROVE  ImportsInv'
<1> DEFINE c == pull[p]
           row == Imports!Current(c)
           next == Imports!Onward(c)
           kept == records \cup quarantine \cup pending[p]
           d == Imports!Marked(next, Imports!Becomes(p) = "rejected")
<1>1. c.at = "write" /\ UNCHANGED <<feed, records, cursor>>
    BY DEF Imports!Write
<1>2. /\ c \in PullRow /\ c.todo \subseteq 1..Len(c.page) /\ c.todo # {} /\ Fetched(c, feed, kept)
      /\ row \in records
    BY <1>1, Underway DEF ImportsInv, BookedOnce
<1>3. /\ row \in Imports!Row /\ next \in PullRow /\ next.page = c.page /\ next.account = c.account
      /\ next.next = c.next /\ next.at = "look"
      /\ Follows(c, next)
    BY <1>2, TurnTaken
<1>4. CASE /\ Imports!MayWrite(p) /\ canonical' = Append(canonical, row)
           /\ pull' = [pull EXCEPT ![p] = next] /\ Imports!Commit(p, {})
  <2>1. /\ quarantine' = quarantine \cup pending[p]
        /\ quarantine' \subseteq Imports!Row /\ quarantine \subseteq quarantine'
        /\ pending' \in [Process -> SUBSET Imports!Row]
        /\ \A q \in Process : q # p => pending'[q] = pending[q]
        /\ \A q \in Process : pending'[q] # {} => lock' = q
        /\ lock' \in Process \cup {Imports!NoProcess}
      BY <1>4, CommitKeeps
  <2>2. kept \subseteq records \cup quarantine' \cup pending'[p]
        /\ row \in records \cup quarantine' \cup pending'[p]
      BY <1>2, <2>1
  <2>3. Fetched(next, feed, records \cup quarantine' \cup pending'[p])
      BY <1>1, <1>2, <1>3, <2>2, FetchedGoesOn
  <2> HIDE DEF next, row
  <2>4. canonical \in Seq(Imports!Row) /\ Len(canonical) \in Nat
      BY DEF ImportsInv, ImportTypes
  <2>5. /\ canonical' \in Seq(Imports!Row) /\ Len(canonical') = Len(canonical) + 1
        /\ canonical'[Len(canonical) + 1] = row
        /\ \A i \in 1..Len(canonical) : canonical'[i] = canonical[i]
        /\ \A i \in 1..Len(canonical') : i \in 1..Len(canonical) \/ i = Len(canonical) + 1
      BY <1>3, <1>4, <2>4
  <2>6. ImportTypes'
      BY <1>1, <1>3, <1>4, <2>1, <2>5, TypesStay DEF ImportsInv, ImportTypes
  <2>7. Tracked'
      BY <1>1, <1>4, <2>1, <2>3, TrackedStays
  <2>8. /\ pull'[p].at = "look" /\ \A q \in Process : q # p => pull'[q] = pull[q]
      BY <1>3, <1>4 DEF ImportsInv, ImportTypes
  <2>9. /\ \A r, s \in records : r.id = s.id => r = s
        /\ \A i \in 1..Len(canonical) : canonical[i] \in records /\ canonical[i].id # row.id
        /\ \A i, j \in 1..Len(canonical) : canonical[i].id = canonical[j].id => i = j
        /\ \A q \in Process : q # p /\ pull'[q].at = "write" =>
            /\ Imports!Current(pull'[q]) \in records
            /\ Imports!Current(pull'[q]).id # row.id
            /\ \A i \in 1..Len(canonical) : canonical[i].id # Imports!Current(pull'[q]).id
        /\ \A q, o \in Process : q # p /\ o # p /\ pull'[q].at = "write" /\ pull'[o].at = "write" /\ q # o
            => Imports!Current(pull'[q]).id # Imports!Current(pull'[o]).id
    <3> HIDE DEF Imports!Current
    <3>1. \A q \in Process : q # p => Imports!Current(pull'[q]) = Imports!Current(pull[q])
        BY <2>8
    <3> QED
        BY <1>1, <2>8, <3>1 DEF ImportsInv, BookedOnce, row
  <2>10. BookedOnce'
    <3>1. \A i \in 1..Len(canonical') : canonical'[i] \in records
        BY <1>2, <2>5, <2>9
    <3>2. \A i, j \in 1..Len(canonical') : canonical'[i].id = canonical'[j].id => i = j
        BY <2>5, <2>9
    <3>3. \A q \in Process : pull'[q].at = "write" =>
            /\ Imports!Current(pull'[q]) \in records
            /\ \A i \in 1..Len(canonical') : canonical'[i].id # Imports!Current(pull'[q]).id
        BY <2>5, <2>8, <2>9
    <3>4. records' = records
        BY <1>1
    <3> QED
        BY <2>8, <2>9, <3>1, <3>2, <3>3, <3>4 DEF BookedOnce
  <2> QED
      BY <2>6, <2>7, <2>10 DEF ImportsInv
<1>5. CASE /\ Imports!MayWrite(p) /\ pull' = [pull EXCEPT ![p] = d] /\ lock' = p
           /\ pending' = [pending EXCEPT ![p] = pending[p] \cup {row}]
           /\ UNCHANGED <<canonical, quarantine>>
  <2>1. /\ d \in PullRow /\ d.at = "look" /\ d.todo = next.todo /\ d.page = c.page
        /\ d.account = c.account /\ d.next = c.next
    <3> HIDE DEF next
    <3> QED
        BY <1>3, MarkedKeeps
  <2>2. /\ pending' \in [Process -> SUBSET Imports!Row] /\ pending'[p] = pending[p] \cup {row}
        /\ \A q \in Process : q # p => pending'[q] = pending[q]
        /\ \A q \in Process : pending'[q] # {} => lock' = q
        /\ lock' \in Process \cup {Imports!NoProcess}
    <3> DEFINE more == {row}
    <3>1. more \in SUBSET Imports!Row /\ pending' = [pending EXCEPT ![p] = pending[p] \cup more]
        BY <1>3, <1>5
    <3>2. Imports!MayWrite(p) /\ lock' = p
        BY <1>5
    <3> HIDE DEF more
    <3>3. /\ pending' \in [Process -> SUBSET Imports!Row] /\ pending'[p] = pending[p] \cup more
          /\ \A q \in Process : q # p => pending'[q] = pending[q]
          /\ \A q \in Process : pending'[q] # {} => lock' = q
          /\ lock' \in Process \cup {Imports!NoProcess}
        BY <3>1, <3>2, HoldKeeps
    <3> QED
        BY <3>3 DEF more
  <2> HIDE DEF d
  <2>3. kept \subseteq records \cup quarantine \cup pending'[p]
        /\ row \in records \cup quarantine \cup pending'[p]
      BY <1>2, <2>2
  <2>4. Fetched(d, feed, records \cup quarantine \cup pending'[p])
    <3>1. Follows(c, d)
        BY <2>1 DEF Follows
    <3> QED
        BY <1>1, <1>2, <2>3, <3>1, FetchedGoesOn
  <2>5. ImportTypes'
      BY <1>1, <1>5, <2>1, <2>2, TypesStay DEF ImportsInv, ImportTypes
  <2>6. Tracked'
      BY <1>1, <1>5, <2>2, <2>4, TrackedStays
  <2>7. \A q \in Process : pull'[q].at = "write" => pull'[q] = pull[q]
      BY <1>5, <2>1 DEF ImportsInv, ImportTypes
  <2>8. BookedOnce'
      BY <1>1, <1>5, <2>7, BookedStays
  <2> QED
      BY <2>5, <2>6, <2>8 DEF ImportsInv
<1>6. CASE /\ pull' = [pull EXCEPT ![p] = next]
           /\ UNCHANGED <<canonical, quarantine, pending, lock>>
  <2>1. row \in kept
      BY <1>2
  <2>11. Fetched(next, feed, kept)
      BY <1>1, <1>2, <1>3, <2>1, FetchedGoesOn
  <2> HIDE DEF next
  <2>2. ImportTypes'
      BY <1>1, <1>3, <1>6, TypesStay DEF ImportsInv, ImportTypes
  <2>3. Tracked'
      BY <1>1, <1>6, <2>11, TrackedStays
  <2>4. \A q \in Process : pull'[q].at = "write" => pull'[q] = pull[q]
      BY <1>3, <1>6 DEF ImportsInv, ImportTypes
  <2>5. BookedOnce'
      BY <1>1, <1>6, <2>4, BookedStays
  <2> QED
      BY <2>2, <2>3, <2>5 DEF ImportsInv
<1>7. \/ /\ Imports!MayWrite(p) /\ canonical' = Append(canonical, row)
         /\ pull' = [pull EXCEPT ![p] = next] /\ Imports!Commit(p, {})
      \/ /\ Imports!MayWrite(p) /\ pull' = [pull EXCEPT ![p] = d] /\ lock' = p
         /\ pending' = [pending EXCEPT ![p] = pending[p] \cup {row}]
         /\ UNCHANGED <<canonical, quarantine>>
      \/ /\ pull' = [pull EXCEPT ![p] = next]
         /\ UNCHANGED <<canonical, quarantine, pending, lock>>
    BY DEF Imports!Write
<1> QED
    BY <1>4, <1>5, <1>6, <1>7

\* A page is the versions of the feed from the cursor on.
LEMMA PageIs ==
    ASSUME ImportsInv, NEW a \in Books, NEW from \in 0..Len(feed[a])
    PROVE  LET fetched == Imports!Items(a, from)
           IN  /\ fetched \in Seq(Imports!Item) /\ Len(fetched) \in Nat /\ from + Len(fetched) \in 0..Len(feed[a])
               /\ \A i \in 1..Len(fetched) : fetched[i] = feed[a][from + i]
<1> DEFINE f == feed[a]
           l == Len(f)
           to == IF from + PageSize < l THEN from + PageSize ELSE l
           fetched == SubSeq(f, from + 1, to)
<1>1. f \in Seq(Imports!Item) /\ l \in Nat
    BY DEF ImportsInv, ImportTypes
<1>2. from \in Nat /\ to \in from..l /\ to \in Nat
    BY <1>1, ImportBounds
<1>3. Imports!Items(a, from) = fetched
    BY DEF Imports!Items
<1>4. \A i \in (from + 1)..to : f[i] \in Imports!Item
    BY <1>1, <1>2
<1> HIDE DEF f, l, to
<1>5. /\ fetched \in Seq(Imports!Item) /\ Len(fetched) = IF from + 1 <= to THEN to - (from + 1) + 1 ELSE 0
      /\ \A i \in 1..(to - (from + 1) + 1) : fetched[i] = f[from + 1 + i - 1]
    BY <1>2, <1>4, SubSeqProperties
<1> HIDE DEF fetched
<1>6. Len(fetched) = to - from /\ \A i \in 1..Len(fetched) : fetched[i] = f[from + i]
    BY <1>1, <1>2, <1>5
<1>7. Len(fetched) \in Nat /\ from + Len(fetched) \in 0..l
    BY <1>1, <1>2, <1>6
<1> QED
    BY <1>3, <1>5, <1>6, <1>7 DEF f, l

\* Nothing of a page is left out: an item is accepted or refused, or it says what one that is
\* accepted says.
LEMMA EachItem ==
    ASSUME NEW fetched \in Seq(Imports!Item), NEW i \in 1..Len(fetched)
    PROVE  \/ fetched[i] \in Imports!Refused(fetched)
           \/ \E k \in Imports!Accepted(fetched) : fetched[k].id = fetched[i].id /\ fetched[k].value = fetched[i].value
<1> DEFINE Same == {j \in 1..i : ~Imports!Malformed(fetched[j]) /\ fetched[j].id = fetched[i].id}
<1>1. i \in Nat /\ Len(fetched) \in Nat
    OBVIOUS
<1>2. CASE Imports!Malformed(fetched[i])
    BY <1>2 DEF Imports!Refused
<1>3. CASE ~Imports!Malformed(fetched[i])
  <2>1. IsFiniteSet(Same) /\ Same \in SUBSET Nat /\ i \in Same
    <3>1. IsFiniteSet(1..i)
        BY <1>1, FS_Interval
    <3>2. Same \subseteq 1..i /\ i \in Same
        BY <1>1, <1>3
    <3> QED
        BY <1>1, <3>1, <3>2, FS_Subset
  <2>2. PICK k \in Same : \A j \in Same : k <= j
      BY <2>1, HasLeast
  <2>3. k \in 1..i /\ k \in 1..Len(fetched) /\ ~Imports!Malformed(fetched[k]) /\ fetched[k].id = fetched[i].id
      BY <1>1, <2>2
  <2>4. Imports!First(fetched, k)
    <3>1. ASSUME NEW j \in 1..(k - 1), fetched[j].id = fetched[k].id PROVE Imports!Malformed(fetched[j])
      <4>1. j \in 1..i /\ ~(k <= j)
          BY <1>1, <2>3
      <4>2. j \notin Same
          BY <2>2, <4>1
      <4> QED
          BY <2>3, <3>1, <4>1, <4>2
    <3> QED
        BY <2>3, <3>1 DEF Imports!First
  <2>5. k \in Imports!Accepted(fetched)
      BY <2>3, <2>4 DEF Imports!Accepted
  <2>6. CASE fetched[k].value = fetched[i].value
      BY <2>3, <2>5, <2>6
  <2>7. CASE fetched[k].value # fetched[i].value
    <3>1. k \in 1..(i - 1)
        BY <1>1, <2>3, <2>7
    <3> QED
        BY <2>3, <2>4, <2>7, <3>1 DEF Imports!Refused
  <2> QED
      BY <2>6, <2>7
<1> QED
    BY <1>2, <1>3

LEMMA PullStep ==
    ASSUME ImportsInv, NEW p \in Process, NEW a \in Books, NEW from \in {0, cursor[a].at},
           NEW finance \in BOOLEAN, Imports!Pull(p, a, from, finance)
    PROVE  ImportsInv'
<1> DEFINE fetched == Imports!Items(a, from)
           refused == Imports!Refused(fetched) # {}
           more == {Imports!RowOf(item, a) : item \in Imports!Refused(fetched)}
           d == [at |-> "look", account |-> a, page |-> fetched, todo |-> Imports!Accepted(fetched),
                 next |-> from + Len(fetched), refused |-> refused, finance |-> finance]
           kept == records \cup quarantine \cup pending[p] \cup more
<1>1. /\ refused => Imports!MayWrite(p)
      /\ UNCHANGED <<feed, records, canonical, quarantine, cursor>>
      /\ pull' = [pull EXCEPT ![p] = d] /\ pending' = [pending EXCEPT ![p] = pending[p] \cup more]
      /\ lock' = IF refused THEN p ELSE lock
    BY DEF Imports!Pull
<1>2. /\ Passed(feed, a, from, records \cup quarantine) /\ from \in 0..Len(feed[a])
      /\ Len(feed[a]) \in 0..MaxFeed
  <2>1. Passed(feed, a, cursor[a].at, records \cup quarantine) /\ Len(feed[a]) \in 0..MaxFeed
      BY DEF ImportsInv, ImportTypes, Tracked
  <2> QED
      BY <2>1, ImportBounds DEF Passed
<1>3. /\ fetched \in Seq(Imports!Item) /\ Len(fetched) \in Nat /\ from + Len(fetched) \in 0..Len(feed[a])
      /\ \A i \in 1..Len(fetched) : fetched[i] = feed[a][from + i]
    BY <1>2, PageIs
<1> HIDE DEF fetched
<1>4. Imports!Accepted(fetched) \subseteq 1..Len(fetched) /\ Imports!Refused(fetched) \subseteq Imports!Item
    BY <1>3 DEF Imports!Accepted, Imports!Refused
<1>5. /\ d \in PullRow /\ d.at = "look" /\ d.todo = Imports!Accepted(fetched) /\ d.page = fetched
      /\ d.account = a /\ d.next = from + Len(fetched)
  <2>1. /\ Imports!Accepted(fetched) \in SUBSET Nat /\ from + Len(fetched) \in Nat /\ refused \in BOOLEAN
      BY <1>2, <1>3, <1>4
  <2> HIDE DEF refused
  <2> QED
      BY <1>3, <2>1 DEF PullRow
<1>6. more \in SUBSET Imports!Row
    BY <1>4 DEF Imports!RowOf, Imports!Row, Imports!Item
<1> HIDE DEF d
<1>7. Passed(feed, a, d.next, kept \cup Waiting(d))
  <2>1. ASSUME NEW i \in 1..(from + Len(fetched))
        PROVE  Imports!RowOf(feed[a][i], a) \in kept \cup Waiting(d)
    <3>1. CASE i <= from
        BY <1>2, <3>1 DEF Passed
    <3>2. CASE ~(i <= from)
      <4> DEFINE j == i - from
      <4>1. j \in 1..Len(fetched) /\ fetched[j] = feed[a][i]
        <5>1. j \in 1..Len(fetched) /\ from + j = i
            BY <1>2, <1>3, <3>2
        <5> QED
            BY <1>3, <5>1
      <4> HIDE DEF j
      <4>2. CASE fetched[j] \in Imports!Refused(fetched)
          BY <4>1, <4>2
      <4>3. CASE \E k \in Imports!Accepted(fetched) :
                    fetched[k].id = fetched[j].id /\ fetched[k].value = fetched[j].value
        <5>1. PICK k \in Imports!Accepted(fetched) :
                    fetched[k].id = fetched[j].id /\ fetched[k].value = fetched[j].value
            BY <4>3
        <5>2. Imports!RowOf(fetched[k], a) = Imports!RowOf(fetched[j], a)
            BY <5>1 DEF Imports!RowOf
        <5>3. Imports!RowOf(fetched[k], a) \in Waiting(d)
            BY <1>5 DEF Waiting
        <5> QED
            BY <4>1, <5>2, <5>3
      <4> QED
          BY <1>3, <4>1, <4>2, <4>3, EachItem
    <3> QED
        BY <3>1, <3>2
  <2> QED
      BY <1>3, <1>5, <2>1 DEF Passed
<1>8. /\ pending' \in [Process -> SUBSET Imports!Row] /\ pending'[p] = pending[p] \cup more
      /\ \A q \in Process : q # p => pending'[q] = pending[q]
      /\ \A q \in Process : pending'[q] # {} => lock' = q
      /\ lock' \in Process \cup {Imports!NoProcess}
  <2>1. CASE refused
    <3>1. Imports!MayWrite(p) /\ lock' = p
        BY <1>1, <2>1
    <3> HIDE DEF more
    <3> QED
        BY <1>1, <1>6, <3>1, HoldKeeps
  <2>2. CASE ~refused
    <3>1. more = {} /\ lock' = lock
        BY <1>1, <2>2
    <3> HIDE DEF more
    <3>2. pending' = pending
        BY <1>1, <3>1 DEF ImportsInv, ImportTypes
    <3> QED
        BY <3>1, <3>2 DEF ImportsInv, ImportTypes
  <2> QED
      BY <2>1, <2>2
<1> HIDE DEF more
<1>9. Fetched(d, feed, records \cup quarantine \cup pending'[p])
    BY <1>4, <1>5, <1>7, <1>8 DEF Fetched
<1>10. ImportTypes'
    BY <1>1, <1>5, <1>8, TypesStay DEF ImportsInv, ImportTypes
<1>11. Tracked'
    BY <1>1, <1>8, <1>9, TrackedStays
<1>12. \A q \in Process : pull'[q].at = "write" => pull'[q] = pull[q]
    BY <1>1, <1>5 DEF ImportsInv, ImportTypes
<1>13. BookedOnce'
    BY <1>1, <1>12, BookedStays
<1> QED
    BY <1>10, <1>11, <1>13 DEF ImportsInv

LEMMA ImportsStep == ImportsInv /\ [Imports!Next]_ImportsVars => ImportsInv'
<1> SUFFICES ASSUME ImportsInv, [Imports!Next]_ImportsVars PROVE ImportsInv'
    OBVIOUS
<1>1. CASE UNCHANGED ImportsVars
  <2>1. UNCHANGED <<feed, records, canonical, quarantine, cursor, pull, pending, lock>>
      BY <1>1 DEF ImportsVars
  <2>2. ImportTypes'
      BY <2>1 DEF ImportsInv, ImportTypes
  <2>3. Tracked'
      BY <2>1 DEF ImportsInv, Tracked
  <2>4. BookedOnce'
      BY <2>1, BookedStays
  <2> QED
      BY <2>2, <2>3, <2>4 DEF ImportsInv
<1>2. CASE Imports!Next
    BY <1>2, NotConnectedStep, PullStep, LookStep, InsertStep, WriteStep, ImportEndsStep,
       LeftoverStep, ImportsCrashStep, NewVersionStep DEF Imports!Next
<1> QED
    BY <1>1, <1>2

\* What the part says, of the invariant.
LEMMA ImportsConclude ==
    ImportsInv => Imports!TypeOK /\ Imports!PassedIsAccounted /\ Imports!WrittenOnce
<1> SUFFICES ASSUME ImportsInv
             PROVE  Imports!TypeOK /\ Imports!PassedIsAccounted /\ Imports!WrittenOnce
    OBVIOUS
<1>1. Imports!TypeOK
    BY DEF Imports!TypeOK, ImportsInv, ImportTypes
<1>2. Imports!PassedIsAccounted
    BY DEF Imports!PassedIsAccounted, ImportsInv, Tracked, Passed
<1>3. Imports!WrittenOnce
    BY DEF Imports!WrittenOnce, ImportsInv, BookedOnce
<1> QED
    BY <1>1, <1>2, <1>3

\* However many processes import the pages of any accounts, whatever fails or dies, what a
\* cursor has passed is recorded or in quarantine and no record is written twice.
THEOREM PassedIsAccountedHolds == SideBySide => []PassedIsAccounted
<1> DEFINE PartInv == part = "imports" => ImportsInv
<1>1. StartAll => PartInv
    BY ImportsBegin DEF StartAll
<1>2. PartInv /\ [StepOne]_allVars => PartInv'
  <2> SUFFICES ASSUME PartInv, [StepOne]_allVars, part' = "imports" PROVE ImportsInv'
      OBVIOUS
  <2>1. part = "imports" /\ [Imports!Next]_ImportsVars
      BY DEF StepOne, allVars
  <2> QED
      BY <2>1, ImportsStep
<1>3. PartInv => PassedIsAccounted
    BY ImportsConclude DEF PassedIsAccounted
<1> QED
    BY <1>1, <1>2, <1>3, PTL DEF SideBySide
==============================================================================
