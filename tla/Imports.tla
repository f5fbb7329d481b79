------------------------------- MODULE Imports -------------------------------
(***************************************************************************)
(* The read-only imports from finance, advertising, analytics and CRM      *)
(* providers: the pages the adapters of connectors/financial.py normalise, *)
(* and ProviderImportService of services/provider_imports.py, which keeps  *)
(* one row for each external id, then writes the invoice, campaign,        *)
(* snapshot, contact or opportunity it stands for.                         *)
(*                                                                         *)
(* One provider and resource, whose objects of an account come as a feed   *)
(* of versions; a page begins at the cursor of the caller.  Each account   *)
(* is mapped to a workspace of its own.  Several processes import at once, *)
(* each through its connection: an INSERT takes the write lock, which the  *)
(* connection keeps until it commits, also past an exception.              *)
(***************************************************************************)
EXTENDS Naturals, Sequences, FiniteSetsExt

CONSTANTS
    Process, Account, Id,
    Fate,           \* what becomes of each payload: "written", "rejected", "unmapped", "ignored" or "malformed"
    PageSize, MaxFeed, MaxPulls, MaxCrashes     \* bounds: versions of a feed, pulls, dead processes

VARIABLES
    feed,       \* what the provider has of each account, the oldest version first
    records,    \* provider_import_records
    canonical,  \* the rows written for them, in order
    quarantine, \* provider_import_quarantines
    cursor,     \* provider_import_cursors, by account
    pull,       \* the import each process is doing
    pending,    \* quarantine rows each connection has not committed
    lock,       \* the connection whose transaction is open, or NoProcess
    pulls, crashes

vars == <<feed, records, canonical, quarantine, cursor, pull, pending, lock, pulls, crashes>>

Payload == DOMAIN Fate
Item == [id: Id, value: Payload]
Row == [id: Id, account: Account, value: Payload]
Idle == [at |-> "idle"]
NoProcess == "none"

ImportsAssumption ==
    {PageSize, MaxFeed, MaxPulls, MaxCrashes} \subseteq Nat /\ NoProcess \notin Process

TypeOK ==
    /\ \A a \in Account : \A i \in 1..Len(feed[a]) : feed[a][i] \in Item
    /\ records \subseteq Row /\ quarantine \subseteq Row
    /\ \A i \in 1..Len(canonical) : canonical[i] \in Row
    /\ cursor \in [Account -> [at: 0..MaxFeed, status: {"none", "not_connected", "configured", "degraded"}]]
    /\ \A p \in Process : pending[p] \subseteq Row /\ (pending[p] # {} => lock = p)
    /\ lock \in Process \cup {NoProcess}

Init ==
    /\ feed = [a \in Account |-> <<>>]
    /\ records = {} /\ canonical = <<>> /\ quarantine = {}
    /\ cursor = [a \in Account |-> [at |-> 0, status |-> "none"]]
    /\ pull = [p \in Process |-> Idle]
    /\ pending = [p \in Process |-> {}]
    /\ lock = NoProcess
    /\ pulls = 0 /\ crashes = 0

---------------------------------------------------------------------------
(* The page of an adapter *)

\* The versions after the cursor, as many as a page has.
Items(a, from) ==
    SubSeq(feed[a], from + 1, IF from + PageSize < Len(feed[a]) THEN from + PageSize ELSE Len(feed[a]))

Malformed(item) == Fate[item.value] = "malformed"

\* The first well-formed item of each id on the page.
First(items, i) ==
    ~Malformed(items[i]) /\ \A j \in 1..(i - 1) : items[j].id = items[i].id => Malformed(items[j])

Accepted(items) == {i \in 1..Len(items) : First(items, i)}

\* Malformed items, and a second payload of an id on the same page.
Refused(items) ==
    {items[i] : i \in {j \in 1..Len(items) :
        \/ Malformed(items[j])
        \/ \E k \in 1..(j - 1) : First(items, k) /\ items[k].id = items[j].id /\ items[k].value # items[j].value}}

RowOf(item, a) == [id |-> item.id, account |-> a, value |-> item.value]

---------------------------------------------------------------------------
(* pull *)

MayWrite(p) == lock \in {p, NoProcess}

\* A commit of the connection: its quarantine rows become visible with `more`.
Commit(p, more) ==
    /\ quarantine' = quarantine \cup pending[p] \cup more
    /\ pending' = [pending EXCEPT ![p] = {}]
    /\ lock' = NoProcess

\* The quarantine rows of the page are inserted, not committed.  `finance` is whether the
\* person may write financial records.
Pull(p, a, from, finance) ==
    LET items == Items(a, from)
    IN  /\ pull[p] = Idle /\ pulls < MaxPulls
        /\ Refused(items) # {} => MayWrite(p)
        /\ pulls' = pulls + 1
        /\ pull' = [pull EXCEPT ![p] = [at |-> "look", account |-> a, page |-> items,
                todo |-> Accepted(items), next |-> from + Len(items),
                refused |-> Refused(items) # {}, finance |-> finance]]
        /\ pending' = [pending EXCEPT ![p] = @ \cup {RowOf(item, a) : item \in Refused(items)}]
        /\ lock' = IF Refused(items) # {} THEN p ELSE lock
        /\ UNCHANGED <<feed, records, canonical, quarantine, cursor, crashes>>

\* Without a transport only the cursor row is written, with the cursor of the caller.
NotConnected(p, a, from) ==
    /\ pull[p] = Idle /\ pulls < MaxPulls /\ MayWrite(p)
    /\ pulls' = pulls + 1
    /\ cursor' = [cursor EXCEPT ![a] = [at |-> from, status |-> "not_connected"]]
    /\ Commit(p, {})
    /\ UNCHANGED <<feed, records, canonical, pull, crashes>>

\* Items are taken in the order of their page.
Turn(c) == Min(c.todo)
Current(c) == RowOf(c.page[Turn(c)], c.account)
Onward(c) == [c EXCEPT !.at = "look", !.todo = @ \ {Turn(c)}]
Marked(c, refused) == [c EXCEPT !.refused = @ \/ refused]
SameId(row) == {other \in records : other.id = row.id}

\* Mutant: an id that is known is taken for a duplicate.
Known(row) == SameId(row)
\* _apply: another account's record, or another payload, is not a duplicate.
Duplicates(row) == {other \in SameId(row) : other = row}

\* _apply, as far as the record it finds.
Look(p) ==
    LET row == Current(pull[p])
    IN  /\ pull[p].at = "look" /\ pull[p].todo # {}
        /\ \/ /\ SameId(row) = {}
              /\ pull' = [pull EXCEPT ![p] = [@ EXCEPT !.at = "insert"]]
              /\ UNCHANGED <<quarantine, pending, lock>>
           \/ /\ Duplicates(row) # {}
              /\ pull' = [pull EXCEPT ![p] = Onward(@)]
              /\ UNCHANGED <<quarantine, pending, lock>>
           \/ /\ SameId(row) # {} /\ Duplicates(row) = {} /\ MayWrite(p)
              /\ pull' = [pull EXCEPT ![p] = Marked(Onward(@), TRUE)]
              /\ Commit(p, {row})
        /\ UNCHANGED <<feed, records, canonical, cursor, pulls, crashes>>

\* Mutant: the record found missing is taken to be missing still.
AsFound(row) == TRUE
\* UNIQUE(organization_id, provider, object_type, external_id)
Unique(row) == SameId(row) = {}

\* _apply inserts the record and commits; when another process was first the exception ends
\* the import and leaves the transaction open.
Insert(p) ==
    LET row == Current(pull[p])
    IN  /\ pull[p].at = "insert" /\ MayWrite(p)
        /\ \/ /\ Unique(row)
              /\ records' = records \cup {row}
              /\ pull' = [pull EXCEPT ![p] = [@ EXCEPT !.at = "write"]]
              /\ Commit(p, {})
           \/ /\ ~Unique(row)
              /\ pull' = [pull EXCEPT ![p] = Idle]
              /\ lock' = p
              /\ UNCHANGED <<records, quarantine, pending>>
        /\ UNCHANGED <<feed, canonical, cursor, pulls, crashes>>

Becomes(p) ==
    LET fate == Fate[Current(pull[p]).value]
    IN  IF fate = "written" /\ ~pull[p].finance THEN "rejected" ELSE fate

\* _apply_canonical: the row is written and committed, or the record is quarantined without a
\* commit.  Objects of some kinds are passed over without a word.
Write(p) ==
    /\ pull[p].at = "write"
    /\ \/ /\ Becomes(p) = "written" /\ MayWrite(p)
          /\ canonical' = Append(canonical, Current(pull[p]))
          /\ pull' = [pull EXCEPT ![p] = Onward(@)]
          /\ Commit(p, {})
       \/ /\ Becomes(p) \in {"rejected", "unmapped"} /\ MayWrite(p)
          /\ pull' = [pull EXCEPT ![p] = Marked(Onward(@), Becomes(p) = "rejected")]
          /\ pending' = [pending EXCEPT ![p] = @ \cup {Current(pull[p])}]
          /\ lock' = p
          /\ UNCHANGED <<canonical, quarantine>>
       \/ /\ Becomes(p) = "ignored"
          /\ pull' = [pull EXCEPT ![p] = Onward(@)]
          /\ UNCHANGED <<canonical, quarantine, pending, lock>>
    /\ UNCHANGED <<feed, records, cursor, pulls, crashes>>

\* The cursor of the page, whatever the row has by now.
Finish(p) ==
    /\ pull[p].at = "look" /\ pull[p].todo = {} /\ MayWrite(p)
    /\ cursor' = [cursor EXCEPT ![pull[p].account] =
            [at |-> pull[p].next, status |-> IF pull[p].refused THEN "degraded" ELSE "configured"]]
    /\ pull' = [pull EXCEPT ![p] = Idle]
    /\ Commit(p, {})
    /\ UNCHANGED <<feed, records, canonical, pulls, crashes>>

\* The next request of the process commits what an exception left open.
CommitLeftover(p) ==
    /\ pull[p] = Idle /\ lock = p
    /\ Commit(p, {})
    /\ UNCHANGED <<feed, records, canonical, cursor, pull, pulls, crashes>>

Crash(p) ==
    /\ crashes < MaxCrashes /\ (pull[p] # Idle \/ lock = p)
    /\ crashes' = crashes + 1
    /\ pull' = [pull EXCEPT ![p] = Idle]
    /\ pending' = [pending EXCEPT ![p] = {}]
    /\ lock' = IF lock = p THEN NoProcess ELSE lock
    /\ UNCHANGED <<feed, records, canonical, quarantine, cursor, pulls>>

\* The provider has a new object or a new version of one.
Publish(a, item) ==
    /\ Len(feed[a]) < MaxFeed
    /\ feed' = [feed EXCEPT ![a] = Append(@, item)]
    /\ UNCHANGED <<records, canonical, quarantine, cursor, pull, pending, lock, pulls, crashes>>

Next ==
    \/ \E p \in Process, a \in Account : \E from \in {0, cursor[a].at} :
        NotConnected(p, a, from) \/ \E finance \in BOOLEAN : Pull(p, a, from, finance)
    \/ \E p \in Process :
        Look(p) \/ Insert(p) \/ Write(p) \/ Finish(p) \/ CommitLeftover(p) \/ Crash(p)
    \/ \E a \in Account, item \in Item : Publish(a, item)

Spec == Init /\ [][Next]_vars

---------------------------------------------------------------------------
(* Properties *)

\* A row of the books stands for one import record and no record is written twice, however
\* often pages are replayed and whoever imports them at the same time.
WrittenOnce ==
    /\ \A i \in 1..Len(canonical) : canonical[i] \in records
    /\ \A i, j \in 1..Len(canonical) : canonical[i].id = canonical[j].id => i = j

\* Nothing the cursor has passed is lost without a trace: each version is recorded or in
\* quarantine.
PassedIsAccounted ==
    \A a \in Account : \A i \in 1..cursor[a].at :
        RowOf(feed[a][i], a) \in records \cup quarantine

\* Does not hold: a record kept for a payload the books can take has its row once no import is
\* under way.  After a crash between the two commits, or an import by a person without finance
\* rights, every later page finds a duplicate and the row is never written.
ImportedIsWritten ==
    (\A p \in Process : pull[p] = Idle) =>
        \A row \in records : Fate[row.value] = "written" => \E i \in 1..Len(canonical) : canonical[i] = row

\* Does not hold: the cursor of an account never goes back.  Two imports of an account finish in
\* either order, and an import without a transport stores the cursor it was given.
CursorOnlyForward == [][\A a \in Account : cursor'[a].at >= cursor[a].at]_vars
==============================================================================
