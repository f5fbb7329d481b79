------------------------------- MODULE Evidence -------------------------------
(***************************************************************************)
(* Versions of the evidence and who sees them when                         *)
(* (services/brain_ingestion.py, storage/sqlite.py).  Every content of a   *)
(* source key is a source with one document and one fact.  Its visibility  *)
(* is a list of intervals in two times: activated/retired is when this     *)
(* system showed it, effective from/until is when it held.                 *)
(*                                                                         *)
(* An ingest takes its version number and its stamp, in whole seconds,     *)
(* before it waits for the database; who shows content again or retires it *)
(* may bring the date of a provider.  The dates are only compared when the *)
(* row is written.                                                         *)
(*                                                                         *)
(* A read without a moment asks for the interval that is not retired, a    *)
(* read as of a moment for the version that was effective then and known   *)
(* then.  Search reads the sources first and its channels later; other     *)
(* connections write between.                                              *)
(***************************************************************************)
EXTENDS Integers, Sequences, FiniteSets

CONSTANTS
    Key, Content, Reader,
    Private,                    \* the contents with a list of allowed readers
    Admin,                      \* the reader that sees them
    Dates,                      \* pairs of a time in force and a time of observation
    NeedsAll,                   \* graph adapter: requires_full_workspace_access
    PresentOnly,                \* graph adapter: uses_current_time_search
    MaxTime, MaxSources, MaxIntervals      \* bounds

EvidenceAssumption ==
    /\ Admin \in Reader
    /\ {MaxTime, MaxSources, MaxIntervals} \subseteq Nat
    /\ Dates \subseteq (0..MaxTime) \X (0..MaxTime)
    /\ NeedsAll \in BOOLEAN /\ PresentOnly \in BOOLEAN

Time == 0..MaxTime
Never == MaxTime + 1        \* retired_at and effective_until are NULL
Present == -1               \* no as_of

VARIABLES
    now,
    source,     \* [key, content, from, observed, recorded, version]
    interval,   \* [source, activated, retired, from, until]
    begun,      \* the ingests that have made their source and not written it
    search      \* the read under way

vars == <<now, source, interval, begun, search>>

Source == 1..Len(source)
Idle == [at |-> "idle", reader |-> Admin, asOf |-> Present, moment |-> 0, sources |-> {},
         documents |-> {}, graph |-> "healthy", found |-> {}]

TypeOK ==
    /\ now \in Time
    /\ begun \cup {source[s] : s \in Source} \subseteq
            [key: Key, content: Content, from: Time, observed: Time, recorded: Time, version: Nat]
    /\ \A i \in 1..Len(interval) : interval[i] \in [source: Source, activated: Time,
            retired: Time \cup {Never}, from: Time, until: Time \cup {Never}]
    /\ search.at \in {"idle", "read", "graph", "answered", "told"} /\ search.sources \subseteq Source
    /\ search.graph \in {"healthy", "skipped", "restricted", "degraded"}

Init ==
    /\ now = 0 /\ source = <<>> /\ interval = <<>> /\ begun = {}
    /\ search = Idle

---------------------------------------------------------------------------
(* Intervals *)

IsOpen(i) == interval[i].retired = Never
Active(s) == \E i \in 1..Len(interval) : interval[i].source = s /\ IsOpen(i)
KeyOf(i) == source[interval[i].source].key

\* "source retirement precedes activation": the version that is shown was activated by then.
Follows(key, when) ==
    \A i \in 1..Len(interval) : IsOpen(i) /\ KeyOf(i) = key => interval[i].activated <= when

\* _activate_source_tx: the interval of another version ends, its semantic end stays open.
Activated(sources, s, when, from) ==
    LET closed == [i \in 1..Len(interval) |->
            IF IsOpen(i) /\ KeyOf(i) = sources[s].key THEN [interval[i] EXCEPT !.retired = when] ELSE interval[i]]
    IN  Append(closed, [source |-> s, activated |-> when, retired |-> Never, from |-> from, until |-> Never])

\* Mutant: only the interval that is retired ends.
ItsOwnEnd(i, s, when) ==
    IF interval[i].source = s /\ interval[i].until = Never
    THEN IF interval[i].from > when THEN interval[i].from ELSE when
    ELSE interval[i].until
\* All versions of the key end with the one that is retired.
SemanticEnd(i, s, when) ==
    IF KeyOf(i) = source[s].key /\ interval[i].until = Never
    THEN IF interval[i].from > when THEN interval[i].from ELSE when
    ELSE interval[i].until

Known(key, content) == \E s \in Source : source[s].key = key /\ source[s].content = content
\* One more than the latest version of the key
NextVersion(key, version) ==
    /\ \A s \in Source : source[s].key = key => source[s].version < version
    /\ version = 1 \/ \E s \in Source : source[s].key = key /\ source[s].version = version - 1

\* A content that is new for its key gets its number and its stamp ...
ReadToIngest(key, content, from, observed) ==
    /\ Len(source) + Cardinality(begun) < MaxSources /\ ~Known(key, content)
    /\ \E version \in 1..(Len(source) + 1) :
        /\ NextVersion(key, version)
        /\ begun' = begun \cup {[key |-> key, content |-> content, from |-> from, observed |-> observed,
                                 recorded |-> now, version |-> version]}
    /\ UNCHANGED <<now, source, interval, search>>

\* ... and is stored and shown in one transaction, unless its content is known by then
\* (idx_sources_workspace_key_hash) or a version of a later stamp is shown.
Ingest(new) ==
    /\ Len(source) < MaxSources /\ Len(interval) < MaxIntervals
    /\ ~Known(new.key, new.content) /\ Follows(new.key, new.recorded)
    /\ source' = Append(source, new)
    /\ interval' = Activated(source', Len(source'), new.recorded, new.from)
    /\ begun' = begun \ {new}
    /\ UNCHANGED <<now, search>>

\* What is refused, or whose process dies, leaves nothing.
Abandon(new) == begun' = begun \ {new} /\ UNCHANGED <<now, source, interval, search>>

\* Content that is known is shown again, on a date of this clock or of a provider that is not
\* before its own retirement; its interval starts when it was observed.
Reactivate(s, when) ==
    /\ ~Active(s) /\ Len(interval) < MaxIntervals
    /\ Follows(source[s].key, when)
    /\ \A i \in 1..Len(interval) : interval[i].source = s => interval[i].retired <= when
    /\ interval' = Activated(source, s, when, source[s].observed)
    /\ UNCHANGED <<now, source, begun, search>>

\* retire_source, or the last route of the object: dated by the provider, but not before the
\* interval was opened.
Retire(i, when) ==
    /\ IsOpen(i) /\ interval[i].activated <= when
    /\ interval' = [j \in 1..Len(interval) |->
            [interval[j] EXCEPT !.retired = IF j = i THEN when ELSE @,
                                !.until = SemanticEnd(j, interval[i].source, when)]]
    /\ UNCHANGED <<now, source, begun, search>>

\* Mutant: the version does not decide.
LaterFrom(i, j) == interval[i].from > interval[j].from
\* Of two intervals that hold, the later one, and of these the higher version, is read.
Prevails(i, j) ==
    \/ interval[i].from > interval[j].from
    \/ /\ interval[i].from = interval[j].from
       /\ source[interval[i].source].version > source[interval[j].source].version

Holds(i, t) ==
    /\ interval[i].activated <= t /\ source[interval[i].source].recorded <= t
    /\ interval[i].from <= t /\ t < interval[i].until

Current == {interval[i].source : i \in {j \in 1..Len(interval) : IsOpen(j)}}
AsOf(t) ==
    {interval[i].source : i \in {j \in 1..Len(interval) :
        Holds(j, t) /\ ~\E k \in 1..Len(interval) : KeyOf(k) = KeyOf(j) /\ Holds(k, t) /\ Prevails(k, j)}}

Readable(reader, sources) == {s \in sources : reader = Admin \/ source[s].content \notin Private}
\* allowed_sources
Allowed(reader, asOf) == Readable(reader, IF asOf = Present THEN Current ELSE AsOf(asOf))

\* Facts and relations, and documents, of a moment.
FactsAt(sources, t) == {s \in sources : source[s].recorded <= t /\ source[s].from <= t}
DocumentsAt(sources, t) == {s \in sources : source[s].recorded <= t /\ source[s].observed <= t}

---------------------------------------------------------------------------
(* Search *)

Begin(reader, asOf) ==
    /\ search.at = "idle" /\ asOf <= now
    /\ search' = [Idle EXCEPT !.at = "read", !.reader = reader, !.asOf = asOf,
                              !.moment = IF asOf = Present THEN now ELSE asOf,
                              !.sources = Allowed(reader, asOf)]
    /\ UNCHANGED <<now, source, interval, begun>>

\* search_documents and allowed_document_ids; then the graph, unless it cannot be asked.
AskGraph ==
    /\ search.at = "read"
    /\ LET documents == DocumentsAt(search.sources, search.moment)
           status == IF search.asOf # Present /\ PresentOnly THEN "skipped"
                     ELSE IF NeedsAll /\ search.sources # Allowed(Admin, search.asOf) THEN "restricted"
                     ELSE "healthy"
       IN  search' = [search EXCEPT !.at = "graph", !.documents = documents, !.graph = status,
                                    !.found = documents]
    /\ UNCHANGED <<now, source, interval, begun>>

\* Mutant: what the graph names is trusted.
Trusted(hits) == hits
\* A hit counts when its source and its document are among those read before.
Verified(hits) == hits \cap search.sources \cap search.documents

\* The adapter answers with any document, of an old generation or of other readers, or fails.
GraphAnswers(hits) ==
    /\ search.at = "graph" /\ search.graph = "healthy" /\ hits \subseteq Source
    /\ search' = [search EXCEPT !.at = "answered", !.found = @ \cup Verified(hits)]
    /\ UNCHANGED <<now, source, interval, begun>>

GraphFails ==
    /\ search.at = "graph"
    /\ search' = [search EXCEPT !.at = "answered", !.graph = IF @ = "healthy" THEN "degraded" ELSE @]
    /\ UNCHANGED <<now, source, interval, begun>>

\* The vectors of the documents read before, and the facts; fresh are those not stale by now.
Answer(fresh) ==
    /\ search.at = "answered"
    /\ search' = [search EXCEPT !.at = "told",
            !.found = @ \cup (FactsAt(search.sources, search.moment) \cap fresh)]
    /\ UNCHANGED <<now, source, interval, begun>>

Return == search.at = "told" /\ search' = Idle /\ UNCHANGED <<now, source, interval, begun>>

---------------------------------------------------------------------------
(* The other reads are one query of the sources and one of their rows. *)

Lookup(reader, asOf, kind) ==
    LET moment == IF asOf = Present THEN now ELSE asOf
        sources == IF kind = "history" /\ asOf = Present
                   THEN Readable(reader, Source) ELSE Allowed(reader, asOf)
    IN  /\ search.at = "idle" /\ asOf <= now
        /\ search' = [Idle EXCEPT !.at = "told", !.reader = reader, !.asOf = asOf, !.moment = moment, !.sources = sources,
                !.found = CASE kind = "recent" -> Allowed(reader, Present)
                            [] kind = "history" -> {s \in sources : source[s].recorded <= moment}
                            [] OTHER -> FactsAt(sources, moment)]
        /\ UNCHANGED <<now, source, interval, begun>>

Tick == now < MaxTime /\ now' = now + 1 /\ UNCHANGED <<source, interval, begun, search>>

Next ==
    \/ \E key \in Key, content \in Content, dates \in Dates :
        ReadToIngest(key, content, dates[1], dates[2])
    \/ \E new \in begun : Ingest(new) \/ Abandon(new)
    \/ \E when \in Time : \/ \E s \in Source : Reactivate(s, when)
                         \/ \E i \in 1..Len(interval) : Retire(i, when)
    \/ \E reader \in Reader, asOf \in Time \cup {Present} :
        \/ Begin(reader, asOf)
        \/ Lookup(reader, asOf, "history") \/ Lookup(reader, asOf, "entity")
    \/ \E reader \in Reader : Lookup(reader, Present, "recent")
    \/ AskGraph \/ (\E s \in Source : GraphAnswers({s})) \/ GraphFails
    \/ (\E fresh \in {{}, Source} : Answer(fresh)) \/ Return
    \/ Tick

Spec == Init /\ [][Next]_vars

---------------------------------------------------------------------------
(* Properties *)

\* Every version of the key was retired, on a date no later than t.
Withdrawn(key, t) == \A i \in 1..Len(interval) : KeyOf(i) = key => interval[i].retired <= t

(* Of a key one version is shown; as of any moment one is read, but for       *)
(* versions of one number, which two ingests took that both read before       *)
(* either wrote; and as of a moment by which all were retired, none: however  *)
(* they were ingested, replaced, retired and shown again, with whatever dates *)
(* (idx_source_lifecycle_current, the NOT EXISTS of allowed_sources, the      *)
(* semantic end of _retire_source_tx).                                        *)
OneVersionAtATime ==
    /\ \A s, r \in Current : source[s].key = source[r].key => s = r
    /\ \A t \in Time : LET read == AsOf(t) IN
        /\ \A s, r \in read :
            source[s].key = source[r].key => s = r \/ source[s].version = source[r].version
        /\ \A s \in read : ~Withdrawn(source[s].key, t)

\* The step shows a source, or retires one, on a date no later than t.
Shows(s, t) ==
    \E i \in 1..Len(interval') : i > Len(interval) /\ interval'[i].source = s /\ interval'[i].activated <= t
Retires(t) ==
    \E i \in 1..Len(interval) : interval'[i].retired # interval[i].retired /\ interval'[i].retired <= t

(* The past changes only from the date of the step on, and gains nothing but  *)
(* what the step shows, and what had been withdrawn after that moment before: *)
(* a version that was replaced does not come back when its successor is       *)
(* retired (_retire_source_tx ends all of them).                              *)
PastKept == interval' # interval => \A t \in Time :
    /\ AsOf(t)' # AsOf(t) => Retires(t) \/ \E s \in 1..Len(source') : Shows(s, t)
    /\ \A s \in AsOf(t)' \ AsOf(t) :
        Shows(s, t) \/ \E i \in 1..Len(interval) : interval[i].source = s /\ t < interval[i].until
                                                   /\ interval[i].until # Never
PastIsKept == [][PastKept]_vars

\* Does not hold: A read as of a moment that has passed finds nothing it did not find before.
\* An ingest was stamped before and is written now, or a provider dates an activation back.
PastLoses == [][\A t \in 0..(now - 1) : AsOf(t)' \subseteq AsOf(t)]_vars

\* Does not hold: The versions of a key are numbered apart.  Two ingests read the same latest one.
NumberedApart ==
    \A s, r \in Source : source[s].key = source[r].key /\ source[s].version = source[r].version => s = r

(* Whatever the graph answers, and whatever is written while a search runs,  *)
(* it returns nothing that was not visible to its reader when it began.      *)
AnswersWereVisible == search.found \subseteq search.sources

=============================================================================
