------------------------------ MODULE Projection ------------------------------
(***************************************************************************)
(* The graph projection of a workspace's documents, for a provider that    *)
(* keeps it (services/brain_projection.py, ingest_text of                  *)
(* services/brain_ingestion.py, graph_projection_generations of            *)
(* storage/sqlite.py, adapters/graphiti_upstream.py).  A rebuild projects  *)
(* a snapshot of the documents into a generation of its own and makes it   *)
(* the active one only if it still matches; an ingestion adds its document *)
(* to the active generation after its commit.  The web server and the      *)
(* workers rebuild and ingest at the same time; the provider may fail and  *)
(* processes die.                                                          *)
(*                                                                         *)
(* Documents are numbered by recorded_at, which is taken before the        *)
(* transaction that stores them.                                           *)
(***************************************************************************)
EXTENDS Naturals, Sequences, FiniteSets

CONSTANTS
    Process,        \* processes that open the database
    Documents,      \* bound: documents recorded
    MaxRebuilds,    \* bound: generations started
    MaxDeletes,     \* bound: documents erased by a retention policy
    MaxCrashes      \* bound: processes that die

ProjectionAssumption == {Documents, MaxRebuilds, MaxDeletes, MaxCrashes} \subseteq Nat

VARIABLES
    recorded,       \* documents whose recorded_at is taken
    documents,      \* committed documents
    generations,    \* graph_projection_generations in the order of their ordinals
    episodes,       \* episodes[g]: documents the provider holds in generation g
    at, doc,        \* processes: step, document in hand
    snapshot, gen,  \* processes: documents read for a rebuild (and the erasures before), generation in hand
    health,         \* processes: graph_health
    failed,         \* documents of which an upsert failed or was never tried
    deletes, crashes

rows == <<recorded, documents, generations>>
bounds == <<deletes, crashes>>
process == <<at, doc, snapshot, gen, health>>
vars == <<rows, episodes, process, failed, bounds>>

Generation == [status: {"building", "active", "retired", "failed"}, prior: Nat,
               watermark: Nat \X Nat, erased: Nat]

NoSnapshot == [ds |-> {}, erased |-> 0]

TypeOK ==
    /\ recorded \in 0..Documents /\ documents \subseteq 1..recorded
    /\ generations \in Seq(Generation)
    /\ episodes \in [1..MaxRebuilds -> SUBSET (1..Documents)]
    /\ at \in [Process -> {"idle", "ingesting", "committed", "upserting", "read", "projecting",
                           "projected", "down", "starting"}]
    /\ health \in [Process -> {"healthy", "degraded"}]
    /\ failed \subseteq 1..Documents

Init ==
    /\ recorded = 0 /\ documents = {} /\ generations = <<>>
    /\ episodes = [g \in 1..MaxRebuilds |-> {}]
    /\ at = [p \in Process |-> "idle"] /\ doc = [p \in Process |-> 0]
    /\ snapshot = [p \in Process |-> NoSnapshot] /\ gen = [p \in Process |-> 0]
    /\ health = [p \in Process |-> "healthy"]
    /\ failed = {} /\ deletes = 0 /\ crashes = 0

---------------------------------------------------------------------------

Goto(p, step) == at' = [at EXCEPT ![p] = step]
Report(p, status) == health' = [health EXCEPT ![p] = status]

\* graph_generation_state: the active generation, or 0.
Active ==
    IF \E g \in DOMAIN generations : generations[g].status = "active"
    THEN CHOOSE g \in DOMAIN generations : generations[g].status = "active"
    ELSE 0

Latest(ds) == IF ds = {} THEN 0 ELSE CHOOSE d \in ds : \A e \in ds : e <= d

\* Mutant: the watermark is the latest document.
LatestOnly(ds) == <<0, Latest(ds)>>
\* graph_snapshot_watermark: how many documents there are, and the latest.
Watermark(ds) == <<Cardinality(ds), Latest(ds)>>

---------------------------------------------------------------------------
(* Ingestion *)

\* ingest_text: the document is recorded now, and stored in a transaction.
Begin(p) ==
    /\ at[p] = "idle" /\ recorded < Documents
    /\ recorded' = recorded + 1
    /\ doc' = [doc EXCEPT ![p] = recorded + 1]
    /\ Goto(p, "ingesting")
    /\ UNCHANGED <<documents, generations, episodes, snapshot, gen, health, failed, bounds>>

\* _persist_ingestion: source, document, facts and relations, and the interval that
\* makes them current.
Commit(p) ==
    /\ at[p] = "ingesting"
    /\ documents' = documents \cup {doc[p]}
    /\ Goto(p, "committed")
    /\ UNCHANGED <<recorded, generations, episodes, doc, snapshot, gen, health, failed, bounds>>

\* _upsert_graph_document: the active generation is read; without one nothing is
\* projected until a rebuild.
ReadActive(p) ==
    /\ at[p] = "committed"
    /\ gen' = [gen EXCEPT ![p] = Active]
    /\ IF Active = 0
       THEN Goto(p, "idle") /\ doc' = [doc EXCEPT ![p] = 0]
       ELSE Goto(p, "upserting") /\ UNCHANGED doc
    /\ UNCHANGED <<rows, episodes, snapshot, health, failed, bounds>>

\* upsert_episode: an episode and its mapping, or a failure that is reported as degraded.
Upsert(p) ==
    /\ at[p] = "upserting"
    /\ \/ /\ episodes' = [episodes EXCEPT ![gen[p]] = @ \cup {doc[p]}]
          /\ Report(p, "healthy") /\ UNCHANGED failed
       \/ /\ Report(p, "degraded") /\ failed' = failed \cup {doc[p]}
          /\ UNCHANGED episodes
    /\ Goto(p, "idle") /\ doc' = [doc EXCEPT ![p] = 0] /\ gen' = [gen EXCEPT ![p] = 0]
    /\ UNCHANGED <<rows, snapshot, bounds>>

---------------------------------------------------------------------------
(* Rebuild *)

\* rebuild_projections: the documents are read.
ReadDocuments(p) ==
    /\ at[p] \in {"idle", "starting"} /\ Len(generations) < MaxRebuilds
    /\ snapshot' = [snapshot EXCEPT ![p] = [ds |-> documents, erased |-> deletes]]
    /\ Goto(p, "read")
    /\ UNCHANGED <<rows, episodes, doc, gen, health, failed, bounds>>

\* start_graph_generation: the generation is to follow the one that is active.
StartGeneration(p) ==
    /\ at[p] = "read" /\ Len(generations) < MaxRebuilds
    /\ generations' = Append(generations,
            [status |-> "building", prior |-> Active, watermark |-> Watermark(snapshot[p].ds),
             erased |-> snapshot[p].erased])
    /\ gen' = [gen EXCEPT ![p] = Len(generations) + 1]
    /\ Goto(p, "projecting")
    /\ UNCHANGED <<recorded, documents, episodes, doc, snapshot, health, failed, bounds>>

\* rebuild_workspace: one episode for every document of the snapshot.
Project(p) ==
    /\ at[p] = "projecting"
    /\ episodes' = [episodes EXCEPT ![gen[p]] = @ \cup snapshot[p].ds]
    /\ Goto(p, "projected")
    /\ UNCHANGED <<rows, doc, snapshot, gen, health, failed, bounds>>

\* Mutant: the generation that was active when the rebuild began does not matter.
AnyPrior(g) == TRUE
\* No other generation became active since this one was started.
PriorUnchanged(g) == Active = 0 \/ generations[g].prior = Active

\* activate_graph_generation accepts it.
Current(g) ==
    /\ generations[g].status = "building"
    /\ PriorUnchanged(g)
    /\ generations[g].watermark = Watermark(documents)

Done(p) ==
    /\ Goto(p, "idle")
    /\ gen' = [gen EXCEPT ![p] = 0] /\ snapshot' = [snapshot EXCEPT ![p] = NoSnapshot]

\* activate_graph_generation: the active generation is retired, in one transaction.
Activate(p) ==
    /\ at[p] = "projected" /\ Current(gen[p])
    /\ generations' = [g \in DOMAIN generations |->
            IF g = gen[p] THEN [generations[g] EXCEPT !.status = "active"]
            ELSE IF g = Active THEN [generations[g] EXCEPT !.status = "retired"]
            ELSE generations[g]]
    /\ Report(p, "healthy") /\ Done(p)
    /\ UNCHANGED <<recorded, documents, episodes, doc, failed, bounds>>

\* generation_is_complete: the mappings of the generation are those of the documents.
Complete(g, ds) == g # 0 /\ episodes[g] = ds

\* It is refused: the generation fails as stale, and the active one is kept if the
\* snapshot is complete in it.
Refuse(p) ==
    /\ at[p] = "projected" /\ ~Current(gen[p])
    /\ generations' = [generations EXCEPT ![gen[p]].status = "failed"]
    /\ Report(p, IF Complete(Active, snapshot[p].ds) THEN "healthy" ELSE "degraded") /\ Done(p)
    /\ UNCHANGED <<recorded, documents, episodes, doc, failed, bounds>>

\* The provider fails: the generation does.
FailGeneration(p) ==
    /\ at[p] = "projecting"
    /\ \E ds \in SUBSET snapshot[p].ds : episodes' = [episodes EXCEPT ![gen[p]] = @ \cup ds]
    /\ generations' = [generations EXCEPT ![gen[p]].status = "failed"]
    /\ Report(p, "degraded") /\ Done(p)
    /\ UNCHANGED <<recorded, documents, doc, failed, bounds>>

---------------------------------------------------------------------------
(* Deletion, crash and restart *)

\* A retention policy erases a document; its episodes stay until a rebuild.
Erase(d) ==
    /\ d \in documents /\ deletes < MaxDeletes /\ deletes' = deletes + 1
    /\ documents' = documents \ {d}
    /\ UNCHANGED <<recorded, generations, episodes, process, failed, crashes>>

\* A process dies; a document it had committed is not projected.
Crash(p) ==
    /\ at[p] # "down" /\ crashes < MaxCrashes /\ crashes' = crashes + 1
    /\ failed' = IF at[p] \in {"committed", "upserting"} THEN failed \cup {doc[p]} ELSE failed
    /\ at' = [at EXCEPT ![p] = "down"] /\ doc' = [doc EXCEPT ![p] = 0]
    /\ gen' = [gen EXCEPT ![p] = 0] /\ snapshot' = [snapshot EXCEPT ![p] = NoSnapshot]
    /\ health' = [health EXCEPT ![p] = "healthy"]
    /\ UNCHANGED <<rows, episodes, deletes>>

\* _restore_durable_graph_generations: an active generation that is complete is
\* served, otherwise the projection is rebuilt.
Restart(p) ==
    /\ at[p] = "down"
    /\ Goto(p, IF Complete(Active, documents) THEN "idle" ELSE "starting")
    /\ UNCHANGED <<rows, episodes, doc, snapshot, gen, health, failed, bounds>>

Next ==
    \/ \E p \in Process :
        \/ Begin(p) \/ Commit(p) \/ ReadActive(p) \/ Upsert(p)
        \/ ReadDocuments(p) \/ StartGeneration(p) \/ Project(p)
        \/ Activate(p) \/ Refuse(p) \/ FailGeneration(p) \/ Crash(p) \/ Restart(p)
    \/ \E d \in 1..Documents : Erase(d)

Spec == Init /\ [][Next]_vars

---------------------------------------------------------------------------
(* Properties *)

Projecting == {doc[p] : p \in {q \in Process : at[q] \in {"committed", "upserting"}}}
Missing == IF Active = 0 THEN {} ELSE documents \ (episodes[Active] \cup Projecting \cup failed)

(* A committed document is in the active generation, or on its way there, or *)
(* its own upsert failed: a rebuild that reads before and activates after a  *)
(* commit does not lose it, whoever activates in between.  Only a document   *)
(* that was erased meanwhile can hide one from the watermark, one for one    *)
(* (rebuild_projections, activate_graph_generation, _upsert_graph_document). *)
NothingLostBySwitch ==
    Cardinality(Missing) <= (IF Active = 0 THEN 0 ELSE deletes - generations[Active].erased)

(* The active generation is only ever replaced by one that was started after *)
(* it became active, or is the first (expected_prior_generation).            *)
OnlySuccessors ==
    [][Active' # Active /\ Active # 0 => Active' > Active]_generations

=============================================================================
