---------------------------- MODULE ProviderRoutes ----------------------------
(***************************************************************************)
(* What the streams of a Google Drive integration make of the folders they *)
(* follow (ProviderSyncRepository of storage/sqlite.py, sync of            *)
(* services/integration_ops_sync.py, connectors/google_drive.py).  Each    *)
(* stream owns one root folder.  It lists the root page by page in a       *)
(* generation, parks its cursor at the checkpoint taken before the first   *)
(* page, and then follows the changes since that checkpoint.  Every event  *)
(* of a page activates or retires the route of a file in the stream's      *)
(* root; evidence of a file is visible while some route refers to it.      *)
(*                                                                         *)
(* The streams belong to one workspace, so they share the evidence of a    *)
(* file that is in several roots.  Edits number the contents of a file and *)
(* stand for its md5 and its modification time.  Reservation, leases and   *)
(* replayed pages are those of ConnectorSync; nested folders and their     *)
(* ancestry are left out.                                                  *)
(***************************************************************************)
EXTENDS Naturals, FiniteSets

CONSTANTS
    Stream,         \* streams, each with a root folder of its own
    File,           \* provider objects
    Pages,          \* pages of a listing
    PageOf,         \* PageOf[f]: the page that lists f
    MaxEdits,       \* bound: contents of a file
    MaxMoves,       \* bound: moves, losses and returns of files
    MaxExpiries     \* bound: cursors that expire

ProviderRoutesAssumption ==
    /\ Pages \in Nat \ {0} /\ PageOf \in [File -> 1..Pages]
    /\ MaxEdits \in Nat \ {0} /\ {MaxMoves, MaxExpiries} \subseteq Nat

VARIABLES
    place, content,     \* provider: the roots that hold a file, its last edit
    lost,               \* provider: files the account can no longer see
    since,              \* since[s]: files changed since the checkpoint of s
    tracking,           \* streams whose cursor follows the changes
    running, tasks,     \* streams with a running generation; its pages to be listed
    listed, seen,       \* files its pages listed, files it marked as seen
    page, todo,         \* the page in hand: "none", "list", "changes"; its new events
    keys,               \* keys[s]: dedupe keys known to the inbox
    staged,             \* staged[s]: dedupe keys with a staged mutation
    log,                \* log[s]: route transitions by version and operation
    routes,             \* routes[s][f]: content an active route refers to, or 0
    visible, opened,    \* content with an open interval, or 0; the last edit when it opened
    wedged,             \* streams with a batch that can never be completed
    deaf,               \* <<s, f>>: a transition of f that s took for a repetition
    regressed,              \* files whose last content was replaced by an earlier one
    moves, expiries

provider == <<place, content, lost>>
cursors == <<since, tracking>>
generation == <<running, tasks, listed, seen>>
batch == <<page, todo, keys, staged>>
evidence == <<log, routes, visible, opened>>
history == <<deaf, regressed>>
vars == <<provider, cursors, generation, batch, evidence, wedged, history, moves, expiries>>

TypeOK ==
    /\ place \in [File -> SUBSET Stream] /\ content \in [File -> 1..MaxEdits]
    /\ lost \subseteq File /\ since \in [Stream -> SUBSET File]
    /\ {tracking, running, wedged} \subseteq SUBSET Stream
    /\ tasks \in [Stream -> SUBSET (1..Pages)]
    /\ listed \in [Stream -> SUBSET File] /\ seen \in [Stream -> SUBSET File]
    /\ page \in [Stream -> {"none", "list", "changes"}]
    /\ routes \in [Stream -> [File -> 0..MaxEdits]]
    /\ visible \in [File -> 0..MaxEdits] /\ opened \in [File -> 0..MaxEdits]
    /\ deaf \subseteq Stream \X File /\ regressed \subseteq File
    /\ moves \in 0..MaxMoves /\ expiries \in 0..MaxExpiries

Init ==
    /\ place \in [File -> SUBSET Stream]
    /\ content = [f \in File |-> 1] /\ lost = {}
    /\ since = [s \in Stream |-> {}] /\ tracking = {}
    /\ running = {} /\ tasks = [s \in Stream |-> {}]
    /\ listed = [s \in Stream |-> {}] /\ seen = [s \in Stream |-> {}]
    /\ page = [s \in Stream |-> "none"] /\ todo = [s \in Stream |-> {}]
    /\ keys = [s \in Stream |-> {}] /\ staged = [s \in Stream |-> {}]
    /\ log = [s \in Stream |-> {}]
    /\ routes = [s \in Stream |-> [f \in File |-> 0]]
    /\ visible = [f \in File |-> 0] /\ opened = [f \in File |-> 0]
    /\ wedged = {} /\ deaf = {} /\ regressed = {} /\ moves = 0 /\ expiries = 0

---------------------------------------------------------------------------
(* The provider.  A change of a file is in the feed of every stream.       *)

Changed(f) == since' = [s \in Stream |-> since[s] \cup {f}]

Edit(f) ==
    /\ f \notin lost /\ content[f] < MaxEdits
    /\ content' = [content EXCEPT ![f] = @ + 1]
    /\ Changed(f)
    /\ UNCHANGED <<place, lost, tracking, generation, batch, evidence, wedged, history, moves, expiries>>

\* A file is moved to other folders; its content and modification time stay.
Move(f) ==
    /\ f \notin lost /\ moves < MaxMoves /\ moves' = moves + 1
    /\ \E roots \in SUBSET Stream \ {place[f]} : place' = [place EXCEPT ![f] = roots]
    /\ Changed(f)
    /\ UNCHANGED <<content, lost, tracking, generation, batch, evidence, wedged, history, expiries>>

\* A file is deleted, or withdrawn from the account; it may be shared again.
LoseOrReturn(f) ==
    /\ moves < MaxMoves /\ moves' = moves + 1
    /\ lost' = IF f \in lost THEN lost \ {f} ELSE lost \cup {f}
    /\ Changed(f)
    /\ UNCHANGED <<place, content, tracking, generation, batch, evidence, wedged, history, expiries>>

Roots(f) == IF f \in lost THEN {} ELSE place[f]

---------------------------------------------------------------------------
(* A page and its events *)

\* The adapter is given the active routes of every stream of the integration.
RouteState(f) == {s \in Stream : routes[s][f] # 0}

FileEvent(f, type, version, ops) ==
    [file |-> f, content |-> content[f], type |-> type, version |-> version, ops |-> ops]

\* _pull_backfill: a file of the root is discovered.
Found(f) == FileEvent(f, "file_discovered", <<"modified", content[f]>>, {"activate"})

\* _event_from_change: what changed, by the roots before and now.  The mutations of
\* a stream are those of its own root.
ChangeOf(s, f) ==
    LET before == RouteState(f)
        now == Roots(f)
        type == IF f \in lost THEN "file_removed"
                ELSE IF now = {} THEN "file_moved_out"
                ELSE IF now # before THEN "file_moved" ELSE "file_changed"
        ops == (IF s \in now THEN {"activate"} ELSE {}) \cup
               (IF s \in before \ now THEN {"retire"} ELSE {})
    IN  FileEvent(f, type, <<"md5", content[f]>>, ops)
ChangesOf(s) ==
    {ChangeOf(s, f) : f \in {g \in since[s] : s \in RouteState(g) \cup Roots(g)}}

\* A removal and a move out carry the identity of the change, any other event does not.
HasKey(e) == e.type \notin {"file_removed", "file_moved_out"}
EventKey(e) == <<e.file, e.content, e.type>>

\* The events of the page that the inbox has not stored before.
NewEvents(s, events) == {e \in events : HasKey(e) => EventKey(e) \notin keys[s]}

\* record_pull: new events are to be processed.  A repeated one is linked to the
\* batch; if it comes with another mutation, that one is staged and never applied.
Record(s, events) ==
    LET new == NewEvents(s, events)
        repeated == events \ new
        mutations == {<<EventKey(e), op>> : e \in events, op \in {"activate", "retire"}}
        real == {m \in mutations : \E e \in events : m[1] = EventKey(e) /\ m[2] \in e.ops}
    IN  /\ todo' = [todo EXCEPT ![s] = new]
        /\ keys' = [keys EXCEPT ![s] = @ \cup {EventKey(e) : e \in {x \in new : HasKey(x)}}]
        /\ staged' = [staged EXCEPT ![s] =
                @ \cup {m \in real : \E e \in events : HasKey(e) /\ m[1] = EventKey(e)}]
        /\ wedged' = IF \E e \in repeated : \E op \in e.ops : <<EventKey(e), op>> \notin staged[s]
                     THEN wedged \cup {s} ELSE wedged
        /\ deaf' = deaf \cup {<<s, e.file>> : e \in repeated}

InRoot(s, p) == {f \in File : s \in Roots(f) /\ PageOf[f] = p}

Ready(s) == page[s] = "none" /\ s \notin wedged

\* _persist_google_page_state: the pages that are left become tasks.
Enqueued(s) == [tasks EXCEPT ![s] = 2..Pages]

\* cancel_provider_rebootstrap
Cancelled(s) == running' = running \ {s} /\ tasks' = [tasks EXCEPT ![s] = {}]

\* The first page: the checkpoint is taken, the page is listed and the generation
\* starts in the transaction that records it; the next page becomes a task.
Start(s) ==
    /\ Ready(s) /\ s \notin tracking /\ s \notin running
    /\ since' = [since EXCEPT ![s] = {}]
    /\ running' = running \cup {s}
    /\ tasks' = Enqueued(s)
    /\ listed' = [listed EXCEPT ![s] = InRoot(s, 1)] /\ seen' = [seen EXCEPT ![s] = {}]
    /\ Record(s, {Found(f) : f \in InRoot(s, 1)})
    /\ page' = [page EXCEPT ![s] = "list"]
    /\ UNCHANGED <<provider, tracking, evidence, regressed, moves, expiries>>

\* A task of the generation is claimed and its page is listed.
ListPage(s) ==
    /\ Ready(s) /\ s \in running
    /\ \E p \in tasks[s] :
        /\ tasks' = [tasks EXCEPT ![s] = @ \ {p}]
        /\ listed' = [listed EXCEPT ![s] = @ \cup InRoot(s, p)]
        /\ Record(s, {Found(f) : f \in InRoot(s, p)})
    /\ page' = [page EXCEPT ![s] = "list"]
    /\ UNCHANGED <<provider, cursors, running, seen, evidence, regressed, moves, expiries>>

\* The changes since the cursor; the batch carries the next one.
PullChanges(s) ==
    /\ Ready(s) /\ s \in tracking /\ since[s] # {}
    /\ since' = [since EXCEPT ![s] = {}]
    /\ Record(s, ChangesOf(s))
    /\ page' = [page EXCEPT ![s] = "changes"]
    /\ UNCHANGED <<provider, tracking, generation, evidence, regressed, moves, expiries>>

\* The provider answers 410: what is left of a generation is cancelled, and the
\* stream starts over without a cursor.
Expire(s) ==
    /\ Ready(s) /\ s \in tracking
    /\ expiries < MaxExpiries /\ expiries' = expiries + 1
    /\ tracking' = tracking \ {s}
    /\ Cancelled(s)
    /\ UNCHANGED <<provider, since, listed, seen, batch, evidence, wedged, history, moves>>

---------------------------------------------------------------------------
(* The transaction of an event *)

\* A transition of the same version was recorded before: nothing happens.
Repeated(s, f, version, op) == <<f, version, op>> \in log[s]

\* Mutant: evidence is hidden when one of its routes is retired.
RoutedByNone(s, f, n) == FALSE
\* An active route still refers to content n of the file.
StillRouted(s, f, n) == \E t \in Stream \ {s} : routes[t][f] = n

\* _retire_source_tx: content n of the file is hidden unless a route refers to it.
Hidden(s, f, n) ==
    IF n # 0 /\ visible[f] = n /\ ~StillRouted(s, f, n) THEN 0 ELSE visible[f]

\* The retirement is dated by the modification time of the file, and refused when
\* its evidence became visible later than that.
Predates(s, e) ==
    LET f == e.file IN
    /\ Hidden(s, f, routes[s][f]) # visible[f]
    /\ e.type # "file_removed"
    /\ e.content <= opened[f]

\* ingest_text stores the content or finds it; its interval is opened if it is not,
\* and that of another content is closed.
Opened(f, n) ==
    /\ visible' = [visible EXCEPT ![f] = n]
    /\ opened' = IF visible[f] = n THEN opened ELSE [opened EXCEPT ![f] = content[f]]
    /\ regressed' = IF visible[f] > n THEN regressed \cup {f} ELSE regressed

\* activate_provider_route: unless the version was activated before, the route refers
\* to the content.
OpenRoute(s, f, n, version) ==
    IF Repeated(s, f, version, "activate")
    THEN /\ deaf' = IF routes[s][f] # n THEN deaf \cup {<<s, f>>} ELSE deaf
         /\ UNCHANGED <<routes, log>>
    ELSE /\ routes' = [routes EXCEPT ![s][f] = n]
         /\ log' = [log EXCEPT ![s] = @ \cup {<<f, version, "activate">>}]
         /\ UNCHANGED deaf

\* mark_provider_object_seen
MarkSeen(s, f) ==
    seen' = IF s \in running THEN [seen EXCEPT ![s] = @ \cup {f}] ELSE seen

\* An event that activates a route, in one transaction.
Activate(s) == \E e \in todo[s] :
    /\ "activate" \in e.ops
    /\ todo' = [todo EXCEPT ![s] = @ \ {e}]
    /\ Opened(e.file, e.content)
    /\ OpenRoute(s, e.file, e.content, e.version)
    /\ MarkSeen(s, e.file)
    /\ UNCHANGED <<provider, cursors, running, tasks, listed, page, keys, staged, wedged,
                   moves, expiries>>

\* retire_provider_route
CloseRoute(s, f, version) ==
    /\ routes' = [routes EXCEPT ![s][f] = 0]
    /\ visible' = [visible EXCEPT ![f] = Hidden(s, f, routes[s][f])]
    /\ log' = [log EXCEPT ![s] = @ \cup {<<f, version, "retire">>}]
    /\ UNCHANGED opened

\* An event that only retires a route; after three refusals it is quarantined, and
\* its batch is never completed.
Retire(s) == \E e \in todo[s] :
    LET version == IF e.type = "file_removed" THEN <<"change", moves>> ELSE e.version IN
    /\ e.ops = {"retire"}
    /\ todo' = [todo EXCEPT ![s] = @ \ {e}]
    /\ \/ /\ Repeated(s, e.file, version, "retire")
          /\ deaf' = deaf \cup {<<s, e.file>>} /\ UNCHANGED <<evidence, wedged>>
       \/ /\ ~Repeated(s, e.file, version, "retire") /\ Predates(s, e)
          /\ wedged' = wedged \cup {s} /\ UNCHANGED <<evidence, deaf>>
       \/ /\ ~Repeated(s, e.file, version, "retire") /\ ~Predates(s, e)
          /\ CloseRoute(s, e.file, version) /\ UNCHANGED <<wedged, deaf>>
    /\ UNCHANGED <<provider, cursors, generation, page, keys, staged, regressed, moves, expiries>>

---------------------------------------------------------------------------
(* The end of a page *)

\* Mutant: the generation is complete when its page is.
PageIsDone(s) == page[s] = "list"
\* No task of the generation is left.
Covered(s) == tasks[s] = {}

\* complete_provider_sync_generation: the routes of files it has not seen are retired.
RetireUnseen(s) ==
    LET unseen == {f \in File : routes[s][f] # 0 /\ f \notin seen[s]} IN
    /\ routes' = [routes EXCEPT ![s] = [f \in File |-> IF f \in unseen THEN 0 ELSE @[f]]]
    /\ visible' = [f \in File |->
            IF f \in unseen THEN Hidden(s, f, routes[s][f]) ELSE visible[f]]

\* The page is drained: its task is completed; when none is left, the generation and
\* every pending batch are, and the cursor is promoted to the checkpoint.
FinishPage(s) ==
    /\ page[s] # "none" /\ todo[s] = {} /\ s \notin wedged
    /\ page' = [page EXCEPT ![s] = "none"]
    /\ IF s \in running /\ Covered(s)
       THEN /\ RetireUnseen(s)
            /\ running' = running \ {s} /\ tasks' = [tasks EXCEPT ![s] = {}]
            /\ tracking' = tracking \cup {s}
       ELSE UNCHANGED <<routes, visible, running, tasks, tracking>>
    /\ UNCHANGED <<provider, since, listed, seen, todo, keys, staged, log, opened, wedged, history,
                   moves, expiries>>

Sync(s) ==
    \/ Start(s) \/ ListPage(s) \/ PullChanges(s) \/ Expire(s)
    \/ Activate(s) \/ Retire(s) \/ FinishPage(s)

Next ==
    \/ \E f \in File : Edit(f) \/ Move(f) \/ LoseOrReturn(f)
    \/ \E s \in Stream : Sync(s)

Spec == Init /\ [][Next]_vars

---------------------------------------------------------------------------
(* Properties *)

UpToDate(s) == s \in tracking /\ page[s] = "none" /\ since[s] = {} /\ s \notin wedged

(* A stream that has caught up refers to exactly the files of its root, in   *)
(* their last content, whatever was edited, moved or lost while it listed    *)
(* its pages, and whatever the other streams did to the same evidence; only  *)
(* files of which a transition was taken for a repetition are excepted       *)
(* (sync, activate_provider_route, complete_provider_sync_generation).       *)
FollowsItsRoot ==
    \A s \in Stream, f \in File :
        UpToDate(s) /\ <<s, f>> \notin deaf =>
            routes[s][f] = IF s \in Roots(f) THEN content[f] ELSE 0

(* Evidence is visible exactly while a root holds the file, in its last      *)
(* content, once every stream has caught up: a stream that loses a file      *)
(* hides neither what another one refers to, nor leaves behind what none     *)
(* does (_retire_source_if_unrouted_tx).                                     *)
VisibleIsHeld ==
    \A f \in File :
        f \notin regressed /\ (\A s \in Stream : UpToDate(s) /\ <<s, f>> \notin deaf) =>
            visible[f] = IF Roots(f) # {} THEN content[f] ELSE 0

\* Does not hold: complete_provider_sync_generation: "Retire only unseen objects after
\* every generation task is durable and complete."  The code does not: an object that the
\* generation lists in a revision the inbox knows is not processed again, so it is never
\* marked as seen.
RetiresOnlyUnlisted ==
    [][\A s \in Stream, f \in File :
        s \in running /\ s \notin running' /\ routes[s][f] # 0 /\ routes'[s][f] = 0
            => f \notin listed[s]]_vars

\* Does not hold: docs/live-connectors.md: "leaves the integration degraded rather than
\* wedging the stream."  The code does not keep it for a file that is moved out of the
\* root without an edit: its retirement predates its evidence.
NeverWedged == wedged = {}

=============================================================================
