---------------------------- MODULE Migrations ----------------------------
(***************************************************************************)
(* Opening a database: SqliteStore.__init__ executes SCHEMA and migrate()  *)
(* executes the script of every version the ledger schema_migrations does  *)
(* not list, then records the version.  executescript commits what is open *)
(* and then runs in autocommit: every statement of a script is durable on  *)
(* its own, before the version is recorded, so a process that dies leaves  *)
(* a prefix of the script behind and the next open executes the whole of   *)
(* it again.  ADD COLUMN has no IF NOT EXISTS: migrate() removes the ones  *)
(* whose column is there from the script before it runs it.                *)
(*                                                                         *)
(* One process opens the database at a time (docs/upgrade-guide.md, "Stop  *)
(* every writer").  A database is closed with a schema of some version,    *)
(* possibly one of version 18 that was made before events were numbered,   *)
(* and with rows in every table that a script rebuilds.                    *)
(***************************************************************************)
EXTENDS SchemaScripts, FiniteSets

CONSTANTS
    StartVersions,      \* schema versions a database that is opened may have
    MaxCrashes          \* bound: processes that die while they open it

MigrationsAssumption ==
    /\ StartVersions \subseteq 1..Len(MIGRATIONS)
    /\ MaxCrashes \in Nat

VARIABLES
    db,         \* the database: tables, ADDed columns, triggers, tables with rows
    applied,    \* schema_migrations
    phase,      \* of the process that opens it: "closed", "running", "done", "failed"
    at,         \* the version it applies, or a step before or after them
    script,     \* the statements of that step it has yet to execute
    unnumbered, \* knowledge_state_events holds rows of sequence 0
    held,       \* the tables that held rows when the database was closed
    torn,       \* a process died in a script that rebuilds what it finds
    crashes

vars == <<db, applied, phase, at, script, unnumbered, held, torn, crashes>>

Latest == Len(MIGRATIONS)
Repair == Latest + 1
Closed == 0

\* The versions whose scripts create, rename or drop without IF [NOT] EXISTS.
Rebuilding == {14, 15, 41, 52, 53, 59, 63}
\* The tables those scripts copy
Rebuilt == {s.on : s \in UNION {ToSet(SelectSeq(MIGRATIONS[v], LAMBDA s : s.do = "copy")) :
                                v \in Rebuilding}}

---------------------------------------------------------------------------
(* What SQLite does with a statement *)

Triggers(d) == {g[2] : g \in d.guards}

\* The statement raises no error.
Executable(d, s) ==
    /\ s.do = "create" => s.on \notin d.tables
    /\ s.do \in {"add", "guard", "newguard", "copy", "drop", "rename"} => s.on \in d.tables
    /\ s.do = "add" => <<s.on, s.what>> \notin d.cols
    /\ s.do = "newguard" => s.what \notin Triggers(d)
    /\ s.do = "copy" => s.what \in d.tables
    /\ s.do = "rename" => s.what \notin d.tables

\* Everything that belongs to a table goes with it.
Without(d, t) ==
    [tables |-> d.tables \ {t}, rows |-> d.rows \ {t},
     cols |-> {c \in d.cols : c[1] # t}, guards |-> {g \in d.guards : g[1] # t}]
Renamed(d, a, b) ==
    LET Name(t) == IF t = a THEN b ELSE t
    IN  [tables |-> {Name(t) : t \in d.tables}, rows |-> {Name(t) : t \in d.rows},
         cols |-> {<<Name(c[1]), c[2]>> : c \in d.cols},
         guards |-> {<<Name(g[1]), g[2]>> : g \in d.guards}]

Executed(d, s) ==
    CASE s.do \in {"make", "create"} ->
           [d EXCEPT !.tables = @ \cup {s.on}, !.cols = @ \cup {<<s.on, c>> : c \in s.cols}]
      [] s.do = "add" -> [d EXCEPT !.cols = @ \cup {<<s.on, s.what>>}]
      [] s.do \in {"guard", "newguard"} ->
           IF s.what \in Triggers(d) THEN d
           ELSE [d EXCEPT !.guards = @ \cup {<<s.on, s.what>>}]
      [] s.do = "unguard" -> [d EXCEPT !.guards = {g \in @ : g[2] # s.what}]
      [] s.do = "copy" -> IF s.on \in d.rows THEN [d EXCEPT !.rows = @ \cup {s.what}] ELSE d
      [] s.do \in {"drop", "dropif"} -> Without(d, s.on)
      [] s.do = "rename" -> Renamed(d, s.on, s.what)
      [] OTHER -> d

\* A run of a script from end to end
Run(d, statements) == FoldLeft(Executed, d, statements)

Empty == [tables |-> {}, cols |-> {}, guards |-> {}, rows |-> {}]
\* SchemaAt[v]: the database after versions 1 to v, every script run to its end
SchemaAt[v \in 0..Latest] ==
    IF v = 0 THEN Empty
    ELSE CHOOSE d \in {Run(e, MIGRATIONS[v]) : e \in {SchemaAt[v - 1]}} : TRUE
Final == SchemaAt[Latest]

---------------------------------------------------------------------------
(* What migrate() does *)

\* Mutant: the scripts run as they are written.
Unstripped(d, statements) == statements
\* The ADD COLUMNs of a column that is there are taken out of the script.
Stripped(d, statements) ==
    SelectSeq(statements, LAMBDA s : s.do = "add" => <<s.on, s.what>> \notin d.cols)

\* The script of a step: SCHEMA at every open, a version, the completion of
\* an old schema 18.
ScriptOf(d, v) ==
    IF v = Repair THEN (IF unnumbered THEN Renumber ELSE <<>>) \o Complete18
    ELSE Stripped(d, MIGRATIONS[v])

\* The step that comes after v: the next version the ledger does not list.
StepAfter(v) ==
    LET open == {w \in 2..Latest : w > v /\ w \notin applied}
    IN  IF open = {} THEN Repair ELSE CHOOSE w \in open : \A x \in open : w <= x

\* A store of version 18 or later made before events were numbered
LacksAliasEvents(d) ==
    [Without(d, "entity_alias_state_events") EXCEPT
        !.guards = {g \in @ : g[2] \notin {"entity_aliases_no_update_lifecycle",
                                            "knowledge_state_monotonic_insert"}}]

Init ==
    \E v \in StartVersions, old \in BOOLEAN :
        /\ old => v >= 18
        /\ LET d == SchemaAt[v]
               rows == Rebuilt \cap d.tables
           IN  /\ db = [(IF old THEN LacksAliasEvents(d) ELSE d) EXCEPT !.rows = rows]
               /\ held = rows
        /\ unnumbered = old
        /\ applied = 1..v
        /\ phase = "closed" /\ at = Closed /\ script = <<>>
        /\ torn = FALSE /\ crashes = 0

\* SqliteStore.__init__: SCHEMA first, at every open.
Open ==
    /\ phase = "closed"
    /\ phase' = "running" /\ at' = 1 /\ script' = ScriptOf(db, 1)
    /\ UNCHANGED <<db, applied, unnumbered, held, torn, crashes>>

\* executescript executes one statement, which is durable at once.
Execute ==
    /\ phase = "running" /\ script # <<>>
    /\ Executable(db, Head(script))
    /\ db' = Executed(db, Head(script))
    /\ unnumbered' = (unnumbered /\ Head(script).do # "number")
    /\ script' = Tail(script)
    /\ UNCHANGED <<applied, phase, at, held, torn, crashes>>

\* The statement raises sqlite3.OperationalError, which nothing catches.
Fail ==
    /\ phase = "running" /\ script # <<>>
    /\ ~Executable(db, Head(script))
    /\ phase' = "failed" /\ at' = Closed /\ script' = <<>>
    /\ UNCHANGED <<db, applied, unnumbered, held, torn, crashes>>

\* Mutant: a version is recorded when its script begins.
RecordFirst ==
    /\ phase = "running" /\ script = <<>> /\ at # Repair
    /\ at' = StepAfter(at)
    /\ applied' = applied \cup ({1, at'} \ {Repair})
    /\ script' = ScriptOf(db, at')
    /\ UNCHANGED <<db, phase, unnumbered, held, torn, crashes>>
\* The script is through: its version is recorded and the next one begins.
Record ==
    /\ phase = "running" /\ script = <<>> /\ at # Repair
    /\ applied' = applied \cup {at}
    /\ at' = StepAfter(at)
    /\ script' = ScriptOf(db, at')
    /\ UNCHANGED <<db, phase, unnumbered, held, torn, crashes>>

\* migrate() returns; the store serves requests.
Finish ==
    /\ phase = "running" /\ script = <<>> /\ at = Repair
    /\ phase' = "done" /\ at' = Closed
    /\ UNCHANGED <<db, applied, script, unnumbered, held, torn, crashes>>

\* The process dies between two statements or before the version is recorded.
Crash ==
    /\ phase = "running" /\ crashes < MaxCrashes
    /\ phase' = "closed" /\ at' = Closed /\ script' = <<>>
    /\ torn' = (torn \/ at \in Rebuilding)
    /\ crashes' = crashes + 1
    /\ UNCHANGED <<db, applied, unnumbered, held>>

Next == Open \/ Execute \/ Fail \/ Record \/ Finish \/ Crash

Spec == Init /\ [][Next]_vars

---------------------------------------------------------------------------
(* Properties *)

(* An open that ends, wherever earlier ones died, leaves exactly the         *)
(* tables, columns and triggers of an upgrade nobody interrupted, a full     *)
(* ledger and numbered events: replaying any prefix of any script on top of  *)
(* itself makes no difference (migrate).                                     *)
FinishedIsWhole ==
    phase = "done" =>
        /\ db.tables = Final.tables /\ db.cols = Final.cols /\ db.guards = Final.guards
        /\ applied = 1..Latest
        /\ ~unnumbered

(* An open fails, or ends without the rows of a table, only if a process     *)
(* died inside one of the seven scripts that rebuild tables or guards in     *)
(* place: at every other version an upgrade may be killed at any statement   *)
(* and be started again (migrate).                                           *)
HarmedOnlyInRebuilds ==
    (phase = "failed" \/ (phase = "done" /\ ~(held \subseteq db.rows))) => torn

\* Where the scripts put the rows of a table while they rebuild it
CopiesOf(t) ==
    {s.what : s \in UNION {ToSet(SelectSeq(MIGRATIONS[v], LAMBDA s : s.do = "copy" /\ s.on = t)) :
                           v \in Rebuilding}}

\* Does not hold: "Migrations preserve canonical rows" (docs/upgrade-guide.md:19).
\* Versions 52, 53, 59 and 63 begin with DROP TABLE IF EXISTS of the copy a killed run
\* left. If that run had dropped the original before it died, the copy holds the only
\* rows; the open then fails without them.
RowsPreserved ==
    phase \in {"done", "failed"} =>
        \A t \in held : ({t} \cup CopiesOf(t)) \cap db.rows # {}

=============================================================================
