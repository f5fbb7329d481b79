------------------------------ MODULE Recovery ------------------------------
(***************************************************************************)
(* Backup, rotation and restore of the database (storage/backup.py).  A    *)
(* restore is a command of its own, run while the server is stopped; it    *)
(* may die after any of its steps, and so may a backup.  Files may be      *)
(* damaged.                                                                *)
(*                                                                         *)
(* Files are numbered in the order of their creation.                      *)
(***************************************************************************)
EXTENDS Naturals, Sequences, FiniteSets

CONSTANTS
    Row,            \* rows the server commits
    MaxFiles,       \* bound: backup files made
    MaxRestores,    \* bound: restores begun
    MaxDamage,      \* bound: files damaged
    MaxSessions,    \* bound: sessions, API tokens and job leases issued
    KeepDaily, KeepWeekly   \* rotation limits

RecoveryAssumption ==
    {MaxFiles, MaxRestores, MaxDamage, MaxSessions, KeepDaily, KeepWeekly} \subseteq Nat

VARIABLES
    live,           \* the database file
    serving,        \* the server runs on it
    files,          \* backup files
    making,         \* the file a backup has copied but not described yet, or 0
    step, source, temporary,    \* the restore: its step, backup and working copy
    issued,         \* sessions, tokens and leases issued so far
    epoch,          \* those issued before the last restore
    gone,           \* rows of files that were damaged or rotated away
    unseen,         \* a file was altered before it had a manifest
    restores, damages

restoring == <<step, source, temporary>>
bounds == <<restores, damages>>
vars == <<live, serving, files, making, restoring, issued, epoch, gone, unseen, bounds>>

Content == [rows: SUBSET Row, sessions: SUBSET (1..MaxSessions), fenced: BOOLEAN, sound: BOOLEAN]
File == [content: Content, intact: BOOLEAN, altered: BOOLEAN, manifest: BOOLEAN, there: BOOLEAN]

TypeOK ==
    /\ live \in Content /\ temporary \in Content
    /\ files \in Seq(File) /\ making \in 0..MaxFiles
    /\ step \in {"idle", "verified", "saving", "saved", "copied", "fenced"}
    /\ issued \in 0..MaxSessions /\ gone \subseteq Row

Empty == [rows |-> {}, sessions |-> {}, fenced |-> FALSE, sound |-> TRUE]

Init ==
    /\ live = Empty /\ serving = TRUE
    /\ files = <<>> /\ making = 0
    /\ step = "idle" /\ source = 0 /\ temporary = Empty
    /\ issued = 0 /\ epoch = 0 /\ gone = {} /\ unseen = FALSE
    /\ restores = 0 /\ damages = 0

---------------------------------------------------------------------------
(* The server *)

Served(content) ==
    /\ serving /\ live' = content
    /\ UNCHANGED <<serving, files, making, restoring, epoch, gone, unseen, bounds>>

WriteRow(r) == r \notin live.rows /\ Served([live EXCEPT !.rows = @ \cup {r}]) /\ UNCHANGED issued
\* A session, an API token or the lease of a job.
Issue ==
    /\ issued < MaxSessions /\ issued' = issued + 1
    /\ Served([live EXCEPT !.sessions = @ \cup {issued + 1}])
\* The operator lifts the fence after reconciliation.
EnableOutbound == live.fenced /\ Served([live EXCEPT !.fenced = FALSE]) /\ UNCHANGED issued

StartStop ==
    /\ step = "idle" /\ serving' = ~serving
    /\ UNCHANGED <<live, files, making, restoring, issued, epoch, gone, unseen, bounds>>

---------------------------------------------------------------------------
(* Backup *)

Copied(content) ==
    Append(files, [content |-> content, intact |-> TRUE, altered |-> FALSE,
                   manifest |-> FALSE, there |-> TRUE])

\* create_backup: SQLite's online backup into a new file ...
CopyBackup ==
    /\ making = 0 /\ step = "idle" /\ Len(files) < MaxFiles
    /\ files' = Copied(live) /\ making' = Len(files) + 1
    /\ UNCHANGED <<live, serving, restoring, issued, epoch, gone, unseen, bounds>>

\* ... that is verified and described by a manifest with its checksum.
DescribeBackup ==
    /\ making # 0
    /\ files' = [files EXCEPT ![making].manifest = files[making].there]
    /\ making' = 0
    /\ UNCHANGED <<live, serving, restoring, issued, epoch, gone, unseen, bounds>>

\* The process that backs up dies before it wrote the manifest.
BackupDies ==
    /\ making # 0 /\ making' = 0
    /\ UNCHANGED <<live, serving, files, restoring, issued, epoch, gone, unseen, bounds>>

\* Mutant: the checksum of the manifest is not compared.
QuickCheck(f) == files[f].intact
\* verify_backup: checksum of the manifest, if there is one, then quick_check.
Verifies(f) ==
    /\ files[f].there /\ files[f].intact
    /\ files[f].manifest => ~files[f].altered

\* A file is damaged: SQLite notices, or only the checksum does.
Damage(f) ==
    /\ f \in DOMAIN files /\ files[f].there /\ damages < MaxDamage /\ damages' = damages + 1
    /\ \/ files' = [files EXCEPT ![f].intact = FALSE]
       \/ files' = [files EXCEPT ![f].altered = files[f].manifest, ![f].content.sound = FALSE,
                                 ![f].content.rows = {}]
    /\ gone' = gone \cup files[f].content.rows
    /\ unseen' = (unseen \/ ~files[f].manifest)
    /\ UNCHANGED <<live, serving, making, restoring, issued, epoch, restores>>

---------------------------------------------------------------------------
(* Rotation *)

There == {f \in DOMAIN files : files[f].there}
Described == {f \in There : files[f].manifest}
\* Two files are made in a week.
Week(f) == f \div 2

\* Mutant: the oldest first.
Older(f, g) == f < g
\* The order of rotate_backups: by created_at of the manifest, newest first; a file
\* without a manifest has none and comes last.
Newer(f, g) ==
    \/ files[f].manifest /\ (files[g].manifest => f > g)
    \/ ~files[f].manifest /\ ~files[g].manifest /\ f < g

Rank(f) == Cardinality({g \in There : Newer(g, f)})
Daily == {f \in There : Rank(f) < KeepDaily}
\* The newest of its week among those that are not kept as daily.
FirstOfWeek == {f \in Described \ Daily :
                    \A g \in Described \ Daily : Week(g) = Week(f) => ~Newer(g, f)}
Weekly == {f \in FirstOfWeek : Cardinality({g \in FirstOfWeek : Newer(g, f)}) < KeepWeekly}

Rotate ==
    /\ There \ (Daily \cup Weekly) # {}
    /\ files' = [f \in DOMAIN files |->
                    [files[f] EXCEPT !.there = @ /\ f \in Daily \cup Weekly]]
    /\ gone' = gone \cup UNION {files[f].content.rows : f \in There \ (Daily \cup Weekly)}
    /\ UNCHANGED <<live, serving, making, restoring, issued, epoch, unseen, bounds>>

---------------------------------------------------------------------------
(* Restore *)

\* restore_backup: the source is verified.
VerifySource(f) ==
    /\ step = "idle" /\ ~serving /\ making = 0 /\ Len(files) < MaxFiles
    /\ restores < MaxRestores /\ restores' = restores + 1
    /\ f \in DOMAIN files /\ Verifies(f)
    /\ step' = "verified" /\ source' = f /\ temporary' = files[f].content
    /\ UNCHANGED <<live, serving, files, making, issued, epoch, gone, unseen, damages>>

\* Mutant: the safety backup is a copy of the source.
SourceAgain == files[source].content
\* The database that is about to be replaced.
Replaced == live

\* create_backup of the destination.
CopySafety ==
    /\ step = "verified"
    /\ files' = Copied(Replaced) /\ step' = "saving"
    /\ UNCHANGED <<live, serving, making, source, temporary, issued, epoch, gone, unseen, bounds>>

DescribeSafety ==
    /\ step = "saving"
    /\ files' = [files EXCEPT ![Len(files)].manifest = files[Len(files)].there]
    /\ step' = "saved"
    /\ UNCHANGED <<live, serving, making, source, temporary, issued, epoch, gone, unseen, bounds>>

\* Mutant: the copy is only looked at by SQLite.
AnyCopy(f) == files[f].intact
\* The copy has the checksum that was verified.
SameAsVerified(f) == files[f].intact /\ files[f].content = temporary

\* The source is copied into a temporary file.
CopySource ==
    /\ step = "saved" /\ files[source].there /\ SameAsVerified(source)
    /\ temporary' = files[source].content
    /\ step' = "copied"
    /\ UNCHANGED <<live, serving, files, making, source, issued, epoch, gone, unseen, bounds>>

\* Mutant: the fence is left to the server.
Unfenced(content) == [content EXCEPT !.sessions = {}]
\* Sessions and tokens are revoked, jobs released, recovery mode set and outbound dispatch disabled.
Fenced(content) == [content EXCEPT !.sessions = {}, !.fenced = TRUE]

Fence ==
    /\ step = "copied" /\ temporary' = Fenced(temporary) /\ step' = "fenced"
    /\ UNCHANGED <<live, serving, files, making, source, issued, epoch, gone, unseen, bounds>>

EndRestore == step' = "idle" /\ source' = 0 /\ temporary' = Empty

\* os.replace
Replace ==
    /\ step = "fenced" /\ live' = temporary /\ epoch' = issued
    /\ EndRestore
    /\ UNCHANGED <<serving, files, making, issued, gone, unseen, bounds>>

\* The restore dies, or a verification fails: what it has done so far is left behind.
RestoreDies ==
    /\ step # "idle" /\ EndRestore
    /\ UNCHANGED <<live, serving, files, making, issued, epoch, gone, unseen, bounds>>

Next ==
    \/ \E r \in Row : WriteRow(r)
    \/ Issue \/ EnableOutbound \/ StartStop
    \/ CopyBackup \/ DescribeBackup \/ BackupDies \/ Rotate
    \/ \E f \in 1..MaxFiles : Damage(f) \/ VerifySource(f)
    \/ CopySafety \/ DescribeSafety \/ CopySource \/ Fence \/ Replace \/ RestoreDies

Spec == Init /\ [][Next]_vars

---------------------------------------------------------------------------
(* Properties *)

(* Only a backup whose bytes changed before it had a manifest is restored    *)
(* altered, whenever the change happens (verify_backup, and restore_backup,  *)
(* which verifies its copy against the source).                              *)
RestoredIsSound == live.sound \/ unseen

RowsKept ==
    \A r \in live.rows : r \in live'.rows \/ r \in gone'
        \/ \E f \in DOMAIN files' : files'[f].there /\ r \in files'[f].content.rows
FencedAtOnce ==
    step = "fenced" /\ live' # live => live'.fenced /\ live'.sessions = {}
NewestKept ==
    Described # {} /\ KeepDaily > 0 =>
        \E f \in Described : (\A g \in Described : g <= f) /\ files'[f].there

(* A backup, a rotation or a restore, wherever it stops, loses no committed  *)
(* row: what is no longer in the database is in a backup file, unless its    *)
(* last file was damaged or rotated away.  A restored database has no valid  *)
(* session, token or lease and dispatches nothing from the moment it is      *)
(* there, and rotation keeps the newest backup that has a manifest           *)
(* (restore_backup, rotate_backups).                                         *)
RecoveryIsSafe == [][RowsKept /\ FencedAtOnce /\ NewestKept]_vars

=============================================================================
