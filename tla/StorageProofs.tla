--------------------------- MODULE StorageProofs ---------------------------
(***************************************************************************)
(* Proofs about what MCStorage composes, for any rows, files, processes,   *)
(* sessions, pages, events, keys and readers.                              *)
(*                                                                         *)
(* Retention: every statement group of a deletion leaves the rows that its *)
(* connection sees whole, so what any later commit makes of the open       *)
(* transaction is whole as well, whichever request makes that commit.      *)
(*                                                                         *)
(* Recovery: only one call at a time writes the live database or removes a *)
(* file.  A restore copies the rows it replaces to a safety copy first, and*)
(* raises the fence in the temporary file before that becomes the database.*)
(* Rotation removes no file that the greatest sequence describes.          *)
(*                                                                         *)
(* Synchronization: only the session with the reservation records and      *)
(* completes, so while it has it the cursor is the one it pulled with, its *)
(* batch is the last one and expects the version there is.  Hence it       *)
(* completes its own batch alone, and the cursor passes one page, all of   *)
(* whose events are finished; a finished event never changes.              *)
(*                                                                         *)
(* Evidence: of a key one version is shown, with whatever dates it was; an *)
(* interval goes on only while one of its key is shown, and ended no later *)
(* than one of its key was retired.  So a key that was withdrawn is gone,  *)
(* and what is withdrawn brings nothing back that goes on.                 *)
(*                                                                         *)
(* Projection: a rebuild has a generation of its own, with the watermark of*)
(* the documents it read.  Activation compares numbers of documents, so    *)
(* what the new generation misses is as many as were read and erased since;*)
(* an ingestion adds to the active generation what it commits later.       *)
(*                                                                         *)
(* Routes: a file that did not change since the checkpoint of a stream has *)
(* the route it should have or an event that makes it, once the stream     *)
(* follows the changes; while it lists its root, the page of the file is   *)
(* to come, or its event is, or it is marked as seen.                      *)
(***************************************************************************)
EXTENDS MCStorage, FiniteSetTheorems, TLAPS
------------------------------------------------------------------------------
(* Retention                                                               *)

\* What ErasureIsWhole says of the committed rows, said of any rows.
Whole(stored, rows) ==
    /\ stored \ rows.documents \subseteq rows.audited
    /\ rows.derived \subseteq rows.documents
    /\ rows.current \cup rows.routed \subseteq rows.documents

\* Both what is committed and what the connection sees, which differ only in a transaction.
RetentionInv ==
    /\ db \in Rows /\ view \in Rows /\ request \in Request
    /\ ~open => view = db
    /\ Whole(ingested, db) /\ Whole(ingested, view)
------------------------------------------------------------------------------
(* Rows *)

\* Erasing a row, or its part up to the foreign key that holds its source, keeps rows whole:
\* the audit row is written with the first statement.
LEMMA ErasedIsWhole ==
    ASSUME NEW rows \in Rows, NEW e \in Evidence, NEW stored, Whole(stored, rows)
    PROVE  /\ Retired(WithoutDocument(Audited(rows, e), e), e) \in Rows
           /\ Whole(stored, Retired(WithoutDocument(Audited(rows, e), e), e))
           /\ WithoutSource(WithoutDocument(Audited(rows, e), e), e) \in Rows
           /\ Whole(stored, WithoutSource(WithoutDocument(Audited(rows, e), e), e))
<1> DEFINE audited == Audited(rows, e)
           bare == WithoutDocument(audited, e)
           retired == Retired(bare, e)
           removed == WithoutSource(bare, e)
<1>1. /\ audited = [rows EXCEPT !.audited = @ \cup {e}]
      /\ audited \in Rows
    BY DEF Audited, Rows
<1>2. /\ bare.derived = rows.derived \ {e} /\ bare.documents = rows.documents \ {e}
      /\ bare.audited = rows.audited \cup {e}
      /\ bare.current = rows.current /\ bare.routed = rows.routed
      /\ bare \in Rows
    BY <1>1 DEF WithoutDocument, Rows
<1>3. /\ retired.derived = bare.derived /\ retired.documents = bare.documents
      /\ retired.audited = bare.audited
      /\ retired.current = bare.current \ {e} /\ retired.routed = bare.routed \ {e}
      /\ retired \in Rows
    BY <1>2 DEF Retired, Rows
<1>4. /\ removed.derived = retired.derived /\ removed.documents = retired.documents
      /\ removed.audited = retired.audited
      /\ removed.current = retired.current /\ removed.routed = retired.routed
      /\ removed \in Rows
    BY <1>3 DEF WithoutSource, Rows
<1>5. Whole(stored, retired)
    BY <1>2, <1>3 DEF Whole
<1>6. Whole(stored, removed)
    BY <1>4, <1>5 DEF Whole
<1> QED
    BY <1>3, <1>4, <1>5, <1>6

\* A new piece of evidence is stored with everything that belongs to it.
LEMMA StoredIsWhole ==
    ASSUME NEW e \in Evidence, db \in Rows, Whole(ingested, db)
    PROVE  Stored(e) \in Rows /\ Whole(ingested \cup {e}, Stored(e))
<1> DEFINE rows == Stored(e)
<1>1. /\ rows.documents = db.documents \cup {e} /\ rows.derived = db.derived \cup {e}
      /\ rows.current = db.current \cup {e} /\ rows.routed = db.routed \cup {e}
      /\ rows.audited = db.audited
      /\ rows \in Rows
    BY DEF Stored, Rows
<1> HIDE DEF rows
<1>2. Whole(ingested \cup {e}, rows)
    BY <1>1 DEF Whole
<1> QED
    BY <1>1, <1>2 DEF rows
------------------------------------------------------------------------------
(* Steps *)

LEMMA InitEstablishesInv == Init => RetentionInv
BY DEF Init, RetentionInv, Rows, Whole, Idle, Request

\* A commit of what the connection sees, or of rows that are whole.
LEMMA CommitKeepsInv ==
    ASSUME NEW rows \in Rows, Whole(ingested', rows), Commit(rows), request' \in Request
    PROVE  RetentionInv'
BY DEF Commit, RetentionInv

\* A write of rows that are whole.
LEMMA WriteKeepsInv ==
    ASSUME NEW rows \in Rows, Whole(ingested, rows), Write(rows), RetentionInv, UNCHANGED ingested,
           request' \in Request
    PROVE  RetentionInv'
BY DEF Write, RetentionInv


LEMMA IdleIsRequest == Idle \in Request
BY DEF Idle, Request

\* The row a deletion is at, and the request when it is done with that row.
LEMMA RowOfRequest ==
    ASSUME request \in Request, request.batch # <<>>
    PROVE  /\ NextRow \in Evidence
           /\ [request EXCEPT !.batch = Tail(@)] \in Request
           /\ [request EXCEPT !.batch = Tail(@), !.erased = @ \cup {NextRow}] \in Request
<1>1. /\ request.batch \in Seq(Evidence) /\ request.erased \subseteq Evidence
      /\ request.table \in {"none", "documents", "sources"} /\ request.member \subseteq Workspace
    BY DEF Request
<1>2. Head(request.batch) \in Evidence /\ Tail(request.batch) \in Seq(Evidence)
    BY <1>1
<1> QED
    BY <1>1, <1>2 DEF Request, NextRow

\* A request that is refused leaves rows that are whole in its transaction.
LEMMA RefuseKeepsInv ==
    ASSUME NEW rows \in Rows, Whole(ingested, rows), RetentionInv, Refuse(rows)
    PROVE  RetentionInv'
<1>1. request' \in Request /\ UNCHANGED ingested
    BY IdleIsRequest DEF Refuse
<1>2. CASE rows = view
    BY <1>1, <1>2 DEF Refuse, RetentionInv
<1>3. CASE rows # view
    BY <1>1, <1>3, WriteKeepsInv DEF Refuse
<1> QED
    BY <1>2, <1>3

LEMMA NextKeepsInv == RetentionInv /\ [Next]_vars => RetentionInv'
<1> SUFFICES ASSUME RetentionInv, [Next]_vars PROVE RetentionInv'
    OBVIOUS
<1> USE IdleIsRequest
<1>1. ASSUME NEW e \in Evidence, Ingest(e) \/ WorkerIngest(e) PROVE RetentionInv'
  <2>1. Stored(e) \in Rows /\ Whole(ingested \cup {e}, Stored(e))
      BY StoredIsWhole DEF RetentionInv
  <2> QED
      BY <1>1, <2>1, CommitKeepsInv DEF Ingest, WorkerIngest, Atomic, RetentionInv
<1>2. ASSUME NEW e \in Evidence, Cite(e) PROVE RetentionInv'
  <2> DEFINE rows == [db EXCEPT !.cited = @ \cup {e}]
  <2>1. rows \in Rows /\ Whole(ingested, rows)
      BY DEF RetentionInv, Rows, Whole
  <2> HIDE DEF rows
  <2>2. Commit(rows) /\ UNCHANGED <<request, ingested>>
      BY <1>2 DEF Cite, Atomic, rows
  <2> QED
      BY <2>1, <2>2, CommitKeepsInv DEF RetentionInv
<1>3. CASE Authenticate
    BY <1>3, CommitKeepsInv DEF Authenticate, RetentionInv
<1>4. CASE DuplicateWebhook
    BY <1>4, CommitKeepsInv DEF DuplicateWebhook, RetentionInv
<1>5. ASSUME NEW table \in {"documents", "sources"}, NEW batch \in Batches,
             NEW member \in SUBSET Workspace, StartDeletion(table, batch, member)
      PROVE  RetentionInv'
  <2>1. batch \in Seq(Evidence)
    <3>1. CASE \E e \in Evidence : batch = <<e>>
        BY <3>1
    <3>2. CASE \E e, f \in Evidence : batch = <<e, f>>
        BY <3>2
    <3> QED
        BY <3>1, <3>2 DEF Batches
  <2>2. request' \in Request
      BY <1>5, <2>1 DEF StartDeletion, Request
  <2> QED
      BY <1>5, <2>2 DEF StartDeletion, RetentionInv
<1>6. CASE SkipRow
    BY <1>6, RowOfRequest DEF SkipRow, RetentionInv
<1>7. CASE EraseRow
  <2> DEFINE rows == WithoutSource(WithoutDocument(Audited(view, NextRow), NextRow), NextRow)
  <2>1. NextRow \in Evidence /\ request' \in Request
      BY <1>7, RowOfRequest DEF EraseRow, RetentionInv
  <2>2. rows \in Rows /\ Whole(ingested, rows)
      BY <2>1, ErasedIsWhole DEF RetentionInv
  <2> QED
      BY <1>7, <2>1, <2>2, WriteKeepsInv DEF EraseRow
<1>8. CASE Forbidden
    BY <1>8, RefuseKeepsInv DEF Forbidden, RetentionInv
<1>9. CASE HeldByForeignKey
  <2> DEFINE rows == Retired(WithoutDocument(Audited(view, NextRow), NextRow), NextRow)
  <2>1. NextRow \in Evidence
      BY <1>9, RowOfRequest DEF HeldByForeignKey, RetentionInv
  <2>2. rows \in Rows /\ Whole(ingested, rows)
      BY <2>1, ErasedIsWhole DEF RetentionInv
  <2> QED
      BY <1>9, <2>2, RefuseKeepsInv DEF HeldByForeignKey
<1>10. CASE FinishDeletion
    BY <1>10, CommitKeepsInv DEF FinishDeletion, RetentionInv
<1>11. CASE Crash
    BY <1>11 DEF Crash, RetentionInv
<1>12. CASE UNCHANGED vars
    BY <1>12 DEF vars, RetentionInv
<1> QED
    BY <1>1, <1>2, <1>3, <1>4, <1>5, <1>6, <1>7, <1>8, <1>9, <1>10, <1>11, <1>12 DEF Next
------------------------------------------------------------------------------
(* Theorems *)

(* In every reachable state the committed rows and the rows that the server's *)
(* connection sees are whole (execute_deletion with _delete_document_evidence *)
(* and _delete_source_evidence).                                              *)
THEOREM RetentionInvariance == Spec => []RetentionInv
<1>1. Init => RetentionInv
    BY InitEstablishesInv
<1>2. RetentionInv /\ [Next]_vars => RetentionInv'
    BY NextKeepsInv
<1> QED
    BY <1>1, <1>2, PTL DEF Spec

(* For any evidence, workspaces, deletions and crashes, evidence that is gone *)
(* was audited with its removal and nothing that belongs to it is left.       *)
THEOREM ErasureIsWholeHolds == Spec => []ErasureIsWhole
<1>1. RetentionInv => ErasureIsWhole
    BY DEF RetentionInv, Whole, ErasureIsWhole
<1> QED
    BY <1>1, RetentionInvariance, PTL
------------------------------------------------------------------------------
(* Backup and restore                                                      *)

\* A finite set of numbers has a greatest one.
LEMMA HasGreatest ==
    ASSUME NEW S \in SUBSET Nat, IsFiniteSet(S), S # {}
    PROVE  \E x \in S : \A y \in S : y <= x
<1> DEFINE Above(x) == {y \in S : y > x}
           Family == {Above(x) : x \in S}
<1>1. IsWellFoundedOn(StrictSubsetOrdering(S), SUBSET S)
    BY FS_StrictSubsetOrderingWellFounded, FS_FiniteSubsetsOfFinite
<1>2. Family \subseteq SUBSET S /\ Family # {}
    OBVIOUS
<1>3. PICK F \in Family : \A G \in Family : ~(<<G, F>> \in StrictSubsetOrdering(S))
  <2> HIDE DEF Family
  <2> QED
      BY <1>1, <1>2, WFMin
<1>4. PICK x \in S : F = Above(x)
    BY <1>3
<1>5. ASSUME NEW y \in S, y > x PROVE FALSE
  <2>1. Above(y) \in Family
      OBVIOUS
  <2>2. Above(y) \subseteq Above(x)
    <3>1. ASSUME NEW z \in S, z > y PROVE z > x
      <4>1. x \in Nat /\ y \in Nat /\ z \in Nat
          OBVIOUS
      <4> QED
          BY <1>5, <3>1, <4>1
    <3> QED
        BY <3>1
  <2>3. y \in Above(x) /\ y \notin Above(y)
      BY <1>5
  <2>4. <<Above(y), Above(x)>> \in StrictSubsetOrdering(S)
    <3>1. Above(x) \in SUBSET S /\ Above(y) \in SUBSET S
        OBVIOUS
    <3> QED
        BY <2>2, <2>3, <3>1 DEF StrictSubsetOrdering
  <2> QED
      BY <1>3, <1>4, <2>1, <2>4
<1>6. \A y \in S : y <= x
    BY <1>5
<1> QED
    BY <1>6
------------------------------------------------------------------------------
(* Backup and restore                                                      *)

\* The steps of a restore after it has copied the database that is about to be replaced.
Copying == {"saving", "saved", "copied", "fenced"}

\* A row of the database that a restore replaces is in a file that is there, or was in one
\* that is gone.
InFile(r) == \E f \in 1..Len(files) : files[f].there /\ r \in files[f].content.rows
Saved == step \in Copying => \A r \in live.rows : r \in gone \/ InFile(r)

\* The server rests while a restore is under way, and no backup is.
Alone ==
    /\ serving \in BOOLEAN
    /\ step # "idle" => ~serving /\ making = 0
    /\ step = "verified" => Len(files) < MaxFiles
    /\ making # 0 => making <= Len(files)
    /\ step = "saving" => Len(files) > 0
    /\ Len(files) <= MaxFiles

FencedCopy == step = "fenced" => temporary.fenced /\ temporary.sessions = {}

RecoveryInv == Recovery!TypeOK /\ Alone /\ Saved /\ FencedCopy

LEMMA RecoveryBounds ==
    /\ MaxFiles \in Nat /\ MaxRestores \in Nat /\ MaxDamage \in Nat /\ MaxSessions \in Nat
    /\ KeepDaily \in Nat /\ KeepWeekly \in Nat
BY RecoveryAssumption DEF Recovery!RecoveryAssumption

LEMMA RecoveryInit == Recovery!Init => RecoveryInv
<1> SUFFICES ASSUME Recovery!Init PROVE RecoveryInv
    OBVIOUS
<1>1. Recovery!Empty \in Recovery!Content
    BY DEF Recovery!Empty, Recovery!Content
<1>2. files = <<>> /\ Len(files) = 0
    BY DEF Recovery!Init
<1>3. Recovery!TypeOK
    BY <1>1, <1>2, RecoveryBounds DEF Recovery!Init, Recovery!TypeOK
<1>4. Alone /\ Saved /\ FencedCopy
    BY <1>2, RecoveryBounds DEF Recovery!Init, Alone, Saved, FencedCopy, Copying
<1> QED
    BY <1>3, <1>4 DEF RecoveryInv
------------------------------------------------------------------------------
(* Files                                                                   *)

\* What a step does to the files: none is forgotten, and a row that leaves a file is gone.
FilesKept ==
    /\ gone \subseteq gone'
    /\ Len(files) <= Len(files')
    /\ \A f \in 1..Len(files) : \A r \in files[f].content.rows :
            files[f].there => r \in gone' \/ (files'[f].there /\ r \in files'[f].content.rows)

\* A new file is one more.
LEMMA CopiedIs ==
    ASSUME files \in Seq(Recovery!File), NEW rowsOf \in Recovery!Content
    PROVE  LET next == Recovery!Copied(rowsOf)
           IN  /\ next \in Seq(Recovery!File) /\ Len(next) = Len(files) + 1
               /\ \A f \in 1..Len(files) : next[f] = files[f]
               /\ next[Len(files) + 1].content = rowsOf /\ next[Len(files) + 1].there
<1> DEFINE row == [content |-> rowsOf, intact |-> TRUE, altered |-> FALSE,
                   manifest |-> FALSE, there |-> TRUE]
<1>1. row \in Recovery!File /\ row.content = rowsOf /\ row.there
    BY DEF Recovery!File
<1>2. Recovery!Copied(rowsOf) = Append(files, row)
    BY DEF Recovery!Copied
<1> HIDE DEF row
<1> QED
    BY <1>1, <1>2

\* A row of a file may change.
LEMMA FileChanged ==
    ASSUME files \in Seq(Recovery!File), NEW next,
           DOMAIN next = DOMAIN files, next = [f \in DOMAIN files |-> next[f]],
           \A f \in 1..Len(files) : next[f] \in Recovery!File
    PROVE  next \in Seq(Recovery!File) /\ Len(next) = Len(files)
<1>1. DOMAIN files = 1..Len(files) /\ Len(files) \in Nat
    OBVIOUS
<1>2. next = [f \in 1..Len(files) |-> next[f]]
    BY <1>1
<1> QED
    BY <1>1, <1>2

\* The manifest of a file changes nothing else of it.
LEMMA DescribedIs ==
    ASSUME files \in Seq(Recovery!File), NEW g \in 1..Len(files), NEW next,
           next = [files EXCEPT ![g].manifest = files[g].there]
    PROVE  /\ next \in Seq(Recovery!File) /\ Len(next) = Len(files)
           /\ \A f \in 1..Len(files) : next[f].content = files[f].content
                                       /\ next[f].there = files[f].there
<1>1. ASSUME NEW f \in 1..Len(files)
      PROVE  /\ next[f] \in Recovery!File
             /\ next[f].content = files[f].content /\ next[f].there = files[f].there
  <2>0. files[f] \in Recovery!File /\ files[g] \in Recovery!File
      OBVIOUS
  <2>1. files[f] \in Recovery!File /\ files[g].there \in BOOLEAN
      BY <2>0 DEF Recovery!File
  <2>2. next[f] = IF f = g THEN [files[f] EXCEPT !.manifest = files[g].there] ELSE files[f]
      OBVIOUS
  <2> QED
      BY <2>1, <2>2 DEF Recovery!File
<1>2. DOMAIN next = DOMAIN files /\ next = [f \in DOMAIN files |-> next[f]]
    OBVIOUS
<1> QED
    BY <1>1, <1>2, FileChanged

\* A file that is there stays there.
ThereStays == \A f \in 1..Len(files) : files[f].there => files'[f].there

\* Damage takes rows from one file, and remembers them.
LEMMA DamageFiles ==
    ASSUME files \in Seq(Recovery!File), NEW d, Recovery!Damage(d)
    PROVE  files' \in Seq(Recovery!File) /\ Len(files') = Len(files) /\ FilesKept /\ ThereStays
<1>0. d \in 1..Len(files) /\ Len(files) \in Nat /\ gone' = gone \cup files[d].content.rows
    BY DEF Recovery!Damage
<1>1. ASSUME NEW f \in 1..Len(files)
      PROVE  /\ files'[f] \in Recovery!File /\ files'[f].there = files[f].there
             /\ files'[f].content.rows \in {files[f].content.rows, {}}
             /\ f # d => files'[f] = files[f]
  <2>1. files[f] \in Recovery!File /\ files[d] \in Recovery!File
      BY <1>0
  <2>2. CASE files' = [files EXCEPT ![d].intact = FALSE]
    <3>0. d \in DOMAIN files /\ f \in DOMAIN files
        BY <1>0
    <3>1. files'[f] = IF f = d THEN [files[f] EXCEPT !.intact = FALSE] ELSE files[f]
        BY <3>0, <2>2
    <3> QED
        BY <2>1, <3>1 DEF Recovery!File
  <2>3. CASE files' = [files EXCEPT ![d].altered = files[d].manifest,
                                    ![d].content.sound = FALSE, ![d].content.rows = {}]
    <3> DEFINE bare == [files[d].content EXCEPT !.sound = FALSE, !.rows = {}]
    <3>1. files[d].content \in Recovery!Content /\ files[d].manifest \in BOOLEAN
        BY <2>1 DEF Recovery!File
    <3>2. bare \in Recovery!Content /\ bare.rows = {}
        BY <3>1 DEF Recovery!Content
    <3>3. f # d => files'[f] = files[f]
        BY <1>0, <2>3
    <3> DEFINE one == [files EXCEPT ![d].altered = files[d].manifest]
               two == [one EXCEPT ![d].content.sound = FALSE]
    <3>a. files' = [two EXCEPT ![d].content.rows = {}]
        BY <2>3
    <3>b. one[d] = [files[d] EXCEPT !.altered = files[d].manifest]
        BY <1>0
    <3>c. DOMAIN one = DOMAIN files
        OBVIOUS
    <3> HIDE DEF one
    <3>f. d \in DOMAIN one
        BY <1>0, <3>c
    <3>g. DOMAIN two = DOMAIN files
        BY <3>c
    <3>d. two[d] = [one[d] EXCEPT !.content.sound = FALSE]
        BY <3>f
    <3> HIDE DEF two
    <3>h. d \in DOMAIN two
        BY <1>0, <3>g
    <3>e. files'[d] = [two[d] EXCEPT !.content.rows = {}]
        BY <3>a, <3>h
    <3>4. files'[d] = [files[d] EXCEPT !.altered = files[d].manifest,
                                       !.content.sound = FALSE, !.content.rows = {}]
        BY <3>b, <3>d, <3>e
    <3>5. files'[d] = [files[d] EXCEPT !.altered = files[d].manifest, !.content = bare]
        BY <2>1, <3>1, <3>4 DEF Recovery!File, Recovery!Content
    <3> HIDE DEF bare
    <3>6. files'[d] \in Recovery!File /\ files'[d].there = files[d].there
          /\ files'[d].content = bare
        BY <2>1, <3>1, <3>2, <3>5 DEF Recovery!File
    <3> QED
        BY <2>1, <3>2, <3>3, <3>6
  <2> QED
      BY <2>2, <2>3 DEF Recovery!Damage
<1>2. DOMAIN files' = DOMAIN files /\ files' = [f \in DOMAIN files |-> files'[f]]
    BY DEF Recovery!Damage
<1>3. files' \in Seq(Recovery!File) /\ Len(files') = Len(files)
    BY <1>1, <1>2, FileChanged
<1>4. FilesKept
    BY <1>0, <1>1, <1>3 DEF FilesKept
<1>5. ThereStays
    BY <1>1 DEF ThereStays
<1> QED
    BY <1>3, <1>4, <1>5

\* Rotation takes files away, and remembers their rows.
LEMMA RotateFiles ==
    ASSUME files \in Seq(Recovery!File), Recovery!Rotate
    PROVE  /\ files' \in Seq(Recovery!File) /\ Len(files') = Len(files) /\ FilesKept
           /\ \A f \in Recovery!Daily : files'[f].there
<1> DEFINE kept == Recovery!Daily \cup Recovery!Weekly
<1>0. /\ files' = [f \in DOMAIN files |-> [files[f] EXCEPT !.there = @ /\ f \in kept]]
      /\ gone' = gone \cup UNION {files[f].content.rows : f \in Recovery!There \ kept}
      /\ DOMAIN files = 1..Len(files) /\ Len(files) \in Nat
    BY DEF Recovery!Rotate
<1> HIDE DEF kept
<1>1. ASSUME NEW f \in 1..Len(files)
      PROVE  /\ files'[f] \in Recovery!File /\ files'[f].content = files[f].content
             /\ files[f].there /\ f \in kept => files'[f].there
             /\ files[f].there /\ f \notin kept => f \in Recovery!There \ kept
  <2>1. files[f] \in Recovery!File /\ files[f].there \in BOOLEAN
    <3>1. files[f] \in Recovery!File
        OBVIOUS
    <3> QED
        BY <3>1 DEF Recovery!File
  <2>2. files'[f] = [files[f] EXCEPT !.there = files[f].there /\ f \in kept]
      BY <1>0
  <2>3. (files[f].there /\ f \in kept) \in BOOLEAN
      BY <2>1
  <2>4. files'[f] \in Recovery!File /\ files'[f].content = files[f].content
        /\ files'[f].there = (files[f].there /\ f \in kept)
      BY <2>1, <2>2, <2>3 DEF Recovery!File
  <2> QED
      BY <1>0, <2>1, <2>4 DEF Recovery!There
<1>2. DOMAIN files' = DOMAIN files /\ files' = [f \in DOMAIN files |-> files'[f]]
    BY <1>0
<1>3. files' \in Seq(Recovery!File) /\ Len(files') = Len(files)
    BY <1>1, <1>2, FileChanged
<1>4. FilesKept
  <2>1. ASSUME NEW f \in 1..Len(files), NEW r \in files[f].content.rows, files[f].there
        PROVE  r \in gone' \/ (files'[f].there /\ r \in files'[f].content.rows)
    <3>1. CASE f \in kept
        BY <1>1, <2>1, <3>1
    <3>2. CASE f \notin kept
        BY <1>0, <1>1, <2>1, <3>2
    <3> QED
        BY <3>1, <3>2
  <2> QED
      BY <1>0, <1>3, <2>1 DEF FilesKept
<1>5. ASSUME NEW f \in Recovery!Daily PROVE files'[f].there
  <2>1. f \in 1..Len(files) /\ files[f].there
      BY <1>0 DEF Recovery!Daily, Recovery!There
  <2>2. f \in kept
      BY DEF kept
  <2> QED
      BY <1>1, <2>1, <2>2
<1> QED
    BY <1>3, <1>4, <1>5

\* What a step makes of the files.
LEMMA FilesNext ==
    ASSUME RecoveryInv, Recovery!Next
    PROVE  /\ files' \in Seq(Recovery!File) /\ Len(files') <= MaxFiles /\ FilesKept
           /\ Recovery!Rotate \/ ThereStays
<1>0. /\ files \in Seq(Recovery!File) /\ Len(files) \in Nat /\ Len(files) <= MaxFiles
      /\ live \in Recovery!Content /\ Alone
    BY DEF RecoveryInv, Recovery!TypeOK, Alone
<1>1. ASSUME files' = files, gone' = gone
      PROVE  files' \in Seq(Recovery!File) /\ Len(files') <= MaxFiles /\ FilesKept /\ ThereStays
    BY <1>0, <1>1 DEF FilesKept, ThereStays
<1>2. ASSUME files' = Recovery!Copied(live), gone' = gone, Len(files) < MaxFiles
      PROVE  files' \in Seq(Recovery!File) /\ Len(files') <= MaxFiles /\ FilesKept /\ ThereStays
  <2>1. /\ files' \in Seq(Recovery!File) /\ Len(files') = Len(files) + 1
        /\ \A f \in 1..Len(files) : files'[f] = files[f]
      BY <1>0, <1>2, CopiedIs
  <2> QED
      BY <1>0, <1>2, <2>1, RecoveryBounds DEF FilesKept, ThereStays
<1>3. ASSUME NEW g \in 1..Len(files), files' = [files EXCEPT ![g].manifest = files[g].there],
             gone' = gone
      PROVE  files' \in Seq(Recovery!File) /\ Len(files') <= MaxFiles /\ FilesKept /\ ThereStays
  <2>1. /\ files' \in Seq(Recovery!File) /\ Len(files') = Len(files)
        /\ \A f \in 1..Len(files) : files'[f].content = files[f].content
                                    /\ files'[f].there = files[f].there
      BY <1>0, <1>3, DescribedIs
  <2> QED
      BY <1>0, <1>3, <2>1 DEF FilesKept, ThereStays
<1>4. CASE Recovery!CopyBackup \/ Recovery!CopySafety
    BY <1>0, <1>2, <1>4 DEF Recovery!CopyBackup, Recovery!CopySafety, Recovery!Replaced, Alone
<1>5. CASE Recovery!DescribeBackup
  <2>1. making \in 1..Len(files)
      BY <1>0, <1>5, RecoveryBounds DEF Recovery!DescribeBackup, Alone, RecoveryInv, Recovery!TypeOK
  <2> QED
      BY <1>3, <1>5, <2>1 DEF Recovery!DescribeBackup
<1>6. CASE Recovery!DescribeSafety
  <2>1. Len(files) \in 1..Len(files)
      BY <1>0, <1>6 DEF Recovery!DescribeSafety, Alone
  <2> QED
      BY <1>3, <1>6, <2>1 DEF Recovery!DescribeSafety
<1>7. ASSUME NEW d \in 1..MaxFiles, Recovery!Damage(d)
      PROVE  files' \in Seq(Recovery!File) /\ Len(files') <= MaxFiles /\ FilesKept /\ ThereStays
    BY <1>0, <1>7, DamageFiles
<1>8. CASE Recovery!Rotate
    BY <1>0, <1>8, RotateFiles
<1>9. CASE \/ \E r \in Row : Recovery!WriteRow(r)
           \/ Recovery!Issue \/ Recovery!EnableOutbound \/ Recovery!StartStop
           \/ Recovery!BackupDies \/ \E f \in 1..MaxFiles : Recovery!VerifySource(f)
           \/ Recovery!CopySource \/ Recovery!Fence \/ Recovery!Replace \/ Recovery!RestoreDies
    BY <1>1, <1>9 DEF Recovery!WriteRow, Recovery!Issue, Recovery!EnableOutbound, Recovery!Served,
           Recovery!StartStop, Recovery!BackupDies, Recovery!VerifySource, Recovery!CopySource,
           Recovery!Fence, Recovery!Replace, Recovery!RestoreDies
<1> QED
    BY <1>4, <1>5, <1>6, <1>7, <1>8, <1>9 DEF Recovery!Next
------------------------------------------------------------------------------
(* Restores                                                                *)

\* A row that is in a file, or was, is so after any step.
LEMMA InFileStays ==
    ASSUME RecoveryInv, Recovery!Next, NEW r, r \in gone \/ InFile(r)
    PROVE  r \in gone' \/ InFile(r)'
<1>1. FilesKept /\ Len(files) \in Nat /\ Len(files') \in Nat
    BY FilesNext DEF RecoveryInv, Recovery!TypeOK
<1>2. CASE r \in gone
    BY <1>1, <1>2 DEF FilesKept
<1>3. ASSUME NEW f \in 1..Len(files), files[f].there, r \in files[f].content.rows
      PROVE  r \in gone' \/ InFile(r)'
  <2>1. f \in 1..Len(files')
      BY <1>1 DEF FilesKept
  <2> QED
      BY <1>1, <1>3, <2>1 DEF FilesKept, InFile
<1> QED
    BY <1>2, <1>3 DEF InFile

\* The server writes while no restore is under way.
LEMMA ServedKeeps ==
    ASSUME RecoveryInv,
           (\E r \in Row : Recovery!WriteRow(r)) \/ Recovery!Issue \/ Recovery!EnableOutbound
    PROVE  RecoveryInv' /\ live.rows \subseteq live'.rows /\ step = "idle"
<1>0. /\ live \in Recovery!Content /\ issued \in 0..MaxSessions /\ MaxSessions \in Nat
      /\ Recovery!TypeOK /\ Alone
    BY RecoveryBounds DEF RecoveryInv, Recovery!TypeOK
<1>1. /\ serving /\ UNCHANGED <<serving, files, making, step, source, temporary, epoch, gone>>
    BY DEF Recovery!WriteRow, Recovery!Issue, Recovery!EnableOutbound, Recovery!Served,
           Recovery!restoring
<1>2. step = "idle"
    BY <1>0, <1>1 DEF Alone
<1>3. live' \in Recovery!Content /\ live.rows \subseteq live'.rows /\ issued' \in 0..MaxSessions
  <2>1. ASSUME NEW r \in Row, Recovery!WriteRow(r)
        PROVE  live' \in Recovery!Content /\ live.rows \subseteq live'.rows /\ issued' = issued
      BY <1>0, <2>1 DEF Recovery!WriteRow, Recovery!Served, Recovery!Content
  <2>2. ASSUME Recovery!Issue
        PROVE  /\ live' \in Recovery!Content /\ live.rows \subseteq live'.rows
               /\ issued' \in 0..MaxSessions
    <3>1. issued + 1 \in 1..MaxSessions /\ issued' = issued + 1
        BY <1>0, <2>2 DEF Recovery!Issue
    <3>2. live' = [live EXCEPT !.sessions = @ \cup {issued + 1}]
        BY <2>2 DEF Recovery!Issue, Recovery!Served
    <3> QED
        BY <1>0, <3>1, <3>2 DEF Recovery!Content
  <2>3. ASSUME Recovery!EnableOutbound
        PROVE  live' \in Recovery!Content /\ live.rows \subseteq live'.rows /\ issued' = issued
      BY <1>0, <2>3 DEF Recovery!EnableOutbound, Recovery!Served, Recovery!Content
  <2> QED
      BY <1>0, <2>1, <2>2, <2>3
<1>4. Recovery!TypeOK'
    BY <1>0, <1>1, <1>3 DEF Recovery!TypeOK
<1>5. Alone'
    BY <1>0, <1>1 DEF Alone
<1>6. Saved' /\ FencedCopy'
    BY <1>1, <1>2 DEF Saved, FencedCopy, Copying
<1> QED
    BY <1>2, <1>3, <1>4, <1>5, <1>6 DEF RecoveryInv

\* A step that leaves the database and the restore alone.
LEMMA BackupKeeps ==
    ASSUME RecoveryInv, Recovery!Next,
           \/ Recovery!StartStop \/ Recovery!CopyBackup \/ Recovery!DescribeBackup
           \/ Recovery!BackupDies \/ Recovery!Rotate \/ \E f \in 1..MaxFiles : Recovery!Damage(f)
    PROVE  RecoveryInv' /\ live' = live
<1>0. /\ Recovery!TypeOK /\ Alone /\ Saved /\ FencedCopy
      /\ files' \in Seq(Recovery!File) /\ Len(files') <= MaxFiles /\ FilesKept
      /\ Len(files) \in Nat /\ Len(files') \in Nat
    BY FilesNext DEF RecoveryInv, Recovery!TypeOK
<1>1. UNCHANGED <<live, step, source, temporary, issued, epoch>>
    BY DEF Recovery!StartStop, Recovery!CopyBackup, Recovery!DescribeBackup,
           Recovery!BackupDies, Recovery!Rotate, Recovery!Damage, Recovery!restoring
<1>2. gone' \subseteq Row
  <2>1. ASSUME NEW f \in 1..Len(files) PROVE files[f].content.rows \subseteq Row
    <3>1. files[f] \in Recovery!File
        BY <1>0 DEF Recovery!TypeOK
    <3> QED
        BY <3>1 DEF Recovery!File, Recovery!Content
  <2>2. DOMAIN files = 1..Len(files)
      BY <1>0 DEF Recovery!TypeOK
  <2>3. gone \subseteq Row
      BY <1>0 DEF Recovery!TypeOK
  <2>4. CASE Recovery!Rotate
    <3>1. \A f \in Recovery!There : f \in 1..Len(files)
        BY <2>2 DEF Recovery!There
    <3>2. gone' = gone \cup UNION {files[f].content.rows :
                                    f \in Recovery!There \ (Recovery!Daily \cup Recovery!Weekly)}
        BY <2>4 DEF Recovery!Rotate
    <3> QED
        BY <2>1, <2>3, <3>1, <3>2
  <2>5. ASSUME NEW f \in 1..MaxFiles, Recovery!Damage(f) PROVE gone' \subseteq Row
    <3>1. f \in 1..Len(files) /\ gone' = gone \cup files[f].content.rows
        BY <2>2, <2>5 DEF Recovery!Damage
    <3> QED
        BY <2>1, <2>3, <3>1
  <2>6. CASE Recovery!StartStop \/ Recovery!CopyBackup \/ Recovery!DescribeBackup
             \/ Recovery!BackupDies
      BY <2>3, <2>6 DEF Recovery!StartStop, Recovery!CopyBackup, Recovery!DescribeBackup,
             Recovery!BackupDies
  <2> QED
      BY <2>4, <2>5, <2>6
<1>3. /\ making' \in 0..MaxFiles /\ serving' \in BOOLEAN
      /\ step # "idle" => ~serving' /\ making' = 0
      /\ making' # 0 => making' <= Len(files')
  <2>1. CASE Recovery!StartStop
      BY <1>0, <2>1 DEF Recovery!StartStop, Recovery!TypeOK, Alone
  <2>2. CASE Recovery!CopyBackup
    <3>1. Len(files') = Len(files) + 1
        BY <1>0, <2>2, CopiedIs DEF Recovery!CopyBackup, Recovery!TypeOK
    <3> QED
        BY <1>0, <2>2, <3>1, RecoveryBounds DEF Recovery!CopyBackup, Recovery!TypeOK, Alone
  <2>3. CASE Recovery!DescribeBackup \/ Recovery!BackupDies
      BY <1>0, <2>3, RecoveryBounds DEF Recovery!DescribeBackup, Recovery!BackupDies,
             Recovery!TypeOK, Alone
  <2>4. CASE Recovery!Rotate \/ \E f \in 1..MaxFiles : Recovery!Damage(f)
    <3>1. UNCHANGED <<making, serving>>
        BY <2>4 DEF Recovery!Rotate, Recovery!Damage
    <3>2. making \in Nat /\ Len(files) <= Len(files')
        BY <1>0, RecoveryBounds DEF Recovery!TypeOK, FilesKept
    <3> QED
        BY <1>0, <3>1, <3>2 DEF Recovery!TypeOK, Alone
  <2> QED
      BY <2>1, <2>2, <2>3, <2>4
<1>4. Recovery!TypeOK'
    BY <1>0, <1>1, <1>2, <1>3 DEF Recovery!TypeOK
<1>5. Saved'
    BY <1>0, <1>1, InFileStays DEF Saved
<1>6. FencedCopy'
    BY <1>0, <1>1 DEF FencedCopy
<1>7. step = "saving" => Len(files') > 0
    BY <1>0, <1>1 DEF Alone, FilesKept
<1>8. step = "verified" => Len(files') < MaxFiles
  <2> SUFFICES ASSUME step = "verified" PROVE Len(files') = Len(files)
      BY <1>0 DEF Alone
  <2>1. CASE Recovery!StartStop \/ Recovery!CopyBackup \/ Recovery!DescribeBackup
             \/ Recovery!BackupDies
      BY <1>0, <2>1 DEF Recovery!StartStop, Recovery!CopyBackup, Recovery!DescribeBackup,
             Recovery!BackupDies, Alone
  <2>2. CASE Recovery!Rotate \/ \E f \in 1..MaxFiles : Recovery!Damage(f)
      BY <1>0, <2>2, RotateFiles, DamageFiles DEF Recovery!TypeOK
  <2> QED
      BY <2>1, <2>2
<1>9. Alone'
    BY <1>0, <1>1, <1>3, <1>7, <1>8 DEF Alone
<1> QED
    BY <1>1, <1>4, <1>5, <1>6, <1>9 DEF RecoveryInv

\* The steps of a restore: it copies the database before it replaces it, and the copy that
\* replaces it is fenced.
LEMMA RestoreKeeps ==
    ASSUME RecoveryInv, Recovery!Next,
           \/ \E f \in 1..MaxFiles : Recovery!VerifySource(f)
           \/ Recovery!CopySafety \/ Recovery!DescribeSafety \/ Recovery!CopySource
           \/ Recovery!Fence \/ Recovery!Replace \/ Recovery!RestoreDies
    PROVE  /\ RecoveryInv'
           /\ \A r \in live.rows : r \in live'.rows \/ r \in gone' \/ InFile(r)'
           /\ step = "fenced" /\ live' # live => live'.fenced /\ live'.sessions = {}
<1>0. /\ Recovery!TypeOK /\ Alone /\ Saved /\ FencedCopy
      /\ files' \in Seq(Recovery!File) /\ Len(files') <= MaxFiles
      /\ Len(files) \in Nat /\ Len(files') \in Nat
    BY FilesNext DEF RecoveryInv, Recovery!TypeOK
<1>1. ASSUME NEW f \in 1..Len(files) PROVE files[f].content \in Recovery!Content
  <2>1. files[f] \in Recovery!File
      BY <1>0 DEF Recovery!TypeOK
  <2> QED
      BY <2>1 DEF Recovery!File
<1>2. DOMAIN files = 1..Len(files)
    BY <1>0 DEF Recovery!TypeOK
<1>3. ASSUME NEW f \in 1..MaxFiles, Recovery!VerifySource(f) PROVE RecoveryInv' /\ live' = live
  <2>1. /\ step = "idle" /\ ~serving /\ making = 0 /\ Len(files) < MaxFiles
        /\ f \in 1..Len(files) /\ step' = "verified" /\ temporary' = files[f].content
        /\ UNCHANGED <<live, serving, files, making, issued, epoch, gone, unseen>>
      BY <1>2, <1>3 DEF Recovery!VerifySource
  <2>2. Recovery!TypeOK'
      BY <1>0, <1>1, <2>1 DEF Recovery!TypeOK
  <2>3. Alone' /\ Saved' /\ FencedCopy'
      BY <1>0, <2>1 DEF Alone, Saved, FencedCopy, Copying
  <2> QED
      BY <2>1, <2>2, <2>3 DEF RecoveryInv
<1>4. CASE Recovery!CopySafety
  <2>1. /\ step = "verified" /\ step' = "saving" /\ files' = Recovery!Copied(live)
        /\ UNCHANGED <<live, serving, making, temporary, issued, epoch, gone, unseen>>
      BY <1>4 DEF Recovery!CopySafety, Recovery!Replaced
  <2>2. /\ Len(files') = Len(files) + 1
        /\ files'[Len(files) + 1].content = live /\ files'[Len(files) + 1].there
      BY <1>0, <2>1, CopiedIs DEF Recovery!TypeOK
  <2>3. Recovery!TypeOK'
      BY <1>0, <2>1 DEF Recovery!TypeOK
  <2>4. Saved'
    <3>1. Len(files) + 1 \in 1..Len(files')
        BY <1>0, <2>2
    <3> QED
        BY <2>1, <2>2, <3>1 DEF Saved, InFile
  <2>5. Alone' /\ FencedCopy'
      BY <1>0, <2>1, <2>2 DEF Alone, FencedCopy
  <2> QED
      BY <2>1, <2>3, <2>4, <2>5 DEF RecoveryInv
<1>5. CASE Recovery!DescribeSafety
  <2>1. /\ step = "saving" /\ step' = "saved"
        /\ files' = [files EXCEPT ![Len(files)].manifest = files[Len(files)].there]
        /\ UNCHANGED <<live, serving, making, temporary, issued, epoch, gone, unseen>>
      BY <1>5 DEF Recovery!DescribeSafety
  <2>2. Len(files) \in 1..Len(files)
      BY <1>0, <2>1 DEF Alone
  <2>3. Len(files') = Len(files)
      BY <1>0, <2>1, <2>2, DescribedIs DEF Recovery!TypeOK
  <2>4. Recovery!TypeOK'
      BY <1>0, <2>1 DEF Recovery!TypeOK
  <2>5. Saved'
      BY <1>0, <2>1, InFileStays DEF Saved, Copying
  <2>6. Alone' /\ FencedCopy'
      BY <1>0, <2>1, <2>3 DEF Alone, FencedCopy
  <2> QED
      BY <2>1, <2>4, <2>5, <2>6 DEF RecoveryInv
<1>6. ASSUME Recovery!CopySource \/ Recovery!Fence PROVE RecoveryInv' /\ live' = live
  <2>1. /\ step \in {"saved", "copied"} /\ step' \in {"copied", "fenced"}
        /\ UNCHANGED <<live, serving, files, making, issued, epoch, gone, unseen>>
      BY <1>6 DEF Recovery!CopySource, Recovery!Fence
  <2>2. /\ temporary' \in Recovery!Content
        /\ step' = "fenced" => temporary'.fenced /\ temporary'.sessions = {}
    <3>1. temporary \in Recovery!Content
        BY <1>0 DEF Recovery!TypeOK
    <3>2. CASE Recovery!CopySource
        BY <3>1, <3>2 DEF Recovery!CopySource, Recovery!SameAsVerified
    <3>3. CASE Recovery!Fence
        BY <3>1, <3>3 DEF Recovery!Fence, Recovery!Fenced, Recovery!Content
    <3> QED
        BY <1>6, <3>2, <3>3
  <2>3. Recovery!TypeOK'
      BY <1>0, <2>1, <2>2 DEF Recovery!TypeOK
  <2>4. Saved'
      BY <1>0, <2>1 DEF Saved, Copying, InFile
  <2>5. Alone' /\ FencedCopy'
      BY <1>0, <2>1, <2>2 DEF Alone, FencedCopy
  <2> QED
      BY <2>1, <2>3, <2>4, <2>5 DEF RecoveryInv
<1>7. ASSUME Recovery!Replace \/ Recovery!RestoreDies
      PROVE  /\ RecoveryInv' /\ UNCHANGED <<files, gone>>
             /\ live' # live => step = "fenced" /\ live' = temporary
  <2>1. /\ step' = "idle" /\ temporary' = Recovery!Empty /\ step # "idle"
        /\ live' # live => step = "fenced" /\ live' = temporary
        /\ UNCHANGED <<serving, files, making, issued, gone, unseen>>
      BY <1>7 DEF Recovery!Replace, Recovery!RestoreDies, Recovery!EndRestore
  <2>2. Recovery!Empty \in Recovery!Content
      BY DEF Recovery!Empty, Recovery!Content
  <2>3. Recovery!TypeOK'
      BY <1>0, <2>1, <2>2 DEF Recovery!TypeOK
  <2>4. Alone' /\ Saved' /\ FencedCopy'
      BY <1>0, <2>1 DEF Alone, Saved, FencedCopy, Copying
  <2> QED
      BY <2>1, <2>3, <2>4 DEF RecoveryInv
<1>8. ASSUME live' # live
      PROVE  /\ step = "fenced" /\ live'.fenced /\ live'.sessions = {}
             /\ \A r \in live.rows : r \in gone' \/ InFile(r)'
  <2>1. Recovery!Replace \/ Recovery!RestoreDies
      BY <1>3, <1>4, <1>5, <1>6, <1>8 DEF Recovery!CopySafety, Recovery!DescribeSafety
  <2>2. step = "fenced" /\ live' = temporary /\ UNCHANGED <<files, gone>>
      BY <1>7, <1>8, <2>1
  <2> QED
      BY <1>0, <2>2 DEF FencedCopy, Saved, Copying, InFile
<1> QED
    BY <1>3, <1>4, <1>5, <1>6, <1>7, <1>8
------------------------------------------------------------------------------
(* What every step keeps                                                   *)

LEMMA RecoveryNext ==
    ASSUME RecoveryInv, Recovery!Next
    PROVE  RecoveryInv' /\ Recovery!RowsKept /\ Recovery!FencedAtOnce /\ Recovery!NewestKept
<1>0. /\ files \in Seq(Recovery!File) /\ Len(files) \in Nat /\ DOMAIN files = 1..Len(files)
      /\ files' \in Seq(Recovery!File) /\ DOMAIN files' = 1..Len(files')
      /\ Recovery!Rotate \/ ThereStays
    BY FilesNext DEF RecoveryInv, Recovery!TypeOK
<1>1. /\ RecoveryInv'
      /\ \A r \in live.rows : r \in live'.rows \/ r \in gone' \/ InFile(r)'
      /\ step = "fenced" /\ live' # live => live'.fenced /\ live'.sessions = {}
  <2>1. CASE (\E r \in Row : Recovery!WriteRow(r)) \/ Recovery!Issue \/ Recovery!EnableOutbound
      BY <2>1, ServedKeeps
  <2>2. CASE \/ Recovery!StartStop \/ Recovery!CopyBackup \/ Recovery!DescribeBackup
             \/ Recovery!BackupDies \/ Recovery!Rotate
             \/ \E f \in 1..MaxFiles : Recovery!Damage(f)
      BY <2>2, BackupKeeps
  <2>3. CASE \/ \E f \in 1..MaxFiles : Recovery!VerifySource(f)
             \/ Recovery!CopySafety \/ Recovery!DescribeSafety \/ Recovery!CopySource
             \/ Recovery!Fence \/ Recovery!Replace \/ Recovery!RestoreDies
      BY <2>3, RestoreKeeps
  <2> QED
      BY <2>1, <2>2, <2>3 DEF Recovery!Next
<1>2. Recovery!RowsKept
    BY <1>0, <1>1 DEF Recovery!RowsKept, InFile
<1>3. Recovery!FencedAtOnce
    BY <1>1 DEF Recovery!FencedAtOnce
<1>4. Recovery!NewestKept
  <2> SUFFICES ASSUME Recovery!Described # {}, KeepDaily > 0
               PROVE  \E f \in Recovery!Described :
                          (\A g \in Recovery!Described : g <= f) /\ files'[f].there
      BY DEF Recovery!NewestKept
  <2>1. PICK f \in Recovery!Described : \A g \in Recovery!Described : g <= f
    <3>1. Recovery!Described \subseteq 1..Len(files)
        BY <1>0 DEF Recovery!Described, Recovery!There
    <3>2. IsFiniteSet(1..Len(files))
        BY <1>0, FS_Interval
    <3>3. IsFiniteSet(Recovery!Described)
        BY <3>1, <3>2, FS_Subset
    <3>4. Recovery!Described \in SUBSET Nat
        BY <3>1
    <3> HIDE DEF Recovery!Described
    <3> QED
        BY <3>3, <3>4, HasGreatest
  <2>2. f \in 1..Len(files) /\ files[f].there /\ files[f].manifest /\ f \in Recovery!There
      BY <1>0 DEF Recovery!Described, Recovery!There
  <2>3. CASE ThereStays
      BY <2>1, <2>2, <2>3 DEF ThereStays
  <2>4. CASE Recovery!Rotate
    <3>1. {g \in Recovery!There : Recovery!Newer(g, f)} = {}
      <4>1. ASSUME NEW g \in Recovery!There, Recovery!Newer(g, f) PROVE FALSE
        <5>1. files[g].manifest /\ g > f
            BY <2>2, <4>1 DEF Recovery!Newer
        <5>2. g \in Recovery!Described /\ g \in 1..Len(files)
            BY <1>0, <5>1 DEF Recovery!Described, Recovery!There
        <5> QED
            BY <2>1, <2>2, <5>1, <5>2
      <4> QED
          BY <4>1
    <3>2. Recovery!Rank(f) = 0
      <4>1. Recovery!Cardinality({}) = Cardinality({})
          BY DEF Recovery!Cardinality, Cardinality
      <4> QED
          BY <3>1, <4>1, FS_EmptySet DEF Recovery!Rank
    <3>3. f \in Recovery!Daily
        BY <2>2, <3>2, RecoveryBounds DEF Recovery!Daily
    <3> QED
        BY <1>0, <2>1, <2>4, <3>3, RotateFiles
  <2> QED
      BY <1>0, <2>3, <2>4
<1> QED
    BY <1>1, <1>2, <1>3, <1>4

RecoveryPartInv == part = "recovery" => RecoveryInv

\* However often it is backed up, damaged, rotated and restored, and wherever a restore dies,
\* the database and its files stay in the states RecoveryInv describes (restore_backup).
THEOREM RecoveryInvariance == SideBySide => []RecoveryPartInv
<1>1. StartAll => RecoveryPartInv
    BY RecoveryInit DEF StartAll, RecoveryPartInv
<1>2. RecoveryPartInv /\ [StepOne]_allVars => RecoveryPartInv'
  <2> SUFFICES ASSUME RecoveryPartInv, [StepOne]_allVars, part' = "recovery" PROVE RecoveryInv'
      BY DEF RecoveryPartInv
  <2>1. part = "recovery" /\ (Recovery!Next \/ UNCHANGED RecoveryVars)
      BY DEF StepOne, allVars
  <2>2. CASE UNCHANGED RecoveryVars
      BY <2>1, <2>2 DEF RecoveryVars, RecoveryPartInv, RecoveryInv, Recovery!TypeOK, Alone, Saved,
             InFile, FencedCopy
  <2> QED
      BY <2>1, <2>2, RecoveryNext DEF RecoveryPartInv
<1> QED
    BY <1>1, <1>2, PTL DEF SideBySide

\* A restore or a rotation, wherever it stops, loses no committed row, a restored database is
\* fenced when it is there, and the newest described backup is kept (restore_backup,
\* rotate_backups).
THEOREM RecoveryIsSafeHolds == SideBySide => RecoveryIsSafe
<1>1. RecoveryPartInv /\ [StepOne]_allVars =>
        [part = "recovery" =>
            Recovery!RowsKept /\ Recovery!FencedAtOnce /\ Recovery!NewestKept]_allVars
  <2> SUFFICES ASSUME RecoveryPartInv, StepOne, part = "recovery"
               PROVE  Recovery!RowsKept /\ Recovery!FencedAtOnce /\ Recovery!NewestKept
      OBVIOUS
  <2> QED
      BY RecoveryNext DEF StepOne, RecoveryPartInv
<1> QED
    BY <1>1, RecoveryInvariance, PTL DEF SideBySide, RecoveryIsSafe
------------------------------------------------------------------------------
(* Connector synchronization                                               *)

\* A session with an event in hand.
InHand == {"take", "leased", "failing", "failWrite"}
\* A session whose page is recorded and not yet completed.
OnPage == {"drain", "take", "leased", "failing", "failWrite", "complete"}
Final == {"ingested", "quarantined"}

HandsFull == \A s \in Session : pc[s] \in InHand => ev[s] \in Event

\* A row that is as its session read it can still be leased, or is the session's to fail.
RowsAsRead ==
    \A s \in sure :
        \/ pc[s] = "take" /\ status[ev[s]] \in {"pending", "failed", "leased"}
        \/ pc[s] = "failWrite" /\ status[ev[s]] = "leased"

Counted == \A e \in Event : ingests[e] = IF status[e] = "ingested" THEN 1 ELSE 0

\* The session with the reservation works at the cursor, with the last batch as its own.
Ours ==
    \A s \in Session : reserver = s =>
        /\ pc[s] \in {"pulled"} \cup OnPage => syncAt[s] = cursor
        /\ pc[s] \in OnPage =>
              /\ own[s] = Len(batches) /\ own[s] > 0
              /\ batches[own[s]].state = "pending"
              /\ batches[own[s]].version = version
              /\ batches[own[s]].after = Sync!Following(cursor)
              /\ batches[own[s]].events = EventsOf[cursor]

SyncEvents == HandsFull /\ RowsAsRead /\ Counted
SyncInv == Sync!TypeOK /\ SyncEvents /\ Ours /\ Sync!NothingSkipped

\* The bounds are numbers, and NoSession is no session.
LEMMA SyncBounds ==
    /\ NoSession \notin Session
    /\ Pages \in Nat /\ Pages > 0 /\ Event \subseteq Nat /\ 0 \notin Event
    /\ EventsOf \in [0..Pages -> SUBSET Event] /\ EventsOf[Pages] = {}
    /\ MaxPulls \in Nat /\ MaxJobs \in Nat /\ MaxTakeovers \in Nat
    /\ MaxRotations \in Nat /\ MaxCrashes \in Nat /\ MaxAttempts \in Nat
BY SyncAssumption DEF Sync!ConnectorSyncAssumption

LEMMA SyncInit == Sync!Init => SyncInv
<1> SUFFICES ASSUME Sync!Init PROVE SyncInv
    OBVIOUS
<1>1. /\ 0 \in 0..MaxJobs /\ 0 \in 0..Pages /\ 0 \in 0..MaxPulls
      /\ 0 \in 0..MaxTakeovers /\ 0 \in 0..MaxRotations /\ 0 \in 0..MaxCrashes
    BY SyncBounds
<1>2. batches \in Seq(Sync!Batch)
    BY DEF Sync!Init
<1>3. Sync!TypeOK
    BY <1>1, <1>2 DEF Sync!Init, Sync!TypeOK
<1>4. SyncEvents
    BY DEF Sync!Init, SyncEvents, HandsFull, RowsAsRead, Counted, InHand
<1>5. Ours
    BY DEF Sync!Init, Ours, OnPage
<1>6. Sync!NothingSkipped
    BY DEF Sync!Init, Sync!NothingSkipped
<1> QED
    BY <1>3, <1>4, <1>5, <1>6 DEF SyncInv
------------------------------------------------------------------------------
(* Types                                                                   *)

\* The page that a session records.
LEMMA RecordTypes ==
    ASSUME Sync!TypeOK, NEW s \in Session, Sync!Record(s)
    PROVE  Sync!TypeOK'
<1>1. CASE Sync!Fenced(s)
  <2> DEFINE events == EventsOf[syncAt[s]]
             new == {e \in events : Sync!Unknown(e)}
             batch == [version |-> version, after |-> Sync!Following(syncAt[s]),
                       events |-> events, staged |-> IF Routed THEN new ELSE {},
                       state |-> "pending"]
  <2>1. /\ Len(batches) < MaxPulls /\ batches' = Append(batches, batch)
        /\ status' = [e \in Event |-> IF e \in new THEN "pending" ELSE status[e]]
        /\ lapsed' = lapsed \ new /\ own' = [own EXCEPT ![s] = Len(batches) + 1]
        /\ UNCHANGED <<cursor, version, tries, owner, ingests>>
        /\ pc' = [pc EXCEPT ![s] = "drain"]
        /\ UNCHANGED <<jobs, job, holder, reserver, fresh, mine, syncAt, ev, sure,
                       takeovers, rotations, syncCrashes>>
      BY <1>1 DEF Sync!Record, Sync!RecordPull, Sync!ExpectedVersion, Sync!Goto, Sync!queue,
                  Sync!fences, Sync!bounds
  <2>2. syncAt[s] \in 0..Pages /\ version \in Nat /\ batches \in Seq(Sync!Batch)
      BY DEF Sync!TypeOK
  <2>3. events \subseteq Event /\ new \subseteq Event /\ Sync!Following(syncAt[s]) \in 0..Pages
      BY <2>2, SyncBounds DEF Sync!Following
  <2>4. batch \in Sync!Batch
      BY <2>2, <2>3 DEF Sync!Batch
  <2> HIDE DEF batch
  <2>5. batches' \in Seq(Sync!Batch) /\ Len(batches) + 1 \in 0..MaxPulls
      BY <2>1, <2>2, <2>4, SyncBounds
  <2> HIDE DEF new, events
  <2> QED
      BY <2>1, <2>3, <2>5 DEF Sync!TypeOK
<1>2. CASE ~Sync!Fenced(s)
    BY <1>2 DEF Sync!Record, Sync!Goto, Sync!TypeOK, Sync!queue, Sync!fences, Sync!stream,
                Sync!inbox, Sync!bounds
<1> QED
    BY <1>1, <1>2

\* What the session that completes a batch makes of the batches.
LEMMA CompleteTypes ==
    ASSUME SyncInv, NEW s \in Session, Sync!Complete(s)
    PROVE  /\ Sync!TypeOK'
           /\ Sync!Completable(s) =>
                 /\ reserver = s /\ syncAt[s] = cursor
                 /\ cursor' = Sync!Following(cursor)
                 /\ syncAt' = [syncAt EXCEPT ![s] = cursor']
                 /\ \A e \in EventsOf[cursor] : status[e] \in Final
<1>1. CASE Sync!Completable(s)
  <2> DEFINE done == Sync!ToComplete(s)
             last == CHOOSE i \in done : \A j \in done : j <= i
             o == own[s]
             before == {j \in done : j < o}
  <2>1. /\ reserver = s /\ pc[s] = "complete"
        /\ o = Len(batches) /\ o > 0 /\ batches[o].state = "pending"
        /\ batches[o].version = version /\ syncAt[s] = cursor
        /\ batches[o].after = Sync!Following(cursor)
        /\ batches[o].events = EventsOf[cursor]
      BY <1>1 DEF Sync!Complete, Sync!Completable, Sync!Fenced, SyncInv, Ours, OnPage
  <2>2. batches \in Seq(Sync!Batch) /\ version \in Nat /\ cursor \in 0..Pages
      BY DEF SyncInv, Sync!TypeOK
  <2>3. o \in done /\ done \subseteq 1..Len(batches) /\ o \in Nat
      BY <2>1, <2>2 DEF Sync!ToComplete
  <2>4. IsFiniteSet(before)
    <3>1. IsFiniteSet(1..Len(batches))
        BY <2>2, FS_Interval
    <3>2. before \subseteq 1..Len(batches)
        BY <2>3
    <3> QED
        BY <3>1, <3>2, FS_Subset
  <2>5. version = version + Cardinality(before)
    <3>1. Sync!Cardinality(before) = Cardinality(before)
        BY DEF Sync!Cardinality, Cardinality
    <3>2. version = version + Sync!Cardinality(before)
        BY <1>1, <2>1, <2>3 DEF Sync!Completable, Sync!InTurn
    <3> QED
        BY <3>1, <3>2
  <2>6. before = {}
    <3>1. Cardinality(before) \in Nat
        BY <2>4, FS_CardinalityType
    <3>2. Cardinality(before) = 0
        BY <2>2, <2>5, <3>1
    <3> QED
        BY <2>4, <3>2, FS_EmptySet
  <2>7. done = {o}
    <3>1. ASSUME NEW j \in done PROVE j = o
      <4>1. j \in 1..Len(batches) /\ ~(j < o)
          BY <2>3, <2>6
      <4> QED
          BY <2>1, <2>3, <4>1
    <3> QED
        BY <2>3, <3>1
  <2>8. last = o
      BY <2>3, <2>7
  <2>9. Sync!Cardinality(done) \in Nat
    <3>1. Sync!Cardinality(done) = Cardinality(done)
        BY DEF Sync!Cardinality, Cardinality
    <3>2. Cardinality(done) = 1
        BY <2>7, FS_Singleton
    <3> QED
        BY <3>1, <3>2
  <2>10. /\ cursor' = batches[last].after
         /\ version' = version + Sync!Cardinality(done)
         /\ batches' = [i \in DOMAIN batches |->
                IF i \in done THEN [batches[i] EXCEPT !.state = "completed"] ELSE batches[i]]
         /\ syncAt' = [syncAt EXCEPT ![s] = Sync!Following(@)]
         /\ pc' = [pc EXCEPT ![s] = IF Sync!HasMore(syncAt[s]) THEN "pulled" ELSE "finish"]
         /\ UNCHANGED <<jobs, job, holder, reserver, fresh, status, tries, owner, lapsed,
                        ingests, mine, own, ev, sure, takeovers, rotations, syncCrashes>>
      BY <1>1 DEF Sync!Complete, Sync!Goto, Sync!queue, Sync!fences, Sync!inbox, Sync!bounds
  <2>11. batches' \in Seq(Sync!Batch)
    <3>1. ASSUME NEW i \in 1..Len(batches) PROVE batches'[i] \in Sync!Batch
      <4>1. batches[i] \in Sync!Batch
          BY <2>2
      <4>2. [batches[i] EXCEPT !.state = "completed"] \in Sync!Batch
          BY <4>1 DEF Sync!Batch
      <4>3. i \in DOMAIN batches
          BY <2>2
      <4>4. batches'[i] = IF i \in done THEN [batches[i] EXCEPT !.state = "completed"]
                          ELSE batches[i]
          BY <2>10, <4>3
      <4> QED
          BY <4>1, <4>2, <4>4
    <3>2. Len(batches) \in Nat /\ DOMAIN batches = 1..Len(batches)
        BY <2>2
    <3>3. DOMAIN batches' = 1..Len(batches)
        BY <2>10, <3>2
    <3>4. batches' = [i \in 1..Len(batches) |-> batches'[i]]
        BY <2>10, <3>2
    <3> QED
        BY <3>1, <3>2, <3>4
  <2> HIDE DEF done, last
  <2>12. Sync!Following(cursor) \in 0..Pages
      BY <2>2, SyncBounds DEF Sync!Following
  <2>13. cursor' = Sync!Following(cursor) /\ syncAt' = [syncAt EXCEPT ![s] = cursor']
      BY <2>1, <2>8, <2>10
  <2>14. \A e \in EventsOf[cursor] : status[e] \in Final
    <3>1. Sync!Processed(batches[o])
        BY <1>1, <2>3 DEF Sync!Completable, done
    <3> QED
        BY <2>1, <3>1 DEF Sync!Processed, Sync!Finished, Final
  <2>15. version' \in Nat
      BY <2>2, <2>9, <2>10
  <2>16. pc' \in [Session -> {"idle", "claimed", "resumed", "read", "pulled", "drain", "take",
                             "leased", "failing", "failWrite", "complete", "finish",
                             "succeed", "retry", "fatal"}]
    <3>1. (IF Sync!HasMore(syncAt[s]) THEN "pulled" ELSE "finish") \in {"pulled", "finish"}
        OBVIOUS
    <3> QED
        BY <2>10, <3>1 DEF SyncInv, Sync!TypeOK
  <2>17. syncAt' \in [Session -> 0..Pages]
      BY <2>12, <2>13 DEF SyncInv, Sync!TypeOK
  <2>18. Sync!TypeOK'
      BY <2>10, <2>11, <2>12, <2>13, <2>15, <2>16, <2>17 DEF SyncInv, Sync!TypeOK
  <2> QED
      BY <2>1, <2>13, <2>14, <2>18
<1>2. CASE ~Sync!Completable(s)
    BY <1>2 DEF Sync!Complete, Sync!Goto, SyncInv, Sync!TypeOK, Sync!queue, Sync!fences,
                Sync!stream, Sync!inbox, Sync!bounds
<1> QED
    BY <1>1, <1>2

\* The types, by what they are about.
Steps == {"idle", "claimed", "resumed", "read", "pulled", "drain", "take", "leased", "failing",
          "failWrite", "complete", "finish", "succeed", "retry", "fatal"}
QueueTypes ==
    /\ jobs \in 0..MaxJobs /\ job \in {"queued", "leased", "ended"}
    /\ holder \in Session \cup {NoSession} /\ reserver \in Session \cup {NoSession}
    /\ fresh \subseteq Session
    /\ takeovers \in 0..MaxTakeovers /\ rotations \in 0..MaxRotations
    /\ syncCrashes \in 0..MaxCrashes
StreamTypes == cursor \in 0..Pages /\ version \in Nat /\ batches \in Seq(Sync!Batch)
InboxTypes ==
    /\ status \in [Event -> {"absent", "pending", "leased", "failed", "ingested", "quarantined"}]
    /\ tries \in [Event -> Nat] /\ ingests \in [Event -> Nat]
    /\ owner \in [Event -> Session \cup {NoSession}]
    /\ lapsed \subseteq {e \in Event : status[e] = "leased"}
SessionTypes ==
    /\ pc \in [Session -> Steps]
    /\ mine \in [Session -> 0..MaxJobs] /\ syncAt \in [Session -> 0..Pages]
    /\ own \in [Session -> 0..MaxPulls] /\ ev \in [Session -> Event \cup {0}]
    /\ sure \subseteq Session

LEMMA TypesSplit ==
    /\ Sync!TypeOK <=> QueueTypes /\ StreamTypes /\ InboxTypes /\ SessionTypes
    /\ Sync!TypeOK' <=> QueueTypes' /\ StreamTypes' /\ InboxTypes' /\ SessionTypes'
BY DEF Sync!TypeOK, QueueTypes, StreamTypes, InboxTypes, SessionTypes, Steps

\* The steps that handle an event.
LEMMA StepTypes ==
    ASSUME SyncInv, NEW s \in Session,
           Sync!Look(s) \/ Sync!Take(s) \/ Sync!Ingest(s) \/ Sync!FailWrite(s)
    PROVE  Sync!TypeOK'
<1> USE DEF Sync!queue, Sync!fences, Sync!stream, Sync!inbox, Sync!session, Sync!bounds
<1>0. QueueTypes /\ StreamTypes /\ InboxTypes /\ SessionTypes /\ HandsFull /\ RowsAsRead
    BY TypesSplit DEF SyncInv, SyncEvents
<1>1. CASE Sync!Look(s)
  <2>1. QueueTypes'
      BY <1>0, <1>1 DEF Sync!Look, Sync!Goto, QueueTypes
  <2>2. StreamTypes'
      BY <1>0, <1>1 DEF Sync!Look, Sync!Goto, StreamTypes
  <2>3. InboxTypes'
      BY <1>0, <1>1 DEF Sync!Look, Sync!Goto, InboxTypes
  <2>4. SessionTypes'
      BY <1>0, <1>1 DEF Sync!Look, Sync!Goto, SessionTypes, Steps
  <2> QED
      BY <2>1, <2>2, <2>3, <2>4, TypesSplit
<1>2. CASE Sync!Take(s)
  <2>1. QueueTypes'
      BY <1>0, <1>2 DEF Sync!Take, Sync!Goto, Sync!Touch, QueueTypes
  <2>2. StreamTypes'
      BY <1>0, <1>2 DEF Sync!Take, Sync!Goto, Sync!Touch, StreamTypes
  <2>3. InboxTypes'
      BY <1>0, <1>2 DEF Sync!Take, Sync!Goto, Sync!Touch, InboxTypes, HandsFull, InHand
  <2>4. SessionTypes'
      BY <1>0, <1>2 DEF Sync!Take, Sync!Goto, Sync!Touch, SessionTypes, HandsFull, InHand, Steps
  <2> QED
      BY <2>1, <2>2, <2>3, <2>4, TypesSplit
<1>3. CASE Sync!Ingest(s)
  <2>1. QueueTypes'
      BY <1>0, <1>3 DEF Sync!Ingest, Sync!Goto, Sync!Touch, QueueTypes
  <2>2. StreamTypes'
      BY <1>0, <1>3 DEF Sync!Ingest, Sync!Goto, Sync!Touch, StreamTypes
  <2>3. InboxTypes'
      BY <1>0, <1>3 DEF Sync!Ingest, Sync!Goto, Sync!Touch, InboxTypes, Sync!Leased, HandsFull, InHand
  <2>4. SessionTypes'
      BY <1>0, <1>3 DEF Sync!Ingest, Sync!Goto, Sync!Touch, SessionTypes, Sync!Leased, HandsFull, InHand, Steps
  <2> QED
      BY <2>1, <2>2, <2>3, <2>4, TypesSplit
<1>4. CASE Sync!FailWrite(s)
  <2>1. QueueTypes'
      BY <1>0, <1>4 DEF Sync!FailWrite, Sync!Goto, Sync!Touch, QueueTypes
  <2>2. StreamTypes'
      BY <1>0, <1>4 DEF Sync!FailWrite, Sync!Goto, Sync!Touch, StreamTypes
  <2>3. InboxTypes'
      BY <1>0, <1>4 DEF Sync!FailWrite, Sync!Goto, Sync!Touch, InboxTypes, HandsFull, InHand
  <2>4. SessionTypes'
      BY <1>0, <1>4 DEF Sync!FailWrite, Sync!Goto, Sync!Touch, SessionTypes, HandsFull, InHand, Steps
  <2> QED
      BY <2>1, <2>2, <2>3, <2>4, TypesSplit
<1> QED
    BY <1>1, <1>2, <1>3, <1>4

LEMMA SyncTypes ==
    ASSUME SyncInv, Sync!Next
    PROVE  Sync!TypeOK'
<1> USE DEF Sync!queue, Sync!fences, Sync!stream, Sync!inbox, Sync!session, Sync!bounds
<1>0. QueueTypes /\ StreamTypes /\ InboxTypes /\ SessionTypes
    BY TypesSplit DEF SyncInv
<1>1. CASE Sync!Enqueue \/ Sync!Cancel \/ Sync!Rotate
  <2>1. QueueTypes'
      BY <1>0, <1>1, SyncBounds DEF Sync!Enqueue, Sync!Cancel, Sync!EndJob, Sync!Rotate, QueueTypes
  <2>2. StreamTypes' /\ InboxTypes' /\ SessionTypes'
      BY <1>0, <1>1 DEF Sync!Enqueue, Sync!Cancel, Sync!Rotate, StreamTypes, InboxTypes,
                        SessionTypes
  <2> QED
      BY <2>1, <2>2, TypesSplit
<1>2. CASE \E e \in Event : Sync!LeaseLapses(e)
    BY SMTT(30), <1>0, <1>2, TypesSplit DEF Sync!LeaseLapses, QueueTypes, StreamTypes, InboxTypes, SessionTypes
<1>3. ASSUME NEW s \in Session, Sync!Sync(s) \/ Sync!Crash(s) PROVE Sync!TypeOK'
  <2>1. CASE Sync!ClaimJob(s)
    <3>1. QueueTypes'
        BY <1>0, SyncBounds, <2>1 DEF Sync!ClaimJob, Sync!Goto, QueueTypes
    <3>2. StreamTypes'
        BY <1>0, <2>1 DEF Sync!ClaimJob, Sync!Goto, StreamTypes
    <3>3. InboxTypes'
        BY <1>0, <2>1 DEF Sync!ClaimJob, Sync!Goto, InboxTypes
    <3>4. SessionTypes'
        BY <1>0, SyncBounds, <2>1 DEF Sync!ClaimJob, Sync!Goto, QueueTypes, SessionTypes, Steps
    <3> QED
        BY <3>1, <3>2, <3>3, <3>4, TypesSplit
  <2>2. CASE Sync!Resume(s)
    <3>1. QueueTypes'
        BY <1>0, SyncBounds, <2>2 DEF Sync!Resume, Sync!Goto, QueueTypes
    <3>2. StreamTypes'
        BY <1>0, <2>2 DEF Sync!Resume, Sync!Goto, StreamTypes
    <3>3. InboxTypes'
        BY <1>0, <2>2 DEF Sync!Resume, Sync!Goto, InboxTypes
    <3>4. SessionTypes'
        BY <1>0, SyncBounds, <2>2 DEF Sync!Resume, Sync!Goto, SessionTypes, Steps
    <3> QED
        BY <3>1, <3>2, <3>3, <3>4, TypesSplit
  <2>3. CASE Sync!Refuse(s)
    <3>1. QueueTypes'
        BY <1>0, SyncBounds, <2>3 DEF Sync!Refuse, Sync!Goto, QueueTypes
    <3>2. StreamTypes'
        BY <1>0, <2>3 DEF Sync!Refuse, Sync!Goto, StreamTypes
    <3>3. InboxTypes'
        BY <1>0, <2>3 DEF Sync!Refuse, Sync!Goto, InboxTypes
    <3>4. SessionTypes'
        BY <1>0, SyncBounds, <2>3 DEF Sync!Refuse, Sync!Goto, SessionTypes, Steps
    <3> QED
        BY <3>1, <3>2, <3>3, <3>4, TypesSplit
  <2>4. CASE Sync!Open(s)
    <3>1. QueueTypes'
        BY <1>0, SyncBounds, <2>4 DEF Sync!Open, Sync!Goto, QueueTypes
    <3>2. StreamTypes'
        BY <1>0, <2>4 DEF Sync!Open, Sync!Goto, StreamTypes
    <3>3. InboxTypes'
        BY <1>0, <2>4 DEF Sync!Open, Sync!Goto, InboxTypes
    <3>4. SessionTypes'
        BY <1>0, SyncBounds, <2>4 DEF Sync!Open, Sync!Goto, SessionTypes, Steps
    <3> QED
        BY <3>1, <3>2, <3>3, <3>4, TypesSplit
  <2>5. CASE Sync!ReadCursor(s)
    <3>1. QueueTypes'
        BY <1>0, SyncBounds, <2>5 DEF Sync!ReadCursor, Sync!Goto, QueueTypes
    <3>2. StreamTypes'
        BY <1>0, <2>5 DEF Sync!ReadCursor, Sync!Goto, StreamTypes
    <3>3. InboxTypes'
        BY <1>0, <2>5 DEF Sync!ReadCursor, Sync!Goto, InboxTypes
    <3>4. SessionTypes'
        BY <1>0, SyncBounds, <2>5 DEF Sync!ReadCursor, Sync!Goto, StreamTypes, SessionTypes, Steps
    <3> QED
        BY <3>1, <3>2, <3>3, <3>4, TypesSplit
  <2>6. CASE Sync!PullFails(s)
    <3>1. QueueTypes'
        BY <1>0, SyncBounds, <2>6 DEF Sync!PullFails, Sync!Goto, QueueTypes
    <3>2. StreamTypes'
        BY <1>0, <2>6 DEF Sync!PullFails, Sync!Goto, StreamTypes
    <3>3. InboxTypes'
        BY <1>0, <2>6 DEF Sync!PullFails, Sync!Goto, InboxTypes
    <3>4. SessionTypes'
        BY <1>0, SyncBounds, <2>6 DEF Sync!PullFails, Sync!Goto, SessionTypes, Steps
    <3> QED
        BY <3>1, <3>2, <3>3, <3>4, TypesSplit
  <2>7. CASE Sync!IngestFails(s)
    <3>1. QueueTypes'
        BY <1>0, SyncBounds, <2>7 DEF Sync!IngestFails, Sync!Goto, QueueTypes
    <3>2. StreamTypes'
        BY <1>0, <2>7 DEF Sync!IngestFails, Sync!Goto, StreamTypes
    <3>3. InboxTypes'
        BY <1>0, <2>7 DEF Sync!IngestFails, Sync!Goto, InboxTypes
    <3>4. SessionTypes'
        BY <1>0, SyncBounds, <2>7 DEF Sync!IngestFails, Sync!Goto, SessionTypes, Steps
    <3> QED
        BY <3>1, <3>2, <3>3, <3>4, TypesSplit
  <2>8. CASE Sync!FailLook(s)
    <3>1. QueueTypes'
        BY <1>0, SyncBounds, <2>8 DEF Sync!FailLook, Sync!Goto, QueueTypes
    <3>2. StreamTypes'
        BY <1>0, <2>8 DEF Sync!FailLook, Sync!Goto, StreamTypes
    <3>3. InboxTypes'
        BY <1>0, <2>8 DEF Sync!FailLook, Sync!Goto, InboxTypes
    <3>4. SessionTypes'
        BY <1>0, SyncBounds, <2>8 DEF Sync!FailLook, Sync!Goto, SessionTypes, Steps
    <3> QED
        BY <3>1, <3>2, <3>3, <3>4, TypesSplit
  <2>9. CASE Sync!Finish(s)
    <3>1. QueueTypes'
        BY <1>0, SyncBounds, <2>9 DEF Sync!Finish, Sync!Goto, QueueTypes
    <3>2. StreamTypes'
        BY <1>0, <2>9 DEF Sync!Finish, Sync!Goto, StreamTypes
    <3>3. InboxTypes'
        BY <1>0, <2>9 DEF Sync!Finish, Sync!Goto, InboxTypes
    <3>4. SessionTypes'
        BY <1>0, SyncBounds, <2>9 DEF Sync!Finish, Sync!Goto, SessionTypes, Steps
    <3> QED
        BY <3>1, <3>2, <3>3, <3>4, TypesSplit
  <2>10. CASE Sync!Succeed(s)
    <3>1. QueueTypes'
        BY <1>0, SyncBounds, <2>10 DEF Sync!Succeed, Sync!Leave, Sync!Goto, Sync!EndJob, QueueTypes
    <3>2. StreamTypes'
        BY <1>0, <2>10 DEF Sync!Succeed, Sync!Leave, Sync!Goto, Sync!EndJob, StreamTypes
    <3>3. InboxTypes'
        BY <1>0, <2>10 DEF Sync!Succeed, Sync!Leave, Sync!Goto, Sync!EndJob, InboxTypes
    <3>4. SessionTypes'
        BY <1>0, SyncBounds, <2>10 DEF Sync!Succeed, Sync!Leave, Sync!Goto, Sync!EndJob, SessionTypes, Steps
    <3> QED
        BY <3>1, <3>2, <3>3, <3>4, TypesSplit
  <2>11. CASE Sync!FailJob(s)
    <3>1. QueueTypes'
        BY <1>0, SyncBounds, <2>11 DEF Sync!FailJob, Sync!Leave, Sync!Goto, Sync!EndJob, QueueTypes
    <3>2. StreamTypes'
        BY <1>0, <2>11 DEF Sync!FailJob, Sync!Leave, Sync!Goto, Sync!EndJob, StreamTypes
    <3>3. InboxTypes'
        BY <1>0, <2>11 DEF Sync!FailJob, Sync!Leave, Sync!Goto, Sync!EndJob, InboxTypes
    <3>4. SessionTypes'
        BY <1>0, SyncBounds, <2>11 DEF Sync!FailJob, Sync!Leave, Sync!Goto, Sync!EndJob, SessionTypes, Steps
    <3> QED
        BY <3>1, <3>2, <3>3, <3>4, TypesSplit
  <2>12. CASE Sync!Crash(s)
    <3>1. QueueTypes'
        BY <1>0, SyncBounds, <2>12 DEF Sync!Crash, Sync!Leave, Sync!Goto, QueueTypes
    <3>2. StreamTypes'
        BY <1>0, <2>12 DEF Sync!Crash, Sync!Leave, Sync!Goto, StreamTypes
    <3>3. InboxTypes'
        BY <1>0, <2>12 DEF Sync!Crash, Sync!Leave, Sync!Goto, InboxTypes
    <3>4. SessionTypes'
        BY <1>0, SyncBounds, <2>12 DEF Sync!Crash, Sync!Leave, Sync!Goto, SessionTypes, Steps
    <3> QED
        BY <3>1, <3>2, <3>3, <3>4, TypesSplit
  <2> QED
      BY <1>3, <2>1, <2>2, <2>3, <2>4, <2>5, <2>6, <2>7, <2>8, <2>9, <2>10, <2>11, <2>12, RecordTypes, CompleteTypes,
         StepTypes DEF SyncInv, Sync!Sync
<1> QED
    BY <1>1, <1>2, <1>3 DEF Sync!Next
------------------------------------------------------------------------------
(* Events                                                                  *)

\* What a step may do to the rows of the inbox: only rows that are not finished change, and
\* an ingestion is counted once.
RowsMove ==
    \A e \in Event :
        \/ status'[e] = status[e] /\ ingests'[e] = ingests[e]
        \/ /\ status[e] \notin Final /\ ingests'[e] = ingests[e]
           /\ status'[e] # "ingested"
        \/ /\ status[e] \notin Final /\ status'[e] = "ingested"
           /\ ingests'[e] = ingests[e] + 1

\* What a session has read of a row that another session writes is not as it was.
LEMMA TouchKeeps ==
    ASSUME Sync!TypeOK, RowsAsRead, HandsFull, NEW s \in Session, NEW e \in Event, NEW v,
           ev[s] = e, status' = [status EXCEPT ![e] = v], Sync!Touch(s, e),
           \A t \in Session : t # s => pc'[t] = pc[t], ev' = ev
    PROVE  RowsAsRead'
<1> SUFFICES ASSUME NEW t \in sure'
             PROVE  \/ pc'[t] = "take" /\ status'[ev'[t]] \in {"pending", "failed", "leased"}
                    \/ pc'[t] = "failWrite" /\ status'[ev'[t]] = "leased"
    BY DEF RowsAsRead
<1>1. t \in sure /\ t # s /\ ev[t] # e
    BY DEF Sync!Touch
<1>2. t \in Session /\ ev[t] \in Event
    BY <1>1 DEF Sync!TypeOK, RowsAsRead, HandsFull, InHand
<1>3. status'[ev[t]] = status[ev[t]] /\ pc'[t] = pc[t]
    BY <1>1, <1>2 DEF Sync!TypeOK
<1> QED
    BY <1>1, <1>3 DEF RowsAsRead

\* A step that changes neither the rows nor what is known of them.
LEMMA EventsRest ==
    ASSUME Sync!TypeOK, SyncEvents, UNCHANGED <<status, ingests, ev>>,
           \A t \in Session : pc'[t] # pc[t] => pc'[t] \notin InHand /\ t \notin sure',
           sure' \subseteq sure
    PROVE  SyncEvents' /\ RowsMove
<1>1. HandsFull'
    BY DEF SyncEvents, HandsFull
<1>2. RowsAsRead'
    BY DEF SyncEvents, RowsAsRead, Sync!TypeOK
<1>3. Counted' /\ RowsMove
    BY DEF SyncEvents, Counted, RowsMove
<1> QED
    BY <1>1, <1>2, <1>3 DEF SyncEvents

\* The session that leaves forgets the row it had read.
LEMMA EventsLeave ==
    ASSUME Sync!TypeOK, SyncEvents, NEW s \in Session, Sync!Leave(s), UNCHANGED <<status, ingests>>
    PROVE  SyncEvents' /\ RowsMove
<1>1. /\ pc' = [pc EXCEPT ![s] = "idle"] /\ ev' = [ev EXCEPT ![s] = 0] /\ sure' = sure \ {s}
    BY DEF Sync!Leave, Sync!Goto
<1>2. HandsFull'
    BY <1>1 DEF SyncEvents, HandsFull, InHand, Sync!TypeOK
<1>3. RowsAsRead'
    BY <1>1 DEF SyncEvents, RowsAsRead, Sync!TypeOK
<1>4. Counted' /\ RowsMove
    BY DEF SyncEvents, Counted, RowsMove
<1> QED
    BY <1>2, <1>3, <1>4 DEF SyncEvents

\* New events of a page were absent: nobody had read their rows.
LEMMA EventsRecord ==
    ASSUME Sync!TypeOK, SyncEvents, NEW s \in Session, Sync!Record(s)
    PROVE  SyncEvents' /\ RowsMove
<1>1. /\ s \notin sure /\ sure' = sure /\ ev' = ev
      /\ pc' = [pc EXCEPT ![s] = IF Sync!Fenced(s) THEN "drain" ELSE "fatal"]
    BY DEF Sync!Record, Sync!Goto, SyncEvents, RowsAsRead
<1>2. /\ ingests' = ingests
      /\ \A e \in Event : status'[e] = status[e] \/ (status[e] = "absent" /\ status'[e] = "pending")
    BY DEF Sync!Record, Sync!RecordPull, Sync!Unknown, Sync!inbox
<1>3. HandsFull'
    BY <1>1 DEF SyncEvents, HandsFull, InHand, Sync!TypeOK
<1>4. RowsAsRead'
  <2> SUFFICES ASSUME NEW t \in sure
               PROVE  \/ pc'[t] = "take" /\ status'[ev[t]] \in {"pending", "failed", "leased"}
                      \/ pc'[t] = "failWrite" /\ status'[ev[t]] = "leased"
      BY <1>1 DEF RowsAsRead
  <2>1. t \in Session /\ t # s /\ ev[t] \in Event
      BY <1>1 DEF Sync!TypeOK, SyncEvents, RowsAsRead, HandsFull, InHand
  <2>2. pc'[t] = pc[t]
      BY <1>1, <2>1 DEF Sync!TypeOK
  <2>3. status[ev[t]] # "absent"
      BY DEF SyncEvents, RowsAsRead
  <2>4. status'[ev[t]] = status[ev[t]]
      BY <1>2, <2>1, <2>3
  <2> QED
      BY <2>2, <2>4 DEF SyncEvents, RowsAsRead
<1>5. Counted' /\ RowsMove
    BY <1>2 DEF SyncEvents, Counted, RowsMove, Final
<1> QED
    BY <1>3, <1>4, <1>5 DEF SyncEvents

\* claim_event looks at a row, and writes its lease if the row is as it was.
LEMMA EventsClaim ==
    ASSUME Sync!TypeOK, SyncEvents, NEW s \in Session, Sync!Look(s) \/ Sync!Take(s)
    PROVE  SyncEvents' /\ RowsMove
<1>0. HandsFull /\ RowsAsRead /\ Counted
    BY DEF SyncEvents
<1>1. CASE Sync!Look(s)
  <2>1. UNCHANGED <<status, ingests>> /\ s \notin sure
      BY <1>0, <1>1 DEF Sync!Look, Sync!inbox, RowsAsRead
  <2>2. CASE UNCHANGED <<ev, sure>> /\ \E p \in {"fatal", "complete"} : Sync!Goto(s, p)
      BY <2>1, <2>2, EventsRest DEF Sync!Goto, Sync!TypeOK, InHand
  <2>3. ASSUME NEW e \in Event, Sync!Due(e), ev' = [ev EXCEPT ![s] = e], sure' = sure \cup {s},
               pc' = [pc EXCEPT ![s] = "take"]
        PROVE  SyncEvents' /\ RowsMove
    <3>1. HandsFull'
        BY <1>0, <2>3 DEF HandsFull, InHand, Sync!TypeOK
    <3>2. RowsAsRead'
        BY SMTT(30), <1>0, <2>1, <2>3 DEF RowsAsRead, Sync!TypeOK, Sync!Due
    <3>3. Counted' /\ RowsMove
        BY <1>0, <2>1 DEF Counted, RowsMove
    <3> QED
        BY <3>1, <3>2, <3>3 DEF SyncEvents
  <2> QED
      BY <1>1, <2>2, <2>3 DEF Sync!Look, Sync!Goto
<1>2. CASE Sync!Take(s) /\ s \in sure
  <2> DEFINE e == ev[s]
  <2>1. /\ e \in Event /\ status[e] \in {"pending", "failed", "leased"}
      BY <1>0, <1>2 DEF Sync!Take, HandsFull, RowsAsRead, InHand
  <2>2. /\ status' = [status EXCEPT ![e] = "leased"] /\ Sync!Touch(s, e)
        /\ pc' = [pc EXCEPT ![s] = "leased"] /\ ev' = ev /\ ingests' = ingests
      BY <1>2 DEF Sync!Take, Sync!Goto
  <2>3. RowsAsRead'
      BY <1>0, <2>1, <2>2, TouchKeeps DEF Sync!TypeOK
  <2>4. HandsFull'
      BY <1>0, <2>1, <2>2 DEF HandsFull, InHand, Sync!TypeOK
  <2>5. Counted' /\ RowsMove
      BY <1>0, <2>1, <2>2 DEF Counted, RowsMove, Final, Sync!TypeOK
  <2> QED
      BY <2>3, <2>4, <2>5 DEF SyncEvents
<1>3. CASE Sync!Take(s) /\ s \notin sure
  <2>1. UNCHANGED <<status, ingests, ev, sure>> /\ pc' = [pc EXCEPT ![s] = "complete"]
      BY <1>3 DEF Sync!Take, Sync!Goto
  <2> QED
      BY <1>3, <2>1, EventsRest DEF Sync!TypeOK, InHand
<1> QED
    BY <1>1, <1>2, <1>3

\* The end of an event, or the way to its failure.
LEMMA EventsEnd ==
    ASSUME Sync!TypeOK, SyncEvents, NEW s \in Session,
           Sync!Ingest(s) \/ Sync!IngestFails(s) \/ Sync!FailLook(s) \/ Sync!FailWrite(s)
    PROVE  SyncEvents' /\ RowsMove
<1> DEFINE e == ev[s]
<1>0. HandsFull /\ RowsAsRead /\ Counted
    BY DEF SyncEvents
<1>1. CASE Sync!Ingest(s)
  <2>1. /\ e \in Event /\ status[e] = "leased"
      BY <1>0, <1>1 DEF Sync!Ingest, Sync!Leased, HandsFull, InHand
  <2>2. /\ status' = [status EXCEPT ![e] = "ingested"] /\ Sync!Touch(s, e)
        /\ ingests' = [ingests EXCEPT ![e] = @ + 1]
        /\ pc' = [pc EXCEPT ![s] = "drain"] /\ ev' = ev
      BY <1>1 DEF Sync!Ingest, Sync!Goto
  <2>3. RowsAsRead'
      BY <1>0, <2>1, <2>2, TouchKeeps DEF Sync!TypeOK
  <2>4. HandsFull'
      BY <1>0, <2>1, <2>2 DEF HandsFull, InHand, Sync!TypeOK
  <2>5. Counted' /\ RowsMove
      BY <1>0, <2>1, <2>2 DEF Counted, RowsMove, Final, Sync!TypeOK
  <2> QED
      BY <2>3, <2>4, <2>5 DEF SyncEvents
<1>2. CASE Sync!IngestFails(s)
  <2>1. /\ UNCHANGED <<status, ingests, ev, sure>> /\ pc[s] = "leased" /\ s \notin sure
        /\ pc' = [pc EXCEPT ![s] = "failing"]
      BY <1>0, <1>2 DEF Sync!IngestFails, Sync!Goto, Sync!inbox, RowsAsRead
  <2>2. HandsFull'
      BY <1>0, <2>1 DEF HandsFull, InHand, Sync!TypeOK
  <2>3. RowsAsRead'
      BY <1>0, <2>1 DEF RowsAsRead, Sync!TypeOK
  <2>4. Counted' /\ RowsMove
      BY <1>0, <2>1 DEF Counted, RowsMove
  <2> QED
      BY <2>2, <2>3, <2>4 DEF SyncEvents
<1>3. CASE Sync!FailLook(s)
  <2>1. UNCHANGED <<status, ingests, ev>> /\ pc[s] = "failing" /\ s \notin sure
      BY <1>0, <1>3 DEF Sync!FailLook, Sync!inbox, RowsAsRead
  <2>2. CASE sure' = sure \cup {s} /\ pc' = [pc EXCEPT ![s] = "failWrite"] /\ Sync!Leased(s)
    <3>1. HandsFull'
        BY <1>0, <2>1, <2>2 DEF HandsFull, InHand, Sync!TypeOK
    <3>2. RowsAsRead'
      <4> SUFFICES ASSUME NEW t \in sure \cup {s}
                   PROVE  \/ pc'[t] = "take" /\ status[ev[t]] \in {"pending", "failed", "leased"}
                          \/ pc'[t] = "failWrite" /\ status[ev[t]] = "leased"
          BY <2>1, <2>2 DEF RowsAsRead
      <4>1. CASE t = s
          BY <2>2, <4>1 DEF Sync!TypeOK, Sync!Leased
      <4>2. CASE t # s
          BY <1>0, <2>2, <4>2 DEF RowsAsRead, Sync!TypeOK
      <4> QED
          BY <4>1, <4>2
    <3>3. Counted' /\ RowsMove
        BY <1>0, <2>1 DEF Counted, RowsMove
    <3> QED
        BY <3>1, <3>2, <3>3 DEF SyncEvents
  <2>3. CASE sure' = sure /\ pc' = [pc EXCEPT ![s] = "fatal"]
      BY <2>1, <2>3, EventsRest DEF Sync!TypeOK, InHand
  <2> QED
      BY <1>3, <2>2, <2>3 DEF Sync!FailLook, Sync!Goto
<1>4. CASE Sync!FailWrite(s) /\ s \in sure
  <2> DEFINE outcome == IF tries[e] >= MaxAttempts THEN "quarantined" ELSE "failed"
  <2>1. /\ e \in Event /\ status[e] = "leased"
      BY <1>0, <1>4 DEF Sync!FailWrite, HandsFull, RowsAsRead, InHand
  <2>2. /\ status' = [status EXCEPT ![e] = outcome] /\ Sync!Touch(s, e)
        /\ ev' = ev /\ ingests' = ingests
        /\ pc' = [pc EXCEPT ![s] = IF status'[e] = "quarantined" THEN "drain" ELSE "retry"]
      BY <1>4 DEF Sync!FailWrite, Sync!Goto
  <2>3. outcome \in {"quarantined", "failed"}
      OBVIOUS
  <2> HIDE DEF outcome
  <2>4. RowsAsRead'
      BY <1>0, <2>1, <2>2, TouchKeeps DEF Sync!TypeOK
  <2>5. HandsFull'
      BY <1>0, <2>1, <2>2 DEF HandsFull, InHand, Sync!TypeOK
  <2>6. Counted' /\ RowsMove
      BY <1>0, <2>1, <2>2, <2>3 DEF Counted, RowsMove, Final, Sync!TypeOK
  <2> QED
      BY <2>4, <2>5, <2>6 DEF SyncEvents
<1>5. CASE Sync!FailWrite(s) /\ s \notin sure
  <2>1. /\ UNCHANGED <<status, ingests, ev, sure>>
        /\ pc' = [pc EXCEPT ![s] = IF status'[e] = "quarantined" THEN "drain" ELSE "retry"]
      BY <1>5 DEF Sync!FailWrite, Sync!Goto
  <2> QED
      BY <1>5, <2>1, EventsRest DEF Sync!TypeOK, InHand
<1> QED
    BY <1>1, <1>2, <1>3, <1>4, <1>5

LEMMA EventsNext == SyncInv /\ Sync!Next => SyncEvents' /\ RowsMove
<1> SUFFICES ASSUME SyncInv, Sync!Next PROVE SyncEvents' /\ RowsMove
    OBVIOUS
<1> USE DEF Sync!queue, Sync!fences, Sync!stream, Sync!inbox, Sync!session, Sync!bounds
<1>0. Sync!TypeOK /\ SyncEvents
    BY DEF SyncInv
<1>1. CASE Sync!Enqueue \/ Sync!Cancel \/ Sync!Rotate \/ \E e \in Event : Sync!LeaseLapses(e)
  <2>1. UNCHANGED <<status, ingests, ev, sure, pc>>
      BY <1>1 DEF Sync!Enqueue, Sync!Cancel, Sync!Rotate, Sync!LeaseLapses
  <2> QED
      BY <1>0, <2>1, EventsRest
<1>2. ASSUME NEW s \in Session,
             \/ Sync!ClaimJob(s) \/ Sync!Resume(s) \/ Sync!Refuse(s) \/ Sync!Open(s)
             \/ Sync!ReadCursor(s) \/ Sync!PullFails(s) \/ Sync!Complete(s) \/ Sync!Finish(s)
      PROVE  SyncEvents' /\ RowsMove
  <2>1. UNCHANGED <<status, ingests, ev, sure>> /\ s \notin sure
      BY <1>0, <1>2 DEF SyncEvents, RowsAsRead, Sync!ClaimJob, Sync!Resume, Sync!Refuse,
                        Sync!Open, Sync!ReadCursor, Sync!PullFails, Sync!Complete, Sync!Finish
  <2>2. \E p \in Steps \ InHand : pc' = [pc EXCEPT ![s] = p]
      BY <1>2 DEF Sync!ClaimJob, Sync!Resume, Sync!Refuse, Sync!Open, Sync!ReadCursor,
                  Sync!PullFails, Sync!Complete, Sync!Finish, Sync!Goto, InHand, Steps
  <2> QED
      BY <1>0, <2>1, <2>2, EventsRest DEF Sync!TypeOK
<1>3. ASSUME NEW s \in Session, Sync!Succeed(s) \/ Sync!FailJob(s) \/ Sync!Crash(s)
      PROVE  SyncEvents' /\ RowsMove
  <2>1. Sync!Leave(s) /\ UNCHANGED <<status, ingests>>
      BY <1>3 DEF Sync!Succeed, Sync!FailJob, Sync!Crash
  <2> QED
      BY <1>0, <2>1, EventsLeave
<1> QED
    BY <1>0, <1>1, <1>2, <1>3, EventsRecord, EventsClaim, EventsEnd DEF Sync!Next, Sync!Sync
------------------------------------------------------------------------------
(* The page                                                                *)

\* A step that leaves the stream alone, and brings a session with the reservation at most
\* from one place on its page to another.
LEMMA OursRests ==
    ASSUME Sync!TypeOK, Ours, UNCHANGED <<cursor, version, batches>>,
           NEW s \in Session, \A t \in Session : reserver' = t => reserver = t \/ t = s,
           \A t \in Session : t # s => pc'[t] = pc[t] /\ syncAt'[t] = syncAt[t] /\ own'[t] = own[t],
           \/ pc'[s] \notin {"pulled"} \cup OnPage
           \/ reserver' = s => reserver = s /\ syncAt'[s] = syncAt[s] /\ own'[s] = own[s]
                                  /\ (pc'[s] = pc[s] \/ pc[s] \in OnPage)
    PROVE  Ours'
<1> SUFFICES ASSUME NEW t \in Session, reserver' = t
             PROVE  /\ pc'[t] \in {"pulled"} \cup OnPage => syncAt'[t] = cursor
                    /\ pc'[t] \in OnPage =>
                          /\ own'[t] = Len(batches) /\ own'[t] > 0
                          /\ batches[own'[t]].state = "pending"
                          /\ batches[own'[t]].version = version
                          /\ batches[own'[t]].after = Sync!Following(cursor)
                          /\ batches[own'[t]].events = EventsOf[cursor]
    BY DEF Ours, Sync!Following
<1>1. CASE t = s
    BY <1>1 DEF Ours
<1>2. CASE t # s
    BY <1>2 DEF Ours
<1> QED
    BY <1>1, <1>2

\* record_pull is behind the fences: the new batch is the last one.
LEMMA OursRecord ==
    ASSUME Sync!TypeOK, Ours, NEW s \in Session, Sync!Record(s)
    PROVE  Ours'
<1>1. CASE ~Sync!Fenced(s)
  <2>1. /\ UNCHANGED <<cursor, version, batches, reserver, syncAt, own>>
        /\ pc' = [pc EXCEPT ![s] = "fatal"]
      BY <1>1 DEF Sync!Record, Sync!Goto, Sync!stream, Sync!fences
  <2> QED
      BY <2>1, OursRests DEF OnPage, Sync!TypeOK
<1>2. CASE Sync!Fenced(s)
  <2> DEFINE enqueued == IF Routed THEN {e \in EventsOf[syncAt[s]] : Sync!Unknown(e)} ELSE {}
             batch == [version |-> version, after |-> Sync!Following(syncAt[s]),
                       events |-> EventsOf[syncAt[s]], staged |-> enqueued, state |-> "pending"]
  <2>1. /\ batches' = Append(batches, batch) /\ own' = [own EXCEPT ![s] = Len(batches) + 1]
        /\ UNCHANGED <<cursor, version, reserver, syncAt>> /\ reserver = s /\ pc[s] = "pulled"
      BY <1>2 DEF Sync!Record, Sync!RecordPull, Sync!ExpectedVersion, Sync!Fenced, Sync!fences
  <2>2. syncAt[s] = cursor
      BY <2>1 DEF Ours
  <2>3. batches \in Seq(Sync!Batch)
      BY DEF Sync!TypeOK
  <2> HIDE DEF batch
  <2>4. /\ Len(batches') = Len(batches) + 1 /\ Len(batches) \in Nat
        /\ batches'[Len(batches) + 1] = batch
      BY <2>1, <2>3
  <2>5. own'[s] = Len(batches) + 1
      BY <2>1 DEF Sync!TypeOK
  <2>6. /\ batch.state = "pending" /\ batch.version = version
        /\ batch.after = Sync!Following(cursor) /\ batch.events = EventsOf[cursor]
      BY <2>2 DEF batch
  <2>7. Sync!Following(cursor)' = Sync!Following(cursor)
      BY <2>1 DEF Sync!Following
  <2>8. /\ own'[s] = Len(batches') /\ own'[s] > 0 /\ syncAt'[s] = cursor'
        /\ batches'[own'[s]] = batch
      BY <2>1, <2>2, <2>4, <2>5
  <2> QED
      BY <2>1, <2>6, <2>7, <2>8 DEF Ours
<1> QED
    BY <1>1, <1>2

LEMMA OursNext == SyncInv /\ Sync!Next => Ours'
<1> SUFFICES ASSUME SyncInv, Sync!Next PROVE Ours'
    OBVIOUS
<1> USE DEF Sync!queue, Sync!fences, Sync!stream, Sync!inbox, Sync!session, Sync!bounds
<1>0. Sync!TypeOK /\ SyncEvents /\ Ours
    BY DEF SyncInv
<1>1. CASE \/ Sync!Enqueue \/ Sync!Cancel \/ Sync!Rotate
           \/ \E e \in Event : Sync!LeaseLapses(e)
  <2>1. /\ UNCHANGED <<cursor, version, batches, pc, syncAt, own>>
        /\ reserver' \in {reserver, NoSession}
      BY <1>1 DEF Sync!Enqueue, Sync!Cancel, Sync!EndJob, Sync!Rotate, Sync!LeaseLapses
  <2>2. \A t \in Session : reserver' = t => reserver = t
      BY <2>1, SyncBounds
  <2>3. Sync!Following(cursor)' = Sync!Following(cursor)
      BY <2>1 DEF Sync!Following
  <2> QED
      BY <1>0, <2>1, <2>2, <2>3 DEF Ours
<1>2. ASSUME NEW s \in Session,
             \/ Sync!ClaimJob(s) \/ Sync!Resume(s) \/ Sync!Refuse(s) \/ Sync!Open(s)
             \/ Sync!PullFails(s) \/ Sync!Finish(s)
      PROVE  Ours'
  <2>1. /\ UNCHANGED <<cursor, version, batches, syncAt, own>> /\ reserver' \in {reserver, s}
        /\ \E p \in Steps \ ({"pulled"} \cup OnPage) : pc' = [pc EXCEPT ![s] = p]
      BY <1>2 DEF Sync!ClaimJob, Sync!Resume, Sync!Refuse, Sync!Open, Sync!PullFails,
                  Sync!Finish, Sync!Goto, OnPage, Steps
  <2>2. /\ pc'[s] \notin {"pulled"} \cup OnPage
        /\ \A t \in Session : t # s => pc'[t] = pc[t]
      BY <1>0, <2>1 DEF Sync!TypeOK
  <2>3. \A t \in Session : reserver' = t => reserver = t \/ t = s
      BY <2>1
  <2> HIDE DEF Sync!stream, Sync!session
  <2> QED
      BY <1>0, <2>1, <2>2, <2>3, OursRests
<1>3. ASSUME NEW s \in Session, Sync!Succeed(s) \/ Sync!FailJob(s) \/ Sync!Crash(s)
      PROVE  Ours'
  <2>1. /\ UNCHANGED <<cursor, version, batches>> /\ reserver' \in {reserver, NoSession}
        /\ pc' = [pc EXCEPT ![s] = "idle"]
        /\ syncAt' = [syncAt EXCEPT ![s] = 0] /\ own' = [own EXCEPT ![s] = 0]
      BY <1>3 DEF Sync!Succeed, Sync!FailJob, Sync!Crash, Sync!Leave, Sync!EndJob, Sync!Goto
  <2>2. \A t \in Session : reserver' = t => reserver = t
      BY <2>1, SyncBounds
  <2> QED
      BY SMTT(30), <1>0, <2>1, <2>2, OursRests DEF Sync!TypeOK, OnPage
<1>4. ASSUME NEW s \in Session, Sync!ReadCursor(s) PROVE Ours'
  <2>1. /\ UNCHANGED <<cursor, version, batches, own, reserver>>
        /\ pc' = [pc EXCEPT ![s] = "pulled"] /\ syncAt' = [syncAt EXCEPT ![s] = cursor]
      BY <1>4 DEF Sync!ReadCursor, Sync!Goto
  <2>2. Sync!Following(cursor)' = Sync!Following(cursor)
      BY <2>1 DEF Sync!Following
  <2> QED
      BY <1>0, <2>1, <2>2 DEF Ours, OnPage, Sync!TypeOK
<1>5. ASSUME NEW s \in Session,
             \/ Sync!Look(s) \/ Sync!Take(s) \/ Sync!Ingest(s) \/ Sync!IngestFails(s)
             \/ Sync!FailLook(s) \/ Sync!FailWrite(s)
      PROVE  Ours'
  <2>1. /\ UNCHANGED <<cursor, version, batches, syncAt, own, reserver>> /\ pc[s] \in OnPage
        /\ \E p \in Steps : pc' = [pc EXCEPT ![s] = p]
      BY <1>5 DEF Sync!Look, Sync!Take, Sync!Ingest, Sync!IngestFails, Sync!FailLook,
                  Sync!FailWrite, Sync!Goto, OnPage, Steps
  <2> QED
      BY <1>0, <2>1, OursRests DEF Sync!TypeOK
<1>6. ASSUME NEW s \in Session, Sync!Complete(s) PROVE Ours'
  <2>1. UNCHANGED <<reserver, own>> /\ \E p \in {"pulled", "finish", "retry"} :
                pc' = [pc EXCEPT ![s] = p]
      BY <1>6 DEF Sync!Complete, Sync!Goto
  <2>2. CASE Sync!Completable(s)
    <3>1. reserver = s /\ syncAt' = [syncAt EXCEPT ![s] = cursor']
        BY <1>6, <2>2, CompleteTypes
    <3> QED
        BY <1>0, <2>1, <3>1 DEF Ours, OnPage, Sync!TypeOK
  <2>3. CASE ~Sync!Completable(s)
    <3>1. UNCHANGED <<cursor, version, batches, syncAt>> /\ pc' = [pc EXCEPT ![s] = "retry"]
        BY <1>6, <2>3 DEF Sync!Complete, Sync!Goto
    <3> QED
        BY <1>0, <2>1, <3>1, OursRests DEF Sync!TypeOK, OnPage
  <2> QED
      BY <2>2, <2>3
<1> QED
    BY <1>0, <1>1, <1>2, <1>3, <1>4, <1>5, <1>6, OursRecord DEF Sync!Next, Sync!Sync
------------------------------------------------------------------------------
(* The cursor                                                              *)

\* The cursor moves by one page at most, and only when the page is finished.
LEMMA CursorStep ==
    ASSUME SyncInv, Sync!Next
    PROVE  \/ cursor' = cursor
           \/ /\ cursor' = Sync!Following(cursor)
              /\ \A e \in EventsOf[cursor] : status[e] \in Final
<1> USE DEF Sync!queue, Sync!fences, Sync!stream, Sync!inbox, Sync!session, Sync!bounds
<1>1. ASSUME NEW s \in Session, Sync!Complete(s), ~Sync!Completable(s) PROVE cursor' = cursor
    BY <1>1 DEF Sync!Complete
<1>2. ASSUME NEW s \in Session, Sync!Record(s) PROVE cursor' = cursor
    BY <1>2 DEF Sync!Record, Sync!RecordPull
<1>3. ASSUME ~\E s \in Session : Sync!Complete(s) \/ Sync!Record(s) PROVE cursor' = cursor
    BY <1>3 DEF Sync!Next, Sync!Sync, Sync!Enqueue, Sync!Cancel, Sync!Rotate, Sync!LeaseLapses,
           Sync!ClaimJob, Sync!Resume, Sync!Refuse, Sync!Open, Sync!ReadCursor, Sync!PullFails,
           Sync!Look, Sync!Take, Sync!Ingest, Sync!IngestFails, Sync!FailLook, Sync!FailWrite,
           Sync!Finish, Sync!Succeed, Sync!FailJob, Sync!Crash
<1> QED
    BY <1>1, <1>2, <1>3, CompleteTypes

LEMMA SkippedNext == SyncInv /\ Sync!Next => Sync!NothingSkipped'
<1> SUFFICES ASSUME SyncInv, Sync!Next, NEW c \in 0..(cursor' - 1), NEW e \in EventsOf[c]
             PROVE  status'[e] \in Final
    BY DEF Sync!NothingSkipped, Final
<1>1. cursor \in 0..Pages /\ Pages \in Nat
    BY SyncBounds DEF SyncInv, Sync!TypeOK
<1>2. c \in 0..(cursor - 1) \/ (c = cursor /\ \A d \in EventsOf[cursor] : status[d] \in Final)
    BY <1>1, CursorStep DEF Sync!Following
<1>3. status[e] \in Final
    BY <1>2 DEF SyncInv, Sync!NothingSkipped, Final
<1>4. c \in 0..Pages
    BY <1>1, <1>2
<1>5. e \in Event
    BY <1>4, SyncBounds
<1> QED
    BY <1>3, <1>5, EventsNext DEF RowsMove

\* The inductive invariant, through any step of the part.
LEMMA SyncNext == SyncInv /\ [Sync!Next]_SyncVars => SyncInv'
<1>1. ASSUME SyncInv, Sync!Next PROVE SyncInv'
    BY <1>1, SyncTypes, EventsNext, OursNext, SkippedNext DEF SyncInv
<1>2. ASSUME SyncInv, UNCHANGED SyncVars PROVE SyncInv'
  <2>1. Sync!TypeOK'
      BY <1>2 DEF SyncVars, SyncInv, Sync!TypeOK
  <2>2. SyncEvents'
      BY <1>2 DEF SyncVars, SyncInv, SyncEvents, HandsFull, RowsAsRead, Counted
  <2>3. Ours'
      BY <1>2 DEF SyncVars, SyncInv, Ours, Sync!Following
  <2>4. Sync!NothingSkipped'
      BY <1>2 DEF SyncVars, SyncInv, Sync!NothingSkipped
  <2> QED
      BY <2>1, <2>2, <2>3, <2>4 DEF SyncInv
<1> QED
    BY <1>1, <1>2

\* A behaviour that explores the synchronization stays with it.
SyncPartInv == part = "sync" => SyncInv

\* Whatever sessions are overtaken or die and whatever leases run out, the stream, its inbox
\* and the sessions stay in the states SyncInv describes (run_one_job, ConnectorInboxRepository).
THEOREM SyncInvariance == SideBySide => []SyncPartInv
<1>1. StartAll => SyncPartInv
    BY SyncInit DEF StartAll, SyncPartInv
<1>2. SyncPartInv /\ [StepOne]_allVars => SyncPartInv'
  <2> SUFFICES ASSUME SyncPartInv, [StepOne]_allVars, part' = "sync" PROVE SyncInv'
      BY DEF SyncPartInv
  <2>1. part = "sync" /\ [Sync!Next]_SyncVars
      BY DEF StepOne, allVars
  <2> QED
      BY <2>1, SyncNext DEF SyncPartInv
<1> QED
    BY <1>1, <1>2, PTL DEF SideBySide

\* The cursor of a stream never passes an event that is neither ingested nor quarantined,
\* and no event is ingested twice, for any pages and any sessions that overtake each other
\* (complete_batch, _promote_cursor, complete_event).
THEOREM SyncSkipsNothingHolds == SideBySide => []SyncSkipsNothing
<1>1. SyncPartInv => SyncSkipsNothing
  <2> SUFFICES ASSUME SyncInv PROVE Sync!TypeOK /\ Sync!NothingSkipped /\ Sync!IngestedOnce
      BY DEF SyncPartInv, SyncSkipsNothing
  <2>1. Sync!IngestedOnce
      BY DEF SyncInv, SyncEvents, Counted, Sync!IngestedOnce
  <2> QED
      BY <2>1 DEF SyncInv
<1> QED
    BY <1>1, SyncInvariance, PTL
------------------------------------------------------------------------------
(* Evidence in time                                                        *)

\* The rows of the sources, of their intervals and of a search.
SourceRow == [key: Key, content: Contents, from: Sources!Time, observed: Sources!Time,
              recorded: Sources!Time, version: Nat]
IntervalRow == [source: Nat, activated: Sources!Time, retired: Sources!Time \cup {Sources!Never},
                from: Sources!Time, until: Sources!Time \cup {Sources!Never}]
SearchRow == [at: {"idle", "read", "graph", "answered", "told"}, reader: Reader,
              asOf: Sources!Time \cup {Sources!Present}, moment: Int, sources: SUBSET Nat,
              documents: SUBSET Nat, graph: {"healthy", "skipped", "restricted", "degraded"},
              found: SUBSET Nat]

RowTypes ==
    /\ now \in Sources!Time
    /\ evidenceSource \in Seq(SourceRow) /\ interval \in Seq(IntervalRow)
    /\ begun \subseteq SourceRow
    /\ \A i \in 1..Len(interval) : interval[i].source \in 1..Len(evidenceSource)

SearchTypes ==
    /\ search \in SearchRow
    /\ search.sources \subseteq 1..Len(evidenceSource)
    /\ search.found \subseteq search.sources

\* One version of a key is current.
OneOpen ==
    \A i, j \in 1..Len(interval) :
        Sources!IsOpen(i) /\ Sources!IsOpen(j) /\ Sources!KeyOf(i) = Sources!KeyOf(j) => i = j

\* An interval goes on only while one of its key is shown ...
GoesOnShown ==
    \A j \in 1..Len(interval) : interval[j].until = Sources!Never =>
        \E k \in 1..Len(interval) : Sources!IsOpen(k) /\ Sources!KeyOf(k) = Sources!KeyOf(j)
\* ... and one that ended, and held at all, did so when one of its key was retired, or before.
EndedBy ==
    \A j \in 1..Len(interval) : interval[j].until # Sources!Never =>
        \/ interval[j].until <= interval[j].from
        \/ \E k \in 1..Len(interval) :
            /\ Sources!KeyOf(k) = Sources!KeyOf(j) /\ ~Sources!IsOpen(k)
            /\ interval[j].until <= interval[k].retired

IntervalInv == RowTypes /\ OneOpen /\ GoesOnShown /\ EndedBy
EvidenceInv == IntervalInv /\ SearchTypes

LEMMA Times ==
    /\ MaxTime \in Nat /\ Sources!Time = 0..MaxTime /\ Sources!Never = MaxTime + 1
    /\ Dates \subseteq Sources!Time \X Sources!Time /\ Admin \in Reader
BY EvidenceAssumption DEF Sources!EvidenceAssumption, Sources!Time, Sources!Never

LEMMA EvidenceInit == Sources!Init => EvidenceInv
<1> SUFFICES ASSUME Sources!Init PROVE EvidenceInv
    OBVIOUS
<1>1. RowTypes
    BY Times DEF Sources!Init, RowTypes
<1>2. OneOpen /\ GoesOnShown /\ EndedBy
    BY DEF Sources!Init, OneOpen, GoesOnShown, EndedBy
<1>3. SearchTypes
  <2>1. Sources!Idle \in SearchRow
      BY Times DEF Sources!Idle, SearchRow
  <2>2. Sources!Idle.sources = {} /\ Sources!Idle.found = {}
      BY DEF Sources!Idle
  <2> QED
      BY <2>1, <2>2 DEF Sources!Init, SearchTypes
<1> QED
    BY <1>1, <1>2, <1>3 DEF EvidenceInv, IntervalInv

\* What the activation of a version makes of the intervals: it retires those of its key that
\* are open and adds its own, from that date.
LEMMA ActivatedIs ==
    ASSUME RowTypes, NEW rows \in Seq(SourceRow), NEW s \in 1..Len(rows),
           NEW when \in Sources!Time, NEW from \in Sources!Time
    PROVE  LET next == Sources!Activated(rows, s, when, from)
               n == Len(interval)
           IN  /\ next \in Seq(IntervalRow) /\ Len(next) = n + 1
               /\ next[n + 1] = [source |-> s, activated |-> when, retired |-> Sources!Never,
                                 from |-> from, until |-> Sources!Never]
               /\ \A i \in 1..n :
                     /\ next[i].source = interval[i].source
                     /\ next[i].activated = interval[i].activated
                     /\ next[i].from = interval[i].from /\ next[i].until = interval[i].until
                     /\ next[i].retired =
                           IF Sources!IsOpen(i) /\ Sources!KeyOf(i) = rows[s].key
                           THEN when ELSE interval[i].retired
<1> DEFINE closed == [i \in 1..Len(interval) |->
                        IF Sources!IsOpen(i) /\ Sources!KeyOf(i) = rows[s].key
                        THEN [interval[i] EXCEPT !.retired = when] ELSE interval[i]]
           added == [source |-> s, activated |-> when, retired |-> Sources!Never,
                     from |-> from, until |-> Sources!Never]
<1>1. Len(interval) \in Nat
    BY DEF RowTypes
<1>2. ASSUME NEW i \in 1..Len(interval)
      PROVE  /\ interval[i] \in IntervalRow
             /\ [interval[i] EXCEPT !.retired = when] \in IntervalRow
  <2>1. interval[i] \in IntervalRow
      BY DEF RowTypes
  <2> QED
      BY <1>1, <2>1 DEF IntervalRow
<1>3. closed \in Seq(IntervalRow) /\ Len(closed) = Len(interval)
  <2>1. \A i \in 1..Len(interval) : closed[i] \in IntervalRow
      BY <1>2
  <2> QED
      BY <1>1, <2>1
<1>4. added \in IntervalRow
    BY <1>1 DEF IntervalRow
<1>5. Sources!Activated(rows, s, when, from) = Append(closed, added)
    BY DEF Sources!Activated
<1>6. ASSUME NEW i \in 1..Len(interval)
      PROVE  /\ closed[i].source = interval[i].source
             /\ closed[i].activated = interval[i].activated
             /\ closed[i].from = interval[i].from /\ closed[i].until = interval[i].until
             /\ closed[i].retired =
                   IF Sources!IsOpen(i) /\ Sources!KeyOf(i) = rows[s].key
                   THEN when ELSE interval[i].retired
    BY <1>2 DEF IntervalRow
<1> HIDE DEF closed, added
<1>7. /\ Append(closed, added) \in Seq(IntervalRow)
      /\ Len(Append(closed, added)) = Len(interval) + 1
      /\ Append(closed, added)[Len(interval) + 1] = added
      /\ \A i \in 1..Len(interval) : Append(closed, added)[i] = closed[i]
    BY <1>1, <1>3, <1>4
<1> QED
    BY <1>5, <1>6, <1>7 DEF added

\* A version that is shown from a date changes nothing before that date, and after it no other
\* version gains.
LEMMA ShownKeeps ==
    ASSUME IntervalInv, NEW rows \in Seq(SourceRow), evidenceSource' = rows, now' = now,
           begun' \subseteq SourceRow,
           Len(rows) >= Len(evidenceSource),
           \A r \in 1..Len(evidenceSource) : rows[r] = evidenceSource[r],
           NEW s \in 1..Len(rows), NEW when \in Sources!Time, NEW from \in Sources!Time,
           interval' = Sources!Activated(rows, s, when, from)
    PROVE  IntervalInv' /\ Sources!PastKept
<1>a. Len(interval) \in Nat
    BY DEF IntervalInv, RowTypes
<1>n. PICK n \in Nat, m \in Nat : n = Len(interval) /\ m = n + 1
    BY <1>a
<1>0. /\ RowTypes /\ OneOpen /\ GoesOnShown /\ EndedBy
      /\ now \in Nat /\ now <= MaxTime /\ when \in Nat /\ when <= MaxTime /\ MaxTime \in Nat /\ n = Len(interval) /\ m = n + 1
      /\ Len(evidenceSource) \in Nat /\ Len(rows) \in Nat
    BY <1>n, Times DEF IntervalInv, RowTypes
<1>1. /\ interval' \in Seq(IntervalRow) /\ Len(interval') = m
      /\ interval'[m] = [source |-> s, activated |-> when, retired |-> Sources!Never,
                         from |-> from, until |-> Sources!Never]
      /\ \A i \in 1..n :
            /\ interval'[i].source = interval[i].source
            /\ interval'[i].activated = interval[i].activated
            /\ interval'[i].from = interval[i].from /\ interval'[i].until = interval[i].until
            /\ interval'[i].retired =
                  IF Sources!IsOpen(i) /\ Sources!KeyOf(i) = rows[s].key
                  THEN when ELSE interval[i].retired
    BY <1>0, ActivatedIs
<1>2. /\ interval'[m].source = s /\ interval'[m].activated = when
      /\ interval'[m].retired = Sources!Never /\ interval'[m].from = from
      /\ interval'[m].until = Sources!Never
    BY <1>1
<1>3. \A i \in 1..n :
        /\ interval[i] \in IntervalRow /\ interval[i].source \in 1..Len(evidenceSource)
        /\ rows[interval[i].source] = evidenceSource[interval[i].source]
    BY <1>0 DEF RowTypes
<1>4. /\ \A i \in 1..n : Sources!KeyOf(i)' = Sources!KeyOf(i)
      /\ Sources!KeyOf(m)' = rows[s].key
  <2>1. ASSUME NEW i \in 1..n PROVE Sources!KeyOf(i)' = Sources!KeyOf(i)
      BY <1>1, <1>3 DEF Sources!KeyOf
  <2>2. Sources!KeyOf(m)' = rows[s].key
      BY <1>2 DEF Sources!KeyOf
  <2> QED
      BY <2>1, <2>2
<1>5. \A i \in 1..m : i \in 1..n \/ i = m
    BY <1>0
<1>6. RowTypes'
  <2>1. ASSUME NEW i \in 1..m PROVE interval'[i].source \in 1..Len(rows)
    <3>1. CASE i = m
        BY <1>2, <3>1
    <3>2. CASE i \in 1..n
      <4>1. interval'[i].source \in 1..Len(evidenceSource)
          BY <1>1, <1>3, <3>2
      <4> QED
          BY <1>0, <4>1
    <3> QED
        BY <1>5, <3>1, <3>2
  <2> QED
      BY <1>0, <1>1, <2>1 DEF RowTypes
<1>7. OneOpen'
  <2>1. ASSUME NEW i \in 1..n, Sources!IsOpen(i)'
        PROVE  Sources!IsOpen(i) /\ Sources!KeyOf(i) # rows[s].key
    <3>1. interval'[i].retired = Sources!Never
        BY <2>1 DEF Sources!IsOpen, Sources!Never
    <3>2. when # Sources!Never
        BY <1>0, Times
    <3> QED
        BY <1>1, <3>1, <3>2 DEF Sources!IsOpen
  <2>2. ASSUME NEW i \in 1..m, NEW j \in 1..m, Sources!IsOpen(i)', Sources!IsOpen(j)',
               Sources!KeyOf(i)' = Sources!KeyOf(j)'
        PROVE  i = j
    <3>1. CASE i \in 1..n /\ j \in 1..n
      <4>1. Sources!IsOpen(i) /\ Sources!IsOpen(j)
          BY <2>1, <2>2, <3>1
      <4>2. Sources!KeyOf(i) = Sources!KeyOf(j)
          BY <1>4, <2>2, <3>1
      <4> QED
          BY <1>0, <3>1, <4>1, <4>2 DEF OneOpen
    <3>2. CASE i = m /\ j \in 1..n
      <4>1. Sources!KeyOf(j) # rows[s].key
          BY <2>1, <2>2, <3>2
      <4>2. Sources!KeyOf(j) = rows[s].key
          BY <1>4, <2>2, <3>2
      <4> QED
          BY <4>1, <4>2
    <3>3. CASE i \in 1..n /\ j = m
      <4>1. Sources!KeyOf(i) # rows[s].key
          BY <2>1, <2>2, <3>3
      <4>2. Sources!KeyOf(i) = rows[s].key
          BY <1>4, <2>2, <3>3
      <4> QED
          BY <4>1, <4>2
    <3> QED
        BY <1>5, <3>1, <3>2, <3>3
  <2> QED
      BY <1>1, <2>2 DEF OneOpen
<1>8. /\ \A i \in 1..n : Sources!KeyOf(i) # rows[s].key => (Sources!IsOpen(i)' <=> Sources!IsOpen(i))
      /\ \A i \in 1..n : ~Sources!IsOpen(i) =>
            ~Sources!IsOpen(i)' /\ interval'[i].retired = interval[i].retired
      /\ Sources!IsOpen(m)' /\ 1..n \subseteq 1..m /\ m \in 1..m
  <2>1. Sources!Never' = Sources!Never
      BY DEF Sources!Never
  <2> QED
      BY <1>0, <1>1, <1>2, <2>1 DEF Sources!IsOpen
<1>9. GoesOnShown'
  <2>1. ASSUME NEW j \in 1..m, interval'[j].until = Sources!Never
        PROVE  \E k \in 1..m : Sources!IsOpen(k)' /\ Sources!KeyOf(k)' = Sources!KeyOf(j)'
    <3>1. CASE Sources!KeyOf(j)' = rows[s].key
        BY <1>4, <1>8, <3>1
    <3>2. CASE Sources!KeyOf(j)' # rows[s].key
      <4>1. j \in 1..n /\ Sources!KeyOf(j)' = Sources!KeyOf(j) /\ interval[j].until = Sources!Never
          BY <1>1, <1>4, <1>5, <2>1, <3>2
      <4>2. PICK k \in 1..n : Sources!IsOpen(k) /\ Sources!KeyOf(k) = Sources!KeyOf(j)
          BY <1>0, <4>1 DEF GoesOnShown
      <4>3. Sources!IsOpen(k)' /\ Sources!KeyOf(k)' = Sources!KeyOf(j)'
          BY <1>4, <1>8, <3>2, <4>1, <4>2
      <4> QED
          BY <1>8, <4>3
    <3> QED
        BY <3>1, <3>2
  <2> QED
      BY <1>1, <2>1 DEF GoesOnShown, Sources!Never
<1>10. EndedBy'
  <2>1. ASSUME NEW j \in 1..m, interval'[j].until # Sources!Never
        PROVE  \/ interval'[j].until <= interval'[j].from
               \/ \E k \in 1..m : /\ Sources!KeyOf(k)' = Sources!KeyOf(j)' /\ ~Sources!IsOpen(k)'
                                  /\ interval'[j].until <= interval'[k].retired
    <3>1. j \in 1..n /\ interval'[j].until = interval[j].until /\ interval'[j].from = interval[j].from
        BY <1>1, <1>2, <1>5, <2>1
    <3>2. CASE interval[j].until <= interval[j].from
        BY <3>1, <3>2
    <3>3. CASE ~(interval[j].until <= interval[j].from)
      <4>1. PICK k \in 1..n : /\ Sources!KeyOf(k) = Sources!KeyOf(j) /\ ~Sources!IsOpen(k)
                              /\ interval[j].until <= interval[k].retired
          BY <1>0, <2>1, <3>1, <3>3 DEF EndedBy
      <4>2. /\ Sources!KeyOf(k)' = Sources!KeyOf(j)' /\ ~Sources!IsOpen(k)'
            /\ interval'[j].until <= interval'[k].retired
          BY <1>4, <1>8, <3>1, <4>1
      <4> QED
          BY <1>8, <4>2
    <3> QED
        BY <3>2, <3>3
  <2> QED
      BY <1>1, <2>1 DEF EndedBy, Sources!Never
<1>11. ASSUME NEW t \in Sources!Time
       PROVE  /\ when > t => Sources!AsOf(t) \subseteq Sources!AsOf(t)'
              /\ \A r \in Sources!AsOf(t)' : r \in Sources!AsOf(t) \/ (r = s /\ when <= t)
  <2>0. t \in Nat
      BY <1>0, Times
  <2>1. \A i \in 1..n : Sources!Holds(i, t)' <=> Sources!Holds(i, t)
      BY <1>1, <1>3 DEF Sources!Holds
  <2>2. ASSUME NEW i \in 1..n, NEW k \in 1..n
        PROVE  Sources!Prevails(i, k)' <=> Sources!Prevails(i, k)
    <3>1. /\ interval'[i].from = interval[i].from /\ interval'[k].from = interval[k].from
          /\ interval'[i].source = interval[i].source /\ interval'[k].source = interval[k].source
        BY <1>1
    <3>2. /\ evidenceSource'[interval[i].source] = evidenceSource[interval[i].source]
          /\ evidenceSource'[interval[k].source] = evidenceSource[interval[k].source]
        BY <1>3
    <3> QED
        BY <3>1, <3>2 DEF Sources!Prevails
  <2>3. Sources!Holds(m, t)' => when <= t
      BY <1>2 DEF Sources!Holds
  <2>4. ASSUME when > t, NEW r \in Sources!AsOf(t) PROVE r \in Sources!AsOf(t)'
    <3>1. PICK j \in 1..n :
            /\ r = interval[j].source /\ Sources!Holds(j, t)
            /\ \A k \in 1..n : ~(/\ Sources!KeyOf(k) = Sources!KeyOf(j)
                                 /\ Sources!Holds(k, t) /\ Sources!Prevails(k, j))
        BY <1>0, <2>4 DEF Sources!AsOf
    <3>2. ASSUME NEW k \in 1..m, Sources!KeyOf(k)' = Sources!KeyOf(j)', Sources!Holds(k, t)',
                 Sources!Prevails(k, j)'
          PROVE  FALSE
      <4>1. k \in 1..n
          BY <1>0, <1>5, <2>0, <2>3, <2>4, <3>2
      <4> QED
          BY <1>4, <2>1, <2>2, <3>1, <3>2, <4>1
    <3>3. r = interval'[j].source /\ Sources!Holds(j, t)' /\ j \in 1..m
        BY <1>1, <1>8, <2>1, <3>1
    <3> QED
        BY <1>1, <3>2, <3>3 DEF Sources!AsOf
  <2>5. ASSUME NEW r \in Sources!AsOf(t)' PROVE r \in Sources!AsOf(t) \/ (r = s /\ when <= t)
    <3>1. PICK j \in 1..m :
            /\ r = interval'[j].source /\ Sources!Holds(j, t)'
            /\ \A k \in 1..m : ~(/\ Sources!KeyOf(k)' = Sources!KeyOf(j)'
                                 /\ Sources!Holds(k, t)' /\ Sources!Prevails(k, j)')
        BY <1>1 DEF Sources!AsOf
    <3>2. CASE j = m
        BY <1>2, <2>3, <3>1, <3>2
    <3>3. CASE j \in 1..n
      <4>1. r = interval[j].source /\ Sources!Holds(j, t)
          BY <1>1, <2>1, <3>1, <3>3
      <4>2. ASSUME NEW k \in 1..n, Sources!KeyOf(k) = Sources!KeyOf(j), Sources!Holds(k, t),
                   Sources!Prevails(k, j)
            PROVE  FALSE
        <5>1. k \in 1..m /\ Sources!KeyOf(k)' = Sources!KeyOf(j)'
            BY <1>4, <1>8, <3>3, <4>2
        <5>2. Sources!Holds(k, t)' /\ Sources!Prevails(k, j)'
            BY <2>1, <2>2, <3>3, <4>2
        <5> QED
            BY <3>1, <5>1, <5>2
      <4> QED
          BY <1>0, <3>3, <4>1, <4>2 DEF Sources!AsOf
    <3> QED
        BY <1>5, <3>2, <3>3
  <2> QED
      BY <2>4, <2>5
<1>12. Sources!PastKept
  <2> SUFFICES ASSUME NEW t \in Sources!Time
               PROVE  /\ Sources!AsOf(t)' # Sources!AsOf(t) =>
                            \E r \in 1..Len(rows) : Sources!Shows(r, t)
                      /\ \A r \in Sources!AsOf(t)' \ Sources!AsOf(t) : Sources!Shows(r, t)
      BY DEF Sources!PastKept
  <2>1. when <= t => Sources!Shows(s, t)
      BY <1>0, <1>1, <1>2, <1>8 DEF Sources!Shows
  <2>2. when \in Nat /\ t \in Nat
      BY <1>0, Times
  <2>3. CASE when <= t
      BY <1>11, <2>1, <2>3
  <2>4. CASE when > t
    <3>1. Sources!AsOf(t) \subseteq Sources!AsOf(t)' /\ Sources!AsOf(t)' \subseteq Sources!AsOf(t)
        BY <1>11, <2>2, <2>4
    <3> QED
        BY <3>1
  <2> QED
      BY <2>2, <2>3, <2>4
<1> QED
    BY <1>6, <1>7, <1>9, <1>10, <1>12 DEF IntervalInv

\* Ingestion and reactivation show a version, on the date they bring.
LEMMA IngestKeeps ==
    ASSUME IntervalInv, NEW new \in begun, Sources!Ingest(new)
    PROVE  IntervalInv' /\ Sources!PastKept /\ search' = search
           /\ Len(evidenceSource') >= Len(evidenceSource)
<1> DEFINE rows == Append(evidenceSource, new)
<1>1. /\ evidenceSource' = rows /\ now' = now /\ search' = search
      /\ interval' = Sources!Activated(rows, Len(rows), new.recorded, new.from)
      /\ begun' \subseteq begun
    BY DEF Sources!Ingest
<1>2. new \in SourceRow /\ begun' \subseteq SourceRow
    BY <1>1 DEF IntervalInv, RowTypes
<1>3. new.recorded \in Sources!Time /\ new.from \in Sources!Time
    BY <1>2 DEF SourceRow
<1>4. evidenceSource \in Seq(SourceRow)
    BY DEF IntervalInv, RowTypes
<1>5. /\ rows \in Seq(SourceRow) /\ Len(rows) \in 1..Len(rows)
      /\ Len(rows) >= Len(evidenceSource)
      /\ \A r \in 1..Len(evidenceSource) : rows[r] = evidenceSource[r]
    BY <1>2, <1>4
<1> HIDE DEF rows
<1> QED
    BY <1>1, <1>2, <1>3, <1>5, ShownKeeps

LEMMA ReactivateKeeps ==
    ASSUME IntervalInv, NEW s \in 1..Len(evidenceSource), NEW when \in Sources!Time,
           Sources!Reactivate(s, when)
    PROVE  IntervalInv' /\ Sources!PastKept /\ search' = search
           /\ Len(evidenceSource') >= Len(evidenceSource)
<1>1. /\ evidenceSource' = evidenceSource /\ now' = now /\ search' = search /\ begun' = begun
      /\ interval' = Sources!Activated(evidenceSource, s, when, evidenceSource[s].observed)
    BY DEF Sources!Reactivate
<1>2. /\ evidenceSource \in Seq(SourceRow) /\ evidenceSource[s] \in SourceRow
      /\ Len(evidenceSource) \in Nat /\ begun' \subseteq SourceRow
    BY <1>1 DEF IntervalInv, RowTypes
<1>3. evidenceSource[s].observed \in Sources!Time
    BY <1>2 DEF SourceRow
<1> QED
    BY <1>1, <1>2, <1>3, ShownKeeps

\* The end of a version ends all of its key that had not ended: none of them comes back where
\* another one was, after that date.
LEMMA RetireKeeps ==
    ASSUME IntervalInv, NEW i \in 1..Len(interval), NEW when \in Sources!Time,
           Sources!Retire(i, when)
    PROVE  IntervalInv' /\ Sources!PastKept /\ search' = search
           /\ Len(evidenceSource') >= Len(evidenceSource)
<1>a. Len(interval) \in Nat
    BY DEF IntervalInv, RowTypes
<1>n. PICK n \in Nat : n = Len(interval)
    BY <1>a
<1>o. PICK ownKey \in Key : ownKey = Sources!KeyOf(i)
  <2>1. evidenceSource[interval[i].source] \in SourceRow
      BY DEF IntervalInv, RowTypes
  <2> QED
      BY <2>1 DEF SourceRow, Sources!KeyOf
<1>0. /\ RowTypes /\ OneOpen /\ GoesOnShown /\ EndedBy
      /\ now \in Nat /\ now <= MaxTime /\ MaxTime \in Nat /\ n = Len(interval)
      /\ when \in Nat /\ when <= MaxTime /\ Sources!IsOpen(i)
      /\ evidenceSource' = evidenceSource /\ now' = now /\ search' = search /\ begun' = begun
      /\ Len(evidenceSource) \in Nat
  <2>1. /\ evidenceSource' = evidenceSource /\ now' = now /\ search' = search /\ begun' = begun
        /\ Sources!IsOpen(i)
      BY DEF Sources!Retire
  <2> QED
      BY <1>n, <2>1, Times DEF IntervalInv, RowTypes
<1> DEFINE Ends(j) == Sources!KeyOf(j) = ownKey /\ interval[j].until = Sources!Never
           Later(j) == IF interval[j].from > when THEN interval[j].from ELSE when
<1>1. ASSUME NEW j \in 1..n
      PROVE  /\ interval[j] \in IntervalRow /\ interval'[j] \in IntervalRow
             /\ interval'[j].source = interval[j].source
             /\ interval'[j].activated = interval[j].activated
             /\ interval'[j].from = interval[j].from
             /\ interval'[j].until = IF Ends(j) THEN Later(j) ELSE interval[j].until
             /\ interval'[j].retired = IF j = i THEN when ELSE interval[j].retired
  <2>1. interval[j] \in IntervalRow
      BY <1>0 DEF RowTypes
  <2>2. Sources!SemanticEnd(j, interval[i].source, when) =
            IF Ends(j) THEN Later(j) ELSE interval[j].until
      BY <1>o DEF Sources!SemanticEnd, Sources!KeyOf
  <2>3. interval'[j] = [interval[j] EXCEPT
            !.retired = IF j = i THEN when ELSE @,
            !.until = IF Ends(j) THEN Later(j) ELSE interval[j].until]
      BY <1>0, <2>2 DEF Sources!Retire
  <2>4. Later(j) \in Sources!Time
      BY <2>1 DEF IntervalRow
  <2>5. /\ interval[j].retired \in Sources!Time \cup {Sources!Never}
        /\ interval[j].until \in Sources!Time \cup {Sources!Never}
      BY <2>1 DEF IntervalRow
  <2> HIDE DEF Ends, Later
  <2>6. interval'[j] \in IntervalRow
      BY <2>1, <2>3, <2>4, <2>5 DEF IntervalRow
  <2> QED
      BY <2>1, <2>3, <2>6 DEF IntervalRow
<1>2. interval' \in Seq(IntervalRow) /\ Len(interval') = n
  <2>1. /\ DOMAIN interval' = 1..n
        /\ interval' = [j \in 1..n |-> interval'[j]]
      BY <1>0 DEF Sources!Retire
  <2> QED
      BY <1>0, <1>1, <2>1
<1>3. \A j \in 1..n : Sources!KeyOf(j)' = Sources!KeyOf(j)
    BY <1>0, <1>1 DEF Sources!KeyOf
<1>4. \A j \in 1..n :
        /\ interval[j].from \in Nat /\ interval[j].activated \in Nat /\ interval[j].until \in Nat
        /\ interval[j].from <= MaxTime /\ interval[j].until <= MaxTime + 1
        /\ interval[j].source \in 1..Len(evidenceSource)
  <2>1. ASSUME NEW j \in 1..n
        PROVE  /\ interval[j].from \in 0..MaxTime /\ interval[j].activated \in 0..MaxTime
               /\ interval[j].until \in (0..MaxTime) \cup {MaxTime + 1}
      BY <1>1, Times DEF IntervalRow
  <2>2. MaxTime \in Nat
      BY <1>0
  <2>3. \A j \in 1..n : interval[j].source \in 1..Len(evidenceSource)
      BY <1>0 DEF RowTypes
  <2>4. ASSUME NEW j \in 1..n
        PROVE  /\ interval[j].from \in Nat /\ interval[j].from <= MaxTime
               /\ interval[j].activated \in Nat
               /\ interval[j].until \in Nat /\ interval[j].until <= MaxTime + 1
    <3> HIDE DEF Ends, Later
    <3>1. /\ interval[j].from \in 0..MaxTime /\ interval[j].activated \in 0..MaxTime
          /\ interval[j].until \in 0..MaxTime \/ interval[j].until = MaxTime + 1
        BY <2>1
    <3> QED
        BY <2>2, <3>1
  <2> QED
      BY <2>3, <2>4
<1>5. Sources!Never = MaxTime + 1 /\ Sources!Never' = Sources!Never
    BY Times DEF Sources!Never
<1> HIDE DEF Ends, Later
<1>6. \A j \in 1..n : Ends(j) => /\ Later(j) >= when /\ Later(j) >= interval[j].from
                                /\ Later(j) \in {when, interval[j].from}
                                /\ Later(j) # Sources!Never
    BY <1>0, <1>4, <1>5 DEF Later
<1>7. RowTypes'
    BY <1>0, <1>1, <1>2 DEF RowTypes
<1>8. OneOpen'
  <2>1. \A j \in 1..n : Sources!IsOpen(j)' => Sources!IsOpen(j)
      BY <1>0, <1>1, <1>5 DEF Sources!IsOpen
  <2>2. ASSUME NEW j \in 1..n, NEW k \in 1..n, Sources!IsOpen(j)', Sources!IsOpen(k)',
               Sources!KeyOf(j)' = Sources!KeyOf(k)'
        PROVE  j = k
    <3>1. Sources!IsOpen(j) /\ Sources!IsOpen(k)
        BY <2>1, <2>2
    <3>2. Sources!KeyOf(j) = Sources!KeyOf(k)
        BY <1>3, <2>2
    <3> QED
        BY <1>0, <3>1, <3>2 DEF OneOpen
  <2> QED
      BY <1>2, <2>2 DEF OneOpen
<1>k. i \in 1..n /\ Sources!KeyOf(i) = ownKey /\ interval'[i].retired = when /\ ~Sources!IsOpen(i)'
  <2>1. when # Sources!Never
      BY <1>0, <1>5
  <2> QED
      BY <1>0, <1>1, <1>5, <1>o, <2>1 DEF Sources!IsOpen
<1>9. GoesOnShown'
  <2>1. ASSUME NEW j \in 1..n, interval'[j].until = Sources!Never
        PROVE  \E k \in 1..n : Sources!IsOpen(k)' /\ Sources!KeyOf(k)' = Sources!KeyOf(j)'
    <3>1. ~Ends(j) /\ interval[j].until = Sources!Never
        BY <1>1, <1>6, <2>1
    <3>2. Sources!KeyOf(j) # ownKey
        BY <3>1 DEF Ends
    <3>3. PICK k \in 1..n : Sources!IsOpen(k) /\ Sources!KeyOf(k) = Sources!KeyOf(j)
        BY <1>0, <3>1 DEF GoesOnShown
    <3>4. k # i
        BY <1>k, <3>2, <3>3
    <3>5. Sources!IsOpen(k)' /\ Sources!KeyOf(k)' = Sources!KeyOf(j)'
        BY <1>1, <1>3, <1>5, <3>3, <3>4 DEF Sources!IsOpen
    <3> QED
        BY <3>5
  <2> QED
      BY <1>2, <1>5, <2>1 DEF GoesOnShown
<1>10. EndedBy'
  <2>1. ASSUME NEW j \in 1..n, interval'[j].until # Sources!Never
        PROVE  \/ interval'[j].until <= interval'[j].from
               \/ \E k \in 1..n : /\ Sources!KeyOf(k)' = Sources!KeyOf(j)' /\ ~Sources!IsOpen(k)'
                                  /\ interval'[j].until <= interval'[k].retired
    <3>1. CASE Ends(j)
      <4>1. interval'[j].until \in {when, interval'[j].from}
          BY <1>1, <1>6, <3>1
      <4>2. Sources!KeyOf(i)' = Sources!KeyOf(j)'
          BY <1>3, <1>k, <3>1 DEF Ends
      <4>3. when <= when /\ interval[j].from <= interval[j].from
          BY <1>0, <1>4
      <4> QED
          BY <1>1, <1>k, <4>1, <4>2, <4>3
    <3>2. CASE ~Ends(j)
      <4>1. interval'[j].until = interval[j].until /\ interval'[j].from = interval[j].from
          BY <1>1, <3>2
      <4>2. CASE interval[j].until <= interval[j].from
          BY <4>1, <4>2
      <4>3. CASE ~(interval[j].until <= interval[j].from)
        <5>1. PICK k \in 1..n : /\ Sources!KeyOf(k) = Sources!KeyOf(j) /\ ~Sources!IsOpen(k)
                                /\ interval[j].until <= interval[k].retired
            BY <1>0, <2>1, <4>1, <4>3 DEF EndedBy
        <5>2. k # i
            BY <1>0, <5>1
        <5>3. ~Sources!IsOpen(k)' /\ interval'[k].retired = interval[k].retired
            BY <1>1, <1>5, <5>1, <5>2 DEF Sources!IsOpen
        <5> QED
            BY <1>3, <4>1, <5>1, <5>3
      <4> QED
          BY <4>2, <4>3
    <3> QED
        BY <3>1, <3>2
  <2> QED
      BY <1>2, <1>5, <2>1 DEF EndedBy
<1>11. ASSUME NEW t \in Sources!Time, NEW j \in 1..n
       PROVE  Sources!Holds(j, t)' <=> Sources!Holds(j, t) /\ (Ends(j) => t < Later(j))
  <2>0. t \in Nat /\ t <= MaxTime
      BY <1>0, Times
  <2>1. CASE Ends(j)
    <3>1. interval[j].until = MaxTime + 1 /\ interval'[j].until = Later(j)
        BY <1>1, <1>5, <2>1 DEF Ends
    <3>2. t < interval[j].until
        BY <1>0, <2>0, <3>1
    <3> QED
        BY <1>0, <1>1, <2>1, <3>1, <3>2 DEF Sources!Holds
  <2>2. CASE ~Ends(j)
      BY <1>0, <1>1, <2>2 DEF Sources!Holds
  <2> QED
      BY <2>1, <2>2
<1>12. \A j, k \in 1..n : Sources!Prevails(k, j)' <=> Sources!Prevails(k, j)
    BY <1>0, <1>1 DEF Sources!Prevails
<1>13. ASSUME NEW t \in Sources!Time, t < when PROVE Sources!AsOf(t)' = Sources!AsOf(t)
  <2>0. t \in Nat
      BY <1>0, Times
  <2>1. \A j \in 1..n : Sources!Holds(j, t)' <=> Sources!Holds(j, t)
    <3>1. ASSUME NEW j \in 1..n, Ends(j) PROVE t < Later(j)
      <4>1. Later(j) >= when /\ Later(j) \in {when, interval[j].from}
          BY <1>6, <3>1
      <4>2. Later(j) \in Nat
          BY <1>0, <1>4, <4>1
      <4>3. t \in Nat /\ when \in Nat /\ t < when
          BY <1>0, <1>13, <2>0
      <4> QED
          BY <4>1, <4>2, <4>3
    <3> QED
        BY <1>11, <3>1
  <2>2. \A j \in 1..n : interval'[j].source = interval[j].source
      BY <1>1
  <2>3. ASSUME NEW r PROVE r \in Sources!AsOf(t)' <=> r \in Sources!AsOf(t)
    <3>1. r \in Sources!AsOf(t) <=>
            \E j \in 1..n : /\ r = interval[j].source /\ Sources!Holds(j, t)
                             /\ ~\E k \in 1..n : /\ Sources!KeyOf(k) = Sources!KeyOf(j)
                                                 /\ Sources!Holds(k, t) /\ Sources!Prevails(k, j)
        BY <1>0 DEF Sources!AsOf
    <3>2. r \in Sources!AsOf(t)' <=>
            \E j \in 1..n : /\ r = interval'[j].source /\ Sources!Holds(j, t)'
                             /\ ~\E k \in 1..n : /\ Sources!KeyOf(k)' = Sources!KeyOf(j)'
                                                 /\ Sources!Holds(k, t)' /\ Sources!Prevails(k, j)'
        BY <1>2 DEF Sources!AsOf
    <3> QED
        BY <1>3, <1>12, <2>1, <2>2, <3>1, <3>2
  <2> QED
      BY <2>3
<1>14. ASSUME NEW t \in Sources!Time, when <= t, NEW r \in Sources!AsOf(t)', r \notin Sources!AsOf(t)
       PROVE  \E j \in 1..n : /\ interval[j].source = r /\ t < interval[j].until
                              /\ interval[j].until # Sources!Never
  <2>0. t \in Nat
      BY <1>0, Times
  <2>1. PICK j \in 1..n :
            /\ r = interval'[j].source /\ Sources!Holds(j, t)'
            /\ \A k \in 1..n : ~(/\ Sources!KeyOf(k)' = Sources!KeyOf(j)'
                                 /\ Sources!Holds(k, t)' /\ Sources!Prevails(k, j)')
      BY <1>2, <1>14 DEF Sources!AsOf
  <2>2. r = interval[j].source /\ Sources!Holds(j, t) /\ (Ends(j) => t < Later(j))
      BY <1>1, <1>11, <2>1
  <2>3. t < interval[j].until /\ interval[j].from <= t
      BY <2>2 DEF Sources!Holds
  <2>4. interval[j].until # Sources!Never
    <3> SUFFICES ASSUME interval[j].until = Sources!Never PROVE FALSE
        OBVIOUS
    <3>1. ~Ends(j)
      <4> SUFFICES ASSUME Ends(j) PROVE FALSE
          OBVIOUS
      <4>1. t < Later(j) /\ Later(j) \in {when, interval[j].from}
          BY <1>6, <2>2
      <4> QED
          BY <1>0, <1>4, <1>14, <2>0, <2>3, <4>1
    <3>2. Sources!KeyOf(j) # ownKey
        BY <3>1 DEF Ends
    <3>3. PICK k \in 1..n : /\ Sources!KeyOf(k) = Sources!KeyOf(j)
                            /\ Sources!Holds(k, t) /\ Sources!Prevails(k, j)
        BY <1>0, <1>14, <2>2 DEF Sources!AsOf
    <3>4. ~Ends(k)
        BY <3>2, <3>3 DEF Ends
    <3>5. /\ Sources!KeyOf(k)' = Sources!KeyOf(j)' /\ Sources!Holds(k, t)'
          /\ Sources!Prevails(k, j)'
        BY <1>3, <1>11, <1>12, <3>3, <3>4
    <3> QED
        BY <2>1, <3>5
  <2> QED
      BY <2>2, <2>3, <2>4
<1>15. Sources!PastKept
  <2> SUFFICES ASSUME NEW t \in Sources!Time
               PROVE  /\ Sources!AsOf(t)' # Sources!AsOf(t) => Sources!Retires(t)
                      /\ \A r \in Sources!AsOf(t)' \ Sources!AsOf(t) :
                            \E j \in 1..Len(interval) : /\ interval[j].source = r /\ t < interval[j].until
                                                        /\ interval[j].until # Sources!Never
      BY DEF Sources!PastKept
  <2>1. when \in Nat /\ t \in Nat
      BY <1>0, Times
  <2>2. CASE t < when
      BY <1>13, <2>2
  <2>3. CASE when <= t
    <3>1. interval[i].retired # when
        BY <1>0, <1>5 DEF Sources!IsOpen
    <3>2. Sources!Retires(t)
        BY <1>0, <1>k, <2>3, <3>1 DEF Sources!Retires
    <3> QED
        BY <1>0, <1>14, <2>3, <3>2
  <2> QED
      BY <2>1, <2>2, <2>3
<1> QED
    BY <1>0, <1>7, <1>8, <1>9, <1>10, <1>15 DEF IntervalInv
------------------------------------------------------------------------------
(* Searches                                                                *)

\* What a reader may see are sources there are.
LEMMA AllowedThere ==
    ASSUME RowTypes, NEW reader, NEW asOf
    PROVE  Sources!Allowed(reader, asOf) \subseteq 1..Len(evidenceSource)
<1>1. Sources!Current \subseteq 1..Len(evidenceSource)
    BY DEF RowTypes, Sources!Current
<1>2. ASSUME NEW t PROVE Sources!AsOf(t) \subseteq 1..Len(evidenceSource)
    BY DEF RowTypes, Sources!AsOf
<1> QED
    BY <1>1, <1>2 DEF Sources!Allowed, Sources!Readable

\* A search takes nothing into its answer that is not among the sources it read first.
LEMMA SearchKeeps ==
    ASSUME EvidenceInv, UNCHANGED <<now, evidenceSource, interval, begun>>,
           \/ \E reader \in Reader, asOf \in Sources!Time \cup {Sources!Present} :
                \/ Sources!Begin(reader, asOf)
                \/ Sources!Lookup(reader, asOf, "history")
                \/ Sources!Lookup(reader, asOf, "entity")
           \/ \E reader \in Reader : Sources!Lookup(reader, Sources!Present, "recent")
           \/ Sources!AskGraph \/ (\E s \in 1..Len(evidenceSource) : Sources!GraphAnswers({s}))
           \/ Sources!GraphFails
           \/ (\E newer \in {{}, 1..Len(evidenceSource)} : Sources!Answer(newer))
           \/ Sources!Return
    PROVE  SearchTypes'
<1> DEFINE rows == 1..Len(evidenceSource)
<1>0. /\ RowTypes /\ search \in SearchRow /\ search.sources \subseteq rows
      /\ search.found \subseteq search.sources /\ rows \subseteq Nat /\ rows' = rows
      /\ now \in Int
    BY Times DEF EvidenceInv, IntervalInv, RowTypes, SearchTypes
<1>i. /\ Sources!Idle \in SearchRow /\ Sources!Idle.sources = {} /\ Sources!Idle.found = {}
      /\ Sources!Idle.graph = "healthy"
    BY Times DEF Sources!Idle, SearchRow
<1>1. ASSUME NEW reader \in Reader, NEW asOf \in Sources!Time \cup {Sources!Present},
             Sources!Begin(reader, asOf)
      PROVE  SearchTypes'
  <2> DEFINE sources == Sources!Allowed(reader, asOf)
             moment == IF asOf = Sources!Present THEN now ELSE asOf
  <2>1. sources \subseteq rows /\ moment \in Int
      BY <1>0, AllowedThere, Times DEF Sources!Present
  <2>2. search' = [Sources!Idle EXCEPT !.at = "read", !.reader = reader, !.asOf = asOf,
                                       !.moment = moment, !.sources = sources]
      BY <1>1 DEF Sources!Begin
  <2> HIDE DEF sources, moment
  <2>3. search' \in SearchRow /\ search'.sources = sources /\ search'.found = {}
      BY <1>0, <1>i, <2>1, <2>2 DEF SearchRow
  <2> QED
      BY <1>0, <2>1, <2>3 DEF SearchTypes
<1>2. ASSUME NEW reader \in Reader, NEW asOf \in Sources!Time \cup {Sources!Present},
             NEW kind \in {"history", "entity", "recent"}, Sources!Lookup(reader, asOf, kind),
             kind = "recent" => asOf = Sources!Present
      PROVE  SearchTypes'
  <2> DEFINE sources == IF kind = "history" /\ asOf = Sources!Present
                        THEN Sources!Readable(reader, Sources!Source)
                        ELSE Sources!Allowed(reader, asOf)
             moment == IF asOf = Sources!Present THEN now ELSE asOf
             found == CASE kind = "recent" -> Sources!Allowed(reader, Sources!Present)
                        [] kind = "history" ->
                                {s \in sources : evidenceSource[s].recorded <= moment}
                        [] OTHER -> Sources!FactsAt(sources, moment)
  <2>1. sources \subseteq rows /\ moment \in Int
      BY <1>0, AllowedThere, Times DEF Sources!Present, Sources!Readable, Sources!Source
  <2>2. search' = [Sources!Idle EXCEPT !.at = "told", !.reader = reader, !.asOf = asOf,
                        !.moment = moment, !.sources = sources, !.found = found]
      BY <1>2 DEF Sources!Lookup
  <2>3. found \subseteq sources
    <3>1. CASE kind = "recent"
      <4>1. sources = Sources!Allowed(reader, Sources!Present)
          BY <1>2, <3>1
      <4> QED
          BY <3>1, <4>1
    <3>2. CASE kind = "history"
        BY <3>2
    <3>3. CASE kind = "entity"
      <4>1. found = Sources!FactsAt(sources, moment)
          BY <3>3
      <4> QED
          BY <4>1 DEF Sources!FactsAt
    <3> QED
        BY <3>1, <3>2, <3>3
  <2> HIDE DEF sources, moment, found
  <2>4. search' \in SearchRow /\ search'.sources = sources /\ search'.found = found
      BY <1>0, <1>i, <2>1, <2>2, <2>3 DEF SearchRow
  <2> QED
      BY <1>0, <2>1, <2>3, <2>4 DEF SearchTypes
<1>3. CASE Sources!AskGraph
  <2>1. PICK answered \in SUBSET search.sources,
             graph \in {"healthy", "skipped", "restricted"} :
             search' = [search EXCEPT !.at = "graph", !.documents = answered, !.graph = graph,
                                      !.found = answered]
    <3> DEFINE answered == Sources!DocumentsAt(search.sources, search.moment)
               graph == IF search.asOf # Sources!Present /\ PresentOnly THEN "skipped"
                         ELSE IF NeedsAll /\ search.sources # Sources!Allowed(Admin, search.asOf)
                              THEN "restricted" ELSE "healthy"
    <3>1. search' = [search EXCEPT !.at = "graph", !.documents = answered, !.graph = graph,
                                   !.found = answered]
        BY <1>3 DEF Sources!AskGraph
    <3>2. answered \in SUBSET search.sources
        BY DEF Sources!DocumentsAt
    <3>3. graph \in {"healthy", "skipped", "restricted"}
        OBVIOUS
    <3> HIDE DEF answered, graph
    <3> QED
        BY <3>1, <3>2, <3>3
  <2>2. search' \in SearchRow /\ search'.sources = search.sources /\ search'.found = answered
      BY <1>0, <2>1 DEF SearchRow
  <2> QED
      BY <1>0, <2>1, <2>2 DEF SearchTypes
<1>4. ASSUME NEW hits \in SUBSET Nat, Sources!GraphAnswers(hits) PROVE SearchTypes'
  <2>1. search' = [search EXCEPT !.at = "answered", !.found = @ \cup Sources!Verified(hits)]
      BY <1>4 DEF Sources!GraphAnswers
  <2>2. Sources!Verified(hits) \subseteq search.sources
      BY DEF Sources!Verified
  <2>3. /\ search' \in SearchRow /\ search'.sources = search.sources
        /\ search'.found = search.found \cup Sources!Verified(hits)
      BY <1>0, <2>1, <2>2 DEF SearchRow
  <2> QED
      BY <1>0, <2>2, <2>3 DEF SearchTypes
<1>5. CASE Sources!GraphFails
  <2>1. PICK graph \in {"healthy", "skipped", "restricted", "degraded"} :
            search' = [search EXCEPT !.at = "answered", !.graph = graph]
      BY <1>0, <1>5 DEF Sources!GraphFails, SearchRow
  <2>2. /\ search' \in SearchRow /\ search'.sources = search.sources
        /\ search'.found = search.found
      BY <1>0, <2>1 DEF SearchRow
  <2> QED
      BY <1>0, <2>2 DEF SearchTypes
<1>6. ASSUME NEW newer, Sources!Answer(newer) PROVE SearchTypes'
  <2> DEFINE facts == Sources!FactsAt(search.sources, search.moment) \cap newer
  <2>1. search' = [search EXCEPT !.at = "told", !.found = @ \cup facts]
      BY <1>6 DEF Sources!Answer
  <2>2. facts \subseteq search.sources
      BY DEF Sources!FactsAt
  <2> HIDE DEF facts
  <2>3. /\ search' \in SearchRow /\ search'.sources = search.sources
        /\ search'.found = search.found \cup facts
      BY <1>0, <2>1, <2>2 DEF SearchRow
  <2> QED
      BY <1>0, <2>2, <2>3 DEF SearchTypes
<1>7. CASE Sources!Return
    BY <1>0, <1>7, <1>i DEF Sources!Return, SearchTypes, Sources!Idle
<1>8. \A s \in 1..Len(evidenceSource) : {s} \in SUBSET Nat
    BY <1>0
<1> QED
    BY <1>1, <1>2, <1>3, <1>4, <1>5, <1>6, <1>7, <1>8

\* The inductive invariant, and the past, through any step of the part.
LEMMA EvidenceNext ==
    EvidenceInv /\ [Sources!Next]_SourcesVars => EvidenceInv' /\ Sources!PastKept
<1> SUFFICES ASSUME EvidenceInv, [Sources!Next]_SourcesVars
             PROVE  EvidenceInv' /\ Sources!PastKept
    OBVIOUS
<1>0. IntervalInv /\ SearchTypes /\ Len(evidenceSource) \in Nat
    BY DEF EvidenceInv, IntervalInv, RowTypes
<1>1. ASSUME UNCHANGED <<evidenceSource, interval>>, now' \in Sources!Time, begun' \subseteq SourceRow
      PROVE  IntervalInv' /\ Sources!PastKept
  <2>1. RowTypes'
      BY <1>0, <1>1 DEF IntervalInv, RowTypes, SourceRow, Sources!Time
  <2>2. OneOpen' /\ GoesOnShown' /\ EndedBy'
      BY <1>0, <1>1 DEF IntervalInv, OneOpen, GoesOnShown, EndedBy, Sources!IsOpen,
                        Sources!KeyOf, Sources!Never
  <2>3. Sources!PastKept
      BY <1>1 DEF Sources!PastKept
  <2> QED
      BY <2>1, <2>2, <2>3 DEF IntervalInv
<1>2. ASSUME search' = search, Len(evidenceSource') >= Len(evidenceSource), IntervalInv'
      PROVE  EvidenceInv'
  <2>1. Len(evidenceSource') \in Nat
      BY <1>2 DEF IntervalInv, RowTypes
  <2>2. search.sources \subseteq 1..Len(evidenceSource')
      BY <1>0, <1>2, <2>1 DEF SearchTypes
  <2>3. SearchRow' = SearchRow
      BY DEF SearchRow, Sources!Time, Sources!Present
  <2> QED
      BY <1>0, <1>2, <2>2, <2>3 DEF SearchTypes, EvidenceInv
<1>3. ASSUME NEW new \in begun, Sources!Ingest(new)
      PROVE  EvidenceInv' /\ Sources!PastKept
    BY <1>0, <1>2, <1>3, IngestKeeps
<1>4. ASSUME NEW s \in Sources!Source, NEW when \in Sources!Time, Sources!Reactivate(s, when)
      PROVE  EvidenceInv' /\ Sources!PastKept
    BY <1>0, <1>2, <1>4, ReactivateKeeps DEF Sources!Source
<1>5. ASSUME NEW i \in 1..Len(interval), NEW when \in Sources!Time, Sources!Retire(i, when)
      PROVE  EvidenceInv' /\ Sources!PastKept
    BY <1>0, <1>2, <1>5, RetireKeeps
<1>a. now \in Sources!Time /\ begun \subseteq SourceRow
    BY <1>0 DEF IntervalInv, RowTypes
<1>b. ASSUME NEW key \in Key, NEW said \in Contents, NEW dates \in Dates,
             Sources!ReadToIngest(key, said, dates[1], dates[2])
      PROVE  EvidenceInv' /\ Sources!PastKept
  <2>1. PICK number \in 1..(Len(evidenceSource) + 1) :
            begun' = begun \cup {[key |-> key, content |-> said, from |-> dates[1], observed |-> dates[2],
                                 recorded |-> now, version |-> number]}
      BY <1>b DEF Sources!ReadToIngest, Sources!Source
  <2>2. dates[1] \in Sources!Time /\ dates[2] \in Sources!Time /\ number \in Nat
      BY <1>0, Times
  <2>3. UNCHANGED <<now, evidenceSource, interval, search>>
      BY <1>b DEF Sources!ReadToIngest
  <2>4. begun' \subseteq SourceRow
      BY <1>a, <2>1, <2>2 DEF SourceRow
  <2> QED
      BY <1>0, <1>1, <1>2, <1>a, <2>3, <2>4
<1>c. ASSUME NEW new \in begun, Sources!Abandon(new)
      PROVE  EvidenceInv' /\ Sources!PastKept
  <2>1. UNCHANGED <<now, evidenceSource, interval, search>> /\ begun' \subseteq begun
      BY <1>c DEF Sources!Abandon
  <2> QED
      BY <1>0, <1>1, <1>2, <1>a, <2>1
<1>6. CASE Sources!Tick
  <2>1. /\ UNCHANGED <<evidenceSource, interval, begun, search>> /\ now < MaxTime /\ now' = now + 1
        /\ now \in 0..MaxTime
      BY <1>6, <1>a, Times DEF Sources!Tick
  <2>2. now' \in Sources!Time
      BY <2>1, Times
  <2> QED
      BY <1>0, <1>1, <1>2, <1>a, <2>1, <2>2
<1>7. CASE UNCHANGED SourcesVars
  <2>1. UNCHANGED <<now, evidenceSource, interval, begun, search>>
      BY <1>7 DEF SourcesVars
  <2> QED
      BY <1>0, <1>1, <1>2, <1>a, <2>1
<1>8. CASE \/ \E reader \in Reader, asOf \in Sources!Time \cup {Sources!Present} :
                \/ Sources!Begin(reader, asOf)
                \/ Sources!Lookup(reader, asOf, "history")
                \/ Sources!Lookup(reader, asOf, "entity")
           \/ \E reader \in Reader : Sources!Lookup(reader, Sources!Present, "recent")
           \/ Sources!AskGraph \/ (\E s \in 1..Len(evidenceSource) : Sources!GraphAnswers({s}))
           \/ Sources!GraphFails
           \/ (\E newer \in {{}, 1..Len(evidenceSource)} : Sources!Answer(newer))
           \/ Sources!Return
  <2>1. UNCHANGED <<now, evidenceSource, interval, begun>>
      BY <1>8 DEF Sources!Begin, Sources!Lookup, Sources!AskGraph, Sources!GraphAnswers,
                  Sources!GraphFails, Sources!Answer, Sources!Return
  <2>2. SearchTypes'
      BY <1>8, <2>1, SearchKeeps
  <2> QED
      BY <1>1, <1>a, <2>1, <2>2 DEF EvidenceInv
<1> QED
    BY <1>3, <1>4, <1>5, <1>6, <1>7, <1>8, <1>b, <1>c DEF Sources!Next, Sources!Source

EvidencePartInv == part = "evidence" => EvidenceInv

\* Whatever is ingested, shown again, retired and searched for, the intervals of a key stay in
\* the states EvidenceInv describes (_activate_source_tx, _retire_source_tx).
THEOREM EvidenceInvariance == SideBySide => []EvidencePartInv
<1>1. StartAll => EvidencePartInv
    BY EvidenceInit DEF StartAll, EvidencePartInv
<1>2. EvidencePartInv /\ [StepOne]_allVars => EvidencePartInv'
  <2> SUFFICES ASSUME EvidencePartInv, [StepOne]_allVars, part' = "evidence"
               PROVE  EvidenceInv'
      BY DEF EvidencePartInv
  <2>1. part = "evidence" /\ [Sources!Next]_SourcesVars
      BY DEF StepOne, allVars
  <2> QED
      BY <2>1, EvidenceNext DEF EvidencePartInv
<1> QED
    BY <1>1, <1>2, PTL DEF SideBySide

\* Of a key one version is shown, one is read as of a moment but for versions of one number,
\* and none as of a moment by which all were retired; and a search returns only what was
\* visible to its reader when it began, whatever the graph answers (allowed_sources).
THEOREM OneVersionAtATimeHolds == SideBySide => []OneVersionAtATime
<1>1. EvidencePartInv => OneVersionAtATime
  <2> SUFFICES ASSUME EvidenceInv
               PROVE  /\ Sources!TypeOK /\ Sources!OneVersionAtATime
                      /\ Sources!AnswersWereVisible
      BY DEF EvidencePartInv, OneVersionAtATime
  <2>0. RowTypes /\ OneOpen /\ GoesOnShown /\ EndedBy /\ SearchTypes
      BY DEF EvidenceInv, IntervalInv
  <2>1. Sources!TypeOK
    <3>1. \A i \in 1..Len(interval) : interval[i] \in [source: Sources!Source,
                activated: Sources!Time, retired: Sources!Time \cup {Sources!Never},
                from: Sources!Time, until: Sources!Time \cup {Sources!Never}]
      <4>1. \A i \in 1..Len(interval) : /\ interval[i] \in IntervalRow
                                        /\ interval[i].source \in Sources!Source
          BY <2>0 DEF RowTypes, Sources!Source
      <4> QED
          BY <4>1 DEF IntervalRow
    <3>2. begun \cup {evidenceSource[s] : s \in Sources!Source} \subseteq SourceRow
        BY <2>0 DEF RowTypes, Sources!Source
    <3>3. /\ search.at \in {"idle", "read", "graph", "answered", "told"}
          /\ search.graph \in {"healthy", "skipped", "restricted", "degraded"}
          /\ search.sources \subseteq Sources!Source
        BY <2>0 DEF SearchTypes, SearchRow, Sources!Source
    <3> QED
        BY <2>0, <3>1, <3>2, <3>3 DEF Sources!TypeOK, RowTypes, SourceRow
  <2>2. ASSUME NEW s \in Sources!Current, NEW r \in Sources!Current,
               evidenceSource[s].key = evidenceSource[r].key
        PROVE  s = r
      BY <2>0, <2>2 DEF Sources!Current, OneOpen, Sources!KeyOf
  <2>3. ASSUME NEW t \in Sources!Time, NEW s \in Sources!AsOf(t), NEW r \in Sources!AsOf(t),
               evidenceSource[s].key = evidenceSource[r].key
        PROVE  s = r \/ evidenceSource[s].version = evidenceSource[r].version
    <3>1. PICK i \in 1..Len(interval) :
              /\ s = interval[i].source /\ Sources!Holds(i, t)
              /\ ~\E k \in 1..Len(interval) : /\ Sources!KeyOf(k) = Sources!KeyOf(i)
                                              /\ Sources!Holds(k, t) /\ Sources!Prevails(k, i)
        BY DEF Sources!AsOf
    <3>2. PICK j \in 1..Len(interval) :
              /\ r = interval[j].source /\ Sources!Holds(j, t)
              /\ ~\E k \in 1..Len(interval) : /\ Sources!KeyOf(k) = Sources!KeyOf(j)
                                              /\ Sources!Holds(k, t) /\ Sources!Prevails(k, j)
        BY DEF Sources!AsOf
    <3>3. Sources!KeyOf(i) = Sources!KeyOf(j)
        BY <2>3, <3>1, <3>2 DEF Sources!KeyOf
    <3>4. ~Sources!Prevails(i, j) /\ ~Sources!Prevails(j, i)
        BY <3>1, <3>2, <3>3
    <3>5. /\ interval[i].from \in Nat /\ interval[j].from \in Nat
          /\ evidenceSource[s].version \in Nat /\ evidenceSource[r].version \in Nat
      <4>1. /\ interval[i] \in IntervalRow /\ interval[j] \in IntervalRow
            /\ evidenceSource[s] \in SourceRow /\ evidenceSource[r] \in SourceRow
          BY <2>0, <3>1, <3>2 DEF RowTypes
      <4>2. interval[i].from \in Nat /\ interval[j].from \in Nat
          BY <4>1, Times DEF IntervalRow
      <4>3. evidenceSource[s].version \in Nat /\ evidenceSource[r].version \in Nat
          BY <4>1 DEF SourceRow
      <4> QED
          BY <4>2, <4>3
    <3> QED
        BY <3>1, <3>2, <3>4, <3>5 DEF Sources!Prevails
  <2>5. ASSUME NEW t \in Sources!Time, NEW s \in Sources!AsOf(t),
               Sources!Withdrawn(evidenceSource[s].key, t)
        PROVE  FALSE
    <3>1. PICK i \in 1..Len(interval) : s = interval[i].source /\ Sources!Holds(i, t)
        BY DEF Sources!AsOf
    <3>2. \A k \in 1..Len(interval) :
            Sources!KeyOf(k) = Sources!KeyOf(i) => interval[k].retired <= t
        BY <2>5, <3>1 DEF Sources!Withdrawn, Sources!KeyOf
    <3>3. interval[i].from <= t /\ t < interval[i].until
        BY <3>1 DEF Sources!Holds
    <3>4. t \in Nat /\ t <= MaxTime /\ MaxTime \in Nat
        BY Times
    <3>5. \A k \in 1..Len(interval) : interval[k] \in IntervalRow
        BY <2>0 DEF RowTypes
    <3>6. \A k \in 1..Len(interval) :
            /\ interval[k].from \in Nat /\ interval[k].until \in Nat /\ interval[k].retired \in Nat
            /\ Sources!IsOpen(k) => interval[k].retired = MaxTime + 1
        BY <3>4, <3>5, Times DEF IntervalRow, Sources!IsOpen
    <3>7. interval[i].until # Sources!Never
      <4> SUFFICES ASSUME interval[i].until = Sources!Never PROVE FALSE
          OBVIOUS
      <4>1. PICK k \in 1..Len(interval) : Sources!IsOpen(k) /\ Sources!KeyOf(k) = Sources!KeyOf(i)
          BY <2>0 DEF GoesOnShown
      <4> QED
          BY <3>2, <3>4, <3>6, <4>1
    <3>8. ~(interval[i].until <= interval[i].from)
        BY <3>3, <3>4, <3>6
    <3>9. PICK k \in 1..Len(interval) : /\ Sources!KeyOf(k) = Sources!KeyOf(i)
                                        /\ interval[i].until <= interval[k].retired
        BY <2>0, <3>7, <3>8 DEF EndedBy
    <3> QED
        BY <3>2, <3>3, <3>4, <3>6, <3>9
  <2>4. Sources!OneVersionAtATime
      BY <2>2, <2>3, <2>5 DEF Sources!OneVersionAtATime
  <2> QED
      BY <2>0, <2>1, <2>4 DEF SearchTypes, Sources!AnswersWereVisible
<1> QED
    BY <1>1, EvidenceInvariance, PTL

\* A write changes what is read as of a moment only from its date on, and brings nothing back
\* that goes on; the cursor of a stream never moves back (_retire_source_tx, _promote_cursor).
THEOREM NothingGoesBackHolds == SideBySide => NothingGoesBack
<1>1. EvidencePartInv /\ SyncPartInv /\ [StepOne]_allVars =>
        [/\ part = "evidence" => Sources!PastKept
         /\ part = "sync" => Sync!CursorMovesOn]_allVars
  <2> SUFFICES ASSUME EvidencePartInv, SyncPartInv, [StepOne]_allVars
               PROVE  /\ part = "evidence" => Sources!PastKept
                      /\ part = "sync" => Sync!CursorMovesOn
      OBVIOUS
  <2>1. ASSUME part = "evidence" PROVE Sources!PastKept
      BY <2>1, EvidenceNext DEF StepOne, allVars, EvidencePartInv
  <2>2. ASSUME part = "sync" PROVE Sync!CursorMovesOn
    <3>1. SyncInv /\ [Sync!Next]_SyncVars
        BY <2>2 DEF StepOne, allVars, SyncPartInv
    <3>2. cursor \in 0..Pages /\ Pages \in Nat
        BY <3>1, SyncBounds DEF SyncInv, Sync!TypeOK
    <3>3. cursor' = cursor \/ cursor' = Sync!Following(cursor)
        BY <3>1, CursorStep DEF SyncVars
    <3> QED
        BY <3>2, <3>3 DEF Sync!CursorMovesOn, Sync!Following
  <2> QED
      BY <2>1, <2>2
<1> QED
    BY <1>1, EvidenceInvariance, SyncInvariance, PTL DEF SideBySide, NothingGoesBack
------------------------------------------------------------------------------
(* Graph projection                                                        *)

\* The active one of some generations, or 0.
ActiveOf(gs) ==
    IF \E g \in DOMAIN gs : gs[g].status = "active"
    THEN CHOOSE g \in DOMAIN gs : gs[g].status = "active"
    ELSE 0

OneIsActive(gs) ==
    \A g, h \in DOMAIN gs : gs[g].status = "active" /\ gs[h].status = "active" => g = h

\* A generation keeps what it was started with; only its status changes.
Remains(gs, new) ==
    \A g \in DOMAIN gs :
        g \in DOMAIN new /\ new[g].watermark = gs[g].watermark /\ new[g].erased = gs[g].erased

\* A process with a document in hand, and one with a generation it is projecting into.
Ingesting == {"ingesting", "committed", "upserting"}
Rebuilding == {"projecting", "projected"}

HandsTyped ==
    /\ doc \in [Process -> Nat] /\ gen \in [Process -> Nat] /\ deletes \in Nat
    /\ snapshot \in [Process -> [ds : SUBSET (1..Documents), erased : Nat]]
    /\ \A p \in Process :
        /\ projectionAt[p] \in Ingesting => doc[p] \in 1..recorded
        /\ projectionAt[p] = "upserting" => gen[p] \in DOMAIN generations
    /\ Len(generations) <= MaxRebuilds

\* A rebuild has a generation of its own, with the watermark of what it read.
Owned ==
    /\ \A p \in Process : projectionAt[p] \in Rebuilding =>
        /\ gen[p] \in DOMAIN generations
        /\ generations[gen[p]].status = "building"
        /\ generations[gen[p]].watermark = Projection!Watermark(snapshot[p].ds)
        /\ generations[gen[p]].erased = snapshot[p].erased
        /\ projectionAt[p] = "projected" => snapshot[p].ds \subseteq episodes[gen[p]]
    /\ \A p, q \in Process :
        projectionAt[p] \in Rebuilding /\ projectionAt[q] \in Rebuilding /\ p # q => gen[p] # gen[q]

\* What was read and is gone was erased since.
ReadFits ==
    \A p \in Process : Cardinality(snapshot[p].ds \ documents) + snapshot[p].erased <= deletes

\* The document has a process that will still see the active generation, or has seen it.
OnItsWay(d) ==
    \E p \in Process :
        /\ doc[p] = d
        /\ \/ projectionAt[p] = "committed"
           \/ projectionAt[p] = "upserting" /\ gen[p] = ActiveOf(generations)

\* What the active generation misses and no process will add.  An upsert into a generation
\* that was replaced does not count: NothingLostBySwitch is not inductive with it.
Behind ==
    {d \in documents :
        /\ ActiveOf(generations) # 0
        /\ d \notin episodes[ActiveOf(generations)] /\ d \notin failed /\ ~OnItsWay(d)}

FewBehind ==
    ActiveOf(generations) # 0 =>
        Cardinality(Behind) + generations[ActiveOf(generations)].erased <= deletes

ProjectionInv ==
    /\ Projection!TypeOK /\ HandsTyped /\ OneIsActive(generations) /\ Owned /\ ReadFits /\ FewBehind

LEMMA ActiveIs == Projection!Active = ActiveOf(generations)
BY DEF Projection!Active, ActiveOf

\* The active generation is one of them, if there is one.
LEMMA ActiveIsOne ==
    ASSUME NEW gs \in Seq(Projection!Generation)
    PROVE  /\ ActiveOf(gs) \in Nat
           /\ ActiveOf(gs) # 0 => ActiveOf(gs) \in DOMAIN gs /\ gs[ActiveOf(gs)].status = "active"
           /\ \A g \in DOMAIN gs : gs[g].status = "active" => ActiveOf(gs) # 0
<1>1. DOMAIN gs \subseteq Nat \ {0}
    OBVIOUS
<1> DEFINE IsActive(g) == g \in DOMAIN gs /\ gs[g].status = "active"
<1>2. ActiveOf(gs) = IF \E g \in DOMAIN gs : gs[g].status = "active"
                     THEN CHOOSE g \in DOMAIN gs : gs[g].status = "active" ELSE 0
    BY DEF ActiveOf
<1>3. CASE \E g \in DOMAIN gs : gs[g].status = "active"
  <2>1. ActiveOf(gs) = CHOOSE g \in DOMAIN gs : gs[g].status = "active"
      BY <1>2, <1>3
  <2>2. ActiveOf(gs) \in DOMAIN gs /\ gs[ActiveOf(gs)].status = "active"
      BY <1>3, <2>1, Zenon
  <2> QED
      BY <1>1, <2>2
<1>4. CASE ~(\E g \in DOMAIN gs : gs[g].status = "active")
    BY <1>2, <1>4
<1> QED
    BY <1>3, <1>4

\* Generations whose active ones are the same have the same active one.
LEMMA SameActive ==
    ASSUME NEW gs \in Seq(Projection!Generation), NEW new \in Seq(Projection!Generation),
           OneIsActive(gs), DOMAIN gs \subseteq DOMAIN new,
           \A g \in DOMAIN new :
               new[g].status = "active" <=> g \in DOMAIN gs /\ gs[g].status = "active"
    PROVE  ActiveOf(new) = ActiveOf(gs) /\ OneIsActive(new)
<1>1. OneIsActive(new)
    BY DEF OneIsActive
<1>2. CASE ActiveOf(gs) = 0
  <2>1. \A g \in DOMAIN gs : gs[g].status # "active"
      BY <1>2, ActiveIsOne
  <2>2. ActiveOf(new) = 0
      BY <2>1, ActiveIsOne
  <2> QED
      BY <1>1, <1>2, <2>2
<1>3. CASE ActiveOf(gs) # 0
  <2>1. ActiveOf(gs) \in DOMAIN new /\ new[ActiveOf(gs)].status = "active"
      BY <1>3, ActiveIsOne
  <2>2. ActiveOf(new) \in DOMAIN new /\ new[ActiveOf(new)].status = "active"
      BY <2>1, ActiveIsOne
  <2> QED
      BY <1>1, <2>1, <2>2 DEF OneIsActive
<1> QED
    BY <1>2, <1>3

LEMMA ProjectionBounds ==
    Documents \in Nat /\ MaxRebuilds \in Nat /\ MaxDeletes \in Nat /\ MaxCrashes \in Nat
BY ProjectionAssumption DEF Projection!ProjectionAssumption

LEMMA CountIs ==
    ASSUME NEW S
    PROVE  Projection!Cardinality(S) = Cardinality(S)
BY DEF Projection!Cardinality, Cardinality

LEMMA WatermarkIs ==
    ASSUME NEW ds \in SUBSET (1..Documents)
    PROVE  /\ IsFiniteSet(ds) /\ Cardinality(ds) \in Nat
           /\ Projection!Watermark(ds) \in Nat \X Nat
           /\ Projection!Watermark(ds)[1] = Cardinality(ds)
<1>1. Documents \in Nat /\ ds \subseteq Nat
    BY ProjectionBounds
<1>2. IsFiniteSet(ds) /\ Cardinality(ds) \in Nat
  <2>1. IsFiniteSet(1..Documents)
      BY <1>1, FS_Interval
  <2> QED
      BY <2>1, FS_Subset, FS_CardinalityType
<1>3. Projection!Latest(ds) \in Nat
  <2>1. CASE ds = {}
      BY <2>1 DEF Projection!Latest
  <2>2. CASE ds # {}
    <3>1. \E d \in ds : \A e \in ds : e <= d
        BY <1>2, <2>2, HasGreatest
    <3>2. Projection!Latest(ds) = CHOOSE d \in ds : \A e \in ds : e <= d
        BY <2>2 DEF Projection!Latest
    <3>3. Projection!Latest(ds) \in ds
        BY <3>1, <3>2, Zenon
    <3> QED
        BY <1>1, <3>3
  <2> QED
      BY <2>1, <2>2
<1>4. Projection!Watermark(ds) = <<Cardinality(ds), Projection!Latest(ds)>>
    BY CountIs DEF Projection!Watermark
<1> QED
    BY <1>2, <1>3, <1>4

\* A generation that takes another status.
Retagged(r, new) == [r EXCEPT !.status = new]

LEMMA RetaggedIs ==
    ASSUME NEW r \in Projection!Generation, NEW s \in {"building", "active", "retired", "failed"}
    PROVE  /\ Retagged(r, s) \in Projection!Generation /\ Retagged(r, s).status = s
           /\ Retagged(r, s).watermark = r.watermark /\ Retagged(r, s).erased = r.erased
BY DEF Retagged, Projection!Generation

\* A generation fails.
Failing(gs, g) == [gs EXCEPT ![g].status = "failed"]

LEMMA FailedIs ==
    ASSUME NEW gs \in Seq(Projection!Generation), NEW g \in DOMAIN gs, NEW new,
           new = Failing(gs, g)
    PROVE  /\ new \in Seq(Projection!Generation) /\ DOMAIN new = DOMAIN gs /\ Len(new) = Len(gs)
           /\ Remains(gs, new) /\ new[g].status = "failed"
           /\ \A h \in DOMAIN gs : h # g => new[h] = gs[h]
<1> DEFINE r == gs[g]
<1>1. new = [gs EXCEPT ![g] = Retagged(r, "failed")]
    BY DEF Retagged, Failing
<1>2. r \in Projection!Generation
    OBVIOUS
<1>3. Retagged(r, "failed") \in Projection!Generation
    BY <1>2, RetaggedIs
<1>4. new \in Seq(Projection!Generation) /\ DOMAIN new = DOMAIN gs /\ Len(new) = Len(gs)
    BY <1>1, <1>3
<1>5. new[g] = Retagged(r, "failed") /\ \A h \in DOMAIN gs : h # g => new[h] = gs[h]
    BY <1>1
<1>6. new[g].status = "failed" /\ new[g].watermark = gs[g].watermark /\ new[g].erased = gs[g].erased
    BY <1>2, <1>5, RetaggedIs
<1> QED
    BY <1>4, <1>5, <1>6 DEF Remains

\* One generation takes the place of another.
Switching(gs, g, a) ==
    [h \in DOMAIN gs |-> IF h = g THEN Retagged(gs[h], "active")
                         ELSE IF h = a THEN Retagged(gs[h], "retired") ELSE gs[h]]

LEMMA SwitchedIs ==
    ASSUME NEW gs \in Seq(Projection!Generation), NEW g \in DOMAIN gs, NEW a \in Nat, NEW new,
           new = Switching(gs, g, a)
    PROVE  /\ new \in Seq(Projection!Generation) /\ DOMAIN new = DOMAIN gs /\ Len(new) = Len(gs)
           /\ Remains(gs, new) /\ new[g].status = "active"
           /\ a \in DOMAIN gs /\ a # g => new[a].status = "retired"
           /\ \A h \in DOMAIN gs : h # g /\ h # a => new[h] = gs[h]
<1>0. new = [h \in DOMAIN gs |-> IF h = g THEN Retagged(gs[h], "active")
                                 ELSE IF h = a THEN Retagged(gs[h], "retired") ELSE gs[h]]
    BY DEF Switching
<1>1. \A h \in DOMAIN gs : gs[h] \in Projection!Generation
    OBVIOUS
<1>2. \A h \in DOMAIN gs :
        /\ new[h] \in Projection!Generation
        /\ new[h].watermark = gs[h].watermark /\ new[h].erased = gs[h].erased
    BY <1>0, <1>1, RetaggedIs
<1>3. DOMAIN gs = 1..Len(gs) /\ Len(gs) \in Nat
    OBVIOUS
<1>4. new \in Seq(Projection!Generation) /\ DOMAIN new = DOMAIN gs /\ Len(new) = Len(gs)
  <2>1. DOMAIN new = 1..Len(gs)
      BY <1>0, <1>3
  <2>2. new \in [1..Len(gs) -> Projection!Generation]
      BY <1>0, <1>2, <1>3, <2>1
  <2> QED
      BY <1>3, <2>1, <2>2
<1>5. new[g].status = "active" /\ (a \in DOMAIN gs /\ a # g => new[a].status = "retired")
    BY <1>0, <1>1, RetaggedIs
<1> QED
    BY <1>0, <1>2, <1>4, <1>5 DEF Remains

LEMMA Fewer ==
    ASSUME NEW S, NEW T, IsFiniteSet(T), S \subseteq T
    PROVE  /\ IsFiniteSet(S) /\ Cardinality(S) \in Nat /\ Cardinality(T) \in Nat
           /\ Cardinality(S) <= Cardinality(T)
BY FS_Subset, FS_CardinalityType

LEMMA DocumentsFinite ==
    ASSUME Projection!TypeOK
    PROVE  documents \subseteq 1..Documents /\ IsFiniteSet(documents) /\ documents \subseteq Nat
<1>1. recorded \in 0..Documents /\ documents \subseteq 1..recorded /\ Documents \in Nat
    BY ProjectionBounds DEF Projection!TypeOK
<1>2. documents \subseteq 1..Documents
    BY <1>1
<1> QED
    BY <1>1, <1>2, WatermarkIs

\* No generation becomes active, and none ceases to be.
ActiveAsBefore ==
    /\ DOMAIN generations \subseteq DOMAIN generations'
    /\ Remains(generations, generations')
    /\ \A g \in DOMAIN generations' :
        generations'[g].status = "active" <=>
            g \in DOMAIN generations /\ generations[g].status = "active"

LEMMA UnchangedIsAsBefore ==
    ASSUME generations' = generations
    PROVE  ActiveAsBefore
BY DEF ActiveAsBefore, Remains

\* What p had on its way to generation a still is, or is there, or among what failed.
OnWayKept(p, a) ==
    \/ projectionAt'[p] = projectionAt[p] /\ doc'[p] = doc[p] /\ gen'[p] = gen[p]
    \/ projectionAt[p] \notin {"committed", "upserting"} \/ doc[p] \in failed'
    \/ projectionAt[p] = "committed" /\ a = 0
    \/ /\ projectionAt[p] = "committed" /\ projectionAt'[p] = "upserting"
       /\ doc'[p] = doc[p] /\ gen'[p] = a
    \/ projectionAt[p] = "upserting" /\ (gen[p] = a => doc[p] \in episodes'[a])

\* After such a step nothing more is behind.
LEMMA StillFewBehind ==
    ASSUME ProjectionInv, Projection!TypeOK', ActiveAsBefore,
           deletes' \in Nat, deletes <= deletes',
           \A g \in 1..MaxRebuilds : episodes[g] \subseteq episodes'[g], failed \subseteq failed',
           \A p \in Process : OnWayKept(p, ActiveOf(generations)),
           \A d \in documents' : d \in documents \/
               (\E p \in Process : doc'[p] = d /\ projectionAt'[p] = "committed")
    PROVE  OneIsActive(generations') /\ FewBehind'
<1>1. /\ generations \in Seq(Projection!Generation) /\ generations' \in Seq(Projection!Generation)
      /\ OneIsActive(generations) /\ Len(generations) \in Nat /\ Len(generations) <= MaxRebuilds
    BY DEF ProjectionInv, Projection!TypeOK, HandsTyped
<1>2. ActiveOf(generations') = ActiveOf(generations) /\ OneIsActive(generations')
    BY <1>1, SameActive DEF ActiveAsBefore
<1> DEFINE a == ActiveOf(generations)
<1>3. a # 0 => a \in 1..MaxRebuilds /\ a \in DOMAIN generations
  <2>1. a # 0 => a \in DOMAIN generations
      BY <1>1, ActiveIsOne
  <2> HIDE DEF a
  <2> QED
      BY <1>1, <2>1, ProjectionBounds
<1>4. Behind' = {d \in documents' : a # 0 /\ d \notin episodes'[a] /\ d \notin failed' /\ ~OnItsWay(d)'}
    BY <1>2 DEF Behind
<1>5. \A d : OnItsWay(d)' <=> \E p \in Process :
        /\ doc'[p] = d
        /\ \/ projectionAt'[p] = "committed"
           \/ projectionAt'[p] = "upserting" /\ gen'[p] = a
    BY <1>2 DEF OnItsWay
<1>6. \A d : OnItsWay(d) <=> \E p \in Process :
        /\ doc[p] = d
        /\ \/ projectionAt[p] = "committed"
           \/ projectionAt[p] = "upserting" /\ gen[p] = a
    BY DEF OnItsWay
<1>7. Behind = {d \in documents : a # 0 /\ d \notin episodes[a] /\ d \notin failed /\ ~OnItsWay(d)}
    BY DEF Behind
<1>8. a # 0 => Cardinality(Behind) + generations[a].erased <= deletes
    BY DEF ProjectionInv, FewBehind
<1>9. a # 0 => generations'[a].erased = generations[a].erased /\ generations[a] \in Projection!Generation
    BY <1>1, <1>3 DEF ActiveAsBefore, Remains
<1>10. FewBehind' <=> (a # 0 => Cardinality(Behind') + generations'[a].erased <= deletes')
    BY <1>2 DEF FewBehind
<1>13. \A p \in Process : OnWayKept(p, a)
    BY DEF OnWayKept
<1> HIDE DEF a
<1>11. ASSUME NEW d \in Behind' PROVE d \in Behind
  <2>1. /\ a # 0 /\ a \in 1..MaxRebuilds /\ d \notin episodes'[a] /\ d \notin failed' /\ d \in documents'
        /\ ~OnItsWay(d)'
      BY <1>3, <1>4, <1>11
  <2>2. d \in documents /\ d \notin episodes[a] /\ d \notin failed
      BY <1>5, <2>1
  <2>3. ASSUME NEW p \in Process, doc[p] = d,
               \/ projectionAt[p] = "committed"
               \/ projectionAt[p] = "upserting" /\ gen[p] = a
        PROVE  FALSE
    <3>1. /\ ~(doc'[p] = d /\ projectionAt'[p] = "committed")
          /\ ~(doc'[p] = d /\ projectionAt'[p] = "upserting" /\ gen'[p] = a)
        BY <1>5, <2>1
    <3>2. ~(projectionAt'[p] = projectionAt[p] /\ doc'[p] = doc[p] /\ gen'[p] = gen[p])
        BY <2>3, <3>1
    <3>3. projectionAt[p] = "upserting" => gen[p] = a /\ gen[p] # 0
        BY <2>1, <2>3
    <3> QED
        BY <1>13, <2>1, <2>3, <3>1, <3>2, <3>3 DEF OnWayKept
  <2>4. ~OnItsWay(d)
      BY <1>6, <2>3
  <2> QED
      BY <1>7, <2>1, <2>2, <2>4
<1>12. ASSUME a # 0 PROVE Cardinality(Behind') + generations'[a].erased <= deletes'
  <2>1. Behind \subseteq documents /\ Behind' \subseteq Behind
      BY <1>7, <1>11
  <2>2. /\ IsFiniteSet(Behind) /\ Cardinality(Behind') <= Cardinality(Behind)
        /\ Cardinality(Behind') \in Nat /\ Cardinality(Behind) \in Nat
      BY <2>1, DocumentsFinite, Fewer DEF ProjectionInv
  <2>3. generations[a].erased \in Nat
      BY <1>9, <1>12 DEF Projection!Generation
  <2>4. deletes \in Nat
      BY DEF ProjectionInv, HandsTyped
  <2> QED
      BY <1>8, <1>9, <1>12, <2>2, <2>3, <2>4
<1> QED
    BY <1>2, <1>10, <1>12

\* A process that projects after the step did before, into the same generation.
WorkKept(p) ==
    projectionAt'[p] \in Rebuilding =>
        /\ projectionAt[p] \in Rebuilding /\ gen'[p] = gen[p] /\ snapshot'[p] = snapshot[p]
        /\ generations'[gen[p]] = generations[gen[p]]
        /\ projectionAt'[p] = "projected" =>
              projectionAt[p] = "projected" \/ snapshot[p].ds \subseteq episodes'[gen[p]]

LEMMA OwnIsOne ==
    ASSUME ProjectionInv, NEW p \in Process, projectionAt[p] \in Rebuilding
    PROVE  gen[p] \in 1..MaxRebuilds /\ gen[p] \in DOMAIN generations
<1>1. gen[p] \in DOMAIN generations
    BY DEF ProjectionInv, Owned
<1>2. DOMAIN generations = 1..Len(generations) /\ Len(generations) <= MaxRebuilds
    BY DEF ProjectionInv, Projection!TypeOK, HandsTyped
<1>3. Len(generations) \in Nat /\ MaxRebuilds \in Nat
    BY ProjectionBounds DEF ProjectionInv, Projection!TypeOK
<1> QED
    BY <1>1, <1>2, <1>3

LEMMA StillOwned ==
    ASSUME ProjectionInv, DOMAIN generations \subseteq DOMAIN generations',
           \A g \in 1..MaxRebuilds : episodes[g] \subseteq episodes'[g],
           \A p \in Process : WorkKept(p)
    PROVE  Owned'
<1>1. Owned
    BY DEF ProjectionInv
<1>2. ASSUME NEW p \in Process, projectionAt'[p] \in Rebuilding
      PROVE  /\ projectionAt[p] \in Rebuilding /\ gen'[p] = gen[p]
             /\ gen'[p] \in DOMAIN generations'
             /\ generations'[gen'[p]].status = "building"
             /\ generations'[gen'[p]].watermark = Projection!Watermark(snapshot'[p].ds)
             /\ generations'[gen'[p]].erased = snapshot'[p].erased
             /\ projectionAt'[p] = "projected" => snapshot'[p].ds \subseteq episodes'[gen'[p]]
  <2>1. /\ projectionAt[p] \in Rebuilding /\ gen'[p] = gen[p] /\ snapshot'[p] = snapshot[p]
        /\ generations'[gen[p]] = generations[gen[p]]
        /\ projectionAt'[p] = "projected" =>
              projectionAt[p] = "projected" \/ snapshot[p].ds \subseteq episodes'[gen[p]]
      BY <1>2 DEF WorkKept
  <2>2. gen[p] \in 1..MaxRebuilds /\ gen[p] \in DOMAIN generations
      BY <2>1, OwnIsOne
  <2>3. projectionAt[p] = "projected" => snapshot[p].ds \subseteq episodes'[gen[p]]
      BY <1>1, <2>1, <2>2 DEF Owned
  <2> QED
      BY <1>1, <2>1, <2>2, <2>3 DEF Owned
<1>3. \A p, q \in Process :
        projectionAt'[p] \in Rebuilding /\ projectionAt'[q] \in Rebuilding /\ p # q
            => gen'[p] # gen'[q]
    BY <1>1, <1>2 DEF Owned
<1> QED
    BY <1>2, <1>3 DEF Owned

\* What a process has read, now or before.
ReadKept(p) ==
    \/ snapshot'[p] = snapshot[p] \/ snapshot'[p] = Projection!NoSnapshot
    \/ snapshot'[p] = [ds |-> documents', erased |-> deletes']

LEMMA StillFits ==
    ASSUME ProjectionInv, documents \subseteq documents', deletes' = deletes,
           \A p \in Process : ReadKept(p)
    PROVE  ReadFits'
<1>1. /\ ReadFits /\ deletes \in Nat
      /\ snapshot \in [Process -> [ds : SUBSET (1..Documents), erased : Nat]]
    BY DEF ProjectionInv, HandsTyped
<1>2. ASSUME NEW p \in Process
      PROVE  Cardinality(snapshot'[p].ds \ documents') + snapshot'[p].erased <= deletes
  <2>1. CASE snapshot'[p] = snapshot[p]
    <3>1. Cardinality(snapshot[p].ds \ documents) + snapshot[p].erased <= deletes
        BY <1>1 DEF ReadFits
    <3>2. IsFiniteSet(snapshot[p].ds) /\ snapshot[p].erased \in Nat
        BY <1>1, WatermarkIs
    <3>3. /\ snapshot[p].ds \ documents' \subseteq snapshot[p].ds \ documents
          /\ snapshot[p].ds \ documents \subseteq snapshot[p].ds
        OBVIOUS
    <3>4. IsFiniteSet(snapshot[p].ds \ documents)
        BY <3>2, <3>3, Fewer
    <3>5. /\ Cardinality(snapshot[p].ds \ documents') <= Cardinality(snapshot[p].ds \ documents)
          /\ Cardinality(snapshot[p].ds \ documents') \in Nat
          /\ Cardinality(snapshot[p].ds \ documents) \in Nat
        BY <3>3, <3>4, Fewer
    <3> QED
        BY <1>1, <2>1, <3>1, <3>2, <3>5
  <2>2. CASE snapshot'[p] = Projection!NoSnapshot
    <3>1. snapshot'[p].ds \ documents' = {} /\ snapshot'[p].erased = 0
        BY <2>2 DEF Projection!NoSnapshot
    <3> QED
        BY <1>1, <3>1, FS_EmptySet
  <2>3. CASE snapshot'[p] = [ds |-> documents', erased |-> deletes']
    <3>1. snapshot'[p].ds \ documents' = {} /\ snapshot'[p].erased = deletes
        BY <2>3
    <3>2. Cardinality({}) = 0 /\ deletes \in Nat
        BY <1>1, FS_EmptySet
    <3> QED
        BY <3>1, <3>2
  <2> QED
      BY <2>1, <2>2, <2>3 DEF ReadKept
<1> QED
    BY <1>2 DEF ReadFits

\* A step that leaves the generations as they are.
LEMMA QuietStep ==
    ASSUME ProjectionInv, Projection!TypeOK', HandsTyped', UNCHANGED <<generations, deletes>>,
           documents \subseteq documents', failed \subseteq failed',
           \A g \in 1..MaxRebuilds : episodes[g] \subseteq episodes'[g],
           \A p \in Process : OnWayKept(p, ActiveOf(generations)) /\ WorkKept(p) /\ ReadKept(p),
           \A d \in documents' : d \in documents \/
               (\E p \in Process : doc'[p] = d /\ projectionAt'[p] = "committed")
    PROVE  ProjectionInv'
<1>1. deletes' \in Nat /\ deletes <= deletes' /\ deletes' = deletes
    BY DEF ProjectionInv, HandsTyped
<1>2. ActiveAsBefore
    BY UnchangedIsAsBefore
<1>3. OneIsActive(generations') /\ FewBehind'
    BY <1>1, <1>2, StillFewBehind
<1>4. Owned'
    BY StillOwned
<1>5. ReadFits'
    BY <1>1, StillFits
<1> QED
    BY <1>3, <1>4, <1>5 DEF ProjectionInv

\* What the inductive invariant says of the hands of the processes, by its parts.
LEMMA HandsAre ==
    ASSUME ProjectionInv
    PROVE  /\ Projection!TypeOK /\ HandsTyped
           /\ generations \in Seq(Projection!Generation) /\ DOMAIN generations = 1..Len(generations)
           /\ Len(generations) \in Nat /\ Len(generations) <= MaxRebuilds /\ MaxRebuilds \in Nat
           /\ recorded \in Nat /\ recorded <= Documents /\ Documents \in Nat
           /\ documents \subseteq 1..recorded
BY ProjectionBounds DEF ProjectionInv, HandsTyped, Projection!TypeOK

LEMMA BeginStep ==
    ASSUME ProjectionInv, NEW p \in Process, Projection!Begin(p)
    PROVE  ProjectionInv'
<1>1. /\ projectionAt[p] = "idle" /\ recorded < Documents /\ recorded' = recorded + 1
      /\ doc' = [doc EXCEPT ![p] = recorded + 1]
      /\ projectionAt' = [projectionAt EXCEPT ![p] = "ingesting"]
      /\ UNCHANGED <<documents, generations, episodes, snapshot, gen, health, failed, deletes,
                     projectionCrashes>>
    BY DEF Projection!Begin, Projection!Goto, Projection!bounds
<1>2. Projection!TypeOK'
  <2>1. recorded' \in 0..Documents /\ documents' \subseteq 1..recorded'
      BY <1>1, HandsAre
  <2> QED
      BY <1>1, <2>1, HandsAre DEF Projection!TypeOK
<1>3. HandsTyped'
  <2>1. \A q \in Process : projectionAt'[q] \in Ingesting => doc'[q] \in 1..recorded'
      BY <1>1, HandsAre DEF HandsTyped, Projection!TypeOK, Ingesting
  <2> QED
      BY <1>1, <2>1, HandsAre DEF HandsTyped, Projection!TypeOK
<1>4. \A q \in Process : OnWayKept(q, ActiveOf(generations)) /\ WorkKept(q) /\ ReadKept(q)
    BY <1>1, HandsAre DEF OnWayKept, WorkKept, ReadKept, Rebuilding, HandsTyped, Projection!TypeOK
<1> QED
    BY <1>1, <1>2, <1>3, <1>4, QuietStep

LEMMA CommitStep ==
    ASSUME ProjectionInv, NEW p \in Process, Projection!Commit(p)
    PROVE  ProjectionInv'
<1>1. /\ projectionAt[p] = "ingesting" /\ documents' = documents \cup {doc[p]}
      /\ projectionAt' = [projectionAt EXCEPT ![p] = "committed"]
      /\ UNCHANGED <<recorded, doc, generations, episodes, snapshot, gen, health, failed, deletes,
                     projectionCrashes>>
    BY DEF Projection!Commit, Projection!Goto, Projection!bounds
<1>2. doc[p] \in 1..recorded
    BY <1>1, HandsAre DEF HandsTyped, Ingesting
<1>3. Projection!TypeOK'
    BY <1>1, <1>2, HandsAre DEF Projection!TypeOK
<1>4. HandsTyped'
    BY <1>1, HandsAre DEF HandsTyped, Projection!TypeOK, Ingesting
<1>5. \A q \in Process : OnWayKept(q, ActiveOf(generations)) /\ WorkKept(q) /\ ReadKept(q)
    BY <1>1, HandsAre DEF OnWayKept, WorkKept, ReadKept, Rebuilding, HandsTyped, Projection!TypeOK
<1>6. doc'[p] = doc[p] /\ projectionAt'[p] = "committed"
    BY <1>1, HandsAre DEF Projection!TypeOK
<1> QED
    BY <1>1, <1>3, <1>4, <1>5, <1>6, QuietStep

LEMMA ReadActiveStep ==
    ASSUME ProjectionInv, NEW p \in Process, Projection!ReadActive(p)
    PROVE  ProjectionInv'
<1> DEFINE a == ActiveOf(generations)
<1>1. /\ projectionAt[p] = "committed" /\ gen' = [gen EXCEPT ![p] = a]
      /\ \/ /\ a = 0 /\ projectionAt' = [projectionAt EXCEPT ![p] = "idle"]
            /\ doc' = [doc EXCEPT ![p] = 0]
         \/ /\ a # 0 /\ projectionAt' = [projectionAt EXCEPT ![p] = "upserting"] /\ doc' = doc
      /\ UNCHANGED <<recorded, documents, generations, episodes, snapshot, health, failed, deletes,
                     projectionCrashes>>
    BY ActiveIs DEF Projection!ReadActive, Projection!Goto, Projection!bounds, Projection!rows
<1>2. a \in Nat /\ (a # 0 => a \in DOMAIN generations)
    BY ActiveIsOne, HandsAre
<1> HIDE DEF a
<1>3. Projection!TypeOK'
    BY <1>1, HandsAre DEF Projection!TypeOK
<1>4. HandsTyped'
  <2>1. \A q \in Process : projectionAt'[q] \in Ingesting => doc'[q] \in 1..recorded'
      BY <1>1, HandsAre DEF HandsTyped, Projection!TypeOK, Ingesting
  <2>2. \A q \in Process : projectionAt'[q] = "upserting" => gen'[q] \in DOMAIN generations'
      BY <1>1, <1>2, HandsAre DEF HandsTyped, Projection!TypeOK
  <2> QED
      BY <1>1, <1>2, <2>1, <2>2, HandsAre DEF HandsTyped, Projection!TypeOK
<1>5. \A q \in Process : OnWayKept(q, a) /\ WorkKept(q) /\ ReadKept(q)
    BY <1>1, HandsAre DEF OnWayKept, WorkKept, ReadKept, Rebuilding, HandsTyped, Projection!TypeOK
<1> QED
    BY <1>1, <1>3, <1>4, <1>5, QuietStep DEF a

LEMMA UpsertStep ==
    ASSUME ProjectionInv, NEW p \in Process, Projection!Upsert(p)
    PROVE  ProjectionInv'
<1>1. /\ projectionAt[p] = "upserting" /\ projectionAt' = [projectionAt EXCEPT ![p] = "idle"]
      /\ doc' = [doc EXCEPT ![p] = 0] /\ gen' = [gen EXCEPT ![p] = 0]
      /\ \/ episodes' = [episodes EXCEPT ![gen[p]] = @ \cup {doc[p]}] /\ failed' = failed
         \/ episodes' = episodes /\ failed' = failed \cup {doc[p]}
      /\ health' \in [Process -> {"healthy", "degraded"}]
      /\ UNCHANGED <<recorded, documents, generations, snapshot, deletes, projectionCrashes>>
    BY HandsAre DEF Projection!Upsert, Projection!Goto, Projection!Report, Projection!bounds, Projection!rows,
                    Projection!TypeOK
<1>2. doc[p] \in 1..recorded /\ doc[p] \in 1..Documents /\ gen[p] \in 1..MaxRebuilds
  <2>1. doc[p] \in 1..recorded /\ gen[p] \in DOMAIN generations
      BY <1>1, HandsAre DEF HandsTyped, Ingesting
  <2> QED
      BY <2>1, HandsAre
<1>3. /\ episodes' \in [1..MaxRebuilds -> SUBSET (1..Documents)] /\ failed' \subseteq 1..Documents
      /\ failed \subseteq failed' /\ \A g \in 1..MaxRebuilds : episodes[g] \subseteq episodes'[g]
      /\ doc[p] \in failed' \/ doc[p] \in episodes'[gen[p]]
  <2>1. episodes \in [1..MaxRebuilds -> SUBSET (1..Documents)] /\ failed \subseteq 1..Documents
      BY HandsAre DEF Projection!TypeOK
  <2>2. CASE episodes' = [episodes EXCEPT ![gen[p]] = @ \cup {doc[p]}] /\ failed' = failed
      BY <1>2, <2>1, <2>2
  <2>3. CASE episodes' = episodes /\ failed' = failed \cup {doc[p]}
      BY <1>2, <2>1, <2>3
  <2> QED
      BY <1>1, <2>2, <2>3
<1>4. Projection!TypeOK'
    BY <1>1, <1>3, HandsAre DEF Projection!TypeOK
<1>5. HandsTyped'
    BY <1>1, HandsAre DEF HandsTyped, Projection!TypeOK, Ingesting
<1>6. \A q \in Process : OnWayKept(q, ActiveOf(generations))
    BY <1>1, <1>3, HandsAre DEF OnWayKept, HandsTyped, Projection!TypeOK
<1>7. \A q \in Process : WorkKept(q) /\ ReadKept(q)
    BY <1>1, HandsAre DEF WorkKept, ReadKept, Rebuilding, HandsTyped, Projection!TypeOK
<1> QED
    BY <1>1, <1>3, <1>4, <1>5, <1>6, <1>7, QuietStep

LEMMA ReadDocumentsStep ==
    ASSUME ProjectionInv, NEW p \in Process, Projection!ReadDocuments(p)
    PROVE  ProjectionInv'
<1>1. /\ projectionAt[p] \in {"idle", "starting"}
      /\ projectionAt' = [projectionAt EXCEPT ![p] = "read"]
      /\ snapshot' = [snapshot EXCEPT ![p] = [ds |-> documents, erased |-> deletes]]
      /\ UNCHANGED <<recorded, documents, generations, episodes, doc, gen, health, failed, deletes,
                     projectionCrashes>>
    BY DEF Projection!ReadDocuments, Projection!Goto, Projection!bounds, Projection!rows
<1>2. [ds |-> documents, erased |-> deletes] \in [ds : SUBSET (1..Documents), erased : Nat]
  <2>1. documents \subseteq 1..Documents /\ deletes \in Nat
      BY HandsAre, DocumentsFinite DEF HandsTyped
  <2> QED
      BY <2>1
<1>3. Projection!TypeOK'
    BY <1>1, HandsAre DEF Projection!TypeOK
<1>4. HandsTyped'
    BY <1>1, <1>2, HandsAre DEF HandsTyped, Projection!TypeOK, Ingesting
<1>5. \A q \in Process : OnWayKept(q, ActiveOf(generations)) /\ WorkKept(q) /\ ReadKept(q)
    BY <1>1, HandsAre DEF OnWayKept, WorkKept, ReadKept, Rebuilding, HandsTyped, Projection!TypeOK
<1> QED
    BY <1>1, <1>3, <1>4, <1>5, QuietStep

LEMMA ProjectStep ==
    ASSUME ProjectionInv, NEW p \in Process, Projection!Project(p)
    PROVE  ProjectionInv'
<1>1. /\ projectionAt[p] = "projecting" /\ projectionAt' = [projectionAt EXCEPT ![p] = "projected"]
      /\ episodes' = [episodes EXCEPT ![gen[p]] = @ \cup snapshot[p].ds]
      /\ UNCHANGED <<recorded, documents, generations, doc, gen, snapshot, health, failed, deletes,
                     projectionCrashes>>
    BY DEF Projection!Project, Projection!Goto, Projection!bounds, Projection!rows
<1>2. gen[p] \in 1..MaxRebuilds
    BY <1>1, OwnIsOne DEF Rebuilding
<1>3. /\ episodes' \in [1..MaxRebuilds -> SUBSET (1..Documents)]
      /\ \A g \in 1..MaxRebuilds : episodes[g] \subseteq episodes'[g]
      /\ snapshot[p].ds \subseteq episodes'[gen[p]]
  <2>1. episodes \in [1..MaxRebuilds -> SUBSET (1..Documents)] /\ snapshot[p].ds \subseteq 1..Documents
      BY HandsAre DEF Projection!TypeOK, HandsTyped
  <2> QED
      BY <1>1, <1>2, <2>1
<1>4. Projection!TypeOK'
    BY <1>1, <1>3, HandsAre DEF Projection!TypeOK
<1>5. HandsTyped'
    BY <1>1, HandsAre DEF HandsTyped, Projection!TypeOK, Ingesting
<1>6. \A q \in Process : OnWayKept(q, ActiveOf(generations)) /\ WorkKept(q) /\ ReadKept(q)
    BY <1>1, <1>3, HandsAre DEF OnWayKept, WorkKept, ReadKept, Rebuilding, HandsTyped,
       Projection!TypeOK
<1> QED
    BY <1>1, <1>3, <1>4, <1>5, <1>6, QuietStep

LEMMA CrashStep ==
    ASSUME ProjectionInv, NEW p \in Process, Projection!Crash(p)
    PROVE  ProjectionInv'
<1>1. /\ projectionAt' = [projectionAt EXCEPT ![p] = "down"] /\ doc' = [doc EXCEPT ![p] = 0]
      /\ gen' = [gen EXCEPT ![p] = 0] /\ snapshot' = [snapshot EXCEPT ![p] = Projection!NoSnapshot]
      /\ failed' = IF projectionAt[p] \in {"committed", "upserting"}
                   THEN failed \cup {doc[p]} ELSE failed
      /\ health' \in [Process -> {"healthy", "degraded"}]
      /\ UNCHANGED <<recorded, documents, generations, episodes, deletes>>
    BY HandsAre DEF Projection!Crash, Projection!rows, Projection!TypeOK
<1>2. failed' \subseteq 1..Documents /\ failed \subseteq failed'
  <2>1. projectionAt[p] \in {"committed", "upserting"} => doc[p] \in 1..Documents
      BY HandsAre DEF HandsTyped, Ingesting
  <2> QED
      BY <1>1, <2>1, HandsAre DEF Projection!TypeOK
<1>3. Projection!NoSnapshot \in [ds : SUBSET (1..Documents), erased : Nat]
    BY DEF Projection!NoSnapshot
<1>4. Projection!TypeOK'
    BY <1>1, <1>2, HandsAre DEF Projection!TypeOK
<1>5. HandsTyped'
    BY <1>1, <1>3, HandsAre DEF HandsTyped, Projection!TypeOK, Ingesting
<1>6. \A q \in Process : OnWayKept(q, ActiveOf(generations)) /\ WorkKept(q) /\ ReadKept(q)
    BY <1>1, HandsAre DEF OnWayKept, WorkKept, ReadKept, Rebuilding, HandsTyped, Projection!TypeOK
<1>7. \A g \in 1..MaxRebuilds : episodes[g] \subseteq episodes'[g]
    BY <1>1
<1> QED
    BY <1>1, <1>2, <1>4, <1>5, <1>6, <1>7, QuietStep

LEMMA RestartStep ==
    ASSUME ProjectionInv, NEW p \in Process, Projection!Restart(p)
    PROVE  ProjectionInv'
<1>1. /\ projectionAt[p] = "down"
      /\ \E s \in {"idle", "starting"} : projectionAt' = [projectionAt EXCEPT ![p] = s]
      /\ UNCHANGED <<recorded, documents, generations, episodes, doc, gen, snapshot, health, failed,
                     deletes, projectionCrashes>>
    BY DEF Projection!Restart, Projection!Goto, Projection!bounds, Projection!rows
<1>2. PICK s \in {"idle", "starting"} : projectionAt' = [projectionAt EXCEPT ![p] = s]
    BY <1>1
<1>3. Projection!TypeOK'
    BY <1>1, <1>2, HandsAre DEF Projection!TypeOK
<1>4. HandsTyped'
    BY <1>1, <1>2, HandsAre DEF HandsTyped, Projection!TypeOK, Ingesting
<1>5. \A q \in Process : OnWayKept(q, ActiveOf(generations)) /\ WorkKept(q) /\ ReadKept(q)
    BY <1>1, <1>2, HandsAre DEF OnWayKept, WorkKept, ReadKept, Rebuilding, HandsTyped,
       Projection!TypeOK
<1> QED
    BY <1>1, <1>3, <1>4, <1>5, QuietStep

LEMMA EraseStep ==
    ASSUME ProjectionInv, NEW d \in 1..Documents, Projection!Erase(d)
    PROVE  ProjectionInv'
<1>1. /\ d \in documents /\ documents' = documents \ {d} /\ deletes' = deletes + 1
      /\ UNCHANGED <<recorded, generations, episodes, projectionAt, doc, snapshot, gen, health, failed>>
    BY DEF Projection!Erase, Projection!process
<1>2. deletes \in Nat
    BY HandsAre DEF HandsTyped
<1>3. Projection!TypeOK'
    BY <1>1, HandsAre DEF Projection!TypeOK
<1>4. HandsTyped'
    BY <1>1, <1>2, HandsAre DEF HandsTyped, Projection!TypeOK, Ingesting
<1>5. OneIsActive(generations') /\ FewBehind'
  <2>1. ActiveAsBefore
      BY <1>1, UnchangedIsAsBefore
  <2>2. \A q \in Process : OnWayKept(q, ActiveOf(generations))
      BY <1>1 DEF OnWayKept
  <2> QED
      BY <1>1, <1>2, <1>3, <2>1, <2>2, StillFewBehind
<1>6. Owned'
  <2>1. \A q \in Process : WorkKept(q)
      BY <1>1 DEF WorkKept
  <2> QED
      BY <1>1, <2>1, StillOwned
<1>7. ReadFits'
  <2>1. ASSUME NEW q \in Process
        PROVE  Cardinality(snapshot[q].ds \ (documents \ {d})) + snapshot[q].erased <= deletes + 1
    <3>1. Cardinality(snapshot[q].ds \ documents) + snapshot[q].erased <= deletes
        BY DEF ProjectionInv, ReadFits
    <3>2. IsFiniteSet(snapshot[q].ds) /\ snapshot[q].erased \in Nat
        BY HandsAre, WatermarkIs DEF HandsTyped
    <3> DEFINE S == snapshot[q].ds \ documents
               T == snapshot[q].ds \ (documents \ {d})
    <3>3. IsFiniteSet(S) /\ Cardinality(S) \in Nat
        BY <3>2, Fewer
    <3>4. /\ IsFiniteSet(S \cup {d}) /\ Cardinality(S \cup {d}) \in Nat
          /\ Cardinality(S \cup {d}) <= Cardinality(S) + 1
      <4> HIDE DEF S
      <4>1. IsFiniteSet(S \cup {d}) /\ (Cardinality(S \cup {d}) = Cardinality(S)
                                          \/ Cardinality(S \cup {d}) = Cardinality(S) + 1)
          BY <3>3, FS_AddElement
      <4> QED
          BY <3>3, <4>1
    <3>5. T \subseteq S \cup {d}
        OBVIOUS
    <3>6. Cardinality(T) <= Cardinality(S \cup {d}) /\ Cardinality(T) \in Nat
      <4> HIDE DEF S, T
      <4> QED
          BY <3>4, <3>5, Fewer
    <3>7. Cardinality(S) + snapshot[q].erased <= deletes
        BY <3>1
    <3>8. Cardinality(T) + snapshot[q].erased <= deletes + 1
      <4> HIDE DEF S, T
      <4> QED
          BY <1>2, <3>2, <3>3, <3>4, <3>6, <3>7
    <3> QED
        BY <3>8
  <2> QED
      BY <1>1, <2>1 DEF ReadFits
<1> QED
    BY <1>3, <1>4, <1>5, <1>6, <1>7 DEF ProjectionInv

LEMMA StartGenerationStep ==
    ASSUME ProjectionInv, NEW p \in Process, Projection!StartGeneration(p)
    PROVE  ProjectionInv'
<1> DEFINE n == Len(generations) + 1
           new == [status |-> "building", prior |-> Projection!Active,
                   watermark |-> Projection!Watermark(snapshot[p].ds), erased |-> snapshot[p].erased]
<1>1. /\ projectionAt[p] = "read" /\ Len(generations) < MaxRebuilds
      /\ generations' = Append(generations, new)
      /\ gen' = [gen EXCEPT ![p] = n]
      /\ projectionAt' = [projectionAt EXCEPT ![p] = "projecting"]
      /\ UNCHANGED <<recorded, documents, episodes, doc, snapshot, health, failed, deletes,
                     projectionCrashes>>
    BY DEF Projection!StartGeneration, Projection!Goto, Projection!bounds
<1>2. /\ new \in Projection!Generation /\ new.status = "building"
      /\ new.watermark = Projection!Watermark(snapshot[p].ds) /\ new.erased = snapshot[p].erased
  <2>1. Projection!Active \in Nat
      BY ActiveIs, ActiveIsOne, HandsAre
  <2>2. snapshot[p].ds \in SUBSET (1..Documents) /\ snapshot[p].erased \in Nat
      BY HandsAre DEF HandsTyped
  <2>3. Projection!Watermark(snapshot[p].ds) \in Nat \X Nat
      BY <2>2, WatermarkIs
  <2> QED
      BY <2>1, <2>2, <2>3 DEF Projection!Generation
<1> HIDE DEF new
<1>3. /\ generations' \in Seq(Projection!Generation) /\ Len(generations') = n
      /\ DOMAIN generations' = 1..n /\ generations'[n] = new
      /\ \A g \in DOMAIN generations : g \in DOMAIN generations' /\ generations'[g] = generations[g]
      /\ \A g \in DOMAIN generations' : g \in DOMAIN generations \/ g = n
      /\ n \notin DOMAIN generations /\ n \in DOMAIN generations' /\ n \in Nat /\ n <= MaxRebuilds
    BY <1>1, <1>2, HandsAre
<1> HIDE DEF n
<1>4. Projection!TypeOK'
    BY <1>1, <1>3, HandsAre DEF Projection!TypeOK
<1>5. HandsTyped'
  <2>1. \A q \in Process : projectionAt'[q] = "upserting" => gen'[q] \in DOMAIN generations'
      BY <1>1, <1>3, HandsAre DEF HandsTyped, Projection!TypeOK
  <2> QED
      BY <1>1, <1>3, <2>1, HandsAre DEF HandsTyped, Projection!TypeOK, Ingesting
<1>6. OneIsActive(generations') /\ FewBehind'
  <2>1. ActiveAsBefore
      BY <1>2, <1>3 DEF ActiveAsBefore, Remains
  <2>2. \A q \in Process : OnWayKept(q, ActiveOf(generations))
      BY <1>1, HandsAre DEF OnWayKept, HandsTyped, Projection!TypeOK
  <2>3. deletes' \in Nat /\ deletes <= deletes'
      BY <1>1, HandsAre DEF HandsTyped
  <2> QED
      BY <1>1, <1>4, <2>1, <2>2, <2>3, StillFewBehind
<1>7. Owned'
  <2>1. ASSUME NEW q \in Process, projectionAt'[q] \in Rebuilding, q # p
        PROVE  /\ projectionAt[q] \in Rebuilding /\ projectionAt'[q] = projectionAt[q]
               /\ gen'[q] = gen[q] /\ gen[q] \in DOMAIN generations
               /\ generations'[gen[q]] = generations[gen[q]] /\ gen[q] # n
    <3>1. projectionAt'[q] = projectionAt[q] /\ gen'[q] = gen[q]
        BY <1>1, <2>1, HandsAre DEF HandsTyped, Projection!TypeOK
    <3>2. gen[q] \in DOMAIN generations
        BY <2>1, <3>1, OwnIsOne
    <3> QED
        BY <1>3, <2>1, <3>1, <3>2
  <2>2. gen'[p] = n /\ projectionAt'[p] = "projecting"
      BY <1>1, HandsAre DEF HandsTyped, Projection!TypeOK
  <2>3. Owned
      BY DEF ProjectionInv
  <2>4. ASSUME NEW q \in Process, projectionAt'[q] \in Rebuilding
        PROVE  /\ gen'[q] \in DOMAIN generations'
               /\ generations'[gen'[q]].status = "building"
               /\ generations'[gen'[q]].watermark = Projection!Watermark(snapshot'[q].ds)
               /\ generations'[gen'[q]].erased = snapshot'[q].erased
               /\ projectionAt'[q] = "projected" => snapshot'[q].ds \subseteq episodes'[gen'[q]]
    <3>1. CASE q = p
        BY <1>1, <1>2, <1>3, <2>2, <3>1
    <3>2. CASE q # p
        BY <1>1, <1>3, <2>1, <2>3, <2>4, <3>2 DEF Owned
    <3> QED
        BY <3>1, <3>2
  <2>5. \A q, r \in Process :
          projectionAt'[q] \in Rebuilding /\ projectionAt'[r] \in Rebuilding /\ q # r
              => gen'[q] # gen'[r]
      BY <2>1, <2>2, <2>3 DEF Owned
  <2> QED
      BY <2>4, <2>5 DEF Owned
<1>8. ReadFits'
  <2>1. \A q \in Process : ReadKept(q)
      BY <1>1 DEF ReadKept
  <2> QED
      BY <1>1, <2>1, StillFits
<1> QED
    BY <1>4, <1>5, <1>6, <1>7, <1>8 DEF ProjectionInv

\* A rebuild ends: with an active generation, or with one that failed.
LEMMA DoneIs ==
    ASSUME ProjectionInv, NEW p \in Process, projectionAt[p] \in Rebuilding,
           Projection!Done(p), UNCHANGED <<documents, deletes, doc>>,
           \A g \in DOMAIN generations : g # gen[p] =>
               generations'[g] = generations[g] \/ generations[g].status = "active"
    PROVE  /\ \A q \in Process : projectionAt'[q] \in Rebuilding \/ projectionAt'[q] \in Ingesting =>
                  q # p /\ projectionAt'[q] = projectionAt[q] /\ gen'[q] = gen[q]
                  /\ snapshot'[q] = snapshot[q]
           /\ projectionAt' \in [Process -> {"idle", "ingesting", "committed", "upserting", "read",
                                            "projecting", "projected", "down", "starting"}]
           /\ gen' \in [Process -> Nat]
           /\ snapshot' \in [Process -> [ds : SUBSET (1..Documents), erased : Nat]]
           /\ \A q \in Process : WorkKept(q) /\ ReadKept(q)
           /\ \A a : \A q \in Process : OnWayKept(q, a)
<1>1. /\ projectionAt' = [projectionAt EXCEPT ![p] = "idle"] /\ gen' = [gen EXCEPT ![p] = 0]
      /\ snapshot' = [snapshot EXCEPT ![p] = Projection!NoSnapshot]
    BY DEF Projection!Done, Projection!Goto
<1>2. /\ projectionAt \in [Process -> {"idle", "ingesting", "committed", "upserting", "read",
                                      "projecting", "projected", "down", "starting"}]
      /\ gen \in [Process -> Nat]
      /\ snapshot \in [Process -> [ds : SUBSET (1..Documents), erased : Nat]]
    BY HandsAre DEF HandsTyped, Projection!TypeOK
<1>3. Projection!NoSnapshot \in [ds : SUBSET (1..Documents), erased : Nat]
    BY DEF Projection!NoSnapshot
<1>4. \A q \in Process : q # p =>
        projectionAt'[q] = projectionAt[q] /\ gen'[q] = gen[q] /\ snapshot'[q] = snapshot[q]
    BY <1>1, <1>2
<1>5. projectionAt'[p] = "idle"
    BY <1>1, <1>2
<1>6. ASSUME NEW q \in Process PROVE WorkKept(q)
  <2>1. SUFFICES ASSUME projectionAt'[q] \in Rebuilding
                 PROVE  WorkKept(q)
      BY DEF WorkKept
  <2>2. q # p /\ projectionAt'[q] = projectionAt[q]
      BY <1>4, <1>5, <2>1 DEF Rebuilding
  <2>3. /\ gen[q] \in DOMAIN generations /\ gen[q] # gen[p]
        /\ generations[gen[q]].status = "building"
      BY <2>1, <2>2 DEF ProjectionInv, Owned
  <2>4. generations'[gen[q]] = generations[gen[q]]
      BY <2>3
  <2> QED
      BY <1>4, <2>1, <2>2, <2>4 DEF WorkKept
<1>7. \A q \in Process : ReadKept(q)
    BY <1>1, <1>2, <1>4 DEF ReadKept
<1>8. \A a : \A q \in Process : OnWayKept(q, a)
    BY <1>1, <1>4, <1>5 DEF OnWayKept, Rebuilding
<1> QED
    BY <1>1, <1>2, <1>3, <1>4, <1>5, <1>6, <1>7, <1>8 DEF Rebuilding, Ingesting

\* A generation fails, whether its provider did or it was refused.
LEMMA FailStep ==
    ASSUME ProjectionInv, NEW p \in Process,
           Projection!Refuse(p) \/ Projection!FailGeneration(p)
    PROVE  ProjectionInv'
<1>1. /\ projectionAt[p] \in Rebuilding /\ Projection!Done(p)
      /\ generations' = [generations EXCEPT ![gen[p]].status = "failed"]
      /\ episodes' = episodes \/ \E ds \in SUBSET snapshot[p].ds :
             episodes' = [episodes EXCEPT ![gen[p]] = @ \cup ds]
      /\ health' \in [Process -> {"healthy", "degraded"}]
      /\ UNCHANGED <<recorded, documents, doc, failed, deletes, projectionCrashes>>
    BY HandsAre DEF Projection!Refuse, Projection!FailGeneration, Projection!Report, Projection!bounds,
                    Projection!TypeOK, Rebuilding
<1>2. /\ gen[p] \in 1..MaxRebuilds /\ gen[p] \in DOMAIN generations
      /\ generations[gen[p]].status = "building"
    BY <1>1, OwnIsOne DEF ProjectionInv, Owned
<1>3. /\ generations' \in Seq(Projection!Generation) /\ DOMAIN generations' = DOMAIN generations
      /\ Len(generations') = Len(generations) /\ Remains(generations, generations')
      /\ generations'[gen[p]].status = "failed"
      /\ \A h \in DOMAIN generations : h # gen[p] => generations'[h] = generations[h]
  <2>1. generations \in Seq(Projection!Generation) /\ gen[p] \in DOMAIN generations
      BY <1>2, HandsAre
  <2>2. generations' = Failing(generations, gen[p])
      BY <1>1 DEF Failing
  <2> QED
      BY <2>1, <2>2, FailedIs
<1>4. /\ episodes' \in [1..MaxRebuilds -> SUBSET (1..Documents)]
      /\ \A g \in 1..MaxRebuilds : episodes[g] \subseteq episodes'[g]
  <2>1. episodes \in [1..MaxRebuilds -> SUBSET (1..Documents)] /\ snapshot[p].ds \subseteq 1..Documents
      BY HandsAre DEF Projection!TypeOK, HandsTyped
  <2>2. CASE episodes' = episodes
      BY <2>1, <2>2
  <2>3. ASSUME NEW ds \in SUBSET snapshot[p].ds, episodes' = [episodes EXCEPT ![gen[p]] = @ \cup ds]
        PROVE  /\ episodes' \in [1..MaxRebuilds -> SUBSET (1..Documents)]
               /\ \A g \in 1..MaxRebuilds : episodes[g] \subseteq episodes'[g]
    <3>1. ds \subseteq 1..Documents
        BY <2>1
    <3> QED
        BY <1>2, <2>1, <2>3, <3>1
  <2> QED
      BY <1>1, <2>2, <2>3
<1>5. /\ \A q \in Process : projectionAt'[q] \in Rebuilding \/ projectionAt'[q] \in Ingesting =>
             q # p /\ projectionAt'[q] = projectionAt[q] /\ gen'[q] = gen[q]
             /\ snapshot'[q] = snapshot[q]
      /\ projectionAt' \in [Process -> {"idle", "ingesting", "committed", "upserting", "read",
                                       "projecting", "projected", "down", "starting"}]
      /\ gen' \in [Process -> Nat]
      /\ snapshot' \in [Process -> [ds : SUBSET (1..Documents), erased : Nat]]
      /\ \A q \in Process : WorkKept(q) /\ ReadKept(q)
      /\ \A a : \A q \in Process : OnWayKept(q, a)
    BY <1>1, <1>3, DoneIs
<1>6. Projection!TypeOK'
    BY <1>1, <1>3, <1>4, <1>5, HandsAre DEF Projection!TypeOK
<1>7. HandsTyped'
    BY <1>1, <1>3, <1>5, HandsAre DEF HandsTyped, Ingesting
<1>8. OneIsActive(generations') /\ FewBehind'
  <2>1. ActiveAsBefore
      BY <1>2, <1>3 DEF ActiveAsBefore
  <2>2. deletes' \in Nat /\ deletes <= deletes'
      BY <1>1, HandsAre DEF HandsTyped
  <2> QED
      BY <1>1, <1>4, <1>5, <1>6, <2>1, <2>2, StillFewBehind
<1>9. Owned'
    BY <1>3, <1>4, <1>5, StillOwned
<1>10. ReadFits'
    BY <1>1, <1>5, StillFits
<1> QED
    BY <1>6, <1>7, <1>8, <1>9, <1>10 DEF ProjectionInv

\* Sets of one size miss as many of each other's elements.
LEMMA MissAsMany ==
    ASSUME NEW S, NEW T, IsFiniteSet(S), IsFiniteSet(T), Cardinality(S) = Cardinality(T)
    PROVE  Cardinality(S \ T) = Cardinality(T \ S)
<1>1. /\ Cardinality(S \ T) = Cardinality(S) - Cardinality(S \cap T)
      /\ Cardinality(T \ S) = Cardinality(T) - Cardinality(T \cap S)
    BY FS_Difference
<1>2. S \cap T = T \cap S
    OBVIOUS
<1> QED
    BY <1>1, <1>2

LEMMA ActivateStep ==
    ASSUME ProjectionInv, NEW p \in Process, Projection!Activate(p)
    PROVE  ProjectionInv'
<1> DEFINE a == ActiveOf(generations)
           g == gen[p]
<1>1. /\ projectionAt[p] = "projected" /\ Projection!Done(p)
      /\ generations' = [h \in DOMAIN generations |->
            IF h = g THEN Retagged(generations[h], "active")
            ELSE IF h = a THEN Retagged(generations[h], "retired") ELSE generations[h]]
      /\ generations[g].watermark = Projection!Watermark(documents)
      /\ health' \in [Process -> {"healthy", "degraded"}]
      /\ UNCHANGED <<recorded, documents, episodes, doc, failed, deletes, projectionCrashes>>
    BY HandsAre, ActiveIs DEF Projection!Activate, Projection!Current, Projection!Report, Projection!bounds,
                    Projection!TypeOK, Retagged
<1>2. /\ g \in 1..MaxRebuilds /\ g \in DOMAIN generations /\ generations[g].status = "building"
      /\ generations[g].watermark = Projection!Watermark(snapshot[p].ds)
      /\ generations[g].erased = snapshot[p].erased /\ snapshot[p].ds \subseteq episodes[g]
    BY <1>1, OwnIsOne DEF ProjectionInv, Owned, Rebuilding
<1>3. /\ a \in Nat
      /\ \A h \in DOMAIN generations : generations[h].status = "active" => h = a
      /\ a # 0 => a \in DOMAIN generations /\ generations[a].status = "active"
    BY HandsAre, ActiveIsOne DEF ProjectionInv, OneIsActive
<1> HIDE DEF a, g
<1>4. /\ generations' \in Seq(Projection!Generation) /\ DOMAIN generations' = DOMAIN generations
      /\ Len(generations') = Len(generations) /\ Remains(generations, generations')
      /\ generations'[g].status = "active"
      /\ a \in DOMAIN generations /\ a # g => generations'[a].status = "retired"
      /\ \A h \in DOMAIN generations : h # g /\ h # a => generations'[h] = generations[h]
  <2>1. generations \in Seq(Projection!Generation) /\ g \in DOMAIN generations /\ a \in Nat
      BY <1>2, <1>3, HandsAre
  <2>2. generations' = Switching(generations, g, a)
      BY <1>1 DEF Switching
  <2> QED
      BY <2>1, <2>2, SwitchedIs
<1>5. /\ \A q \in Process : projectionAt'[q] \in Rebuilding \/ projectionAt'[q] \in Ingesting =>
             q # p /\ projectionAt'[q] = projectionAt[q] /\ gen'[q] = gen[q]
             /\ snapshot'[q] = snapshot[q]
      /\ projectionAt' \in [Process -> {"idle", "ingesting", "committed", "upserting", "read",
                                       "projecting", "projected", "down", "starting"}]
      /\ gen' \in [Process -> Nat]
      /\ snapshot' \in [Process -> [ds : SUBSET (1..Documents), erased : Nat]]
      /\ \A q \in Process : WorkKept(q) /\ ReadKept(q)
  <2>1. \A h \in DOMAIN generations : h # gen[p] =>
            generations'[h] = generations[h] \/ generations[h].status = "active"
    <3>1. \A h \in DOMAIN generations : h = a => generations[h].status = "active"
        BY <1>3, HandsAre
    <3> QED
        BY <1>4, <3>1 DEF g
  <2> QED
      BY <1>1, <2>1, DoneIs DEF Rebuilding
<1>6. Projection!TypeOK'
    BY <1>1, <1>4, <1>5, HandsAre DEF Projection!TypeOK
<1>7. HandsTyped'
    BY <1>1, <1>4, <1>5, HandsAre DEF HandsTyped, Ingesting
<1>8. \A h \in DOMAIN generations' : generations'[h].status = "active" => h = g
  <2>1. ASSUME NEW h \in DOMAIN generations, generations'[h].status = "active", h # g PROVE FALSE
    <3>1. h # a
        BY <1>4, <2>1
    <3>2. generations'[h] = generations[h]
        BY <1>4, <2>1, <3>1
    <3> QED
        BY <1>3, <2>1, <3>1, <3>2
  <2> QED
      BY <1>4, <2>1
<1>9. OneIsActive(generations')
    BY <1>8 DEF OneIsActive
<1>10. ActiveOf(generations') = g
  <2>1. ActiveOf(generations') # 0
      BY <1>2, <1>4, ActiveIsOne
  <2> QED
      BY <1>4, <1>8, <2>1, ActiveIsOne
<1>11. FewBehind'
  <2> DEFINE S == snapshot[p].ds
  <2>1. Behind' \subseteq documents \ S
    <3>1. Behind' \subseteq documents' \ episodes'[ActiveOf(generations')]
        BY DEF Behind
    <3> QED
        BY <1>1, <1>2, <1>10, <3>1
  <2>2. S \in SUBSET (1..Documents) /\ documents \in SUBSET (1..Documents)
      BY HandsAre, DocumentsFinite DEF HandsTyped
  <2>3. Cardinality(S) = Cardinality(documents)
    <3>1. Projection!Watermark(S) = Projection!Watermark(documents)
        BY <1>1, <1>2
    <3> HIDE DEF S
    <3> QED
        BY <2>2, <3>1, WatermarkIs
  <2>4. Cardinality(S \ documents) + snapshot[p].erased <= deletes
      BY DEF ProjectionInv, ReadFits
  <2>5. generations'[g].erased = snapshot[p].erased /\ snapshot[p].erased \in Nat /\ deletes' = deletes
      BY <1>1, <1>2, <1>4, HandsAre DEF Remains, HandsTyped
  <2> HIDE DEF S
  <2>6. IsFiniteSet(S) /\ IsFiniteSet(documents)
      BY <2>2, WatermarkIs
  <2>7. Cardinality(documents \ S) = Cardinality(S \ documents) /\ IsFiniteSet(documents \ S)
      BY <2>3, <2>6, MissAsMany, FS_Difference
  <2>8. /\ Cardinality(Behind') <= Cardinality(documents \ S)
        /\ Cardinality(Behind') \in Nat /\ Cardinality(documents \ S) \in Nat
      BY <2>1, <2>7, Fewer
  <2>9. Cardinality(Behind') + generations'[g].erased <= deletes'
    <3>1. deletes \in Nat
        BY HandsAre DEF HandsTyped
    <3> QED
        BY <2>4, <2>5, <2>7, <2>8, <3>1
  <2> QED
      BY <1>10, <2>9 DEF FewBehind
<1>12. Owned'
    BY <1>1, <1>4, <1>5, StillOwned
<1>13. ReadFits'
    BY <1>1, <1>5, StillFits
<1> QED
    BY <1>6, <1>7, <1>9, <1>11, <1>12, <1>13 DEF ProjectionInv

LEMMA ProjectionInitially == Projection!Init => ProjectionInv
<1> SUFFICES ASSUME Projection!Init PROVE ProjectionInv
    OBVIOUS
<1>1. /\ recorded = 0 /\ documents = {} /\ generations = <<>> /\ deletes = 0 /\ failed = {}
      /\ episodes = [g \in 1..MaxRebuilds |-> {}]
      /\ projectionAt = [p \in Process |-> "idle"] /\ doc = [p \in Process |-> 0]
      /\ snapshot = [p \in Process |-> Projection!NoSnapshot] /\ gen = [p \in Process |-> 0]
      /\ health = [p \in Process |-> "healthy"]
    BY DEF Projection!Init
<1>2. Projection!NoSnapshot = [ds |-> {}, erased |-> 0]
    BY DEF Projection!NoSnapshot
<1>3. generations \in Seq(Projection!Generation) /\ Len(generations) = 0 /\ DOMAIN generations = {}
    BY <1>1
<1>4. Projection!TypeOK
    BY <1>1, <1>3, ProjectionBounds DEF Projection!TypeOK
<1>5. HandsTyped
    BY <1>1, <1>2, <1>3, ProjectionBounds DEF HandsTyped, Ingesting
<1>6. OneIsActive(generations) /\ Owned
    BY <1>1, <1>3 DEF OneIsActive, Owned, Rebuilding
<1>7. ReadFits
  <2>1. ASSUME NEW p \in Process
        PROVE  Cardinality(snapshot[p].ds \ documents) + snapshot[p].erased <= deletes
    <3>1. snapshot[p].ds \ documents = {} /\ snapshot[p].erased = 0
        BY <1>1, <1>2
    <3>2. Cardinality({}) = 0 /\ deletes = 0
        BY <1>1, FS_EmptySet
    <3> QED
        BY <3>1, <3>2
  <2> QED
      BY <2>1 DEF ReadFits
<1>8. FewBehind
  <2>1. ActiveOf(generations) = 0
      BY <1>3, ActiveIsOne
  <2> QED
      BY <2>1 DEF FewBehind
<1> QED
    BY <1>4, <1>5, <1>6, <1>7, <1>8 DEF ProjectionInv

LEMMA ProjectionNext == ProjectionInv /\ Projection!Next => ProjectionInv'
BY BeginStep, CommitStep, ReadActiveStep, UpsertStep, ReadDocumentsStep, StartGenerationStep,
   ProjectStep, ActivateStep, FailStep, CrashStep, RestartStep, EraseStep DEF Projection!Next

ProjectionPartInv == part = "projection" => ProjectionInv

\* For any processes, documents and bounds: a rebuild has a generation of its own with what it
\* read, one generation is active, and what it misses is on its way or was hidden by an
\* erasure (start_graph_generation, activate_graph_generation).
THEOREM ProjectionInvariance == SideBySide => []ProjectionPartInv
<1>1. StartAll => ProjectionPartInv
    BY ProjectionInitially DEF StartAll, ProjectionPartInv
<1>2. ProjectionPartInv /\ [StepOne]_allVars => ProjectionPartInv'
  <2>1. CASE StepOne
    <3>1. CASE part = "projection"
        BY <2>1, <3>1, ProjectionNext DEF StepOne, ProjectionPartInv
    <3>2. CASE part # "projection"
        BY <2>1, <3>2 DEF StepOne, ProjectionPartInv
    <3> QED
        BY <3>1, <3>2
  <2>2. CASE UNCHANGED allVars
    <3>1. /\ part' = part
          /\ UNCHANGED <<recorded, documents, generations, episodes, projectionAt, doc, snapshot, gen,
                         health, failed, deletes, projectionCrashes>>
        BY <2>2 DEF allVars, ProjectionVars
    <3> QED
        BY <3>1 DEF ProjectionPartInv, ProjectionInv, Projection!TypeOK, HandsTyped, OneIsActive, Owned,
           ReadFits, FewBehind, Behind, OnItsWay
  <2> QED
      BY <2>1, <2>2
<1> QED
    BY <1>1, <1>2, PTL DEF SideBySide

\* A document that was committed is in the active generation, or on its way, or its own upsert
\* failed, but for one that each erasure can hide from the watermark
\* (activate_graph_generation, _upsert_graph_document).
THEOREM NothingLostBySwitchHolds == SideBySide => []NothingLostBySwitch
<1>1. ProjectionInv => Projection!NothingLostBySwitch
  <2> SUFFICES ASSUME ProjectionInv PROVE Projection!NothingLostBySwitch
      OBVIOUS
  <2> DEFINE a == ActiveOf(generations)
  <2>1. CASE a = 0
    <3>1. Projection!Missing = {}
        BY <2>1, ActiveIs DEF Projection!Missing
    <3>2. Cardinality({}) = 0
        BY FS_EmptySet
    <3> QED
        BY <2>1, <3>1, <3>2, ActiveIs, CountIs DEF Projection!NothingLostBySwitch
  <2>2. CASE a # 0
    <3>1. Projection!Missing \subseteq Behind
      <4>1. Projection!Missing = documents \ (episodes[a] \cup Projection!Projecting \cup failed)
          BY <2>2, ActiveIs DEF Projection!Missing
      <4>2. \A d \in Projection!Missing : ~OnItsWay(d)
          BY <4>1 DEF OnItsWay, Projection!Projecting
      <4> QED
          BY <2>2, <4>1, <4>2 DEF Behind
    <3>2. IsFiniteSet(Behind)
      <4>1. Behind \subseteq documents
          BY DEF Behind
      <4> QED
          BY <4>1, HandsAre, DocumentsFinite, Fewer
    <3>3. /\ Cardinality(Projection!Missing) <= Cardinality(Behind)
          /\ Cardinality(Projection!Missing) \in Nat /\ Cardinality(Behind) \in Nat
        BY <3>1, <3>2, Fewer
    <3>4. Cardinality(Behind) + generations[a].erased <= deletes
        BY <2>2 DEF ProjectionInv, FewBehind
    <3>5. generations[a].erased \in Nat /\ deletes \in Nat
      <4>1. generations[a] \in Projection!Generation
          BY <2>2, ActiveIsOne, HandsAre
      <4> QED
          BY <4>1, HandsAre DEF Projection!Generation, HandsTyped
    <3>6. Cardinality(Projection!Missing) <= deletes - generations[a].erased
      <4> HIDE DEF a
      <4> QED
          BY <3>3, <3>4, <3>5
    <3> QED
        BY <2>2, <3>6, ActiveIs, CountIs DEF Projection!NothingLostBySwitch
  <2> QED
      BY <2>1, <2>2
<1>2. ProjectionPartInv => NothingLostBySwitch
    BY <1>1 DEF ProjectionPartInv, NothingLostBySwitch, ProjectionInv
<1> QED
    BY <1>2, ProjectionInvariance, PTL

------------------------------------------------------------------------------
(* Routes of provider files                                                *)

\* What a page can bring: every event activates a route or retires one.
Transitions ==
    [file : Shared, content : 1..MaxEdits,
     type : {"file_discovered", "file_removed", "file_moved_out", "file_moved", "file_changed"},
     version : {"modified", "md5"} \X (1..MaxEdits), ops : {{"activate"}, {"retire"}}]

PagesTyped ==
    /\ todo \in [Stream -> SUBSET Transitions] /\ tracking \cap running = {}
    /\ DOMAIN keys = Stream /\ DOMAIN staged = Stream
    /\ \A s \in Stream :
        /\ page[s] = "none" => todo[s] = {}
        /\ page[s] = "list" => s \in running
        /\ page[s] = "changes" => s \in tracking

\* Nobody has a content that the provider has not.
NothingAhead ==
    \A f \in Shared :
        /\ visible[f] <= content[f]
        /\ \A s \in Stream :
            /\ routes[s][f] <= content[f]
            /\ \A e \in todo[s] : e.file = f => e.content <= content[f]

InTodo(s, f) == \E e \in todo[s] : e.file = f

\* The event makes the route what it should be.
Brings(s, e) ==
    \/ e.ops = {"activate"} /\ s \in Routes!Roots(e.file) /\ e.content = content[e.file]
    \/ e.ops = {"retire"} /\ s \notin Routes!Roots(e.file)

\* A route of a stream that follows the changes is as it should be, or an event will make it so.
Following(s, f) ==
    /\ \A e \in todo[s] : e.file = f => Brings(s, e)
    /\ InTodo(s, f) \/ routes[s][f] = IF s \in Routes!Roots(f) THEN content[f] ELSE 0

\* A generation will list the file, or has listed it if it is in the root and only then.
Listing(s, f) ==
    /\ \A e \in todo[s] : e.file = f => Brings(s, e)
    /\ s \in Routes!Roots(f) =>
        PageOf[f] \in tasks[s] \/ InTodo(s, f) \/ (routes[s][f] = content[f] /\ f \in seen[s])
    /\ s \notin Routes!Roots(f) => ~InTodo(s, f) /\ f \notin seen[s]

\* A file that did not change since the checkpoint of a stream.
Follows(s, f) ==
    s \notin wedged /\ <<s, f>> \notin deaf /\ f \notin since[s] =>
        (s \in tracking => Following(s, f)) /\ (s \in running => Listing(s, f))

\* Evidence is held by a route, and a route to the last content keeps that visible.
HeldUp(f) ==
    f \notin regressed /\ (\A s \in Stream : <<s, f>> \notin deaf) =>
        /\ visible[f] # 0 => \E s \in Stream : routes[s][f] = visible[f]
        /\ \A s \in Stream : routes[s][f] = content[f] => visible[f] = content[f]

RoutesInv ==
    /\ Routes!TypeOK /\ PagesTyped /\ NothingAhead
    /\ \A s \in Stream, f \in Shared : Follows(s, f)
    /\ \A f \in Shared : HeldUp(f)

LEMMA RoutesBounds ==
    /\ Pages \in Nat \ {0} /\ PageOf \in [Shared -> 1..Pages]
    /\ MaxEdits \in Nat \ {0} /\ MaxMoves \in Nat /\ MaxExpiries \in Nat
BY RoutesAssumption DEF Routes!ProviderRoutesAssumption

LEMMA RoutesInitially == Routes!Init => RoutesInv
<1> SUFFICES ASSUME Routes!Init PROVE RoutesInv
    OBVIOUS
<1>1. /\ place \in [Shared -> SUBSET Stream] /\ content = [f \in Shared |-> 1] /\ lost = {}
      /\ since = [s \in Stream |-> {}] /\ tracking = {} /\ running = {} /\ wedged = {}
      /\ tasks = [s \in Stream |-> {}] /\ listed = [s \in Stream |-> {}]
      /\ seen = [s \in Stream |-> {}] /\ page = [s \in Stream |-> "none"]
      /\ todo = [s \in Stream |-> {}] /\ keys = [s \in Stream |-> {}] /\ staged = [s \in Stream |-> {}]
      /\ routes = [s \in Stream |-> [f \in Shared |-> 0]] /\ visible = [f \in Shared |-> 0]
      /\ opened = [f \in Shared |-> 0] /\ deaf = {} /\ regressed = {} /\ moves = 0 /\ expiries = 0
    BY DEF Routes!Init
<1>2. Routes!TypeOK
    BY <1>1, RoutesBounds DEF Routes!TypeOK
<1>3. PagesTyped /\ NothingAhead
    BY <1>1 DEF PagesTyped, NothingAhead
<1>4. \A s \in Stream, f \in Shared : Follows(s, f)
    BY <1>1 DEF Follows
<1>5. \A f \in Shared : HeldUp(f)
    BY <1>1 DEF HeldUp
<1> QED
    BY <1>2, <1>3, <1>4, <1>5 DEF RoutesInv

\* A step of the provider: one file changes, and every stream will be told.
LEMMA ProviderStep ==
    ASSUME RoutesInv, NEW f \in Shared,
           Routes!Edit(f) \/ Routes!Move(f) \/ Routes!LoseOrReturn(f)
    PROVE  RoutesInv'
<1>0. Routes!TypeOK /\ PagesTyped /\ NothingAhead
    BY DEF RoutesInv
<1>1. /\ since' = [s \in Stream |-> since[s] \cup {f}]
      /\ UNCHANGED <<tracking, running, tasks, listed, seen, page, todo, keys, staged, log, routes,
                     visible, opened, wedged, deaf, regressed, expiries>>
    BY DEF Routes!Edit, Routes!Move, Routes!LoseOrReturn, Routes!Changed, Routes!generation,
           Routes!batch, Routes!evidence, Routes!history
<1>2. /\ place' \in [Shared -> SUBSET Stream] /\ lost' \subseteq Shared
      /\ \A g \in Shared : g # f =>
            place'[g] = place[g] /\ (g \in lost' <=> g \in lost) /\ content'[g] = content[g]
      /\ content' \in [Shared -> 1..MaxEdits] /\ moves' \in 0..MaxMoves
      /\ content'[f] = content[f] \/ content'[f] = content[f] + 1
  <2>1. CASE Routes!Edit(f)
    <3>1. /\ content[f] < MaxEdits /\ content' = [content EXCEPT ![f] = content[f] + 1]
          /\ UNCHANGED <<place, lost, moves>>
        BY <2>1 DEF Routes!Edit
    <3>2. content[f] + 1 \in 1..MaxEdits
        BY <1>0, <3>1, RoutesBounds DEF Routes!TypeOK
    <3> QED
        BY <1>0, <3>1, <3>2 DEF Routes!TypeOK
  <2>2. CASE Routes!Move(f)
    <3>1. /\ moves < MaxMoves /\ moves' = moves + 1 /\ UNCHANGED <<content, lost>>
          /\ \E roots \in SUBSET Stream : place' = [place EXCEPT ![f] = roots]
        BY <2>2 DEF Routes!Move
    <3> QED
        BY <1>0, <3>1, RoutesBounds DEF Routes!TypeOK
  <2>3. CASE Routes!LoseOrReturn(f)
    <3>1. /\ moves < MaxMoves /\ moves' = moves + 1 /\ UNCHANGED <<content, place>>
          /\ lost' = IF f \in lost THEN lost \ {f} ELSE lost \cup {f}
        BY <2>3 DEF Routes!LoseOrReturn
    <3> QED
        BY <1>0, <3>1, RoutesBounds DEF Routes!TypeOK
  <2> QED
      BY <2>1, <2>2, <2>3
<1>3. Routes!TypeOK'
    BY <1>0, <1>1, <1>2 DEF Routes!TypeOK
<1>4. PagesTyped'
    BY <1>0, <1>1 DEF PagesTyped
<1>5. \A g \in Shared : content[g] \in Nat /\ content'[g] \in Nat /\ content[g] <= content'[g]
  <2>1. ASSUME NEW g \in Shared PROVE content[g] \in Nat /\ content'[g] \in Nat
    <3>1. content[g] \in 1..MaxEdits /\ content'[g] \in 1..MaxEdits
        BY <1>0, <1>2 DEF Routes!TypeOK
    <3> QED
        BY <3>1, RoutesBounds
  <2>2. ASSUME NEW g \in Shared PROVE content'[g] = content[g] \/ content'[g] = content[g] + 1
      BY <1>2
  <2> QED
      BY <2>1, <2>2
<1>6. NothingAhead'
  <2>1. ASSUME NEW g \in Shared PROVE visible'[g] <= content'[g]
    <3>1. visible[g] \in Nat /\ visible[g] <= content[g]
        BY <1>0, RoutesBounds DEF Routes!TypeOK, NothingAhead
    <3> QED
        BY <1>1, <1>5, <3>1
  <2>2. ASSUME NEW g \in Shared, NEW s \in Stream PROVE routes'[s][g] <= content'[g]
    <3>1. routes[s][g] \in Nat /\ routes[s][g] <= content[g]
        BY <1>0, RoutesBounds DEF Routes!TypeOK, NothingAhead
    <3> QED
        BY <1>1, <1>5, <3>1
  <2>3. ASSUME NEW g \in Shared, NEW s \in Stream, NEW e \in todo'[s], e.file = g
        PROVE  e.content <= content'[g]
    <3>1. e \in Transitions /\ e \in todo[s]
        BY <1>0, <1>1, <2>3 DEF PagesTyped
    <3>2. e.content \in Nat /\ e.content <= content[g]
        BY <1>0, <2>3, <3>1, RoutesBounds DEF Transitions, NothingAhead
    <3> QED
        BY <1>5, <3>2
  <2> QED
      BY <2>1, <2>2, <2>3 DEF NothingAhead
<1>7. ASSUME NEW s \in Stream, NEW g \in Shared PROVE Follows(s, g)'
  <2>1. CASE g = f
      BY <1>1, <2>1 DEF Follows
  <2>2. CASE g # f
    <3>1. Follows(s, g)
        BY DEF RoutesInv
    <3>2. (s \in Routes!Roots(g))' <=> s \in Routes!Roots(g)
        BY <1>2, <2>2 DEF Routes!Roots
    <3>3. since'[s] = since[s] \cup {f} /\ content'[g] = content[g]
        BY <1>1, <1>2, <2>2
    <3>4. \A e \in todo[s] : e.file = g => (Brings(s, e)' <=> Brings(s, e))
        BY <3>2, <3>3 DEF Brings
    <3>5. InTodo(s, g)' <=> InTodo(s, g)
        BY <1>1 DEF InTodo
    <3>6. Following(s, g) => Following(s, g)'
        BY <1>1, <3>2, <3>3, <3>4, <3>5 DEF Following
    <3>7. Listing(s, g) => Listing(s, g)'
        BY <1>1, <3>2, <3>3, <3>4, <3>5 DEF Listing
    <3> QED
        BY <1>1, <2>2, <3>1, <3>3, <3>6, <3>7 DEF Follows
  <2> QED
      BY <2>1, <2>2
<1>8. ASSUME NEW g \in Shared PROVE HeldUp(g)'
  <2>1. HeldUp(g)
      BY DEF RoutesInv
  <2>2. CASE content'[g] = content[g]
      BY <1>1, <2>1, <2>2 DEF HeldUp
  <2>3. CASE content'[g] = content[g] + 1
    <3>1. \A s \in Stream : routes'[s][g] # content'[g]
      <4>1. \A s \in Stream : routes[s][g] \in Nat /\ routes[s][g] <= content[g]
          BY <1>0, RoutesBounds DEF Routes!TypeOK, NothingAhead
      <4> QED
          BY <1>1, <1>5, <2>3, <4>1
    <3> QED
        BY <1>1, <2>1, <3>1 DEF HeldUp
  <2> QED
      BY <1>2, <2>2, <2>3
<1> QED
    BY <1>3, <1>4, <1>6, <1>7, <1>8 DEF RoutesInv

\* The other streams and the provider rest while s takes a step; what went wrong stays known.
OnlyStream(s) ==
    /\ UNCHANGED <<place, content, lost>>
    /\ wedged \subseteq wedged' /\ deaf \subseteq deaf' /\ regressed \subseteq regressed'
    /\ \A t \in Stream : t # s =>
        /\ since'[t] = since[t] /\ todo'[t] = todo[t] /\ routes'[t] = routes[t]
        /\ tasks'[t] = tasks[t] /\ seen'[t] = seen[t]
        /\ (t \in tracking' <=> t \in tracking) /\ (t \in running' <=> t \in running)

LEMMA OthersFollow ==
    ASSUME RoutesInv, NEW s \in Stream, OnlyStream(s), NEW t \in Stream, t # s, NEW f \in Shared
    PROVE  Follows(t, f)'
<1>1. /\ since'[t] = since[t] /\ todo'[t] = todo[t] /\ routes'[t] = routes[t]
      /\ tasks'[t] = tasks[t] /\ seen'[t] = seen[t]
      /\ (t \in tracking' <=> t \in tracking) /\ (t \in running' <=> t \in running)
      /\ UNCHANGED <<place, content, lost>> /\ wedged \subseteq wedged' /\ deaf \subseteq deaf'
    BY DEF OnlyStream
<1>2. (t \in Routes!Roots(f))' <=> t \in Routes!Roots(f)
    BY <1>1 DEF Routes!Roots
<1>3. \A e \in todo[t] : e.file = f => (Brings(t, e)' <=> Brings(t, e))
    BY <1>1, <1>2 DEF Brings
<1>4. InTodo(t, f)' <=> InTodo(t, f)
    BY <1>1 DEF InTodo
<1>5. Following(t, f) => Following(t, f)'
    BY <1>1, <1>2, <1>3, <1>4 DEF Following
<1>6. Listing(t, f) => Listing(t, f)'
    BY <1>1, <1>2, <1>3, <1>4 DEF Listing
<1> QED
    BY <1>1, <1>5, <1>6 DEF RoutesInv, Follows

\* As long as the routes and what is visible are what they were, evidence stays held.
LEMMA StillHeldUp ==
    ASSUME RoutesInv, UNCHANGED <<content, routes, visible>>, deaf \subseteq deaf',
           regressed \subseteq regressed', NEW f \in Shared
    PROVE  HeldUp(f)'
<1>1. HeldUp(f)
    BY DEF RoutesInv
<1> QED
    BY <1>1 DEF HeldUp

LEMMA RootsAre ==
    ASSUME RoutesInv, NEW f \in Shared
    PROVE  Routes!Roots(f) \subseteq Stream /\ Routes!RouteState(f) \subseteq Stream
BY DEF RoutesInv, Routes!TypeOK, Routes!Roots, Routes!RouteState

\* What a listing makes of a file, and what the changes do.
LEMMA FoundIs ==
    ASSUME RoutesInv, NEW f \in Shared
    PROVE  /\ Routes!Found(f) \in Transitions /\ Routes!Found(f).file = f
           /\ Routes!Found(f).content = content[f] /\ Routes!Found(f).ops = {"activate"}
<1>1. content[f] \in 1..MaxEdits
    BY DEF RoutesInv, Routes!TypeOK
<1>2. Routes!Found(f) = [file |-> f, content |-> content[f], type |-> "file_discovered",
                         version |-> <<"modified", content[f]>>, ops |-> {"activate"}]
    BY DEF Routes!Found, Routes!FileEvent
<1> QED
    BY <1>1, <1>2 DEF Transitions

LEMMA ChangeIs ==
    ASSUME RoutesInv, NEW s \in Stream, NEW f \in Shared,
           s \in Routes!RouteState(f) \cup Routes!Roots(f)
    PROVE  /\ Routes!ChangeOf(s, f) \in Transitions /\ Routes!ChangeOf(s, f).file = f
           /\ Routes!ChangeOf(s, f).content = content[f]
           /\ Routes!ChangeOf(s, f).ops = IF s \in Routes!Roots(f) THEN {"activate"} ELSE {"retire"}
<1> DEFINE before == Routes!RouteState(f)
           after == Routes!Roots(f)
           type == IF f \in lost THEN "file_removed"
                   ELSE IF after = {} THEN "file_moved_out"
                   ELSE IF after # before THEN "file_moved" ELSE "file_changed"
           ops == (IF s \in after THEN {"activate"} ELSE {}) \cup
                  (IF s \in before \ after THEN {"retire"} ELSE {})
<1>1. content[f] \in 1..MaxEdits
    BY DEF RoutesInv, Routes!TypeOK
<1>2. Routes!ChangeOf(s, f) = [file |-> f, content |-> content[f], type |-> type,
                               version |-> <<"md5", content[f]>>, ops |-> ops]
    BY DEF Routes!ChangeOf, Routes!FileEvent
<1>3. ops = IF s \in after THEN {"activate"} ELSE {"retire"}
    OBVIOUS
<1>4. type \in {"file_discovered", "file_removed", "file_moved_out", "file_moved", "file_changed"}
    OBVIOUS
<1> HIDE DEF before, after, type, ops
<1>5. ops \in {{"activate"}, {"retire"}}
    BY <1>3
<1>6. Routes!ChangeOf(s, f) \in Transitions
    BY <1>1, <1>2, <1>4, <1>5 DEF Transitions
<1> QED
    BY <1>2, <1>3, <1>6 DEF after

\* record_pull: what is new is to be done, and of what is not the stream is deaf to the file.
LEMMA RecordIs ==
    ASSUME RoutesInv, NEW s \in Stream, NEW events \in SUBSET Transitions, Routes!Record(s, events)
    PROVE  /\ todo' \in [Stream -> SUBSET Transitions] /\ todo'[s] \subseteq events
           /\ \A t \in Stream : t # s => todo'[t] = todo[t]
           /\ \A e \in events : e \in todo'[s] \/ <<s, e.file>> \in deaf'
           /\ deaf \subseteq deaf' /\ deaf' \subseteq Stream \X Shared
           /\ wedged \subseteq wedged' /\ wedged' \subseteq Stream
           /\ DOMAIN keys' = Stream /\ DOMAIN staged' = Stream
<1> DEFINE new == Routes!NewEvents(s, events)
<1>1. new \subseteq events
    BY DEF Routes!NewEvents
<1>2. /\ todo \in [Stream -> SUBSET Transitions] /\ deaf \subseteq Stream \X Shared
      /\ wedged \subseteq Stream /\ DOMAIN keys = Stream /\ DOMAIN staged = Stream
    BY DEF RoutesInv, PagesTyped, Routes!TypeOK
<1>3. /\ todo' = [todo EXCEPT ![s] = new]
      /\ deaf' = deaf \cup {<<s, e.file>> : e \in events \ new}
      /\ wedged' = wedged \cup {s} \/ wedged' = wedged
      /\ DOMAIN keys' = DOMAIN keys /\ DOMAIN staged' = DOMAIN staged
  <2>1. /\ todo' = [todo EXCEPT ![s] = new]
        /\ deaf' = deaf \cup {<<s, e.file>> : e \in events \ new}
      BY DEF Routes!Record
  <2>2. wedged' = wedged \cup {s} \/ wedged' = wedged
      BY DEF Routes!Record
  <2>3. DOMAIN keys' = DOMAIN keys /\ DOMAIN staged' = DOMAIN staged
      BY DEF Routes!Record
  <2> QED
      BY <2>1, <2>2, <2>3
<1> HIDE DEF new
<1>4. \A e \in events : e.file \in Shared
    BY DEF Transitions
<1>5. /\ todo' \in [Stream -> SUBSET Transitions] /\ todo'[s] = new
      /\ \A t \in Stream : t # s => todo'[t] = todo[t]
    BY <1>1, <1>2, <1>3
<1>6. \A e \in events : e \in new \/ <<s, e.file>> \in deaf'
    BY <1>3
<1>7. deaf \subseteq deaf' /\ deaf' \subseteq Stream \X Shared
    BY <1>2, <1>3, <1>4
<1> QED
    BY <1>1, <1>2, <1>3, <1>5, <1>6, <1>7

\* A stream has recorded a page of events that say how its files are now.
Pulled(s, events) ==
    /\ todo[s] = {} /\ \A e \in events : Brings(s, e) /\ e.content = content[e.file]
    /\ UNCHANGED <<place, content, lost, tracking, routes, visible, opened, regressed, moves, expiries>>
    /\ running' = running \/ (running' = running \cup {s} /\ s \notin tracking)
    /\ since' = since \/ since' = [since EXCEPT ![s] = {}]
    /\ \A t \in Stream : t # s => tasks'[t] = tasks[t] /\ seen'[t] = seen[t] /\ page'[t] = page[t]
    /\ tasks' \in [Stream -> SUBSET (1..Pages)] /\ listed' \in [Stream -> SUBSET Shared]
    /\ seen' \in [Stream -> SUBSET Shared] /\ page' \in [Stream -> {"list", "changes", "none"}]
    /\ (page'[s] = "list" /\ s \in running') \/ (page'[s] = "changes" /\ s \in tracking')
    /\ \A f \in Shared : Follows(s, f)'

LEMMA PulledStep ==
    ASSUME RoutesInv, NEW s \in Stream, NEW events \in SUBSET Transitions, Routes!Record(s, events),
           Pulled(s, events)
    PROVE  RoutesInv'
<1>1. /\ todo' \in [Stream -> SUBSET Transitions] /\ todo'[s] \subseteq events
      /\ \A t \in Stream : t # s => todo'[t] = todo[t]
      /\ deaf \subseteq deaf' /\ deaf' \subseteq Stream \X Shared
      /\ wedged \subseteq wedged' /\ wedged' \subseteq Stream
      /\ DOMAIN keys' = Stream /\ DOMAIN staged' = Stream
    BY RecordIs
<1>2. Routes!TypeOK /\ PagesTyped /\ NothingAhead
    BY DEF RoutesInv
<1>3. OnlyStream(s)
    BY <1>1, <1>2 DEF OnlyStream, Routes!TypeOK, Pulled
<1>4. Routes!TypeOK'
  <2>1. since' \in [Stream -> SUBSET Shared] /\ running' \subseteq Stream
    <3>1. since \in [Stream -> SUBSET Shared] /\ running \subseteq Stream
        BY <1>2 DEF Routes!TypeOK
    <3>2. since' = since \/ since' = [since EXCEPT ![s] = {}]
        BY DEF Pulled
    <3>3. running' = running \/ running' = running \cup {s}
        BY DEF Pulled
    <3> QED
        BY <3>1, <3>2, <3>3
  <2> QED
      BY <1>1, <1>2, <2>1 DEF Routes!TypeOK, Pulled
<1>5. PagesTyped'
    BY <1>1, <1>2 DEF PagesTyped, Pulled
<1>6. NothingAhead'
  <2>1. ASSUME NEW t \in Stream, NEW e \in todo'[t] PROVE e.content <= content[e.file] \/ e.file \notin Shared
    <3>1. CASE t = s
      <4>1. e.content = content[e.file] /\ e \in Transitions
          BY <1>1, <2>1, <3>1 DEF Pulled
      <4>2. e.content \in Nat
          BY <4>1, RoutesBounds DEF Transitions
      <4> QED
          BY <4>1, <4>2
    <3>2. CASE t # s
        BY <1>1, <1>2, <2>1, <3>2 DEF NothingAhead
    <3> QED
        BY <3>1, <3>2
  <2> QED
      BY <1>2, <2>1 DEF NothingAhead, Pulled
<1>7. \A t \in Stream, f \in Shared : Follows(t, f)'
  <2>1. \A f \in Shared : Follows(s, f)'
      BY DEF Pulled
  <2> QED
      BY <1>3, <2>1, OthersFollow
<1>8. \A f \in Shared : HeldUp(f)'
    BY <1>1, StillHeldUp DEF Pulled
<1> QED
    BY <1>4, <1>5, <1>6, <1>7, <1>8 DEF RoutesInv

\* A page of a listing: the files of the root that it names are found, and no other.
LEMMA ListedFollows ==
    ASSUME RoutesInv, NEW s \in Stream, NEW p \in 1..Pages,
           Routes!Record(s, {Routes!Found(f) : f \in Routes!InRoot(s, p)}), todo[s] = {},
           UNCHANGED <<place, content, lost, routes>>
    PROVE  /\ {Routes!Found(f) : f \in Routes!InRoot(s, p)} \in SUBSET Transitions
           /\ \A e \in {Routes!Found(f) : f \in Routes!InRoot(s, p)} :
                  Brings(s, e) /\ e.content = content[e.file]
           /\ \A f \in Shared : <<s, f>> \notin deaf' =>
                /\ \A e \in todo'[s] : e.file = f => Brings(s, e)'
                /\ s \in Routes!Roots(f) /\ PageOf[f] = p => InTodo(s, f)'
                /\ s \notin Routes!Roots(f) => ~InTodo(s, f)'
<1> DEFINE events == {Routes!Found(f) : f \in Routes!InRoot(s, p)}
<1>1. \A f \in Routes!InRoot(s, p) : f \in Shared /\ s \in Routes!Roots(f) /\ PageOf[f] = p
    BY DEF Routes!InRoot
<1>2. ASSUME NEW e \in events
      PROVE  /\ e \in Transitions /\ Brings(s, e) /\ e.content = content[e.file]
             /\ e.file \in Shared /\ s \in Routes!Roots(e.file)
  <2>1. PICK f \in Routes!InRoot(s, p) : e = Routes!Found(f)
      BY <1>2
  <2>2. f \in Shared /\ s \in Routes!Roots(f)
      BY <1>1
  <2>3. e \in Transitions /\ e.file = f /\ e.content = content[f] /\ e.ops = {"activate"}
      BY <2>1, <2>2, FoundIs
  <2> QED
      BY <2>2, <2>3 DEF Brings
<1>3. \A f \in Shared : s \in Routes!Roots(f) /\ PageOf[f] = p =>
        Routes!Found(f) \in events /\ Routes!Found(f).file = f
    BY FoundIs DEF Routes!InRoot
<1>4. events \in SUBSET Transitions
    BY <1>2
<1> HIDE DEF events
<1>5. todo'[s] \subseteq events /\ \A e \in events : e \in todo'[s] \/ <<s, e.file>> \in deaf'
    BY <1>4, RecordIs DEF events
<1>6. ASSUME NEW f \in Shared, <<s, f>> \notin deaf'
      PROVE  /\ \A e \in todo'[s] : e.file = f => Brings(s, e)'
             /\ s \in Routes!Roots(f) /\ PageOf[f] = p => InTodo(s, f)'
             /\ s \notin Routes!Roots(f) => ~InTodo(s, f)'
  <2>1. \A e \in events : Brings(s, e)'
    <3>1. ASSUME NEW e \in events PROVE (s \in Routes!Roots(e.file))' <=> s \in Routes!Roots(e.file)
        BY DEF Routes!Roots
    <3> QED
        BY <1>2, <3>1 DEF Brings
  <2>2. s \in Routes!Roots(f) /\ PageOf[f] = p => InTodo(s, f)'
      BY <1>3, <1>5, <1>6 DEF InTodo
  <2>3. s \notin Routes!Roots(f) => ~InTodo(s, f)'
      BY <1>2, <1>5 DEF InTodo
  <2> QED
      BY <1>5, <2>1, <2>2, <2>3
<1> QED
    BY <1>2, <1>4, <1>6 DEF events

\* The roots of a file stay when the provider rests.
LEMMA RootsStay ==
    ASSUME UNCHANGED <<place, lost>>, NEW s, NEW f
    PROVE  (s \in Routes!Roots(f))' <=> s \in Routes!Roots(f)
BY DEF Routes!Roots

LEMMA StartStep ==
    ASSUME RoutesInv, NEW s \in Stream, Routes!Start(s)
    PROVE  RoutesInv'
<1>0. Routes!TypeOK /\ PagesTyped
    BY DEF RoutesInv
<1>1. /\ page[s] = "none" /\ s \notin tracking /\ s \notin running
      /\ since' = [since EXCEPT ![s] = {}] /\ running' = running \cup {s}
      /\ tasks' = [tasks EXCEPT ![s] = 2..Pages]
      /\ listed' = [listed EXCEPT ![s] = Routes!InRoot(s, 1)] /\ seen' = [seen EXCEPT ![s] = {}]
      /\ Routes!Record(s, {Routes!Found(f) : f \in Routes!InRoot(s, 1)})
      /\ page' = [page EXCEPT ![s] = "list"]
      /\ UNCHANGED <<place, content, lost, tracking, routes, visible, opened, regressed, moves, expiries>>
    BY DEF Routes!Start, Routes!Ready, Routes!Enqueued, Routes!provider, Routes!evidence
<1>2. todo[s] = {} /\ 1 \in 1..Pages /\ Routes!InRoot(s, 1) \subseteq Shared
    BY <1>0, <1>1, RoutesBounds DEF PagesTyped, Routes!InRoot
<1>3. /\ {Routes!Found(f) : f \in Routes!InRoot(s, 1)} \in SUBSET Transitions
      /\ \A e \in {Routes!Found(f) : f \in Routes!InRoot(s, 1)} :
             Brings(s, e) /\ e.content = content[e.file]
      /\ \A f \in Shared : <<s, f>> \notin deaf' =>
           /\ \A e \in todo'[s] : e.file = f => Brings(s, e)'
           /\ s \in Routes!Roots(f) /\ PageOf[f] = 1 => InTodo(s, f)'
           /\ s \notin Routes!Roots(f) => ~InTodo(s, f)'
    BY <1>1, <1>2, ListedFollows
<1>4. /\ tasks'[s] = 2..Pages /\ seen'[s] = {} /\ page'[s] = "list"
      /\ tasks' \in [Stream -> SUBSET (1..Pages)] /\ seen' \in [Stream -> SUBSET Shared]
      /\ listed' \in [Stream -> SUBSET Shared] /\ page' \in [Stream -> {"list", "changes", "none"}]
      /\ \A t \in Stream : t # s =>
            tasks'[t] = tasks[t] /\ seen'[t] = seen[t] /\ page'[t] = page[t]
  <2>1. 2..Pages \in SUBSET (1..Pages)
      BY RoutesBounds
  <2> QED
      BY <1>0, <1>1, <1>2, <2>1 DEF Routes!TypeOK
<1>5. ASSUME NEW f \in Shared PROVE Follows(s, f)'
  <2>1. (s \in Routes!Roots(f))' <=> s \in Routes!Roots(f)
      BY <1>1, RootsStay
  <2>2. PageOf[f] = 1 \/ PageOf[f] \in tasks'[s]
    <3>1. PageOf[f] \in 1..Pages
        BY RoutesBounds
    <3> QED
        BY <1>4, <3>1, RoutesBounds
  <2>3. <<s, f>> \notin deaf' => Listing(s, f)'
      BY <1>3, <1>4, <2>1, <2>2 DEF Listing
  <2> QED
      BY <1>1, <2>3 DEF Follows
<1>6. Pulled(s, {Routes!Found(f) : f \in Routes!InRoot(s, 1)})
    BY <1>1, <1>2, <1>3, <1>4, <1>5 DEF Pulled
<1> QED
    BY <1>1, <1>3, <1>6, PulledStep

LEMMA ListPageStep ==
    ASSUME RoutesInv, NEW s \in Stream, Routes!ListPage(s)
    PROVE  RoutesInv'
<1>0. Routes!TypeOK /\ PagesTyped
    BY DEF RoutesInv
<1>1. PICK p \in tasks[s] :
        /\ tasks' = [tasks EXCEPT ![s] = @ \ {p}]
        /\ listed' = [listed EXCEPT ![s] = @ \cup Routes!InRoot(s, p)]
        /\ Routes!Record(s, {Routes!Found(f) : f \in Routes!InRoot(s, p)})
    BY DEF Routes!ListPage
<1>2. /\ page[s] = "none" /\ s \notin wedged /\ s \in running
      /\ page' = [page EXCEPT ![s] = "list"]
      /\ UNCHANGED <<place, content, lost, since, tracking, running, seen, routes, visible, opened,
                     regressed, moves, expiries>>
    BY DEF Routes!ListPage, Routes!Ready, Routes!provider, Routes!cursors, Routes!evidence
<1>3. todo[s] = {} /\ p \in 1..Pages /\ Routes!InRoot(s, p) \subseteq Shared
    BY <1>0, <1>2 DEF PagesTyped, Routes!InRoot, Routes!TypeOK
<1>4. /\ {Routes!Found(f) : f \in Routes!InRoot(s, p)} \in SUBSET Transitions
      /\ \A e \in {Routes!Found(f) : f \in Routes!InRoot(s, p)} :
             Brings(s, e) /\ e.content = content[e.file]
      /\ \A f \in Shared : <<s, f>> \notin deaf' =>
           /\ \A e \in todo'[s] : e.file = f => Brings(s, e)'
           /\ s \in Routes!Roots(f) /\ PageOf[f] = p => InTodo(s, f)'
           /\ s \notin Routes!Roots(f) => ~InTodo(s, f)'
    BY <1>1, <1>2, <1>3, ListedFollows
<1>5. /\ tasks'[s] = tasks[s] \ {p} /\ page'[s] = "list"
      /\ tasks' \in [Stream -> SUBSET (1..Pages)] /\ seen' \in [Stream -> SUBSET Shared]
      /\ listed' \in [Stream -> SUBSET Shared] /\ page' \in [Stream -> {"list", "changes", "none"}]
      /\ \A t \in Stream : t # s =>
            tasks'[t] = tasks[t] /\ seen'[t] = seen[t] /\ page'[t] = page[t]
    BY <1>0, <1>1, <1>2, <1>3 DEF Routes!TypeOK
<1>6. deaf \subseteq deaf' /\ wedged \subseteq wedged'
    BY <1>1, <1>4, RecordIs
<1>7. ASSUME NEW f \in Shared PROVE Follows(s, f)'
  <2>1. (s \in Routes!Roots(f))' <=> s \in Routes!Roots(f)
      BY <1>2, RootsStay
  <2>2. ~InTodo(s, f) /\ s \notin tracking
      BY <1>0, <1>2, <1>3 DEF InTodo, PagesTyped
  <2>3. s \notin wedged' /\ <<s, f>> \notin deaf' /\ f \notin since'[s] => Listing(s, f)
      BY <1>2, <1>6 DEF RoutesInv, Follows
  <2>4. s \notin wedged' /\ <<s, f>> \notin deaf' /\ f \notin since'[s] => Listing(s, f)'
      BY <1>2, <1>4, <1>5, <2>1, <2>2, <2>3 DEF Listing
  <2> QED
      BY <1>2, <2>2, <2>4 DEF Follows
<1>8. Pulled(s, {Routes!Found(f) : f \in Routes!InRoot(s, p)})
    BY <1>1, <1>2, <1>3, <1>4, <1>5, <1>7 DEF Pulled
<1> QED
    BY <1>1, <1>4, <1>8, PulledStep

LEMMA PullChangesStep ==
    ASSUME RoutesInv, NEW s \in Stream, Routes!PullChanges(s)
    PROVE  RoutesInv'
<1> DEFINE events == Routes!ChangesOf(s)
<1>0. Routes!TypeOK /\ PagesTyped
    BY DEF RoutesInv
<1>1. /\ page[s] = "none" /\ s \in tracking /\ since' = [since EXCEPT ![s] = {}]
      /\ Routes!Record(s, events) /\ page' = [page EXCEPT ![s] = "changes"]
      /\ UNCHANGED <<place, content, lost, tracking, running, tasks, listed, seen, routes, visible,
                     opened, regressed, moves, expiries>>
    BY DEF Routes!PullChanges, Routes!Ready, Routes!provider, Routes!generation, Routes!evidence
<1>2. todo[s] = {} /\ s \notin running
    BY <1>0, <1>1 DEF PagesTyped
<1>3. ASSUME NEW e \in events
      PROVE  e \in Transitions /\ Brings(s, e) /\ e.content = content[e.file]
  <2>1. PICK f \in since[s] : s \in Routes!RouteState(f) \cup Routes!Roots(f) /\ e = Routes!ChangeOf(s, f)
      BY <1>3 DEF Routes!ChangesOf
  <2>2. f \in Shared
      BY <1>0 DEF Routes!TypeOK
  <2> QED
      BY <2>1, <2>2, ChangeIs DEF Brings
<1>4. ASSUME NEW f \in since[s]
      PROVE  (\E e \in events : e.file = f) \/ (routes[s][f] = 0 /\ s \notin Routes!Roots(f))
  <2>1. f \in Shared
      BY <1>0 DEF Routes!TypeOK
  <2>2. CASE s \in Routes!RouteState(f) \cup Routes!Roots(f)
      BY <2>1, <2>2, ChangeIs DEF Routes!ChangesOf
  <2>3. CASE s \notin Routes!RouteState(f) \cup Routes!Roots(f)
      BY <2>3 DEF Routes!RouteState
  <2> QED
      BY <2>2, <2>3
<1>5. events \in SUBSET Transitions
    BY <1>3
<1> HIDE DEF events
<1>6. /\ todo'[s] \subseteq events /\ \A e \in events : e \in todo'[s] \/ <<s, e.file>> \in deaf'
      /\ deaf \subseteq deaf' /\ wedged \subseteq wedged'
    BY <1>1, <1>5, RecordIs
<1>7. /\ page'[s] = "changes" /\ page' \in [Stream -> {"list", "changes", "none"}]
      /\ \A t \in Stream : t # s => page'[t] = page[t]
      /\ tasks' \in [Stream -> SUBSET (1..Pages)] /\ seen' \in [Stream -> SUBSET Shared]
      /\ listed' \in [Stream -> SUBSET Shared]
    BY <1>0, <1>1 DEF Routes!TypeOK
<1>8. ASSUME NEW f \in Shared PROVE Follows(s, f)'
  <2>1. (s \in Routes!Roots(f))' <=> s \in Routes!Roots(f)
      BY <1>1, RootsStay
  <2>2. \A e \in todo'[s] : Brings(s, e)'
    <3>1. ASSUME NEW e \in events PROVE (s \in Routes!Roots(e.file))' <=> s \in Routes!Roots(e.file)
        BY <1>1, RootsStay
    <3> QED
        BY <1>1, <1>3, <1>6, <3>1 DEF Brings
  <2>3. SUFFICES ASSUME s \notin wedged', <<s, f>> \notin deaf'
                 PROVE  Following(s, f)'
      BY <1>1, <1>2, <2>3 DEF Follows
  <2>4. CASE f \in since[s]
    <3>1. CASE \E e \in events : e.file = f
        BY <1>6, <2>2, <2>3, <3>1 DEF Following, InTodo
    <3>2. CASE routes[s][f] = 0 /\ s \notin Routes!Roots(f)
        BY <1>1, <2>1, <2>2, <3>2 DEF Following
    <3> QED
        BY <1>4, <2>4, <3>1, <3>2
  <2>5. CASE f \notin since[s]
    <3>1. Following(s, f)
        BY <1>1, <1>6, <2>3, <2>5 DEF RoutesInv, Follows
    <3>2. routes[s][f] = IF s \in Routes!Roots(f) THEN content[f] ELSE 0
        BY <1>2, <3>1 DEF Following, InTodo
    <3> QED
        BY <1>1, <2>1, <2>2, <3>2 DEF Following
  <2> QED
      BY <2>4, <2>5
<1>9. \A e \in events : Brings(s, e) /\ e.content = content[e.file]
    BY <1>3
<1>10. Pulled(s, events)
    BY <1>1, <1>2, <1>7, <1>8, <1>9 DEF Pulled
<1> QED
    BY <1>1, <1>5, <1>10, PulledStep

LEMMA ExpireStep ==
    ASSUME RoutesInv, NEW s \in Stream, Routes!Expire(s)
    PROVE  RoutesInv'
<1>0. Routes!TypeOK /\ PagesTyped /\ NothingAhead
    BY DEF RoutesInv
<1>1. /\ page[s] = "none" /\ expiries < MaxExpiries /\ expiries' = expiries + 1
      /\ tracking' = tracking \ {s} /\ running' = running \ {s} /\ tasks' = [tasks EXCEPT ![s] = {}]
      /\ UNCHANGED <<place, content, lost, since, listed, seen, page, todo, keys, staged, routes,
                     visible, opened, wedged, deaf, regressed, moves>>
    BY DEF Routes!Expire, Routes!Ready, Routes!Cancelled, Routes!provider, Routes!batch,
           Routes!evidence, Routes!history
<1>2. Routes!TypeOK'
  <2>1. expiries' \in 0..MaxExpiries
      BY <1>0, <1>1, RoutesBounds DEF Routes!TypeOK
  <2> QED
      BY <1>0, <1>1, <2>1 DEF Routes!TypeOK
<1>3. PagesTyped'
    BY <1>0, <1>1 DEF PagesTyped
<1>4. NothingAhead'
    BY <1>0, <1>1 DEF NothingAhead
<1>5. OnlyStream(s)
    BY <1>0, <1>1 DEF OnlyStream, Routes!TypeOK
<1>6. \A t \in Stream, f \in Shared : Follows(t, f)'
  <2>1. \A f \in Shared : Follows(s, f)'
      BY <1>1 DEF Follows
  <2> QED
      BY <1>5, <2>1, OthersFollow
<1>7. \A f \in Shared : HeldUp(f)'
    BY <1>1, StillHeldUp
<1> QED
    BY <1>2, <1>3, <1>4, <1>6, <1>7 DEF RoutesInv

\* One route refers to another content.
Sent(r, s, f, n) == [r EXCEPT ![s][f] = n]

LEMMA SentIs ==
    ASSUME NEW r \in [Stream -> [Shared -> 0..MaxEdits]], NEW s \in Stream, NEW f \in Shared,
           NEW n \in 0..MaxEdits
    PROVE  /\ Sent(r, s, f, n) \in [Stream -> [Shared -> 0..MaxEdits]]
           /\ Sent(r, s, f, n)[s][f] = n
           /\ \A g \in Shared : g # f => Sent(r, s, f, n)[s][g] = r[s][g]
           /\ \A t \in Stream : t # s => Sent(r, s, f, n)[t] = r[t]
<1> DEFINE ofStream == r[s]
           new == [ofStream EXCEPT ![f] = n]
<1>1. ofStream \in [Shared -> 0..MaxEdits]
    OBVIOUS
<1>2. new \in [Shared -> 0..MaxEdits] /\ new[f] = n /\ \A g \in Shared : g # f => new[g] = ofStream[g]
    BY <1>1
<1>3. Sent(r, s, f, n) = [r EXCEPT ![s] = new]
    BY DEF Sent
<1> HIDE DEF new
<1> QED
    BY <1>2, <1>3

\* An event is done: what is left is as before.
LEMMA DoneWith ==
    ASSUME RoutesInv, NEW s \in Stream, NEW e \in todo[s], todo' = [todo EXCEPT ![s] = @ \ {e}]
    PROVE  /\ todo' \in [Stream -> SUBSET Transitions] /\ todo'[s] = todo[s] \ {e}
           /\ \A t \in Stream : t # s => todo'[t] = todo[t]
           /\ e \in Transitions /\ e.file \in Shared /\ e.content \in 1..MaxEdits
           /\ e.content <= content[e.file] /\ e.ops \in {{"activate"}, {"retire"}}
           /\ \A g \in Shared : g # e.file => (InTodo(s, g)' <=> InTodo(s, g))
           /\ page[s] # "none"
<1>1. todo \in [Stream -> SUBSET Transitions]
    BY DEF RoutesInv, PagesTyped
<1>2. /\ todo' \in [Stream -> SUBSET Transitions] /\ todo'[s] = todo[s] \ {e}
      /\ \A t \in Stream : t # s => todo'[t] = todo[t]
    BY <1>1
<1>3. e \in Transitions
    BY <1>1
<1>4. e.file \in Shared /\ e.content \in 1..MaxEdits /\ e.ops \in {{"activate"}, {"retire"}}
    BY <1>3 DEF Transitions
<1>5. e.content <= content[e.file]
    BY <1>4 DEF RoutesInv, NothingAhead
<1>6. \A g \in Shared : g # e.file => (InTodo(s, g)' <=> InTodo(s, g))
    BY <1>2 DEF InTodo
<1>7. page[s] # "none"
    BY DEF RoutesInv, PagesTyped
<1> QED
    BY <1>2, <1>3, <1>4, <1>5, <1>6, <1>7

\* The event of f is done; the route of f alone may have changed.
EventDone(s, e) ==
    /\ e \in todo[s] /\ todo' = [todo EXCEPT ![s] = @ \ {e}]
    /\ UNCHANGED <<place, content, lost, since, tracking, running, tasks, listed, page, keys, staged,
                   moves, expiries>>
    /\ seen' \in [Stream -> SUBSET Shared] /\ opened' \in [Shared -> 0..MaxEdits]
    /\ \A t \in Stream : t # s => seen'[t] = seen[t]
    /\ seen'[s] = seen[s] \/ seen'[s] = seen[s] \cup {e.file}
    /\ wedged' = wedged \/ wedged' = wedged \cup {s}
    /\ deaf' = deaf \/ deaf' = deaf \cup {<<s, e.file>>}
    /\ regressed' = regressed \/ regressed' = regressed \cup {e.file}
    /\ visible' \in [Shared -> 0..MaxEdits] /\ visible'[e.file] <= content[e.file]
    /\ \A g \in Shared : g # e.file => visible'[g] = visible[g]
    /\ routes' \in [Stream -> [Shared -> 0..MaxEdits]] /\ routes'[s][e.file] <= content[e.file]
    /\ \A g \in Shared : g # e.file => routes'[s][g] = routes[s][g]
    /\ \A t \in Stream : t # s => routes'[t] = routes[t]

LEMMA EventStep ==
    ASSUME RoutesInv, NEW s \in Stream, NEW e, EventDone(s, e),
           Follows(s, e.file)', HeldUp(e.file)'
    PROVE  RoutesInv'
<1> DEFINE f == e.file
<1>0. Routes!TypeOK /\ PagesTyped /\ NothingAhead /\ e \in todo[s]
    BY DEF RoutesInv, EventDone
<1>1. /\ todo' \in [Stream -> SUBSET Transitions] /\ todo'[s] = todo[s] \ {e}
      /\ \A t \in Stream : t # s => todo'[t] = todo[t]
      /\ e \in Transitions /\ f \in Shared
      /\ \A g \in Shared : g # f => (InTodo(s, g)' <=> InTodo(s, g))
      /\ page[s] # "none"
    BY <1>0, DoneWith DEF EventDone
<1> HIDE DEF f
<1>2. /\ UNCHANGED <<place, content, lost, since, tracking, running, tasks, listed, page, keys, staged,
                   moves, expiries>>
      /\ seen' \in [Stream -> SUBSET Shared] /\ opened' \in [Shared -> 0..MaxEdits]
      /\ \A t \in Stream : t # s => seen'[t] = seen[t]
      /\ seen'[s] = seen[s] \/ seen'[s] = seen[s] \cup {f}
      /\ visible' \in [Shared -> 0..MaxEdits] /\ visible'[f] <= content[f]
      /\ \A g \in Shared : g # f => visible'[g] = visible[g]
      /\ routes' \in [Stream -> [Shared -> 0..MaxEdits]] /\ routes'[s][f] <= content[f]
      /\ \A g \in Shared : g # f => routes'[s][g] = routes[s][g]
      /\ \A t \in Stream : t # s => routes'[t] = routes[t]
    BY DEF EventDone, f
<1>3. /\ wedged \subseteq wedged' /\ wedged' \subseteq Stream
      /\ deaf \subseteq deaf' /\ deaf' \subseteq Stream \X Shared
      /\ regressed \subseteq regressed' /\ regressed' \subseteq Shared
  <2>1. wedged \subseteq Stream /\ deaf \subseteq Stream \X Shared /\ regressed \subseteq Shared
      BY <1>0 DEF Routes!TypeOK
  <2>2. /\ wedged' = wedged \/ wedged' = wedged \cup {s}
        /\ deaf' = deaf \/ deaf' = deaf \cup {<<s, f>>}
        /\ regressed' = regressed \/ regressed' = regressed \cup {f}
      BY DEF EventDone, f
  <2>3. wedged \subseteq wedged' /\ wedged' \subseteq Stream
      BY <2>1, <2>2
  <2>4. deaf \subseteq deaf' /\ deaf' \subseteq Stream \X Shared
      BY <1>1, <2>1, <2>2
  <2>5. regressed \subseteq regressed' /\ regressed' \subseteq Shared
      BY <1>1, <2>1, <2>2
  <2> QED
      BY <2>3, <2>4, <2>5
<1>4. Routes!TypeOK'
    BY <1>0, <1>2, <1>3 DEF Routes!TypeOK
<1>5. PagesTyped'
    BY <1>0, <1>1, <1>2 DEF PagesTyped
<1>6. NothingAhead'
  <2>1. ASSUME NEW g \in Shared PROVE visible'[g] <= content[g]
      BY <1>0, <1>2 DEF NothingAhead
  <2>2. ASSUME NEW g \in Shared, NEW t \in Stream PROVE routes'[t][g] <= content[g]
    <3>1. routes[t][g] <= content[g]
        BY <1>0 DEF NothingAhead
    <3> QED
        BY <1>2, <3>1
  <2>3. ASSUME NEW g \in Shared, NEW t \in Stream, NEW d \in todo'[t], d.file = g
        PROVE  d.content <= content[g]
    <3>1. d \in todo[t]
        BY <1>1, <2>3
    <3> QED
        BY <1>0, <2>3, <3>1 DEF NothingAhead
  <2> QED
      BY <1>2, <2>1, <2>2, <2>3 DEF NothingAhead
<1>7. OnlyStream(s)
    BY <1>1, <1>2, <1>3 DEF OnlyStream
<1>8. ASSUME NEW g \in Shared PROVE Follows(s, g)'
  <2>1. CASE g = f
      BY <2>1 DEF f
  <2>2. CASE g # f
    <3>1. Follows(s, g)
        BY DEF RoutesInv
    <3>2. (s \in Routes!Roots(g))' <=> s \in Routes!Roots(g)
        BY <1>2, RootsStay
    <3>3. \A d \in todo'[s] : d \in todo[s] /\ (d.file = g => (Brings(s, d)' <=> Brings(s, d)))
        BY <1>1, <1>2, <3>2 DEF Brings
    <3>4. g \in seen'[s] <=> g \in seen[s]
        BY <1>2, <2>2
    <3>5. InTodo(s, g)' <=> InTodo(s, g)
        BY <1>1, <2>2
    <3>6. Following(s, g) => Following(s, g)'
        BY <1>2, <2>2, <3>2, <3>3, <3>5 DEF Following
    <3>7. Listing(s, g) => Listing(s, g)'
        BY <1>2, <2>2, <3>2, <3>3, <3>4, <3>5 DEF Listing
    <3> QED
        BY <1>2, <1>3, <3>1, <3>6, <3>7 DEF Follows
  <2> QED
      BY <2>1, <2>2
<1>9. ASSUME NEW g \in Shared PROVE HeldUp(g)'
  <2>1. CASE g = f
      BY <2>1 DEF f
  <2>2. CASE g # f
    <3>1. HeldUp(g) /\ visible'[g] = visible[g] /\ \A t \in Stream : routes'[t][g] = routes[t][g]
        BY <1>2, <2>2 DEF RoutesInv
    <3> QED
        BY <1>2, <1>3, <3>1 DEF HeldUp
  <2> QED
      BY <2>1, <2>2
<1>10. \A t \in Stream, g \in Shared : Follows(t, g)'
    BY <1>7, <1>8, OthersFollow
<1> QED
    BY <1>4, <1>5, <1>6, <1>9, <1>10 DEF RoutesInv

\* The other events of the file, and the roots, are what they were.
LEMMA LeftBrings ==
    ASSUME RoutesInv, NEW s \in Stream, NEW e, EventDone(s, e),
           \A d \in todo[s] : d.file = e.file => Brings(s, d)
    PROVE  /\ \A d \in todo'[s] : d.file = e.file => Brings(s, d)'
           /\ (s \in Routes!Roots(e.file))' <=> s \in Routes!Roots(e.file)
<1>1. e \in todo[s] /\ UNCHANGED <<place, lost, content>>
    BY DEF EventDone
<1>2. todo'[s] \subseteq todo[s]
    BY <1>1, DoneWith DEF EventDone
<1>3. \A g : (s \in Routes!Roots(g))' <=> s \in Routes!Roots(g)
    BY <1>1, RootsStay
<1> QED
    BY <1>1, <1>2, <1>3 DEF Brings

LEMMA RouteActivateStep ==
    ASSUME RoutesInv, NEW s \in Stream, Routes!Activate(s)
    PROVE  RoutesInv'
<1>0. Routes!TypeOK /\ PagesTyped /\ NothingAhead
    BY DEF RoutesInv
<1>1. PICK e \in todo[s] :
        /\ "activate" \in e.ops /\ todo' = [todo EXCEPT ![s] = @ \ {e}]
        /\ Routes!Opened(e.file, e.content) /\ Routes!OpenRoute(s, e.file, e.content, e.version)
        /\ Routes!MarkSeen(s, e.file)
        /\ UNCHANGED <<place, content, lost, since, tracking, running, tasks, listed, page, keys, staged,
                       wedged, moves, expiries>>
    BY DEF Routes!Activate, Routes!provider, Routes!cursors
<1> DEFINE f == e.file
           n == e.content
<1>2. f \in Shared /\ n \in 1..MaxEdits /\ n <= content[f] /\ e.ops = {"activate"}
  <2>1. /\ e.file \in Shared /\ e.content \in 1..MaxEdits /\ e.content <= content[e.file]
        /\ e.ops \in {{"activate"}, {"retire"}}
      BY <1>1, DoneWith
  <2>2. e.ops = {"activate"}
      BY <1>1, <2>1
  <2> QED
      BY <2>1, <2>2
<1>3. /\ visible' = [visible EXCEPT ![f] = n]
      /\ opened' = opened \/ opened' = [opened EXCEPT ![f] = content[f]]
      /\ regressed' = IF visible[f] > n THEN regressed \cup {f} ELSE regressed
    BY <1>1 DEF Routes!Opened
<1>4. \/ /\ routes' = routes /\ deaf' = deaf \cup {<<s, f>>}
      \/ /\ routes' = routes /\ deaf' = deaf /\ routes[s][f] = n
      \/ /\ routes' = Sent(routes, s, f, n) /\ deaf' = deaf
    BY <1>1 DEF Routes!OpenRoute, Sent
<1>5. seen' = IF s \in running THEN [seen EXCEPT ![s] = seen[s] \cup {f}] ELSE seen
    BY <1>1 DEF Routes!MarkSeen
<1> HIDE DEF f, n
<1>6. /\ routes' \in [Stream -> [Shared -> 0..MaxEdits]]
      /\ \A g \in Shared : g # f => routes'[s][g] = routes[s][g]
      /\ \A t \in Stream : t # s => routes'[t] = routes[t]
      /\ routes'[s][f] <= content[f] /\ (<<s, f>> \notin deaf' => routes'[s][f] = n)
  <2>1. routes \in [Stream -> [Shared -> 0..MaxEdits]] /\ routes[s][f] <= content[f]
      BY <1>0, <1>2 DEF Routes!TypeOK, NothingAhead
  <2>2. CASE routes' = Sent(routes, s, f, n)
    <3>1. n \in 0..MaxEdits
        BY <1>2, RoutesBounds
    <3> QED
        BY <1>2, <2>1, <2>2, <3>1, SentIs
  <2>3. CASE routes' = routes
      BY <1>2, <1>4, <2>1, <2>2, <2>3
  <2> QED
      BY <1>4, <2>2, <2>3
<1>7. /\ visible' \in [Shared -> 0..MaxEdits] /\ visible'[f] = n
      /\ \A g \in Shared : g # f => visible'[g] = visible[g]
      /\ opened' \in [Shared -> 0..MaxEdits]
      /\ seen' \in [Stream -> SUBSET Shared] /\ \A t \in Stream : t # s => seen'[t] = seen[t]
      /\ seen'[s] = seen[s] \/ seen'[s] = seen[s] \cup {f}
      /\ s \in running => f \in seen'[s]
  <2>1. /\ visible \in [Shared -> 0..MaxEdits] /\ opened \in [Shared -> 0..MaxEdits]
        /\ seen \in [Stream -> SUBSET Shared] /\ content[f] \in 0..MaxEdits /\ n \in 0..MaxEdits
      BY <1>0, <1>2, RoutesBounds DEF Routes!TypeOK
  <2>2. opened' \in [Shared -> 0..MaxEdits] /\ visible' \in [Shared -> 0..MaxEdits]
      BY <1>3, <2>1
  <2>3. visible'[f] = n /\ \A g \in Shared : g # f => visible'[g] = visible[g]
      BY <1>2, <1>3, <2>1
  <2> QED
      BY <1>2, <1>5, <2>1, <2>2, <2>3
<1>8. EventDone(s, e)
    BY <1>1, <1>2, <1>3, <1>4, <1>6, <1>7 DEF EventDone, f, n
<1>9. Follows(s, f)'
  <2>1. SUFFICES ASSUME s \notin wedged', <<s, f>> \notin deaf', f \notin since'[s]
                 PROVE  (s \in tracking' => Following(s, f)') /\ (s \in running' => Listing(s, f)')
      BY DEF Follows
  <2>2. s \notin wedged /\ <<s, f>> \notin deaf /\ f \notin since[s]
      BY <1>1, <1>4, <2>1
  <2>3. (s \in tracking => Following(s, f)) /\ (s \in running => Listing(s, f))
      BY <1>2, <2>2 DEF RoutesInv, Follows
  <2>4. ASSUME s \in tracking \/ s \in running
        PROVE  /\ \A d \in todo'[s] : d.file = f => Brings(s, d)'
               /\ (s \in Routes!Roots(f))' /\ routes'[s][f] = content'[f]
    <3>1. \A d \in todo[s] : d.file = f => Brings(s, d)
        BY <2>3, <2>4 DEF Following, Listing
    <3>2. s \in Routes!Roots(f) /\ n = content[f]
        BY <1>1, <1>2, <3>1 DEF Brings, f, n
    <3>3. /\ \A d \in todo'[s] : d.file = f => Brings(s, d)'
          /\ (s \in Routes!Roots(f))' <=> s \in Routes!Roots(f)
        BY <1>8, <3>1, LeftBrings DEF f
    <3> QED
        BY <1>1, <1>6, <2>1, <3>2, <3>3
  <2>5. s \in tracking => Following(s, f)'
      BY <2>4 DEF Following
  <2>6. s \in running => Listing(s, f)'
      BY <1>7, <2>4 DEF Listing
  <2> QED
      BY <1>1, <2>5, <2>6
<1>10. HeldUp(f)'
  <2>1. SUFFICES ASSUME f \notin regressed', \A t \in Stream : <<t, f>> \notin deaf'
                 PROVE  /\ visible'[f] # 0 => \E t \in Stream : routes'[t][f] = visible'[f]
                        /\ \A t \in Stream : routes'[t][f] = content'[f] => visible'[f] = content'[f]
      BY DEF HeldUp
  <2>2. routes'[s][f] = n /\ visible'[f] = n /\ content'[f] = content[f]
      BY <1>1, <1>6, <1>7, <2>1
  <2>3. ~(visible[f] > n) /\ f \notin regressed /\ \A t \in Stream : <<t, f>> \notin deaf
      BY <1>3, <1>4, <2>1
  <2>4. ASSUME NEW t \in Stream, routes'[t][f] = content[f] PROVE n = content[f]
    <3>1. CASE t = s
        BY <2>2, <2>4, <3>1
    <3>2. CASE t # s
      <4>1. routes[t][f] = content[f]
          BY <1>6, <2>4, <3>2
      <4>2. visible[f] = content[f]
          BY <1>2, <2>3, <4>1 DEF RoutesInv, HeldUp
      <4>3. content[f] \in 1..MaxEdits
          BY <1>0, <1>2 DEF Routes!TypeOK
      <4> QED
          BY <1>2, <2>3, <4>2, <4>3, RoutesBounds
    <3> QED
        BY <3>1, <3>2
  <2> QED
      BY <2>2, <2>4
<1> QED
    BY <1>8, <1>9, <1>10, EventStep DEF f

\* A file loses one route: what that route alone held is hidden, and the rest stays held.
LEMMA UnroutedHeld ==
    ASSUME RoutesInv, NEW s \in Stream, NEW f \in Shared, UNCHANGED content,
           routes'[s][f] = 0, \A t \in Stream : t # s => routes'[t] = routes[t],
           visible'[f] = Routes!Hidden(s, f, routes[s][f]),
           deaf \subseteq deaf', regressed \subseteq regressed'
    PROVE  HeldUp(f)' /\ visible'[f] \in {0, visible[f]}
<1> DEFINE n == routes[s][f]
           still == \E t \in Stream \ {s} : routes[t][f] = n
<1>1. visible'[f] = IF n # 0 /\ visible[f] = n /\ ~still THEN 0 ELSE visible[f]
    BY DEF Routes!Hidden, Routes!StillRouted
<1>2. content[f] # 0
  <2>1. content[f] \in 1..MaxEdits
      BY DEF RoutesInv, Routes!TypeOK
  <2> QED
      BY <2>1, RoutesBounds
<1>3. ASSUME f \notin regressed', \A t \in Stream : <<t, f>> \notin deaf'
      PROVE  /\ visible'[f] # 0 => \E t \in Stream : routes'[t][f] = visible'[f]
             /\ \A t \in Stream : routes'[t][f] = content[f] => visible'[f] = content[f]
  <2>1. /\ visible[f] # 0 => \E t \in Stream : routes[t][f] = visible[f]
        /\ \A t \in Stream : routes[t][f] = content[f] => visible[f] = content[f]
      BY <1>3 DEF RoutesInv, HeldUp
  <2>2. ASSUME visible'[f] # 0 PROVE \E t \in Stream : routes'[t][f] = visible'[f]
    <3>1. visible'[f] = visible[f] /\ (visible[f] = n => still)
        BY <1>1, <2>2
    <3>2. PICK t \in Stream : routes[t][f] = visible[f]
        BY <2>1, <2>2, <3>1
    <3>3. CASE t = s
      <4>1. PICK u \in Stream \ {s} : routes[u][f] = n
          BY <3>1, <3>2, <3>3
      <4> QED
          BY <3>1, <3>2, <3>3, <4>1
    <3>4. CASE t # s
        BY <3>1, <3>2, <3>4
    <3> QED
        BY <3>3, <3>4
  <2>3. ASSUME NEW t \in Stream, routes'[t][f] = content[f] PROVE visible'[f] = content[f]
    <3>1. t # s /\ routes[t][f] = content[f]
        BY <1>2, <2>3
    <3>2. visible[f] = content[f]
        BY <2>1, <3>1
    <3>3. visible[f] = n => still
        BY <3>1, <3>2
    <3> QED
        BY <1>1, <3>2, <3>3
  <2> QED
      BY <2>2, <2>3
<1>4. visible'[f] \in {0, visible[f]}
    BY <1>1
<1> QED
    BY <1>3, <1>4 DEF HeldUp

LEMMA RetireStep ==
    ASSUME RoutesInv, NEW s \in Stream, Routes!Retire(s)
    PROVE  RoutesInv'
<1>0. Routes!TypeOK /\ PagesTyped /\ NothingAhead
    BY DEF RoutesInv
<1>1. PICK e \in todo[s] :
        /\ e.ops = {"retire"} /\ todo' = [todo EXCEPT ![s] = @ \ {e}]
        /\ \/ /\ UNCHANGED <<routes, visible, opened, wedged>> /\ deaf' = deaf \cup {<<s, e.file>>}
           \/ /\ UNCHANGED <<routes, visible, opened, deaf>> /\ wedged' = wedged \cup {s}
           \/ /\ UNCHANGED <<opened, wedged, deaf>> /\ routes' = Sent(routes, s, e.file, 0)
              /\ visible' = [visible EXCEPT ![e.file] = Routes!Hidden(s, e.file, routes[s][e.file])]
        /\ UNCHANGED <<place, content, lost, since, tracking, running, tasks, listed, seen, page, keys,
                       staged, regressed, moves, expiries>>
    BY DEF Routes!Retire, Routes!CloseRoute, Routes!provider, Routes!cursors, Routes!generation,
           Routes!evidence, Sent
<1> DEFINE f == e.file
<1>2. f \in Shared
    BY <1>1, DoneWith
<1> HIDE DEF f
<1>3. /\ routes \in [Stream -> [Shared -> 0..MaxEdits]] /\ visible \in [Shared -> 0..MaxEdits]
      /\ content \in [Shared -> 1..MaxEdits] /\ opened \in [Shared -> 0..MaxEdits]
      /\ seen \in [Stream -> SUBSET Shared]
      /\ routes[s][f] <= content[f] /\ visible[f] <= content[f]
      /\ 0 \in 0..MaxEdits /\ 0 <= content[f]
  <2>1. content \in [Shared -> 1..MaxEdits]
      BY <1>0 DEF Routes!TypeOK
  <2>2. 0 \in 0..MaxEdits /\ 0 <= content[f]
      BY <1>2, <2>1, RoutesBounds
  <2> QED
      BY <1>0, <1>2, <2>1, <2>2 DEF Routes!TypeOK, NothingAhead
<1>4. \/ UNCHANGED <<routes, visible, opened, wedged>> /\ deaf' = deaf \cup {<<s, f>>}
      \/ UNCHANGED <<routes, visible, opened, deaf>> /\ wedged' = wedged \cup {s}
      \/ /\ UNCHANGED <<opened, wedged, deaf>> /\ routes'[s][f] = 0
         /\ routes' \in [Stream -> [Shared -> 0..MaxEdits]]
         /\ \A g \in Shared : g # f => routes'[s][g] = routes[s][g]
         /\ \A t \in Stream : t # s => routes'[t] = routes[t]
         /\ visible' = [visible EXCEPT ![f] = Routes!Hidden(s, f, routes[s][f])]
         /\ visible'[f] = Routes!Hidden(s, f, routes[s][f])
  <2>1. /\ Sent(routes, s, f, 0) \in [Stream -> [Shared -> 0..MaxEdits]]
        /\ Sent(routes, s, f, 0)[s][f] = 0
        /\ \A g \in Shared : g # f => Sent(routes, s, f, 0)[s][g] = routes[s][g]
        /\ \A t \in Stream : t # s => Sent(routes, s, f, 0)[t] = routes[t]
    <3>1. 0 \in 0..MaxEdits /\ routes \in [Stream -> [Shared -> 0..MaxEdits]]
        BY <1>3
    <3>2. ASSUME NEW n \in 0..MaxEdits
          PROVE  /\ Sent(routes, s, f, n) \in [Stream -> [Shared -> 0..MaxEdits]]
                 /\ Sent(routes, s, f, n)[s][f] = n
                 /\ \A g \in Shared : g # f => Sent(routes, s, f, n)[s][g] = routes[s][g]
                 /\ \A t \in Stream : t # s => Sent(routes, s, f, n)[t] = routes[t]
      <4> HIDE <1>0, <1>1, <1>3
      <4> QED
          BY <1>2, <3>1, SentIs
    <3> QED
        BY <3>1, <3>2
  <2> QED
      BY <1>1, <1>2, <1>3, <2>1 DEF f
<1>5. deaf \subseteq deaf' /\ regressed \subseteq regressed' /\ wedged \subseteq wedged'
    BY <1>1, <1>4
<1>6. HeldUp(f)' /\ visible'[f] \in {0, visible[f]} /\ \A g \in Shared : g # f => visible'[g] = visible[g]
  <2>1. CASE UNCHANGED <<routes, visible>>
      BY <1>1, <1>2, <1>5, <2>1, StillHeldUp
  <2>2. CASE /\ routes'[s][f] = 0 /\ \A t \in Stream : t # s => routes'[t] = routes[t]
             /\ visible' = [visible EXCEPT ![f] = Routes!Hidden(s, f, routes[s][f])]
             /\ visible'[f] = Routes!Hidden(s, f, routes[s][f])
    <3>1. HeldUp(f)' /\ visible'[f] \in {0, visible[f]}
        BY <1>1, <1>2, <1>5, <2>2, UnroutedHeld
    <3>2. \A g \in Shared : g # f => visible'[g] = visible[g]
        BY <1>3, <2>2
    <3> QED
        BY <3>1, <3>2
  <2> QED
      BY <1>4, <2>1, <2>2
<1>7. EventDone(s, e)
  <2>1. visible' \in [Shared -> 0..MaxEdits] /\ visible'[f] <= content[f]
    <3>1. visible' = visible \/ visible' = [visible EXCEPT ![f] = visible'[f]]
        BY <1>3, <1>4, <1>2
    <3>2. visible'[f] \in 0..MaxEdits /\ visible'[f] <= content[f]
        BY <1>2, <1>3, <1>6
    <3> QED
        BY <1>3, <3>1, <3>2
  <2>2. /\ routes' \in [Stream -> [Shared -> 0..MaxEdits]] /\ routes'[s][f] <= content[f]
        /\ \A g \in Shared : g # f => routes'[s][g] = routes[s][g]
        /\ \A t \in Stream : t # s => routes'[t] = routes[t]
      BY <1>3, <1>4
  <2>3. /\ seen' \in [Stream -> SUBSET Shared] /\ opened' \in [Shared -> 0..MaxEdits]
        /\ seen' = seen /\ regressed' = regressed
        /\ wedged' = wedged \/ wedged' = wedged \cup {s}
        /\ deaf' = deaf \/ deaf' = deaf \cup {<<s, f>>}
      BY <1>1, <1>3, <1>4
  <2> QED
      BY <1>1, <1>6, <2>1, <2>2, <2>3 DEF EventDone, f
<1>8. Follows(s, f)'
  <2>1. SUFFICES ASSUME s \notin wedged', <<s, f>> \notin deaf', f \notin since'[s]
                 PROVE  (s \in tracking' => Following(s, f)') /\ (s \in running' => Listing(s, f)')
      BY DEF Follows
  <2>2. s \notin wedged /\ <<s, f>> \notin deaf /\ f \notin since[s] /\ routes'[s][f] = 0
      BY <1>1, <1>4, <1>5, <2>1
  <2>3. (s \in tracking => Following(s, f)) /\ (s \in running => Listing(s, f))
      BY <1>2, <2>2 DEF RoutesInv, Follows
  <2>4. ASSUME s \in tracking \/ s \in running
        PROVE  /\ \A d \in todo'[s] : d.file = f => Brings(s, d)'
               /\ s \notin Routes!Roots(f) /\ ~(s \in Routes!Roots(f))' /\ InTodo(s, f)
    <3>1. \A d \in todo[s] : d.file = f => Brings(s, d)
        BY <2>3, <2>4 DEF Following, Listing
    <3>2. Brings(s, e) /\ InTodo(s, f)
        BY <1>1, <3>1 DEF InTodo, f
    <3>3. s \notin Routes!Roots(f)
        BY <1>1, <3>2 DEF Brings, f
    <3>4. /\ \A d \in todo'[s] : d.file = f => Brings(s, d)'
          /\ (s \in Routes!Roots(f))' <=> s \in Routes!Roots(f)
        BY <1>7, <3>1, LeftBrings DEF f
    <3> QED
        BY <3>2, <3>3, <3>4
  <2>5. s \in tracking => Following(s, f)'
      BY <2>2, <2>4 DEF Following
  <2>6. s \notin running
      BY <2>3, <2>4 DEF Listing
  <2> QED
      BY <1>1, <2>5, <2>6
<1> QED
    BY <1>6, <1>7, <1>8, EventStep DEF f

LEMMA FinishPageStep ==
    ASSUME RoutesInv, NEW s \in Stream, Routes!FinishPage(s)
    PROVE  RoutesInv'
<1>0. Routes!TypeOK /\ PagesTyped /\ NothingAhead
    BY DEF RoutesInv
<1>1. /\ page[s] # "none" /\ todo[s] = {} /\ s \notin wedged /\ page' = [page EXCEPT ![s] = "none"]
      /\ UNCHANGED <<place, content, lost, since, listed, seen, todo, keys, staged, opened, wedged,
                     deaf, regressed, moves, expiries>>
    BY DEF Routes!FinishPage, Routes!provider, Routes!history
<1>2. \A f \in Shared : ~InTodo(s, f)
    BY <1>1 DEF InTodo
<1>3. /\ page' \in [Stream -> {"none", "list", "changes"}] /\ page'[s] = "none"
      /\ \A t \in Stream : t # s => page'[t] = page[t]
    BY <1>0, <1>1 DEF Routes!TypeOK
<1>4. CASE UNCHANGED <<routes, visible, running, tasks, tracking>>
  <2>1. Routes!TypeOK'
      BY <1>0, <1>1, <1>3, <1>4 DEF Routes!TypeOK
  <2>2. PagesTyped'
      BY <1>0, <1>1, <1>3, <1>4 DEF PagesTyped
  <2>3. NothingAhead'
      BY <1>0, <1>1, <1>4 DEF NothingAhead
  <2>4. ASSUME NEW t \in Stream, NEW f \in Shared PROVE Follows(t, f)'
      BY <1>1, <1>4 DEF RoutesInv, Follows, Following, Listing, InTodo, Brings, Routes!Roots
  <2>5. \A f \in Shared : HeldUp(f)'
      BY <1>1, <1>4, StillHeldUp
  <2> QED
      BY <2>1, <2>2, <2>3, <2>4, <2>5 DEF RoutesInv
<1>5. CASE /\ s \in running /\ tasks[s] = {} /\ Routes!RetireUnseen(s)
           /\ running' = running \ {s} /\ tasks' = [tasks EXCEPT ![s] = {}]
           /\ tracking' = tracking \cup {s}
  <2> DEFINE missed == {f \in Shared : routes[s][f] # 0 /\ f \notin seen[s]}
             left == [f \in Shared |-> IF f \in missed THEN 0 ELSE routes[s][f]]
  <2>1. /\ routes \in [Stream -> [Shared -> 0..MaxEdits]] /\ visible \in [Shared -> 0..MaxEdits]
        /\ content \in [Shared -> 1..MaxEdits]
        /\ running \subseteq Stream /\ tracking \subseteq Stream /\ tasks \in [Stream -> SUBSET (1..Pages)]
      BY <1>0 DEF Routes!TypeOK
  <2>2. /\ routes' = [routes EXCEPT ![s] = left]
        /\ visible' = [f \in Shared |->
              IF f \in missed THEN Routes!Hidden(s, f, routes[s][f]) ELSE visible[f]]
      BY <1>5 DEF Routes!RetireUnseen
  <2>3. /\ \A f \in missed : f \in Shared /\ routes[s][f] # 0 /\ f \notin seen[s]
        /\ \A f \in Shared : f \in missed \/ routes[s][f] = 0 \/ f \in seen[s]
      OBVIOUS
  <2>4. 0 \in 0..MaxEdits
      BY RoutesBounds
  <2>5. left \in [Shared -> 0..MaxEdits]
      BY <2>1, <2>4
  <2>6. \A f \in Shared : left[f] = IF f \in missed THEN 0 ELSE routes[s][f]
      OBVIOUS
  <2> HIDE DEF missed, left
  <2>7. /\ routes' \in [Stream -> [Shared -> 0..MaxEdits]] /\ routes'[s] = left
        /\ \A t \in Stream : t # s => routes'[t] = routes[t]
      BY <2>1, <2>2, <2>5
  <2>8. ASSUME NEW f \in Shared PROVE HeldUp(f)' /\ visible'[f] \in {0, visible[f]}
    <3>1. CASE f \in missed
      <4>1. visible'[f] = Routes!Hidden(s, f, routes[s][f]) /\ routes'[s][f] = 0
          BY <2>2, <2>6, <2>7, <3>1
      <4> QED
          BY <1>1, <2>7, <4>1, UnroutedHeld
    <3>2. CASE f \notin missed
      <4>1. visible'[f] = visible[f] /\ routes'[s][f] = routes[s][f]
          BY <2>2, <2>6, <2>7, <3>2
      <4>2. \A t \in Stream : routes'[t][f] = routes[t][f]
          BY <2>7, <4>1
      <4> QED
          BY <1>1, <4>1, <4>2 DEF RoutesInv, HeldUp
    <3> QED
        BY <3>1, <3>2
  <2>9. visible' \in [Shared -> 0..MaxEdits]
    <3>1. \A f \in Shared : visible'[f] \in 0..MaxEdits
        BY <2>1, <2>4, <2>8
    <3> QED
        BY <2>2, <3>1
  <2>10. /\ running' \subseteq Stream /\ tracking' \subseteq Stream
         /\ tasks' \in [Stream -> SUBSET (1..Pages)]
         /\ \A t \in Stream : t # s =>
               /\ tasks'[t] = tasks[t]
               /\ (t \in tracking' <=> t \in tracking) /\ (t \in running' <=> t \in running)
         /\ s \in tracking' /\ s \notin running' /\ tracking' \cap running' = {}
    <3>1. tracking \cap running = {}
        BY <1>0 DEF PagesTyped
    <3> QED
        BY <1>5, <2>1, <3>1
  <2>11. Routes!TypeOK'
      BY <1>0, <1>1, <1>3, <2>7, <2>9, <2>10 DEF Routes!TypeOK
  <2>12. PagesTyped'
      BY <1>0, <1>1, <1>3, <2>10 DEF PagesTyped
  <2>13. NothingAhead'
    <3>1. ASSUME NEW f \in Shared PROVE visible'[f] <= content[f] /\ 0 <= content[f]
      <4>1. content[f] \in 1..MaxEdits /\ visible[f] <= content[f]
          BY <1>0, <2>1 DEF NothingAhead
      <4>2. 0 <= content[f]
          BY <4>1, RoutesBounds
      <4> QED
          BY <2>8, <4>1, <4>2
    <3>2. ASSUME NEW f \in Shared, NEW t \in Stream PROVE routes'[t][f] <= content[f]
      <4>1. routes[t][f] <= content[f]
          BY <1>0 DEF NothingAhead
      <4> QED
          BY <2>6, <2>7, <3>1, <4>1
    <3> QED
        BY <1>0, <1>1, <3>1, <3>2 DEF NothingAhead
  <2>14. ASSUME NEW f \in Shared PROVE Follows(s, f)'
    <3>1. SUFFICES ASSUME <<s, f>> \notin deaf, f \notin since[s] PROVE Following(s, f)'
        BY <1>1, <2>10 DEF Follows
    <3>2. Listing(s, f)
        BY <1>1, <1>5, <3>1 DEF RoutesInv, Follows
    <3>3. /\ s \in Routes!Roots(f) => routes[s][f] = content[f] /\ f \in seen[s]
          /\ s \notin Routes!Roots(f) => f \notin seen[s]
        BY <1>2, <1>5, <3>2 DEF Listing
    <3>4. routes'[s][f] = IF s \in Routes!Roots(f) THEN content[f] ELSE 0
        BY <2>3, <2>6, <2>7, <3>3
    <3>5. (s \in Routes!Roots(f))' <=> s \in Routes!Roots(f)
        BY <1>1, RootsStay
    <3> QED
        BY <1>1, <3>4, <3>5 DEF Following
  <2>15. OnlyStream(s)
      BY <1>1, <2>7, <2>10 DEF OnlyStream
  <2>16. \A t \in Stream, f \in Shared : Follows(t, f)'
      BY <2>14, <2>15, OthersFollow
  <2> QED
      BY <2>8, <2>11, <2>12, <2>13, <2>16 DEF RoutesInv
<1> QED
    BY <1>4, <1>5 DEF Routes!FinishPage, Routes!Covered

LEMMA RoutesNext == RoutesInv /\ Routes!Next => RoutesInv'
BY ProviderStep, StartStep, ListPageStep, PullChangesStep, ExpireStep, RouteActivateStep, RetireStep,
   FinishPageStep DEF Routes!Next, Routes!Sync

RoutesPartInv == part = "routes" => RoutesInv

\* For any streams, files, pages and bounds: a stream that follows the changes has a route for
\* each file of its root or an event that makes it, a generation will list what it has not
\* seen, and evidence is held by a route (sync, complete_provider_sync_generation,
\* _retire_source_if_unrouted_tx).
THEOREM RoutesInvariance == SideBySide => []RoutesPartInv
<1>1. StartAll => RoutesPartInv
    BY RoutesInitially DEF StartAll, RoutesPartInv
<1>2. RoutesPartInv /\ [StepOne]_allVars => RoutesPartInv'
  <2>1. CASE StepOne
    <3>1. CASE part = "routes"
        BY <2>1, <3>1, RoutesNext DEF StepOne, RoutesPartInv
    <3>2. CASE part # "routes"
        BY <2>1, <3>2 DEF StepOne, RoutesPartInv
    <3> QED
        BY <3>1, <3>2
  <2>2. CASE UNCHANGED allVars
    <3>1. /\ part' = part
          /\ UNCHANGED <<place, content, lost, since, tracking, running, tasks, listed, seen, page, todo,
                         keys, staged, log, routes, visible, opened, wedged, deaf, regressed, moves,
                         expiries>>
        BY <2>2 DEF allVars, RoutesVars
    <3>2. SUFFICES ASSUME RoutesInv PROVE RoutesInv'
        BY <3>1 DEF RoutesPartInv
    <3>3. Routes!TypeOK' /\ PagesTyped' /\ NothingAhead'
        BY <3>1, <3>2 DEF RoutesInv, Routes!TypeOK, PagesTyped, NothingAhead
    <3>4. \A s \in Stream, f \in Shared : Follows(s, f)'
        BY <3>1, <3>2 DEF RoutesInv, Follows, Following, Listing, InTodo, Brings, Routes!Roots
    <3>5. \A f \in Shared : HeldUp(f)'
        BY <3>1, <3>2 DEF RoutesInv, HeldUp
    <3> QED
        BY <3>3, <3>4, <3>5 DEF RoutesInv
  <2> QED
      BY <2>1, <2>2
<1> QED
    BY <1>1, <1>2, PTL DEF SideBySide

\* A stream that has caught up refers to exactly the files of its root, in their last content,
\* and evidence is visible exactly while a root holds its file (sync,
\* complete_provider_sync_generation, _retire_source_if_unrouted_tx).
THEOREM RoutesFollowRootsHolds == SideBySide => []RoutesFollowRoots
<1>1. ASSUME RoutesInv, NEW s \in Stream, NEW f \in Shared, Routes!UpToDate(s), <<s, f>> \notin deaf
      PROVE  routes[s][f] = IF s \in Routes!Roots(f) THEN content[f] ELSE 0
  <2>1. s \in tracking /\ page[s] = "none" /\ since[s] = {} /\ s \notin wedged
      BY <1>1 DEF Routes!UpToDate
  <2>2. todo[s] = {} /\ Following(s, f)
      BY <1>1, <2>1 DEF RoutesInv, PagesTyped, Follows
  <2> QED
      BY <2>2 DEF Following, InTodo
<1>2. RoutesInv => Routes!FollowsItsRoot
    BY <1>1 DEF Routes!FollowsItsRoot
<1>3. ASSUME RoutesInv, NEW f \in Shared, f \notin regressed,
             \A s \in Stream : Routes!UpToDate(s) /\ <<s, f>> \notin deaf
      PROVE  visible[f] = IF Routes!Roots(f) # {} THEN content[f] ELSE 0
  <2>1. /\ visible[f] # 0 => \E s \in Stream : routes[s][f] = visible[f]
        /\ \A s \in Stream : routes[s][f] = content[f] => visible[f] = content[f]
      BY <1>3 DEF RoutesInv, HeldUp
  <2>2. \A s \in Stream : routes[s][f] = IF s \in Routes!Roots(f) THEN content[f] ELSE 0
      BY <1>1, <1>3
  <2>3. CASE Routes!Roots(f) # {}
    <3>1. PICK s \in Routes!Roots(f) : s \in Stream
        BY <1>3, <2>3, RootsAre
    <3> QED
        BY <2>1, <2>2, <2>3, <3>1
  <2>4. CASE Routes!Roots(f) = {}
      BY <2>1, <2>2, <2>4
  <2> QED
      BY <2>3, <2>4
<1>4. RoutesInv => Routes!VisibleIsHeld
    BY <1>3 DEF Routes!VisibleIsHeld
<1>5. RoutesPartInv => RoutesFollowRoots
    BY <1>2, <1>4 DEF RoutesPartInv, RoutesFollowRoots, RoutesInv
<1> QED
    BY <1>5, RoutesInvariance, PTL
==============================================================================
