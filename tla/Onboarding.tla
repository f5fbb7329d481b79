----------------------------- MODULE Onboarding -----------------------------
(***************************************************************************)
(* The CSV imports of services/onboarding.py: a preview keeps the rows of  *)
(* a file and which of them are valid, a commit writes the valid ones      *)
(* through the services for workspaces, campaigns and metrics, then a      *)
(* receipt.  The commit is one `with self.conn` block, but each of those   *)
(* services commits on the same connection, so what a row wrote stays.     *)
(*                                                                         *)
(* One organization; another one may make the workspaces of Contested for  *)
(* itself.  Several processes import at once, each through its connection. *)
(***************************************************************************)
EXTENDS Naturals, Sequences, FiniteSets, FiniteSetsExt

CONSTANTS
    Process, Key, Workspace, Contested,
    Files,      \* the files, sequences of rows
    MaxBatches, MaxCommits, MaxCrashes  \* bounds: previews, commits, dead processes

VARIABLES
    batches,    \* onboarding_import_batches with the valid rows of each
    receipts,   \* onboarding_import_receipts of the commits
    errors,     \* onboarding_import_errors of the commits
    written,    \* the campaigns and snapshots, each with the row it came from
    workspace,  \* what there is of each workspace
    commit,     \* the commit each process is doing
    pending,    \* errors a connection has not committed
    lock,       \* the connection whose transaction is open, or "none"
    commits, crashes

vars == <<batches, receipts, errors, written, workspace, commit, pending, lock, commits, crashes>>

\* A row asks for a client workspace with a given id, or appends a campaign or a snapshot;
\* "costly" rows pass the preview and are refused by the service.
Row == [type: {"client"}, of: Workspace] \cup [type: {"plain", "costly", "wrong"}, of: {"none"}]

OnboardingAssumption ==
    Files \subseteq Seq(Row) /\ Contested \subseteq Workspace /\ "none" \notin Process

Pieces == {"made", "attached", "joined"}     \* of the organization
Others == {"made", "attached", "foreign"}   \* of another one
Idle == [at |-> "idle"]

Batches == 1..Len(batches)
Receipt == [batch: Nat, key: Key, status: {"committed", "committed_with_errors"}]

TypeOK ==
    /\ \A b \in Batches : batches[b].valid \subseteq 1..Len(batches[b].rows)
    /\ receipts \subseteq Receipt
    /\ \A b \in Batches : \A i \in 1..Len(batches[b].rows) : batches[b].rows[i] \in Row
    /\ workspace \in [Workspace -> {{}, {"made"}, {"made", "attached"}, Pieces, Others}]
    /\ \A p \in Process : pending[p] # {} => lock = p

Init ==
    /\ batches = <<>> /\ receipts = {} /\ errors = {} /\ written = <<>>
    /\ workspace = [w \in Workspace |-> {}]
    /\ commit = [p \in Process |-> Idle]
    /\ pending = [p \in Process |-> {}]
    /\ lock = "none"
    /\ commits = 0 /\ crashes = 0

---------------------------------------------------------------------------
(* preview_csv_import *)

Exists(w) == "attached" \in workspace[w]

\* The rows without an error: a workspace id is new, and the first of its kind in the file.
Valid(rows) ==
    {i \in 1..Len(rows) :
        /\ rows[i].type # "wrong"
        /\ rows[i].type = "client" =>
            ~Exists(rows[i].of) /\ \A j \in 1..(i - 1) : rows[j].of # rows[i].of}

\* A key that was used answers with its batch.
Preview(key, rows) ==
    /\ Len(batches) < MaxBatches /\ lock = "none"
    /\ \A b \in Batches : batches[b].key # key
    /\ batches' = Append(batches, [key |-> key, rows |-> rows, valid |-> Valid(rows)])
    /\ UNCHANGED <<receipts, errors, written, workspace, commit, pending, lock, commits, crashes>>

---------------------------------------------------------------------------
(* commit_csv_import *)

MayWrite(p) == lock \in {p, "none"}
Of(b) == {r \in receipts : r.batch = b}

\* A key that was used, or a batch with a receipt, is answered without a write.
Begin(p, b, key) ==
    /\ commit[p] = Idle /\ commits < MaxCommits
    /\ ~\E r \in receipts : r.key = key
    /\ Of(b) = {}
    /\ commits' = commits + 1
    /\ commit' = [commit EXCEPT ![p] = [at |-> "row", batch |-> b, key |-> key,
                                        todo |-> batches[b].valid, failed |-> {}, seen |-> {}]]
    /\ UNCHANGED <<batches, receipts, errors, written, workspace, pending, lock, crashes>>

At(p) == Min(commit[p].todo)
Current(p) == batches[commit[p].batch].rows[At(p)]
Done(p) == [commit EXCEPT ![p].at = "row", ![p].todo = @ \ {At(p)}]

\* A commit inside the row makes the errors of the rows before it visible.
Commit(p) ==
    /\ errors' = errors \cup pending[p]
    /\ pending' = [pending EXCEPT ![p] = {}]
    /\ lock' = "none"

\* The block is rolled back: what was committed inside it stays.
RollBack(p) ==
    /\ pending' = [pending EXCEPT ![p] = {}]
    /\ lock' = IF lock = p THEN "none" ELSE lock
    /\ commit' = [commit EXCEPT ![p] = Idle]
    /\ UNCHANGED errors

Refuse(p) ==
    /\ pending' = [pending EXCEPT ![p] = @ \cup {<<commit[p].batch, At(p)>>}]
    /\ lock' = p
    /\ commit' = [Done(p) EXCEPT ![p].failed = @ \cup {At(p)}]
    /\ UNCHANGED errors

\* create_campaign, record_campaign_metrics
AppendRow(p) ==
    /\ commit[p].at = "row" /\ commit[p].todo # {} /\ Current(p).type # "client" /\ MayWrite(p)
    /\ \/ /\ Current(p).type = "plain"
          /\ written' = Append(written, <<commit[p].batch, At(p)>>)
          /\ commit' = Done(p) /\ Commit(p)
       \/ /\ Current(p).type = "costly"
          /\ Refuse(p) /\ UNCHANGED written
    /\ UNCHANGED <<batches, receipts, workspace, commits, crashes>>

\* What the row reads first of its workspace.
ReadWorkspace(p) ==
    /\ commit[p].at = "row" /\ commit[p].todo # {} /\ Current(p).type = "client"
    /\ commit' = [commit EXCEPT ![p].at = "made", ![p].seen = workspace[Current(p).of]]
    /\ UNCHANGED <<batches, receipts, errors, written, workspace, pending, lock, commits, crashes>>

Then == [made |-> "attached", attached |-> "joined"]

\* create_workspace and attach_workspace, for what the workspace does not have yet.
MakeWorkspace(p) ==
    LET w == Current(p).of
        part == commit[p].at
    IN  /\ part \in {"made", "attached"}
        /\ IF part \notin workspace[w]
           THEN MayWrite(p) /\ workspace' = [workspace EXCEPT ![w] = @ \cup {part}] /\ Commit(p)
           ELSE UNCHANGED <<workspace, errors, pending, lock>>
        /\ commit' = [commit EXCEPT ![p].at = Then[part], ![p].seen = workspace'[w]]
        /\ UNCHANGED <<batches, receipts, written, commits, crashes>>

\* add_person_to_workspace: refused when the workspace is another organization's.
JoinWorkspace(p) ==
    LET w == Current(p).of
    IN  /\ commit[p].at = "joined"
        /\ \/ /\ "foreign" \in workspace[w] /\ MayWrite(p) /\ Refuse(p) /\ UNCHANGED workspace
           \/ /\ workspace[w] = {"made", "attached"} /\ MayWrite(p)
              /\ workspace' = [workspace EXCEPT ![w] = Pieces]
              /\ commit' = Done(p) /\ Commit(p)
           \/ /\ workspace[w] = Pieces
              /\ commit' = Done(p) /\ UNCHANGED <<workspace, errors, pending, lock>>
        /\ UNCHANGED <<batches, receipts, written, commits, crashes>>

\* Somebody else made what the row read as missing, so its INSERT fails.
LosesRace(p) ==
    /\ commit[p].at \in Pieces /\ commit[p].at \notin commit[p].seen
    /\ commit[p].at \in workspace[Current(p).of]
    /\ RollBack(p)
    /\ UNCHANGED <<batches, receipts, written, workspace, commits, crashes>>

\* The other organization makes the workspace, or attaches one that has no organization yet.
OtherOrganization(w) ==
    /\ "attached" \notin workspace[w] /\ lock = "none"
    /\ workspace' = [workspace EXCEPT ![w] = Others]
    /\ UNCHANGED <<batches, receipts, errors, written, commit, pending, lock, commits, crashes>>

\* Mutant: the rows that failed are in the summary only.
AlwaysCommitted(failed) == "committed"
Status(failed) == IF failed = {} THEN "committed" ELSE "committed_with_errors"

\* The receipt ends the block.  A key is used once, and a batch has one receipt "committed";
\* otherwise the block is rolled back.
WriteReceipt(p) ==
    LET new == [batch |-> commit[p].batch, key |-> commit[p].key, status |-> Status(commit[p].failed)]
    IN  /\ commit[p].at = "row" /\ commit[p].todo = {} /\ MayWrite(p)
        /\ IF (\E r \in receipts : r.key = new.key)
                \/ (new.status = "committed" /\ \E r \in Of(new.batch) : r.status = "committed")
           THEN RollBack(p) /\ UNCHANGED receipts
           ELSE receipts' = receipts \cup {new} /\ commit' = [commit EXCEPT ![p] = Idle] /\ Commit(p)
        /\ UNCHANGED <<batches, written, workspace, commits, crashes>>

Crash(p) ==
    /\ commit[p] # Idle /\ crashes < MaxCrashes
    /\ crashes' = crashes + 1
    /\ RollBack(p)
    /\ UNCHANGED <<batches, receipts, written, workspace, commits>>

Next ==
    \/ \E key \in Key, rows \in Files : Preview(key, rows)
    \/ \E p \in Process, b \in Batches, key \in Key : Begin(p, b, key)
    \/ \E p \in Process :
        \/ AppendRow(p) \/ ReadWorkspace(p) \/ MakeWorkspace(p) \/ JoinWorkspace(p)
        \/ LosesRace(p) \/ WriteReceipt(p) \/ Crash(p)
    \/ \E w \in Contested : OtherOrganization(w)

Spec == Init /\ [][Next]_vars

---------------------------------------------------------------------------
(* Properties *)

Written(b, i) ==
    LET row == batches[b].rows[i]
    IN  IF row.type = "client" THEN workspace[row.of] = Pieces
        ELSE \E n \in 1..Len(written) : written[n] = <<b, i>>

\* A receipt tells the truth whatever crashed, failed or ran beside the commit: each valid row
\* of the batch is written, with the workspace in the organization and the person in it, or the
\* receipt owns up to errors and the row has one.
ReceiptIsTrue ==
    \A r \in receipts : \A i \in batches[r.batch].valid :
        Written(r.batch, i) \/ (r.status = "committed_with_errors" /\ <<r.batch, i>> \in errors)

\* Does not hold: no row becomes two records.  A process that dies before the receipt leaves the
\* rows it wrote, and the commit is accepted again.
RowWrittenOnce == \A m, n \in 1..Len(written) : written[m] = written[n] => m = n

\* Does not hold: a batch is committed once.  The index idx_onboarding_commit_once covers the
\* receipts without errors only, so two commits that fail on a row both leave a receipt.
BatchCommittedOnce == \A r, s \in receipts : r.batch = s.batch => r = s
==============================================================================
