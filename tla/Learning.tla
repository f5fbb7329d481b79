------------------------------- MODULE Learning -------------------------------
(***************************************************************************)
(* What the company learns from its recommendations: the append-only       *)
(* records of services/intelligence_learning.py, the review of lessons in  *)
(* services/intelligence_governance.py and the attribution of outcomes in  *)
(* services/attribution_ops.py.  Several processes (the web server, the    *)
(* MCP server) write through connections of their own.  A request reads    *)
(* and validates first, without a transaction; its first INSERT takes the  *)
(* write lock, which it keeps until it commits.  An exception after that   *)
(* leaves the transaction open on the connection of the process.           *)
(*                                                                         *)
(* One workspace, one recommendation at the start and one attribution      *)
(* plan.  The tables are one log of rows, each with an id.                 *)
(***************************************************************************)
EXTENDS Naturals, Sequences, FiniteSets

CONSTANTS
    Process, Person, Author,    \* Author wrote the recommendation
    Key,            \* idempotency keys clients choose
    NoKey,
    MaxRequests, MaxChanges, MaxCrashes     \* bounds: requests, changes of the metric, dead processes

ASSUME LearningAssumption == Author \in Person

VARIABLES
    log,        \* the committed rows
    pending,    \* rows each process has inserted and not committed
    request,    \* what each process is doing
    metric,     \* the value the canonical records have for the outcome
    requests, changes, crashes

vars == <<log, pending, request, metric, requests, changes, crashes>>

\* "accepted" stands for an option that is chosen as well.
Events == {"accepted", "rejected", "evaluated"}
Verdicts == {"approve", "reject"}
Operations == Events \cup Verdicts \cup {"recommend", "handoff", "attribute", "attributed"}

Row == [id: Nat, kind: {"recommendation", "event", "lesson", "verdict", "handoff", "outcome",
                        "learned", "key"},
        what: Operations \cup {"recorded"}, of: Nat, by: Person, value: {0, 1}, key: Key \cup {NoKey, "plan"},
        lessons: BOOLEAN]       \* the event states lessons that are not blank

Idle == [op |-> "idle", by |-> Author, key |-> NoKey, of |-> 0, value |-> 0, lessons |-> FALSE,
         read |-> FALSE]

TypeOK ==
    /\ \A i \in 1..Len(log) : log[i] \in Row
    /\ \A p \in Process : \A i \in 1..Len(pending[p]) : pending[p][i] \in Row
    /\ metric \in {0, 1}
    /\ \A p, q \in Process : pending[p] # <<>> /\ pending[q] # <<>> => p = q

Init ==
    /\ LET new == [id |-> 1, kind |-> "recommendation", what |-> "recorded", of |-> 0, by |-> Author,
                   value |-> 0, key |-> NoKey, lessons |-> FALSE]
       IN log \in {<<new>>, <<new, [new EXCEPT !.id = 2, !.kind = "event", !.what = "accepted", !.of = 1]>>}
    /\ pending = [p \in Process |-> <<>>]
    /\ request = [p \in Process |-> Idle]
    /\ metric = 0 /\ requests = 0 /\ changes = 0 /\ crashes = 0

---------------------------------------------------------------------------
(* Reading *)

Rows == {log[i] : i \in 1..Len(log)}
Of(kind) == {row \in Rows : row.kind = kind}

\* _idempotent: the answer kept for the key and the operation; another payload is refused.
Kept(r) == {row \in Of("key") : row.key = r.key /\ row.what = r.op}

\* Mutant: any event of the recommendation will do.
AnyEvent(of) == \E row \in Rows : row.kind \in {"event", "recommendation"}
\* append_recommendation_event: evaluated needs an accepted or chosen event first.
AcceptedBefore(of) == \E row \in Of("event") : row.of = of /\ row.what = "accepted"

\* decide_lesson: nothing supersedes the lesson yet.
Decided(lesson) == \E row \in Of("verdict") : row.of = lesson

\* The checks of each operation, from what it reads.
Admitted(r) ==
    CASE r.op = "evaluated" -> r.by # Author /\ AcceptedBefore(r.of)
      [] r.op \in Verdicts -> ~Decided(r.of)
      [] OTHER -> TRUE

---------------------------------------------------------------------------
(* Requests *)

\* Whatever the request before left open is committed when the next is authenticated.
Begin(p, op, person, key, of, lessons) ==
    /\ request[p] = Idle /\ pending[p] = <<>> /\ requests < MaxRequests
    /\ requests' = requests + 1
    /\ request' = [request EXCEPT ![p] = [op |-> op, by |-> person, key |-> key, of |-> of,
                                          value |-> 0, lessons |-> lessons, read |-> FALSE]]
    /\ UNCHANGED <<log, pending, metric, changes, crashes>>

CommitLeftover(p) ==
    /\ request[p] = Idle /\ pending[p] # <<>>
    /\ log' = log \o pending[p] /\ pending' = [pending EXCEPT ![p] = <<>>]
    /\ UNCHANGED <<request, metric, requests, changes, crashes>>

Recommendations == {row.id : row \in Of("recommendation")}
Lessons == {row.id : row \in Of("lesson")}

\* append_recommendation_event, decide_lesson, record_recommendation, handoff_recommendation,
\* evaluate (attribution)
Request(p) ==
    \/ \E event \in Events, person \in Person, key \in Key \cup {NoKey}, of \in Recommendations,
          lessons \in BOOLEAN : Begin(p, event, person, key, of, lessons)
    \/ \E verdict \in Verdicts, of \in Lessons : Begin(p, verdict, Author, NoKey, of, FALSE)
    \/ \E op \in {"recommend", "handoff"}, key \in Key \cup {NoKey} :
        Begin(p, op, Author, key, 0, FALSE)
    \/ Begin(p, "attribute", Author, NoKey, 0, FALSE)

\* _canonical_outcome: an evaluation must state the value of the canonical record.
Canonical == metric
\* _capture_values: the values of the plan's metrics.
Captured == metric

\* Validation and the lookup of the key; an answer that is kept is returned again.
Read(p) ==
    LET r == [request[p] EXCEPT !.read = TRUE,
                !.value = CASE request[p].op = "evaluated" -> Canonical
                            [] request[p].op = "attribute" -> Captured
                            [] OTHER -> 0]
    IN  /\ r.op # "idle" /\ ~request[p].read
        /\ \/ /\ Admitted(r) /\ Kept(r) = {}
              /\ request' = [request EXCEPT ![p] = r]
           \/ /\ ~Admitted(r) \/ Kept(r) # {}     \* refused, or answered from the key
              /\ request' = [request EXCEPT ![p] = Idle]
        /\ UNCHANGED <<log, pending, metric, requests, changes, crashes>>

NextId == Len(log) + 1

\* Mutant: the lesson is recorded later.
EventOnly(r) ==
    <<[id |-> NextId, kind |-> "event", what |-> r.op, of |-> r.of, by |-> r.by, value |-> r.value,
       key |-> NoKey, lessons |-> r.lessons]>>
\* The event, and the lesson that an evaluation with lessons proposes (its id follows the event's).
EventRows(r) ==
    LET event == [id |-> NextId, kind |-> "event", what |-> r.op, of |-> r.of, by |-> r.by,
                  value |-> r.value, key |-> NoKey, lessons |-> r.lessons]
    IN  IF r.op = "evaluated" /\ r.lessons
        THEN <<event, [event EXCEPT !.id = NextId + 1, !.kind = "lesson", !.of = NextId]>>
        ELSE <<event>>

\* _insert_recommendation and the handoff, inside a savepoint.
HandoffRows(r) ==
    LET new == [id |-> NextId, kind |-> "recommendation", what |-> "recorded", of |-> 0, by |-> r.by,
                value |-> 0, key |-> NoKey, lessons |-> FALSE]
    IN  <<new, [new EXCEPT !.id = NextId + 1, !.kind = "handoff", !.what = "handoff", !.of = NextId]>>

One(r, kind) ==
    <<[id |-> NextId, kind |-> kind, what |-> r.op, of |-> r.of, by |-> r.by, value |-> r.value,
       key |-> NoKey, lessons |-> FALSE]>>

\* _save_idempotency
KeyRow(r) ==
    IF r.key = NoKey THEN <<>>
    ELSE <<[id |-> NextId, kind |-> "key", what |-> r.op, of |-> r.of, by |-> r.by,
            value |-> r.value, key |-> r.key, lessons |-> FALSE]>>

RowsOf(r) ==
    CASE r.op \in Events -> EventRows(r)
      [] r.op \in Verdicts -> One(r, "verdict")
      [] r.op = "recommend" -> One(r, "recommendation")
      [] r.op = "handoff" -> HandoffRows(r)
      [] r.op = "attribute" -> One(r, "outcome")    \* the snapshot and the plan "evaluated"
      [] r.op = "attributed" -> One(r, "learned")

MayWrite(p) == request[p].read /\ \A q \in Process : pending[q] = <<>>

\* The first INSERT takes the write lock; the rows and the key are inserted.
Write(p) ==
    /\ MayWrite(p) /\ Kept(request[p]) = {}
    /\ pending' = [pending EXCEPT ![p] = RowsOf(request[p]) \o KeyRow(request[p])]
    /\ UNCHANGED <<log, request, metric, requests, changes, crashes>>

\* The key was stored by another process since the lookup: the rows are inserted, the key is
\* not, and the error leaves the transaction open.  The handoff rolls back to its savepoint.
WriteMeetsKey(p) ==
    /\ MayWrite(p) /\ Kept(request[p]) # {}
    /\ pending' = [pending EXCEPT ![p] = IF request[p].op = "handoff" THEN <<>> ELSE RowsOf(request[p])]
    /\ request' = [request EXCEPT ![p] = Idle]
    /\ UNCHANGED <<log, metric, requests, changes, crashes>>

\* Commit.  evaluate (attribution) then records what was learned, under the key of its plan.
Commit(p) ==
    /\ request[p].read /\ pending[p] # <<>>
    /\ log' = log \o pending[p] /\ pending' = [pending EXCEPT ![p] = <<>>]
    /\ request' = [request EXCEPT ![p] =
            IF @.op = "attribute"
            THEN [@ EXCEPT !.op = "attributed", !.key = "plan", !.read = FALSE] ELSE Idle]
    /\ UNCHANGED <<metric, requests, changes, crashes>>

\* evaluate: the values were captured before its commit, not when the hypothesis is recorded.
ReadAttributed(p) ==
    LET r == [request[p] EXCEPT !.read = TRUE]
    IN  /\ r.op = "attributed" /\ ~request[p].read
        /\ request' = [request EXCEPT ![p] = IF Kept(r) = {} THEN r ELSE Idle]
        /\ UNCHANGED <<log, pending, metric, requests, changes, crashes>>

\* A canonical record changes (a campaign metric, the status of a work item).
Change ==
    /\ changes < MaxChanges /\ changes' = changes + 1
    /\ metric' = 1 - metric
    /\ UNCHANGED <<log, pending, request, requests, crashes>>

Crash(p) ==
    /\ crashes < MaxCrashes /\ crashes' = crashes + 1
    /\ pending' = [pending EXCEPT ![p] = <<>>] /\ request' = [request EXCEPT ![p] = Idle]
    /\ UNCHANGED <<log, metric, requests, changes>>

Next ==
    \/ \E p \in Process :
        \/ Request(p) \/ CommitLeftover(p)
        \/ request[p].op # "attributed" /\ Read(p)
        \/ ReadAttributed(p) \/ Write(p) \/ WriteMeetsKey(p) \/ Commit(p) \/ Crash(p)
    \/ Change

Spec == Init /\ [][Next]_vars

---------------------------------------------------------------------------
(* Properties *)

(* Rows that belong together are committed together, whatever dies, and      *)
(* whoever commits a transaction an error left open: a key has the row it    *)
(* answers for, an evaluated event that states lessons has the one it        *)
(* proposes and no other event has any, a handoff has its recommendation,    *)
(* and what was learned of a plan its outcome (append_recommendation_event,  *)
(* handoff_recommendation, evaluate).                                        *)
AppendedTogether ==
    /\ \A row \in Of("key") :
        \E other \in Rows \ Of("key") : other.what = row.what /\ other.by = row.by
                                        /\ (row.what \in Events => other.of = row.of)
    /\ \A row \in Of("lesson") : \E event \in Of("event") :
        event.id = row.of /\ event.what = "evaluated" /\ event.lessons
    /\ \A event \in Of("event") : event.what = "evaluated" /\ event.lessons =>
        \E row \in Of("lesson") : row.of = event.id
    /\ \A row \in Of("handoff") : \E new \in Of("recommendation") : new.id = row.of
    /\ \A row \in Of("learned") : \E outcome \in Of("outcome") : outcome.value = row.value

(* Every evaluation of a recommendation was recorded by somebody other than  *)
(* its author, after it had been accepted or chosen                          *)
(* (append_recommendation_event).                                            *)
EvaluationIsGrounded ==
    \A i \in 1..Len(log) : (log[i].kind = "event" /\ log[i].what = "evaluated") =>
        /\ log[i].by # Author
        /\ \E j \in 1..(i - 1) : log[j].kind = "event" /\ log[j].of = log[i].of
                                 /\ log[j].what = "accepted"

\* Does not hold: A lesson is decided once ("has already been decided",
\* intelligence_governance.py:310).  Two processes that read it undecided approve and
\* reject it.
DecidedOnce ==
    \A row, other \in Of("verdict") : row.of = other.of => row = other

=============================================================================
