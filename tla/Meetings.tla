------------------------------- MODULE Meetings -------------------------------
(***************************************************************************)
(* Meetings and their notes (services/calendar_connector.py,               *)
(* services/meeting_notes.py), used by several processes on one database   *)
(* file.  An operation reads the status of a meeting and changes the row   *)
(* by its id in a transaction of its own; what happened in between it does *)
(* not see.  Recording notes is three transactions: the meeting is held if *)
(* it was not, the note is written with its action items, and the items    *)
(* are copied to the meeting; what the calendar refuses, and any error it  *)
(* raises, is passed over.  Provider events become meetings once, as far   *)
(* as a process remembers.                                                 *)
(***************************************************************************)
EXTENDS Naturals, Sequences, FiniteSets

CONSTANTS
    Process,
    Event, Malformed, Anonymous,    \* provider events; those without a title or a time, those without an id
    None, MaxMeetings, MaxNotes, MaxItems, MaxCrashes

MeetingsAssumption ==
    /\ {MaxMeetings, MaxNotes, MaxItems, MaxCrashes} \subseteq Nat
    /\ IsFiniteSet(Event) /\ None \notin Event

Status == {"scheduled", "held", "notes_captured", "closed"}

VARIABLES
    meeting,    \* [event, status, item, log]: log holds the statuses of its lifecycle events
    note,       \* [meeting, item, failed]: whether an error or a death came before its items were copied
    finished,   \* <<"note" or "meeting", item>>: the items completed in each place
    items,      \* the items made
    published,  \* the events the provider lists
    cursor, known, quarantined,   \* in the memory of each process
    doing,      \* what each process has begun: [at, meeting, note, failed]
    crashes

vars == <<meeting, note, finished, items, published, cursor, known, quarantined, doing, crashes>>

Idle == [at |-> "idle", meeting |-> 0, note |-> 0, failed |-> FALSE]

TypeOK ==
    /\ \A m \in DOMAIN meeting : meeting[m] \in
        [event: Event \cup {None}, status: Status, item: SUBSET (1..MaxItems), log: SUBSET Status]
    /\ \A n \in DOMAIN note : note[n] \in
        [meeting: DOMAIN meeting, item: SUBSET (1..MaxItems), failed: BOOLEAN]
    /\ finished \subseteq {"note", "meeting"} \X (1..items) /\ items \in 0..MaxItems
    /\ published \subseteq Event /\ crashes \in 0..MaxCrashes
    /\ doing \in [Process -> [at: {"idle", "start", "capture", "close", "hold", "holding", "write", "copy",
                                   "copying"},
                              meeting: {0} \cup DOMAIN meeting, note: {0} \cup DOMAIN note,
                              failed: BOOLEAN]]

\* The tables are empty, and nothing is remembered.
Init ==
    /\ meeting = <<>> /\ note = <<>> /\ finished = {} /\ items = 0 /\ published = {}
    /\ cursor = [p \in Process |-> None] /\ known = [p \in Process |-> {}]
    /\ quarantined = [p \in Process |-> {}]
    /\ doing = [p \in Process |-> Idle] /\ crashes = 0

Rests(p) == doing[p].at = "idle"
Ends(p) == doing' = [doing EXCEPT ![p] = Idle]

---------------------------------------------------------------------------
(* The life of a meeting *)

Scheduled(e) == [event |-> e, status |-> "scheduled", item |-> {}, log |-> {"scheduled"}]
Become(row, status) == [row EXCEPT !.status = status, !.log = @ \cup {status}]
\* UPDATE ... WHERE id=?, whatever the status is by now
Moved(m, status) == [meeting EXCEPT ![m] = Become(@, status)]

CreateMeeting ==
    /\ Len(meeting) < MaxMeetings
    /\ meeting' = Append(meeting, Scheduled(None))
    /\ UNCHANGED <<note, finished, items, published, cursor, known, quarantined, doing, crashes>>

Startable(m) == meeting[m].status = "scheduled"

\* Mutant: notes are captured once.
OnlyHeld(m) == meeting[m].status = "held"
\* capture_notes_and_actions: again and again until the meeting is closed
Capturable(m) == meeting[m].status \in {"held", "notes_captured"}

\* start_meeting, capture_notes_and_actions and close_meeting check the status they read ...
Look(p, m) ==
    /\ Rests(p)
    /\ \E at \in {"start", "capture", "close"} :
        /\ at = "start" => Startable(m)
        /\ at = "capture" => Capturable(m)
        /\ at = "close" => meeting[m].status = "notes_captured"
        /\ doing' = [doing EXCEPT ![p] = [Idle EXCEPT !.at = at, !.meeting = m]]
    /\ UNCHANGED <<meeting, note, finished, items, published, cursor, known, quarantined, crashes>>

\* ... and change the row.  Notes begin with a meeting that is held.
StartMeeting(p) ==
    /\ doing[p].at \in {"start", "holding"}
    /\ meeting' = Moved(doing[p].meeting, "held")
    /\ IF doing[p].at = "start" THEN Ends(p) ELSE doing' = [doing EXCEPT ![p].at = "write"]
    /\ UNCHANGED <<note, finished, items, published, cursor, known, quarantined, crashes>>

Noted(row, new) == [Become(row, "notes_captured") EXCEPT !.item = @ \cup new]
WithItems(m, new) == [meeting EXCEPT ![m] = Noted(@, new)]

\* Action items the calendar makes itself
CaptureNotes(p) ==
    /\ doing[p].at = "capture"
    /\ items < MaxItems /\ items' = items + 1
    /\ meeting' = WithItems(doing[p].meeting, {items'})
    /\ Ends(p)
    /\ UNCHANGED <<note, finished, published, cursor, known, quarantined, crashes>>

CloseMeeting(p) ==
    /\ doing[p].at = "close"
    /\ meeting' = Moved(doing[p].meeting, "closed")
    /\ Ends(p)
    /\ UNCHANGED <<note, finished, items, published, cursor, known, quarantined, crashes>>

\* update_action_item_status of either service: a copy is not told
FinishItem(place, item) ==
    /\ item \in IF place = "meeting" THEN UNION {meeting[m].item : m \in DOMAIN meeting}
                                     ELSE UNION {note[n].item : n \in DOMAIN note}
    /\ finished' = finished \cup {<<place, item>>}
    /\ UNCHANGED <<meeting, note, items, published, cursor, known, quarantined, doing, crashes>>

---------------------------------------------------------------------------
(* Recording notes *)

\* The meeting is read; one that is scheduled is held first.
BeginNotes(p, m) ==
    /\ Rests(p)
    /\ doing' = [doing EXCEPT ![p] =
            [Idle EXCEPT !.at = IF Startable(m) THEN "hold" ELSE "write", !.meeting = m]]
    /\ UNCHANGED <<meeting, note, finished, items, published, cursor, known, quarantined, crashes>>

\* start_meeting reads the status again; what it refuses does not stop the recording.
ReadToHold(p) ==
    /\ doing[p].at = "hold"
    /\ doing' = [doing EXCEPT ![p].at = IF Startable(doing[p].meeting) THEN "holding" ELSE "write"]
    /\ UNCHANGED <<meeting, note, finished, items, published, cursor, known, quarantined, crashes>>

\* An action item without owner or date, or of an unknown status, refuses the note as a whole.
RefuseNote(p) ==
    /\ doing[p].at = "write" /\ Ends(p)
    /\ UNCHANGED <<meeting, note, finished, items, published, cursor, known, quarantined, crashes>>

WriteNote(p) ==
    /\ doing[p].at = "write" /\ Len(note) < MaxNotes /\ items < MaxItems
    /\ items' = items + 1
    /\ note' = Append(note, [meeting |-> doing[p].meeting, item |-> {items'},
                             failed |-> doing[p].failed])
    /\ doing' = [doing EXCEPT ![p] = [@ EXCEPT !.at = "copy", !.note = Len(note) + 1]]
    /\ UNCHANGED <<meeting, finished, published, cursor, known, quarantined, crashes>>

\* The calendar looks at the status again: a closed meeting refuses the items and nobody hears of it.
ReadToCopy(p) ==
    /\ doing[p].at = "copy"
    /\ IF Capturable(doing[p].meeting) THEN doing' = [doing EXCEPT ![p].at = "copying"] ELSE Ends(p)
    /\ UNCHANGED <<meeting, note, finished, items, published, cursor, known, quarantined, crashes>>

\* The items are copied, as open ones.
CopyToMeeting(p) ==
    /\ doing[p].at = "copying" /\ Ends(p)
    /\ meeting' = WithItems(doing[p].meeting, note[doing[p].note].item)
    /\ UNCHANGED <<note, finished, items, published, cursor, known, quarantined, crashes>>

---------------------------------------------------------------------------
(* Synchronization with a provider *)

Publish(e) ==
    /\ published' = published \cup {e} /\ e \notin published
    /\ UNCHANGED <<meeting, note, finished, items, cursor, known, quarantined, doing, crashes>>

\* dedupe_key: events without an id share one
Key(e) == IF e \in Anonymous THEN None ELSE e

\* One event of each key that is not known; the version of the page is the cursor, whatever was put aside.
Sync(p) ==
    /\ Rests(p) /\ cursor[p] # published
    /\ \E new \in SUBSET (published \ Malformed) :
        /\ \A e \in new : Key(e) \notin known[p]
        /\ \A k \in {Key(e) : e \in published \ Malformed} \ known[p] : \E e \in new : Key(e) = k
        /\ Cardinality({Key(e) : e \in new}) = Cardinality(new)
        /\ Len(meeting) + Cardinality(new) <= MaxMeetings
        /\ \E order \in [1..Cardinality(new) -> new] :
            /\ {order[n] : n \in DOMAIN order} = new
            /\ meeting' = meeting \o [n \in DOMAIN order |-> Scheduled(order[n])]
        /\ known' = [known EXCEPT ![p] = @ \cup {Key(e) : e \in new}]
    /\ quarantined' = [quarantined EXCEPT ![p] = @ \cup (published \cap Malformed)]
    /\ cursor' = [cursor EXCEPT ![p] = published]
    /\ UNCHANGED <<note, finished, items, published, doing, crashes>>

---------------------------------------------------------------------------
(* Errors and deaths *)

\* The note whose items p was about to copy will not have them copied.
Abandoned(p) ==
    note' = IF doing[p].at \in {"copy", "copying"}
            THEN [note EXCEPT ![doing[p].note] = [@ EXCEPT !.failed = TRUE]] ELSE note

\* The database refuses (it is locked).  Recording goes on when the meeting could not be held,
\* and returns the note when its items could not be copied.
Fail(p) ==
    /\ ~Rests(p) /\ Abandoned(p)
    /\ IF doing[p].at \in {"hold", "holding"}
       THEN doing' = [doing EXCEPT ![p] = [@ EXCEPT !.at = "write", !.failed = TRUE]] ELSE Ends(p)
    /\ UNCHANGED <<meeting, finished, items, published, cursor, known, quarantined, crashes>>

\* Tables are kept, the records, cursors and quarantines of the synchronization are not.
Crash(p) ==
    /\ crashes < MaxCrashes /\ crashes' = crashes + 1
    /\ Abandoned(p) /\ Ends(p)
    /\ known' = [known EXCEPT ![p] = {}] /\ cursor' = [cursor EXCEPT ![p] = None]
    /\ quarantined' = [quarantined EXCEPT ![p] = {}]
    /\ UNCHANGED <<meeting, finished, items, published>>

Next ==
    \/ CreateMeeting
    \/ \E p \in Process :
        \/ \E m \in DOMAIN meeting : Look(p, m) \/ BeginNotes(p, m)
        \/ StartMeeting(p) \/ CaptureNotes(p) \/ CloseMeeting(p)
        \/ ReadToHold(p) \/ RefuseNote(p) \/ WriteNote(p) \/ ReadToCopy(p) \/ CopyToMeeting(p)
        \/ Sync(p) \/ Fail(p) \/ Crash(p)
    \/ \E place \in {"note", "meeting"}, item \in 1..items : FinishItem(place, item)
    \/ \E e \in Event : Publish(e)

Spec == Init /\ [][Next]_vars

---------------------------------------------------------------------------
(* Properties *)

(* The items of a note are on its meeting, whatever is started, captured or  *)
(* closed beside it by those who read an older status: unless the meeting    *)
(* was closed once, which refuses them in silence, or an error or a death    *)
(* came before they were copied (record_meeting_notes).                      *)
NotesReachTheMeeting ==
    \A n \in DOMAIN note :
        LET of == meeting[note[n].meeting]
        IN  \/ note[n].item \subseteq of.item
            \/ "closed" \in of.log
            \/ note[n].failed
            \/ \E p \in Process : doing[p].at \in {"copy", "copying"} /\ doing[p].note = n

\* Does not hold: The items of a note written while its meeting is open are on the meeting when
\* recording has ended.  Somebody closes the meeting between the note and the copy, or the
\* database is locked, and the error is passed over (meeting_notes.py:300).
NotesAreCopied ==
    \A n \in DOMAIN note :
        \/ note[n].item \subseteq meeting[note[n].meeting].item
        \/ \E p \in Process : doing[p].at \in {"copy", "copying"} /\ doing[p].note = n

\* Does not hold: A closed meeting stays closed.  Who read it before it was closed captures
\* notes or starts it by its id, and it is open again.
ClosedIsFinal ==
    [][\A m \in DOMAIN meeting : meeting[m].status = "closed" => meeting'[m].status = "closed"]_vars

\* Does not hold: An event of the provider is one meeting.  It is several after a restart,
\* which forgets what was imported.
OneMeetingPerEvent ==
    \A m1, m2 \in DOMAIN meeting : m1 # m2 /\ meeting[m1].event # None => meeting[m1].event # meeting[m2].event
=============================================================================
