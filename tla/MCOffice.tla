------------------------------ MODULE MCOffice -------------------------------
(* Small instances of what comes in from outside and who may work on it:    *)
(* handshakes and webhooks of installations, invitations and credentials,   *)
(* imports from providers, spreadsheets of new clients, workflow templates  *)
(* with their rosters, and calendar meetings with their notes.  A behaviour *)
(* explores one of them.                                                    *)
EXTENDS OAuthIntake, Sequences, TLC

CONSTANTS
    Parts,      \* the parts a run explores
    Person, OrgRole, WorkspaceRole, Lifetime, MaxCredentials, MaxInvites,
    Books, Id, Fate, PageSize, MaxFeed, MaxPulls,
    north, south, ClientKey, Workspace, Contested, Files, MaxBatches, MaxCommits,
    Principal, Stage, Role, Offered, Assignments, MaxRosters, MaxRuns, MaxChanges,
    Event, BadEvent, Anonymous, MaxMeetings, MaxNotes, MaxItems

VARIABLES
    part,       \* the part this behaviour explores: the others stay as they begin
    \* Access
    accessNow, accessCrashes, member, principal, actor, credential, invite, accessRequest,
    \* Imports
    feed, records, canonical, quarantine, cursor, pull, pending, lock, pulls, importsCrashes,
    \* Onboarding
    batches, receipts, errors, written, workspace, commit, sheetsPending, sheetsLock, commits,
    sheetsCrashes,
    \* Templates
    clock, eligible, rosters, versions, runs, making, changes,
    \* Meetings
    meeting, note, finished, items, published, meetingsCursor, known, meetingsQuarantined,
    doing, meetingsCrashes

\* Processes are interchangeable, and so are the keys of clients.
Symmetry == Permutations(Process) \cup Permutations(ClientKey)

Roles == [ann |-> "owner", cli |-> "client"]

\* What becomes of each payload of a provider.
Fates == [good |-> "written", bad |-> "malformed", stray |-> "unmapped", mute |-> "ignored"]

\* Files with plain rows, rows that need finance rights, wrong rows, and rows of two clients,
\* one of which somebody else may create meanwhile.
Rowed(types) == [i \in 1..Len(types) |->
    IF types[i] \in {north, south} THEN [type |-> "client", of |-> types[i]]
    ELSE [type |-> types[i], of |-> "none"]]
Sheets == {Rowed(<<"plain", "costly">>), Rowed(<<north, south, north>>),
           Rowed(<<"plain", "wrong", "plain">>), Rowed(<<north>>)}

\* Templates of three stages: one that works, and ones with a cycle or an owner of a stage.
Form(after, insists, reject) ==
    [version |-> 1, after |-> after,
     role |-> [s \in 1..3 |-> IF s = 1 THEN "lead" ELSE "executive"],
     insists |-> [s \in 1..3 |-> IF s = 2 THEN insists ELSE None],
     sequence |-> [s \in 1..3 |-> s], reject |-> [s \in 1..3 |-> IF s = 3 THEN reject ELSE None]]
Forms == {Form(<<{}, {1}, {1, 2}>>, None, 1), Form(<<{3}, {}, {}>>, None, None),
          Form(<<{3}, {1}, {2}>>, None, None), Form(<<{}, {}, {}>>, "ann", 3),
          Form(<<{2}, {}, {2}>>, "ann", None)}
Staffed == {[lead |-> "ann", executive |-> "bob"], [lead |-> "bob", executive |-> "ann"],
            [lead |-> "ann", executive |-> None]}

Access == INSTANCE Access WITH
    Role <- WorkspaceRole, now <- accessNow, crashes <- accessCrashes, request <- accessRequest

Imports == INSTANCE Imports WITH
    Account <- Books, crashes <- importsCrashes

Onboarding == INSTANCE Onboarding WITH
    Key <- ClientKey, pending <- sheetsPending, lock <- sheetsLock, crashes <- sheetsCrashes

Templates == INSTANCE Templates WITH Key <- ClientKey

Meetings == INSTANCE Meetings WITH
    Malformed <- BadEvent, cursor <- meetingsCursor, quarantined <- meetingsQuarantined,
    crashes <- meetingsCrashes

\* The variables of each part; 0 while it is not explored.
AccessVars == <<
    accessNow, accessCrashes, member, principal, actor, credential, invite, accessRequest>>
ImportsVars == <<
    feed, records, canonical, quarantine, cursor, pull, pending, lock, pulls, importsCrashes>>
OnboardingVars == <<
    batches, receipts, errors, written, workspace, commit, sheetsPending, sheetsLock, commits,
    sheetsCrashes>>
TemplatesVars == <<clock, eligible, rosters, versions, runs, making, changes>>
MeetingsVars == <<
    meeting, note, finished, items, published, meetingsCursor, known, meetingsQuarantined,
    doing, meetingsCrashes>>

AccessRests ==
    /\ accessNow = 0 /\ accessCrashes = 0 /\ member = 0 /\ principal = 0 /\ actor = 0
    /\ credential = 0 /\ invite = 0 /\ accessRequest = 0
ImportsRests ==
    /\ feed = 0 /\ records = 0 /\ canonical = 0 /\ quarantine = 0 /\ cursor = 0 /\ pull = 0
    /\ pending = 0 /\ lock = 0 /\ pulls = 0 /\ importsCrashes = 0
OnboardingRests ==
    /\ batches = 0 /\ receipts = 0 /\ errors = 0 /\ written = 0 /\ workspace = 0
    /\ commit = 0 /\ sheetsPending = 0 /\ sheetsLock = 0 /\ commits = 0 /\ sheetsCrashes = 0
TemplatesRests ==
    /\ clock = 0 /\ eligible = 0 /\ rosters = 0 /\ versions = 0 /\ runs = 0 /\ making = 0
    /\ changes = 0
MeetingsRests ==
    /\ meeting = 0 /\ note = 0 /\ finished = 0 /\ items = 0 /\ published = 0
    /\ meetingsCursor = 0 /\ known = 0 /\ meetingsQuarantined = 0 /\ doing = 0
    /\ meetingsCrashes = 0

StartAll ==
    /\ part \in Parts
    /\ Init
    /\ IF part = "access" THEN Access!Init ELSE AccessRests
    /\ IF part = "imports" THEN Imports!Init ELSE ImportsRests
    /\ IF part = "sheets" THEN Onboarding!Init ELSE OnboardingRests
    /\ IF part = "templates" THEN Templates!Init ELSE TemplatesRests
    /\ IF part = "meetings" THEN Meetings!Init ELSE MeetingsRests

StepOne ==
    /\ UNCHANGED part
    /\ \/ /\ part = "oauth" /\ Next
          /\ UNCHANGED <<AccessVars, ImportsVars, OnboardingVars, TemplatesVars, MeetingsVars>>
       \/ /\ part = "access" /\ Access!Next
          /\ UNCHANGED <<vars, ImportsVars, OnboardingVars, TemplatesVars, MeetingsVars>>
       \/ /\ part = "imports" /\ Imports!Next
          /\ UNCHANGED <<vars, AccessVars, OnboardingVars, TemplatesVars, MeetingsVars>>
       \/ /\ part = "sheets" /\ Onboarding!Next
          /\ UNCHANGED <<vars, AccessVars, ImportsVars, TemplatesVars, MeetingsVars>>
       \/ /\ part = "templates" /\ Templates!Next
          /\ UNCHANGED <<vars, AccessVars, ImportsVars, OnboardingVars, MeetingsVars>>
       \/ /\ part = "meetings" /\ Meetings!Next
          /\ UNCHANGED <<vars, AccessVars, ImportsVars, OnboardingVars, TemplatesVars>>

allVars == <<part, vars, AccessVars, ImportsVars, OnboardingVars, TemplatesVars, MeetingsVars>>

SideBySide == StartAll /\ [][StepOne]_allVars

ASSUME AccessAssumption == Access!AccessAssumption
ASSUME ImportsAssumption == Imports!ImportsAssumption
ASSUME MeetingsAssumption == Meetings!MeetingsAssumption
ASSUME OnboardingAssumption == Onboarding!OnboardingAssumption
ASSUME TemplatesAssumption == Templates!TemplatesAssumption

\* Few disturbances at once: clocks that run out, processes that die, webhooks and finished
\* items beside what they do not touch.
Focus ==
    /\ part = "oauth" =>
        /\ now + crashes <= 1 /\ (received = {} \/ Cardinality(DOMAIN oauth) <= 1)
        /\ now + crashes = 0 \/ Cardinality(DOMAIN oauth) <= 1 \/ \E p \in Process : request[p] = Nothing
    /\ part = "access" => accessNow + accessCrashes <= (IF Len(credential) <= 2 THEN 1 ELSE 0)
    /\ part = "imports" => \A a, b \in Books : a # b => Len(feed[a]) + Len(feed[b]) <= 3
    /\ part = "meetings" =>
        /\ published # {} => items = 0 /\ Cardinality(published) <= 2
        /\ items > 1 => Len(meeting) = 1
        /\ Cardinality(finished) <= 1 /\ (meetingsCrashes = 0 \/ Len(note) <= 1)

\* An invitation gives one session, though two administrators redeem it at once or it is
\* revoked meanwhile, and nobody from outside may do what only staff may.
InviteGivesOneSession ==
    part = "access" => Access!TypeOK /\ Access!InviteGivesOneSession /\ Access!ClientsStayNarrow

\* What the cursor of an account has passed is recorded or in quarantine, and a row of the
\* books stands for one record, however often and by whomever pages are replayed.
PassedIsAccounted ==
    part = "imports" => Imports!TypeOK /\ Imports!PassedIsAccounted /\ Imports!WrittenOnce

\* A receipt of a spreadsheet tells the truth whatever crashed, failed or ran beside it.
ReceiptIsTrue == part = "sheets" => Onboarding!TypeOK /\ Onboarding!ReceiptIsTrue

\* A run is what the version of its definition says, and a template that is accepted can be
\* finished, however templates and rosters change.
RunsFollowTheirVersion ==
    part = "templates" =>
        Templates!TypeOK /\ Templates!RunsFollowTheirVersion /\ Templates!NoDeadEnd

\* The items of a note are on its meeting, unless the meeting was closed or an error or a
\* death came before they were copied.
NotesReachTheMeeting == part = "meetings" => Meetings!TypeOK /\ Meetings!NotesReachTheMeeting
==============================================================================
