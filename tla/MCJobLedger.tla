---------------------------- MODULE MCJobLedger ----------------------------
(* Small instances of JobLedger for TLC. *)
EXTENDS JobLedger, TLC

CONSTANTS j1, j2, s1, s2, s3, w1, w2, k1, p1, p2, p3, st1, c1, c2

\* s1 and s2 run under one worker name, as a restarted worker process does.
MCOwnerOf == [s \in Session |-> IF s = s3 THEN w2 ELSE w1]

\* p3 is a connector.sync payload.
MCStreamOf == [p \in Payload |-> IF p = p3 THEN st1 ELSE NoStream]

Busy == {s \in Session : held[s] # NoJob}

\* Many sessions on one job, or two clients and two jobs under one session.
Focus ==
    \/ status[j2] = "absent" /\ \E c \in Client : client[c] = NoErrand
    \/ slips + crashes = 0 /\ Cardinality(Busy) <= 1 /\ \A j \in Job : version[j] <= 3

\* Sessions of one worker are interchangeable, and so are clients.
Symmetry == Permutations({s1, s2}) \cup Permutations({c1, c2})
=============================================================================
