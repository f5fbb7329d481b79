----------------------------- MODULE MCAutomation -----------------------------
(* Small instances of Automation for TLC. *)
EXTENDS Automation, TLC

CONSTANTS c1, c2, k1, k2, a1, a2, s1, s2

\* The run of c1 has two actions; c2 reuses the key of the first for another action.
SharedKey == [c \in Change |->
    IF c = c1 THEN <<[key |-> k1, hash |-> "h1"], [key |-> k2, hash |-> "h2"]>>
              ELSE <<[key |-> k1, hash |-> "h3"]>>]

\* One disturbance of the sessions, a lost lease or a crash; and callers that race over one
\* change while the other has no run yet.
Focus ==
    /\ expiries + crashes <= 1
    /\ (\E c \in Change : run[c] = "absent") \/ (\E a \in Caller : caller[a] = Resting)

\* Callers are interchangeable, and so are sessions.
Symmetry == Permutations({a1, a2}) \cup Permutations({s1, s2})
===============================================================================
