----------------------------- MODULE JobContract -----------------------------
(***************************************************************************)
(* What the durable job queue promises to its users, without clocks,       *)
(* leases, versions or retry budgets: a submitted job waits, is granted to *)
(* one holder at a time under a ticket that was never handed out before,   *)
(* may be handed back, and is closed once and for ever, either by the      *)
(* holder of the latest ticket or by a withdrawal while nobody holds it.   *)
(***************************************************************************)
EXTENDS Naturals

CONSTANTS Job        \* the jobs that can be submitted

VARIABLES phase,     \* phase[j]: where job j stands
          ticket,    \* ticket[j]: the ticket of its current holder, 0 if none
          spent,     \* every ticket handed out so far
          verdict    \* verdict[j]: the ticket under which j was closed, or 0

cvars == <<phase, ticket, spent, verdict>>

Phases == {"absent", "waiting", "held", "closed"}

Init ==
    /\ phase = [j \in Job |-> "absent"]
    /\ ticket = [j \in Job |-> 0]
    /\ spent = {}
    /\ verdict = [j \in Job |-> 0]

Submit(j) ==
    /\ phase[j] = "absent"
    /\ phase' = [phase EXCEPT ![j] = "waiting"]
    /\ UNCHANGED <<ticket, spent, verdict>>

\* A waiting job, or one whose holder went silent, is granted under a new ticket.
\* Any number will do, so the ticket is named by the step that hands it out.
Grant(j) ==
    /\ phase[j] \in {"waiting", "held"}
    /\ phase' = [phase EXCEPT ![j] = "held"]
    /\ ticket'[j] \notin spent \cup {0}
    /\ ticket' = [ticket EXCEPT ![j] = ticket'[j]]
    /\ spent' = spent \cup {ticket'[j]}
    /\ UNCHANGED verdict

\* The holder hands the job back for another attempt.
Return(j) ==
    /\ phase[j] = "held"
    /\ phase' = [phase EXCEPT ![j] = "waiting"]
    /\ ticket' = [ticket EXCEPT ![j] = 0]
    /\ UNCHANGED <<spent, verdict>>

\* The holder closes the job; the verdict is recorded under its ticket.
Close(j) ==
    /\ phase[j] = "held"
    /\ phase' = [phase EXCEPT ![j] = "closed"]
    /\ ticket' = [ticket EXCEPT ![j] = 0]
    /\ verdict' = [verdict EXCEPT ![j] = ticket[j]]
    /\ UNCHANGED spent

\* A job nobody holds is withdrawn.
Withdraw(j) ==
    /\ phase[j] = "waiting"
    /\ phase' = [phase EXCEPT ![j] = "closed"]
    /\ UNCHANGED <<ticket, spent, verdict>>

Next ==
    \E j \in Job :
        \/ Submit(j)
        \/ Grant(j)
        \/ Return(j)
        \/ Close(j)
        \/ Withdraw(j)

Spec == Init /\ [][Next]_cvars
==============================================================================
