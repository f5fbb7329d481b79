--------------------------- MODULE EffectContract ----------------------------
(***************************************************************************)
(* What every way of acting on the outside world promises the person who   *)
(* approves it, without rows, jobs, leases, sessions or keys: an effect    *)
(* takes place only after it was permitted, and once; it is reported as    *)
(* done only after it took place.  A permission is not taken back: whoever *)
(* is past the approval when it is overturned may still act on it.         *)
(*                                                                         *)
(* Where a database may be restored, permissions and reports go back to an *)
(* older state, and effects that nobody had reported are forgotten.        *)
(***************************************************************************)
EXTENDS Naturals

CONSTANTS Effect      \* the effects somebody may be asked to permit

VARIABLES permitted,  \* the effects that may take place
          times,      \* times[e]: how often e is known to have taken place
          told        \* the effects reported as done

evars == <<permitted, times, told>>

Init ==
    /\ permitted = {}
    /\ times = [e \in Effect |-> 0]
    /\ told = {}

\* Any effects, at once: a run has several, and an approval stands for all of them.
Permit ==
    /\ UNCHANGED <<times, told>>
    /\ permitted \subseteq permitted' /\ permitted' \in SUBSET Effect

Perform(e) ==
    /\ e \in permitted
    /\ times[e] = 0
    /\ times' = [times EXCEPT ![e] = 1]
    /\ UNCHANGED <<permitted, told>>

Tell(e) ==
    /\ times[e] = 1
    /\ told' = told \cup {e}
    /\ UNCHANGED <<permitted, times>>

\* Back to an older state, in which only what was reported is known to have taken place.
Restore ==
    /\ permitted' \in SUBSET permitted
    /\ told' \in SUBSET (told \cap permitted')
    /\ times' = [e \in Effect |-> IF e \in told' THEN 1 ELSE 0]

Next ==
    \/ Permit
    \/ \E e \in Effect : Perform(e) \/ Tell(e)

Spec == Init /\ [][Next]_evars

RestorableSpec == Init /\ [][Next \/ Restore]_evars
------------------------------------------------------------------------------
\* What a user of the contract relies on: no effect is known to have taken place twice or
\* without permission, and what is reported took place.
Kept ==
    \A e \in Effect :
        /\ times[e] <= 1
        /\ times[e] > 0 => e \in permitted
        /\ e \in told => times[e] = 1
==============================================================================
