----------------------------- MODULE MCAgentThink -----------------------------
(* Small instances of AgentThink for TLC. *)
EXTENDS AgentThink

CONSTANTS m1, m2, m3, w1, w2, h1

\* Two models and one without a provider between them; what the first one uses decides
\* whether the budget leaves room for the third.
Three == <<m1, m2, m3>>
Allowance == [m \in {m1, m2, m3} |-> IF m = m1 THEN 2 ELSE 1]
Prices == [m \in {m1, m2, m3} |-> IF m = m3 THEN 2 ELSE 1]
==============================================================================
