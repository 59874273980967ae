----------------------------- MODULE MCAgentLoop -----------------------------
EXTENDS AgentLoop
\* A write that the pool's read overtakes.
MCPlans == {<<"book", "look">>}
=============================================================================
