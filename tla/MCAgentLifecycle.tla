-------------------------- MODULE MCAgentLifecycle --------------------------
EXTENDS AgentLifecycle, TLC

Symmetry == Permutations(Agents) \cup Permutations(Users) \cup Permutations(Turns)
              \cup Permutations(Calls)
=============================================================================
