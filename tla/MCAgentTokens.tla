--------------------------- MODULE MCAgentTokens ---------------------------
(* Small instances of AgentTokens for TLC.                                 *)
EXTENDS AgentTokens, TLC

\* For runs that check no liveness: nodes, tokens and administrators are alike.
Symmetry == Permutations(Node) \cup Permutations(Token) \cup Permutations(Admin)
=============================================================================
