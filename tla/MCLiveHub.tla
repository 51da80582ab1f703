----------------------------- MODULE MCLiveHub -----------------------------
(* Instances of LiveHub for TLC.  Nodes, sockets and addresses are         *)
(* interchangeable: no action and no safety property names one of them.    *)
EXTENDS LiveHub, TLC

Symmetry == Permutations(Agent) \cup Permutations(Socket) \cup Permutations(IP)
=============================================================================
