-------------------------- MODULE MCTrafficTracker --------------------------
(* Instances of TrafficTracker for TLC.  Configs and directions are        *)
(* interchangeable.                                                        *)
EXTENDS TrafficTracker, TLC

Symmetry == Permutations(Config) \cup Permutations(Dir)
=============================================================================
