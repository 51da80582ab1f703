--------------------------- MODULE MCAdminAccess ---------------------------
(* Instances of AdminAccess for TLC.  Requests and passwords are           *)
(* interchangeable.                                                        *)
EXTENDS AdminAccess, TLC

Symmetry == Permutations(Request) \cup Permutations(Password)
=============================================================================
