---------------------------- MODULE MCSshSession ----------------------------
(* Model-checking instances of SshSession. *)
EXTENDS SshSession
=============================================================================
