---------------------------- MODULE MCSshChannels ---------------------------
(* Model-checking instances of SshChannels. *)
EXTENDS SshChannels
=============================================================================
