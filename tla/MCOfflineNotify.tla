-------------------------- MODULE MCOfflineNotify --------------------------
(* OfflineNotify for TLC: one node, two overlapping runs, failing calls and *)
(* a channel that refuses.  A grace period of two lets a node report often  *)
(* enough never to be silent.                                               *)
EXTENDS OfflineNotify
=============================================================================
