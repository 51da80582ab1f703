-------------------------- MODULE MCLiveHubEvicted --------------------------
(* LiveHub for TLC with its history of evictions: what the hub holds only  *)
(* while it stays in memory is checked in the same run as what it restores *)
(* from the attachments.                                                   *)
EXTENDS MCLiveHub, LiveHubHistory

\* Once evicted, nothing looks at shown and ahead any more: no action reads them to
\* decide.  Before that, ahead says something only of a node in the snapshot, which
\* a node joins only by a report.
View ==
    <<conn, att, memory, alarm, alarmRunning, evicted,
      IF evicted THEN None ELSE <<shown, ahead \cap Snapshot(TRUE)>>>>
=============================================================================
