--------------------------- MODULE LiveHubHistory ---------------------------
(* LiveHub with a history of evictions, for what the hub holds only while  *)
(* it stays in memory: an eviction restores the connections and the nodes  *)
(* that reported over WebSocket from the attachments, and nothing else.    *)
EXTENDS LiveHub

VARIABLES
    evicted,   \* history: the object was evicted since it began
    ahead      \* history: the nodes whose latest report lay past its own deadline

historyVars == <<vars, evicted, ahead>>

\* A report over HTTP carries a time up to a minute ahead of the Worker's, at which its
\* lifetime may already be over.
HistoryNext ==
    \/ Unreported /\ UNCHANGED <<evicted, ahead>>
    \/ \E s \in Socket :
          /\ AgentReport(s)
          /\ ahead' = ahead \ {att[s].id}
          /\ UNCHANGED evicted
    \/ \E a \in Agent, hidden \in BOOLEAN, ttl \in HttpTtls, skew \in 0..MaxSkew :
          /\ HttpReport(a, hidden, ttl, skew)
          /\ ahead' = IF ~hidden /\ ttl <= skew THEN ahead \cup {a} ELSE ahead \ {a}
          /\ UNCHANGED evicted
    \/ Restart /\ evicted' = TRUE /\ UNCHANGED ahead

HistorySpec == Init /\ evicted = FALSE /\ ahead = {} /\ [][HistoryNext]_historyVars

\* Until an eviction, what an administrator's live connection was told equals the
\* hub's nodes (broadcast, snapshot): every node online is on the screen, and nothing
\* is that the hub dropped.  A report whose own time lies past its deadline puts its
\* node online and tells nobody (updateHttpClientReport): such a node may be missing
\* until it reports again.
AdminScreenUntilEvicted ==
    ~evicted => \A s \in Audience("admin") :
                   /\ Snapshot(TRUE) \ ahead \subseteq shown[s]
                   /\ \A a \in shown[s] : Online(a)

\* Until an eviction, every node online and not hidden is on every public screen,
\* again but for the nodes whose latest report was told to nobody.
PublicScreenUntilEvicted ==
    ~evicted => \A s \in Audience("public") : Snapshot(FALSE) \ ahead \subseteq shown[s]

\* Until an eviction, an open agent connection is the one its id means, so that no
\* two are open for one node (acceptWebSocket closes the connection it replaces).
OneAgentUntilEvicted == ~evicted => OpenAgentRegistered

\* Until an eviction, the alarm is never later than the deadline of a node that
\* reports over HTTP (scheduleExpiryAlarm).
ClientDeadlineUntilEvicted == ~evicted => ClientDeadlineArmed
=============================================================================
