--------------------------- MODULE LiveDataProofs ---------------------------
(***************************************************************************)
(* Proofs about the two ends of a live connection: the hub (LiveHub and    *)
(* LiveHubHistory) for any set of nodes, sockets and addresses, and the    *)
(* page that watches it (LiveView) for any number of sockets, connects and *)
(* mounts and every circuit breaker.  The two have no variable in common   *)
(* and their theorems do not depend on each other.                         *)
(***************************************************************************)
EXTENDS LiveHubHistory, LiveView, FiniteSetTheorems, TLAPS

(* What a viewer's connection leaves in its attachment is well formed: an   *)
(* eviction can always read it back.                                       *)
LEMMA ViewerAttachmentType ==
  ASSUME NEW s \in Socket, NEW ip \in IP, NEW includeHidden \in BOOLEAN,
         NEW ttl \in ViewerTtls
  PROVE  /\ ViewerAttachment(s, ip, includeHidden, ttl) \in Attachment
         /\ ViewerAttachment(s, ip, includeHidden, ttl).role = "viewer"
         /\ ViewerAttachment(s, ip, includeHidden, ttl).id = s
         /\ ViewerAttachment(s, ip, includeHidden, ttl).exp = ttl
         /\ ViewerAttachment(s, ip, includeHidden, ttl).ip = ip
         /\ ViewerAttachment(s, ip, includeHidden, ttl) # None
         /\ ttl \in Nat \ {0} /\ ttl # None
<1>1. ttl \in Nat \ {0} /\ ttl # None
  BY HubAssumption
<1>2. ViewerAttachment(s, ip, includeHidden, ttl) \in Attachment
  BY <1>1 DEF ViewerAttachment, Attachment, Id, Role, Deadline
<1> QED BY <1>1, <1>2, NoneAssumption DEF ViewerAttachment

(* One tick changes nothing of an attachment but its deadline, and ends no  *)
(* deadline that had not ended.                                            *)
LEMMA SoonerType ==
  ASSUME NEW d \in Deadline
  PROVE  /\ Sooner(d) \in Deadline
         /\ d = None <=> Sooner(d) = None
         /\ d = 0 => Sooner(d) = 0
         /\ d # None => Sooner(d) <= d
BY HubAssumption DEF Sooner, Deadline

LEMMA TickedAttachment ==
  ASSUME NEW r \in Attachment
  PROVE  /\ [r EXCEPT !.exp = Sooner(@)] \in Attachment
         /\ [r EXCEPT !.exp = Sooner(@)] # None
         /\ [r EXCEPT !.exp = Sooner(@)].role = r.role
         /\ [r EXCEPT !.exp = Sooner(@)].id = r.id
         /\ [r EXCEPT !.exp = Sooner(@)].ip = r.ip
         /\ [r EXCEPT !.exp = Sooner(@)].exp = Sooner(r.exp)
<1>1. r.exp \in Deadline
  BY DEF Attachment
<1>2. Sooner(r.exp) \in Deadline
  BY <1>1, SoonerType
<1>3. [r EXCEPT !.exp = Sooner(@)] \in Attachment
  BY <1>2 DEF Attachment
<1> QED BY <1>3, NoneAssumption DEF Attachment

(* Every step keeps the hub well typed; a message or a close can only come   *)
(* from a socket that has an attachment.                                    *)
LEMMA TypeStep == TypeOK /\ AcceptedViewersKept /\ [Next]_vars => TypeOK'
<1> SUFFICES ASSUME TypeOK, AcceptedViewersKept, [Next]_vars PROVE TypeOK'
  OBVIOUS
<1> USE HubAssumption, NoneAssumption DEF TypeOK, Deadline, Role, Id
<1>1. ASSUME NEW a \in Agent, NEW s \in Socket, NEW hidden \in BOOLEAN,
             AgentConnect(a, s, hidden)
      PROVE  TypeOK'
  BY <1>1 DEF AgentConnect, AgentAttachment, Attachment, Close
<1>2. ASSUME NEW s \in Socket, NEW ip \in IP, NEW includeHidden \in BOOLEAN,
             NEW ttl \in ViewerTtls, ViewerConnect(s, ip, includeHidden, ttl)
      PROVE  TypeOK'
  <2>1. /\ conn' \in [Socket -> {"free", "open", "closing"}]
        /\ att' \in [Socket -> Attachment \cup {None}]
        /\ UNCHANGED <<clients, alarmRunning>>
    BY <1>2 DEF ViewerConnect, ViewerAttachment, Attachment
  <2>2. /\ sessions' \in [Id -> Socket \cup {None}]
        /\ sessionRoles' \in [Id -> Role \cup {None}]
        /\ viewerExpiresAt' \in [Id -> Deadline]
    BY <1>2 DEF ViewerConnect
  <2>3. shown' \in [Socket -> SUBSET Agent]
    BY <1>2 DEF ViewerConnect, Snapshot
  <2>4. alarm' \in Deadline
    BY <1>2, <2>1, <2>2 DEF ViewerConnect, ScheduleExpiryAlarm, SetAlarm,
                            DeadlinesAfter, ClientState
  <2> QED BY <2>1, <2>2, <2>3, <2>4
<1>3. ASSUME NEW a \in Agent, NEW hidden \in BOOLEAN, NEW ttl \in HttpTtls,
             NEW skew \in 0..MaxSkew, HttpReport(a, hidden, ttl, skew)
      PROVE  TypeOK'
  <2>1. clients' \in [Agent -> ClientState \cup {None}]
    BY <1>3 DEF HttpReport, ClientState
  <2>2. shown' \in [Socket -> SUBSET Agent]
    BY <1>3 DEF HttpReport, PushUpdate, PushRemove
  <2>3. UNCHANGED <<conn, att, sessions, sessionRoles, viewerExpiresAt, alarmRunning>>
    BY <1>3 DEF HttpReport
  <2>4. alarm' \in Deadline
    BY <1>3, <2>1, <2>3 DEF HttpReport, ScheduleExpiryAlarm, SetAlarm,
                            DeadlinesAfter, ClientState
  <2> QED BY <2>1, <2>2, <2>3, <2>4
<1>4. ASSUME NEW s \in Socket, SocketClosed(s) PROVE TypeOK'
  BY <1>4 DEF SocketClosed, PushRemove
<1>5. ASSUME NEW s \in Socket, OversizedMessage(s) PROVE TypeOK'
  BY <1>5 DEF OversizedMessage, Close, memory
<1>6. ASSUME NEW s \in Socket, AgentReport(s) PROVE TypeOK'
  <2>1. att[s] \in Attachment /\ att[s].id \in Agent
    BY <1>6 DEF AgentReport, AcceptedViewersKept
  <2>2. clients' \in [Agent -> ClientState \cup {None}]
    BY <1>6, <2>1 DEF AgentReport, ClientState, Attachment
  <2>3. att' \in [Socket -> Attachment \cup {None}]
    BY <1>6, <2>1 DEF AgentReport, Attachment, AgentAttachment
  <2>4. shown' \in [Socket -> SUBSET Agent]
    BY <1>6, <2>1 DEF AgentReport, PushUpdate
  <2> QED BY <1>6, <2>2, <2>3, <2>4 DEF AgentReport
<1>7. ASSUME NEW a \in Agent, NetworkMetadataInferred(a) PROVE TypeOK'
  BY <1>7 DEF NetworkMetadataInferred, memory, PushUpdate, Online,
              Attachment, AgentAttachment, ClientState
<1>8. ASSUME NEW a \in Agent, RemoveClient(a) PROVE TypeOK'
  BY <1>8 DEF RemoveClient, PushRemove, Close
<1>9. ASSUME NEW a \in Agent, NEW hidden \in BOOLEAN, UpdateClientMeta(a, hidden)
      PROVE  TypeOK'
  BY <1>9 DEF UpdateClientMeta, Online, Attachment, AgentAttachment, ClientState
<1>10. CASE AlarmStart
  BY <1>10 DEF AlarmStart, LapsedClients, LapsedViewers
<1>11. CASE AlarmFinish
  <2>1. UNCHANGED <<conn, att, sessions, sessionRoles, viewerExpiresAt, clients, shown>>
    BY <1>11 DEF AlarmFinish, memory
  <2>2. DeadlinesAfter \subseteq Deadline
    BY <2>1 DEF DeadlinesAfter, ClientState
  <2>3. alarm' \in Deadline
    BY <1>11, <2>2 DEF AlarmFinish, SetAlarm
  <2>4. alarmRunning' \in BOOLEAN
    BY <1>11 DEF AlarmFinish
  <2> QED BY <2>1, <2>3, <2>4
<1>12. CASE AlarmFails
  BY <1>12 DEF AlarmFails, memory
<1>13. CASE Tick
  <2>1. \A d \in Deadline : Sooner(d) \in Deadline
    BY DEF Sooner
  <2>2. att' \in [Socket -> Attachment \cup {None}]
    <3>1. ASSUME NEW r \in Attachment
          PROVE  [r EXCEPT !.exp = Sooner(r.exp)] \in Attachment
      BY <2>1 DEF Attachment
    <3> QED BY <1>13, <3>1 DEF Tick
  <2>3. clients' \in [Agent -> ClientState \cup {None}]
    BY <1>13, <2>1 DEF Tick, ClientState, Online
  <2> QED BY <1>13, <2>1, <2>2, <2>3 DEF Tick
<1>14. CASE Restart
  <2>1. PICK last \in [Agent -> Socket \cup {None}],
             rep \in [Agent -> Socket \cup {None}] : Restart!2!(last, rep)
    BY <1>14 DEF Restart
  <2>2. \A s \in Socket : conn[s] # "free" => att[s] \in Attachment
    BY DEF AcceptedViewersKept
  <2>3. /\ sessions' \in [Id -> Socket \cup {None}]
        /\ sessionRoles' \in [Id -> Role \cup {None}]
    BY <2>1 DEF WatchingViewers, AcceptedAs
  <2>4. clients' \in [Agent -> ClientState \cup {None}]
    <3>1. \A a \in Agent : rep[a] # None => att[rep[a]] \in Attachment
      BY <2>1, <2>2 DEF Reporters, AgentSockets, AcceptedAs
    <3>2. \A a \in Agent : rep[a] # None =>
            [hidden |-> att[rep[a]].hidden, exp |-> att[rep[a]].exp] \in ClientState
      BY <3>1 DEF Attachment, ClientState
    <3> QED BY <2>1, <3>2
  <2>5. viewerExpiresAt' \in [Id -> Deadline]
    BY <1>14, <2>2 DEF Restart, WatchingViewers, AcceptedAs, Attachment
  <2>6. /\ conn' \in [Socket -> {"free", "open", "closing"}]
        /\ alarm' \in Deadline
        /\ UNCHANGED <<att, shown>>
    BY <1>14 DEF Restart
  <2>7. alarmRunning' \in BOOLEAN
    BY <1>14 DEF Restart
  <2> QED BY <2>3, <2>4, <2>5, <2>6, <2>7
<1>15. CASE UNCHANGED vars
  BY <1>15 DEF vars
<1> HIDE DEF TypeOK, Id
<1> QED
  BY <1>1, <1>2, <1>3, <1>4, <1>5, <1>6, <1>7, <1>8, <1>9, <1>10, <1>11,
     <1>12, <1>13, <1>14, <1>15 DEF Next, Running, Unreported, Watching, HttpReporting

(* The attachments and the sessions map stay in step: no handler drops a     *)
(* viewer whose window has not ended, and an eviction restores all of them. *)
LEMMA KeptStep ==
  TypeOK /\ AcceptedViewersKept /\ SessionIndex /\ [Next]_vars => AcceptedViewersKept'
<1> SUFFICES ASSUME TypeOK, AcceptedViewersKept, SessionIndex, [Next]_vars
             PROVE  AcceptedViewersKept'
  OBVIOUS
<1> USE HubAssumption, NoneAssumption DEF TypeOK, AcceptedViewersKept, Id
<1>1. ASSUME NEW a \in Agent, NEW s \in Socket, NEW hidden \in BOOLEAN,
             AgentConnect(a, s, hidden)
      PROVE  AcceptedViewersKept'
  <2>1. AgentAttachment(a, hidden, FALSE, None) \in Attachment
    BY DEF AgentAttachment, Attachment, Role, Deadline
  <2>2. \A v \in Socket : v # s => att'[v] = att[v] /\ sessions'[v] = sessions[v]
    BY <1>1 DEF AgentConnect
  <2>3. \A v \in Socket : v # s => (conn'[v] = "free" <=> conn[v] = "free")
    BY <1>1 DEF AgentConnect, Close
  <2>4. conn'[s] = "open" /\ att'[s].role = "agent" /\ att'[s].id = a
    BY <1>1 DEF AgentConnect, Close, AgentAttachment
  <2>5. att'[s] # None
    BY <1>1, <2>1 DEF AgentConnect
  <2> QED BY <2>2, <2>3, <2>4, <2>5
<1>2. ASSUME NEW s \in Socket, NEW ip \in IP, NEW includeHidden \in BOOLEAN,
             NEW ttl \in ViewerTtls, ViewerConnect(s, ip, includeHidden, ttl)
      PROVE  AcceptedViewersKept'
  <2>1. \A v \in Socket : v # s => /\ att'[v] = att[v] /\ sessions'[v] = sessions[v]
                                   /\ conn'[v] = conn[v]
    BY <1>2 DEF ViewerConnect
  <2>2. /\ conn'[s] = "open" /\ sessions'[s] = s
        /\ att'[s] = ViewerAttachment(s, ip, includeHidden, ttl)
    BY <1>2 DEF ViewerConnect
  <2> QED BY <2>1, <2>2, ViewerAttachmentType
<1>3. ASSUME NEW a \in Agent, NEW hidden \in BOOLEAN, NEW ttl \in HttpTtls,
             NEW skew \in 0..MaxSkew, HttpReport(a, hidden, ttl, skew)
      PROVE  AcceptedViewersKept'
  BY <1>3 DEF HttpReport
<1>4. ASSUME NEW s \in Socket, SocketClosed(s) PROVE AcceptedViewersKept'
  <2>1. att[s] # None /\ (att[s].role = "viewer" => att[s].id = s)
                      /\ (att[s].role = "agent" => att[s].id \in Agent)
    BY <1>4 DEF SocketClosed
  <2>2. att[s].role \in {"agent", "viewer"}
    BY <2>1 DEF Attachment, Role
  <2>3. \A v \in Socket : v # s => sessions'[v] = sessions[v]
    BY <1>4, <2>1, <2>2 DEF SocketClosed
  <2> QED BY <1>4, <2>3 DEF SocketClosed
<1>5. ASSUME NEW s \in Socket, OversizedMessage(s) PROVE AcceptedViewersKept'
  BY <1>5 DEF OversizedMessage, Close, memory
<1>6. ASSUME NEW s \in Socket, AgentReport(s) PROVE AcceptedViewersKept'
  <2>1. att[s] \in Attachment /\ att[s].id \in Agent
    BY <1>6 DEF AgentReport
  <2>2. att[s].hidden \in BOOLEAN
    BY <2>1 DEF Attachment
  <2>3. att' = [att EXCEPT ![s] = AgentAttachment(att[s].id, att[s].hidden, TRUE, None)]
    BY <1>6 DEF AgentReport
  <2>4. AgentAttachment(att[s].id, att[s].hidden, TRUE, None) \in Attachment
    BY <2>1, <2>2 DEF AgentAttachment, Attachment, Role, Deadline
  <2>5. /\ att'[s].role = "agent" /\ att'[s].id \in Agent
        /\ \A v \in Socket : v # s => att'[v] = att[v]
    BY <2>1, <2>3 DEF AgentAttachment
  <2>6. att'[s] # None
    BY <2>3, <2>4
  <2> QED BY <1>6, <2>5, <2>6 DEF AgentReport
<1>7. ASSUME NEW a \in Agent, NetworkMetadataInferred(a) PROVE AcceptedViewersKept'
  <2>1. clients[a] \in ClientState
    BY <1>7 DEF NetworkMetadataInferred, Online
  <2>2. clients[a].hidden \in BOOLEAN /\ clients[a].exp \in Deadline
    BY <2>1 DEF ClientState
  <2>3. conn' = conn /\ sessions' = sessions
    BY <1>7 DEF NetworkMetadataInferred, memory
  <2>4. CASE sessions[a] # None /\ sessionRoles[a] = "agent"
    <3> DEFINE s == sessions[a]
    <3>1. s \in Socket /\ conn[s] # "free"
      BY <2>4 DEF SessionIndex
    <3>2. att' = [att EXCEPT ![s] = AgentAttachment(a, clients[a].hidden, TRUE,
                                                   clients[a].exp)]
      BY <1>7, <2>4 DEF NetworkMetadataInferred
    <3>3. AgentAttachment(a, clients[a].hidden, TRUE, clients[a].exp) \in Attachment
      BY <2>2 DEF AgentAttachment, Attachment, Role
    <3>4. /\ att'[s].role = "agent" /\ att'[s].id = a
          /\ \A v \in Socket : v # s => att'[v] = att[v]
      BY <3>1, <3>2 DEF AgentAttachment
    <3>5. att'[s] # None
      BY <3>1, <3>2, <3>3
    <3> QED BY <2>3, <3>1, <3>4, <3>5
  <2>5. CASE ~(sessions[a] # None /\ sessionRoles[a] = "agent")
    BY <1>7, <2>3, <2>5 DEF NetworkMetadataInferred
  <2> QED BY <2>4, <2>5
<1>8. ASSUME NEW a \in Agent, RemoveClient(a) PROVE AcceptedViewersKept'
  BY <1>8 DEF RemoveClient, Close
<1>9. ASSUME NEW a \in Agent, NEW hidden \in BOOLEAN, UpdateClientMeta(a, hidden)
      PROVE  AcceptedViewersKept'
  <2>1. clients[a] \in ClientState
    BY <1>9 DEF UpdateClientMeta, Online
  <2>2. clients[a].exp \in Deadline
    BY <2>1 DEF ClientState
  <2>3. conn' = conn /\ sessions' = sessions
    BY <1>9 DEF UpdateClientMeta
  <2>4. CASE sessions[a] # None /\ conn[sessions[a]] = "open"
    <3> DEFINE s == sessions[a]
    <3>1. s \in Socket /\ conn[s] # "free"
      BY <2>4
    <3>2. att' = [att EXCEPT ![s] = AgentAttachment(a, hidden, TRUE, clients[a].exp)]
      BY <1>9, <2>4 DEF UpdateClientMeta
    <3>3. AgentAttachment(a, hidden, TRUE, clients[a].exp) \in Attachment
      BY <2>2 DEF AgentAttachment, Attachment, Role
    <3>4. /\ att'[s].role = "agent" /\ att'[s].id = a
          /\ \A v \in Socket : v # s => att'[v] = att[v]
      BY <3>1, <3>2 DEF AgentAttachment
    <3>5. att'[s] # None
      BY <3>1, <3>2, <3>3
    <3> QED BY <2>3, <3>1, <3>4, <3>5
  <2>5. CASE ~(sessions[a] # None /\ conn[sessions[a]] = "open")
    BY <1>9, <2>3, <2>5 DEF UpdateClientMeta
  <2> QED BY <2>4, <2>5
<1>10. CASE AlarmStart
  BY <1>10 DEF AlarmStart, LapsedViewers, SessionIndex
<1>11. CASE AlarmFinish
  BY <1>11 DEF AlarmFinish, memory
<1>12. CASE AlarmFails
  BY <1>12 DEF AlarmFails, memory
<1>13. CASE Tick
  <2>1. ASSUME NEW s \in Socket, att[s] # None
        PROVE  /\ att'[s] # None /\ att'[s].role = att[s].role
               /\ att'[s].id = att[s].id /\ att'[s].exp = Sooner(att[s].exp)
    <3>1. att[s] \in Attachment /\ att'[s] = [att[s] EXCEPT !.exp = Sooner(@)]
      BY <1>13, <2>1 DEF Tick
    <3> QED BY <3>1, TickedAttachment
  <2>2. \A s \in Socket : att[s] = None => att'[s] = None
    BY <1>13 DEF Tick
  <2>3. \A d \in Deadline : (d # None => Sooner(d) # None) /\ (d = 0 => Sooner(d) = 0)
    BY DEF Sooner, Deadline
  <2>4. \A s \in Socket : att[s] # None => att[s].exp \in Deadline
    BY DEF Attachment
  <2>5. conn' = conn /\ sessions' = sessions
    BY <1>13 DEF Tick
  <2>6. \A s \in Socket : att[s] # None =>
          /\ att[s].exp # None => att'[s].exp # None
          /\ att[s].exp = 0 => att'[s].exp = 0
    BY <2>1, <2>3, <2>4
  <2> QED BY <2>1, <2>2, <2>5, <2>6
<1>14. CASE Restart
  <2>1. \A s \in Socket : sessions'[s] = IF s \in WatchingViewers THEN s ELSE None
    BY <1>14 DEF Restart
  <2>2. att' = att /\ \A s \in Socket : conn'[s] = "free" <=> conn[s] = "free"
    BY <1>14 DEF Restart, AcceptedAs, WatchingViewers
  <2> QED BY <2>1, <2>2 DEF WatchingViewers, AcceptedAs, Lapsed
<1>15. CASE UNCHANGED vars
  BY <1>15 DEF vars
<1> HIDE DEF TypeOK, Id
<1> QED
  BY <1>1, <1>2, <1>3, <1>4, <1>5, <1>6, <1>7, <1>8, <1>9, <1>10, <1>11,
     <1>12, <1>13, <1>14, <1>15 DEF Next, Running, Unreported, Watching, HttpReporting

(* An eviction finds the state the attachments describe, and every handler   *)
(* changes sessions, sessionRoles and viewerExpiresAt together.             *)
LEMMA IndexStep ==
  TypeOK /\ AcceptedViewersKept /\ SessionIndex /\ [Next]_vars => SessionIndex'
<1> SUFFICES ASSUME TypeOK, AcceptedViewersKept, SessionIndex, [Next]_vars
             PROVE  SessionIndex'
  OBVIOUS
<1> USE HubAssumption, NoneAssumption DEF TypeOK, Id
<1>1. ASSUME NEW a \in Agent, NEW s \in Socket, NEW hidden \in BOOLEAN,
             AgentConnect(a, s, hidden)
      PROVE  SessionIndex'
  <2>1. \A v \in Socket : v # s => att'[v] = att[v]
                                   /\ (conn[v] # "free" => conn'[v] # "free")
    BY <1>1 DEF AgentConnect, Close
  <2>2. conn'[s] # "free" /\ att'[s].role = "agent" /\ att'[s].id = a
    BY <1>1 DEF AgentConnect, Close, AgentAttachment
  <2>3. \A i \in Id : sessions[i] # s
    BY <1>1 DEF AgentConnect, SessionIndex
  <2>4. /\ sessions'[a] = s /\ sessionRoles'[a] = "agent" /\ viewerExpiresAt'[a] = None
        /\ \A i \in Id : i # a => /\ sessions'[i] = sessions[i]
                                  /\ sessionRoles'[i] = sessionRoles[i]
                                  /\ viewerExpiresAt'[i] = viewerExpiresAt[i]
    BY <1>1 DEF AgentConnect
  <2> QED BY <2>1, <2>2, <2>3, <2>4 DEF SessionIndex
<1>2. ASSUME NEW s \in Socket, NEW ip \in IP, NEW includeHidden \in BOOLEAN,
             NEW ttl \in ViewerTtls, ViewerConnect(s, ip, includeHidden, ttl)
      PROVE  SessionIndex'
  <2>1. \A v \in Socket : v # s => att'[v] = att[v] /\ conn'[v] = conn[v]
    BY <1>2 DEF ViewerConnect
  <2>2. /\ conn'[s] # "free" /\ att'[s].role = "viewer" /\ att'[s].id = s
        /\ att'[s].exp = ttl
    BY <1>2 DEF ViewerConnect, ViewerAttachment
  <2>3. \A i \in Id : sessions[i] # s
    BY <1>2 DEF ViewerConnect, SessionIndex
  <2>4. /\ sessions'[s] = s /\ sessionRoles'[s] = "viewer" /\ viewerExpiresAt'[s] = ttl
        /\ \A i \in Id : i # s => /\ sessions'[i] = sessions[i]
                                  /\ sessionRoles'[i] = sessionRoles[i]
                                  /\ viewerExpiresAt'[i] = viewerExpiresAt[i]
    BY <1>2 DEF ViewerConnect
  <2>5. ttl # None
    OBVIOUS
  <2> QED BY <2>1, <2>2, <2>3, <2>4, <2>5 DEF SessionIndex
<1>3. ASSUME NEW a \in Agent, NEW hidden \in BOOLEAN, NEW ttl \in HttpTtls,
             NEW skew \in 0..MaxSkew, HttpReport(a, hidden, ttl, skew)
      PROVE  SessionIndex'
  BY <1>3 DEF HttpReport, SessionIndex
<1>4. ASSUME NEW s \in Socket, SocketClosed(s) PROVE SessionIndex'
  <2> DEFINE id == att[s].id
  <2>1. att[s] \in Attachment
    BY <1>4 DEF SocketClosed, AcceptedViewersKept
  <2>2. id \in Id
    BY <2>1 DEF Attachment
  <2>3. \A v \in Socket : v # s => att'[v] = att[v] /\ conn'[v] = conn[v]
    BY <1>4 DEF SocketClosed
  <2>4. CASE sessions[id] = s
    <3>1. /\ sessions'[id] = None /\ sessionRoles'[id] = None
          /\ viewerExpiresAt'[id] = None
          /\ \A i \in Id : i # id => /\ sessions'[i] = sessions[i]
                                     /\ sessionRoles'[i] = sessionRoles[i]
                                     /\ viewerExpiresAt'[i] = viewerExpiresAt[i]
      BY <1>4, <2>2, <2>4 DEF SocketClosed
    <3>2. \A i \in Id : i # id => sessions[i] # s
      BY DEF SessionIndex
    <3> QED BY <2>3, <3>1, <3>2 DEF SessionIndex
  <2>5. CASE sessions[id] # s
    <3>1. UNCHANGED <<sessions, sessionRoles, viewerExpiresAt>>
      BY <1>4, <2>5 DEF SocketClosed
    <3>2. \A i \in Id : sessions[i] # s
      BY <2>5 DEF SessionIndex
    <3> QED BY <2>3, <3>1, <3>2 DEF SessionIndex
  <2> QED BY <2>4, <2>5
<1>5. ASSUME NEW s \in Socket, OversizedMessage(s) PROVE SessionIndex'
  BY <1>5 DEF OversizedMessage, Close, memory, SessionIndex
<1>6. ASSUME NEW s \in Socket, AgentReport(s) PROVE SessionIndex'
  <2>1. /\ att'[s].id = att[s].id /\ att'[s].role = "agent" /\ att[s].role = "agent"
        /\ \A v \in Socket : v # s => att'[v] = att[v]
    BY <1>6 DEF AgentReport, AgentAttachment
  <2>2. UNCHANGED <<conn, sessions, sessionRoles, viewerExpiresAt>>
    BY <1>6 DEF AgentReport
  <2> QED BY <2>1, <2>2 DEF SessionIndex
<1>7. ASSUME NEW a \in Agent, NetworkMetadataInferred(a) PROVE SessionIndex'
  <2>1. UNCHANGED <<conn, sessions, sessionRoles, viewerExpiresAt>>
    BY <1>7 DEF NetworkMetadataInferred, memory
  <2>2. CASE sessions[a] # None /\ sessionRoles[a] = "agent"
    <3> DEFINE s == sessions[a]
    <3>1. s \in Socket
      BY <2>2
    <3>2. /\ att'[s].id = a /\ att'[s].role = "agent"
          /\ \A v \in Socket : v # s => att'[v] = att[v]
      BY <1>7, <2>2, <3>1 DEF NetworkMetadataInferred, AgentAttachment
    <3> QED BY <2>1, <2>2, <3>1, <3>2 DEF SessionIndex
  <2>3. CASE ~(sessions[a] # None /\ sessionRoles[a] = "agent")
    BY <1>7, <2>1, <2>3 DEF NetworkMetadataInferred, SessionIndex
  <2> QED BY <2>2, <2>3
<1>8. ASSUME NEW a \in Agent, RemoveClient(a) PROVE SessionIndex'
  <2>1. sessionRoles[a] # "viewer"
    BY DEF SessionIndex, AcceptedViewersKept
  <2> QED BY <1>8, <2>1 DEF RemoveClient, Close, SessionIndex
<1>9. ASSUME NEW a \in Agent, NEW hidden \in BOOLEAN, UpdateClientMeta(a, hidden)
      PROVE  SessionIndex'
  <2>1. UNCHANGED <<conn, sessions, sessionRoles, viewerExpiresAt>>
    BY <1>9 DEF UpdateClientMeta
  <2>2. CASE sessions[a] # None /\ conn[sessions[a]] = "open"
    <3> DEFINE s == sessions[a]
    <3>1. s \in Socket /\ sessionRoles[a] = "agent"
      BY <2>2 DEF SessionIndex, AcceptedViewersKept, Role
    <3>2. /\ att'[s].id = a /\ att'[s].role = "agent"
          /\ \A v \in Socket : v # s => att'[v] = att[v]
      BY <1>9, <2>2, <3>1 DEF UpdateClientMeta, AgentAttachment
    <3> QED BY <2>1, <2>2, <3>1, <3>2 DEF SessionIndex
  <2>3. CASE ~(sessions[a] # None /\ conn[sessions[a]] = "open")
    BY <1>9, <2>1, <2>3, ZenonT(40) DEF UpdateClientMeta, SessionIndex
  <2> QED BY <2>2, <2>3
<1>10. CASE AlarmStart
  <2>1. att' = att /\ \A s \in Socket : conn'[s] = "free" <=> conn[s] = "free"
    BY <1>10 DEF AlarmStart
  <2>2. \A i \in Id : IF i \in LapsedViewers
                      THEN /\ sessions'[i] = None /\ sessionRoles'[i] = None
                           /\ viewerExpiresAt'[i] = None
                      ELSE /\ sessions'[i] = sessions[i]
                           /\ sessionRoles'[i] = sessionRoles[i]
                           /\ viewerExpiresAt'[i] = viewerExpiresAt[i]
    BY <1>10 DEF AlarmStart
  <2> QED BY <2>1, <2>2 DEF SessionIndex
<1>11. CASE AlarmFinish
  BY <1>11 DEF AlarmFinish, memory, SessionIndex
<1>12. CASE AlarmFails
  BY <1>12 DEF AlarmFails, memory, SessionIndex
<1>13. CASE Tick
  <2>1. UNCHANGED <<conn, sessions, sessionRoles>>
        /\ \A i \in Id : viewerExpiresAt'[i] = Sooner(viewerExpiresAt[i])
    BY <1>13 DEF Tick
  <2>2. \A i \in Id : viewerExpiresAt'[i] = None <=> viewerExpiresAt[i] = None
    BY <2>1, SoonerType
  <2>3. \A s \in Socket : conn[s] # "free" =>
          /\ att'[s].id = att[s].id /\ att'[s].role = att[s].role
          /\ att'[s].exp = Sooner(att[s].exp)
    BY <1>13, TickedAttachment DEF Tick, AcceptedViewersKept
  <2> QED BY <2>1, <2>2, <2>3 DEF SessionIndex
<1>14. CASE Restart
  <2>1. PICK last \in [Agent -> Socket \cup {None}],
             rep \in [Agent -> Socket \cup {None}] : Restart!2!(last, rep)
    BY <1>14 DEF Restart
  <2>2. att' = att /\ \A s \in Socket : conn'[s] = "free" <=> conn[s] = "free"
    BY <1>14 DEF Restart, AcceptedAs, WatchingViewers
  <2>3. \A i \in Id : viewerExpiresAt'[i] = IF i \in WatchingViewers THEN att[i].exp
                                            ELSE None
    BY <1>14 DEF Restart
  <2>4. \A i \in WatchingViewers : /\ i \in Socket /\ conn[i] # "free"
                                   /\ att[i].id = i /\ att[i].role = "viewer"
                                   /\ att[i].exp # None
    BY DEF WatchingViewers, AcceptedAs, AcceptedViewersKept
  <2>5. ASSUME NEW i \in Agent
        PROVE  /\ i \notin WatchingViewers
               /\ sessions'[i] = last[i]
               /\ sessionRoles'[i] = IF last[i] = None THEN None ELSE "agent"
               /\ last[i] # None => /\ last[i] \in Socket /\ conn[last[i]] # "free"
                                    /\ att[last[i]].id = i
                                    /\ att[last[i]].role = "agent"
    BY <2>1, <2>4 DEF AgentSockets, AcceptedAs
  <2>6. ASSUME NEW i \in Socket
        PROVE  /\ sessions'[i] = IF i \in WatchingViewers THEN i ELSE None
               /\ sessionRoles'[i] = IF i \in WatchingViewers THEN "viewer" ELSE None
    BY <2>1
  <2> QED BY <2>2, <2>3, <2>4, <2>5, <2>6 DEF SessionIndex
<1>15. CASE UNCHANGED vars
  BY <1>15 DEF vars, SessionIndex
<1> HIDE DEF TypeOK, Id
<1> QED
  BY <1>1, <1>2, <1>3, <1>4, <1>5, <1>6, <1>7, <1>8, <1>9, <1>10, <1>11,
     <1>12, <1>13, <1>14, <1>15 DEF Next, Running, Unreported, Watching, HttpReporting

(* Everything that can shorten or create a viewer window sets the alarm, and *)
(* everything that moves the alarm considers every window still open.       *)
LEMMA ArmedStep ==
  TypeOK /\ AcceptedViewersKept /\ SessionIndex /\ ViewerDeadlineArmed
    /\ [Next]_vars => ViewerDeadlineArmed'
<1> SUFFICES ASSUME TypeOK, AcceptedViewersKept, SessionIndex, ViewerDeadlineArmed,
                    [Next]_vars
             PROVE  ViewerDeadlineArmed'
  OBVIOUS
<1> USE HubAssumption DEF Id, Deadline
<1>0. TypeOK'
  BY TypeStep
<1>a. ASSUME NEW deadlines, None \notin deadlines, SetAlarm(deadlines),
             \A s \in Socket : viewerExpiresAt'[s] \notin {None, 0} =>
                                 viewerExpiresAt'[s] \in deadlines
      PROVE  ViewerDeadlineArmed'
  <2>1. ASSUME NEW s \in Socket, viewerExpiresAt'[s] \notin {None, 0}
        PROVE  alarm' \in deadlines /\ alarm' <= viewerExpiresAt'[s]
    BY <1>a, <2>1 DEF SetAlarm
  <2> QED BY <1>a, <2>1 DEF ViewerDeadlineArmed
<1>b. ASSUME alarm' = alarm, alarmRunning' = alarmRunning,
             \A s \in Socket : viewerExpiresAt'[s] \in {None, viewerExpiresAt[s]}
      PROVE  ViewerDeadlineArmed'
  BY <1>b DEF ViewerDeadlineArmed
<1>1. ASSUME NEW a \in Agent, NEW s \in Socket, NEW hidden \in BOOLEAN,
             AgentConnect(a, s, hidden)
      PROVE  ViewerDeadlineArmed'
  BY <1>1, <1>b DEF AgentConnect, TypeOK
<1>2. ASSUME NEW s \in Socket, NEW ip \in IP, NEW includeHidden \in BOOLEAN,
             NEW ttl \in ViewerTtls, ViewerConnect(s, ip, includeHidden, ttl)
      PROVE  ViewerDeadlineArmed'
  BY <1>2, <1>a DEF ViewerConnect, ScheduleExpiryAlarm, DeadlinesAfter
<1>3. ASSUME NEW a \in Agent, NEW hidden \in BOOLEAN, NEW ttl \in HttpTtls,
             NEW skew \in 0..MaxSkew, HttpReport(a, hidden, ttl, skew)
      PROVE  ViewerDeadlineArmed'
  BY <1>3, <1>a DEF HttpReport, ScheduleExpiryAlarm, DeadlinesAfter
<1>4. ASSUME NEW s \in Socket, SocketClosed(s) PROVE ViewerDeadlineArmed'
  BY <1>4, <1>b DEF SocketClosed, TypeOK
<1>5. ASSUME NEW s \in Socket, OversizedMessage(s) PROVE ViewerDeadlineArmed'
  BY <1>5, <1>b DEF OversizedMessage, memory
<1>6. ASSUME NEW s \in Socket, AgentReport(s) PROVE ViewerDeadlineArmed'
  BY <1>6, <1>b DEF AgentReport
<1>7. ASSUME NEW a \in Agent, NetworkMetadataInferred(a) PROVE ViewerDeadlineArmed'
  BY <1>7, <1>b DEF NetworkMetadataInferred, memory
<1>8. ASSUME NEW a \in Agent, RemoveClient(a) PROVE ViewerDeadlineArmed'
  BY <1>8, <1>b DEF RemoveClient
<1>9. ASSUME NEW a \in Agent, NEW hidden \in BOOLEAN, UpdateClientMeta(a, hidden)
      PROVE  ViewerDeadlineArmed'
  BY <1>9, <1>b DEF UpdateClientMeta
<1>10. CASE AlarmStart
  BY <1>10 DEF AlarmStart, ViewerDeadlineArmed
<1>11. CASE AlarmFinish
  BY <1>11, <1>a DEF AlarmFinish, DeadlinesAfter
<1>12. CASE AlarmFails
  <2>1. alarm' = 0 /\ viewerExpiresAt' = viewerExpiresAt
    BY <1>12 DEF AlarmFails, memory
  <2> QED BY <2>1 DEF ViewerDeadlineArmed, TypeOK
<1>13. CASE Tick
  <2>1. alarm' = Sooner(alarm) /\ alarmRunning' = alarmRunning
        /\ \A s \in Socket : viewerExpiresAt'[s] = Sooner(viewerExpiresAt[s])
    BY <1>13 DEF Tick
  <2>2. alarm \in Nat \cup {None}
        /\ \A s \in Socket : viewerExpiresAt[s] \in Nat \cup {None}
    BY DEF TypeOK
  <2> QED BY <2>1, <2>2 DEF ViewerDeadlineArmed, Sooner
<1>14. CASE Restart
  <2>1. \A s \in Socket : viewerExpiresAt'[s] \notin {None, 0} =>
          viewerExpiresAt'[s] = viewerExpiresAt[s]
    <3>1. \A s \in WatchingViewers : sessions[s] = s /\ viewerExpiresAt[s] = att[s].exp
      BY DEF WatchingViewers, AcceptedAs, Lapsed, AcceptedViewersKept, SessionIndex
    <3> QED BY <1>14, <3>1 DEF Restart
  <2>2. \/ alarmRunning /\ alarm' = 0
        \/ ~alarmRunning /\ alarm' = alarm
    BY <1>14 DEF Restart, TypeOK
  <2>3. \A s \in Socket : viewerExpiresAt'[s] \in Nat \cup {None}
    BY <1>0 DEF TypeOK
  <2> QED BY <2>1, <2>2, <2>3 DEF ViewerDeadlineArmed
<1>15. CASE UNCHANGED vars
  BY <1>15, <1>b DEF vars
<1> HIDE DEF TypeOK, Id
<1> QED
  BY <1>1, <1>2, <1>3, <1>4, <1>5, <1>6, <1>7, <1>8, <1>9, <1>10, <1>11,
     <1>12, <1>13, <1>14, <1>15 DEF Next, Running, Unreported, Watching, HttpReporting

(* A socket that watches without having just connected as a viewer watched  *)
(* before, from the same address: no step but an upgrade adds a viewer.     *)
LEMMA LimitsStep ==
  TypeOK /\ AcceptedViewersKept /\ SessionIndex /\ ViewerLimits /\ [Next]_vars
    => ViewerLimits'
<1> SUFFICES ASSUME TypeOK, AcceptedViewersKept, SessionIndex, ViewerLimits, [Next]_vars
             PROVE  ViewerLimits'
  OBVIOUS
<1> USE HubAssumption, NoneAssumption DEF TypeOK, Id
<1>f. /\ IsFiniteSet(ActiveViewers) /\ Cardinality(ActiveViewers) \in Nat
      /\ \A ip \in IP : /\ IsFiniteSet(ActiveFrom(ip))
                        /\ Cardinality(ActiveFrom(ip)) \in Nat
  BY FS_Subset, FS_CardinalityType DEF ActiveViewers, ActiveFrom
<1>a. ASSUME \A v \in Socket :
                v \in ActiveViewers' => v \in ActiveViewers /\ att'[v].ip = att[v].ip
      PROVE  ViewerLimits'
  <2>1. ActiveViewers' \subseteq ActiveViewers
    BY <1>a DEF ActiveViewers
  <2>2. \A ip \in IP : ActiveFrom(ip)' \subseteq ActiveFrom(ip)
    BY <1>a DEF ActiveViewers, ActiveFrom
  <2>3. Cardinality(ActiveViewers') <= Cardinality(ActiveViewers)
        /\ Cardinality(ActiveViewers') \in Nat
    BY <1>f, <2>1, FS_Subset, FS_CardinalityType
  <2>4. \A ip \in IP : /\ Cardinality(ActiveFrom(ip)') <= Cardinality(ActiveFrom(ip))
                       /\ Cardinality(ActiveFrom(ip)') \in Nat
    BY <1>f, <2>2, FS_Subset, FS_CardinalityType
  <2> QED BY <1>f, <2>3, <2>4 DEF ViewerLimits
<1>1. ASSUME NEW a \in Agent, NEW s \in Socket, NEW hidden \in BOOLEAN,
             AgentConnect(a, s, hidden)
      PROVE  ViewerLimits'
  <2>1. \A v \in Socket : v # s => att'[v] = att[v] /\ (conn'[v] = "open" => conn[v] = "open")
    BY <1>1 DEF AgentConnect, Close
  <2>2. sessions[s] # s
    BY <1>1 DEF AgentConnect, SessionIndex
  <2>3. \A v \in Socket : /\ sessions'[v] = sessions[v]
                          /\ sessionRoles'[v] = sessionRoles[v]
                          /\ viewerExpiresAt'[v] = viewerExpiresAt[v]
    BY <1>1 DEF AgentConnect
  <2> QED BY <1>a, <2>1, <2>2, <2>3 DEF ActiveViewers
<1>2. ASSUME NEW s \in Socket, NEW ip \in IP, NEW includeHidden \in BOOLEAN,
             NEW ttl \in ViewerTtls, ViewerConnect(s, ip, includeHidden, ttl)
      PROVE  ViewerLimits'
  <2>1. \A v \in Socket : v # s =>
          /\ att'[v] = att[v] /\ conn'[v] = conn[v]
          /\ sessions'[v] = sessions[v] /\ sessionRoles'[v] = sessionRoles[v]
          /\ viewerExpiresAt'[v] = viewerExpiresAt[v]
    BY <1>2 DEF ViewerConnect
  <2>2. att'[s].ip = ip
    BY <1>2 DEF ViewerConnect, ViewerAttachment
  <2>3. ActiveViewers' \subseteq ActiveViewers \cup {s}
    BY <2>1 DEF ActiveViewers
  <2>4. ActiveFrom(ip)' \subseteq ActiveFrom(ip) \cup {s}
    BY <2>1 DEF ActiveViewers, ActiveFrom
  <2>5. \A other \in IP : other # ip => ActiveFrom(other)' \subseteq ActiveFrom(other)
    BY <2>1, <2>2 DEF ActiveViewers, ActiveFrom
  <2>6. ASSUME NEW S, NEW T, IsFiniteSet(S), T \subseteq S \cup {s}
        PROVE  Cardinality(T) \in Nat /\ Cardinality(T) <= Cardinality(S) + 1
    <3>0. Cardinality(S) \in Nat
      BY <2>6, FS_CardinalityType
    <3>1. IsFiniteSet(S \cup {s}) /\ Cardinality(S \cup {s}) <= Cardinality(S) + 1
      <4>1. /\ IsFiniteSet(S \cup {s})
            /\ Cardinality(S \cup {s}) = IF s \in S THEN Cardinality(S)
                                         ELSE Cardinality(S) + 1
        BY <2>6, FS_AddElement
      <4> QED BY <3>0, <4>1
    <3>2. IsFiniteSet(T) /\ Cardinality(T) <= Cardinality(S \cup {s})
      BY <2>6, <3>1, FS_Subset
    <3>3. Cardinality(T) \in Nat /\ Cardinality(S \cup {s}) \in Nat
      BY <3>1, <3>2, FS_CardinalityType
    <3> QED BY <3>0, <3>1, <3>2, <3>3
  <2>7. Cardinality(ActiveViewers') \in Nat
        /\ Cardinality(ActiveViewers') <= Cardinality(ActiveViewers) + 1
    BY <1>f, <2>3, <2>6
  <2>8. Cardinality(ActiveFrom(ip)') \in Nat
        /\ Cardinality(ActiveFrom(ip)') <= Cardinality(ActiveFrom(ip)) + 1
    BY <1>f, <2>4, <2>6
  <2>9. ASSUME NEW other \in IP, other # ip
        PROVE  /\ Cardinality(ActiveFrom(other)') \in Nat
               /\ Cardinality(ActiveFrom(other)') <= Cardinality(ActiveFrom(other))
    BY <1>f, <2>5, <2>9, FS_Subset, FS_CardinalityType
  <2>10. /\ Cardinality(ActiveViewers) < MaxViewers
         /\ Cardinality(ActiveFrom(ip)) < MaxViewersPerIp
    BY <1>2 DEF ViewerConnect, BelowViewerLimits
  <2> QED BY <1>f, <2>7, <2>8, <2>9, <2>10 DEF ViewerLimits
<1>3. ASSUME NEW a \in Agent, NEW hidden \in BOOLEAN, NEW ttl \in HttpTtls,
             NEW skew \in 0..MaxSkew, HttpReport(a, hidden, ttl, skew)
      PROVE  ViewerLimits'
  BY <1>3, <1>a DEF HttpReport, ActiveViewers
<1>4. ASSUME NEW s \in Socket, SocketClosed(s) PROVE ViewerLimits'
  <2>1. \A v \in Socket : v # s => att'[v] = att[v] /\ conn'[v] = conn[v]
    BY <1>4 DEF SocketClosed
  <2>2. conn'[s] = "free"
    BY <1>4 DEF SocketClosed
  <2>3. \A v \in Socket : sessions'[v] = v =>
          /\ sessions[v] = v /\ sessionRoles'[v] = sessionRoles[v]
          /\ viewerExpiresAt'[v] = viewerExpiresAt[v]
    BY <1>4 DEF SocketClosed
  <2> QED BY <1>a, <2>1, <2>2, <2>3 DEF ActiveViewers
<1>5. ASSUME NEW s \in Socket, OversizedMessage(s) PROVE ViewerLimits'
  BY <1>5, <1>a DEF OversizedMessage, Close, memory, ActiveViewers
<1>b. ASSUME NEW s \in Socket, att[s].role = "agent" \/ att'[s] = att[s],
             \A v \in Socket : v # s => att'[v] = att[v],
             UNCHANGED <<conn, sessions, sessionRoles, viewerExpiresAt>>
      PROVE  ViewerLimits'
  BY <1>a, <1>b DEF ActiveViewers, SessionIndex
<1>6. ASSUME NEW s \in Socket, AgentReport(s) PROVE ViewerLimits'
  BY <1>6, <1>b DEF AgentReport
<1>7. ASSUME NEW a \in Agent, NetworkMetadataInferred(a) PROVE ViewerLimits'
  <2>1. UNCHANGED <<conn, sessions, sessionRoles, viewerExpiresAt>>
    BY <1>7 DEF NetworkMetadataInferred, memory
  <2>2. CASE att' = att
    BY <1>a, <2>1, <2>2 DEF ActiveViewers
  <2>3. CASE att' # att
    <3>1. sessions[a] \in Socket /\ sessionRoles[a] = "agent"
      BY <1>7, <2>3 DEF NetworkMetadataInferred
    <3>2. \A v \in Socket : v # sessions[a] => att'[v] = att[v]
      BY <1>7, <3>1 DEF NetworkMetadataInferred
    <3>3. att[sessions[a]].role = "agent"
      BY <3>1 DEF SessionIndex
    <3> QED BY <1>b, <2>1, <3>1, <3>2, <3>3
  <2> QED BY <2>2, <2>3
<1>8. ASSUME NEW a \in Agent, RemoveClient(a) PROVE ViewerLimits'
  BY <1>8, <1>a DEF RemoveClient, Close, ActiveViewers
<1>9. ASSUME NEW a \in Agent, NEW hidden \in BOOLEAN, UpdateClientMeta(a, hidden)
      PROVE  ViewerLimits'
  <2>1. UNCHANGED <<conn, sessions, sessionRoles, viewerExpiresAt>>
    BY <1>9 DEF UpdateClientMeta
  <2>2. CASE att' = att
    BY <1>a, <2>1, <2>2 DEF ActiveViewers
  <2>3. CASE att' # att
    <3>1. /\ sessions[a] \in Socket
          /\ \A v \in Socket : v # sessions[a] => att'[v] = att[v]
      BY <1>9, <2>3 DEF UpdateClientMeta
    <3>2. att[sessions[a]].role = "agent"
      BY <3>1 DEF SessionIndex, AcceptedViewersKept, Role
    <3> QED BY <1>b, <2>1, <3>1, <3>2
  <2> QED BY <2>2, <2>3
<1>10. CASE AlarmStart
  <2>1. /\ att' = att
        /\ \A v \in Socket : /\ conn'[v] = "open" => conn[v] = "open"
                             /\ sessions'[v] = v => v \notin LapsedViewers
    BY <1>10 DEF AlarmStart
  <2>2. \A v \in Socket \ LapsedViewers : /\ sessions'[v] = sessions[v]
                                          /\ sessionRoles'[v] = sessionRoles[v]
                                          /\ viewerExpiresAt'[v] = viewerExpiresAt[v]
    BY <1>10 DEF AlarmStart
  <2> QED BY <1>a, <2>1, <2>2 DEF ActiveViewers
<1>11. CASE AlarmFinish
  BY <1>11, <1>a DEF AlarmFinish, memory, ActiveViewers
<1>12. CASE AlarmFails
  BY <1>12, <1>a DEF AlarmFails, memory, ActiveViewers
<1>13. CASE Tick
  <2>1. UNCHANGED <<conn, sessions, sessionRoles>>
        /\ \A v \in Socket : viewerExpiresAt'[v] = Sooner(viewerExpiresAt[v])
    BY <1>13 DEF Tick
  <2>2. \A v \in Socket : Lapsed(viewerExpiresAt[v]) => Lapsed(viewerExpiresAt'[v])
    BY <2>1 DEF Lapsed, Sooner
  <2>3. \A v \in Socket : conn[v] # "free" => att'[v].ip = att[v].ip
    BY <1>13, TickedAttachment DEF Tick, AcceptedViewersKept
  <2> QED BY <1>a, <2>1, <2>2, <2>3 DEF ActiveViewers
<1>14. CASE Restart
  <2>1. /\ att' = att
        /\ \A v \in Socket : /\ conn'[v] = "open" => conn[v] = "open"
                             /\ sessions'[v] = v => v \in WatchingViewers
    BY <1>14 DEF Restart
  <2>2. \A v \in WatchingViewers : /\ sessions[v] = v /\ sessionRoles[v] = "viewer"
                                   /\ ~Lapsed(viewerExpiresAt[v])
    BY DEF WatchingViewers, AcceptedAs, Lapsed, AcceptedViewersKept, SessionIndex
  <2> QED BY <1>a, <2>1, <2>2 DEF ActiveViewers
<1>15. CASE UNCHANGED vars
  BY <1>15, <1>a DEF vars, ActiveViewers
<1> HIDE DEF TypeOK, Id
<1> QED
  BY <1>1, <1>2, <1>3, <1>4, <1>5, <1>6, <1>7, <1>8, <1>9, <1>10, <1>11,
     <1>12, <1>13, <1>14, <1>15 DEF Next, Running, Unreported, Watching, HttpReporting

(* A viewer that is registered after a step was registered before it with    *)
(* the same end, one tick nearer at most, or was accepted before it and has *)
(* not ended.                                                               *)
LEMMA WindowStep ==
  TypeOK /\ AcceptedViewersKept /\ SessionIndex /\ [Next]_vars
    => [\A s \in Socket : WindowKept(s)]_vars
<1> SUFFICES ASSUME TypeOK, AcceptedViewersKept, SessionIndex, [Next]_vars,
                    vars' # vars, NEW v \in Socket
             PROVE  WindowKept(v)
  BY DEF vars
<1> USE HubAssumption, NoneAssumption DEF TypeOK, Id
<1>a. ASSUME viewerExpiresAt'[v] \in {None, viewerExpiresAt[v]} PROVE WindowKept(v)
  <2>1. ASSUME viewerExpiresAt[v] # None
        PROVE  viewerExpiresAt[v] = att[v].exp /\ viewerExpiresAt[v] \in Nat
    <3>1. sessionRoles[v] = "viewer" /\ sessions[v] \in Socket
      BY <2>1 DEF SessionIndex
    <3>2. sessions[v] = v
      BY <3>1 DEF SessionIndex, AcceptedViewersKept
    <3> QED BY <2>1, <3>1, <3>2 DEF SessionIndex, Deadline
  <2> QED BY <1>a, <2>1 DEF WindowKept
<1>1. ASSUME NEW a \in Agent, NEW s \in Socket, NEW hidden \in BOOLEAN,
             AgentConnect(a, s, hidden)
      PROVE  WindowKept(v)
  BY <1>1, <1>a DEF AgentConnect
<1>2. ASSUME NEW s \in Socket, NEW ip \in IP, NEW includeHidden \in BOOLEAN,
             NEW ttl \in ViewerTtls, ViewerConnect(s, ip, includeHidden, ttl)
      PROVE  WindowKept(v)
  <2>1. CASE v = s
    BY <1>2, <2>1 DEF ViewerConnect, WindowKept
  <2>2. CASE v # s
    BY <1>2, <2>2, <1>a DEF ViewerConnect
  <2> QED BY <2>1, <2>2
<1>3. ASSUME NEW a \in Agent, NEW hidden \in BOOLEAN, NEW ttl \in HttpTtls,
             NEW skew \in 0..MaxSkew, HttpReport(a, hidden, ttl, skew)
      PROVE  WindowKept(v)
  BY <1>3, <1>a DEF HttpReport
<1>4. ASSUME NEW s \in Socket, SocketClosed(s) PROVE WindowKept(v)
  BY <1>4, <1>a DEF SocketClosed
<1>5. ASSUME NEW s \in Socket, OversizedMessage(s) PROVE WindowKept(v)
  BY <1>5, <1>a DEF OversizedMessage, memory
<1>6. ASSUME NEW s \in Socket, AgentReport(s) PROVE WindowKept(v)
  BY <1>6, <1>a DEF AgentReport
<1>7. ASSUME NEW a \in Agent, NetworkMetadataInferred(a) PROVE WindowKept(v)
  BY <1>7, <1>a DEF NetworkMetadataInferred, memory
<1>8. ASSUME NEW a \in Agent, RemoveClient(a) PROVE WindowKept(v)
  BY <1>8, <1>a DEF RemoveClient
<1>9. ASSUME NEW a \in Agent, NEW hidden \in BOOLEAN, UpdateClientMeta(a, hidden)
      PROVE  WindowKept(v)
  BY <1>9, <1>a DEF UpdateClientMeta
<1>10. CASE AlarmStart
  BY <1>10, <1>a DEF AlarmStart
<1>11. CASE AlarmFinish
  BY <1>11, <1>a DEF AlarmFinish, memory
<1>12. CASE AlarmFails
  BY <1>12, <1>a DEF AlarmFails, memory
<1>13. CASE Tick
  <2>1. viewerExpiresAt'[v] = Sooner(viewerExpiresAt[v]) /\ viewerExpiresAt[v] \in Deadline
    BY <1>13 DEF Tick
  <2>2. CASE viewerExpiresAt[v] = None
    BY <1>a, <2>1, <2>2 DEF Sooner
  <2>3. CASE viewerExpiresAt[v] # None
    <3>1. sessionRoles[v] = "viewer" /\ sessions[v] \in Socket
      BY <2>3 DEF SessionIndex
    <3>2. sessions[v] = v
      BY <3>1 DEF SessionIndex, AcceptedViewersKept
    <3>3. viewerExpiresAt[v] = att[v].exp
      BY <3>1, <3>2 DEF SessionIndex
    <3>4. Sooner(viewerExpiresAt[v]) <= viewerExpiresAt[v]
      BY <2>1, <2>3, SoonerType
    <3> QED BY <2>1, <3>3, <3>4 DEF WindowKept
  <2> QED BY <2>2, <2>3
<1>14. CASE Restart
  <2>1. viewerExpiresAt'[v] = IF v \in WatchingViewers THEN att[v].exp ELSE None
    BY <1>14 DEF Restart
  <2>2. ASSUME v \in WatchingViewers
        PROVE  att[v].exp \in Nat /\ att[v].exp # 0
    BY <2>2 DEF WatchingViewers, AcceptedAs, Lapsed, AcceptedViewersKept, Attachment,
                Deadline
  <2> QED BY <2>1, <2>2 DEF WindowKept
<1>15. CASE UNCHANGED vars
  BY <1>15
<1> HIDE DEF TypeOK, Id
<1> QED
  BY <1>1, <1>2, <1>3, <1>4, <1>5, <1>6, <1>7, <1>8, <1>9, <1>10, <1>11,
     <1>12, <1>13, <1>14, <1>15 DEF Next, Running, Unreported, Watching, HttpReporting

----------------------------------------------------------------------------
(* The inductive invariant: an eviction rebuilds the maps from attachments, *)
(* so none of its parts is inductive without the other two.                *)
IndexInv == TypeOK /\ AcceptedViewersKept /\ SessionIndex

(* The hub starts with nothing accepted and nothing registered.            *)
LEMMA InitIndexInv == Init => IndexInv /\ ViewerDeadlineArmed /\ ViewerLimits
<1> SUFFICES ASSUME Init PROVE IndexInv /\ ViewerDeadlineArmed /\ ViewerLimits
  OBVIOUS
<1> USE HubAssumption, NoneAssumption
<1>1. TypeOK
  BY DEF Init, TypeOK, Deadline
<1>2. AcceptedViewersKept /\ SessionIndex /\ ViewerDeadlineArmed
  BY DEF Init, AcceptedViewersKept, SessionIndex, ViewerDeadlineArmed, Id
<1>3. ActiveViewers = {} /\ \A ip \in IP : ActiveFrom(ip) = {}
  BY DEF Init, ActiveViewers, ActiveFrom, Id
<1>4. ViewerLimits
  BY <1>3, FS_EmptySet DEF ViewerLimits
<1> QED BY <1>1, <1>2, <1>4 DEF IndexInv

(* The maps, the attachments and the connections agree in every reachable   *)
(* state of a hub of any size, evictions included.                          *)
THEOREM IndexInvariant == Spec => []IndexInv
<1>1. IndexInv /\ [Next]_vars => IndexInv'
  BY TypeStep, KeptStep, IndexStep DEF IndexInv
<1> QED BY <1>1, InitIndexInv, PTL DEF Spec

(* TypeOK holds in every reachable state: no handler stores a value of the   *)
(* wrong kind in the hub's maps or in an attachment.                        *)
THEOREM TypeCorrect == Spec => []TypeOK
BY IndexInvariant, PTL DEF IndexInv

(* SessionIndex holds in every reachable state: sessions, sessionRoles and   *)
(* viewerExpiresAt describe the same connections.                           *)
THEOREM SessionsIndexed == Spec => []SessionIndex
BY IndexInvariant, PTL DEF IndexInv

(* AcceptedViewersKept holds in every reachable state: the hub forgets no    *)
(* viewer before its window ends.                                           *)
THEOREM ViewersKept == Spec => []AcceptedViewersKept
BY IndexInvariant, PTL DEF IndexInv

(* ViewerDeadlineArmed holds in every reachable state: scheduleExpiryAlarm,  *)
(* alarm(), a failed alarm and an eviction all leave an alarm no later than *)
(* the end of every open window.                                            *)
THEOREM DeadlinesArmed == Spec => []ViewerDeadlineArmed
<1>1. IndexInv /\ ViewerDeadlineArmed /\ [Next]_vars => ViewerDeadlineArmed'
  BY ArmedStep DEF IndexInv
<1> QED BY <1>1, IndexInvariant, InitIndexInv, PTL DEF Spec

(* ViewerLimits holds in every reachable state, for any limits: counting     *)
(* before accepting is enough because nothing else registers a viewer.      *)
THEOREM LimitsHold == Spec => []ViewerLimits
<1>1. IndexInv /\ ViewerLimits /\ [Next]_vars => ViewerLimits'
  BY LimitsStep DEF IndexInv
<1> QED BY <1>1, IndexInvariant, InitIndexInv, PTL DEF Spec

(* ViewerWindowFinal: no step extends the window of a connected viewer or    *)
(* registers one whose window ended.                                        *)
THEOREM WindowsFinal == Spec => ViewerWindowFinal
<1>1. IndexInv /\ [Next]_vars => [\A s \in Socket : WindowKept(s)]_vars
  BY WindowStep DEF IndexInv
<1> QED BY <1>1, IndexInvariant, PTL DEF Spec, ViewerWindowFinal

-----------------------------------------------------------------------------
(* Between two evictions: what the hub holds only while it stays in memory.  *)

\* No step but an eviction makes an open agent connection one that its id no
\* longer means: an upgrade closes the one it replaces, and removeClient the one
\* it forgets.
LEMMA AgentStep ==
  ASSUME IndexInv, OpenAgentRegistered, Running
  PROVE  OpenAgentRegistered'
<1> USE HubAssumption, NoneAssumption DEF IndexInv, TypeOK, Id
<1>a. ASSUME \A v \in Socket : conn'[v] = "open" /\ att'[v].role = "agent" =>
                /\ conn[v] = "open" /\ att[v].role = "agent" /\ att'[v].id = att[v].id
                /\ sessions'[att[v].id] = sessions[att[v].id]
      PROVE  OpenAgentRegistered'
  BY <1>a DEF OpenAgentRegistered
<1>1. ASSUME NEW a \in Agent, NEW s \in Socket, NEW hidden \in BOOLEAN,
             AgentConnect(a, s, hidden)
      PROVE  OpenAgentRegistered'
  <2>1. att'[s].id = a /\ sessions'[a] = s
    BY <1>1 DEF AgentConnect, AgentAttachment
  <2>2. ASSUME NEW v \in Socket, v # s, conn'[v] = "open", att'[v].role = "agent"
        PROVE  sessions'[att'[v].id] = v
    <3>1. /\ att'[v] = att[v] /\ conn[v] = "open"
          /\ sessions[a] # v
      BY <1>1, <2>2 DEF AgentConnect, Close
    <3>2. sessions[att[v].id] = v
      BY <2>2, <3>1 DEF OpenAgentRegistered
    <3>3. att[v].id \in Agent
      BY <2>2, <3>1 DEF AcceptedViewersKept
    <3>4. att[v].id # a
      BY <3>1, <3>2
    <3>5. sessions'[att[v].id] = sessions[att[v].id]
      BY <1>1, <3>3, <3>4 DEF AgentConnect
    <3> QED BY <3>1, <3>2, <3>5
  <2> QED BY <2>1, <2>2 DEF OpenAgentRegistered
<1>2. ASSUME NEW s \in Socket, NEW ip \in IP, NEW includeHidden \in BOOLEAN,
             NEW ttl \in ViewerTtls, ViewerConnect(s, ip, includeHidden, ttl)
      PROVE  OpenAgentRegistered'
  <2>1. \A v \in Socket : v # s => att'[v] = att[v] /\ conn'[v] = conn[v]
    BY <1>2 DEF ViewerConnect
  <2>2. att'[s].role = "viewer"
    BY <1>2 DEF ViewerConnect, ViewerAttachment
  <2>3. \A v \in Socket : conn[v] = "open" /\ att[v].role = "agent" => att[v].id \in Agent
    BY DEF AcceptedViewersKept
  <2>4. \A b \in Agent : sessions'[b] = sessions[b]
    BY <1>2 DEF ViewerConnect
  <2> QED BY <1>a, <2>1, <2>2, <2>3, <2>4
<1>3. ASSUME NEW a \in Agent, NEW hidden \in BOOLEAN, NEW ttl \in HttpTtls,
             NEW skew \in 0..MaxSkew, HttpReport(a, hidden, ttl, skew)
      PROVE  OpenAgentRegistered'
  BY <1>3, <1>a DEF HttpReport
<1>4. ASSUME NEW s \in Socket, SocketClosed(s) PROVE OpenAgentRegistered'
  <2>1. \A v \in Socket : v # s => att'[v] = att[v] /\ conn'[v] = conn[v]
    BY <1>4 DEF SocketClosed
  <2>2. conn'[s] = "free"
    BY <1>4 DEF SocketClosed
  <2>3. \A i \in Id : sessions[i] # s => sessions'[i] = sessions[i]
    BY <1>4 DEF SocketClosed
  <2>4. \A v \in Socket : conn[v] = "open" /\ att[v].role = "agent" =>
          att[v].id \in Id /\ sessions[att[v].id] = v
    BY DEF AcceptedViewersKept, OpenAgentRegistered
  <2> QED BY <1>a, <2>1, <2>2, <2>3, <2>4
<1>5. ASSUME NEW s \in Socket, OversizedMessage(s) PROVE OpenAgentRegistered'
  BY <1>5, <1>a DEF OversizedMessage, Close, memory
<1>6. ASSUME NEW s \in Socket, AgentReport(s) PROVE OpenAgentRegistered'
  <2>1. /\ att'[s].id = att[s].id /\ att[s].role = "agent"
        /\ \A v \in Socket : v # s => att'[v] = att[v]
    BY <1>6 DEF AgentReport, AgentAttachment
  <2>2. UNCHANGED <<conn, sessions>>
    BY <1>6 DEF AgentReport
  <2> QED BY <1>a, <2>1, <2>2
<1>7. ASSUME NEW a \in Agent, NetworkMetadataInferred(a) PROVE OpenAgentRegistered'
  <2>1. UNCHANGED <<conn, sessions>>
    BY <1>7 DEF NetworkMetadataInferred, memory
  <2>2. CASE sessions[a] # None /\ sessionRoles[a] = "agent"
    <3> DEFINE s == sessions[a]
    <3>1. s \in Socket /\ att[s].id = a /\ att[s].role = "agent"
      BY <2>2 DEF SessionIndex
    <3>2. /\ att'[s].id = a /\ \A v \in Socket : v # s => att'[v] = att[v]
      BY <1>7, <2>2, <3>1 DEF NetworkMetadataInferred, AgentAttachment
    <3> QED BY <1>a, <2>1, <3>1, <3>2
  <2>3. CASE ~(sessions[a] # None /\ sessionRoles[a] = "agent")
    BY <1>7, <1>a, <2>1, <2>3 DEF NetworkMetadataInferred
  <2> QED BY <2>2, <2>3
<1>8. ASSUME NEW a \in Agent, RemoveClient(a) PROVE OpenAgentRegistered'
  <2>1. ASSUME NEW v \in Socket, conn'[v] = "open", att'[v].role = "agent"
        PROVE  /\ conn[v] = "open" /\ att'[v] = att[v]
               /\ sessions'[att[v].id] = sessions[att[v].id]
    <3>1. conn[v] = "open" /\ att'[v] = att[v] /\ sessions[a] # v
      BY <1>8, <2>1 DEF RemoveClient, Close
    <3>2. sessions[att[v].id] = v
      BY <2>1, <3>1 DEF OpenAgentRegistered
    <3> QED BY <1>8, <3>1, <3>2 DEF RemoveClient
  <2> QED BY <1>a, <2>1
<1>9. ASSUME NEW a \in Agent, NEW hidden \in BOOLEAN, UpdateClientMeta(a, hidden)
      PROVE  OpenAgentRegistered'
  <2>1. UNCHANGED <<conn, sessions>>
    BY <1>9 DEF UpdateClientMeta
  <2>2. CASE sessions[a] # None /\ conn[sessions[a]] = "open"
    <3> DEFINE s == sessions[a]
    <3>1. s \in Socket /\ att[s].id = a /\ att[s].role = "agent"
      BY <2>2 DEF SessionIndex, AcceptedViewersKept, Role
    <3>2. /\ att'[s].id = a /\ \A v \in Socket : v # s => att'[v] = att[v]
      BY <1>9, <2>2, <3>1 DEF UpdateClientMeta, AgentAttachment
    <3> QED BY <1>a, <2>1, <3>1, <3>2
  <2>3. CASE ~(sessions[a] # None /\ conn[sessions[a]] = "open")
    BY <1>9, <1>a, <2>1, <2>3 DEF UpdateClientMeta
  <2> QED BY <2>2, <2>3
<1>10. CASE AlarmStart
  <2>1. att' = att /\ \A v \in Socket : conn'[v] = "open" => conn[v] = "open"
    BY <1>10 DEF AlarmStart
  <2>2. \A b \in Agent : sessions'[b] = sessions[b]
    BY <1>10 DEF AlarmStart, LapsedViewers
  <2>3. \A v \in Socket : conn[v] = "open" /\ att[v].role = "agent" => att[v].id \in Agent
    BY DEF AcceptedViewersKept
  <2> QED BY <1>a, <2>1, <2>2, <2>3
<1>11. CASE AlarmFinish \/ AlarmFails
  BY <1>11, <1>a DEF AlarmFinish, AlarmFails, memory
<1>12. CASE Tick
  <2>1. UNCHANGED <<conn, sessions>>
    BY <1>12 DEF Tick
  <2>2. \A s \in Socket : conn[s] # "free" =>
          att'[s].id = att[s].id /\ att'[s].role = att[s].role
    BY <1>12, TickedAttachment DEF Tick, AcceptedViewersKept
  <2> QED BY <1>a, <2>1, <2>2
<1> HIDE DEF TypeOK, Id, IndexInv
<1> QED
  BY <1>1, <1>2, <1>3, <1>4, <1>5, <1>6, <1>7, <1>8, <1>9, <1>10, <1>11, <1>12
     DEF Running, Unreported, Watching, HttpReporting

\* A report over HTTP sets the alarm by its own deadline and by every other, and
\* nothing else gives a node a deadline.
LEMMA ClientArmedStep ==
  ASSUME TypeOK, TypeOK', ClientDeadlineArmed, Running
  PROVE  ClientDeadlineArmed'
<1> USE HubAssumption, NoneAssumption DEF Id, Deadline
<1>0. \A b \in Agent : /\ clients[b] # None => clients[b].exp \in Nat \cup {None}
                       /\ clients'[b] # None => clients'[b].exp \in Nat \cup {None}
  BY DEF TypeOK, ClientState
<1>a. ASSUME NEW deadlines, None \notin deadlines, SetAlarm(deadlines),
             \A b \in Agent : clients'[b] # None /\ clients'[b].exp \notin {None, 0} =>
                                clients'[b].exp \in deadlines
      PROVE  ClientDeadlineArmed'
  <2>1. ASSUME NEW b \in Agent, clients'[b] # None, clients'[b].exp \notin {None, 0}
        PROVE  alarm' \in deadlines /\ alarm' <= clients'[b].exp
    BY <1>a, <2>1 DEF SetAlarm
  <2> QED BY <1>a, <2>1 DEF ClientDeadlineArmed, Online
<1>b. ASSUME alarm' = alarm, alarmRunning' = alarmRunning,
             \A b \in Agent : clients'[b] # None =>
                \/ clients'[b].exp = None
                \/ clients[b] # None /\ clients'[b].exp = clients[b].exp
      PROVE  ClientDeadlineArmed'
  BY <1>b DEF ClientDeadlineArmed, Online
<1>1. ASSUME NEW a \in Agent, NEW s \in Socket, NEW hidden \in BOOLEAN,
             AgentConnect(a, s, hidden)
      PROVE  ClientDeadlineArmed'
  BY <1>1, <1>b DEF AgentConnect
<1>2. ASSUME NEW s \in Socket, NEW ip \in IP, NEW includeHidden \in BOOLEAN,
             NEW ttl \in ViewerTtls, ViewerConnect(s, ip, includeHidden, ttl)
      PROVE  ClientDeadlineArmed'
  BY <1>2, <1>a DEF ViewerConnect, ScheduleExpiryAlarm, DeadlinesAfter
<1>3. ASSUME NEW a \in Agent, NEW hidden \in BOOLEAN, NEW ttl \in HttpTtls,
             NEW skew \in 0..MaxSkew, HttpReport(a, hidden, ttl, skew)
      PROVE  ClientDeadlineArmed'
  BY <1>3, <1>a DEF HttpReport, ScheduleExpiryAlarm, DeadlinesAfter
<1>4. ASSUME NEW s \in Socket, SocketClosed(s) PROVE ClientDeadlineArmed'
  <2>1. \A b \in Agent : clients'[b] # None => clients'[b] = clients[b]
    BY <1>4 DEF SocketClosed, TypeOK
  <2> QED BY <1>4, <1>b, <2>1 DEF SocketClosed
<1>5. ASSUME NEW s \in Socket, OversizedMessage(s) PROVE ClientDeadlineArmed'
  BY <1>5, <1>b DEF OversizedMessage, memory
<1>6. ASSUME NEW s \in Socket, AgentReport(s) PROVE ClientDeadlineArmed'
  <2>1. \A b \in Agent : clients'[b].exp = None \/ clients'[b] = clients[b]
    BY <1>6 DEF AgentReport, TypeOK
  <2> QED BY <1>6, <1>b, <2>1 DEF AgentReport
<1>7. ASSUME NEW a \in Agent, NetworkMetadataInferred(a) PROVE ClientDeadlineArmed'
  BY <1>7, <1>b DEF NetworkMetadataInferred, memory
<1>8. ASSUME NEW a \in Agent, RemoveClient(a) PROVE ClientDeadlineArmed'
  <2>1. \A b \in Agent : clients'[b] # None => clients'[b] = clients[b]
    BY <1>8 DEF RemoveClient, TypeOK
  <2> QED BY <1>8, <1>b, <2>1 DEF RemoveClient
<1>9. ASSUME NEW a \in Agent, NEW hidden \in BOOLEAN, UpdateClientMeta(a, hidden)
      PROVE  ClientDeadlineArmed'
  <2>1. ASSUME NEW b \in Agent, clients'[b] # None
        PROVE  clients[b] # None /\ clients'[b].exp = clients[b].exp
    <3>1. clients' = [clients EXCEPT ![a].hidden = hidden] /\ clients[a] # None
      BY <1>9 DEF UpdateClientMeta, Online
    <3>2. clients[a] \in ClientState
      BY <3>1 DEF TypeOK
    <3>3. [clients[a] EXCEPT !.hidden = hidden].exp = clients[a].exp
      BY <3>2 DEF ClientState
    <3> QED BY <2>1, <3>1, <3>3 DEF TypeOK
  <2> QED BY <1>9, <1>b, <2>1 DEF UpdateClientMeta
<1>10. CASE AlarmStart
  BY <1>10 DEF AlarmStart, ClientDeadlineArmed
<1>11. CASE AlarmFinish
  BY <1>11, <1>a DEF AlarmFinish, DeadlinesAfter
<1>12. CASE AlarmFails
  <2>1. alarm' = 0 /\ clients' = clients
    BY <1>12 DEF AlarmFails, memory
  <2> QED BY <1>0, <2>1 DEF ClientDeadlineArmed, Online
<1>13. CASE Tick
  <2>1. alarm' = Sooner(alarm) /\ alarmRunning' = alarmRunning
    BY <1>13 DEF Tick
  <2>2. ASSUME NEW b \in Agent, clients'[b] # None
        PROVE  clients[b] # None /\ clients'[b].exp = Sooner(clients[b].exp)
    <3>1. clients[b] # None /\ clients'[b] = [clients[b] EXCEPT !.exp = Sooner(@)]
      BY <1>13, <2>2 DEF Tick, Online
    <3>2. clients[b] \in ClientState
      BY <3>1 DEF TypeOK
    <3> QED BY <3>1, <3>2 DEF ClientState
  <2>3. alarm \in Nat \cup {None}
    BY DEF TypeOK
  <2> QED BY <1>0, <2>1, <2>2, <2>3 DEF ClientDeadlineArmed, Sooner, Online
<1> HIDE DEF Id
<1> QED
  BY <1>1, <1>2, <1>3, <1>4, <1>5, <1>6, <1>7, <1>8, <1>9, <1>10, <1>11, <1>12, <1>13
     DEF Running, Unreported, Watching, HttpReporting

\* A viewer whose connection is open and registered: the audience of a broadcast.
Watches(s) == sessionRoles[s] = "viewer" /\ sessions[s] = s /\ conn[s] = "open"

\* What the screen of s has to say of node a.
ScreenRight(s, a) ==
    /\ att[s].includeHidden =>
         /\ Online(a) /\ ~Lapsed(clients[a].exp) /\ a \notin ahead => a \in shown[s]
         /\ a \in shown[s] => Online(a)
    /\ ~att[s].includeHidden =>
         (IsVisibleClient(clients[a]) /\ a \notin ahead => a \in shown[s])

Screens == \A s \in Socket, a \in Agent : Watches(s) => ScreenRight(s, a)

\* Both screens' properties, for one viewer and one node at a time.
LEMMA ScreensMean ==
  ASSUME TypeOK, ~evicted
  PROVE  Screens <=> AdminScreenUntilEvicted /\ PublicScreenUntilEvicted
<1>1. Audience("admin") = {s \in Socket : Watches(s) /\ att[s].includeHidden}
  BY DEF Audience, Watches
<1>2. Audience("public") = {s \in Socket : Watches(s) /\ ~att[s].includeHidden}
  BY DEF Audience, Watches
<1>3. /\ Snapshot(TRUE) = {a \in Agent : Online(a) /\ ~Lapsed(clients[a].exp)}
      /\ Snapshot(FALSE) = {a \in Agent : IsVisibleClient(clients[a])}
  BY DEF Snapshot, IsVisibleClient, Online
<1>4. \A s \in Socket : \A a \in shown[s] : a \in Agent
  BY DEF TypeOK
<1>5. AdminScreenUntilEvicted <=>
        \A s \in Socket, a \in Agent : Watches(s) /\ att[s].includeHidden =>
          /\ Online(a) /\ ~Lapsed(clients[a].exp) /\ a \notin ahead => a \in shown[s]
          /\ a \in shown[s] => Online(a)
  BY <1>1, <1>3, <1>4 DEF AdminScreenUntilEvicted
<1>6. PublicScreenUntilEvicted <=>
        \A s \in Socket, a \in Agent : Watches(s) /\ ~att[s].includeHidden =>
          (IsVisibleClient(clients[a]) /\ a \notin ahead => a \in shown[s])
  BY <1>2, <1>3 DEF PublicScreenUntilEvicted
<1> QED BY <1>5, <1>6 DEF Screens, ScreenRight

\* One tick leaves what a viewer may see as it was.
LEMMA TickedAudience ==
  ASSUME NEW r \in Attachment
  PROVE  [r EXCEPT !.exp = Sooner(@)].includeHidden = r.includeHidden
BY DEF Attachment

\* No step but its own upgrade makes a socket watch, or changes what it may see.
LEMMA WatchStep ==
  ASSUME IndexInv, Running, NEW v \in Socket, Watches(v)'
  PROVE  \/ Watches(v) /\ att'[v].includeHidden = att[v].includeHidden
         \/ \E ip \in IP, includeHidden \in BOOLEAN, ttl \in ViewerTtls :
              ViewerConnect(v, ip, includeHidden, ttl)
<1> DEFINE Before == Watches(v) /\ att'[v].includeHidden = att[v].includeHidden
<1> USE HubAssumption, NoneAssumption DEF IndexInv, TypeOK, Id, Watches
<1>0. v \notin Agent
  OBVIOUS
<1>1. ASSUME NEW a \in Agent, NEW s \in Socket, NEW hidden \in BOOLEAN,
             AgentConnect(a, s, hidden)
      PROVE  Before
  <2>1. sessions[v] = v /\ sessionRoles[v] = "viewer"
    BY <1>0, <1>1 DEF AgentConnect
  <2>2. v # s
    BY <1>1, <2>1 DEF AgentConnect, SessionIndex
  <2> QED BY <1>1, <2>1, <2>2 DEF AgentConnect, Close
<1>2. ASSUME NEW s \in Socket, NEW ip \in IP, NEW includeHidden \in BOOLEAN,
             NEW ttl \in ViewerTtls, ViewerConnect(s, ip, includeHidden, ttl), v # s
      PROVE  Before
  BY <1>2 DEF ViewerConnect
<1>3. ASSUME NEW a \in Agent, NEW hidden \in BOOLEAN, NEW ttl \in HttpTtls,
             NEW skew \in 0..MaxSkew, HttpReport(a, hidden, ttl, skew)
      PROVE  Before
  BY <1>3 DEF HttpReport
<1>4. ASSUME NEW s \in Socket, SocketClosed(s) PROVE Before
  <2>1. v # s
    BY <1>4 DEF SocketClosed
  <2>2. sessions[v] = v /\ sessionRoles[v] = "viewer"
    BY <1>4 DEF SocketClosed
  <2> QED BY <1>4, <2>1, <2>2 DEF SocketClosed
<1>5. ASSUME NEW s \in Socket, OversizedMessage(s) PROVE Before
  BY <1>5 DEF OversizedMessage, Close, memory
<1>a. ASSUME NEW s \in Socket, \A u \in Socket : u # s => att'[u] = att[u],
             att[s].role = "agent",
             UNCHANGED <<conn, sessions, sessionRoles>>
      PROVE  Before
  BY <1>a DEF SessionIndex
<1>6. ASSUME NEW s \in Socket, AgentReport(s) PROVE Before
  BY <1>6, <1>a DEF AgentReport
<1>7. ASSUME NEW a \in Agent, NetworkMetadataInferred(a) PROVE Before
  <2>1. UNCHANGED <<conn, sessions, sessionRoles>>
    BY <1>7 DEF NetworkMetadataInferred, memory
  <2>2. CASE sessions[a] # None /\ sessionRoles[a] = "agent"
    <3>1. sessions[a] \in Socket /\ att[sessions[a]].role = "agent"
      BY <2>2 DEF SessionIndex
    <3> QED BY <1>7, <1>a, <2>1, <2>2, <3>1 DEF NetworkMetadataInferred
  <2>3. CASE ~(sessions[a] # None /\ sessionRoles[a] = "agent")
    BY <1>7, <2>1, <2>3 DEF NetworkMetadataInferred
  <2> QED BY <2>2, <2>3
<1>8. ASSUME NEW a \in Agent, RemoveClient(a) PROVE Before
  BY <1>0, <1>8 DEF RemoveClient, Close
<1>9. ASSUME NEW a \in Agent, NEW hidden \in BOOLEAN, UpdateClientMeta(a, hidden)
      PROVE  Before
  <2>1. UNCHANGED <<conn, sessions, sessionRoles>>
    BY <1>9 DEF UpdateClientMeta
  <2>2. CASE sessions[a] # None /\ conn[sessions[a]] = "open"
    <3>1. sessions[a] \in Socket /\ att[sessions[a]].role = "agent"
      BY <2>2 DEF SessionIndex, AcceptedViewersKept, Role
    <3> QED BY <1>9, <1>a, <2>1, <2>2, <3>1 DEF UpdateClientMeta
  <2>3. CASE ~(sessions[a] # None /\ conn[sessions[a]] = "open")
    BY <1>9, <2>1, <2>3 DEF UpdateClientMeta
  <2> QED BY <2>2, <2>3
<1>10. AlarmStart => Before
  BY DEF AlarmStart
<1>11. AlarmFinish \/ AlarmFails => Before
  BY DEF AlarmFinish, AlarmFails, memory
<1>12. ASSUME Tick PROVE Before
  <2>1. UNCHANGED <<conn, sessions, sessionRoles>>
    BY <1>12 DEF Tick
  <2>2. att[v] \in Attachment /\ att'[v] = [att[v] EXCEPT !.exp = Sooner(@)]
    BY <1>12, <2>1 DEF Tick, AcceptedViewersKept
  <2> QED BY <2>1, <2>2, TickedAudience
<1> DEFINE Upgraded == \E ip \in IP, includeHidden \in BOOLEAN, ttl \in ViewerTtls :
                         ViewerConnect(v, ip, includeHidden, ttl)
<1> HIDE DEF TypeOK, Id, IndexInv, Watches, Before
<1>13. ASSUME NEW s \in Socket, NEW ip \in IP, NEW includeHidden \in BOOLEAN,
              NEW ttl \in ViewerTtls, ViewerConnect(s, ip, includeHidden, ttl)
       PROVE  Before \/ Upgraded
  BY <1>2, <1>13
<1> HIDE DEF Upgraded
<1>14. Before \/ Upgraded
  BY <1>1, <1>3, <1>4, <1>5, <1>6, <1>7, <1>8, <1>9, <1>10, <1>11, <1>12, <1>13
     DEF Running, Unreported, Watching, HttpReporting
<1> QED BY <1>14 DEF Before, Upgraded

\* Every step tells a viewer's screen what it changes of the nodes the viewer may
\* see (broadcastToViewers), but for a report whose own time is past its deadline, and
\* an upgrade starts with all of them (buildSnapshot).
LEMMA ScreensStep ==
  ASSUME IndexInv, Screens, HistoryNext, ~evicted'
  PROVE  Screens'
<1> SUFFICES ASSUME NEW v \in Socket, NEW b \in Agent, Watches(v)'
             PROVE  ScreenRight(v, b)'
  BY DEF Screens
<1> USE HubAssumption, NoneAssumption
<1>r. Running
  BY DEF HistoryNext, Running, HttpReporting
<1>t. /\ shown \in [Socket -> SUBSET Agent] /\ clients \in [Agent -> ClientState \cup {None}]
      /\ \A s \in Socket : conn[s] # "free" => att[s] # None
      /\ \A s \in Socket : att[s] # None => att[s].id \in Id
  BY DEF IndexInv, TypeOK, AcceptedViewersKept, Attachment
<1>u. CASE \E ip \in IP, includeHidden \in BOOLEAN, ttl \in ViewerTtls :
             ViewerConnect(v, ip, includeHidden, ttl)
  <2>1. PICK ip \in IP, includeHidden \in BOOLEAN, ttl \in ViewerTtls :
          ViewerConnect(v, ip, includeHidden, ttl)
    BY <1>u
  <2>2. att' = [att EXCEPT ![v] = ViewerAttachment(v, ip, includeHidden, ttl)]
        /\ att \in [Socket -> Attachment \cup {None}]
    BY <2>1 DEF ViewerConnect, IndexInv, TypeOK
  <2>3. att'[v].includeHidden = includeHidden
    BY <2>2 DEF ViewerAttachment
  <2>4. clients' = clients /\ shown'[v] = Snapshot(includeHidden)
    BY <1>t, <2>1 DEF ViewerConnect
  <2> QED BY <2>3, <2>4 DEF ScreenRight, Snapshot, IsVisibleClient, Online
<1>v. CASE Watches(v) /\ att'[v].includeHidden = att[v].includeHidden
  <2> DEFINE Sees == att[v].includeHidden
  <2>0. ScreenRight(v, b)
    BY <1>v DEF Screens
  <2>1. /\ v \in Audience("all")
        /\ v \in Audience("admin") <=> Sees
        /\ v \in Audience("public") <=> ~Sees
    BY <1>v DEF Audience, Watches
  <2>2. \A hidden \in BOOLEAN : v \in Audience(AudienceOf(hidden)) <=> (Sees \/ ~hidden)
    BY <2>1 DEF AudienceOf
  <2>3. \A a \in Agent : clients[a] # None => clients[a].hidden \in BOOLEAN
    BY <1>t DEF ClientState
  <2>a. ASSUME clients'[b] = clients[b], b \in shown'[v] <=> b \in shown[v],
               b \in ahead => b \in ahead'
        PROVE  ScreenRight(v, b)'
    BY <1>v, <2>0, <2>a DEF ScreenRight, Online
  \* The node is told of, to those who may see it.
  <2>b. ASSUME clients'[b] # None, clients'[b].hidden \in BOOLEAN,
               Sees \/ ~clients'[b].hidden => b \in shown'[v]
        PROVE  ScreenRight(v, b)'
    BY <1>v, <2>b DEF ScreenRight, Online, IsVisibleClient
  \* The node is gone, and administrators are told.
  <2>c. ASSUME clients'[b] = None, Sees => b \notin shown'[v]
        PROVE  ScreenRight(v, b)'
    BY <1>v, <2>c DEF ScreenRight, Online, IsVisibleClient
  \* The node is there, and its report lay past its own deadline.
  <2>d. ASSUME clients'[b] # None, b \in ahead' PROVE ScreenRight(v, b)'
    BY <1>v, <2>d DEF ScreenRight, Online
  <2>p. ASSUME NEW a \in Agent, NEW hidden \in BOOLEAN, PushUpdate(a, AudienceOf(hidden))
        PROVE  shown'[v] = IF Sees \/ ~hidden THEN shown[v] \cup {a} ELSE shown[v]
    BY <1>t, <2>2, <2>p DEF PushUpdate
  <2>r. ASSUME NEW a \in Agent, NEW hidden \in BOOLEAN, PushRemove(a, AudienceOf(hidden))
        PROVE  shown'[v] = IF Sees \/ ~hidden THEN shown[v] \ {a} ELSE shown[v]
    BY <1>t, <2>2, <2>r DEF PushRemove
  <2> HIDE DEF Sees
  <2>4. ASSUME NEW a \in Agent, NEW s \in Socket, NEW hidden \in BOOLEAN,
               AgentConnect(a, s, hidden), ahead' = ahead
        PROVE  ScreenRight(v, b)'
    BY <2>a, <2>4 DEF AgentConnect
  <2>5. ASSUME NEW s \in Socket, NEW ip \in IP, NEW includeHidden \in BOOLEAN,
               NEW ttl \in ViewerTtls, ViewerConnect(s, ip, includeHidden, ttl), ahead' = ahead
        PROVE  ScreenRight(v, b)'
    <3>1. v # s
      BY <1>v, <2>5 DEF ViewerConnect, Watches
    <3> QED BY <1>t, <2>a, <2>5, <3>1 DEF ViewerConnect
  <2>6. ASSUME NEW a \in Agent, NEW hidden \in BOOLEAN, NEW ttl \in HttpTtls,
               NEW skew \in 0..MaxSkew, HttpReport(a, hidden, ttl, skew),
               ahead' = IF ~hidden /\ ttl <= skew THEN ahead \cup {a} ELSE ahead \ {a}
        PROVE  ScreenRight(v, b)'
    <3>1. clients' = [clients EXCEPT ![a] = [hidden |-> hidden, exp |-> ttl]]
      BY <2>6 DEF HttpReport
    <3>2. [hidden |-> hidden, exp |-> ttl] \in ClientState
      BY DEF ClientState, Deadline
    <3>3. a = b => clients'[b] # None /\ clients'[b].hidden = hidden
      BY <1>t, <3>1, <3>2
    <3>4. a # b => clients'[b] = clients[b] /\ (b \in ahead => b \in ahead')
      BY <1>t, <2>6, <3>1
    <3>5. CASE ~(~hidden /\ ttl <= skew)
      <4>1. PushUpdate(a, AudienceOf(hidden))
        BY <2>6, <3>5 DEF HttpReport
      <4>2. shown'[v] = IF Sees \/ ~hidden THEN shown[v] \cup {a} ELSE shown[v]
        BY <2>p, <4>1
      <4>3. CASE a = b
        BY <2>b, <3>3, <4>2, <4>3
      <4>4. CASE a # b
        BY <2>a, <3>4, <4>2, <4>4
      <4> QED BY <4>3, <4>4
    <3>6. CASE ~hidden /\ ttl <= skew
      <4>1. ~(hidden \/ ttl > skew)
        <5>1. ttl \in Nat /\ skew \in Nat
          OBVIOUS
        <5> QED BY <3>6, <5>1
      <4>2. PushRemove(a, "public") \/ UNCHANGED shown
        BY <2>6, <4>1 DEF HttpReport
      <4>3. shown'[v] \in {shown[v], shown[v] \ {a}}
        BY <1>t, <4>2 DEF PushRemove
      <4>4. CASE a = b
        BY <2>6, <2>d, <3>3, <3>6, <4>4
      <4>5. CASE a # b
        BY <2>a, <3>4, <4>3, <4>5
      <4> QED BY <4>4, <4>5
    <3> QED BY <3>5, <3>6
  <2>7. ASSUME NEW s \in Socket, SocketClosed(s), ahead' = ahead
         PROVE  ScreenRight(v, b)'
    <3>1. v # s
      BY <2>7 DEF SocketClosed, Watches, IndexInv, TypeOK
    <3>2. CASE sessions[att[s].id] = s /\ att[s].role = "agent" /\ Online(att[s].id)
      <4> DEFINE a == att[s].id
      <4>1. a \in Agent
        BY <2>7, <3>2 DEF SocketClosed, IndexInv, AcceptedViewersKept
      <4>2. clients' = [clients EXCEPT ![a] = None] /\ PushRemove(a, AudienceOf(clients[a].hidden))
        BY <2>7, <3>2 DEF SocketClosed
      <4>3. clients[a].hidden \in BOOLEAN
        BY <2>3, <3>2, <4>1 DEF Online
      <4> HIDE DEF a
      <4>4. shown'[v] = IF Sees \/ ~clients[a].hidden THEN shown[v] \ {a} ELSE shown[v]
        BY <2>r, <4>1, <4>2, <4>3
      <4>5. CASE a = b
        BY <1>t, <2>c, <4>2, <4>4, <4>5
      <4>6. CASE a # b
        BY <1>t, <2>a, <2>7, <4>1, <4>2, <4>4, <4>6
      <4> QED BY <4>5, <4>6
    <3>3. CASE ~(sessions[att[s].id] = s /\ att[s].role = "agent" /\ Online(att[s].id))
      BY <1>t, <2>a, <2>7, <3>1, <3>3 DEF SocketClosed
    <3> QED BY <3>2, <3>3
  <2>8. ASSUME NEW s \in Socket, OversizedMessage(s), ahead' = ahead
         PROVE  ScreenRight(v, b)'
    BY <2>a, <2>8 DEF OversizedMessage, memory
  <2>9. ASSUME NEW s \in Socket, AgentReport(s), ahead' = ahead \ {att[s].id}
        PROVE  ScreenRight(v, b)'
    <3> DEFINE a == att[s].id
               hidden == att[s].hidden
    <3>0. ahead' = ahead \ {a}
      BY <2>9
    <3>1. a \in Agent /\ att[s] \in Attachment
      BY <2>9 DEF AgentReport, IndexInv, TypeOK, AcceptedViewersKept
    <3>2. hidden \in BOOLEAN
      BY <3>1 DEF Attachment
    <3>3. /\ clients' = [clients EXCEPT ![a] = [hidden |-> hidden, exp |-> None]]
          /\ PushUpdate(a, AudienceOf(hidden))
      BY <2>9 DEF AgentReport
    <3> HIDE DEF a, hidden
    <3>4. shown'[v] = IF Sees \/ ~hidden THEN shown[v] \cup {a} ELSE shown[v]
      BY <2>p, <3>1, <3>2, <3>3
    <3>5. CASE a = b
      <4>1. clients'[b] = [hidden |-> hidden, exp |-> None]
        BY <1>t, <3>3, <3>5
      <4>2. [hidden |-> hidden, exp |-> None] \in ClientState
        BY <3>2 DEF ClientState, Deadline
      <4>3. clients'[b] # None /\ clients'[b].hidden = hidden
        BY <4>1, <4>2
      <4> QED BY <2>b, <3>2, <3>4, <3>5, <4>3
    <3>6. CASE a # b
      BY <1>t, <2>a, <3>0, <3>1, <3>3, <3>4, <3>6
    <3> QED BY <3>5, <3>6
  <2>10. ASSUME NEW a \in Agent, NetworkMetadataInferred(a), ahead' = ahead
         PROVE  ScreenRight(v, b)'
    <3>1. clients' = clients /\ clients[a] # None
      BY <2>10 DEF NetworkMetadataInferred, memory, Online
    <3>2. CASE IsVisibleClient(clients[a]) \/ clients[a].hidden
      <4>1. PushUpdate(a, AudienceOf(clients[a].hidden))
        BY <2>10, <3>2 DEF NetworkMetadataInferred
      <4>2. shown'[v] = IF Sees \/ ~clients[a].hidden THEN shown[v] \cup {a} ELSE shown[v]
        BY <2>p, <2>3, <3>1, <4>1
      <4>3. CASE a = b
        BY <2>b, <2>3, <3>1, <4>2, <4>3
      <4>4. CASE a # b
        BY <2>a, <2>10, <3>1, <4>2, <4>4
      <4> QED BY <4>3, <4>4
    <3>3. CASE ~(IsVisibleClient(clients[a]) \/ clients[a].hidden)
      BY <2>a, <2>10, <3>1, <3>3 DEF NetworkMetadataInferred
    <3> QED BY <3>2, <3>3
  <2>11. ASSUME NEW a \in Agent, RemoveClient(a), ahead' = ahead
         PROVE  ScreenRight(v, b)'
    <3>1. clients' = [clients EXCEPT ![a] = None]
      BY <2>11 DEF RemoveClient
    <3>2. CASE Online(a)
      <4>1. PushRemove(a, AudienceOf(clients[a].hidden)) /\ clients[a] # None
        BY <2>11, <3>2 DEF RemoveClient, Online
      <4>2. shown'[v] = IF Sees \/ ~clients[a].hidden THEN shown[v] \ {a} ELSE shown[v]
        BY <2>r, <2>3, <4>1
      <4>3. CASE a = b
        BY <1>t, <2>c, <3>1, <4>2, <4>3
      <4>4. CASE a # b
        BY <1>t, <2>a, <2>11, <3>1, <4>2, <4>4
      <4> QED BY <4>3, <4>4
    <3>3. CASE ~Online(a)
      <4>1. clients[a] = None /\ shown' = shown
        BY <2>11, <3>3 DEF RemoveClient, Online
      <4>2. clients'[b] = clients[b]
        BY <1>t, <3>1, <4>1
      <4> QED BY <2>a, <2>11, <4>1, <4>2
    <3> QED BY <3>2, <3>3
  <2>12. ASSUME NEW a \in Agent, NEW hidden \in BOOLEAN, UpdateClientMeta(a, hidden), ahead' = ahead
         PROVE  ScreenRight(v, b)'
    <3>1. clients' = [clients EXCEPT ![a].hidden = hidden] /\ clients[a] # None
      BY <2>12 DEF UpdateClientMeta, Online
    <3>2. clients[a] \in ClientState
      BY <1>t, <3>1
    <3>3. shown'[v] = IF Sees /\ (~hidden \/ ~clients[a].hidden) THEN shown[v] \cup {a}
                      ELSE IF ~Sees /\ hidden /\ ~clients[a].hidden THEN shown[v] \ {a}
                      ELSE IF ~Sees /\ ~hidden THEN shown[v] \cup {a}
                      ELSE shown[v]
      BY <2>1, <2>12 DEF UpdateClientMeta
    <3>4. CASE a = b
      <4>1. /\ [clients[a] EXCEPT !.hidden = hidden] \in ClientState
            /\ [clients[a] EXCEPT !.hidden = hidden].hidden = hidden
            /\ [clients[a] EXCEPT !.hidden = hidden].exp = clients[a].exp
        BY <3>2 DEF ClientState
      <4>2. clients'[b] # None /\ clients'[b].hidden = hidden /\ clients'[b].exp = clients[b].exp
        BY <1>t, <3>1, <3>4, <4>1
      <4>3. CASE Sees /\ hidden /\ clients[a].hidden
        <5>1. shown'[v] = shown[v]
          BY <3>3, <4>3
        <5> QED BY <1>v, <2>0, <2>12, <3>1, <3>4, <4>2, <4>3, <5>1
                DEF ScreenRight, Online, IsVisibleClient, Sees
      <4>4. CASE ~(Sees /\ hidden /\ clients[a].hidden)
        BY <2>b, <3>3, <3>4, <4>2, <4>4
      <4> QED BY <4>3, <4>4
    <3>5. CASE a # b
      <4>1. clients'[b] = clients[b]
        BY <1>t, <3>1, <3>5
      <4> QED BY <2>a, <2>12, <3>3, <3>5, <4>1
    <3> QED BY <3>4, <3>5
  <2>13. AlarmStart /\ ahead' = ahead => ScreenRight(v, b)'
    <3> SUFFICES ASSUME AlarmStart, ahead' = ahead PROVE ScreenRight(v, b)'
      OBVIOUS
    <3>1. /\ clients'[b] = IF b \in LapsedClients THEN None ELSE clients[b]
          /\ shown'[v] = shown[v] \ {a \in LapsedClients :
                                        v \in Audience(AudienceOf(clients[a].hidden))}
      BY DEF AlarmStart
    <3>2. CASE b \in LapsedClients
      <4>1. clients[b] # None /\ clients[b].hidden \in BOOLEAN
        BY <2>3, <3>2 DEF LapsedClients, Online
      <4>2. Sees => b \notin shown'[v]
        BY <2>2, <3>1, <3>2, <4>1
      <4> QED BY <2>c, <3>1, <3>2, <4>2
    <3>3. CASE b \notin LapsedClients
      BY <2>a, <3>1, <3>3
    <3> QED BY <3>2, <3>3
  <2>14. (AlarmFinish \/ AlarmFails) /\ ahead' = ahead => ScreenRight(v, b)'
    BY <2>a DEF AlarmFinish, AlarmFails, memory
  <2>15. Tick /\ ahead' = ahead => ScreenRight(v, b)'
    <3> SUFFICES ASSUME Tick, ahead' = ahead PROVE ScreenRight(v, b)'
      OBVIOUS
    <3>1. /\ shown' = shown
          /\ clients'[b] = IF clients[b] # None THEN [clients[b] EXCEPT !.exp = Sooner(@)] ELSE None
      BY DEF Tick, Online
    <3>2. CASE clients[b] = None
      BY <2>a, <3>1, <3>2
    <3>3. CASE clients[b] # None
      <4>1. clients[b] \in ClientState
        BY <1>t, <3>3
      <4>2. clients[b].exp \in Deadline /\ Sooner(clients[b].exp) \in Deadline
        BY <4>1, SoonerType DEF ClientState
      <4>3. /\ [clients[b] EXCEPT !.exp = Sooner(@)] \in ClientState
            /\ [clients[b] EXCEPT !.exp = Sooner(@)].hidden = clients[b].hidden
            /\ [clients[b] EXCEPT !.exp = Sooner(@)].exp = Sooner(clients[b].exp)
        BY <4>1, <4>2 DEF ClientState
      <4>4. /\ clients'[b] # None /\ clients'[b].hidden = clients[b].hidden
            /\ clients[b].exp = 0 => clients'[b].exp = 0
        BY <3>1, <3>3, <4>2, <4>3, SoonerType
      <4> QED BY <1>v, <2>0, <3>1, <3>3, <4>4 DEF ScreenRight, Online, IsVisibleClient, Lapsed
    <3> QED BY <3>2, <3>3
  <2>16. CASE Unreported /\ UNCHANGED ahead
    BY <2>4, <2>5, <2>7, <2>8, <2>10, <2>11, <2>12, <2>13, <2>14, <2>15, <2>16
       DEF Unreported, Watching
  <2> QED BY <2>6, <2>9, <2>16 DEF HistoryNext
<1> QED BY <1>r, <1>u, <1>v, WatchStep

\* A history of evictions adds nothing to what the hub does.
LEMMA HistoryIsSpec == HistorySpec => Spec
<1>1. [HistoryNext]_historyVars => [Next]_vars
  BY DEF HistoryNext, Next, Running, HttpReporting, historyVars
<1> QED BY <1>1, PTL DEF HistorySpec, Spec

LEMMA HistoryIndexed == HistorySpec => []IndexInv
BY HistoryIsSpec, IndexInvariant, PTL

LEMMA HistoryInit ==
  Init => OpenAgentRegistered /\ ClientDeadlineArmed /\ Screens
<1> USE HubAssumption DEF Init, Id
<1>1. Init => OpenAgentRegistered
  BY DEF OpenAgentRegistered
<1>2. Init => ClientDeadlineArmed
  BY DEF ClientDeadlineArmed, Online
<1>3. Init => Screens
  BY DEF Screens, Watches
<1> QED BY <1>1, <1>2, <1>3

\* OneAgentUntilEvicted: until an eviction, an agent's upgrade closes the connection
\* it replaces and removeClient the one it forgets, so that no two connections are
\* open for one node, whatever the number of sockets.
THEOREM OneAgentPerNode == HistorySpec => []OneAgentUntilEvicted
<1>1. Init /\ evicted = FALSE => OneAgentUntilEvicted
  BY HistoryInit DEF OneAgentUntilEvicted
<1>2. IndexInv /\ OneAgentUntilEvicted /\ [HistoryNext]_historyVars
        => OneAgentUntilEvicted'
  <2> SUFFICES ASSUME IndexInv, OneAgentUntilEvicted, [HistoryNext]_historyVars
               PROVE  OneAgentUntilEvicted'
    OBVIOUS
  <2>1. CASE Running /\ UNCHANGED evicted
    BY <2>1, AgentStep DEF OneAgentUntilEvicted
  <2>2. CASE evicted' = TRUE
    BY <2>2 DEF OneAgentUntilEvicted
  <2>3. CASE UNCHANGED historyVars
    BY <2>3 DEF OneAgentUntilEvicted, OpenAgentRegistered, historyVars, vars
  <2> QED BY <2>1, <2>2, <2>3 DEF HistoryNext, Running, HttpReporting
<1> QED BY <1>1, <1>2, HistoryIndexed, PTL DEF HistorySpec

\* ClientDeadlineUntilEvicted: until an eviction, scheduleExpiryAlarm and alarm()
\* leave an alarm no later than the deadline of every node that reports over HTTP.
THEOREM ClientDeadlinesArmed == HistorySpec => []ClientDeadlineUntilEvicted
<1>1. Init /\ evicted = FALSE => ClientDeadlineUntilEvicted
  BY HistoryInit DEF ClientDeadlineUntilEvicted
<1>2. IndexInv /\ IndexInv' /\ ClientDeadlineUntilEvicted /\ [HistoryNext]_historyVars
        => ClientDeadlineUntilEvicted'
  <2> SUFFICES ASSUME IndexInv, IndexInv', ClientDeadlineUntilEvicted,
                      [HistoryNext]_historyVars
               PROVE  ClientDeadlineUntilEvicted'
    OBVIOUS
  <2>1. CASE Running /\ UNCHANGED evicted
    BY <2>1, ClientArmedStep DEF ClientDeadlineUntilEvicted, IndexInv
  <2>2. CASE evicted' = TRUE
    BY <2>2 DEF ClientDeadlineUntilEvicted
  <2>3. CASE UNCHANGED historyVars
    BY <2>3 DEF ClientDeadlineUntilEvicted, ClientDeadlineArmed, Online, historyVars, vars
  <2> QED BY <2>1, <2>2, <2>3 DEF HistoryNext, Running, HttpReporting
<1> QED BY <1>1, <1>2, HistoryIndexed, PTL DEF HistorySpec

\* Until an eviction every screen is right.
LEMMA ScreensUntilEvicted == HistorySpec => [](~evicted => Screens)
<1> DEFINE Right == ~evicted => Screens
<1>1. Init /\ evicted = FALSE => Right
  BY HistoryInit
<1>2. IndexInv /\ Right /\ [HistoryNext]_historyVars => Right'
  <2> SUFFICES ASSUME IndexInv, Right, [HistoryNext]_historyVars
               PROVE  Right'
    OBVIOUS
  <2>1. CASE HistoryNext /\ UNCHANGED evicted
    BY <2>1, ScreensStep
  <2>2. CASE evicted' = TRUE
    BY <2>2
  <2>3. CASE UNCHANGED historyVars
    BY <2>3 DEF Screens, Watches, ScreenRight, Online, historyVars, vars
  <2> QED BY <2>1, <2>2, <2>3 DEF HistoryNext, Running, HttpReporting
<1> QED BY <1>1, <1>2, HistoryIndexed, PTL DEF HistorySpec

\* AdminScreenUntilEvicted: until an eviction, an administrator's live connection was
\* told of every node the hub holds (buildSnapshot, broadcastToViewers) but the ones
\* whose latest report lay past its own deadline, and of none it does not hold.
THEOREM AdminScreensExact == HistorySpec => []AdminScreenUntilEvicted
<1>1. IndexInv /\ (~evicted => Screens) => AdminScreenUntilEvicted
  BY ScreensMean DEF IndexInv, AdminScreenUntilEvicted
<1> QED BY <1>1, ScreensUntilEvicted, HistoryIndexed, PTL

\* PublicScreenUntilEvicted: until an eviction, every node online and not hidden is on
\* every public screen, but for a node whose latest report lay past its own deadline.
THEOREM PublicScreensComplete == HistorySpec => []PublicScreenUntilEvicted
<1>1. IndexInv /\ (~evicted => Screens) => PublicScreenUntilEvicted
  BY ScreensMean DEF IndexInv, PublicScreenUntilEvicted
<1> QED BY <1>1, ScreensUntilEvicted, HistoryIndexed, PTL

-----------------------------------------------------------------------------
(* LiveView: a page that is seen is never left without a next step.          *)

\* The part of PageTypeOK that the page itself decides on.
PageOK ==
    /\ docHidden \in BOOLEAN
    /\ ref \in [ws : PageSocket \cup {NoSocket}, open : BOOLEAN, streak : 0 .. Break]
    /\ tokens \in [now : 0 .. MaxConnects, old : 0 .. MaxOld]
    /\ timer \in [reconnect : {"none", "delay", "now", "old"}, poll : BOOLEAN]
    /\ poll \in [idle : BOOLEAN, now : BOOLEAN, old : BOOLEAN]
    /\ robbed \in [poll : BOOLEAN, ws : BOOLEAN]

\* The two halves of NeverStalls.
PollGoesOn == ~docHidden => timer.poll \/ poll.now \/ robbed.poll
SocketGoesOn ==
    ~docHidden => \/ ref.ws # NoSocket \/ tokens.now > 0 \/ timer.reconnect \in {"delay", "now"}
               \/ ref.streak >= Break \/ robbed.ws

PageInv == PageOK /\ PollGoesOn /\ SocketGoesOn
-----------------------------------------------------------------------------
LEMMA PageInvInit == PageInit => PageInv
<1> SUFFICES ASSUME PageInit PROVE PageInv
  OBVIOUS
<1>1. 0 \in 0 .. Break /\ 1 \in 0 .. MaxConnects /\ 0 \in 0 .. MaxOld
  BY ViewAssumption
<1>2. PageOK
  BY <1>1 DEF PageInit, PageOK
<1>3. PollGoesOn /\ SocketGoesOn
  BY DEF PageInit, PollGoesOn, SocketGoesOn
<1> QED BY <1>2, <1>3 DEF PageInv

\* Steps of the network change only a socket.
LEMMA NetworkStep ==
  ASSUME PageInv, NEW s \in PageSocket, Accept(s) \/ Drop(s) \/ Expire(s)
  PROVE  PageInv'
BY DEF PageInv, PageOK, PollGoesOn, SocketGoesOn, Accept, Drop, Expire, Network

LEMMA ConnectionStep ==
  ASSUME PageInv,
         TokenArrives \/ TokenFails \/ (\E ok \in BOOLEAN : OldTokenReturns(ok)) \/ ReconnectFires
  PROVE  PageInv'
<1> USE ViewAssumption DEF PageInv, PageOK, PollGoesOn, SocketGoesOn
<1>1. CASE TokenArrives
  <2>1. PageOK'
    <3>1. ref' \in [ws : PageSocket \cup {NoSocket}, open : BOOLEAN, streak : 0 .. Break]
      BY <1>1 DEF TokenArrives
    <3>2. tokens' \in [now : 0 .. MaxConnects, old : 0 .. MaxOld]
      BY <1>1 DEF TokenArrives
    <3>3. timer' \in [reconnect : {"none", "delay", "now", "old"}, poll : BOOLEAN]
      BY <1>1 DEF TokenArrives
    <3>4. /\ docHidden' \in BOOLEAN /\ poll' \in [idle : BOOLEAN, now : BOOLEAN, old : BOOLEAN]
          /\ robbed' \in [poll : BOOLEAN, ws : BOOLEAN]
      BY <1>1 DEF TokenArrives
    <3> QED BY <3>1, <3>2, <3>3, <3>4
  <2>2. PollGoesOn'
    BY <1>1 DEF TokenArrives
  <2>3. SocketGoesOn'
    BY <1>1 DEF TokenArrives
  <2> QED BY <2>1, <2>2, <2>3
<1>2. CASE TokenFails
  <2>1. PageOK'
    <3>1. ref' \in [ws : PageSocket \cup {NoSocket}, open : BOOLEAN, streak : 0 .. Break]
      BY <1>2 DEF TokenFails, Streak, ReconnectTimer
    <3>2. tokens' \in [now : 0 .. MaxConnects, old : 0 .. MaxOld]
      BY <1>2 DEF TokenFails, Streak, ReconnectTimer
    <3>3. timer' \in [reconnect : {"none", "delay", "now", "old"}, poll : BOOLEAN]
      BY <1>2 DEF TokenFails, Streak, ReconnectTimer
    <3>4. /\ docHidden' \in BOOLEAN /\ poll' \in [idle : BOOLEAN, now : BOOLEAN, old : BOOLEAN]
          /\ robbed' \in [poll : BOOLEAN, ws : BOOLEAN]
      BY <1>2 DEF TokenFails, Streak, ReconnectTimer
    <3> QED BY <3>1, <3>2, <3>3, <3>4
  <2>2. PollGoesOn'
    BY <1>2 DEF TokenFails, Streak, ReconnectTimer
  <2>3. SocketGoesOn'
    BY <1>2 DEF TokenFails, Streak, ReconnectTimer
  <2> QED BY <2>1, <2>2, <2>3
<1>3. CASE \E ok \in BOOLEAN : OldTokenReturns(ok)
  BY <1>3 DEF OldTokenReturns, Streak
<1>4. CASE ReconnectFires
  BY <1>4 DEF ReconnectFires, Connecting
<1> QED BY <1>1, <1>2, <1>3, <1>4

LEMMA EventStep ==
  ASSUME PageInv, NEW s \in PageSocket, SocketEvent(s)
  PROVE  PageInv'
<1> USE ViewAssumption DEF PageInv, PageOK, PollGoesOn, SocketGoesOn
<1>1. CASE OpenEvent(s)
  <2>1. PageOK'
    <3>1. ref' \in [ws : PageSocket \cup {NoSocket}, open : BOOLEAN, streak : 0 .. Break]
      <4>1. 0 \in 0 .. Break
        OBVIOUS
      <4>2. ref' = ref \/ ref' = [ref EXCEPT !.open = TRUE, !.streak = 0]
        BY <1>1 DEF OpenEvent
      <4> QED BY <4>1, <4>2, ZenonT(40)
    <3> QED BY <3>1, <1>1 DEF OpenEvent
  <2>2. PollGoesOn'
    BY <1>1 DEF OpenEvent
  <2>3. SocketGoesOn'
    BY <1>1 DEF OpenEvent
  <2> QED BY <2>1, <2>2, <2>3
<1>2. CASE DataEvent(s)
  BY <1>2 DEF DataEvent
<1>3. CASE ExpiredEvent(s)
  BY <1>3, ZenonT(40) DEF ExpiredEvent
<1>4. CASE CloseEvent(s)
  <2>1. PageOK'
    <3>1. ref' \in [ws : PageSocket \cup {NoSocket}, open : BOOLEAN, streak : 0 .. Break]
      <4>1. Streak \in 0 .. Break
        BY DEF Streak
      <4>2. ref' = ref \/ ref' = [ws |-> NoSocket, open |-> FALSE, streak |-> Streak]
        BY <1>4 DEF CloseEvent
      <4>3. [ws |-> NoSocket, open |-> FALSE, streak |-> Streak]
              \in [ws : PageSocket \cup {NoSocket}, open : BOOLEAN, streak : 0 .. Break]
        BY <4>1
      <4> QED BY <4>2, <4>3
    <3> QED BY <3>1, <1>4 DEF CloseEvent, Streak, ReconnectTimer
  <2>2. PollGoesOn'
    BY <1>4 DEF CloseEvent, Streak, ReconnectTimer
  <2>3. SocketGoesOn'
    BY <1>4 DEF CloseEvent, Streak, ReconnectTimer
  <2> QED BY <2>1, <2>2, <2>3
<1> QED BY <1>1, <1>2, <1>3, <1>4 DEF SocketEvent

LEMMA PollStep ==
  ASSUME PageInv,
         \/ PollFires \/ UserActivity \/ OldPollReturns
         \/ \E ok \in BOOLEAN : PollReturns(ok) \/ RefreshReturns(ok)
  PROVE  PageInv'
<1> USE DEF PageInv, PageOK, PollGoesOn, SocketGoesOn
<1>1. CASE PollFires
  BY <1>1 DEF PollFires, Poll
<1>2. CASE UserActivity
  BY <1>2 DEF UserActivity, Poll
<1>3. CASE OldPollReturns
  BY <1>3 DEF OldPollReturns
<1>4. ASSUME NEW ok \in BOOLEAN, PollReturns(ok) PROVE PageInv'
  BY <1>4, ZenonT(40) DEF PollReturns, PollTimer, PollIdle
<1>5. ASSUME NEW ok \in BOOLEAN, RefreshReturns(ok) PROVE PageInv'
  BY <1>5 DEF RefreshReturns
<1> QED BY <1>1, <1>2, <1>3, <1>4, <1>5

LEMMA PageStep ==
  ASSUME PageInv, PageHidden \/ PageVisible \/ PageFocused \/ Remount
  PROVE  PageInv'
<1> USE ViewAssumption DEF PageInv, PageOK, PollGoesOn, SocketGoesOn
<1>1. CASE PageHidden
  BY <1>1 DEF PageHidden, PollTimer
<1>2. CASE PageVisible
  <2>1. PageOK'
    <3>1. ref' \in [ws : PageSocket \cup {NoSocket}, open : BOOLEAN, streak : 0 .. Break]
      BY <1>2 DEF PageVisible, WsVisible, Connecting, ReconnectCleared
    <3>2. tokens' \in [now : 0 .. MaxConnects, old : 0 .. MaxOld]
      BY <1>2 DEF PageVisible, WsVisible, Connecting, ReconnectCleared
    <3>3. timer' \in [reconnect : {"none", "delay", "now", "old"}, poll : BOOLEAN]
      BY <1>2 DEF PageVisible, WsVisible, Connecting, ReconnectCleared
    <3>4. /\ docHidden' \in BOOLEAN /\ poll' \in [idle : BOOLEAN, now : BOOLEAN, old : BOOLEAN]
          /\ robbed' \in [poll : BOOLEAN, ws : BOOLEAN]
      BY <1>2 DEF PageVisible, WsVisible, Connecting, ReconnectCleared
    <3> QED BY <3>1, <3>2, <3>3, <3>4
  <2>2. PollGoesOn'
    BY <1>2 DEF PageVisible, WsVisible, Connecting, ReconnectCleared
  <2>3. SocketGoesOn'
    BY <1>2 DEF PageVisible, WsVisible, Connecting, ReconnectCleared
  <2> QED BY <2>1, <2>2, <2>3
<1>3. CASE PageFocused
  BY <1>3 DEF PageFocused, WsVisible, Connecting, ReconnectCleared
<1>4. CASE Remount
  <2>1. PageOK'
    <3>1. ref' \in [ws : PageSocket \cup {NoSocket}, open : BOOLEAN, streak : 0 .. Break]
      BY <1>4 DEF Remount
    <3> QED BY <3>1, <1>4 DEF Remount
  <2>2. PollGoesOn'
    BY <1>4 DEF Remount
  <2>3. SocketGoesOn'
    BY <1>4 DEF Remount
  <2> QED BY <2>1, <2>2, <2>3
<1> QED BY <1>1, <1>2, <1>3, <1>4

LEMMA PageInvStep == PageInv /\ [PageNext]_pageVars => PageInv'
<1> SUFFICES ASSUME PageInv, [PageNext]_pageVars PROVE PageInv'
  OBVIOUS
<1>1. CASE UNCHANGED pageVars
  BY <1>1 DEF pageVars, PageInv, PageOK, PollGoesOn, SocketGoesOn
<1>2. CASE PageNext
  BY <1>2, ConnectionStep, EventStep, NetworkStep, PollStep, PageStep DEF PageNext
<1> QED BY <1>1, <1>2

\* The polls and the connection of a visible page go on (scheduleNextPoll,
\* scheduleReconnect, handleVisibility, handleWsVisibility), whatever tokens, sockets
\* and fetches do, except when an earlier mount took the timer or the socket away.
THEOREM PageNeverStalls == PageSpec => []NeverStalls
<1>1. PageInv => NeverStalls
  BY DEF PageInv, PollGoesOn, SocketGoesOn, NeverStalls
<1> QED BY <1>1, PageInvInit, PageInvStep, PTL DEF PageSpec
=============================================================================
