------------------------------ MODULE LiveHub ------------------------------
(***************************************************************************)
(* LiveDataDO, the Durable Object every live connection meets: agents      *)
(* report to it over WebSocket or HTTP, browsers watch it over WebSocket,  *)
(* the admin API renames, hides and removes nodes in it, one alarm expires *)
(* HTTP nodes and viewer windows, and the platform may evict it at any     *)
(* time, after which it rebuilds its maps from the attachments of the      *)
(* WebSockets that survived.                                               *)
(*                                                                         *)
(* Time. A deadline (expiresAt, the alarm) is the number of ticks left     *)
(* until it: 0 is "expiresAt <= now" and Tick moves every deadline one     *)
(* nearer.  No state therefore holds an absolute time.  A tick is a second *)
(* or more, so the least delay of an alarm, one second, is below it.       *)
(*                                                                         *)
(* Atomicity. The object is single threaded, and an await on its own       *)
(* storage holds back every other event, so a handler that awaits only     *)
(* storage is one step.  Only alarm() awaits the database between two      *)
(* changes of this state, and it is two steps.                             *)
(***************************************************************************)
EXTENDS Naturals, FiniteSets

CONSTANTS
    Agent,           \* node uuids
    Socket,          \* server ends of WebSockets, reused once closed
    IP,              \* addresses viewers connect from
    ViewerTtls,      \* ticks a viewer may watch (live_poll_active_max_duration_sec)
    HttpTtls,        \* ticks an HTTP report keeps a node online (ttl_ms)
    MaxSkew,         \* ticks an agent's clock may run ahead (reportTimestamp)
    MaxViewers,      \* VIEWER_MAX_TOTAL_SESSIONS
    MaxViewersPerIp, \* VIEWER_MAX_SESSIONS_PER_IP
    AllowRestart,    \* may the platform evict the object?
    None             \* no value: undefined, null, a missing map entry

ASSUME HubAssumption ==
    /\ ViewerTtls \subseteq Nat \ {0} /\ HttpTtls \subseteq Nat \ {0}
    /\ MaxSkew \in Nat /\ MaxViewers \in Nat /\ MaxViewersPerIp \in Nat
    /\ AllowRestart \in BOOLEAN
    /\ IsFiniteSet(Socket)
    /\ Agent \cap Socket = {}
    /\ None \notin Nat /\ None \notin Socket /\ None \notin IP
    /\ None \notin {"agent", "viewer"}

VARIABLES
    conn,            \* readyState of each socket, "free" once the peer is gone
    att,             \* serializeAttachment: survives an eviction
    sessions,        \* client id -> socket
    sessionRoles,    \* client id -> role
    viewerExpiresAt, \* client id -> ticks left of the viewer window
    clients,         \* uuid -> [hidden, exp]; present means online
    alarm,           \* storage.setAlarm: survives an eviction
    alarmRunning,    \* alarm() awaits the policy broadcast
    shown            \* nodes the messages sent to a viewer say are online

memory == <<sessions, sessionRoles, viewerExpiresAt, clients>>
vars == <<conn, att, sessions, sessionRoles, viewerExpiresAt, clients,
          alarm, alarmRunning, shown>>

\* A viewer's id is 'frontend-' + crypto.randomUUID(), one per socket: the
\* socket stands for it.
Id == Agent \cup Socket

Role == {"agent", "viewer"}
Deadline == Nat \cup {None}
Attachment == [role : Role, id : Id, hidden : BOOLEAN, includeHidden : BOOLEAN,
               report : BOOLEAN, exp : Deadline, ip : IP \cup {None}]
ClientState == [hidden : BOOLEAN, exp : Deadline]

ASSUME NoneAssumption == None \notin Attachment /\ None \notin ClientState

TypeOK ==
    /\ conn \in [Socket -> {"free", "open", "closing"}]
    /\ att \in [Socket -> Attachment \cup {None}]
    /\ sessions \in [Id -> Socket \cup {None}]
    /\ sessionRoles \in [Id -> Role \cup {None}]
    /\ viewerExpiresAt \in [Id -> Deadline]
    /\ clients \in [Agent -> ClientState \cup {None}]
    /\ alarm \in Deadline
    /\ alarmRunning \in BOOLEAN
    /\ shown \in [Socket -> SUBSET Agent]

Init ==
    /\ conn = [s \in Socket |-> "free"]
    /\ att = [s \in Socket |-> None]
    /\ sessions = [i \in Id |-> None]
    /\ sessionRoles = [i \in Id |-> None]
    /\ viewerExpiresAt = [i \in Id |-> None]
    /\ clients = [a \in Agent |-> None]
    /\ alarm = None
    /\ alarmRunning = FALSE
    /\ shown = [s \in Socket |-> {}]

----------------------------------------------------------------------------
(* Helpers of the handlers.                                                *)

AgentAttachment(a, hidden, report, exp) ==
    [role |-> "agent", id |-> a, hidden |-> hidden, includeHidden |-> FALSE,
     report |-> report, exp |-> exp, ip |-> None]

ViewerAttachment(s, ip, includeHidden, ttl) ==
    [role |-> "viewer", id |-> s, hidden |-> FALSE,
     includeHidden |-> includeHidden, report |-> FALSE, exp |-> ttl, ip |-> ip]

Online(a) == clients[a] # None
\* expiresAt <= now
Lapsed(d) == d = 0
IsVisibleClient(c) == c # None /\ ~c.hidden /\ ~Lapsed(c.exp)

\* buildSnapshot
Snapshot(includeHidden) ==
    {a \in Agent : /\ Online(a) /\ ~Lapsed(clients[a].exp)
                   /\ includeHidden \/ ~clients[a].hidden}

\* countViewers and activeViewerCount: open, registered and not expired.
ActiveViewers ==
    {s \in Socket : /\ sessionRoles[s] = "viewer" /\ sessions[s] = s
                    /\ conn[s] = "open" /\ ~Lapsed(viewerExpiresAt[s])}
ActiveFrom(ip) == {s \in ActiveViewers : att[s].ip = ip}

\* Fault: off by one at the limit per address.
BelowViewerLimitsOffByOne(ip) ==
    /\ Cardinality(ActiveViewers) < MaxViewers
    /\ Cardinality(ActiveFrom(ip)) <= MaxViewersPerIp

\* enforceViewerConnectionLimit lets the upgrade through.
BelowViewerLimits(ip) ==
    /\ Cardinality(ActiveViewers) < MaxViewers
    /\ Cardinality(ActiveFrom(ip)) < MaxViewersPerIp

\* The viewers a message for this audience is sent to. Expiry is not asked.
Audience(audience) ==
    {s \in Socket : /\ sessionRoles[s] = "viewer" /\ sessions[s] = s
                    /\ conn[s] = "open"
                    /\ audience = "admin" => att[s].includeHidden
                    /\ audience = "public" => ~att[s].includeHidden}

\* Fault: administrators are left out of visible nodes.
AudienceOfPublic(hidden) == IF hidden THEN "admin" ELSE "public"

AudienceOf(hidden) == IF hidden THEN "admin" ELSE "all"

\* Fault: the audience is ignored.
PushUpdateAdminOnly(a, audience) ==
    shown' = [s \in Socket |-> IF s \in Audience("admin")
                               THEN shown[s] \cup {a} ELSE shown[s]]

\* broadcastToViewers of {type: 'update'} and of {type: 'remove'}
PushUpdate(a, audience) ==
    shown' = [s \in Socket |-> IF s \in Audience(audience)
                               THEN shown[s] \cup {a} ELSE shown[s]]
PushRemove(a, audience) ==
    shown' = [s \in Socket |-> IF s \in Audience(audience)
                               THEN shown[s] \ {a} ELSE shown[s]]

\* Fault: the replaced connection is not closed.
CloseSkipped(s) == conn

Close(s) == IF s # None /\ conn[s] = "open"
            THEN [conn EXCEPT ![s] = "closing"] ELSE conn

\* Fault: the alarm forgets viewer windows.
DeadlinesAfterOfClients ==
    {clients'[a].exp : a \in {b \in Agent : clients'[b] # None}}

\* The deadlines in the maps of the next state.
DeadlinesAfter == {viewerExpiresAt'[i] : i \in Id}
                    \cup {clients'[a].exp : a \in {b \in Agent : clients'[b] # None}}

\* scheduleExpiryAlarm: the nearest of these deadlines, or no alarm at all.
SetAlarm(deadlines) ==
    \/ deadlines = {} /\ alarm' = None
    \/ \E d \in deadlines : /\ \A e \in deadlines : d <= e
                            /\ alarm' = d

\* Fault: the handler does not reschedule.
ScheduleExpiryAlarmSkipped == UNCHANGED alarm

\* Called in a handler's own instant, it passes over what already lapsed.
ScheduleExpiryAlarm == SetAlarm(DeadlinesAfter \ {None, 0})

----------------------------------------------------------------------------
(* Connections.                                                            *)

\* An agent's upgrade: the older connection is told to close and the id now
\* means the new one. The node's last report stays.
AgentConnect(a, s, hidden) ==
    /\ conn[s] = "free"
    /\ conn' = [Close(sessions[a]) EXCEPT ![s] = "open"]
    /\ att' = [att EXCEPT ![s] = AgentAttachment(a, hidden, FALSE, None)]
    /\ sessions' = [sessions EXCEPT ![a] = s]
    /\ sessionRoles' = [sessionRoles EXCEPT ![a] = "agent"]
    /\ viewerExpiresAt' = [viewerExpiresAt EXCEPT ![a] = None]
    /\ UNCHANGED <<clients, alarm, alarmRunning, shown>>

\* A browser's upgrade. Over a limit it is answered 429 and nothing changes.
ViewerConnect(s, ip, includeHidden, ttl) ==
    /\ conn[s] = "free"
    /\ BelowViewerLimits(ip)
    /\ conn' = [conn EXCEPT ![s] = "open"]
    /\ att' = [att EXCEPT ![s] = ViewerAttachment(s, ip, includeHidden, ttl)]
    /\ sessions' = [sessions EXCEPT ![s] = s]
    /\ sessionRoles' = [sessionRoles EXCEPT ![s] = "viewer"]
    /\ viewerExpiresAt' = [viewerExpiresAt EXCEPT ![s] = ttl]
    /\ shown' = [shown EXCEPT ![s] = Snapshot(includeHidden)]
    /\ UNCHANGED <<clients, alarmRunning>>
    /\ ScheduleExpiryAlarm

\* Fault: the close handler forgets viewerExpiresAt and the node.
SocketClosedKeepsDeadline(s) ==
    LET id == att[s].id
    IN /\ conn[s] # "free"
       /\ conn' = [conn EXCEPT ![s] = "free"]
       /\ att' = [att EXCEPT ![s] = None]
       /\ IF sessions[id] = s
          THEN /\ sessions' = [sessions EXCEPT ![id] = None]
               /\ sessionRoles' = [sessionRoles EXCEPT ![id] = None]
          ELSE UNCHANGED <<sessions, sessionRoles>>
       /\ shown' = [shown EXCEPT ![s] = {}]
       /\ UNCHANGED <<viewerExpiresAt, clients, alarm, alarmRunning>>

\* webSocketClose and webSocketError: cleanupSession. A socket the id no
\* longer means is forgotten without touching the id's state.
SocketClosed(s) ==
    LET id == att[s].id
        current == sessions[id] = s
        isAgent == att[s].role = "agent"
    IN /\ conn[s] # "free"
       /\ conn' = [conn EXCEPT ![s] = "free"]
       /\ att' = [att EXCEPT ![s] = None]
       /\ IF current
          THEN /\ sessions' = [sessions EXCEPT ![id] = None]
               /\ sessionRoles' = [sessionRoles EXCEPT ![id] = None]
               /\ viewerExpiresAt' = [viewerExpiresAt EXCEPT ![id] = None]
          ELSE UNCHANGED <<sessions, sessionRoles, viewerExpiresAt>>
       /\ IF current /\ isAgent /\ Online(id)
          THEN /\ clients' = [clients EXCEPT ![id] = None]
               /\ PushRemove(id, AudienceOf(clients[id].hidden))
          ELSE /\ UNCHANGED clients
               /\ shown' = [shown EXCEPT ![s] = {}]
       /\ UNCHANGED <<alarm, alarmRunning>>

\* webSocketMessage over AGENT_WS_MAX_MESSAGE_BYTES
OversizedMessage(s) ==
    /\ conn[s] = "open" /\ att[s].role = "agent"
    /\ conn' = Close(s)
    /\ UNCHANGED <<att, memory, alarm, alarmRunning, shown>>

----------------------------------------------------------------------------
(* Reports.                                                                *)

\* webSocketMessage, handleMessage, updateClientReport: hidden comes from
\* the socket's attachment, and what the peer sent before it saw our close
\* still arrives on a closing socket.
AgentReport(s) ==
    LET a == att[s].id
        hidden == att[s].hidden
    IN /\ conn[s] # "free" /\ att[s].role = "agent"
       /\ clients' = [clients EXCEPT ![a] = [hidden |-> hidden, exp |-> None]]
       /\ att' = [att EXCEPT ![s] = AgentAttachment(a, hidden, TRUE, None)]
       /\ PushUpdate(a, AudienceOf(hidden))
       /\ UNCHANGED <<conn, sessions, sessionRoles, viewerExpiresAt, alarm,
                      alarmRunning>>

\* updateHttpClientReport: the deadline counts from the Worker's clock, but
\* whether the node is visible is judged at the agent's report time, which
\* may be skew ticks ahead.
HttpReport(a, hidden, ttl, skew) ==
    LET wasVisible == /\ IsVisibleClient(clients[a])
                      /\ clients[a].exp # None => clients[a].exp > skew
    IN /\ clients' = [clients EXCEPT ![a] = [hidden |-> hidden, exp |-> ttl]]
       /\ \/ (hidden \/ ttl > skew) /\ PushUpdate(a, AudienceOf(hidden))
          \/ ~hidden /\ ttl <= skew /\ wasVisible /\ PushRemove(a, "public")
          \/ ~hidden /\ ttl <= skew /\ ~wasVisible /\ UNCHANGED shown
       /\ UNCHANGED <<conn, att, sessions, sessionRoles, viewerExpiresAt,
                      alarmRunning>>
       /\ ScheduleExpiryAlarm

\* applyInferredNetworkMetadataToLiveReport, once the background lookup of
\* a report's region is back: the attachment of whatever socket the id now
\* means is rewritten from the node's state.
NetworkMetadataInferred(a) ==
    LET c == clients[a]
        s == sessions[a]
    IN /\ Online(a)
       /\ att' = IF s # None /\ sessionRoles[a] = "agent"
                 THEN [att EXCEPT ![s] = AgentAttachment(a, c.hidden, TRUE, c.exp)]
                 ELSE att
       /\ IF IsVisibleClient(c) \/ c.hidden
          THEN PushUpdate(a, AudienceOf(c.hidden))
          ELSE UNCHANGED shown
       /\ UNCHANGED <<conn, memory, alarm, alarmRunning>>

----------------------------------------------------------------------------
(* The admin API.                                                          *)

\* updateClientMeta: only a node that is online is changed; becoming hidden
\* removes it from public viewers and refreshes it for administrators.
UpdateClientMeta(a, hidden) ==
    LET c == clients[a]
        s == sessions[a]
    IN /\ Online(a)
       /\ clients' = [clients EXCEPT ![a].hidden = hidden]
       /\ att' = IF s # None /\ conn[s] = "open"
                 THEN [att EXCEPT ![s] = AgentAttachment(a, hidden, TRUE, c.exp)]
                 ELSE att
       /\ shown' = [v \in Socket |->
                      IF v \in Audience("admin") /\ (~hidden \/ ~c.hidden)
                      THEN shown[v] \cup {a}
                      ELSE IF v \in Audience("public") /\ hidden /\ ~c.hidden
                      THEN shown[v] \ {a}
                      ELSE IF v \in Audience("public") /\ ~hidden
                      THEN shown[v] \cup {a}
                      ELSE shown[v]]
       /\ UNCHANGED <<conn, sessions, sessionRoles, viewerExpiresAt, alarm,
                      alarmRunning>>

\* removeClient: also how a token rotation disconnects an agent.
RemoveClient(a) ==
    /\ conn' = Close(sessions[a])
    /\ sessions' = [sessions EXCEPT ![a] = None]
    /\ sessionRoles' = [sessionRoles EXCEPT ![a] = None]
    /\ clients' = [clients EXCEPT ![a] = None]
    /\ IF Online(a) THEN PushRemove(a, AudienceOf(clients[a].hidden))
                    ELSE UNCHANGED shown
    /\ UNCHANGED <<att, viewerExpiresAt, alarm, alarmRunning>>

----------------------------------------------------------------------------
(* The alarm, the clock and evictions.                                     *)

LapsedViewers == {s \in Socket : viewerExpiresAt[s] = 0}
LapsedClients == {a \in Agent : Online(a) /\ Lapsed(clients[a].exp)}

\* alarm() up to its policy broadcast: removeExpiredClients, then
\* removeExpiredViewers, which closes their sockets.
AlarmStart ==
    /\ alarm = 0 /\ ~alarmRunning
    /\ alarm' = None
    /\ alarmRunning' = TRUE
    /\ clients' = [a \in Agent |-> IF a \in LapsedClients THEN None ELSE clients[a]]
    /\ shown' = [s \in Socket |->
                   shown[s] \ {a \in LapsedClients :
                                 s \in Audience(AudienceOf(clients[a].hidden))}]
    /\ viewerExpiresAt' = [i \in Id |-> IF i \in LapsedViewers THEN None
                                        ELSE viewerExpiresAt[i]]
    /\ sessions' = [i \in Id |-> IF i \in LapsedViewers THEN None ELSE sessions[i]]
    /\ sessionRoles' = [i \in Id |-> IF i \in LapsedViewers THEN None
                                     ELSE sessionRoles[i]]
    /\ conn' = [s \in Socket |-> IF s \in LapsedViewers /\ conn[s] = "open"
                                 THEN "closing" ELSE conn[s]]
    /\ UNCHANGED att

\* Fault: the clock is read again after the broadcast.
AlarmFinishFreshNow ==
    /\ alarmRunning
    /\ alarmRunning' = FALSE
    /\ UNCHANGED <<conn, att, memory, shown>>
    /\ SetAlarm(DeadlinesAfter \ {None, 0})

\* alarm() after its broadcast reschedules with the time it started at: what
\* lapsed since then had not lapsed by that time, so it counts and is due.
AlarmFinish ==
    /\ alarmRunning
    /\ alarmRunning' = FALSE
    /\ UNCHANGED <<conn, att, memory, shown>>
    /\ SetAlarm(DeadlinesAfter \ {None})

\* The broadcast could not read the ping tasks: alarm() throws and the
\* platform runs it again.
AlarmFails ==
    /\ alarmRunning
    /\ alarmRunning' = FALSE
    /\ alarm' = 0
    /\ UNCHANGED <<conn, att, memory, shown>>

Sooner(d) == IF d = None \/ d = 0 THEN d ELSE d - 1

Tick ==
    /\ att' = [s \in Socket |-> IF att[s] = None THEN None
                                ELSE [att[s] EXCEPT !.exp = Sooner(@)]]
    /\ viewerExpiresAt' = [i \in Id |-> Sooner(viewerExpiresAt[i])]
    /\ clients' = [a \in Agent |-> IF Online(a)
                                   THEN [clients[a] EXCEPT !.exp = Sooner(@)]
                                   ELSE None]
    /\ alarm' = Sooner(alarm)
    /\ UNCHANGED <<conn, sessions, sessionRoles, alarmRunning, shown>>

\* getWebSockets() returns what was accepted and is not yet gone, closing
\* sockets included, in an order of the platform's choosing.
AcceptedAs(role) == {s \in Socket : conn[s] # "free" /\ att[s].role = role}
AgentSockets(a) == {s \in AcceptedAs("agent") : att[s].id = a}
Reporters(a) == {s \in AgentSockets(a) : att[s].report /\ ~Lapsed(att[s].exp)}

WatchingViewers == {s \in AcceptedAs("viewer") : ~Lapsed(att[s].exp)}

\* An eviction and the next constructor: hydrateSessionsFromAcceptedWebSockets.
\* last[a] is the last of a's sockets in that order and rep[a] the last that
\* has a report.
Restart ==
    /\ AllowRestart
    /\ \E last, rep \in [Agent -> Socket \cup {None}] :
        /\ \A a \in Agent :
            /\ last[a] \in AgentSockets(a) \/ (last[a] = None /\ AgentSockets(a) = {})
            /\ rep[a] \in Reporters(a) \/ (rep[a] = None /\ Reporters(a) = {})
            /\ last[a] \in Reporters(a) => rep[a] = last[a]
        /\ sessions' = [i \in Id |-> IF i \in Agent THEN last[i]
                                     ELSE IF i \in WatchingViewers THEN i ELSE None]
        /\ sessionRoles' = [i \in Id |->
                              IF i \in Agent
                              THEN IF last[i] = None THEN None ELSE "agent"
                              ELSE IF i \in WatchingViewers THEN "viewer" ELSE None]
        /\ clients' = [a \in Agent |-> IF rep[a] = None THEN None
                                       ELSE [hidden |-> att[rep[a]].hidden,
                                             exp |-> att[rep[a]].exp]]
    /\ viewerExpiresAt' = [i \in Id |-> IF i \in WatchingViewers THEN att[i].exp
                                        ELSE None]
    /\ conn' = [s \in Socket |->
                  IF s \in AcceptedAs("viewer") \ WatchingViewers /\ conn[s] = "open"
                  THEN "closing" ELSE conn[s]]
    /\ alarm' = IF alarmRunning THEN 0 ELSE alarm
    /\ alarmRunning' = FALSE
    /\ UNCHANGED <<att, shown>>

----------------------------------------------------------------------------
Watching ==
    \E s \in Socket, ip \in IP, includeHidden \in BOOLEAN, ttl \in ViewerTtls :
        ViewerConnect(s, ip, includeHidden, ttl)
HttpReporting ==
    \E a \in Agent, hidden \in BOOLEAN, ttl \in HttpTtls, skew \in 0..MaxSkew :
        HttpReport(a, hidden, ttl, skew)

\* What moves the alarm besides the alarm itself.
Reschedule == Watching \/ HttpReporting

\* Every step of the living object that is no report.
Unreported ==
    \/ Watching
    \/ \E a \in Agent, s \in Socket, hidden \in BOOLEAN : AgentConnect(a, s, hidden)
    \/ \E s \in Socket : SocketClosed(s) \/ OversizedMessage(s)
    \/ \E a \in Agent : NetworkMetadataInferred(a) \/ RemoveClient(a)
    \/ \E a \in Agent, hidden \in BOOLEAN : UpdateClientMeta(a, hidden)
    \/ AlarmStart \/ AlarmFinish \/ AlarmFails
    \/ Tick

Running == Unreported \/ HttpReporting \/ \E s \in Socket : AgentReport(s)

Next == Running \/ Restart

Spec == Init /\ [][Next]_vars

\* Time passes, a due alarm is delivered, and a broadcast that does not fail
\* for ever ends.
Fairness == WF_vars(Tick) /\ WF_vars(AlarmStart) /\ SF_vars(AlarmFinish)

FairSpec == Spec /\ Fairness

----------------------------------------------------------------------------
(* Properties.                                                             *)

\* The three maps of the hub describe the same connections: an id is in
\* sessionRoles exactly when it is in sessions, a viewer deadline is kept
\* exactly for viewers and is the one the attachment would restore, and the
\* socket an id means carries that id and role.
SessionIndex ==
    \A i \in Id :
        /\ sessions[i] = None <=> sessionRoles[i] = None
        /\ sessionRoles[i] = "viewer" <=> viewerExpiresAt[i] # None
        /\ sessions[i] # None =>
             /\ conn[sessions[i]] # "free"
             /\ att[sessions[i]].id = i
             /\ att[sessions[i]].role = sessionRoles[i]
             /\ sessionRoles[i] = "viewer" =>
                  viewerExpiresAt[i] = att[sessions[i]].exp

\* An accepted socket is a registered viewer or one whose window ended, or
\* belongs to an agent: the hub drops no viewer early, so the attachments an
\* eviction would restore name no viewer the hub has forgotten.
AcceptedViewersKept ==
    \A s \in Socket :
        /\ conn[s] = "free" <=> att[s] = None
        /\ conn[s] # "free" /\ att[s].role = "agent" => att[s].id \in Agent
        /\ conn[s] # "free" /\ att[s].role = "viewer" =>
             /\ att[s].id = s /\ att[s].exp # None
             /\ sessions[s] = s \/ att[s].exp = 0

\* enforceViewerConnectionLimit: however connections, expiries, closes and
\* evictions interleave, no more viewers watch than the limits allow.
ViewerLimits ==
    /\ Cardinality(ActiveViewers) <= MaxViewers
    /\ \A ip \in IP : Cardinality(ActiveFrom(ip)) <= MaxViewersPerIp

\* Every viewer window still open has an alarm no later than its end, unless
\* alarm() is running and about to set it: an eviction, a failed alarm or a
\* reschedule by somebody else never leaves a window nobody will end.
ViewerDeadlineArmed ==
    \A s \in Socket :
        viewerExpiresAt[s] \notin {None, 0} /\ ~alarmRunning =>
            alarm # None /\ alarm <= viewerExpiresAt[s]

\* The same for the deadline of a node that reports over HTTP, while the
\* object lives: the alarm is never moved past it.
ClientDeadlineArmed ==
    \A a \in Agent :
        Online(a) /\ clients[a].exp \notin {None, 0} /\ ~alarmRunning =>
            alarm # None /\ alarm <= clients[a].exp

WindowKept(s) ==
    conn[s] # "free" /\ conn'[s] # "free" /\ viewerExpiresAt'[s] # None =>
        /\ viewerExpiresAt'[s] <= att[s].exp
        /\ att[s].exp = 0 => viewerExpiresAt[s] = 0

\* The window a viewer was given is never extended: neither an eviction nor
\* a later message moves its end, and once it ended the viewer is not
\* registered again.
ViewerWindowFinal == [][\A s \in Socket : WindowKept(s)]_vars

\* Between two evictions, an open agent connection is the one its id means:
\* it receives the policy broadcasts, and no two are open for one node.
OpenAgentRegistered ==
    \A s \in Socket :
        conn[s] = "open" /\ att[s].role = "agent" => sessions[att[s].id] = s

Ended(s) == sessionRoles[s] = "viewer" /\ viewerExpiresAt[s] = 0

\* The alarm cleans up expired connections: a viewer whose window ended is
\* disconnected.
ExpiredViewerRemoved == \A s \in Socket : Ended(s) ~> ~Ended(s)

\* It does once new viewers and HTTP reports stop moving the alarm.
ExpiredViewerRemovedOnceQuiet ==
    ExpiredViewerRemoved \/ []<><<Reschedule>>_vars
=============================================================================
