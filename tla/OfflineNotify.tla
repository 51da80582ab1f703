--------------------------- MODULE OfflineNotify ---------------------------
(***************************************************************************)
(* The offline check of the Worker's cron: runScheduled starts every two   *)
(* minutes and on POST /api/admin/cron/run, reads which nodes have alerts  *)
(* on and which were already notified, then when each last stored a        *)
(* record, and for every node that went silent or came back sends a        *)
(* message and afterwards writes last_notified.  Nothing keeps two runs    *)
(* apart, and each database call may fail and end the run's check.         *)
(*                                                                         *)
(* A node's silence is the age of its newest record in ticks, saturating   *)
(* at Grace (offlineMs >= graceMs).                                        *)
(***************************************************************************)
EXTENDS Naturals, FiniteSets

CONSTANTS
    Node,                \* client uuids
    Run,                 \* runs of runScheduled that may overlap
    Grace,               \* grace_period in ticks
    NotifyNeverReported, \* offline_notify_never_reported
    CanFail,             \* may a database call fail, or the Worker be ended?
    Outcomes             \* what dispatchNotification may return

ASSUME NotifyAssumption ==
    /\ Grace \in Nat \ {0}
    /\ NotifyNeverReported \in BOOLEAN /\ CanFail \in BOOLEAN
    /\ Outcomes \subseteq BOOLEAN

VARIABLES
    age,          \* ticks since the newest record, or since created_at
    reported,     \* does a record of the node exist?
    enable,       \* offline_notifications.enable
    lastNotified, \* offline_notifications.last_notified is not null
    run,          \* what each run knows and where it stands
    told,         \* what the last message that arrived said of the node
    alerts,       \* alerts sent for the node's present fault
    refused,      \* history: the nodes whose latest message the channel refused
    doubt         \* history: the nodes whose row may not tell what was sent of them

db == <<enable, lastNotified>>
sent == <<told, alerts, refused>>
vars == <<age, reported, enable, lastNotified, run, told, alerts, refused, doubt>>

Phase == {"idle", "list", "read", "loop", "alerted", "recovered"}

\* silent: the nodes past their grace period at the run's own now
\* listed, notified: the rows the run read, and those with last_notified set
\* alert, recover: the events still to be handled
RunState == [phase : Phase, silent : SUBSET Node, listed : SUBSET Node,
             notified : SUBSET Node, alert : SUBSET Node, recover : SUBSET Node]

Idle == [phase |-> "idle", silent |-> {}, listed |-> {}, notified |-> {},
         alert |-> {}, recover |-> {}]

Silent(n) == age[n] = Grace

\* More than one alert is one too many: the count saturates.
MaxAlerts == 2

TypeOK ==
    /\ age \in [Node -> 0..Grace]
    /\ reported \in [Node -> BOOLEAN]
    /\ enable \in [Node -> BOOLEAN]
    /\ lastNotified \in [Node -> BOOLEAN]
    /\ run \in [Run -> RunState]
    /\ told \in [Node -> {"up", "down"}]
    /\ alerts \in [Node -> 0..MaxAlerts]
    /\ refused \in SUBSET Node
    /\ doubt \in SUBSET Node

Init ==
    /\ age = [n \in Node |-> 0]
    /\ reported = [n \in Node |-> FALSE]
    /\ enable = [n \in Node |-> FALSE]
    /\ lastNotified = [n \in Node |-> FALSE]
    /\ run = [r \in Run |-> Idle]
    /\ told = [n \in Node |-> "up"]
    /\ alerts = [n \in Node |-> 0]
    /\ refused = {}
    /\ doubt = {}

----------------------------------------------------------------------------
(* The node, the clock and the administrator.                              *)

\* A record is stored. A run that has yet to read the times will find it
\* newer than its own now.
Report(n) ==
    /\ age' = [age EXCEPT ![n] = 0]
    /\ reported' = [reported EXCEPT ![n] = TRUE]
    /\ alerts' = [alerts EXCEPT ![n] = 0]
    /\ run' = [r \in Run |-> IF run[r].phase \in {"list", "read"}
                             THEN [run[r] EXCEPT !.silent = @ \ {n}] ELSE run[r]]
    /\ UNCHANGED <<db, told, refused, doubt>>

Tick ==
    /\ age' = [n \in Node |-> IF Silent(n) THEN Grace ELSE age[n] + 1]
    /\ UNCHANGED <<reported, db, run, sent, doubt>>

\* cfm_set_offline_notifications: switching alerts off also clears
\* last_notified, whatever a run is doing.
SetOfflineNotification(n, on) ==
    /\ enable' = [enable EXCEPT ![n] = on]
    /\ lastNotified' = [lastNotified EXCEPT ![n] = on /\ @]
    /\ alerts' = [alerts EXCEPT ![n] = IF on THEN @ ELSE 0]
    /\ UNCHANGED <<age, reported, run, told, refused, doubt>>

----------------------------------------------------------------------------
(* One run.                                                                *)

\* The run sent a message about n and has yet to write last_notified.
Unwritten(r, n) == run[r].phase \in {"alerted", "recovered"} /\ n \in run[r].listed

\* The run acts, or will act, on what it read of n's row.
Handles(r, n) ==
    \/ run[r].phase = "read" /\ n \in run[r].listed
    \/ Unwritten(r, n)
    \/ /\ run[r].phase \in {"loop", "alerted", "recovered"}
       /\ n \in run[r].alert \cup run[r].recover

HandledBeside(r, n) == \E q \in Run \ {r} : Handles(q, n)

\* runScheduled fixes now and runRecordCleanup deletes the records of some
\* nodes that have been silent for long.
RunStart(r) ==
    /\ run[r].phase = "idle"
    /\ \E old \in SUBSET {n \in Node : Silent(n) /\ reported[n]} :
          reported' = [n \in Node |-> reported[n] /\ n \notin old]
    /\ run' = [run EXCEPT ![r] = [Idle EXCEPT !.phase = "list",
                                              !.silent = {n \in Node : Silent(n)}]]
    /\ UNCHANGED <<age, db, sent, doubt>>

\* listOfflineNotifications; without an enabled row the check is over.
RunList(r) ==
    LET listed == {n \in Node : enable[n]}
    IN /\ run[r].phase = "list"
       /\ run' = [run EXCEPT ![r] =
                    IF listed = {} THEN Idle
                    ELSE [run[r] EXCEPT !.phase = "read", !.listed = listed,
                                        !.notified = {n \in listed : lastNotified[n]}]]
       /\ doubt' = doubt \cup {n \in listed : \E q \in Run : Unwritten(q, n)}
       /\ UNCHANGED <<age, reported, db, sent>>

\* Fault: last_notified is not asked.
OfflineEventsUnchecked(r) ==
    {n \in run[r].listed : /\ n \in run[r].silent
                           /\ reported[n] \/ NotifyNeverReported}

\* evaluateOfflineNotificationEvent, for a node past its grace period ...
OfflineEvents(r) ==
    {n \in run[r].listed \ run[r].notified :
        /\ n \in run[r].silent
        /\ reported[n] \/ NotifyNeverReported}

\* Fault: whether an outage was announced is not asked.
RecoveryEventsUnchecked(r) == run[r].listed \ run[r].silent

\* Fault: the test for a record is inverted.
RecoveryEventsInverted(r) == {n \in run[r].notified \ run[r].silent : ~reported[n]}

\* ... and for one that has a record within it.
RecoveryEvents(r) == {n \in run[r].notified \ run[r].silent : reported[n]}

\* getLatestRecordTimesForClients, and every event it leads to.
RunRead(r) ==
    /\ run[r].phase = "read"
    /\ run' = [run EXCEPT ![r] = [run[r] EXCEPT !.phase = "loop",
                                                !.alert = OfflineEvents(r),
                                                !.recover = RecoveryEvents(r)]]
    /\ UNCHANGED <<age, reported, db, sent, doubt>>

\* sendNotification of the offline message: a channel that fails returns
\* false, and the run goes on.
RunAlert(r, n, arrived) ==
    /\ run[r].phase = "loop" /\ n \in run[r].alert
    /\ told' = [told EXCEPT ![n] = IF arrived THEN "down" ELSE @]
    /\ alerts' = [alerts EXCEPT ![n] = IF @ = MaxAlerts THEN @ ELSE @ + 1]
    /\ run' = [run EXCEPT ![r] = [run[r] EXCEPT !.phase = "alerted",
                                                !.alert = run[r].alert \ {n},
                                                !.listed = {n}]]
    /\ refused' = IF arrived THEN refused \ {n} ELSE refused \cup {n}
    /\ doubt' = IF HandledBeside(r, n) THEN doubt \cup {n} ELSE doubt \ {n}
    /\ UNCHANGED <<age, reported, db>>

\* sendNotification of the recovery message
RunRecover(r, n, arrived) ==
    /\ run[r].phase = "loop" /\ n \in run[r].recover
    /\ told' = [told EXCEPT ![n] = IF arrived THEN "up" ELSE @]
    /\ alerts' = [alerts EXCEPT ![n] = 0]
    /\ run' = [run EXCEPT ![r] = [run[r] EXCEPT !.phase = "recovered",
                                                !.recover = run[r].recover \ {n},
                                                !.listed = {n}]]
    /\ refused' = IF arrived THEN refused \ {n} ELSE refused \cup {n}
    /\ doubt' = IF HandledBeside(r, n) THEN doubt \cup {n} ELSE doubt \ {n}
    /\ UNCHANGED <<age, reported, db>>

\* Fault: the recovery is not written.
RunMarkAlertOnly(r) ==
    /\ run[r].phase \in {"alerted", "recovered"}
    /\ lastNotified' = [n \in Node |-> lastNotified[n] \/ n \in run[r].listed]
    /\ run' = [run EXCEPT ![r] = [run[r] EXCEPT !.phase = "loop", !.listed = {}]]
    /\ UNCHANGED <<age, reported, enable, sent, doubt>>

\* markOfflineNotificationSent of the node just handled: it does not look at
\* what the row holds by now.
RunMark(r) ==
    /\ run[r].phase \in {"alerted", "recovered"}
    /\ lastNotified' = [n \in Node |-> IF n \in run[r].listed
                                       THEN run[r].phase = "alerted"
                                       ELSE lastNotified[n]]
    /\ run' = [run EXCEPT ![r] = [run[r] EXCEPT !.phase = "loop", !.listed = {}]]
    /\ UNCHANGED <<age, reported, enable, sent, doubt>>

RunEnd(r) ==
    /\ run[r].phase = "loop" /\ run[r].alert = {} /\ run[r].recover = {}
    /\ run' = [run EXCEPT ![r] = Idle]
    /\ UNCHANGED <<age, reported, db, sent, doubt>>

\* A call throws: runScheduledStep records it, and the rest of the check
\* waits for the next run.
RunFails(r) ==
    /\ CanFail
    /\ run[r].phase # "idle"
    /\ run' = [run EXCEPT ![r] = Idle]
    /\ doubt' = doubt \cup {n \in Node : Unwritten(r, n)}
    /\ UNCHANGED <<age, reported, db, sent>>

----------------------------------------------------------------------------
Send(r) == \E n \in Node, arrived \in Outcomes :
              RunAlert(r, n, arrived) \/ RunRecover(r, n, arrived)

Next ==
    \/ \E n \in Node : Report(n)
    \/ Tick
    \/ \E n \in Node, on \in BOOLEAN : SetOfflineNotification(n, on)
    \/ \E r \in Run : \/ RunStart(r) \/ RunList(r) \/ RunRead(r) \/ Send(r)
                      \/ RunMark(r) \/ RunEnd(r) \/ RunFails(r)

Spec == Init /\ [][Next]_vars

\* Time passes, the cron keeps firing, and no call fails every time.
Fairness ==
    /\ WF_vars(Tick)
    /\ \A r \in Run : /\ WF_vars(RunStart(r)) /\ SF_vars(RunList(r))
                      /\ SF_vars(RunRead(r)) /\ SF_vars(Send(r))
                      /\ SF_vars(RunMark(r)) /\ WF_vars(RunEnd(r))

FairSpec == Spec /\ Fairness

----------------------------------------------------------------------------
(* Properties.                                                             *)

\* One alert per fault: a run has a node to alert only if no alert was sent since the
\* node's last report, its announced recovery or the switching off of its alerts.
\* Only two runs that had the node in hand at once, or a run that ended between a
\* message and its last_notified, lead to a second, and until some run sends a
\* message while no other has the node in hand.
AlertOncePerFault ==
    \A r \in Run, n \in Node :
        n \in run[r].alert /\ alerts[n] > 0 => n \in doubt

\* A recovery is announced only to somebody who was last told of the outage, or whom
\* the channel failed then; again but for nodes in doubt.
RecoveryOnlyAfterAlert ==
    \A r \in Run, n \in Node :
        n \in run[r].recover => told[n] = "down" \/ n \in refused \cup doubt

Watched(n) == enable[n] /\ (reported[n] \/ NotifyNeverReported)

\* A node with alerts on that falls silent for good is reported to be down, and
\* nothing later says otherwise, unless the channel refused the alert or the row of
\* the node is in doubt: a recovery that could not be written hides the next fault.
LastingFaultTold ==
    \A n \in Node : <>[](Silent(n) /\ Watched(n))
                      => <>[](told[n] = "down" \/ n \in refused \cup doubt)

\* Whatever overlaps or fails, the alerts of a lasting fault come to an end:
\* last_notified is set for good and no run has another alert to send.
AlertsQuiesce ==
    \A n \in Node : <>[](Silent(n) /\ Watched(n))
                      => <>[](lastNotified[n] /\ \A r \in Run : n \notin run[r].alert)

\* A node that comes back for good is reported to be up again, if its alerts
\* stayed on while it was believed down, unless the channel refused the message or
\* the row of the node is in doubt: an alert that could not be written is forgotten.
LastingRecoveryTold ==
    \A n \in Node : <>[](~Silent(n)) /\ [](told[n] = "down" => enable[n])
                      => <>[](told[n] = "up" \/ n \in refused \cup doubt)
=============================================================================
