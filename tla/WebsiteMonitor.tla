--------------------------- MODULE WebsiteMonitor ---------------------------
(***************************************************************************)
(* One website monitor: its row in website_monitors, the scheduled check   *)
(* that sends its alerts (runWebsiteMonitorChecks, worker/src/index.ts),   *)
(* the administrator's check (routes/admin.ts), the results agents report  *)
(* and the check the Durable Object makes when an agent sees the site down *)
(* (do/live-data.ts).                                                      *)
(*                                                                         *)
(* The three checkers run beside each other: each asks the site, waits for *)
(* the answer and then writes the row in one statement.  Instants are kept *)
(* as what the code asks of them: whether the next check is due, whether   *)
(* the grace period of an outage is over, whether an agent's success is    *)
(* recent.                                                                 *)
(***************************************************************************)
EXTENDS Naturals

CONSTANT Budget   \* bound of manual checks, edits and failing calls
ASSUME WebsiteAssumption == Budget \in Nat

VARIABLES
    site,      \* the site answers as expected
    row,       \* [enabled, probe, status, since, notified] of website_monitors
    due,       \* last_checked_at is missing or an interval ago
    fresh,     \* website_checks holds a recent success of an agent
    at,        \* [cron, manual, fallback]: where each checker is
    ripe,      \* the outage's grace period was over when the cron run began
    hist       \* history: [left: budget, told: the last message, alerts: those of
               \* this outage, faults, dropped: an alert was forgotten]

monitorVars == <<site, row, due, fresh, at, ripe, hist>>

Checker == {"cron", "manual", "fallback"}
Site == {"up", "down"}

\* agent_probe_mode "off"; on with agent_probe_status_enabled; on without it.
Probe == {"off", "on", "silent"}

MonitorInit ==
    /\ site \in Site
    /\ row \in [enabled : {TRUE}, probe : Probe, status : {"pending"}, since : {"none"},
                notified : {FALSE}]
    /\ due = TRUE /\ fresh = FALSE
    /\ at = [c \in Checker |-> "idle"]
    /\ ripe = FALSE
    /\ hist = [left |-> Budget, told |-> "none", alerts |-> 0, faults |-> 0, dropped |-> FALSE]

Spent(h) == [h EXCEPT !.left = @ - 1]
-----------------------------------------------------------------------------
(* The row.                                                                  *)

\* Fault: every failed check forgets that the outage was alerted.
RecordedForgets(r) ==
    IF r = "up"
    THEN row' = [row EXCEPT !.status = "up", !.since = "none"]
    ELSE row' = [row EXCEPT !.status = "down", !.since = IF @ = "none" THEN "young" ELSE @,
                            !.notified = FALSE]

\* Fault: a success forgets the alert, too.
RecordedClears(r) ==
    IF r = "up"
    THEN row' = [row EXCEPT !.status = "up", !.since = "none", !.notified = FALSE]
    ELSE row' = [row EXCEPT !.status = "down", !.since = IF @ = "none" THEN "young" ELSE @,
                            !.notified = @ /\ row.status = "down"]

\* Fault: a new outage inherits the mark of the one before.
RecordedInherits(r) ==
    IF r = "up"
    THEN row' = [row EXCEPT !.status = "up", !.since = "none"]
    ELSE row' = [row EXCEPT !.status = "down", !.since = IF @ = "none" THEN "young" ELSE @]

\* cfm_record_website_check: a success ends the outage and keeps last_notified_at,
\* a failure begins one or goes on with it; a new one has not been notified.
Recorded(r) ==
    IF r = "up"
    THEN row' = [row EXCEPT !.status = "up", !.since = "none"]
    ELSE row' = [row EXCEPT !.status = "down", !.since = IF @ = "none" THEN "young" ELSE @,
                            !.notified = @ /\ row.status = "down"]

\* What the history h keeps of it: a new outage has no alerts yet.
Noted(h, r) ==
    IF r = "down" /\ row.status # "down"
    THEN [h EXCEPT !.alerts = 0, !.dropped = @ \/ (row.notified /\ h.told = "down")]
    ELSE h

\* A write of the row by a check; an outage that ended was not over its grace period
\* when the run began, if another one begins.
Record(r) ==
    /\ Recorded(r)
    /\ due' = FALSE
    /\ ripe' = (ripe /\ r = "down")
-----------------------------------------------------------------------------
(* Time and the site.                                                        *)

SiteChanges ==
    /\ site' \in Site \ {site}
    /\ UNCHANGED <<row, due, fresh, at, ripe, hist>>

BecomesDue ==
    /\ ~due /\ due' = TRUE
    /\ UNCHANGED <<site, row, fresh, at, ripe, hist>>

GraceEnds ==
    /\ row.since = "young" /\ row' = [row EXCEPT !.since = "old"]
    /\ UNCHANGED <<site, due, fresh, at, ripe, hist>>

AgentSuccessAges ==
    /\ fresh /\ fresh' = FALSE
    /\ UNCHANGED <<site, row, due, at, ripe, hist>>
-----------------------------------------------------------------------------
(* The checkers.  "check": waiting for the site; "up", "down": the answer,   *)
(* not written yet; cron goes on with "alert" and "recovery" (a message to   *)
(* send), then with "marked" and "unmarked" (last_notified_at to write).     *)

Answered(c) == at[c] \in Site

\* cfm_due_website_monitors: an agent's recent success stands in for the check.
Selected ==
    row.enabled /\ due /\ (row.probe = "off" \/ (row.probe = "on" /\ ~fresh))

RunBegin ==
    /\ at["cron"] = "idle" /\ Selected
    /\ at' = [at EXCEPT !["cron"] = "check"]
    /\ ripe' = (row.since = "old")
    /\ UNCHANGED <<site, row, due, fresh, hist>>

\* checkWebsiteMonitorHttp, checkWebsiteMonitorTcp: an answer or the timeout.
CheckEnds(c) ==
    /\ at[c] = "check" /\ at' = [at EXCEPT ![c] = site]
    /\ UNCHANGED <<site, row, due, fresh, ripe, hist>>

\* shouldNotifyWebsiteDown and shouldNotifyWebsiteRecovery, of the row as written.
ShouldNotifyDown == row'.status = "down" /\ ~row'.notified /\ ripe'

\* Fault: whoever comes up is announced.
ShouldNotifyRecoveryAlways == row'.status = "up"

ShouldNotifyRecovery == row'.status = "up" /\ row'.notified

RunRecords ==
    /\ Answered("cron") /\ Record(at["cron"])
    /\ at' = [at EXCEPT !["cron"] = IF ShouldNotifyDown THEN "alert"
                                    ELSE IF ShouldNotifyRecovery THEN "recovery" ELSE "idle"]
    /\ hist' = Noted(hist, at["cron"])
    /\ UNCHANGED <<site, fresh>>

\* sendNotification; whether the channel delivered is not asked.
RunSends ==
    /\ \/ /\ at["cron"] = "alert"
          /\ at' = [at EXCEPT !["cron"] = "marked"]
          /\ hist' = [hist EXCEPT !.told = "down", !.alerts = @ + 1, !.dropped = FALSE]
       \/ /\ at["cron"] = "recovery"
          /\ at' = [at EXCEPT !["cron"] = "unmarked"]
          /\ hist' = [hist EXCEPT !.told = "up"]
    /\ UNCHANGED <<site, row, due, fresh, ripe>>

\* markWebsiteMonitorNotified, whatever happened to the row meanwhile.
RunMarks ==
    /\ at["cron"] \in {"marked", "unmarked"}
    /\ at' = [at EXCEPT !["cron"] = "idle"]
    /\ row' = [row EXCEPT !.notified = at["cron"] = "marked"]
    /\ UNCHANGED <<site, due, fresh, ripe, hist>>

\* A call of the database throws: runScheduledStep ends the run.
CheckRunFails ==
    /\ hist.left > 0 /\ (Answered("cron") \/ at["cron"] \in {"marked", "unmarked"})
    /\ at' = [at EXCEPT !["cron"] = "idle"]
    /\ hist' = [Spent(hist) EXCEPT !.faults = @ + 1, !.dropped = @ \/ at["cron"] = "marked"]
    /\ UNCHANGED <<site, row, due, fresh, ripe>>

\* POST /websites/:id/check: a paused monitor is checked, too.
ManualBegin ==
    /\ at["manual"] = "idle" /\ hist.left > 0
    /\ at' = [at EXCEPT !["manual"] = "check"] /\ hist' = Spent(hist)
    /\ UNCHANGED <<site, row, due, fresh, ripe>>

\* The end of the administrator's check and of the Durable Object's own.
CheckRecords(c) ==
    /\ c # "cron" /\ Answered(c) /\ Record(at[c])
    /\ at' = [at EXCEPT ![c] = "idle"] /\ hist' = Noted(hist, at[c])
    /\ UNCHANGED <<site, fresh>>

\* persistWebsiteProbeResultsFromReport: an agent reports a success, at any time.
AgentUp ==
    /\ row.probe # "off"
    /\ Record("up") /\ fresh' = TRUE
    /\ UNCHANGED <<site, at, hist>>

\* An agent reports a failure, at any time: with agent_probe_status_enabled it only
\* makes the object check for itself (one such check is under way at a time here).
AgentDown ==
    /\ \/ /\ row.probe = "on" /\ at["fallback"] = "idle"
          /\ at' = [at EXCEPT !["fallback"] = "check"]
          /\ UNCHANGED <<row, due, ripe, hist>>
       \/ /\ row.probe = "silent" /\ Record("down")
          /\ hist' = Noted(hist, "down")
          /\ UNCHANGED at
    /\ UNCHANGED <<site, fresh>>

\* POST /websites/enabled (cfm_set_website_monitor_enabled)
SetEnabled(e) ==
    /\ hist.left > 0 /\ hist' = Spent(hist)
    /\ row' = [row EXCEPT !.enabled = e, !.status = IF e THEN @ ELSE "paused"]
    /\ UNCHANGED <<site, due, fresh, at, ripe>>

\* POST /websites/edit (cfm_update_website_monitor): the status stays as it is.
EditMonitor(e, p) ==
    /\ hist.left > 0 /\ hist' = Spent(hist)
    /\ row' = [row EXCEPT !.enabled = e, !.probe = p]
    /\ UNCHANGED <<site, due, fresh, at, ripe>>

MonitorNext ==
    \/ SiteChanges \/ BecomesDue \/ GraceEnds \/ AgentSuccessAges
    \/ RunBegin \/ RunRecords \/ RunSends \/ RunMarks \/ CheckRunFails
    \/ ManualBegin \/ AgentUp \/ AgentDown
    \/ \E c \in Checker : CheckEnds(c) \/ CheckRecords(c)
    \/ \E e \in BOOLEAN : SetEnabled(e) \/ \E p \in Probe : EditMonitor(e, p)

MonitorSpec == MonitorInit /\ [][MonitorNext]_monitorVars

\* Time passes, the cron trigger fires and what was begun goes on.
FairMonitorSpec ==
    /\ MonitorSpec
    /\ WF_monitorVars(BecomesDue) /\ WF_monitorVars(GraceEnds)
    /\ WF_monitorVars(AgentSuccessAges)
    /\ WF_monitorVars(RunBegin) /\ WF_monitorVars(RunRecords)
    /\ WF_monitorVars(RunSends) /\ WF_monitorVars(RunMarks)
    /\ \A c \in Checker : WF_monitorVars(CheckEnds(c)) /\ WF_monitorVars(CheckRecords(c))
-----------------------------------------------------------------------------
(* Properties.                                                               *)

\* Every column and every checker has one of the values the code gives it.
MonitorTypeOK ==
    /\ site \in Site
    /\ row \in [enabled : BOOLEAN, probe : Probe, since : {"none", "young", "old"},
                status : {"pending", "up", "down", "paused"}, notified : BOOLEAN]
    /\ due \in BOOLEAN /\ fresh \in BOOLEAN /\ ripe \in BOOLEAN
    /\ at \in [Checker -> {"idle", "check", "up", "down", "alert", "recovery",
                           "marked", "unmarked"}]
    /\ hist \in [left : 0 .. Budget, told : Site \union {"none"}, alerts : 0 .. Budget + 1,
                 faults : 0 .. Budget, dropped : BOOLEAN]

\* One outage is alerted once, however the other checkers' writes fall between a run's
\* read, its message and its mark; each failing call may cost one repetition.
AlertOncePerOutage == hist.alerts <= 1 + hist.faults

\* A recovery is announced only to somebody who was told of an outage, whatever ran
\* between that alert, its mark and the recovery, unless a call failed.
SiteRecoveryOnlyAfterAlert ==
    at["cron"] = "recovery" => hist.told = "down" \/ hist.faults > 0

SiteWatched == row.enabled /\ row.probe # "silent"

\* Only the scheduled check sends, and it passes over a monitor that an agent's success
\* or the Durable Object's own check keeps from being due: whoever is to be told needs
\* a run that goes on checking the site.
CronKeepsChecking == []<>(at["cron"] = "check")

\* An outage that lasts, no agent reporting a success, is told in the end and stays the
\* last thing told, if the scheduled check goes on: no late mark, failed call, pause or
\* other checker's write hides it. Without agents the scheduled check does go on.
LastingOutageTold ==
    /\ <>[](site = "down" /\ SiteWatched)
    /\ <>[](row.probe = "off") \/ (CronKeepsChecking /\ <>[]~fresh)
    => <>[](hist.told = "down")

\* A recovery that lasts is told in the end if the scheduled check goes on, unless the
\* alert was forgotten: its mark failed, or a success and then a failure recorded by
\* other checkers, or a pause and a failure, cleared last_notified_at before a run saw
\* the site up.
LastingSiteRecoveryTold ==
    /\ <>[](site = "up" /\ SiteWatched)
    /\ <>[](row.probe = "off") \/ CronKeepsChecking
    => <>[](hist.told # "down" \/ hist.dropped)
=============================================================================
