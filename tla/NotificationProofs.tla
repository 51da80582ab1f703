------------------------- MODULE NotificationProofs -------------------------
(***************************************************************************)
(* Proofs about the two checks of the Worker's cron that send alerts: the  *)
(* offline check of the nodes (OfflineNotify), for any set of nodes and    *)
(* overlapping runs and every grace period, and the check of a website     *)
(* (WebsiteMonitor), for any number of checks, results, edits and failing  *)
(* calls.  They share no state and their theorems are independent.         *)
(***************************************************************************)
EXTENDS OfflineNotify, WebsiteMonitor, TLAPS

(* What a run remembers after each of its steps is again a run state.       *)
LEMMA RunStates ==
  ASSUME NEW st \in RunState, NEW L \in SUBSET Node, NEW M \in SUBSET Node,
         NEW ph \in Phase
  PROVE  /\ [st EXCEPT !.phase = ph, !.listed = L, !.notified = M] \in RunState
         /\ [st EXCEPT !.phase = ph, !.alert = L, !.recover = M] \in RunState
         /\ [st EXCEPT !.phase = ph, !.listed = M] \in RunState
BY DEF RunState

(* Every step of a run, a node or the administrator keeps the types.        *)
LEMMA TypeStep == TypeOK /\ [Next]_vars => TypeOK'
<1> SUFFICES ASSUME TypeOK, [Next]_vars PROVE TypeOK'
  OBVIOUS
<1> USE NotifyAssumption DEF TypeOK, Phase, MaxAlerts
<1>a. Idle \in RunState
  BY DEF Idle, RunState
<1>1. ASSUME NEW n \in Node, Report(n) PROVE TypeOK'
  <2>1. \A r \in Run : [run[r] EXCEPT !.silent = @ \ {n}] \in RunState
    BY DEF RunState
  <2>2. run' \in [Run -> RunState]
    BY <1>1, <2>1 DEF Report
  <2> QED BY <1>1, <2>2 DEF Report, db
<1>2. CASE Tick
  BY <1>2 DEF Tick, db, sent, Silent
<1>3. ASSUME NEW n \in Node, NEW on \in BOOLEAN, SetOfflineNotification(n, on)
      PROVE  TypeOK'
  BY <1>3 DEF SetOfflineNotification
<1>4. ASSUME NEW r \in Run, RunStart(r) PROVE TypeOK'
  <2>1. [Idle EXCEPT !.phase = "list", !.silent = {n \in Node : Silent(n)}] \in RunState
    BY DEF Idle, RunState
  <2>2. run' \in [Run -> RunState]
    BY <1>4, <2>1 DEF RunStart
  <2>3. reported' \in [Node -> BOOLEAN]
    BY <1>4 DEF RunStart
  <2> QED BY <1>4, <2>2, <2>3 DEF RunStart, db, sent
<1>5. ASSUME NEW r \in Run, RunList(r) PROVE TypeOK'
  <2> DEFINE listed == {n \in Node : enable[n]}
  <2>1. [run[r] EXCEPT !.phase = "read", !.listed = listed,
                       !.notified = {n \in listed : lastNotified[n]}] \in RunState
    <3>1. listed \in SUBSET Node /\ {n \in listed : lastNotified[n]} \in SUBSET Node
          /\ run[r] \in RunState /\ "read" \in Phase
      OBVIOUS
    <3> HIDE DEF listed
    <3> QED BY <3>1, RunStates
  <2>2. run' \in [Run -> RunState]
    BY <1>5, <1>a, <2>1 DEF RunList
  <2> QED BY <1>5, <2>2 DEF RunList, db, sent
<1>6. ASSUME NEW r \in Run, RunRead(r) PROVE TypeOK'
  <2>1. OfflineEvents(r) \subseteq Node /\ RecoveryEvents(r) \subseteq Node
    BY DEF OfflineEvents, RecoveryEvents, RunState
  <2>2. run' \in [Run -> RunState]
    <3>1. [run[r] EXCEPT !.phase = "loop", !.alert = OfflineEvents(r),
                         !.recover = RecoveryEvents(r)] \in RunState
      BY <2>1, RunStates
    <3> QED BY <1>6, <3>1 DEF RunRead
  <2> QED BY <1>6, <2>2 DEF RunRead, db, sent
<1>7. ASSUME NEW r \in Run, NEW n \in Node, NEW arrived \in Outcomes,
             RunAlert(r, n, arrived)
      PROVE  TypeOK'
  <2>1. run' \in [Run -> RunState]
    <3>1. [run[r] EXCEPT !.phase = "alerted", !.alert = run[r].alert \ {n}, !.listed = {n}]
            \in RunState
      <4>1. run[r] \in RunState /\ {n} \in SUBSET Node
        OBVIOUS
      <4> QED BY <4>1 DEF RunState
    <3>2. run' = [run EXCEPT ![r] = [run[r] EXCEPT !.phase = "alerted",
                                       !.alert = run[r].alert \ {n}, !.listed = {n}]]
      BY <1>7 DEF RunAlert
    <3> QED BY <3>1, <3>2
  <2> QED BY <1>7, <2>1 DEF RunAlert, db
<1>8. ASSUME NEW r \in Run, NEW n \in Node, NEW arrived \in Outcomes,
             RunRecover(r, n, arrived)
      PROVE  TypeOK'
  <2>1. run' \in [Run -> RunState]
    <3>1. [run[r] EXCEPT !.phase = "recovered", !.recover = run[r].recover \ {n}, !.listed = {n}]
            \in RunState
      <4>1. run[r] \in RunState /\ {n} \in SUBSET Node
        OBVIOUS
      <4> QED BY <4>1 DEF RunState
    <3>2. run' = [run EXCEPT ![r] = [run[r] EXCEPT !.phase = "recovered",
                                       !.recover = run[r].recover \ {n}, !.listed = {n}]]
      BY <1>8 DEF RunRecover
    <3> QED BY <3>1, <3>2
  <2> QED BY <1>8, <2>1 DEF RunRecover, db
<1>9. ASSUME NEW r \in Run, RunMark(r) PROVE TypeOK'
  <2>1. run' \in [Run -> RunState]
    <3>1. [run[r] EXCEPT !.phase = "loop", !.listed = {}] \in RunState
      BY RunStates
    <3> QED BY <1>9, <3>1 DEF RunMark
  <2> QED BY <1>9, <2>1 DEF RunMark, sent
<1>10. ASSUME NEW r \in Run, RunEnd(r) \/ RunFails(r) PROVE TypeOK'
  BY <1>10, <1>a DEF RunEnd, RunFails, db, sent
<1>11. CASE UNCHANGED vars
  BY <1>11 DEF vars
<1> HIDE DEF TypeOK
<1> QED
  BY <1>1, <1>2, <1>3, <1>4, <1>5, <1>6, <1>7, <1>8, <1>9, <1>10, <1>11
  DEF Next, Send

LEMMA TypeInit == Init => TypeOK
BY NotifyAssumption DEF Init, TypeOK, Idle, RunState, Phase, MaxAlerts

(* TypeOK holds in every reachable state of the offline check.              *)
THEOREM TypeCorrect == Spec => []TypeOK
BY TypeInit, TypeStep, PTL DEF Spec

----------------------------------------------------------------------------
(* What a run has in hand: its events exist only in its loop, no node has    *)
(* two, and the rows it found notified are among those it listed.           *)
InHand ==
    \A r \in Run :
        /\ run[r].phase \in {"idle", "list", "read"} => run[r].alert = {} /\ run[r].recover = {}
        /\ run[r].alert \cap run[r].recover = {}
        /\ run[r].phase = "read" => run[r].notified \subseteq run[r].listed

(* The last message said that the node is down, or the channel refused it.  *)
Told(n) == told[n] = "down" \/ n \in refused

(* What a run is about to do with a node agrees with what was sent of it:   *)
(* an alert follows no other, a recovery follows an alert, and a message    *)
(* that is not written yet is known to nobody else.                         *)
RunSure(r, n) ==
    /\ run[r].phase = "read" /\ n \in run[r].listed \ run[r].notified => alerts[n] = 0
    /\ run[r].phase = "read" /\ n \in run[r].notified => Told(n)
    /\ n \in run[r].alert => alerts[n] = 0
    /\ n \in run[r].recover => Told(n)
    /\ run[r].phase = "alerted" /\ n \in run[r].listed => Told(n)
    /\ run[r].phase = "recovered" /\ n \in run[r].listed => alerts[n] = 0
    /\ Unwritten(r, n) => ~HandledBeside(r, n)

(* So does the row, up to the messages that are still to be written.        *)
RowSure(n) ==
    /\ \/ alerts[n] = 0 \/ lastNotified[n]
       \/ \E r \in Run : run[r].phase = "alerted" /\ n \in run[r].listed
    /\ lastNotified[n] =>
         \/ Told(n)
         \/ \E r \in Run : run[r].phase = "recovered" /\ n \in run[r].listed

Sure(n) == RowSure(n) /\ \A r \in Run : RunSure(r, n)

NotifyInv == TypeOK /\ InHand /\ \A n \in Node : n \in doubt \/ Sure(n)

LEMMA NotifyInvInit == Init => NotifyInv
<1> SUFFICES ASSUME Init PROVE NotifyInv
  OBVIOUS
<1>1. TypeOK
  BY TypeInit
<1>2. \A r \in Run : /\ run[r].phase = "idle" /\ run[r].alert = {} /\ run[r].recover = {}
  BY DEF Init, Idle
<1>3. InHand
  BY <1>2 DEF InHand
<1>4. ASSUME NEW n \in Node PROVE Sure(n)
  BY <1>2 DEF Init, Sure, RowSure, RunSure, Unwritten
<1> QED BY <1>1, <1>3, <1>4 DEF NotifyInv

(* A message about n leaves the run with one event less.                    *)
LEMMA SentState ==
  ASSUME TypeOK, NEW r \in Run, NEW n \in Node, NEW arrived \in Outcomes,
         RunAlert(r, n, arrived) \/ RunRecover(r, n, arrived)
  PROVE  /\ run[r].phase = "loop" /\ run'[r].phase \in {"alerted", "recovered"}
         /\ run'[r].listed = {n}
         /\ run'[r].alert \subseteq run[r].alert /\ run'[r].recover \subseteq run[r].recover
         /\ \A q \in Run : q # r => run'[q] = run[q]
<1>t. run \in [Run -> RunState]
  BY DEF TypeOK
<1>1. CASE RunAlert(r, n, arrived)
  BY <1>1, <1>t DEF RunAlert, RunState
<1>2. CASE RunRecover(r, n, arrived)
  BY <1>2, <1>t DEF RunRecover, RunState
<1> QED BY <1>1, <1>2

LEMMA InHandStep == TypeOK /\ InHand /\ [Next]_vars => InHand'
<1> SUFFICES ASSUME TypeOK, InHand, [Next]_vars PROVE InHand'
  OBVIOUS
<1> DEFINE Fine(st) ==
      /\ st.phase \in {"idle", "list", "read"} => st.alert = {} /\ st.recover = {}
      /\ st.alert \cap st.recover = {}
      /\ st.phase = "read" => st.notified \subseteq st.listed
<1>0. InHand <=> \A r \in Run : Fine(run[r])
  BY DEF InHand
<1>a. ASSUME NEW r \in Run, \A q \in Run : q # r => run'[q] = run[q], Fine(run'[r])
      PROVE  InHand'
  <2>1. \A q \in Run : Fine(run'[q])
    BY <1>0, <1>a
  <2> QED BY <2>1 DEF InHand
<1>b. Fine(Idle)
  BY DEF Idle
<1>t. \A r \in Run : run[r] \in RunState
  BY DEF TypeOK
<1>1. ASSUME NEW n \in Node, Report(n) PROVE InHand'
  <2>1. \A r \in Run : /\ run'[r].phase = run[r].phase
                       /\ run'[r].listed = run[r].listed
                       /\ run'[r].notified = run[r].notified
                       /\ run'[r].alert = run[r].alert
                       /\ run'[r].recover = run[r].recover
    BY <1>1, <1>t DEF Report, RunState
  <2> QED BY <2>1 DEF InHand
<1>2. ASSUME run' = run PROVE InHand'
  BY <1>2 DEF InHand
<1>3. ASSUME NEW r \in Run, RunStart(r) PROVE InHand'
  <2>1. run'[r] = [Idle EXCEPT !.phase = "list", !.silent = {n \in Node : Silent(n)}]
    BY <1>3 DEF RunStart, TypeOK
  <2>2. Fine(run'[r])
    BY <2>1 DEF Idle
  <2> QED BY <1>3, <1>a, <2>2 DEF RunStart, TypeOK
<1>4. ASSUME NEW r \in Run, RunList(r) PROVE InHand'
  <2>1. run[r].phase = "list" /\ run[r].alert = {} /\ run[r].recover = {}
    BY <1>4 DEF RunList, InHand
  <2>2. \/ run'[r] = Idle
        \/ /\ run'[r].alert = run[r].alert /\ run'[r].recover = run[r].recover
           /\ run'[r].notified \subseteq run'[r].listed
    BY <1>4, <1>t DEF RunList, TypeOK, RunState
  <2>3. Fine(run'[r])
    BY <1>b, <2>1, <2>2
  <2> QED BY <1>4, <1>a, <2>3 DEF RunList, TypeOK
<1>5. ASSUME NEW r \in Run, RunRead(r) PROVE InHand'
  <2>1. /\ run'[r].phase = "loop" /\ run'[r].alert = OfflineEvents(r)
        /\ run'[r].recover = RecoveryEvents(r)
    BY <1>5, <1>t DEF RunRead, TypeOK, RunState
  <2>2. Fine(run'[r])
    BY <2>1 DEF OfflineEvents, RecoveryEvents
  <2> QED BY <1>5, <1>a, <2>2 DEF RunRead, TypeOK
<1>6. ASSUME NEW r \in Run, NEW n \in Node, NEW arrived \in Outcomes,
             RunAlert(r, n, arrived) \/ RunRecover(r, n, arrived)
      PROVE  InHand'
  <2>1. /\ run'[r].phase \in {"alerted", "recovered"}
        /\ run'[r].alert \subseteq run[r].alert /\ run'[r].recover \subseteq run[r].recover
    BY <1>6, SentState
  <2>2. Fine(run'[r])
    BY <2>1 DEF InHand
  <2> QED BY <1>6, <1>a, <2>2 DEF RunAlert, RunRecover, TypeOK
<1>7. ASSUME NEW r \in Run, RunMark(r) PROVE InHand'
  <2>1. /\ run'[r].phase = "loop"
        /\ run'[r].alert = run[r].alert /\ run'[r].recover = run[r].recover
    BY <1>7, <1>t DEF RunMark, TypeOK, RunState
  <2>2. Fine(run'[r])
    BY <2>1 DEF InHand
  <2> QED BY <1>7, <1>a, <2>2 DEF RunMark, TypeOK
<1>8. ASSUME NEW r \in Run, RunEnd(r) \/ RunFails(r) PROVE InHand'
  <2>1. run'[r] = Idle /\ \A q \in Run : q # r => run'[q] = run[q]
    BY <1>8 DEF RunEnd, RunFails, TypeOK
  <2>2. Fine(run'[r])
    BY <1>b, <2>1
  <2> QED BY <1>a, <2>1, <2>2
<1> HIDE DEF Fine
<1> QED
  BY <1>1, <1>2, <1>3, <1>4, <1>5, <1>6, <1>7, <1>8
  DEF Next, Send, Tick, SetOfflineNotification, vars

(* A node no run was in doubt about stays so, and a run that sends a message *)
(* while no other has the node in hand leaves no doubt about it.            *)
LEMMA SureStep ==
  ASSUME NotifyInv, Next, NEW m \in Node, m \notin doubt'
  PROVE  Sure(m)'
<1> DEFINE Alerted(r) == run[r].phase = "alerted" /\ m \in run[r].listed
           Recovered(r) == run[r].phase = "recovered" /\ m \in run[r].listed
<1>t. /\ \A r \in Run : run[r] \in RunState
      /\ run \in [Run -> RunState] /\ alerts \in [Node -> 0..MaxAlerts]
      /\ told \in [Node -> {"up", "down"}] /\ lastNotified \in [Node -> BOOLEAN]
      /\ InHand
  BY DEF NotifyInv, TypeOK
\* No run changed but in what it knows of silences.
<1>a. ASSUME \A r \in Run : /\ run'[r].phase = run[r].phase
                            /\ run'[r].listed = run[r].listed
                            /\ run'[r].notified = run[r].notified
                            /\ run'[r].alert = run[r].alert
                            /\ run'[r].recover = run[r].recover,
             Sure(m), told' = told, refused' = refused,
             \/ alerts'[m] = 0 /\ (lastNotified'[m] => lastNotified[m])
             \/ alerts'[m] = alerts[m] /\ lastNotified'[m] = lastNotified[m]
      PROVE  Sure(m)'
  <2>1. /\ \A r \in Run : Handles(r, m)' = Handles(r, m) /\ Unwritten(r, m)' = Unwritten(r, m)
    BY <1>a DEF Handles, Unwritten
  <2>2. \A r \in Run : HandledBeside(r, m)' = HandledBeside(r, m)
    BY <2>1 DEF HandledBeside
  <2>3. Told(m)' = Told(m)
    BY <1>a DEF Told
  <2>4. RowSure(m)'
    BY <1>a, <2>3 DEF Sure, RowSure
  <2>5. \A r \in Run : RunSure(r, m)'
    BY <1>a, <2>1, <2>2, <2>3 DEF Sure, RunSure
  <2> QED BY <2>4, <2>5 DEF Sure
\* One run moved, and what it has in hand it had before.
<1>b. ASSUME NEW r \in Run, \A q \in Run : q # r => run'[q] = run[q], Sure(m),
             alerts'[m] = alerts[m], lastNotified'[m] = lastNotified[m],
             told'[m] = told[m], m \in refused' <=> m \in refused,
             ~Unwritten(r, m), ~Unwritten(r, m)',
             Handles(r, m)' => Handles(r, m),
             run'[r].phase # "read",
             m \in run'[r].alert => alerts[m] = 0,
             m \in run'[r].recover => Told(m)
      PROVE  Sure(m)'
  <2>1. \A q \in Run : q # r => Handles(q, m)' = Handles(q, m)
                                /\ Unwritten(q, m)' = Unwritten(q, m)
    BY <1>b DEF Handles, Unwritten
  <2>2. \A q \in Run : HandledBeside(q, m)' => HandledBeside(q, m)
    BY <1>b, <2>1 DEF HandledBeside
  <2>3. Told(m)' = Told(m)
    BY <1>b DEF Told
  <2>4. \A q \in Run : Alerted(q)' = Alerted(q) /\ Recovered(q)' = Recovered(q)
    BY <1>b DEF Unwritten
  <2>5. RowSure(m)'
    BY <1>b, <2>3, <2>4 DEF Sure, RowSure
  <2>6. RunSure(r, m)'
    BY <1>b, <2>3 DEF RunSure, Unwritten
  <2>7. ASSUME NEW q \in Run, q # r PROVE RunSure(q, m)'
    BY <1>b, <2>1, <2>2, <2>3, <2>7 DEF Sure, RunSure
  <2> QED BY <2>5, <2>6, <2>7 DEF Sure
<1>1. ASSUME NEW n \in Node, Report(n) PROVE Sure(m)'
  <2>1. \A r \in Run : /\ run'[r].phase = run[r].phase
                       /\ run'[r].listed = run[r].listed
                       /\ run'[r].notified = run[r].notified
                       /\ run'[r].alert = run[r].alert
                       /\ run'[r].recover = run[r].recover
    BY <1>1, <1>t DEF Report, RunState
  <2>2. Sure(m) /\ told' = told /\ refused' = refused /\ lastNotified' = lastNotified
        /\ alerts'[m] \in {0, alerts[m]}
    BY <1>1, <1>t DEF Report, db, NotifyInv
  <2> QED BY <1>a, <2>1, <2>2
<1>2. CASE Tick
  <2>1. Sure(m) /\ run' = run /\ told' = told /\ refused' = refused
        /\ lastNotified' = lastNotified /\ alerts' = alerts
    BY <1>2 DEF Tick, db, sent, NotifyInv
  <2> QED BY <1>a, <2>1
<1>3. ASSUME NEW n \in Node, NEW on \in BOOLEAN, SetOfflineNotification(n, on)
      PROVE  Sure(m)'
  <2>1. Sure(m) /\ run' = run /\ told' = told /\ refused' = refused
    BY <1>3 DEF SetOfflineNotification, NotifyInv
  <2>2. \/ alerts'[m] = 0 /\ (lastNotified'[m] => lastNotified[m])
        \/ alerts'[m] = alerts[m] /\ lastNotified'[m] = lastNotified[m]
    BY <1>3, <1>t DEF SetOfflineNotification
  <2> QED BY <1>a, <2>1, <2>2
<1>4. ASSUME NEW r \in Run, RunStart(r) PROVE Sure(m)'
  <2>1. Sure(m) /\ told' = told /\ refused' = refused /\ lastNotified' = lastNotified
        /\ alerts' = alerts
    BY <1>4 DEF RunStart, db, sent, NotifyInv
  <2>2. run'[r] = [Idle EXCEPT !.phase = "list", !.silent = {n \in Node : Silent(n)}]
        /\ run[r].phase = "idle" /\ \A q \in Run : q # r => run'[q] = run[q]
    BY <1>4, <1>t DEF RunStart
  <2>3. run'[r].phase = "list" /\ run'[r].alert = {} /\ run'[r].recover = {}
    BY <2>2 DEF Idle
  <2> QED BY <1>b, <2>1, <2>2, <2>3 DEF Unwritten, Handles
<1>5. ASSUME NEW r \in Run, RunList(r) PROVE Sure(m)'
  <2>1. Sure(m) /\ told' = told /\ refused' = refused /\ lastNotified' = lastNotified
        /\ alerts' = alerts
    BY <1>5 DEF RunList, db, sent, NotifyInv
  <2>2. /\ run[r].phase = "list" /\ run[r].alert = {} /\ run[r].recover = {}
        /\ \A q \in Run : q # r => run'[q] = run[q]
    BY <1>5, <1>t DEF RunList, InHand
  <2>3. CASE run'[r] = Idle
    <3>1. run'[r].phase = "idle" /\ run'[r].alert = {} /\ run'[r].recover = {}
      BY <2>3 DEF Idle
    <3> QED BY <1>b, <2>1, <2>2, <3>1 DEF Unwritten, Handles
  <2>4. CASE run'[r] # Idle
    <3>1. /\ run'[r].phase = "read" /\ run'[r].listed = {n \in Node : enable[n]}
          /\ run'[r].notified = {n \in run'[r].listed : lastNotified[n]}
          /\ run'[r].alert = {} /\ run'[r].recover = {}
      BY <1>5, <1>t, <2>2, <2>4 DEF RunList, RunState
    <3>2. m \in run'[r].listed => \A q \in Run : ~Unwritten(q, m)
      BY <1>5, <3>1 DEF RunList
    <3>3. \A q \in Run : q # r => Handles(q, m)' = Handles(q, m)
                                  /\ Unwritten(q, m)' = Unwritten(q, m)
      BY <2>2 DEF Handles, Unwritten
    <3>4. Told(m)' = Told(m)
      BY <2>1 DEF Told
    <3>5. \A q \in Run : Alerted(q)' = Alerted(q) /\ Recovered(q)' = Recovered(q)
      BY <2>2, <3>1
    <3>6. RowSure(m)'
      BY <2>1, <3>4, <3>5 DEF Sure, RowSure
    <3>7. RunSure(r, m)'
      BY <2>1, <3>1, <3>2, <3>4 DEF Sure, RowSure, RunSure, Unwritten
    <3>8. ASSUME NEW q \in Run, q # r PROVE RunSure(q, m)'
      <4>1. Unwritten(q, m) => ~HandledBeside(q, m)'
        <5> SUFFICES ASSUME Unwritten(q, m) PROVE ~HandledBeside(q, m)'
          OBVIOUS
        <5>1. ~HandledBeside(q, m)
          BY <2>1 DEF Sure, RunSure
        <5>2. ~Handles(r, m)'
          BY <3>1, <3>2 DEF Handles, Unwritten
        <5> QED BY <3>3, <5>1, <5>2 DEF HandledBeside
      <4> QED BY <2>1, <2>2, <3>3, <3>4, <3>8, <4>1 DEF Sure, RunSure
    <3> QED BY <3>6, <3>7, <3>8 DEF Sure
  <2> QED BY <2>3, <2>4
<1>6. ASSUME NEW r \in Run, RunRead(r) PROVE Sure(m)'
  <2>1. Sure(m) /\ told' = told /\ refused' = refused /\ lastNotified' = lastNotified
        /\ alerts' = alerts
    BY <1>6 DEF RunRead, db, sent, NotifyInv
  <2>2. /\ run[r].phase = "read" /\ run'[r].phase = "loop"
        /\ run'[r].alert = OfflineEvents(r) /\ run'[r].recover = RecoveryEvents(r)
        /\ \A q \in Run : q # r => run'[q] = run[q]
    BY <1>6, <1>t DEF RunRead, RunState
  <2>3. /\ OfflineEvents(r) \subseteq run[r].listed \ run[r].notified
        /\ RecoveryEvents(r) \subseteq run[r].notified
        /\ run[r].notified \subseteq run[r].listed
    BY <1>t, <2>2 DEF OfflineEvents, RecoveryEvents, InHand
  <2>4. /\ m \in run'[r].alert => alerts[m] = 0
        /\ m \in run'[r].recover => Told(m)
    BY <2>1, <2>2, <2>3 DEF Sure, RunSure
  <2>5. Handles(r, m)' => Handles(r, m)
    BY <2>2, <2>3 DEF Handles, Unwritten
  <2>6. ~Unwritten(r, m) /\ ~Unwritten(r, m)'
    BY <2>2 DEF Unwritten
  <2> QED BY <1>b, <2>1, <2>2, <2>4, <2>5, <2>6
\* A message about n from r: of n it is the last word unless another run has n in hand.
<1>c. ASSUME NEW r \in Run, NEW n \in Node, NEW arrived \in Outcomes,
             RunAlert(r, n, arrived) \/ RunRecover(r, n, arrived), m # n
      PROVE  Sure(m)'
  <2>1. m \notin doubt
    BY <1>c DEF RunAlert, RunRecover
  <2>2. Sure(m) /\ told'[m] = told[m] /\ (m \in refused' <=> m \in refused)
        /\ lastNotified'[m] = lastNotified[m] /\ alerts'[m] = alerts[m]
    BY <1>c, <1>t, <2>1 DEF RunAlert, RunRecover, db, NotifyInv
  <2>3. /\ run[r].phase = "loop" /\ run'[r].phase \in {"alerted", "recovered"}
        /\ run'[r].listed = {n}
        /\ run'[r].alert \subseteq run[r].alert /\ run'[r].recover \subseteq run[r].recover
        /\ \A q \in Run : q # r => run'[q] = run[q]
    BY <1>c, SentState DEF NotifyInv
  <2>4. ~Unwritten(r, m) /\ ~Unwritten(r, m)' /\ (Handles(r, m)' => Handles(r, m))
    BY <1>c, <2>3 DEF Unwritten, Handles
  <2>5. /\ m \in run'[r].alert => alerts[m] = 0
        /\ m \in run'[r].recover => Told(m)
    BY <2>2, <2>3 DEF Sure, RunSure
  <2> QED BY <1>b, <2>2, <2>3, <2>4, <2>5
<1>7. ASSUME NEW r \in Run, NEW n \in Node, NEW arrived \in Outcomes,
             RunAlert(r, n, arrived), m = n
      PROVE  Sure(m)'
  <2>1. ~HandledBeside(r, m)
    BY <1>7 DEF RunAlert
  <2>2. /\ run[r].phase = "loop" /\ run'[r].phase = "alerted" /\ run'[r].listed = {m}
        /\ m \notin run'[r].alert /\ m \notin run'[r].recover
        /\ \A q \in Run : q # r => run'[q] = run[q]
    BY <1>7, <1>t DEF RunAlert, RunState, InHand
  <2>3. Told(m)'
    BY <1>7, <1>t DEF RunAlert, Told
  <2>4. \A q \in Run : q # r => ~Handles(q, m)'
    BY <2>1, <2>2 DEF HandledBeside, Handles, Unwritten
  <2>5. RowSure(m)'
    BY <2>2, <2>3 DEF RowSure
  <2>6. RunSure(r, m)'
    BY <2>2, <2>3, <2>4 DEF RunSure, HandledBeside
  <2>7. ASSUME NEW q \in Run, q # r PROVE RunSure(q, m)'
    <3>1. run'[q].phase \in {"idle", "list", "read"} => run'[q].alert = {} /\ run'[q].recover = {}
      BY <1>t, <2>2, <2>7 DEF InHand
    <3>2. run'[q].phase \in Phase /\ ~Handles(q, m)'
      BY <1>t, <2>2, <2>4, <2>7 DEF RunState
    <3>3. m \notin run'[q].alert /\ m \notin run'[q].recover
      BY <3>1, <3>2 DEF Handles, Phase
    <3>4. run'[q].phase = "read" /\ m \in run'[q].notified => m \in run'[q].listed
      BY <1>t, <2>2, <2>7 DEF InHand
    <3> QED BY <3>2, <3>3, <3>4 DEF RunSure, Handles, Unwritten
  <2> QED BY <2>5, <2>6, <2>7 DEF Sure
<1>8. ASSUME NEW r \in Run, NEW n \in Node, NEW arrived \in Outcomes,
             RunRecover(r, n, arrived), m = n
      PROVE  Sure(m)'
  <2>1. ~HandledBeside(r, m)
    BY <1>8 DEF RunRecover
  <2>2. /\ run[r].phase = "loop" /\ run'[r].phase = "recovered" /\ run'[r].listed = {m}
        /\ m \notin run'[r].alert /\ m \notin run'[r].recover
        /\ \A q \in Run : q # r => run'[q] = run[q]
    BY <1>8, <1>t DEF RunRecover, RunState, InHand
  <2>3. alerts'[m] = 0
    BY <1>8, <1>t DEF RunRecover
  <2>4. \A q \in Run : q # r => ~Handles(q, m)'
    BY <2>1, <2>2 DEF HandledBeside, Handles, Unwritten
  <2>5. RowSure(m)'
    BY <2>2, <2>3 DEF RowSure
  <2>6. RunSure(r, m)'
    BY <2>2, <2>3, <2>4 DEF RunSure, HandledBeside
  <2>7. ASSUME NEW q \in Run, q # r PROVE RunSure(q, m)'
    <3>1. run'[q].phase \in {"idle", "list", "read"} => run'[q].alert = {} /\ run'[q].recover = {}
      BY <1>t, <2>2, <2>7 DEF InHand
    <3>2. run'[q].phase \in Phase /\ ~Handles(q, m)'
      BY <1>t, <2>2, <2>4, <2>7 DEF RunState
    <3>3. m \notin run'[q].alert /\ m \notin run'[q].recover
      BY <3>1, <3>2 DEF Handles, Phase
    <3>4. run'[q].phase = "read" /\ m \in run'[q].notified => m \in run'[q].listed
      BY <1>t, <2>2, <2>7 DEF InHand
    <3> QED BY <3>2, <3>3, <3>4 DEF RunSure, Handles, Unwritten
  <2> QED BY <2>5, <2>6, <2>7 DEF Sure
<1>9. ASSUME NEW r \in Run, RunMark(r) PROVE Sure(m)'
  <2>1. Sure(m) /\ told' = told /\ refused' = refused /\ alerts' = alerts
    BY <1>9 DEF RunMark, sent, NotifyInv
  <2>2. /\ run[r].phase \in {"alerted", "recovered"} /\ run'[r].phase = "loop"
        /\ run'[r].listed = {}
        /\ run'[r].alert = run[r].alert /\ run'[r].recover = run[r].recover
        /\ \A q \in Run : q # r => run'[q] = run[q]
    BY <1>9, <1>t DEF RunMark, RunState
  <2>3. /\ m \in run'[r].alert => alerts[m] = 0
        /\ m \in run'[r].recover => Told(m)
    BY <2>1, <2>2 DEF Sure, RunSure
  <2>4. ~Unwritten(r, m)' /\ (Handles(r, m)' => Handles(r, m))
    BY <2>2 DEF Unwritten, Handles
  <2>5. CASE m \notin run[r].listed
    <3>1. lastNotified'[m] = lastNotified[m] /\ ~Unwritten(r, m)
      BY <1>9, <1>t, <2>5 DEF RunMark, Unwritten
    <3> QED BY <1>b, <2>1, <2>2, <2>3, <2>4, <3>1
  <2>6. CASE m \in run[r].listed
    <3>1. lastNotified'[m] = (run[r].phase = "alerted")
      BY <1>9, <1>t, <2>6 DEF RunMark
    <3>2. ~HandledBeside(r, m)
      BY <2>1, <2>2, <2>6 DEF Sure, RunSure, Unwritten
    <3>3. \A q \in Run : q # r => ~Unwritten(q, m)
      BY <3>2 DEF HandledBeside, Handles
    <3>4. Told(m)' = Told(m)
      BY <2>1 DEF Told
    <3>5. IF run[r].phase = "alerted" THEN Told(m) ELSE alerts[m] = 0
      BY <2>1, <2>2, <2>6 DEF Sure, RunSure
    <3>6. RowSure(m)'
      BY <2>1, <2>2, <3>1, <3>4, <3>5 DEF RowSure
    <3>7. RunSure(r, m)'
      BY <2>1, <2>2, <2>3, <2>4, <3>4 DEF RunSure
    <3>8. ASSUME NEW q \in Run, q # r PROVE RunSure(q, m)'
      BY <2>1, <2>2, <3>3, <3>4, <3>8 DEF Sure, RunSure, Unwritten
    <3> QED BY <3>6, <3>7, <3>8 DEF Sure
  <2> QED BY <2>5, <2>6
<1>10. ASSUME NEW r \in Run, RunEnd(r) \/ RunFails(r) PROVE Sure(m)'
  <2>1. m \notin doubt /\ ~Unwritten(r, m)
    BY <1>10 DEF RunEnd, RunFails, Unwritten
  <2>2. Sure(m) /\ told' = told /\ refused' = refused /\ lastNotified' = lastNotified
        /\ alerts' = alerts
    BY <1>10, <2>1 DEF RunEnd, RunFails, db, sent, NotifyInv
  <2>3. run'[r] = Idle /\ \A q \in Run : q # r => run'[q] = run[q]
    BY <1>10, <1>t DEF RunEnd, RunFails
  <2>4. run'[r].phase = "idle" /\ run'[r].alert = {} /\ run'[r].recover = {}
    BY <2>3 DEF Idle
  <2> QED BY <1>b, <2>1, <2>2, <2>3, <2>4 DEF Unwritten, Handles
<1> HIDE DEF Alerted, Recovered
<1>11. ASSUME NEW r \in Run, NEW n \in Node, NEW arrived \in Outcomes,
              RunAlert(r, n, arrived) \/ RunRecover(r, n, arrived)
       PROVE  Sure(m)'
  BY <1>c, <1>7, <1>8, <1>11
<1> QED
  BY <1>1, <1>2, <1>3, <1>4, <1>5, <1>6, <1>9, <1>10, <1>11
  DEF Next, Send

LEMMA NotifyInvStep == NotifyInv /\ [Next]_vars => NotifyInv'
<1> SUFFICES ASSUME NotifyInv, [Next]_vars PROVE NotifyInv'
  OBVIOUS
<1>1. TypeOK' /\ InHand'
  BY TypeStep, InHandStep DEF NotifyInv
<1>2. CASE Next
  BY <1>1, <1>2, SureStep DEF NotifyInv
<1>3. CASE UNCHANGED vars
  BY <1>1, <1>3 DEF vars, NotifyInv, Sure, RowSure, RunSure, Told, Unwritten, Handles,
                    HandledBeside
<1> QED BY <1>2, <1>3

LEMMA NotifyAlways == Spec => []NotifyInv
BY NotifyInvInit, NotifyInvStep, PTL DEF Spec

(* AlertOncePerFault: for any number of overlapping and failing runs, a run  *)
(* has a second alert of one fault to send only of a node in doubt: another *)
(* run had it in hand at the same time, or one ended before its write.      *)
THEOREM OncePerFault == Spec => []AlertOncePerFault
<1>1. NotifyInv => AlertOncePerFault
  BY DEF NotifyInv, TypeOK, AlertOncePerFault, Sure, RunSure
<1> QED BY <1>1, NotifyAlways, PTL

(* RecoveryOnlyAfterAlert: whatever nodes, administrators, other runs and the *)
(* channel do, a run has a recovery to announce only of a node that was last  *)
(* said to be down, whose last message was refused, or that is in doubt.      *)
THEOREM RecoveryOfTheTold == Spec => []RecoveryOnlyAfterAlert
<1>1. NotifyInv => RecoveryOnlyAfterAlert
  BY DEF NotifyInv, RecoveryOnlyAfterAlert, Sure, RunSure, Told
<1> QED BY <1>1, NotifyAlways, PTL

-----------------------------------------------------------------------------
(* WebsiteMonitor: one alert per outage, recoveries after alerts.            *)

\* Failing calls are paid from the budget.
FaultsPaid == hist.faults + hist.left <= Budget

\* While an outage is not marked and no mark is under way, it had no alert that a
\* failing call does not excuse; a run that holds an alert, or has announced the
\* recovery from the outage before, finds the same.
AlertsAccounted ==
    /\ hist.alerts <= 1 + hist.faults
    /\ row.status = "down" /\ ~row.notified /\ at["cron"] # "marked"
         => hist.alerts <= hist.faults
    /\ at["cron"] = "alert" => hist.alerts <= hist.faults
    /\ at["cron"] \in {"recovery", "unmarked"} /\ row.status = "down"
         => hist.alerts <= hist.faults

\* Without failing calls, the mark in the row, the mark under way and the recovery
\* to be sent all stand for an alert that was the last thing told.
MarkMeansTold ==
    hist.faults = 0 =>
        /\ at["cron"] \in {"marked", "recovery"} => hist.told = "down"
        /\ row.notified /\ at["cron"] # "unmarked" => hist.told = "down"

AlertInv == MonitorTypeOK /\ FaultsPaid /\ AlertsAccounted /\ MarkMeansTold

-----------------------------------------------------------------------------
LEMMA AlertInit == MonitorInit => AlertInv
<1> SUFFICES ASSUME MonitorInit PROVE AlertInv
  OBVIOUS
<1> USE WebsiteAssumption DEF MonitorInit, Probe, Site, Checker
<1>1. /\ hist.left = Budget /\ hist.told = "none" /\ hist.alerts = 0 /\ hist.faults = 0
      /\ row.status = "pending" /\ row.notified = FALSE /\ at["cron"] = "idle"
  OBVIOUS
<1>2. row \in [enabled : BOOLEAN, probe : Probe, since : {"none", "young", "old"},
               status : {"pending", "up", "down", "paused"}, notified : BOOLEAN]
  OBVIOUS
<1>3. hist \in [left : 0 .. Budget, told : Site \union {"none"}, alerts : 0 .. Budget + 1,
                faults : 0 .. Budget, dropped : BOOLEAN]
  OBVIOUS
<1>4. MonitorTypeOK
  BY <1>2, <1>3 DEF MonitorTypeOK
<1>5. FaultsPaid /\ AlertsAccounted /\ MarkMeansTold
  BY <1>1 DEF FaultsPaid, AlertsAccounted, MarkMeansTold
<1> QED BY <1>4, <1>5 DEF AlertInv

\* What a recorded check leaves of the history, field by field.
LEMMA NotedFields ==
    ASSUME NEW h, h \in [left : 0 .. Budget, told : Site \union {"none"},
                         alerts : 0 .. Budget + 1, faults : 0 .. Budget, dropped : BOOLEAN],
           NEW r
    PROVE  /\ Noted(h, r).left = h.left
           /\ Noted(h, r).faults = h.faults /\ Noted(h, r).told = h.told
           /\ r = "down" /\ row.status # "down" => Noted(h, r).alerts = 0
           /\ ~(r = "down" /\ row.status # "down") => Noted(h, r).alerts = h.alerts
           /\ Noted(h, r) \in [left : 0 .. Budget, told : Site \union {"none"},
                               alerts : 0 .. Budget + 1, faults : 0 .. Budget,
                               dropped : BOOLEAN]
<1> USE WebsiteAssumption DEF Site
<1>1. CASE r = "down" /\ row.status # "down"
  <2> DEFINE d == h.dropped \/ (row.notified /\ h.told = "down")
  <2>1. Noted(h, r) = [h EXCEPT !.alerts = 0, !.dropped = d]
    BY <1>1 DEF Noted
  <2>2. d \in BOOLEAN
    OBVIOUS
  <2> HIDE DEF d
  <2>3. /\ Noted(h, r).left = h.left /\ Noted(h, r).faults = h.faults
        /\ Noted(h, r).told = h.told /\ Noted(h, r).alerts = 0
    BY <2>1
  <2>4. Noted(h, r) \in [left : 0 .. Budget, told : Site \union {"none"},
                         alerts : 0 .. Budget + 1, faults : 0 .. Budget, dropped : BOOLEAN]
    <3>1. 0 \in 0 .. Budget + 1
      OBVIOUS
    <3> HIDE WebsiteAssumption
    <3> QED BY <2>1, <2>2, <3>1
  <2> QED BY <1>1, <2>3, <2>4
<1>2. CASE ~(r = "down" /\ row.status # "down")
  <2>1. Noted(h, r) = h
    BY <1>2 DEF Noted
  <2> QED BY <1>2, <2>1
<1> QED BY <1>1, <1>2

\* Spending from a budget that is not used up keeps the history well typed.
LEMMA SpentFields ==
    ASSUME NEW h, h \in [left : 0 .. Budget, told : Site \union {"none"},
                         alerts : 0 .. Budget + 1, faults : 0 .. Budget, dropped : BOOLEAN],
           h.left > 0
    PROVE  /\ Spent(h).left = h.left - 1 /\ Spent(h).faults = h.faults
           /\ Spent(h).told = h.told /\ Spent(h).alerts = h.alerts
           /\ Spent(h) \in [left : 0 .. Budget, told : Site \union {"none"},
                            alerts : 0 .. Budget + 1, faults : 0 .. Budget, dropped : BOOLEAN]
BY WebsiteAssumption DEF Spent

\* A recorded check writes the status it found and forgets the mark with a new outage.
LEMMA RecordedRow ==
    ASSUME MonitorTypeOK, NEW r \in Site, Record(r)
    PROVE  /\ row' \in [enabled : BOOLEAN, probe : Probe, since : {"none", "young", "old"},
                        status : {"pending", "up", "down", "paused"}, notified : BOOLEAN]
           /\ row'.status = r
           /\ row'.notified = (row.notified /\ (r = "up" \/ row.status = "down"))
           /\ due' \in BOOLEAN /\ ripe' \in BOOLEAN
<1> USE DEF MonitorTypeOK, Site, Probe
<1>1. due' \in BOOLEAN /\ ripe' \in BOOLEAN
  BY DEF Record
<1>2. CASE r = "up"
  BY <1>1, <1>2 DEF Record, Recorded
<1>3. CASE r = "down"
  <2> DEFINE n == row.notified /\ row.status = "down"
             s == IF row.since = "none" THEN "young" ELSE row.since
  <2>1. row' = [row EXCEPT !.status = "down", !.since = s, !.notified = n]
    BY <1>3 DEF Record, Recorded
  <2>2. n \in BOOLEAN /\ s \in {"none", "young", "old"}
    OBVIOUS
  <2>3. n = (row.notified /\ (r = "up" \/ row.status = "down"))
    BY <1>3
  <2> HIDE DEF n, s
  <2> QED BY <1>1, <1>3, <2>1, <2>2, <2>3
<1> QED BY <1>2, <1>3

-----------------------------------------------------------------------------
\* A check of another checker, or an agent's result, writes the row while the cron run
\* keeps its place.
LEMMA RecordKeeps ==
    ASSUME AlertInv, NEW r \in Site, Record(r), site' = site, fresh' \in BOOLEAN,
           at' \in [Checker -> {"idle", "check", "up", "down", "alert", "recovery",
                               "marked", "unmarked"}],
           at'["cron"] = at["cron"],
           hist' \in [left : 0 .. Budget, told : Site \union {"none"}, alerts : 0 .. Budget + 1,
                     faults : 0 .. Budget, dropped : BOOLEAN],
           hist'.left <= hist.left, hist'.faults = hist.faults, hist'.told = hist.told,
           r = "down" /\ row.status # "down" => hist'.alerts = 0,
           ~(r = "down" /\ row.status # "down") => hist'.alerts = hist.alerts
    PROVE  AlertInv'
<1> USE WebsiteAssumption
<1>1. /\ row' \in [enabled : BOOLEAN, probe : Probe, since : {"none", "young", "old"},
                   status : {"pending", "up", "down", "paused"}, notified : BOOLEAN]
      /\ row'.status = r
      /\ row'.notified = (row.notified /\ (r = "up" \/ row.status = "down"))
      /\ due' \in BOOLEAN /\ ripe' \in BOOLEAN
  BY RecordedRow DEF AlertInv
<1>2. MonitorTypeOK'
  BY <1>1 DEF AlertInv, MonitorTypeOK
<1>3. FaultsPaid'
  BY DEF AlertInv, MonitorTypeOK, FaultsPaid
<1>4. hist.alerts \in Nat /\ hist.faults \in Nat /\ r \in {"up", "down"}
  BY DEF AlertInv, MonitorTypeOK, Site
<1>5. AlertsAccounted'
  BY <1>1, <1>4 DEF AlertInv, AlertsAccounted
<1>6. MarkMeansTold'
  BY <1>1 DEF AlertInv, MarkMeansTold
<1> QED BY <1>2, <1>3, <1>5, <1>6 DEF AlertInv

\* The cron run records its check and decides whether to write.
LEMMA RunRecordsKeeps == AlertInv /\ RunRecords => AlertInv'
<1> SUFFICES ASSUME AlertInv, RunRecords PROVE AlertInv'
  OBVIOUS
<1> USE WebsiteAssumption
<1> DEFINE r == at["cron"]
<1>1. r \in Site /\ Record(r) /\ r \in {"up", "down"} /\ MonitorTypeOK
  BY DEF RunRecords, Answered, Site, AlertInv
<1>2. /\ row' \in [enabled : BOOLEAN, probe : Probe, since : {"none", "young", "old"},
                   status : {"pending", "up", "down", "paused"}, notified : BOOLEAN]
      /\ row'.status = r
      /\ row'.notified = (row.notified /\ (r = "up" \/ row.status = "down"))
      /\ due' \in BOOLEAN /\ ripe' \in BOOLEAN
  BY <1>1, RecordedRow
<1>3. /\ hist'.left = hist.left
      /\ hist'.faults = hist.faults /\ hist'.told = hist.told
      /\ r = "down" /\ row.status # "down" => hist'.alerts = 0
      /\ ~(r = "down" /\ row.status # "down") => hist'.alerts = hist.alerts
      /\ hist' \in [left : 0 .. Budget, told : Site \union {"none"}, alerts : 0 .. Budget + 1,
                    faults : 0 .. Budget, dropped : BOOLEAN]
  <2>1. hist' = Noted(hist, r)
    BY DEF RunRecords
  <2> QED BY <2>1, <1>1, NotedFields DEF MonitorTypeOK
<1>4. /\ at' \in [Checker -> {"idle", "check", "up", "down", "alert", "recovery",
                              "marked", "unmarked"}]
      /\ at'["cron"] \in {"alert", "recovery", "idle"}
      /\ at'["cron"] = "alert" => row'.status = "down" /\ ~row'.notified
      /\ at'["cron"] = "recovery" => row'.status = "up" /\ row'.notified
  BY <1>1 DEF RunRecords, MonitorTypeOK, Checker, ShouldNotifyDown, ShouldNotifyRecovery
<1>5. MonitorTypeOK'
  BY <1>1, <1>2, <1>3, <1>4 DEF RunRecords, MonitorTypeOK
<1>6. FaultsPaid'
  BY <1>3 DEF AlertInv, FaultsPaid
<1>7. hist.alerts \in Nat /\ hist.faults \in Nat
  BY <1>1 DEF MonitorTypeOK
<1>8. AlertsAccounted'
  BY <1>1, <1>2, <1>3, <1>4, <1>7 DEF AlertInv, AlertsAccounted
<1>9. MarkMeansTold'
  BY <1>1, <1>2, <1>3, <1>4 DEF AlertInv, MarkMeansTold
<1> QED BY <1>5, <1>6, <1>8, <1>9 DEF AlertInv

\* The message goes out and is counted.
LEMMA RunSendsKeeps == AlertInv /\ RunSends => AlertInv'
<1> SUFFICES ASSUME AlertInv, RunSends PROVE AlertInv'
  OBVIOUS
<1> USE WebsiteAssumption
<1>1. MonitorTypeOK /\ FaultsPaid /\ AlertsAccounted /\ MarkMeansTold
  BY DEF AlertInv
<1>2. CASE at["cron"] = "alert"
  <2>1. /\ at' = [at EXCEPT !["cron"] = "marked"] /\ UNCHANGED <<site, row, due, fresh, ripe>>
        /\ hist' = [hist EXCEPT !.told = "down", !.alerts = @ + 1, !.dropped = FALSE]
    BY <1>2 DEF RunSends
  <2>2. hist.alerts <= hist.faults /\ hist.alerts \in Nat /\ hist.faults \in 0 .. Budget
    BY <1>1, <1>2 DEF AlertsAccounted, MonitorTypeOK
  <2>3. hist.alerts + 1 \in 0 .. Budget + 1
    BY <2>2
  <2>4. /\ hist'.told = "down" /\ hist'.alerts = hist.alerts + 1 /\ hist'.left = hist.left
        /\ hist'.faults = hist.faults
    BY <1>1, <2>1 DEF MonitorTypeOK
  <2>5. hist' \in [left : 0 .. Budget, told : Site \union {"none"}, alerts : 0 .. Budget + 1,
                   faults : 0 .. Budget, dropped : BOOLEAN]
    BY <1>1, <2>1, <2>3 DEF MonitorTypeOK, Site
  <2>6. at'["cron"] = "marked" /\ at' \in [Checker -> {"idle", "check", "up", "down",
                                          "alert", "recovery", "marked", "unmarked"}]
    BY <1>1, <2>1 DEF MonitorTypeOK, Checker
  <2>7. MonitorTypeOK'
    BY <1>1, <2>1, <2>5, <2>6 DEF MonitorTypeOK
  <2>8. FaultsPaid' /\ AlertsAccounted' /\ MarkMeansTold'
    BY <1>1, <2>1, <2>2, <2>4, <2>6 DEF FaultsPaid, AlertsAccounted, MarkMeansTold
  <2> QED BY <2>7, <2>8 DEF AlertInv
<1>3. CASE at["cron"] = "recovery"
  <2>1. /\ at' = [at EXCEPT !["cron"] = "unmarked"] /\ UNCHANGED <<site, row, due, fresh, ripe>>
        /\ hist' = [hist EXCEPT !.told = "up"]
    BY <1>3 DEF RunSends
  <2>2. /\ hist'.told = "up" /\ hist'.alerts = hist.alerts /\ hist'.left = hist.left
        /\ hist'.faults = hist.faults
        /\ hist' \in [left : 0 .. Budget, told : Site \union {"none"},
                      alerts : 0 .. Budget + 1, faults : 0 .. Budget, dropped : BOOLEAN]
    BY <1>1, <2>1 DEF MonitorTypeOK, Site
  <2>3. at'["cron"] = "unmarked" /\ at' \in [Checker -> {"idle", "check", "up", "down",
                                            "alert", "recovery", "marked", "unmarked"}]
    BY <1>1, <2>1 DEF MonitorTypeOK, Checker
  <2>4. MonitorTypeOK'
    BY <1>1, <2>1, <2>2, <2>3 DEF MonitorTypeOK
  <2>5. FaultsPaid' /\ AlertsAccounted' /\ MarkMeansTold'
    BY <1>1, <1>3, <2>1, <2>2, <2>3 DEF FaultsPaid, AlertsAccounted, MarkMeansTold
  <2> QED BY <2>4, <2>5 DEF AlertInv
<1> QED BY <1>2, <1>3 DEF RunSends

\* The mark is written whatever happened meanwhile.
LEMMA RunMarksKeeps == AlertInv /\ RunMarks => AlertInv'
<1> SUFFICES ASSUME AlertInv, RunMarks PROVE AlertInv'
  OBVIOUS
<1> DEFINE n == at["cron"] = "marked"
<1>1. MonitorTypeOK /\ FaultsPaid /\ AlertsAccounted /\ MarkMeansTold
  BY DEF AlertInv
<1>2. /\ at["cron"] \in {"marked", "unmarked"} /\ at' = [at EXCEPT !["cron"] = "idle"]
      /\ row' = [row EXCEPT !.notified = n] /\ UNCHANGED <<site, due, fresh, ripe, hist>>
      /\ n \in BOOLEAN
  BY DEF RunMarks
<1>3. at'["cron"] = "idle" /\ at' \in [Checker -> {"idle", "check", "up", "down",
                                      "alert", "recovery", "marked", "unmarked"}]
  BY <1>1, <1>2 DEF MonitorTypeOK, Checker
<1>4. /\ n = (at["cron"] = "marked") /\ row'.notified = n /\ row'.status = row.status
      /\ row' \in [enabled : BOOLEAN, probe : Probe, since : {"none", "young", "old"},
                   status : {"pending", "up", "down", "paused"}, notified : BOOLEAN]
  BY <1>1, <1>2 DEF MonitorTypeOK
<1> HIDE DEF n
<1>5. MonitorTypeOK'
  BY <1>1, <1>2, <1>3, <1>4 DEF MonitorTypeOK
<1>6. FaultsPaid' /\ AlertsAccounted' /\ MarkMeansTold'
  BY <1>1, <1>2, <1>3, <1>4 DEF FaultsPaid, AlertsAccounted, MarkMeansTold
<1> QED BY <1>5, <1>6 DEF AlertInv

\* A failing call ends the run and excuses one alert.
LEMMA CheckRunFailsKeeps == AlertInv /\ CheckRunFails => AlertInv'
<1> SUFFICES ASSUME AlertInv, CheckRunFails PROVE AlertInv'
  OBVIOUS
<1> USE WebsiteAssumption
<1> DEFINE d == hist.dropped \/ at["cron"] = "marked"
<1>1. MonitorTypeOK /\ FaultsPaid /\ AlertsAccounted /\ MarkMeansTold
  BY DEF AlertInv
<1>2. /\ hist' = [Spent(hist) EXCEPT !.faults = @ + 1, !.dropped = d]
      /\ d \in BOOLEAN /\ hist.left > 0 /\ at' = [at EXCEPT !["cron"] = "idle"]
      /\ UNCHANGED <<site, row, due, fresh, ripe>>
  BY <1>1 DEF CheckRunFails, MonitorTypeOK, Spent
<1> HIDE DEF d
<1>3. /\ hist.left \in 1 .. Budget /\ hist.faults \in 0 .. Budget /\ hist.alerts \in Nat
      /\ hist.faults + hist.left <= Budget
  BY <1>1, <1>2 DEF MonitorTypeOK, FaultsPaid
<1>4. hist.left - 1 \in 0 .. Budget /\ hist.faults + 1 \in 0 .. Budget
  BY <1>3
<1>5. /\ hist'.left = hist.left - 1 /\ hist'.faults = hist.faults + 1
      /\ hist'.alerts = hist.alerts /\ hist'.told = hist.told
  BY <1>1, <1>2 DEF MonitorTypeOK, Spent
<1>6. hist' \in [left : 0 .. Budget, told : Site \union {"none"}, alerts : 0 .. Budget + 1,
                 faults : 0 .. Budget, dropped : BOOLEAN]
  <2>1. hist' = [hist EXCEPT !.left = hist.left - 1, !.faults = hist.faults + 1, !.dropped = d]
    BY <1>1, <1>2 DEF MonitorTypeOK, Spent
  <2> HIDE WebsiteAssumption
  <2> QED BY <1>1, <1>2, <1>4, <2>1 DEF MonitorTypeOK
<1>7. at'["cron"] = "idle" /\ at' \in [Checker -> {"idle", "check", "up", "down",
                                      "alert", "recovery", "marked", "unmarked"}]
  BY <1>1, <1>2 DEF MonitorTypeOK, Checker
<1>8. MonitorTypeOK'
  BY <1>1, <1>2, <1>6, <1>7 DEF MonitorTypeOK
<1>9. FaultsPaid' /\ AlertsAccounted' /\ MarkMeansTold'
  BY <1>1, <1>2, <1>3, <1>5, <1>7 DEF FaultsPaid, AlertsAccounted, MarkMeansTold
<1> QED BY <1>8, <1>9 DEF AlertInv

\* A step that keeps the mark, the alerts and the run's place, and starts no outage.
LEMMA HarmlessKeeps ==
    ASSUME AlertInv, MonitorTypeOK', hist'.left <= hist.left, hist'.faults = hist.faults,
           hist'.told = hist.told, hist'.alerts = hist.alerts,
           row'.notified = row.notified, row'.status = "down" => row.status = "down",
           \/ at'["cron"] = at["cron"]
           \/ /\ at["cron"] \in {"idle", "check"}
              /\ at'["cron"] \in {"check", "up", "down"}
    PROVE  AlertInv'
<1>1. MonitorTypeOK /\ FaultsPaid /\ AlertsAccounted /\ MarkMeansTold
  BY DEF AlertInv
<1>2. /\ hist.left \in Nat /\ hist'.left \in Nat /\ hist.faults \in Nat /\ Budget \in Nat
      /\ hist.alerts \in Nat
  BY <1>1, WebsiteAssumption DEF MonitorTypeOK
<1>3. FaultsPaid'
  BY <1>1, <1>2 DEF FaultsPaid
<1>4. AlertsAccounted' /\ MarkMeansTold'
  BY <1>1 DEF AlertsAccounted, MarkMeansTold
<1> QED BY <1>3, <1>4 DEF AlertInv

LEMMA AlertStep == AlertInv /\ [MonitorNext]_monitorVars => AlertInv'
<1> SUFFICES ASSUME AlertInv, [MonitorNext]_monitorVars PROVE AlertInv'
  OBVIOUS
<1>t. /\ MonitorTypeOK
      /\ hist \in [left : 0 .. Budget, told : Site \union {"none"}, alerts : 0 .. Budget + 1,
                   faults : 0 .. Budget, dropped : BOOLEAN]
      /\ hist.left \in Nat
  BY WebsiteAssumption DEF AlertInv, MonitorTypeOK
<1>1. ASSUME SiteChanges \/ BecomesDue \/ AgentSuccessAges \/ UNCHANGED monitorVars
      PROVE  AlertInv'
  <2>1. MonitorTypeOK'
    BY <1>t, <1>1 DEF SiteChanges, BecomesDue, AgentSuccessAges, monitorVars, MonitorTypeOK, Site
  <2>2. UNCHANGED <<row, at, hist>>
    BY <1>1 DEF SiteChanges, BecomesDue, AgentSuccessAges, monitorVars
  <2> QED BY <1>t, <2>1, <2>2, HarmlessKeeps
<1>2. ASSUME GraceEnds PROVE AlertInv'
  <2>1. row' = [row EXCEPT !.since = "old"] /\ UNCHANGED <<site, due, fresh, at, ripe, hist>>
    BY <1>2 DEF GraceEnds
  <2>2. /\ row'.status = row.status /\ row'.notified = row.notified
        /\ row' \in [enabled : BOOLEAN, probe : Probe, since : {"none", "young", "old"},
                     status : {"pending", "up", "down", "paused"}, notified : BOOLEAN]
    BY <1>t, <2>1 DEF MonitorTypeOK
  <2>3. MonitorTypeOK'
    BY <1>t, <2>1, <2>2 DEF MonitorTypeOK
  <2> QED BY <1>t, <2>1, <2>2, <2>3, HarmlessKeeps
<1>3. ASSUME RunBegin PROVE AlertInv'
  <2>1. MonitorTypeOK' /\ UNCHANGED <<row, hist>>
    BY <1>t, <1>3 DEF RunBegin, MonitorTypeOK, Checker
  <2>2. at["cron"] = "idle" /\ at'["cron"] = "check"
    BY <1>t, <1>3 DEF RunBegin, MonitorTypeOK, Checker
  <2> QED BY <1>t, <2>1, <2>2, HarmlessKeeps
<1>4. ASSUME NEW c \in Checker, CheckEnds(c) PROVE AlertInv'
  <2>1. MonitorTypeOK' /\ UNCHANGED <<row, hist>>
    BY <1>t, <1>4 DEF CheckEnds, MonitorTypeOK, Checker, Site
  <2>2. \/ at'["cron"] = at["cron"]
        \/ at["cron"] = "check" /\ at'["cron"] \in {"up", "down"}
    BY <1>t, <1>4 DEF CheckEnds, MonitorTypeOK, Checker, Site
  <2> QED BY <1>t, <2>1, <2>2, HarmlessKeeps
<1>5. ASSUME ManualBegin PROVE AlertInv'
  <2>1. hist' = Spent(hist) /\ hist.left > 0 /\ UNCHANGED <<site, row, due, fresh, ripe>>
    BY <1>5 DEF ManualBegin
  <2>2. /\ hist'.left = hist.left - 1 /\ hist'.faults = hist.faults
        /\ hist'.told = hist.told /\ hist'.alerts = hist.alerts
        /\ hist' \in [left : 0 .. Budget, told : Site \union {"none"},
                      alerts : 0 .. Budget + 1, faults : 0 .. Budget, dropped : BOOLEAN]
    BY <1>t, <2>1, SpentFields
  <2>3. /\ at'["cron"] = at["cron"]
        /\ at' \in [Checker -> {"idle", "check", "up", "down", "alert", "recovery",
                                "marked", "unmarked"}]
    BY <1>t, <1>5 DEF ManualBegin, MonitorTypeOK, Checker
  <2>4. MonitorTypeOK'
    BY <1>t, <2>1, <2>2, <2>3 DEF MonitorTypeOK
  <2>5. hist'.left <= hist.left
    BY <1>t, <2>2
  <2> QED BY <2>1, <2>2, <2>3, <2>4, <2>5, HarmlessKeeps
<1>6. ASSUME NEW e \in BOOLEAN, NEW p \in Probe, SetEnabled(e) \/ EditMonitor(e, p)
      PROVE  AlertInv'
  <2>1. /\ hist' = Spent(hist) /\ hist.left > 0 /\ UNCHANGED <<site, due, fresh, at, ripe>>
        /\ row'.notified = row.notified /\ (row'.status = "down" => row.status = "down")
        /\ row' \in [enabled : BOOLEAN, probe : Probe, since : {"none", "young", "old"},
                     status : {"pending", "up", "down", "paused"}, notified : BOOLEAN]
    BY <1>t, <1>6 DEF SetEnabled, EditMonitor, MonitorTypeOK
  <2>2. /\ hist'.left = hist.left - 1 /\ hist'.faults = hist.faults
        /\ hist'.told = hist.told /\ hist'.alerts = hist.alerts
        /\ hist' \in [left : 0 .. Budget, told : Site \union {"none"},
                      alerts : 0 .. Budget + 1, faults : 0 .. Budget, dropped : BOOLEAN]
    BY <1>t, <2>1, SpentFields
  <2>3. MonitorTypeOK'
    BY <1>t, <2>1, <2>2 DEF MonitorTypeOK
  <2>4. hist'.left <= hist.left
    BY <1>t, <2>2
  <2> QED BY <2>1, <2>2, <2>3, <2>4, HarmlessKeeps
<1>7. ASSUME NEW c \in Checker, CheckRecords(c) PROVE AlertInv'
  <2>1. /\ at[c] \in Site /\ Record(at[c]) /\ hist' = Noted(hist, at[c])
        /\ UNCHANGED <<site, fresh>>
    BY <1>7 DEF CheckRecords, Answered
  <2>2. /\ at'["cron"] = at["cron"] /\ fresh' \in BOOLEAN
        /\ at' \in [Checker -> {"idle", "check", "up", "down", "alert", "recovery",
                                "marked", "unmarked"}]
    BY <1>t, <1>7 DEF CheckRecords, MonitorTypeOK, Checker
  <2>3. hist'.left <= hist.left
    BY <1>t, <2>1, NotedFields
  <2> QED BY <1>t, <2>1, <2>2, <2>3, NotedFields, RecordKeeps
<1>8. ASSUME AgentUp PROVE AlertInv'
  <2>1. /\ Record("up") /\ "up" \in Site /\ fresh' \in BOOLEAN /\ UNCHANGED <<site, at, hist>>
    BY <1>8 DEF AgentUp, Site
  <2>2. hist'.left <= hist.left
    BY <1>t, <2>1
  <2>3. /\ at'["cron"] = at["cron"]
        /\ at' \in [Checker -> {"idle", "check", "up", "down", "alert", "recovery",
                                "marked", "unmarked"}]
    BY <1>t, <2>1 DEF MonitorTypeOK
  <2> QED BY <1>t, <2>1, <2>2, <2>3, RecordKeeps
<1>9. ASSUME AgentDown PROVE AlertInv'
  <2>1. CASE row.probe = "on"
    <3>1. /\ UNCHANGED <<site, row, due, fresh, ripe, hist>>
          /\ at'["cron"] = at["cron"]
          /\ at' \in [Checker -> {"idle", "check", "up", "down", "alert", "recovery",
                                  "marked", "unmarked"}]
      BY <1>t, <1>9, <2>1 DEF AgentDown, MonitorTypeOK, Checker
    <3>2. MonitorTypeOK' /\ hist'.left <= hist.left
      BY <1>t, <3>1 DEF MonitorTypeOK
    <3> QED BY <3>1, <3>2, HarmlessKeeps
  <2>2. CASE row.probe = "silent"
    <3>1. /\ Record("down") /\ "down" \in Site /\ hist' = Noted(hist, "down")
          /\ UNCHANGED <<site, fresh, at>>
      BY <1>9, <2>2 DEF AgentDown, Site
    <3>2. /\ at'["cron"] = at["cron"] /\ fresh' \in BOOLEAN
          /\ at' \in [Checker -> {"idle", "check", "up", "down", "alert", "recovery",
                                  "marked", "unmarked"}]
      BY <1>t, <3>1 DEF MonitorTypeOK
    <3>3. hist'.left <= hist.left
      BY <1>t, <3>1, NotedFields
    <3> QED BY <1>t, <3>1, <3>2, <3>3, NotedFields, RecordKeeps
  <2> QED BY <1>9, <2>1, <2>2 DEF AgentDown
<1>10. "off" \in Probe
  BY DEF Probe
<1> QED
  BY <1>1, <1>2, <1>3, <1>4, <1>5, <1>6, <1>7, <1>8, <1>9, <1>10, RunRecordsKeeps,
     RunSendsKeeps, RunMarksKeeps, CheckRunFailsKeeps
  DEF MonitorNext

LEMMA AlertAlways == MonitorSpec => []AlertInv
BY AlertInit, AlertStep, PTL DEF MonitorSpec

-----------------------------------------------------------------------------
\* Every column and every checker always has one of the values the code gives it.
THEOREM WebsiteTypes == MonitorSpec => []MonitorTypeOK
<1>1. AlertInv => MonitorTypeOK
  BY DEF AlertInv
<1> QED BY <1>1, AlertAlways, PTL

\* However the three checkers, the agents, the pauses and the edits interleave with a
\* run's record, message and mark, one outage is alerted once; a second alert takes a
\* failing call of the database.
THEOREM OncePerOutage == MonitorSpec => []AlertOncePerOutage
<1>1. AlertInv => AlertOncePerOutage
  BY DEF AlertInv, AlertsAccounted, AlertOncePerOutage
<1> QED BY <1>1, AlertAlways, PTL

\* A run that announces a recovery follows an alert that nothing was told after, unless
\* a call of the database failed before.
THEOREM RecoveryAfterAlert == MonitorSpec => []SiteRecoveryOnlyAfterAlert
<1>1. AlertInv => SiteRecoveryOnlyAfterAlert
  BY WebsiteAssumption DEF AlertInv, MonitorTypeOK, MarkMeansTold, SiteRecoveryOnlyAfterAlert
<1> QED BY <1>1, AlertAlways, PTL
=============================================================================
