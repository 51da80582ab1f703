------------------------------ MODULE LiveView ------------------------------
(***************************************************************************)
(* How a browser page stays fed with live data (frontend/src/contexts/     *)
(* LiveDataContext.tsx and livePolling.ts): a WebSocket that reconnects    *)
(* with a circuit breaker, and HTTP polling beside it, while the page is   *)
(* hidden, shown, focused and mounted again by a login.                    *)
(*                                                                         *)
(* A page runs one task at a time; every await is a place where others     *)
(* step in.  Refs live as long as the page, while the effects and their    *)
(* "cancelled" flag are made anew by a login or logout: what an earlier    *)
(* mount still has under way is called old.  What the data say is left     *)
(* out, and with it the bootstrap, the messages after a snapshot, and the  *)
(* error event and snapshot timeout, which do nothing but fetch.           *)
(***************************************************************************)
EXTENDS Naturals, Sequences

CONSTANTS
    PageSocket,   \* the page's WebSocket objects, reused once closed
    Break,        \* LIVE_WS_FAILURE_CIRCUIT_BREAK, 10 in the code
    MaxConnects,  \* bound: connect() calls of one mount waiting for a viewer token
    MaxOld,       \* bound: connect() calls of earlier mounts waiting for one
    MaxMounts,    \* bound: logins and logouts
    NoSocket      \* wsRef is null

ASSUME ViewAssumption ==
    /\ Break \in Nat \ {0} /\ MaxConnects \in Nat \ {0}
    /\ MaxOld \in Nat /\ MaxMounts \in Nat /\ NoSocket \notin PageSocket

VARIABLES
    docHidden, \* document.hidden
    mounts,   \* logins and logouts still to come
    sock,     \* the page's sockets, with the events on their way to each
    ref,      \* [ws: wsRef, open: wsOpenRef, streak: wsFailStreakRef]
    tokens,   \* [now, old]: connect() calls that wait for their token
    timer,    \* [reconnect: reconnectTimeoutRef, poll: timeoutRef]
    poll,     \* [idle: lastScheduleWasIdle, now: polling, old: an old mount's poll]
    refresh,  \* fetchLiveData() calls besides the polls are under way
    robbed    \* history: [poll, ws]: an old mount took the timer or the socket away

pageVars == <<docHidden, mounts, sock, ref, tokens, timer, poll, refresh, robbed>>

Free == [st |-> "free", old |-> FALSE, queue |-> <<>>]
-----------------------------------------------------------------------------
(* What handlers have in common.                                             *)

\* connect() up to its first await
Connecting == tokens.now < MaxConnects /\ tokens' = [tokens EXCEPT !.now = @ + 1]

\* wsFailStreakRef after a failure, counted up to the circuit breaker
Streak == IF ref.streak < Break THEN ref.streak + 1 ELSE Break

\* scheduleReconnect
ReconnectTimer(streak) == IF streak >= Break \/ docHidden THEN "none" ELSE "delay"

\* scheduleNextPoll and shouldPollLiveData: whether it leaves a timer, and
\* lastScheduleWasIdle
PollTimer(h) == ~h \/ ref.open
PollIdle == IF docHidden \/ ref.open THEN {TRUE} ELSE BOOLEAN
-----------------------------------------------------------------------------
PageInit ==
    /\ docHidden = FALSE /\ mounts = MaxMounts
    /\ sock = [s \in PageSocket |-> Free]
    /\ ref = [ws |-> NoSocket, open |-> FALSE, streak |-> 0]
    /\ tokens = [now |-> 1, old |-> 0]
    /\ timer = [reconnect |-> "none", poll |-> FALSE]
    /\ poll = [idle |-> FALSE, now |-> TRUE, old |-> FALSE]
    /\ refresh = FALSE
    /\ robbed = [poll |-> FALSE, ws |-> FALSE]
-----------------------------------------------------------------------------
(* The connection.                                                           *)

\* connect() goes on with its token: the socket takes the place of any other.
TokenArrives ==
    /\ tokens.now > 0
    /\ \E s \in PageSocket :
         /\ sock[s] = Free
         /\ sock' = [sock EXCEPT ![s].st = "connecting"]
         /\ ref' = [ref EXCEPT !.ws = s]
    /\ tokens' = [tokens EXCEPT !.now = @ - 1]
    /\ robbed' = [robbed EXCEPT !.ws = FALSE]
    /\ UNCHANGED <<docHidden, mounts, timer, poll, refresh>>

TokenFails ==
    /\ tokens.now > 0
    /\ tokens' = [tokens EXCEPT !.now = @ - 1]
    /\ ref' = [ref EXCEPT !.streak = Streak]
    /\ timer' = [timer EXCEPT !.reconnect = ReconnectTimer(Streak)]
    /\ refresh' = (refresh \/ ~docHidden)
    /\ robbed' = [robbed EXCEPT !.ws = FALSE]
    /\ UNCHANGED <<docHidden, mounts, sock, poll>>

\* The token of an earlier mount: with one nothing happens, a failure still counts and
\* clears the timer before it sees that it was cancelled.
OldTokenReturns(ok) ==
    /\ tokens.old > 0
    /\ tokens' = [tokens EXCEPT !.old = @ - 1]
    /\ IF ok THEN UNCHANGED <<ref, timer, refresh, robbed>>
       ELSE /\ ref' = [ref EXCEPT !.streak = Streak]
            /\ refresh' = (refresh \/ ~docHidden)
            /\ timer' = [timer EXCEPT !.reconnect = "none"]
            /\ robbed' = [robbed EXCEPT !.ws = @ \/ timer.reconnect # "none"]
    /\ UNCHANGED <<docHidden, mounts, sock, poll>>

\* The reconnect timer.  The one an old mount set calls a connect() that returns; only
\* the delayed one looks at document.hidden again.
ReconnectFires ==
    /\ timer.reconnect # "none"
    /\ timer' = [timer EXCEPT !.reconnect = "none"]
    /\ IF timer.reconnect = "old" \/ (timer.reconnect = "delay" /\ docHidden)
       THEN UNCHANGED tokens
       ELSE Connecting
    /\ UNCHANGED <<docHidden, mounts, sock, ref, poll, refresh, robbed>>

\* The event at the head of a socket's queue.
Hears(s, event) == sock[s].queue # <<>> /\ Head(sock[s].queue) = event
Heard(s) == [sock EXCEPT ![s].queue = Tail(@)]

OpenEvent(s) ==
    /\ Hears(s, "open") /\ sock' = Heard(s)
    /\ ref' = IF ref.ws = s THEN [ref EXCEPT !.open = TRUE, !.streak = 0] ELSE ref
    /\ UNCHANGED <<docHidden, mounts, tokens, timer, poll, refresh, robbed>>

\* A snapshot, taken from any socket, the one in wsRef or not.
DataEvent(s) ==
    /\ Hears(s, "data") /\ sock' = Heard(s)
    /\ UNCHANGED <<docHidden, mounts, ref, tokens, timer, poll, refresh, robbed>>

\* viewer_expired: a hidden page lets go of wsRef and closes the socket that heard it;
\* a visible one closes the socket in wsRef and connects at once.
ExpiredEvent(s) ==
    /\ Hears(s, "expired")
    /\ IF docHidden
       THEN sock' = [sock EXCEPT ![s] = Free] /\ UNCHANGED timer
       ELSE /\ sock' = IF ref.ws = NoSocket THEN Heard(s)
                       ELSE [Heard(s) EXCEPT ![ref.ws] = Free]
            /\ timer' = [timer EXCEPT !.reconnect = IF sock[s].old THEN "old" ELSE "now"]
    /\ ref' = [ref EXCEPT !.ws = NoSocket, !.open = FALSE]
    /\ robbed' = [robbed EXCEPT !.ws = @ \/ (sock[s].old /\ ~docHidden)]
    /\ UNCHANGED <<docHidden, mounts, tokens, poll, refresh>>

\* Fault: the socket is let go of, and wsOpenRef stays set.
CloseEventOpen(s) ==
    /\ Hears(s, "close") /\ sock' = [sock EXCEPT ![s] = Free]
    /\ IF ref.ws # s THEN UNCHANGED <<ref, timer, refresh>>
       ELSE /\ ref' = [ref EXCEPT !.ws = NoSocket, !.streak = Streak]
            /\ timer' = [timer EXCEPT !.reconnect = ReconnectTimer(Streak)]
            /\ refresh' = (refresh \/ ~docHidden)
    /\ UNCHANGED <<docHidden, mounts, tokens, poll, robbed>>

CloseEvent(s) ==
    /\ Hears(s, "close") /\ sock' = [sock EXCEPT ![s] = Free]
    /\ IF ref.ws # s THEN UNCHANGED <<ref, timer, refresh>>
       ELSE /\ ref' = [ws |-> NoSocket, open |-> FALSE, streak |-> Streak]
            /\ timer' = [timer EXCEPT !.reconnect = ReconnectTimer(Streak)]
            /\ refresh' = (refresh \/ ~docHidden)
    /\ UNCHANGED <<docHidden, mounts, tokens, poll, robbed>>

SocketEvent(s) == OpenEvent(s) \/ DataEvent(s) \/ ExpiredEvent(s) \/ CloseEvent(s)
-----------------------------------------------------------------------------
(* Polling.                                                                  *)

\* poll(): nothing while one is under way, no fetch while the socket is open.
Poll ==
    /\ timer' = [timer EXCEPT !.poll = ~poll.now /\ ref.open]
    /\ poll' = [poll EXCEPT !.idle = @ \/ (~poll.now /\ ref.open),
                            !.now = @ \/ ~(ref.open \/ docHidden)]
    /\ UNCHANGED <<docHidden, mounts, sock, ref, tokens, refresh, robbed>>

PollFires == timer.poll /\ Poll

\* A click, a key or a scroll polls at once when the timer was an idle one.
UserActivity == poll.idle /\ Poll

\* Fault: a poll that failed is not followed by another.
PollReturnsOnce(ok) ==
    /\ poll.now
    /\ \E i \in PollIdle : poll' = [poll EXCEPT !.now = FALSE, !.idle = i]
    /\ timer' = [timer EXCEPT !.poll = ok /\ PollTimer(docHidden)]
    /\ robbed' = [robbed EXCEPT !.poll = FALSE]
    /\ UNCHANGED <<docHidden, mounts, sock, ref, tokens, refresh>>

\* The fetch of a poll ends, with data or without.
PollReturns(ok) ==
    /\ poll.now
    /\ \E i \in PollIdle : poll' = [poll EXCEPT !.now = FALSE, !.idle = i]
    /\ timer' = [timer EXCEPT !.poll = PollTimer(docHidden)]
    /\ robbed' = [robbed EXCEPT !.poll = FALSE]
    /\ UNCHANGED <<docHidden, mounts, sock, ref, tokens, refresh>>

\* A fetch besides the polls ends, with data or without.
RefreshReturns(ok) ==
    /\ refresh /\ refresh' = FALSE
    /\ UNCHANGED <<docHidden, mounts, sock, ref, tokens, timer, poll, robbed>>

\* The poll of an earlier mount: scheduleNextPoll clears the timer, which is this
\* mount's by now, before it sees that it was cancelled.
OldPollReturns ==
    /\ poll.old /\ poll' = [poll EXCEPT !.old = FALSE]
    /\ timer' = [timer EXCEPT !.poll = FALSE]
    /\ robbed' = [robbed EXCEPT !.poll = @ \/ timer.poll]
    /\ UNCHANGED <<docHidden, mounts, sock, ref, tokens, refresh>>
-----------------------------------------------------------------------------
(* The page.                                                                 *)

\* handleVisibility on a page that is hidden; handleWsVisibility returns.
PageHidden ==
    /\ ~docHidden /\ docHidden' = TRUE
    /\ timer' = [timer EXCEPT !.poll = PollTimer(TRUE)]
    /\ poll' = [poll EXCEPT !.idle = TRUE]
    /\ robbed' = [robbed EXCEPT !.poll = FALSE]
    /\ UNCHANGED <<mounts, sock, ref, tokens, refresh>>

\* handleWsVisibility and refreshVisibleData on a visible page.  A connect() that waits
\* for its token has no socket in wsRef yet, so a second one may start beside it.
WsVisible ==
    /\ ref' = [ref EXCEPT !.streak = 0]
    /\ IF ref.ws = NoSocket THEN Connecting ELSE UNCHANGED tokens
    /\ refresh' = (refresh \/ ~ref.open)
ReconnectCleared == IF ref.ws = NoSocket THEN "none" ELSE timer.reconnect

PageVisible ==
    /\ docHidden /\ docHidden' = FALSE
    /\ WsVisible
    /\ timer' = [reconnect |-> ReconnectCleared, poll |-> TRUE]
    /\ poll' = [poll EXCEPT !.idle = ref.open]
    /\ robbed' = [poll |-> FALSE, ws |-> robbed.ws /\ ref.ws # NoSocket]
    /\ UNCHANGED <<mounts, sock>>

PageFocused ==
    /\ ~docHidden
    /\ WsVisible
    /\ timer' = [timer EXCEPT !.reconnect = ReconnectCleared]
    /\ robbed' = [robbed EXCEPT !.ws = @ /\ ref.ws # NoSocket]
    /\ UNCHANGED <<docHidden, mounts, sock, poll>>

\* A login or logout changes includeHidden: the effects are cleaned up and run again.
\* A socket that is not the one in wsRef stays open.
Remount ==
    /\ mounts > 0 /\ ~poll.old /\ tokens.now + tokens.old <= MaxOld
    /\ mounts' = mounts - 1
    /\ sock' = [s \in PageSocket |-> IF s = ref.ws \/ sock[s] = Free THEN Free
                                 ELSE [sock[s] EXCEPT !.old = TRUE]]
    /\ ref' = [ref EXCEPT !.ws = NoSocket, !.open = FALSE]
    /\ tokens' = [now |-> 1, old |-> tokens.now + tokens.old]
    /\ timer' = [reconnect |-> "none", poll |-> FALSE]
    /\ poll' = [idle |-> FALSE, now |-> ~docHidden, old |-> poll.now]
    /\ robbed' = [poll |-> FALSE, ws |-> FALSE]
    /\ UNCHANGED <<docHidden, refresh>>
-----------------------------------------------------------------------------
(* The server and the network.                                               *)

Network(s, st, queue) ==
    /\ sock' = [sock EXCEPT ![s].st = st, ![s].queue = queue]
    /\ UNCHANGED <<docHidden, mounts, ref, tokens, timer, poll, refresh, robbed>>

\* The upgrade is answered, and the snapshot follows.
Accept(s) == sock[s].st = "connecting" /\ Network(s, "open", <<"open", "data">>)

\* The connection fails; what was on its way is lost.
Drop(s) == sock[s].st \in {"connecting", "open"} /\ Network(s, "ended", <<"close">>)

\* The viewer's window ends (expireViewer).
Expire(s) ==
    sock[s].st = "open" /\ Network(s, "ended", sock[s].queue \o <<"expired", "close">>)
-----------------------------------------------------------------------------
PageNext ==
    \/ TokenArrives \/ TokenFails \/ \E ok \in BOOLEAN : OldTokenReturns(ok)
    \/ ReconnectFires
    \/ \E s \in PageSocket : SocketEvent(s) \/ Accept(s) \/ Drop(s) \/ Expire(s)
    \/ PollFires \/ UserActivity \/ OldPollReturns
    \/ \E ok \in BOOLEAN : PollReturns(ok) \/ RefreshReturns(ok)
    \/ PageHidden \/ PageVisible \/ PageFocused \/ Remount

PageSpec == PageInit /\ [][PageNext]_pageVars

\* The page's events and timers are handled, and requests end.  Fetches do not fail
\* every time; connections may.
FairPageSpec ==
    /\ PageSpec
    /\ WF_pageVars(TokenArrives \/ TokenFails) /\ WF_pageVars(ReconnectFires)
    /\ WF_pageVars(PollFires)
    /\ SF_pageVars(PollReturns(TRUE)) /\ SF_pageVars(RefreshReturns(TRUE))
    /\ \A s \in PageSocket : /\ WF_pageVars(SocketEvent(s)) /\ WF_pageVars(Expire(s))
                             /\ WF_pageVars(Accept(s) \/ Drop(s))
-----------------------------------------------------------------------------
(* Properties.                                                               *)

PageTypeOK ==
    /\ docHidden \in BOOLEAN /\ mounts \in 0 .. MaxMounts
    /\ sock \in [PageSocket -> [st : {"free", "connecting", "open", "ended"}, old : BOOLEAN,
                                queue : Seq({"open", "data", "expired", "close"})]]
    /\ ref \in [ws : PageSocket \cup {NoSocket}, open : BOOLEAN, streak : 0 .. Break]
    /\ tokens \in [now : 0 .. MaxConnects, old : 0 .. MaxOld]
    /\ timer \in [reconnect : {"none", "delay", "now", "old"}, poll : BOOLEAN]
    /\ poll \in [idle : BOOLEAN, now : BOOLEAN, old : BOOLEAN] /\ refresh \in BOOLEAN
    /\ robbed \in [poll : BOOLEAN, ws : BOOLEAN]

\* A page that is seen is never left without a next step, whatever hides, shows,
\* expires or fails in between: a poll is under way or timed, and the connection is
\* there, being made, timed, or given up by the circuit breaker.  The exception is a
\* timer or socket that an earlier mount took away (scheduleNextPoll, scheduleReconnect
\* and reconnectLiveWebSocket touch the shared refs before they look at cancelled).
NeverStalls ==
    ~docHidden =>
        /\ timer.poll \/ poll.now \/ robbed.poll
        /\ \/ ref.ws # NoSocket \/ tokens.now > 0 \/ timer.reconnect \in {"delay", "now"}
           \/ ref.streak >= Break \/ robbed.ws

\* A page that stays seen hears of the nodes again and again, over a socket or by a
\* poll, even when every connection fails and the circuit breaker gave up: polls pause
\* only while wsOpenRef is set, and that never outlives the socket it speaks of.
PageStaysFed ==
    <>[](~docHidden /\ ~robbed.poll /\ ~robbed.ws)
        => []<><<\/ PollReturns(TRUE) \/ RefreshReturns(TRUE)
                 \/ \E s \in PageSocket : DataEvent(s)>>_pageVars
=============================================================================
