----------------------------- MODULE SshChannels ----------------------------
(***************************************************************************)
(* The auxiliary channels of a WebSSH session once its shell is ready: the *)
(* SFTP channel, the process monitor's channel and one channel per kill    *)
(* request (SSHSession in worker/src/webssh/backend/session.ts, over the   *)
(* SSHChannel objects of worker/src/webssh/ssh/channel.ts).  SshSession    *)
(* models the handshake before it.                                         *)
(*                                                                         *)
(* One reader task handles the server's packets in order and is suspended  *)
(* at every await (rd says where); the messages of the browser's sockets   *)
(* and the timers run between its steps.  The server keeps to RFC 4254: it *)
(* writes about a channel it was asked to open until it has sent that      *)
(* channel's CLOSE or refused it.                                          *)
(***************************************************************************)
EXTENDS Naturals, FiniteSets

CONSTANTS
    MaxChannels,      \* bound: auxiliary channels opened in a session (nextChannelID)
    MaxPendingKills   \* MAX_PENDING_PROCESS_KILLS, 8 in the code

ASSUME ChannelsAssumption == MaxChannels \in Nat /\ MaxPendingKills \in Nat \ {0}

VARIABLES
    phase,    \* this.phase: "ready" or "closed"
    rd,       \* where the reader task is: [at, c]
    broken,   \* the TCP connection no longer takes writes
    next,     \* nextChannelID
    chan,     \* the SSHChannel objects, with what the server still owes each
    reg,      \* the keys of this.channels, the shell's 0 left out
    sftp,     \* [chan: sftpChannel, handler, ws: sftpWebSocket]
    sftpOpen, \* pendingSFTPChannelOpen: [chan, cancelled, timer], chan = 0 for null
    proc,     \* [chan: processChannel, ws: processWebSocket]
    procOpen, \* pendingProcessChannelOpen
    kill      \* pendingProcessKillChannels, with the results each request was given

vars == <<phase, rd, broken, next, chan, reg, sftp, sftpOpen, proc, procOpen, kill>>

Channels == 1..MaxChannels
Kinds == {"none", "sftp", "process", "kill"}

\* A channel nobody has opened; "srv" is the server's side of it, "owed" a request
\* the server has not answered, "opening" the open request's send not yet awaited.
NoChannel == [kind |-> "none", srv |-> "none", opening |-> FALSE, confirmed |-> FALSE,
              owed |-> FALSE, eofSent |-> FALSE, closeSent |-> FALSE, closeRecv |-> FALSE]
NoPending == [chan |-> 0, cancelled |-> FALSE, timer |-> FALSE]
NoKill == [in |-> FALSE, cancelled |-> FALSE, timer |-> FALSE, ran |-> FALSE,
           final |-> FALSE, results |-> 0, refused |-> FALSE]
Idle == [at |-> "idle", c |-> 0]

Ended == [at |-> "ended", c |-> 0]

IsOpen(c) == c # 0 /\ chan[c].confirmed /\ ~chan[c].closeRecv
-----------------------------------------------------------------------------
Init ==
    /\ phase = "ready" /\ rd = Idle /\ broken = FALSE
    /\ next = 1 /\ chan = [c \in Channels |-> NoChannel] /\ reg = {}
    /\ sftp = [chan |-> 0, handler |-> "none", ws |-> "none"]
    /\ sftpOpen = NoPending
    /\ proc = [chan |-> 0, ws |-> "none"]
    /\ procOpen = NoPending
    /\ kill = [c \in Channels |-> NoKill]

\* close(), called by the owner, by the keepalive or by the reader's catch: the
\* channels, attachments and timers go at once.  Only the channel objects a suspended
\* open or close still holds outlive it.
Close ==
    /\ phase # "closed"
    /\ phase' = "closed" /\ broken' = TRUE
    /\ reg' = {}
    /\ sftp' = [chan |-> 0, handler |-> "none", ws |-> "none"]
    /\ proc' = [chan |-> 0, ws |-> "none"]
    /\ sftpOpen' = NoPending /\ procOpen' = NoPending
    /\ kill' = [c \in Channels |-> NoKill]
    /\ chan' = [c \in Channels |-> IF chan[c].opening \/ (chan[c].eofSent /\ ~chan[c].closeSent)
                                   THEN chan[c] ELSE NoChannel]
    /\ rd' = IF rd.at = "idle" THEN Ended ELSE rd
    /\ UNCHANGED next

\* The connection breaks: writes fail from now on, what was received can be read.
ConnectionBreaks ==
    /\ ~broken /\ broken' = TRUE
    /\ UNCHANGED <<phase, rd, next, chan, reg, sftp, sftpOpen, proc, procOpen, kill>>

coreVars == <<phase, broken>>

ReaderNext == IF phase = "closed" THEN Ended ELSE Idle

\* sendAuxiliaryChannelClose up to the await between EOF and CLOSE.
ClosesNow(c) == IsOpen(c) /\ ~chan[c].closeSent /\ ~chan[c].eofSent
AuxClose(ch, c) == IF ClosesNow(c) THEN [ch EXCEPT ![c].eofSent = TRUE] ELSE ch

\* ... and after it; the server's CLOSE may have been answered meanwhile.
AuxCloseSent(c) ==
    /\ chan[c].eofSent /\ ~chan[c].closeSent
    /\ chan' = [chan EXCEPT ![c].closeSent = ~broken]
    /\ rd' = IF rd = [at |-> "aux", c |-> c] THEN ReaderNext ELSE rd
    /\ UNCHANGED <<coreVars, next, reg, sftp, sftpOpen, proc, procOpen, kill>>

ClearPending(p, c) == IF p.chan = c THEN NoPending ELSE p

\* A new channel, registered before its open request is awaited.
NewChannel(kind) ==
    /\ next \in Channels
    /\ next' = next + 1
    /\ chan' = [chan EXCEPT ![next] = [NoChannel EXCEPT !.kind = kind, !.opening = TRUE,
                                          !.srv = IF broken THEN "none" ELSE "asked"]]
    /\ reg' = reg \cup {next}

AttachProcess ==
    /\ phase = "ready" /\ proc.ws = "none"
    /\ proc' = [proc EXCEPT !.ws = "open"]
    /\ UNCHANGED <<coreVars, rd, next, chan, reg, sftp, sftpOpen, procOpen, kill>>

\* openProcessChannel up to the await of its open request.
OpenProcess ==
    /\ phase = "ready" /\ proc.ws = "open" /\ proc.chan = 0
    /\ ~procOpen.cancelled
    /\ NewChannel("process")
    /\ proc' = [proc EXCEPT !.chan = next]
    /\ procOpen' = [NoPending EXCEPT !.chan = next]
    /\ UNCHANGED <<coreVars, rd, sftp, sftpOpen, kill>>

\* closeProcessChannel, on process_stop and when the socket goes away.
CloseProcess(ch) ==
    /\ procOpen' = IF procOpen.chan = proc.chan /\ proc.chan # 0
                   THEN [procOpen EXCEPT !.cancelled = TRUE] ELSE procOpen
    /\ chan' = AuxClose(ch, proc.chan)

StopProcess ==
    /\ proc.ws = "open" /\ proc.chan # 0
    /\ CloseProcess(chan)
    /\ proc' = [proc EXCEPT !.chan = 0]
    /\ UNCHANGED <<coreVars, rd, next, reg, sftp, sftpOpen, kill>>

\* openProcessKillChannel up to the await of its open request.
PendingKills == {c \in Channels : kill[c].in}

OpenKill ==
    /\ phase = "ready" /\ proc.ws = "open"
    /\ Cardinality(PendingKills) < MaxPendingKills
    /\ NewChannel("kill")
    /\ kill' = [kill EXCEPT ![next] = [NoKill EXCEPT !.in = TRUE]]
    /\ UNCHANGED <<coreVars, rd, sftp, sftpOpen, proc, procOpen>>

\* detachProcessWebSocket: kills still opening stay registered, the others are
\* closed and forgotten.
DetachProcess ==
    /\ proc.ws # "none"
    /\ LET open == {c \in PendingKills : chan[c].confirmed}
       IN  /\ CloseProcess([c \in Channels |->
                   IF c \in open /\ ClosesNow(c) THEN [chan[c] EXCEPT !.eofSent = TRUE]
                                                 ELSE chan[c]])
           /\ kill' = [c \in Channels |->
                  IF c \notin PendingKills THEN kill[c]
                  ELSE [kill[c] EXCEPT !.cancelled = TRUE, !.timer = FALSE,
                                       !.in = c \notin open, !.final = @ \/ c \in open]]
    /\ proc' = [chan |-> 0, ws |-> "none"]
    /\ UNCHANGED <<coreVars, rd, next, reg, sftp, sftpOpen>>

AttachSFTP ==
    /\ phase = "ready" /\ sftp.ws = "none"
    /\ sftp' = [sftp EXCEPT !.ws = "open"]
    /\ UNCHANGED <<coreVars, rd, next, chan, reg, sftpOpen, proc, procOpen, kill>>

\* The SFTP tasks of a socket run one after another: no task while an open is awaited.
SFTPTaskFree == \A c \in Channels : ~(chan[c].kind = "sftp" /\ chan[c].opening)

\* openSFTPChannel up to the await of its open request.
OpenSFTP ==
    /\ phase = "ready" /\ sftp.ws = "open" /\ sftp.handler = "none" /\ SFTPTaskFree
    /\ ~sftpOpen.cancelled
    /\ NewChannel("sftp")
    /\ sftp' = [sftp EXCEPT !.chan = next, !.handler = "new"]
    /\ sftpOpen' = [NoPending EXCEPT !.chan = next]
    /\ UNCHANGED <<coreVars, rd, proc, procOpen, kill>>

\* closeSFTPChannel: on sftp_close, a failed initialisation, a protocol error, and
\* when the socket goes away.
CloseSFTPChannel(ws) ==
    /\ sftpOpen' = IF sftpOpen.chan = sftp.chan /\ sftp.handler # "none"
                   THEN [sftpOpen EXCEPT !.cancelled = TRUE] ELSE sftpOpen
    /\ chan' = AuxClose(chan, sftp.chan)
    /\ sftp' = [chan |-> 0, handler |-> "none", ws |-> ws]

CloseSFTP ==
    /\ sftp.ws = "open" /\ sftp.handler # "none" /\ SFTPTaskFree
    /\ CloseSFTPChannel(sftp.ws)
    /\ UNCHANGED <<coreVars, rd, next, reg, proc, procOpen, kill>>

DetachSFTP ==
    /\ sftp.ws # "none"
    /\ CloseSFTPChannel("none")
    /\ UNCHANGED <<coreVars, rd, next, reg, proc, procOpen, kill>>

\* Fault: no open is timed.
OpenSentUntimed(c) ==
    /\ chan[c].opening /\ chan[c].srv # "none"
    /\ chan' = [chan EXCEPT ![c].opening = FALSE]
    /\ UNCHANGED <<coreVars, rd, next, reg, sftp, sftpOpen, proc, procOpen, kill>>

\* The awaited open request was written: the timer of the open starts.
OpenSent(c) ==
    /\ chan[c].opening /\ chan[c].srv # "none"
    /\ chan' = [chan EXCEPT ![c].opening = FALSE]
    /\ sftpOpen' = IF sftpOpen.chan = c THEN [sftpOpen EXCEPT !.timer = TRUE] ELSE sftpOpen
    /\ procOpen' = IF procOpen.chan = c THEN [procOpen EXCEPT !.timer = TRUE] ELSE procOpen
    /\ kill' = IF chan[c].kind = "kill" THEN [kill EXCEPT ![c].timer = TRUE] ELSE kill
    /\ UNCHANGED <<coreVars, rd, next, reg, sftp, proc>>

\* ... or its write failed: the catch blocks forget the channel.
OpenFailed(c) ==
    /\ chan[c].opening /\ chan[c].srv = "none"
    /\ chan' = [chan EXCEPT ![c].opening = FALSE]
    /\ reg' = reg \ {c}
    /\ sftpOpen' = ClearPending(sftpOpen, c) /\ procOpen' = ClearPending(procOpen, c)
    /\ sftp' = IF chan[c].kind = "sftp" THEN [sftp EXCEPT !.chan = 0, !.handler = "none"] ELSE sftp
    /\ proc' = IF chan[c].kind = "process" THEN [proc EXCEPT !.chan = 0] ELSE proc
    /\ kill' = IF chan[c].kind = "kill" THEN [kill EXCEPT ![c].in = FALSE, ![c].timer = FALSE] ELSE kill
    /\ UNCHANGED <<coreVars, rd, next>>

\* expirePendingProcessChannelOpen: the monitor socket is closed, whichever it is.
ProcessOpenTimeout ==
    /\ procOpen.timer
    /\ chan' = AuxClose(chan, procOpen.chan)
    /\ proc' = [chan |-> IF proc.chan = procOpen.chan THEN 0 ELSE proc.chan,
                ws |-> IF proc.ws = "open" THEN "closing" ELSE proc.ws]
    /\ procOpen' = NoPending
    /\ UNCHANGED <<coreVars, rd, next, reg, sftp, sftpOpen, kill>>

\* expirePendingSFTPChannelOpen.
SFTPOpenTimeout ==
    /\ sftpOpen.timer
    /\ chan' = AuxClose(chan, sftpOpen.chan)
    /\ sftp' = [chan |-> IF sftp.chan = sftpOpen.chan THEN 0 ELSE sftp.chan,
                handler |-> IF sftp.chan = sftpOpen.chan THEN "none" ELSE sftp.handler,
                ws |-> IF sftp.ws = "open" THEN "closing" ELSE sftp.ws]
    /\ sftpOpen' = NoPending
    /\ UNCHANGED <<coreVars, rd, next, reg, proc, procOpen, kill>>

\* Fault: the timeout forgets the channel (what the comment in the code warns of).
KillTimeoutForgets(c) ==
    /\ kill[c].timer
    /\ kill' = [kill EXCEPT ![c].timer = FALSE, ![c].in = FALSE, ![c].final = TRUE,
                            ![c].results = IF kill[c].in THEN @ + 1 ELSE @]
    /\ reg' = reg \ {c}
    /\ UNCHANGED <<coreVars, rd, next, chan, sftp, sftpOpen, proc, procOpen>>

\* Fault: the timeout answers and keeps the entry for the close to answer again.
KillTimeoutKeeps(c) ==
    /\ kill[c].timer
    /\ kill' = [kill EXCEPT ![c].timer = FALSE, ![c].cancelled = TRUE,
                            ![c].results = IF kill[c].in THEN @ + 1 ELSE @]
    /\ UNCHANGED <<coreVars, rd, next, chan, reg, sftp, sftpOpen, proc, procOpen>>

\* expirePendingProcessKill: the timeout is answered, the entry released and the
\* channel left registered for the server's late answer.
KillTimeout(c) ==
    /\ kill[c].timer
    /\ IF kill[c].in /\ ~kill[c].final
       THEN /\ kill' = [kill EXCEPT ![c].timer = FALSE, ![c].cancelled = TRUE,
                             ![c].in = FALSE, ![c].final = TRUE, ![c].results = @ + 1]
            /\ chan' = AuxClose(chan, c)
       ELSE /\ kill' = [kill EXCEPT ![c].timer = FALSE]
            /\ UNCHANGED chan
    /\ UNCHANGED <<coreVars, rd, next, reg, sftp, sftpOpen, proc, procOpen>>
-----------------------------------------------------------------------------
(* handleChannel for the auxiliary channels: what the server says of them.    *)
Hears(c, states) ==
    /\ rd.at = "idle" /\ phase = "ready"
    /\ c \in reg /\ chan[c].srv \in states

\* finalizeProcessKill: the entry and the channel go, the first call answers.
FinalizeKill(c) ==
    IF kill[c].in
    THEN [kill EXCEPT ![c].in = FALSE, ![c].timer = FALSE, ![c].final = TRUE,
                      ![c].results = IF kill[c].final THEN @ ELSE @ + 1]
    ELSE kill

\* The reader awaits the close it has begun, if it has begun one.
ReaderCloses(ch, c) ==
    /\ chan' = AuxClose(ch, c)
    /\ rd' = IF chan'[c].eofSent /\ ~ch[c].eofSent THEN [at |-> "aux", c |-> c] ELSE rd

Confirmed(c) == [chan EXCEPT ![c].srv = "open", ![c].confirmed = TRUE]

\* Fault: a channel nobody wants is left open.
ConfirmedThenClosedNot(c) == chan' = Confirmed(c) /\ rd' = rd

\* A channel that is open the moment its confirmation is handled can be closed.
ConfirmedThenClosed(c) ==
    /\ chan' = [Confirmed(c) EXCEPT ![c].eofSent = TRUE]
    /\ rd' = [at |-> "aux", c |-> c]

\* OPEN_CONFIRMATION of a kill channel: the command runs, unless nobody waits for it.
KillConfirmed(c) ==
    /\ Hears(c, {"asked"}) /\ kill[c].in
    /\ IF kill[c].cancelled \/ proc.ws = "none"
       THEN /\ ConfirmedThenClosed(c)
            /\ kill' = [kill EXCEPT ![c].timer = FALSE] /\ UNCHANGED reg
       ELSE IF broken
       THEN /\ chan' = Confirmed(c) /\ UNCHANGED rd
            /\ kill' = FinalizeKill(c) /\ reg' = reg \ {c}
       ELSE /\ chan' = [Confirmed(c) EXCEPT ![c].owed = TRUE] /\ UNCHANGED rd
            /\ kill' = [kill EXCEPT ![c].timer = FALSE, ![c].ran = TRUE] /\ UNCHANGED reg
    /\ UNCHANGED <<coreVars, next, sftp, sftpOpen, proc, procOpen>>

\* OPEN_CONFIRMATION of the SFTP or the process channel its socket still wants.
Wants(c) ==
    \/ c = sftp.chan /\ sftp.handler # "none" /\ ~sftpOpen.cancelled
    \/ c = proc.chan /\ proc.ws # "none" /\ ~procOpen.cancelled

ServiceConfirmed(c) ==
    /\ Hears(c, {"asked"}) /\ ~kill[c].in /\ Wants(c) /\ ~broken
    /\ chan' = [Confirmed(c) EXCEPT ![c].owed = TRUE]
    /\ UNCHANGED <<coreVars, rd, next, reg, sftp, sftpOpen, proc, procOpen, kill>>

\* OPEN_CONFIRMATION of a channel nobody wants any more.
UnwantedConfirmed(c) ==
    /\ Hears(c, {"asked"}) /\ ~kill[c].in /\ ~Wants(c)
    /\ ConfirmedThenClosed(c)
    /\ sftpOpen' = ClearPending(sftpOpen, c) /\ procOpen' = ClearPending(procOpen, c)
    /\ UNCHANGED <<coreVars, next, reg, sftp, proc, kill>>

\* OPEN_FAILURE.
OpenRefused(c) ==
    /\ Hears(c, {"asked"})
    /\ chan' = [chan EXCEPT ![c].srv = "closed"]
    /\ reg' = reg \ {c}
    /\ sftpOpen' = ClearPending(sftpOpen, c) /\ procOpen' = ClearPending(procOpen, c)
    /\ sftp' = IF sftp.chan = c THEN [sftp EXCEPT !.chan = 0, !.handler = "none"] ELSE sftp
    /\ proc' = IF proc.chan = c THEN [proc EXCEPT !.chan = 0] ELSE proc
    /\ kill' = FinalizeKill(c)
    /\ UNCHANGED <<coreVars, rd, next>>

\* CHANNEL_SUCCESS.  The pending process open is cleared for the current process
\* channel only, the pending SFTP open for any channel it belongs to.
RequestGranted(c) ==
    /\ Hears(c, {"open", "eof"}) /\ chan[c].owed
    /\ chan' = [chan EXCEPT ![c].owed = FALSE]
    /\ sftpOpen' = ClearPending(sftpOpen, c)
    /\ sftp' = IF sftp.chan = c /\ sftp.handler = "new" THEN [sftp EXCEPT !.handler = "init"] ELSE sftp
    /\ procOpen' = IF proc.chan = c THEN ClearPending(procOpen, c) ELSE procOpen
    /\ UNCHANGED <<coreVars, rd, next, reg, proc, kill>>

\* CHANNEL_FAILURE: the SFTP and the process channel are closed, a kill's is not.
RequestRefused(c) ==
    /\ Hears(c, {"open", "eof"}) /\ chan[c].owed
    /\ sftpOpen' = ClearPending(sftpOpen, c)
    /\ procOpen' = IF proc.chan = c THEN ClearPending(procOpen, c) ELSE procOpen
    /\ LET answered == [chan EXCEPT ![c].owed = FALSE]
       IN  IF c \in {sftp.chan, proc.chan} THEN ReaderCloses(answered, c)
                                           ELSE chan' = answered /\ UNCHANGED rd
    /\ sftp' = IF sftp.chan = c THEN [sftp EXCEPT !.chan = 0, !.handler = "none"] ELSE sftp
    /\ proc' = IF proc.chan = c THEN [proc EXCEPT !.chan = 0] ELSE proc
    /\ kill' = IF kill[c].in THEN [kill EXCEPT ![c].refused = TRUE] ELSE kill
    /\ UNCHANGED <<coreVars, next, reg>>

\* SFTPHandler.initialize: the version exchange ends well or badly.
SFTPReady ==
    /\ sftp.handler = "init"
    /\ sftp' = [sftp EXCEPT !.handler = "ready"]
    /\ UNCHANGED <<coreVars, rd, next, chan, reg, sftpOpen, proc, procOpen, kill>>

SFTPInitFails ==
    /\ sftp.handler \in {"init", "failing"}
    /\ CloseSFTPChannel(sftp.ws)
    /\ UNCHANGED <<coreVars, rd, next, reg, proc, procOpen, kill>>

\* CHANNEL_DATA the SFTP client cannot parse.
SFTPProtocolError(c) ==
    /\ Hears(c, {"open"}) /\ sftp.chan = c
    /\ CloseSFTPChannel(sftp.ws)
    /\ rd' = IF ClosesNow(c) THEN [at |-> "aux", c |-> c] ELSE rd
    /\ UNCHANGED <<coreVars, next, reg, proc, procOpen, kill>>

\* CHANNEL_EOF: the SFTP handler is disposed of, and stays until the close.
ChannelEof(c) ==
    /\ Hears(c, {"open"})
    /\ chan' = [chan EXCEPT ![c].srv = "eof"]
    /\ sftp' = IF sftp.chan # c THEN sftp
               ELSE [sftp EXCEPT !.handler = IF @ = "init" THEN "failing" ELSE "dead"]
    /\ UNCHANGED <<coreVars, rd, next, reg, sftpOpen, proc, procOpen, kill>>

\* The channel is closed on both sides: it and all that hangs on it is forgotten.
Release(c) ==
    /\ reg' = reg \ {c}
    /\ sftpOpen' = ClearPending(sftpOpen, c)
    /\ procOpen' = IF proc.chan = c THEN ClearPending(procOpen, c) ELSE procOpen
    /\ sftp' = IF sftp.chan = c THEN [sftp EXCEPT !.chan = 0, !.handler = "none"] ELSE sftp
    /\ proc' = IF proc.chan = c THEN [proc EXCEPT !.chan = 0] ELSE proc
    /\ kill' = FinalizeKill(c)

\* CHANNEL_CLOSE: answered by our own CLOSE, which is awaited, unless that was sent.
ChannelClosed(c) ==
    /\ Hears(c, {"open", "eof"}) /\ (broken => chan[c].closeSent)
    /\ chan' = [chan EXCEPT ![c].srv = "closed", ![c].closeRecv = TRUE, ![c].closeSent = TRUE]
    /\ IF chan[c].closeSent
       THEN Release(c) /\ UNCHANGED rd
       ELSE /\ rd' = [at |-> "reply", c |-> c]
            /\ UNCHANGED <<reg, sftp, sftpOpen, proc, procOpen, kill>>
    /\ UNCHANGED <<coreVars, next>>

CloseAnswered(c) ==
    /\ rd = [at |-> "reply", c |-> c]
    /\ rd' = ReaderNext
    /\ Release(c)
    /\ UNCHANGED <<coreVars, next, chan>>
-----------------------------------------------------------------------------
Browser ==
    \/ AttachProcess \/ OpenProcess \/ StopProcess \/ OpenKill \/ DetachProcess
    \/ AttachSFTP \/ OpenSFTP \/ CloseSFTP \/ DetachSFTP

Aux ==
    \/ ProcessOpenTimeout \/ SFTPOpenTimeout \/ SFTPReady \/ SFTPInitFails
    \/ \E c \in Channels :
         \/ AuxCloseSent(c) \/ OpenSent(c) \/ OpenFailed(c) \/ KillTimeout(c)
         \/ KillConfirmed(c) \/ ServiceConfirmed(c) \/ UnwantedConfirmed(c)
         \/ OpenRefused(c) \/ RequestGranted(c) \/ RequestRefused(c)
         \/ SFTPProtocolError(c) \/ ChannelEof(c)
         \/ ChannelClosed(c) \/ CloseAnswered(c)

Next == Close \/ ConnectionBreaks \/ Browser \/ Aux

Spec == Init /\ [][Next]_vars
-----------------------------------------------------------------------------
Reader == [at : {"idle", "ended", "aux", "reply"}, c : 0..MaxChannels]
ChannelObject ==
    [kind : Kinds, srv : {"none", "asked", "open", "eof", "closed"}, opening : BOOLEAN,
     confirmed : BOOLEAN, owed : BOOLEAN, eofSent : BOOLEAN, closeSent : BOOLEAN,
     closeRecv : BOOLEAN]
SFTPService == [chan : 0..MaxChannels, ws : {"none", "open", "closing"},
                handler : {"none", "new", "init", "ready", "failing", "dead"}]
ProcessService == [chan : 0..MaxChannels, ws : {"none", "open", "closing"}]
Pending == [chan : 0..MaxChannels, cancelled : BOOLEAN, timer : BOOLEAN]
KillEntry == [in : BOOLEAN, cancelled : BOOLEAN, timer : BOOLEAN, ran : BOOLEAN,
              final : BOOLEAN, results : Nat, refused : BOOLEAN]

TypeOK ==
    /\ phase \in {"ready", "closed"} /\ broken \in BOOLEAN /\ rd \in Reader
    /\ next \in 1..(MaxChannels + 1) /\ reg \subseteq Channels
    /\ chan \in [Channels -> ChannelObject]
    /\ sftp \in SFTPService /\ sftpOpen \in Pending
    /\ proc \in ProcessService /\ procOpen \in Pending
    /\ kill \in [Channels -> KillEntry]

\* The server never writes about a channel the session has forgotten: such a message
\* throws "unknown recipient" in handleChannel and ends the whole session.
NoUnknownRecipient ==
    phase # "closed" /\ ~broken
        => \A c \in Channels : chan[c].srv \in {"asked", "open", "eof"} => c \in reg

\* No server channel is left behind: an open channel is somebody's, or its close is
\* under way (detach, timeout, refusal and protocol errors all let go of channels).
NoOrphanChannel ==
    phase # "closed" /\ ~broken
        => \A c \in reg : IsOpen(c) => \/ c \in {sftp.chan, proc.chan} \/ kill[c].in
                                      \/ chan[c].eofSent

\* A kill request is answered at most once, however its timeout, the server's late
\* confirmation, its close and a detached monitor socket interleave.
KillAnsweredOnce == \A c \in Channels : kill[c].results <= 1

KillNeverStuck ==
    \A c \in Channels : kill[c].in /\ ~kill[c].cancelled =>
        \/ chan[c].opening \/ kill[c].timer
        \/ kill[c].ran /\ (chan[c].srv \in {"open", "eof"} \/ rd = [at |-> "reply", c |-> c])
OpenNeverStuck ==
    \A p \in {sftpOpen, procOpen} : p.chan # 0 => p.timer \/ chan[p.chan].opening

\* No request hangs on a lost timer.  Until a kill is answered or cancelled its open is
\* being sent, is timed, or the command is with the server; and a pending open,
\* cancelled or not, ends: "still closing" cannot last for ever.
NothingStuck == KillNeverStuck /\ OpenNeverStuck
=============================================================================
