----------------------------- MODULE SshSession -----------------------------
(***************************************************************************)
(* One SSH session of the WebSSH backend: the class SSHSession of          *)
(* worker/src/webssh/backend/session.ts over the channels of               *)
(* worker/src/webssh/ssh/channel.ts.                                       *)
(*                                                                         *)
(* One reader task handles the server's packets in order and is suspended  *)
(* at every await (rd says where); the messages of the three browser       *)
(* sockets, the timers and close() run between its steps.  The server is   *)
(* any server during the handshake and a server that keeps to RFC 4254 on  *)
(* its channels afterwards: it writes about a channel it was asked to open *)
(* until it has sent that channel's CLOSE or refused it.                   *)
(***************************************************************************)
EXTENDS Naturals, FiniteSets

CONSTANTS
    KeepaliveLimit,   \* unanswered keepalives before the session fails, 3 in the code
    RoundLimit,       \* keyboard-interactive rounds, 16 in the code
    MaxInput,         \* bound of the input queue (MAX_QUEUED_INPUT, in chunks)
    MaxWindow         \* bound of the shell's send window, in chunks

ASSUME SshAssumption ==
    /\ KeepaliveLimit \in Nat \ {0}
    /\ RoundLimit \in Nat \ {0}
    /\ MaxInput \in Nat
    /\ MaxWindow \in Nat

VARIABLES
    phase,    \* this.phase
    rd,       \* where the reader task is suspended, "idle" between packets
    kex,      \* [init: remoteKex/clientPublic set, keys: keys and encryptor set, ignore]
    auth,     \* [cred: the secret still in config, sent: authRequestSent, ki, rounds, answered]
    asking,   \* pendingHostConfirmation is set
    wanted,   \* pendingChannelRequest: "none", "pty" or "shell"
    timers,   \* [shell: shellTimer, keepalive: keepaliveTimer, unanswered: keepalivePending]
    input,    \* [queued, window, flushing]: inputQueue and the shell channel's window
    broken,   \* the TCP connection no longer takes writes
    seen      \* history: [host: the current keys' host key was accepted,
              \*           secrets: secrets sent, wrong: a secret went elsewhere, closed]

hsVars == <<kex, auth, asking, wanted>>
vars == <<phase, rd, hsVars, timers, input, broken, seen>>

Phases == {"version", "kex", "host-confirm", "auth", "pty", "shell", "ready", "closed"}

-----------------------------------------------------------------------------
Init ==
    /\ phase = "version" /\ rd = "idle"
    /\ kex = [init |-> FALSE, keys |-> FALSE, ignore |-> FALSE]
    /\ \E m \in {"password", "publickey"} :
         auth = [cred |-> m, method |-> m, sent |-> FALSE, ki |-> FALSE,
                 rounds |-> 0, answered |-> FALSE]
    /\ asking = FALSE /\ wanted = "none"
    /\ timers = [shell |-> FALSE, keepalive |-> FALSE, unanswered |-> 0]
    /\ input = [queued |-> 0, window |-> 0, flushing |-> FALSE]
    /\ broken = FALSE
    /\ seen = [host |-> FALSE, secrets |-> 0, wrong |-> FALSE, closed |-> FALSE]

\* close(): every timer, queue, channel, attachment and secret is dropped at once.
\* A reader suspended in an await is not stopped by it.
CloseState ==
    /\ phase' = "closed"
    /\ asking' = FALSE
    /\ auth' = [auth EXCEPT !.cred = "none"]
    /\ timers' = [timers EXCEPT !.shell = FALSE, !.keepalive = FALSE]
    /\ input' = [input EXCEPT !.queued = 0]
    /\ broken' = TRUE
    /\ seen' = [seen EXCEPT !.closed = TRUE]
    /\ UNCHANGED <<kex, wanted>>

\* An exception in the reader ends it through fail(), which closes the session.
ReaderFails == CloseState /\ rd' = "ended"

\* The owner of the session closes it: its WebSocket closed, or the object shut down.
Close ==
    /\ phase # "closed"
    /\ CloseState
    /\ rd' = IF rd = "idle" THEN "ended"
             ELSE IF rd = "confirm" THEN "rejected" ELSE rd

\* The connection breaks: reads end the session, writes fail from now on.
ConnectionBreaks ==
    /\ ~broken /\ broken' = TRUE
    /\ UNCHANGED <<phase, rd, hsVars, timers, input, seen>>

\* readLoop: the server closed the connection, or a read failed.
ReadEnds == phase # "closed" /\ rd = "idle" /\ ReaderFails

\* A packet the session refuses (malformed, out of order, a rekey, a failed
\* negotiation or authentication, the end of the shell) throws in the reader.
PacketRefused == phase # "closed" /\ rd = "idle" /\ ReaderFails
-----------------------------------------------------------------------------
(* The handshake.                                                             *)
Reading(p) == rd = "idle" /\ phase = p

\* consume(), the identification line: startKex sends our KEXINIT.
ConsumeVersion ==
    /\ Reading("version") /\ ~broken
    /\ phase' = "kex"
    /\ UNCHANGED <<rd, hsVars, timers, input, broken, seen>>

\* handleKex, KEXINIT: negotiated, our ECDH key sent; a wrong guess of the server
\* makes us drop its next packet.
HandleKexInit ==
    /\ Reading("kex") /\ ~kex.ignore /\ ~kex.keys /\ ~broken
    /\ \E wrongGuess \in BOOLEAN : kex' = [kex EXCEPT !.init = TRUE, !.ignore = wrongGuess]
    /\ UNCHANGED <<phase, rd, auth, asking, wanted, timers, input, broken, seen>>

IgnoreKexPacket ==
    /\ Reading("kex") /\ kex.ignore
    /\ kex' = [kex EXCEPT !.ignore = FALSE]
    /\ UNCHANGED <<phase, rd, auth, asking, wanted, timers, input, broken, seen>>

\* handleEcdhReply up to its first await; a server may send more than one reply.
HandleEcdhReply ==
    /\ Reading("kex") /\ ~kex.ignore /\ kex.init
    /\ rd' = "verify"
    /\ seen' = [seen EXCEPT !.host = FALSE]
    /\ UNCHANGED <<phase, hsVars, timers, input, broken>>

\* The rest of handleEcdhReply for an accepted host key: keys derived, NEWKEYS sent.
FinishKex ==
    /\ kex' = [kex EXCEPT !.keys = TRUE]
    /\ rd' = "idle"
    /\ UNCHANGED <<phase, auth, asking, wanted, timers, input, broken>>

\* The signature verified and the fingerprint is the expected one.
HostKeyTrusted ==
    /\ rd = "verify" /\ ~broken
    /\ seen' = [seen EXCEPT !.host = TRUE]
    /\ FinishKex

\* The signature does not verify, or a computation or a send threw.
HostKeyInvalid == rd = "verify" /\ ReaderFails

\* confirmHostKey: another fingerprint is put to the browser.  It sets the phase
\* whatever the phase has become during the awaits before it.
ConfirmHostKey ==
    /\ rd = "verify"
    /\ phase' = "host-confirm" /\ asking' = TRUE
    /\ rd' = "confirm"
    /\ UNCHANGED <<kex, auth, wanted, timers, input, broken, seen>>

\* Fault: the answer is not looked at.
HostKeyDecisionLenient(accept) ==
    /\ phase # "closed" /\ asking /\ rd = "confirm"
    /\ asking' = FALSE
    /\ phase' = "kex" /\ rd' = "accepted"
    /\ seen' = [seen EXCEPT !.host = accept]
    /\ UNCHANGED <<kex, auth, wanted, timers, input, broken>>

\* confirmHostKey's finish(): the browser's host_key_decision, or 30 seconds without.
HostKeyDecision(accept) ==
    /\ phase # "closed" /\ asking /\ rd = "confirm"
    /\ asking' = FALSE
    /\ phase' = IF accept THEN "kex" ELSE phase
    /\ rd' = IF accept THEN "accepted" ELSE "rejected"
    /\ seen' = [seen EXCEPT !.host = accept]
    /\ UNCHANGED <<kex, auth, wanted, timers, input, broken>>

\* Fault: the confirmation is not timed.
HostKeyTimeoutNever == FALSE /\ HostKeyDecision(FALSE)

HostKeyTimeout == HostKeyDecision(FALSE)

HostKeyAccepted ==
    /\ rd = "accepted"
    /\ \/ ~broken /\ FinishKex /\ UNCHANGED seen
       \/ broken /\ ReaderFails

\* 'Host key was not accepted', or a send that failed: the reader's catch.
ReaderThrows == rd = "rejected" /\ ReaderFails

\* handleKex, NEWKEYS up to the await of enableInboundEncryption.
HandleNewKeys ==
    /\ Reading("kex") /\ ~kex.ignore /\ kex.keys
    /\ rd' = "newkeys"
    /\ UNCHANGED <<phase, hsVars, timers, input, broken, seen>>

\* ... and after it: the phase is set whatever it has become, then a send.
InboundEnabled ==
    /\ rd = "newkeys"
    /\ phase' = "auth"
    /\ rd' = IF broken THEN "rejected" ELSE "idle"
    /\ UNCHANGED <<hsVars, timers, input, broken, seen>>

\* The secret leaves the session, in whichever authentication message.
SendSecret ==
    seen' = [seen EXCEPT !.secrets = @ + 1, !.wrong = @ \/ ~(seen.host /\ kex.keys)]

\* handleAuth, SERVICE_ACCEPT.
ServiceAccept ==
    /\ Reading("auth") /\ ~auth.sent
    /\ \/ /\ auth.method = "password" /\ ~broken
          /\ auth' = [auth EXCEPT !.sent = TRUE]
          /\ SendSecret /\ rd' = rd
       \/ /\ auth.method = "publickey"
          /\ rd' = "sign"
          /\ UNCHANGED <<auth, seen>>
    /\ UNCHANGED <<phase, kex, asking, wanted, timers, input, broken>>

\* The signature of a public key request is ready (or the key is unusable).
RequestSigned ==
    /\ rd = "sign"
    /\ \/ /\ ~broken
          /\ auth' = [auth EXCEPT !.sent = TRUE, !.cred = "none"]
          /\ SendSecret /\ rd' = "idle"
          /\ UNCHANGED <<phase, kex, asking, wanted, timers, input, broken>>
       \/ ReaderFails

\* handleAuth, USERAUTH_INFO_REQUEST: a challenge without prompts is answered
\* empty, the first one with prompts by the password.
InfoRequest(prompts) ==
    /\ Reading("auth") /\ ~broken /\ auth.sent /\ auth.method = "password" /\ auth.ki
    /\ auth.rounds < RoundLimit
    /\ IF prompts
       THEN /\ ~auth.answered /\ auth.cred # "none"
            /\ auth' = [auth EXCEPT !.rounds = @ + 1, !.answered = TRUE, !.cred = "none"]
            /\ SendSecret
       ELSE /\ auth' = [auth EXCEPT !.rounds = @ + 1]
            /\ UNCHANGED seen
    /\ UNCHANGED <<phase, rd, kex, asking, wanted, timers, input, broken>>

\* handleAuth, USERAUTH_FAILURE that offers keyboard-interactive; any other fails.
UserauthFailure ==
    /\ Reading("auth") /\ ~broken /\ auth.sent
    /\ auth.method = "password" /\ ~auth.ki /\ auth.cred # "none"
    /\ auth' = [auth EXCEPT !.ki = TRUE]
    /\ UNCHANGED <<phase, rd, kex, asking, wanted, timers, input, broken, seen>>

\* handleAuth, USERAUTH_SUCCESS: secrets dropped, keepalive started, shell asked for.
UserauthSuccess ==
    /\ Reading("auth") /\ ~broken /\ auth.sent
    /\ auth' = [auth EXCEPT !.cred = "none"]
    /\ phase' = "pty"
    /\ timers' = [timers EXCEPT !.keepalive = TRUE]
    /\ UNCHANGED <<rd, kex, asking, wanted, input, broken, seen>>
-----------------------------------------------------------------------------
(* The shell channel, its input queue and the keepalive.                      *)

\* flushInput's loop up to its next await: a chunk leaves if the window allows it.
Flush(i) ==
    IF i.queued > 0 /\ i.window > 0
    THEN [i EXCEPT !.window = @ - 1, !.flushing = TRUE]
    ELSE [i EXCEPT !.flushing = FALSE]

FlushInput(i, ready) == IF i.flushing \/ ~ready THEN i ELSE Flush(i)

\* queueInput: a full queue drops the rest.
QueueInput ==
    /\ phase # "closed" /\ input.queued < MaxInput
    /\ input' = FlushInput([input EXCEPT !.queued = @ + 1], phase = "ready")
    /\ UNCHANGED <<phase, rd, hsVars, timers, broken, seen>>

\* flushInput after the await of a chunk's send; close() may have emptied the queue.
InputSent ==
    /\ input.flushing
    /\ LET sent == [input EXCEPT !.queued = IF @ = 0 THEN 0 ELSE @ - 1]
       IN  input' = IF broken \/ phase # "ready" THEN [sent EXCEPT !.flushing = FALSE]
                                                ELSE Flush(sent)
    /\ UNCHANGED <<phase, rd, hsVars, timers, broken, seen>>

\* Fault: the queue is not flushed when the window grows.
WindowAdjustOnly ==
    /\ rd = "idle" /\ phase \in {"pty", "shell", "ready"}
    /\ input.window < MaxWindow
    /\ input' = [input EXCEPT !.window = @ + 1]
    /\ UNCHANGED <<phase, rd, hsVars, timers, broken, seen>>

\* handleChannel, WINDOW_ADJUST of the shell.
WindowAdjust ==
    /\ rd = "idle" /\ phase \in {"pty", "shell", "ready"}
    /\ input.window < MaxWindow
    /\ input' = FlushInput([input EXCEPT !.window = @ + 1], phase = "ready")
    /\ UNCHANGED <<phase, rd, hsVars, timers, broken, seen>>

\* handleChannel, OPEN_CONFIRMATION of the shell: its PTY is requested.
ShellConfirmed ==
    /\ Reading("pty") /\ wanted = "none" /\ ~broken
    /\ wanted' = "pty"
    /\ UNCHANGED <<phase, rd, kex, auth, asking, timers, input, broken, seen>>

MarkReady ==
    /\ phase' = "ready" /\ wanted' = "none"
    /\ timers' = [timers EXCEPT !.shell = FALSE]
    /\ input' = FlushInput(input, TRUE)

\* handleChannel, SUCCESS of the PTY request: the shell is requested, with a timer
\* for servers that never answer it.
PtyGranted ==
    /\ Reading("pty") /\ wanted = "pty" /\ ~broken
    /\ phase' = "shell" /\ wanted' = "shell"
    /\ timers' = [timers EXCEPT !.shell = TRUE]
    /\ UNCHANGED <<rd, kex, auth, asking, input, broken, seen>>

\* handleChannel, SUCCESS of the shell request or the first output.
ShellAnswers ==
    /\ Reading("shell") /\ MarkReady
    /\ UNCHANGED <<rd, kex, auth, asking, broken, seen>>

ShellTimeout ==
    /\ timers.shell /\ phase = "shell" /\ MarkReady
    /\ UNCHANGED <<rd, kex, auth, asking, broken, seen>>

\* startKeepalive's interval: the session fails when too many went unanswered.
KeepaliveTick ==
    /\ timers.keepalive /\ phase # "closed"
    /\ IF timers.unanswered >= KeepaliveLimit \/ broken
       THEN CloseState /\ rd' = IF rd = "idle" THEN "ended" ELSE rd
       ELSE /\ timers' = [timers EXCEPT !.unanswered = @ + 1]
            /\ UNCHANGED <<phase, rd, hsVars, input, broken, seen>>

\* handlePacket, REQUEST_SUCCESS or REQUEST_FAILURE.
KeepaliveAnswered ==
    /\ rd = "idle" /\ phase \in {"pty", "shell", "ready"} /\ timers.unanswered > 0
    /\ timers' = [timers EXCEPT !.unanswered = 0]
    /\ UNCHANGED <<phase, rd, hsVars, input, broken, seen>>
-----------------------------------------------------------------------------
Handshake ==
    \/ ConsumeVersion \/ HandleKexInit \/ IgnoreKexPacket \/ HandleEcdhReply
    \/ HostKeyTrusted \/ HostKeyInvalid \/ ConfirmHostKey
    \/ \E accept \in BOOLEAN : HostKeyDecision(accept)
    \/ HostKeyTimeout \/ HostKeyAccepted \/ ReaderThrows
    \/ HandleNewKeys \/ InboundEnabled
    \/ ServiceAccept \/ RequestSigned \/ UserauthFailure \/ UserauthSuccess
    \/ \E prompts \in BOOLEAN : InfoRequest(prompts)

Shell ==
    \/ QueueInput \/ InputSent \/ WindowAdjust
    \/ ShellConfirmed \/ PtyGranted \/ ShellAnswers \/ ShellTimeout
    \/ KeepaliveTick \/ KeepaliveAnswered

Next == Close \/ ConnectionBreaks \/ ReadEnds \/ PacketRefused \/ Handshake \/ Shell

\* Promises settle, timers fire, and a broken connection is noticed.
Fairness ==
    /\ WF_vars(HostKeyTrusted \/ HostKeyInvalid \/ ConfirmHostKey)
    /\ WF_vars(HostKeyTimeout) /\ WF_vars(HostKeyAccepted) /\ WF_vars(ReaderThrows)
    /\ WF_vars(InboundEnabled) /\ WF_vars(RequestSigned) /\ WF_vars(InputSent)
    /\ WF_vars(ShellTimeout)

Spec == Init /\ [][Next]_vars /\ Fairness
-----------------------------------------------------------------------------
TypeOK ==
    /\ phase \in Phases
    /\ rd \in {"idle", "ended", "verify", "confirm", "accepted", "rejected", "newkeys", "sign"}
    /\ kex \in [init : BOOLEAN, keys : BOOLEAN, ignore : BOOLEAN]
    /\ auth \in [cred : {"none", "password", "publickey"}, method : {"password", "publickey"},
                 sent : BOOLEAN, ki : BOOLEAN, rounds : 0..RoundLimit, answered : BOOLEAN]
    /\ asking \in BOOLEAN /\ wanted \in {"none", "pty", "shell"} /\ broken \in BOOLEAN
    /\ timers \in [shell : BOOLEAN, keepalive : BOOLEAN, unanswered : 0..KeepaliveLimit]
    /\ input \in [queued : 0..MaxInput, window : 0..MaxWindow, flushing : BOOLEAN]
    /\ seen \in [host : BOOLEAN, secrets : Nat, wrong : BOOLEAN, closed : BOOLEAN]

\* The password or the signature only ever goes out under keys whose host key was
\* expected or confirmed in the browser; the password at most once per method.
SecretOnlyToAcceptedHost ==
    ~seen.wrong /\ seen.secrets <= (IF auth.method = "password" THEN 2 ELSE 1)

\* flushInput is never asleep over input it could send.
NoLostWakeup ==
    phase = "ready" /\ ~broken /\ input.queued > 0 /\ ~input.flushing => input.window = 0

\* close() may be overwritten by a reader resuming in the handshake (ConfirmHostKey,
\* InboundEnabled), but the session always ends closed for good.
CloseSticks == phase = "closed" ~> [](phase = "closed")
=============================================================================
