-------------------------- MODULE SshSessionProofs --------------------------
(***************************************************************************)
(* For every limit and every queue: SshSession is well typed, sends its    *)
(* secret only to an accepted host and no more often than the method       *)
(* needs, keeps none once closed, and never sleeps over input it can send. *)
(***************************************************************************)
EXTENDS SshSession, TLAPS

\* The keys the reader goes on with are those of an accepted host, and authentication
\* happens under keys.
KeysAccepted ==
    /\ kex.keys /\ rd \in {"idle", "newkeys", "sign"} => seen.host
    /\ rd = "accepted" => seen.host
    /\ phase \in {"auth", "pty", "shell", "ready"} \/ rd \in {"newkeys", "sign"} => kex.keys

\* Each secret sent is one of the two authRequestSent and answered stand for.
SecretsCounted ==
    /\ ~seen.wrong
    /\ seen.secrets <= (IF auth.sent THEN 1 ELSE 0) + (IF auth.answered THEN 1 ELSE 0)
    /\ auth.method = "publickey" => ~auth.answered
    /\ rd = "sign" => ~auth.sent

\* A session that was ever closed holds no secret any more.
ClosedHoldsNoSecret == seen.closed => auth.cred = "none"

SessionInv == TypeOK /\ KeysAccepted /\ SecretsCounted /\ ClosedHoldsNoSecret /\ NoLostWakeup
-----------------------------------------------------------------------------
LEMMA SessionInit == Init => SessionInv
<1> SUFFICES ASSUME Init PROVE SessionInv
  OBVIOUS
<1>1. PICK m \in {"password", "publickey"} :
        auth = [cred |-> m, method |-> m, sent |-> FALSE, ki |-> FALSE, rounds |-> 0,
                answered |-> FALSE]
  BY DEF Init
<1>2. auth \in [cred : {"none", "password", "publickey"}, method : {"password", "publickey"},
                sent : BOOLEAN, ki : BOOLEAN, rounds : 0..RoundLimit, answered : BOOLEAN]
  BY <1>1, SshAssumption
<1>3. /\ timers \in [shell : BOOLEAN, keepalive : BOOLEAN, unanswered : 0..KeepaliveLimit]
      /\ input \in [queued : 0..MaxInput, window : 0..MaxWindow, flushing : BOOLEAN]
      /\ kex \in [init : BOOLEAN, keys : BOOLEAN, ignore : BOOLEAN]
      /\ seen \in [host : BOOLEAN, secrets : Nat, wrong : BOOLEAN, closed : BOOLEAN]
  BY SshAssumption DEF Init
<1>4. TypeOK
  BY <1>2, <1>3 DEF Init, TypeOK, Phases
<1>5. KeysAccepted /\ ClosedHoldsNoSecret /\ NoLostWakeup
  BY DEF Init, KeysAccepted, ClosedHoldsNoSecret, NoLostWakeup
<1>6. SecretsCounted
  BY <1>1 DEF Init, SecretsCounted
<1> QED BY <1>4, <1>5, <1>6 DEF SessionInv

\* Sending the secret to an accepted host is counted and nothing else.
LEMMA SecretSent ==
    ASSUME TypeOK, SendSecret, seen.host, kex.keys, ~seen.wrong
    PROVE  /\ seen' \in [host : BOOLEAN, secrets : Nat, wrong : BOOLEAN, closed : BOOLEAN]
           /\ seen'.host = seen.host /\ seen'.secrets = seen.secrets + 1
           /\ seen'.wrong = FALSE /\ seen'.closed = seen.closed
<1> DEFINE w == seen.wrong \/ ~(seen.host /\ kex.keys)
<1>1. w = FALSE
  OBVIOUS
<1>2. seen' = [seen EXCEPT !.secrets = seen.secrets + 1, !.wrong = w]
  BY DEF SendSecret
<1>3. seen.secrets + 1 \in Nat /\ FALSE \in BOOLEAN
  BY DEF TypeOK
<1>4. seen' = [seen EXCEPT !.secrets = seen.secrets + 1, !.wrong = FALSE]
  BY <1>1, <1>2
<1> HIDE DEF w
<1> QED BY <1>3, <1>4 DEF TypeOK

\* close() drops the secret and the queue, wherever the reader is suspended.
LEMMA ClosedKeeps ==
    ASSUME SessionInv, CloseState, rd' \in {"ended", "rejected", rd} PROVE SessionInv'
<1>1. TypeOK /\ KeysAccepted /\ SecretsCounted
  BY DEF SessionInv
<1>2. /\ auth' \in [cred : {"none", "password", "publickey"},
                    method : {"password", "publickey"}, sent : BOOLEAN, ki : BOOLEAN,
                    rounds : 0..RoundLimit, answered : BOOLEAN]
      /\ auth'.cred = "none" /\ auth'.method = auth.method /\ auth'.sent = auth.sent
      /\ auth'.answered = auth.answered
  BY <1>1 DEF CloseState, TypeOK
<1>3. /\ timers' \in [shell : BOOLEAN, keepalive : BOOLEAN, unanswered : 0..KeepaliveLimit]
      /\ input' \in [queued : 0..MaxInput, window : 0..MaxWindow, flushing : BOOLEAN]
  <2>1. 0 \in 0..MaxInput
    BY SshAssumption
  <2>2. input' \in [queued : 0..MaxInput, window : 0..MaxWindow, flushing : BOOLEAN]
    BY <1>1, <2>1 DEF CloseState, TypeOK
  <2>3. timers' \in [shell : BOOLEAN, keepalive : BOOLEAN, unanswered : 0..KeepaliveLimit]
    BY <1>1 DEF CloseState, TypeOK
  <2> QED BY <2>2, <2>3
<1>4. /\ seen' \in [host : BOOLEAN, secrets : Nat, wrong : BOOLEAN, closed : BOOLEAN]
      /\ seen'.host = seen.host /\ seen'.secrets = seen.secrets /\ seen'.wrong = seen.wrong
  BY <1>1 DEF CloseState, TypeOK
<1>5. TypeOK'
  BY <1>1, <1>2, <1>3, <1>4, ZenonT(40) DEF CloseState, TypeOK, Phases
<1>6. KeysAccepted' /\ SecretsCounted'
  BY <1>1, <1>2, <1>4 DEF CloseState, KeysAccepted, SecretsCounted
<1>7. ClosedHoldsNoSecret' /\ NoLostWakeup'
  BY <1>2 DEF CloseState, ClosedHoldsNoSecret, NoLostWakeup
<1> QED BY <1>5, <1>6, <1>7 DEF SessionInv

LEMMA EndsKeep ==
    ASSUME SessionInv, Close \/ ReadEnds \/ PacketRefused \/ HostKeyInvalid \/ ReaderThrows
    PROVE  SessionInv'
BY ClosedKeeps DEF Close, ReadEnds, PacketRefused, HostKeyInvalid, ReaderThrows, ReaderFails

\* The steps of the key exchange: neither secrets nor input are touched.
LEMMA KexKeeps ==
    ASSUME SessionInv,
           \/ ConnectionBreaks \/ ConsumeVersion \/ HandleKexInit \/ IgnoreKexPacket
           \/ HandleEcdhReply \/ HostKeyTrusted \/ ConfirmHostKey \/ HandleNewKeys
           \/ InboundEnabled \/ (\E accept \in BOOLEAN : HostKeyDecision(accept))
           \/ (rd = "accepted" /\ FinishKex /\ UNCHANGED seen)
           \/ UNCHANGED vars
    PROVE  SessionInv'
<1>1. TypeOK /\ KeysAccepted /\ SecretsCounted /\ ClosedHoldsNoSecret /\ NoLostWakeup
  BY DEF SessionInv
<1> USE DEF ConnectionBreaks, ConsumeVersion, HandleKexInit, IgnoreKexPacket,
        HandleEcdhReply, HostKeyTrusted, ConfirmHostKey, HandleNewKeys, InboundEnabled,
        HostKeyDecision, FinishKex, Reading, vars, hsVars
<1>2. UNCHANGED <<auth, timers, input>>
  OBVIOUS
<1>3. /\ seen' \in [host : BOOLEAN, secrets : Nat, wrong : BOOLEAN, closed : BOOLEAN]
      /\ seen'.secrets = seen.secrets /\ seen'.wrong = seen.wrong
      /\ seen'.closed = seen.closed
  BY <1>1, ZenonT(40) DEF TypeOK
<1>4. kex' \in [init : BOOLEAN, keys : BOOLEAN, ignore : BOOLEAN]
  BY <1>1, ZenonT(40) DEF TypeOK
<1>5. /\ phase' \in Phases /\ rd' \in {"idle", "ended", "verify", "confirm", "accepted",
                                     "rejected", "newkeys", "sign"}
      /\ asking' \in BOOLEAN /\ wanted' = wanted /\ broken' \in BOOLEAN
  BY <1>1, ZenonT(40) DEF TypeOK, Phases
<1>6. TypeOK'
  BY <1>1, <1>2, <1>3, <1>4, <1>5, ZenonT(40) DEF TypeOK
<1>7. phase' # "ready" \/ (phase = "ready" /\ (~broken' => ~broken))
  BY <1>1 DEF TypeOK
<1>8. KeysAccepted'
  BY <1>1, ZenonT(40) DEF KeysAccepted, TypeOK
<1>9. rd' # "sign" \/ rd = "sign"
  OBVIOUS
<1>10. SecretsCounted' /\ ClosedHoldsNoSecret' /\ NoLostWakeup'
  BY <1>1, <1>2, <1>3, <1>7, <1>9 DEF SecretsCounted, ClosedHoldsNoSecret, NoLostWakeup
<1> QED BY <1>6, <1>8, <1>10 DEF SessionInv
-----------------------------------------------------------------------------
\* A message of the authentication: kex, timers and input stay, and what goes out is
\* counted by authRequestSent or answered.
LEMMA AuthKeeps ==
    ASSUME SessionInv, UNCHANGED <<kex, asking, wanted, timers, input, broken, phase>>,
           rd' \in {"idle", "sign"}, kex.keys, seen.host,
           auth' \in [cred : {"none", "password", "publickey"},
                    method : {"password", "publickey"}, sent : BOOLEAN, ki : BOOLEAN,
                    rounds : 0..RoundLimit, answered : BOOLEAN],
           auth'.cred \in {auth.cred, "none"}, auth'.method = auth.method,
           auth.sent => auth'.sent, auth.answered => auth'.answered,
           auth'.answered => auth.answered \/ auth.method = "password",
           rd' = "sign" => ~auth'.sent,
           \/ seen' = seen
           \/ SendSecret /\ ((~auth.sent /\ auth'.sent) \/ (~auth.answered /\ auth'.answered))
    PROVE  SessionInv'
<1>1. TypeOK /\ KeysAccepted /\ SecretsCounted /\ ClosedHoldsNoSecret /\ NoLostWakeup
  BY DEF SessionInv
<1>2. /\ seen' \in [host : BOOLEAN, secrets : Nat, wrong : BOOLEAN, closed : BOOLEAN]
      /\ seen'.host = seen.host /\ seen'.wrong = FALSE /\ seen'.closed = seen.closed
      /\ \/ seen'.secrets = seen.secrets
         \/ /\ seen'.secrets = seen.secrets + 1
            /\ (~auth.sent /\ auth'.sent) \/ (~auth.answered /\ auth'.answered)
  BY <1>1, SecretSent DEF SecretsCounted, TypeOK
<1>3. seen.secrets \in Nat /\ auth.method \in {"password", "publickey"}
  BY <1>1 DEF TypeOK
<1>4. TypeOK'
  BY <1>1, <1>2 DEF TypeOK
<1>5. KeysAccepted'
  BY <1>2 DEF KeysAccepted
<1>6. seen'.secrets <= (IF auth'.sent THEN 1 ELSE 0) + (IF auth'.answered THEN 1 ELSE 0)
  BY <1>1, <1>2, <1>3 DEF SecretsCounted
<1>7. SecretsCounted'
  BY <1>1, <1>2, <1>3, <1>6 DEF SecretsCounted
<1>8. ClosedHoldsNoSecret' /\ NoLostWakeup'
  BY <1>1, <1>2 DEF ClosedHoldsNoSecret, NoLostWakeup
<1> QED BY <1>4, <1>5, <1>7, <1>8 DEF SessionInv

LEMMA ServiceAcceptKeeps == ASSUME SessionInv, ServiceAccept PROVE SessionInv'
<1>1. /\ TypeOK /\ rd = "idle" /\ phase = "auth" /\ ~auth.sent /\ kex.keys /\ seen.host
      /\ UNCHANGED <<kex, asking, wanted, timers, input, broken, phase>>
  BY DEF SessionInv, ServiceAccept, Reading, KeysAccepted
<1>2. CASE auth' = [auth EXCEPT !.sent = TRUE] /\ SendSecret /\ rd' = rd
  <2>1. /\ auth' \in [cred : {"none", "password", "publickey"},
                    method : {"password", "publickey"}, sent : BOOLEAN, ki : BOOLEAN,
                    rounds : 0..RoundLimit, answered : BOOLEAN]
        /\ auth'.cred = auth.cred /\ auth'.method = auth.method /\ auth'.sent
        /\ auth'.answered = auth.answered
    BY <1>1, <1>2 DEF TypeOK
  <2> QED BY <1>1, <1>2, <2>1, AuthKeeps
<1>3. CASE rd' = "sign" /\ UNCHANGED <<auth, seen>>
  <2>1. auth' \in [cred : {"none", "password", "publickey"},
                    method : {"password", "publickey"}, sent : BOOLEAN, ki : BOOLEAN,
                    rounds : 0..RoundLimit, answered : BOOLEAN]
    BY <1>1, <1>3 DEF TypeOK
  <2> QED BY <1>1, <1>3, <2>1, AuthKeeps
<1> QED BY <1>2, <1>3 DEF ServiceAccept

LEMMA RequestSignedKeeps == ASSUME SessionInv, RequestSigned PROVE SessionInv'
<1>1. TypeOK /\ rd = "sign" /\ ~auth.sent /\ kex.keys /\ seen.host
  BY DEF SessionInv, RequestSigned, KeysAccepted, SecretsCounted
<1>2. CASE /\ auth' = [auth EXCEPT !.sent = TRUE, !.cred = "none"] /\ SendSecret /\ rd' = "idle"
           /\ UNCHANGED <<phase, kex, asking, wanted, timers, input, broken>>
  <2>1. /\ auth' \in [cred : {"none", "password", "publickey"},
                    method : {"password", "publickey"}, sent : BOOLEAN, ki : BOOLEAN,
                    rounds : 0..RoundLimit, answered : BOOLEAN]
        /\ auth'.cred = "none" /\ auth'.method = auth.method /\ auth'.sent
        /\ auth'.answered = auth.answered
    BY <1>1, <1>2 DEF TypeOK
  <2> QED BY <1>1, <1>2, <2>1, AuthKeeps
<1>3. CASE ReaderFails
  BY <1>3, ClosedKeeps DEF ReaderFails
<1> QED BY <1>2, <1>3 DEF RequestSigned

LEMMA InfoRequestKeeps ==
    ASSUME SessionInv, NEW prompts \in BOOLEAN, InfoRequest(prompts) PROVE SessionInv'
<1>1. /\ TypeOK /\ rd = "idle" /\ phase = "auth" /\ kex.keys /\ seen.host
      /\ auth.method = "password" /\ UNCHANGED <<rd, kex, asking, wanted, timers, input, broken, phase>>
  BY DEF SessionInv, InfoRequest, Reading, KeysAccepted
<1>2. auth.rounds + 1 \in 0..RoundLimit
  BY <1>1, SshAssumption DEF InfoRequest, TypeOK
<1>3. CASE prompts
  <2>1. /\ auth' = [auth EXCEPT !.rounds = auth.rounds + 1, !.answered = TRUE, !.cred = "none"]
        /\ ~auth.answered /\ SendSecret
    BY <1>3 DEF InfoRequest
  <2>2. /\ auth' \in [cred : {"none", "password", "publickey"},
                    method : {"password", "publickey"}, sent : BOOLEAN, ki : BOOLEAN,
                    rounds : 0..RoundLimit, answered : BOOLEAN]
        /\ auth'.cred = "none" /\ auth'.method = auth.method /\ auth'.sent = auth.sent
        /\ auth'.answered
    BY <1>1, <1>2, <2>1 DEF TypeOK
  <2> QED BY <1>1, <2>1, <2>2, AuthKeeps
<1>4. CASE ~prompts
  <2>1. auth' = [auth EXCEPT !.rounds = auth.rounds + 1] /\ seen' = seen
    BY <1>4 DEF InfoRequest
  <2>2. /\ auth' \in [cred : {"none", "password", "publickey"},
                    method : {"password", "publickey"}, sent : BOOLEAN, ki : BOOLEAN,
                    rounds : 0..RoundLimit, answered : BOOLEAN]
        /\ auth'.cred = auth.cred /\ auth'.method = auth.method /\ auth'.sent = auth.sent
        /\ auth'.answered = auth.answered
    BY <1>1, <1>2, <2>1 DEF TypeOK
  <2> QED BY <1>1, <2>1, <2>2, AuthKeeps
<1> QED BY <1>3, <1>4

LEMMA UserauthFailureKeeps == ASSUME SessionInv, UserauthFailure PROVE SessionInv'
<1>1. /\ TypeOK /\ rd = "idle" /\ phase = "auth" /\ kex.keys /\ seen.host
      /\ auth' = [auth EXCEPT !.ki = TRUE]
      /\ UNCHANGED <<phase, rd, kex, asking, wanted, timers, input, broken, seen>>
  BY DEF SessionInv, UserauthFailure, Reading, KeysAccepted
<1>2. /\ auth' \in [cred : {"none", "password", "publickey"},
                    method : {"password", "publickey"}, sent : BOOLEAN, ki : BOOLEAN,
                    rounds : 0..RoundLimit, answered : BOOLEAN]
      /\ auth'.cred = auth.cred /\ auth'.method = auth.method /\ auth'.sent = auth.sent
      /\ auth'.answered = auth.answered
  BY <1>1 DEF TypeOK
<1> QED BY <1>1, <1>2, AuthKeeps

LEMMA UserauthSuccessKeeps == ASSUME SessionInv, UserauthSuccess PROVE SessionInv'
<1>1. /\ TypeOK /\ KeysAccepted /\ SecretsCounted /\ rd = "idle" /\ kex.keys
      /\ auth' = [auth EXCEPT !.cred = "none"] /\ phase' = "pty"
      /\ timers' = [timers EXCEPT !.keepalive = TRUE]
      /\ UNCHANGED <<rd, kex, asking, wanted, input, broken, seen>>
  BY DEF SessionInv, UserauthSuccess, Reading, KeysAccepted
<1>2. /\ auth' \in [cred : {"none", "password", "publickey"},
                    method : {"password", "publickey"}, sent : BOOLEAN, ki : BOOLEAN,
                    rounds : 0..RoundLimit, answered : BOOLEAN]
      /\ auth'.cred = "none" /\ auth'.method = auth.method /\ auth'.sent = auth.sent
      /\ auth'.answered = auth.answered
  BY <1>1 DEF TypeOK
<1>3. timers' \in [shell : BOOLEAN, keepalive : BOOLEAN, unanswered : 0..KeepaliveLimit]
  BY <1>1 DEF TypeOK
<1>4. TypeOK'
  BY <1>1, <1>2, <1>3 DEF TypeOK, Phases
<1>5. KeysAccepted' /\ SecretsCounted'
  BY <1>1, <1>2 DEF KeysAccepted, SecretsCounted
<1>6. ClosedHoldsNoSecret' /\ NoLostWakeup'
  BY <1>1, <1>2 DEF ClosedHoldsNoSecret, NoLostWakeup
<1> QED BY <1>4, <1>5, <1>6 DEF SessionInv
-----------------------------------------------------------------------------
\* flushInput leaves the queue asleep only when the window is used up.
LEMMA FlushFine ==
    ASSUME NEW i, i \in [queued : 0..MaxInput, window : 0..MaxWindow, flushing : BOOLEAN]
    PROVE  /\ Flush(i) \in [queued : 0..MaxInput, window : 0..MaxWindow, flushing : BOOLEAN]
           /\ Flush(i).queued > 0 /\ ~Flush(i).flushing => Flush(i).window = 0
<1>1. CASE i.queued > 0 /\ i.window > 0
  <2>1. Flush(i) = [i EXCEPT !.window = i.window - 1, !.flushing = TRUE]
    BY <1>1 DEF Flush
  <2>2. i.window - 1 \in 0..MaxWindow
    BY <1>1, SshAssumption
  <2> QED BY <2>1, <2>2
<1>2. CASE ~(i.queued > 0 /\ i.window > 0)
  <2>1. Flush(i) = [i EXCEPT !.flushing = FALSE]
    BY <1>2 DEF Flush
  <2>2. i.queued \in 0..MaxInput /\ i.window \in 0..MaxWindow
    OBVIOUS
  <2>3. /\ Flush(i) \in [queued : 0..MaxInput, window : 0..MaxWindow, flushing : BOOLEAN]
        /\ Flush(i).queued = i.queued /\ Flush(i).window = i.window
    BY <2>1
  <2> QED BY <1>2, <2>2, <2>3, SshAssumption
<1> QED BY <1>1, <1>2

\* A step of the shell after which the queue is not asleep over input it could send.
LEMMA ShellKeeps ==
    ASSUME SessionInv, UNCHANGED <<rd, kex, auth, asking, broken, seen>>,
           phase' \in Phases, wanted' \in {"none", "pty", "shell"},
           phase' = phase \/ (phase \in {"pty", "shell"} /\ phase' \in {"shell", "ready"}),
           timers' \in [shell : BOOLEAN, keepalive : BOOLEAN, unanswered : 0..KeepaliveLimit],
           input' \in [queued : 0..MaxInput, window : 0..MaxWindow, flushing : BOOLEAN],
           NoLostWakeup'
    PROVE  SessionInv'
<1>1. TypeOK /\ KeysAccepted /\ SecretsCounted /\ ClosedHoldsNoSecret
  BY DEF SessionInv
<1>2. TypeOK'
  BY <1>1 DEF TypeOK
<1>3. KeysAccepted' /\ SecretsCounted' /\ ClosedHoldsNoSecret'
  BY <1>1 DEF KeysAccepted, SecretsCounted, ClosedHoldsNoSecret
<1> QED BY <1>2, <1>3 DEF SessionInv

LEMMA InputKeeps ==
    ASSUME SessionInv, QueueInput \/ InputSent \/ WindowAdjust PROVE SessionInv'
<1>1. TypeOK /\ NoLostWakeup
  BY DEF SessionInv
<1>2. UNCHANGED <<phase, rd, kex, auth, asking, wanted, timers, broken, seen>>
  BY DEF QueueInput, InputSent, WindowAdjust, hsVars
<1>s. /\ phase' \in Phases /\ wanted' \in {"none", "pty", "shell"}
      /\ timers' \in [shell : BOOLEAN, keepalive : BOOLEAN, unanswered : 0..KeepaliveLimit]
  BY <1>1, <1>2 DEF TypeOK
<1>3. CASE QueueInput \/ WindowAdjust
  <2>1. PICK i \in [queued : 0..MaxInput, window : 0..MaxWindow, flushing : BOOLEAN] :
          input' = FlushInput(i, phase = "ready")
    <3>1. CASE QueueInput
      <4> DEFINE i == [input EXCEPT !.queued = input.queued + 1]
      <4>1. input.queued + 1 \in 0..MaxInput
        BY <1>1, <3>1, SshAssumption DEF TypeOK, QueueInput
      <4>2. i \in [queued : 0..MaxInput, window : 0..MaxWindow, flushing : BOOLEAN]
        BY <1>1, <4>1 DEF TypeOK
      <4>3. input' = FlushInput(i, phase = "ready")
        BY <3>1 DEF QueueInput
      <4> QED BY <4>2, <4>3
    <3>2. CASE WindowAdjust
      <4> DEFINE i == [input EXCEPT !.window = input.window + 1]
      <4>1. input.window + 1 \in 0..MaxWindow
        BY <1>1, <3>2, SshAssumption DEF TypeOK, WindowAdjust
      <4>2. i \in [queued : 0..MaxInput, window : 0..MaxWindow, flushing : BOOLEAN]
        BY <1>1, <4>1 DEF TypeOK
      <4>3. input' = FlushInput(i, phase = "ready")
        BY <3>2 DEF WindowAdjust
      <4> QED BY <4>2, <4>3
    <3> QED BY <1>3, <3>1, <3>2
  <2>2. \/ input' = i /\ (i.flushing \/ phase # "ready")
        \/ input' = Flush(i)
    BY <2>1 DEF FlushInput
  <2>3. /\ input' \in [queued : 0..MaxInput, window : 0..MaxWindow, flushing : BOOLEAN]
        /\ NoLostWakeup'
    BY <1>2, <2>2, FlushFine DEF NoLostWakeup
  <2> QED BY <1>2, <1>s, <2>3, ShellKeeps
<1>4. CASE InputSent
  <2> DEFINE q == IF input.queued = 0 THEN 0 ELSE input.queued - 1
             sent == [input EXCEPT !.queued = q]
  <2>1. q \in 0..MaxInput
    BY <1>1, SshAssumption DEF TypeOK
  <2>2. \/ input' = [sent EXCEPT !.flushing = FALSE] /\ (broken \/ phase # "ready")
        \/ input' = Flush(sent)
    BY <1>4 DEF InputSent
  <2> HIDE DEF q
  <2>3. sent \in [queued : 0..MaxInput, window : 0..MaxWindow, flushing : BOOLEAN]
    BY <1>1, <2>1 DEF TypeOK
  <2> HIDE DEF sent
  <2>4. /\ input' \in [queued : 0..MaxInput, window : 0..MaxWindow, flushing : BOOLEAN]
        /\ NoLostWakeup'
    BY <1>2, <2>2, <2>3, FlushFine DEF NoLostWakeup
  <2> QED BY <1>2, <1>s, <2>4, ShellKeeps
<1> QED BY <1>3, <1>4

\* MarkReady flushes what was typed before the shell was ready.
LEMMA ReadyKeeps ==
    ASSUME SessionInv, phase = "shell", MarkReady, UNCHANGED <<rd, kex, auth, asking, broken, seen>>
    PROVE  SessionInv'
<1>1. TypeOK
  BY DEF SessionInv
<1>2. /\ phase' = "ready" /\ wanted' = "none" /\ phase' \in Phases
      /\ timers' = [timers EXCEPT !.shell = FALSE]
      /\ \/ input' = input /\ input.flushing
         \/ input' = Flush(input)
  BY DEF MarkReady, FlushInput, Phases
<1>3. timers' \in [shell : BOOLEAN, keepalive : BOOLEAN, unanswered : 0..KeepaliveLimit]
  BY <1>1, <1>2 DEF TypeOK
<1>4. input \in [queued : 0..MaxInput, window : 0..MaxWindow, flushing : BOOLEAN]
  BY <1>1 DEF TypeOK
<1>5. /\ input' \in [queued : 0..MaxInput, window : 0..MaxWindow, flushing : BOOLEAN]
      /\ NoLostWakeup'
  BY <1>2, <1>4, FlushFine DEF NoLostWakeup
<1> QED BY <1>2, <1>3, <1>5, ShellKeeps

LEMMA ShellStepKeeps ==
    ASSUME SessionInv,
           ShellConfirmed \/ PtyGranted \/ ShellAnswers \/ ShellTimeout \/ KeepaliveAnswered
    PROVE  SessionInv'
<1>1. TypeOK /\ NoLostWakeup
  BY DEF SessionInv
<1>2. CASE ShellAnswers \/ ShellTimeout
  <2>1. phase = "shell" /\ MarkReady /\ UNCHANGED <<rd, kex, auth, asking, broken, seen>>
    BY <1>2 DEF ShellAnswers, ShellTimeout, Reading
  <2> QED BY <2>1, ReadyKeeps
<1>3. CASE ShellConfirmed \/ PtyGranted \/ KeepaliveAnswered
  <2>1. /\ UNCHANGED <<rd, kex, auth, asking, broken, seen, input>>
        /\ phase' \in Phases /\ wanted' \in {"none", "pty", "shell"}
        /\ phase' = phase \/ (phase = "pty" /\ phase' = "shell")
    BY <1>1, <1>3
    DEF ShellConfirmed, PtyGranted, KeepaliveAnswered, TypeOK, Phases, Reading, hsVars
  <2>2. 0 \in 0..KeepaliveLimit
    BY SshAssumption
  <2>3. timers' \in [shell : BOOLEAN, keepalive : BOOLEAN, unanswered : 0..KeepaliveLimit]
    BY <1>1, <1>3, <2>2, ZenonT(40) DEF ShellConfirmed, PtyGranted, KeepaliveAnswered, TypeOK
  <2>4. /\ input' \in [queued : 0..MaxInput, window : 0..MaxWindow, flushing : BOOLEAN]
        /\ NoLostWakeup'
    BY <1>1, <2>1 DEF TypeOK, NoLostWakeup
  <2> QED BY <2>1, <2>3, <2>4, ShellKeeps
<1> QED BY <1>2, <1>3

LEMMA KeepaliveTickKeeps == ASSUME SessionInv, KeepaliveTick PROVE SessionInv'
<1>1. TypeOK /\ NoLostWakeup
  BY DEF SessionInv
<1>2. CASE timers.unanswered >= KeepaliveLimit \/ broken
  <2>1. CloseState /\ rd' \in {"ended", rd}
    BY <1>2 DEF KeepaliveTick
  <2> QED BY <2>1, ClosedKeeps
<1>3. CASE ~(timers.unanswered >= KeepaliveLimit \/ broken)
  <2>1. /\ timers' = [timers EXCEPT !.unanswered = timers.unanswered + 1]
        /\ UNCHANGED <<phase, rd, kex, auth, asking, wanted, input, broken, seen>>
    BY <1>3 DEF KeepaliveTick, hsVars
  <2>2. timers.unanswered + 1 \in 0..KeepaliveLimit
    BY <1>1, <1>3, SshAssumption DEF TypeOK
  <2>3. timers' \in [shell : BOOLEAN, keepalive : BOOLEAN, unanswered : 0..KeepaliveLimit]
    BY <1>1, <2>1, <2>2 DEF TypeOK
  <2>4. /\ input' \in [queued : 0..MaxInput, window : 0..MaxWindow, flushing : BOOLEAN]
        /\ NoLostWakeup' /\ phase' \in Phases /\ wanted' \in {"none", "pty", "shell"}
    BY <1>1, <2>1 DEF TypeOK, NoLostWakeup
  <2> QED BY <2>1, <2>3, <2>4, ShellKeeps
<1> QED BY <1>2, <1>3

LEMMA SessionStep == SessionInv /\ [Next]_vars => SessionInv'
<1> SUFFICES ASSUME SessionInv, [Next]_vars PROVE SessionInv'
  OBVIOUS
<1>1. ASSUME HostKeyAccepted PROVE SessionInv'
  BY <1>1, KexKeeps, ClosedKeeps DEF HostKeyAccepted, ReaderFails
<1>2. ASSUME HostKeyTimeout PROVE SessionInv'
  BY <1>2, KexKeeps DEF HostKeyTimeout
<1>3. ASSUME Handshake PROVE SessionInv'
  BY <1>1, <1>2, <1>3, EndsKeep, KexKeeps, ServiceAcceptKeeps, RequestSignedKeeps,
     InfoRequestKeeps, UserauthFailureKeeps, UserauthSuccessKeeps
  DEF Handshake
<1>4. ASSUME Shell PROVE SessionInv'
  BY <1>4, InputKeeps, ShellStepKeeps, KeepaliveTickKeeps DEF Shell
<1> QED BY <1>3, <1>4, EndsKeep, KexKeeps DEF Next

LEMMA SessionAlways == Spec => []SessionInv
BY SessionInit, SessionStep, PTL DEF Spec
-----------------------------------------------------------------------------
\* Every field of the session always has one of the values the code gives it.
THEOREM SessionTypes == Spec => []TypeOK
<1>1. SessionInv => TypeOK
  BY DEF SessionInv
<1> QED BY <1>1, SessionAlways, PTL

\* Whatever the server sends during the handshake and whenever the session closes, the
\* password or the signature goes out only under keys of an accepted host, the password
\* at most once with each of its two methods.
THEOREM SecretsToAcceptedHost == Spec => []SecretOnlyToAcceptedHost
<1>1. SessionInv => SecretOnlyToAcceptedHost
  <2> SUFFICES ASSUME SessionInv PROVE SecretOnlyToAcceptedHost
    OBVIOUS
  <2>1. seen.secrets \in Nat /\ SecretsCounted /\ auth.method \in {"password", "publickey"}
    BY DEF SessionInv, TypeOK
  <2> QED BY <2>1 DEF SecretsCounted, SecretOnlyToAcceptedHost
<1> QED BY <1>1, SessionAlways, PTL

\* For every queue and window, flushInput is never asleep over input it could send.
THEOREM NoWakeupLost == Spec => []NoLostWakeup
<1>1. SessionInv => NoLostWakeup
  BY DEF SessionInv
<1> QED BY <1>1, SessionAlways, PTL
=============================================================================
