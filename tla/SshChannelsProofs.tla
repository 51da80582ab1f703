------------------------- MODULE SshChannelsProofs -------------------------
(***************************************************************************)
(* For any number of channels: SshChannels is well typed, the server never *)
(* writes to a channel the registry has forgotten, no open channel is left *)
(* without an owner, each kill is answered once, and nothing waits for a   *)
(* message that cannot come.                                               *)
(*                                                                         *)
(* None of these is inductive alone: whether a channel may leave reg       *)
(* depends on what the server has still to write, and who waits for it on  *)
(* which close has been sent.  ChannelInv joins them.                      *)
(***************************************************************************)
EXTENDS SshChannels, TLAPS

\* A channel number is used once.
FreshChannels == \A c \in Channels : c >= next => chan[c].srv = "none" /\ ~kill[c].in

\* The reader answers a CLOSE after which the server writes nothing of the channel.
ReplyIsLast ==
    \A c \in Channels :
        phase = "ready" /\ rd = [at |-> "reply", c |-> c] => chan[c].srv = "closed"

\* Our CLOSE follows our EOF or answers the server's.
CloseAfterEof == \A c \in Channels : chan[c].closeSent => chan[c].eofSent \/ chan[c].closeRecv

\* An open request that did not reach the server met a broken connection.
UnsentIsBroken == \A c \in Channels : chan[c].opening /\ chan[c].srv = "none" => broken

\* Without a handler no channel is the SFTP channel.
HandlerHasChannel == sftp.handler = "none" => sftp.chan = 0

\* A kill in the table is unanswered and sits on a kill channel, and nobody listens to
\* its answer once the monitor's socket is gone.
KillTable ==
    \A c \in Channels :
        /\ ~kill[c].final => kill[c].results = 0
        /\ kill[c].in => /\ chan[c].kind = "kill" /\ ~kill[c].final
                         /\ proc.ws = "none" => kill[c].cancelled

Relations ==
    /\ FreshChannels /\ ReplyIsLast /\ CloseAfterEof /\ UnsentIsBroken
    /\ HandlerHasChannel /\ KillTable /\ KillAnsweredOnce
    /\ NoUnknownRecipient /\ NoOrphanChannel /\ KillNeverStuck /\ OpenNeverStuck

ChannelInv == TypeOK /\ Relations
-----------------------------------------------------------------------------
\* The "no channel" 0 is none of the channels.
LEMMA Bounds == 0 \in 0..MaxChannels /\ Channels \subseteq 0..MaxChannels /\ 0 \notin Channels
BY ChannelsAssumption DEF Channels

\* The empty entries are entries.
LEMMA NoneTyped == NoChannel \in ChannelObject /\ NoKill \in KillEntry /\ NoPending \in Pending
BY Bounds DEF NoChannel, NoKill, NoPending, ChannelObject, KillEntry, Pending, Kinds

\* sendAuxiliaryChannelClose changes flags of one channel object.
LEMMA AuxCloseTyped ==
  ASSUME TypeOK, NEW ch \in [Channels -> ChannelObject], NEW c \in 0..MaxChannels
  PROVE  AuxClose(ch, c) \in [Channels -> ChannelObject]
BY ZenonT(40) DEF AuxClose, ClosesNow, IsOpen, ChannelObject

\* clearPendingProcessChannelOpen and its like leave a pending open or none.
LEMMA ClearTyped ==
  ASSUME NEW p \in Pending, NEW c
  PROVE  ClearPending(p, c) \in Pending
BY NoneTyped DEF ClearPending

\* nextChannel and the registration of what it returns keep the types.
LEMMA NewChannelTyped ==
  ASSUME TypeOK, NEW k \in Kinds, NewChannel(k)
  PROVE  /\ next' \in 1..(MaxChannels + 1) /\ reg' \subseteq Channels
         /\ chan' \in [Channels -> ChannelObject]
         /\ next \in Channels /\ next \in 0..MaxChannels
<1>1. next' \in 1..(MaxChannels + 1) /\ reg' \subseteq Channels
         /\ next \in Channels /\ next \in 0..MaxChannels
  BY ChannelsAssumption DEF NewChannel, TypeOK, Channels
<1>2. [NoChannel EXCEPT !.kind = k, !.opening = TRUE, !.srv = IF broken THEN "none" ELSE "asked"] \in ChannelObject
  BY DEF NoChannel, ChannelObject
<1>3. chan' \in [Channels -> ChannelObject]
  BY <1>1, <1>2 DEF NewChannel, TypeOK, ChannelObject
<1> QED BY <1>1, <1>3

\* The fields of a pending kill, changed one at a time.
LEMMA EntryTyped ==
  ASSUME NEW k \in [Channels -> KillEntry], NEW c \in Channels, NEW b \in BOOLEAN, NEW n \in Nat
  PROVE  /\ [k EXCEPT ![c].in = b] \in [Channels -> KillEntry]
         /\ [k EXCEPT ![c].timer = b] \in [Channels -> KillEntry]
         /\ [k EXCEPT ![c].cancelled = b] \in [Channels -> KillEntry]
         /\ [k EXCEPT ![c].final = b] \in [Channels -> KillEntry]
         /\ [k EXCEPT ![c].ran = b] \in [Channels -> KillEntry]
         /\ [k EXCEPT ![c].refused = b] \in [Channels -> KillEntry]
         /\ [k EXCEPT ![c].results = n] \in [Channels -> KillEntry]
BY DEF KillEntry

\* finalizeProcessKill leaves a kill entry.
LEMMA FinalizeTyped ==
  ASSUME TypeOK, NEW c \in Channels
  PROVE  FinalizeKill(c) \in [Channels -> KillEntry]
<1>1. kill \in [Channels -> KillEntry]
  BY DEF TypeOK, KillEntry
<1> DEFINE k1 == [kill EXCEPT ![c].in = FALSE, ![c].timer = FALSE, ![c].final = TRUE]
<1>2. k1 \in [Channels -> KillEntry]
  BY <1>1, EntryTyped
<1>3. k1[c].results = kill[c].results /\ kill[c].results \in Nat
  BY <1>1 DEF KillEntry
<1>4. FinalizeKill(c) = IF kill[c].in THEN [k1 EXCEPT ![c].results = IF kill[c].final THEN @ ELSE @ + 1] ELSE kill
  BY DEF FinalizeKill
<1> HIDE DEF k1
<1>5. (IF kill[c].final THEN k1[c].results ELSE k1[c].results + 1) \in Nat
  BY <1>3
<1>6. [k1 EXCEPT ![c].results = IF kill[c].final THEN @ ELSE @ + 1] \in [Channels -> KillEntry]
  BY <1>2, <1>5, EntryTyped
<1> QED BY <1>1, <1>4, <1>6

\* The fields of a channel object, changed one at a time.
LEMMA ObjectTyped ==
  ASSUME NEW ch \in [Channels -> ChannelObject], NEW c \in Channels, NEW b \in BOOLEAN,
         NEW s \in {"none", "asked", "open", "eof", "closed"}
  PROVE  /\ [ch EXCEPT ![c].srv = s] \in [Channels -> ChannelObject]
         /\ [ch EXCEPT ![c].opening = b] \in [Channels -> ChannelObject]
         /\ [ch EXCEPT ![c].confirmed = b] \in [Channels -> ChannelObject]
         /\ [ch EXCEPT ![c].owed = b] \in [Channels -> ChannelObject]
         /\ [ch EXCEPT ![c].eofSent = b] \in [Channels -> ChannelObject]
         /\ [ch EXCEPT ![c].closeSent = b] \in [Channels -> ChannelObject]
         /\ [ch EXCEPT ![c].closeRecv = b] \in [Channels -> ChannelObject]
BY DEF ChannelObject

\* A CHANNEL_OPEN_CONFIRMATION leaves channel objects, with or without what follows it.
LEMMA ConfirmedTyped ==
  ASSUME TypeOK, NEW c \in Channels
  PROVE  /\ Confirmed(c) \in [Channels -> ChannelObject]
         /\ [Confirmed(c) EXCEPT ![c].eofSent = TRUE] \in [Channels -> ChannelObject]
         /\ [Confirmed(c) EXCEPT ![c].owed = TRUE] \in [Channels -> ChannelObject]
BY ObjectTyped DEF TypeOK, Confirmed

\* The places the reader can be left in.
LEMMA ReaderTyped ==
  /\ ReaderNext \in Reader
  /\ \A c \in Channels : [at |-> "aux", c |-> c] \in Reader /\ [at |-> "reply", c |-> c] \in Reader
BY Bounds DEF ReaderNext, Ended, Idle, Reader

\* A service that lost its channel is a service.
LEMMA ServicesTyped ==
  ASSUME TypeOK
  PROVE  /\ [sftp EXCEPT !.chan = 0, !.handler = "none"] \in SFTPService
         /\ [proc EXCEPT !.chan = 0] \in ProcessService
BY Bounds DEF TypeOK, SFTPService, ProcessService

\* The cleanup after CHANNEL_CLOSE (handleChannel) changes the registry, the pending
\* opens, the services and one kill, all within their types.
LEMMA ReleaseTyped ==
  ASSUME TypeOK, NEW c \in Channels, Release(c)
  PROVE  /\ reg' \subseteq Channels /\ sftpOpen' \in Pending /\ procOpen' \in Pending
         /\ sftp' \in SFTPService /\ proc' \in ProcessService
         /\ kill' \in [Channels -> KillEntry]
BY ClearTyped, ServicesTyped, FinalizeTyped DEF Release, TypeOK

\* Where services and pending opens may point.
LEMMA Pointers ==
  ASSUME TypeOK
  PROVE  /\ proc.chan \in 0..MaxChannels /\ sftp.chan \in 0..MaxChannels
         /\ procOpen.chan \in 0..MaxChannels /\ sftpOpen.chan \in 0..MaxChannels
         /\ AuxClose(chan, proc.chan) \in [Channels -> ChannelObject]
         /\ AuxClose(chan, sftp.chan) \in [Channels -> ChannelObject]
<1>1. /\ proc.chan \in 0..MaxChannels /\ sftp.chan \in 0..MaxChannels
      /\ procOpen.chan \in 0..MaxChannels /\ sftpOpen.chan \in 0..MaxChannels
  BY DEF TypeOK, ProcessService, SFTPService, Pending
<1> QED BY <1>1, AuxCloseTyped DEF TypeOK

\* closeSFTPChannel keeps the types of what it changes.
LEMMA CloseSFTPTyped ==
  ASSUME TypeOK, NEW ws \in {"none", "open", "closing"}, CloseSFTPChannel(ws)
  PROVE  /\ sftpOpen' \in Pending /\ sftp' \in SFTPService
         /\ chan' \in [Channels -> ChannelObject]
BY Pointers, Bounds DEF CloseSFTPChannel, TypeOK, Pending, SFTPService

\* What the browser asks for keeps the types: attach, detach, open, stop and kill.
LEMMA TypeStepBrowser == TypeOK /\ Browser => TypeOK'
<1> SUFFICES ASSUME TypeOK, Browser PROVE TypeOK'
  OBVIOUS
<1> USE Bounds DEF TypeOK, coreVars
<1>1. CASE AttachProcess
  BY <1>1 DEF AttachProcess, ProcessService
<1>2. CASE OpenProcess
  <2>1. procOpen' \in Pending /\ proc' \in ProcessService
    BY <1>2, NewChannelTyped DEF OpenProcess, Pending, NoPending, ProcessService, Kinds
  <2> QED BY <1>2, <2>1, NewChannelTyped DEF OpenProcess, Kinds
<1>3. CASE StopProcess
  <2>1. procOpen' \in Pending
    BY <1>3 DEF StopProcess, CloseProcess, Pending
  <2>2. chan' \in [Channels -> ChannelObject]
    BY <1>3, Pointers DEF StopProcess, CloseProcess
  <2> QED BY <1>3, <2>1, <2>2, ServicesTyped DEF StopProcess
<1>4. CASE OpenKill
  <2>1. kill' \in [Channels -> KillEntry]
    <3>1. [NoKill EXCEPT !.in = TRUE] \in KillEntry
      BY DEF NoKill, KillEntry
    <3> QED BY <1>4, <3>1 DEF OpenKill
  <2> QED BY <1>4, <2>1, NewChannelTyped DEF OpenKill, Kinds
<1>5. CASE DetachProcess
  <2> DEFINE open == {c \in PendingKills : chan[c].confirmed}
             ch == [c \in Channels |->
                      IF c \in open /\ ClosesNow(c) THEN [chan[c] EXCEPT !.eofSent = TRUE]
                                                    ELSE chan[c]]
  <2>1. kill' \in [Channels -> KillEntry]
    <3>1. ASSUME NEW k \in KillEntry
          PROVE  /\ [k EXCEPT !.cancelled = TRUE, !.timer = FALSE, !.in = TRUE,
                              !.final = @ \/ FALSE] \in KillEntry
                 /\ [k EXCEPT !.cancelled = TRUE, !.timer = FALSE, !.in = FALSE,
                              !.final = @ \/ TRUE] \in KillEntry
      BY DEF KillEntry
    <3>2. ASSUME NEW c \in Channels
          PROVE  [kill[c] EXCEPT !.cancelled = TRUE, !.timer = FALSE, !.in = c \notin open,
                                 !.final = @ \/ c \in open] \in KillEntry
      <4>1. CASE c \in open
        BY <4>1, <3>1
      <4>2. CASE c \notin open
        BY <4>2, <3>1
      <4> QED BY <4>1, <4>2
    <3> QED BY <1>5, <3>2 DEF DetachProcess
  <2>2. chan' \in [Channels -> ChannelObject]
    <3>1. ASSUME NEW o \in ChannelObject PROVE [o EXCEPT !.eofSent = TRUE] \in ChannelObject
      BY DEF ChannelObject
    <3>2. ch \in [Channels -> ChannelObject]
      BY <3>1
    <3>3. chan' = AuxClose(ch, proc.chan)
      BY <1>5 DEF DetachProcess, CloseProcess
    <3> HIDE DEF ch
    <3> QED BY <3>2, <3>3, AuxCloseTyped, Pointers
  <2>3. procOpen' \in Pending
    BY <1>5 DEF DetachProcess, CloseProcess, Pending
  <2>4. proc' \in ProcessService
    BY <1>5 DEF DetachProcess, ProcessService
  <2> QED BY <1>5, <2>1, <2>2, <2>3, <2>4 DEF DetachProcess
<1>6. CASE AttachSFTP
  BY <1>6 DEF AttachSFTP, SFTPService
<1>7. CASE OpenSFTP
  <2>1. sftpOpen' \in Pending /\ sftp' \in SFTPService
    BY <1>7, NewChannelTyped DEF OpenSFTP, Pending, NoPending, SFTPService, Kinds
  <2> QED BY <1>7, <2>1, NewChannelTyped DEF OpenSFTP, Kinds
<1>8. CASE CloseSFTP
  BY <1>8, CloseSFTPTyped DEF CloseSFTP, SFTPService
<1>9. CASE DetachSFTP
  BY <1>9, CloseSFTPTyped DEF DetachSFTP
<1> QED BY <1>1, <1>2, <1>3, <1>4, <1>5, <1>6, <1>7, <1>8, <1>9 DEF Browser

\* Our own sends and timeouts keep the types.
LEMMA TypeStepChannel ==
  ASSUME TypeOK, NEW c \in Channels,
         \/ AuxCloseSent(c) \/ OpenSent(c) \/ OpenFailed(c) \/ KillTimeout(c)
  PROVE  TypeOK'
<1> USE Bounds DEF TypeOK, coreVars
<1>1. CASE AuxCloseSent(c)
  BY <1>1, ObjectTyped, ReaderTyped DEF AuxCloseSent
<1>2. CASE OpenSent(c)
  <2>1. sftpOpen' \in Pending /\ procOpen' \in Pending
    BY <1>2 DEF OpenSent, Pending
  <2> QED BY <1>2, <2>1, ObjectTyped, EntryTyped DEF OpenSent
<1>3. CASE OpenFailed(c)
  <2>1. kill' \in [Channels -> KillEntry]
    BY <1>3, EntryTyped DEF OpenFailed
  <2> QED BY <1>3, <2>1, ObjectTyped, ClearTyped, ServicesTyped DEF OpenFailed
<1>4. CASE KillTimeout(c)
  <2>1. chan' \in [Channels -> ChannelObject]
    BY <1>4, AuxCloseTyped DEF KillTimeout
  <2>2. kill' \in [Channels -> KillEntry]
    <3> DEFINE k1 == [kill EXCEPT ![c].timer = FALSE, ![c].cancelled = TRUE,
                                  ![c].in = FALSE, ![c].final = TRUE]
    <3>1. k1 \in [Channels -> KillEntry]
      BY EntryTyped
    <3>2. k1[c].results \in Nat /\ k1[c].results + 1 \in Nat
      BY <3>1 DEF KillEntry
    <3>3. [k1 EXCEPT ![c].results = @ + 1] \in [Channels -> KillEntry]
      BY <3>1, <3>2, EntryTyped
    <3>4. \/ kill' = [k1 EXCEPT ![c].results = @ + 1]
          \/ kill' = [kill EXCEPT ![c].timer = FALSE]
      BY <1>4 DEF KillTimeout
    <3>5. [kill EXCEPT ![c].timer = FALSE] \in [Channels -> KillEntry]
      BY EntryTyped
    <3> HIDE DEF k1
    <3> QED BY <3>3, <3>4, <3>5
  <2> QED BY <1>4, <2>1, <2>2 DEF KillTimeout
<1> QED BY <1>1, <1>2, <1>3, <1>4

\* The messages of the server keep the types.
LEMMA TypeStepServer ==
  ASSUME TypeOK, NEW c \in Channels,
         \/ KillConfirmed(c) \/ ServiceConfirmed(c) \/ UnwantedConfirmed(c)
         \/ OpenRefused(c) \/ RequestGranted(c) \/ RequestRefused(c)
         \/ SFTPProtocolError(c) \/ ChannelEof(c)
         \/ ChannelClosed(c) \/ CloseAnswered(c)
  PROVE  TypeOK'
<1> USE Bounds DEF TypeOK, coreVars
<1>1. CASE KillConfirmed(c)
  <2>1. chan' \in [Channels -> ChannelObject] /\ rd' \in Reader
    <3>1. \/ ConfirmedThenClosed(c)
          \/ chan' = Confirmed(c) /\ rd' = rd
          \/ chan' = [Confirmed(c) EXCEPT ![c].owed = TRUE] /\ rd' = rd
      BY <1>1 DEF KillConfirmed
    <3>2. /\ Confirmed(c) \in [Channels -> ChannelObject]
          /\ [Confirmed(c) EXCEPT ![c].eofSent = TRUE] \in [Channels -> ChannelObject]
          /\ [Confirmed(c) EXCEPT ![c].owed = TRUE] \in [Channels -> ChannelObject]
      BY ConfirmedTyped
    <3> QED BY <3>1, <3>2, ReaderTyped, Zenon DEF ConfirmedThenClosed
  <2>2. kill' \in [Channels -> KillEntry]
    <3>1. \/ kill' = FinalizeKill(c)
          \/ kill' = [kill EXCEPT ![c].timer = FALSE]
          \/ kill' = [kill EXCEPT ![c].timer = FALSE, ![c].ran = TRUE]
      BY <1>1 DEF KillConfirmed
    <3>2. /\ [kill EXCEPT ![c].timer = FALSE] \in [Channels -> KillEntry]
          /\ [kill EXCEPT ![c].timer = FALSE, ![c].ran = TRUE] \in [Channels -> KillEntry]
      BY EntryTyped
    <3>3. FinalizeKill(c) \in [Channels -> KillEntry]
      BY FinalizeTyped
    <3> QED BY <3>1, <3>2, <3>3, Zenon
  <2> QED BY <1>1, <2>1, <2>2 DEF KillConfirmed
<1>2. CASE ServiceConfirmed(c)
  BY <1>2, ConfirmedTyped DEF ServiceConfirmed
<1>3. CASE UnwantedConfirmed(c)
  BY <1>3, ConfirmedTyped, ReaderTyped, ClearTyped DEF UnwantedConfirmed, ConfirmedThenClosed
<1>4. CASE OpenRefused(c)
  BY <1>4, ObjectTyped, ClearTyped, ServicesTyped, FinalizeTyped DEF OpenRefused
<1>5. CASE RequestGranted(c)
  <2>1. sftp' \in SFTPService
    BY <1>5 DEF RequestGranted, SFTPService
  <2> QED BY <1>5, <2>1, ObjectTyped, ClearTyped DEF RequestGranted
<1>6. CASE RequestRefused(c)
  <2> DEFINE answered == [chan EXCEPT ![c].owed = FALSE]
  <2>1. answered \in [Channels -> ChannelObject]
    BY ObjectTyped
  <2>2. chan' \in [Channels -> ChannelObject] /\ rd' \in Reader
    <3>1. \/ chan' = answered /\ rd' = rd
          \/ chan' = AuxClose(answered, c) /\ rd' \in {rd, [at |-> "aux", c |-> c]}
      BY <1>6 DEF RequestRefused, ReaderCloses
    <3>2. c \in 0..MaxChannels
      OBVIOUS
    <3> HIDE DEF answered
    <3>3. AuxClose(answered, c) \in [Channels -> ChannelObject]
      BY <2>1, <3>2, AuxCloseTyped
    <3> QED BY <2>1, <3>1, <3>3, ReaderTyped
  <2> QED BY <1>6, <2>2, ClearTyped, ServicesTyped, EntryTyped DEF RequestRefused
<1>7. CASE SFTPProtocolError(c)
  <2>1. sftpOpen' \in Pending /\ sftp' \in SFTPService
         /\ chan' \in [Channels -> ChannelObject]
    BY <1>7, CloseSFTPTyped DEF SFTPProtocolError, SFTPService
  <2> QED BY <1>7, <2>1, ReaderTyped DEF SFTPProtocolError
<1>8. CASE ChannelEof(c)
  <2>1. sftp' \in SFTPService
    BY <1>8 DEF ChannelEof, SFTPService
  <2> QED BY <1>8, <2>1, ObjectTyped DEF ChannelEof
<1>9. CASE ChannelClosed(c)
  <2>1. chan' \in [Channels -> ChannelObject]
    BY <1>9, ObjectTyped DEF ChannelClosed
  <2> QED BY <1>9, <2>1, ReleaseTyped, ReaderTyped DEF ChannelClosed
<1>10. CASE CloseAnswered(c)
  BY <1>10, ReleaseTyped, ReaderTyped DEF CloseAnswered
<1> QED BY <1>1, <1>2, <1>3, <1>4, <1>5, <1>6, <1>7, <1>8, <1>9, <1>10

\* Every step keeps the types.
LEMMA TypeStep == TypeOK /\ [Next]_vars => TypeOK'
<1> SUFFICES ASSUME TypeOK, [Next]_vars PROVE TypeOK'
  OBVIOUS
<1> USE Bounds DEF TypeOK, coreVars
<1>1. CASE Close
  <2>1. chan' \in [Channels -> ChannelObject] /\ kill' \in [Channels -> KillEntry]
    BY <1>1, NoneTyped DEF Close
  <2>2. rd' \in Reader /\ sftp' \in SFTPService /\ proc' \in ProcessService
    BY <1>1 DEF Close, Ended, Reader, SFTPService, ProcessService
  <2> QED BY <1>1, <2>1, <2>2, NoneTyped DEF Close
<1>2. CASE ConnectionBreaks
  BY <1>2 DEF ConnectionBreaks
<1>3. CASE Browser
  BY <1>3, TypeStepBrowser
<1>4. CASE ProcessOpenTimeout
  <2>1. proc' \in ProcessService /\ procOpen.chan \in 0..MaxChannels
    BY <1>4 DEF ProcessOpenTimeout, ProcessService, Pending
  <2> QED BY <1>4, <2>1, AuxCloseTyped, NoneTyped DEF ProcessOpenTimeout
<1>5. CASE SFTPOpenTimeout
  <2>1. sftp' \in SFTPService /\ sftpOpen.chan \in 0..MaxChannels
    BY <1>5 DEF SFTPOpenTimeout, SFTPService, Pending
  <2> QED BY <1>5, <2>1, AuxCloseTyped, NoneTyped DEF SFTPOpenTimeout
<1>6. CASE SFTPReady
  BY <1>6 DEF SFTPReady, SFTPService
<1>7. CASE SFTPInitFails
  BY <1>7, CloseSFTPTyped DEF SFTPInitFails, SFTPService
<1>8. CASE UNCHANGED vars
  BY <1>8 DEF vars
<1> QED BY <1>1, <1>2, <1>3, <1>4, <1>5, <1>6, <1>7, <1>8, TypeStepChannel, TypeStepServer DEF Next, Aux
-----------------------------------------------------------------------------
\* What AuxClose leaves alone, and what it does.
LEMMA AuxCloseEffect ==
  ASSUME TypeOK, NEW ch \in [Channels -> ChannelObject], NEW c \in 0..MaxChannels,
         NEW d \in Channels
  PROVE  /\ AuxClose(ch, c)[d].kind = ch[d].kind
         /\ AuxClose(ch, c)[d].srv = ch[d].srv
         /\ AuxClose(ch, c)[d].opening = ch[d].opening
         /\ AuxClose(ch, c)[d].confirmed = ch[d].confirmed
         /\ AuxClose(ch, c)[d].closeSent = ch[d].closeSent
         /\ AuxClose(ch, c)[d].closeRecv = ch[d].closeRecv
         /\ ch[d].eofSent => AuxClose(ch, c)[d].eofSent
         /\ d = c /\ ClosesNow(c) => AuxClose(ch, c)[d].eofSent
BY DEF AuxClose, ClosesNow, IsOpen, ChannelObject

\* finalizeProcessKill answers a kill that is in the table, unless it was answered, and
\* touches no other.
LEMMA FinalizeEffect ==
  ASSUME TypeOK, NEW c \in Channels, NEW d \in Channels
  PROVE  /\ d # c => FinalizeKill(c)[d] = kill[d]
         /\ ~FinalizeKill(c)[c].in
         /\ kill[c].in /\ ~kill[c].final => FinalizeKill(c)[c].results = kill[c].results + 1
         /\ kill[c].in => FinalizeKill(c)[c].final
         /\ ~kill[c].in => FinalizeKill(c)[c] = kill[c]
BY DEF FinalizeKill, KillEntry, TypeOK

\* A new channel is opening, takes the next number and leaves the others alone.
LEMMA NewChannelEffect ==
  ASSUME TypeOK, NEW k \in Kinds, NewChannel(k)
  PROVE  /\ next \in Channels /\ next' = next + 1 /\ reg' = reg \cup {next}
         /\ \A d \in Channels : d # next => chan'[d] = chan[d]
         /\ chan'[next].kind = k /\ chan'[next].opening /\ ~chan'[next].confirmed
         /\ chan'[next].srv = IF broken THEN "none" ELSE "asked"
         /\ ~chan'[next].closeSent
BY DEF TypeOK, NewChannel, ChannelObject, NoChannel

\* A step that does nothing to a channel but begin its close, and moves the reader at
\* most from one await to another that is no reply.
SameObject(d) ==
    /\ chan'[d].kind = chan[d].kind /\ chan'[d].srv = chan[d].srv
    /\ chan'[d].opening = chan[d].opening /\ chan'[d].confirmed = chan[d].confirmed
    /\ chan'[d].closeSent = chan[d].closeSent /\ chan'[d].closeRecv = chan[d].closeRecv
    /\ chan[d].eofSent => chan'[d].eofSent

QuietReader == rd' = rd \/ (rd.at # "reply" /\ rd'.at # "reply")

\* The services a step lets go of are closed, if they are open.
LetsGo == \A d \in {sftp.chan, proc.chan} \ {0, sftp'.chan, proc'.chan} :
              IsOpen(d) => chan'[d].eofSent

\* A pending open that remains is the one that was there.
SamePending(p, q) == q.chan # 0 => q.chan = p.chan /\ q.timer = p.timer

\* A step that only lets services go, closing what they held, keeps every relation.
LEMMA QuietStep ==
  ASSUME ChannelInv, UNCHANGED <<phase, broken, next, reg, kill>>,
         \A d \in Channels : SameObject(d), QuietReader, LetsGo,
         SamePending(sftpOpen, sftpOpen'), SamePending(procOpen, procOpen'),
         proc'.ws = "none" => proc.ws = "none",
         sftp'.handler = "none" => sftp'.chan = 0,
         TypeOK'
  PROVE  Relations'
<1> USE DEF ChannelInv, Relations, SameObject, QuietReader
<1>1. FreshChannels' /\ ReplyIsLast' /\ CloseAfterEof' /\ UnsentIsBroken' /\ HandlerHasChannel'
  BY DEF FreshChannels, ReplyIsLast, CloseAfterEof, UnsentIsBroken, HandlerHasChannel
<1>2. KillTable' /\ KillAnsweredOnce' /\ NoUnknownRecipient'
  BY DEF KillTable, KillAnsweredOnce, NoUnknownRecipient
<1>3. NoOrphanChannel'
  BY Bounds DEF NoOrphanChannel, LetsGo, IsOpen, TypeOK
<1>4. KillNeverStuck'
  BY DEF KillNeverStuck
<1>5. OpenNeverStuck'
  <2>1. ASSUME NEW p, NEW q, p.chan \in 0..MaxChannels, SamePending(p, q),
               p.chan # 0 => p.timer \/ chan[p.chan].opening
        PROVE  q.chan # 0 => q.timer \/ chan'[q.chan].opening
    BY <2>1 DEF SamePending, Channels
  <2> QED BY <2>1, Pointers DEF OpenNeverStuck
<1> QED BY <1>1, <1>2, <1>3, <1>4, <1>5

\* sendAuxiliaryChannelClose is such a step, and leaves an open channel with its EOF
\* sent.
LEMMA AuxCloseSame ==
  ASSUME TypeOK, NEW c \in 0..MaxChannels, chan' = AuxClose(chan, c)
  PROVE  /\ \A d \in Channels : SameObject(d)
         /\ CloseAfterEof /\ IsOpen(c) => chan'[c].eofSent
<1>1. \A d \in Channels : SameObject(d)
  BY AuxCloseEffect DEF SameObject, TypeOK
<1>2. ASSUME CloseAfterEof, IsOpen(c) PROVE chan'[c].eofSent
  <2>1. c \in Channels
    BY <1>2 DEF IsOpen, Channels
  <2>2. ~ClosesNow(c) => chan[c].eofSent
    BY <1>2, <2>1 DEF ClosesNow, CloseAfterEof, IsOpen
  <2>3. chan \in [Channels -> ChannelObject]
    BY DEF TypeOK
  <2> QED BY <2>1, <2>2, <2>3, AuxCloseEffect
<1> QED BY <1>1, <1>2

\* closeSFTPChannel (the browser's close, a protocol error, a detached socket) is one,
\* too.
LEMMA CloseSFTPStep ==
  ASSUME ChannelInv, TypeOK', NEW ws \in {"none", "open", "closing"}, CloseSFTPChannel(ws),
         UNCHANGED <<phase, broken, next, reg, kill, proc, procOpen>>, QuietReader
  PROVE  Relations'
<1>1. \A d \in Channels : SameObject(d)
  BY AuxCloseSame, Pointers DEF ChannelInv, CloseSFTPChannel
<1>2. LetsGo
  BY AuxCloseSame, Pointers DEF LetsGo, CloseSFTPChannel, ChannelInv, Relations
<1>3. SamePending(sftpOpen, sftpOpen') /\ SamePending(procOpen, procOpen')
  BY DEF CloseSFTPChannel, SamePending, ChannelInv, TypeOK, Pending
<1>4. sftp'.chan = 0
  BY DEF CloseSFTPChannel
<1> QED BY <1>1, <1>2, <1>3, <1>4, QuietStep

\* The steps of the two services that open no channel keep the relations.
LEMMA ServiceStep ==
  ASSUME ChannelInv, TypeOK',
         \/ AttachProcess \/ StopProcess \/ AttachSFTP \/ CloseSFTP \/ DetachSFTP
         \/ ProcessOpenTimeout \/ SFTPOpenTimeout \/ SFTPReady \/ SFTPInitFails
         \/ \E c \in Channels : SFTPProtocolError(c)
  PROVE  Relations'
<1> USE DEF coreVars
<1>1. CASE AttachProcess \/ AttachSFTP \/ SFTPReady
  <2>1. /\ UNCHANGED <<phase, broken, next, reg, kill, chan, rd, sftpOpen, procOpen>>
        /\ sftp'.chan = sftp.chan /\ proc'.chan = proc.chan
        /\ proc'.ws = "none" => proc.ws = "none"
        /\ sftp'.handler = "none" => sftp.handler = "none"
    BY <1>1 DEF AttachProcess, AttachSFTP, SFTPReady, ChannelInv, TypeOK, SFTPService, ProcessService
  <2>2. \A d \in Channels : SameObject(d)
    BY <2>1 DEF SameObject
  <2> QED BY <2>1, <2>2, QuietStep
          DEF QuietReader, LetsGo, SamePending, ChannelInv, Relations, HandlerHasChannel
<1>2. CASE StopProcess
  <2>1. /\ UNCHANGED <<phase, broken, next, reg, kill, rd, sftp, sftpOpen>>
        /\ chan' = AuxClose(chan, proc.chan) /\ proc'.ws = proc.ws
        /\ SamePending(procOpen, procOpen')
    BY <1>2 DEF StopProcess, CloseProcess, ChannelInv, TypeOK, ProcessService, Pending, SamePending
  <2>2. \A d \in Channels : SameObject(d)
    BY <2>1, AuxCloseSame, Pointers DEF ChannelInv
  <2>3. LetsGo
    BY <2>1, AuxCloseSame, Pointers DEF LetsGo, ChannelInv, Relations
  <2> QED BY <2>1, <2>2, <2>3, QuietStep
          DEF QuietReader, SamePending, ChannelInv, Relations, HandlerHasChannel
<1>3. CASE CloseSFTP \/ DetachSFTP \/ SFTPInitFails
  <2>1. /\ UNCHANGED <<phase, broken, next, reg, kill, proc, procOpen, rd>>
        /\ \E ws \in {"none", "open", "closing"} : CloseSFTPChannel(ws)
    BY <1>3 DEF CloseSFTP, DetachSFTP, SFTPInitFails, ChannelInv, TypeOK, SFTPService
  <2> QED BY <2>1, CloseSFTPStep DEF QuietReader
<1>4. CASE ProcessOpenTimeout
  <2>1. /\ UNCHANGED <<phase, broken, next, reg, kill, rd, sftp, sftpOpen>>
        /\ chan' = AuxClose(chan, procOpen.chan) /\ (proc'.ws = "none" => proc.ws = "none")
        /\ procOpen'.chan = 0
        /\ proc'.chan = IF proc.chan = procOpen.chan THEN 0 ELSE proc.chan
    BY <1>4 DEF ProcessOpenTimeout, NoPending
  <2>2. \A d \in Channels : SameObject(d)
    BY <2>1, AuxCloseSame, Pointers DEF ChannelInv
  <2>3. LetsGo
    BY <2>1, AuxCloseSame, Pointers DEF LetsGo, ChannelInv, Relations
  <2> QED BY <2>1, <2>2, <2>3, QuietStep
          DEF QuietReader, SamePending, ChannelInv, Relations, HandlerHasChannel
<1>5. CASE SFTPOpenTimeout
  <2>1. /\ UNCHANGED <<phase, broken, next, reg, kill, rd, proc, procOpen>>
        /\ chan' = AuxClose(chan, sftpOpen.chan) /\ sftpOpen'.chan = 0
        /\ sftp'.chan = IF sftp.chan = sftpOpen.chan THEN 0 ELSE sftp.chan
        /\ sftp'.handler = IF sftp.chan = sftpOpen.chan THEN "none" ELSE sftp.handler
    BY <1>5 DEF SFTPOpenTimeout, NoPending
  <2>2. \A d \in Channels : SameObject(d)
    BY <2>1, AuxCloseSame, Pointers DEF ChannelInv
  <2>3. LetsGo
    BY <2>1, AuxCloseSame, Pointers DEF LetsGo, ChannelInv, Relations
  <2> QED BY <2>1, <2>2, <2>3, QuietStep
          DEF QuietReader, SamePending, ChannelInv, Relations, HandlerHasChannel
<1>6. ASSUME NEW c \in Channels, SFTPProtocolError(c) PROVE Relations'
  <2>1. /\ UNCHANGED <<phase, broken, next, reg, kill, proc, procOpen>>
        /\ \E ws \in {"none", "open", "closing"} : CloseSFTPChannel(ws)
        /\ rd.at = "idle" /\ (rd' = rd \/ rd'.at = "aux")
    BY <1>6 DEF SFTPProtocolError, Hears, ChannelInv, TypeOK, SFTPService
  <2> QED BY <2>1, CloseSFTPStep DEF QuietReader
<1> QED BY <1>1, <1>2, <1>3, <1>4, <1>5, <1>6

\* Opening a channel for the process list, for SFTP or for a kill takes a number the
\* server has never heard of.
LEMMA OpenStep ==
  ASSUME ChannelInv, TypeOK', OpenProcess \/ OpenSFTP \/ OpenKill
  PROVE  Relations'
<1> USE DEF ChannelInv, Relations, coreVars
<1>1. PICK k \in {"process", "sftp", "kill"} :
        /\ NewChannel(k)
        /\ phase = "ready" /\ UNCHANGED <<phase, broken, rd>>
        /\ k # "kill" => kill' = kill
        /\ k = "kill" => /\ kill' = [kill EXCEPT ![next] = [NoKill EXCEPT !.in = TRUE]]
                         /\ proc.ws = "open"
        /\ \/ UNCHANGED <<proc, procOpen>>
           \/ /\ proc.chan = 0 /\ proc'.chan = next /\ proc'.ws = proc.ws /\ proc.ws = "open"
              /\ procOpen'.chan = next
        /\ \/ UNCHANGED <<sftp, sftpOpen>>
           \/ /\ sftp.handler = "none" /\ sftp'.chan = next /\ sftp'.handler = "new"
              /\ sftpOpen'.chan = next
  BY NewChannelTyped, ZenonT(40) DEF OpenProcess, OpenSFTP, OpenKill, TypeOK, SFTPService,
     ProcessService, Pending, NoPending, Kinds
<1>2. /\ next \in Channels /\ next' = next + 1 /\ reg' = reg \cup {next}
      /\ \A d \in Channels : d # next => chan'[d] = chan[d]
      /\ chan'[next].kind = k /\ chan'[next].opening /\ ~chan'[next].confirmed
      /\ chan'[next].srv = (IF broken THEN "none" ELSE "asked")
      /\ ~chan'[next].closeSent
  BY <1>1, NewChannelEffect DEF Kinds
<1>3. /\ \A d \in Channels : d # next => kill'[d] = kill[d]
      /\ k # "kill" => kill'[next] = kill[next]
      /\ k = "kill" => /\ ~kill'[next].final /\ kill'[next].results = 0
                       /\ kill'[next].in /\ ~kill'[next].cancelled
  BY <1>1, <1>2 DEF TypeOK, KillEntry, NoKill
<1>4. chan[next].srv = "none" /\ ~kill[next].in
  BY <1>2 DEF FreshChannels, TypeOK, Channels
<1>5. FreshChannels'
  BY <1>2, <1>3 DEF FreshChannels, TypeOK, Channels
<1>6. ReplyIsLast' /\ CloseAfterEof' /\ UnsentIsBroken'
  BY <1>1, <1>2, <1>4 DEF ReplyIsLast, CloseAfterEof, UnsentIsBroken
<1>7. HandlerHasChannel'
  BY <1>1 DEF HandlerHasChannel
<1>8. KillTable' /\ KillAnsweredOnce'
  BY <1>1, <1>2, <1>3, <1>4 DEF KillTable, KillAnsweredOnce
<1>9. NoUnknownRecipient'
  BY <1>1, <1>2 DEF NoUnknownRecipient
<1>10. NoOrphanChannel'
  BY <1>1, <1>2, <1>3, Bounds DEF NoOrphanChannel, IsOpen, HandlerHasChannel, TypeOK
<1>11. KillNeverStuck'
  BY <1>1, <1>2, <1>3 DEF KillNeverStuck
<1>12. OpenNeverStuck'
  <2>1. ASSUME NEW p, p.chan \in 0..MaxChannels, p.chan # 0 => p.timer \/ chan[p.chan].opening
        PROVE  p.chan # 0 => p.timer \/ chan'[p.chan].opening
    BY <1>2, <2>1 DEF Channels
  <2>2. ASSUME NEW q, q.chan = next
        PROVE  q.timer \/ chan'[q.chan].opening
    BY <1>2, <2>2
  <2>3. \/ sftpOpen' = sftpOpen
        \/ sftpOpen'.chan = next
    BY <1>1
  <2>4. \/ procOpen' = procOpen
        \/ procOpen'.chan = next
    BY <1>1
  <2> QED BY <2>1, <2>2, <2>3, <2>4, Pointers DEF OpenNeverStuck
<1> QED BY <1>5, <1>6, <1>7, <1>8, <1>9, <1>10, <1>11, <1>12

\* A detached process monitor closes its channel and every confirmed kill, and cancels
\* the kills that are left (detachProcessWebSocket).
LEMMA DetachStep ==
  ASSUME ChannelInv, TypeOK', DetachProcess
  PROVE  Relations'
<1> USE DEF ChannelInv, Relations, coreVars
<1> DEFINE open == {c \in PendingKills : chan[c].confirmed}
           ch == [c \in Channels |->
                    IF c \in open /\ ClosesNow(c) THEN [chan[c] EXCEPT !.eofSent = TRUE]
                                                  ELSE chan[c]]
<1>1. /\ chan' = AuxClose(ch, proc.chan)
      /\ UNCHANGED <<phase, broken, rd, next, reg, sftp, sftpOpen>>
      /\ proc'.chan = 0 /\ proc'.ws = "none"
  BY DEF DetachProcess, CloseProcess
<1>2. SamePending(procOpen, procOpen')
  BY DEF DetachProcess, CloseProcess, SamePending, TypeOK, Pending
<1>3. /\ ch \in [Channels -> ChannelObject]
      /\ \A d \in Channels :
           /\ ch[d].kind = chan[d].kind /\ ch[d].srv = chan[d].srv
           /\ ch[d].opening = chan[d].opening /\ ch[d].confirmed = chan[d].confirmed
           /\ ch[d].closeSent = chan[d].closeSent /\ ch[d].closeRecv = chan[d].closeRecv
           /\ chan[d].eofSent => ch[d].eofSent
           /\ d \in open /\ ClosesNow(d) => ch[d].eofSent
  <2>1. ASSUME NEW o \in ChannelObject PROVE [o EXCEPT !.eofSent = TRUE] \in ChannelObject
    BY DEF ChannelObject
  <2>2. ch \in [Channels -> ChannelObject]
    BY <2>1 DEF TypeOK
  <2> QED BY <2>2 DEF ChannelObject, TypeOK
<1>4. /\ \A d \in Channels : SameObject(d)
      /\ \A d \in open : ClosesNow(d) => chan'[d].eofSent
      /\ proc.chan \in Channels /\ ClosesNow(proc.chan) => chan'[proc.chan].eofSent
  <2> HIDE DEF ch
  <2> QED BY <1>1, <1>3, AuxCloseEffect, Pointers DEF SameObject, PendingKills
<1>5. \A d \in Channels :
        /\ kill'[d].results = kill[d].results
        /\ kill'[d].final <=> kill[d].final \/ (kill[d].in /\ chan[d].confirmed)
        /\ kill'[d].in <=> kill[d].in /\ ~chan[d].confirmed
        /\ kill[d].in => kill'[d].cancelled
  BY ZenonT(40) DEF DetachProcess, PendingKills, TypeOK, KillEntry
<1>6. \A d \in Channels : IsOpen(d) /\ ~ClosesNow(d) => chan[d].eofSent
  BY DEF ClosesNow, CloseAfterEof, IsOpen
<1> HIDE DEF open, ch
<1>7. ReplyIsLast' /\ CloseAfterEof' /\ UnsentIsBroken' /\ HandlerHasChannel' /\ NoUnknownRecipient'
  BY <1>1, <1>4 DEF ReplyIsLast, CloseAfterEof, UnsentIsBroken, HandlerHasChannel,
     NoUnknownRecipient, SameObject
<1>8. FreshChannels' /\ KillTable' /\ KillAnsweredOnce' /\ KillNeverStuck'
  <2>1. FreshChannels'
    BY <1>1, <1>4, <1>5 DEF FreshChannels, SameObject
  <2>2. KillTable'
    BY <1>1, <1>4, <1>5 DEF KillTable, SameObject
  <2>3. KillAnsweredOnce' /\ KillNeverStuck'
    BY <1>4, <1>5 DEF KillAnsweredOnce, KillNeverStuck, SameObject
  <2> QED BY <2>1, <2>2, <2>3
<1>9. NoOrphanChannel'
  <2> SUFFICES ASSUME phase # "closed", ~broken, NEW d \in reg, IsOpen(d)',
                      d # sftp.chan, ~kill'[d].in
               PROVE  chan'[d].eofSent
    BY <1>1 DEF NoOrphanChannel
  <2>1. d \in Channels /\ IsOpen(d)
    BY <1>4, Bounds DEF SameObject, IsOpen, TypeOK
  <2>2. CASE ~kill[d].in
    <3>1. d = proc.chan \/ chan[d].eofSent
      BY <2>1, <2>2 DEF NoOrphanChannel
    <3> QED BY <1>4, <1>6, <2>1, <3>1 DEF SameObject
  <2>3. CASE kill[d].in
    <3>1. d \in open
      BY <1>5, <2>1, <2>3 DEF PendingKills, open
    <3> QED BY <1>4, <1>6, <2>1, <3>1 DEF SameObject
  <2> QED BY <2>2, <2>3
<1>10. OpenNeverStuck'
  <2>1. ASSUME NEW p, NEW q, p.chan \in 0..MaxChannels, SamePending(p, q),
               p.chan # 0 => p.timer \/ chan[p.chan].opening
        PROVE  q.chan # 0 => q.timer \/ chan'[q.chan].opening
    BY <1>4, <2>1 DEF SamePending, SameObject, Channels
  <2>2. SamePending(sftpOpen, sftpOpen')
    BY <1>1 DEF SamePending
  <2> QED BY <1>2, <2>1, <2>2, Pointers DEF OpenNeverStuck
<1> QED BY <1>7, <1>8, <1>9, <1>10
-----------------------------------------------------------------------------
\* What Relations says of one channel.
At(c) ==
    /\ c >= next => chan[c].srv = "none" /\ ~kill[c].in
    /\ phase = "ready" /\ rd = [at |-> "reply", c |-> c] => chan[c].srv = "closed"
    /\ chan[c].closeSent => chan[c].eofSent \/ chan[c].closeRecv
    /\ chan[c].opening /\ chan[c].srv = "none" => broken
    /\ kill[c].results <= 1 /\ (~kill[c].final => kill[c].results = 0)
    /\ kill[c].in => /\ chan[c].kind = "kill" /\ ~kill[c].final
                     /\ proc.ws = "none" => kill[c].cancelled
    /\ phase # "closed" /\ ~broken =>
         /\ chan[c].srv \in {"asked", "open", "eof"} => c \in reg
         /\ c \in reg /\ IsOpen(c) => \/ c \in {sftp.chan, proc.chan} \/ kill[c].in
                                      \/ chan[c].eofSent
    /\ kill[c].in /\ ~kill[c].cancelled =>
         \/ chan[c].opening \/ kill[c].timer
         \/ kill[c].ran /\ (chan[c].srv \in {"open", "eof"} \/ rd = [at |-> "reply", c |-> c])

\* The relations, channel by channel: what the lemmas about one channel work with.
LEMMA RelationsAt ==
  TypeOK => (Relations <=> HandlerHasChannel /\ OpenNeverStuck /\ \A d \in Channels : At(d))
<1> SUFFICES ASSUME TypeOK
             PROVE  Relations <=> HandlerHasChannel /\ OpenNeverStuck /\ \A d \in Channels : At(d)
  OBVIOUS
<1>1. ASSUME Relations, NEW c \in Channels PROVE At(c)
  BY <1>1 DEF Relations, At, FreshChannels, ReplyIsLast, CloseAfterEof, UnsentIsBroken,
     KillTable, KillAnsweredOnce, NoUnknownRecipient, NoOrphanChannel, KillNeverStuck
<1>2. ASSUME HandlerHasChannel, OpenNeverStuck, \A d \in Channels : At(d) PROVE Relations
  <2>1. FreshChannels /\ ReplyIsLast /\ CloseAfterEof /\ UnsentIsBroken
    BY <1>2 DEF At, FreshChannels, ReplyIsLast, CloseAfterEof, UnsentIsBroken
  <2>2. KillTable /\ KillAnsweredOnce /\ KillNeverStuck
    BY <1>2 DEF At, KillTable, KillAnsweredOnce, KillNeverStuck
  <2>3. NoUnknownRecipient /\ NoOrphanChannel
    BY <1>2 DEF At, NoUnknownRecipient, NoOrphanChannel, TypeOK
  <2> QED BY <1>2, <2>1, <2>2, <2>3 DEF Relations
<1> QED BY <1>1, <1>2 DEF Relations

\* A step about one channel: the others are as they were, the services and the reader
\* let go of nothing else.
Local(c) ==
    /\ \A d \in Channels \ {c} : chan'[d] = chan[d] /\ kill'[d] = kill[d]
    /\ UNCHANGED <<phase, broken, next>> /\ proc'.ws = proc.ws
    /\ reg' = reg \/ reg' = reg \ {c}
    /\ sftp'.chan = sftp.chan \/ (sftp.chan = c /\ sftp'.chan = 0)
    /\ proc'.chan = proc.chan \/ (proc.chan = c /\ proc'.chan = 0)
    /\ rd' = rd \/ \A d \in Channels \ {c} :
                     rd # [at |-> "reply", c |-> d] /\ rd' # [at |-> "reply", c |-> d]

\* The opens still pending are sent or timed as before.
PendingKept(c) ==
    /\ chan[c].opening => chan'[c].opening
    /\ SamePending(sftpOpen, sftpOpen') /\ SamePending(procOpen, procOpen')

\* A step about one channel has to be looked at on that channel only.
LEMMA LocalStep ==
  ASSUME ChannelInv, TypeOK', NEW c \in Channels, Local(c),
         HandlerHasChannel', OpenNeverStuck', At(c)'
  PROVE  Relations'
<1>1. ASSUME NEW d \in Channels, d # c PROVE At(d)'
  <2>1. At(d)
    BY RelationsAt DEF ChannelInv
  <2>2. chan'[d] = chan[d] /\ kill'[d] = kill[d]
    BY <1>1 DEF Local
  <2>3. d \in reg' <=> d \in reg
    BY <1>1 DEF Local
  <2>4. d \in {sftp.chan, proc.chan} => d \in {sftp'.chan, proc'.chan}
    BY <1>1 DEF Local
  <2>5. rd' = [at |-> "reply", c |-> d] <=> rd = [at |-> "reply", c |-> d]
    BY <1>1 DEF Local
  <2>6. UNCHANGED <<phase, broken, next>> /\ proc'.ws = proc.ws
    BY DEF Local
  <2> QED BY <2>1, <2>2, <2>3, <2>4, <2>5, <2>6 DEF At, IsOpen
<1>2. \A d \in Channels : At(d)'
  BY <1>1
<1>3. (TypeOK => (Relations <=> HandlerHasChannel /\ OpenNeverStuck /\ \A d \in Channels : At(d)))'
  BY RelationsAt, PTL
<1> QED BY <1>2, <1>3

\* Pending opens stay served by a send or a timer.
LEMMA PendingStep ==
  ASSUME ChannelInv, NEW c \in Channels, PendingKept(c),
         \A d \in Channels \ {c} : chan'[d] = chan[d]
  PROVE  OpenNeverStuck'
<1>1. ASSUME NEW p, NEW q, p.chan \in 0..MaxChannels, SamePending(p, q),
             p.chan # 0 => p.timer \/ chan[p.chan].opening
      PROVE  q.chan # 0 => q.timer \/ chan'[q.chan].opening
  BY <1>1 DEF SamePending, PendingKept, Channels
<1> QED BY <1>1, Pointers DEF OpenNeverStuck, PendingKept, ChannelInv, Relations

\* Clearing a pending open leaves it or none.
LEMMA ClearSame == ASSUME NEW p, NEW c PROVE SamePending(p, ClearPending(p, c))
BY DEF SamePending, ClearPending, NoPending

\* Release forgets the channel and nothing else.
LEMMA ReleaseEffect ==
  ASSUME TypeOK, NEW c \in Channels, Release(c)
  PROVE  /\ \A d \in Channels \ {c} : kill'[d] = kill[d]
         /\ reg' = reg \ {c} /\ proc'.ws = proc.ws
         /\ sftp'.chan = sftp.chan \/ (sftp.chan = c /\ sftp'.chan = 0)
         /\ proc'.chan = proc.chan \/ (proc.chan = c /\ proc'.chan = 0)
         /\ (sftp.handler = "none" => sftp.chan = 0) => (sftp'.handler = "none" => sftp'.chan = 0)
         /\ SamePending(sftpOpen, sftpOpen') /\ SamePending(procOpen, procOpen')
<1>1. \A d \in Channels \ {c} : kill'[d] = kill[d]
  BY FinalizeEffect DEF Release
<1>2. SamePending(sftpOpen, sftpOpen') /\ SamePending(procOpen, procOpen')
  BY ClearSame DEF Release, SamePending
<1>3. /\ proc'.ws = proc.ws
      /\ proc'.chan = proc.chan \/ (proc.chan = c /\ proc'.chan = 0)
  BY DEF Release, TypeOK, ProcessService
<1>4. /\ sftp'.chan = sftp.chan \/ (sftp.chan = c /\ sftp'.chan = 0)
      /\ (sftp.handler = "none" => sftp.chan = 0) => (sftp'.handler = "none" => sftp'.chan = 0)
  BY DEF Release, TypeOK, SFTPService
<1> QED BY <1>1, <1>2, <1>3, <1>4 DEF Release

\* A close, an open or a timeout of ours reaches the connection.
LEMMA SendStep ==
  ASSUME ChannelInv, TypeOK', NEW c \in Channels, AuxCloseSent(c) \/ OpenSent(c) \/ KillTimeout(c)
  PROVE  Relations'
<1> USE DEF coreVars
<1>0. At(c) /\ TypeOK /\ HandlerHasChannel /\ OpenNeverStuck
  BY RelationsAt DEF ChannelInv
<1>1. CASE AuxCloseSent(c)
  <2>1. /\ UNCHANGED <<phase, broken, next, reg, sftp, sftpOpen, proc, procOpen, kill>>
        /\ \A d \in Channels \ {c} : chan'[d] = chan[d]
        /\ chan'[c].kind = chan[c].kind /\ chan'[c].srv = chan[c].srv
        /\ chan'[c].opening = chan[c].opening /\ chan'[c].confirmed = chan[c].confirmed
        /\ chan'[c].closeRecv = chan[c].closeRecv /\ chan'[c].eofSent
    BY <1>0, <1>1 DEF AuxCloseSent, TypeOK, ChannelObject
  <2>2. rd' = rd \/ (rd.at = "aux" /\ rd'.at # "reply")
    BY <1>1 DEF AuxCloseSent, ReaderNext, Idle, Ended
  <2>3. Local(c)
    BY <2>1, <2>2 DEF Local
  <2>4. At(c)'
    BY <1>0, <2>1, <2>2 DEF At, IsOpen
  <2>5. OpenNeverStuck'
    BY <2>1, PendingStep DEF PendingKept, SamePending
  <2>6. HandlerHasChannel'
    BY <1>0, <2>1 DEF HandlerHasChannel
  <2> QED BY <2>3, <2>4, <2>5, <2>6, LocalStep
<1>2. CASE OpenSent(c)
  <2>1. /\ UNCHANGED <<phase, broken, next, reg, sftp, proc, rd>>
        /\ \A d \in Channels \ {c} : chan'[d] = chan[d] /\ kill'[d] = kill[d]
        /\ chan'[c].kind = chan[c].kind /\ chan'[c].srv = chan[c].srv /\ chan[c].srv # "none"
        /\ chan'[c].confirmed = chan[c].confirmed /\ chan'[c].closeSent = chan[c].closeSent
        /\ chan'[c].closeRecv = chan[c].closeRecv /\ chan'[c].eofSent = chan[c].eofSent
    BY <1>0, <1>2 DEF OpenSent, TypeOK, ChannelObject
  <2>2. /\ kill'[c].results = kill[c].results /\ kill'[c].final = kill[c].final
        /\ kill'[c].in = kill[c].in /\ kill'[c].cancelled = kill[c].cancelled
        /\ chan[c].kind = "kill" => kill'[c].timer
    BY <1>0, <1>2 DEF OpenSent, TypeOK, KillEntry
  <2>3. Local(c)
    BY <2>1 DEF Local
  <2>4. At(c)'
    BY <1>0, <2>1, <2>2 DEF At, IsOpen
  <2>5. OpenNeverStuck'
    <3>1. ASSUME NEW p \in Pending, p.chan # 0 => p.timer \/ chan[p.chan].opening,
                 NEW q, q = IF p.chan = c THEN [p EXCEPT !.timer = TRUE] ELSE p
          PROVE  q.chan # 0 => q.timer \/ chan'[q.chan].opening
      <4>1. CASE p.chan = c
        BY <3>1, <4>1 DEF Pending
      <4>2. CASE p.chan # c
        BY <2>1, <3>1, <4>2 DEF Pending, Channels
      <4> QED BY <4>1, <4>2
    <3>2. sftpOpen \in Pending /\ procOpen \in Pending
      BY <1>0 DEF TypeOK
    <3> QED BY <1>0, <1>2, <3>1, <3>2 DEF OpenSent, OpenNeverStuck
  <2>6. HandlerHasChannel'
    BY <1>0, <2>1 DEF HandlerHasChannel
  <2> QED BY <2>3, <2>4, <2>5, <2>6, LocalStep
<1>3. CASE KillTimeout(c)
  <2>1. /\ UNCHANGED <<phase, broken, next, reg, sftp, sftpOpen, proc, procOpen, rd>>
        /\ \A d \in Channels \ {c} : kill'[d] = kill[d]
        /\ kill'[c].in => ~kill[c].in
        /\ kill'[c].in => kill[c].in
        /\ kill[c].in => kill'[c].final /\ kill'[c].results = kill[c].results + 1
        /\ ~kill[c].in => kill'[c].final = kill[c].final /\ kill'[c].results = kill[c].results
    BY <1>0, <1>3 DEF KillTimeout, TypeOK, KillEntry, At
  <2>2. chan' = AuxClose(chan, c) \/ (chan' = chan /\ ~kill[c].in)
    BY <1>0, <1>3 DEF KillTimeout, At
  <2>3. \A d \in Channels \ {c} : chan'[d] = chan[d]
    BY <1>0, <2>2 DEF AuxClose, TypeOK
  <2>4. SameObject(c) /\ (kill[c].in /\ IsOpen(c) => chan'[c].eofSent)
    BY <1>0, <2>2, AuxCloseSame, Bounds DEF SameObject, ChannelInv, Relations
  <2>5. Local(c)
    BY <2>1, <2>3 DEF Local
  <2>6. At(c)'
    BY <1>0, <2>1, <2>4 DEF At, IsOpen, SameObject
  <2>7. OpenNeverStuck'
    BY <2>1, <2>3, <2>4, PendingStep DEF PendingKept, SamePending, SameObject
  <2>8. HandlerHasChannel'
    BY <1>0, <2>1 DEF HandlerHasChannel
  <2> QED BY <2>5, <2>6, <2>7, <2>8, LocalStep
<1> QED BY <1>1, <1>2, <1>3

\* A failed open drops the pointers of its kind, whichever channel they hold; only a
\* broken connection lets an open fail.
LEMMA OpenFailedStep ==
  ASSUME ChannelInv, TypeOK', NEW c \in Channels, OpenFailed(c)
  PROVE  Relations'
<1> USE DEF coreVars
<1>0. TypeOK /\ HandlerHasChannel /\ OpenNeverStuck /\ \A d \in Channels : At(d)
  BY RelationsAt DEF ChannelInv
<1>1. /\ UNCHANGED <<phase, broken, next, rd>> /\ broken /\ proc'.ws = proc.ws
      /\ \A d \in Channels \ {c} : chan'[d] = chan[d] /\ kill'[d] = kill[d]
  BY <1>0 DEF OpenFailed, At, TypeOK, ProcessService
<1>2. /\ chan'[c].kind = chan[c].kind /\ chan'[c].srv = chan[c].srv
      /\ chan'[c].confirmed = chan[c].confirmed /\ chan'[c].closeSent = chan[c].closeSent
      /\ chan'[c].closeRecv = chan[c].closeRecv /\ chan'[c].eofSent = chan[c].eofSent
  BY <1>0 DEF OpenFailed, TypeOK, ChannelObject
<1>3. /\ kill'[c].results = kill[c].results /\ kill'[c].final = kill[c].final
      /\ chan[c].kind = "kill" => ~kill'[c].in
      /\ chan[c].kind # "kill" => kill'[c] = kill[c]
  BY <1>0 DEF OpenFailed, TypeOK, KillEntry
<1>4. ASSUME NEW d \in Channels PROVE At(d)'
  <2>1. At(d)
    BY <1>0
  <2>2. CASE d # c
    BY <1>1, <2>1, <2>2 DEF At
  <2>3. CASE d = c
    BY <1>1, <1>2, <1>3, <2>1, <2>3 DEF At
  <2> QED BY <2>2, <2>3
<1>5. HandlerHasChannel'
  BY <1>0 DEF OpenFailed, HandlerHasChannel, TypeOK, SFTPService
<1>6. OpenNeverStuck'
  <2>1. ASSUME NEW p \in Pending, p.chan # 0 => p.timer \/ chan[p.chan].opening,
               NEW q, q = ClearPending(p, c)
        PROVE  q.chan # 0 => q.timer \/ chan'[q.chan].opening
    BY <1>1, <2>1 DEF ClearPending, NoPending, Pending, Channels
  <2>2. sftpOpen \in Pending /\ procOpen \in Pending
    BY <1>0 DEF TypeOK
  <2> QED BY <1>0, <2>1, <2>2 DEF OpenFailed, OpenNeverStuck
<1>7. (TypeOK => (Relations <=> HandlerHasChannel /\ OpenNeverStuck /\ \A d \in Channels : At(d)))'
  BY RelationsAt, PTL
<1> QED BY <1>4, <1>5, <1>6, <1>7

\* What a confirmation does to the channel.
LEMMA ConfirmedEffect ==
  ASSUME TypeOK, NEW c \in Channels,
         NEW ch \in {Confirmed(c), [Confirmed(c) EXCEPT ![c].eofSent = TRUE],
                     [Confirmed(c) EXCEPT ![c].owed = TRUE]}
  PROVE  /\ \A d \in Channels \ {c} : ch[d] = chan[d]
         /\ ch[c].srv = "open" /\ ch[c].confirmed
         /\ ch[c].kind = chan[c].kind /\ ch[c].opening = chan[c].opening
         /\ ch[c].closeSent = chan[c].closeSent /\ ch[c].closeRecv = chan[c].closeRecv
         /\ chan[c].eofSent => ch[c].eofSent
         /\ ch = [Confirmed(c) EXCEPT ![c].eofSent = TRUE] => ch[c].eofSent
BY DEF Confirmed, TypeOK, ChannelObject

\* The server confirms a channel: for a kill, for a service that waits for it, or for
\* nobody any more.
LEMMA ConfirmStep ==
  ASSUME ChannelInv, TypeOK', NEW c \in Channels,
         KillConfirmed(c) \/ ServiceConfirmed(c) \/ UnwantedConfirmed(c)
  PROVE  Relations'
<1> USE DEF coreVars
<1>0. At(c) /\ TypeOK /\ HandlerHasChannel /\ OpenNeverStuck
  BY RelationsAt DEF ChannelInv
<1>h. /\ rd.at = "idle" /\ phase = "ready" /\ c \in reg /\ chan[c].srv = "asked"
      /\ UNCHANGED <<phase, broken, next, sftp, proc>>
  BY DEF KillConfirmed, ServiceConfirmed, UnwantedConfirmed, Hears
<1>1. \/ chan' = Confirmed(c) /\ rd' = rd
      \/ chan' = [Confirmed(c) EXCEPT ![c].eofSent = TRUE] /\ rd' = [at |-> "aux", c |-> c]
      \/ chan' = [Confirmed(c) EXCEPT ![c].owed = TRUE] /\ rd' = rd
  BY DEF KillConfirmed, ServiceConfirmed, UnwantedConfirmed, ConfirmedThenClosed
<1>2. /\ \A d \in Channels \ {c} : chan'[d] = chan[d]
      /\ chan'[c].srv = "open" /\ chan'[c].confirmed
      /\ chan'[c].kind = chan[c].kind /\ chan'[c].opening = chan[c].opening
      /\ chan'[c].closeSent = chan[c].closeSent /\ chan'[c].closeRecv = chan[c].closeRecv
      /\ chan[c].eofSent => chan'[c].eofSent
      /\ chan' = [Confirmed(c) EXCEPT ![c].eofSent = TRUE] => chan'[c].eofSent
  <2>1. chan' \in {Confirmed(c), [Confirmed(c) EXCEPT ![c].eofSent = TRUE],
                   [Confirmed(c) EXCEPT ![c].owed = TRUE]}
    BY <1>1
  <2> QED BY <1>0, <2>1, ConfirmedEffect, Zenon
<1>3. rd'.at # "reply"
  BY <1>h, <1>1
<1>4. HandlerHasChannel'
  BY <1>0, <1>h DEF HandlerHasChannel
<1>5. CASE KillConfirmed(c)
  <2>1. kill[c].in /\ sftpOpen' = sftpOpen /\ procOpen' = procOpen
    BY <1>5 DEF KillConfirmed
  <2>2. CASE kill[c].cancelled \/ proc.ws = "none"
    <3>1. /\ \A d \in Channels \ {c} : kill'[d] = kill[d]
          /\ kill'[c].in = kill[c].in /\ kill'[c].cancelled = kill[c].cancelled
          /\ kill'[c].final = kill[c].final /\ kill'[c].results = kill[c].results
          /\ reg' = reg
      <4>1. kill' = [kill EXCEPT ![c].timer = FALSE] /\ reg' = reg
        BY <1>5, <2>2 DEF KillConfirmed
      <4> QED BY <1>0, <4>1 DEF TypeOK, KillEntry
    <3>2. At(c)'
      BY <1>0, <1>h, <1>2, <1>3, <2>1, <2>2, <3>1 DEF At, IsOpen
    <3> QED BY <1>h, <1>2, <1>3, <1>4, <2>1, <3>1, <3>2, LocalStep, PendingStep
            DEF Local, PendingKept, SamePending
  <2>3. CASE ~(kill[c].cancelled \/ proc.ws = "none") /\ broken
    <3>1. kill' = FinalizeKill(c) /\ reg' = reg \ {c}
      BY <1>5, <2>3 DEF KillConfirmed
    <3>2. \A d \in Channels \ {c} : kill'[d] = kill[d]
      BY <1>0, <3>1, FinalizeEffect
    <3>3. ~kill'[c].in /\ kill'[c].final /\ kill'[c].results = kill[c].results + 1
      BY <1>0, <2>1, <3>1, FinalizeEffect DEF At
    <3>4. At(c)'
      BY <1>0, <1>h, <1>2, <1>3, <2>1, <2>3, <3>3 DEF At
    <3> QED BY <1>h, <1>2, <1>3, <1>4, <2>1, <3>1, <3>2, <3>4, LocalStep, PendingStep
            DEF Local, PendingKept, SamePending
  <2>4. CASE ~(kill[c].cancelled \/ proc.ws = "none") /\ ~broken
    <3>1. /\ \A d \in Channels \ {c} : kill'[d] = kill[d]
          /\ kill'[c].in = kill[c].in /\ kill'[c].cancelled = kill[c].cancelled /\ kill'[c].ran
          /\ kill'[c].final = kill[c].final /\ kill'[c].results = kill[c].results
          /\ reg' = reg
      <4>1. kill' = [kill EXCEPT ![c].timer = FALSE, ![c].ran = TRUE] /\ reg' = reg
        BY <1>5, <2>4 DEF KillConfirmed
      <4> QED BY <1>0, <4>1 DEF TypeOK, KillEntry
    <3>2. At(c)'
      BY <1>0, <1>h, <1>2, <1>3, <2>1, <2>4, <3>1 DEF At, IsOpen
    <3> QED BY <1>h, <1>2, <1>3, <1>4, <2>1, <3>1, <3>2, LocalStep, PendingStep
            DEF Local, PendingKept, SamePending
  <2> QED BY <2>2, <2>3, <2>4
<1>6. CASE ServiceConfirmed(c)
  <2>1. /\ ~kill[c].in /\ c \in {sftp.chan, proc.chan}
        /\ UNCHANGED <<reg, sftpOpen, procOpen, kill>>
    BY <1>6 DEF ServiceConfirmed, Wants
  <2>2. At(c)'
    BY <1>0, <1>h, <1>2, <1>3, <2>1 DEF At, IsOpen
  <2> QED BY <1>h, <1>2, <1>3, <1>4, <2>1, <2>2, LocalStep, PendingStep
          DEF Local, PendingKept, SamePending
<1>7. CASE UnwantedConfirmed(c)
  <2>1. ~kill[c].in /\ UNCHANGED <<reg, kill>>
    BY <1>7 DEF UnwantedConfirmed
  <2>2. chan'[c].eofSent
    BY <1>2, <1>7 DEF UnwantedConfirmed, ConfirmedThenClosed
  <2>3. SamePending(sftpOpen, sftpOpen') /\ SamePending(procOpen, procOpen')
    BY <1>7, ClearSame DEF UnwantedConfirmed
  <2>4. At(c)'
    BY <1>0, <1>h, <1>2, <1>3, <2>1, <2>2 DEF At
  <2> QED BY <1>h, <1>2, <1>3, <1>4, <2>1, <2>3, <2>4, LocalStep, PendingStep
          DEF Local, PendingKept
<1> QED BY <1>5, <1>6, <1>7

\* The server refuses a channel, answers the exec or subsystem request, or sends its
\* EOF.
LEMMA AnswerStep ==
  ASSUME ChannelInv, TypeOK', NEW c \in Channels,
         OpenRefused(c) \/ RequestGranted(c) \/ RequestRefused(c) \/ ChannelEof(c)
  PROVE  Relations'
<1> USE DEF coreVars
<1>0. At(c) /\ TypeOK /\ HandlerHasChannel /\ OpenNeverStuck
  BY RelationsAt DEF ChannelInv
<1>h. /\ rd.at = "idle" /\ phase = "ready" /\ c \in reg /\ chan[c].srv \in {"asked", "open", "eof"}
      /\ UNCHANGED <<phase, broken, next>>
  BY DEF OpenRefused, RequestGranted, RequestRefused, ChannelEof, Hears
<1>1. CASE OpenRefused(c)
  <2>1. /\ \A d \in Channels \ {c} : chan'[d] = chan[d]
        /\ chan'[c].srv = "closed" /\ chan'[c].kind = chan[c].kind
        /\ chan'[c].opening = chan[c].opening
        /\ chan'[c].closeSent = chan[c].closeSent /\ chan'[c].closeRecv = chan[c].closeRecv
        /\ chan'[c].eofSent = chan[c].eofSent
        /\ reg' = reg \ {c} /\ rd' = rd
    BY <1>0, <1>1 DEF OpenRefused, TypeOK, ChannelObject
  <2>2. /\ proc'.ws = proc.ws
        /\ proc'.chan = proc.chan \/ (proc.chan = c /\ proc'.chan = 0)
        /\ sftp'.chan = sftp.chan \/ (sftp.chan = c /\ sftp'.chan = 0)
        /\ HandlerHasChannel'
    BY <1>0, <1>1 DEF OpenRefused, TypeOK, ProcessService, SFTPService, HandlerHasChannel
  <2>3. SamePending(sftpOpen, sftpOpen') /\ SamePending(procOpen, procOpen')
    BY <1>1, ClearSame DEF OpenRefused
  <2>4. kill' = FinalizeKill(c)
    BY <1>1 DEF OpenRefused
  <2>5. /\ \A d \in Channels \ {c} : kill'[d] = kill[d]
        /\ ~kill'[c].in
        /\ kill[c].in => kill'[c].final /\ kill'[c].results = kill[c].results + 1
        /\ ~kill[c].in => kill'[c] = kill[c]
    BY <1>0, <2>4, FinalizeEffect DEF At
  <2>6. At(c)'
    BY <1>0, <1>h, <2>1, <2>2, <2>5 DEF At
  <2> QED BY <1>h, <2>1, <2>2, <2>3, <2>5, <2>6, LocalStep, PendingStep DEF Local, PendingKept
<1>2. CASE RequestGranted(c)
  <2>1. /\ \A d \in Channels \ {c} : chan'[d] = chan[d]
        /\ chan'[c].srv = chan[c].srv /\ chan'[c].kind = chan[c].kind
        /\ chan'[c].opening = chan[c].opening /\ chan'[c].confirmed = chan[c].confirmed
        /\ chan'[c].closeSent = chan[c].closeSent /\ chan'[c].closeRecv = chan[c].closeRecv
        /\ chan'[c].eofSent = chan[c].eofSent
        /\ UNCHANGED <<reg, rd, kill, proc>>
    BY <1>0, <1>2 DEF RequestGranted, TypeOK, ChannelObject
  <2>2. sftp'.chan = sftp.chan /\ HandlerHasChannel'
    BY <1>0, <1>2 DEF RequestGranted, TypeOK, SFTPService, HandlerHasChannel
  <2>3. SamePending(sftpOpen, sftpOpen') /\ SamePending(procOpen, procOpen')
    BY <1>2, ClearSame DEF RequestGranted, SamePending
  <2>4. At(c)'
    BY <1>0, <1>h, <2>1, <2>2 DEF At, IsOpen
  <2> QED BY <1>h, <2>1, <2>2, <2>3, <2>4, LocalStep, PendingStep DEF Local, PendingKept
<1>3. CASE RequestRefused(c)
  <2> DEFINE answered == [chan EXCEPT ![c].owed = FALSE]
  <2>1. /\ answered \in [Channels -> ChannelObject]
        /\ \A d \in Channels \ {c} : answered[d] = chan[d]
        /\ answered[c].srv = chan[c].srv /\ answered[c].kind = chan[c].kind
        /\ answered[c].opening = chan[c].opening /\ answered[c].confirmed = chan[c].confirmed
        /\ answered[c].closeSent = chan[c].closeSent /\ answered[c].closeRecv = chan[c].closeRecv
        /\ answered[c].eofSent = chan[c].eofSent
    <3>1. chan \in [Channels -> ChannelObject]
      BY <1>0 DEF TypeOK
    <3>2. answered \in [Channels -> ChannelObject]
      BY <3>1, ObjectTyped
    <3> QED BY <3>1, <3>2 DEF ChannelObject
  <2>2. \/ chan' = answered /\ rd' = rd /\ c \notin {sftp.chan, proc.chan}
        \/ chan' = AuxClose(answered, c) /\ rd' \in {rd, [at |-> "aux", c |-> c]}
    BY <1>3 DEF RequestRefused, ReaderCloses
  <2>3. /\ \A d \in Channels \ {c} : chan'[d] = chan[d]
        /\ SameObject(c)
        /\ c \in {sftp.chan, proc.chan} /\ ClosesNow(c) => chan'[c].eofSent
    <3> HIDE DEF answered
    <3>1. CASE chan' = answered /\ rd' = rd /\ c \notin {sftp.chan, proc.chan}
      BY <2>1, <3>1 DEF SameObject
    <3>2. CASE chan' = AuxClose(answered, c)
      <4>1. \A d \in Channels \ {c} : chan'[d] = chan[d]
        BY <2>1, <3>2 DEF AuxClose
      <4> QED BY <1>0, <2>1, <3>2, <4>1, AuxCloseEffect, Bounds DEF SameObject
    <3> QED BY <2>2, <3>1, <3>2
  <2>4. /\ proc'.ws = proc.ws
        /\ proc'.chan = proc.chan \/ (proc.chan = c /\ proc'.chan = 0)
        /\ sftp'.chan = sftp.chan \/ (sftp.chan = c /\ sftp'.chan = 0)
        /\ HandlerHasChannel' /\ reg' = reg
    BY <1>0, <1>3 DEF RequestRefused, TypeOK, ProcessService, SFTPService, HandlerHasChannel
  <2>5. SamePending(sftpOpen, sftpOpen') /\ SamePending(procOpen, procOpen')
    BY <1>3, ClearSame DEF RequestRefused, SamePending
  <2>6. /\ \A d \in Channels \ {c} : kill'[d] = kill[d]
        /\ kill'[c].in = kill[c].in /\ kill'[c].cancelled = kill[c].cancelled
        /\ kill'[c].final = kill[c].final /\ kill'[c].results = kill[c].results
        /\ kill'[c].timer = kill[c].timer /\ kill'[c].ran = kill[c].ran
    BY <1>0, <1>3 DEF RequestRefused, TypeOK, KillEntry
  <2>7. rd'.at # "reply"
    BY <1>h, <2>2
  <2>8. IsOpen(c) /\ ~ClosesNow(c) => chan[c].eofSent
    BY <1>0 DEF At, IsOpen, ClosesNow
  <2>9. At(c)'
    BY <1>0, <1>h, <2>3, <2>4, <2>6, <2>7, <2>8 DEF At, IsOpen, SameObject
  <2> QED BY <1>h, <2>3, <2>4, <2>5, <2>6, <2>7, <2>9, LocalStep, PendingStep
          DEF Local, PendingKept, SameObject
<1>4. CASE ChannelEof(c)
  <2>1. /\ \A d \in Channels \ {c} : chan'[d] = chan[d]
        /\ chan'[c].srv = "eof" /\ chan'[c].kind = chan[c].kind
        /\ chan'[c].opening = chan[c].opening /\ chan'[c].confirmed = chan[c].confirmed
        /\ chan'[c].closeSent = chan[c].closeSent /\ chan'[c].closeRecv = chan[c].closeRecv
        /\ chan'[c].eofSent = chan[c].eofSent /\ chan[c].srv = "open"
        /\ UNCHANGED <<reg, rd, kill, proc, sftpOpen, procOpen>>
    BY <1>0, <1>4 DEF ChannelEof, Hears, TypeOK, ChannelObject
  <2>2. sftp'.chan = sftp.chan /\ HandlerHasChannel'
    BY <1>0, <1>4 DEF ChannelEof, TypeOK, SFTPService, HandlerHasChannel
  <2>3. At(c)'
    BY <1>0, <1>h, <2>1, <2>2 DEF At, IsOpen
  <2> QED BY <1>h, <2>1, <2>2, <2>3, LocalStep, PendingStep DEF Local, PendingKept, SamePending
<1> QED BY <1>1, <1>2, <1>3, <1>4

\* What releasing does to the kill of the channel.
LEMMA ReleaseKill ==
  ASSUME TypeOK, NEW c \in Channels, At(c), Release(c)
  PROVE  /\ ~kill'[c].in
         /\ kill[c].in => kill'[c].final /\ kill'[c].results = kill[c].results + 1
         /\ ~kill[c].in => kill'[c] = kill[c]
BY FinalizeEffect DEF Release, At

\* The server's CLOSE: the channel is released at once, or after the reader has sent
\* the answering CLOSE.
LEMMA ClosedStep ==
  ASSUME ChannelInv, TypeOK', NEW c \in Channels, ChannelClosed(c) \/ CloseAnswered(c)
  PROVE  Relations'
<1> USE DEF coreVars
<1>0. At(c) /\ TypeOK /\ HandlerHasChannel /\ OpenNeverStuck
  BY RelationsAt DEF ChannelInv
<1>1. CASE ChannelClosed(c)
  <2>1. /\ rd.at = "idle" /\ phase = "ready" /\ c \in reg /\ chan[c].srv \in {"open", "eof"}
        /\ UNCHANGED <<phase, broken, next>>
    BY <1>1 DEF ChannelClosed, Hears
  <2>2. /\ \A d \in Channels \ {c} : chan'[d] = chan[d]
        /\ chan'[c].srv = "closed" /\ chan'[c].kind = chan[c].kind
        /\ chan'[c].opening = chan[c].opening /\ chan'[c].closeRecv
    <3>1. chan' = [chan EXCEPT ![c].srv = "closed", ![c].closeRecv = TRUE, ![c].closeSent = TRUE]
      BY <1>1 DEF ChannelClosed
    <3> QED BY <1>0, <3>1 DEF TypeOK, ChannelObject
  <2>3. CASE chan[c].closeSent
    <3>1. Release(c) /\ rd' = rd
      BY <1>1, <2>3 DEF ChannelClosed
    <3>2. At(c)'
      BY <1>0, <2>1, <2>2, <3>1, ReleaseKill, ReleaseEffect DEF At, IsOpen
    <3>3. HandlerHasChannel'
      BY <1>0, <3>1, ReleaseEffect DEF HandlerHasChannel
    <3>4. Local(c)
      BY <1>0, <2>1, <2>2, <3>1, ReleaseEffect DEF Local
    <3>5. PendingKept(c)
      BY <1>0, <2>2, <3>1, ReleaseEffect DEF PendingKept
    <3> QED BY <2>2, <3>2, <3>3, <3>4, <3>5, LocalStep, PendingStep
  <2>4. CASE ~chan[c].closeSent
    <3>1. /\ rd' = [at |-> "reply", c |-> c]
          /\ UNCHANGED <<reg, sftp, sftpOpen, proc, procOpen, kill>>
      BY <1>1, <2>4 DEF ChannelClosed
    <3>2. At(c)'
      BY <1>0, <2>1, <2>2, <3>1 DEF At, IsOpen
    <3>3. Local(c)
      BY <2>1, <2>2, <3>1 DEF Local
    <3>4. HandlerHasChannel'
      BY <1>0, <3>1 DEF HandlerHasChannel
    <3> QED BY <2>2, <3>1, <3>2, <3>3, <3>4, LocalStep, PendingStep DEF PendingKept, SamePending
  <2> QED BY <2>3, <2>4
<1>2. CASE CloseAnswered(c)
  <2>1. /\ rd = [at |-> "reply", c |-> c] /\ rd'.at # "reply" /\ Release(c)
        /\ UNCHANGED <<phase, broken, next, chan>>
    BY <1>2 DEF CloseAnswered, ReaderNext, Ended, Idle
  <2>2. phase = "ready" => chan[c].srv = "closed"
    BY <1>0, <2>1 DEF At
  <2>3. At(c)'
    BY <1>0, <2>1, <2>2, ReleaseKill, ReleaseEffect DEF At, TypeOK
  <2>4. HandlerHasChannel'
    BY <1>0, <2>1, ReleaseEffect DEF HandlerHasChannel
  <2>5. Local(c)
    BY <1>0, <2>1, ReleaseEffect DEF Local
  <2>6. PendingKept(c)
    BY <1>0, <2>1, ReleaseEffect DEF PendingKept
  <2> QED BY <2>1, <2>3, <2>4, <2>5, <2>6, LocalStep, PendingStep
<1> QED BY <1>1, <1>2

\* close() empties every table, and a broken connection takes no more writes.
LEMMA CloseStep ==
  ASSUME ChannelInv, TypeOK', Close \/ ConnectionBreaks
  PROVE  Relations'
<1>0. TypeOK /\ HandlerHasChannel /\ OpenNeverStuck /\ \A d \in Channels : At(d)
  BY RelationsAt DEF ChannelInv
<1>1. HandlerHasChannel' /\ OpenNeverStuck'
  BY <1>0 DEF Close, ConnectionBreaks, HandlerHasChannel, OpenNeverStuck, NoPending
<1>2. ASSUME NEW d \in Channels PROVE At(d)'
  <2>1. At(d)
    BY <1>0
  <2>2. CASE ConnectionBreaks
    BY <2>1, <2>2 DEF ConnectionBreaks, At
  <2>3. CASE Close
    <3>1. /\ phase' = "closed" /\ broken' /\ next' = next
          /\ ~kill'[d].in /\ kill'[d].results = 0
          /\ chan'[d] = chan[d] \/ chan'[d] = NoChannel
      BY <2>3 DEF Close, NoKill
    <3> QED BY <2>1, <3>1 DEF At, NoChannel
  <2> QED BY <2>2, <2>3
<1>3. (TypeOK => (Relations <=> HandlerHasChannel /\ OpenNeverStuck /\ \A d \in Channels : At(d)))'
  BY RelationsAt, PTL
<1> QED BY <1>1, <1>2, <1>3

\* ChannelInv is inductive: each step keeps the types and, by the lemmas above, the
\* relations.
LEMMA ChannelInvStep == ChannelInv /\ [Next]_vars => ChannelInv'
<1> SUFFICES ASSUME ChannelInv, [Next]_vars PROVE ChannelInv'
  OBVIOUS
<1>1. TypeOK'
  BY TypeStep DEF ChannelInv
<1>2. CASE UNCHANGED vars
  BY <1>1, <1>2 DEF vars, ChannelInv, Relations, FreshChannels, ReplyIsLast, CloseAfterEof,
     UnsentIsBroken, HandlerHasChannel, KillTable, KillAnsweredOnce, NoUnknownRecipient,
     NoOrphanChannel, KillNeverStuck, OpenNeverStuck, IsOpen
<1>3. CASE Close \/ ConnectionBreaks
  BY <1>1, <1>3, CloseStep DEF ChannelInv
<1>4. CASE Browser
  BY <1>1, <1>4, ServiceStep, OpenStep, DetachStep DEF Browser, ChannelInv
<1>5. CASE Aux
  BY <1>1, <1>5, ServiceStep, SendStep, OpenFailedStep, ConfirmStep, AnswerStep, ClosedStep
     DEF Aux, ChannelInv
<1> QED BY <1>2, <1>3, <1>4, <1>5 DEF Next

\* It holds of a session whose shell has just begun.
LEMMA ChannelInvInit == Init => ChannelInv
<1> SUFFICES ASSUME Init PROVE ChannelInv
  OBVIOUS
<1>1. TypeOK
  <2>1. rd \in Reader /\ sftp \in SFTPService /\ proc \in ProcessService
    BY Bounds DEF Init, Idle, Reader, SFTPService, ProcessService
  <2>2. chan \in [Channels -> ChannelObject] /\ kill \in [Channels -> KillEntry]
    BY NoneTyped DEF Init
  <2>3. next \in 1..(MaxChannels + 1)
    BY ChannelsAssumption DEF Init
  <2> QED BY <2>1, <2>2, <2>3, NoneTyped DEF Init, TypeOK
<1>2. Relations
  BY DEF Init, NoChannel, NoKill, NoPending, Idle, Relations, FreshChannels, ReplyIsLast,
     CloseAfterEof, UnsentIsBroken, HandlerHasChannel, KillTable, KillAnsweredOnce,
     NoUnknownRecipient, NoOrphanChannel, KillNeverStuck, OpenNeverStuck, IsOpen
<1> QED BY <1>1, <1>2 DEF ChannelInv

\* In every reachable state, with any number of channels, the types and the relations
\* between registry, channel objects, services, pending opens and kills hold
\* (ssh/channel.ts and the auxiliary services of session.ts).
THEOREM ChannelsInvariant == Spec => []ChannelInv
BY ChannelInvInit, ChannelInvStep, PTL DEF Spec

\* NoUnknownRecipient: no message of the server ends the session with "unknown
\* recipient" (handleChannel): reg loses a channel only when the server has sent its
\* last message about it.
THEOREM RecipientsKnown == Spec => []NoUnknownRecipient
<1>1. ChannelInv => NoUnknownRecipient
  BY DEF ChannelInv, Relations
<1> QED BY <1>1, ChannelsInvariant, PTL

\* NoOrphanChannel: whatever is detached, timed out, refused or broken off, an open
\* channel is owned or being closed (sendAuxiliaryChannelClose).
THEOREM NoChannelOrphaned == Spec => []NoOrphanChannel
<1>1. ChannelInv => NoOrphanChannel
  BY DEF ChannelInv, Relations
<1> QED BY <1>1, ChannelsInvariant, PTL

\* KillAnsweredOnce: expirePendingProcessKill and finalizeProcessKill never both answer.
THEOREM KillsAnsweredOnce == Spec => []KillAnsweredOnce
<1>1. ChannelInv => KillAnsweredOnce
  BY DEF ChannelInv, Relations
<1> QED BY <1>1, ChannelsInvariant, PTL

\* NothingStuck: every kill and every pending open still has a send, a timer or the
\* server to end it.
THEOREM NothingGetsStuck == Spec => []NothingStuck
<1>1. ChannelInv => NothingStuck
  BY DEF ChannelInv, Relations, NothingStuck
<1> QED BY <1>1, ChannelsInvariant, PTL
=============================================================================
