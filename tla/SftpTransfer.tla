---------------------------- MODULE SftpTransfer ----------------------------
(***************************************************************************)
(* One file of the remote host, uploaded and downloaded from the browser's *)
(* file manager (webssh/src/file-manager.ts) through the session's SFTP    *)
(* tasks (worker/src/webssh/backend/session.ts) and its SFTPHandler        *)
(* (sftp-handler.ts) over the SFTP client (ssh/sftp.ts).                   *)
(*                                                                         *)
(* Browser and session exchange messages over one WebSocket, in order both *)
(* ways.  The session runs its tasks one after the other; a task is        *)
(* suspended while it waits for one SFTP answer (task.at says for which    *)
(* request) and goes on with the answer, or with an error when the request *)
(* times out.  A request that timed out may still be carried out later.    *)
(* The server carries out the requests of a channel in order; it may       *)
(* refuse any of them, and has finished with a closed channel before the   *)
(* next one is opened.  Nobody else writes the file, but the server may    *)
(* end a download before the size it gave (a read with nothing in it).     *)
(***************************************************************************)
EXTENDS Naturals, Sequences

CONSTANTS
    Size,          \* chunks of a file (TRANSFER_CHUNK_SIZE each)
    MaxTransfers,  \* bound of the transfers the user starts
    MaxDrops       \* bound of the connections and channels that are lost

ASSUME SftpAssumption ==
    /\ Size \in Nat \ {0}
    /\ MaxTransfers \in Nat \ {0}
    /\ MaxDrops \in Nat

VARIABLES
    xfer,      \* browser: uploadState or downloadState, at most one of them
    online,    \* browser: its SFTP socket is open
    up, down,  \* messages on their way to the session and to the browser
    sess,      \* session: "ready", "nohandler" (channel closed) or "detached"
    task,      \* session: the running task and the request it waits for
    upload,    \* handler: this.upload
    dl,        \* handler: this.activeDownload, with the loop's offset
    reply,     \* the answer to the task's request, once the server gave it
    srv,       \* server: requests not carried out yet
    dest,      \* server: the file at the destination
    temp,      \* server: the temporary file of each upload, its chunks or Absent
    hist       \* history: transfers, drops, uploads that ended well, what the
               \* user was told, uploads the backend lost track of, saved downloads

browserVars == <<xfer, online>>
netVars == <<up, down>>
handlerVars == <<sess, task, upload, dl, reply>>
fileVars == <<dest, temp>>
vars == <<browserVars, netVars, handlerVars, srv, fileVars, hist>>

Transfer == 1 .. MaxTransfers
Absent == Size + 1          \* no file
NoXfer == [kind |-> "none", id |-> 0, sent |-> 0, ready |-> FALSE, awaiting |-> FALSE,
           slicing |-> FALSE, endSent |-> FALSE, cancelling |-> FALSE,
           cancelSent |-> FALSE, own |-> 0, got |-> 0]
NoUpload == [id |-> 0, received |-> 0, closed |-> FALSE, temporary |-> FALSE]
NoDownload == [id |-> 0, offset |-> 0, cancelled |-> FALSE]
Idle == [at |-> "idle", id |-> 0, temporary |-> FALSE, answer |-> "none"]
NoFile == [id |-> 0, n |-> Absent, renamed |-> FALSE]
OldFile == [id |-> 0, n |-> Size, renamed |-> TRUE]

Init ==
    /\ xfer = NoXfer /\ online = TRUE
    /\ up = <<>> /\ down = <<>>
    /\ sess = "ready" /\ task = Idle /\ upload = NoUpload /\ dl = NoDownload
    /\ reply = "none" /\ srv = <<>>
    /\ dest \in {NoFile, OldFile}
    /\ temp = [i \in Transfer |-> Absent]
    /\ hist = [started |-> 0, drops |-> 0, done |-> {}, told |-> {},
               lost |-> {}, saved |-> {}]
-----------------------------------------------------------------------------
(* The browser.                                                              *)

\* send: nothing goes out on a socket that is not open.
ToSession(m) == up' = IF sess # "detached" THEN Append(up, m) ELSE up

\* upload(file): the user confirmed the replacement of a name the listing shows,
\* or the listing, perhaps stale, does not show it.
StartUpload ==
    /\ online /\ xfer = NoXfer /\ hist.started < MaxTransfers
    /\ LET id == hist.started + 1 IN
       \E overwrite \in BOOLEAN :
         /\ xfer' = [NoXfer EXCEPT !.kind = "upload", !.id = id]
         /\ ToSession([t |-> "start", id |-> id, overwrite |-> overwrite])
    /\ hist' = [hist EXCEPT !.started = @ + 1]
    /\ UNCHANGED <<online, down, handlerVars, srv, fileVars>>

\* downloadSelected()
StartDownload ==
    /\ online /\ xfer = NoXfer /\ hist.started < MaxTransfers
    /\ LET id == hist.started + 1 IN
         /\ xfer' = [NoXfer EXCEPT !.kind = "download", !.id = id]
         /\ ToSession([t |-> "download", id |-> id, overwrite |-> FALSE])
    /\ hist' = [hist EXCEPT !.started = @ + 1]
    /\ UNCHANGED <<online, down, handlerVars, srv, fileVars>>

\* sendUploadCancel and sendDownloadCancel, for a transfer that became x.
SendCancel(x) ==
    IF x.ready /\ ~x.cancelSent
    THEN /\ xfer' = [x EXCEPT !.cancelSent = TRUE]
         /\ ToSession([t |-> IF x.kind = "upload" THEN "cancel" ELSE "dlcancel",
                       id |-> x.id, overwrite |-> FALSE])
    ELSE xfer' = x /\ UNCHANGED up

\* Fault: a download is over for the browser as soon as its cancellation was sent.
CancelTransferAtOnce ==
    /\ online /\ xfer # NoXfer /\ ~xfer.cancelling /\ ~xfer.endSent
    /\ IF xfer.kind = "download" /\ xfer.ready
       THEN /\ xfer' = NoXfer
            /\ ToSession([t |-> "dlcancel", id |-> xfer.id, overwrite |-> FALSE])
       ELSE SendCancel([xfer EXCEPT !.cancelling = TRUE])
    /\ UNCHANGED <<online, down, handlerVars, srv, fileVars, hist>>

\* requestTransferCancel()
CancelTransfer ==
    /\ online /\ xfer # NoXfer /\ ~xfer.cancelling /\ ~xfer.endSent
    /\ SendCancel([xfer EXCEPT !.cancelling = TRUE])
    /\ UNCHANGED <<online, down, handlerVars, srv, fileVars, hist>>

\* sendNextUploadChunk up to the read of the file's slice, for an upload that became x.
SendNextUploadChunk(x) ==
    IF ~x.ready \/ x.cancelling \/ x.awaiting \/ x.endSent THEN xfer' = x /\ UNCHANGED up
    ELSE IF x.sent >= Size
    THEN /\ xfer' = [x EXCEPT !.endSent = TRUE]
         /\ ToSession([t |-> "end", id |-> x.id, overwrite |-> FALSE])
    ELSE xfer' = [x EXCEPT !.slicing = TRUE] /\ UNCHANGED up

\* The rest of it, when the slice was read.
SliceRead ==
    /\ online /\ xfer.slicing
    /\ IF xfer.cancelling
       THEN xfer' = [xfer EXCEPT !.slicing = FALSE] /\ UNCHANGED up
       ELSE /\ xfer' = [xfer EXCEPT !.slicing = FALSE, !.sent = @ + 1, !.awaiting = TRUE]
            /\ ToSession([t |-> "chunk", id |-> xfer.id, overwrite |-> FALSE])
    /\ UNCHANGED <<online, down, handlerVars, srv, fileVars, hist>>

\* handleSocketData: the next message for the browser, which waits for the
\* slice of an earlier one (messageQueue).
Received(t) ==
    /\ online /\ ~xfer.slicing /\ down # <<>> /\ Head(down).t = t
    /\ down' = Tail(down)
    /\ UNCHANGED <<handlerVars, srv, fileVars>>

Mine == Head(down).id = xfer.id      \* matchUpload, matchDownload

\* Fault: a cancellation asked for before the upload was ready is forgotten.
HandleUploadReadyForgets ==
    /\ Received("ready")
    /\ IF xfer.kind = "upload" /\ Mine /\ xfer.sent = 0
       THEN SendNextUploadChunk([xfer EXCEPT !.ready = TRUE])
       ELSE UNCHANGED <<xfer, up>>
    /\ UNCHANGED <<online, hist>>

HandleUploadReady ==
    /\ Received("ready")
    /\ IF xfer.kind = "upload" /\ Mine /\ xfer.sent = 0
       THEN LET x == [xfer EXCEPT !.ready = TRUE] IN
            IF x.cancelling THEN SendCancel(x) ELSE SendNextUploadChunk(x)
       ELSE UNCHANGED <<xfer, up>>
    /\ UNCHANGED <<online, hist>>

HandleUploadProgress ==
    /\ Received("progress")
    /\ IF xfer.kind = "upload" /\ Mine
       THEN LET x == [xfer EXCEPT !.awaiting = FALSE] IN
            IF x.cancelling THEN SendCancel(x) ELSE SendNextUploadChunk(x)
       ELSE UNCHANGED <<xfer, up>>
    /\ UNCHANGED <<online, hist>>

HandleUploadComplete ==
    /\ Received("complete")
    /\ IF xfer.kind = "upload" /\ Mine
       THEN xfer' = NoXfer /\ hist' = [hist EXCEPT !.told = @ \union {xfer.id}]
       ELSE UNCHANGED <<xfer, hist>>
    /\ UNCHANGED <<online, up>>

HandleDownloadStart ==
    /\ Received("dlstart")
    /\ IF xfer.kind = "download" /\ Mine
       THEN LET x == [xfer EXCEPT !.ready = TRUE] IN
            IF x.cancelling THEN SendCancel(x) ELSE xfer' = x /\ UNCHANGED up
       ELSE UNCHANGED <<xfer, up>>
    /\ UNCHANGED <<online, hist>>

\* handleBinary: a chunk does not say to which download it belongs.
HandleBinary ==
    /\ Received("data")
    /\ xfer' = IF xfer.kind # "download" \/ xfer.cancelling THEN xfer
               ELSE [xfer EXCEPT !.got = @ + 1, !.own = IF Mine THEN @ + 1 ELSE @]
    /\ UNCHANGED <<online, up, hist>>

\* handleDownloadDone: saved when as many bytes came as the session says it sent,
\* even if that ("dlshort") is less than the size it announced at the start.
HandleDownloadDone ==
    /\ Received("dldone") \/ Received("dlshort")
    /\ IF xfer.kind = "download" /\ Mine
       THEN /\ xfer' = NoXfer
            /\ hist' = IF xfer.cancelling \/ xfer.got # Head(down).n THEN hist
                       ELSE [hist EXCEPT !.saved = @ \union {<<xfer.own, xfer.got, Head(down).t>>}]
       ELSE UNCHANGED <<xfer, hist>>
    /\ UNCHANGED <<online, up>>

\* handleTransferCancelled
HandleTransferCancelled ==
    /\ Received("cancelled")
    /\ xfer' = IF Mine /\ xfer.cancelling THEN NoXfer ELSE xfer
    /\ UNCHANGED <<online, up, hist>>

\* handleServerError; an error without a request id (id 0) ends no transfer.
HandleServerError ==
    /\ Received("error")
    /\ xfer' = IF Mine THEN NoXfer ELSE xfer
    /\ UNCHANGED <<online, up, hist>>

\* The socket closes, or the session said sftp_closed: abortTransfers.
BrowserCloses ==
    /\ online /\ online' = FALSE
    /\ \/ sess = "detached" /\ UNCHANGED hist
       \/ down # <<>> /\ Head(down).t = "closed" /\ UNCHANGED hist
       \/ hist.drops < MaxDrops /\ hist' = [hist EXCEPT !.drops = @ + 1]
    /\ xfer' = NoXfer /\ down' = <<>>
    /\ UNCHANGED <<up, handlerVars, srv, fileVars>>
-----------------------------------------------------------------------------
(* The session and its handler.                                              *)

ToBrowser(m) == down' = IF online THEN Append(down, m) ELSE down
Tell(t, id, n) == ToBrowser([t |-> t, id |-> id, n |-> n])

\* client.request: the task waits for this one request.
Request(op, id, temporary, answer) ==
    /\ task' = [at |-> op, id |-> id, temporary |-> temporary, answer |-> answer]
    /\ srv' = Append(srv, [op |-> op, id |-> id, temporary |-> temporary])

TaskDone == task' = Idle /\ UNCHANGED srv

\* Fault: the partial file is left where it is.
AbortUploadKeeps(answer) ==
    /\ upload' = NoUpload
    /\ IF upload.closed THEN TaskDone /\ Tell(answer, upload.id, 0)
       ELSE Request("abortclose", upload.id, upload.temporary, answer) /\ UNCHANGED down

\* Fault: the handler keeps the upload it gave up.
AbortUploadHolds(answer) ==
    /\ Request(IF upload.closed THEN "remove" ELSE "abortclose",
               upload.id, upload.temporary, answer)
    /\ UNCHANGED <<upload, down>>

\* Fault: the destination is removed instead of the uploaded file.
AbortUploadWrongPath(answer) ==
    /\ upload' = NoUpload
    /\ Request(IF upload.closed THEN "remove" ELSE "abortclose", upload.id, FALSE, answer)
    /\ UNCHANGED down

\* abortUpload(upload, true): the handle is closed and the uploaded file removed;
\* the browser is answered afterwards.
AbortUpload(answer) ==
    /\ upload' = NoUpload
    /\ Request(IF upload.closed THEN "remove" ELSE "abortclose",
               upload.id, upload.temporary, answer)
    /\ UNCHANGED down

\* The next task of the chain starts when the previous one ended.
NextTask(t) ==
    /\ sess # "detached" /\ task.at = "idle" /\ up # <<>> /\ Head(up).t = t
    /\ up' = Tail(up)
    /\ UNCHANGED <<browserVars, sess, reply, fileVars, hist>>

Asked == Head(up)
Refused(id) == Tell("error", id, 0) /\ UNCHANGED <<task, upload, dl, srv>>

\* startUpload: a temporary file beside the destination, or the destination itself
\* if the name is taken to be free; created exclusively in both cases.
HandlerStartUpload ==
    /\ NextTask("start")
    /\ IF sess = "nohandler" \/ upload # NoUpload THEN Refused(Asked.id)
       ELSE /\ Request("open", Asked.id, Asked.overwrite, "error")
            /\ UNCHANGED <<upload, dl, down>>

\* uploadChunk: the chunk belongs to whatever upload the handler has.
UploadChunk ==
    /\ NextTask("chunk")
    /\ IF sess = "nohandler" \/ upload = NoUpload THEN Refused(0)
       ELSE /\ IF upload.received >= Size THEN AbortUpload("error")
               ELSE /\ Request("write", upload.id, upload.temporary, "error")
                    /\ UNCHANGED <<upload, down>>
            /\ UNCHANGED dl

\* finishUpload up to the close of the handle.
FinishUpload ==
    /\ NextTask("end")
    /\ IF sess = "nohandler" \/ upload = NoUpload THEN Refused(Asked.id)
       ELSE /\ IF upload.id # Asked.id \/ upload.received # Size THEN AbortUpload("error")
               ELSE /\ Request("close", upload.id, upload.temporary, "error")
                    /\ UNCHANGED <<upload, down>>
            /\ UNCHANGED dl

\* cancelUpload: nothing is answered for an upload the handler no longer has.
CancelUpload ==
    /\ NextTask("cancel")
    /\ IF sess = "nohandler" THEN Refused(Asked.id)
       ELSE /\ IF upload = NoUpload \/ upload.id # Asked.id
               THEN UNCHANGED <<task, upload, srv, down>>
               ELSE AbortUpload("cancelled")
            /\ UNCHANGED dl

\* download: the size is asked for and the file opened.
Download ==
    /\ NextTask("download")
    /\ IF sess = "nohandler" \/ dl # NoDownload THEN Refused(Asked.id)
       ELSE /\ dl' = [NoDownload EXCEPT !.id = Asked.id]
            /\ Request("dlopen", Asked.id, FALSE, "error")
            /\ UNCHANGED <<upload, down>>

\* cancelDownload, handled at once and not queued behind the running task.
CancelDownload ==
    /\ sess # "detached" /\ up # <<>> /\ Head(up).t = "dlcancel"
    /\ up' = Tail(up)
    /\ IF sess = "nohandler" THEN Tell("error", 0, 0) /\ UNCHANGED dl
       ELSE /\ dl' = IF dl.id = Head(up).id THEN [dl EXCEPT !.cancelled = TRUE] ELSE dl
            /\ UNCHANGED down
    /\ UNCHANGED <<browserVars, sess, task, upload, reply, srv, fileVars, hist>>

\* How the running task goes on when its request succeeded (ok) or failed,
\* with the history h so far.
Resume(ok, h) ==
    LET id == task.id IN
    \/ /\ task.at = "open" /\ TaskDone
       /\ upload' = IF ok THEN [NoUpload EXCEPT !.id = id, !.temporary = task.temporary]
                    ELSE upload
       /\ Tell(IF ok THEN "ready" ELSE "error", id, 0)
       /\ UNCHANGED dl /\ hist' = h
    \/ /\ task.at = "write"
       /\ IF ok
          THEN /\ upload' = [upload EXCEPT !.received = @ + 1] /\ TaskDone
               /\ Tell("progress", id, 0)
          ELSE AbortUpload("error")
       /\ UNCHANGED dl /\ hist' = h
    \/ /\ task.at = "close" /\ ok /\ upload.temporary
       /\ upload' = [upload EXCEPT !.closed = TRUE]
       /\ Request("rename", id, TRUE, "error")
       /\ UNCHANGED <<dl, down>> /\ hist' = h
    \/ /\ task.at \in {"close", "rename"} /\ ok /\ (task.at = "rename" \/ ~upload.temporary)
       /\ upload' = NoUpload /\ TaskDone
       /\ Tell("complete", id, 0)
       /\ hist' = [h EXCEPT !.done = @ \union {id}]
       /\ UNCHANGED dl
    \/ /\ task.at \in {"close", "rename"} /\ ~ok
       /\ AbortUpload("error") /\ UNCHANGED dl /\ hist' = h
    \/ /\ task.at = "abortclose"
       /\ Request("remove", id, task.temporary, task.answer)
       /\ UNCHANGED <<upload, dl, down>> /\ hist' = h
    \/ /\ task.at = "remove" /\ TaskDone
       /\ Tell(task.answer, id, 0)
       /\ hist' = IF ok THEN h ELSE [h EXCEPT !.lost = @ \union {id}]
       /\ UNCHANGED <<upload, dl>>
    \/ /\ task.at = "dlopen" /\ ok
       /\ Tell("dlstart", id, 0) /\ Request("dlread", id, FALSE, "error")
       /\ UNCHANGED <<upload, dl>> /\ hist' = h
    \/ /\ task.at = "dlopen" /\ ~ok
       /\ Tell("error", id, 0) /\ TaskDone /\ dl' = NoDownload
       /\ UNCHANGED upload /\ hist' = h
    \/ /\ task.at = "dlread" /\ (~ok \/ dl.cancelled)
       /\ Tell(IF dl.cancelled THEN "cancelled" ELSE "error", id, 0)
       /\ Request("dlclose", id, FALSE, "error")
       /\ UNCHANGED <<upload, dl>> /\ hist' = h
    \/ /\ task.at = "dlread" /\ ok /\ ~dl.cancelled
       /\ LET n == dl.offset + 1  data == [t |-> "data", id |-> id, n |-> n] IN
          /\ dl' = [dl EXCEPT !.offset = n]
          /\ down' = IF ~online THEN down
                     ELSE IF n < Size THEN Append(down, data)
                     ELSE down \o <<data, [t |-> "dldone", id |-> id, n |-> n]>>
          /\ Request(IF n < Size THEN "dlread" ELSE "dlclose", id, FALSE, "error")
       /\ UNCHANGED upload /\ hist' = h
    \/ /\ task.at = "dlread" /\ ok /\ ~dl.cancelled   \* the server says the file ends here
       /\ Tell("dlshort", id, dl.offset) /\ Request("dlclose", id, FALSE, "error")
       /\ UNCHANGED <<upload, dl>> /\ hist' = h
    \/ /\ task.at = "dlclose" /\ TaskDone /\ dl' = NoDownload
       /\ UNCHANGED <<upload, down>> /\ hist' = h

\* dispatch: the answer to the pending request.
RequestAnswered ==
    /\ reply # "none" /\ reply' = "none"
    /\ Resume(reply = "ok", hist)
    /\ UNCHANGED <<browserVars, up, sess, fileVars>>

\* The request's timer: the task goes on with an error; an answer that comes
\* later is dropped.
RequestTimeout ==
    /\ task.at # "idle" /\ reply' = "none"
    /\ Resume(FALSE, [hist EXCEPT !.lost = @ \union {task.id}])
    /\ UNCHANGED <<browserVars, up, sess, fileVars>>

\* dispose(): the pending request is rejected and the task ends; no request can
\* be sent any more, so the uploaded file stays as it is.
Dispose ==
    /\ task' = Idle /\ upload' = NoUpload /\ dl' = NoDownload /\ reply' = "none"
    /\ UNCHANGED <<srv, fileVars>>

Dropping == [hist EXCEPT !.lost = @ \union {task.id, upload.id}]

\* onClosed: the server closed the SFTP channel.
ChannelCloses ==
    /\ sess = "ready" /\ hist.drops < MaxDrops
    /\ sess' = "nohandler" /\ Dispose
    /\ hist' = [Dropping EXCEPT !.drops = @ + 1]
    /\ ToBrowser([t |-> "closed", id |-> 0, n |-> 0])
    /\ UNCHANGED <<browserVars, up>>

\* detachSFTPWebSocket: the browser's socket closed, or the connection broke.
SessionDetaches ==
    /\ sess # "detached" /\ sess' = "detached"
    /\ \/ ~online /\ hist' = Dropping
       \/ hist.drops < MaxDrops /\ hist' = [Dropping EXCEPT !.drops = @ + 1]
    /\ Dispose /\ up' = <<>>
    /\ UNCHANGED <<browserVars, down>>

\* scheduleReconnect, attach and attachSFTPWebSocket: a new channel and handler.
Reconnect ==
    /\ ~online /\ sess = "detached" /\ srv = <<>>
    /\ online' = TRUE /\ sess' = "ready"
    /\ UNCHANGED <<xfer, netVars, task, upload, dl, reply, srv, fileVars, hist>>
-----------------------------------------------------------------------------
(* The SFTP server (external).                                               *)

\* What the request r does to the files when it is carried out, or that it cannot be.
Effect(r, ok) ==
    CASE r.op = "open" /\ r.temporary ->
           ok = TRUE /\ temp' = [temp EXCEPT ![r.id] = 0] /\ UNCHANGED dest
      [] r.op = "open" /\ ~r.temporary ->
           ok = (dest = NoFile) /\ UNCHANGED temp
           /\ dest' = IF ok THEN [id |-> r.id, n |-> 0, renamed |-> FALSE] ELSE dest
      [] r.op = "write" /\ r.temporary ->
           ok = TRUE /\ temp' = [temp EXCEPT ![r.id] = @ + 1] /\ UNCHANGED dest
      [] r.op = "write" /\ ~r.temporary ->
           ok = TRUE /\ dest' = [dest EXCEPT !.n = @ + 1] /\ UNCHANGED temp
      [] r.op = "rename" ->
           /\ ok = TRUE
           /\ dest' = [id |-> r.id, n |-> temp[r.id], renamed |-> TRUE]
           /\ temp' = [temp EXCEPT ![r.id] = Absent]
      [] r.op = "remove" /\ r.temporary ->
           ok = (temp[r.id] # Absent) /\ temp' = [temp EXCEPT ![r.id] = Absent] /\ UNCHANGED dest
      [] r.op = "remove" /\ ~r.temporary ->
           ok = (dest # NoFile) /\ dest' = NoFile /\ UNCHANGED temp
      [] OTHER -> ok \in BOOLEAN /\ UNCHANGED fileVars

\* The first request is carried out, or refused without effect; the task that still
\* waits for it (it is the last request then) gets the answer.
ServerAnswers ==
    /\ srv # <<>> /\ srv' = Tail(srv)
    /\ \E ok \in BOOLEAN :
         /\ Effect(Head(srv), ok) \/ (~ok /\ UNCHANGED fileVars)
         /\ reply' = IF Len(srv) = 1 /\ task.at # "idle"
                     THEN IF ok THEN "ok" ELSE "fail" ELSE reply
    /\ UNCHANGED <<browserVars, netVars, sess, task, upload, dl, hist>>

\* The server of a closed channel ends without carrying out the rest.
ServerEnds ==
    /\ sess # "ready" /\ srv # <<>> /\ srv' = <<>>
    /\ UNCHANGED <<browserVars, netVars, handlerVars, fileVars, hist>>
-----------------------------------------------------------------------------
BrowserHandles ==
    \/ HandleUploadReady \/ HandleUploadProgress \/ HandleUploadComplete
    \/ HandleDownloadStart \/ HandleBinary \/ HandleDownloadDone
    \/ HandleTransferCancelled \/ HandleServerError

SessionHandles ==
    \/ HandlerStartUpload \/ UploadChunk \/ FinishUpload \/ CancelUpload
    \/ Download \/ CancelDownload

Next ==
    \/ StartUpload \/ StartDownload \/ CancelTransfer \/ SliceRead
    \/ BrowserHandles \/ BrowserCloses
    \/ SessionHandles \/ RequestAnswered \/ RequestTimeout
    \/ ChannelCloses \/ SessionDetaches \/ Reconnect
    \/ ServerAnswers \/ ServerEnds

Spec == Init /\ [][Next]_vars

\* The event loops of browser and session run what is ready, timers fire, a socket
\* one side has closed closes on the other, and the server answers or ends.
FairSpec ==
    /\ Spec
    /\ WF_vars(SliceRead) /\ WF_vars(BrowserHandles) /\ WF_vars(SessionHandles)
    /\ WF_vars(RequestAnswered) /\ WF_vars(RequestTimeout)
    /\ WF_vars(online /\ BrowserCloses /\ hist' = hist)
-----------------------------------------------------------------------------
(* Properties.                                                               *)

Op == {"open", "write", "close", "rename", "abortclose", "remove",
       "dlopen", "dlread", "dlclose"}
Xfer == [kind : {"none", "upload", "download"}, id : 0 .. MaxTransfers,
         sent : 0 .. Size, ready : BOOLEAN, awaiting : BOOLEAN, slicing : BOOLEAN,
         endSent : BOOLEAN, cancelling : BOOLEAN, cancelSent : BOOLEAN,
         own : 0 .. Size, got : 0 .. Size]
UpMessage == [t : {"start", "chunk", "end", "cancel", "download", "dlcancel"},
              id : Transfer, overwrite : BOOLEAN]
DownMessage == [t : {"ready", "progress", "complete", "dlstart", "data", "dldone",
                     "dlshort", "cancelled", "error", "closed"},
                id : 0 .. MaxTransfers, n : 0 .. Size]
Task == [at : Op \union {"idle"}, id : 0 .. MaxTransfers, temporary : BOOLEAN,
         answer : {"none", "error", "cancelled"}]
UploadState == [id : 0 .. MaxTransfers, received : 0 .. Size, closed : BOOLEAN,
                temporary : BOOLEAN]
DownloadState == [id : 0 .. MaxTransfers, offset : 0 .. Size, cancelled : BOOLEAN]
ServerRequest == [op : Op, id : Transfer, temporary : BOOLEAN]
File == [id : 0 .. MaxTransfers, n : 0 .. Absent, renamed : BOOLEAN]
History == [started : 0 .. MaxTransfers, drops : 0 .. MaxDrops,
            done : SUBSET Transfer, told : SUBSET Transfer,
            lost : SUBSET (0 .. MaxTransfers), saved : SUBSET ((0 .. Size) \X (0 .. Size) \X {"dldone", "dlshort"})]

\* The files, the handler's state, the queues and the browser's transfer have their
\* types: no chunk is stored, sent or counted beyond the size of the file.
TypeOK ==
    /\ xfer \in Xfer
    /\ online \in BOOLEAN
    /\ up \in Seq(UpMessage)
    /\ down \in Seq(DownMessage)
    /\ sess \in {"ready", "nohandler", "detached"}
    /\ task \in Task
    /\ upload \in UploadState
    /\ dl \in DownloadState
    /\ reply \in {"none", "ok", "fail"}
    /\ srv \in Seq(ServerRequest)
    /\ dest \in File
    /\ temp \in [Transfer -> 0 .. Absent]
    /\ hist \in History

\* The destination as AtomicUpload sees it: a file is a whole version once it was
\* renamed into place, or its upload to a free name ended well.
None == MaxTransfers + 1
Partial == MaxTransfers + 2
Stored ==
    IF dest = NoFile THEN None
    ELSE IF dest.n = Size /\ (dest.renamed \/ dest.id \in hist.done) THEN dest.id
    ELSE Partial

Atomic == INSTANCE AtomicUpload
          WITH Version <- Transfer, Old <- 0, file <- Stored, told <- hist.told

\* Uploads implement AtomicUpload: whatever fails, times out late or is cut off
\* between open, write, close and rename, a whole file is never damaged or removed,
\* and the browser reports an upload only while that upload is the stored file.
UploadIsAtomic == Atomic!Spec

\* Chunks carry no request id: none of an earlier, cancelled download reaches a
\* later one, and what is saved is what the session sent for this download: the
\* whole file, unless the server ended it early.
DownloadAsServed ==
    /\ xfer.got = xfer.own
    /\ \A s \in hist.saved : s[1] = s[2] /\ (s[3] = "dldone" => s[1] = Size)

Quiet == xfer = NoXfer /\ up = <<>> /\ down = <<>> /\ task = Idle

\* When browser and session have nothing left to do, the handler holds no upload and
\* no download, so the next transfer is not refused as "already in progress".
NextTransferAccepted == Quiet /\ online => upload = NoUpload /\ dl = NoDownload

\* An upload that failed or was cancelled leaves neither a temporary nor a partial
\* file behind, unless a request timed out, the removal was refused or the
\* connection was lost meanwhile.
NothingLeftBehind ==
    Quiet /\ upload = NoUpload =>
        /\ \A i \in Transfer \ hist.lost : temp[i] = Absent
        /\ Stored = Partial => dest.id \in hist.lost

\* Every transfer the browser shows ends: completed, failed or cancelled.
TransferEnds == (xfer # NoXfer) ~> (xfer = NoXfer)
=============================================================================
