------------------------- MODULE SftpTransferProofs -------------------------
(***************************************************************************)
(* For every file size, number of transfers and number of lost channels:   *)
(* SftpTransfer is well typed, a download is saved as it was served, the   *)
(* session is free for the next transfer when nothing is under way, no     *)
(* partial file is left but those of lost transfers, and uploads implement *)
(* AtomicUpload (a reader of the destination sees the old file or a whole  *)
(* new one).                                                               *)
(*                                                                         *)
(* A property of the destination needs what each pending request will meet *)
(* when the server carries it out, which needs that requests nobody waits  *)
(* for any more belong to lost transfers, which needs that one task runs   *)
(* at a time and that the browser begins a transfer only after the last    *)
(* one ended: TransferInv says this of the server's queue, the session's   *)
(* task and handler, the files, the two message queues and the browser.    *)
(***************************************************************************)
EXTENDS SftpTransfer, TLAPS

(* The backend: the task, the handler, the server's queue and its files.     *)

Reqs == 1 .. Len(srv)
NoEffect == {"close", "abortclose", "dlopen", "dlread", "dlclose"}
Downloading == {"dlopen", "dlread", "dlclose"}

\* The request of the running task, as the server sees it.
TaskRequest == [op |-> task.at, id |-> task.id, temporary |-> task.temporary]
Aborting == task.at \in {"abortclose", "remove"}

\* One request is awaited: it is the last one sent, until its answer is there.
Awaits ==
    /\ task.at = "idle" => task = Idle /\ reply = "none"
    /\ task.at # "idle" => task.id \in Transfer /\ task.answer # "none"
    /\ task.at # "idle" /\ reply = "none" => srv # <<>> /\ srv[Len(srv)] = TaskRequest
    /\ reply # "none" => srv = <<>>
    /\ sess # "ready" => task = Idle /\ upload = NoUpload /\ dl = NoDownload

\* What the running task says of the handler.
TaskFits ==
    /\ upload.id = 0 => upload = NoUpload
    /\ upload.closed => task.at = "rename"
    /\ task.at \in {"write", "close", "rename"} =>
         /\ upload.id = task.id /\ upload.temporary = task.temporary
         /\ task.at = "write" => upload.received < Size
         /\ task.at # "write" => upload.received = Size
         /\ task.at = "rename" => upload.temporary
    /\ task.at = "open" \/ Aborting => upload = NoUpload
    /\ dl.id = 0 => dl = NoDownload
    /\ task.at \in Downloading <=> dl # NoDownload
    /\ dl # NoDownload => dl.id = task.id /\ upload = NoUpload
    /\ task.at \in {"dlopen", "dlread"} => dl.offset < Size

\* The destination is the file the upload i, to a free name, has created.
Own(i) == dest.id = i /\ ~dest.renamed /\ i \notin hist.done

\* Requests the server has yet to carry out meet the file they were sent for.
Pending(k) ==
    LET r == srv[k] IN
    /\ r.op \in {"write", "rename"} => \A j \in 1 .. k - 1 : srv[j].op \in NoEffect
    /\ r.op = "write" /\ r.temporary => temp[r.id] < Size
    /\ r.op = "write" /\ ~r.temporary => Own(r.id) /\ dest.n < Size
    /\ r.op = "rename" => r.temporary /\ temp[r.id] = Size
    /\ r.op = "remove" /\ ~r.temporary =>
         /\ Own(r.id)
         /\ \A j \in 1 .. k - 1 : \/ srv[j].op \in NoEffect
                                  \/ srv[j] = [r EXCEPT !.op = "write"]
PendingFits == \A k \in Reqs : Pending(k)

\* A request nobody waits for is one of a transfer the backend lost track of.
LateIsLost == \A k \in Reqs : srv[k].id \in hist.lost \/ (k = Len(srv) /\ task.at # "idle")

\* What may still be carried out while the handler works on an upload.
HandlerAlone ==
    \A k \in Reqs :
        /\ upload # NoUpload => \/ srv[k].op \in NoEffect
                                \/ k = Len(srv) /\ task.at \in {"write", "rename"}
        /\ task.at = "open" => (srv[k].id = task.id => k = Len(srv))
        /\ Aborting => \/ srv[k].op \in NoEffect
                       \/ /\ srv[k].id = task.id /\ srv[k].temporary = task.temporary
                          /\ srv[k].op # "open"
                          /\ srv[k].op = "remove" => k = Len(srv) /\ task.at = "remove"

\* How far the file of the upload is.
FileFollows ==
    /\ upload # NoUpload /\ upload.temporary =>
         /\ temp[upload.id] = IF task.at = "write" /\ reply = "ok" THEN upload.received + 1
                              ELSE IF task.at = "rename" /\ reply = "ok" THEN Absent
                              ELSE upload.received
         /\ dest.id = upload.id => dest.renamed
    /\ upload # NoUpload /\ ~upload.temporary =>
         /\ Own(upload.id) /\ temp[upload.id] = Absent
         /\ dest.n = IF task.at = "write" /\ reply = "ok" THEN upload.received + 1
                     ELSE upload.received
    /\ task.at = "rename" /\ reply = "ok" =>
         dest = [id |-> task.id, n |-> Size, renamed |-> TRUE]
    /\ task.at = "open" /\ reply = "ok" /\ task.temporary =>
         temp[task.id] = 0 /\ dest.id # task.id
    /\ task.at = "open" /\ reply = "ok" /\ ~task.temporary =>
         Own(task.id) /\ dest.n = 0 /\ temp[task.id] = Absent
    /\ task.at = "open" /\ reply # "ok" => temp[task.id] = Absent /\ dest.id # task.id
    /\ Aborting /\ task.temporary => (dest.id = task.id => dest.renamed)
    /\ Aborting /\ ~task.temporary => temp[task.id] = Absent
    /\ task.at = "abortclose" /\ ~task.temporary => Own(task.id)
    /\ task.at = "remove" /\ reply = "ok" /\ task.temporary => temp[task.id] = Absent
    /\ task.at = "remove" /\ reply = "ok" /\ ~task.temporary => dest = NoFile

\* A file that is not accounted for is one the backend lost track of.
Handled(i) == upload.id = i \/ (task.id = i /\ (task.at = "open" \/ Aborting))
FilesHandled ==
    /\ \A i \in Transfer \ hist.lost : temp[i] # Absent => Handled(i)
    /\ Stored = Partial => dest.id \in hist.lost \/ Handled(dest.id)
    /\ dest.renamed => dest.n = Size
    /\ dest.id = 0 => dest \in {NoFile, OldFile}

\* The latest transfer is the only one under way in the session.
Recent ==
    /\ \A k \in Reqs : srv[k].id <= hist.started
    /\ dest.id <= hist.started /\ task.id <= hist.started
    /\ \A i \in Transfer : i > hist.started => temp[i] = Absent /\ i \notin hist.done
    /\ task.at \notin {"idle", "dlclose"} => task.id = hist.started
    /\ upload # NoUpload => upload.id = hist.started
    /\ hist.started \in hist.done =>
         /\ dest.id = hist.started /\ dest.n = Size /\ srv = <<>>
         /\ upload = NoUpload /\ task.at = "idle"

(* The messages between browser and session.                                 *)

Ups == 1 .. Len(up)
Downs == 1 .. Len(down)
Begins(m) == m.t \in {"start", "download"}
NoStart == \A k \in Ups : ~Begins(up[k])
HandlerFree == upload = NoUpload /\ task.at \in {"idle", "dlclose"}
Terminal(m) == m.t \in {"complete", "error", "cancelled", "dldone", "dlshort"}

\* The session has yet to hear of the latest transfer, and knows nothing of it.
Unheard ==
    /\ HandlerFree /\ hist.started \in Transfer
    /\ \A k \in Reqs : srv[k].id # hist.started
    /\ dest.id # hist.started /\ temp[hist.started] = Absent
    /\ hist.started \notin hist.done

\* At most one transfer waits to be begun, the latest; nothing else about it is
\* on its way before.
UpFits ==
    /\ ~NoStart => Unheard
    /\ sess = "detached" => up = <<>>
    /\ \A k \in Ups : up[k].id <= hist.started
    /\ \A k \in Ups : up[k].id = hist.started =>
         \A j \in Ups : Begins(up[j]) => j = k
    /\ \A k \in Ups : Begins(up[k]) => up[k].id = hist.started

\* What the browser shows is the latest transfer, until it was told of its end.
Shown ==
    /\ xfer # NoXfer => /\ xfer.id = hist.started /\ xfer.id # 0
                        /\ xfer.kind # "none"
                        /\ xfer.ready => NoStart
    /\ xfer.slicing => xfer.ready /\ xfer.sent < Size
    /\ ~online => xfer = NoXfer /\ down = <<>>
    /\ online => /\ \A k \in Ups : Begins(up[k]) =>
                      xfer.kind = IF up[k].t = "start" THEN "upload" ELSE "download"
                 /\ upload # NoUpload \/ task.at = "open" \/ Aborting => xfer.kind = "upload"
                 /\ task.at \in {"dlopen", "dlread"} => xfer.kind = "download"

DownFits ==
    \A k \in Downs :
        /\ down[k].id <= hist.started
        /\ down[k].t = "data" => /\ xfer.kind = "download" /\ down[k].id = hist.started
                                 /\ down[k].id # 0
        /\ down[k].id = hist.started /\ down[k].id # 0 => NoStart
        /\ Terminal(down[k]) /\ down[k].id = hist.started /\ down[k].id # 0 =>
             HandlerFree /\ \A j \in k + 1 .. Len(down) : down[j].t # "data"
        /\ down[k].t = "complete" => down[k].id \in hist.done
        /\ down[k].t = "dldone" => down[k].n = Size

\* The chunks of a download are numbered, and the browser counts them.
Numbered(k) ==
    down[k].t = "data" =>
        /\ xfer.got < down[k].n
        /\ \A j \in 1 .. k - 1 : down[j].t = "data" => down[j].n < down[k].n
        /\ task.at \in {"dlopen", "dlread"} => down[k].n <= dl.offset
Counted ==
    /\ xfer.own = xfer.got
    /\ \A k \in Downs : Numbered(k)
    /\ online /\ ~NoStart => xfer.got = 0
    /\ online /\ task.at \in {"dlopen", "dlread"} => xfer.got <= dl.offset
    /\ \A s \in hist.saved : s[1] = s[2] /\ (s[3] = "dldone" => s[1] = Size)

Backend ==
    /\ Awaits /\ TaskFits /\ PendingFits /\ LateIsLost /\ HandlerAlone
    /\ FileFollows /\ FilesHandled /\ Recent
Frontend == UpFits /\ Shown /\ DownFits /\ Counted
TransferInv == TypeOK /\ Backend /\ Frontend
-----------------------------------------------------------------------------
\* What the assumption on the constants says of the numbers used.
LEMMA Bounds ==
  /\ Size \in Nat /\ Size > 0 /\ MaxTransfers \in Nat /\ MaxTransfers > 0 /\ MaxDrops \in Nat
  /\ Transfer \subseteq 0..MaxTransfers /\ 0 \notin Transfer /\ 0 \in 0..MaxTransfers
  /\ Absent = Size + 1 /\ 0 \in 0..Size /\ Size \in 0..Absent /\ 0 \in 0..Absent
  /\ 0..Size \subseteq 0..Absent
  /\ \A i \in 0..MaxTransfers : i # 0 => i \in Transfer
BY SftpAssumption DEF Transfer, Absent

\* The empty records are of their types.
LEMMA NoneTyped ==
  /\ NoXfer \in Xfer /\ NoUpload \in UploadState /\ NoDownload \in DownloadState
  /\ Idle \in Task /\ NoFile \in File /\ OldFile \in File
BY Bounds DEF NoXfer, NoUpload, NoDownload, Idle, NoFile, OldFile,
   Xfer, UploadState, DownloadState, Task, File, Absent

\* Sequences: what Append and Tail do to the elements.
LEMMA AppendAt ==
  ASSUME NEW S, NEW q \in Seq(S), NEW e \in S
  PROVE  /\ Append(q, e) \in Seq(S) /\ Len(Append(q, e)) = Len(q) + 1
         /\ Len(q) \in Nat
         /\ \A k \in 1..Len(q) : Append(q, e)[k] = q[k]
         /\ Append(q, e)[Len(q) + 1] = e
OBVIOUS

\* Tail moves every element one place to the front.
LEMMA TailAt ==
  ASSUME NEW S, NEW q \in Seq(S), q # <<>>
  PROVE  /\ Tail(q) \in Seq(S) /\ Len(q) \in Nat \ {0} /\ Len(Tail(q)) = Len(q) - 1
         /\ Head(q) = q[1] /\ Head(q) \in S
         /\ \A k \in 1..Len(Tail(q)) : Tail(q)[k] = q[k + 1] /\ k + 1 \in 1..Len(q)
OBVIOUS

\* The empty queue is a queue of anything.
LEMMA EmptyAt == \A S : <<>> \in Seq(S) /\ Len(<<>>) = 0
OBVIOUS

\* Two messages appended at once are appended one by one.
LEMMA AppendTwo ==
  ASSUME NEW S, NEW q \in Seq(S), NEW e \in S, NEW f \in S
  PROVE  q \o <<e, f>> = Append(Append(q, e), f)
OBVIOUS

\* The fields of the history.
LEMMA HistTyped ==
  ASSUME TypeOK
  PROVE  /\ hist.started \in 0..MaxTransfers /\ hist.drops \in 0..MaxDrops
         /\ hist.done \subseteq Transfer /\ hist.told \subseteq Transfer
         /\ hist.lost \subseteq 0..MaxTransfers
         /\ hist \in History
BY DEF TypeOK, History

\* The changes steps make to the history keep its type.
LEMMA HistUpdates ==
  ASSUME NEW h \in History
  PROVE  /\ \A i \in 0..MaxTransfers : [h EXCEPT !.lost = @ \union {i}] \in History
         /\ \A i, j \in 0..MaxTransfers : [h EXCEPT !.lost = @ \union {i, j}] \in History
         /\ \A i \in Transfer : [h EXCEPT !.done = @ \union {i}] \in History
         /\ \A i \in Transfer : [h EXCEPT !.told = @ \union {i}] \in History
         /\ \A i, j \in 0..Size : \A t \in {"dldone", "dlshort"} :
              [h EXCEPT !.saved = @ \union {<<i, j, t>>}] \in History
         /\ h.drops < MaxDrops => [h EXCEPT !.drops = @ + 1] \in History
         /\ h.started < MaxTransfers => [h EXCEPT !.started = @ + 1] \in History
<1>1. \A i \in 0..MaxTransfers : [h EXCEPT !.lost = @ \union {i}] \in History
  BY DEF History
<1>2. \A i, j \in 0..MaxTransfers : [h EXCEPT !.lost = @ \union {i, j}] \in History
  BY DEF History
<1>3. /\ \A i \in Transfer : [h EXCEPT !.done = @ \union {i}] \in History
      /\ \A i \in Transfer : [h EXCEPT !.told = @ \union {i}] \in History
  BY DEF History
<1>4. \A i, j \in 0..Size : \A t \in {"dldone", "dlshort"} :
        [h EXCEPT !.saved = @ \union {<<i, j, t>>}] \in History
  BY DEF History
<1>5. ASSUME h.drops < MaxDrops PROVE [h EXCEPT !.drops = @ + 1] \in History
  <2>1. h.drops + 1 \in 0..MaxDrops
    BY <1>5, Bounds DEF History
  <2> QED BY <2>1 DEF History
<1>6. ASSUME h.started < MaxTransfers PROVE [h EXCEPT !.started = @ + 1] \in History
  <2>1. h.started + 1 \in 0..MaxTransfers
    BY <1>6, Bounds DEF History
  <2> QED BY <2>1 DEF History
<1> QED BY <1>1, <1>2, <1>3, <1>4, <1>5, <1>6

\* A message to the session is queued.
LEMMA ToSessionTyped ==
  ASSUME TypeOK, NEW m \in UpMessage, ToSession(m)
  PROVE  up' \in Seq(UpMessage)
BY DEF TypeOK, ToSession

\* A message to the browser is queued.
LEMMA ToBrowserTyped ==
  ASSUME TypeOK, NEW m \in DownMessage, ToBrowser(m)
  PROVE  down' \in Seq(DownMessage)
BY DEF TypeOK, ToBrowser

\* A cancel request leaves a transfer and a queue of messages (cancelTransfer).
LEMMA SendCancelTyped ==
  ASSUME TypeOK, NEW x \in Xfer, x.id \in Transfer, SendCancel(x)
  PROVE  xfer' \in Xfer /\ up' \in Seq(UpMessage)
<1>1. CASE x.ready /\ ~x.cancelSent
  <2>1. [x EXCEPT !.cancelSent = TRUE] \in Xfer
    BY DEF Xfer
  <2>2. [t |-> IF x.kind = "upload" THEN "cancel" ELSE "dlcancel",
         id |-> x.id, overwrite |-> FALSE] \in UpMessage
    BY DEF UpMessage
  <2> QED BY <1>1, <2>1, <2>2, ToSessionTyped DEF SendCancel
<1> QED BY <1>1 DEF SendCancel, TypeOK

\* So does sendNextUploadChunk.
LEMMA SendNextTyped ==
  ASSUME TypeOK, NEW x \in Xfer, x.id \in Transfer, SendNextUploadChunk(x)
  PROVE  xfer' \in Xfer /\ up' \in Seq(UpMessage)
<1>1. [x EXCEPT !.endSent = TRUE] \in Xfer /\ [x EXCEPT !.slicing = TRUE] \in Xfer
  BY DEF Xfer
<1>2. [t |-> "end", id |-> x.id, overwrite |-> FALSE] \in UpMessage
  BY DEF UpMessage
<1> QED BY <1>1, <1>2, ToSessionTyped DEF SendNextUploadChunk, TypeOK

\* A transfer that is not NoXfer has a number.
LEMMA XferFacts ==
  ASSUME TransferInv
  PROVE  /\ xfer # NoXfer => xfer.id \in Transfer /\ xfer.id = hist.started
         /\ xfer.kind # "none" => xfer # NoXfer
         /\ xfer.slicing => xfer # NoXfer
         /\ xfer.cancelling => xfer # NoXfer
<1>1. xfer \in Xfer
  BY DEF TransferInv, TypeOK
<1>2. xfer # NoXfer => xfer.id = hist.started /\ xfer.id # 0
  BY DEF TransferInv, Frontend, Shown
<1>3. xfer # NoXfer => xfer.id \in Transfer
  BY <1>1, <1>2, Bounds DEF Xfer
<1> QED BY <1>2, <1>3 DEF NoXfer

\* Transfers and chunks are numbered by natural numbers.
LEMMA NumbersAreNat == Transfer \subseteq Nat /\ 0..MaxTransfers \subseteq Nat /\ 0..Size \subseteq Nat
BY Bounds DEF Transfer

\* The elements of the three queues and the numbers in the state.
LEMMA Elements ==
  ASSUME TypeOK
  PROVE  /\ Len(srv) \in Nat /\ Len(up) \in Nat /\ Len(down) \in Nat
         /\ \A k \in Reqs : /\ srv[k] \in ServerRequest /\ srv[k].id \in Transfer
                            /\ srv[k].id \in Nat /\ srv[k].op \in Op /\ srv[k].temporary \in BOOLEAN
         /\ \A k \in Ups : up[k] \in UpMessage /\ up[k].id \in Transfer /\ up[k].id \in Nat
         /\ \A k \in Downs : /\ down[k] \in DownMessage /\ down[k].id \in Nat /\ down[k].n \in Nat
         /\ dest.id \in Nat /\ task.id \in Nat /\ upload.id \in Nat /\ dl.id \in Nat
         /\ dl.offset \in Nat /\ upload.received \in Nat /\ dest.n \in Nat
         /\ hist.started \in Nat /\ xfer.got \in Nat
<1>1. Len(srv) \in Nat /\ Len(up) \in Nat /\ Len(down) \in Nat
  BY DEF TypeOK
<1>2. \A k \in Reqs : srv[k] \in ServerRequest
  BY DEF TypeOK, Reqs
<1>3. \A k \in Ups : up[k] \in UpMessage
  BY DEF TypeOK, Ups
<1>4. \A k \in Downs : down[k] \in DownMessage
  BY DEF TypeOK, Downs
<1>5. \A r \in ServerRequest : r.id \in Transfer /\ r.id \in Nat /\ r.op \in Op /\ r.temporary \in BOOLEAN
  BY NumbersAreNat DEF ServerRequest
<1>6. \A m \in UpMessage : m.id \in Transfer /\ m.id \in Nat
  BY NumbersAreNat DEF UpMessage
<1>7. \A m \in DownMessage : m.id \in Nat /\ m.n \in Nat
  BY NumbersAreNat DEF DownMessage
<1>8. dest.id \in Nat /\ task.id \in Nat /\ upload.id \in Nat /\ dl.id \in Nat
  BY DEF TypeOK, File, Task, UploadState, DownloadState
<1>9. dl.offset \in Nat /\ upload.received \in Nat /\ dest.n \in Nat
  BY Bounds DEF TypeOK, File, UploadState, DownloadState
<1>10. hist.started \in Nat /\ xfer.got \in Nat
  BY DEF TypeOK, History, Xfer
<1> QED BY <1>1, <1>2, <1>3, <1>4, <1>5, <1>6, <1>7, <1>8, <1>9, <1>10
-----------------------------------------------------------------------------
(* The browser's steps, except those that start a transfer or close the socket. *)

SameBackend ==
    /\ UNCHANGED <<handlerVars, srv, fileVars>>
    /\ hist'.started = hist.started /\ hist'.done = hist.done /\ hist'.lost = hist.lost

Sends ==
    \/ up' = up
    \/ /\ xfer # NoXfer /\ NoStart /\ sess # "detached"
       /\ \E m \in UpMessage : ~Begins(m) /\ m.id = xfer.id /\ up' = Append(up, m)

Reads == down' = down \/ (down # <<>> /\ down' = Tail(down))

\* A transfer that became x is still the one the browser shows.
Still(x) ==
    /\ xfer # NoXfer /\ x.kind = xfer.kind /\ x.id = xfer.id
    /\ x.ready => NoStart
    /\ x.slicing => x.ready /\ x.sent < Size

Ends ==
    /\ xfer # NoXfer /\ xfer' = NoXfer
    /\ down # <<>> /\ down' = Tail(down)
    /\ Terminal(Head(down)) /\ Head(down).id = xfer.id

BrowserStep ==
    /\ SameBackend /\ online /\ online' = online
    /\ Sends /\ Reads
    /\ xfer' = xfer \/ Still(xfer') \/ Ends

\* A step of the browser leaves the backend as it is.
LEMMA BackendSame ==
  ASSUME Backend, SameBackend
  PROVE  Backend'
<1>1. /\ UNCHANGED <<sess, task, upload, dl, reply, srv, dest, temp>>
      /\ hist'.started = hist.started /\ hist'.done = hist.done /\ hist'.lost = hist.lost
  BY DEF SameBackend, handlerVars, fileVars
<1>2. Awaits' /\ TaskFits' /\ LateIsLost' /\ HandlerAlone'
  BY <1>1 DEF Backend, Awaits, TaskFits, LateIsLost, HandlerAlone, Reqs, TaskRequest,
     Aborting
<1>3. PendingFits' /\ FileFollows'
  BY <1>1 DEF Backend, PendingFits, Pending, FileFollows, Own, Reqs, Aborting
<1>4. FilesHandled' /\ Recent'
  BY <1>1 DEF Backend, FilesHandled, Handled, Stored, Recent, Reqs, Aborting
<1> QED BY <1>2, <1>3, <1>4 DEF Backend

\* cancelTransfer sends at most one message of the transfer shown, and goes on showing it.
LEMMA SendCancelStep ==
  ASSUME TypeOK, NEW x \in Xfer, Still(x), xfer.id \in Transfer, SendCancel(x)
  PROVE  /\ xfer' \in Xfer /\ up' \in Seq(UpMessage)
         /\ Sends /\ Still(xfer') /\ xfer'.got = x.got /\ xfer'.own = x.own
<1>1. xfer' \in Xfer /\ up' \in Seq(UpMessage)
  BY SendCancelTyped DEF Still
<1>2. CASE x.ready /\ ~x.cancelSent
  <2>1. xfer' = [x EXCEPT !.cancelSent = TRUE]
    BY <1>2 DEF SendCancel
  <2>2. Still(xfer') /\ xfer'.got = x.got /\ xfer'.own = x.own
    BY <2>1 DEF Still, Xfer
  <2> DEFINE m == [t |-> IF x.kind = "upload" THEN "cancel" ELSE "dlcancel",
                   id |-> x.id, overwrite |-> FALSE]
  <2>3. m \in UpMessage /\ ~Begins(m) /\ m.id = xfer.id
    BY DEF UpMessage, Begins, Still
  <2>4. up' = up \/ (sess # "detached" /\ up' = Append(up, m))
    BY <1>2 DEF SendCancel, ToSession
  <2> HIDE DEF m
  <2>5. Sends
    BY <1>2, <2>3, <2>4 DEF Sends, Still
  <2> QED BY <1>1, <2>2, <2>5
<1>3. CASE ~(x.ready /\ ~x.cancelSent)
  BY <1>1, <1>3 DEF SendCancel, Sends, Still
<1> QED BY <1>2, <1>3

\* So does sendNextUploadChunk.
LEMMA SendNextStep ==
  ASSUME TypeOK, NEW x \in Xfer, Still(x), xfer.id \in Transfer, SendNextUploadChunk(x)
  PROVE  /\ xfer' \in Xfer /\ up' \in Seq(UpMessage)
         /\ Sends /\ Still(xfer') /\ xfer'.got = x.got /\ xfer'.own = x.own
<1>1. xfer' \in Xfer /\ up' \in Seq(UpMessage)
  BY SendNextTyped DEF Still
<1>2. CASE ~x.ready \/ x.cancelling \/ x.awaiting \/ x.endSent
  BY <1>1, <1>2 DEF SendNextUploadChunk, Sends, Still
<1>3. CASE ~(~x.ready \/ x.cancelling \/ x.awaiting \/ x.endSent) /\ x.sent >= Size
  <2>1. xfer' = [x EXCEPT !.endSent = TRUE]
    BY <1>3 DEF SendNextUploadChunk
  <2>2. Still(xfer') /\ xfer'.got = x.got /\ xfer'.own = x.own
    BY <2>1 DEF Still, Xfer
  <2> DEFINE m == [t |-> "end", id |-> x.id, overwrite |-> FALSE]
  <2>3. m \in UpMessage /\ ~Begins(m) /\ m.id = xfer.id
    BY DEF UpMessage, Begins, Still
  <2>4. up' = up \/ (sess # "detached" /\ up' = Append(up, m))
    BY <1>3 DEF SendNextUploadChunk, ToSession
  <2> HIDE DEF m
  <2>5. Sends
    BY <1>3, <2>3, <2>4 DEF Sends, Still
  <2> QED BY <1>1, <2>2, <2>5
<1>4. CASE ~(~x.ready \/ x.cancelling \/ x.awaiting \/ x.endSent) /\ ~(x.sent >= Size)
  <2>1. xfer' = [x EXCEPT !.slicing = TRUE] /\ up' = up
    BY <1>4 DEF SendNextUploadChunk
  <2>2. x.sent < Size
    BY <1>4, Bounds DEF Xfer
  <2>3. Still(xfer') /\ xfer'.got = x.got /\ xfer'.own = x.own
    BY <1>4, <2>1, <2>2 DEF Still, Xfer
  <2> QED BY <1>1, <2>1, <2>3 DEF Sends
<1> QED BY <1>2, <1>3, <1>4

\* What a message that was received tells.
LEMMA ReceivedFacts ==
  ASSUME TransferInv, NEW t, Received(t)
  PROVE  /\ online /\ down # <<>> /\ down' = Tail(down) /\ down' \in Seq(DownMessage)
         /\ Head(down) \in DownMessage /\ Head(down).t = t /\ Head(down) = down[1]
         /\ 1 \in Downs /\ Len(down) \in Nat /\ ~xfer.slicing
         /\ UNCHANGED <<handlerVars, srv, fileVars>>
         /\ xfer # NoXfer /\ Mine => NoStart
<1>1. down \in Seq(DownMessage)
  BY DEF TransferInv, TypeOK
<1>2. /\ online /\ down # <<>> /\ down' = Tail(down) /\ Head(down).t = t /\ ~xfer.slicing
      /\ UNCHANGED <<handlerVars, srv, fileVars>>
  BY DEF Received
<1>3. down' \in Seq(DownMessage) /\ Head(down) \in DownMessage /\ Head(down) = down[1]
      /\ Len(down) \in Nat \ {0}
  BY <1>1, <1>2, TailAt
<1>4. 1 \in Downs
  BY <1>3 DEF Downs
<1>5. xfer # NoXfer /\ Mine => NoStart
  BY <1>3, <1>4 DEF TransferInv, Frontend, Shown, DownFits, Mine
<1> QED BY <1>2, <1>3, <1>4, <1>5

\* The messages to the session under a step of the browser.
LEMMA UpsAfterSend ==
  ASSUME TypeOK, Sends
  PROVE  /\ up' \in Seq(UpMessage) /\ Len(up) \in Nat /\ Len(up') \in Nat
         /\ Ups \subseteq Ups' /\ \A k \in Ups : up'[k] = up[k]
         /\ \A k \in Ups' : k \notin Ups => /\ ~Begins(up'[k]) /\ up'[k].id = xfer.id
                                            /\ xfer # NoXfer /\ NoStart /\ sess # "detached"
         /\ NoStart' <=> NoStart
<1>0. up \in Seq(UpMessage)
  BY DEF TypeOK
<1>1. CASE up' = up
  BY <1>0, <1>1 DEF Ups, NoStart, Begins
<1>2. ASSUME xfer # NoXfer, NoStart, sess # "detached", NEW m \in UpMessage,
             ~Begins(m), m.id = xfer.id, up' = Append(up, m)
      PROVE  /\ up' \in Seq(UpMessage) /\ Len(up) \in Nat /\ Len(up') \in Nat
             /\ Ups \subseteq Ups' /\ \A k \in Ups : up'[k] = up[k]
             /\ \A k \in Ups' : k \notin Ups => /\ ~Begins(up'[k]) /\ up'[k].id = xfer.id
             /\ NoStart'
  <2>1. /\ up' \in Seq(UpMessage) /\ Len(up') = Len(up) + 1 /\ Len(up) \in Nat
        /\ \A k \in 1..Len(up) : up'[k] = up[k]
        /\ up'[Len(up) + 1] = m
    BY <1>0, <1>2, AppendAt
  <2>2. \A k \in Ups' : k \in Ups \/ k = Len(up) + 1
    BY <2>1 DEF Ups
  <2>3. NoStart'
    BY <1>2, <2>1, <2>2 DEF NoStart, Ups, Begins
  <2> QED BY <1>2, <2>1, <2>2, <2>3 DEF Ups
<1> QED BY <1>1, <1>2 DEF Sends

\* The messages to the browser when one was taken from their queue.
LEMMA DownsAfterRead ==
  ASSUME TypeOK, Reads
  PROVE  /\ down' \in Seq(DownMessage) /\ Len(down) \in Nat /\ Len(down') \in Nat
         /\ \E d \in {0, 1} : /\ Len(down') = Len(down) - d
                              /\ \A k \in Downs' : k + d \in Downs /\ down'[k] = down[k + d]
<1>0. down \in Seq(DownMessage)
  BY DEF TypeOK
<1>1. CASE down' = down
  BY <1>0, <1>1 DEF Downs
<1>2. CASE down # <<>> /\ down' = Tail(down)
  <2>1. /\ down' \in Seq(DownMessage) /\ Len(down) \in Nat \ {0} /\ Len(down') = Len(down) - 1
        /\ \A k \in 1..Len(down') : down'[k] = down[k + 1] /\ k + 1 \in 1..Len(down)
    BY <1>0, <1>2, TailAt
  <2> QED BY <2>1 DEF Downs
<1> QED BY <1>1, <1>2 DEF Reads

\* What the browser sends fits what the session may hear.
LEMMA BrowserUpFits ==
  ASSUME TransferInv, BrowserStep
  PROVE  UpFits'
<1>0. SameBackend /\ Sends
  BY DEF BrowserStep
<1>1. /\ UNCHANGED <<sess, task, upload, srv, dest, temp>>
      /\ hist'.started = hist.started /\ hist'.done = hist.done
  BY <1>0 DEF SameBackend, handlerVars, fileVars
<1>2. /\ up' \in Seq(UpMessage) /\ Len(up) \in Nat /\ Len(up') \in Nat
      /\ Ups \subseteq Ups' /\ \A k \in Ups : up'[k] = up[k]
      /\ \A k \in Ups' : k \notin Ups => /\ ~Begins(up'[k]) /\ up'[k].id = xfer.id
                                         /\ xfer # NoXfer /\ NoStart /\ sess # "detached"
      /\ NoStart' <=> NoStart
  BY <1>0, UpsAfterSend DEF TransferInv
<1>3. xfer # NoXfer => xfer.id = hist.started
  BY XferFacts
<1>4. UpFits
  BY DEF TransferInv, Frontend
<1>6. (~NoStart => Unheard)'
  BY <1>1, <1>2, <1>4 DEF UpFits, Unheard, HandlerFree, Reqs
<1>7. (sess = "detached" => up = <<>>)'
  <2>1. CASE up' = up
    BY <1>1, <1>4, <2>1 DEF UpFits
  <2>2. CASE sess # "detached"
    BY <1>1, <2>2
  <2> QED BY <1>0, <2>1, <2>2 DEF Sends
<1>8. \A k \in Ups' : up'[k].id <= hist.started
  BY <1>2, <1>3, <1>4, HistTyped DEF UpFits, TransferInv
<1>9. \A k \in Ups' : Begins(up'[k]) => up'[k].id = hist.started
  BY <1>2, <1>4 DEF UpFits, Begins
<1>10. ASSUME NEW k \in Ups', up'[k].id = hist.started, NEW j \in Ups', Begins(up'[j])
       PROVE  j = k
  <2>1. j \in Ups /\ Begins(up[j]) /\ ~NoStart
    BY <1>2, <1>10 DEF NoStart, Begins
  <2>2. k \in Ups /\ up[k].id = hist.started
    BY <1>2, <1>10, <2>1
  <2> QED BY <1>4, <2>1, <2>2 DEF UpFits
<1> QED BY <1>1, <1>6, <1>7, <1>8, <1>9, <1>10 DEF UpFits, Begins

\* The browser shows the latest transfer, or none.
LEMMA BrowserShown ==
  ASSUME TransferInv, BrowserStep, xfer' \in Xfer
  PROVE  Shown'
<1>0. SameBackend /\ Sends /\ online /\ online' /\ (xfer' = xfer \/ Still(xfer') \/ Ends)
  BY DEF BrowserStep
<1>1. UNCHANGED <<sess, task, upload>> /\ hist'.started = hist.started
  BY <1>0 DEF SameBackend, handlerVars
<1>2. /\ \A k \in Ups : up'[k] = up[k]
      /\ \A k \in Ups' : k \notin Ups => ~Begins(up'[k])
      /\ NoStart' <=> NoStart
  BY <1>0, UpsAfterSend DEF TransferInv
<1>3. Shown
  BY DEF TransferInv, Frontend
<1>4. \A k \in Ups' : Begins(up'[k]) => k \in Ups /\ up'[k] = up[k] /\ ~NoStart
  BY <1>2 DEF NoStart, Begins
<1>5. CASE xfer' = xfer
  BY <1>0, <1>1, <1>2, <1>3, <1>4, <1>5 DEF Shown, Aborting
<1>6. CASE Still(xfer')
  <2>1. xfer'.kind = xfer.kind /\ xfer'.id = xfer.id /\ xfer # NoXfer
        /\ (xfer'.ready => NoStart) /\ (xfer'.slicing => xfer'.ready /\ xfer'.sent < Size)
    BY <1>6 DEF Still
  <2> QED BY <1>0, <1>1, <1>2, <1>3, <1>4, <2>1 DEF Shown, Aborting
<1>7. CASE Ends
  <2>1. /\ xfer # NoXfer /\ xfer' = NoXfer /\ down # <<>> /\ Terminal(Head(down))
        /\ Head(down).id = xfer.id
    BY <1>7 DEF Ends
  <2>2. Head(down) = down[1] /\ 1 \in Downs
    BY <2>1, TailAt DEF TransferInv, TypeOK, Downs
  <2>3. NoStart /\ HandlerFree
    BY <1>3, <2>1, <2>2 DEF TransferInv, Frontend, DownFits, Shown
  <2>4. ~xfer'.slicing
    BY <2>1 DEF NoXfer
  <2> QED BY <1>0, <1>1, <1>2, <1>4, <2>1, <2>3, <2>4 DEF Shown, HandlerFree, Aborting
<1> QED BY <1>0, <1>5, <1>6, <1>7

\* What is on its way to the browser fits what it still shows.
LEMMA BrowserDownFits ==
  ASSUME TransferInv, BrowserStep
  PROVE  DownFits'
<1>0. SameBackend /\ Sends /\ Reads /\ (xfer' = xfer \/ Still(xfer') \/ Ends)
  BY DEF BrowserStep
<1>1. UNCHANGED <<sess, task, upload>> /\ hist'.started = hist.started /\ hist'.done = hist.done
  BY <1>0 DEF SameBackend, handlerVars
<1>2. NoStart' <=> NoStart
  BY <1>0, UpsAfterSend DEF TransferInv
<1>3. DownFits
  BY DEF TransferInv, Frontend
<1>4. Len(down) \in Nat /\ Len(down') \in Nat
  BY <1>0, DownsAfterRead DEF TransferInv
<1>5. PICK d \in {0, 1} : /\ Len(down') = Len(down) - d
                          /\ \A k \in Downs' : k + d \in Downs /\ down'[k] = down[k + d]
  BY <1>0, DownsAfterRead DEF TransferInv
<1>6. ASSUME NEW k \in Downs', down'[k].t = "data" PROVE xfer'.kind = "download"
  <2>1. k + d \in Downs /\ down[k + d].t = "data" /\ xfer.kind = "download"
    BY <1>3, <1>5, <1>6 DEF DownFits
  <2>2. CASE Ends
    <3>1. /\ xfer # NoXfer /\ xfer' = NoXfer /\ down # <<>> /\ Terminal(Head(down))
          /\ Head(down).id = xfer.id /\ down' = Tail(down)
      BY <2>2 DEF Ends
    <3>2. Head(down) = down[1] /\ 1 \in Downs /\ Len(down') = Len(down) - 1
      BY <3>1, TailAt DEF TransferInv, TypeOK, Downs
    <3>3. d = 1
      BY <1>4, <1>5, <3>2
    <3>4. xfer.id = hist.started /\ xfer.id # 0
      BY <3>1 DEF TransferInv, Frontend, Shown
    <3>5. \A j \in 2..Len(down) : down[j].t # "data"
      BY <1>3, <3>1, <3>2, <3>4 DEF DownFits
    <3>6. k + 1 \in 2..Len(down)
      BY <1>4, <1>5, <3>3 DEF Downs
    <3> QED BY <2>1, <3>3, <3>5, <3>6
  <2> QED BY <1>0, <2>1, <2>2 DEF Still
<1>7. ASSUME NEW k \in Downs', NEW j \in (k + 1 .. Len(down))', Terminal(down'[k]),
             down'[k].id = hist.started, down'[k].id # 0
      PROVE  down'[j].t # "data"
  <2>1. k + d \in Downs /\ j + d \in k + d + 1 .. Len(down) /\ j \in Downs'
    BY <1>4, <1>5, <1>7 DEF Downs
  <2> QED BY <1>3, <1>5, <1>7, <2>1 DEF DownFits, Terminal
<1>8. \A k \in Downs' : k + d \in Downs /\ down'[k] = down[k + d]
  BY <1>5
<1> QED BY <1>1, <1>2, <1>3, <1>6, <1>7, <1>8 DEF DownFits, Terminal, HandlerFree

\* The chunks on their way are those the browser has yet to count.
LEMMA BrowserCounted ==
  ASSUME TransferInv, BrowserStep, hist'.saved = hist.saved,
         \/ xfer' = NoXfer
         \/ xfer'.got = xfer.got /\ xfer'.own = xfer.own
  PROVE  Counted'
<1>0. SameBackend /\ Sends /\ Reads /\ online
  BY DEF BrowserStep
<1>1. UNCHANGED <<task, dl>>
  BY <1>0 DEF SameBackend, handlerVars
<1>2. NoStart' <=> NoStart
  BY <1>0, UpsAfterSend DEF TransferInv
<1>3. Counted
  BY DEF TransferInv, Frontend
<1>4. Len(down) \in Nat /\ Len(down') \in Nat
  BY <1>0, DownsAfterRead DEF TransferInv
<1>5. PICK d \in {0, 1} : /\ Len(down') = Len(down) - d
                          /\ \A k \in Downs' : k + d \in Downs /\ down'[k] = down[k + d]
  BY <1>0, DownsAfterRead DEF TransferInv
<1>6. xfer' = NoXfer => xfer'.got = 0 /\ xfer'.own = 0 /\ xfer'.kind = "none"
  BY DEF NoXfer
<1>7. DownFits'
  BY BrowserDownFits
<1>8. ASSUME NEW k \in Downs', down'[k].t = "data"
      PROVE  /\ xfer'.got < down'[k].n
             /\ \A j \in 1 .. k - 1 : down'[j].t = "data" => down'[j].n < down'[k].n
             /\ task.at \in {"dlopen", "dlread"} => down'[k].n <= dl.offset
  <2>1. PICK i \in Downs : i = k + d /\ down'[k] = down[i]
    BY <1>5
  <2>2. xfer'.got = xfer.got
    BY <1>6, <1>7, <1>8 DEF DownFits
  <2>3. \A j \in 1 .. k - 1 : j \in Downs' /\ j + d \in 1 .. i - 1 /\ down'[j] = down[j + d]
    BY <1>4, <1>5, <2>1 DEF Downs
  <2>4. Numbered(i)
    BY <1>3 DEF Counted
  <2>5. /\ xfer.got < down[i].n
        /\ \A j \in 1 .. i - 1 : down[j].t = "data" => down[j].n < down[i].n
        /\ task.at \in {"dlopen", "dlread"} => down[i].n <= dl.offset
    BY <1>8, <2>1, <2>4 DEF Numbered
  <2>6. \A j \in 1 .. k - 1 : down'[j].t = "data" => down'[j].n < down'[k].n
    BY <2>1, <2>3, <2>5
  <2> QED BY <2>1, <2>2, <2>5, <2>6
<1>9. dl.offset \in Nat
  BY DEF TransferInv, TypeOK, DownloadState
<1>10. online /\ task.at \in {"dlopen", "dlread"} => xfer'.got <= dl.offset
  BY <1>0, <1>3, <1>6, <1>9 DEF Counted
<1>11. online' = online
  BY DEF BrowserStep
<1>12. (xfer.own = xfer.got)' /\ (online' /\ ~NoStart' => xfer'.got = 0)
  BY <1>0, <1>2, <1>3, <1>6 DEF Counted
<1> QED BY <1>1, <1>3, <1>8, <1>10, <1>11, <1>12 DEF Counted, Numbered

\* The parts the browser's step leaves to show, and what they give.
BrowserGives ==
    /\ BrowserStep
    /\ xfer' \in Xfer /\ up' \in Seq(UpMessage) /\ down' \in Seq(DownMessage) /\ hist' \in History

\* These four make a step of the browser keep the invariant.
LEMMA BrowserInv ==
  ASSUME TransferInv, BrowserGives, Counted'
  PROVE  TransferInv'
<1>1. UNCHANGED <<online, sess, task, upload, dl, reply, srv, dest, temp>>
  BY DEF BrowserGives, BrowserStep, SameBackend, handlerVars, fileVars
<1>2. TypeOK'
  BY <1>1 DEF TransferInv, TypeOK, BrowserGives
<1>3. Backend'
  BY BackendSame DEF TransferInv, BrowserGives, BrowserStep
<1>4. UpFits' /\ Shown' /\ DownFits'
  BY BrowserUpFits, BrowserShown, BrowserDownFits DEF BrowserGives
<1> QED BY <1>2, <1>3, <1>4 DEF TransferInv, Frontend

\* The cancel button (cancelTransfer).
LEMMA CancelTransferInv ==
  ASSUME TransferInv, CancelTransfer
  PROVE  TransferInv'
<1> DEFINE x == [xfer EXCEPT !.cancelling = TRUE]
<1>1. /\ online /\ xfer # NoXfer /\ SendCancel(x)
      /\ UNCHANGED <<online, down, handlerVars, srv, fileVars, hist>>
  BY DEF CancelTransfer
<1>2. TypeOK /\ xfer \in Xfer /\ xfer.id \in Transfer /\ Shown
  BY <1>1, XferFacts DEF TransferInv, TypeOK, Frontend
<1>3. x \in Xfer /\ Still(x) /\ x.got = xfer.got /\ x.own = xfer.own
  BY <1>1, <1>2 DEF Xfer, Still, Shown
<1> HIDE DEF x
<1>4. /\ xfer' \in Xfer /\ up' \in Seq(UpMessage)
      /\ Sends /\ Still(xfer') /\ xfer'.got = x.got /\ xfer'.own = x.own
  BY <1>1, <1>2, <1>3, SendCancelStep
<1>5. BrowserStep
  BY <1>1, <1>4 DEF BrowserStep, SameBackend, Reads
<1>6. Counted'
  BY <1>1, <1>3, <1>4, <1>5, BrowserCounted
<1> QED BY <1>1, <1>2, <1>4, <1>5, <1>6, BrowserInv DEF BrowserGives, TypeOK

\* The slice of a file was read and is sent.
LEMMA SliceReadInv ==
  ASSUME TransferInv, SliceRead
  PROVE  TransferInv'
<1>1. /\ online /\ xfer.slicing
      /\ UNCHANGED <<online, down, handlerVars, srv, fileVars, hist>>
  BY DEF SliceRead
<1>2. /\ TypeOK /\ xfer \in Xfer /\ xfer.id \in Transfer /\ Shown /\ xfer # NoXfer /\ NoStart
      /\ xfer.sent < Size
  BY <1>1, XferFacts DEF TransferInv, TypeOK, Frontend, Shown
<1>3. /\ xfer' \in Xfer /\ up' \in Seq(UpMessage)
      /\ Sends /\ Still(xfer') /\ xfer'.got = xfer.got /\ xfer'.own = xfer.own
  <2>1. CASE xfer.cancelling
    <3>1. xfer' = [xfer EXCEPT !.slicing = FALSE] /\ up' = up
      BY <2>1 DEF SliceRead
    <3> QED BY <1>2, <3>1 DEF Xfer, Sends, Still, Shown, TypeOK
  <2>2. CASE ~xfer.cancelling
    <3> DEFINE m == [t |-> "chunk", id |-> xfer.id, overwrite |-> FALSE]
    <3>1. xfer' = [xfer EXCEPT !.slicing = FALSE, !.sent = @ + 1, !.awaiting = TRUE]
          /\ ToSession(m)
      BY <2>2 DEF SliceRead
    <3>2. m \in UpMessage /\ ~Begins(m) /\ m.id = xfer.id
      BY <1>2 DEF UpMessage, Begins
    <3>3. xfer.sent + 1 \in 0..Size
      BY <1>2, Bounds DEF Xfer
    <3>4. xfer' \in Xfer /\ xfer'.got = xfer.got /\ xfer'.own = xfer.own
          /\ Still(xfer')
      BY <1>2, <3>1, <3>3 DEF Xfer, Still, Shown
    <3> HIDE DEF m
    <3>5. Sends
      BY <1>2, <3>1, <3>2 DEF Sends, ToSession
    <3>6. up' \in Seq(UpMessage)
      BY <1>2, <3>5, UpsAfterSend
    <3> QED BY <3>4, <3>5, <3>6
  <2> QED BY <2>1, <2>2
<1>5. BrowserStep
  BY <1>1, <1>3 DEF BrowserStep, SameBackend, Reads
<1>6. Counted'
  BY <1>1, <1>3, <1>5, BrowserCounted
<1> QED BY <1>1, <1>2, <1>3, <1>5, <1>6, BrowserInv DEF BrowserGives, TypeOK

\* A message the browser ignores, or that only changes its transfer to x.
LEMMA QuietHandler ==
  ASSUME TransferInv, NEW t, Received(t), UNCHANGED <<online, hist>>,
         xfer' \in Xfer, up' \in Seq(UpMessage), Sends,
         xfer' = xfer \/ Still(xfer') \/ Ends,
         \/ xfer' = NoXfer
         \/ xfer'.got = xfer.got /\ xfer'.own = xfer.own
  PROVE  TransferInv'
<1>1. /\ online /\ down # <<>> /\ down' = Tail(down) /\ down' \in Seq(DownMessage)
      /\ UNCHANGED <<handlerVars, srv, fileVars>>
  BY ReceivedFacts
<1>2. BrowserStep
  BY <1>1 DEF BrowserStep, SameBackend, Reads
<1>3. Counted'
  BY <1>2, BrowserCounted
<1> QED BY <1>1, <1>2, <1>3, BrowserInv DEF BrowserGives, TransferInv, TypeOK

\* upload ready: the first slice is read, or a cancel that waited is sent.
LEMMA HandleUploadReadyInv ==
  ASSUME TransferInv, HandleUploadReady
  PROVE  TransferInv'
<1>1. Received("ready") /\ UNCHANGED <<online, hist>>
  BY DEF HandleUploadReady
<1>2. TypeOK /\ xfer \in Xfer /\ Shown
  BY DEF TransferInv, TypeOK, Frontend
<1>3. CASE xfer.kind = "upload" /\ Mine /\ xfer.sent = 0
  <2> DEFINE x == [xfer EXCEPT !.ready = TRUE]
  <2>1. SendCancel(x) \/ SendNextUploadChunk(x)
    BY <1>3 DEF HandleUploadReady
  <2>2. xfer # NoXfer /\ xfer.id \in Transfer /\ NoStart /\ ~xfer.slicing
    BY <1>1, <1>3, XferFacts, ReceivedFacts
  <2>3. x \in Xfer /\ Still(x) /\ x.got = xfer.got /\ x.own = xfer.own
    BY <1>2, <2>2 DEF Xfer, Still
  <2> HIDE DEF x
  <2>4. /\ xfer' \in Xfer /\ up' \in Seq(UpMessage)
        /\ Sends /\ Still(xfer') /\ xfer'.got = x.got /\ xfer'.own = x.own
    BY <1>2, <2>1, <2>2, <2>3, SendCancelStep, SendNextStep
  <2> QED BY <1>1, <2>3, <2>4, QuietHandler
<1>4. CASE ~(xfer.kind = "upload" /\ Mine /\ xfer.sent = 0)
  <2>1. xfer' = xfer /\ up' = up
    BY <1>4 DEF HandleUploadReady
  <2> QED BY <1>1, <1>2, <2>1, QuietHandler DEF Sends, TypeOK
<1> QED BY <1>3, <1>4

\* upload progress: the next slice, or the end of the upload.
LEMMA HandleUploadProgressInv ==
  ASSUME TransferInv, HandleUploadProgress
  PROVE  TransferInv'
<1>1. Received("progress") /\ UNCHANGED <<online, hist>>
  BY DEF HandleUploadProgress
<1>2. TypeOK /\ xfer \in Xfer /\ Shown
  BY DEF TransferInv, TypeOK, Frontend
<1>3. CASE xfer.kind = "upload" /\ Mine
  <2> DEFINE x == [xfer EXCEPT !.awaiting = FALSE]
  <2>1. SendCancel(x) \/ SendNextUploadChunk(x)
    BY <1>3 DEF HandleUploadProgress
  <2>2. xfer # NoXfer /\ xfer.id \in Transfer /\ NoStart /\ ~xfer.slicing
    BY <1>1, <1>3, XferFacts, ReceivedFacts
  <2>3. x \in Xfer /\ Still(x) /\ x.got = xfer.got /\ x.own = xfer.own
    BY <1>2, <2>2 DEF Xfer, Still
  <2> HIDE DEF x
  <2>4. /\ xfer' \in Xfer /\ up' \in Seq(UpMessage)
        /\ Sends /\ Still(xfer') /\ xfer'.got = x.got /\ xfer'.own = x.own
    BY <1>2, <2>1, <2>2, <2>3, SendCancelStep, SendNextStep
  <2> QED BY <1>1, <2>3, <2>4, QuietHandler
<1>4. CASE ~(xfer.kind = "upload" /\ Mine)
  <2>1. xfer' = xfer /\ up' = up
    BY <1>4 DEF HandleUploadProgress
  <2> QED BY <1>1, <1>2, <2>1, QuietHandler DEF Sends, TypeOK
<1> QED BY <1>3, <1>4

\* download start: the size is known, or a cancel that waited is sent.
LEMMA HandleDownloadStartInv ==
  ASSUME TransferInv, HandleDownloadStart
  PROVE  TransferInv'
<1>1. Received("dlstart") /\ UNCHANGED <<online, hist>>
  BY DEF HandleDownloadStart
<1>2. TypeOK /\ xfer \in Xfer /\ Shown
  BY DEF TransferInv, TypeOK, Frontend
<1>3. CASE xfer.kind = "download" /\ Mine
  <2> DEFINE x == [xfer EXCEPT !.ready = TRUE]
  <2>1. SendCancel(x) \/ (xfer' = x /\ up' = up)
    BY <1>3 DEF HandleDownloadStart
  <2>2. xfer # NoXfer /\ xfer.id \in Transfer /\ NoStart /\ ~xfer.slicing
    BY <1>1, <1>3, XferFacts, ReceivedFacts
  <2>3. x \in Xfer /\ Still(x) /\ x.got = xfer.got /\ x.own = xfer.own
    BY <1>2, <2>2 DEF Xfer, Still
  <2> HIDE DEF x
  <2>4. /\ xfer' \in Xfer /\ up' \in Seq(UpMessage)
        /\ Sends /\ Still(xfer') /\ xfer'.got = x.got /\ xfer'.own = x.own
    <3>1. CASE SendCancel(x)
      BY <1>2, <3>1, <2>2, <2>3, SendCancelStep
    <3>2. CASE xfer' = x /\ up' = up
      BY <1>2, <2>3, <3>2 DEF Sends, TypeOK
    <3> QED BY <2>1, <3>1, <3>2
  <2> QED BY <1>1, <2>3, <2>4, QuietHandler
<1>4. CASE ~(xfer.kind = "download" /\ Mine)
  <2>1. xfer' = xfer /\ up' = up
    BY <1>4 DEF HandleDownloadStart
  <2> QED BY <1>1, <1>2, <2>1, QuietHandler DEF Sends, TypeOK
<1> QED BY <1>3, <1>4

\* A cancelled transfer or an error ends what is shown, if it is about it.
LEMMA HandleTransferEndsInv ==
  ASSUME TransferInv, HandleTransferCancelled \/ HandleServerError
  PROVE  TransferInv'
<1>0. TypeOK /\ xfer \in Xfer /\ up \in Seq(UpMessage)
  BY DEF TransferInv, TypeOK
<1>1. \E t \in {"cancelled", "error"} :
        /\ Received(t) /\ UNCHANGED <<online, up, hist>>
        /\ xfer' = xfer \/ (xfer' = NoXfer /\ Mine)
  <2>1. CASE HandleTransferCancelled
    BY <2>1 DEF HandleTransferCancelled
  <2>2. CASE HandleServerError
    BY <2>2 DEF HandleServerError
  <2> QED BY <2>1, <2>2
<1> PICK t \in {"cancelled", "error"} :
        /\ Received(t) /\ UNCHANGED <<online, up, hist>>
        /\ xfer' = xfer \/ (xfer' = NoXfer /\ Mine)
  BY <1>1
<1>2. CASE xfer' = xfer
  BY <1>0, <1>1, <1>2, QuietHandler DEF Sends
<1>3. CASE xfer # NoXfer /\ xfer' = NoXfer /\ Mine
  <2>1. down # <<>> /\ down' = Tail(down) /\ Head(down).t = t
    BY <1>1, ReceivedFacts
  <2>2. Ends
    BY <1>3, <2>1 DEF Ends, Terminal, Mine
  <2> QED BY <1>0, <1>1, <1>3, <2>2, NoneTyped, QuietHandler DEF Sends
<1> QED BY <1>1, <1>2, <1>3

\* upload complete: what the browser reports was put in place before (DownFits).
LEMMA HandleUploadCompleteInv ==
  ASSUME TransferInv, HandleUploadComplete
  PROVE  TransferInv'
<1>0. TypeOK /\ xfer \in Xfer /\ up \in Seq(UpMessage) /\ hist \in History
  BY DEF TransferInv, TypeOK
<1>1. Received("complete") /\ UNCHANGED <<online, up>>
  BY DEF HandleUploadComplete
<1>2. CASE xfer.kind = "upload" /\ Mine
  <2>1. xfer' = NoXfer /\ hist' = [hist EXCEPT !.told = @ \union {xfer.id}]
    BY <1>2 DEF HandleUploadComplete
  <2>2. /\ online /\ down # <<>> /\ down' = Tail(down) /\ down' \in Seq(DownMessage)
        /\ Head(down).t = "complete" /\ UNCHANGED <<handlerVars, srv, fileVars>>
    BY <1>1, ReceivedFacts
  <2>3. xfer # NoXfer /\ xfer.id \in Transfer
    BY <1>2, XferFacts
  <2>4. hist' \in History
    BY <1>0, <2>1, <2>3, HistUpdates
  <2>5. /\ hist'.started = hist.started /\ hist'.done = hist.done /\ hist'.lost = hist.lost
        /\ hist'.saved = hist.saved
    BY <1>0, <2>1 DEF History
  <2>6. BrowserStep
    BY <1>1, <1>2, <2>1, <2>2, <2>3, <2>5
       DEF BrowserStep, SameBackend, Sends, Reads, Ends, Terminal, Mine
  <2>7. Counted'
    BY <2>1, <2>5, <2>6, BrowserCounted
  <2> QED BY <1>0, <1>1, <2>1, <2>2, <2>4, <2>6, <2>7, NoneTyped, BrowserInv DEF
             BrowserGives
<1>3. CASE ~(xfer.kind = "upload" /\ Mine)
  <2>1. xfer' = xfer /\ hist' = hist
    BY <1>3 DEF HandleUploadComplete
  <2> QED BY <1>0, <1>1, <2>1, QuietHandler DEF Sends
<1> QED BY <1>2, <1>3

\* download done: the counter shows that every chunk the session sent was received.
LEMMA HandleDownloadDoneInv ==
  ASSUME TransferInv, HandleDownloadDone
  PROVE  TransferInv'
<1>0. TypeOK /\ xfer \in Xfer /\ up \in Seq(UpMessage) /\ hist \in History /\ Counted
  BY DEF TransferInv, TypeOK, Frontend
<1>1. PICK t \in {"dldone", "dlshort"} : Received(t) /\ UNCHANGED <<online, up>>
  BY DEF HandleDownloadDone
<1>2. CASE xfer.kind = "download" /\ Mine
  <2>1. /\ xfer' = NoXfer
        /\ hist' = IF xfer.cancelling \/ xfer.got # Head(down).n THEN hist
                   ELSE [hist EXCEPT !.saved = @ \union {<<xfer.own, xfer.got, Head(down).t>>}]
    BY <1>2 DEF HandleDownloadDone
  <2>2. /\ online /\ down # <<>> /\ down' = Tail(down) /\ down' \in Seq(DownMessage)
        /\ Head(down).t = t /\ UNCHANGED <<handlerVars, srv, fileVars>>
        /\ Head(down) = down[1] /\ 1 \in Downs
    BY <1>1, ReceivedFacts
  <2>3. xfer # NoXfer /\ xfer.own \in 0..Size /\ xfer.got \in 0..Size
    BY <1>0, <1>2, XferFacts DEF Xfer
  <2>4. hist' \in History
    BY <1>0, <2>1, <2>2, <2>3, HistUpdates
  <2>5. /\ hist'.started = hist.started /\ hist'.done = hist.done /\ hist'.lost = hist.lost
    BY <1>0, <2>1 DEF History
  <2>6. BrowserStep
    BY <1>1, <1>2, <2>1, <2>2, <2>3, <2>5
       DEF BrowserStep, SameBackend, Sends, Reads, Ends, Terminal, Mine
  <2>7. (t = "dldone" => Head(down).n = Size) /\ xfer.own = xfer.got
    BY <1>0, <2>2 DEF TransferInv, Frontend, DownFits, Counted
  <2>8. \A s \in hist'.saved : s[1] = s[2] /\ (s[3] = "dldone" => s[1] = Size)
    <3>1. \/ hist'.saved = hist.saved
          \/ /\ hist'.saved = hist.saved \union {<<xfer.own, xfer.got, t>>}
             /\ xfer.got = Head(down).n
      BY <1>0, <2>1, <2>2 DEF History
    <3> QED BY <1>0, <2>7, <3>1 DEF Counted
  <2>9. Counted'
    <3>1. DownFits'
      BY <2>6, BrowserDownFits
    <3>2. \A k \in Downs' : down'[k].t # "data"
      BY <2>1, <3>1 DEF DownFits, NoXfer
    <3>3. xfer'.own = 0 /\ xfer'.got = 0
      BY <2>1 DEF NoXfer
    <3>4. dl'.offset \in Nat
      BY <2>2 DEF handlerVars, TransferInv, TypeOK, DownloadState
    <3> QED BY <2>8, <3>2, <3>3, <3>4 DEF Counted, Numbered
  <2> QED BY <1>0, <1>1, <2>1, <2>2, <2>4, <2>6, <2>9, NoneTyped, BrowserInv DEF
             BrowserGives
<1>3. CASE ~(xfer.kind = "download" /\ Mine)
  <2>1. xfer' = xfer /\ hist' = hist
    BY <1>3 DEF HandleDownloadDone
  <2> QED BY <1>0, <1>1, <2>1, QuietHandler DEF Sends
<1> QED BY <1>2, <1>3

\* A binary chunk is counted; chunks of a cancelled download are dropped.
LEMMA HandleBinaryInv ==
  ASSUME TransferInv, HandleBinary
  PROVE  TransferInv'
<1>0. TypeOK /\ xfer \in Xfer /\ up \in Seq(UpMessage) /\ hist \in History /\ Counted /\ Shown
  BY DEF TransferInv, TypeOK, Frontend
<1>1. Received("data") /\ UNCHANGED <<online, up, hist>>
  BY DEF HandleBinary
<1>2. CASE ~(xfer.kind # "download" \/ xfer.cancelling)
  <2>2. /\ online /\ down # <<>> /\ down' = Tail(down) /\ down' \in Seq(DownMessage)
        /\ Head(down).t = "data" /\ UNCHANGED <<handlerVars, srv, fileVars>>
        /\ Head(down) = down[1] /\ 1 \in Downs /\ Head(down) \in DownMessage
    BY <1>1, ReceivedFacts
  <2>3. xfer # NoXfer /\ xfer.id = hist.started
    BY <1>2, XferFacts
  <2>4. Mine /\ xfer.got < Head(down).n /\ NoStart
    BY <1>0, <2>2, <2>3 DEF TransferInv, Frontend, DownFits, Counted, Numbered, Mine
  <2>5. xfer' = [xfer EXCEPT !.got = @ + 1, !.own = @ + 1]
    BY <1>2, <2>4 DEF HandleBinary
  <2>6. xfer.got + 1 \in 0..Size /\ xfer.own + 1 \in 0..Size /\ xfer.own = xfer.got
        /\ xfer.got + 1 <= Head(down).n /\ Head(down).n \in 0..Size /\ xfer.got \in Nat
    <3>1. xfer.got \in Nat /\ Head(down).n \in 0..Size /\ xfer.own = xfer.got
      BY <1>0, <2>2 DEF Xfer, DownMessage, Counted
    <3> QED BY <2>4, <3>1, Bounds
  <2>7. xfer' \in Xfer /\ Still(xfer') /\ xfer'.got = xfer.got + 1 /\ xfer'.own = xfer.own + 1
    BY <1>0, <2>3, <2>4, <2>5, <2>6 DEF Xfer, Still, Shown
  <2>8. BrowserStep
    BY <1>1, <2>2, <2>7 DEF BrowserStep, SameBackend, Sends, Reads
  <2>9. Counted'
    <3>1. /\ Len(down) \in Nat \ {0} /\ Len(down') = Len(down) - 1
          /\ \A k \in 1..Len(down') : down'[k] = down[k + 1] /\ k + 1 \in 1..Len(down)
      BY <1>0, <2>2, TailAt DEF TypeOK
    <3>2. ASSUME NEW k \in Downs', down'[k].t = "data"
          PROVE  /\ xfer'.got < down'[k].n
                 /\ \A j \in 1 .. k - 1 : down'[j].t = "data" => down'[j].n < down'[k].n
                 /\ task.at \in {"dlopen", "dlread"} => down'[k].n <= dl.offset
      <4>1. PICK i \in Downs : i = k + 1 /\ down'[k] = down[i]
        BY <3>1 DEF Downs
      <4>2. down[i].n \in Nat /\ 1 \in 1 .. i - 1
            /\ \A j \in 1 .. k - 1 : j + 1 \in 1 .. i - 1 /\ down'[j] = down[j + 1]
        <5>1. down[i] \in DownMessage
          BY <1>0 DEF Downs, TypeOK
        <5>2. down[i].n \in Nat
          BY <5>1, Bounds DEF DownMessage
        <5>3. 1 \in 1 .. i - 1
              /\ \A j \in 1 .. k - 1 : j + 1 \in 1 .. i - 1 /\ down'[j] = down[j + 1]
          BY <3>1, <4>1 DEF Downs
        <5> QED BY <5>2, <5>3
      <4>3. Numbered(i)
        BY <1>0 DEF Counted
      <4>4. /\ down[1].n < down[i].n
            /\ \A j \in 1 .. i - 1 : down[j].t = "data" => down[j].n < down[i].n
            /\ task.at \in {"dlopen", "dlread"} => down[i].n <= dl.offset
        BY <2>2, <3>2, <4>1, <4>2, <4>3 DEF Numbered
      <4>5. xfer'.got < down[i].n
        BY <2>2, <2>6, <2>7, <4>2, <4>4
      <4> QED BY <4>1, <4>2, <4>4, <4>5
    <3>3. task.at \in {"dlopen", "dlread"} => xfer'.got <= dl.offset
      <4>1. dl.offset \in Nat
        BY <1>0 DEF TypeOK, DownloadState
      <4>2. Numbered(1)
        BY <1>0, <2>2 DEF Counted
      <4>3. task.at \in {"dlopen", "dlread"} => Head(down).n <= dl.offset
        BY <2>2, <4>2 DEF Numbered
      <4> QED BY <2>6, <2>7, <4>1, <4>3
    <3>5. NoStart'
      BY <1>1, <2>4 DEF NoStart, Ups, Begins
    <3>6. UNCHANGED <<task, dl>>
      BY <2>2 DEF handlerVars
    <3> QED BY <1>0, <1>1, <2>6, <2>7, <3>2, <3>3, <3>5, <3>6 DEF Counted, Numbered
  <2> QED BY <1>0, <1>1, <2>2, <2>7, <2>8, <2>9, BrowserInv DEF BrowserGives
<1>3. CASE xfer.kind # "download" \/ xfer.cancelling
  <2>1. xfer' = xfer
    BY <1>3 DEF HandleBinary
  <2> QED BY <1>0, <1>1, <2>1, QuietHandler DEF Sends
<1> QED BY <1>2, <1>3
-----------------------------------------------------------------------------
(* The user starts a transfer; the browser loses its socket.                 *)

\* While the browser shows nothing the session works on no transfer.
LEMMA NothingShown ==
  ASSUME TransferInv, online, xfer = NoXfer
  PROVE  HandlerFree /\ NoStart /\ \A k \in Downs : down[k].t # "data"
<1>1. xfer.kind = "none" /\ task \in Task /\ TaskFits /\ Awaits /\ Shown /\ DownFits
  BY DEF NoXfer, TransferInv, TypeOK, Backend, Frontend
<1>2. \A k \in Downs : down[k].t # "data"
  BY <1>1 DEF DownFits
<1>3. NoStart
  BY <1>1 DEF Shown, NoStart
<1>4. upload = NoUpload /\ task.at \notin {"open", "abortclose", "remove", "dlopen", "dlread"}
  BY <1>1 DEF Shown, Aborting
<1>5. task.at \in {"write", "close", "rename"} => FALSE
  <2>1. upload.id = 0
    BY <1>4 DEF NoUpload
  <2> QED BY <1>1, <2>1, Bounds DEF TaskFits, Awaits
<1>6. task.at \in {"idle", "dlclose"}
  BY <1>1, <1>4, <1>5 DEF Task, Op
<1> QED BY <1>2, <1>3, <1>4, <1>6 DEF HandlerFree

\* A new transfer takes the next number, which nothing in the system knows yet.
LEMMA StartInv ==
  ASSUME TransferInv, online, xfer = NoXfer, hist.started < MaxTransfers,
         NEW kind \in {"upload", "download"}, NEW t \in {"start", "download"},
         kind = IF t = "start" THEN "upload" ELSE "download",
         NEW b \in BOOLEAN,
         xfer' = [NoXfer EXCEPT !.kind = kind, !.id = hist.started + 1],
         ToSession([t |-> t, id |-> hist.started + 1, overwrite |-> b]),
         hist' = [hist EXCEPT !.started = @ + 1],
         UNCHANGED <<online, down, handlerVars, srv, fileVars>>
  PROVE  TransferInv'
<1>0. /\ TypeOK /\ Backend /\ HandlerFree /\ NoStart /\ hist \in History
      /\ \A k \in Downs : down[k].t # "data"
  BY NothingShown DEF TransferInv, TypeOK
<1>1. UNCHANGED <<online, down, sess, task, upload, dl, reply, srv, dest, temp>>
  BY DEF handlerVars, fileVars
<1> DEFINE s == hist.started + 1
<1>2. s \in Transfer /\ s \in 0..MaxTransfers /\ hist.started \in Nat
  BY <1>0, Bounds, HistTyped DEF Transfer
<1>3. /\ hist' \in History /\ hist'.started = s /\ hist'.done = hist.done
      /\ hist'.lost = hist.lost /\ hist'.saved = hist.saved
  BY <1>0, HistUpdates, ZenonT(40) DEF History
<1>4. /\ xfer' \in Xfer /\ xfer'.kind = kind /\ xfer'.id = s /\ ~xfer'.ready /\ ~xfer'.slicing
      /\ xfer'.own = 0 /\ xfer'.got = 0
  BY <1>2, NoneTyped DEF Xfer, NoXfer
<1> DEFINE m == [t |-> t, id |-> s, overwrite |-> b]
<1>5. m \in UpMessage /\ m.t = t /\ m.id = s /\ Begins(m)
  BY <1>2 DEF UpMessage, Begins
<1>6. up' = up \/ (sess # "detached" /\ up' = Append(up, m))
  BY DEF ToSession
<1> HIDE DEF m
<1>7. /\ up' \in Seq(UpMessage) /\ Len(up) \in Nat
      /\ \A k \in Ups' : (k \in Ups /\ up'[k] = up[k]) \/ (k = Len(up) + 1 /\ up'[k] = m)
  <2>1. up \in Seq(UpMessage)
    BY <1>0 DEF TypeOK
  <2>2. CASE up' = up
    BY <2>1, <2>2 DEF Ups
  <2>3. CASE up' = Append(up, m)
    <3>1. /\ up' \in Seq(UpMessage) /\ Len(up') = Len(up) + 1 /\ Len(up) \in Nat
          /\ \A k \in 1..Len(up) : up'[k] = up[k]
          /\ up'[Len(up) + 1] = m
      BY <1>5, <2>1, <2>3, AppendAt
    <3> QED BY <3>1 DEF Ups
  <2> QED BY <1>6, <2>2, <2>3
<1> HIDE DEF s
<1>8. TypeOK'
  BY <1>0, <1>1, <1>3, <1>4, <1>7 DEF TypeOK
<1>9. s = hist.started + 1
  BY DEF s
<1>10. Recent'
  <2>1. Recent
    BY <1>0 DEF Backend
  <2>2. /\ \A k \in Reqs : srv[k].id <= s
        /\ dest.id <= s /\ task.id <= s
    <3>1. /\ \A k \in Reqs : srv[k].id \in Nat
          /\ dest.id \in Nat /\ task.id \in Nat
      BY <1>0, Elements
    <3> QED BY <1>2, <1>9, <2>1, <3>1 DEF Recent
  <2>3. /\ \A i \in Transfer : i > s => temp[i] = Absent /\ i \notin hist.done
        /\ s \notin hist.done
    BY <1>2, <1>9, <2>1, Bounds DEF Recent, Transfer
  <2> QED BY <1>0, <1>1, <1>3, <2>2, <2>3 DEF Recent, HandlerFree, Reqs
<1>11. Backend'
  <2>2. Awaits' /\ TaskFits' /\ LateIsLost' /\ HandlerAlone'
    BY <1>0, <1>1, <1>3 DEF Backend, Awaits, TaskFits, LateIsLost, HandlerAlone, Reqs,
       TaskRequest, Aborting
  <2>3. PendingFits' /\ FileFollows'
    BY <1>0, <1>1, <1>3 DEF Backend, PendingFits, Pending, FileFollows, Own, Reqs, Aborting
  <2>4. FilesHandled'
    BY <1>0, <1>1, <1>3 DEF Backend, FilesHandled, Handled, Stored, Aborting
  <2> QED BY <1>10, <2>2, <2>3, <2>4 DEF Backend
<1>12. Unheard'
  <2>1. Recent
    BY <1>0 DEF Backend
  <2>2. \A k \in Reqs : srv[k].id # s
    <3>1. \A k \in Reqs : srv[k].id \in Nat /\ srv[k].id <= hist.started
      BY <1>0, <2>1, Elements DEF Recent
    <3> QED BY <1>2, <1>9, <3>1
  <2>3. dest.id # s /\ temp[s] = Absent /\ s \notin hist.done
    <3>1. dest.id \in Nat /\ dest.id <= hist.started
      BY <1>0, <2>1, Bounds DEF TypeOK, File, Recent
    <3> QED BY <1>2, <1>9, <2>1, <3>1 DEF Recent
  <2> QED BY <1>0, <1>1, <1>2, <1>3, <2>2, <2>3 DEF Unheard, HandlerFree, Reqs
<1>13. UpFits'
  <2>1. UpFits
    BY DEF TransferInv, Frontend
  <2>2. \A k \in Ups : up[k].id <= hist.started /\ up[k].id \in Nat /\ ~Begins(up[k])
    BY <1>0, <2>1, Elements DEF UpFits, NoStart
  <2>3. \A k \in Ups' : up'[k].id <= s /\ (Begins(up'[k]) => up'[k].id = s /\ k = Len(up) + 1)
                        /\ (up'[k].id = s => k = Len(up) + 1)
    BY <1>2, <1>5, <1>7, <1>9, <2>2
  <2>4. (sess = "detached" => up = <<>>)'
    BY <1>1, <1>6, <2>1 DEF UpFits
  <2> QED BY <1>1, <1>3, <1>12, <2>3, <2>4 DEF UpFits, Begins
<1>14. Shown'
  <2>1. xfer' # NoXfer /\ s # 0
    BY <1>2, <1>4, Bounds DEF NoXfer
  <2>2. \A k \in Ups' : Begins(up'[k]) => up'[k].t = t
    BY <1>0, <1>5, <1>7 DEF NoStart
  <2> QED BY <1>0, <1>1, <1>3, <1>4, <2>1, <2>2 DEF Shown, HandlerFree, Aborting, Begins
<1>15. DownFits'
  <2>1. DownFits
    BY DEF TransferInv, Frontend
  <2>2. \A k \in Downs : down[k].id <= hist.started /\ down[k].id \in Nat
    BY <1>0, <2>1, Elements DEF DownFits
  <2>3. \A k \in Downs : down[k].id <= s /\ down[k].id # s
    BY <1>2, <1>9, <2>2
  <2> QED BY <1>0, <1>1, <1>3, <2>1, <2>3 DEF DownFits, Downs
<1>16. Counted'
  <2>1. Counted /\ dl.offset \in Nat
    BY <1>0 DEF TransferInv, Frontend, TypeOK, DownloadState
  <2> QED BY <1>0, <1>1, <1>3, <1>4, <2>1 DEF Counted, Numbered, Downs
<1> QED BY <1>8, <1>11, <1>13, <1>14, <1>15, <1>16 DEF TransferInv, Frontend

\* startUpload begins one.
LEMMA StartUploadInv ==
  ASSUME TransferInv, StartUpload
  PROVE  TransferInv'
<1>1. /\ online /\ xfer = NoXfer /\ hist.started < MaxTransfers
      /\ xfer' = [NoXfer EXCEPT !.kind = "upload", !.id = hist.started + 1]
      /\ hist' = [hist EXCEPT !.started = @ + 1]
      /\ UNCHANGED <<online, down, handlerVars, srv, fileVars>>
  BY DEF StartUpload
<1>2. PICK b \in BOOLEAN : ToSession([t |-> "start", id |-> hist.started + 1, overwrite |-> b])
  BY DEF StartUpload
<1> QED BY <1>1, <1>2, StartInv

\* So does the start of a download.
LEMMA StartDownloadInv ==
  ASSUME TransferInv, StartDownload
  PROVE  TransferInv'
<1>1. /\ online /\ xfer = NoXfer /\ hist.started < MaxTransfers
      /\ xfer' = [NoXfer EXCEPT !.kind = "download", !.id = hist.started + 1]
      /\ hist' = [hist EXCEPT !.started = @ + 1]
      /\ ToSession([t |-> "download", id |-> hist.started + 1, overwrite |-> FALSE])
      /\ UNCHANGED <<online, down, handlerVars, srv, fileVars>>
  BY DEF StartDownload
<1> QED BY <1>1, StartInv

\* The browser goes, and with it what it shows and what is on its way to it.
LEMMA BrowserClosesInv ==
  ASSUME TransferInv, BrowserCloses
  PROVE  TransferInv'
<1>0. TypeOK /\ Backend /\ UpFits /\ Counted /\ hist \in History
  BY DEF TransferInv, Frontend, TypeOK
<1>1. /\ ~online' /\ xfer' = NoXfer /\ down' = <<>>
      /\ UNCHANGED <<up, handlerVars, srv, fileVars>>
      /\ hist' = hist \/ (hist.drops < MaxDrops /\ hist' = [hist EXCEPT !.drops = @ + 1])
  BY DEF BrowserCloses
<1>2. /\ hist' \in History
      /\ hist'.started = hist.started /\ hist'.done = hist.done /\ hist'.lost = hist.lost
      /\ hist'.saved = hist.saved
  <2>1. hist' \in History
    BY <1>0, <1>1, HistUpdates
  <2>2. CASE hist' = hist
    BY <2>1, <2>2
  <2>3. CASE hist' = [hist EXCEPT !.drops = @ + 1]
    BY <1>0, <2>1, <2>3 DEF History
  <2> QED BY <1>1, <2>1, <2>2, <2>3
<1>3. UNCHANGED <<up, sess, task, upload, dl, reply, srv, dest, temp>>
  BY <1>1 DEF handlerVars, fileVars
<1>4. Downs' = {} /\ down' \in Seq(DownMessage)
  BY <1>1, EmptyAt DEF Downs
<1>5. TypeOK'
  <2>1. online' \in BOOLEAN
    BY DEF BrowserCloses
  <2> QED BY <1>0, <1>1, <1>2, <1>3, <1>4, <2>1, NoneTyped DEF TypeOK
<1>6. Backend'
  BY <1>0, <1>1, <1>2, BackendSame DEF SameBackend
<1>7. UpFits'
  BY <1>0, <1>2, <1>3 DEF UpFits, NoStart, Ups, Unheard, HandlerFree, Reqs, Begins
<1>8. Shown'
  BY <1>1 DEF Shown, NoXfer
<1>9. DownFits' /\ Counted'
  BY <1>0, <1>1, <1>2, <1>4 DEF DownFits, Counted, NoXfer
<1> QED BY <1>5, <1>6, <1>7, <1>8, <1>9 DEF TransferInv, Frontend
-----------------------------------------------------------------------------
(* The server.                                                               *)

\* The request at the head of the queue, and the others one place further on.
LEMMA ServerQueue ==
  ASSUME TransferInv, ServerAnswers
  PROVE  /\ UNCHANGED <<xfer, online, up, down, sess, task, upload, dl, hist>>
         /\ reply = "none" /\ Len(srv) \in Nat \ {0} /\ 1 \in Reqs /\ Head(srv) = srv[1]
         /\ srv[1] \in ServerRequest /\ srv' \in Seq(ServerRequest)
         /\ Len(srv') = Len(srv) - 1
         /\ \A k \in Reqs' : k + 1 \in Reqs /\ srv'[k] = srv[k + 1]
         /\ task.at # "idle" => srv[Len(srv)] = TaskRequest
         /\ reply' \in {"none", "ok", "fail"}
         /\ ~(Len(srv) = 1 /\ task.at # "idle") => reply' = "none"
         /\ Len(srv) = 1 /\ task.at # "idle" => reply' # "none" /\ srv' = <<>>
         /\ Awaits /\ srv \in Seq(ServerRequest)
<1>1. /\ srv \in Seq(ServerRequest) /\ Awaits /\ srv # <<>> /\ srv' = Tail(srv)
      /\ reply \in {"none", "ok", "fail"}
      /\ UNCHANGED <<xfer, online, up, down, sess, task, upload, dl, hist>>
  BY DEF TransferInv, TypeOK, Backend, ServerAnswers, browserVars, netVars
<1>2. /\ srv' \in Seq(ServerRequest) /\ Len(srv) \in Nat \ {0} /\ Len(srv') = Len(srv) - 1
      /\ Head(srv) = srv[1] /\ Head(srv) \in ServerRequest
      /\ \A k \in 1..Len(srv') : srv'[k] = srv[k + 1] /\ k + 1 \in 1..Len(srv)
  BY <1>1, TailAt
<1>3. reply = "none" /\ (task.at # "idle" => srv[Len(srv)] = TaskRequest)
  BY <1>1 DEF Awaits
<1>4. \E ok \in BOOLEAN : reply' = IF Len(srv) = 1 /\ task.at # "idle"
                                   THEN IF ok THEN "ok" ELSE "fail" ELSE reply
  BY DEF ServerAnswers
<1>5. Len(srv) = 1 => srv' = <<>>
  BY <1>2
<1> QED BY <1>1, <1>2, <1>3, <1>4, <1>5 DEF Reqs

\* What an answer leaves of the requests, whatever it does to the files.
LEMMA ServerTasks ==
  ASSUME TransferInv, ServerAnswers
  PROVE  Awaits' /\ TaskFits' /\ LateIsLost' /\ HandlerAlone'
<1>0. Awaits /\ TaskFits /\ LateIsLost /\ HandlerAlone
  BY DEF TransferInv, Backend
<1>1. /\ UNCHANGED <<sess, task, upload, dl, hist>>
      /\ reply = "none" /\ Len(srv) \in Nat \ {0}
      /\ Len(srv') = Len(srv) - 1 /\ srv' \in Seq(ServerRequest)
      /\ \A k \in Reqs' : k + 1 \in Reqs /\ srv'[k] = srv[k + 1]
      /\ task.at # "idle" => srv[Len(srv)] = TaskRequest
      /\ ~(Len(srv) = 1 /\ task.at # "idle") => reply' = "none"
      /\ Len(srv) = 1 /\ task.at # "idle" => reply' # "none" /\ srv' = <<>>
  BY ServerQueue
<1>2. Awaits'
  <2>1. ASSUME task.at # "idle", reply' = "none"
        PROVE  srv' # <<>> /\ srv'[Len(srv')] = TaskRequest
    <3>1. Len(srv) # 1
      BY <1>1, <2>1
    <3>2. Len(srv') \in Reqs' /\ Len(srv') + 1 = Len(srv)
      BY <1>1, <3>1 DEF Reqs
    <3>3. srv'[Len(srv')] = srv[Len(srv)] /\ Len(srv') # 0
      BY <1>1, <3>1, <3>2
    <3> QED BY <1>1, <2>1, <3>3, EmptyAt
  <2>2. reply' # "none" => srv' = <<>>
    BY <1>1
  <2> QED BY <1>0, <1>1, <2>1, <2>2 DEF Awaits, TaskRequest
<1>3. TaskFits'
  BY <1>0, <1>1 DEF TaskFits, Aborting
<1>4. \A k \in Reqs' : k + 1 = Len(srv) <=> k = Len(srv')
  BY <1>1 DEF Reqs
<1>5. LateIsLost'
  BY <1>0, <1>1, <1>4 DEF LateIsLost
<1>6. HandlerAlone'
  <2> SUFFICES ASSUME NEW k \in Reqs'
               PROVE  /\ upload # NoUpload => \/ srv'[k].op \in NoEffect
                                              \/ k = Len(srv') /\ task.at \in {"write", "rename"}
                      /\ task.at = "open" => (srv'[k].id = task.id => k = Len(srv'))
                      /\ Aborting => \/ srv'[k].op \in NoEffect
                                     \/ /\ srv'[k].id = task.id /\ srv'[k].temporary = task.temporary
                                        /\ srv'[k].op # "open"
                                        /\ srv'[k].op = "remove" => k = Len(srv') /\ task.at = "remove"
    BY <1>1 DEF HandlerAlone, Aborting
  <2>1. PICK i \in Reqs : i = k + 1 /\ srv'[k] = srv[i] /\ (i = Len(srv) <=> k = Len(srv'))
    BY <1>1, <1>4
  <2> QED BY <1>0, <2>1 DEF HandlerAlone
<1> QED BY <1>2, <1>3, <1>5, <1>6

\* The cases of a request that is carried out.
LEMMA EffectCases ==
  ASSUME TransferInv, ServerAnswers
  PROVE  LET r == srv[1] IN
         \/ UNCHANGED <<dest, temp>> /\ (Len(srv) = 1 /\ task.at # "idle" /\ reply' = "ok" =>
               r.op \in NoEffect)
         \/ /\ r.op = "open" /\ r.temporary /\ dest' = dest /\ temp' = [temp EXCEPT ![r.id] = 0]
            /\ Len(srv) = 1 /\ task.at # "idle" => reply' = "ok"
         \/ /\ r.op = "open" /\ ~r.temporary /\ dest = NoFile /\ temp' = temp
            /\ dest' = [id |-> r.id, n |-> 0, renamed |-> FALSE]
            /\ Len(srv) = 1 /\ task.at # "idle" => reply' = "ok"
         \/ /\ r.op = "write" /\ r.temporary /\ dest' = dest
            /\ temp' = [temp EXCEPT ![r.id] = @ + 1]
            /\ Len(srv) = 1 /\ task.at # "idle" => reply' = "ok"
         \/ /\ r.op = "write" /\ ~r.temporary /\ temp' = temp
            /\ dest' = [dest EXCEPT !.n = @ + 1]
            /\ Len(srv) = 1 /\ task.at # "idle" => reply' = "ok"
         \/ /\ r.op = "rename" /\ dest' = [id |-> r.id, n |-> temp[r.id], renamed |-> TRUE]
            /\ temp' = [temp EXCEPT ![r.id] = Absent]
            /\ Len(srv) = 1 /\ task.at # "idle" => reply' = "ok"
         \/ /\ r.op = "remove" /\ r.temporary /\ dest' = dest
            /\ temp' = [temp EXCEPT ![r.id] = Absent]
            /\ Len(srv) = 1 /\ task.at # "idle" => reply' = "ok"
         \/ /\ r.op = "remove" /\ ~r.temporary /\ dest' = NoFile /\ temp' = temp
            /\ Len(srv) = 1 /\ task.at # "idle" => reply' = "ok"
<1> DEFINE r == srv[1]
<1>1. r \in ServerRequest /\ Head(srv) = r
  BY ServerQueue
<1>2. PICK ok \in BOOLEAN :
         /\ Effect(r, ok) \/ (~ok /\ UNCHANGED fileVars)
         /\ reply' = IF Len(srv) = 1 /\ task.at # "idle"
                     THEN IF ok THEN "ok" ELSE "fail" ELSE reply
  BY <1>1 DEF ServerAnswers
<1>3. temp \in [Transfer -> 0..Absent] /\ r.id \in Transfer /\ r.op \in Op
  BY <1>1, Elements DEF TransferInv, TypeOK, ServerRequest
<1> HIDE DEF r
<1>4. CASE ~ok /\ UNCHANGED fileVars
  BY <1>2, <1>4 DEF fileVars, r
<1>5. CASE Effect(r, ok)
  <2>1. CASE r.op = "open" /\ r.temporary
    BY <1>2, <1>5, <2>1 DEF Effect, r
  <2>2. CASE r.op = "open" /\ ~r.temporary
    <3>1. ok = (dest = NoFile) /\ temp' = temp
          /\ dest' = IF ok THEN [id |-> r.id, n |-> 0, renamed |-> FALSE] ELSE dest
      BY <1>5, <2>2 DEF Effect
    <3> QED BY <1>2, <2>2, <3>1 DEF r
  <2>3. CASE r.op = "write" /\ r.temporary
    BY <1>2, <1>5, <2>3 DEF Effect, r
  <2>4. CASE r.op = "write" /\ ~r.temporary
    BY <1>2, <1>5, <2>4 DEF Effect, r
  <2>5. CASE r.op = "rename"
    BY <1>2, <1>5, <2>5 DEF Effect, r
  <2>6. CASE r.op = "remove" /\ r.temporary
    <3>1. ok = (temp[r.id] # Absent) /\ temp' = [temp EXCEPT ![r.id] = Absent] /\ dest' = dest
      BY <1>5, <2>6 DEF Effect
    <3>2. ~ok => temp' = temp
      BY <1>3, <3>1
    <3> QED BY <1>2, <2>6, <3>1, <3>2 DEF r
  <2>7. CASE r.op = "remove" /\ ~r.temporary
    <3>1. ok = (dest # NoFile) /\ dest' = NoFile /\ temp' = temp
      BY <1>5, <2>7 DEF Effect
    <3> QED BY <1>2, <2>7, <3>1 DEF r
  <2>8. CASE r.op \in NoEffect
    <3>1. UNCHANGED <<dest, temp>>
      BY <1>5, <2>8 DEF Effect, NoEffect, fileVars
    <3> QED BY <2>8, <3>1 DEF r
  <2>9. r.op \in NoEffect \/ r.op \in {"open", "write", "rename", "remove"}
    BY <1>3 DEF Op, NoEffect
  <2> QED BY <2>1, <2>2, <2>3, <2>4, <2>5, <2>6, <2>7, <2>8, <2>9
<1> QED BY <1>2, <1>4, <1>5

\* What the invariant says of the request that is carried out, and of those behind it.
LEMMA HeadFacts ==
  ASSUME TransferInv, ServerAnswers
  PROVE  LET r == srv[1] IN
         /\ \/ r.id \in hist.lost
            \/ Len(srv) = 1 /\ task.at # "idle" /\ r = TaskRequest
         /\ upload # NoUpload =>
              \/ r.op \in NoEffect
              \/ Len(srv) = 1 /\ task.at \in {"write", "rename"} /\ r = TaskRequest
         /\ task.at = "open" => r.id # task.id \/ (Len(srv) = 1 /\ r = TaskRequest)
         /\ Aborting =>
              \/ r.op \in NoEffect
              \/ /\ r.id = task.id /\ r.temporary = task.temporary /\ r.op # "open"
                 /\ r.op = "remove" => Len(srv) = 1 /\ task.at = "remove"
         /\ Pending(1)
         /\ r.op \in Op /\ r.id \in Transfer /\ r.id \in Nat /\ r.id <= hist.started
         /\ r.temporary \in BOOLEAN
         /\ hist.started \in hist.done => FALSE
         /\ Len(srv) = 1 /\ task.at # "idle" => r = TaskRequest
<1>1. /\ 1 \in Reqs /\ Len(srv) \in Nat \ {0} /\ (task.at # "idle" => srv[Len(srv)] = TaskRequest)
      /\ srv[1] \in ServerRequest
  BY ServerQueue
<1>2. LateIsLost /\ HandlerAlone /\ PendingFits /\ Recent /\ TypeOK
  BY DEF TransferInv, Backend
<1>3. Pending(1) /\ srv[1].id <= hist.started
  BY <1>1, <1>2 DEF PendingFits, Recent
<1>4. srv[1].op \in Op /\ srv[1].id \in Transfer /\ srv[1].id \in Nat /\ srv[1].temporary \in BOOLEAN
  BY <1>1, <1>2, Elements
<1>5. hist.started \in hist.done => FALSE
  BY <1>1, <1>2 DEF Recent, ServerAnswers
<1>6. \/ srv[1].id \in hist.lost
      \/ Len(srv) = 1 /\ task.at # "idle" /\ srv[1] = TaskRequest
  BY <1>1, <1>2 DEF LateIsLost
<1>7. /\ upload # NoUpload =>
              \/ srv[1].op \in NoEffect
              \/ Len(srv) = 1 /\ task.at \in {"write", "rename"} /\ srv[1] = TaskRequest
      /\ task.at = "open" => srv[1].id # task.id \/ (Len(srv) = 1 /\ srv[1] = TaskRequest)
  BY <1>1, <1>2 DEF HandlerAlone
<1>8. Aborting =>
              \/ srv[1].op \in NoEffect
              \/ /\ srv[1].id = task.id /\ srv[1].temporary = task.temporary /\ srv[1].op # "open"
                 /\ srv[1].op = "remove" => Len(srv) = 1 /\ task.at = "remove"
  BY <1>1, <1>2 DEF HandlerAlone
<1> QED BY <1>1, <1>3, <1>4, <1>5, <1>6, <1>7, <1>8

\* Requests that are still pending meet their file after the one before them was
\* carried out.
LEMMA PendingAfter ==
  ASSUME TransferInv, ServerAnswers,
         \/ UNCHANGED <<dest, temp>>
         \/ srv[1].op \notin NoEffect /\ (srv[1].op = "write" /\ ~srv[1].temporary =>
              dest'.id = srv[1].id /\ ~dest'.renamed /\ srv[1].id \notin hist.done)
  PROVE  PendingFits'
<1>1. /\ hist' = hist /\ 1 \in Reqs /\ Len(srv) \in Nat \ {0} /\ Len(srv') = Len(srv) - 1
      /\ \A k \in Reqs' : k + 1 \in Reqs /\ srv'[k] = srv[k + 1]
  BY ServerQueue
<1> SUFFICES ASSUME NEW k \in Reqs' PROVE Pending(k)'
  BY DEF PendingFits
<1>2. PICK i \in Reqs : i = k + 1 /\ srv'[k] = srv[i]
  BY <1>1
<1>3. Pending(i) /\ srv[i] \in ServerRequest
  BY Elements DEF TransferInv, Backend, PendingFits
<1>4. /\ 1 \in 1 .. i - 1
      /\ \A j \in 1 .. k - 1 : j + 1 \in 1 .. i - 1 /\ srv'[j] = srv[j + 1]
  BY <1>1, <1>2 DEF Reqs
<1>5. CASE UNCHANGED <<dest, temp>>
  BY <1>1, <1>2, <1>3, <1>4, <1>5 DEF Pending, Own
<1>6. CASE srv[1].op \notin NoEffect /\ (srv[1].op = "write" /\ ~srv[1].temporary =>
              dest'.id = srv[1].id /\ ~dest'.renamed /\ srv[1].id \notin hist.done)
  <2>1. srv[i].op \notin {"write", "rename"}
    BY <1>3, <1>4, <1>6 DEF Pending
  <2>2. ASSUME srv[i].op = "remove", ~srv[i].temporary
        PROVE  /\ dest'.id = srv[i].id /\ ~dest'.renamed /\ srv[i].id \notin hist.done
               /\ \A j \in 1 .. k - 1 : \/ srv'[j].op \in NoEffect
                                        \/ srv'[j] = [srv[i] EXCEPT !.op = "write"]
    <3>1. srv[1] = [srv[i] EXCEPT !.op = "write"]
      BY <1>3, <1>4, <1>6, <2>2 DEF Pending
    <3>2. srv[1].op = "write" /\ ~srv[1].temporary /\ srv[1].id = srv[i].id
      BY <1>3, <2>2, <3>1 DEF ServerRequest
    <3>3. dest'.id = srv[i].id /\ ~dest'.renamed /\ srv[i].id \notin hist.done
      BY <1>6, <3>2
    <3> QED BY <1>3, <1>4, <2>2, <3>3 DEF Pending
  <2> QED BY <1>1, <1>2, <2>1, <2>2 DEF Pending, Own
<1> QED BY <1>5, <1>6

\* The parts that speak of the files.
FileParts == FileFollows /\ FilesHandled /\ Recent /\ (~NoStart => Unheard)

\* Typing and the pending requests are shown here once for all cases.
LEMMA ServerInv ==
  ASSUME TransferInv, ServerAnswers, dest' \in File, temp' \in [Transfer -> 0..Absent],
         FileParts', PendingFits'
  PROVE  TransferInv'
<1>0. TypeOK /\ Frontend
  BY DEF TransferInv
<1>1. /\ UNCHANGED <<xfer, online, up, down, sess, task, upload, dl, hist>>
      /\ srv' \in Seq(ServerRequest) /\ reply' \in {"none", "ok", "fail"}
  BY ServerQueue
<1>2. TypeOK'
  BY <1>0, <1>1 DEF TypeOK
<1>3. Backend'
  BY ServerTasks DEF Backend, FileParts
<1>4. Shown' /\ DownFits' /\ Counted'
  BY <1>0, <1>1 DEF Frontend, Shown, DownFits, Counted, Numbered, Downs, Ups, NoStart,
     HandlerFree, Aborting
<1>5. UpFits'
  BY <1>0, <1>1 DEF Frontend, UpFits, FileParts, Ups
<1> QED BY <1>2, <1>3, <1>4, <1>5 DEF TransferInv, Frontend

\* While no upload is held, no request of one is awaited.
LEMMA HeldFacts ==
  ASSUME TransferInv
  PROVE  /\ upload = NoUpload => task.at \notin {"write", "close", "rename"}
         /\ upload # NoUpload => upload.id \in Transfer
         /\ task.at \in {"write", "close", "rename"} => upload.id = task.id /\ upload # NoUpload
         /\ task.at # "idle" => task.id \in Transfer
<1>1. TaskFits /\ Awaits /\ upload \in UploadState
  BY DEF TransferInv, Backend, TypeOK
<1>2. upload # NoUpload => upload.id \in Transfer
  BY <1>1, Bounds DEF TaskFits, UploadState
<1>3. upload = NoUpload => upload.id = 0
  BY DEF NoUpload
<1> QED BY <1>1, <1>2, <1>3, Bounds DEF TaskFits, Awaits

\* A request that fails, or has no effect on a file, changes none.
LEMMA FilesUntouched ==
  ASSUME TransferInv, ServerAnswers, UNCHANGED <<dest, temp>>,
         Len(srv) = 1 /\ task.at # "idle" /\ reply' = "ok" => srv[1].op \in NoEffect
  PROVE  TransferInv'
<1>0. FileFollows /\ FilesHandled /\ Recent /\ UpFits /\ dest \in File /\ temp \in [Transfer -> 0..Absent]
  BY DEF TransferInv, Backend, Frontend, TypeOK
<1>1. /\ UNCHANGED <<up, sess, task, upload, dl, hist>> /\ reply = "none" /\ 1 \in Reqs
      /\ ~(Len(srv) = 1 /\ task.at # "idle") => reply' = "none"
      /\ \A k \in Reqs' : k + 1 \in Reqs /\ srv'[k] = srv[k + 1]
  BY ServerQueue
<1>2. Len(srv) = 1 /\ task.at # "idle" => srv[1] = TaskRequest
  BY HeadFacts
<1>3. reply' = "ok" => task.at \in NoEffect
  BY <1>1, <1>2 DEF TaskRequest
<1>4. FileFollows'
  BY <1>0, <1>1, <1>3 DEF FileFollows, Own, Aborting, NoEffect
<1>5. FilesHandled'
  BY <1>0, <1>1 DEF FilesHandled, Handled, Stored, Aborting
<1>6. Recent'
  <2>1. hist.started \notin hist.done
    BY HeadFacts
  <2> QED BY <1>0, <1>1, <2>1 DEF Recent
<1>7. (~NoStart => Unheard)'
  BY <1>0, <1>1 DEF UpFits, NoStart, Ups, Unheard, HandlerFree
<1>8. PendingFits'
  BY PendingAfter
<1> QED BY <1>0, <1>4, <1>5, <1>6, <1>7, <1>8, ServerInv DEF FileParts

\* An answer about another transfer leaves the session as unaware of the latest one
\* as it was.
LEMMA StaysUnheard ==
  ASSUME TransferInv, ServerAnswers,
         dest'.id \in {dest.id, srv[1].id, 0},
         \A i \in Transfer : i # srv[1].id => temp'[i] = temp[i]
  PROVE  (~NoStart => Unheard)'
<1>1. /\ UNCHANGED <<up, task, upload, hist>> /\ 1 \in Reqs
      /\ \A k \in Reqs' : k + 1 \in Reqs /\ srv'[k] = srv[k + 1]
  BY ServerQueue
<1>2. UpFits
  BY DEF TransferInv, Frontend
<1> SUFFICES ASSUME ~NoStart'
             PROVE  Unheard'
  OBVIOUS
<1>3. Unheard
  BY <1>1, <1>2 DEF UpFits, NoStart, Ups
<1>4. HandlerFree' /\ hist'.started \in Transfer /\ hist'.started \notin hist'.done
  BY <1>1, <1>3 DEF Unheard, HandlerFree
<1>5. srv[1].id # hist.started /\ hist.started # 0
  BY <1>1, <1>3, Bounds DEF Unheard
<1>6. dest'.id # hist'.started /\ temp'[hist'.started] = Absent
  BY <1>1, <1>3, <1>5 DEF Unheard
<1>7. \A k \in Reqs' : srv'[k].id # hist'.started
  BY <1>1, <1>3 DEF Unheard
<1> QED BY <1>4, <1>6, <1>7 DEF Unheard

\* The server creates a temporary file.
LEMMA OpenTemporaryDone ==
  ASSUME TransferInv, ServerAnswers, srv[1].op = "open", srv[1].temporary, dest' = dest, temp' = [temp EXCEPT ![srv[1].id] = 0],
         Len(srv) = 1 /\ task.at # "idle" => reply' = "ok"
  PROVE  TransferInv'
<1>0. FileFollows /\ FilesHandled /\ Recent /\ UpFits /\ dest \in File /\ temp \in [Transfer -> 0..Absent]
  BY DEF TransferInv, Backend, Frontend, TypeOK
<1>1. /\ UNCHANGED <<up, sess, task, upload, dl, hist>> /\ reply = "none" /\ 1 \in Reqs
      /\ ~(Len(srv) = 1 /\ task.at # "idle") => reply' = "none"
      /\ \A k \in Reqs' : k + 1 \in Reqs /\ srv'[k] = srv[k + 1]
  BY ServerQueue
<1>2. /\ \/ srv[1].id \in hist.lost
         \/ Len(srv) = 1 /\ task.at # "idle" /\ srv[1] = TaskRequest
      /\ upload # NoUpload =>
              \/ srv[1].op \in NoEffect
              \/ Len(srv) = 1 /\ task.at \in {"write", "rename"} /\ srv[1] = TaskRequest
      /\ task.at = "open" => srv[1].id # task.id \/ (Len(srv) = 1 /\ srv[1] = TaskRequest)
      /\ Aborting =>
              \/ srv[1].op \in NoEffect
              \/ /\ srv[1].id = task.id /\ srv[1].temporary = task.temporary /\ srv[1].op # "open"
                 /\ srv[1].op = "remove" => Len(srv) = 1 /\ task.at = "remove"
      /\ Pending(1)
      /\ srv[1].op \in Op /\ srv[1].id \in Transfer /\ srv[1].id \in Nat /\ srv[1].id <= hist.started
      /\ srv[1].temporary \in BOOLEAN
      /\ hist.started \notin hist.done
      /\ Len(srv) = 1 /\ task.at # "idle" => srv[1] = TaskRequest
  BY HeadFacts
<1>3. /\ upload = NoUpload => task.at \notin {"write", "close", "rename"}
      /\ upload # NoUpload => upload.id \in Transfer
      /\ task.at \in {"write", "close", "rename"} => upload.id = task.id /\ upload # NoUpload
      /\ task.at # "idle" => task.id \in Transfer
  BY HeldFacts
<1>4. dest' \in File /\ temp' \in [Transfer -> 0..Absent]
  BY <1>0, <1>2, Bounds
<1>5. upload = NoUpload /\ ~Aborting /\ task.at \notin {"write", "close", "rename"}
  BY <1>2, <1>3 DEF NoEffect, TaskRequest
<1>6. FileFollows'
  BY <1>0, <1>1, <1>2, <1>3, <1>4, <1>5, Bounds DEF FileFollows, Own, Aborting, NoEffect,
     TaskRequest
<1>7. FilesHandled'
  BY <1>0, <1>1, <1>2, <1>3, <1>4, <1>5, Bounds DEF FilesHandled, Handled, Stored,
     Aborting, TaskRequest
<1>8. Recent'
  <2>1. \A i \in Transfer : i > hist.started => i # srv[1].id
    BY <1>2, NumbersAreNat, Elements DEF TransferInv
  <2>2. 0 <= hist.started
    BY Elements DEF TransferInv
  <2> QED BY <1>0, <1>1, <1>2, <1>4, <2>1, <2>2 DEF Recent
<1>9. (~NoStart => Unheard)'
  BY <1>0, <1>2, StaysUnheard DEF NoFile
<1>10. PendingFits'
  BY <1>2, <1>4, PendingAfter DEF NoEffect, Own
<1> QED BY <1>4, <1>6, <1>7, <1>8, <1>9, <1>10, ServerInv DEF FileParts

\* The server creates the destination, which did not exist.
LEMMA OpenFreeDone ==
  ASSUME TransferInv, ServerAnswers, srv[1].op = "open", ~srv[1].temporary, dest = NoFile, temp' = temp,
         dest' = [id |-> srv[1].id, n |-> 0, renamed |-> FALSE],
         Len(srv) = 1 /\ task.at # "idle" => reply' = "ok"
  PROVE  TransferInv'
<1>0. FileFollows /\ FilesHandled /\ Recent /\ UpFits /\ dest \in File /\ temp \in [Transfer -> 0..Absent]
  BY DEF TransferInv, Backend, Frontend, TypeOK
<1>1. /\ UNCHANGED <<up, sess, task, upload, dl, hist>> /\ reply = "none" /\ 1 \in Reqs
      /\ ~(Len(srv) = 1 /\ task.at # "idle") => reply' = "none"
      /\ \A k \in Reqs' : k + 1 \in Reqs /\ srv'[k] = srv[k + 1]
  BY ServerQueue
<1>2. /\ \/ srv[1].id \in hist.lost
         \/ Len(srv) = 1 /\ task.at # "idle" /\ srv[1] = TaskRequest
      /\ upload # NoUpload =>
              \/ srv[1].op \in NoEffect
              \/ Len(srv) = 1 /\ task.at \in {"write", "rename"} /\ srv[1] = TaskRequest
      /\ task.at = "open" => srv[1].id # task.id \/ (Len(srv) = 1 /\ srv[1] = TaskRequest)
      /\ Aborting =>
              \/ srv[1].op \in NoEffect
              \/ /\ srv[1].id = task.id /\ srv[1].temporary = task.temporary /\ srv[1].op # "open"
                 /\ srv[1].op = "remove" => Len(srv) = 1 /\ task.at = "remove"
      /\ Pending(1)
      /\ srv[1].op \in Op /\ srv[1].id \in Transfer /\ srv[1].id \in Nat /\ srv[1].id <= hist.started
      /\ srv[1].temporary \in BOOLEAN
      /\ hist.started \notin hist.done
      /\ Len(srv) = 1 /\ task.at # "idle" => srv[1] = TaskRequest
  BY HeadFacts
<1>3. /\ upload = NoUpload => task.at \notin {"write", "close", "rename"}
      /\ upload # NoUpload => upload.id \in Transfer
      /\ task.at \in {"write", "close", "rename"} => upload.id = task.id /\ upload # NoUpload
      /\ task.at # "idle" => task.id \in Transfer
  BY HeldFacts
<1>4. dest' \in File /\ temp' \in [Transfer -> 0..Absent]
  BY <1>0, <1>2, Bounds DEF File
<1>5. upload = NoUpload /\ ~Aborting /\ task.at \notin {"write", "close", "rename"}
  BY <1>2, <1>3 DEF NoEffect, TaskRequest
<1>6. FileFollows'
  <2>1. task.at = "open" => task.id \notin hist.done
    BY <1>0, <1>2 DEF Recent
  <2>2. task.at = "open" /\ Len(srv) = 1 => srv[1].id = task.id /\ ~task.temporary
    BY <1>2 DEF TaskRequest
  <2> QED BY <1>0, <1>1, <1>2, <1>4, <1>5, <2>1, <2>2 DEF FileFollows, Own, Aborting
<1>7. FilesHandled'
  BY <1>0, <1>1, <1>2, <1>3, <1>4, <1>5, Bounds DEF FilesHandled, Handled, Stored,
     Aborting, TaskRequest
<1>8. Recent'
  <2>1. \A i \in Transfer : i > hist.started => i # srv[1].id
    BY <1>2, NumbersAreNat, Elements, SMTT(30) DEF TransferInv
  <2>2. 0 <= hist.started
    BY Elements DEF TransferInv
  <2> QED BY <1>0, <1>1, <1>2, <1>4, <2>1, <2>2 DEF Recent
<1>9. (~NoStart => Unheard)'
  BY <1>0, <1>2, StaysUnheard DEF NoFile
<1>10. PendingFits'
  BY <1>2, <1>4, PendingAfter DEF NoEffect, Own
<1> QED BY <1>4, <1>6, <1>7, <1>8, <1>9, <1>10, ServerInv DEF FileParts

\* The server writes a chunk of a temporary file.
LEMMA WriteTemporaryDone ==
  ASSUME TransferInv, ServerAnswers, srv[1].op = "write", srv[1].temporary, dest' = dest,
         temp' = [temp EXCEPT ![srv[1].id] = @ + 1],
         Len(srv) = 1 /\ task.at # "idle" => reply' = "ok"
  PROVE  TransferInv'
<1>0. FileFollows /\ FilesHandled /\ Recent /\ UpFits /\ dest \in File /\ temp \in [Transfer -> 0..Absent]
  BY DEF TransferInv, Backend, Frontend, TypeOK
<1>1. /\ UNCHANGED <<up, sess, task, upload, dl, hist>> /\ reply = "none" /\ 1 \in Reqs
      /\ ~(Len(srv) = 1 /\ task.at # "idle") => reply' = "none"
      /\ \A k \in Reqs' : k + 1 \in Reqs /\ srv'[k] = srv[k + 1]
  BY ServerQueue
<1>2. /\ \/ srv[1].id \in hist.lost
         \/ Len(srv) = 1 /\ task.at # "idle" /\ srv[1] = TaskRequest
      /\ upload # NoUpload =>
              \/ srv[1].op \in NoEffect
              \/ Len(srv) = 1 /\ task.at \in {"write", "rename"} /\ srv[1] = TaskRequest
      /\ task.at = "open" => srv[1].id # task.id \/ (Len(srv) = 1 /\ srv[1] = TaskRequest)
      /\ Aborting =>
              \/ srv[1].op \in NoEffect
              \/ /\ srv[1].id = task.id /\ srv[1].temporary = task.temporary /\ srv[1].op # "open"
                 /\ srv[1].op = "remove" => Len(srv) = 1 /\ task.at = "remove"
      /\ Pending(1)
      /\ srv[1].op \in Op /\ srv[1].id \in Transfer /\ srv[1].id \in Nat /\ srv[1].id <= hist.started
      /\ srv[1].temporary \in BOOLEAN
      /\ hist.started \notin hist.done
      /\ Len(srv) = 1 /\ task.at # "idle" => srv[1] = TaskRequest
  BY HeadFacts
<1>3. /\ upload = NoUpload => task.at \notin {"write", "close", "rename"}
      /\ upload # NoUpload => upload.id \in Transfer
      /\ task.at \in {"write", "close", "rename"} => upload.id = task.id /\ upload # NoUpload
      /\ task.at # "idle" => task.id \in Transfer
  BY HeldFacts
<1>4. dest' \in File /\ temp' \in [Transfer -> 0..Absent] /\ temp[srv[1].id] \in Nat
      /\ temp[srv[1].id] < Size
  <2>1. temp[srv[1].id] < Size /\ temp[srv[1].id] \in Nat
    BY <1>0, <1>2 DEF Pending
  <2>2. temp[srv[1].id] + 1 \in 0..Absent
    BY <2>1, Bounds
  <2> QED BY <1>0, <1>2, <2>1, <2>2
<1>5. task.at # "open" \/ srv[1].id # task.id
  BY <1>2 DEF TaskRequest
<1>6. FileFollows'
  BY <1>0, <1>1, <1>2, <1>3, <1>4, <1>5, Bounds DEF FileFollows, Own, Aborting, NoEffect,
     TaskRequest
<1>7. FilesHandled'
  <2>1. srv[1].id \in hist.lost \/ upload.id = srv[1].id
    BY <1>2, <1>3 DEF TaskRequest
  <2>2. \A i \in Transfer : i # srv[1].id => temp'[i] = temp[i]
    BY <1>0
  <2>3. Stored' = Stored
    BY <1>1 DEF Stored
  <2> QED BY <1>0, <1>1, <2>1, <2>2, <2>3 DEF FilesHandled, Handled, Aborting
<1>8. Recent'
  <2>1. \A i \in Transfer : i > hist.started => i # srv[1].id
    BY <1>2, NumbersAreNat, Elements, SMTT(30) DEF TransferInv
  <2>2. 0 <= hist.started
    BY Elements DEF TransferInv
  <2> QED BY <1>0, <1>1, <1>2, <1>4, <2>1, <2>2 DEF Recent
<1>9. (~NoStart => Unheard)'
  BY <1>0, <1>2, StaysUnheard DEF NoFile
<1>10. PendingFits'
  BY <1>2, <1>4, PendingAfter DEF NoEffect, Own
<1> QED BY <1>4, <1>6, <1>7, <1>8, <1>9, <1>10, ServerInv DEF FileParts

\* The server writes a chunk of the destination of an upload to a free name.
LEMMA WriteFreeDone ==
  ASSUME TransferInv, ServerAnswers, srv[1].op = "write", ~srv[1].temporary, temp' = temp,
         dest' = [dest EXCEPT !.n = @ + 1],
         Len(srv) = 1 /\ task.at # "idle" => reply' = "ok"
  PROVE  TransferInv'
<1>0. FileFollows /\ FilesHandled /\ Recent /\ UpFits /\ dest \in File /\ temp \in [Transfer -> 0..Absent]
  BY DEF TransferInv, Backend, Frontend, TypeOK
<1>1. /\ UNCHANGED <<up, sess, task, upload, dl, hist>> /\ reply = "none" /\ 1 \in Reqs
      /\ ~(Len(srv) = 1 /\ task.at # "idle") => reply' = "none"
      /\ \A k \in Reqs' : k + 1 \in Reqs /\ srv'[k] = srv[k + 1]
  BY ServerQueue
<1>2. /\ \/ srv[1].id \in hist.lost
         \/ Len(srv) = 1 /\ task.at # "idle" /\ srv[1] = TaskRequest
      /\ upload # NoUpload =>
              \/ srv[1].op \in NoEffect
              \/ Len(srv) = 1 /\ task.at \in {"write", "rename"} /\ srv[1] = TaskRequest
      /\ task.at = "open" => srv[1].id # task.id \/ (Len(srv) = 1 /\ srv[1] = TaskRequest)
      /\ Aborting =>
              \/ srv[1].op \in NoEffect
              \/ /\ srv[1].id = task.id /\ srv[1].temporary = task.temporary /\ srv[1].op # "open"
                 /\ srv[1].op = "remove" => Len(srv) = 1 /\ task.at = "remove"
      /\ Pending(1)
      /\ srv[1].op \in Op /\ srv[1].id \in Transfer /\ srv[1].id \in Nat /\ srv[1].id <= hist.started
      /\ srv[1].temporary \in BOOLEAN
      /\ hist.started \notin hist.done
      /\ Len(srv) = 1 /\ task.at # "idle" => srv[1] = TaskRequest
  BY HeadFacts
<1>3. /\ upload = NoUpload => task.at \notin {"write", "close", "rename"}
      /\ upload # NoUpload => upload.id \in Transfer
      /\ task.at \in {"write", "close", "rename"} => upload.id = task.id /\ upload # NoUpload
      /\ task.at # "idle" => task.id \in Transfer
  BY HeldFacts
<1>4. dest' \in File /\ temp' \in [Transfer -> 0..Absent] /\ dest.n \in Nat /\ dest.n < Size
      /\ Own(srv[1].id) /\ dest'.id = dest.id /\ dest'.renamed = dest.renamed
      /\ dest'.n = dest.n + 1
  <2>1. dest.n < Size /\ dest.n \in Nat /\ Own(srv[1].id)
    BY <1>0, <1>2, Elements DEF Pending, TransferInv
  <2>2. dest.n + 1 \in 0..Absent
    BY <2>1, Bounds
  <2> QED BY <1>0, <1>2, <2>1, <2>2 DEF File
<1>5. task.at # "open" \/ srv[1].id # task.id
  BY <1>2 DEF TaskRequest
<1>6. FileFollows'
  BY <1>0, <1>1, <1>2, <1>3, <1>4, <1>5, Bounds DEF FileFollows, Own, Aborting, NoEffect,
     TaskRequest
<1>7. FilesHandled'
  <2>1. srv[1].id \in hist.lost \/ upload.id = srv[1].id
    BY <1>2, <1>3 DEF TaskRequest
  <2>2. dest'.id = srv[1].id /\ ~dest'.renamed /\ srv[1].id # 0
    BY <1>2, <1>4, Bounds DEF Own
  <2> QED BY <1>0, <1>1, <2>1, <2>2 DEF FilesHandled, Handled, Aborting
<1>8. Recent'
  <2>1. \A i \in Transfer : i > hist.started => i # srv[1].id
    BY <1>2, NumbersAreNat, Elements, SMTT(30) DEF TransferInv
  <2>2. 0 <= hist.started
    BY Elements DEF TransferInv
  <2> QED BY <1>0, <1>1, <1>2, <1>4, <2>1, <2>2 DEF Recent
<1>9. (~NoStart => Unheard)'
  BY <1>0, <1>2, StaysUnheard DEF NoFile
<1>10. PendingFits'
  BY <1>2, <1>4, PendingAfter DEF NoEffect, Own
<1> QED BY <1>4, <1>6, <1>7, <1>8, <1>9, <1>10, ServerInv DEF FileParts

\* The server renames a temporary file over the destination: it is whole.
LEMMA RenameDone ==
  ASSUME TransferInv, ServerAnswers, srv[1].op = "rename", dest' = [id |-> srv[1].id, n |-> temp[srv[1].id], renamed |-> TRUE],
         temp' = [temp EXCEPT ![srv[1].id] = Absent],
         Len(srv) = 1 /\ task.at # "idle" => reply' = "ok"
  PROVE  TransferInv'
<1>0. FileFollows /\ FilesHandled /\ Recent /\ UpFits /\ dest \in File /\ temp \in [Transfer -> 0..Absent]
  BY DEF TransferInv, Backend, Frontend, TypeOK
<1>1. /\ UNCHANGED <<up, sess, task, upload, dl, hist>> /\ reply = "none" /\ 1 \in Reqs
      /\ ~(Len(srv) = 1 /\ task.at # "idle") => reply' = "none"
      /\ \A k \in Reqs' : k + 1 \in Reqs /\ srv'[k] = srv[k + 1]
  BY ServerQueue
<1>2. /\ \/ srv[1].id \in hist.lost
         \/ Len(srv) = 1 /\ task.at # "idle" /\ srv[1] = TaskRequest
      /\ upload # NoUpload =>
              \/ srv[1].op \in NoEffect
              \/ Len(srv) = 1 /\ task.at \in {"write", "rename"} /\ srv[1] = TaskRequest
      /\ task.at = "open" => srv[1].id # task.id \/ (Len(srv) = 1 /\ srv[1] = TaskRequest)
      /\ Aborting =>
              \/ srv[1].op \in NoEffect
              \/ /\ srv[1].id = task.id /\ srv[1].temporary = task.temporary /\ srv[1].op # "open"
                 /\ srv[1].op = "remove" => Len(srv) = 1 /\ task.at = "remove"
      /\ Pending(1)
      /\ srv[1].op \in Op /\ srv[1].id \in Transfer /\ srv[1].id \in Nat /\ srv[1].id <= hist.started
      /\ srv[1].temporary \in BOOLEAN
      /\ hist.started \notin hist.done
      /\ Len(srv) = 1 /\ task.at # "idle" => srv[1] = TaskRequest
  BY HeadFacts
<1>3. /\ upload = NoUpload => task.at \notin {"write", "close", "rename"}
      /\ upload # NoUpload => upload.id \in Transfer
      /\ task.at \in {"write", "close", "rename"} => upload.id = task.id /\ upload # NoUpload
      /\ task.at # "idle" => task.id \in Transfer
  BY HeldFacts
<1>4. dest' \in File /\ temp' \in [Transfer -> 0..Absent] /\ srv[1].temporary
      /\ dest' = [id |-> srv[1].id, n |-> Size, renamed |-> TRUE]
  <2>1. temp[srv[1].id] = Size /\ srv[1].temporary
    BY <1>0, <1>2 DEF Pending
  <2> QED BY <1>0, <1>2, <2>1, Bounds DEF File
<1>5. task.at # "open" \/ srv[1].id # task.id
  BY <1>2 DEF TaskRequest
<1>6. FileFollows'
  <2>1. upload # NoUpload => task.at = "rename" /\ reply' = "ok" /\ upload.id = srv[1].id
                             /\ upload.temporary
    BY <1>2, <1>3 DEF NoEffect, TaskRequest, TransferInv, Backend, TaskFits
  <2>2. Aborting => task.temporary /\ task.id = srv[1].id /\ reply' = "none"
    <3>1. Aborting => srv[1] # TaskRequest
      BY DEF Aborting, TaskRequest
    <3>2. Aborting => task.temporary /\ task.id = srv[1].id
      BY <1>2, <1>4 DEF NoEffect
    <3> QED BY <1>1, <1>2, <3>1, <3>2
  <2>3. task.at = "open" => srv[1].id # task.id /\ reply' = "none"
    BY <1>1, <1>2, <1>5 DEF TaskRequest
  <2>4. task.at = "rename" => task.id = srv[1].id
    BY <1>3, <2>1
  <2>5. /\ temp'[srv[1].id] = Absent /\ \A i \in Transfer : i # srv[1].id => temp'[i] = temp[i]
        /\ dest'.id = srv[1].id /\ dest'.renamed
    BY <1>0, <1>2, <1>4
  <2>6. CASE upload # NoUpload
    BY <1>1, <1>4, <2>1, <2>4, <2>5, <2>6 DEF FileFollows, Aborting
  <2>7. CASE upload = NoUpload
    BY <1>0, <1>1, <1>3, <2>2, <2>3, <2>5, <2>7 DEF FileFollows, Aborting
  <2> QED BY <2>6, <2>7
<1>7. FilesHandled'
  <2>1. Stored' # Partial
    <3>1. dest'.n = Size /\ dest'.renamed /\ dest'.id = srv[1].id
      BY <1>4
    <3>2. dest' # NoFile /\ srv[1].id # Partial /\ srv[1].id # None
      BY <1>2, <3>1, Bounds DEF NoFile, Partial, None, Transfer
    <3> QED BY <3>1, <3>2, Bounds DEF Stored, Partial, None
  <2>2. \A i \in Transfer : temp'[i] # Absent => temp[i] # Absent
    BY <1>0, <1>2
  <2> QED BY <1>0, <1>1, <1>2, <1>4, <2>1, <2>2, Bounds DEF FilesHandled, Handled, Aborting
<1>8. Recent'
  <2>1. \A i \in Transfer : i > hist.started => i # srv[1].id
    BY <1>2, NumbersAreNat, Elements DEF TransferInv
  <2>2. 0 <= hist.started
    BY Elements DEF TransferInv
  <2> QED BY <1>0, <1>1, <1>2, <1>4, <2>1, <2>2 DEF Recent
<1>9. (~NoStart => Unheard)'
  BY <1>0, <1>2, StaysUnheard DEF NoFile
<1>10. PendingFits'
  BY <1>2, <1>4, PendingAfter DEF NoEffect, Own
<1> QED BY <1>4, <1>6, <1>7, <1>8, <1>9, <1>10, ServerInv DEF FileParts

\* The server removes a temporary file.
LEMMA RemoveTemporaryDone ==
  ASSUME TransferInv, ServerAnswers, srv[1].op = "remove", srv[1].temporary, dest' = dest,
         temp' = [temp EXCEPT ![srv[1].id] = Absent],
         Len(srv) = 1 /\ task.at # "idle" => reply' = "ok"
  PROVE  TransferInv'
<1>0. FileFollows /\ FilesHandled /\ Recent /\ UpFits /\ dest \in File /\ temp \in [Transfer -> 0..Absent]
  BY DEF TransferInv, Backend, Frontend, TypeOK
<1>1. /\ UNCHANGED <<up, sess, task, upload, dl, hist>> /\ reply = "none" /\ 1 \in Reqs
      /\ ~(Len(srv) = 1 /\ task.at # "idle") => reply' = "none"
      /\ \A k \in Reqs' : k + 1 \in Reqs /\ srv'[k] = srv[k + 1]
  BY ServerQueue
<1>2. /\ \/ srv[1].id \in hist.lost
         \/ Len(srv) = 1 /\ task.at # "idle" /\ srv[1] = TaskRequest
      /\ upload # NoUpload =>
              \/ srv[1].op \in NoEffect
              \/ Len(srv) = 1 /\ task.at \in {"write", "rename"} /\ srv[1] = TaskRequest
      /\ task.at = "open" => srv[1].id # task.id \/ (Len(srv) = 1 /\ srv[1] = TaskRequest)
      /\ Aborting =>
              \/ srv[1].op \in NoEffect
              \/ /\ srv[1].id = task.id /\ srv[1].temporary = task.temporary /\ srv[1].op # "open"
                 /\ srv[1].op = "remove" => Len(srv) = 1 /\ task.at = "remove"
      /\ Pending(1)
      /\ srv[1].op \in Op /\ srv[1].id \in Transfer /\ srv[1].id \in Nat /\ srv[1].id <= hist.started
      /\ srv[1].temporary \in BOOLEAN
      /\ hist.started \notin hist.done
      /\ Len(srv) = 1 /\ task.at # "idle" => srv[1] = TaskRequest
  BY HeadFacts
<1>3. /\ upload = NoUpload => task.at \notin {"write", "close", "rename"}
      /\ upload # NoUpload => upload.id \in Transfer
      /\ task.at \in {"write", "close", "rename"} => upload.id = task.id /\ upload # NoUpload
      /\ task.at # "idle" => task.id \in Transfer
  BY HeldFacts
<1>4. dest' \in File /\ temp' \in [Transfer -> 0..Absent]
  BY <1>0, <1>2, Bounds
<1>5. upload = NoUpload /\ task.at \notin {"write", "close", "rename", "abortclose"}
      /\ (task.at # "open" \/ srv[1].id # task.id)
  <2>1. upload = NoUpload
    BY <1>2 DEF NoEffect, TaskRequest
  <2>2. task.at # "abortclose"
    BY <1>2 DEF NoEffect, Aborting
  <2>3. task.at # "open" \/ srv[1].id # task.id
    BY <1>2 DEF TaskRequest
  <2> QED BY <1>3, <2>1, <2>2, <2>3
<1>6. FileFollows'
  BY <1>0, <1>1, <1>2, <1>3, <1>4, <1>5, Bounds DEF FileFollows, Own, Aborting, NoEffect,
     TaskRequest
<1>7. FilesHandled'
  BY <1>0, <1>1, <1>2, <1>3, <1>4, <1>5, Bounds DEF FilesHandled, Handled, Stored,
     Aborting, TaskRequest
<1>8. Recent'
  <2>1. \A i \in Transfer : i > hist.started => i # srv[1].id
    BY <1>2, NumbersAreNat, Elements, SMTT(30) DEF TransferInv
  <2>2. 0 <= hist.started
    BY Elements DEF TransferInv
  <2> QED BY <1>0, <1>1, <1>2, <1>4, <2>1, <2>2 DEF Recent
<1>9. (~NoStart => Unheard)'
  BY <1>0, <1>2, StaysUnheard DEF NoFile
<1>10. PendingFits'
  BY <1>2, <1>4, PendingAfter DEF NoEffect, Own
<1> QED BY <1>4, <1>6, <1>7, <1>8, <1>9, <1>10, ServerInv DEF FileParts

\* The server removes the destination of an upload to a free name that was given up.
LEMMA RemoveFreeDone ==
  ASSUME TransferInv, ServerAnswers, srv[1].op = "remove", ~srv[1].temporary, dest' = NoFile, temp' = temp,
         Len(srv) = 1 /\ task.at # "idle" => reply' = "ok"
  PROVE  TransferInv'
<1>0. FileFollows /\ FilesHandled /\ Recent /\ UpFits /\ dest \in File /\ temp \in [Transfer -> 0..Absent]
  BY DEF TransferInv, Backend, Frontend, TypeOK
<1>1. /\ UNCHANGED <<up, sess, task, upload, dl, hist>> /\ reply = "none" /\ 1 \in Reqs
      /\ ~(Len(srv) = 1 /\ task.at # "idle") => reply' = "none"
      /\ \A k \in Reqs' : k + 1 \in Reqs /\ srv'[k] = srv[k + 1]
  BY ServerQueue
<1>2. /\ \/ srv[1].id \in hist.lost
         \/ Len(srv) = 1 /\ task.at # "idle" /\ srv[1] = TaskRequest
      /\ upload # NoUpload =>
              \/ srv[1].op \in NoEffect
              \/ Len(srv) = 1 /\ task.at \in {"write", "rename"} /\ srv[1] = TaskRequest
      /\ task.at = "open" => srv[1].id # task.id \/ (Len(srv) = 1 /\ srv[1] = TaskRequest)
      /\ Aborting =>
              \/ srv[1].op \in NoEffect
              \/ /\ srv[1].id = task.id /\ srv[1].temporary = task.temporary /\ srv[1].op # "open"
                 /\ srv[1].op = "remove" => Len(srv) = 1 /\ task.at = "remove"
      /\ Pending(1)
      /\ srv[1].op \in Op /\ srv[1].id \in Transfer /\ srv[1].id \in Nat /\ srv[1].id <= hist.started
      /\ srv[1].temporary \in BOOLEAN
      /\ hist.started \notin hist.done
      /\ Len(srv) = 1 /\ task.at # "idle" => srv[1] = TaskRequest
  BY HeadFacts
<1>3. /\ upload = NoUpload => task.at \notin {"write", "close", "rename"}
      /\ upload # NoUpload => upload.id \in Transfer
      /\ task.at \in {"write", "close", "rename"} => upload.id = task.id /\ upload # NoUpload
      /\ task.at # "idle" => task.id \in Transfer
  BY HeldFacts
<1>4. dest' \in File /\ temp' \in [Transfer -> 0..Absent] /\ Own(srv[1].id)
      /\ dest'.id = 0 /\ ~dest'.renamed
  BY <1>0, <1>2, NoneTyped DEF Pending, NoFile
<1>5. upload = NoUpload /\ task.at \notin {"write", "close", "rename", "abortclose"}
      /\ (task.at # "open" \/ srv[1].id # task.id)
  <2>1. upload = NoUpload
    BY <1>2 DEF NoEffect, TaskRequest
  <2>2. task.at # "abortclose"
    BY <1>2 DEF NoEffect, Aborting
  <2>3. task.at # "open" \/ srv[1].id # task.id
    BY <1>2 DEF TaskRequest
  <2> QED BY <1>3, <2>1, <2>2, <2>3
<1>6. FileFollows'
  BY <1>0, <1>1, <1>2, <1>3, <1>4, <1>5, Bounds DEF FileFollows, Own, Aborting, NoEffect,
     TaskRequest
<1>7. FilesHandled'
  <2>1. Stored' # Partial
    BY Bounds DEF Stored, Partial, None
  <2> QED BY <1>0, <1>1, <1>4, <2>1 DEF FilesHandled, Handled, Aborting
<1>8. Recent'
  <2>1. \A i \in Transfer : i > hist.started => i # srv[1].id
    BY <1>2, NumbersAreNat, Elements DEF TransferInv
  <2>2. 0 <= hist.started
    BY Elements DEF TransferInv
  <2> QED BY <1>0, <1>1, <1>2, <1>4, <2>1, <2>2 DEF Recent
<1>9. (~NoStart => Unheard)'
  BY <1>0, <1>2, StaysUnheard DEF NoFile
<1>10. PendingFits'
  BY <1>2, <1>4, PendingAfter DEF NoEffect, Own
<1> QED BY <1>4, <1>6, <1>7, <1>8, <1>9, <1>10, ServerInv DEF FileParts

\* Whatever the server carries out keeps the invariant.
LEMMA ServerAnswersInv ==
  ASSUME TransferInv, ServerAnswers
  PROVE  TransferInv'
BY EffectCases, FilesUntouched, OpenTemporaryDone, OpenFreeDone, WriteTemporaryDone,
   WriteFreeDone,
   RenameDone, RemoveTemporaryDone, RemoveFreeDone

\* The server ends with its channel and forgets what was asked of it.
LEMMA ServerEndsInv ==
  ASSUME TransferInv, ServerEnds
  PROVE  TransferInv'
<1>0. TypeOK /\ Backend /\ Frontend
  BY DEF TransferInv
<1>1. /\ UNCHANGED <<xfer, online, up, down, sess, task, upload, dl, reply, dest, temp, hist>>
      /\ sess # "ready" /\ srv # <<>> /\ srv' = <<>>
  BY DEF ServerEnds, browserVars, netVars, handlerVars, fileVars
<1>2. Reqs' = {} /\ srv' \in Seq(ServerRequest)
  BY <1>1, EmptyAt DEF Reqs
<1>3. task = Idle /\ task.at = "idle"
  BY <1>0, <1>1 DEF Backend, Awaits, Idle
<1>4. TypeOK'
  BY <1>0, <1>1, <1>2 DEF TypeOK
<1>5. Awaits' /\ TaskFits' /\ LateIsLost' /\ HandlerAlone' /\ PendingFits'
  BY <1>0, <1>1, <1>2, <1>3 DEF Backend, Awaits, TaskFits, LateIsLost, HandlerAlone,
     PendingFits, Aborting
<1>6. FileFollows' /\ FilesHandled' /\ Recent'
  BY <1>0, <1>1, <1>2, <1>3 DEF Backend, FileFollows, FilesHandled, Own, Handled, Stored,
     Recent, Aborting
<1>7. Frontend'
  BY <1>0, <1>1, <1>2 DEF Frontend, UpFits, Unheard, Shown, DownFits, Counted, Numbered,
     Downs, Ups,
     NoStart, HandlerFree, Aborting
<1> QED BY <1>4, <1>5, <1>6, <1>7 DEF TransferInv, Backend

\* The browser comes back to a session that is ready.
LEMMA ReconnectInv ==
  ASSUME TransferInv, Reconnect
  PROVE  TransferInv'
<1>0. TypeOK /\ Backend /\ Frontend
  BY DEF TransferInv
<1>1. /\ UNCHANGED <<xfer, up, down, task, upload, dl, reply, srv, dest, temp, hist>>
      /\ ~online /\ sess = "detached" /\ online' = TRUE /\ sess' = "ready"
  BY DEF Reconnect, netVars, fileVars
<1>2. task = Idle /\ upload = NoUpload /\ task.at = "idle" /\ up = <<>> /\ xfer = NoXfer /\ down = <<>>
  BY <1>0, <1>1 DEF Backend, Frontend, Awaits, Idle, UpFits, Shown
<1>3. Ups = {} /\ Downs = {}
  BY <1>2, EmptyAt DEF Ups, Downs
<1>4. TypeOK'
  BY <1>0, <1>1 DEF TypeOK
<1>5. Awaits' /\ TaskFits' /\ LateIsLost' /\ HandlerAlone'
  BY <1>0, <1>1 DEF Backend, Awaits, TaskFits, LateIsLost, HandlerAlone, Aborting, Reqs,
     TaskRequest
<1>6. PendingFits' /\ FileFollows' /\ FilesHandled' /\ Recent'
  BY <1>0, <1>1 DEF Backend, FileFollows, FilesHandled, PendingFits, Pending, Own,
     Handled, Stored,
     Recent, Aborting, Reqs
<1>7. UpFits' /\ DownFits'
  BY <1>1, <1>3 DEF UpFits, DownFits, Ups, Downs, NoStart
<1>8. Shown'
  BY <1>0, <1>1, <1>2, <1>3 DEF Frontend, Shown, NoStart, Ups, Aborting
<1>9. Counted'
  BY <1>0, <1>1, <1>2, <1>3 DEF Frontend, Counted, Ups, Downs, NoStart
<1> QED BY <1>4, <1>5, <1>6, <1>7, <1>8, <1>9 DEF TransferInv, Backend, Frontend
-----------------------------------------------------------------------------
(* The session's answers to the browser.                                     *)

\* The session says at most m, which is no chunk.
Says(m) == down' = down \/ (online /\ down' = Append(down, m))

\* The messages to the browser when the session says at most m.
LEMMA SaysAt ==
  ASSUME TypeOK, NEW m \in DownMessage, Says(m)
  PROVE  /\ down' \in Seq(DownMessage) /\ Len(down) \in Nat /\ Len(down') \in Nat
         /\ \A k \in Downs' : \/ k \in Downs /\ down'[k] = down[k]
                              \/ k = Len(down) + 1 /\ k = Len(down') /\ down'[k] = m /\ online
         /\ Downs \subseteq Downs' /\ \A k \in Downs : down'[k] = down[k]
<1>0. down \in Seq(DownMessage)
  BY DEF TypeOK
<1>1. CASE down' = down
  BY <1>0, <1>1 DEF Downs
<1>2. CASE online /\ down' = Append(down, m)
  <2>1. /\ down' \in Seq(DownMessage) /\ Len(down') = Len(down) + 1 /\ Len(down) \in Nat
        /\ \A k \in 1..Len(down) : down'[k] = down[k]
        /\ down'[Len(down) + 1] = m
    BY <1>0, <1>2, AppendAt
  <2> QED BY <1>2, <2>1 DEF Downs
<1> QED BY <1>1, <1>2 DEF Says

\* A message that is sent if the browser is there is at most said.
LEMMA ToldSays ==
  ASSUME NEW m, ToBrowser(m) \/ UNCHANGED down
  PROVE  Says(m)
BY DEF ToBrowser, Says

\* What m must satisfy for the messages to the browser to stay in order.
Fitting(m) ==
    /\ m \in DownMessage /\ m.t \notin {"data", "dldone"}
    /\ m.id <= hist.started
    /\ m.t = "complete" => m.id \in hist'.done
    /\ online /\ m.id # 0 /\ m.id = hist.started => NoStart' /\ (Terminal(m) => HandlerFree')

\* A fitting message keeps those on their way to the browser in order.
LEMMA SaysDownFits ==
  ASSUME TransferInv, UNCHANGED <<xfer, online>>, hist'.started = hist.started,
         hist.done \subseteq hist'.done,
         NoStart => NoStart', HandlerFree /\ NoStart => HandlerFree',
         NEW m, Fitting(m), Says(m)
  PROVE  DownFits'
<1>1. /\ Len(down) \in Nat /\ Len(down') \in Nat
      /\ \A k \in Downs' : \/ k \in Downs /\ down'[k] = down[k]
                           \/ k = Len(down) + 1 /\ k = Len(down') /\ down'[k] = m /\ online
      /\ Downs \subseteq Downs' /\ \A k \in Downs : down'[k] = down[k]
  BY SaysAt DEF TransferInv, Fitting
<1>2. DownFits
  BY DEF TransferInv, Frontend
<1> SUFFICES ASSUME NEW k \in Downs'
             PROVE  /\ down'[k].id <= hist.started
                    /\ down'[k].t = "data" => /\ xfer.kind = "download" /\ down'[k].id = hist.started
                                              /\ down'[k].id # 0
                    /\ down'[k].id = hist.started /\ down'[k].id # 0 => NoStart'
                    /\ Terminal(down'[k]) /\ down'[k].id = hist.started /\ down'[k].id # 0 =>
                         HandlerFree' /\ \A j \in k + 1 .. Len(down') : down'[j].t # "data"
                    /\ down'[k].t = "complete" => down'[k].id \in hist'.done
                    /\ down'[k].t = "dldone" => down'[k].n = Size
  BY DEF DownFits, Terminal
<1>3. CASE k \in Downs /\ down'[k] = down[k]
  <2>1. \A j \in k + 1 .. Len(down') : j \in Downs'
    BY <1>1, <1>3 DEF Downs
  <2>2. \A j \in k + 1 .. Len(down') : (j \in k + 1 .. Len(down) /\ down'[j] = down[j]) \/ down'[j] = m
    BY <1>1, <1>3, <2>1 DEF Downs
  <2>3. m.t # "data"
    BY DEF Fitting
  <2>4. /\ down[k].id <= hist.started
        /\ down[k].t = "data" => /\ xfer.kind = "download" /\ down[k].id = hist.started
                                 /\ down[k].id # 0
        /\ down[k].id = hist.started /\ down[k].id # 0 => NoStart
        /\ Terminal(down[k]) /\ down[k].id = hist.started /\ down[k].id # 0 =>
             HandlerFree /\ \A j \in k + 1 .. Len(down) : down[j].t # "data"
        /\ down[k].t = "complete" => down[k].id \in hist.done
        /\ down[k].t = "dldone" => down[k].n = Size
    BY <1>2, <1>3 DEF DownFits
  <2>5. ASSUME Terminal(down[k]), down[k].id = hist.started, down[k].id # 0
        PROVE  HandlerFree' /\ \A j \in k + 1 .. Len(down') : down'[j].t # "data"
    BY <2>2, <2>3, <2>4, <2>5
  <2> QED BY <1>3, <2>4, <2>5
<1>4. CASE k = Len(down) + 1 /\ k = Len(down') /\ down'[k] = m /\ online
  <2>1. k + 1 .. Len(down') = {}
    BY <1>1, <1>4
  <2> QED BY <1>4, <2>1 DEF Fitting
<1> QED BY <1>1, <1>3, <1>4

\* The download goes on from the same offset, or none is under way.
SameOffset ==
    task'.at \in {"dlopen", "dlread"} =>
        /\ task.at \in {"dlopen", "dlread"} \/ (online => ~NoStart)
        /\ dl'.offset = IF task.at \in {"dlopen", "dlread"} THEN dl.offset ELSE 0

\* It is no chunk, so it changes no count.
LEMMA SaysCounted ==
  ASSUME TransferInv, UNCHANGED <<xfer, online>>, hist'.started = hist.started,
         hist'.saved = hist.saved, NoStart => NoStart', SameOffset,
         NEW m, Fitting(m), Says(m)
  PROVE  Counted'
<1>1. /\ Len(down) \in Nat /\ Len(down') \in Nat
      /\ \A k \in Downs' : \/ k \in Downs /\ down'[k] = down[k]
                           \/ k = Len(down) + 1 /\ k = Len(down') /\ down'[k] = m /\ online
      /\ Downs \subseteq Downs' /\ \A k \in Downs : down'[k] = down[k]
  BY SaysAt DEF TransferInv, Fitting
<1>2. Counted /\ DownFits /\ Shown
  BY DEF TransferInv, Frontend
<1>3. ASSUME NEW k \in Downs', down'[k].t = "data"
      PROVE  Numbered(k)'
  <2>1. k \in Downs /\ down'[k] = down[k] /\ \A j \in 1 .. k - 1 : j \in Downs
    BY <1>1, <1>3 DEF Fitting, Downs
  <2>2. Numbered(k) /\ NoStart
    BY <1>2, <1>3, <2>1 DEF Counted, DownFits
  <2>3. /\ xfer.got < down[k].n
        /\ \A j \in 1 .. k - 1 : down[j].t = "data" => down[j].n < down[k].n
        /\ task.at \in {"dlopen", "dlread"} => down[k].n <= dl.offset
    BY <1>3, <2>1, <2>2 DEF Numbered
  <2>4. online
    BY <1>2, <2>1, EmptyAt DEF Shown, Downs
  <2>5. task'.at \in {"dlopen", "dlread"} => down[k].n <= dl'.offset
    BY <2>2, <2>3, <2>4 DEF SameOffset
  <2> QED BY <1>1, <2>1, <2>3, <2>5 DEF Numbered
<1>4. xfer.got \in Nat /\ (online /\ ~NoStart => xfer.got = 0)
  BY <1>2, Elements DEF TransferInv, Counted
<1>5. online /\ task'.at \in {"dlopen", "dlread"} => xfer.got <= dl'.offset
  BY <1>2, <1>4 DEF Counted, SameOffset
<1>6. \A k \in Downs' : Numbered(k)'
  <2> SUFFICES ASSUME NEW k \in Downs', down'[k].t # "data" PROVE Numbered(k)'
    BY <1>3
  <2> QED BY DEF Numbered
<1> QED BY <1>2, <1>4, <1>5, <1>6 DEF Counted

\* The messages to the session when one was taken from its queue, or all were dropped.
LEMMA UpsAfterTake ==
  ASSUME TransferInv, up' = up \/ up' = <<>> \/ (up # <<>> /\ up' = Tail(up))
  PROVE  /\ up' \in Seq(UpMessage) /\ Len(up) \in Nat /\ Len(up') \in Nat
         /\ \E d \in Nat : /\ Len(up') = Len(up) - d
                           /\ \A k \in Ups' : k + d \in Ups /\ up'[k] = up[k + d]
         /\ NoStart => NoStart'
<1>0. up \in Seq(UpMessage)
  BY DEF TransferInv, TypeOK
<1>1. /\ up' \in Seq(UpMessage) /\ Len(up) \in Nat /\ Len(up') \in Nat
      /\ \E d \in Nat : /\ Len(up') = Len(up) - d
                        /\ \A k \in Ups' : k + d \in Ups /\ up'[k] = up[k + d]
  <2>1. CASE up' = up
    BY <1>0, <2>1 DEF Ups
  <2>2. CASE up' = <<>>
    <3>1. /\ up' \in Seq(UpMessage) /\ Len(up') = 0 /\ Len(up) \in Nat /\ Ups' = {}
      BY <1>0, <2>2, EmptyAt DEF Ups
    <3>2. Len(up') = Len(up) - Len(up) /\ \A k \in Ups' : k + Len(up) \in Ups /\ up'[k] = up[k + Len(up)]
      BY <3>1
    <3> QED BY <3>1, <3>2
  <2>3. CASE up # <<>> /\ up' = Tail(up)
    <3>1. /\ up' \in Seq(UpMessage) /\ Len(up) \in Nat \ {0} /\ Len(up') = Len(up) - 1
          /\ \A k \in 1..Len(up') : up'[k] = up[k + 1] /\ k + 1 \in 1..Len(up)
      BY <1>0, <2>3, TailAt
    <3> QED BY <3>1 DEF Ups
  <2> QED BY <2>1, <2>2, <2>3
<1>2. NoStart => NoStart'
  BY <1>1 DEF NoStart, Begins
<1> QED BY <1>1, <1>2

\* Messages the session takes or drops leave the others fitting.
LEMMA TakeUpFits ==
  ASSUME TransferInv, up' = up \/ up' = <<>> \/ (up # <<>> /\ up' = Tail(up)),
         sess' = "detached" => up' = <<>>, hist'.started = hist.started,
         ~NoStart' => Unheard'
  PROVE  UpFits'
<1>1. Len(up) \in Nat /\ Len(up') \in Nat
  BY UpsAfterTake
<1>2. PICK d \in Nat : /\ Len(up') = Len(up) - d
                       /\ \A k \in Ups' : k + d \in Ups /\ up'[k] = up[k + d]
  BY UpsAfterTake
<1>3. UpFits
  BY DEF TransferInv, Frontend
<1>4. ASSUME NEW k \in Ups', up'[k].id = hist.started, NEW j \in Ups', Begins(up'[j])
      PROVE  j = k
  <2>1. PICK a \in Ups : a = k + d /\ up'[k] = up[a]
    BY <1>2
  <2>2. PICK b \in Ups : b = j + d /\ up'[j] = up[b]
    BY <1>2
  <2>3. a = b
    BY <1>3, <1>4, <2>1, <2>2 DEF UpFits, Begins
  <2> QED BY <2>1, <2>2, <2>3 DEF Ups
<1>5. \A k \in Ups' : up'[k].id <= hist.started /\ (Begins(up'[k]) => up'[k].id = hist.started)
  BY <1>2, <1>3 DEF UpFits, Begins
<1> QED BY <1>4, <1>5 DEF UpFits, Begins

\* A step of the session that says at most m.
SessionStep(m) ==
    /\ UNCHANGED <<xfer, online>>
    /\ hist'.started = hist.started /\ hist'.saved = hist.saved /\ hist.done \subseteq hist'.done
    /\ up' = up \/ up' = <<>> \/ (up # <<>> /\ up' = Tail(up))
    /\ sess' = "detached" => up' = <<>>
    /\ ~NoStart' => Unheard'
    /\ HandlerFree /\ NoStart => HandlerFree'
    /\ SameOffset
    /\ online /\ (upload' # NoUpload \/ task'.at = "open" \/ Aborting') => xfer.kind = "upload"
    /\ online /\ task'.at \in {"dlopen", "dlread"} => xfer.kind = "download"
    /\ Fitting(m) /\ Says(m)

\* What the session works on is what the browser shows.
LEMMA SessionShown ==
  ASSUME TransferInv, UNCHANGED <<xfer, online>>, hist'.started = hist.started,
         up' = up \/ up' = <<>> \/ (up # <<>> /\ up' = Tail(up)),
         online /\ (upload' # NoUpload \/ task'.at = "open" \/ Aborting') => xfer.kind = "upload",
         online /\ task'.at \in {"dlopen", "dlread"} => xfer.kind = "download",
         ~online => down' = down
  PROVE  Shown'
<1>1. Shown
  BY DEF TransferInv, Frontend
<1>2. NoStart => NoStart'
  BY UpsAfterTake
<1>3. PICK d \in Nat : /\ Len(up') = Len(up) - d
                       /\ \A k \in Ups' : k + d \in Ups /\ up'[k] = up[k + d]
  BY UpsAfterTake
<1>4. online => \A k \in Ups' : Begins(up'[k]) =>
                  xfer.kind = IF up'[k].t = "start" THEN "upload" ELSE "download"
  BY <1>1, <1>3 DEF Shown, Begins
<1> QED BY <1>1, <1>2, <1>4 DEF Shown, Begins

\* These four make a step of the session keep the invariant, when it keeps types and
\* backend.
LEMMA SessionInv ==
  ASSUME TransferInv, TypeOK', Backend', NEW m, SessionStep(m)
  PROVE  TransferInv'
<1>1. NoStart => NoStart'
  BY UpsAfterTake DEF SessionStep
<1>2. DownFits' /\ Counted'
  BY <1>1, SaysDownFits, SaysCounted DEF SessionStep
<1>3. UpFits'
  BY TakeUpFits DEF SessionStep
<1>4. Shown'
  <2>1. ~online => down' = down
    BY DEF SessionStep, Says
  <2> QED BY <2>1, SessionShown DEF SessionStep
<1> QED BY <1>2, <1>3, <1>4 DEF TransferInv, Frontend

\* What the session may say of no transfer.
LEMMA SilentFits ==
  ASSUME TypeOK, NEW t \in {"error", "closed", "ready"}
  PROVE  Fitting([t |-> t, id |-> 0, n |-> 0])
BY Bounds, Elements DEF Fitting, DownMessage
-----------------------------------------------------------------------------
(* The channel or the connection is lost.                                    *)

\* dispose() drops the task, the upload and the download: their transfers are lost.
LEMMA DisposeInv ==
  ASSUME TransferInv, Dispose, UNCHANGED <<xfer, online>>,
         sess' \in {"ready", "nohandler", "detached"}, sess' # "ready",
         up' = up \/ up' = <<>>, sess' = "detached" => up' = <<>>,
         hist' = Dropping \/ (hist.drops < MaxDrops /\ hist' = [Dropping EXCEPT !.drops = @ + 1]),
         Says([t |-> "closed", id |-> 0, n |-> 0])
  PROVE  TransferInv'
<1>0. TypeOK /\ Backend /\ Frontend /\ hist \in History
  BY DEF TransferInv, TypeOK
<1>1. /\ task' = Idle /\ upload' = NoUpload /\ dl' = NoDownload /\ reply' = "none"
      /\ UNCHANGED <<srv, dest, temp>>
  BY DEF Dispose, fileVars
<1>2. Idle.at = "idle" /\ Idle.id = 0 /\ NoUpload.id = 0 /\ ~NoUpload.closed /\ NoDownload.id = 0
  BY DEF Idle, NoUpload, NoDownload
<1>3. /\ hist' \in History /\ hist'.started = hist.started /\ hist'.done = hist.done
      /\ hist'.saved = hist.saved /\ hist'.lost = hist.lost \union {task.id, upload.id}
  <2>1. task.id \in 0..MaxTransfers /\ upload.id \in 0..MaxTransfers
    BY <1>0 DEF TypeOK, Task, UploadState
  <2>2. Dropping \in History
    BY <1>0, <2>1, HistUpdates DEF Dropping
  <2>3. /\ Dropping.started = hist.started /\ Dropping.done = hist.done /\ Dropping.drops = hist.drops
        /\ Dropping.saved = hist.saved /\ Dropping.lost = hist.lost \union {task.id, upload.id}
    BY <1>0 DEF Dropping, History
  <2>4. CASE hist' = Dropping
    BY <2>2, <2>3, <2>4
  <2>5. CASE hist.drops < MaxDrops /\ hist' = [Dropping EXCEPT !.drops = @ + 1]
    <3>1. hist' \in History
      BY <2>2, <2>3, <2>5, HistUpdates
    <3> QED BY <2>2, <2>3, <2>5, <3>1 DEF History
  <2> QED BY <2>4, <2>5
<1>4. TypeOK'
  <2>1. up' \in Seq(UpMessage)
    BY <1>0, UpsAfterTake
  <2>2. down' \in Seq(DownMessage)
    BY <1>0, SaysAt, Bounds DEF DownMessage
  <2> QED BY <1>0, <1>1, <1>3, <2>1, <2>2, NoneTyped DEF TypeOK
<1>5. Awaits' /\ TaskFits' /\ HandlerAlone'
  BY <1>0, <1>1, <1>2 DEF Awaits, TaskFits, HandlerAlone, Aborting, Downloading
<1>6. PendingFits'
  BY <1>0, <1>1, <1>3 DEF Backend, PendingFits, Pending, Own, Reqs
<1>7. LateIsLost'
  <2>1. \A k \in Reqs : srv[k].id \in hist.lost \/ srv[k].id = task.id
    <3>1. Awaits /\ LateIsLost
      BY <1>0 DEF Backend
    <3>2. ASSUME NEW k \in Reqs, k = Len(srv), task.at # "idle" PROVE srv[k].id = task.id
      <4>1. srv # <<>> /\ reply \in {"none", "ok", "fail"}
        BY <1>0, EmptyAt DEF TypeOK, Reqs
      <4> QED BY <3>1, <3>2, <4>1 DEF Awaits, TaskRequest
    <3> QED BY <3>1, <3>2 DEF LateIsLost
  <2> QED BY <1>1, <1>3, <2>1 DEF LateIsLost, Reqs
<1>8. FileFollows'
  BY <1>1, <1>2 DEF FileFollows, Aborting
<1>9. FilesHandled'
  <2>1. Stored' = Stored
    BY <1>1, <1>3 DEF Stored
  <2>2. \A i : Handled(i) => i \in hist'.lost
    BY <1>3 DEF Handled
  <2> QED BY <1>0, <1>1, <1>3, <2>1, <2>2 DEF Backend, FilesHandled
<1>10. Recent'
  <2>1. 0 <= hist.started
    BY <1>0, Elements
  <2> QED BY <1>0, <1>1, <1>2, <1>3, <2>1 DEF Backend, Recent, Reqs
<1> DEFINE m == [t |-> "closed", id |-> 0, n |-> 0]
<1>11. SessionStep(m)
  <2>1. Fitting(m)
    BY <1>0, SilentFits
  <2>2. HandlerFree' /\ SameOffset /\ ~Aborting' /\ task'.at # "open" /\ upload' = NoUpload
    BY <1>1, <1>2 DEF HandlerFree, SameOffset, Aborting
  <2>3. ~NoStart' => Unheard'
    <3>1. NoStart => NoStart'
      BY UpsAfterTake
    <3>2. ~NoStart => Unheard
      BY <1>0 DEF Frontend, UpFits
    <3> QED BY <1>1, <1>3, <2>2, <3>1, <3>2 DEF Unheard, Reqs
  <2>4. task'.at \notin {"dlopen", "dlread"}
    BY <1>1, <1>2
  <2> HIDE DEF m
  <2> QED BY <1>3, <2>1, <2>2, <2>3, <2>4 DEF SessionStep, m
<1> HIDE DEF m
<1> QED BY <1>4, <1>5, <1>6, <1>7, <1>8, <1>9, <1>10, <1>11, SessionInv DEF Backend

\* The SFTP channel closes under a session whose browser stays.
LEMMA ChannelClosesInv ==
  ASSUME TransferInv, ChannelCloses
  PROVE  TransferInv'
BY DisposeInv, ToldSays DEF ChannelCloses, browserVars

\* The session is detached from its browser.
LEMMA SessionDetachesInv ==
  ASSUME TransferInv, SessionDetaches
  PROVE  TransferInv'
<1>1. Says([t |-> "closed", id |-> 0, n |-> 0])
  BY DEF SessionDetaches, Says
<1> QED BY <1>1, DisposeInv DEF SessionDetaches, browserVars
-----------------------------------------------------------------------------
(* The tasks of the session.                                                 *)

\* The task sends a request for the file it knows, and waits for it.
LEMMA RequestQueue ==
  ASSUME TransferInv, NEW op \in Op, NEW id \in Transfer, NEW tmp \in BOOLEAN,
         NEW ans \in {"error", "cancelled"},
         Request(op, id, tmp, ans), reply' = "none", sess' = "ready",
         UNCHANGED <<dest, temp>>, hist'.done = hist.done,
         \A k \in Reqs : srv[k].id \in hist'.lost,
         op \in {"write", "rename"} => \A k \in Reqs : srv[k].op \in NoEffect,
         op = "write" /\ tmp => temp[id] < Size,
         op = "write" /\ ~tmp => Own(id) /\ dest.n < Size,
         op = "rename" => tmp /\ temp[id] = Size,
         op = "remove" /\ ~tmp =>
            /\ Own(id)
            /\ \A k \in Reqs : \/ srv[k].op \in NoEffect
                               \/ srv[k].op = "write" /\ srv[k].id = id /\ ~srv[k].temporary
  PROVE  /\ srv' \in Seq(ServerRequest) /\ task' \in Task
         /\ task'.at = op /\ task'.id = id /\ task'.temporary = tmp /\ task'.answer = ans
         /\ Awaits' /\ LateIsLost' /\ PendingFits'
         /\ Len(srv') = Len(srv) + 1
         /\ \A k \in Reqs' : \/ k \in Reqs /\ srv'[k] = srv[k] /\ k # Len(srv')
                             \/ k = Len(srv') /\ srv'[k] = [op |-> op, id |-> id, temporary |-> tmp]
<1> DEFINE r == [op |-> op, id |-> id, temporary |-> tmp]
<1>0. srv \in Seq(ServerRequest) /\ PendingFits
  BY DEF TransferInv, TypeOK, Backend
<1>1. task' = [at |-> op, id |-> id, temporary |-> tmp, answer |-> ans] /\ srv' = Append(srv, r)
  BY DEF Request
<1>2. /\ task' \in Task /\ task'.at = op /\ task'.id = id /\ task'.temporary = tmp
      /\ task'.answer = ans
  BY <1>1, Bounds DEF Task
<1>3. r \in ServerRequest /\ r.op = op /\ r.id = id /\ r.temporary = tmp
  BY DEF ServerRequest
<1>4. r = TaskRequest'
  BY <1>2 DEF TaskRequest
<1> HIDE DEF r
<1>5. /\ srv' \in Seq(ServerRequest) /\ Len(srv') = Len(srv) + 1 /\ Len(srv) \in Nat
      /\ \A k \in 1..Len(srv) : srv'[k] = srv[k]
      /\ srv'[Len(srv) + 1] = r
  BY <1>0, <1>1, <1>3, AppendAt
<1>6. \A k \in Reqs' : \/ k \in Reqs /\ srv'[k] = srv[k] /\ k # Len(srv')
                       \/ k = Len(srv') /\ srv'[k] = r
  BY <1>5 DEF Reqs
<1>7. Awaits'
  <2>1. op # "idle"
    BY DEF Op
  <2>2. srv' # <<>>
    BY <1>5, EmptyAt
  <2> QED BY <1>2, <1>4, <1>5, <2>1, <2>2 DEF Awaits
<1>8. LateIsLost'
  <2>1. op # "idle"
    BY DEF Op
  <2> QED BY <1>2, <1>6, <2>1 DEF LateIsLost
<1>9. PendingFits'
  <2> SUFFICES ASSUME NEW k \in Reqs' PROVE Pending(k)'
    BY DEF PendingFits
  <2>1. CASE k \in Reqs /\ srv'[k] = srv[k]
    <3>1. \A j \in 1 .. k - 1 : j \in Reqs /\ srv'[j] = srv[j]
      BY <1>5, <2>1 DEF Reqs
    <3>2. Pending(k)
      BY <1>0, <2>1 DEF PendingFits
    <3> QED BY <2>1, <3>1, <3>2 DEF Pending, Own
  <2>2. CASE k = Len(srv') /\ srv'[k] = r
    <3>1. \A j \in 1 .. k - 1 : j \in Reqs /\ srv'[j] = srv[j] /\ srv[j] \in ServerRequest
      BY <1>0, <1>5, <2>2 DEF Reqs
    <3>2. \A q \in ServerRequest : q.op = "write" /\ q.id = id /\ ~q.temporary /\ ~tmp =>
             q = [r EXCEPT !.op = "write"]
      BY DEF ServerRequest, r
    <3>3. op = "remove" /\ ~tmp =>
            /\ Own(id)
            /\ \A j \in 1 .. k - 1 : \/ srv'[j].op \in NoEffect
                                     \/ srv'[j] = [r EXCEPT !.op = "write"]
      BY <3>1, <3>2
    <3> QED BY <1>3, <2>2, <3>1, <3>3 DEF Pending, Own
  <2> QED BY <1>6, <2>1, <2>2
<1> QED BY <1>2, <1>5, <1>6, <1>7, <1>8, <1>9 DEF r

\* The task ends.
LEMMA IdleQueue ==
  ASSUME TransferInv, TaskDone, reply' = "none", UNCHANGED <<dest, temp, sess>>, sess = "ready",
         hist'.done = hist.done \/ srv = <<>>,
         \A k \in Reqs : srv[k].id \in hist'.lost,
         upload' # NoUpload => srv = <<>>
  PROVE  /\ srv' \in Seq(ServerRequest) /\ task' \in Task
         /\ srv' = srv /\ task' = Idle /\ task'.at = "idle" /\ task'.id = 0
         /\ Awaits' /\ LateIsLost' /\ PendingFits' /\ HandlerAlone'
<1>0. srv \in Seq(ServerRequest) /\ PendingFits
  BY DEF TransferInv, TypeOK, Backend
<1>1. srv' = srv /\ task' = Idle /\ task'.at = "idle" /\ task'.id = 0 /\ task' \in Task
  BY NoneTyped DEF TaskDone, Idle
<1>2. srv = <<>> => Reqs' = {}
  BY <1>1, EmptyAt DEF Reqs
<1>3. Awaits' /\ LateIsLost'
  BY <1>1 DEF Awaits, LateIsLost, Reqs
<1>4. PendingFits'
  BY <1>0, <1>1, <1>2 DEF PendingFits, Pending, Own, Reqs
<1>5. HandlerAlone'
  BY <1>1, <1>2 DEF HandlerAlone, Aborting
<1> QED BY <1>0, <1>1, <1>3, <1>4, <1>5

\* The handler gives its upload up, between two tasks or in one of the upload.
LEMMA AbortInv ==
  ASSUME TransferInv, upload # NoUpload, NEW ans \in {"error", "cancelled"}, AbortUpload(ans),
         task.at \in {"idle", "write", "close", "rename"},
         reply' = "none", dl' = dl, UNCHANGED <<xfer, online, sess, dest, temp>>,
         up' = up \/ (up # <<>> /\ up' = Tail(up)), sess' = "detached" => up' = <<>>,
         hist' \in History, hist'.done = hist.done, hist'.started = hist.started,
         hist'.saved = hist.saved, hist.lost \subseteq hist'.lost,
         \A k \in Reqs : srv[k].id \in hist'.lost
  PROVE  TransferInv'
<1>0. TypeOK /\ Backend /\ Frontend /\ dl = NoDownload
  BY DEF TransferInv, Backend, TaskFits, Downloading
<1>1. sess = "ready" /\ upload.id \in Transfer /\ upload.temporary \in BOOLEAN
      /\ upload.closed \in BOOLEAN
  BY <1>0, HeldFacts DEF Backend, Awaits, TypeOK, UploadState
<1>2. upload.closed => upload.temporary
  BY <1>0 DEF Backend, TaskFits
<1> DEFINE op == IF upload.closed THEN "remove" ELSE "abortclose"
<1>3. /\ upload' = NoUpload /\ down' = down
      /\ Request(op, upload.id, upload.temporary, ans)
  BY DEF AbortUpload
<1>4. op \in Op /\ op \in {"remove", "abortclose"} /\ (op = "remove" => upload.temporary)
  BY <1>2 DEF Op
<1> HIDE DEF op
<1>5. /\ srv' \in Seq(ServerRequest) /\ task' \in Task
      /\ task'.at = op /\ task'.id = upload.id /\ task'.temporary = upload.temporary
      /\ Awaits' /\ LateIsLost' /\ PendingFits'
      /\ \A k \in Reqs' : \/ k \in Reqs /\ srv'[k] = srv[k] /\ k # Len(srv')
                          \/ /\ k = Len(srv')
                             /\ srv'[k] = [op |-> op, id |-> upload.id, temporary |-> upload.temporary]
  BY <1>1, <1>3, <1>4, RequestQueue
<1>6. TypeOK'
  <2>1. up' \in Seq(UpMessage)
    BY UpsAfterTake
  <2> QED BY <1>0, <1>3, <1>5, <2>1, NoneTyped DEF TypeOK
<1>7. NoUpload.id = 0 /\ ~NoUpload.closed
  BY DEF NoUpload
<1>8. TaskFits'
  BY <1>0, <1>3, <1>4, <1>5, <1>7 DEF Backend, TaskFits, Aborting, Downloading
<1>9. HandlerAlone'
  <2>1. \A k \in Reqs : \/ srv[k].op \in NoEffect
                        \/ /\ srv[k].id = upload.id /\ srv[k].temporary = upload.temporary
                           /\ srv[k].op \in {"write", "rename"}
    <3> SUFFICES ASSUME NEW k \in Reqs, srv[k].op \notin NoEffect
                 PROVE  /\ srv[k].id = upload.id /\ srv[k].temporary = upload.temporary
                        /\ srv[k].op \in {"write", "rename"}
      OBVIOUS
    <3>1. k = Len(srv) /\ task.at \in {"write", "rename"}
      BY <1>0 DEF Backend, HandlerAlone
    <3>2. srv[k] = TaskRequest
      <4>1. srv # <<>>
        BY EmptyAt DEF Reqs
      <4> QED BY <1>0, <3>1, <4>1 DEF Backend, Awaits
    <3> QED BY <1>0, <3>1, <3>2 DEF TaskRequest, Backend, TaskFits
  <2> SUFFICES ASSUME NEW k \in Reqs'
               PROVE  \/ srv'[k].op \in NoEffect
                      \/ /\ srv'[k].id = task'.id /\ srv'[k].temporary = task'.temporary
                         /\ srv'[k].op # "open"
                         /\ srv'[k].op = "remove" => k = Len(srv') /\ task'.at = "remove"
    BY <1>3, <1>4, <1>5 DEF HandlerAlone
  <2>2. CASE k \in Reqs /\ srv'[k] = srv[k]
    BY <1>5, <2>1, <2>2
  <2>3. CASE k = Len(srv') /\ srv'[k] = [op |-> op, id |-> upload.id, temporary |-> upload.temporary]
    BY <1>4, <1>5, <2>3 DEF NoEffect
  <2> QED BY <1>5, <2>2, <2>3
<1>10. FileFollows'
  <2>1. /\ upload.temporary => (dest.id = upload.id => dest.renamed)
        /\ ~upload.temporary => Own(upload.id) /\ temp[upload.id] = Absent
    BY <1>0 DEF Backend, FileFollows
  <2> QED BY <1>3, <1>4, <1>5, <2>1 DEF FileFollows, Own, Aborting
<1>11. FilesHandled'
  <2>1. Stored' = Stored
    BY DEF Stored
  <2>2. \A i \in Nat : Handled(i) => Handled(i)' \/ i = 0
    BY <1>0, <1>3, <1>4, <1>5 DEF Handled, Aborting, Backend, TaskFits
  <2>3. FilesHandled
    BY <1>0 DEF Backend
  <2>4. \A i \in Transfer \ hist'.lost : temp[i] # Absent => Handled(i)'
    BY <2>2, <2>3, Bounds, NumbersAreNat DEF FilesHandled
  <2>5. Stored = Partial => dest.id \in hist'.lost \/ Handled(dest.id)'
    <3>1. Stored = Partial => dest.id # 0 /\ dest.id \in Nat
      <4>1. Stored = Partial => dest # NoFile /\ dest # OldFile
        BY Bounds DEF Stored, Partial, None, OldFile, NoFile
      <4> QED BY <1>0, <2>3, <4>1, Elements DEF FilesHandled
    <3> QED BY <2>2, <2>3, <3>1 DEF FilesHandled, Handled, Aborting
  <2> QED BY <2>1, <2>3, <2>4, <2>5 DEF FilesHandled, Handled, Aborting
<1>12. Recent'
  <2>1. Recent /\ upload.id = hist.started /\ upload.id \in Nat
    BY <1>0, Elements DEF Backend, Recent
  <2>2. \A k \in Reqs' : srv'[k].id <= hist.started
    BY <1>5, <2>1 DEF Recent
  <2> QED BY <1>3, <1>5, <2>1, <2>2 DEF Recent
<1> DEFINE m == [t |-> "closed", id |-> 0, n |-> 0]
<1>13. SessionStep(m)
  <2>1. Fitting(m) /\ Says(m)
    BY <1>0, <1>3, SilentFits DEF Says
  <2>2. SameOffset /\ task'.at \notin {"open", "dlopen", "dlread"} /\ ~HandlerFree
    BY <1>4, <1>5 DEF SameOffset, HandlerFree
  <2>3. NoStart'
    BY <1>0, <2>2, UpsAfterTake DEF Frontend, UpFits, Unheard
  <2>4. online => xfer.kind = "upload"
    BY <1>0 DEF Frontend, Shown
  <2> HIDE DEF m
  <2> QED BY <1>3, <2>1, <2>2, <2>3, <2>4 DEF SessionStep
<1> HIDE DEF m
<1> QED BY <1>5, <1>6, <1>8, <1>9, <1>10, <1>11, <1>12, <1>13, SessionInv DEF Backend

\* What a task finds when it starts.
LEMMA TaskFacts ==
  ASSUME TransferInv, NEW t, NextTask(t)
  PROVE  /\ sess # "detached" /\ task = Idle /\ task.at = "idle" /\ reply = "none" /\ up # <<>>
         /\ up' = Tail(up) /\ Asked = up[1] /\ 1 \in Ups /\ Asked.t = t
         /\ Asked \in UpMessage /\ Asked.id \in Transfer /\ Asked.id \in Nat
         /\ Asked.id <= hist.started
         /\ UNCHANGED <<xfer, online, sess, reply, dest, temp, hist>>
         /\ \A k \in Reqs : srv[k].id \in hist.lost
         /\ NoStart => NoStart'
         /\ Asked.id = hist.started => NoStart'
         /\ Begins(Asked) => Asked.id = hist.started /\ Unheard /\ ~NoStart /\ NoStart'
         /\ dl = NoDownload
<1>0. /\ up \in Seq(UpMessage) /\ Awaits /\ LateIsLost /\ UpFits /\ TypeOK /\ TaskFits
      /\ reply \in {"none", "ok", "fail"}
  BY DEF TransferInv, TypeOK, Backend, Frontend
<1>1. /\ sess # "detached" /\ task.at = "idle" /\ up # <<>> /\ Asked.t = t
      /\ up' = Tail(up) /\ UNCHANGED <<xfer, online, sess, reply, dest, temp, hist>>
  BY DEF NextTask, Asked, browserVars, fileVars
<1>2. /\ up' \in Seq(UpMessage) /\ Len(up) \in Nat \ {0} /\ Len(up') = Len(up) - 1
      /\ Head(up) = up[1] /\ Head(up) \in UpMessage
      /\ \A k \in 1..Len(up') : up'[k] = up[k + 1] /\ k + 1 \in 1..Len(up)
  BY <1>0, <1>1, TailAt
<1>3. Asked = up[1] /\ 1 \in Ups /\ Asked \in UpMessage
  BY <1>2 DEF Asked, Ups
<1>4. Asked.id \in Transfer /\ Asked.id \in Nat /\ Asked.id <= hist.started
  BY <1>0, <1>3, Elements DEF UpFits
<1>5. task = Idle /\ reply = "none" /\ dl = NoDownload
  BY <1>0, <1>1 DEF Awaits, TaskFits, Downloading
<1>6. \A k \in Reqs : srv[k].id \in hist.lost
  BY <1>0, <1>1 DEF LateIsLost
<1>7. NoStart => NoStart'
  BY <1>1, UpsAfterTake
<1>8. ASSUME Asked.id = hist.started PROVE NoStart'
  <2> SUFFICES ASSUME NEW k \in Ups', Begins(up'[k]) PROVE FALSE
    BY DEF NoStart, Begins
  <2>1. PICK j \in Ups : j = k + 1 /\ up'[k] = up[j]
    BY <1>2 DEF Ups
  <2>2. j = 1
    BY <1>0, <1>3, <1>8, <2>1 DEF UpFits
  <2> QED BY <2>1, <2>2 DEF Ups
<1>9. Begins(Asked) => Asked.id = hist.started /\ Unheard /\ ~NoStart
  BY <1>0, <1>3 DEF UpFits, NoStart
<1> QED BY <1>1, <1>3, <1>4, <1>5, <1>6, <1>7, <1>8, <1>9

\* A task that changes nothing and says at most m.
LEMMA NothingDoneInv ==
  ASSUME TransferInv, UNCHANGED <<xfer, online, sess, task, upload, dl, reply, srv, dest, temp, hist>>,
         up # <<>>, up' = Tail(up), sess # "detached",
         NEW m, Fitting(m), Says(m)
  PROVE  TransferInv'
<1>0. TypeOK /\ Backend /\ Frontend
  BY DEF TransferInv
<1>1. TypeOK'
  <2>1. up' \in Seq(UpMessage)
    BY UpsAfterTake
  <2>2. down' \in Seq(DownMessage)
    BY <1>0, SaysAt DEF Fitting
  <2> QED BY <1>0, <2>1, <2>2 DEF TypeOK
<1>2. Backend'
  BY <1>0, BackendSame DEF SameBackend, handlerVars, fileVars
<1>3. SessionStep(m)
  <2>1. ~NoStart' => Unheard'
    <3>1. NoStart => NoStart'
      BY UpsAfterTake
    <3> QED BY <1>0, <3>1 DEF Frontend, UpFits, Unheard, HandlerFree, Reqs
  <2>2. SameOffset /\ (HandlerFree => HandlerFree')
    BY DEF SameOffset, HandlerFree
  <2>3. /\ online /\ (upload' # NoUpload \/ task'.at = "open" \/ Aborting') => xfer.kind = "upload"
        /\ online /\ task'.at \in {"dlopen", "dlread"} => xfer.kind = "download"
    BY <1>0 DEF Frontend, Shown, Aborting
  <2> QED BY <2>1, <2>2, <2>3 DEF SessionStep
<1> QED BY <1>1, <1>2, <1>3, SessionInv

\* A task that refuses what it was asked, with an answer about that transfer or none.
LEMMA RefusedInv ==
  ASSUME TransferInv, NEW t, NextTask(t), NEW id, Refused(id),
         \/ id = 0
         \/ id = Asked.id /\ (upload = NoUpload \/ Begins(Asked))
  PROVE  TransferInv'
<1>0. TypeOK
  BY DEF TransferInv
<1>1. /\ sess # "detached" /\ task.at = "idle" /\ up # <<>> /\ up' = Tail(up)
      /\ Asked.id \in Transfer /\ Asked.id <= hist.started
      /\ UNCHANGED <<xfer, online, sess, reply, dest, temp, hist>>
      /\ Asked.id = hist.started => NoStart'
      /\ Begins(Asked) => Unheard
  BY TaskFacts
<1>2. UNCHANGED <<task, upload, dl, srv>> /\ ToBrowser([t |-> "error", id |-> id, n |-> 0])
  BY DEF Refused, Tell
<1>3. Says([t |-> "error", id |-> id, n |-> 0])
  BY <1>2, ToldSays
<1>4. Fitting([t |-> "error", id |-> id, n |-> 0])
  <2>1. CASE id = 0
    BY <1>0, <2>1, SilentFits
  <2>2. CASE id = Asked.id /\ (upload = NoUpload \/ Begins(Asked))
    <3>1. [t |-> "error", id |-> id, n |-> 0] \in DownMessage
      BY <1>1, <2>2, Bounds DEF DownMessage
    <3>2. HandlerFree'
      BY <1>1, <1>2, <2>2 DEF HandlerFree, Unheard
    <3> QED BY <1>1, <2>2, <3>1, <3>2 DEF Fitting
  <2> QED BY <2>1, <2>2
<1> QED BY <1>1, <1>2, <1>3, <1>4, NothingDoneInv

\* startUpload of the handler: refused while one is under way, else the file is opened.
LEMMA HandlerStartUploadInv ==
  ASSUME TransferInv, HandlerStartUpload
  PROVE  TransferInv'
<1>0. TypeOK /\ Backend /\ Frontend
  BY DEF TransferInv
<1>1. NextTask("start")
  BY DEF HandlerStartUpload
<1>2. /\ sess # "detached" /\ task.at = "idle" /\ reply = "none" /\ up # <<>> /\ up' = Tail(up)
      /\ Asked.t = "start" /\ Asked \in UpMessage /\ 1 \in Ups /\ Asked = up[1]
      /\ Asked.id \in Transfer
      /\ UNCHANGED <<xfer, online, sess, reply, dest, temp, hist>>
      /\ \A k \in Reqs : srv[k].id \in hist.lost
      /\ dl = NoDownload
  BY <1>1, TaskFacts
<1>3. Begins(Asked)
  BY <1>2 DEF Begins
<1>4. Asked.id = hist.started /\ Unheard /\ ~NoStart /\ NoStart'
  BY <1>1, <1>3, TaskFacts
<1>5. CASE sess = "nohandler" \/ upload # NoUpload
  <2>1. Refused(Asked.id)
    BY <1>5 DEF HandlerStartUpload
  <2> QED BY <1>1, <1>3, <2>1, RefusedInv
<1>6. CASE ~(sess = "nohandler" \/ upload # NoUpload)
  <2>1. /\ Request("open", Asked.id, Asked.overwrite, "error")
        /\ UNCHANGED <<upload, dl, down>> /\ upload = NoUpload
    BY <1>6 DEF HandlerStartUpload
  <2>2. sess = "ready" /\ Asked.overwrite \in BOOLEAN /\ "open" \in Op
    BY <1>0, <1>2, <1>6 DEF TypeOK, UpMessage, Op
  <2> DEFINE id == Asked.id
             tmp == Asked.overwrite
  <2>3. /\ srv' \in Seq(ServerRequest) /\ task' \in Task
        /\ task'.at = "open" /\ task'.id = id /\ task'.temporary = tmp
        /\ Awaits' /\ LateIsLost' /\ PendingFits'
        /\ \A k \in Reqs' : \/ k \in Reqs /\ srv'[k] = srv[k] /\ k # Len(srv')
                            \/ k = Len(srv') /\ srv'[k] = [op |-> "open", id |-> id, temporary |-> tmp]
    BY <1>2, <2>1, <2>2, RequestQueue
  <2>4. TypeOK'
    <3>1. up' \in Seq(UpMessage)
      BY <1>2, UpsAfterTake
    <3> QED BY <1>0, <1>2, <2>1, <2>3, <3>1 DEF TypeOK
  <2>5. TaskFits'
    BY <1>0, <1>2, <2>1, <2>3 DEF Backend, TaskFits, Aborting, Downloading
  <2>6. HandlerAlone'
    <3>1. \A k \in Reqs : srv[k].id # id
      BY <1>4 DEF Unheard
    <3> QED BY <2>1, <2>3, <3>1 DEF HandlerAlone, Aborting
  <2>7. FileFollows'
    BY <1>2, <1>4, <2>1, <2>3 DEF FileFollows, Aborting, Unheard
  <2>8. FilesHandled'
    <3>1. Stored' = Stored
      BY <1>2 DEF Stored
    <3>2. \A i : Handled(i) => Handled(i)'
      BY <1>2, <2>1 DEF Handled, Aborting
    <3>3. FilesHandled
      BY <1>0 DEF Backend
    <3>4. Handled(dest.id)' <=> \/ upload'.id = dest'.id
                                \/ task'.id = dest'.id /\ (task'.at = "open" \/ Aborting')
      BY DEF Handled
    <3>5. Handled(dest.id) => Handled(dest.id)'
      BY <1>2, <2>1 DEF Handled, Aborting
    <3> QED BY <1>2, <3>1, <3>2, <3>3, <3>5 DEF FilesHandled
  <2>9. Recent'
    <3>1. Recent /\ hist.started <= hist.started
      BY <1>0, Elements DEF Backend
    <3>2. \A k \in Reqs' : srv'[k].id <= hist.started
      BY <1>4, <2>3, <3>1 DEF Recent
    <3>3. hist.started \notin hist.done
      BY <1>4 DEF Unheard
    <3> QED BY <1>2, <1>4, <2>1, <2>3, <3>1, <3>2, <3>3 DEF Recent
  <2> DEFINE m == [t |-> "closed", id |-> 0, n |-> 0]
  <2>10. SessionStep(m)
    <3>1. Fitting(m) /\ Says(m)
      BY <1>0, <2>1, SilentFits DEF Says
    <3>2. SameOffset /\ task'.at \notin {"dlopen", "dlread"}
      BY <2>3 DEF SameOffset
    <3>3. online => xfer.kind = "upload"
      BY <1>0, <1>2, <1>3 DEF Frontend, Shown
    <3> HIDE DEF m
    <3> QED BY <1>2, <1>4, <3>1, <3>2, <3>3 DEF SessionStep
  <2> HIDE DEF m
  <2> QED BY <2>3, <2>4, <2>5, <2>6, <2>7, <2>8, <2>9, <2>10, SessionInv DEF Backend
<1> QED BY <1>5, <1>6

\* The handler sends a request of the upload it holds.
LEMMA HeldRequestInv ==
  ASSUME TransferInv, NEW t, NextTask(t), upload # NoUpload, NEW op \in {"write", "close"},
         Request(op, upload.id, upload.temporary, "error"), UNCHANGED <<upload, down, dl>>,
         op = "write" => upload.received < Size,
         op = "close" => upload.received = Size
  PROVE  TransferInv'
<1>0. TypeOK /\ Backend /\ Frontend
  BY DEF TransferInv
<1>2. /\ sess # "detached" /\ task.at = "idle" /\ reply = "none" /\ up # <<>> /\ up' = Tail(up)
      /\ UNCHANGED <<xfer, online, sess, reply, dest, temp, hist>>
      /\ \A k \in Reqs : srv[k].id \in hist.lost
      /\ dl = NoDownload
  BY TaskFacts
<1>3. sess = "ready" /\ upload.id \in Transfer /\ upload.temporary \in BOOLEAN /\ op \in Op
  BY <1>0, HeldFacts DEF TypeOK, UploadState, Op, Backend, Awaits
<1>4. /\ upload.temporary => temp[upload.id] = upload.received
      /\ ~upload.temporary => Own(upload.id) /\ dest.n = upload.received
  BY <1>0, <1>2 DEF Backend, FileFollows
<1>5. \A k \in Reqs : srv[k].op \in NoEffect
  BY <1>0, <1>2 DEF Backend, HandlerAlone
<1>6. /\ srv' \in Seq(ServerRequest) /\ task' \in Task
      /\ task'.at = op /\ task'.id = upload.id /\ task'.temporary = upload.temporary
      /\ Awaits' /\ LateIsLost' /\ PendingFits'
      /\ \A k \in Reqs' : \/ k \in Reqs /\ srv'[k] = srv[k] /\ k # Len(srv')
                          \/ /\ k = Len(srv')
                             /\ srv'[k] = [op |-> op, id |-> upload.id, temporary |-> upload.temporary]
  BY <1>2, <1>3, <1>4, <1>5, RequestQueue
<1>7. TypeOK'
  <2>1. up' \in Seq(UpMessage)
    BY <1>2, UpsAfterTake
  <2> QED BY <1>0, <1>2, <1>6, <2>1 DEF TypeOK
<1>8. TaskFits' /\ ~Aborting'
  BY <1>0, <1>2, <1>6 DEF Backend, TaskFits, Aborting, Downloading
<1>9. HandlerAlone'
  <2>1. \A k \in Reqs' : srv'[k].op \in NoEffect \/ (k = Len(srv') /\ task'.at \in {"write", "rename"})
    <3> SUFFICES ASSUME NEW k \in Reqs'
                 PROVE  srv'[k].op \in NoEffect \/ (k = Len(srv') /\ op = "write")
      BY <1>6
    <3> QED BY <1>5, <1>6 DEF NoEffect
  <2> QED BY <1>6, <1>8, <2>1 DEF HandlerAlone
<1>10. FileFollows'
  BY <1>0, <1>2, <1>6, <1>8 DEF Backend, FileFollows, Own
<1>11. FilesHandled'
  <2>1. Stored' = Stored
    BY <1>2 DEF Stored
  <2>2. \A i : Handled(i) => Handled(i)'
    BY <1>2 DEF Handled, Aborting
  <2>3. Handled(dest.id) => Handled(dest.id)'
    BY <1>2 DEF Handled, Aborting
  <2> QED BY <1>0, <1>2, <2>1, <2>2, <2>3 DEF Backend, FilesHandled
<1>12. Recent'
  <2>1. Recent /\ upload.id = hist.started /\ hist.started <= hist.started /\ hist.started \notin hist.done
    BY <1>0, Elements DEF Backend, Recent
  <2>2. \A k \in Reqs' : srv'[k].id <= hist.started
    BY <1>6, <2>1 DEF Recent
  <2> QED BY <1>2, <1>6, <2>1, <2>2 DEF Recent
<1> DEFINE m == [t |-> "closed", id |-> 0, n |-> 0]
<1>13. SessionStep(m)
  <2>1. Fitting(m) /\ Says(m)
    BY <1>0, SilentFits DEF Says
  <2>2. SameOffset /\ task'.at \notin {"dlopen", "dlread"} /\ ~HandlerFree
    BY <1>6 DEF SameOffset, HandlerFree
  <2>3. NoStart'
    BY <1>0, <1>2, <2>2, UpsAfterTake DEF Frontend, UpFits, Unheard
  <2>4. online => xfer.kind = "upload"
    BY <1>0 DEF Frontend, Shown
  <2> HIDE DEF m
  <2> QED BY <1>2, <2>1, <2>2, <2>3, <2>4 DEF SessionStep
<1> HIDE DEF m
<1> QED BY <1>6, <1>7, <1>8, <1>9, <1>10, <1>11, <1>12, <1>13, SessionInv DEF Backend

\* A task that gives the upload up before it asks the server for anything.
LEMMA TaskAbortsInv ==
  ASSUME TransferInv, NEW t, NextTask(t), upload # NoUpload,
         NEW ans \in {"error", "cancelled"}, AbortUpload(ans), dl' = dl
  PROVE  TransferInv'
<1>1. /\ sess # "detached" /\ task.at = "idle" /\ reply = "none" /\ up # <<>> /\ up' = Tail(up)
      /\ UNCHANGED <<xfer, online, sess, reply, dest, temp, hist>>
      /\ \A k \in Reqs : srv[k].id \in hist.lost
  BY TaskFacts
<1>2. hist \in History
  BY DEF TransferInv, TypeOK
<1> QED BY <1>1, <1>2, AbortInv

\* uploadChunk writes, refuses, or gives up an upload that would grow too long.
LEMMA UploadChunkInv ==
  ASSUME TransferInv, UploadChunk
  PROVE  TransferInv'
<1>1. NextTask("chunk")
  BY DEF UploadChunk
<1>2. upload.received \in Nat /\ Size \in Nat
  BY Elements, Bounds DEF TransferInv
<1>3. CASE sess = "nohandler" \/ upload = NoUpload
  BY <1>1, <1>3, RefusedInv DEF UploadChunk
<1>4. CASE ~(sess = "nohandler" \/ upload = NoUpload) /\ upload.received >= Size
  BY <1>1, <1>4, TaskAbortsInv DEF UploadChunk
<1>5. CASE ~(sess = "nohandler" \/ upload = NoUpload) /\ ~(upload.received >= Size)
  BY <1>1, <1>2, <1>5, HeldRequestInv DEF UploadChunk
<1> QED BY <1>3, <1>4, <1>5

\* finishUpload closes the file, or gives up an upload that is not whole.
LEMMA FinishUploadInv ==
  ASSUME TransferInv, FinishUpload
  PROVE  TransferInv'
<1>1. NextTask("end")
  BY DEF FinishUpload
<1>3. CASE sess = "nohandler" \/ upload = NoUpload
  <2>1. upload = NoUpload
    BY <1>3 DEF TransferInv, Backend, Awaits
  <2>2. Refused(Asked.id)
    BY <1>3 DEF FinishUpload
  <2> QED BY <1>1, <2>1, <2>2, RefusedInv
<1>4. CASE ~(sess = "nohandler" \/ upload = NoUpload) /\ (upload.id # Asked.id \/ upload.received # Size)
  BY <1>1, <1>4, TaskAbortsInv DEF FinishUpload
<1>5. CASE ~(sess = "nohandler" \/ upload = NoUpload) /\ ~(upload.id # Asked.id \/ upload.received # Size)
  BY <1>1, <1>5, HeldRequestInv DEF FinishUpload
<1> QED BY <1>3, <1>4, <1>5

\* cancelUpload gives the upload up.
LEMMA CancelUploadInv ==
  ASSUME TransferInv, CancelUpload
  PROVE  TransferInv'
<1>1. NextTask("cancel")
  BY DEF CancelUpload
<1>2. CASE sess = "nohandler"
  <2>1. upload = NoUpload
    BY <1>2 DEF TransferInv, Backend, Awaits
  <2>2. Refused(Asked.id)
    BY <1>2 DEF CancelUpload
  <2> QED BY <1>1, <2>1, <2>2, RefusedInv
<1>3. CASE sess # "nohandler" /\ (upload = NoUpload \/ upload.id # Asked.id)
  <2>1. UNCHANGED <<task, upload, srv, down, dl>>
    BY <1>3 DEF CancelUpload
  <2>2. /\ sess # "detached" /\ up # <<>> /\ up' = Tail(up)
        /\ UNCHANGED <<xfer, online, sess, reply, dest, temp, hist>>
    BY <1>1, TaskFacts
  <2> DEFINE m == [t |-> "closed", id |-> 0, n |-> 0]
  <2>3. Fitting(m) /\ Says(m)
    BY <2>1, SilentFits DEF Says, TransferInv
  <2> HIDE DEF m
  <2> QED BY <2>1, <2>2, <2>3, NothingDoneInv
<1>4. CASE sess # "nohandler" /\ ~(upload = NoUpload \/ upload.id # Asked.id)
  BY <1>1, <1>4, TaskAbortsInv DEF CancelUpload
<1> QED BY <1>2, <1>3, <1>4

\* download opens the file, or is refused.
LEMMA DownloadInv ==
  ASSUME TransferInv, Download
  PROVE  TransferInv'
<1>0. TypeOK /\ Backend /\ Frontend
  BY DEF TransferInv
<1>1. NextTask("download")
  BY DEF Download
<1>2. /\ sess # "detached" /\ task.at = "idle" /\ reply = "none" /\ up # <<>> /\ up' = Tail(up)
      /\ Asked.t = "download" /\ Asked \in UpMessage /\ 1 \in Ups /\ Asked = up[1]
      /\ Asked.id \in Transfer
      /\ UNCHANGED <<xfer, online, sess, reply, dest, temp, hist>>
      /\ \A k \in Reqs : srv[k].id \in hist.lost
      /\ dl = NoDownload
  BY <1>1, TaskFacts
<1>3. Begins(Asked)
  BY <1>2 DEF Begins
<1>4. Asked.id = hist.started /\ Unheard /\ ~NoStart /\ NoStart'
  BY <1>1, <1>3, TaskFacts
<1>5. CASE sess = "nohandler" \/ dl # NoDownload
  <2>1. Refused(Asked.id)
    BY <1>5 DEF Download
  <2> QED BY <1>1, <1>3, <2>1, RefusedInv
<1>6. CASE ~(sess = "nohandler" \/ dl # NoDownload)
  <2> DEFINE id == Asked.id
  <2>1. /\ Request("dlopen", id, FALSE, "error")
        /\ dl' = [NoDownload EXCEPT !.id = id]
        /\ UNCHANGED <<upload, down>> /\ upload = NoUpload
    BY <1>4, <1>6 DEF Download, Unheard, HandlerFree
  <2>2. sess = "ready" /\ "dlopen" \in Op /\ "dlopen" \in NoEffect
    BY <1>0, <1>2, <1>6 DEF TypeOK, Op, NoEffect
  <2>3. /\ srv' \in Seq(ServerRequest) /\ task' \in Task
        /\ task'.at = "dlopen" /\ task'.id = id
        /\ Awaits' /\ LateIsLost' /\ PendingFits'
        /\ \A k \in Reqs' : \/ k \in Reqs /\ srv'[k] = srv[k] /\ k # Len(srv')
                            \/ k = Len(srv') /\ srv'[k] = [op |-> "dlopen", id |-> id, temporary |-> FALSE]
    BY <1>2, <2>1, <2>2, RequestQueue
  <2>4. dl' \in DownloadState /\ dl'.id = id /\ dl'.offset = 0 /\ dl' # NoDownload /\ id # 0
    BY <1>2, <2>1, NoneTyped, Bounds DEF DownloadState, NoDownload
  <2>5. TypeOK'
    <3>1. up' \in Seq(UpMessage)
      BY <1>2, UpsAfterTake
    <3> QED BY <1>0, <1>2, <2>1, <2>3, <2>4, <3>1 DEF TypeOK
  <2>6. TaskFits' /\ ~Aborting'
    BY <1>0, <1>2, <2>1, <2>3, <2>4, Bounds DEF Backend, TaskFits, Aborting, Downloading
  <2>7. HandlerAlone'
    BY <2>1, <2>3, <2>6 DEF HandlerAlone
  <2>8. FileFollows'
    BY <2>1, <2>3, <2>6 DEF FileFollows
  <2>9. FilesHandled'
    <3>1. Stored' = Stored
      BY <1>2 DEF Stored
    <3>2. \A i : Handled(i) => Handled(i)'
      BY <1>2, <2>1 DEF Handled, Aborting
    <3>3. Handled(dest.id) => Handled(dest.id)'
      BY <1>2, <2>1 DEF Handled, Aborting
    <3> QED BY <1>0, <1>2, <3>1, <3>2, <3>3 DEF Backend, FilesHandled
  <2>10. Recent'
    <3>1. Recent /\ hist.started <= hist.started
      BY <1>0, Elements DEF Backend
    <3>2. \A k \in Reqs' : srv'[k].id <= hist.started
      BY <1>4, <2>3, <3>1 DEF Recent
    <3>3. hist.started \notin hist.done
      BY <1>4 DEF Unheard
    <3> QED BY <1>2, <1>4, <2>1, <2>3, <3>1, <3>2, <3>3 DEF Recent
  <2> DEFINE m == [t |-> "closed", id |-> 0, n |-> 0]
  <2>11. SessionStep(m)
    <3>1. Fitting(m) /\ Says(m)
      BY <1>0, <2>1, SilentFits DEF Says
    <3>2. SameOffset /\ task'.at # "open" /\ upload' = NoUpload
      BY <1>2, <1>4, <2>1, <2>3, <2>4 DEF SameOffset
    <3>3. online => xfer.kind = "download"
      BY <1>0, <1>2, <1>3 DEF Frontend, Shown
    <3> HIDE DEF m
    <3> QED BY <1>2, <1>4, <2>6, <3>1, <3>2, <3>3 DEF SessionStep
  <2> HIDE DEF m
  <2> QED BY <2>3, <2>5, <2>6, <2>7, <2>8, <2>9, <2>10, <2>11, SessionInv DEF Backend
<1> QED BY <1>5, <1>6

\* A cancel is noted by the download it names, between two of its requests.
LEMMA CancelDownloadInv ==
  ASSUME TransferInv, CancelDownload
  PROVE  TransferInv'
<1>0. TypeOK /\ Backend /\ Frontend
  BY DEF TransferInv
<1>1. /\ sess # "detached" /\ up # <<>> /\ up' = Tail(up)
      /\ UNCHANGED <<xfer, online, sess, task, upload, reply, srv, dest, temp, hist>>
  BY DEF CancelDownload, browserVars, fileVars
<1>2. /\ dl' = dl \/ (dl.id = Head(up).id /\ dl' = [dl EXCEPT !.cancelled = TRUE])
      /\ ToBrowser([t |-> "error", id |-> 0, n |-> 0]) \/ UNCHANGED down
  BY DEF CancelDownload, Tell
<1> DEFINE m == [t |-> "error", id |-> 0, n |-> 0]
<1>3. Fitting(m) /\ Says(m)
  BY <1>0, <1>2, SilentFits, ToldSays
<1> HIDE DEF m
<1>4. CASE dl' = dl
  BY <1>1, <1>3, <1>4, NothingDoneInv
<1>5. CASE dl.id = Head(up).id /\ dl' = [dl EXCEPT !.cancelled = TRUE]
  <2>1. dl.id \in Transfer
    <3>1. Head(up) = up[1] /\ 1 \in Ups
      BY <1>0, <1>1, TailAt DEF TypeOK, Ups
    <3> QED BY <1>0, <1>5, <3>1, Elements
  <2>2. dl' \in DownloadState /\ dl'.id = dl.id /\ dl'.offset = dl.offset /\ dl # NoDownload
        /\ dl' # NoDownload
    <3>1. dl \in DownloadState /\ dl.id # 0
      BY <1>0, <2>1, Bounds DEF TypeOK
    <3>2. dl' \in DownloadState /\ dl'.id = dl.id /\ dl'.offset = dl.offset
      BY <1>5, <3>1 DEF DownloadState
    <3>3. NoDownload.id = 0
      BY DEF NoDownload
    <3> QED BY <3>1, <3>2, <3>3
  <2>3. TypeOK'
    <3>1. up' \in Seq(UpMessage)
      BY <1>1, UpsAfterTake
    <3>2. down' \in Seq(DownMessage)
      BY <1>0, <1>3, SaysAt DEF Fitting
    <3> QED BY <1>0, <1>1, <2>2, <3>1, <3>2 DEF TypeOK
  <2>4. TaskFits' /\ Awaits'
    BY <1>0, <1>1, <2>1, <2>2, Bounds DEF Backend, TaskFits, Awaits, Aborting, TaskRequest
  <2>5. LateIsLost' /\ HandlerAlone' /\ PendingFits'
    BY <1>0, <1>1 DEF Backend, LateIsLost, HandlerAlone, PendingFits, Pending, Own, Reqs,
       Aborting
  <2>6. FileFollows' /\ FilesHandled' /\ Recent'
    BY <1>0, <1>1 DEF Backend, FileFollows, FilesHandled, Handled, Stored, Own, Recent,
       Reqs, Aborting
  <2>7. SessionStep(m)
    <3>1. ~NoStart' => Unheard'
      <4>1. NoStart => NoStart'
        BY <1>1, UpsAfterTake
      <4> QED BY <1>0, <1>1, <4>1 DEF Frontend, UpFits, Unheard, HandlerFree, Reqs
    <3>2. SameOffset /\ (HandlerFree => HandlerFree')
      BY <1>1, <2>2 DEF SameOffset, HandlerFree
    <3>3. /\ online /\ (upload' # NoUpload \/ task'.at = "open" \/ Aborting') => xfer.kind = "upload"
          /\ online /\ task'.at \in {"dlopen", "dlread"} => xfer.kind = "download"
      BY <1>0, <1>1 DEF Frontend, Shown, Aborting
    <3> QED BY <1>1, <1>3, <3>1, <3>2, <3>3 DEF SessionStep
  <2> QED BY <2>3, <2>4, <2>5, <2>6, <2>7, SessionInv DEF Backend
<1> QED BY <1>2, <1>4, <1>5
-----------------------------------------------------------------------------
(* A task goes on, with the answer to its request or without.                *)

Resuming(ok) ==
    /\ task.at # "idle" /\ sess = "ready" /\ reply' = "none"
    /\ UNCHANGED <<xfer, online, up, sess, dest, temp>>
    /\ hist' \in History /\ hist'.started = hist.started /\ hist'.saved = hist.saved
    /\ hist.lost \subseteq hist'.lost
    /\ \A k \in Reqs : srv[k].id \in hist'.lost
    /\ ok => reply = "ok" /\ srv = <<>>
    /\ ~ok => task.id \in hist'.lost \/ (reply = "fail" /\ srv = <<>>)

\* No transfer waits to be begun while a task works on one.
LEMMA AtWork ==
  ASSUME TransferInv, NEW ok, Resuming(ok), task.at # "dlclose"
  PROVE  /\ ~HandlerFree /\ NoStart /\ NoStart' /\ task.id = hist.started /\ task.id \in Transfer
         /\ task.id \in Nat /\ hist.started \notin hist.done
<1>1. ~HandlerFree /\ task.at \notin {"idle", "dlclose"}
  BY DEF HandlerFree, Resuming
<1>2. NoStart
  BY <1>1 DEF TransferInv, Frontend, UpFits, Unheard
<1>3. NoStart'
  BY <1>2, UpsAfterTake DEF Resuming
<1>4. task.id = hist.started /\ hist.started \notin hist.done /\ task.id \in Transfer
  BY <1>1, HeldFacts DEF TransferInv, Backend, Recent
<1>5. task.id \in Nat
  BY Elements DEF TransferInv
<1> QED BY <1>1, <1>2, <1>3, <1>4, <1>5

\* The task of a transfer ends and the handler is left with upload'.
LEMMA TaskEndsInv ==
  ASSUME TransferInv, NEW ok, Resuming(ok), TaskDone, dl' = NoDownload,
         hist.done \subseteq hist'.done, hist'.done = hist.done \/ srv = <<>>,
         upload' \in UploadState,
         upload' # NoUpload => /\ srv = <<>> /\ upload'.id = hist.started /\ upload'.id # 0
                               /\ ~upload'.closed /\ task.at # "dlclose"
                               /\ online => xfer.kind = "upload",
         FileFollows', FilesHandled',
         \A i \in Transfer : i > hist.started => i \notin hist'.done,
         hist.started \in hist'.done =>
            /\ dest.id = hist.started /\ dest.n = Size /\ srv = <<>> /\ upload' = NoUpload,
         NEW m, Fitting(m), Says(m)
  PROVE  TransferInv'
<1>0. TypeOK /\ Backend /\ Frontend
  BY DEF TransferInv
<1>1. /\ sess = "ready" /\ reply' = "none" /\ hist' \in History
      /\ UNCHANGED <<xfer, online, up, sess, dest, temp>>
      /\ hist'.started = hist.started /\ hist'.saved = hist.saved
      /\ \A k \in Reqs : srv[k].id \in hist'.lost
  BY DEF Resuming
<1>2. /\ srv' \in Seq(ServerRequest) /\ task' \in Task
      /\ srv' = srv /\ task' = Idle /\ task'.at = "idle" /\ task'.id = 0
      /\ Awaits' /\ LateIsLost' /\ PendingFits' /\ HandlerAlone'
  BY <1>1, IdleQueue
<1>3. TypeOK'
  <2>1. down' \in Seq(DownMessage)
    BY <1>0, SaysAt DEF Fitting
  <2> QED BY <1>0, <1>1, <1>2, <2>1, NoneTyped DEF TypeOK
<1>4. TaskFits'
  <2>1. NoUpload.id = 0 /\ ~NoUpload.closed
    BY DEF NoUpload
  <2> QED BY <1>2, <2>1 DEF TaskFits, Aborting, Downloading
<1>5. Recent'
  <2>1. Recent /\ 0 <= hist.started
    BY <1>0, Elements DEF Backend
  <2> QED BY <1>1, <1>2, <2>1 DEF Recent, Reqs
<1>6. SessionStep(m)
  <2>1. SameOffset /\ ~Aborting' /\ task'.at \notin {"open", "dlopen", "dlread"}
    BY <1>2 DEF SameOffset, Aborting
  <2>2. upload' = NoUpload => HandlerFree'
    BY <1>2 DEF HandlerFree
  <2>3. upload' # NoUpload => NoStart' /\ ~HandlerFree
    BY AtWork
  <2>4. ~NoStart' => Unheard'
    <3>1. ~NoStart => Unheard
      BY <1>0 DEF Frontend, UpFits
    <3>2. NoStart' <=> NoStart
      BY <1>1 DEF NoStart, Ups, Begins
    <3>3. CASE task.at # "dlclose"
      BY <3>3, AtWork
    <3>4. CASE task.at = "dlclose"
      <4>1. Unheard => hist.started \notin hist'.done
        <5>1. Unheard => dest.id # hist.started
          BY DEF Unheard
        <5> QED BY <5>1
      <4> QED BY <1>1, <1>2, <2>2, <2>3, <3>1, <3>2, <4>1 DEF Unheard, Reqs
    <3> QED BY <3>3, <3>4
  <2> QED BY <1>1, <2>1, <2>2, <2>3, <2>4 DEF SessionStep
<1> QED BY <1>2, <1>3, <1>4, <1>5, <1>6, SessionInv DEF Backend

\* An answer about the task's own transfer.
LEMMA AnswerFits ==
  ASSUME TransferInv, NEW ok, Resuming(ok), task.at # "dlclose",
         NEW t \in {"ready", "progress", "complete", "dlstart", "cancelled", "error"},
         t = "complete" => task.id \in hist'.done,
         online /\ t \in {"complete", "cancelled", "error"} => HandlerFree'
  PROVE  Fitting([t |-> t, id |-> task.id, n |-> 0])
<1>1. task.id = hist.started /\ task.id \in Transfer /\ task.id \in Nat /\ NoStart'
  BY AtWork
<1>2. [t |-> t, id |-> task.id, n |-> 0] \in DownMessage
  BY <1>1, Bounds DEF DownMessage
<1> QED BY <1>1, <1>2 DEF Fitting, Terminal

\* The file of an upload is open, or could not be opened.
LEMMA ResumeOpen ==
  ASSUME TransferInv, NEW ok \in BOOLEAN, Resuming(ok), task.at = "open", TaskDone,
         upload' = IF ok THEN [NoUpload EXCEPT !.id = task.id, !.temporary = task.temporary]
                   ELSE upload,
         Tell(IF ok THEN "ready" ELSE "error", task.id, 0), dl' = dl, hist'.done = hist.done
  PROVE  TransferInv'
<1>0. TypeOK /\ Backend /\ Frontend
  BY DEF TransferInv
<1>1. /\ reply' = "none" /\ UNCHANGED <<xfer, online, up, sess, dest, temp>>
      /\ hist'.started = hist.started /\ hist.lost \subseteq hist'.lost
      /\ ok => reply = "ok" /\ srv = <<>>
      /\ ~ok => task.id \in hist'.lost \/ (reply = "fail" /\ srv = <<>>)
  BY DEF Resuming
<1>2. /\ NoStart /\ NoStart' /\ task.id = hist.started /\ task.id \in Transfer
      /\ hist.started \notin hist.done
  BY AtWork
<1>3. upload = NoUpload /\ dl = NoDownload
  BY <1>0 DEF Backend, TaskFits, Downloading
<1>4. task' = Idle /\ task'.at = "idle"
  BY DEF TaskDone, Idle
<1>5. ok => /\ upload' \in UploadState /\ upload'.id = task.id /\ upload'.temporary = task.temporary
            /\ upload'.received = 0 /\ ~upload'.closed
  <2>1. task.temporary \in BOOLEAN /\ task.id \in 0..MaxTransfers
    BY <1>0 DEF TypeOK, Task
  <2> QED BY <2>1, NoneTyped, Bounds DEF UploadState, NoUpload
<1>6. ~ok => upload' = NoUpload
  BY <1>3
<1>7. FileFollows'
  <2>1. CASE ok
    <3>1. upload'.temporary => temp[upload'.id] = upload'.received /\ dest.id # upload'.id
      BY <1>0, <1>1, <1>5, <2>1 DEF Backend, FileFollows
    <3>2. ~upload'.temporary => Own(task.id) /\ temp[upload'.id] = Absent /\ dest.n = upload'.received
      BY <1>0, <1>1, <1>5, <2>1 DEF Backend, FileFollows
    <3> QED BY <1>1, <1>4, <1>5, <2>1, <3>1, <3>2 DEF FileFollows, Own, Aborting
  <2>2. CASE ~ok
    BY <1>4, <1>6, <2>2 DEF FileFollows, Aborting
  <2> QED BY <2>1, <2>2
<1>8. FilesHandled'
  <2>1. Stored' = Stored
    BY <1>1 DEF Stored
  <2>2. FilesHandled /\ NoUpload.id = 0
    BY <1>0 DEF Backend, NoUpload
  <2>3. ~ok /\ task.id \notin hist'.lost => temp[task.id] = Absent /\ dest.id # task.id
    BY <1>0, <1>1 DEF Backend, FileFollows
  <2>4. \A i \in Nat : i # 0 /\ Handled(i) => i = task.id
    BY <1>3, <2>2 DEF Handled
  <2>5. \A i \in Transfer \ hist'.lost : temp[i] # Absent => upload'.id = i
    BY <1>1, <1>5, <2>2, <2>3, <2>4, Bounds, NumbersAreNat DEF FilesHandled
  <2>6. Stored = Partial => dest.id \in hist'.lost \/ upload'.id = dest.id
    <3>1. Stored = Partial => dest.id # 0 /\ dest.id \in Nat
      <4>1. Stored = Partial => dest # NoFile /\ dest # OldFile
        BY Bounds DEF Stored, Partial, None, OldFile, NoFile
      <4> QED BY <1>0, <2>2, <4>1, Elements DEF FilesHandled
    <3> QED BY <1>1, <1>5, <2>2, <2>3, <2>4, <3>1 DEF FilesHandled
  <2> QED BY <1>1, <2>1, <2>2, <2>5, <2>6 DEF FilesHandled, Handled
<1> DEFINE m == [t |-> IF ok THEN "ready" ELSE "error", id |-> task.id, n |-> 0]
<1>9. Fitting(m) /\ Says(m)
  <2>1. ~ok => HandlerFree'
    BY <1>4, <1>6 DEF HandlerFree
  <2>2. Fitting(m)
    BY <2>1, AnswerFits
  <2> QED BY <2>2, ToldSays DEF Tell
<1> HIDE DEF m
<1>10. online => xfer.kind = "upload"
  BY <1>0 DEF Frontend, Shown
<1>11. \A i \in Transfer : i > hist.started => i \notin hist'.done
  BY <1>0 DEF Backend, Recent
<1>12. upload' \in UploadState
  BY <1>5, <1>6, NoneTyped
<1>13. upload' # NoUpload => /\ srv = <<>> /\ upload'.id = hist.started /\ upload'.id # 0
                             /\ ~upload'.closed
  BY <1>1, <1>2, <1>5, <1>6, Bounds
<1> QED BY <1>2, <1>3, <1>7, <1>8, <1>9, <1>10, <1>11, <1>12, <1>13, TaskEndsInv

\* A partial file is one of an upload.
LEMMA PartialNumber ==
  ASSUME TransferInv
  PROVE  Stored = Partial => dest.id # 0 /\ dest.id \in Transfer
<1>1. Stored = Partial => dest # NoFile /\ dest # OldFile
  BY Bounds DEF Stored, Partial, None, OldFile, NoFile
<1>2. FilesHandled /\ dest.id \in 0..MaxTransfers
  BY DEF TransferInv, Backend, TypeOK, File
<1> QED BY <1>1, <1>2, Bounds DEF FilesHandled

\* Files stay accounted for when what the handler gives up is lost.
LEMMA StillHandled ==
  ASSUME TransferInv, UNCHANGED <<dest, temp>>, hist'.done = hist.done, hist.lost \subseteq hist'.lost,
         \A i \in Transfer : Handled(i) /\ i \notin hist'.lost =>
            \/ upload'.id = i
            \/ task'.id = i /\ (task'.at = "open" \/ Aborting')
            \/ temp[i] = Absent /\ (dest.id = i => Stored # Partial)
  PROVE  FilesHandled'
<1>1. FilesHandled
  BY DEF TransferInv, Backend
<1>2. Stored' = Stored
  BY DEF Stored
<1>3. \A i \in Transfer \ hist'.lost : temp'[i] # Absent => Handled(i)'
  BY <1>1 DEF FilesHandled, Handled
<1>4. Stored' = Partial => dest'.id \in hist'.lost \/ Handled(dest.id)'
  BY <1>1, <1>2, PartialNumber DEF FilesHandled, Handled
<1> QED BY <1>1, <1>3, <1>4 DEF FilesHandled

\* A chunk is written.
LEMMA ResumeWritten ==
  ASSUME TransferInv, Resuming(TRUE), task.at = "write", TaskDone,
         upload' = [upload EXCEPT !.received = @ + 1],
         Tell("progress", task.id, 0), dl' = dl, hist'.done = hist.done
  PROVE  TransferInv'
<1>0. TypeOK /\ Backend /\ Frontend
  BY DEF TransferInv
<1>1. /\ reply' = "none" /\ reply = "ok" /\ srv = <<>>
      /\ UNCHANGED <<xfer, online, up, sess, dest, temp>>
      /\ hist'.started = hist.started /\ hist.lost \subseteq hist'.lost
  BY DEF Resuming
<1>2. /\ NoStart' /\ task.id = hist.started /\ task.id \in Transfer /\ hist.started \notin hist.done
      /\ task.id # 0
  BY AtWork, Bounds
<1>3. upload.id = task.id /\ upload # NoUpload /\ upload.received < Size /\ dl = NoDownload /\ ~upload.closed
  BY <1>0, HeldFacts DEF Backend, TaskFits, Downloading
<1>4. task' = Idle /\ task'.at = "idle" /\ Idle.at = "idle"
  BY DEF TaskDone, Idle
<1>5. /\ upload' \in UploadState /\ upload'.id = upload.id /\ upload'.temporary = upload.temporary
      /\ upload'.received = upload.received + 1 /\ ~upload'.closed
  <2>1. upload \in UploadState /\ upload.received + 1 \in 0..Size
    BY <1>0, <1>3, Bounds DEF TypeOK, UploadState
  <2> QED BY <1>3, <2>1 DEF UploadState
<1>6. FileFollows'
  <2>1. upload.temporary => temp[upload.id] = upload.received + 1 /\ (dest.id = upload.id => dest.renamed)
    BY <1>0, <1>1, <1>3 DEF Backend, FileFollows
  <2>2. ~upload.temporary => Own(upload.id) /\ temp[upload.id] = Absent /\ dest.n = upload.received + 1
    BY <1>0, <1>1, <1>3 DEF Backend, FileFollows
  <2> QED BY <1>1, <1>4, <1>5, <2>1, <2>2 DEF FileFollows, Own, Aborting
<1>7. FilesHandled'
  BY <1>1, <1>3, <1>5, StillHandled DEF Handled, Aborting
<1> DEFINE m == [t |-> "progress", id |-> task.id, n |-> 0]
<1>8. Fitting(m) /\ Says(m)
  BY AnswerFits, ToldSays DEF Tell
<1> HIDE DEF m
<1>9. online => xfer.kind = "upload"
  BY <1>0, <1>3 DEF Frontend, Shown
<1>10. \A i \in Transfer : i > hist.started => i \notin hist'.done
  BY <1>0 DEF Backend, Recent
<1> QED BY <1>1, <1>2, <1>3, <1>5, <1>6, <1>7, <1>8, <1>9, <1>10, TaskEndsInv

\* A request of an upload failed: the upload is given up.
LEMMA ResumeAborts ==
  ASSUME TransferInv, NEW ok, Resuming(ok), task.at \in {"write", "close", "rename"},
         AbortUpload("error"), dl' = dl, hist'.done = hist.done
  PROVE  TransferInv'
BY HeldFacts, AbortInv DEF Resuming

\* The temporary file is closed and is to be renamed.
LEMMA ResumeClosed ==
  ASSUME TransferInv, Resuming(TRUE), task.at = "close", upload.temporary,
         upload' = [upload EXCEPT !.closed = TRUE],
         Request("rename", task.id, TRUE, "error"), UNCHANGED <<dl, down>>, hist'.done = hist.done
  PROVE  TransferInv'
<1>0. TypeOK /\ Backend /\ Frontend
  BY DEF TransferInv
<1>1. /\ reply' = "none" /\ reply = "ok" /\ srv = <<>> /\ sess = "ready"
      /\ UNCHANGED <<xfer, online, up, sess, dest, temp>> /\ hist' \in History
      /\ hist'.started = hist.started /\ hist'.saved = hist.saved /\ hist.lost \subseteq hist'.lost
      /\ \A k \in Reqs : srv[k].id \in hist'.lost
  BY DEF Resuming
<1>2. /\ NoStart' /\ task.id = hist.started /\ task.id \in Transfer /\ hist.started \notin hist.done
      /\ task.id # 0 /\ ~HandlerFree /\ task.id \in Nat
  BY AtWork, Bounds
<1>3. upload.id = task.id /\ upload # NoUpload /\ upload.received = Size /\ dl = NoDownload
  BY <1>0, HeldFacts DEF Backend, TaskFits, Downloading
<1>4. temp[task.id] = Size /\ (dest.id = upload.id => dest.renamed)
  BY <1>0, <1>3 DEF Backend, FileFollows
<1>5. Reqs = {} /\ "rename" \in Op
  BY <1>1, EmptyAt DEF Reqs, Op
<1>6. /\ srv' \in Seq(ServerRequest) /\ task' \in Task
      /\ task'.at = "rename" /\ task'.id = task.id /\ task'.temporary = TRUE
      /\ Awaits' /\ LateIsLost' /\ PendingFits'
      /\ \A k \in Reqs' : k = Len(srv') /\ srv'[k] = [op |-> "rename", id |-> task.id, temporary |-> TRUE]
  BY <1>1, <1>2, <1>4, <1>5, RequestQueue, ZenonT(40)
<1>7. /\ upload' \in UploadState /\ upload'.id = upload.id /\ upload'.temporary
      /\ upload'.received = upload.received /\ upload'.closed
  BY <1>0 DEF TypeOK, UploadState
<1>8. TypeOK'
  BY <1>0, <1>1, <1>6, <1>7 DEF TypeOK
<1>9. TaskFits' /\ ~Aborting' /\ upload' # NoUpload
  BY <1>2, <1>3, <1>6, <1>7 DEF TaskFits, Aborting, Downloading, NoUpload
<1>10. HandlerAlone'
  BY <1>6, <1>9 DEF HandlerAlone
<1>11. FileFollows'
  BY <1>1, <1>3, <1>4, <1>6, <1>7, <1>9 DEF FileFollows
<1>12. FilesHandled'
  BY <1>1, <1>3, <1>7, StillHandled DEF Handled, Aborting
<1>13. Recent'
  <2>1. Recent /\ hist.started <= hist.started
    BY <1>0, Elements DEF Backend
  <2> QED BY <1>1, <1>2, <1>3, <1>6, <1>7, <2>1 DEF Recent
<1> DEFINE m == [t |-> "closed", id |-> 0, n |-> 0]
<1>14. SessionStep(m)
  <2>1. Fitting(m) /\ Says(m)
    BY <1>0, SilentFits DEF Says
  <2>2. SameOffset /\ task'.at \notin {"open", "dlopen", "dlread"}
    BY <1>6 DEF SameOffset
  <2>3. online => xfer.kind = "upload"
    BY <1>0, <1>3 DEF Frontend, Shown
  <2>4. sess' = "detached" => up' = <<>>
    BY <1>1
  <2> HIDE DEF m
  <2> QED BY <1>1, <1>2, <1>9, <2>1, <2>2, <2>3, <2>4 DEF SessionStep
<1> HIDE DEF m
<1> QED BY <1>6, <1>8, <1>9, <1>10, <1>11, <1>12, <1>13, <1>14, SessionInv DEF Backend

\* The upload is in place and whole.
LEMMA ResumeComplete ==
  ASSUME TransferInv, Resuming(TRUE), task.at \in {"close", "rename"},
         task.at = "rename" \/ ~upload.temporary,
         upload' = NoUpload, TaskDone, Tell("complete", task.id, 0), dl' = dl,
         hist'.done = hist.done \union {task.id}
  PROVE  TransferInv' /\ dest.id = task.id /\ dest.n = Size
<1>0. TypeOK /\ Backend /\ Frontend
  BY DEF TransferInv
<1>1. /\ reply' = "none" /\ reply = "ok" /\ srv = <<>> /\ sess = "ready"
      /\ UNCHANGED <<xfer, online, up, sess, dest, temp>>
      /\ hist'.started = hist.started /\ hist.lost \subseteq hist'.lost
  BY DEF Resuming
<1>2. /\ NoStart' /\ task.id = hist.started /\ task.id \in Transfer /\ hist.started \notin hist.done
      /\ task.id # 0 /\ task.id \in Nat
  BY AtWork, Bounds
<1>3. upload.id = task.id /\ upload # NoUpload /\ upload.received = Size /\ dl = NoDownload
  BY <1>0, HeldFacts DEF Backend, TaskFits, Downloading
<1>4. task' = Idle /\ task'.at = "idle"
  BY DEF TaskDone, Idle
<1>5. dest.id = task.id /\ dest.n = Size /\ temp[task.id] = Absent
  <2>1. CASE task.at = "rename"
    <3>1. upload.temporary
      BY <1>0, <2>1 DEF Backend, TaskFits
    <3>2. dest = [id |-> task.id, n |-> Size, renamed |-> TRUE] /\ temp[task.id] = Absent
      BY <1>0, <1>1, <1>3, <2>1, <3>1 DEF Backend, FileFollows
    <3> QED BY <3>2
  <2>2. CASE task.at = "close" /\ ~upload.temporary
    BY <1>0, <1>1, <1>3, <2>2 DEF Backend, FileFollows, Own
  <2> QED BY <2>1, <2>2
<1>6. FileFollows'
  BY <1>4 DEF FileFollows, Aborting
<1>7. FilesHandled'
  <2>1. FilesHandled /\ NoUpload.id = 0
    BY <1>0 DEF Backend, NoUpload
  <2>2. \A i \in Transfer : Handled(i) => i = task.id
    BY <1>3 DEF Handled, Aborting
  <2>3. \A i \in Transfer \ hist'.lost : temp'[i] = Absent
    BY <1>1, <1>5, <2>1, <2>2 DEF FilesHandled
  <2>4. Stored' # Partial
    <3>1. dest # NoFile /\ task.id # Partial
      BY <1>2, <1>5, Bounds DEF NoFile, Partial, Transfer
    <3>2. task.id \in hist'.done
      OBVIOUS
    <3> QED BY <1>1, <1>5, <3>1, <3>2 DEF Stored
  <2> QED BY <1>1, <2>1, <2>3, <2>4 DEF FilesHandled
<1> DEFINE m == [t |-> "complete", id |-> task.id, n |-> 0]
<1>8. Fitting(m) /\ Says(m)
  <2>1. HandlerFree'
    BY <1>4 DEF HandlerFree
  <2>2. Fitting(m)
    BY <2>1, AnswerFits
  <2> QED BY <2>2, ToldSays DEF Tell
<1> HIDE DEF m
<1>9. \A i \in Transfer : i > hist.started => i \notin hist'.done
  <2>1. \A i \in Transfer : i > hist.started => i \notin hist.done /\ i # task.id
    BY <1>0, <1>2, NumbersAreNat DEF Backend, Recent
  <2> QED BY <2>1
<1>10. TransferInv'
  BY <1>1, <1>2, <1>3, <1>5, <1>6, <1>7, <1>8, <1>9, NoneTyped, TaskEndsInv
<1> QED BY <1>5, <1>10

\* The file of an upload that was given up is closed and is to be removed.
LEMMA ResumeRemoves ==
  ASSUME TransferInv, NEW ok, Resuming(ok), task.at = "abortclose",
         Request("remove", task.id, task.temporary, task.answer),
         UNCHANGED <<upload, dl, down>>, hist'.done = hist.done
  PROVE  TransferInv'
<1>0. TypeOK /\ Backend /\ Frontend
  BY DEF TransferInv
<1>1. /\ reply' = "none" /\ sess = "ready"
      /\ UNCHANGED <<xfer, online, up, sess, dest, temp>> /\ hist' \in History
      /\ hist'.started = hist.started /\ hist'.saved = hist.saved /\ hist.lost \subseteq hist'.lost
      /\ \A k \in Reqs : srv[k].id \in hist'.lost
  BY DEF Resuming
<1>2. /\ NoStart' /\ task.id = hist.started /\ task.id \in Transfer /\ hist.started \notin hist.done
      /\ task.id # 0 /\ ~HandlerFree /\ task.id \in Nat
  BY AtWork, Bounds
<1>3. upload = NoUpload /\ dl = NoDownload /\ task.temporary \in BOOLEAN /\ Aborting
  BY <1>0 DEF Backend, TaskFits, Downloading, Aborting, TypeOK, Task
<1>4. task.answer \in {"error", "cancelled"}
  BY <1>0 DEF Backend, Awaits, TypeOK, Task
<1>5. "remove" \in Op
  BY DEF Op
<1>6. \A k \in Reqs : \/ srv[k].op \in NoEffect
                      \/ /\ srv[k].id = task.id /\ srv[k].temporary = task.temporary
                         /\ srv[k].op \in {"write", "rename"}
                         /\ srv[k].op = "rename" => srv[k].temporary
  <2> SUFFICES ASSUME NEW k \in Reqs, srv[k].op \notin NoEffect
               PROVE  /\ srv[k].id = task.id /\ srv[k].temporary = task.temporary
                      /\ srv[k].op \in {"write", "rename"}
                      /\ srv[k].op = "rename" => srv[k].temporary
    OBVIOUS
  <2>1. /\ srv[k].id = task.id /\ srv[k].temporary = task.temporary
        /\ srv[k].op # "open" /\ srv[k].op # "remove"
    BY <1>0, <1>3 DEF Backend, HandlerAlone
  <2>2. Pending(k) /\ srv[k].op \in Op
    BY <1>0, Elements DEF Backend, PendingFits
  <2> QED BY <2>1, <2>2 DEF Pending, Op, NoEffect
<1>7. ~task.temporary => Own(task.id)
  BY <1>0 DEF Backend, FileFollows
<1>8. /\ srv' \in Seq(ServerRequest) /\ task' \in Task
      /\ task'.at = "remove" /\ task'.id = task.id /\ task'.temporary = task.temporary
      /\ Awaits' /\ LateIsLost' /\ PendingFits'
      /\ \A k \in Reqs' : \/ k \in Reqs /\ srv'[k] = srv[k] /\ k # Len(srv')
                          \/ /\ k = Len(srv')
                             /\ srv'[k] = [op |-> "remove", id |-> task.id, temporary |-> task.temporary]
  BY <1>1, <1>2, <1>3, <1>4, <1>5, <1>6, <1>7, RequestQueue
<1>9. TypeOK'
  BY <1>0, <1>1, <1>8 DEF TypeOK
<1>10. TaskFits' /\ Aborting'
  BY <1>0, <1>3, <1>8 DEF Backend, TaskFits, Aborting, Downloading
<1>11. HandlerAlone'
  <2> SUFFICES ASSUME NEW k \in Reqs'
               PROVE  \/ srv'[k].op \in NoEffect
                      \/ /\ srv'[k].id = task'.id /\ srv'[k].temporary = task'.temporary
                         /\ srv'[k].op # "open"
                         /\ srv'[k].op = "remove" => k = Len(srv') /\ task'.at = "remove"
    BY <1>3, <1>8 DEF HandlerAlone
  <2>1. CASE k \in Reqs /\ srv'[k] = srv[k]
    BY <1>6, <1>8, <2>1
  <2>2. CASE k = Len(srv') /\ srv'[k] = [op |-> "remove", id |-> task.id, temporary |-> task.temporary]
    BY <1>8, <2>2
  <2> QED BY <1>8, <2>1, <2>2
<1>12. FileFollows'
  <2>1. /\ task.temporary => (dest.id = task.id => dest.renamed)
        /\ ~task.temporary => temp[task.id] = Absent
    BY <1>0, <1>3 DEF Backend, FileFollows
  <2> QED BY <1>1, <1>3, <1>8, <2>1 DEF FileFollows
<1>13. FilesHandled'
  BY <1>1, <1>3, <1>8, StillHandled DEF Handled, Aborting
<1>14. Recent'
  <2>1. Recent /\ hist.started <= hist.started
    BY <1>0, Elements DEF Backend
  <2>2. \A k \in Reqs' : srv'[k].id <= hist.started
    BY <1>2, <1>8, <2>1 DEF Recent
  <2> QED BY <1>1, <1>2, <1>3, <1>8, <2>1, <2>2 DEF Recent
<1> DEFINE m == [t |-> "closed", id |-> 0, n |-> 0]
<1>15. SessionStep(m)
  <2>1. Fitting(m) /\ Says(m)
    BY <1>0, SilentFits DEF Says
  <2>2. SameOffset /\ task'.at \notin {"open", "dlopen", "dlread"}
    BY <1>8 DEF SameOffset
  <2>3. online => xfer.kind = "upload"
    BY <1>0, <1>3 DEF Frontend, Shown
  <2>4. sess' = "detached" => up' = <<>>
    BY <1>1
  <2> HIDE DEF m
  <2> QED BY <1>1, <1>2, <2>1, <2>2, <2>3, <2>4 DEF SessionStep
<1> HIDE DEF m
<1> QED BY <1>8, <1>9, <1>10, <1>11, <1>12, <1>13, <1>14, <1>15, SessionInv DEF Backend

\* It is removed, or its transfer is one that leaves it behind.
LEMMA ResumeRemoved ==
  ASSUME TransferInv, NEW ok, Resuming(ok), ~ok => task.id \in hist'.lost,
         task.at = "remove", TaskDone, Tell(task.answer, task.id, 0),
         UNCHANGED <<upload, dl>>, hist'.done = hist.done
  PROVE  TransferInv'
<1>0. TypeOK /\ Backend /\ Frontend
  BY DEF TransferInv
<1>1. /\ reply' = "none" /\ UNCHANGED <<xfer, online, up, sess, dest, temp>>
      /\ hist'.started = hist.started /\ hist.lost \subseteq hist'.lost
      /\ ok => reply = "ok" /\ srv = <<>>
  BY DEF Resuming
<1>2. hist.started \notin hist.done /\ task.id \in Transfer
  BY AtWork
<1>3. upload = NoUpload /\ dl = NoDownload /\ Aborting /\ NoUpload.id = 0
  BY <1>0 DEF Backend, TaskFits, Downloading, Aborting, NoUpload
<1>4. task.answer \in {"error", "cancelled"}
  BY <1>0 DEF Backend, Awaits, TypeOK, Task
<1>5. task' = Idle /\ task'.at = "idle"
  BY DEF TaskDone, Idle
<1>6. FileFollows'
  BY <1>3, <1>5 DEF FileFollows, Aborting
<1>7. FilesHandled'
  <2>1. ok => temp[task.id] = Absent /\ (dest.id = task.id => Stored # Partial)
    <3>1. ok /\ task.temporary => temp[task.id] = Absent /\ (dest.id = task.id => dest.renamed)
      BY <1>0, <1>1, <1>3 DEF Backend, FileFollows
    <3>2. ok /\ ~task.temporary => temp[task.id] = Absent /\ dest = NoFile
      BY <1>0, <1>1, <1>3 DEF Backend, FileFollows
    <3>3. dest.renamed => dest.n = Size
      BY <1>0 DEF Backend, FilesHandled
    <3>4. Stored = Partial => ~(dest.n = Size /\ dest.renamed) /\ dest # NoFile
      <4>1. dest.id \in 0..MaxTransfers
        BY <1>0 DEF TypeOK, File
      <4> QED BY <4>1, Bounds DEF Stored, Partial, None
    <3> QED BY <3>1, <3>2, <3>3, <3>4
  <2>2. \A i \in Transfer : Handled(i) => i = task.id
    BY <1>3, Bounds DEF Handled
  <2> QED BY <1>1, <2>1, <2>2, StillHandled
<1> DEFINE m == [t |-> task.answer, id |-> task.id, n |-> 0]
<1>8. Fitting(m) /\ Says(m)
  <2>1. HandlerFree'
    BY <1>3, <1>5 DEF HandlerFree
  <2>2. Fitting(m)
    BY <1>4, <2>1, AnswerFits
  <2> QED BY <2>2, ToldSays DEF Tell
<1> HIDE DEF m
<1>9. \A i \in Transfer : i > hist.started => i \notin hist'.done
  BY <1>0 DEF Backend, Recent
<1> QED BY <1>2, <1>3, <1>6, <1>7, <1>8, <1>9, NoneTyped, TaskEndsInv

\* A download's task sends its next request.
LEMMA DownloadGoesOn ==
  ASSUME TransferInv, NEW ok, Resuming(ok), task.at \in {"dlopen", "dlread"},
         NEW op \in {"dlread", "dlclose"}, Request(op, task.id, FALSE, "error"),
         upload' = upload, hist'.done = hist.done,
         dl' \in DownloadState, dl'.id = dl.id, op = "dlread" => dl'.offset < Size,
         down' \in Seq(DownMessage)
  PROVE  TypeOK' /\ Backend' /\ task'.at = op /\ task'.id = task.id /\ upload = NoUpload
         /\ ~Aborting' /\ dl # NoDownload
<1>0. TypeOK /\ Backend
  BY DEF TransferInv
<1>1. /\ reply' = "none" /\ sess = "ready"
      /\ UNCHANGED <<xfer, online, up, sess, dest, temp>> /\ hist' \in History
      /\ hist'.started = hist.started /\ hist.lost \subseteq hist'.lost
      /\ \A k \in Reqs : srv[k].id \in hist'.lost
  BY DEF Resuming
<1>2. /\ task.id = hist.started /\ task.id \in Transfer /\ hist.started \notin hist.done
      /\ task.id # 0 /\ task.id \in Nat
  BY AtWork, Bounds
<1>3. dl # NoDownload /\ dl.id = task.id /\ upload = NoUpload
  BY <1>0 DEF Backend, TaskFits, Downloading
<1>4. op \in Op /\ op \in NoEffect
  BY DEF Op, NoEffect
<1>5. /\ srv' \in Seq(ServerRequest) /\ task' \in Task
      /\ task'.at = op /\ task'.id = task.id
      /\ Awaits' /\ LateIsLost' /\ PendingFits'
      /\ \A k \in Reqs' : \/ k \in Reqs /\ srv'[k] = srv[k] /\ k # Len(srv')
                          \/ k = Len(srv') /\ srv'[k] = [op |-> op, id |-> task.id, temporary |-> FALSE]
  BY <1>1, <1>2, <1>4, RequestQueue
<1>6. TypeOK'
  BY <1>0, <1>1, <1>5 DEF TypeOK
<1>7. dl' # NoDownload /\ NoUpload.id = 0 /\ ~NoUpload.closed
  BY <1>2, <1>3 DEF NoDownload, NoUpload
<1>8. TaskFits' /\ ~Aborting'
  BY <1>2, <1>3, <1>5, <1>7 DEF TaskFits, Aborting, Downloading
<1>9. HandlerAlone' /\ FileFollows'
  BY <1>3, <1>5, <1>8 DEF HandlerAlone, FileFollows
<1>10. FilesHandled'
  BY <1>1, StillHandled DEF Handled, Aborting
<1>11. Recent'
  <2>1. Recent /\ hist.started <= hist.started
    BY <1>0, Elements DEF Backend
  <2>2. \A k \in Reqs' : srv'[k].id <= hist.started
    BY <1>2, <1>5, <2>1, SMTT(30) DEF Recent
  <2> QED BY <1>1, <1>2, <1>3, <1>5, <2>1, <2>2 DEF Recent
<1> QED BY <1>3, <1>5, <1>6, <1>8, <1>9, <1>10, <1>11 DEF Backend

\* A download's task answers something that is no chunk, and sends its next request.
LEMMA DownloadSays ==
  ASSUME TransferInv, NEW ok, Resuming(ok), task.at \in {"dlopen", "dlread"},
         NEW op \in {"dlread", "dlclose"}, Request(op, task.id, FALSE, "error"),
         UNCHANGED <<upload, dl>>, hist'.done = hist.done,
         NEW t \in {"dlstart", "dlshort", "cancelled", "error"}, NEW n \in 0..Size,
         Tell(t, task.id, n), t # "dlstart" => op = "dlclose"
  PROVE  TransferInv'
<1>0. TypeOK /\ Backend /\ Frontend
  BY DEF TransferInv
<1>1. /\ sess = "ready" /\ UNCHANGED <<xfer, online, up, sess>>
      /\ hist'.started = hist.started /\ hist'.saved = hist.saved
  BY DEF Resuming
<1> DEFINE m == [t |-> t, id |-> task.id, n |-> n]
<1>2. m \in DownMessage
  <2>1. task.id \in Transfer
    BY AtWork
  <2> QED BY <2>1, Bounds DEF DownMessage
<1>3. Says(m)
  BY ToldSays DEF Tell
<1>4. down' \in Seq(DownMessage)
  BY <1>0, <1>2, <1>3, SaysAt
<1>5. dl \in DownloadState /\ dl.offset < Size
  BY <1>0 DEF TypeOK, Backend, TaskFits
<1>6. /\ TypeOK' /\ Backend' /\ task'.at = op /\ task'.id = task.id /\ upload = NoUpload
      /\ ~Aborting'
  BY <1>4, <1>5, DownloadGoesOn
<1>7. Fitting(m)
  <2>1. t # "dlstart" => HandlerFree'
    BY <1>6 DEF HandlerFree
  <2>2. task.id = hist.started /\ task.id \in Nat /\ NoStart'
    BY AtWork
  <2> QED BY <1>2, <2>1, <2>2 DEF Fitting, Terminal
<1> HIDE DEF m
<1>8. SessionStep(m)
  <2>1. SameOffset
    BY DEF SameOffset
  <2>2. NoStart' /\ ~HandlerFree
    BY AtWork
  <2>3. online => xfer.kind = "download"
    BY <1>0 DEF Frontend, Shown
  <2>4. sess' = "detached" => up' = <<>>
    BY <1>1
  <2> QED BY <1>1, <1>3, <1>6, <1>7, <2>1, <2>2, <2>3, <2>4 DEF SessionStep
<1> QED BY <1>6, <1>8, SessionInv

\* A download's task ends, with an error or silently.
LEMMA DownloadEnds ==
  ASSUME TransferInv, NEW ok, Resuming(ok), task.at \in Downloading, TaskDone, dl' = NoDownload,
         upload' = upload, hist'.done = hist.done,
         \/ task.at # "dlclose" /\ Tell("error", task.id, 0)
         \/ down' = down
  PROVE  TransferInv'
<1>0. TypeOK /\ Backend /\ Frontend
  BY DEF TransferInv
<1>1. /\ UNCHANGED <<xfer, online, up, sess, dest, temp>> /\ hist.lost \subseteq hist'.lost
  BY DEF Resuming
<1>2. upload = NoUpload
  BY <1>0 DEF Backend, TaskFits
<1>3. task' = Idle /\ task'.at = "idle" /\ ~Aborting'
  BY DEF TaskDone, Idle, Aborting
<1>4. FileFollows'
  BY <1>2, <1>3 DEF FileFollows
<1>5. FilesHandled'
  BY <1>1, StillHandled DEF Handled, Aborting, Downloading
<1>6. HandlerFree'
  BY <1>2, <1>3 DEF HandlerFree
<1>7. \E m : Fitting(m) /\ Says(m)
  <2>1. CASE task.at # "dlclose" /\ Tell("error", task.id, 0)
    <3> DEFINE m == [t |-> "error", id |-> task.id, n |-> 0]
    <3>1. Fitting(m)
      BY <1>6, <2>1, AnswerFits
    <3>2. Says(m)
      BY <2>1, ToldSays DEF Tell
    <3> QED BY <3>1, <3>2
  <2>2. CASE down' = down
    <3> DEFINE m == [t |-> "closed", id |-> 0, n |-> 0]
    <3>1. Fitting(m) /\ Says(m)
      BY <1>0, <2>2, SilentFits DEF Says
    <3> QED BY <3>1
  <2> QED BY <2>1, <2>2
<1>8. /\ \A i \in Transfer : i > hist.started => i \notin hist'.done
      /\ hist.started \in hist'.done => dest.id = hist.started /\ dest.n = Size /\ srv = <<>>
  BY <1>0 DEF Backend, Recent
<1>9. PICK m : Fitting(m) /\ Says(m)
  BY <1>7
<1> QED BY <1>2, <1>4, <1>5, <1>8, <1>9, NoneTyped, TaskEndsInv

\* The next chunk goes to the browser, after the last one also that it was the last.
SendsChunk ==
    LET n == dl.offset + 1  data == [t |-> "data", id |-> task.id, n |-> n] IN
    /\ dl' = [dl EXCEPT !.offset = n]
    /\ down' = IF ~online THEN down
               ELSE IF n < Size THEN Append(down, data)
               ELSE down \o <<data, [t |-> "dldone", id |-> task.id, n |-> n]>>

\* A download's task sends a chunk, after the last one also that it was the last.
LEMMA ResumeData ==
  ASSUME TransferInv, Resuming(TRUE), task.at = "dlread", hist'.done = hist.done, upload' = upload,
         SendsChunk,
         Request(IF dl.offset + 1 < Size THEN "dlread" ELSE "dlclose", task.id, FALSE, "error")
  PROVE  TransferInv'
<1> DEFINE n == dl.offset + 1
           data == [t |-> "data", id |-> task.id, n |-> n]
           end == [t |-> "dldone", id |-> task.id, n |-> n]
           op == IF n < Size THEN "dlread" ELSE "dlclose"
<1>0. TypeOK /\ Backend /\ Frontend
  BY DEF TransferInv
<1>1. /\ sess = "ready" /\ UNCHANGED <<xfer, online, up, sess>>
      /\ hist'.started = hist.started /\ hist'.saved = hist.saved
  BY DEF Resuming
<1>2. /\ ~HandlerFree /\ NoStart /\ NoStart' /\ task.id = hist.started /\ task.id \in Transfer
      /\ task.id \in Nat /\ task.id # 0
  BY AtWork, Bounds
<1>3. dl \in DownloadState /\ dl.offset \in Nat /\ dl.offset < Size /\ n \in 0..Size /\ n \in Nat
  <2>1. dl \in DownloadState /\ dl.offset \in Nat /\ dl.offset < Size
    BY <1>0, Elements DEF TypeOK, Backend, TaskFits
  <2> QED BY <2>1, Bounds
<1>4. dl' \in DownloadState /\ dl'.id = dl.id /\ dl'.offset = n
  BY <1>3 DEF DownloadState, SendsChunk
<1>5. /\ data \in DownMessage /\ data.t = "data" /\ data.id = task.id /\ data.n = n
      /\ end \in DownMessage /\ end.t = "dldone" /\ end.id = task.id /\ end.n = n
  BY <1>2, <1>3, Bounds DEF DownMessage
<1>6. \/ down' = down
      \/ online /\ n < Size /\ down' = Append(down, data)
      \/ online /\ ~(n < Size) /\ down' = Append(Append(down, data), end)
  <2>1. down \in Seq(DownMessage)
    BY <1>0 DEF TypeOK
  <2>2. down \o <<data, end>> = Append(Append(down, data), end)
    BY <1>5, <2>1, AppendTwo
  <2>3. CASE ~online
    BY <2>3 DEF SendsChunk
  <2>4. CASE online /\ n < Size
    BY <2>4 DEF SendsChunk
  <2>5. CASE online /\ ~(n < Size)
    <3>1. down' = down \o <<data, end>>
      BY <2>5 DEF SendsChunk
    <3> QED BY <2>2, <2>5, <3>1
  <2> QED BY <2>3, <2>4, <2>5
<1> HIDE DEF data, end
<1>7. /\ down' \in Seq(DownMessage) /\ Len(down) \in Nat /\ Len(down') \in Nat
      /\ \A k \in Downs' : \/ k \in Downs /\ down'[k] = down[k]
                           \/ k = Len(down) + 1 /\ down'[k] = data /\ online
                           \/ /\ k = Len(down) + 2 /\ k = Len(down') /\ down'[k] = end
                              /\ online /\ ~(n < Size)
      /\ Downs \subseteq Downs'
  <2>0. down \in Seq(DownMessage) /\ Len(down) \in Nat
    BY <1>0 DEF TypeOK
  <2>1. CASE down' = down
    BY <2>0, <2>1 DEF Downs
  <2> DEFINE q == Append(down, data)
  <2>2. /\ q \in Seq(DownMessage) /\ Len(q) = Len(down) + 1
        /\ \A k \in 1..Len(down) : q[k] = down[k]
        /\ q[Len(down) + 1] = data
    BY <1>5, <2>0, AppendAt
  <2> HIDE DEF q
  <2>3. CASE online /\ n < Size /\ down' = q
    BY <2>0, <2>2, <2>3 DEF Downs
  <2>4. CASE online /\ ~(n < Size) /\ down' = Append(q, end)
    <3>0. down' = Append(q, end) /\ q \in Seq(DownMessage) /\ end \in DownMessage
      BY <1>5, <2>2, <2>4
    <3>1. /\ down' \in Seq(DownMessage) /\ Len(down') = Len(q) + 1
          /\ \A k \in 1..Len(q) : down'[k] = q[k]
          /\ down'[Len(q) + 1] = end
      BY <3>0, AppendAt
    <3> QED BY <2>0, <2>2, <2>4, <3>1 DEF Downs
  <2> QED BY <1>6, <2>1, <2>3, <2>4 DEF q
<1>8. /\ TypeOK' /\ Backend' /\ task'.at = op /\ task'.id = task.id /\ upload = NoUpload
      /\ ~Aborting'
  <2>1. op \in {"dlread", "dlclose"} /\ (op = "dlread" => dl'.offset < Size)
    BY <1>4
  <2>2. Request(op, task.id, FALSE, "error")
    OBVIOUS
  <2> HIDE DEF op
  <2> QED BY <1>4, <1>7, <2>1, <2>2, DownloadGoesOn
<1>9. UpFits'
  BY <1>1, <1>2, TakeUpFits
<1>10. online => xfer.kind = "download"
  BY <1>0 DEF Frontend, Shown
<1>11. Shown'
  <2>1. ~online => down' = down
    BY DEF SendsChunk
  <2>2. upload' = NoUpload /\ task'.at # "open"
    BY <1>8
  <2> HIDE DEF op
  <2> QED BY <1>1, <1>8, <1>10, <2>1, <2>2, SessionShown
<1>12. DownFits'
  <2>1. DownFits
    BY <1>0 DEF Frontend
  <2> SUFFICES ASSUME NEW k \in Downs'
               PROVE  /\ down'[k].id <= hist.started
                      /\ down'[k].t = "data" => /\ xfer.kind = "download" /\ down'[k].id = hist.started
                                                /\ down'[k].id # 0
                      /\ down'[k].id = hist.started /\ down'[k].id # 0 => NoStart'
                      /\ Terminal(down'[k]) /\ down'[k].id = hist.started /\ down'[k].id # 0 =>
                           HandlerFree' /\ \A j \in k + 1 .. Len(down') : down'[j].t # "data"
                      /\ down'[k].t = "complete" => down'[k].id \in hist'.done
                      /\ down'[k].t = "dldone" => down'[k].n = Size
    BY <1>1 DEF DownFits, Terminal
  <2>2. CASE k \in Downs /\ down'[k] = down[k]
    <3>1. /\ down[k].id <= hist.started
          /\ down[k].t = "data" => /\ xfer.kind = "download" /\ down[k].id = hist.started
                                   /\ down[k].id # 0
          /\ Terminal(down[k]) /\ down[k].id = hist.started /\ down[k].id # 0 => HandlerFree
          /\ down[k].t = "complete" => down[k].id \in hist.done
          /\ down[k].t = "dldone" => down[k].n = Size
      BY <2>1, <2>2 DEF DownFits
    <3> QED BY <1>2, <2>2, <3>1
  <2>3. CASE k = Len(down) + 1 /\ down'[k] = data /\ online
    <3>1. ~Terminal(data)
      BY <1>5 DEF Terminal
    <3> QED BY <1>2, <1>5, <1>10, <2>3, <3>1
  <2>4. CASE k = Len(down) + 2 /\ k = Len(down') /\ down'[k] = end /\ online /\ ~(n < Size)
    <3>1. HandlerFree' /\ n = Size
      BY <1>3, <1>8, <2>4, Bounds DEF HandlerFree
    <3>2. k + 1 .. Len(down') = {}
      BY <1>7, <2>4
    <3> QED BY <1>2, <1>5, <2>4, <3>1, <3>2
  <2> QED BY <1>7, <2>2, <2>3, <2>4
<1>13. Counted'
  <2>1. Counted /\ xfer.got \in Nat
    BY <1>0, Elements DEF Frontend
  <2>2. online => xfer.got <= dl.offset
    BY <2>1 DEF Counted
  <2>3. \A k \in Downs : down[k].t = "data" => down[k].n <= dl.offset /\ down[k].n \in Nat
    BY <1>0, <2>1, Elements DEF Counted, Numbered
  <2>4. ASSUME NEW k \in Downs' PROVE Numbered(k)'
    <3>1. CASE k \in Downs /\ down'[k] = down[k]
      <4>1. Numbered(k)
        BY <2>1, <3>1 DEF Counted
      <4>2. \A j \in 1 .. k - 1 : j \in Downs' /\ down'[j] = down[j]
        BY <1>7, <3>1 DEF Downs
      <4>3. down[k].t = "data" => down[k].n <= dl'.offset
        BY <1>3, <1>4, <2>3, <3>1
      <4> QED BY <1>1, <3>1, <4>1, <4>2, <4>3 DEF Numbered
    <3>2. CASE k = Len(down) + 1 /\ down'[k] = data /\ online
      <4>1. \A j \in 1 .. k - 1 : j \in Downs /\ down'[j] = down[j]
        <5>1. \A j \in 1 .. k - 1 : j \in Downs /\ j \in Downs' /\ j # Len(down) + 1 /\ j # Len(down) + 2
          BY <1>7, <3>2 DEF Downs
        <5> QED BY <1>7, <5>1
      <4>2. \A j \in 1 .. k - 1 : down'[j].t = "data" => down'[j].n < n
        <5> SUFFICES ASSUME NEW j \in 1 .. k - 1, down'[j].t = "data" PROVE down'[j].n < n
          OBVIOUS
        <5>1. j \in Downs /\ down'[j] = down[j]
          BY <4>1
        <5>2. down[j].n <= dl.offset /\ down[j].n \in Nat
          BY <2>3, <5>1
        <5> QED BY <1>3, <5>1, <5>2
      <4>3. xfer.got < n /\ n <= dl'.offset
        BY <1>3, <1>4, <2>1, <2>2, <3>2
      <4> QED BY <1>1, <1>5, <3>2, <4>2, <4>3 DEF Numbered
    <3>3. CASE k = Len(down) + 2 /\ down'[k] = end
      BY <1>5, <3>3 DEF Numbered
    <3> QED BY <1>7, <3>1, <3>2, <3>3
  <2>5. online => xfer.got <= dl'.offset
    BY <1>3, <1>4, <2>1, <2>2
  <2> QED BY <1>1, <1>2, <2>1, <2>4, <2>5 DEF Counted
<1> QED BY <1>8, <1>9, <1>11, <1>12, <1>13 DEF TransferInv, Frontend

\* A task goes on with ok, in a history h that counts what the backend lost track of.
Goes(ok, h) ==
    /\ task.at # "idle" /\ sess = "ready" /\ reply' = "none"
    /\ UNCHANGED <<xfer, online, up, sess, dest, temp>>
    /\ h \in History /\ h.started = hist.started /\ h.saved = hist.saved
    /\ h.done = hist.done /\ h.told = hist.told
    /\ hist.lost \subseteq h.lost
    /\ \A k \in Reqs : srv[k].id \in h.lost
    /\ ok => reply = "ok" /\ srv = <<>>
    /\ ~ok => task.id \in h.lost \/ (reply = "fail" /\ srv = <<>>)

\* What a step may do to the uploads that ended well, seen from the destination.
Publishes ==
    /\ dest' = dest /\ hist'.told = hist.told
    /\ \/ hist'.done = hist.done
       \/ /\ hist'.done = hist.done \union {task.id} /\ task.id \in Transfer
          /\ dest.id = task.id /\ dest.n = Size

\* An answer that goes to a task, and what it may publish.
LEMMA GoesOn ==
  ASSUME NEW ok, NEW h, Goes(ok, h), hist' = h
  PROVE  Resuming(ok) /\ Publishes /\ hist'.done = hist.done
BY DEF Goes, Resuming, Publishes

\* A task that goes on keeps the invariant, and publishes an upload only when its file
\* is in place.
LEMMA ResumeInv ==
  ASSUME TransferInv, NEW ok \in BOOLEAN, NEW h, Goes(ok, h), Resume(ok, h)
  PROVE  TransferInv' /\ Publishes
<1> DEFINE id == task.id
<1>0. id \in Transfer
  BY DEF TransferInv, Backend, Awaits, Goes
<1>1. CASE /\ task.at = "open" /\ TaskDone
           /\ upload' = IF ok THEN [NoUpload EXCEPT !.id = id, !.temporary = task.temporary]
                        ELSE upload
           /\ Tell(IF ok THEN "ready" ELSE "error", id, 0)
           /\ UNCHANGED dl /\ hist' = h
  BY <1>1, GoesOn, ResumeOpen
<1>2. CASE /\ task.at = "write" /\ ok
           /\ upload' = [upload EXCEPT !.received = @ + 1] /\ TaskDone
           /\ Tell("progress", id, 0)
           /\ UNCHANGED dl /\ hist' = h
  BY <1>2, GoesOn, ResumeWritten
<1>3. CASE task.at = "write" /\ ~ok /\ AbortUpload("error") /\ UNCHANGED dl /\ hist' = h
  BY <1>3, GoesOn, ResumeAborts
<1>4. CASE /\ task.at = "close" /\ ok /\ upload.temporary
           /\ upload' = [upload EXCEPT !.closed = TRUE]
           /\ Request("rename", id, TRUE, "error")
           /\ UNCHANGED <<dl, down>> /\ hist' = h
  BY <1>4, GoesOn, ResumeClosed
<1>5. CASE /\ task.at \in {"close", "rename"} /\ ok /\ (task.at = "rename" \/ ~upload.temporary)
           /\ upload' = NoUpload /\ TaskDone
           /\ Tell("complete", id, 0)
           /\ hist' = [h EXCEPT !.done = @ \union {id}]
           /\ UNCHANGED dl
  <2>0. h \in History
    BY DEF Goes
  <2>1. /\ hist' \in History /\ hist'.done = h.done \union {id} /\ hist'.told = h.told
        /\ hist'.lost = h.lost /\ hist'.started = h.started /\ hist'.saved = h.saved
    <3>1. hist' \in History
      BY <1>0, <1>5, <2>0, HistUpdates
    <3> QED BY <1>5, <2>0, <3>1 DEF History
  <2>2. Resuming(TRUE) /\ hist'.done = hist.done \union {id} /\ hist'.told = hist.told /\ dest' = dest
    BY <1>5, <2>1 DEF Goes, Resuming
  <2>3. TransferInv' /\ dest.id = id /\ dest.n = Size
    BY <1>5, <2>2, ResumeComplete
  <2> QED BY <1>0, <2>2, <2>3 DEF Publishes
<1>6. CASE /\ task.at \in {"close", "rename"} /\ ~ok
           /\ AbortUpload("error") /\ UNCHANGED dl /\ hist' = h
  BY <1>6, GoesOn, ResumeAborts
<1>7. CASE /\ task.at = "abortclose"
           /\ Request("remove", id, task.temporary, task.answer)
           /\ UNCHANGED <<upload, dl, down>> /\ hist' = h
  BY <1>7, GoesOn, ResumeRemoves
<1>8. CASE /\ task.at = "remove" /\ TaskDone
           /\ Tell(task.answer, id, 0)
           /\ hist' = IF ok THEN h ELSE [h EXCEPT !.lost = @ \union {id}]
           /\ UNCHANGED <<upload, dl>>
  <2>1. CASE ok
    BY <1>8, <2>1, GoesOn, ResumeRemoved
  <2>2. CASE ~ok
    <3>0. h \in History /\ id \in 0..MaxTransfers
      BY <1>0, Bounds DEF Goes
    <3>1. /\ hist' \in History /\ hist'.done = h.done /\ hist'.told = h.told
          /\ hist'.lost = h.lost \union {id} /\ hist'.started = h.started /\ hist'.saved = h.saved
      <4>1. hist' = [h EXCEPT !.lost = @ \union {id}]
        BY <1>8, <2>2
      <4>2. hist' \in History
        BY <3>0, <4>1, HistUpdates
      <4> QED BY <3>0, <4>1, <4>2 DEF History
    <3>2. Resuming(ok) /\ Publishes /\ hist'.done = hist.done /\ id \in hist'.lost
      BY <2>2, <3>1 DEF Goes, Resuming, Publishes
    <3> QED BY <1>8, <3>2, ResumeRemoved
  <2> QED BY <2>1, <2>2
<1>9. CASE /\ task.at = "dlopen" /\ ok
           /\ Tell("dlstart", id, 0) /\ Request("dlread", id, FALSE, "error")
           /\ UNCHANGED <<upload, dl>> /\ hist' = h
  BY <1>9, Bounds, GoesOn, DownloadSays
<1>10. CASE /\ task.at = "dlopen" /\ ~ok
            /\ Tell("error", id, 0) /\ TaskDone /\ dl' = NoDownload
            /\ UNCHANGED upload /\ hist' = h
  BY <1>10, GoesOn, DownloadEnds DEF Downloading
<1>11. CASE /\ task.at = "dlread" /\ (~ok \/ dl.cancelled)
            /\ Tell(IF dl.cancelled THEN "cancelled" ELSE "error", id, 0)
            /\ Request("dlclose", id, FALSE, "error")
            /\ UNCHANGED <<upload, dl>> /\ hist' = h
  BY <1>11, Bounds, GoesOn, DownloadSays
<1>12. CASE /\ task.at = "dlread" /\ ok /\ SendsChunk
            /\ Request(IF dl.offset + 1 < Size THEN "dlread" ELSE "dlclose", id, FALSE, "error")
            /\ UNCHANGED upload /\ hist' = h
  BY <1>12, GoesOn, ResumeData
<1>13. CASE /\ task.at = "dlread" /\ ok /\ ~dl.cancelled
            /\ Tell("dlshort", id, dl.offset) /\ Request("dlclose", id, FALSE, "error")
            /\ UNCHANGED <<upload, dl>> /\ hist' = h
  <2>1. dl.offset \in 0..Size
    BY DEF TransferInv, TypeOK, DownloadState
  <2> QED BY <1>13, <2>1, GoesOn, DownloadSays
<1>14. CASE /\ task.at = "dlclose" /\ TaskDone /\ dl' = NoDownload
            /\ UNCHANGED <<upload, down>> /\ hist' = h
  BY <1>14, GoesOn, DownloadEnds DEF Downloading
<1>15. \/ /\ task.at = "dlread" /\ ok /\ SendsChunk
          /\ Request(IF dl.offset + 1 < Size THEN "dlread" ELSE "dlclose", id, FALSE, "error")
          /\ UNCHANGED upload /\ hist' = h
       \/ /\ task.at = "dlread" /\ ok /\ ~dl.cancelled
          /\ Tell("dlshort", id, dl.offset) /\ Request("dlclose", id, FALSE, "error")
          /\ UNCHANGED <<upload, dl>> /\ hist' = h
       \/ ~(task.at = "dlread" /\ ok /\ ~dl.cancelled)
  BY Zenon DEF Resume, SendsChunk
<1> QED BY <1>1, <1>2, <1>3, <1>4, <1>5, <1>6, <1>7, <1>8, <1>9, <1>10, <1>11, <1>12, <1>13,
           <1>14, <1>15 DEF Resume

\* It goes on with the answer of the server.
LEMMA RequestAnsweredInv ==
  ASSUME TransferInv, RequestAnswered
  PROVE  TransferInv' /\ Publishes
<1>1. reply # "none" /\ Resume(reply = "ok", hist)
  BY DEF RequestAnswered
<1>2. Goes(reply = "ok", hist)
  <2>1. /\ reply' = "none" /\ UNCHANGED <<xfer, online, up, sess, dest, temp>>
    BY DEF RequestAnswered, browserVars, fileVars
  <2>2. srv = <<>> /\ task.at # "idle" /\ sess = "ready" /\ reply \in {"ok", "fail"} /\ hist \in History
    <3>1. /\ sess # "ready" => task.at = "idle"
          /\ reply # "none" => srv = <<>>
      BY DEF TransferInv, Backend, Awaits, Idle
    <3>2. reply \in {"none", "ok", "fail"} /\ hist \in History
      BY DEF TransferInv, TypeOK
    <3>3. task.at # "idle"
      BY <1>1 DEF TransferInv, Backend, Awaits
    <3> QED BY <1>1, <3>1, <3>2, <3>3
  <2>3. Reqs = {}
    BY <2>2, EmptyAt DEF Reqs
  <2> QED BY <2>1, <2>2, <2>3 DEF Goes
<1> QED BY <1>1, <1>2, ResumeInv

\* It goes on without one: the request is late from now on, and its transfer lost.
LEMMA RequestTimeoutInv ==
  ASSUME TransferInv, RequestTimeout
  PROVE  TransferInv' /\ Publishes
<1> DEFINE h == [hist EXCEPT !.lost = @ \union {task.id}]
<1>1. task.at # "idle" /\ Resume(FALSE, h)
  BY DEF RequestTimeout
<1>0. TypeOK /\ Awaits /\ LateIsLost /\ hist \in History
  BY DEF TransferInv, TypeOK, Backend
<1>2. Goes(FALSE, h)
  <2>1. /\ reply' = "none" /\ UNCHANGED <<xfer, online, up, sess, dest, temp>>
    BY DEF RequestTimeout, browserVars, fileVars
  <2>2. task.id \in 0..MaxTransfers /\ sess = "ready"
    BY <1>0, <1>1 DEF TypeOK, Task, Awaits, Idle
  <2>3. /\ h \in History /\ h.started = hist.started /\ h.saved = hist.saved
        /\ h.done = hist.done /\ h.told = hist.told /\ h.lost = hist.lost \union {task.id}
    <3>1. h \in History
      BY <1>0, <2>2, HistUpdates
    <3> QED BY <1>0, <3>1 DEF History
  <2> HIDE DEF h
  <2>4. \A k \in Reqs : srv[k].id \in h.lost
    <3> SUFFICES ASSUME NEW k \in Reqs, srv[k].id \notin hist.lost PROVE srv[k].id = task.id
      BY <2>3
    <3>1. k = Len(srv)
      BY <1>0 DEF LateIsLost
    <3>2. srv # <<>>
      BY EmptyAt DEF Reqs
    <3>3. srv[Len(srv)] = TaskRequest
      BY <1>0, <1>1, <3>2 DEF Awaits
    <3> QED BY <3>1, <3>3 DEF TaskRequest
  <2> QED BY <1>1, <2>1, <2>2, <2>3, <2>4 DEF Goes
<1> HIDE DEF h
<1> QED BY <1>1, <1>2, ResumeInv
-----------------------------------------------------------------------------
(* The invariant of the specification.                                       *)

\* Nothing is under way in the beginning.
LEMMA InitInv == Init => TransferInv
<1> SUFFICES ASSUME Init PROVE TransferInv
  OBVIOUS
<1>1. /\ xfer = NoXfer /\ online = TRUE /\ up = <<>> /\ down = <<>>
      /\ sess = "ready" /\ task = Idle /\ upload = NoUpload /\ dl = NoDownload
      /\ reply = "none" /\ srv = <<>> /\ dest \in {NoFile, OldFile}
      /\ temp = [i \in Transfer |-> Absent]
      /\ hist = [started |-> 0, drops |-> 0, done |-> {}, told |-> {}, lost |-> {}, saved |-> {}]
  BY DEF Init
<1>2. /\ hist \in History /\ hist.started = 0 /\ hist.done = {} /\ hist.lost = {} /\ hist.saved = {}
  BY <1>1, Bounds DEF History
<1>3. Reqs = {} /\ Ups = {} /\ Downs = {}
  BY <1>1, EmptyAt DEF Reqs, Ups, Downs
<1>4. TypeOK
  <2>1. temp \in [Transfer -> 0 .. Absent]
    BY <1>1, Bounds DEF Absent
  <2>2. /\ up \in Seq(UpMessage) /\ down \in Seq(DownMessage) /\ srv \in Seq(ServerRequest)
    BY <1>1, EmptyAt
  <2> QED BY <1>1, <1>2, <2>1, <2>2, NoneTyped DEF TypeOK
<1>5. Awaits /\ LateIsLost /\ PendingFits /\ HandlerAlone
  BY <1>1, <1>3 DEF Awaits, LateIsLost, PendingFits, HandlerAlone, Idle
<1>6. TaskFits /\ FileFollows
  BY <1>1 DEF TaskFits, FileFollows, Aborting, Downloading, Idle, NoUpload, NoDownload
<1>7. dest.id = 0 /\ (dest.renamed => dest.n = Size)
  BY <1>1 DEF NoFile, OldFile
<1>8. FilesHandled
  <2>1. Stored # Partial
    BY <1>1, Bounds DEF Stored, NoFile, OldFile, Partial, None
  <2> QED BY <1>1, <1>7, <2>1 DEF FilesHandled
<1>9. Recent
  BY <1>1, <1>2, <1>3, <1>7, Bounds DEF Recent, Idle, Transfer
<1>10. UpFits /\ DownFits
  BY <1>1, <1>3 DEF UpFits, DownFits, NoStart
<1>11. Shown /\ Counted
  BY <1>1, <1>2, <1>3 DEF Shown, Counted, NoStart, NoXfer, Idle, Aborting
<1> QED BY <1>4, <1>5, <1>6, <1>8, <1>9, <1>10, <1>11 DEF TransferInv, Backend, Frontend

\* A stuttering step changes nothing.
LEMMA StutterInv ==
  ASSUME TransferInv, UNCHANGED vars
  PROVE  TransferInv'
<1>1. UNCHANGED <<xfer, online, up, down, sess, task, upload, dl, reply, srv, dest, temp, hist>>
  BY DEF vars, browserVars, netVars, handlerVars, fileVars
<1>2. TypeOK'
  BY <1>1 DEF TransferInv, TypeOK
<1>3. Backend'
  BY <1>1, BackendSame DEF TransferInv, SameBackend, handlerVars, fileVars
<1>4. UpFits' /\ DownFits'
  BY <1>1 DEF TransferInv, Frontend, UpFits, DownFits, Ups, Downs, NoStart, Unheard,
     HandlerFree, Reqs
<1>5. Shown' /\ Counted'
  BY <1>1 DEF TransferInv, Frontend, Shown, Counted, Numbered, Ups, Downs, NoStart, Aborting
<1> QED BY <1>2, <1>3, <1>4, <1>5 DEF TransferInv, Frontend

\* TransferInv is inductive.
LEMMA NextInv ==
  ASSUME TransferInv, [Next]_vars
  PROVE  TransferInv'
<1>1. CASE StartUpload \/ StartDownload \/ CancelTransfer \/ SliceRead \/ BrowserCloses
  BY <1>1, StartUploadInv, StartDownloadInv, CancelTransferInv, SliceReadInv,
     BrowserClosesInv
<1>2. CASE BrowserHandles
  BY <1>2, HandleUploadReadyInv, HandleUploadProgressInv, HandleUploadCompleteInv,
     HandleDownloadStartInv, HandleBinaryInv, HandleDownloadDoneInv, HandleTransferEndsInv
     DEF BrowserHandles
<1>3. CASE SessionHandles
  BY <1>3, HandlerStartUploadInv, UploadChunkInv, FinishUploadInv, CancelUploadInv,
     DownloadInv, CancelDownloadInv DEF SessionHandles
<1>4. CASE RequestAnswered \/ RequestTimeout
  BY <1>4, RequestAnsweredInv, RequestTimeoutInv
<1>5. CASE ChannelCloses \/ SessionDetaches \/ Reconnect
  BY <1>5, ChannelClosesInv, SessionDetachesInv, ReconnectInv
<1>6. CASE ServerAnswers \/ ServerEnds
  BY <1>6, ServerAnswersInv, ServerEndsInv
<1>7. CASE UNCHANGED vars
  BY <1>7, StutterInv
<1> QED BY <1>1, <1>2, <1>3, <1>4, <1>5, <1>6, <1>7 DEF Next

\* In every reachable state the types and the relations between the server's requests
\* and files, the session's task and handler, the messages and what the browser shows
\* hold (sftp-handler.ts, session.ts's SFTP tasks and file-manager.ts).
THEOREM TransferInvariant == Spec => []TransferInv
<1>1. Init => TransferInv
  BY InitInv
<1>2. TransferInv /\ [Next]_vars => TransferInv'
  BY NextInv
<1> QED BY <1>1, <1>2, PTL DEF Spec

\* DownloadAsServed: no chunk of another download is counted in the one shown, and a
\* download is saved with all its own chunks whatever was cancelled, timed out or
\* reconnected before it, or with what came before the server's early end of the file.
THEOREM DownloadsAsServed == Spec => []DownloadAsServed
<1>1. TransferInv => DownloadAsServed
  BY DEF TransferInv, Frontend, Counted, DownloadAsServed
<1> QED BY <1>1, TransferInvariant, PTL

\* NextTransferAccepted: when nothing is shown or under way the handler holds no upload
\* and no download that would refuse the next one.
THEOREM NextIsAccepted == Spec => []NextTransferAccepted
<1>1. TransferInv => NextTransferAccepted
  <2> SUFFICES ASSUME TransferInv, Quiet, online PROVE upload = NoUpload /\ dl = NoDownload
    BY DEF NextTransferAccepted
  <2>1. xfer = NoXfer /\ task.at = "idle"
    BY DEF Quiet, Idle
  <2>2. HandlerFree
    BY <2>1, NothingShown
  <2> QED BY <2>1, <2>2 DEF HandlerFree, TransferInv, Backend, TaskFits, Downloading
<1> QED BY <1>1, TransferInvariant, PTL

\* NothingLeftBehind: once the handler is idle, no temporary and no partial file
\* remains but those of transfers whose requests were lost (abortUpload, dispose).
THEOREM NothingIsLeft == Spec => []NothingLeftBehind
<1>1. TransferInv => NothingLeftBehind
  <2> SUFFICES ASSUME TransferInv, Quiet, upload = NoUpload
               PROVE  /\ \A i \in Transfer \ hist.lost : temp[i] = Absent
                      /\ Stored = Partial => dest.id \in hist.lost
    BY DEF NothingLeftBehind
  <2>1. task.at = "idle" /\ upload.id = 0
    BY DEF Quiet, Idle, NoUpload
  <2>2. \A i \in Transfer : ~Handled(i)
    BY <2>1, Bounds DEF Handled, Aborting
  <2> QED BY <2>2, PartialNumber DEF TransferInv, Backend, FilesHandled
<1> QED BY <1>1, TransferInvariant, PTL
-----------------------------------------------------------------------------
(* Uploads implement AtomicUpload.                                           *)

\* When the destination is what the file of an upload that ended well would be.
LEMMA StoredFacts ==
  /\ dest = NoFile => Stored = None
  /\ dest # NoFile => Stored = IF dest.n = Size /\ (dest.renamed \/ dest.id \in hist.done)
                               THEN dest.id ELSE Partial
  /\ Size # 0 /\ NoFile.id = 0 /\ 0 \notin Transfer
BY Bounds DEF Stored, NoFile

\* The destination is missing or the old file in the beginning.
LEMMA RefinesInit == Init => Atomic!Init
<1> SUFFICES ASSUME Init PROVE Stored \in {None, 0} /\ hist.told = {}
  BY DEF Atomic!Init
<1>1. hist.told = {} /\ dest \in {NoFile, OldFile}
  BY DEF Init
<1>2. OldFile.n = Size /\ OldFile.renamed /\ OldFile.id = 0 /\ OldFile # NoFile
  BY DEF OldFile, NoFile
<1> QED BY <1>1, <1>2, StoredFacts

\* Nothing AtomicUpload sees is changed.
LEMMA RefinesStutter ==
  ASSUME dest' = dest, hist'.done = hist.done, hist'.told = hist.told
  PROVE  UNCHANGED Atomic!vars
BY DEF Atomic!vars, Stored

\* A task goes on: at most it ends an upload, whose file is in place.
LEMMA RefinesResume ==
  ASSUME Publishes
  PROVE  [Atomic!Next]_(Atomic!vars)
<1>1. CASE hist'.done = hist.done
  BY <1>1, RefinesStutter DEF Publishes
<1>2. CASE hist'.done # hist.done
  <2>1. /\ dest' = dest /\ hist'.told = hist.told
        /\ hist'.done = hist.done \union {task.id} /\ task.id \in Transfer
        /\ dest.id = task.id /\ dest.n = Size
    BY <1>2 DEF Publishes
  <2>2. dest # NoFile /\ task.id \in hist'.done
    BY <2>1, StoredFacts
  <2>3. Stored' = task.id
    BY <2>1, <2>2 DEF Stored
  <2>4. Atomic!Publish(task.id)
    BY <2>1, <2>3 DEF Atomic!Publish
  <2> QED BY <2>1, <2>4 DEF Atomic!Next
<1> QED BY <1>1, <1>2

\* The server carries out a request of an upload.
LEMMA RefinesServer ==
  ASSUME TransferInv, ServerAnswers
  PROVE  [Atomic!Next]_(Atomic!vars)
<1> DEFINE r == srv[1]
<1>1. /\ r.id \in Transfer /\ Pending(1) /\ hist' = hist
  BY HeadFacts, ServerQueue
<1>2. CASE dest' = dest
  BY <1>1, <1>2, RefinesStutter
<1>3. CASE /\ r.op = "open" /\ ~r.temporary /\ dest = NoFile
           /\ dest' = [id |-> r.id, n |-> 0, renamed |-> FALSE]
  <2>1. dest'.id = r.id /\ dest'.n = 0 /\ dest' # NoFile
    BY <1>1, <1>3, StoredFacts
  <2>2. Stored = None /\ Stored' = Partial
    BY <1>3, <2>1, StoredFacts DEF Stored
  <2> QED BY <1>1, <2>2 DEF Atomic!Next, Atomic!Create
<1>4. CASE /\ r.op = "write" /\ ~r.temporary /\ dest' = [dest EXCEPT !.n = @ + 1]
  <2>1. Own(r.id) /\ dest.n < Size /\ dest \in File
    BY <1>1, <1>4 DEF Pending, TransferInv, TypeOK
  <2>2. dest'.id = r.id /\ dest'.renamed = dest.renamed
    BY <1>4, <2>1 DEF File, Own
  <2>3. dest # NoFile /\ dest' # NoFile /\ dest.n # Size /\ ~dest'.renamed /\ r.id \notin hist.done
    BY <1>1, <2>1, <2>2, StoredFacts, Bounds DEF Own, File
  <2>4. Stored = Partial /\ Stored' = Partial
    BY <1>1, <2>2, <2>3 DEF Stored
  <2> QED BY <1>1, <2>4 DEF Atomic!vars
<1>5. CASE r.op = "rename" /\ dest' = [id |-> r.id, n |-> temp[r.id], renamed |-> TRUE]
  <2>1. temp[r.id] = Size
    BY <1>1, <1>5 DEF Pending
  <2>2. dest'.id = r.id /\ dest'.n = Size /\ dest'.renamed /\ dest' # NoFile
    BY <1>1, <1>5, <2>1, StoredFacts
  <2>3. Stored' = r.id
    BY <2>2 DEF Stored
  <2>4. Atomic!Publish(r.id)
    BY <1>1, <2>3 DEF Atomic!Publish
  <2> QED BY <1>1, <2>4 DEF Atomic!Next
<1>6. CASE r.op = "remove" /\ ~r.temporary /\ dest' = NoFile
  <2>1. Own(r.id)
    BY <1>1, <1>6 DEF Pending
  <2>2. dest # NoFile /\ Stored = Partial
    BY <1>1, <2>1, StoredFacts DEF Own
  <2>3. Stored' = None
    BY <1>6 DEF Stored
  <2> QED BY <1>1, <2>2, <2>3 DEF Atomic!Next, Atomic!Abandon
<1> QED BY <1>2, <1>3, <1>4, <1>5, <1>6, EffectCases

\* The browser reports an upload.
LEMMA RefinesComplete ==
  ASSUME TransferInv, HandleUploadComplete
  PROVE  [Atomic!Next]_(Atomic!vars)
<1>1. /\ Received("complete") /\ dest' = dest
      /\ \/ hist' = hist
         \/ /\ xfer.kind = "upload" /\ Head(down).id = xfer.id
            /\ hist' = [hist EXCEPT !.told = @ \union {xfer.id}]
  BY DEF HandleUploadComplete, Received, fileVars, Mine
<1>2. CASE hist' = hist
  BY <1>1, <1>2, RefinesStutter
<1>3. CASE /\ xfer.kind = "upload" /\ Head(down).id = xfer.id
           /\ hist' = [hist EXCEPT !.told = @ \union {xfer.id}]
  <2>1. xfer.id \in Transfer /\ xfer.id = hist.started
    BY <1>3, XferFacts
  <2>2. Head(down) = down[1] /\ 1 \in Downs /\ Head(down).t = "complete"
    <3>1. down \in Seq(DownMessage) /\ down # <<>> /\ Head(down).t = "complete"
      BY <1>1 DEF TransferInv, TypeOK, Received
    <3> QED BY <3>1, TailAt DEF Downs
  <2>3. xfer.id \in hist.done
    BY <1>3, <2>2 DEF TransferInv, Frontend, DownFits
  <2>4. dest.id = xfer.id /\ dest.n = Size
    BY <2>1, <2>3 DEF TransferInv, Backend, Recent
  <2>5. Stored = xfer.id
    BY <2>1, <2>3, <2>4, StoredFacts
  <2>6. hist'.told = hist.told \union {xfer.id} /\ hist'.done = hist.done
    BY <1>3 DEF TransferInv, TypeOK, History
  <2>7. Stored' = Stored
    BY <1>1, <2>6 DEF Stored
  <2>8. Atomic!Tell(xfer.id)
    BY <2>5, <2>6, <2>7 DEF Atomic!Tell
  <2> QED BY <2>1, <2>8 DEF Atomic!Next
<1> QED BY <1>1, <1>2, <1>3

\* Every other step leaves the destination alone, ends no upload and reports none.
LEMMA RefinesOther ==
  ASSUME TransferInv, [Next]_vars, ~HandleUploadComplete, ~RequestAnswered, ~RequestTimeout,
         ~ServerAnswers
  PROVE  UNCHANGED Atomic!vars
<1>0. hist \in History
  BY DEF TransferInv, TypeOK
<1>1. CASE StartUpload \/ StartDownload \/ CancelTransfer \/ SliceRead \/ BrowserCloses
  <2>1. dest' = dest /\ (hist' = hist \/ hist' = [hist EXCEPT !.started = @ + 1]
                         \/ hist' = [hist EXCEPT !.drops = @ + 1])
    BY <1>1 DEF StartUpload, StartDownload, CancelTransfer, SliceRead, BrowserCloses,
       fileVars
  <2> QED BY <1>0, <2>1, RefinesStutter DEF History
<1>2. CASE BrowserHandles
  <2>1. CASE HandleDownloadDone
    <3>1. dest' = dest /\ (hist' = hist \/ hist' = [hist EXCEPT !.saved = @ \union {<<xfer.own, xfer.got, Head(down).t>>}])
      BY <2>1 DEF HandleDownloadDone, Received, fileVars
    <3> QED BY <1>0, <3>1, RefinesStutter DEF History
  <2>2. CASE \/ HandleUploadReady \/ HandleUploadProgress \/ HandleDownloadStart
             \/ HandleBinary \/ HandleTransferCancelled \/ HandleServerError
    <3>1. dest' = dest /\ hist' = hist
      BY <2>2 DEF HandleUploadReady, HandleUploadProgress, HandleDownloadStart,
         HandleBinary,
         HandleTransferCancelled, HandleServerError, Received, fileVars
    <3> QED BY <3>1, RefinesStutter
  <2> QED BY <1>2, <2>1, <2>2 DEF BrowserHandles
<1>3. CASE SessionHandles
  <2>1. dest' = dest /\ hist' = hist
    BY <1>3 DEF SessionHandles, HandlerStartUpload, UploadChunk, FinishUpload, CancelUpload,
       Download, CancelDownload, NextTask, fileVars
  <2> QED BY <2>1, RefinesStutter
<1>4. CASE ChannelCloses \/ SessionDetaches
  <2>1. dest' = dest /\ (hist' = Dropping \/ hist' = [Dropping EXCEPT !.drops = @ + 1])
    BY <1>4 DEF ChannelCloses, SessionDetaches, Dispose, fileVars
  <2>2. Dropping.done = hist.done /\ Dropping.told = hist.told
    BY <1>0 DEF Dropping, History
  <2>3. [Dropping EXCEPT !.drops = @ + 1].done = Dropping.done
        /\ [Dropping EXCEPT !.drops = @ + 1].told = Dropping.told
    BY <1>0 DEF Dropping, History
  <2> QED BY <2>1, <2>2, <2>3, RefinesStutter
<1>5. CASE Reconnect \/ ServerEnds \/ UNCHANGED vars
  <2>1. dest' = dest /\ hist' = hist
    BY <1>5 DEF Reconnect, ServerEnds, vars, fileVars
  <2> QED BY <2>1, RefinesStutter
<1> QED BY <1>1, <1>2, <1>3, <1>4, <1>5 DEF Next, BrowserHandles

\* UploadIsAtomic: every step of the upload protocol is a step of AtomicUpload or
\* leaves it unchanged: a reader of the destination never sees an overwritten file in
\* part, and the browser reports an upload only after it is in place.
THEOREM UploadsAreAtomic == Spec => UploadIsAtomic
<1>1. Init => Atomic!Init
  BY RefinesInit
<1>2. TransferInv /\ [Next]_vars => [Atomic!Next]_(Atomic!vars)
  <2> SUFFICES ASSUME TransferInv, [Next]_vars PROVE [Atomic!Next]_(Atomic!vars)
    OBVIOUS
  <2>1. CASE HandleUploadComplete
    BY <2>1, RefinesComplete
  <2>2. CASE RequestAnswered \/ RequestTimeout
    BY <2>2, RequestAnsweredInv, RequestTimeoutInv, RefinesResume
  <2>3. CASE ServerAnswers
    BY <2>3, RefinesServer
  <2>4. CASE ~HandleUploadComplete /\ ~RequestAnswered /\ ~RequestTimeout /\ ~ServerAnswers
    BY <2>4, RefinesOther
  <2> QED BY <2>1, <2>2, <2>3, <2>4
<1> QED BY <1>1, <1>2, TransferInvariant, PTL DEF Spec, UploadIsAtomic, Atomic!Spec
====
