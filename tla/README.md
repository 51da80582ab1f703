# A verification project for CF VPS Monitor

CF VPS Monitor is a panel for servers: Go agents report to a Cloudflare Worker,
Durable Objects hold the live state, Supabase Postgres keeps configuration and
history, a cron in the Worker sends notifications, browsers watch live and open
SSH sessions through the Worker. This directory holds TLA+ models of it, TLC runs
and TLAPS proofs. Paths below are relative to the repository;
`worker/src/do/live-data.ts` is written `live-data.ts`.

## 1. Inventory

| Part | State | Operations | Hard because | Module |
| --- | --- | --- | --- | --- |
| LiveDataDO: connections and screens (`live-data.ts`) | sessions, roles, viewer windows, online nodes (memory); attachments and one alarm (durable) | upgrade, message, close, HTTP report, rename/hide, remove, alarm, rebuild | evictions, late closes, one shared alarm, awaits inside `alarm()` | `LiveHub` |
| Browser live data (`LiveDataContext.tsx`) | socket, timers, failure streak in refs | connect, poll, hide, show, focus, log in | awaits, two sockets, what an earlier mount left | `LiveView` |
| Agent token lookup (`routes/client.ts`) | isolate caches, snapshots in the DO, database | lookup, deferred upsert, add, edit, rotate, remove one or several, restore a backup | three copies updated in no fixed order | `AgentTokens` |
| Login, session, second factor (`routes/public.ts`, `routes/admin.ts`, `auth/`) | account row with its session version, signed tokens, used codes | log in, step up, enrol, change, recover | read, verify, write of parallel requests | `AdminAccess` |
| Offline check of the cron (`index.ts`) | `last_notified` rows, newest records | list, read, send, mark | send then mark, overlapping runs, failing calls | `OfflineNotify` |
| Website monitoring (`utils/website-monitor.ts`, SQL) | failure counters, alert mark | check, record, notify, pause, edit | four sources of checks beside each other | `WebsiteMonitor` |
| WebSSH session (`webssh/backend/session.ts`) | phase, reader, secret, host key question, input queue, timers | handshake, authenticate, shell, input, close | a reader suspended at every await | `SshSession` |
| WebSSH channels (same file, `ssh/channel.ts`) | channel table, SFTP, process and kill requests | open, confirm, time out, attach, detach | answers after a timeout, sockets that leave | `SshChannels` |
| File transfer (`file-manager.ts`, `sftp-handler.ts`, `ssh/sftp.ts`) | transfer in the browser, upload and download in the handler, remote files | chunks, end, cancel, abort, rename | two queues, timeouts, requests carried out late | `SftpTransfer` |
| Go agent: traffic (`agent/main.go`) | counter in memory and on disk | sample, save | reboots, restarts, month ends | `TrafficTracker` |
| LiveDataDO: persistence, policy | persist marks, capacity snapshot, settings and task caches | persist a report, build and send a policy | check-then-act over awaits, stale settings | planned |
| Go agent: sessions | session, policy, ping schedule | connect, fall back to HTTP | reconnects | planned |
| RateLimitDO (`do/rate-limit.ts`) | window per bucket, alarm | count, sweep, evict | limits on the number of buckets | planned |
| Setup, backup, themes, pages, scripts | | | outside the core, see section 8 | none |

Agents and browsers reach LiveDataDO through the Worker's routes. The admin API
writes the database first and then tells LiveDataDO, several calls in parallel.
LiveDataDO stores records; the cron reads only the database. A WebSSH session is
a Durable Object of its own, with one socket for the terminal, one for the file
manager and one for the process monitor. What each part must guarantee is listed
with the runs in section 3. Everything hard to test is listed line by line under
"hazards" in `PROJECT.json`, with the properties that would catch it going wrong.

## 2. Modules

Each component has one module; `MC...` modules instantiate it for TLC and
`...Proofs` modules hold the theorems of one or two components (`LiveDataProofs`
those of the hub and of the page, `NotificationProofs` those of both checks of the
cron; the definitions of `LiveView` and `WebsiteMonitor` have names of their own,
`PageNext` or `MonitorSpec`, for that reason). A step of a model is what the code
does between two awaits at which somebody else may change the state it uses.

### LiveHub: connections, screens, expiry

Variables are named after the class's fields: `sessions`, `sessionRoles`,
`viewerExpiresAt`, `clients`; `att` is what `serializeAttachment` stored on each
socket and `alarm` what `storage.setAlarm` holds, so both survive an eviction;
`conn` is a socket's readyState; `shown` is what the messages sent to a viewer
say is online. One action per handler: `AgentConnect` and `ViewerConnect`
(upgrade), `AgentReport`, `OversizedMessage`, `SocketClosed` (close and error),
`HttpReport`, `NetworkMetadataInferred` (the end of a background lookup),
`UpdateClientMeta`, `RemoveClient`, `AlarmStart`/`AlarmFinish`/`AlarmFails`,
`Restart` (eviction and constructor) and `Tick`.

* A Durable Object is single threaded and awaits on its own storage hold back
  other events, so handlers are atomic; `alarm()` awaits the database in the
  middle and is two steps. A throwing alarm is delivered again by the platform.
* `getWebSockets()` returns sockets that are closing too, in no stated order:
  `Restart` chooses any order.
* Deadlines are ticks left, not absolute times: the state space stays finite
  without a clock and without cutting behaviours off. A tick is at least a second.
* A report's content is reduced to whether there is one; the agent's clock
  matters only where code compares with it, and `HttpReport` takes that skew as
  an input.
* A viewer's id is a fresh UUID, one per socket, so the socket stands for it.

`LiveHubHistory` is the hub with two history variables: `evicted`, whether the
object was ever rebuilt, and `ahead`, the nodes whose latest HTTP report carried a
time past its own deadline, which puts the node online and tells no viewer. Its four
properties `...UntilEvicted` are the ones the rebuild may end (section 6).

### LiveView: a page that stays fed

`ref` is wsRef, wsOpenRef and wsFailStreakRef, `timer` the reconnect and poll
timers, `tokens` the `connect()` calls that wait for a viewer token, `poll` and
`refresh` the fetches under way. Refs outlive a login or logout while effects do
not: `Remount` turns what is under way into work of an old mount, which still
touches the shared refs (`OldTokenReturns`, `OldPollReturns`, `ExpiredEvent` of an
old socket). `robbed` remembers that it took a timer or the socket away.
Only control is modelled; what the data say, the bootstrap, and handlers that only
fetch (error event, snapshot timeout) are left out. A snapshot follows an accepted
upgrade unless the connection drops. The network may refuse, drop or expire a
connection at any time.

### AgentTokens: three copies of a token

`row` is the database, `snap` and `byUuid` the Durable Object's snapshots and
their index, `cache` the entries of each isolate, hits and misses alike, `sock`
the agents connected. A request asks cache, Durable Object and database in turn,
fills the cache, and may defer an upsert of what it read. An administrator's
handler writes the row and then sends its calls side by side (`op[o].todo`),
any of which may be lost (`CanLose`). `BatchRemove` deletes the rows of several
nodes at once and then removes them from the Durable Object one after the other
(`op[o].rest`; reading and deleting the rows is one step). `RestoreBackup` replaces
all rows and tells the Durable Object nothing. `RemoveClient` closes the socket that
is registered for the node, which after a rebuild may not be the open one. `leaked`
is a history variable: tokens that became valid again, or stayed so, along a way the
code leaves open.

### AdminAccess: password, second factor, step-up

`acct` is the account's row; every SQL function on it is one atomic change that
may give it a new session version. `req[r]` is a request between its read and its
write. `sessions`, `challenges`, `stepups` and `setups` hold all tokens ever
signed, and a request may present any of them; a session and a challenge carry the
password that opened them (`pass`), which no code reads. `Rehash` is the background
write of a password hashed anew; `undone` remembers that it replaced the password of
the present version. The failure counter may refuse any attempt.

### OfflineNotify: offline and recovery messages

`runScheduled` takes `now`, cleans up old records, lists the rows with alerts on,
reads the newest record times, and for every node that changed sends a message
and writes `last_notified`. Each run is a record (`run[r]`) with its phase and
what it read; the steps are the code's awaits. `age` is the time since the newest
record, saturating at the grace period. Four variables are history: `told`, what
the last message that arrived said; `alerts`, how many the present fault has had;
`refused`, the nodes whose latest message the channel refused; and `doubt`, the nodes
whose row may not tell what was sent, because two runs had the node in hand at once
or a run ended between a message and its mark. A message sent while no other run has
the node in hand ends the doubt. `CanFail` lets any database call throw, which ends
the check; `Outcomes` says whether the channel may refuse.

### WebsiteMonitor: one monitored site

`row` is the monitor's row, `site` the truth. The cron's run, the administrator's
check and the Durable Object's own check (`at[c]`) each ask the site, wait, and
record in one statement (`Recorded`, translated from
`cfm_record_website_check`); agents report results beside them. The cron alone
sends and marks. Instants are kept as what the code asks of them: `due`, `ripe`
(the grace period is over), `fresh` (an agent saw the site up lately). Agents may
report at any time and for ever. `Budget` pays for manual checks, pauses, edits and
failing calls. One check of the Durable Object is under way at a time.

### SshSession, SshChannels: the WebSSH backend

`SshSession` is one session from handshake to close: `rd` says where the reader is
suspended, `kex` and `auth` what was negotiated, `asking` the host key question in
the browser, `input` the queue against the shell's window, `timers` the shell
timeout and keepalives. The server may send any packet during the handshake.
`seen` is history. `SshChannels` goes on once the shell is ready: `chan[c]` is a
channel on both ends, `reg` the table, `sftpOpen` and `procOpen` the pending
opens, `kill[c]` a kill request. On its channels the server keeps to RFC 4254.
Channel numbers are never reused, as in the code; `MaxChannels` bounds them.

### SftpTransfer and AtomicUpload: transfers

Browser and session exchange `up` and `down` in order; the session runs one task
at a time, suspended at one SFTP request (`task.at`); `srv` are the requests the
server has yet to carry out, which it may still do after their timeout. `dest` is
the file at the destination, `temp` the temporary files. `AtomicUpload` is the
promise: a whole version is replaced only by a whole version, in one step, and the
user is told of a version only while it is in place. The mapping reads a file as a
version once it was renamed into place or its upload to a free name ended well
(`Stored`); `UploadIsAtomic` is the refinement. Assumed of the server: it carries
out the requests of a channel in order, may refuse any, and is done with a closed
channel before another opens; nobody else writes the file. A read may find nothing
before the size the server gave: the session then reports the download as done with
what it sent so far (`dlshort`).

### TrafficTracker: the agent's monthly traffic

The kernel counts bytes since boot, the panel shows bytes since the reset day, and
`adjustSinceBoot` turns one into the other with the state of the last sample. A
sample has five ways out, each an action. `mem` and `file` are that state in
memory and on disk, with two history fields: what had been carried when it was
taken (`at`), and from where its total counts (`from`). The host is `sent`, `raw`,
`mark`, `period` and `covers`. Boot times are kept as far as the code compares
them: unknown, of this boot, of another. `save` ends in one of three ways:
written, failed with the old file in place, or with no file. `adjustSinceBoot`
holds a mutex, so a sample is one step.

## 3. Runs

All twelve runs pass.

| Run | What it shows |
| --- | --- |
| `hub_evictions` | With evictions at any step: maps and attachments agree (`SessionIndex`), limits hold (`ViewerLimits`), every open window has an alarm (`ViewerDeadlineArmed`). Until the first eviction and but for the nodes in `ahead`: an administrator's screen equals the hub (`AdminScreenUntilEvicted`), public screens miss nothing (`PublicScreenUntilEvicted`). Until then too, an open agent socket is the registered one (`OneAgentUntilEvicted`), HTTP nodes have an alarm (`ClientDeadlineUntilEvicted`) |
| `hub_quiet` | A viewer whose window ended is disconnected unless others move the alarm for ever |
| `live_view` | A visible page always has a next step (`NeverStalls`) and goes on being fed, also with the circuit breaker open (`PageStaysFed`) |
| `offline_check` | Under overlap, failures and refusals: one alert per fault (`AlertOncePerFault`) and recoveries only after alerts (`RecoveryOnlyAfterAlert`), but for nodes in doubt; lasting faults and recoveries are told, but for refusals and doubt (`LastingFaultTold`, `LastingRecoveryTold`); the alerts of a fault end (`AlertsQuiesce`) |
| `website_monitor` | One alert per outage plus one per failing call (`AlertOncePerOutage`); recoveries only after alerts; lasting outages are told, and lasting recoveries unless their alert was dropped, if no agent probes the site or the scheduled check still gets to it again and again (`CronKeepsChecking`) |
| `agent_tokens` | An old token stays valid in the Durable Object only along the listed ways (`OldTokenOnlyLeaks`), fades from the caches (`OldTokenFades`), and a new one is admitted everywhere (`NewTokenAdmitted`) |
| `token_batches` | `OldTokenOnlyLeaks` with two nodes and two administrators: batch removals that fail half way, restored backups and single handlers overlap |
| `admin_access` | A factor is accepted once (`FactorUsedOnce`); live sessions and step-ups belong to the account's present factor (`LiveTokensOfThisFactor`), live sessions to its present password unless a rehash undid that (`LiveSessionsOfThisPassword`) |
| `ssh_session` | The secret goes only to an accepted host, no more often than its method needs; no wakeup of the input queue is lost; a session that closed ends closed for good (`CloseSticks`) |
| `ssh_channels` | No message for a forgotten channel, no orphan channel, every kill answered at most once, no request without a timer or an answer to come |
| `sftp_transfer` | Uploads implement `AtomicUpload`; a saved download holds its own chunks only, all of them unless the server ended the file early (`DownloadAsServed`); nothing is left behind; the next transfer is accepted; every transfer ends |
| `traffic_count` | Over reboots, restarts, other settings, month ends and failing writes no byte is counted twice (`NeverOvercounts`) and a saved total never falls within its month (`TotalNeverFalls`) |

**Bounds.** `hub_evictions` has one node and three sockets: two agent connections
of one node beside a viewer, or three viewers of two addresses, which meet the
total limit of two and the limit of one per address. Windows of two ticks and HTTP
deadlines of one make the alarm move both ways; a report may be one tick ahead, as
long as its deadline. Its `VIEW` forgets `shown` after an eviction: no guard reads
it and no property checked then mentions it. `live_view` has two sockets and two
connects at once, which is what it takes for a second socket, one remount, and a
circuit breaker at one failure. `offline_check` has one node and two runs, what an
overlap needs, and a grace period of two ticks, without which no node would stay
heard of; two nodes in one loop, with one run and no failing call, were checked
once (26,644 states). `website_monitor` has a budget of three disturbances, beside
agents that report without a bound (665,782 states). `agent_tokens` has one node,
two tokens, one isolate, one administrator and one request (429,620 states);
`token_batches` adds the second node and administrator and leaves out the requests
(212,343). `admin_access` has two requests, two passwords, three versions of the
account, one secret and two time steps: a change and another change around any
request. `ssh_session` and `ssh_channels` take small limits for the code's 16
rounds, 8 kills and queue sizes; two channels let a kill and the channel of a
monitor overlap. `sftp_transfer` has two transfers of two chunks and one lost
connection (128,732 states). `traffic_count` has two settings, two months and
three bytes. Symmetry is used only in runs without liveness. Deadlock is not
checked in `admin_access`, `ssh_session`, `ssh_channels` and `sftp_transfer`,
which may stop: sessions end and budgets do.

**Fairness.** Nothing is assumed of users, administrators, agents or a server's
good will beyond this.

* `LiveHub`: time passes, the platform delivers a due alarm, and a broadcast that
  does not fail every time finishes (strong fairness, failures interrupt it).
* `LiveView`: the page's events and timers are handled, a viewer's window ends,
  an upgrade is answered or fails, and fetches do not fail every time (strong);
  connections may fail for ever.
* `OfflineNotify`: time passes, the cron keeps starting runs, and no call fails
  every time (strong fairness of the steps that end in one).
* `WebsiteMonitor`: time passes, the cron fires, and a check begun ends.
* `AgentTokens`: handlers and lookups go on, and cache entries lapse.
* `SshSession`: promises settle and timers fire.
* `SftpTransfer`: both event loops run, requests are answered or time out, and a
  socket of a page that is online closes.

## 4. Proofs

Every theorem is for all values of the constants under the module's assumptions.

* **LiveDataProofs.** Of the hub: `TypeCorrect`, `SessionsIndexed`, `ViewersKept`,
  `DeadlinesArmed`, `LimitsHold`, `WindowsFinal`. `IndexInv` is `TypeOK`,
  `AcceptedViewersKept` and `SessionIndex` together: `SessionIndex` alone is not
  inductive, since `Restart` rebuilds the maps from attachments of sockets that
  the maps may not know, and only `AcceptedViewersKept` says those are viewers
  whose window is over. The other theorems use it and have one step lemma each.
  Until an eviction: `OneAgentPerNode`, `ClientDeadlinesArmed`, `AdminScreensExact`,
  `PublicScreensComplete`. `HistorySpec` implies `Spec`, so `IndexInv` holds there
  too, and each of the four is inductive relative to it. The screens are treated
  one viewer and one node at a time (`Screens`, shown by `ScreensMean` to be both
  screen properties), for every error of the agents' clocks. Of the page: `PageNeverStalls`,
  with `PageInv`: the types of what the page decides on and the two halves of
  `NeverStalls`, the poll's and the socket's.
* **NotificationProofs.** Of the offline check, for any number of overlapping runs,
  failing calls and refusals: `TypeCorrect`, `OncePerFault` and `RecoveryOfTheTold`
  from `NotifyInv`. Neither property is inductive. `NotifyInv` says of every node
  that is not in `doubt` that its row is right (`RowSure`: an alert is in
  `last_notified` or about to be, a mark stands for an alert) and that what each run
  read and has in hand agrees with what was sent (`RunSure`): an alert follows no
  other, a recovery follows an alert, and what is sent and not written is in no
  other run's hands. Of website monitors: `WebsiteTypes`, `OncePerOutage` and
  `RecoveryAfterAlert` from `AlertInv`. The bound on alerts is not inductive:
  `AlertsAccounted` says in which states of the row and of the run an unexcused
  alert is excluded, `MarkMeansTold` what a mark stands for, and `FaultsPaid` that
  faults are paid from the budget.
* **AgentTokensProofs.** `OldTokensOnlyLeak` from `TokenInv`: `Indexed` says that a
  snapshot the index has forgotten is a leaked token's, so that a removal by uuid
  takes every other one; `Named` that handlers and requests under way name what
  they will write.
* **AdminAccessProofs.** `FactorOnce`, `TokensOfThisFactor`,
  `SessionsOfThisPassword` from `AccessInv`: `SpentGone` (what was accepted cannot
  be consumed again in this version) and `VersionsHold` (a request knows, and a
  token was signed for, a version the account has or had; while it has it, the
  factor is the one read, and the password that a login, its challenge and its
  session rest on is the account's or was undone by a rehash).
* **SshSessionProofs.** `SecretsToAcceptedHost` and `NoWakeupLost` from
  `SessionInv`: `KeysAccepted` ties the phases of
  authentication to keys of an accepted host, and `SecretsCounted` counts each
  secret against the flags that guard it.
* **SshChannelsProofs.** `ChannelsInvariant`, and from it `RecipientsKnown`,
  `NoChannelOrphaned`, `KillsAnsweredOnce`, `NothingGetsStuck`, for any number of
  channels and kills. None of the four properties is inductive. `ChannelInv` adds
  what they rest on: a channel number is used once (`FreshChannels`), the server
  writes nothing after the CLOSE the reader is answering (`ReplyIsLast`), our CLOSE
  follows our EOF or the server's CLOSE (`CloseAfterEof`), an open that never left
  met a broken connection (`UnsentIsBroken`), and an entry of the kill table is
  unanswered, on a kill channel, and cancelled once the monitor's socket is gone
  (`KillTable`). One lemma for each action carries the relations across it.
* **SftpTransferProofs.** `TransferInvariant`, and from it `DownloadsAsServed`,
  `NextIsAccepted`, `NothingIsLeft` and the refinement `UploadsAreAtomic`, for every
  file size and number of transfers and of lost connections. `TransferInv` has two
  parts. `Backend` ties the task to the request it awaits (`Awaits`, `TaskFits`),
  the requests still to be carried out, late ones included, to the file they will
  meet (`PendingFits`, `LateIsLost`, `HandlerAlone`), and the file to what the
  handler believes (`FileFollows`, `FilesHandled`, `Recent`). `Frontend` ties the
  browser's transfer to the messages on their way (`UpFits`, `Unheard`, `Shown`,
  `DownFits`) and numbers the chunks of a download (`Counted`). For the refinement
  the initial state maps to an initial state of `AtomicUpload`, and every step,
  given the invariant, to a step of it or to a stutter: only a rename, the end of
  an upload to a free name and the browser's report change what the mapping sees
  of a whole file; for the server's late work that is `PendingFits`.
* **TrafficTrackerProofs.** `NoOvercount` from `CountInv`, which says of memory and
  file alike that the sample was taken in this boot, and then `raw` grew by what
  was carried since, or that everything `raw` counts came after it. A counter that
  fell excludes the first, which is why adding all of `raw` is right there.
  `TotalsOnlyGrow` needs `NothingToLose` besides: an agent that has not sampled
  holds nothing, and only a file of an older agent, which has no total, has a
  baseline; what the migration of such a file replaces is then zero.

The modules also prove the type invariants, on their own or as a part of an
inductive invariant, except that of `LiveView`, of which a part is enough.

TLC found the inductive invariants `ChannelInv` (689,089 states) and `TransferInv`
(128,732) to hold on the instances of their runs before they were proved.

Every safety property a run checks is thus a theorem. Only model-checked is what
must eventually happen, since the prover does not reason about fairness:
`ExpiredViewerRemovedOnceQuiet`, `PageStaysFed`, `LastingFaultTold`,
`LastingRecoveryTold`, `AlertsQuiesce`, `LastingOutageTold`,
`LastingSiteRecoveryTold`, `OldTokenFades`, `NewTokenAdmitted`, `CloseSticks` and
`TransferEnds`. The refinement is proved for `Spec`; `AtomicUpload` states no
fairness.

## 5. Faults

Definitions commented "Fault:" are a mapped definition with a plausible slip
(a dropped guard, an off by one, a forgotten deadline). Each property of a run is
violated when its fault replaces the definition; `PROJECT.json` pairs them.

## 6. What the code does and no property forbids

Met while modelling; each bounds what the properties above may say.

* `live-data.ts:646`: a report can be the first message with a node's hidden flag;
  the node then stays on public screens until the metadata update.
* `live-data.ts:501`: a rebuild may register the closing socket of a node that
  reconnected, hence the properties that end with an eviction.
* `live-data.ts:1436`: whether viewers are told of an HTTP report is judged by the
  time the report carries, which may lie a minute ahead, and the node's deadline
  counts from the Worker's; a report that lives no longer than its time is ahead
  puts the node online without telling anybody (`ahead`).
* `live-data.ts:1021`: HTTP reports may postpone the alarm, and with it an expired
  viewer's disconnection, for ever.
* `index.ts:403`: a manual run beside the cron alerts twice for one fault;
  `index.ts:588`: so does a run that ends between the message and its mark;
  `index.ts:598`: a failing write after a recovery hides the next outage. These are
  the ways into `doubt`. A refused alert is marked as sent and not repeated.
* `agent/main.go:2334`: after a reboot within the month, the repair of a total that
  is too small drops what earlier boots of the month had counted.
* `routes/admin.ts:1655`: a rotation's two calls are unordered, and a deferred upsert
  may come after both: an old token may then stay valid in the Durable Object. The
  dashboard says an old agent is refused at once (`Dashboard.tsx:841`).
* `routes/admin.ts:3040`: a restored backup replaces or deletes tokens and tells the
  Durable Object nothing: the snapshots and sockets of the tokens it replaced stay
  valid. `routes/admin.ts:1757`: a batch removal that fails half way leaves the other
  nodes, whose rows are gone, with theirs. `live-data.ts:1290`: a removal closes the
  registered socket, after a rebuild perhaps not the open one.
* `routes/public.ts:1126`: the background rehash may bring an old password back, under
  the version, and the sessions, of the new one.
* `session.ts:1059`: the open timer of a process channel outlives its socket and may
  fire for a monitor attached later. `session.ts:738`: a CHANNEL_FAILURE for a kill
  is ignored, and a kill cancelled late is reported as done (1130). The check of
  the attach URL (869) looks for another path than the route gives
  (`routes/ssh.ts:93`).
* `sftp-handler.ts:239`: finish-upload with another id aborts the upload under way;
  `:247`: the plain rename is refused by servers over an existing file.
  `sftp-handler.ts:169`, `file-manager.ts:982`: a read that ends the file early ends
  the download, and the browser, which prefers the size that was sent to the size
  announced, saves the truncated file as complete.
* Websites: a pause keeps `down_since`; a monitor probed silently is never alerted;
  another checker's success may drop an alert whose recovery is then never told.
  Only the cron sends, and `cfm_due_website_monitors` (`4_rpc_api.sql:3935-3950`)
  passes over a monitor with a recent success of an agent or a recent check. With
  agents that probe (the default, `4_rpc_api.sql:3910`) a recovery may therefore
  never be told, as their successes keep the cron away; nor an outage, if their
  failures keep making the Durable Object check (`live-data.ts:1603`).
* `LiveDataContext.tsx`: two connects at once make two sockets, although the comment
  at 568 says that cannot happen; a late fetch overwrites newer data; a stale
  bootstrap is shown again at each reconnect of a public page; an empty snapshot
  never empties a screen; and an old mount may clear the new one's timers, after
  which the page waits for the next visibility change, focus or activity.

## 7. Plan

1. `PersistGate` (persist marks, settings cache, capacity snapshot) and its
   composition with `OfflineNotify`: a node that reports is not called down.
2. `AgentPolicy` (settings and task caches with single-flight reads, broadcast)
   with `AgentSession` (the agent's loop): every connected agent ends up with the
   policy of the present viewers and tasks.
3. `RateLimiter` against an abstract fixed window; `LoginLimiter`.
4. The expiry and load checks of the cron.

Theorems planned: the safety invariants of these modules, and that `RateLimiter`
implements its abstract window.

## 8. Not modelled

The SSH wire protocol and cryptography, terminal and dashboard rendering, theme
packages, backup serialization and validation, setup and install scripts: input and output or
one-shot work without protocol state. Rendering, generated type declarations
(`worker-configuration.d.ts` alone has some 14,600 lines) and forms make up most of
the repository's lines, which is why the modules stand for a small share of them.

In the modelled parts: the platform giving up on an alarm after several throwing
deliveries, and a failing `setAlarm`, which the code swallows
(`live-data.ts:1038`); a download whose server gives no size; a backup whose nodes
lack tokens; deletion of a node during an offline run (the code skips it) or of a
website monitor; edits of a grace period; overlapping runs of the website check;
network counters that fall without a reboot, a clock set back, a boot time that
moves within a boot; the caches of administrator sessions and the failure
counter's values; directory operations and process parsing of WebSSH; pages that
only poll.
