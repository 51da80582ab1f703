---------------------------- MODULE AgentTokens ----------------------------
(***************************************************************************)
(* The tokens of the nodes' agents: where a token is known (the row of the *)
(* node, the snapshot in the storage of LiveDataDO, the caches of every    *)
(* isolate), how a request of an agent is looked up, and what adding,      *)
(* editing, rotating and removing nodes and restoring a backup does to     *)
(* those copies.                                                           *)
(*                                                                         *)
(* Every await of the code is a place where others step in: a lookup asks  *)
(* the cache, the Durable Object and the database one after the other, an  *)
(* administrator's handler writes the row first and then sends its calls   *)
(* to the Durable Object side by side.                                     *)
(***************************************************************************)
EXTENDS Integers

CONSTANTS
    Node,       \* uuids
    Token,      \* tokens (a token and its hash are one)
    Isolate,    \* worker isolates, each with its own caches
    Admin,      \* requests of administrators
    Request,    \* requests of agents
    CanLose,    \* TRUE: a call to the Durable Object may fail
    None

ASSUME NoneAssumption == None \notin Node \cup Token

VARIABLES
    row,        \* clients: the token of a node, None without a row
    snap,       \* storage agent-auth:<token hash>: the node, None if absent
    byUuid,     \* storage agent-auth-uuid:<uuid>: the token, None if absent
    sock,       \* the token the node's open agent socket was let in with
    cache,      \* agentAuthCache ("full") and agentIdentityAuthCache ("identity")
    op,         \* the handlers of administrators
    req,        \* the lookups of agents
    leaked      \* history: tokens a copy of which outlived its row by an overlap

vars == <<row, snap, byUuid, sock, cache, op, req, leaked>>

-----------------------------------------------------------------------------
Lookup == {"full", "identity"}
Call == {"remove", "upsert"}

NoOp == [phase |-> "idle", node |-> None, tok |-> None, todo |-> {}, rest |-> {}]
NoReq == [phase |-> "idle", look |-> "full", iso |-> None, tok |-> None,
          found |-> None, store |-> FALSE]

\* A cache entry: nothing, a refusal remembered, or the node.
CacheEntry == {"absent", "miss"} \cup Node

OpType == [phase : {"idle", "begun", "sent", "batch"}, node : Node \cup {None},
           tok : Token \cup {None}, todo : SUBSET Call, rest : SUBSET Node]

ReqType == [phase : {"idle", "do", "db", "fill", "in"}, look : Lookup,
            iso : Isolate \cup {None}, tok : Token \cup {None},
            found : Node \cup {None}, store : BOOLEAN]

(* Every copy of a token names a node, every handler and lookup is at one  *)
(* of its awaits.                                                          *)
TypeOK ==
    /\ row \in [Node -> Token \cup {None}]
    /\ snap \in [Token -> Node \cup {None}]
    /\ byUuid \in [Node -> Token \cup {None}]
    /\ sock \in [Node -> Token \cup {None}]
    /\ cache \in [Isolate \X Lookup \X Token -> CacheEntry]
    /\ op \in [Admin -> OpType]
    /\ req \in [Request -> ReqType]
    /\ leaked \in SUBSET Token

Init ==
    /\ row = [n \in Node |-> None]
    /\ snap = [t \in Token |-> None]
    /\ byUuid = [n \in Node |-> None]
    /\ sock = [n \in Node |-> None]
    /\ cache = [e \in Isolate \X Lookup \X Token |-> "absent"]
    /\ op = [o \in Admin |-> NoOp]
    /\ req = [r \in Request |-> NoReq]
    /\ leaked = {}

\* clients.token is unique; clientTokenExists asks the same table.
Unused(t) == \A n \in Node : row[n] # t
OwnerOf(t) == IF Unused(t) THEN None ELSE CHOOSE n \in Node : row[n] = t

-----------------------------------------------------------------------------
(* The administrator's handlers. The write of the row, the invalidation of *)
(* the handler's own isolate and the sending of the calls are one step: an *)
(* entry filled between the write and the invalidation is one that expires *)
(* at once.                                                                *)

\* invalidateAgentClientAuthCache({uuid}) in the isolate of the handler:
\* entries that name the node go, remembered refusals stay.
InvalidateCaches(i, n) ==
    cache' = [e \in DOMAIN cache |->
                IF e[1] = i /\ cache[e] = n THEN "absent" ELSE cache[e]]

\* invalidateAgentClientAuthCache(): all entries of the isolate go.
ClearCaches(i) ==
    cache' = [e \in DOMAIN cache |-> IF e[1] = i THEN "absent" ELSE cache[e]]

Ended(o) == [op EXCEPT ![o] = NoOp]

\* The calls the handler now awaits, side by side.
Sent(o, n, t, calls) ==
    [op EXCEPT ![o] = [phase |-> "sent", node |-> n, tok |-> t, todo |-> calls, rest |-> {}]]

\* POST /clients/add: uuid and token may be given; 409 when either exists.
AddClient(o, i, n, t) ==
    /\ op[o].phase = "idle"
    /\ row[n] = None /\ Unused(t)
    /\ row' = [row EXCEPT ![n] = t]
    /\ InvalidateCaches(i, n)
    /\ op' = Sent(o, n, t, {"upsert"})
    /\ UNCHANGED <<snap, byUuid, sock, req, leaked>>

\* POST /clients/:uuid/edit: the row comes back with the token it has now.
EditClient(o, i, n) ==
    /\ op[o].phase = "idle"
    /\ row[n] # None
    /\ InvalidateCaches(i, n)
    /\ op' = Sent(o, n, row[n], {"upsert"})
    /\ UNCHANGED <<row, snap, byUuid, sock, req, leaked>>

\* POST /clients/:uuid/remove: a node without a row is removed from the
\* Durable Object all the same, but no cache is touched.
RemoveNode(o, i, n) ==
    /\ op[o].phase = "idle"
    /\ row' = [row EXCEPT ![n] = None]
    /\ IF row[n] = None THEN UNCHANGED cache ELSE InvalidateCaches(i, n)
    /\ op' = Sent(o, n, None, {"remove"})
    /\ UNCHANGED <<snap, byUuid, sock, req, leaked>>

\* POST /clients/:uuid/token/rotate has found the node and drawn a free token.
RotateBegin(o, n, t) ==
    /\ op[o].phase = "idle"
    /\ row[n] # None /\ Unused(t)
    /\ op' = [op EXCEPT ![o] = [phase |-> "begun", node |-> n, tok |-> t, todo |-> {}, rest |-> {}]]
    /\ UNCHANGED <<row, snap, byUuid, sock, cache, req, leaked>>

\* Fault: the old token is not taken away.
RotateCallsUpsertOnly(n) == {"upsert"}

RotateCalls(n) == IF row[n] = None THEN {"remove"} ELSE {"remove", "upsert"}

\* A node removed meanwhile is still disconnected; a token taken meanwhile
\* fails the write.
RotateToken(o, i) ==
    LET n == op[o].node  t == op[o].tok IN
    /\ op[o].phase = "begun"
    /\ \/ /\ row[n] = None \/ Unused(t)
          /\ row' = [row EXCEPT ![n] = IF @ = None THEN None ELSE t]
          /\ InvalidateCaches(i, n)
          /\ op' = Sent(o, n, t, RotateCalls(n))
       \/ /\ row[n] # None /\ ~Unused(t)
          /\ op' = Ended(o)
          /\ UNCHANGED <<row, cache>>
    /\ UNCHANGED <<snap, byUuid, sock, req, leaked>>

\* Fault: only one of the nodes is taken out of the Durable Object.
BatchRemoveOne(o, S) ==
    /\ op[o].phase = "idle"
    /\ S # {} /\ \A n \in S : row[n] # None
    /\ row' = [n \in Node |-> IF n \in S THEN None ELSE row[n]]
    /\ \E n \in S : op' = [op EXCEPT ![o] = [NoOp EXCEPT !.phase = "batch", !.rest = {n}]]
    /\ UNCHANGED <<snap, byUuid, sock, cache, req, leaked>>

\* POST /clients/batch-remove deletes the rows, then awaits one removal after
\* the other and clears the caches at the end.
BatchRemove(o, S) ==
    /\ op[o].phase = "idle"
    /\ S # {} /\ \A n \in S : row[n] # None
    /\ row' = [n \in Node |-> IF n \in S THEN None ELSE row[n]]
    /\ op' = [op EXCEPT ![o] = [NoOp EXCEPT !.phase = "batch", !.rest = S]]
    /\ UNCHANGED <<snap, byUuid, sock, cache, req, leaked>>

\* POST /upload/backup: a backup (its tokens differ, utils/backup.ts) takes the
\* place of all rows and the Durable Object is told nothing: the snapshot and
\* the socket of a token that is in no row any more outlive it.
RestoreBackup(o, i, backup) ==
    /\ op[o].phase = "idle"
    /\ \A m, n \in Node : backup[m] = backup[n] => m = n \/ backup[m] = None
    /\ row' = backup
    /\ ClearCaches(i)
    /\ leaked' = leaked \cup {t \in Token : \E n \in Node :
                               /\ row[n] = t /\ backup[n] # t
                               /\ snap[t] = n \/ sock[n] = t}
    /\ UNCHANGED <<snap, byUuid, sock, op, req>>

-----------------------------------------------------------------------------
(* What the Durable Object does with the calls, whoever sent them.         *)

\* upsertAgentAuthSnapshot: both keys are written, a snapshot the index
\* pointed to before is left where it is.
Upsert(n, t) ==
    /\ snap' = [snap EXCEPT ![t] = n]
    /\ byUuid' = [byUuid EXCEPT ![n] = t]
    /\ leaked' = leaked
         \cup (IF row[n] # t THEN {t} ELSE {})
         \cup (IF byUuid[n] \in Token \ {t} THEN {byUuid[n]} ELSE {})
    /\ UNCHANGED sock

\* The snapshot the index points to goes.
RemoveAgentAuthByUuid(n) ==
    /\ snap' = [t \in Token |-> IF byUuid[n] = t THEN None ELSE snap[t]]
    /\ byUuid' = [byUuid EXCEPT ![n] = None]

\* removeClient closes the socket it has registered for the node. After a
\* rebuild that may be a replaced socket still closing: the open one stays.
RemoveClient(n) ==
    /\ \/ /\ sock' = [sock EXCEPT ![n] = None]
          /\ UNCHANGED leaked
       \/ /\ sock[n] # None
          /\ leaked' = leaked \cup ({sock[n]} \ {row[n]})
          /\ UNCHANGED sock
    /\ RemoveAgentAuthByUuid(n)

\* The handler ends with its last call.
Answered(o, k) == IF op[o].todo = {k} THEN Ended(o) ELSE [op EXCEPT ![o].todo = @ \ {k}]

AdminUpsert(o) ==
    /\ "upsert" \in op[o].todo
    /\ Upsert(op[o].node, op[o].tok)
    /\ op' = Answered(o, "upsert")
    /\ UNCHANGED <<row, cache, req>>

AdminRemove(o) ==
    /\ "remove" \in op[o].todo
    /\ RemoveClient(op[o].node)
    /\ op' = Answered(o, "remove")
    /\ UNCHANGED <<row, cache, req>>

\* What a removal that is never carried out leaves of the old tokens of a node.
Spared(n) == {byUuid[n], sock[n]} \ {row[n], None}

\* A call that fails is swallowed (or answered 500): the row stays written.
AdminLost(o) ==
    /\ CanLose
    /\ \E k \in op[o].todo :
         /\ op' = Answered(o, k)
         /\ leaked' = IF k = "upsert" THEN leaked
                      ELSE leaked \cup Spared(op[o].node)
    /\ UNCHANGED <<row, snap, byUuid, sock, cache, req>>

\* The next removal of a batch; the last one is followed by the caches, unless the
\* clean-up of the references in between fails.
BatchNext(o, i) ==
    \E n \in op[o].rest :
        /\ RemoveClient(n)
        /\ \/ /\ op[o].rest = {n}
              /\ op' = Ended(o)
              /\ ClearCaches(i) \/ (CanLose /\ UNCHANGED cache)
           \/ /\ op[o].rest # {n}
              /\ op' = [op EXCEPT ![o].rest = @ \ {n}]
              /\ UNCHANGED cache
        /\ UNCHANGED <<row, req>>

\* A removal of a batch fails: the others are not sent, the caches stay.
BatchLost(o) ==
    /\ CanLose
    /\ op[o].rest # {}
    /\ op' = Ended(o)
    /\ leaked' = leaked \cup UNION {Spared(n) : n \in op[o].rest}
    /\ UNCHANGED <<row, snap, byUuid, sock, cache, req>>

-----------------------------------------------------------------------------
(* The lookup of an agent's request: getAgentClientByToken ("full", the    *)
(* HTTP routes) and getAgentClientIdentityByToken ("identity", the socket).*)

\* What a request does once it knows its node: with nothing left to do for
\* these copies it is over.
Admitted(look, t, n, store) ==
    IF look = "full" /\ ~store THEN NoReq
    ELSE [phase |-> "in", look |-> look, iso |-> None, tok |-> t, found |-> n, store |-> store]

\* An entry that has not expired answers at once, a refusal too.
LookupBegin(r, look, i, t) ==
    /\ req[r].phase = "idle"
    /\ \/ /\ cache[<<i, look, t>>] = "absent"
          /\ req' = [req EXCEPT ![r] = [phase |-> "do", look |-> look, iso |-> i, tok |-> t,
                                        found |-> None, store |-> FALSE]]
       \/ /\ cache[<<i, look, t>>] \in Node
          /\ req' = [req EXCEPT ![r] = Admitted(look, t, cache[<<i, look, t>>], FALSE)]
    /\ UNCHANGED <<row, snap, byUuid, sock, cache, op, leaked>>

\* readLiveAgentAuthClient; a failing call counts as a missing snapshot.
LookupSnapshot(r) ==
    /\ req[r].phase = "do"
    /\ \/ /\ snap[req[r].tok] # None
          /\ req' = [req EXCEPT ![r].phase = "fill", ![r].found = snap[req[r].tok]]
       \/ /\ snap[req[r].tok] = None \/ CanLose
          /\ req' = [req EXCEPT ![r].phase = "db"]
    /\ UNCHANGED <<row, snap, byUuid, sock, cache, op, leaked>>

\* getClientByToken; only the full lookup stores what the database said.
LookupRow(r) ==
    /\ req[r].phase = "db"
    /\ LET n == OwnerOf(req[r].tok) IN
         req' = [req EXCEPT ![r].phase = "fill", ![r].found = n,
                            ![r].store = req[r].look = "full" /\ n # None]
    /\ UNCHANGED <<row, snap, byUuid, sock, cache, op, leaked>>

\* setAgentAuthCache, a refusal included; then the request is in, or answered 401.
LookupFill(r) ==
    LET e == <<req[r].iso, req[r].look, req[r].tok>> IN
    /\ req[r].phase = "fill"
    /\ \/ /\ req[r].found = None
          /\ cache' = [cache EXCEPT ![e] = "miss"]
          /\ req' = [req EXCEPT ![r] = NoReq]
       \/ /\ req[r].found # None
          /\ cache' = [cache EXCEPT ![e] = req[r].found]
          /\ req' = [req EXCEPT ![r] = Admitted(req[r].look, req[r].tok, req[r].found, req[r].store)]
    /\ UNCHANGED <<row, snap, byUuid, sock, op, leaked>>

\* The upsert handed to waitUntil: it runs beside the rest of the request.
DeferredUpsert(r) ==
    /\ req[r].phase = "in" /\ req[r].store
    /\ \/ Upsert(req[r].found, req[r].tok)
       \/ CanLose /\ UNCHANGED <<snap, byUuid, sock, leaked>>
    /\ req' = [req EXCEPT ![r] = NoReq]
    /\ UNCHANGED <<row, cache, op>>

\* GET /api/clients/report: the Durable Object takes the socket for the node.
AgentConnect(r) ==
    LET n == req[r].found  t == req[r].tok IN
    /\ req[r].phase = "in" /\ req[r].look = "identity"
    /\ sock' = [sock EXCEPT ![n] = t]
    /\ leaked' = IF row[n] # t THEN leaked \cup {t} ELSE leaked
    /\ req' = [req EXCEPT ![r] = NoReq]
    /\ UNCHANGED <<row, snap, byUuid, cache, op>>

\* The other routes that identify an agent change none of the copies.
RequestEnd(r) ==
    /\ req[r].phase = "in" /\ req[r].look = "identity"
    /\ req' = [req EXCEPT ![r] = NoReq]
    /\ UNCHANGED <<row, snap, byUuid, sock, cache, op, leaked>>

-----------------------------------------------------------------------------
\* Fault: remembered refusals stay for ever.
CacheExpireHits(e) ==
    /\ cache[e] \in Node
    /\ cache' = [cache EXCEPT ![e] = "absent"]
    /\ UNCHANGED <<row, snap, byUuid, sock, op, req, leaked>>

\* Fault: entries that name a node stay for ever.
CacheExpireMisses(e) ==
    /\ cache[e] = "miss"
    /\ cache' = [cache EXCEPT ![e] = "absent"]
    /\ UNCHANGED <<row, snap, byUuid, sock, op, req, leaked>>

\* The time to live of an entry ends, or the cache is full.
CacheExpire(e) ==
    /\ cache[e] # "absent"
    /\ cache' = [cache EXCEPT ![e] = "absent"]
    /\ UNCHANGED <<row, snap, byUuid, sock, op, req, leaked>>

AgentDisconnect(n) ==
    /\ sock[n] # None
    /\ sock' = [sock EXCEPT ![n] = None]
    /\ UNCHANGED <<row, snap, byUuid, cache, op, req, leaked>>

AdminStep(o) ==
    \/ \E i \in Isolate : RotateToken(o, i) \/ BatchNext(o, i)
    \/ AdminUpsert(o) \/ AdminRemove(o) \/ AdminLost(o) \/ BatchLost(o)

AdminBegin(o) ==
    \/ \E n \in Node :
          \/ \E i \in Isolate, t \in Token : AddClient(o, i, n, t)
          \/ \E i \in Isolate : EditClient(o, i, n) \/ RemoveNode(o, i, n)
          \/ \E t \in Token : RotateBegin(o, n, t)
    \/ \E S \in SUBSET Node : BatchRemove(o, S)
    \/ \E i \in Isolate, backup \in [Node -> Token \cup {None}] : RestoreBackup(o, i, backup)

RequestStep(r) ==
    \/ LookupSnapshot(r) \/ LookupRow(r) \/ LookupFill(r)
    \/ DeferredUpsert(r) \/ AgentConnect(r) \/ RequestEnd(r)

Next ==
    \/ \E o \in Admin : AdminBegin(o) \/ AdminStep(o)
    \/ \E r \in Request : RequestStep(r)
    \/ \E r \in Request, look \in Lookup, i \in Isolate, t \in Token : LookupBegin(r, look, i, t)
    \/ \E e \in Isolate \X Lookup \X Token : CacheExpire(e)
    \/ \E n \in Node : AgentDisconnect(n)

Spec == Init /\ [][Next]_vars

\* Handlers and lookups go on, and time passes: entries lapse.
Fairness ==
    /\ \A o \in Admin : WF_vars(AdminStep(o))
    /\ \A r \in Request : WF_vars(RequestStep(r))
    /\ \A e \in Isolate \X Lookup \X Token : WF_vars(CacheExpire(e))

FairSpec == Spec /\ Fairness

-----------------------------------------------------------------------------
RemovalUnderWay(n) ==
    \E o \in Admin : (op[o].node = n /\ "remove" \in op[o].todo) \/ n \in op[o].rest

(* What is left of a token its node no longer has: the snapshot and the    *)
(* socket that a rotation or a removal leaves behind are still to be taken *)
(* away by a call under way, or the token is one of those that leaked: its *)
(* late upsert or connection came after the write, another upsert overtook *)
(* the removal and hid the snapshot (admin.ts 1654-1658), the removal was  *)
(* lost or closed another socket than the open one, or a restored backup   *)
(* took the token out of the rows. There is no other way for an old token  *)
(* to stay valid.                                                          *)
OldTokenOnlyLeaks ==
    \A n \in Node, t \in Token \ leaked :
        (snap[t] = n \/ sock[n] = t) /\ row[n] # t => RemovalUnderWay(n)

(* A token that no node has any more and that has not leaked is, in the    *)
(* end, refused by every isolate for good: entries lapse, and the snapshot *)
(* that could fill them again goes with the removal under way.             *)
OldTokenFades ==
    \A t \in Token :
        <>[](Unused(t) /\ t \notin leaked)
            => <>[](\A i \in Isolate, k \in Lookup : cache[<<i, k, t>>] \notin Node)

(* A node that keeps its token is, in the end, no longer refused by any    *)
(* isolate: a refusal remembered from before the token existed, or read    *)
(* before the write and stored after it, does not last.                    *)
NewTokenAdmitted ==
    \A t \in Token :
        <>[](~Unused(t))
            => <>[](\A i \in Isolate, k \in Lookup : cache[<<i, k, t>>] # "miss")
=============================================================================
