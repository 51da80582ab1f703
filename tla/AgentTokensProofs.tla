------------------------- MODULE AgentTokensProofs -------------------------
(***************************************************************************)
(* For any number of nodes, tokens, isolates and overlapping requests of   *)
(* administrators and agents: AgentTokens is well typed, and an old token  *)
(* stays valid only along the ways OldTokenOnlyLeaks names.                *)
(***************************************************************************)
EXTENDS AgentTokens, TLAPS

\* A handler under way names a node, and a token once it is to write one; calls are
\* under way only once they were sent, and nodes are left to remove only in a batch.
HandlerNamed(p) ==
    /\ p.phase # "sent" => p.todo = {}
    /\ p.phase # "batch" => p.rest = {}
    /\ p.phase = "begun" \/ p.todo # {} => p.node \in Node
    /\ p.phase = "begun" \/ "upsert" \in p.todo => p.tok \in Token

\* A lookup under way has a token and an isolate, an admitted request its node.
RequestNamed(q) ==
    /\ q.phase \in {"do", "db", "fill"} => q.tok \in Token /\ q.iso \in Isolate
    /\ q.phase = "in" => q.tok \in Token /\ q.found \in Node

Named ==
    /\ \A o \in Admin : HandlerNamed(op[o])
    /\ \A r \in Request : RequestNamed(req[r])

\* A snapshot that the index of its node has forgotten belongs to a leaked token.
Indexed == \A n \in Node, t \in Token : snap[t] = n => byUuid[n] = t \/ t \in leaked

TokenInv == TypeOK /\ Named /\ Indexed /\ OldTokenOnlyLeaks
-----------------------------------------------------------------------------
LEMMA NoOpFine ==
    /\ NoOp \in OpType /\ HandlerNamed(NoOp)
    /\ NoOp.todo = {} /\ NoOp.rest = {} /\ NoOp.phase = "idle"
BY DEF NoOp, OpType, HandlerNamed, Call

LEMMA NoReqFine == NoReq \in ReqType /\ RequestNamed(NoReq)
BY DEF NoReq, ReqType, RequestNamed, Lookup

LEMMA TokenInit == Init => TokenInv
<1> SUFFICES ASSUME Init PROVE TokenInv
  OBVIOUS
<1> USE NoOpFine, NoReqFine
<1>1. TypeOK
  BY DEF Init, TypeOK, CacheEntry
<1>2. Named
  BY DEF Init, Named
<1>3. Indexed /\ OldTokenOnlyLeaks
  BY NoneAssumption DEF Init, Indexed, OldTokenOnlyLeaks
<1> QED BY <1>1, <1>2, <1>3 DEF TokenInv

\* A handler without calls under way is replaced: no removal is forgotten.
LEMMA HandlerReplaced ==
    ASSUME TokenInv, NEW o \in Admin, op[o].phase \notin {"sent", "batch"},
           NEW p \in OpType, HandlerNamed(p), op' = [op EXCEPT ![o] = p]
    PROVE  /\ op' \in [Admin -> OpType] /\ \A a \in Admin : HandlerNamed(op'[a])
           /\ \A n \in Node : RemovalUnderWay(n) => RemovalUnderWay(n)'
           /\ \A n \in Node : (p.node = n /\ "remove" \in p.todo) \/ n \in p.rest
                               => RemovalUnderWay(n)'
<1>1. /\ op \in [Admin -> OpType] /\ (\A a \in Admin : HandlerNamed(op[a]))
      /\ op[o].todo = {} /\ op[o].rest = {}
  BY DEF TokenInv, TypeOK, Named, HandlerNamed
<1>2. op'[o] = p /\ \A a \in Admin \ {o} : op'[a] = op[a]
  BY <1>1
<1>3. op' \in [Admin -> OpType] /\ \A a \in Admin : HandlerNamed(op'[a])
  BY <1>1, <1>2
<1>4. \A n \in Node : RemovalUnderWay(n) => RemovalUnderWay(n)'
  BY <1>1, <1>2 DEF RemovalUnderWay
<1>5. \A n \in Node : (p.node = n /\ "remove" \in p.todo) \/ n \in p.rest => RemovalUnderWay(n)'
  BY <1>2 DEF RemovalUnderWay
<1> QED BY <1>3, <1>4, <1>5

\* A call is answered: only the removal it was, if it was one, is no longer under way.
LEMMA HandlerAnswered ==
    ASSUME TokenInv, NEW o \in Admin, NEW k \in op[o].todo, op' = Answered(o, k)
    PROVE  /\ op' \in [Admin -> OpType] /\ \A a \in Admin : HandlerNamed(op'[a])
           /\ \A n \in Node : RemovalUnderWay(n) /\ ~(k = "remove" /\ op[o].node = n)
                               => RemovalUnderWay(n)'
<1>1. /\ op \in [Admin -> OpType] /\ (\A a \in Admin : HandlerNamed(op[a])) /\ op[o] \in OpType
      /\ op[o].phase = "sent" /\ op[o].rest = {}
  BY DEF TokenInv, TypeOK, Named, HandlerNamed
<1>2. CASE op[o].todo = {k}
  <2>1. op' = [op EXCEPT ![o] = NoOp]
    BY <1>2 DEF Answered, Ended
  <2>2. op'[o] = NoOp /\ \A a \in Admin \ {o} : op'[a] = op[a]
    BY <1>1, <2>1
  <2>3. op' \in [Admin -> OpType] /\ \A a \in Admin : HandlerNamed(op'[a])
    BY <1>1, <2>1, <2>2, NoOpFine
  <2> QED BY <1>1, <1>2, <2>2, <2>3 DEF RemovalUnderWay
<1>3. CASE op[o].todo # {k}
  <2> DEFINE q == [op[o] EXCEPT !.todo = op[o].todo \ {k}]
  <2>1. op' = [op EXCEPT ![o] = q]
    BY <1>1, <1>3 DEF Answered
  <2>3. /\ q \in OpType /\ q.phase = "sent" /\ q.node = op[o].node /\ q.tok = op[o].tok
        /\ q.todo = op[o].todo \ {k} /\ q.rest = {}
    BY <1>1 DEF OpType
  <2> HIDE DEF q
  <2>4. HandlerNamed(q)
    BY <1>1, <2>3 DEF HandlerNamed
  <2>5. op'[o] = q /\ \A a \in Admin \ {o} : op'[a] = op[a]
    BY <1>1, <2>1
  <2>6. op' \in [Admin -> OpType] /\ \A a \in Admin : HandlerNamed(op'[a])
    BY <1>1, <2>1, <2>3, <2>4, <2>5
  <2>7. ASSUME NEW n \in Node, RemovalUnderWay(n), ~(k = "remove" /\ op[o].node = n)
        PROVE  RemovalUnderWay(n)'
    BY <1>1, <2>3, <2>5, <2>7 DEF RemovalUnderWay
  <2> QED BY <2>6, <2>7
<1> QED BY <1>2, <1>3

\* One lookup goes on and the others stay.
LEMMA RequestReplaced ==
    ASSUME TokenInv, NEW r \in Request, NEW q \in ReqType, RequestNamed(q),
           req' = [req EXCEPT ![r] = q]
    PROVE  req' \in [Request -> ReqType] /\ \A s \in Request : RequestNamed(req'[s])
<1>1. req \in [Request -> ReqType] /\ \A s \in Request : RequestNamed(req[s])
  BY DEF TokenInv, TypeOK, Named
<1>2. req'[r] = q /\ \A s \in Request \ {r} : req'[s] = req[s]
  BY <1>1
<1> QED BY <1>1, <1>2

\* A step that leaves the copies of the tokens alone.
LEMMA CopiesKept ==
    ASSUME TokenInv, TypeOK', Named', UNCHANGED <<row, snap, byUuid, sock, leaked>>,
           \A n \in Node : RemovalUnderWay(n) => RemovalUnderWay(n)'
    PROVE  TokenInv'
<1>1. Indexed' /\ OldTokenOnlyLeaks'
  BY DEF TokenInv, Indexed, OldTokenOnlyLeaks
<1> QED BY <1>1 DEF TokenInv
-----------------------------------------------------------------------------
\* Dropping the entries of a node, all of an isolate or none keeps the caches well typed.
LEMMA CachesInvalidated ==
    ASSUME TypeOK, NEW i, NEW n, InvalidateCaches(i, n) \/ ClearCaches(i) \/ UNCHANGED cache
    PROVE  cache' \in [Isolate \X Lookup \X Token -> CacheEntry]
BY DEF TypeOK, InvalidateCaches, ClearCaches, CacheEntry

\* A handler writes the row of one node and sends its calls; a row that loses its token
\* has a removal among them.
LEMMA RowWritten ==
    ASSUME TokenInv, NEW o \in Admin, op[o].phase \notin {"sent", "batch"}, NEW n \in Node,
           NEW t \in Token \cup {None}, NEW u \in Token \cup {None}, NEW calls \in SUBSET Call,
           row' = [row EXCEPT ![n] = u], op' = Sent(o, n, t, calls),
           "upsert" \in calls => t \in Token,
           u = row[n] \/ row[n] = None \/ "remove" \in calls,
           cache' \in [Isolate \X Lookup \X Token -> CacheEntry],
           UNCHANGED <<snap, byUuid, sock, req, leaked>>
    PROVE  TokenInv'
<1> DEFINE p == [phase |-> "sent", node |-> n, tok |-> t, todo |-> calls, rest |-> {}]
<1>1. TypeOK /\ Named /\ Indexed /\ OldTokenOnlyLeaks
  BY DEF TokenInv
<1>2. p \in OpType /\ HandlerNamed(p) /\ p.node = n /\ p.todo = calls
  BY DEF OpType, HandlerNamed
<1>3. op' = [op EXCEPT ![o] = p]
  BY DEF Sent
<1> HIDE DEF p
<1>4. /\ op' \in [Admin -> OpType] /\ \A a \in Admin : HandlerNamed(op'[a])
      /\ \A m \in Node : RemovalUnderWay(m) => RemovalUnderWay(m)'
      /\ "remove" \in calls => RemovalUnderWay(n)'
  BY <1>2, <1>3, HandlerReplaced
<1>5. row' \in [Node -> Token \cup {None}] /\ row'[n] = u
      /\ \A m \in Node \ {n} : row'[m] = row[m]
  BY <1>1 DEF TypeOK
<1>6. TypeOK' /\ Named' /\ Indexed'
  BY <1>1, <1>4, <1>5 DEF TypeOK, Named, Indexed
<1>7. ASSUME NEW m \in Node, NEW k \in Token \ leaked', (snap'[k] = m \/ sock'[m] = k), row'[m] # k
      PROVE  RemovalUnderWay(m)'
  <2>1. CASE row[m] # k
    BY <1>1, <1>4, <1>7, <2>1 DEF OldTokenOnlyLeaks
  <2>2. CASE row[m] = k
    BY <1>4, <1>5, <1>7, <2>2, NoneAssumption
  <2> QED BY <2>1, <2>2
<1>8. OldTokenOnlyLeaks'
  BY <1>7 DEF OldTokenOnlyLeaks
<1> QED BY <1>6, <1>8 DEF TokenInv

\* The rows of a batch are deleted: the removal of each is under way.
LEMMA BatchRemoveKeeps ==
    ASSUME TokenInv, NEW o \in Admin, NEW S \in SUBSET Node, BatchRemove(o, S) PROVE TokenInv'
<1> DEFINE p == [NoOp EXCEPT !.phase = "batch", !.rest = S]
<1>1. TypeOK /\ Named /\ Indexed /\ OldTokenOnlyLeaks
  BY DEF TokenInv
<1>2. p \in OpType /\ HandlerNamed(p) /\ p.rest = S
  BY DEF NoOp, OpType, HandlerNamed
<1>3. /\ op[o].phase \notin {"sent", "batch"} /\ op' = [op EXCEPT ![o] = p]
      /\ row' = [n \in Node |-> IF n \in S THEN None ELSE row[n]]
      /\ UNCHANGED <<snap, byUuid, sock, cache, req, leaked>>
  BY DEF BatchRemove
<1> HIDE DEF p
<1>4. /\ op' \in [Admin -> OpType] /\ \A a \in Admin : HandlerNamed(op'[a])
      /\ \A m \in Node : RemovalUnderWay(m) => RemovalUnderWay(m)'
      /\ \A m \in S : RemovalUnderWay(m)'
  BY <1>2, <1>3, HandlerReplaced
<1>5. row' \in [Node -> Token \cup {None}] /\ \A m \in Node \ S : row'[m] = row[m]
  BY <1>1, <1>3 DEF TypeOK
<1>6. TypeOK' /\ Named' /\ Indexed'
  BY <1>1, <1>3, <1>4, <1>5 DEF TypeOK, Named, Indexed
<1>7. OldTokenOnlyLeaks'
  BY <1>1, <1>3, <1>4, <1>5 DEF OldTokenOnlyLeaks
<1> QED BY <1>6, <1>7 DEF TokenInv

\* A restored backup: what the rows lose and the Durable Object keeps has leaked.
LEMMA RestoreBackupKeeps ==
    ASSUME TokenInv, NEW o \in Admin, NEW i \in Isolate, NEW b \in [Node -> Token \cup {None}],
           RestoreBackup(o, i, b)
    PROVE  TokenInv'
<1>1. TypeOK /\ Named /\ Indexed /\ OldTokenOnlyLeaks
  BY DEF TokenInv
<1>2. /\ row' = b /\ UNCHANGED <<snap, byUuid, sock, op, req>>
      /\ leaked \subseteq leaked' /\ leaked' \subseteq Token
      /\ \A n \in Node, t \in Token :
            row[n] = t /\ b[n] # t /\ (snap[t] = n \/ sock[n] = t) => t \in leaked'
      /\ \A m \in Node : RemovalUnderWay(m) => RemovalUnderWay(m)'
  BY <1>1 DEF RestoreBackup, RemovalUnderWay, TypeOK
<1>3. cache' \in [Isolate \X Lookup \X Token -> CacheEntry]
  BY <1>1, CachesInvalidated DEF RestoreBackup
<1>4. TypeOK' /\ Named' /\ Indexed'
  BY <1>1, <1>2, <1>3 DEF TypeOK, Named, Indexed
<1>5. OldTokenOnlyLeaks'
  BY <1>1, <1>2 DEF OldTokenOnlyLeaks
<1> QED BY <1>4, <1>5 DEF TokenInv

LEMMA AdminBeginKeeps ==
    ASSUME TokenInv, NEW o \in Admin, AdminBegin(o) PROVE TokenInv'
<1>1. TypeOK /\ row \in [Node -> Token \cup {None}]
  BY DEF TokenInv, TypeOK
<1>3. ASSUME NEW n \in Node, \E i \in Isolate, t \in Token : AddClient(o, i, n, t) PROVE TokenInv'
  <2>1. PICK i \in Isolate, t \in Token : AddClient(o, i, n, t)
    BY <1>3
  <2>2. cache' \in [Isolate \X Lookup \X Token -> CacheEntry]
    BY <1>1, <2>1, CachesInvalidated DEF AddClient
  <2>3. /\ op[o].phase \notin {"sent", "batch"} /\ row[n] = None /\ row' = [row EXCEPT ![n] = t]
        /\ op' = Sent(o, n, t, {"upsert"}) /\ {"upsert"} \in SUBSET Call
        /\ UNCHANGED <<snap, byUuid, sock, req, leaked>>
    BY <2>1 DEF AddClient, Call
  <2> QED BY <2>2, <2>3, RowWritten
<1>4. ASSUME NEW n \in Node, \E i \in Isolate : EditClient(o, i, n) PROVE TokenInv'
  <2>1. PICK i \in Isolate : EditClient(o, i, n)
    BY <1>4
  <2>2. cache' \in [Isolate \X Lookup \X Token -> CacheEntry]
    BY <1>1, <2>1, CachesInvalidated DEF EditClient
  <2>3. /\ op[o].phase \notin {"sent", "batch"} /\ row[n] \in Token /\ row' = [row EXCEPT ![n] = row[n]]
        /\ op' = Sent(o, n, row[n], {"upsert"}) /\ {"upsert"} \in SUBSET Call
        /\ UNCHANGED <<snap, byUuid, sock, req, leaked>>
    BY <1>1, <2>1 DEF EditClient, Call
  <2> QED BY <2>2, <2>3, RowWritten
<1>5. ASSUME NEW n \in Node, \E i \in Isolate : RemoveNode(o, i, n) PROVE TokenInv'
  <2>1. PICK i \in Isolate : RemoveNode(o, i, n)
    BY <1>5
  <2>2. cache' \in [Isolate \X Lookup \X Token -> CacheEntry]
    BY <1>1, <2>1, CachesInvalidated DEF RemoveNode
  <2>3. /\ op[o].phase \notin {"sent", "batch"} /\ row' = [row EXCEPT ![n] = None]
        /\ op' = Sent(o, n, None, {"remove"}) /\ {"remove"} \in SUBSET Call
        /\ UNCHANGED <<snap, byUuid, sock, req, leaked>>
    BY <2>1 DEF RemoveNode, Call
  <2> QED BY <2>2, <2>3, RowWritten
<1>6. ASSUME NEW n \in Node, \E t \in Token : RotateBegin(o, n, t) PROVE TokenInv'
  <2>1. PICK t \in Token : RotateBegin(o, n, t)
    BY <1>6
  <2> DEFINE p == [phase |-> "begun", node |-> n, tok |-> t, todo |-> {}, rest |-> {}]
  <2>2. p \in OpType /\ HandlerNamed(p)
    BY DEF OpType, HandlerNamed
  <2>3. /\ op[o].phase \notin {"sent", "batch"} /\ op' = [op EXCEPT ![o] = p]
        /\ UNCHANGED <<row, snap, byUuid, sock, cache, req, leaked>>
    BY <2>1 DEF RotateBegin
  <2> HIDE DEF p
  <2>4. /\ op' \in [Admin -> OpType] /\ \A a \in Admin : HandlerNamed(op'[a])
        /\ \A m \in Node : RemovalUnderWay(m) => RemovalUnderWay(m)'
    BY <2>2, <2>3, HandlerReplaced
  <2>5. TypeOK' /\ Named'
    BY <1>1, <2>3, <2>4 DEF TypeOK, Named, TokenInv
  <2> QED BY <2>3, <2>4, <2>5, CopiesKept
<1>7. ASSUME NEW S \in SUBSET Node, BatchRemove(o, S) PROVE TokenInv'
  BY <1>7, BatchRemoveKeeps
<1>8. ASSUME NEW i \in Isolate, NEW b \in [Node -> Token \cup {None}], RestoreBackup(o, i, b)
      PROVE  TokenInv'
  BY <1>8, RestoreBackupKeeps
<1> QED BY <1>3, <1>4, <1>5, <1>6, <1>7, <1>8 DEF AdminBegin

LEMMA RotateTokenKeeps ==
    ASSUME TokenInv, NEW o \in Admin, NEW i \in Isolate, RotateToken(o, i) PROVE TokenInv'
<1> DEFINE n == op[o].node
           t == op[o].tok
           u == IF row[n] = None THEN None ELSE t
<1>1. /\ TypeOK /\ op[o].phase = "begun" /\ n \in Node /\ t \in Token
      /\ row \in [Node -> Token \cup {None}]
  BY DEF TokenInv, TypeOK, Named, HandlerNamed, RotateToken
<1>2. CASE /\ row' = [row EXCEPT ![n] = u] /\ InvalidateCaches(i, n)
           /\ op' = Sent(o, n, t, RotateCalls(n))
  <2>1. cache' \in [Isolate \X Lookup \X Token -> CacheEntry]
    BY <1>1, <1>2, CachesInvalidated
  <2>2. RotateCalls(n) \in SUBSET Call /\ "remove" \in RotateCalls(n)
    BY DEF RotateCalls, Call
  <2>3. u \in Token \cup {None} /\ UNCHANGED <<snap, byUuid, sock, req, leaked>>
    BY <1>1 DEF RotateToken
  <2> QED BY <1>1, <1>2, <2>1, <2>2, <2>3, RowWritten, ZenonT(40)
<1>3. CASE op' = Ended(o) /\ UNCHANGED <<row, cache>>
  <2>1. op' = [op EXCEPT ![o] = NoOp] /\ UNCHANGED <<row, cache, snap, byUuid, sock, req, leaked>>
    BY <1>3 DEF RotateToken, Ended
  <2>2. /\ op' \in [Admin -> OpType] /\ \A a \in Admin : HandlerNamed(op'[a])
        /\ \A m \in Node : RemovalUnderWay(m) => RemovalUnderWay(m)'
    BY <1>1, <2>1, HandlerReplaced, NoOpFine
  <2>3. TypeOK' /\ Named'
    BY <1>1, <2>1, <2>2 DEF TypeOK, Named, TokenInv
  <2> QED BY <2>1, <2>2, <2>3, CopiesKept
<1> QED BY <1>2, <1>3 DEF RotateToken
-----------------------------------------------------------------------------
\* An upsert, whoever sends it: a token it writes for a node that has another one, and
\* a token whose snapshot it hides from the index, have leaked.
LEMMA UpsertKeeps ==
    ASSUME TokenInv, NEW n \in Node, NEW t \in Token, Upsert(n, t), UNCHANGED <<row, cache>>,
           op' \in [Admin -> OpType], req' \in [Request -> ReqType], Named',
           \A m \in Node : RemovalUnderWay(m) => RemovalUnderWay(m)'
    PROVE  TokenInv'
<1>1. TypeOK /\ Indexed /\ OldTokenOnlyLeaks
  BY DEF TokenInv
<1>2. /\ snap' = [snap EXCEPT ![t] = n] /\ byUuid' = [byUuid EXCEPT ![n] = t] /\ sock' = sock
      /\ leaked \subseteq leaked' /\ leaked' \subseteq Token
      /\ row[n] # t => t \in leaked'
      /\ byUuid[n] \in Token \ {t} => byUuid[n] \in leaked'
  BY <1>1 DEF Upsert, TypeOK
<1>3. /\ snap' \in [Token -> Node \cup {None}] /\ snap'[t] = n
      /\ \A k \in Token \ {t} : snap'[k] = snap[k]
      /\ byUuid' \in [Node -> Token \cup {None}] /\ byUuid'[n] = t
      /\ \A m \in Node \ {n} : byUuid'[m] = byUuid[m]
  BY <1>1, <1>2 DEF TypeOK
<1>4. TypeOK'
  BY <1>1, <1>2, <1>3 DEF TypeOK
<1>5. ASSUME NEW m \in Node, NEW k \in Token, snap'[k] = m PROVE byUuid'[m] = k \/ k \in leaked'
  <2>1. CASE k = t
    BY <1>3, <1>5, <2>1
  <2>2. CASE k # t
    BY <1>1, <1>2, <1>3, <1>5, <2>2 DEF Indexed
  <2> QED BY <2>1, <2>2
<1>6. ASSUME NEW m \in Node, NEW k \in Token \ leaked', snap'[k] = m \/ sock'[m] = k, row'[m] # k
      PROVE  RemovalUnderWay(m)'
  <2>1. snap[k] = m \/ sock[m] = k
    BY <1>2, <1>3, <1>6
  <2> QED BY <1>1, <1>2, <1>6, <2>1 DEF OldTokenOnlyLeaks
<1>7. Indexed' /\ OldTokenOnlyLeaks'
  BY <1>5, <1>6 DEF Indexed, OldTokenOnlyLeaks
<1> QED BY <1>4, <1>7 DEF TokenInv

LEMMA AdminUpsertKeeps ==
    ASSUME TokenInv, NEW o \in Admin, AdminUpsert(o) PROVE TokenInv'
<1>1. /\ "upsert" \in op[o].todo /\ Upsert(op[o].node, op[o].tok) /\ op' = Answered(o, "upsert")
      /\ UNCHANGED <<row, cache, req>>
  BY DEF AdminUpsert
<1>2. op[o].node \in Node /\ op[o].tok \in Token
  BY <1>1 DEF TokenInv, Named, HandlerNamed
<1>3. /\ op' \in [Admin -> OpType] /\ \A a \in Admin : HandlerNamed(op'[a])
      /\ \A m \in Node : RemovalUnderWay(m) => RemovalUnderWay(m)'
  BY <1>1, HandlerAnswered
<1>4. req' \in [Request -> ReqType] /\ Named'
  BY <1>1, <1>3 DEF TokenInv, TypeOK, Named
<1> QED BY <1>1, <1>2, <1>3, <1>4, UpsertKeeps

\* The removal takes away the snapshot of the index and the socket it knows: what is
\* left of the node's old tokens has leaked.
LEMMA RemoveKeeps ==
    ASSUME TokenInv, NEW n \in Node, RemoveClient(n), UNCHANGED row,
           cache' \in [Isolate \X Lookup \X Token -> CacheEntry],
           op' \in [Admin -> OpType], req' \in [Request -> ReqType], Named',
           \A m \in Node : RemovalUnderWay(m) /\ m # n => RemovalUnderWay(m)'
    PROVE  TokenInv'
<1>1. /\ byUuid' = [byUuid EXCEPT ![n] = None]
      /\ snap' = [t \in Token |-> IF byUuid[n] = t THEN None ELSE snap[t]]
  BY DEF RemoveClient, RemoveAgentAuthByUuid
<1>2. TypeOK /\ Indexed /\ OldTokenOnlyLeaks
  BY DEF TokenInv
<1>3. /\ leaked \subseteq leaked' /\ leaked' \subseteq Token
      /\ sock' \in [Node -> Token \cup {None}] /\ \A m \in Node \ {n} : sock'[m] = sock[m]
      /\ sock'[n] \in {None, row[n]} \cup leaked'
  BY <1>2 DEF TypeOK, RemoveClient
<1>4. /\ byUuid' \in [Node -> Token \cup {None}]
      /\ \A m \in Node \ {n} : byUuid'[m] = byUuid[m]
      /\ snap' \in [Token -> Node \cup {None}]
      /\ \A t \in Token : snap'[t] = None \/ (snap'[t] = snap[t] /\ byUuid[n] # t)
  BY <1>1, <1>2 DEF TypeOK
<1>5. TypeOK'
  BY <1>2, <1>3, <1>4 DEF TypeOK
<1>6. ASSUME NEW m \in Node, NEW k \in Token, snap'[k] = m PROVE byUuid'[m] = k \/ k \in leaked'
  BY <1>2, <1>3, <1>4, <1>6, NoneAssumption DEF Indexed
<1>7. ASSUME NEW m \in Node, NEW k \in Token \ leaked', snap'[k] = m \/ sock'[m] = k, row'[m] # k
      PROVE  RemovalUnderWay(m)'
  <2>1. m # n
    BY <1>2, <1>3, <1>4, <1>7, NoneAssumption DEF Indexed
  <2>2. snap[k] = m \/ sock[m] = k
    BY <1>3, <1>4, <1>7, <2>1, NoneAssumption
  <2> QED BY <1>2, <1>3, <1>7, <2>1, <2>2 DEF OldTokenOnlyLeaks
<1>8. Indexed' /\ OldTokenOnlyLeaks'
  BY <1>6, <1>7 DEF Indexed, OldTokenOnlyLeaks
<1> QED BY <1>5, <1>8 DEF TokenInv

LEMMA AdminRemoveKeeps ==
    ASSUME TokenInv, NEW o \in Admin, AdminRemove(o) PROVE TokenInv'
<1> DEFINE n == op[o].node
<1>1. /\ "remove" \in op[o].todo /\ op' = Answered(o, "remove") /\ UNCHANGED <<row, cache, req>>
      /\ RemoveClient(n)
  BY DEF AdminRemove
<1>2. /\ n \in Node /\ cache' \in [Isolate \X Lookup \X Token -> CacheEntry]
      /\ req' \in [Request -> ReqType]
  BY <1>1 DEF TokenInv, TypeOK, Named, HandlerNamed
<1>3. /\ op' \in [Admin -> OpType] /\ \A a \in Admin : HandlerNamed(op'[a])
      /\ \A m \in Node : RemovalUnderWay(m) /\ m # n => RemovalUnderWay(m)'
  BY <1>1, HandlerAnswered
<1>4. Named'
  BY <1>1, <1>3 DEF TokenInv, Named
<1> QED BY <1>1, <1>2, <1>3, <1>4, RemoveKeeps

\* One node of a batch is removed: the others are still to be.
LEMMA BatchNextKeeps ==
    ASSUME TokenInv, NEW o \in Admin, NEW i \in Isolate, BatchNext(o, i) PROVE TokenInv'
<1>1. /\ TypeOK /\ Named /\ op \in [Admin -> OpType] /\ op[o] \in OpType
      /\ op[o].rest \subseteq Node
  BY DEF TokenInv, TypeOK, OpType
<1>2. PICK n \in op[o].rest :
        /\ RemoveClient(n)
        /\ \/ op[o].rest = {n} /\ op' = Ended(o) /\ (ClearCaches(i) \/ UNCHANGED cache)
           \/ op[o].rest # {n} /\ op' = [op EXCEPT ![o].rest = @ \ {n}] /\ UNCHANGED cache
        /\ UNCHANGED <<row, req>>
  BY DEF BatchNext
<1>3. n \in Node /\ op[o].phase = "batch" /\ op[o].todo = {} /\ HandlerNamed(op[o])
  BY <1>1, <1>2 DEF Named, HandlerNamed
<1>4. cache' \in [Isolate \X Lookup \X Token -> CacheEntry]
  BY <1>1, <1>2, CachesInvalidated
<1> DEFINE q == [op[o] EXCEPT !.rest = op[o].rest \ {n}]
<1>5. q \in OpType /\ q.phase = "batch" /\ q.todo = {} /\ q.rest = op[o].rest \ {n}
  BY <1>1, <1>3 DEF OpType
<1>6. op' = [op EXCEPT ![o] = NoOp] \/ op' = [op EXCEPT ![o] = q]
  BY <1>1, <1>2 DEF Ended
<1>7. op[o].rest # {n} => op' = [op EXCEPT ![o] = q]
  BY <1>1, <1>2
<1> HIDE DEF q
<1>8. HandlerNamed(q)
  BY <1>3, <1>5 DEF HandlerNamed
<1>9. op' \in [Admin -> OpType] /\ (\A a \in Admin \ {o} : op'[a] = op[a])
      /\ HandlerNamed(op'[o]) /\ op[o].rest \ {n} \subseteq op'[o].rest
  BY <1>1, <1>5, <1>6, <1>7, <1>8, NoOpFine
<1>10. \A m \in Node : RemovalUnderWay(m) /\ m # n => RemovalUnderWay(m)'
  BY <1>3, <1>9 DEF RemovalUnderWay
<1>11. req' \in [Request -> ReqType] /\ Named'
  BY <1>1, <1>2, <1>9 DEF TypeOK, Named
<1> QED BY <1>2, <1>3, <1>4, <1>9, <1>10, <1>11, RemoveKeeps

\* The rest of a batch gets lost: so do the removals of its nodes.
LEMMA BatchLostKeeps ==
    ASSUME TokenInv, NEW o \in Admin, BatchLost(o) PROVE TokenInv'
<1>1. /\ TypeOK /\ Named /\ Indexed /\ OldTokenOnlyLeaks /\ op[o].rest \subseteq Node
      /\ op[o].rest # {} /\ op' = [op EXCEPT ![o] = NoOp]
      /\ leaked' = leaked \cup UNION {Spared(n) : n \in op[o].rest}
      /\ UNCHANGED <<row, snap, byUuid, sock, cache, req>>
  BY DEF TokenInv, TypeOK, OpType, BatchLost, Ended
<1>2. op[o].todo = {}
  BY <1>1 DEF Named, HandlerNamed
<1>3. op' \in [Admin -> OpType] /\ op'[o] = NoOp /\ \A a \in Admin \ {o} : op'[a] = op[a]
  BY <1>1, NoOpFine DEF TypeOK
<1>4. Named' /\ \A m \in Node \ op[o].rest : RemovalUnderWay(m) => RemovalUnderWay(m)'
  BY <1>1, <1>2, <1>3, NoOpFine DEF Named, RemovalUnderWay
<1>5. ASSUME NEW m \in Node PROVE Spared(m) \subseteq Token
  BY <1>1 DEF Spared, TypeOK
<1>6. leaked \subseteq leaked' /\ \A m \in op[o].rest : Spared(m) \subseteq leaked'
  BY <1>1
<1>7. leaked' \subseteq Token
  BY <1>1, <1>5 DEF TypeOK
<1>8. TypeOK' /\ Indexed'
  BY <1>1, <1>3, <1>6, <1>7 DEF TypeOK, Indexed
<1>9. ASSUME NEW m \in Node, NEW t \in Token \ leaked', snap'[t] = m \/ sock'[m] = t, row'[m] # t
      PROVE  RemovalUnderWay(m)'
  <2>1. m \notin op[o].rest
    BY <1>1, <1>6, <1>9, NoneAssumption DEF Indexed, Spared
  <2> QED BY <1>1, <1>4, <1>6, <1>9, <2>1 DEF OldTokenOnlyLeaks
<1>10. OldTokenOnlyLeaks'
  BY <1>9 DEF OldTokenOnlyLeaks
<1> QED BY <1>4, <1>8, <1>10 DEF TokenInv

\* A removal that got lost: the token of the index and the one of the socket leak.
LEMMA AdminLostKeeps ==
    ASSUME TokenInv, NEW o \in Admin, AdminLost(o) PROVE TokenInv'
<1> DEFINE n == op[o].node
<1>1. PICK k \in op[o].todo :
        /\ op' = Answered(o, k)
        /\ leaked' = IF k = "upsert" THEN leaked
                     ELSE leaked \cup Spared(n)
  BY DEF AdminLost
<1>2. /\ TypeOK /\ Indexed /\ OldTokenOnlyLeaks /\ n \in Node /\ k \in {"remove", "upsert"}
      /\ UNCHANGED <<row, snap, byUuid, sock, cache, req>>
  BY DEF TokenInv, TypeOK, OpType, Call, Named, HandlerNamed, AdminLost
<1>3. /\ op' \in [Admin -> OpType] /\ \A a \in Admin : HandlerNamed(op'[a])
      /\ \A m \in Node : RemovalUnderWay(m) /\ ~(k = "remove" /\ m = n) => RemovalUnderWay(m)'
  BY <1>1, HandlerAnswered
<1>4. /\ leaked \subseteq leaked' /\ leaked' \subseteq Token
      /\ k = "remove" => \A t \in Token : t = byUuid[n] \/ t = sock[n] => t \in leaked' \/ t = row[n]
  BY <1>1, <1>2, NoneAssumption DEF TypeOK, Spared
<1>5. TypeOK' /\ Named'
  BY <1>2, <1>3, <1>4 DEF TypeOK, Named, TokenInv
<1> HIDE DEF n
<1>6. Indexed'
  BY <1>2, <1>4 DEF Indexed
<1>7. ASSUME NEW m \in Node, NEW t \in Token \ leaked', snap'[t] = m \/ sock'[m] = t, row'[m] # t
      PROVE  RemovalUnderWay(m)'
  <2>1. ~(k = "remove" /\ m = n)
    BY <1>2, <1>4, <1>7 DEF Indexed
  <2> QED BY <1>2, <1>3, <1>4, <1>7, <2>1 DEF OldTokenOnlyLeaks
<1>8. OldTokenOnlyLeaks'
  BY <1>7 DEF OldTokenOnlyLeaks
<1> QED BY <1>5, <1>6, <1>8 DEF TokenInv
-----------------------------------------------------------------------------
\* A step of one lookup that touches no copy of a token but an entry of a cache.
LEMMA LookupKeeps ==
    ASSUME TokenInv, NEW r \in Request, NEW q \in ReqType, RequestNamed(q),
           req' = [req EXCEPT ![r] = q],
           cache' \in [Isolate \X Lookup \X Token -> CacheEntry],
           UNCHANGED <<row, snap, byUuid, sock, op, leaked>>
    PROVE  TokenInv'
<1>1. req' \in [Request -> ReqType] /\ \A s \in Request : RequestNamed(req'[s])
  BY RequestReplaced
<1>2. TypeOK' /\ Named'
  BY <1>1 DEF TokenInv, TypeOK, Named
<1>3. \A n \in Node : RemovalUnderWay(n) => RemovalUnderWay(n)'
  BY DEF RemovalUnderWay
<1> QED BY <1>2, <1>3, CopiesKept

LEMMA AdmittedFine ==
    ASSUME NEW k \in Lookup, NEW t \in Token, NEW n \in Node, NEW b \in BOOLEAN
    PROVE  Admitted(k, t, n, b) \in ReqType /\ RequestNamed(Admitted(k, t, n, b))
<1> DEFINE q == [phase |-> "in", look |-> k, iso |-> None, tok |-> t, found |-> n, store |-> b]
<1>1. q \in ReqType /\ RequestNamed(q)
  BY DEF ReqType, RequestNamed
<1>2. Admitted(k, t, n, b) = NoReq \/ Admitted(k, t, n, b) = q
  BY DEF Admitted
<1> QED BY <1>1, <1>2, NoReqFine

LEMMA LookupBeginKeeps ==
    ASSUME TokenInv, NEW r \in Request, NEW k \in Lookup, NEW i \in Isolate, NEW t \in Token,
           LookupBegin(r, k, i, t)
    PROVE  TokenInv'
<1> DEFINE q == [phase |-> "do", look |-> k, iso |-> i, tok |-> t, found |-> None, store |-> FALSE]
<1>1. q \in ReqType /\ RequestNamed(q)
  BY DEF ReqType, RequestNamed
<1>2. /\ cache' \in [Isolate \X Lookup \X Token -> CacheEntry]
      /\ UNCHANGED <<row, snap, byUuid, sock, op, leaked>>
  BY DEF LookupBegin, TokenInv, TypeOK
<1>3. CASE req' = [req EXCEPT ![r] = q]
  BY <1>1, <1>2, <1>3, LookupKeeps
<1>4. CASE /\ cache[<<i, k, t>>] \in Node
           /\ req' = [req EXCEPT ![r] = Admitted(k, t, cache[<<i, k, t>>], FALSE)]
  BY <1>2, <1>4, AdmittedFine, LookupKeeps
<1> QED BY <1>3, <1>4 DEF LookupBegin

LEMMA RequestStepKeeps ==
    ASSUME TokenInv, NEW r \in Request, RequestStep(r) PROVE TokenInv'
<1> DEFINE n == req[r].found
           t == req[r].tok
<1>1. /\ TypeOK /\ Named /\ Indexed /\ OldTokenOnlyLeaks
      /\ req \in [Request -> ReqType] /\ req[r] \in ReqType /\ RequestNamed(req[r])
      /\ cache \in [Isolate \X Lookup \X Token -> CacheEntry]
  BY DEF TokenInv, TypeOK, Named
<1>2. CASE LookupSnapshot(r)
  <2> DEFINE q1 == [req[r] EXCEPT !.phase = "fill", !.found = snap[t]]
             q2 == [req[r] EXCEPT !.phase = "db"]
  <2>1. /\ req' = [req EXCEPT ![r] = q1] \/ req' = [req EXCEPT ![r] = q2]
        /\ UNCHANGED <<row, snap, byUuid, sock, cache, op, leaked>>
    BY <1>1, <1>2 DEF LookupSnapshot
  <2>2. t \in Token /\ req[r].iso \in Isolate /\ snap[t] \in Node \cup {None}
    BY <1>1, <1>2 DEF LookupSnapshot, RequestNamed, TypeOK
  <2>3. q1 \in ReqType /\ q1.phase = "fill" /\ q1.tok = t /\ q1.iso = req[r].iso
    BY <1>1, <2>2 DEF ReqType
  <2>4. q2 \in ReqType /\ q2.phase = "db" /\ q2.tok = t /\ q2.iso = req[r].iso
    BY <1>1, <2>2 DEF ReqType
  <2> HIDE DEF q1, q2
  <2>5. RequestNamed(q1) /\ RequestNamed(q2)
    BY <2>2, <2>3, <2>4 DEF RequestNamed
  <2> QED BY <1>1, <2>1, <2>3, <2>4, <2>5, LookupKeeps
<1>3. CASE LookupRow(r)
  <2> DEFINE m == OwnerOf(t)
             b == req[r].look = "full" /\ m # None
             q == [req[r] EXCEPT !.phase = "fill", !.found = m, !.store = b]
  <2>1. /\ req' = [req EXCEPT ![r] = q]
        /\ UNCHANGED <<row, snap, byUuid, sock, cache, op, leaked>>
    BY <1>1, <1>3 DEF LookupRow
  <2>2. t \in Token /\ req[r].iso \in Isolate /\ b \in BOOLEAN
    BY <1>1, <1>3 DEF LookupRow, RequestNamed
  <2>3. m \in Node \cup {None}
    BY DEF OwnerOf, Unused
  <2> HIDE DEF m, b
  <2>4. q \in ReqType /\ q.phase = "fill" /\ q.tok = t /\ q.iso = req[r].iso
    BY <1>1, <2>2, <2>3 DEF ReqType
  <2> HIDE DEF q
  <2>5. RequestNamed(q)
    BY <2>2, <2>4 DEF RequestNamed
  <2> QED BY <1>1, <2>1, <2>4, <2>5, LookupKeeps
<1>4. CASE LookupFill(r)
  <2> DEFINE e == <<req[r].iso, req[r].look, t>>
  <2>1. /\ t \in Token /\ req[r].iso \in Isolate /\ req[r].look \in Lookup
        /\ req[r].store \in BOOLEAN /\ n \in Node \cup {None}
    BY <1>1, <1>4 DEF LookupFill, RequestNamed, ReqType
  <2>2. UNCHANGED <<row, snap, byUuid, sock, op, leaked>>
    BY <1>4 DEF LookupFill
  <2>3. CASE /\ cache' = [cache EXCEPT ![e] = "miss"] /\ req' = [req EXCEPT ![r] = NoReq]
    <3>1. cache' \in [Isolate \X Lookup \X Token -> CacheEntry]
      BY <1>1, <2>3 DEF CacheEntry
    <3> QED BY <2>2, <2>3, <3>1, NoReqFine, LookupKeeps
  <2>4. CASE /\ n # None /\ cache' = [cache EXCEPT ![e] = n]
             /\ req' = [req EXCEPT ![r] = Admitted(req[r].look, t, n, req[r].store)]
    <3>1. n \in Node /\ cache' \in [Isolate \X Lookup \X Token -> CacheEntry]
      BY <1>1, <2>1, <2>4 DEF CacheEntry
    <3> QED BY <2>1, <2>2, <2>4, <3>1, AdmittedFine, LookupKeeps
  <2> QED BY <1>4, <2>3, <2>4 DEF LookupFill
<1>5. CASE RequestEnd(r)
  <2>1. /\ req' = [req EXCEPT ![r] = NoReq] /\ UNCHANGED <<row, snap, byUuid, sock, cache, op, leaked>>
    BY <1>5 DEF RequestEnd
  <2> QED BY <1>1, <2>1, NoReqFine, LookupKeeps
<1>6. CASE DeferredUpsert(r)
  <2>1. /\ req' = [req EXCEPT ![r] = NoReq] /\ UNCHANGED <<row, cache, op>>
        /\ n \in Node /\ t \in Token
    BY <1>1, <1>6 DEF DeferredUpsert, RequestNamed
  <2>2. CASE UNCHANGED <<snap, byUuid, sock, leaked>>
    BY <1>1, <2>1, <2>2, NoReqFine, LookupKeeps
  <2>3. CASE Upsert(n, t)
    <3>1. req' \in [Request -> ReqType] /\ \A s \in Request : RequestNamed(req'[s])
      BY <2>1, NoReqFine, RequestReplaced
    <3>2. op' \in [Admin -> OpType] /\ Named'
      BY <1>1, <2>1, <3>1 DEF TypeOK, Named
    <3>3. \A m \in Node : RemovalUnderWay(m) => RemovalUnderWay(m)'
      BY <2>1 DEF RemovalUnderWay
    <3> QED BY <2>1, <2>3, <3>1, <3>2, <3>3, UpsertKeeps
  <2> QED BY <1>6, <2>2, <2>3 DEF DeferredUpsert
<1>7. CASE AgentConnect(r)
  <2>1. /\ req' = [req EXCEPT ![r] = NoReq] /\ UNCHANGED <<row, snap, byUuid, cache, op>>
        /\ sock' = [sock EXCEPT ![n] = t] /\ n \in Node /\ t \in Token
        /\ leaked \subseteq leaked' /\ leaked' \subseteq Token /\ (row[n] # t => t \in leaked')
    BY <1>1, <1>7 DEF AgentConnect, RequestNamed, TypeOK
  <2>2. req' \in [Request -> ReqType] /\ \A s \in Request : RequestNamed(req'[s])
    BY <2>1, NoReqFine, RequestReplaced
  <2>3. /\ sock' \in [Node -> Token \cup {None}] /\ sock'[n] = t
        /\ \A m \in Node \ {n} : sock'[m] = sock[m]
    BY <1>1, <2>1 DEF TypeOK
  <2>4. TypeOK' /\ Named'
    BY <1>1, <2>1, <2>2, <2>3 DEF TypeOK, Named
  <2>5. Indexed'
    BY <1>1, <2>1 DEF Indexed
  <2>6. ASSUME NEW m \in Node, NEW k \in Token \ leaked', snap'[k] = m \/ sock'[m] = k, row'[m] # k
        PROVE  RemovalUnderWay(m)'
    <3>1. snap[k] = m \/ sock[m] = k
      BY <2>1, <2>3, <2>6
    <3>2. RemovalUnderWay(m)
      BY <1>1, <2>1, <2>6, <3>1 DEF OldTokenOnlyLeaks
    <3> QED BY <2>1, <3>2 DEF RemovalUnderWay
  <2>7. OldTokenOnlyLeaks'
    BY <2>6 DEF OldTokenOnlyLeaks
  <2> QED BY <2>4, <2>5, <2>7 DEF TokenInv
<1> QED BY <1>2, <1>3, <1>4, <1>5, <1>6, <1>7 DEF RequestStep

\* An entry lapses, a socket closes, or nothing happens.
LEMMA LapseKeeps ==
    ASSUME TokenInv,
           \/ \E e \in Isolate \X Lookup \X Token : CacheExpire(e)
           \/ \E n \in Node : AgentDisconnect(n)
           \/ UNCHANGED vars
    PROVE  TokenInv'
<1>1. TypeOK /\ Named /\ Indexed /\ OldTokenOnlyLeaks
  BY DEF TokenInv
<1>2. /\ UNCHANGED <<row, snap, byUuid, op, req, leaked>>
      /\ \A n \in Node : RemovalUnderWay(n) => RemovalUnderWay(n)'
  BY DEF CacheExpire, AgentDisconnect, vars, RemovalUnderWay
<1>3. cache' \in [Isolate \X Lookup \X Token -> CacheEntry]
  BY <1>1 DEF TypeOK, CacheExpire, AgentDisconnect, vars, CacheEntry
<1>4. /\ sock' \in [Node -> Token \cup {None}]
      /\ \A n \in Node : sock'[n] = sock[n] \/ sock'[n] = None
  BY <1>1 DEF TypeOK, CacheExpire, AgentDisconnect, vars
<1>5. TypeOK' /\ Named' /\ Indexed'
  BY <1>1, <1>2, <1>3, <1>4 DEF TypeOK, Named, Indexed
<1>6. OldTokenOnlyLeaks'
  BY <1>1, <1>2, <1>4, NoneAssumption DEF OldTokenOnlyLeaks
<1> QED BY <1>5, <1>6 DEF TokenInv

LEMMA TokenStep == TokenInv /\ [Next]_vars => TokenInv'
<1> SUFFICES ASSUME TokenInv, [Next]_vars PROVE TokenInv'
  OBVIOUS
<1>1. ASSUME NEW o \in Admin, AdminBegin(o) \/ AdminStep(o) PROVE TokenInv'
  BY <1>1, AdminBeginKeeps, RotateTokenKeeps, AdminUpsertKeeps, AdminRemoveKeeps, AdminLostKeeps,
     BatchNextKeeps, BatchLostKeeps DEF AdminStep
<1> QED BY <1>1, RequestStepKeeps, LookupBeginKeeps, LapseKeeps DEF Next

LEMMA TokenAlways == Spec => []TokenInv
BY TokenInit, TokenStep, PTL DEF Spec
-----------------------------------------------------------------------------
\* Every copy of a token names a node, and every handler and lookup of an agent's token
\* is at one of its awaits.
THEOREM TokenTypes == Spec => []TypeOK
<1>1. TokenInv => TypeOK
  BY DEF TokenInv
<1> QED BY <1>1, TokenAlways, PTL

\* For any number of nodes and of overlapping rotations, edits, removals, batches,
\* restored backups, lookups and lost calls: an old token is valid in the Durable Object
\* only while its removal is under way, or after a late upsert, a late connection, an
\* overtaken, lost or misdirected removal, or a restored backup.
THEOREM OldTokensOnlyLeak == Spec => []OldTokenOnlyLeaks
<1>1. TokenInv => OldTokenOnlyLeaks
  BY DEF TokenInv
<1> QED BY <1>1, TokenAlways, PTL
=============================================================================
