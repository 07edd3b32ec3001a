--------------------------------- MODULE Ekm ---------------------------------
(***************************************************************************)
(* The External Key Manager process (qkd_ekm/ekm: app.py, pool.py,         *)
(* store.py) and the QKD source it pulls units from.                       *)
(*                                                                         *)
(* Two threads share the process.  The event loop runs one request handler *)
(* or one expiry sweep at a time: no handler awaits between its first      *)
(* effect and its answer, so `handler` holds the only request in progress. *)
(* The pull thread (pool.pull_once under asyncio.to_thread) interleaves    *)
(* with the handler at every step.  The process can die between any two    *)
(* steps: the SQLite tables survive, everything else starts afresh.        *)
(*                                                                         *)
(* QKD units are numbered in the order the source issues them: a key_ID is *)
(* a fresh uuid4, so all that matters is that no two units share one.      *)
(***************************************************************************)
EXTENDS Integers, Sequences, Lifecycle

CONSTANTS
  PeerList,        \* EKM_PEERS, in the order pull_once visits them
  BindPeer,        \* EKM_BIND_PEER: the peer whose units become KEKs
  Objects,         \* external key paths (api/keys/v<n>) Cloud KMS may wrap with
  Target,          \* EKM_POOL_TARGET
  MaxPerRequest,   \* _MAX_PER_REQUEST
  Ttl,             \* EKM_POOL_TTL, in clock ticks
  MaxKeys,         \* bound: units the source issues in one behaviour
  MaxTime          \* bound: clock ticks in one behaviour

Peers == {PeerList[i] : i \in 1..Len(PeerList)}

ASSUME PeerAssumption ==
  /\ PeerList \in Seq(Peers)
  /\ Len(PeerList) > 0
  /\ \A i, j \in 1..Len(PeerList) : PeerList[i] = PeerList[j] => i = j
  /\ BindPeer \in Peers

ASSUME BoundAssumption ==
  /\ Target \in Nat \ {0} /\ MaxPerRequest \in Nat \ {0} /\ Ttl \in Nat
  /\ MaxKeys \in Nat /\ MaxTime \in Nat

VARIABLES
  \* The QKD source (ETSI-014 key management entity), outside the process.
  srcUp,           \* it answers enc_keys with keys
  issued,          \* how many units it has issued; unit ids are 1..issued
  now,             \* the clock
  \* KeyPool, in memory.
  pool,            \* pool[p]: deque of [id, at], oldest first
  sourceAvailable, \* pool.source_available: did the source answer the last pull
  pull,            \* the pull thread
  \* create_app's `state` dictionary and the request in progress, in memory.
  authority, recoveryPending, sourceSeen,
  handler,
  \* Store, on disk.
  bindings,        \* rows of the bindings table
  kek,             \* kek[o]: unit whose material the kek row of o holds, 0 if none
  \* History: what callers have been given.
  blobs,           \* wrappedBlobs returned to Cloud KMS
  delivered        \* units returned by /api/{peer}/new

sourceVars  == <<srcUp, issued>>
poolVars    == <<pool, sourceAvailable, pull>>
appVars     == <<authority, recoveryPending, sourceSeen>>
storeVars   == <<bindings, kek>>
historyVars == <<blobs, delivered>>
vars == <<sourceVars, now, poolVars, appVars, handler, storeVars, historyVars>>

NoKey == 0

PullStart == [pc |-> "ask", i |-> 1, n |-> 0, first |-> 0, at |-> 0]
Idle == [pc |-> "idle", op |-> "none", obj |-> "none", peer |-> "none",
         key |-> NoKey, retained |-> FALSE, bound |-> FALSE]

Init ==
  /\ srcUp \in BOOLEAN /\ issued = 0 /\ now = 0
  /\ pool = [p \in Peers |-> <<>>] /\ sourceAvailable = TRUE /\ pull = PullStart
  /\ authority = TRUE /\ recoveryPending = FALSE /\ sourceSeen = TRUE
  /\ handler = Idle
  /\ bindings = {} /\ kek = [o \in Objects |-> NoKey]
  /\ blobs = {} /\ delivered = {}

------------------------------------------------------------------------------
(* Environment: the source's availability (POST /sim/source, an outage) and *)
(* the passage of time.                                                     *)

SourceToggle ==
  /\ srcUp' = ~srcUp
  /\ UNCHANGED <<issued, now, poolVars, appVars, handler, storeVars, historyVars>>

Tick ==
  /\ now < MaxTime
  /\ now' = now + 1
  /\ UNCHANGED <<sourceVars, poolVars, appVars, handler, storeVars, historyVars>>

------------------------------------------------------------------------------
(* The pull thread: KeyPool.pull_once, forever.                             *)

PullPeer == PeerList[pull.i]

\* Mutant of PullNextPeer: the loop never goes back to the first peer.
PullNextPeerNoWrap == [PullStart EXCEPT !.i = pull.i + 1]

\* The next iteration of the loop over peers; after the last one, sleep and
\* start again.
PullNextPeer == [PullStart EXCEPT !.i = IF pull.i < Len(PeerList) THEN pull.i + 1 ELSE 1]

\* Mutant of Shortfall: ignores what the deque already holds.
ShortfallWhole(p) == IF Target < MaxPerRequest THEN Target ELSE MaxPerRequest

Shortfall(p) ==
  LET missing == Target - Len(pool[p])
  IN  IF missing < MaxPerRequest THEN missing ELSE MaxPerRequest

\* Under the lock: how many units to ask for.  A full deque is skipped, and
\* the source is then not contacted at all.
PullAsk ==
  /\ pull.pc = "ask"
  /\ pull' = IF Shortfall(PullPeer) <= 0
             THEN PullNextPeer
             ELSE [pull EXCEPT !.pc = "call", !.n = Shortfall(PullPeer)]
  /\ UNCHANGED <<sourceVars, now, pool, sourceAvailable, appVars, handler,
                 storeVars, historyVars>>

\* The source issues the units; the reply is on its way back.
PullIssue ==
  /\ pull.pc = "call" /\ srcUp
  /\ issued + pull.n <= MaxKeys
  /\ issued' = issued + pull.n
  /\ pull' = [pull EXCEPT !.pc = "reply", !.first = issued + 1]
  /\ UNCHANGED <<srcUp, now, pool, sourceAvailable, appVars, handler, storeVars,
                 historyVars>>

\* A 503, an unreachable source, or a reply that timed out after the source
\* issued the units: QkdUnavailable.
PullUnavailable ==
  /\ pull.pc \in {"call", "reply"}
  /\ sourceAvailable' = FALSE
  /\ pull' = PullNextPeer
  /\ UNCHANGED <<sourceVars, now, pool, appVars, handler, storeVars, historyVars>>

\* Mutant of PullError: an unexpected exception ends the pull loop.
PullErrorFatal ==
  /\ pull.pc \in {"call", "reply"}
  /\ pull' = [PullStart EXCEPT !.pc = "dead"]
  /\ UNCHANGED <<sourceVars, now, pool, sourceAvailable, appVars, handler,
                 storeVars, historyVars>>

\* Any other exception (a 4xx, an undecodable reply): logged, the loop goes on
\* and source_available keeps its value.
PullError ==
  /\ pull.pc \in {"call", "reply"}
  /\ pull' = PullNextPeer
  /\ UNCHANGED <<sourceVars, now, pool, sourceAvailable, appVars, handler,
                 storeVars, historyVars>>

\* Mutant of PullReceive: a successful pull does not clear the outage flag.
PullReceiveSilently ==
  /\ pull.pc = "reply"
  /\ pull' = [pull EXCEPT !.pc = "append", !.at = now]
  /\ UNCHANGED <<sourceVars, now, pool, sourceAvailable, appVars, handler, storeVars,
                 historyVars>>

\* The reply arrived: note that the source is up and when the units came.
PullReceive ==
  /\ pull.pc = "reply"
  /\ sourceAvailable' = TRUE
  /\ pull' = [pull EXCEPT !.pc = "append", !.at = now]
  /\ UNCHANGED <<sourceVars, now, pool, appVars, handler, storeVars, historyVars>>

Received == [j \in 1..pull.n |-> [id |-> pull.first + j - 1, at |-> pull.at]]

\* Mutant of PullAppend: the units enter at the end allocate() takes from.
PullAppendLeft ==
  /\ pull.pc = "append"
  /\ pool' = [pool EXCEPT ![PullPeer] = Received \o @]
  /\ pull' = PullNextPeer
  /\ UNCHANGED <<sourceVars, now, sourceAvailable, appVars, handler, storeVars,
                 historyVars>>

\* Under the lock again: append what was received, however the deque changed
\* since its length was read.
PullAppend ==
  /\ pull.pc = "append"
  /\ pool' = [pool EXCEPT ![PullPeer] = @ \o Received]
  /\ pull' = PullNextPeer
  /\ UNCHANGED <<sourceVars, now, sourceAvailable, appVars, handler, storeVars,
                 historyVars>>

------------------------------------------------------------------------------
(* KeyPool.expire_once, on the event loop.                                  *)

\* k is the length of the stale prefix of deque d at the cutoff now - Ttl.
IsStalePrefix(d, k) ==
  /\ k \in 0..Len(d)
  /\ \A j \in 1..k : d[j].at < now - Ttl
  /\ k < Len(d) => d[k + 1].at >= now - Ttl

Expire ==
  /\ handler.pc = "idle"
  /\ \E cut \in [Peers -> 0..Target] :
       /\ \A p \in Peers : IsStalePrefix(pool[p], cut[p])
       /\ pool' = [p \in Peers |-> SubSeq(pool[p], cut[p] + 1, Len(pool[p]))]
  /\ UNCHANGED <<sourceVars, now, sourceAvailable, pull, appVars, handler,
                 storeVars, historyVars>>

------------------------------------------------------------------------------
(* Store: the two SQLite tables.                                            *)

Consumed(k) == \E b \in bindings : b.qkd = k

\* PRIMARY KEY(qkd_key_id) and UNIQUE(purpose, object_id).
AlreadyBound(row) ==
  \E b \in bindings : \/ b.qkd = row.qkd
                      \/ b.purpose = row.purpose /\ b.object = row.object

Bind(row) == bindings' = IF AlreadyBound(row) THEN bindings ELSE bindings \cup {row}

PutKek(o, k) == kek' = [kek EXCEPT ![o] = k]

------------------------------------------------------------------------------
(* Request handlers.                                                        *)

CheckRecovery ==
  /\ recoveryPending' = (recoveryPending \/ (sourceAvailable /\ ~sourceSeen))
  /\ sourceSeen' = sourceAvailable

\* Mutant of Allocate: the unit is read without being popped.
AllocatePeek(p, h) ==
  /\ pool[p] # <<>>
  /\ pool' = pool
  /\ handler' = IF Consumed(Head(pool[p]).id) THEN Idle
                ELSE [h EXCEPT !.key = Head(pool[p]).id]

\* pool.allocate(p): pop the oldest unit.  A unit that turns out to be consumed
\* fails the assertion and the request (500).
Allocate(p, h) ==
  /\ pool[p] # <<>>
  /\ pool' = [pool EXCEPT ![p] = Tail(@)]
  /\ handler' = IF Consumed(Head(pool[p]).id) THEN Idle
                ELSE [h EXCEPT !.key = Head(pool[p]).id]

\* POST /api/keys/{o}:wrap, up to the end of check_recovery().
WrapRequest(o) ==
  /\ handler.pc = "idle"
  /\ CheckRecovery
  /\ handler' = [Idle EXCEPT !.pc = "lookup", !.op = "wrap", !.obj = o, !.peer = BindPeer]
  /\ UNCHANGED <<sourceVars, now, poolVars, authority, storeVars, historyVars>>

\* 400 (malformed plaintext), whatever the store and the pool hold.
WrapMalformed ==
  /\ handler.pc = "lookup"
  /\ handler' = Idle
  /\ UNCHANGED <<sourceVars, now, poolVars, appVars, storeVars, historyVars>>

\* get_kek found the material: answer with it.
WrapKnown ==
  /\ handler.pc = "lookup" /\ kek[handler.obj] # NoKey
  /\ handler' = [handler EXCEPT !.pc = "answer", !.key = kek[handler.obj]]
  /\ UNCHANGED <<sourceVars, now, poolVars, appVars, storeVars, historyVars>>

\* First use, no unit buffered: 503.
WrapPoolEmpty ==
  /\ handler.pc = "lookup" /\ kek[handler.obj] = NoKey /\ pool[BindPeer] = <<>>
  /\ handler' = Idle
  /\ UNCHANGED <<sourceVars, now, poolVars, appVars, storeVars, historyVars>>

\* Mutant of WrapAllocate: every wrap allocates, known key or not.
WrapAllocateAlways ==
  /\ handler.pc = "lookup"
  /\ Allocate(BindPeer, [handler EXCEPT !.pc = "put"])
  /\ UNCHANGED <<sourceVars, now, sourceAvailable, pull, appVars, storeVars, historyVars>>

\* First use of the external key: one QKD unit of the binding peer.
WrapAllocate ==
  /\ handler.pc = "lookup" /\ kek[handler.obj] = NoKey
  /\ Allocate(BindPeer, [handler EXCEPT !.pc = "put"])
  /\ UNCHANGED <<sourceVars, now, sourceAvailable, pull, appVars, storeVars, historyVars>>

WrapPutKek ==
  /\ handler.pc = "put"
  /\ PutKek(handler.obj, handler.key)
  /\ handler' = [handler EXCEPT !.pc = "bind"]
  /\ UNCHANGED <<sourceVars, now, poolVars, appVars, bindings, historyVars>>

\* AlreadyBound is caught and logged: the wrap goes on with the new material.
WrapBind ==
  /\ handler.pc = "bind" /\ handler.op = "wrap"
  /\ Bind([qkd |-> handler.key, purpose |-> "ekm", object |-> handler.obj,
           peer |-> handler.peer])
  /\ handler' = [handler EXCEPT !.pc = "answer"]
  /\ UNCHANGED <<sourceVars, now, poolVars, appVars, kek, historyVars>>

WrapAnswer ==
  /\ handler.pc = "answer" /\ handler.op = "wrap"
  /\ blobs' = blobs \cup {[obj |-> handler.obj, key |-> handler.key]}
  /\ handler' = Idle
  /\ UNCHANGED <<sourceVars, now, poolVars, appVars, storeVars, delivered>>

\* POST /api/keys/{o}:unwrap of blob b: its answer (it changes nothing).
\* AES-GCM authenticates, so only the key that made the blob opens it.
Unwrap(o, b) ==
  IF kek[o] = NoKey THEN "404" ELSE IF kek[o] # b.key THEN "400" ELSE "plaintext"

\* GET /api/{p}/new?purpose=...  (an unknown purpose or peer, or an empty deque,
\* is an error answer that changes nothing).
NewAllocate(p, purpose) ==
  /\ handler.pc = "idle"
  /\ Allocate(p, [Idle EXCEPT !.pc = "bind", !.op = purpose, !.peer = p])
  /\ UNCHANGED <<sourceVars, now, sourceAvailable, pull, appVars, storeVars, historyVars>>

\* Mutant of NewBind: the unit is handed out without a row.
NewBindSkipped ==
  /\ handler.pc = "bind" /\ handler.op \in {"vpn", "file"}
  /\ handler' = [handler EXCEPT !.pc = "answer"]
  /\ UNCHANGED <<sourceVars, now, poolVars, appVars, storeVars, historyVars>>

\* The row's object_id is f"{peer}:{key_id}".  AlreadyBound is a 400.
NewBind ==
  /\ handler.pc = "bind" /\ handler.op \in {"vpn", "file"}
  /\ LET row == [qkd |-> handler.key, purpose |-> handler.op,
                 object |-> <<handler.peer, handler.key>>, peer |-> handler.peer]
     IN  /\ Bind(row)
         /\ handler' = IF AlreadyBound(row) THEN Idle ELSE [handler EXCEPT !.pc = "answer"]
  /\ UNCHANGED <<sourceVars, now, poolVars, appVars, kek, historyVars>>

NewAnswer ==
  /\ handler.pc = "answer" /\ handler.op \in {"vpn", "file"}
  /\ delivered' = delivered \cup {[key |-> handler.key, purpose |-> handler.op,
                                   peer |-> handler.peer]}
  /\ handler' = Idle
  /\ UNCHANGED <<sourceVars, now, poolVars, appVars, storeVars, blobs>>

\* A write that SQLite refuses (disk full, I/O error): rolled back, 500.
StoreError ==
  /\ handler.pc \in {"put", "bind"}
  /\ handler' = Idle
  /\ UNCHANGED <<sourceVars, now, poolVars, appVars, storeVars, historyVars>>

\* GET /api/state: check_recovery, then the sizes and the row count, then
\* derive(), which reads source_available a second time.
StateRequest ==
  /\ handler.pc = "idle"
  /\ CheckRecovery
  /\ handler' = [Idle EXCEPT !.pc = "sizes", !.op = "state"]
  /\ UNCHANGED <<sourceVars, now, poolVars, authority, storeVars, historyVars>>

StateSizes ==
  /\ handler.pc = "sizes"
  /\ handler' = [handler EXCEPT !.pc = "derive",
                                !.retained = \E p \in Peers : pool[p] # <<>>,
                                !.bound = bindings # {}]
  /\ UNCHANGED <<sourceVars, now, poolVars, appVars, storeVars, historyVars>>

\* The mode a handler at "derive" is about to report.
ReportedMode ==
  DeriveMode(sourceAvailable, TRUE, handler.retained, handler.bound, authority,
             recoveryPending, FALSE)

StateAnswer ==
  /\ handler.pc = "derive"
  /\ handler' = Idle
  /\ UNCHANGED <<sourceVars, now, poolVars, appVars, storeVars, historyVars>>

SetAuthority(granted) ==
  /\ handler.pc = "idle"
  /\ authority' = granted
  /\ UNCHANGED <<sourceVars, now, poolVars, recoveryPending, sourceSeen, handler,
                 storeVars, historyVars>>

AckRecovery ==
  /\ handler.pc = "idle"
  /\ recoveryPending' = FALSE
  /\ UNCHANGED <<sourceVars, now, poolVars, authority, sourceSeen, handler,
                 storeVars, historyVars>>

------------------------------------------------------------------------------
\* The process dies and systemd starts it again: build_app() reopens the
\* database; the pool and the `state` dictionary are new objects.
Restart ==
  /\ pool' = [p \in Peers |-> <<>>] /\ sourceAvailable' = TRUE /\ pull' = PullStart
  /\ authority' = TRUE /\ recoveryPending' = FALSE /\ sourceSeen' = TRUE
  /\ handler' = Idle
  /\ UNCHANGED <<sourceVars, now, storeVars, historyVars>>

PullStep ==
  PullAsk \/ PullIssue \/ PullUnavailable \/ PullError \/ PullReceive \/ PullAppend

RequestStep ==
  \/ \E o \in Objects : WrapRequest(o)
  \/ \E p \in Peers, purpose \in {"vpn", "file"} : NewAllocate(p, purpose)
  \/ StateRequest
  \/ \E granted \in BOOLEAN : SetAuthority(granted)
  \/ AckRecovery

HandlerStep ==
  \/ WrapMalformed \/ WrapKnown \/ WrapPoolEmpty \/ WrapAllocate \/ WrapPutKek
  \/ WrapBind \/ WrapAnswer \/ NewBind \/ NewAnswer \/ StoreError
  \/ StateSizes \/ StateAnswer

Next ==
  SourceToggle \/ Tick \/ PullStep \/ Expire \/ RequestStep \/ HandlerStep \/ Restart

Spec == Init /\ [][Next]_vars

\* The pull thread keeps running: every wait in it is an HTTP call with a timeout,
\* a lock held for in-memory work only, or a sleep.  And a source that is up does
\* answer: of the calls made to it, not all time out.
FairSpec ==
  Spec /\ WF_vars(PullStep) /\ SF_vars(PullIssue) /\ SF_vars(PullReceive)

------------------------------------------------------------------------------
(* Properties.                                                              *)

Buffered(p) == {pool[p][j].id : j \in 1..Len(pool[p])}
KekUnits == {kek[o] : o \in Objects} \ {NoKey}

Unit == [id : 1..MaxKeys, at : 0..MaxTime]
PullType ==
  [pc : {"ask", "call", "reply", "append"}, i : 1..Len(PeerList), n : 0..Target,
   first : 0..MaxKeys, at : 0..MaxTime]
HandlerType ==
  [pc : {"idle", "lookup", "put", "bind", "answer", "sizes", "derive"},
   op : {"none", "wrap", "vpn", "file", "state"},
   obj : Objects \cup {"none"}, peer : Peers \cup {"none"},
   key : 0..MaxKeys, retained : BOOLEAN, bound : BOOLEAN]
Row ==
  [qkd : 1..MaxKeys, purpose : {"ekm"}, object : Objects, peer : Peers]
  \cup [qkd : 1..MaxKeys, purpose : {"vpn", "file"}, object : Peers \X (1..MaxKeys),
       peer : Peers]

\* Every variable keeps its shape; in particular the pull loop never leaves the
\* list of peers (KeyPool.pull_once) and the handler is at one of its steps.
TypeOK ==
  /\ srcUp \in BOOLEAN /\ issued \in 0..MaxKeys /\ now \in 0..MaxTime
  /\ pool \in [Peers -> Seq(Unit)] /\ sourceAvailable \in BOOLEAN /\ pull \in PullType
  /\ authority \in BOOLEAN /\ recoveryPending \in BOOLEAN /\ sourceSeen \in BOOLEAN
  /\ handler \in HandlerType
  /\ bindings \subseteq Row /\ kek \in [Objects -> 0..MaxKeys]
  /\ blobs \subseteq [obj : Objects, key : 1..MaxKeys]
  /\ delivered \subseteq [key : 1..MaxKeys, purpose : {"vpn", "file"}, peer : Peers]

\* One-time use of QKD units.  Across crashes, failed writes and answers lost on
\* the way, a unit is the KEK of at most one external key, or was given to at
\* most one caller of /api/{peer}/new, never both; and a unit still buffered has
\* been spent on nothing (store.py: "this QKD key has already been spent").
UnitSpentOnce ==
  /\ \A o1, o2 \in Objects : kek[o1] = kek[o2] /\ kek[o1] # NoKey => o1 = o2
  /\ \A d1, d2 \in delivered : d1.key = d2.key => d1 = d2
  /\ \A d \in delivered : d.key \notin KekUnits
  /\ \A p \in Peers : \A k \in Buffered(p) :
       /\ k \notin KekUnits
       /\ \A d \in delivered : d.key # k
  /\ \A p, q \in Peers : p # q => Buffered(p) \cap Buffered(q) = {}

\* Whatever was wrapped can be unwrapped: a blob Cloud KMS holds opens under the
\* key path that produced it, after any retries, failed writes and restarts
\* (app.py _wrap orders put_kek before bind for this).
EveryWrapUnwraps == \A b \in blobs : Unwrap(b.obj, b) = "plaintext"

\* The EKM implements KeyLedger: kek rows, blobs and deliveries change only as
\* the abstract ledger's do, whatever happens in between (app.py _wrap, new_key).
Ledger == INSTANCE KeyLedger WITH Units <- 1..MaxKeys
LedgerSpec == Ledger!Spec

\* An 'ekm' row names the unit whose material the kek table holds for that
\* object: the "Re-keyed" branch of _wrap never leaves the two tables apart.
BindingMatchesKek ==
  \A b \in bindings : b.purpose = "ekm" => kek[b.object] = b.qkd

\* pull_once reads the deque's length under the lock, asks the source without
\* it, and appends under the lock: the deque still never exceeds pool_target.
PoolWithinTarget == \A p \in Peers : Len(pool[p]) <= Target

\* expire_once stops at the first unit young enough, and yet what it leaves behind
\* holds no unit older than the TTL: the stale prefix has all the stale units, in
\* every order in which batches arrive, age and are taken.
ExpiryIsComplete ==
  \A p \in Peers : \A k \in 0..Len(pool[p]) :
    IsStalePrefix(pool[p], k) => \A j \in k + 1..Len(pool[p]) : pool[p][j].at >= now - Ttl

\* Only a peer whose deque is short makes pull_once call the source, so a false
\* source_available must leave such a peer: else the flag would stay false after
\* the source is back, with nothing left to clear it.
OutageFlagRecoverable == ~sourceAvailable => \E p \in Peers : Len(pool[p]) < Target

\* EXHAUSTED ("no key material is available by any path") is never reported by
\* read_state once a unit was given to a VPN or upload caller.
ExhaustedMeansNoneDelivered ==
  handler.pc = "derive" /\ ReportedMode = "EXHAUSTED" => delivered = {}

\* Once the source is up for good, source_available becomes true again (or the
\* model has too few units left for another pull to be sure of its answer): no
\* error of a pull, no order of refills and no restart leaves the flag stuck.
OutageEnds == <>[]srcUp => []<>(sourceAvailable \/ issued > MaxKeys - Target)

------------------------------------------------------------------------------
(* What the documentation says and the code does not do.                    *)

\* docs/architecture.md section 2: the first wrap "persists the binding ... before
\* answering": no blob without the 'ekm' row of its external key.
BoundBeforeAnswer ==
  \A b \in blobs : \E r \in bindings : r.purpose = "ekm" /\ r.object = b.obj

\* check_recovery: "A QKD source that came back needs an explicit ack before
\* READY": while the last look found the source down, READY is not reported.
ReadyNeedsAck == handler.pc = "derive" /\ ReportedMode = "READY" => sourceSeen
==============================================================================
