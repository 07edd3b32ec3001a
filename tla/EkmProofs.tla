------------------------------ MODULE EkmProofs ------------------------------
(***************************************************************************)
(* Proofs about Ekm, for any peers, external keys, pool target, batch      *)
(* size, TTL and number of units: one-time use of units, the durability    *)
(* of wrapped blobs, the bound and the completeness of expiry, and that    *)
(* Ekm implements KeyLedger.                                               *)
(***************************************************************************)
EXTENDS Ekm, SequenceTheorems, TLAPS

\* Unit k has been spent, or is about to be, on something recorded outside the
\* pool and outside the request in progress.
Recorded(k) ==
  \/ \E o \in Objects : kek[o] = k
  \/ \E b \in bindings : b.qkd = k
  \/ \E d \in delivered : d.key = k

\* The highest unit id that is not on its way from the source to a deque.
Arrived == IF pull.pc \in {"reply", "append"} THEN pull.first - 1 ELSE issued

\* The pull thread: a call leaves room in the deque for all it asked for, and the
\* units of a reply are the last ones issued.
PullInv ==
  /\ pull.pc \in {"call", "reply", "append"} =>
       pull.n >= 1 /\ Len(pool[PullPeer]) + pull.n <= Target
  /\ pull.pc \in {"reply", "append"} => pull.first >= 1 /\ issued = pull.first + pull.n - 1
  /\ pull.pc = "append" => sourceAvailable

\* Every unit outside the pull thread was issued before the ones in it.
OlderInv ==
  /\ \A p \in Peers : \A i \in 1..Len(pool[p]) : pool[p][i].id <= Arrived
  /\ handler.key <= Arrived
  /\ \A k \in 1..MaxKeys : Recorded(k) => k <= Arrived

\* A buffered unit is in one place of one deque ...
DistinctInv ==
  \A p, q \in Peers : \A i \in 1..Len(pool[p]) : \A j \in 1..Len(pool[q]) :
    pool[p][i].id = pool[q][j].id => p = q /\ i = j

\* ... is not the unit of the request in progress, and has been spent on nothing.
UnspentInv ==
  \A p \in Peers : \A i \in 1..Len(pool[p]) :
    pool[p][i].id # handler.key /\ ~Recorded(pool[p][i].id)

\* The deques are in order of arrival, and what the pull thread is about to append
\* came last.
SortedInv ==
  \A p \in Peers : \A i, j \in 1..Len(pool[p]) : i <= j => pool[p][i].at <= pool[p][j].at
AgeInv ==
  /\ \A p \in Peers : \A i \in 1..Len(pool[p]) : pool[p][i].at <= now
  /\ pull.pc = "append" =>
       /\ pull.at <= now
       /\ \A p \in Peers : \A i \in 1..Len(pool[p]) : pool[p][i].at <= pull.at

\* The unit of the request in progress, at each step of its handler.
HandlerInv ==
  /\ handler.pc \in {"idle", "lookup", "sizes", "derive"} => handler.key = NoKey
  /\ handler.pc \in {"put", "bind", "answer"} => handler.key # NoKey
  /\ handler.pc \in {"lookup", "put"} => handler.op = "wrap"
  /\ handler.pc \in {"bind", "answer"} => handler.op \in {"wrap", "vpn", "file"}
  /\ handler.op = "wrap" => handler.obj \in Objects /\ handler.peer \in Peers
  /\ handler.op \in {"vpn", "file"} => handler.peer \in Peers
  /\ handler.pc = "put" => kek[handler.obj] = NoKey /\ ~Recorded(handler.key)
  /\ handler.pc = "bind" /\ handler.op = "wrap" =>
       kek[handler.obj] = handler.key /\ \A b \in bindings : b.qkd # handler.key
  /\ handler.pc = "bind" /\ handler.op # "wrap" => ~Recorded(handler.key)
  /\ handler.pc = "answer" /\ handler.op = "wrap" => kek[handler.obj] = handler.key
  /\ handler.pc = "answer" /\ handler.op # "wrap" =>
       /\ \A o \in Objects : kek[o] # handler.key
       /\ \A d \in delivered : d.key # handler.key
       /\ bindings # {}
  /\ handler.pc = "derive" /\ delivered # {} => handler.bound

\* The tables and what callers hold.
StoreInv ==
  /\ \A o1, o2 \in Objects : kek[o1] = kek[o2] /\ kek[o1] # NoKey => o1 = o2
  /\ \A d1, d2 \in delivered : d1.key = d2.key => d1 = d2
  /\ \A d \in delivered, o \in Objects : d.key # kek[o]
  /\ BindingMatchesKek
  /\ \A b \in blobs : kek[b.obj] = b.key
  /\ delivered # {} => bindings # {}

IInv ==
  /\ TypeOK /\ PullInv /\ OlderInv /\ DistinctInv /\ UnspentInv /\ SortedInv /\ AgeInv
  /\ HandlerInv /\ StoreInv /\ PoolWithinTarget /\ OutageFlagRecoverable

------------------------------------------------------------------------------
(* What the deque operations do.                                            *)

\* Sequence t is s without a prefix, possibly empty.
IsSuffix(s, t) ==
  \E c \in 0..Len(s) : /\ Len(t) = Len(s) - c
                       /\ \A i \in 1..Len(t) : t[i] = s[i + c]

\* Every deque has lost a prefix, possibly empty, and nothing else.
LostPrefix ==
  /\ pool' \in [Peers -> Seq(Unit)]
  /\ \A p \in Peers : IsSuffix(pool[p], pool'[p])

LEMMA SuffixSelf == ASSUME NEW S, NEW s \in Seq(S) PROVE IsSuffix(s, s)
<1>1. 0 \in 0..Len(s) /\ Len(s) = Len(s) - 0 /\ \A i \in 1..Len(s) : s[i] = s[i + 0]
  OBVIOUS
<1> QED BY <1>1 DEF IsSuffix

LEMMA SuffixEmpty == ASSUME NEW S, NEW s \in Seq(S) PROVE IsSuffix(s, <<>>)
<1>1. Len(s) \in 0..Len(s) /\ Len(<<>>) = Len(s) - Len(s)
      /\ \A i \in 1..Len(<<>>) : <<>>[i] = s[i + Len(s)]
  OBVIOUS
<1> QED BY <1>1 DEF IsSuffix

LEMMA TailFacts ==
  ASSUME NEW S, NEW s \in Seq(S), s # <<>>
  PROVE  /\ Len(s) \in Nat /\ Len(Tail(s)) = Len(s) - 1
         /\ \A i \in 1..Len(Tail(s)) : Tail(s)[i] = s[i + 1]
  OBVIOUS

LEMMA SuffixTail ==
  ASSUME NEW S, NEW s \in Seq(S), s # <<>>
  PROVE  IsSuffix(s, Tail(s)) /\ Tail(s) \in Seq(S) /\ Head(s) = s[1] /\ s[1] \in S
         /\ 1 \in 1..Len(s)
<1>1. /\ Tail(s) \in Seq(S) /\ 1 \in 0..Len(s) /\ 1 \in 1..Len(s)
      /\ Head(s) = s[1] /\ s[1] \in S
      /\ Len(Tail(s)) = Len(s) - 1
      /\ \A i \in 1..Len(Tail(s)) : Tail(s)[i] = s[i + 1]
  OBVIOUS
<1> QED BY <1>1 DEF IsSuffix

LEMMA SuffixSubSeq ==
  ASSUME NEW S, NEW s \in Seq(S), NEW k \in 0..Len(s)
  PROVE  IsSuffix(s, SubSeq(s, k + 1, Len(s))) /\ SubSeq(s, k + 1, Len(s)) \in Seq(S)
<1>1. /\ SubSeq(s, k + 1, Len(s)) \in Seq(S)
      /\ Len(SubSeq(s, k + 1, Len(s))) = Len(s) - k
      /\ \A i \in 1..(Len(s) - k) : SubSeq(s, k + 1, Len(s))[i] = s[i + k]
  OBVIOUS
<1> QED BY <1>1 DEF IsSuffix

LEMMA PoolTyped ==
  ASSUME TypeOK
  PROVE  /\ pool \in [Peers -> Seq(Unit)]
         /\ \A p \in Peers : pool[p] \in Seq(Unit) /\ Len(pool[p]) \in Nat
         /\ \A p \in Peers : \A i \in 1..Len(pool[p]) :
              pool[p][i].id \in 1..MaxKeys /\ pool[p][i].at \in 0..MaxTime
<1>1. pool \in [Peers -> Seq(Unit)]
  BY DEF TypeOK
<1>2. \A p \in Peers : pool[p] \in Seq(Unit)
  BY <1>1
<1>3. \A p \in Peers : \A i \in 1..Len(pool[p]) : pool[p][i] \in Unit
  BY <1>2
<1>4. \A p \in Peers : Len(pool[p]) \in Nat
  BY <1>2
<1>5. \A u \in Unit : u.id \in 1..MaxKeys /\ u.at \in 0..MaxTime
  BY DEF Unit
<1> QED BY <1>1, <1>2, <1>3, <1>4, <1>5

LEMMA SamePoolLostPrefix == ASSUME TypeOK, pool' = pool PROVE LostPrefix
  BY PoolTyped, SuffixSelf DEF LostPrefix

\* A new process starts with empty deques.
LEMMA EmptyLostPrefix ==
  ASSUME TypeOK, pool' = [p \in Peers |-> <<>>] PROVE LostPrefix
<1>1. \A p \in Peers : pool'[p] = <<>>
  OBVIOUS
<1>2. pool' \in [Peers -> Seq(Unit)]
  OBVIOUS
<1> QED BY <1>1, <1>2, PoolTyped, SuffixEmpty DEF LostPrefix

\* KeyPool.allocate pops the head of one deque.
LEMMA PopLostPrefix ==
  ASSUME TypeOK, NEW q \in Peers, pool[q] # <<>>, pool' = [pool EXCEPT ![q] = Tail(@)]
  PROVE  LostPrefix
<1>1. pool'[q] = Tail(pool[q]) /\ \A p \in Peers : p # q => pool'[p] = pool[p]
  BY PoolTyped
<1>2. Tail(pool[q]) \in Seq(Unit) /\ IsSuffix(pool[q], Tail(pool[q]))
  BY PoolTyped, SuffixTail
<1>3. pool' \in [Peers -> Seq(Unit)]
  BY <1>2, PoolTyped
<1>4. \A p \in Peers : IsSuffix(pool[p], pool[p])
  BY PoolTyped, SuffixSelf
<1>5. ASSUME NEW p \in Peers PROVE IsSuffix(pool[p], pool'[p])
  <2>1. CASE p = q
    BY <1>1, <1>2, <2>1
  <2>2. CASE p # q
    BY <1>1, <1>4, <2>2
  <2> QED BY <2>1, <2>2
<1> QED BY <1>3, <1>5 DEF LostPrefix

\* KeyPool.expire_once drops the stale prefix of every deque.
LEMMA ExpireLostPrefix == ASSUME TypeOK, Expire PROVE LostPrefix
<1>1. PICK cut \in [Peers -> 0..Target] :
        /\ \A p \in Peers : IsStalePrefix(pool[p], cut[p])
        /\ pool' = [p \in Peers |-> SubSeq(pool[p], cut[p] + 1, Len(pool[p]))]
  BY DEF Expire
<1>2. ASSUME NEW p \in Peers
      PROVE  pool'[p] \in Seq(Unit) /\ IsSuffix(pool[p], pool'[p])
  <2>1. pool[p] \in Seq(Unit) /\ cut[p] \in 0..Len(pool[p])
    BY <1>1, PoolTyped DEF IsStalePrefix
  <2>2. pool'[p] = SubSeq(pool[p], cut[p] + 1, Len(pool[p]))
    BY <1>1
  <2> QED BY <2>1, <2>2, SuffixSubSeq
<1>3. pool' \in [Peers -> Seq(Unit)]
  BY <1>1, <1>2
<1> QED BY <1>2, <1>3 DEF LostPrefix

\* Losing a prefix neither lengthens a deque nor brings a unit into it.
LEMMA LostPrefixFacts ==
  ASSUME TypeOK, LostPrefix
  PROVE  /\ \A p \in Peers : Len(pool'[p]) \in Nat /\ Len(pool'[p]) <= Len(pool[p])
         /\ \A p \in Peers : \A i \in 1..Len(pool'[p]) :
              \E j \in 1..Len(pool[p]) : pool'[p][i] = pool[p][j]
<1> SUFFICES ASSUME NEW p \in Peers
             PROVE  /\ Len(pool'[p]) \in Nat /\ Len(pool'[p]) <= Len(pool[p])
                    /\ \A i \in 1..Len(pool'[p]) :
                         \E j \in 1..Len(pool[p]) : pool'[p][i] = pool[p][j]
  OBVIOUS
<1>1. PICK c \in 0..Len(pool[p]) :
        /\ Len(pool'[p]) = Len(pool[p]) - c
        /\ \A i \in 1..Len(pool'[p]) : pool'[p][i] = pool[p][i + c]
  BY DEF LostPrefix, IsSuffix
<1>2. Len(pool[p]) \in Nat
  BY PoolTyped
<1>3. ASSUME NEW i \in 1..Len(pool'[p])
      PROVE  \E j \in 1..Len(pool[p]) : pool'[p][i] = pool[p][j]
  <2>1. i + c \in 1..Len(pool[p])
    BY <1>1, <1>2
  <2> QED BY <1>1, <2>1
<1> QED BY <1>1, <1>2, <1>3

LEMMA PullStartTyped == PullStart \in PullType /\ PullStart.pc = "ask"
  BY PeerAssumption, BoundAssumption DEF PullStart, PullType

LEMMA LostPrefixKeeps ==
  ASSUME TypeOK, LostPrefix, DistinctInv, SortedInv
  PROVE  DistinctInv' /\ SortedInv'
<1> DEFINE Shift(p, c) == /\ Len(pool'[p]) = Len(pool[p]) - c
                          /\ \A i \in 1..Len(pool'[p]) : pool'[p][i] = pool[p][i + c]
<1>1. \A p \in Peers : Len(pool[p]) \in Nat /\ \E c \in 0..Len(pool[p]) : Shift(p, c)
  BY PoolTyped DEF LostPrefix, IsSuffix
<1>2. ASSUME NEW p \in Peers, NEW q \in Peers,
             NEW i \in 1..Len(pool'[p]), NEW j \in 1..Len(pool'[q]),
             pool'[p][i].id = pool'[q][j].id
      PROVE  p = q /\ i = j
  <2>1. PICK c \in 0..Len(pool[p]) : Shift(p, c)
    BY <1>1
  <2>2. PICK d \in 0..Len(pool[q]) : Shift(q, d) /\ (p = q => d = c)
    <3>1. CASE p = q
      BY <2>1, <3>1
    <3>2. CASE p # q
      BY <1>1, <3>2
    <3> QED BY <3>1, <3>2
  <2>3. i + c \in 1..Len(pool[p]) /\ j + d \in 1..Len(pool[q])
    BY <1>1, <2>1, <2>2
  <2>4. pool[p][i + c].id = pool[q][j + d].id
    BY <1>2, <2>1, <2>2
  <2>5. p = q /\ i + c = j + d
    BY <2>3, <2>4 DEF DistinctInv
  <2> QED BY <1>1, <2>1, <2>2, <2>5
<1>3. ASSUME NEW p \in Peers, NEW i \in 1..Len(pool'[p]), NEW j \in 1..Len(pool'[p]),
             i <= j
      PROVE  pool'[p][i].at <= pool'[p][j].at
  <2>1. PICK c \in 0..Len(pool[p]) : Shift(p, c)
    BY <1>1
  <2>2. i + c \in 1..Len(pool[p]) /\ j + c \in 1..Len(pool[p]) /\ i + c <= j + c
    BY <1>1, <1>3, <2>1
  <2>3. pool[p][i + c].at <= pool[p][j + c].at
    BY <2>2 DEF SortedInv
  <2> QED BY <2>1, <2>3
<1> QED BY <1>2, <1>3 DEF DistinctInv, SortedInv

LEMMA PullPeerTyped == ASSUME TypeOK PROVE PullPeer \in Peers
<1>1. pull.i \in 1..Len(PeerList)
  BY DEF TypeOK, PullType, HandlerType
<1> QED BY <1>1 DEF PullPeer, Peers

\* Taking units out of the deques disturbs neither the pull thread's room nor the
\* flag's way back.
LEMMA ShrinkKeepsPull ==
  ASSUME IInv, LostPrefix, UNCHANGED <<issued, now, pull, sourceAvailable>>
  PROVE  PullInv' /\ DistinctInv' /\ SortedInv' /\ AgeInv' /\ PoolWithinTarget'
         /\ OutageFlagRecoverable'
         /\ \A p \in Peers : \A i \in 1..Len(pool'[p]) : pool'[p][i].id <= Arrived'
<1> USE DEF IInv
<1>1. DistinctInv' /\ SortedInv'
  BY LostPrefixKeeps
<1>2. \A p \in Peers : Len(pool[p]) \in Nat /\ Len(pool'[p]) \in Nat
                       /\ Len(pool'[p]) <= Len(pool[p])
  BY LostPrefixFacts, PoolTyped
<1>3. \A p \in Peers : \A i \in 1..Len(pool'[p]) :
        \E j \in 1..Len(pool[p]) : pool'[p][i] = pool[p][j]
  BY LostPrefixFacts
<1>4. PullPeer \in Peers /\ PullPeer' = PullPeer
  BY PullPeerTyped DEF PullPeer
<1>5. pull.n \in Int /\ Target \in Int
  BY BoundAssumption DEF TypeOK, PullType, HandlerType
<1>6. PullInv'
  BY <1>2, <1>4, <1>5 DEF PullInv
<1>7. AgeInv'
  BY <1>3 DEF AgeInv
<1>8. PoolWithinTarget'
  BY <1>2, <1>5 DEF PoolWithinTarget
<1>9. OutageFlagRecoverable'
  BY <1>2, <1>5 DEF OutageFlagRecoverable
<1>10. Arrived' = Arrived
  BY DEF Arrived
<1>11. \A p \in Peers : \A i \in 1..Len(pool'[p]) : pool'[p][i].id <= Arrived'
  BY <1>3, <1>10 DEF OlderInv
<1> QED BY <1>1, <1>6, <1>7, <1>8, <1>9, <1>11

------------------------------------------------------------------------------
(* Steps of the request handler.                                            *)

LEMMA IdleTyped ==
  Idle \in HandlerType /\ Idle.key = NoKey /\ Idle.pc = "idle" /\ Idle.op = "none"
  BY BoundAssumption DEF Idle, HandlerType, NoKey

\* What all of them but an allocation have in common: the pool and the pull thread
\* are left alone, and only the request's own unit can become recorded.
HandlerEffect ==
  /\ UNCHANGED <<issued, now, pool, sourceAvailable, pull>>
  /\ \A k \in 1..MaxKeys : Recorded(k)' => Recorded(k) \/ k = handler.key
  /\ handler'.key \in {NoKey, handler.key} \/ (handler'.key \in 1..MaxKeys
                                               /\ Recorded(handler'.key))

LEMMA HandlerEffectKeeps ==
  ASSUME IInv, HandlerEffect, TypeOK', HandlerInv', StoreInv'
  PROVE  IInv'
<1>1. LostPrefix
  BY SamePoolLostPrefix DEF IInv, HandlerEffect
<1>2. PullInv' /\ DistinctInv' /\ SortedInv' /\ AgeInv' /\ PoolWithinTarget'
      /\ OutageFlagRecoverable'
      /\ \A p \in Peers : \A i \in 1..Len(pool'[p]) : pool'[p][i].id <= Arrived'
  BY <1>1, ShrinkKeepsPull DEF HandlerEffect
<1>3. Arrived' = Arrived
  BY DEF Arrived, HandlerEffect
<1>4. Arrived \in Int /\ 0 <= Arrived
  BY DEF Arrived, IInv, TypeOK, PullType, HandlerType, PullInv
<1>5. \A k \in 1..MaxKeys : Recorded(k)' => k <= Arrived
  BY DEF IInv, OlderInv, HandlerEffect
<1>6. handler'.key <= Arrived
  BY <1>4 DEF IInv, OlderInv, HandlerEffect, NoKey
<1>7. OlderInv'
  BY <1>2, <1>3, <1>5, <1>6 DEF OlderInv
<1>8. UnspentInv'
  <2> SUFFICES ASSUME NEW p \in Peers, NEW i \in 1..Len(pool[p])
               PROVE  pool[p][i].id # handler'.key /\ ~Recorded(pool[p][i].id)'
    BY DEF UnspentInv, HandlerEffect, Recorded
  <2>1. pool[p][i].id \in 1..MaxKeys
    BY PoolTyped DEF IInv
  <2>2. pool[p][i].id # handler.key /\ ~Recorded(pool[p][i].id)
    BY DEF IInv, UnspentInv
  <2> QED BY <2>1, <2>2 DEF HandlerEffect, NoKey
<1> QED BY <1>2, <1>7, <1>8 DEF IInv

\* The tables and the history are untouched by a step that only moves the handler.
LEMMA SameStore ==
  ASSUME IInv, UNCHANGED <<storeVars, historyVars>>
  PROVE  StoreInv' /\ \A k \in 1..MaxKeys : Recorded(k)' => Recorded(k)
  BY DEF IInv, StoreInv, BindingMatchesKek, storeVars, historyVars, Recorded

\* Steps that end the request or begin one without a unit: error answers, the
\* state, authority and ack endpoints, the start of a wrap.
LEMMA StepNoUnit ==
  ASSUME IInv,
         \/ \E o \in Objects : WrapRequest(o)
         \/ WrapMalformed \/ WrapPoolEmpty \/ StoreError
         \/ StateRequest \/ StateSizes \/ StateAnswer
         \/ \E g \in BOOLEAN : SetAuthority(g)
         \/ AckRecovery
  PROVE  IInv'
<1>1. UNCHANGED <<sourceVars, now, poolVars, storeVars, historyVars>>
  BY DEF WrapRequest, WrapMalformed, WrapPoolEmpty, StoreError, StateRequest, StateSizes,
         StateAnswer, SetAuthority, AckRecovery
<1>2. /\ authority' \in BOOLEAN /\ recoveryPending' \in BOOLEAN /\ sourceSeen' \in BOOLEAN
  BY DEF WrapRequest, WrapMalformed, WrapPoolEmpty, StoreError, StateRequest, StateSizes,
         StateAnswer, SetAuthority, AckRecovery, CheckRecovery, appVars, IInv, TypeOK
<1>3. \/ handler' = Idle
      \/ \E o \in Objects :
           handler' = [Idle EXCEPT !.pc = "lookup", !.op = "wrap", !.obj = o, !.peer = BindPeer]
      \/ handler' = [Idle EXCEPT !.pc = "sizes", !.op = "state"]
      \/ /\ handler.pc = "sizes"
         /\ \E r \in BOOLEAN : handler' = [handler EXCEPT !.pc = "derive", !.retained = r,
                                                          !.bound = (bindings # {})]
      \/ handler' = handler /\ handler.pc = "idle"
  BY DEF WrapRequest, WrapMalformed, WrapPoolEmpty, StoreError, StateRequest, StateSizes,
         StateAnswer, SetAuthority, AckRecovery
<1>4. handler' \in HandlerType /\ handler'.key = NoKey /\ HandlerInv'
  <2>0. handler \in HandlerType
    BY DEF IInv, TypeOK
  <2>1. CASE handler' = Idle
    BY <2>1, IdleTyped DEF HandlerInv
  <2>2. ASSUME NEW o \in Objects,
               handler' = [Idle EXCEPT !.pc = "lookup", !.op = "wrap", !.obj = o,
                                       !.peer = BindPeer]
        PROVE  handler' \in HandlerType /\ handler'.key = NoKey /\ HandlerInv'
    <3>1. /\ handler' \in HandlerType /\ handler'.pc = "lookup" /\ handler'.op = "wrap"
          /\ handler'.obj = o /\ handler'.peer = BindPeer /\ handler'.key = NoKey
      BY <2>2, IdleTyped, PeerAssumption DEF HandlerType
    <3> QED BY <3>1, PeerAssumption DEF HandlerInv
  <2>3. CASE handler' = [Idle EXCEPT !.pc = "sizes", !.op = "state"]
    <3>1. /\ handler' \in HandlerType /\ handler'.pc = "sizes" /\ handler'.op = "state"
          /\ handler'.key = NoKey
      BY <2>3, IdleTyped DEF HandlerType
    <3> QED BY <3>1 DEF HandlerInv
  <2>4. ASSUME NEW r \in BOOLEAN, handler.pc = "sizes",
               handler' = [handler EXCEPT !.pc = "derive", !.retained = r,
                                          !.bound = (bindings # {})]
        PROVE  handler' \in HandlerType /\ handler'.key = NoKey /\ HandlerInv'
    <3>1. handler.key = NoKey
      BY <2>4 DEF IInv, HandlerInv
    <3>2. /\ handler' \in HandlerType /\ handler'.pc = "derive" /\ handler'.op = handler.op
          /\ handler'.key = NoKey /\ handler'.obj = handler.obj /\ handler'.peer = handler.peer
          /\ handler'.bound = (bindings # {})
      BY <2>0, <2>4, <3>1 DEF HandlerType
    <3>3. delivered' = delivered /\ (delivered # {} => bindings # {})
      BY <1>1 DEF IInv, StoreInv, historyVars
    <3>4. /\ handler.op = "wrap" => handler.obj \in Objects /\ handler.peer \in Peers
          /\ handler.op \in {"vpn", "file"} => handler.peer \in Peers
      BY DEF IInv, HandlerInv
    <3> QED BY <3>2, <3>3, <3>4 DEF HandlerInv
  <2>5. CASE handler' = handler /\ handler.pc = "idle"
    BY <1>1, <2>0, <2>5 DEF IInv, HandlerInv
  <2> QED BY <1>3, <2>1, <2>2, <2>3, <2>4, <2>5
<1>5. StoreInv' /\ \A k \in 1..MaxKeys : Recorded(k)' => Recorded(k)
  BY <1>1, SameStore
<1>6. HandlerEffect
  BY <1>1, <1>4, <1>5 DEF HandlerEffect, sourceVars, poolVars
<1>7. TypeOK'
  BY <1>1, <1>2, <1>4
  DEF IInv, TypeOK, sourceVars, poolVars, storeVars, historyVars
<1> QED BY <1>4, <1>5, <1>6, <1>7, HandlerEffectKeeps

LEMMA HandlerTyped ==
  ASSUME IInv
  PROVE  /\ handler \in HandlerType /\ TypeOK
         /\ handler.key # NoKey => handler.key \in 1..MaxKeys
         /\ \A o \in Objects : kek[o] # NoKey => kek[o] \in 1..MaxKeys
<1>1. handler \in HandlerType /\ TypeOK
  BY DEF IInv, TypeOK
<1>2. handler.key \in 0..MaxKeys /\ \A o \in Objects : kek[o] \in 0..MaxKeys
  BY DEF IInv, TypeOK, PullType, HandlerType
<1> QED BY <1>1, <1>2, BoundAssumption DEF NoKey

LEMMA EkmRowTyped ==
  ASSUME TypeOK, NEW b \in bindings, b.purpose = "ekm"
  PROVE  b.object \in Objects /\ b.qkd # NoKey
<1>1. \/ b \in [qkd : 1..MaxKeys, purpose : {"ekm"}, object : Objects, peer : Peers]
      \/ b \in [qkd : 1..MaxKeys, purpose : {"vpn", "file"},
                object : Peers \X (1..MaxKeys), peer : Peers]
  BY DEF TypeOK, Row
<1>2. b \in [qkd : 1..MaxKeys, purpose : {"ekm"}, object : Objects, peer : Peers]
  BY <1>1
<1> QED BY <1>2 DEF NoKey

LEMMA StepWrapKnown == ASSUME IInv, WrapKnown PROVE IInv'
<1>1. UNCHANGED <<sourceVars, now, poolVars, appVars, storeVars, historyVars>>
  BY DEF WrapKnown
<1>2. handler.pc = "lookup" /\ handler.op = "wrap" /\ handler.obj \in Objects
      /\ handler.peer \in Peers
  BY DEF WrapKnown, IInv, HandlerInv
<1>3. kek[handler.obj] \in 1..MaxKeys
  BY <1>2, HandlerTyped DEF WrapKnown
<1>4. /\ handler' \in HandlerType /\ handler'.pc = "answer" /\ handler'.op = "wrap"
      /\ handler'.obj = handler.obj /\ handler'.peer = handler.peer
      /\ handler'.key = kek[handler.obj]
  <2>1. handler' = [handler EXCEPT !.pc = "answer", !.key = kek[handler.obj]]
    BY DEF WrapKnown
  <2>2. kek[handler.obj] \in 0..MaxKeys /\ handler \in HandlerType
    BY <1>3, HandlerTyped, BoundAssumption
  <2> QED BY <1>2, <2>1, <2>2 DEF HandlerType
<1>5. TypeOK'
  BY <1>1, <1>4, HandlerTyped
  DEF TypeOK, sourceVars, poolVars, appVars, storeVars, historyVars
<1>6. StoreInv' /\ \A k \in 1..MaxKeys : Recorded(k)' => Recorded(k)
  BY <1>1, SameStore
<1>7. HandlerEffect
  BY <1>1, <1>2, <1>3, <1>4, <1>6 DEF HandlerEffect, sourceVars, poolVars, Recorded
<1>8. kek' = kek /\ handler'.key # NoKey
  BY <1>1, <1>3, <1>4 DEF storeVars, NoKey
<1>9. HandlerInv'
  BY <1>2, <1>4, <1>8 DEF HandlerInv
<1> QED BY <1>5, <1>6, <1>7, <1>9, HandlerEffectKeeps

LEMMA StepWrapPutKek == ASSUME IInv, WrapPutKek PROVE IInv'
<1>1. UNCHANGED <<sourceVars, now, poolVars, appVars, bindings, blobs, delivered>>
  BY DEF WrapPutKek, historyVars
<1>2. /\ handler.pc = "put" /\ handler.op = "wrap" /\ handler.obj \in Objects
      /\ handler.peer \in Peers /\ handler.key # NoKey
      /\ kek[handler.obj] = NoKey /\ ~Recorded(handler.key)
  BY DEF WrapPutKek, IInv, HandlerInv
<1>3. kek \in [Objects -> 0..MaxKeys] /\ handler.key \in 1..MaxKeys
  BY <1>2, HandlerTyped DEF TypeOK
<1>4. /\ kek' \in [Objects -> 0..MaxKeys] /\ kek'[handler.obj] = handler.key
      /\ \A o \in Objects : o # handler.obj => kek'[o] = kek[o]
  BY <1>2, <1>3 DEF WrapPutKek, PutKek
<1>5. /\ handler' \in HandlerType /\ handler'.pc = "bind" /\ handler'.op = "wrap"
      /\ handler'.obj = handler.obj /\ handler'.peer = handler.peer
      /\ handler'.key = handler.key
  BY <1>2, HandlerTyped DEF WrapPutKek, HandlerType
<1>6. TypeOK'
  BY <1>1, <1>4, <1>5, HandlerTyped
  DEF TypeOK, sourceVars, poolVars, appVars
<1>7. HandlerEffect
  BY <1>1, <1>4, <1>5 DEF HandlerEffect, sourceVars, poolVars, Recorded
<1>8. HandlerInv'
  BY <1>1, <1>2, <1>4, <1>5 DEF HandlerInv, Recorded
<1>9. StoreInv'
  <2>1. \A o1, o2 \in Objects : kek'[o1] = kek'[o2] /\ kek'[o1] # NoKey => o1 = o2
    BY <1>2, <1>4 DEF IInv, StoreInv, Recorded
  <2>2. \A d \in delivered, o \in Objects : d.key # kek'[o]
    BY <1>2, <1>4 DEF IInv, StoreInv, Recorded
  <2>3. \A b \in bindings : b.purpose = "ekm" => b.object \in Objects /\ b.qkd # NoKey
    BY EkmRowTyped DEF IInv
  <2>4. \A b \in bindings : b.purpose = "ekm" => kek'[b.object] = b.qkd
    BY <1>2, <1>4, <2>3 DEF IInv, StoreInv, BindingMatchesKek
  <2>5. \A b \in blobs : b.obj \in Objects /\ b.key # NoKey
    BY DEF IInv, TypeOK, NoKey
  <2>6. \A b \in blobs : kek'[b.obj] = b.key
    BY <1>2, <1>4, <2>5 DEF IInv, StoreInv
  <2> QED BY <1>1, <2>1, <2>2, <2>4, <2>6 DEF IInv, StoreInv, BindingMatchesKek
<1> QED BY <1>6, <1>7, <1>8, <1>9, HandlerEffectKeeps

LEMMA StepWrapBind == ASSUME IInv, WrapBind PROVE IInv'
<1> DEFINE row == [qkd |-> handler.key, purpose |-> "ekm", object |-> handler.obj,
                   peer |-> handler.peer]
<1>1. UNCHANGED <<sourceVars, now, poolVars, appVars, kek, blobs, delivered>>
  BY DEF WrapBind, historyVars
<1>2. /\ handler.pc = "bind" /\ handler.op = "wrap" /\ handler.obj \in Objects
      /\ handler.peer \in Peers /\ handler.key # NoKey /\ kek[handler.obj] = handler.key
  BY DEF WrapBind, IInv, HandlerInv
<1>3. handler.key \in 1..MaxKeys
  BY <1>2, HandlerTyped
<1>4. bindings' \in {bindings, bindings \cup {row}}
  BY DEF WrapBind, Bind
<1>5. row \in Row /\ row.qkd = handler.key /\ row.purpose = "ekm" /\ row.object = handler.obj
  BY <1>2, <1>3 DEF Row
<1>6. /\ handler' \in HandlerType /\ handler'.pc = "answer" /\ handler'.op = "wrap"
      /\ handler'.obj = handler.obj /\ handler'.peer = handler.peer
      /\ handler'.key = handler.key
  BY <1>2, HandlerTyped DEF WrapBind, HandlerType
<1> HIDE DEF row
<1>7. TypeOK'
  BY <1>1, <1>4, <1>5, <1>6, HandlerTyped
  DEF TypeOK, sourceVars, poolVars, appVars
<1>8. HandlerEffect
  BY <1>1, <1>4, <1>5, <1>6 DEF HandlerEffect, sourceVars, poolVars, Recorded
<1>9. HandlerInv'
  BY <1>1, <1>2, <1>6 DEF HandlerInv
<1>10. StoreInv'
  BY <1>1, <1>2, <1>4, <1>5 DEF IInv, StoreInv, BindingMatchesKek
<1> QED BY <1>7, <1>8, <1>9, <1>10, HandlerEffectKeeps

LEMMA StepWrapAnswer == ASSUME IInv, WrapAnswer PROVE IInv'
<1> DEFINE blob == [obj |-> handler.obj, key |-> handler.key]
<1>1. UNCHANGED <<sourceVars, now, poolVars, appVars, kek, bindings, delivered>>
  BY DEF WrapAnswer, storeVars
<1>2. /\ handler.obj \in Objects /\ handler.key # NoKey /\ kek[handler.obj] = handler.key
  BY DEF WrapAnswer, IInv, HandlerInv
<1>3. handler.key \in 1..MaxKeys
  BY <1>2, HandlerTyped
<1>4. /\ blobs' = blobs \cup {blob} /\ blob \in [obj : Objects, key : 1..MaxKeys]
      /\ blob.obj = handler.obj /\ blob.key = handler.key
  BY <1>2, <1>3 DEF WrapAnswer
<1>5. handler' = Idle
  BY DEF WrapAnswer
<1> HIDE DEF blob
<1>6. TypeOK'
  <2>1. handler' \in HandlerType
    BY <1>5, IdleTyped
  <2> QED BY <1>1, <1>4, <2>1, HandlerTyped
      DEF TypeOK, sourceVars, poolVars, appVars
<1>7. HandlerEffect
  BY <1>1, <1>5, IdleTyped DEF HandlerEffect, sourceVars, poolVars, Recorded
<1>8. HandlerInv'
  BY <1>5, IdleTyped DEF HandlerInv
<1>9. StoreInv'
  BY <1>1, <1>2, <1>4 DEF IInv, StoreInv, BindingMatchesKek
<1> QED BY <1>6, <1>7, <1>8, <1>9, HandlerEffectKeeps

LEMMA StepNewBind == ASSUME IInv, NewBind PROVE IInv'
<1> DEFINE row == [qkd |-> handler.key, purpose |-> handler.op,
                   object |-> <<handler.peer, handler.key>>, peer |-> handler.peer]
<1>1. UNCHANGED <<sourceVars, now, poolVars, appVars, kek, blobs, delivered>>
  BY DEF NewBind, historyVars
<1>2. /\ handler.pc = "bind" /\ handler.op \in {"vpn", "file"} /\ handler.peer \in Peers
      /\ handler.key # NoKey /\ ~Recorded(handler.key)
  BY DEF NewBind, IInv, HandlerInv
<1>3. handler.key \in 1..MaxKeys
  BY <1>2, HandlerTyped
<1>4. /\ bindings' = IF AlreadyBound(row) THEN bindings ELSE bindings \cup {row}
      /\ handler' = IF AlreadyBound(row) THEN Idle ELSE [handler EXCEPT !.pc = "answer"]
  BY DEF NewBind, Bind
<1>5. /\ row \in Row
      /\ row.qkd = handler.key /\ row.purpose # "ekm"
  BY <1>2, <1>3 DEF Row
<1>6. /\ [handler EXCEPT !.pc = "answer"] \in HandlerType
      /\ [handler EXCEPT !.pc = "answer"].pc = "answer"
      /\ [handler EXCEPT !.pc = "answer"].op = handler.op
      /\ [handler EXCEPT !.pc = "answer"].peer = handler.peer
      /\ [handler EXCEPT !.pc = "answer"].key = handler.key
  BY HandlerTyped DEF HandlerType
<1> HIDE DEF row
<1>7. handler' \in HandlerType /\ handler'.key \in {NoKey, handler.key}
  BY <1>4, <1>6, IdleTyped
<1>8. TypeOK'
  BY <1>1, <1>4, <1>5, <1>7, HandlerTyped
  DEF TypeOK, sourceVars, poolVars, appVars
<1>9. HandlerEffect
  BY <1>1, <1>4, <1>5, <1>7 DEF HandlerEffect, sourceVars, poolVars, Recorded
<1>10. HandlerInv'
  <2>1. CASE AlreadyBound(row)
    BY <1>4, <2>1, IdleTyped DEF HandlerInv
  <2>2. CASE ~AlreadyBound(row)
    <3>1. /\ handler'.pc = "answer" /\ handler'.op = handler.op
          /\ handler'.peer = handler.peer /\ handler'.key = handler.key
          /\ bindings' # {}
      BY <1>4, <1>6, <2>2
    <3>2. /\ \A o \in Objects : kek'[o] # handler.key
          /\ \A d \in delivered' : d.key # handler.key
      BY <1>1, <1>2 DEF Recorded
    <3> QED BY <1>2, <3>1, <3>2 DEF HandlerInv
  <2> QED BY <2>1, <2>2
<1>11. StoreInv'
  BY <1>1, <1>4, <1>5 DEF IInv, StoreInv, BindingMatchesKek
<1> QED BY <1>8, <1>9, <1>10, <1>11, HandlerEffectKeeps

LEMMA StepNewAnswer == ASSUME IInv, NewAnswer PROVE IInv'
<1> DEFINE out == [key |-> handler.key, purpose |-> handler.op, peer |-> handler.peer]
<1>1. UNCHANGED <<sourceVars, now, poolVars, appVars, kek, bindings, blobs>>
  BY DEF NewAnswer, storeVars
<1>2. /\ handler.op \in {"vpn", "file"} /\ handler.peer \in Peers /\ handler.key # NoKey
      /\ \A o \in Objects : kek[o] # handler.key
      /\ \A d \in delivered : d.key # handler.key
      /\ bindings # {}
  BY DEF NewAnswer, IInv, HandlerInv
<1>3. handler.key \in 1..MaxKeys
  BY <1>2, HandlerTyped
<1>4. /\ delivered' = delivered \cup {out}
      /\ out \in [key : 1..MaxKeys, purpose : {"vpn", "file"}, peer : Peers]
      /\ out.key = handler.key
  BY <1>2, <1>3 DEF NewAnswer
<1>5. handler' = Idle
  BY DEF NewAnswer
<1> HIDE DEF out
<1>6. TypeOK'
  <2>1. handler' \in HandlerType
    BY <1>5, IdleTyped
  <2> QED BY <1>1, <1>4, <2>1, HandlerTyped
      DEF TypeOK, sourceVars, poolVars, appVars
<1>7. HandlerEffect
  BY <1>1, <1>4, <1>5, IdleTyped DEF HandlerEffect, sourceVars, poolVars, Recorded
<1>8. HandlerInv'
  BY <1>5, IdleTyped DEF HandlerInv
<1>9. StoreInv'
  BY <1>1, <1>2, <1>4 DEF IInv, StoreInv, BindingMatchesKek
<1> QED BY <1>6, <1>7, <1>8, <1>9, HandlerEffectKeeps

------------------------------------------------------------------------------
(* Steps that take units out of the pool.                                   *)

\* A unit leaving a deque for a request (KeyPool.allocate): whatever the request h,
\* only the pool and the handler change.
LEMMA StepAllocate ==
  ASSUME IInv, NEW q \in Peers, NEW h \in HandlerType, Allocate(q, h),
         UNCHANGED <<sourceVars, now, sourceAvailable, pull, appVars, storeVars, historyVars>>,
         \/ h.pc = "put" /\ h.op = "wrap" /\ h.obj \in Objects /\ h.peer \in Peers
            /\ kek[h.obj] = NoKey
         \/ h.pc = "bind" /\ h.op \in {"vpn", "file"} /\ h.peer \in Peers
  PROVE  IInv'
<1>1. pool[q] # <<>> /\ pool' = [pool EXCEPT ![q] = Tail(@)]
  BY DEF Allocate
<1>2. LostPrefix
  BY <1>1, PopLostPrefix DEF IInv
<1>3. PullInv' /\ DistinctInv' /\ SortedInv' /\ AgeInv' /\ PoolWithinTarget'
      /\ OutageFlagRecoverable'
      /\ \A p \in Peers : \A i \in 1..Len(pool'[p]) : pool'[p][i].id <= Arrived'
  BY <1>2, ShrinkKeepsPull DEF sourceVars
<1>4. Head(pool[q]) = pool[q][1] /\ 1 \in 1..Len(pool[q])
  BY <1>1, PoolTyped, SuffixTail DEF IInv
<1>5. PICK k \in 1..MaxKeys :
        k = pool[q][1].id /\ k = Head(pool[q]).id /\ ~Recorded(k) /\ k <= Arrived
  BY <1>4, PoolTyped DEF IInv, UnspentInv, OlderInv
<1>6. handler' = [h EXCEPT !.key = k]
  BY <1>5 DEF Allocate, Consumed, Recorded
<1>7. k # NoKey /\ k \in 0..MaxKeys
  BY <1>5 DEF NoKey
<1>8. \A p \in Peers : \A i \in 1..Len(pool'[p]) : pool'[p][i].id # k
  <2> SUFFICES ASSUME NEW p \in Peers, NEW i \in 1..Len(pool'[p]) PROVE pool'[p][i].id # k
    OBVIOUS
  <2>1. PICK j \in 1..Len(pool[p]) : pool'[p][i] = pool[p][j] /\ (p = q => j # 1)
    <3>1. CASE p # q
      <4>1. pool'[p] = pool[p]
        BY <1>1, <3>1, PoolTyped DEF IInv
      <4> QED BY <4>1, <3>1
    <3>2. CASE p = q
      <4>1. pool'[p] = Tail(pool[p]) /\ pool[p] \in Seq(Unit) /\ pool[p] # <<>>
        BY <1>1, <3>2, PoolTyped DEF IInv
      <4>2. /\ Len(pool[p]) \in Nat /\ Len(pool'[p]) = Len(pool[p]) - 1
            /\ \A x \in 1..Len(pool'[p]) : pool'[p][x] = pool[p][x + 1]
        BY <4>1, TailFacts
      <4>3. i + 1 \in 1..Len(pool[p]) /\ i + 1 # 1
        BY <4>2
      <4>4. pool'[p][i] = pool[p][i + 1]
        BY <4>2
      <4> QED BY <4>3, <4>4
    <3> QED BY <3>1, <3>2
  <2> QED BY <1>4, <1>5, <2>1 DEF IInv, DistinctInv
<1>9. /\ handler' \in HandlerType /\ handler'.key = k /\ handler'.pc = h.pc
      /\ handler'.op = h.op /\ handler'.obj = h.obj /\ handler'.peer = h.peer
  BY <1>6, <1>7 DEF HandlerType
<1>10. StoreInv' /\ \A x \in 1..MaxKeys : Recorded(x)' <=> Recorded(x)
  BY DEF IInv, StoreInv, BindingMatchesKek, Recorded, storeVars, historyVars
<1>11. Arrived' = Arrived
  BY DEF Arrived, sourceVars
<1>12. OlderInv'
  BY <1>3, <1>5, <1>9, <1>10, <1>11 DEF IInv, OlderInv
<1>13. UnspentInv'
  <2>1. ASSUME NEW p \in Peers, NEW i \in 1..Len(pool'[p]), NEW x, x = pool'[p][i].id
        PROVE  x # handler'.key /\ ~Recorded(x)'
    <3>1. PICK j \in 1..Len(pool[p]) : pool'[p][i] = pool[p][j]
      BY <1>2, LostPrefixFacts DEF IInv
    <3>2. x = pool[p][j].id
      BY <2>1, <3>1
    <3>3. x \in 1..MaxKeys /\ ~Recorded(x)
      BY <3>2, PoolTyped DEF IInv, UnspentInv
    <3> QED BY <1>8, <1>9, <1>10, <2>1, <3>3
  <2> QED BY <2>1 DEF UnspentInv, Recorded
<1>14. HandlerInv'
  <2>1. ~Recorded(k)' /\ kek' = kek
    BY <1>5, <1>10 DEF storeVars
  <2>2. /\ \A o \in Objects : kek'[o] # k
        /\ \A b \in bindings' : b.qkd # k
        /\ \A d \in delivered' : d.key # k
    BY <2>1 DEF Recorded
  <2> QED BY <1>7, <1>9, <2>1, <2>2 DEF HandlerInv, Recorded
<1>15. TypeOK'
  BY <1>2, <1>9
  DEF IInv, TypeOK, LostPrefix, sourceVars, appVars, storeVars, historyVars
<1> QED BY <1>3, <1>10, <1>12, <1>13, <1>14, <1>15 DEF IInv

LEMMA StepWrapAllocate == ASSUME IInv, WrapAllocate PROVE IInv'
<1> DEFINE h == [handler EXCEPT !.pc = "put"]
<1>1. /\ handler.op = "wrap" /\ handler.obj \in Objects /\ handler.peer \in Peers
      /\ kek[handler.obj] = NoKey /\ handler \in HandlerType /\ BindPeer \in Peers
  BY HandlerTyped, PeerAssumption DEF WrapAllocate, IInv, HandlerInv
<1>2. /\ h \in HandlerType /\ h.pc = "put" /\ h.op = "wrap" /\ h.obj \in Objects
      /\ h.peer \in Peers /\ kek[h.obj] = NoKey
  BY <1>1 DEF HandlerType
<1>3. Allocate(BindPeer, h)
  BY DEF WrapAllocate
<1> HIDE DEF h
<1> QED BY <1>1, <1>2, <1>3, StepAllocate DEF WrapAllocate

LEMMA StepNewAllocate ==
  ASSUME IInv, NEW p \in Peers, NEW purpose \in {"vpn", "file"}, NewAllocate(p, purpose)
  PROVE  IInv'
<1> DEFINE h == [Idle EXCEPT !.pc = "bind", !.op = purpose, !.peer = p]
<1>1. h \in HandlerType /\ h.pc = "bind" /\ h.op \in {"vpn", "file"} /\ h.peer \in Peers
  BY IdleTyped DEF HandlerType
<1>2. Allocate(p, h)
  BY DEF NewAllocate
<1> HIDE DEF h
<1> QED BY <1>1, <1>2, StepAllocate DEF NewAllocate

\* A step that loses units from the pool, moves no unit anywhere else and leaves no
\* request in progress.
LEMMA LossKeeps ==
  ASSUME IInv, LostPrefix, UNCHANGED <<storeVars, historyVars>>, handler'.key = NoKey,
         Arrived' >= Arrived, Arrived' \in Int
  PROVE  StoreInv' /\ UnspentInv' /\ OlderInv' /\ DistinctInv' /\ SortedInv'
         /\ PoolWithinTarget'
<1> USE DEF IInv
<1>1. StoreInv' /\ \A x \in 1..MaxKeys : Recorded(x)' => Recorded(x)
  BY SameStore
<1>2. DistinctInv' /\ SortedInv'
  BY LostPrefixKeeps
<1>3. \A p \in Peers : Len(pool[p]) \in Nat /\ Len(pool'[p]) \in Nat
                       /\ Len(pool'[p]) <= Len(pool[p])
  BY LostPrefixFacts, PoolTyped
<1>4. PoolWithinTarget'
  BY <1>3, BoundAssumption DEF PoolWithinTarget
<1>5. Arrived \in Int /\ 0 <= Arrived
  BY DEF Arrived, TypeOK, PullType, HandlerType, PullInv
<1>6. ASSUME NEW p \in Peers, NEW i \in 1..Len(pool'[p]), NEW x, x = pool'[p][i].id
      PROVE  x # NoKey /\ ~Recorded(x)' /\ x <= Arrived'
  <2>1. PICK j \in 1..Len(pool[p]) : pool'[p][i] = pool[p][j]
    BY LostPrefixFacts
  <2>2. x = pool[p][j].id
    BY <1>6, <2>1
  <2>3. x \in 1..MaxKeys /\ ~Recorded(x) /\ x <= Arrived
    BY <2>2, PoolTyped DEF UnspentInv, OlderInv
  <2> QED BY <1>1, <1>5, <2>3 DEF NoKey
<1>7. UnspentInv'
  BY <1>6 DEF UnspentInv, Recorded
<1>8. \A x \in 1..MaxKeys : Recorded(x)' => x <= Arrived'
  BY <1>1, <1>5 DEF OlderInv
<1>9. OlderInv'
  BY <1>5, <1>6, <1>8 DEF OlderInv, NoKey
<1> QED BY <1>1, <1>2, <1>4, <1>7, <1>9

LEMMA StepExpire == ASSUME IInv, Expire PROVE IInv'
<1>1. LostPrefix
  BY ExpireLostPrefix DEF IInv
<1>2. UNCHANGED <<sourceVars, now, sourceAvailable, pull, appVars, handler, storeVars,
                  historyVars>> /\ handler.pc = "idle"
  BY DEF Expire
<1>3. PullInv' /\ AgeInv' /\ OutageFlagRecoverable'
  BY <1>1, <1>2, ShrinkKeepsPull DEF sourceVars
<1>4. handler'.key = NoKey
  BY <1>2 DEF IInv, HandlerInv
<1>5. Arrived' = Arrived /\ Arrived \in Int
  BY <1>2 DEF Arrived, sourceVars, IInv, TypeOK, PullType, HandlerType
<1>6. StoreInv' /\ UnspentInv' /\ OlderInv' /\ DistinctInv' /\ SortedInv' /\ PoolWithinTarget'
  BY <1>1, <1>2, <1>4, <1>5, LossKeeps
<1>7. TypeOK'
  <2>1. pool' \in [Peers -> Seq(Unit)]
    BY <1>1 DEF LostPrefix
  <2> QED BY <1>2, <2>1
      DEF IInv, TypeOK, sourceVars, appVars, storeVars, historyVars
<1>8. HandlerInv'
  BY <1>2 DEF IInv, HandlerInv, storeVars, historyVars, Recorded
<1> QED BY <1>3, <1>6, <1>7, <1>8 DEF IInv

LEMMA StepRestart == ASSUME IInv, Restart PROVE IInv'
<1>1. /\ pool' = [p \in Peers |-> <<>>] /\ sourceAvailable' = TRUE /\ pull' = PullStart
      /\ authority' = TRUE /\ recoveryPending' = FALSE /\ sourceSeen' = TRUE
      /\ handler' = Idle /\ UNCHANGED <<sourceVars, now, storeVars, historyVars>>
  BY DEF Restart
<1>2. LostPrefix
  BY <1>1, EmptyLostPrefix DEF IInv
<1>3. \A p \in Peers : Len(pool'[p]) = 0
  BY <1>1
<1>4. pull'.pc = "ask" /\ handler'.key = NoKey
  BY <1>1, IdleTyped DEF PullStart
<1>5. Arrived' >= Arrived /\ Arrived' \in Int
  BY <1>1, <1>4 DEF Arrived, sourceVars, IInv, TypeOK, PullType, HandlerType, PullInv
<1>6. StoreInv' /\ UnspentInv' /\ OlderInv' /\ DistinctInv' /\ SortedInv' /\ PoolWithinTarget'
  BY <1>1, <1>2, <1>4, <1>5, LossKeeps
<1>7. PullInv' /\ AgeInv' /\ OutageFlagRecoverable'
  BY <1>1, <1>3, <1>4 DEF PullInv, AgeInv, OutageFlagRecoverable
<1>8. HandlerInv'
  BY <1>1, IdleTyped DEF HandlerInv
<1>9. pull' \in PullType
  BY <1>1, PullStartTyped
<1>10. handler' \in HandlerType
  BY <1>1, IdleTyped
<1>11. TypeOK'
  BY <1>1, <1>2, <1>9, <1>10
  DEF IInv, TypeOK, LostPrefix, sourceVars, storeVars,
      historyVars
<1> QED BY <1>6, <1>7, <1>8, <1>11 DEF IInv

------------------------------------------------------------------------------
(* The environment and the pull thread.                                     *)

LEMMA StepEnvironment == ASSUME IInv, SourceToggle \/ Tick PROVE IInv'
<1>1. /\ UNCHANGED <<issued, poolVars, appVars, handler, storeVars, historyVars>>
      /\ srcUp' \in BOOLEAN /\ now' \in 0..MaxTime /\ now' >= now
  <2>1. CASE SourceToggle
    BY <2>1, BoundAssumption DEF SourceToggle, IInv, TypeOK
  <2>2. CASE Tick
    BY <2>2, BoundAssumption DEF Tick, sourceVars, IInv, TypeOK
  <2> QED BY <2>1, <2>2
<1>2. now \in Int
  BY DEF IInv, TypeOK
<1>3. TypeOK'
  BY <1>1 DEF IInv, TypeOK, poolVars, appVars, storeVars, historyVars
<1>4. PullInv' /\ OlderInv' /\ DistinctInv' /\ UnspentInv' /\ SortedInv'
      /\ PoolWithinTarget' /\ OutageFlagRecoverable'
  BY <1>1 DEF IInv, PullInv, PullPeer, OlderInv, Arrived, Recorded, DistinctInv, UnspentInv,
     SortedInv, PoolWithinTarget, OutageFlagRecoverable, poolVars, storeVars, historyVars
<1>5. AgeInv'
  <2>1. pull.at \in Int
    BY DEF IInv, TypeOK, PullType, HandlerType
  <2>2. \A p \in Peers : \A i \in 1..Len(pool[p]) : pool[p][i].at \in Int
    BY PoolTyped DEF IInv
  <2> QED BY <1>1, <1>2, <2>1, <2>2 DEF IInv, AgeInv, poolVars
<1>6. HandlerInv' /\ StoreInv'
  BY <1>1 DEF IInv, HandlerInv, StoreInv, BindingMatchesKek, Recorded, storeVars, historyVars
<1> QED BY <1>3, <1>4, <1>5, <1>6 DEF IInv

LEMMA NextPeerTyped ==
  ASSUME TypeOK PROVE PullNextPeer \in PullType /\ PullNextPeer.pc = "ask"
<1>1. pull.i \in 1..Len(PeerList) /\ Len(PeerList) \in Nat /\ Len(PeerList) >= 1
  BY PeerAssumption DEF TypeOK, PullType, HandlerType
<1>2. (IF pull.i < Len(PeerList) THEN pull.i + 1 ELSE 1) \in 1..Len(PeerList)
  BY <1>1
<1> QED BY <1>2, PullStartTyped DEF PullNextPeer, PullType

\* What a step of the pull thread leaves alone when it appends nothing.
LEMMA PullKeeps ==
  ASSUME IInv, UNCHANGED <<now, pool, appVars, handler, storeVars, historyVars>>,
         srcUp' \in BOOLEAN, issued' \in 0..MaxKeys, sourceAvailable' \in BOOLEAN,
         pull' \in PullType, Arrived' >= Arrived, Arrived' \in Int,
         PullInv', AgeInv', OutageFlagRecoverable'
  PROVE  IInv'
<1>1. TypeOK'
  BY DEF IInv, TypeOK, appVars, storeVars, historyVars
<1>2. DistinctInv' /\ UnspentInv' /\ SortedInv' /\ HandlerInv' /\ StoreInv'
      /\ PoolWithinTarget'
  BY DEF IInv, DistinctInv, UnspentInv, SortedInv, HandlerInv, StoreInv, BindingMatchesKek,
         PoolWithinTarget, Recorded, storeVars, historyVars
<1>3. OlderInv'
  <2>1. Arrived \in Int /\ handler.key \in Int
    BY DEF Arrived, IInv, TypeOK, PullType, HandlerType
  <2>2. \A p \in Peers : \A i \in 1..Len(pool[p]) : pool[p][i].id \in Int
    BY PoolTyped DEF IInv
  <2>3. \A x \in 1..MaxKeys : Recorded(x)' => Recorded(x)
    BY SameStore
  <2>4. /\ \A p \in Peers : \A i \in 1..Len(pool[p]) : pool[p][i].id <= Arrived'
        /\ handler.key <= Arrived'
        /\ \A x \in 1..MaxKeys : Recorded(x)' => x <= Arrived'
    BY <2>1, <2>2, <2>3 DEF IInv, OlderInv
  <2> QED BY <2>4 DEF OlderInv
<1> QED BY <1>1, <1>2, <1>3 DEF IInv

LEMMA StepPullAsk == ASSUME IInv, PullAsk PROVE IInv'
<1>1. /\ UNCHANGED <<sourceVars, now, pool, sourceAvailable, appVars, handler, storeVars,
                     historyVars>>
      /\ pull.pc = "ask"
  BY DEF PullAsk
<1>2. PullPeer \in Peers /\ Len(pool[PullPeer]) \in Nat
  BY PullPeerTyped, PoolTyped DEF IInv
<1>3. Shortfall(PullPeer) \in Int /\ Shortfall(PullPeer) <= Target
      /\ Len(pool[PullPeer]) + Shortfall(PullPeer) <= Target
  <2>1. Target \in Nat /\ MaxPerRequest \in Nat
    BY BoundAssumption
  <2>2. CASE Target - Len(pool[PullPeer]) < MaxPerRequest
    BY <1>2, <2>1, <2>2 DEF Shortfall
  <2>3. CASE ~(Target - Len(pool[PullPeer]) < MaxPerRequest)
    BY <1>2, <2>1, <2>3 DEF Shortfall
  <2> QED BY <2>2, <2>3
<1>4. pull' \in PullType /\ PullInv' /\ pull'.pc \in {"ask", "call"}
  <2>1. CASE Shortfall(PullPeer) <= 0
    <3>1. pull' = PullNextPeer
      BY <2>1 DEF PullAsk
    <3>2. pull' \in PullType /\ pull'.pc = "ask"
      BY <3>1, NextPeerTyped DEF IInv
    <3> QED BY <3>2 DEF PullInv
  <2>2. CASE ~(Shortfall(PullPeer) <= 0)
    <3>1. pull' = [pull EXCEPT !.pc = "call", !.n = Shortfall(PullPeer)]
      BY <2>2 DEF PullAsk
    <3>2. pull \in PullType /\ Shortfall(PullPeer) \in 0..Target
      BY <1>3, <2>2, BoundAssumption DEF IInv, TypeOK, PullType
    <3>3. /\ pull' \in PullType /\ pull'.pc = "call" /\ pull'.n = Shortfall(PullPeer)
          /\ pull'.i = pull.i
      BY <3>1, <3>2 DEF PullType
    <3>4. PullPeer' = PullPeer
      BY <3>3 DEF PullPeer
    <3> QED BY <1>1, <1>3, <2>2, <3>3, <3>4 DEF PullInv
  <2> QED BY <2>1, <2>2
<1>5. Arrived' = Arrived /\ Arrived \in Int
  BY <1>1, <1>4 DEF Arrived, sourceVars, IInv, TypeOK
<1>6. AgeInv' /\ OutageFlagRecoverable'
  BY <1>1, <1>4 DEF IInv, AgeInv, OutageFlagRecoverable
<1>7. srcUp' \in BOOLEAN /\ issued' \in 0..MaxKeys /\ sourceAvailable' \in BOOLEAN
  BY <1>1 DEF IInv, TypeOK, sourceVars
<1> QED BY <1>1, <1>4, <1>5, <1>6, <1>7, PullKeeps

LEMMA StepPullIssue == ASSUME IInv, PullIssue PROVE IInv'
<1>1. /\ UNCHANGED <<srcUp, now, pool, sourceAvailable, appVars, handler, storeVars,
                     historyVars>>
      /\ pull.pc = "call" /\ issued + pull.n <= MaxKeys /\ issued' = issued + pull.n
      /\ pull' = [pull EXCEPT !.pc = "reply", !.first = issued + 1]
  BY DEF PullIssue
<1>2. pull \in PullType /\ issued \in Nat /\ pull.n \in Nat /\ pull.n >= 1
  BY <1>1 DEF IInv, TypeOK, PullType, PullInv
<1>3. issued + 1 \in 0..MaxKeys /\ issued' \in 0..MaxKeys
  BY <1>1, <1>2, BoundAssumption
<1>4. /\ pull' \in PullType /\ pull'.pc = "reply" /\ pull'.n = pull.n /\ pull'.i = pull.i
      /\ pull'.first = issued + 1
  BY <1>1, <1>2, <1>3 DEF PullType
<1>5. PullPeer' = PullPeer
  BY <1>4 DEF PullPeer
<1>6. PullInv'
  BY <1>1, <1>2, <1>4, <1>5 DEF IInv, PullInv
<1>7. Arrived' = Arrived /\ Arrived \in Int
  BY <1>1, <1>2, <1>4 DEF Arrived
<1>8. AgeInv' /\ OutageFlagRecoverable'
  BY <1>1, <1>4 DEF IInv, AgeInv, OutageFlagRecoverable
<1>9. srcUp' \in BOOLEAN /\ sourceAvailable' \in BOOLEAN
  BY <1>1 DEF IInv, TypeOK
<1> QED BY <1>1, <1>3, <1>4, <1>6, <1>7, <1>8, <1>9, PullKeeps

LEMMA StepPullFails == ASSUME IInv, PullUnavailable \/ PullError PROVE IInv'
<1>1. /\ UNCHANGED <<sourceVars, now, pool, appVars, handler, storeVars, historyVars>>
      /\ pull.pc \in {"call", "reply"} /\ pull' = PullNextPeer
      /\ sourceAvailable' \in {sourceAvailable, FALSE}
  BY DEF PullUnavailable, PullError
<1>2. pull' \in PullType /\ pull'.pc = "ask"
  BY <1>1, NextPeerTyped DEF IInv
<1>3. PullInv' /\ AgeInv'
  BY <1>1, <1>2 DEF IInv, PullInv, AgeInv
<1>4. Arrived' >= Arrived /\ Arrived' \in Int
  BY <1>1, <1>2 DEF Arrived, sourceVars, IInv, TypeOK, PullType, HandlerType, PullInv
<1>5. OutageFlagRecoverable'
  <2>1. PullPeer \in Peers /\ Len(pool[PullPeer]) \in Nat
    BY PullPeerTyped, PoolTyped DEF IInv
  <2>2. pull.n \in Int /\ pull.n >= 1 /\ Len(pool[PullPeer]) + pull.n <= Target
    BY <1>1 DEF IInv, PullInv, TypeOK, PullType, HandlerType
  <2>3. Len(pool[PullPeer]) < Target
    BY <2>1, <2>2, BoundAssumption
  <2> QED BY <1>1, <2>1, <2>3 DEF OutageFlagRecoverable
<1>6. srcUp' \in BOOLEAN /\ issued' \in 0..MaxKeys /\ sourceAvailable' \in BOOLEAN
  BY <1>1 DEF IInv, TypeOK, sourceVars
<1> QED BY <1>1, <1>2, <1>3, <1>4, <1>5, <1>6, PullKeeps

LEMMA StepPullReceive == ASSUME IInv, PullReceive PROVE IInv'
<1>1. /\ UNCHANGED <<sourceVars, now, pool, appVars, handler, storeVars, historyVars>>
      /\ pull.pc = "reply" /\ sourceAvailable' = TRUE
      /\ pull' = [pull EXCEPT !.pc = "append", !.at = now]
  BY DEF PullReceive
<1>2. pull \in PullType /\ now \in 0..MaxTime
  BY DEF IInv, TypeOK, PullType
<1>3. /\ pull' \in PullType /\ pull'.pc = "append" /\ pull'.n = pull.n /\ pull'.i = pull.i
      /\ pull'.first = pull.first /\ pull'.at = now
  BY <1>1, <1>2 DEF PullType
<1>4. PullPeer' = PullPeer
  BY <1>3 DEF PullPeer
<1>5. PullInv'
  BY <1>1, <1>3, <1>4 DEF IInv, PullInv, sourceVars
<1>6. Arrived' = Arrived /\ Arrived \in Int
  BY <1>1, <1>2, <1>3 DEF Arrived, sourceVars, PullType
<1>7. AgeInv' /\ OutageFlagRecoverable'
  BY <1>1, <1>2, <1>3 DEF IInv, AgeInv, OutageFlagRecoverable
<1>8. srcUp' \in BOOLEAN /\ issued' \in 0..MaxKeys /\ sourceAvailable' \in BOOLEAN
  BY <1>1 DEF IInv, TypeOK, sourceVars
<1> QED BY <1>1, <1>3, <1>5, <1>6, <1>7, <1>8, PullKeeps

LEMMA ReceivedTyped ==
  ASSUME IInv, pull.pc = "append"
  PROVE  /\ Received \in Seq(Unit) /\ Len(Received) = pull.n /\ pull.n \in Nat
         /\ \A j \in 1..pull.n : /\ Received[j].id = pull.first + j - 1
                                 /\ Received[j].at = pull.at
<1>1. /\ pull.n \in Nat /\ pull.first \in Nat /\ pull.first >= 1 /\ pull.at \in 0..MaxTime
      /\ issued = pull.first + pull.n - 1 /\ issued <= MaxKeys /\ MaxKeys \in Nat
  BY BoundAssumption DEF IInv, TypeOK, PullType, PullInv
<1>2. \A j \in 1..pull.n : pull.first + j - 1 \in 1..MaxKeys
  BY <1>1
<1>3. \A j \in 1..pull.n : [id |-> pull.first + j - 1, at |-> pull.at] \in Unit
  BY <1>1, <1>2 DEF Unit
<1>4. /\ Received \in [1..pull.n -> Unit] /\ DOMAIN Received = 1..pull.n
      /\ \A j \in 1..pull.n : /\ Received[j].id = pull.first + j - 1
                              /\ Received[j].at = pull.at
  BY <1>3 DEF Received
<1>5. Received \in Seq(Unit)
  BY <1>1, <1>4
<1>6. Len(Received) = pull.n
  <2>1. Len(Received) \in Nat /\ DOMAIN Received = 1..Len(Received)
    BY <1>5, LenProperties
  <2> QED BY <1>1, <1>4, <2>1
<1> QED BY <1>1, <1>4, <1>5, <1>6

\* Where the units of every deque come from after an append: from the same place of
\* the same deque, or from the reply, in its order.
LEMMA AppendFacts ==
  ASSUME IInv, PullAppend
  PROVE  /\ pool' \in [Peers -> Seq(Unit)]
         /\ \A p \in Peers : p # PullPeer => pool'[p] = pool[p]
         /\ PullPeer \in Peers /\ pull.n \in Nat /\ Len(pool[PullPeer]) \in Nat
         /\ Len(pool'[PullPeer]) = Len(pool[PullPeer]) + pull.n
         /\ \A p \in Peers : \A i \in 1..Len(pool'[p]) :
              \/ i \in 1..Len(pool[p]) /\ pool'[p][i] = pool[p][i]
              \/ /\ p = PullPeer /\ i - Len(pool[PullPeer]) \in 1..pull.n
                 /\ pool'[p][i].id = pull.first + (i - Len(pool[PullPeer])) - 1
                 /\ pool'[p][i].at = pull.at
<1>1. PICK q \in Peers : q = PullPeer
  BY PullPeerTyped DEF IInv
<1>2. PICK r \in Seq(Unit) : /\ r = Received /\ Len(r) = pull.n /\ pull.n \in Nat
                             /\ \A j \in 1..pull.n : /\ r[j].id = pull.first + j - 1
                                                     /\ r[j].at = pull.at
  BY ReceivedTyped DEF PullAppend
<1>3. pool \in [Peers -> Seq(Unit)] /\ pool[q] \in Seq(Unit) /\ Len(pool[q]) \in Nat
  BY PoolTyped DEF IInv
<1>4. pool' = [pool EXCEPT ![q] = pool[q] \o r]
  BY <1>1, <1>2, <1>3 DEF PullAppend
<1>5. /\ pool[q] \o r \in Seq(Unit) /\ Len(pool[q] \o r) = Len(pool[q]) + Len(r)
      /\ \A i \in 1..(Len(pool[q]) + Len(r)) :
           (pool[q] \o r)[i] = IF i <= Len(pool[q]) THEN pool[q][i] ELSE r[i - Len(pool[q])]
  BY <1>3
<1>6. pool' \in [Peers -> Seq(Unit)]
  BY <1>3, <1>4, <1>5
<1>7. pool'[q] = pool[q] \o r /\ \A p \in Peers : p # q => pool'[p] = pool[p]
  BY <1>3, <1>4
<1>8. Len(pool'[q]) = Len(pool[q]) + pull.n
  BY <1>2, <1>5, <1>7
<1>9. ASSUME NEW i \in 1..Len(pool'[q])
      PROVE  \/ i \in 1..Len(pool[q]) /\ pool'[q][i] = pool[q][i]
             \/ /\ i - Len(pool[q]) \in 1..pull.n
                /\ pool'[q][i].id = pull.first + (i - Len(pool[q])) - 1
                /\ pool'[q][i].at = pull.at
  <2>1. i \in 1..(Len(pool[q]) + Len(r))
    BY <1>2, <1>8
  <2>2. pool'[q][i] = IF i <= Len(pool[q]) THEN pool[q][i] ELSE r[i - Len(pool[q])]
    BY <1>5, <1>7, <2>1
  <2>3. CASE i <= Len(pool[q])
    BY <1>3, <2>2, <2>3
  <2>4. CASE ~(i <= Len(pool[q]))
    <3>1. i - Len(pool[q]) \in 1..pull.n
      BY <1>2, <1>3, <2>1, <2>4
    <3>2. pool'[q][i] = r[i - Len(pool[q])]
      BY <2>2, <2>4
    <3> QED BY <1>2, <3>1, <3>2
  <2> QED BY <2>3, <2>4
<1>10. \A p \in Peers : \A i \in 1..Len(pool'[p]) :
         \/ i \in 1..Len(pool[p]) /\ pool'[p][i] = pool[p][i]
         \/ /\ p = q /\ i - Len(pool[q]) \in 1..pull.n
            /\ pool'[p][i].id = pull.first + (i - Len(pool[q])) - 1
            /\ pool'[p][i].at = pull.at
  BY <1>7, <1>9
<1> QED BY <1>1, <1>2, <1>3, <1>6, <1>7, <1>8, <1>10

LEMMA StepPullAppend == ASSUME IInv, PullAppend PROVE IInv'
<1>1. /\ UNCHANGED <<sourceVars, now, sourceAvailable, appVars, handler, storeVars,
                     historyVars>>
      /\ pull.pc = "append" /\ pull' = PullNextPeer
  BY DEF PullAppend
<1>2. pull' \in PullType /\ pull'.pc = "ask"
  BY <1>1, NextPeerTyped DEF IInv
<1>q. PICK q \in Peers : q = PullPeer
  BY AppendFacts
<1>L. PICK L \in Nat : L = Len(pool[q])
  BY <1>q, AppendFacts
<1>n. PICK n \in Nat : n = pull.n
  BY DEF IInv, TypeOK, PullType
<1>f. PICK f \in Nat : f = pull.first
  BY DEF IInv, TypeOK, PullType
<1>t. PICK t \in Nat : t = pull.at
  BY DEF IInv, TypeOK, PullType
<1>3. /\ n >= 1 /\ f >= 1 /\ L + n <= Target /\ issued = f + n - 1 /\ f + n - 1 <= MaxKeys
      /\ t <= now /\ sourceAvailable
  BY <1>1, <1>q, <1>L, <1>n, <1>f, <1>t DEF IInv, PullInv, AgeInv, TypeOK
<1>4. /\ pool' \in [Peers -> Seq(Unit)]
      /\ \A p \in Peers : p # q => pool'[p] = pool[p]
      /\ Len(pool'[q]) = L + n
  BY <1>q, <1>L, <1>n, AppendFacts
<1> DEFINE Old(p, i) == i \in 1..Len(pool[p]) /\ pool'[p][i] = pool[p][i]
           New(p, i) == p = q /\ \E k \in 1..n : /\ i = L + k
                                                 /\ pool'[p][i].id = f + k - 1
                                                 /\ pool'[p][i].at = t
<1>5. ASSUME NEW p \in Peers, NEW i \in 1..Len(pool'[p]) PROVE Old(p, i) \/ New(p, i)
  <2>1. pool'[p] \in Seq(Unit) /\ Len(pool'[p]) \in Nat /\ i \in Int
    BY <1>4
  <2>2. CASE p = q /\ i - L \in 1..n /\ pool'[p][i].id = f + (i - L) - 1 /\ pool'[p][i].at = t
    <3>1. i = L + (i - L)
      BY <2>1
    <3> QED BY <2>2, <3>1
  <2> QED BY <1>q, <1>L, <1>n, <1>f, <1>t, <2>2, AppendFacts
<1> HIDE DEF New
<1>6. \A p \in Peers : \A i \in 1..Len(pool[p]) :
        /\ pool[p][i].id \in 1..MaxKeys /\ pool[p][i].id <= f - 1
        /\ pool[p][i].at \in Int /\ pool[p][i].at <= t
  <2>1. Arrived = f - 1
    BY <1>1, <1>f DEF Arrived
  <2>2. \A p \in Peers : \A i \in 1..Len(pool[p]) :
          pool[p][i].id <= f - 1 /\ pool[p][i].at <= t
    BY <1>1, <1>t, <2>1 DEF IInv, OlderInv, AgeInv
  <2> QED BY <2>2, PoolTyped DEF IInv
<1>N. \A p \in Peers : \A i \in 1..Len(pool'[p]) : New(p, i) =>
        /\ p = q /\ pool'[p][i].id \in 1..MaxKeys /\ pool'[p][i].id >= f
        /\ pool'[p][i].id <= f + n - 1 /\ pool'[p][i].at = t
        /\ i = L + (pool'[p][i].id - f + 1)
  BY <1>3, BoundAssumption DEF New
<1>O. \A p \in Peers : \A i \in 1..Len(pool'[p]) : Old(p, i) =>
        /\ pool'[p][i].id \in 1..MaxKeys /\ pool'[p][i].id <= f - 1
        /\ pool'[p][i].at \in Int /\ pool'[p][i].at <= t
  BY <1>6
<1>7. \A x \in 1..MaxKeys : Recorded(x)' <=> Recorded(x)
  BY <1>1 DEF Recorded, storeVars, historyVars
<1>8. /\ handler.key \in Int /\ handler.key <= f - 1 /\ handler' = handler
      /\ \A x \in 1..MaxKeys : Recorded(x) => x <= f - 1
  BY <1>1, <1>f DEF IInv, OlderInv, Arrived, TypeOK, HandlerType
<1>9. Arrived' = f + n - 1
  BY <1>1, <1>2, <1>3 DEF Arrived, sourceVars
<1>10. OlderInv'
  <2>1. ASSUME NEW p \in Peers, NEW i \in 1..Len(pool'[p])
        PROVE  pool'[p][i].id <= f + n - 1
    <3>1. CASE Old(p, i)
      BY <1>3, <1>O, <3>1
    <3>2. CASE New(p, i)
      BY <1>N, <3>2
    <3> QED BY <1>5, <3>1, <3>2
  <2>2. \A x \in 1..MaxKeys : Recorded(x)' => x <= f + n - 1
    BY <1>3, <1>7, <1>8
  <2>3. handler'.key <= f + n - 1
    BY <1>3, <1>8
  <2> QED BY <1>9, <2>1, <2>2, <2>3 DEF OlderInv
<1>11. UnspentInv'
  <2>1. ASSUME NEW p \in Peers, NEW i \in 1..Len(pool'[p]), NEW x, x = pool'[p][i].id
        PROVE  x # handler'.key /\ ~Recorded(x)'
    <3>1. CASE Old(p, i)
      <4>1. x = pool[p][i].id /\ x \in 1..MaxKeys
        BY <1>6, <2>1, <3>1
      <4>2. x # handler.key /\ ~Recorded(x)
        BY <3>1, <4>1 DEF IInv, UnspentInv
      <4> QED BY <1>7, <1>8, <4>1, <4>2
    <3>2. CASE New(p, i)
      <4>1. x \in 1..MaxKeys /\ x >= f
        BY <1>N, <2>1, <3>2
      <4> QED BY <1>7, <1>8, <4>1
    <3> QED BY <1>5, <3>1, <3>2
  <2> QED BY <2>1 DEF UnspentInv, Recorded
<1>12. DistinctInv'
  <2>1. ASSUME NEW p \in Peers, NEW r \in Peers, NEW i \in 1..Len(pool'[p]),
               NEW j \in 1..Len(pool'[r]), pool'[p][i].id = pool'[r][j].id
        PROVE  p = r /\ i = j
    <3>1. CASE Old(p, i) /\ Old(r, j)
      BY <2>1, <3>1 DEF IInv, DistinctInv
    <3>2. CASE New(p, i) /\ New(r, j)
      BY <1>N, <2>1, <3>2
    <3>3. CASE (Old(p, i) /\ New(r, j)) \/ (New(p, i) /\ Old(r, j))
      <4> HIDE DEF Old
      <4> QED BY <1>N, <1>O, <2>1, <3>3
    <3>4. (Old(p, i) \/ New(p, i)) /\ (Old(r, j) \/ New(r, j))
      BY <1>5
    <3> HIDE DEF Old
    <3> QED BY <3>1, <3>2, <3>3, <3>4
  <2> QED BY <2>1 DEF DistinctInv
<1>13. SortedInv'
  <2>1. ASSUME NEW p \in Peers, NEW i \in 1..Len(pool'[p]), NEW j \in 1..Len(pool'[p]), i <= j
        PROVE  pool'[p][i].at <= pool'[p][j].at
    <3>1. CASE Old(p, i) /\ Old(p, j)
      BY <2>1, <3>1 DEF IInv, SortedInv
    <3>2. CASE New(p, j)
      <4> HIDE DEF Old
      <4>1. Old(p, i) \/ New(p, i)
        BY <1>5
      <4> QED BY <1>N, <1>O, <3>2, <4>1
    <3>3. CASE New(p, i) /\ Old(p, j)
      <4>1. i > L
        BY <1>N, <3>3
      <4>2. j <= L
        BY <1>L, <1>N, <3>3
      <4> QED BY <2>1, <4>1, <4>2
    <3> QED BY <1>5, <3>1, <3>2, <3>3
  <2> QED BY <2>1 DEF SortedInv
<1>14. AgeInv'
  <2>1. now \in Int
    BY DEF IInv, TypeOK
  <2>2. ASSUME NEW p \in Peers, NEW i \in 1..Len(pool'[p]) PROVE pool'[p][i].at <= now
    <3> HIDE DEF Old
    <3>1. Old(p, i) \/ New(p, i)
      BY <1>5
    <3> QED BY <1>3, <1>N, <1>O, <2>1, <3>1
  <2> QED BY <1>1, <1>2, <2>2 DEF AgeInv
<1>15. PullInv' /\ PoolWithinTarget' /\ OutageFlagRecoverable'
  BY <1>1, <1>2, <1>3, <1>4
  DEF IInv, PullInv, PoolWithinTarget, OutageFlagRecoverable
<1>16. StoreInv' /\ HandlerInv'
  BY <1>1 DEF IInv, StoreInv, HandlerInv, BindingMatchesKek, Recorded, storeVars, historyVars
<1>17. TypeOK'
  BY <1>1, <1>2, <1>4 DEF IInv, TypeOK, sourceVars, appVars, storeVars, historyVars
<1> QED BY <1>10, <1>11, <1>12, <1>13, <1>14, <1>15, <1>16, <1>17 DEF IInv

------------------------------------------------------------------------------
(* The invariant, and what it gives.                                        *)

LEMMA InitIInv == Init => IInv
<1> SUFFICES ASSUME Init PROVE IInv
  OBVIOUS
<1>1. /\ srcUp \in BOOLEAN /\ issued = 0 /\ now = 0
      /\ pool = [p \in Peers |-> <<>>] /\ sourceAvailable = TRUE /\ pull = PullStart
      /\ authority = TRUE /\ recoveryPending = FALSE /\ sourceSeen = TRUE
      /\ handler = Idle /\ bindings = {} /\ kek = [o \in Objects |-> NoKey]
      /\ blobs = {} /\ delivered = {}
  BY DEF Init
<1>2. pool \in [Peers -> Seq(Unit)] /\ \A p \in Peers : Len(pool[p]) = 0
  BY <1>1
<1>3. pull \in PullType /\ pull.pc = "ask"
  BY <1>1, PullStartTyped
<1>4. handler \in HandlerType /\ handler.pc = "idle" /\ handler.op = "none"
      /\ handler.key = NoKey
  BY <1>1, IdleTyped
<1>5. kek \in [Objects -> 0..MaxKeys] /\ \A o \in Objects : kek[o] = NoKey
  BY <1>1, BoundAssumption DEF NoKey
<1>6. issued \in 0..MaxKeys /\ now \in 0..MaxTime
  BY <1>1, BoundAssumption
<1>7. TypeOK
  BY <1>1, <1>2, <1>3, <1>4, <1>5, <1>6 DEF TypeOK
<1>8. PullInv /\ DistinctInv /\ UnspentInv /\ SortedInv /\ AgeInv
  BY <1>2, <1>3 DEF PullInv, DistinctInv, UnspentInv, SortedInv, AgeInv
<1>9. PoolWithinTarget /\ OutageFlagRecoverable
  BY <1>1, <1>2, BoundAssumption DEF PoolWithinTarget, OutageFlagRecoverable
<1>10. HandlerInv
  BY <1>4 DEF HandlerInv
<1>11. StoreInv
  BY <1>1, <1>5 DEF StoreInv, BindingMatchesKek
<1>12. OlderInv
  <2>1. \A k \in 1..MaxKeys : ~Recorded(k)
    BY <1>1, <1>5 DEF Recorded, NoKey
  <2>2. Arrived = 0
    BY <1>1, <1>3 DEF Arrived
  <2> QED BY <1>2, <1>4, <2>1, <2>2 DEF OlderInv, NoKey
<1> QED BY <1>7, <1>8, <1>9, <1>10, <1>11, <1>12 DEF IInv

LEMMA Stutter == ASSUME IInv, UNCHANGED vars PROVE IInv'
<1>1. UNCHANGED <<srcUp, issued, now, pool, sourceAvailable, pull, authority,
                  recoveryPending, sourceSeen, handler, bindings, kek, blobs, delivered>>
  BY DEF vars, sourceVars, poolVars, appVars, storeVars, historyVars
<1>2. TypeOK'
  BY <1>1 DEF IInv, TypeOK
<1>3. PullInv' /\ OlderInv' /\ DistinctInv' /\ UnspentInv' /\ SortedInv' /\ AgeInv'
      /\ PoolWithinTarget' /\ OutageFlagRecoverable'
  BY <1>1 DEF IInv, PullInv, PullPeer, OlderInv, Arrived, Recorded, DistinctInv, UnspentInv,
     SortedInv, AgeInv, PoolWithinTarget, OutageFlagRecoverable
<1>4. HandlerInv' /\ StoreInv'
  BY <1>1 DEF IInv, HandlerInv, StoreInv, BindingMatchesKek, Recorded
<1> QED BY <1>2, <1>3, <1>4 DEF IInv

LEMMA NextIInv == ASSUME IInv, [Next]_vars PROVE IInv'
<1>1. CASE SourceToggle \/ Tick
  BY <1>1, StepEnvironment
<1>2. CASE PullStep
  BY <1>2, StepPullAsk, StepPullIssue, StepPullFails, StepPullReceive, StepPullAppend
  DEF PullStep
<1>3. CASE Expire
  BY <1>3, StepExpire
<1>4. CASE RequestStep
  BY <1>4, StepNoUnit, StepNewAllocate DEF RequestStep
<1>5. CASE HandlerStep
  BY <1>5, StepNoUnit, StepWrapKnown, StepWrapAllocate, StepWrapPutKek, StepWrapBind,
     StepWrapAnswer, StepNewBind, StepNewAnswer
  DEF HandlerStep
<1>6. CASE Restart
  BY <1>6, StepRestart
<1>7. CASE UNCHANGED vars
  BY <1>7, Stutter
<1> QED BY <1>1, <1>2, <1>3, <1>4, <1>5, <1>6, <1>7 DEF Next

\* IInv is an inductive invariant of the EKM process: it holds at start-up and every
\* step of a handler, of the pull thread, of the expiry sweep, of the source, and
\* every crash and restart, preserves it.
THEOREM Invariance == Spec => []IInv
<1>1. IInv /\ [Next]_vars => IInv'
  BY NextIInv
<1> QED BY InitIInv, <1>1, PTL DEF Spec

\* Every variable keeps its type, whatever the number of peers and keys.
THEOREM TypeCorrect == Spec => []TypeOK
<1>1. IInv => TypeOK
  BY DEF IInv
<1> QED BY <1>1, Invariance, PTL

\* No QKD unit is ever used twice, across crashes, failed writes and lost answers:
\* allocate() pops under the lock and every use is recorded before or instead of
\* being forgotten.
THEOREM UnitSpentOnceAlways == Spec => []UnitSpentOnce
<1>1. IInv => UnitSpentOnce
  <2> SUFFICES ASSUME IInv PROVE UnitSpentOnce
    OBVIOUS
  <2>1. \A o1, o2 \in Objects : kek[o1] = kek[o2] /\ kek[o1] # NoKey => o1 = o2
    BY DEF IInv, StoreInv
  <2>2. \A d1, d2 \in delivered : d1.key = d2.key => d1 = d2
    BY DEF IInv, StoreInv
  <2>3. \A d \in delivered : d.key \notin KekUnits
    BY DEF IInv, StoreInv, KekUnits
  <2>4. \A p \in Peers : \A k \in Buffered(p) :
          k \notin KekUnits /\ \A d \in delivered : d.key # k
    BY DEF IInv, UnspentInv, Recorded, KekUnits, Buffered
  <2>5. \A p, q \in Peers : p # q => Buffered(p) \cap Buffered(q) = {}
    BY DEF IInv, DistinctInv, Buffered
  <2> QED BY <2>1, <2>2, <2>3, <2>4, <2>5 DEF UnitSpentOnce
<1> QED BY <1>1, Invariance, PTL

\* Every wrappedBlob ever returned to Cloud KMS can still be unwrapped: a kek row is
\* written once and before the first answer made with it.
THEOREM EveryWrapUnwrapsAlways == Spec => []EveryWrapUnwraps
<1>1. IInv => EveryWrapUnwraps
  <2> SUFFICES ASSUME IInv, NEW b \in blobs PROVE Unwrap(b.obj, b) = "plaintext"
    BY DEF EveryWrapUnwraps
  <2>1. b.key \in 1..MaxKeys
    BY DEF IInv, TypeOK
  <2>2. kek[b.obj] = b.key
    BY DEF IInv, StoreInv
  <2> QED BY <2>1, <2>2 DEF Unwrap, NoKey
<1> QED BY <1>1, Invariance, PTL

\* The bindings table and the kek table agree on every external key bound.
THEOREM BindingMatchesKekAlways == Spec => []BindingMatchesKek
<1>1. IInv => BindingMatchesKek
  BY DEF IInv, StoreInv
<1> QED BY <1>1, Invariance, PTL

\* The deques never exceed EKM_POOL_TARGET, although pull_once releases the lock
\* between reading a length and appending.
THEOREM PoolWithinTargetAlways == Spec => []PoolWithinTarget
<1>1. IInv => PoolWithinTarget
  BY DEF IInv
<1> QED BY <1>1, Invariance, PTL

\* While source_available is false some deque is short, so pull_once will call the
\* source again: the flag cannot be stranded by full deques.
THEOREM OutageFlagRecoverableAlways == Spec => []OutageFlagRecoverable
<1>1. IInv => OutageFlagRecoverable
  BY DEF IInv
<1> QED BY <1>1, Invariance, PTL

\* GET /api/state never answers EXHAUSTED once a unit was given to a caller.
THEOREM ExhaustedMeansNoneDeliveredAlways == Spec => []ExhaustedMeansNoneDelivered
<1>1. IInv => ExhaustedMeansNoneDelivered
  <2> SUFFICES ASSUME IInv, handler.pc = "derive", ReportedMode = "EXHAUSTED",
                      delivered # {}
               PROVE  FALSE
    BY DEF ExhaustedMeansNoneDelivered
  <2>1. handler.bound
    BY DEF IInv, HandlerInv
  <2> QED BY <2>1 DEF ReportedMode, DeriveMode
<1> QED BY <1>1, Invariance, PTL

\* expire_once leaves no unit older than the TTL in any deque, although it stops at
\* the first young one: the deques are in order of arrival.
THEOREM ExpiryIsCompleteAlways == Spec => []ExpiryIsComplete
<1>1. ASSUME IInv, NEW p \in Peers, NEW k \in 0..Len(pool[p]), IsStalePrefix(pool[p], k),
             NEW j \in k + 1..Len(pool[p])
      PROVE  pool[p][j].at >= now - Ttl
  <2>1. PICK s \in Seq(Unit) : s = pool[p]
    BY <1>1, PoolTyped DEF IInv
  <2>2. PICK c \in Nat : c = k
    BY <1>1, <2>1
  <2>3. c < Len(s) /\ c + 1 \in 1..Len(s) /\ j \in 1..Len(s) /\ c + 1 <= j
    BY <1>1, <2>1, <2>2
  <2>4. s[c + 1].at >= now - Ttl
    BY <1>1, <2>1, <2>2, <2>3 DEF IsStalePrefix
  <2>5. s[c + 1].at <= s[j].at
    BY <1>1, <2>1, <2>3 DEF IInv, SortedInv
  <2>6. s[c + 1].at \in Int /\ s[j].at \in Int /\ now \in Int /\ Ttl \in Int
    BY <1>1, <2>1, <2>3, PoolTyped, BoundAssumption DEF IInv, TypeOK
  <2>7. \A x, y, m, t \in Int : x >= m - t /\ x <= y => y >= m - t
    OBVIOUS
  <2>8. s[j].at >= now - Ttl
    BY <2>4, <2>5, <2>6, <2>7
  <2> QED BY <2>1, <2>8
<1>2. IInv => ExpiryIsComplete
  BY <1>1 DEF ExpiryIsComplete
<1> QED BY <1>2, Invariance, PTL

------------------------------------------------------------------------------
(* Ekm implements KeyLedger.                                                *)

LEMMA LedgerInit == Init => Ledger!Init
  BY DEF Init, Ledger!Init, NoKey, Ledger!NoKey

\* The three steps that move the ledger, and all the others, which do not.
LEMMA LedgerTie == ASSUME IInv, WrapPutKek PROVE Ledger!Next
<1>1. PICK o \in Objects, k \in 1..MaxKeys : o = handler.obj /\ k = handler.key
  BY HandlerTyped DEF WrapPutKek, IInv, HandlerInv
<1>2. kek[o] = NoKey /\ ~Recorded(k)
  BY <1>1 DEF WrapPutKek, IInv, HandlerInv
<1>3. kek' = [kek EXCEPT ![o] = k] /\ UNCHANGED <<blobs, delivered>>
  BY <1>1 DEF WrapPutKek, PutKek, historyVars
<1>4. Ledger!TieKey(o, k)
  BY <1>2, <1>3 DEF Ledger!TieKey, Ledger!Spent, Recorded, NoKey, Ledger!NoKey
<1> QED BY <1>4 DEF Ledger!Next

LEMMA LedgerWrap == ASSUME IInv, WrapAnswer PROVE Ledger!Next
<1>1. PICK o \in Objects : o = handler.obj
  BY DEF WrapAnswer, IInv, HandlerInv
<1>2. kek[o] = handler.key /\ handler.key # NoKey
  BY <1>1 DEF WrapAnswer, IInv, HandlerInv
<1>3. blobs' = blobs \cup {[obj |-> o, key |-> kek[o]]} /\ UNCHANGED <<kek, delivered>>
  BY <1>1, <1>2 DEF WrapAnswer, storeVars
<1>4. Ledger!WrapUnder(o)
  BY <1>2, <1>3 DEF Ledger!WrapUnder, NoKey, Ledger!NoKey
<1> QED BY <1>4 DEF Ledger!Next

LEMMA LedgerDeliver == ASSUME IInv, NewAnswer PROVE Ledger!Next
<1>1. PICK k \in 1..MaxKeys, purpose \in {"vpn", "file"}, p \in Peers :
        k = handler.key /\ purpose = handler.op /\ p = handler.peer
  BY HandlerTyped DEF NewAnswer, IInv, HandlerInv
<1>2. /\ \A o \in Objects : kek[o] # k
      /\ \A d \in delivered : d.key # k
  BY <1>1 DEF NewAnswer, IInv, HandlerInv
<1>3. /\ delivered' = delivered \cup {[key |-> k, purpose |-> purpose, peer |-> p]}
      /\ UNCHANGED <<kek, blobs>>
  BY <1>1 DEF NewAnswer, storeVars
<1>4. Ledger!Deliver(k, purpose, p)
  BY <1>2, <1>3 DEF Ledger!Deliver, Ledger!Spent
<1> QED BY <1>4 DEF Ledger!Next

LEMMA LedgerStep == ASSUME IInv, [Next]_vars PROVE [Ledger!Next]_(Ledger!vars)
<1>1. CASE SourceToggle \/ Tick \/ Expire \/ Restart
  BY <1>1 DEF SourceToggle, Tick, Expire, Restart, storeVars, historyVars, Ledger!vars
<1>2. CASE PullStep
  BY <1>2 DEF PullStep, PullAsk, PullIssue, PullUnavailable, PullError, PullReceive,
              PullAppend, storeVars, historyVars, Ledger!vars
<1>3. CASE RequestStep
  BY <1>3 DEF RequestStep, WrapRequest, NewAllocate, StateRequest, SetAuthority,
              AckRecovery, storeVars, historyVars, Ledger!vars
<1>4. CASE WrapMalformed \/ WrapKnown \/ WrapPoolEmpty \/ WrapAllocate \/ WrapBind
           \/ NewBind \/ StoreError \/ StateSizes \/ StateAnswer
  BY <1>4 DEF WrapMalformed, WrapKnown, WrapPoolEmpty, WrapAllocate, WrapBind, NewBind,
              StoreError, StateSizes, StateAnswer, storeVars, historyVars, Ledger!vars
<1>5. CASE WrapPutKek \/ WrapAnswer \/ NewAnswer
  BY <1>5, LedgerTie, LedgerWrap, LedgerDeliver
<1>6. CASE UNCHANGED vars
  BY <1>6 DEF vars, storeVars, historyVars, Ledger!vars
<1> QED BY <1>1, <1>2, <1>3, <1>4, <1>5, <1>6 DEF Next, HandlerStep

\* The whole process - pool, pull thread, handlers, tables, crashes - implements the
\* key ledger its callers rely on: one unit per external key, for ever, and a fresh
\* unit for every caller of /api/{peer}/new.
THEOREM ImplementsLedger == Spec => LedgerSpec
<1>1. IInv /\ [Next]_vars => [Ledger!Next]_(Ledger!vars)
  BY LedgerStep
<1> QED BY LedgerInit, <1>1, Invariance, PTL DEF Spec, LedgerSpec, Ledger!Spec
==============================================================================
