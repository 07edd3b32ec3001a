------------------------------ MODULE Rekeying ------------------------------
(***************************************************************************)
(* What rekeying a tunnel promises, with no requests, tasks, records, files *)
(* or failures: a key is offered once, to one peer and for ever; the server *)
(* switches a peer only to the key it was offered last; the client comes up *)
(* and goes on only with the key its peer was offered last; and a peer is   *)
(* not admitted anew under a client that runs as it.                        *)
(* VpnTunnel implements this specification (VpnTunnel!RekeyingSpec) while    *)
(* the server stays up, its `wg set`s succeed and no command is abandoned   *)
(* or killed.                                                              *)
(***************************************************************************)
EXTENDS Integers, TLAPS

CONSTANTS
  Peers,      \* public keys
  Keys        \* keys, positive

VARIABLES
  offered,    \* offered[p]: the key the server is on with p, or will switch to
  server,     \* server[p]: the key the server uses with p
  client,     \* the client's interface: the peer it runs as and its key, or Off
  spent       \* keys that are not offered any more

vars == <<offered, server, client, spent>>

NoKey == 0
Off == [pub |-> "none", psk |-> NoKey]
RunsAs(p) == client # Off /\ client.pub = p

Init ==
  /\ offered = [p \in Peers |-> NoKey] /\ server = [p \in Peers |-> NoKey]
  /\ client = Off /\ spent = {}

Spend(k) == k \notin spent /\ spent' = spent \cup {k}

\* A key is drawn and lost.
Lose(k) == Spend(k) /\ UNCHANGED <<offered, server, client>>

\* A peer is given its first key.
Admit(p, k) ==
  /\ ~RunsAs(p) /\ Spend(k)
  /\ offered' = [offered EXCEPT ![p] = k] /\ server' = [server EXCEPT ![p] = k]
  /\ UNCHANGED client

\* Both ends are to switch to a new key.
Offer(p, k) ==
  /\ server[p] # NoKey /\ Spend(k)
  /\ offered' = [offered EXCEPT ![p] = k]
  /\ UNCHANGED <<server, client>>

ServerSwitch(p) ==
  /\ server' = [server EXCEPT ![p] = offered[p]]
  /\ UNCHANGED <<offered, client, spent>>

ClientStart(p) ==
  /\ client = Off /\ offered[p] # NoKey
  /\ client' = [pub |-> p, psk |-> offered[p]]
  /\ UNCHANGED <<offered, server, spent>>

ClientSwitch(p) ==
  /\ RunsAs(p)
  /\ client' = [pub |-> p, psk |-> offered[p]]
  /\ UNCHANGED <<offered, server, spent>>

ClientStop == client' = Off /\ UNCHANGED <<offered, server, spent>>

Next ==
  \/ \E k \in Keys : Lose(k)
  \/ \E p \in Peers, k \in Keys : Admit(p, k) \/ Offer(p, k)
  \/ \E p \in Peers : ServerSwitch(p) \/ ClientStart(p) \/ ClientSwitch(p)
  \/ ClientStop

Spec == Init /\ [][Next]_vars

------------------------------------------------------------------------------
\* The keys of p at either end, used or about to be.
KeysOf(p) ==
  {offered[p], server[p]} \cup (IF RunsAs(p) THEN {client.psk} ELSE {})

\* No key is ever at work for two peers.
KeyOfOne == \A p, q \in Peers : p # q => KeysOf(p) \cap KeysOf(q) \subseteq {NoKey}

KInv ==
  /\ offered \in [Peers -> Keys \cup {NoKey}] /\ server \in [Peers -> Keys \cup {NoKey}]
  /\ \A p \in Peers : KeysOf(p) \subseteq spent \cup {NoKey}
  /\ KeyOfOne

LEMMA InitKInv == Init => KInv
BY DEF Init, KInv, KeyOfOne, KeysOf, RunsAs

\* A peer gets a key nobody had, ...
LEMMA NewKey ==
  ASSUME KInv, NEW p \in Peers, NEW k \in Keys, Admit(p, k) \/ Offer(p, k) PROVE KInv'
<1>1. /\ k \notin spent /\ spent' = spent \cup {k} /\ client' = client
      /\ offered' = [offered EXCEPT ![p] = k]
      /\ server' = server \/ server' = [server EXCEPT ![p] = k]
  BY DEF Admit, Offer, Spend
<1>2. /\ offered' \in [Peers -> Keys \cup {NoKey}] /\ server' \in [Peers -> Keys \cup {NoKey}]
      /\ offered'[p] = k /\ server'[p] \in {server[p], k}
      /\ \A q \in Peers \ {p} : offered'[q] = offered[q] /\ server'[q] = server[q]
  BY <1>1 DEF KInv
<1>3. KeysOf(p)' \subseteq KeysOf(p) \cup {k}
  BY <1>1, <1>2 DEF KeysOf, RunsAs
<1>4. \A q \in Peers \ {p} : KeysOf(q)' = KeysOf(q)
  BY <1>1, <1>2 DEF KeysOf, RunsAs
<1>5. \A q \in Peers : KeysOf(q)' \subseteq spent' \cup {NoKey}
  BY <1>1, <1>3, <1>4 DEF KInv
<1>6. \A q \in Peers \ {p} : KeysOf(p)' \cap KeysOf(q)' \subseteq {NoKey}
  <2> SUFFICES ASSUME NEW q \in Peers \ {p} PROVE KeysOf(p)' \cap KeysOf(q)' \subseteq {NoKey}
    OBVIOUS
  <2>1. KeysOf(p) \cap KeysOf(q) \subseteq {NoKey} /\ KeysOf(q) \subseteq spent \cup {NoKey}
    BY DEF KInv, KeyOfOne
  <2> QED BY <1>1, <1>3, <1>4, <2>1
<1>7. KeyOfOne'
  BY <1>4, <1>6 DEF KInv, KeyOfOne
<1> QED BY <1>2, <1>5, <1>7 DEF KInv

\* ... and nothing else brings a key to a peer.
LEMMA StepKInv == KInv /\ [Next]_vars => KInv'
<1> SUFFICES ASSUME KInv, [Next]_vars PROVE KInv'
  OBVIOUS
<1>1. ASSUME offered' = offered, server' \in [Peers -> Keys \cup {NoKey}],
             spent \subseteq spent', \A p \in Peers : KeysOf(p)' \subseteq KeysOf(p)
      PROVE  KInv'
  <2>1. \A p \in Peers : KeysOf(p)' \subseteq spent' \cup {NoKey}
    BY <1>1 DEF KInv
  <2>2. KeyOfOne'
    BY <1>1 DEF KInv, KeyOfOne
  <2> QED BY <1>1, <2>1, <2>2 DEF KInv
<1>2. ASSUME NEW k \in Keys, Lose(k) PROVE KInv'
  BY <1>1, <1>2 DEF Lose, Spend, KInv, KeysOf, RunsAs
<1>3. ASSUME NEW p \in Peers, ServerSwitch(p) PROVE KInv'
  <2>1. /\ server' = [server EXCEPT ![p] = offered[p]] /\ UNCHANGED <<offered, client, spent>>
        /\ offered[p] \in Keys \cup {NoKey}
    BY <1>3 DEF ServerSwitch, KInv
  <2>2. /\ server' \in [Peers -> Keys \cup {NoKey}] /\ server'[p] = offered[p]
        /\ \A q \in Peers \ {p} : server'[q] = server[q]
    BY <2>1 DEF KInv
  <2>3. \A q \in Peers : KeysOf(q)' \subseteq KeysOf(q)
    BY <2>1, <2>2 DEF KeysOf, RunsAs
  <2> QED BY <1>1, <2>1, <2>2, <2>3
<1>4. ASSUME NEW p \in Peers, ClientStart(p) \/ ClientSwitch(p) PROVE KInv'
  <2>1. client' = [pub |-> p, psk |-> offered[p]] /\ UNCHANGED <<offered, server, spent>>
    BY <1>4 DEF ClientStart, ClientSwitch
  <2>2. client'.pub = p /\ client'.psk = offered[p]
    BY <2>1
  <2>3. \A q \in Peers : KeysOf(q)' \subseteq KeysOf(q)
    BY <2>1, <2>2 DEF KeysOf, RunsAs
  <2> QED BY <1>1, <2>1, <2>3 DEF KInv
<1>5. CASE ClientStop
  BY <1>1, <1>5 DEF ClientStop, KInv, KeysOf, RunsAs
<1>6. CASE UNCHANGED vars
  BY <1>1, <1>6 DEF vars, KInv, KeysOf, RunsAs
<1> QED BY NewKey, <1>2, <1>3, <1>4, <1>5, <1>6 DEF Next

\* Whoever implements Rekeying never has one key at work for two peers.
THEOREM KeyOfOneAlways == Spec => []KeyOfOne
<1>1. KInv => KeyOfOne
  BY DEF KInv
<1> QED BY <1>1, InitKInv, StepKInv, PTL DEF Spec
==============================================================================
