----------------------------- MODULE KeyLedger -----------------------------
(***************************************************************************)
(* What the EKM promises its callers about QKD units, with no pool, no     *)
(* handlers, no database and no failures: an external key is given one     *)
(* unit, once and for ever; everything wrapped with it is wrapped with     *)
(* that unit; a caller of /api/{peer}/new gets a unit nobody else has.     *)
(* Ekm implements this specification (Ekm!LedgerSpec).                     *)
(***************************************************************************)
EXTENDS Integers

CONSTANTS
  Units,      \* unit ids, positive
  Objects,    \* external key paths
  Peers       \* QKD peers

VARIABLES
  kek,        \* kek[o]: the unit external key o is tied to, NoKey if none yet
  blobs,      \* what Cloud KMS was given
  delivered   \* what the callers of /api/{peer}/new were given

NoKey == 0
vars == <<kek, blobs, delivered>>

Spent(k) == (\E o \in Objects : kek[o] = k) \/ (\E d \in delivered : d.key = k)

Init == kek = [o \in Objects |-> NoKey] /\ blobs = {} /\ delivered = {}

TieKey(o, k) ==
  /\ kek[o] = NoKey /\ ~Spent(k)
  /\ kek' = [kek EXCEPT ![o] = k]
  /\ UNCHANGED <<blobs, delivered>>

WrapUnder(o) ==
  /\ kek[o] # NoKey
  /\ blobs' = blobs \cup {[obj |-> o, key |-> kek[o]]}
  /\ UNCHANGED <<kek, delivered>>

Deliver(k, purpose, p) ==
  /\ ~Spent(k)
  /\ delivered' = delivered \cup {[key |-> k, purpose |-> purpose, peer |-> p]}
  /\ UNCHANGED <<kek, blobs>>

Next ==
  \/ \E o \in Objects, k \in Units : TieKey(o, k)
  \/ \E o \in Objects : WrapUnder(o)
  \/ \E k \in Units, purpose \in {"vpn", "file"}, p \in Peers : Deliver(k, purpose, p)

Spec == Init /\ [][Next]_vars
=============================================================================
