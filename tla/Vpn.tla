--------------------------------- MODULE Vpn ---------------------------------
(***************************************************************************)
(* The VPN control server (qkd_ekm/vpn/app.py): peer records in memory and *)
(* in peers.json, the WireGuard peers in the kernel, the scheduled PSK     *)
(* activations and the refresh timers.                                     *)
(*                                                                         *)
(* The event loop runs one thing at a time.  A handler gives way only      *)
(* while the EKM is asked for a key (new_key): `calls` holds the requests  *)
(* waiting there, any number of them, even for one peer.  What follows the *)
(* await, and a timer or an activation that fires, runs without a break,   *)
(* unless the process dies in the middle of it.                            *)
(*                                                                         *)
(* Requests are numbered as they arrive.  The EKM answers each with a key  *)
(* nobody else has (KeyLedger), so a key is known by the number of the     *)
(* request it was drawn for.  Delays are not timed: an activation or a     *)
(* timer fires at some moment after it was scheduled.                      *)
(***************************************************************************)
EXTENDS Integers, FiniteSets

CONSTANTS
  PublicKeys,     \* WireGuard public keys of clients
  NumAddresses,   \* client addresses in VPN_TUNNEL_CIDR
  Faults,         \* what may go wrong: see FaultKinds
  MaxRequests,    \* bound: requests that reach the EKM in one behaviour
  MaxCrashes      \* bound: restarts and reboots in one behaviour

\* The EKM answers no key; a `wg` command fails; peers.json cannot be written; the
\* process restarts; the machine reboots.  The rest is of the client (VpnTunnel).
FaultKinds == {"ekm", "wg", "save", "restart", "reboot",
               "lost", "qkd", "kill", "giveup", "wgclient", "clientreboot"}

ASSUME VpnAssumption ==
  /\ NumAddresses \in Nat /\ MaxRequests \in Nat /\ MaxCrashes \in Nat
  /\ Faults \subseteq FaultKinds

VARIABLES
  asked,        \* requests so far
  calls,        \* requests waiting for the EKM: [no, op, pub]
  peers,        \* PeerFile.peers, in memory
  saved,        \* peers.json
  wg,           \* the kernel's peers: PSK and allowed address
  activations,  \* activations[p]: keys scheduled to be installed for p
  timers,       \* timers[p]: the refresh timer of p is running
  crashes,
  replies       \* history: successful answers sent: [no, op, pub, ip]

diskVars == <<saved, wg>>
taskVars == <<activations, timers>>
vars == <<asked, calls, peers, diskVars, taskVars, crashes, replies>>

Addresses == 1..NumAddresses
Keys == 1..MaxRequests
NoRecord == [ip |-> 0, key |-> 0, due |-> FALSE]
NoPeer == [psk |-> 0, ip |-> 0]

Init ==
  /\ asked = 0 /\ calls = {} /\ crashes = 0 /\ replies = {}
  /\ peers = [p \in PublicKeys |-> NoRecord] /\ saved = peers
  /\ wg = [p \in PublicKeys |-> NoPeer]
  /\ activations = [p \in PublicKeys |-> {}]
  /\ timers = [p \in PublicKeys |-> FALSE]

Fault(f) == f \in Faults

------------------------------------------------------------------------------
(* Requests, up to the await in new_key.                                    *)

Ask(op, p) ==
  /\ asked < MaxRequests
  /\ asked' = asked + 1
  /\ calls' = calls \cup {[no |-> asked', op |-> op, pub |-> p]}
  /\ UNCHANGED <<peers, diskVars, taskVars, crashes, replies>>

\* POST /api/start_connection.
StartRequest(p) == Ask("start", p)

\* Mutant of RefreshRequest: the peer's record is not looked for.
RefreshRequestUnchecked(p) == Ask("refresh", p)

\* POST /api/refresh_connection; an unknown peer is a 404 and changes nothing.
RefreshRequest(p) == peers[p] # NoRecord /\ Ask("refresh", p)

\* EKM unreachable, or it answers an error: 503.
EkmFails(c) ==
  /\ Fault("ekm")
  /\ calls' = calls \ {c}
  /\ UNCHANGED <<asked, peers, diskVars, taskVars, crashes, replies>>

------------------------------------------------------------------------------
(* apply_key and what it rests on.                                          *)

Free == Addresses \ {peers[q].ip : q \in PublicKeys}

\* record_for: the peer's address, or allocate_ip()'s first free host.
AddressFor(p, a) ==
  IF peers[p] # NoRecord THEN a = peers[p].ip ELSE a \in Free /\ \A b \in Free : a <= b

\* `wg set peer p preshared-key k allowed-ips a/32`: the kernel routes an address
\* to one peer, so it leaves the peer that had it.
SetPeer(p, k, a) ==
  wg' = [q \in PublicKeys |->
           IF q = p THEN [psk |-> k, ip |-> a]
           ELSE IF wg[q].ip = a THEN [wg[q] EXCEPT !.ip = 0] ELSE wg[q]]

SetRecord(p, k, a) == peers' = [peers EXCEPT ![p] = [ip |-> a, key |-> k, due |-> FALSE]]

Save == saved' = peers'

\* One timer per peer: a running one is cancelled and started afresh.
ArmRefreshTimer(p) == timers' = [timers EXCEPT ![p] = TRUE]

\* peers.save() raises: the kernel and the record in memory have changed.
ApplyUnsaved(p, k, a) ==
  /\ Fault("save")
  /\ SetPeer(p, k, a) /\ SetRecord(p, k, a)
  /\ UNCHANGED <<saved, timers>>

\* Mutant of ApplyKey: the record is written to peers.json before it is changed.
ApplyKeySavedEarly(p, k, a) ==
  /\ saved' = peers
  /\ SetPeer(p, k, a) /\ SetRecord(p, k, a)
  /\ ArmRefreshTimer(p)

\* Mutant of ApplyKey: peers.json is written for a new peer only.
ApplyKeySavedOnce(p, k, a) ==
  /\ SetPeer(p, k, a) /\ SetRecord(p, k, a)
  /\ saved' = IF peers[p] = NoRecord THEN peers' ELSE saved
  /\ ArmRefreshTimer(p)

\* Mutant of ApplyKey: the refresh timer is left to run out.
ApplyKeyUntimed(p, k, a) ==
  /\ SetPeer(p, k, a) /\ SetRecord(p, k, a)
  /\ Save /\ UNCHANGED timers

ApplyKey(p, k, a) ==
  /\ SetPeer(p, k, a) /\ SetRecord(p, k, a)
  /\ Save /\ ArmRefreshTimer(p)

------------------------------------------------------------------------------
(* start_connection, after the await.                                       *)

StartWaits(c) == c \in calls /\ c.op = "start"

Return(c) == calls' = calls \ {c}

\* A refresh is answered with the key's id and effective_time, without an address.
Reply(c, a) == replies' = replies \cup {[no |-> c.no, op |-> c.op, pub |-> c.pub, ip |-> a]}

\* Every address is taken: 503.
StartNoAddress(c) ==
  /\ StartWaits(c) /\ peers[c.pub] = NoRecord /\ Free = {}
  /\ Return(c)
  /\ UNCHANGED <<asked, peers, diskVars, taskVars, crashes, replies>>

\* Mutant of StartRefused: the record is dropped whether or not this call made it.
StartRefusedDropped(c) ==
  /\ StartWaits(c) /\ Fault("wg")
  /\ \E a \in Addresses : AddressFor(c.pub, a)
  /\ Return(c)
  /\ peers' = [peers EXCEPT ![c.pub] = NoRecord]
  /\ UNCHANGED <<asked, diskVars, taskVars, crashes, replies>>

\* Mutant of StartRefused: the record of a new peer stays behind.
StartRefusedHeld(c) ==
  /\ StartWaits(c) /\ Fault("wg")
  /\ \E a \in Addresses :
       /\ AddressFor(c.pub, a)
       /\ peers' = [peers EXCEPT ![c.pub].ip = a]
  /\ Return(c)
  /\ UNCHANGED <<asked, diskVars, taskVars, crashes, replies>>

\* `wg set` fails: a new record is taken back, an old one is as it was; 500.
StartRefused(c) ==
  /\ StartWaits(c) /\ Fault("wg")
  /\ \E a \in Addresses : AddressFor(c.pub, a)
  /\ Return(c)
  /\ UNCHANGED <<asked, peers, diskVars, taskVars, crashes, replies>>

\* 500 after the kernel and the record in memory have changed.
StartUnsaved(c) ==
  /\ StartWaits(c)
  /\ \E a \in Addresses : AddressFor(c.pub, a) /\ ApplyUnsaved(c.pub, c.no, a)
  /\ Return(c)
  /\ UNCHANGED <<asked, activations, crashes, replies>>

\* `wg show public-key`, run for the answer, may still fail: 500.
StartApplied(c) ==
  /\ StartWaits(c)
  /\ \E a \in Addresses :
       /\ AddressFor(c.pub, a)
       /\ ApplyKey(c.pub, c.no, a)
       /\ Reply(c, a) \/ (Fault("wg") /\ UNCHANGED replies)
  /\ Return(c)
  /\ UNCHANGED <<asked, activations, crashes>>

------------------------------------------------------------------------------
(* refresh_connection, after the await; activation; the refresh timer.      *)

\* Mutant of Schedule: an activation not yet fired is kept, the new one dropped.
ScheduleFirst(p, k) ==
  activations' = [activations EXCEPT ![p] = IF @ = {} THEN {k} ELSE @]

\* Mutant of Schedule: the activation not yet fired is not cancelled.
ScheduleBoth(p, k) == activations' = [activations EXCEPT ![p] = @ \cup {k}]

\* A pending activation is cancelled, the new one scheduled.
Schedule(p, k) == activations' = [activations EXCEPT ![p] = {k}]

RefreshScheduled(c) ==
  /\ c \in calls /\ c.op = "refresh"
  /\ Schedule(c.pub, c.no)
  /\ Reply(c, 0)
  /\ Return(c)
  /\ UNCHANGED <<asked, peers, diskVars, timers, crashes>>

Fire(p, k) == k \in activations[p] /\ activations' = [activations EXCEPT ![p] = @ \ {k}]

\* activate() logs a failure and ends.
ActivateRefused(p, k) ==
  /\ Fire(p, k) /\ Fault("wg")
  /\ UNCHANGED <<asked, calls, peers, diskVars, timers, crashes, replies>>

ActivateUnsaved(p, k) ==
  /\ Fire(p, k)
  /\ ApplyUnsaved(p, k, peers[p].ip)
  /\ UNCHANGED <<asked, calls, crashes, replies>>

Activate(p, k) ==
  /\ Fire(p, k)
  /\ ApplyKey(p, k, peers[p].ip)
  /\ UNCHANGED <<asked, calls, crashes, replies>>

TimerDue(p) ==
  /\ timers[p]
  /\ timers' = [timers EXCEPT ![p] = FALSE]
  /\ peers' = [peers EXCEPT ![p].due = TRUE]
  /\ Save \/ (Fault("save") /\ UNCHANGED saved)
  /\ UNCHANGED <<asked, calls, wg, activations, crashes, replies>>

------------------------------------------------------------------------------
\* The process dies with `disk` in peers.json and starts again: create_app() loads it;
\* the tasks and the requests in progress are gone.
Crash(disk) ==
  /\ crashes < MaxCrashes
  /\ crashes' = crashes + 1
  /\ peers' = disk /\ saved' = disk /\ calls' = {}
  /\ activations' = [p \in PublicKeys |-> {}]
  /\ timers' = [p \in PublicKeys |-> FALSE]
  /\ UNCHANGED <<asked, replies>>

\* ensure_interface() makes a new wg0, without peers.
ClearPeers == wg' = [p \in PublicKeys |-> NoPeer]

\* wg0 exists already and keeps its peers.
Restart == Fault("restart") /\ Crash(saved) /\ UNCHANGED wg

Reboot == Fault("reboot") /\ Crash(saved) /\ ClearPeers

\* The process dies after `wg set`, before peers.json is replaced or after it; the machine
\* goes down after that (before it, nothing is left of apply_key).
ApplyDies(p, k, a) ==
  LET written == [peers EXCEPT ![p] = [ip |-> a, key |-> k, due |-> FALSE]]
  IN  \/ /\ Fault("restart") /\ SetPeer(p, k, a)
         /\ \E disk \in {saved, written} : Crash(disk)
      \/ Fault("reboot") /\ Crash(written) /\ ClearPeers

StartDies(c) ==
  StartWaits(c) /\ \E a \in Addresses : AddressFor(c.pub, a) /\ ApplyDies(c.pub, c.no, a)

ActivateDies(p, k) == k \in activations[p] /\ ApplyDies(p, k, peers[p].ip)

\* What the server does by itself once asked.
ServerStep ==
  \/ \E c \in calls : EkmFails(c) \/ StartNoAddress(c) \/ StartRefused(c)
                      \/ StartUnsaved(c) \/ StartApplied(c) \/ StartDies(c)
                      \/ RefreshScheduled(c)
  \/ \E p \in PublicKeys, k \in Keys :
       ActivateRefused(p, k) \/ ActivateUnsaved(p, k) \/ Activate(p, k) \/ ActivateDies(p, k)
  \/ \E p \in PublicKeys : TimerDue(p)
  \/ Restart \/ Reboot

Next == (\E p \in PublicKeys : StartRequest(p) \/ RefreshRequest(p)) \/ ServerStep

Spec == Init /\ [][Next]_vars

------------------------------------------------------------------------------
(* Properties.                                                              *)

Record == [ip : Addresses, key : 0..MaxRequests, due : BOOLEAN]
Answer ==
  [no : Keys, op : {"start", "refresh"}, pub : PublicKeys, ip : 0..NumAddresses]

\* Every variable keeps its shape: a peer without an address has no record at all
\* (refresh_connection, record_for).
TypeOK ==
  /\ asked \in 0..MaxRequests /\ crashes \in 0..MaxCrashes
  /\ calls \subseteq [no : Keys, op : {"start", "refresh"}, pub : PublicKeys]
  /\ peers \in [PublicKeys -> Record \cup {NoRecord}]
  /\ saved \in [PublicKeys -> Record \cup {NoRecord}]
  /\ wg \in [PublicKeys -> [psk : 0..MaxRequests, ip : 0..NumAddresses]]
  /\ activations \in [PublicKeys -> SUBSET Keys]
  /\ timers \in [PublicKeys -> BOOLEAN]
  /\ replies \subseteq Answer

\* An address a client was told stays its own: in memory, in peers.json and in the
\* kernel, through refused `wg set`s, failed saves, restarts and reboots, whoever
\* else connects (record_for, apply_key; test_vpn.py checks one restart).
AddressKept ==
  \A r \in {r \in replies : r.op = "start"} :
    /\ peers[r.pub].ip = r.ip /\ saved[r.pub].ip = r.ip
    /\ wg[r.pub] # NoPeer => wg[r.pub].ip = r.ip
    /\ \A q \in PublicKeys \ {r.pub} :
         peers[q].ip # r.ip /\ saved[q].ip # r.ip /\ wg[q].ip # r.ip

\* peers.json holds only peers WireGuard accepted: a refused peer is not written by
\* the save of another one, nor found after a restart, and its address is free
\* (record_for: "cannot burn a tunnel address or resurrect a half-configured peer").
NoHalfConfiguredPeer ==
  \A p \in PublicKeys : peers[p] # NoRecord \/ saved[p] # NoRecord =>
    peers[p].key # 0 /\ (wg[p] # NoPeer \/ crashes > 0)

\* /api/status names the key the kernel uses for p.
Tells(p) == peers[p] # NoRecord /\ wg[p] # NoPeer => wg[p].psk = peers[p].key

\* preshared_key_id in /api/status is the PSK of the peer, through refused commands,
\* racing requests and restarts, where peers.json can be written.  A death of the process
\* between `wg set` and peers.save() costs the status of that one peer, no more, until
\* its next key is applied (apply_key, PeerFile).
StatusTellsPsk == Cardinality({p \in PublicKeys : ~Tells(p)}) <= crashes

\* docs/architecture.md section 6: the VPN refresh timer runs per peer and flags
\* refresh_due, so a configured peer is flagged in the end, over and over.
RefreshFlagged ==
  \A p \in PublicKeys : peers[p] # NoRecord ~> peers[p].due
==============================================================================
