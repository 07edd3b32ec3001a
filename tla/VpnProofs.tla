------------------------------ MODULE VpnProofs ------------------------------
(***************************************************************************)
(* Proofs about Vpn, for any public keys, address range, faults and bounds. *)
(*                                                                         *)
(* The records in memory, the records on disk and the kernel's peers are    *)
(* three copies of one assignment of addresses, and drift apart at failed   *)
(* saves, refused commands and crashes.  IInv says how far they can: what   *)
(* is saved is held (SavedIsHeld), nobody shares a held address, in memory  *)
(* (OwnAddress) or in the kernel (OwnRoute), and an address that was told   *)
(* is saved (ToldIsSaved).                                                  *)
(***************************************************************************)
EXTENDS Vpn, FiniteSetTheorems, TLAPS

SavedIsHeld == \A p \in PublicKeys : saved[p].ip # 0 => peers[p].ip = saved[p].ip

OwnAddress ==
  \A p, q \in PublicKeys : p # q /\ peers[p].ip # 0 => peers[q].ip # peers[p].ip

OwnRoute ==
  \A p \in PublicKeys : peers[p].ip # 0 =>
    /\ wg[p] = NoPeer \/ wg[p].ip = peers[p].ip
    /\ \A q \in PublicKeys \ {p} : wg[q].ip # peers[p].ip

ToldIsSaved ==
  \A r \in replies : r.op = "start" => r.ip # 0 /\ saved[r.pub].ip = r.ip

Accepted ==
  \A p \in PublicKeys :
    /\ peers[p].ip # 0 => peers[p].key # 0 /\ (wg[p].psk # 0 \/ crashes > 0)
    /\ saved[p].ip # 0 => saved[p].key # 0

\* Only peers with a record are refreshed, re-keyed or timed.
Known ==
  /\ \A c \in calls : c.op = "refresh" => peers[c.pub].ip # 0
  /\ \A p \in PublicKeys : activations[p] # {} \/ timers[p] => peers[p].ip # 0

IInv ==
  TypeOK /\ SavedIsHeld /\ OwnAddress /\ OwnRoute /\ ToldIsSaved /\ Accepted /\ Known

\* A record is missing exactly when it has no address.
LEMMA RecordShape ==
  ASSUME NEW r \in Record \cup {NoRecord}
  PROVE  /\ r = NoRecord <=> r.ip = 0
         /\ r.ip \in 0..NumAddresses /\ r.key \in 0..MaxRequests /\ r.due \in BOOLEAN
         /\ r.ip # 0 => r \in Record
<1>1. CASE r = NoRecord
  BY <1>1, VpnAssumption DEF NoRecord
<1>2. CASE r \in Record
  <2>1. r.ip \in 1..NumAddresses /\ r.key \in 0..MaxRequests /\ r.due \in BOOLEAN
    BY <1>2 DEF Record, Addresses
  <2>2. NoRecord.ip = 0
    BY DEF NoRecord
  <2>3. r.ip # 0 /\ r.ip \in 0..NumAddresses
    BY <2>1, VpnAssumption
  <2>4. r # NoRecord
    BY <2>2, <2>3
  <2> QED BY <1>2, <2>1, <2>3, <2>4
<1> QED BY <1>1, <1>2

LEMMA InitHolds == Init => IInv
  BY VpnAssumption, RecordShape
  DEF Init, IInv, TypeOK, SavedIsHeld, OwnAddress, OwnRoute, ToldIsSaved, Accepted, Known,
      NoRecord, NoPeer, Record

\* A step that leaves records, kernel and disk alone keeps IInv.
LEMMA QuietStep ==
  ASSUME IInv, TypeOK', UNCHANGED <<peers, diskVars, crashes>>,
         \A r \in replies' : r \in replies \/ r.op # "start",
         Known'
  PROVE  IInv'
  BY DEF IInv, SavedIsHeld, OwnAddress, OwnRoute, ToldIsSaved, Accepted, diskVars, NoPeer

\* What `wg set` does to one peer and leaves to the others.
LEMMA PeerSet ==
  ASSUME IInv, NEW p \in PublicKeys, NEW k \in Keys, NEW a \in Addresses, SetPeer(p, k, a)
  PROVE  /\ wg' \in [PublicKeys -> [psk : 0..MaxRequests, ip : 0..NumAddresses]]
         /\ wg'[p].ip = a /\ wg'[p].psk = k
         /\ \A q \in PublicKeys \ {p} :
              /\ wg'[q].psk = wg[q].psk
              /\ wg'[q].ip = IF wg[q].ip = a THEN 0 ELSE wg[q].ip
              /\ wg[q] = NoPeer => wg'[q] = NoPeer
<1>1. [psk |-> k, ip |-> a] \in [psk : 0..MaxRequests, ip : 0..NumAddresses]
  BY VpnAssumption DEF Keys, Addresses
<1>2. \A q \in PublicKeys :
        [wg[q] EXCEPT !.ip = 0] \in [psk : 0..MaxRequests, ip : 0..NumAddresses]
  BY VpnAssumption DEF IInv, TypeOK
<1>3. wg \in [PublicKeys -> [psk : 0..MaxRequests, ip : 0..NumAddresses]]
  BY DEF IInv, TypeOK
<1>4. wg' \in [PublicKeys -> [psk : 0..MaxRequests, ip : 0..NumAddresses]]
  BY <1>1, <1>2, <1>3 DEF SetPeer
<1>5. wg'[p] = [psk |-> k, ip |-> a]
  BY DEF SetPeer
<1>6. \A q \in PublicKeys \ {p} :
        wg'[q] = IF wg[q].ip = a THEN [wg[q] EXCEPT !.ip = 0] ELSE wg[q]
  BY DEF SetPeer
<1>7. ASSUME NEW q \in PublicKeys \ {p}
      PROVE  /\ wg'[q].psk = wg[q].psk
             /\ wg'[q].ip = IF wg[q].ip = a THEN 0 ELSE wg[q].ip
             /\ wg[q] = NoPeer => wg'[q] = NoPeer
  <2>1. wg[q] \in [psk : 0..MaxRequests, ip : 0..NumAddresses]
    BY <1>3
  <2>2. CASE wg[q].ip = a
    <3>1. wg'[q] = [wg[q] EXCEPT !.ip = 0]
      BY <1>6, <2>2
    <3>2. a # 0
      BY VpnAssumption DEF Addresses
    <3> QED BY <3>1, <3>2, <2>1, <2>2 DEF NoPeer
  <2>3. CASE wg[q].ip # a
    BY <1>6, <2>3
  <2> QED BY <2>2, <2>3
<1> QED BY <1>4, <1>5, <1>7

\* ... and the record with it.
LEMMA Applied ==
  ASSUME IInv, NEW p \in PublicKeys, NEW k \in Keys, NEW a \in Addresses,
         SetPeer(p, k, a), SetRecord(p, k, a)
  PROVE  /\ peers' \in [PublicKeys -> Record \cup {NoRecord}]
         /\ wg' \in [PublicKeys -> [psk : 0..MaxRequests, ip : 0..NumAddresses]]
         /\ peers'[p].ip = a /\ peers'[p].key = k
         /\ wg'[p].ip = a /\ wg'[p].psk = k
         /\ \A q \in PublicKeys \ {p} :
              /\ peers'[q] = peers[q]
              /\ wg'[q].psk = wg[q].psk
              /\ wg'[q].ip = IF wg[q].ip = a THEN 0 ELSE wg[q].ip
              /\ wg[q] = NoPeer => wg'[q] = NoPeer
<1>1. [ip |-> a, key |-> k, due |-> FALSE] \in Record
  BY VpnAssumption DEF Record, Keys, Addresses
<1>2. /\ peers' \in [PublicKeys -> Record \cup {NoRecord}]
      /\ peers'[p] = [ip |-> a, key |-> k, due |-> FALSE]
      /\ \A q \in PublicKeys \ {p} : peers'[q] = peers[q]
  BY <1>1 DEF SetRecord, IInv, TypeOK
<1> QED BY <1>2, PeerSet

\* AddressFor gives a peer its own address or one nobody holds.
LEMMA AddressIsOwn ==
  ASSUME IInv, NEW p \in PublicKeys, NEW a \in Addresses, AddressFor(p, a)
  PROVE  /\ peers[p].ip # 0 => a = peers[p].ip
         /\ \A q \in PublicKeys \ {p} : peers[q].ip # a
<1>1. a # 0
  BY VpnAssumption DEF Addresses
<1>2. peers[p] \in Record \cup {NoRecord}
  BY DEF IInv, TypeOK
<1>3. CASE peers[p] # NoRecord
  BY <1>1, <1>2, <1>3, RecordShape DEF AddressFor, IInv, OwnAddress
<1>4. CASE peers[p] = NoRecord
  BY <1>1, <1>2, <1>4, RecordShape DEF AddressFor, Free
<1> QED BY <1>3, <1>4

\* Setting the key of a peer, with its own address or a free one, keeps IInv, saved
\* or not, as long as an address is only told after it was saved.
LEMMA ApplyStep ==
  ASSUME IInv, NEW p \in PublicKeys, NEW k \in Keys, NEW a \in Addresses,
         peers[p].ip # 0 => a = peers[p].ip,
         \A q \in PublicKeys \ {p} : peers[q].ip # a,
         SetPeer(p, k, a), SetRecord(p, k, a),
         \/ saved' = peers'
         \/ saved' = saved /\ replies' = replies,
         \A r \in replies' : r \in replies \/ (r.pub = p /\ r.ip = a),
         crashes' = crashes, calls' \subseteq calls, replies' \subseteq Answer,
         asked' = asked,
         timers' \in [PublicKeys -> BOOLEAN],
         \A q \in PublicKeys \ {p} : timers'[q] = timers[q],
         activations' \in [PublicKeys -> SUBSET Keys],
         \A q \in PublicKeys : activations'[q] \subseteq activations[q]
  PROVE  IInv'
<1>0. a # 0 /\ k # 0
  BY VpnAssumption DEF Addresses, Keys
<1>1. /\ peers' \in [PublicKeys -> Record \cup {NoRecord}]
      /\ wg' \in [PublicKeys -> [psk : 0..MaxRequests, ip : 0..NumAddresses]]
      /\ peers'[p].ip = a /\ peers'[p].key = k
      /\ wg'[p].ip = a /\ wg'[p].psk = k
  BY Applied
<1>2. \A q \in PublicKeys \ {p} :
        /\ peers'[q] = peers[q]
        /\ wg'[q].psk = wg[q].psk
        /\ wg'[q].ip = IF wg[q].ip = a THEN 0 ELSE wg[q].ip
        /\ wg[q] = NoPeer => wg'[q] = NoPeer
  BY Applied
<1>3. saved' \in [PublicKeys -> Record \cup {NoRecord}]
  BY <1>1 DEF IInv, TypeOK
<1>4. TypeOK'
  BY <1>1, <1>3 DEF IInv, TypeOK
<1>5. SavedIsHeld'
  BY <1>1, <1>2 DEF IInv, SavedIsHeld
<1>6. OwnAddress'
  BY <1>0, <1>1, <1>2 DEF IInv, OwnAddress
<1>7. OwnRoute'
  <2> SUFFICES ASSUME NEW q \in PublicKeys, peers'[q].ip # 0
               PROVE  /\ wg'[q] = NoPeer \/ wg'[q].ip = peers'[q].ip
                      /\ \A s \in PublicKeys \ {q} : wg'[s].ip # peers'[q].ip
    BY DEF OwnRoute, NoPeer
  <2>1. CASE q = p
    BY <1>0, <1>1, <1>2, <2>1
  <2>2. CASE q # p
    <3>1. /\ wg[q] = NoPeer \/ wg[q].ip = peers[q].ip
          /\ \A s \in PublicKeys \ {q} : wg[s].ip # peers[q].ip
          /\ peers'[q].ip = peers[q].ip /\ peers[q].ip # a
      BY <1>2, <2>2 DEF IInv, OwnRoute
    <3> QED BY <3>1, <1>0, <1>1, <1>2, <2>2
  <2> QED BY <2>1, <2>2
<1>8. ToldIsSaved'
  <2> SUFFICES ASSUME NEW r \in replies', r.op = "start"
               PROVE  r.ip # 0 /\ saved'[r.pub].ip = r.ip
    BY DEF ToldIsSaved
  <2>1. CASE r \in replies
    <3>1. r.pub \in PublicKeys /\ r.ip # 0 /\ saved[r.pub].ip = r.ip
      BY <2>1 DEF IInv, ToldIsSaved, TypeOK, Answer
    <3>2. peers[r.pub].ip = r.ip
      BY <3>1 DEF IInv, SavedIsHeld
    <3> QED BY <1>1, <1>2, <3>1, <3>2
  <2>2. CASE r \notin replies
    BY <1>0, <1>1, <2>2
  <2> QED BY <2>1, <2>2
<1>9. Accepted'
  BY <1>0, <1>1, <1>2 DEF IInv, Accepted
<1>10. Known'
  <2>1. \A q \in PublicKeys : peers[q].ip # 0 => peers'[q].ip # 0
    BY <1>0, <1>1, <1>2
  <2>2. \A c \in calls : c.pub \in PublicKeys
    BY DEF IInv, TypeOK
  <2> QED BY <1>0, <1>1, <2>1, <2>2 DEF IInv, Known
<1> QED BY <1>4, <1>5, <1>6, <1>7, <1>8, <1>9, <1>10 DEF IInv

\* refresh_due changes, addresses and keys do not.
LEMMA TimerStep == ASSUME IInv, NEW p \in PublicKeys, TimerDue(p) PROVE IInv'
<1>1. peers \in [PublicKeys -> Record \cup {NoRecord}] /\ peers[p].ip # 0
  BY DEF IInv, TypeOK, Known, TimerDue
<1>2. peers[p] \in Record
  BY <1>1, RecordShape
<1>3. [peers[p] EXCEPT !.due = TRUE] \in Record
  BY <1>2 DEF Record
<1>4. /\ peers' \in [PublicKeys -> Record \cup {NoRecord}]
      /\ peers'[p] = [peers[p] EXCEPT !.due = TRUE]
      /\ \A q \in PublicKeys \ {p} : peers'[q] = peers[q]
  BY <1>1, <1>3 DEF TimerDue
<1>5. \A q \in PublicKeys : peers'[q].ip = peers[q].ip /\ peers'[q].key = peers[q].key
  BY <1>2, <1>4 DEF Record
<1>6. saved' = peers' \/ saved' = saved
  BY DEF TimerDue, Save
<1>7. UNCHANGED <<asked, calls, wg, activations, crashes, replies>>
  BY DEF TimerDue
<1>8. timers' \in [PublicKeys -> BOOLEAN] /\ \A q \in PublicKeys : timers'[q] => timers[q]
  BY DEF TimerDue, IInv, TypeOK
<1>9. TypeOK'
  BY <1>4, <1>6, <1>7, <1>8 DEF IInv, TypeOK
<1>10. SavedIsHeld' /\ OwnAddress'
  BY <1>5, <1>6 DEF IInv, SavedIsHeld, OwnAddress
<1>11. OwnRoute'
  BY <1>5, <1>7 DEF IInv, OwnRoute, NoPeer
<1>12. ToldIsSaved'
  <2>1. \A r \in replies : r.pub \in PublicKeys
    BY DEF IInv, TypeOK, Answer
  <2> QED BY <1>5, <1>6, <1>7, <2>1 DEF IInv, ToldIsSaved, SavedIsHeld
<1>13. Accepted'
  BY <1>5, <1>6, <1>7 DEF IInv, Accepted
<1>14. Known'
  <2>1. \A c \in calls : c.pub \in PublicKeys
    BY DEF IInv, TypeOK
  <2> QED BY <1>5, <1>7, <1>8, <2>1 DEF IInv, Known
<1> QED BY <1>9, <1>10, <1>11, <1>12, <1>13, <1>14 DEF IInv

\* After a crash memory holds what is on disk, which must be consistent with what clients
\* were told and with the kernel's peers.
LEMMA CrashStep ==
  ASSUME IInv, NEW disk \in [PublicKeys -> Record \cup {NoRecord}], Crash(disk),
         wg' \in [PublicKeys -> [psk : 0..MaxRequests, ip : 0..NumAddresses]],
         \A p \in PublicKeys : saved[p].ip # 0 => disk[p].ip = saved[p].ip,
         \A p, q \in PublicKeys : p # q /\ disk[p].ip # 0 => disk[q].ip # disk[p].ip,
         \A p \in PublicKeys : disk[p].ip # 0 =>
           /\ disk[p].key # 0
           /\ wg'[p] = NoPeer \/ wg'[p].ip = disk[p].ip
           /\ \A q \in PublicKeys \ {p} : wg'[q].ip # disk[p].ip
  PROVE  IInv'
<1>1. /\ peers' = disk /\ saved' = disk /\ replies' = replies /\ calls' = {}
      /\ activations' = [p \in PublicKeys |-> {}] /\ timers' = [p \in PublicKeys |-> FALSE]
      /\ crashes' \in 0..MaxCrashes /\ crashes' > 0 /\ asked' = asked
  BY VpnAssumption DEF Crash, IInv, TypeOK
<1>2. TypeOK'
  BY <1>1 DEF IInv, TypeOK
<1>3. SavedIsHeld' /\ OwnAddress' /\ Accepted' /\ Known'
  BY <1>1 DEF SavedIsHeld, OwnAddress, Accepted, Known
<1>4. ToldIsSaved'
  <2>1. \A r \in replies : r.pub \in PublicKeys
    BY DEF IInv, TypeOK, Answer
  <2> QED BY <1>1, <2>1 DEF IInv, ToldIsSaved
<1>5. OwnRoute'
  BY <1>1 DEF OwnRoute, NoPeer
<1> QED BY <1>2, <1>3, <1>4, <1>5 DEF IInv

LEMMA RestartStep == ASSUME IInv, Restart \/ Reboot PROVE IInv'
<1>1. NoPeer \in [psk : 0..MaxRequests, ip : 0..NumAddresses] /\ NoPeer.ip = 0
  BY VpnAssumption DEF NoPeer
<1>2. /\ saved \in [PublicKeys -> Record \cup {NoRecord}] /\ Crash(saved)
      /\ wg' = wg \/ wg' = [p \in PublicKeys |-> NoPeer]
      /\ wg' \in [PublicKeys -> [psk : 0..MaxRequests, ip : 0..NumAddresses]]
  BY <1>1 DEF Restart, Reboot, ClearPeers, IInv, TypeOK
<1>3. \A p, q \in PublicKeys : p # q /\ saved[p].ip # 0 => saved[q].ip # saved[p].ip
  BY DEF IInv, SavedIsHeld, OwnAddress
<1>4. ASSUME NEW p \in PublicKeys, saved[p].ip # 0
      PROVE  /\ saved[p].key # 0
             /\ wg'[p] = NoPeer \/ wg'[p].ip = saved[p].ip
             /\ \A q \in PublicKeys \ {p} : wg'[q].ip # saved[p].ip
  <2>1. peers[p].ip = saved[p].ip /\ saved[p].key # 0
    BY <1>4 DEF IInv, SavedIsHeld, Accepted
  <2>2. CASE wg' = wg
    BY <1>4, <2>1, <2>2 DEF IInv, OwnRoute
  <2>3. CASE wg' = [q \in PublicKeys |-> NoPeer]
    BY <1>1, <1>4, <2>1, <2>3
  <2> QED BY <1>2, <2>2, <2>3
<1> QED BY <1>2, <1>3, <1>4, CrashStep

\* A death inside apply_key: the file is the old one or the new one.
LEMMA ApplyDiesStep ==
  ASSUME IInv, NEW p \in PublicKeys, NEW k \in Keys, NEW a \in Addresses,
         peers[p].ip # 0 => a = peers[p].ip,
         \A q \in PublicKeys \ {p} : peers[q].ip # a,
         ApplyDies(p, k, a)
  PROVE  IInv'
<1> DEFINE written == [peers EXCEPT ![p] = [ip |-> a, key |-> k, due |-> FALSE]]
<1>0. a # 0 /\ k # 0
  BY VpnAssumption DEF Addresses, Keys
<1>1. [ip |-> a, key |-> k, due |-> FALSE] \in Record
  BY VpnAssumption DEF Record, Keys, Addresses
<1>2. /\ written \in [PublicKeys -> Record \cup {NoRecord}]
      /\ written[p].ip = a /\ written[p].key = k
      /\ \A q \in PublicKeys \ {p} : written[q] = peers[q]
  BY <1>1 DEF IInv, TypeOK
<1>3. \/ SetPeer(p, k, a) /\ \E disk \in {saved, written} : Crash(disk)
      \/ wg' = [q \in PublicKeys |-> NoPeer] /\ Crash(written)
  BY DEF ApplyDies, ClearPeers
<1> HIDE DEF written
<1>4. ASSUME NEW q \in PublicKeys, saved[q].ip # 0
      PROVE  peers[q].ip = saved[q].ip /\ saved[q].key # 0 /\ written[q].ip = saved[q].ip
  <2>1. peers[q].ip = saved[q].ip /\ saved[q].key # 0
    BY <1>4 DEF IInv, SavedIsHeld, Accepted
  <2> QED BY <1>2, <1>4, <2>1
<1>5. ASSUME NEW q \in PublicKeys, written[q].ip # 0
      PROVE  written[q].key # 0 /\ \A s \in PublicKeys \ {q} : written[s].ip # written[q].ip
  <2>1. CASE q = p
    BY <1>0, <1>2, <2>1
  <2>2. CASE q # p
    <3>1. peers[q].key # 0 /\ \A s \in PublicKeys \ {q} : peers[s].ip # peers[q].ip
      BY <1>2, <1>5, <2>2 DEF IInv, Accepted, OwnAddress
    <3> QED BY <1>2, <2>2, <3>1
  <2> QED BY <2>1, <2>2
<1>6. ASSUME SetPeer(p, k, a), NEW q \in PublicKeys, written[q].ip # 0
      PROVE  wg'[q] = NoPeer \/ wg'[q].ip = written[q].ip
  <2>1. wg'[p].ip = a /\ \A s \in PublicKeys \ {p} :
          /\ wg'[s].ip = IF wg[s].ip = a THEN 0 ELSE wg[s].ip
          /\ wg[s] = NoPeer => wg'[s] = NoPeer
    BY <1>6, PeerSet
  <2>2. CASE q = p
    BY <1>2, <2>1, <2>2
  <2>3. CASE q # p
    <3>1. wg[q] = NoPeer \/ wg[q].ip = peers[q].ip
      BY <1>2, <1>6, <2>3 DEF IInv, OwnRoute
    <3> QED BY <1>2, <2>1, <2>3, <3>1
  <2> QED BY <2>2, <2>3
<1>7. ASSUME SetPeer(p, k, a), NEW q \in PublicKeys, written[q].ip # 0,
             NEW s \in PublicKeys \ {q}
      PROVE  wg'[s].ip # written[q].ip
  <2>1. wg'[p].ip = a /\ (s # p => wg'[s].ip = IF wg[s].ip = a THEN 0 ELSE wg[s].ip)
    BY <1>7, PeerSet
  <2>2. CASE q = p
    BY <1>0, <1>2, <2>1, <2>2
  <2>3. CASE q # p
    <3>1. wg[s].ip # peers[q].ip /\ peers[q].ip # a /\ written[q].ip = peers[q].ip
      BY <1>2, <1>7, <2>3 DEF IInv, OwnRoute
    <3> QED BY <1>7, <2>1, <3>1
  <2> QED BY <2>2, <2>3
<1>8. CASE SetPeer(p, k, a) /\ Crash(saved)
  <2>1. /\ wg' \in [PublicKeys -> [psk : 0..MaxRequests, ip : 0..NumAddresses]]
        /\ saved \in [PublicKeys -> Record \cup {NoRecord}]
    BY <1>8, PeerSet DEF IInv, TypeOK
  <2>2. \A q, s \in PublicKeys : q # s /\ saved[q].ip # 0 => saved[s].ip # saved[q].ip
    BY <1>4 DEF IInv, OwnAddress
  <2>3. \A q \in PublicKeys : saved[q].ip # 0 =>
          /\ saved[q].key # 0
          /\ wg'[q] = NoPeer \/ wg'[q].ip = saved[q].ip
          /\ \A s \in PublicKeys \ {q} : wg'[s].ip # saved[q].ip
    BY <1>4, <1>6, <1>7, <1>8
  <2> QED BY <1>8, <2>1, <2>2, <2>3, CrashStep
<1>9. CASE SetPeer(p, k, a) /\ Crash(written)
  <2>1. wg' \in [PublicKeys -> [psk : 0..MaxRequests, ip : 0..NumAddresses]]
    BY <1>9, PeerSet
  <2> QED BY <1>2, <1>4, <1>5, <1>6, <1>7, <1>9, <2>1, CrashStep
<1>10. CASE wg' = [q \in PublicKeys |-> NoPeer] /\ Crash(written)
  <2>1. NoPeer \in [psk : 0..MaxRequests, ip : 0..NumAddresses] /\ NoPeer.ip = 0
    BY VpnAssumption DEF NoPeer
  <2>2. wg' \in [PublicKeys -> [psk : 0..MaxRequests, ip : 0..NumAddresses]]
    BY <1>10, <2>1
  <2>3. \A q \in PublicKeys : wg'[q] = NoPeer /\ wg'[q].ip = 0
    BY <1>10, <2>1
  <2> QED BY <1>2, <1>4, <1>5, <1>10, <2>2, <2>3, CrashStep
<1> QED BY <1>3, <1>8, <1>9, <1>10

LEMMA CallsTyped ==
  ASSUME IInv, NEW c \in calls
  PROVE  c.pub \in PublicKeys /\ c.no \in Keys /\ c.op \in {"start", "refresh"}
  BY DEF IInv, TypeOK

\* A new request.
LEMMA AskStep ==
  ASSUME IInv, NEW p \in PublicKeys, NEW op \in {"start", "refresh"}, Ask(op, p),
         op = "refresh" => peers[p].ip # 0
  PROVE  IInv'
<1>1. asked' \in Keys /\ asked' \in 0..MaxRequests
  BY VpnAssumption DEF Ask, Keys, IInv, TypeOK
<1>2. [no |-> asked', op |-> op, pub |-> p]
        \in [no : Keys, op : {"start", "refresh"}, pub : PublicKeys]
  BY <1>1
<1>3. TypeOK'
  BY <1>1, <1>2 DEF Ask, IInv, TypeOK, diskVars, taskVars
<1>4. Known'
  BY DEF Ask, IInv, Known, diskVars, taskVars
<1> QED BY <1>3, <1>4, QuietStep DEF Ask, taskVars

\* A request that ends without touching any peer.
LEMMA ReturnStep ==
  ASSUME IInv, NEW c \in calls, Return(c),
         UNCHANGED <<asked, peers, diskVars, taskVars, crashes, replies>>
  PROVE  IInv'
<1>1. TypeOK'
  BY DEF Return, IInv, TypeOK, diskVars, taskVars
<1>2. Known'
  BY DEF Return, IInv, Known, diskVars, taskVars
<1> QED BY <1>1, <1>2, QuietStep

LEMMA StartAppliedStep == ASSUME IInv, NEW c \in calls, StartApplied(c) PROVE IInv'
<1>1. c.pub \in PublicKeys /\ c.no \in Keys /\ c.op = "start"
  BY CallsTyped DEF StartApplied, StartWaits
<1>2. PICK a \in Addresses :
        /\ AddressFor(c.pub, a)
        /\ ApplyKey(c.pub, c.no, a)
        /\ Reply(c, a) \/ (Fault("wg") /\ UNCHANGED replies)
  BY DEF StartApplied
<1>3. UNCHANGED <<asked, activations, crashes>> /\ calls' \subseteq calls
  BY DEF StartApplied, Return
<1>4. [no |-> c.no, op |-> c.op, pub |-> c.pub, ip |-> a] \in Answer
  BY <1>1, VpnAssumption DEF Answer, Addresses
<1>5. /\ \A r \in replies' : r \in replies \/ (r.pub = c.pub /\ r.ip = a)
      /\ replies' \subseteq Answer
  BY <1>2, <1>4 DEF Reply, IInv, TypeOK
<1>6. SetPeer(c.pub, c.no, a) /\ SetRecord(c.pub, c.no, a) /\ saved' = peers'
  BY <1>2 DEF ApplyKey, Save
<1>7. /\ timers' \in [PublicKeys -> BOOLEAN]
      /\ \A q \in PublicKeys \ {c.pub} : timers'[q] = timers[q]
  BY <1>1, <1>2 DEF ApplyKey, ArmRefreshTimer, IInv, TypeOK
<1>8. /\ peers[c.pub].ip # 0 => a = peers[c.pub].ip
      /\ \A q \in PublicKeys \ {c.pub} : peers[q].ip # a
  BY <1>1, <1>2, AddressIsOwn
<1>9. activations \in [PublicKeys -> SUBSET Keys]
  BY DEF IInv, TypeOK
<1> QED BY <1>1, <1>3, <1>5, <1>6, <1>7, <1>8, <1>9, ApplyStep

LEMMA StartUnsavedStep == ASSUME IInv, NEW c \in calls, StartUnsaved(c) PROVE IInv'
<1>1. c.pub \in PublicKeys /\ c.no \in Keys
  BY CallsTyped
<1>2. PICK a \in Addresses : AddressFor(c.pub, a) /\ ApplyUnsaved(c.pub, c.no, a)
  BY DEF StartUnsaved
<1>3. UNCHANGED <<asked, activations, crashes, replies>> /\ calls' \subseteq calls
  BY DEF StartUnsaved, Return
<1>4. /\ SetPeer(c.pub, c.no, a) /\ SetRecord(c.pub, c.no, a)
      /\ saved' = saved /\ timers' = timers
  BY <1>2 DEF ApplyUnsaved
<1>5. /\ peers[c.pub].ip # 0 => a = peers[c.pub].ip
      /\ \A q \in PublicKeys \ {c.pub} : peers[q].ip # a
  BY <1>1, <1>2, AddressIsOwn
<1>6. /\ activations \in [PublicKeys -> SUBSET Keys] /\ timers \in [PublicKeys -> BOOLEAN]
      /\ replies \subseteq Answer
  BY DEF IInv, TypeOK
<1> QED BY <1>1, <1>3, <1>4, <1>5, <1>6, ApplyStep

LEMMA RefreshScheduledStep ==
  ASSUME IInv, NEW c \in calls, RefreshScheduled(c) PROVE IInv'
<1>1. c.pub \in PublicKeys /\ c.no \in Keys /\ c.op = "refresh"
  BY CallsTyped DEF RefreshScheduled
<1>2. [no |-> c.no, op |-> c.op, pub |-> c.pub, ip |-> 0] \in Answer
  BY <1>1, VpnAssumption DEF Answer
<1>3. /\ UNCHANGED <<asked, peers, saved, wg, timers, crashes>> /\ calls' \subseteq calls
      /\ replies' = replies \cup {[no |-> c.no, op |-> c.op, pub |-> c.pub, ip |-> 0]}
      /\ activations' = [activations EXCEPT ![c.pub] = {c.no}]
  BY DEF RefreshScheduled, Return, Reply, Schedule, diskVars
<1>4. TypeOK'
  BY <1>1, <1>2, <1>3 DEF IInv, TypeOK
<1>5. \A r \in replies' : r \in replies \/ r.op # "start"
  BY <1>1, <1>3
<1>6. Known'
  BY <1>1, <1>3 DEF IInv, Known, TypeOK
<1> QED BY <1>3, <1>4, <1>5, <1>6, QuietStep DEF diskVars

LEMMA ActivateStep ==
  ASSUME IInv, NEW p \in PublicKeys, NEW k \in Keys,
         ActivateUnsaved(p, k) \/ Activate(p, k)
  PROVE  IInv'
<1>1. k \in activations[p] /\ activations' = [activations EXCEPT ![p] = @ \ {k}]
  BY DEF ActivateUnsaved, Activate, Fire
<1>2. peers[p].ip # 0 /\ peers[p] \in Record \cup {NoRecord}
  BY <1>1 DEF IInv, Known, TypeOK
<1>3. peers[p].ip \in Addresses
  BY <1>2, RecordShape DEF Record
<1>4. \A q \in PublicKeys \ {p} : peers[q].ip # peers[p].ip
  BY <1>2 DEF IInv, OwnAddress
<1>5. UNCHANGED <<asked, calls, crashes, replies>>
  BY DEF ActivateUnsaved, Activate
<1>6. /\ SetPeer(p, k, peers[p].ip) /\ SetRecord(p, k, peers[p].ip)
      /\ saved' = peers' \/ saved' = saved
  BY DEF ActivateUnsaved, Activate, ApplyUnsaved, ApplyKey, Save
<1>7. /\ timers' \in [PublicKeys -> BOOLEAN]
      /\ \A q \in PublicKeys \ {p} : timers'[q] = timers[q]
  BY DEF ActivateUnsaved, Activate, ApplyUnsaved, ApplyKey, ArmRefreshTimer, IInv, TypeOK
<1>8. /\ activations' \in [PublicKeys -> SUBSET Keys]
      /\ \A q \in PublicKeys : activations'[q] \subseteq activations[q]
      /\ replies \subseteq Answer
  BY <1>1 DEF IInv, TypeOK
<1> QED BY <1>2, <1>3, <1>4, <1>5, <1>6, <1>7, <1>8, ApplyStep

LEMMA ActivateRefusedStep ==
  ASSUME IInv, NEW p \in PublicKeys, NEW k \in Keys, ActivateRefused(p, k) PROVE IInv'
<1>1. /\ activations' = [activations EXCEPT ![p] = @ \ {k}]
      /\ UNCHANGED <<asked, calls, peers, diskVars, timers, crashes, replies>>
  BY DEF ActivateRefused, Fire
<1>2. TypeOK'
  BY <1>1 DEF IInv, TypeOK, diskVars
<1>3. Known'
  BY <1>1 DEF IInv, Known, TypeOK
<1> QED BY <1>1, <1>2, <1>3, QuietStep

LEMMA StartDiesStep == ASSUME IInv, NEW c \in calls, StartDies(c) PROVE IInv'
<1>1. c.pub \in PublicKeys /\ c.no \in Keys
  BY CallsTyped
<1>2. PICK a \in Addresses : AddressFor(c.pub, a) /\ ApplyDies(c.pub, c.no, a)
  BY DEF StartDies
<1>3. /\ peers[c.pub].ip # 0 => a = peers[c.pub].ip
      /\ \A q \in PublicKeys \ {c.pub} : peers[q].ip # a
  BY <1>1, <1>2, AddressIsOwn
<1> QED BY <1>1, <1>2, <1>3, ApplyDiesStep

LEMMA ActivateDiesStep ==
  ASSUME IInv, NEW p \in PublicKeys, NEW k \in Keys, ActivateDies(p, k) PROVE IInv'
<1>1. peers[p].ip # 0 /\ peers[p] \in Record \cup {NoRecord} /\ ApplyDies(p, k, peers[p].ip)
  BY DEF ActivateDies, IInv, Known, TypeOK
<1>2. peers[p].ip \in Addresses
  BY <1>1, RecordShape DEF Record
<1>3. \A q \in PublicKeys \ {p} : peers[q].ip # peers[p].ip
  BY <1>1 DEF IInv, OwnAddress
<1> QED BY <1>1, <1>2, <1>3, ApplyDiesStep

LEMMA StepHolds == IInv /\ [Next]_vars => IInv'
<1> SUFFICES ASSUME IInv, [Next]_vars PROVE IInv'
  OBVIOUS
<1>1. ASSUME NEW p \in PublicKeys, StartRequest(p) PROVE IInv'
  BY <1>1, AskStep DEF StartRequest
<1>2. ASSUME NEW p \in PublicKeys, RefreshRequest(p) PROVE IInv'
  <2>1. peers[p] \in Record \cup {NoRecord}
    BY DEF IInv, TypeOK
  <2>2. peers[p].ip # 0 /\ Ask("refresh", p)
    BY <1>2, <2>1, RecordShape DEF RefreshRequest
  <2> QED BY <2>2, AskStep
<1>3. ASSUME NEW c \in calls, EkmFails(c) \/ StartNoAddress(c) \/ StartRefused(c)
      PROVE  IInv'
  BY <1>3, ReturnStep DEF EkmFails, StartNoAddress, StartRefused, Return
<1>4. ASSUME NEW c \in calls, StartUnsaved(c) PROVE IInv'
  BY <1>4, StartUnsavedStep
<1>5. ASSUME NEW c \in calls, StartApplied(c) PROVE IInv'
  BY <1>5, StartAppliedStep
<1>6. ASSUME NEW c \in calls, RefreshScheduled(c) PROVE IInv'
  BY <1>6, RefreshScheduledStep
<1>7. ASSUME NEW p \in PublicKeys, NEW k \in Keys,
             ActivateRefused(p, k) \/ ActivateUnsaved(p, k) \/ Activate(p, k)
      PROVE  IInv'
  BY <1>7, ActivateRefusedStep, ActivateStep
<1>8. ASSUME NEW p \in PublicKeys, TimerDue(p) PROVE IInv'
  BY <1>8, TimerStep
<1>9. CASE Restart \/ Reboot
  BY <1>9, RestartStep
<1>10. ASSUME NEW c \in calls, StartDies(c) PROVE IInv'
  BY <1>10, StartDiesStep
<1>11. ASSUME NEW p \in PublicKeys, NEW k \in Keys, ActivateDies(p, k) PROVE IInv'
  BY <1>11, ActivateDiesStep
<1>12. CASE UNCHANGED vars
  BY <1>12
  DEF vars, diskVars, taskVars, IInv, TypeOK, SavedIsHeld, OwnAddress, OwnRoute,
      ToldIsSaved, Accepted, Known, NoPeer
<1> QED
  BY <1>1, <1>2, <1>3, <1>4, <1>5, <1>6, <1>7, <1>8, <1>9, <1>10, <1>11, <1>12
  DEF Next, ServerStep

------------------------------------------------------------------------------
\* IInv holds in every reachable state of the VPN server.
THEOREM Invariance == Spec => []IInv
  BY InitHolds, StepHolds, PTL DEF Spec

\* The server's variables keep their types.
THEOREM TypeCorrect == Spec => []TypeOK
<1>1. IInv => TypeOK
  BY DEF IInv
<1> QED BY <1>1, Invariance, PTL

\* An address a client was told stays its own (record_for, apply_key, PeerFile.save),
\* for any faults and any number of clients and crashes.
THEOREM AddressKeptAlways == Spec => []AddressKept
<1>1. ASSUME IInv PROVE AddressKept
  <2> SUFFICES ASSUME NEW r \in replies, r.op = "start"
               PROVE  /\ peers[r.pub].ip = r.ip /\ saved[r.pub].ip = r.ip
                      /\ wg[r.pub] # NoPeer => wg[r.pub].ip = r.ip
                      /\ \A q \in PublicKeys \ {r.pub} :
                           peers[q].ip # r.ip /\ saved[q].ip # r.ip /\ wg[q].ip # r.ip
    BY DEF AddressKept
  <2>1. r.pub \in PublicKeys /\ r.ip # 0 /\ saved[r.pub].ip = r.ip
    BY <1>1 DEF IInv, TypeOK, Answer, ToldIsSaved
  <2>2. peers[r.pub].ip = r.ip
    BY <1>1, <2>1 DEF IInv, SavedIsHeld
  <2>3. wg[r.pub] # NoPeer => wg[r.pub].ip = r.ip
    BY <1>1, <2>1, <2>2 DEF IInv, OwnRoute
  <2>4. ASSUME NEW q \in PublicKeys \ {r.pub}
        PROVE  peers[q].ip # r.ip /\ saved[q].ip # r.ip /\ wg[q].ip # r.ip
    BY <1>1, <2>1, <2>2 DEF IInv, OwnAddress, OwnRoute, SavedIsHeld
  <2> QED BY <2>1, <2>2, <2>3, <2>4
<1> QED BY <1>1, Invariance, PTL

\* Neither memory nor peers.json ever holds a peer WireGuard did not accept
\* (record_for, apply_key).
THEOREM NoHalfConfiguredPeerAlways == Spec => []NoHalfConfiguredPeer
<1>1. ASSUME IInv PROVE NoHalfConfiguredPeer
  <2> SUFFICES ASSUME NEW p \in PublicKeys, peers[p] # NoRecord \/ saved[p] # NoRecord
               PROVE  peers[p].key # 0 /\ (wg[p] # NoPeer \/ crashes > 0)
    BY DEF NoHalfConfiguredPeer
  <2>1. peers[p] \in Record \cup {NoRecord} /\ saved[p] \in Record \cup {NoRecord}
    BY <1>1 DEF IInv, TypeOK
  <2>2. peers[p].ip # 0 \/ saved[p].ip # 0
    BY <2>1, RecordShape
  <2>3. peers[p].ip # 0
    BY <1>1, <2>2 DEF IInv, SavedIsHeld
  <2>4. peers[p].key # 0 /\ (wg[p].psk # 0 \/ crashes > 0)
    BY <1>1, <2>3 DEF IInv, Accepted
  <2> QED BY <2>4 DEF NoPeer
<1> QED BY <1>1, Invariance, PTL

------------------------------------------------------------------------------
(* Where peers.json can be written, memory and disk never differ.           *)

\* The peers whose status names another key than the kernel's.
Misreported == {p \in PublicKeys : ~Tells(p)}

SavedExactly ==
  /\ saved = peers
  /\ IsFiniteSet(Misreported) /\ Cardinality(Misreported) <= crashes

\* A step that misreports nobody new.
LEMMA NoneMisreported ==
  ASSUME IInv, SavedExactly, saved' = peers', crashes' \in {crashes, crashes + 1},
         \A q \in PublicKeys : Tells(q) => Tells(q)'
  PROVE  SavedExactly'
<1>1. Misreported' \subseteq Misreported
  BY DEF Misreported
<1>2. /\ IsFiniteSet(Misreported') /\ Cardinality(Misreported') <= Cardinality(Misreported)
      /\ Cardinality(Misreported) \in Nat /\ Cardinality(Misreported') \in Nat
  BY <1>1, FS_Subset, FS_CardinalityType DEF SavedExactly
<1>3. crashes \in Nat
  BY VpnAssumption DEF IInv, TypeOK
<1> QED BY <1>2, <1>3 DEF SavedExactly

\* A death that misreports one peer.
LEMMA OneMisreported ==
  ASSUME IInv, SavedExactly, saved' = peers', crashes' = crashes + 1, NEW p \in PublicKeys,
         \A q \in PublicKeys \ {p} : Tells(q) => Tells(q)'
  PROVE  SavedExactly'
<1> DEFINE more == Misreported \cup {p}
<1>1. Misreported' \subseteq more
  BY DEF Misreported
<1>2. /\ IsFiniteSet(more) /\ Cardinality(Misreported) \in Nat
      /\ Cardinality(more) \in {Cardinality(Misreported), Cardinality(Misreported) + 1}
  BY FS_AddElement, FS_CardinalityType DEF SavedExactly
<1> HIDE DEF more
<1>3. /\ IsFiniteSet(Misreported') /\ Cardinality(Misreported') <= Cardinality(more)
      /\ Cardinality(Misreported') \in Nat
  BY <1>1, <1>2, FS_Subset, FS_CardinalityType
<1>4. crashes \in Nat
  BY VpnAssumption DEF IInv, TypeOK
<1> QED BY <1>2, <1>3, <1>4 DEF SavedExactly

\* A death inside apply_key.
LEMMA ApplyDiesExact ==
  ASSUME IInv, SavedExactly, NEW p \in PublicKeys, NEW k \in Keys, NEW a \in Addresses,
         ApplyDies(p, k, a)
  PROVE  SavedExactly'
<1> DEFINE written == [peers EXCEPT ![p] = [ip |-> a, key |-> k, due |-> FALSE]]
<1>1. \/ SetPeer(p, k, a) /\ \E disk \in {saved, written} : Crash(disk)
      \/ wg' = [q \in PublicKeys |-> NoPeer] /\ Crash(written)
  BY DEF ApplyDies, ClearPeers
<1>2. \A q \in PublicKeys \ {p} : written[q] = peers[q]
  BY DEF IInv, TypeOK
<1> HIDE DEF written
<1>3. /\ saved' = peers' /\ crashes' = crashes + 1 /\ peers' \in {peers, written}
  BY <1>1 DEF Crash, SavedExactly
<1>4. \A q \in PublicKeys \ {p} : peers'[q] = peers[q]
  BY <1>2, <1>3
<1>5. \A q \in PublicKeys \ {p} : Tells(q) => Tells(q)'
  <2>1. CASE SetPeer(p, k, a)
    <3>1. \A q \in PublicKeys \ {p} :
            wg'[q].psk = wg[q].psk /\ (wg[q] = NoPeer => wg'[q] = NoPeer)
      BY <2>1, PeerSet
    <3> QED BY <1>4, <3>1 DEF Tells, NoRecord, NoPeer
  <2>2. CASE wg' = [q \in PublicKeys |-> NoPeer]
    BY <2>2 DEF Tells, NoPeer
  <2> QED BY <1>1, <2>1, <2>2
<1> QED BY <1>3, <1>5, OneMisreported

\* The step of the theorem below.
LEMMA ExactStep ==
  ASSUME "save" \notin Faults, IInv, SavedExactly, [Next]_vars
  PROVE  SavedExactly'
<1>1. ASSUME NEW p \in PublicKeys, NEW k \in Keys, NEW a \in Addresses, ApplyKey(p, k, a),
             crashes' = crashes
      PROVE  SavedExactly'
  <2>1. /\ SetPeer(p, k, a) /\ SetRecord(p, k, a) /\ saved' = peers'
    BY <1>1 DEF ApplyKey, Save
  <2>2. peers'[p].key = wg'[p].psk
    BY <2>1, Applied
  <2>3. \A q \in PublicKeys \ {p} :
          /\ peers'[q] = peers[q] /\ wg'[q].psk = wg[q].psk
          /\ wg[q] = NoPeer => wg'[q] = NoPeer
    BY <2>1, Applied
  <2>4. \A q \in PublicKeys : Tells(q) => Tells(q)'
    BY <2>2, <2>3 DEF Tells, NoRecord, NoPeer
  <2> QED BY <1>1, <2>1, <2>4, NoneMisreported
<1>2. ASSUME UNCHANGED <<peers, saved, wg>>, crashes' \in {crashes, crashes + 1}
      PROVE  SavedExactly'
  <2>1. \A q \in PublicKeys : Tells(q) => Tells(q)'
    BY <1>2 DEF Tells, NoRecord, NoPeer
  <2>2. saved' = peers'
    BY <1>2 DEF SavedExactly
  <2> QED BY <1>2, <2>1, <2>2, NoneMisreported
<1>3. ASSUME NEW c \in calls, StartApplied(c) PROVE SavedExactly'
  BY <1>1, <1>3, CallsTyped DEF StartApplied
<1>4. ASSUME NEW p \in PublicKeys, NEW k \in Keys, k \in activations[p]
      PROVE  peers[p].ip \in Addresses
  <2>1. peers[p].ip # 0 /\ peers[p] \in Record \cup {NoRecord}
    BY <1>4 DEF IInv, Known, TypeOK
  <2> QED BY <2>1, RecordShape DEF Record
<1>5. ASSUME NEW p \in PublicKeys, NEW k \in Keys, Activate(p, k) PROVE SavedExactly'
  BY <1>1, <1>4, <1>5 DEF Activate, Fire
<1>6. ASSUME NEW p \in PublicKeys, TimerDue(p) PROVE SavedExactly'
  <2>1. /\ saved' = peers' /\ wg' = wg /\ peers' = [peers EXCEPT ![p].due = TRUE]
        /\ crashes' = crashes
    BY <1>6 DEF TimerDue, Save, Fault
  <2>2. peers \in [PublicKeys -> Record \cup {NoRecord}] /\ peers[p].ip # 0
    BY <1>6 DEF TimerDue, IInv, TypeOK, Known
  <2>3. peers[p] \in Record /\ peers[p] # NoRecord
    BY <2>2, RecordShape
  <2>4. \A q \in PublicKeys : peers'[q].key = peers[q].key
    BY <2>1, <2>2, <2>3 DEF Record
  <2>5. \A q \in PublicKeys : peers'[q] # NoRecord => peers[q] # NoRecord
    BY <2>1, <2>2, <2>3
  <2>6. \A q \in PublicKeys : Tells(q) => Tells(q)'
    BY <2>1, <2>4, <2>5 DEF Tells, NoRecord, NoPeer
  <2> QED BY <2>1, <2>6, NoneMisreported
<1>7. CASE Restart
  BY <1>2, <1>7 DEF Restart, Crash, SavedExactly
<1>8. CASE Reboot
  <2>1. /\ wg' = [p \in PublicKeys |-> NoPeer] /\ peers' = saved'
        /\ crashes' = crashes + 1
    BY <1>8 DEF Reboot, ClearPeers, Crash
  <2>2. \A q \in PublicKeys : Tells(q)'
    BY <2>1 DEF Tells, NoPeer
  <2> QED BY <2>1, <2>2, NoneMisreported
<1>9. ASSUME NEW c \in calls, StartDies(c) PROVE SavedExactly'
  BY <1>9, CallsTyped, ApplyDiesExact DEF StartDies
<1>10. ASSUME NEW p \in PublicKeys, NEW k \in Keys, ActivateDies(p, k) PROVE SavedExactly'
  BY <1>4, <1>10, ApplyDiesExact DEF ActivateDies
<1>11. \A c \in calls : ~StartUnsaved(c)
  BY DEF StartUnsaved, ApplyUnsaved, Fault
<1>12. \A p \in PublicKeys, k \in Keys : ~ActivateUnsaved(p, k)
  BY DEF ActivateUnsaved, ApplyUnsaved, Fault
<1>13. ASSUME NEW c \in calls,
              EkmFails(c) \/ StartNoAddress(c) \/ StartRefused(c) \/ RefreshScheduled(c)
       PROVE  SavedExactly'
  BY <1>2, <1>13 DEF EkmFails, StartNoAddress, StartRefused, RefreshScheduled, diskVars
<1>14. ASSUME NEW p \in PublicKeys, StartRequest(p) \/ RefreshRequest(p)
       PROVE  SavedExactly'
  BY <1>2, <1>14 DEF StartRequest, RefreshRequest, Ask, diskVars
<1>15. ASSUME NEW p \in PublicKeys, NEW k \in Keys, ActivateRefused(p, k)
       PROVE  SavedExactly'
  BY <1>2, <1>15 DEF ActivateRefused, diskVars
<1>16. CASE UNCHANGED vars
  BY <1>2, <1>16 DEF vars, diskVars
<1> QED
  BY <1>3, <1>5, <1>6, <1>7, <1>8, <1>9, <1>10, <1>11, <1>12, <1>13, <1>14, <1>15, <1>16
  DEF Next, ServerStep

\* Where peers.json can always be written, /api/status names the PSK in the kernel, through
\* refused commands, restarts and reboots, but for one peer for every death of the process,
\* those between `wg set` and peers.save() included (apply_key, PeerFile).
THEOREM StatusTellsPskAlways ==
  ASSUME "save" \notin Faults
  PROVE  Spec => []StatusTellsPsk
<1>1. Init => SavedExactly
  <2> SUFFICES ASSUME Init PROVE SavedExactly
    OBVIOUS
  <2>1. Misreported = {} /\ saved = peers /\ crashes = 0
    BY DEF Init, Misreported, Tells, NoRecord, NoPeer
  <2> QED BY <2>1, FS_EmptySet DEF SavedExactly
<1>2. IInv /\ SavedExactly /\ [Next]_vars => SavedExactly'
  BY ExactStep
<1>3. SavedExactly => StatusTellsPsk
  BY DEF SavedExactly, StatusTellsPsk, Misreported
<1> QED BY <1>1, <1>2, <1>3, Invariance, PTL DEF Spec

------------------------------------------------------------------------------
(* Where peers.json can be written and the server stays up, no peer's refresh is forgotten. *)

\* A configured peer is flagged, or its timer runs and will flag it (arm_refresh_timer,
\* apply_key): the safety half of RefreshFlagged.
FlaggedOrTimed == \A p \in PublicKeys : peers[p] # NoRecord => peers[p].due \/ timers[p]

\* The step of the theorem below.
LEMMA TimedStep ==
  ASSUME Faults \cap {"save", "restart", "reboot"} = {}, IInv, FlaggedOrTimed, [Next]_vars
  PROVE  FlaggedOrTimed'
<1>0. timers \in [PublicKeys -> BOOLEAN] /\ peers \in [PublicKeys -> Record \cup {NoRecord}]
  BY DEF IInv, TypeOK
<1>1. ASSUME NEW p \in PublicKeys, NEW k \in Keys, NEW a \in Addresses, ApplyKey(p, k, a)
      PROVE  FlaggedOrTimed'
  <2>1. /\ timers' = [timers EXCEPT ![p] = TRUE]
        /\ peers' = [peers EXCEPT ![p] = [ip |-> a, key |-> k, due |-> FALSE]]
    BY <1>1 DEF ApplyKey, ArmRefreshTimer, SetRecord
  <2>2. timers'[p]
    BY <1>0, <2>1
  <2>3. \A q \in PublicKeys \ {p} : timers'[q] = timers[q] /\ peers'[q] = peers[q]
    BY <1>0, <2>1
  <2> QED BY <2>2, <2>3 DEF FlaggedOrTimed, NoRecord
<1>2. ASSUME UNCHANGED <<peers, timers>> PROVE FlaggedOrTimed'
  BY <1>2 DEF FlaggedOrTimed, NoRecord
<1>3. ASSUME NEW c \in calls, StartApplied(c) PROVE FlaggedOrTimed'
  BY <1>1, <1>3, CallsTyped DEF StartApplied
<1>4. ASSUME NEW p \in PublicKeys, NEW k \in Keys, Activate(p, k) PROVE FlaggedOrTimed'
  <2>1. peers[p].ip # 0
    BY <1>4 DEF Activate, Fire, IInv, Known
  <2>2. peers[p].ip \in Addresses
    BY <1>0, <2>1, RecordShape DEF Record
  <2> QED BY <1>1, <1>4, <2>2 DEF Activate
<1>5. ASSUME NEW p \in PublicKeys, TimerDue(p) PROVE FlaggedOrTimed'
  <2>1. /\ timers' = [timers EXCEPT ![p] = FALSE] /\ timers[p]
        /\ peers' = [peers EXCEPT ![p] = [peers[p] EXCEPT !.due = TRUE]]
    BY <1>5 DEF TimerDue
  <2>2. peers[p] \in Record
    BY <1>0, <2>1, RecordShape DEF IInv, Known
  <2>3. [peers[p] EXCEPT !.due = TRUE].due = TRUE
    BY <2>2 DEF Record
  <2>4. peers'[p].due = TRUE /\ \A q \in PublicKeys \ {p} : timers'[q] = timers[q] /\ peers'[q] = peers[q]
    BY <1>0, <2>1, <2>3
  <2> QED BY <2>4 DEF FlaggedOrTimed, NoRecord
<1>6. ASSUME NEW c \in calls,
             EkmFails(c) \/ StartNoAddress(c) \/ StartRefused(c) \/ RefreshScheduled(c)
      PROVE  FlaggedOrTimed'
  BY <1>2, <1>6 DEF EkmFails, StartNoAddress, StartRefused, RefreshScheduled, taskVars
<1>7. ASSUME NEW p \in PublicKeys, StartRequest(p) \/ RefreshRequest(p) PROVE FlaggedOrTimed'
  BY <1>2, <1>7 DEF StartRequest, RefreshRequest, Ask, taskVars
<1>8. ASSUME NEW p \in PublicKeys, NEW k \in Keys, ActivateRefused(p, k) PROVE FlaggedOrTimed'
  BY <1>2, <1>8 DEF ActivateRefused
<1>9. CASE UNCHANGED vars
  BY <1>2, <1>9 DEF vars, taskVars
<1> QED
  BY <1>3, <1>4, <1>5, <1>6, <1>7, <1>8, <1>9
  DEF Next, ServerStep, StartUnsaved, ActivateUnsaved, ApplyUnsaved, Restart, Reboot, StartDies,
      ActivateDies, ApplyDies, Fault

\* While the server stays up and can write peers.json, every configured peer is flagged for
\* a refresh or has its timer running, through refused commands, racing requests and
\* activations that cancel each other (apply_key, TimerDue).
THEOREM FlaggedOrTimedAlways ==
  ASSUME Faults \cap {"save", "restart", "reboot"} = {}
  PROVE  Spec => []FlaggedOrTimed
<1>1. Init => FlaggedOrTimed
  BY DEF Init, FlaggedOrTimed, NoRecord
<1>2. IInv /\ FlaggedOrTimed /\ [Next]_vars => FlaggedOrTimed'
  BY TimedStep
<1> QED BY <1>1, <1>2, Invariance, PTL DEF Spec
==============================================================================
