------------------------------- MODULE Storage -------------------------------
(***************************************************************************)
(* The managed-storage path (docs/architecture.md section 4): the client's *)
(* `upload` command, the FileUploadServer (qkd_ekm/upload/app.py), the     *)
(* bucket whose objects are encrypted under the primary version of the KMS *)
(* key, and the rotation of that key going on meanwhile (Rotate).          *)
(*                                                                         *)
(* The server's event loop gives way while the EKM is asked for a file key *)
(* and while the sink writes an object, both in a thread pool: `keyCalls`  *)
(* and `writes` hold the requests there.  Commands are numbered as they    *)
(* start.  The paths between client, server and QKD2 lose answers.         *)
(***************************************************************************)
EXTENDS Rotate

CONSTANTS
  Clients,      \* machines that run `upload`, one command at a time
  Ttl,          \* file_key_ttl_s, in clock ticks
  MaxUploads,   \* bound: upload commands in one behaviour
  MaxTries,     \* bound: POSTs of one file
  MaxClock,     \* bound: clock ticks
  MaxRestarts   \* bound: restarts of the server

ASSUME StorageAssumption ==
  /\ Ttl \in Nat \ {0} /\ MaxClock \in Nat /\ MaxRestarts \in Nat
  /\ MaxUploads \in Nat /\ MaxTries \in Nat \ {0}

VARIABLES
  clock, restarts,
  started,      \* upload commands started
  cmd,          \* cmd[c]: the command of client c: [pc, no, key, at, tries]
  keyCalls,     \* numbers of commands whose /api/file_key waits for the EKM
  cache,        \* keys[k]: expiry of file key k, 0 if the server does not hold it
  writes,       \* POSTs whose object is being written: [no, try]
  objects,      \* the bucket: [no, try, version, unit]
  confirmed     \* commands that ended with exit code 0

clientVars == <<started, cmd, confirmed>>
serverVars == <<keyCalls, cache, writes>>
storageVars == <<rotateVars, clock, restarts, clientVars, serverVars, objects>>

Units == 1..MaxUnits
NoCmd == [pc |-> "idle", no |-> 0, key |-> 0, at |-> 0, tries |-> 0]

StorageInit ==
  /\ RotateInit
  /\ clock = 1 /\ restarts = 0 /\ started = 0 /\ confirmed = {}
  /\ cmd = [c \in Clients |-> NoCmd]
  /\ keyCalls = {} /\ cache = [k \in Units |-> 0] /\ writes = {}
  /\ objects = {}

------------------------------------------------------------------------------
(* The server's key cache.                                                  *)

\* Mutant of Pruned: an entry that has expired is still found.
PrunedLate == [k \in Units |-> IF cache[k] < clock THEN 0 ELSE cache[k]]

\* prune_keys
Pruned == [k \in Units |-> IF cache[k] <= clock THEN 0 ELSE cache[k]]

Exit(c) == cmd' = [cmd EXCEPT ![c] = NoCmd]

------------------------------------------------------------------------------
(* upload: POST /api/file_key, then dec_keys from QKD2.                     *)

AskFileKey(c) ==
  /\ cmd[c].pc = "idle" /\ started < MaxUploads
  /\ started' = started + 1
  /\ cmd' = [cmd EXCEPT ![c] = [NoCmd EXCEPT !.pc = "key", !.no = started']]
  /\ keyCalls' = keyCalls \cup {started'}
  /\ cache' = Pruned
  /\ UNCHANGED <<rotateVars, clock, restarts, confirmed, writes, objects>>

\* Mutant of Remember: the server holds one key at a time.
RememberOne(k) == cache' = [u \in Units |-> IF u = k THEN clock + Ttl ELSE 0]

Remember(k) == cache' = [cache EXCEPT ![k] = clock + Ttl]

\* The EKM hands out a fresh unit.  The answer reaches the client, if it still waits.
FileKey(n) ==
  /\ n \in keyCalls /\ drawn < MaxUnits
  /\ drawn' = drawn + 1
  /\ keyCalls' = keyCalls \ {n}
  /\ Remember(drawn')
  /\ cmd' = [c \in Clients |->
               IF cmd[c].pc = "key" /\ cmd[c].no = n
               THEN [cmd[c] EXCEPT !.pc = "fetch", !.key = drawn', !.at = clock]
               ELSE cmd[c]]
  /\ UNCHANGED <<kmsVars, job, kek, clock, restarts, started, confirmed, writes,
                 objects>>

\* 503: the EKM is unreachable or has no unit.
FileKeyRefused(n) ==
  /\ n \in keyCalls
  /\ keyCalls' = keyCalls \ {n}
  /\ cmd' = [c \in Clients |-> IF cmd[c].no = n THEN NoCmd ELSE cmd[c]]
  /\ UNCHANGED <<rotateVars, clock, restarts, started, confirmed, cache, writes,
                 objects>>

\* QKD2 gives the key out, for the first time (what a repetition would get is in
\* VpnTunnel).
FetchFileKey(c) ==
  /\ cmd[c].pc = "fetch"
  /\ cmd' = [cmd EXCEPT ![c].pc = "post"]
  /\ UNCHANGED <<rotateVars, clock, restarts, started, confirmed, serverVars, objects>>

------------------------------------------------------------------------------
(* POST /api/upload.                                                        *)

Posts(c) == cmd[c].pc = "post" /\ cmd[c].tries < MaxTries

\* get_key finds nothing: 404, and the command fails.
PostUnknown(c) ==
  /\ Posts(c) /\ Pruned[cmd[c].key] = 0
  /\ cache' = Pruned
  /\ Exit(c)
  /\ UNCHANGED <<rotateVars, clock, restarts, started, confirmed, keyCalls, writes,
                 objects>>

\* The blob is unwrapped with the key found, and the plaintext goes to the sink.
PostAccepted(c) ==
  /\ Posts(c) /\ Pruned[cmd[c].key] # 0
  /\ cache' = Pruned
  /\ cmd' = [cmd EXCEPT ![c].pc = "sent", ![c].tries = @ + 1]
  /\ writes' = writes \cup {[no |-> cmd[c].no, try |-> cmd'[c].tries]}
  /\ UNCHANGED <<rotateVars, clock, restarts, started, confirmed, keyCalls, objects>>

\* The bucket encrypts the object under the primary version.  Its name has a uuid of
\* its own.
ObjectOf(w) == [no |-> w.no, try |-> w.try, version |-> primary, unit |-> kek[path[primary]]]

Waits(c, w) == cmd[c].pc = "sent" /\ cmd[c].no = w.no /\ cmd[c].tries = w.try

\* Mutant of SinkStores: the answer is sent although nothing was stored.
SinkStoresNothing(w) ==
  /\ w \in writes
  /\ objects' = objects
  /\ writes' = writes \ {w}
  /\ confirmed' = confirmed \cup {w.no}
  /\ cmd' = [c \in Clients |-> IF Waits(c, w) THEN NoCmd ELSE cmd[c]]
  /\ UNCHANGED <<rotateVars, clock, restarts, started, keyCalls, cache>>

\* sink.upload returns, and the answer reaches the client if it still waits.
SinkStores(w) ==
  /\ w \in writes
  /\ objects' = objects \cup {ObjectOf(w)}
  /\ writes' = writes \ {w}
  /\ IF \E c \in Clients : Waits(c, w)
     THEN /\ confirmed' = confirmed \cup {w.no}
          /\ cmd' = [c \in Clients |-> IF Waits(c, w) THEN NoCmd ELSE cmd[c]]
     ELSE UNCHANGED <<cmd, confirmed>>
  /\ UNCHANGED <<rotateVars, clock, restarts, started, keyCalls, cache>>

\* sink.upload raises, before or after the object was written: 500.
SinkFails(w) ==
  /\ w \in writes
  /\ objects' \in {objects, objects \cup {ObjectOf(w)}}
  /\ writes' = writes \ {w}
  /\ cmd' = [c \in Clients |-> IF Waits(c, w) THEN NoCmd ELSE cmd[c]]
  /\ UNCHANGED <<rotateVars, clock, restarts, started, confirmed, keyCalls, cache>>

------------------------------------------------------------------------------
\* The command times out, loses an answer or is interrupted, wherever it is.
GiveUpUpload(c) ==
  /\ cmd[c].pc # "idle"
  /\ Exit(c)
  /\ UNCHANGED <<rotateVars, clock, restarts, started, confirmed, serverVars, objects>>

\* A client whose POST was cut off posts again with the same key (the CLI does not:
\* it gives up).
Retry(c) ==
  /\ cmd[c].pc = "sent"
  /\ cmd' = [cmd EXCEPT ![c].pc = "post"]
  /\ UNCHANGED <<rotateVars, clock, restarts, started, confirmed, serverVars, objects>>

ClockTick ==
  /\ clock < MaxClock
  /\ clock' = clock + 1
  /\ UNCHANGED <<rotateVars, restarts, clientVars, serverVars, objects>>

\* The server's process dies and starts again: the keys were only in memory.
ServerRestart ==
  /\ restarts < MaxRestarts
  /\ restarts' = restarts + 1
  /\ keyCalls' = {} /\ cache' = [k \in Units |-> 0] /\ writes' = {}
  /\ UNCHANGED <<rotateVars, clock, clientVars, objects>>

StorageNext ==
  \/ \E c \in Clients :
       \/ AskFileKey(c) \/ FetchFileKey(c) \/ PostUnknown(c) \/ PostAccepted(c)
       \/ GiveUpUpload(c) \/ Retry(c)
  \/ \E n \in keyCalls : FileKey(n) \/ FileKeyRefused(n)
  \/ \E w \in writes : SinkStores(w) \/ SinkFails(w)
  \/ ClockTick \/ ServerRestart
  \/ RotateStep
     /\ UNCHANGED <<clock, restarts, clientVars, serverVars, objects>>

StorageSpec == StorageInit /\ [][StorageNext]_storageVars

------------------------------------------------------------------------------
(* Properties.                                                              *)

\* upload/app.py: "the same id stays usable for that window": a POST is refused for
\* its key only after the TTL, however many others were asked for, expired or retried
\* meanwhile (a restart forgets the keys).
KeyUsableForTtl ==
  [][\A c \in Clients : PostUnknown(c) /\ restarts = 0 => clock >= cmd[c].at + Ttl]_storageVars

\* ... and it is never accepted later: "older than the TTL is a 404" (get_key).
KeyUnusableAfterTtl ==
  [][\A c \in Clients : PostAccepted(c) => clock < cmd[c].at + Ttl]_storageVars

\* Exit code 0 means that the file is in the bucket, whatever was retried, restarted
\* or lost (upload: the answer comes after sink.upload).
ConfirmedIsStored == \A n \in confirmed : \E o \in objects : o.no = n

\* docs/architecture.md section 4: a rotation makes the next upload use a fresh unit.
\* Two objects share the unit of their KEK exactly if they were stored under one
\* version, through failed rotations, and the EKM still holds every unit.
RotationSeparatesUploads ==
  \A o1, o2 \in objects :
    /\ o1.unit # 0 /\ kek[path[o1.version]] = o1.unit
    /\ o1.unit = o2.unit <=> o1.version = o2.version
==============================================================================
