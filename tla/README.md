# TLA+ model of the QKD/EKM lifecycle

Specifications, model checking and proofs for the repository in `src/`: an
External Key Manager (EKM) that turns keys of a quantum key distribution (QKD)
link into key-encryption keys for Cloud KMS, pre-shared keys for a WireGuard VPN
and one-off file keys, together with the executable reference model of its
lifecycle. Paths below are relative to `src/src/qkd_ekm/` unless they start with
`docs/`, `scripts/` or `terraform/`.

1. [The system](#1-the-system): inventory of components, state, operations
2. [The modules](#2-the-modules): what models what, and where the model abstracts
3. [The runs](#3-the-runs): bounds, and what each run shows
4. [Fairness](#4-fairness)
5. [The proofs](#5-the-proofs)
6. [Findings](#6-findings)
7. [Not modelled](#7-not-modelled)
8. [Plan](#8-plan)

## 1. The system

### Components

| Component | State | Operations |
|---|---|---|
| External Key Manager, `ekm/app.py`, `pool.py`, `store.py`, `__main__.py` | in memory: one deque of units per QKD peer, `source_available`, authority, `recovery_pending`, `source_seen`; on disk (SQLite): table `bindings`, table `kek` | wrap and unwrap (Cloud KMS), `/api/{peer}/new` (VPN and upload servers), `/api/state`, authority, recovery ack; a pull thread; an expiry sweep |
| Lifecycle modes, `ekm/lifecycle.py` | none | `derive`: the mode from seven inputs |
| Reference model, `model/` | the tuple X = (SQ, SE, B, M, KE, KP, KV, E, C, R) and four extensions | the events of `events.py` under 25 knobs (`Rules`), the invariants of `checks.py`, a breadth-first enumeration |
| VPN control server, `vpn/app.py`, `wg.py`, `__main__.py` | peer records in memory and in `peers.json`, WireGuard peers in the kernel, pending activations, refresh timers | start_connection, refresh_connection, activation at `effective_time`, refresh timer, start-up |
| Client CLI, `client/` | `session.json`, the conf file, interface `wgqkd` | connect, refresh, disconnect, upload, status |
| File upload server, `upload/` | file keys with an expiry, in memory | `/api/file_key`, `/api/upload` |
| External key rotation, `ekm/rotate.py` | none of its own; the versions of the Cloud KMS key | list, create, poll, promote |
| QKD source and simulator, `qkdsim/`, `qkd/etsi014.py` | keys issued and given out, their counters, availability; all in memory | enc_keys, dec_keys (each key once), `/sim/source`, login, monitoring and status routes |
| HEQA monitoring client, `qkd/heqa.py`, `scripts/capture_qkd.py` | one JWT; the fields read so far | login, a capture of rates and counters, a second pass with another credential |
| Seeded-fault checks, `model/seeded.py` | none | nine invalid states and four invalid transitions that `checks.py` must detect |
| Calibration, `scripts/model_calibrate.py` | none | one enumeration of the reference model per reading of its rules |

How they interact. The EKM's pull thread asks the source for units over HTTP and
keeps them in deques. Cloud KMS calls wrap and unwrap; the first wrap under a key
path takes a unit, stores its material (`kek` row) and then its binding, and
answers. The VPN and upload servers call `/api/{peer}/new` for a unit and tell
their client only its id; the client fetches the material from QKD2 with
dec_keys, once. A rotation creates a KMS version on a new key path, which makes
the EKM take another unit. `derive` is one function called both by the EKM and by
the reference model, and `Lifecycle` is one module used by both specifications. A
capture asks the simulator for its rates with the JWT of a login and for its
counters with whichever of two credentials the status route wants, while other
clients draw keys from it.

### What is hard

* *Two threads in the EKM.* The pull thread reads lengths and sets
  `source_available` while handlers and the expiry sweep run.
* *Several writes per request*, any of which can fail or be cut off by the death
  of the process: pop a unit, `kek` row, binding row, answer.
* *Awaits.* The VPN handlers wait for the EKM between looking at the peer and
  changing it; the upload handlers wait for the EKM and for the bucket.
* *State in three places*: VPN records in memory, on disk and in the kernel, and
  a fourth copy at the client.
* *Lost answers, one-time keys.* A key whose delivery was lost is gone, and the
  other end may already use it.
* *Restarts* drop activations, timers, file keys, and a recovery nobody
  acknowledged.
* *Files that are rewritten.* `session.json` is truncated and then written; a client
  killed in between leaves a file that does not parse.
* *Readings of prose.* The reference model's 25 knobs give 2^25 rule sets;
  `scripts/model_calibrate.py` sweeps 442 of them.
* *A checker that is itself checked.* An enumeration without violations says nothing
  if the check that should fire does not.

### What makes each component correct

* EKM: a QKD unit is used once; what was wrapped can be unwrapped for ever; the
  two tables agree; the deques stay within their target, and expiry is complete; an
  outage of the source ends; the mode reported is not contradicted by facts.
* Reference model: I1–I7 of `checks.py`; epochs only advance; RECOVERY ends only
  when the dependencies are back. Its checker: no check fires on a reachable state or
  step, and each fires on its seeded fault.
* Simulator and capture: a key is given to a peer once; the counters of the status
  block add up; the rates of a capture come from one process; a capture with the
  right credentials that nothing disturbs is complete.
* VPN server: an address a client was told stays its own; no half-configured peer
  is ever kept; records name the kernel's PSK, but for a peer whose record a dying
  process did not write; peers are flagged for refresh.
* Client and VPN server together: the two ends hold the same PSK once a command
  has succeeded and nothing is under way.
* Upload server and rotation: a file key works exactly until its TTL; exit code 0
  means the file is stored; the primary version is enabled; a rotation separates
  the units of the objects stored before and after it.

The hazards these answer, each with its line, are in `PROJECT.json`.

## 2. The modules

| Module | Models | Role |
|---|---|---|
| `Lifecycle` | `ekm/lifecycle.py` | `DeriveMode`, shared |
| `KeyLedger` | – | what the EKM promises its callers: the abstract specification |
| `Ekm` | `ekm/app.py`, `pool.py`, `store.py`, enc_keys | the process, its two threads, its tables, its source |
| `EkmProofs` | – | theorems about `Ekm`, among them that it implements `KeyLedger` |
| `LifecycleModel` | `model/state.py`, `events.py`, `enumerate.py` | every event under every knob |
| `Checks` | `model/checks.py` | I1–I9 and G1–G4 as the code evaluates them, on any value |
| `Seeded` | `model/seeded.py` | the invalid states and transitions |
| `Calibrate` | `scripts/model_calibrate.py`, `DEFAULT_RULES` | the readings of the sweep |
| `LifecycleModelProofs` | – | theorems for all readings |
| `ChecksProofs` | – | theorems about `Checks` and `Seeded`: the checker is exact |
| `Vpn` | `vpn/` | the server, its disk and its kernel |
| `VpnProofs` | – | theorems about `Vpn` |
| `VpnTunnel` | `client/`, dec_keys | composes `Vpn` with one client machine and QKD2 |
| `Rekeying` | – | what rekeying a tunnel promises: the abstract specification, with its own theorem |
| `VpnTunnelProofs` | – | theorems about `VpnTunnel`, on top of `VpnProofs`, among them that it implements `Rekeying` |
| `Rotate` | `ekm/rotate.py` | the rotation job and Cloud KMS (external) |
| `Storage` | `upload/`, the CLI's `upload` | composes `Rotate` with clients, the upload server and the bucket |
| `StorageProofs` | – | theorems about `Rotate` and `Storage` |
| `QkdSim` | `qkdsim/`, `qkd/etsi014.py` | the one-time key store and its counters |
| `Capture` | `qkd/heqa.py`, `scripts/capture_qkd.py`, the routes they call | composes `QkdSim` with one monitoring capture |
| `CaptureProofs` | – | theorems about `QkdSim` and `Capture` |
| `MC*` | – | constants, domains and symmetry for TLC |

A definition named `<Name><Something>` right before `<Name>`, with a comment
"Mutant of", is a plausible bug in the code behind `<Name>`, used to see that a
property notices it. Nothing in the specifications refers to it.

### Ekm

*Correspondence.* `pool`, `sourceAvailable` are the fields of `KeyPool`;
`authority`, `recoveryPending`, `sourceSeen` the dictionary `state` of
`create_app`; `bindings` and `kek` the tables of `Store`. `pull` is the program
counter of `pull_once` (ask under the lock, call, receive, append under the lock),
`handler` that of the request in progress. There is one `handler` because no
endpoint awaits between its first effect and its answer: the event loop runs
handlers one by one, and only the pull thread interleaves. `blobs` and `delivered`
are history: what callers were given. A handler can fail at each of its writes
(`StoreError`, the 500 of the generic exception handler) and the process can die
between any two steps (`Restart`).

*Abstractions.* Units are numbered in the order of issue. A successful answer of
the source holds exactly the number of units asked for, with ids never seen before
(uuid4). A failed SQLite write changes nothing. The expiry sweep over all deques
is one step: it runs on the event loop and takes the lock once per deque, and what
happens to one deque is independent of the others. `derive` gets the pool only as
"is there a unit". The clock ticks between steps. Authentication and the
encryption of rows at rest are left out.

### LifecycleModel

A state is the dataclass `State`, an action is one branch of `enabled`. The 25
Booleans of `Rules` are the record `rules`, a variable that is chosen from the
constant `Sweep` at the start and never changes: a behaviour is one enumeration, and a
run covers a whole sweep. `Next` is `enabled` with its order of yields dropped; I1–I7
are those of `checks.py`. `retained_epoch` is computed from the rules as
`enumerate.run` does.

`Calibrate` defines the sweep stage by stage as `combos` does: the knobs flipped one
by one, the products over the structural, the edge and the round-2 families, the
round-2 seeds, and `DEFAULT_RULES`.

`Checks` evaluates the functions `invariants` and `guards` on a state that is a
value, with everything such a value may hold and a reachable state cannot: an
identifier that the pool lists twice, a stored mode that contradicts the derived
one. I8, I9 and G1–G4 appear there and not as invariants of their own, because for
`enabled` they restate `derive` or a guard. `Seeded` builds the faults of `seeded.py`
on any state, where the code has only `State()`.

### Vpn

`peers`, `saved`, `wg` are memory, `peers.json` and the kernel; `calls` are the
requests that wait for the EKM, any number of them; `activations` and `timers` are
the asyncio tasks. What follows the await is one step, with one action per outcome:
no address left, `wg` refused, the save failed, success. The process can also die in
the middle of `apply_key` (`ApplyDies`, reached from a request and from an
activation): after `wg set`, with `peers.json` as it was or already replaced. A death
anywhere else leaves what `Restart` or `Reboot` leaves before or after the step.
`Faults` says which of the failures a configuration lets happen.

*Abstractions.* A key is known by the number of the request it was drawn for: the
EKM hands a unit out once, which is what `KeyLedger` says and `EkmProofs` proves of
the EKM. Delays are not timed: an activation or a timer fires at some
moment after it was scheduled. `save` is atomic (`os.replace`). A `wg set` with an
address takes that address away from any peer that had it, as WireGuard does.
`qkd_id` and `next_refresh_at` are left out; no control depends on them here.

### VpnTunnel

`cli` is the one command in progress, `iface` the interface, `session` the file
`session.json`, `fetched` what QKD2 has given out. Every point where a command can
fail, be interrupted or lose an answer is an action. `disconnect` takes the interface
down (`Disconnect`) and then deletes the files (`Unlink`); like the other commands it can
be killed between the two, and the machine can restart at any moment. The conf file
is not a variable: only the session file decides what a later command does. `session.json` is
truncated (`OpenSession`) and then written (`WriteSession`); in between, and after a
kill in between, it is `Torn`. A `connect` that gets no identity token or does not
reach the server has made its key pair and nothing else (`NotSent`).

*What it implements.* `Rekeying` knows four things: the key each peer was `offered`
last, the key the `server` is on with it, the `client`'s interface, and the keys
`spent`. It has no requests, tasks, files or faults. `VpnTunnel!Rekeyed` maps the
program to it: a peer is offered what is scheduled for it, or else what its kernel
entry holds (`KeyOffered`); the server is on the kernel's PSK (`KeyServed`); the client
is `iface` itself; a key is spent once no request waits for it (`KeysSpent`). An answer
that schedules an activation is `Offer`, an activation that fires `ServerSwitch`, a
`wg-quick up` `ClientStart`, a `wg set` at the client `ClientSwitch`, a first key `Admit`;
everything else is a stutter or a key lost. So the client may come up or go on
only with the key its peer was offered last, and a peer is never admitted anew under a
client that runs as it.

### Rotate and Storage

`path`, `enabled`, `primary` are Cloud KMS; `kek`, `drawn` the EKM as `KeyLedger`
describes it; `job` one call of `rotate`. Cloud KMS is external: ids of versions
only grow, not always by one; it wraps while creating a version
(`terraform/kms.tf:99-103`, `138-142`); the answer to a creation may be lost. The
poll loop never examines what its last `get` returned, so `Promote` needs a look
before that. The initial state is what `terraform/kms.tf` leaves.

In `Storage` `keyCalls` and `writes` are the requests that wait in the thread pool
for the EKM and for the sink, `cache` the dictionary `keys`. `Retry` is a client
that posts again with the same key, which the docstring of `get_key` provides for;
the CLI itself gives up. Decryption of a posted blob always succeeds, since the
client wraps with the key it was given: the 400 of a wrong blob changes nothing.

### QkdSim and Capture

`keys`, `consumed_ids` and the counters are the fields of `KeyStore`. `DecKeys` is a
whole request: it consumes its ids in order up to the first one that is unknown or
consumed already, and then refuses, keeping what it consumed (`Honoured`). `given`
is history: how often dec_keys has given each key. `EncKeys` may issue more than the
inventory, as the code does. `SimRestart` empties everything: nothing is on disk.
`generated_bits` is what the property of that name tells at a moment; it follows the clock
(`Elapse`). `_status_extension` reads it twice, for `current_bits` and seven lines
later for `total_generated_bits`, so `status_extension(later)` takes the second reading as
a parameter, and the clock may have gone on.

`Capture` goes through the requests of `HeqaMonitor.capture` one by one, with the
token of the login or of `--token`, and then through the second pass of
`capture_qkd.py` if the counters are missing and an ETSI token was given. Any request
may be lost, and the simulator may be replaced by another process between two of
them. A rate is represented by the process that reported it, which is what a reader
of Table 4 relies on; a missing field is `NoProcess` or `NoBlock`. A JWT belongs to
the process that issued it. Values of the rates are left out.

## 3. The runs

`tlc -config <cfg> <module>`, all with a complete search of the state space.

| Run | Bounds | States | Shows |
|---|---|---|---|
| `ekm_core` | 2 peers, 2 external keys, target 2, batch 2, 3 units | 351,924 | `UnitSpentOnce`, `EveryWrapUnwraps`, `BindingMatchesKek`, `ExhaustedMeansNoneDelivered`, the implementation of `KeyLedger`, under all interleavings, failed writes and restarts |
| `ekm_pool` | 1 peer, no external key, target 2, batch 2, 4 units, 1 tick, TTL 0 | 272,700 | `PoolWithinTarget`, `ExpiryIsComplete`, `OutageFlagRecoverable`, and `OutageEnds` under fairness |
| `ekm_bound` | 2 peers, 1 external key, target 1 | violation | finding 1 |
| `ekm_ready` | the same | violation | finding 2 |
| `lifecycle_sweep` | 443 readings: the calibrated one with the domains of `state.py` (4 identifiers, 2 versions, 3 epochs), one with every teardown knob on 3 identifiers, 1 version, 3 epochs, the other 441 on 2 identifiers, 1 version, 2 epochs | 418,141 | I1, I3, I4, I6, I7, `RecoveryLeftRestored`, `EpochsAdvance` in every reading; `EnumerationClean`; `SeededDetected` in the states of the two large readings |
| `vpn_faults` | 3 clients, 2 addresses, 4 requests, 1 crash, all server faults | 306,214 | `AddressKept`, `NoHalfConfiguredPeer` |
| `tunnel_session` | 2 key pairs, 2 addresses, 4 requests, 2 crashes; all faults but failed saves | 1,246,616 | `SessionNamesPsk`, `RefreshPossible`, `StatusTellsPsk` |
| `tunnel_live` | 2 key pairs, 4 requests; lost answers, EKM errors, lost keys, failed commands at the client and client reboots | 90,168 | `TunnelAgrees`, `SessionMatchesInterface`, `RekeyCompletes`, `RefreshFlagged` under fairness; that the tunnel implements `Rekeying` |
| `tunnel_restart` | 3 requests, 1 restart | violation | finding 3 |
| `tunnel_order` | 3 requests, interrupted commands | violation | finding 4 |
| `storage` | 2 clients, 2 uploads, 2 tries, 1 job, 3 versions, 3 units, 2 polls, 1 tick, 1 restart | 168,724 | `PrimaryEnabled`, `ConfirmedIsStored`, `RotationSeparatesUploads`, `KeyUsableForTtl`, `KeyUnusableAfterTtl` |
| `source_capture` | 2 keys, 3 rates, inventory 1, requests of at most 2 ids, 2 requests, 1 generated bit, 2 processes, every choice of credentials | 1,576,236 | `KeyGivenOnce`, `CountersReconcile`, `RatesOneProcess`, `CaptureComplete` |

Why the bounds are enough to be interesting:

* *EKM.* Two external keys and two kinds of callers compete for the units of the
  peer whose units become KEKs, and a second peer makes the pull loop go on and
  wrap around. Three units allow a re-keying after a failed write (two units) next
  to a delivery. `MaxTime` is 0 in `ekm_core`, where age plays no part. In
  `ekm_pool` a TTL of 0 and one tick make a unit stale while a batch is in flight, and
  four units fill the deque twice. When the source has no unit left the model only
  lets a call fail, so there is no deadlock. TLC's constants are a bound; the
  theorems of section 5 are not.
* *Reference model.* The domains of the calibrated reading are the code's own. TLC
  reaches 45,824 states at depth 16 in it, the figures the repository publishes for
  its enumeration (`docs/model-calibration.md`), which is evidence that the
  translation is exact. The other readings of the sweep differ in which steps exist, not in
  how many identifiers a step compares (at most two, a new one against an old one), so
  two identifiers and two epochs let an identifier or an epoch be taken again; the
  theorems hold for any number. `EnumerationClean` is what `enumerate.run` reports
  as no violations, and contains I2 and I5, which have no entry of their own in the run;
  `SeededDetected` seeds every fault of `seeded.py` into every state of two readings, one with and one without an ordered pool. `MCLifecycleModel` also
  checks, as an assumption, that dropping the oldest identifier by filtering and by `Tail`
  are the same. `Domains` is a CONSTRAINT that gives each reading its domains.
* *VPN.* Three clients and two addresses exhaust the range; four requests are two
  connects and two refreshes that overlap. `MaxRequests` and `MaxCrashes` cap the
  environment, which is the only reason for `CHECK_DEADLOCK FALSE` (so do
  `MaxUploads` and the other bounds of `storage`): once requests run out the
  system rightly stands still.
* *Storage.* The objects stored before and after a rotation include two copies of
  one file, posted twice by a client that lost an answer. Three versions allow a
  failed rotation and a skipped id before one that succeeds.
* *Capture.* Two processes are what it takes for rates of two processes to meet, and
  three rates put one before, one at and one after the refusal. Two requests of two
  ids include one that names an id twice and one refused part-way; an inventory of
  one is exceeded by two keys. One generated bit is enough for the two readings of the
  clock in a status block to differ.

`tunnel_session` leaves failed saves out because `StatusTellsPsk` is about the file
that was to be written: with a failed save the kernel is ahead of it, by design. A
process that dies between `wg set` and the save puts the kernel ahead too, of the one
peer that was being served: `StatusTellsPsk` allows one such peer per death and no
more. With two peers and two deaths that bound only excludes something while there was
at most one death, which is where its mutant is found; the theorem has no such limit.

`SessionMatchesInterface` is checked in `tunnel_live`, where no command is killed. With
kills it is false: (1) a connect as k1 succeeds; (2) a disconnect is killed after
`wg-quick down`; (3) a connect as k2 is killed after `wg-quick up`. k1's session is now
beside k2's interface. `SessionNamesPsk` is what holds then: the file is right
about the PSK after every command that succeeded.

## 4. Fairness

* `FairSpec` (Ekm): weak fairness of the pull thread (each of its waits is an HTTP
  call with a timeout, a lock held for in-memory work, or a sleep) and strong
  fairness of the source's answer, `PullIssue` and `PullReceive`: of the calls to
  a source that is up, not all time out. `OutageEnds` assumes further, in the formula, that
  the source is up for good, and exempts behaviours in which the bound on units
  is reached.
* `FairTunnelSpec` (VpnTunnel): weak fairness of activations and refresh timers,
  which asyncio runs once their delay is over unless they are cancelled. Nothing is
  assumed of the client, of requests, or of faults.

No other run is about liveness, and no other specification has fairness.

## 5. The proofs

Checked by TLAPS for all values of the constants that satisfy the stated `ASSUME`s.
Each component has one inductive invariant `IInv` and three facts, `Init => IInv`,
`IInv /\ [Next]_vars => IInv'` and `IInv => ` the property; the last theorem of
each kind combines them with temporal logic.

**EkmProofs** (from `PeerAssumption`, `BoundAssumption`). `UnitSpentOnce` is not
inductive: a unit on its way from the source, in the reply or in the pull thread's
hands is in no table and no deque. `Arrived` is the highest id not in flight;
`OlderInv` says that everything outside the pull thread is at most that, so that an
append brings ids nobody has; `DistinctInv` and `UnspentInv` keep buffered units
apart and unspent; `HandlerInv` follows the unit of the request in progress through
its writes; `StoreInv` relates tables and history. `PullInv` (a call leaves room
for all it asked for) carries `PoolWithinTarget` across the unlocked call:
handlers and expiry only remove. `SortedInv` and `AgeInv` (a deque is in order of
arrival and older than the batch in flight) carry `ExpiryIsComplete`. Proved:
`TypeOK`, `UnitSpentOnce`, `EveryWrapUnwraps`, `BindingMatchesKek`,
`PoolWithinTarget`, `ExpiryIsComplete`, `OutageFlagRecoverable`,
`ExhaustedMeansNoneDelivered`, and `ImplementsLedger`: initial states map to
initial states and every step is a step of `KeyLedger` or a stutter.

**LifecycleModelProofs** (no assumption on `Rules`: every reading). The invariant
is I1–I7 with types, and `PoolOrder`, the form of I1 a step needs: with `fifo_pool` the queue
lists the pool without repetition, without it the queue stays empty. Proved:
`ReadingsSafe` (I1–I7), `EpochsAdvanceAlways`, `RecoveryLeftRestoredAlways`, for
any identifiers, versions and number of epochs.

Each of I1–I7 and `TypeOK` is also a theorem of its own.

**ChecksProofs** (from `SeededAssumption` and those above). `checks.py` counts: two
bindings of one identifier are `len(set(...)) != len(...)`. `CheckerExact` says that each
test fires on a state of an enumeration exactly when the property it stands for fails
there, so the checker is neither weaker nor stronger than I1–I7; it needs that the set of
bindings is finite (`BindingsFinite`) and two lemmas on counting (`CountsDistinct`,
`ListsOnce`). With I1–I7 proved, `EnumerationClean` follows for every reading and any domains.
`SeededDetected` needs no invariant: `StatesDetected` and `StepsDetected` find each
fault in any state whatever, reachable or not.

**VpnProofs** (from `VpnAssumption`, any `Faults`). Memory, disk and kernel are three
copies of one assignment of addresses; `SavedIsHeld`, `OwnAddress`, `OwnRoute`,
`ToldIsSaved`, `Accepted` and `Known` say how far they may drift apart. Proved: `TypeOK`,
`AddressKept`, `NoHalfConfiguredPeer`, and `StatusTellsPsk` under the
hypothesis `"save" \notin Faults` (a save that is reached succeeds), which is the
condition under which the property is meant. It counts the peers whose record does not
name the kernel's key: a step other than a death adds none (memory and file are
written together), a restart or reboot adds none because the file that is
loaded is the memory of before, and a death inside `apply_key` adds at most the peer being
served (`NoneMisreported`, `OneMisreported`). `FlaggedOrTimed` is the safety half of
`RefreshFlagged`: where the server stays up and can write its file, a configured peer is flagged
or its timer runs. Without a timer nothing would ever flag it, which is what happens
to peers loaded after a restart (section 6).

**VpnTunnelProofs** (from `VpnAssumption`) has four layers, each an invariant with fewer
faults allowed than the one before.

1. *Every fault.* Every step of the tunnel is a step of `Vpn` or leaves the server alone
   (`StepOfServer`), so the tunnel implements `Vpn` (`ImplementsVpn`) and what is proved of the
   server alone holds with its client around it (`TunnelAddressKept`,
   `TunnelStatusTellsPsk`). `TInv` adds the shape of the command in progress (`ClientType`),
   that requests are numbered apart so that an answer that bears the command's number
   is its own (`Numbered`), and that whoever has a session or is about to have one was
   told an address (`SessionOwned`); `RefreshPossible` follows. `OInv` adds that only
   key pairs that were made are at work (`Own`), that a request's number waits or was answered and
   a peer has one activation pending at most (`Apart`), and that a peer that waits for admission
   does nothing else (`Newcomer`).
   `FileOfPsk` says what the file tells of the PSK line by line of a command, as long as the
   last one sent has not failed; it gives `SessionNamesPsk`.
2. *`NoKills`: no command is killed.* `FileOfInterface` says what the session file, readable
   or torn, tells of the key pair that runs, after failed commands too; it gives
   `SessionMatchesInterface`. With kills it is false (section 3).
3. *`Quiet`: in addition no server restart or reboot, no failing `wg set` at the server, no
   abandoned command.* What remains is lost answers, EKM errors, failed saves, keys lost on
   the way, commands that fail and clients restarted at any point. `Agreement` says that no request for
   the live key pair waits but that of the command in progress, and that from the answer
   of a command until the next one the server is on the key of that command or about
   to switch to it and to no other (`Agreed`). It gives `TunnelAgrees`, and
   `SwitchUnderWay`, the safety half of `RekeyCompletes`. Nothing in `Quiet` can be spared: with any
   one of its five parts given up, TLC finds `TunnelAgrees` violated. Restarts and abandoned commands
   are findings 3 and 4; an activation whose `wg set` fails is logged and forgotten
   while the client switches; for killed commands see section 6.
4. *The refinement.* `RInv` adds that the server has not crashed, so that the kernel has a key for
   every peer it knows. `ImplementsRekeying` shows, case by case, that initial states map to initial
   states and each step of the tunnel to a step of `Rekeying` or a stutter. `Rekeying` has a
   theorem of its own, `KeyOfOneAlways`: no key is ever at work for two peers, at either
   end. `TunnelKeysOfOne` inherits it for the program through the mapping.

**StorageProofs** (from the assumptions of `Rotate` and `Storage`). `KmsInv`: a highest
version exists, the primary is enabled, and what a job has seen of its
version stays true; it gives `PrimaryEnabled` for any number of jobs. `UnitInv` ties
units to paths and objects to versions for any number of jobs too: a path's number never
exceeds its version's id, and the EKM ties a path once. It gives what is left when
rotations overlap: `UnitsFollowPaths` (the EKM holds the unit of every object, and two
objects share a unit exactly if they share a path) and `NextPathIsNew` (the number
a rotation picks is above every path in use). `RotationSeparatesUploads` says that no two
versions share a path; it needs `OneJob` (with two jobs it is false, section 6) and `OrderInv`, that a
path's number is above every older id. `ConfirmedIsStored` relates the command, the waiting
write and the bucket. `KeyInv` bounds the age of everything that mentions a file key: a request, a
cache entry and a client's copy; it gives both TTL properties.

**CaptureProofs** (from the assumptions of `QkdSim` and `Capture`). Every bit counter is
tied to the cardinality of the set it counts, and every value read to the token it
was read with; a token belongs to one process. The block a capture wrote adds up for any
distance between its two readings of the clock. Proved: all four properties of the
run, for any keys, rates, requests, processes and bounds.

Only model-checked: everything under fairness (`OutageEnds`, `RekeyCompletes`,
`RefreshFlagged`; liveness and ENABLED are beyond the prover used; `OutageFlagRecoverable`,
`SwitchUnderWay` and `FlaggedOrTimed` are their proved safety parts), and the violations (a
counterexample is its own evidence). That TLC counts 45,824 states for the calibrated
reading is a fact about one instance and not a theorem. Every safety property of the
runs that pass is a theorem.

## 6. Findings

Each is the subject of one run whose property quotes the documentation.

1. `ekm_bound`: a wrap can be answered without its binding ever being written.
   `docs/architecture.md:42-43` says the binding is persisted before the answer. The
   `kek` row comes first; if the process dies or the second write fails, the retry
   finds the `kek` row and skips both. `EveryWrapUnwraps` and `BindingMatchesKek`
   hold nevertheless.
2. `ekm_ready`: `/api/state` reads `source_available` twice. If the pull thread
   sets it in between, READY is reported for a source that has just come back, with
   nothing pending and nothing acknowledged (`ekm/app.py:124` says an ack is needed).
3. `tunnel_restart`: an announced activation lives in an asyncio task. A restart of
   the server before `effective_time` loses it; the client switches alone.
4. `tunnel_order`: of two refreshes of one peer, the one whose EKM call
   returns last wins, even if it is the older and the client has abandoned it. The
   comment at `vpn/app.py:307-308` says the older key must not be installed.

Seen while modelling, with no run of their own:

* a restart clears `recovery_pending` although nobody acknowledged the recovery;
* refresh timers are armed only when a key is applied, so peers loaded from
  `peers.json` after a restart are not flagged until their next key;
* `_wrap` and `new_key` allocate whenever the deque holds a unit, in RECOVERY too,
  where `docs/architecture.md:117` gives fresh allocation as "no";
* two overlapping rotations compute the same next number, and two versions then
  share a key path and a unit. The scheduled job is serial (a systemd oneshot), and
  `storage` has one job; with `Jobs = {j1, j2}` `RotationSeparatesUploads` fails;
* after a kill between truncating and writing `session.json`, `refresh` and `status`
  end in a JSON error that `run` (`client/cli.py`) does not turn into a message; only
  `disconnect` and a new `connect` mend it;
* a server that dies between `wg set` and the save of `peers.json` comes back with the
  old key id in `/api/status` for that peer, until its next key is applied;
* after the sequence of section 3 (a killed disconnect, then a killed connect) `refresh` works
  for the peer of the old session: the server installs the key for k1, the client puts it on the
  interface that runs as k2, and the command ends with exit code 0 on a tunnel whose ends
  differ. Only `disconnect` and a new `connect` mend it;
* `current_bits` and `deleted_bits` of a status block can add up to less than its
  `total_generated_bits`, since the clock is read once for each (`qkdsim/app.py:86`, `93`);
* a dec_keys request that is refused at a later id has consumed the earlier ones
  without delivering them (`qkdsim/app.py:165-171`), so a repeated id or one bad id
  costs keys;
* enc_keys does not look at the inventory, so the available keys of the status block
  can go below zero, and so can the current bits;
* with a stale `--token` a capture never logs in again and ends with every rate
  `None`, even if the password is right; a wrong ETSI token aborts it without a file;
* where the status route wants no token (`SIM_TOKEN` unset), the counters of a capture can come from a later
  process than its rates;
* `scripts/model_calibrate.py:141` says edge knobs never change which states are
  reachable; `authority_only_when_degraded` with `recover_needs_authority` does (18,000
  states against 19,200).

## 7. Not modelled

* `analysis/`: floating-point formulas and plots.
* `common/`: token checks, AES-GCM, base64, logging, settings; no state.
* The reports of `model/enumerate.py` and `model/seeded.py`, and `status` of the CLI:
  output of what is modelled.
* The rest of `scripts/`, `terraform/`: drivers and declarative set-up; what terraform fixes
  (first version, restart policy, timers) appears as initial state and assumptions.
* The content of the EKM's local key file, which a crash in `store.py` can leave empty.
* A property about the mode at the time of an allocation, and one about a recovery
  that a restart forgets: both would restate what the code plainly does (section 6).

## 8. Plan

Done, in this order: `Ekm` with `KeyLedger`; its proofs; `LifecycleModel` and its
proofs; `Vpn` and its proofs; `VpnTunnel`; `Rotate` and `Storage`; the sweep of
readings with `Calibrate`, `Checks` and `Seeded`; `QkdSim` and `Capture` with their
proofs; the torn session file; `VpnTunnelProofs`; `StorageProofs`; `ChecksProofs`;
`Rekeying` and the proof that the tunnel implements it; deaths inside `apply_key` and
inside `disconnect`.

Left:

1. `QkdSim` in place of the local key stores of `VpnTunnel` and `Ekm`.
2. An abstract specification of the storage path (objects, units and a rotation between
   them) that `Storage` implements, as `Rekeying` is of the tunnel.
3. Overlapping rotations as a run: `UnitsFollowPaths` and `NextPathIsNew` are proved for
   them, and no run of the project has two jobs.
4. What the tunnel still promises when the server restarts or a `wg set` fails, where
   `TunnelAgrees` is false: that the next refresh mends it, if a client starts one and no
   command was killed.
