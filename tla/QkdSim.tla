------------------------------- MODULE QkdSim -------------------------------
(***************************************************************************)
(* The QKD simulator (src/qkd_ekm/qkdsim): the in-memory key store that    *)
(* issues a key with enc_keys and gives it to the peer once with dec_keys, *)
(* and the counters its status block reports.  No handler awaits anything  *)
(* once it has its parameters, so each is one step of the event loop; the  *)
(* clock goes on while it runs.                                            *)
(*                                                                         *)
(* An identifier is a uuid4: one that was issued is never issued again,    *)
(* not even by another process.  A process is known by its number.         *)
(***************************************************************************)
EXTENDS Integers, Sequences, FiniteSets

CONSTANTS
  KEYS,                 \* identifiers
  INVENTORY,            \* keys the appliance claims to hold at the start
  MAX_KEY_PER_REQUEST,  \* the most keys enc_keys issues at once
  MAX_IDS,              \* bound: identifiers in one dec_keys request
  MAX_REQUESTS,         \* bound: enc_keys requests one process answers
  MAX_GENERATED_BITS,   \* bound: bits generated since the start of the process
  MAX_PROCESSES         \* bound: processes

ASSUME SimAssumption ==
  /\ INVENTORY \in Nat /\ MAX_KEY_PER_REQUEST \in Nat
  /\ MAX_IDS \in Nat /\ MAX_REQUESTS \in Nat /\ MAX_GENERATED_BITS \in Nat /\ MAX_PROCESSES \in Nat
  /\ IsFiniteSet(KEYS)

VARIABLES
  process,              \* number of the running process; its JWT secret is its own
  source_available,
  keys,                 \* identifiers in _keys
  consumed_ids,
  consumed_keys, consumed_bits, key_requests, failed_key_requests, deleted_bits,
  generated_bits,       \* what the property tells now: time since _start times the rate
  fresh,                \* history: identifiers no process has issued
  given                 \* history: how often dec_keys gave each key

storeVars == <<keys, consumed_ids, consumed_keys, consumed_bits, key_requests,
               failed_key_requests, deleted_bits>>
simVars == <<process, source_available, storeVars, generated_bits, fresh, given>>

KEY_BITS == 256

SimInit ==
  /\ process = 1 /\ source_available = TRUE /\ generated_bits = 0
  /\ keys = {} /\ consumed_ids = {}
  /\ consumed_keys = 0 /\ consumed_bits = 0 /\ deleted_bits = 0
  /\ key_requests = 0 /\ failed_key_requests = 0
  /\ fresh = KEYS /\ given = [k \in KEYS |-> 0]

(***************************************************************************)
(* enc_keys.  A number outside 1..MAX_KEY_PER_REQUEST is refused with 400  *)
(* before anything changes.  The inventory is never consulted.             *)
(***************************************************************************)
NewKeys(S) ==
  /\ S \subseteq fresh /\ fresh' = fresh \ S
  /\ keys' = keys \cup S
  /\ consumed_keys' = consumed_keys + Cardinality(S)
  /\ consumed_bits' = consumed_bits + KEY_BITS * Cardinality(S)

EncKeys(S) ==
  /\ Cardinality(S) \in 1..MAX_KEY_PER_REQUEST
  /\ source_available /\ key_requests + failed_key_requests < MAX_REQUESTS
  /\ key_requests' = key_requests + 1
  /\ NewKeys(S)
  /\ UNCHANGED <<process, source_available, consumed_ids, failed_key_requests,
                 deleted_bits, generated_bits, given>>

EncKeysUnavailable ==
  /\ ~source_available /\ key_requests + failed_key_requests < MAX_REQUESTS
  /\ failed_key_requests' = failed_key_requests + 1
  /\ UNCHANGED <<process, source_available, keys, consumed_ids, consumed_keys,
                 consumed_bits, key_requests, deleted_bits, generated_bits, fresh, given>>

(***************************************************************************)
(* dec_keys walks over the identifiers and consumes each as it goes; the   *)
(* first that is unknown, consumed or repeated ends the request with 404   *)
(* or 400 and no key is given, although those before it are consumed.      *)
(***************************************************************************)
\* Mutant: what an earlier element of the same request took is not seen.
AcceptableEach(ids, i) == ids[i] \in keys \ consumed_ids

Acceptable(ids, i) ==
  /\ ids[i] \in keys \ consumed_ids
  /\ \A j \in 1..(i - 1) : ids[j] # ids[i]

Honoured(ids) == {i \in DOMAIN ids : \A j \in 1..i : Acceptable(ids, j)}

Times(ids, k) == Cardinality({i \in DOMAIN ids : ids[i] = k})

DecKeys(ids) ==
  /\ consumed_ids' = consumed_ids \cup {ids[i] : i \in Honoured(ids)}
  /\ deleted_bits' = deleted_bits + KEY_BITS * Cardinality(Honoured(ids))
  /\ given' = IF Honoured(ids) = DOMAIN ids
              THEN [k \in KEYS |-> given[k] + Times(ids, k)]
              ELSE given
  /\ UNCHANGED <<process, source_available, keys, consumed_keys, consumed_bits,
                 key_requests, failed_key_requests, generated_bits, fresh>>

\* What a client sends: one identifier with GET, any other number with POST.
Requests == UNION {[1..n -> KEYS] : n \in 0..MAX_IDS}

SimSource(available) ==
  /\ source_available' = available
  /\ UNCHANGED <<process, storeVars, generated_bits, fresh, given>>

Elapse ==
  /\ generated_bits < MAX_GENERATED_BITS /\ generated_bits' = generated_bits + 1
  /\ UNCHANGED <<process, source_available, storeVars, fresh, given>>

\* The process ends and another starts: an empty store and a new JWT secret.
SimRestart ==
  /\ process < MAX_PROCESSES /\ process' = process + 1
  /\ source_available' = TRUE /\ generated_bits' = 0
  /\ keys' = {} /\ consumed_ids' = {}
  /\ consumed_keys' = 0 /\ consumed_bits' = 0 /\ deleted_bits' = 0
  /\ key_requests' = 0 /\ failed_key_requests' = 0
  /\ UNCHANGED <<fresh, given>>

SimNext ==
  \/ \E S \in SUBSET fresh : EncKeys(S)
  \/ EncKeysUnavailable
  \/ \E ids \in Requests : DecKeys(ids)
  \/ \E available \in BOOLEAN : SimSource(available)
  \/ Elapse
  \/ SimRestart

(***************************************************************************)
(* What the status block tells.                                            *)
(***************************************************************************)
pending_count == Cardinality(keys) - Cardinality(consumed_ids)

\* The clock is read for current_bits, and once more, later, for total_generated_bits.
status_extension(later) ==
  [current_bits |-> generated_bits - deleted_bits,
   num_of_256_keys_available |-> INVENTORY - Cardinality(keys),
   consumed_bits |-> consumed_bits,
   consumed_keys |-> consumed_keys,
   key_requests |-> key_requests,
   failed_key_requests |-> failed_key_requests,
   total_generated_bits |-> later,
   deleted_bits |-> deleted_bits]

-----------------------------------------------------------------------------

\* A status block adds up: keys and bits count the same keys, what was deleted was consumed
\* before, what is left and what was deleted are not more than was generated, and no request
\* was answered with more keys than the limit (store.py new_key, consume).
Reconciles(ext) ==
  /\ ext.consumed_bits = KEY_BITS * ext.consumed_keys
  /\ ext.num_of_256_keys_available + ext.consumed_keys = INVENTORY
  /\ ext.current_bits + ext.deleted_bits <= ext.total_generated_bits
  /\ ext.deleted_bits \in 0..ext.consumed_bits
  /\ ext.key_requests <= ext.consumed_keys
  /\ ext.consumed_keys <= MAX_KEY_PER_REQUEST * ext.key_requests

\* A key is given to a peer at most once, whatever the requests repeat or mix and however
\* often the process restarts (app.py dec_keys, store.py consume).
KeyGivenOnce == \A k \in KEYS : given[k] <= 1
=============================================================================
