--------------------------- MODULE CaptureProofs ---------------------------
(***************************************************************************)
(* Theorems about QkdSim and Capture.  The store's part of the invariant   *)
(* ties every counter to the set it counts; the capture's part ties what   *)
(* was read to the token it was read with.                                 *)
(***************************************************************************)
EXTENDS Capture, FiniteSetTheorems, FunctionTheorems, TLAPS

SimType ==
  /\ process \in Nat \ {0} /\ source_available \in BOOLEAN
  /\ keys \subseteq KEYS /\ consumed_ids \subseteq keys /\ fresh \subseteq KEYS
  /\ consumed_keys \in Nat /\ consumed_bits \in Nat /\ deleted_bits \in Nat
  /\ key_requests \in Nat /\ failed_key_requests \in Nat /\ generated_bits \in Nat
  /\ given \in [KEYS -> Nat]

Once ==
  /\ keys \cap fresh = {}
  /\ \A k \in KEYS : given[k] <= 1
  /\ \A k \in fresh \cup (keys \ consumed_ids) : given[k] = 0

Counted ==
  /\ consumed_keys = Cardinality(keys)
  /\ consumed_bits = KEY_BITS * consumed_keys
  /\ deleted_bits = KEY_BITS * Cardinality(consumed_ids)
  /\ key_requests <= consumed_keys
  /\ consumed_keys <= MAX_KEY_PER_REQUEST * key_requests

SimInv == SimType /\ Once /\ Counted

-----------------------------------------------------------------------------

LEMMA KeysFinite ==
  ASSUME NEW S \in SUBSET KEYS
  PROVE  IsFiniteSet(S) /\ Cardinality(S) \in Nat
BY SimAssumption, FS_Subset, FS_CardinalityType

LEMMA DisjointUnion ==
  ASSUME NEW S \in SUBSET KEYS, NEW T \in SUBSET KEYS, S \cap T = {}
  PROVE  Cardinality(S \cup T) = Cardinality(S) + Cardinality(T)
<1>1. Cardinality(S \cup T) = Cardinality(S) + Cardinality(T) - Cardinality(S \cap T)
  BY KeysFinite, FS_Union
<1>2. Cardinality(S \cap T) = 0
  BY FS_EmptySet
<1> QED BY <1>1, <1>2, KeysFinite

\* One more request with between one and the limit of keys keeps the requests between the two bounds.
LEMMA RequestArithmetic ==
  ASSUME NEW c \in Nat, NEW n \in Nat, NEW r \in Nat, NEW m \in Nat,
         n \in 1..m, r <= c, c <= m * r
  PROVE  r + 1 <= c + n /\ c + n <= m * (r + 1)
<1>1. m * (r + 1) = m * r + m
  OBVIOUS
<1> QED BY <1>1

LEMMA RequestDomain ==
  ASSUME NEW ids \in Requests
  PROVE  /\ \E n \in 0..MAX_IDS : ids \in [1..n -> KEYS] /\ DOMAIN ids = 1..n
         /\ IsFiniteSet(DOMAIN ids)
<1>1. PICK n \in 0..MAX_IDS : ids \in [1..n -> KEYS]
  BY DEF Requests
<1>2. n \in Nat /\ DOMAIN ids = 1..n
  BY <1>1, SimAssumption
<1> QED BY <1>1, <1>2, FS_Interval

\* What dec_keys consumes: as many keys as positions it honours, each pending before.
LEMMA HonouredKeys ==
  ASSUME NEW ids \in Requests, keys \subseteq KEYS
  PROVE  LET T == {ids[i] : i \in Honoured(ids)}
         IN  T \subseteq keys \ consumed_ids /\ Cardinality(T) = Cardinality(Honoured(ids))
<1> DEFINE H == Honoured(ids)
           T == {ids[i] : i \in H}
           f == [i \in H |-> ids[i]]
<1>1. PICK n \in 0..MAX_IDS : ids \in [1..n -> KEYS] /\ DOMAIN ids = 1..n
  BY RequestDomain
<1>2. n \in Nat /\ H \subseteq 1..n
  BY <1>1, SimAssumption DEF Honoured
<1>3. \A i \in H : i \in 1..i /\ Acceptable(ids, i)
  BY <1>2 DEF Honoured
<1>4. \A i, j \in H : i # j => ids[i] # ids[j]
  <2>1. SUFFICES ASSUME NEW i \in H, NEW j \in H, j < i PROVE ids[i] # ids[j]
    BY <1>2
  <2>2. j \in 1..(i - 1)
    BY <1>2, <2>1
  <2> QED BY <1>3, <2>2 DEF Acceptable
<1>5. f \in Bijection(H, T)
  BY <1>4, Fun_IsBij
<1>6. IsFiniteSet(H)
  BY <1>1, <1>2, RequestDomain, FS_Subset
<1>7. Cardinality(T) = Cardinality(H)
  BY <1>5, <1>6, FS_Bijection, Fun_ExistsBij
<1> QED BY <1>3, <1>7 DEF Acceptable

\* An answered request names every key at most once, and only keys it has just consumed.
LEMMA AnsweredTimes ==
  ASSUME NEW ids \in Requests, Honoured(ids) = DOMAIN ids, NEW k \in KEYS
  PROVE  /\ Times(ids, k) \in {0, 1}
         /\ Times(ids, k) = 1 => k \in {ids[i] : i \in Honoured(ids)} /\ k \in keys \ consumed_ids
<1> DEFINE P == {i \in DOMAIN ids : ids[i] = k}
<1>1. PICK n \in 0..MAX_IDS : ids \in [1..n -> KEYS] /\ DOMAIN ids = 1..n
  BY RequestDomain
<1>2. \A i \in DOMAIN ids : i \in Nat /\ i \in 1..i /\ Acceptable(ids, i)
  BY <1>1, SimAssumption DEF Honoured
<1>3. CASE P = {}
  BY <1>3, FS_EmptySet DEF Times
<1>4. CASE P # {}
  <2>1. PICK i \in DOMAIN ids : ids[i] = k
    BY <1>4
  <2>2. \A j \in DOMAIN ids : ids[j] = k => j = i
    <3>1. SUFFICES ASSUME NEW j \in DOMAIN ids, ids[j] = k, j # i PROVE FALSE
      OBVIOUS
    <3>2. j \in 1..(i - 1) \/ i \in 1..(j - 1)
      BY <1>1, <1>2, <3>1, SimAssumption
    <3> QED BY <1>2, <2>1, <3>1, <3>2 DEF Acceptable
  <2>3. P = {i}
    BY <2>1, <2>2
  <2>4. Times(ids, k) = 1
    BY <2>3, FS_Singleton DEF Times
  <2> QED BY <1>2, <2>1, <2>4 DEF Acceptable
<1> QED BY <1>3, <1>4

LEMMA InitSimInv == SimInit => SimInv
<1> SUFFICES ASSUME SimInit PROVE SimInv
  OBVIOUS
<1>1. Cardinality({}) = 0
  BY FS_EmptySet
<1>2. keys = {} /\ consumed_ids = {} /\ fresh = KEYS /\ given = [k \in KEYS |-> 0]
  BY DEF SimInit
<1>3. SimType
  BY <1>2 DEF SimInit, SimType
<1>4. Once
  BY <1>2 DEF Once
<1>5. Counted
  BY <1>1, <1>2, SimAssumption DEF SimInit, Counted, KEY_BITS
<1> QED BY <1>3, <1>4, <1>5 DEF SimInv

LEMMA StepEncKeys ==
  ASSUME SimInv, NEW S \in SUBSET fresh, EncKeys(S) PROVE SimInv'
<1> USE DEF SimInv
<1>1. S \subseteq KEYS /\ S \cap keys = {} /\ keys' = keys \cup S /\ fresh' = fresh \ S
  BY DEF EncKeys, NewKeys, SimType, Once
<1>2. Cardinality(S) \in Nat /\ Cardinality(S) \in 1..MAX_KEY_PER_REQUEST
  BY <1>1, KeysFinite DEF EncKeys, NewKeys
<1>3. Cardinality(keys') = Cardinality(keys) + Cardinality(S)
  BY <1>1, DisjointUnion DEF SimType
<1>4. /\ key_requests \in Nat /\ consumed_keys \in Nat /\ consumed_bits \in Nat
      /\ MAX_KEY_PER_REQUEST \in Nat
  BY SimAssumption DEF SimType
<1>5. SimType'
  BY <1>1, <1>2, <1>4 DEF EncKeys, NewKeys, SimType, KEY_BITS
<1>6. Once'
  BY <1>1 DEF EncKeys, NewKeys, Once, SimType
<1>7. key_requests' <= consumed_keys' /\ consumed_keys' <= MAX_KEY_PER_REQUEST * key_requests'
  BY <1>2, <1>4, RequestArithmetic DEF EncKeys, NewKeys, Counted
<1>8. Counted'
  BY <1>2, <1>3, <1>4, <1>7 DEF EncKeys, NewKeys, Counted, KEY_BITS
<1> QED BY <1>5, <1>6, <1>8

LEMMA StepDecKeys ==
  ASSUME SimInv, NEW ids \in Requests, DecKeys(ids) PROVE SimInv'
<1> USE DEF SimInv
<1> DEFINE T == {ids[i] : i \in Honoured(ids)}
<1>1. T \subseteq keys \ consumed_ids /\ Cardinality(T) = Cardinality(Honoured(ids))
  BY HonouredKeys DEF SimType
<1>2. consumed_ids' = consumed_ids \cup T /\ keys' = keys /\ fresh' = fresh
  BY DEF DecKeys
<1>3. Cardinality(consumed_ids') = Cardinality(consumed_ids) + Cardinality(T)
  BY <1>1, <1>2, DisjointUnion DEF SimType
<1>4. Cardinality(T) \in Nat /\ Cardinality(consumed_ids) \in Nat /\ deleted_bits \in Nat
  BY <1>1, KeysFinite DEF SimType
<1>6. given' \in [KEYS -> Nat]
  <2>1. CASE Honoured(ids) = DOMAIN ids
    BY <2>1, AnsweredTimes DEF DecKeys, SimType
  <2>2. CASE Honoured(ids) # DOMAIN ids
    BY <2>2 DEF DecKeys, SimType
  <2> QED BY <2>1, <2>2
<1>7. \A k \in KEYS : given'[k] <= 1 /\ (given'[k] = given[k] \/ k \in T)
  <2>1. SUFFICES ASSUME NEW k \in KEYS
                 PROVE  given'[k] <= 1 /\ (given'[k] = given[k] \/ k \in T)
    OBVIOUS
  <2>2. CASE Honoured(ids) # DOMAIN ids
    BY <2>2 DEF DecKeys, Once
  <2>3. CASE Honoured(ids) = DOMAIN ids
    <3>1. given'[k] = given[k] + Times(ids, k) /\ given[k] \in Nat /\ given[k] <= 1
      BY <2>3 DEF DecKeys, Once, SimType
    <3>2. CASE Times(ids, k) = 0
      BY <3>1, <3>2
    <3>3. CASE Times(ids, k) = 1
      <4>1. k \in T /\ k \in keys \ consumed_ids
        BY <2>3, <3>3, AnsweredTimes
      <4> QED BY <3>1, <3>3, <4>1 DEF Once
    <3> QED BY <2>3, <3>2, <3>3, AnsweredTimes
  <2> QED BY <2>2, <2>3
<1>8. SimType'
  BY <1>1, <1>2, <1>4, <1>6 DEF DecKeys, SimType, KEY_BITS
<1>9. Once'
  <2>1. keys' \cap fresh' = {}
    BY <1>2 DEF Once
  <2>2. ASSUME NEW k \in fresh' \cup (keys' \ consumed_ids') PROVE given'[k] = 0
    <3>1. k \in KEYS /\ k \notin T /\ k \in fresh \cup (keys \ consumed_ids)
      BY <1>1, <1>2 DEF Once, SimType
    <3> QED BY <1>7, <3>1 DEF Once
  <2> QED BY <1>7, <2>1, <2>2 DEF Once
<1>10. Counted'
  BY <1>1, <1>2, <1>3, <1>4 DEF DecKeys, Counted, KEY_BITS
<1> QED BY <1>8, <1>9, <1>10

LEMMA StepRestart ==
  ASSUME SimInv, SimRestart PROVE SimInv'
<1> USE DEF SimInv
<1>1. Cardinality({}) = 0
  BY FS_EmptySet
<1>2. SimType'
  BY DEF SimRestart, SimType
<1>3. Once'
  BY DEF SimRestart, Once
<1>4. Counted'
  BY <1>1, SimAssumption DEF SimRestart, Counted, KEY_BITS
<1> QED BY <1>2, <1>3, <1>4

LEMMA StepOther ==
  ASSUME SimInv,
         EncKeysUnavailable \/ (\E available \in BOOLEAN : SimSource(available)) \/ Elapse
           \/ UNCHANGED simVars
  PROVE  SimInv'
<1> USE DEF SimInv
<1>1. UNCHANGED <<process, keys, consumed_ids, consumed_keys, consumed_bits, key_requests,
                  deleted_bits, fresh, given>>
  BY DEF EncKeysUnavailable, SimSource, Elapse, simVars, storeVars
<1>2. Once' /\ Counted'
  BY <1>1 DEF Once, Counted
<1>3. /\ source_available' \in BOOLEAN
      /\ failed_key_requests' \in Nat /\ generated_bits' \in Nat
  BY DEF EncKeysUnavailable, SimSource, Elapse, simVars, storeVars, SimType
<1>4. SimType'
  BY <1>1, <1>3 DEF SimType
<1> QED BY <1>2, <1>4

LEMMA StepSim == ASSUME SimInv, SimNext \/ UNCHANGED simVars PROVE SimInv'
BY StepEncKeys, StepDecKeys, StepRestart, StepOther DEF SimNext

\* The status block of a state that satisfies the invariant adds up.
LEMMA StatusReconciles ==
  ASSUME SimInv
  PROVE  /\ \A later \in generated_bits..MAX_GENERATED_BITS : Reconciles(status_extension(later))
         /\ consumed_bits - deleted_bits = KEY_BITS * pending_count
<1>1. /\ Cardinality(keys) \in Nat /\ Cardinality(consumed_ids) \in Nat
      /\ Cardinality(consumed_ids) <= Cardinality(keys)
  BY KeysFinite, FS_Subset DEF SimInv, SimType
<1>2. INVENTORY \in Nat /\ generated_bits \in Nat /\ consumed_keys \in Nat
  BY SimAssumption DEF SimInv, SimType
<1>3. consumed_bits - deleted_bits = KEY_BITS * pending_count
  BY <1>1 DEF SimInv, Counted, pending_count, KEY_BITS
<1>4. deleted_bits \in 0..consumed_bits
  BY <1>1 DEF SimInv, Counted, KEY_BITS
<1>5. ASSUME NEW later \in generated_bits..MAX_GENERATED_BITS
      PROVE  Reconciles(status_extension(later))
  BY <1>1, <1>2, <1>4, SimAssumption
  DEF SimInv, Counted, Reconciles, status_extension, KEY_BITS
<1> QED BY <1>3, <1>5

-----------------------------------------------------------------------------

\* While rates are read, each that was read came from the process whose token is still in use.
ReadWithToken ==
  /\ rates \in [RateFields -> Nat]
  /\ at \in RateFields \cup NotRates
  /\ at \in RateFields =>
       \A f \in RateFields : rates[f] # NoProcess => token = Jwt(rates[f])

BlockReconciles == counters # NoBlock => Reconciles(counters.ext)

\* Position i of RATES lies behind the capture.
Behind(i) == at \in RateFields => \E j \in DOMAIN RATES : at = RATES[j] /\ i < j

\* How far an undisturbed capture with the right credentials has come.
Progress ==
  undisturbed /\ Credentials /\ at # "idle" =>
    /\ \A i \in DOMAIN RATES : Behind(i) => rates[RATES[i]] = process
    /\ at \in RateFields \cup {"key_servers"} =>
         token = Jwt(process) \/ (token = NoToken /\ args.token = NoToken)
    /\ at = "status" => token = Jwt(process)
    /\ at = "second_status" => token = args.etsi_token /\ guarded
    /\ at = "written" => counters.process = process
    /\ at # "aborted"

IInv == SimInv /\ ReadWithToken /\ RatesOneProcess /\ BlockReconciles /\ Progress

LEMMA RatesFacts ==
  /\ DOMAIN RATES = 1..Len(RATES) /\ Len(RATES) \in Nat \ {0}
  /\ RateFields \cap NotRates = {}
  /\ RATES[1] \in RateFields
  /\ \A f \in RateFields : \E i \in DOMAIN RATES : f = RATES[i]
  /\ \A i \in DOMAIN RATES : RATES[i] \in RateFields
BY RatesAssumption DEF RateFields

\* After the rate at one position comes the rate at the next, or the list of key servers.
LEMMA AfterRateIs ==
  ASSUME NEW i \in DOMAIN RATES
  PROVE  AfterRate(RATES[i]) = IF i < Len(RATES) THEN RATES[i + 1] ELSE "key_servers"
<1>1. (CHOOSE n \in DOMAIN RATES : RATES[n] = RATES[i]) = i
  BY RatesAssumption
<1> QED BY <1>1 DEF AfterRate

LEMMA AfterRateIn ==
  ASSUME NEW f \in RateFields PROVE AfterRate(f) \in RateFields \cup {"key_servers"}
<1>1. PICK i \in DOMAIN RATES : f = RATES[i]
  BY RatesFacts
<1>2. i < Len(RATES) => i + 1 \in DOMAIN RATES
  BY RatesFacts
<1> QED BY <1>1, <1>2, AfterRateIs, RatesFacts

\* Moving on from a rate puts that rate, and no other, behind the capture.
LEMMA BehindNext ==
  ASSUME NEW i \in DOMAIN RATES, at = RATES[i], at' = AfterRate(at),
         NEW n \in DOMAIN RATES, Behind(n)'
  PROVE  n = i \/ Behind(n)
<1>1. CASE i < Len(RATES)
  <2>1. at' = RATES[i + 1] /\ i + 1 \in DOMAIN RATES
    BY <1>1, AfterRateIs, RatesFacts
  <2>2. PICK j \in DOMAIN RATES : RATES[i + 1] = RATES[j] /\ n < j
    BY <2>1, RatesFacts DEF Behind
  <2>3. j = i + 1
    BY <2>1, <2>2, RatesAssumption
  <2> QED BY <2>2, <2>3, RatesFacts DEF Behind
<1>2. CASE ~(i < Len(RATES))
  <2>1. i = Len(RATES)
    BY <1>2, RatesFacts
  <2> QED BY <2>1, RatesFacts DEF Behind
<1> QED BY <1>1, <1>2

LEMMA Tokens ==
  /\ \A p, q : Jwt(p) = Jwt(q) => p = q
  /\ \A p : Jwt(p) # NoToken /\ Jwt(p) # SimToken
  /\ NoToken # SimToken
BY DEF Jwt, NoToken, SimToken

LEMMA InitIInv == Init => IInv
<1> SUFFICES ASSUME Init PROVE IInv
  OBVIOUS
<1>1. SimInv
  BY InitSimInv DEF Init
<1>2. at = "idle" /\ rates = [f \in RateFields |-> NoProcess] /\ counters = NoBlock
  BY DEF Init
<1>3. ReadWithToken
  BY <1>2, RatesFacts DEF ReadWithToken, NotRates, NoProcess
<1>4. RatesOneProcess /\ BlockReconciles /\ Progress
  BY <1>2 DEF RatesOneProcess, BlockReconciles, Progress
<1> QED BY <1>1, <1>3, <1>4 DEF IInv

LEMMA StepSimulator == ASSUME IInv, Sim PROVE IInv'
<1>1. UNCHANGED <<guarded, args, token, at, rates, counters>> /\ SimNext
      /\ undisturbed' = (undisturbed /\ process' = process)
  BY DEF Sim
<1>2. SimInv'
  BY <1>1, StepSim DEF IInv
<1>3. ReadWithToken' /\ RatesOneProcess' /\ BlockReconciles'
  BY <1>1 DEF IInv, ReadWithToken, RatesOneProcess, BlockReconciles
<1>4. Progress'
  BY <1>1 DEF IInv, Progress, Credentials, Behind
<1> QED BY <1>2, <1>3, <1>4 DEF IInv

LEMMA StepStart == ASSUME IInv, NEW a \in Arguments, Start(a) PROVE IInv'
<1>1. /\ at' = RATES[1] /\ token' = a.token /\ args' = a /\ counters' = NoBlock
      /\ rates' = [f \in RateFields |-> NoProcess] /\ UNCHANGED <<simVars, guarded>>
  BY DEF Start
<1>2. SimInv'
  BY <1>1, StepSim DEF IInv
<1>3. at' \in RateFields /\ at' \notin NotRates
  BY <1>1, RatesFacts
<1>4. ReadWithToken' /\ RatesOneProcess' /\ BlockReconciles'
  BY <1>1, <1>3 DEF ReadWithToken, RatesOneProcess, BlockReconciles, NoProcess
<1>5. \A i \in DOMAIN RATES : ~Behind(i)'
  <2>1. SUFFICES ASSUME NEW i \in DOMAIN RATES, Behind(i)' PROVE FALSE
    OBVIOUS
  <2>2. PICK j \in DOMAIN RATES : RATES[1] = RATES[j] /\ i < j
    BY <1>1, <1>3, <2>1 DEF Behind
  <2>3. j = 1
    BY <2>2, RatesAssumption, RatesFacts
  <2> QED BY <2>2, <2>3, RatesFacts
<1>6. Credentials' => token' = Jwt(process') \/ (token' = NoToken /\ args'.token = NoToken)
  BY <1>1 DEF Credentials
<1>7. Progress'
  BY <1>3, <1>5, <1>6 DEF Progress, NotRates
<1> QED BY <1>2, <1>4, <1>7 DEF IInv

LEMMA StepLogin == ASSUME IInv, Login PROVE IInv'
<1>1. /\ token = NoToken /\ token' = Jwt(process) /\ at \in Requesting
      /\ UNCHANGED <<simVars, guarded, args, at, rates, counters, undisturbed, process>>
  BY DEF Login, simVars
<1>2. SimInv'
  BY <1>1, StepSim DEF IInv
<1>3. at \in RateFields => \A f \in RateFields : rates[f] = NoProcess
  BY <1>1, Tokens DEF IInv, ReadWithToken
<1>4. ReadWithToken' /\ RatesOneProcess' /\ BlockReconciles'
  BY <1>1, <1>3 DEF IInv, ReadWithToken, RatesOneProcess, BlockReconciles
<1>5. at = "second_status" /\ undisturbed /\ Credentials => token = SimToken
  BY DEF IInv, Progress, Credentials
<1>6. Progress'
  BY <1>1, <1>5, Tokens DEF IInv, Progress, Credentials, Behind
<1> QED BY <1>2, <1>4, <1>6 DEF IInv

\* A get() that failed keeps what was read and moves on; what it does to Progress depends on why.
LEMMA StepFails == ASSUME IInv, GetFails PROVE (SimInv /\ ReadWithToken /\ RatesOneProcess /\ BlockReconciles)'
<1>1. UNCHANGED <<simVars, guarded, args, rates, counters>>
  BY DEF GetFails, FailWith
<1>2. SimInv'
  BY <1>1, StepSim DEF IInv
<1>3. at \in RateFields =>
        /\ token' = token /\ at' \in RateFields \cup {"key_servers"}
  BY AfterRateIn, RatesFacts DEF GetFails, FailWith, NotRates
<1>4. at \notin RateFields => at' \in NotRates /\ at' \notin RateFields
  BY RatesFacts DEF GetFails, FailWith, NotRates, AfterFirstPass
<1>5. ReadWithToken'
  BY <1>1, <1>3, <1>4 DEF IInv, ReadWithToken, NotRates
<1>6. RatesOneProcess' /\ BlockReconciles'
  BY <1>1 DEF IInv, RatesOneProcess, BlockReconciles
<1> QED BY <1>2, <1>5, <1>6

LEMMA StepUnreachable == ASSUME IInv, Unreachable PROVE IInv'
<1>1. Progress'
  BY DEF Unreachable, Progress
<1> QED BY <1>1, StepFails DEF Unreachable, IInv

\* With the right password no undisturbed login is refused.
LEMMA StepLoginRefused == ASSUME IInv, LoginRefused PROVE IInv'
<1>1. /\ at \in Requesting /\ token = NoToken /\ ~args.password_right
      /\ GetFails /\ UNCHANGED <<undisturbed, process, args, guarded>>
  BY DEF LoginRefused, GetFails, FailWith, simVars
<1>2. at # "idle"
  BY <1>1, RatesFacts DEF Requesting, NotRates
<1>3. ~(undisturbed /\ Credentials)
  <2>1. SUFFICES ASSUME undisturbed, Credentials PROVE FALSE
    OBVIOUS
  <2>2. at = "second_status" => token = SimToken
    BY <1>2, <2>1 DEF IInv, Progress, Credentials
  <2>3. args.token = NoToken
    BY <1>1, <1>2, <2>1, <2>2, Tokens DEF IInv, Progress, Requesting
  <2> QED BY <1>1, <2>1, <2>3 DEF Credentials
<1>4. Progress'
  BY <1>1, <1>3 DEF Progress, Credentials
<1> QED BY <1>1, <1>4, StepFails DEF IInv

\* With the right credentials only the status block of a guarded deployment is refused.
LEMMA StepUnauthorized == ASSUME IInv, Unauthorized PROVE IInv'
<1>1. /\ at \in Requesting /\ token # NoToken
      /\ GetFails /\ UNCHANGED <<undisturbed, process, args, guarded, rates>>
  BY DEF Unauthorized, GetFails, FailWith, simVars
<1>2. at # "idle"
  BY <1>1, RatesFacts DEF Requesting, NotRates
<1>3. ASSUME undisturbed, Credentials
      PROVE  at = "status" /\ guarded /\ at' = "second_status" /\ token' = args.etsi_token
  <2>1. at \in {"status", "second_status"}
    BY <1>1, <1>2, <1>3 DEF IInv, Progress, Unauthorized, require_jwt, Requesting
  <2>2. guarded /\ token # SimToken
    BY <2>1 DEF Unauthorized, require_sim_token
  <2>3. args.etsi_token = SimToken
    BY <1>3, <2>2 DEF Credentials
  <2>4. at = "status"
    BY <1>2, <1>3, <2>1, <2>2, <2>3 DEF IInv, Progress
  <2>5. at' = "second_status" /\ token' = args.etsi_token
    BY <1>1, <2>3, <2>4, Tokens, RatesFacts DEF GetFails, FailWith, AfterFirstPass, NotRates
  <2> QED BY <2>2, <2>4, <2>5
<1>4. Progress'
  <2>1. SUFFICES ASSUME undisturbed, Credentials PROVE Progress'
    BY <1>1 DEF Progress, Credentials
  <2>2. at = "status" /\ guarded /\ at' = "second_status" /\ token' = args.etsi_token
    BY <1>3, <2>1
  <2>3. at \notin RateFields /\ at' \notin RateFields
    BY <2>2, RatesFacts DEF NotRates
  <2>4. \A i \in DOMAIN RATES : rates'[RATES[i]] = process'
    BY <1>1, <2>1, <2>2, <2>3 DEF IInv, Progress, Behind
  <2> QED BY <1>1, <2>2, <2>3, <2>4 DEF Progress
<1> QED BY <1>1, <1>4, StepFails DEF IInv

LEMMA StepGetRate == ASSUME IInv, GetRate PROVE IInv'
<1>1. /\ at \in RateFields /\ token = Jwt(process) /\ rates' = [rates EXCEPT ![at] = process]
      /\ at' = AfterRate(at) /\ UNCHANGED <<simVars, guarded, args, token, counters, undisturbed, process>>
  BY DEF GetRate, require_jwt, simVars
<1>2. SimInv' /\ process \in Nat \ {0}
  BY <1>1, StepSim DEF IInv, SimInv, SimType
<1>3. at' \in RateFields \cup {"key_servers"}
  BY <1>1, AfterRateIn
<1>4. \A f \in RateFields : rates[f] # NoProcess => rates[f] = process
  BY <1>1, Tokens DEF IInv, ReadWithToken
<1>5. \A f \in RateFields : rates'[f] # NoProcess => rates'[f] = process
  BY <1>1, <1>4 DEF IInv, ReadWithToken
<1>6. ReadWithToken'
  BY <1>1, <1>2, <1>3, <1>5 DEF IInv, ReadWithToken, NotRates
<1>7. RatesOneProcess' /\ BlockReconciles'
  BY <1>1, <1>5 DEF IInv, RatesOneProcess, BlockReconciles
<1>8. Progress'
  <2>1. SUFFICES ASSUME undisturbed, Credentials PROVE Progress'
    BY <1>1 DEF Progress, Credentials
  <2>2. at # "idle" /\ at' \notin {"idle", "status", "second_status", "written", "aborted"}
    BY <1>1, <1>3, RatesFacts DEF NotRates
  <2>3. PICK i \in DOMAIN RATES : at = RATES[i]
    BY <1>1, RatesFacts
  <2>4. ASSUME NEW n \in DOMAIN RATES, Behind(n)' PROVE rates'[RATES[n]] = process'
    <3>1. n = i \/ Behind(n)
      BY <1>1, <2>3, <2>4, BehindNext
    <3>2. Behind(n) => rates[RATES[n]] = process
      BY <2>1, <2>2 DEF IInv, Progress
    <3> QED BY <1>1, <2>3, <3>1, <3>2, RatesFacts DEF IInv, ReadWithToken
  <2> QED BY <1>1, <2>2, <2>4 DEF Progress
<1> QED BY <1>2, <1>6, <1>7, <1>8 DEF IInv

LEMMA StepGetKeyServers == ASSUME IInv, GetKeyServers PROVE IInv'
<1>1. /\ at = "key_servers" /\ at' = "status" /\ token = Jwt(process)
      /\ UNCHANGED <<simVars, guarded, args, token, rates, counters, undisturbed, process>>
  BY DEF GetKeyServers, require_jwt, simVars
<1>2. SimInv'
  BY <1>1, StepSim DEF IInv
<1>3. at \notin RateFields /\ at' \notin RateFields /\ at' \in NotRates
  BY <1>1, RatesFacts DEF NotRates
<1>4. ReadWithToken' /\ RatesOneProcess' /\ BlockReconciles'
  BY <1>1, <1>3 DEF IInv, ReadWithToken, RatesOneProcess, BlockReconciles
<1>5. Progress'
  BY <1>1, <1>3 DEF IInv, Progress, Credentials, Behind
<1> QED BY <1>2, <1>4, <1>5 DEF IInv

LEMMA StepGetStatus == ASSUME IInv, GetStatus PROVE IInv'
<1>0. PICK later \in generated_bits..MAX_GENERATED_BITS :
        /\ counters' = [process |-> process, ext |-> status_extension(later)]
        /\ generated_bits' = later
  BY DEF GetStatus
<1>1. /\ at \in {"status", "second_status"} /\ at' = "written"
      /\ UNCHANGED <<guarded, args, token, rates, undisturbed, process, source_available,
                     storeVars, fresh, given>>
  BY DEF GetStatus
<1>2. SimInv'
  <2>1. generated_bits' \in Nat
    BY <1>0, SimAssumption DEF IInv, SimInv, SimType
  <2>2. Once' /\ Counted'
    BY <1>1 DEF IInv, SimInv, Once, Counted, storeVars
  <2>3. SimType'
    BY <1>1, <2>1 DEF IInv, SimInv, SimType, storeVars
  <2> QED BY <2>2, <2>3 DEF SimInv
<1>3. at \notin RateFields /\ at' \notin RateFields /\ at' \in NotRates
  BY <1>1, RatesFacts DEF NotRates
<1>4. counters'.process = process /\ counters'.ext = status_extension(later)
  BY <1>0
<1>5. BlockReconciles'
  BY <1>4, StatusReconciles DEF IInv, BlockReconciles, Reconciles
<1>6. ReadWithToken' /\ RatesOneProcess'
  BY <1>1, <1>3 DEF IInv, ReadWithToken, RatesOneProcess
<1>7. Progress'
  BY <1>1, <1>3, <1>4 DEF IInv, Progress, Credentials, Behind
<1> QED BY <1>2, <1>5, <1>6, <1>7 DEF IInv

LEMMA StutterIInv == ASSUME IInv, UNCHANGED vars PROVE IInv'
<1>1. UNCHANGED <<simVars, guarded, args, token, at, rates, counters, undisturbed, process>>
  BY DEF vars, captureVars, simVars
<1>2. SimInv'
  BY <1>1, StepSim DEF IInv
<1>3. ReadWithToken' /\ RatesOneProcess' /\ BlockReconciles' /\ Progress'
  BY <1>1 DEF IInv, ReadWithToken, RatesOneProcess, BlockReconciles, Progress, Credentials, Behind
<1> QED BY <1>2, <1>3 DEF IInv

LEMMA NextIInv == ASSUME IInv, [Next]_vars PROVE IInv'
BY StepSimulator, StepStart, StepLogin, StepLoginRefused, StepUnauthorized, StepUnreachable,
   StepGetRate, StepGetKeyServers, StepGetStatus, StutterIInv DEF Next

\* The invariant of the simulator and of a capture against it is inductive.
THEOREM Invariance == Spec => []IInv
BY InitIInv, NextIInv, PTL DEF Spec

\* No key is ever given to a peer twice, for any number of keys, processes and requests
\* (app.py dec_keys).
THEOREM KeyGivenOnceAlways == Spec => []KeyGivenOnce
<1>1. IInv => KeyGivenOnce
  BY DEF IInv, SimInv, Once, KeyGivenOnce
<1> QED BY <1>1, Invariance, PTL

\* The status block always adds up, however far apart its two readings of the clock are, and
\* so does the one a capture has written
\* (app.py status, heqa.py capture).
THEOREM CountersReconcileAlways == Spec => []CountersReconcile
<1>1. IInv => CountersReconcile
  BY StatusReconciles DEF IInv, BlockReconciles, CountersReconcile
<1> QED BY <1>1, Invariance, PTL

\* The rates of a capture come from one process, for any list of rates (heqa.py get).
THEOREM RatesOneProcessAlways == Spec => []RatesOneProcess
<1>1. IInv => RatesOneProcess
  BY DEF IInv
<1> QED BY <1>1, Invariance, PTL

\* An undisturbed capture with the right credentials ends with every field, from one process
\* (capture_qkd.py capture, heqa.py capture).
THEOREM CaptureCompleteAlways == Spec => []CaptureComplete
<1>1. ASSUME IInv, undisturbed, Credentials, at \notin Requesting \cup {"idle"}
      PROVE  at = "written" /\ {rates[f] : f \in RateFields} \cup {counters.process} = {process}
  <2>1. at = "written"
    BY <1>1 DEF IInv, ReadWithToken, Progress, Requesting, NotRates
  <2>2. at \notin RateFields
    BY <2>1, RatesFacts DEF NotRates
  <2>3. counters.process = process /\ \A i \in DOMAIN RATES : rates[RATES[i]] = process
    BY <1>1, <2>1, <2>2 DEF IInv, Progress, Behind
  <2>4. \A f \in RateFields : rates[f] = process
    BY <2>3, RatesFacts
  <2> QED BY <2>1, <2>3, <2>4
<1>2. IInv => CaptureComplete
  BY <1>1 DEF CaptureComplete
<1> QED BY <1>2, Invariance, PTL
=============================================================================
