------------------------------ MODULE Capture ------------------------------
(***************************************************************************)
(* capture_qkd.py and its HeqaMonitor (src/qkd_ekm/qkd/heqa.py) against    *)
(* the simulator.  A capture is a sequence of HTTP requests: the rates and *)
(* the list of key servers with the JWT of a login, the status block with  *)
(* the token at hand, and, when that block is still missing and an ETSI    *)
(* token was given, the status block once more with that token.  The       *)
(* process behind the URL may be replaced between any two of them.         *)
(*                                                                         *)
(* A rate does not change while a process runs, so what is kept of it is   *)
(* the number of the process that answered, NoProcess for None.            *)
(***************************************************************************)
EXTENDS QkdSim

CONSTANT RATES    \* the fields of _RATE_PATHS, in their order

NotRates == {"idle", "key_servers", "status", "second_status", "written", "aborted"}

ASSUME RatesAssumption ==
  /\ RATES \in Seq(STRING) /\ RATES # <<>>
  /\ \A i, j \in DOMAIN RATES : RATES[i] = RATES[j] => i = j
  /\ \A i \in DOMAIN RATES : RATES[i] \notin NotRates

VARIABLES
  guarded,      \* SIM_TOKEN is set: the ETSI-014 routes want it
  args,         \* of this capture: its password, its JWT and its ETSI token
  token,        \* HeqaMonitor.token
  at,           \* the request that is next, or how the capture ended
  rates,        \* of each field of _RATE_PATHS, the process it was read from
  counters,     \* the status block, or NoBlock
  undisturbed   \* history: no restart and no lost request since the start

captureVars == <<args, token, at, rates, counters, undisturbed>>
vars == <<simVars, guarded, captureVars>>

RateFields == {RATES[i] : i \in DOMAIN RATES}

NoProcess == 0
NoBlock == [process |-> NoProcess]

NoToken == <<"none", 0>>
SimToken == <<"sim", 0>>
Jwt(p) == <<"jwt", p>>

\* What the two kinds of routes accept.
require_jwt(t) == t = Jwt(process)
require_sim_token(t) == guarded => t = SimToken

Arguments ==
  [password_right : BOOLEAN,
   token : {NoToken} \cup {Jwt(p) : p \in 1..process},
   etsi_token : {NoToken, SimToken, Jwt(NoProcess)}]

Requesting == RateFields \cup {"key_servers", "status", "second_status"}

Init ==
  /\ SimInit /\ guarded \in BOOLEAN
  /\ args = [password_right |-> TRUE, token |-> NoToken, etsi_token |-> NoToken]
  /\ token = NoToken /\ at = "idle"
  /\ rates = [f \in RateFields |-> NoProcess] /\ counters = NoBlock
  /\ undisturbed = TRUE

\* One run of the script: a second one starts with a new HeqaMonitor.
Start(a) ==
  /\ at = "idle"
  /\ args' = a /\ token' = a.token /\ at' = RATES[1]
  /\ rates' = [f \in RateFields |-> NoProcess] /\ counters' = NoBlock
  /\ undisturbed' = TRUE
  /\ UNCHANGED <<simVars, guarded>>

\* The request after rate f, and where the first pass goes when it ends.
AfterRate(f) ==
  LET i == CHOOSE n \in DOMAIN RATES : RATES[n] = f IN
  IF i < Len(RATES) THEN RATES[i + 1] ELSE "key_servers"

\* Mutant: the counters are not asked for a second time.
AfterFirstPassOnce == "written"

AfterFirstPass == IF args.etsi_token # NoToken THEN "second_status" ELSE "written"

(***************************************************************************)
(* get() logs in when there is no token yet.  A failed login is a failed   *)
(* get(); a token that is refused later is kept and not asked for again.   *)
(***************************************************************************)
Login ==
  /\ at \in Requesting /\ token = NoToken /\ args.password_right
  /\ token' = Jwt(process)
  /\ UNCHANGED <<simVars, guarded, args, at, rates, counters, undisturbed>>

\* Every exception of a get(): None for a rate, the end of the first pass in its last two
\* requests, the end of the script in the second pass.
FailWith(kept) ==
  /\ \/ at \in RateFields /\ at' = AfterRate(at) /\ token' = kept
     \/ /\ at \in {"key_servers", "status"}
        /\ at' = AfterFirstPass
        /\ token' = IF at' = "second_status" THEN args.etsi_token ELSE kept
     \/ at = "second_status" /\ at' = "aborted" /\ token' = token
  /\ UNCHANGED <<simVars, guarded, args, rates, counters>>

\* Mutant: a refused token is dropped, so that the next get() logs in once more.
GetFailsForgets == FailWith(NoToken)

GetFails == FailWith(token)

LoginRefused ==
  /\ at \in Requesting /\ token = NoToken /\ ~args.password_right
  /\ GetFails /\ UNCHANGED undisturbed

Unauthorized ==
  /\ at \in Requesting /\ token # NoToken
  /\ IF at \in {"status", "second_status"} THEN ~require_sim_token(token) ELSE ~require_jwt(token)
  /\ GetFails /\ UNCHANGED undisturbed

\* A transport error, a timeout or a 5xx, of the login or of the request itself.
Unreachable ==
  /\ at \in Requesting
  /\ GetFails /\ undisturbed' = FALSE

GetRate ==
  /\ at \in RateFields /\ require_jwt(token)
  /\ rates' = [rates EXCEPT ![at] = process]
  /\ at' = AfterRate(at)
  /\ UNCHANGED <<simVars, guarded, args, token, counters, undisturbed>>

GetKeyServers ==
  /\ at = "key_servers" /\ require_jwt(token)
  /\ at' = "status"
  /\ UNCHANGED <<simVars, guarded, args, token, rates, counters, undisturbed>>

GetStatus ==
  /\ at \in {"status", "second_status"} /\ token # NoToken /\ require_sim_token(token)
  /\ \E later \in generated_bits..MAX_GENERATED_BITS :
       /\ counters' = [process |-> process, ext |-> status_extension(later)]
       /\ generated_bits' = later
  /\ at' = "written"
  /\ UNCHANGED <<process, source_available, storeVars, fresh, given,
                 guarded, args, token, rates, undisturbed>>

Sim ==
  /\ SimNext
  /\ undisturbed' = (undisturbed /\ process' = process)
  /\ UNCHANGED <<guarded, args, token, at, rates, counters>>

Next ==
  \/ Sim
  \/ \E a \in Arguments : Start(a)
  \/ Login \/ LoginRefused \/ Unauthorized \/ Unreachable
  \/ GetRate \/ GetKeyServers \/ GetStatus

Spec == Init /\ [][Next]_vars

-----------------------------------------------------------------------------

\* The status block adds up, now and in what a capture has written, however far the clock
\* goes between the two times it is read for the block, and its difference of
\* consumed and deleted bits is the keys that wait for their peer (app.py status).
CountersReconcile ==
  /\ \A later \in generated_bits..MAX_GENERATED_BITS : Reconciles(status_extension(later))
  /\ consumed_bits - deleted_bits = KEY_BITS * pending_count
  /\ counters # NoBlock => Reconciles(counters.ext)

\* The rates of one capture come from one process although its requests are spread over time
\* (heqa.py get: one login, and no second one after a 401).
RatesOneProcess ==
  \A f, g \in RateFields :
    rates[f] # NoProcess /\ rates[g] # NoProcess => rates[f] = rates[g]

Credentials ==
  /\ IF args.token = NoToken THEN args.password_right ELSE args.token = Jwt(process)
  /\ guarded => args.etsi_token = SimToken

\* A capture with the right credentials that nothing disturbs ends with every field filled,
\* from one process, whether or not the two APIs share a credential (capture_qkd.py capture).
CaptureComplete ==
  undisturbed /\ Credentials /\ at \notin Requesting \cup {"idle"} =>
    at = "written" /\ {rates[f] : f \in RateFields} \cup {counters.process} = {process}
=============================================================================
