-------------------------- MODULE VpnTunnelProofs --------------------------
(***************************************************************************)
(* Proofs about VpnTunnel: the client's files against its interface and    *)
(* against the server's records, and the keys of the two ends.  The server *)
(* keeps IInv of VpnProofs while a client is at work with it, because      *)
(* every step of the tunnel is a step of Vpn or leaves the server alone.   *)
(***************************************************************************)
EXTENDS VpnTunnel, VpnProofs

Busy == {"wait", "fetch", "install", "save", "write"}

Shaped == cli = [pc |-> cli.pc, op |-> cli.op, pub |-> cli.pub, no |-> cli.no]

ClientType ==
  /\ Shaped
  /\ cli.pc \in Busy \cup {"idle", "unlink"}
  /\ cli.pc \in Busy =>
       cli.op \in {"connect", "refresh"} /\ cli.pub \in PublicKeys /\ cli.no \in 1..asked
  /\ Readable => session.pub \in PublicKeys

\* The server has told p its address.
Owned(p) == \E r \in replies : r.op = "start" /\ r.pub = p

\* Requests are numbered apart, so what bears the number of the command is its own.
Numbered ==
  /\ \A x \in calls \cup replies : x.no <= asked
  /\ cli.pc \in Busy =>
       \A x \in calls \cup replies :
         x.no = cli.no => x.pub = cli.pub /\ (cli.op = "connect" => x.op = "start")

\* Whoever has a session, or is about to have one, was told its address.
SessionOwned ==
  /\ Readable => Owned(session.pub)
  /\ cli.pc \in Busy /\ cli.op = "refresh" => Owned(cli.pub)
  /\ cli.pc \in Busy \ {"wait"} => Owned(cli.pub)

TInv == IInv /\ ClientType /\ Numbered /\ SessionOwned

-----------------------------------------------------------------------------

\* Every step of the tunnel is a step of the server or leaves it alone.
LEMMA StepOfServer ==
  ASSUME ClientType, [TunnelNext]_tunnelVars PROVE [Next]_vars
<1>1. ASSUME NEW p \in PublicKeys, Connect(p) PROVE Next
  BY <1>1 DEF Connect, Next
<1>2. CASE Refresh
  BY <1>2 DEF Refresh, Next, ClientType
<1>3. CASE ServerStep
  BY <1>3 DEF Next
<1>4. CASE NotSent \/ Disconnect \/ ClientReboot \/ CommandStep \/ UNCHANGED tunnelVars
  BY <1>4 DEF NotSent, Disconnect, ClientReboot, CommandStep, GetAnswer, NoAnswer, GiveUp, FetchKey,
     FetchFails, BringUp, SetPsk, InstallFails, OpenSession, WriteSession, Unlink, Kill, tunnelVars
<1> QED BY <1>1, <1>2, <1>3, <1>4 DEF TunnelNext

LEMMA NotAFile == NoSession.key = 0 /\ Torn.key = 0 /\ NoSession # Torn
  BY DEF NoSession, Torn

\* What the step to another line of the command leaves as it was.
LEMMA NextLine ==
  ASSUME ClientType, NEW line, cli' = [cli EXCEPT !.pc = line]
  PROVE  /\ cli'.pc = line /\ cli'.op = cli.op /\ cli'.pub = cli.pub /\ cli'.no = cli.no
         /\ Shaped'
BY DEF ClientType, Shaped

LEMMA Idle == ASSUME cli' = NoCommand PROVE cli'.pc = "idle" /\ Shaped'
BY DEF NoCommand, Shaped

\* A disconnect that has begun, or has ended.
LEMMA Unlinking ==
  ASSUME Disconnect \/ Unlink PROVE cli'.pc \in {"idle", "unlink"} /\ Shaped'
BY DEF Disconnect, Unlink, NoCommand, Shaped

LEMMA InitTInv == TunnelInit => TInv
<1> SUFFICES ASSUME TunnelInit PROVE TInv
  OBVIOUS
<1>1. IInv
  BY InitHolds DEF TunnelInit
<1>2. cli.pc = "idle" /\ Shaped /\ ~Readable /\ calls = {} /\ replies = {}
  BY DEF TunnelInit, NoCommand, Shaped, Readable, Init
<1> QED BY <1>1, <1>2 DEF TInv, ClientType, Numbered, SessionOwned, Busy

\* Answers are only added, requests only numbered upwards.
LEMMA ServerMoves ==
  ASSUME TInv, ServerStep
  PROVE  /\ asked' = asked /\ replies \subseteq replies'
         /\ \A x \in calls' \cup replies' :
              \E y \in calls \cup replies : x.no = y.no /\ x.op = y.op /\ x.pub = y.pub
<1>1. ASSUME NEW c \in calls,
             EkmFails(c) \/ StartNoAddress(c) \/ StartRefused(c) \/ StartUnsaved(c)
      PROVE  asked' = asked /\ replies' = replies /\ calls' \subseteq calls
  BY <1>1 DEF EkmFails, StartNoAddress, StartRefused, StartUnsaved, Return
<1>2. ASSUME NEW c \in calls, StartApplied(c) \/ RefreshScheduled(c)
      PROVE  /\ asked' = asked /\ calls' \subseteq calls
             /\ \/ replies' = replies
                \/ \E a \in 0..NumAddresses :
                     replies' = replies \cup {[no |-> c.no, op |-> c.op, pub |-> c.pub, ip |-> a]}
  <2>1. 0 \in 0..NumAddresses /\ Addresses \subseteq 0..NumAddresses
    BY VpnAssumption DEF Addresses
  <2> QED BY <1>2, <2>1 DEF StartApplied, RefreshScheduled, Return, Reply
<1>3. ASSUME NEW c \in calls, StartApplied(c) \/ RefreshScheduled(c)
      PROVE  /\ asked' = asked /\ replies \subseteq replies'
             /\ \A x \in calls' \cup replies' :
                  \E y \in calls \cup replies : x.no = y.no /\ x.op = y.op /\ x.pub = y.pub
  BY <1>2, <1>3
<1>4. ASSUME NEW p \in PublicKeys, NEW k \in Keys,
             ActivateRefused(p, k) \/ ActivateUnsaved(p, k) \/ Activate(p, k) \/ TimerDue(p)
      PROVE  UNCHANGED <<asked, calls, replies>>
  BY <1>4 DEF ActivateRefused, ActivateUnsaved, Activate, TimerDue
<1>5. ASSUME NEW p \in PublicKeys, TimerDue(p) PROVE UNCHANGED <<asked, calls, replies>>
  BY <1>5 DEF TimerDue
<1>6. CASE Restart \/ Reboot
  BY <1>6 DEF Restart, Reboot, Crash
<1>7. ASSUME \/ \E c \in calls : StartDies(c)
             \/ \E p \in PublicKeys, k \in Keys : ActivateDies(p, k)
      PROVE  asked' = asked /\ replies' = replies /\ calls' = {}
  BY <1>7 DEF StartDies, ActivateDies, ApplyDies, Crash
<1> QED BY <1>1, <1>3, <1>4, <1>5, <1>6, <1>7 DEF ServerStep

LEMMA ServerKeepsClient ==
  ASSUME TInv, ServerStep, UNCHANGED clientVars
  PROVE  ClientType' /\ Numbered' /\ SessionOwned'
<1>1. UNCHANGED <<cli, session>>
  BY DEF clientVars
<1>2. ClientType'
  BY <1>1, ServerMoves DEF TInv, ClientType, Shaped, Readable
<1>3. Numbered'
  BY <1>1, ServerMoves DEF TInv, Numbered
<1>4. \A p \in PublicKeys : Owned(p) => Owned(p)'
  BY ServerMoves DEF Owned
<1>5. SessionOwned'
  BY <1>1, <1>4 DEF TInv, SessionOwned, ClientType, Readable, Busy
<1> QED BY <1>2, <1>3, <1>5

\* A request gets a number of its own.
LEMMA AskKeepsClient ==
  ASSUME TInv, NEW op \in {"start", "refresh"}, NEW p \in PublicKeys, Ask(op, p),
         cli' = [pc |-> "wait", op |-> IF op = "start" THEN "connect" ELSE "refresh",
                 pub |-> p, no |-> asked'],
         session' = session,
         op = "refresh" => Owned(p)
  PROVE  ClientType' /\ Numbered' /\ SessionOwned'
<1>1. /\ asked' = asked + 1 /\ asked \in Nat /\ replies' = replies
      /\ calls' = calls \cup {[no |-> asked', op |-> op, pub |-> p]}
  BY VpnAssumption DEF Ask, TInv, IInv, TypeOK
<1>2. \A x \in calls \cup replies : x.no \in Int /\ x.no <= asked
  <2>1. \A x \in calls \cup replies : x.no \in Keys
    BY DEF TInv, IInv, TypeOK, Answer
  <2> QED BY <2>1 DEF TInv, Numbered, Keys
<1>3. \A x \in calls' \cup replies' :
        x \in calls \cup replies \/ x = [no |-> asked', op |-> op, pub |-> p]
  BY <1>1
<1>4. Readable' = Readable
  BY DEF Readable
<1>5. ClientType'
  BY <1>1, <1>4 DEF TInv, ClientType, Shaped, Busy
<1>6. Numbered'
  BY <1>1, <1>2, <1>3 DEF Numbered
<1>7. SessionOwned'
  BY <1>1, <1>4 DEF TInv, SessionOwned, Owned, Busy
<1> QED BY <1>5, <1>6, <1>7

LEMMA CommandKeepsClient ==
  ASSUME TInv, CommandStep \/ NotSent \/ Disconnect \/ ClientReboot \/ UNCHANGED tunnelVars
  PROVE  ClientType' /\ Numbered' /\ SessionOwned'
<1>1. UNCHANGED <<asked, calls, replies>>
  BY DEF CommandStep, GetAnswer, NoAnswer, GiveUp, FetchKey, FetchFails, BringUp, SetPsk, InstallFails,
     OpenSession, WriteSession, Unlink, Kill, NotSent, Disconnect, ClientReboot, tunnelVars, vars
<1>2. \A p : Owned(p)' = Owned(p)
  BY <1>1 DEF Owned
<1>3. CASE GetAnswer
  <2>1. /\ session' = session /\ cli.pc = "wait" /\ cli' = [cli EXCEPT !.pc = "fetch"]
        /\ \E r \in replies : r.no = cli.no
    BY <1>3 DEF GetAnswer, Answered
  <2>2. cli'.pc = "fetch" /\ cli'.op = cli.op /\ cli'.pub = cli.pub /\ cli'.no = cli.no /\ Shaped'
    BY <2>1, NextLine DEF TInv
  <2>3. cli.op = "connect" => Owned(cli.pub)
    BY <2>1 DEF TInv, Numbered, Owned, Busy
  <2>4. cli.op = "refresh" => Owned(cli.pub)
    BY <2>1 DEF TInv, SessionOwned, Busy
  <2> QED
    BY <1>1, <1>2, <2>1, <2>2, <2>3, <2>4
    DEF TInv, ClientType, Numbered, SessionOwned, Readable, Busy
<1>4. CASE NoAnswer \/ GiveUp \/ FetchFails \/ InstallFails \/ Kill
  <2>1. session' = session /\ cli'.pc = "idle" /\ Shaped'
    BY <1>4, Idle DEF NoAnswer, GiveUp, FetchFails, InstallFails, Kill, Exit1
  <2> QED
    BY <1>1, <1>2, <2>1 DEF TInv, ClientType, Numbered, SessionOwned, Readable, Busy
<1>5. CASE FetchKey \/ BringUp \/ SetPsk
  <2>1. /\ session' = session /\ cli.pc \in Busy \ {"wait"}
        /\ \E line \in {"install", "save"} : cli' = [cli EXCEPT !.pc = line]
    BY <1>5 DEF FetchKey, BringUp, SetPsk, Busy
  <2>2. /\ Shaped' /\ cli'.pc \in {"install", "save"}
        /\ cli'.op = cli.op /\ cli'.pub = cli.pub /\ cli'.no = cli.no
    BY <2>1, NextLine DEF TInv
  <2> QED
    BY <1>1, <1>2, <2>1, <2>2 DEF TInv, ClientType, Numbered, SessionOwned, Readable, Busy
<1>6. CASE OpenSession
  <2>1. session' = Torn /\ cli.pc = "save" /\ cli' = [cli EXCEPT !.pc = "write"]
    BY <1>6 DEF OpenSession
  <2>2. cli'.pc = "write" /\ cli'.op = cli.op /\ cli'.pub = cli.pub /\ cli'.no = cli.no /\ Shaped'
    BY <2>1, NextLine DEF TInv
  <2> QED
    BY <1>1, <1>2, <2>1, <2>2 DEF TInv, ClientType, Numbered, SessionOwned, Readable, Busy
<1>7. CASE WriteSession
  <2>1. /\ session' = [pub |-> cli.pub, key |-> cli.no] /\ cli.pc = "write"
        /\ cli'.pc = "idle" /\ Shaped'
    BY <1>7, Idle DEF WriteSession
  <2>2. session'.pub = cli.pub /\ cli.pub \in PublicKeys /\ Owned(cli.pub)
    BY <2>1 DEF TInv, ClientType, SessionOwned, Busy
  <2> QED
    BY <1>1, <1>2, <2>1, <2>2 DEF TInv, ClientType, Numbered, SessionOwned, Busy
<1>8. CASE NotSent \/ UNCHANGED tunnelVars
  <2>1. UNCHANGED <<session, cli>>
    BY <1>8 DEF NotSent, tunnelVars, clientVars
  <2> QED
    BY <1>1, <1>2, <2>1 DEF TInv, ClientType, Shaped, Numbered, SessionOwned, Readable
<1>9. CASE Disconnect \/ Unlink \/ ClientReboot
  <2>1. session' \in {session, NoSession} /\ cli'.pc \in {"idle", "unlink"} /\ Shaped'
    <3>1. CASE Disconnect \/ Unlink
      BY <3>1, Unlinking DEF Disconnect, Unlink
    <3>2. CASE ClientReboot
      BY <3>2, Idle DEF ClientReboot
    <3> QED BY <1>9, <3>1, <3>2
  <2> QED
    BY <1>1, <1>2, <2>1 DEF TInv, ClientType, Numbered, SessionOwned, Readable, Busy
<1> QED BY <1>3, <1>4, <1>5, <1>6, <1>7, <1>8, <1>9 DEF CommandStep

LEMMA StepTInv == TInv /\ [TunnelNext]_tunnelVars => TInv'
<1> SUFFICES ASSUME TInv, [TunnelNext]_tunnelVars PROVE TInv'
  OBVIOUS
<1>1. IInv'
  BY StepOfServer, StepHolds DEF TInv
<1>2. ASSUME NEW p \in PublicKeys, Connect(p) PROVE ClientType' /\ Numbered' /\ SessionOwned'
  <2>1. /\ Ask("start", p) /\ session' = session
        /\ cli' = [pc |-> "wait", op |-> "connect", pub |-> p, no |-> asked']
    BY <1>2 DEF Connect, StartRequest
  <2> QED BY <2>1, AskKeepsClient
<1>3. CASE Refresh
  <2>1. /\ Readable /\ Ask("refresh", session.pub) /\ session' = session
        /\ cli' = [pc |-> "wait", op |-> "refresh", pub |-> session.pub, no |-> asked']
    BY <1>3 DEF Refresh, RefreshRequest
  <2>2. session.pub \in PublicKeys /\ Owned(session.pub)
    BY <2>1 DEF TInv, ClientType, SessionOwned
  <2> QED BY <1>1, <2>1, <2>2, AskKeepsClient DEF TInv
<1>4. CASE ServerStep /\ UNCHANGED clientVars
  BY <1>1, <1>4, ServerKeepsClient DEF TInv
<1>5. CASE CommandStep \/ NotSent \/ Disconnect \/ ClientReboot \/ UNCHANGED tunnelVars
  BY <1>1, <1>5, CommandKeepsClient DEF TInv
<1> QED BY <1>1, <1>2, <1>3, <1>4, <1>5 DEF TunnelNext, TInv

\* The invariant of server and client together is inductive, under every fault.
THEOREM TunnelInvariance == TunnelSpec => []TInv
BY InitTInv, StepTInv, PTL DEF TunnelSpec

\* The tunnel implements the server on its own: composing it with a client that only makes
\* the requests it has reason for adds no behaviour (cli.py connect, refresh; app.py handlers).
THEOREM ImplementsVpn == TunnelSpec => Spec
<1>1. TunnelInit => Init
  BY DEF TunnelInit
<1>2. TInv /\ [TunnelNext]_tunnelVars => [Next]_vars
  BY StepOfServer DEF TInv
<1> QED BY <1>1, <1>2, TunnelInvariance, PTL DEF TunnelSpec, Spec

\* Hence what is proved of the server holds while its client commands, retries, dies and
\* restarts: an address once told stays its peer's (PeerFile, allocate_ip), no peer is left
\* configured by half (apply_key), ...
THEOREM TunnelAddressKept == TunnelSpec => [](AddressKept /\ NoHalfConfiguredPeer)
BY ImplementsVpn, AddressKeptAlways, NoHalfConfiguredPeerAlways, PTL

\* ... and /api/status names the kernel's PSK where peers.json can be written (apply_key).
THEOREM TunnelStatusTellsPsk ==
  ASSUME "save" \notin Faults PROVE TunnelSpec => []StatusTellsPsk
BY ImplementsVpn, StatusTellsPskAlways, PTL

\* A session that can be read names a peer the server knows, whatever was lost, killed or
\* restarted since the connect (app.py refresh_connection, PeerFile; cli.py refresh).
THEOREM RefreshPossibleAlways == TunnelSpec => []RefreshPossible
<1>1. TInv => RefreshPossible
  <2> SUFFICES ASSUME TInv, Readable PROVE peers[session.pub] # NoRecord
    BY DEF RefreshPossible
  <2>1. PICK r \in replies : r.op = "start" /\ r.pub = session.pub
    BY DEF TInv, SessionOwned, Owned
  <2>2. session.pub \in PublicKeys /\ saved[session.pub].ip # 0
    BY <2>1 DEF TInv, ClientType, IInv, ToldIsSaved
  <2>3. peers[session.pub].ip # 0
    BY <2>2 DEF TInv, IInv, SavedIsHeld
  <2> QED BY <2>3 DEF NoRecord
<1> QED BY <1>1, TunnelInvariance, PTL

-----------------------------------------------------------------------------

\* Only key pairs that were made are at work.
Own ==
  /\ iface = [pub |-> iface.pub, psk |-> iface.psk]
  /\ \A c \in calls : c.pub \in made
  /\ \A p \in PublicKeys \ made : activations[p] = {}
  /\ Readable => session.pub \in made
  /\ cli.pc \in Busy => cli.pub \in made
  /\ iface # Down => iface.pub \in made

\* A number is of one request, which waits or was answered; one activation is pending at most.
Apart ==
  /\ \A c, d \in calls : c.no = d.no => c = d
  /\ \A c \in calls, r \in replies : c.no # r.no
  /\ \A p \in PublicKeys : \A k, l \in activations[p] : k = l

\* A peer that waits for admission does nothing else: its key pair is new.
Newcomer ==
  \A c \in calls : c.op = "start" =>
    /\ activations[c.pub] = {}
    /\ Readable => session.pub # c.pub
    /\ iface # Down => iface.pub # c.pub
    /\ \A d \in calls : d.pub = c.pub => d = c
    /\ cli.pc \in Busy /\ cli.pub = c.pub =>
         cli.op = "connect" /\ cli.no = c.no /\ cli.pc = "wait"

OInv == TInv /\ Own /\ Apart /\ Newcomer

LEMMA InitOInv == TunnelInit => OInv
<1> SUFFICES ASSUME TunnelInit PROVE Own /\ Apart /\ Newcomer
  BY InitTInv DEF OInv
<1>1. /\ cli.pc = "idle" /\ ~Readable /\ iface = Down /\ calls = {} /\ replies = {}
      /\ \A p \in PublicKeys : activations[p] = {}
  BY DEF TunnelInit, NoCommand, Readable, Init
<1> QED BY <1>1 DEF Own, Apart, Newcomer, Busy, Down

\* The server answers requests, each once, and schedules only what a refresh asked for.
LEMMA ServerTasks ==
  ASSUME TInv, ServerStep
  PROVE  /\ calls' \subseteq calls
         /\ \A r \in replies' : r \in replies \/ \E c \in calls \ calls' : r.no = c.no
         /\ \A p \in PublicKeys :
              \/ activations'[p] \subseteq activations[p]
              \/ \E c \in calls : c.op = "refresh" /\ c.pub = p /\ activations'[p] = {c.no}
<1>0. activations \in [PublicKeys -> SUBSET Keys]
  BY DEF TInv, IInv, TypeOK
<1>1. ASSUME NEW c \in calls,
             EkmFails(c) \/ StartNoAddress(c) \/ StartRefused(c) \/ StartUnsaved(c)
      PROVE  replies' = replies /\ calls' = calls \ {c} /\ activations' = activations
  BY <1>1 DEF EkmFails, StartNoAddress, StartRefused, StartUnsaved, Return, taskVars
<1>2. ASSUME NEW c \in calls, StartApplied(c)
      PROVE  /\ calls' = calls \ {c} /\ activations' = activations
             /\ \A r \in replies' : r \in replies \/ r.no = c.no
  BY <1>2 DEF StartApplied, Return, Reply
<1>3. ASSUME NEW c \in calls, RefreshScheduled(c)
      PROVE  /\ calls' = calls \ {c} /\ c.op = "refresh"
             /\ activations' = [activations EXCEPT ![c.pub] = {c.no}]
             /\ \A r \in replies' : r \in replies \/ r.no = c.no
  BY <1>3 DEF RefreshScheduled, Schedule, Return, Reply
<1>4. ASSUME NEW q \in PublicKeys, NEW k \in Keys,
             ActivateRefused(q, k) \/ ActivateUnsaved(q, k) \/ Activate(q, k)
      PROVE  /\ UNCHANGED <<calls, replies>>
             /\ activations' = [activations EXCEPT ![q] = @ \ {k}]
  BY <1>4 DEF ActivateRefused, ActivateUnsaved, Activate, Fire
<1>5. ASSUME NEW q \in PublicKeys, TimerDue(q) PROVE UNCHANGED <<calls, replies, activations>>
  BY <1>5 DEF TimerDue
<1>6. CASE Restart \/ Reboot
  <2>1. calls' = {} /\ replies' = replies /\ activations' = [p \in PublicKeys |-> {}]
    BY <1>6 DEF Restart, Reboot, Crash
  <2> QED BY <2>1
<1>7. ASSUME NEW c \in calls, RefreshScheduled(c)
      PROVE  \A p \in PublicKeys :
               \/ activations'[p] \subseteq activations[p]
               \/ c.op = "refresh" /\ c.pub = p /\ activations'[p] = {c.no}
  BY <1>0, <1>3, <1>7
<1>8. ASSUME NEW q \in PublicKeys, NEW k \in Keys,
             ActivateRefused(q, k) \/ ActivateUnsaved(q, k) \/ Activate(q, k)
      PROVE  \A p \in PublicKeys : activations'[p] \subseteq activations[p]
  BY <1>0, <1>4, <1>8
<1>9. ASSUME \/ \E c \in calls : StartDies(c)
             \/ \E q \in PublicKeys, k \in Keys : ActivateDies(q, k)
      PROVE  calls' = {} /\ replies' = replies /\ activations' = [p \in PublicKeys |-> {}]
  BY <1>9 DEF StartDies, ActivateDies, ApplyDies, Crash
<1> QED BY <1>1, <1>2, <1>3, <1>4, <1>5, <1>6, <1>7, <1>8, <1>9 DEF ServerStep

LEMMA ServerKeepsOwn ==
  ASSUME OInv, ServerStep, UNCHANGED clientVars PROVE Own' /\ Apart' /\ Newcomer'
<1>0. UNCHANGED <<cli, iface, session, made>> /\ Readable' = Readable
  BY DEF clientVars, Readable
<1>1. calls' \subseteq calls
  BY ServerTasks DEF OInv
<1>2. ASSUME NEW p \in PublicKeys
      PROVE  \/ activations'[p] \subseteq activations[p]
             \/ \E c \in calls : c.op = "refresh" /\ c.pub = p /\ activations'[p] = {c.no}
  BY ServerTasks DEF OInv
<1>3. Own'
  BY <1>0, <1>1, <1>2 DEF OInv, Own
<1>4. Apart'
  <2>1. \A c \in calls', r \in replies' : c.no # r.no
    BY <1>1, ServerTasks DEF OInv, Apart
  <2>2. \A p \in PublicKeys : \A k, l \in activations'[p] : k = l
    BY <1>2 DEF OInv, Apart
  <2> QED BY <1>1, <2>1, <2>2 DEF OInv, Apart
<1>5. Newcomer'
  <2>1. \A c \in calls : c.pub \in PublicKeys
    BY DEF OInv, TInv, IInv, TypeOK
  <2>2. \A c \in calls : c.op = "start" => activations'[c.pub] = {}
    BY <1>2, <2>1 DEF OInv, Newcomer
  <2> QED BY <1>0, <1>1, <2>2 DEF OInv, Newcomer
<1> QED BY <1>3, <1>4, <1>5

\* A request from the idle client has a new number, and a connect a new key pair.
LEMMA AskKeepsOwn ==
  ASSUME OInv, NEW op \in {"start", "refresh"}, NEW p \in PublicKeys, Ask(op, p),
         cli.pc = "idle", cli'.pc = "wait", cli'.no = asked', cli'.pub = p,
         cli'.op = "connect" <=> op = "start",
         op = "start" => p \notin made /\ made' = made \cup {p},
         op = "refresh" => Readable /\ p = session.pub /\ made' = made,
         UNCHANGED <<iface, session>>
  PROVE  Own' /\ Apart' /\ Newcomer'
<1> DEFINE n == [no |-> asked', op |-> op, pub |-> p]
<1>1. /\ calls' = calls \cup {n} /\ UNCHANGED <<activations, replies>> /\ asked' = asked + 1
      /\ n.no = asked' /\ n.op = op /\ n.pub = p
  BY DEF Ask, taskVars
<1> HIDE DEF n
<1>2. asked \in Int /\ \A x \in calls \cup replies : x.no \in Int /\ x.no <= asked
  BY VpnAssumption DEF OInv, TInv, IInv, TypeOK, Answer, Keys, Numbered
<1>3. Readable' = Readable
  BY DEF Readable
<1>4. p \in made' /\ made \subseteq made'
  BY DEF OInv, Own
<1>5. Own'
  BY <1>1, <1>3, <1>4 DEF OInv, Own
<1>6. Apart'
  BY <1>1, <1>2 DEF OInv, Apart
<1>7. ASSUME NEW c \in calls, c.op = "start"
      PROVE  /\ activations'[c.pub] = {} /\ c.pub # p
             /\ Readable' => session'.pub # c.pub
             /\ iface' # Down => iface'.pub # c.pub
             /\ \A d \in calls' : d.pub = c.pub => d = c
  <2>1. c.pub # p
    BY <1>7 DEF OInv, Own, Newcomer
  <2> QED BY <1>1, <1>3, <1>7, <2>1 DEF OInv, Newcomer
<1>8. ASSUME op = "start"
      PROVE  /\ activations'[p] = {}
             /\ Readable' => session'.pub # p
             /\ iface' # Down => iface'.pub # p
             /\ \A d \in calls' : d.pub = p => d = n
  BY <1>1, <1>3, <1>8 DEF OInv, Own
<1>9. Newcomer'
  BY <1>1, <1>7, <1>8 DEF Newcomer
<1> QED BY <1>5, <1>6, <1>9

LEMMA CommandKeepsOwn ==
  ASSUME OInv, CommandStep \/ NotSent \/ Disconnect \/ ClientReboot \/ UNCHANGED tunnelVars
  PROVE  Own' /\ Apart' /\ Newcomer'
<1>0. UNCHANGED <<calls, replies, activations>>
  BY DEF CommandStep, GetAnswer, NoAnswer, GiveUp, FetchKey, FetchFails, BringUp, SetPsk, InstallFails,
     OpenSession, WriteSession, Unlink, Kill, NotSent, Disconnect, ClientReboot, tunnelVars, vars, taskVars
<1>1. Apart'
  BY <1>0 DEF OInv, Apart
<1>2. ClientType
  BY DEF OInv, TInv
<1>3. CASE GetAnswer \/ FetchKey \/ BringUp \/ SetPsk \/ OpenSession
  <2>1. /\ made' = made /\ session' \in {session, Torn}
        /\ \E line \in Busy \ {"wait"} : cli' = [cli EXCEPT !.pc = line]
        /\ cli.pc \in Busy /\ (cli.pc = "wait" => Answered)
    BY <1>3 DEF GetAnswer, FetchKey, BringUp, SetPsk, OpenSession, Busy
  <2>2. cli'.pc \in Busy \ {"wait"} /\ cli'.pub = cli.pub /\ cli'.no = cli.no /\ cli'.op = cli.op
    BY <1>2, <2>1, NextLine
  <2>3. Readable' => Readable /\ session' = session
    BY <2>1 DEF Readable
  <2>4. /\ \/ iface' = iface
           \/ iface'.pub = cli.pub
           \/ iface # Down /\ iface'.pub = iface.pub
        /\ iface' = [pub |-> iface'.pub, psk |-> iface'.psk]
    <3>1. CASE BringUp
      BY <3>1 DEF BringUp, WgUp
    <3>2. CASE SetPsk
      <4>1. iface # Down /\ iface' = [iface EXCEPT !.psk = cli.no]
        BY <3>2 DEF SetPsk, WgSetPsk
      <4>2. iface' = [pub |-> iface.pub, psk |-> cli.no]
        BY <4>1 DEF OInv, Own
      <4> QED BY <4>1, <4>2
    <3> QED BY <1>3, <3>1, <3>2 DEF GetAnswer, FetchKey, OpenSession, OInv, Own
  \* The answer of the command is there, so it is not a newcomer.
  <2>5. \A c \in calls : c.op = "start" => c.pub # cli.pub
    BY <2>1 DEF OInv, Newcomer, Apart, Answered
  <2>6. Own'
    BY <1>0, <2>1, <2>2, <2>3, <2>4 DEF OInv, Own
  <2>7. Newcomer'
    BY <1>0, <2>2, <2>3, <2>4, <2>5 DEF OInv, Newcomer
  <2> QED BY <1>1, <2>6, <2>7
<1>4. CASE NoAnswer \/ GiveUp \/ FetchFails \/ InstallFails \/ Kill
  <2>1. UNCHANGED <<made, session, iface>> /\ cli'.pc = "idle"
    BY <1>4, Idle DEF NoAnswer, GiveUp, FetchFails, InstallFails, Kill, Exit1
  <2> QED BY <1>0, <1>1, <2>1 DEF OInv, Own, Newcomer, Readable, Busy
<1>5. CASE WriteSession
  <2>1. /\ UNCHANGED <<made, iface>> /\ cli'.pc = "idle" /\ cli.pc = "write"
        /\ session' = [pub |-> cli.pub, key |-> cli.no]
    BY <1>5, Idle DEF WriteSession
  <2>2. session'.pub = cli.pub /\ cli.pub \in made
    BY <2>1 DEF OInv, Own, Busy
  <2>3. \A c \in calls : c.op = "start" => c.pub # cli.pub
    BY <2>1 DEF OInv, Newcomer, Busy
  <2> QED BY <1>0, <1>1, <2>1, <2>2, <2>3 DEF OInv, Own, Newcomer, Busy
<1>6. CASE NotSent \/ Disconnect \/ Unlink \/ ClientReboot
  <2>1. /\ made \subseteq made' /\ session' \in {session, NoSession} /\ iface' \in {iface, Down}
        /\ cli'.pc \in {"idle", "unlink"}
    <3>1. CASE ClientReboot
      BY <3>1, Idle DEF ClientReboot
    <3>2. CASE Disconnect \/ Unlink
      BY <3>2, Unlinking DEF Disconnect, Unlink
    <3> QED BY <1>6, <3>1, <3>2 DEF NotSent
  <2> QED BY <1>0, <1>1, <2>1 DEF OInv, Own, Newcomer, Readable, Busy, Down
<1>7. CASE UNCHANGED tunnelVars
  BY <1>0, <1>1, <1>7 DEF OInv, Own, Newcomer, Readable, tunnelVars, clientVars
<1> QED BY <1>3, <1>4, <1>5, <1>6, <1>7 DEF CommandStep

LEMMA StepOInv == OInv /\ [TunnelNext]_tunnelVars => OInv'
<1> SUFFICES ASSUME OInv, [TunnelNext]_tunnelVars PROVE Own' /\ Apart' /\ Newcomer'
  BY StepTInv DEF OInv
<1>1. ASSUME NEW p \in PublicKeys, Connect(p) PROVE Own' /\ Apart' /\ Newcomer'
  <2>1. /\ Ask("start", p) /\ p \notin made /\ made' = made \cup {p} /\ cli.pc = "idle"
        /\ cli' = [pc |-> "wait", op |-> "connect", pub |-> p, no |-> asked']
        /\ UNCHANGED <<iface, session>>
    BY <1>1 DEF Connect, StartRequest
  <2> QED BY <2>1, AskKeepsOwn
<1>2. CASE Refresh
  <2>1. /\ Ask("refresh", session.pub) /\ made' = made /\ cli.pc = "idle" /\ Readable
        /\ cli' = [pc |-> "wait", op |-> "refresh", pub |-> session.pub, no |-> asked']
        /\ UNCHANGED <<iface, session>>
    BY <1>2 DEF Refresh, RefreshRequest
  <2>2. session.pub \in PublicKeys
    BY <2>1 DEF OInv, TInv, ClientType
  <2> QED BY <2>1, <2>2, AskKeepsOwn
<1>3. CASE ServerStep /\ UNCHANGED clientVars
  BY <1>3, ServerKeepsOwn
<1>4. CASE CommandStep \/ NotSent \/ Disconnect \/ ClientReboot \/ UNCHANGED tunnelVars
  BY <1>4, CommandKeepsOwn
<1> QED BY <1>1, <1>2, <1>3, <1>4 DEF TunnelNext

\* Numbers, key pairs and newcomers are kept apart under every fault, restarts, abandoned
\* commands and client reboots included (refresh_connection; cli.py connect).
THEOREM OwnershipInvariance == TunnelSpec => []OInv
BY InitOInv, StepOInv, PTL DEF TunnelSpec

-----------------------------------------------------------------------------

\* What the session file has to do with the PSK of the interface, under every fault.  Between
\* the installation and OpenSession the file names the key before.
FileOfPsk ==
  /\ Readable /\ iface # Down /\ ok /\ cli.pc # "save" => session.key = iface.psk
  /\ cli.pc \in {"save", "write"} => iface # Down /\ iface.psk = cli.no
  /\ session = Torn => cli.pc = "write" \/ ~ok

LEMMA InitFilePsk == TunnelInit => FileOfPsk
<1> SUFFICES ASSUME TunnelInit PROVE FileOfPsk
  OBVIOUS
<1>1. cli.pc = "idle" /\ iface = Down /\ session = NoSession
  BY DEF TunnelInit, NoCommand
<1> QED BY <1>1, NotAFile DEF FileOfPsk

LEMMA StepFilePsk ==
  ASSUME OInv, FileOfPsk, [TunnelNext]_tunnelVars PROVE FileOfPsk'
<1> USE DEF OInv
<1>1. CASE UNCHANGED clientVars
  BY <1>1 DEF FileOfPsk, Readable, clientVars
<1>2. ASSUME cli.pc \notin {"save", "write"}, cli'.pc \notin {"save", "write"},
             UNCHANGED <<iface, session>>, ok' => ok
      PROVE  FileOfPsk'
  BY <1>2 DEF FileOfPsk, Readable
<1>3. (\E p \in PublicKeys : Connect(p)) \/ Refresh => FileOfPsk'
  BY <1>2 DEF Connect, Refresh
<1>4. CASE GetAnswer \/ FetchKey
  <2>1. UNCHANGED <<iface, session, ok>> /\ cli.pc \in {"wait", "fetch"}
        /\ \E line \in {"fetch", "install"} : cli' = [cli EXCEPT !.pc = line]
    BY <1>4 DEF GetAnswer, FetchKey
  <2>2. cli'.pc \in {"fetch", "install"}
    BY <2>1, NextLine DEF TInv
  <2> QED BY <1>2, <2>1, <2>2
<1>5. CASE NoAnswer \/ GiveUp \/ FetchFails \/ InstallFails \/ ClientReboot
  <2>1. session' = session /\ ok' = FALSE /\ cli'.pc = "idle"
    BY <1>5, Idle DEF NoAnswer, GiveUp, FetchFails, InstallFails, Exit1, ClientReboot
  <2> QED BY <2>1 DEF FileOfPsk
<1>6. CASE Kill
  <2>1. /\ UNCHANGED <<iface, session>> /\ cli'.pc = "idle"
        /\ ok' => ok /\ cli.op = "disconnect"
    BY <1>6, Idle DEF Kill
  <2>2. cli.pc \in {"save", "write"} => ~ok'
    BY <2>1 DEF TInv, ClientType, Busy
  <2> QED BY <1>2, <2>1, <2>2 DEF FileOfPsk
<1>7. CASE BringUp \/ SetPsk
  <2>1. /\ iface' = [pub |-> cli.pub, psk |-> cli.no] \/ iface' = [iface EXCEPT !.psk = cli.no]
        /\ UNCHANGED <<session, ok>> /\ cli.pc = "install" /\ cli' = [cli EXCEPT !.pc = "save"]
    BY <1>7 DEF BringUp, SetPsk, WgUp, WgSetPsk
  <2>2. cli'.pc = "save" /\ cli'.no = cli.no
    BY <2>1, NextLine DEF TInv
  <2>3. cli.no # 0
    BY <2>1 DEF TInv, ClientType, Busy, IInv, TypeOK
  <2>4. iface'.psk = cli.no
    BY <2>1 DEF Own
  <2>5. iface' # Down
    BY <2>3, <2>4 DEF Down
  <2> QED BY <2>1, <2>2, <2>4, <2>5 DEF FileOfPsk
<1>8. CASE OpenSession
  <2>1. /\ UNCHANGED <<iface, ok>> /\ session' = Torn
        /\ cli.pc = "save" /\ cli' = [cli EXCEPT !.pc = "write"]
    BY <1>8 DEF OpenSession
  <2>2. cli'.pc = "write" /\ cli'.no = cli.no
    BY <2>1, NextLine DEF TInv
  <2> QED BY <2>1, <2>2 DEF FileOfPsk, Readable
<1>9. CASE WriteSession
  <2>1. /\ iface' = iface /\ session' = [pub |-> cli.pub, key |-> cli.no]
        /\ cli.pc = "write" /\ cli'.pc = "idle"
    BY <1>9, Idle DEF WriteSession
  <2>2. cli.no # 0
    BY <2>1 DEF TInv, ClientType, Busy, IInv, TypeOK
  <2>3. session' # Torn
    BY <2>1, <2>2 DEF Torn
  <2> QED BY <2>1, <2>3 DEF FileOfPsk
<1>10. CASE NotSent
  BY <1>10 DEF NotSent, FileOfPsk, Readable
<1>11. CASE Disconnect
  <2>1. /\ iface' \in {iface, Down} /\ UNCHANGED <<session, ok>> /\ cli.pc = "idle"
        /\ cli'.pc \in {"idle", "unlink"}
    BY <1>11, Unlinking DEF Disconnect
  <2> QED BY <2>1 DEF FileOfPsk, Readable
<1>12. CASE Unlink
  <2>1. session' = NoSession /\ cli'.pc = "idle"
    BY <1>12, Idle DEF Unlink
  <2> QED BY <2>1, NotAFile DEF FileOfPsk, Readable
<1> QED
  BY <1>1, <1>3, <1>4, <1>5, <1>6, <1>7, <1>8, <1>9, <1>10, <1>11, <1>12
  DEF TunnelNext, CommandStep, tunnelVars

\* After a command that succeeded the session file names the PSK of the running interface,
\* under every fault of server and client: commands killed at any step, a disconnect too,
\* and machines restarted (cli.py connect, refresh, _save_session, disconnect).
THEOREM SessionNamesPskAlways == TunnelSpec => []SessionNamesPsk
<1>1. OInv /\ FileOfPsk /\ [TunnelNext]_tunnelVars => (OInv /\ FileOfPsk)'
  BY StepOInv, StepFilePsk
<1>2. FileOfPsk => SessionNamesPsk
  BY DEF FileOfPsk, SessionNamesPsk, Connected
<1> QED BY <1>1, <1>2, InitOInv, InitFilePsk, PTL DEF TunnelSpec

-----------------------------------------------------------------------------

\* No command is killed.  A disconnect killed after its `wg-quick down`, and then a connect
\* killed after its `wg-quick up`, leave the old session beside the new interface.
NoKills == ~Fault("kill")

\* `connect` has brought the interface up, and the session file may be from before a reboot.
FreshUp == cli.pc = "save" /\ cli.op = "connect"

\* Which key pair the session file, the interface and the command in progress are of.
FileOfInterface ==
  /\ Readable /\ iface # Down /\ ~FreshUp => session.pub = iface.pub
  /\ cli.pc \in {"wait", "fetch", "install", "save"} /\ cli.op = "refresh" =>
       Readable /\ session.pub = cli.pub
  /\ cli.pc \in {"save", "write"} => iface.pub = cli.pub

SInv == OInv /\ FileOfPsk /\ FileOfInterface

LEMMA InitSInv == TunnelInit => SInv
<1> SUFFICES ASSUME TunnelInit PROVE FileOfInterface
  BY InitOInv, InitFilePsk DEF SInv
<1>1. cli.pc = "idle" /\ iface = Down
  BY DEF TunnelInit, NoCommand
<1> QED BY <1>1 DEF FileOfInterface

LEMMA StepFile ==
  ASSUME SInv, [TunnelNext]_tunnelVars, NoKills PROVE FileOfInterface'
<1> USE DEF SInv, OInv, FreshUp
<1>1. CASE UNCHANGED clientVars
  BY <1>1 DEF FileOfInterface, Readable, clientVars
<1>2. ASSUME NEW p \in PublicKeys, Connect(p) PROVE FileOfInterface'
  <2>1. UNCHANGED <<iface, session>> /\ cli'.pc = "wait" /\ cli'.op = "connect"
        /\ cli.pc = "idle"
    BY <1>2 DEF Connect
  <2> QED BY <2>1 DEF FileOfInterface, Readable
<1>3. CASE Refresh
  <2>1. UNCHANGED <<iface, session>> /\ cli'.pc = "wait" /\ cli'.pub = session.pub
        /\ Readable /\ cli.pc = "idle"
    BY <1>3 DEF Refresh
  <2> QED BY <2>1 DEF FileOfInterface, Readable
<1>4. CASE GetAnswer \/ FetchKey
  <2>1. UNCHANGED <<iface, session>> /\ cli.pc \in {"wait", "fetch"}
        /\ \E line \in {"fetch", "install"} : cli' = [cli EXCEPT !.pc = line]
    BY <1>4 DEF GetAnswer, FetchKey
  <2>2. cli'.pc \in {"fetch", "install"} /\ cli'.op = cli.op /\ cli'.pub = cli.pub
    BY <2>1, NextLine DEF TInv
  <2> QED BY <2>1, <2>2 DEF FileOfInterface, Readable
<1>5. CASE NoAnswer \/ GiveUp \/ FetchFails \/ InstallFails
  <2>1. UNCHANGED <<iface, session>> /\ cli'.pc = "idle" /\ ~FreshUp
    BY <1>5, Idle DEF NoAnswer, GiveUp, FetchFails, InstallFails, Exit1
  <2> QED BY <2>1 DEF FileOfInterface, Readable
<1>6. CASE BringUp
  <2>1. /\ iface' = [pub |-> cli.pub, psk |-> cli.no] /\ UNCHANGED session
        /\ cli.pc = "install" /\ cli.op = "connect" /\ cli' = [cli EXCEPT !.pc = "save"]
    BY <1>6 DEF BringUp, WgUp
  <2>2. cli'.pc = "save" /\ cli'.op = "connect" /\ cli'.pub = cli.pub /\ cli'.no = cli.no
    BY <2>1, NextLine DEF TInv
  <2> QED BY <2>1, <2>2 DEF FileOfInterface, Readable
<1>7. CASE SetPsk
  <2>1. /\ iface # Down /\ iface' = [iface EXCEPT !.psk = cli.no] /\ UNCHANGED session
        /\ cli.pc = "install" /\ cli.op = "refresh" /\ cli' = [cli EXCEPT !.pc = "save"]
    BY <1>7 DEF SetPsk, WgSetPsk
  <2>2. cli'.pc = "save" /\ cli'.op = "refresh" /\ cli'.pub = cli.pub /\ cli'.no = cli.no
    BY <2>1, NextLine DEF TInv
  <2>3. iface' = [pub |-> iface.pub, psk |-> cli.no]
    BY <2>1 DEF Own
  <2>4. iface'.pub = cli.pub /\ session.pub = cli.pub /\ Readable
    BY <2>1, <2>3 DEF FileOfInterface
  <2> QED BY <2>1, <2>2, <2>4 DEF FileOfInterface, Readable
<1>8. CASE OpenSession
  <2>1. /\ iface' = iface /\ session' = Torn
        /\ cli.pc = "save" /\ cli' = [cli EXCEPT !.pc = "write"]
    BY <1>8 DEF OpenSession
  <2>2. cli'.pc = "write" /\ cli'.op = cli.op /\ cli'.pub = cli.pub
    BY <2>1, NextLine DEF TInv
  <2> QED BY <2>1, <2>2 DEF FileOfInterface, Readable
<1>9. CASE WriteSession
  <2>1. /\ iface' = iface /\ session' = [pub |-> cli.pub, key |-> cli.no]
        /\ cli.pc = "write" /\ cli'.pc = "idle"
    BY <1>9, Idle DEF WriteSession
  <2> QED BY <2>1 DEF FileOfInterface
<1>10. CASE NotSent
  BY <1>10 DEF NotSent, FileOfInterface, Readable
<1>11. CASE Disconnect
  <2>1. /\ iface' \in {iface, Down} /\ session' = session /\ cli.pc = "idle"
        /\ cli'.pc \in {"idle", "unlink"}
    BY <1>11, Unlinking DEF Disconnect
  <2> QED BY <2>1 DEF FileOfInterface, Readable
<1>12. CASE Unlink
  <2>1. session' = NoSession /\ cli'.pc = "idle"
    BY <1>12, Idle DEF Unlink
  <2> QED BY <2>1 DEF FileOfInterface, Readable
<1>13. CASE ClientReboot
  <2>1. iface' = Down /\ cli'.pc = "idle"
    BY <1>13, Idle DEF ClientReboot
  <2> QED BY <2>1 DEF FileOfInterface
<1>14. CASE Kill
  BY <1>14 DEF Kill, NoKills
<1> QED
  BY <1>1, <1>2, <1>3, <1>4, <1>5, <1>6, <1>7, <1>8, <1>9, <1>10, <1>11, <1>12, <1>13, <1>14
  DEF TunnelNext, CommandStep, tunnelVars

\* Where no command is killed, the session file is of the key pair the interface runs with,
\* whatever is lost, refused or given up and however often server and client machine restart
\* (cli.py connect, refresh, disconnect).
THEOREM SessionMatchesInterfaceAlways ==
  ASSUME NoKills PROVE TunnelSpec => []SessionMatchesInterface
<1>1. SInv /\ [TunnelNext]_tunnelVars => SInv'
  BY StepFile, StepFilePsk, StepOInv DEF SInv
<1>2. SInv => SessionMatchesInterface
  BY DEF SInv, FileOfInterface, FreshUp, SessionMatchesInterface, Connected
<1> QED BY <1>1, <1>2, InitSInv, PTL DEF TunnelSpec

-----------------------------------------------------------------------------

\* The server has p switched, or about to switch, to key k and to nothing else.
Agreed(p, k) == activations[p] = {k} \/ (activations[p] = {} /\ wg[p].psk = k)

\* The client's tunnel runs as p, or a connect is about to bring it up as p.  A request for
\* another key pair is a remnant from before a reboot.
Live(p) ==
  \/ iface # Down /\ p = iface.pub
  \/ cli.pc \in Busy /\ cli.op = "connect" /\ p = cli.pub

\* Which key the server is on, from the answer of a command until the next command.  No
\* request for the live key pair waits but that of the command in progress.
Agreement ==
  /\ \A c \in calls : Live(c.pub) => cli.pc = "wait" /\ c.no = cli.no
  /\ cli.pc \in Busy /\ (cli.pc = "wait" => Answered) /\ Live(cli.pub) =>
       Agreed(cli.pub, cli.no)
  /\ cli.pc \in {"idle", "unlink"} /\ ok /\ Readable /\ iface # Down =>
       Agreed(iface.pub, iface.psk)

\* The server stays up and its `wg set`s succeed; no command is killed, or abandoned while the
\* server still works on it.
Quiet == Faults \cap {"restart", "reboot", "wg", "giveup", "kill"} = {}

LEMMA InitAgreement == TunnelInit => Agreement
<1> SUFFICES ASSUME TunnelInit PROVE Agreement
  OBVIOUS
<1>1. cli.pc = "idle" /\ ~Readable /\ calls = {}
  BY DEF TunnelInit, NoCommand, Readable, Init
<1> QED BY <1>1 DEF Agreement, Busy

\* A request from the idle client is the only live one, and its number is not answered.
LEMMA AskAgrees ==
  ASSUME SInv, Agreement, NEW op \in {"start", "refresh"}, NEW p \in PublicKeys, Ask(op, p),
         cli.pc = "idle", cli'.pc = "wait", cli'.no = asked', cli'.pub = p,
         cli'.op = "connect" <=> op = "start",
         op = "start" => p \notin made,
         UNCHANGED iface
  PROVE  Agreement'
<1> DEFINE n == [no |-> asked', op |-> op, pub |-> p]
<1>1. /\ calls' = calls \cup {n} /\ replies' = replies /\ asked' = asked + 1
      /\ n.no = asked' /\ n.pub = p
  BY DEF Ask
<1> HIDE DEF n
<1>2. asked \in Int /\ \A r \in replies : r.no \in Int /\ r.no <= asked
  BY VpnAssumption DEF SInv, OInv, TInv, IInv, TypeOK, Answer, Keys, Numbered
<1>3. ~Answered'
  BY <1>1, <1>2 DEF Answered
<1>4. ASSUME NEW c \in calls PROVE ~Live(c.pub)'
  <2>1. ~Live(c.pub) /\ c.pub \in made
    BY DEF Agreement, SInv, OInv, Own
  <2> QED BY <2>1 DEF Live, Busy
<1>5. \A c \in calls' : Live(c.pub)' => cli'.pc = "wait" /\ c.no = cli'.no
  BY <1>1, <1>4 DEF Live
<1> QED BY <1>3, <1>5 DEF Agreement, Busy, Live

\* An activation that fires brings the server to the key it was agreed on.
LEMMA FiringAgrees ==
  ASSUME TInv, NEW p \in PublicKeys, NEW k, Agreed(p, k),
         NEW q \in PublicKeys, NEW l \in Keys, ActivateUnsaved(q, l) \/ Activate(q, l)
  PROVE  Agreed(p, k)'
<1>1. /\ l \in activations[q] /\ activations' = [activations EXCEPT ![q] = @ \ {l}]
      /\ SetPeer(q, l, peers[q].ip) /\ SetRecord(q, l, peers[q].ip)
  BY DEF ActivateUnsaved, Activate, Fire, ApplyUnsaved, ApplyKey
<1>2. peers[q].ip \in Addresses
  BY <1>1, RecordShape DEF TInv, IInv, Known, TypeOK, Addresses
<1>3. wg'[q].psk = l /\ \A r \in PublicKeys \ {q} : wg'[r].psk = wg[r].psk
  BY <1>1, <1>2, Applied DEF TInv
<1>4. activations \in [PublicKeys -> SUBSET Keys]
  BY DEF TInv, IInv, TypeOK
<1>5. CASE p = q
  <2>1. k = l /\ activations'[p] = {}
    BY <1>1, <1>4, <1>5 DEF Agreed
  <2> QED BY <1>3, <1>5, <2>1 DEF Agreed
<1>6. CASE p # q
  <2>1. activations'[p] = activations[p]
    BY <1>1, <1>4, <1>6
  <2> QED BY <1>3, <1>6, <2>1 DEF Agreed
<1> QED BY <1>5, <1>6

\* A request comes to an end: without an answer, or with the server on its key or about to be.
LEMMA CallAgrees ==
  ASSUME SInv, Agreement, UNCHANGED clientVars, NEW c \in calls, calls' = calls \ {c},
         \A p \in PublicKeys :
           p # c.pub => activations'[p] = activations[p] /\ wg'[p].psk = wg[p].psk,
         \/ replies' = replies
         \/ Agreed(c.pub, c.no)' /\ \A r \in replies' : r \in replies \/ r.no = c.no
  PROVE  Agreement'
<1>0. UNCHANGED <<cli, iface, ok>> /\ Readable' = Readable /\ \A p : Live(p)' = Live(p)
  BY DEF clientVars, Readable, Live
<1>1. \A d \in calls' : Live(d.pub)' => cli'.pc = "wait" /\ d.no = cli'.no
  BY <1>0 DEF Agreement
<1>2. ASSUME cli.pc \in Busy, cli.pc = "wait" => Answered', Live(cli.pub)
      PROVE  Agreed(cli.pub, cli.no)'
  <2>1. cli.pub \in PublicKeys
    BY <1>2 DEF SInv, OInv, TInv, ClientType
  <2>2. CASE c.pub = cli.pub
    <3>1. cli.pc = "wait" /\ c.no = cli.no
      BY <1>2, <2>2 DEF Agreement
    <3>2. replies' # replies
      BY <1>0, <1>2, <3>1 DEF Answered, SInv, OInv, Apart
    <3> QED BY <1>0, <2>2, <3>1, <3>2 DEF Agreed
  <2>3. CASE c.pub # cli.pub
    <3>1. c.no # cli.no
      BY <1>2, <2>3 DEF SInv, OInv, TInv, Numbered
    <3>2. cli.pc = "wait" => Answered
      BY <1>0, <1>2, <3>1 DEF Answered
    <3>3. Agreed(cli.pub, cli.no)
      BY <1>2, <3>2 DEF Agreement
    <3> QED BY <1>0, <2>1, <2>3, <3>3 DEF Agreed
  <2> QED BY <2>2, <2>3
<1>3. ASSUME cli.pc \in {"idle", "unlink"}, ok, Readable, iface # Down
      PROVE  Agreed(iface.pub, iface.psk)'
  <2>1. session.pub = iface.pub /\ iface.pub \in PublicKeys
    BY <1>3 DEF SInv, FileOfInterface, FreshUp, OInv, TInv, ClientType
  <2>2. c.pub # iface.pub
    BY <1>3 DEF Agreement, Live
  <2>3. Agreed(iface.pub, iface.psk)
    BY <1>3 DEF Agreement
  <2> QED BY <1>0, <2>1, <2>2, <2>3 DEF Agreed
<1> QED BY <1>0, <1>1, <1>2, <1>3 DEF Agreement, Agreed, Answered, Live

\* What the server's step does to a peer that has a key installed for it.
LEMMA Installed ==
  ASSUME TInv, NEW c \in calls, NEW a \in Addresses, SetPeer(c.pub, c.no, a),
         SetRecord(c.pub, c.no, a)
  PROVE  /\ wg'[c.pub].psk = c.no
         /\ \A q \in PublicKeys : q # c.pub => wg'[q].psk = wg[q].psk
<1> DEFINE p == c.pub
           k == c.no
<1>1. SetPeer(p, k, a) /\ SetRecord(p, k, a) /\ p \in PublicKeys /\ k \in Keys /\ IInv
  BY DEF TInv, IInv, TypeOK
<1> HIDE DEF p, k
<1>2. wg'[p].psk = k /\ \A q \in PublicKeys \ {p} : wg'[q].psk = wg[q].psk
  BY <1>1, Applied
<1> QED BY <1>2 DEF p, k

\* The server's own steps.
LEMMA ServerAgrees ==
  ASSUME SInv, Agreement, Quiet, ServerStep, UNCHANGED clientVars
  PROVE  Agreement'
<1>0. UNCHANGED <<cli, iface, ok>> /\ Readable' = Readable /\ \A p : Live(p)' = Live(p)
  BY DEF clientVars, Readable, Live
<1>1. TInv /\ activations \in [PublicKeys -> SUBSET Keys] /\ \A c \in calls : c.pub \in PublicKeys
  BY DEF SInv, OInv, TInv, IInv, TypeOK
<1>2. ASSUME NEW c \in calls, EkmFails(c) \/ StartNoAddress(c) PROVE Agreement'
  <2>1. calls' = calls \ {c} /\ UNCHANGED <<activations, wg, replies>>
    BY <1>2 DEF EkmFails, StartNoAddress, Return, diskVars, taskVars
  <2> QED BY <2>1, CallAgrees
<1>3. ASSUME NEW c \in calls, StartUnsaved(c) PROVE Agreement'
  <2>1. PICK a \in Addresses : SetPeer(c.pub, c.no, a) /\ SetRecord(c.pub, c.no, a)
    BY <1>3 DEF StartUnsaved, ApplyUnsaved
  <2>2. calls' = calls \ {c} /\ UNCHANGED <<activations, replies>>
    BY <1>3 DEF StartUnsaved, Return
  <2>3. \A q \in PublicKeys : q # c.pub => wg'[q].psk = wg[q].psk
    BY <1>1, <2>1, Installed
  <2> QED BY <2>2, <2>3, CallAgrees
<1>4. ASSUME NEW c \in calls, StartApplied(c) PROVE Agreement'
  <2>1. PICK a \in Addresses : SetPeer(c.pub, c.no, a) /\ SetRecord(c.pub, c.no, a)
    BY <1>4 DEF StartApplied, ApplyKey
  <2>2. /\ calls' = calls \ {c} /\ activations' = activations /\ c.op = "start"
        /\ \A r \in replies' : r \in replies \/ r.no = c.no
    BY <1>4 DEF StartApplied, StartWaits, Return, Reply
  <2>3. wg'[c.pub].psk = c.no /\ \A q \in PublicKeys : q # c.pub => wg'[q].psk = wg[q].psk
    BY <1>1, <2>1, Installed
  <2>4. Agreed(c.pub, c.no)'
    BY <2>2, <2>3 DEF Agreed, SInv, OInv, Newcomer
  <2> QED BY <2>2, <2>3, <2>4, CallAgrees
<1>5. ASSUME NEW c \in calls, RefreshScheduled(c) PROVE Agreement'
  <2>1. /\ calls' = calls \ {c} /\ activations' = [activations EXCEPT ![c.pub] = {c.no}]
        /\ wg' = wg /\ \A r \in replies' : r \in replies \/ r.no = c.no
    BY <1>5 DEF RefreshScheduled, Schedule, Return, Reply, diskVars
  <2>2. /\ Agreed(c.pub, c.no)'
        /\ \A p \in PublicKeys : p # c.pub => activations'[p] = activations[p]
    BY <1>1, <2>1 DEF Agreed
  <2> QED BY <2>1, <2>2, CallAgrees
<1>6. ASSUME NEW q \in PublicKeys, NEW l \in Keys, ActivateUnsaved(q, l) \/ Activate(q, l)
      PROVE  Agreement'
  <2>1. UNCHANGED <<calls, replies>> /\ Answered' = Answered
    BY <1>0, <1>6 DEF ActivateUnsaved, Activate, Answered
  <2>2. ASSUME NEW p \in PublicKeys, NEW k, Agreed(p, k)
        PROVE  activations'[p] = {k} \/ (activations'[p] = {} /\ wg'[p].psk = k)
    BY <1>1, <1>6, <2>2, FiringAgrees DEF Agreed
  <2>3. cli.pc \in Busy => cli.pub \in PublicKeys
    BY <1>1 DEF TInv, ClientType
  <2>4. cli.pc \in {"idle", "unlink"} /\ Readable /\ iface # Down => iface.pub \in PublicKeys
    BY <1>1 DEF TInv, ClientType, SInv, FileOfInterface, FreshUp
  <2>5. \A c \in calls' : Live(c.pub)' => cli'.pc = "wait" /\ c.no = cli'.no
    BY <1>0, <2>1 DEF Agreement
  <2>6. cli'.pc \in Busy /\ (cli'.pc = "wait" => Answered') /\ Live(cli.pub)' =>
          Agreed(cli.pub, cli.no)'
    BY <1>0, <2>1, <2>2, <2>3 DEF Agreement, Agreed, Live
  <2>7. cli'.pc \in {"idle", "unlink"} /\ ok' /\ Readable' /\ iface' # Down =>
          Agreed(iface.pub, iface.psk)'
    BY <1>0, <2>2, <2>4 DEF Agreement, Agreed
  <2> QED BY <2>5, <2>6, <2>7 DEF Agreement, Agreed, Live
<1>7. ASSUME NEW q \in PublicKeys, TimerDue(q) PROVE Agreement'
  BY <1>0, <1>7 DEF TimerDue, Agreement, Agreed, Answered, Live
<1> QED
  BY <1>2, <1>3, <1>4, <1>5, <1>6, <1>7
  DEF ServerStep, StartRefused, ActivateRefused, Restart, Reboot, StartDies, ActivateDies,
      ApplyDies, Quiet, Fault

\* The client's own steps.
LEMMA CommandAgrees ==
  ASSUME SInv, Agreement, Quiet,
         CommandStep \/ NotSent \/ Disconnect \/ ClientReboot \/ UNCHANGED tunnelVars
  PROVE  Agreement'
<1>0. UNCHANGED <<calls, replies, activations, wg>>
  BY DEF CommandStep, GetAnswer, NoAnswer, GiveUp, FetchKey, FetchFails, BringUp, SetPsk, InstallFails,
     OpenSession, WriteSession, Unlink, Kill, NotSent, Disconnect, ClientReboot, tunnelVars, vars, diskVars,
     taskVars
<1>1. ClientType /\ Own /\ Apart
  BY DEF SInv, OInv, TInv
<1>2. CASE GetAnswer \/ FetchKey \/ BringUp \/ SetPsk \/ OpenSession
  <2>1. /\ \E line \in Busy \ {"wait"} : cli' = [cli EXCEPT !.pc = line]
        /\ cli.pc \in Busy /\ (cli.pc = "wait" => Answered)
    BY <1>2 DEF GetAnswer, FetchKey, BringUp, SetPsk, OpenSession, Busy
  <2>2. cli'.pc \in Busy \ {"wait"} /\ cli'.op = cli.op /\ cli'.pub = cli.pub /\ cli'.no = cli.no
    BY <1>1, <2>1, NextLine
  <2>3. ASSUME NEW p, Live(p)' PROVE Live(p)
    <3>1. CASE BringUp
      <4>1. cli.op = "connect" /\ iface'.pub = cli.pub
        BY <3>1 DEF BringUp, WgUp
      <4> QED BY <2>1, <2>2, <2>3, <4>1 DEF Live
    <3>2. CASE SetPsk
      <4>1. iface # Down /\ iface' = [iface EXCEPT !.psk = cli.no]
        BY <3>2 DEF SetPsk, WgSetPsk
      <4>2. iface'.pub = iface.pub
        BY <1>1, <4>1 DEF Own
      <4> QED BY <2>1, <2>2, <2>3, <4>1, <4>2 DEF Live
    <3>3. CASE iface' = iface
      BY <2>1, <2>2, <2>3, <3>3 DEF Live
    <3> QED BY <1>2, <3>1, <3>2, <3>3 DEF GetAnswer, FetchKey, OpenSession
  <2>4. \A c \in calls : ~Live(c.pub)
    BY <1>1, <2>1 DEF Agreement, Answered, Apart
  <2>5. Live(cli.pub) => Agreed(cli.pub, cli.no)
    BY <2>1 DEF Agreement
  <2>6. \A c \in calls' : ~Live(c.pub)'
    BY <1>0, <2>3, <2>4
  <2>7. Live(cli.pub)' => Agreed(cli.pub, cli.no)'
    BY <1>0, <2>2, <2>3, <2>5 DEF Agreed
  <2> QED BY <2>2, <2>6, <2>7 DEF Agreement, Agreed, Busy, Live
<1>3. CASE NoAnswer \/ FetchFails \/ InstallFails
  <2>1. /\ UNCHANGED iface /\ ok' = FALSE /\ cli'.pc = "idle"
        /\ cli.pc = "wait" => ~Waiting
    BY <1>3, Idle DEF NoAnswer, FetchFails, InstallFails, Exit1
  <2>2. \A c \in calls : ~Live(c.pub)
    BY <2>1 DEF Agreement, Waiting
  <2> QED BY <1>0, <2>1, <2>2 DEF Agreement, Busy, Live
<1>4. CASE GiveUp \/ Kill
  BY <1>4 DEF GiveUp, Kill, Fault, Quiet
<1>5. CASE WriteSession
  <2>1. cli.pc = "write" /\ UNCHANGED iface /\ cli'.pc = "idle"
    BY <1>5, Idle DEF WriteSession
  <2>2. iface # Down /\ iface.pub = cli.pub /\ iface.psk = cli.no
    BY <2>1 DEF SInv, FileOfPsk, FileOfInterface
  <2>3. Agreed(iface.pub, iface.psk) /\ \A c \in calls : ~Live(c.pub)
    BY <2>1, <2>2 DEF Agreement, Busy, Live
  <2> QED BY <1>0, <2>1, <2>3 DEF Agreement, Agreed, Busy, Live
<1>6. CASE NotSent \/ Disconnect \/ Unlink
  <2>1. cli.pc \in {"idle", "unlink"} /\ cli'.pc \in {"idle", "unlink"}
    BY <1>6, Unlinking DEF NotSent, Disconnect, Unlink
  <2>2. ok' = ok /\ iface' \in {iface, Down} /\ session' \in {session, NoSession}
    BY <1>6 DEF NotSent, Disconnect, Unlink
  <2> QED BY <1>0, <2>1, <2>2 DEF Agreement, Agreed, Busy, Readable, Live
<1>7. CASE ClientReboot
  <2>1. iface' = Down /\ cli'.pc = "idle"
    BY <1>7, Idle DEF ClientReboot
  <2> QED BY <2>1 DEF Agreement, Busy, Live
<1>8. CASE UNCHANGED tunnelVars
  BY <1>0, <1>8 DEF Agreed, tunnelVars, clientVars, Agreement, Readable, Answered, Live
<1> QED BY <1>2, <1>3, <1>4, <1>5, <1>6, <1>7, <1>8 DEF CommandStep

LEMMA StepAgrees ==
  ASSUME SInv, Agreement, Quiet, [TunnelNext]_tunnelVars PROVE Agreement'
<1>1. ASSUME NEW p \in PublicKeys, Connect(p) PROVE Agreement'
  <2>1. /\ Ask("start", p) /\ p \notin made /\ cli.pc = "idle"
        /\ cli' = [pc |-> "wait", op |-> "connect", pub |-> p, no |-> asked']
        /\ UNCHANGED iface
    BY <1>1 DEF Connect, StartRequest
  <2> QED BY <2>1, AskAgrees
<1>2. CASE Refresh
  <2>1. /\ Ask("refresh", session.pub) /\ cli.pc = "idle" /\ Readable
        /\ cli' = [pc |-> "wait", op |-> "refresh", pub |-> session.pub, no |-> asked']
        /\ UNCHANGED iface
    BY <1>2 DEF Refresh, RefreshRequest
  <2>2. session.pub \in PublicKeys
    BY <2>1 DEF SInv, OInv, TInv, ClientType
  <2> QED BY <2>1, <2>2, AskAgrees
<1>3. CASE ServerStep /\ UNCHANGED clientVars
  BY <1>3, ServerAgrees
<1>4. CASE CommandStep \/ NotSent \/ Disconnect \/ ClientReboot \/ UNCHANGED tunnelVars
  BY <1>4, CommandAgrees
<1> QED BY <1>1, <1>2, <1>3, <1>4 DEF TunnelNext

LEMMA StepQuiet ==
  ASSUME Quiet PROVE SInv /\ Agreement /\ [TunnelNext]_tunnelVars => (SInv /\ Agreement)'
BY StepFile, StepFilePsk, StepOInv, StepAgrees DEF Quiet, NoKills, Fault, SInv

\* Both ends hold one PSK whenever a command has succeeded and nothing is under way, in
\* spite of lost answers, EKM errors, unsaved records, keys lost on the way and client
\* machines restarted at any moment.  The faults left out are those of the two violations,
\* what makes a `wg set` fail at the server, and kills, after which a refresh may rekey
\* another tunnel than its own (refresh_connection; cli.py refresh).
THEOREM TunnelAgreesAlways ==
  ASSUME Quiet PROVE TunnelSpec => []TunnelAgrees
<1>1. SInv /\ Agreement /\ [TunnelNext]_tunnelVars => (SInv /\ Agreement)'
  BY StepQuiet
<1>2. SInv /\ Agreement => TunnelAgrees
  BY DEF Agreement, Agreed, TunnelAgrees, Connected, Settled
<1> QED BY <1>1, <1>2, InitSInv, InitAgreement, PTL DEF TunnelSpec

\* After a command that succeeded the server is on the client's key, or has it scheduled and
\* nothing else: what is left of RekeyCompletes is that the activation fires
\* (refresh_connection's asyncio.create_task; cli.py refresh).
SwitchUnderWay ==
  Connected /\ ok =>
    \/ activations[iface.pub] = {} /\ wg[iface.pub].psk = iface.psk
    \/ activations[iface.pub] = {iface.psk}

\* The safety half of RekeyCompletes (refresh_connection's activation; cli.py refresh).
THEOREM SwitchUnderWayAlways ==
  ASSUME Quiet PROVE TunnelSpec => []SwitchUnderWay
<1>1. SInv /\ Agreement /\ [TunnelNext]_tunnelVars => (SInv /\ Agreement)'
  BY StepQuiet
<1>2. SInv /\ Agreement => SwitchUnderWay
  BY DEF Agreement, Agreed, SwitchUnderWay, Connected
<1> QED BY <1>1, <1>2, InitSInv, InitAgreement, PTL DEF TunnelSpec

-----------------------------------------------------------------------------
(* VpnTunnel implements Rekeying.                                           *)

\* Without restarts the kernel has a key for every peer the server knows.
RInv == SInv /\ Agreement /\ crashes = 0

LEMMA OnlyOne == ASSUME NEW k PROVE Only({k}) = k
BY DEF Only

\* The key that is agreed on is the key that is offered.
LEMMA OfferedIsAgreed ==
  ASSUME NEW p \in PublicKeys, NEW k, Agreed(p, k) PROVE KeyOffered[p] = k
BY OnlyOne DEF Agreed, KeyOffered

\* A step that brings the server to agree with p on k, and does nothing to the others.
LEMMA OfferedNow ==
  ASSUME NEW p \in PublicKeys, NEW k, Agreed(p, k)',
         \A q \in PublicKeys :
           q # p => activations'[q] = activations[q] /\ wg'[q].psk = wg[q].psk
  PROVE  KeyOffered' = [KeyOffered EXCEPT ![p] = k]
<1>1. \A q \in PublicKeys : q # p => KeyOffered'[q] = KeyOffered[q]
  BY DEF KeyOffered
<1>2. KeyOffered'[p] = k
  BY OnlyOne DEF Agreed, KeyOffered
<1>3. /\ KeyOffered = [q \in PublicKeys |-> KeyOffered[q]]
      /\ KeyOffered' = [q \in PublicKeys |-> KeyOffered'[q]]
  BY DEF KeyOffered
<1> HIDE DEF KeyOffered
<1> QED BY <1>1, <1>2, <1>3

LEMMA ServedNow ==
  ASSUME NEW p \in PublicKeys, NEW k, wg'[p].psk = k,
         \A q \in PublicKeys : q # p => wg'[q].psk = wg[q].psk
  PROVE  KeyServed' = [KeyServed EXCEPT ![p] = k]
BY DEF KeyServed

\* A request takes its key with it when it ends.
LEMMA SpentNow ==
  ASSUME OInv, NEW c \in calls, calls' = calls \ {c}, asked' = asked
  PROVE  c.no \in Keys /\ c.no \notin KeysSpent /\ KeysSpent' = KeysSpent \cup {c.no}
<1>1. c.no \in Keys /\ c.no <= asked /\ asked \in Nat
  BY VpnAssumption DEF OInv, TInv, IInv, TypeOK, Numbered
<1>2. c.no \in 1..asked
  BY <1>1 DEF Keys
<1>3. \A d \in calls : d # c => d.no # c.no
  BY DEF OInv, Apart
<1> QED BY <1>1, <1>2, <1>3 DEF KeysSpent

\* A request that begins has spent nothing yet.
LEMMA NoneSpent ==
  ASSUME OInv, NEW op, NEW p, Ask(op, p) PROVE KeysSpent' = KeysSpent
<1> DEFINE n == [no |-> asked', op |-> op, pub |-> p]
<1>1. calls' = calls \cup {n} /\ n.no = asked' /\ asked' = asked + 1 /\ asked \in Nat
  BY VpnAssumption DEF Ask, OInv, TInv, IInv, TypeOK
<1> HIDE DEF n
<1>2. \A k \in 1..asked' :
        (\A c \in calls' : c.no # k) <=> k \in 1..asked /\ (\A c \in calls : c.no # k)
  BY <1>1
<1> QED BY <1>1, <1>2 DEF KeysSpent

\* What an activation that fires does.
LEMMA Fired ==
  ASSUME OInv, NEW q \in PublicKeys, NEW l \in Keys, ActivateUnsaved(q, l) \/ Activate(q, l)
  PROVE  /\ Agreed(q, l) /\ Agreed(q, l)' /\ wg'[q].psk = l
         /\ \A r \in PublicKeys : r # q => activations'[r] = activations[r] /\ wg'[r].psk = wg[r].psk
         /\ UNCHANGED <<asked, calls>>
<1>1. /\ l \in activations[q] /\ activations' = [activations EXCEPT ![q] = @ \ {l}]
      /\ SetPeer(q, l, peers[q].ip) /\ SetRecord(q, l, peers[q].ip)
      /\ UNCHANGED <<asked, calls>>
  BY DEF ActivateUnsaved, Activate, Fire, ApplyUnsaved, ApplyKey
<1>2. Agreed(q, l)
  <2>1. activations[q] = {l}
    BY <1>1 DEF OInv, Apart
  <2> QED BY <2>1 DEF Agreed
<1>3. TInv
  BY DEF OInv
<1>4. Agreed(q, l)'
  BY <1>2, <1>3, FiringAgrees
<1>5. peers[q].ip \in Addresses
  BY <1>1, <1>3, RecordShape DEF TInv, IInv, Known, TypeOK, Addresses
<1>6. wg'[q].psk = l /\ \A r \in PublicKeys \ {q} : wg'[r].psk = wg[r].psk
  BY <1>1, <1>3, <1>5, Applied DEF TInv
<1>7. \A r \in PublicKeys : r # q => activations'[r] = activations[r]
  BY <1>1 DEF OInv, TInv, IInv, TypeOK
<1> QED BY <1>1, <1>2, <1>4, <1>6, <1>7

\* A request that ends without a key is a key lost.
LEMMA CallLost ==
  ASSUME OInv, NEW c \in calls, EkmFails(c) \/ StartNoAddress(c), UNCHANGED clientVars
  PROVE  Rekeyed!Next
<1>1. calls' = calls \ {c} /\ UNCHANGED <<asked, activations, wg, iface>>
  BY DEF EkmFails, StartNoAddress, Return, diskVars, taskVars, clientVars
<1>2. KeyOffered' = KeyOffered /\ KeyServed' = KeyServed
  BY <1>1 DEF KeyOffered, KeyServed
<1>3. Rekeyed!Lose(c.no) /\ c.no \in Keys
  BY <1>1, <1>2, SpentNow DEF Rekeyed!Lose, Rekeyed!Spend
<1> QED BY <1>3 DEF Rekeyed!Next

\* A peer that is started is admitted, whether or not its record could be saved.
LEMMA CallAdmits ==
  ASSUME OInv, NEW c \in calls, StartUnsaved(c) \/ StartApplied(c), UNCHANGED clientVars
  PROVE  Rekeyed!Next
<1>1. /\ calls' = calls \ {c} /\ UNCHANGED <<asked, activations, iface>> /\ c.op = "start"
  BY DEF StartUnsaved, StartApplied, StartWaits, Return, clientVars
<1>2. PICK a \in Addresses : SetPeer(c.pub, c.no, a) /\ SetRecord(c.pub, c.no, a)
  BY DEF StartUnsaved, StartApplied, ApplyUnsaved, ApplyKey
<1> DEFINE p == c.pub
           k == c.no
<1>3. p \in PublicKeys /\ wg'[p].psk = k /\ \A q \in PublicKeys : q # p => wg'[q].psk = wg[q].psk
  <2>1. TInv /\ c.pub \in PublicKeys
    BY DEF OInv, TInv, IInv, TypeOK
  <2> QED BY <1>2, <2>1, Installed
<1>4. activations[p] = {} /\ (iface # Down => iface.pub # p)
  BY <1>1 DEF OInv, Newcomer
<1>5. k \in Keys /\ k \notin KeysSpent /\ KeysSpent' = KeysSpent \cup {k}
  BY <1>1, SpentNow
<1> HIDE DEF p, k
<1>6. Agreed(p, k)'
  BY <1>1, <1>3, <1>4 DEF Agreed
<1>7. KeyOffered' = [KeyOffered EXCEPT ![p] = k] /\ KeyServed' = [KeyServed EXCEPT ![p] = k]
  BY <1>1, <1>3, <1>6, OfferedNow, ServedNow
<1>8. Rekeyed!Admit(p, k)
  BY <1>1, <1>4, <1>5, <1>7
  DEF Rekeyed!Admit, Rekeyed!Spend, Rekeyed!RunsAs, Rekeyed!Off, Rekeyed!NoKey, Down
<1> QED BY <1>3, <1>5, <1>8 DEF Rekeyed!Next

\* A refresh that is answered offers its key.
LEMMA CallOffers ==
  ASSUME RInv, NEW c \in calls, RefreshScheduled(c), UNCHANGED clientVars
  PROVE  Rekeyed!Next
<1>0. OInv
  BY DEF RInv, SInv
<1>1. /\ calls' = calls \ {c} /\ UNCHANGED <<asked, wg, iface>> /\ c.op = "refresh"
      /\ activations' = [activations EXCEPT ![c.pub] = {c.no}]
  BY DEF RefreshScheduled, Schedule, Return, diskVars, clientVars
<1> DEFINE p == c.pub
           k == c.no
<1>2. p \in PublicKeys /\ wg[p].psk # 0
  <2>1. p \in PublicKeys /\ peers[p].ip # 0
    BY <1>0, <1>1 DEF OInv, TInv, IInv, TypeOK, Known
  <2> QED BY <2>1, <1>0 DEF RInv, OInv, TInv, IInv, Accepted
<1>3. /\ activations'[p] = {k}
      /\ \A q \in PublicKeys : q # p => activations'[q] = activations[q]
  BY <1>0, <1>1, <1>2 DEF OInv, TInv, IInv, TypeOK
<1>4. k \in Keys /\ k \notin KeysSpent /\ KeysSpent' = KeysSpent \cup {k}
  BY <1>0, <1>1, SpentNow
<1> HIDE DEF p, k
<1>5. Agreed(p, k)'
  BY <1>3 DEF Agreed
<1>6. KeyOffered' = [KeyOffered EXCEPT ![p] = k]
  BY <1>1, <1>2, <1>3, <1>5, OfferedNow
<1>7. KeyServed' = KeyServed /\ KeyServed[p] # 0
  BY <1>1, <1>2 DEF KeyServed
<1>8. Rekeyed!Offer(p, k)
  BY <1>1, <1>4, <1>6, <1>7 DEF Rekeyed!Offer, Rekeyed!Spend, Rekeyed!NoKey
<1> QED BY <1>2, <1>4, <1>8 DEF Rekeyed!Next

LEMMA FiringSwitches ==
  ASSUME OInv, NEW q \in PublicKeys, NEW l \in Keys, ActivateUnsaved(q, l) \/ Activate(q, l),
         UNCHANGED clientVars
  PROVE  Rekeyed!Next
<1>1. iface' = iface /\ KeysSpent' = KeysSpent
  BY Fired DEF clientVars, KeysSpent
<1>2. KeyOffered[q] = l
  BY Fired, OfferedIsAgreed
<1>3. KeyOffered' = [KeyOffered EXCEPT ![q] = l]
  BY Fired, OfferedNow
<1>4. KeyServed' = [KeyServed EXCEPT ![q] = l]
  BY Fired, ServedNow
<1>5. KeyOffered' = KeyOffered
  BY <1>2, <1>3 DEF KeyOffered
<1>6. Rekeyed!ServerSwitch(q)
  BY <1>1, <1>2, <1>4, <1>5 DEF Rekeyed!ServerSwitch
<1> QED BY <1>6 DEF Rekeyed!Next

\* The steps of a command that install a key install the one that is offered.
LEMMA InstallSwitches ==
  ASSUME RInv, BringUp \/ SetPsk PROVE Rekeyed!Next
<1>1. /\ KeyOffered' = KeyOffered /\ KeyServed' = KeyServed /\ KeysSpent' = KeysSpent
      /\ cli.pc = "install" /\ cli.pub \in PublicKeys
  BY DEF BringUp, SetPsk, vars, diskVars, taskVars, KeyOffered, KeyServed, KeysSpent, RInv, SInv,
     OInv, TInv, ClientType, Busy
<1>2. Live(cli.pub) => KeyOffered[cli.pub] = cli.no
  BY <1>1, OfferedIsAgreed DEF RInv, Agreement, Busy
<1>3. CASE BringUp
  <2>1. iface = Down /\ iface' = [pub |-> cli.pub, psk |-> cli.no] /\ Live(cli.pub)
    BY <1>1, <1>3 DEF BringUp, WgUp, Live, Busy
  <2>2. cli.no # 0
    BY <1>1 DEF RInv, SInv, OInv, TInv, ClientType, Busy, IInv, TypeOK
  <2>3. Rekeyed!ClientStart(cli.pub)
    BY <1>1, <1>2, <2>1, <2>2 DEF Rekeyed!ClientStart, Rekeyed!Off, Rekeyed!NoKey, Down
  <2> QED BY <1>1, <2>3 DEF Rekeyed!Next
<1>4. CASE SetPsk
  <2>1. iface # Down /\ iface' = [iface EXCEPT !.psk = cli.no] /\ cli.op = "refresh"
    BY <1>4 DEF SetPsk, WgSetPsk
  <2>2. iface.pub = cli.pub
    BY <1>1, <2>1 DEF RInv, SInv, FileOfInterface, FreshUp
  <2>3. iface' = [pub |-> cli.pub, psk |-> cli.no]
    BY <2>1, <2>2 DEF RInv, SInv, OInv, Own
  <2>4. Rekeyed!ClientSwitch(cli.pub)
    BY <1>1, <1>2, <2>1, <2>2, <2>3
    DEF Rekeyed!ClientSwitch, Rekeyed!RunsAs, Rekeyed!Off, Rekeyed!NoKey, Down, Live
  <2> QED BY <1>1, <2>4 DEF Rekeyed!Next
<1> QED BY <1>3, <1>4

LEMMA RekeyingStep ==
  ASSUME RInv, Quiet, [TunnelNext]_tunnelVars PROVE [Rekeyed!Next]_(Rekeyed!vars)
<1>0. OInv
  BY DEF RInv, SInv
<1>1. ASSUME UNCHANGED <<activations, wg, iface>>, KeysSpent' = KeysSpent
      PROVE  UNCHANGED Rekeyed!vars
  BY <1>1 DEF Rekeyed!vars, KeyOffered, KeyServed
<1>2. ASSUME NEW p \in PublicKeys, Connect(p) PROVE UNCHANGED Rekeyed!vars
  <2>1. Ask("start", p) /\ UNCHANGED <<activations, wg, iface>>
    BY <1>2 DEF Connect, StartRequest, Ask, diskVars, taskVars
  <2> QED BY <1>0, <1>1, <2>1, NoneSpent
<1>3. CASE Refresh
  <2>1. Ask("refresh", session.pub) /\ UNCHANGED <<activations, wg, iface>>
    BY <1>3 DEF Refresh, RefreshRequest, Ask, diskVars, taskVars
  <2> QED BY <1>0, <1>1, <2>1, NoneSpent
<1>4. CASE ServerStep /\ UNCHANGED clientVars
  <2>1. ASSUME NEW p \in PublicKeys, TimerDue(p) PROVE UNCHANGED Rekeyed!vars
    BY <1>1, <1>4, <2>1 DEF TimerDue, clientVars, KeysSpent
  <2> QED
    BY <1>0, <1>4, <2>1, CallLost, CallAdmits, CallOffers, FiringSwitches
    DEF ServerStep, StartRefused, ActivateRefused, Restart, Reboot, StartDies, ActivateDies,
        ApplyDies, Quiet, Fault
<1>5. CASE BringUp \/ SetPsk
  BY <1>5, InstallSwitches
<1>6. CASE \/ NotSent \/ GetAnswer \/ NoAnswer \/ GiveUp \/ FetchKey \/ FetchFails \/ InstallFails
           \/ OpenSession \/ WriteSession \/ Unlink \/ Kill \/ UNCHANGED tunnelVars
  BY <1>1, <1>6
  DEF NotSent, GetAnswer, NoAnswer, GiveUp, FetchKey, FetchFails, InstallFails, OpenSession,
      WriteSession, Unlink, Kill, tunnelVars, clientVars, vars, diskVars, taskVars, KeysSpent
<1>7. CASE Disconnect \/ ClientReboot
  <2>1. UNCHANGED <<activations, wg, asked, calls>> /\ iface' \in {iface, Down}
    BY <1>7 DEF Disconnect, ClientReboot, vars, diskVars, taskVars
  <2>2. /\ KeyOffered' = KeyOffered /\ KeyServed' = KeyServed /\ KeysSpent' = KeysSpent
    BY <2>1 DEF KeyOffered, KeyServed, KeysSpent
  <2> QED
    BY <2>1, <2>2
    DEF Rekeyed!Next, Rekeyed!ClientStop, Rekeyed!vars, Rekeyed!Off, Rekeyed!NoKey, Down
<1> QED BY <1>2, <1>3, <1>4, <1>5, <1>6, <1>7 DEF TunnelNext, CommandStep

LEMMA RekeyingInit == TunnelInit => Rekeyed!Init
<1> SUFFICES ASSUME TunnelInit PROVE Rekeyed!Init
  OBVIOUS
<1>1. /\ wg = [p \in PublicKeys |-> NoPeer] /\ activations = [p \in PublicKeys |-> {}]
      /\ asked = 0 /\ iface = Down
  BY DEF TunnelInit, Init
<1>2. KeyOffered = [p \in PublicKeys |-> 0] /\ KeyServed = [p \in PublicKeys |-> 0]
  BY <1>1 DEF KeyOffered, KeyServed, NoPeer
<1>3. KeysSpent = {}
  BY <1>1 DEF KeysSpent
<1> QED BY <1>1, <1>2, <1>3 DEF Rekeyed!Init, Rekeyed!Off, Rekeyed!NoKey, Down

LEMMA StepRInv == ASSUME Quiet PROVE RInv /\ [TunnelNext]_tunnelVars => RInv'
<1> SUFFICES ASSUME RInv, [TunnelNext]_tunnelVars PROVE crashes' = 0
  BY StepQuiet DEF RInv
<1>1. [Next]_vars
  BY StepOfServer DEF RInv, SInv, OInv, TInv
<1>2. crashes' = crashes
  BY <1>1
  DEF Next, ServerStep, StartRequest, RefreshRequest, Ask, EkmFails, StartNoAddress, StartRefused,
      StartUnsaved, StartApplied, RefreshScheduled, ActivateRefused, ActivateUnsaved, Activate,
      TimerDue, Restart, Reboot, StartDies, ActivateDies, ApplyDies, vars, Quiet, Fault
<1> QED BY <1>2 DEF RInv

\* The server, its tasks and the client's commands together implement Rekeying
\* (start_connection, refresh_connection, activate; cli.py connect, refresh, disconnect).
THEOREM ImplementsRekeying ==
  ASSUME Quiet PROVE TunnelSpec => RekeyingSpec
<1>1. TunnelInit => RInv
  BY InitSInv, InitAgreement DEF RInv, TunnelInit, Init
<1>2. RInv /\ [TunnelNext]_tunnelVars => RInv'
  BY StepRInv
<1>3. RInv /\ [TunnelNext]_tunnelVars => [Rekeyed!Next]_(Rekeyed!vars)
  BY RekeyingStep
<1> QED BY RekeyingInit, <1>1, <1>2, <1>3, PTL DEF TunnelSpec, RekeyingSpec, Rekeyed!Spec

\* No PSK is ever at work for two peers, at either end: what Rekeying promises holds of the
\* program (apply_key; cli.py connect, refresh).
THEOREM TunnelKeysOfOne ==
  ASSUME Quiet PROVE TunnelSpec => []Rekeyed!KeyOfOne
BY ImplementsRekeying, Rekeyed!KeyOfOneAlways, PTL DEF RekeyingSpec
==============================================================================
