------------------------------ MODULE VpnTunnel ------------------------------
(***************************************************************************)
(* One client machine (qkd_ekm/client/cli.py: connect, refresh,            *)
(* disconnect) at work with the VPN server of Vpn and with the QKD2 key    *)
(* store, which gives out each key once (qkdsim dec_keys).                 *)
(*                                                                         *)
(* The CLI runs one command at a time; `cli` is the command in progress.   *)
(* A command ends with exit code 0 or, at the first error, with 1 and      *)
(* whatever it had done by then.                                           *)
(***************************************************************************)
EXTENDS Vpn

VARIABLES
  cli,       \* the command in progress: [pc, op, pub, no]
  iface,     \* interface wgqkd: the key pair it runs with and its PSK
  session,   \* session.json: public_key and preshared_key_id
  fetched,   \* keys the QKD2 store has given out
  made,      \* public keys `wg genkey` has made
  ok         \* history: the last connect or refresh that was sent ended with exit code 0

clientVars == <<cli, iface, session, fetched, made, ok>>
tunnelVars == <<vars, clientVars>>

NoCommand == [pc |-> "idle", op |-> "none", pub |-> "none", no |-> 0]
Down == [pub |-> "none", psk |-> 0]
NoSession == [pub |-> "none", key |-> 0]   \* no file
Torn == [pub |-> "torn", key |-> 0]        \* a file that does not parse
Readable == session \notin {NoSession, Torn}

TunnelInit ==
  /\ Init
  /\ cli = NoCommand /\ iface = Down /\ session = NoSession
  /\ fetched = {} /\ made = {} /\ ok = FALSE

------------------------------------------------------------------------------
(* Commands up to the answer of the server.                                 *)

\* `connect`: a fresh key pair, then POST /api/start_connection.
Connect(p) ==
  /\ cli.pc = "idle" /\ p \notin made
  /\ StartRequest(p)
  /\ made' = made \cup {p}
  /\ cli' = [pc |-> "wait", op |-> "connect", pub |-> p, no |-> asked']
  /\ UNCHANGED <<iface, session, fetched, ok>>

\* `refresh`: needs a session; POST /api/refresh_connection for its key.  (A peer the
\* server does not know would be a 404: RefreshPossible.)
Refresh ==
  /\ cli.pc = "idle" /\ Readable
  /\ RefreshRequest(session.pub)
  /\ cli' = [pc |-> "wait", op |-> "refresh", pub |-> session.pub, no |-> asked']
  /\ UNCHANGED <<iface, session, fetched, made, ok>>

\* No identity token, or the server is not reached: `connect` has made its key pair by then.
\* (`refresh` has changed nothing, nor has one that cannot read the session.)
NotSent ==
  /\ Fault("lost") /\ cli.pc = "idle"
  /\ \E p \in PublicKeys \ made : made' = made \cup {p}
  /\ UNCHANGED <<vars, cli, iface, session, fetched, ok>>

Waiting == \E c \in calls : c.no = cli.no
Answered == \E r \in replies : r.no = cli.no

GetAnswer ==
  /\ cli.pc = "wait" /\ Answered
  /\ cli' = [cli EXCEPT !.pc = "fetch"]
  /\ UNCHANGED <<vars, iface, session, fetched, made, ok>>

Exit1 == cli' = NoCommand /\ ok' = FALSE

\* An error answer, a connection the server's death cut, or an answer that is lost.
NoAnswer ==
  /\ cli.pc = "wait" /\ ~Waiting
  /\ Answered => Fault("lost")
  /\ Exit1
  /\ UNCHANGED <<vars, iface, session, fetched, made>>

\* The command is interrupted, or times out, while the server still works on it.
GiveUp ==
  /\ Fault("giveup")
  /\ cli.pc = "wait" /\ Waiting
  /\ Exit1
  /\ UNCHANGED <<vars, iface, session, fetched, made>>

------------------------------------------------------------------------------
(* ... and after it.                                                        *)

\* KeyStore.consume, behind dec_keys: a key is given out once.
Consume(k) == k \notin fetched /\ fetched' = fetched \cup {k}

\* _fetch_key: dec_keys for the announced id, from QKD2.
FetchKey ==
  /\ cli.pc = "fetch"
  /\ Consume(cli.no)
  /\ cli' = [cli EXCEPT !.pc = "install"]
  /\ UNCHANGED <<vars, iface, session, made, ok>>

\* QKD2 refuses or does not answer, or its answer is lost: the key is gone then.
FetchFails ==
  /\ cli.pc = "fetch" /\ (Fault("qkd") \/ cli.no \in fetched)
  /\ fetched' \in {fetched, fetched \cup {cli.no}}
  /\ Exit1
  /\ UNCHANGED <<vars, iface, session, made>>

\* Mutant of WgUp: `wg-quick up` leaves an interface that exists as it is, without an error.
WgUpTolerant(p, k) == iface' = IF iface = Down THEN [pub |-> p, psk |-> k] ELSE iface

\* write_conf, then `wg-quick up`, which refuses an interface that exists.
WgUp(p, k) == iface = Down /\ iface' = [pub |-> p, psk |-> k]

\* `wg set wgqkd peer <server> preshared-key`: the interface must be there.
WgSetPsk(k) == iface # Down /\ iface' = [iface EXCEPT !.psk = k]

BringUp ==
  /\ cli.pc = "install" /\ cli.op = "connect"
  /\ WgUp(cli.pub, cli.no)
  /\ cli' = [cli EXCEPT !.pc = "save"]
  /\ UNCHANGED <<vars, session, fetched, made, ok>>

\* At effective_time.
SetPsk ==
  /\ cli.pc = "install" /\ cli.op = "refresh"
  /\ WgSetPsk(cli.no)
  /\ cli' = [cli EXCEPT !.pc = "save"]
  /\ UNCHANGED <<vars, session, fetched, made, ok>>

\* The command fails, because of the state of the interface or otherwise.
InstallFails ==
  /\ cli.pc = "install"
  /\ Fault("wgclient") \/ (cli.op = "connect" <=> iface # Down)
  /\ Exit1
  /\ UNCHANGED <<vars, iface, session, fetched, made>>

\* Mutant of OpenSession: a refresh ends without writing the new key's id.
OpenSessionConnectOnly ==
  /\ cli.pc = "save"
  /\ IF cli.op = "connect"
     THEN session' = Torn /\ cli' = [cli EXCEPT !.pc = "write"] /\ ok' = ok
     ELSE session' = session /\ cli' = NoCommand /\ ok' = TRUE
  /\ UNCHANGED <<vars, iface, fetched, made>>

\* _save_session opens the file with O_TRUNC, which empties it, ...
OpenSession ==
  /\ cli.pc = "save"
  /\ session' = Torn /\ cli' = [cli EXCEPT !.pc = "write"]
  /\ UNCHANGED <<vars, iface, fetched, made, ok>>

\* ... and then writes it.
WriteSession ==
  /\ cli.pc = "write"
  /\ session' = [pub |-> cli.pub, key |-> cli.no]
  /\ cli' = NoCommand /\ ok' = TRUE
  /\ UNCHANGED <<vars, iface, fetched, made>>

\* The process dies between two steps.
Kill ==
  /\ Fault("kill") /\ cli.pc \in {"fetch", "install", "save", "write", "unlink"}
  /\ cli' = NoCommand /\ ok' = (ok /\ cli.op = "disconnect")
  /\ UNCHANGED <<vars, iface, session, fetched, made>>

\* `disconnect`: `wg-quick down`, whose failure is only logged, ...
Disconnect ==
  /\ cli.pc = "idle"
  /\ iface' = Down \/ (Fault("wgclient") /\ UNCHANGED iface)
  /\ cli' = [pc |-> "unlink", op |-> "disconnect", pub |-> "none", no |-> 0]
  /\ UNCHANGED <<vars, session, fetched, made, ok>>

\* ... and then the files go.
Unlink ==
  /\ cli.pc = "unlink"
  /\ session' = NoSession /\ cli' = NoCommand
  /\ UNCHANGED <<vars, iface, fetched, made, ok>>

\* The machine restarts, at any moment: the interface is gone, the files stay.
ClientReboot ==
  /\ Fault("clientreboot")
  /\ iface' = Down /\ cli' = NoCommand /\ ok' = FALSE
  /\ UNCHANGED <<vars, session, fetched, made>>

------------------------------------------------------------------------------
CommandStep ==
  \/ GetAnswer \/ NoAnswer \/ GiveUp \/ FetchKey \/ FetchFails \/ BringUp \/ SetPsk
  \/ InstallFails \/ OpenSession \/ WriteSession \/ Unlink \/ Kill

TunnelNext ==
  \/ (\E p \in PublicKeys : Connect(p)) \/ Refresh \/ NotSent \/ Disconnect
  \/ ClientReboot
  \/ CommandStep
  \/ ServerStep /\ UNCHANGED clientVars

TunnelSpec == TunnelInit /\ [][TunnelNext]_tunnelVars

\* asyncio runs every activation and every timer that is not cancelled.
FairTunnelSpec ==
  /\ TunnelSpec
  /\ \A p \in PublicKeys : WF_tunnelVars(TimerDue(p) /\ UNCHANGED clientVars)
  /\ WF_tunnelVars(\E p \in PublicKeys, k \in Keys : Activate(p, k) /\ UNCHANGED clientVars)

------------------------------------------------------------------------------
(* Properties.                                                              *)

Connected == cli.pc = "idle" /\ Readable /\ iface # Down

\* Nothing about p is under way in the server.
Settled(p) == activations[p] = {} /\ \A c \in calls : c.pub # p

\* Both ends of the tunnel hold the same PSK once the last command succeeded and
\* nothing is under way: no answer, key or process lost earlier leaves them apart for
\* good (refresh_connection's activation, cli.py refresh).
TunnelAgrees ==
  Connected /\ ok /\ Settled(iface.pub) => wg[iface.pub].psk = iface.psk

\* After a command that succeeded the session file can be read and names the PSK of the
\* running interface, whichever commands were killed, machines restarted or answers lost
\* before (cli.py connect, refresh, _save_session, disconnect).
SessionNamesPsk ==
  cli.pc = "idle" /\ ok => session # Torn /\ (Connected => session.key = iface.psk)

\* On a machine that kills no command, the session file is of the key pair the interface
\* runs with, after commands that failed too: a refresh rekeys its own tunnel.  (With kills
\* it is not: README.)
SessionMatchesInterface == Connected => session.pub = iface.pub

\* The server knows the peer of every session, whatever was lost or restarted since
\* the connect: a refresh is never answered 404 (refresh_connection, PeerFile).
RefreshPossible == Readable => peers[session.pub] # NoRecord

\* A completed refresh takes effect: after it the two ends agree in the end, unless
\* the client starts another command.
RekeyCompletes ==
  Connected /\ ok ~> (~Connected \/ ~ok \/ wg[iface.pub].psk = iface.psk)

\* The key the server is on with p, or is about to switch to.
Only(S) == CHOOSE k \in S : TRUE
KeyOffered ==
  [p \in PublicKeys |-> IF activations[p] = {} THEN wg[p].psk ELSE Only(activations[p])]
KeyServed == [p \in PublicKeys |-> wg[p].psk]
KeysSpent == {k \in 1..asked : \A c \in calls : c.no # k}

\* Server and client implement Rekeying: the client never comes up or goes on with a key
\* the server has not committed to, or has since given up, for its peer; and no key is
\* announced twice (start_connection, refresh_connection; cli.py connect, refresh).
Rekeyed ==
  INSTANCE Rekeying WITH Peers <- PublicKeys, offered <- KeyOffered, server <- KeyServed,
                         client <- iface, spent <- KeysSpent
RekeyingSpec == Rekeyed!Spec
==============================================================================
