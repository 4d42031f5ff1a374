--------------------------- MODULE GatewayProcess ---------------------------
(***************************************************************************)
(* The gateway of wingpu_cli/main.py as a process, and the wingpu commands *)
(* that start and stop it: ensure_gateway_started under cli_lock,          *)
(* stop_gateway without a lock, serve_gateway with its pidfile, and the    *)
(* stale gateway that retires itself.  Gateways and commands are the users *)
(* of the relay (module Relay).                                            *)
(*                                                                         *)
(* Deadlines are not counted: where the code gives up after a while, the   *)
(* model may give up at once.  No other program uses the ports.            *)
(***************************************************************************)
EXTENDS Relay

CONSTANTS
    Gateways,   \* pids, each used once
    NoGateway,
    Clis,       \* terminals, each running one command after another
    NoCli,
    Ports,      \* values of connection.local_port (LOCAL_PORT, wingpu.toml)
    MaxCommands,\* bound: how many commands are run
    MaxCrashes  \* bound: how many processes are killed from outside

ASSUME ProcessesAssumption ==
    /\ Users = Gateways \cup Clis /\ Gateways \cap Clis = {}
    /\ NoGateway \notin Gateways /\ NoCli \notin Clis /\ Ports # {}
    /\ MaxCommands \in Nat /\ MaxCrashes \in Nat

VARIABLES
    gw,          \* gw[g]: where serve_gateway of process g is
    gw_port,     \* gw_port[g]: the port it was given
    gateway_pid, \* the gateway's pidfile
    cli,         \* cli[c]: where the command at c is, its port, the pid it watches
    cli_lock,    \* who has locked wingpu.lock
    commands, crashes,
    hasty,       \* history: a start began while the gateway of an earlier one,
                 \* which has given up or was killed, was still coming up
    stopped,     \* history: gateways that have met a stop
    clean        \* history: clean[c]: no other command and no gateway on its
                 \* way was there beside c's stop, and it waited in vain for nothing

process == <<gw, gw_port, gateway_pid>>
ghost   == <<hasty, stopped, clean>>
vars    == <<tunnel, process, cli, cli_lock, commands, crashes, ghost>>

GatewaysAlive == {g \in Gateways : gw[g] \notin {"unborn", "dead"}}
ComingUp      == {g \in Gateways : gw[g] \in {"forked", "named"}}

\* Mutant: the socket is closed before the pidfile is removed.
BoundWhileServing(p) == {g \in Gateways : gw_port[g] = p /\ gw[g] = "serving"}

\* A port is free again only when its process is gone: nobody closes the socket.
Bound(p)     == {g \in Gateways : gw_port[g] = p /\ gw[g] \in {"serving", "leaving", "unlinked"}}
\* gateway_status: the gateway that answers at p.
Answering(p) == {g \in Gateways : gw_port[g] = p /\ gw[g] = "serving"}

local_port_in_use(p) == Bound(p) # {}
gateway_up(p) == Answering(p) # {}

\* A relay user that dies leaves what it was at undone.
DropUser(u) == at' = [at EXCEPT ![u] = "idle"] /\ child' = [child EXCEPT ![u] = NoRelay]

-----------------------------------------------------------------------------
(* serve_gateway *)

GatewayGoes(g, from, to) == gw[g] = from /\ gw' = [gw EXCEPT ![g] = to]

\* It writes its pid before it binds.
GatewayWritePid(g) ==
    /\ GatewayGoes(g, "forked", "named")
    /\ gateway_pid' = g
    /\ UNCHANGED <<tunnel, gw_port, cli, cli_lock, commands, crashes, ghost>>

\* A port in use ends it, and the pidfile goes on naming it.
GatewayBind(g) ==
    /\ GatewayGoes(g, "named", IF local_port_in_use(gw_port[g]) THEN "dead" ELSE "serving")
    /\ UNCHANGED <<tunnel, gw_port, gateway_pid, cli, cli_lock, commands, crashes, ghost>>

\* maybe_idle_offload: a gateway that the pidfile does not name is stale.
Retire(g) ==
    /\ gateway_pid # g
    /\ GatewayGoes(g, "serving", "leaving")
    /\ UNCHANGED <<tunnel, gw_port, gateway_pid, cli, cli_lock, commands, crashes, ghost>>

\* serve_forever has returned: the pidfile goes, whatever it names.
GatewayUnlink(g) ==
    /\ GatewayGoes(g, "leaving", "unlinked")
    /\ gateway_pid' = NoGateway
    /\ UNCHANGED <<tunnel, gw_port, cli, cli_lock, commands, crashes, ghost>>

\* The process ends and its threads with it, wherever they are.
GatewayExit(g) ==
    /\ GatewayGoes(g, "unlinked", "dead")
    /\ DropUser(g)
    /\ UNCHANGED <<relay, tunnel_pid, crossed, gw_port, gateway_pid, cli, cli_lock,
                   commands, crashes, ghost>>

\* Its requests, offloads and loads ensure and stop the relay under start_lock.
GatewayUse(g) ==
    /\ gw[g] \in {"serving", "leaving", "unlinked"}
    /\ EnsureLook(g) \/ StopSignal(g) \/ Ensuring(g) \/ StopUnlink(g)
    /\ UNCHANGED <<process, cli, cli_lock, commands, crashes, ghost>>

\* Mutant: a handler like the relay's, that ends the wrong loop.
AfterSigtermAsRelay(s) == AfterTerm(s)

\* What a SIGTERM does to a gateway: before its handler is there, it kills.
AfterSigterm(s) == CASE s \in {"forked", "named"} -> "dead"
                     [] s = "serving" -> "leaving"
                     [] OTHER -> s

Kill(g) ==
    /\ gw[g] \in {"forked", "named", "serving", "leaving", "unlinked"}
    /\ crashes < MaxCrashes /\ crashes' = crashes + 1
    /\ gw' = [gw EXCEPT ![g] = "dead"]
    /\ DropUser(g)
    /\ UNCHANGED <<relay, tunnel_pid, crossed, gw_port, gateway_pid, cli, cli_lock, commands, ghost>>

-----------------------------------------------------------------------------
(* Commands *)

Resting == [pc |-> "idle", port |-> CHOOSE p \in Ports : TRUE, pid |-> NoGateway]

CliGoes(c, from, to) == cli[c].pc = from /\ cli' = [cli EXCEPT ![c].pc = to]

\* The command at c is over; it had the lock if it was a start.
End(c) == cli' = [cli EXCEPT ![c] = Resting] /\ cli_lock' = IF cli_lock = c THEN NoCli ELSE cli_lock

\* A stop that is under way meets a start.
Disturbed == clean' = [d \in Clis |-> FALSE]

\* Mutant: the commands do not exclude each other.
StartLockOpen(c) ==
    /\ cli[c].pc = "idle" /\ commands < MaxCommands /\ commands' = commands + 1
    /\ cli_lock' = c
    /\ \E p \in Ports : cli' = [cli EXCEPT ![c] = [pc |-> "status", port |-> p, pid |-> NoGateway]]
    /\ hasty' = (hasty \/ (ComingUp # {} /\ \A d \in Clis : cli[d].pc # "poll"))
    /\ Disturbed
    /\ UNCHANGED <<tunnel, process, crashes, stopped>>

\* wingpu start, or gateway start: cli_lock fails at once if it is taken.
StartLock(c) ==
    /\ cli[c].pc = "idle" /\ commands < MaxCommands /\ commands' = commands + 1
    /\ cli_lock = NoCli /\ cli_lock' = c
    /\ \E p \in Ports : cli' = [cli EXCEPT ![c] = [pc |-> "status", port |-> p, pid |-> NoGateway]]
    /\ hasty' = (hasty \/ ComingUp # {})
    /\ Disturbed
    /\ UNCHANGED <<tunnel, process, crashes, stopped>>

\* A gateway that is up is left alone, and the command goes on to load.
StartLoaded(c) == /\ cli' = [cli EXCEPT ![c].pc = "load", ![c].pid = NoGateway]
                  /\ cli_lock' = NoCli

StartStatus(c) ==
    /\ cli[c].pc = "status"
    /\ IF gateway_up(cli[c].port) THEN StartLoaded(c) ELSE CliGoes(c, "status", "port") /\ UNCHANGED cli_lock
    /\ UNCHANGED <<tunnel, process, commands, crashes, ghost>>

\* "already in use by another process" is raised if the port is taken.
StartPort(c) ==
    /\ cli[c].pc = "port"
    /\ IF local_port_in_use(cli[c].port) THEN End(c) ELSE CliGoes(c, "port", "spawn") /\ UNCHANGED cli_lock
    /\ UNCHANGED <<tunnel, process, commands, crashes, ghost>>

\* The child is spawned and its pid written, before it can do so itself.
StartSpawn(c) ==
    /\ cli[c].pc = "spawn"
    /\ \E g \in Gateways :
          /\ GatewayGoes(g, "unborn", "forked")
          /\ gw_port' = [gw_port EXCEPT ![g] = cli[c].port]
          /\ gateway_pid' = g
          /\ cli' = [cli EXCEPT ![c].pc = "poll", ![c].pid = g]
    /\ UNCHANGED <<tunnel, cli_lock, commands, crashes, ghost>>

StartUp(c) ==
    /\ cli[c].pc = "poll" /\ gateway_up(cli[c].port)
    /\ StartLoaded(c)
    /\ UNCHANGED <<tunnel, process, commands, crashes, ghost>>

\* 15 s are over, and it raises; the child is left to itself.
StartLate(c) ==
    /\ cli[c].pc = "poll" /\ ~gateway_up(cli[c].port)
    /\ End(c)
    /\ UNCHANGED <<tunnel, process, commands, crashes, ghost>>

\* ensure_runtime_loaded, in the command's own process: it stops the relay and
\* ensures it, beside the gateway's threads.
StartLoad(c) ==
    /\ cli[c].pc = "load" /\ UNCHANGED <<cli, cli_lock>>
    /\ EnsureLook(c) \/ StopSignal(c) \/ Ensuring(c) \/ StopUnlink(c)
    /\ UNCHANGED <<process, commands, crashes, ghost>>

StartEnd(c) ==
    /\ cli[c].pc = "load" /\ at[c] = "idle" /\ End(c)
    /\ UNCHANGED <<tunnel, process, commands, crashes, ghost>>

\* wingpu stop: stop_gateway.  It takes no lock.
StopStatus(c) ==
    /\ cli[c].pc = "idle" /\ commands < MaxCommands /\ commands' = commands + 1
    /\ \E p \in Ports :
          cli' = [cli EXCEPT ![c] = [pc |-> IF gateway_up(p) THEN "post" ELSE "pid", port |-> p, pid |-> NoGateway]]
    /\ clean' = [d \in Clis |-> /\ d = c /\ \A e \in Clis \ {c} : cli[e].pc = "idle"
                                /\ ComingUp \subseteq {gateway_pid}
                                /\ \A g \in GatewaysAlive : gw[g] \notin {"leaving", "unlinked"}]
    /\ stopped' = stopped \cup GatewaysAlive
    /\ UNCHANGED <<tunnel, process, cli_lock, crashes, hasty>>

\* POST /shutdown to whoever answers now; a failure is ignored.
StopPost(c) ==
    /\ CliGoes(c, "post", "freed")
    /\ gw' = [g \in Gateways |-> IF g \in Answering(cli[c].port) THEN "leaving" ELSE gw[g]]
    /\ stopped' = stopped \cup GatewaysAlive
    /\ UNCHANGED <<tunnel, gw_port, gateway_pid, cli_lock, commands, crashes, hasty, clean>>

\* It waits for the port, but not for longer than 10 s.
StopFreed(c) ==
    /\ CliGoes(c, "freed", "pid")
    /\ clean' = [clean EXCEPT ![c] = @ /\ ~local_port_in_use(cli[c].port)]
    /\ UNCHANGED <<tunnel, process, cli_lock, commands, crashes, hasty, stopped>>

\* The pidfile's process gets a SIGTERM.
StopSigterm(c) ==
    /\ cli[c].pc = "pid"
    /\ cli' = [cli EXCEPT ![c].pc = IF gateway_pid = NoGateway THEN "tunnel" ELSE "gone", ![c].pid = gateway_pid]
    /\ gw' = [g \in Gateways |-> IF g = gateway_pid THEN AfterSigterm(gw[g]) ELSE gw[g]]
    /\ stopped' = stopped \cup GatewaysAlive
    /\ UNCHANGED <<tunnel, gw_port, gateway_pid, cli_lock, commands, crashes, hasty, clean>>

\* It waits for that process, but not for longer than 5 s; then the pidfile
\* goes, whatever it names by then.
StopUnlinkGateway(c) ==
    /\ CliGoes(c, "gone", "tunnel")
    /\ gateway_pid' = NoGateway
    /\ clean' = [clean EXCEPT ![c] = @ /\ cli[c].pid \notin GatewaysAlive]
    /\ stopped' = stopped \cup GatewaysAlive
    /\ UNCHANGED <<tunnel, gw, gw_port, cli_lock, commands, crashes, hasty>>

\* stop_backend_tunnel.
StopTunnel(c) ==
    /\ \/ cli[c].pc = "tunnel" /\ StopSignal(c) /\ CliGoes(c, "tunnel", "stopping")
       \/ cli[c].pc = "stopping" /\ StopUnlink(c) /\ UNCHANGED cli
    /\ UNCHANGED <<process, cli_lock, commands, crashes, ghost>>

StopEnd(c) ==
    /\ at[c] = "idle" /\ CliGoes(c, "stopping", "done")
    /\ UNCHANGED <<tunnel, process, cli_lock, commands, crashes, ghost>>

StopRest(c) ==
    /\ cli[c].pc = "done" /\ End(c)
    /\ UNCHANGED <<tunnel, process, commands, crashes, ghost>>

\* The user interrupts the command; the lock goes with the process.
Interrupt(c) ==
    /\ cli[c].pc # "idle" /\ crashes < MaxCrashes /\ crashes' = crashes + 1
    /\ End(c) /\ DropUser(c)
    /\ UNCHANGED <<relay, tunnel_pid, crossed, process, commands, ghost>>

KillRelay(r) ==
    /\ crashes < MaxCrashes /\ crashes' = crashes + 1
    /\ RelayCrash(r)
    /\ UNCHANGED <<process, cli, cli_lock, commands, ghost>>

-----------------------------------------------------------------------------
(* The specification *)

Init ==
    /\ RelayInit
    /\ gw = [g \in Gateways |-> "unborn"]
    /\ gw_port = [g \in Gateways |-> CHOOSE p \in Ports : TRUE]
    /\ gateway_pid = NoGateway
    /\ cli = [c \in Clis |-> Resting]
    /\ cli_lock = NoCli
    /\ commands = 0 /\ crashes = 0
    /\ hasty = FALSE /\ stopped = {} /\ clean = [c \in Clis |-> FALSE]

ServeGateway(g) == GatewayWritePid(g) \/ GatewayBind(g) \/ GatewayUnlink(g) \/ GatewayExit(g)

Start(c) == \/ StartLock(c) \/ StartStatus(c) \/ StartPort(c) \/ StartSpawn(c)
            \/ StartUp(c) \/ StartLate(c) \/ StartLoad(c) \/ StartEnd(c)

Stop(c) == \/ StopStatus(c) \/ StopPost(c) \/ StopFreed(c) \/ StopSigterm(c)
           \/ StopUnlinkGateway(c) \/ StopTunnel(c) \/ StopEnd(c) \/ StopRest(c)

Next ==
    \/ \E g \in Gateways : ServeGateway(g) \/ Retire(g) \/ GatewayUse(g) \/ Kill(g)
    \/ \E c \in Clis : Start(c) \/ Stop(c) \/ Interrupt(c)
    \/ \E r \in Relays : ServeRelay(r) /\ UNCHANGED <<process, cli, cli_lock, commands, crashes, ghost>>
    \/ \E r \in Relays : KillRelay(r)

Spec == Init /\ [][Next]_vars

-----------------------------------------------------------------------------
(* Properties *)

\* Every variable has its type.
TypeOK ==
    /\ RelayTypeOK
    /\ gw \in [Gateways -> {"unborn", "forked", "named", "serving", "leaving", "unlinked", "dead"}]
    /\ gw_port \in [Gateways -> Ports]
    /\ gateway_pid \in Gateways \cup {NoGateway}
    /\ cli \in [Clis -> [pc : {"idle", "status", "port", "spawn", "poll", "load", "post", "freed",
                               "pid", "gone", "tunnel", "stopping", "done"},
                         port : Ports, pid : Gateways \cup {NoGateway}]]
    /\ cli_lock \in Clis \cup {NoCli}
    /\ commands \in 0..MaxCommands /\ crashes \in 0..MaxCrashes
    /\ hasty \in BOOLEAN /\ stopped \subseteq Gateways /\ clean \in [Clis -> BOOLEAN]

\* Commands that meet, in whatever order, do not leave two gateways at one port,
\* one serving and one to overwrite its pidfile; unless a start was repeated
\* while the gateway of one that gave up was still on its way.
OneGateway ==
    ~hasty => \A g, h \in GatewaysAlive : gw_port[g] = gw_port[h] => g = h

\* A gateway retires only for the reasons maybe_idle_offload gives: a newer
\* gateway, which is alive, owns the pidfile, or a stop removed it.
RetiresOnlyStale ==
    [][ \A g \in Gateways : Retire(g) /\ ~hasty =>
            gateway_pid \in GatewaysAlive \/ g \in stopped ]_vars

\* When wingpu stop is through, and nothing was started beside it, no gateway is
\* left, nor a relay that somebody could still reach.
StopStops ==
    \A c \in Clis : cli[c].pc = "done" /\ clean[c] /\ ~hasty =>
        /\ \A g \in Gateways : gw_port[g] = cli[c].port => g \notin GatewaysAlive
        /\ ~crossed => Listening = {}
=============================================================================
