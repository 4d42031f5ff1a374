-------------------------------- MODULE Relay --------------------------------
(***************************************************************************)
(* The backend relay of wingpu_cli/main.py as a process: serve_relay, and  *)
(* ensure_backend_tunnel and stop_backend_tunnel, which find it by its     *)
(* pidfile and its port.  Whoever calls them is a user: under start_lock a *)
(* gateway is one, a wingpu command another.  No lock keeps them apart.    *)
(*                                                                         *)
(* What runs through the relay is in module Gateway.  The ssh master is    *)
(* left out: a connection that finds none opens one (ControlMaster=auto).  *)
(* No other program uses the port.                                         *)
(***************************************************************************)
EXTENDS Naturals, FiniteSets

CONSTANTS
    Users,     \* who ensures and stops the relay
    Relays,    \* pids, each used once
    NoRelay

ASSUME RelaysAssumption == NoRelay \notin Relays

VARIABLES
    relay,       \* relay[r]: where serve_relay of process r is
    tunnel_pid,  \* the relay's pidfile
    at,          \* at[u]: where user u is in ensure or stop
    child,       \* child[u]: the relay u has spawned
    crossed      \* history: an operation began beside another, or beside a
                 \* relay that an earlier one had left coming up or going down

tunnel == <<relay, tunnel_pid, at, child, crossed>>

Listening == {r \in Relays : relay[r] \in {"bound", "named", "serving"}}
RelaysAlive == {r \in Relays : relay[r] \notin {"unborn", "dead"}}
InTransit == {r \in Relays : relay[r] \in {"forked", "bound", "told"}}

backend_port_in_use == Listening # {}

\* Only the pidfile and the port are looked at, not who has the port.
backend_relay_running == tunnel_pid \in RelaysAlive /\ backend_port_in_use

Step(u, to) == at' = [at EXCEPT ![u] = to]

\* An operation of u begins.
Begins(u) ==
    /\ at[u] = "idle"
    /\ crossed' = (crossed \/ InTransit # {} \/ \E v \in Users \ {u} : at[v] # "idle")

-----------------------------------------------------------------------------
(* serve_relay *)

RelayGoes(r, from, to) == relay[r] = from /\ relay' = [relay EXCEPT ![r] = to]

\* bind and listen; an address in use ends the process.
RelayBind(r) ==
    /\ RelayGoes(r, "forked", IF backend_port_in_use THEN "dead" ELSE "bound")
    /\ UNCHANGED <<tunnel_pid, at, child, crossed>>

RelayWritePid(r) ==
    /\ RelayGoes(r, "bound", "named")
    /\ tunnel_pid' = r
    /\ UNCHANGED <<at, child, crossed>>

\* The ssh master is up, the signal handlers are installed.
RelayReady(r) ==
    /\ RelayGoes(r, "named", "serving")
    /\ UNCHANGED <<tunnel_pid, at, child, crossed>>

\* The accept loop has ended: the pidfile goes, whatever it names.
RelayUnlink(r) ==
    /\ RelayGoes(r, "told", "closing")
    /\ tunnel_pid' = NoRelay
    /\ UNCHANGED <<at, child, crossed>>

\* Mutant: the pidfile is removed once more as the process ends.
RelayExitUnlinks(r) ==
    /\ RelayGoes(r, "closing", "dead")
    /\ tunnel_pid' = NoRelay
    /\ UNCHANGED <<at, child, crossed>>

\* It ends the ssh master, which is left out, and itself.
RelayExit(r) ==
    /\ RelayGoes(r, "closing", "dead")
    /\ UNCHANGED <<tunnel_pid, at, child, crossed>>

\* SIGTERM closes the listener once the handler is there, and kills before.
AfterTerm(s) == CASE s \in {"forked", "bound", "named"} -> "dead"
                  [] s = "serving" -> "told"
                  [] OTHER -> s

\* The process dies, and with it what would have been cleaned up.
RelayCrash(r) ==
    /\ r \in RelaysAlive
    /\ relay' = [relay EXCEPT ![r] = "dead"]
    /\ UNCHANGED <<tunnel_pid, at, child, crossed>>

-----------------------------------------------------------------------------
(* ensure_backend_tunnel *)

EnsureLook(u) ==
    /\ Begins(u)
    /\ IF backend_relay_running THEN UNCHANGED at ELSE Step(u, "clear")
    /\ UNCHANGED <<relay, tunnel_pid, child>>

EnsureClear(u) ==
    /\ at[u] = "clear" /\ Step(u, "port")
    /\ tunnel_pid' = NoRelay
    /\ UNCHANGED <<relay, child, crossed>>

\* "already in use by another process" is raised if somebody listens.
EnsurePort(u) ==
    /\ at[u] = "port"
    /\ Step(u, IF backend_port_in_use THEN "idle" ELSE "spawn")
    /\ UNCHANGED <<relay, tunnel_pid, child, crossed>>

EnsureSpawn(u) ==
    /\ at[u] = "spawn" /\ Step(u, "write")
    /\ \E r \in Relays : RelayGoes(r, "unborn", "forked") /\ child' = [child EXCEPT ![u] = r]
    /\ UNCHANGED <<tunnel_pid, crossed>>

EnsureWrite(u) ==
    /\ at[u] = "write" /\ Step(u, "wait")
    /\ tunnel_pid' = child[u]
    /\ UNCHANGED <<relay, child, crossed>>

\* Somebody listens; or the child has died, or 10 s are over, and it raises.
EnsureWait(u) ==
    /\ at[u] = "wait" /\ Step(u, "idle")
    /\ child' = [child EXCEPT ![u] = NoRelay]
    /\ UNCHANGED <<relay, tunnel_pid, crossed>>

-----------------------------------------------------------------------------
(* stop_backend_tunnel *)

\* Mutant: a relay that does not serve yet is not told.
StopSignalServing(u) ==
    /\ Begins(u) /\ Step(u, IF tunnel_pid = NoRelay THEN "idle" ELSE "unlink")
    /\ relay' = [r \in Relays |-> IF r = tunnel_pid /\ relay[r] = "serving" THEN "told" ELSE relay[r]]
    /\ UNCHANGED <<tunnel_pid, child>>

\* The process that the pidfile names gets a SIGTERM; without a pidfile that is all.
StopSignal(u) ==
    /\ Begins(u) /\ Step(u, IF tunnel_pid = NoRelay THEN "idle" ELSE "unlink")
    /\ relay' = [r \in Relays |-> IF r = tunnel_pid THEN AfterTerm(relay[r]) ELSE relay[r]]
    /\ UNCHANGED <<tunnel_pid, child>>

\* The pidfile goes; the relay is not waited for.
StopUnlink(u) ==
    /\ at[u] = "unlink" /\ Step(u, "idle")
    /\ tunnel_pid' = NoRelay
    /\ UNCHANGED <<relay, child, crossed>>

-----------------------------------------------------------------------------

RelayInit ==
    /\ relay = [r \in Relays |-> "unborn"]
    /\ tunnel_pid = NoRelay
    /\ at = [u \in Users |-> "idle"]
    /\ child = [u \in Users |-> NoRelay]
    /\ crossed = FALSE

ServeRelay(r) == RelayBind(r) \/ RelayWritePid(r) \/ RelayReady(r) \/ RelayUnlink(r) \/ RelayExit(r)

\* What a user goes on with once it has begun.
Ensuring(u) == EnsureClear(u) \/ EnsurePort(u) \/ EnsureSpawn(u) \/ EnsureWrite(u) \/ EnsureWait(u)

-----------------------------------------------------------------------------
(* Properties *)

\* Every variable has its type.
RelayTypeOK ==
    /\ relay \in [Relays -> {"unborn", "forked", "bound", "named", "serving", "told", "closing", "dead"}]
    /\ tunnel_pid \in Relays \cup {NoRelay}
    /\ at \in [Users -> {"idle", "clear", "port", "spawn", "write", "wait", "unlink"}]
    /\ child \in [Users -> Relays \cup {NoRelay}]
    /\ crossed \in BOOLEAN

\* A relay that listens while nobody is at work on it is the one its pidfile
\* names, so that it can be found and stopped: otherwise every later
\* ensure_backend_tunnel raises that another process has the port.  It needs
\* that no operation began in the middle of another or of what it left behind.
RelayNamed ==
    ~crossed /\ (\A u \in Users : at[u] = "idle") /\ InTransit = {} => Listening \subseteq {tunnel_pid}
=============================================================================
