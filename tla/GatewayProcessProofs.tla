------------------------- MODULE GatewayProcessProofs -------------------------
(***************************************************************************)
(* Proofs about the processes of the gateway, the commands and the relay,  *)
(* for any number of them, any ports and bounds: their types, that         *)
(* commands that meet do not leave two gateways at one port, and, with one *)
(* port, that a stop stops and only a stale gateway retires.               *)
(***************************************************************************)
EXTENDS GatewayProcess, RelayProofs, TLAPS

-----------------------------------------------------------------------------
(* Types *)

\* A user that dies is at nothing.
LEMMA DropType ==
    ASSUME RelayTypeOK, NEW u \in Users, DropUser(u), UNCHANGED <<relay, tunnel_pid, crossed>>
    PROVE  RelayTypeOK'
BY DEF RelayTypeOK, DropUser

GatewayType ==
    /\ gw \in [Gateways -> {"unborn", "forked", "named", "serving", "leaving", "unlinked", "dead"}]
    /\ gw_port \in [Gateways -> Ports]
    /\ gateway_pid \in Gateways \cup {NoGateway}

CliType ==
    /\ cli \in [Clis -> [pc : {"idle", "status", "port", "spawn", "poll", "load", "post", "freed",
                               "pid", "gone", "tunnel", "stopping", "done"},
                         port : Ports, pid : Gateways \cup {NoGateway}]]
    /\ cli_lock \in Clis \cup {NoCli}

\* The resting command is one.
LEMMA RestingType ==
    Resting \in [pc : {"idle"}, port : Ports, pid : Gateways \cup {NoGateway}]
BY ProcessesAssumption DEF Resting

\* A command that ends leaves the terminal and the lock as they should be.
LEMMA EndType == ASSUME CliType, NEW c \in Clis, End(c) PROVE CliType'
BY RestingType DEF CliType, End

\* A command that goes on watches a gateway, or none.
LEMMA WatchType ==
    ASSUME CliType, NEW c \in Clis, NEW to \in {"poll", "load", "tunnel", "gone"},
           NEW g \in Gateways \cup {NoGateway},
           cli' = [cli EXCEPT ![c].pc = to, ![c].pid = g], cli_lock' \in Clis \cup {NoCli}
    PROVE  CliType'
BY DEF CliType

GatewaySteps(g) == ServeGateway(g) \/ Retire(g) \/ GatewayUse(g) \/ Kill(g)

\* A gateway's own steps.
LEMMA GatewayTypeStep ==
    ASSUME TypeOK, NEW g \in Gateways, GatewaySteps(g) PROVE TypeOK'
<1>. g \in Users
  BY ProcessesAssumption
<1>. USE DEF TypeOK
<1>1. ASSUME GatewayWritePid(g) \/ GatewayBind(g) \/ GatewayUnlink(g) \/ Retire(g) PROVE TypeOK'
  <2>1. RelayTypeOK'
    BY <1>1 DEF RelayTypeOK, GatewayWritePid, GatewayBind, GatewayUnlink, Retire, tunnel
  <2>. QED BY <1>1, <2>1 DEF GatewayWritePid, GatewayBind, GatewayUnlink, Retire, GatewayGoes, ghost
<1>2. CASE GatewayExit(g)
  <2>1. RelayTypeOK'
    BY <1>2, DropType DEF GatewayExit
  <2>. QED BY <1>2, <2>1 DEF GatewayExit, GatewayGoes, ghost
<1>3. CASE GatewayUse(g)
  <2>1. RelayTypeOK'
    BY <1>3, UserType DEF GatewayUse
  <2>. QED BY <1>3, <2>1 DEF GatewayUse, process, ghost
<1>4. CASE Kill(g)
  <2>1. RelayTypeOK'
    BY <1>4, DropType DEF Kill
  <2>2. crashes' \in 0..MaxCrashes
    BY <1>4, ProcessesAssumption DEF Kill
  <2>. QED BY <1>4, <2>1, <2>2 DEF Kill, ghost
<1>. QED BY <1>1, <1>2, <1>3, <1>4 DEF GatewaySteps, ServeGateway

\* The steps of a start.
LEMMA StartType ==
    ASSUME TypeOK, NEW c \in Clis, Start(c) PROVE TypeOK'
<1>. c \in Users
  BY ProcessesAssumption
<1>0. CliType /\ RelayTypeOK
  BY DEF TypeOK, CliType
<1>1. CASE StartLock(c)
  <2>1. commands' \in 0..MaxCommands
    BY <1>1, ProcessesAssumption DEF TypeOK, StartLock
  <2>2. CliType'
    BY <1>0, <1>1 DEF CliType, StartLock
  <2>3. hasty' \in BOOLEAN /\ clean' \in [Clis -> BOOLEAN]
    BY <1>1 DEF TypeOK, StartLock, Disturbed
  <2>4. RelayTypeOK'
    BY <1>0, <1>1 DEF StartLock, RelayTypeOK, tunnel
  <2>. QED BY <1>1, <2>1, <2>2, <2>3, <2>4 DEF TypeOK, CliType, StartLock, process
<1>2. ASSUME StartStatus(c) \/ StartPort(c) \/ StartUp(c) \/ StartLate(c) \/ StartEnd(c) PROVE TypeOK'
  <2>1. CliType'
    <3>1. CASE End(c)
      BY <1>0, <3>1, EndType
    <3>2. CASE StartLoaded(c)
      BY <1>0, <3>2 DEF CliType, StartLoaded
    <3>3. CASE UNCHANGED cli_lock /\ (CliGoes(c, "status", "port") \/ CliGoes(c, "port", "spawn"))
      BY <1>0, <3>3 DEF CliType, CliGoes
    <3>. QED BY <1>2, <3>1, <3>2, <3>3 DEF StartStatus, StartPort, StartUp, StartLate, StartEnd
  <2>2. UNCHANGED <<tunnel, process, commands, crashes, ghost>>
    BY <1>2 DEF StartStatus, StartPort, StartUp, StartLate, StartEnd
  <2>. QED BY <2>1, <2>2 DEF TypeOK, CliType, RelayTypeOK, tunnel, process, ghost
<1>3. CASE StartSpawn(c)
  <2>1. PICK g \in Gateways :
          /\ GatewayGoes(g, "unborn", "forked")
          /\ gw_port' = [gw_port EXCEPT ![g] = cli[c].port]
          /\ gateway_pid' = g
          /\ cli' = [cli EXCEPT ![c].pc = "poll", ![c].pid = g]
    BY <1>3 DEF StartSpawn
  <2>2. gw_port' \in [Gateways -> Ports]
    <3>1. cli[c].port \in Ports
      BY <1>0 DEF CliType
    <3>. QED BY <2>1, <3>1 DEF TypeOK
  <2>3. CliType'
    <3>1. cli_lock' \in Clis \cup {NoCli}
      BY <1>0, <1>3 DEF CliType, StartSpawn
    <3>. QED BY <1>0, <2>1, <3>1, WatchType
  <2>. QED BY <1>3, <2>1, <2>2, <2>3 DEF TypeOK, CliType, RelayTypeOK, StartSpawn, GatewayGoes, tunnel, ghost
<1>4. CASE StartLoad(c)
  <2>1. RelayTypeOK'
    BY <1>0, <1>4, UserType DEF StartLoad
  <2>. QED BY <1>4, <2>1 DEF TypeOK, StartLoad, process, ghost
<1>. QED BY <1>1, <1>2, <1>3, <1>4 DEF Start

\* The steps of a stop.
LEMMA StopType ==
    ASSUME TypeOK, NEW c \in Clis, Stop(c) PROVE TypeOK'
<1>. c \in Users
  BY ProcessesAssumption
<1>0. CliType /\ RelayTypeOK
  BY DEF TypeOK, CliType
<1>1. CASE StopStatus(c)
  <2>1. commands' \in 0..MaxCommands
    BY <1>1, ProcessesAssumption DEF TypeOK, StopStatus
  <2>2. CliType'
    BY <1>0, <1>1 DEF CliType, StopStatus
  <2>3. stopped' \subseteq Gateways /\ clean' \in [Clis -> BOOLEAN]
    BY <1>1 DEF TypeOK, StopStatus, GatewaysAlive
  <2>4. RelayTypeOK'
    BY <1>0, <1>1 DEF StopStatus, RelayTypeOK, tunnel
  <2>. QED BY <1>1, <2>1, <2>2, <2>3, <2>4 DEF TypeOK, CliType, StopStatus, process
<1>2. CASE StopPost(c)
  <2>1. CliType' /\ RelayTypeOK'
    BY <1>0, <1>2 DEF CliType, StopPost, CliGoes, RelayTypeOK, tunnel
  <2>2. gw' \in [Gateways -> {"unborn", "forked", "named", "serving", "leaving", "unlinked", "dead"}]
    BY <1>2 DEF TypeOK, StopPost
  <2>3. stopped' \subseteq Gateways
    BY <1>2 DEF TypeOK, StopPost, GatewaysAlive
  <2>. QED BY <1>2, <2>1, <2>2, <2>3 DEF TypeOK, CliType, StopPost
<1>3. CASE StopFreed(c)
  <2>1. CliType' /\ RelayTypeOK'
    BY <1>0, <1>3 DEF CliType, StopFreed, CliGoes, RelayTypeOK, tunnel
  <2>2. clean' \in [Clis -> BOOLEAN]
    BY <1>3 DEF TypeOK, StopFreed
  <2>. QED BY <1>3, <2>1, <2>2 DEF TypeOK, CliType, StopFreed, process
<1>4. CASE StopSigterm(c)
  <2>1. gw' \in [Gateways -> {"unborn", "forked", "named", "serving", "leaving", "unlinked", "dead"}]
    BY <1>4 DEF TypeOK, StopSigterm, AfterSigterm
  <2>2. CliType' /\ RelayTypeOK'
    <3>1. /\ cli_lock' \in Clis \cup {NoCli} /\ gateway_pid \in Gateways \cup {NoGateway}
          /\ \E to \in {"tunnel", "gone"} : cli' = [cli EXCEPT ![c].pc = to, ![c].pid = gateway_pid]
      BY <1>0, <1>4 DEF TypeOK, CliType, StopSigterm
    <3>2. RelayTypeOK'
      BY <1>0, <1>4 DEF StopSigterm, RelayTypeOK, tunnel
    <3>. QED BY <1>0, <3>1, <3>2, WatchType
  <2>3. stopped' \subseteq Gateways
    BY <1>4 DEF TypeOK, StopSigterm, GatewaysAlive
  <2>. QED BY <1>4, <2>1, <2>2, <2>3 DEF TypeOK, CliType, StopSigterm
<1>5. CASE StopUnlinkGateway(c)
  <2>1. CliType' /\ RelayTypeOK'
    BY <1>0, <1>5 DEF CliType, StopUnlinkGateway, CliGoes, RelayTypeOK, tunnel
  <2>2. clean' \in [Clis -> BOOLEAN] /\ stopped' \subseteq Gateways
    BY <1>5 DEF TypeOK, StopUnlinkGateway, GatewaysAlive
  <2>. QED BY <1>5, <2>1, <2>2 DEF TypeOK, CliType, StopUnlinkGateway
<1>6. CASE StopTunnel(c)
  <2>1. RelayTypeOK'
    BY <1>0, <1>6, UserType DEF StopTunnel
  <2>2. CliType'
    BY <1>0, <1>6 DEF CliType, StopTunnel, CliGoes
  <2>. QED BY <1>6, <2>1, <2>2 DEF TypeOK, CliType, StopTunnel, process, ghost
<1>7. CASE StopEnd(c) \/ StopRest(c)
  <2>1. CliType'
    <3>1. CASE StopEnd(c)
      BY <1>0, <3>1 DEF CliType, StopEnd, CliGoes
    <3>2. CASE StopRest(c)
      BY <1>0, <3>2, EndType DEF StopRest
    <3>. QED BY <1>7, <3>1, <3>2
  <2>2. UNCHANGED <<tunnel, process, commands, crashes, ghost>>
    BY <1>7 DEF StopEnd, StopRest
  <2>. QED BY <2>1, <2>2 DEF TypeOK, CliType, RelayTypeOK, tunnel, process, ghost
<1>. QED BY <1>1, <1>2, <1>3, <1>4, <1>5, <1>6, <1>7 DEF Stop

\* Every step keeps the types.
LEMMA TypeStep == TypeOK /\ [Next]_vars => TypeOK'
<1>. SUFFICES ASSUME TypeOK, [Next]_vars PROVE TypeOK'
  OBVIOUS
<1>1. ASSUME NEW c \in Clis, Interrupt(c) PROVE TypeOK'
  <2>1. c \in Users /\ CliType /\ RelayTypeOK
    BY ProcessesAssumption DEF TypeOK, CliType
  <2>2. CliType'
    BY <1>1, <2>1, EndType DEF Interrupt
  <2>3. RelayTypeOK'
    BY <1>1, <2>1, DropType DEF Interrupt
  <2>4. crashes' \in 0..MaxCrashes
    BY <1>1, ProcessesAssumption DEF TypeOK, Interrupt
  <2>. QED BY <1>1, <2>2, <2>3, <2>4 DEF TypeOK, CliType, Interrupt, process, ghost
<1>2. ASSUME NEW r \in Relays, ServeRelay(r),
             UNCHANGED <<process, cli, cli_lock, commands, crashes, ghost>>
      PROVE  TypeOK'
  BY <1>2, RelayType DEF TypeOK, process, ghost
<1>3. ASSUME NEW r \in Relays, KillRelay(r) PROVE TypeOK'
  <2>1. crashes' \in 0..MaxCrashes
    BY <1>3, ProcessesAssumption DEF TypeOK, KillRelay
  <2>. QED BY <1>3, <2>1, RelayType DEF TypeOK, KillRelay, process, ghost
<1>4. CASE UNCHANGED vars
  BY <1>4 DEF TypeOK, RelayTypeOK, vars, tunnel, process, ghost
<1>. QED
  BY <1>1, <1>2, <1>3, <1>4, GatewayTypeStep, StartType, StopType DEF Next, GatewaySteps

LEMMA TypeInit == Init => TypeOK
<1>. SUFFICES ASSUME Init PROVE TypeOK
  OBVIOUS
<1>1. RelayTypeOK
  BY DEF Init, RelayInit, RelayTypeOK
<1>2. CliType
  BY RestingType DEF Init, CliType
<1>3. commands \in 0..MaxCommands /\ crashes \in 0..MaxCrashes
  BY ProcessesAssumption DEF Init
<1>4. gw_port \in [Gateways -> Ports]
  BY ProcessesAssumption DEF Init
<1>. QED BY <1>1, <1>2, <1>3, <1>4 DEF Init, TypeOK, CliType

\* Every variable has its type, in every reachable state.
THEOREM ProcessesTypeCorrect == Spec => []TypeOK
BY TypeInit, TypeStep, PTL DEF Spec

-----------------------------------------------------------------------------
(* One gateway at a port *)

Starting == {"status", "port", "spawn", "poll"}
Before   == {"status", "port", "spawn"}

\* A start that has not given up has cli_lock; no gateway comes up before it
\* spawns its own; and once it has looked at the port nobody else is to use it.
StartInv ==
    /\ \A c \in Clis : cli[c].pc \in Starting => cli_lock = c
    /\ ~hasty =>
        /\ \A c \in Clis : cli[c].pc \in Before => ComingUp = {}
        /\ \A c \in Clis : cli[c].pc = "spawn" => \A g \in GatewaysAlive : gw_port[g] # cli[c].port
        /\ \A g, h \in GatewaysAlive : gw_port[g] = gw_port[h] => g = h

\* Nothing is started, at most something ends.
NoneStarts ==
    /\ gw_port' = gw_port
    /\ GatewaysAlive' \subseteq GatewaysAlive
    /\ ComingUp' \subseteq ComingUp

\* A step that starts nothing, and takes a command at most out of a start.
LEMMA LeavesStart ==
    ASSUME StartInv, NoneStarts, hasty => hasty',
           \A d \in Clis : \/ cli'[d] = cli[d] /\ (cli_lock' = cli_lock \/ cli_lock # d)
                           \/ cli'[d].pc \notin Starting
    PROVE  StartInv'
<1>1. \A d \in Clis : cli'[d].pc \in Starting => cli'[d] = cli[d] /\ cli_lock' = d
  BY DEF StartInv
<1>2. Before \subseteq Starting /\ "spawn" \in Starting
  BY DEF Before, Starting
<1>3. ASSUME ~hasty' PROVE /\ \A c \in Clis : cli'[c].pc \in Before => ComingUp' = {}
                           /\ \A c \in Clis : cli'[c].pc = "spawn" =>
                                 \A g \in GatewaysAlive' : gw_port'[g] # cli'[c].port
                           /\ \A g, h \in GatewaysAlive' : gw_port'[g] = gw_port'[h] => g = h
  BY <1>1, <1>2, <1>3 DEF StartInv, NoneStarts
<1>. QED BY <1>1, <1>3 DEF StartInv

\* A command that ends leaves the lock of another alone.
LEMMA EndLeaves ==
    ASSUME TypeOK, StartInv, NEW c \in Clis, End(c)
    PROVE  \A d \in Clis : \/ cli'[d] = cli[d] /\ (cli_lock' = cli_lock \/ cli_lock # d)
                           \/ cli'[d].pc \notin Starting
<1>1. Resting.pc = "idle" /\ "idle" \notin Starting
  BY DEF Resting, Starting
<1>2. \A d \in Clis : cli'[d] = IF d = c THEN Resting ELSE cli[d]
  BY DEF End, TypeOK
<1>. QED BY <1>1, <1>2 DEF End

\* A gateway's steps, and those of the relay.
LEMMA GatewayNoneStarts ==
    ASSUME TypeOK, NEW g \in Gateways, GatewaySteps(g)
    PROVE  NoneStarts /\ UNCHANGED <<cli, cli_lock, hasty>>
<1>1. UNCHANGED <<gw_port, cli, cli_lock, hasty>>
  BY DEF GatewaySteps, ServeGateway, GatewayWritePid, GatewayBind, GatewayUnlink, GatewayExit,
         Retire, GatewayUse, Kill, process, ghost
<1>2. \A h \in Gateways : h # g => gw'[h] = gw[h]
  BY DEF TypeOK, GatewaySteps, ServeGateway, GatewayWritePid, GatewayBind, GatewayUnlink,
         GatewayExit, Retire, GatewayUse, Kill, GatewayGoes, process
<1>3. \/ gw'[g] = gw[g] \/ gw'[g] = "dead"
      \/ /\ gw[g] \notin {"unborn", "dead"}
         /\ gw'[g] \in {"forked", "named"} => gw[g] \in {"forked", "named"}
  BY DEF TypeOK, GatewaySteps, ServeGateway, GatewayWritePid, GatewayBind, GatewayUnlink,
         GatewayExit, Retire, GatewayUse, Kill, GatewayGoes, process
<1>. QED BY <1>1, <1>2, <1>3 DEF NoneStarts, GatewaysAlive, ComingUp

\* A stop ends gateways or lets them go on.
LEMMA StopLeaves ==
    ASSUME TypeOK, StartInv, NEW c \in Clis, Stop(c)
    PROVE  /\ NoneStarts /\ UNCHANGED hasty
           /\ \A d \in Clis : \/ cli'[d] = cli[d] /\ (cli_lock' = cli_lock \/ cli_lock # d)
                              \/ cli'[d].pc \notin Starting
<1>. cli[c] \in [pc : {"idle", "status", "port", "spawn", "poll", "load", "post", "freed",
                       "pid", "gone", "tunnel", "stopping", "done"},
                 port : Ports, pid : Gateways \cup {NoGateway}]
  BY DEF TypeOK
<1>1. NoneStarts
  <2>1. gw_port' = gw_port
    BY DEF Stop, StopStatus, StopPost, StopFreed, StopSigterm, StopUnlinkGateway, StopTunnel,
           StopEnd, StopRest, process
  <2>2. \A g \in Gateways : \/ gw'[g] = gw[g] \/ gw'[g] = "dead"
                            \/ gw'[g] = "leaving" /\ gw[g] = "serving"
    BY DEF TypeOK, Stop, StopStatus, StopPost, StopFreed, StopSigterm, StopUnlinkGateway, StopTunnel,
           StopEnd, StopRest, process, Answering, AfterSigterm
  <2>. QED BY <2>1, <2>2 DEF NoneStarts, GatewaysAlive, ComingUp
<1>2. UNCHANGED hasty
  BY DEF Stop, StopStatus, StopPost, StopFreed, StopSigterm, StopUnlinkGateway, StopTunnel,
         StopEnd, StopRest, ghost
<1>3. ASSUME ~StopRest(c)
      PROVE  /\ \A d \in Clis : d # c => cli'[d] = cli[d]
             /\ cli' = cli \/ cli'[c].pc \notin Starting
             /\ UNCHANGED cli_lock
  BY <1>3 DEF TypeOK, Starting, Stop, StopStatus, StopPost, StopFreed, StopSigterm, StopUnlinkGateway,
           StopTunnel, StopEnd, CliGoes
<1>4. CASE StopRest(c)
  BY <1>1, <1>2, <1>4, EndLeaves DEF StopRest
<1>. QED BY <1>1, <1>2, <1>3, <1>4

\* A start, step by step.
LEMMA StartStep ==
    ASSUME TypeOK, StartInv, NEW c \in Clis, Start(c) PROVE StartInv'
<1>. cli[c] \in [pc : {"idle", "status", "port", "spawn", "poll", "load", "post", "freed",
                       "pid", "gone", "tunnel", "stopping", "done"},
                 port : Ports, pid : Gateways \cup {NoGateway}]
  BY DEF TypeOK
<1>. USE DEF Starting, Before
<1>1. ASSUME UNCHANGED process PROVE NoneStarts
  BY <1>1 DEF process, NoneStarts, GatewaysAlive, ComingUp
<1>2. CASE StartLock(c)
  <2>1. /\ \A d \in Clis : d # c => cli'[d] = cli[d] /\ cli[d].pc \notin Starting
        /\ cli'[c].pc = "status" /\ cli_lock' = c
    <3>1. cli_lock = NoCli /\ NoCli \notin Clis
      BY <1>2, ProcessesAssumption DEF StartLock
    <3>2. \A d \in Clis : cli[d].pc \notin Starting
      BY <3>1 DEF StartInv
    <3>3. PICK p \in Ports : cli' = [cli EXCEPT ![c] = [pc |-> "status", port |-> p, pid |-> NoGateway]]
      BY <1>2 DEF StartLock
    <3>. QED BY <1>2, <3>2, <3>3 DEF StartLock, TypeOK
  <2>2. gw' = gw /\ gw_port' = gw_port /\ (~hasty' => ~hasty /\ ComingUp = {})
    BY <1>2 DEF StartLock, process
  <2>3. GatewaysAlive' = GatewaysAlive /\ ComingUp' = ComingUp
    BY <2>2 DEF GatewaysAlive, ComingUp
  <2>. QED BY <2>1, <2>2, <2>3 DEF StartInv
<1>3. ASSUME End(c) \/ StartLoaded(c) \/ UNCHANGED <<cli, cli_lock>>, UNCHANGED <<process, hasty>>,
             cli[c].pc \in Starting \/ End(c) \/ UNCHANGED <<cli, cli_lock>>
      PROVE  StartInv'
  <2>1. CASE End(c)
    BY <1>1, <1>3, <2>1, EndLeaves, LeavesStart
  <2>2. CASE StartLoaded(c) /\ cli[c].pc \in Starting
    <3>1. /\ \A d \in Clis : d # c => cli'[d] = cli[d] /\ cli_lock # d
          /\ cli'[c].pc \notin Starting
      BY <2>2 DEF TypeOK, StartLoaded, StartInv
    <3>. QED BY <1>1, <1>3, <3>1, LeavesStart
  <2>3. CASE UNCHANGED <<cli, cli_lock>>
    BY <1>1, <1>3, <2>3, LeavesStart
  <2>. QED BY <1>3, <2>1, <2>2, <2>3
<1>4. CASE StartUp(c) \/ StartLate(c) \/ StartLoad(c) \/ StartEnd(c)
  BY <1>3, <1>4 DEF StartUp, StartLate, StartLoad, StartEnd, ghost
<1>5. ASSUME NEW to \in {"port", "spawn"}, CliGoes(c, IF to = "port" THEN "status" ELSE "port", to),
             UNCHANGED <<process, cli_lock, hasty>>,
             to = "spawn" => ~local_port_in_use(cli[c].port)
      PROVE  StartInv'
  <2>1. /\ \A d \in Clis : d # c => cli'[d] = cli[d]
        /\ cli'[c].pc = to /\ cli'[c].port = cli[c].port /\ cli[c].pc \in {"status", "port"}
    BY <1>5 DEF CliGoes, TypeOK
  <2>2. GatewaysAlive' = GatewaysAlive /\ ComingUp' = ComingUp /\ gw_port' = gw_port
    BY <1>5 DEF process, GatewaysAlive, ComingUp
  <2>3. ASSUME ~hasty, to = "spawn" PROVE \A g \in GatewaysAlive : gw_port[g] # cli[c].port
    <3>1. ComingUp = {} /\ Bound(cli[c].port) = {}
      BY <1>5, <2>1, <2>3 DEF StartInv, local_port_in_use
    <3>2. \A g \in GatewaysAlive : gw[g] \in {"forked", "named", "serving", "leaving", "unlinked"}
      BY DEF GatewaysAlive, TypeOK
    <3>. QED BY <3>1, <3>2 DEF ComingUp, Bound, GatewaysAlive
  <2>4. /\ \A d \in Clis : cli'[d].pc \in Starting => cli[d].pc \in Starting
        /\ \A d \in Clis : cli'[d].pc \in Before => cli[d].pc \in Before
    BY <2>1
  <2>5. ASSUME ~hasty PROVE \A d \in Clis : cli'[d].pc = "spawn" =>
                                \A g \in GatewaysAlive : gw_port[g] # cli'[d].port
    BY <2>1, <2>3, <2>5 DEF StartInv
  <2>. QED BY <1>5, <2>2, <2>4, <2>5 DEF StartInv
<1>6. CASE StartStatus(c)
  <2>1. CASE StartLoaded(c)
    BY <1>3, <1>6, <2>1 DEF StartStatus, ghost
  <2>2. CASE CliGoes(c, "status", "port") /\ UNCHANGED cli_lock
    BY <1>5, <1>6, <2>2 DEF StartStatus, ghost
  <2>. QED BY <1>6, <2>1, <2>2 DEF StartStatus
<1>7. CASE StartPort(c)
  <2>1. CASE End(c)
    BY <1>3, <1>7, <2>1 DEF StartPort, ghost
  <2>2. CASE ~local_port_in_use(cli[c].port) /\ CliGoes(c, "port", "spawn") /\ UNCHANGED cli_lock
    BY <1>5, <1>7, <2>2 DEF StartPort, ghost
  <2>. QED BY <1>7, <2>1, <2>2 DEF StartPort
<1>8. CASE StartSpawn(c)
  <2>1. PICK g \in Gateways :
          /\ GatewayGoes(g, "unborn", "forked")
          /\ gw_port' = [gw_port EXCEPT ![g] = cli[c].port]
          /\ cli' = [cli EXCEPT ![c].pc = "poll", ![c].pid = g]
    BY <1>8 DEF StartSpawn
  <2>2. /\ \A d \in Clis : d # c => cli'[d] = cli[d]
        /\ cli'[c].pc = "poll" /\ cli[c].pc = "spawn" /\ cli_lock = c
        /\ UNCHANGED <<cli_lock, hasty>>
    BY <1>8, <2>1 DEF TypeOK, StartSpawn, StartInv, ghost
  <2>3. \A d \in Clis : cli'[d].pc \in Starting => d = c
    BY <2>2 DEF StartInv
  <2>4. \A h \in Gateways : h # g => gw'[h] = gw[h] /\ gw_port'[h] = gw_port[h]
    BY <2>1 DEF TypeOK, GatewayGoes
  <2>5. gw_port'[g] = cli[c].port
    BY <2>1 DEF TypeOK
  <2>6. ASSUME ~hasty PROVE \A h, k \in GatewaysAlive' : gw_port'[h] = gw_port'[k] => h = k
    <3>1. \A h \in GatewaysAlive' : h # g => h \in GatewaysAlive
      BY <2>4 DEF GatewaysAlive
    <3>2. \A h \in GatewaysAlive : gw_port[h] # cli[c].port
      BY <2>2, <2>6 DEF StartInv
    <3>. QED BY <2>4, <2>5, <2>6, <3>1, <3>2 DEF StartInv, GatewaysAlive
  <2>. QED BY <2>2, <2>3, <2>6 DEF StartInv
<1>. QED BY <1>2, <1>4, <1>6, <1>7, <1>8 DEF Start

\* Every step keeps the discipline of the starts.
LEMMA StartInvStep == TypeOK /\ StartInv /\ [Next]_vars => StartInv'
<1>. SUFFICES ASSUME TypeOK, StartInv, [Next]_vars PROVE StartInv'
  OBVIOUS
<1>1. ASSUME UNCHANGED process PROVE NoneStarts
  BY <1>1 DEF process, NoneStarts, GatewaysAlive, ComingUp
<1>2. ASSUME NEW g \in Gateways, GatewaySteps(g) PROVE StartInv'
  BY <1>2, GatewayNoneStarts, LeavesStart
<1>3. ASSUME NEW c \in Clis, Stop(c) PROVE StartInv'
  BY <1>3, StopLeaves, LeavesStart
<1>4. ASSUME NEW c \in Clis, Interrupt(c) PROVE StartInv'
  BY <1>1, <1>4, EndLeaves, LeavesStart DEF Interrupt, ghost
<1>5. ASSUME UNCHANGED <<process, cli, cli_lock, hasty>> PROVE StartInv'
  BY <1>1, <1>5, LeavesStart
<1>6. ASSUME NEW r \in Relays, KillRelay(r) \/ UNCHANGED <<process, cli, cli_lock, commands, crashes, ghost>>
      PROVE  StartInv'
  BY <1>5, <1>6 DEF KillRelay, ghost
<1>7. CASE UNCHANGED vars
  BY <1>5, <1>7 DEF vars, ghost
<1>. QED BY <1>2, <1>3, <1>4, <1>6, <1>7, StartStep DEF Next, GatewaySteps

\* However commands meet, are interrupted or their processes killed, two
\* gateways are never at one port, if no start was repeated while the gateway of
\* one that had given up was still on its way.
THEOREM OneGatewayAlways == Spec => []OneGateway
<1>1. Init => StartInv
  BY DEF Init, StartInv, Starting, Before, Resting, GatewaysAlive, ComingUp
<1>2. StartInv => OneGateway
  BY DEF StartInv, OneGateway
<1>. QED BY <1>1, <1>2, StartInvStep, ProcessesTypeCorrect, PTL DEF Spec

-----------------------------------------------------------------------------
(* The relay that serves is the one its pidfile names *)

\* A user that dies in the middle leaves less at work than there was.
LEMMA DropKeepsNamed ==
    ASSUME RelayTypeOK, NamedInv, NEW u \in Users, DropUser(u), UNCHANGED <<relay, tunnel_pid, crossed>>
    PROVE  NamedInv'
<1>1. /\ \A v \in Users : v # u => at'[v] = at[v] /\ child'[v] = child[v]
      /\ at'[u] = "idle" /\ Active' = Active
  BY DEF RelayTypeOK, DropUser, Active
<1>. QED BY <1>1 DEF NamedInv, Looked

\* Gateways and commands reach the relay only as its users.
LEMMA NamedStep == TypeOK /\ NamedInv /\ [Next]_vars => NamedInv'
<1>. SUFFICES ASSUME TypeOK, NamedInv, [Next]_vars PROVE NamedInv'
  OBVIOUS
<1>. Gateways \subseteq Users /\ Clis \subseteq Users /\ RelayTypeOK
  BY ProcessesAssumption DEF TypeOK
<1>1. ASSUME UNCHANGED tunnel PROVE NamedInv'
  BY <1>1 DEF NamedInv, tunnel, Active
<1>2. ASSUME NEW g \in Gateways, GatewaySteps(g) PROVE NamedInv'
  <2>1. CASE GatewayWritePid(g) \/ GatewayBind(g) \/ GatewayUnlink(g) \/ Retire(g)
    BY <1>1, <2>1 DEF GatewayWritePid, GatewayBind, GatewayUnlink, Retire
  <2>2. CASE GatewayExit(g) \/ Kill(g)
    BY <2>2, DropKeepsNamed DEF GatewayExit, Kill
  <2>3. CASE GatewayUse(g)
    BY <2>3, UserKeepsNamed DEF GatewayUse
  <2>. QED BY <1>2, <2>1, <2>2, <2>3 DEF GatewaySteps, ServeGateway
<1>3. ASSUME NEW c \in Clis, Start(c) PROVE NamedInv'
  <2>1. CASE StartLoad(c)
    BY <2>1, UserKeepsNamed DEF StartLoad
  <2>2. ASSUME ~StartLoad(c) PROVE UNCHANGED tunnel
    BY <1>3, <2>2 DEF Start, StartLock, StartStatus, StartPort, StartSpawn, StartUp, StartLate, StartEnd
  <2>. QED BY <1>1, <2>1, <2>2
<1>4. ASSUME NEW c \in Clis, Stop(c) PROVE NamedInv'
  <2>1. CASE StopTunnel(c)
    BY <2>1, UserKeepsNamed DEF StopTunnel
  <2>2. ASSUME ~StopTunnel(c) PROVE UNCHANGED tunnel
    BY <1>4, <2>2 DEF Stop, StopStatus, StopPost, StopFreed, StopSigterm, StopUnlinkGateway,
                      StopEnd, StopRest
  <2>. QED BY <1>1, <2>1, <2>2
<1>5. ASSUME NEW c \in Clis, Interrupt(c) PROVE NamedInv'
  BY <1>5, DropKeepsNamed DEF Interrupt
<1>6. ASSUME NEW r \in Relays, ServeRelay(r) \/ KillRelay(r) PROVE NamedInv'
  BY <1>6, RelayKeepsNamed DEF KillRelay
<1>7. CASE UNCHANGED vars
  BY <1>1, <1>7 DEF vars
<1>. QED BY <1>2, <1>3, <1>4, <1>5, <1>6, <1>7 DEF Next, GatewaySteps

\* A relay that listens while nobody is at work on it is the one its pidfile
\* names, if no operation on it began in the middle of another.
THEOREM RelayNamedAlways == Spec => []RelayNamed
<1>1. Init => NamedInv
  BY DEF Init, RelayInit, NamedInv, Active, Looked
<1>. QED BY <1>1, NamedStep, NamedSuffices, ProcessesTypeCorrect, PTL DEF Spec
-----------------------------------------------------------------------------
(* Only a stale gateway retires *)

\* wingpu.toml is not edited: all commands and gateways mean the same port.
OnePort == \A p, q \in Ports : p = q

\* The gateway that is alive is named by the pidfile and does not go, or has met a stop.
PidInv ==
    ~hasty => \A g \in GatewaysAlive :
        g \in stopped \/ (gateway_pid = g /\ gw[g] \in {"forked", "named", "serving"})

\* With one port, and no hasty start, at most one gateway is alive.
LEMMA OneAlive ==
    ASSUME OnePort, TypeOK, StartInv, ~hasty
    PROVE  \A g, h \in GatewaysAlive : g = h
BY DEF OnePort, TypeOK, StartInv, GatewaysAlive

\* Every step keeps the pidfile true to the gateway that is alive.
LEMMA PidStep == OnePort /\ TypeOK /\ StartInv /\ PidInv /\ [Next]_vars => PidInv'
<1>. SUFFICES ASSUME OnePort, TypeOK, StartInv, PidInv, [Next]_vars, ~hasty' PROVE PidInv'
  BY DEF PidInv
<1>1. ASSUME UNCHANGED <<process, stopped, hasty>> PROVE PidInv'
  BY <1>1 DEF PidInv, process, GatewaysAlive
<1>2. ASSUME NEW g \in Gateways, GatewaySteps(g) PROVE PidInv'
  <2>1. UNCHANGED <<hasty, stopped>> /\ GatewaysAlive' \subseteq GatewaysAlive
    BY <1>2, GatewayNoneStarts DEF NoneStarts, GatewaySteps, ServeGateway, GatewayWritePid, GatewayBind,
           GatewayUnlink, GatewayExit, Retire, GatewayUse, Kill, ghost
  <2>2. g \in GatewaysAlive
    BY <1>2 DEF GatewaySteps, ServeGateway, GatewayWritePid, GatewayBind, GatewayUnlink, GatewayExit,
           Retire, GatewayUse, Kill, GatewayGoes, GatewaysAlive
  <2>3. g \in stopped \/ (gateway_pid = g /\ gw[g] \in {"forked", "named", "serving"})
    BY <2>1, <2>2 DEF PidInv
  <2>4. \A h \in GatewaysAlive' : h = g
    BY <2>1, <2>2, OneAlive
  <2>5. g \in stopped \/ gw'[g] = "dead" \/ (gateway_pid' = g /\ gw'[g] \in {"forked", "named", "serving"})
    BY <1>2, <2>3 DEF TypeOK, GatewaySteps, ServeGateway, GatewayWritePid, GatewayBind, GatewayUnlink,
           GatewayExit, Retire, GatewayUse, Kill, GatewayGoes, process
  <2>. QED BY <2>1, <2>4, <2>5 DEF PidInv, GatewaysAlive
<1>3. ASSUME NEW c \in Clis, Start(c) PROVE PidInv'
  <2>1. CASE StartSpawn(c)
    <3>1. PICK g \in Gateways : GatewayGoes(g, "unborn", "forked") /\ gateway_pid' = g
      BY <2>1 DEF StartSpawn
    <3>2. ~hasty /\ cli[c].pc = "spawn"
      BY <2>1 DEF StartSpawn, ghost
    <3>3. GatewaysAlive = {}
      BY <3>2 DEF StartInv, OnePort, TypeOK, GatewaysAlive
    <3>4. gw'[g] = "forked" /\ GatewaysAlive' \subseteq {g}
      BY <3>1, <3>3 DEF GatewayGoes, GatewaysAlive, TypeOK
    <3>. QED BY <3>1, <3>4 DEF PidInv
  <2>2. CASE StartLock(c)
    BY <2>2 DEF StartLock, PidInv, process, GatewaysAlive
  <2>3. CASE StartStatus(c) \/ StartPort(c) \/ StartUp(c) \/ StartLate(c) \/ StartLoad(c) \/ StartEnd(c)
    BY <1>1, <2>3 DEF StartStatus, StartPort, StartUp, StartLate, StartLoad, StartEnd, ghost
  <2>. QED BY <1>3, <2>1, <2>2, <2>3 DEF Start
<1>4. ASSUME NEW c \in Clis, Stop(c) PROVE PidInv'
  <2>1. CASE StopStatus(c) \/ StopPost(c) \/ StopSigterm(c) \/ StopUnlinkGateway(c)
    <3>1. stopped' = stopped \cup GatewaysAlive
      BY <2>1 DEF StopStatus, StopPost, StopSigterm, StopUnlinkGateway
    <3>2. GatewaysAlive' \subseteq GatewaysAlive
      BY <1>4, StopLeaves DEF NoneStarts
    <3>. QED BY <3>1, <3>2 DEF PidInv
  <2>2. CASE StopFreed(c) \/ StopTunnel(c) \/ StopEnd(c) \/ StopRest(c)
    BY <1>1, <2>2 DEF StopFreed, StopTunnel, StopEnd, StopRest, ghost
  <2>. QED BY <1>4, <2>1, <2>2 DEF Stop
<1>5. ASSUME NEW c \in Clis, Interrupt(c) PROVE PidInv'
  BY <1>1, <1>5 DEF Interrupt, ghost
<1>6. ASSUME NEW r \in Relays, KillRelay(r) \/ UNCHANGED <<process, cli, cli_lock, commands, crashes, ghost>>
      PROVE  PidInv'
  BY <1>1, <1>6 DEF KillRelay, ghost
<1>7. CASE UNCHANGED vars
  BY <1>1, <1>7 DEF vars, ghost
<1>. QED BY <1>2, <1>3, <1>4, <1>5, <1>6, <1>7 DEF Next, GatewaySteps

\* The inductive invariant of one port.
LEMMA PidKept == ASSUME OnePort PROVE Spec => [](TypeOK /\ StartInv /\ PidInv)
<1>1. Init => StartInv /\ PidInv
  BY DEF Init, StartInv, PidInv, Starting, Before, Resting, GatewaysAlive, ComingUp
<1>2. TypeOK /\ StartInv /\ PidInv /\ [Next]_vars => (TypeOK /\ StartInv /\ PidInv)'
  BY TypeStep, StartInvStep, PidStep
<1>. QED BY <1>1, <1>2, TypeInit, PTL DEF Spec

\* With one port a gateway retires only for the reasons maybe_idle_offload gives.
THEOREM RetiresOnlyStaleAlways == ASSUME OnePort PROVE Spec => RetiresOnlyStale
<1>1. PidInv /\ [Next]_vars =>
          [\A g \in Gateways : Retire(g) /\ ~hasty => gateway_pid \in GatewaysAlive \/ g \in stopped]_vars
  <2>. SUFFICES ASSUME PidInv, NEW g \in Gateways, Retire(g), ~hasty PROVE g \in stopped
    OBVIOUS
  <2>1. g \in GatewaysAlive /\ gateway_pid # g
    BY DEF Retire, GatewayGoes, GatewaysAlive
  <2>. QED BY <2>1 DEF PidInv
<1>. QED BY <1>1, PidKept, PTL DEF Spec, RetiresOnlyStale

-----------------------------------------------------------------------------
(* A stop stops *)

Stopping == {"post", "freed", "pid", "gone", "tunnel", "stopping", "done"}

\* What a stop of c has reached, as long as nothing is started beside it.
Reached(c) ==
    /\ cli[c].pc = "post" => ComingUp = {}
    /\ cli[c].pc = "freed" => \A g \in GatewaysAlive : gw[g] \in {"leaving", "unlinked"}
    /\ cli[c].pc = "pid" => \A g \in GatewaysAlive :
                               gateway_pid = g /\ gw[g] \in {"forked", "named", "serving"}
    /\ cli[c].pc = "gone" => GatewaysAlive \subseteq {cli[c].pid}
    /\ cli[c].pc \in {"tunnel", "stopping", "done"} => GatewaysAlive = {}
    /\ cli[c].pc \in {"stopping", "done"} /\ ~crossed => \A r \in Active : relay[r] = "told"

\* A clean command is a stop, the only command there is.
StopsAlone(c) ==
    /\ cli[c].pc \in Stopping
    /\ \A d \in Clis : d # c => cli[d].pc = "idle"
    /\ ~hasty => Reached(c)

StopInv == \A c \in Clis : clean[c] /\ cli[c].pc # "idle" => StopsAlone(c)

StopContext == TypeOK /\ StartInv /\ PidInv /\ NamedInv /\ StopInv

\* Of whom a stop looks for, with one port: all that are alive.
LEMMA PortIsAll ==
    ASSUME OnePort, TypeOK, NEW p \in Ports
    PROVE  /\ Answering(p) = {g \in GatewaysAlive : gw[g] = "serving"}
           /\ Bound(p) = {g \in GatewaysAlive : gw[g] \in {"serving", "leaving", "unlinked"}}
BY DEF OnePort, TypeOK, Answering, Bound, GatewaysAlive

\* The stop's first look: its two outcomes.
LEMMA StopLooks ==
    ASSUME OnePort, StopContext, NEW c \in Clis, StopStatus(c), clean'[c] PROVE StopsAlone(c)'
<1>. TypeOK
  BY DEF StopContext
<1>1. PICK p \in Ports : cli' = [cli EXCEPT ![c] =
          [pc |-> IF gateway_up(p) THEN "post" ELSE "pid", port |-> p, pid |-> NoGateway]]
  BY DEF StopStatus
<1>2. /\ \A d \in Clis : d # c => cli'[d].pc = "idle"
      /\ cli'[c].pc = IF gateway_up(p) THEN "post" ELSE "pid"
  BY <1>1 DEF TypeOK, StopStatus
<1>3. /\ ComingUp \subseteq {gateway_pid}
      /\ \A g \in GatewaysAlive : gw[g] \notin {"leaving", "unlinked"}
      /\ UNCHANGED <<gw, gateway_pid, hasty>>
  BY DEF StopStatus, process
<1>4. ASSUME ~hasty, gateway_up(p) PROVE ComingUp = {}
  <2>1. PICK g \in GatewaysAlive : gw[g] = "serving"
    BY <1>4, PortIsAll DEF gateway_up
  <2>2. \A h \in GatewaysAlive : h = g
    BY <1>4, OneAlive DEF StopContext
  <2>. QED BY <2>1, <2>2 DEF ComingUp, GatewaysAlive
<1>5. ASSUME ~gateway_up(p) PROVE \A g \in GatewaysAlive : gateway_pid = g /\ gw[g] \in {"forked", "named", "serving"}
  <2>1. \A g \in GatewaysAlive : gw[g] # "serving"
    BY <1>5, PortIsAll DEF gateway_up
  <2>2. GatewaysAlive \subseteq ComingUp
    BY <1>3, <2>1 DEF TypeOK, GatewaysAlive, ComingUp
  <2>. QED BY <1>3, <2>2 DEF ComingUp
<1>. QED BY <1>2, <1>3, <1>4, <1>5 DEF StopsAlone, Reached, Stopping, ComingUp, GatewaysAlive

\* Each further step of a stop reaches what its next wait relies on.
LEMMA StopGoesOn ==
    ASSUME OnePort, StopContext, NEW c \in Clis, Stop(c), ~StopStatus(c), clean'[c], cli'[c].pc # "idle"
    PROVE  StopsAlone(c)'
<1>. TypeOK
  BY DEF StopContext
<1>0. /\ clean[c] /\ cli[c].pc # "idle"
      /\ \A d \in Clis : d # c => cli'[d] = cli[d]
      /\ UNCHANGED hasty
  BY DEF TypeOK, Stop, StopPost, StopFreed, StopSigterm, StopUnlinkGateway, StopTunnel,
         StopEnd, StopRest, CliGoes, End, ghost
<1>1. StopsAlone(c)
  BY <1>0 DEF StopContext, StopInv
<1>2. \A d \in Clis : d # c => cli'[d].pc = "idle"
  BY <1>0, <1>1 DEF StopsAlone
<1>3. cli[c].port \in Ports
  BY DEF TypeOK
<1>4. GatewaysAlive' \subseteq GatewaysAlive
  BY StopLeaves DEF StopContext, NoneStarts
<1>5. CASE StopPost(c)
  <2>1. cli[c].pc = "post" /\ cli'[c].pc = "freed"
    BY <1>5 DEF TypeOK, StopPost, CliGoes
  <2>2. ASSUME ~hasty, NEW g \in GatewaysAlive' PROVE gw'[g] \in {"leaving", "unlinked"}
    <3>1. g \in GatewaysAlive /\ gw[g] \in {"serving", "leaving", "unlinked"}
      BY <1>1, <1>4, <2>1, <2>2 DEF StopsAlone, Reached, ComingUp, GatewaysAlive, TypeOK
    <3>. QED BY <1>3, <1>5, <3>1, PortIsAll DEF StopPost, GatewaysAlive
  <2>. QED BY <1>0, <1>2, <2>1, <2>2 DEF StopsAlone, Reached, Stopping
<1>6. CASE StopFreed(c)
  <2>1. cli[c].pc = "freed" /\ cli'[c].pc = "pid" /\ UNCHANGED gw
    BY <1>6 DEF TypeOK, StopFreed, CliGoes, process
  <2>2. Bound(cli[c].port) = {}
    BY <1>6 DEF TypeOK, StopFreed, local_port_in_use
  <2>3. ~hasty => GatewaysAlive = {}
    BY <1>1, <1>3, <2>1, <2>2, PortIsAll DEF StopsAlone, Reached
  <2>. QED BY <1>0, <1>2, <1>4, <2>1, <2>3 DEF StopsAlone, Reached, Stopping
<1>7. CASE StopSigterm(c)
  <2>1. /\ cli[c].pc = "pid" /\ cli'[c].pid = gateway_pid
        /\ cli'[c].pc = IF gateway_pid = NoGateway THEN "tunnel" ELSE "gone"
    BY <1>7 DEF TypeOK, StopSigterm
  <2>2. ~hasty => GatewaysAlive \subseteq {gateway_pid} \cap Gateways
    BY <1>1, <2>1 DEF StopsAlone, Reached, GatewaysAlive
  <2>3. NoGateway \notin Gateways
    BY ProcessesAssumption
  <2>. QED BY <1>0, <1>2, <1>4, <2>1, <2>2, <2>3 DEF StopsAlone, Reached, Stopping
<1>8. CASE StopUnlinkGateway(c)
  <2>1. /\ cli[c].pc = "gone" /\ cli'[c].pc = "tunnel" /\ cli[c].pid \notin GatewaysAlive
    BY <1>8 DEF TypeOK, StopUnlinkGateway, CliGoes
  <2>2. ~hasty => GatewaysAlive = {}
    BY <1>1, <2>1 DEF StopsAlone, Reached
  <2>. QED BY <1>0, <1>2, <1>4, <2>1, <2>2 DEF StopsAlone, Reached, Stopping
<1>9. CASE cli[c].pc = "tunnel" /\ StopSignal(c) /\ CliGoes(c, "tunnel", "stopping")
  <2>1. cli'[c].pc = "stopping" /\ (~hasty => GatewaysAlive = {})
    BY <1>1, <1>9 DEF TypeOK, CliGoes, StopsAlone, Reached
  <2>2. ASSUME ~crossed', NEW r \in Active' PROVE relay'[r] = "told"
    <3>1. \A s \in Active : relay[s] \in {"named", "serving"} /\ tunnel_pid = s
      BY <1>9, <2>2, BeginsAlone, ProcessesAssumption DEF StopContext, StopSignal, TypeOK
    <3>2. \A s \in Relays : relay'[s] = IF s = tunnel_pid THEN AfterTerm(relay[s]) ELSE relay[s]
      BY <1>9 DEF StopSignal
    <3>3. r \in Active
      BY <2>2, <3>2 DEF Active, AfterTerm, TypeOK, RelayTypeOK
    <3>. QED BY <2>2, <3>1, <3>2, <3>3 DEF Active, AfterTerm
  <2>. QED BY <1>0, <1>2, <1>4, <2>1, <2>2 DEF StopsAlone, Reached, Stopping
<1>10. CASE StopEnd(c) \/ (cli[c].pc = "stopping" /\ StopUnlink(c) /\ UNCHANGED cli)
  <2>1. cli[c].pc = "stopping" /\ cli'[c].pc \in {"stopping", "done"} /\ UNCHANGED <<relay, crossed>>
    BY <1>10 DEF TypeOK, StopEnd, CliGoes, StopUnlink, tunnel
  <2>2. /\ ~hasty => GatewaysAlive = {}
        /\ ~hasty /\ ~crossed => \A r \in Active : relay[r] = "told"
    BY <1>1, <2>1 DEF StopsAlone, Reached
  <2>3. Active' = Active
    BY <2>1 DEF Active
  <2>. QED BY <1>0, <1>2, <1>4, <2>1, <2>2, <2>3 DEF StopsAlone, Reached, Stopping
<1>11. ~StopRest(c)
  <2>. SUFFICES ASSUME StopRest(c) PROVE FALSE
    OBVIOUS
  <2>1. cli'[c].pc = "idle"
    BY DEF StopRest, End, TypeOK, Resting
  <2>. QED BY <2>1
<1>. QED BY <1>5, <1>6, <1>7, <1>8, <1>9, <1>10, <1>11 DEF Stop, StopTunnel

\* A gateway's step beside a stop: it only goes.
LEMMA StopBesideGateway ==
    ASSUME StopContext, NEW c \in Clis, StopsAlone(c), NEW g \in Gateways, GatewaySteps(g)
    PROVE  StopsAlone(c)'
<1>. TypeOK
  BY DEF StopContext
<1>1. /\ UNCHANGED <<cli, hasty>> /\ GatewaysAlive' \subseteq GatewaysAlive /\ ComingUp' \subseteq ComingUp
  BY GatewayNoneStarts DEF NoneStarts
<1>2. g \in GatewaysAlive
  BY DEF GatewaySteps, ServeGateway, GatewayWritePid, GatewayBind, GatewayUnlink, GatewayExit,
         Retire, GatewayUse, Kill, GatewayGoes, GatewaysAlive
<1>3. \A h \in Gateways : h # g => gw'[h] = gw[h]
  BY DEF TypeOK, GatewaySteps, ServeGateway, GatewayWritePid, GatewayBind, GatewayUnlink,
         GatewayExit, Retire, GatewayUse, Kill, GatewayGoes, process
<1>4. gw[g] \in {"leaving", "unlinked"} => gw'[g] \in {"leaving", "unlinked", "dead"}
  BY DEF TypeOK, GatewaySteps, ServeGateway, GatewayWritePid, GatewayBind, GatewayUnlink, GatewayExit,
         Retire, GatewayUse, Kill, GatewayGoes, process
<1>5. gateway_pid = g /\ gw[g] \in {"forked", "named", "serving"} =>
          gateway_pid' = g /\ gw'[g] \in {"forked", "named", "serving", "dead"}
  BY DEF TypeOK, GatewaySteps, ServeGateway, GatewayWritePid, GatewayBind, GatewayUnlink, GatewayExit,
         Retire, GatewayUse, Kill, GatewayGoes, process
<1>6. ASSUME ~hasty, cli[c].pc = "freed" PROVE \A h \in GatewaysAlive' : gw'[h] \in {"leaving", "unlinked"}
  BY <1>1, <1>3, <1>4, <1>6 DEF StopsAlone, Reached, GatewaysAlive
<1>7. ASSUME ~hasty, cli[c].pc = "pid"
      PROVE  \A h \in GatewaysAlive' : gateway_pid' = h /\ gw'[h] \in {"forked", "named", "serving"}
  <2>1. \A h \in GatewaysAlive : h = g /\ gateway_pid = g /\ gw[g] \in {"forked", "named", "serving"}
    BY <1>2, <1>7 DEF StopsAlone, Reached
  <2>. QED BY <1>1, <1>5, <2>1 DEF GatewaysAlive
<1>8. ~hasty => cli[c].pc \notin {"tunnel", "stopping", "done"}
  BY <1>2 DEF StopsAlone, Reached
<1>. QED BY <1>1, <1>6, <1>7, <1>8 DEF StopsAlone, Reached

\* A relay's step beside a stop: one that was told does not come back.
LEMMA StopBesideRelay ==
    ASSUME StopContext, NEW c \in Clis, StopsAlone(c), UNCHANGED <<process, cli, hasty, crossed>>,
           NEW r \in Relays, ServeRelay(r) \/ RelayCrash(r)
    PROVE  StopsAlone(c)'
<1>1. GatewaysAlive' = GatewaysAlive /\ ComingUp' = ComingUp /\ gw' = gw /\ gateway_pid' = gateway_pid
  BY DEF process, GatewaysAlive, ComingUp
<1>2. \A s \in Relays : s # r => relay'[s] = relay[s]
  BY DEF StopContext, TypeOK, RelayTypeOK, ServeRelay, RelayBind, RelayWritePid, RelayReady, RelayUnlink,
         RelayExit, RelayCrash, RelayGoes
<1>3. relay'[r] = "dead" \/ (r \in Active /\ (relay[r] = "told" => relay'[r] = "closing"))
  BY DEF StopContext, TypeOK, RelayTypeOK, ServeRelay, RelayBind, RelayWritePid, RelayReady, RelayUnlink,
         RelayExit, RelayCrash, RelayGoes, Active
<1>4. (\A s \in Active : relay[s] = "told") => \A s \in Active' : relay'[s] = "told"
  BY <1>2, <1>3 DEF Active
<1>. QED BY <1>1, <1>4 DEF StopsAlone, Reached

\* Every step keeps what stops have reached.
LEMMA StopStep == OnePort /\ StopContext /\ [Next]_vars => StopInv'
<1>. SUFFICES ASSUME OnePort, StopContext, [Next]_vars,
                     NEW c \in Clis, clean'[c], cli'[c].pc # "idle"
              PROVE  StopsAlone(c)'
  BY DEF StopInv
<1>. TypeOK
  BY DEF StopContext
<1>0. ASSUME clean[c], cli'[c] = cli[c] PROVE StopsAlone(c)
  BY <1>0 DEF StopContext, StopInv
<1>1. CASE Stop(c)
  BY <1>1, StopLooks, StopGoesOn
<1>2. ~Start(c)
  <2>. SUFFICES ASSUME Start(c) PROVE FALSE
    OBVIOUS
  <2>1. ~StartLock(c)
    BY DEF StartLock, Disturbed
  <2>2. clean[c] /\ cli[c].pc \in {"status", "port", "spawn", "poll", "load"}
    BY <2>1 DEF Start, StartStatus, StartPort, StartSpawn, StartUp, StartLate, StartLoad, StartEnd, ghost
  <2>. QED BY <2>2 DEF StopContext, StopInv, StopsAlone, Stopping
<1>3. ~Interrupt(c)
  <2>. SUFFICES ASSUME Interrupt(c) PROVE FALSE
    OBVIOUS
  <2>1. cli'[c].pc = "idle"
    BY DEF Interrupt, End, TypeOK, Resting
  <2>. QED BY <2>1
<1>4. ASSUME NEW d \in Clis, d # c, Start(d) \/ Stop(d) \/ Interrupt(d) PROVE FALSE
  <2>1. ~StartLock(d) /\ ~StopStatus(d)
    BY <1>4 DEF StartLock, StopStatus, Disturbed
  <2>2. clean[c] /\ cli[d].pc # "idle" /\ cli'[c] = cli[c]
    BY <1>4, <2>1 DEF TypeOK, Start, StartStatus, StartPort, StartSpawn, StartUp, StartLate, StartLoad,
           StartEnd, StartLoaded, Stop, StopPost, StopFreed, StopSigterm, StopUnlinkGateway, StopTunnel,
           StopEnd, StopRest, Interrupt, CliGoes, End, ghost
  <2>. QED BY <1>0, <1>4, <2>2 DEF StopsAlone
<1>5. ASSUME NEW g \in Gateways, GatewaySteps(g) PROVE StopsAlone(c)'
  <2>1. UNCHANGED <<cli, clean>>
    BY <1>5 DEF GatewaySteps, ServeGateway, GatewayWritePid, GatewayBind, GatewayUnlink, GatewayExit,
           Retire, GatewayUse, Kill, ghost
  <2>. QED BY <1>0, <1>5, <2>1, StopBesideGateway
<1>6. ASSUME NEW r \in Relays, ServeRelay(r),
             UNCHANGED <<process, cli, cli_lock, commands, crashes, ghost>>
      PROVE  StopsAlone(c)'
  <2>1. UNCHANGED crossed
    BY <1>6 DEF ServeRelay, RelayBind, RelayWritePid, RelayReady, RelayUnlink, RelayExit
  <2>. QED BY <1>0, <1>6, <2>1, StopBesideRelay DEF ghost
<1>7. ASSUME NEW r \in Relays, KillRelay(r) PROVE StopsAlone(c)'
  BY <1>0, <1>7, StopBesideRelay DEF KillRelay, RelayCrash, ghost
<1>8. CASE UNCHANGED vars
  BY <1>0, <1>8 DEF vars, ghost, process, tunnel, StopsAlone, Reached, GatewaysAlive, ComingUp, Active
<1>. QED BY <1>1, <1>2, <1>3, <1>4, <1>5, <1>6, <1>7, <1>8 DEF Next, GatewaySteps

\* With one port, when wingpu stop is through and nothing was started beside it,
\* no gateway is left, nor a relay that somebody could still reach.
THEOREM StopStopsAlways == ASSUME OnePort PROVE Spec => []StopStops
<1>1. Init => NamedInv /\ StopInv
  BY DEF Init, RelayInit, NamedInv, Active, Looked, StopInv
<1>2. StopContext /\ [Next]_vars => (NamedInv /\ StopInv)'
  BY NamedStep, StopStep DEF StopContext
<1>3. StopContext => StopStops
  <2>. SUFFICES ASSUME StopContext, NEW c \in Clis, cli[c].pc = "done", clean[c], ~hasty
                PROVE  GatewaysAlive = {} /\ (~crossed => Listening = {})
    BY DEF StopStops
  <2>1. Reached(c)
    BY DEF StopContext, StopInv, StopsAlone
  <2>. QED BY <2>1 DEF Reached, Active, Listening
<1>. QED BY <1>1, <1>2, <1>3, PidKept, PTL DEF Spec, StopContext
=============================================================================
