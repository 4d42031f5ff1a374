----------------------------- MODULE LeaseClient -----------------------------
(***************************************************************************)
(* The clients of the GPU broker: what wingpu does around a load           *)
(* (wingpu_cli/main.py: ensure_runtime_loaded, acquire_gpu_lease,          *)
(* reassert_gpu_lease, release_gpu_lease, ensure_broker_installed) and what*)
(* a sibling does through LeaseSession (gpubroker/lease.py), both by       *)
(* calling the broker over ssh (gpubroker/client.py).  A call may fail,    *)
(* lose its answer, or time out and be carried out later; the broker's     *)
(* script may be missing, old, or half uploaded.                           *)
(*                                                                         *)
(* The broker itself is the one of module Lease, with evictions as one     *)
(* step.  It keeps a lease that was granted just now (the graces of        *)
(* GpuBroker), and forgets one whose server is dead or idle.               *)
(***************************************************************************)
EXTENDS Naturals, FiniteSets

CONSTANTS
    Runtimes, Nobody,
    Clients,     \* processes that load and unload a runtime
    Of,          \* Of[c]: the runtime of client c
    Wingpu,      \* clients that are wingpu: they install the broker
    Faults,      \* what may go wrong with a call: "unreach", "lost", "timeout"
    MaxFaults,   \* bound: how often it does
    MaxLoads     \* bound: how many loads begin

ASSUME ClientsAssumption ==
    /\ Nobody \notin Runtimes /\ Of \in [Clients -> Runtimes] /\ Wingpu \subseteq Clients
    /\ MaxFaults \in Nat /\ MaxLoads \in Nat

VARIABLES
    script,   \* gpu_broker.py in WSL
    holder,   \* the broker's row
    server,   \* the runtimes whose server runs
    warned,   \* those whose server was last started or kept by a process that was
              \* told, or warned, that it has no lease
    pc,       \* pc[c]: where client c is
    mode,     \* mode[c]: "load", or "keep" a server that runs
    tries,    \* tries[c]: the acquires of this load
    answer,   \* answer[c]: what the last acquire came to
    late,     \* calls whose caller has given up and which may still be carried out
    faults, loads,
    lost,     \* history: runtimes whose lease was forced away, or was released
              \* while their server ran or was about to: by somebody else, late,
              \* or by its own client after a stop that failed
    excused   \* history: clients whose load saw a fault or another's upload

broker == <<holder, server, late, lost>>
client == <<pc, mode, tries, answer>>
vars   == <<script, broker, warned, client, faults, loads, excused>>

Go(c, to) == pc' = [pc EXCEPT ![c] = to]
Peers(r) == {c \in Clients : Of[c] = r}
Working == {c \in Clients : pc[c] # "idle"}

\* A process that was granted the lease is about to start its server.
Fresh(r) == \E c \in Peers(r) : answer[c] = "granted" /\ pc[c] \in {"answered", "start"}

Uploading == {c \in Clients : pc[c] = "upload"}
script_works == script \in {"old", "current"}

Hit(kind) == kind \in Faults /\ faults < MaxFaults /\ faults' = faults + 1
NoFault == UNCHANGED <<faults, excused>>
Excuse == excused' = Clients

-----------------------------------------------------------------------------
(* The broker's commands *)

Grant(r) == holder' = r /\ lost' = lost \ {r}

\* An acquire for r, and what it answers.  A holder that is busy or was granted
\* the card just now keeps it, unless the acquire is forced.
AcquireRuns(r, no_evict, force, result) ==
    \/ /\ holder \in {Nobody, r} /\ result = "granted"
       /\ Grant(r) /\ UNCHANGED server
    \/ /\ holder \notin {Nobody, r} /\ ~no_evict /\ ~Fresh(holder) /\ result = "granted"
       /\ Grant(r) /\ server' = server \ {holder}
    \/ /\ holder \notin {Nobody, r} /\ ~no_evict /\ Fresh(holder) /\ force /\ result = "granted"
       /\ holder' = r /\ lost' = (lost \ {r}) \cup {holder}
       /\ server' = server \ {holder}
    \/ /\ holder \notin {Nobody, r} /\ result = "denied"
       /\ UNCHANGED <<holder, server, lost>>

\* A release for r; others are r's processes besides the caller.
ReleaseRuns(r, others) ==
    /\ holder' = IF holder = r THEN Nobody ELSE holder
    /\ lost' = IF holder = r /\ (r \in server \/ others \cap Working # {}) THEN lost \cup {r} ELSE lost
    /\ UNCHANGED server

\* The watchdog, or another acquire, finds the holder dead or idle.
Reclaim ==
    /\ holder # Nobody /\ ~Fresh(holder)
    /\ server' = server \ {holder} /\ holder' = Nobody
    /\ UNCHANGED <<script, late, lost, warned, client, faults, loads, excused>>

\* A call that its caller gave up on reaches the broker after all.
LateCall ==
    /\ script_works
    /\ \E call \in late :
          /\ late' = late \ {call}
          /\ \/ /\ call[1] \in {"acquire", "force", "reassert"}
                /\ \E result \in {"granted", "denied"} :
                      AcquireRuns(call[2], call[1] = "reassert", call[1] = "force", result)
             \/ call[1] = "release" /\ ReleaseRuns(call[2], Peers(call[2]))
    /\ UNCHANGED <<script, warned, client, faults, loads, excused>>

-----------------------------------------------------------------------------
(* gpubroker/client.py *)

\* The command that a call left to itself carries out there.
Left(no_evict, force) == IF no_evict THEN "reassert" ELSE IF force THEN "force" ELSE "acquire"

\* The last JSON line printed, or nothing: no script, no connection, no answer.
\* A runner that gives up leaves the call to itself.
AcquireCall(c, no_evict, force) ==
    \/ /\ script_works /\ NoFault
       /\ \E result \in {"granted", "denied"} :
             AcquireRuns(Of[c], no_evict, force, result) /\ answer' = [answer EXCEPT ![c] = result]
       /\ UNCHANGED late
    \/ /\ ~script_works /\ NoFault
       /\ answer' = [answer EXCEPT ![c] = "none"]
       /\ UNCHANGED broker
    \/ /\ Hit("unreach") /\ Excuse
       /\ answer' = [answer EXCEPT ![c] = "none"]
       /\ UNCHANGED broker
    \/ /\ script_works /\ Hit("lost") /\ Excuse
       /\ \E result \in {"granted", "denied"} : AcquireRuns(Of[c], no_evict, force, result)
       /\ answer' = [answer EXCEPT ![c] = "none"]
       /\ UNCHANGED late
    \/ /\ Hit("timeout") /\ Excuse
       /\ answer' = [answer EXCEPT ![c] = "timeout"]
       /\ late' = late \cup {<<Left(no_evict, force), Of[c]>>}
       /\ UNCHANGED <<holder, server, lost>>

\* ensure_installed: a broker of another version, or none that answers, is
\* replaced by who may; the others only report it.
EnsureInstalled(c) ==
    /\ pc[c] = "install"
    /\ \/ NoFault /\ Go(c, IF script = "current" THEN "installed" ELSE IF c \in Wingpu THEN "write" ELSE "refused")
       \/ Hit("unreach") /\ Excuse /\ Go(c, IF c \in Wingpu THEN "write" ELSE "refused")
       \/ Hit("timeout") /\ Excuse /\ Go(c, "refused")
    /\ UNCHANGED <<script, broker, warned, mode, tries, answer, loads>>

\* write_remote_file: cat truncates the file that others may be running.
WriteBegin(c) ==
    /\ pc[c] = "write" /\ Go(c, "upload")
    /\ script' = "partial"
    /\ excused' = excused \cup {o \in Clients : o # c \/ Uploading # {}}
    /\ UNCHANGED <<broker, warned, mode, tries, answer, faults, loads>>

\* It ends with the whole file, if nobody else has truncated it meanwhile, or
\* is cut off, which raises InstallError.
WriteEnd(c) ==
    /\ pc[c] = "upload"
    /\ \/ /\ NoFault /\ Go(c, "verify")
          /\ script' = IF Uploading = {c} THEN "current" ELSE "partial"
       \/ (Hit("unreach") \/ Hit("timeout")) /\ Excuse /\ Go(c, "refused") /\ UNCHANGED script
    /\ UNCHANGED <<broker, warned, mode, tries, answer, loads>>

\* The uploaded broker must tell its version, or InstallError is raised.
Verify(c) ==
    /\ pc[c] = "verify"
    /\ \/ NoFault /\ Go(c, IF script_works THEN "installed" ELSE "refused")
       \/ (Hit("unreach") \/ Hit("timeout")) /\ Excuse /\ Go(c, "refused")
    /\ UNCHANGED <<script, broker, warned, mode, tries, answer, loads>>

-----------------------------------------------------------------------------
(* A load *)

\* What a load forgets of the one before.
NewLoad(c) ==
    /\ tries' = [tries EXCEPT ![c] = 0] /\ answer' = [answer EXCEPT ![c] = "none"]
    /\ excused' = IF Uploading = {} THEN excused \ {c} ELSE excused \cup {c}
    /\ loads < MaxLoads /\ loads' = loads + 1

\* stop_remote_runtime: the exit status of ssh is not looked at, so the caller goes
\* on after a stop that failed; a call that times out raises, and the server may
\* still be stopped by it later (ServerDies).
Stopped(c) == server' = server \ {Of[c]} /\ UNCHANGED faults
StopFails(c) == Of[c] \in server /\ Hit("unreach") /\ UNCHANGED server
StopRaises(c) == Of[c] \in server /\ Hit("timeout") /\ UNCHANGED server

\* ensure_runtime_loaded: a server that runs is kept, unless the caller wants a
\* restart, which stops it first.
WingpuLoad(c) ==
    /\ pc[c] = "idle" /\ c \in Wingpu /\ NewLoad(c)
    /\ \/ /\ Of[c] \in server /\ UNCHANGED <<server, faults>>
          /\ mode' = [mode EXCEPT ![c] = "keep"] /\ Go(c, "install")
       \/ /\ Stopped(c) \/ StopFails(c)
          /\ mode' = [mode EXCEPT ![c] = "load"] /\ Go(c, "acquire")
       \/ /\ StopRaises(c)
          /\ mode' = [mode EXCEPT ![c] = "load"] /\ Go(c, "failed")
    /\ UNCHANGED <<script, holder, late, lost, warned>>

\* LeaseSession.acquire, as a sibling that is about to start calls it, looks at
\* the broker first.
SiblingLoad(c) ==
    /\ pc[c] = "idle" /\ c \notin Wingpu /\ Of[c] \notin server /\ NewLoad(c)
    /\ mode' = [mode EXCEPT ![c] = "load"] /\ Go(c, "install")
    /\ UNCHANGED <<script, broker, warned, faults>>

\* ensure_installed is through: acquire, or for a server that runs the reassert.
Installed(c) ==
    /\ pc[c] = "installed" /\ Go(c, "acquire")
    /\ UNCHANGED <<script, broker, warned, mode, tries, answer, faults, loads, excused>>

\* It failed: a warning, and on without a lease.
Refused(c) ==
    /\ pc[c] = "refused" /\ Go(c, "start")
    /\ answer' = [answer EXCEPT ![c] = "none"]
    /\ UNCHANGED <<script, broker, warned, mode, tries, faults, loads, excused>>

Acquire(c) ==
    /\ pc[c] = "acquire" /\ Go(c, "answered")
    /\ tries' = [tries EXCEPT ![c] = @ + 1]
    /\ \/ mode[c] = "keep" /\ AcquireCall(c, TRUE, FALSE)
       \/ mode[c] = "load" /\ \E force \in BOOLEAN : AcquireCall(c, FALSE, force)
    /\ UNCHANGED <<script, warned, mode, loads>>

\* Mutant: an answer is an answer.
DeniedAnyway(c) == FALSE

\* Denied, a load is off; who keeps a server only gets a warning.
Denied(c) == mode[c] = "load" /\ answer[c] = "denied"

\* wingpu's runner raises when a call times out, and acquire_gpu_lease does not
\* catch that, though a reassert and LeaseSession do.
Raised(c) == mode[c] = "load" /\ answer[c] = "timeout" /\ c \in Wingpu

\* Mutant: the broker is installed, and the load goes on without asking it.
RetriesNever(c) == FALSE

\* Mutant: it is asked until it answers.
RetriesAgain(c) == mode[c] = "load" /\ answer[c] = "none" /\ c \in Wingpu

\* Nothing came back: wingpu installs the broker and asks once more.
Retries(c) == mode[c] = "load" /\ answer[c] = "none" /\ c \in Wingpu /\ tries[c] = 1

Answered(c) ==
    /\ pc[c] = "answered"
    /\ Go(c, IF Denied(c) \/ Raised(c) THEN "failed" ELSE IF Retries(c) THEN "install" ELSE "start")
    /\ UNCHANGED <<script, broker, warned, mode, tries, answer, faults, loads, excused>>

\* A call that came to nothing is warned of, or tells so by a result of None; so is
\* a server that is kept while another runtime has the lease.
Warns(c) == answer[c] \in {"none", "timeout"} \/ (mode[c] = "keep" /\ answer[c] = "denied")

\* The server starts, or is kept.
Start(c) ==
    /\ pc[c] = "start" /\ Go(c, "idle")
    /\ server' = IF mode[c] = "load" THEN server \cup {Of[c]} ELSE server
    /\ warned' = IF Warns(c) THEN warned \cup {Of[c]} ELSE warned \ {Of[c]}
    /\ UNCHANGED <<script, holder, late, lost, mode, tries, answer, faults, loads, excused>>

Failed(c) ==
    /\ pc[c] = "failed" /\ Go(c, "idle")
    /\ UNCHANGED <<script, broker, warned, mode, tries, answer, faults, loads, excused>>

-----------------------------------------------------------------------------
(* An unload *)

\* An offload, wingpu stop, or a sibling's stop: first the server, and whatever
\* became of it but a raise, then the lease.
Unload(c) ==
    /\ pc[c] = "idle"
    /\ \/ (Stopped(c) \/ StopFails(c)) /\ Go(c, "release")
       \/ StopRaises(c) /\ UNCHANGED pc
    /\ UNCHANGED <<script, holder, late, lost, warned, mode, tries, answer, loads, excused>>

\* The release carries no token, and whatever becomes of it is ignored.
Release(c) ==
    /\ pc[c] = "release" /\ Go(c, "idle")
    /\ \/ script_works /\ ReleaseRuns(Of[c], Peers(Of[c]) \ {c}) /\ UNCHANGED <<late, faults, excused>>
       \/ ~script_works /\ UNCHANGED <<broker, faults, excused>>
       \/ Hit("unreach") /\ Excuse /\ UNCHANGED broker
       \/ /\ Hit("timeout") /\ Excuse
          /\ late' = late \cup {<<"release", Of[c]>>} /\ UNCHANGED <<holder, server, lost>>
    /\ UNCHANGED <<script, warned, mode, tries, answer, loads>>

ServerDies ==
    /\ \E r \in server : server' = server \ {r}
    /\ UNCHANGED <<script, holder, late, lost, warned, client, faults, loads, excused>>

-----------------------------------------------------------------------------
(* The specification *)

Init ==
    /\ script \in {"missing", "old", "current"}
    /\ holder = Nobody /\ server = {} /\ warned = {}
    /\ pc = [c \in Clients |-> "idle"] /\ mode = [c \in Clients |-> "load"]
    /\ tries = [c \in Clients |-> 0] /\ answer = [c \in Clients |-> "none"]
    /\ late = {} /\ lost = {} /\ excused = {}
    /\ faults = 0 /\ loads = 0

Install(c) == EnsureInstalled(c) \/ WriteBegin(c) \/ WriteEnd(c) \/ Verify(c)

Load(c) == \/ Installed(c) \/ Refused(c) \/ Acquire(c) \/ Answered(c) \/ Start(c) \/ Failed(c)

Next ==
    \/ \E c \in Clients : \/ WingpuLoad(c) \/ SiblingLoad(c) \/ Install(c) \/ Load(c)
                          \/ Unload(c) \/ Release(c)
    \/ Reclaim \/ LateCall \/ ServerDies

Spec == Init /\ [][Next]_vars

-----------------------------------------------------------------------------
(* Properties *)

\* Every variable has its type.
TypeOK ==
    /\ script \in {"missing", "old", "partial", "current"}
    /\ holder \in Runtimes \cup {Nobody}
    /\ server \subseteq Runtimes /\ warned \subseteq Runtimes /\ lost \subseteq Runtimes
    /\ pc \in [Clients -> {"idle", "install", "write", "upload", "verify", "installed", "refused",
                           "acquire", "answered", "start", "failed", "release"}]
    /\ mode \in [Clients -> {"load", "keep"}]
    /\ tries \in [Clients -> 0..2]
    /\ answer \in [Clients -> {"none", "granted", "denied", "timeout"}]
    /\ late \subseteq {"acquire", "force", "reassert", "release"} \X Runtimes
    /\ excused \subseteq Clients
    /\ faults \in 0..MaxFaults /\ loads \in 0..MaxLoads

\* A server that runs without a warning has the lease, so two of them never
\* share the card unnoticed, whatever calls are lost, late or repeated, with two
\* exceptions (lost): a forced acquire took it from a process about to start; or
\* it was released under the server, by a call carried out late, by another
\* process of the same runtime, or by its own client, which does not look whether
\* the stop before its release went well.
LeaseHeld == \A r \in server : r \in warned \/ r \in lost \/ holder = r

\* wingpu goes without a lease only if one of its calls failed, or somebody else
\* was uploading: a missing, old or broken script is repaired and asked again.
WarnedForReason ==
    [][ \A c \in Wingpu : Start(c) /\ answer[c] \notin {"granted", "denied"} => c \in excused ]_vars
=============================================================================
