------------------------------- MODULE Gateway -------------------------------
(***************************************************************************)
(* The model gateway (wingpu_cli/main.py): GatewayCoordinator and its      *)
(* request handler.  Threads share the coordinator's fields under          *)
(* state_lock and everything slow under start_lock; start_lock is taken    *)
(* first.  What a thread does under state_lock is one action; what it does *)
(* under start_lock is a sequence of actions, each one remote call.  The   *)
(* remote end is a llama server and a local relay to it.                   *)
(*                                                                         *)
(* The limits of time (how long a verification counts, how long idle is)   *)
(* are not counted: a verification may lapse, and the gateway may find     *)
(* itself idle long enough, at any moment.                                 *)
(***************************************************************************)
EXTENDS Naturals, FiniteSets

CONSTANTS
    Requests,     \* handler threads, each serving one request after another
    Safe,         \* those whose method is GET, HEAD or OPTIONS
    Admins,       \* handler threads of POST /__wingpu/offload
    Idlers,       \* the idle loop's thread, if idle offload is enabled
    Probers,      \* the thread of probe_runtime_state, run once
    NoThread,
    Faults,       \* what may go wrong from outside, see Hit
    MaxFaults     \* bound: how often it does

Offloaders == Admins \cup Idlers
Threads == Requests \cup Offloaders \cup Probers

ASSUME ThreadsAssumption ==
    /\ IsFiniteSet(Requests) /\ Safe \subseteq Requests /\ NoThread \notin Threads
    /\ Requests \cap (Offloaders \cup Probers) = {}
    /\ Admins \cap Idlers = {} /\ Probers \cap Offloaders = {}
ASSUME FaultsAssumption == MaxFaults \in Nat

VARIABLES
    pc,          \* pc[t]: where thread t is
    job,         \* job[r]: why r wants start_lock: "load", "refresh" or "recover"
    attempt,     \* attempt[r]: the call of _proxy_once that r is at: 1, 2 or 3
    conn,        \* conn[r]: r's connection to the server, through the relay
    runs,        \* runs[r]: how often the server took up r's request
    heads,       \* heads[r]: how many status lines r's client was sent
    start_lock,  \* the thread that holds start_lock
    active,      \* active_requests
    loaded,      \* runtime_loaded
    offloading,  \* the flag of that name
    verified,    \* last_runtime_verified_at is set and within its TTL
    started,     \* last_runtime_start_at is set
    finished,    \* last_request_finished_at is set
    offloaded,   \* last_offload_at is set
    seen,        \* what the prober's remote call answered
    server,      \* the llama server runs
    relay,       \* the relay listens
    lease,       \* the broker's row names this runtime
    faults       \* faults so far

handler == <<job, attempt, conn, runs, heads>>
belief  == <<active, loaded, offloading, verified, started, finished, offloaded>>
remote  == <<server, relay, lease>>
vars == <<pc, handler, start_lock, belief, seen, remote, faults>>

-----------------------------------------------------------------------------
(* Helpers *)

Go(t, to) == pc' = [pc EXCEPT ![t] = to]

Lock(t) == start_lock = NoThread /\ start_lock' = t
Unlock == start_lock' = NoThread

\* _runtime_recently_verified.
recently_verified == ~offloading /\ loaded /\ verified

\* _mark_runtime_verified.
MarkVerified == /\ loaded' = TRUE /\ verified' = TRUE /\ started' = TRUE
                /\ UNCHANGED <<active, offloading, finished, offloaded>>

\* Whatever went through the relay to the server is cut off.
Cut == conn' = [r \in Requests |-> IF conn[r] = "open" THEN "broken" ELSE conn[r]]

\* Something outside the gateway goes wrong: "ssh" fails with an exit status,
\* which most callers do not look at, or it hangs until the call times out,
\* which raises in all of them; the others are named where they occur.
Hit(kind) == kind \in Faults /\ faults < MaxFaults /\ faults' = faults + 1

\* stop_remote_runtime; an exit status of ssh is ignored.
stop_remote_runtime ==
    \/ server' = FALSE /\ Cut /\ UNCHANGED faults
    \/ Hit("ssh") /\ UNCHANGED <<server, conn>>

\* Mutant: the failure is reported whether or not the response has begun.
ReplyErrorAlways(r) == heads' = [heads EXCEPT ![r] = @ + 1]

\* _fail: an error goes to the client unless a response has begun.
ReplyError(r) == heads' = [heads EXCEPT ![r] = IF @ = 0 THEN 1 ELSE @]

-----------------------------------------------------------------------------
(* A request: _proxy *)

Begin(r) ==
    /\ pc[r] = "idle" /\ Go(r, "body")
    /\ active' = active + 1
    /\ attempt' = [attempt EXCEPT ![r] = 1]
    /\ job' = [job EXCEPT ![r] = "load"]
    /\ runs' = [runs EXCEPT ![r] = 0] /\ heads' = [heads EXCEPT ![r] = 0]
    /\ UNCHANGED <<conn, start_lock, loaded, offloading, verified, started, finished,
                   offloaded, seen, remote, faults>>

\* The client's body comes in whole, or it does not.
ReadBody(r) ==
    /\ pc[r] = "body"
    /\ \/ Go(r, "ensure") /\ UNCHANGED heads
       \/ Go(r, "end") /\ ReplyError(r)
    /\ UNCHANGED <<job, attempt, conn, runs, start_lock, belief, seen, remote, faults>>

\* Mutant: a request that failed stays on the count.
EndAnswered(r) ==
    /\ pc[r] = "end" /\ Go(r, "idle")
    /\ active' = IF runs[r] = 0 THEN active ELSE active - 1
    /\ finished' = TRUE
    /\ UNCHANGED <<handler, start_lock, loaded, offloading, verified, started, offloaded,
                   seen, remote, faults>>

End(r) ==
    /\ pc[r] = "end" /\ Go(r, "idle")
    /\ active' = active - 1
    /\ finished' = TRUE
    /\ UNCHANGED <<handler, start_lock, loaded, offloading, verified, started, offloaded,
                   seen, remote, faults>>

-----------------------------------------------------------------------------
(* ensure_runtime_loaded, refresh_backend_tunnel and                       *)
(* recover_runtime_after_proxy_error                                       *)

HotPath(r) ==
    /\ pc[r] = "ensure" /\ recently_verified /\ Go(r, "connect")
    /\ UNCHANGED <<handler, start_lock, belief, seen, remote, faults>>

ColdPath(r) ==
    /\ pc[r] = "ensure" /\ ~recently_verified
    /\ Go(r, "lock") /\ job' = [job EXCEPT ![r] = "load"]
    /\ UNCHANGED <<attempt, conn, runs, heads, start_lock, belief, seen, remote, faults>>

\* start_lock is r's: another thread may have loaded the model meanwhile.
LoadedMeanwhile(r) ==
    /\ pc[r] = "lock" /\ job[r] = "load" /\ start_lock = NoThread
    /\ recently_verified /\ Go(r, "connect")
    /\ UNCHANGED <<handler, start_lock, belief, seen, remote, faults>>

\* Mutant: the load does not take the lock.
LoadUnlocked(r) ==
    /\ pc[r] = "lock" /\ job[r] = "load" /\ UNCHANGED start_lock
    /\ ~recently_verified /\ Go(r, "tunnel")
    /\ UNCHANGED <<handler, belief, seen, remote, faults>>

LoadBegin(r) ==
    /\ pc[r] = "lock" /\ job[r] = "load" /\ Lock(r)
    /\ ~recently_verified /\ Go(r, "tunnel")
    /\ UNCHANGED <<handler, belief, seen, remote, faults>>

RefreshBegin(r) ==
    /\ pc[r] = "lock" /\ job[r] = "refresh" /\ Lock(r) /\ Go(r, "stop_tunnel")
    /\ verified' = FALSE
    /\ UNCHANGED <<handler, active, loaded, offloading, started, finished, offloaded,
                   seen, remote, faults>>

RecoverBegin(r) ==
    /\ pc[r] = "lock" /\ job[r] = "recover" /\ Lock(r) /\ Go(r, "stop_runtime")
    /\ loaded' = FALSE
    /\ UNCHANGED <<handler, active, offloading, verified, started, finished, offloaded,
                   seen, remote, faults>>

StopRuntime(r) ==
    /\ pc[r] = "stop_runtime" /\ Go(r, "stop_tunnel")
    /\ stop_remote_runtime
    /\ UNCHANGED <<job, attempt, runs, heads, start_lock, belief, seen, relay, lease>>

StopTunnel(r) ==
    /\ pc[r] = "stop_tunnel" /\ Go(r, "tunnel")
    /\ relay' = FALSE /\ Cut
    /\ UNCHANGED <<job, attempt, runs, heads, start_lock, belief, seen, server, lease, faults>>

\* ensure_backend_tunnel; a refresh ends with it and tries the request again.
EnsureTunnel(r) ==
    /\ pc[r] = "tunnel" /\ relay' = TRUE
    /\ IF job[r] = "refresh" THEN Go(r, "ensure") /\ Unlock
                             ELSE Go(r, "process") /\ UNCHANGED start_lock
    /\ UNCHANGED <<handler, belief, seen, server, lease, faults>>

\* Mutant: after the load the request looks again whether it is verified.
UseRunningLooksAgain(r) ==
    /\ pc[r] = "process" /\ server /\ job[r] = "load"
    /\ lease' \in {lease, TRUE}
    /\ MarkVerified /\ Unlock /\ Go(r, "ensure")
    /\ UNCHANGED <<handler, seen, server, relay, faults>>

\* The process is alive: use it, and assert the lease if it is free or ours.
UseRunning(r) ==
    /\ pc[r] = "process" /\ server /\ job[r] = "load"
    /\ lease' \in {lease, TRUE}
    /\ MarkVerified /\ Unlock /\ Go(r, "connect")
    /\ UNCHANGED <<handler, seen, server, relay, faults>>

\* A forced restart finds the process alive again, and stops it once more; whether
\* that works or not, the relay goes down and comes up again.
StopAgain(r) ==
    /\ pc[r] = "process" /\ server /\ job[r] = "recover"
    /\ \/ server' = FALSE /\ UNCHANGED faults
       \/ Hit("ssh") /\ UNCHANGED server
    /\ Cut /\ relay' = TRUE
    /\ Go(r, "acquire")
    /\ UNCHANGED <<job, attempt, runs, heads, start_lock, belief, seen, lease>>

\* runtime_process_info reads a failed call as a process that does not run.
NotRunning(r) ==
    /\ pc[r] = "process" /\ Go(r, "acquire")
    /\ (~server /\ UNCHANGED faults) \/ Hit("ssh")
    /\ UNCHANGED <<handler, start_lock, belief, seen, remote>>

\* acquire_gpu_lease: granted, or no answer from the broker.
AcquireLease(r) ==
    /\ pc[r] = "acquire" /\ Go(r, "start")
    /\ \/ lease' = TRUE /\ UNCHANGED faults
       \/ lease' = lease /\ Hit("broker")
    /\ UNCHANGED <<handler, start_lock, belief, seen, server, relay>>

StartServer(r) ==
    /\ pc[r] = "start" /\ Go(r, "wait")
    /\ server' = TRUE
    /\ UNCHANGED <<handler, start_lock, belief, seen, relay, lease, faults>>

\* wait_for_backend_api; after a recovery the last attempt begins.
Ready(r) ==
    /\ pc[r] = "wait" /\ server /\ relay
    /\ MarkVerified /\ Unlock
    /\ Go(r, IF job[r] = "recover" THEN "ensure" ELSE "connect")
    /\ UNCHANGED <<handler, seen, remote, faults>>

\* What raises under start_lock: the broker denies the lease, the server does
\* not come up in time, a call times out, or it fails where that is looked at,
\* in the check of the connection or in the start of the server.  A stop or a start
\* that times out here is not carried out there later.
Raises(r) ==
    \/ pc[r] = "acquire" /\ UNCHANGED faults
    \/ pc[r] = "wait" /\ ((~(server /\ relay) /\ UNCHANGED faults) \/ Hit("slow"))
    \/ pc[r] \in {"stop_runtime", "stop_tunnel", "tunnel", "process", "start"} /\ Hit("hang")
    \/ pc[r] \in {"stop_runtime", "start"} /\ Hit("ssh")
    \/ pc[r] = "tunnel" /\ job[r] = "load" /\ Hit("ssh")

LoadFails(r) ==
    /\ Raises(r) /\ Unlock /\ Go(r, "end") /\ ReplyError(r)
    /\ UNCHANGED <<job, attempt, conn, runs, belief, seen, remote>>

-----------------------------------------------------------------------------
(* _proxy_once on the wire, and _proxy_with_recovery after it *)

\* Mutant: whatever was sent is sent again.
CanRetryAny(r, stage) == stage # "stream"

\* _can_retry_proxy_attempt: nothing was sent, or the method is harmless.
can_retry(r, stage) == stage = "connect" \/ r \in Safe

\* The attempt failed at a stage: rebuild the relay, or recover the runtime, or
\* give up, as it must at the third attempt, when it cannot retry, and on an
\* error of a kind that is not retried.
AttemptFails(r, stage) ==
    /\ conn' = [conn EXCEPT ![r] = "none"]
    /\ \/ /\ attempt[r] = 1 /\ stage = "connect"
          /\ attempt' = [attempt EXCEPT ![r] = 2]
          /\ job' = [job EXCEPT ![r] = "refresh"]
          /\ Go(r, "lock") /\ UNCHANGED heads
       \/ /\ can_retry(r, stage)
          /\ attempt[r] = 2 \/ (attempt[r] = 1 /\ stage # "connect")
          /\ attempt' = [attempt EXCEPT ![r] = 3]
          /\ job' = [job EXCEPT ![r] = "recover"]
          /\ Go(r, "lock") /\ UNCHANGED heads
       \/ ReplyError(r) /\ Go(r, "end") /\ UNCHANGED <<attempt, job>>
    /\ UNCHANGED <<runs, start_lock, belief, seen, remote>>

\* The relay accepts a connection whether or not the server is there.
Connect(r) ==
    /\ pc[r] = "connect" /\ relay /\ Go(r, "send")
    /\ conn' = [conn EXCEPT ![r] = IF server THEN "open" ELSE "broken"]
    /\ UNCHANGED <<job, attempt, runs, heads, start_lock, belief, seen, remote, faults>>

ConnectFails(r) ==
    pc[r] = "connect" /\ ~relay /\ AttemptFails(r, "connect") /\ UNCHANGED faults

Send(r) ==
    /\ pc[r] = "send" /\ conn[r] = "open" /\ Go(r, "await")
    /\ runs' = [runs EXCEPT ![r] = @ + 1]
    /\ UNCHANGED <<job, attempt, conn, heads, start_lock, belief, seen, remote, faults>>

\* A request written to a broken connection may be lost without an error.
SendFails(r) ==
    /\ pc[r] = "send" /\ conn[r] = "broken" /\ UNCHANGED faults
    /\ \/ AttemptFails(r, "send")
       \/ Go(r, "await") /\ UNCHANGED <<handler, start_lock, belief, seen, remote>>

Respond(r) ==
    /\ pc[r] = "await" /\ conn[r] = "open" /\ Go(r, "stream")
    /\ heads' = [heads EXCEPT ![r] = @ + 1]
    /\ UNCHANGED <<job, attempt, conn, runs, start_lock, belief, seen, remote, faults>>

\* No response: the connection broke, or request_timeout_seconds passed.
AwaitFails(r) ==
    /\ pc[r] = "await"
    /\ \/ conn[r] = "broken" /\ UNCHANGED faults
       \/ conn[r] = "open" /\ Hit("slow")
    /\ AttemptFails(r, "await")

\* The body ends, by itself or because the connection broke; or reading or
\* writing it fails, and then nothing more is written.
Stream(r) ==
    /\ pc[r] = "stream"
    /\ \/ /\ Go(r, "end") /\ conn' = [conn EXCEPT ![r] = "none"]
          /\ UNCHANGED <<job, attempt, runs, heads, start_lock, belief, seen, remote>>
       \/ ReplyError(r) /\ Go(r, "end") /\ conn' = [conn EXCEPT ![r] = "none"]
          /\ UNCHANGED <<job, attempt, runs, start_lock, belief, seen, remote>>
    /\ UNCHANGED faults

-----------------------------------------------------------------------------
(* offload_runtime and maybe_idle_offload *)

OffloadBegin(t) ==
    /\ pc[t] = "watch" /\ t \in Admins /\ Lock(t) /\ active = 0
    /\ offloading' = TRUE /\ verified' = FALSE
    /\ Go(t, "t_stop")
    /\ UNCHANGED <<handler, active, loaded, started, finished, offloaded, seen, remote, faults>>

\* Mutant: without a request so far there is nothing to be idle after.
IdleCheckUsed(t) ==
    /\ pc[t] = "watch" /\ t \in Idlers /\ Lock(t)
    /\ active = 0 /\ loaded /\ finished
    /\ Go(t, "commit")
    /\ UNCHANGED <<handler, belief, seen, remote, faults>>

\* The idle loop tries start_lock without waiting, and looks once ...
IdleCheck(t) ==
    /\ pc[t] = "watch" /\ t \in Idlers /\ Lock(t)
    /\ active = 0 /\ loaded /\ (finished \/ started)
    /\ Go(t, "commit")
    /\ UNCHANGED <<handler, belief, seen, remote, faults>>

\* Mutant: the second look is left out.
IdleCommitBlind(t) ==
    /\ pc[t] = "commit"
    /\ offloading' = TRUE /\ verified' = FALSE /\ Go(t, "t_stop") /\ UNCHANGED start_lock
    /\ UNCHANGED <<handler, active, loaded, started, finished, offloaded, seen, remote, faults>>

\* ... and again in the section that publishes the teardown.
IdleCommit(t) ==
    /\ pc[t] = "commit"
    /\ IF active > 0 \/ ~loaded
       THEN Unlock /\ Go(t, "watch") /\ UNCHANGED <<offloading, verified>>
       ELSE /\ offloading' = TRUE /\ verified' = FALSE
            /\ Go(t, "t_stop") /\ UNCHANGED start_lock
    /\ UNCHANGED <<handler, active, loaded, started, finished, offloaded, seen, remote, faults>>

TearStop(t) ==
    /\ pc[t] = "t_stop" /\ Go(t, "t_tunnel")
    /\ stop_remote_runtime
    /\ UNCHANGED <<job, attempt, runs, heads, start_lock, belief, seen, relay, lease>>

TearTunnel(t) ==
    /\ pc[t] = "t_tunnel" /\ Go(t, "t_release")
    /\ relay' = FALSE /\ Cut
    /\ UNCHANGED <<job, attempt, runs, heads, start_lock, belief, seen, server, lease, faults>>

\* release_gpu_lease swallows its errors.
TearRelease(t) ==
    /\ pc[t] = "t_release" /\ Go(t, "t_clear")
    /\ \/ lease' = FALSE /\ UNCHANGED faults
       \/ lease' = lease /\ Hit("broker")
    /\ UNCHANGED <<handler, start_lock, belief, seen, server, relay>>

\* The finally block, and after it the section that records the offload.
TearClear(t) ==
    /\ pc[t] = "t_clear" /\ Go(t, "t_forget")
    /\ offloading' = FALSE
    /\ UNCHANGED <<handler, start_lock, active, loaded, verified, started, finished,
                   offloaded, seen, remote, faults>>

TearForget(t) ==
    /\ pc[t] = "t_forget" /\ Go(t, "watch") /\ Unlock
    /\ loaded' = FALSE /\ offloaded' = TRUE
    /\ UNCHANGED <<handler, active, offloading, verified, started, finished, seen, remote, faults>>

\* A call of the teardown times out: only the finally block is run.
TearFails(t) ==
    /\ pc[t] \in {"t_stop", "t_tunnel"} /\ Hit("hang")
    /\ Unlock /\ Go(t, "watch") /\ offloading' = FALSE
    /\ UNCHANGED <<handler, active, loaded, verified, started, finished, offloaded, seen, remote>>

-----------------------------------------------------------------------------
(* probe_runtime_state *)

ProbeRead(t) ==
    /\ pc[t] = "probe" /\ Go(t, "judge")
    /\ seen' = server
    /\ UNCHANGED <<handler, start_lock, belief, remote, faults>>

ProbeJudge(t) ==
    /\ pc[t] = "judge" /\ Go(t, "done")
    /\ IF started \/ offloaded
       THEN UNCHANGED <<loaded, verified, started>>
       ELSE loaded' = seen /\ verified' = seen /\ started' = seen
    /\ UNCHANGED <<handler, start_lock, active, offloading, finished, offloaded, seen,
                   remote, faults>>

-----------------------------------------------------------------------------
(* The rest of the world *)

\* RUNTIME_VERIFY_TTL_SECONDS passed.
Lapse ==
    /\ verified /\ verified' = FALSE
    /\ UNCHANGED <<pc, handler, start_lock, active, loaded, offloading, started, finished,
                   offloaded, seen, remote, faults>>

\* The server crashes, is stopped by a command, or is evicted with its lease.
ServerDies ==
    /\ server /\ Hit("server") /\ server' = FALSE /\ Cut
    /\ lease' \in {lease, FALSE}
    /\ UNCHANGED <<pc, job, attempt, runs, heads, start_lock, belief, seen, relay>>

\* The relay's process ends, or only its ssh connection.
RelayDies ==
    /\ relay /\ Cut
    /\ Hit("relay") /\ relay' \in BOOLEAN
    /\ UNCHANGED <<pc, job, attempt, runs, heads, start_lock, belief, seen, server, lease>>

\* A wingpu command in another process starts the server.
StartedOutside ==
    /\ ~server /\ Hit("start") /\ server' = TRUE /\ lease' = TRUE
    /\ UNCHANGED <<pc, handler, start_lock, belief, seen, relay>>

-----------------------------------------------------------------------------
(* The specification *)

Init ==
    /\ pc = [t \in Threads |-> CASE t \in Requests -> "idle"
                                 [] t \in Offloaders -> "watch"
                                 [] OTHER -> "probe"]
    /\ job = [r \in Requests |-> "load"] /\ attempt = [r \in Requests |-> 1]
    /\ conn = [r \in Requests |-> "none"]
    /\ runs = [r \in Requests |-> 0] /\ heads = [r \in Requests |-> 0]
    /\ start_lock = NoThread /\ active = 0
    /\ loaded = FALSE /\ offloading = FALSE /\ verified = FALSE
    /\ started = FALSE /\ finished = FALSE /\ offloaded = FALSE /\ seen = FALSE
    /\ server \in BOOLEAN /\ relay \in BOOLEAN /\ lease = server
    /\ faults = 0

TakeLock(r) ==
    LoadedMeanwhile(r) \/ LoadBegin(r) \/ RefreshBegin(r) \/ RecoverBegin(r)

\* r's thread goes on.
Serve(r) ==
    \/ ReadBody(r) \/ End(r)
    \/ HotPath(r) \/ ColdPath(r) \/ TakeLock(r)
    \/ StopRuntime(r) \/ StopTunnel(r) \/ EnsureTunnel(r) \/ UseRunning(r) \/ StopAgain(r) \/ NotRunning(r)
    \/ AcquireLease(r) \/ StartServer(r) \/ Ready(r) \/ LoadFails(r)
    \/ Connect(r) \/ ConnectFails(r) \/ Send(r) \/ SendFails(r)
    \/ Respond(r) \/ AwaitFails(r) \/ Stream(r)

Teardown(t) == TearStop(t) \/ TearTunnel(t) \/ TearRelease(t) \/ TearClear(t)
               \/ TearForget(t) \/ TearFails(t)

Idle(t) == IdleCheck(t) \/ IdleCommit(t) \/ Teardown(t)

Next ==
    \/ \E r \in Requests : Begin(r) \/ Serve(r)
    \/ \E t \in Admins : OffloadBegin(t) \/ Teardown(t)
    \/ \E t \in Idlers : Idle(t)
    \/ \E t \in Probers : ProbeRead(t) \/ ProbeJudge(t)
    \/ Lapse \/ ServerDies \/ RelayDies \/ StartedOutside

Spec == Init /\ [][Next]_vars

\* Threads run, remote calls return, connections end and the idle loop polls;
\* nobody has to send a request or to ask for an offload.  A lock of Python
\* serves its waiters in no order, but who gave start_lock up does not ask for
\* it again before another request is read: a waiter is not passed over for ever.
FairSpec ==
    /\ Spec
    /\ \A r \in Requests : WF_vars(Serve(r)) /\ SF_vars(TakeLock(r))
    /\ \A t \in Admins : WF_vars(Teardown(t))
    /\ \A t \in Idlers : WF_vars(Idle(t))

-----------------------------------------------------------------------------
(* Properties *)

OnWire == {"connect", "send", "await", "stream"}
Loading == {"stop_runtime", "stop_tunnel", "tunnel", "process", "acquire", "start", "wait"}
Tearing == {"t_stop", "t_tunnel", "t_release", "t_clear", "t_forget"}

\* Every variable has its type.
TypeOK ==
    /\ \A r \in Requests : pc[r] \in {"idle", "body", "ensure", "lock", "end"} \cup Loading \cup OnWire
    /\ \A t \in Offloaders : pc[t] \in {"watch", "commit"} \cup Tearing
    /\ \A t \in Probers : pc[t] \in {"probe", "judge", "done"}
    /\ DOMAIN pc = Threads
    /\ job \in [Requests -> {"load", "refresh", "recover"}]
    /\ attempt \in [Requests -> 1..3]
    /\ conn \in [Requests -> {"none", "open", "broken"}]
    /\ runs \in [Requests -> 0..3] /\ heads \in [Requests -> 0..3]
    /\ start_lock \in Threads \cup {NoThread}
    /\ active \in 0..Cardinality(Requests)
    /\ {loaded, offloading, verified, started, finished, offloaded, seen} \subseteq BOOLEAN
    /\ {server, relay, lease} \subseteq BOOLEAN
    /\ faults \in 0..MaxFaults

\* No request goes to the server, nor is one on its way there, while an offload
\* is taking it down: a request that races the offload either stops it or waits
\* for its end and loads the model again.
TeardownAlone ==
    (\E t \in Offloaders : pc[t] \in Tearing) => \A r \in Requests : pc[r] \notin OnWire

\* A request that may have effects is taken up by the server once at most,
\* however the relay is rebuilt and the runtime recovered under it.
AtMostOnce == \A r \in Requests \ Safe : runs[r] <= 1

\* Each client gets exactly one status line, through all attempts and failures.
OneReply == \A r \in Requests : heads[r] <= 1 /\ (pc[r] = "end" => heads[r] = 1)

\* The lease is given back only when the server is down: no other runtime gets
\* the card while a load by another thread of the gateway still uses it.  It
\* does not hold if the stop fails unnoticed ("ssh"), or another process starts
\* the server meanwhile ("start").
ReleasedAfterStop == [][\A t \in Offloaders : TearRelease(t) => ~server]_vars

\* Every request comes to its end: nobody waits for start_lock for ever.
RequestEnds == \A r \in Requests : pc[r] = "body" ~> pc[r] = "idle"

\* An idle gateway takes the model down, though attempts to do so may fail.
IdleOffloads == loaded /\ active = 0 ~> ~loaded \/ active > 0
=============================================================================
