# wingpu-bridge in TLA+

Models, model-checking runs and proofs for wingpu-bridge: one Windows machine
with one GPU, a broker in WSL that leases the card, a CLI and a gateway on the
Mac that load a llama server on demand, and an older queue of Docker jobs.
Paths below are relative to `src/`.

    tlc -config MCGpuBroker_evict.cfg MCGpuBroker     # a run (PROJECT.json lists them)
    tlc -config MCGateway_live.cfg MCGateway
    tlapm GpuBrokerProofs.tla                         # the proofs of a module

## 1. The system

### Components

| Component | Code | State it keeps | Operations |
|---|---|---|---|
| GPU broker | `gpubroker/src/gpubroker/broker.py` | the `holder` row of `broker.db`, an events ring; reads pidfiles, `/proc`, `nvidia-smi` | acquire, release, touch, evict, watchdog; status, events and doctor only read |
| Shutdown helper | `gpubroker/.../shutdown_helper.py` | a pidfile of its own | `POST /shutdown` stops the pid of the runtime's pidfile; `/health` |
| Lease helpers | `gpubroker/.../lease.py` | when a touch was last claimed, the thread and stop event of a stream's timer | `ActivityTouch`, `TouchWhileActive`, `LeaseSession` |
| Broker client, ssh | `gpubroker/.../client.py`, `ssh.py` | none | run one broker command, here or over ssh, and parse its answer |
| Runtime catalogue | `gpubroker/.../runtimes.py`, `config.py` | none | read and validate TOML |
| Model gateway | `mac/src/wingpu_cli/main.py` 1718-2306 | the fields of `GatewayCoordinator`, its two locks, a status file | proxy a request, load, refresh the relay, recover, offload by hand or idle, probe |
| Backend relay | `main.py` 930-1160 | a pidfile, an ssh control socket, connections | start, stop, check |
| Gateway process, CLI lock | `main.py` 686-701, 1606-1717, 2308-2333 | gateway pidfile, `cli.lock` | start, stop, a stale gateway retires itself |
| `wingpu` lifecycle commands | `main.py` 1162-1604, 2691-2745 | none of its own; starts and stops the server, acquires and releases the llama lease | start, stop, status, ... |
| Catalogue, build, benchmark | rest of `main.py` | files | sequential I/O |
| Job queue | `wsl/bridge_db.py`, `worker.py`, `bridge_ctl.py` | the `jobs` table; a worker's process and container | submit, cancel; claim, watch, report, requeue, mark stale |
| Install and boot | `wsl/*.sh`, `windows/*.ps1` | none | glue |

### How they interact

Everything shared is passed through files, rows and processes rather than
messages. Broker commands are short processes serialised by `flock` on
`broker.lock`, but an eviction leaves the lock for as long as it posts, signals
and waits. Servers write and remove pidfiles that the broker reads. The
gateway's threads share one object under `state_lock` (short) and `start_lock`
(long, around ssh calls); the gateway, the CLI and the watchdog start and stop
the same server without a common lock. Workers of the job queue meet in one
SQLite table, one transaction a call.

### What is hard, and what would make it right

- *Broker.* What a command read under the lock may be false when it takes the
  lock again; the evictor may crash between; clocks decide who looks abandoned,
  stale or idle. Right: one lease, one evictor, a lease never confirmed and taken
  at once, an abandoned drain given up but a live one never, every acquire
  answered, a dead holder's lease ended.
- *Gateway.* A request's hot path takes no lock beyond `state_lock`; offloads,
  recoveries and the probe change what it believes, while any remote call may
  fail or hang. Right: no request meets a teardown, a POST is executed once, each
  client gets one answer, the lease is not given back under a running server,
  requests end, idle means offloaded.
- *Processes on the Mac.* Gateways, relays and commands find each other by
  pidfiles and ports and remove them by path, also on behalf of a successor;
  `wingpu stop` takes no lock. Right: one gateway to a port, a stop that nothing
  crosses leaves nothing, the relay that serves is the one its pidfile names, only
  a stale gateway retires.
- *The lease's clients.* A call over ssh may fail, lose its answer or be carried
  out after its caller gave up; the broker's script is uploaded in place while
  others run it; a release carries no token; a stop that fails goes unnoticed. Right:
  a server that runs without a warning has the lease.
- *Touches.* A touch takes seconds and may fail while handlers and a stream's
  timer claim the next one. Right: touches are neither crowded nor withheld, an
  open stream never looks idle, a closed one does.
- *Job queue.* `finish` and `requeue_after_failure` do not look at whose row they
  overwrite; heartbeats may be late; workers die and their containers do not; a
  `docker run` that is told to end may bring its container up all the same. Right:
  one worker to a job, a bounded number of starts, an ended job stays ended and
  leaves no container that was there, a cancel takes effect, an orphan is taken up.

`PROJECT.json` lists each hazard at its line with the properties that would
catch it, or why none does.

## 2. The modules

| Module | What it is |
|---|---|
| `Lease` | abstract: what the broker promises about the lease, without files, clocks or processes |
| `GpuBroker` | the broker, the shutdown helper's POST, servers and pidfiles |
| `GpuBrokerLease` | extends `GpuBroker` with the refinement mapping to `Lease` |
| `GpuBrokerAges` | extends `GpuBroker` with a history variable: how old the holder's last answer is |
| `LeaseClient` | wingpu and siblings around the broker: install, acquire, reassert, start, stop, release |
| `Touches` | `ActivityTouch` and `TouchWhileActive`: how a lease in use is kept from looking idle |
| `Gateway` | the gateway's threads, the relay and the server behind it |
| `Relay` | the relay as a process with a pidfile and a port, and those who start and stop it |
| `GatewayProcess` | extends `Relay`: gateways and `wingpu` commands as processes |
| `JobLife` | abstract: what the queue promises about the life of each job, without tables, heartbeats or containers |
| `JobQueue` | the jobs table, its workers and their containers |
| `JobQueueLife` | extends `JobQueue` with the refinement mapping to `JobLife` |
| `GpuBrokerProofs`, `GpuBrokerRefinement`, `LeaseClientProofs`, `TouchesProofs`, `GatewayProofs`, `RelayProofs`, `GatewayProcessProofs`, `JobQueueProofs` | theorems |
| `MC...` | the instances for TLC |

The modules meet where the code does: `GatewayProcess` composes gateways and
commands with the relay they share. `LeaseClient` contains the broker as `Lease`
has it, one step an eviction, and so may be read as `GpuBroker`'s environment.
`Touches` keeps the age that `GpuBroker` calls `idle_age`. `Gateway` is one
gateway of `GatewayProcess` from inside.

### Lease

The abstract broker: a lease with its token, the mark (`doomed`), at most one
`evictor`, and `claim[a]`, what an acquire of `a` asks for until it is answered. Each
action says who may take it: `Confirm`, which takes the mark off, and `Clear` and
`GrantOverDead`, which need a dead holder, happen only while nobody evicts; `HandOver`
and `Drop` only by the evictor, the first to its own claim; `Refuse` changes nothing
but the claim of one that does not evict; `Leave` gives back only a lease of a runtime
in `MayRelease`. So a step that confirms in mid-drain, that clears a live holder, or
that hands the card to anybody but its evictor is no step of `Lease`.

### GpuBroker

`row` is the `holder` row with its columns that decide anything: runtime, token,
pid, `last_active_at`, `acquired_at`, state and `state_since`, the stamps as ages.
`slot[c]` is the command process `c` runs: where it is, its arguments, the token
and the time `cmd_acquire` stamped at its start, and the `EvictPlan` that
`start_evict` returned. `pidfile` and `alive` are the servers.

One stretch under `broker.lock` is one action. For `acquire` these are
`GrantFree`, `Reassert`, `GrantStale`, `WaitVramBegin`, `AcquireEvict` and
`AcquireDeny`, chosen by guards in the order of the loop in `cmd_acquire`; for
the end of an eviction `EvictComplete` (which for an acquire also grants) and
`EvictLostRace`. Outside the lock `finish_evict` is `FinishPost`, `FinishKill`,
`FinishUnlink` and the wait that `EvictComplete` ends; the VRAM wait for a dead
holder ends in `WaitVramGrant` or `WaitVramGiveUp`. `EvictCommand`, `Release`,
`Touch`, `WatchdogClear` and `WatchdogEvict` are the other commands. `Crash`
kills a command anywhere, also between the two autocommitted statements of the
hand-over. `StartRuntime` and `ExitRuntime` are start and stop scripts and
servers that die.

Tokens are numbers in the order of the acquires; the code draws random ones,
which are as distinct. Readings of VRAM and utilisation are arbitrary, because
other programs use the card and an unreadable counter counts as free. `Tick`
ages everything; a command outside the lock cannot be older than `EvictTime`,
which is what its own timeouts add up to (the watchdog's and the commands' steps
themselves are taken to be quick against a tick).

### LeaseClient

`holder` and `server` are the broker's row and the servers that run; `script` is
`gpu_broker.py` in WSL, which may be missing, old, or `"partial"` while somebody
uploads it. A client is the gateway, a `wingpu` command or a sibling through
`LeaseSession`: `pc`, `mode` (a load, or the reassert of a server that runs),
`tries` and `answer`. `AcquireCall` has what may become of a call: it runs; there
is no script; it does not get through; its answer is lost; it times out here and
joins `late` as what it was (`Left`: a plain acquire, a forced one or a reassert), from
where `LateCall` may carry it out. `stop_remote_runtime` ends the server (`Stopped`),
fails unnoticed (`StopFails`: `check=False`, `main.py:1193`) so that the caller goes on to
its release or its start, or times out and raises (`StopRaises`). `EnsureInstalled`,
`WriteBegin`, `WriteEnd` and `Verify` are the version check and the upload that
truncates the file under others. `Answered` is what wingpu makes of the answer
(`Denied` and `Raised` fail the load, `Retries` installs and asks once more, else
it starts, warned or not). The broker inside keeps a lease that was granted just
now (`Fresh`): its graces hold; the run `ages` shows when they do not.

### Touches

`last` is `_last`, as whose claim it is and how old; `call[h]` the touch that
handler `h` has under way; `thread`, `waited` and `stop` the thread of
`TouchWhileActive`. Streams open and close (`StreamOpen` calls `start`,
`StreamClose` calls `stop`); `active()` is the client's and true while its stream
is open. A touch takes up to `CallTime`; it may be carried out early or late in
that time (`Touched`), or fail (`Fails`). `Tick` passes when nobody's turn is due.

### Gateway

`pc` follows every thread: handlers of requests, of `POST /__wingpu/offload`, the
idle loop and the start-up probe. A section under `state_lock` is one action;
under `start_lock` each remote call is one. `active`, `loaded`, `offloading`,
`verified`, `started`, `finished` and `offloaded` are the coordinator's fields,
the stamps as "set and recent enough"; how long is not counted, so a verification
may lapse and idleness be reached at any moment. `conn`, `runs` and `heads` record
what became of a request on its way: its connection, how often the server took
it up, how many status lines its client got. `server`, `relay` and `lease` are
the remote end.

`Faults` names what may go wrong: an ssh command fails ("ssh", unnoticed in
`stop_remote_runtime` and in the process check, raised where the code looks at
it), hangs until the call's timeout raises ("hang"), the server or the relay dies
("server", "relay"), somebody else starts the server ("start"), the broker says
no ("broker"), the load times out ("slow"). `MaxFaults` bounds how many occur.

### Relay and GatewayProcess

`relay[r]` follows one `serve_relay` from the fork over `bind`, the pidfile and
the signal handler to its exit; `at[u]` follows a user through
`ensure_backend_tunnel` or `stop_backend_tunnel`; a user is a gateway, under its
`start_lock`, or a command, under none. `gw[g]` follows `serve_gateway`,
`cli[c]` the command at a terminal: `StartLock` to `StartEnd` are
`ensure_gateway_started` under `cli_lock` and the load that follows it outside,
`StopStatus` to `StopRest` are `stop_gateway` and `stop_backend_tunnel`. A
SIGTERM kills a process that has not installed its handler yet (`AfterTerm`,
`AfterSigterm`); `Kill`, `KillRelay` and `Interrupt` are ends from outside.
Deadlines are not counted: where the code gives up after a while the model may
do so at once.

`crossed`, `hasty`, `stopped` and `clean` only record history, for properties
that the code does not promise whatever happens: `crossed`, that an operation on
the relay began in the middle of another or of what it left behind; `hasty`, that
a start began while the gateway of an earlier one was still coming up; `clean`,
that nothing was started beside a stop and none of its waits was in vain.

### JobQueue

`state`, `age` (of the heartbeat), `retry_count`, `cancel_requested` and `backoff`
(`retry_after` ahead) are a row; `pc`, `mine`, `turn`, `proc` and `canceled` a
worker; `box` says whose container has a name. Each method of `BridgeDB` is one
transaction and one action: `MarkStale`, `ClaimNext`, `Heartbeat`, `RequestCancel`,
and `Report` for `finish` or `requeue_after_failure`, which overwrite the row whatever
its state, as the code does. `claims` and `lagged` only record history.

`Heartbeat` is a round of the worker's watch that is due for a heartbeat. `rested` says
which workers have been round since the last tick, and `Tick` waits for them, but not
for those in `Slow`, who may be late with a round or a report. That the loop goes round
in time is all that `Tick` assumes: what the round writes, and that it keeps the row
fresh, is left to be shown (`FreshKept`).

A job in `Contained` runs in a container called after the first 20 characters of its
id (`worker.py:27`), which jobs may share: an id made by `bridge_ctl.py:51` differs within
one second only from its 20th character on. `ContainerStarts` is `docker run`: it
gets the name or fails. The container ends with its process (`--rm`), goes on when
its worker dies (`Crash`) until it ends by itself (`LeftEnds`), and is removed by the
name when a worker sees a cancel (`SeeCancel`), whosever it is. A `docker run` that has
no container yet when its worker dies, or when a cancel signals it and `docker rm -f`
finds nothing (`worker.py:108-121`), is left on its own (`LeaveStarting`): `adrift[j]`
counts such runs of `j`, and `LeftStarts` brings a container up for one of them, or
lets it come to nothing. `stray` has the names that went to such a container. That a
`docker rm` that finds its container removes it is assumed: the code does not look.

`JobQueueLife` maps the rows to the stages of `JobLife`, a worker's claim to the runner
of the job, and `lagged` to `late`. `JobLife` says that, while none is late, one worker
at a time runs a job and alone says how it ended, `Recover` takes only jobs without a
runner, and only what is `wanted` canceled is canceled. A late worker's report may
overwrite any row; then only `Moves` is promised: a job is taken up from the queue
only, and goes back there only at the price of a retry.

## 3. The runs

| Run | Asks | States |
|---|---|---|
| `evict` | a command against the watchdog, a server restarted under a new pid, a runtime without pidfile, a crash: the inductive invariant `EvictionInv`, one evictor, no mark left behind, the victim dead before the card passes on, only a crashed evictor's drain abandoned, and that the broker implements `Lease`; the clients of one runtime release | 913 k |
| `live` | two competing acquires and a polling watchdog, a crash, under fairness: a dead holder's lease ends, drains end, acquires are answered, though a client of one runtime may release it in mid-eviction, so that an evictor loses the race and starts over; and no grant happens beside the eviction of a runtime that nobody releases (`KeptDrainBlocksGrant`) | 501 k |
| `client` | a gateway, a command and a sibling, three loads, two calls that fail, lose their answer or come late, or stops that fail: `LeaseHeld`, `WarnedForReason` | 4.7 M |
| `touches` | two handlers and a timer, two streams, a failed touch, under fairness: `ThrottleExact`, `StreamTouched`, `IdleSeen` | 88 k |
| `gateway` | two requests, an offload by hand, the idle loop, two faults of any kind: `TeardownAlone`, `AtMostOnce`, `OneReply` | 350 k |
| `gateway_live` | under fairness, with the probe and one fault: requests end, an idle gateway offloads, the lease is released only after the stop | 390 k |
| `processes` | two terminals, four commands, a kill or interrupt: `OneGateway`, `StopStops`, `RelayNamed`, `RetiresOnlyStale` | 1.9 M |
| `queue` | two workers, one of them late, a crash, under fairness: starts are bounded, one worker to a job, containers that outlive their worker or share a name do not run a job twice, heartbeats keep the row of a worker in time fresh (`FreshKept`), ended jobs stay ended and leave no container but that of a `docker run` left on its own, cancels and orphans are dealt with, and the queue implements `JobLife` | 446 k |

Four runs show where the code and what it says of itself part. Each checks one
property and ends in a counterexample:

| Run | Property | What happens |
|---|---|---|
| `release` | `DrainBlocksGrant` | `docs/README.md:389` says a draining row keeps a second acquire out. `cmd_release` (`broker.py:826`) does not look at the state: a release by the client whose runtime is being evicted empties the row, and the card is granted while the evictor still waits. |
| `ages` | `YoungDeadKept` | `acquired_at` is stamped before `acquire` waits (`broker.py:705`) and kept by a reassert: a lease granted late is stale while its server still loads. |
| `gateway_probe` | `TeardownAlone` | `probe_runtime_state` (`main.py:1828`) commits an old answer during an offload; a request takes the hot path to the stopped server. |
| `retire` | `RetiresOnlyStale` | `main.py:1925` says that a gateway whose pidfile names another retires for a newer one or a stop. With a second local port the older gateway retires and unlinks the newer one's pidfile on its way out (`main.py:2332`), and the newer one retires too. |

### Bounds, and why they are enough

*Broker.* One tick is about the length of a grace; the constants keep the order
that the code's defaults have (busy and stale grace below the idle timeout, the
extra of `STUCK_DRAIN_EXTRA_S` longer than POST and pause) and `AgesAssumption`
makes TLC check that saturating ages at `MaxAge` hides no comparison. Three
acquires are one holder, one evictor and one that comes in between; every conflict
is between two commands, so two actors show it, and two runtimes are the holder
and the other. `evict` pairs a command with the watchdog, which have the most
different steps; `live` has two commands and the watchdog. One crash leaves one
abandoned drain. The proofs cover any number of all these. `release` uses symmetry
(`Alike`: the two commands, and the two runtimes with their pids); runs with
refinement or liveness use none. In `evict` and `live` the clients of one runtime (`b`)
release it and those of the other do not, so that both cases are there: an evictor that
finds its row gone, and one whose row only it may take. `live` has servers whose state
does not change (`Pids = {}`): `a`'s never writes its pidfile and counts as dead, `b` has none to
look for and counts as alive. With servers that come and go liveness is beyond the time TLC is
given here; `evict` has them.

*Clients.* A runtime with two processes of wingpu (the gateway and a command) and
one of a sibling: whoever else holds the card is the sibling. Three loads let one
of them come between two of another's; two faults are a late call, or a stop that
fails, and a failure beside it.

*Touches.* A touch may take longer (3) than the interval (2), which the defaults do
not (20 s and 30 s) but the configuration can: only then two claims overlap. Two
streams let the second meet the thread of the first.

*Gateway.* Two requests, one safe to repeat and one not, cover the pairs that
compete for a relay and a load; offloads are one thread of each kind. Requests
serve again and again, so a fault has an after. Two faults are a failure and a
second one while it is handled. `gateway_live` leaves out "ssh" and "start",
with which `ReleasedAfterStop` does not hold: a stop whose ssh command fails
is taken for done, and `wingpu start` may start the server at any time.
`gateway` has no prober, because `gateway_probe` shows what it does.

*Processes.* Two terminals, four commands and one kill are a start that is given
up or killed, its repetition, and a stop. Pids are used once, so two gateways and
two relays are a process and its successor. The commands and gateways are many but
alike, hence the symmetry. `Uncrossed` cuts behaviours at the first crossing of
two relay operations: beyond it `RelayNamed` and the relay's half of `StopStops`
say nothing. The other properties do not speak of the relay, and no guard of a gateway
or a command reads it: a behaviour stays one when every relay that starts, and every
`ensure_backend_tunnel`, is left out (`StopSignal` then finds no pidfile and is over at
once), and then nothing crosses.

*Queue.* A job with one retry and a job with none; a worker that is in time and
one that is late; ages run one past the limit of staleness, after which nothing
changes. Crashes are bounded at one, since each starts the worker afresh; with the
claims they bound `adrift`. Both jobs run in containers of one name, the worst case; jobs outside containers, and names of
their own, are left to the proofs, where `Contained` and `name` are any.

`CHECK_DEADLOCK FALSE` is said only for the processes, where all commands have been
given and all processes have ended.

### Fairness

*Broker*: every started command is scheduled by the operating system until it
ends (`WF` on `Acquire` and `Finish`), the watchdog loops (`WF` on `Watchdog`), and
clocks go on (`WF` on `Tick`). Nobody has to begin a command; a crash may end one.
*Gateway*: threads run (`WF` on `Serve`, `Teardown`, `Idle`). `threading.Lock` is not
fair, and `start_lock` is free again and again rather than for good, so taking it
needs `SF`: a waiting handler is assumed not to be passed over at every one of
those times. Python promises no order, so this is the one assumption beyond the
code; without it `RequestEnds` fails. Each remote call has a timeout, so it ends.
No fairness on faults, on clients, or on the manual offload's beginning.
*Touches*: the thread runs and touches return (`WF` on `Run`, `PingDone`), clocks go
on (`WF` on `Tick`). Nobody has to ping or to close a stream.
*Queue*: the worker's program runs (`WF` on `Work`, `Heartbeat`), systemd has
`Restart=always` (`WF` on `Restart`), time passes (`WF` on `Tick`, `RetryAfter`).
A job's process need not end.

## 4. What is proved

For every value of the constants that meets the named assumptions:

| Theorem | In | Says |
|---|---|---|
| `TypeCorrect` | `GpuBrokerProofs` | every state of the broker is well typed |
| `EvictionsExclusive` | `GpuBrokerProofs` | under `Timely`, `EvictionInv` always holds |
| `OneEvictorAlways`, `EvictorOwnsDrainAlways`, `OnlyCrashedAbandoned` | `GpuBrokerProofs` | ... and so its three consequences |
| `VictimDeadAlways`, `NoOrphanDrainAlways` | `GpuBrokerProofs` | the victim is gone from the unlink on; no mark stays behind without a crash; both without `Timely` |
| `KeptDrainBlocksGrantAlways` | `GpuBrokerProofs` | under `Timely`, no grant while the lease of a runtime that no client releases is being evicted |
| `DrainBlocksGrantAlways` | `GpuBrokerProofs` | in particular, where nobody releases (`MayRelease = {}`), no grant during an eviction |
| `BrokerImplementsLease` | `GpuBrokerRefinement` | under `Timely`, the broker implements `Lease` |
| `LeaseKept`, `LeaseHeldAlways`, `WarnedForReasonAlways`, `ClientTypeCorrect` | `LeaseClientProofs` | a server without a warning has the lease, unless it was forced away, or released under the server by another, late, or after a stop that failed unnoticed; wingpu goes without one only for a reason |
| `ThrottleExactAlways`, `StreamTouchedAlways`, `TouchesTypeCorrect` | `TouchesProofs` | the throttle is exact; an open stream is touched |
| `GatewayTypeCorrect`, `AtMostOnceAlways`, `OneReplyAlways` | `GatewayProofs` | types, with `active` counting the requests under way; one execution, one reply |
| `TeardownAloneAlways` | `GatewayProofs` | if `Probers = {}`, no request meets a teardown |
| `ReleasedAfterStopAlways` | `GatewayProofs` | without "ssh" and "start", the release comes after the stop |
| `OneGatewayAlways`, `RelayNamedAlways`, `ProcessesTypeCorrect` | `GatewayProcessProofs` (and lemmas of `RelayProofs`) | one gateway to a port; a relay can be found |
| `StopStopsAlways`, `RetiresOnlyStaleAlways` | `GatewayProcessProofs` | with one port (`OnePort`), a stop beside which nothing is started leaves no gateway and, unless users of it crossed, no relay; a gateway retires only for a newer one or a stop |
| `StartsCounted`, `StartsBoundedAlways`, `QueueTypeCorrect`, `RunsApartAlways`, `OneWorkerAlways`, `FreshKeptAlways`, `EndedStaysAlways`, `EndedCleanAlways` | `JobQueueProofs` | bounded starts; no job runs in two watched containers; heartbeats keep the row of a worker in time fresh; while no worker was late, one worker to a job, and ended jobs stay ended and leave no container but that of a `docker run` left on its own |
| `QueueImplementsJobLife`, `NobodyLate`, `LivesInTime` | `JobQueueProofs` | the queue implements `JobLife`; where every worker gets round its watch (`Slow = {}`) nobody is late, because of the heartbeats it writes there, and every step is one of its steps in time |

**The broker's argument.** `OneEvictor` is not inductive. A second eviction
can begin only on a row that is not marked or whose mark looks abandoned, so one
must know how old a live evictor's mark is. `DrainTimed` says it: while a command
drives the eviction of the row's token, the row is marked, exactly as long as the
command has been outside the lock, and that is at most `EvictTime`. `Timely` (no
`EvictTime` reaches anybody's `StuckLimit`) then makes every guard that would
start, confirm or replace false (lemma `NoDriver`). This needs that a plan's token
names one lease for ever, hence `TokensFresh`: an acquire's token is in no plan
and not in the row before its grant. `Shape` ties the fields of a slot together.
Each action is one of a few shapes (`TakeOver`, `Vacate`, `Begin`, `GoOn`,
`Rewrite`), each a lemma. `KeptDrainBlocksGrant` adds `DrivenRow`: who is outside the
lock with a plan finds the row it marked, unless a client of the victim's runtime may
release it, since nobody else but the evictor itself can replace it.

`Timely` is not idle: with one `--free-timeout` for all it follows from
`STUCK_DRAIN_EXTRA_S` exceeding the POST and the pause.

**The refinement** maps the row's token to `holder`, the one driving command to
`evictor` (well defined by `OneEvictor`), the acquires in flight to `claim`. Every
action is shown to be a step of `Lease` or `Drift`: the end of an eviction a `Drop` or
`HandOver` of the one that `Drives`, which `EvictionInv` makes the only one and finds
marked; a reassert a `Confirm`, because `NoDriver` has shown that nobody evicts. Who
lost the race to a release is no evictor any more: its end is a `Refuse`, when it dies
of it, or a `Drift`, when it starts over.

**The clients' argument.** `LeaseInv` adds to `LeaseHeld` that a client between a
grant and its start has the row or is in `lost` (`GrantHeld`), and what each place
of the load has decided (`Decided`). A late call is not anybody's step, but can
take the row only from a holder that is not `Fresh`. `ReasonInv` follows the repair:
who was answered nothing without being excused found the script missing or broken,
has uploaded it since, and nobody else is uploading.

**The touches' argument.** `ClaimInv` says whose claim `last` is: a handler that is
still calling with just that age, or one whose touch succeeded. `TimerInv` bounds
the stream's age and the row's by where the thread is and how many touches failed.

**The gateway's argument.** `ThreadInv`: who is in a stretch under `start_lock` holds
it. `RequestInv` ties `attempt`, `conn`, `runs` and `heads` to the place of the
request: what is sent again was not executed or is safe. `CountInv`: `active` is the
number of requests under way. For the teardown, `TearInv`: `offloading` is set,
`start_lock` is held, `loaded` is false from the forgetting on, and no request is on
the wire, because the commit looked at `active` and nobody passes the hot path since.
The prober breaks just this. `StopInv` is `ReleasedAfterStop` one step ahead.

**The processes' argument.** `StartInv`: whoever is between the status and the poll
has `cli_lock`, and unless `hasty` no gateway came up that it does not watch. For the
relay, `NamedInv`: until operations cross, at most one relay is alive that could
listen, and the pidfile names it or the one user at work will write it.

With one port at most one gateway is alive, and `PidInv` says where it stands: the
pidfile names it and it does not go, or it has met a stop. So whoever finds another
pid, and retires, has met one. A gateway that another port's start has put out of the
pidfile breaks just this. For `StopStops`, `StopInv` says that a clean command is the
only one there is, and `Reached` what each step of the stop has come to: whoever was
answered on the port has stopped coming up; after the POST all that are alive are on
their way out; who found no answer has the pid of the only one alive, which does not go;
after the port is free, or the pid gone, none is alive; and after the relay's SIGTERM
each relay that could listen has been told. Each wait of the stop relies on the line
before, so the invariant is needed at every place, not only at the end.

**The queue's argument.** A late worker may report on a row that is not its own,
so for `StartsBounded` nothing ties a worker to a job; what is inductive ignores
workers. A row that waits was claimed at most `retry_count` times, any other at most
once more (`ClaimsCounted`). While nobody was late, `OwnInv` does tie them: who has a
job owns its row with the `retry_count` it claimed, and its heartbeat is young.
`RunsApart` needs no such tie, only that a process is watched after a launch
(`PhaseInv`) and that a name is taken once. `EndedClean` does: what a worker is about
to report canceled or succeeded has no container (`CleanInv`), or one of a run left on
its own, and nobody else starts one for that job before the report. `FreshInv` is why
nobody is late who gets round: since the claim or the last round the row's age is 0 in
the tick in which it was written and at most 1 before the next, which is less than
`StaleSeconds`. Neither reports of late workers nor `MarkStale` make it older.

**The queue's refinement** needs two things more (`LifeInv`): a worker that claims has
no job, and, while none was late, what is about to be reported canceled is still to be
canceled, because only its own worker could clear the flag. `Runner` is well defined by
`OwnInv`; a stale row has none, so `MarkStale` is `Recover`. When some worker was late
the mapping of runners means nothing, and each row by itself is shown to make one of the
`Moves`.

Assumptions are those on the constants, named in the modules that declare them,
which TLC evaluates on every run, and `Timely`, `MayRelease = {}`, `Probers = {}` and
the faults left out, each stated in the theorem that needs it; `release` and
`gateway_probe` show that the second and third are needed (`MayRelease = {}` is in the
corollary only). `GatewayProofs` needs that
`Requests` is finite, to count them. The bounds (`MaxAcquires`, `MaxFaults`, ...) are
constants too, so the theorems hold for any of them. `OnePort` is that `wingpu.toml` is
not edited while gateways run: `retire` shows that `RetiresOnlyStale` needs it, and so does
`StopStops`: a gateway of another port that retires unlinks the pidfile (`main.py:2332`)
by which the stop would have found the one still coming up. `Slow = {}` of `NobodyLate`
and `LivesInTime` says that no worker is held up (suspended, or waiting for the table's
lock) for a tick, half a minute or so, between two rounds of its watch or before its report.

**Only model-checked**: liveness (`StaleReclaimed`, `DrainEnds`, `AcquireAnswered`,
`RequestEnds`, `IdleOffloads`, `IdleSeen`, `CancelEnds`, `OrphanTaken`), which is out
of the prover's reach. Every safety property of a passing run is a theorem.

## 5. What the code does that no run states

Met while modelling, and left without a property because no document promises
otherwise, or because the model leaves out what would be needed:

- `drain_is_stuck` (`broker.py:546`) adds the *observer's* `--free-timeout`: a command
  with a much shorter one than the evictor's takes it for crashed. `Timely` excludes it.
- Two requests that find the relay dead: the refresh of the second tears down what the
  first rebuilt (`main.py:1874`), and a healthy server may be restarted.
- A call to acquire that times out raises out of `run` (`main.py:752-757`), and
  `acquire_gpu_lease` does not catch it, though `main.py:1452-1453` and
  `docs/README.md:392-393` say that it fails open (`Raised` in `LeaseClient`).
- The gateway touches the broker when a request begins (`main.py:1782-1808`) and not
  again while it is served, though `docs/README.md:380-381` says "while a request is in
  flight"; a request longer than the idle timeout depends on the GPU's load.
- `TouchWhileActive.start` returns if the thread is alive (`lease.py:72`), also when it
  was told to stop: a stream that opens while the old thread is still in its touch gets
  none. `StreamTouched` excuses it (`hurried`). The first touch of a stream comes only
  after a whole interval.
- `finish_evict` unlinks the pidfile by path (`broker.py:622`), that of a server which
  was restarted meanwhile too.
- A cancel that comes while `docker run` still starts, as one of a queued job always does
  once that is claimed, signals only the CLI, and `docker rm -f` (`worker.py:108-121`) may
  find no container yet: one may come up after the job is reported canceled, and nobody
  removes it. A worker that dies at this point leaves the same behind. `EndedClean` excuses it (`stray`).
- `stop_remote_runtime` does not look at its ssh command (`main.py:1193`), and the release
  follows (`main.py:1957`, `2722`): the lease of a server that still runs may be given
  back, without a warning. `LeaseHeld` excuses it (`lost`).
- A container that outlives its worker keeps its name, so each retry of its job fails
  at `docker run` (`worker.py:27`) until it ends: the retries may all be used up, and the
  job be `failed`, while its command runs. An `interrupted` job may run on likewise. Two
  jobs whose ids begin alike meet in the name too, and a cancel of one kills the other's
  container (`worker.py:61`); `EndedClean` speaks of a job's own.

## 6. What is not modelled

- Broker commands that only read, and the events ring, which decides nothing;
  `watchdog start` and `stop`.
- The shutdown helper's `/health` and pidfile; the POST is in `FinishPost`.
- The gateway's own touch throttle (`main.py:1793-1808`), a copy of `ActivityTouch`
  that any failure resets; the status file (a failed write is listed as a hazard);
  clients that go away; the texts of answers.
- The ssh master of the relay (`ControlMaster=auto` opens one when none is there),
  reuse of pids, zombie children, `serve_tcp_relay` (a copy of `serve_relay` for
  siblings).
- In `Gateway`, a start or stop over ssh that times out here is not carried out there
  later; `LeaseClient` has the stop that is (`ServerDies`).
- What histories excuse: `RelayNamed` says nothing once users of the relay `crossed`,
  `StreamTouched` nothing of a stream opened while an old thread ended (`hurried`),
  `StopStops` nothing of a stop beside a start or with a wait in vain (`clean`),
  `OneGateway`, `StopStops` and `RetiresOnlyStale` nothing after a start that came before
  the gateway of an earlier one was up (`hasty`),
  and `OneWorker`, `EndedStays` and `EndedClean` nothing once a worker was late (`lagged`).
  The hazards that bite just there are listed in `PROJECT.json` with a note that says so.
- A process outside a container that outlives its worker (the unit's stop ends it);
  `docker` commands that fail to remove; the queue's event log and log files.
- Catalogue, build, benchmark, printing, configuration, install scripts: sequential
  code without shared state.

## 7. The plan

Done: the broker with its abstract lease, its clients, the gateway from inside and as
a process, the relay, the touches, the queue with the abstract life of its jobs, and
proofs of every safety property that the passing runs check. What is left, in order:

1. The watchdog's own pidfile, `watchdog start` and `stop` beside an install.
2. A request longer than the idle timeout: `Gateway`'s requests composed with the ages
   of `GpuBroker`.
