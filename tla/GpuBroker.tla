------------------------------ MODULE GpuBroker ------------------------------
(***************************************************************************)
(* The GPU broker (gpubroker/broker.py): a daemonless lease arbiter.  One  *)
(* SQLite row says which runtime holds the card.  Every command is a short *)
(* process; what it does between taking and releasing broker.lock is one   *)
(* atomic action here, and what it does outside the lock (the shutdown     *)
(* POST, the signals, the pidfile unlink, the wait for VRAM) is a sequence *)
(* of separate actions that every other command can interleave with.       *)
(*                                                                         *)
(* Time is a Tick that ages every stamp of the program by one unit, up to  *)
(* MaxAge.  A reading of nvidia-smi (memory or utilisation) is any value:  *)
(* other programs use the card, and an unreadable counter counts as free.  *)
(***************************************************************************)
EXTENDS Integers, FiniteSets

CONSTANTS
    Runtimes,          \* identities that lease the card: "llama", "tts", ...
    NoRuntime,         \* runtime_id NULL: the row has no holder
    Pids,              \* process ids of the runtimes' servers
    NoPid,
    Owner,             \* Owner[p]: the runtime that pid p serves
    Tracked,           \* the runtimes that acquire with --pidfile
    WithUrl,           \* the runtimes that acquire with --shutdown-url
    MayRelease,        \* the runtimes whose clients call release
    MayTouch,          \* the runtimes whose clients call touch
    Cmds,              \* slots for concurrent acquire and evict processes
    Dogs,              \* watchdog processes
    FreeTimeout,       \* FreeTimeout[c]: --free-timeout of c's commands
    PostTime,          \* the longest the POST and the pause after it last
    KillGrace,         \* KILL_GRACE_S
    StuckDrainExtra,   \* STUCK_DRAIN_EXTRA_S
    StaleGrace,        \* --stale-grace
    BusyGrace,         \* BUSY_GRACE_S
    IdleTimeout,       \* --idle-timeout of the watchdog
    Waits,             \* the values of --wait that acquire is called with
    MaxAge,            \* bound: ages saturate here
    MaxAcquires,       \* bound: acquire commands, hence tokens
    MaxCrashes         \* bound: commands killed before they finish

Actors == Cmds \cup Dogs

\* Mutant: no margin on top of the evictor's own waits.
StuckLimitBare(c) == KillGrace + FreeTimeout[c]

\* drain_is_stuck: how old a drain must be for c to take it for abandoned.
StuckLimit(c) == KillGrace + FreeTimeout[c] + StuckDrainExtra

\* The longest that finish_evict keeps c outside the lock.
EvictTime(c) == PostTime + KillGrace + FreeTimeout[c]

ASSUME NullsAssumption == NoRuntime \notin Runtimes /\ NoPid \notin Pids
ASSUME RuntimesAssumption == /\ Owner \in [Pids -> Runtimes]
                             /\ WithUrl \subseteq Tracked /\ Tracked \subseteq Runtimes
                             /\ MayRelease \subseteq Runtimes /\ MayTouch \subseteq Runtimes
ASSUME ActorsAssumption == Cmds \cap Dogs = {} /\ FreeTimeout \in [Actors -> Nat]
ASSUME TimesAssumption ==
    /\ {PostTime, KillGrace, StuckDrainExtra, StaleGrace, BusyGrace, IdleTimeout} \subseteq Nat
    /\ Waits \subseteq Nat
    /\ {MaxAge, MaxAcquires, MaxCrashes} \subseteq Nat
\* Saturation hides no comparison: every limit an age is compared with is
\* within MaxAge.
ASSUME AgesAssumption ==
    /\ {StaleGrace, BusyGrace, IdleTimeout} \cup Waits \subseteq 0..MaxAge
    /\ \A c \in Actors : StuckLimit(c) <= MaxAge /\ EvictTime(c) <= MaxAge

\* No command still evicting can look abandoned to another command.  This is
\* what STUCK_DRAIN_EXTRA_S is for; it fails when --free-timeout differs more.
Timely == \A c, d \in Actors : EvictTime(c) < StuckLimit(d)

VARIABLES
    row,        \* the holder row (id = 1) of broker.db
    slot,       \* slot[c]: the command that actor c is running
    pidfile,    \* pidfile[r]: the pid that runtime r's pidfile names
    alive,      \* the pids of the server processes that run
    issued,     \* tokens given out so far: the last acquire's is number issued
    crashes     \* commands killed so far

vars == <<row, slot, pidfile, alive, issued, crashes>>

-----------------------------------------------------------------------------
(* The holder row *)

NoStamp == -1                     \* a NULL timestamp
NoToken == 0                      \* a NULL lease_token
Ages == {NoStamp} \cup 0..MaxAge  \* seconds since a timestamp, in ticks
Tokens == 0..MaxAcquires

Rows == [rt : Runtimes \cup {NoRuntime}, tok : Tokens, pid : Pids \cup {NoPid},
         act : Ages, acq : Ages, state : {"active", "draining"}, since : Ages]

EmptyRow == [rt |-> NoRuntime, tok |-> NoToken, pid |-> NoPid, act |-> NoStamp,
             acq |-> NoStamp, state |-> "active", since |-> NoStamp]

Held == row.rt # NoRuntime

\* The pid the row leads to: the pidfile's, else the one given to acquire.
holder_pid == IF row.rt \in Tracked THEN pidfile[row.rt] ELSE row.pid

\* Unknown liveness counts as alive.
holder_alive == \/ row.rt \notin Tracked /\ row.pid = NoPid
                \/ holder_pid \in alive

\* Age of the later of last_active_at and acquired_at.
holder_age == IF row.act # NoStamp /\ row.act < row.acq THEN row.act ELSE row.acq

idle_age == IF row.act # NoStamp THEN row.act ELSE row.acq

\* A touch within the grace makes the holder busy; so may the GPU's load.
recent_touch == row.act # NoStamp /\ row.act < BusyGrace

\* Mutants: a drain whose evictor crashed is never given up; one is given up
\* without leaving its evictor the wait for VRAM.
DrainingForEver(c) == row.state = "draining"
DrainingTooBriefly(c) == row.state = "draining" /\ row.since < KillGrace + StuckDrainExtra

\* The row is draining, and not for so long that c takes it for abandoned.
DrainingFor(c) == row.state = "draining" /\ row.since < StuckLimit(c)

Stale == ~holder_alive /\ holder_age >= StaleGrace

-----------------------------------------------------------------------------
(* Commands in flight *)

NoPlan == [rt |-> NoRuntime, tok |-> NoToken, pid |-> NoPid]
Plans == [rt : Runtimes \cup {NoRuntime}, tok : Tokens, pid : Pids \cup {NoPid}]

\* The steps of finish_evict, and of the VRAM wait for a stale holder.
EvictSteps == {"post", "kill", "unlink", "drain"}
DrainSteps == EvictSteps \cup {"vram"}

Slots == [pc : {"idle", "check"} \cup DrainSteps,
          op : {"none", "acquire", "evict", "watchdog"},
          rt : Runtimes \cup {NoRuntime}, pid : Pids \cup {NoPid},
          tok : Tokens, acq : Ages, wait : Nat, force : BOOLEAN, no_evict : BOOLEAN,
          plan : Plans, age : 0..MaxAge]

IdleSlot == [pc |-> "idle", op |-> "none", rt |-> NoRuntime, pid |-> NoPid,
             tok |-> NoToken, acq |-> NoStamp, wait |-> 0, force |-> FALSE,
             no_evict |-> FALSE, plan |-> NoPlan, age |-> 0]

\* c is outside the lock between marking the row and completing.
Driving(c) == slot[c].pc \in DrainSteps

\* ... and the row is still the one that c marked.
Drives(c) == Driving(c) /\ Held /\ slot[c].plan.tok = row.tok

Answer(c) == slot' = [slot EXCEPT ![c] = IdleSlot]

\* _new_fields on the row prev: a previous token and stamps are kept.
NewFields(c, prev) ==
    [rt |-> slot[c].rt, pid |-> slot[c].pid,
     tok |-> IF prev.tok = NoToken THEN slot[c].tok ELSE prev.tok,
     acq |-> IF prev.acq = NoStamp THEN slot[c].acq ELSE prev.acq,
     act |-> prev.act, state |-> "active", since |-> NoStamp]

\* Mutant: taking an abandoned drain over does not restart its clock.
MarkDrainingOnce ==
    row' = [row EXCEPT !.state = "draining", !.since = IF @ = NoStamp THEN 0 ELSE @]

MarkDraining == row' = [row EXCEPT !.state = "draining", !.since = 0]

\* start_evict: mark the row and remember the holder, its pid as it is now.
\* s is the slot record of the command that will drive the eviction.
StartEvict(c, s) ==
    /\ MarkDraining
    /\ slot' = [slot EXCEPT ![c] =
           [s EXCEPT !.pc = IF row.rt \in WithUrl THEN "post" ELSE "kill", !.age = 0,
                     !.plan = [rt |-> row.rt, tok |-> row.tok, pid |-> holder_pid]]]

-----------------------------------------------------------------------------
(* acquire *)

\* cmd_acquire begins: its token and acquired_at are stamped before it takes
\* the lock for the first time.  A pid is given only without a pidfile.
AcquireBegin(c) ==
    /\ slot[c].pc = "idle" /\ issued < MaxAcquires
    /\ \E r \in Runtimes, w \in Waits, f, n \in BOOLEAN :
       \E p \in {NoPid} \cup {q \in alive : Owner[q] = r /\ r \notin Tracked} :
          slot' = [slot EXCEPT ![c] =
              [IdleSlot EXCEPT !.pc = "check", !.op = "acquire", !.rt = r, !.pid = p,
                               !.tok = issued + 1, !.acq = 0, !.force = f, !.no_evict = n,
                               !.wait = IF f THEN 0 ELSE w]]
    /\ issued' = issued + 1
    /\ UNCHANGED <<row, pidfile, alive, crashes>>

GrantFree(c) ==
    /\ slot[c].pc = "check" /\ ~Held
    /\ row' = NewFields(c, EmptyRow)
    /\ Answer(c)
    /\ UNCHANGED <<pidfile, alive, issued, crashes>>

\* Mutant: the same runtime gets its lease confirmed while it is evicted.
ReassertMidDrain(c) ==
    /\ slot[c].pc = "check" /\ Held /\ row.rt = slot[c].rt
    /\ row' = NewFields(c, row)
    /\ Answer(c)
    /\ UNCHANGED <<pidfile, alive, issued, crashes>>

Reassert(c) ==
    /\ slot[c].pc = "check" /\ Held
    /\ ~DrainingFor(c) /\ row.rt = slot[c].rt
    /\ row' = NewFields(c, row)
    /\ Answer(c)
    /\ UNCHANGED <<pidfile, alive, issued, crashes>>

\* Another runtime holds the card and nobody is draining it.
Contended(c) == /\ slot[c].pc = "check" /\ Held
                /\ ~DrainingFor(c) /\ row.rt # slot[c].rt

\* Mutant: a dead holder is replaced though another command is evicting it.
GrantStaleMidDrain(c) ==
    /\ slot[c].pc = "check" /\ Held /\ row.rt # slot[c].rt /\ Stale
    /\ row' = NewFields(c, EmptyRow)
    /\ Answer(c)
    /\ UNCHANGED <<pidfile, alive, issued, crashes>>

\* The holder is dead, old enough, and the VRAM reads as free.
GrantStale(c) ==
    /\ Contended(c) /\ Stale
    /\ row' = NewFields(c, EmptyRow)
    /\ Answer(c)
    /\ UNCHANGED <<pidfile, alive, issued, crashes>>

\* ... and the VRAM does not: mark the row, wait for it outside the lock.
WaitVramBegin(c) ==
    /\ Contended(c) /\ Stale /\ ~slot[c].no_evict
    /\ MarkDraining
    /\ slot' = [slot EXCEPT ![c].pc = "vram", ![c].age = 0,
                            ![c].plan = [rt |-> row.rt, tok |-> row.tok, pid |-> NoPid]]
    /\ UNCHANGED <<pidfile, alive, issued, crashes>>

\* A forced acquire evicts a young dead holder and a busy one; any other
\* evicts a live holder that was not touched and does not use the GPU.
AcquireEvict(c) ==
    /\ Contended(c) /\ ~Stale /\ ~slot[c].no_evict
    /\ slot[c].force \/ (holder_alive /\ ~recent_touch)
    /\ StartEvict(c, slot[c])
    /\ UNCHANGED <<pidfile, alive, issued, crashes>>

\* The holder cannot be displaced now: draining, vram_busy, recovering, held
\* or busy.  Without a deadline passed, acquire sleeps and looks again, which
\* changes nothing.
MustWait(c) ==
    /\ slot[c].pc = "check" /\ Held
    /\ \/ DrainingFor(c)
       \/ Contended(c) /\ (slot[c].no_evict \/ (~slot[c].force /\ ~Stale))

AcquireDeny(c) ==
    /\ MustWait(c) /\ slot[c].acq >= slot[c].wait
    /\ Answer(c)
    /\ UNCHANGED <<row, pidfile, alive, issued, crashes>>

\* The wait for VRAM ended with the card free and the holder still dead.
WaitVramGrant(c) ==
    /\ slot[c].pc = "vram" /\ Drives(c) /\ ~holder_alive
    /\ row' = NewFields(c, EmptyRow)
    /\ Answer(c)
    /\ UNCHANGED <<pidfile, alive, issued, crashes>>

\* Mutant: the mark stays when the VRAM did not drain in time.
WaitVramGiveUpMarked(c) ==
    /\ slot[c].pc = "vram"
    /\ slot' = [slot EXCEPT ![c] =
           IF @.acq >= @.wait THEN IdleSlot
           ELSE [@ EXCEPT !.pc = "check", !.plan = NoPlan, !.age = 0]]
    /\ UNCHANGED <<row, pidfile, alive, issued, crashes>>

\* It did not, or the row changed: take the mark off if it is still ours, then
\* answer "vram_busy" or, before the deadline, look again.
WaitVramGiveUp(c) ==
    /\ slot[c].pc = "vram"
    /\ row' = IF Drives(c) THEN [row EXCEPT !.state = "active", !.since = NoStamp] ELSE row
    /\ slot' = [slot EXCEPT ![c] =
           IF @.acq >= @.wait THEN IdleSlot
           ELSE [@ EXCEPT !.pc = "check", !.plan = NoPlan, !.age = 0]]
    /\ UNCHANGED <<pidfile, alive, issued, crashes>>

-----------------------------------------------------------------------------
(* finish_evict and complete_evict *)

\* Mutant: an accepted POST is taken for the end of the process.
FinishPostTrusted(c) ==
    /\ slot[c].pc = "post"
    /\ \/ alive' = alive \ {pidfile[slot[c].plan.rt]}
       \/ alive' = alive
    /\ slot' = [slot EXCEPT ![c].pc = "unlink"]
    /\ UNCHANGED <<row, pidfile, issued, crashes>>

\* The POST asks the runtime's shutdown helper to stop the pid its pidfile
\* names by then.  The call may fail, and the process may outlive it.
FinishPost(c) ==
    /\ slot[c].pc = "post"
    /\ \/ alive' = alive \ {pidfile[slot[c].plan.rt]}
       \/ alive' = alive
    /\ slot' = [slot EXCEPT ![c].pc = "kill"]
    /\ UNCHANGED <<row, pidfile, issued, crashes>>

\* SIGTERM, the grace, SIGKILL: the captured process is gone afterwards.
FinishKill(c) ==
    /\ slot[c].pc = "kill"
    /\ alive' = alive \ {slot[c].plan.pid}
    /\ slot' = [slot EXCEPT ![c].pc = "unlink"]
    /\ UNCHANGED <<row, pidfile, issued, crashes>>

\* The pidfile goes whatever it names now; then the wait for VRAM.
FinishUnlink(c) ==
    /\ slot[c].pc = "unlink"
    /\ pidfile' = IF slot[c].plan.rt \in Tracked
                  THEN [pidfile EXCEPT ![slot[c].plan.rt] = NoPid] ELSE pidfile
    /\ slot' = [slot EXCEPT ![c].pc = "drain"]
    /\ UNCHANGED <<row, alive, issued, crashes>>

\* Mutant: the row is taken for the one that was marked, without a comparison.
EvictCompleteUnchecked(c) ==
    /\ slot[c].pc = "drain"
    /\ row' = IF slot[c].op = "acquire" THEN NewFields(c, EmptyRow) ELSE EmptyRow
    /\ Answer(c)
    /\ UNCHANGED <<pidfile, alive, issued, crashes>>

\* VRAM drained or the wait timed out.  An acquire takes the row over in the
\* same locked section; evict and watchdog leave it empty.
EvictComplete(c) ==
    /\ slot[c].pc = "drain" /\ Drives(c)
    /\ row' = IF slot[c].op = "acquire" THEN NewFields(c, EmptyRow) ELSE EmptyRow
    /\ Answer(c)
    /\ UNCHANGED <<pidfile, alive, issued, crashes>>

\* Mutant: an acquire that starts over does so without its deadline.
EvictLostRaceForEver(c) ==
    /\ slot[c].pc = "drain" /\ ~Drives(c)
    /\ slot' = [slot EXCEPT ![c] =
           IF @.op = "acquire" THEN [@ EXCEPT !.pc = "check", !.plan = NoPlan, !.age = 0,
                                              !.wait = MaxAge + 1]
           ELSE IdleSlot]
    /\ UNCHANGED <<row, pidfile, alive, issued, crashes>>

\* The row is another's by now.  acquire starts over, with no look at its
\* deadline; evict and watchdog give up.
EvictLostRace(c) ==
    /\ slot[c].pc = "drain" /\ ~Drives(c)
    /\ slot' = [slot EXCEPT ![c] =
           IF @.op = "acquire" THEN [@ EXCEPT !.pc = "check", !.plan = NoPlan, !.age = 0]
           ELSE IdleSlot]
    /\ UNCHANGED <<row, pidfile, alive, issued, crashes>>

-----------------------------------------------------------------------------
(* release, touch, evict, watchdog *)

\* A client of r gives the lease up, without a token as wingpu does or with the
\* token of the row; another token changes nothing.  The state is not looked at.
Release(r) ==
    /\ Held /\ row.rt = r
    /\ row' = EmptyRow
    /\ UNCHANGED <<slot, pidfile, alive, issued, crashes>>

Touch(r) ==
    /\ Held /\ row.rt = r
    /\ row' = [row EXCEPT !.act = 0]
    /\ UNCHANGED <<slot, pidfile, alive, issued, crashes>>

EvictCommand(c) ==
    /\ slot[c].pc = "idle" /\ Held /\ ~DrainingFor(c)
    /\ StartEvict(c, [IdleSlot EXCEPT !.op = "evict"])
    /\ UNCHANGED <<pidfile, alive, issued, crashes>>

\* _watchdog_once, a dead holder: the row is emptied, whatever the VRAM reads.
WatchdogClear(d) ==
    /\ slot[d].pc = "idle" /\ Held /\ ~DrainingFor(d) /\ Stale
    /\ row' = EmptyRow
    /\ UNCHANGED <<slot, pidfile, alive, issued, crashes>>

\* _watchdog_once, an idle holder that neither was touched nor uses the GPU.
WatchdogEvict(d) ==
    /\ slot[d].pc = "idle" /\ Held /\ ~DrainingFor(d) /\ ~Stale
    /\ idle_age >= IdleTimeout /\ ~recent_touch
    /\ StartEvict(d, [IdleSlot EXCEPT !.op = "watchdog"])
    /\ UNCHANGED <<pidfile, alive, issued, crashes>>

-----------------------------------------------------------------------------
(* Crashes, the runtimes' processes, and time *)

\* A command is killed: the kernel drops its flock, the row stays as it is.
\* Statements are committed one by one, so an acquire that dies between the
\* two of its hand-over leaves the row empty.
Crash(c) ==
    /\ slot[c].pc # "idle" /\ crashes < MaxCrashes
    /\ Answer(c)
    /\ \/ row' = row
       \/ slot[c].pc = "drain" /\ Drives(c) /\ row' = EmptyRow
    /\ crashes' = crashes + 1
    /\ UNCHANGED <<pidfile, alive, issued>>

\* A start script launches r's server and writes its pidfile.  A start goes
\* ahead without a lease when the broker does not answer.  The kernel gives no
\* pid that a command still remembers.
StartRuntime(p) ==
    /\ \A q \in alive : Owner[q] # Owner[p]
    /\ \A c \in Actors : p \notin {slot[c].pid, slot[c].plan.pid}
    /\ p # row.pid
    /\ alive' = alive \cup {p}
    /\ pidfile' = IF Owner[p] \in Tracked THEN [pidfile EXCEPT ![Owner[p]] = p] ELSE pidfile
    /\ UNCHANGED <<row, slot, issued, crashes>>

\* A server dies by itself and leaves its pidfile, or a stop script removes it.
ExitRuntime(p) ==
    /\ p \in alive
    /\ alive' = alive \ {p}
    /\ \/ pidfile' = pidfile
       \/ Owner[p] \in Tracked /\ pidfile' = [pidfile EXCEPT ![Owner[p]] = NoPid]
    /\ UNCHANGED <<row, slot, issued, crashes>>

Older(n) == IF n = NoStamp \/ n = MaxAge THEN n ELSE n + 1

\* One unit of time.  Outside the lock a command stays at most EvictTime.
Tick ==
    /\ \A c \in Actors : Driving(c) => slot[c].age < EvictTime(c)
    /\ row' = [row EXCEPT !.act = Older(@), !.acq = Older(@), !.since = Older(@)]
    /\ slot' = [c \in Actors |->
           [slot[c] EXCEPT !.acq = Older(@), !.age = IF Driving(c) THEN @ + 1 ELSE @]]
    /\ UNCHANGED <<pidfile, alive, issued, crashes>>

-----------------------------------------------------------------------------
(* The specification *)

Init ==
    /\ row = EmptyRow
    /\ slot = [c \in Actors |-> IdleSlot]
    /\ pidfile = [r \in Runtimes |-> NoPid]
    /\ alive = {}
    /\ issued = 0
    /\ crashes = 0

\* What a started acquire or eviction does next.
Acquire(c) == \/ GrantFree(c) \/ Reassert(c) \/ GrantStale(c) \/ WaitVramBegin(c)
              \/ AcquireEvict(c) \/ AcquireDeny(c) \/ WaitVramGrant(c) \/ WaitVramGiveUp(c)

Finish(c) == \/ FinishPost(c) \/ FinishKill(c) \/ FinishUnlink(c)
             \/ EvictComplete(c) \/ EvictLostRace(c)

Watchdog(d) == WatchdogClear(d) \/ WatchdogEvict(d)

Next ==
    \/ \E c \in Cmds : AcquireBegin(c) \/ Acquire(c) \/ EvictCommand(c)
    \/ \E d \in Dogs : Watchdog(d)
    \/ \E c \in Actors : Finish(c) \/ Crash(c)
    \/ \E r \in MayRelease : Release(r)
    \/ \E r \in MayTouch : Touch(r)
    \/ \E p \in Pids : StartRuntime(p) \/ ExitRuntime(p)
    \/ Tick

Spec == Init /\ [][Next]_vars

\* The operating system runs every command, clocks go on, and the watchdog
\* polls for as long as it lives.  Nobody has to begin a command, and no server
\* has to start or to stop.
FairSpec ==
    /\ Spec
    /\ WF_vars(Tick)
    /\ \A c \in Cmds : WF_vars(Acquire(c))
    /\ \A c \in Actors : WF_vars(Finish(c))
    /\ \A d \in Dogs : WF_vars(Watchdog(d))

-----------------------------------------------------------------------------
(* Properties *)

\* Every variable has its type.
TypeOK ==
    /\ row \in Rows
    /\ slot \in [Actors -> Slots]
    /\ pidfile \in [Runtimes -> Pids \cup {NoPid}]
    /\ alive \subseteq Pids
    /\ issued \in 0..MaxAcquires
    /\ crashes \in 0..MaxCrashes

\* At most one live command is evicting the current holder: a second acquire,
\* evict or watchdog never starts on a lease that another is draining.
OneEvictor == \A c, d \in Actors : Drives(c) /\ Drives(d) => c = d

\* While a command is evicting the lease that the row holds, the row is marked
\* draining: nobody took the mark off or had the lease confirmed meanwhile, so
\* complete_evict never drops a lease that a client was told it has.
EvictorOwnsDrain == \A c \in Actors : Drives(c) => row.state = "draining"

\* Why that holds, as an inductive invariant.  A token that an acquire has still
\* to use is in nobody's plan and not in the row; a held row has a token; and a
\* drain is exactly as old as its evictor, who is never older than an eviction
\* lasts, so that to nobody it looks abandoned.
TokensFresh ==
    /\ row.tok <= issued
    /\ \A c \in Actors :
          /\ slot[c].plan.tok <= issued
          /\ slot[c].op = "acquire" =>
                /\ 0 < slot[c].tok /\ slot[c].tok <= issued /\ slot[c].tok # row.tok
                /\ \A d \in Actors :
                      /\ slot[d].plan.tok # slot[c].tok
                      /\ d # c /\ slot[d].op = "acquire" => slot[d].tok # slot[c].tok

Shape ==
    /\ row.rt = NoRuntime <=> row.tok = NoToken
    /\ \A c \in Actors : slot[c].pc \in {"check", "vram"} => slot[c].op = "acquire"
    /\ \A c \in Actors : slot[c].op = "acquire" => slot[c].rt \in Runtimes
    /\ \A c \in Actors : slot[c].pc = "idle" => slot[c].op = "none"

DrainTimed ==
    \A c \in Actors :
        /\ Driving(c) => slot[c].age <= EvictTime(c)
        /\ Drives(c) => row.state = "draining" /\ row.since = slot[c].age

EvictionInv == TypeOK /\ TokensFresh /\ Shape /\ DrainTimed /\ OneEvictor

\* Unless a command crashed, a draining row has a live command that will drop
\* the row or take the mark off: no path of acquire leaves it behind.
NoOrphanDrain ==
    crashes = 0 /\ row.state = "draining" => \E c \in Actors : Drives(c)

\* From the unlink on, the process that start_evict found is gone, so the card
\* is not handed over while it runs; a restart in between does not count.
VictimDead ==
    \A c \in Actors : slot[c].pc \in {"unlink", "drain"} => slot[c].plan.pid \notin alive

\* The card is not granted while a command still waits outside the lock for an
\* eviction to finish.
DrainBlocksGrant ==
    [][Held' /\ row'.tok # row.tok => \A c \in Actors : ~Driving(c)']_vars

\* It is granted beside such a command only if a client of the very runtime that
\* is being evicted may have released the lease: nothing else frees the row.
KeptDrainBlocksGrant ==
    [][Held' /\ row'.tok # row.tok
       => \A c \in Actors : Driving(c)' => slot'[c].plan.rt \in MayRelease]_vars

\* A drain is abandoned (the mark is set again, or the lease is reasserted)
\* only when its evictor crashed.
OnlyCrashedDrainsAbandoned ==
    [][ /\ row.state = "draining" /\ row'.tok = row.tok
        /\ row'.since < row.since
        => \A c \in Actors : ~(Drives(c) /\ Driving(c)') ]_vars

\* Every acquire is answered: none waits for ever on a busy or draining holder.
\* One that lost the race for the row (its victim was released and the card
\* granted to another) starts over with its deadline behind it, and must then be
\* denied, granted, or evict again; it can lose only to another acquire.
AcquireAnswered == \A c \in Cmds : slot[c].pc = "check" ~> slot[c].pc = "idle"

\* A dead holder does not keep the card: the watchdog empties the row, if nobody
\* touches it and the server stays away, even when a crashed command marked it.
StaleReclaimed == Held /\ Stale ~> ~(Held /\ Stale)

\* While no command crashes, every drain ends.
DrainEnds ==
    row.state = "draining" /\ crashes = 0 ~> row.state # "draining" \/ crashes > 0

=============================================================================
