------------------------------ MODULE JobQueue ------------------------------
(***************************************************************************)
(* The older Docker job queue: the jobs table of bridge_db.py and the      *)
(* workers of worker.py that run its jobs.  Every call of BridgeDB is one  *)
(* transaction, so one action; a worker is a loop of such calls around the *)
(* process it watches.  A worker may crash and be started again; the       *)
(* container it ran may outlive it, and keeps its name.                    *)
(*                                                                         *)
(* Time is counted in ticks of half a minute or so, up to MaxAge.          *)
(***************************************************************************)
EXTENDS Naturals, FiniteSets

CONSTANTS
    Jobs,         \* job ids; a job is a row of the table, once submitted
    NoJob,
    max_retries,  \* max_retries[j]: how often j is tried again
    Contained,    \* jobs that run in a container
    Names,
    name,         \* name[j]: of the container of j, of the head of its id
    Workers,
    Slow,         \* workers that may be late with a heartbeat
    StaleSeconds, \* in ticks: the age at which a heartbeat is too old
    MaxAge,       \* bound of ages
    MaxCrashes    \* bound: how often a worker crashes

ASSUME JobsAssumption == NoJob \notin Jobs /\ max_retries \in [Jobs -> Nat]
ASSUME NamesAssumption == Contained \subseteq Jobs /\ name \in [Contained -> Names]
ASSUME WorkersAssumption == Slow \subseteq Workers
ASSUME TimesAssumption ==
    StaleSeconds \in Nat /\ MaxAge \in Nat /\ MaxCrashes \in Nat
    /\ 1 < StaleSeconds /\ StaleSeconds < MaxAge

VARIABLES
    state,    \* state[j], "none" before it is submitted
    age,      \* age[j]: ticks since heartbeat_at, while j is running
    retry_count,
    cancel_requested,
    backoff,  \* backoff[j]: retry_after lies ahead
    pc,       \* pc[w]: where worker w is
    mine,     \* mine[w]: the job w claimed
    turn,     \* turn[w]: its retry_count at the claim
    proc,     \* proc[w]: the process of the claim: "none", "starts" (docker run,
              \* its container is not there yet), "runs", "ok" or "bad"
    canceled, \* canceled[w]: w found the cancel flag set
    rested,   \* workers that have been round their watch since the last tick
    box,      \* box[n]: whose container has the name n, or NoJob
    adrift,   \* adrift[j]: docker runs of j that nobody waits for any more, and
              \* whose container was not there yet
    stray,    \* names that went to the container of such a run
    claims,   \* claims[j]: how often j was claimed
    lagged,   \* a worker let the heartbeat of its job grow too old
    crashes

row    == <<state, age, retry_count, cancel_requested, backoff>>
worker == <<pc, mine, turn, proc, canceled, rested>>
docker == <<box, adrift, stray>>
ghost  == <<claims, lagged>>
vars   == <<row, worker, docker, ghost, crashes>>

Terminal == {"succeeded", "failed", "canceled", "interrupted"}

\* w has a job that it has not reported on.
Busy(w) == mine[w] # NoJob

\* The job w has is still the one it claimed.
Owns(w) == Busy(w) /\ state[mine[w]] = "running" /\ retry_count[mine[w]] = turn[w]

\* What w watches is a container.
Inside(w) == proc[w] = "runs" /\ mine[w] \in Contained

Go(w, to) == pc' = [pc EXCEPT ![w] = to]

\* w has nothing to do with its job any more.
Drop(w) ==
    /\ mine' = [mine EXCEPT ![w] = NoJob] /\ turn' = [turn EXCEPT ![w] = 0]
    /\ proc' = [proc EXCEPT ![w] = "none"] /\ canceled' = [canceled EXCEPT ![w] = FALSE]
    /\ rested' = rested \ {w}

\* A docker run of w that has no container yet is left on its own: the signal goes
\* to the client, and what it asked of Docker may be done all the same.
LeaveStarting(w) ==
    adrift' = [j \in Contained |-> IF proc[w] = "starts" /\ mine[w] = j THEN adrift[j] + 1
                                   ELSE adrift[j]]

-----------------------------------------------------------------------------
(* bridge_ctl.py *)

Submit(j) ==
    /\ state[j] = "none" /\ state' = [state EXCEPT ![j] = "queued"]
    /\ UNCHANGED <<age, retry_count, cancel_requested, backoff, worker, docker, ghost, crashes>>

\* Mutant: a job that does not run is canceled on the spot.
RequestCancelNow(j) ==
    /\ state[j] # "none" /\ ~cancel_requested[j]
    /\ cancel_requested' = [cancel_requested EXCEPT ![j] = TRUE]
    /\ state' = IF state[j] = "running" THEN state ELSE [state EXCEPT ![j] = "canceled"]
    /\ UNCHANGED <<age, retry_count, backoff, worker, docker, ghost, crashes>>

\* request_cancel sets the flag whatever the job's state.
RequestCancel(j) ==
    /\ state[j] # "none" /\ ~cancel_requested[j]
    /\ cancel_requested' = [cancel_requested EXCEPT ![j] = TRUE]
    /\ UNCHANGED <<state, age, retry_count, backoff, worker, docker, ghost, crashes>>

-----------------------------------------------------------------------------
(* Retries *)

CanRetry(j) == retry_count[j] < max_retries[j]

\* Mutant: the retry is not counted.
RequeuedUncounted(S) ==
    /\ retry_count' = retry_count
    /\ cancel_requested' = [j \in Jobs |-> j \notin S /\ cancel_requested[j]]
    /\ backoff' = [j \in Jobs |-> j \in S \/ backoff[j]]

\* The rows of S are queued again: counted, delayed, and no longer to be canceled.
Requeued(S) ==
    /\ retry_count' = [j \in Jobs |-> IF j \in S THEN retry_count[j] + 1 ELSE retry_count[j]]
    /\ cancel_requested' = [j \in Jobs |-> j \notin S /\ cancel_requested[j]]
    /\ backoff' = [j \in Jobs |-> j \in S \/ backoff[j]]

-----------------------------------------------------------------------------
(* The loop of a worker *)

\* Mutant: every job that runs is taken for one whose worker is gone.
StaleAny(j) == state[j] = "running"

\* Mutant: a job without retries left is passed over.
StaleIfRetries(j) == state[j] = "running" /\ age[j] > StaleSeconds /\ CanRetry(j)

StaleJob(j) == state[j] = "running" /\ age[j] > StaleSeconds

\* mark_stale_running_as_interrupted.
MarkStale(w) ==
    /\ pc[w] = "loop" /\ Go(w, "claim")
    /\ LET gone  == {j \in Jobs : StaleJob(j)}
           again == {j \in gone : CanRetry(j)}
       IN  /\ state' = [j \in Jobs |-> IF j \in again THEN "queued"
                                       ELSE IF j \in gone THEN "interrupted" ELSE state[j]]
           /\ Requeued(again)
           /\ age' = [j \in Jobs |-> IF j \in gone THEN 0 ELSE age[j]]
    /\ UNCHANGED <<mine, turn, proc, canceled, rested, docker, ghost, crashes>>

Claimable(j) == state[j] = "queued" /\ ~backoff[j]

\* claim_next takes a queued job that is due.  Which of them is the oldest does
\* not matter here.
ClaimNext(w) ==
    /\ pc[w] = "claim"
    /\ \E j \in Jobs :
        /\ Claimable(j)
        /\ state' = [state EXCEPT ![j] = "running"]
        /\ age' = [age EXCEPT ![j] = 0]
        /\ mine' = [mine EXCEPT ![w] = j]
        /\ turn' = [turn EXCEPT ![w] = retry_count[j]]
        /\ claims' = [claims EXCEPT ![j] = @ + 1]
    /\ Go(w, "launch") /\ rested' = rested \cup {w}
    /\ UNCHANGED <<retry_count, cancel_requested, backoff, proc, canceled, docker, lagged, crashes>>

NothingToDo(w) ==
    /\ pc[w] = "claim" /\ \A j \in Jobs : ~Claimable(j)
    /\ Go(w, "loop")
    /\ UNCHANGED <<row, mine, turn, proc, canceled, rested, docker, ghost, crashes>>

-----------------------------------------------------------------------------
(* _run_job *)

\* proc.poll() is None.
Alive == {"starts", "runs"}

Launch(w) ==
    /\ pc[w] = "launch" /\ Go(w, "watch")
    /\ proc' = [proc EXCEPT ![w] = IF mine[w] \in Contained THEN "starts" ELSE "runs"]
    /\ UNCHANGED <<row, mine, turn, canceled, rested, docker, ghost, crashes>>

\* Mutant: the container has no name of its own.
ContainerStartsAnyway(w) ==
    /\ proc[w] = "starts" /\ proc' = [proc EXCEPT ![w] = "runs"]
    /\ box' = [box EXCEPT ![name[mine[w]]] = mine[w]]
    /\ UNCHANGED <<row, pc, mine, turn, canceled, rested, adrift, stray, ghost, crashes>>

\* docker run gets a container, if the name is free, or fails.
ContainerStarts(w) ==
    /\ proc[w] = "starts"
    /\ \/ /\ box[name[mine[w]]] = NoJob
          /\ box' = [box EXCEPT ![name[mine[w]]] = mine[w]]
          /\ proc' = [proc EXCEPT ![w] = "runs"]
       \/ proc' = [proc EXCEPT ![w] = "bad"] /\ UNCHANGED box
    /\ UNCHANGED <<row, pc, mine, turn, canceled, rested, adrift, stray, ghost, crashes>>

\* Its process ends, well or badly, and with it a container (--rm).
ProcessEnds(w) ==
    /\ proc[w] = "runs"
    /\ \E rc \in {"ok", "bad"} : proc' = [proc EXCEPT ![w] = rc]
    /\ box' = IF Inside(w) THEN [box EXCEPT ![name[mine[w]]] = NoJob] ELSE box
    /\ UNCHANGED <<row, pc, mine, turn, canceled, rested, adrift, stray, ghost, crashes>>

\* A run that was left on its own gets its container after all, if the name is
\* free, or comes to nothing.
LeftStarts(j) ==
    /\ adrift[j] > 0 /\ adrift' = [adrift EXCEPT ![j] = @ - 1]
    /\ \/ /\ box[name[j]] = NoJob /\ box' = [box EXCEPT ![name[j]] = j]
          /\ stray' = stray \cup {name[j]}
       \/ UNCHANGED <<box, stray>>
    /\ UNCHANGED <<row, worker, ghost, crashes>>

\* A container that no worker watches ends at last.
LeftEnds(n) ==
    /\ box[n] # NoJob /\ \A w \in Workers : Inside(w) => name[mine[w]] # n
    /\ box' = [box EXCEPT ![n] = NoJob] /\ stray' = stray \ {n}
    /\ UNCHANGED <<row, worker, adrift, ghost, crashes>>

\* Mutant: the watch goes on, and no heartbeat is written.
HeartbeatForgotten(w) ==
    /\ pc[w] = "watch" /\ proc[w] \in Alive /\ w \notin rested
    /\ rested' = rested \cup {w}
    /\ UNCHANGED <<row, pc, mine, turn, proc, canceled, docker, ghost, crashes>>

\* A round of the watch that is due for a heartbeat; it is written if the row is
\* still running.  There are several rounds to a tick: one is as good.
Heartbeat(w) ==
    /\ pc[w] = "watch" /\ proc[w] \in Alive /\ w \notin rested
    /\ rested' = rested \cup {w}
    /\ age' = IF state[mine[w]] = "running" THEN [age EXCEPT ![mine[w]] = 0] ELSE age
    /\ UNCHANGED <<state, retry_count, cancel_requested, backoff,
                   pc, mine, turn, proc, canceled, docker, ghost, crashes>>

\* Mutant: the flag is looked at only when the process has ended.
SeeCancelLate(w) ==
    /\ pc[w] = "watch" /\ cancel_requested[mine[w]] /\ proc[w] \notin Alive
    /\ Go(w, "report") /\ canceled' = [canceled EXCEPT ![w] = TRUE]
    /\ UNCHANGED <<row, mine, turn, proc, rested, docker, ghost, crashes>>

\* Mutant: docker run is told to end, and its container need not heed.
SeeCancelOutside(w) ==
    /\ pc[w] = "watch" /\ proc[w] \in Alive /\ cancel_requested[mine[w]]
    /\ Go(w, "report") /\ canceled' = [canceled EXCEPT ![w] = TRUE]
    /\ proc' = [proc EXCEPT ![w] = "bad"] /\ LeaveStarting(w)
    /\ UNCHANGED <<row, mine, turn, rested, box, stray, ghost, crashes>>

\* A round that finds the flag set: the process is killed, and the container that
\* has the job's name, whosever it is; one that is not there yet is not found.
SeeCancel(w) ==
    /\ pc[w] = "watch" /\ proc[w] \in Alive /\ cancel_requested[mine[w]]
    /\ Go(w, "report") /\ canceled' = [canceled EXCEPT ![w] = TRUE]
    /\ LeaveStarting(w)
    /\ LET killed == {n \in Names : mine[w] \in Contained /\ n = name[mine[w]]}
       IN  /\ box' = [n \in Names |-> IF n \in killed THEN NoJob ELSE box[n]]
           /\ stray' = stray \ killed
           /\ proc' = [v \in Workers |->
                 IF v = w \/ (Inside(v) /\ name[mine[v]] \in killed) THEN "bad" ELSE proc[v]]
    /\ UNCHANGED <<row, mine, turn, rested, ghost, crashes>>

\* Mutant: a process that ended badly is taken for one that was canceled.
EndedCanceled(w) ==
    /\ pc[w] = "watch" /\ proc[w] \notin Alive /\ Go(w, "report")
    /\ canceled' = [canceled EXCEPT ![w] = proc[w] = "bad"]
    /\ UNCHANGED <<row, mine, turn, proc, rested, docker, ghost, crashes>>

Ended(w) ==
    /\ pc[w] = "watch" /\ proc[w] \notin Alive /\ Go(w, "report")
    /\ UNCHANGED <<row, mine, turn, proc, canceled, rested, docker, ghost, crashes>>

\* finish does not look at the row's state, nor does requeue_after_failure.
Report(w) ==
    /\ pc[w] = "report" /\ Go(w, "loop")
    /\ LET j == mine[w] IN
       \/ /\ canceled[w] \/ proc[w] = "ok"
          /\ state' = [state EXCEPT ![j] = IF canceled[w] THEN "canceled" ELSE "succeeded"]
          /\ cancel_requested' = [cancel_requested EXCEPT ![j] = FALSE]
          /\ UNCHANGED <<retry_count, backoff>>
       \/ /\ ~canceled[w] /\ proc[w] = "bad" /\ CanRetry(j)
          /\ state' = [state EXCEPT ![j] = "queued"]
          /\ Requeued({j})
       \/ /\ ~canceled[w] /\ proc[w] = "bad" /\ ~CanRetry(j)
          /\ state' = [state EXCEPT ![j] = "failed"]
          /\ UNCHANGED <<retry_count, cancel_requested, backoff>>
    /\ age' = [age EXCEPT ![mine[w]] = 0]
    /\ Drop(w)
    /\ UNCHANGED <<docker, ghost, crashes>>

\* A worker dies, of an exception in _run_job or otherwise.  Its job stays as it is
\* in the table, and its container goes on, or is still to come.
Crash(w) ==
    /\ pc[w] # "down" /\ crashes < MaxCrashes /\ crashes' = crashes + 1
    /\ Go(w, "down") /\ Drop(w) /\ LeaveStarting(w)
    /\ UNCHANGED <<row, box, stray, ghost>>

\* Restart=always of the unit.
Restart(w) ==
    /\ pc[w] = "down" /\ Go(w, "loop")
    /\ UNCHANGED <<row, mine, turn, proc, canceled, rested, docker, ghost, crashes>>

-----------------------------------------------------------------------------
(* Time *)

\* A tick passes, longer than the interval of the heartbeats and than a report
\* takes: a worker that is not slow has been round its watch since the last one, or
\* has no job.  What it did there is not said here.
Tick ==
    /\ \A w \in Workers \ Slow : Busy(w) => w \in rested
    /\ \E j \in Jobs : state[j] = "running" /\ age[j] < MaxAge
    /\ age' = [j \in Jobs |-> IF state[j] = "running" /\ age[j] < MaxAge
                              THEN age[j] + 1 ELSE age[j]]
    /\ lagged' = (lagged \/ \E w \in Workers : Owns(w) /\ age'[mine[w]] > StaleSeconds)
    /\ rested' = {}
    /\ UNCHANGED <<state, retry_count, cancel_requested, backoff,
                   pc, mine, turn, proc, canceled, docker, claims, crashes>>

\* retry_after of j has passed.
RetryAfter(j) ==
    /\ backoff[j] /\ backoff' = [backoff EXCEPT ![j] = FALSE]
    /\ UNCHANGED <<state, age, retry_count, cancel_requested, worker, docker, ghost, crashes>>

-----------------------------------------------------------------------------
(* The specification *)

Init ==
    /\ state = [j \in Jobs |-> "none"] /\ age = [j \in Jobs |-> 0]
    /\ retry_count = [j \in Jobs |-> 0]
    /\ cancel_requested = [j \in Jobs |-> FALSE] /\ backoff = [j \in Jobs |-> FALSE]
    /\ pc = [w \in Workers |-> "loop"] /\ mine = [w \in Workers |-> NoJob]
    /\ turn = [w \in Workers |-> 0] /\ proc = [w \in Workers |-> "none"]
    /\ canceled = [w \in Workers |-> FALSE] /\ rested = {}
    /\ box = [n \in Names |-> NoJob] /\ adrift = [j \in Contained |-> 0] /\ stray = {}
    /\ claims = [j \in Jobs |-> 0] /\ lagged = FALSE /\ crashes = 0

\* What the program of w does; its process may end or not.
Work(w) ==
    \/ MarkStale(w) \/ ClaimNext(w) \/ NothingToDo(w)
    \/ Launch(w) \/ SeeCancel(w) \/ Ended(w) \/ Report(w)

Next ==
    \/ \E j \in Jobs : Submit(j) \/ RequestCancel(j) \/ RetryAfter(j)
    \/ \E w \in Workers :
        \/ Work(w) \/ Heartbeat(w) \/ ContainerStarts(w) \/ ProcessEnds(w)
        \/ Crash(w) \/ Restart(w)
    \/ \E j \in Contained : LeftStarts(j)
    \/ \E n \in Names : LeftEnds(n)
    \/ Tick

Spec == Init /\ [][Next]_vars

\* Workers run and are restarted, and time passes; jobs need not end, unless
\* they are canceled, and none has to be submitted.
FairSpec ==
    /\ Spec
    /\ WF_vars(Tick) /\ \A j \in Jobs : WF_vars(RetryAfter(j))
    /\ \A w \in Workers :
        /\ WF_vars(Work(w)) /\ WF_vars(Heartbeat(w)) /\ WF_vars(Restart(w))

-----------------------------------------------------------------------------
(* Properties *)

\* Every variable has its type.
TypeOK ==
    /\ state \in [Jobs -> {"none", "queued", "running"} \cup Terminal]
    /\ age \in [Jobs -> 0..MaxAge] /\ retry_count \in [Jobs -> Nat]
    /\ \A j \in Jobs : retry_count[j] <= max_retries[j]
    /\ cancel_requested \in [Jobs -> BOOLEAN] /\ backoff \in [Jobs -> BOOLEAN]
    /\ pc \in [Workers -> {"down", "loop", "claim", "launch", "watch", "report"}]
    /\ mine \in [Workers -> Jobs \cup {NoJob}] /\ turn \in [Workers -> Nat]
    /\ proc \in [Workers -> {"none", "starts", "runs", "ok", "bad"}]
    /\ canceled \in [Workers -> BOOLEAN] /\ rested \subseteq Workers
    /\ box \in [Names -> Jobs \cup {NoJob}] /\ adrift \in [Contained -> Nat]
    /\ stray \subseteq Names
    /\ claims \in [Jobs -> Nat] /\ lagged \in BOOLEAN /\ crashes \in 0..MaxCrashes

\* However workers crash, lag, and report on jobs that are no longer theirs, a
\* job is started once and then at most max_retries times more.
StartsBounded == \A j \in Jobs : claims[j] <= max_retries[j] + 1

\* Why that holds, as an inductive invariant: a job that waits to be claimed was
\* claimed once for each retry counted so far, any other once more.
ClaimsCounted ==
    \A j \in Jobs :
        /\ claims[j] <= retry_count[j] + 1
        /\ state[j] \in {"none", "queued"} => claims[j] <= retry_count[j]

StartsInv == TypeOK /\ ClaimsCounted

\* The row of a worker that gets round its watch in time never looks stale to the
\* others, from the claim to the report, whatever the late ones write.
FreshKept == \A w \in Workers \ Slow : Owns(w) => ~StaleJob(mine[w])

\* While heartbeats are written in time, a job has one worker, and the table says
\* so: nobody else takes it, starts it or reports on it.
OneWorker ==
    ~lagged => \A w, v \in Workers :
        /\ Busy(w) => Owns(w)
        /\ w # v /\ Busy(w) => mine[w] # mine[v]

\* A job that has ended stays ended, while heartbeats are written in time.
EndedStays ==
    [][\A j \in Jobs : ~lagged /\ state[j] \in Terminal => state'[j] = state[j]]_vars

\* Whoever watches a container watches that of its own job, and watches it alone,
\* though a late worker's job was given to another, a container outlived its
\* worker, or another job's container has the same name.
RunsApart ==
    \A w \in Workers : Inside(w) =>
        /\ box[name[mine[w]]] = mine[w]
        /\ \A v \in Workers : Inside(v) /\ name[mine[v]] = name[mine[w]] => v = w

\* While heartbeats are written in time, a job that was reported canceled or
\* succeeded has left no container, not that of an earlier run either, whose
\* worker died; but a docker run that was left on its own before its container was
\* there, by a cancel or by a crash, may bring one up when nobody looks any more.
EndedClean ==
    ~lagged => \A j \in Contained :
        state[j] \in {"canceled", "succeeded"} /\ box[name[j]] = j => name[j] \in stray

\* A running job that is to be canceled does not go on for ever, though its
\* process may, as long as its worker lives.
CancelEnds ==
    \A j \in Jobs :
        LET Asked == state[j] = "running" /\ cancel_requested[j]
                     /\ \E w \in Workers : mine[w] = j
        IN  Asked ~> ~Asked

\* A job whose worker is gone is taken up again, or given up, if not all workers
\* are for ever busy with jobs that do not end.
OrphanTaken ==
    []<>(\E w \in Workers : pc[w] = "loop") =>
        \A j \in Jobs :
            LET Orphan == state[j] = "running" /\ \A w \in Workers : mine[w] # j
            IN  Orphan ~> ~Orphan
=============================================================================
