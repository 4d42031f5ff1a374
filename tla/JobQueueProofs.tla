--------------------------- MODULE JobQueueProofs ---------------------------
(***************************************************************************)
(* Proofs about the job queue, for any jobs, workers and limits.  Type     *)
(* correctness and the count of starts are proved together, one step for   *)
(* each action; the bound on the starts follows from the two.  At the end  *)
(* the queue is shown to implement JobLife, and to keep its strict form    *)
(* where no worker lets its heartbeats grow stale.                         *)
(***************************************************************************)
EXTENDS JobQueueLife, TLAPS

\* Nothing has been claimed at first, nor retried.
LEMMA StartsInit == Init => StartsInv
<1>. SUFFICES ASSUME Init PROVE StartsInv
  OBVIOUS
<1>1. /\ age \in [Jobs -> 0..MaxAge] /\ crashes \in 0..MaxCrashes
  BY TimesAssumption DEF Init
<1>2. \A j \in Jobs : retry_count[j] <= max_retries[j]
  BY JobsAssumption DEF Init
<1>3. ClaimsCounted
  BY DEF Init, ClaimsCounted
<1>. QED BY <1>1, <1>2, <1>3 DEF Init, StartsInv, TypeOK

\* A requeue counts the retry: where there is one left, the count stays bounded.
LEMMA RequeuedType ==
    ASSUME TypeOK, NEW S \in SUBSET Jobs, \A j \in S : CanRetry(j), Requeued(S)
    PROVE  /\ retry_count' \in [Jobs -> Nat]
           /\ \A j \in Jobs : retry_count'[j] <= max_retries[j]
           /\ \A j \in Jobs : retry_count'[j] =
                  IF j \in S THEN retry_count[j] + 1 ELSE retry_count[j]
           /\ cancel_requested' \in [Jobs -> BOOLEAN] /\ backoff' \in [Jobs -> BOOLEAN]
BY JobsAssumption DEF TypeOK, Requeued, CanRetry

\* What is left of a worker's job when it drops it has its type.
LEMMA DropType ==
    ASSUME TypeOK, NEW w \in Workers, Drop(w)
    PROVE  /\ mine' \in [Workers -> Jobs \cup {NoJob}] /\ turn' \in [Workers -> Nat]
           /\ proc' \in [Workers -> {"none", "starts", "runs", "ok", "bad"}]
           /\ canceled' \in [Workers -> BOOLEAN] /\ rested' \subseteq Workers
<1>1. mine' \in [Workers -> Jobs \cup {NoJob}] /\ turn' \in [Workers -> Nat]
  BY DEF TypeOK, Drop
<1>2. proc' \in [Workers -> {"none", "starts", "runs", "ok", "bad"}]
  BY DEF TypeOK, Drop
<1>3. canceled' \in [Workers -> BOOLEAN] /\ rested' \subseteq Workers
  BY DEF TypeOK, Drop
<1>. QED BY <1>1, <1>2, <1>3

\* A run that is left on its own is counted.
LEMMA LeaveType == ASSUME TypeOK, NEW w \in Workers, LeaveStarting(w) PROVE adrift' \in [Contained -> Nat]
BY DEF TypeOK, LeaveStarting

\* Stale jobs are queued again with their retry counted, or leave the queue.
LEMMA MarkStaleStep ==
    ASSUME StartsInv, NEW w \in Workers, MarkStale(w) PROVE StartsInv'
<1> DEFINE gone  == {j \in Jobs : StaleJob(j)}
           again == {j \in gone : CanRetry(j)}
<1>1. Requeued(again) BY DEF MarkStale
<1>2. /\ again \in SUBSET Jobs /\ \A j \in again : CanRetry(j)
      /\ TypeOK
  BY DEF StartsInv
<1>3. /\ retry_count' \in [Jobs -> Nat]
      /\ \A j \in Jobs : retry_count'[j] <= max_retries[j]
      /\ \A j \in Jobs : retry_count'[j] =
             IF j \in again THEN retry_count[j] + 1 ELSE retry_count[j]
      /\ cancel_requested' \in [Jobs -> BOOLEAN] /\ backoff' \in [Jobs -> BOOLEAN]
  <2> HIDE DEF again
  <2>. QED BY <1>1, <1>2, RequeuedType
<1>4. /\ state' = [j \in Jobs |-> IF j \in again THEN "queued"
                                  ELSE IF j \in gone THEN "interrupted" ELSE state[j]]
      /\ age' = [j \in Jobs |-> IF j \in gone THEN 0 ELSE age[j]]
      /\ pc' = [pc EXCEPT ![w] = "claim"]
      /\ UNCHANGED <<mine, turn, proc, canceled, rested, docker, claims, lagged, crashes>>
  BY DEF MarkStale, Go, ghost
<1> HIDE DEF gone, again
<1>5. TypeOK'
  BY <1>3, <1>4, TimesAssumption DEF StartsInv, TypeOK, Terminal, docker
<1>6. ClaimsCounted'
  BY <1>3, <1>4 DEF StartsInv, TypeOK, ClaimsCounted
<1>. QED BY <1>5, <1>6 DEF StartsInv

\* A claim takes a job whose last claim has been counted as a retry.
LEMMA ClaimNextStep ==
    ASSUME StartsInv, NEW w \in Workers, ClaimNext(w) PROVE StartsInv'
<1>1. PICK j \in Jobs :
        /\ state[j] = "queued" /\ state' = [state EXCEPT ![j] = "running"]
        /\ age' = [age EXCEPT ![j] = 0] /\ mine' = [mine EXCEPT ![w] = j]
        /\ turn' = [turn EXCEPT ![w] = retry_count[j]]
        /\ claims' = [claims EXCEPT ![j] = @ + 1]
  BY DEF ClaimNext, Claimable
<1>2. /\ pc' = [pc EXCEPT ![w] = "launch"]
      /\ rested' = rested \cup {w}
      /\ UNCHANGED <<retry_count, cancel_requested, backoff, proc, canceled, docker, lagged, crashes>>
  BY DEF ClaimNext, Go
<1>3. TypeOK'
  BY <1>1, <1>2, TimesAssumption DEF StartsInv, TypeOK, docker
<1>4. ClaimsCounted'
  BY <1>1, <1>2 DEF StartsInv, TypeOK, ClaimsCounted
<1>. QED BY <1>3, <1>4 DEF StartsInv

\* A report requeues with the retry counted, or ends the job, whoever owns it.
LEMMA ReportStep ==
    ASSUME StartsInv, NEW w \in Workers, Report(w) PROVE StartsInv'
<1> DEFINE j == mine[w]
<1>1. /\ pc' = [pc EXCEPT ![w] = "loop"]
      /\ age' = [age EXCEPT ![j] = 0]
      /\ mine' = [mine EXCEPT ![w] = NoJob] /\ turn' = [turn EXCEPT ![w] = 0]
      /\ proc' = [proc EXCEPT ![w] = "none"] /\ canceled' = [canceled EXCEPT ![w] = FALSE]
      /\ rested' = rested \ {w}
      /\ UNCHANGED <<docker, claims, lagged, crashes>>
  BY DEF Report, Go, Drop, ghost
<1>2. /\ age' \in [Jobs -> 0..MaxAge]
      /\ pc' \in [Workers -> {"down", "loop", "claim", "launch", "watch", "report"}]
      /\ mine' \in [Workers -> Jobs \cup {NoJob}] /\ turn' \in [Workers -> Nat]
      /\ proc' \in [Workers -> {"none", "starts", "runs", "ok", "bad"}]
      /\ canceled' \in [Workers -> BOOLEAN]
      /\ rested' \subseteq Workers
      /\ box' \in [Names -> Jobs \cup {NoJob}] /\ adrift' \in [Contained -> Nat] /\ stray' \subseteq Names
      /\ claims' \in [Jobs -> Nat] /\ lagged' \in BOOLEAN /\ crashes' \in 0..MaxCrashes
  <2>1. 0 \in 0..MaxAge
    BY TimesAssumption
  <2>. QED BY <1>1, <2>1 DEF StartsInv, TypeOK, docker
<1>3. CASE /\ \E s \in Terminal : state' = [state EXCEPT ![j] = s]
           /\ \/ cancel_requested' = [cancel_requested EXCEPT ![j] = FALSE]
              \/ cancel_requested' = cancel_requested
           /\ UNCHANGED <<retry_count, backoff>>
  <2>1. TypeOK'
    BY <1>3, <1>2 DEF StartsInv, TypeOK, Terminal
  <2>2. ClaimsCounted'
    BY <1>1, <1>3 DEF StartsInv, TypeOK, ClaimsCounted, Terminal
  <2>. QED BY <2>1, <2>2 DEF StartsInv
<1>4. CASE /\ CanRetry(j) /\ state' = [state EXCEPT ![j] = "queued"] /\ Requeued({j})
  <2> DEFINE S == {i \in Jobs : i = j}
  <2>1. Requeued(S) /\ S \in SUBSET Jobs /\ \A i \in S : CanRetry(i)
    BY <1>4 DEF Requeued
  <2>2. /\ retry_count' \in [Jobs -> Nat]
        /\ \A i \in Jobs : retry_count'[i] <= max_retries[i]
        /\ \A i \in Jobs : retry_count'[i] =
               IF i \in S THEN retry_count[i] + 1 ELSE retry_count[i]
        /\ cancel_requested' \in [Jobs -> BOOLEAN] /\ backoff' \in [Jobs -> BOOLEAN]
    <3> HIDE DEF S
    <3>. QED BY <2>1, RequeuedType DEF StartsInv
  <2>3. TypeOK'
    BY <1>4, <1>2, <2>2 DEF StartsInv, TypeOK
  <2>4. ClaimsCounted'
    BY <1>1, <1>4, <2>2 DEF StartsInv, TypeOK, ClaimsCounted
  <2>. QED BY <2>3, <2>4 DEF StartsInv
<1>. QED BY <1>3, <1>4 DEF Report, Terminal

\* Every step keeps the count.
LEMMA StartsStep == StartsInv /\ [Next]_vars => StartsInv'
<1>. SUFFICES ASSUME StartsInv, [Next]_vars PROVE StartsInv'
  OBVIOUS
<1>. USE DEF StartsInv, TypeOK, ClaimsCounted
<1>1. ASSUME NEW j \in Jobs, Submit(j) \/ RequestCancel(j) \/ RetryAfter(j) PROVE StartsInv'
  BY <1>1 DEF Submit, RequestCancel, RetryAfter, worker, docker, ghost
<1>2. ASSUME NEW w \in Workers, NothingToDo(w) \/ Launch(w) \/ Ended(w) PROVE StartsInv'
  BY <1>2 DEF NothingToDo, Launch, Ended, Go, row, docker, ghost
<1>3. ASSUME NEW w \in Workers, SeeCancel(w) PROVE StartsInv'
  <2>1. /\ box' \in [Names -> Jobs \cup {NoJob}]
        /\ proc' \in [Workers -> {"none", "starts", "runs", "ok", "bad"}]
        /\ stray' \subseteq Names
    BY <1>3 DEF SeeCancel
  <2>2. adrift' \in [Contained -> Nat]
    BY <1>3, LeaveType DEF SeeCancel
  <2>. QED BY <1>3, <2>1, <2>2 DEF SeeCancel, Go, row, ghost
<1>4. ASSUME NEW w \in Workers, Heartbeat(w) PROVE StartsInv'
  <2>1. 0 \in 0..MaxAge
    BY TimesAssumption
  <2>2. age' \in [Jobs -> 0..MaxAge]
    BY <1>4, <2>1 DEF Heartbeat
  <2>. QED BY <1>4, <2>2 DEF Heartbeat, docker, ghost
<1>5. ASSUME NEW w \in Workers, ContainerStarts(w) \/ ProcessEnds(w) PROVE StartsInv'
  <2>1. box' \in [Names -> Jobs \cup {NoJob}]
    BY <1>5 DEF ContainerStarts, ProcessEnds
  <2>2. proc' \in [Workers -> {"none", "starts", "runs", "ok", "bad"}]
    BY <1>5 DEF ContainerStarts, ProcessEnds
  <2>. QED BY <1>5, <2>1, <2>2 DEF ContainerStarts, ProcessEnds, row, ghost
<1>6. ASSUME NEW w \in Workers, Crash(w) \/ Restart(w) PROVE StartsInv'
  <2>1. crashes' \in 0..MaxCrashes
    <3>1. CASE Crash(w)
      <4>1. crashes \in Nat /\ crashes < MaxCrashes /\ crashes' = crashes + 1
        BY <3>1, TimesAssumption DEF Crash
      <4>. QED BY <4>1, TimesAssumption
    <3>2. CASE Restart(w)
      BY <3>2 DEF Restart
    <3>. QED BY <1>6, <3>1, <3>2
  <2>2. /\ pc' \in [Workers -> {"down", "loop", "claim", "launch", "watch", "report"}]
        /\ mine' \in [Workers -> Jobs \cup {NoJob}] /\ turn' \in [Workers -> Nat]
        /\ proc' \in [Workers -> {"none", "starts", "runs", "ok", "bad"}]
        /\ canceled' \in [Workers -> BOOLEAN] /\ rested' \subseteq Workers
    <3>1. Go(w, "down") \/ Go(w, "loop")
      BY <1>6 DEF Crash, Restart
    <3>2. Drop(w) \/ UNCHANGED <<mine, turn, proc, canceled, rested>>
      BY <1>6 DEF Crash, Restart
    <3>3. pc' \in [Workers -> {"down", "loop", "claim", "launch", "watch", "report"}]
      BY <3>1 DEF Go
    <3>4. /\ mine' \in [Workers -> Jobs \cup {NoJob}] /\ turn' \in [Workers -> Nat]
          /\ proc' \in [Workers -> {"none", "starts", "runs", "ok", "bad"}]
          /\ canceled' \in [Workers -> BOOLEAN] /\ rested' \subseteq Workers
      <4>1. CASE UNCHANGED <<mine, turn, proc, canceled, rested>>
        BY <4>1
      <4>2. CASE Drop(w)
        BY <4>2, DropType
      <4>. QED BY <3>2, <4>1, <4>2
    <3>. QED BY <3>3, <3>4
  <2>3. UNCHANGED <<row, box, stray, ghost>>
    BY <1>6 DEF Crash, Restart, docker, ghost
  <2>4. adrift' \in [Contained -> Nat]
    BY <1>6, LeaveType DEF Crash, Restart, docker
  <2>. QED BY <2>1, <2>2, <2>3, <2>4 DEF row, ghost
<1>7. CASE Tick
  <2>1. \A j \in Jobs : age'[j] \in 0..MaxAge
    BY <1>7, TimesAssumption DEF Tick
  <2>2. lagged' \in BOOLEAN
    BY <1>7 DEF Tick
  <2>. QED BY <1>7, <2>1, <2>2 DEF Tick, docker
<1>8. CASE UNCHANGED vars
  BY <1>8 DEF vars, row, worker, docker, ghost
<1>9. ASSUME NEW n \in Names, LeftEnds(n) PROVE StartsInv'
  BY <1>9 DEF LeftEnds, row, worker, ghost
<1>10. ASSUME NEW j \in Contained, LeftStarts(j) PROVE StartsInv'
  <2>1. name[j] \in Names /\ j \in Jobs
    BY NamesAssumption
  <2>2. box' \in [Names -> Jobs \cup {NoJob}] /\ stray' \subseteq Names
    BY <1>10, <2>1 DEF LeftStarts
  <2>3. adrift' \in [Contained -> Nat]
    <3>1. adrift[j] \in Nat /\ adrift[j] > 0 /\ adrift' = [adrift EXCEPT ![j] = adrift[j] - 1]
      BY <1>10 DEF LeftStarts
    <3>2. adrift[j] - 1 \in Nat
      BY <3>1
    <3>. QED BY <3>1, <3>2
  <2>. QED BY <1>10, <2>2, <2>3 DEF LeftStarts, row, worker, ghost
<1>. QED
  BY <1>1, <1>2, <1>3, <1>4, <1>5, <1>6, <1>7, <1>8, <1>9, <1>10, MarkStaleStep, ClaimNextStep, ReportStep
  DEF Next, Work

\* For any jobs, retries, workers and limits, the count of the starts is kept.
THEOREM StartsCounted == Spec => []StartsInv
BY StartsInit, StartsStep, PTL DEF Spec

\* However workers crash, lag, and report on jobs that are no longer theirs, a
\* job is started at most max_retries times after the first.
THEOREM StartsBoundedAlways == Spec => []StartsBounded
<1>1. StartsInv => StartsBounded
  BY JobsAssumption DEF StartsInv, TypeOK, ClaimsCounted, StartsBounded
<1>. QED BY <1>1, StartsCounted, PTL

\* Every variable has its type, in every reachable state.
THEOREM QueueTypeCorrect == Spec => []TypeOK
<1>1. StartsInv => TypeOK
  BY DEF StartsInv
<1>. QED BY <1>1, StartsCounted, PTL

-----------------------------------------------------------------------------
(* One worker for a job *)

\* A worker has a job where it deals with one; and while heartbeats are written
\* in time the job is its own, not stale, and nobody else's.
OwnInv ==
    /\ \A w \in Workers : pc[w] \in {"launch", "watch", "report"} => mine[w] \in Jobs
    /\ ~lagged => \A w \in Workers : mine[w] \in Jobs =>
          /\ state[mine[w]] = "running" /\ retry_count[mine[w]] = turn[w]
          /\ age[mine[w]] <= StaleSeconds
          /\ \A v \in Workers : mine[v] = mine[w] => v = w

\* A step that leaves the rows of claimed jobs, and the claims, alone.
LEMMA OwnUnchanged ==
    ASSUME TypeOK, OwnInv, UNCHANGED <<mine, turn, lagged>>,
           \A w \in Workers : pc'[w] \in {"launch", "watch", "report"} => mine[w] \in Jobs,
           ~lagged => \A w \in Workers : mine[w] \in Jobs =>
               /\ state'[mine[w]] = state[mine[w]] /\ retry_count'[mine[w]] = retry_count[mine[w]]
               /\ age'[mine[w]] <= StaleSeconds
    PROVE  OwnInv'
BY DEF OwnInv

\* Only jobs that nobody works on are stale while heartbeats are in time.
LEMMA MarkStaleOwn ==
    ASSUME StartsInv, OwnInv, NEW w \in Workers, MarkStale(w) PROVE OwnInv'
<1> DEFINE gone  == {j \in Jobs : StaleJob(j)}
           again == {j \in gone : CanRetry(j)}
<1>1. TypeOK
  BY DEF StartsInv
<1>2. /\ \A j \in Jobs \ gone : /\ state'[j] = state[j] /\ retry_count'[j] = retry_count[j]
                                /\ age'[j] = age[j]
      /\ UNCHANGED <<mine, turn, lagged>> /\ pc' = [pc EXCEPT ![w] = "claim"]
  BY DEF MarkStale, Requeued, Go, ghost
<1>3. ~lagged => \A v \in Workers : mine[v] \in Jobs => mine[v] \notin gone
  <2>. SUFFICES ASSUME ~lagged, NEW v \in Workers, mine[v] \in Jobs, StaleJob(mine[v]) PROVE FALSE
    OBVIOUS
  <2>1. age[mine[v]] <= StaleSeconds /\ age[mine[v]] > StaleSeconds
    BY DEF OwnInv, StaleJob
  <2>2. age[mine[v]] \in Nat /\ StaleSeconds \in Nat
    BY <1>1, TimesAssumption DEF TypeOK
  <2>. QED BY <2>1, <2>2
<1>4. \A v \in Workers : pc'[v] \in {"launch", "watch", "report"} => mine[v] \in Jobs
  BY <1>1, <1>2 DEF TypeOK, OwnInv
<1> HIDE DEF gone
<1>5. ~lagged => \A v \in Workers : mine[v] \in Jobs =>
          /\ state'[mine[v]] = state[mine[v]] /\ retry_count'[mine[v]] = retry_count[mine[v]]
          /\ age'[mine[v]] <= StaleSeconds
  BY <1>2, <1>3 DEF OwnInv
<1>. QED BY <1>1, <1>2, <1>4, <1>5, OwnUnchanged

\* A job that is claimed was queued, so nobody had it.
LEMMA ClaimNextOwn ==
    ASSUME StartsInv, OwnInv, NEW w \in Workers, ClaimNext(w) PROVE OwnInv'
<1>. TypeOK
  BY DEF StartsInv
<1>1. PICK j \in Jobs :
        /\ state[j] = "queued" /\ state' = [state EXCEPT ![j] = "running"]
        /\ age' = [age EXCEPT ![j] = 0] /\ mine' = [mine EXCEPT ![w] = j]
        /\ turn' = [turn EXCEPT ![w] = retry_count[j]]
  BY DEF ClaimNext, Claimable
<1>2. /\ pc' = [pc EXCEPT ![w] = "launch"] /\ UNCHANGED <<retry_count, lagged>>
  BY DEF ClaimNext, Go
<1>3. ~lagged => \A v \in Workers : mine[v] # j
  BY <1>1 DEF OwnInv
<1>4. \A v \in Workers : /\ mine'[v] = IF v = w THEN j ELSE mine[v]
                         /\ turn'[v] = IF v = w THEN retry_count[j] ELSE turn[v]
                         /\ pc'[v] = IF v = w THEN "launch" ELSE pc[v]
  BY <1>1, <1>2 DEF TypeOK
<1>5. \A i \in Jobs : /\ state'[i] = IF i = j THEN "running" ELSE state[i]
                      /\ age'[i] = IF i = j THEN 0 ELSE age[i]
  BY <1>1 DEF TypeOK
<1>6. 0 <= StaleSeconds
  BY TimesAssumption
<1>. QED BY <1>2, <1>3, <1>4, <1>5, <1>6 DEF OwnInv

\* A worker drops its job, and the rows of the others' jobs stay as they are.
LEMMA DropOwn ==
    ASSUME StartsInv, OwnInv, NEW w \in Workers, Drop(w), UNCHANGED lagged,
           pc' = [pc EXCEPT ![w] = "loop"] \/ pc' = [pc EXCEPT ![w] = "down"],
           \A i \in Jobs : i # mine[w] =>
               state'[i] = state[i] /\ retry_count'[i] = retry_count[i] /\ age'[i] = age[i]
    PROVE  OwnInv'
<1>. TypeOK
  BY DEF StartsInv
<1>1. \A v \in Workers : /\ mine'[v] = IF v = w THEN NoJob ELSE mine[v]
                         /\ turn'[v] = IF v = w THEN 0 ELSE turn[v]
                         /\ v # w => pc'[v] = pc[v]
  BY DEF TypeOK, Drop
<1>2. pc'[w] \notin {"launch", "watch", "report"}
  BY DEF TypeOK
<1>3. NoJob \notin Jobs
  BY JobsAssumption
<1>. QED BY <1>1, <1>2, <1>3 DEF OwnInv

LEMMA ReportOwn ==
    ASSUME StartsInv, OwnInv, NEW w \in Workers, Report(w) PROVE OwnInv'
<1>1. /\ Drop(w) /\ UNCHANGED lagged /\ pc' = [pc EXCEPT ![w] = "loop"]
  BY DEF Report, Go, ghost
<1>2. \A i \in Jobs : i # mine[w] =>
          state'[i] = state[i] /\ retry_count'[i] = retry_count[i] /\ age'[i] = age[i]
  BY DEF Report, Requeued, StartsInv, TypeOK
<1>. QED BY <1>1, <1>2, DropOwn

\* Time passes, and a worker that is late is found out by lagged.
LEMMA TickOwn == ASSUME StartsInv, OwnInv, Tick PROVE OwnInv'
<1>. TypeOK
  BY DEF StartsInv
<1>1. /\ UNCHANGED <<state, retry_count, pc, mine, turn>>
      /\ lagged' = (lagged \/ \E w \in Workers : Owns(w) /\ age'[mine[w]] > StaleSeconds)
  BY DEF Tick
<1>2. ASSUME ~lagged', NEW w \in Workers, mine[w] \in Jobs PROVE age'[mine[w]] <= StaleSeconds
  <2>1. Owns(w)
    BY <1>1, <1>2, JobsAssumption DEF OwnInv, Owns, Busy
  <2>2. ~(age'[mine[w]] > StaleSeconds)
    BY <1>1, <1>2, <2>1
  <2>3. age'[mine[w]] \in Nat /\ StaleSeconds \in Nat
    BY <1>2, TimesAssumption DEF Tick, TypeOK
  <2>. QED BY <2>2, <2>3
<1>. QED BY <1>1, <1>2 DEF OwnInv

\* Every step keeps the claims apart.
LEMMA OwnStep == StartsInv /\ OwnInv /\ [Next]_vars => OwnInv'
<1>. SUFFICES ASSUME StartsInv, OwnInv, [Next]_vars PROVE OwnInv'
  OBVIOUS
<1>. TypeOK
  BY DEF StartsInv
<1>1. ASSUME NEW j \in Jobs, Submit(j) \/ RequestCancel(j) \/ RetryAfter(j) PROVE OwnInv'
  BY <1>1 DEF Submit, RequestCancel, RetryAfter, worker, ghost, OwnInv, TypeOK
<1>2. ASSUME NEW w \in Workers, \/ NothingToDo(w) \/ Launch(w) \/ SeeCancel(w) \/ Ended(w)
             \/ ContainerStarts(w) \/ ProcessEnds(w)
      PROVE  OwnInv'
  <2>1. UNCHANGED <<row, mine, turn, lagged>>
    BY <1>2 DEF NothingToDo, Launch, SeeCancel, Ended, ContainerStarts, ProcessEnds, row, ghost
  <2>2. \A v \in Workers : pc'[v] \in {"launch", "watch", "report"} =>
            pc[v] \in {"launch", "watch", "report"}
    BY <1>2 DEF NothingToDo, Launch, SeeCancel, Ended, ContainerStarts, ProcessEnds, Go, TypeOK
  <2>. QED BY <2>1, <2>2 DEF row, OwnInv
<1>3. ASSUME NEW w \in Workers, Heartbeat(w) PROVE OwnInv'
  <2>1. 0 <= StaleSeconds /\ mine[w] \in Jobs
    BY <1>3, TimesAssumption DEF Heartbeat, OwnInv
  <2>. QED BY <1>3, <2>1 DEF Heartbeat, ghost, OwnInv, TypeOK
<1>4. ASSUME NEW w \in Workers, Crash(w) PROVE OwnInv'
  BY <1>4, DropOwn DEF Crash, Go, row, ghost
<1>5. ASSUME NEW w \in Workers, Restart(w) PROVE OwnInv'
  BY <1>5 DEF Restart, Go, row, ghost, OwnInv, TypeOK
<1>6. CASE UNCHANGED vars
  BY <1>6 DEF vars, row, worker, ghost, OwnInv
<1>7. ASSUME (\E n \in Names : LeftEnds(n)) \/ (\E j \in Contained : LeftStarts(j)) PROVE OwnInv'
  BY <1>7 DEF LeftEnds, LeftStarts, row, worker, ghost, OwnInv
<1>. QED
  BY <1>1, <1>2, <1>3, <1>4, <1>5, <1>6, <1>7, MarkStaleOwn, ClaimNextOwn, ReportOwn, TickOwn
  DEF Next, Work

\* The inductive invariant behind the two theorems that follow.
LEMMA OwnKept == Spec => [](StartsInv /\ OwnInv)
<1>1. Init => OwnInv
  BY JobsAssumption DEF Init, OwnInv
<1>. QED BY <1>1, StartsInit, StartsStep, OwnStep, PTL DEF Spec

\* While heartbeats are written in time a job has one worker, however workers
\* crash and are started again.
THEOREM OneWorkerAlways == Spec => []OneWorker
<1>1. StartsInv /\ OwnInv => OneWorker
  <2>. SUFFICES ASSUME StartsInv, OwnInv, ~lagged, NEW w \in Workers, Busy(w)
                PROVE  Owns(w) /\ \A v \in Workers : w # v => mine[w] # mine[v]
    BY DEF OneWorker
  <2>1. mine[w] \in Jobs
    BY DEF Busy, StartsInv, TypeOK
  <2>. QED BY <2>1 DEF OwnInv, Owns
<1>. QED BY <1>1, OwnKept, PTL

\* A job that has ended stays ended while heartbeats are written in time.
THEOREM EndedStaysAlways == Spec => EndedStays
<1>1. ASSUME StartsInv, OwnInv, [Next]_vars, ~lagged, NEW j \in Jobs, state[j] \in Terminal
      PROVE  state'[j] = state[j]
  <2>. TypeOK
    BY <1>1 DEF StartsInv
  <2>. USE <1>1 DEF Terminal
  <2>1. ASSUME NEW i \in Jobs, Submit(i) \/ RequestCancel(i) \/ RetryAfter(i) PROVE state'[j] = state[j]
    BY <2>1 DEF Submit, RequestCancel, RetryAfter, TypeOK
  <2>2. ASSUME NEW w \in Workers, MarkStale(w) \/ ClaimNext(w) PROVE state'[j] = state[j]
    BY <2>2 DEF MarkStale, StaleJob, ClaimNext, Claimable, TypeOK
  <2>3. ASSUME NEW w \in Workers, Report(w) PROVE state'[j] = state[j]
    <3>1. mine[w] \in Jobs /\ mine[w] # j
      BY <2>3 DEF Report, OwnInv
    <3>. QED BY <2>3, <3>1 DEF Report, TypeOK
  <2>4. ASSUME NEW w \in Workers, \/ NothingToDo(w) \/ Launch(w) \/ SeeCancel(w) \/ Ended(w)
               \/ Heartbeat(w) \/ ContainerStarts(w) \/ ProcessEnds(w) \/ Crash(w) \/ Restart(w)
        PROVE  state'[j] = state[j]
    BY <2>4 DEF NothingToDo, Launch, SeeCancel, Ended, Heartbeat, ContainerStarts, ProcessEnds,
                Crash, Restart, row
  <2>5. CASE Tick \/ (\E n \in Names : LeftEnds(n)) \/ (\E i \in Contained : LeftStarts(i)) \/ UNCHANGED vars
    BY <2>5 DEF Tick, LeftEnds, LeftStarts, vars, row
  <2>. QED BY <2>1, <2>2, <2>3, <2>4, <2>5 DEF Next, Work
<1>2. StartsInv /\ OwnInv /\ [Next]_vars =>
          [\A j \in Jobs : ~lagged /\ state[j] \in Terminal => state'[j] = state[j]]_vars
  BY <1>1
<1>. QED BY <1>2, OwnKept, PTL DEF Spec, EndedStays
-----------------------------------------------------------------------------
(* Containers *)

\* A worker watches a process only after a launch, and knows of a cancel only
\* when it is about to report it.
PhaseInv ==
    \A w \in Workers :
        /\ pc[w] \in {"down", "loop", "claim", "launch"} => proc[w] = "none" /\ ~canceled[w]
        /\ proc[w] \in Alive => pc[w] = "watch"
        /\ canceled[w] => pc[w] = "report"
        /\ proc[w] = "starts" => mine[w] \in Contained

\* What a worker is about to report as canceled or succeeded has no container, but
\* that of a run left on its own.
CleanInv ==
    ~lagged => \A w \in Workers :
        mine[w] \in Contained /\ (canceled[w] \/ proc[w] = "ok") /\ box[name[mine[w]]] = mine[w]
            => name[mine[w]] \in stray

BoxInv == PhaseInv /\ RunsApart

\* Every step keeps the phases.
LEMMA PhaseStep == StartsInv /\ PhaseInv /\ [Next]_vars => PhaseInv'
<1>. SUFFICES ASSUME StartsInv, PhaseInv, [Next]_vars PROVE PhaseInv'
  OBVIOUS
<1>. TypeOK
  BY DEF StartsInv
<1>. USE DEF PhaseInv, TypeOK, Alive
<1>1. ASSUME NEW j \in Jobs, Submit(j) \/ RequestCancel(j) \/ RetryAfter(j) PROVE PhaseInv'
  BY <1>1 DEF Submit, RequestCancel, RetryAfter, worker
<1>2. ASSUME NEW w \in Workers, \/ MarkStale(w) \/ ClaimNext(w) \/ NothingToDo(w) \/ Launch(w)
             \/ Ended(w) \/ Heartbeat(w) \/ Restart(w)
      PROVE  PhaseInv'
  BY <1>2 DEF MarkStale, ClaimNext, NothingToDo, Launch, Ended, Heartbeat, Restart, Go
<1>3. ASSUME NEW w \in Workers, SeeCancel(w) PROVE PhaseInv'
  <2>1. \A v \in Workers : /\ pc'[v] = IF v = w THEN "report" ELSE pc[v]
                           /\ canceled'[v] = IF v = w THEN TRUE ELSE canceled[v]
                           /\ mine'[v] = mine[v]
    BY <1>3 DEF SeeCancel, Go
  <2>2. \A v \in Workers : proc'[v] = "bad" \/ (v # w /\ proc'[v] = proc[v])
    BY <1>3 DEF SeeCancel
  <2>3. \A v \in Workers : v # w /\ proc'[v] # proc[v] => pc[v] = "watch"
    BY <1>3 DEF SeeCancel, Inside
  <2>. QED BY <2>1, <2>2, <2>3
<1>4. ASSUME NEW w \in Workers, ContainerStarts(w) \/ ProcessEnds(w) PROVE PhaseInv'
  BY <1>4 DEF ContainerStarts, ProcessEnds
<1>5. ASSUME NEW w \in Workers, Report(w) \/ Crash(w) PROVE PhaseInv'
  BY <1>5 DEF Report, Crash, Drop, Go
<1>6. CASE Tick \/ (\E n \in Names : LeftEnds(n)) \/ (\E j \in Contained : LeftStarts(j)) \/ UNCHANGED vars
  BY <1>6 DEF Tick, LeftEnds, LeftStarts, vars, worker
<1>. QED BY <1>1, <1>2, <1>3, <1>4, <1>5, <1>6 DEF Next, Work

\* A step in which nobody comes to watch a container, and none of those watched goes.
LEMMA ApartUnchanged ==
    ASSUME RunsApart,
           \A w \in Workers : Inside(w)' => /\ Inside(w) /\ mine'[w] = mine[w]
                                           /\ box'[name[mine[w]]] = box[name[mine[w]]]
    PROVE  RunsApart'
BY DEF RunsApart

\* Every step keeps apart those who watch containers.
LEMMA ApartStep == StartsInv /\ BoxInv /\ [Next]_vars => RunsApart'
<1>. SUFFICES ASSUME StartsInv, PhaseInv, RunsApart, [Next]_vars PROVE RunsApart'
  BY DEF BoxInv
<1>. TypeOK
  BY DEF StartsInv
<1>1. ASSUME NEW w \in Workers, Launch(w) PROVE RunsApart'
  <2>1. \A v \in Workers : Inside(v)' => Inside(v)
    BY <1>1 DEF Launch, Inside, TypeOK
  <2>. QED BY <1>1, <2>1, ApartUnchanged DEF Launch, docker
<1>2. ASSUME NEW w \in Workers, ClaimNext(w) PROVE RunsApart'
  <2>1. \A v \in Workers : Inside(v)' => v # w
    BY <1>2 DEF ClaimNext, PhaseInv, Inside
  <2>2. \A v \in Workers : v # w => mine'[v] = mine[v]
    BY <1>2 DEF ClaimNext, TypeOK
  <2>. QED BY <1>2, <2>1, <2>2, ApartUnchanged DEF ClaimNext, Inside, docker
<1>3. ASSUME NEW w \in Workers, Report(w) \/ Crash(w) PROVE RunsApart'
  <2>1. \A v \in Workers : Inside(v)' => v # w
    BY <1>3 DEF Report, Crash, Drop, Inside, TypeOK
  <2>2. \A v \in Workers : v # w => mine'[v] = mine[v] /\ proc'[v] = proc[v]
    BY <1>3 DEF Report, Crash, Drop, TypeOK
  <2>. QED BY <1>3, <2>1, <2>2, ApartUnchanged DEF Report, Crash, Inside, docker
<1>4. ASSUME NEW w \in Workers, ContainerStarts(w) PROVE RunsApart'
  <2>1. mine[w] \in Contained /\ name[mine[w]] \in Names /\ UNCHANGED mine
    BY <1>4, NamesAssumption DEF ContainerStarts, PhaseInv
  <2>2. CASE proc' = [proc EXCEPT ![w] = "bad"] /\ UNCHANGED box
    <3>1. \A v \in Workers : Inside(v)' => Inside(v)
      BY <2>1, <2>2 DEF Inside, TypeOK
    <3>. QED BY <2>1, <2>2, <3>1, ApartUnchanged
  <2>3. CASE /\ box[name[mine[w]]] = NoJob /\ proc' = [proc EXCEPT ![w] = "runs"]
             /\ box' = [box EXCEPT ![name[mine[w]]] = mine[w]]
    <3>1. \A v \in Workers : Inside(v)' => v = w \/ Inside(v)
      BY <2>1, <2>3 DEF Inside, TypeOK
    <3>2. \A v \in Workers : Inside(v) => name[mine[v]] # name[mine[w]]
      BY <2>3, JobsAssumption, NamesAssumption DEF RunsApart, Inside
    <3>. QED BY <2>1, <2>3, <3>1, <3>2 DEF RunsApart, TypeOK
  <2>. QED BY <1>4, <2>2, <2>3 DEF ContainerStarts
<1>5. ASSUME NEW w \in Workers, ProcessEnds(w) PROVE RunsApart'
  <2>1. \A v \in Workers : Inside(v)' => v # w /\ Inside(v)
    BY <1>5 DEF ProcessEnds, Inside, TypeOK
  <2>2. \A v \in Workers : Inside(v)' => box'[name[mine[v]]] = box[name[mine[v]]]
    BY <1>5, <2>1 DEF ProcessEnds, RunsApart, Inside, TypeOK
  <2>. QED BY <1>5, <2>1, <2>2, ApartUnchanged DEF ProcessEnds
<1>6. ASSUME NEW w \in Workers, SeeCancel(w) PROVE RunsApart'
  <2> DEFINE killed == {n \in Names : mine[w] \in Contained /\ n = name[mine[w]]}
  <2>1. /\ UNCHANGED mine
        /\ box' = [n \in Names |-> IF n \in killed THEN NoJob ELSE box[n]]
        /\ proc' = [v \in Workers |->
              IF v = w \/ (Inside(v) /\ name[mine[v]] \in killed) THEN "bad" ELSE proc[v]]
    BY <1>6 DEF SeeCancel
  <2> HIDE DEF killed
  <2>2. \A v \in Workers : Inside(v)' => Inside(v) /\ name[mine[v]] \notin killed
    BY <2>1 DEF Inside
  <2>3. \A v \in Workers : Inside(v) => name[mine[v]] \in Names
    BY NamesAssumption DEF Inside
  <2>. QED BY <2>1, <2>2, <2>3, ApartUnchanged
<1>7. ASSUME NEW n \in Names, LeftEnds(n) PROVE RunsApart'
  <2>1. \A v \in Workers : Inside(v) => name[mine[v]] # n
    BY <1>7 DEF LeftEnds
  <2>2. \A v \in Workers : Inside(v)' => Inside(v) /\ mine'[v] = mine[v]
    BY <1>7 DEF LeftEnds, worker, Inside
  <2>3. \A m \in Names : m # n => box'[m] = box[m]
    BY <1>7 DEF LeftEnds, TypeOK
  <2>4. \A v \in Workers : Inside(v) => name[mine[v]] \in Names
    BY NamesAssumption DEF Inside
  <2>. QED BY <2>1, <2>2, <2>3, <2>4, ApartUnchanged
<1>8. ASSUME NEW j \in Contained, LeftStarts(j) PROVE RunsApart'
  <2>1. name[j] \in Names /\ \A v \in Workers : Inside(v) => box[name[mine[v]]] # NoJob
    BY JobsAssumption, NamesAssumption DEF RunsApart, Inside
  <2>2. UNCHANGED <<mine, proc>>
    BY <1>8 DEF LeftStarts, worker
  <2>3. \A v \in Workers : Inside(v)' => Inside(v) /\ mine'[v] = mine[v]
    BY <2>2 DEF Inside
  <2>4. \A v \in Workers : Inside(v) => box'[name[mine[v]]] = box[name[mine[v]]]
    BY <1>8, <2>1, NamesAssumption DEF LeftStarts, Inside, TypeOK
  <2>. QED BY <2>3, <2>4, ApartUnchanged
<1>9. ASSUME UNCHANGED <<mine, proc, box>> PROVE RunsApart'
  BY <1>9, ApartUnchanged DEF Inside
<1>. QED
  BY <1>1, <1>2, <1>3, <1>4, <1>5, <1>6, <1>7, <1>8, <1>9
  DEF Next, Work, Submit, RequestCancel, RetryAfter, MarkStale, NothingToDo, Ended, Heartbeat,
      Restart, Tick, worker, docker, vars

\* The inductive invariant of the containers.
LEMMA BoxKept == Spec => [](StartsInv /\ OwnInv /\ BoxInv)
<1>1. Init => BoxInv
  BY DEF Init, BoxInv, PhaseInv, RunsApart, Inside, Alive
<1>2. StartsInv /\ BoxInv /\ [Next]_vars => BoxInv'
  BY PhaseStep, ApartStep DEF BoxInv
<1>. QED BY <1>1, <1>2, OwnKept, StartsInit, StartsStep, PTL DEF Spec

\* However workers crash and lag, and whichever jobs share a name, whoever watches
\* a container watches its own job's, alone.
THEOREM RunsApartAlways == Spec => []RunsApart
<1>1. BoxInv => RunsApart
  BY DEF BoxInv
<1>. QED BY <1>1, BoxKept, PTL

\* Every step keeps clean what is about to be reported, and what has been.
LEMMA CleanStep ==
    StartsInv /\ OwnInv /\ BoxInv /\ CleanInv /\ EndedClean /\ [Next]_vars
    => CleanInv' /\ EndedClean'
<1>. SUFFICES ASSUME StartsInv, OwnInv, PhaseInv, RunsApart, CleanInv, EndedClean, [Next]_vars, ~lagged'
              PROVE  CleanInv' /\ EndedClean'
  BY DEF BoxInv, CleanInv, EndedClean
<1>. TypeOK
  BY DEF StartsInv
<1>0. ~lagged
  BY DEF Next, Work, Submit, RequestCancel, RetryAfter, MarkStale, ClaimNext, NothingToDo, Launch,
         SeeCancel, Ended, Report, Heartbeat, ContainerStarts, ProcessEnds, Crash, Restart, Tick,
         LeftEnds, LeftStarts, ghost, vars
<1>1. ASSUME UNCHANGED <<mine, canceled, box, stray>>,
             \A w \in Workers : proc'[w] = "ok" => proc[w] = "ok",
             \A j \in Jobs : state'[j] \in {"canceled", "succeeded"} => state'[j] = state[j]
      PROVE  CleanInv' /\ EndedClean'
  BY <1>0, <1>1, NamesAssumption DEF CleanInv, EndedClean
<1>2. ASSUME NEW w \in Workers, ClaimNext(w) PROVE CleanInv' /\ EndedClean'
  <2>1. \A v \in Workers : v # w => mine'[v] = mine[v]
    BY <1>2 DEF ClaimNext, TypeOK
  <2>2. proc[w] = "none" /\ ~canceled[w] /\ UNCHANGED <<proc, canceled, box, stray>>
    BY <1>2 DEF ClaimNext, PhaseInv, docker
  <2>3. \A j \in Jobs : state'[j] \in {"canceled", "succeeded"} => state'[j] = state[j]
    BY <1>2 DEF ClaimNext, TypeOK
  <2>. QED BY <1>0, <2>1, <2>2, <2>3, NamesAssumption DEF CleanInv, EndedClean
<1>3. ASSUME NEW w \in Workers, Report(w) \/ Crash(w) PROVE CleanInv' /\ EndedClean'
  <2>1. \A v \in Workers : IF v = w THEN mine'[v] = NoJob
                           ELSE mine'[v] = mine[v] /\ proc'[v] = proc[v] /\ canceled'[v] = canceled[v]
    BY <1>3 DEF Report, Crash, Drop, TypeOK
  <2>2. UNCHANGED <<box, stray>> /\ NoJob \notin Contained
    BY <1>3, JobsAssumption, NamesAssumption DEF Report, Crash, docker
  <2>3. \A j \in Jobs : state'[j] \in {"canceled", "succeeded"} =>
            state'[j] = state[j] \/ (j = mine[w] /\ (canceled[w] \/ proc[w] = "ok"))
    BY <1>3 DEF Report, Crash, row, TypeOK
  <2>. QED BY <1>0, <2>1, <2>2, <2>3, NamesAssumption DEF CleanInv, EndedClean
<1>4. ASSUME NEW w \in Workers, ContainerStarts(w) PROVE CleanInv' /\ EndedClean'
  <2>1. /\ mine[w] \in Contained /\ mine[w] \in Jobs /\ ~canceled[w]
        /\ state[mine[w]] = "running" /\ \A v \in Workers : mine[v] = mine[w] => v = w
    BY <1>0, <1>4, NamesAssumption DEF ContainerStarts, PhaseInv, Alive, OwnInv
  <2>2. /\ UNCHANGED <<state, mine, canceled, stray>> /\ proc'[w] # "ok"
        /\ \A v \in Workers : v # w => proc'[v] = proc[v]
    BY <1>4 DEF ContainerStarts, row, TypeOK
  <2>3. \A n \in Names : box'[n] = box[n] \/ box'[n] = mine[w]
    BY <1>4 DEF ContainerStarts, TypeOK
  <2>4. \A j \in Contained : name[j] \in Names /\ j \in Jobs
    BY NamesAssumption
  <2>. QED BY <1>0, <2>1, <2>2, <2>3, <2>4 DEF CleanInv, EndedClean
<1>5. ASSUME NEW w \in Workers, ProcessEnds(w) \/ SeeCancel(w) PROVE CleanInv' /\ EndedClean'
  <2>1. /\ UNCHANGED <<state, mine>> /\ \A v \in Workers : v # w => canceled'[v] = canceled[v]
        /\ \A v \in Workers : v # w /\ proc'[v] = "ok" => proc[v] = "ok"
    BY <1>5 DEF ProcessEnds, SeeCancel, row, TypeOK
  <2>2. \A n \in Names : (box'[n] = box[n] /\ (n \in stray => n \in stray')) \/ box'[n] = NoJob
    BY <1>5 DEF ProcessEnds, SeeCancel, TypeOK
  <2>3. \A j \in Contained : name[j] \in Names /\ j # NoJob
    BY NamesAssumption, JobsAssumption
  <2>4. mine[w] \in Contained => box'[name[mine[w]]] = NoJob
    BY <1>5, <2>3 DEF ProcessEnds, SeeCancel, Inside, TypeOK
  <2>. QED BY <1>0, <2>1, <2>2, <2>3, <2>4 DEF CleanInv, EndedClean
<1>6. ASSUME NEW n \in Names, LeftEnds(n) PROVE CleanInv' /\ EndedClean'
  <2>1. UNCHANGED <<state, mine, proc, canceled>>
    BY <1>6 DEF LeftEnds, row, worker
  <2>2. \A m \in Names : (box'[m] = box[m] /\ (m \in stray => m \in stray')) \/ box'[m] = NoJob
    BY <1>6 DEF LeftEnds, TypeOK
  <2>3. \A j \in Contained : name[j] \in Names /\ j # NoJob
    BY NamesAssumption, JobsAssumption
  <2>. QED BY <1>0, <2>1, <2>2, <2>3 DEF CleanInv, EndedClean
<1>7. ASSUME NEW w \in Workers, MarkStale(w) PROVE CleanInv' /\ EndedClean'
  BY <1>1, <1>7 DEF MarkStale, docker
<1>8. ASSUME NEW w \in Workers, Launch(w) PROVE CleanInv' /\ EndedClean'
  BY <1>1, <1>8 DEF Launch, row, docker, TypeOK
<1>9. ASSUME NEW w \in Workers, NothingToDo(w) \/ Ended(w) \/ Heartbeat(w) \/ Restart(w)
      PROVE  CleanInv' /\ EndedClean'
  BY <1>1, <1>9 DEF NothingToDo, Ended, Heartbeat, Restart, row, docker
<1>10. ASSUME NEW j \in Jobs, Submit(j) \/ RequestCancel(j) \/ RetryAfter(j)
       PROVE  CleanInv' /\ EndedClean'
  <2>1. \A i \in Jobs : state'[i] \in {"canceled", "succeeded"} => state'[i] = state[i]
    BY <1>10 DEF Submit, RequestCancel, RetryAfter, TypeOK
  <2>. QED BY <1>1, <1>10, <2>1 DEF Submit, RequestCancel, RetryAfter, worker, docker
<1>11. CASE Tick \/ UNCHANGED vars
  BY <1>1, <1>11 DEF Tick, row, worker, docker, vars
<1>12. ASSUME NEW j \in Contained, LeftStarts(j) PROVE CleanInv' /\ EndedClean'
  <2>1. UNCHANGED <<state, mine, proc, canceled>>
    BY <1>12 DEF LeftStarts, row, worker
  <2>2. \A n \in Names : n \in stray' \/ (box'[n] = box[n] /\ n \notin stray)
    BY <1>12, NamesAssumption DEF LeftStarts, TypeOK
  <2>3. \A i \in Contained : name[i] \in Names
    BY NamesAssumption
  <2>. QED BY <1>0, <2>1, <2>2, <2>3 DEF CleanInv, EndedClean
<1>. QED
  BY <1>2, <1>3, <1>4, <1>5, <1>6, <1>7, <1>8, <1>9, <1>10, <1>11, <1>12 DEF Next, Work

\* While heartbeats are written in time, a canceled or succeeded job has left no
\* container, for any jobs, names, workers and limits, but that of a docker run left
\* on its own before it had one.
THEOREM EndedCleanAlways == Spec => []EndedClean
<1>1. Init => CleanInv /\ EndedClean
  BY JobsAssumption, NamesAssumption DEF Init, CleanInv, EndedClean
<1>. QED BY <1>1, CleanStep, BoxKept, PTL DEF Spec

-----------------------------------------------------------------------------
(* The lives of the jobs *)

\* A worker has a job only where it deals with one, and no job that was never
\* submitted; in time, what it is about to report canceled is still to be canceled.
LifeInv ==
    /\ \A w \in Workers : /\ pc[w] \in {"down", "loop", "claim"} => mine[w] = NoJob
                          /\ mine[w] \in Jobs => state[mine[w]] # "none"
    /\ ~lagged => \A w \in Workers : canceled[w] => cancel_requested[mine[w]]

QueueInv == StartsInv /\ OwnInv /\ BoxInv /\ LifeInv

\* No step forgets that a worker was late.
LEMMA LateStays == TypeOK /\ [Next]_vars => (lagged => lagged')
<1>. SUFFICES ASSUME TypeOK, [Next]_vars, lagged PROVE lagged'
  OBVIOUS
<1>. QED
  BY DEF Next, Work, Submit, RequestCancel, RetryAfter, MarkStale, ClaimNext, NothingToDo, Launch,
         SeeCancel, Ended, Report, Heartbeat, ContainerStarts, ProcessEnds, Crash, Restart, Tick,
         LeftEnds, LeftStarts, ghost, vars

\* A step that leaves jobs, rows and claims alone.
LEMMA LifeUnchanged ==
    ASSUME LifeInv, lagged => lagged', UNCHANGED <<state, cancel_requested, mine>>,
           \A w \in Workers : /\ pc'[w] \in {"down", "loop", "claim"} => pc[w] \in {"down", "loop", "claim"}
                              /\ canceled'[w] => canceled[w] \/ cancel_requested[mine[w]]
    PROVE  LifeInv'
BY DEF LifeInv

\* A worker drops its job; the others keep theirs.
LEMMA DropLife ==
    ASSUME StartsInv, OwnInv, PhaseInv, LifeInv, lagged => lagged', NEW w \in Workers, Drop(w),
           \A v \in Workers : v # w => pc'[v] = pc[v],
           \A j \in Jobs : /\ state[j] # "none" => state'[j] # "none"
                           /\ j # mine[w] => cancel_requested'[j] = cancel_requested[j]
    PROVE  LifeInv'
<1>. TypeOK
  BY DEF StartsInv
<1>1. \A v \in Workers :
          IF v = w THEN mine'[v] = NoJob /\ ~canceled'[v]
          ELSE mine'[v] = mine[v] /\ canceled'[v] = canceled[v]
  BY DEF TypeOK, Drop
<1>2. \A v \in Workers : canceled[v] => mine[v] \in Jobs
  BY DEF PhaseInv, OwnInv
<1>3. ~lagged => \A v \in Workers : v # w /\ mine[v] \in Jobs => mine[v] # mine[w]
  BY DEF OwnInv
<1>. QED BY <1>1, <1>2, <1>3, JobsAssumption DEF LifeInv

\* Every step keeps it.
LEMMA LifeStep == QueueInv /\ [Next]_vars => LifeInv'
<1>. SUFFICES ASSUME StartsInv, OwnInv, PhaseInv, LifeInv, [Next]_vars PROVE LifeInv'
  BY DEF QueueInv, BoxInv
<1>. TypeOK
  BY DEF StartsInv
<1>0. lagged => lagged'
  BY LateStays
<1>1. ASSUME NEW j \in Jobs, Submit(j) \/ RequestCancel(j) PROVE LifeInv'
  <2>1. /\ UNCHANGED <<pc, mine, canceled>>
        /\ \A i \in Jobs : /\ state[i] # "none" => state'[i] # "none"
                           /\ cancel_requested[i] => cancel_requested'[i]
    BY <1>1 DEF Submit, RequestCancel, worker, TypeOK
  <2>2. \A w \in Workers : canceled[w] => mine[w] \in Jobs
    BY DEF PhaseInv, OwnInv
  <2>3. ~lagged' => \A w \in Workers : canceled'[w] => cancel_requested'[mine'[w]]
    BY <1>0, <2>1, <2>2 DEF LifeInv
  <2>4. \A w \in Workers : mine'[w] \in Jobs => state'[mine'[w]] # "none"
    BY <2>1 DEF LifeInv
  <2>. QED BY <2>1, <2>3, <2>4 DEF LifeInv
<1>2. ASSUME NEW w \in Workers, MarkStale(w) PROVE LifeInv'
  <2>1. /\ pc[w] = "loop" /\ pc' = [pc EXCEPT ![w] = "claim"] /\ UNCHANGED <<mine, canceled, lagged>>
        /\ \A j \in Jobs : /\ state[j] # "none" => state'[j] # "none"
                           /\ ~StaleJob(j) => cancel_requested'[j] = cancel_requested[j]
    BY <1>2 DEF MarkStale, Requeued, Go, ghost, TypeOK
  <2>2. ~lagged => \A v \in Workers : mine[v] \in Jobs => ~StaleJob(mine[v])
    <3>1. \A v \in Workers : mine[v] \in Jobs => age[mine[v]] \in Nat /\ StaleSeconds \in Nat
      BY TimesAssumption DEF TypeOK
    <3>. QED BY <3>1 DEF OwnInv, StaleJob
  <2>3. \A v \in Workers : canceled[v] => mine[v] \in Jobs
    BY DEF PhaseInv, OwnInv
  <2>4. ~lagged' => \A v \in Workers : canceled'[v] => cancel_requested'[mine'[v]]
    BY <2>1, <2>2, <2>3 DEF LifeInv
  <2>5. \A v \in Workers : mine'[v] \in Jobs => state'[mine'[v]] # "none"
    BY <2>1 DEF LifeInv
  <2>6. \A v \in Workers : pc'[v] \in {"down", "loop", "claim"} => pc[v] \in {"down", "loop", "claim"}
    BY <2>1 DEF TypeOK
  <2>. QED BY <2>1, <2>4, <2>5, <2>6 DEF LifeInv
<1>3. ASSUME NEW w \in Workers, ClaimNext(w) PROVE LifeInv'
  <2>1. PICK j \in Jobs : state' = [state EXCEPT ![j] = "running"] /\ mine' = [mine EXCEPT ![w] = j]
    BY <1>3 DEF ClaimNext
  <2>2. /\ pc' = [pc EXCEPT ![w] = "launch"] /\ UNCHANGED <<cancel_requested, canceled, lagged>>
        /\ ~canceled[w]
    BY <1>3 DEF ClaimNext, Go, PhaseInv
  <2>. QED BY <2>1, <2>2 DEF LifeInv, TypeOK
<1>4. ASSUME NEW w \in Workers, Report(w) PROVE LifeInv'
  <2>1. /\ mine[w] \in Jobs /\ Drop(w) /\ pc' = [pc EXCEPT ![w] = "loop"]
        /\ \A j \in Jobs : /\ state[j] # "none" => state'[j] # "none"
                           /\ j # mine[w] => cancel_requested'[j] = cancel_requested[j]
    BY <1>4 DEF Report, Requeued, Go, OwnInv, TypeOK
  <2>2. \A v \in Workers : v # w => pc'[v] = pc[v]
    BY <2>1 DEF TypeOK
  <2>. QED BY <1>0, <2>1, <2>2, DropLife
<1>5. ASSUME NEW w \in Workers, Crash(w) PROVE LifeInv'
  BY <1>0, <1>5, DropLife DEF Crash, Go, row, TypeOK
<1>6. ASSUME NEW w \in Workers, NothingToDo(w) \/ Launch(w) \/ Ended(w) \/ Restart(w) \/ SeeCancel(w)
      PROVE  LifeInv'
  <2>1. UNCHANGED <<state, cancel_requested, mine>>
    BY <1>6 DEF NothingToDo, Launch, Ended, Restart, SeeCancel, row
  <2>2. \A v \in Workers : /\ pc'[v] \in {"down", "loop", "claim"} => pc[v] \in {"down", "loop", "claim"}
                           /\ canceled'[v] => canceled[v] \/ cancel_requested[mine[v]]
    BY <1>6 DEF NothingToDo, Launch, Ended, Restart, SeeCancel, Go, TypeOK
  <2>. QED BY <1>0, <2>1, <2>2, LifeUnchanged
<1>7. ASSUME NEW w \in Workers, Heartbeat(w) \/ ContainerStarts(w) \/ ProcessEnds(w) PROVE LifeInv'
  BY <1>0, <1>7, LifeUnchanged DEF Heartbeat, ContainerStarts, ProcessEnds, row
<1>8. ASSUME \/ Tick \/ (\E n \in Names : LeftEnds(n)) \/ (\E j \in Jobs : RetryAfter(j))
             \/ (\E j \in Contained : LeftStarts(j)) \/ UNCHANGED vars
      PROVE  LifeInv'
  BY <1>0, <1>8, LifeUnchanged DEF Tick, LeftEnds, LeftStarts, RetryAfter, row, worker, vars
<1>. QED BY <1>1, <1>2, <1>3, <1>4, <1>5, <1>6, <1>7, <1>8 DEF Next, Work

\* The invariant under which the queue is seen to keep its promise.
LEMMA QueueKept == Spec => []QueueInv
<1>1. Init => LifeInv
  BY JobsAssumption DEF Init, LifeInv
<1>. QED BY <1>1, LifeStep, BoxKept, PTL DEF Spec, QueueInv

-----------------------------------------------------------------------------
(* The queue implements JobLife *)

\* Whoever is in a job is its runner, while none is late.
LEMMA RunnerIs ==
    ASSUME TypeOK, OwnInv, ~lagged
    PROVE  /\ DOMAIN Runner = Jobs
           /\ \A j \in Jobs : /\ \A w \in Workers : Runner[j] = w <=> mine[w] = j
                              /\ Runner[j] = NoWorker <=> \A w \in Workers : mine[w] # j
<1>. SUFFICES ASSUME NEW j \in Jobs
              PROVE  /\ \A w \in Workers : Runner[j] = w <=> mine[w] = j
                     /\ Runner[j] = NoWorker <=> \A w \in Workers : mine[w] # j
  BY DEF Runner
<1>1. CASE \E w \in Workers : mine[w] = j
  <2>1. PICK v \in Workers : mine[v] = j
    BY <1>1
  <2>2. \A w \in Workers : mine[w] = j => w = v
    BY <2>1 DEF OwnInv
  <2>3. Runner[j] \in Workers /\ mine[Runner[j]] = j
    BY <2>1 DEF Runner
  <2>. QED BY <2>1, <2>2, <2>3, NoWorkerIsNoWorker
<1>2. CASE \A w \in Workers : mine[w] # j
  BY <1>2, NoWorkerIsNoWorker DEF Runner
<1>. QED BY <1>1, <1>2

\* The same in the next state.
LEMMA RunnerIsNext ==
    ASSUME TypeOK', OwnInv', ~lagged'
    PROVE  /\ DOMAIN Runner' = Jobs
           /\ \A j \in Jobs : /\ \A w \in Workers : Runner'[j] = w <=> mine'[w] = j
                              /\ Runner'[j] = NoWorker <=> \A w \in Workers : mine'[w] # j
<1>. SUFFICES ASSUME NEW j \in Jobs
              PROVE  /\ \A w \in Workers : Runner'[j] = w <=> mine'[w] = j
                     /\ Runner'[j] = NoWorker <=> \A w \in Workers : mine'[w] # j
  BY DEF Runner
<1>1. CASE \E w \in Workers : mine'[w] = j
  <2>1. PICK v \in Workers : mine'[v] = j
    BY <1>1
  <2>2. \A w \in Workers : mine'[w] = j => w = v
    BY <2>1 DEF OwnInv
  <2>3. Runner'[j] \in Workers /\ mine'[Runner'[j]] = j
    BY <2>1 DEF Runner
  <2>. QED BY <2>1, <2>2, <2>3, NoWorkerIsNoWorker
<1>2. CASE \A w \in Workers : mine'[w] # j
  BY <1>2, NoWorkerIsNoWorker DEF Runner
<1>. QED BY <1>1, <1>2

\* A worker that drops its job leaves it without a runner.
LEMMA DropRunner ==
    ASSUME TypeOK, TypeOK', OwnInv, OwnInv', ~lagged, ~lagged', NEW w \in Workers, Drop(w)
    PROVE  /\ Runner' = [j \in Jobs |-> IF Runner[j] = w THEN NoWorker ELSE Runner[j]]
           /\ mine[w] \in Jobs => L!Leaves(w, mine[w])
<1>1. \A v \in Workers : mine'[v] = IF v = w THEN NoJob ELSE mine[v]
  BY DEF Drop, TypeOK
<1>2. \A j \in Jobs : Runner[j] \in Workers \cup {NoWorker} /\ Runner'[j] \in Workers \cup {NoWorker}
  BY DEF Runner
<1>3. \A j \in Jobs : Runner'[j] = IF Runner[j] = w THEN NoWorker ELSE Runner[j]
  BY <1>1, <1>2, RunnerIs, RunnerIsNext, JobsAssumption
<1>4. Runner' = [j \in Jobs |-> IF Runner[j] = w THEN NoWorker ELSE Runner[j]]
  <2>1. Runner' = [j \in Jobs |-> Runner'[j]]
    BY DEF Runner
  <2>. QED BY <1>3, <2>1
<1>5. ASSUME mine[w] \in Jobs PROVE L!Leaves(w, mine[w])
  <2>1. \A j \in Jobs : Runner[j] = w <=> j = mine[w]
    BY RunnerIs
  <2>2. Runner = [j \in Jobs |-> Runner[j]]
    BY DEF Runner
  <2>. QED BY <1>4, <1>5, <2>1, <2>2 DEF L!Leaves
<1>. QED BY <1>4, <1>5

\* Rows that are queued again are jobs that get another try.
LEMMA RequeuedTries ==
    ASSUME NEW S \in SUBSET Jobs, \A j \in S : CanRetry(j), Requeued(S) PROVE L!TryAgain(S)
BY DEF Requeued, CanRetry, L!TryAgain

-----------------------------------------------------------------------------
\* A claim is Take.
LEMMA ClaimTakes ==
    ASSUME QueueInv, QueueInv', ~lagged, ~lagged', NEW w \in Workers, ClaimNext(w)
    PROVE  \E j \in Jobs : L!Take(w, j)
<1>. TypeOK /\ TypeOK' /\ OwnInv /\ OwnInv'
  BY DEF QueueInv, StartsInv
<1>1. PICK j \in Jobs : /\ state[j] = "queued" /\ state' = [state EXCEPT ![j] = "running"]
                        /\ mine' = [mine EXCEPT ![w] = j]
  BY DEF ClaimNext, Claimable
<1>2. pc[w] = "claim" /\ mine[w] = NoJob /\ UNCHANGED <<retry_count, cancel_requested>>
  BY DEF ClaimNext, QueueInv, LifeInv
<1>3. \A v \in Workers : mine[v] # j
  BY <1>1 DEF OwnInv
<1>4. Runner[j] = NoWorker /\ \A i \in Jobs : Runner[i] # w
  BY <1>2, <1>3, RunnerIs, JobsAssumption
<1>5. \A i \in Jobs : Runner[i] \in Workers \cup {NoWorker} /\ Runner'[i] \in Workers \cup {NoWorker}
  BY DEF Runner
<1>6. \A v \in Workers : mine'[v] = IF v = w THEN j ELSE mine[v]
  BY <1>1 DEF TypeOK
<1>7. \A i \in Jobs : Runner'[i] = IF i = j THEN w ELSE Runner[i]
  BY <1>4, <1>5, <1>6, RunnerIs, RunnerIsNext
<1>8. Runner' = [Runner EXCEPT ![j] = w]
  <2>1. Runner' = [i \in Jobs |-> Runner'[i]] /\ Runner = [i \in Jobs |-> Runner[i]]
    BY DEF Runner
  <2>. QED BY <1>7, <2>1
<1>. QED BY <1>1, <1>2, <1>4, <1>8 DEF L!Take

\* A report is Finish or Fail.
LEMMA ReportSettles ==
    ASSUME QueueInv, QueueInv', ~lagged, ~lagged', NEW w \in Workers, Report(w)
    PROVE  \E j \in Jobs : L!Finish(w, j) \/ L!Fail(w, j)
<1>. TypeOK /\ TypeOK' /\ OwnInv /\ OwnInv'
  BY DEF QueueInv, StartsInv
<1> DEFINE j == mine[w]
<1>1. j \in Jobs /\ Drop(w)
  BY DEF Report, OwnInv
<1>2. L!Leaves(w, j)
  BY <1>1, DropRunner
<1>3. canceled[w] => cancel_requested[j]
  BY DEF QueueInv, LifeInv
<1>4. CASE /\ canceled[w] \/ proc[w] = "ok"
           /\ state' = [state EXCEPT ![j] = IF canceled[w] THEN "canceled" ELSE "succeeded"]
           /\ cancel_requested' = [cancel_requested EXCEPT ![j] = FALSE]
           /\ UNCHANGED <<retry_count, backoff>>
  <2>1. L!Finish(w, j)
    BY <1>2, <1>3, <1>4 DEF L!Finish
  <2>. QED BY <1>1, <2>1
<1>5. CASE /\ CanRetry(j) /\ state' = [state EXCEPT ![j] = "queued"] /\ Requeued({j})
  <2> DEFINE S == {i \in Jobs : i = j}
  <2>1. S \in SUBSET Jobs /\ (\A i \in S : CanRetry(i)) /\ Requeued(S)
    BY <1>1, <1>5 DEF Requeued
  <2>2. L!TryAgain(S)
    <3> HIDE DEF S
    <3>. QED BY <2>1, RequeuedTries
  <2>3. L!Fail(w, j)
    BY <1>2, <1>5, <2>2 DEF L!Fail
  <2>. QED BY <1>1, <2>3
<1>6. CASE /\ ~CanRetry(j) /\ state' = [state EXCEPT ![j] = "failed"]
           /\ UNCHANGED <<retry_count, cancel_requested, backoff>>
  <2>1. retry_count[j] \in Nat /\ max_retries[j] \in Nat /\ retry_count[j] <= max_retries[j]
    BY <1>1, JobsAssumption DEF TypeOK
  <2>2. retry_count[j] = max_retries[j]
    BY <1>6, <2>1 DEF CanRetry
  <2>3. L!Fail(w, j)
    BY <1>2, <1>6, <2>2 DEF L!Fail
  <2>. QED BY <1>1, <2>3
<1>. QED BY <1>4, <1>5, <1>6 DEF Report

\* The pass over stale rows is Recover: no stale row has a runner.
LEMMA MarkStaleRecovers ==
    ASSUME QueueInv, ~lagged, NEW w \in Workers, MarkStale(w)
    PROVE  \E S \in SUBSET Jobs : L!Recover(S)
<1>. TypeOK /\ OwnInv
  BY DEF QueueInv, StartsInv
<1> DEFINE gone  == {j \in Jobs : StaleJob(j)}
           again == {j \in gone : CanRetry(j)}
<1>1. /\ state' = [j \in Jobs |-> IF j \in again THEN "queued"
                                  ELSE IF j \in gone THEN "interrupted" ELSE state[j]]
      /\ Requeued(again) /\ UNCHANGED mine
  BY DEF MarkStale
<1>2. again = {j \in gone : retry_count[j] < max_retries[j]}
  BY DEF CanRetry
<1>3. \A j \in gone : state[j] = "running" /\ Runner[j] = NoWorker
  <2>. SUFFICES ASSUME NEW j \in gone, NEW v \in Workers, mine[v] = j PROVE FALSE
    BY RunnerIs DEF StaleJob
  <2>1. age[j] <= StaleSeconds /\ age[j] > StaleSeconds
    BY DEF OwnInv, StaleJob
  <2>2. age[j] \in Nat /\ StaleSeconds \in Nat
    BY TimesAssumption DEF TypeOK
  <2>. QED BY <2>1, <2>2
<1>4. again \in SUBSET Jobs /\ \A j \in again : CanRetry(j)
  OBVIOUS
<1>5. gone \in SUBSET Jobs
  OBVIOUS
<1> HIDE DEF gone, again
<1>6. L!TryAgain(again)
  BY <1>1, <1>4, RequeuedTries
<1>7. Runner' = Runner
  BY <1>1 DEF Runner
<1>8. L!Recover(gone)
  BY <1>1, <1>2, <1>3, <1>6, <1>7 DEF L!Recover
<1>. QED BY <1>5, <1>8

\* While none is late, every step is one of the promise or changes nothing in it.
LEMMA InTimeStep ==
    ASSUME QueueInv, QueueInv', [Next]_vars, ~lagged, ~lagged'
    PROVE  [L!InTime]_(L!lifeVars)
<1>. TypeOK /\ TypeOK' /\ OwnInv /\ OwnInv'
  BY DEF QueueInv, StartsInv
<1>0. ASSUME UNCHANGED <<state, retry_count, cancel_requested, mine>> PROVE UNCHANGED L!lifeVars
  <2>1. UNCHANGED lagged
    BY DEF TypeOK
  <2>. QED BY <1>0, <2>1 DEF Runner, L!lifeVars
<1>1. ASSUME NEW j \in Jobs, Submit(j) PROVE L!InTime
  <2>1. L!Enter(j)
    BY <1>1 DEF Submit, worker, Runner, L!Enter
  <2>. QED BY <2>1 DEF L!InTime
<1>2. ASSUME NEW j \in Jobs, RequestCancel(j) PROVE L!InTime
  <2>1. L!Want(j)
    BY <1>2 DEF RequestCancel, worker, Runner, L!Want
  <2>. QED BY <2>1 DEF L!InTime
<1>3. ASSUME NEW w \in Workers, MarkStale(w) PROVE L!InTime
  BY <1>3, MarkStaleRecovers DEF L!InTime
<1>4. ASSUME NEW w \in Workers, ClaimNext(w) PROVE L!InTime
  BY <1>4, ClaimTakes DEF L!InTime
<1>5. ASSUME NEW w \in Workers, Report(w) PROVE L!InTime
  BY <1>5, ReportSettles DEF L!InTime
<1>6. ASSUME NEW w \in Workers, Crash(w) PROVE L!InTime
  <2>1. L!Desert(w)
    BY <1>6, DropRunner DEF Crash, row, L!Desert
  <2>. QED BY <2>1 DEF L!InTime
<1>7. ASSUME NEW w \in Workers, \/ NothingToDo(w) \/ Launch(w) \/ SeeCancel(w) \/ Ended(w)
             \/ Heartbeat(w) \/ ContainerStarts(w) \/ ProcessEnds(w) \/ Restart(w)
      PROVE  UNCHANGED L!lifeVars
  <2>1. UNCHANGED <<state, retry_count, cancel_requested, mine, lagged>>
    BY <1>7 DEF NothingToDo, Launch, SeeCancel, Ended, Heartbeat, ContainerStarts, ProcessEnds,
                Restart, row, ghost
  <2>. QED BY <1>0, <2>1 DEF L!lifeVars
<1>8. ASSUME \/ Tick \/ (\E n \in Names : LeftEnds(n)) \/ (\E j \in Jobs : RetryAfter(j))
             \/ (\E j \in Contained : LeftStarts(j)) \/ UNCHANGED vars
      PROVE  UNCHANGED L!lifeVars
  <2>1. UNCHANGED <<state, retry_count, cancel_requested, mine>>
    BY <1>8 DEF Tick, LeftEnds, LeftStarts, RetryAfter, row, worker, vars
  <2>. QED BY <1>0, <2>1 DEF L!lifeVars
<1>. QED BY <1>1, <1>2, <1>3, <1>4, <1>5, <1>6, <1>7, <1>8 DEF Next, Work

\* Whether workers are late or not, each job stays at its stage or goes on to one
\* that may follow.
LEMMA EveryMove ==
    ASSUME QueueInv, [Next]_vars, NEW j \in Jobs PROVE L!Moves(j)
<1>. TypeOK
  BY DEF QueueInv, StartsInv
<1>1. ASSUME state'[j] = state[j], retry_count'[j] = retry_count[j] PROVE L!Moves(j)
  BY <1>1 DEF L!Moves
<1>2. ASSUME NEW i \in Jobs, Submit(i) PROVE L!Moves(j)
  BY <1>2 DEF Submit, TypeOK, L!Moves
<1>3. ASSUME NEW w \in Workers, ClaimNext(w) PROVE L!Moves(j)
  <2>1. PICK i \in Jobs : state[i] = "queued" /\ state' = [state EXCEPT ![i] = "running"]
    BY <1>3 DEF ClaimNext, Claimable
  <2>. QED BY <1>3, <2>1 DEF ClaimNext, TypeOK, L!Moves
<1>4. ASSUME NEW w \in Workers, MarkStale(w) PROVE L!Moves(j)
  <2> DEFINE again == {i \in {k \in Jobs : StaleJob(k)} : CanRetry(i)}
  <2>1. /\ state'[j] = IF j \in again THEN "queued" ELSE IF StaleJob(j) THEN "interrupted" ELSE state[j]
        /\ retry_count'[j] = IF j \in again THEN retry_count[j] + 1 ELSE retry_count[j]
    BY <1>4 DEF MarkStale, Requeued
  <2>2. j \in again => state[j] = "running" /\ retry_count[j] < max_retries[j]
    BY DEF StaleJob, CanRetry
  <2>3. StaleJob(j) => state[j] = "running"
    BY DEF StaleJob
  <2> HIDE DEF again
  <2>. QED BY <2>1, <2>2, <2>3 DEF L!Moves, L!Ends
<1>5. ASSUME NEW w \in Workers, Report(w) PROVE L!Moves(j)
  <2>1. mine[w] \in Jobs /\ state[mine[w]] # "none"
    BY <1>5 DEF Report, QueueInv, OwnInv, LifeInv
  <2>2. CASE j # mine[w]
    BY <1>1, <1>5, <2>1, <2>2 DEF Report, Requeued, TypeOK
  <2>3. CASE j = mine[w]
    BY <1>5, <2>1, <2>3 DEF Report, Requeued, CanRetry, TypeOK, L!Moves, L!Ends
  <2>. QED BY <2>2, <2>3
<1>6. ASSUME NEW w \in Workers, \/ NothingToDo(w) \/ Launch(w) \/ SeeCancel(w) \/ Ended(w)
             \/ Heartbeat(w) \/ ContainerStarts(w) \/ ProcessEnds(w) \/ Crash(w) \/ Restart(w)
      PROVE  L!Moves(j)
  BY <1>1, <1>6 DEF NothingToDo, Launch, SeeCancel, Ended, Heartbeat, ContainerStarts, ProcessEnds,
                    Crash, Restart, row
<1>7. ASSUME \/ Tick \/ (\E n \in Names : LeftEnds(n)) \/ (\E i \in Contained : LeftStarts(i))
             \/ (\E i \in Jobs : RequestCancel(i) \/ RetryAfter(i)) \/ UNCHANGED vars
      PROVE  L!Moves(j)
  BY <1>1, <1>7 DEF Tick, LeftEnds, LeftStarts, RequestCancel, RetryAfter, row, vars
<1>. QED BY <1>2, <1>3, <1>4, <1>5, <1>6, <1>7 DEF Next, Work

\* For any jobs, workers and limits the queue keeps the promise of JobLife: in
\* whatever order workers claim, report, crash, and take each other's jobs for lost.
THEOREM QueueImplementsJobLife == Spec => ImplementsJobLife
<1>1. Init => L!LifeInit
  <2>1. Init => Runner = [j \in Jobs |-> NoWorker]
    BY JobsAssumption DEF Init, Runner
  <2>. QED BY <2>1 DEF Init, L!LifeInit
<1>2. QueueInv /\ QueueInv' /\ [Next]_vars => [L!LifeNext]_(L!lifeVars)
  <2>. SUFFICES ASSUME QueueInv, QueueInv', [Next]_vars PROVE [L!LifeNext]_(L!lifeVars)
    OBVIOUS
  <2>1. lagged => lagged'
    BY LateStays DEF QueueInv, StartsInv
  <2>2. CASE lagged'
    BY <2>1, <2>2, EveryMove DEF L!LifeNext, L!TooLate
  <2>3. CASE ~lagged'
    BY <2>1, <2>3, InTimeStep DEF L!LifeNext
  <2>. QED BY <2>2, <2>3
<1>. QED BY <1>1, <1>2, QueueKept, PTL DEF Spec, ImplementsJobLife, L!LifeSpec

-----------------------------------------------------------------------------
(* Workers in time *)

\* The row of the job of a worker in time was written since the last tick if the
\* worker has been round since, and since the one before if not; a row that is not
\* running has no age.
FreshInv ==
    /\ \A j \in Jobs : state[j] # "running" => age[j] = 0
    /\ \A w \in Workers \ Slow : mine[w] \in Jobs =>
          /\ age[mine[w]] <= 1
          /\ w \in rested => age[mine[w]] = 0

\* A step that writes heartbeats or none, and lets nobody rest who had not written.
LEMMA FreshUnchanged ==
    ASSUME StartsInv, FreshInv,
           \A j \in Jobs : age'[j] = 0 \/ (age'[j] = age[j] /\ (state[j] = "running" => state'[j] = "running")),
           \A w \in Workers : mine'[w] \in Jobs =>
               \/ age'[mine'[w]] = 0
               \/ mine'[w] = mine[w] /\ (w \in rested' => w \in rested)
    PROVE  FreshInv'
<1>1. \A j \in Jobs : state'[j] # "running" => age'[j] = 0
  BY DEF FreshInv
<1>2. \A w \in Workers \ Slow : mine'[w] \in Jobs =>
          age'[mine'[w]] = 0 \/ (mine'[w] = mine[w] /\ age'[mine[w]] = age[mine[w]])
  OBVIOUS
<1>. QED BY <1>1, <1>2 DEF FreshInv

\* Every step keeps the rows of the workers in time fresh: a claim, and each round,
\* writes the heartbeat, and a tick finds it written.
LEMMA FreshStep == StartsInv /\ OwnInv /\ FreshInv /\ [Next]_vars => FreshInv'
<1>. SUFFICES ASSUME StartsInv, OwnInv, FreshInv, [Next]_vars PROVE FreshInv'
  OBVIOUS
<1>. TypeOK
  BY DEF StartsInv
<1>1. ASSUME NEW w \in Workers, Heartbeat(w) PROVE FreshInv'
  <2>1. mine[w] \in Jobs /\ age'[mine[w]] = 0
    BY <1>1 DEF Heartbeat, OwnInv, FreshInv, TypeOK
  <2>2. /\ UNCHANGED <<state, mine>> /\ rested' = rested \cup {w}
        /\ \A j \in Jobs : age'[j] = 0 \/ age'[j] = age[j]
    BY <1>1 DEF Heartbeat, TypeOK
  <2>. QED BY <2>1, <2>2, FreshUnchanged
<1>2. ASSUME NEW w \in Workers, ClaimNext(w) PROVE FreshInv'
  <2>1. PICK j \in Jobs :
          /\ state[j] = "queued" /\ state' = [state EXCEPT ![j] = "running"]
          /\ age' = [age EXCEPT ![j] = 0] /\ mine' = [mine EXCEPT ![w] = j]
    BY <1>2 DEF ClaimNext, Claimable
  <2>2. rested' = rested \cup {w}
    BY <1>2 DEF ClaimNext
  <2>. QED BY <2>1, <2>2, FreshUnchanged DEF TypeOK
<1>3. ASSUME NEW w \in Workers, MarkStale(w) PROVE FreshInv'
  <2>1. /\ UNCHANGED <<mine, rested>>
        /\ \A j \in Jobs : age'[j] = 0 \/ (age'[j] = age[j] /\ state'[j] = state[j])
    BY <1>3 DEF MarkStale
  <2>. QED BY <2>1, FreshUnchanged
<1>4. ASSUME NEW w \in Workers, Report(w) \/ Crash(w) PROVE FreshInv'
  <2>1. /\ mine' = [mine EXCEPT ![w] = NoJob] /\ rested' = rested \ {w}
    BY <1>4 DEF Report, Crash, Drop
  <2>2. \A v \in Workers : mine'[v] \in Jobs => mine'[v] = mine[v] /\ (v \in rested' => v \in rested)
    BY <2>1, JobsAssumption DEF TypeOK
  <2>3. CASE Crash(w)
    BY <2>2, <2>3, FreshUnchanged DEF Crash, row
  <2>4. CASE Report(w)
    <3>1. \A j \in Jobs : age'[j] = 0 \/ (age'[j] = age[j] /\ state'[j] = state[j])
      BY <2>4 DEF Report, TypeOK
    <3>. QED BY <2>2, <3>1, FreshUnchanged
  <2>. QED BY <1>4, <2>3, <2>4
<1>5. CASE Tick
  <2>1. /\ UNCHANGED <<state, mine>> /\ rested' = {}
        /\ \A w \in Workers \ Slow : mine[w] \in Jobs => w \in rested
    BY <1>5, JobsAssumption DEF Tick, Busy
  <2>2. \A j \in Jobs : age'[j] = age[j] \/ (state[j] = "running" /\ age'[j] = age[j] + 1)
    BY <1>5 DEF Tick
  <2>3. \A w \in Workers \ Slow : mine[w] \in Jobs => age[mine[w]] = 0 /\ age'[mine[w]] <= 1
    BY <2>1, <2>2 DEF FreshInv
  <2>. QED BY <2>1, <2>2, <2>3 DEF FreshInv
<1>6. ASSUME NEW j \in Jobs, Submit(j) \/ RequestCancel(j) \/ RetryAfter(j) PROVE FreshInv'
  <2>1. /\ UNCHANGED <<age, mine, rested>>
        /\ \A i \in Jobs : state[i] = "running" => state'[i] = "running"
    BY <1>6 DEF Submit, RequestCancel, RetryAfter, worker, TypeOK
  <2>. QED BY <2>1, FreshUnchanged
<1>7. ASSUME NEW w \in Workers, \/ NothingToDo(w) \/ Launch(w) \/ SeeCancel(w) \/ Ended(w)
             \/ ContainerStarts(w) \/ ProcessEnds(w) \/ Restart(w)
      PROVE  FreshInv'
  <2>1. UNCHANGED <<state, age, mine, rested>>
    BY <1>7 DEF NothingToDo, Launch, SeeCancel, Ended, ContainerStarts, ProcessEnds, Restart, row
  <2>. QED BY <2>1 DEF FreshInv
<1>8. ASSUME \/ (\E n \in Names : LeftEnds(n)) \/ (\E j \in Contained : LeftStarts(j))
             \/ UNCHANGED vars
      PROVE  FreshInv'
  <2>1. UNCHANGED <<state, age, mine, rested>>
    BY <1>8 DEF LeftEnds, LeftStarts, row, worker, vars
  <2>. QED BY <2>1 DEF FreshInv
<1>. QED BY <1>1, <1>2, <1>3, <1>4, <1>5, <1>6, <1>7, <1>8 DEF Next, Work

\* The invariant of the workers in time.
LEMMA FreshRows == Spec => [](StartsInv /\ OwnInv /\ FreshInv)
<1>1. Init => FreshInv
  BY JobsAssumption DEF Init, FreshInv
<1>. QED BY <1>1, FreshStep, OwnKept, PTL DEF Spec

\* The row of a worker that gets round its watch in time never looks stale to the
\* others: its claim and its rounds write the heartbeats that keep it fresh, though
\* late workers crash, report on rows that are not theirs, and take jobs again.
THEOREM FreshKeptAlways == Spec => []FreshKept
<1>1. StartsInv /\ FreshInv => FreshKept
  <2>. SUFFICES ASSUME StartsInv, FreshInv, NEW w \in Workers \ Slow, Owns(w), StaleJob(mine[w])
                PROVE  FALSE
    BY DEF FreshKept
  <2>1. mine[w] \in Jobs
    BY DEF Owns, Busy, StartsInv, TypeOK
  <2>2. age[mine[w]] <= 1 /\ age[mine[w]] > StaleSeconds /\ age[mine[w]] \in Nat
    BY <2>1 DEF FreshInv, StaleJob, StartsInv, TypeOK
  <2>. QED BY <2>2, TimesAssumption
<1>. QED BY <1>1, FreshRows, PTL

\* Where every worker gets round its watch between two ticks, the heartbeats that
\* it writes there keep all rows fresh, so nobody is late: then all that is said of
\* workers in time holds without exception, crashes included.
THEOREM NobodyLate == ASSUME Slow = {} PROVE Spec => []~lagged
<1>1. Init => ~lagged
  BY DEF Init
<1>2. StartsInv /\ OwnInv /\ FreshInv /\ ~lagged /\ [Next]_vars => ~lagged'
  <2>. SUFFICES ASSUME StartsInv, OwnInv, FreshInv, ~lagged, [Next]_vars PROVE ~lagged'
    OBVIOUS
  <2>1. CASE Tick
    <3>. SUFFICES ASSUME NEW w \in Workers, Owns(w) PROVE ~(age'[mine[w]] > StaleSeconds)
      BY <2>1 DEF Tick
    <3>1. mine[w] \in Jobs /\ w \in rested
      BY <2>1 DEF Tick, Owns, Busy, StartsInv, TypeOK
    <3>2. age[mine[w]] = 0
      BY <3>1 DEF FreshInv
    <3>3. age'[mine[w]] \in {0, 1}
      BY <2>1, <3>1, <3>2 DEF Tick
    <3>. QED BY <3>3, TimesAssumption
  <2>2. CASE ~Tick
    BY <2>2 DEF Next, Work, Submit, RequestCancel, RetryAfter, MarkStale, ClaimNext, NothingToDo,
           Launch, SeeCancel, Ended, Report, Heartbeat, ContainerStarts, ProcessEnds, Crash, Restart,
           LeftEnds, LeftStarts, ghost, vars
  <2>. QED BY <2>1, <2>2
<1>. QED BY <1>1, <1>2, FreshRows, PTL DEF Spec

\* There every step in the life of a job is taken in time: only its one worker says
\* how a run ended, and mark_stale_jobs takes only jobs away that nobody runs.
THEOREM LivesInTime == ASSUME Slow = {} PROVE Spec => [][L!InTime]_(L!lifeVars)
<1>1. QueueInv /\ QueueInv' /\ ~lagged /\ ~lagged' /\ [Next]_vars => [L!InTime]_(L!lifeVars)
  BY InTimeStep
<1>. QED BY <1>1, QueueKept, NobodyLate, PTL DEF Spec

=============================================================================
