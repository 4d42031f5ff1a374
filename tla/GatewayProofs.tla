----------------------------- MODULE GatewayProofs -----------------------------
(***************************************************************************)
(* Proofs about the gateway, for any number of threads and any faults.     *)
(* The invariant comes in parts, each kept by every step with the help of  *)
(* those before it: where the threads may be and who of them holds         *)
(* start_lock, what has become of each request, the count of requests      *)
(* under way, and what the teardown of an offload excludes.                *)
(***************************************************************************)
EXTENDS Gateway, FiniteSetTheorems, TLAPS

PcsOfRequest   == {"idle", "body", "ensure", "lock", "end"} \cup Loading \cup OnWire
PcsOfOffloader == {"watch", "commit"} \cup Tearing
PcsOfProber    == {"probe", "judge", "done"}

\* Who is there holds start_lock.
Holding == Loading \cup Tearing \cup {"commit"}

ThreadInv ==
    /\ pc \in [Threads -> PcsOfRequest \cup PcsOfOffloader \cup PcsOfProber]
    /\ \A r \in Requests : pc[r] \in PcsOfRequest
    /\ \A t \in Offloaders : pc[t] \in PcsOfOffloader
    /\ \A t \in Probers : pc[t] \in PcsOfProber
    /\ start_lock \in Threads \cup {NoThread}
    /\ \A t \in Threads : pc[t] \in Holding => start_lock = t

\* The server has not been sent the request of this attempt yet.
Trying == {"body", "ensure", "lock", "connect", "send"} \cup Loading

RequestInv ==
    /\ job \in [Requests -> {"load", "refresh", "recover"}]
    /\ attempt \in [Requests -> 1..3]
    /\ conn \in [Requests -> {"none", "open", "broken"}]
    /\ runs \in [Requests -> Nat] /\ heads \in [Requests -> 0..1]
    /\ \A r \in Requests :
          /\ runs[r] <= attempt[r]
          /\ pc[r] \in Trying => runs[r] < attempt[r]
          /\ r \notin Safe => runs[r] <= 1 /\ (pc[r] \in Trying => runs[r] = 0)
          /\ pc[r] \in Trying \cup {"await"} => heads[r] = 0
          /\ pc[r] \in {"stream", "end"} => heads[r] = 1

Under_way == {r \in Requests : pc[r] # "idle"}
CountInv == active = Cardinality(Under_way)

RestInv ==
    /\ loaded \in BOOLEAN /\ offloading \in BOOLEAN /\ verified \in BOOLEAN
    /\ started \in BOOLEAN /\ finished \in BOOLEAN /\ offloaded \in BOOLEAN /\ seen \in BOOLEAN
    /\ server \in BOOLEAN /\ relay \in BOOLEAN /\ lease \in BOOLEAN
    /\ faults \in 0..MaxFaults

TypeInv == ThreadInv /\ RequestInv /\ CountInv /\ RestInv

-----------------------------------------------------------------------------
(* The threads and the lock *)

\* A request goes on to a place of its own, which it reaches with the lock only
\* if it had it or took it.
LEMMA ServeGoes ==
    ASSUME NEW r \in Requests, Serve(r)
    PROVE  \E to \in PcsOfRequest :
              /\ Go(r, to)
              /\ \/ Lock(r)
                 \/ Unlock /\ pc[r] \in Holding /\ to \notin Holding
                 \/ UNCHANGED start_lock /\ (to \in Holding => pc[r] \in Holding)
<1> USE DEF PcsOfRequest, Holding, Loading, OnWire, Tearing
<1>1. ASSUME ReadBody(r) \/ End(r) \/ HotPath(r) \/ ColdPath(r) \/ LoadedMeanwhile(r) PROVE
             \E to \in {"ensure", "end", "idle", "connect", "lock"} : Go(r, to) /\ UNCHANGED start_lock
  BY <1>1 DEF ReadBody, End, HotPath, ColdPath, LoadedMeanwhile
<1>2. ASSUME LoadBegin(r) \/ RefreshBegin(r) \/ RecoverBegin(r) PROVE
             \E to \in {"tunnel", "stop_tunnel", "stop_runtime"} : Go(r, to) /\ Lock(r)
  BY <1>2 DEF LoadBegin, RefreshBegin, RecoverBegin
<1>3. ASSUME StopRuntime(r) \/ StopTunnel(r) \/ StopAgain(r) \/ NotRunning(r) \/ AcquireLease(r)
             \/ StartServer(r)
      PROVE  \E to \in Loading : Go(r, to) /\ UNCHANGED start_lock /\ pc[r] \in Holding
  BY <1>3 DEF StopRuntime, StopTunnel, StopAgain, NotRunning, AcquireLease, StartServer
<1>4. ASSUME EnsureTunnel(r) \/ UseRunning(r) \/ Ready(r) \/ LoadFails(r)
      PROVE  \E to \in {"ensure", "process", "connect", "end"} :
                Go(r, to) /\ pc[r] \in Holding
                /\ ((Unlock /\ to # "process") \/ UNCHANGED start_lock)
  BY <1>4 DEF EnsureTunnel, UseRunning, Ready, LoadFails, Raises
<1>5. ASSUME NEW stage, AttemptFails(r, stage)
      PROVE  \E to \in {"lock", "end"} : Go(r, to) /\ UNCHANGED start_lock
  BY <1>5 DEF AttemptFails
<1>6. ASSUME Connect(r) \/ Send(r) \/ Respond(r) \/ Stream(r) \/ SendFails(r)
             \/ ConnectFails(r) \/ AwaitFails(r)
      PROVE  \E to \in {"lock", "end", "send", "await", "stream"} : Go(r, to) /\ UNCHANGED start_lock
  BY <1>5, <1>6 DEF Connect, Send, Respond, Stream, SendFails, ConnectFails, AwaitFails
<1>. QED BY <1>1, <1>2, <1>3, <1>4, <1>6 DEF Serve, TakeLock

\* So does a thread that offloads.
LEMMA OffloadGoes ==
    ASSUME NEW t \in Offloaders, OffloadBegin(t) \/ Idle(t) \/ Teardown(t)
    PROVE  \E to \in PcsOfOffloader :
              /\ Go(t, to)
              /\ \/ Lock(t)
                 \/ Unlock /\ pc[t] \in Holding /\ to \notin Holding
                 \/ UNCHANGED start_lock /\ pc[t] \in Holding
<1> USE DEF PcsOfOffloader, Holding, Loading, Tearing
<1>1. ASSUME Teardown(t) PROVE
             \E to \in {"watch"} \cup Tearing :
                /\ Go(t, to) /\ pc[t] \in Tearing
                /\ (to = "watch" /\ Unlock) \/ UNCHANGED start_lock
  BY <1>1 DEF Teardown, TearStop, TearTunnel, TearRelease, TearClear, TearForget, TearFails
<1>2. ASSUME OffloadBegin(t) \/ IdleCheck(t) PROVE \E to \in {"t_stop", "commit"} : Go(t, to) /\ Lock(t)
  BY <1>2 DEF OffloadBegin, IdleCheck
<1>3. ASSUME IdleCommit(t) PROVE
             \E to \in {"watch", "t_stop"} :
                Go(t, to) /\ pc[t] = "commit" /\ ((to = "watch" /\ Unlock) \/ UNCHANGED start_lock)
  BY <1>3 DEF IdleCommit
<1>. QED BY <1>1, <1>2, <1>3 DEF Idle

\* What a step of one thread, with what it does to the lock, leaves of ThreadInv.
LEMMA GoesKeepsThreads ==
    ASSUME ThreadInv, NEW t \in Threads, NEW to, Go(t, to),
           t \in Requests => to \in PcsOfRequest,
           t \in Offloaders => to \in PcsOfOffloader,
           t \in Probers => to \in PcsOfProber,
           \/ Lock(t)
           \/ Unlock /\ pc[t] \in Holding /\ to \notin Holding
           \/ UNCHANGED start_lock /\ (to \in Holding => pc[t] \in Holding)
    PROVE  ThreadInv'
<1>1. /\ pc' \in [Threads -> PcsOfRequest \cup PcsOfOffloader \cup PcsOfProber]
      /\ \A u \in Threads : pc'[u] = IF u = t THEN to ELSE pc[u]
  BY DEF ThreadInv, Go, Threads
<1>2. /\ \A r \in Requests : pc'[r] \in PcsOfRequest
      /\ \A u \in Offloaders : pc'[u] \in PcsOfOffloader
      /\ \A u \in Probers : pc'[u] \in PcsOfProber
  BY <1>1 DEF ThreadInv, Threads
<1>3. start_lock' \in Threads \cup {NoThread}
  BY DEF ThreadInv, Lock, Unlock
<1>4. \A u \in Threads : pc'[u] \in Holding => start_lock' = u
  BY <1>1, ThreadsAssumption DEF ThreadInv, Lock, Unlock
<1>. QED BY <1>1, <1>2, <1>3, <1>4 DEF ThreadInv

\* One thread at a time is in a place that needs the lock.
LEMMA ThreadStep == ThreadInv /\ [Next]_vars => ThreadInv'
<1>. SUFFICES ASSUME ThreadInv, [Next]_vars PROVE ThreadInv'
  OBVIOUS
<1>. Requests \subseteq Threads /\ Offloaders \subseteq Threads /\ Probers \subseteq Threads
     /\ Admins \subseteq Offloaders /\ Idlers \subseteq Offloaders
  BY DEF Threads, Offloaders
<1>1. ASSUME NEW r \in Requests, Begin(r) PROVE ThreadInv'
  <2>1. Go(r, "body") /\ UNCHANGED start_lock
    BY <1>1 DEF Begin
  <2>2. "body" \in PcsOfRequest /\ "body" \notin Holding
    BY DEF PcsOfRequest, Holding, Loading, Tearing
  <2>. QED BY <2>1, <2>2, GoesKeepsThreads, ThreadsAssumption
<1>2. ASSUME NEW r \in Requests, Serve(r) PROVE ThreadInv'
  <2>1. r \notin Offloaders /\ r \notin Probers
    BY ThreadsAssumption
  <2>. QED BY <1>2, <2>1, ServeGoes, GoesKeepsThreads
<1>3. ASSUME NEW t \in Offloaders, OffloadBegin(t) \/ Idle(t) \/ Teardown(t) PROVE ThreadInv'
  <2>1. t \notin Requests /\ t \notin Probers
    BY ThreadsAssumption
  <2>. QED BY <1>3, <2>1, OffloadGoes, GoesKeepsThreads
<1>4. ASSUME NEW t \in Probers, ProbeRead(t) \/ ProbeJudge(t) PROVE ThreadInv'
  <2>1. t \notin Requests /\ t \notin Offloaders
    BY ThreadsAssumption
  <2>2. (Go(t, "judge") \/ Go(t, "done")) /\ UNCHANGED start_lock
    BY <1>4 DEF ProbeRead, ProbeJudge
  <2>3. {"judge", "done"} \subseteq PcsOfProber /\ {"judge", "done"} \cap Holding = {}
    BY DEF PcsOfProber, Holding, Loading, Tearing
  <2>. QED BY <2>1, <2>2, <2>3, GoesKeepsThreads
<1>5. CASE Lapse \/ ServerDies \/ RelayDies \/ StartedOutside \/ UNCHANGED vars
  BY <1>5 DEF Lapse, ServerDies, RelayDies, StartedOutside, vars, ThreadInv
<1>. QED BY <1>1, <1>2, <1>3, <1>4, <1>5 DEF Next

-----------------------------------------------------------------------------
(* The requests *)

\* A connection that is cut keeps its type.
LEMMA CutType ==
    ASSUME conn \in [Requests -> {"none", "open", "broken"}], Cut
    PROVE  conn' \in [Requests -> {"none", "open", "broken"}]
BY DEF Cut

\* What a request's own step must see to, the other requests being left alone.
LEMMA OwnStep ==
    ASSUME ThreadInv, RequestInv, NEW r \in Requests, NEW to, Go(r, to),
           NEW j \in {"load", "refresh", "recover"}, job' = [job EXCEPT ![r] = j],
           NEW a \in 1..3, attempt' = [attempt EXCEPT ![r] = a],
           conn' \in [Requests -> {"none", "open", "broken"}],
           NEW n \in Nat, runs' = [runs EXCEPT ![r] = n],
           NEW h \in 0..1, heads' = [heads EXCEPT ![r] = h],
           n <= a, to \in Trying => n < a,
           r \notin Safe => n <= 1 /\ (to \in Trying => n = 0),
           to \in Trying \cup {"await"} => h = 0,
           to \in {"stream", "end"} => h = 1
    PROVE  RequestInv'
<1>1. \A q \in Requests : /\ pc'[q] = IF q = r THEN to ELSE pc[q]
                          /\ attempt'[q] = IF q = r THEN a ELSE attempt[q]
                          /\ runs'[q] = IF q = r THEN n ELSE runs[q]
                          /\ heads'[q] = IF q = r THEN h ELSE heads[q]
  BY DEF ThreadInv, RequestInv, Go, Threads
<1>2. /\ job' \in [Requests -> {"load", "refresh", "recover"}]
      /\ attempt' \in [Requests -> 1..3]
      /\ runs' \in [Requests -> Nat] /\ heads' \in [Requests -> 0..1]
  BY DEF RequestInv
<1>3. \A q \in Requests :
          /\ runs'[q] <= attempt'[q]
          /\ pc'[q] \in Trying => runs'[q] < attempt'[q]
          /\ q \notin Safe => runs'[q] <= 1 /\ (pc'[q] \in Trying => runs'[q] = 0)
          /\ pc'[q] \in Trying \cup {"await"} => heads'[q] = 0
          /\ pc'[q] \in {"stream", "end"} => heads'[q] = 1
  BY <1>1 DEF RequestInv
<1>. QED BY <1>2, <1>3 DEF RequestInv

\* A request that only moves, from one place where it tries to another.
LEMMA TriesOn ==
    ASSUME ThreadInv, RequestInv, NEW r \in Requests, pc[r] \in Trying,
           NEW to \in Trying, Go(r, to),
           job' = job \/ job' = [job EXCEPT ![r] = "load"],
           conn' \in [Requests -> {"none", "open", "broken"}],
           UNCHANGED <<attempt, runs, heads>>
    PROVE  RequestInv'
<1>1. \E j \in {"load", "refresh", "recover"} : job' = [job EXCEPT ![r] = j]
  BY DEF RequestInv
<1>2. /\ attempt' = [attempt EXCEPT ![r] = attempt[r]] /\ attempt[r] \in 1..3
      /\ runs' = [runs EXCEPT ![r] = runs[r]] /\ runs[r] \in Nat
      /\ heads' = [heads EXCEPT ![r] = heads[r]] /\ heads[r] \in 0..1
  BY DEF RequestInv
<1>3. /\ runs[r] <= attempt[r] /\ runs[r] < attempt[r] /\ heads[r] = 0
      /\ r \notin Safe => runs[r] <= 1 /\ runs[r] = 0
  BY DEF RequestInv
<1>4. to \notin {"stream", "end"}
  BY DEF Trying, Loading
<1>. QED BY <1>1, <1>2, <1>3, <1>4, OwnStep

\* A request that gives up while it still tries gets its one answer, an error.
LEMMA GivesUp ==
    ASSUME ThreadInv, RequestInv, NEW r \in Requests,
           pc[r] \in Trying \cup {"await", "stream"},
           Go(r, "end"), ReplyError(r), UNCHANGED <<job, attempt, runs>>,
           conn' \in [Requests -> {"none", "open", "broken"}]
    PROVE  RequestInv'
<1>1. job' = [job EXCEPT ![r] = job[r]] /\ job[r] \in {"load", "refresh", "recover"}
  BY DEF RequestInv
<1>2. /\ attempt' = [attempt EXCEPT ![r] = attempt[r]] /\ attempt[r] \in 1..3
      /\ runs' = [runs EXCEPT ![r] = runs[r]] /\ runs[r] \in Nat
  BY DEF RequestInv
<1>3. heads[r] \in 0..1 /\ heads' = [heads EXCEPT ![r] = 1] 
  BY DEF RequestInv, ReplyError
<1>4. runs[r] <= attempt[r] /\ (r \notin Safe => runs[r] <= 1)
  BY DEF RequestInv
<1>5. "end" \notin Trying \cup {"await"} /\ "end" \notin Trying
  BY DEF Trying, Loading
<1>6. 1 \in 0..1
  OBVIOUS
<1>. HIDE DEF RequestInv
<1>. QED BY <1>1, <1>2, <1>3, <1>4, <1>5, <1>6, OwnStep

\* A failed attempt makes another one only if the server has not been sent a
\* request with effects, and counts the attempt.
LEMMA AttemptFailsStep ==
    ASSUME ThreadInv, RequestInv, NEW r \in Requests, NEW stage \in {"connect", "send", "await"},
           pc[r] = stage, AttemptFails(r, stage)
    PROVE  RequestInv'
<1>1. conn' \in [Requests -> {"none", "open", "broken"}]
  BY DEF AttemptFails, RequestInv
<1>2. /\ runs[r] \in Nat /\ attempt[r] \in 1..3 /\ runs[r] <= attempt[r] /\ heads[r] = 0
      /\ r \notin Safe => runs[r] <= 1 /\ (stage = "connect" => runs[r] = 0)
      /\ runs' = [runs EXCEPT ![r] = runs[r]]
  BY DEF RequestInv, Trying, AttemptFails
<1>3. "lock" \in Trying /\ "lock" \notin {"stream", "end"} /\ 0 \in 0..1
  BY DEF Trying
<1>4. ASSUME NEW a \in 2..3, NEW j \in {"refresh", "recover"}, stage = "connect" \/ r \in Safe,
             attempt[r] < a, attempt' = [attempt EXCEPT ![r] = a],
             job' = [job EXCEPT ![r] = j], Go(r, "lock"), UNCHANGED heads
      PROVE  RequestInv'
  <2>1. a \in 1..3 /\ runs[r] < a /\ runs[r] <= a /\ j \in {"load", "refresh", "recover"}
    BY <1>2, <1>4
  <2>2. heads' = [heads EXCEPT ![r] = 0]
    BY <1>2, <1>4 DEF RequestInv
  <2>. QED BY <1>1, <1>2, <1>3, <1>4, <2>1, <2>2, OwnStep
<1>5. CASE ReplyError(r) /\ Go(r, "end") /\ UNCHANGED <<attempt, job>>
  <2>1. UNCHANGED runs /\ pc[r] \in Trying \cup {"await", "stream"}
    BY DEF AttemptFails, Trying
  <2>. QED BY <1>1, <1>5, <2>1, GivesUp
<1>6. CASE /\ attempt[r] = 1 /\ stage = "connect"
           /\ attempt' = [attempt EXCEPT ![r] = 2]
           /\ job' = [job EXCEPT ![r] = "refresh"]
           /\ Go(r, "lock") /\ UNCHANGED heads
  <2>1. 2 \in 2..3 /\ attempt[r] < 2
    BY <1>6
  <2>. QED BY <1>6, <2>1, <1>4
<1>7. CASE /\ can_retry(r, stage)
           /\ attempt[r] = 2 \/ (attempt[r] = 1 /\ stage # "connect")
           /\ attempt' = [attempt EXCEPT ![r] = 3]
           /\ job' = [job EXCEPT ![r] = "recover"]
           /\ Go(r, "lock") /\ UNCHANGED heads
  <2>1. 3 \in 2..3 /\ attempt[r] < 3 /\ (stage = "connect" \/ r \in Safe)
    BY <1>7 DEF can_retry
  <2>. QED BY <1>7, <2>1, <1>4
<1>. QED BY <1>5, <1>6, <1>7 DEF AttemptFails

\* Every step of a request's own thread keeps its account.
LEMMA ServeStep ==
    ASSUME ThreadInv, RequestInv, NEW r \in Requests, Serve(r) PROVE RequestInv'
<1>. conn \in [Requests -> {"none", "open", "broken"}]
  BY DEF RequestInv
<1>1. ASSUME \/ HotPath(r) \/ ColdPath(r) \/ LoadedMeanwhile(r) \/ LoadBegin(r)
             \/ RefreshBegin(r) \/ RecoverBegin(r) \/ EnsureTunnel(r) \/ UseRunning(r)
             \/ NotRunning(r) \/ AcquireLease(r) \/ StartServer(r) \/ Ready(r)
      PROVE RequestInv'
  <2>1. pc[r] \in Trying /\ \E to \in Trying : Go(r, to)
    BY <1>1 DEF Trying, Loading, HotPath, ColdPath, LoadedMeanwhile, LoadBegin, RefreshBegin,
                RecoverBegin, EnsureTunnel, UseRunning, NotRunning, AcquireLease, StartServer, Ready
  <2>2. /\ job' = job \/ job' = [job EXCEPT ![r] = "load"]
        /\ UNCHANGED <<attempt, conn, runs, heads>>
    BY <1>1 DEF handler, HotPath, ColdPath, LoadedMeanwhile, LoadBegin, RefreshBegin,
                RecoverBegin, EnsureTunnel, UseRunning, NotRunning, AcquireLease, StartServer, Ready
  <2>. QED BY <2>1, <2>2, TriesOn
<1>2. ASSUME StopRuntime(r) \/ StopTunnel(r) \/ StopAgain(r) PROVE RequestInv'
  <2>1. pc[r] \in Trying /\ \E to \in Trying : Go(r, to)
    BY <1>2 DEF Trying, Loading, StopRuntime, StopTunnel, StopAgain
  <2>2. UNCHANGED <<job, attempt, runs, heads>> /\ (Cut \/ UNCHANGED conn)
    BY <1>2 DEF StopRuntime, StopTunnel, StopAgain, stop_remote_runtime
  <2>. QED BY <2>1, <2>2, CutType, TriesOn
<1>3. CASE ReadBody(r)
  <2>1. CASE Go(r, "ensure") /\ UNCHANGED heads
    BY <1>3, <2>1, TriesOn DEF ReadBody, Trying
  <2>2. CASE Go(r, "end") /\ ReplyError(r)
    BY <1>3, <2>2, GivesUp DEF ReadBody, Trying
  <2>. QED BY <1>3, <2>1, <2>2 DEF ReadBody
<1>4. CASE LoadFails(r)
  <2>1. pc[r] \in Trying
    BY <1>4 DEF LoadFails, Raises, Trying, Loading
  <2>. QED BY <1>4, <2>1, GivesUp DEF LoadFails
<1>5. CASE End(r)
  BY <1>5 DEF End, handler, Go, ThreadInv, RequestInv, Trying, Loading, Threads
<1>6. CASE Connect(r)
  <2>1. conn' \in [Requests -> {"none", "open", "broken"}]
    BY <1>6 DEF Connect
  <2>. QED BY <1>6, <2>1, TriesOn DEF Connect, Trying
<1>7. CASE ConnectFails(r)
  BY <1>7, AttemptFailsStep DEF ConnectFails
<1>8. CASE Send(r)
  <2>1. /\ runs[r] + 1 \in Nat /\ runs[r] + 1 <= attempt[r] /\ attempt[r] \in 1..3
        /\ r \notin Safe => runs[r] + 1 <= 1
    BY <1>8 DEF Send, RequestInv, Trying
  <2>2. /\ runs' = [runs EXCEPT ![r] = runs[r] + 1]
        /\ attempt' = [attempt EXCEPT ![r] = attempt[r]]
        /\ job' = [job EXCEPT ![r] = job[r]] /\ job[r] \in {"load", "refresh", "recover"}
        /\ heads' = [heads EXCEPT ![r] = 0] /\ 0 \in 0..1
        /\ conn' \in [Requests -> {"none", "open", "broken"}]
    BY <1>8 DEF Send, RequestInv, Trying
  <2>3. "await" \notin Trying /\ "await" \notin {"stream", "end"} /\ Go(r, "await")
    BY <1>8 DEF Send, Trying, Loading
  <2>. QED BY <2>1, <2>2, <2>3, OwnStep
<1>9. CASE SendFails(r)
  <2>1. CASE AttemptFails(r, "send")
    BY <1>9, <2>1, AttemptFailsStep DEF SendFails
  <2>2. CASE Go(r, "await") /\ UNCHANGED handler
    BY <1>9, <2>2 DEF SendFails, handler, Go, ThreadInv, RequestInv, Trying, Loading, Threads
  <2>. QED BY <1>9, <2>1, <2>2 DEF SendFails
<1>10. CASE Respond(r)
  <2>1. /\ runs[r] \in Nat /\ runs[r] <= attempt[r] /\ attempt[r] \in 1..3
        /\ r \notin Safe => runs[r] <= 1
        /\ runs' = [runs EXCEPT ![r] = runs[r]]
        /\ attempt' = [attempt EXCEPT ![r] = attempt[r]]
        /\ job' = [job EXCEPT ![r] = job[r]] /\ job[r] \in {"load", "refresh", "recover"}
        /\ conn' \in [Requests -> {"none", "open", "broken"}]
    BY <1>10 DEF Respond, RequestInv
  <2>2. heads' = [heads EXCEPT ![r] = 1] /\ 1 \in 0..1
    <3>1. heads[r] = 0 /\ heads' = [heads EXCEPT ![r] = heads[r] + 1]
      BY <1>10 DEF Respond, RequestInv
    <3>. QED BY <3>1
  <2>3. "stream" \notin Trying \cup {"await"} /\ "stream" \notin Trying /\ Go(r, "stream")
    BY <1>10 DEF Respond, Trying, Loading
  <2>. QED BY <2>1, <2>2, <2>3, OwnStep
<1>11. CASE AwaitFails(r)
  BY <1>11, AttemptFailsStep DEF AwaitFails
<1>12. CASE Stream(r)
  <2>1. pc[r] = "stream" /\ heads[r] = 1 /\ Go(r, "end") /\ UNCHANGED <<job, attempt, runs>>
        /\ conn' \in [Requests -> {"none", "open", "broken"}]
    BY <1>12 DEF Stream, RequestInv
  <2>2. ReplyError(r)
    <3>1. CASE UNCHANGED heads
      <4>1. heads = [heads EXCEPT ![r] = 1]
        BY <2>1 DEF RequestInv
      <4>2. [heads EXCEPT ![r] = IF @ = 0 THEN 1 ELSE @] = [heads EXCEPT ![r] = 1]
        BY <2>1
      <4>. QED BY <3>1, <4>1, <4>2 DEF ReplyError
    <3>2. CASE ReplyError(r)
      BY <3>2
    <3>. QED BY <1>12, <3>1, <3>2 DEF Stream
  <2>. QED BY <2>1, <2>2, GivesUp
<1>. QED
  BY <1>1, <1>2, <1>3, <1>4, <1>5, <1>6, <1>7, <1>8, <1>9, <1>10, <1>11, <1>12 DEF Serve, TakeLock

\* Other threads, and the world outside, only cut connections.
LEMMA RequestStep == ThreadInv /\ RequestInv /\ [Next]_vars => RequestInv'
<1>. SUFFICES ASSUME ThreadInv, RequestInv, [Next]_vars PROVE RequestInv'
  OBVIOUS
<1>1. ASSUME NEW r \in Requests, Begin(r) PROVE RequestInv'
  BY <1>1 DEF Begin, Go, ThreadInv, RequestInv, Threads, Trying, Loading
<1>2. ASSUME NEW r \in Requests, Serve(r) PROVE RequestInv'
  BY <1>2, ServeStep
<1>3. ASSUME \A r \in Requests : pc'[r] = pc[r], Cut \/ UNCHANGED conn,
             UNCHANGED <<job, attempt, runs, heads>>
      PROVE  RequestInv'
  <2>1. conn' \in [Requests -> {"none", "open", "broken"}]
    BY <1>3, CutType DEF RequestInv
  <2>. QED BY <1>3, <2>1 DEF RequestInv
<1>4. ASSUME NEW t \in Offloaders, OffloadBegin(t) \/ Idle(t) \/ Teardown(t) PROVE RequestInv'
  <2>1. \A r \in Requests : pc'[r] = pc[r]
    <3>1. \E to \in PcsOfOffloader : Go(t, to)
      BY <1>4, OffloadGoes
    <3>. QED BY <3>1, ThreadsAssumption DEF Go, ThreadInv, Threads
  <2>2. (Cut \/ UNCHANGED conn) /\ UNCHANGED <<job, attempt, runs, heads>>
    BY <1>4 DEF Idle, Teardown, OffloadBegin, IdleCheck, IdleCommit, TearStop, TearTunnel,
                TearRelease, TearClear, TearForget, TearFails, stop_remote_runtime, handler
  <2>. QED BY <1>3, <2>1, <2>2
<1>5. ASSUME NEW t \in Probers, ProbeRead(t) \/ ProbeJudge(t) PROVE RequestInv'
  <2>1. \A r \in Requests : pc'[r] = pc[r]
    BY <1>5, ThreadsAssumption DEF ProbeRead, ProbeJudge, Go, ThreadInv, Threads
  <2>2. UNCHANGED <<conn, job, attempt, runs, heads>>
    BY <1>5 DEF ProbeRead, ProbeJudge, handler
  <2>. QED BY <1>3, <2>1, <2>2
<1>6. CASE Lapse \/ ServerDies \/ RelayDies \/ StartedOutside \/ UNCHANGED vars
  BY <1>3, <1>6 DEF Lapse, ServerDies, RelayDies, StartedOutside, vars, handler
<1>. QED BY <1>1, <1>2, <1>4, <1>5, <1>6 DEF Next, Offloaders

-----------------------------------------------------------------------------
(* The count of requests under way *)

\* A request that has begun is under way until it ends, and only then is counted off.
LEMMA ServeCounts ==
    ASSUME ThreadInv, NEW r \in Requests, Serve(r)
    PROVE  /\ pc[r] # "idle"
           /\ \/ Go(r, "idle") /\ active' = active - 1
              \/ (\E to \in PcsOfRequest \ {"idle"} : Go(r, to)) /\ active' = active
<1>1. CASE End(r)
  BY <1>1 DEF End
<1>2. PICK to \in PcsOfRequest : Go(r, to)
  BY ServeGoes
<1>. DEFINE Moves == pc[r] # "idle" /\ (\E to2 \in PcsOfRequest \ {"idle"} : Go(r, to2)) /\ active' = active
<1>3. ASSUME \/ ReadBody(r) \/ HotPath(r) \/ ColdPath(r) \/ LoadedMeanwhile(r) \/ LoadBegin(r)
             \/ RefreshBegin(r) \/ RecoverBegin(r)
      PROVE  Moves
  BY <1>3 DEF PcsOfRequest, Loading, OnWire, belief, ReadBody, HotPath, ColdPath,
              LoadedMeanwhile, LoadBegin, RefreshBegin, RecoverBegin
<1>4. ASSUME \/ StopRuntime(r) \/ StopTunnel(r) \/ EnsureTunnel(r) \/ UseRunning(r)
             \/ StopAgain(r) \/ NotRunning(r) \/ AcquireLease(r) \/ StartServer(r) \/ Ready(r)
             \/ LoadFails(r)
      PROVE  Moves
  BY <1>4 DEF PcsOfRequest, Loading, OnWire, belief, StopRuntime, StopTunnel, EnsureTunnel, UseRunning,
              StopAgain, NotRunning, AcquireLease, StartServer, Ready, LoadFails, Raises, MarkVerified
<1>5. ASSUME \/ Connect(r) \/ ConnectFails(r) \/ Send(r) \/ SendFails(r)
             \/ Respond(r) \/ AwaitFails(r) \/ Stream(r)
      PROVE  Moves
  BY <1>5 DEF PcsOfRequest, Loading, OnWire, belief, AttemptFails, Connect, ConnectFails, Send,
              SendFails, Respond, AwaitFails, Stream
<1>. QED BY <1>1, <1>3, <1>4, <1>5 DEF Serve, TakeLock

\* A request that comes is one more, one that goes is one less.
LEMMA CountStep == ThreadInv /\ CountInv /\ [Next]_vars => CountInv'
<1>. SUFFICES ASSUME ThreadInv, CountInv, [Next]_vars PROVE CountInv'
  OBVIOUS
<1>1. IsFiniteSet(Under_way)
  BY FS_Subset, ThreadsAssumption DEF Under_way
<1>2. ASSUME NEW r \in Requests, Begin(r) PROVE CountInv'
  <2>1. r \notin Under_way /\ Under_way' = Under_way \cup {r}
    BY <1>2 DEF Begin, Go, ThreadInv, Threads, Under_way
  <2>2. Cardinality(Under_way \cup {r}) = Cardinality(Under_way) + 1
    BY <1>1, <2>1, FS_AddElement
  <2>. QED BY <1>2, <2>1, <2>2 DEF Begin, CountInv
<1>3. ASSUME NEW r \in Requests, Serve(r) PROVE CountInv'
  <2>1. CASE Go(r, "idle") /\ active' = active - 1
    <3>1. r \in Under_way /\ Under_way' = Under_way \ {r}
      BY <1>3, <2>1, ServeCounts DEF Go, ThreadInv, Threads, Under_way
    <3>2. Cardinality(Under_way \ {r}) = Cardinality(Under_way) - 1
      BY <1>1, <3>1, FS_RemoveElement
    <3>. QED BY <2>1, <3>1, <3>2 DEF CountInv
  <2>2. CASE (\E to \in PcsOfRequest \ {"idle"} : Go(r, to)) /\ active' = active
    <3>1. Under_way' = Under_way
      BY <1>3, <2>2, ServeCounts DEF Go, ThreadInv, Threads, Under_way
    <3>. QED BY <2>2, <3>1 DEF CountInv
  <2>. QED BY <1>3, <2>1, <2>2, ServeCounts
<1>4. ASSUME \A r \in Requests : pc'[r] = pc[r], UNCHANGED active PROVE CountInv'
  <2>1. Under_way' = Under_way
    BY <1>4 DEF Under_way
  <2>. QED BY <1>4, <2>1 DEF CountInv
<1>5. ASSUME NEW t \in Offloaders, OffloadBegin(t) \/ Idle(t) \/ Teardown(t) PROVE CountInv'
  <2>1. \A r \in Requests : pc'[r] = pc[r]
    <3>1. \E to \in PcsOfOffloader : Go(t, to)
      BY <1>5, OffloadGoes
    <3>. QED BY <3>1, ThreadsAssumption DEF Go, ThreadInv, Threads
  <2>2. UNCHANGED active
    BY <1>5 DEF Idle, Teardown, OffloadBegin, IdleCheck, IdleCommit, TearStop, TearTunnel,
                TearRelease, TearClear, TearForget, TearFails, belief
  <2>. QED BY <1>4, <2>1, <2>2
<1>6. ASSUME NEW t \in Probers, ProbeRead(t) \/ ProbeJudge(t) PROVE CountInv'
  <2>1. \A r \in Requests : pc'[r] = pc[r]
    BY <1>6, ThreadsAssumption DEF ProbeRead, ProbeJudge, Go, ThreadInv, Threads
  <2>2. UNCHANGED active
    BY <1>6 DEF ProbeRead, ProbeJudge, belief
  <2>. QED BY <1>4, <2>1, <2>2
<1>7. CASE Lapse \/ ServerDies \/ RelayDies \/ StartedOutside \/ UNCHANGED vars
  BY <1>4, <1>7 DEF Lapse, ServerDies, RelayDies, StartedOutside, vars, belief
<1>. QED BY <1>2, <1>3, <1>5, <1>6, <1>7 DEF Next, Offloaders

-----------------------------------------------------------------------------
(* The other variables *)

\* A fault is counted within its bound.
LEMMA HitType ==
    ASSUME faults \in 0..MaxFaults, NEW kind, Hit(kind) PROVE faults' \in 0..MaxFaults
BY FaultsAssumption DEF Hit

LEMMA FaultStep == faults \in 0..MaxFaults /\ [Next]_vars => faults' \in 0..MaxFaults
<1>. SUFFICES ASSUME [Next]_vars PROVE UNCHANGED faults \/ \E kind : Hit(kind)
  BY HitType
<1>1. ASSUME NEW r \in Requests, Begin(r) \/ ReadBody(r) \/ End(r) \/ HotPath(r) \/ ColdPath(r) \/ TakeLock(r)
      PROVE UNCHANGED faults
  BY <1>1 DEF Begin, ReadBody, End, HotPath, ColdPath, TakeLock, LoadedMeanwhile, LoadBegin,
              RefreshBegin, RecoverBegin
<1>2. ASSUME NEW r \in Requests, \/ StopRuntime(r) \/ StopTunnel(r) \/ EnsureTunnel(r)
             \/ UseRunning(r) \/ StopAgain(r) \/ NotRunning(r) \/ AcquireLease(r)
             \/ StartServer(r) \/ Ready(r) \/ LoadFails(r)
      PROVE UNCHANGED faults \/ \E kind : Hit(kind)
  BY <1>2 DEF StopRuntime, StopTunnel, EnsureTunnel, UseRunning, StopAgain, NotRunning,
              AcquireLease, StartServer, Ready, LoadFails, Raises, stop_remote_runtime
<1>3. ASSUME NEW r \in Requests, \/ Connect(r) \/ ConnectFails(r) \/ Send(r) \/ SendFails(r)
             \/ Respond(r) \/ AwaitFails(r) \/ Stream(r)
      PROVE UNCHANGED faults \/ \E kind : Hit(kind)
  BY <1>3 DEF Connect, ConnectFails, Send, SendFails, Respond, AwaitFails, Stream
<1>4. ASSUME NEW t \in Offloaders, OffloadBegin(t) \/ Idle(t) \/ Teardown(t)
      PROVE UNCHANGED faults \/ \E kind : Hit(kind)
  BY <1>4 DEF OffloadBegin, Idle, IdleCheck, IdleCommit, Teardown, TearStop, TearTunnel,
              TearRelease, TearClear, TearForget, TearFails, stop_remote_runtime
<1>5. ASSUME NEW t \in Probers, ProbeRead(t) \/ ProbeJudge(t) PROVE UNCHANGED faults
  BY <1>5 DEF ProbeRead, ProbeJudge
<1>6. CASE Lapse \/ ServerDies \/ RelayDies \/ StartedOutside \/ UNCHANGED vars
  BY <1>6 DEF Lapse, ServerDies, RelayDies, StartedOutside, vars
<1>. QED BY <1>1, <1>2, <1>3, <1>4, <1>5, <1>6 DEF Next, Offloaders, Serve

\* Flags stay flags.
LEMMA RestStep == RestInv /\ [Next]_vars => RestInv'
<1>. SUFFICES ASSUME RestInv, [Next]_vars PROVE RestInv'
  OBVIOUS
<1>. faults' \in 0..MaxFaults
  BY FaultStep DEF RestInv
<1>. USE DEF RestInv, belief, remote
<1>1. ASSUME NEW r \in Requests, Begin(r) \/ ReadBody(r) \/ End(r) \/ HotPath(r) \/ ColdPath(r)
      PROVE RestInv'
  BY <1>1 DEF Begin, ReadBody, End, HotPath, ColdPath
<1>2. ASSUME NEW r \in Requests, TakeLock(r) PROVE RestInv'
  BY <1>2 DEF TakeLock, LoadedMeanwhile, LoadBegin, RefreshBegin, RecoverBegin
<1>3. ASSUME stop_remote_runtime PROVE server' \in BOOLEAN
  BY <1>3 DEF stop_remote_runtime
<1>4. ASSUME NEW r \in Requests, StopRuntime(r) \/ StopTunnel(r) \/ EnsureTunnel(r) \/ StopAgain(r)
      PROVE RestInv'
  BY <1>3, <1>4 DEF StopRuntime, StopTunnel, EnsureTunnel, StopAgain
<1>5. ASSUME NEW r \in Requests, NotRunning(r) \/ StartServer(r) \/ Ready(r) \/ LoadFails(r)
      PROVE RestInv'
  BY <1>5 DEF NotRunning, StartServer, Ready, LoadFails, MarkVerified
<1>6. ASSUME NEW r \in Requests, UseRunning(r) \/ AcquireLease(r) PROVE RestInv'
  <2>1. lease' = lease \/ lease' = TRUE
    BY <1>6 DEF UseRunning, AcquireLease
  <2>2. lease' \in BOOLEAN
    BY <2>1
  <2>. QED BY <1>6, <2>2 DEF UseRunning, AcquireLease, MarkVerified
<1>7. ASSUME NEW r \in Requests, \/ Connect(r) \/ ConnectFails(r) \/ Send(r) \/ SendFails(r)
             \/ Respond(r) \/ AwaitFails(r) \/ Stream(r)
      PROVE RestInv'
  BY <1>7 DEF Connect, ConnectFails, Send, SendFails, Respond, AwaitFails, Stream, AttemptFails
<1>8. ASSUME NEW t \in Offloaders, OffloadBegin(t) \/ IdleCheck(t) \/ IdleCommit(t)
      PROVE RestInv'
  BY <1>8 DEF OffloadBegin, IdleCheck, IdleCommit
<1>9. ASSUME NEW t \in Offloaders, \/ TearStop(t) \/ TearTunnel(t)
             \/ TearClear(t) \/ TearForget(t) \/ TearFails(t)
      PROVE RestInv'
  BY <1>3, <1>9 DEF TearStop, TearTunnel, TearClear, TearForget, TearFails
<1>10. ASSUME NEW t \in Offloaders, TearRelease(t) PROVE RestInv'
  <2>1. lease' \in BOOLEAN
    BY <1>10 DEF TearRelease
  <2>. QED BY <1>10, <2>1 DEF TearRelease
<1>11. ASSUME NEW t \in Probers, ProbeRead(t) \/ ProbeJudge(t) PROVE RestInv'
  BY <1>11 DEF ProbeRead, ProbeJudge
<1>12. CASE Lapse \/ ServerDies \/ RelayDies \/ StartedOutside \/ UNCHANGED vars
  BY <1>12 DEF Lapse, ServerDies, RelayDies, StartedOutside, vars
<1>. QED
  BY <1>1, <1>2, <1>4, <1>5, <1>6, <1>7, <1>8, <1>9, <1>10, <1>11, <1>12
  DEF Next, Offloaders, Serve, Idle, Teardown

-----------------------------------------------------------------------------
(* The invariant, and what it says of the clients *)

\* Where the threads are at first.
LEMMA InitPlaces ==
    ASSUME Init
    PROVE  /\ \A r \in Requests : pc[r] = "idle"
           /\ \A t \in Offloaders : pc[t] = "watch"
           /\ \A t \in Probers : pc[t] = "probe"
           /\ pc = [t \in Threads |-> pc[t]]
<1>1. /\ \A r \in Requests : r \in Threads
      /\ \A t \in Offloaders : t \in Threads /\ t \notin Requests
      /\ \A t \in Probers : t \in Threads /\ t \notin Requests /\ t \notin Offloaders
  BY ThreadsAssumption DEF Threads
<1>. QED BY <1>1 DEF Init

LEMMA TypeInit == Init => TypeInv
<1>. SUFFICES ASSUME Init PROVE TypeInv
  OBVIOUS
<1>1. ThreadInv
  <2>1. /\ \A r \in Requests : pc[r] = "idle"
        /\ \A t \in Offloaders : pc[t] = "watch"
        /\ \A t \in Probers : pc[t] = "probe"
        /\ pc = [t \in Threads |-> pc[t]]
    BY InitPlaces
  <2>2. \A t \in Threads : t \in Requests \/ t \in Offloaders \/ t \in Probers
    BY DEF Threads
  <2>3. \A t \in Threads : pc[t] \in {"idle", "watch", "probe"}
    BY <2>1, <2>2
  <2>4. {"idle", "watch", "probe"} \subseteq (PcsOfRequest \cup PcsOfOffloader \cup PcsOfProber) \ Holding
    BY DEF PcsOfRequest, PcsOfOffloader, PcsOfProber, Holding, Loading, Tearing
  <2>5. "idle" \in PcsOfRequest /\ "watch" \in PcsOfOffloader /\ "probe" \in PcsOfProber
    BY DEF PcsOfRequest, PcsOfOffloader, PcsOfProber
  <2>6. pc \in [Threads -> PcsOfRequest \cup PcsOfOffloader \cup PcsOfProber]
    BY <2>1, <2>3, <2>4
  <2>7. start_lock \in Threads \cup {NoThread}
    BY DEF Init
  <2>. QED BY <2>1, <2>3, <2>4, <2>5, <2>6, <2>7 DEF ThreadInv
<1>2. RequestInv
  <2>1. \A r \in Requests : pc[r] = "idle"
    BY InitPlaces
  <2>2. "idle" \notin Trying \cup {"await"} /\ "idle" \notin {"stream", "end"}
    BY DEF Trying, Loading
  <2>3. /\ job \in [Requests -> {"load", "refresh", "recover"}]
        /\ attempt \in [Requests -> 1..3]
        /\ conn \in [Requests -> {"none", "open", "broken"}]
        /\ runs \in [Requests -> Nat] /\ heads \in [Requests -> 0..1]
        /\ \A r \in Requests : runs[r] = 0 /\ attempt[r] = 1
    BY DEF Init
  <2>. QED BY <2>1, <2>2, <2>3 DEF RequestInv
<1>3. CountInv
  <2>1. Under_way = {}
    BY InitPlaces DEF Under_way
  <2>. QED BY <2>1, FS_EmptySet DEF Init, CountInv
<1>4. RestInv
  <2>1. faults \in 0..MaxFaults
    BY FaultsAssumption DEF Init
  <2>2. server \in BOOLEAN /\ relay \in BOOLEAN /\ lease \in BOOLEAN
    BY Zenon DEF Init
  <2>3. /\ loaded \in BOOLEAN /\ offloading \in BOOLEAN /\ verified \in BOOLEAN
        /\ started \in BOOLEAN /\ finished \in BOOLEAN /\ offloaded \in BOOLEAN /\ seen \in BOOLEAN
    BY DEF Init
  <2>. QED BY <2>1, <2>2, <2>3 DEF RestInv
<1>. QED BY <1>1, <1>2, <1>3, <1>4 DEF TypeInv

\* The inductive invariant of the gateway: who holds start_lock, how far each
\* request has come with its attempts and its answer, and the count.
THEOREM GatewayKept == Spec => []TypeInv
<1>1. TypeInv /\ [Next]_vars => TypeInv'
  BY ThreadStep, RequestStep, CountStep, RestStep DEF TypeInv
<1>. QED BY <1>1, TypeInit, PTL DEF Spec

\* Every variable has its type, in every reachable state.
THEOREM GatewayTypeCorrect == Spec => []TypeOK
<1>1. TypeInv => TypeOK
  <2>. SUFFICES ASSUME TypeInv PROVE TypeOK
    OBVIOUS
  <2>1. active \in 0..Cardinality(Requests)
    <3>1. IsFiniteSet(Under_way) /\ Cardinality(Under_way) <= Cardinality(Requests)
      <4>1. Under_way \subseteq Requests /\ IsFiniteSet(Requests)
        BY ThreadsAssumption DEF Under_way
      <4>. QED BY <4>1, FS_Subset
    <3>2. Cardinality(Under_way) \in Nat /\ Cardinality(Requests) \in Nat
      BY <3>1, FS_CardinalityType, ThreadsAssumption
    <3>. QED BY <3>1, <3>2 DEF TypeInv, CountInv
  <2>2. runs \in [Requests -> 0..3] /\ heads \in [Requests -> 0..3]
    BY DEF TypeInv, RequestInv
  <2>. QED BY <2>1, <2>2 DEF TypeInv, ThreadInv, RequestInv, RestInv, TypeOK,
              PcsOfRequest, PcsOfOffloader, PcsOfProber
<1>. QED BY <1>1, GatewayKept, PTL

\* A request that may have effects is taken up by the server once at most,
\* whatever fails and however often it is tried again.
THEOREM AtMostOnceAlways == Spec => []AtMostOnce
<1>1. TypeInv => AtMostOnce
  BY DEF TypeInv, RequestInv, AtMostOnce
<1>. QED BY <1>1, GatewayKept, PTL

\* Each client gets exactly one status line.
THEOREM OneReplyAlways == Spec => []OneReply
<1>1. TypeInv => OneReply
  BY DEF TypeInv, RequestInv, OneReply
<1>. QED BY <1>1, GatewayKept, PTL

-----------------------------------------------------------------------------
(* What an offload excludes *)

\* While the runtime is being taken down nothing counts as verified, so that
\* nobody gets past start_lock to the server.
TearInv ==
    \A t \in Offloaders : pc[t] \in Tearing => ~verified /\ \A r \in Requests : pc[r] \notin OnWire

\* No request under way: none on the wire.
LEMMA NoneActive ==
    ASSUME CountInv, active = 0 PROVE \A r \in Requests : pc[r] = "idle"
<1>1. IsFiniteSet(Under_way)
  BY FS_Subset, ThreadsAssumption DEF Under_way
<1>2. Under_way = {}
  BY <1>1, FS_EmptySet DEF CountInv
<1>. QED BY <1>2 DEF Under_way

\* A request reaches the wire past a teardown neither by the hot path, which asks
\* for a verification, nor by a load, which asks for start_lock.
LEMMA ServeShutOut ==
    ASSUME ThreadInv, NEW t \in Offloaders, pc[t] \in Tearing, ~verified,
           NEW r \in Requests, pc[r] \notin OnWire, Serve(r)
    PROVE  verified' = verified /\ pc'[r] \notin OnWire
<1>1. start_lock = t /\ t # r /\ t # NoThread
  BY ThreadsAssumption DEF ThreadInv, Threads, Holding
<1>2. pc[r] \notin Loading
  BY <1>1 DEF ThreadInv, Threads, Holding
<1>3. ReadBody(r) \/ End(r) \/ ColdPath(r)
  <2>1. ~recently_verified /\ ~Lock(r) /\ start_lock # NoThread
    BY <1>1 DEF recently_verified, Lock
  <2>2. ~HotPath(r) /\ ~TakeLock(r)
    BY <2>1 DEF HotPath, TakeLock, LoadedMeanwhile, LoadBegin, RefreshBegin, RecoverBegin
  <2>3. ~(\/ StopRuntime(r) \/ StopTunnel(r) \/ EnsureTunnel(r) \/ UseRunning(r) \/ StopAgain(r)
          \/ NotRunning(r) \/ AcquireLease(r) \/ StartServer(r) \/ Ready(r) \/ LoadFails(r))
    BY <1>2 DEF Loading, StopRuntime, StopTunnel, EnsureTunnel, UseRunning, StopAgain,
                NotRunning, AcquireLease, StartServer, Ready, LoadFails, Raises
  <2>4. ~(\/ Connect(r) \/ ConnectFails(r) \/ Send(r) \/ SendFails(r) \/ Respond(r)
          \/ AwaitFails(r) \/ Stream(r))
    BY DEF OnWire, Connect, ConnectFails, Send, SendFails, Respond, AwaitFails, Stream
  <2>. QED BY <2>2, <2>3, <2>4 DEF Serve
<1>. QED BY <1>3 DEF ThreadInv, Threads, Go, OnWire, belief, ReadBody, End, ColdPath

\* Without the probe of the start-up, a teardown is alone from its first step.
LEMMA TearStep ==
    ASSUME Probers = {}, ThreadInv, CountInv, TearInv, [Next]_vars PROVE TearInv'
<1>. SUFFICES ASSUME NEW t \in Offloaders, pc'[t] \in Tearing
              PROVE  ~verified' /\ \A r \in Requests : pc'[r] \notin OnWire
  BY DEF TearInv
<1>. Requests \subseteq Threads /\ Offloaders \subseteq Threads /\ t \in Threads /\ t \notin Requests
  BY ThreadsAssumption DEF Threads
<1>. "idle" \notin OnWire /\ "watch" \notin Tearing /\ "commit" \notin Tearing
  BY DEF OnWire, Tearing
<1>1. ASSUME NEW u \in Offloaders, NEW to, Go(u, to)
      PROVE  /\ \A r \in Requests : pc'[r] = pc[r]
             /\ \A v \in Offloaders : pc'[v] = IF v = u THEN to ELSE pc[v]
  BY <1>1, ThreadsAssumption DEF Go, ThreadInv
<1>2. ASSUME NEW u \in Offloaders, OffloadBegin(u) \/ Idle(u) \/ Teardown(u),
             pc[t] \in Tearing
      PROVE  ~verified' /\ \A r \in Requests : pc'[r] \notin OnWire
  <2>1. \E to : Go(u, to)
    BY <1>2, OffloadGoes
  <2>2. ~verified'
    BY <1>2 DEF TearInv, Idle, Teardown, OffloadBegin, IdleCheck, IdleCommit, TearStop,
                TearTunnel, TearRelease, TearClear, TearForget, TearFails, belief
  <2>. QED BY <1>1, <1>2, <2>1, <2>2 DEF TearInv
<1>3. ASSUME NEW u \in Offloaders, OffloadBegin(u) \/ Idle(u) \/ Teardown(u),
             pc[t] \notin Tearing
      PROVE  ~verified' /\ \A r \in Requests : pc'[r] \notin OnWire
  <2>1. u = t
    BY <1>1, <1>3, OffloadGoes
  <2>2. ~Teardown(t)
    BY <1>3 DEF Tearing, Teardown, TearStop, TearTunnel, TearRelease, TearClear, TearForget, TearFails
  <2>3. ~IdleCheck(t)
    BY <1>1 DEF IdleCheck
  <2>4. active = 0 /\ ~verified' /\ Go(t, "t_stop")
    <3>1. CASE OffloadBegin(t)
      BY <3>1 DEF OffloadBegin
    <3>2. CASE IdleCommit(t)
      <4>1. ~(active > 0 \/ ~loaded)
        BY <1>1, <3>2 DEF IdleCommit
      <4>2. active \in Nat
        <5>1. IsFiniteSet(Under_way)
          BY FS_Subset, ThreadsAssumption DEF Under_way
        <5>. QED BY <5>1, FS_CardinalityType DEF CountInv
      <4>. QED BY <3>2, <4>1, <4>2 DEF IdleCommit
    <3>. QED BY <1>3, <2>1, <2>2, <2>3, <3>1, <3>2 DEF Idle
  <2>5. \A r \in Requests : pc[r] = "idle"
    BY <2>4, NoneActive
  <2>. QED BY <1>1, <2>4, <2>5
<1>4. ASSUME NEW r \in Requests, Begin(r) \/ Serve(r)
      PROVE  ~verified' /\ \A q \in Requests : pc'[q] \notin OnWire
  <2>1. PICK to : Go(r, to)
    BY <1>4, ServeGoes DEF Begin
  <2>2. /\ pc'[t] = pc[t] /\ pc[t] \in Tearing
        /\ \A q \in Requests : q # r => pc'[q] = pc[q]
    BY <2>1 DEF Go, ThreadInv
  <2>3. ~verified /\ \A q \in Requests : pc[q] \notin OnWire
    BY <2>2 DEF TearInv
  <2>4. CASE Begin(r)
    BY <2>2, <2>3, <2>4 DEF Begin, Go, ThreadInv, OnWire
  <2>5. CASE Serve(r)
    BY <2>2, <2>3, <2>5, ServeShutOut
  <2>. QED BY <1>4, <2>4, <2>5
<1>5. CASE Lapse \/ ServerDies \/ RelayDies \/ StartedOutside \/ UNCHANGED vars
  <2>1. UNCHANGED pc /\ (verified' = FALSE \/ UNCHANGED verified)
    BY <1>5 DEF Lapse, ServerDies, RelayDies, StartedOutside, vars, belief
  <2>. QED BY <2>1 DEF TearInv
<1>. QED BY <1>2, <1>3, <1>4, <1>5 DEF Next, Offloaders

\* No request goes to the server, nor is one on its way, while an offload takes
\* it down, if no probe of the start-up is under way.
THEOREM TeardownAloneAlways == ASSUME Probers = {} PROVE Spec => []TeardownAlone
<1>1. Init => TearInv
  <2>. SUFFICES ASSUME Init PROVE TearInv
    OBVIOUS
  <2>1. \A t \in Offloaders : pc[t] \notin Tearing
    BY InitPlaces DEF Tearing
  <2>. QED BY <2>1 DEF TearInv
<1>2. TypeInv /\ TearInv /\ [Next]_vars => TearInv'
  BY TearStep DEF TypeInv
<1>3. TearInv => TeardownAlone
  BY DEF TearInv, TeardownAlone
<1>. QED BY <1>1, <1>2, <1>3, GatewayKept, PTL DEF Spec

-----------------------------------------------------------------------------
(* The lease is given back after the stop *)

Stopped == {"t_tunnel", "t_release"}
StopInv == \A t \in Offloaders : pc[t] \in Stopped => ~server

\* Who starts the server holds start_lock, and so does the teardown.
LEMMA StopStep ==
    ASSUME "ssh" \notin Faults, "start" \notin Faults, ThreadInv, StopInv, [Next]_vars
    PROVE  StopInv'
<1>. SUFFICES ASSUME NEW t \in Offloaders, pc'[t] \in Stopped PROVE ~server'
  BY DEF StopInv
<1>. Requests \subseteq Threads /\ Probers \subseteq Threads /\ t \in Threads /\ t \notin Requests /\ t \notin Probers
  BY ThreadsAssumption DEF Threads
<1>. ~Hit("ssh") /\ ~Hit("start")
  BY DEF Hit
<1>1. ASSUME NEW u, u # t, NEW to, Go(u, to) PROVE ~server /\ start_lock = t
  <2>1. pc[t] \in Stopped
    BY <1>1 DEF Go, ThreadInv
  <2>. QED BY <2>1 DEF StopInv, ThreadInv, Stopped, Holding, Tearing
<1>2. ASSUME NEW r \in Requests, Begin(r) \/ Serve(r) PROVE ~server'
  <2>1. ~server /\ start_lock = t /\ r # t
    BY <1>1, <1>2, ServeGoes DEF Begin
  <2>2. ~StartServer(r)
    BY <2>1 DEF StartServer, ThreadInv, Holding, Loading
  <2>3. CASE Begin(r)
    BY <2>1, <2>3 DEF Begin, remote
  <2>4. ASSUME StopRuntime(r) \/ StopAgain(r) PROVE ~server'
    BY <2>4 DEF StopRuntime, StopAgain, stop_remote_runtime
  <2>5. ASSUME \/ ReadBody(r) \/ End(r) \/ HotPath(r) \/ ColdPath(r) \/ TakeLock(r)
               \/ StopTunnel(r) \/ EnsureTunnel(r) \/ UseRunning(r) \/ NotRunning(r)
               \/ AcquireLease(r) \/ Ready(r) \/ LoadFails(r)
        PROVE  server' = server
    BY <2>5 DEF remote, ReadBody, End, HotPath, ColdPath, TakeLock, LoadedMeanwhile, LoadBegin,
                RefreshBegin, RecoverBegin, StopTunnel, EnsureTunnel, UseRunning, NotRunning,
                AcquireLease, Ready, LoadFails
  <2>6. ASSUME \/ Connect(r) \/ ConnectFails(r) \/ Send(r) \/ SendFails(r) \/ Respond(r)
               \/ AwaitFails(r) \/ Stream(r)
        PROVE  server' = server
    BY <2>6 DEF remote, Connect, ConnectFails, Send, SendFails, Respond, AwaitFails, Stream, AttemptFails
  <2>. QED BY <1>2, <2>1, <2>2, <2>3, <2>4, <2>5, <2>6 DEF Serve
<1>3. ASSUME NEW u \in Offloaders, OffloadBegin(u) \/ Idle(u) \/ Teardown(u) PROVE ~server'
  <2>1. CASE TearStop(u)
    BY <2>1 DEF TearStop, stop_remote_runtime
  <2>2. ASSUME ~TearStop(u) PROVE server' = server /\ pc[t] \in Stopped
    <3>1. server' = server
      BY <1>3, <2>2 DEF remote, Idle, Teardown, OffloadBegin, IdleCheck, IdleCommit, TearTunnel,
                        TearRelease, TearClear, TearForget, TearFails
    <3>2. pc[t] \in Stopped
      <4>1. PICK to : Go(u, to)
        BY <1>3, OffloadGoes
      <4>2. CASE u # t
        BY <4>1, <4>2 DEF Go, ThreadInv
      <4>3. CASE u = t
        <5>1. pc[t] \in Stopped \/ ~TearTunnel(t)
          BY DEF TearTunnel, Stopped
        <5>2. ASSUME ~TearTunnel(t), pc[t] \notin Stopped PROVE \E x : x \notin Stopped /\ Go(t, x)
          BY <1>3, <2>2, <4>3, <5>2 DEF Stopped, Idle, Teardown, OffloadBegin, IdleCheck, IdleCommit,
                        TearRelease, TearClear, TearForget, TearFails
        <5>. QED BY <5>1, <5>2 DEF Go, ThreadInv
      <4>. QED BY <4>2, <4>3
    <3>. QED BY <3>1, <3>2
  <2>. QED BY <2>1, <2>2 DEF StopInv
<1>4. ASSUME NEW u \in Probers, ProbeRead(u) \/ ProbeJudge(u) PROVE ~server'
  BY <1>1, <1>4 DEF ProbeRead, ProbeJudge, remote
<1>5. CASE Lapse \/ ServerDies \/ RelayDies \/ StartedOutside \/ UNCHANGED vars
  BY <1>5 DEF StopInv, Lapse, ServerDies, RelayDies, StartedOutside, vars, remote
<1>. QED BY <1>2, <1>3, <1>4, <1>5 DEF Next, Offloaders

\* The lease is given back only when the server is down, if stopping it does not
\* fail unnoticed and no other process starts it.
THEOREM ReleasedAfterStopAlways ==
    ASSUME "ssh" \notin Faults, "start" \notin Faults PROVE Spec => ReleasedAfterStop
<1>1. Init => StopInv
  <2>. SUFFICES ASSUME Init PROVE StopInv
    OBVIOUS
  <2>1. \A t \in Offloaders : pc[t] \notin Stopped
    BY InitPlaces DEF Stopped
  <2>. QED BY <2>1 DEF StopInv
<1>2. TypeInv /\ StopInv /\ [Next]_vars => StopInv'
  BY StopStep DEF TypeInv
<1>3. StopInv => [\A t \in Offloaders : TearRelease(t) => ~server]_vars
  BY DEF StopInv, Stopped, TearRelease
<1>. QED BY <1>1, <1>2, <1>3, GatewayKept, PTL DEF Spec, ReleasedAfterStop
=============================================================================
