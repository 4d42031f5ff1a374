---------------------------- MODULE JobQueueLife ----------------------------
(***************************************************************************)
(* The queue keeps the promise of module JobLife: the table's rows are the *)
(* stages of the jobs, and the worker that has claimed a job runs it.  A   *)
(* worker is late when it let a heartbeat of a job it owns grow stale.     *)
(***************************************************************************)
EXTENDS JobQueue

CONSTANT NoWorker

ASSUME NoWorkerIsNoWorker == NoWorker \notin Workers

\* The worker that has claimed j and not reported on it: one, while none is late.
Runner == [j \in Jobs |-> IF \E w \in Workers : mine[w] = j
                          THEN CHOOSE w \in Workers : mine[w] = j ELSE NoWorker]

L == INSTANCE JobLife WITH stage <- state, tried <- retry_count, wanted <- cancel_requested,
                           runner <- Runner, late <- lagged

\* Every step of the queue is one in the lives of its jobs, or changes nothing
\* in them: claims, reports, the pass over stale rows and crashes, in any order.
ImplementsJobLife == L!LifeSpec
=============================================================================
