------------------------------- MODULE JobLife -------------------------------
(***************************************************************************)
(* What the job queue promises about the life of every job, whatever       *)
(* tables, heartbeats, processes and containers it uses.  As long as no    *)
(* worker is late: a job is run by one worker at a time, which alone says  *)
(* how it ended; only a job without a worker is taken away from a run;     *)
(* what has ended stays as it is; and nothing is canceled that nobody      *)
(* asked to cancel.  Once a worker was late, rows may be reported on by    *)
(* who no longer has them, and what is left is that every job goes on from *)
(* one stage to the next and that no run goes uncounted.                   *)
(***************************************************************************)
EXTENDS Naturals

CONSTANTS Jobs, Workers, NoWorker, max_retries

VARIABLES
    stage,    \* stage[j]: "none", "queued", "running", or how j ended
    tried,    \* tried[j]: the retries of j so far
    wanted,   \* wanted[j]: somebody wants this try of j canceled
    runner,   \* runner[j]: the worker that runs j, if any
    late      \* a worker was late

lifeVars == <<stage, tried, wanted, runner, late>>

Ends == {"succeeded", "failed", "canceled", "interrupted"}

LifeInit ==
    /\ stage = [j \in Jobs |-> "none"] /\ tried = [j \in Jobs |-> 0]
    /\ wanted = [j \in Jobs |-> FALSE] /\ runner = [j \in Jobs |-> NoWorker]
    /\ late = FALSE

Enter(j) ==
    /\ stage[j] = "none" /\ stage' = [stage EXCEPT ![j] = "queued"]
    /\ UNCHANGED <<tried, wanted, runner>>

Want(j) ==
    /\ stage[j] # "none" /\ wanted' = [wanted EXCEPT ![j] = TRUE]
    /\ UNCHANGED <<stage, tried, runner>>

\* A worker without a job takes one that waits.
Take(w, j) ==
    /\ stage[j] = "queued" /\ runner[j] = NoWorker /\ \A i \in Jobs : runner[i] # w
    /\ stage' = [stage EXCEPT ![j] = "running"] /\ runner' = [runner EXCEPT ![j] = w]
    /\ UNCHANGED <<tried, wanted>>

\* The jobs of S get another try, which nobody wants canceled yet.
TryAgain(S) ==
    /\ \A j \in S : tried[j] < max_retries[j]
    /\ tried' = [j \in Jobs |-> IF j \in S THEN tried[j] + 1 ELSE tried[j]]
    /\ wanted' = [j \in Jobs |-> j \notin S /\ wanted[j]]

Leaves(w, j) == runner[j] = w /\ runner' = [runner EXCEPT ![j] = NoWorker]

\* The worker of j reports that it succeeded, or, if asked to, that it was canceled.
Finish(w, j) ==
    /\ Leaves(w, j)
    /\ \/ stage' = [stage EXCEPT ![j] = "succeeded"]
       \/ wanted[j] /\ stage' = [stage EXCEPT ![j] = "canceled"]
    /\ wanted' = [wanted EXCEPT ![j] = FALSE]
    /\ UNCHANGED tried

\* ... or that it failed: for good only when all its tries are used up.
Fail(w, j) ==
    /\ Leaves(w, j)
    /\ \/ stage' = [stage EXCEPT ![j] = "queued"] /\ TryAgain({i \in Jobs : i = j})
       \/ /\ tried[j] = max_retries[j] /\ stage' = [stage EXCEPT ![j] = "failed"]
          /\ UNCHANGED <<tried, wanted>>

\* A worker dies and leaves its job running.
Desert(w) ==
    /\ runner' = [j \in Jobs |-> IF runner[j] = w THEN NoWorker ELSE runner[j]]
    /\ UNCHANGED <<stage, tried, wanted>>

\* Jobs that run without a worker are tried again, or given up when they cannot be.
Recover(S) ==
    /\ \A j \in S : stage[j] = "running" /\ runner[j] = NoWorker
    /\ LET again == {j \in S : tried[j] < max_retries[j]}
       IN  /\ stage' = [j \in Jobs |-> IF j \in again THEN "queued"
                                       ELSE IF j \in S THEN "interrupted" ELSE stage[j]]
           /\ TryAgain(again)
    /\ UNCHANGED runner

InTime ==
    /\ ~late'
    /\ \/ \E j \in Jobs : Enter(j) \/ Want(j)
       \/ \E w \in Workers, j \in Jobs : Take(w, j) \/ Finish(w, j) \/ Fail(w, j)
       \/ \E w \in Workers : Desert(w)
       \/ \E S \in SUBSET Jobs : Recover(S)

\* What may become of j when workers are late: it enters, is taken up from the
\* queue only, ends, or is queued again at the price of a retry.
Moves(j) ==
    \/ stage'[j] = stage[j] /\ tried'[j] = tried[j]
    \/ stage[j] = "none" /\ stage'[j] = "queued" /\ tried'[j] = tried[j]
    \/ stage[j] = "queued" /\ stage'[j] = "running" /\ tried'[j] = tried[j]
    \/ stage[j] # "none" /\ stage'[j] \in Ends /\ tried'[j] = tried[j]
    \/ /\ stage[j] # "none" /\ stage'[j] = "queued"
       /\ tried[j] < max_retries[j] /\ tried'[j] = tried[j] + 1

TooLate == late' /\ \A j \in Jobs : Moves(j)

LifeNext == (late => late') /\ (InTime \/ TooLate)

LifeSpec == LifeInit /\ [][LifeNext]_lifeVars
=============================================================================
