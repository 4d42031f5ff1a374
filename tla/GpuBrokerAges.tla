---------------------------- MODULE GpuBrokerAges ----------------------------
(***************************************************************************)
(* GpuBroker with a history variable: how long ago the broker last told    *)
(* the holder that the lease is its own.  The row's acquired_at is not     *)
(* that moment: it is stamped before acquire waits (broker.py 705), and a  *)
(* reassert keeps the old one (broker.py 672).                             *)
(***************************************************************************)
EXTENDS GpuBroker

VARIABLE told    \* ticks since the lease was granted, reasserted or touched

\* An acquire was answered with the lease, new or confirmed, in this step.
Answered == \E c \in Cmds : /\ slot[c].op = "acquire" /\ slot'[c].pc = "idle"
                            /\ \/ row'.tok = slot[c].tok
                               \/ row'.rt = slot[c].rt /\ Reassert(c)

AgesInit == Init /\ told = MaxAge

\* Time passes for an acquire only where it sleeps or finishes an eviction: a
\* late grant is never put down to a process that did not get to run.
Prompt == Tick => \A c \in Cmds : slot[c].pc = "check" => MustWait(c)

AgesNext ==
    /\ Next /\ Prompt
    /\ told' = CASE Answered -> 0
                 [] \E r \in MayTouch : Touch(r) -> 0
                 [] Tick -> Older(told)
                 [] OTHER -> told

AgesSpec == AgesInit /\ [][AgesNext]_<<vars, told>>

\* A dead holder is given up as stale, by an acquire or by the watchdog, only
\* when the grace has passed since the lease was acquired or touched.
YoungDeadKept ==
    [][ \/ \E c \in Cmds : GrantStale(c) \/ WaitVramBegin(c)
        \/ \E d \in Dogs : WatchdogClear(d)
        => told >= StaleGrace ]_vars
=============================================================================
