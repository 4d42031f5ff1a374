------------------------------- MODULE Lease -------------------------------
(***************************************************************************)
(* What the GPU broker promises about the one lease on the card, whatever  *)
(* files, processes and clocks it uses:                                    *)
(*   - a lease is the claim of one acquire, with a token of its own, and   *)
(*     at most one is in force;                                            *)
(*   - one actor at a time evicts it, and only that one takes it away or   *)
(*     hands it to its own claim; without an evictor a lease ends when its *)
(*     holder is dead, or when a client that may release it does so;       *)
(*   - the announcement of an eviction (the mark) stands for as long as    *)
(*     its evictor is at it: nobody gets the lease confirmed meanwhile, as *)
(*     a confirmation takes the mark off.                                  *)
(***************************************************************************)
EXTENDS Naturals

CONSTANTS Actors, NoActor, Runtimes, NoRuntime, MayRelease, MaxAcquires

VARIABLES
    lease,     \* the lease in force: its token and its runtime
    doomed,    \* its eviction is announced
    evictor,   \* the actor that is evicting it, if one is
    claim,     \* claim[a]: the lease that a's acquire asks for, until it is answered
    asked,     \* acquires begun so far; the n-th has token n
    dead       \* the holder's process is known not to run

leaseVars == <<lease, doomed, evictor, claim, asked, dead>>

NoLease == [tok |-> 0, rt |-> NoRuntime]

LeaseInit == /\ lease = NoLease /\ doomed = FALSE /\ evictor = NoActor
             /\ claim = [a \in Actors |-> NoLease] /\ asked = 0 /\ dead = FALSE

Claims(a) == claim[a] # NoLease

Answered(a) == claim' = [claim EXCEPT ![a] = NoLease]

\* No lease is left that an announcement could be about.
Ended == lease' = NoLease /\ doomed' = FALSE /\ evictor' = NoActor

Ask(a, r) ==
    /\ ~Claims(a) /\ asked < MaxAcquires
    /\ asked' = asked + 1
    /\ claim' = [claim EXCEPT ![a] = [tok |-> asked', rt |-> r]]
    /\ UNCHANGED <<lease, doomed, evictor>>

\* a's claim becomes the lease, which nobody is evicting.
Granted(a) == /\ Claims(a) /\ Answered(a)
              /\ lease' = claim[a] /\ doomed' = FALSE /\ evictor' = NoActor
              /\ asked' = asked

GrantFree(a) == lease = NoLease /\ Granted(a)

GrantOverDead(a) == lease # NoLease /\ dead /\ evictor = NoActor /\ Granted(a)

\* Only the evictor itself moves in.
HandOver(a) == lease # NoLease /\ evictor = a /\ Granted(a)

\* a's acquire is told that the lease in force is its runtime's already.
Confirm(a) ==
    /\ Claims(a) /\ lease.rt = claim[a].rt
    /\ evictor = NoActor /\ doomed' = FALSE
    /\ Answered(a)
    /\ UNCHANGED <<lease, evictor, asked>>

\* a's acquire is turned away, or dies, outside an eviction of its own.
Refuse(a) == /\ Claims(a) /\ evictor # a /\ Answered(a)
             /\ UNCHANGED <<lease, doomed, evictor, asked>>

\* a announces that it evicts the lease; an older announcement has no evictor.
Doom(a) == /\ lease # NoLease /\ evictor = NoActor /\ evictor' = a /\ doomed' = TRUE
           /\ UNCHANGED <<lease, claim, asked>>

\* The evictor takes the lease away; its own acquire, if any, dies of it.
Drop(a) == evictor = a /\ Ended /\ Answered(a) /\ asked' = asked

\* It lets the lease be and takes the announcement back; it may claim on.
Spare(a) == /\ evictor = a /\ evictor' = NoActor /\ doomed' = FALSE
            /\ claim' = claim \/ Answered(a)
            /\ UNCHANGED <<lease, asked>>

\* It dies, and the announcement stays behind.
Abandon(a) == /\ evictor = a /\ evictor' = NoActor
              /\ Answered(a)
              /\ UNCHANGED <<lease, doomed, asked>>

\* A dead holder's lease ends when nobody is at it already.
Clear == lease # NoLease /\ dead /\ evictor = NoActor /\ Ended /\ UNCHANGED <<claim, asked>>

\* A client gives the lease back, at any time, but for its own runtime only.
Leave == lease.rt \in MayRelease /\ Ended /\ UNCHANGED <<claim, asked>>

\* Processes come and go by themselves.
Drift == UNCHANGED <<lease, doomed, evictor, claim, asked>>

ActorStep(a) == \/ \E r \in Runtimes : Ask(a, r)
                \/ GrantFree(a) \/ GrantOverDead(a) \/ HandOver(a)
                \/ Confirm(a) \/ Refuse(a)
                \/ Doom(a) \/ Drop(a) \/ Spare(a) \/ Abandon(a)

LeaseNext == /\ (\E a \in Actors : ActorStep(a)) \/ Clear \/ Leave \/ Drift
             /\ dead' \in BOOLEAN

LeaseSpec == LeaseInit /\ [][LeaseNext]_leaseVars
=============================================================================
