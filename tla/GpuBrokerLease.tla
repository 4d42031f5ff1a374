--------------------------- MODULE GpuBrokerLease ---------------------------
(***************************************************************************)
(* The broker keeps the promise of module Lease: the row is the lease, its *)
(* state the announcement, and the command that runs the eviction of the   *)
(* row's token, outside the lock, is the evictor.  This needs Timely.      *)
(***************************************************************************)
EXTENDS GpuBroker

CONSTANT NoActor

ASSUME NoActorIsNoActor == NoActor \notin Actors

\* The command that is evicting the holder, if one is.
Evictor == IF \E c \in Actors : Drives(c) THEN CHOOSE c \in Actors : Drives(c) ELSE NoActor

\* What the acquires without an answer ask for.
Claim == [c \in Actors |-> IF slot[c].op = "acquire"
                           THEN [tok |-> slot[c].tok, rt |-> slot[c].rt]
                           ELSE [tok |-> NoToken, rt |-> NoRuntime]]

L == INSTANCE Lease WITH lease <- [tok |-> row.tok, rt |-> row.rt],
                         doomed <- row.state = "draining",
                         evictor <- Evictor, claim <- Claim, asked <- issued,
                         dead <- Held /\ ~holder_alive

\* Every step of the broker is one of the lease's, or changes nothing it sees:
\* only the evictor that announced it ends a live client's lease, hands it to
\* nobody but its own acquire, and finds its mark still on when it does.
ImplementsLease == L!LeaseSpec
=============================================================================
