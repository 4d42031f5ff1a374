-------------------------- MODULE MCGpuBrokerAges --------------------------
(***************************************************************************)
(* An instance of GpuBrokerAges for TLC.                                   *)
(***************************************************************************)
EXTENDS GpuBrokerAges

CONSTANTS a, b, a1, b1, c1, c2

MCOwner == [p \in Pids |-> IF p = a1 THEN a ELSE b]
SameTimeout == [c \in Actors |-> 1]
=============================================================================
