---------------------------- MODULE MCGpuBroker ----------------------------
(***************************************************************************)
(* Instances of GpuBroker for TLC.  One tick stands for some 30 seconds:   *)
(* BusyGrace and StaleGrace are one tick, the idle timeout is longer.      *)
(***************************************************************************)
EXTENDS GpuBrokerLease, TLC

CONSTANTS a, b, a1, a2, b1, c1, c2, w1

\* Two runtimes; the server of a can be restarted, under another pid.
MCOwner == [p \in Pids |-> IF p \in {a1, a2} THEN a ELSE b]

\* Every command is called with the same --free-timeout.
SameTimeout == [c \in Actors |-> 1]

\* With one pid each, the two runtimes are alike, and so are the commands.
Alike == Permutations(Cmds) \cup
         {[x \in {a, b, a1, b1} |->
              CASE x = a -> b [] x = b -> a [] x = a1 -> b1 [] x = b1 -> a1]}
=============================================================================
