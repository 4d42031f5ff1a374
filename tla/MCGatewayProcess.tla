-------------------------- MODULE MCGatewayProcess --------------------------
(***************************************************************************)
(* Instances of GatewayProcess, with its relay, for TLC.                   *)
(***************************************************************************)
EXTENDS GatewayProcess, TLC

CONSTANTS g1, g2, r1, r2, c1, c2, p1, p2

\* Which pid a process gets, and which terminal runs a command, is all one.
Alike == Permutations(Gateways) \cup Permutations(Relays) \cup Permutations(Clis)

\* RelayNamed and the second half of StopStops ask for ~crossed, and gateways do
\* not see the relay: behaviours are not followed beyond the first crossing.
Uncrossed == ~crossed
=============================================================================
