---------------------------- MODULE MCJobQueue ----------------------------
(***************************************************************************)
(* Instances of JobQueue for TLC.                                          *)
(***************************************************************************)
EXTENDS JobQueueLife

CONSTANTS j1, j2, n1, w1, w2

\* The first job is tried again once, the second not at all.
MCmax_retries == [j \in Jobs |-> IF j = j1 THEN 1 ELSE 0]

\* The ids of the two have the same head.
MCname == [j \in Contained |-> n1]
===========================================================================
