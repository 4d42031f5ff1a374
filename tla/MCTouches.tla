------------------------------ MODULE MCTouches ------------------------------
(***************************************************************************)
(* An instance of Touches for TLC: two handlers, a touch that may take     *)
(* longer than the interval.                                               *)
(***************************************************************************)
EXTENDS Touches

CONSTANTS h1, h2
=============================================================================
