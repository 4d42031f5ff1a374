----------------------------- MODULE MCGateway -----------------------------
(***************************************************************************)
(* Instances of Gateway for TLC: a GET and a POST, an offload by hand, the *)
(* idle loop and the probe of the start-up.                                *)
(***************************************************************************)
EXTENDS Gateway

CONSTANTS get, post, admin, idler, prober
=============================================================================
