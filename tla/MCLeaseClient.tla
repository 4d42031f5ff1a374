--------------------------- MODULE MCLeaseClient ---------------------------
(***************************************************************************)
(* Instances of LeaseClient for TLC: the gateway and a wingpu command load *)
(* llama, a sibling loads its own runtime.                                 *)
(***************************************************************************)
EXTENDS LeaseClient

CONSTANTS llama, ocr, gateway, command, sibling

MCOf == [c \in Clients |-> IF c = sibling THEN ocr ELSE llama]
============================================================================
