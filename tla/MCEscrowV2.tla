----------------------------- MODULE MCEscrowV2 -----------------------------
(***************************************************************************)
(* The proxy with both implementations, on one escrow.                     *)
(***************************************************************************)
EXTENDS EscrowV2
=============================================================================
