------------------------------ MODULE MCModel -------------------------------
(***************************************************************************)
(* Every answer of a vendor with up to two parts.                          *)
(***************************************************************************)
EXTENDS Judgement
=============================================================================
