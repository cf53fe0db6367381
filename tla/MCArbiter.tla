----------------------------- MODULE MCArbiter ------------------------------
(***************************************************************************)
(* The arbiter agent on a short chain.                                     *)
(***************************************************************************)
EXTENDS ArbiterAgent, TLC

\* The parties are alike.
Symmetry == Permutations(Parties)
=============================================================================
