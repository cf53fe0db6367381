------------------------------- MODULE MCDemo -------------------------------
(***************************************************************************)
(* Two runs of the walkthroughs beside a visitor and the arbiter agent.    *)
(***************************************************************************)
EXTENDS DemoScripts, TLC

\* The runs are alike.
Symmetry == Permutations(Runs)
=============================================================================
