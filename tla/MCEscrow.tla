------------------------------ MODULE MCEscrow ------------------------------
(***************************************************************************)
(* Properties of the escrow contract and the instance TLC checks them on.  *)
(***************************************************************************)
EXTENDS EscrowProperties, TLC

\* All accounts are alike until they take roles, and so are all secrets.
Symmetry == Permutations(Accounts) \cup Permutations(Secrets)
=============================================================================
