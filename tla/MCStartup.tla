----------------------------- MODULE MCStartup ------------------------------
(***************************************************************************)
(* Every environment an operator may start the agent in.                   *)
(***************************************************************************)
EXTENDS AgentStartup
=============================================================================
