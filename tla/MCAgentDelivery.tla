-------------------------- MODULE MCAgentDelivery --------------------------
(***************************************************************************)
(* Small instances of AgentDelivery for TLC.                               *)
(***************************************************************************)
EXTENDS AgentDelivery, TLC

=============================================================================
