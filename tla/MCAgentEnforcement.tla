-------------------------- MODULE MCAgentEnforcement --------------------------
(* Instances of AgentEnforcement for TLC.                                  *)
EXTENDS AgentEnforcement

OneUser == {1}
TwoUsers == {1, 2}
=============================================================================
