---------------------------- MODULE MCAgentFlow ----------------------------
(* The agent on small instances.                                           *)
EXTENDS AgentFlow

CONSTANT i0

\* A value is there from an earlier run, so that it can be sent on.
ValueThere == [n \in Names |-> i0]
============================================================================
