------------------------------ MODULE MCNodeAgent ------------------------------
(***************************************************************************)
(* Instances of NodeAgent for TLC: a few tasks of one node, and two        *)
(* reports served at a time, one of them possibly abandoned by the agent.  *)
(***************************************************************************)
EXTENDS NodeAgent
================================================================================
