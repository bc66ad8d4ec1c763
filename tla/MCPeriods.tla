------------------------------- MODULE MCPeriods -------------------------------
(* An account on trial with two orders, and the paying account that invited it. *)
EXTENDS Periods

CONSTANTS a, b, o1, o2

MCOwner == (o1 :> a) @@ (o2 :> a)
MCTerm == (o1 :> 2) @@ (o2 :> 1)
MCInviter == (a :> b) @@ (b :> NoUser)
MCFirst == (a :> "trial") @@ (b :> "paid")
================================================================================
