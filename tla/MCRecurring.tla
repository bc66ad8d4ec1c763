------------------------------ MODULE MCRecurring ------------------------------
(***************************************************************************)
(* Instances of Recurring for TLC: one subscription and the charges made   *)
(* for it.                                                                 *)
(***************************************************************************)
EXTENDS Recurring

CONSTANTS s1, c1, c2

MCSubOf == [c \in Charges |-> s1]
================================================================================
