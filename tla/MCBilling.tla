------------------------------- MODULE MCBilling -------------------------------
(***************************************************************************)
(* Instances of Billing for TLC: up to two orders of one account, paid by  *)
(* webhooks (o1) and by a transfer in TON (o2).                            *)
(***************************************************************************)
EXTENDS Billing

CONSTANTS
  o1, o2, u1,
  paid1,    \* the provider confirms the full sum of o1
  again1,   \* another event that confirms it, under another event_id
  short1,   \* less than the price of o1
  cancel1,  \* the provider reports that the payment of o1 failed
  back1,    \* the payment of o1 is charged back
  ton2,     \* a transfer that covers o2
  stray     \* an event that belongs to no order

MCOwner == [o \in Orders |-> u1]

MCKind == [e \in Events |-> CASE e = back1   -> "refunded"
                              [] e = cancel1 -> "canceled"
                              [] OTHER       -> "succeeded"]

MCTarget == [e \in Events |-> CASE e = ton2  -> o2
                                [] e = stray -> NoOrder
                                [] OTHER     -> o1]

MCAmount == [e \in Events |-> IF e = short1 THEN "short" ELSE "full"]
================================================================================
