------------------------------ MODULE OrderLedger ------------------------------
(***************************************************************************)
(* What billing promises about the money of an order, whatever the         *)
(* provider, the retries and the administrators do: an order is honoured   *)
(* at most once, and money is given back only for an order that was        *)
(* honoured.  Billing.tla is the code that keeps this promise.             *)
(***************************************************************************)
CONSTANT Orders

VARIABLES
  honoured,   \* the orders whose period was granted and whose payment is booked
  returned    \* the orders whose payment has a booked compensation

Init ==
  /\ honoured = {}
  /\ returned = {}

\* The period of o is granted and its payment booked, in one transaction.
Honour(o) ==
  /\ o \notin honoured
  /\ honoured' = honoured \union {o}
  /\ UNCHANGED returned

\* The payment of o is compensated.
Return(o) ==
  /\ o \in honoured
  /\ returned' = returned \union {o}
  /\ UNCHANGED honoured

Next == \E o \in Orders : Honour(o) \/ Return(o)

Spec == Init /\ [][Next]_<<honoured, returned>>
================================================================================
