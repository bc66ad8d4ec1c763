------------------------------- MODULE MCCabinet -------------------------------
(* Two sessions, of two accounts, and two orders.  One of the four is over  *)
(* before the behaviour begins; two of them when a request may be lost.     *)
(* One order at most is for TON, and none while there are both accounts.    *)
EXTENDS Cabinet, TLC

CONSTANTS A, B, k1, k2, o1, o2

MCTokenOwner == (k1 :> A) @@ (k2 :> B)

MCInit ==
  /\ Init
  /\ owner \in [Orders -> {A, NoLogin}]
  /\ ~item[o2].ton /\ (ended = {} => ~item[o1].ton)
  /\ \/ ended = {k2} /\ order = [o \in Orders |-> "none"] /\ faults = MaxFaults
     \/ ended = {} /\ order = (o1 :> "none" @@ o2 :> "paid") /\ faults = MaxFaults
     \/ ended = {k2} /\ order = (o1 :> "none" @@ o2 :> "paid") /\ faults = 0

MCSpec == MCInit /\ [][Next]_vars /\ Fairness
================================================================================
