---------------------------- MODULE Billing_proofs ----------------------------
(***************************************************************************)
(* Theorems about Billing, for any number of orders, accounts, events and  *)
(* threads, and any number of restarts and failures.                       *)
(*                                                                         *)
(* BillingInv is proved in groups: the shape of the state (types, and the  *)
(* order each handler is at), the money of orders, the closing of events,  *)
(* the work after a grant.  Each group is preserved by every step, given   *)
(* the groups before it; the temporal theorems put them together.          *)
(***************************************************************************)
EXTENDS Billing, FiniteSetTheorems, TLAPS

Shape == TypeOK /\ HandlerOrder

\* The decision on an event sends the handler to one of four places, with a result
\* of billing_events to write.
LEMMA VerdictRange ==
  ASSUME NEW e \in Events, NEW seen
  PROVE  /\ Verdict(e, seen).to \in {"mark", "refund", "fail", "ready"}
         /\ Verdict(e, seen).as \in Results \ {"absent"}
  BY BillingAssumption DEF Verdict, Results, Stuck, Closed

\* The row a flush leaves has a status.
LEMMA FlushedStatus ==
  ASSUME TypeOK, NEW t \in Threads, NEW o \in Orders, NEW s \in Status
  PROVE  Flushed(t, o, s) \in Status
  BY DEF TypeOK, Flushed

\* The end of a handler leaves the thread with nothing in hand.
LEMMA FinishShape ==
  ASSUME Shape, NEW t \in Threads, Finish(t)
  PROVE  /\ pc' \in [Threads -> Places]
         /\ evt' \in [Threads -> Events \union {NoEvent}]
         /\ ord' \in [Threads -> Orders \union {NoOrder}]
         /\ seenSub' \in [Threads -> BOOLEAN]
         /\ base' \in [Threads -> Nat]
         /\ owed' \in [Threads -> BOOLEAN]
         /\ out' \in [Threads -> Results \ {"absent"}]
         /\ HandlerOrder'
  <1> USE DEF Shape, Finish
  <1>1. /\ pc' \in [Threads -> Places]
        /\ evt' \in [Threads -> Events \union {NoEvent}]
        /\ ord' \in [Threads -> Orders \union {NoOrder}]
        /\ seenSub' \in [Threads -> BOOLEAN]
        /\ base' \in [Threads -> Nat]
        /\ owed' \in [Threads -> BOOLEAN]
    BY DEF TypeOK, Places, Working
  <1>2. out' \in [Threads -> Results \ {"absent"}]
    BY DEF TypeOK, Results, Stuck
  <1>3. HandlerOrder'
    <2>1. ASSUME NEW x \in Threads, x # t
          PROVE  pc'[x] = pc[x] /\ evt'[x] = evt[x] /\ ord'[x] = ord[x]
      BY <2>1 DEF TypeOK
    <2>2. pc'[t] \in {"scan", "idle"} /\ evt'[t] = NoEvent
      BY DEF TypeOK
    <2> QED
      BY <2>1, <2>2, BillingAssumption DEF HandlerOrder, Working
  <1> QED
    BY <1>1, <1>2, <1>3

\* The state has its shape at the start.
LEMMA ShapeInit == Init => Shape
  <1>1. Init => TypeOK
    BY DEF Init, TypeOK, Status, Results, Stuck, Places, Nothing
  <1>2. Init => HandlerOrder
    BY BillingAssumption DEF Init, HandlerOrder, Working
  <1> QED
    BY <1>1, <1>2 DEF Shape

\* Every step of every thread keeps the shape of the state.
LEMMA ShapeStep == Shape /\ [Next]_vars => Shape'
  <1> SUFFICES ASSUME Shape, [Next]_vars PROVE Shape'
    OBVIOUS
  <1> USE BillingAssumption
  <1> USE DEF Shape, orderRows, locals, bounds
  <1>1. ASSUME NEW t \in Threads, NEW e \in Events, Receive(t, e) PROVE Shape'
    BY <1>1 DEF Receive, Claim, Goto, TakeUp, TypeOK, HandlerOrder, Places, Working,
                Results, Stuck, Closed
  <1>2. ASSUME NEW t \in Threads, NEW e \in Events, TonReceive(t, e) PROVE Shape'
    BY <1>2 DEF TonReceive, Claim, Goto, TakeUp, TypeOK, HandlerOrder, Places, Working,
                Results, Stuck, Closed
  <1>3. ASSUME NEW t \in Threads, NEW e \in Events, Reclaim(t, e) PROVE Shape'
    BY <1>3 DEF Reclaim, Goto, TakeUp, TypeOK, HandlerOrder, Places, Working,
                Results, Stuck, Closed
  <1>4. ASSUME NEW t \in Threads, TonScan(t) PROVE Shape'
    BY <1>4 DEF TonScan, Goto, TypeOK, HandlerOrder, Places, Working, Status
  <1>5. ASSUME NEW t \in Threads, TonDone(t) PROVE Shape'
    BY <1>5 DEF TonDone, Goto, TypeOK, HandlerOrder, Places, Working, Nothing
  <1>6. ASSUME NEW t \in Threads, Load(t) PROVE Shape'
    BY <1>6, VerdictRange, SMTT(30) DEF Load, Goto, TypeOK, HandlerOrder, Places, Working
  <1>7. ASSUME NEW t \in Threads, LoadUnknown(t) PROVE Shape'
    BY <1>7 DEF LoadUnknown, Goto, TypeOK, HandlerOrder, Places, Working,
                Results, Closed
  <1>8. ASSUME NEW t \in Threads, FailOrder(t) PROVE Shape'
    BY <1>8 DEF FailOrder, Flushed, Goto, TypeOK, HandlerOrder, Places, Working, Status
  <1>9. ASSUME NEW t \in Threads, MarkReady(t) PROVE Shape'
    BY <1>9 DEF MarkReady, Goto, TypeOK, HandlerOrder, Places, Working, Results, Stuck
  <1>10. ASSUME NEW t \in Threads, ReadTerm(t) PROVE Shape'
    BY <1>10 DEF ReadTerm, Goto, TypeOK, HandlerOrder, Places, Working
  <1>11. ASSUME NEW t \in Threads, CommitGrant(t) PROVE Shape'
    BY <1>11 DEF CommitGrant, Flushed, Goto, TypeOK, HandlerOrder, Places, Working, Status
  <1>12. ASSUME NEW t \in Threads, LoseRace(t) PROVE Shape'
    <2>1. UNCHANGED <<orderRows, result, bounds>>
      BY <1>12 DEF LoseRace
    <2>2. CASE t \in Admins
      <3>1. Finish(t) /\ CloseSession(t)
        BY <1>12, <2>2 DEF LoseRace
      <3> QED
        BY <2>1, <3>1, FinishShape DEF CloseSession, TypeOK, Nothing
    <2>3. CASE t \notin Admins
      <3>1. ord[t] \in Orders
        BY <1>12 DEF LoseRace, HandlerOrder, Working
      <3>2. evt[t] \in Events
        BY <1>12, <2>3 DEF LoseRace, HandlerOrder, Working
      <3>3. /\ pc' = [pc EXCEPT ![t] = AfterRace(ord[t])]
            /\ view' = [view EXCEPT ![t] = [Forgotten(t) EXCEPT ![ord[t]] = status[ord[t]]]]
            /\ UNCHANGED <<evt, ord, seenSub, base, owed, out>>
        BY <1>12, <2>3 DEF LoseRace
      <3>4. AfterRace(ord[t]) \in {"mark", "failure"}
        BY DEF AfterRace
      <3>5. [Forgotten(t) EXCEPT ![ord[t]] = status[ord[t]]]
              \in [Orders -> Status \union {"unread", "listed"}]
        BY <3>1 DEF Forgotten, TypeOK
      <3>6. TypeOK'
        BY <2>1, <3>3, <3>4, <3>5 DEF TypeOK, Places
      <3>7. HandlerOrder'
        BY <3>2, <3>3, <3>4 DEF TypeOK, HandlerOrder, Working
      <3> QED
        BY <3>6, <3>7
    <2> QED
      BY <2>2, <2>3
  <1>13. ASSUME NEW t \in Threads, Serve(t) PROVE Shape'
    <2>1. /\ served' \in [Orders -> Nat]
          /\ UNCHANGED <<status, paid, comp, manual, term, result, bounds>>
      <3>1. ord[t] \in Orders
        BY <1>13 DEF Serve, HandlerOrder, Working
      <3>2. served' = [served EXCEPT ![ord[t]] = @ + 1]
        BY <1>13 DEF Serve
      <3> QED
        BY <1>13, <3>1, <3>2 DEF Serve, TypeOK
    <2>2. CASE t \in Admins
      <3>1. Finish(t) /\ CloseSession(t)
        BY <1>13, <2>2 DEF Serve
      <3> QED
        BY <2>1, <3>1, FinishShape DEF CloseSession, TypeOK, Nothing
    <2>3. CASE t \notin Admins
      <3>1. pc[t] = "serve" /\ pc' = [pc EXCEPT ![t] = "mark"] /\ UNCHANGED locals
        BY <1>13, <2>3 DEF Serve
      <3>2. TypeOK'
        BY <2>1, <3>1 DEF TypeOK, Places
      <3>3. HandlerOrder'
        BY <2>3, <3>1 DEF TypeOK, HandlerOrder, Working
      <3> QED
        BY <3>2, <3>3
    <2> QED
      BY <2>2, <2>3
  <1>14. ASSUME NEW t \in Threads, ReadRefund(t) PROVE Shape'
    BY <1>14 DEF ReadRefund, Goto, TypeOK, HandlerOrder, Places, Working
  <1>15. ASSUME NEW t \in Threads, CommitRefund(t) PROVE Shape'
    <2>1. ord[t] \in Orders
      BY <1>15 DEF CommitRefund, HandlerOrder, Working
    <2>2. /\ status' \in [Orders -> Status] /\ comp' \in [Orders -> Nat]
          /\ term' \in [Users -> Nat]
          /\ UNCHANGED <<paid, manual, served, result, bounds>>
      BY <1>15, <2>1 DEF CommitRefund, Flushed, TypeOK, Status
    <2>3. CASE t \in Admins
      <3>1. Finish(t) /\ CloseSession(t)
        BY <1>15, <2>3 DEF CommitRefund
      <3> QED
        BY <2>2, <3>1, FinishShape DEF CloseSession, TypeOK, Nothing
    <2>4. CASE t \notin Admins
      <3>1. /\ pc[t] = "return" /\ pc' = [pc EXCEPT ![t] = "mark"]
            /\ view' = [view EXCEPT ![t][ord[t]] = "refunded"]
            /\ UNCHANGED <<evt, ord, seenSub, base, owed, out>>
        BY <1>15, <2>4 DEF CommitRefund
      <3>2. TypeOK'
        BY <2>2, <3>1 DEF TypeOK, Places, Status
      <3>3. HandlerOrder'
        BY <2>4, <3>1 DEF TypeOK, HandlerOrder, Working
      <3> QED
        BY <3>2, <3>3
    <2> QED
      BY <2>3, <2>4
  <1>16. ASSUME NEW t \in Threads, MarkResult(t) PROVE Shape'
    BY <1>16, FinishShape DEF MarkResult, CloseSession, TypeOK, Nothing
  <1>17. ASSUME NEW t \in Threads, MarkFailure(t) PROVE Shape'
    BY <1>17, FinishShape
    DEF MarkFailure, CloseSession, TypeOK, Nothing, Results, Stuck, Closed
  <1>18. ASSUME NEW t \in Threads, Fault(t) PROVE Shape'
    <2>1. CASE t \in Admins
      <3>1. Finish(t)
        BY <1>18, <2>1 DEF Fault
      <3> QED
        BY <1>18, <3>1, FinishShape DEF Fault, TypeOK, Forgotten
    <2>2. CASE t \notin Admins
      <3>1. /\ pc[t] \in Working /\ pc' = [pc EXCEPT ![t] = "failure"]
            /\ view' = [view EXCEPT ![t] = Forgotten(t)]
            /\ faults' = faults + 1
            /\ UNCHANGED <<orderRows, result, crashes, evt, ord, seenSub, base, owed, out>>
        BY <1>18, <2>2 DEF Fault
      <3>2. TypeOK'
        BY <3>1 DEF TypeOK, Places, Forgotten
      <3>3. HandlerOrder'
        BY <2>2, <3>1 DEF TypeOK, HandlerOrder, Working
      <3> QED
        BY <3>2, <3>3
    <2> QED
      BY <2>1, <2>2
  <1>19. CASE Crash
    BY <1>19 DEF Crash, TypeOK, HandlerOrder, Places, Working, Nothing, Results, Stuck
  <1>20. ASSUME NEW t \in Threads, NEW o \in Orders, AdminFulfil(t, o) PROVE Shape'
    BY <1>20 DEF AdminFulfil, Goto, TakeUp, TypeOK, HandlerOrder, Places, Working
  <1>21. ASSUME NEW t \in Threads, NEW o \in Orders, AdminRefund(t, o) PROVE Shape'
    BY <1>21 DEF AdminRefund, Goto, TakeUp, TypeOK, HandlerOrder, Places, Working
  <1>22. ASSUME NEW t \in Threads, ExpireScan(t) PROVE Shape'
    BY <1>22 DEF ExpireScan, Goto, TypeOK, HandlerOrder, Places, Working, Status
  <1>23. ASSUME NEW t \in Threads, ExpireCommit(t) PROVE Shape'
    BY <1>23, FinishShape DEF ExpireCommit, CloseSession, TypeOK, Nothing, Status
  <1>24. CASE UNCHANGED vars
    BY <1>24 DEF vars, TypeOK, HandlerOrder
  <1> QED
    BY <1>1, <1>2, <1>3, <1>4, <1>5, <1>6, <1>7, <1>8, <1>9, <1>10, <1>11, <1>12, <1>13,
       <1>14, <1>15, <1>16, <1>17, <1>18, <1>19, <1>20, <1>21, <1>22, <1>23, <1>24
    DEF Next, Handle

\* Every variable keeps its type.
THEOREM TypeCorrect == Spec => []TypeOK
  <1>1. Init => Shape
    BY ShapeInit
  <1>2. Shape /\ [Next]_vars => Shape'
    BY ShapeStep
  <1>3. Shape => TypeOK
    BY DEF Shape
  <1> QED
    BY <1>1, <1>2, <1>3, PTL DEF Spec

--------------------------------------------------------------------------------
(* The money of orders                                                     *)

Money == HonouredOnce /\ PaidIsHonoured /\ ReturnIsBacked /\ RefundInFlight

\* Thread t moves and every other stays where it is, with what it holds.
Alone(t) ==
  \A x \in Threads : x # t =>
    /\ pc'[x] = pc[x] /\ evt'[x] = evt[x] /\ ord'[x] = ord[x] /\ out'[x] = out[x]
    /\ view'[x] = view[x] /\ owed'[x] = owed[x] /\ base'[x] = base[x]

\* The end of a handler concerns its thread only, which is then at rest.
LEMMA FinishAlone ==
  ASSUME Shape, NEW t \in Threads, Finish(t),
         CloseSession(t) \/ view' = [view EXCEPT ![t] = Forgotten(t)]
  PROVE  Alone(t) /\ pc'[t] \in {"scan", "idle"} /\ evt'[t] = NoEvent
         /\ \A o \in Orders : view'[t][o] \in {view[t][o], "unread", "listed"}
  <1> USE DEF Shape, TypeOK
  <1>1. pc'[t] \in {"scan", "idle"} /\ evt'[t] = NoEvent
    BY DEF Finish
  <1>2. \A o \in Orders : view'[t][o] \in {view[t][o], "unread", "listed"}
    BY DEF CloseSession, Nothing, Forgotten
  <1>3. \A x \in Threads : x # t => view'[x] = view[x]
    BY DEF CloseSession
  <1>4. Alone(t)
    BY <1>3 DEF Finish, Alone
  <1> QED
    BY <1>1, <1>2, <1>4

\* A step of a thread that leaves the rows of orders alone, and does not begin or
\* continue a refund, disturbs nothing about money.
LEMMA MoneyQuiet ==
  ASSUME Shape, Money, NEW t \in Threads, Alone(t), UNCHANGED <<status, paid, comp>>,
         pc'[t] \notin {"refund", "return"}
  PROVE  Money'
  BY DEF Money, HonouredOnce, PaidIsHonoured, ReturnIsBacked, RefundInFlight, Alone

\* No thread refunds an order it saw refunded, so the flush writes the status.
LEMMA RefundIsWritten ==
  ASSUME Shape, Money, NEW t \in Threads, CommitRefund(t)
  PROVE  /\ ord[t] \in Orders
         /\ status' = [status EXCEPT ![ord[t]] = "refunded"]
         /\ comp' = [comp EXCEPT ![ord[t]] = IF owed[t] THEN @ + 1 ELSE @]
         /\ paid' = paid
         /\ owed[t] => paid[ord[t]] > 0
  <1>1. ord[t] \in Orders
    BY DEF CommitRefund, Shape, HandlerOrder, Working
  <1>2. view[t][ord[t]] # "refunded" /\ (owed[t] => paid[ord[t]] > 0)
    BY DEF CommitRefund, Money, RefundInFlight
  <1> QED
    BY <1>1, <1>2 DEF CommitRefund, Flushed

\* Every step keeps the promises about money, and what refunds in flight rely on.
LEMMA MoneyStep == Shape /\ Money /\ [Next]_vars => Money'
  <1> SUFFICES ASSUME Shape, Money, [Next]_vars PROVE Money'
    OBVIOUS
  <1> USE BillingAssumption
  <1> USE DEF orderRows, locals, bounds
  <1>1. ASSUME NEW t \in Threads, NEW e \in Events,
               Receive(t, e) \/ TonReceive(t, e) \/ Reclaim(t, e)
        PROVE  Money'
    <2>1. Alone(t) /\ UNCHANGED <<status, paid, comp>> /\ pc'[t] = "load"
      BY <1>1 DEF Receive, TonReceive, Reclaim, Claim, TakeUp, Goto, Alone, Shape, TypeOK
    <2> QED
      BY <2>1, MoneyQuiet
  <1>2. ASSUME NEW t \in Threads, TonScan(t) \/ TonDone(t) \/ ExpireScan(t) PROVE Money'
    <2>1. Alone(t) /\ UNCHANGED <<status, paid, comp>>
          /\ pc'[t] \in {"scan", "idle", "expire"}
      BY <1>2 DEF TonScan, TonDone, ExpireScan, Goto, Alone, Shape, TypeOK
    <2> QED
      BY <2>1, MoneyQuiet
  <1>3. ASSUME NEW t \in Threads, Load(t) PROVE Money'
    <2> DEFINE seen == IF view[t][ord[t]] \in Status THEN view[t][ord[t]] ELSE status[ord[t]]
    <2>1. /\ ord[t] \in Orders /\ evt[t] \in Events
          /\ UNCHANGED <<status, paid, comp, ord, owed>>
          /\ pc' = [pc EXCEPT ![t] = Verdict(evt[t], seen).to]
          /\ view' = [view EXCEPT ![t][ord[t]] = seen]
      BY <1>3 DEF Load, Goto, Shape, TypeOK, HandlerOrder
    <2>2. /\ Verdict(evt[t], seen).to = "refund" => seen # "refunded"
          /\ Verdict(evt[t], seen).to # "return"
      BY <2>1 DEF Verdict
    <2> QED
      BY <2>1, <2>2
      DEF Money, HonouredOnce, PaidIsHonoured, ReturnIsBacked, RefundInFlight, Shape, TypeOK
  <1>4. ASSUME NEW t \in Threads, LoadUnknown(t) \/ MarkReady(t) \/ ReadTerm(t) PROVE Money'
    <2>1. Alone(t) /\ UNCHANGED <<status, paid, comp>>
          /\ pc'[t] \in {"mark", "grant", "commit"}
      BY <1>4 DEF LoadUnknown, MarkReady, ReadTerm, Goto, Alone, Shape, TypeOK
    <2> QED
      BY <2>1, MoneyQuiet
  <1>5. ASSUME NEW t \in Threads, FailOrder(t) PROVE Money'
    <2>1. /\ ord[t] \in Orders
          /\ status' = [status EXCEPT ![ord[t]] = Flushed(t, ord[t], "failed")]
          /\ Flushed(t, ord[t], "failed") \in {status[ord[t]], "failed"}
          /\ UNCHANGED <<paid, comp, ord, owed>>
          /\ pc' = [pc EXCEPT ![t] = "mark"]
          /\ \A x \in Threads : x # t => view'[x] = view[x]
      BY <1>5 DEF FailOrder, Flushed, Goto, Shape, TypeOK, HandlerOrder, Working
    <2> QED
      BY <2>1
      DEF Money, HonouredOnce, PaidIsHonoured, ReturnIsBacked, RefundInFlight, Shape, TypeOK
  <1>6. ASSUME NEW t \in Threads, CommitGrant(t) PROVE Money'
    <2>1. /\ ord[t] \in Orders /\ paid[ord[t]] = 0
          /\ status' = [status EXCEPT ![ord[t]] = Flushed(t, ord[t], "paid")]
          /\ paid' = [paid EXCEPT ![ord[t]] = @ + 1]
          /\ UNCHANGED <<comp, ord, owed>>
          /\ pc' = [pc EXCEPT ![t] = "serve"]
          /\ \A x \in Threads : x # t => view'[x] = view[x]
      <3>1. ord[t] \in Orders
        BY <1>6 DEF CommitGrant, Goto, Shape, HandlerOrder, Working
      <3>2. \A x \in Threads : x # t => view'[x] = view[x]
        BY <1>6 DEF CommitGrant, Shape, TypeOK
      <3> QED
        BY <1>6, <3>1, <3>2 DEF CommitGrant, Goto
    <2>2. comp[ord[t]] = 0
      <3>1. ord[t] \in Orders /\ comp[ord[t]] \in Nat /\ ~(paid[ord[t]] > 0)
        BY <2>1 DEF Shape, TypeOK
      <3> QED
        BY <3>1 DEF Money, ReturnIsBacked
    <2>3. HonouredOnce' /\ PaidIsHonoured' /\ ReturnIsBacked'
      BY <2>1, <2>2 DEF Money, HonouredOnce, PaidIsHonoured, ReturnIsBacked, Shape, TypeOK
    <2>4. RefundInFlight'
      <3>1. \A o \in Orders : paid[o] > 0 => paid'[o] > 0
        BY <2>1 DEF Shape, TypeOK
      <3>2. \A x \in Threads : pc[x] = "return" => ord[x] \in Orders
        BY DEF Shape, HandlerOrder, Working
      <3> QED
        BY <2>1, <3>1, <3>2 DEF Money, RefundInFlight, Shape, TypeOK
    <2> QED
      BY <2>3, <2>4 DEF Money
  <1>7. ASSUME NEW t \in Threads, LoseRace(t) \/ Serve(t) \/ Fault(t) PROVE Money'
    <2>1. UNCHANGED <<status, paid, comp>>
      BY <1>7 DEF LoseRace, Serve, Fault
    <2>2. CASE t \in Admins
      <3>1. Finish(t) /\ (CloseSession(t) \/ view' = [view EXCEPT ![t] = Forgotten(t)])
        BY <1>7, <2>2 DEF LoseRace, Serve, Fault
      <3> QED
        BY <2>1, <3>1, FinishAlone, MoneyQuiet
    <2>3. CASE t \notin Admins
      <3>1. Alone(t) /\ pc'[t] \in {"mark", "failure"}
        BY <1>7, <2>3 DEF LoseRace, Serve, Fault, AfterRace, Alone, Shape, TypeOK
      <3> QED
        BY <2>1, <3>1, MoneyQuiet
    <2> QED
      BY <2>2, <2>3
  <1>8. ASSUME NEW t \in Threads, ReadRefund(t) PROVE Money'
    <2>1. /\ ord[t] \in Orders /\ pc[t] = "refund"
          /\ UNCHANGED <<status, paid, comp, ord, view>>
          /\ pc' = [pc EXCEPT ![t] = "return"]
          /\ owed' = [owed EXCEPT ![t] = paid[ord[t]] > 0 /\ comp[ord[t]] = 0]
      BY <1>8 DEF ReadRefund, Goto, Shape, TypeOK, HandlerOrder, Working
    <2> QED
      BY <2>1
      DEF Money, HonouredOnce, PaidIsHonoured, ReturnIsBacked, RefundInFlight, Shape, TypeOK
  <1>9. ASSUME NEW t \in Threads, CommitRefund(t) PROVE Money'
    <2>1. HonouredOnce' /\ PaidIsHonoured' /\ ReturnIsBacked'
      BY <1>9, RefundIsWritten
      DEF Money, HonouredOnce, PaidIsHonoured, ReturnIsBacked, Shape, TypeOK
    <2>2. Alone(t) /\ pc'[t] \in {"mark", "idle", "scan"}
      <3>1. CASE t \in Admins
        BY <1>9, <3>1, FinishAlone DEF CommitRefund
      <3>2. CASE t \notin Admins
        BY <1>9, <3>2 DEF CommitRefund, Alone, Shape, TypeOK
      <3> QED
        BY <3>1, <3>2
    <2>3. RefundInFlight'
      BY <1>9, <2>2, RefundIsWritten DEF Money, RefundInFlight, Alone
    <2> QED
      BY <2>1, <2>3 DEF Money
  <1>10. ASSUME NEW t \in Threads, MarkResult(t) \/ MarkFailure(t) PROVE Money'
    <2>1. Finish(t) /\ CloseSession(t) /\ UNCHANGED <<status, paid, comp>>
      BY <1>10 DEF MarkResult, MarkFailure
    <2> QED
      BY <2>1, FinishAlone, MoneyQuiet
  <1>11. CASE Crash
    BY <1>11 DEF Crash, Money, HonouredOnce, PaidIsHonoured, ReturnIsBacked, RefundInFlight
  <1>12. ASSUME NEW t \in Threads, NEW o \in Orders, AdminFulfil(t, o) PROVE Money'
    <2>1. Alone(t) /\ UNCHANGED <<status, paid, comp>> /\ pc'[t] = "grant"
      BY <1>12 DEF AdminFulfil, TakeUp, Goto, Alone, Shape, TypeOK
    <2> QED
      BY <2>1, MoneyQuiet
  <1>13. ASSUME NEW t \in Threads, NEW o \in Orders, AdminRefund(t, o) PROVE Money'
    <2>1. /\ Alone(t) /\ UNCHANGED <<status, paid, comp>>
          /\ pc'[t] = "refund" /\ ord'[t] = o /\ view'[t][o] # "refunded"
      BY <1>13 DEF AdminRefund, TakeUp, Goto, Alone, Shape, TypeOK
    <2> QED
      BY <2>1 DEF Money, HonouredOnce, PaidIsHonoured, ReturnIsBacked, RefundInFlight, Alone
  <1>14. ASSUME NEW t \in Threads, ExpireCommit(t) PROVE Money'
    <2>1. /\ Finish(t) /\ CloseSession(t) /\ UNCHANGED <<paid, comp>>
          /\ \A o \in Orders : status'[o] \in {status[o], "expired"}
      BY <1>14 DEF ExpireCommit
    <2>2. Alone(t) /\ pc'[t] \in {"scan", "idle"}
      BY <2>1, FinishAlone
    <2> QED
      BY <2>1, <2>2
      DEF Money, HonouredOnce, PaidIsHonoured, ReturnIsBacked, RefundInFlight, Alone
  <1>15. CASE UNCHANGED vars
    BY <1>15 DEF vars, Money, HonouredOnce, PaidIsHonoured, ReturnIsBacked, RefundInFlight
  <1> QED
    BY <1>1, <1>2, <1>3, <1>4, <1>5, <1>6, <1>7, <1>8, <1>9, <1>10, <1>11, <1>12, <1>13,
       <1>14, <1>15
    DEF Next, Handle

\* Nothing is paid, returned or in flight at the start.
LEMMA MoneyInit == Init => Money
  BY DEF Init, Money, HonouredOnce, PaidIsHonoured, ReturnIsBacked, RefundInFlight

\* An order is granted at most once, money goes back only for a paid order, and an
\* order that reads as paid is one whose money was kept.
THEOREM MoneyCorrect == Spec => [](HonouredOnce /\ PaidIsHonoured /\ ReturnIsBacked)
  <1>1. Init => Shape /\ Money
    BY ShapeInit, MoneyInit
  <1>2. Shape /\ Money /\ [Next]_vars => (Shape /\ Money)'
    BY ShapeStep, MoneyStep
  <1>3. Money => HonouredOnce /\ PaidIsHonoured /\ ReturnIsBacked
    BY DEF Money
  <1> QED
    BY <1>1, <1>2, <1>3, PTL DEF Spec

--------------------------------------------------------------------------------
(* Billing implements OrderLedger                                          *)

\* A step that books no payment and no compensation is no step of the ledger.
LEMMA LedgerStutter ==
  ASSUME UNCHANGED <<paid, comp>>
  PROVE  UNCHANGED <<{o \in Orders : paid[o] > 0}, {o \in Orders : comp[o] > 0}>>
  OBVIOUS

\* Every step of Billing is the ledger's Honour, its Return, or none of its steps.
LEMMA LedgerStep ==
  Shape /\ Money /\ [Next]_vars =>
    [Ledger!Next]_<<{o \in Orders : paid[o] > 0}, {o \in Orders : comp[o] > 0}>>
  <1> SUFFICES ASSUME Shape, Money, [Next]_vars
               PROVE  \/ Ledger!Next
                      \/ UNCHANGED <<{o \in Orders : paid[o] > 0}, {o \in Orders : comp[o] > 0}>>
    OBVIOUS
  <1>1. ASSUME NEW t \in Threads, CommitGrant(t) PROVE Ledger!Next
    <2>1. /\ ord[t] \in Orders /\ paid[ord[t]] = 0 /\ comp' = comp
          /\ paid' = [paid EXCEPT ![ord[t]] = @ + 1]
      BY <1>1 DEF CommitGrant, Goto, Shape, HandlerOrder, Working
    <2>2. \A o \in Orders : paid'[o] > 0 <=> (paid[o] > 0 \/ o = ord[t])
      BY <2>1 DEF Shape, TypeOK
    <2>3. Ledger!Honour(ord[t])
      BY <2>1, <2>2 DEF Ledger!Honour
    <2> QED
      BY <2>1, <2>3 DEF Ledger!Next, Ledger!Honour
  <1>2. ASSUME NEW t \in Threads, CommitRefund(t)
        PROVE  \/ Ledger!Next
               \/ UNCHANGED <<{o \in Orders : paid[o] > 0}, {o \in Orders : comp[o] > 0}>>
    <2>1. CASE owed[t]
      <3>1. /\ ord[t] \in Orders /\ paid[ord[t]] > 0 /\ paid' = paid
            /\ comp' = [comp EXCEPT ![ord[t]] = @ + 1]
        BY <1>2, <2>1, RefundIsWritten
      <3>2. \A o \in Orders : comp'[o] > 0 <=> (comp[o] > 0 \/ o = ord[t])
        BY <3>1 DEF Shape, TypeOK
      <3>3. Ledger!Return(ord[t])
        BY <3>1, <3>2 DEF Ledger!Return
      <3> QED
        BY <3>1, <3>3 DEF Ledger!Next, Ledger!Return
    <2>2. CASE ~owed[t]
      <3>1. UNCHANGED <<paid, comp>>
        BY <1>2, <2>2, RefundIsWritten DEF Shape, TypeOK
      <3> QED
        BY <3>1, LedgerStutter
    <2> QED
      BY <2>1, <2>2
  <1>3. ASSUME ~(\E t \in Threads : CommitGrant(t) \/ CommitRefund(t))
        PROVE  UNCHANGED <<{o \in Orders : paid[o] > 0}, {o \in Orders : comp[o] > 0}>>
    <2>1. UNCHANGED <<paid, comp>>
      BY <1>3
      DEF Next, Handle, vars, orderRows, Receive, TonReceive, Reclaim, Claim, TonScan,
          TonDone, Load, LoadUnknown, FailOrder, MarkReady, ReadTerm, LoseRace, Serve,
          ReadRefund, MarkResult, MarkFailure, Fault, Crash, AdminFulfil, AdminRefund,
          ExpireScan, ExpireCommit
    <2> QED
      BY <2>1, LedgerStutter
  <1> QED
    BY <1>1, <1>2, <1>3

\* Billing keeps the promise of OrderLedger.
THEOREM ImplementsLedger == Spec => LedgerSpec
  <1>1. Init => Ledger!Init
    BY DEF Init, Ledger!Init
  <1>2. Init => Shape /\ Money
    BY ShapeInit, MoneyInit
  <1>3. Shape /\ Money /\ [Next]_vars => (Shape /\ Money)'
    BY ShapeStep, MoneyStep
  <1> QED
    BY <1>1, <1>2, <1>3, LedgerStep, PTL DEF Spec, LedgerSpec, Ledger!Spec

--------------------------------------------------------------------------------
(* The events closed as done                                               *)

Done == DoneMeansHonoured /\ PaidInFlight

\* A payment, once booked, stays.
LEMMA PaidStays ==
  ASSUME Shape, [Next]_vars, NEW o \in Orders, paid[o] > 0
  PROVE  paid'[o] > 0
  <1>1. ASSUME NEW t \in Threads, CommitGrant(t) PROVE paid'[o] > 0
    BY <1>1 DEF CommitGrant, Shape, TypeOK
  <1>2. ASSUME ~(\E t \in Threads : CommitGrant(t)) PROVE paid' = paid
    BY <1>2
    DEF Next, Handle, vars, orderRows, Receive, TonReceive, Reclaim, Claim, TonScan,
        TonDone, Load, LoadUnknown, FailOrder, MarkReady, ReadTerm, LoseRace, Serve,
        ReadRefund, CommitRefund, MarkResult, MarkFailure, Fault, Crash, AdminFulfil,
        AdminRefund, ExpireScan, ExpireCommit
  <1> QED
    BY <1>1, <1>2

\* When thread t moves, it is enough that t itself is right, and that no event is
\* closed as done unless its order is paid.
LEMMA DoneAlone ==
  ASSUME Shape, Shape', Done, [Next]_vars, NEW t \in Threads, Alone(t), PaidAt(t)',
         \A e \in Events : result'[e] \in {"ok", "duplicate"} =>
           \/ result[e] \in {"ok", "duplicate"}
           \/ Target[e] \in Orders /\ paid[Target[e]] > 0
  PROVE  Done'
  <1>1. \A o \in Orders : paid[o] > 0 => paid'[o] > 0
    BY PaidStays
  <1>2. ASSUME NEW x \in Threads, x # t PROVE PaidAt(x)'
    <2>1. pc[x] = "serve" => ord[x] \in Orders
      BY DEF Shape, HandlerOrder, Working
    <2> QED
      BY <1>1, <1>2, <2>1 DEF Alone, Done, PaidInFlight, PaidAt
  <1>3. PaidInFlight'
    BY <1>2 DEF PaidInFlight
  <1>4. DoneMeansHonoured'
    BY <1>1 DEF Done, DoneMeansHonoured
  <1> QED
    BY <1>3, <1>4 DEF Done

\* The same for a thread that leaves the rows alone, keeps at most what it had
\* loaded, and goes where nothing is asked of it.
LEMMA DoneQuiet ==
  ASSUME Shape, Shape', Done, [Next]_vars, NEW t \in Threads, Alone(t),
         UNCHANGED <<paid>>,
         \A o \in Orders : view'[t][o] = "paid" => view[t][o] = "paid" \/ paid[o] > 0,
         pc'[t] \notin {"serve", "fail", "refund", "return", "mark"},
         \A e \in Events : result'[e] \in {"ok", "duplicate"} =>
           \/ result[e] \in {"ok", "duplicate"}
           \/ Target[e] \in Orders /\ paid[Target[e]] > 0
  PROVE  Done'
  <1>1. PaidAt(t)'
    BY DEF Done, PaidInFlight, PaidAt
  <1> QED
    BY <1>1, DoneAlone

\* Every step keeps events that are closed as done tied to a paid order.
LEMMA DoneStep == Shape /\ Shape' /\ Money /\ Done /\ [Next]_vars => Done'
  <1> SUFFICES ASSUME Shape, Shape', Money, Done, [Next]_vars PROVE Done'
    OBVIOUS
  <1> USE BillingAssumption
  <1> USE DEF orderRows, locals, bounds
  <1>1. ASSUME NEW t \in Threads, NEW e \in Events,
               Receive(t, e) \/ TonReceive(t, e) \/ Reclaim(t, e)
        PROVE  Done'
    <2>1. /\ Alone(t) /\ UNCHANGED <<paid>> /\ pc'[t] = "load" /\ view' = view
          /\ \A d \in Events : result'[d] \in {result[d], "null", "retrying"}
      BY <1>1 DEF Receive, TonReceive, Reclaim, Claim, TakeUp, Goto, Alone, Shape, TypeOK
    <2> QED
      BY <2>1, DoneQuiet
  <1>2. ASSUME NEW t \in Threads, TonScan(t) \/ TonDone(t) \/ ExpireScan(t) PROVE Done'
    <2>1. /\ Alone(t) /\ UNCHANGED <<paid, result>>
          /\ pc'[t] \in {"scan", "idle", "expire"}
          /\ \A o \in Orders : view'[t][o] # "paid"
      <3>1. /\ \A o \in Orders : view'[t][o] # "paid"
            /\ \A x \in Threads : x # t => view'[x] = view[x]
        <4>1. CASE TonScan(t)
          BY <4>1 DEF TonScan, Shape, TypeOK
        <4>2. CASE TonDone(t)
          BY <4>2 DEF TonDone, Nothing, Shape, TypeOK
        <4>3. CASE ExpireScan(t)
          <5>1. PICK old \in SUBSET {o \in Orders : status[o] = "pending"} :
                  view' = [view EXCEPT ![t] =
                             [o \in Orders |-> IF o \in old THEN "pending" ELSE "unread"]]
            BY <4>3 DEF ExpireScan
          <5> QED
            BY <5>1 DEF Shape, TypeOK
        <4> QED
          BY <1>2, <4>1, <4>2, <4>3
      <3> QED
        BY <1>2, <3>1 DEF TonScan, TonDone, ExpireScan, Goto, Alone, Shape, TypeOK
    <2> QED
      BY <2>1, DoneQuiet
  <1>3. ASSUME NEW t \in Threads, Load(t) PROVE Done'
    <2> DEFINE seen == IF view[t][ord[t]] \in Status THEN view[t][ord[t]] ELSE status[ord[t]]
               v == Verdict(evt[t], seen)
    <2>1. /\ ord[t] \in Orders /\ evt[t] \in Events
          /\ UNCHANGED <<paid, result, ord, evt>>
          /\ pc'[t] = v.to /\ out'[t] = v.as
          /\ view' = [view EXCEPT ![t][ord[t]] = seen]
      BY <1>3, SMTT(30) DEF Load, Goto, Shape, TypeOK, HandlerOrder
    <2>2. seen = "paid" => paid[ord[t]] > 0
      BY <2>1 DEF Money, PaidIsHonoured, Done, PaidInFlight, PaidAt
    <2>3. /\ v.to \in {"mark", "refund", "fail", "ready"}
          /\ v.to \in {"fail", "refund"} => v.as \notin {"ok", "duplicate"}
          /\ v.to = "mark" /\ v.as \in {"ok", "duplicate"} => seen = "paid"
      BY <2>1 DEF Verdict
    <2>4. \A o \in Orders : view'[t][o] = "paid" => paid'[o] > 0
      BY <2>1, <2>2 DEF Done, PaidInFlight, PaidAt, Shape, TypeOK
    <2>5. PaidAt(t)'
      BY <2>1, <2>2, <2>3, <2>4 DEF PaidAt
    <2>6. Alone(t)
      BY <1>3 DEF Load, Goto, Alone, Shape, TypeOK
    <2> QED
      BY <2>1, <2>5, <2>6, DoneAlone
  <1>4. ASSUME NEW t \in Threads, LoadUnknown(t) PROVE Done'
    <2>1. /\ Alone(t) /\ UNCHANGED <<paid, result, view>>
          /\ pc'[t] = "mark" /\ out'[t] = "unknown_order"
      BY <1>4 DEF LoadUnknown, Goto, Alone, Shape, TypeOK
    <2>2. PaidAt(t)'
      BY <2>1 DEF PaidAt, Done, PaidInFlight
    <2> QED
      BY <2>1, <2>2, DoneAlone
  <1>5. ASSUME NEW t \in Threads, FailOrder(t) PROVE Done'
    <2>1. /\ Alone(t) /\ UNCHANGED <<paid, result, evt, out>>
          /\ pc[t] = "fail" /\ pc'[t] = "mark" /\ evt[t] \in Events
          /\ \A o \in Orders : view'[t][o] \in {view[t][o], "failed"}
      BY <1>5 DEF FailOrder, Goto, Alone, Shape, TypeOK, HandlerOrder
    <2>2. PaidAt(t)'
      BY <2>1 DEF PaidAt, Done, PaidInFlight
    <2> QED
      BY <2>1, <2>2, DoneAlone
  <1>6. ASSUME NEW t \in Threads, MarkReady(t) \/ ReadTerm(t) PROVE Done'
    <2>1. /\ Alone(t) /\ UNCHANGED <<paid, view>> /\ pc'[t] \in {"grant", "commit"}
          /\ \A e \in Events : result'[e] \in {result[e], "ready_to_fulfil"}
      BY <1>6 DEF MarkReady, ReadTerm, Goto, Alone, Shape, TypeOK
    <2> QED
      BY <2>1, DoneQuiet
  <1>7. ASSUME NEW t \in Threads, CommitGrant(t) PROVE Done'
    <2>1. /\ ord[t] \in Orders /\ UNCHANGED <<result, ord>> /\ pc'[t] = "serve"
          /\ paid' = [paid EXCEPT ![ord[t]] = @ + 1]
          /\ view' = [view EXCEPT ![t][ord[t]] = "paid"]
      BY <1>7 DEF CommitGrant, Goto, Shape, TypeOK, HandlerOrder, Working
    <2>2. \A o \in Orders : paid'[o] > 0 <=> paid[o] > 0 \/ o = ord[t]
      BY <2>1 DEF Shape, TypeOK
    <2>3. \A o \in Orders : view'[t][o] = "paid" => view[t][o] = "paid" \/ o = ord[t]
      BY <2>1 DEF Shape, TypeOK
    <2>4. PaidAt(t)'
      BY <2>1, <2>2, <2>3 DEF PaidAt, Done, PaidInFlight
    <2>5. Alone(t)
      BY <1>7 DEF CommitGrant, Goto, Alone, Shape, TypeOK
    <2> QED
      BY <2>1, <2>4, <2>5, DoneAlone
  <1>8. ASSUME NEW t \in Threads, LoseRace(t) PROVE Done'
    <2>1. UNCHANGED <<status, paid, result>> /\ ord[t] \in Orders /\ paid[ord[t]] > 0
      BY <1>8 DEF LoseRace, Shape, HandlerOrder, Working
    <2>2. CASE t \in Admins
      BY <1>8, <2>1, <2>2, FinishAlone, DoneQuiet DEF LoseRace
    <2>3. CASE t \notin Admins
      <3>1. Alone(t) /\ UNCHANGED <<ord, evt, out>> /\ pc'[t] \in {"mark", "failure"}
        BY <1>8, <2>3 DEF LoseRace, AfterRace, Alone, Shape, TypeOK
      <3>2. view'[t] = [Forgotten(t) EXCEPT ![ord[t]] = status[ord[t]]]
        BY <1>8, <2>3 DEF LoseRace, Shape, TypeOK
      <3>3. \A o \in Orders : view'[t][o] = "paid" => o = ord[t]
        BY <2>1, <3>2 DEF Forgotten
      <3>4. PaidAt(t)'
        BY <2>1, <3>1, <3>3 DEF PaidAt
      <3> QED
        BY <2>1, <3>1, <3>4, DoneAlone
    <2> QED
      BY <2>2, <2>3
  <1>9. ASSUME NEW t \in Threads, Serve(t) PROVE Done'
    <2>1. UNCHANGED <<paid, result>> /\ ord[t] \in Orders /\ paid[ord[t]] > 0
      BY <1>9 DEF Serve, Shape, HandlerOrder, Working, Done, PaidInFlight, PaidAt
    <2>2. CASE t \in Admins
      BY <1>9, <2>1, <2>2, FinishAlone, DoneQuiet DEF Serve
    <2>3. CASE t \notin Admins
      <3>1. Alone(t) /\ UNCHANGED <<ord, view>> /\ pc'[t] = "mark"
        BY <1>9, <2>3 DEF Serve, Alone, Shape, TypeOK
      <3>2. PaidAt(t)'
        BY <2>1, <3>1 DEF PaidAt, Done, PaidInFlight
      <3> QED
        BY <2>1, <3>1, <3>2, DoneAlone
    <2> QED
      BY <2>2, <2>3
  <1>10. ASSUME NEW t \in Threads, ReadRefund(t) PROVE Done'
    <2>1. /\ Alone(t) /\ UNCHANGED <<paid, result, view, evt, out>>
          /\ pc[t] = "refund" /\ pc'[t] = "return"
      BY <1>10 DEF ReadRefund, Goto, Alone, Shape, TypeOK
    <2>2. PaidAt(t)'
      BY <2>1 DEF PaidAt, Done, PaidInFlight
    <2> QED
      BY <2>1, <2>2, DoneAlone
  <1>11. ASSUME NEW t \in Threads, CommitRefund(t) PROVE Done'
    <2>1. UNCHANGED <<paid, result>> /\ ord[t] \in Orders
      BY <1>11 DEF CommitRefund, Shape, HandlerOrder, Working
    <2>2. CASE t \in Admins
      BY <1>11, <2>1, <2>2, FinishAlone, DoneQuiet DEF CommitRefund
    <2>3. CASE t \notin Admins
      <3>1. /\ Alone(t) /\ UNCHANGED <<evt, out>>
            /\ pc[t] = "return" /\ pc'[t] = "mark" /\ evt[t] \in Events
            /\ \A o \in Orders : view'[t][o] \in {view[t][o], "refunded"}
        BY <1>11, <2>3 DEF CommitRefund, Alone, Shape, TypeOK, HandlerOrder, Working
      <3>2. PaidAt(t)'
        BY <2>1, <3>1 DEF PaidAt, Done, PaidInFlight
      <3> QED
        BY <2>1, <3>1, <3>2, DoneAlone
    <2> QED
      BY <2>2, <2>3
  <1>12. ASSUME NEW t \in Threads, MarkResult(t) PROVE Done'
    <2>1. /\ Finish(t) /\ CloseSession(t) /\ UNCHANGED <<paid>> /\ pc[t] = "mark"
          /\ evt[t] \in Events /\ ord[t] = Target[evt[t]]
          /\ result' = [result EXCEPT ![evt[t]] = out[t]]
      BY <1>12 DEF MarkResult, Shape, HandlerOrder
    <2>2. out[t] \in {"ok", "duplicate"} => Target[evt[t]] \in Orders /\ paid[Target[evt[t]]] > 0
      BY <2>1 DEF Done, PaidInFlight, PaidAt
    <2>3. \A e \in Events : result'[e] \in {"ok", "duplicate"} =>
           \/ result[e] \in {"ok", "duplicate"}
           \/ Target[e] \in Orders /\ paid[Target[e]] > 0
      BY <2>1, <2>2 DEF Shape, TypeOK
    <2> QED
      BY <2>1, <2>3, FinishAlone, DoneQuiet
  <1>13. ASSUME NEW t \in Threads, MarkFailure(t) PROVE Done'
    <2>1. /\ Finish(t) /\ CloseSession(t) /\ UNCHANGED <<paid>>
          /\ \A e \in Events : result'[e] \in {result[e], "error_after_checks", "error"}
      BY <1>13 DEF MarkFailure, Shape, TypeOK
    <2> QED
      BY <2>1, FinishAlone, DoneQuiet
  <1>14. ASSUME NEW t \in Threads, Fault(t) PROVE Done'
    <2>1. /\ UNCHANGED <<paid, result>> /\ view' = [view EXCEPT ![t] = Forgotten(t)]
          /\ \A o \in Orders : view'[t][o] \in {"unread", "listed"}
      BY <1>14 DEF Fault, Forgotten, Shape, TypeOK
    <2>2. Alone(t) /\ pc'[t] \in {"scan", "idle", "failure"}
      <3>1. CASE t \in Admins
        BY <1>14, <2>1, <3>1, FinishAlone DEF Fault
      <3>2. CASE t \notin Admins
        BY <1>14, <3>2 DEF Fault, Alone, Shape, TypeOK
      <3> QED
        BY <3>1, <3>2
    <2> QED
      BY <2>1, <2>2, DoneQuiet
  <1>15. CASE Crash
    BY <1>15 DEF Crash, Nothing, Done, DoneMeansHonoured, PaidInFlight, PaidAt
  <1>16. ASSUME NEW t \in Threads, NEW o \in Orders, AdminFulfil(t, o) \/ AdminRefund(t, o)
         PROVE  Done'
    <2>1. /\ Alone(t) /\ UNCHANGED <<paid, result, status>>
          /\ pc'[t] \in {"grant", "refund"} /\ evt'[t] = NoEvent
          /\ view' = [view EXCEPT ![t][o] = status[o]]
      BY <1>16 DEF AdminFulfil, AdminRefund, TakeUp, Goto, Alone, Shape, TypeOK
    <2>2. \A x \in Orders : view'[t][x] = "paid" => paid[x] > 0
      BY <2>1 DEF Done, PaidInFlight, PaidAt, Money, PaidIsHonoured, Shape, TypeOK
    <2>3. PaidAt(t)'
      BY <2>1, <2>2 DEF PaidAt
    <2> QED
      BY <2>1, <2>3, DoneAlone
  <1>17. ASSUME NEW t \in Threads, ExpireCommit(t) PROVE Done'
    <2>1. Finish(t) /\ CloseSession(t) /\ UNCHANGED <<paid, result>>
      BY <1>17 DEF ExpireCommit
    <2> QED
      BY <2>1, FinishAlone, DoneQuiet
  <1>18. CASE UNCHANGED vars
    BY <1>18 DEF vars, Done, DoneMeansHonoured, PaidInFlight, PaidAt
  <1> QED
    BY <1>1, <1>2, <1>3, <1>4, <1>5, <1>6, <1>7, <1>8, <1>9, <1>10, <1>11, <1>12, <1>13,
       <1>14, <1>15, <1>16, <1>17, <1>18
    DEF Next, Handle

\* No event is closed and no session shows a paid order at the start.
LEMMA DoneInit == Init => Done
  BY DEF Init, Done, DoneMeansHonoured, PaidInFlight, PaidAt, Nothing

\* A payment is never written off as processed while its buyer got nothing.
THEOREM DoneCorrect == Spec => []DoneMeansHonoured
  <1>1. Init => Shape /\ Money /\ Done
    BY ShapeInit, MoneyInit, DoneInit
  <1>2. Shape /\ Money /\ Done /\ [Next]_vars => (Shape /\ Money /\ Done)'
    BY ShapeStep, MoneyStep, DoneStep
  <1>3. Done => DoneMeansHonoured
    BY DEF Done
  <1> QED
    BY <1>1, <1>2, <1>3, PTL DEF Spec
--------------------------------------------------------------------------------
(* The work after a grant                                                  *)

Served == ServedOnce /\ ServeInFlight

\* Only the commit of a grant sends a thread to the work after it.
LEMMA ServeQuiet ==
  ASSUME Shape, [Next]_vars,
         \A t \in Threads : ~CommitGrant(t) /\ ~Serve(t)
  PROVE  /\ served' = served
         /\ \A x \in Threads : pc'[x] = "serve" => pc[x] = "serve" /\ ord'[x] = ord[x]
  <1> USE DEF orderRows, locals, bounds
  <1> DEFINE Quiet == /\ served' = served
                      /\ \A x \in Threads :
                           pc'[x] = "serve" => pc[x] = "serve" /\ ord'[x] = ord[x]
  <1>1. ASSUME NEW t \in Threads, NEW e \in Events,
               Receive(t, e) \/ TonReceive(t, e) \/ Reclaim(t, e)
        PROVE  Quiet
    BY <1>1 DEF Receive, TonReceive, Reclaim, Claim, TakeUp, Goto, Shape, TypeOK
  <1>2. ASSUME NEW t \in Threads,
               \/ TonScan(t) \/ TonDone(t) \/ ExpireScan(t) \/ LoadUnknown(t)
               \/ FailOrder(t) \/ MarkReady(t) \/ ReadTerm(t) \/ ReadRefund(t)
        PROVE  Quiet
    BY <1>2 DEF TonScan, TonDone, ExpireScan, LoadUnknown, FailOrder, MarkReady, ReadTerm,
                ReadRefund, Goto, Shape, TypeOK
  <1>3. ASSUME NEW t \in Threads, Load(t) PROVE Quiet
    <2>1. evt[t] \in Events
      BY <1>3 DEF Load, Goto, Shape, HandlerOrder
    <2> QED
      BY <1>3, <2>1, VerdictRange DEF Load, Goto, Shape, TypeOK
  <1>4. ASSUME NEW t \in Threads, LoseRace(t) PROVE Quiet
    BY <1>4 DEF LoseRace, AfterRace, Finish, Shape, TypeOK
  <1>5. ASSUME NEW t \in Threads,
               CommitRefund(t) \/ MarkResult(t) \/ MarkFailure(t) \/ ExpireCommit(t) \/ Fault(t)
        PROVE  Quiet
    BY <1>5 DEF CommitRefund, MarkResult, MarkFailure, ExpireCommit, Fault, Finish,
                Shape, TypeOK
  <1>6. ASSUME NEW t \in Threads, NEW o \in Orders, AdminFulfil(t, o) \/ AdminRefund(t, o)
        PROVE  Quiet
    BY <1>6 DEF AdminFulfil, AdminRefund, TakeUp, Goto, Shape, TypeOK
  <1>7. CASE Crash
    BY <1>7 DEF Crash
  <1>8. CASE UNCHANGED vars
    BY <1>8 DEF vars
  <1> QED
    BY <1>1, <1>2, <1>3, <1>4, <1>5, <1>6, <1>7, <1>8 DEF Next, Handle

\* The number of an order's payments never falls.
LEMMA PaidGrows ==
  ASSUME Shape, [Next]_vars, NEW o \in Orders
  PROVE  paid'[o] >= paid[o]
  <1>1. ASSUME NEW t \in Threads, CommitGrant(t) PROVE paid'[o] >= paid[o]
    BY <1>1 DEF CommitGrant, Shape, TypeOK
  <1>2. ASSUME ~(\E t \in Threads : CommitGrant(t)) PROVE paid' = paid
    BY <1>2
    DEF Next, Handle, vars, orderRows, Receive, TonReceive, Reclaim, Claim, TonScan,
        TonDone, Load, LoadUnknown, FailOrder, MarkReady, ReadTerm, LoseRace, Serve,
        ReadRefund, CommitRefund, MarkResult, MarkFailure, Fault, Crash, AdminFulfil,
        AdminRefund, ExpireScan, ExpireCommit
  <1> QED
    BY <1>1, <1>2 DEF Shape, TypeOK

\* A thread that begins the work after a grant is the first and only one: no other
\* thread was past a grant of the same order, for the order had no payment.
LEMMA ServedStep == Shape /\ Done /\ Served /\ [Next]_vars => Served'
  <1> SUFFICES ASSUME Shape, Done, Served, [Next]_vars PROVE Served'
    OBVIOUS
  <1> USE DEF Served, ServedOnce, ServeInFlight
  <1>1. ASSUME NEW t \in Threads, CommitGrant(t) PROVE Served'
    <2> DEFINE o == ord[t]
    <2>1. /\ o \in Orders /\ paid[o] = 0 /\ served' = served /\ ord' = ord
          /\ pc' = [pc EXCEPT ![t] = "serve"] /\ paid' = [paid EXCEPT ![o] = @ + 1]
      BY <1>1 DEF CommitGrant, Goto, Shape, HandlerOrder, Working
    <2>2. \A x \in Threads : pc[x] = "serve" => ord[x] # o
      BY <2>1 DEF Done, PaidInFlight, PaidAt
    <2>3. served[o] = 0
      BY <2>1 DEF Shape, TypeOK
    <2>4. ServedOnce'
      BY <2>1, <2>3 DEF Shape, TypeOK
    <2>5. ServeInFlight'
      BY <2>1, <2>2, <2>3 DEF Shape, TypeOK
    <2> QED
      BY <2>4, <2>5
  <1>2. ASSUME NEW t \in Threads, Serve(t) PROVE Served'
    <2> DEFINE o == ord[t]
    <2>1. /\ o \in Orders /\ paid[o] > 0 /\ paid' = paid /\ served[o] = 0 /\ pc[t] = "serve"
          /\ served' = [served EXCEPT ![o] = @ + 1]
      BY <1>2 DEF Serve, Shape, HandlerOrder, Working, Done, PaidInFlight, PaidAt
    <2>2. /\ pc'[t] # "serve"
          /\ \A x \in Threads : x # t => pc'[x] = pc[x] /\ ord'[x] = ord[x]
      BY <1>2 DEF Serve, Finish, locals, Shape, TypeOK
    <2>3. ServedOnce'
      BY <2>1 DEF Shape, TypeOK
    <2>4. \A x \in Threads : pc'[x] = "serve" =>
            /\ pc[x] = "serve" /\ ord'[x] = ord[x]
            /\ ord[x] \in Orders /\ ord[x] # o
      BY <2>1, <2>2 DEF Shape, HandlerOrder, Working
    <2>5. \A y \in Orders : y # o => served'[y] = served[y]
      BY <2>1 DEF Shape, TypeOK
    <2>6. ServeInFlight'
      BY <2>4, <2>5
    <2> QED
      BY <2>3, <2>6
  <1>3. ASSUME \A t \in Threads : ~CommitGrant(t) /\ ~Serve(t) PROVE Served'
    <2>1. /\ served' = served
          /\ \A x \in Threads : pc'[x] = "serve" => pc[x] = "serve" /\ ord'[x] = ord[x]
      BY <1>3, ServeQuiet
    <2>2. \A o \in Orders : paid'[o] >= paid[o]
      BY PaidGrows
    <2>3. \A o \in Orders : served[o] \in Nat /\ paid[o] \in Nat /\ paid'[o] \in Nat
      BY ShapeStep DEF Shape, TypeOK
    <2>4. ServedOnce'
      BY <2>1, <2>2, <2>3
    <2>5. ServeInFlight'
      BY <2>1
    <2> QED
      BY <2>4, <2>5
  <1> QED
    BY <1>1, <1>2, <1>3

\* Nothing is served at the start.
LEMMA ServedInit == Init => Served
  BY DEF Init, Served, ServedOnce, ServeInFlight

\* The traffic reset, the keys and the inviter's bonus of a grant run at most once.
THEOREM ServedCorrect == Spec => []ServedOnce
  <1>1. Init => Shape /\ Money /\ Done /\ Served
    BY ShapeInit, MoneyInit, DoneInit, ServedInit
  <1>2. Shape /\ Money /\ Done /\ Served /\ [Next]_vars => (Shape /\ Money /\ Done /\ Served)'
    BY ShapeStep, MoneyStep, DoneStep, ServedStep
  <1>3. Served => ServedOnce
    BY DEF Served
  <1> QED
    BY <1>1, <1>2, <1>3, PTL DEF Spec
--------------------------------------------------------------------------------
(* The time accounts hold                                                  *)

\* The orders that bought time for account u.
Bought(u) == {o \in Orders : Owner[o] = u /\ paid[o] > 0}

Term == NoMintedTime /\ TermInFlight

\* What an account's orders bought never shrinks.
LEMMA BoughtGrows ==
  ASSUME Shape, [Next]_vars, NEW u
  PROVE  /\ Cardinality(Bought(u)) \in Nat
         /\ Cardinality(Bought(u)') \in Nat
         /\ Cardinality(Bought(u)) <= Cardinality(Bought(u)')
  <1>1. IsFiniteSet(Bought(u)) /\ IsFiniteSet(Bought(u)')
    BY FS_Subset, BillingAssumption DEF Bought
  <1>2. Bought(u) \subseteq Bought(u)'
    BY PaidStays DEF Bought
  <1> QED
    BY <1>1, <1>2, FS_Subset, FS_CardinalityType

\* A payment of an order that had none is one more.
LEMMA BoughtMore ==
  ASSUME Shape, NEW o \in Orders, paid[o] = 0, paid' = [paid EXCEPT ![o] = @ + 1]
  PROVE  /\ Cardinality(Bought(Owner[o])) \in Nat
         /\ Cardinality(Bought(Owner[o])') = Cardinality(Bought(Owner[o])) + 1
  <1> DEFINE B == Bought(Owner[o])
  <1>1. IsFiniteSet(B)
    BY FS_Subset, BillingAssumption DEF Bought
  <1>2. o \notin B /\ B' = B \union {o}
    BY DEF Bought, Shape, TypeOK
  <1> HIDE DEF B
  <1>3. Cardinality(B \union {o}) = Cardinality(B) + 1
    BY <1>1, <1>2, FS_AddElement
  <1>4. Cardinality(B) \in Nat
    BY <1>1, FS_CardinalityType
  <1> QED
    BY <1>2, <1>3, <1>4 DEF B

\* Only fulfil and refund write the time of an account, and a thread on its way to
\* their commit remembers the time it read.
LEMMA TermQuiet ==
  ASSUME Shape, [Next]_vars,
         \A t \in Threads :
           ~CommitGrant(t) /\ ~CommitRefund(t) /\ ~ReadTerm(t) /\ ~ReadRefund(t)
  PROVE  /\ term' = term
         /\ \A x \in Threads : pc'[x] \in {"commit", "return"} =>
              /\ pc[x] \in {"commit", "return"}
              /\ ord'[x] = ord[x] /\ base'[x] = base[x]
  <1> USE DEF orderRows, locals, bounds
  <1> DEFINE Quiet == /\ term' = term
                      /\ \A x \in Threads : pc'[x] \in {"commit", "return"} =>
                           /\ pc[x] \in {"commit", "return"}
                           /\ ord'[x] = ord[x] /\ base'[x] = base[x]
  <1>1. ASSUME NEW t \in Threads, NEW e \in Events,
               Receive(t, e) \/ TonReceive(t, e) \/ Reclaim(t, e)
        PROVE  Quiet
    BY <1>1 DEF Receive, TonReceive, Reclaim, Claim, TakeUp, Goto, Shape, TypeOK
  <1>2. ASSUME NEW t \in Threads,
               \/ TonScan(t) \/ TonDone(t) \/ ExpireScan(t) \/ LoadUnknown(t)
               \/ FailOrder(t) \/ MarkReady(t)
        PROVE  Quiet
    BY <1>2 DEF TonScan, TonDone, ExpireScan, LoadUnknown, FailOrder, MarkReady,
                Goto, Shape, TypeOK
  <1>3. ASSUME NEW t \in Threads, Load(t) PROVE Quiet
    <2>1. evt[t] \in Events
      BY <1>3 DEF Load, Goto, Shape, HandlerOrder
    <2> QED
      BY <1>3, <2>1, VerdictRange DEF Load, Goto, Shape, TypeOK
  <1>4. ASSUME NEW t \in Threads, LoseRace(t) PROVE Quiet
    BY <1>4 DEF LoseRace, AfterRace, Finish, Shape, TypeOK
  <1>5. ASSUME NEW t \in Threads,
               Serve(t) \/ MarkResult(t) \/ MarkFailure(t) \/ ExpireCommit(t) \/ Fault(t)
        PROVE  Quiet
    BY <1>5 DEF Serve, MarkResult, MarkFailure, ExpireCommit, Fault, Finish, Shape, TypeOK
  <1>6. ASSUME NEW t \in Threads, NEW o \in Orders, AdminFulfil(t, o) \/ AdminRefund(t, o)
        PROVE  Quiet
    BY <1>6 DEF AdminFulfil, AdminRefund, TakeUp, Goto, Shape, TypeOK
  <1>7. CASE Crash
    BY <1>7 DEF Crash
  <1>8. CASE UNCHANGED vars
    BY <1>8 DEF vars
  <1> QED
    BY <1>1, <1>2, <1>3, <1>4, <1>5, <1>6, <1>7, <1>8 DEF Next, Handle

\* A thread that writes an account's time adds at most one unit to a time that was
\* bought, and then its order has just been paid.
LEMMA TermStep == Shape /\ Shape' /\ Term /\ [Next]_vars => Term'
  <1> SUFFICES ASSUME Shape, Shape', Term, [Next]_vars PROVE Term'
    OBVIOUS
  <1>1. /\ \A u \in Users : term[u] \in Nat /\ term[u] <= Cardinality(Bought(u))
        /\ \A x \in Threads : pc[x] \in {"commit", "return"} =>
             /\ ord[x] \in Orders /\ Owner[ord[x]] \in Users /\ base[x] \in Nat
             /\ base[x] <= Cardinality(Bought(Owner[ord[x]]))
    <2>1. \A x \in Threads : pc[x] \in {"commit", "return"} =>
            /\ ord[x] \in Orders /\ Owner[ord[x]] \in Users /\ base[x] \in Nat
      BY BillingAssumption DEF Shape, TypeOK, HandlerOrder, Working
    <2> QED
      BY <2>1 DEF Term, NoMintedTime, TermInFlight, Bought, Shape, TypeOK
  <1>2. \A u \in Users : /\ Cardinality(Bought(u)) \in Nat
                         /\ Cardinality(Bought(u)') \in Nat
                         /\ Cardinality(Bought(u)) <= Cardinality(Bought(u)')
    BY BoughtGrows
  <1>3. ASSUME \A u \in Users : term'[u] <= Cardinality(Bought(u)'),
               \A x \in Threads, u \in Users :
                 pc'[x] \in {"commit", "return"} /\ u = Owner[ord'[x]] =>
                   base'[x] <= Cardinality(Bought(u)')
        PROVE  Term'
    <2>1. \A x \in Threads : pc'[x] \in {"commit", "return"} => Owner[ord'[x]] \in Users
      BY BillingAssumption DEF Shape, HandlerOrder, Working
    <2> QED
      BY <1>3, <2>1 DEF Term, NoMintedTime, TermInFlight, Bought
  <1>4. ASSUME NEW t \in Threads, CommitGrant(t) PROVE Term'
    <2> DEFINE o == ord[t]
               u == Owner[o]
    <2>1. /\ o \in Orders /\ u \in Users /\ base[t] \in Nat
          /\ base[t] <= Cardinality(Bought(u))
      BY <1>1, <1>4 DEF CommitGrant, Goto
    <2>2. /\ paid[o] = 0 /\ paid' = [paid EXCEPT ![o] = @ + 1]
          /\ term' = [term EXCEPT ![u] = base[t] + 1]
          /\ pc' = [pc EXCEPT ![t] = "serve"] /\ UNCHANGED <<ord, base>>
      BY <1>4 DEF CommitGrant, Goto
    <2>3. Cardinality(Bought(u)') = Cardinality(Bought(u)) + 1
      BY <2>1, <2>2, BoughtMore
    <2>4. ASSUME NEW w \in Users PROVE term'[w] <= Cardinality(Bought(w)')
      BY <1>1, <1>2, <2>1, <2>2, <2>3 DEF Shape, TypeOK
    <2>5. ASSUME NEW x \in Threads, pc'[x] \in {"commit", "return"},
                 NEW w \in Users, w = Owner[ord'[x]]
          PROVE  base'[x] <= Cardinality(Bought(w)')
      <3>1. pc[x] \in {"commit", "return"} /\ ord'[x] = ord[x] /\ base'[x] = base[x]
        BY <2>2, <2>5 DEF Shape, TypeOK
      <3> QED
        BY <1>1, <1>2, <2>5, <3>1
    <2> QED
      BY <1>3, <2>4, <2>5
  <1>5. ASSUME NEW t \in Threads, ReadTerm(t) \/ ReadRefund(t) PROVE Term'
    <2>1. ord[t] \in Orders /\ Owner[ord[t]] \in Users
      BY <1>5, BillingAssumption DEF ReadTerm, ReadRefund, Goto, Shape, HandlerOrder, Working
    <2>2. /\ term' = term /\ ord' = ord
          /\ base' = [base EXCEPT ![t] = term[Owner[ord[t]]]]
          /\ \A x \in Threads : x # t => pc'[x] = pc[x]
      BY <1>5 DEF ReadTerm, ReadRefund, Goto, orderRows, Shape, TypeOK
    <2>3. ASSUME NEW x \in Threads, pc'[x] \in {"commit", "return"},
                 NEW w \in Users, w = Owner[ord'[x]]
          PROVE  base'[x] <= Cardinality(Bought(w)')
      <3>1. CASE x = t
        <4>1. base'[x] = term[Owner[ord[x]]] /\ ord'[x] = ord[x]
          BY <2>2, <3>1 DEF Shape, TypeOK
        <4> QED
          BY <1>1, <1>2, <2>1, <2>3, <3>1, <4>1
      <3>2. CASE x # t
        <4>1. /\ pc[x] \in {"commit", "return"} /\ ord'[x] = ord[x] /\ base'[x] = base[x]
          BY <2>2, <2>3, <3>2 DEF Shape, TypeOK
        <4> QED
          BY <1>1, <1>2, <2>3, <4>1
      <3> QED
        BY <3>1, <3>2
    <2>4. ASSUME NEW w \in Users PROVE term'[w] <= Cardinality(Bought(w)')
      BY <1>1, <1>2, <2>2
    <2> QED
      BY <1>3, <2>3, <2>4
  <1>6. ASSUME NEW t \in Threads, CommitRefund(t) PROVE Term'
    <2>1. /\ ord[t] \in Orders /\ Owner[ord[t]] \in Users /\ base[t] \in Nat
          /\ base[t] <= Cardinality(Bought(Owner[ord[t]]))
      BY <1>1, <1>6 DEF CommitRefund
    <2>2. /\ \A x \in Threads : x # t => pc'[x] = pc[x] /\ ord'[x] = ord[x] /\ base'[x] = base[x]
          /\ pc'[t] \notin {"commit", "return"}
      BY <1>6 DEF CommitRefund, Finish, Shape, TypeOK
    <2>3. ASSUME NEW w \in Users PROVE term'[w] <= Cardinality(Bought(w)')
      <3>1. \/ term'[w] = term[w]
            \/ w = Owner[ord[t]] /\ base[t] > 0 /\ term'[w] = base[t] - 1
        BY <1>6, <2>1 DEF CommitRefund, Shape, TypeOK
      <3> QED
        BY <1>1, <1>2, <2>1, <3>1
    <2>4. ASSUME NEW x \in Threads, pc'[x] \in {"commit", "return"},
                 NEW w \in Users, w = Owner[ord'[x]]
          PROVE  base'[x] <= Cardinality(Bought(w)')
      <3>1. pc[x] \in {"commit", "return"} /\ ord'[x] = ord[x] /\ base'[x] = base[x]
        BY <2>2, <2>4
      <3> QED
        BY <1>1, <1>2, <2>4, <3>1
    <2> QED
      BY <1>3, <2>3, <2>4
  <1>7. ASSUME \A t \in Threads :
                 ~CommitGrant(t) /\ ~CommitRefund(t) /\ ~ReadTerm(t) /\ ~ReadRefund(t)
        PROVE  Term'
    <2>1. /\ term' = term
          /\ \A x \in Threads : pc'[x] \in {"commit", "return"} =>
               /\ pc[x] \in {"commit", "return"}
               /\ ord'[x] = ord[x] /\ base'[x] = base[x]
      BY <1>7, TermQuiet
    <2>2. ASSUME NEW w \in Users PROVE term'[w] <= Cardinality(Bought(w)')
      BY <1>1, <1>2, <2>1
    <2>3. ASSUME NEW x \in Threads, pc'[x] \in {"commit", "return"},
                 NEW w \in Users, w = Owner[ord'[x]]
          PROVE  base'[x] <= Cardinality(Bought(w)')
      <3>1. pc[x] \in {"commit", "return"} /\ ord'[x] = ord[x] /\ base'[x] = base[x]
        BY <2>1, <2>3
      <3> QED
        BY <1>1, <1>2, <2>3, <3>1
    <2> QED
      BY <1>3, <2>2, <2>3
  <1> QED
    BY <1>4, <1>5, <1>6, <1>7

\* No account holds time, and no thread remembers any, at the start.
LEMMA TermInit == Init => Term
  <1> SUFFICES ASSUME Init PROVE Term
    OBVIOUS
  <1>1. \A u : Cardinality(Bought(u)) \in Nat
    BY FS_Subset, FS_CardinalityType, BillingAssumption DEF Bought
  <1> QED
    BY <1>1 DEF Init, Term, NoMintedTime, TermInFlight, Bought

\* No interleaving of grants and refunds leaves an account more time than its paid
\* orders bought.
THEOREM TermCorrect == Spec => []NoMintedTime
  <1>1. Init => Shape /\ Term
    BY ShapeInit, TermInit
  <1>2. Shape /\ Term /\ [Next]_vars => (Shape /\ Term)'
    BY ShapeStep, TermStep
  <1>3. Term => NoMintedTime
    BY DEF Term
  <1> QED
    BY <1>1, <1>2, <1>3, PTL DEF Spec

--------------------------------------------------------------------------------
(* What is behind a grant                                                  *)

Backed == GrantIsBacked /\ GrantInFlight

\* A claimed event stays claimed.
LEMMA ClaimStays ==
  ASSUME Shape, [Next]_vars, NEW e \in Events, result[e] # "absent"
  PROVE  result'[e] # "absent"
  <1> USE DEF orderRows, locals, bounds
  <1>1. ASSUME NEW t \in Threads, NEW d \in Events,
               Receive(t, d) \/ TonReceive(t, d) \/ Reclaim(t, d)
        PROVE  result'[e] # "absent"
    BY <1>1 DEF Receive, TonReceive, Reclaim, Claim, Shape, TypeOK
  <1>2. ASSUME NEW t \in Threads, MarkReady(t) \/ MarkFailure(t) PROVE result'[e] # "absent"
    BY <1>2 DEF MarkReady, MarkFailure, Shape, TypeOK
  <1>3. ASSUME NEW t \in Threads, MarkResult(t) PROVE result'[e] # "absent"
    BY <1>3 DEF MarkResult, Shape, TypeOK
  <1>4. ASSUME \A t \in Threads : ~MarkReady(t) /\ ~MarkFailure(t) /\ ~MarkResult(t),
               \A t \in Threads, d \in Events :
                 ~Receive(t, d) /\ ~TonReceive(t, d) /\ ~Reclaim(t, d)
        PROVE  result' = result
    BY <1>4
    DEF Next, Handle, vars, TonScan, TonDone, Load, LoadUnknown, FailOrder, ReadTerm,
        CommitGrant, LoseRace, Serve, ReadRefund, CommitRefund, Fault, Crash, AdminFulfil,
        AdminRefund, ExpireScan, ExpireCommit
  <1> QED
    BY <1>1, <1>2, <1>3, <1>4
\* When thread t moves, it is enough that t itself is right, and that a grant of the
\* step has its cause.
LEMMA BackedAlone ==
  ASSUME Shape, Backed, [Next]_vars, NEW t \in Threads, Alone(t),
         GrantAt(t)', evt'[t] \in Events => result'[evt'[t]] # "absent",
         \A o \in Orders : manual[o] => manual'[o],
         \A o \in Orders : paid'[o] > 0 =>
           \/ paid[o] > 0
           \/ manual'[o]
           \/ \E e \in Events : /\ Kind[e] = "succeeded" /\ Amount[e] = "full"
                               /\ Target[e] = o /\ result[e] # "absent"
  PROVE  Backed'
  <1>1. \A e \in Events : result[e] # "absent" => result'[e] # "absent"
    BY ClaimStays
  <1>2. GrantIsBacked'
    BY <1>1 DEF Backed, GrantIsBacked
  <1>3. ASSUME NEW x \in Threads, x # t
        PROVE  GrantAt(x)' /\ (evt'[x] \in Events => result'[evt'[x]] # "absent")
    BY <1>1, <1>3 DEF Alone, Backed, GrantInFlight, GrantAt
  <1>4. GrantInFlight'
    BY <1>3 DEF GrantInFlight
  <1> QED
    BY <1>2, <1>4 DEF Backed

\* The same for a thread that books nothing and does not come nearer to a grant.
LEMMA BackedQuiet ==
  ASSUME Shape, Backed, [Next]_vars, NEW t \in Threads, Alone(t),
         UNCHANGED <<paid, manual>>, evt'[t] \in {evt[t], NoEvent},
         \/ pc'[t] \notin {"ready", "grant", "commit"}
         \/ evt'[t] = NoEvent
         \/ pc[t] \in {"ready", "grant", "commit"}
  PROVE  Backed'
  <1>1. evt'[t] \in Events => result'[evt'[t]] # "absent"
    BY ClaimStays, BillingAssumption DEF Backed, GrantInFlight
  <1>2. GrantAt(t)'
    BY BillingAssumption DEF Backed, GrantInFlight, GrantAt
  <1> QED
    BY <1>1, <1>2, BackedAlone

\* Every step keeps a cause behind every grant, and behind every thread on its way
\* to one.
LEMMA BackedStep == Shape /\ Backed /\ [Next]_vars => Backed'
  <1> SUFFICES ASSUME Shape, Backed, [Next]_vars PROVE Backed'
    OBVIOUS
  <1> USE BillingAssumption
  <1> USE DEF orderRows, locals, bounds
  <1>1. ASSUME NEW t \in Threads, NEW e \in Events,
               Receive(t, e) \/ TonReceive(t, e) \/ Reclaim(t, e)
        PROVE  Backed'
    <2>1. /\ Alone(t) /\ UNCHANGED <<paid, manual>>
          /\ pc'[t] = "load" /\ evt'[t] = e /\ result'[e] \in {"null", "retrying"}
      BY <1>1 DEF Receive, TonReceive, Reclaim, Claim, TakeUp, Goto, Alone, Shape, TypeOK
    <2>2. GrantAt(t)'
      BY <2>1 DEF GrantAt
    <2> QED
      BY <2>1, <2>2, BackedAlone
  <1>2. ASSUME NEW t \in Threads, Load(t) PROVE Backed'
    <2> DEFINE v == Verdict(evt[t], IF view[t][ord[t]] \in Status THEN view[t][ord[t]]
                                                            ELSE status[ord[t]])
    <2>1. /\ Alone(t) /\ UNCHANGED <<paid, manual, evt, result>>
          /\ evt[t] \in Events /\ pc'[t] = v.to
      BY <1>2 DEF Load, Goto, Alone, Shape, TypeOK, HandlerOrder
    <2>2. /\ v.to \in {"mark", "refund", "fail", "ready"}
          /\ v.to = "ready" => Kind[evt[t]] = "succeeded" /\ Amount[evt[t]] = "full"
      BY <2>1 DEF Verdict
    <2>3. GrantAt(t)'
      BY <2>1, <2>2 DEF GrantAt
    <2>4. result'[evt'[t]] # "absent"
      BY <2>1 DEF Backed, GrantInFlight
    <2> QED
      BY <2>1, <2>3, <2>4, BackedAlone
  <1>3. ASSUME NEW t \in Threads, CommitGrant(t) PROVE Backed'
    <2> DEFINE o == ord[t]
    <2>1. /\ Alone(t) /\ UNCHANGED <<evt, result>> /\ pc'[t] = "serve" /\ pc[t] = "commit"
          /\ o \in Orders
          /\ paid' = [paid EXCEPT ![o] = @ + 1]
          /\ manual' = [manual EXCEPT ![o] = @ \/ evt[t] = NoEvent]
      BY <1>3 DEF CommitGrant, Goto, Alone, Shape, TypeOK, HandlerOrder, Working
    <2>2. \A x \in Orders : x # o => paid'[x] = paid[x] /\ manual'[x] = manual[x]
      BY <2>1 DEF Shape, TypeOK
    <2>3. manual'[o] = (manual[o] \/ evt[t] = NoEvent)
      BY <2>1 DEF Shape, TypeOK
    <2>4. \/ manual'[o]
          \/ /\ Kind[evt[t]] = "succeeded" /\ Amount[evt[t]] = "full"
             /\ Target[evt[t]] = o /\ result[evt[t]] # "absent" /\ evt[t] \in Events
      <3>1. CASE evt[t] = NoEvent
        BY <2>3, <3>1
      <3>2. CASE evt[t] \in Events
        BY <2>1, <3>2 DEF Backed, GrantInFlight, GrantAt, Shape, HandlerOrder
      <3> QED
        BY <3>1, <3>2 DEF Shape, TypeOK
    <2>5. GrantAt(t)'
      BY <2>1 DEF GrantAt
    <2>6. evt'[t] \in Events => result'[evt'[t]] # "absent"
      BY <2>1 DEF Backed, GrantInFlight
    <2>7. \A x \in Orders : manual[x] => manual'[x]
      BY <2>2, <2>3
    <2>8. \A x \in Orders : paid'[x] > 0 =>
            \/ paid[x] > 0
            \/ manual'[x]
            \/ \E e \in Events : /\ Kind[e] = "succeeded" /\ Amount[e] = "full"
                                /\ Target[e] = x /\ result[e] # "absent"
      BY <2>2, <2>4
    <2> QED
      BY <2>1, <2>5, <2>6, <2>7, <2>8, BackedAlone
  <1>4. ASSUME NEW t \in Threads,
               \/ TonScan(t) \/ ExpireScan(t) \/ LoadUnknown(t) \/ FailOrder(t)
               \/ MarkReady(t) \/ ReadTerm(t) \/ ReadRefund(t)
        PROVE  Backed'
    <2>1. /\ Alone(t) /\ UNCHANGED <<paid, manual, evt>>
          /\ \/ pc'[t] \notin {"ready", "grant", "commit"}
             \/ pc[t] \in {"ready", "grant", "commit"}
      BY <1>4 DEF TonScan, ExpireScan, LoadUnknown, FailOrder, MarkReady, ReadTerm,
                  ReadRefund, Goto, Alone, Shape, TypeOK
    <2> QED
      BY <2>1, BackedQuiet
  <1>5. ASSUME NEW t \in Threads,
               \/ LoseRace(t) \/ Serve(t) \/ CommitRefund(t) \/ MarkResult(t) \/ MarkFailure(t)
               \/ ExpireCommit(t) \/ Fault(t) \/ TonDone(t)
        PROVE  Backed'
    <2>1. /\ UNCHANGED <<paid, manual>> /\ evt'[t] \in {evt[t], NoEvent}
          /\ pc'[t] \in {"idle", "scan", "mark", "failure"}
      BY <1>5 DEF LoseRace, AfterRace, Serve, CommitRefund, MarkResult, MarkFailure,
                  ExpireCommit, Fault, TonDone, Goto, Finish, Shape, TypeOK
    <2>2. \A x \in Threads : x # t =>
            /\ pc'[x] = pc[x] /\ evt'[x] = evt[x] /\ ord'[x] = ord[x] /\ out'[x] = out[x]
            /\ owed'[x] = owed[x] /\ base'[x] = base[x]
      BY <1>5 DEF LoseRace, Serve, CommitRefund, MarkResult, MarkFailure, ExpireCommit,
                  Fault, TonDone, Goto, Finish, Shape, TypeOK
    <2>3. \A x \in Threads : x # t => view'[x] = view[x]
      BY <1>5 DEF LoseRace, Serve, CommitRefund, MarkResult, MarkFailure, ExpireCommit,
                  Fault, TonDone, CloseSession, Shape, TypeOK
    <2>4. Alone(t)
      BY <2>2, <2>3 DEF Alone
    <2> QED
      BY <2>1, <2>4, BackedQuiet
  <1>6. ASSUME NEW t \in Threads, NEW o \in Orders, AdminFulfil(t, o) \/ AdminRefund(t, o)
        PROVE  Backed'
    <2>1. Alone(t) /\ UNCHANGED <<paid, manual>> /\ evt'[t] = NoEvent
      BY <1>6 DEF AdminFulfil, AdminRefund, TakeUp, Goto, Alone, Shape, TypeOK
    <2> QED
      BY <2>1, BackedQuiet
  <1>7. CASE Crash
    BY <1>7 DEF Crash, Backed, GrantIsBacked, GrantInFlight, GrantAt
  <1>8. CASE UNCHANGED vars
    BY <1>8 DEF vars, Backed, GrantIsBacked, GrantInFlight, GrantAt
  <1> QED
    BY <1>1, <1>2, <1>3, <1>4, <1>5, <1>6, <1>7, <1>8 DEF Next, Handle

\* Nothing is granted, and no thread is at work, at the start.
LEMMA BackedInit == Init => Backed
  BY BillingAssumption DEF Init, Backed, GrantIsBacked, GrantInFlight, GrantAt

\* Behind every grant is a confirmed full sum, or an administrator.
THEOREM BackedCorrect == Spec => []GrantIsBacked
  <1>1. Init => Shape /\ Backed
    BY ShapeInit, BackedInit
  <1>2. Shape /\ Backed /\ [Next]_vars => (Shape /\ Backed)'
    BY ShapeStep, BackedStep
  <1>3. Backed => GrantIsBacked
    BY DEF Backed
  <1> QED
    BY <1>1, <1>2, <1>3, PTL DEF Spec

--------------------------------------------------------------------------------
\* The invariant the runs check is the conjunction of the groups.
THEOREM InvariantCorrect == Spec => []BillingInv
  <1>1. Init => Shape /\ Money /\ Done /\ Served /\ Term /\ Backed
    BY ShapeInit, MoneyInit, DoneInit, ServedInit, TermInit, BackedInit
  <1>2. Shape /\ Money /\ Done /\ Served /\ Term /\ Backed /\ [Next]_vars
          => (Shape /\ Money /\ Done /\ Served /\ Term /\ Backed)'
    BY ShapeStep, MoneyStep, DoneStep, ServedStep, TermStep, BackedStep
  <1>3. Shape /\ Money /\ Done /\ Served /\ Term /\ Backed => BillingInv
    BY DEF BillingInv, Shape, Money, Done, Served, Term, Backed
  <1> QED
    BY <1>1, <1>2, <1>3, PTL DEF Spec

\* An order that reads paid is one whose payment was taken and not given back (fulfil).
THEOREM PaidCorrect == Spec => []PaidIsHonoured
  <1>1. BillingInv => PaidIsHonoured
    BY DEF BillingInv
  <1> QED
    BY <1>1, InvariantCorrect, PTL

\* Money goes back only for an order that was paid (_register_refund).
THEOREM ReturnCorrect == Spec => []ReturnIsBacked
  <1>1. BillingInv => ReturnIsBacked
    BY DEF BillingInv
  <1> QED
    BY <1>1, InvariantCorrect, PTL
================================================================================
