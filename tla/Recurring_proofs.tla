---------------------------- MODULE Recurring_proofs ----------------------------
(***************************************************************************)
(* Theorems about Recurring, for any number of subscriptions, charges and  *)
(* threads, any number of restarts and failures, and a provider that       *)
(* charges, cancels and announces as it likes.                             *)
(*                                                                         *)
(* RecurringInv is proved in groups: the shape of the state, what the      *)
(* announced events stand for, the cancellations, the grants.              *)
(***************************************************************************)
EXTENDS Recurring, SequenceTheorems, WellFoundedInduction, TLAPS

Shape == TypeOK /\ InHand

\* Events are told apart by their name and by what they are about.
LEMMA EventFacts ==
  /\ \A e \in Events : SubOfEvent(e) \in Subs
  /\ \A e \in Events : e[1] = "CONFIRMED" <=> e \in Confirmations
  /\ \A e \in Confirmations : e \in Events /\ e[2] \in Charges /\ e = <<"CONFIRMED", e[2]>>
  /\ \A c \in Charges : <<"CONFIRMED", c>> \in Confirmations
  /\ \A s \in Subs : <<"SUBSCRIPTION_CANCELLED", s>> \in Events \ Confirmations
  /\ \A e \in Events : e[1] = "SUBSCRIPTION_CANCELLED" =>
       SubOfEvent(e) = e[2] /\ e = <<"SUBSCRIPTION_CANCELLED", e[2]>>
  <1> USE RecurringAssumption
  <1> USE DEF Events, StatusEvents, ChargeEvents, Confirmations, SubOfEvent
  <1>1. \A e \in Events : SubOfEvent(e) \in Subs
    OBVIOUS
  <1>2. \A e \in Events : e[1] = "CONFIRMED" <=> e \in Confirmations
    OBVIOUS
  <1>3. \A e \in Confirmations : e \in Events /\ e[2] \in Charges /\ e = <<"CONFIRMED", e[2]>>
    OBVIOUS
  <1>4. \A c \in Charges : <<"CONFIRMED", c>> \in Confirmations
    OBVIOUS
  <1>5. \A s \in Subs : <<"SUBSCRIPTION_CANCELLED", s>> \in Events \ Confirmations
    OBVIOUS
  <1>6. \A e \in Events : e[1] = "SUBSCRIPTION_CANCELLED" =>
          SubOfEvent(e) = e[2] /\ e = <<"SUBSCRIPTION_CANCELLED", e[2]>>
    OBVIOUS
  <1> QED
    BY <1>1, <1>2, <1>3, <1>4, <1>5, <1>6

\* Among the live rows one is the newest, and it is live.
LEMMA NewestIsLive ==
  ASSUME TypeOK, LiveRows # {}
  PROVE  NewestLive \in Subs /\ sub[NewestLive] \in Live
  <1>1. LiveRows \subseteq 1..Len(rows) /\ Len(rows) \in Nat
    BY LenProperties DEF LiveRows, TypeOK
  <1>2. \E i \in LiveRows : \A j \in LiveRows : j <= i
    <2> DEFINE back == {n \in Nat : Len(rows) - n \in LiveRows}
               Less == {p \in Nat \X Nat : p[1] < p[2]}
    <2>1. \A j \in LiveRows : Len(rows) - j \in back
      BY <1>1
    <2>2. back \subseteq Nat /\ back # {}
      BY <2>1
    <2>3. IsWellFoundedOn(Less, Nat)
      BY NatLessThanWellFounded, Zenon DEF OpToRel
    <2> HIDE DEF back, Less
    <2>4. PICK b \in back : \A c \in back : ~(<<c, b>> \in Less)
      BY <2>2, <2>3, WFMin
    <2>5. \A c \in back : b <= c
      <3> SUFFICES ASSUME NEW c \in back PROVE b <= c
        OBVIOUS
      <3>1. b \in Nat /\ c \in Nat
        BY <2>2
      <3>2. ~(<<c, b>> \in Less)
        BY <2>4
      <3>3. <<c, b>> \in Less <=> c < b
        BY <3>1 DEF Less
      <3> QED
        BY <3>1, <3>2, <3>3
    <2>6. Len(rows) - b \in LiveRows
      BY DEF back
    <2>7. ASSUME NEW j \in LiveRows PROVE j <= Len(rows) - b
      BY <1>1, <2>1, <2>2, <2>5
    <2> QED
      BY <2>6, <2>7
  <1> DEFINE i == CHOOSE i \in LiveRows : \A j \in LiveRows : j <= i
  <1>3. i \in LiveRows
    BY <1>2
  <1>4. i \in 1..Len(rows) /\ NewestLive = rows[i] /\ sub[rows[i]] \in Live
    BY <1>1, <1>3 DEF LiveRows, NewestLive
  <1> QED
    BY <1>4, ElementOfSeq DEF TypeOK
--------------------------------------------------------------------------------
(* The shape of the state                                                  *)

\* Thread t moves and every other stays where it is, with what it holds.
Alone(t) ==
  \A x \in Threads : x # t =>
    pc'[x] = pc[x] /\ evt'[x] = evt[x] /\ cur'[x] = cur[x] /\ out'[x] = out[x]

\* Rows are never deleted, nor does an event lose its row.
Kept ==
  /\ \A s \in Subs : sub[s] # "none" => sub'[s] # "none"
  /\ \A e \in Events : result[e] # "absent" => result'[e] # "absent"

\* When t moves and rows are kept, it is enough that t itself holds what it should.
LEMMA InHandAlone ==
  ASSUME Shape, NEW t \in Threads, Alone(t), Kept, HoldsAt(t)'
  PROVE  InHand'
  <1>1. ASSUME NEW x \in Threads, x # t PROVE HoldsAt(x)'
    BY <1>1 DEF Shape, InHand, HoldsAt, Alone, Kept
  <1> QED
    BY <1>1 DEF InHand

\* A thread at rest, or about to mark its event, holds what it should.
LEMMA FinishShape ==
  ASSUME TypeOK, NEW t \in Threads, Finish(t)
  PROVE  /\ pc' \in [Threads -> {"idle"} \union Working \union Calling]
         /\ evt' \in [Threads -> Events \union {NoEvent}]
         /\ cur' \in [Threads -> Subs \union {NoSub}]
         /\ seen' \in [Threads -> Status \union {"none"}]
         /\ out' \in [Threads -> {"null"} \union Closed]
         /\ Alone(t) /\ HoldsAt(t)' /\ pc'[t] = "idle"
  BY DEF TypeOK, Finish, Alone, HoldsAt, Working, Loaded

\* A write of the status leaves the subscription's row where it was.
LEMMA WriteShape ==
  ASSUME TypeOK, NEW t \in Threads, cur[t] \in Subs, sub[cur[t]] # "none",
         NEW s \in Status, WriteStatus(t, s)
  PROVE  /\ sub' \in [Subs -> Status \union {"none"}]
         /\ \A x \in Subs : sub'[x] = "none" <=> sub[x] = "none"
  <1>1. Flushed(t, s) \in Status
    BY DEF Flushed, TypeOK
  <1>2. sub' = [sub EXCEPT ![cur[t]] = Flushed(t, s)]
    BY DEF WriteStatus
  <1>3. "none" \notin Status
    BY DEF Status, Live
  <1> QED
    BY <1>1, <1>2, <1>3 DEF TypeOK

\* The decisions of the panel are among the results and statuses it writes.
LEMMA Decisions ==
  /\ \A c, n, r : Checked(c, n, r) \in Closed
  /\ \A e \in Events : e \notin Confirmations => StatusOf(e[1]) \in Status
  <1>1. \A c, n, r : Checked(c, n, r) \in Closed
    BY DEF Checked, Closed
  <1>2. \A e \in Events : e \notin Confirmations => StatusOf(e[1]) \in Status
    BY DEF Events, StatusEvents, ChargeEvents, Confirmations, StatusOf, Status, Live
  <1> QED
    BY <1>1, <1>2

\* The state has its shape at the start.
LEMMA ShapeInit == Init => Shape
  <1> SUFFICES ASSUME Init PROVE Shape
    OBVIOUS
  <1>1. rows \in Seq(Subs) /\ DOMAIN rows = {}
    BY EmptySeq DEF Init
  <1>2. TypeOK
    BY <1>1 DEF Init, TypeOK
  <1>3. InHand
    BY DEF Init, InHand, HoldsAt, Working, Loaded
  <1> QED
    BY <1>2, <1>3 DEF Shape

\* Every step keeps the shape of the state, and its rows.
LEMMA ShapeStep == Shape /\ [Next]_vars => Shape' /\ Kept
  <1> SUFFICES ASSUME Shape, [Next]_vars PROVE Shape' /\ Kept
    OBVIOUS
  <1> USE RecurringAssumption, NoEventAssumption
  <1> USE DEF Shape, tables, locals, provider, bounds
  <1>1. ASSUME NEW t \in Threads, NEW e \in Events, Receive(t, e) \/ Reclaim(t, e)
        PROVE  Shape' /\ Kept
    <2>1. Kept
      BY <1>1 DEF Receive, Reclaim, Kept, TypeOK
    <2>2. Alone(t) /\ HoldsAt(t)'
      BY <1>1 DEF Receive, Reclaim, Goto, Alone, HoldsAt, TypeOK, Working, Loaded
    <2>3. TypeOK'
      <3>1. /\ \E r \in {"null", "retrying"} : result' = [result EXCEPT ![e] = r]
            /\ pc' = [pc EXCEPT ![t] = "load"]
            /\ evt' = [evt EXCEPT ![t] = e]
            /\ UNCHANGED <<rows, sub, order, grants, cur, seen, out, provider, bounds>>
        BY <1>1 DEF Receive, Reclaim, Goto
      <3>2. result' \in [Events -> {"absent"} \union Stuck \union Closed]
        BY <3>1 DEF TypeOK, Stuck
      <3>3. pc' \in [Threads -> {"idle"} \union Working \union Calling]
        BY <3>1 DEF TypeOK, Working
      <3>4. evt' \in [Threads -> Events \union {NoEvent}]
        BY <3>1 DEF TypeOK
      <3> QED
        BY <3>1, <3>2, <3>3, <3>4 DEF TypeOK
    <2> QED
      BY <2>1, <2>2, <2>3, InHandAlone
  <1>2. ASSUME NEW t \in Threads, Load(t) \/ LoadUnknown(t) PROVE Shape' /\ Kept
    <2>1. Kept
      BY <1>2 DEF Load, LoadUnknown, Kept
    <2>2. evt[t] \in Events /\ result[evt[t]] # "absent" /\ SubOfEvent(evt[t]) \in Subs
      BY <1>2, EventFacts DEF Load, LoadUnknown, Goto, InHand, HoldsAt, Working
    <2>3. Alone(t) /\ HoldsAt(t)'
      BY <1>2, <2>2, EventFacts
      DEF Load, LoadUnknown, Goto, Alone, HoldsAt, TypeOK, Working, Loaded
    <2>4. TypeOK'
      <3>1. pc' \in [Threads -> {"idle"} \union Working \union Calling]
        <4>1. \E to \in {"status", "confirm", "mark"} : pc' = [pc EXCEPT ![t] = to]
          BY <1>2 DEF Load, LoadUnknown, Goto
        <4> QED
          BY <4>1 DEF TypeOK, Working
      <3>2. CASE Load(t)
        BY <2>2, <3>1, <3>2 DEF Load, TypeOK
      <3>3. CASE LoadUnknown(t)
        BY <3>1, <3>3 DEF LoadUnknown, TypeOK, Closed
      <3> QED
        BY <1>2, <3>2, <3>3
    <2> QED
      BY <2>1, <2>3, <2>4, InHandAlone
  <1>3. ASSUME NEW t \in Threads, ApplyStatus(t) PROVE Shape' /\ Kept
    <2> DEFINE s == StatusOf(evt[t][1])
    <2>1. /\ pc[t] = "status" /\ evt[t] \in Events /\ result[evt[t]] # "absent"
          /\ cur[t] \in Subs /\ sub[cur[t]] # "none"
          /\ s \in Status /\ WriteStatus(t, s)
      BY <1>3, Decisions DEF ApplyStatus, Goto, InHand, HoldsAt, Working, Loaded
    <2>2. /\ sub' \in [Subs -> Status \union {"none"}]
          /\ \A x \in Subs : sub'[x] = "none" <=> sub[x] = "none"
      BY <2>1, WriteShape
    <2>3. Kept
      BY <1>3, <2>2 DEF ApplyStatus, Kept
    <2>4. Alone(t) /\ HoldsAt(t)'
      BY <1>3, <2>1 DEF ApplyStatus, Goto, Alone, HoldsAt, TypeOK, Loaded
    <2>5. TypeOK'
      BY <1>3, <2>2 DEF ApplyStatus, Goto, TypeOK, Working, Closed
    <2> QED
      BY <2>3, <2>4, <2>5, InHandAlone
  <1>4. ASSUME NEW t \in Threads, CheckCharge(t) PROVE Shape' /\ Kept
    <2>1. PICK n, r \in BOOLEAN :
            /\ Goto(t, "confirm", IF Checked(evt[t][2], n, r) = "ok" THEN "book" ELSE "mark")
            /\ out' = [out EXCEPT ![t] = Checked(evt[t][2], n, r)]
            /\ UNCHANGED <<tables, evt, cur, seen, provider, bounds>>
      BY <1>4 DEF CheckCharge
    <2>2. Kept
      BY <2>1 DEF Kept
    <2>3. Alone(t) /\ HoldsAt(t)'
      BY <2>1 DEF Goto, Alone, InHand, HoldsAt, TypeOK, Working, Loaded
    <2>4. TypeOK'
      BY <2>1, Decisions DEF Goto, TypeOK, Working
    <2> QED
      BY <2>2, <2>3, <2>4, InHandAlone
  <1>5. ASSUME NEW t \in Threads, BookOrder(t) \/ AlreadyBooked(t) \/ Fulfil(t)
        PROVE  Shape' /\ Kept
    <2>1. Kept
      BY <1>5 DEF BookOrder, AlreadyBooked, Fulfil, Kept
    <2>2. Alone(t) /\ HoldsAt(t)'
      BY <1>5 DEF BookOrder, AlreadyBooked, Fulfil, Goto, Alone, InHand, HoldsAt, TypeOK,
                  Working, Loaded
    <2>3. TypeOK'
      <3>1. /\ pc' \in [Threads -> {"idle"} \union Working \union Calling]
            /\ out' \in [Threads -> {"null"} \union Closed]
        BY <1>5, SMTT(30) DEF BookOrder, AlreadyBooked, Fulfil, Goto, TypeOK, Working, Closed
      <3>2. CASE BookOrder(t)
        BY <3>1, <3>2 DEF BookOrder, TypeOK
      <3>3. CASE AlreadyBooked(t)
        BY <3>1, <3>3 DEF AlreadyBooked, TypeOK
      <3>4. CASE Fulfil(t)
        <4>1. order' \in [Charges -> {"none", "pending", "paid"}]
          BY <3>4 DEF Fulfil, TypeOK
        <4>2. grants' \in [Charges -> Nat]
          <5>1. evt[t] \in Confirmations
            BY <3>4 DEF Fulfil, Goto, InHand, HoldsAt, Loaded
          <5>2. evt[t][2] \in Charges
            BY <5>1, EventFacts
          <5>3. grants' = [grants EXCEPT ![evt[t][2]] = grants[evt[t][2]] + 1]
            BY <3>4 DEF Fulfil
          <5>4. grants \in [Charges -> Nat]
            BY DEF TypeOK
          <5>5. grants[evt[t][2]] + 1 \in Nat
            BY <5>2, <5>4
          <5> QED
            BY <5>3, <5>4, <5>5
        <4> QED
          BY <3>1, <3>4, <4>1, <4>2 DEF Fulfil, TypeOK
      <3> QED
        BY <1>5, <3>2, <3>3, <3>4
    <2> QED
      BY <2>1, <2>2, <2>3, InHandAlone
  <1>6. ASSUME NEW t \in Threads, Activate(t) \/ Dropped(t) PROVE Shape' /\ Kept
    <2>1. /\ pc[t] = "activate" => evt[t] \in Events /\ result[evt[t]] # "absent"
          /\ cur[t] \in Subs /\ sub[cur[t]] # "none"
          /\ WriteStatus(t, "active") \/ WriteStatus(t, "failed")
      BY <1>6 DEF Activate, Dropped, Goto, InHand, HoldsAt, Working, Loaded
    <2>2. /\ sub' \in [Subs -> Status \union {"none"}]
          /\ \A x \in Subs : sub'[x] = "none" <=> sub[x] = "none"
      BY <2>1, WriteShape DEF Status, Live
    <2>3. Kept
      BY <1>6, <2>2 DEF Activate, Dropped, Kept
    <2>4. Alone(t) /\ HoldsAt(t)'
      BY <1>6, <2>1 DEF Activate, Dropped, Goto, Alone, HoldsAt, TypeOK, Working, Loaded
    <2>5. TypeOK'
      <3>1. pc' \in [Threads -> {"idle"} \union Working \union Calling]
        <4>1. \E to \in {"mark", "register"} : pc' = [pc EXCEPT ![t] = to]
          BY <1>6 DEF Activate, Dropped, Goto
        <4> QED
          BY <4>1 DEF TypeOK, Working, Calling
      <3> QED
        BY <1>6, <2>2, <3>1 DEF Activate, Dropped, TypeOK
    <2> QED
      BY <2>3, <2>4, <2>5, InHandAlone
  <1>7. ASSUME NEW t \in Threads, Mark(t) PROVE Shape' /\ Kept
    <2>1. evt[t] \in Events /\ out[t] # "absent" /\ result' = [result EXCEPT ![evt[t]] = out[t]]
      BY <1>7 DEF Mark, InHand, HoldsAt, Working, TypeOK, Closed
    <2>2. Kept
      BY <1>7, <2>1 DEF Mark, Kept, TypeOK
    <2>3. TypeOK'
      BY <1>7, <2>1, FinishShape DEF Mark, TypeOK, Stuck
    <2> QED
      BY <1>7, <2>2, <2>3, FinishShape, InHandAlone DEF Mark
  <1>8. ASSUME NEW t \in Threads, Fault(t) PROVE Shape' /\ Kept
    <2>1. evt[t] \in Events /\ result' = [result EXCEPT ![evt[t]] = "error"]
      BY <1>8 DEF Fault, InHand, HoldsAt
    <2>2. Kept
      BY <1>8, <2>1 DEF Fault, Kept, TypeOK
    <2>3. TypeOK'
      BY <1>8, <2>1, FinishShape DEF Fault, TypeOK, Stuck
    <2> QED
      BY <1>8, <2>2, <2>3, FinishShape, InHandAlone DEF Fault
  <1>9. ASSUME NEW t \in Threads, Create(t) \/ Cancel(t) PROVE Shape' /\ Kept
    <2>1. UNCHANGED <<tables, evt, out, provider, bounds>>
      BY <1>9 DEF Create, Cancel
    <2>2. \/ pc' = [pc EXCEPT ![t] = "register"] /\ UNCHANGED <<cur, seen>>
          \/ /\ NewestLive \in Subs /\ sub[NewestLive] \in Live
             /\ \E to \in {"drop", "stop"} : pc' = [pc EXCEPT ![t] = to]
             /\ cur' = [cur EXCEPT ![t] = NewestLive]
             /\ \E s \in Live : seen' = [seen EXCEPT ![t] = s]
      BY <1>9, NewestIsLive DEF Create, Cancel, Goto, Live
    <2>3. Kept
      BY <2>1 DEF Kept
    <2>4. Alone(t) /\ HoldsAt(t)'
      BY <2>1, <2>2 DEF Alone, HoldsAt, TypeOK, Working, Loaded, Live
    <2>5. /\ pc' \in [Threads -> {"idle"} \union Working \union Calling]
          /\ cur' \in [Threads -> Subs \union {NoSub}]
          /\ seen' \in [Threads -> Status \union {"none"}]
      <3>1. \E to \in {"register", "drop", "stop"} : pc' = [pc EXCEPT ![t] = to]
        BY <2>2
      <3>2. pc' \in [Threads -> {"idle"} \union Working \union Calling]
        BY <3>1 DEF TypeOK, Calling
      <3>3. cur' \in [Threads -> Subs \union {NoSub}]
        BY <2>2 DEF TypeOK
      <3>4. seen' \in [Threads -> Status \union {"none"}]
        BY <2>2 DEF TypeOK, Status, Live
      <3> QED
        BY <3>2, <3>3, <3>4
    <2> QED
      BY <2>1, <2>3, <2>4, <2>5, InHandAlone DEF TypeOK
  <1>10. ASSUME NEW es, Announce(es), es \subseteq Events PROVE sent' \subseteq Events
    BY <1>10 DEF Announce, TypeOK
  <1>11. ASSUME NEW s \in Subs, CancelAtProvider(s)
         PROVE  /\ prov' \in [Subs -> {"none", "waiting", "active", "past_due", "cancelled", "failed"}]
                /\ sent' \subseteq Events /\ money' = money
    <2>1. {<<"SUBSCRIPTION_CANCELLED", s>>} \subseteq Events
      BY EventFacts
    <2>2. sent' \subseteq Events
      BY <1>10, <1>11, <2>1 DEF CancelAtProvider
    <2> QED
      BY <1>11, <2>2 DEF CancelAtProvider, TypeOK
  <1>12. ASSUME NEW t \in Threads, Drop(t) \/ Stop(t) PROVE Shape' /\ Kept
    <2>1. /\ cur[t] \in Subs /\ sub[cur[t]] # "none"
          /\ UNCHANGED <<tables, locals, bounds>>
          /\ CancelAtProvider(cur[t]) \/ UNCHANGED provider
          /\ \E to \in {"dropped", "off"} : pc' = [pc EXCEPT ![t] = to]
      BY <1>12 DEF Drop, Stop, Goto, InHand, HoldsAt
    <2>2. Kept
      BY <2>1 DEF Kept
    <2>3. Alone(t) /\ HoldsAt(t)'
      BY <2>1 DEF Alone, HoldsAt, TypeOK, Working, Loaded
    <2>4. /\ pc' \in [Threads -> {"idle"} \union Working \union Calling]
          /\ prov' \in [Subs -> {"none", "waiting", "active", "past_due", "cancelled", "failed"}]
          /\ sent' \subseteq Events /\ money' = money
      BY <1>11, <2>1 DEF TypeOK, Calling
    <2> QED
      BY <2>1, <2>2, <2>3, <2>4, InHandAlone DEF TypeOK
  <1>13. ASSUME NEW t \in Threads, Register(t) PROVE Shape' /\ Kept
    <2>1. PICK s \in Subs : /\ pc' = [pc EXCEPT ![t] = "insert"]
                            /\ prov' = [prov EXCEPT ![s] = "waiting"]
                            /\ cur'  = [cur EXCEPT ![t] = s]
                            /\ UNCHANGED <<tables, evt, seen, out, money, sent, bounds>>
      BY <1>13 DEF Register, Goto
    <2>2. Kept
      BY <2>1 DEF Kept
    <2>3. Alone(t) /\ HoldsAt(t)'
      BY <2>1 DEF Alone, HoldsAt, TypeOK, Working, Loaded
    <2>4. TypeOK'
      BY <2>1 DEF TypeOK, Calling
    <2> QED
      BY <2>2, <2>3, <2>4, InHandAlone
  <1>14. ASSUME NEW t \in Threads, RegisterFails(t) \/ StopFails(t) PROVE Shape' /\ Kept
    <2>1. Finish(t) /\ UNCHANGED <<tables, provider, bounds>>
      BY <1>14 DEF RegisterFails, StopFails
    <2>2. Kept
      BY <2>1 DEF Kept
    <2> QED
      BY <2>1, <2>2, FinishShape, InHandAlone DEF TypeOK
  <1>15. ASSUME NEW t \in Threads, Insert(t) PROVE Shape' /\ Kept
    <2>1. /\ cur[t] \in Subs /\ Finish(t)
          /\ sub' = [sub EXCEPT ![cur[t]] = "pending"]
          /\ rows' = IF sub[cur[t]] = "none" THEN Append(rows, cur[t]) ELSE rows
          /\ UNCHANGED <<order, grants, result, provider, bounds>>
      BY <1>15 DEF Insert, InHand, HoldsAt
    <2>2. Kept
      BY <2>1 DEF Kept, TypeOK
    <2>3. sub' \in [Subs -> Status \union {"none"}]
      BY <2>1 DEF TypeOK, Status, Live
    <2>4. /\ rows' \in Seq(Subs)
          /\ \A i, j \in DOMAIN rows' : rows'[i] = rows'[j] => i = j
          /\ \A s \in Subs : sub'[s] = "none" <=> \A i \in DOMAIN rows' : rows'[i] # s
      <3>1. CASE sub[cur[t]] = "none"
        <4>1. /\ rows' \in Seq(Subs) /\ Len(rows') = Len(rows) + 1
              /\ \A i \in 1..Len(rows) : rows'[i] = rows[i]
              /\ rows'[Len(rows) + 1] = cur[t]
          BY <2>1, <3>1, AppendProperties DEF TypeOK
        <4>2. /\ Len(rows) \in Nat /\ DOMAIN rows = 1..Len(rows)
              /\ DOMAIN rows' = 1..(Len(rows) + 1)
          BY <4>1, LenProperties DEF TypeOK
        <4>3. \A i \in 1..Len(rows) : rows[i] # cur[t]
          BY <2>1, <3>1, <4>2 DEF TypeOK
        <4>4. ASSUME NEW i \in DOMAIN rows', NEW j \in DOMAIN rows', rows'[i] = rows'[j]
              PROVE  i = j
          <5>1. \A k \in DOMAIN rows' : k \in 1..Len(rows) \/ k = Len(rows) + 1
            BY <4>2
          <5>2. CASE i \in 1..Len(rows) /\ j \in 1..Len(rows)
            BY <4>1, <4>2, <4>4, <5>2 DEF TypeOK
          <5>3. CASE i = Len(rows) + 1 /\ j \in 1..Len(rows)
            BY <4>1, <4>3, <4>4, <5>3
          <5>4. CASE j = Len(rows) + 1 /\ i \in 1..Len(rows)
            BY <4>1, <4>3, <4>4, <5>4
          <5> QED
            BY <5>1, <5>2, <5>3, <5>4
        <4>5. ASSUME NEW s \in Subs
              PROVE  sub'[s] = "none" <=> \A i \in DOMAIN rows' : rows'[i] # s
          <5>1. CASE s = cur[t]
            BY <2>1, <4>1, <4>2, <5>1 DEF TypeOK
          <5>2. CASE s # cur[t]
            <6>1. sub'[s] = sub[s]
              BY <2>1, <5>2 DEF TypeOK
            <6>2. (\A i \in DOMAIN rows' : rows'[i] # s) <=> (\A i \in DOMAIN rows : rows[i] # s)
              BY <4>1, <4>2, <5>2
            <6> QED
              BY <6>1, <6>2 DEF TypeOK
          <5> QED
            BY <5>1, <5>2
        <4> QED
          BY <4>1, <4>4, <4>5
      <3>2. CASE sub[cur[t]] # "none"
        BY <2>1, <3>2 DEF TypeOK
      <3> QED
        BY <3>1, <3>2
    <2>5. TypeOK'
      BY <2>1, <2>3, <2>4, FinishShape DEF TypeOK
    <2> QED
      BY <2>1, <2>2, <2>5, FinishShape, InHandAlone
  <1>16. ASSUME NEW t \in Threads, Off(t) PROVE Shape' /\ Kept
    <2>1. /\ cur[t] \in Subs /\ sub[cur[t]] # "none"
          /\ WriteStatus(t, "cancelled") /\ Finish(t)
          /\ UNCHANGED <<rows, order, grants, result, provider, bounds>>
      BY <1>16 DEF Off, InHand, HoldsAt
    <2>2. /\ sub' \in [Subs -> Status \union {"none"}]
          /\ \A x \in Subs : sub'[x] = "none" <=> sub[x] = "none"
      BY <2>1, WriteShape DEF Status
    <2>3. Kept
      BY <2>1, <2>2 DEF Kept
    <2>4. TypeOK'
      BY <2>1, <2>2, FinishShape DEF TypeOK
    <2> QED
      BY <2>1, <2>3, <2>4, FinishShape, InHandAlone
  <1>17. ASSUME NEW s \in Subs, Bind(s) \/ Lapse(s) \/ CancelOutside(s) PROVE Shape' /\ Kept
    <2>1. /\ UNCHANGED <<tables, pc, locals, bounds, money>>
          /\ sent' \subseteq Events
          /\ prov' \in [Subs -> {"none", "waiting", "active", "past_due", "cancelled", "failed"}]
      <3>1. {<<"SUBSCRIPTION_ACTIVATED", s>>} \subseteq Events /\ {<<"SUBSCRIPTION_FAILED", s>>} \subseteq Events
        BY DEF Events, StatusEvents
      <3> QED
        <4>1. CASE Bind(s) \/ Lapse(s)
          <5>1. sent' \subseteq Events
            BY <1>10, <3>1, <4>1 DEF Bind, Lapse
          <5> QED
            BY <4>1, <5>1, SMTT(30) DEF Bind, Lapse, TypeOK
        <4>2. CASE CancelOutside(s)
          BY <1>11, <4>2 DEF CancelOutside
        <4> QED
          BY <1>17, <4>1, <4>2
    <2>2. Kept /\ InHand'
      BY <2>1 DEF Kept, InHand, HoldsAt
    <2> QED
      BY <2>1, <2>2 DEF TypeOK
  <1>18. ASSUME NEW c \in Charges, Charge(c) \/ Decline(c) \/ Reverse(c) PROVE Shape' /\ Kept
    <2>1. UNCHANGED <<tables, pc, locals, bounds>>
      BY <1>18 DEF Charge, Decline, Reverse
    <2>2. sent' \subseteq Events
      <3>1. /\ {<<"CONFIRMED", c>>} \subseteq Events
            /\ {<<"CANCELED", c>>, <<"SUBSCRIPTION_PAST_DUE", SubOf[c]>>} \subseteq Events
        BY DEF Events, StatusEvents, ChargeEvents
      <3> QED
        BY <1>10, <1>18, <3>1 DEF Charge, Decline, Reverse, TypeOK
    <2>3. money' \in [Charges -> {"none", "taken", "other", "declined", "returned"}]
      <3>1. \E m \in {"taken", "other", "declined", "returned"} : money' = [money EXCEPT ![c] = m]
        BY <1>18 DEF Charge, Decline, Reverse
      <3> QED
        BY <3>1 DEF TypeOK
    <2>4. prov' \in [Subs -> {"none", "waiting", "active", "past_due", "cancelled", "failed"}]
      <3>1. \/ prov' = prov
            \/ \E p \in {"active", "past_due"} : prov' = [prov EXCEPT ![SubOf[c]] = p]
        BY <1>18 DEF Charge, Decline, Reverse
      <3> QED
        BY <3>1 DEF TypeOK
    <2>5. Kept /\ InHand'
      BY <2>1 DEF Kept, InHand, HoldsAt
    <2> QED
      BY <2>1, <2>2, <2>3, <2>4, <2>5 DEF TypeOK
  <1>19. CASE Crash
    <2>1. TypeOK'
      BY <1>19 DEF Crash, TypeOK
    <2>2. InHand' /\ Kept
      BY <1>19 DEF Crash, InHand, HoldsAt, Working, Loaded, Kept
    <2> QED
      BY <2>1, <2>2
  <1>20. CASE UNCHANGED vars
    BY <1>20 DEF vars, TypeOK, InHand, HoldsAt, Kept
  <1> QED
    BY <1>1, <1>2, <1>3, <1>4, <1>5, <1>6, <1>7, <1>8, <1>9, <1>12, <1>13, <1>14, <1>15,
       <1>16, <1>17, <1>18, <1>19, <1>20
    DEF Next, Handle, Call

\* Every variable keeps its type, and a subscription has one row or none.
THEOREM TypeCorrect == Spec => []TypeOK
  <1>1. Init => Shape
    BY ShapeInit
  <1>2. Shape /\ [Next]_vars => Shape'
    BY ShapeStep
  <1>3. Shape => TypeOK
    BY DEF Shape
  <1> QED
    BY <1>1, <1>2, <1>3, PTL DEF Spec
--------------------------------------------------------------------------------
(* What the announced events stand for                                     *)

Charged == {"taken", "other", "returned"}

\* The provider takes nothing back but money: what it announced stays announced, a
\* cancelled subscription cancelled and a charge charged; and it announces the truth.
ProviderKeeps ==
  /\ sent \subseteq sent'
  /\ \A s \in Subs : prov[s] = "cancelled" => prov'[s] = "cancelled"
  /\ \A c \in Charges : money[c] \in Charged => money'[c] \in Charged
  /\ \A c \in Charges : money[c] \in {"taken", "returned"} => money'[c] \in {"taken", "returned"}
  /\ \A c \in Charges : <<"CONFIRMED", c>> \in sent' =>
       <<"CONFIRMED", c>> \in sent \/ money'[c] \in Charged
  /\ \A s \in Subs : <<"SUBSCRIPTION_CANCELLED", s>> \in sent' =>
       <<"SUBSCRIPTION_CANCELLED", s>> \in sent \/ prov'[s] = "cancelled"

LEMMA ProviderStep ==
  ASSUME Shape, [Next]_vars
  PROVE  ProviderKeeps
  <1> USE DEF ProviderKeeps, Charged
  <1>1. CASE UNCHANGED provider
    BY <1>1 DEF provider
  <1>2. ASSUME NEW s \in Subs, CancelAtProvider(s) PROVE ProviderKeeps
    <2>1. /\ prov' = [prov EXCEPT ![s] = "cancelled"] /\ money' = money
          /\ sent' \in {sent, sent \union {<<"SUBSCRIPTION_CANCELLED", s>>}}
      BY <1>2 DEF CancelAtProvider, Announce
    <2> QED
      BY <2>1 DEF Shape, TypeOK
  <1>3. ASSUME NEW t \in Threads, Drop(t) \/ Stop(t) PROVE ProviderKeeps
    <2>1. cur[t] \in Subs /\ (CancelAtProvider(cur[t]) \/ UNCHANGED provider)
      BY <1>3 DEF Drop, Stop, Goto, Shape, InHand, HoldsAt
    <2> QED
      BY <1>1, <1>2, <2>1
  <1>4. ASSUME NEW t \in Threads, Register(t) PROVE ProviderKeeps
    <2>1. PICK s \in Subs : /\ prov[s] \in {"none", "waiting"}
                            /\ prov' = [prov EXCEPT ![s] = "waiting"]
                            /\ UNCHANGED <<money, sent>>
      BY <1>4 DEF Register
    <2> QED
      BY <2>1 DEF Shape, TypeOK
  <1>5. ASSUME NEW s \in Subs, Bind(s) \/ Lapse(s) PROVE ProviderKeeps
    <2>1. /\ prov[s] = "waiting" /\ money' = money
          /\ \E p \in {"active", "failed"} : prov' = [prov EXCEPT ![s] = p]
          /\ sent' \in {sent, sent \union {<<"SUBSCRIPTION_ACTIVATED", s>>},
                        sent \union {<<"SUBSCRIPTION_FAILED", s>>}}
      BY <1>5 DEF Bind, Lapse, Announce
    <2> QED
      BY <2>1 DEF Shape, TypeOK
  <1>6. ASSUME NEW c \in Charges, Charge(c) PROVE ProviderKeeps
    <2>1. /\ money[c] = "none" /\ prov[SubOf[c]] # "cancelled"
          /\ \E m \in {"taken", "other"} : money' = [money EXCEPT ![c] = m]
          /\ prov' = [prov EXCEPT ![SubOf[c]] = "active"]
          /\ sent' \in {sent, sent \union {<<"CONFIRMED", c>>}}
      BY <1>6 DEF Charge, Announce
    <2> QED
      BY <2>1 DEF Shape, TypeOK
  <1>7. ASSUME NEW c \in Charges, Decline(c) PROVE ProviderKeeps
    <2>1. /\ money[c] = "none" /\ prov[SubOf[c]] # "cancelled"
          /\ money' = [money EXCEPT ![c] = "declined"]
          /\ prov' = [prov EXCEPT ![SubOf[c]] = "past_due"]
          /\ sent' \in {sent, sent \union {<<"CANCELED", c>>, <<"SUBSCRIPTION_PAST_DUE", SubOf[c]>>}}
      BY <1>7 DEF Decline, Announce
    <2> QED
      BY <2>1 DEF Shape, TypeOK
  <1>8. ASSUME NEW c \in Charges, Reverse(c) PROVE ProviderKeeps
    <2>1. /\ money[c] = "taken" /\ money' = [money EXCEPT ![c] = "returned"]
          /\ UNCHANGED <<prov, sent>>
      BY <1>8 DEF Reverse
    <2> QED
      BY <2>1 DEF Shape, TypeOK
  <1>9. ASSUME NEW s \in Subs, CancelOutside(s) PROVE ProviderKeeps
    BY <1>2, <1>9 DEF CancelOutside
  <1>10. ASSUME NEW t \in Threads, NEW e \in Events, Receive(t, e) \/ Reclaim(t, e)
         PROVE  UNCHANGED provider
    BY <1>10 DEF Receive, Reclaim
  <1>11. ASSUME NEW t \in Threads, Handle(t) \/ Create(t) \/ Cancel(t) \/ Fault(t)
         PROVE  UNCHANGED provider
    BY <1>11 DEF Handle, Load, LoadUnknown, ApplyStatus, CheckCharge, BookOrder,
                 AlreadyBooked, Fulfil, Activate, Mark, Create, Cancel, Fault
  <1>12. ASSUME NEW t \in Threads,
                Dropped(t) \/ RegisterFails(t) \/ Insert(t) \/ StopFails(t) \/ Off(t)
         PROVE  UNCHANGED provider
    BY <1>12 DEF Dropped, RegisterFails, Insert, StopFails, Off
  <1>13. Crash \/ UNCHANGED vars => UNCHANGED provider
    BY DEF Crash, vars
  <1> QED
    BY <1>1, <1>3, <1>4, <1>5, <1>6, <1>7, <1>8, <1>9, <1>10, <1>11, <1>12, <1>13
    DEF Next, Call

\* An event gets its row when the provider announced it.
LEMMA ResultFrom ==
  ASSUME Shape, [Next]_vars, NEW e \in Events, result'[e] # "absent"
  PROVE  result[e] # "absent" \/ e \in sent
  <1> USE DEF tables
  <1>1. ASSUME NEW t \in Threads, NEW d \in Events, Receive(t, d) \/ Reclaim(t, d)
        PROVE  result[e] # "absent" \/ e \in sent
    BY <1>1 DEF Receive, Reclaim, Shape, TypeOK, Stuck
  <1>2. ASSUME NEW t \in Threads, Mark(t) \/ Fault(t)
        PROVE  result[e] # "absent"
    <2>1. evt[t] \in Events /\ result[evt[t]] # "absent"
      BY <1>2 DEF Mark, Fault, Shape, InHand, HoldsAt, Working
    <2>2. \E r : result' = [result EXCEPT ![evt[t]] = r]
      BY <1>2 DEF Mark, Fault
    <2> QED
      BY <2>1, <2>2 DEF Shape, TypeOK
  <1>3. ASSUME \A t \in Threads : ~Mark(t) /\ ~Fault(t),
               \A t \in Threads, d \in Events : ~Receive(t, d) /\ ~Reclaim(t, d)
        PROVE  result' = result
    BY <1>3
    DEF Next, Handle, Call, vars, Load, LoadUnknown, ApplyStatus, CheckCharge, BookOrder,
        AlreadyBooked, Fulfil, Activate, Create, Cancel, Drop, Dropped, Register,
        RegisterFails, Insert, Stop, StopFails, Off, Bind, Lapse, CancelOutside, Charge,
        Decline, Reverse, Crash
  <1> QED
    BY <1>1, <1>2, <1>3

\* The panel handles what was announced, and what was announced is so.
LEMMA HeardStep == Shape /\ Heard /\ [Next]_vars => Heard'
  <1> SUFFICES ASSUME Shape, Heard, [Next]_vars PROVE Heard'
    OBVIOUS
  <1>1. ProviderKeeps
    BY ProviderStep
  <1>2. \A e \in Events : result'[e] # "absent" => e \in sent'
    BY <1>1, ResultFrom DEF Heard, ProviderKeeps
  <1>3. \A c \in Charges : <<"CONFIRMED", c>> \in sent' => money'[c] \in {"taken", "other", "returned"}
    BY <1>1 DEF Heard, ProviderKeeps, Charged
  <1>4. \A s \in Subs : <<"SUBSCRIPTION_CANCELLED", s>> \in sent' => prov'[s] = "cancelled"
    BY <1>1 DEF Heard, ProviderKeeps
  <1> QED
    BY <1>2, <1>3, <1>4 DEF Heard

--------------------------------------------------------------------------------
(* What the panel shows as cancelled                                       *)

Disconnected == CancelledIsOff /\ CancelInFlight

\* The status "cancelled" is written for an event of the provider, or by a request the
\* provider agreed to.
LEMMA CancelledFrom ==
  ASSUME Shape, Heard, Disconnected, [Next]_vars, NEW s \in Subs, sub'[s] = "cancelled"
  PROVE  prov[s] = "cancelled"
  <1> USE DEF tables
  <1>1. sub[s] = "cancelled" => prov[s] = "cancelled"
    BY DEF Disconnected, CancelledIsOff
  <1>2. ASSUME NEW t \in Threads, NEW x, WriteStatus(t, x), cur[t] \in Subs
        PROVE  sub'[s] = sub[s] \/ (cur[t] = s /\ sub'[s] = x)
    BY <1>2 DEF WriteStatus, Flushed, Shape, TypeOK
  <1>3. ASSUME NEW t \in Threads, ApplyStatus(t) PROVE prov[s] = "cancelled"
    <2> DEFINE e == evt[t]
    <2>1. /\ e \in Events \ Confirmations /\ result[e] # "absent"
          /\ cur[t] = SubOfEvent(e) /\ cur[t] \in Subs /\ WriteStatus(t, StatusOf(e[1]))
      BY <1>3 DEF ApplyStatus, Goto, Shape, InHand, HoldsAt, Working, Loaded
    <2>2. CASE sub'[s] = sub[s]
      BY <1>1, <2>2
    <2>3. CASE cur[t] = s /\ StatusOf(e[1]) = "cancelled"
      <3>1. e[1] = "SUBSCRIPTION_CANCELLED"
        BY <2>1, <2>3 DEF StatusOf, Events, StatusEvents, ChargeEvents, Confirmations
      <3>2. e = <<"SUBSCRIPTION_CANCELLED", s>>
        BY <2>1, <2>3, <3>1, EventFacts
      <3> QED
        BY <2>1, <3>2 DEF Heard
    <2> QED
      BY <1>2, <2>1, <2>2, <2>3
  <1>4. ASSUME NEW t \in Threads, Off(t) PROVE prov[s] = "cancelled"
    <2>1. pc[t] = "off" /\ cur[t] \in Subs /\ WriteStatus(t, "cancelled")
      BY <1>4 DEF Off, Shape, InHand, HoldsAt
    <2> QED
      BY <1>1, <1>2, <2>1 DEF Disconnected, CancelInFlight
  <1>5. ASSUME NEW t \in Threads, Activate(t) \/ Dropped(t) PROVE prov[s] = "cancelled"
    <2>1. cur[t] \in Subs /\ \E x \in {"active", "failed"} : WriteStatus(t, x)
      BY <1>5 DEF Activate, Dropped, Goto, Shape, InHand, HoldsAt, Loaded
    <2> QED
      BY <1>1, <1>2, <2>1
  <1>6. ASSUME NEW t \in Threads, Insert(t) PROVE prov[s] = "cancelled"
    BY <1>1, <1>6 DEF Insert, Shape, TypeOK
  <1>7. ASSUME \A t \in Threads : /\ ~ApplyStatus(t) /\ ~Off(t) /\ ~Activate(t)
                                  /\ ~Dropped(t) /\ ~Insert(t)
        PROVE  sub' = sub
    BY <1>7
    DEF Next, Handle, Call, vars, Receive, Reclaim, Load, LoadUnknown, CheckCharge, BookOrder,
        AlreadyBooked, Fulfil, Mark, Fault, Create, Cancel, Drop, Register,
        RegisterFails, Stop, StopFails, Bind, Lapse, CancelOutside, Charge,
        Decline, Reverse, Crash
  <1> QED
    BY <1>1, <1>3, <1>4, <1>5, <1>6, <1>7

\* A request gets to its last write only through the provider's consent.
LEMMA OffFrom ==
  ASSUME Shape, [Next]_vars, NEW t \in Threads, pc'[t] = "off"
  PROVE  /\ cur'[t] = cur[t]
         /\ \/ pc[t] = "off"
            \/ cur[t] \in Subs /\ CancelAtProvider(cur[t])
  <1> USE DEF tables, locals
  <1>1. ASSUME NEW x \in Threads, Stop(x)
        PROVE  cur'[t] = cur[t] /\ (pc[t] = "off" \/ (cur[t] \in Subs /\ CancelAtProvider(cur[t])))
    <2>1. /\ pc[x] = "stop" /\ pc' = [pc EXCEPT ![x] = "off"] /\ cur' = cur
          /\ CancelAtProvider(cur[x])
      BY <1>1 DEF Stop, Goto
    <2>2. CASE t = x
      BY <2>1, <2>2 DEF Shape, InHand, HoldsAt
    <2>3. CASE t # x
      <3>1. pc \in [Threads -> {"idle"} \union Working \union Calling]
        BY DEF Shape, TypeOK
      <3>2. pc[t] = "off"
        BY <2>1, <2>3, <3>1
      <3> QED
        BY <2>1, <3>2
    <2> QED
      BY <2>2, <2>3
  <1>2. ASSUME NEW x \in Threads,
               \/ Mark(x) \/ Fault(x) \/ RegisterFails(x) \/ Insert(x) \/ StopFails(x) \/ Off(x)
        PROVE  cur'[t] = cur[t] /\ pc[t] = "off"
    BY <1>2 DEF Mark, Fault, RegisterFails, Insert, StopFails, Off, Finish, Shape, TypeOK
  <1>3. ASSUME NEW x \in Threads, NEW e \in Events, Receive(x, e) \/ Reclaim(x, e)
        PROVE  cur'[t] = cur[t] /\ pc[t] = "off"
    BY <1>3 DEF Receive, Reclaim, Goto, Shape, TypeOK
  <1>4. ASSUME NEW x \in Threads,
               \/ Load(x) \/ LoadUnknown(x) \/ ApplyStatus(x) \/ BookOrder(x) \/ AlreadyBooked(x)
               \/ Fulfil(x) \/ Activate(x) \/ Drop(x) \/ Dropped(x)
        PROVE  cur'[t] = cur[t] /\ pc[t] = "off"
    BY <1>4 DEF Load, LoadUnknown, ApplyStatus, BookOrder, AlreadyBooked, Fulfil, Activate,
                Drop, Dropped, Goto, Shape, TypeOK
  <1>5. ASSUME NEW x \in Threads, CheckCharge(x) \/ Register(x) \/ Create(x) \/ Cancel(x)
        PROVE  cur'[t] = cur[t] /\ pc[t] = "off"
    BY <1>5 DEF CheckCharge, Register, Create, Cancel, Goto, Shape, TypeOK
  <1>6. ASSUME NEW s \in Subs, Bind(s) \/ Lapse(s) \/ CancelOutside(s)
        PROVE  cur'[t] = cur[t] /\ pc[t] = "off"
    BY <1>6 DEF Bind, Lapse, CancelOutside
  <1>7. ASSUME NEW c \in Charges, Charge(c) \/ Decline(c) \/ Reverse(c)
        PROVE  cur'[t] = cur[t] /\ pc[t] = "off"
    BY <1>7 DEF Charge, Decline, Reverse
  <1>8. CASE Crash
    BY <1>8 DEF Crash
  <1>9. CASE UNCHANGED vars
    BY <1>9 DEF vars
  <1> QED
    BY <1>1, <1>2, <1>3, <1>4, <1>5, <1>6, <1>7, <1>8, <1>9 DEF Next, Handle, Call

\* Whatever overtakes the owner's request, what is shown as cancelled is cancelled.
LEMMA OffStep == Shape /\ Heard /\ Disconnected /\ [Next]_vars => Disconnected'
  <1> SUFFICES ASSUME Shape, Heard, Disconnected, [Next]_vars PROVE Disconnected'
    OBVIOUS
  <1>1. \A s \in Subs : prov[s] = "cancelled" => prov'[s] = "cancelled"
    BY ProviderStep DEF ProviderKeeps
  <1>2. CancelledIsOff'
    BY <1>1, CancelledFrom DEF CancelledIsOff
  <1>3. ASSUME NEW t \in Threads, pc'[t] = "off" PROVE prov'[cur'[t]] = "cancelled"
    <2>1. CASE pc[t] = "off"
      <3>1. cur'[t] = cur[t] /\ cur[t] \in Subs
        BY <1>3, <2>1, OffFrom DEF Shape, InHand, HoldsAt
      <3> QED
        BY <1>1, <2>1, <3>1 DEF Disconnected, CancelInFlight
    <2>2. CASE cur[t] \in Subs /\ CancelAtProvider(cur[t])
      <3>1. cur'[t] = cur[t]
        BY <1>3, OffFrom
      <3>2. prov' = [prov EXCEPT ![cur[t]] = "cancelled"]
        BY <2>2 DEF CancelAtProvider
      <3>3. prov'[cur[t]] = "cancelled"
        BY <2>2, <3>2 DEF Shape, TypeOK
      <3> QED
        BY <3>1, <3>3
    <2> QED
      BY <1>3, <2>1, <2>2, OffFrom
  <1> QED
    BY <1>2, <1>3 DEF Disconnected, CancelInFlight

LEMMA StartHeard == Init => Heard /\ Disconnected
  <1> SUFFICES ASSUME Init PROVE Heard /\ Disconnected
    OBVIOUS
  <1>1. Heard
    BY EventFacts DEF Init, Heard, Confirmations
  <1>2. Disconnected
    BY DEF Init, Disconnected, CancelledIsOff, CancelInFlight
  <1> QED
    BY <1>1, <1>2
--------------------------------------------------------------------------------
(* What is granted for a charge                                            *)

Granted == ChargeGrantedOnce /\ GrantIsCharged /\ OkIsGranted /\ GrantInFlight

\* A thread that stays where it is keeps its word on the charge it handles, unless the
\* order of the charge it is about to grant changes under it.
LEMMA GrantStays ==
  ASSUME Shape, Granted, ProviderKeeps, NEW t \in Threads,
         pc'[t] = pc[t], evt'[t] = evt[t], out'[t] = out[t],
         \A c \in Charges : grants[c] > 0 => grants'[c] > 0,
         pc[t] = "fulfil" => /\ order'[evt[t][2]] = order[evt[t][2]]
                             /\ grants'[evt[t][2]] = grants[evt[t][2]]
  PROVE  GrantAt(t)'
  <1>1. pc[t] \in {"book", "fulfil", "activate"} => evt[t] \in Confirmations
    BY DEF Shape, InHand, HoldsAt, Loaded
  <1>2. evt[t] \in Confirmations => evt[t][2] \in Charges
    BY EventFacts
  <1>3. GrantAt(t)
    BY DEF Granted, GrantInFlight
  <1> QED
    BY <1>1, <1>2, <1>3 DEF GrantAt, ProviderKeeps

\* A step that touches neither orders nor grants is harmless when every thread keeps its
\* word, none comes newly to the grant and no charge is reported that was not granted.
LEMMA QuietStep ==
  ASSUME Shape, Granted, ProviderKeeps, UNCHANGED <<order, grants>>,
         \A x \in Threads : /\ GrantAt(x)'
                            /\ pc'[x] = "fulfil" => pc[x] = "fulfil" /\ evt'[x] = evt[x],
         \A c \in Charges : result'[<<"CONFIRMED", c>>] = "ok" =>
           result[<<"CONFIRMED", c>>] = "ok" \/ grants[c] > 0
  PROVE  Granted'
  <1>1. ChargeGrantedOnce'
    BY DEF Granted, ChargeGrantedOnce
  <1>2. GrantIsCharged'
    BY DEF Granted, GrantIsCharged, ProviderKeeps
  <1>3. OkIsGranted'
    BY DEF Granted, OkIsGranted
  <1>4. GrantInFlight'
    <2>1. \A c \in Charges : order'[c] = "none" => grants'[c] = 0
      BY DEF Granted, GrantInFlight
    <2>2. ASSUME NEW x \in Threads, NEW y \in Threads,
                 pc'[x] = "fulfil", pc'[y] = "fulfil", evt'[x] = evt'[y]
          PROVE  x = y
      BY <2>2 DEF Granted, GrantInFlight
    <2> QED
      BY <2>1, <2>2 DEF GrantInFlight
  <1> QED
    BY <1>1, <1>2, <1>3, <1>4 DEF Granted

\* The same, for a step of one thread.
LEMMA QuietAlone ==
  ASSUME Shape, Granted, ProviderKeeps, UNCHANGED <<order, grants>>,
         NEW t \in Threads, Alone(t), GrantAt(t)', pc'[t] # "fulfil",
         \A c \in Charges : result'[<<"CONFIRMED", c>>] = "ok" =>
           result[<<"CONFIRMED", c>>] = "ok" \/ grants[c] > 0
  PROVE  Granted'
  <1>1. ASSUME NEW x \in Threads, x # t
        PROVE  GrantAt(x)' /\ (pc'[x] = "fulfil" => pc[x] = "fulfil" /\ evt'[x] = evt[x])
    <2>1. pc'[x] = pc[x] /\ evt'[x] = evt[x] /\ out'[x] = out[x]
      BY <1>1 DEF Alone
    <2> QED
      BY <2>1, GrantStays
  <1>2. \A x \in Threads : /\ GrantAt(x)'
                           /\ pc'[x] = "fulfil" => pc[x] = "fulfil" /\ evt'[x] = evt[x]
    BY <1>1
  <1> QED
    BY <1>2, QuietStep

\* A handler comes to the booking of a charge only when the charge was of the right amount.
LEMMA CheckedCharge ==
  ASSUME Shape, Heard, NEW t \in Threads, CheckCharge(t)
  PROVE  GrantAt(t)' /\ pc'[t] \in {"book", "mark"} /\ Alone(t)
  <1> DEFINE c == evt[t][2]
  <1>1. pc[t] = "confirm" /\ evt[t] \in Confirmations /\ result[evt[t]] # "absent"
    BY DEF CheckCharge, Goto, Shape, InHand, HoldsAt, Working, Loaded
  <1>2. money[c] \in {"taken", "other", "returned"}
    BY <1>1, EventFacts DEF Heard
  <1>3. PICK n, r \in BOOLEAN :
          /\ Goto(t, "confirm", IF Checked(c, n, r) = "ok" THEN "book" ELSE "mark")
          /\ out' = [out EXCEPT ![t] = Checked(c, n, r)]
          /\ UNCHANGED <<tables, evt, cur, seen, provider, bounds>>
    BY DEF CheckCharge
  <1>4. evt' = evt /\ money' = money /\ cur' = cur
    BY <1>3 DEF provider
  <1>5. /\ pc'[t] = IF Checked(c, n, r) = "ok" THEN "book" ELSE "mark"
        /\ out'[t] = Checked(c, n, r)
        /\ Alone(t)
    BY <1>3, <1>4 DEF Goto, Alone, Shape, TypeOK
  <1>6. Checked(c, n, r) = "ok" => money[c] # "other"
    BY DEF Checked
  <1>7. GrantAt(t)'
    BY <1>2, <1>4, <1>5, <1>6 DEF GrantAt
  <1> QED
    BY <1>5, <1>7

\* The booking: the charge has no order, so none was granted and none is being granted.
LEMMA BookedGrant ==
  ASSUME Shape, Granted, ProviderKeeps, NEW t \in Threads, BookOrder(t)
  PROVE  Granted'
  <1> DEFINE c == evt[t][2]
  <1>1. pc[t] = "book" /\ evt[t] \in Confirmations
    BY DEF BookOrder, Goto, Shape, InHand, HoldsAt, Loaded
  <1>2. c \in Charges
    BY <1>1, EventFacts
  <1>3. /\ order[c] = "none" /\ order' = [order EXCEPT ![c] = "pending"]
        /\ pc' = [pc EXCEPT ![t] = "fulfil"]
        /\ UNCHANGED <<evt, cur, out, grants, result>>
    BY DEF BookOrder, Goto, locals
  <1>4. grants[c] = 0 /\ money[c] \in {"taken", "returned"}
    BY <1>1, <1>2, <1>3 DEF Granted, GrantInFlight, GrantAt
  <1>5. ASSUME NEW x \in Threads, pc[x] = "fulfil"
        PROVE  evt[x] \in Confirmations /\ order[evt[x][2]] = "pending"
    BY <1>5 DEF Granted, GrantInFlight, GrantAt, Shape, InHand, HoldsAt, Loaded
  <1>6. /\ pc'[t] = "fulfil" /\ order'[c] = "pending"
        /\ \A x \in Threads : x # t => pc'[x] = pc[x]
        /\ \A d \in Charges : d # c => order'[d] = order[d]
    BY <1>2, <1>3 DEF Shape, TypeOK
  <1>7. ASSUME NEW x \in Threads PROVE GrantAt(x)'
    <2>1. CASE x = t
      BY <1>2, <1>3, <1>4, <1>6, <2>1 DEF GrantAt, ProviderKeeps
    <2>2. CASE x # t
      <3>1. pc[x] = "fulfil" => order'[evt[x][2]] = order[evt[x][2]]
        BY <1>3, <1>5, <1>6, EventFacts
      <3> QED
        BY <1>3, <1>6, <2>2, <3>1, GrantStays
    <2> QED
      BY <2>1, <2>2
  <1>8. ASSUME NEW x \in Threads, NEW y \in Threads,
               pc'[x] = "fulfil", pc'[y] = "fulfil", evt'[x] = evt'[y]
        PROVE  x = y
    <2>1. ASSUME NEW z \in Threads, z # t, pc[z] = "fulfil" PROVE evt[z] # evt[t]
      BY <1>3, <1>5, <2>1
    <2> QED
      BY <1>3, <1>6, <1>8, <2>1 DEF Granted, GrantInFlight
  <1>9. \A d \in Charges : order'[d] = "none" => grants'[d] = 0
    BY <1>3, <1>4, <1>6 DEF Granted, GrantInFlight
  <1>10. GrantInFlight'
    BY <1>7, <1>8, <1>9 DEF GrantInFlight
  <1>11. ChargeGrantedOnce' /\ OkIsGranted'
    BY <1>3 DEF Granted, ChargeGrantedOnce, OkIsGranted
  <1>12. GrantIsCharged'
    BY <1>3 DEF Granted, GrantIsCharged, ProviderKeeps
  <1> QED
    BY <1>10, <1>11, <1>12 DEF Granted

\* The grant: the first of its charge, and of no charge another thread is at.
LEMMA FulfilledGrant ==
  ASSUME Shape, Granted, ProviderKeeps, NEW t \in Threads, Fulfil(t)
  PROVE  Granted'
  <1> DEFINE c == evt[t][2]
  <1>1. pc[t] = "fulfil" /\ evt[t] \in Confirmations
    BY DEF Fulfil, Goto, Shape, InHand, HoldsAt, Loaded
  <1>2. c \in Charges
    BY <1>1, EventFacts
  <1>3. /\ order' = [order EXCEPT ![c] = "paid"]
        /\ grants' = [grants EXCEPT ![c] = grants[c] + 1]
        /\ pc' = [pc EXCEPT ![t] = "activate"]
        /\ UNCHANGED <<evt, cur, out, result>>
    BY DEF Fulfil, Goto, locals
  <1>4. grants[c] = 0 /\ money[c] \in {"taken", "returned"}
    BY <1>1, <1>2 DEF Granted, GrantInFlight, GrantAt
  <1>5. /\ pc'[t] = "activate" /\ order'[c] = "paid" /\ grants'[c] = 1
        /\ \A x \in Threads : x # t => pc'[x] = pc[x]
        /\ \A d \in Charges : d # c => order'[d] = order[d] /\ grants'[d] = grants[d]
    <2>1. /\ pc'[t] = "activate"
          /\ \A x \in Threads : x # t => pc'[x] = pc[x]
      BY <1>3 DEF Shape, TypeOK
    <2>2. order'[c] = "paid" /\ \A d \in Charges : d # c => order'[d] = order[d]
      BY <1>2, <1>3 DEF Shape, TypeOK
    <2>3. grants'[c] = 1 /\ \A d \in Charges : d # c => grants'[d] = grants[d]
      BY <1>2, <1>3, <1>4 DEF Shape, TypeOK
    <2> QED
      BY <2>1, <2>2, <2>3
  <1>6. ASSUME NEW x \in Threads, x # t, pc[x] = "fulfil"
        PROVE  evt[x] \in Confirmations /\ evt[x][2] \in Charges /\ evt[x][2] # c
    <2>1. evt[x] \in Confirmations
      BY <1>6 DEF Shape, InHand, HoldsAt, Loaded
    <2>2. evt[x] # evt[t]
      BY <1>1, <1>6 DEF Granted, GrantInFlight
    <2> QED
      BY <1>1, <2>1, <2>2, EventFacts
  <1>7. \A d \in Charges : grants[d] > 0 => grants'[d] > 0
    BY <1>4, <1>5
  <1>8. ASSUME NEW x \in Threads PROVE GrantAt(x)'
    <2>1. CASE x = t
      <3>1. pc'[t] = "activate" /\ grants'[c] > 0 /\ evt'[t][2] = c
        BY <1>3, <1>5
      <3> QED
        BY <2>1, <3>1 DEF GrantAt
    <2>2. CASE x # t
      BY <1>3, <1>5, <1>6, <1>7, <2>2, GrantStays
    <2> QED
      BY <2>1, <2>2
  <1>9. ASSUME NEW x \in Threads, NEW y \in Threads,
               pc'[x] = "fulfil", pc'[y] = "fulfil", evt'[x] = evt'[y]
        PROVE  x = y
    BY <1>3, <1>5, <1>9 DEF Granted, GrantInFlight
  <1>10. \A d \in Charges : order'[d] = "none" => grants'[d] = 0
    BY <1>5 DEF Granted, GrantInFlight
  <1>11. GrantInFlight'
    BY <1>8, <1>9, <1>10 DEF GrantInFlight
  <1>12. ChargeGrantedOnce' /\ OkIsGranted'
    <2>1. ChargeGrantedOnce'
      BY <1>5 DEF Granted, ChargeGrantedOnce
    <2>2. OkIsGranted'
      BY <1>3, <1>7 DEF Granted, OkIsGranted
    <2> QED
      BY <2>1, <2>2
  <1>13. GrantIsCharged'
    BY <1>4, <1>5 DEF Granted, GrantIsCharged, ProviderKeeps
  <1> QED
    BY <1>11, <1>12, <1>13 DEF Granted

\* A charge is reported as processed by a handler that comes after the grant.
LEMMA MarkedGrant ==
  ASSUME Shape, Granted, ProviderKeeps, NEW t \in Threads, Mark(t) \/ Fault(t)
  PROVE  Granted'
  <1>1. UNCHANGED <<order, grants>> /\ Finish(t)
    BY DEF Mark, Fault
  <1>2. evt[t] \in Events
    BY DEF Mark, Fault, Shape, InHand, HoldsAt, Working
  <1>3. Alone(t) /\ pc'[t] = "idle"
    BY <1>1, FinishShape DEF Shape
  <1>4. GrantAt(t)'
    BY <1>3 DEF GrantAt
  <1>5. ASSUME NEW c \in Charges, result'[<<"CONFIRMED", c>>] = "ok"
        PROVE  result[<<"CONFIRMED", c>>] = "ok" \/ grants[c] > 0
    <2> DEFINE e == <<"CONFIRMED", c>>
    <2>1. e \in Confirmations /\ e \in Events /\ e[2] = c
      BY EventFacts
    <2>2. CASE evt[t] # e
      <3>1. \E r : result' = [result EXCEPT ![evt[t]] = r]
        BY DEF Mark, Fault
      <3>2. result'[e] = result[e]
        BY <2>1, <2>2, <3>1 DEF Shape, TypeOK
      <3> QED
        BY <1>5, <3>2
    <2>3. CASE evt[t] = e
      <3>1. \/ pc[t] = "mark" /\ result' = [result EXCEPT ![e] = out[t]]
            \/ result' = [result EXCEPT ![e] = "error"]
        BY <2>3 DEF Mark, Fault
      <3>2. pc[t] = "mark" /\ out[t] = "ok"
        BY <1>5, <2>1, <3>1 DEF Shape, TypeOK
      <3>3. GrantAt(t)
        BY DEF Granted, GrantInFlight
      <3> QED
        BY <2>1, <2>3, <3>2, <3>3 DEF GrantAt
    <2> QED
      BY <2>2, <2>3
  <1> QED
    BY <1>1, <1>3, <1>4, <1>5, QuietAlone

\* What is granted stays justified, whichever handlers and restarts meet.
LEMMA GrantStep == Shape /\ Heard /\ Granted /\ [Next]_vars => Granted'
  <1> SUFFICES ASSUME Shape, Heard, Granted, [Next]_vars PROVE Granted'
    OBVIOUS
  <1> USE DEF tables, locals
  <1>1. ProviderKeeps
    BY ProviderStep
  <1>2. ASSUME NEW t \in Threads, NEW e \in Events, Receive(t, e) \/ Reclaim(t, e)
        PROVE  Granted'
    <2>1. /\ UNCHANGED <<order, grants, cur, out>>
          /\ pc' = [pc EXCEPT ![t] = "load"] /\ evt' = [evt EXCEPT ![t] = e]
          /\ \E r \in {"null", "retrying"} : result' = [result EXCEPT ![e] = r]
      BY <1>2 DEF Receive, Reclaim, Goto
    <2>2. Alone(t) /\ pc'[t] = "load"
      BY <2>1 DEF Alone, Shape, TypeOK
    <2>3. \A d \in Events : result'[d] = "ok" => result[d] = "ok"
      BY <2>1 DEF Shape, TypeOK
    <2>4. \A c \in Charges : <<"CONFIRMED", c>> \in Events
      BY EventFacts
    <2>5. GrantAt(t)'
      BY <2>2 DEF GrantAt
    <2> QED
      BY <1>1, <2>1, <2>2, <2>3, <2>4, <2>5, QuietAlone
  <1>3. ASSUME NEW t \in Threads,
               Load(t) \/ LoadUnknown(t) \/ ApplyStatus(t) \/ AlreadyBooked(t) \/ Activate(t)
        PROVE  Granted'
    <2>1. /\ UNCHANGED <<order, grants, result, evt>>
          /\ \E to \in {"status", "confirm", "mark"} : pc' = [pc EXCEPT ![t] = to]
          /\ cur' = cur \/ \E s : cur' = [cur EXCEPT ![t] = s]
          /\ out' = out \/ \E r : out' = [out EXCEPT ![t] = r]
      BY <1>3 DEF Load, LoadUnknown, ApplyStatus, AlreadyBooked, Activate, Goto
    <2>2. Alone(t) /\ pc'[t] \in {"status", "confirm", "mark"}
      BY <2>1 DEF Alone, Shape, TypeOK
    <2>3. ASSUME pc'[t] = "mark", out'[t] = "ok", evt[t] \in Confirmations
          PROVE  grants[evt[t][2]] > 0
      <3>1. ~Load(t)
        BY <2>3 DEF Load, Shape, TypeOK
      <3>2. ~LoadUnknown(t) /\ ~AlreadyBooked(t)
        BY <2>3 DEF LoadUnknown, AlreadyBooked, Shape, TypeOK
      <3>3. ~ApplyStatus(t)
        BY <2>3 DEF ApplyStatus, Goto, Shape, InHand, HoldsAt
      <3>4. pc[t] = "activate"
        BY <1>3, <3>1, <3>2, <3>3 DEF Activate, Goto
      <3> QED
        BY <3>4 DEF Granted, GrantInFlight, GrantAt
    <2>4. GrantAt(t)'
      BY <2>1, <2>2, <2>3 DEF GrantAt
    <2> QED
      BY <1>1, <2>1, <2>2, <2>4, QuietAlone
  <1>4. ASSUME NEW t \in Threads, CheckCharge(t) PROVE Granted'
    <2>1. UNCHANGED <<order, grants, result>>
      BY <1>4 DEF CheckCharge
    <2>2. GrantAt(t)' /\ pc'[t] # "fulfil" /\ Alone(t)
      BY <1>4, CheckedCharge
    <2> QED
      BY <1>1, <2>1, <2>2, QuietAlone
  <1>5. ASSUME NEW t \in Threads, BookOrder(t) \/ Fulfil(t) \/ Mark(t) \/ Fault(t) PROVE Granted'
    BY <1>1, <1>5, BookedGrant, FulfilledGrant, MarkedGrant
  <1>6. ASSUME NEW t \in Threads, Call(t) \/ Create(t) \/ Cancel(t) PROVE Granted'
    <2>1. UNCHANGED <<order, grants, result>>
      BY <1>6 DEF Call, Drop, Dropped, Register, RegisterFails, Insert, Stop, StopFails, Off,
                  Create, Cancel
    <2>2. CASE RegisterFails(t) \/ Insert(t) \/ StopFails(t) \/ Off(t)
      <3>1. Finish(t)
        BY <2>2 DEF RegisterFails, Insert, StopFails, Off
      <3>2. Alone(t) /\ pc'[t] = "idle"
        BY <3>1, FinishShape DEF Shape
      <3>3. GrantAt(t)'
        BY <3>2 DEF GrantAt
      <3> QED
        BY <1>1, <2>1, <3>2, <3>3, QuietAlone
    <2>3. CASE Drop(t) \/ Dropped(t) \/ Register(t) \/ Stop(t) \/ Create(t) \/ Cancel(t)
      <3>1. /\ UNCHANGED <<evt, out>>
            /\ \E to \in Calling : pc' = [pc EXCEPT ![t] = to]
            /\ cur' = cur \/ \E s : cur' = [cur EXCEPT ![t] = s]
        BY <2>3 DEF Drop, Dropped, Register, Stop, Create, Cancel, Goto, Calling
      <3>2. Alone(t) /\ pc'[t] \in Calling
        BY <3>1 DEF Alone, Shape, TypeOK
      <3>3. GrantAt(t)' /\ pc'[t] # "fulfil"
        BY <3>2 DEF GrantAt, Calling
      <3> QED
        BY <1>1, <2>1, <3>2, <3>3, QuietAlone
    <2> QED
      BY <1>6, <2>2, <2>3 DEF Call
  <1>7. ASSUME UNCHANGED <<tables, pc, locals>> PROVE Granted'
    <2>1. \A x \in Threads : GrantAt(x)'
      BY <1>1, <1>7, GrantStays
    <2> QED
      BY <1>1, <1>7, <2>1, QuietStep
  <1>8. ASSUME NEW s \in Subs, Bind(s) \/ Lapse(s) \/ CancelOutside(s) PROVE Granted'
    BY <1>7, <1>8 DEF Bind, Lapse, CancelOutside
  <1>9. ASSUME NEW c \in Charges, Charge(c) \/ Decline(c) \/ Reverse(c) PROVE Granted'
    BY <1>7, <1>9 DEF Charge, Decline, Reverse
  <1>10. CASE Crash
    <2>1. UNCHANGED tables /\ \A x \in Threads : pc'[x] = "idle"
      BY <1>10 DEF Crash
    <2>2. \A x \in Threads : GrantAt(x)'
      BY <2>1 DEF GrantAt
    <2> QED
      BY <1>1, <2>1, <2>2, QuietStep
  <1>11. CASE UNCHANGED vars
    BY <1>7, <1>11 DEF vars
  <1> QED
    BY <1>2, <1>3, <1>4, <1>5, <1>6, <1>8, <1>9, <1>10, <1>11 DEF Next, Handle

LEMMA StartGranted == Init => Granted
  <1> SUFFICES ASSUME Init PROVE Granted
    OBVIOUS
  <1>1. ChargeGrantedOnce /\ GrantIsCharged
    BY DEF Init, ChargeGrantedOnce, GrantIsCharged
  <1>2. OkIsGranted
    BY EventFacts DEF Init, OkIsGranted
  <1>3. GrantInFlight
    BY DEF Init, GrantInFlight, GrantAt
  <1> QED
    BY <1>1, <1>2, <1>3 DEF Granted
--------------------------------------------------------------------------------
(* The groups together                                                     *)

\* The invariant that the runs check is inductive, and holds.
THEOREM InvariantCorrect == Spec => []RecurringInv
  <1>1. Init => RecurringInv
    BY ShapeInit, StartHeard, StartGranted DEF RecurringInv, Shape, Disconnected, Granted
  <1>2. RecurringInv /\ [Next]_vars => RecurringInv'
    <2> SUFFICES ASSUME RecurringInv, [Next]_vars PROVE RecurringInv'
      OBVIOUS
    <2>1. Shape /\ Heard /\ Granted /\ Disconnected
      BY DEF RecurringInv, Shape, Granted, Disconnected
    <2>2. Shape' /\ Heard' /\ Granted' /\ Disconnected'
      BY <2>1, ShapeStep, HeardStep, GrantStep, OffStep
    <2> QED
      BY <2>2 DEF RecurringInv, Shape, Granted, Disconnected
  <1> QED
    BY <1>1, <1>2, PTL DEF Spec

\* A charge is granted at most once, however many handlers take its event up, only if the
\* provider made it by the right amount, and before it is reported as processed.
THEOREM GrantCorrect == Spec => [](ChargeGrantedOnce /\ GrantIsCharged /\ OkIsGranted)
  <1>1. RecurringInv => ChargeGrantedOnce /\ GrantIsCharged /\ OkIsGranted
    BY DEF RecurringInv
  <1> QED
    BY <1>1, InvariantCorrect, PTL

\* A subscription the panel shows as cancelled is cancelled at the provider, which will
\* not charge it.
THEOREM CancelCorrect == Spec => []CancelledIsOff
  <1>1. RecurringInv => CancelledIsOff
    BY DEF RecurringInv
  <1> QED
    BY <1>1, InvariantCorrect, PTL

\* What is granted was charged by the provider, by the right amount (_confirm_charge).
THEOREM ChargedCorrect == Spec => []GrantIsCharged
  <1>1. RecurringInv => GrantIsCharged
    BY DEF RecurringInv
  <1> QED
    BY <1>1, InvariantCorrect, PTL

\* An event reported as processed was granted (handle_webhook).
THEOREM OkCorrect == Spec => []OkIsGranted
  <1>1. RecurringInv => OkIsGranted
    BY DEF RecurringInv
  <1> QED
    BY <1>1, InvariantCorrect, PTL
================================================================================
