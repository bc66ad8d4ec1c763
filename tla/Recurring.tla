------------------------------- MODULE Recurring -------------------------------
(***************************************************************************)
(* Recurring charges of one account (services/recurring.py): the account   *)
(* connects a subscription, the provider charges it and reports charges    *)
(* and changes of state, in any order, more than once or never; the panel  *)
(* books an order for a charge and fulfils it, and takes up again the      *)
(* events it did not finish.                                               *)
(*                                                                         *)
(* Subscriptions are known by the provider's identifier.  One action is a  *)
(* transaction of the panel, a call to the provider, or a step of the      *)
(* provider; a thread acts on the row as it loaded it.                     *)
(***************************************************************************)
EXTENDS Naturals, Sequences, FiniteSets

CONSTANTS
  Subs,         \* identifiers the provider gives to subscriptions
  Charges,      \* identifiers of the provider's transactions
  SubOf,        \* the subscription a charge is made for
  Hooks,        \* event loops that answer webhooks
  Sweepers,     \* threads of the delivery loop
  Clients,      \* threads that serve the account's owner
  NoSub, NoEvent,
  MaxCrashes,   \* bound on restarts of the panel
  MaxFaults,    \* bound on handlers that end in an exception
  MaxSent       \* bound on the events the provider announces

ASSUME RecurringAssumption ==
  /\ SubOf \in [Charges -> Subs]
  /\ NoSub \notin Subs
  /\ MaxCrashes \in Nat
  /\ MaxFaults \in Nat
  /\ MaxSent \in Nat

Threads == Hooks \union Sweepers \union Clients

\* The events of a subscription and of a charge, each with one event_id.
StatusEvents == {"SUBSCRIPTION_ACTIVATED", "SUBSCRIPTION_CANCELLED",
                 "SUBSCRIPTION_FAILED", "SUBSCRIPTION_PAST_DUE"} \X Subs
ChargeEvents == {"CONFIRMED", "CANCELED"} \X Charges
Events       == StatusEvents \union ChargeEvents

SubOfEvent(e) == IF e \in ChargeEvents THEN SubOf[e[2]] ELSE e[2]

ASSUME NoEventAssumption == NoEvent \notin Events

\* The rows of the panel.
VARIABLES
  rows,     \* recurring_subs by id: the subscriptions in the order of their rows
  sub,      \* recurring_subs.status, "none" without a row
  order,    \* the order of a charge: "none", "pending" or "paid"
  grants,   \* how often the charge was granted
  result    \* billing_events.result

\* The threads: where each one is, and what it holds.
VARIABLES
  pc,
  evt,      \* the event it handles
  cur,      \* the subscription it handles
  seen,     \* the status of that subscription in its session
  out       \* the result it is about to write

\* The provider.
VARIABLES
  prov,     \* its subscriptions
  money,    \* its charges; "other" is one of another amount than the subscription's
  sent      \* the events it has announced, and may announce again

VARIABLES crashes, faults

tables   == <<rows, sub, order, grants, result>>
locals   == <<evt, cur, seen, out>>
provider == <<prov, money, sent>>
bounds   == <<crashes, faults>>
vars     == <<tables, pc, locals, provider, bounds>>

Live    == {"pending", "active", "past_due"}
Status  == Live \union {"cancelled", "failed"}
Stuck   == {"null", "error", "retrying"}
Closed  == {"ok", "duplicate", "unknown_sub", "amount_mismatch", "amount_unverified"}
Working == {"load", "status", "confirm", "book", "fulfil", "activate", "mark"}
Calling == {"drop", "dropped", "register", "insert", "stop", "off"}

Init ==
  /\ rows   = <<>>
  /\ sub    = [s \in Subs |-> "none"]
  /\ order  = [c \in Charges |-> "none"]
  /\ grants = [c \in Charges |-> 0]
  /\ result = [e \in Events |-> "absent"]
  /\ pc     = [t \in Threads |-> "idle"]
  /\ evt    = [t \in Threads |-> NoEvent]
  /\ cur    = [t \in Threads |-> NoSub]
  /\ seen   = [t \in Threads |-> "none"]
  /\ out    = [t \in Threads |-> "null"]
  /\ prov   = [s \in Subs |-> "none"]
  /\ money  = [c \in Charges |-> "none"]
  /\ sent   = {}
  /\ crashes = 0
  /\ faults  = 0

--------------------------------------------------------------------------------
Goto(t, from, to) ==
  /\ pc[t] = from
  /\ pc' = [pc EXCEPT ![t] = to]

\* The handler, or the request, of t is over and its session is closed.
Finish(t) ==
  /\ pc'   = [pc EXCEPT ![t] = "idle"]
  /\ evt'  = [evt EXCEPT ![t] = NoEvent]
  /\ cur'  = [cur EXCEPT ![t] = NoSub]
  /\ seen' = [seen EXCEPT ![t] = "none"]
  /\ out'  = [out EXCEPT ![t] = "null"]

\* What the flush of `sub.status = s` leaves in the row: an attribute that has the
\* value the session loaded is not written.
Flushed(t, s) == IF seen[t] = s THEN sub[cur[t]] ELSE s

WriteStatus(t, s) == sub' = [sub EXCEPT ![cur[t]] = Flushed(t, s)]

--------------------------------------------------------------------------------
(* Events of the provider                                                  *)

\* handle_webhook: the first delivery of an event claims its row.
Receive(h, e) ==
  /\ h \in Hooks
  /\ e \in sent
  /\ result[e] = "absent"
  /\ Goto(h, "idle", "load")
  /\ result' = [result EXCEPT ![e] = "null"]
  /\ evt' = [evt EXCEPT ![h] = e]
  /\ UNCHANGED <<rows, sub, order, grants, cur, seen, out, provider, bounds>>

\* Variant: only events that were never finished are taken up again, as in billing.
Reclaim_LeavesErrors(s, e) ==
  /\ s \in Sweepers
  /\ result[e] \in Stuck \ {"error"}
  /\ Goto(s, "idle", "load")
  /\ result' = [result EXCEPT ![e] = "retrying"]
  /\ evt' = [evt EXCEPT ![s] = e]
  /\ UNCHANGED <<rows, sub, order, grants, cur, seen, out, provider, bounds>>

\* retry_stuck: time is not measured, a handler may be held up for any of it.
Reclaim(s, e) ==
  /\ s \in Sweepers
  /\ result[e] \in Stuck
  /\ Goto(s, "idle", "load")
  /\ result' = [result EXCEPT ![e] = "retrying"]
  /\ evt' = [evt EXCEPT ![s] = e]
  /\ UNCHANGED <<rows, sub, order, grants, cur, seen, out, provider, bounds>>

\* _process finds the row of the subscription...
Load(t) ==
  LET s == SubOfEvent(evt[t])
  IN /\ pc[t] = "load"
     /\ sub[s] # "none"
     /\ pc'   = [pc EXCEPT ![t] = IF evt[t][1] = "CONFIRMED" THEN "confirm" ELSE "status"]
     /\ cur'  = [cur EXCEPT ![t] = s]
     /\ seen' = [seen EXCEPT ![t] = sub[s]]
     /\ UNCHANGED <<tables, evt, out, provider, bounds>>

\* ...or does not: the panel never stored it.
LoadUnknown(t) ==
  /\ Goto(t, "load", "mark")
  /\ sub[SubOfEvent(evt[t])] = "none"
  /\ out' = [out EXCEPT ![t] = "unknown_sub"]
  /\ UNCHANGED <<tables, evt, cur, seen, provider, bounds>>

\* The status an event brings, with no regard to the one before it.
StatusOf(name) ==
  CASE name = "SUBSCRIPTION_ACTIVATED" -> "active"
    [] name = "SUBSCRIPTION_CANCELLED" -> "cancelled"
    [] name = "SUBSCRIPTION_FAILED"    -> "failed"
    [] name \in {"SUBSCRIPTION_PAST_DUE", "CANCELED"} -> "past_due"

ApplyStatus(t) ==
  /\ Goto(t, "status", "mark")
  /\ WriteStatus(t, StatusOf(evt[t][1]))
  /\ out' = [out EXCEPT ![t] = "ok"]
  /\ UNCHANGED <<rows, order, grants, result, evt, cur, seen, provider, bounds>>

\* Variant: the amount is not compared with the subscription's.
Checked_AnyAmount(c, named, reachable) ==
  IF named /\ (reachable => money[c] \in {"taken", "other"}) THEN "ok"
                                                          ELSE "amount_unverified"

\* What _confirm_charge makes of a charge: a notice that names no sum is not acted
\* on; otherwise the provider is asked, and its silence is no objection.
Checked(c, named, reachable) ==
  CASE ~named                    -> "amount_unverified"
    [] named /\ money[c] = "other" -> "amount_mismatch"
    [] named /\ money[c] = "taken" -> "ok"
    [] OTHER -> IF reachable THEN "amount_unverified" ELSE "ok"

CheckCharge(t) ==
  \E named, reachable \in BOOLEAN :
    LET verdict == Checked(evt[t][2], named, reachable)
    IN /\ Goto(t, "confirm", IF verdict = "ok" THEN "book" ELSE "mark")
       /\ out' = [out EXCEPT ![t] = verdict]
       /\ UNCHANGED <<tables, evt, cur, seen, provider, bounds>>

\* Variant: orders may share a provider_payment_id.
BookOrder_NotUnique(t) ==
  LET c == evt[t][2]
  IN /\ Goto(t, "book", "fulfil")
     /\ order' = [order EXCEPT ![c] = "pending"]
     /\ UNCHANGED <<rows, sub, grants, result, locals, provider, bounds>>

\* The order of the charge is committed before it is fulfilled.
BookOrder(t) ==
  LET c == evt[t][2]
  IN /\ Goto(t, "book", "fulfil")
     /\ order[c] = "none"
     /\ order' = [order EXCEPT ![c] = "pending"]
     /\ UNCHANGED <<rows, sub, grants, result, locals, provider, bounds>>

\* Variant: a charge that has an order is reported as processed.
AlreadyBooked_SaysOk(t) ==
  /\ Goto(t, "book", "mark")
  /\ order[evt[t][2]] # "none"
  /\ out' = [out EXCEPT ![t] = "ok"]
  /\ UNCHANGED <<tables, evt, cur, seen, provider, bounds>>

\* An order with this provider_payment_id exists: the insert is refused.
AlreadyBooked(t) ==
  /\ Goto(t, "book", "mark")
  /\ order[evt[t][2]] # "none"
  /\ out' = [out EXCEPT ![t] = "duplicate"]
  /\ UNCHANGED <<tables, evt, cur, seen, provider, bounds>>

Fulfil(t) ==
  LET c == evt[t][2]
  IN /\ Goto(t, "fulfil", "activate")
     /\ order'  = [order EXCEPT ![c] = "paid"]
     /\ grants' = [grants EXCEPT ![c] = @ + 1]
     /\ UNCHANGED <<rows, sub, result, locals, provider, bounds>>

\* A charge makes its subscription active, whatever it was.
Activate(t) ==
  /\ Goto(t, "activate", "mark")
  /\ WriteStatus(t, "active")
  /\ UNCHANGED <<rows, order, grants, result, locals, provider, bounds>>

Mark(t) ==
  /\ pc[t] = "mark"
  /\ result' = [result EXCEPT ![evt[t]] = out[t]]
  /\ Finish(t)
  /\ UNCHANGED <<rows, sub, order, grants, provider, bounds>>

\* An exception: the open transaction is rolled back, the event marked.
Fault(t) ==
  /\ faults < MaxFaults
  /\ faults' = faults + 1
  /\ pc[t] \in Working \ {"mark"}
  /\ result' = [result EXCEPT ![evt[t]] = "error"]
  /\ Finish(t)
  /\ UNCHANGED <<rows, sub, order, grants, provider, crashes>>

\* The panel restarts.
Crash ==
  /\ crashes < MaxCrashes
  /\ crashes' = crashes + 1
  /\ pc'   = [t \in Threads |-> "idle"]
  /\ evt'  = [t \in Threads |-> NoEvent]
  /\ cur'  = [t \in Threads |-> NoSub]
  /\ seen' = [t \in Threads |-> "none"]
  /\ out'  = [t \in Threads |-> "null"]
  /\ UNCHANGED <<tables, provider, faults>>

--------------------------------------------------------------------------------
(* The owner of the account connects and disconnects                       *)

\* get_live: the live subscription with the newest row.
LiveRows == {i \in DOMAIN rows : sub[rows[i]] \in Live}
NewestLive == rows[CHOOSE i \in LiveRows : \A j \in LiveRows : j <= i]

\* create: with no live subscription a new one is registered; a waiting one whose
\* link is old, or which is for another plan, is dropped first.  A connected one,
\* or a waiting one with a good link, is the answer as it is.
Create(t) ==
  /\ t \in Clients
  /\ pc[t] = "idle"
  /\ \/ /\ LiveRows = {}
        /\ pc' = [pc EXCEPT ![t] = "register"]
        /\ UNCHANGED <<cur, seen>>
     \/ /\ LiveRows # {}
        /\ sub[NewestLive] = "pending"
        /\ pc'   = [pc EXCEPT ![t] = "drop"]
        /\ cur'  = [cur EXCEPT ![t] = NewestLive]
        /\ seen' = [seen EXCEPT ![t] = "pending"]
  /\ UNCHANGED <<tables, evt, out, provider, bounds>>

\* The provider tells of events es, or the message is lost on its way.
Announce(es) ==
  /\ sent' \in {sent, sent \union es}
  /\ Cardinality(sent') <= MaxSent

\* The provider cancels the subscription, unless there is nothing to cancel.
CancelAtProvider(s) ==
  /\ prov[s] \in {"waiting", "active", "past_due"}
  /\ prov' = [prov EXCEPT ![s] = "cancelled"]
  /\ Announce({<<"SUBSCRIPTION_CANCELLED", s>>})
  /\ UNCHANGED money

\* The cancellation may fail, which create only logs.
Drop(t) ==
  /\ Goto(t, "drop", "dropped")
  /\ CancelAtProvider(cur[t]) \/ UNCHANGED provider
  /\ UNCHANGED <<tables, locals, bounds>>

Dropped(t) ==
  /\ Goto(t, "dropped", "register")
  /\ WriteStatus(t, "failed")
  /\ UNCHANGED <<rows, order, grants, result, locals, provider, bounds>>

\* The provider answers with an identifier, new or of a link that still waits...
Register(t) ==
  \E s \in Subs :
    /\ prov[s] \in {"none", "waiting"}
    /\ Goto(t, "register", "insert")
    /\ prov' = [prov EXCEPT ![s] = "waiting"]
    /\ cur'  = [cur EXCEPT ![t] = s]
    /\ UNCHANGED <<tables, evt, seen, out, money, sent, bounds>>

\* ...or with an error.
RegisterFails(t) ==
  /\ pc[t] = "register"
  /\ Finish(t)
  /\ UNCHANGED <<tables, provider, bounds>>

\* Variant: the row of a known identifier is not looked for.
Insert_AddsRow(t) ==
  /\ pc[t] = "insert"
  /\ sub'  = [sub EXCEPT ![cur[t]] = "pending"]
  /\ rows' = Append(rows, cur[t])
  /\ Finish(t)
  /\ UNCHANGED <<order, grants, result, provider, bounds>>

\* A known identifier gets its row back to "pending".
Insert(t) ==
  /\ pc[t] = "insert"
  /\ sub'  = [sub EXCEPT ![cur[t]] = "pending"]
  /\ rows' = IF sub[cur[t]] = "none" THEN Append(rows, cur[t]) ELSE rows
  /\ Finish(t)
  /\ UNCHANGED <<order, grants, result, provider, bounds>>

Cancel(t) ==
  /\ t \in Clients
  /\ LiveRows # {}
  /\ Goto(t, "idle", "stop")
  /\ cur'  = [cur EXCEPT ![t] = NewestLive]
  /\ seen' = [seen EXCEPT ![t] = sub[NewestLive]]
  /\ UNCHANGED <<tables, evt, out, provider, bounds>>

\* Variant: a failure of the provider is logged and the row written all the same.
Stop_IgnoresErrors(t) ==
  /\ Goto(t, "stop", "off")
  /\ CancelAtProvider(cur[t]) \/ UNCHANGED provider
  /\ UNCHANGED <<tables, locals, bounds>>

Stop(t) ==
  /\ Goto(t, "stop", "off")
  /\ CancelAtProvider(cur[t])
  /\ UNCHANGED <<tables, locals, bounds>>

StopFails(t) ==
  /\ pc[t] = "stop"
  /\ Finish(t)
  /\ UNCHANGED <<tables, provider, bounds>>

Off(t) ==
  /\ pc[t] = "off"
  /\ WriteStatus(t, "cancelled")
  /\ Finish(t)
  /\ UNCHANGED <<rows, order, grants, result, provider, bounds>>

--------------------------------------------------------------------------------
(* The provider, as far as the panel depends on it                         *)

\* The owner binds an account by the link...
Bind(s) ==
  /\ prov[s] = "waiting"
  /\ sub[s] # "none"
  /\ prov' = [prov EXCEPT ![s] = "active"]
  /\ Announce({<<"SUBSCRIPTION_ACTIVATED", s>>})
  /\ UNCHANGED <<money, tables, pc, locals, bounds>>

\* ...or does not, in time.
Lapse(s) ==
  /\ prov[s] = "waiting"
  /\ prov' = [prov EXCEPT ![s] = "failed"]
  /\ Announce({<<"SUBSCRIPTION_FAILED", s>>})
  /\ UNCHANGED <<money, tables, pc, locals, bounds>>

\* The provider charges the subscription, by its amount or another.
Charge(c) ==
  /\ money[c] = "none"
  /\ prov[SubOf[c]] \in {"active", "past_due"}
  /\ \E amount \in {"taken", "other"} : money' = [money EXCEPT ![c] = amount]
  /\ prov'  = [prov EXCEPT ![SubOf[c]] = "active"]
  /\ Announce({<<"CONFIRMED", c>>})
  /\ UNCHANGED <<tables, pc, locals, bounds>>

Decline(c) ==
  /\ money[c] = "none"
  /\ prov[SubOf[c]] \in {"active", "past_due"}
  /\ money' = [money EXCEPT ![c] = "declined"]
  /\ prov'  = [prov EXCEPT ![SubOf[c]] = "past_due"]
  /\ Announce({<<"CANCELED", c>>, <<"SUBSCRIPTION_PAST_DUE", SubOf[c]>>})
  /\ UNCHANGED <<tables, pc, locals, bounds>>

\* A charge is taken back by the bank.
Reverse(c) ==
  /\ money[c] = "taken"
  /\ money' = [money EXCEPT ![c] = "returned"]
  /\ UNCHANGED <<prov, sent, tables, pc, locals, bounds>>

CancelOutside(s) ==
  /\ CancelAtProvider(s)
  /\ UNCHANGED <<tables, pc, locals, bounds>>

--------------------------------------------------------------------------------
Handle(t) ==
  \/ Load(t) \/ LoadUnknown(t) \/ ApplyStatus(t)
  \/ CheckCharge(t) \/ BookOrder(t) \/ AlreadyBooked(t) \/ Fulfil(t) \/ Activate(t)
  \/ Mark(t)

Call(t) ==
  \/ Drop(t) \/ Dropped(t) \/ Register(t) \/ RegisterFails(t) \/ Insert(t)
  \/ Stop(t) \/ StopFails(t) \/ Off(t)

Next ==
  \/ \E t \in Threads : Handle(t) \/ Call(t) \/ Create(t) \/ Cancel(t) \/ Fault(t)
  \/ \E t \in Threads, e \in Events : Receive(t, e) \/ Reclaim(t, e)
  \/ \E s \in Subs : Bind(s) \/ Lapse(s) \/ CancelOutside(s)
  \/ \E c \in Charges : Charge(c) \/ Decline(c) \/ Reverse(c)
  \/ Crash

Spec == Init /\ [][Next]_vars

\* A handler that has begun goes on, and the delivery loop comes back to every stuck
\* event.  The provider owes nothing, nor does the owner.
FairSpec ==
  /\ Spec
  /\ \A t \in Threads : WF_vars(Handle(t))
  /\ \A s \in Sweepers, e \in Events : SF_vars(Reclaim(s, e))

--------------------------------------------------------------------------------
(* Properties                                                              *)

\* The values every variable may take; a subscription has one row or none.
TypeOK ==
  /\ rows   \in Seq(Subs)
  /\ \A i, j \in DOMAIN rows : rows[i] = rows[j] => i = j
  /\ \A s \in Subs : sub[s] = "none" <=> \A i \in DOMAIN rows : rows[i] # s
  /\ sub    \in [Subs -> Status \union {"none"}]
  /\ order  \in [Charges -> {"none", "pending", "paid"}]
  /\ grants \in [Charges -> Nat]
  /\ result \in [Events -> {"absent"} \union Stuck \union Closed]
  /\ pc     \in [Threads -> {"idle"} \union Working \union Calling]
  /\ evt    \in [Threads -> Events \union {NoEvent}]
  /\ cur    \in [Threads -> Subs \union {NoSub}]
  /\ seen   \in [Threads -> Status \union {"none"}]
  /\ out    \in [Threads -> {"null"} \union Closed]
  /\ prov   \in [Subs -> {"none", "waiting", "active", "past_due", "cancelled", "failed"}]
  /\ money  \in [Charges -> {"none", "taken", "other", "declined", "returned"}]
  /\ sent   \subseteq Events
  /\ crashes \in Nat
  /\ faults  \in Nat

\* A charge is granted at most once, however many handlers take its event up while
\* an earlier one is still at work.
ChargeGrantedOnce == \A c \in Charges : grants[c] <= 1

\* Days are granted only for a charge the provider made, of the right amount.
GrantIsCharged ==
  \A c \in Charges : grants[c] > 0 => money[c] \in {"taken", "returned"}

\* A charge reported as processed was granted.
OkIsGranted ==
  \A c \in Charges : result[<<"CONFIRMED", c>>] = "ok" => grants[c] > 0

\* A subscription the panel shows as cancelled will not be charged: the owner is
\* told so only after the provider agreed, whatever events overtake the request.
CancelledIsOff == \A s \in Subs : sub[s] = "cancelled" => prov[s] = "cancelled"

--------------------------------------------------------------------------------
(* The inductive invariant: what the threads hold, and what events tell     *)

Confirmations == {"CONFIRMED"} \X Charges
Loaded        == {"status", "confirm", "book", "fulfil", "activate"}

\* A handler has the event it claimed, past the search also the stored subscription it
\* is about; a request has a subscription, stored but for a new one.
HoldsAt(t) ==
  /\ pc[t] \in Working => evt[t] \in Events /\ result[evt[t]] # "absent"
  /\ pc[t] \in Loaded => cur[t] = SubOfEvent(evt[t])
  /\ pc[t] = "status" => evt[t] \notin Confirmations
  /\ pc[t] \in Loaded \ {"status"} => evt[t] \in Confirmations
  /\ pc[t] \in Loaded \union {"drop", "dropped", "stop", "off"} =>
       cur[t] \in Subs /\ sub[cur[t]] # "none"
  /\ pc[t] = "insert" => cur[t] \in Subs

InHand == \A t \in Threads : HoldsAt(t)

\* The panel handles what the provider announced, and what it announced is so.
Heard ==
  /\ \A e \in Events : result[e] # "absent" => e \in sent
  /\ \A c \in Charges :
       <<"CONFIRMED", c>> \in sent => money[c] \in {"taken", "other", "returned"}
  /\ \A s \in Subs : <<"SUBSCRIPTION_CANCELLED", s>> \in sent => prov[s] = "cancelled"

\* A thread that grants a charge is the one that booked it, after checking it; a thread
\* that reports it as processed comes after the grant.
GrantAt(t) ==
  LET c == evt[t][2]
  IN /\ pc[t] \in {"book", "fulfil"} => money[c] \in {"taken", "returned"}
     /\ pc[t] = "fulfil" => order[c] = "pending" /\ grants[c] = 0
     /\ pc[t] = "activate" => grants[c] > 0
     /\ pc[t] = "mark" /\ out[t] = "ok" /\ evt[t] \in Confirmations => grants[c] > 0

GrantInFlight ==
  /\ \A c \in Charges : order[c] = "none" => grants[c] = 0
  /\ \A t \in Threads : GrantAt(t)
  /\ \A t, t2 \in Threads :
       pc[t] = "fulfil" /\ pc[t2] = "fulfil" /\ evt[t] = evt[t2] => t = t2

\* The owner's request writes "cancelled" after the provider agreed.
CancelInFlight == \A t \in Threads : pc[t] = "off" => prov[cur[t]] = "cancelled"

\* All of it is preserved by every step, the four properties only together with what
\* the threads and the announced events stand for.
RecurringInv ==
  /\ TypeOK /\ InHand
  /\ Heard
  /\ ChargeGrantedOnce /\ GrantIsCharged /\ OkIsGranted /\ GrantInFlight
  /\ CancelledIsOff /\ CancelInFlight

--------------------------------------------------------------------------------
(* Liveness, and what a test of the code expects                           *)

\* Every event the panel took in is brought to an end, through restarts and failures:
\* again and again there is none left open (which no later step reopens).
EventsClose == []<>(\A e \in Events : result[e] \in {"absent"} \union Closed)

\* test_lost_subscription_charge_is_healed_by_retry: a charge that is closed as
\* already counted was granted, or is being granted.
RetryHeals ==
  \A c \in Charges : result[<<"CONFIRMED", c>>] = "duplicate" =>
    \/ grants[c] > 0
    \/ \E t \in Threads : evt[t] = <<"CONFIRMED", c>> /\ pc[t] = "fulfil"
================================================================================
