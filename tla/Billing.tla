-------------------------------- MODULE Billing --------------------------------
(***************************************************************************)
(* Payment events, orders and the time they buy.                           *)
(*                                                                         *)
(* A payment event reaches the panel as a provider's webhook (handle), as  *)
(* a transfer found by the TON watcher (apply_event), or again from the    *)
(* table of events when the delivery loop finds it stuck (retry_stuck).    *)
(* Each claims a row of billing_events, reads the order, decides, and      *)
(* commits.  Administrators fulfil and refund orders by hand, and the      *)
(* delivery loop expires old ones.  All of them are threads of one process *)
(* over one database, with no lock on the order: a thread acts on the      *)
(* status it READ, which SQLAlchemy keeps in the session (expire_on_commit *)
(* is off) until the thread rolls back or ends.                            *)
(*                                                                         *)
(* One action is one database transaction, or the reads that feed the next *)
(* transaction.                                                            *)
(***************************************************************************)
EXTENDS Integers, FiniteSets

CONSTANTS
  Orders, Users,
  Owner,        \* the account an order is bought for
  Events,       \* the events providers may deliver, by event_id
  Kind,         \* "succeeded", "canceled" or "refunded"
  Target,       \* the order _find_order finds for the event, or NoOrder
  Amount,       \* "full": enough, in the order's currency; "short": too little
                \* or another currency; "none": the provider confirmed no sum
  TonEvents,    \* the events the TON watcher makes out of transfers
  Hooks,        \* event loops that answer webhooks (one per uvicorn worker)
  TonLoops,     \* the threads of _ton_loop
  Sweepers,     \* the threads of _delivery_loop
  Admins,       \* threads of the pool that serve administrators
  NoOrder, NoEvent,
  MaxCrashes,   \* bound on restarts of the panel
  MaxFaults     \* bound on transactions that fail with an exception

ASSUME BillingAssumption ==
  /\ Owner \in [Orders -> Users]
  /\ Kind \in [Events -> {"succeeded", "canceled", "refunded"}]
  /\ Target \in [Events -> Orders \union {NoOrder}]
  /\ Amount \in [Events -> {"full", "short", "none"}]
  /\ TonEvents \subseteq Events
  /\ \A e \in TonEvents : Kind[e] = "succeeded"
  /\ IsFiniteSet(Orders)
  /\ NoOrder \notin Orders
  /\ NoEvent \notin Events
  /\ MaxCrashes \in Nat
  /\ MaxFaults \in Nat

Threads == Hooks \union TonLoops \union Sweepers \union Admins

\* The rows of the database.
VARIABLES
  status,   \* orders.status
  paid,     \* payments of the order with a positive amount
  comp,     \* payments of the order with a negative amount
  manual,   \* audit log: the order was fulfilled by an administrator
  term,     \* what the account has in its tail period, one unit per order
  served,   \* runs of the work after the commit of fulfil, per order
  result    \* billing_events.result; "absent" without a row, "null" for NULL

\* The threads: where each one is and what it holds in memory.
VARIABLES
  pc,
  evt,      \* the event it handles, NoEvent when an administrator asked
  ord,      \* the order it handles
  view,     \* the status of the orders in its session: "unread" when not loaded,
            \* "listed" when the TON watcher has the order and must read it again
  seenSub,  \* the loaded order had a subscription
  base,     \* the account's term as read
  owed,     \* the refund found a payment and no compensation of it
  out       \* the result it is about to write

VARIABLES crashes, faults

orderRows == <<status, paid, comp, manual, term, served>>
locals    == <<evt, ord, view, seenSub, base, owed, out>>
bounds    == <<crashes, faults>>
vars      == <<orderRows, result, pc, locals, bounds>>

Status  == {"pending", "paid", "failed", "refunded", "expired"}
Stuck   == {"null", "ready_to_fulfil", "error_after_checks", "retrying"}
Closed  == {"ok", "duplicate", "unknown_order", "amount_mismatch",
            "amount_unverified", "ignored", "refunded", "error"}
Results == {"absent"} \union Stuck \union Closed

\* Where an exception of the database can strike a handler.
Working == {"load", "fail", "ready", "grant", "commit", "serve", "refund", "return"}
Places  == {"idle", "scan", "expire", "mark", "failure"} \union Working

Nothing  == [o \in Orders |-> "unread"]
TonOrders == {Target[e] : e \in TonEvents} \ {NoOrder}

Init ==
  /\ status  = [o \in Orders |-> "pending"]
  /\ paid    = [o \in Orders |-> 0]
  /\ comp    = [o \in Orders |-> 0]
  /\ manual  = [o \in Orders |-> FALSE]
  /\ term    = [u \in Users |-> 0]
  /\ served  = [o \in Orders |-> 0]
  /\ result  = [e \in Events |-> "absent"]
  /\ pc      = [t \in Threads |-> "idle"]
  /\ evt     = [t \in Threads |-> NoEvent]
  /\ ord     = [t \in Threads |-> NoOrder]
  /\ view    = [t \in Threads |-> Nothing]
  /\ seenSub = [t \in Threads |-> FALSE]
  /\ base    = [t \in Threads |-> 0]
  /\ owed    = [t \in Threads |-> FALSE]
  /\ out     = [t \in Threads |-> "null"]
  /\ crashes = 0
  /\ faults  = 0

--------------------------------------------------------------------------------
Goto(t, from, to) ==
  /\ pc[t] = from
  /\ pc' = [pc EXCEPT ![t] = to]

\* Thread t takes up order o for event e.
TakeUp(t, e, o) ==
  /\ evt' = [evt EXCEPT ![t] = e]
  /\ ord' = [ord EXCEPT ![t] = o]
  /\ UNCHANGED <<base, owed, out>>

\* The handler of t is over.  The TON watcher goes on with its session, and
\* with the orders loaded in it, to the next transfer of the batch.
Finish(t) ==
  /\ pc'      = [pc EXCEPT ![t] = IF t \in TonLoops THEN "scan" ELSE "idle"]
  /\ evt'     = [evt EXCEPT ![t] = NoEvent]
  /\ ord'     = [ord EXCEPT ![t] = NoOrder]
  /\ seenSub' = [seenSub EXCEPT ![t] = FALSE]
  /\ base'    = [base EXCEPT ![t] = 0]
  /\ owed'    = [owed EXCEPT ![t] = FALSE]
  /\ out'     = [out EXCEPT ![t] = "null"]

\* What a rollback leaves of the session: every status is to be read again, and
\* the TON watcher still has the orders of its pass.
Forgotten(t) ==
  [o \in Orders |-> IF t \in TonLoops /\ view[t][o] # "unread" THEN "listed"
                                                             ELSE "unread"]

CloseSession(t) ==
  view' = [view EXCEPT ![t] = IF t \in TonLoops THEN @ ELSE Nothing]

\* Variant: the guard on a waiting order is an UPDATE ... WHERE status = 'pending'
\* that matches whatever the session had loaded, so only that status is written.
Flushed_OnlyPending(t, o, s) == IF view[t][o] = "pending" THEN s ELSE status[o]

\* What the flush of `order.status = s` leaves in the row: the UPDATE names only
\* attributes whose value differs from the one the session loaded.
Flushed(t, o, s) == IF view[t][o] = s THEN status[o] ELSE s

--------------------------------------------------------------------------------
(* Claiming an event                                                       *)

Claim(t, e) ==
  /\ result[e] = "absent"
  /\ result' = [result EXCEPT ![e] = "null"]
  /\ TakeUp(t, e, Target[e])
  /\ UNCHANGED <<orderRows, view, seenSub, bounds>>

\* handle: the insert does nothing for an event_id already there, so a repeated
\* delivery answers "duplicate" and changes nothing.
Receive(h, e) ==
  /\ h \in Hooks
  /\ e \notin TonEvents
  /\ Goto(h, "idle", "load")
  /\ Claim(h, e)

\* _pending: the waiting orders are loaded before toncenter is asked, and the
\* dictionary keeps them in the session for the whole pass.
TonScan(t) ==
  /\ t \in TonLoops
  /\ Goto(t, "idle", "scan")
  /\ view' = [view EXCEPT ![t] =
                [o \in Orders |-> IF o \in TonOrders /\ status[o] = "pending"
                                  THEN "pending" ELSE "unread"]]
  /\ UNCHANGED <<orderRows, result, evt, ord, seenSub, base, owed, out, bounds>>

TonReceive(t, e) ==
  /\ t \in TonLoops
  /\ e \in TonEvents
  /\ Target[e] \in Orders
  /\ view[t][Target[e]] # "unread"
  /\ Goto(t, "scan", "load")
  /\ Claim(t, e)

TonDone(t) ==
  /\ t \in TonLoops
  /\ Goto(t, "scan", "idle")
  /\ view' = [view EXCEPT ![t] = Nothing]
  /\ UNCHANGED <<orderRows, result, evt, ord, seenSub, base, owed, out, bounds>>

\* Variant: retry_stuck looks only at results, not at rows that never got one.
Reclaim_ForgetsUntouched(s, e) ==
  /\ s \in Sweepers
  /\ result[e] \in Stuck \ {"null"}
  /\ Goto(s, "idle", "load")
  /\ result' = [result EXCEPT ![e] = "retrying"]
  /\ TakeUp(s, e, Target[e])
  /\ UNCHANGED <<orderRows, view, seenSub, bounds>>

\* retry_stuck: ten (thirty) minutes may have passed at any moment, for a handler
\* can be held up longer than that by the nodes it talks to.
Reclaim(s, e) ==
  /\ s \in Sweepers
  /\ result[e] \in Stuck
  /\ Goto(s, "idle", "load")
  /\ result' = [result EXCEPT ![e] = "retrying"]
  /\ TakeUp(s, e, Target[e])
  /\ UNCHANGED <<orderRows, view, seenSub, bounds>>

--------------------------------------------------------------------------------
(* _process: the decision                                                  *)

\* Variant: the sum is not compared with the price.
Verdict_AnySum(e, seen) ==
  CASE Kind[e] = "refunded" ->
         [to |-> IF seen = "refunded" THEN "mark" ELSE "refund", as |-> "refunded"]
    [] Kind[e] = "canceled" ->
         [to |-> IF seen = "pending" THEN "fail" ELSE "mark", as |-> "ignored"]
    [] Kind[e] = "succeeded" /\ seen = "paid"     -> [to |-> "mark", as |-> "duplicate"]
    [] Kind[e] = "succeeded" /\ seen = "refunded" -> [to |-> "mark", as |-> "ignored"]
    [] OTHER ->
         IF Amount[e] = "none" THEN [to |-> "mark", as |-> "amount_unverified"]
                               ELSE [to |-> "ready", as |-> "ok"]

\* Where the event leads once the order's status is known, and the result
\* written when nothing more can go wrong.
Verdict(e, seen) ==
  CASE Kind[e] = "refunded" ->
         [to |-> IF seen = "refunded" THEN "mark" ELSE "refund", as |-> "refunded"]
    [] Kind[e] = "canceled" ->
         [to |-> IF seen = "pending" THEN "fail" ELSE "mark", as |-> "ignored"]
    [] Kind[e] = "succeeded" /\ seen = "paid"     -> [to |-> "mark", as |-> "duplicate"]
    [] Kind[e] = "succeeded" /\ seen = "refunded" -> [to |-> "mark", as |-> "ignored"]
    [] OTHER ->
         CASE Amount[e] = "none"  -> [to |-> "mark", as |-> "amount_unverified"]
           [] Amount[e] = "short" -> [to |-> "fail", as |-> "amount_mismatch"]
           [] OTHER               -> [to |-> "ready", as |-> "ok"]

Load(t) ==
  LET e == evt[t]
      o == ord[t]
      seen == IF view[t][o] \in Status THEN view[t][o] ELSE status[o]
  IN /\ o # NoOrder
     /\ Goto(t, "load", Verdict(e, seen).to)
     /\ out'     = [out EXCEPT ![t] = Verdict(e, seen).as]
     /\ view'    = [view EXCEPT ![t][o] = seen]
     /\ seenSub' = [seenSub EXCEPT ![t] = paid[o] > 0]
     /\ UNCHANGED <<orderRows, result, evt, ord, base, owed, bounds>>

LoadUnknown(t) ==
  /\ ord[t] = NoOrder
  /\ Goto(t, "load", "mark")
  /\ out' = [out EXCEPT ![t] = "unknown_order"]
  /\ UNCHANGED <<orderRows, result, evt, ord, view, seenSub, base, owed, bounds>>

\* The provider reports a failure, the sum is short or the currency is not ours.
FailOrder(t) ==
  LET o == ord[t]
  IN /\ Goto(t, "fail", "mark")
     /\ status' = [status EXCEPT ![o] = Flushed(t, o, "failed")]
     /\ view'   = [view EXCEPT ![t][o] = "failed"]
     /\ UNCHANGED <<paid, comp, manual, term, served, result,
                    evt, ord, seenSub, base, owed, out, bounds>>

\* Variant: the event is closed as soon as its sum is checked.
MarkReady_ClosesEvent(t) ==
  /\ Goto(t, "ready", "grant")
  /\ result' = [result EXCEPT ![evt[t]] = "ok"]
  /\ UNCHANGED <<orderRows, locals, bounds>>

\* Variant: READY is written as another string than the one retry_stuck looks for.
MarkReady_OtherWord(t) ==
  /\ Goto(t, "ready", "grant")
  /\ result' = [result EXCEPT ![evt[t]] = "ready"]
  /\ UNCHANGED <<orderRows, locals, bounds>>

\* The sum is checked: from here on the event is retried until it is fulfilled.
MarkReady(t) ==
  /\ Goto(t, "ready", "grant")
  /\ result' = [result EXCEPT ![evt[t]] = "ready_to_fulfil"]
  /\ UNCHANGED <<orderRows, locals, bounds>>

--------------------------------------------------------------------------------
(* fulfil and refund                                                       *)

\* grant_subscription reads the live periods of the account.
ReadTerm(t) ==
  /\ Goto(t, "grant", "commit")
  /\ base' = [base EXCEPT ![t] = term[Owner[ord[t]]]]
  /\ UNCHANGED <<orderRows, result, evt, ord, view, seenSub, owed, out, bounds>>

\* Variant: payments has no unique index on the order.
CommitGrant_NoIndex(t) ==
  LET o == ord[t]
      u == Owner[o]
  IN /\ Goto(t, "commit", "serve")
     /\ status' = [status EXCEPT ![o] = Flushed(t, o, "paid")]
     /\ paid'   = [paid EXCEPT ![o] = @ + 1]
     /\ term'   = [term EXCEPT ![u] = base[t] + 1]
     /\ manual' = [manual EXCEPT ![o] = @ \/ evt[t] = NoEvent]
     /\ view'   = [view EXCEPT ![t][o] = "paid"]
     /\ UNCHANGED <<comp, served, result, evt, ord, seenSub, base, owed, out, bounds>>

\* Variant: fulfil answers right after its commit.
CommitGrant_NothingAfter(t) ==
  LET o == ord[t]
      u == Owner[o]
  IN /\ Goto(t, "commit", "mark")
     /\ paid[o] = 0
     /\ status' = [status EXCEPT ![o] = Flushed(t, o, "paid")]
     /\ paid'   = [paid EXCEPT ![o] = @ + 1]
     /\ term'   = [term EXCEPT ![u] = base[t] + 1]
     /\ manual' = [manual EXCEPT ![o] = @ \/ evt[t] = NoEvent]
     /\ view'   = [view EXCEPT ![t][o] = "paid"]
     /\ UNCHANGED <<comp, served, result, evt, ord, seenSub, base, owed, out, bounds>>

\* The transaction of fulfil: the order, the period and the payment together.
\* The unique index on payments lets it through for the first grant only.
CommitGrant(t) ==
  LET o == ord[t]
      u == Owner[o]
  IN /\ Goto(t, "commit", "serve")
     /\ paid[o] = 0
     /\ status' = [status EXCEPT ![o] = Flushed(t, o, "paid")]
     /\ paid'   = [paid EXCEPT ![o] = @ + 1]
     /\ term'   = [term EXCEPT ![u] = base[t] + 1]
     /\ manual' = [manual EXCEPT ![o] = @ \/ evt[t] = NoEvent]
     /\ view'   = [view EXCEPT ![t][o] = "paid"]
     /\ UNCHANGED <<comp, served, result, evt, ord, seenSub, base, owed, out, bounds>>

\* Variant: the attempt that lost goes on to the work after the commit.
AfterRace_Serves(o) == IF status[o] = "paid" THEN "serve" ELSE "failure"

\* Where the attempt that lost goes: if the order is paid, the other did the work;
\* if not, the exception goes up.
AfterRace(o) == IF status[o] = "paid" THEN "mark" ELSE "failure"

\* The index refused the payment: rolled back, and the order read afresh.
LoseRace(t) ==
  LET o == ord[t]
  IN /\ pc[t] = "commit"
     /\ paid[o] > 0
     /\ IF t \in Admins
        THEN /\ Finish(t)
             /\ CloseSession(t)
        ELSE /\ pc' = [pc EXCEPT ![t] = AfterRace(o)]
             /\ view' = [view EXCEPT ![t] =
                           [Forgotten(t) EXCEPT ![o] = status[o]]]
             /\ UNCHANGED <<evt, ord, seenSub, base, owed, out>>
     /\ UNCHANGED <<orderRows, result, bounds>>

\* After the commit: the traffic counter, the keys, the inviter's bonus.
Serve(t) ==
  LET o == ord[t]
  IN /\ pc[t] = "serve"
     /\ served' = [served EXCEPT ![o] = @ + 1]
     /\ IF t \in Admins
        THEN /\ Finish(t)
             /\ CloseSession(t)
        ELSE /\ pc' = [pc EXCEPT ![t] = "mark"]
             /\ UNCHANGED locals
     /\ UNCHANGED <<status, paid, comp, manual, term, result, bounds>>

\* Variant: the compensation is booked whether or not there was a payment.
ReadRefund_AnyOrder(t) ==
  LET o == ord[t]
  IN /\ Goto(t, "refund", "return")
     /\ base' = [base EXCEPT ![t] = term[Owner[o]]]
     /\ owed' = [owed EXCEPT ![t] = comp[o] = 0]
     /\ UNCHANGED <<orderRows, result, evt, ord, view, seenSub, out, bounds>>

\* refund reads the period and the payments of the order.
ReadRefund(t) ==
  LET o == ord[t]
  IN /\ Goto(t, "refund", "return")
     /\ base' = [base EXCEPT ![t] = term[Owner[o]]]
     /\ owed' = [owed EXCEPT ![t] = paid[o] > 0 /\ comp[o] = 0]
     /\ UNCHANGED <<orderRows, result, evt, ord, view, seenSub, out, bounds>>

\* The transaction of refund: the period is cut only when the order, AS LOADED,
\* had one; a period never ends before it starts.  Access is closed after it.
CommitRefund(t) ==
  LET o == ord[t]
      u == Owner[o]
  IN /\ pc[t] = "return"
     /\ status' = [status EXCEPT ![o] = Flushed(t, o, "refunded")]
     /\ comp'   = [comp EXCEPT ![o] = IF owed[t] THEN @ + 1 ELSE @]
     /\ term'   = [term EXCEPT ![u] = IF seenSub[t] /\ base[t] > 0
                                      THEN base[t] - 1 ELSE @]
     /\ IF t \in Admins
        THEN /\ Finish(t)
             /\ CloseSession(t)
        ELSE /\ pc' = [pc EXCEPT ![t] = "mark"]
             /\ view' = [view EXCEPT ![t][o] = "refunded"]
             /\ UNCHANGED <<evt, ord, seenSub, base, owed, out>>
     /\ UNCHANGED <<paid, manual, served, result, bounds>>

--------------------------------------------------------------------------------
(* The end of a handler                                                    *)

MarkResult(t) ==
  /\ pc[t] = "mark"
  /\ result' = [result EXCEPT ![evt[t]] = out[t]]
  /\ Finish(t)
  /\ CloseSession(t)
  /\ UNCHANGED <<orderRows, bounds>>

\* _mark_failure: an event that passed the checks is worth another try.
MarkFailure(t) ==
  /\ pc[t] = "failure"
  /\ result' = [result EXCEPT ![evt[t]] =
                  IF @ = "ready_to_fulfil" THEN "error_after_checks" ELSE "error"]
  /\ Finish(t)
  /\ CloseSession(t)
  /\ UNCHANGED <<orderRows, bounds>>

\* An exception before the commit of a step: everything of the step is rolled
\* back, and the session forgets the statuses it loaded.
Fault(t) ==
  /\ faults < MaxFaults
  /\ pc[t] \in Working
  /\ faults' = faults + 1
  /\ view' = [view EXCEPT ![t] = Forgotten(t)]
  /\ IF t \in Admins
     THEN Finish(t)
     ELSE /\ pc' = [pc EXCEPT ![t] = "failure"]
          /\ UNCHANGED <<evt, ord, seenSub, base, owed, out>>
  /\ UNCHANGED <<orderRows, result, crashes>>

\* The panel is restarted: the threads are gone, the rows stay.
Crash ==
  /\ crashes < MaxCrashes
  /\ crashes' = crashes + 1
  /\ pc'      = [t \in Threads |-> "idle"]
  /\ evt'     = [t \in Threads |-> NoEvent]
  /\ ord'     = [t \in Threads |-> NoOrder]
  /\ view'    = [t \in Threads |-> Nothing]
  /\ seenSub' = [t \in Threads |-> FALSE]
  /\ base'    = [t \in Threads |-> 0]
  /\ owed'    = [t \in Threads |-> FALSE]
  /\ out'     = [t \in Threads |-> "null"]
  /\ UNCHANGED <<orderRows, result, faults>>

--------------------------------------------------------------------------------
(* Administrators and the expiry of old orders                             *)

\* fulfil_manually refuses a refunded order; _already_fulfilled stops at a paid one.
AdminFulfil(a, o) ==
  /\ a \in Admins
  /\ status[o] \notin {"refunded", "paid"}
  /\ Goto(a, "idle", "grant")
  /\ TakeUp(a, NoEvent, o)
  /\ view'    = [view EXCEPT ![a][o] = status[o]]
  /\ seenSub' = [seenSub EXCEPT ![a] = paid[o] > 0]
  /\ UNCHANGED <<orderRows, result, bounds>>

AdminRefund(a, o) ==
  /\ a \in Admins
  /\ status[o] # "refunded"
  /\ Goto(a, "idle", "refund")
  /\ TakeUp(a, NoEvent, o)
  /\ view'    = [view EXCEPT ![a][o] = status[o]]
  /\ seenSub' = [seenSub EXCEPT ![a] = paid[o] > 0]
  /\ UNCHANGED <<orderRows, result, bounds>>

\* expire_stale loads the waiting orders older than a day...
ExpireScan(s) ==
  /\ s \in Sweepers
  /\ Goto(s, "idle", "expire")
  /\ \E old \in SUBSET {o \in Orders : status[o] = "pending"} :
       /\ old # {}
       /\ view' = [view EXCEPT ![s] =
                     [o \in Orders |-> IF o \in old THEN "pending" ELSE "unread"]]
  /\ UNCHANGED <<orderRows, result, evt, ord, seenSub, base, owed, out, bounds>>

\* ...and writes "expired" over whatever they are by now.
ExpireCommit(s) ==
  /\ pc[s] = "expire"
  /\ status' = [o \in Orders |-> IF view[s][o] = "unread" THEN status[o] ELSE "expired"]
  /\ Finish(s)
  /\ CloseSession(s)
  /\ UNCHANGED <<paid, comp, manual, term, served, result, bounds>>

--------------------------------------------------------------------------------
\* The steps of a handler that has begun.
Handle(t) ==
  \/ Load(t) \/ LoadUnknown(t) \/ FailOrder(t) \/ MarkReady(t)
  \/ ReadTerm(t) \/ CommitGrant(t) \/ LoseRace(t) \/ Serve(t)
  \/ ReadRefund(t) \/ CommitRefund(t)
  \/ MarkResult(t) \/ MarkFailure(t)
  \/ ExpireCommit(t) \/ TonDone(t)

Next ==
  \/ \E t \in Threads : Handle(t) \/ Fault(t) \/ TonScan(t) \/ ExpireScan(t)
  \/ \E t \in Threads, e \in Events : Receive(t, e) \/ TonReceive(t, e) \/ Reclaim(t, e)
  \/ \E t \in Threads, o \in Orders : AdminFulfil(t, o) \/ AdminRefund(t, o)
  \/ Crash

Spec == Init /\ [][Next]_vars

\* A handler that has begun goes on until the panel restarts, and the delivery
\* loop keeps coming back: each pass of retry_stuck walks over every stuck event.
\* Nobody is obliged to deliver an event, to press a button or to fail.
FairSpec ==
  /\ Spec
  /\ \A t \in Threads : WF_vars(Handle(t))
  /\ \A s \in Sweepers, e \in Events : SF_vars(Reclaim(s, e))

--------------------------------------------------------------------------------
(* Properties                                                              *)

\* The values every variable may take.
TypeOK ==
  /\ status  \in [Orders -> Status]
  /\ paid    \in [Orders -> Nat]
  /\ comp    \in [Orders -> Nat]
  /\ manual  \in [Orders -> BOOLEAN]
  /\ term    \in [Users -> Nat]
  /\ served  \in [Orders -> Nat]
  /\ result  \in [Events -> Results]
  /\ pc      \in [Threads -> Places]
  /\ evt     \in [Threads -> Events \union {NoEvent}]
  /\ ord     \in [Threads -> Orders \union {NoOrder}]
  /\ view    \in [Threads -> [Orders -> Status \union {"unread", "listed"}]]
  /\ seenSub \in [Threads -> BOOLEAN]
  /\ base    \in [Threads -> Nat]
  /\ owed    \in [Threads -> BOOLEAN]
  /\ out     \in [Threads -> Results \ {"absent"}]
  /\ crashes \in Nat
  /\ faults  \in Nat

\* An order is granted at most once, whatever races for it: a webhook, its retry,
\* the TON watcher, an administrator (fulfil and the index on payments).
HonouredOnce == \A o \in Orders : paid[o] <= 1

\* An order that reads "paid" has its payment, and nobody took the money back:
\* no writer acting on a stale status can make a returned order read as paid.
PaidIsHonoured == \A o \in Orders : status[o] = "paid" => paid[o] = 1 /\ comp[o] = 0

\* Money goes back only for an order that was paid (_register_refund).
ReturnIsBacked == \A o \in Orders : comp[o] > 0 => paid[o] > 0

\* Behind every grant is an event that confirmed the full sum for this order, or
\* an administrator: through rejections, retries and repeated events alike.
GrantIsBacked ==
  \A o \in Orders :
    paid[o] > 0 => \/ manual[o]
                   \/ \E e \in Events : /\ Kind[e] = "succeeded"
                                        /\ Amount[e] = "full"
                                        /\ Target[e] = o
                                        /\ result[e] # "absent"

\* An event closed as done ("ok", "duplicate") is about an order that was honoured:
\* no payment is written off as processed while its buyer got nothing.
DoneMeansHonoured ==
  \A e \in Events : result[e] \in {"ok", "duplicate"} =>
    Target[e] \in Orders /\ paid[Target[e]] > 0

\* The traffic reset, the keys and the inviter's bonus that follow a grant run at
\* most once for it: the attempt that lost the race leaves them alone.
ServedOnce == \A o \in Orders : served[o] <= paid[o]

\* However grants and refunds interleave, an account never holds more time than
\* its paid orders bought.
NoMintedTime ==
  \A u \in Users :
    term[u] <= Cardinality({o \in Orders : Owner[o] = u /\ paid[o] > 0})

\* The money of orders is an OrderLedger.
Ledger == INSTANCE OrderLedger WITH
            honoured <- {o \in Orders : paid[o] > 0},
            returned <- {o \in Orders : comp[o] > 0}

LedgerSpec == Ledger!Spec

--------------------------------------------------------------------------------
(* The inductive invariant: what the threads hold about the rows            *)

\* A handler past the search for its order has one, and it is the order its event
\* is about; only administrators work without an event.
HandlerOrder ==
  \A t \in Threads :
    /\ pc[t] \in Working \ {"load"} => ord[t] \in Orders
    /\ pc[t] \in {"load", "fail", "ready", "mark", "failure"} => evt[t] \in Events
    /\ pc[t] \in Working /\ t \notin Admins => evt[t] \in Events
    /\ evt[t] \in Events => ord[t] = Target[evt[t]]

\* A refund in flight acts on an order it did not see refunded, and a compensation
\* it is about to book has its payment.
RefundInFlight ==
  \A t \in Threads :
    /\ pc[t] \in {"refund", "return"} => view[t][ord[t]] # "refunded"
    /\ pc[t] = "return" /\ owed[t] => paid[ord[t]] > 0

\* An order some session has as paid was paid, whatever became of it since; so was
\* the order of an event about to be closed as done.
PaidAt(t) ==
  /\ \A o \in Orders : view[t][o] = "paid" => paid[o] > 0
  /\ pc[t] = "serve" => paid[ord[t]] > 0
  /\ pc[t] \in {"fail", "refund", "return"} /\ evt[t] \in Events =>
       out[t] \notin {"ok", "duplicate"}
  /\ pc[t] = "mark" /\ out[t] \in {"ok", "duplicate"} =>
       ord[t] \in Orders /\ paid[ord[t]] > 0

PaidInFlight == \A t \in Threads : PaidAt(t)

\* A handler on its way to a grant has a claimed event that confirms the full sum,
\* unless an administrator sent it.
GrantAt(t) ==
  pc[t] \in {"ready", "grant", "commit"} /\ evt[t] \in Events =>
    Kind[evt[t]] = "succeeded" /\ Amount[evt[t]] = "full"

GrantInFlight ==
  \A t \in Threads : GrantAt(t) /\ (evt[t] \in Events => result[evt[t]] # "absent")

\* The work after a grant belongs to one thread and has not been done.
ServeInFlight ==
  \A t \in Threads : pc[t] = "serve" =>
    /\ served[ord[t]] = 0
    /\ \A t2 \in Threads : pc[t2] = "serve" /\ ord[t2] = ord[t] => t2 = t

\* No thread remembers more time than the account's paid orders bought.
TermInFlight ==
  \A t \in Threads : pc[t] \in {"commit", "return"} =>
    base[t] <= Cardinality({o \in Orders : Owner[o] = Owner[ord[t]] /\ paid[o] > 0})

\* Everything above is preserved by every step, which none of the properties is
\* alone: they depend on what the threads carry from one transaction to the next.
BillingInv ==
  /\ TypeOK
  /\ HandlerOrder
  /\ HonouredOnce /\ PaidIsHonoured /\ ReturnIsBacked /\ RefundInFlight
  /\ DoneMeansHonoured /\ PaidInFlight
  /\ GrantIsBacked /\ GrantInFlight
  /\ ServedOnce /\ ServeInFlight
  /\ NoMintedTime /\ TermInFlight

--------------------------------------------------------------------------------
(* Liveness, and what the tests of the code expect                          *)

\* A claimed event that confirms the full sum ends with the order honoured, or
\* ignored because the order was refunded, through crashes of the panel, unless an
\* exception struck before it passed the checks (_mark_failure closes it as "error").
ConfirmedIsHonoured ==
  \A e \in Events :
    Kind[e] = "succeeded" /\ Amount[e] = "full" /\ Target[e] # NoOrder =>
      (result[e] = "null" ~> \/ paid[Target[e]] > 0
                             \/ result[e] \in {"ignored", "error"})

\* A panel that neither restarts nor fails serves every order it granted.
GrantIsServed ==
  \A o \in Orders : paid[o] > 0 ~> (served[o] > 0 \/ crashes > 0 \/ faults > 0)

\* test_confirmed_after_refund_does_not_grant: a refunded order is not granted.
RefundIsFinal ==
  [][\A o \in Orders : status[o] = "refunded" => paid'[o] = paid[o]]_vars

\* test_second_purchase_extends_instead_of_creating_second_user: as long as nothing
\* is refunded, every purchase adds its days to the account.
PurchasesAddUp ==
  (\A o \in Orders : status[o] # "refunded" /\ comp[o] = 0) =>
    \A u \in Users :
      term[u] = Cardinality({o \in Orders : Owner[o] = u /\ paid[o] > 0})
================================================================================
