# TLA+ models of the Prosto VPN panel

The repository is a VPN service: a panel (Python, FastAPI, SQLAlchemy over SQLite or
PostgreSQL) that sells access, issues keys and drives VPN nodes; an agent in Go on every
node; a web interface; a Telegram bot; and client applications. The logic that can go wrong
in a way a test would hardly show is in the panel's services: money, time that was bought,
and the agreement between the database and the nodes. This directory models those services in
TLA+, checks them with TLC and proves what matters most with TLAPS.

Paths below are relative to `backend/app/` unless they name another top directory.

## 1. The system

The panel is one process (`deploy/prosto-panel.service`: `--workers 1`) with many threads over
one database. Webhooks of payment providers are answered by the event loop, one after another
(`public_api.py`, an `async` endpoint that calls blocking code). Everything else an
administrator, a user or an agent asks for is served by a pool of threads. The background loops of
`main.py` run their passes in threads of their own: the delivery loop (letters, expiry of orders,
stuck payment events, freezes), the TON loop, the synchronisation loop of the nodes, and
monitoring. There are no row locks: the code relies on unique indexes, on conditional
`UPDATE`s, and on transactions being short. Sessions keep what they loaded
(`db.py:49`, `expire_on_commit=False`, `autoflush=False`), so that a thread acts on what it READ
until it rolls back or ends, and a flush writes only attributes whose value differs from
the loaded one.

| Component | Code | State | Operations | What makes it hard | What makes it correct |
|---|---|---|---|---|---|
| Payment events | `services/billing_webhook.py` | `billing_events.result` | `handle`, `apply_event`, `retry_stuck` | repeated, reordered, lost events; restarts between claim, READY, commit and mark | every confirmed payment ends honoured, once |
| Orders | `services/orders.py` | `orders.status`, `payments`, audit log | create, `fulfil`, `refund`, `expire_stale`, `record_paid_order` | webhook, retry, TON watcher and administrator on one order | one grant per order, money and status agree |
| TON watcher | `services/ton_watcher.py` | orders loaded for a pass | `run_once` | the orders are read before the network is asked | as above |
| Periods | `services/billing.py`, `freeze.py`, `transfers.py` | `subscriptions` (start, expiry, plan, bonus days), freezes, transfers | grant, extend, cancel, freeze/resume, pass on and claw back | read-modify-write of the tail period | days are neither lost nor minted |
| Recurring charges | `services/recurring.py` | `recurring_subs`, orders of charges | `create`, `cancel`, `handle_webhook`, `retry_stuck` | the provider is a second owner of the state | a charge is granted once; what is shown as off is off |
| Referrals | `services/referrals.py` | bonuses, claims | grant, revoke | claimed before granted | one bonus per invited payer |
| Keys, placement, peers | `services/keys.py`, `placement.py`, `traffic.py`, `provisioning.py` | `devices`/keys, peers on nodes | issue, revoke, `ensure_keys`, `reconcile_peers`, `enforce_access` | the node is changed by SSH while its dump is walked | no access without a row, no row without access |
| Node tasks | `services/node_tasks.py`, `agent.py`, `agent_api.py` | `node_tasks` (sent, acknowledged), in-memory events | `run`, `take`, `ack`, `expire_stale` | long poll, timeouts, fallback to SSH | a task is done; repeated only if idempotent |
| Node agent | `agent/*.go` | pending traffic, acknowledgements (in memory) | one cycle: collect, send, run tasks | a lost answer, a restart | traffic is counted once |
| Xray, Hysteria | `services/xray.py`, `hy2.py` | `node_endpoints.rev`, `params.applied_rev` | push, `sync_pending` | two pushes of different revisions | the node ends with the last revision |
| Delivery | `services/delivery.py` | `delivery_jobs` | enqueue, `run_once` | restart between send and mark | every letter is sent or given up after N tries |
| Accounts | `services/users.py`, `auth.py`, ... | accounts, sessions, devices | CRUD, sign-in | little concurrency | - |
| Providers, HTTP, subscription links | `payments/`, `*_api.py`, `services/subscription.py` | none, or tokens | formats and checks | wording and formats | - |
| Alerts, telemetry, diagnostics | `services/alerts.py`, ... | measurements | - | nothing depends on it | - |
| Web cabinet | `web/src/pages/Account.jsx`, `web/src/lib/` | `localStorage` (token, invoice), the state of each tab | sign in and out, load the account, pay, poll an order | tabs share the storage; answers of earlier sessions and earlier invoices come late | the page shows the account and the order it is about |
| Bot, panel, landing pages, clients, deployment | `bot/`, `web/`, `client/`, `deploy/` | - | - | other code bases, user interface | - |

How they interact: a webhook or the TON watcher calls `apply`/`_process`, which calls `fulfil` or
`refund`; `fulfil` calls `grant_subscription` inside its transaction and, after the commit,
the traffic reset, the keys and the inviter's bonus. Recurring charges create an order and call
the same `fulfil`, with the same table of events. Periods decide who has access; keys and peers
follow from it through the nodes' tasks or SSH. The agent of a node polls the panel for its tasks
and reports its traffic with the same request; the cabinet creates orders and polls them over HTTP.

## 2. The modules

| Module | What it is |
|---|---|
| `OrderLedger` | the abstract specification: orders are honoured at most once, money goes back only for an honoured order |
| `Billing` | payment events, orders, the TON watcher, administrators and expiry, thread by thread |
| `MCBilling` | instances of `Billing` for TLC |
| `Billing_proofs` | theorems about `Billing` |
| `Recurring` | recurring charges of one account, with the provider as their environment |
| `MCRecurring` | instances of `Recurring` for TLC |
| `Recurring_proofs` | theorems about `Recurring` |
| `NodeAgent` | the panel and the agent of one node: tasks, the long poll, the fallback to SSH, traffic |
| `MCNodeAgent` | instances of `NodeAgent` for TLC |
| `NodeAgent_proofs` | theorems about `NodeAgent` |
| `DayBook` | the abstract specification of an account's time: a balance of days |
| `Periods` | the periods that hold it, and every operation that moves their dates; implements `DayBook` |
| `MCPeriods` | instances of `Periods` for TLC |
| `Periods_proofs` | theorems about the lists of periods of `Periods` |
| `PeriodsBook_proofs` | the proof that `Periods` implements `DayBook` |
| `PeriodsRefund_proofs` | what a refund costs, what a transfer moves |
| `Sums_proofs` | facts about sums over finite sets, and induction over them |
| `Cabinet` | the browser while an order is being paid: tabs, session, invoice, requests on their way |
| `MCCabinet` | instances of `Cabinet` for TLC |
| `Cabinet_proofs` | theorems about `Cabinet` |

Where components meet. `Billing` has the transactions of an order and keeps the account's time as one
number per account; `Periods` has the same operations as single steps over the real list of periods.
`Recurring` calls `fulfil` as one step. `Cabinet` sees an order as the panel's answers show it
(pending, paid, failed). `NodeAgent` takes a piece of work for the node as given, whoever asked for it.

### Billing

State. `status`, `paid`, `comp`, `manual` and `result` are columns or counts of rows
(`orders.status`, payments with a positive and with a negative amount, the audit log,
`billing_events.result`). `term` is what an account holds in its tail period, in units of one
order: enough to tell an update that was lost from one that was not. `served` counts the work
after the commit of `fulfil`. Each thread has a place (`pc`) and what it carries from one
transaction to the next: its event, its order, its session (`view`, the statuses it loaded),
whether the order it loaded had a subscription (`seenSub`), the period it read (`base`), the
payments it found (`owed`) and the result it is about to write.

Actions. An action is one transaction, or the reads that feed the next one.

| Action | Code |
|---|---|
| `Receive`, `Claim` | `handle`, `_claim`: the insert of an event wins once |
| `TonScan`, `TonReceive`, `TonDone` | `ton_watcher.run_once`: the waiting orders are loaded, the network is asked, transfers become events in the SAME session |
| `Reclaim` | `retry_stuck`, `_claim_for_retry` |
| `Load`, `LoadUnknown`, `Verdict` | `_find_order` and the decisions of `_process` |
| `FailOrder` | status `failed` after a cancellation or a short sum |
| `MarkReady` | the mark READY before `fulfil` |
| `ReadTerm`, `CommitGrant`, `LoseRace`, `Serve` | `fulfil`: reads of `grant_subscription`, the commit, the refusal of the unique index with `_already_fulfilled`, the work after the commit |
| `ReadRefund`, `CommitRefund` | `refund`, `_register_refund`, the cut of the period |
| `MarkResult`, `MarkFailure` | `_mark`, `_mark_failure` |
| `AdminFulfil`, `AdminRefund` | the buttons of `admin_api/orders.py` |
| `ExpireScan`, `ExpireCommit` | `expire_stale` |
| `Fault`, `Crash` | an exception with its rollback; a restart |

Deliberate abstractions. A sum is `full`, `short` or `none`. Time is not measured: an order may be
old enough to expire, and an event old enough to be retried, at any moment, for a thread can be
held up by a provider or a node for as long as it takes. Accounts exist from the start.
A rollback forgets what a session loaded. The TON watcher goes on with its pass after one: it
keeps the list of orders it started with and reads their statuses again (`Forgotten`, the value
`listed` of `view`). In the run a lost race does this; a `Fault` inside the watcher's pass
is left to the theorems, for with it `billing_race` takes as long as all other runs together.

### Recurring

State: `rows` (the order of the rows of `recurring_subs`, which `get_live` reads backwards),
`sub` (status), `order` and `grants` per charge, `result` per event, and for each thread its
event, its subscription, the status its session loaded and the result to write. The provider's
side (`prov`, `money`, `sent`) is external: it binds, charges, declines, reverses and cancels as
it likes, and announces an event or loses it; `Receive` takes announced events in any order.

| Action | Code |
|---|---|
| `Receive`, `Reclaim`, `Load`, `LoadUnknown`, `ApplyStatus`, `Mark`, `Fault` | `handle_webhook`, `retry_stuck`, `_process` |
| `CheckCharge`, `BookOrder`, `AlreadyBooked`, `Fulfil`, `Activate` | `_confirm_charge` |
| `Create`, `Drop`, `Dropped`, `Register`, `RegisterFails`, `Insert` | `create`, with the calls to the provider as steps of their own |
| `Cancel`, `Stop`, `StopFails`, `Off` | `cancel` |

`Fulfil` is one step: what happens inside it, and between two fulfils, is `Billing`'s subject.
A notice of a charge may name no sum, and the provider's own word on a charge may not be
reachable (`Checked`). Left out are refusals whose cause the model does not have: the account is deleted
(`recurring.py:317`), the status is unknown (`:307`, ignored), a row of the table of events cannot be restored
(`:418`, an error for good; the rows `handle_webhook` writes itself can be). `EventsClose` speaks of events
that can be restored, and of fewer than the 25 a pass takes up.

### NodeAgent

State, in three groups. Of the panel: where each caller of `node_tasks.run` is (`call`), the rows of
`node_tasks` (`row`, `sent`), the `threading.Event`s that are set (`told`), the `asyncio.Event` of the
node (`event`, with `wakes`: calls of `call_soon_threadsafe` the loop has not run yet), and for each
report being served its coroutine's place, what it brought and the tasks it read (`req`, `load`,
`batch`). Of the agent: its place and its request (`at`, `conn`), acknowledgements and tasks in memory,
the traffic it took from the counters and the panel has not confirmed (`pend`). Of the node: the
counters, and a ledger of where each unit of traffic is (`counter`, `pend`, `hand`, `credited`, `gone`).

| Action | Code |
|---|---|
| `Ask`, `AskSsh`, `Wake`, `Register`, `CheckEarly`, `StartWaiting`, `Heard`, `TimeOut`, `Ssh`, `SshFails` | `node_tasks.run` and its callers in `provisioning.py`: commit the row, wake the loop, register in `_acks`, look once more, wait, else SSH |
| `Expire` | `expire_stale` |
| `Send`, `SendLost`, `GiveUp`, `AgentRestart` | a cycle of `agent/main.go`: collect, report, keep what was not accepted; its client's time limit; a restart |
| `Credit`, `Ack`, `Clear`, `TakeRead`, `TakeCommit`, `SetEvent`, `HoldEnds`, `Reply`, `ReplyUnheard` | `agent_api.py`: `store_report` with the booking, `ack`, the long poll of `pending` with its two looks, the answer |
| `RunTask` | `runTask` and its acknowledgement |
| `Use`, `Silence`, `SweepRead`, `SweepCredit` | traffic; a stale snapshot; `sync_traffic` over SSH |
| `PanelCrash` | a restart of the panel: callers, coroutines and events are gone, tables stay |

What is assumed about time, which is not measured otherwise: `Expire` (two minutes) comes only when
the caller (eight seconds) is gone, and `Silence` (two minutes without a report) only when the reports the
panel accepted are answered (a report is held for twelve seconds at most). The agent may run the tasks of
one answer in any order: the code runs them as listed, and no property depends on it. A coroutine has
no identity, so a report takes any free slot (`Slot`).

Traffic may be booked twice, and the code says so: the deltas of a report whose answer was lost
are sent again (`agent/main.go:106`), while the panel booked the first report before it answered.
`repeated` adds up the traffic of exactly those reports, and `RepeatIsBounded` says that nothing else
is booked twice. `gone` adds up what a restart, a failed collection or a failed booking took,
and `TrafficKept` says that nothing else is lost. That includes the sweep over SSH: `SweepRead(FALSE)` is
an answer lost after the counters were cleared (`hy2.py:106`), `SweepCredit(FALSE)` a booking that
fails and is logged (`traffic.py:238`).

### Periods and DayBook

`DayBook` is the promise: an account has a balance of days, apart from it what is left of a trial;
purchases and gifts add, refunds and transfers draw, a transfer gives the one what it takes from the other,
a pause stops the clock, a tick burns a tick. Each entry has a document, an order, a gift, a claimed bonus or a
transfer, and posts what that document says: a purchase its term and nothing else (given days that wait are kept,
a trial is dropped), a gift and a bonus their days, a transfer the same days on both sides. A refund only draws, only from its
`Parties` (the buyer, the inviter whose bonus it revokes, the receivers of the buyer's days), and from a trial last; how
much it draws is the subject of `RefundIsBounded`. A bonus lost on its way (`Unrewarded`) posts nothing, which is all the
code does. `Periods` is the code: a list of periods per account, with
dates, and no balance anywhere. The refinement mapping of `KeepsTheBook` computes the balance as the
code does where it shows it (`subscription_clock`: what the periods not switched off hold after `now`, or after
`frozen_at`).

| Action | Code |
|---|---|
| `Fulfil` with `Granted` | `grant_subscription`: extend the tail of the same plan, queue another plan behind, drop a trial, move given days behind the bought ones |
| `Give`, `GrantBonus` with `Gifted` | `add_bonus_days` |
| `Transfer` with `Taken` | `_do_transfer` and `take_bonus_days` |
| `Refund` with `Shrunk`, `ClawBack` | `_shrink_subscription_after_refund`, the inviter's bonus, `claw_back` newest first |
| `ClaimBonus`, `GrantBonus`, `LoseBonus` | `credit_purchase`: the claim is committed before the days; an exception or restart in between |
| `Freeze`, `Resume` with `Shifted` | `freeze.py`, also by an administrator or `auto_resume`; a pause shorter than `MinPause` shifts nothing (`freeze.py:51`, `:187`), so its time is spent |
| `Tick` | time; `Day` ticks are a day, so that a day can be half spent |

`exact` is a history variable: the accounts `DayBook` speaks of. An account leaves it when it is
operated on during its own pause (`billing.py` reads the wall clock, not the account's: finding 4), and when a
refund shortens a period another waits behind (the gap it leaves is not closed, so that days wait and
the balance does not burn for a while). For all other accounts and all sequences of calls the balance is kept.
A refund takes `period_days` x quantity of the plan, also of an order at the intro price; orders of `Periods` were
granted what a refund takes.

### Cabinet

State: the two keys of `localStorage` (`token`, and `stored`: the invoice with the login it was written
under); of the panel, the sessions it accepts and the orders with their owner and what they are for
(`item`); of each tab, what is mounted, the login it shows (`data`, from its last answer, not from the token now
stored), its account requests, the state of the plan page (`invoice`, `paying`, `busy`), the runs of
`payWith` with what each closed over (`calls`), and the polling effect (`poll`, with the `setInvoice` of the
render it came from, and `asking`).

| Action | Code |
|---|---|
| `SignIn`, `SignOut`, `SignedOut`, `CloseSession`, `ForgottenElsewhere` | `session.jsx`, `api.js`: the token is shared by the tabs |
| `Enter`, `Load`, `Loaded`, `LoadRefused`, `LoadLost`, `StrayRefused`, `StrayEnds`, `Reload` | `load` of the cabinet; a 401 removes the token stored NOW (`api.js:83`) |
| `OpenPlan`, `ClosePlan`, `StartPay`, `NewInvoice`, `CloseSheet` | `PlanTab`, `readInvoice`, `setInvoice`, the sheet |
| `PayWith`, `Make`, `Made`, `MadeUnseen`, `Refused`, `NotMade`, `CallLost`, `WalletCloses` | `payWith` from the click to the answer, the panel's part with the reuse of a pending order, the wallet of a TON payment |
| `Watch`, `Ask`, `Answer`, `AskLost` | the polling effect and its clean-up |
| `Paid`, `Failed` | the panel learns of the money, also after it gave the order up |

What the code does and the model keeps: `setInvoice` always writes the storage, so closing a sheet in one tab
removes or replaces the invoice another tab stored; an answer to a page that is gone may still be written
(`MadeUnseen`); an invoice shown as failed stays so though the order is paid later (polling ends at
the first final answer). The model judges the session of an account request when its answer arrives (`Loaded`), not when
the panel handles the request: an answer granted just before its session closed is a refusal there.
What would differ is a tab that shows an account whose session is over until its next request is refused, the same as
a tab that has not asked since. Two cases are excepted from the properties by history variables, and
described where they are declared: `mixed` (someone signed in as another account while a tab
showed one: the plan page open in that tab writes the invoice of the one account under the login of the other) and
`freed` (the wallet's answer to an earlier TON order unlocks the sheet while the next request is on
its way, so a further click makes a second order).

## 3. The runs

| Run | Instance | What it shows |
|---|---|---|
| `billing_race` | two orders of one account, a confirmation and a chargeback of one, a TON transfer for the other; three threads; one restart | the inductive invariant `BillingInv` of the proofs, and by it `HonouredOnce`, `PaidIsHonoured`, `DoneMeansHonoured`, `ServedOnce`, `NoMintedTime`; every behaviour is one of `OrderLedger` |
| `billing_admin` | one order; a confirmation, a short sum, a cancellation; webhooks, retries and an administrator; one exception | races with an administrator: `GrantIsBacked`, behind every grant is a confirmed full sum or an administrator; `ReturnIsBacked`, money goes back only for an order that was paid; the refinement of `OrderLedger` |
| `billing_live` | one order; a confirmation, a chargeback, an event of no order; one restart, two exceptions | `ConfirmedIsHonoured`: a claimed confirmation ends honoured, or refused with a reason; `GrantIsServed` |
| `billing_regrant` | one order, an administrator's refund beside a confirmation | finding: a refunded order is granted |
| `billing_lostdays` | two orders of one account confirmed at once | finding: the account gets the days of one |
| `recurring_safety` | one subscription, one charge; a webhook, a retry, the owner; one restart, one exception, two announced events | the inductive invariant `RecurringInv` of the proofs, and by it: a charge is granted once and for the right money (`ChargeGrantedOnce`, `GrantIsCharged`), `OkIsGranted`, and what is shown as cancelled will not be charged (`CancelledIsOff`) |
| `recurring_live` | the same with one announced event | `EventsClose`: no event stays open, errors included |
| `recurring_retry` | the same, a restart | finding: a charge whose handler was lost after the commit of its order is never granted |
| `node_agent` | one task, one unit of traffic, two reports served at a time; one loss, failure or restart of any kind | work reported done is done (`DoneIsApplied`), no task runs twice (`RunOnce`), no held report sleeps over a task (`NoLostWakeup`), no acknowledgement is missed (`AckIsHeard`), traffic is neither lost nor booked twice without a named cause (`TrafficKept`, `RepeatIsBounded`); calls end and traffic arrives (`CallEnds`, `TrafficArrives`) |
| `periods` | an account on trial with two orders of two and one days, and the paying account that invited it; two plans; gifts of one or two days; pauses that count and pauses too short to; three ticks of half a day, four calls | `NoOverlap`; `PauseKeepsDays`, a pause costs nothing, or at most its own time if it was too short to count; `RefundIsBounded`; and `KeepsTheBook`, every operation posts exactly the days of its document: every behaviour is one of `DayBook` |
| `periods_pause` | the same | finding: a transfer from an account on pause destroys days |
| `cabinet_pay` | one tab, two sessions of two accounts, two orders; one request lost | nothing is shown as paid that is not (`PaidIsPaid`), an invoice stays with its account (`OwnInvoice`), one click makes one order (`RenewsOnce`), the tab comes to show the account of its session (`ShowsItsAccount`), a paid order stops being shown as awaited (`PaidIsShown`) |

Why the bounds are enough. Every hazard of billing that a property covers needs at most two
orders, two writers and one restart or exception between two of their steps; each thread
set has one member because the panel has one event loop, one delivery loop and one TON loop,
and a retry is the second handler of the same event. `MaxCrashes`, `MaxFaults` and `MaxSent` bound
the counters that would otherwise grow; the theorems hold for all their values. For every
property of a passing run `PROJECT.json` names a mutant of the model, a plausible
mistake in the code (the unique index left out, an event closed too early, a provider's error
ignored), under which TLC finds the property violated: none of them holds by construction. Deadlock is
not checked: a system whose events are handled and whose counters are spent is at rest.

`node_agent`: two reports at a time are the one the agent waits for and one it gave up, whose handler still
sleeps; `RunOnce` and `NoLostWakeup` are about these two, and with one task both fail
under their mutants. Two tasks differ only in the order they are run in; the theorems hold for any
number. `MaxTrouble` bounds losses, failures and restarts together, `MaxUsed` the traffic.

`periods`: three ticks with two to a day let a day be whole, half spent and spent; four calls are a purchase, its
transfer, a pause and a refund, the longest chain a property is about, in any order and with gifts in
between. Pauses per month (`PerMonth`) are two, and all of it lies within one month. `MinPause` is two ticks,
so that a pause of one tick is too short to count and one of two or three is not. In the code it is a
minute, and a day is 1440 of them; no definition relates the two constants, and the theorems hold for any values of both.

`cabinet_pay`: `MCInit` selects three starts that between them hold every case and keep the run short: one session
and two new orders, with a request lost; two sessions, one new order and one that is over, with all requests
answered up to one lost or none. TON occurs with one account only, for the first order. One tab
is enough for every property of the run because the other tabs' effects on the storage and on the
session are actions of the environment (`SignIn`, `CloseSession`, `ForgottenElsewhere`); two tabs that
both PAY are left to the theorems, which hold for any number of tabs.

### Fairness

`FairSpec` of `Billing` and `Recurring` assumes two things. A handler that has begun goes on until it ends or
the panel restarts (weak fairness of its steps): no step waits for another thread. And the
delivery loop (`main.py:119`) comes back for ever, each pass taking up the stuck events it finds:
strong fairness of `Reclaim` per event, for the loop's thread is busy with other events in
between. The batch limit of 25 is not modelled: the claim is for fewer stuck events than that. No
event need be delivered, no button pressed, no exception raised.

`ConfirmedIsHonoured` has to admit the result `error`: an exception BEFORE the mark READY closes
a payment event as an error no pass of `retry_stuck` looks at again
(`billing_webhook.py:171`, by design: such events are shown to the administrator). Recurring
events are different: their `retry_stuck` takes up errors, so `EventsClose` needs no exception.
`GrantIsServed` holds only without restarts and exceptions: a restart after the commit of `fulfil`
loses the traffic reset, the keys and the bonus of that order.

`NodeAgent`: the threads of callers go on (each waits with a time limit), the panel's loop serves what it has
accepted, the agent's loop comes round (`main.go` sleeps and repeats, whatever the error), `expire_stale`
and the sweep are called by the synchronisation loop for ever. Weak fairness of each, and none of a request
for work, of traffic, or of anything that goes wrong. `TrafficArrives` counts what is in `gone` as
arrived: it is the traffic named failures lost.

`Cabinet`: timers go on (`Load`, `Ask`), a request is answered or fails (`fetch` throws when the connection is lost), and an
effect runs after the render that asks for it (`Watch`). No click, payment or answer of the provider is assumed. The
polling effect gives up after 600 tries (half an hour), or 2400 for cryptocurrency; the model polls for ever,
so `PaidIsShown` speaks of payments within that time or after a reload, which starts the count again.
`ShowsItsAccount` is about a browser that from some moment on keeps one live session.

## 4. Proofs

`Billing_proofs` proves, for any sets of orders, accounts, events and threads and any number of
restarts and exceptions, from the assumptions `BillingAssumption` on the constants only:

- `TypeCorrect`: `Spec => []TypeOK`;
- `MoneyCorrect`: `Spec => [](HonouredOnce /\ PaidIsHonoured /\ ReturnIsBacked)`;
- `ImplementsLedger`: `Spec => LedgerSpec`, every step of `Billing` is a step of `OrderLedger` or none;
- `DoneCorrect`: `Spec => []DoneMeansHonoured`;
- `ServedCorrect`: `Spec => []ServedOnce`;
- `TermCorrect`: `Spec => []NoMintedTime`;
- `BackedCorrect`: `Spec => []GrantIsBacked`;
- `PaidCorrect`, `ReturnCorrect`: the parts of `MoneyCorrect` the runs check by name;
- `InvariantCorrect`: `Spec => []BillingInv`, the conjunction of all of it.

The argument. None of the properties is inductive: each depends on what a thread carries from one
transaction to the next. `PaidIsHonoured`, for instance, survives `CommitRefund` only because a
refund in flight never saw its order refunded (so its flush writes the new status), and survives
`CommitGrant` on an order somebody refunded only because a compensation needs a payment, and a
second payment is refused. The invariant is therefore stated in groups, each a property
with what the threads must remember for it:

| Group | Property | What the threads carry |
|---|---|---|
| shape | `TypeOK` | `HandlerOrder`: a handler past the search has the order of its event |
| money | `HonouredOnce`, `PaidIsHonoured`, `ReturnIsBacked` | `RefundInFlight` |
| done | `DoneMeansHonoured` | `PaidAt`: a session that holds an order as paid is right that it was paid |
| served | `ServedOnce` | `ServeInFlight`: one thread at most does the work after the grant of an order |
| term | `NoMintedTime` | `TermInFlight`: the period a thread read is within what was granted by then (with the library's facts on cardinality) |
| backed | `GrantIsBacked` | `GrantInFlight`: a handler that grants without an administrator has a confirmed full sum |

Each group is preserved by every action given the groups before it; a proof of a step has one case
per action.

`Recurring_proofs` proves, for any sets of subscriptions, charges and threads, any number of
restarts, exceptions and announced events, from `RecurringAssumption` and `NoEventAssumption`:

- `TypeCorrect`: `Spec => []TypeOK`;
- `InvariantCorrect`: `Spec => []RecurringInv`;
- `GrantCorrect`: `Spec => [](ChargeGrantedOnce /\ GrantIsCharged /\ OkIsGranted)`;
- `ChargedCorrect`, `OkCorrect`: its parts by name;
- `CancelCorrect`: `Spec => []CancelledIsOff`.

`RecurringInv` has four groups again. The shape is `TypeOK` with `InHand`: what every thread holds at
each place, and that the subscription it acts on is stored. `Heard` is about the provider: the panel handles only what was announced, an announced
charge was made, an announced cancellation is final (lemma `ProviderStep` says what the
provider never takes back). On these rest the cancellations (`CancelledIsOff` with
`CancelInFlight`: the request that is about to write "cancelled" has the provider's consent, and an event that
writes it was announced) and the grants (`GrantInFlight`: of the threads that handle one charge at most one is
between the order's commit and the grant, which the unique `provider_payment_id` gives, and that charge is not granted yet).
Most actions touch no group but the shape; lemmas `QuietStep` and `QuietAlone` say when a step
is harmless to the grants, and only the booking, the grant and the mark have proofs of their own.

`NodeAgent_proofs` proves, for any number of tasks, of reports served at a time, of units of traffic and of
failures, from `NodeAssumption`: `TypeCorrect`, `DoneCorrect`, `RunOnceCorrect`, `WakeupCorrect`, `HeardCorrect`,
`TrafficCorrect` and `RepeatCorrect`, one for each invariant of the run. Each has an inductive group of its own:

| Group | Property | What it adds |
|---|---|---|
| `WordInv` | `DoneIsApplied` | the chain behind the word "done": an acknowledgement in the agent's memory, one in a report, a row closed with ok, each of a task the node has done |
| `RunInv` | `RunOnce` | a task not marked as sent has neither been run nor is it in the agent's hands; what the handler of the agent's own request has read has not been run, and only that handler can deliver |
| `WakeInv` | `NoLostWakeup` | a handler that looked before a task was put in the table finds the event set, or someone else is coming for the task, before it sleeps |
| `HeardInv` | `AckIsHeard` | the same for a caller between its second look and its wait |
| `TrafficInv` | `TrafficKept` | a report on its way brings exactly what the agent keeps; once it is accepted, what the agent keeps is accounted for without it |
| `BookInv` | `RepeatIsBounded` | what the node, the panel's books, the agent and the reports being served hold is at most what was used and what was `repeated`; the reports' part is the size of a set of units (`InFlight`), one for each unit a report still brings |

`TrafficInv` uses `RunInv` (a request has its handler), and `BookInv` uses both; the others are preserved given the types alone, so the
proofs of a step stand side by side, each with one case per action.

`Cabinet_proofs` proves, for any number of tabs, sessions, accounts, plans and orders, from `CabinetAssumption`:
`TypeCorrect`, `PaidCorrect` (`PaidIsPaid`), `OwnCorrect` (`OwnInvoice`), `OnceCorrect` (`RenewsOnce`) and
`InvariantCorrect` (`CabinetInv`). The invariant: what a page holds only while it is mounted (`Mounted`); the number of
a request on its way is of no order and of no other request (`SentInv`); a page with a request on its
way is busy, and has one (`OnceInv`); and, while nobody signed in beside another account, a tab shows, asks
for and has a token of one account (`SessionInv`), and invoices, requests and polls are of the account they were
made under (`OwnInv`). `Cabinet` starts in more states
than a run does (any orders of earlier days, any way of payment), and the theorems are about `Init`.

The proofs about `Periods` assume `PeriodsAssumption` only: finite sets of accounts and orders, terms, gifts and a day
of any length, any shortest pause, any inviters and any start of each account. In the order they build on each other:

- `Sums_proofs`. The community modules define a sum as a fold in an order nobody chose.
  The lemma `SumCountsUnits` shows that a sum over a finite set is the number of its units, a unit being a pair of an
  element and a number below its summand; with the library's facts on cardinality, sums then add up, grow and agree
  as one expects (`SumAdd`, `SumUnion`, `SumGrows`, `SumPlus`). The induction is over the subsets
  of a finite set (`SubsetInduction`) or up to a number (`UpTo`), with a SET for the property, which the
  provers can instantiate where they cannot instantiate an operator.
- `Periods_proofs`: `TypeCorrect`, `InvariantCorrect` (`PeriodsInv`), `NoOverlapCorrect`. `NoOverlap` is
  about what is left of periods at the account's clock, and not inductive: a pause moves periods by where they lie. `ListOK` says
  it of the periods themselves (`Apart`: those kept last some time, and of two one ends before the other begins),
  with `TrialsFirst`: a trial never waits, so that a purchase never queues behind one it drops. `PeriodsInv` adds that a fulfilled order has its period, a
  paid one, and a bonus its inviter. Each operation on a list has a lemma (`GrantedOK`, `GiftedOK`, `TakenOK`, `ShrunkOK`, `AfterOK`);
  `claw_back`, which loops over the transfers, is done by induction over its rounds (`ClawSteps`, `ClawBackOK`).
- `PeriodsBook_proofs`: `BookInvCorrect`, `PauseCorrect` (`PauseKeepsDays`) and `KeepsTheBookCorrect`, the refinement: the initial state is one of `DayBook`, and every
  step of `Periods` is a step of `DayBook` or changes nothing it sees. `ListOK` is not enough for it: time burns a tick of
  a balance per tick only while some period runs. `Whole` says so of the accounts in `exact`: `NoGap`, a period that
  waits begins where another ends; and, to keep that, `FreeApart`, bought and given days are never both ahead, for a
  purchase closes the given periods, and a bought one that waited behind them would be left with a gap before it. `BookInv` is `PeriodsInv` with `Whole` of every exact account at
  its own clock. Refunds are the long case: the buyer's list, the inviter's, and those of the receivers each only
  shrink, the trial last (`Draws`). A pause too short to count spends its time at once, when it ends: `TimeBurns` is what one tick
does to a list without gaps, `TimeSpends` what any number of them does, by induction up to that number.
- `PeriodsRefund_proofs`: `RefundCorrect` (`RefundIsBounded`) and `TransferCorrect`. What all accounts have left is one sum
  (`LeftOf`), and each list a refund changes lowers it by a known amount. The bound has less than a day for each
  RECEIVER, though `claw_back` may visit one several times: the rounding costs something only when a receiver's time is
  spent to the end, after which nothing is left to take from it (`Drained`, the invariant of the loop). The
  refunded period rounds by up to a day too; that fits in the bound because the last receiver is drained only when less than
  what was asked for was found (`UncountedDays`). `TransferCorrect` is `TransferIsExact` for accounts
  that are not on pause: finding 4 is the only way it fails.

TLC checks `TypeOK`, `NoOverlap` and the three action properties on the run `periods`; `PeriodsInv` and `BookInv` are defined with
their proofs.

Checked by TLC only. Liveness (`ConfirmedIsHonoured`, `GrantIsServed`, `EventsClose`, `CallEnds`, `TrafficArrives`,
`ShowsItsAccount`, `PaidIsShown`) is out of the prover's reach. Every invariant and every action property of a
passing run is proved.

## 5. Findings and hazards

Where the code does otherwise than its own tests say it should:

1. `RefundIsFinal`. A confirmation reads the order (pending), an administrator refunds
   it, the confirmation commits: `fulfil` writes `paid` and books a payment of a refunded order
   (`services/orders.py:446`). `tests/test_audit_fixes.py:208` expects that access is not granted for
   a returned order. The money stays consistent (`PaidIsHonoured`, `LedgerSpec`).
2. `PurchasesAddUp`. The webhook and the TON watcher fulfil two orders of one account; both read
   the same expiry and each writes its own sum (`services/billing.py:81`): both orders
   are paid, and the account has the days of one. `tests/test_billing.py:230` expects the days to add.
3. `RetryHeals`. `_confirm_charge` commits the order of a charge and then fulfils it; after a
   restart in between, the retry meets the unique payment identifier and closes the event as
   `duplicate` (`services/recurring.py:366-370`). `tests/test_audit_fixes.py:287` expects a lost charge to be
   healed by the retry; the test loses it before the order, the run after it.
4. `TransferIsExact`. An account on pause passes days on: `take_bonus_days` cuts its periods by the wall
   clock (`services/billing.py:238`), cancels the period that was running, and with it the days between
   `frozen_at` and now, which the pause was holding. The receiver gets the days agreed on, the sender loses more.
   `freeze.py:4` promises that paid days wait for the return, `tests/test_transfers.py:239` that the sender
   loses exactly what was moved.

`PROJECT.json` lists the hazards of the code at their lines, with the properties that cover each or
the reason why none does yet.

## 6. Plan

Done: **Billing**, **Recurring**, **NodeAgent**, **Cabinet** and **Periods** with **DayBook** (modelled, checked,
their safety properties proved). In the order they are worth doing:

1. The abstract specifications themselves: what `OrderLedger` and `DayBook` imply, proved once of them and carried
   to `Billing` and `Periods` by the refinements.
2. **PeerSync** (keys, `reconcile_peers`, `enforce_access`): the database and a node agree in the end, a fresh peer
   is not taken for an orphan. Composed with `NodeAgent`, whose calls would then be ordered against each
   other: a task the agent carries out after its caller did the work over SSH, and after a later call undid it.
3. **XrayConfig** (`rev`, `applied_rev`): two pushes of a node's configuration that finish in the other order.
4. `record_paid_order` and the administrator's extension (`admin_api/users.py`), whose order is committed before the
   grant; guest orders; the batch of 25 stuck events.
5. **Delivery** (attempts, backoff, at-least-once) and the tokens of subscription links.

Every module with theorems keeps to functions and sets (no `RECURSIVE`), one action per operation,
invariants as conjunctions of named parts, its proofs in `<Module>_proofs`.

## 7. Not modelled, and why

Adapters of payment providers, HTTP interfaces, rendering of letters and profiles, cryptography:
formats and wording, with no state of their own. Accounts, sign-in, rate limits: single-transaction
CRUD. Alerts, telemetry, diagnostics: measurements nothing else depends on. Migrations and seed run
before anything is served. The bot, the administrator's panel and the landing pages are forms over
single requests. The client applications are vendored: most of the repository's files, and most of the lines
in `.ts` files, are theirs (the `.ts` files under `client/desktop/client/translations/` are Qt translation
tables, XML and not programs), and none of it can be modelled from this repository's own logic.

Inside what is modelled: guest orders, intro prices, the closing of access after a refund, the
limit of 25 events per pass, rows of events that cannot be restored (`Billing` and `Recurring`);
charges of a deleted account, statuses the code does not know (`Recurring`); revenue figures, limits on how
often days are passed on, the bonus for joining (`Periods`); the payload of a task, several nodes
(`NodeAgent`); the return page's own polling of an order, plans sold by the day, the status `refunded` as the cabinet
shows it, a token kept only for the tab (`remember` off), an order whose provider gives no page to
go to, keys, devices and settings (`Cabinet`).

## Running

    tlc -config Billing_race.cfg MCBilling      # and the other .cfg files with their MC module
    tlapm Billing_proofs.tla
    tlapm Recurring_proofs.tla
    tlapm NodeAgent_proofs.tla
    tlapm Cabinet_proofs.tla
    tlapm Sums_proofs.tla
    tlapm Periods_proofs.tla
    tlapm PeriodsBook_proofs.tla                # three to four minutes
    tlapm PeriodsRefund_proofs.tla

`node_agent`, `periods`, `cabinet_pay`, `recurring_safety` and `recurring_live` take one to three minutes each with
two workers, the other runs less than a minute.
