-------------------------------- MODULE Cabinet --------------------------------
(***************************************************************************)
(* The web cabinet while an order is being paid: the tabs of one browser,  *)
(* with the session token and the invoice they share in localStorage, and  *)
(* the requests each has on its way.                                       *)
(*                                                                         *)
(* A tab shows the account of its last answer (data), not of the token     *)
(* now stored, which another tab may have replaced.  Its plan page keeps   *)
(* an invoice, copies it to the storage under the login it shows, and asks *)
(* every three seconds what became of the order.  One action is one event  *)
(* of a tab: a click, an answer, a timer, an effect after rendering.  The  *)
(* panel and the payer are external.                                       *)
(***************************************************************************)
EXTENDS Integers, FiniteSets

CONSTANTS
  Tabs, Logins, Tokens, Orders, Plans,
  TokenOwner,                          \* the account a session is opened for
  NoLogin, NoToken, NoOrder, NoPlan, NoInvoice,
  MaxFaults          \* bound on requests and answers lost, and orders refused

ASSUME CabinetAssumption ==
  /\ TokenOwner \in [Tokens -> Logins]
  /\ NoLogin \notin Logins /\ NoToken \notin Tokens
  /\ NoOrder \notin Orders /\ NoPlan \notin Plans
  /\ MaxFaults \in Nat

VARIABLES
  token,     \* localStorage: the session token
  stored,    \* localStorage: the invoice, with the login it was written under
  live,      \* the sessions the panel accepts
  ended,     \* the sessions that have been closed
  order,     \* orders.status at the panel; "none" until it is created
  owner,     \* orders.user_id
  item,      \* the plan and the way of payment an order is, or would be, for
  page,      \* "away", "account" or "plan": what the tab has mounted
  data,      \* the login shown
  loads,     \* tokens of the account requests on their way
  strays,    \* account requests of a cabinet the tab has left are on their way
  leaving,   \* the tab is signing out
  invoice, paying, busy,   \* state of PlanTab
  calls,     \* runs of payWith after the click; seen: of the page now mounted
  poll,      \* the order the polling effect asks about, and its setInvoice
  asking,    \* its request is on its way
  faults,
  mixed,     \* history: someone signed in while a tab showed another account
  freed      \* history: a wallet's answer unlocked a tab that was paying again

storage == <<token, stored>>
panel == <<live, ended, order, owner, item>>
sheet == <<invoice, paying, busy, calls, poll, asking>>
tabs == <<page, data, loads, strays, leaving>>
history == <<mixed, freed>>
vars == <<storage, panel, sheet, tabs, faults, history>>

NoPoll == [order |-> NoOrder, login |-> NoLogin]
Invoices == [order: Orders, plan: Plans, status: {"pending", "paid", "failed"},
             dismissed: BOOLEAN]
StoredInvoices == [login: Logins, inv: Invoices]
Items == [plan: Plans, ton: BOOLEAN]
Calls == [order: Orders, token: Tokens \union {NoToken}, login: Logins,
          at: {"sent", "made", "wallet"}, seen: BOOLEAN]

TypeOK ==
  /\ token \in Tokens \union {NoToken}
  /\ stored \in StoredInvoices \union {NoInvoice}
  /\ live \subseteq Tokens /\ ended \subseteq Tokens
  /\ order \in [Orders -> {"none", "pending", "paid", "failed"}]
  /\ owner \in [Orders -> Logins \union {NoLogin}]
  /\ item \in [Orders -> Items]
  /\ page \in [Tabs -> {"away", "account", "plan"}]
  /\ data \in [Tabs -> Logins \union {NoLogin}]
  /\ loads \in [Tabs -> SUBSET (Tokens \union {NoToken})]
  /\ strays \in [Tabs -> BOOLEAN]
  /\ leaving \in [Tabs -> BOOLEAN]
  /\ invoice \in [Tabs -> Invoices \union {NoInvoice}]
  /\ paying \in [Tabs -> Plans \union {NoPlan}]
  /\ busy \in [Tabs -> BOOLEAN]
  /\ calls \in [Tabs -> SUBSET Calls]
  /\ poll \in [Tabs -> [order: Orders \union {NoOrder}, login: Logins \union {NoLogin}]]
  /\ asking \in [Tabs -> BOOLEAN]
  /\ faults \in 0..MaxFaults
  /\ mixed \in BOOLEAN
  /\ freed \subseteq Tabs

\* A browser without a session; sessions and orders of earlier days are over.
Init ==
  /\ token = NoToken /\ stored = NoInvoice
  /\ live = {} /\ ended \in SUBSET Tokens
  /\ order \in [Orders -> {"none", "paid", "failed"}]
  /\ owner \in [Orders -> Logins \union {NoLogin}]
  /\ item \in [Orders -> Items]
  /\ \A o \in Orders : owner[o] = NoLogin <=> order[o] = "none"
  /\ page = [t \in Tabs |-> "away"]
  /\ data = [t \in Tabs |-> NoLogin]
  /\ loads = [t \in Tabs |-> {}]
  /\ strays = [t \in Tabs |-> FALSE]
  /\ leaving = [t \in Tabs |-> FALSE]
  /\ invoice = [t \in Tabs |-> NoInvoice]
  /\ paying = [t \in Tabs |-> NoPlan]
  /\ busy = [t \in Tabs |-> FALSE]
  /\ calls = [t \in Tabs |-> {}]
  /\ poll = [t \in Tabs |-> NoPoll]
  /\ asking = [t \in Tabs |-> FALSE]
  /\ faults \in 0..MaxFaults
  /\ mixed = FALSE
  /\ freed = {}

--------------------------------------------------------------------------------
(* Helpers.                                                                *)

\* A fault is counted.
Fault == faults < MaxFaults /\ faults' = faults + 1

\* setInvoice: the updater writes what it returns to the storage, changed or
\* not, under the login of the render the callback came from.
SetInvoice(t, value, login) ==
  /\ invoice' = [invoice EXCEPT ![t] = value]
  /\ stored' = IF value = NoInvoice THEN NoInvoice ELSE [login |-> login, inv |-> value]

\* PlanTab is unmounted: its state goes; its requests go on, unseen.
Unmount(t, requests) ==
  /\ invoice' = [invoice EXCEPT ![t] = NoInvoice]
  /\ paying' = [paying EXCEPT ![t] = NoPlan]
  /\ busy' = [busy EXCEPT ![t] = FALSE]
  /\ calls' = [calls EXCEPT ![t] = requests]
  /\ poll' = [poll EXCEPT ![t] = NoPoll]
  /\ asking' = [asking EXCEPT ![t] = FALSE]

Unseen(t) == {[c EXCEPT !.seen = FALSE] : c \in {d \in calls[t] : d.at # "wallet"}}

\* The cabinet is unmounted.
Gone(t) ==
  /\ page' = [page EXCEPT ![t] = "away"]
  /\ data' = [data EXCEPT ![t] = NoLogin]
  /\ loads' = [loads EXCEPT ![t] = {}]
  /\ leaving' = [leaving EXCEPT ![t] = FALSE]

\* The tab goes to another page of the site.
Leave(t) ==
  /\ Gone(t)
  /\ strays' = [strays EXCEPT ![t] = @ \/ loads[t] # {}]
  /\ Unmount(t, Unseen(t))

Pending(v) == v # NoInvoice /\ v.status = "pending"

--------------------------------------------------------------------------------
(* The session.                                                            *)

\* signIn, in any tab of the browser that is on the login page: setToken
\* replaces whatever token the browser had.
SignIn(k) ==
  /\ k \notin live \union ended
  /\ token' = k
  /\ live' = live \union {k}
  /\ mixed' = (mixed \/ \E w \in Tabs : page[w] # "away" /\ data[w] # TokenOwner[k])
  /\ UNCHANGED <<stored, ended, order, owner, item, sheet, tabs, faults, freed>>

\* A session is closed elsewhere: by the sign-out of another tab, a new
\* password, an unlinked device.
CloseSession(k) ==
  /\ k \in live
  /\ live' = live \ {k}
  /\ ended' = ended \union {k}
  /\ UNCHANGED <<storage, order, owner, item, sheet, tabs, faults, history>>

\* Another tab learns that its session is closed, and forgets the token.
ForgottenElsewhere ==
  /\ ended # {}
  /\ token' = NoToken
  /\ UNCHANGED <<stored, panel, sheet, tabs, faults, history>>

\* signOut: the panel closes the session whose token is sent ...
SignOut(t) ==
  /\ page[t] # "away" /\ ~leaving[t]
  /\ leaving' = [leaving EXCEPT ![t] = TRUE]
  /\ live' = live \ {token}
  /\ ended' = ended \union (live \intersect {token})
  /\ UNCHANGED <<storage, order, owner, item, sheet, page, data, loads, strays, faults, history>>

\* ... and on the answer the token stored by then is forgotten.
SignedOut(t) ==
  /\ leaving[t]
  /\ token' = NoToken
  /\ Leave(t)
  /\ UNCHANGED <<stored, panel, faults, history>>

Enter(t) ==
  /\ page[t] = "away" /\ token # NoToken
  /\ page' = [page EXCEPT ![t] = "account"]
  /\ loads' = [loads EXCEPT ![t] = {token}]
  /\ UNCHANGED <<storage, panel, sheet, data, strays, leaving, faults, history>>

\* A reload or a closed tab: no request is waited for.
Reload(t) ==
  /\ page[t] # "away"
  /\ Gone(t)
  /\ strays' = [strays EXCEPT ![t] = FALSE]
  /\ Unmount(t, {})
  /\ UNCHANGED <<storage, panel, faults, history>>

\* Mutant: an account once shown is not asked for again.
Load_Once(t) ==
  /\ page[t] # "away" /\ data[t] = NoLogin
  /\ loads' = [loads EXCEPT ![t] = @ \union {token}]
  /\ UNCHANGED <<storage, panel, sheet, page, data, strays, leaving, faults, history>>

\* load, by its interval or the focus.
Load(t) ==
  /\ page[t] # "away"
  /\ loads' = [loads EXCEPT ![t] = @ \union {token}]
  /\ UNCHANGED <<storage, panel, sheet, page, data, strays, leaving, faults, history>>

Loaded(t, k) ==
  /\ k \in loads[t] /\ k \in live
  /\ data' = [data EXCEPT ![t] = TokenOwner[k]]
  /\ loads' = [loads EXCEPT ![t] = @ \ {k}]
  /\ UNCHANGED <<storage, panel, sheet, page, strays, leaving, faults, history>>

\* 401: request forgets the token, whichever it is by now, and load goes to
\* the login page.
LoadRefused(t, k) ==
  /\ k \in loads[t] /\ k \notin live
  /\ token' = NoToken
  /\ Leave(t)
  /\ UNCHANGED <<stored, panel, faults, history>>

\* The same answer to a request of a cabinet the tab has left: it forgets the
\* token of the session since opened, and takes the tab out of its cabinet.
StrayRefused(t) ==
  /\ strays[t] /\ ended # {}
  /\ token' = NoToken
  /\ Leave(t)
  /\ UNCHANGED <<stored, panel, faults, history>>

StrayEnds(t) ==
  /\ strays[t]
  /\ strays' = [strays EXCEPT ![t] = FALSE]
  /\ UNCHANGED <<storage, panel, sheet, page, data, loads, leaving, faults, history>>

LoadLost(t, k) ==
  /\ k \in loads[t]
  /\ Fault
  /\ loads' = [loads EXCEPT ![t] = @ \ {k}]
  /\ UNCHANGED <<storage, panel, sheet, page, data, strays, leaving, history>>

--------------------------------------------------------------------------------
(* The plan page and its payment sheet.                                    *)

\* Mutant: the login of the stored invoice is not looked at.
OpenPlan_AnyLogin(t) ==
  /\ page[t] = "account" /\ data[t] # NoLogin
  /\ page' = [page EXCEPT ![t] = "plan"]
  /\ invoice' = [invoice EXCEPT ![t] = IF stored # NoInvoice THEN stored.inv ELSE NoInvoice]
  /\ UNCHANGED <<storage, panel, paying, busy, calls, poll, asking, data, loads, strays, leaving, faults, history>>

\* readInvoice: only an invoice written under this login, and not too old.
OpenPlan(t) ==
  /\ page[t] = "account" /\ data[t] # NoLogin
  /\ page' = [page EXCEPT ![t] = "plan"]
  /\ LET mine == stored # NoInvoice /\ stored.login = data[t]
     IN \/ /\ invoice' = [invoice EXCEPT ![t] = IF mine THEN stored.inv ELSE NoInvoice]
           /\ paying' = [paying EXCEPT ![t] =
                           IF mine /\ Pending(stored.inv) /\ ~stored.inv.dismissed
                             THEN stored.inv.plan ELSE NoPlan]
           /\ UNCHANGED stored
        \/ /\ mine
           /\ stored' = NoInvoice
           /\ UNCHANGED <<invoice, paying>>
  /\ UNCHANGED <<token, panel, busy, calls, poll, asking, data, loads, strays, leaving, faults, history>>

ClosePlan(t) ==
  /\ page[t] = "plan"
  /\ page' = [page EXCEPT ![t] = "account"]
  /\ Unmount(t, Unseen(t))
  /\ UNCHANGED <<storage, panel, data, loads, strays, leaving, faults, history>>

\* startPay opens the sheet, and forgets a finished invoice of the same plan.
StartPay(t, p) ==
  /\ page[t] = "plan" /\ paying[t] = NoPlan
  /\ LET inv == invoice[t]
     IN IF inv = NoInvoice THEN SetInvoice(t, inv, data[t])
        ELSE IF inv.plan = p /\ inv.status # "pending" THEN SetInvoice(t, NoInvoice, data[t])
        ELSE SetInvoice(t, [inv EXCEPT !.dismissed = FALSE], data[t])
  /\ paying' = [paying EXCEPT ![t] = p]
  /\ UNCHANGED <<token, panel, busy, calls, poll, asking, tabs, faults, history>>

\* The sheet shows the invoice of the plan it is open for.
Shown(t) == invoice[t] # NoInvoice /\ invoice[t].plan = paying[t]

\* The number a new order would get.
Unused(o) == order[o] = "none" /\ \A w \in Tabs : \A c \in calls[w] : c.order # o

\* Mutant: the click is not refused while a method is busy.
PayWith_Always(t, o) ==
  /\ page[t] = "plan" /\ paying[t] # NoPlan /\ ~Shown(t)
  /\ Unused(o) /\ item[o].plan = paying[t]
  /\ busy' = [busy EXCEPT ![t] = TRUE]
  /\ calls' = [calls EXCEPT ![t] = @ \union
       {[order |-> o, token |-> token, login |-> data[t], at |-> "sent", seen |-> TRUE]}]
  /\ UNCHANGED <<storage, panel, invoice, paying, poll, asking, tabs, faults, history>>

\* payWith, up to its request.
PayWith(t, o) ==
  /\ page[t] = "plan" /\ paying[t] # NoPlan /\ ~Shown(t)
  /\ ~busy[t]
  /\ Unused(o) /\ item[o].plan = paying[t]
  /\ busy' = [busy EXCEPT ![t] = TRUE]
  /\ calls' = [calls EXCEPT ![t] = @ \union
       {[order |-> o, token |-> token, login |-> data[t], at |-> "sent", seen |-> TRUE]}]
  /\ UNCHANGED <<storage, panel, invoice, paying, poll, asking, tabs, faults, history>>

\* The panel creates the order for the session's account, or answers with a
\* pending one of this account for the same purchase while its link is fresh.
Create(c, status) ==
  /\ order' = [order EXCEPT ![c.order] = status]
  /\ owner' = [owner EXCEPT ![c.order] = TokenOwner[c.token]]
  /\ UNCHANGED <<live, ended, item>>

Reusable(c, o) ==
  order[o] = "pending" /\ owner[o] = TokenOwner[c.token] /\ item[o] = item[c.order]

Answered(t, c, o) ==
  calls' = [calls EXCEPT ![t] = (@ \ {c}) \union {[c EXCEPT !.order = o, !.at = "made"]}]

Make(t, c) ==
  /\ c \in calls[t] /\ c.at = "sent" /\ c.token \in live
  /\ \/ Create(c, "pending") /\ Answered(t, c, c.order)
     \/ \E o \in Orders : Reusable(c, o) /\ Answered(t, c, o) /\ UNCHANGED panel
  /\ UNCHANGED <<storage, invoice, paying, busy, poll, asking, tabs, faults, history>>

\* payWith, after the answer; for TON it goes on to wait for the wallet, the
\* sheet unlocked.  An effect opens the sheet if it is closed.
Bill(c) == [order |-> c.order, plan |-> item[c.order].plan, status |-> "pending",
            dismissed |-> FALSE]

Made(t, c) ==
  /\ c \in calls[t] /\ c.at = "made" /\ c.seen
  /\ SetInvoice(t, Bill(c), c.login)
  /\ busy' = [busy EXCEPT ![t] = FALSE]
  /\ paying' = [paying EXCEPT ![t] = IF @ = NoPlan THEN item[c.order].plan ELSE @]
  /\ calls' = [calls EXCEPT ![t] =
       (@ \ {c}) \union (IF item[c.order].ton THEN {[c EXCEPT !.at = "wallet"]} ELSE {})]
  /\ UNCHANGED <<token, panel, poll, asking, tabs, faults, history>>

\* The page is gone: React may still run the updater, and with it the write.
MadeUnseen(t, c) ==
  /\ c \in calls[t] /\ c.at = "made" /\ ~c.seen
  /\ calls' = [calls EXCEPT ![t] = @ \ {c}]
  /\ stored' \in {stored, [login |-> c.login, inv |-> Bill(c)]}
  /\ UNCHANGED <<token, panel, invoice, paying, busy, poll, asking, tabs, faults, history>>

\* catch and finally of payWith.
CallFails(t, c) ==
  /\ paying' = IF c.seen THEN [paying EXCEPT ![t] = NoPlan] ELSE paying
  /\ busy' = IF c.seen THEN [busy EXCEPT ![t] = FALSE] ELSE busy
  /\ calls' = [calls EXCEPT ![t] = @ \ {c}]
  /\ UNCHANGED <<stored, invoice, poll, asking, tabs, history>>

Refused(t, c) ==
  /\ c \in calls[t] /\ c.at = "sent" /\ c.token \notin live
  /\ token' = NoToken
  /\ CallFails(t, c)
  /\ UNCHANGED <<panel, faults>>

\* The payment provider refuses the new order.
NotMade(t, c) ==
  /\ c \in calls[t] /\ c.at = "sent" /\ c.token \in live
  /\ Fault
  /\ Create(c, "failed")
  /\ CallFails(t, c)
  /\ UNCHANGED token

CallLost(t, c) ==
  /\ c \in calls[t] /\ c.at \in {"sent", "made"}
  /\ Fault
  /\ CallFails(t, c)
  /\ UNCHANGED <<token, panel>>

\* tonPay returns, signed or not: finally unlocks the sheet once more.
WalletCloses(t, c) ==
  /\ c \in calls[t] /\ c.at = "wallet"
  /\ busy' = [busy EXCEPT ![t] = FALSE]
  /\ calls' = [calls EXCEPT ![t] = @ \ {c}]
  /\ freed' = IF busy[t] THEN freed \union {t} ELSE freed
  /\ UNCHANGED <<storage, panel, invoice, paying, poll, asking, tabs, faults, mixed>>

\* "Another way" or "again" on the sheet.
NewInvoice(t) ==
  /\ paying[t] # NoPlan /\ Shown(t) /\ invoice[t].status # "paid"
  /\ SetInvoice(t, NoInvoice, data[t])
  /\ UNCHANGED <<token, panel, paying, busy, calls, poll, asking, tabs, faults, history>>

CloseSheet(t) ==
  /\ paying[t] # NoPlan /\ ~busy[t]
  /\ paying' = [paying EXCEPT ![t] = NoPlan]
  /\ SetInvoice(t, IF Pending(invoice[t]) THEN [invoice[t] EXCEPT !.dismissed = TRUE]
                                          ELSE invoice[t], data[t])
  /\ UNCHANGED <<token, panel, busy, calls, poll, asking, tabs, faults, history>>

--------------------------------------------------------------------------------
(* The polling effect.                                                     *)

Wanted(t) == IF Pending(invoice[t]) THEN invoice[t].order ELSE NoOrder

\* Mutant: the effect is set up once and not when the invoice is replaced.
Watch_Once(t) ==
  /\ poll[t].order = NoOrder /\ Wanted(t) # NoOrder
  /\ poll' = [poll EXCEPT ![t] = [order |-> Wanted(t), login |-> data[t]]]
  /\ asking' = [asking EXCEPT ![t] = FALSE]
  /\ UNCHANGED <<storage, panel, invoice, paying, busy, calls, tabs, faults, history>>

\* After a render the old effect is cleaned up, its answers then ignored.
Watch(t) ==
  /\ poll[t].order # Wanted(t)
  /\ poll' = [poll EXCEPT ![t] = IF Wanted(t) = NoOrder THEN NoPoll
                                 ELSE [order |-> Wanted(t), login |-> data[t]]]
  /\ asking' = [asking EXCEPT ![t] = FALSE]
  /\ UNCHANGED <<storage, panel, invoice, paying, busy, calls, tabs, faults, history>>

Ask(t) ==
  /\ poll[t].order # NoOrder /\ ~asking[t]
  /\ asking' = [asking EXCEPT ![t] = TRUE]
  /\ UNCHANGED <<storage, panel, invoice, paying, busy, calls, poll, tabs, faults, history>>

\* Mutant: the invoice on the screen is taken for the one asked about.
Finished_Any(t, status) ==
  IF invoice[t] # NoInvoice THEN [invoice[t] EXCEPT !.status = status] ELSE invoice[t]

\* Mutant: the order's own word for its end is shown.
Finished_RawWord(t, status) ==
  IF invoice[t] # NoInvoice /\ invoice[t].order = poll[t].order
    THEN [invoice[t] EXCEPT !.status = IF status = "paid" THEN status ELSE "expired"]
    ELSE invoice[t]

\* The invoice may have been replaced since the effect was set up.
Finished(t, status) ==
  IF invoice[t] # NoInvoice /\ invoice[t].order = poll[t].order
    THEN [invoice[t] EXCEPT !.status = status] ELSE invoice[t]

Answer(t) ==
  /\ asking[t]
  /\ asking' = [asking EXCEPT ![t] = FALSE]
  /\ LET status == order[poll[t].order]
     IN IF status \in {"paid", "failed"}
          THEN /\ SetInvoice(t, Finished(t, status), poll[t].login)
               /\ poll' = [poll EXCEPT ![t] = NoPoll]
               /\ loads' = IF status = "paid" THEN [loads EXCEPT ![t] = @ \union {token}]
                                              ELSE loads
          ELSE UNCHANGED <<invoice, stored, poll, loads>>
  /\ UNCHANGED <<token, panel, paying, busy, calls, page, data, strays, leaving, faults, history>>

AskLost(t) ==
  /\ asking[t]
  /\ Fault
  /\ asking' = [asking EXCEPT ![t] = FALSE]
  /\ UNCHANGED <<storage, panel, invoice, paying, busy, calls, poll, tabs, history>>

--------------------------------------------------------------------------------
\* The panel learns of the money, perhaps after it gave the order up.
Paid(o) ==
  /\ order[o] \in {"pending", "failed"}
  /\ order' = [order EXCEPT ![o] = "paid"]
  /\ UNCHANGED <<storage, live, ended, owner, item, sheet, tabs, faults, history>>

Failed(o) ==
  /\ order[o] = "pending"
  /\ order' = [order EXCEPT ![o] = "failed"]
  /\ UNCHANGED <<storage, live, ended, owner, item, sheet, tabs, faults, history>>

Next ==
  \/ \E t \in Tabs :
       \/ StrayRefused(t) \/ StrayEnds(t)
       \/ SignOut(t) \/ SignedOut(t) \/ Enter(t) \/ Reload(t) \/ Load(t)
       \/ OpenPlan(t) \/ ClosePlan(t) \/ NewInvoice(t) \/ CloseSheet(t)
       \/ Watch(t) \/ Ask(t) \/ Answer(t) \/ AskLost(t)
       \/ \E k \in Tokens \union {NoToken} :
            Loaded(t, k) \/ LoadRefused(t, k) \/ LoadLost(t, k)
       \/ \E p \in Plans : StartPay(t, p)
       \/ \E o \in Orders : PayWith(t, o)
       \/ \E c \in calls[t] :
            \/ Make(t, c) \/ Made(t, c) \/ MadeUnseen(t, c)
            \/ Refused(t, c) \/ NotMade(t, c) \/ CallLost(t, c) \/ WalletCloses(t, c)
  \/ \E k \in Tokens : SignIn(k) \/ CloseSession(k)
  \/ ForgottenElsewhere
  \/ \E o \in Orders : Paid(o) \/ Failed(o)

Spec == Init /\ [][Next]_vars

\* The timers go on, requests are answered or fail, effects are run.
Fairness ==
  \A t \in Tabs :
    /\ WF_vars(Load(t)) /\ WF_vars(Watch(t)) /\ WF_vars(Ask(t))
    /\ WF_vars(Answer(t) \/ AskLost(t))
    /\ \A k \in Tokens \union {NoToken} :
         WF_vars(Loaded(t, k) \/ LoadRefused(t, k) \/ LoadLost(t, k))

FairSpec == Spec /\ Fairness

--------------------------------------------------------------------------------
\* What the cabinet shows as paid, or keeps in the storage as paid, is paid:
\* an answer about one order never marks the invoice of another that took its
\* place (finish, readInvoice).
PaidIsPaid ==
  /\ \A t \in Tabs : invoice[t] # NoInvoice /\ invoice[t].status = "paid"
                      => order[invoice[t].order] = "paid"
  /\ stored # NoInvoice /\ stored.inv.status = "paid"
       => order[stored.inv.order] = "paid"

\* Unless someone signed in while a tab showed another account, an invoice on
\* the screen or in the storage is of an order of the login it appears under
\* (readInvoice, setInvoice, and the token renew sends).
OwnInvoice ==
  ~mixed =>
    /\ \A t \in Tabs : invoice[t] # NoInvoice => owner[invoice[t].order] = data[t]
    /\ stored # NoInvoice => owner[stored.inv.order] = stored.login

\* A plan page never has two orders on their way to the panel, except after the
\* answer of a wallet unlocked its sheet (busyMethod in payWith).
RenewsOnce ==
  \A t \in Tabs \ freed :
    Cardinality({c \in calls[t] : c.seen /\ c.at \in {"sent", "made"}}) <= 1

\* As long as the browser keeps one session and the tab is open, the tab comes
\* to show the account of that session and stays there, whatever answers of
\* earlier sessions were still on their way (load).
ShowsItsAccount ==
  \A t \in Tabs, k \in Tokens :
    <>[](token = k /\ k \in live /\ page[t] # "away" /\ ~leaving[t])
      => <>[](data[t] = TokenOwner[k])

\* A pending invoice whose order is paid stops being shown as pending.
PaidIsShown ==
  \A t \in Tabs, o \in Orders :
    (invoice[t] # NoInvoice /\ invoice[t].order = o /\ order[o] = "paid")
      ~> ~(invoice[t] # NoInvoice /\ invoice[t].order = o /\ invoice[t].status = "pending")
================================================================================
