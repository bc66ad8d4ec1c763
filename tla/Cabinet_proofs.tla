---------------------------- MODULE Cabinet_proofs ----------------------------
(***************************************************************************)
(* Proofs about Cabinet: its type invariant; that what is shown or kept as *)
(* paid is paid; that a plan page has one order at a time on its way; and  *)
(* that an invoice appears only under the login its order is of.           *)
(***************************************************************************)
EXTENDS Cabinet, FiniteSetTheorems, TLAPS

--------------------------------------------------------------------------------
(* The parts of the inductive invariant                                    *)

\* Only the plan page has an invoice, a sheet, a poll and calls that see it, and
\* it is there only once the account is known.
Mounted ==
  \A t \in Tabs :
    /\ page[t] = "plan" => data[t] \in Logins
    /\ page[t] # "plan" => /\ invoice[t] = NoInvoice /\ paying[t] = NoPlan
                           /\ poll[t].order = NoOrder
                           /\ \A c \in calls[t] : ~c.seen
    /\ asking[t] => poll[t].order # NoOrder
    /\ poll[t].order # NoOrder => poll[t].login \in Logins

TypeInv == TypeOK /\ Mounted

\* The number of a request on its way is of no order yet and of no other request;
\* invoices are of orders that exist.
SentInv ==
  /\ \A t \in Tabs : \A c \in calls[t] : c.at = "sent" <=> order[c.order] = "none"
  /\ \A t, w \in Tabs : \A c \in calls[t], d \in calls[w] :
       c.at = "sent" /\ d.order = c.order => t = w /\ c = d
  /\ \A t \in Tabs : invoice[t] # NoInvoice => order[invoice[t].order] # "none"
  /\ stored # NoInvoice => order[stored.inv.order] # "none"

\* As long as a request is on its way the sheet is locked, and it is the only one.
OnceInv ==
  \A t \in Tabs \ freed : \A c, d \in calls[t] :
    c.seen /\ c.at \in {"sent", "made"} =>
      busy[t] /\ (d.seen /\ d.at \in {"sent", "made"} => c = d)

\* A tab shows, asks for and has a token of one account.
SessionInv ==
  \A t \in Tabs :
    /\ page[t] = "away" => loads[t] = {} /\ data[t] = NoLogin
    /\ page[t] # "away" /\ token # NoToken => data[t] \in {NoLogin, TokenOwner[token]}
    /\ \A k \in loads[t] \ {NoToken} :
         /\ data[t] \in {NoLogin, TokenOwner[k]}
         /\ token # NoToken => TokenOwner[k] = TokenOwner[token]
         /\ \A l \in loads[t] \ {NoToken} : TokenOwner[l] = TokenOwner[k]

\* Requests, polls and invoices are of the account they were made under.
OwnInv ==
  /\ \A t \in Tabs :
       /\ invoice[t] # NoInvoice => owner[invoice[t].order] = data[t]
       /\ poll[t].order # NoOrder => poll[t].login = data[t]
       /\ \A c \in calls[t] : /\ c.token # NoToken => c.login = TokenOwner[c.token]
                              /\ c.at # "sent" => owner[c.order] = c.login
                              /\ c.seen => c.login = data[t]
  /\ stored # NoInvoice => owner[stored.inv.order] = stored.login

CabinetInv ==
  /\ TypeInv /\ SentInv /\ PaidIsPaid /\ OnceInv
  /\ ~mixed => SessionInv /\ OwnInv

--------------------------------------------------------------------------------
(* What single operations do                                               *)

\* An invoice whose status or dismissal is changed is an invoice.
LEMMA InvoiceTypes ==
  ASSUME NEW i \in Invoices
  PROVE  /\ \A b \in BOOLEAN : [i EXCEPT !.dismissed = b] \in Invoices
         /\ \A s \in {"pending", "paid", "failed"} : [i EXCEPT !.status = s] \in Invoices
BY DEF Invoices

\* What setInvoice shows and what it writes.
LEMMA SetInvoiceEffect ==
  ASSUME TypeOK, NEW t \in Tabs, NEW value \in Invoices \union {NoInvoice}, NEW login,
         value # NoInvoice => login \in Logins, SetInvoice(t, value, login)
  PROVE  /\ invoice' \in [Tabs -> Invoices \union {NoInvoice}]
         /\ stored' \in StoredInvoices \union {NoInvoice}
         /\ invoice'[t] = value
         /\ \A w \in Tabs \ {t} : invoice'[w] = invoice[w]
         /\ IF value = NoInvoice THEN stored' = NoInvoice
                                 ELSE stored'.inv = value /\ stored'.login = login
<1>1. IF value = NoInvoice THEN stored' = NoInvoice
                           ELSE stored' = [login |-> login, inv |-> value]
  BY DEF SetInvoice
<1>2. stored' \in StoredInvoices \union {NoInvoice}
  BY <1>1 DEF StoredInvoices
<1>3. IF value = NoInvoice THEN stored' = NoInvoice
                           ELSE stored'.inv = value /\ stored'.login = login
  BY <1>1
<1> QED
  BY <1>2, <1>3 DEF SetInvoice, TypeOK

\* startPay keeps the order and the status of the invoice it keeps.
LEMMA StartPayInvoice ==
  ASSUME TypeInv, NEW t \in Tabs, NEW p \in Plans, StartPay(t, p)
  PROVE  \E value \in Invoices \union {NoInvoice} :
           /\ SetInvoice(t, value, data[t])
           /\ value # NoInvoice => /\ invoice[t] # NoInvoice
                                   /\ value.order = invoice[t].order
                                   /\ value.status = invoice[t].status
<1>1. CASE invoice[t] = NoInvoice
  BY <1>1 DEF StartPay
<1>2. CASE invoice[t] # NoInvoice
  <2> DEFINE back == [invoice[t] EXCEPT !.dismissed = FALSE]
  <2>1. invoice[t] \in Invoices
    BY <1>2 DEF TypeInv, TypeOK
  <2>2. back \in Invoices /\ back.order = invoice[t].order /\ back.status = invoice[t].status
    BY <2>1 DEF Invoices
  <2>3. SetInvoice(t, NoInvoice, data[t]) \/ SetInvoice(t, back, data[t])
    BY <1>2 DEF StartPay
  <2> QED
    BY <1>2, <2>2, <2>3
<1> QED
  BY <1>1, <1>2

\* finish marks the invoice of the order asked about, with its status, or none.
LEMMA AnswerInvoice ==
  ASSUME TypeInv, NEW t \in Tabs, Answer(t)
  PROVE  \/ UNCHANGED <<invoice, stored>>
         \/ \E value \in Invoices \union {NoInvoice} :
              /\ SetInvoice(t, value, poll[t].login)
              /\ value # NoInvoice => /\ invoice[t] # NoInvoice
                                      /\ value.order = invoice[t].order
                                      /\ value.status \in {invoice[t].status, order[value.order]}
<1> DEFINE status == order[poll[t].order]
<1>1. CASE status \in {"paid", "failed"}
  <2> DEFINE value == Finished(t, status)
  <2>1. SetInvoice(t, value, poll[t].login)
    BY <1>1 DEF Answer
  <2>2. CASE invoice[t] = NoInvoice
    BY <2>1, <2>2 DEF Finished
  <2>3. CASE invoice[t] # NoInvoice
    <3>1. invoice[t] \in Invoices
      BY <2>3 DEF TypeInv, TypeOK
    <3>2. /\ value \in Invoices /\ value.order = invoice[t].order
          /\ value.status \in {invoice[t].status, order[value.order]}
      BY <1>1, <2>3, <3>1 DEF Finished, Invoices
    <3> QED
      BY <2>1, <2>3, <3>2
  <2> QED
    BY <2>2, <2>3
<1>2. CASE status \notin {"paid", "failed"}
  BY <1>2 DEF Answer
<1> QED
  BY <1>1, <1>2

\* A request that outlives its page is the same request, unseen.
LEMMA UnseenEffect ==
  ASSUME TypeOK, NEW t \in Tabs, NEW c \in Unseen(t)
  PROVE  /\ c \in Calls /\ ~c.seen
         /\ \E d \in calls[t] :
              /\ c = [d EXCEPT !.seen = FALSE]
              /\ c.order = d.order /\ c.token = d.token /\ c.login = d.login /\ c.at = d.at
<1>1. PICK d \in calls[t] : c = [d EXCEPT !.seen = FALSE]
  BY DEF Unseen
<1>2. d \in Calls
  BY DEF TypeOK
<1> QED
  BY <1>1, <1>2 DEF Calls

\* A click adds one request, of the account shown and the token stored.
LEMMA PayWithCall ==
  ASSUME TypeInv, NEW t \in Tabs, NEW o \in Orders, PayWith(t, o)
  PROVE  \E c \in Calls :
           /\ calls' \in [Tabs -> SUBSET Calls]
           /\ calls'[t] = calls[t] \union {c}
           /\ \A w \in Tabs \ {t} : calls'[w] = calls[w]
           /\ c.order = o /\ c.token = token /\ c.login = data[t] /\ c.at = "sent" /\ c.seen
<1> DEFINE c == [order |-> o, token |-> token, login |-> data[t], at |-> "sent", seen |-> TRUE]
<1>1. data[t] \in Logins
  BY DEF TypeInv, Mounted, PayWith
<1>2. c \in Calls
  BY <1>1 DEF TypeInv, TypeOK, Calls
<1>3. calls' = [calls EXCEPT ![t] = calls[t] \union {c}]
  BY DEF PayWith
<1>4. /\ calls' \in [Tabs -> SUBSET Calls]
      /\ calls'[t] = calls[t] \union {c}
      /\ \A w \in Tabs \ {t} : calls'[w] = calls[w]
  <2> HIDE DEF c
  <2> QED
    BY <1>2, <1>3 DEF TypeInv, TypeOK
<1>5. c.order = o /\ c.token = token /\ c.login = data[t] /\ c.at = "sent" /\ c.seen
  OBVIOUS
<1> QED
  BY <1>2, <1>4, <1>5

\* The panel answers one request, with a new order or a pending one.
LEMMA MakeCall ==
  ASSUME TypeInv, NEW t \in Tabs, NEW c \in calls[t], Make(t, c)
  PROVE  \E o \in Orders, d \in Calls :
           /\ \/ o = c.order /\ Create(c, "pending")
              \/ Reusable(c, o) /\ UNCHANGED panel
           /\ d.order = o /\ d.token = c.token /\ d.login = c.login /\ d.at = "made"
           /\ d.seen = c.seen
           /\ calls' \in [Tabs -> SUBSET Calls]
           /\ calls'[t] = (calls[t] \ {c}) \union {d}
           /\ \A w \in Tabs \ {t} : calls'[w] = calls[w]
<1>1. c \in Calls /\ c.order \in Orders
  BY DEF TypeInv, TypeOK, Calls
<1>2. PICK o \in Orders : /\ \/ o = c.order /\ Create(c, "pending")
                             \/ Reusable(c, o) /\ UNCHANGED panel
                          /\ Answered(t, c, o)
  BY <1>1 DEF Make
<1> DEFINE d == [c EXCEPT !.order = o, !.at = "made"]
<1>3. /\ d \in Calls /\ d.order = o /\ d.token = c.token /\ d.login = c.login
      /\ d.at = "made" /\ d.seen = c.seen
  BY <1>1 DEF Calls
<1>4. calls' = [calls EXCEPT ![t] = (calls[t] \ {c}) \union {d}]
  BY <1>2 DEF Answered
<1>5. /\ calls' \in [Tabs -> SUBSET Calls]
      /\ calls'[t] = (calls[t] \ {c}) \union {d}
      /\ \A w \in Tabs \ {t} : calls'[w] = calls[w]
  <2> HIDE DEF d
  <2> QED
    BY <1>3, <1>4 DEF TypeInv, TypeOK
<1> QED
  BY <1>2, <1>3, <1>5

\* After the answer of the panel at most a wallet is waited for.
LEMMA MadeCall ==
  ASSUME TypeInv, NEW t \in Tabs, NEW c \in calls[t], Made(t, c)
  PROVE  /\ c \in Calls /\ page[t] = "plan"
         /\ Bill(c) \in Invoices /\ Bill(c).order = c.order /\ c.login \in Logins
         /\ item[c.order].plan \in Plans
         /\ calls' \in [Tabs -> SUBSET Calls]
         /\ \A w \in Tabs \ {t} : calls'[w] = calls[w]
         /\ \A e \in calls'[t] :
              \/ e \in calls[t] \ {c}
              \/ /\ e.order = c.order /\ e.token = c.token /\ e.login = c.login
                 /\ e.at = "wallet" /\ e.seen = c.seen
<1>1. c \in Calls /\ page[t] = "plan"
  BY DEF TypeInv, TypeOK, Mounted, Made
<1>2. Bill(c) \in Invoices /\ Bill(c).order = c.order /\ c.login \in Logins /\ item[c.order].plan \in Plans
  BY <1>1 DEF TypeInv, TypeOK, Bill, Invoices, Calls, Items
<1> DEFINE d == [c EXCEPT !.at = "wallet"]
<1>3. /\ d \in Calls /\ d.order = c.order /\ d.token = c.token /\ d.login = c.login
      /\ d.at = "wallet" /\ d.seen = c.seen
  BY <1>1 DEF Calls
<1>4. calls' = [calls EXCEPT ![t] = (calls[t] \ {c}) \union (IF item[c.order].ton THEN {d} ELSE {})]
  BY DEF Made
<1>5. /\ calls' \in [Tabs -> SUBSET Calls]
      /\ \A w \in Tabs \ {t} : calls'[w] = calls[w]
      /\ \A e \in calls'[t] : e \in calls[t] \ {c} \/ e = d
  <2> HIDE DEF d
  <2> QED
    BY <1>3, <1>4 DEF TypeInv, TypeOK
<1> QED
  BY <1>1, <1>2, <1>3, <1>5

--------------------------------------------------------------------------------
(* Steps: types                                                            *)

LEMMA TypeLeave ==
  ASSUME TypeInv, NEW t \in Tabs, token' = NoToken, Leave(t),
         UNCHANGED <<stored, panel, faults, history>>
  PROVE  TypeInv'
<1> DEFINE u == Unseen(t)
<1>1. u \subseteq Calls /\ \A c \in u : ~c.seen
  BY UnseenEffect DEF TypeInv
<1> HIDE DEF u
<1>2. /\ Unmount(t, u) /\ Gone(t)
      /\ strays' = [strays EXCEPT ![t] = strays[t] \/ loads[t] # {}]
  BY DEF Leave, u
<1> QED
  BY <1>1, <1>2, SMTT(40) DEF TypeInv, TypeOK, Mounted, Unmount, Gone, panel, history, NoPoll

LEMMA TypeClosePlan ==
  ASSUME TypeInv, NEW t \in Tabs, ClosePlan(t)
  PROVE  TypeInv'
<1> DEFINE u == Unseen(t)
<1>1. u \subseteq Calls /\ \A c \in u : ~c.seen
  BY UnseenEffect DEF TypeInv
<1> HIDE DEF u
<1>2. Unmount(t, u)
  BY DEF ClosePlan, u
<1> QED
  BY <1>1, <1>2, SMTT(40) DEF TypeInv, TypeOK, Mounted, Unmount, ClosePlan, storage, panel, history, NoPoll

LEMMA TypeCloseSheet ==
  ASSUME TypeInv, NEW t \in Tabs, CloseSheet(t)
  PROVE  TypeInv'
<1> DEFINE value == IF Pending(invoice[t]) THEN [invoice[t] EXCEPT !.dismissed = TRUE] ELSE invoice[t]
<1>1. value \in Invoices \union {NoInvoice}
  BY InvoiceTypes DEF TypeInv, TypeOK, Pending
<1>2. value = NoInvoice \/ data[t] \in Logins
  BY DEF TypeInv, TypeOK, Mounted, CloseSheet
<1>0. SetInvoice(t, value, data[t])
  BY DEF CloseSheet
<1> HIDE DEF value
<1>3. /\ invoice' \in [Tabs -> Invoices \union {NoInvoice}]
      /\ stored' \in StoredInvoices \union {NoInvoice}
      /\ \A w \in Tabs \ {t} : invoice'[w] = invoice[w]
  BY <1>0, <1>1, <1>2, SetInvoiceEffect DEF TypeInv
<1>4. /\ page[t] = "plan" /\ paying' = [paying EXCEPT ![t] = NoPlan]
      /\ UNCHANGED <<token, panel, busy, calls, poll, asking, tabs, faults, history>>
  BY DEF TypeInv, Mounted, CloseSheet
<1> QED
  BY <1>3, <1>4, SMTT(40) DEF TypeInv, TypeOK, Mounted, panel, tabs, history

LEMMA TypeStartPay ==
  ASSUME TypeInv, NEW t \in Tabs, NEW p \in Plans, StartPay(t, p)
  PROVE  TypeInv'
<1>1. PICK value \in Invoices \union {NoInvoice} : SetInvoice(t, value, data[t])
  BY StartPayInvoice
<1>2. data[t] \in Logins
  BY DEF TypeInv, Mounted, StartPay
<1>3. /\ invoice' \in [Tabs -> Invoices \union {NoInvoice}]
      /\ stored' \in StoredInvoices \union {NoInvoice}
      /\ \A w \in Tabs \ {t} : invoice'[w] = invoice[w]
  BY <1>1, <1>2, SetInvoiceEffect DEF TypeInv
<1>4. /\ page[t] = "plan" /\ paying' = [paying EXCEPT ![t] = p]
      /\ UNCHANGED <<token, panel, busy, calls, poll, asking, tabs, faults, history>>
  BY DEF StartPay
<1> QED
  BY <1>3, <1>4, SMTT(40) DEF TypeInv, TypeOK, Mounted, panel, tabs, history

LEMMA TypeAnswer ==
  ASSUME TypeInv, NEW t \in Tabs, Answer(t)
  PROVE  TypeInv'
<1>1. poll[t].login \in Logins /\ page[t] = "plan"
  BY DEF TypeInv, Mounted, Answer
<1>2. /\ invoice' \in [Tabs -> Invoices \union {NoInvoice}]
      /\ stored' \in StoredInvoices \union {NoInvoice}
      /\ \A w \in Tabs \ {t} : invoice'[w] = invoice[w]
  <2>1. CASE UNCHANGED <<invoice, stored>>
    BY <2>1 DEF TypeInv, TypeOK
  <2>2. CASE \E value \in Invoices \union {NoInvoice} : SetInvoice(t, value, poll[t].login)
    BY <1>1, <2>2, SetInvoiceEffect DEF TypeInv
  <2> QED
    BY <2>1, <2>2, AnswerInvoice
<1>3. loads' \in [Tabs -> SUBSET (Tokens \union {NoToken})]
  BY DEF TypeInv, TypeOK, Answer
<1>4. /\ poll' = [poll EXCEPT ![t] = NoPoll] \/ poll' = poll
      /\ asking' = [asking EXCEPT ![t] = FALSE]
      /\ UNCHANGED <<token, panel, paying, busy, calls, page, data, strays, leaving, faults, history>>
  BY DEF Answer
<1> QED
  BY <1>1, <1>2, <1>3, <1>4, SMTT(40) DEF TypeInv, TypeOK, Mounted, panel, history, NoPoll

LEMMA TypeOpenPlan ==
  ASSUME TypeInv, NEW t \in Tabs, OpenPlan(t)
  PROVE  TypeInv'
<1> DEFINE mine == stored # NoInvoice /\ stored.login = data[t]
<1>1. data[t] \in Logins
  BY DEF TypeInv, TypeOK, OpenPlan
<1>2. mine => stored.inv \in Invoices /\ stored.inv.plan \in Plans
  BY DEF TypeInv, TypeOK, StoredInvoices, Invoices
<1>3. /\ invoice' \in [Tabs -> Invoices \union {NoInvoice}]
      /\ \A w \in Tabs \ {t} : invoice'[w] = invoice[w]
  BY <1>2 DEF TypeInv, TypeOK, OpenPlan
<1>4. /\ paying' \in [Tabs -> Plans \union {NoPlan}]
      /\ \A w \in Tabs \ {t} : paying'[w] = paying[w]
  BY <1>2 DEF TypeInv, TypeOK, OpenPlan
<1>5. stored' \in StoredInvoices \union {NoInvoice}
  BY DEF TypeInv, TypeOK, OpenPlan
<1>6. /\ page' = [page EXCEPT ![t] = "plan"]
      /\ UNCHANGED <<token, panel, busy, calls, poll, asking, data, loads, strays, leaving, faults, history>>
  BY DEF OpenPlan
<1> QED
  BY <1>1, <1>3, <1>4, <1>5, <1>6, SMTT(40) DEF TypeInv, TypeOK, Mounted, panel, history

LEMMA TypePayWith ==
  ASSUME TypeInv, NEW t \in Tabs, NEW o \in Orders, PayWith(t, o)
  PROVE  TypeInv'
<1>1. page[t] = "plan"
  BY DEF PayWith
<1>2. calls' \in [Tabs -> SUBSET Calls] /\ \A w \in Tabs \ {t} : calls'[w] = calls[w]
  BY PayWithCall
<1> QED
  BY <1>1, <1>2, SMTT(40) DEF TypeInv, TypeOK, Mounted, PayWith, storage, panel, tabs, history

LEMMA TypeMake ==
  ASSUME TypeInv, NEW t \in Tabs, NEW c \in calls[t], Make(t, c)
  PROVE  TypeInv'
<1>1. PICK o \in Orders, d \in Calls :
        /\ \/ o = c.order /\ Create(c, "pending")
           \/ Reusable(c, o) /\ UNCHANGED panel
        /\ d.seen = c.seen
        /\ calls' \in [Tabs -> SUBSET Calls]
        /\ calls'[t] = (calls[t] \ {c}) \union {d}
        /\ \A w \in Tabs \ {t} : calls'[w] = calls[w]
  BY MakeCall
<1>2. /\ order' \in [Orders -> {"none", "pending", "paid", "failed"}]
      /\ owner' \in [Orders -> Logins \union {NoLogin}]
      /\ UNCHANGED <<live, ended, item>>
  <2>1. CASE Create(c, "pending")
    BY <2>1, CabinetAssumption DEF TypeInv, TypeOK, Make, Create, Calls
  <2>2. CASE UNCHANGED panel
    BY <2>2 DEF TypeInv, TypeOK, panel
  <2> QED
    BY <1>1, <2>1, <2>2
<1>3. page[t] # "plan" => \A e \in calls'[t] : ~e.seen
  BY <1>1 DEF TypeInv, Mounted
<1> QED
  BY <1>1, <1>2, <1>3, SMTT(40) DEF TypeInv, TypeOK, Mounted, Make, storage, tabs, history

LEMMA TypeMade ==
  ASSUME TypeInv, NEW t \in Tabs, NEW c \in calls[t], Made(t, c)
  PROVE  TypeInv'
<1>1. /\ page[t] = "plan" /\ Bill(c) \in Invoices /\ c.login \in Logins
      /\ item[c.order].plan \in Plans
      /\ calls' \in [Tabs -> SUBSET Calls]
      /\ \A w \in Tabs \ {t} : calls'[w] = calls[w]
  BY MadeCall
<1>2. /\ invoice' \in [Tabs -> Invoices \union {NoInvoice}]
      /\ stored' \in StoredInvoices \union {NoInvoice}
      /\ \A w \in Tabs \ {t} : invoice'[w] = invoice[w]
  BY <1>1, SetInvoiceEffect DEF TypeInv, Made
<1>3. paying' \in [Tabs -> Plans \union {NoPlan}] /\ \A w \in Tabs \ {t} : paying'[w] = paying[w]
  BY <1>1 DEF TypeInv, TypeOK, Made
<1> QED
  BY <1>1, <1>2, <1>3, SMTT(40) DEF TypeInv, TypeOK, Mounted, Made, panel, tabs, history

LEMMA TypeMadeUnseen ==
  ASSUME TypeInv, NEW t \in Tabs, NEW c \in calls[t], MadeUnseen(t, c)
  PROVE  TypeInv'
<1>1. Bill(c) \in Invoices /\ c.login \in Logins
  BY DEF TypeInv, TypeOK, Bill, Invoices, Calls, Items
<1>2. stored' \in StoredInvoices \union {NoInvoice}
  BY <1>1 DEF TypeInv, TypeOK, MadeUnseen, StoredInvoices
<1> QED
  BY <1>2, SMTT(40) DEF TypeInv, TypeOK, Mounted, MadeUnseen, panel, tabs, history

\* Every step keeps the types and what is mounted.
LEMMA TypeStep ==
  ASSUME TypeInv, [Next]_vars
  PROVE  TypeInv'
<1>1. ASSUME NEW t \in Tabs, StrayRefused(t) PROVE TypeInv'
  BY <1>1, TypeLeave DEF StrayRefused
<1>2. ASSUME NEW t \in Tabs, StrayEnds(t) PROVE TypeInv'
  BY <1>2 DEF TypeInv, TypeOK, Mounted, StrayEnds, storage, panel, sheet, history
<1>3. ASSUME NEW t \in Tabs, SignOut(t) PROVE TypeInv'
  BY <1>3 DEF TypeInv, TypeOK, Mounted, SignOut, storage, sheet, history
<1>4. ASSUME NEW t \in Tabs, SignedOut(t) PROVE TypeInv'
  BY <1>4, TypeLeave DEF SignedOut
<1>5. ASSUME NEW t \in Tabs, Enter(t) PROVE TypeInv'
  BY <1>5 DEF TypeInv, TypeOK, Mounted, Enter, storage, panel, sheet, history
<1>6. ASSUME NEW t \in Tabs, Reload(t) PROVE TypeInv'
  BY <1>6 DEF TypeInv, TypeOK, Mounted, Reload, Gone, Unmount, storage, panel, history, NoPoll
<1>7. ASSUME NEW t \in Tabs, Load(t) PROVE TypeInv'
  BY <1>7 DEF TypeInv, TypeOK, Mounted, Load, storage, panel, sheet, history
<1>8. ASSUME NEW t \in Tabs, OpenPlan(t) PROVE TypeInv'
  BY <1>8, TypeOpenPlan
<1>9. ASSUME NEW t \in Tabs, ClosePlan(t) PROVE TypeInv'
  BY <1>9, TypeClosePlan
<1>10. ASSUME NEW t \in Tabs, NewInvoice(t) PROVE TypeInv'
  BY <1>10 DEF TypeInv, TypeOK, Mounted, NewInvoice, SetInvoice, Shown, panel, tabs, history
<1>11. ASSUME NEW t \in Tabs, CloseSheet(t) PROVE TypeInv'
  BY <1>11, TypeCloseSheet
<1>12. ASSUME NEW t \in Tabs, Watch(t) PROVE TypeInv'
  BY <1>12 DEF TypeInv, TypeOK, Mounted, Invoices, StoredInvoices, Calls, Items, Watch, Wanted,
    Pending, storage, panel, tabs, history, NoPoll
<1>13. ASSUME NEW t \in Tabs, Ask(t) PROVE TypeInv'
  BY <1>13 DEF TypeInv, TypeOK, Mounted, Ask, storage, panel, tabs, history
<1>14. ASSUME NEW t \in Tabs, Answer(t) PROVE TypeInv'
  BY <1>14, TypeAnswer
<1>15. ASSUME NEW t \in Tabs, AskLost(t) PROVE TypeInv'
  BY <1>15, CabinetAssumption DEF TypeInv, TypeOK, Mounted, AskLost, Fault, storage, panel,
    tabs, history
<1>16. ASSUME NEW t \in Tabs, NEW k \in Tokens \union {NoToken}, Loaded(t, k) PROVE TypeInv'
  BY <1>16, CabinetAssumption DEF TypeInv, TypeOK, Mounted, Loaded, storage, panel, sheet, history
<1>17. ASSUME NEW t \in Tabs, NEW k \in Tokens \union {NoToken}, LoadRefused(t, k) PROVE TypeInv'
  BY <1>17, TypeLeave DEF LoadRefused
<1>18. ASSUME NEW t \in Tabs, NEW k \in Tokens \union {NoToken}, LoadLost(t, k) PROVE TypeInv'
  BY <1>18, CabinetAssumption DEF TypeInv, TypeOK, Mounted, LoadLost, Fault, storage, panel,
    sheet, history
<1>19. ASSUME NEW t \in Tabs, NEW p \in Plans, StartPay(t, p) PROVE TypeInv'
  BY <1>19, TypeStartPay
<1>20. ASSUME NEW t \in Tabs, NEW o \in Orders, PayWith(t, o) PROVE TypeInv'
  BY <1>20, TypePayWith
<1>21. ASSUME NEW t \in Tabs, NEW c \in calls[t], Make(t, c) PROVE TypeInv'
  BY <1>21, TypeMake
<1>22. ASSUME NEW t \in Tabs, NEW c \in calls[t], Made(t, c) PROVE TypeInv'
  BY <1>22, TypeMade
<1>23. ASSUME NEW t \in Tabs, NEW c \in calls[t], MadeUnseen(t, c) PROVE TypeInv'
  BY <1>23, TypeMadeUnseen
<1>24. ASSUME NEW t \in Tabs, NEW c \in calls[t], Refused(t, c) PROVE TypeInv'
  BY <1>24 DEF TypeInv, TypeOK, Mounted, Refused, CallFails, panel, tabs, history
<1>25. ASSUME NEW t \in Tabs, NEW c \in calls[t], NotMade(t, c) PROVE TypeInv'
  BY <1>25, CabinetAssumption DEF TypeInv, TypeOK, Mounted, Calls, NotMade, Fault, Create,
    CallFails, tabs, history
<1>26. ASSUME NEW t \in Tabs, NEW c \in calls[t], CallLost(t, c) PROVE TypeInv'
  BY <1>26, CabinetAssumption DEF TypeInv, TypeOK, Mounted, CallLost, Fault, CallFails, panel,
    tabs, history
<1>27. ASSUME NEW t \in Tabs, NEW c \in calls[t], WalletCloses(t, c) PROVE TypeInv'
  BY <1>27 DEF TypeInv, TypeOK, Mounted, WalletCloses, storage, panel, tabs
<1>28. ASSUME NEW k \in Tokens, SignIn(k) PROVE TypeInv'
  BY <1>28 DEF TypeInv, TypeOK, Mounted, SignIn, sheet, tabs
<1>29. ASSUME NEW k \in Tokens, CloseSession(k) PROVE TypeInv'
  BY <1>29 DEF TypeInv, TypeOK, Mounted, CloseSession, storage, sheet, tabs, history
<1>30. CASE ForgottenElsewhere
  BY <1>30 DEF TypeInv, TypeOK, Mounted, ForgottenElsewhere, panel, sheet, tabs, history
<1>31. ASSUME NEW o \in Orders, Paid(o) PROVE TypeInv'
  BY <1>31 DEF TypeInv, TypeOK, Mounted, Paid, storage, sheet, tabs, history
<1>32. ASSUME NEW o \in Orders, Failed(o) PROVE TypeInv'
  BY <1>32 DEF TypeInv, TypeOK, Mounted, Failed, storage, sheet, tabs, history
<1>33. CASE UNCHANGED vars
  BY <1>33 DEF vars, storage, panel, sheet, tabs, history, TypeInv, TypeOK, Mounted
<1> QED
  BY <1>1, <1>2, <1>3, <1>4, <1>5, <1>6, <1>7, <1>8, <1>9, <1>10, <1>11, <1>12, <1>13, <1>14,
    <1>15, <1>16, <1>17, <1>18, <1>19, <1>20, <1>21, <1>22, <1>23, <1>24, <1>25, <1>26, <1>27,
    <1>28, <1>29, <1>30, <1>31, <1>32, <1>33 DEF Next

--------------------------------------------------------------------------------
(* Steps: requests on their way                                            *)

LEMMA SentPayWith ==
  ASSUME TypeInv, SentInv, NEW t \in Tabs, NEW o \in Orders, PayWith(t, o)
  PROVE  SentInv'
<1>1. PICK c \in Calls :
        /\ calls'[t] = calls[t] \union {c}
        /\ \A w \in Tabs \ {t} : calls'[w] = calls[w]
        /\ c.order = o /\ c.at = "sent"
  BY PayWithCall
<1>2. /\ order[o] = "none" /\ \A w \in Tabs : \A d \in calls[w] : d.order # o
      /\ UNCHANGED <<order, invoice, stored>>
  BY DEF PayWith, Unused, storage, panel
<1>3. \A w \in Tabs : \A d \in calls'[w] : d \in calls[w] \/ (w = t /\ d = c)
  BY <1>1
<1> QED
  BY <1>1, <1>2, <1>3 DEF SentInv

LEMMA SentMake ==
  ASSUME TypeInv, SentInv, NEW t \in Tabs, NEW c \in calls[t], Make(t, c)
  PROVE  SentInv'
<1>1. PICK o \in Orders, d \in Calls :
        /\ \/ o = c.order /\ Create(c, "pending")
           \/ Reusable(c, o) /\ UNCHANGED panel
        /\ d.order = o /\ d.at = "made"
        /\ calls'[t] = (calls[t] \ {c}) \union {d}
        /\ \A w \in Tabs \ {t} : calls'[w] = calls[w]
  BY MakeCall
<1>2. \A w \in Tabs : \A e \in calls'[w] : (e \in calls[w] /\ ~(w = t /\ e = c)) \/ (w = t /\ e = d)
  BY <1>1
<1>3. c.at = "sent" /\ UNCHANGED <<invoice, stored>>
  BY DEF Make, storage
<1>4. order[c.order] = "none" /\ c.order \in Orders
  BY <1>3 DEF SentInv, TypeInv, TypeOK, Calls
<1>5. \A w \in Tabs : \A e \in calls[w] : ~(w = t /\ e = c) => e.order # c.order
  BY <1>3 DEF SentInv
<1>6. order'[o] = "pending" /\ \A x \in Orders : x # c.order => order'[x] = order[x]
  BY <1>1, <1>4 DEF Create, Reusable, panel, TypeInv, TypeOK
<1>9. order[o] = "pending" \/ o = c.order
  BY <1>1 DEF Reusable
<1>7. \A w \in Tabs : \A e \in calls[w] : e.order \in Orders
  BY DEF TypeInv, TypeOK, Calls
<1>8. /\ \A w \in Tabs : invoice[w] # NoInvoice => invoice[w].order \in Orders
      /\ stored # NoInvoice => stored.inv.order \in Orders
  BY DEF TypeInv, TypeOK, Invoices, StoredInvoices
<1>11. \A w \in Tabs : \A e \in calls'[w] : e.at = "sent" <=> order'[e.order] = "none"
  BY <1>1, <1>2, <1>4, <1>5, <1>6, <1>7 DEF SentInv
<1>12. \A v, w \in Tabs : \A e \in calls'[v], f \in calls'[w] :
         e.at = "sent" /\ f.order = e.order => v = w /\ e = f
  BY <1>1, <1>2, <1>4, <1>5, <1>6, <1>7, <1>9 DEF SentInv
<1>13. /\ \A w \in Tabs : invoice[w] # NoInvoice => order'[invoice[w].order] # "none"
       /\ stored # NoInvoice => order'[stored.inv.order] # "none"
  BY <1>4, <1>6, <1>8 DEF SentInv
<1> QED
  BY <1>3, <1>11, <1>12, <1>13 DEF SentInv

LEMMA SentUnmount ==
  ASSUME TypeInv, SentInv, NEW t \in Tabs, Unmount(t, Unseen(t)), UNCHANGED <<order, stored>>
  PROVE  SentInv'
<1>1. /\ calls'[t] = Unseen(t) /\ \A w \in Tabs \ {t} : calls'[w] = calls[w]
      /\ invoice'[t] = NoInvoice /\ \A w \in Tabs \ {t} : invoice'[w] = invoice[w]
  BY DEF Unmount, TypeInv, TypeOK
<1>2. \A w \in Tabs : \A c \in calls'[w] :
        \E d \in calls[w] : /\ c = d \/ (w = t /\ c = [d EXCEPT !.seen = FALSE])
                            /\ c.order = d.order /\ c.at = d.at
  BY <1>1, UnseenEffect DEF TypeInv
<1>3. \A w \in Tabs : \A c \in calls'[w] : c.at = "sent" <=> order[c.order] = "none"
  BY <1>2 DEF SentInv
<1>4. ASSUME NEW v \in Tabs, NEW w \in Tabs, NEW c \in calls'[v], NEW d \in calls'[w],
             c.at = "sent", d.order = c.order
      PROVE  v = w /\ c = d
  <2>1. PICK x \in calls[v] : /\ c = x \/ (v = t /\ c = [x EXCEPT !.seen = FALSE])
                              /\ c.order = x.order /\ c.at = x.at
    BY <1>2
  <2>2. PICK y \in calls[w] : /\ d = y \/ (w = t /\ d = [y EXCEPT !.seen = FALSE])
                              /\ d.order = y.order /\ d.at = y.at
    BY <1>2
  <2>3. v = w /\ x = y
    BY <1>4, <2>1, <2>2 DEF SentInv
  <2>4. CASE v = t
    <3>1. \A e \in Unseen(t) : ~e.seen /\ e \in Calls
      BY UnseenEffect DEF TypeInv
    <3>2. x \in Calls /\ (~x.seen => [x EXCEPT !.seen = FALSE] = x)
      BY DEF TypeInv, TypeOK, Calls
    <3>3. ~c.seen /\ ~d.seen
      BY <1>1, <2>3, <2>4, <3>1
    <3>4. c = [x EXCEPT !.seen = FALSE]
      BY <2>1, <3>2, <3>3
    <3>5. d = [x EXCEPT !.seen = FALSE]
      BY <2>2, <2>3, <3>2, <3>3
    <3> QED
      BY <2>3, <3>4, <3>5
  <2>5. CASE v # t
    BY <2>1, <2>2, <2>3, <2>5
  <2> QED
    BY <2>4, <2>5
<1> QED
  BY <1>1, <1>3, <1>4 DEF SentInv

LEMMA SentStartPay ==
  ASSUME TypeInv, SentInv, NEW t \in Tabs, NEW p \in Plans, StartPay(t, p)
  PROVE  SentInv'
<1>1. PICK value \in Invoices \union {NoInvoice} :
        /\ SetInvoice(t, value, data[t])
        /\ value # NoInvoice => invoice[t] # NoInvoice /\ value.order = invoice[t].order
  BY StartPayInvoice
<1>2. data[t] \in Logins /\ UNCHANGED <<order, calls>>
  BY DEF StartPay, panel, TypeInv, Mounted
<1>3. /\ invoice'[t] = value /\ \A w \in Tabs \ {t} : invoice'[w] = invoice[w]
      /\ stored' = NoInvoice \/ (value # NoInvoice /\ stored'.inv = value)
  BY <1>1, <1>2, SetInvoiceEffect DEF TypeInv
<1> QED
  BY <1>1, <1>2, <1>3 DEF SentInv

LEMMA SentAnswer ==
  ASSUME TypeInv, SentInv, NEW t \in Tabs, Answer(t)
  PROVE  SentInv'
<1>1. poll[t].login \in Logins /\ UNCHANGED <<order, calls>>
  BY DEF Answer, panel, TypeInv, Mounted
<1>2. CASE UNCHANGED <<invoice, stored>>
  BY <1>1, <1>2 DEF SentInv
<1>3. CASE \E value \in Invoices \union {NoInvoice} :
             /\ SetInvoice(t, value, poll[t].login)
             /\ value # NoInvoice => invoice[t] # NoInvoice /\ value.order = invoice[t].order
  <2>1. PICK value \in Invoices \union {NoInvoice} :
          /\ SetInvoice(t, value, poll[t].login)
          /\ value # NoInvoice => invoice[t] # NoInvoice /\ value.order = invoice[t].order
    BY <1>3
  <2>2. /\ invoice'[t] = value /\ \A w \in Tabs \ {t} : invoice'[w] = invoice[w]
        /\ stored' = NoInvoice \/ (value # NoInvoice /\ stored'.inv = value)
    BY <1>1, <2>1, SetInvoiceEffect DEF TypeInv
  <2> QED
    BY <1>1, <2>1, <2>2 DEF SentInv
<1> QED
  BY <1>2, <1>3, AnswerInvoice

\* Every step keeps the number of a request on its way its own.
LEMMA SentStep ==
  ASSUME TypeInv, SentInv, [Next]_vars
  PROVE  SentInv'
<1>1. ASSUME NEW t \in Tabs, StrayRefused(t) PROVE SentInv'
  BY <1>1, SentUnmount DEF StrayRefused, Leave, panel
<1>2. ASSUME NEW t \in Tabs, StrayEnds(t) PROVE SentInv'
  BY <1>2 DEF SentInv, StrayEnds, storage, panel, sheet, history
<1>3. ASSUME NEW t \in Tabs, SignOut(t) PROVE SentInv'
  BY <1>3 DEF SentInv, SignOut, storage, sheet, history
<1>4. ASSUME NEW t \in Tabs, SignedOut(t) PROVE SentInv'
  BY <1>4, SentUnmount DEF SignedOut, Leave, panel
<1>5. ASSUME NEW t \in Tabs, Enter(t) PROVE SentInv'
  BY <1>5 DEF SentInv, Enter, storage, panel, sheet, history
<1>6. ASSUME NEW t \in Tabs, Reload(t) PROVE SentInv'
  BY <1>6 DEF SentInv, Reload, Gone, Unmount, storage, panel, history, NoPoll
<1>7. ASSUME NEW t \in Tabs, Load(t) PROVE SentInv'
  BY <1>7 DEF SentInv, Load, storage, panel, sheet, history
<1>8. ASSUME NEW t \in Tabs, OpenPlan(t) PROVE SentInv'
  BY <1>8, CabinetAssumption DEF SentInv, TypeInv, TypeOK, Mounted, Invoices, StoredInvoices,
    Calls, Items, OpenPlan, Pending, panel, history
<1>9. ASSUME NEW t \in Tabs, ClosePlan(t) PROVE SentInv'
  BY <1>9, SentUnmount DEF ClosePlan, panel, storage
<1>10. ASSUME NEW t \in Tabs, NewInvoice(t) PROVE SentInv'
  BY <1>10 DEF SentInv, NewInvoice, SetInvoice, Shown, panel, tabs, history
<1>11. ASSUME NEW t \in Tabs, CloseSheet(t) PROVE SentInv'
  BY <1>11 DEF SentInv, CloseSheet, SetInvoice, Pending, panel, tabs, history
<1>12. ASSUME NEW t \in Tabs, Watch(t) PROVE SentInv'
  BY <1>12 DEF SentInv, Watch, Wanted, Pending, storage, panel, tabs, history, NoPoll
<1>13. ASSUME NEW t \in Tabs, Ask(t) PROVE SentInv'
  BY <1>13 DEF SentInv, Ask, storage, panel, tabs, history
<1>14. ASSUME NEW t \in Tabs, Answer(t) PROVE SentInv'
  BY <1>14, SentAnswer
<1>15. ASSUME NEW t \in Tabs, AskLost(t) PROVE SentInv'
  BY <1>15 DEF SentInv, AskLost, Fault, storage, panel, tabs, history
<1>16. ASSUME NEW t \in Tabs, NEW k \in Tokens \union {NoToken}, Loaded(t, k) PROVE SentInv'
  BY <1>16 DEF SentInv, Loaded, storage, panel, sheet, history
<1>17. ASSUME NEW t \in Tabs, NEW k \in Tokens \union {NoToken}, LoadRefused(t, k) PROVE SentInv'
  BY <1>17, SentUnmount DEF LoadRefused, Leave, panel
<1>18. ASSUME NEW t \in Tabs, NEW k \in Tokens \union {NoToken}, LoadLost(t, k) PROVE SentInv'
  BY <1>18 DEF SentInv, LoadLost, Fault, storage, panel, sheet, history
<1>19. ASSUME NEW t \in Tabs, NEW p \in Plans, StartPay(t, p) PROVE SentInv'
  BY <1>19, SentStartPay
<1>20. ASSUME NEW t \in Tabs, NEW o \in Orders, PayWith(t, o) PROVE SentInv'
  BY <1>20, SentPayWith
<1>21. ASSUME NEW t \in Tabs, NEW c \in calls[t], Make(t, c) PROVE SentInv'
  BY <1>21, SentMake
<1>22. ASSUME NEW t \in Tabs, NEW c \in calls[t], Made(t, c) PROVE SentInv'
  BY <1>22 DEF SentInv, TypeInv, TypeOK, Mounted, Calls, Made, SetInvoice, Bill, panel, tabs,
    history
<1>23. ASSUME NEW t \in Tabs, NEW c \in calls[t], MadeUnseen(t, c) PROVE SentInv'
  BY <1>23 DEF SentInv, MadeUnseen, Bill, panel, tabs, history
<1>24. ASSUME NEW t \in Tabs, NEW c \in calls[t], Refused(t, c) PROVE SentInv'
  BY <1>24 DEF SentInv, Refused, CallFails, panel, tabs, history
<1>25. ASSUME NEW t \in Tabs, NEW c \in calls[t], NotMade(t, c) PROVE SentInv'
  BY <1>25 DEF SentInv, TypeInv, TypeOK, NotMade, Fault, Create, CallFails, tabs, history
<1>26. ASSUME NEW t \in Tabs, NEW c \in calls[t], CallLost(t, c) PROVE SentInv'
  BY <1>26 DEF SentInv, CallLost, Fault, CallFails, panel, tabs, history
<1>27. ASSUME NEW t \in Tabs, NEW c \in calls[t], WalletCloses(t, c) PROVE SentInv'
  BY <1>27 DEF SentInv, WalletCloses, storage, panel, tabs
<1>28. ASSUME NEW k \in Tokens, SignIn(k) PROVE SentInv'
  BY <1>28 DEF SentInv, SignIn, sheet, tabs
<1>29. ASSUME NEW k \in Tokens, CloseSession(k) PROVE SentInv'
  BY <1>29 DEF SentInv, CloseSession, storage, sheet, tabs, history
<1>30. CASE ForgottenElsewhere
  BY <1>30 DEF SentInv, ForgottenElsewhere, panel, sheet, tabs, history
<1>31. ASSUME NEW o \in Orders, Paid(o) PROVE SentInv'
  BY <1>31 DEF SentInv, Paid, storage, sheet, tabs, history
<1>32. ASSUME NEW o \in Orders, Failed(o) PROVE SentInv'
  BY <1>32 DEF SentInv, Failed, storage, sheet, tabs, history
<1>33. CASE UNCHANGED vars
  BY <1>33 DEF vars, storage, panel, sheet, tabs, history, SentInv
<1> QED
  BY <1>1, <1>2, <1>3, <1>4, <1>5, <1>6, <1>7, <1>8, <1>9, <1>10, <1>11, <1>12, <1>13, <1>14,
    <1>15, <1>16, <1>17, <1>18, <1>19, <1>20, <1>21, <1>22, <1>23, <1>24, <1>25, <1>26, <1>27,
    <1>28, <1>29, <1>30, <1>31, <1>32, <1>33 DEF Next

--------------------------------------------------------------------------------
(* Steps: what is shown as paid                                            *)

LEMMA PaidMake ==
  ASSUME TypeInv, SentInv, PaidIsPaid, NEW t \in Tabs, NEW c \in calls[t], Make(t, c)
  PROVE  PaidIsPaid'
<1>1. c.at = "sent" /\ c.order \in Orders /\ UNCHANGED <<invoice, stored>>
  BY DEF Make, storage, TypeInv, TypeOK, Calls
<1>2. order[c.order] = "none"
  BY <1>1 DEF SentInv
<1>3. \A o \in Orders : order[o] = "paid" => order'[o] = "paid"
  BY <1>1, <1>2 DEF Make, Create, panel, TypeInv, TypeOK
<1>4. /\ \A w \in Tabs : invoice[w] # NoInvoice => invoice[w].order \in Orders
      /\ stored # NoInvoice => stored.inv.order \in Orders
  BY DEF TypeInv, TypeOK, Invoices, StoredInvoices
<1> QED
  BY <1>1, <1>3, <1>4 DEF PaidIsPaid

LEMMA PaidStartPay ==
  ASSUME TypeInv, PaidIsPaid, NEW t \in Tabs, NEW p \in Plans, StartPay(t, p)
  PROVE  PaidIsPaid'
<1>1. PICK value \in Invoices \union {NoInvoice} :
        /\ SetInvoice(t, value, data[t])
        /\ value # NoInvoice => /\ invoice[t] # NoInvoice
                                /\ value.order = invoice[t].order
                                /\ value.status = invoice[t].status
  BY StartPayInvoice
<1>2. data[t] \in Logins /\ UNCHANGED order
  BY DEF StartPay, panel, TypeInv, Mounted
<1>3. /\ invoice'[t] = value /\ \A w \in Tabs \ {t} : invoice'[w] = invoice[w]
      /\ stored' = NoInvoice \/ (value # NoInvoice /\ stored'.inv = value)
  BY <1>1, <1>2, SetInvoiceEffect DEF TypeInv
<1> QED
  BY <1>1, <1>2, <1>3 DEF PaidIsPaid

LEMMA PaidAnswer ==
  ASSUME TypeInv, PaidIsPaid, NEW t \in Tabs, Answer(t)
  PROVE  PaidIsPaid'
<1>1. poll[t].login \in Logins /\ UNCHANGED order
  BY DEF Answer, panel, TypeInv, Mounted
<1>2. CASE UNCHANGED <<invoice, stored>>
  BY <1>1, <1>2 DEF PaidIsPaid
<1>3. CASE \E value \in Invoices \union {NoInvoice} :
             /\ SetInvoice(t, value, poll[t].login)
             /\ value # NoInvoice => /\ invoice[t] # NoInvoice
                                     /\ value.order = invoice[t].order
                                     /\ value.status \in {invoice[t].status, order[value.order]}
  <2>1. PICK value \in Invoices \union {NoInvoice} :
          /\ SetInvoice(t, value, poll[t].login)
          /\ value # NoInvoice => /\ invoice[t] # NoInvoice
                                  /\ value.order = invoice[t].order
                                  /\ value.status \in {invoice[t].status, order[value.order]}
    BY <1>3
  <2>2. /\ invoice'[t] = value /\ \A w \in Tabs \ {t} : invoice'[w] = invoice[w]
        /\ stored' = NoInvoice \/ (value # NoInvoice /\ stored'.inv = value)
    BY <1>1, <2>1, SetInvoiceEffect DEF TypeInv
  <2> QED
    BY <1>1, <2>1, <2>2 DEF PaidIsPaid
<1> QED
  BY <1>2, <1>3, AnswerInvoice

LEMMA PaidOpenPlan ==
  ASSUME TypeInv, PaidIsPaid, NEW t \in Tabs, OpenPlan(t)
  PROVE  PaidIsPaid'
<1>1. UNCHANGED order
  BY DEF OpenPlan, panel
<1>2. /\ stored' \in {stored, NoInvoice}
      /\ \A w \in Tabs : invoice'[w] # NoInvoice =>
           invoice'[w] = invoice[w] \/ (stored # NoInvoice /\ invoice'[w] = stored.inv)
  BY DEF OpenPlan, TypeInv, TypeOK
<1> QED
  BY <1>1, <1>2 DEF PaidIsPaid

\* Every step keeps what is shown as paid true.
LEMMA PaidStep ==
  ASSUME TypeInv, SentInv, PaidIsPaid, [Next]_vars
  PROVE  PaidIsPaid'
<1>1. ASSUME NEW t \in Tabs, StrayRefused(t) PROVE PaidIsPaid'
  BY <1>1 DEF PaidIsPaid, StrayRefused, Leave, Gone, Unmount, Unseen, panel, history, NoPoll
<1>2. ASSUME NEW t \in Tabs, StrayEnds(t) PROVE PaidIsPaid'
  BY <1>2 DEF PaidIsPaid, StrayEnds, storage, panel, sheet, history
<1>3. ASSUME NEW t \in Tabs, SignOut(t) PROVE PaidIsPaid'
  BY <1>3 DEF PaidIsPaid, SignOut, storage, sheet, history
<1>4. ASSUME NEW t \in Tabs, SignedOut(t) PROVE PaidIsPaid'
  BY <1>4 DEF PaidIsPaid, SignedOut, Leave, Gone, Unmount, Unseen, panel, history, NoPoll
<1>5. ASSUME NEW t \in Tabs, Enter(t) PROVE PaidIsPaid'
  BY <1>5 DEF PaidIsPaid, Enter, storage, panel, sheet, history
<1>6. ASSUME NEW t \in Tabs, Reload(t) PROVE PaidIsPaid'
  BY <1>6 DEF PaidIsPaid, Reload, Gone, Unmount, storage, panel, history, NoPoll
<1>7. ASSUME NEW t \in Tabs, Load(t) PROVE PaidIsPaid'
  BY <1>7 DEF PaidIsPaid, Load, storage, panel, sheet, history
<1>8. ASSUME NEW t \in Tabs, OpenPlan(t) PROVE PaidIsPaid'
  BY <1>8, PaidOpenPlan
<1>9. ASSUME NEW t \in Tabs, ClosePlan(t) PROVE PaidIsPaid'
  BY <1>9 DEF PaidIsPaid, ClosePlan, Unmount, Unseen, storage, panel, history, NoPoll
<1>10. ASSUME NEW t \in Tabs, NewInvoice(t) PROVE PaidIsPaid'
  BY <1>10 DEF PaidIsPaid, NewInvoice, SetInvoice, Shown, panel, tabs, history
<1>11. ASSUME NEW t \in Tabs, CloseSheet(t) PROVE PaidIsPaid'
  BY <1>11 DEF PaidIsPaid, CloseSheet, SetInvoice, Pending, panel, tabs, history
<1>12. ASSUME NEW t \in Tabs, Watch(t) PROVE PaidIsPaid'
  BY <1>12 DEF PaidIsPaid, Watch, Wanted, Pending, storage, panel, tabs, history, NoPoll
<1>13. ASSUME NEW t \in Tabs, Ask(t) PROVE PaidIsPaid'
  BY <1>13 DEF PaidIsPaid, Ask, storage, panel, tabs, history
<1>14. ASSUME NEW t \in Tabs, Answer(t) PROVE PaidIsPaid'
  BY <1>14, PaidAnswer
<1>15. ASSUME NEW t \in Tabs, AskLost(t) PROVE PaidIsPaid'
  BY <1>15 DEF PaidIsPaid, AskLost, Fault, storage, panel, tabs, history
<1>16. ASSUME NEW t \in Tabs, NEW k \in Tokens \union {NoToken}, Loaded(t, k) PROVE PaidIsPaid'
  BY <1>16 DEF PaidIsPaid, Loaded, storage, panel, sheet, history
<1>17. ASSUME NEW t \in Tabs, NEW k \in Tokens \union {NoToken}, LoadRefused(t, k) PROVE PaidIsPaid'
  BY <1>17 DEF PaidIsPaid, LoadRefused, Leave, Gone, Unmount, Unseen, panel, history, NoPoll
<1>18. ASSUME NEW t \in Tabs, NEW k \in Tokens \union {NoToken}, LoadLost(t, k) PROVE PaidIsPaid'
  BY <1>18 DEF PaidIsPaid, LoadLost, Fault, storage, panel, sheet, history
<1>19. ASSUME NEW t \in Tabs, NEW p \in Plans, StartPay(t, p) PROVE PaidIsPaid'
  BY <1>19, PaidStartPay
<1>20. ASSUME NEW t \in Tabs, NEW o \in Orders, PayWith(t, o) PROVE PaidIsPaid'
  BY <1>20 DEF PaidIsPaid, PayWith, Unused, Shown, storage, panel, tabs, history
<1>21. ASSUME NEW t \in Tabs, NEW c \in calls[t], Make(t, c) PROVE PaidIsPaid'
  BY <1>21, PaidMake
<1>22. ASSUME NEW t \in Tabs, NEW c \in calls[t], Made(t, c) PROVE PaidIsPaid'
  BY <1>22 DEF PaidIsPaid, Made, SetInvoice, Bill, panel, tabs, history
<1>23. ASSUME NEW t \in Tabs, NEW c \in calls[t], MadeUnseen(t, c) PROVE PaidIsPaid'
  BY <1>23 DEF PaidIsPaid, MadeUnseen, Bill, panel, tabs, history
<1>24. ASSUME NEW t \in Tabs, NEW c \in calls[t], Refused(t, c) PROVE PaidIsPaid'
  BY <1>24 DEF PaidIsPaid, Refused, CallFails, panel, tabs, history
<1>25. ASSUME NEW t \in Tabs, NEW c \in calls[t], NotMade(t, c) PROVE PaidIsPaid'
  BY <1>25 DEF PaidIsPaid, SentInv, TypeInv, TypeOK, Mounted, Calls, NotMade, Fault, Create,
    CallFails, tabs, history
<1>26. ASSUME NEW t \in Tabs, NEW c \in calls[t], CallLost(t, c) PROVE PaidIsPaid'
  BY <1>26 DEF PaidIsPaid, CallLost, Fault, CallFails, panel, tabs, history
<1>27. ASSUME NEW t \in Tabs, NEW c \in calls[t], WalletCloses(t, c) PROVE PaidIsPaid'
  BY <1>27 DEF PaidIsPaid, WalletCloses, storage, panel, tabs
<1>28. ASSUME NEW k \in Tokens, SignIn(k) PROVE PaidIsPaid'
  BY <1>28 DEF PaidIsPaid, SignIn, sheet, tabs
<1>29. ASSUME NEW k \in Tokens, CloseSession(k) PROVE PaidIsPaid'
  BY <1>29 DEF PaidIsPaid, CloseSession, storage, sheet, tabs, history
<1>30. CASE ForgottenElsewhere
  BY <1>30 DEF PaidIsPaid, ForgottenElsewhere, panel, sheet, tabs, history
<1>31. ASSUME NEW o \in Orders, Paid(o) PROVE PaidIsPaid'
  BY <1>31 DEF PaidIsPaid, Paid, storage, sheet, tabs, history
<1>32. ASSUME NEW o \in Orders, Failed(o) PROVE PaidIsPaid'
  BY <1>32 DEF PaidIsPaid, Failed, storage, sheet, tabs, history
<1>33. CASE UNCHANGED vars
  BY <1>33 DEF vars, storage, panel, sheet, tabs, history, PaidIsPaid
<1> QED
  BY <1>1, <1>2, <1>3, <1>4, <1>5, <1>6, <1>7, <1>8, <1>9, <1>10, <1>11, <1>12, <1>13, <1>14,
    <1>15, <1>16, <1>17, <1>18, <1>19, <1>20, <1>21, <1>22, <1>23, <1>24, <1>25, <1>26, <1>27,
    <1>28, <1>29, <1>30, <1>31, <1>32, <1>33 DEF Next

--------------------------------------------------------------------------------
(* Steps: one request at a time                                            *)

LEMMA OncePayWith ==
  ASSUME TypeInv, OnceInv, NEW t \in Tabs, NEW o \in Orders, PayWith(t, o)
  PROVE  OnceInv'
<1>1. PICK c \in Calls : /\ calls'[t] = calls[t] \union {c}
                         /\ \A w \in Tabs \ {t} : calls'[w] = calls[w]
  BY PayWithCall
<1>2. /\ ~busy[t] /\ busy'[t] = TRUE /\ \A w \in Tabs \ {t} : busy'[w] = busy[w]
      /\ UNCHANGED freed
  BY DEF PayWith, TypeInv, TypeOK, history
<1> QED
  BY <1>1, <1>2 DEF OnceInv

LEMMA OnceMake ==
  ASSUME TypeInv, OnceInv, NEW t \in Tabs, NEW c \in calls[t], Make(t, c)
  PROVE  OnceInv'
<1>1. PICK d \in Calls : /\ d.at = "made" /\ d.seen = c.seen
                         /\ calls'[t] = (calls[t] \ {c}) \union {d}
                         /\ \A w \in Tabs \ {t} : calls'[w] = calls[w]
  BY MakeCall
<1>2. c.at = "sent" /\ UNCHANGED <<busy, freed>>
  BY DEF Make, history
<1>3. ASSUME NEW w \in Tabs \ freed, NEW x \in calls'[w], NEW y \in calls'[w],
             x.seen, x.at \in {"sent", "made"}
      PROVE  busy[w] /\ (y.seen /\ y.at \in {"sent", "made"} => x = y)
  <2>1. CASE w # t
    BY <1>1, <1>3, <2>1 DEF OnceInv
  <2>2. CASE w = t /\ x = d
    <3>1. busy[t] /\ \A e \in calls[t] : e.seen /\ e.at \in {"sent", "made"} => e = c
      BY <1>1, <1>2, <1>3, <2>2 DEF OnceInv
    <3> QED
      BY <1>1, <2>2, <3>1
  <2>3. CASE w = t /\ x # d
    <3>1. x \in calls[t] /\ x # c
      BY <1>1, <2>3
    <3>2. busy[t] /\ \A e \in calls[t] : e.seen /\ e.at \in {"sent", "made"} => e = x
      BY <1>3, <2>3, <3>1 DEF OnceInv
    <3>3. ~c.seen
      BY <1>2, <3>1, <3>2
    <3> QED
      BY <1>1, <2>3, <3>2, <3>3
  <2> QED
    BY <2>1, <2>2, <2>3
<1> QED
  BY <1>2, <1>3 DEF OnceInv

\* Every step keeps the sheet locked while a request is on its way.
LEMMA OnceStep ==
  ASSUME TypeInv, SentInv, OnceInv, [Next]_vars
  PROVE  OnceInv'
<1>1. ASSUME NEW t \in Tabs, StrayRefused(t) PROVE OnceInv'
  BY <1>1 DEF OnceInv, TypeInv, TypeOK, Mounted, Calls, StrayRefused, Leave, Gone, Unmount,
    Unseen, panel, history, NoPoll
<1>2. ASSUME NEW t \in Tabs, StrayEnds(t) PROVE OnceInv'
  BY <1>2 DEF OnceInv, StrayEnds, storage, panel, sheet, history
<1>3. ASSUME NEW t \in Tabs, SignOut(t) PROVE OnceInv'
  BY <1>3 DEF OnceInv, SignOut, storage, sheet, history
<1>4. ASSUME NEW t \in Tabs, SignedOut(t) PROVE OnceInv'
  BY <1>4 DEF OnceInv, TypeInv, TypeOK, Mounted, Calls, SignedOut, Leave, Gone, Unmount,
    Unseen, panel, history, NoPoll
<1>5. ASSUME NEW t \in Tabs, Enter(t) PROVE OnceInv'
  BY <1>5 DEF OnceInv, Enter, storage, panel, sheet, history
<1>6. ASSUME NEW t \in Tabs, Reload(t) PROVE OnceInv'
  BY <1>6 DEF OnceInv, TypeInv, TypeOK, Reload, Gone, Unmount, storage, panel, history, NoPoll
<1>7. ASSUME NEW t \in Tabs, Load(t) PROVE OnceInv'
  BY <1>7 DEF OnceInv, Load, storage, panel, sheet, history
<1>8. ASSUME NEW t \in Tabs, OpenPlan(t) PROVE OnceInv'
  BY <1>8 DEF OnceInv, OpenPlan, Pending, panel, history
<1>9. ASSUME NEW t \in Tabs, ClosePlan(t) PROVE OnceInv'
  BY <1>9 DEF OnceInv, TypeInv, TypeOK, Mounted, Calls, ClosePlan, Unmount, Unseen, storage,
    panel, history, NoPoll
<1>10. ASSUME NEW t \in Tabs, NewInvoice(t) PROVE OnceInv'
  BY <1>10 DEF OnceInv, NewInvoice, SetInvoice, Shown, panel, tabs, history
<1>11. ASSUME NEW t \in Tabs, CloseSheet(t) PROVE OnceInv'
  BY <1>11 DEF OnceInv, CloseSheet, SetInvoice, Pending, panel, tabs, history
<1>12. ASSUME NEW t \in Tabs, Watch(t) PROVE OnceInv'
  BY <1>12 DEF OnceInv, Watch, Wanted, Pending, storage, panel, tabs, history, NoPoll
<1>13. ASSUME NEW t \in Tabs, Ask(t) PROVE OnceInv'
  BY <1>13 DEF OnceInv, Ask, storage, panel, tabs, history
<1>14. ASSUME NEW t \in Tabs, Answer(t) PROVE OnceInv'
  BY <1>14 DEF OnceInv, Answer, SetInvoice, Finished, panel, history, NoPoll
<1>15. ASSUME NEW t \in Tabs, AskLost(t) PROVE OnceInv'
  BY <1>15 DEF OnceInv, AskLost, Fault, storage, panel, tabs, history
<1>16. ASSUME NEW t \in Tabs, NEW k \in Tokens \union {NoToken}, Loaded(t, k) PROVE OnceInv'
  BY <1>16 DEF OnceInv, Loaded, storage, panel, sheet, history
<1>17. ASSUME NEW t \in Tabs, NEW k \in Tokens \union {NoToken}, LoadRefused(t, k) PROVE OnceInv'
  BY <1>17 DEF OnceInv, TypeInv, TypeOK, Mounted, Calls, LoadRefused, Leave, Gone, Unmount,
    Unseen, panel, history, NoPoll
<1>18. ASSUME NEW t \in Tabs, NEW k \in Tokens \union {NoToken}, LoadLost(t, k) PROVE OnceInv'
  BY <1>18 DEF OnceInv, LoadLost, Fault, storage, panel, sheet, history
<1>19. ASSUME NEW t \in Tabs, NEW p \in Plans, StartPay(t, p) PROVE OnceInv'
  BY <1>19 DEF OnceInv, StartPay, SetInvoice, panel, tabs, history
<1>20. ASSUME NEW t \in Tabs, NEW o \in Orders, PayWith(t, o) PROVE OnceInv'
  BY <1>20, OncePayWith
<1>21. ASSUME NEW t \in Tabs, NEW c \in calls[t], Make(t, c) PROVE OnceInv'
  BY <1>21, OnceMake
<1>22. ASSUME NEW t \in Tabs, NEW c \in calls[t], Made(t, c) PROVE OnceInv'
  BY <1>22 DEF OnceInv, TypeInv, TypeOK, Mounted, Calls, Made, SetInvoice, Bill, panel, tabs,
    history
<1>23. ASSUME NEW t \in Tabs, NEW c \in calls[t], MadeUnseen(t, c) PROVE OnceInv'
  BY <1>23 DEF OnceInv, MadeUnseen, Bill, panel, tabs, history
<1>24. ASSUME NEW t \in Tabs, NEW c \in calls[t], Refused(t, c) PROVE OnceInv'
  BY <1>24 DEF OnceInv, TypeInv, TypeOK, Refused, CallFails, panel, tabs, history
<1>25. ASSUME NEW t \in Tabs, NEW c \in calls[t], NotMade(t, c) PROVE OnceInv'
  BY <1>25 DEF OnceInv, TypeInv, TypeOK, NotMade, Fault, Create, CallFails, tabs, history
<1>26. ASSUME NEW t \in Tabs, NEW c \in calls[t], CallLost(t, c) PROVE OnceInv'
  BY <1>26 DEF OnceInv, TypeInv, TypeOK, CallLost, Fault, CallFails, panel, tabs, history
<1>27. ASSUME NEW t \in Tabs, NEW c \in calls[t], WalletCloses(t, c) PROVE OnceInv'
  BY <1>27 DEF OnceInv, WalletCloses, storage, panel, tabs
<1>28. ASSUME NEW k \in Tokens, SignIn(k) PROVE OnceInv'
  BY <1>28 DEF OnceInv, SignIn, sheet, tabs
<1>29. ASSUME NEW k \in Tokens, CloseSession(k) PROVE OnceInv'
  BY <1>29 DEF OnceInv, CloseSession, storage, sheet, tabs, history
<1>30. CASE ForgottenElsewhere
  BY <1>30 DEF OnceInv, ForgottenElsewhere, panel, sheet, tabs, history
<1>31. ASSUME NEW o \in Orders, Paid(o) PROVE OnceInv'
  BY <1>31 DEF OnceInv, Paid, storage, sheet, tabs, history
<1>32. ASSUME NEW o \in Orders, Failed(o) PROVE OnceInv'
  BY <1>32 DEF OnceInv, Failed, storage, sheet, tabs, history
<1>33. CASE UNCHANGED vars
  BY <1>33 DEF vars, storage, panel, sheet, tabs, history, OnceInv
<1> QED
  BY <1>1, <1>2, <1>3, <1>4, <1>5, <1>6, <1>7, <1>8, <1>9, <1>10, <1>11, <1>12, <1>13, <1>14,
    <1>15, <1>16, <1>17, <1>18, <1>19, <1>20, <1>21, <1>22, <1>23, <1>24, <1>25, <1>26, <1>27,
    <1>28, <1>29, <1>30, <1>31, <1>32, <1>33 DEF Next

--------------------------------------------------------------------------------
(* Steps: the account of a tab                                             *)

LEMMA SessionSignIn ==
  ASSUME TypeInv, ~mixed => SessionInv, NEW k \in Tokens, SignIn(k), (~mixed)'
  PROVE  SessionInv'
<1>1. /\ ~mixed /\ token' = k /\ UNCHANGED <<page, data, loads>>
      /\ \A w \in Tabs : page[w] = "away" \/ data[w] = TokenOwner[k]
  BY DEF SignIn, tabs
<1>2. TokenOwner[k] # NoLogin
  BY CabinetAssumption
<1> QED
  BY <1>1, <1>2 DEF SessionInv

LEMMA SessionMake ==
  ASSUME TypeInv, ~mixed => SessionInv, NEW t \in Tabs, NEW c \in calls[t], Make(t, c), (~mixed)'
  PROVE  SessionInv'
<1>1. UNCHANGED <<token, page, data, loads, mixed>>
  BY DEF Make, tabs, storage, history
<1> QED
  BY <1>1 DEF SessionInv

\* Until someone signs in beside another account, every step keeps a tab to one account.
LEMMA SessionStep ==
  ASSUME TypeInv, ~mixed => SessionInv, [Next]_vars, (~mixed)'
  PROVE  SessionInv'
<1>1. ASSUME NEW t \in Tabs, StrayRefused(t) PROVE SessionInv'
  BY <1>1 DEF SessionInv, TypeInv, TypeOK, StrayRefused, Leave, Gone, Unmount, Unseen, panel,
    history, NoPoll
<1>2. ASSUME NEW t \in Tabs, StrayEnds(t) PROVE SessionInv'
  BY <1>2 DEF SessionInv, StrayEnds, storage, panel, sheet, history
<1>3. ASSUME NEW t \in Tabs, SignOut(t) PROVE SessionInv'
  BY <1>3 DEF SessionInv, SignOut, storage, sheet, history
<1>4. ASSUME NEW t \in Tabs, SignedOut(t) PROVE SessionInv'
  BY <1>4 DEF SessionInv, TypeInv, TypeOK, SignedOut, Leave, Gone, Unmount, Unseen, panel,
    history, NoPoll
<1>5. ASSUME NEW t \in Tabs, Enter(t) PROVE SessionInv'
  BY <1>5 DEF SessionInv, TypeInv, TypeOK, Enter, storage, panel, sheet, history
<1>6. ASSUME NEW t \in Tabs, Reload(t) PROVE SessionInv'
  BY <1>6 DEF SessionInv, TypeInv, TypeOK, Reload, Gone, Unmount, storage, panel, history, NoPoll
<1>7. ASSUME NEW t \in Tabs, Load(t) PROVE SessionInv'
  BY <1>7 DEF SessionInv, Load, storage, panel, sheet, history
<1>8. ASSUME NEW t \in Tabs, OpenPlan(t) PROVE SessionInv'
  BY <1>8 DEF SessionInv, OpenPlan, Pending, panel, history
<1>9. ASSUME NEW t \in Tabs, ClosePlan(t) PROVE SessionInv'
  BY <1>9 DEF SessionInv, ClosePlan, Unmount, Unseen, storage, panel, history, NoPoll
<1>10. ASSUME NEW t \in Tabs, NewInvoice(t) PROVE SessionInv'
  BY <1>10 DEF SessionInv, NewInvoice, SetInvoice, Shown, panel, tabs, history
<1>11. ASSUME NEW t \in Tabs, CloseSheet(t) PROVE SessionInv'
  BY <1>11 DEF SessionInv, CloseSheet, SetInvoice, Pending, panel, tabs, history
<1>12. ASSUME NEW t \in Tabs, Watch(t) PROVE SessionInv'
  BY <1>12 DEF SessionInv, Watch, Wanted, Pending, storage, panel, tabs, history, NoPoll
<1>13. ASSUME NEW t \in Tabs, Ask(t) PROVE SessionInv'
  BY <1>13 DEF SessionInv, Ask, storage, panel, tabs, history
<1>14. ASSUME NEW t \in Tabs, Answer(t) PROVE SessionInv'
  BY <1>14 DEF SessionInv, TypeInv, TypeOK, Mounted, Answer, SetInvoice, Finished, panel,
    history, NoPoll
<1>15. ASSUME NEW t \in Tabs, AskLost(t) PROVE SessionInv'
  BY <1>15 DEF SessionInv, AskLost, Fault, storage, panel, tabs, history
<1>16. ASSUME NEW t \in Tabs, NEW k \in Tokens \union {NoToken}, Loaded(t, k) PROVE SessionInv'
  BY <1>16, CabinetAssumption DEF SessionInv, TypeInv, TypeOK, Loaded, storage, panel, sheet,
    history
<1>17. ASSUME NEW t \in Tabs, NEW k \in Tokens \union {NoToken}, LoadRefused(t, k) PROVE SessionInv'
  BY <1>17 DEF SessionInv, TypeInv, TypeOK, LoadRefused, Leave, Gone, Unmount, Unseen, panel,
    history, NoPoll
<1>18. ASSUME NEW t \in Tabs, NEW k \in Tokens \union {NoToken}, LoadLost(t, k) PROVE SessionInv'
  BY <1>18 DEF SessionInv, LoadLost, Fault, storage, panel, sheet, history
<1>19. ASSUME NEW t \in Tabs, NEW p \in Plans, StartPay(t, p) PROVE SessionInv'
  BY <1>19 DEF SessionInv, StartPay, SetInvoice, panel, tabs, history
<1>20. ASSUME NEW t \in Tabs, NEW o \in Orders, PayWith(t, o) PROVE SessionInv'
  BY <1>20 DEF SessionInv, PayWith, Unused, Shown, storage, panel, tabs, history
<1>21. ASSUME NEW t \in Tabs, NEW c \in calls[t], Make(t, c) PROVE SessionInv'
  BY <1>21, SessionMake
<1>22. ASSUME NEW t \in Tabs, NEW c \in calls[t], Made(t, c) PROVE SessionInv'
  BY <1>22 DEF SessionInv, Made, SetInvoice, Bill, panel, tabs, history
<1>23. ASSUME NEW t \in Tabs, NEW c \in calls[t], MadeUnseen(t, c) PROVE SessionInv'
  BY <1>23 DEF SessionInv, MadeUnseen, Bill, panel, tabs, history
<1>24. ASSUME NEW t \in Tabs, NEW c \in calls[t], Refused(t, c) PROVE SessionInv'
  BY <1>24 DEF SessionInv, Refused, CallFails, panel, tabs, history
<1>25. ASSUME NEW t \in Tabs, NEW c \in calls[t], NotMade(t, c) PROVE SessionInv'
  BY <1>25 DEF SessionInv, NotMade, Fault, Create, CallFails, tabs, history
<1>26. ASSUME NEW t \in Tabs, NEW c \in calls[t], CallLost(t, c) PROVE SessionInv'
  BY <1>26 DEF SessionInv, CallLost, Fault, CallFails, panel, tabs, history
<1>27. ASSUME NEW t \in Tabs, NEW c \in calls[t], WalletCloses(t, c) PROVE SessionInv'
  BY <1>27 DEF SessionInv, WalletCloses, storage, panel, tabs
<1>28. ASSUME NEW k \in Tokens, SignIn(k) PROVE SessionInv'
  BY <1>28, SessionSignIn
<1>29. ASSUME NEW k \in Tokens, CloseSession(k) PROVE SessionInv'
  BY <1>29 DEF SessionInv, CloseSession, storage, sheet, tabs, history
<1>30. CASE ForgottenElsewhere
  BY <1>30 DEF SessionInv, ForgottenElsewhere, panel, sheet, tabs, history
<1>31. ASSUME NEW o \in Orders, Paid(o) PROVE SessionInv'
  BY <1>31 DEF SessionInv, Paid, storage, sheet, tabs, history
<1>32. ASSUME NEW o \in Orders, Failed(o) PROVE SessionInv'
  BY <1>32 DEF SessionInv, Failed, storage, sheet, tabs, history
<1>33. CASE UNCHANGED vars
  BY <1>33 DEF vars, storage, panel, sheet, tabs, history, SessionInv
<1> QED
  BY <1>1, <1>2, <1>3, <1>4, <1>5, <1>6, <1>7, <1>8, <1>9, <1>10, <1>11, <1>12, <1>13, <1>14,
    <1>15, <1>16, <1>17, <1>18, <1>19, <1>20, <1>21, <1>22, <1>23, <1>24, <1>25, <1>26, <1>27,
    <1>28, <1>29, <1>30, <1>31, <1>32, <1>33 DEF Next

--------------------------------------------------------------------------------
(* Steps: the account of an invoice                                        *)

LEMMA OwnMade ==
  ASSUME TypeInv, OwnInv, NEW t \in Tabs, NEW c \in calls[t], Made(t, c)
  PROVE  OwnInv'
<1>1. /\ Bill(c) \in Invoices /\ Bill(c).order = c.order /\ c.login \in Logins
      /\ \A w \in Tabs \ {t} : calls'[w] = calls[w]
      /\ \A e \in calls'[t] :
           \/ e \in calls[t]
           \/ /\ e.order = c.order /\ e.token = c.token /\ e.login = c.login
              /\ e.at = "wallet" /\ e.seen = c.seen
  BY MadeCall
<1>2. /\ invoice'[t] = Bill(c) /\ \A w \in Tabs \ {t} : invoice'[w] = invoice[w]
      /\ stored' = NoInvoice \/ (stored'.inv = Bill(c) /\ stored'.login = c.login)
  BY <1>1, SetInvoiceEffect DEF TypeInv, Made
<1>3. c.at = "made" /\ c.seen /\ UNCHANGED <<owner, data, poll>>
  BY DEF Made, panel, tabs
<1>4. owner[c.order] = c.login /\ c.login = data[t] /\ (c.token # NoToken => c.login = TokenOwner[c.token])
  BY <1>3 DEF OwnInv
<1>5. \A w \in Tabs : \A e \in calls'[w] : /\ e.token # NoToken => e.login = TokenOwner[e.token]
                                           /\ e.at # "sent" => owner[e.order] = e.login
                                           /\ e.seen => e.login = data[w]
  BY <1>1, <1>4 DEF OwnInv
<1>6. /\ \A w \in Tabs : invoice'[w] # NoInvoice => owner[invoice'[w].order] = data[w]
      /\ stored' # NoInvoice => owner[stored'.inv.order] = stored'.login
  BY <1>1, <1>2, <1>4 DEF OwnInv
<1> QED
  BY <1>3, <1>5, <1>6 DEF OwnInv

LEMMA OwnMake ==
  ASSUME TypeInv, SentInv, OwnInv, NEW t \in Tabs, NEW c \in calls[t], Make(t, c)
  PROVE  OwnInv'
<1>1. PICK o \in Orders, d \in Calls :
        /\ \/ o = c.order /\ Create(c, "pending")
           \/ Reusable(c, o) /\ UNCHANGED panel
        /\ d.order = o /\ d.token = c.token /\ d.login = c.login /\ d.seen = c.seen
        /\ calls'[t] = (calls[t] \ {c}) \union {d}
        /\ \A w \in Tabs \ {t} : calls'[w] = calls[w]
  BY MakeCall
<1>2. /\ c.at = "sent" /\ c.token \in Tokens /\ c.token # NoToken /\ c.order \in Orders
      /\ UNCHANGED <<data, poll, invoice, stored>>
  BY CabinetAssumption DEF Make, storage, tabs, TypeInv, TypeOK, Calls
<1>3. order[c.order] = "none" /\ c.login = TokenOwner[c.token]
  BY <1>2 DEF SentInv, OwnInv
<1>4. owner'[o] = TokenOwner[c.token] /\ \A x \in Orders : x # c.order => owner'[x] = owner[x]
  BY <1>1, <1>2 DEF Create, Reusable, panel, TypeInv, TypeOK
<1>5. /\ \A w \in Tabs : invoice[w] # NoInvoice =>
           invoice[w].order \in Orders /\ invoice[w].order # c.order
      /\ stored # NoInvoice => stored.inv.order \in Orders /\ stored.inv.order # c.order
  BY <1>3 DEF SentInv, TypeInv, TypeOK, Invoices, StoredInvoices
<1>6. \A w \in Tabs : \A e \in calls[w] : e.at # "sent" => e.order \in Orders /\ e.order # c.order
  BY <1>3 DEF SentInv, TypeInv, TypeOK, Calls
<1>7. \A w \in Tabs : \A e \in calls'[w] : e \in calls[w] \/ (w = t /\ e = d)
  BY <1>1
<1>8. \A w \in Tabs : \A e \in calls'[w] : /\ e.token # NoToken => e.login = TokenOwner[e.token]
                                           /\ e.at # "sent" => owner'[e.order] = e.login
                                           /\ e.seen => e.login = data[w]
  BY <1>1, <1>2, <1>3, <1>4, <1>6, <1>7 DEF OwnInv
<1> QED
  BY <1>2, <1>4, <1>5, <1>8 DEF OwnInv

LEMMA OwnPayWith ==
  ASSUME TypeInv, SessionInv, OwnInv, NEW t \in Tabs, NEW o \in Orders, PayWith(t, o)
  PROVE  OwnInv'
<1>1. PICK c \in Calls :
        /\ calls'[t] = calls[t] \union {c}
        /\ \A w \in Tabs \ {t} : calls'[w] = calls[w]
        /\ c.token = token /\ c.login = data[t] /\ c.at = "sent"
  BY PayWithCall
<1>2. page[t] = "plan" /\ data[t] # NoLogin /\ UNCHANGED <<owner, data, poll, invoice, stored>>
  BY CabinetAssumption DEF PayWith, TypeInv, Mounted, storage, panel, tabs
<1>3. token # NoToken => data[t] = TokenOwner[token]
  BY <1>2 DEF SessionInv
<1> QED
  BY <1>1, <1>2, <1>3 DEF OwnInv

LEMMA OwnUnmount ==
  ASSUME TypeInv, OwnInv, NEW t \in Tabs, Unmount(t, Unseen(t)), UNCHANGED <<owner, stored>>,
         \A w \in Tabs \ {t} : data'[w] = data[w]
  PROVE  OwnInv'
<1>1. /\ calls'[t] = Unseen(t) /\ \A w \in Tabs \ {t} : calls'[w] = calls[w]
      /\ invoice'[t] = NoInvoice /\ \A w \in Tabs \ {t} : invoice'[w] = invoice[w]
      /\ poll'[t].order = NoOrder /\ \A w \in Tabs \ {t} : poll'[w] = poll[w]
  BY DEF Unmount, NoPoll, TypeInv, TypeOK
<1>2. \A c \in calls'[t] : /\ c.token # NoToken => c.login = TokenOwner[c.token]
                           /\ c.at # "sent" => owner[c.order] = c.login
                           /\ ~c.seen
  BY <1>1, UnseenEffect DEF TypeInv, OwnInv
<1> QED
  BY <1>1, <1>2 DEF OwnInv

LEMMA OwnStartPay ==
  ASSUME TypeInv, OwnInv, NEW t \in Tabs, NEW p \in Plans, StartPay(t, p)
  PROVE  OwnInv'
<1>1. PICK value \in Invoices \union {NoInvoice} :
        /\ SetInvoice(t, value, data[t])
        /\ value # NoInvoice => invoice[t] # NoInvoice /\ value.order = invoice[t].order
  BY StartPayInvoice
<1>2. data[t] \in Logins /\ UNCHANGED <<owner, data, calls, poll>>
  BY DEF StartPay, panel, tabs, TypeInv, Mounted
<1>3. /\ invoice'[t] = value /\ \A w \in Tabs \ {t} : invoice'[w] = invoice[w]
      /\ stored' = NoInvoice \/ (value # NoInvoice /\ stored'.inv = value /\ stored'.login = data[t])
  BY <1>1, <1>2, SetInvoiceEffect DEF TypeInv
<1> QED
  BY <1>1, <1>2, <1>3 DEF OwnInv

LEMMA OwnAnswer ==
  ASSUME TypeInv, OwnInv, NEW t \in Tabs, Answer(t)
  PROVE  OwnInv'
<1>1. /\ poll[t].login \in Logins /\ poll[t].login = data[t]
      /\ UNCHANGED <<owner, data, calls>>
  BY DEF Answer, panel, TypeInv, Mounted, OwnInv
<1>4. \A w \in Tabs : poll'[w] = poll[w] \/ poll'[w].order = NoOrder
  BY DEF Answer, NoPoll, TypeInv, TypeOK
<1>2. CASE UNCHANGED <<invoice, stored>>
  BY <1>1, <1>2, <1>4 DEF OwnInv
<1>3. CASE \E value \in Invoices \union {NoInvoice} :
             /\ SetInvoice(t, value, poll[t].login)
             /\ value # NoInvoice => invoice[t] # NoInvoice /\ value.order = invoice[t].order
  <2>1. PICK value \in Invoices \union {NoInvoice} :
          /\ SetInvoice(t, value, poll[t].login)
          /\ value # NoInvoice => invoice[t] # NoInvoice /\ value.order = invoice[t].order
    BY <1>3
  <2>2. /\ invoice'[t] = value /\ \A w \in Tabs \ {t} : invoice'[w] = invoice[w]
        /\ stored' = NoInvoice \/ (value # NoInvoice /\ stored'.inv = value /\ stored'.login = data[t])
    BY <1>1, <2>1, SetInvoiceEffect DEF TypeInv
  <2> QED
    BY <1>1, <1>4, <2>1, <2>2 DEF OwnInv
<1> QED
  BY <1>2, <1>3, AnswerInvoice

LEMMA OwnOpenPlan ==
  ASSUME TypeInv, OwnInv, NEW t \in Tabs, OpenPlan(t)
  PROVE  OwnInv'
<1>1. UNCHANGED <<owner, data, calls, poll>>
  BY DEF OpenPlan, panel
<1>2. /\ stored' \in {stored, NoInvoice}
      /\ \A w \in Tabs : invoice'[w] # NoInvoice =>
           \/ invoice'[w] = invoice[w]
           \/ w = t /\ stored # NoInvoice /\ stored.login = data[t] /\ invoice'[w] = stored.inv
  BY DEF OpenPlan, TypeInv, TypeOK
<1> QED
  BY <1>1, <1>2 DEF OwnInv

\* Until someone signs in beside another account, every step keeps invoices with their account.
LEMMA OwnStep ==
  ASSUME TypeInv, SentInv, ~mixed => SessionInv, ~mixed => OwnInv, [Next]_vars, (~mixed)'
  PROVE  OwnInv'
<1>1. ASSUME NEW t \in Tabs, StrayRefused(t) PROVE OwnInv'
  BY <1>1, OwnUnmount DEF StrayRefused, Leave, Gone, panel, history
<1>2. ASSUME NEW t \in Tabs, StrayEnds(t) PROVE OwnInv'
  BY <1>2 DEF OwnInv, StrayEnds, storage, panel, sheet, history
<1>3. ASSUME NEW t \in Tabs, SignOut(t) PROVE OwnInv'
  BY <1>3 DEF OwnInv, SignOut, storage, sheet, history
<1>4. ASSUME NEW t \in Tabs, SignedOut(t) PROVE OwnInv'
  BY <1>4, OwnUnmount DEF SignedOut, Leave, Gone, panel, history
<1>5. ASSUME NEW t \in Tabs, Enter(t) PROVE OwnInv'
  BY <1>5 DEF OwnInv, Enter, storage, panel, sheet, history
<1>6. ASSUME NEW t \in Tabs, Reload(t) PROVE OwnInv'
  BY <1>6 DEF OwnInv, TypeInv, TypeOK, Reload, Gone, Unmount, storage, panel, history, NoPoll
<1>7. ASSUME NEW t \in Tabs, Load(t) PROVE OwnInv'
  BY <1>7 DEF OwnInv, Load, storage, panel, sheet, history
<1>8. ASSUME NEW t \in Tabs, OpenPlan(t) PROVE OwnInv'
  BY <1>8, OwnOpenPlan DEF OpenPlan, history
<1>9. ASSUME NEW t \in Tabs, ClosePlan(t) PROVE OwnInv'
  BY <1>9, OwnUnmount DEF ClosePlan, panel, storage, history
<1>10. ASSUME NEW t \in Tabs, NewInvoice(t) PROVE OwnInv'
  BY <1>10 DEF OwnInv, NewInvoice, SetInvoice, Shown, panel, tabs, history
<1>11. ASSUME NEW t \in Tabs, CloseSheet(t) PROVE OwnInv'
  BY <1>11 DEF OwnInv, CloseSheet, SetInvoice, Pending, panel, tabs, history
<1>12. ASSUME NEW t \in Tabs, Watch(t) PROVE OwnInv'
  BY <1>12 DEF OwnInv, Watch, Wanted, Pending, storage, panel, tabs, history, NoPoll
<1>13. ASSUME NEW t \in Tabs, Ask(t) PROVE OwnInv'
  BY <1>13 DEF OwnInv, Ask, storage, panel, tabs, history
<1>14. ASSUME NEW t \in Tabs, Answer(t) PROVE OwnInv'
  BY <1>14, OwnAnswer DEF Answer, history
<1>15. ASSUME NEW t \in Tabs, AskLost(t) PROVE OwnInv'
  BY <1>15 DEF OwnInv, AskLost, Fault, storage, panel, tabs, history
<1>16. ASSUME NEW t \in Tabs, NEW k \in Tokens \union {NoToken}, Loaded(t, k) PROVE OwnInv'
  BY <1>16, CabinetAssumption DEF OwnInv, SessionInv, TypeInv, TypeOK, Mounted, Calls, Loaded,
    storage, panel, sheet, history
<1>17. ASSUME NEW t \in Tabs, NEW k \in Tokens \union {NoToken}, LoadRefused(t, k) PROVE OwnInv'
  BY <1>17, OwnUnmount DEF LoadRefused, Leave, Gone, panel, history
<1>18. ASSUME NEW t \in Tabs, NEW k \in Tokens \union {NoToken}, LoadLost(t, k) PROVE OwnInv'
  BY <1>18 DEF OwnInv, LoadLost, Fault, storage, panel, sheet, history
<1>19. ASSUME NEW t \in Tabs, NEW p \in Plans, StartPay(t, p) PROVE OwnInv'
  BY <1>19, OwnStartPay DEF StartPay, history
<1>20. ASSUME NEW t \in Tabs, NEW o \in Orders, PayWith(t, o) PROVE OwnInv'
  BY <1>20, OwnPayWith DEF PayWith, history
<1>21. ASSUME NEW t \in Tabs, NEW c \in calls[t], Make(t, c) PROVE OwnInv'
  BY <1>21, OwnMake DEF Make, history
<1>22. ASSUME NEW t \in Tabs, NEW c \in calls[t], Made(t, c) PROVE OwnInv'
  BY <1>22, OwnMade DEF Made, history
<1>23. ASSUME NEW t \in Tabs, NEW c \in calls[t], MadeUnseen(t, c) PROVE OwnInv'
  BY <1>23 DEF OwnInv, MadeUnseen, Bill, panel, tabs, history
<1>24. ASSUME NEW t \in Tabs, NEW c \in calls[t], Refused(t, c) PROVE OwnInv'
  BY <1>24 DEF OwnInv, Refused, CallFails, panel, tabs, history
<1>25. ASSUME NEW t \in Tabs, NEW c \in calls[t], NotMade(t, c) PROVE OwnInv'
  BY <1>25 DEF OwnInv, SentInv, TypeInv, TypeOK, Mounted, Calls, NotMade, Fault, Create,
    CallFails, tabs, history
<1>26. ASSUME NEW t \in Tabs, NEW c \in calls[t], CallLost(t, c) PROVE OwnInv'
  BY <1>26 DEF OwnInv, CallLost, Fault, CallFails, panel, tabs, history
<1>27. ASSUME NEW t \in Tabs, NEW c \in calls[t], WalletCloses(t, c) PROVE OwnInv'
  BY <1>27 DEF OwnInv, WalletCloses, storage, panel, tabs
<1>28. ASSUME NEW k \in Tokens, SignIn(k) PROVE OwnInv'
  BY <1>28 DEF OwnInv, TypeInv, TypeOK, SignIn, sheet, tabs
<1>29. ASSUME NEW k \in Tokens, CloseSession(k) PROVE OwnInv'
  BY <1>29 DEF OwnInv, CloseSession, storage, sheet, tabs, history
<1>30. CASE ForgottenElsewhere
  BY <1>30 DEF OwnInv, ForgottenElsewhere, panel, sheet, tabs, history
<1>31. ASSUME NEW o \in Orders, Paid(o) PROVE OwnInv'
  BY <1>31 DEF OwnInv, Paid, storage, sheet, tabs, history
<1>32. ASSUME NEW o \in Orders, Failed(o) PROVE OwnInv'
  BY <1>32 DEF OwnInv, Failed, storage, sheet, tabs, history
<1>33. CASE UNCHANGED vars
  BY <1>33 DEF vars, storage, panel, sheet, tabs, history, OwnInv
<1> QED
  BY <1>1, <1>2, <1>3, <1>4, <1>5, <1>6, <1>7, <1>8, <1>9, <1>10, <1>11, <1>12, <1>13, <1>14,
    <1>15, <1>16, <1>17, <1>18, <1>19, <1>20, <1>21, <1>22, <1>23, <1>24, <1>25, <1>26, <1>27,
    <1>28, <1>29, <1>30, <1>31, <1>32, <1>33 DEF Next

--------------------------------------------------------------------------------
(* Theorems                                                                *)

LEMMA InitInv == Init => CabinetInv
<1> SUFFICES ASSUME Init PROVE CabinetInv
  OBVIOUS
<1>1. TypeOK
  BY CabinetAssumption DEF Init, TypeOK, NoPoll
<1>2. Mounted
  BY CabinetAssumption DEF Init, Mounted, NoPoll
<1>3. SentInv /\ PaidIsPaid /\ OnceInv /\ SessionInv /\ OwnInv
  BY DEF Init, SentInv, PaidIsPaid, OnceInv, SessionInv, OwnInv, NoPoll
<1> QED
  BY <1>1, <1>2, <1>3 DEF CabinetInv, TypeInv

LEMMA StepInv == CabinetInv /\ [Next]_vars => CabinetInv'
<1> SUFFICES ASSUME CabinetInv, [Next]_vars PROVE CabinetInv'
  OBVIOUS
<1>1. TypeInv' /\ SentInv' /\ PaidIsPaid' /\ OnceInv'
  BY TypeStep, SentStep, PaidStep, OnceStep DEF CabinetInv
<1>2. (~mixed)' => SessionInv' /\ OwnInv'
  BY SessionStep, OwnStep DEF CabinetInv
<1> QED
  BY <1>1, <1>2 DEF CabinetInv

LEMMA OneRequest ==
  ASSUME OnceInv, NEW t \in Tabs \ freed
  PROVE  Cardinality({c \in calls[t] : c.seen /\ c.at \in {"sent", "made"}}) <= 1
<1> DEFINE S == {c \in calls[t] : c.seen /\ c.at \in {"sent", "made"}}
<1>1. CASE S = {}
  BY <1>1, FS_EmptySet
<1>2. CASE S # {}
  <2>1. PICK c \in S : S = {c}
    BY <1>2 DEF OnceInv
  <2>2. Cardinality(S) = 1
    BY <2>1, FS_Singleton
  <2> QED
    BY <2>2
<1> QED
  BY <1>1, <1>2

\* The inductive invariant holds in every reachable state, whatever tabs,
\* sessions, accounts and orders there are.
THEOREM InvariantCorrect == Spec => []CabinetInv
<1>1. Init => CabinetInv
  BY InitInv
<1>2. CabinetInv /\ [Next]_vars => CabinetInv'
  BY StepInv
<1> QED
  BY <1>1, <1>2, PTL DEF Spec

\* Every variable keeps its type.
THEOREM TypeCorrect == Spec => []TypeOK
<1>1. CabinetInv => TypeOK
  BY DEF CabinetInv, TypeInv
<1> QED
  BY <1>1, InvariantCorrect, PTL

\* What the cabinet shows as paid, or keeps in the storage as paid, is paid
\* (finish, readInvoice).
THEOREM PaidCorrect == Spec => []PaidIsPaid
<1>1. CabinetInv => PaidIsPaid
  BY DEF CabinetInv
<1> QED
  BY <1>1, InvariantCorrect, PTL

\* Unless someone signed in while a tab showed another account, an invoice
\* appears only under the login its order is of (readInvoice, setInvoice).
THEOREM OwnCorrect == Spec => []OwnInvoice
<1>1. CabinetInv => OwnInvoice
  BY DEF CabinetInv, OwnInv, OwnInvoice
<1> QED
  BY <1>1, InvariantCorrect, PTL

\* A plan page has one order at a time on its way to the panel, unless the
\* answer of a wallet unlocked its sheet (busyMethod in payWith).
THEOREM OnceCorrect == Spec => []RenewsOnce
<1>1. CabinetInv => RenewsOnce
  BY OneRequest DEF CabinetInv, RenewsOnce
<1> QED
  BY <1>1, InvariantCorrect, PTL
================================================================================
