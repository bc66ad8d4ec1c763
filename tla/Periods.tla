-------------------------------- MODULE Periods --------------------------------
(***************************************************************************)
(* The periods an account's time is kept in, and every operation that      *)
(* moves their dates: purchases, gifts, transfers and their recovery,      *)
(* refunds, pauses, the bonus for an invited buyer.                        *)
(*                                                                         *)
(* An account has a list of periods [starts, ends); what it may use is     *)
(* what they say at its clock (subscription_clock), which stands still     *)
(* during a pause.  But billing.py reads the wall clock.  One action is    *)
(* one database transaction; transactions that interleave are the subject  *)
(* of Billing.  Time is counted in ticks, Day of them to a day, so that a  *)
(* day can be half spent.                                                  *)
(***************************************************************************)
EXTENDS Integers, Sequences, FiniteSets, FiniteSetsExt, SequencesExt

CONSTANTS
  Users, Orders, Plans,
  Owner, Term,  \* an order's account, and its days (with quantity)
  Inviter,      \* the account that invited this one, or NoUser
  NoUser,
  First,        \* what an account is created with: "none", "trial" or "paid"
  FirstPlan, FirstDays, BonusDays,
  GiftDays,     \* the numbers of days an administrator may give at once
  Day,          \* ticks in a day
  MinPause,     \* a pause shorter than this many ticks is not made good
  PerMonth,     \* pauses in a month; the horizon is within one month
  MaxTime,      \* bound on time
  MaxCalls      \* bound on purchases, refunds, days given, transfers and pauses

ASSUME PeriodsAssumption ==
  /\ IsFiniteSet(Users) /\ IsFiniteSet(Orders)
  /\ Owner \in [Orders -> Users]
  /\ Term \in [Orders -> Nat \ {0}]
  /\ NoUser \notin Users
  /\ Inviter \in [Users -> Users \union {NoUser}]
  /\ \A u \in Users : Inviter[u] # u
  /\ First \in [Users -> {"none", "trial", "paid"}]
  /\ {Day, FirstDays, BonusDays} \subseteq Nat \ {0}
  /\ GiftDays \subseteq Nat \ {0}
  /\ {MinPause, PerMonth, MaxTime, MaxCalls} \subseteq Nat

VARIABLES
  now,
  periods,     \* subscriptions of the account, in the order of their ids
  frozen,      \* users.frozen_at, or NoTime
  pauses,      \* users.freeze_month_used
  transfers,   \* day_transfers, oldest first
  status,      \* orders.status: "pending", "paid" or "refunded"
  bought,      \* orders.subscription_id: an index of the owner's periods
  bonus,       \* the purchase bonus for inviting this account:
               \* "none"; "claimed": stamped, not granted yet; "granted";
               \* "revoked"; "late": revoked before it was granted
  gifts,       \* the days administrators gave the account (history)
  exact        \* the accounts whose balance DayBook promises (history)

vars == <<now, periods, frozen, pauses, transfers, status, bought, bonus, gifts, exact>>

NoTime == -1
Above(m, n) == IF m > n THEN m ELSE n
Below(m, n) == IF m < n THEN m ELSE n
Rest(p, at) == Above(0, p.ends - Above(at, p.starts))

\* Of the periods numbered in I, the one with the largest date f.
Latest(s, I, f) == CHOOSE i \in I : \A j \in I : s[j][f] <= s[i][f]

Live(s) == {i \in DOMAIN s : ~s[i].off /\ s[i].ends > now}
Rests(s, at) == [i \in DOMAIN s |-> Rest(s[i], at)]
Total(s, I, at) == SumFunctionOnSet(Rests(s, at), I)
Kept(s) == {i \in DOMAIN s : ~s[i].off}

Clock(u) == IF frozen[u] = NoTime THEN now ELSE frozen[u]
Ahead(u) == Total(periods[u], Kept(periods[u]), Clock(u))

\* active_subscription, as a set of at most one period.
Active(u) ==
  LET s == periods[u]
      running == {i \in Kept(s) : s[i].starts <= Clock(u) /\ Clock(u) < s[i].ends}
  IN IF running = {} THEN {} ELSE {Latest(s, running, "ends")}

AccessDaysLeft(u) ==
  LET s == periods[u]
      ends == {s[i].ends : i \in {j \in Kept(s) : s[j].ends > Clock(u)}}
  IN IF ends = {} THEN 0 ELSE (Max(ends) - Clock(u)) \div Day

PaidDaysLeft(u) ==
  LET s == periods[u]
  IN Total(s, {i \in Live(s) : s[i].kind = "paid"}, now) \div Day

Period(plan, kind, starts, ends) ==
  [plan |-> plan, kind |-> kind, starts |-> starts, ends |-> ends, off |-> FALSE]

--------------------------------------------------------------------------------
(* grant_subscription, for a paid order: where the new days go.  A running *)
(* trial is dropped; days given for nothing move behind the bought ones.   *)
Running(s) ==
  LET I == {i \in Live(s) : s[i].starts <= now}
  IN IF I = {} THEN {} ELSE {Latest(s, I, "ends")}

Dropped(s) ==
  {i \in Running(s) : s[i].kind # "paid"}
    \union {i \in Live(s) : s[i].starts > now /\ s[i].kind = "bonus"}

\* Mutant: only what is left of a running gift moves on.
CarryRunning(s) == Total(s, {i \in Running(s) : s[i].kind = "bonus"}, now)

Carry(s) == Total(s, {i \in Dropped(s) : s[i].kind = "bonus"}, now)

Behind(s) ==
  LET queue == {i \in Live(s) : s[i].starts > now /\ s[i].kind # "bonus"}
  IN IF queue # {} THEN {Latest(s, queue, "starts")} ELSE Running(s) \ Dropped(s)

Granted(s, plan, n) ==
  LET closed == [i \in DOMAIN s |-> [s[i] EXCEPT !.off = @ \/ i \in Dropped(s)]]
      more == n * Day + Carry(s)
      same == {i \in Behind(s) : s[i].plan = plan}
      starts == IF Behind(s) = {} THEN now ELSE s[Max(Behind(s))].ends
  IN IF same # {}
       THEN [list |-> [closed EXCEPT ![Max(same)].ends = @ + more], at |-> Max(same)]
       ELSE [list |-> Append(closed, Period(plan, "paid", starts, starts + more)),
             at |-> Len(s) + 1]

\* Mutant: days given during a trial begin at once.
GiftedNow(s, n) ==
  IF {i \in Live(s) : s[i].kind # "trial"} = {}
    THEN Append(s, Period("gift", "bonus", now, now + n * Day))
    ELSE s

\* add_bonus_days: a gift lengthens the last period, unless that is a trial.
Gifted(s, n) ==
  LET ends == Max({s[i].ends : i \in Live(s)} \union {now})
      last == {i \in Live(s) : s[i].ends = ends /\ s[i].kind # "trial"}
  IN IF last # {}
       THEN [s EXCEPT ![Max(last)].ends = @ + n * Day]
       ELSE Append(s, Period("gift", "bonus", ends, ends + n * Day))

\* take_bonus_days: cut from the last period backwards, never what is spent.
Cut(s, n, i) ==
  LET later == {j \in Live(s) : s[j].ends > s[i].ends}
  IN IF i \in Live(s)
       THEN Below(Rest(s[i], now), Above(0, n * Day - Total(s, later, now)))
       ELSE 0

Taken(s, n) ==
  [i \in DOMAIN s |->
     [s[i] EXCEPT !.ends = @ - Cut(s, n, i),
                  !.off = @ \/ (Cut(s, n, i) > 0 /\ Cut(s, n, i) = Rest(s[i], now))]]

TakenDays(s, n) == Below(n * Day, Total(s, Live(s), now)) \div Day

\* Mutant: a period may end before it starts.
ShrunkBelow(s, i, n) ==
  [s EXCEPT ![i].ends = @ - n * Day, ![i].off = @ \/ s[i].ends - n * Day <= s[i].starts]

\* _shrink_subscription_after_refund: the period, and the days it did not have.
Shrunk(s, i, n) ==
  [s EXCEPT ![i].ends = Above(@ - n * Day, s[i].starts),
            ![i].off = @ \/ s[i].ends - n * Day <= s[i].starts]

\* Mutant: what the period had is taken from the receivers as well.
UnpaidAll(s, i, n) == n

Unpaid(s, i, n) == Above(0, n - (s[i].ends - Shrunk(s, i, n)[i].ends) \div Day)

--------------------------------------------------------------------------------
PeriodType ==
  {p \in [plan: Plans \union {FirstPlan, "gift"}, kind: {"paid", "bonus", "trial"},
          starts: Nat, ends: Nat, off: BOOLEAN] : p.starts <= p.ends}

TypeOK ==
  /\ now \in 0..MaxTime
  /\ periods \in [Users -> Seq(PeriodType)]
  /\ frozen \in [Users -> {NoTime} \union 0..now]
  /\ pauses \in [Users -> 0..PerMonth]
  /\ transfers \in Seq([from: Users, to: Users, days: Nat \ {0}, reverted: Nat])
  /\ status \in [Orders -> {"pending", "paid", "refunded"}]
  /\ bought \in [Orders -> Nat]
  /\ \A o \in Orders : IF status[o] = "pending" THEN bought[o] = 0
                       ELSE bought[o] \in DOMAIN periods[Owner[o]]
  /\ bonus \in [Users -> {"none", "claimed", "granted", "revoked", "late"}]
  /\ gifts \in [Users -> Nat]
  /\ exact \subseteq Users

Init ==
  /\ now = 0
  /\ periods = [u \in Users |->
                  IF First[u] = "none" THEN <<>>
                  ELSE <<Period(FirstPlan, First[u], 0, FirstDays * Day)>>]
  /\ frozen = [u \in Users |-> NoTime]
  /\ pauses = [u \in Users |-> 0]
  /\ transfers = <<>>
  /\ status = [o \in Orders |-> "pending"]
  /\ bought = [o \in Orders |-> 0]
  /\ bonus = [u \in Users |-> "none"]
  /\ gifts = [u \in Users |-> 0]
  /\ exact = Users

\* The accounts operated on during their pause have no exact balance any more.
Touch(S) == exact' = {u \in exact : ~(u \in S /\ frozen[u] # NoTime)}

MayCall ==
  SumFunctionOnSet(gifts, Users) + Len(transfers) + SumFunctionOnSet(pauses, Users)
    + Cardinality({o \in Orders : status[o] # "pending"})
    + Cardinality({o \in Orders : status[o] = "refunded"}) < MaxCalls

\* fulfil: the days of the order, bought for some plan, are granted.
Fulfil(o, plan) ==
  LET u == Owner[o]
      got == Granted(periods[u], plan, Term[o])
  IN /\ status[o] = "pending"
     /\ MayCall
     /\ status' = [status EXCEPT ![o] = "paid"]
     /\ periods' = [periods EXCEPT ![u] = got.list]
     /\ bought' = [bought EXCEPT ![o] = got.at]
     /\ Touch({u})
     /\ UNCHANGED <<now, frozen, pauses, transfers, bonus, gifts>>

\* credit_purchase, after the commit of fulfil: the claim is committed first.
ClaimBonus(u) ==
  /\ Inviter[u] # NoUser
  /\ bonus[u] = "none"
  /\ \E o \in Orders : Owner[o] = u /\ status[o] # "pending"
  /\ bonus' = [bonus EXCEPT ![u] = "claimed"]
  /\ UNCHANGED <<now, periods, frozen, pauses, transfers, status, bought, gifts, exact>>

BonusAfter(b) == IF b = "claimed" THEN "granted" ELSE "revoked"

GrantBonus(u) ==
  /\ bonus[u] \in {"claimed", "late"}
  /\ bonus' = [bonus EXCEPT ![u] = BonusAfter(@)]
  /\ periods' = [periods EXCEPT ![Inviter[u]] = Gifted(@, BonusDays)]
  /\ Touch({Inviter[u]})
  /\ UNCHANGED <<now, frozen, pauses, transfers, status, bought, gifts>>

\* An exception or a restart after the claim: the row says it was granted.
LoseBonus(u) ==
  /\ bonus[u] \in {"claimed", "late"}
  /\ bonus' = [bonus EXCEPT ![u] = BonusAfter(@)]
  /\ UNCHANGED <<now, periods, frozen, pauses, transfers, status, bought, gifts, exact>>

\* An administrator gives n days.
Give(u, n) ==
  /\ MayCall
  /\ gifts' = [gifts EXCEPT ![u] = @ + n]
  /\ periods' = [periods EXCEPT ![u] = Gifted(@, n)]
  /\ Touch({u})
  /\ UNCHANGED <<now, frozen, pauses, transfers, status, bought, bonus>>

\* _do_transfer, under _TRANSFER_LOCK.
Transfer(u, v, n) ==
  /\ u # v
  /\ MayCall
  /\ n <= AccessDaysLeft(u)
  /\ n <= PaidDaysLeft(u)
  /\ TakenDays(periods[u], n) = n
  /\ periods' = [periods EXCEPT ![u] = Taken(@, n), ![v] = Gifted(@, n)]
  /\ transfers' = Append(transfers, [from |-> u, to |-> v, days |-> n, reverted |-> 0])
  /\ Touch({u, v})
  /\ UNCHANGED <<now, frozen, pauses, status, bought, bonus, gifts>>

--------------------------------------------------------------------------------
(* claw_back: one transfer of the refunded buyer after another, the newest *)
(* first, until n days are recovered.                                      *)
ClawOne(u, n, acc, k) ==
  LET t == acc.transfers[k]
      want == Below(t.days - t.reverted, n - acc.got)
      got == TakenDays(acc.periods[t.to], want)
  IN IF t.from # u \/ want <= 0 THEN acc
     ELSE [periods |-> [acc.periods EXCEPT ![t.to] = Taken(@, want)],
           transfers |-> [acc.transfers EXCEPT ![k].reverted = @ + got],
           got |-> acc.got + got,
           hit |-> acc.hit \union {t.to}]

ClawBack(all, u, n) ==
  LET claw[k \in 0..Len(transfers)] ==
        IF k = 0 THEN [periods |-> all, transfers |-> transfers, got |-> 0, hit |-> {}]
        ELSE ClawOne(u, n, claw[k - 1], Len(transfers) + 1 - k)
  IN claw[Len(transfers)]

\* A period behind which another waits leaves a gap when it is shortened.
Queued(s, i) == \E j \in Live(s) : s[j].starts >= s[i].ends

\* refund: the order's own period, the inviter's bonus, the days passed on.
Refund(o) ==
  LET u == Owner[o]
      s == periods[u]
      i == bought[o]
      own == [periods EXCEPT ![u] = Shrunk(s, i, Term[o])]
      revoked == bonus[u] \in {"claimed", "granted"}
      after == IF revoked THEN [own EXCEPT ![Inviter[u]] = Taken(@, BonusDays)] ELSE own
      claw == ClawBack(after, u, Unpaid(s, i, Term[o]))
  IN /\ status[o] = "paid"
     /\ MayCall
     /\ status' = [status EXCEPT ![o] = "refunded"]
     /\ periods' = claw.periods
     /\ transfers' = claw.transfers
     /\ bonus' = [bonus EXCEPT ![u] = CASE @ = "claimed" -> "late"
                                        [] @ = "granted" -> "revoked"
                                        [] OTHER -> @]
     /\ exact' = {w \in exact :
                    /\ ~(/\ frozen[w] # NoTime
                         /\ w \in {u} \union claw.hit \union (IF revoked THEN {Inviter[u]} ELSE {}))
                    /\ ~(w = u /\ Queued(s, i))}
     /\ UNCHANGED <<now, frozen, pauses, bought, gifts>>

--------------------------------------------------------------------------------
\* freeze: only while a paid period runs, with a whole day left.
Freeze(u) ==
  /\ frozen[u] = NoTime
  /\ \E i \in Active(u) : periods[u][i].kind = "paid"
  /\ AccessDaysLeft(u) > 0
  /\ pauses[u] < PerMonth
  /\ MayCall
  /\ frozen' = [frozen EXCEPT ![u] = now]
  /\ pauses' = [pauses EXCEPT ![u] = @ + 1]
  /\ UNCHANGED <<now, periods, transfers, status, bought, bonus, gifts, exact>>

\* Mutant: only the period that was running is given the time of the pause.
ShiftedRunning(p, at, n) ==
  IF p.off \/ p.ends <= at \/ p.starts > at THEN p
  ELSE [p EXCEPT !.ends = @ + n]

Shifted(p, at, n) ==
  IF p.off \/ p.ends <= at THEN p
  ELSE [p EXCEPT !.starts = IF @ > at THEN @ + n ELSE @, !.ends = @ + n]

\* resume, by the user, an administrator, or auto_resume.
Resume(u) ==
  /\ frozen[u] # NoTime
  /\ LET elapsed == now - frozen[u] IN
     IF elapsed >= MinPause
       THEN periods' = [periods EXCEPT ![u] =
                          [i \in DOMAIN @ |-> Shifted(@[i], frozen[u], elapsed)]]
       ELSE UNCHANGED periods
  /\ frozen' = [frozen EXCEPT ![u] = NoTime]
  /\ UNCHANGED <<now, pauses, transfers, status, bought, bonus, gifts, exact>>

Tick ==
  /\ now < MaxTime
  /\ now' = now + 1
  /\ UNCHANGED <<periods, frozen, pauses, transfers, status, bought, bonus, gifts, exact>>

DayCounts == 1..(MaxTime + 1)

Next ==
  \/ Tick
  \/ \E o \in Orders : Refund(o) \/ \E plan \in Plans : Fulfil(o, plan)
  \/ \E u \in Users :
       \/ Freeze(u) \/ Resume(u)
       \/ ClaimBonus(u) \/ GrantBonus(u) \/ LoseBonus(u)
       \/ \E n \in GiftDays : Give(u, n)
       \/ \E v \in Users, n \in DayCounts : Transfer(u, v, n)

Spec == Init /\ [][Next]_vars

--------------------------------------------------------------------------------
\* No two periods of an account run at the same time, whatever purchases,
\* gifts, transfers, refunds and pauses made of them: a day paid for twice
\* would be spent once (grant_subscription queues, resume shifts the queue).
NoOverlap ==
  \A u \in Users :
    LET s == periods[u] IN
    \A i, j \in Kept(s) :
      \/ i = j
      \/ Rest(s[i], Clock(u)) = 0
      \/ Rest(s[j], Clock(u)) = 0
      \/ s[i].ends <= s[j].starts
      \/ s[j].ends <= s[i].starts

\* A pause and its end change no balance, whatever happened to the periods in
\* between: the days wait for the return.  Only a pause shorter than MinPause
\* is not made good, and it spends no more than its own time (freeze, resume).
PauseKeepsDays ==
  [][\A u \in Users : frozen'[u] # frozen[u] =>
       LET elapsed == now - frozen[u]
           spent == IF frozen[u] # NoTime /\ elapsed < MinPause THEN elapsed ELSE 0
       IN Ahead(u)' \in (Ahead(u) - spent)..Ahead(u)]_vars

\* A refund costs all accounts together no more than the days refunded and the
\* inviter's bonus, give or take less than a day for each receiver the days
\* are taken back from: take_bonus_days counts whole days of what it cuts
\* (refund, _shrink_subscription_after_refund, claw_back).
RefundIsBounded ==
  [][\A o \in Orders :
       status[o] = "paid" /\ status'[o] = "refunded" =>
         LET u == Owner[o]
             lost == [w \in Users |-> Above(0, Ahead(w) - Ahead(w)')]
             loss == SumFunctionOnSet(lost, exact')
             bonusLoss == IF bonus'[u] = bonus[u] THEN 0 ELSE BonusDays * Day
             receivers == {w \in Users : \E k \in DOMAIN transfers :
                                          transfers[k].from = u /\ transfers[k].to = w}
         IN loss <= Term[o] * Day + bonusLoss + Cardinality(receivers) * (Day - 1)]_vars

\* A transfer takes from the sender what it gives to the receiver, and both
\* are the days agreed on (_do_transfer; tests/test_transfers.py).
TransferIsExact ==
  [][\A u, v \in Users :
       /\ Len(transfers') > Len(transfers)
       /\ transfers'[Len(transfers')].from = u
       /\ transfers'[Len(transfers')].to = v
       => LET n == transfers'[Len(transfers')].days * Day
          IN Ahead(u)' = Ahead(u) - n /\ Ahead(v)' = Ahead(v) + n]_vars

TrialAhead(u) ==
  LET s == periods[u]
  IN Total(s, {i \in Kept(s) : s[i].kind = "trial"}, Clock(u))

Book == INSTANCE DayBook WITH
  days <- [u \in Users |-> Ahead(u) - TrialAhead(u)],
  trial <- [u \in Users |-> TrialAhead(u)],
  kept <- exact,
  since <- frozen,
  sent <- transfers

\* Every operation posts to the balance the days of its order, gift, bonus or
\* transfer, time burns a tick of a balance per tick, and a pause stops it (the
\* periods behind them being split, joined, cancelled, carried over, shifted).
KeepsTheBook == Book!BookSpec
================================================================================
