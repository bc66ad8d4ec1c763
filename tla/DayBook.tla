-------------------------------- MODULE DayBook --------------------------------
(***************************************************************************)
(* What the panel promises about the time of an account: a balance that    *)
(* orders, gifts, bonuses and transfers add their days to, that transfers  *)
(* and refunds draw from, and that runs out one tick per tick of time, the *)
(* trial first, except during a pause.  Which period of which plan holds   *)
(* the time is the business of Periods, which implements this module.      *)
(*                                                                         *)
(* Every entry follows from a document: an order, an administrator's gift, *)
(* a bonus, a transfer.  The promise covers the accounts of `kept'.  An    *)
(* account leaves it when it is operated on during its pause, or when a    *)
(* refund shortens a period another one waits behind: the code keeps no    *)
(* balance then (see README).                                              *)
(***************************************************************************)
EXTENDS Integers, Sequences

CONSTANTS Users, Orders, Owner, Term, Inviter, BonusDays, GiftDays, Day, MinPause

VARIABLES
  days, trial,   \* what an account has left, in ticks: the trial apart
  kept,
  now,
  since,         \* when the pause of an account began, or NoTime
  status, gifts, bonus, sent  \* orders, gifts, bonuses and transfers

documents == <<status, gifts, bonus, sent>>
bookVars == <<days, trial, kept, now, since, documents>>

NoTime == -1
Above(m, n) == IF m > n THEN m ELSE n

\* Only the accounts of S have entries posted.  A paused account that is
\* operated on does not stay covered.
Post(S) ==
  /\ kept' = {u \in kept : ~(u \in S /\ since[u] # NoTime)}
  /\ \A u \in kept' \ S : days'[u] = days[u] /\ trial'[u] = trial[u]
  /\ UNCHANGED <<now, since>>

Credit(u, n) == u \in kept' => days'[u] = days[u] + n /\ trial'[u] = trial[u]

\* What is bought takes the place of a trial; given days that wait stay.
Bought(o) ==
  LET u == Owner[o] IN
  /\ status[o] = "pending"
  /\ status' = [status EXCEPT ![o] = "paid"]
  /\ Post({u})
  /\ u \in kept' => days'[u] = days[u] + Term[o] * Day /\ trial'[u] = 0
  /\ UNCHANGED <<gifts, bonus, sent>>

Given(u, n) ==
  /\ gifts' = [gifts EXCEPT ![u] = @ + n]
  /\ Post({u})
  /\ Credit(u, n * Day)
  /\ UNCHANGED <<status, bonus, sent>>

\* The bonus for inviting u: claimed once, then granted, unless a refund came
\* first.
Claimed(u) ==
  /\ bonus[u] = "none"
  /\ bonus' = [bonus EXCEPT ![u] = "claimed"]
  /\ Post({})
  /\ UNCHANGED <<status, gifts, sent>>

Settled(u) ==
  /\ bonus[u] \in {"claimed", "late"}
  /\ bonus' = [bonus EXCEPT ![u] = IF @ = "claimed" THEN "granted" ELSE "revoked"]
  /\ UNCHANGED <<status, gifts, sent>>

Rewarded(u) ==
  /\ Settled(u)
  /\ Post({Inviter[u]})
  /\ Credit(Inviter[u], BonusDays * Day)

\* Nothing is posted for a bonus lost on its way: the code promises no more.
Unrewarded(u) == Settled(u) /\ Post({})

\* A transfer takes from the one the days it gives to the other.
Moved(u, v) ==
  /\ u # v
  /\ Len(sent') = Len(sent) + 1
  /\ LET n == sent'[Len(sent')].days IN
     /\ sent' = Append(sent, [from |-> u, to |-> v, days |-> n, reverted |-> 0])
     /\ Credit(u, 0 - n * Day)
     /\ Credit(v, n * Day)
  /\ Post({u, v})
  /\ UNCHANGED <<status, gifts, bonus>>

\* Who a refund may draw from: the buyer, the inviter whose bonus it revokes, and
\* those the buyer passed days on to.
Parties(o) ==
  LET u == Owner[o] IN
  {u} \union (IF bonus'[u] # bonus[u] THEN {Inviter[u]} ELSE {})
      \union {sent[k].to : k \in {j \in DOMAIN sent : sent[j].from = u}}

\* A refund only draws, and from a trial only what the rest does not cover.
Drawn(o) ==
  LET u == Owner[o] IN
  /\ status[o] = "paid"
  /\ status' = [status EXCEPT ![o] = "refunded"]
  /\ bonus' = [bonus EXCEPT ![u] = CASE @ = "claimed" -> "late"
                                    [] @ = "granted" -> "revoked"
                                    [] OTHER -> @]
  /\ Len(sent') = Len(sent)
  /\ kept' \subseteq kept
  /\ \A w \in kept' : /\ days'[w] \in 0..days[w]
                      /\ trial'[w] \in 0..trial[w]
                      /\ trial'[w] < trial[w] => days'[w] = 0
                      /\ w \notin Parties(o) => days'[w] = days[w] /\ trial'[w] = trial[w]
  /\ UNCHANGED <<now, since, gifts>>

\* n ticks run out: of the trial first.
Spent(u, n) ==
  /\ trial'[u] = Above(0, trial[u] - n)
  /\ days'[u] = Above(0, days[u] - Above(0, n - trial[u]))

Paused(u) ==
  /\ since[u] = NoTime
  /\ since' = [since EXCEPT ![u] = now]
  /\ \A w \in kept : days'[w] = days[w] /\ trial'[w] = trial[w]
  /\ UNCHANGED <<kept, now, documents>>

\* The time of a pause is not spent, unless the pause was too short to count.
Resumed(u) ==
  LET elapsed == now - since[u] IN
  /\ since[u] # NoTime
  /\ since' = [since EXCEPT ![u] = NoTime]
  /\ \A w \in kept : Spent(w, IF w = u /\ elapsed < MinPause THEN elapsed ELSE 0)
  /\ UNCHANGED <<kept, now, documents>>

\* A tick of time.
Burnt ==
  /\ now' = now + 1
  /\ \A u \in kept : Spent(u, IF since[u] = NoTime THEN 1 ELSE 0)
  /\ UNCHANGED <<kept, since, documents>>

BookInit ==
  /\ days \in [Users -> Nat]
  /\ trial \in [Users -> Nat]
  /\ kept = Users
  /\ now = 0
  /\ since = [u \in Users |-> NoTime]
  /\ status = [o \in Orders |-> "pending"]
  /\ gifts = [u \in Users |-> 0]
  /\ bonus = [u \in Users |-> "none"]
  /\ sent = <<>>

BookNext ==
  \/ Burnt
  \/ \E o \in Orders : Bought(o) \/ Drawn(o)
  \/ \E u \in Users :
       \/ Claimed(u) \/ Rewarded(u) \/ Unrewarded(u)
       \/ Paused(u) \/ Resumed(u)
       \/ \E n \in GiftDays : Given(u, n)
       \/ \E v \in Users : Moved(u, v)

BookSpec == BookInit /\ [][BookNext]_bookVars
================================================================================
