------------------------- MODULE PeriodsRefund_proofs --------------------------
(***************************************************************************)
(* What a refund costs and what a transfer moves, proved of Periods.       *)
(*                                                                         *)
(* What all accounts together have left is one sum; every list a refund    *)
(* changes lowers it by a known amount.  claw_back counts the whole days   *)
(* it cuts, so that a receiver who has not enough left loses up to a day   *)
(* that is not counted, but only once: nothing is left to cut then.        *)
(***************************************************************************)
EXTENDS PeriodsBook_proofs

--------------------------------------------------------------------------------
(* What an account has left                                                *)

Left(s) == Total(s, Kept(s), now)

\* Products with Day, one at a time.
LEMMA TimesDay ==
  ASSUME PeriodsAssumption
  PROVE  /\ Day \in Nat /\ Day > 0
         /\ \A a, b \in Nat : (a + b) * Day = a * Day + b * Day
         /\ \A a, b \in Nat : a <= b => a * Day <= b * Day
         /\ \A a, b \in Nat : a < b => a * Day + Day <= b * Day
         /\ \A a \in Nat : a * Day \in Nat
<1>1. \A d \in Nat \ {0} : /\ \A a, b \in Nat : (a + b) * d = a * d + b * d
                           /\ \A a, b \in Nat : a <= b => a * d <= b * d
  <2> TAKE d \in Nat \ {0}
  <2>1. \A a, b \in Nat : (a + b) * d = a * d + b * d
    OBVIOUS
  <2>2. \A a, b \in Nat : a <= b => a * d <= b * d
    <3> SUFFICES ASSUME NEW a \in Nat, NEW b \in Nat, a <= b PROVE a * d <= b * d
      OBVIOUS
    <3>1. PICK c \in Nat : b = a + c
      <4>1. b - a \in Nat /\ b = a + (b - a)
        OBVIOUS
      <4> QED
        BY <4>1
    <3>2. b * d = a * d + c * d
      BY <2>1, <3>1
    <3>3. c * d \in Nat /\ a * d \in Nat
      OBVIOUS
    <3> QED
      BY <3>2, <3>3
  <2> QED
    BY <2>1, <2>2
<1>2. \A d \in Nat \ {0} : \A a, b \in Nat : a < b => a * d + d <= b * d
  <2> SUFFICES ASSUME NEW d \in Nat \ {0}, NEW a \in Nat, NEW b \in Nat, a < b
               PROVE  a * d + d <= b * d
    OBVIOUS
  <2>1. a + 1 \in Nat /\ a + 1 <= b
    OBVIOUS
  <2>2. (a + 1) * d <= b * d
    BY <1>1, <2>1
  <2>3. (a + 1) * d = a * d + d
    OBVIOUS
  <2> QED
    BY <2>2, <2>3
<1>3. \A d \in Nat \ {0} : \A a \in Nat : a * d \in Nat
  OBVIOUS
<1>4. Day \in Nat \ {0}
  BY DEF PeriodsAssumption
<1> QED
  BY <1>1, <1>2, <1>3, <1>4

LEMMA LeftIs ==
  ASSUME NEW s \in Seq(PeriodType), now \in Nat
  PROVE  Left(s) \in Nat /\ Left(s) = DaysOf(s, now) + TrialOf(s, now)
<1> DEFINE I == Trials(s)
           J == Others(s)
<1>1. /\ Kept(s) = I \union J /\ I \in SUBSET (DOMAIN s) /\ J \in SUBSET (DOMAIN s)
      /\ I \intersect J = {}
  BY Subsets
<1>2. TrialOf(s, now) = Total(s, I, now) /\ DaysOf(s, now) = Total(s, J, now)
  BY DEF TrialOf, DaysOf
<1>3. now \in Int
  OBVIOUS
<1> HIDE DEF I, J
<1>4. /\ Total(s, I \union J, now) = Total(s, I, now) + Total(s, J, now)
      /\ Total(s, I, now) \in Nat /\ Total(s, J, now) \in Nat
  BY <1>1, <1>3, TotalUnion
<1>5. Left(s) = Total(s, I, now) + Total(s, J, now)
  BY <1>1, <1>4 DEF Left
<1> QED
  BY <1>2, <1>4, <1>5

LEMMA LeftLive ==
  ASSUME NEW s, ListOK(s), now \in Nat
  PROVE  Left(s) = Total(s, Live(s), now)
<1> DEFINE L == Live(s)
           K == Kept(s) \ Live(s)
<1>1. /\ s \in Seq(PeriodType) /\ now \in Int /\ Kept(s) \subseteq DOMAIN s
      /\ \A i \in Kept(s) : s[i] \in PeriodType /\ s[i].ends \in Nat
  BY KeptFields
<1>2. L \in SUBSET (DOMAIN s) /\ L \subseteq Kept(s)
  BY LiveFields
<1>3. K \in SUBSET (DOMAIN s) /\ L \intersect K = {} /\ Kept(s) = L \union K
  BY <1>1, <1>2
<1>4. \A i \in K : Rest(s[i], now) = 0
  <2> TAKE i \in K
  <2>1. s[i] \in PeriodType /\ s[i].ends <= now
    BY <1>1, LiveKept
  <2> QED
    BY <2>1, RestTick
<1> HIDE DEF L, K
<1>5. Total(s, K, now) = 0
  BY <1>1, <1>3, <1>4, TotalZero
<1>6. /\ Total(s, L \union K, now) = Total(s, L, now) + Total(s, K, now)
      /\ Total(s, L, now) \in Nat
  BY <1>1, <1>2, <1>3, TotalUnion
<1>7. Left(s) = Total(s, L, now)
  BY <1>3, <1>5, <1>6 DEF Left
<1> QED
  BY <1>7 DEF L

\* take_bonus_days cuts what is asked for, or all there is.
LEMMA TakenLeft ==
  ASSUME PeriodsAssumption, NEW s, ListOK(s), now \in Nat, NEW n \in Nat
  PROVE  /\ Left(Taken(s, n)) + Below(n * Day, Left(s)) = Left(s)
         /\ TakenDays(s, n) = Below(n * Day, Left(s)) \div Day
         /\ Left(Taken(s, n)) \in Nat /\ Left(s) \in Nat /\ Below(n * Day, Left(s)) \in Nat
<1> DEFINE r == Taken(s, n)
           d == SumFunctionOnSet(Cuts(s, n), Others(s))
           t == SumFunctionOnSet(Cuts(s, n), Trials(s))
           c == Below(n * Day, Left(s))
<1>1. /\ DaysOf(r, now) + d = DaysOf(s, now) /\ TrialOf(r, now) + t = TrialOf(s, now)
      /\ DaysOf(r, now) \in Nat /\ TrialOf(r, now) \in Nat /\ d \in Nat /\ t \in Nat
      /\ d + t = Below(n * Day, Total(s, Live(s), now))
  BY TakenBalance
<1>2. Left(s) = Total(s, Live(s), now)
  BY LeftLive
<1>3. TakenDays(s, n) = c \div Day
  BY <1>2 DEF TakenDays
<1>4. s \in Seq(PeriodType) /\ r \in Seq(PeriodType)
  BY KeptFields, TakenIs
<1> HIDE DEF r
<1>5. Left(s) = DaysOf(s, now) + TrialOf(s, now) /\ Left(s) \in Nat
  BY <1>4, LeftIs
<1>6. Left(r) = DaysOf(r, now) + TrialOf(r, now) /\ Left(r) \in Nat
  BY <1>4, LeftIs
<1>7. d + t = c
  BY <1>1, <1>2
<1> HIDE DEF d, t, c
<1>8. Left(r) + c = Left(s) /\ c \in Nat
  BY <1>1, <1>5, <1>6, <1>7
<1> QED
  BY <1>3, <1>5, <1>6, <1>8 DEF r, c

\* A refunded period loses no more time than the list says it lost.
LEMMA ShrunkLeft ==
  ASSUME PeriodsAssumption, NEW s, ListOK(s), now \in Nat, NEW b \in DOMAIN s, NEW n \in Nat
  PROVE  LET r == Shrunk(s, b, n)
             x == s[b].ends - r[b].ends
         IN /\ x \in Nat /\ x <= n * Day
            /\ Left(r) \in Nat /\ Left(s) \in Nat /\ Left(r) <= Left(s) /\ Left(s) <= Left(r) + x
<1> DEFINE r == Shrunk(s, b, n)
           x == s[b].ends - r[b].ends
           K == Kept(s)
<1>1. /\ s \in Seq(PeriodType) /\ now \in Int /\ n * Day \in Nat
      /\ K \in SUBSET (DOMAIN s)
  <2>1. s \in Seq(PeriodType) /\ n * Day \in Nat
    BY KeptFields, DaysType
  <2> QED
    BY <2>1, Subsets
<1>2. LessIn(s, r, b, n)
  BY <1>1, ShrunkIs
<1>3. s[b].starts \in Nat /\ s[b].ends \in Nat /\ s[b].starts <= s[b].ends
  BY <1>1, ListFields
<1> HIDE DEF r
<1>4. /\ r \in Seq(PeriodType) /\ DOMAIN r = DOMAIN s
      /\ \A i \in DOMAIN s :
           /\ r[i].starts = s[i].starts
           /\ r[i].ends = IF i = b THEN Above(s[i].ends - n * Day, s[i].starts) ELSE s[i].ends
           /\ r[i].off = (s[i].off \/ (i = b /\ s[i].ends - n * Day <= s[i].starts))
  BY <1>2 DEF LessIn
<1>5. r[b].ends = Above(s[b].ends - n * Day, s[b].starts) /\ r[b].starts = s[b].starts
  BY <1>4
<1>6. x \in Nat /\ x <= n * Day /\ r[b].ends \in Nat
  BY <1>1, <1>3, <1>5, SMTT(30) DEF Above
<1>7. Left(r) \in Nat /\ Left(s) \in Nat
  BY <1>1, <1>4, LeftIs
<1>8. \A i \in DOMAIN s : i # b => Rest(s[i], now) = Rest(r[i], now)
  BY <1>4 DEF Rest
<1>9. \A i \in DOMAIN s : i # b => (i \in Kept(r) <=> i \in K)
  <2> TAKE i \in DOMAIN s
  <2>1. r[i].off = (s[i].off \/ (i = b /\ s[i].ends - n * Day <= s[i].starts))
    BY <1>4
  <2>2. i # b => (~r[i].off <=> ~s[i].off)
    BY <2>1, Zenon
  <2> QED
    BY <1>4, <2>2 DEF Kept
<1>10. /\ b \in Kept(r) => b \in K
       /\ b \in K /\ b \notin Kept(r) => Rest(r[b], now) = 0
  <2>1. r[b].off = (s[b].off \/ s[b].ends - n * Day <= s[b].starts)
    BY <1>4
  <2>2. /\ ~r[b].off => ~s[b].off
        /\ r[b].off /\ ~s[b].off => s[b].ends - n * Day <= s[b].starts
    BY <2>1, Zenon
  <2>3. s[b].ends - n * Day <= s[b].starts => Rest(r[b], now) = 0
    BY <1>1, <1>3, <1>5, SMTT(30) DEF Above, Rest
  <2>4. b \in DOMAIN r
    BY <1>4
  <2> QED
    BY <2>2, <2>3, <2>4 DEF Kept
<1>11. /\ Rest(r[b], now) \in Nat /\ Rest(s[b], now) \in Nat
       /\ Rest(r[b], now) <= Rest(s[b], now) /\ Rest(s[b], now) <= Rest(r[b], now) + x
  <2> DEFINE p == s[b]
             q == r[b]
  <2>1. /\ p.starts \in Nat /\ p.ends \in Nat /\ q.ends \in Nat /\ q.starts = p.starts
        /\ x = p.ends - q.ends /\ x \in Nat
    BY <1>3, <1>5, <1>6
  <2> HIDE DEF p, q, x
  <2>2. /\ Rest(q, now) \in Nat /\ Rest(p, now) \in Nat
        /\ Rest(q, now) <= Rest(p, now) /\ Rest(p, now) <= Rest(q, now) + x
    <3>1. now \in Nat
      OBVIOUS
    <3> QED
      BY <2>1, <3>1 DEF Rest, Above
  <2> QED
    BY <2>2 DEF p, q
<1> HIDE DEF x, K
<1>12. Left(r) <= Left(s) /\ Left(s) <= Left(r) + x
  <2>1. CASE b \notin K
    <3>1. Kept(r) = K
      <4>1. Kept(r) \subseteq DOMAIN s /\ K \subseteq DOMAIN s
        BY <1>1, <1>4 DEF Kept
      <4> QED
        BY <1>9, <1>10, <2>1, <4>1
    <3>2. \A i \in K : Rest(s[i], now) = Rest(r[i], now)
      BY <1>1, <1>8, <2>1
    <3>3. K \in SUBSET (DOMAIN r)
      BY <1>1, <1>4
    <3>4. Total(s, K, now) = Total(r, K, now)
      <4>1. /\ s \in Seq(PeriodType) /\ r \in Seq(PeriodType) /\ now \in Int
            /\ K \in SUBSET (DOMAIN s)
        BY <1>1, <1>4
      <4> QED
        BY <3>2, <3>3, <4>1, TotalSame, SMTT(30)
    <3>5. Left(r) = Left(s)
      BY <3>1, <3>4 DEF Left, K
    <3> QED
      BY <1>6, <1>7, <3>5
  <2>2. CASE b \in K
    <3>1. K \in SUBSET (DOMAIN r) /\ \A i \in K \ {b} : Rest(s[i], now) = Rest(r[i], now)
      BY <1>1, <1>4, <1>8
    <3>2. Total(r, K, now) + Rest(s[b], now) = Total(s, K, now) + Rest(r[b], now)
      <4>1. /\ s \in Seq(PeriodType) /\ r \in Seq(PeriodType) /\ now \in Int
            /\ K \in SUBSET (DOMAIN s)
        BY <1>1, <1>4
      <4> QED
        BY <2>2, <3>1, <4>1, TotalChange, SMTT(30)
    <3>3. Total(r, K, now) \in Nat /\ Total(s, K, now) \in Nat
      BY <1>1, <1>4, <3>1, TotalType
    <3>4. Total(r, Kept(r), now) = Total(r, K, now)
      <4>1. Kept(r) \subseteq DOMAIN s
        BY <1>4 DEF Kept
      <4>2. CASE b \in Kept(r)
        <5>1. \A i \in DOMAIN s : i \in Kept(r) <=> i \in K
          BY <1>9, <2>2, <4>2
        <5>2. K \subseteq DOMAIN s
          BY <1>1
        <5>3. Kept(r) = K
          BY <4>1, <5>1, <5>2
        <5> QED
          BY <5>3
      <4>3. CASE b \notin Kept(r)
        <5>1. Kept(r) = K \ {b}
          <6>1. \A i \in DOMAIN s : i \in Kept(r) <=> i \in K \ {b}
            BY <1>9, <4>3
          <6>2. K \subseteq DOMAIN s
            BY <1>1
          <6> QED
            BY <4>1, <6>1, <6>2
        <5>2. /\ Total(r, K, now) = Rest(r[b], now) + Total(r, K \ {b}, now)
              /\ Total(r, K \ {b}, now) \in Nat
          <6>1. r \in Seq(PeriodType) /\ now \in Int
            BY <1>4
          <6> QED
            BY <2>2, <3>1, <6>1, TotalAdd
        <5>3. Rest(r[b], now) = 0
          BY <1>10, <2>2, <4>3
        <5> QED
          BY <5>1, <5>2, <5>3
      <4> QED
        BY <4>2, <4>3
    <3>5. Left(r) = Total(r, K, now) /\ Left(s) = Total(s, K, now)
      BY <3>4 DEF Left, K
    <3> QED
      BY <1>6, <1>11, <3>2, <3>3, <3>5
  <2> QED
    BY <2>1, <2>2
<1> QED
  BY <1>6, <1>7, <1>12 DEF r, x

--------------------------------------------------------------------------------
(* What all accounts have left                                             *)

LeftOf(ps) == SumFunctionOnSet([w \in Users |-> Left(ps[w])], Users)

LEMMA LeftOfType ==
  ASSUME PeriodsAssumption, now \in Nat, NEW ps \in [Users -> Seq(PeriodType)]
  PROVE  LeftOf(ps) \in Nat
<1> DEFINE f == [w \in Users |-> Left(ps[w])]
<1>1. IsFiniteSet(Users) /\ \A w \in Users : f[w] \in Nat
  BY LeftIs DEF PeriodsAssumption
<1> HIDE DEF f
<1>2. SumFunctionOnSet(f, Users) \in Nat
  BY <1>1, SumType
<1> QED
  BY <1>2 DEF LeftOf, f

\* The sum over the accounts changes by the change of one account.
LEMMA LeftOfSums ==
  ASSUME IsFiniteSet(Users), NEW f \in [Users -> Nat], NEW g \in [Users -> Nat],
         NEW v \in Users, \A w \in Users : w # v => g[w] = f[w]
  PROVE  /\ SumFunctionOnSet(g, Users) + f[v] = SumFunctionOnSet(f, Users) + g[v]
         /\ SumFunctionOnSet(f, Users) \in Nat /\ SumFunctionOnSet(g, Users) \in Nat
<1>1. /\ \A w \in Users \ {v} : f[w] = g[w]
      /\ \A w \in Users : f[w] \in Nat /\ g[w] \in Nat
  OBVIOUS
<1>2. SumFunctionOnSet(g, Users) + f[v] = SumFunctionOnSet(f, Users) + g[v]
  BY <1>1, SumChange
<1>3. SumFunctionOnSet(f, Users) \in Nat /\ SumFunctionOnSet(g, Users) \in Nat
  BY <1>1, SumType
<1> QED
  BY <1>2, <1>3

LEMMA LeftOfChange ==
  ASSUME PeriodsAssumption, now \in Nat, NEW ps \in [Users -> Seq(PeriodType)],
         NEW qs \in [Users -> Seq(PeriodType)], NEW v \in Users,
         \A w \in Users : w # v => qs[w] = ps[w]
  PROVE  /\ LeftOf(qs) + Left(ps[v]) = LeftOf(ps) + Left(qs[v])
         /\ LeftOf(ps) \in Nat /\ LeftOf(qs) \in Nat
         /\ Left(ps[v]) \in Nat /\ Left(qs[v]) \in Nat
<1> DEFINE f == [w \in Users |-> Left(ps[w])]
           g == [w \in Users |-> Left(qs[w])]
<1>1. \A w \in Users : f[w] = Left(ps[w]) /\ g[w] = Left(qs[w])
  OBVIOUS
<1>2. \A w \in Users : Left(ps[w]) \in Nat /\ Left(qs[w]) \in Nat
  BY LeftIs
<1>3. IsFiniteSet(Users)
  BY DEF PeriodsAssumption
<1>4. f \in [Users -> Nat] /\ g \in [Users -> Nat]
  BY <1>2
<1> HIDE DEF f, g
<1>5. \A w \in Users : w # v => g[w] = f[w]
  BY <1>1
<1>6. /\ SumFunctionOnSet(g, Users) + f[v] = SumFunctionOnSet(f, Users) + g[v]
      /\ SumFunctionOnSet(f, Users) \in Nat /\ SumFunctionOnSet(g, Users) \in Nat
  BY <1>3, <1>4, <1>5, LeftOfSums, ZenonT(30)
<1>7. LeftOf(ps) = SumFunctionOnSet(f, Users) /\ LeftOf(qs) = SumFunctionOnSet(g, Users)
  BY DEF LeftOf, f, g
<1> QED
  BY <1>1, <1>2, <1>6, <1>7

\* Days taken from one account.
LEMMA TakenLeftOf ==
  ASSUME PeriodsAssumption, now \in Nat, NEW ps \in [Users -> Seq(PeriodType)],
         NEW v \in Users, ListOK(ps[v]), NEW n \in Nat
  PROVE  LET qs == [ps EXCEPT ![v] = Taken(ps[v], n)]
             c == Below(n * Day, Left(ps[v]))
         IN /\ LeftOf(qs) + c = LeftOf(ps) /\ LeftOf(qs) \in Nat /\ LeftOf(ps) \in Nat
            /\ Left(qs[v]) + c = Left(ps[v]) /\ Left(qs[v]) \in Nat
            /\ c \in Nat /\ TakenDays(ps[v], n) = c \div Day
            /\ \A w \in Users : w # v => qs[w] = ps[w]
            /\ \A w \in Users : Left(qs[w]) <= Left(ps[w])
<1> DEFINE s == ps[v]
           r == Taken(s, n)
           qs == [ps EXCEPT ![v] = r]
           c == Below(n * Day, Left(s))
<1>1. ListOK(s) /\ s \in Seq(PeriodType)
  OBVIOUS
<1> HIDE DEF s
<1>2. /\ Left(r) + c = Left(s) /\ TakenDays(s, n) = c \div Day
      /\ Left(r) \in Nat /\ Left(s) \in Nat /\ c \in Nat
  BY <1>1, TakenLeft
<1>3. r \in Seq(PeriodType)
  BY <1>1, TakenIs
<1> HIDE DEF r
<1>4. /\ qs \in [Users -> Seq(PeriodType)] /\ qs[v] = r
      /\ \A w \in Users : w # v => qs[w] = ps[w]
  BY <1>3
<1> HIDE DEF qs
<1>5. /\ LeftOf(qs) + Left(ps[v]) = LeftOf(ps) + Left(qs[v])
      /\ LeftOf(ps) \in Nat /\ LeftOf(qs) \in Nat
      /\ Left(ps[v]) \in Nat /\ Left(qs[v]) \in Nat
  BY <1>4, LeftOfChange
<1> HIDE DEF c
<1>6. LeftOf(qs) + Left(s) = LeftOf(ps) + Left(r)
  BY <1>4, <1>5 DEF s
<1>7. LeftOf(qs) + c = LeftOf(ps)
  <2>1. LeftOf(qs) \in Nat /\ LeftOf(ps) \in Nat
    BY <1>5
  <2>2. Left(r) + c = Left(s) /\ Left(r) \in Nat /\ Left(s) \in Nat /\ c \in Nat
    BY <1>2
  <2> DEFINE A == LeftOf(qs)
             B == LeftOf(ps)
             C == Left(s)
             D == Left(r)
  <2>3. /\ A \in Nat /\ B \in Nat /\ C \in Nat /\ D \in Nat /\ c \in Nat
        /\ A + C = B + D /\ D + c = C
    BY <1>6, <2>1, <2>2
  <2> HIDE DEF A, B, C, D
  <2>4. A + c = B
    BY <2>3
  <2> QED
    BY <2>4 DEF A, B
<1>8. \A w \in Users : Left(qs[w]) <= Left(ps[w])
  <2> TAKE w \in Users
  <2>1. CASE w = v
    <3>1. Left(qs[w]) = Left(r) /\ Left(ps[w]) = Left(s)
      BY <1>4, <2>1 DEF s
    <3> QED
      BY <1>2, <3>1
  <2>2. CASE w # v
    <3>1. qs[w] = ps[w] /\ Left(ps[w]) \in Nat
      BY <1>4, <2>2, LeftIs
    <3> QED
      BY <3>1
  <2> QED
    BY <2>1, <2>2
<1>9. /\ LeftOf(qs) + c = LeftOf(ps) /\ LeftOf(qs) \in Nat /\ LeftOf(ps) \in Nat
      /\ Left(qs[v]) + c = Left(s) /\ Left(qs[v]) \in Nat
      /\ c \in Nat /\ TakenDays(s, n) = c \div Day
      /\ \A w \in Users : w # v => qs[w] = ps[w]
      /\ \A w \in Users : Left(qs[w]) <= Left(ps[w])
  BY <1>2, <1>4, <1>5, <1>7, <1>8
<1> QED
  BY <1>9 DEF qs, c, r, s

--------------------------------------------------------------------------------
(* claw_back                                                               *)

\* The receivers R lost up to a day more than was counted, and have nothing left.
Drained(all, u, n, acc, R) ==
  /\ R \subseteq Receivers(u)
  /\ \A w \in R : Left(acc.periods[w]) = 0
  /\ R = Receivers(u) => acc.got < n \/ n = 0
  /\ LeftOf(all) <= LeftOf(acc.periods) + acc.got * Day + Cardinality(R) * (Day - 1)

ClawBound(all, u, n, acc) ==
  /\ \A k \in DOMAIN transfers : /\ acc.transfers[k].from = transfers[k].from
                                 /\ acc.transfers[k].to = transfers[k].to
  /\ acc.got <= n
  /\ \A w \in Users : Left(acc.periods[w]) <= Left(all[w])
  /\ \E R : Drained(all, u, n, acc, R)

LEMMA ReceiversFinite ==
  ASSUME PeriodsAssumption, NEW u, NEW R, R \subseteq Receivers(u)
  PROVE  /\ IsFiniteSet(R) /\ Cardinality(R) \in Nat
         /\ IsFiniteSet(Receivers(u)) /\ Cardinality(Receivers(u)) \in Nat
         /\ Cardinality(R) <= Cardinality(Receivers(u))
         /\ R # Receivers(u) => Cardinality(R) + 1 <= Cardinality(Receivers(u))
<1>1. IsFiniteSet(Users) /\ Receivers(u) \subseteq Users
  BY DEF PeriodsAssumption, Receivers
<1>2. IsFiniteSet(Receivers(u))
  BY <1>1, FS_Subset
<1>3. IsFiniteSet(R) /\ Cardinality(R) <= Cardinality(Receivers(u))
  BY <1>2, FS_Subset
<1>4. Cardinality(R) \in Nat /\ Cardinality(Receivers(u)) \in Nat
  BY <1>2, <1>3, FS_CardinalityType
<1>5. R # Receivers(u) => Cardinality(R) # Cardinality(Receivers(u))
  BY <1>2, FS_Subset
<1> QED
  BY <1>2, <1>3, <1>4, <1>5

\* What is counted of a cut: all of it, or all but less than a day of the last.
CountOf(want, left, c, got) == c = Below(want * Day, left) /\ got = c \div Day

CountSays(want, left, c, got) ==
  /\ c \in Nat /\ got \in Nat /\ got * Day \in Nat
  /\ \/ got = want /\ c = got * Day /\ left > 0
     \/ got < want /\ c = left /\ c <= got * Day + (Day - 1)

LEMMA CutDays ==
  ASSUME PeriodsAssumption, NEW want \in Nat, want > 0, NEW left \in Nat,
         NEW c, NEW got, CountOf(want, left, c, got)
  PROVE  CountSays(want, left, c, got)
<1> USE DEF CountOf
<1> DEFINE x == want * Day
           y == got * Day
<1>1. x \in Nat /\ x > 0 /\ Day \in Nat /\ Day > 0
  BY DaysType, TimesDay
<1>2. c = Below(x, left)
  OBVIOUS
<1>3. c \in Nat
  <2> HIDE DEF x
  <2> QED
    BY <1>1, <1>2 DEF Below
<1>4. got \in Nat /\ y <= c /\ c < y + Day
  BY <1>3, DivType
<1>5. y \in Nat
  BY <1>4, TimesDay
<1>6. want < got => x + Day <= y
  BY <1>4, TimesDay
<1>7. got < want => y + Day <= x
  BY <1>4, TimesDay
<1>8. got = want => y = x
  OBVIOUS
<1> HIDE DEF x, y
<1>9. c <= x /\ c <= left /\ (c = x \/ c = left)
  BY <1>1, <1>2 DEF Below
<1>10. ~(want < got)
  BY <1>1, <1>3, <1>4, <1>5, <1>6, <1>9
<1>11. got = want => c = y /\ left > 0
  BY <1>1, <1>3, <1>4, <1>5, <1>8, <1>9
<1>12. got < want => c = left /\ c <= y + (Day - 1)
  BY <1>1, <1>3, <1>4, <1>5, <1>7, <1>9
<1>13. got = want \/ got < want
  BY <1>4, <1>10
<1>14. \/ got = want /\ c = y /\ left > 0
       \/ got < want /\ c = left /\ c <= y + (Day - 1)
  BY <1>11, <1>12, <1>13
<1> QED
  BY <1>3, <1>4, <1>5, <1>14 DEF CountSays, y

\* A cut of c, of which g is counted, or all but e of it.
LEMMA Counted ==
  ASSUME NEW all \in Nat, NEW old \in Nat, NEW new \in Nat, NEW a \in Nat, NEW b \in Nat,
         NEW c \in Nat, NEW g \in Nat, NEW m \in Nat,
         new + c = old, b = a + g, all <= old + a + m
  PROVE  /\ c <= g => all <= new + b + m
         /\ \A e \in Nat : c <= g + e => all <= new + b + (m + e)
OBVIOUS

LEMMA ClawOneBound ==
  ASSUME PeriodsAssumption, now \in Nat, transfers \in Seq(TransferType),
         NEW all, all \in [Users -> Seq(PeriodType)],
         NEW u, NEW n \in Nat, NEW acc, ClawOK(all, acc), ClawBound(all, u, n, acc),
         NEW k \in 1 .. Len(transfers)
  PROVE  ClawBound(all, u, n, ClawOne(u, n, acc, k))
<1> DEFINE t == acc.transfers[k]
           v == t.to
           want == Below(t.days - t.reverted, n - acc.got)
           got == TakenDays(acc.periods[t.to], want)
           ps == acc.periods
           ts == [acc.transfers EXCEPT ![k].reverted = @ + got]
           qs == [acc.periods EXCEPT ![t.to] = Taken(@, want)]
           next == [periods |-> qs, transfers |-> ts, got |-> acc.got + got,
                    hit |-> acc.hit \union {t.to}]
           c == Below(want * Day, Left(ps[v]))
<1>1. ClawOne(u, n, acc, k) = IF t.from # u \/ want <= 0 THEN acc ELSE next
  BY DEF ClawOne
<1>2. /\ ps \in [Users -> Seq(PeriodType)] /\ (\A w \in Users : ListOK(ps[w])) /\ acc.got \in Nat
      /\ acc.transfers \in Seq(TransferType) /\ Len(acc.transfers) = Len(transfers)
  BY DEF ClawOK
<1>3. t \in TransferType /\ k \in DOMAIN transfers /\ DOMAIN acc.transfers = DOMAIN transfers
  <2>1. k \in 1 .. Len(acc.transfers)
    BY <1>2
  <2>2. t \in TransferType
    BY <1>2, <2>1, ElementOfSeq
  <2>3. DOMAIN transfers = 1 .. Len(transfers) /\ DOMAIN acc.transfers = 1 .. Len(acc.transfers)
    BY <1>2
  <2> QED
    BY <1>2, <2>2, <2>3
<1>4. v \in Users /\ t.days \in Nat /\ t.reverted \in Nat
  BY <1>3 DEF TransferType
<1>5. want \in Int /\ want <= n - acc.got
  <2> HIDE DEF t, got
  <2>1. t.days - t.reverted \in Int /\ n - acc.got \in Int
    BY <1>2, <1>4, SMTT(30)
  <2> QED
    BY <2>1 DEF Below
<1>6. /\ \A j \in DOMAIN transfers : /\ acc.transfers[j].from = transfers[j].from
                                     /\ acc.transfers[j].to = transfers[j].to
      /\ acc.got <= n
      /\ \A w \in Users : Left(ps[w]) <= Left(all[w])
  BY DEF ClawBound
<1>7. /\ next.periods = qs /\ next.transfers = ts /\ next.got = acc.got + got
      /\ qs = [ps EXCEPT ![v] = Taken(ps[v], want)] /\ got = TakenDays(ps[v], want)
  OBVIOUS
<1>8. CASE t.from # u \/ want <= 0
  BY <1>1, <1>8
<1>9. CASE ~(t.from # u \/ want <= 0)
  <2>1. \A j \in DOMAIN transfers : ts[j].from = transfers[j].from /\ ts[j].to = transfers[j].to
    <3> TAKE j \in DOMAIN transfers
    <3>1. CASE j = k
      <4>1. ts[j] = [t EXCEPT !.reverted = @ + got]
        BY <1>3, <3>1
      <4> DEFINE x == t.reverted + got
      <4>2. ts[j] = [t EXCEPT !.reverted = x]
        BY <4>1
      <4>3. t \in TransferType
        BY <1>3
      <4>4. t.from = transfers[j].from /\ t.to = transfers[j].to
        BY <1>6, <3>1
      <4> HIDE DEF x, t, ts
      <4>5. [t EXCEPT !.reverted = x].from = t.from /\ [t EXCEPT !.reverted = x].to = t.to
        BY <4>3 DEF TransferType
      <4> QED
        BY <4>2, <4>4, <4>5
    <3>2. CASE j # k
      <4>1. ts[j] = acc.transfers[j]
        BY <1>3, <3>2
      <4> HIDE DEF ts
      <4> QED
        BY <1>6, <4>1
    <3> QED
      BY <3>1, <3>2
  <2>2. v \in Receivers(u)
    <3>1. transfers[k].from = u /\ transfers[k].to = v
      BY <1>3, <1>6, <1>9
    <3> HIDE DEF v
    <3> QED
      BY <1>3, <1>4, <3>1 DEF Receivers
  <2>7. next.periods = qs /\ next.transfers = ts /\ next.got = acc.got + got
    BY <1>7
  <2> HIDE DEF t, ts, next
  <2>3. want \in Nat /\ want > 0
    BY <1>5, <1>9
  <2> HIDE DEF want, got, v
  <2>4. ListOK(ps[v])
    BY <1>2, <1>4
  <2> HIDE DEF ps
  <2>5. /\ LeftOf(qs) + c = LeftOf(ps) /\ LeftOf(qs) \in Nat /\ LeftOf(ps) \in Nat
        /\ Left(qs[v]) + c = Left(ps[v]) /\ Left(qs[v]) \in Nat
        /\ c \in Nat /\ TakenDays(ps[v], want) = c \div Day
        /\ \A w \in Users : w # v => qs[w] = ps[w]
        /\ \A w \in Users : Left(qs[w]) <= Left(ps[w])
    <3>1. LET xs == [ps EXCEPT ![v] = Taken(ps[v], want)]
              y == Below(want * Day, Left(ps[v]))
          IN /\ LeftOf(xs) + y = LeftOf(ps) /\ LeftOf(xs) \in Nat /\ LeftOf(ps) \in Nat
             /\ Left(xs[v]) + y = Left(ps[v]) /\ Left(xs[v]) \in Nat
             /\ y \in Nat /\ TakenDays(ps[v], want) = y \div Day
             /\ \A w \in Users : w # v => xs[w] = ps[w]
             /\ \A w \in Users : Left(xs[w]) <= Left(ps[w])
      BY <1>2, <1>4, <2>3, <2>4, TakenLeftOf
    <3>2. qs = [ps EXCEPT ![v] = Taken(ps[v], want)]
      BY <1>7
    <3> HIDE DEF qs
    <3> QED
      BY <3>1, <3>2
  <2> HIDE DEF qs
  <2>6. /\ got \in Nat /\ got * Day \in Nat
        /\ \/ got = want /\ c = got * Day /\ Left(ps[v]) > 0
           \/ got < want /\ c = Left(ps[v]) /\ c <= got * Day + (Day - 1)
    <3> DEFINE left == Left(ps[v])
    <3>1. left \in Nat /\ CountOf(want, left, c, got)
      BY <1>7, <2>5, SMTT(30) DEF CountOf
    <3>3. want \in Nat /\ want > 0
      BY <2>3
    <3> HIDE DEF left, c
    <3>2. CountSays(want, left, c, got)
      BY <3>1, <3>3, CutDays
    <3> QED
      BY <3>2 DEF left, CountSays
  <2> HIDE DEF c
  <2>9. acc.got + got <= n /\ (got < want => acc.got + got < n) /\ acc.got + got \in Nat
    <3>1. got <= want /\ got \in Nat
      BY <2>3, <2>6
    <3> DEFINE before == acc.got
    <3>2. before \in Nat /\ want <= n - before
      BY <1>2, <1>5
    <3>3. want \in Nat
      BY <2>3
    <3> HIDE DEF before
    <3>4. before + got <= n /\ (got < want => before + got < n) /\ before + got \in Nat
      BY <3>1, <3>2, <3>3
    <3> QED
      BY <3>4 DEF before
  <2> DEFINE a == acc.got * Day
             g == got * Day
             b == (acc.got + got) * Day
  <2>10. b = a + g /\ a \in Nat /\ g \in Nat
    <3>1. acc.got \in Nat /\ got \in Nat
      BY <1>2, <2>6
    <3> QED
      BY <3>1, TimesDay
  <2>11. PICK R : Drained(all, u, n, acc, R)
    BY DEF ClawBound
  <2> DEFINE m == Cardinality(R) * (Day - 1)
  <2>12. /\ R \subseteq Receivers(u) /\ \A w \in R : Left(ps[w]) = 0
         /\ LeftOf(all) <= LeftOf(ps) + a + m
    BY <2>11 DEF Drained, ps
  <2>13. Day - 1 \in Nat /\ Cardinality(R) \in Nat /\ m \in Nat /\ LeftOf(all) \in Nat
    <3>1. Cardinality(R) \in Nat
      BY <2>12, ReceiversFinite
    <3>2. Day - 1 \in Nat
      <4>1. Day \in Nat /\ Day > 0
        BY TimesDay
      <4> QED
        BY <4>1
    <3>3. \A i, j \in Nat : i * j \in Nat
      OBVIOUS
    <3>4. LeftOf(all) \in Nat
      <4>1. \A w \in Users : w # v => all[w] = all[w]
        OBVIOUS
      <4> QED
        BY <1>4, <4>1, LeftOfChange
    <3> QED
      BY <3>1, <3>2, <3>3, <3>4
  <2>14. ASSUME got = want /\ c = g /\ Left(ps[v]) > 0
         PROVE  \E Q : Drained(all, u, n, next, Q)
    <3>1. v \notin R
      BY <2>12, <2>14
    <3>2. \A w \in R : Left(qs[w]) = 0
      <4>1. R \subseteq Users
        BY <2>12 DEF Receivers
      <4> QED
        BY <2>5, <2>12, <3>1, <4>1
    <3>3. LeftOf(all) <= LeftOf(qs) + b + m
      <4>3. b \in Nat /\ c <= g
        <5> HIDE DEF a, g, b, m
        <5> QED
          BY <2>10, <2>14
      <4>1. /\ LeftOf(qs) + c = LeftOf(ps) /\ LeftOf(qs) \in Nat /\ LeftOf(ps) \in Nat
            /\ c \in Nat
        BY <2>5
      <4>2. LeftOf(all) <= LeftOf(ps) + a + m
        BY <2>12
      <4> HIDE DEF a, g, b, m
      <4> QED
        BY <2>10, <2>13, <4>1, <4>2, <4>3, Counted
    <3>4. R # Receivers(u)
      BY <2>2, <3>1
    <3>5. Drained(all, u, n, next, R)
      <4>1. next.periods = qs /\ next.got = acc.got + got
        BY <2>7
      <4>2. LeftOf(all) <= LeftOf(qs) + (acc.got + got) * Day + Cardinality(R) * (Day - 1)
        BY <3>3
      <4>3. R \subseteq Receivers(u)
        BY <2>12
      <4> HIDE DEF c, g, a, b, m
      <4>4. LeftOf(all) <= LeftOf(next.periods) + next.got * Day + Cardinality(R) * (Day - 1)
        BY <4>1, <4>2, Zenon
      <4> QED
        BY <3>2, <3>4, <4>1, <4>3, <4>4, Zenon DEF Drained
    <3> QED
      BY <3>5
  <2>15. ASSUME got < want /\ c = Left(ps[v]) /\ c <= g + (Day - 1)
         PROVE  \E Q : Drained(all, u, n, next, Q)
    <3> DEFINE Q == R \union {v}
               q == Cardinality(Q) * (Day - 1)
    <3>1. Left(qs[v]) = 0
      <4>1. Left(qs[v]) + c = Left(ps[v]) /\ c = Left(ps[v]) /\ Left(qs[v]) \in Nat /\ c \in Nat
        BY <2>5, <2>15
      <4> DEFINE x == Left(qs[v])
      <4>2. x + c = c /\ x \in Nat /\ c \in Nat
        BY <4>1
      <4> HIDE DEF x
      <4>3. x = 0
        BY <4>2
      <4> QED
        BY <4>3 DEF x
    <3>2. Q \subseteq Receivers(u) /\ \A w \in Q : Left(qs[w]) = 0
      <4>1. R \subseteq Users
        BY <2>12 DEF Receivers
      <4> QED
        BY <2>2, <2>5, <2>12, <3>1, <4>1
    <3>3. LeftOf(all) <= LeftOf(qs) + b + q
      <4>1. CASE v \in R
        <5>1. c = 0 /\ q = m
          <6>1. Q = R
            BY <4>1
          <6> QED
            BY <2>12, <2>15, <4>1, <6>1
        <5>2. /\ LeftOf(qs) + c = LeftOf(ps) /\ LeftOf(qs) \in Nat /\ LeftOf(ps) \in Nat
              /\ c \in Nat /\ b \in Nat /\ c <= g
          BY <2>5, <2>10, <5>1, SMTT(30)
        <5>3. LeftOf(all) <= LeftOf(ps) + a + m
          BY <2>12
        <5> HIDE DEF a, g, b, m, q
        <5>4. LeftOf(all) <= LeftOf(qs) + b + m
          BY <2>10, <2>13, <5>2, <5>3, Counted
        <5> QED
          BY <5>1, <5>4
      <4>2. CASE v \notin R
        <5> DEFINE e == Day - 1
                   i == Cardinality(R)
        <5>1. Cardinality(Q) = i + 1
          <6>1. IsFiniteSet(R)
            BY <2>12, ReceiversFinite
          <6> QED
            BY <4>2, <6>1, FS_AddElement
        <5>2. e \in Nat /\ i \in Nat /\ q = (i + 1) * e /\ m = i * e /\ c <= g + e
          BY <2>13, <2>15, <5>1
        <5> HIDE DEF e, i, q, m
        <5>3. q = m + e
          <6>1. \A x, y \in Nat : (x + 1) * y = x * y + y
            OBVIOUS
          <6>2. (i + 1) * e = i * e + e
            BY <5>2, <6>1
          <6> QED
            BY <5>2, <6>2
        <5>4. e \in Nat /\ c <= g + e
          BY <5>2
        <5>5. /\ LeftOf(qs) + c = LeftOf(ps) /\ LeftOf(qs) \in Nat /\ LeftOf(ps) \in Nat
              /\ c \in Nat /\ b \in Nat
          BY <2>5, <2>10, SMTT(30)
        <5>6. LeftOf(all) <= LeftOf(ps) + a + m /\ m \in Nat /\ LeftOf(all) \in Nat
          BY <2>12, <2>13 DEF m
        <5> HIDE DEF a, g, b, m, e
        <5>7. LeftOf(all) <= LeftOf(qs) + b + (m + e)
          BY <2>10, <5>4, <5>5, <5>6, Counted
        <5> QED
          BY <5>3, <5>7
      <4> QED
        BY <4>1, <4>2
    <3>4. acc.got + got < n
      BY <2>9, <2>15
    <3>5. Drained(all, u, n, next, Q)
      <4> HIDE DEF Q
      <4>1. next.periods = qs /\ next.got = acc.got + got
        BY <2>7
      <4>2. LeftOf(all) <= LeftOf(qs) + (acc.got + got) * Day + Cardinality(Q) * (Day - 1)
        BY <3>3
      <4> HIDE DEF c, g, a, b, m, q
      <4>3. LeftOf(all) <= LeftOf(next.periods) + next.got * Day + Cardinality(Q) * (Day - 1)
        BY <4>1, <4>2, Zenon
      <4>4. next.got < n
        BY <3>4, <4>1, Zenon
      <4> QED
        BY <3>2, <4>1, <4>3, <4>4, Zenon DEF Drained
    <3> QED
      BY <3>5
  <2>16. \E Q : Drained(all, u, n, next, Q)
    <3>1. \/ got = want /\ c = g /\ Left(ps[v]) > 0
          \/ got < want /\ c = Left(ps[v]) /\ c <= g + (Day - 1)
      BY <2>6
    <3> HIDE DEF a, g, b, m
    <3> QED
      BY <2>14, <2>15, <3>1
  <2>17. \A w \in Users : Left(qs[w]) <= Left(all[w])
    <3> TAKE w \in Users
    <3>1. Left(qs[w]) <= Left(ps[w]) /\ Left(ps[w]) <= Left(all[w])
      BY <1>6, <2>5 DEF ps
    <3>2. all[w] \in Seq(PeriodType) /\ ps[w] \in Seq(PeriodType)
      BY <1>2
    <3>3. Left(all[w]) \in Nat /\ Left(ps[w]) \in Nat
      BY <3>2, LeftIs
    <3>4. Left(qs[w]) \in Nat
      <4>1. CASE w = v
        BY <2>5, <4>1
      <4>2. CASE w # v
        BY <2>5, <3>3, <4>2
      <4> QED
        BY <4>1, <4>2
    <3> QED
      BY <3>1, <3>3, <3>4
  <2>18. ClawBound(all, u, n, next)
    BY <2>1, <2>7, <2>9, <2>16, <2>17 DEF ClawBound
  <2> QED
    BY <1>1, <1>9, <2>18
<1> QED
  BY <1>8, <1>9

LEMMA ClawBackBound ==
  ASSUME PeriodsAssumption, now \in Nat, transfers \in Seq(TransferType),
         NEW all, all \in [Users -> Seq(PeriodType)], \A w \in Users : ListOK(all[w]),
         NEW u, NEW n \in Nat
  PROVE  ClawBound(all, u, n, ClawBack(all, u, n))
<1> DEFINE N == Len(transfers)
           OK(acc) == ClawOK(all, acc) /\ ClawBound(all, u, n, acc)
<1>1. N \in Nat
  OBVIOUS
<1>2. PICK claw : /\ claw[0] = ClawStart(all)
                  /\ \A k \in 1 .. N : claw[k] = ClawOne(u, n, claw[k - 1], N + 1 - k)
                  /\ claw[N] = ClawBack(all, u, n)
  BY <1>1, ClawSteps
<1> DEFINE P == {m \in 0 .. N : OK(claw[m])}
<1>3. OK(ClawStart(all))
  <2> DEFINE st == ClawStart(all)
  <2>1. \A w \in Users : Grown(all[w], all[w])
    BY ListFields DEF Grown
  <2>2. ClawOK(all, ClawStart(all))
    BY <2>1 DEF ClawOK, ClawStart
  <2>3. st.periods = all /\ st.transfers = transfers /\ st.got = 0
    BY DEF ClawStart
  <2> HIDE DEF st
  <2>4. \A w \in Users : Left(all[w]) \in Nat /\ Left(all[w]) <= Left(all[w])
    <3> TAKE w \in Users
    <3> DEFINE x == Left(all[w])
    <3>1. x \in Nat
      BY LeftIs
    <3> HIDE DEF x
    <3>2. x <= x
      BY <3>1
    <3> QED
      BY <3>1, <3>2 DEF x
  <2>5. Drained(all, u, n, st, {})
    <3> DEFINE x == LeftOf(all)
               e == Day - 1
    <3>1. x \in Nat
      BY LeftOfType
    <3>2. Day \in Nat /\ e \in Nat
      <4>1. Day \in Nat /\ Day > 0
        BY TimesDay
      <4> QED
        BY <4>1
    <3>3. Cardinality({}) = 0
      BY FS_EmptySet
    <3>4. 0 * Day = 0 /\ 0 * e = 0
      <4> HIDE DEF e
      <4> QED
        BY <3>2
    <3>5. x <= x + 0 + 0
      <4> HIDE DEF x
      <4> QED
        BY <3>1
    <3>6. LeftOf(all) <= LeftOf(st.periods) + st.got * Day + Cardinality({}) * (Day - 1)
      BY <2>3, <3>3, <3>4, <3>5
    <3>7. st.got < n \/ n = 0
      BY <2>3
    <3> QED
      BY <3>6, <3>7 DEF Drained
  <2>6. ClawBound(all, u, n, st)
    BY <2>3, <2>4, <2>5 DEF ClawBound
  <2> QED
    BY <2>2, <2>6 DEF st
<1>4. ASSUME NEW acc, OK(acc), NEW k \in 1 .. N
      PROVE  OK(ClawOne(u, n, acc, k))
  <2>1. ClawOK(all, acc) /\ ClawBound(all, u, n, acc) /\ n \in Int
    BY <1>4
  <2>2. ClawOK(all, ClawOne(u, n, acc, k))
    BY <1>1, <2>1, ClawOneOK
  <2>3. ClawBound(all, u, n, ClawOne(u, n, acc, k))
    BY <2>1, ClawOneBound
  <2> QED
    BY <2>2, <2>3
<1> HIDE DEF OK, N
<1>5. 0 \in P
  BY <1>1, <1>2, <1>3
<1>6. \A m \in 0 .. N : m \in P /\ m < N => m + 1 \in P
  <2> SUFFICES ASSUME NEW m \in 0 .. N, m \in P, m < N PROVE m + 1 \in P
    OBVIOUS
  <2>1. m + 1 \in 1 .. N /\ m + 1 \in 0 .. N /\ (m + 1) - 1 = m /\ N + 1 - (m + 1) \in 1 .. N
    BY <1>1
  <2>2. claw[m + 1] = ClawOne(u, n, claw[m], N + 1 - (m + 1))
    BY <1>2, <2>1
  <2>3. OK(ClawOne(u, n, claw[m], N + 1 - (m + 1)))
    BY <1>4, <2>1
  <2> QED
    BY <2>1, <2>2, <2>3
<1>7. N \in P
  <2> HIDE DEF P
  <2>1. \A m \in 0 .. N : m \in P
    BY <1>1, <1>5, <1>6, UpTo
  <2> QED
    BY <1>1, <2>1
<1>8. OK(ClawBack(all, u, n))
  BY <1>2, <1>7
<1> QED
  BY <1>8 DEF OK

--------------------------------------------------------------------------------
(* refund, all its steps                                                   *)

\* The refunded period loses x, and the days it did not have are claimed back.
OwnCosts(o, x) ==
  /\ x \in Nat /\ x <= Term[o] * Day
  /\ Unpaid(periods[Owner[o]], bought[o], Term[o]) = Above(0, Term[o] - x \div Day)
  /\ LeftOf(periods) <= LeftOf(Own(o)) + x
  /\ \A w \in Users : Left(Own(o)[w]) <= Left(periods[w])

LEMMA OwnLeft ==
  ASSUME PeriodsAssumption, PeriodsInv, NEW o \in Orders, status[o] = "paid"
  PROVE  \E x : OwnCosts(o, x)
<1> DEFINE v == Owner[o]
           s == periods[v]
           b == bought[o]
           n == Term[o]
           r == Shrunk(s, b, n)
           x == s[b].ends - r[b].ends
           ps == Own(o)
<1>1. v \in Users /\ n \in Nat
  BY DEF PeriodsAssumption
<1>2. b \in DOMAIN s
  BY DEF PeriodsInv, BoughtInv
<1>3. now \in Nat /\ periods \in [Users -> Seq(PeriodType)] /\ \A w \in Users : ListOK(periods[w])
  BY InvFacts
<1>4. ps \in [Users -> Seq(PeriodType)]
  BY OwnOK DEF From
<1>5. ps[v] = r /\ \A w \in Users : w # v => ps[w] = periods[w]
  BY <1>1, <1>3 DEF Own
<1>6. Unpaid(s, b, n) = Above(0, n - x \div Day)
  BY DEF Unpaid
<1>7. ListOK(s)
  BY <1>1, <1>3
<1> HIDE DEF s, b, n, ps
<1>8. LET rr == Shrunk(s, b, n)
          xx == s[b].ends - rr[b].ends
      IN /\ xx \in Nat /\ xx <= n * Day
         /\ Left(rr) \in Nat /\ Left(s) \in Nat /\ Left(rr) <= Left(s) /\ Left(s) <= Left(rr) + xx
  BY <1>1, <1>2, <1>3, <1>7, ShrunkLeft
<1>9. /\ x \in Nat /\ x <= n * Day
      /\ Left(r) \in Nat /\ Left(s) \in Nat /\ Left(r) <= Left(s) /\ Left(s) <= Left(r) + x
  BY <1>8
<1> HIDE DEF r, x, v
<1>10. /\ LeftOf(ps) + Left(periods[v]) = LeftOf(periods) + Left(ps[v])
       /\ LeftOf(periods) \in Nat /\ LeftOf(ps) \in Nat
  BY <1>1, <1>3, <1>4, <1>5, LeftOfChange
<1>11. LeftOf(periods) <= LeftOf(ps) + x
  <2> DEFINE A == LeftOf(ps)
             B == LeftOf(periods)
             C == Left(s)
             D == Left(r)
  <2>1. /\ A \in Nat /\ B \in Nat /\ C \in Nat /\ D \in Nat /\ x \in Nat
        /\ A + C = B + D /\ C <= D + x
    BY <1>5, <1>9, <1>10 DEF s
  <2> HIDE DEF A, B, C, D
  <2>2. B <= A + x
    BY <2>1
  <2> QED
    BY <2>2 DEF A, B
<1>12. \A w \in Users : Left(ps[w]) <= Left(periods[w])
  <2> TAKE w \in Users
  <2>1. CASE w = v
    BY <1>5, <1>9, <2>1 DEF s
  <2>2. CASE w # v
    <3> DEFINE y == Left(periods[w])
    <3>1. y \in Nat /\ Left(ps[w]) = y
      BY <1>3, <1>5, <2>2, LeftIs
    <3> HIDE DEF y
    <3>2. y <= y
      BY <3>1
    <3> QED
      BY <3>1, <3>2 DEF y
  <2> QED
    BY <2>1, <2>2
<1>13. OwnCosts(o, x)
  BY <1>6, <1>9, <1>11, <1>12 DEF OwnCosts, s, b, n, v, ps
<1> QED
  BY <1>13

BonusCost(o) == IF Revoked(o) THEN BonusDays * Day ELSE 0

LEMMA RevokeLeft ==
  ASSUME PeriodsAssumption, PeriodsInv, NEW o \in Orders, status[o] = "paid"
  PROVE  /\ BonusCost(o) \in Nat
         /\ LeftOf(Own(o)) <= LeftOf(Revoke(o)) + BonusCost(o)
         /\ LeftOf(Own(o)) \in Nat /\ LeftOf(Revoke(o)) \in Nat
         /\ \A w \in Users : Left(Revoke(o)[w]) <= Left(Own(o)[w])
<1> DEFINE ps == Own(o)
           qs == Revoke(o)
           e == BonusCost(o)
<1>1. /\ ps \in [Users -> Seq(PeriodType)] /\ \A w \in Users : ListOK(ps[w])
      /\ qs \in [Users -> Seq(PeriodType)]
  BY OwnOK, RevokeOK DEF From
<1>2. now \in Nat
  BY InvFacts
<1>3. CASE Revoked(o)
  <2> DEFINE v == Inviter[Owner[o]]
             d == BonusDays
  <2>1. v \in Users /\ d \in Nat
    BY <1>3 DEF Revoked, PeriodsInv, BonusInv, PeriodsAssumption
  <2>2. qs = [ps EXCEPT ![v] = Taken(ps[v], d)]
    BY <1>3 DEF Revoke
  <2>3. e = d * Day
    BY <1>3 DEF BonusCost
  <2> HIDE DEF v, d, ps, qs, e
  <2>4. LET xs == [ps EXCEPT ![v] = Taken(ps[v], d)]
            c == Below(d * Day, Left(ps[v]))
        IN /\ LeftOf(xs) + c = LeftOf(ps) /\ LeftOf(xs) \in Nat /\ LeftOf(ps) \in Nat
           /\ Left(xs[v]) + c = Left(ps[v]) /\ Left(xs[v]) \in Nat
           /\ c \in Nat /\ TakenDays(ps[v], d) = c \div Day
           /\ \A w \in Users : w # v => xs[w] = ps[w]
           /\ \A w \in Users : Left(xs[w]) <= Left(ps[w])
    BY <1>1, <1>2, <2>1, TakenLeftOf
  <2> DEFINE c == Below(d * Day, Left(ps[v]))
             y == d * Day
             z == Left(ps[v])
  <2>5. /\ LeftOf(qs) + c = LeftOf(ps) /\ LeftOf(qs) \in Nat /\ LeftOf(ps) \in Nat
        /\ c \in Nat /\ \A w \in Users : Left(qs[w]) <= Left(ps[w])
    BY <2>2, <2>4
  <2>6. y \in Nat /\ z \in Nat /\ c = Below(y, z)
    <3>1. y \in Nat
      BY <2>1, TimesDay
    <3>2. z \in Nat
      BY <1>1, <1>2, <2>1, LeftIs
    <3> QED
      BY <3>1, <3>2
  <2> HIDE DEF c, z
  <2>7. c <= y
    <3> HIDE DEF y
    <3> QED
      BY <2>5, <2>6 DEF Below
  <2>8. LeftOf(ps) <= LeftOf(qs) + y
    <3> DEFINE A == LeftOf(ps)
               B == LeftOf(qs)
    <3>1. A \in Nat /\ B \in Nat /\ B + c = A /\ c \in Nat
      BY <2>5
    <3> HIDE DEF A, B, y
    <3>2. A <= B + y
      BY <2>6, <2>7, <3>1
    <3> QED
      BY <3>2 DEF A, B
  <2> HIDE DEF y
  <2>9. e = y
    BY <2>3 DEF y
  <2>10. /\ e \in Nat /\ LeftOf(ps) <= LeftOf(qs) + e /\ LeftOf(ps) \in Nat /\ LeftOf(qs) \in Nat
         /\ \A w \in Users : Left(qs[w]) <= Left(ps[w])
    BY <2>5, <2>6, <2>8, <2>9
  <2> QED
    BY <2>10 DEF e, ps, qs
<1>4. CASE ~Revoked(o)
  <2>1. qs = ps /\ e = 0
    BY <1>4 DEF Revoke, BonusCost
  <2>2. \A w \in Users : Left(ps[w]) \in Nat
    BY <1>1, <1>2, LeftIs
  <2> HIDE DEF ps, qs, e
  <2>3. LeftOf(ps) \in Nat
    BY <1>1, <1>2, LeftOfType
  <2>4. \A i \in Nat : i <= i /\ i <= i + 0
    OBVIOUS
  <2>5. /\ e \in Nat /\ LeftOf(ps) <= LeftOf(qs) + e /\ LeftOf(ps) \in Nat /\ LeftOf(qs) \in Nat
        /\ \A w \in Users : Left(qs[w]) <= Left(ps[w])
    BY <2>1, <2>2, <2>3, <2>4
  <2> QED
    BY <2>5 DEF e, ps, qs
<1> QED
  BY <1>3, <1>4

\* The days claimed back and what the period lost, less than a day over the term.
LEMMA UnpaidCost ==
  ASSUME PeriodsAssumption, NEW m \in Nat, NEW x \in Nat, x <= m * Day,
         NEW n, n = Above(0, m - x \div Day)
  PROVE  /\ n \in Nat /\ n * Day \in Nat /\ m * Day \in Nat
         /\ x + n * Day <= m * Day + (Day - 1)
<1> DEFINE d == x \div Day
           y == d * Day
           z == n * Day
           t == m * Day
<1>1. Day \in Nat /\ Day > 0
  BY TimesDay
<1>2. d \in Nat /\ y <= x /\ x < y + Day
  BY DivType
<1> HIDE DEF d
<1>3. y \in Nat /\ t \in Nat
  BY <1>2, TimesDay
<1>4. m < d => t + Day <= y
  BY <1>2, TimesDay
<1>5. x <= t
  OBVIOUS
<1> HIDE DEF y, t
<1>6. d <= m
  BY <1>1, <1>2, <1>3, <1>4, <1>5
<1>7. n = m - d /\ n \in Nat /\ n + d = m
  BY <1>2, <1>6 DEF Above, d
<1>8. (n + d) * Day = n * Day + d * Day
  BY <1>2, <1>7, TimesDay
<1>9. t = z + y
  BY <1>7, <1>8 DEF t, y
<1>10. z \in Nat
  BY <1>7, TimesDay
<1> HIDE DEF z
<1>11. x + z <= t + (Day - 1)
  BY <1>1, <1>2, <1>3, <1>9, <1>10
<1> QED
  BY <1>3, <1>7, <1>10, <1>11 DEF z, t

\* The days not counted: less than one for each receiver, the refunded period's
\* own included, because the last receiver is reached only when all is claimed.
LEMMA UncountedDays ==
  ASSUME PeriodsAssumption, NEW n \in Nat, NEW got \in Nat, got <= n,
         NEW i \in Nat, NEW k \in Nat, i + 1 <= k \/ (i = k /\ (got < n \/ n = 0)),
         NEW x \in Nat, NEW t \in Nat, x <= t, x + n * Day <= t + (Day - 1)
  PROVE  x + got * Day + i * (Day - 1) <= t + k * (Day - 1)
<1> DEFINE e == Day - 1
           a == n * Day
           g == got * Day
           p == i * e
           q == k * e
<1>1. Day \in Nat /\ Day > 0 /\ e \in Nat /\ e = Day - 1
  <2>1. Day \in Nat /\ Day > 0
    BY TimesDay
  <2> QED
    BY <2>1
<1>2. a \in Nat /\ g \in Nat /\ g <= a
  BY TimesDay
<1>3. got < n => g + Day <= a
  BY TimesDay
<1>4. n = 0 => g = 0
  <2>1. n = 0 => got = 0
    OBVIOUS
  <2>2. 0 * Day = 0
    BY <1>1
  <2> QED
    BY <2>1, <2>2
<1>5. x + a <= t + e
  OBVIOUS
<1> HIDE DEF e, a, g
<1>6. p \in Nat /\ q \in Nat /\ (i = k => p = q) /\ (i + 1 <= k => p + e <= q)
  <2>1. \A y \in Nat : \A c, d \in Nat : /\ c * y \in Nat
                                         /\ c + 1 <= d => c * y + y <= d * y
    <3> SUFFICES ASSUME NEW y \in Nat, NEW c \in Nat, NEW d \in Nat
                 PROVE  c * y \in Nat /\ (c + 1 <= d => c * y + y <= d * y)
      OBVIOUS
    <3>1. c * y \in Nat
      OBVIOUS
    <3>2. ASSUME c + 1 <= d PROVE c * y + y <= d * y
      <4> DEFINE j == d - (c + 1)
             l == c * y
             m == j * y
      <4>1. j \in Nat /\ d = c + 1 + j
        BY <3>2
      <4> HIDE DEF j
      <4>2. d * y = l + y + m
        BY <4>1
      <4>3. l \in Nat /\ m \in Nat
        BY <4>1
      <4> HIDE DEF l, m
      <4>4. l + y <= l + y + m
        BY <4>3
      <4>5. l + y <= d * y
        BY <4>2, <4>4
      <4> QED
        BY <4>5 DEF l
    <3> QED
      BY <3>1, <3>2
  <2> QED
    BY <1>1, <2>1
<1> HIDE DEF p, q
<1>7. i + 1 <= k => x + g + p <= t + q
  BY <1>1, <1>2, <1>5, <1>6
<1>8. i = k /\ n = 0 => x + g + p <= t + q
  BY <1>1, <1>2, <1>4, <1>6
<1>9. i = k /\ got < n => x + g + p <= t + q
  BY <1>1, <1>2, <1>3, <1>5, <1>6
<1>10. x + g + p <= t + q
  BY <1>7, <1>8, <1>9
<1> QED
  BY <1>10 DEF g, p, q, e

\* What a refund costs all accounts together.
Costs(o) == Term[o] * Day + BonusCost(o) + Cardinality(Receivers(Owner[o])) * (Day - 1)

LEMMA RefundLeft ==
  ASSUME PeriodsAssumption, PeriodsInv, NEW o \in Orders, status[o] = "paid"
  PROVE  /\ LeftOf(periods) <= LeftOf(Claw(o).periods) + Costs(o)
         /\ Costs(o) \in Nat
         /\ \A w \in Users : Left(Claw(o).periods[w]) <= Left(periods[w])
<1> DEFINE u == Owner[o]
           ps == Own(o)
           qs == Revoke(o)
           n == Unpaid(periods[Owner[o]], bought[o], Term[o])
           acc == ClawBack(qs, u, n)
           m == Term[o]
           rs == acc.periods
           b == BonusCost(o)
           k == Cardinality(Receivers(u))
           e == Day - 1
<1>1. periods \in [Users -> Seq(PeriodType)] /\ now \in Nat /\ transfers \in Seq(TransferType)
  BY InvFacts
<1>2. /\ From(periods, ps) /\ From(ps, qs) /\ n \in Nat /\ From(qs, Claw(o).periods)
      /\ ClawOK(qs, Claw(o))
  BY OwnOK, RevokeOK, ClawedOK
<1>3. Claw(o) = acc
  BY DEF Claw
<1>4. /\ ps \in [Users -> Seq(PeriodType)]
      /\ qs \in [Users -> Seq(PeriodType)] /\ \A w \in Users : ListOK(qs[w])
      /\ rs \in [Users -> Seq(PeriodType)] /\ acc.got \in Nat
  BY <1>2, <1>3 DEF From, ClawOK
<1>5. PICK x : OwnCosts(o, x)
  BY OwnLeft
<1>6. /\ x \in Nat /\ x <= m * Day /\ n = Above(0, m - x \div Day)
      /\ LeftOf(periods) <= LeftOf(ps) + x
      /\ \A w \in Users : Left(ps[w]) <= Left(periods[w])
  BY <1>5 DEF OwnCosts
<1>7. /\ b \in Nat /\ LeftOf(ps) <= LeftOf(qs) + b
      /\ \A w \in Users : Left(qs[w]) <= Left(ps[w])
  BY RevokeLeft
<1>8. m \in Nat
  BY DEF PeriodsAssumption
<1>9. ClawBound(qs, u, n, acc)
  <2> HIDE DEF qs, u, n
  <2> QED
    BY <1>1, <1>2, <1>4, ClawBackBound
<1> HIDE DEF u, ps, qs, n, acc, m, b
<1>10. /\ acc.got <= n
       /\ \A w \in Users : Left(rs[w]) <= Left(qs[w])
  BY <1>9 DEF ClawBound
<1>11. PICK R : Drained(qs, u, n, acc, R)
  BY <1>9 DEF ClawBound
<1> DEFINE i == Cardinality(R)
           g == acc.got * Day
           t == m * Day
<1>12. /\ R \subseteq Receivers(u)
       /\ R = Receivers(u) => acc.got < n \/ n = 0
       /\ LeftOf(qs) <= LeftOf(rs) + g + i * e
  BY <1>11 DEF Drained
<1>13. /\ i \in Nat /\ k \in Nat /\ (R # Receivers(u) => i + 1 <= k)
       /\ (R = Receivers(u) => i = k)
  BY <1>12, ReceiversFinite
<1>14. i + 1 <= k \/ (i = k /\ (acc.got < n \/ n = 0))
  BY <1>12, <1>13
<1>15. /\ n * Day \in Nat /\ t \in Nat /\ x + n * Day <= t + (Day - 1)
  BY <1>6, <1>8, UnpaidCost
<1> HIDE DEF i, k
<1>16. x + acc.got * Day + i * (Day - 1) <= m * Day + k * (Day - 1)
  <2>1. acc.got \in Nat /\ acc.got <= n /\ n \in Nat /\ i \in Nat /\ k \in Nat
    BY <1>2, <1>4, <1>10, <1>13
  <2>2. x \in Nat /\ x <= t
    BY <1>6
  <2> HIDE DEF t
  <2>3. x + acc.got * Day + i * (Day - 1) <= t + k * (Day - 1)
    BY <1>14, <1>15, <2>1, <2>2, UncountedDays
  <2> QED
    BY <2>3 DEF t
<1>17. g \in Nat /\ i * e \in Nat /\ k * e \in Nat
  <2>1. Day \in Nat /\ Day > 0
    BY TimesDay
  <2>2. e \in Nat
    BY <2>1
  <2>3. \A y, z \in Nat : y * z \in Nat
    OBVIOUS
  <2>4. g \in Nat
    BY <1>4, TimesDay
  <2> HIDE DEF e
  <2> QED
    BY <1>13, <2>2, <2>3, <2>4
<1> DEFINE A == LeftOf(periods)
           B == LeftOf(ps)
           C == LeftOf(qs)
           D == LeftOf(rs)
           p == i * e
           q == k * e
<1>18. A \in Nat /\ B \in Nat /\ C \in Nat /\ D \in Nat
  BY <1>1, <1>4, LeftOfType
<1>19. /\ A <= B + x /\ B <= C + b /\ C <= D + g + p /\ x + g + p <= t + q
       /\ x \in Nat /\ b \in Nat /\ g \in Nat /\ p \in Nat /\ q \in Nat /\ t \in Nat
  BY <1>6, <1>7, <1>12, <1>15, <1>16, <1>17
<1>20. Costs(o) = t + b + q
  BY DEF Costs, b, k, u, m
<1> HIDE DEF A, B, C, D, g, p, q, t
<1>21. A <= D + (t + b + q) /\ t + b + q \in Nat
  BY <1>18, <1>19
<1>22. \A w \in Users : Left(rs[w]) <= Left(periods[w])
  <2> TAKE w \in Users
  <2>1. Left(rs[w]) <= Left(qs[w]) /\ Left(qs[w]) <= Left(ps[w]) /\ Left(ps[w]) <= Left(periods[w])
    BY <1>6, <1>7, <1>10
  <2>2. /\ Left(rs[w]) \in Nat /\ Left(qs[w]) \in Nat /\ Left(ps[w]) \in Nat
        /\ Left(periods[w]) \in Nat
    BY <1>1, <1>4, LeftIs
  <2> DEFINE c1 == Left(rs[w])
             c2 == Left(qs[w])
             c3 == Left(ps[w])
             c4 == Left(periods[w])
  <2>3. /\ c1 \in Nat /\ c2 \in Nat /\ c3 \in Nat /\ c4 \in Nat
        /\ c1 <= c2 /\ c2 <= c3 /\ c3 <= c4
    BY <2>1, <2>2
  <2> HIDE DEF c1, c2, c3, c4
  <2>4. c1 <= c4
    BY <2>3
  <2> QED
    BY <2>4 DEF c1, c4
<1> QED
  BY <1>3, <1>20, <1>21, <1>22 DEF A, D

\* An account's balance is what it has left, unless it is paused.
LEMMA AheadLeft ==
  ASSUME PeriodsInv, NEW w \in Users
  PROVE  Ahead(w) \in Nat /\ (frozen[w] = NoTime => Ahead(w) = Left(periods[w]))
<1> DEFINE s == periods[w]
           at == Clock(w)
<1>1. s \in Seq(PeriodType) /\ at \in Int
  BY InvFacts
<1>2. Ahead(w) = Total(s, Kept(s), at)
  BY DEF Ahead
<1>3. frozen[w] = NoTime => at = now
  BY DEF Clock
<1> HIDE DEF s, at
<1>4. Kept(s) \in SUBSET (DOMAIN s)
  BY <1>1, Subsets
<1>5. Total(s, Kept(s), at) \in Nat
  BY <1>1, <1>4, TotalType
<1> QED
  BY <1>2, <1>3, <1>5 DEF Left, s

AheadType == \A w \in Users : Ahead(w) \in Nat

LEMMA AheadTyped == PeriodsInv => AheadType
BY AheadLeft DEF AheadType

LEMMA AheadTypedNext == PeriodsInv' => AheadType'
BY AheadTyped, PTL

\* What the accounts whose balance the book promises lose, of what all of them do.
LEMMA RefundLoss ==
  ASSUME PeriodsAssumption, PeriodsInv, PeriodsInv', NEW o \in Orders, Refund(o)
  PROVE  LET lost == [w \in Users |-> Above(0, Ahead(w) - Ahead(w)')]
         IN SumFunctionOnSet(lost, exact') <= Costs(o)
<1> DEFINE u == Owner[o]
           lost == [w \in Users |-> Above(0, Ahead(w) - Ahead(w)')]
           rs == periods'
           old == [w \in Users |-> Left(periods[w])]
           new == [w \in Users |-> Left(rs[w])]
           drop == [w \in Users |-> Left(periods[w]) - Left(rs[w])]
<1>1. /\ status[o] = "paid" /\ rs = Claw(o).periods
      /\ exact' = {w \in exact :
                     /\ ~(/\ frozen[w] # NoTime
                          /\ w \in {u} \union Claw(o).hit
                                     \union (IF Revoked(o) THEN {Inviter[u]} ELSE {}))
                     /\ ~(w = u /\ Queued(periods[u], bought[o]))}
      /\ now' = now /\ frozen' = frozen
  BY DEF Refund, Own, Revoked, Revoke, Claw
<1>2. exact' \subseteq Users /\ exact' \subseteq exact
  BY <1>1 DEF PeriodsInv, TypeOK
<1>3. \A w \in Users : Clock(w)' = Clock(w)
  BY <1>1 DEF Clock
<1>4. /\ periods \in [Users -> Seq(PeriodType)] /\ rs \in [Users -> Seq(PeriodType)]
      /\ now \in Nat
  <2>1. rs \in [Users -> Seq(PeriodType)]
    BY DEF PeriodsInv, TypeOK
  <2> QED
    BY <2>1, InvFacts
<1>5. /\ LeftOf(periods) <= LeftOf(rs) + Costs(o) /\ Costs(o) \in Nat
      /\ \A w \in Users : Left(rs[w]) <= Left(periods[w])
  BY <1>1, RefundLeft
<1>6. \A w \in Users : \/ rs[w] = periods[w] \/ w = u \/ w \in Claw(o).hit
                       \/ Revoked(o) /\ w = Inviter[u]
  BY <1>1, RefundDraws
<1>7. \A w \in Users : Ahead(w) \in Nat /\ Ahead(w)' \in Nat
  BY AheadTyped, AheadTypedNext DEF AheadType
<1> HIDE DEF u, rs
<1>8. \A w \in Users : Left(periods[w]) \in Nat /\ Left(rs[w]) \in Nat
  BY <1>4, LeftIs
<1>9. ASSUME NEW w \in Users PROVE old[w] \in Nat /\ new[w] \in Nat /\ drop[w] \in Nat
                                   /\ old[w] = drop[w] + new[w]
  <2> DEFINE a == Left(periods[w])
             b == Left(rs[w])
  <2>1. a \in Nat /\ b \in Nat /\ b <= a
    BY <1>5, <1>8
  <2>2. old[w] = a /\ new[w] = b /\ drop[w] = a - b
    OBVIOUS
  <2> HIDE DEF a, b, old, new, drop
  <2> QED
    BY <2>1, <2>2
<1>10. ASSUME NEW w \in Users PROVE lost[w] \in Nat
  <2> DEFINE a == Ahead(w)
             b == Ahead(w)'
  <2>1. a \in Nat /\ b \in Nat /\ lost[w] = Above(0, a - b)
    BY <1>7
  <2> HIDE DEF a, b, lost
  <2> QED
    BY <2>1 DEF Above
<1>11. ASSUME NEW w \in exact' PROVE lost[w] <= drop[w]
  <2>1. w \in Users
    BY <1>2
  <2> DEFINE a == Ahead(w)
             b == Ahead(w)'
             l == Left(periods[w])
             r == Left(rs[w])
             d == drop[w]
             e == lost[w]
  <2>2. a \in Nat /\ b \in Nat /\ e = Above(0, a - b) /\ d = l - r
    BY <1>7, <2>1
  <2>3. l \in Nat /\ r \in Nat /\ r <= l
    BY <1>5, <1>8, <2>1
  <2>4. a = b \/ (a = l /\ b = r)
    <3>1. CASE frozen[w] # NoTime
      <4>1. rs[w] = periods[w]
        BY <1>1, <1>6, <2>1, <3>1
      <4>2. b = Total(rs[w], Kept(rs[w]), Clock(w))
        BY <1>3, <2>1 DEF Ahead, rs, Kept
      <4>3. a = Total(periods[w], Kept(periods[w]), Clock(w))
        BY DEF Ahead
      <4> HIDE DEF a, b
      <4> QED
        BY <4>1, <4>2, <4>3
    <3>2. CASE frozen[w] = NoTime
      <4>1. a = l
        BY <2>1, <3>2, AheadLeft
      <4>2. Clock(w) = now
        BY <3>2 DEF Clock
      <4>3. b = Total(rs[w], Kept(rs[w]), Clock(w))
        BY <1>3, <2>1 DEF Ahead, rs, Kept
      <4>4. b = r
        BY <4>2, <4>3 DEF Left
      <4> QED
        BY <4>1, <4>4
    <3> QED
      BY <3>1, <3>2
  <2> HIDE DEF a, b, l, r, d, e
  <2>5. e <= d
    BY <2>2, <2>3, <2>4 DEF Above
  <2> QED
    BY <2>5 DEF d, e
<1>12. IsFiniteSet(Users)
  BY DEF PeriodsAssumption
<1>13. LeftOf(periods) = SumFunctionOnSet(old, Users) /\ LeftOf(rs) = SumFunctionOnSet(new, Users)
  BY DEF LeftOf
<1> DEFINE E == exact'
<1>14. E \in SUBSET Users /\ \A w \in E : lost[w] <= drop[w]
  BY <1>2, <1>11
<1> HIDE DEF old, new, drop, lost, E
<1>15. SumFunctionOnSet(old, Users)
         = SumFunctionOnSet(drop, Users) + SumFunctionOnSet(new, Users)
  BY <1>9, <1>12, SumPlus
<1>16. SumFunctionOnSet(lost, E) <= SumFunctionOnSet(drop, Users)
  BY <1>9, <1>10, <1>12, <1>14, SumGrows
<1>17. /\ SumFunctionOnSet(new, Users) \in Nat /\ SumFunctionOnSet(drop, Users) \in Nat
       /\ SumFunctionOnSet(lost, E) \in Nat
  <2>1. IsFiniteSet(E) /\ \A w \in E : lost[w] \in Nat
    BY <1>10, <1>12, <1>14, FS_Subset
  <2>2. SumFunctionOnSet(lost, E) \in Nat
    BY <2>1, SumType
  <2>3. SumFunctionOnSet(new, Users) \in Nat /\ SumFunctionOnSet(drop, Users) \in Nat
    BY <1>9, <1>12, SumType
  <2> QED
    BY <2>2, <2>3
<1>18. SumFunctionOnSet(lost, E) <= Costs(o)
  <2> DEFINE a == SumFunctionOnSet(new, Users)
             b == SumFunctionOnSet(drop, Users)
             c == SumFunctionOnSet(lost, E)
             d == Costs(o)
  <2>1. /\ a \in Nat /\ b \in Nat /\ c \in Nat /\ d \in Nat
        /\ b + a <= a + d /\ c <= b
    BY <1>5, <1>13, <1>15, <1>16, <1>17
  <2> HIDE DEF a, b, c, d
  <2>2. c <= d
    BY <2>1
  <2> QED
    BY <2>2 DEF c, d
<1> QED
  BY <1>18 DEF lost, E

\* A refund costs all accounts together no more than the days refunded and the
\* inviter's bonus, give or take less than a day for each receiver.
THEOREM RefundCorrect == Spec => RefundIsBounded
<1> DEFINE Bounded(o) ==
             LET u == Owner[o]
                 lost == [w \in Users |-> Above(0, Ahead(w) - Ahead(w)')]
                 loss == SumFunctionOnSet(lost, exact')
                 bonusLoss == IF bonus'[u] = bonus[u] THEN 0 ELSE BonusDays * Day
                 receivers == {w \in Users : \E k \in DOMAIN transfers :
                                              transfers[k].from = u /\ transfers[k].to = w}
             IN loss <= Term[o] * Day + bonusLoss + Cardinality(receivers) * (Day - 1)
           Keeps == \A o \in Orders : status[o] = "paid" /\ status'[o] = "refunded" => Bounded(o)
<1>1. PeriodsInv /\ PeriodsInv' /\ [Next]_vars => [Keeps]_vars
  <2> SUFFICES ASSUME PeriodsInv, PeriodsInv', Next, NEW o \in Orders,
                      status[o] = "paid", status'[o] = "refunded"
               PROVE  Bounded(o)
    OBVIOUS
  <2> HIDE DEF Bounded
  <2>1. Refund(o)
    <3>1. PICK q \in Orders : Refund(q) \/ \E plan \in Plans : Fulfil(q, plan)
      BY DEF Next, Tick, ClaimBonus, GrantBonus, LoseBonus, Give, Transfer, Freeze, Resume
    <3>2. status \in [Orders -> {"pending", "paid", "refunded"}]
      BY DEF PeriodsInv, TypeOK
    <3>3. CASE Refund(q)
      <4>1. status' = [status EXCEPT ![q] = "refunded"]
        BY <3>3 DEF Refund
      <4>2. o = q
        BY <3>2, <4>1
      <4> QED
        BY <3>3, <4>2
    <3>4. CASE \E plan \in Plans : Fulfil(q, plan)
      <4>1. status' = [status EXCEPT ![q] = "paid"]
        BY <3>4 DEF Fulfil
      <4>2. status'[o] = "paid"
        BY <3>2, <4>1
      <4> QED
        BY <4>2
    <3> QED
      BY <3>1, <3>3, <3>4
  <2>2. LET lost == [w \in Users |-> Above(0, Ahead(w) - Ahead(w)')]
        IN SumFunctionOnSet(lost, exact') <= Costs(o)
    BY <2>1, PeriodsAssumption, RefundLoss
  <2>3. BonusCost(o) = IF bonus'[Owner[o]] = bonus[Owner[o]] THEN 0 ELSE BonusDays * Day
    <3> DEFINE u == Owner[o]
    <3>1. u \in Users /\ bonus \in [Users -> {"none", "claimed", "granted", "revoked", "late"}]
      BY PeriodsAssumption DEF PeriodsInv, TypeOK, PeriodsAssumption
    <3>2. bonus' = [bonus EXCEPT ![u] = CASE @ = "claimed" -> "late"
                                          [] @ = "granted" -> "revoked"
                                          [] OTHER -> @]
      BY <2>1 DEF Refund
    <3> HIDE DEF u
    <3>3. bonus'[u] = bonus[u] <=> bonus[u] \notin {"claimed", "granted"}
      BY <3>1, <3>2
    <3> QED
      BY <3>3, Zenon DEF BonusCost, Revoked, u
  <2> QED
    BY <2>2, <2>3 DEF Bounded, Costs, Receivers
<1>2. RefundIsBounded <=> [][Keeps]_vars
  BY DEF RefundIsBounded
<1> HIDE DEF Keeps
<1> QED
  BY <1>1, <1>2, InvariantCorrect, PTL DEF Spec

--------------------------------------------------------------------------------
(* Transfers                                                               *)

\* A transfer cuts what it was asked to: TakenDays says so.
LEMMA SentLeft ==
  ASSUME PeriodsAssumption, NEW s, ListOK(s), now \in Nat, NEW n \in Nat, TakenDays(s, n) = n
  PROVE  Left(Taken(s, n)) = Left(s) - n * Day
<1> DEFINE r == Taken(s, n)
           x == Left(s)
           y == Left(r)
           c == Below(n * Day, x)
           d == c \div Day
           t == n * Day
<1>1. y + c = x /\ d = n /\ y \in Nat /\ x \in Nat /\ c \in Nat
  BY TakenLeft
<1>2. t \in Nat /\ c = Below(t, x)
  BY TimesDay
<1> HIDE DEF c
<1>3. d * Day <= c
  BY <1>1, DivType
<1>4. t <= c
  BY <1>1, <1>3
<1> HIDE DEF x, y, d, t
<1>5. c = t
  BY <1>1, <1>2, <1>4 DEF Below
<1>6. y = x - t
  BY <1>1, <1>2, <1>5
<1> QED
  BY <1>6 DEF y, x, t, r

LEMMA ReceivedLeft ==
  ASSUME PeriodsAssumption, NEW s, ListOK(s), now \in Nat, NEW n \in Nat \ {0}
  PROVE  Left(Gifted(s, n)) = Left(s) + n * Day
<1> DEFINE r == Gifted(s, n)
<1>1. DaysOf(r, now) = DaysOf(s, now) + n * Day /\ TrialOf(r, now) = TrialOf(s, now)
  BY GiftedBalance
<1>2. s \in Seq(PeriodType) /\ r \in Seq(PeriodType)
  BY GiftedOK DEF ListOK
<1> HIDE DEF r
<1>3. /\ Left(s) = DaysOf(s, now) + TrialOf(s, now)
      /\ Left(r) = DaysOf(r, now) + TrialOf(r, now)
  BY <1>2, LeftIs
<1>4. DaysOf(s, now) \in Nat /\ TrialOf(s, now) \in Nat /\ n * Day \in Nat
  <2>1. now \in Int
    OBVIOUS
  <2> QED
    BY <1>2, <2>1, BalanceType, DaysType
<1> DEFINE t == n * Day
<1>5. t \in Nat /\ DaysOf(r, now) = DaysOf(s, now) + t
  BY <1>1, <1>4
<1> HIDE DEF t
<1>6. Left(r) = Left(s) + t
  BY <1>1, <1>3, <1>4, <1>5
<1> QED
  BY <1>6 DEF r, t

\* TransferIsExact but for accounts on pause.
RunningTransferIsExact ==
  [][\A u, v \in Users :
       /\ Len(transfers') > Len(transfers)
       /\ transfers'[Len(transfers')].from = u
       /\ transfers'[Len(transfers')].to = v
       /\ frozen[u] = NoTime /\ frozen[v] = NoTime
       => LET n == transfers'[Len(transfers')].days * Day
          IN Ahead(u)' = Ahead(u) - n /\ Ahead(v)' = Ahead(v) + n]_vars

LEMMA TransferMoves ==
  ASSUME PeriodsAssumption, PeriodsInv, NEW u \in Users, NEW v \in Users, NEW n \in DayCounts,
         Transfer(u, v, n), frozen[u] = NoTime, frozen[v] = NoTime
  PROVE  Ahead(u)' = Ahead(u) - n * Day /\ Ahead(v)' = Ahead(v) + n * Day
<1>1. /\ u # v /\ TakenDays(periods[u], n) = n /\ now' = now /\ frozen' = frozen
      /\ periods' = [periods EXCEPT ![u] = Taken(@, n), ![v] = Gifted(@, n)]
  BY DEF Transfer
<1>2. /\ now \in Nat /\ ListOK(periods[u]) /\ ListOK(periods[v])
      /\ periods \in [Users -> Seq(PeriodType)]
  BY InvFacts
<1>3. n \in Nat \ {0}
  BY DEF DayCounts, PeriodsAssumption
<1>4. periods'[u] = Taken(periods[u], n) /\ periods'[v] = Gifted(periods[v], n)
  BY <1>1, <1>2
<1>5. ASSUME NEW w \in Users, frozen[w] = NoTime
      PROVE  Ahead(w) = Left(periods[w]) /\ Ahead(w)' = Left(periods'[w])
  <2>1. Clock(w) = now /\ Clock(w)' = now
    BY <1>1, <1>5 DEF Clock
  <2> QED
    BY <2>1 DEF Ahead, Left, Kept
<1> DEFINE s == periods[u]
           r == periods[v]
<1>6. Left(Taken(s, n)) = Left(s) - n * Day
  <2>1. ListOK(s) /\ TakenDays(s, n) = n /\ n \in Nat
    BY <1>1, <1>2, <1>3
  <2> HIDE DEF s
  <2> QED
    BY <1>2, <2>1, SentLeft
<1>7. Left(Gifted(r, n)) = Left(r) + n * Day
  <2>1. ListOK(r)
    BY <1>2
  <2> HIDE DEF r
  <2> QED
    BY <1>2, <1>3, <2>1, ReceivedLeft
<1> QED
  BY <1>4, <1>5, <1>6, <1>7

\* A transfer between accounts that are not on pause takes from the sender what
\* it gives to the receiver, and both are the days agreed on, whatever the
\* periods they are cut from and put behind (_do_transfer): the pause is the
\* only case in which TransferIsExact fails.
THEOREM TransferCorrect == Spec => RunningTransferIsExact
<1> DEFINE Moved(u, v) ==
             LET n == transfers'[Len(transfers')].days * Day
             IN Ahead(u)' = Ahead(u) - n /\ Ahead(v)' = Ahead(v) + n
           Keeps == \A u, v \in Users :
                      /\ Len(transfers') > Len(transfers)
                      /\ transfers'[Len(transfers')].from = u
                      /\ transfers'[Len(transfers')].to = v
                      /\ frozen[u] = NoTime /\ frozen[v] = NoTime
                      => Moved(u, v)
<1>1. PeriodsInv /\ [Next]_vars => [Keeps]_vars
  <2> SUFFICES ASSUME PeriodsInv, Next, NEW u \in Users, NEW v \in Users,
                      Len(transfers') > Len(transfers),
                      transfers'[Len(transfers')].from = u,
                      transfers'[Len(transfers')].to = v,
                      frozen[u] = NoTime, frozen[v] = NoTime
               PROVE  Moved(u, v)
    OBVIOUS
  <2>1. transfers \in Seq(TransferType) /\ Len(transfers) \in Nat
    BY InvFacts
  <2>2. \A o \in Orders : ~Refund(o)
    <3> SUFFICES ASSUME NEW o \in Orders, Refund(o) PROVE FALSE
      OBVIOUS
    <3>1. status[o] = "paid" /\ transfers' = Claw(o).transfers
      BY DEF Refund, Own, Revoked, Revoke, Claw
    <3>2. Len(Claw(o).transfers) = Len(transfers)
      BY <3>1, PeriodsAssumption, ClawedOK DEF ClawOK
    <3> QED
      BY <2>1, <3>1, <3>2
  <2>3. transfers' # transfers
    BY <2>1
  <2>4. PICK x, y \in Users, n \in DayCounts : Transfer(x, y, n)
    BY <2>2, <2>3 DEF Next, Tick, Fulfil, ClaimBonus, GrantBonus, LoseBonus, Give, Freeze, Resume
  <2> DEFINE t == [from |-> x, to |-> y, days |-> n, reverted |-> 0]
  <2>5. transfers' = Append(transfers, t)
    BY <2>4 DEF Transfer
  <2>6. t.from = x /\ t.to = y /\ t.days = n
    OBVIOUS
  <2> HIDE DEF t
  <2>7. transfers'[Len(transfers')] = t
    BY <2>1, <2>5
  <2>8. x = u /\ y = v /\ transfers'[Len(transfers')].days = n
    BY <2>6, <2>7
  <2>9. Ahead(u)' = Ahead(u) - n * Day /\ Ahead(v)' = Ahead(v) + n * Day
    BY <2>4, <2>8, PeriodsAssumption, TransferMoves
  <2> QED
    BY <2>8, <2>9
<1>2. RunningTransferIsExact <=> [][Keeps]_vars
  BY DEF RunningTransferIsExact
<1> HIDE DEF Keeps
<1> QED
  BY <1>1, <1>2, InvariantCorrect, PTL DEF Spec
================================================================================
