-------------------------- MODULE PeriodsBook_proofs ---------------------------
(***************************************************************************)
(* Periods implements DayBook: every operation on the periods of an        *)
(* account posts to its balance what it promises.                          *)
(*                                                                         *)
(* The balance is a sum over the account's periods.  What makes it one is  *)
(* Whole: an account whose balance is exact has no gap before a period     *)
(* that waits, and no days of a purchase and given days ahead at once.     *)
(***************************************************************************)
EXTENDS Periods_proofs

--------------------------------------------------------------------------------
(* Balances                                                                *)

Trials(s) == {i \in Kept(s) : s[i].kind = "trial"}
Others(s) == {i \in Kept(s) : s[i].kind # "trial"}
TrialOf(s, at) == Total(s, Trials(s), at)
DaysOf(s, at) == Total(s, Others(s), at)

\* A period that waits begins when another one ends.
NoGap(s, at) ==
  \A i \in Kept(s) : s[i].starts > at => \E j \in Kept(s) : s[j].ends = s[i].starts

\* Of what is bought and what is not, only one is ahead.
FreeApart(s, at) ==
  \A i, j \in Kept(s) :
    s[i].kind = "paid" /\ s[j].kind # "paid" => s[i].ends <= at \/ s[j].ends <= at

Whole(s, at) == NoGap(s, at) /\ FreeApart(s, at)

ExactInv == \A u \in exact : Whole(periods[u], Clock(u))

BookInv == PeriodsInv /\ ExactInv

LEMMA Subsets ==
  ASSUME NEW s \in Seq(PeriodType)
  PROVE  /\ Kept(s) \in SUBSET (DOMAIN s) /\ Trials(s) \in SUBSET (DOMAIN s)
         /\ Others(s) \in SUBSET (DOMAIN s)
         /\ IsFiniteSet(Kept(s)) /\ IsFiniteSet(Trials(s)) /\ IsFiniteSet(Others(s))
         /\ Kept(s) = Trials(s) \union Others(s) /\ Trials(s) \intersect Others(s) = {}
<1>1. /\ Kept(s) \subseteq DOMAIN s /\ Trials(s) \subseteq DOMAIN s /\ Others(s) \subseteq DOMAIN s
      /\ Kept(s) = Trials(s) \union Others(s) /\ Trials(s) \intersect Others(s) = {}
  BY DEF Kept, Trials, Others
<1>2. \A I \in SUBSET (DOMAIN s) : IsFiniteSet(I)
  BY ListFields, FS_Subset
<1> QED
  BY <1>1, <1>2

LEMMA BalanceType ==
  ASSUME NEW s \in Seq(PeriodType), NEW at \in Int
  PROVE  DaysOf(s, at) \in Nat /\ TrialOf(s, at) \in Nat
BY Subsets, TotalType DEF DaysOf, TrialOf

\* Sums over parts of lists.
LEMMA TotalSame ==
  ASSUME NEW s \in Seq(PeriodType), NEW r \in Seq(PeriodType), NEW at \in Int, NEW bt \in Int,
         NEW I \in SUBSET (DOMAIN s), I \in SUBSET (DOMAIN r),
         \A i \in I : Rest(s[i], at) = Rest(r[i], bt)
  PROVE  Total(s, I, at) = Total(r, I, bt)
<1> DEFINE f == Rests(s, at)
           g == Rests(r, bt)
<1>1. IsFiniteSet(I) /\ \A i \in I : f[i] \in Nat /\ f[i] = Rest(s[i], at) /\ g[i] = Rest(r[i], bt)
  BY TotalType, RestsType
<1> HIDE DEF f, g
<1>2. IsFiniteSet(I) /\ \A i \in I : f[i] \in Nat /\ f[i] = g[i]
  BY <1>1
<1>3. SumFunctionOnSet(f, I) = SumFunctionOnSet(g, I)
  BY <1>2, SumSame
<1> QED
  BY <1>3 DEF f, g, Total

LEMMA TotalAdd ==
  ASSUME NEW s \in Seq(PeriodType), NEW at \in Int, NEW I \in SUBSET (DOMAIN s), NEW x \in I
  PROVE  /\ Total(s, I, at) = Rest(s[x], at) + Total(s, I \ {x}, at)
         /\ Rest(s[x], at) \in Nat /\ Total(s, I \ {x}, at) \in Nat
<1> DEFINE f == Rests(s, at)
<1>1. IsFiniteSet(I) /\ \A i \in I : f[i] \in Nat /\ f[i] = Rest(s[i], at)
  BY TotalType, RestsType
<1>2. I \ {x} \in SUBSET (DOMAIN s)
  OBVIOUS
<1>3. Total(s, I \ {x}, at) \in Nat
  BY <1>2, TotalType
<1> HIDE DEF f
<1>4. SumFunctionOnSet(f, I) = f[x] + SumFunctionOnSet(f, I \ {x})
  BY <1>1, SumAdd
<1> QED
  BY <1>1, <1>3, <1>4 DEF f, Total

LEMMA TotalUnion ==
  ASSUME NEW s \in Seq(PeriodType), NEW at \in Int,
         NEW I \in SUBSET (DOMAIN s), NEW J \in SUBSET (DOMAIN s), I \intersect J = {}
  PROVE  /\ Total(s, I \union J, at) = Total(s, I, at) + Total(s, J, at)
         /\ Total(s, I, at) \in Nat /\ Total(s, J, at) \in Nat
<1> DEFINE f == Rests(s, at)
<1>1. /\ IsFiniteSet(I) /\ IsFiniteSet(J)
      /\ Total(s, I, at) \in Nat /\ Total(s, J, at) \in Nat
  BY TotalType
<1>2. \A i \in I \union J : f[i] \in Nat
  BY RestsType
<1> HIDE DEF f
<1>3. SumFunctionOnSet(f, I \union J) = SumFunctionOnSet(f, I) + SumFunctionOnSet(f, J)
  BY <1>1, <1>2, SumUnion
<1> QED
  BY <1>1, <1>3 DEF f, Total

LEMMA TotalZero ==
  ASSUME NEW s \in Seq(PeriodType), NEW at \in Int, NEW I \in SUBSET (DOMAIN s),
         \A i \in I : Rest(s[i], at) = 0
  PROVE  Total(s, I, at) = 0
<1> DEFINE f == Rests(s, at)
<1>1. IsFiniteSet(I) /\ \A i \in I : f[i] = 0
  BY TotalType, RestsType
<1> HIDE DEF f
<1>2. SumFunctionOnSet(f, I) = 0
  BY <1>1, SumZero
<1> QED
  BY <1>2 DEF f, Total

LEMMA TotalGrows ==
  ASSUME NEW s \in Seq(PeriodType), NEW r \in Seq(PeriodType), NEW at \in Int, NEW bt \in Int,
         NEW J \in SUBSET (DOMAIN s), NEW I \in SUBSET (DOMAIN r), J \subseteq I,
         \A i \in J : Rest(s[i], at) <= Rest(r[i], bt)
  PROVE  Total(s, J, at) <= Total(r, I, bt)
<1>1. J \in SUBSET (DOMAIN r)
  OBVIOUS
<1>2. Total(s, J, at) <= Total(r, J, bt)
  <2> DEFINE f == Rests(s, at)
             g == Rests(r, bt)
  <2>1. IsFiniteSet(J) /\ J \in SUBSET J /\ \A i \in J : f[i] \in Nat /\ f[i] = Rest(s[i], at)
    BY TotalType, RestsType
  <2>2. \A i \in J : g[i] \in Nat /\ g[i] = Rest(r[i], bt)
    BY <1>1, RestsType
  <2> HIDE DEF f, g
  <2>3. \A i \in J : f[i] \in Nat /\ g[i] \in Nat /\ f[i] <= g[i]
    BY <2>1, <2>2
  <2>4. \A i \in J : f[i] \in Nat /\ g[i] \in Nat
    BY <2>3
  <2>5. \A i \in J : f[i] <= g[i]
    BY <2>3
  <2>6. SumFunctionOnSet(f, J) <= SumFunctionOnSet(g, J)
    BY <2>1, <2>4, <2>5, SumGrows
  <2> QED
    BY <2>6 DEF f, g, Total
<1>3. Total(r, J, bt) <= Total(r, I, bt)
  <2>1. J \union (I \ J) = I /\ I \ J \in SUBSET (DOMAIN r) /\ J \intersect (I \ J) = {}
    OBVIOUS
  <2> DEFINE K == I \ J
  <2>2. J \union K = I /\ K \in SUBSET (DOMAIN r) /\ J \intersect K = {}
    BY <2>1
  <2> HIDE DEF K
  <2>3. /\ Total(r, J \union K, bt) = Total(r, J, bt) + Total(r, K, bt)
        /\ Total(r, J, bt) \in Nat /\ Total(r, K, bt) \in Nat
    BY <1>1, <2>2, TotalUnion
  <2>4. Total(r, I, bt) = Total(r, J, bt) + Total(r, K, bt)
    BY <2>2, <2>3
  <2> QED
    BY <2>3, <2>4
<1>4. Total(s, J, at) \in Nat /\ Total(r, J, bt) \in Nat /\ Total(r, I, bt) \in Nat
  BY <1>1, TotalType
<1> QED
  BY <1>2, <1>3, <1>4

LEMMA TotalChange ==
  ASSUME NEW s \in Seq(PeriodType), NEW r \in Seq(PeriodType), NEW at \in Int,
         NEW I \in SUBSET (DOMAIN s), I \in SUBSET (DOMAIN r), NEW x \in I,
         \A i \in I \ {x} : Rest(s[i], at) = Rest(r[i], at)
  PROVE  Total(r, I, at) + Rest(s[x], at) = Total(s, I, at) + Rest(r[x], at)
<1> DEFINE J == I \ {x}
<1>1. J \in SUBSET (DOMAIN s) /\ J \in SUBSET (DOMAIN r)
  OBVIOUS
<1>2. \A i \in J : Rest(s[i], at) = Rest(r[i], at)
  OBVIOUS
<1>3. /\ Total(s, I, at) = Rest(s[x], at) + Total(s, J, at)
      /\ Rest(s[x], at) \in Nat /\ Total(s, J, at) \in Nat
  BY TotalAdd
<1>4. /\ Total(r, I, at) = Rest(r[x], at) + Total(r, J, at)
      /\ Rest(r[x], at) \in Nat /\ Total(r, J, at) \in Nat
  BY TotalAdd
<1> HIDE DEF J
<1>5. Total(s, J, at) = Total(r, J, at)
  BY <1>1, <1>2, TotalSame
<1> QED
  BY <1>3, <1>4, <1>5

\* The balances of an account are sums over its list.
LEMMA AheadIs ==
  ASSUME PeriodsInv, NEW u \in Users
  PROVE  /\ TrialAhead(u) = TrialOf(periods[u], Clock(u))
         /\ Ahead(u) - TrialAhead(u) = DaysOf(periods[u], Clock(u))
<1> DEFINE s == periods[u]
           at == Clock(u)
<1>1. s \in Seq(PeriodType) /\ at \in Int
  BY InvFacts
<1>2. TrialAhead(u) = TrialOf(s, at) /\ Ahead(u) = Total(s, Kept(s), at)
  BY DEF TrialAhead, TrialOf, Trials, Ahead
<1> HIDE DEF s, at
<1> DEFINE I == Trials(s)
           J == Others(s)
<1>3. Kept(s) = I \union J /\ I \in SUBSET (DOMAIN s) /\ J \in SUBSET (DOMAIN s) /\ I \intersect J = {}
  BY <1>1, Subsets
<1>4. TrialOf(s, at) = Total(s, I, at) /\ DaysOf(s, at) = Total(s, J, at)
  BY DEF TrialOf, DaysOf
<1> HIDE DEF I, J
<1>5. /\ Total(s, I \union J, at) = Total(s, I, at) + Total(s, J, at)
      /\ Total(s, I, at) \in Nat /\ Total(s, J, at) \in Nat
  BY <1>1, <1>3, TotalUnion
<1>6. Ahead(u) = Total(s, I, at) + Total(s, J, at)
  BY <1>2, <1>3, <1>5
<1>7. TrialAhead(u) = TrialOf(s, at) /\ Ahead(u) - TrialAhead(u) = DaysOf(s, at)
  BY <1>2, <1>4, <1>5, <1>6
<1> QED
  BY <1>7 DEF s, at

--------------------------------------------------------------------------------
(* Time                                                                    *)

Runs(p, at) == p.starts <= at /\ at < p.ends

LEMMA RestTick ==
  ASSUME NEW p \in PeriodType, NEW at \in Nat
  PROVE  /\ Runs(p, at) => Rest(p, at + 1) = Rest(p, at) - 1 /\ Rest(p, at) > 0
         /\ ~Runs(p, at) => Rest(p, at + 1) = Rest(p, at)
         /\ Rest(p, at) > 0 => p.ends > at
         /\ p.ends <= at => Rest(p, at) = 0
BY PeriodFields DEF Runs, Rest, Above

LEMMA OneRuns ==
  ASSUME NEW s, ListOK(s), NEW at \in Nat, NEW i \in Kept(s), NEW j \in Kept(s),
         Runs(s[i], at), Runs(s[j], at)
  PROVE  i = j
<1>1. /\ s[i].starts \in Nat /\ s[i].ends \in Nat /\ s[j].starts \in Nat /\ s[j].ends \in Nat
  BY ListFields DEF ListOK, Kept
<1>2. i = j \/ s[i].ends <= s[j].starts \/ s[j].ends <= s[i].starts
  BY DEF ListOK, Apart
<1> QED
  BY <1>1, <1>2 DEF Runs

\* While time is left, a period runs: the first of those ahead.
LEMMA FirstRuns ==
  ASSUME NEW s, ListOK(s), NEW at \in Nat, NoGap(s, at), NEW i \in Kept(s), s[i].ends > at
  PROVE  \E j \in Kept(s) : Runs(s[j], at)
<1> DEFINE I == {k \in Kept(s) : s[k].ends > at}
           f == [k \in I |-> 0 - s[k].starts]
<1>1. s \in Seq(PeriodType)
  BY DEF ListOK
<1>2. \A k \in Kept(s) : s[k].starts \in Nat /\ s[k].ends \in Nat
  BY <1>1, ListFields DEF Kept
<1>3. IsFiniteSet(I) /\ I # {}
  <2>1. I \subseteq Kept(s) /\ IsFiniteSet(Kept(s))
    BY <1>1, Subsets
  <2> QED
    BY <2>1, FS_Subset
<1>4. \A k \in I : f[k] = 0 - s[k].starts /\ f[k] \in Int
  BY <1>2
<1>5. PICK j \in I : \A k \in I : f[k] <= f[j]
  <2> HIDE DEF I, f
  <2> QED
    BY <1>3, <1>4, Largest
<1> HIDE DEF f
<1>6. \A k \in I : s[j].starts <= s[k].starts
  BY <1>2, <1>4, <1>5
<1>7. ~(s[j].starts > at)
  <2> SUFFICES ASSUME s[j].starts > at PROVE FALSE
    OBVIOUS
  <2>1. PICK k \in Kept(s) : s[k].ends = s[j].starts
    BY <1>5 DEF NoGap
  <2>2. k \in I
    BY <2>1
  <2>3. s[k].starts < s[k].ends
    BY DEF ListOK, Apart
  <2> QED
    BY <1>2, <1>5, <1>6, <2>1, <2>2, <2>3
<1> QED
  BY <1>2, <1>5, <1>7 DEF Runs

\* A tick of time costs a part of the list one tick if it holds what runs.
LEMMA TotalIdle ==
  ASSUME NEW s, ListOK(s), NEW at \in Nat, NEW I \in SUBSET Kept(s),
         \A i \in I : ~Runs(s[i], at)
  PROVE  Total(s, I, at + 1) = Total(s, I, at)
<1>1. s \in Seq(PeriodType) /\ I \in SUBSET (DOMAIN s) /\ at \in Int /\ at + 1 \in Int
  BY DEF ListOK, Kept
<1> DEFINE bt == at + 1
<1>2. \A i \in I : Rest(s[i], at) = Rest(s[i], bt)
  <2> TAKE i \in I
  <2>1. s[i] \in PeriodType
    BY <1>1, ListFields
  <2> QED
    BY <2>1, RestTick
<1>3. bt \in Int
  OBVIOUS
<1> HIDE DEF bt
<1>4. Total(s, I, at) = Total(s, I, bt)
  BY <1>1, <1>2, <1>3, TotalSame
<1> QED
  BY <1>4 DEF bt

LEMMA TotalBurns ==
  ASSUME NEW s, ListOK(s), NEW at \in Nat, NEW I \in SUBSET Kept(s),
         NEW x \in I, Runs(s[x], at)
  PROVE  Total(s, I, at + 1) = Total(s, I, at) - 1 /\ Total(s, I, at) > 0
<1>1. s \in Seq(PeriodType) /\ I \in SUBSET (DOMAIN s) /\ at \in Int /\ at + 1 \in Int
  BY DEF ListOK, Kept
<1> DEFINE J == I \ {x}
           bt == at + 1
<1>2. \A i \in J : ~Runs(s[i], at)
  BY OneRuns
<1>3. J \in SUBSET Kept(s) /\ bt \in Int
  OBVIOUS
<1>4. /\ Total(s, I, at) = Rest(s[x], at) + Total(s, J, at)
      /\ Rest(s[x], at) \in Nat /\ Total(s, J, at) \in Nat
  BY <1>1, TotalAdd
<1>5. Rest(s[x], bt) = Rest(s[x], at) - 1 /\ Rest(s[x], at) > 0
  <2>1. s[x] \in PeriodType
    BY <1>1, ListFields
  <2> QED
    BY <2>1, RestTick
<1>6. /\ Total(s, I, bt) = Rest(s[x], bt) + Total(s, J, bt)
      /\ Rest(s[x], bt) \in Nat /\ Total(s, J, bt) \in Nat
  <2> HIDE DEF bt
  <2> QED
    BY <1>1, <1>3, TotalAdd
<1> HIDE DEF J
<1>7. Total(s, J, at + 1) = Total(s, J, at)
  BY <1>2, <1>3, TotalIdle
<1> QED
  BY <1>4, <1>5, <1>6, <1>7

\* What runs out in a tick: the trial first.
BurntList(s, at) ==
  IF TrialOf(s, at) > 0
    THEN DaysOf(s, at + 1) = DaysOf(s, at) /\ TrialOf(s, at + 1) = TrialOf(s, at) - 1
    ELSE /\ TrialOf(s, at + 1) = 0
         /\ DaysOf(s, at + 1) = IF DaysOf(s, at) > 0 THEN DaysOf(s, at) - 1 ELSE 0

LEMMA PositivePart ==
  ASSUME NEW s \in Seq(PeriodType), NEW at \in Nat, NEW I \in SUBSET (DOMAIN s),
         Total(s, I, at) # 0
  PROVE  \E i \in I : s[i].ends > at
<1> SUFFICES ASSUME \A i \in I : ~(s[i].ends > at) PROVE FALSE
  OBVIOUS
<1>1. \A i \in I : Rest(s[i], at) = 0
  <2> TAKE i \in I
  <2>1. s[i] \in PeriodType /\ s[i].ends \in Nat
    BY ListFields
  <2>2. s[i].ends <= at
    BY <2>1
  <2> QED
    BY <2>1, <2>2, RestTick
<1>2. at \in Int
  OBVIOUS
<1> QED
  BY <1>1, <1>2, TotalZero

LEMMA TickBurns ==
  ASSUME NEW s, ListOK(s), NEW at \in Nat, Whole(s, at)
  PROVE  BurntList(s, at)
<1> DEFINE T == Trials(s)
           D == Others(s)
<1>1. s \in Seq(PeriodType)
  BY DEF ListOK
<1>2. /\ T \in SUBSET Kept(s) /\ D \in SUBSET Kept(s)
      /\ T \in SUBSET (DOMAIN s) /\ D \in SUBSET (DOMAIN s)
      /\ Kept(s) = T \union D /\ T \intersect D = {}
  BY <1>1, Subsets
<1>3. \A i \in T : s[i].starts = 0
  BY DEF Trials, ListOK, TrialsFirst
<1>4. TrialOf(s, at) \in Nat /\ DaysOf(s, at) \in Nat
  BY <1>1, BalanceType
<1>5. /\ TrialOf(s, at) = Total(s, T, at) /\ TrialOf(s, at + 1) = Total(s, T, at + 1)
      /\ DaysOf(s, at) = Total(s, D, at) /\ DaysOf(s, at + 1) = Total(s, D, at + 1)
  BY DEF TrialOf, DaysOf
<1> HIDE DEF T, D
<1>6. CASE TrialOf(s, at) > 0
  <2>1. PICK x \in T : s[x].ends > at
    <3>1. Total(s, T, at) # 0
      BY <1>4, <1>5, <1>6
    <3> QED
      BY <1>1, <1>2, <3>1, PositivePart
  <2>2. Runs(s[x], at)
    BY <1>3, <2>1 DEF Runs
  <2>3. \A i \in D : ~Runs(s[i], at)
    <3> SUFFICES ASSUME NEW i \in D, Runs(s[i], at) PROVE FALSE
      OBVIOUS
    <3>1. i = x
      BY <1>2, <2>1, <2>2, OneRuns
    <3> QED
      BY <1>2, <2>1, <3>1
  <2>4. Total(s, T, at + 1) = Total(s, T, at) - 1
    BY <1>2, <2>1, <2>2, TotalBurns
  <2>5. Total(s, D, at + 1) = Total(s, D, at)
    BY <1>2, <2>3, TotalIdle
  <2> QED
    BY <1>5, <1>6, <2>4, <2>5 DEF BurntList
<1>7. CASE ~(TrialOf(s, at) > 0)
  <2>1. \A i \in T : ~Runs(s[i], at)
    <3> SUFFICES ASSUME NEW i \in T, Runs(s[i], at) PROVE FALSE
      OBVIOUS
    <3>1. Total(s, T, at) > 0
      BY <1>2, TotalBurns
    <3> QED
      BY <1>5, <1>7, <3>1
  <2>2. Total(s, T, at + 1) = Total(s, T, at)
    BY <1>2, <2>1, TotalIdle
  <2>3. TrialOf(s, at + 1) = 0
    BY <1>4, <1>5, <1>7, <2>2
  <2>4. CASE DaysOf(s, at) > 0
    <3>1. PICK i \in D : s[i].ends > at
      <4>1. Total(s, D, at) # 0
        BY <1>4, <1>5, <2>4
      <4> QED
        BY <1>1, <1>2, <4>1, PositivePart
    <3>2. PICK x \in Kept(s) : Runs(s[x], at)
      BY <1>2, <3>1, FirstRuns DEF Whole
    <3>3. x \in D
      BY <1>2, <2>1, <3>2
    <3>4. Total(s, D, at + 1) = Total(s, D, at) - 1
      BY <1>2, <3>2, <3>3, TotalBurns
    <3> QED
      BY <1>5, <1>7, <2>3, <2>4, <3>4 DEF BurntList
  <2>5. CASE ~(DaysOf(s, at) > 0)
    <3>1. \A i \in D : ~Runs(s[i], at)
      <4> SUFFICES ASSUME NEW i \in D, Runs(s[i], at) PROVE FALSE
        OBVIOUS
      <4>1. Total(s, D, at) > 0
        BY <1>2, TotalBurns
      <4> QED
        BY <1>5, <2>5, <4>1
    <3>2. Total(s, D, at + 1) = Total(s, D, at)
      BY <1>2, <3>1, TotalIdle
    <3>3. DaysOf(s, at + 1) = 0
      BY <1>4, <1>5, <2>5, <3>2
    <3> QED
      BY <1>7, <2>3, <2>5, <3>3 DEF BurntList
  <2> QED
    BY <2>4, <2>5
<1> QED
  BY <1>6, <1>7

LEMMA LaterWhole ==
  ASSUME NEW s, ListOK(s), NEW at \in Nat, NEW bt \in Nat, at <= bt, Whole(s, at)
  PROVE  Whole(s, bt)
<1>1. \A i \in Kept(s) : s[i].starts \in Nat /\ s[i].ends \in Nat
  BY ListFields DEF ListOK, Kept
<1>2. NoGap(s, bt)
  BY <1>1 DEF Whole, NoGap
<1>3. FreeApart(s, bt)
  <2> SUFFICES ASSUME NEW i \in Kept(s), NEW j \in Kept(s), s[i].kind = "paid", s[j].kind # "paid"
               PROVE  s[i].ends <= bt \/ s[j].ends <= bt
    BY DEF FreeApart
  <2>1. s[i].ends <= at \/ s[j].ends <= at
    BY DEF Whole, FreeApart
  <2> QED
    BY <1>1, <2>1
<1> QED
  BY <1>2, <1>3 DEF Whole

\* n ticks of time cost an exact balance n ticks, the trial first.
LEMMA TimeBurns ==
  ASSUME NEW s, ListOK(s), NEW at \in Nat, NEW n \in Nat, Whole(s, at)
  PROVE  /\ TrialOf(s, at + n) = Above(0, TrialOf(s, at) - n)
         /\ DaysOf(s, at + n) = Above(0, DaysOf(s, at) - Above(0, n - TrialOf(s, at)))
<1> DEFINE t == TrialOf(s, at)
           d == DaysOf(s, at)
           P == {m \in Nat : /\ TrialOf(s, at + m) = Above(0, t - m)
                             /\ DaysOf(s, at + m) = Above(0, d - Above(0, m - t))}
<1>1. t \in Nat /\ d \in Nat
  BY BalanceType DEF ListOK
<1>2. 0 \in P
  <2> HIDE DEF t, d
  <2>1. Above(0, t - 0) = t /\ Above(0, d - Above(0, 0 - t)) = d
    BY <1>1 DEF Above
  <2>2. TrialOf(s, at + 0) = t /\ DaysOf(s, at + 0) = d
    BY DEF t, d
  <2> QED
    BY <2>1, <2>2
<1>3. ASSUME NEW m \in 0 .. n, m \in P
      PROVE  m + 1 \in P
  <2>1. at + m \in Nat /\ at <= at + m /\ m \in Nat
    OBVIOUS
  <2>2. Whole(s, at + m)
    BY <2>1, LaterWhole
  <2>3. BurntList(s, at + m)
    BY <2>1, <2>2, TickBurns
  <2>4. (at + m) + 1 = at + (m + 1)
    BY <2>1
  <2>5. /\ TrialOf(s, at + m) = Above(0, t - m)
        /\ DaysOf(s, at + m) = Above(0, d - Above(0, m - t))
    BY <1>3
  <2> HIDE DEF t, d, P
  <2>6. /\ TrialOf(s, at + (m + 1)) = Above(0, t - (m + 1))
        /\ DaysOf(s, at + (m + 1)) = Above(0, d - Above(0, (m + 1) - t))
    BY <1>1, <2>1, <2>3, <2>4, <2>5 DEF BurntList, Above
  <2> QED
    BY <2>1, <2>6 DEF P
<1> HIDE DEF P
<1>4. \A m \in 0 .. n : m \in P
  BY <1>2, <1>3, UpTo
<1>5. n \in 0 .. n
  OBVIOUS
<1>6. n \in P
  BY <1>4, <1>5
<1> QED
  BY <1>6 DEF P

\* n ticks of time cost no more than n ticks of any part of a list.
LEMMA TimeSpends ==
  ASSUME NEW s, ListOK(s), NEW at \in Nat, NEW n \in Nat, NEW I \in SUBSET Kept(s)
  PROVE  Total(s, I, at + n) \in (Total(s, I, at) - n) .. Total(s, I, at)
<1> DEFINE T(m) == Total(s, I, at + m)
           P == {m \in Nat : T(m) \in (T(0) - m) .. T(0)}
<1>1. \A m \in Nat : T(m) \in Nat
  <2> TAKE m \in Nat
  <2>1. s \in Seq(PeriodType) /\ I \in SUBSET (DOMAIN s) /\ at + m \in Int
    BY DEF ListOK, Kept
  <2> QED
    BY <2>1, TotalType
<1>2. 0 \in P
  BY <1>1
<1>3. ASSUME NEW m \in 0 .. n, m \in P
      PROVE  m + 1 \in P
  <2>1. at + m \in Nat /\ m \in Nat /\ (at + m) + 1 = at + (m + 1)
    OBVIOUS
  <2>2. T(m + 1) \in (T(m) - 1) .. T(m)
    <3>1. CASE \E x \in I : Runs(s[x], at + m)
      <4>1. Total(s, I, (at + m) + 1) = Total(s, I, at + m) - 1
        BY <2>1, <3>1, TotalBurns
      <4> QED
        BY <1>1, <2>1, <4>1
    <3>2. CASE ~\E x \in I : Runs(s[x], at + m)
      <4>1. Total(s, I, (at + m) + 1) = Total(s, I, at + m)
        BY <2>1, <3>2, TotalIdle
      <4> QED
        BY <1>1, <2>1, <4>1
    <3> QED
      BY <3>1, <3>2
  <2>3. T(m) \in (T(0) - m) .. T(0) /\ T(0) \in Nat /\ T(m) \in Nat /\ T(m + 1) \in Nat
    BY <1>1, <1>3, <2>1
  <2> HIDE DEF T
  <2>4. T(m + 1) \in (T(0) - (m + 1)) .. T(0)
    BY <2>1, <2>2, <2>3
  <2> QED
    BY <2>1, <2>4
<1> HIDE DEF P
<1>4. \A m \in 0 .. n : m \in P
  BY <1>2, <1>3, UpTo
<1>5. n \in 0 .. n /\ at + 0 = at
  OBVIOUS
<1>6. n \in P
  BY <1>4, <1>5
<1> QED
  BY <1>5, <1>6 DEF P

--------------------------------------------------------------------------------
(* Pauses                                                                  *)

\* A pause of n ticks that began at `at' moves no time.
LEMMA AfterBalance ==
  ASSUME NEW s, ListOK(s), NEW at \in Nat, NEW n \in Nat
  PROVE  /\ DaysOf(After(s, at, n), at + n) = DaysOf(s, at)
         /\ TrialOf(After(s, at, n), at + n) = TrialOf(s, at)
<1> DEFINE r == After(s, at, n)
           T == Trials(s)
           D == Others(s)
<1>1. s \in Seq(PeriodType)
  BY DEF ListOK
<1>2. DOMAIN r = DOMAIN s /\ \A i \in DOMAIN s : r[i].kind = s[i].kind /\ r[i].off = s[i].off
  BY <1>1, AfterIs
<1>3. Trials(r) = T /\ Others(r) = D
  <2> HIDE DEF r
  <2> QED
    BY <1>2 DEF Trials, Others, Kept
<1>4. T \in SUBSET Kept(s) /\ D \in SUBSET Kept(s)
  BY DEF Trials, Others
<1> HIDE DEF T, D
<1>5. Total(r, T, at + n) = Total(s, T, at) /\ Total(r, D, at + n) = Total(s, D, at)
  BY <1>1, <1>4, AfterTotal
<1> QED
  BY <1>3, <1>5 DEF DaysOf, TrialOf, T, D

LEMMA AfterWhole ==
  ASSUME NEW s, ListOK(s), NEW at \in Nat, NEW n \in Nat, Whole(s, at)
  PROVE  Whole(After(s, at, n), at + n)
<1> DEFINE r == After(s, at, n)
<1>1. s \in Seq(PeriodType)
  BY DEF ListOK
<1>2. /\ Kept(r) = Kept(s)
      /\ \A i \in Kept(s) :
           /\ s[i].starts \in Nat /\ s[i].ends \in Nat /\ s[i].starts < s[i].ends
           /\ r[i].kind = s[i].kind
           /\ r[i].ends = IF s[i].ends <= at THEN s[i].ends ELSE s[i].ends + n
           /\ r[i].starts = IF s[i].ends <= at \/ s[i].starts <= at THEN s[i].starts
                            ELSE s[i].starts + n
  <2>1. Kept(r) = Kept(s)
    BY <1>1, AfterKept
  <2>2. \A i \in Kept(s) : i \in DOMAIN s /\ ~s[i].off
    BY DEF Kept
  <2>3. \A i \in Kept(s) : s[i].starts < s[i].ends
    BY DEF ListOK, Apart
  <2>4. \A i \in DOMAIN s : s[i].starts \in Nat /\ s[i].ends \in Nat
    BY <1>1, ListFields
  <2> QED
    BY <1>1, <2>1, <2>2, <2>3, <2>4, AfterIs, ZenonT(30)
<1> HIDE DEF r
<1>3. ASSUME NEW i \in Kept(r), r[i].starts > at + n
      PROVE  \E j \in Kept(r) : r[j].ends = r[i].starts
  <2>1. s[i].starts > at /\ r[i].starts = s[i].starts + n
    BY <1>2, <1>3
  <2>2. PICK j \in Kept(s) : s[j].ends = s[i].starts
    BY <1>2, <1>3, <2>1 DEF Whole, NoGap
  <2>3. r[j].ends = r[i].starts
    BY <1>2, <1>3, <2>1, <2>2
  <2> QED
    BY <1>2, <2>2, <2>3
<1>4. ASSUME NEW i \in Kept(r), NEW j \in Kept(r), r[i].kind = "paid", r[j].kind # "paid"
      PROVE  r[i].ends <= at + n \/ r[j].ends <= at + n
  <2>1. s[i].ends <= at \/ s[j].ends <= at
    BY <1>2, <1>4 DEF Whole, FreeApart
  <2> QED
    BY <1>2, <1>4, <2>1
<1> QED
  BY <1>3, <1>4 DEF Whole, NoGap, FreeApart, r

--------------------------------------------------------------------------------
(* Purchases and gifts                                                     *)

LEMMA KeptFields ==
  ASSUME NEW s, ListOK(s)
  PROVE  /\ s \in Seq(PeriodType)
         /\ \A i \in Kept(s) :
              /\ i \in DOMAIN s /\ s[i] \in PeriodType /\ ~s[i].off
              /\ s[i].starts \in Nat /\ s[i].ends \in Nat /\ s[i].starts < s[i].ends
              /\ s[i].kind \in {"paid", "bonus", "trial"}
              /\ s[i].kind = "trial" => s[i].starts = 0
<1>1. s \in Seq(PeriodType) /\ \A i \in Kept(s) : i \in DOMAIN s /\ ~s[i].off
  BY DEF ListOK, Kept
<1>2. \A i \in Kept(s) : s[i].starts < s[i].ends /\ (s[i].kind = "trial" => s[i].starts = 0)
  BY DEF ListOK, Apart, TrialsFirst
<1> QED
  BY <1>1, <1>2, ListFields

\* Days added to a period that has not run out, and to none of the trial.
LEMMA LengthenBalance ==
  ASSUME NEW s, ListOK(s), NEW at \in Nat, NEW n \in Nat, NEW b \in Kept(s),
         s[b].kind # "trial", s[b].ends >= at
  PROVE  /\ DaysOf(Lengthen(s, b, n), at) = DaysOf(s, at) + n
         /\ TrialOf(Lengthen(s, b, n), at) = TrialOf(s, at)
<1> DEFINE r == Lengthen(s, b, n)
           T == Trials(s)
           D == Others(s)
<1>1. s \in Seq(PeriodType) /\ b \in DOMAIN s /\ at \in Int
  BY KeptFields
<1>2. /\ r \in Seq(PeriodType) /\ DOMAIN r = DOMAIN s /\ Kept(r) = Kept(s)
      /\ \A j \in DOMAIN s : /\ r[j].starts = s[j].starts /\ r[j].kind = s[j].kind
                             /\ r[j].ends = IF j = b THEN s[j].ends + n ELSE s[j].ends
  BY <1>1, Lengthened
<1> HIDE DEF r
<1>3. Trials(r) = T /\ Others(r) = D
  <2>1. \A i \in Kept(s) : i \in DOMAIN s
    BY DEF Kept
  <2> QED
    BY <1>2, <2>1 DEF Trials, Others
<1>4. /\ T \in SUBSET (DOMAIN s) /\ T \in SUBSET (DOMAIN r)
      /\ D \in SUBSET (DOMAIN s) /\ D \in SUBSET (DOMAIN r) /\ b \in D /\ b \notin T
  BY <1>1, <1>2, Subsets DEF Trials, Others
<1>5. \A i \in DOMAIN s : i # b => Rest(s[i], at) = Rest(r[i], at)
  BY <1>2 DEF Rest
<1>6. Rest(r[b], at) = Rest(s[b], at) + n
  <2> DEFINE p == s[b]
             q == r[b]
  <2>1. q.starts = p.starts /\ q.ends = p.ends + n /\ p.starts \in Nat /\ p.ends \in Nat
        /\ p.starts < p.ends /\ p.ends >= at
    BY <1>1, <1>2, KeptFields
  <2> HIDE DEF p, q
  <2>2. Rest(q, at) = Rest(p, at) + n
    BY <2>1 DEF Rest, Above
  <2> QED
    BY <2>2 DEF p, q
<1> HIDE DEF T, D
<1>7. \A i \in T : Rest(s[i], at) = Rest(r[i], at)
  BY <1>4, <1>5
<1>8. Total(s, T, at) = Total(r, T, at)
  BY <1>1, <1>2, <1>4, <1>7, TotalSame
<1>9. \A i \in D \ {b} : Rest(s[i], at) = Rest(r[i], at)
  BY <1>4, <1>5
<1>10. Total(r, D, at) + Rest(s[b], at) = Total(s, D, at) + Rest(r[b], at)
  BY <1>1, <1>2, <1>4, <1>9, TotalChange
<1>11. Total(r, D, at) \in Nat /\ Total(s, D, at) \in Nat /\ Rest(s[b], at) \in Nat
  BY <1>1, <1>2, <1>4, TotalType, RestType, KeptFields
<1>12. Total(r, D, at) = Total(s, D, at) + n
  BY <1>6, <1>10, <1>11
<1> QED
  BY <1>3, <1>8, <1>12 DEF DaysOf, TrialOf, T, D, r

LEMMA AppendBalance ==
  ASSUME NEW s, ListOK(s), NEW at \in Nat, NEW p \in PeriodType, ~p.off,
         p.kind # "trial", p.starts >= at
  PROVE  /\ DaysOf(Put(s, p), at) = DaysOf(s, at) + (p.ends - p.starts)
         /\ TrialOf(Put(s, p), at) = TrialOf(s, at)
<1> DEFINE r == Put(s, p)
           m == Len(s) + 1
           T == Trials(s)
           D == Others(s)
           E == Others(r)
<1>1. s \in Seq(PeriodType) /\ at \in Int
  BY KeptFields
<1>2. /\ r \in Seq(PeriodType) /\ DOMAIN r = DOMAIN s \union {m} /\ m \notin DOMAIN s
      /\ Kept(r) = Kept(s) \union {m}
      /\ \A j \in DOMAIN s : r[j] = s[j]
      /\ r[m] = p
  BY <1>1, Appended
<1>3. Kept(s) \subseteq DOMAIN s
  BY DEF Kept
<1> HIDE DEF r, m
<1>4. Trials(r) = T /\ E = D \union {m} /\ m \notin D /\ E \ {m} = D
  BY <1>2, <1>3 DEF Trials, Others
<1>5. /\ T \in SUBSET (DOMAIN s) /\ T \in SUBSET (DOMAIN r)
      /\ D \in SUBSET (DOMAIN s) /\ D \in SUBSET (DOMAIN r)
      /\ E \in SUBSET (DOMAIN r) /\ m \in E
  BY <1>1, <1>2, <1>4, Subsets
<1> HIDE DEF T, D, E
<1>6. \A i \in T : Rest(s[i], at) = Rest(r[i], at)
  BY <1>2, <1>5
<1>7. \A i \in D : Rest(s[i], at) = Rest(r[i], at)
  BY <1>2, <1>5
<1>8. Total(s, T, at) = Total(r, T, at)
  BY <1>1, <1>2, <1>5, <1>6, TotalSame
<1>9. Total(s, D, at) = Total(r, D, at)
  BY <1>1, <1>2, <1>5, <1>7, TotalSame
<1>10. /\ Total(r, E, at) = Rest(r[m], at) + Total(r, E \ {m}, at)
       /\ Rest(r[m], at) \in Nat /\ Total(r, E \ {m}, at) \in Nat
  BY <1>1, <1>2, <1>5, TotalAdd
<1>11. Rest(p, at) = p.ends - p.starts
  BY PeriodFields DEF Rest, Above
<1>12. Total(r, E, at) = Total(s, D, at) + (p.ends - p.starts)
  <2>1. p.ends - p.starts \in Int
    BY PeriodFields
  <2>2. Rest(r[m], at) = p.ends - p.starts /\ Total(r, E \ {m}, at) = Total(s, D, at)
    BY <1>2, <1>4, <1>9, <1>11
  <2>3. Total(s, D, at) \in Nat
    BY <1>10, <2>2
  <2> QED
    BY <1>10, <2>1, <2>2, <2>3
<1>13. /\ TrialOf(r, at) = TrialOf(s, at)
       /\ DaysOf(r, at) = Total(r, E, at) /\ DaysOf(s, at) = Total(s, D, at)
  BY <1>4, <1>8 DEF DaysOf, TrialOf, T, D, E
<1> QED
  BY <1>12, <1>13 DEF r

LEMMA LengthenWhole ==
  ASSUME NEW s, ListOK(s), NEW at \in Nat, Whole(s, at), NEW n \in Nat, NEW b \in Kept(s),
         s[b].ends > at,
         \A i \in Kept(s) : i = b \/ s[i].ends <= s[b].starts
  PROVE  Whole(Lengthen(s, b, n), at)
<1> DEFINE r == Lengthen(s, b, n)
<1>1. s \in Seq(PeriodType) /\ b \in DOMAIN s
      /\ \A i \in Kept(s) : /\ i \in DOMAIN s /\ s[i].starts \in Nat /\ s[i].ends \in Nat
                            /\ s[i].starts < s[i].ends
  BY KeptFields
<1>2. /\ Kept(r) = Kept(s)
      /\ \A j \in DOMAIN s : /\ r[j].starts = s[j].starts /\ r[j].kind = s[j].kind
                             /\ r[j].ends = IF j = b THEN s[j].ends + n ELSE s[j].ends
  BY <1>1, Lengthened
<1> HIDE DEF r
<1>3. ASSUME NEW i \in Kept(r), r[i].starts > at
      PROVE  \E j \in Kept(r) : r[j].ends = r[i].starts
  <2>1. i \in Kept(s) /\ s[i].starts > at /\ r[i].starts = s[i].starts
    BY <1>1, <1>2, <1>3
  <2>2. PICK j \in Kept(s) : s[j].ends = s[i].starts
    BY <2>1 DEF Whole, NoGap
  <2>3. j # b
    <3> SUFFICES ASSUME j = b PROVE FALSE
      OBVIOUS
    <3>1. i = b \/ s[i].ends <= s[b].starts
      BY <2>1
    <3> QED
      BY <1>1, <2>1, <2>2, <3>1
  <2> QED
    BY <1>1, <1>2, <2>1, <2>2, <2>3
<1>4. ASSUME NEW i \in Kept(r), NEW j \in Kept(r), r[i].kind = "paid", r[j].kind # "paid"
      PROVE  r[i].ends <= at \/ r[j].ends <= at
  <2>1. /\ i \in Kept(s) /\ j \in Kept(s) /\ i # j
        /\ s[i].kind = "paid" /\ s[j].kind # "paid"
    BY <1>1, <1>2, <1>4
  <2>2. s[i].ends <= at \/ s[j].ends <= at
    BY <2>1 DEF Whole, FreeApart
  <2> QED
    BY <1>1, <1>2, <2>1, <2>2, SMTT(30)
<1> QED
  BY <1>3, <1>4 DEF Whole, NoGap, FreeApart, r

LEMMA AppendWhole ==
  ASSUME NEW s, ListOK(s), NEW at \in Nat, NoGap(s, at), FreeApart(s, at),
         NEW p \in PeriodType, ~p.off,
         p.starts > at => \E b \in Kept(s) : s[b].ends = p.starts,
         \A i \in Kept(s) : s[i].ends <= at \/ (s[i].kind = "paid" <=> p.kind = "paid")
  PROVE  Whole(Put(s, p), at)
<1> DEFINE r == Put(s, p)
           m == Len(s) + 1
<1>1. s \in Seq(PeriodType) /\ \A i \in Kept(s) : i \in DOMAIN s
  BY KeptFields
<1>2. /\ m \notin DOMAIN s
      /\ Kept(r) = Kept(s) \union {m}
      /\ \A j \in DOMAIN s : r[j] = s[j]
      /\ r[m] = p
  BY <1>1, Appended
<1> HIDE DEF r, m
<1>3. ASSUME NEW i \in Kept(r), r[i].starts > at
      PROVE  \E j \in Kept(r) : r[j].ends = r[i].starts
  <2>1. CASE i = m
    BY <1>1, <1>2, <1>3, <2>1
  <2>2. CASE i \in Kept(s)
    <3>1. PICK j \in Kept(s) : s[j].ends = s[i].starts
      BY <1>1, <1>2, <1>3, <2>2 DEF NoGap
    <3> QED
      BY <1>1, <1>2, <2>2, <3>1
  <2> QED
    BY <1>2, <2>1, <2>2
<1>4. ASSUME NEW i \in Kept(r), NEW j \in Kept(r), r[i].kind = "paid", r[j].kind # "paid"
      PROVE  r[i].ends <= at \/ r[j].ends <= at
  <2>1. CASE i = m
    BY <1>1, <1>2, <1>4, <2>1
  <2>2. CASE j = m
    BY <1>1, <1>2, <1>4, <2>2
  <2>3. CASE i \in Kept(s) /\ j \in Kept(s)
    BY <1>1, <1>2, <1>4, <2>3 DEF FreeApart
  <2> QED
    BY <1>2, <2>1, <2>2, <2>3
<1> QED
  BY <1>3, <1>4 DEF Whole, NoGap, FreeApart, r

\* A gift adds its days to the balance, and to nothing of a trial.
LEMMA GiftedBalance ==
  ASSUME PeriodsAssumption, NEW s, ListOK(s), now \in Nat, NEW n \in Nat \ {0}
  PROVE  /\ DaysOf(Gifted(s, n), now) = DaysOf(s, now) + n * Day
         /\ TrialOf(Gifted(s, n), now) = TrialOf(s, now)
<1> DEFINE d == n * Day
<1>1. d \in Nat \ {0}
  BY DaysType
<1>2. CASE \E b \in Live(s) : Gifted(s, n) = Lengthen(s, b, d) /\ s[b].kind # "trial"
  <2>1. PICK b \in Live(s) : Gifted(s, n) = Lengthen(s, b, d) /\ s[b].kind # "trial"
    BY <1>2
  <2>2. b \in Kept(s) /\ s[b].ends > now /\ s[b].ends \in Nat
    BY <2>1, LiveKept, KeptFields
  <2>3. s[b].ends >= now /\ d \in Nat
    BY <1>1, <2>2
  <2> HIDE DEF d
  <2>4. /\ DaysOf(Lengthen(s, b, d), now) = DaysOf(s, now) + d
        /\ TrialOf(Lengthen(s, b, d), now) = TrialOf(s, now)
    BY <2>1, <2>2, <2>3, LengthenBalance
  <2> QED
    BY <2>1, <2>4 DEF d
<1>3. CASE Gifted(s, n) = Put(s, Period("gift", "bonus", LastEnd(s), LastEnd(s) + d))
  <2> DEFINE p == Period("gift", "bonus", LastEnd(s), LastEnd(s) + d)
  <2>1. /\ p \in PeriodType /\ ~p.off /\ p.kind = "bonus"
        /\ p.starts = LastEnd(s) /\ p.ends = LastEnd(s) + d
    BY GiftType
  <2>2. LastEnd(s) \in Nat /\ LastEnd(s) >= now
    BY LastEndIs
  <2>3. Gifted(s, n) = Put(s, p)
    BY <1>3
  <2> HIDE DEF p, d
  <2>4. p.starts >= now /\ p.kind # "trial" /\ p.ends - p.starts = d
    BY <1>1, <2>1, <2>2
  <2>5. /\ DaysOf(Put(s, p), now) = DaysOf(s, now) + (p.ends - p.starts)
        /\ TrialOf(Put(s, p), now) = TrialOf(s, now)
    BY <2>1, <2>4, AppendBalance
  <2> QED
    BY <2>3, <2>4, <2>5 DEF d
<1> QED
  BY <1>2, <1>3, GiftedIs

LEMMA GiftedWhole ==
  ASSUME PeriodsAssumption, NEW s, ListOK(s), now \in Nat, NEW n \in Nat \ {0}, Whole(s, now)
  PROVE  Whole(Gifted(s, n), now)
<1> DEFINE d == n * Day
<1>1. d \in Nat \ {0}
  BY DaysType
<1>2. CASE \E b \in Live(s) : /\ Gifted(s, n) = Lengthen(s, b, d)
                              /\ \A i \in Kept(s) : i = b \/ s[i].ends <= s[b].starts
  <2>1. PICK b \in Live(s) : /\ Gifted(s, n) = Lengthen(s, b, d)
                             /\ \A i \in Kept(s) : i = b \/ s[i].ends <= s[b].starts
    BY <1>2
  <2>2. b \in Kept(s) /\ s[b].ends > now /\ d \in Nat
    BY <1>1, <2>1, LiveKept
  <2> HIDE DEF d
  <2>3. Whole(Lengthen(s, b, d), now)
    BY <2>1, <2>2, LengthenWhole
  <2> QED
    BY <2>1, <2>3
<1>3. CASE /\ Gifted(s, n) = Put(s, Period("gift", "bonus", LastEnd(s), LastEnd(s) + d))
           /\ \A i \in Live(s) : s[i].ends = LastEnd(s) => s[i].kind = "trial"
  <2> DEFINE p == Period("gift", "bonus", LastEnd(s), LastEnd(s) + d)
  <2>1. p \in PeriodType /\ ~p.off /\ p.kind = "bonus" /\ p.starts = LastEnd(s)
    BY GiftType
  <2>2. /\ LastEnd(s) \in Nat /\ LastEnd(s) >= now
        /\ \A i \in Kept(s) : s[i].ends <= LastEnd(s)
        /\ LastEnd(s) # now => \E i \in Live(s) : s[i].ends = LastEnd(s)
    BY LastEndIs
  <2>3. Gifted(s, n) = Put(s, p)
    BY <1>3
  <2> HIDE DEF p, d
  <2>4. p.starts > now => \E b \in Kept(s) : s[b].ends = p.starts
    BY <2>1, <2>2, LiveKept
  <2>5. ASSUME NEW i \in Kept(s)
        PROVE  s[i].ends <= now \/ (s[i].kind = "paid" <=> p.kind = "paid")
    <3> SUFFICES ASSUME s[i].ends > now, s[i].kind = "paid" PROVE FALSE
      BY <2>1, KeptFields
    <3>1. s[i].ends \in Nat /\ s[i].starts \in Nat /\ s[i].ends <= LastEnd(s)
      BY <2>2, KeptFields
    <3>2. PICK j \in Live(s) : s[j].ends = LastEnd(s)
      BY <2>2, <3>1
    <3>3. j \in Kept(s) /\ s[j].kind = "trial" /\ j # i
      BY <1>3, <3>2, LiveKept
    <3>4. s[j].starts = 0 /\ s[j].starts < s[j].ends /\ s[i].starts < s[i].ends
      BY <3>3, KeptFields
    <3>5. s[i].ends <= s[j].starts \/ s[j].ends <= s[i].starts
      BY <3>3 DEF ListOK, Apart
    <3> QED
      BY <2>2, <3>1, <3>2, <3>4, <3>5
  <2>6. NoGap(s, now) /\ FreeApart(s, now)
    BY DEF Whole
  <2>7. Whole(Put(s, p), now)
    BY <2>1, <2>4, <2>5, <2>6, AppendWhole
  <2> QED
    BY <2>3, <2>7
<1> QED
  BY <1>2, <1>3, GiftedIs

\* What stays of a list at a purchase: what is ahead of it is bought, and the
\* days given are carried.
LEMMA ClosedPaid ==
  ASSUME NEW s, ListOK(s), now \in Nat
  PROVE  \A i \in Kept(s) \ Dropped(s) : s[i].ends <= now \/ s[i].kind = "paid"
<1> SUFFICES ASSUME NEW i \in Kept(s) \ Dropped(s), s[i].ends > now, s[i].kind # "paid"
             PROVE  FALSE
  <2>1. \A i \in Kept(s) : s[i].ends \in Nat
    BY KeptFields
  <2> QED
    BY <2>1
<1>1. /\ s[i].starts \in Nat /\ s[i].kind \in {"paid", "bonus", "trial"}
      /\ s[i].kind = "trial" => s[i].starts = 0
  BY KeptFields
<1>2. i \in Live(s)
  BY LiveKept
<1>3. CASE s[i].starts <= now
  <2>1. i \in Running(s)
    BY <1>2, <1>3, RunningIs
  <2> QED
    BY <2>1 DEF Dropped
<1>4. CASE s[i].starts > now
  <2>1. s[i].kind = "bonus"
    BY <1>1, <1>4
  <2> QED
    BY <1>2, <1>4, <2>1 DEF Dropped
<1> QED
  BY <1>1, <1>3, <1>4

LEMMA DroppedIs ==
  ASSUME NEW s, ListOK(s), now \in Nat
  PROVE  Dropped(s) \subseteq Kept(s) /\ \A i \in Dropped(s) : s[i].kind # "paid"
<1>1. \A i \in Dropped(s) : i \in Live(s) /\ s[i].kind # "paid"
  BY RunningIs DEF Dropped
<1> QED
  BY <1>1, LiveKept

LEMMA ClosedBalance ==
  ASSUME NEW s, ListOK(s), now \in Nat
  PROVE  /\ DaysOf(s, now) = DaysOf(Closed(s), now) + Carry(s)
         /\ TrialOf(Closed(s), now) = 0
<1> DEFINE c == Closed(s)
           D == Others(s)
           E == Others(c)
           B == {i \in Dropped(s) : s[i].kind = "bonus"}
           T == Trials(c)
<1>1. s \in Seq(PeriodType) /\ now \in Int
  BY KeptFields
<1>2. /\ c \in Seq(PeriodType)
      /\ DOMAIN c = DOMAIN s /\ Kept(c) = Kept(s) \ Dropped(s)
      /\ \A i \in DOMAIN s : /\ c[i].starts = s[i].starts /\ c[i].ends = s[i].ends
                             /\ c[i].kind = s[i].kind
  BY ClosedIs
<1>3. \A i \in Kept(s) : i \in DOMAIN s /\ s[i].kind \in {"paid", "bonus", "trial"}
  BY KeptFields
<1> HIDE DEF c
<1>4. D = E \union B /\ E \intersect B = {}
  BY <1>2, <1>3, DroppedIs DEF Others
<1>5. /\ E \in SUBSET (DOMAIN s) /\ E \in SUBSET (DOMAIN c)
      /\ B \in SUBSET (DOMAIN s) /\ T \in SUBSET (DOMAIN c)
  BY <1>2, <1>3, DroppedIs DEF Others, Trials
<1>6. \A i \in E : Rest(s[i], now) = Rest(c[i], now)
  BY <1>2, <1>5 DEF Rest
<1>7. \A i \in T : Rest(c[i], now) = 0
  <2> TAKE i \in T
  <2>1. i \in Kept(s) \ Dropped(s) /\ s[i].kind = "trial" /\ c[i].ends = s[i].ends
    BY <1>2, <1>3 DEF Trials
  <2>2. s[i].ends <= now
    BY <2>1, ClosedPaid
  <2>3. c[i] \in PeriodType
    BY <1>2, <1>5, ListFields
  <2> QED
    BY <2>1, <2>2, <2>3, RestTick
<1>8. Carry(s) = Total(s, B, now)
  BY DEF Carry
<1> HIDE DEF D, E, B, T
<1>9. /\ Total(s, E \union B, now) = Total(s, E, now) + Total(s, B, now)
  BY <1>1, <1>4, <1>5, TotalUnion
<1>10. Total(s, E, now) = Total(c, E, now)
  BY <1>1, <1>2, <1>5, <1>6, TotalSame
<1>11. Total(c, T, now) = 0
  BY <1>1, <1>2, <1>5, <1>7, TotalZero
<1> QED
  BY <1>4, <1>8, <1>9, <1>10, <1>11 DEF DaysOf, TrialOf, D, E, T, c

LEMMA ClosedWhole ==
  ASSUME NEW s, ListOK(s), now \in Nat, Whole(s, now)
  PROVE  Whole(Closed(s), now)
<1> DEFINE c == Closed(s)
<1>1. /\ DOMAIN c = DOMAIN s /\ Kept(c) = Kept(s) \ Dropped(s)
      /\ \A i \in DOMAIN s : /\ c[i].starts = s[i].starts /\ c[i].ends = s[i].ends
                             /\ c[i].kind = s[i].kind
  BY ClosedIs
<1>2. \A i \in Kept(s) : /\ i \in DOMAIN s /\ s[i].starts \in Nat /\ s[i].ends \in Nat
                         /\ s[i].starts < s[i].ends
  BY KeptFields
<1> HIDE DEF c
<1>3. ASSUME NEW i \in Kept(c), c[i].starts > now
      PROVE  \E j \in Kept(c) : c[j].ends = c[i].starts
  <2>1. i \in Kept(s) \ Dropped(s) /\ s[i].starts > now /\ c[i].starts = s[i].starts /\ s[i].ends > now
    BY <1>1, <1>2, <1>3
  <2>2. s[i].kind = "paid"
    BY <1>2, <2>1, ClosedPaid
  <2>3. PICK j \in Kept(s) : s[j].ends = s[i].starts
    BY <2>1 DEF Whole, NoGap
  <2>4. s[j].kind = "paid"
    BY <1>2, <2>1, <2>2, <2>3 DEF Whole, FreeApart
  <2>5. j \in Kept(c)
    BY <1>1, <2>3, <2>4, DroppedIs
  <2> QED
    BY <1>1, <1>2, <2>1, <2>3, <2>5
<1>4. ASSUME NEW i \in Kept(c), NEW j \in Kept(c), c[i].kind = "paid", c[j].kind # "paid"
      PROVE  c[i].ends <= now \/ c[j].ends <= now
  <2>1. j \in Kept(s) \ Dropped(s) /\ s[j].kind # "paid" /\ c[j].ends = s[j].ends
    BY <1>1, <1>2, <1>4
  <2> QED
    BY <2>1, ClosedPaid
<1> QED
  BY <1>3, <1>4 DEF Whole, NoGap, FreeApart, c

\* A purchase adds its days to the balance and takes the place of the trial.
LEMMA GrantedBalance ==
  ASSUME PeriodsAssumption, NEW s, ListOK(s), now \in Nat,
         NEW plan \in Plans, NEW n \in Nat \ {0}
  PROVE  LET r == Granted(s, plan, n).list IN
         /\ DaysOf(r, now) = DaysOf(s, now) + n * Day
         /\ TrialOf(r, now) = 0
         /\ Whole(s, now) => Whole(r, now)
<1> DEFINE c == Closed(s)
           more == n * Day + Carry(s)
           r == Granted(s, plan, n).list
<1>1. /\ DaysOf(s, now) = DaysOf(c, now) + Carry(s)
      /\ TrialOf(c, now) = 0
  BY ClosedBalance
<1>2. ListOK(c)
  BY ClosedOK
<1>3. DaysOf(c, now) \in Nat /\ c \in Seq(PeriodType)
  <2>1. c \in Seq(PeriodType) /\ now \in Int
    BY <1>2 DEF ListOK
  <2> HIDE DEF c
  <2> QED
    BY <2>1, BalanceType
<1>4. more \in Nat /\ more > 0
  BY MoreType
<1>5. Carry(s) \in Nat /\ n * Day \in Nat
  BY CarryType, DaysType
<1>6. DaysOf(c, now) + more = DaysOf(s, now) + n * Day
  BY <1>1, <1>3, <1>5
<1>7. \A i \in Kept(c) : c[i].ends <= now \/ c[i].kind = "paid"
  <2>1. /\ Kept(c) = Kept(s) \ Dropped(s)
        /\ \A i \in DOMAIN s : c[i].ends = s[i].ends /\ c[i].kind = s[i].kind
    BY ClosedIs
  <2>2. \A i \in Kept(s) : i \in DOMAIN s
    BY KeptFields
  <2> HIDE DEF c
  <2> QED
    BY <2>1, <2>2, ClosedPaid
<1>8. Whole(s, now) => Whole(c, now)
  BY ClosedWhole
<1>9. \/ \E b \in Kept(c) :
           /\ r = Lengthen(c, b, more)
           /\ c[b].kind = "paid" /\ c[b].ends > now
           /\ \A i \in Kept(c) : i = b \/ c[i].ends <= c[b].starts
      \/ \E starts \in Nat :
           /\ r = Put(c, Period(plan, "paid", starts, starts + more))
           /\ starts >= now
           /\ starts > now => \E b \in Kept(c) : c[b].ends = starts
  BY GrantedIs, SMTT(30) DEF GrantedTo
<1> HIDE DEF c, more, r
<1>10. CASE \E b \in Kept(c) :
              /\ r = Lengthen(c, b, more)
              /\ c[b].kind = "paid" /\ c[b].ends > now
              /\ \A i \in Kept(c) : i = b \/ c[i].ends <= c[b].starts
  <2>1. PICK b \in Kept(c) :
              /\ r = Lengthen(c, b, more)
              /\ c[b].kind = "paid" /\ c[b].ends > now
              /\ \A i \in Kept(c) : i = b \/ c[i].ends <= c[b].starts
    BY <1>10
  <2>2. c[b].ends >= now /\ c[b].kind # "trial"
    BY <1>2, <2>1, KeptFields
  <2>3. /\ DaysOf(Lengthen(c, b, more), now) = DaysOf(c, now) + more
        /\ TrialOf(Lengthen(c, b, more), now) = TrialOf(c, now)
    BY <1>2, <1>4, <2>2, LengthenBalance
  <2>4. Whole(c, now) => Whole(Lengthen(c, b, more), now)
    BY <1>2, <1>4, <2>1, LengthenWhole
  <2>5. /\ DaysOf(r, now) = DaysOf(s, now) + n * Day
        /\ TrialOf(r, now) = 0 /\ (Whole(s, now) => Whole(r, now))
    BY <1>1, <1>6, <1>8, <2>1, <2>3, <2>4
  <2> QED
    BY <2>5 DEF r
<1>11. CASE \E starts \in Nat :
              /\ r = Put(c, Period(plan, "paid", starts, starts + more))
              /\ starts >= now
              /\ starts > now => \E b \in Kept(c) : c[b].ends = starts
  <2>1. PICK starts \in Nat :
              /\ r = Put(c, Period(plan, "paid", starts, starts + more))
              /\ starts >= now
              /\ starts > now => \E b \in Kept(c) : c[b].ends = starts
    BY <1>11
  <2> DEFINE p == Period(plan, "paid", starts, starts + more)
  <2>2. /\ p \in PeriodType /\ ~p.off /\ p.kind = "paid"
        /\ p.starts = starts /\ p.ends = starts + more /\ p.starts < p.ends
    <3>1. starts \in Nat /\ more \in Nat /\ more > 0 /\ plan \in Plans
      BY <1>4
    <3> QED
      BY <3>1, BoughtPeriod, Zenon
  <2>3. r = Put(c, p)
    BY <2>1
  <2> HIDE DEF p
  <2>4. p.starts >= now /\ p.kind # "trial" /\ p.ends - p.starts = more
    BY <1>4, <2>1, <2>2
  <2>5. /\ DaysOf(Put(c, p), now) = DaysOf(c, now) + (p.ends - p.starts)
        /\ TrialOf(Put(c, p), now) = TrialOf(c, now)
    BY <1>2, <2>2, <2>4, AppendBalance
  <2>6. ASSUME Whole(c, now)
        PROVE  Whole(Put(c, p), now)
    <3>1. NoGap(c, now) /\ FreeApart(c, now)
      BY <2>6 DEF Whole
    <3>2. p.starts > now => \E b \in Kept(c) : c[b].ends = p.starts
      BY <2>1, <2>2
    <3>3. \A i \in Kept(c) : c[i].ends <= now \/ (c[i].kind = "paid" <=> p.kind = "paid")
      BY <1>7, <2>2
    <3> QED
      BY <1>2, <2>2, <3>1, <3>2, <3>3, AppendWhole
  <2>7. /\ DaysOf(r, now) = DaysOf(s, now) + n * Day
        /\ TrialOf(r, now) = 0 /\ (Whole(s, now) => Whole(r, now))
    BY <1>1, <1>6, <1>8, <2>3, <2>4, <2>5, <2>6
  <2> QED
    BY <2>7 DEF r
<1> QED
  BY <1>9, <1>10, <1>11

--------------------------------------------------------------------------------
(* Transfers: what take_bonus_days cuts                                    *)

Later(s, i) == {j \in Live(s) : s[j].ends > s[i].ends}
Cuts(s, n) == [i \in DOMAIN s |-> Cut(s, n, i)]

LEMMA LiveFields ==
  ASSUME NEW s, ListOK(s), now \in Nat
  PROVE  /\ Live(s) \in SUBSET (DOMAIN s) /\ Live(s) \in SUBSET Kept(s) /\ IsFiniteSet(Live(s))
         /\ \A i \in Live(s) : /\ Later(s, i) \in SUBSET (DOMAIN s) /\ Later(s, i) \subseteq Live(s)
                               /\ s[i].ends > now /\ Rest(s[i], now) > 0
                               /\ Rest(s[i], now) \in Nat
<1>1. /\ s \in Seq(PeriodType) /\ Live(s) \subseteq Kept(s) /\ Kept(s) \subseteq DOMAIN s
      /\ \A i \in Live(s) : s[i].ends > now
  BY KeptFields, LiveKept DEF Live
<1>2. IsFiniteSet(Live(s))
  BY <1>1, Subsets, FS_Subset
<1>3. \A i \in Live(s) : Rest(s[i], now) > 0 /\ Rest(s[i], now) \in Nat
  <2> TAKE i \in Live(s)
  <2>1. s[i].starts \in Nat /\ s[i].ends \in Nat /\ s[i].starts < s[i].ends /\ s[i].ends > now
    BY <1>1, KeptFields
  <2> QED
    BY <2>1 DEF Rest, Above
<1> QED
  BY <1>1, <1>2, <1>3 DEF Later

LEMMA CutIs ==
  ASSUME PeriodsAssumption, NEW s, ListOK(s), now \in Nat, NEW n \in Nat, NEW i \in Live(s)
  PROVE  /\ Cut(s, n, i)
              = Below(Rest(s[i], now), Above(0, n * Day - Total(s, Later(s, i), now)))
         /\ Total(s, Later(s, i), now) \in Nat /\ n * Day \in Nat /\ Rest(s[i], now) \in Nat
<1>1. s \in Seq(PeriodType) /\ now \in Int /\ Later(s, i) \in SUBSET (DOMAIN s)
  BY LiveFields, KeptFields
<1>2. Total(s, Later(s, i), now) \in Nat
  BY <1>1, TotalType
<1> QED
  BY <1>2, LiveFields, DaysType DEF Cut, Later

\* No two periods that are left end together.
LEMMA EndsDiffer ==
  ASSUME NEW s, ListOK(s), NEW i \in Kept(s), NEW j \in Kept(s), i # j
  PROVE  s[i].ends # s[j].ends
<1>1. /\ s[i].starts \in Nat /\ s[i].ends \in Nat /\ s[i].starts < s[i].ends
      /\ s[j].starts \in Nat /\ s[j].ends \in Nat /\ s[j].starts < s[j].ends
  BY KeptFields
<1>2. s[i].ends <= s[j].starts \/ s[j].ends <= s[i].starts
  BY DEF ListOK, Apart
<1> QED
  BY <1>1, <1>2

\* A period is cut only when those that end later are used up.
LEMMA CutLater ==
  ASSUME PeriodsAssumption, NEW s, ListOK(s), now \in Nat, NEW n \in Nat,
         NEW i \in Live(s), NEW j \in Live(s), s[j].ends < s[i].ends, Cut(s, n, j) > 0
  PROVE  Cut(s, n, i) = Rest(s[i], now)
<1>1. /\ Cut(s, n, i)
              = Below(Rest(s[i], now), Above(0, n * Day - Total(s, Later(s, i), now)))
      /\ Total(s, Later(s, i), now) \in Nat /\ n * Day \in Nat /\ Rest(s[i], now) \in Nat
  BY CutIs
<1>2. /\ Cut(s, n, j)
              = Below(Rest(s[j], now), Above(0, n * Day - Total(s, Later(s, j), now)))
      /\ Total(s, Later(s, j), now) \in Nat /\ Rest(s[j], now) \in Nat
  BY CutIs
<1>3. Total(s, Later(s, i), now) + Rest(s[i], now) <= Total(s, Later(s, j), now)
  <2> DEFINE I == Later(s, i) \union {i}
             J == Later(s, j)
  <2>1. s \in Seq(PeriodType) /\ now \in Int /\ I \in SUBSET (DOMAIN s) /\ J \in SUBSET (DOMAIN s)
    BY LiveFields, KeptFields, SMTT(30)
  <2>2. i \in I /\ I \ {i} = Later(s, i)
    <3>1. s[i].ends \in Nat
      BY LiveFields, KeptFields
    <3> QED
      BY <3>1 DEF Later
  <2>3. I \subseteq J
    <3>1. \A k \in Live(s) : s[k].ends \in Nat
      BY LiveFields, KeptFields
    <3> QED
      BY <3>1 DEF Later
  <2>4. \A k \in I : Rest(s[k], now) <= Rest(s[k], now)
    <3>1. \A k \in I : Rest(s[k], now) \in Nat
      BY <2>1, ListFields, RestType
    <3> QED
      BY <3>1
  <2> HIDE DEF I, J
  <2>5. Total(s, I, now) <= Total(s, J, now)
    BY <2>1, <2>3, <2>4, TotalGrows
  <2>6. /\ Total(s, I, now) = Rest(s[i], now) + Total(s, I \ {i}, now)
        /\ Total(s, I \ {i}, now) \in Nat
    BY <2>1, <2>2, TotalAdd, ZenonT(30)
  <2>7. Rest(s[i], now) + Total(s, I \ {i}, now) <= Total(s, J, now)
    BY <2>5, <2>6
  <2>8. Total(s, I \ {i}, now) = Total(s, Later(s, i), now) /\ Total(s, J, now) = Total(s, Later(s, j), now)
    BY <2>2 DEF J
  <2> QED
    BY <1>1, <1>2, <2>7, <2>8
<1> DEFINE a == Total(s, Later(s, i), now)
           b == Total(s, Later(s, j), now)
           x == Rest(s[i], now)
           y == Rest(s[j], now)
           d == n * Day
<1>4. /\ a \in Nat /\ b \in Nat /\ x \in Nat /\ y \in Nat /\ d \in Nat
      /\ a + x <= b
      /\ Cut(s, n, i) = Below(x, Above(0, d - a)) /\ Cut(s, n, j) = Below(y, Above(0, d - b))
  BY <1>1, <1>2, <1>3
<1> HIDE DEF a, b, x, y, d
<1>5. Cut(s, n, i) = x
  BY <1>4 DEF Above, Below
<1> QED
  BY <1>5 DEF x

\* take_bonus_days cuts n days, or all there is.
LEMMA CutsAll ==
  ASSUME PeriodsAssumption, NEW s, ListOK(s), now \in Nat, NEW n \in Nat
  PROVE  SumFunctionOnSet(Cuts(s, n), Live(s)) = Below(n * Day, Total(s, Live(s), now))
<1> DEFINE L == Live(s)
           C == Cuts(s, n)
           d == n * Day
           tot(U) == Total(s, U, now)
           sum(U) == SumFunctionOnSet(C, U)
           Upper(U) == \A i \in U, j \in L : s[j].ends > s[i].ends => j \in U
           P == {U \in SUBSET L : Upper(U) => sum(U) = Below(d, tot(U))}
<1>1. /\ s \in Seq(PeriodType) /\ now \in Int /\ L \in SUBSET (DOMAIN s) /\ IsFiniteSet(L)
      /\ \A i \in L : i \in DOMAIN s /\ s[i].ends \in Nat
  BY LiveFields, KeptFields
<1>2. d \in Nat
  BY DaysType
<1>3. \A i \in L : C[i] = Cut(s, n, i) /\ C[i] \in Nat
  BY <1>1, CutType DEF Cuts
<1>4. {} \in P
  <2>1. sum({}) = 0
    BY SumEmpty
  <2>2. tot({}) = 0
    BY SumEmpty DEF Total
  <2>3. Below(d, 0) = 0
    BY <1>2 DEF Below
  <2> HIDE DEF sum, tot, d
  <2>4. sum({}) = Below(d, tot({}))
    BY <2>1, <2>2, <2>3
  <2> QED
    BY <2>4
<1>5. ASSUME NEW U \in SUBSET L, U # {}, \A x \in U : U \ {x} \in P
      PROVE  U \in P
  <2> SUFFICES ASSUME Upper(U) PROVE sum(U) = Below(d, tot(U))
    OBVIOUS
  <2> DEFINE f == [i \in U |-> 0 - s[i].ends]
  <2>1. \A i \in U : f[i] = 0 - s[i].ends /\ f[i] \in Int
    BY <1>1
  <2>2. IsFiniteSet(U)
    BY <1>1, FS_Subset
  <2>3. PICK x \in U : \A j \in U : f[j] <= f[x]
    <3> HIDE DEF f
    <3> QED
      BY <1>5, <2>1, <2>2, Largest
  <2> HIDE DEF f
  <2>4. \A j \in U : s[x].ends <= s[j].ends
    <3> TAKE j \in U
    <3>1. f[j] <= f[x] /\ f[j] = 0 - s[j].ends /\ f[x] = 0 - s[x].ends
      BY <2>1, <2>3
    <3>2. s[j].ends \in Nat /\ s[x].ends \in Nat
      BY <1>1
    <3> QED
      BY <3>1, <3>2
  <2> DEFINE V == U \ {x}
  <2>5. V = Later(s, x)
    <3>1. \A j \in V : s[j].ends > s[x].ends
      <4> TAKE j \in V
      <4>1. j \in Kept(s) /\ x \in Kept(s) /\ j # x
        BY LiveFields
      <4>2. s[j].ends # s[x].ends
        BY <4>1, EndsDiffer
      <4>3. s[x].ends <= s[j].ends /\ s[j].ends \in Nat /\ s[x].ends \in Nat
        BY <1>1, <2>4
      <4> QED
        BY <4>2, <4>3
    <3>2. \A j \in L : s[j].ends > s[x].ends => j \in U /\ j # x
      BY <1>1
    <3> QED
      BY <3>1, <3>2 DEF Later
  <2>6. Upper(V)
    <3>1. \A i \in V, j \in L : s[j].ends > s[i].ends => j \in U /\ j # x
      <4> TAKE i \in V, j \in L
      <4>1. s[x].ends <= s[i].ends /\ s[x].ends \in Nat /\ s[i].ends \in Nat /\ s[j].ends \in Nat
        BY <1>1, <2>4
      <4> QED
        BY <4>1
    <3> QED
      BY <3>1
  <2>7. sum(V) = Below(d, tot(V))
    BY <1>5, <2>6
  <2>8. sum(U) = C[x] + sum(V)
    <3>1. \A i \in U : C[i] \in Nat
      BY <1>3
    <3> HIDE DEF C
    <3> QED
      BY <2>2, <3>1, SumAdd
  <2>9. tot(U) = Rest(s[x], now) + tot(V) /\ Rest(s[x], now) \in Nat /\ tot(V) \in Nat
    <3>1. U \in SUBSET (DOMAIN s)
      BY <1>1
    <3> QED
      BY <1>1, <3>1, TotalAdd
  <2>10. C[x] = Below(Rest(s[x], now), Above(0, d - tot(V)))
    <3>1. /\ Cut(s, n, x)
              = Below(Rest(s[x], now), Above(0, n * Day - Total(s, Later(s, x), now)))
      BY CutIs
    <3> QED
      BY <1>3, <2>5, <3>1
  <2> DEFINE cx == C[x]
             sv == sum(V)
             su == sum(U)
             tv == tot(V)
             tu == tot(U)
             rx == Rest(s[x], now)
  <2>11. /\ rx \in Nat /\ tv \in Nat /\ d \in Nat
         /\ tu = rx + tv /\ su = cx + sv /\ sv = Below(d, tv) /\ cx = Below(rx, Above(0, d - tv))
    BY <1>2, <2>7, <2>8, <2>9, <2>10
  <2> HIDE DEF cx, sv, su, tv, tu, rx, d
  <2>12. su = Below(d, tu)
    BY <2>11 DEF Above, Below
  <2> QED
    BY <2>12 DEF su, tu
<1>6. \A U \in SUBSET L : U \in P
  <2>1. P \in SUBSET (SUBSET L)
    OBVIOUS
  <2>2. \A U \in SUBSET L : U # {} /\ (\A x \in U : U \ {x} \in P) => U \in P
    BY <1>5
  <2> HIDE DEF P, L
  <2> QED
    BY <1>1, <1>4, <2>1, <2>2, SubsetInduction
<1>7. L \in P /\ Upper(L)
  BY <1>6
<1>8. sum(L) = Below(d, tot(L))
  BY <1>7
<1> QED
  BY <1>8

LEMMA TakenRest ==
  ASSUME PeriodsAssumption, NEW s, ListOK(s), now \in Nat, NEW n \in Nat
  PROVE  LET r == Taken(s, n) IN
         /\ Kept(r) \subseteq Kept(s)
         /\ \A i \in Kept(s) :
              /\ r[i].kind = s[i].kind /\ r[i].starts = s[i].starts
              /\ r[i].ends = s[i].ends - Cut(s, n, i)
              /\ Cut(s, n, i) \in Nat /\ Cut(s, n, i) <= Rest(s[i], now)
              /\ i \notin Live(s) => Cut(s, n, i) = 0
              /\ i \in Kept(r) => /\ Rest(r[i], now) = Rest(s[i], now) - Cut(s, n, i)
                                  /\ Cut(s, n, i) = 0 \/ Cut(s, n, i) # Rest(s[i], now)
              /\ i \notin Kept(r) => Cut(s, n, i) = Rest(s[i], now)
<1> DEFINE r == Taken(s, n)
<1>1. /\ s \in Seq(PeriodType)
      /\ \A i \in Kept(s) : /\ i \in DOMAIN s /\ ~s[i].off
                            /\ s[i].starts \in Nat /\ s[i].ends \in Nat /\ s[i].starts < s[i].ends
  BY KeptFields
<1>2. /\ DOMAIN r = DOMAIN s
      /\ \A i \in DOMAIN s :
           /\ r[i].kind = s[i].kind /\ r[i].starts = s[i].starts
           /\ r[i].ends = s[i].ends - Cut(s, n, i)
           /\ r[i].off = (s[i].off \/ (Cut(s, n, i) > 0 /\ Cut(s, n, i) = Rest(s[i], now)))
  BY <1>1, TakenIs
<1> HIDE DEF r
<1>3. Kept(r) \subseteq Kept(s)
  <2> SUFFICES ASSUME NEW i \in Kept(r) PROVE i \in Kept(s)
    OBVIOUS
  <2>1. i \in DOMAIN s /\ ~r[i].off
    BY <1>2 DEF Kept
  <2>2. r[i].off = (s[i].off \/ (Cut(s, n, i) > 0 /\ Cut(s, n, i) = Rest(s[i], now)))
    BY <1>2, <2>1
  <2>3. ~s[i].off
    BY <2>1, <2>2, Zenon
  <2> QED
    BY <2>1, <2>3 DEF Kept
<1>4. ASSUME NEW i \in Kept(s)
      PROVE  /\ r[i].kind = s[i].kind /\ r[i].starts = s[i].starts
             /\ r[i].ends = s[i].ends - Cut(s, n, i)
             /\ Cut(s, n, i) \in Nat /\ Cut(s, n, i) <= Rest(s[i], now)
             /\ i \notin Live(s) => Cut(s, n, i) = 0
             /\ i \in Kept(r) => /\ Rest(r[i], now) = Rest(s[i], now) - Cut(s, n, i)
                                 /\ Cut(s, n, i) = 0 \/ Cut(s, n, i) # Rest(s[i], now)
             /\ i \notin Kept(r) => Cut(s, n, i) = Rest(s[i], now)
  <2> DEFINE cut == Cut(s, n, i)
             p == s[i]
             q == r[i]
             rest == Rest(s[i], now)
  <2>1. i \in DOMAIN s /\ ~p.off /\ p.starts \in Nat /\ p.ends \in Nat /\ p.starts < p.ends
    BY <1>1
  <2>2. /\ q.kind = p.kind /\ q.starts = p.starts /\ q.ends = p.ends - cut
        /\ q.off = (p.off \/ (cut > 0 /\ cut = rest))
    BY <1>2, <2>1
  <2>3. /\ cut \in Nat /\ cut <= rest /\ rest \in Nat /\ rest <= p.ends - p.starts
        /\ i \notin Live(s) => cut = 0
    BY <1>1, <2>1, CutType
  <2>4. i \in Kept(r) <=> ~q.off
    BY <1>2, <2>1 DEF Kept
  <2>5. rest = Rest(p, now)
    OBVIOUS
  <2> HIDE DEF cut, p, q, rest
  <2>6. ~q.off <=> ~(cut > 0 /\ cut = rest)
    BY <2>1, <2>2, Zenon
  <2>7. Rest(q, now) = rest - cut
    BY <2>1, <2>2, <2>3, <2>5 DEF Rest, Above
  <2>8. i \in Kept(r) => cut = 0 \/ cut # rest
    BY <2>3, <2>4, <2>6
  <2>9. i \notin Kept(r) => cut = rest
    BY <2>4, <2>6
  <2> QED
    BY <2>2, <2>3, <2>7, <2>8, <2>9 DEF cut, p, q, rest
<1> QED
  BY <1>3, <1>4 DEF r

\* What a cut leaves of a part of the list.
LEMMA TakenPart ==
  ASSUME PeriodsAssumption, NEW s, ListOK(s), now \in Nat, NEW n \in Nat,
         NEW I \in SUBSET Kept(s), NEW J, J = I \intersect Kept(Taken(s, n))
  PROVE  /\ Total(Taken(s, n), J, now) + SumFunctionOnSet(Cuts(s, n), I) = Total(s, I, now)
         /\ Total(Taken(s, n), J, now) \in Nat /\ SumFunctionOnSet(Cuts(s, n), I) \in Nat
<1> DEFINE r == Taken(s, n)
           C == Cuts(s, n)
           f == Rests(s, now)
           g == Rests(r, now)
           h == [i \in I |-> f[i] - C[i]]
<1>1. s \in Seq(PeriodType) /\ now \in Int /\ I \in SUBSET (DOMAIN s)
  BY KeptFields
<1>2. r \in Seq(PeriodType) /\ DOMAIN r = DOMAIN s
  BY <1>1, TakenIs
<1>3. J \in SUBSET I /\ J \in SUBSET (DOMAIN r)
  BY <1>1, <1>2
<1>4. IsFiniteSet(I) /\ IsFiniteSet(J) /\ Total(r, J, now) \in Nat
  BY <1>1, <1>2, <1>3, TotalType
<1>5. \A i \in I : f[i] = Rest(s[i], now) /\ f[i] \in Nat
  BY <1>1, RestsType
<1>6. \A i \in I : C[i] = Cut(s, n, i)
  BY <1>1 DEF Cuts
<1>7. \A i \in J : g[i] = Rest(r[i], now) /\ g[i] \in Nat
  BY <1>2, <1>3, RestsType, <1>1
<1>8. \A i \in I : Cut(s, n, i) \in Nat /\ Cut(s, n, i) <= Rest(s[i], now)
  BY TakenRest
<1>9. \A i \in J : Rest(r[i], now) = Rest(s[i], now) - Cut(s, n, i)
  BY TakenRest
<1>10. \A i \in I \ J : Cut(s, n, i) = Rest(s[i], now)
  BY TakenRest
<1> HIDE DEF f, g, C
<1>11. \A i \in I : h[i] \in Nat /\ C[i] \in Nat /\ f[i] = h[i] + C[i]
  BY <1>5, <1>6, <1>8
<1>12. \A i \in J : h[i] = g[i]
  BY <1>3, <1>5, <1>6, <1>7, <1>9
<1>13. \A i \in I \ J : h[i] = 0
  BY <1>5, <1>6, <1>10
<1> HIDE DEF h
<1>14. SumFunctionOnSet(f, I) = SumFunctionOnSet(h, I) + SumFunctionOnSet(C, I)
  <2>1. \A i \in I : h[i] \in Nat /\ C[i] \in Nat /\ f[i] = h[i] + C[i]
    BY <1>11
  <2> QED
    BY <1>4, <2>1, SumPlus
<1>15. SumFunctionOnSet(h, I) = SumFunctionOnSet(h, J)
  <2>1. \A i \in I : h[i] \in Nat
    BY <1>11
  <2> QED
    BY <1>3, <1>4, <1>13, <2>1, SumSupport
<1>16. SumFunctionOnSet(h, J) = SumFunctionOnSet(g, J)
  <2>1. \A i \in J : h[i] \in Nat
    BY <1>3, <1>11
  <2> QED
    BY <1>4, <1>12, <2>1, SumSame
<1>17. SumFunctionOnSet(C, I) \in Nat
  <2>1. \A i \in I : C[i] \in Nat
    BY <1>11
  <2> QED
    BY <1>4, <2>1, SumType
<1>18. Total(r, J, now) = SumFunctionOnSet(g, J) /\ Total(s, I, now) = SumFunctionOnSet(f, I)
  BY DEF Total, f, g
<1> QED
  BY <1>4, <1>14, <1>15, <1>16, <1>17, <1>18 DEF C, r

\* The cuts of an account's balance, and of its trial.
LEMMA TakenBalance ==
  ASSUME PeriodsAssumption, NEW s, ListOK(s), now \in Nat, NEW n \in Nat
  PROVE  LET r == Taken(s, n)
             d == SumFunctionOnSet(Cuts(s, n), Others(s))
             t == SumFunctionOnSet(Cuts(s, n), Trials(s))
         IN /\ DaysOf(r, now) + d = DaysOf(s, now) /\ TrialOf(r, now) + t = TrialOf(s, now)
            /\ DaysOf(r, now) \in Nat /\ TrialOf(r, now) \in Nat /\ d \in Nat /\ t \in Nat
            /\ d + t = Below(n * Day, Total(s, Live(s), now))
<1> DEFINE r == Taken(s, n)
           C == Cuts(s, n)
           T == Trials(s)
           D == Others(s)
           L == Live(s)
           K == Kept(s)
<1>1. s \in Seq(PeriodType) /\ \A i \in K : i \in DOMAIN s
  BY KeptFields
<1>2. /\ Kept(r) \subseteq Kept(s)
      /\ \A i \in Kept(s) : /\ r[i].kind = s[i].kind /\ Cut(s, n, i) \in Nat
                            /\ i \notin Live(s) => Cut(s, n, i) = 0
  <2> HIDE DEF r
  <2>1. LET q == Taken(s, n) IN
         /\ Kept(q) \subseteq Kept(s)
         /\ \A i \in Kept(s) :
              /\ q[i].kind = s[i].kind /\ q[i].starts = s[i].starts
              /\ q[i].ends = s[i].ends - Cut(s, n, i)
              /\ Cut(s, n, i) \in Nat /\ Cut(s, n, i) <= Rest(s[i], now)
              /\ i \notin Live(s) => Cut(s, n, i) = 0
              /\ i \in Kept(q) => /\ Rest(q[i], now) = Rest(s[i], now) - Cut(s, n, i)
                                  /\ Cut(s, n, i) = 0 \/ Cut(s, n, i) # Rest(s[i], now)
              /\ i \notin Kept(q) => Cut(s, n, i) = Rest(s[i], now)
    BY TakenRest
  <2> QED
    BY <2>1 DEF r
<1>3. Others(r) = D \intersect Kept(r) /\ Trials(r) = T \intersect Kept(r)
  <2> HIDE DEF r
  <2> QED
    BY <1>2 DEF Others, Trials
<1>4. D \in SUBSET K /\ T \in SUBSET K
  BY DEF Others, Trials
<1>5. /\ Total(r, Others(r), now) + SumFunctionOnSet(C, D) = Total(s, D, now)
      /\ Total(r, Others(r), now) \in Nat /\ SumFunctionOnSet(C, D) \in Nat
  <2> HIDE DEF D
  <2> QED
    BY <1>3, <1>4, TakenPart
<1>6. /\ Total(r, Trials(r), now) + SumFunctionOnSet(C, T) = Total(s, T, now)
      /\ Total(r, Trials(r), now) \in Nat /\ SumFunctionOnSet(C, T) \in Nat
  <2> HIDE DEF T
  <2> QED
    BY <1>3, <1>4, TakenPart
<1>7. SumFunctionOnSet(C, K) = SumFunctionOnSet(C, T) + SumFunctionOnSet(C, D)
  <2>1. /\ IsFiniteSet(T) /\ IsFiniteSet(D) /\ K = T \union D /\ T \intersect D = {}
    BY <1>1, Subsets
  <2>2. \A i \in K : C[i] \in Nat
    BY <1>1, <1>2 DEF Cuts
  <2> HIDE DEF C, T, D, K
  <2>3. \A i \in T \union D : C[i] \in Nat
    BY <2>1, <2>2
  <2>4. SumFunctionOnSet(C, T \union D) = SumFunctionOnSet(C, T) + SumFunctionOnSet(C, D)
    BY <2>1, <2>3, SumUnion
  <2> QED
    BY <2>1, <2>4
<1>8. SumFunctionOnSet(C, K) = SumFunctionOnSet(C, L)
  <2>1. L \in SUBSET K /\ IsFiniteSet(K)
    BY <1>1, LiveFields, Subsets
  <2>2. \A i \in K : C[i] \in Nat
    BY <1>1, <1>2 DEF Cuts
  <2>3. \A i \in K \ L : C[i] = 0
    BY <1>1, <1>2 DEF Cuts
  <2> HIDE DEF C, L, K
  <2> QED
    BY <2>1, <2>2, <2>3, SumSupport
<1>9. SumFunctionOnSet(C, L) = Below(n * Day, Total(s, L, now))
  BY CutsAll
<1> DEFINE d == SumFunctionOnSet(C, D)
           t == SumFunctionOnSet(C, T)
<1>10. d + t = Below(n * Day, Total(s, L, now))
  <2>1. d \in Nat /\ t \in Nat
    BY <1>5, <1>6
  <2>2. t + d = Below(n * Day, Total(s, L, now))
    BY <1>7, <1>8, <1>9
  <2> HIDE DEF d, t
  <2>3. d + t = t + d
    BY <2>1
  <2> QED
    BY <2>2, <2>3
<1> QED
  BY <1>5, <1>6, <1>10 DEF DaysOf, TrialOf

\* An account from which is taken: the trial is the last to go.
Draws(s, r) ==
  /\ DaysOf(r, now) <= DaysOf(s, now)
  /\ TrialOf(r, now) <= TrialOf(s, now)
  /\ TrialOf(r, now) < TrialOf(s, now) => DaysOf(r, now) = 0
  /\ Whole(s, now) => Whole(r, now)

LEMMA DrawsTwice ==
  ASSUME now \in Nat, NEW s \in Seq(PeriodType), NEW r \in Seq(PeriodType),
         NEW q \in Seq(PeriodType), Draws(s, r), Draws(r, q)
  PROVE  Draws(s, q)
<1>1. /\ DaysOf(s, now) \in Nat /\ DaysOf(r, now) \in Nat /\ DaysOf(q, now) \in Nat
      /\ TrialOf(s, now) \in Nat /\ TrialOf(r, now) \in Nat /\ TrialOf(q, now) \in Nat
  <2>1. now \in Int
    OBVIOUS
  <2> QED
    BY <2>1, BalanceType
<1> QED
  BY <1>1 DEF Draws

LEMMA DrawsNone ==
  ASSUME now \in Nat, NEW s \in Seq(PeriodType)
  PROVE  Draws(s, s)
<1>1. DaysOf(s, now) \in Nat /\ TrialOf(s, now) \in Nat
  <2>1. now \in Int
    OBVIOUS
  <2> QED
    BY <2>1, BalanceType
<1> QED
  BY <1>1 DEF Draws

LEMMA TakenWhole ==
  ASSUME PeriodsAssumption, NEW s, ListOK(s), now \in Nat, NEW n \in Nat, Whole(s, now)
  PROVE  Whole(Taken(s, n), now)
<1> DEFINE r == Taken(s, n)
<1>1. \A i \in Kept(s) : /\ s[i].starts \in Nat /\ s[i].ends \in Nat /\ s[i].starts < s[i].ends
  BY KeptFields
<1>2. /\ Kept(r) \subseteq Kept(s)
      /\ \A i \in Kept(s) :
           /\ r[i].kind = s[i].kind /\ r[i].starts = s[i].starts
           /\ r[i].ends = s[i].ends - Cut(s, n, i)
           /\ Cut(s, n, i) \in Nat
           /\ i \in Kept(r) => Cut(s, n, i) = 0 \/ Cut(s, n, i) # Rest(s[i], now)
           /\ i \notin Kept(r) => Cut(s, n, i) = Rest(s[i], now)
  BY TakenRest
<1> HIDE DEF r
<1>3. ASSUME NEW i \in Kept(r), r[i].starts > now
      PROVE  \E j \in Kept(r) : r[j].ends = r[i].starts
  <2>1. i \in Kept(s) /\ s[i].starts > now /\ r[i].starts = s[i].starts
    BY <1>2, <1>3
  <2>2. PICK j \in Kept(s) : s[j].ends = s[i].starts
    BY <2>1 DEF Whole, NoGap
  <2>3. s[j].ends > now /\ s[i].ends > now /\ s[j].ends < s[i].ends
    BY <1>1, <2>1, <2>2
  <2>4. i \in Live(s) /\ j \in Live(s)
    BY <2>1, <2>2, <2>3, LiveKept
  <2>5. Cut(s, n, j) = 0
    <3> SUFFICES ASSUME Cut(s, n, j) # 0 PROVE FALSE
      OBVIOUS
    <3>1. Cut(s, n, j) > 0
      BY <1>2, <2>2
    <3>2. Cut(s, n, i) = Rest(s[i], now)
      BY <2>3, <2>4, <3>1, CutLater
    <3>3. Rest(s[i], now) > 0
      BY <2>4, LiveFields
    <3>4. Cut(s, n, i) = 0 \/ Cut(s, n, i) # Rest(s[i], now)
      BY <1>2, <1>3
    <3> QED
      BY <3>2, <3>3, <3>4
  <2>6. j \in Kept(r)
    <3>1. Rest(s[j], now) > 0
      BY <2>4, LiveFields
    <3> QED
      BY <1>2, <2>2, <2>5, <3>1
  <2>7. r[j].ends = s[j].ends
    BY <1>1, <1>2, <2>2, <2>5
  <2> QED
    BY <2>1, <2>2, <2>6, <2>7
<1>4. ASSUME NEW i \in Kept(r), NEW j \in Kept(r), r[i].kind = "paid", r[j].kind # "paid"
      PROVE  r[i].ends <= now \/ r[j].ends <= now
  <2>1. /\ i \in Kept(s) /\ j \in Kept(s) /\ s[i].kind = "paid" /\ s[j].kind # "paid"
        /\ r[i].ends = s[i].ends - Cut(s, n, i) /\ r[j].ends = s[j].ends - Cut(s, n, j)
        /\ Cut(s, n, i) \in Nat /\ Cut(s, n, j) \in Nat
    BY <1>2, <1>4
  <2>2. s[i].ends <= now \/ s[j].ends <= now
    BY <2>1 DEF Whole, FreeApart
  <2>3. s[i].ends \in Nat /\ s[j].ends \in Nat
    BY <1>1, <2>1
  <2> QED
    BY <2>1, <2>2, <2>3
<1> QED
  BY <1>3, <1>4 DEF Whole, NoGap, FreeApart, r

\* A trial is what the account began with: all else ends later.
LEMMA TrialEndsFirst ==
  ASSUME NEW s, ListOK(s), NEW t \in Trials(s), NEW i \in Kept(s), i # t
  PROVE  s[t].ends < s[i].ends
<1>1. t \in Kept(s) /\ s[t].starts = 0
  BY KeptFields DEF Trials
<1>2. /\ s[t].ends \in Nat /\ s[i].starts \in Nat /\ s[i].ends \in Nat
      /\ s[i].starts < s[i].ends
  BY <1>1, KeptFields
<1>3. s[i].ends <= s[t].starts \/ s[t].ends <= s[i].starts
  BY <1>1 DEF ListOK, Apart
<1> QED
  BY <1>1, <1>2, <1>3

LEMMA TakenDraws ==
  ASSUME PeriodsAssumption, NEW s, ListOK(s), now \in Nat, NEW n \in Nat
  PROVE  Draws(s, Taken(s, n))
<1> DEFINE r == Taken(s, n)
           d == SumFunctionOnSet(Cuts(s, n), Others(s))
           t == SumFunctionOnSet(Cuts(s, n), Trials(s))
<1>1. /\ DaysOf(r, now) + d = DaysOf(s, now) /\ TrialOf(r, now) + t = TrialOf(s, now)
      /\ DaysOf(r, now) \in Nat /\ TrialOf(r, now) \in Nat /\ d \in Nat /\ t \in Nat
  BY TakenBalance
<1>2. ASSUME TrialOf(r, now) < TrialOf(s, now)
      PROVE  DaysOf(r, now) = 0
  <2>1. t # 0
    <3> HIDE DEF t, d, r
    <3> QED
      BY <1>1, <1>2
  <2>2. PICK x \in Trials(s) : Cuts(s, n)[x] # 0
    <3>1. s \in Seq(PeriodType)
      BY KeptFields
    <3>2. IsFiniteSet(Trials(s))
      BY <3>1, Subsets
    <3> QED
      BY <2>1, <3>2, SumZero
  <2>3. x \in Kept(s) /\ x \in DOMAIN s
    BY KeptFields DEF Trials
  <2>4. Cut(s, n, x) # 0 /\ Cut(s, n, x) \in Nat /\ x \in Live(s)
    <3>1. Cuts(s, n)[x] = Cut(s, n, x)
      BY <2>3 DEF Cuts
    <3>2. Cut(s, n, x) \in Nat /\ (x \notin Live(s) => Cut(s, n, x) = 0)
      BY <2>3, TakenRest
    <3> QED
      BY <2>2, <3>1, <3>2
  <2>5. ASSUME NEW i \in Others(r)
        PROVE  Rest(r[i], now) = 0
    <3>1. i \in Kept(r) /\ i \in Kept(s) /\ i # x
      <4>1. i \in Kept(r) /\ r[i].kind # "trial"
        BY DEF Others
      <4>2. i \in Kept(s) /\ r[i].kind = s[i].kind
        BY <4>1, TakenRest
      <4> QED
        BY <4>1, <4>2 DEF Trials
    <3>2. /\ Rest(r[i], now) = Rest(s[i], now) - Cut(s, n, i)
          /\ Cut(s, n, i) \in Nat /\ Cut(s, n, i) <= Rest(s[i], now)
      BY <3>1, TakenRest
    <3>3. s[i] \in PeriodType /\ s[i].ends \in Nat
      BY <3>1, KeptFields
    <3>4. CASE i \in Live(s)
      <4>1. s[x].ends < s[i].ends
        BY <3>1, TrialEndsFirst
      <4>2. Cut(s, n, x) > 0
        BY <2>4
      <4>3. Cut(s, n, i) = Rest(s[i], now)
        BY <2>4, <3>4, <4>1, <4>2, CutLater
      <4>4. Rest(s[i], now) \in Nat
        BY <3>3, RestType
      <4> QED
        BY <3>2, <4>3, <4>4
    <3>5. CASE i \notin Live(s)
      <4>1. s[i].ends <= now
        BY <3>1, <3>3, <3>5, LiveKept
      <4>2. Rest(s[i], now) = 0
        BY <3>3, <4>1, RestTick
      <4> QED
        BY <3>2, <4>2
    <3> QED
      BY <3>4, <3>5
  <2>6. r \in Seq(PeriodType) /\ now \in Int
    BY KeptFields, TakenIs
  <2> HIDE DEF r
  <2>7. Others(r) \in SUBSET (DOMAIN r)
    BY <2>6, Subsets
  <2> QED
    BY <2>5, <2>6, <2>7, TotalZero DEF DaysOf
<1> HIDE DEF d, t
<1>3. DaysOf(r, now) <= DaysOf(s, now) /\ TrialOf(r, now) <= TrialOf(s, now)
  <2> HIDE DEF r
  <2> QED
    BY <1>1
<1>4. Whole(s, now) => Whole(r, now)
  BY TakenWhole
<1> QED
  BY <1>2, <1>3, <1>4 DEF Draws

--------------------------------------------------------------------------------
(* Transfers and refunds                                                   *)

\* The sender of a transfer gives days it bought, so its trial is not touched.
LEMMA TransferSends ==
  ASSUME PeriodsAssumption, NEW s, ListOK(s), now \in Nat, NEW n \in Nat,
         n * Day <= Total(s, {i \in Live(s) : s[i].kind = "paid"}, now)
  PROVE  /\ DaysOf(Taken(s, n), now) = DaysOf(s, now) - n * Day
         /\ TrialOf(Taken(s, n), now) = TrialOf(s, now)
<1> DEFINE P == {i \in Live(s) : s[i].kind = "paid"}
           L == Live(s)
<1>1. /\ s \in Seq(PeriodType) /\ now \in Int /\ n * Day \in Nat
      /\ L \in SUBSET (DOMAIN s) /\ P \in SUBSET (DOMAIN s) /\ P \subseteq L
  <2>1. s \in Seq(PeriodType) /\ n * Day \in Nat
    BY KeptFields, DaysType
  <2>2. L \in SUBSET (DOMAIN s)
    BY LiveFields
  <2>3. P \in SUBSET (DOMAIN s) /\ P \subseteq L
    BY <2>2
  <2>4. now \in Int
    OBVIOUS
  <2> QED
    BY <2>1, <2>2, <2>3, <2>4
<1>2. ASSUME NEW I \in SUBSET (DOMAIN s), P \subseteq I
      PROVE  n * Day <= Total(s, I, now) /\ Total(s, I, now) \in Nat
  <2> HIDE DEF P, L
  <2>1. \A i \in P : Rest(s[i], now) <= Rest(s[i], now)
    <3> TAKE i \in P
    <3>1. s[i] \in PeriodType
      BY <1>1, ListFields
    <3>2. Rest(s[i], now) \in Nat
      BY <1>1, <3>1, RestType
    <3> QED
      BY <3>2
  <2>2. Total(s, P, now) <= Total(s, I, now)
    BY <1>1, <1>2, <2>1, TotalGrows
  <2>3. Total(s, P, now) \in Nat /\ Total(s, I, now) \in Nat
    BY <1>1, <1>2, TotalType
  <2>4. n * Day <= Total(s, P, now)
    BY DEF P
  <2> QED
    BY <1>1, <2>2, <2>3, <2>4
<1>3. Below(n * Day, Total(s, L, now)) = n * Day
  <2>1. n * Day <= Total(s, L, now) /\ Total(s, L, now) \in Nat
    BY <1>1, <1>2
  <2> HIDE DEF L
  <2> QED
    BY <1>1, <2>1 DEF Below
<1>4. \A t \in Trials(s) : Cuts(s, n)[t] = 0
  <2> TAKE t \in Trials(s)
  <2>1. t \in Kept(s) /\ t \in DOMAIN s /\ s[t].kind = "trial"
    BY KeptFields DEF Trials
  <2>2. Cuts(s, n)[t] = Cut(s, n, t)
    BY <2>1 DEF Cuts
  <2>3. CASE t \notin Live(s)
    BY <2>2, <2>3 DEF Cut
  <2>4. CASE t \in Live(s)
    <3>1. Later(s, t) \in SUBSET (DOMAIN s)
      BY <2>4, LiveFields
    <3>2. P \subseteq Later(s, t)
      <4> SUFFICES ASSUME NEW i \in P PROVE i \in Later(s, t)
        OBVIOUS
      <4>1. i \in Kept(s) /\ i # t /\ i \in Live(s)
        BY <2>1, LiveKept
      <4>2. s[t].ends < s[i].ends
        BY <4>1, TrialEndsFirst
      <4>3. s[t].ends \in Nat /\ s[i].ends \in Nat
        BY <2>1, <4>1, KeptFields
      <4> QED
        BY <4>1, <4>2, <4>3 DEF Later
    <3>3. n * Day <= Total(s, Later(s, t), now)
      BY <1>2, <3>1, <3>2
    <3>4. /\ Cut(s, n, t)
                = Below(Rest(s[t], now), Above(0, n * Day - Total(s, Later(s, t), now)))
          /\ Total(s, Later(s, t), now) \in Nat /\ n * Day \in Nat /\ Rest(s[t], now) \in Nat
      BY <2>4, CutIs
    <3>5. Cut(s, n, t) = 0
      <4> HIDE DEF P, L
      <4> QED
        BY <3>3, <3>4 DEF Below, Above
    <3> QED
      BY <2>2, <3>5
  <2> QED
    BY <2>3, <2>4
<1> DEFINE r == Taken(s, n)
           d == SumFunctionOnSet(Cuts(s, n), Others(s))
           t == SumFunctionOnSet(Cuts(s, n), Trials(s))
<1>5. t = 0
  <2>1. IsFiniteSet(Trials(s))
    BY <1>1, Subsets
  <2> QED
    BY <1>4, <2>1, SumZero
<1>6. /\ DaysOf(r, now) + d = DaysOf(s, now) /\ TrialOf(r, now) + t = TrialOf(s, now)
      /\ DaysOf(r, now) \in Nat /\ TrialOf(r, now) \in Nat /\ d \in Nat /\ t \in Nat
      /\ d + t = Below(n * Day, Total(s, Live(s), now))
  BY TakenBalance
<1>7. d + t = n * Day
  BY <1>3, <1>6
<1> HIDE DEF r, d, t
<1>8. DaysOf(r, now) = DaysOf(s, now) - n * Day /\ TrialOf(r, now) = TrialOf(s, now)
  BY <1>1, <1>5, <1>6, <1>7, SMTT(30)
<1> QED
  BY <1>8 DEF r

\* _shrink_subscription_after_refund, of a period no other one waits behind.
LEMMA ShrunkDraws ==
  ASSUME PeriodsAssumption, NEW s, ListOK(s), now \in Nat, NEW b \in DOMAIN s,
         s[b].kind = "paid", NEW n \in Nat, ~Queued(s, b)
  PROVE  Draws(s, Shrunk(s, b, n))
<1> DEFINE r == Shrunk(s, b, n)
<1>1. /\ s \in Seq(PeriodType) /\ now \in Int
      /\ \A i \in Kept(s) : /\ i \in DOMAIN s /\ s[i].starts \in Nat /\ s[i].ends \in Nat
                            /\ s[i].starts < s[i].ends
  BY KeptFields
<1>2. LessIn(s, r, b, n)
  BY <1>1, ShrunkIs
<1> HIDE DEF r
<1>3. /\ r \in Seq(PeriodType) /\ DOMAIN r = DOMAIN s
      /\ \A i \in DOMAIN s :
           /\ r[i].kind = s[i].kind /\ r[i].starts = s[i].starts
           /\ r[i].ends = IF i = b THEN Above(s[i].ends - n * Day, s[i].starts) ELSE s[i].ends
           /\ r[i].off = (s[i].off \/ (i = b /\ s[i].ends - n * Day <= s[i].starts))
  BY <1>2 DEF LessIn
<1>4. ASSUME NEW i \in DOMAIN s, i # b
      PROVE  r[i].ends = s[i].ends /\ (i \in Kept(r) <=> i \in Kept(s))
  <2>1. r[i].off = (s[i].off \/ (i = b /\ s[i].ends - n * Day <= s[i].starts))
    BY <1>3
  <2>2. ~r[i].off <=> ~s[i].off
    BY <1>4, <2>1, Zenon
  <2> QED
    BY <1>3, <1>4, <2>2 DEF Kept
<1>5. ASSUME NEW i \in Kept(r)
      PROVE  /\ i \in Kept(s) /\ i \in DOMAIN s
             /\ r[i].kind = s[i].kind /\ r[i].starts = s[i].starts
             /\ r[i].ends \in Nat /\ r[i].ends <= s[i].ends
  <2>1. i \in DOMAIN s /\ ~r[i].off
    BY <1>3 DEF Kept
  <2>2. r[i].off = (s[i].off \/ (i = b /\ s[i].ends - n * Day <= s[i].starts))
    BY <1>3, <2>1
  <2>3. ~s[i].off
    BY <2>1, <2>2, Zenon
  <2>4. i \in Kept(s)
    BY <2>1, <2>3 DEF Kept
  <2>5. /\ r[i].ends = IF i = b THEN Above(s[i].ends - n * Day, s[i].starts) ELSE s[i].ends
        /\ r[i].kind = s[i].kind /\ r[i].starts = s[i].starts
    BY <1>3, <2>1
  <2>6. s[i].starts \in Nat /\ s[i].ends \in Nat /\ s[i].starts < s[i].ends /\ n * Day \in Nat
    BY <1>1, <2>4, DaysType
  <2>7. r[i].ends \in Nat /\ r[i].ends <= s[i].ends
    BY <2>5, <2>6 DEF Above
  <2> QED
    BY <2>1, <2>4, <2>5, <2>7
<1>6. TrialOf(r, now) = TrialOf(s, now)
  <2>1. \A i \in DOMAIN s : r[i].kind = s[i].kind
    BY <1>3
  <2>2. Trials(r) \subseteq Trials(s)
    BY <1>5 DEF Trials
  <2>3. Trials(s) \subseteq Trials(r)
    <3> SUFFICES ASSUME NEW i \in Kept(s), s[i].kind = "trial" PROVE i \in Trials(r)
      BY DEF Trials
    <3>1. i \in DOMAIN s /\ i # b
      BY <1>1
    <3>2. i \in Kept(r)
      BY <1>4, <3>1
    <3> QED
      BY <2>1, <3>1, <3>2 DEF Trials
  <2> DEFINE I == Trials(s)
  <2>4. Trials(r) = I /\ I \in SUBSET (DOMAIN s) /\ I \in SUBSET (DOMAIN r)
    BY <1>1, <1>3, <2>2, <2>3, Subsets
  <2>5. \A i \in I : Rest(s[i], now) = Rest(r[i], now)
    <3> TAKE i \in I
    <3>1. i \in DOMAIN s /\ i # b
      BY <1>1 DEF Trials
    <3>2. r[i].ends = s[i].ends /\ r[i].starts = s[i].starts
      BY <1>3, <1>4, <3>1
    <3> QED
      BY <3>2 DEF Rest
  <2> HIDE DEF I
  <2>6. Total(s, I, now) = Total(r, I, now)
    <3>1. s \in Seq(PeriodType) /\ r \in Seq(PeriodType) /\ now \in Int
      BY <1>1, <1>3
    <3> HIDE DEF r
    <3> QED
      BY <2>4, <2>5, <3>1, TotalSame, SMTT(30)
  <2> QED
    BY <2>4, <2>6 DEF TrialOf, I
<1>7. DaysOf(r, now) <= DaysOf(s, now)
  <2> DEFINE I == Others(s)
             J == Others(r)
  <2>1. I \in SUBSET (DOMAIN s) /\ J \in SUBSET (DOMAIN r)
    BY <1>1, <1>3, Subsets
  <2>2. J \subseteq I
    BY <1>5 DEF Others
  <2>3. \A i \in J : Rest(r[i], now) <= Rest(s[i], now)
    <3> TAKE i \in J
    <3> DEFINE p == s[i]
               q == r[i]
    <3>1. i \in Kept(r)
      BY DEF Others
    <3>2. q.starts = p.starts /\ q.ends \in Nat /\ q.ends <= p.ends /\ p.starts \in Nat /\ p.ends \in Nat
      BY <1>1, <1>5, <3>1
    <3> HIDE DEF p, q
    <3>3. Rest(q, now) <= Rest(p, now)
      BY <3>2 DEF Rest, Above
    <3> QED
      BY <3>3 DEF p, q
  <2> HIDE DEF I, J
  <2>4. Total(r, J, now) <= Total(s, I, now)
    BY <1>1, <1>3, <2>1, <2>2, <2>3, TotalGrows
  <2> QED
    BY <2>4 DEF DaysOf, I, J
<1>8. NoGap(s, now) => NoGap(r, now)
  <2> SUFFICES ASSUME NoGap(s, now), NEW i \in Kept(r), r[i].starts > now
               PROVE  \E j \in Kept(r) : r[j].ends = r[i].starts
    BY DEF NoGap
  <2>1. i \in Kept(s) /\ s[i].starts > now /\ r[i].starts = s[i].starts
    BY <1>5
  <2>2. PICK j \in Kept(s) : s[j].ends = s[i].starts
    BY <2>1 DEF NoGap
  <2>3. j # b
    <3> SUFFICES ASSUME j = b PROVE FALSE
      OBVIOUS
    <3>1. s[i].starts \in Nat /\ s[i].ends \in Nat /\ s[i].starts < s[i].ends
      BY <1>1, <2>1
    <3>2. s[i].ends > now /\ s[i].starts >= s[b].ends
      BY <2>1, <2>2, <3>1
    <3>3. i \in Live(s)
      BY <2>1, <3>2, LiveKept
    <3> QED
      BY <3>2, <3>3 DEF Queued
  <2>4. j \in Kept(r) /\ r[j].ends = s[j].ends
    BY <1>1, <1>4, <2>2, <2>3
  <2> QED
    BY <2>1, <2>2, <2>4
<1>9. FreeApart(s, now) => FreeApart(r, now)
  <2> SUFFICES ASSUME FreeApart(s, now), NEW i \in Kept(r), NEW j \in Kept(r),
                      r[i].kind = "paid", r[j].kind # "paid"
               PROVE  r[i].ends <= now \/ r[j].ends <= now
    BY DEF FreeApart
  <2>1. /\ i \in Kept(s) /\ s[i].kind = "paid" /\ r[i].ends \in Nat /\ r[i].ends <= s[i].ends
        /\ j \in Kept(s) /\ s[j].kind # "paid" /\ r[j].ends \in Nat /\ r[j].ends <= s[j].ends
    BY <1>5
  <2>2. s[i].ends <= now \/ s[j].ends <= now
    BY <2>1 DEF FreeApart
  <2>3. s[i].ends \in Nat /\ s[j].ends \in Nat
    BY <1>1, <2>1
  <2> QED
    BY <2>1, <2>2, <2>3
<1>10. DaysOf(s, now) \in Nat /\ TrialOf(s, now) \in Nat
  BY <1>1, BalanceType
<1>11. Draws(s, r)
  BY <1>6, <1>7, <1>8, <1>9, <1>10 DEF Draws, Whole
<1> QED
  BY <1>11 DEF r

\* Of the accounts S, no list is more than drawn from.
AllDrawn(all, ps, S) == \A w \in S : Draws(all[w], ps[w])

LEMMA AllDrawnTwice ==
  ASSUME PeriodsAssumption, now \in Nat, NEW S \in SUBSET Users,
         NEW all \in [Users -> Seq(PeriodType)], NEW ps \in [Users -> Seq(PeriodType)],
         NEW qs \in [Users -> Seq(PeriodType)], AllDrawn(all, ps, S), AllDrawn(ps, qs, S)
  PROVE  AllDrawn(all, qs, S)
<1> SUFFICES ASSUME NEW w \in S PROVE Draws(all[w], qs[w])
  BY DEF AllDrawn
<1> DEFINE s == all[w]
           r == ps[w]
           q == qs[w]
<1>1. /\ s \in Seq(PeriodType) /\ r \in Seq(PeriodType) /\ q \in Seq(PeriodType)
      /\ Draws(s, r) /\ Draws(r, q)
  BY DEF AllDrawn
<1> HIDE DEF s, r, q
<1>2. Draws(s, q)
  BY <1>1, DrawsTwice
<1> QED
  BY <1>2 DEF s, q

\* Days taken from one account's list.
LEMMA TakenOne ==
  ASSUME PeriodsAssumption, now \in Nat, NEW ps \in [Users -> Seq(PeriodType)],
         \A w \in Users : ListOK(ps[w]), NEW v \in Users, NEW n \in Nat
  PROVE  /\ AllDrawn(ps, [ps EXCEPT ![v] = Taken(@, n)], Users)
         /\ \A w \in Users : w # v => [ps EXCEPT ![v] = Taken(@, n)][w] = ps[w]
<1> DEFINE r == Taken(ps[v], n)
           qs == [ps EXCEPT ![v] = r]
<1>1. qs[v] = r /\ \A w \in Users : w # v => qs[w] = ps[w]
  OBVIOUS
<1>2. Draws(ps[v], r)
  <2> DEFINE s == ps[v]
  <2>1. ListOK(s)
    OBVIOUS
  <2> HIDE DEF s
  <2>2. Draws(s, Taken(s, n))
    BY <2>1, TakenDraws
  <2> QED
    BY <2>2 DEF s
<1>3. \A w \in Users : Draws(ps[w], ps[w])
  <2> TAKE w \in Users
  <2> DEFINE s == ps[w]
  <2>1. s \in Seq(PeriodType)
    OBVIOUS
  <2> HIDE DEF s
  <2>2. Draws(s, s)
    BY <2>1, DrawsNone
  <2> QED
    BY <2>2 DEF s
<1>4. qs = [ps EXCEPT ![v] = Taken(@, n)]
  OBVIOUS
<1> HIDE DEF qs, r
<1>5. AllDrawn(ps, qs, Users)
  <2> SUFFICES ASSUME NEW w \in Users PROVE Draws(ps[w], qs[w])
    BY DEF AllDrawn
  <2>1. CASE w = v
    BY <1>1, <1>2, <2>1
  <2>2. CASE w # v
    BY <1>1, <1>3, <2>2
  <2> QED
    BY <2>1, <2>2
<1> QED
  BY <1>1, <1>4, <1>5

\* claw_back draws from the receivers, transfer by transfer.
LEMMA ClawOneDraws ==
  ASSUME PeriodsAssumption, now \in Nat, Len(transfers) \in Nat,
         NEW all \in [Users -> Seq(PeriodType)],
         NEW u, NEW n \in Int, NEW acc, ClawOK(all, acc), NEW k \in 1 .. Len(transfers)
  PROVE  AllDrawn(acc.periods, ClawOne(u, n, acc, k).periods, Users)
<1> DEFINE t == acc.transfers[k]
           v == t.to
           want == Below(t.days - t.reverted, n - acc.got)
           got == TakenDays(acc.periods[t.to], want)
           ps == acc.periods
           qs == [acc.periods EXCEPT ![t.to] = Taken(@, want)]
           next == [periods |-> qs,
                    transfers |-> [acc.transfers EXCEPT ![k].reverted = @ + got],
                    got |-> acc.got + got,
                    hit |-> acc.hit \union {t.to}]
<1>1. ClawOne(u, n, acc, k) = IF t.from # u \/ want <= 0 THEN acc ELSE next
  BY DEF ClawOne
<1>2. ps \in [Users -> Seq(PeriodType)] /\ (\A w \in Users : ListOK(ps[w])) /\ acc.got \in Nat
  BY DEF ClawOK
<1>3. t \in TransferType
  <2>1. acc.transfers \in Seq(TransferType) /\ Len(acc.transfers) = Len(transfers)
    BY DEF ClawOK
  <2>2. k \in 1 .. Len(acc.transfers)
    BY <2>1
  <2> QED
    BY <2>1, <2>2, ElementOfSeq
<1>4. v \in Users /\ t.days \in Nat /\ t.reverted \in Nat
  BY <1>3 DEF TransferType
<1>5. want \in Int
  <2> HIDE DEF t, got
  <2>1. t.days - t.reverted \in Int /\ n - acc.got \in Int
    BY <1>2, <1>4, SMTT(30)
  <2> QED
    BY <2>1 DEF Below
<1>6. qs = [ps EXCEPT ![v] = Taken(@, want)]
  OBVIOUS
<1>7. next.periods = qs
  OBVIOUS
<1> HIDE DEF want, ps, qs, v, next
<1>8. CASE t.from # u \/ want <= 0
  <2>1. ClawOne(u, n, acc, k).periods = ps
    BY <1>1, <1>8 DEF ps
  <2>2. AllDrawn(ps, ps, Users)
    <3> SUFFICES ASSUME NEW w \in Users PROVE Draws(ps[w], ps[w])
      BY DEF AllDrawn
    <3> DEFINE s == ps[w]
    <3>1. s \in Seq(PeriodType)
      BY <1>2
    <3> HIDE DEF s
    <3>2. Draws(s, s)
      BY <3>1, DrawsNone
    <3> QED
      BY <3>2 DEF s
  <2> QED
    BY <2>1, <2>2 DEF ps
<1>9. CASE ~(t.from # u \/ want <= 0)
  <2>1. ClawOne(u, n, acc, k).periods = qs
    BY <1>1, <1>7, <1>9
  <2>2. want \in Nat
    BY <1>5, <1>9
  <2>3. AllDrawn(ps, [ps EXCEPT ![v] = Taken(@, want)], Users)
    BY <1>2, <1>4, <2>2, TakenOne
  <2> QED
    BY <1>6, <2>1, <2>3 DEF ps
<1> QED
  BY <1>8, <1>9

LEMMA ClawBackDraws ==
  ASSUME PeriodsAssumption, now \in Nat, transfers \in Seq(TransferType),
         NEW all \in [Users -> Seq(PeriodType)], \A w \in Users : ListOK(all[w]),
         NEW u, NEW n \in Int
  PROVE  AllDrawn(all, ClawBack(all, u, n).periods, Users)
<1> DEFINE N == Len(transfers)
           OK(acc) == ClawOK(all, acc) /\ AllDrawn(all, acc.periods, Users)
<1>1. N \in Nat
  OBVIOUS
<1>2. PICK claw : /\ claw[0] = ClawStart(all)
                  /\ \A k \in 1 .. N : claw[k] = ClawOne(u, n, claw[k - 1], N + 1 - k)
                  /\ claw[N] = ClawBack(all, u, n)
  BY <1>1, ClawSteps
<1> DEFINE P == {m \in 0 .. N : OK(claw[m])}
<1>3. OK(ClawStart(all))
  <2>1. \A w \in Users : Grown(all[w], all[w])
    BY ListFields DEF Grown
  <2>2. ClawOK(all, ClawStart(all))
    BY <2>1 DEF ClawOK, ClawStart
  <2>3. ClawStart(all).periods = all
    BY DEF ClawStart
  <2>4. AllDrawn(all, all, Users)
    <3> SUFFICES ASSUME NEW w \in Users PROVE Draws(all[w], all[w])
      BY DEF AllDrawn
    <3> DEFINE s == all[w]
    <3>1. s \in Seq(PeriodType)
      OBVIOUS
    <3> HIDE DEF s
    <3>2. Draws(s, s)
      BY <3>1, DrawsNone
    <3> QED
      BY <3>2 DEF s
  <2> QED
    BY <2>2, <2>3, <2>4
<1>4. ASSUME NEW acc, OK(acc), NEW k \in 1 .. N
      PROVE  OK(ClawOne(u, n, acc, k))
  <2> DEFINE nx == ClawOne(u, n, acc, k)
  <2>1. ClawOK(all, acc) /\ AllDrawn(all, acc.periods, Users)
    BY <1>4
  <2>2. ClawOK(all, nx)
    BY <1>1, <2>1, ClawOneOK
  <2>3. AllDrawn(acc.periods, nx.periods, Users)
    BY <1>1, <2>1, ClawOneDraws
  <2> HIDE DEF nx
  <2>4. /\ acc.periods \in [Users -> Seq(PeriodType)] /\ nx.periods \in [Users -> Seq(PeriodType)]
        /\ Users \in SUBSET Users
    BY <2>1, <2>2 DEF ClawOK
  <2> DEFINE ps == acc.periods
             qs == nx.periods
  <2>5. /\ ps \in [Users -> Seq(PeriodType)] /\ qs \in [Users -> Seq(PeriodType)]
        /\ AllDrawn(all, ps, Users) /\ AllDrawn(ps, qs, Users)
    BY <2>1, <2>3, <2>4
  <2> HIDE DEF ps, qs
  <2>6. AllDrawn(all, qs, Users)
    BY <2>4, <2>5, AllDrawnTwice
  <2> QED
    BY <2>2, <2>6 DEF nx, qs
<1> HIDE DEF OK, N
<1>5. 0 \in P
  BY <1>1, <1>2, <1>3
<1>6. \A m \in 0 .. N : m \in P /\ m < N => m + 1 \in P
  <2> SUFFICES ASSUME NEW m \in 0 .. N, m \in P, m < N PROVE m + 1 \in P
    OBVIOUS
  <2>1. m + 1 \in 1 .. N /\ m + 1 \in 0 .. N /\ (m + 1) - 1 = m /\ N + 1 - (m + 1) \in 1 .. N
    BY <1>1
  <2>2. claw[m + 1] = ClawOne(u, n, claw[m], N + 1 - (m + 1))
    BY <1>2, <2>1
  <2>3. OK(ClawOne(u, n, claw[m], N + 1 - (m + 1)))
    BY <1>4, <2>1
  <2> QED
    BY <2>1, <2>2, <2>3
<1>7. N \in P
  <2> HIDE DEF P
  <2>1. \A m \in 0 .. N : m \in P
    BY <1>1, <1>5, <1>6, UpTo
  <2> QED
    BY <1>1, <2>1
<1>8. OK(ClawBack(all, u, n))
  BY <1>2, <1>7
<1> QED
  BY <1>8 DEF OK

\* claw_back goes to those the buyer passed days on to, and to no others.
Receivers(u) ==
  {w \in Users : \E k \in DOMAIN transfers : transfers[k].from = u /\ transfers[k].to = w}

HitsOK(u, acc) ==
  /\ acc.hit \subseteq Receivers(u)
  /\ \A k \in DOMAIN transfers : /\ acc.transfers[k].from = transfers[k].from
                                /\ acc.transfers[k].to = transfers[k].to

LEMMA ClawOneHits ==
  ASSUME transfers \in Seq(TransferType), NEW all, NEW u, NEW n \in Int,
         NEW acc, ClawOK(all, acc), HitsOK(u, acc), NEW k \in 1 .. Len(transfers)
  PROVE  HitsOK(u, ClawOne(u, n, acc, k))
<1> DEFINE t == acc.transfers[k]
           want == Below(t.days - t.reverted, n - acc.got)
           got == TakenDays(acc.periods[t.to], want)
           ts == [acc.transfers EXCEPT ![k].reverted = @ + got]
           next == [periods |-> [acc.periods EXCEPT ![t.to] = Taken(@, want)],
                    transfers |-> ts,
                    got |-> acc.got + got,
                    hit |-> acc.hit \union {t.to}]
<1>1. ClawOne(u, n, acc, k) = IF t.from # u \/ want <= 0 THEN acc ELSE next
  BY DEF ClawOne
<1>2. CASE t.from # u \/ want <= 0
  BY <1>1, <1>2
<1>3. CASE ~(t.from # u \/ want <= 0)
  <2>1. k \in DOMAIN transfers /\ DOMAIN transfers = 1 .. Len(transfers)
    OBVIOUS
  <2>2. /\ t.from = transfers[k].from /\ t.to = transfers[k].to
        /\ acc.hit \subseteq Receivers(u)
    BY <2>1 DEF HitsOK
  <2>3. t.to \in Receivers(u)
    <3>1. transfers[k] \in TransferType
      BY <2>1, ElementOfSeq
    <3> QED
      BY <1>3, <2>1, <2>2, <3>1 DEF Receivers, TransferType
  <2>4. acc.transfers \in Seq(TransferType) /\ Len(acc.transfers) = Len(transfers)
    BY DEF ClawOK
  <2>5. ASSUME NEW j \in DOMAIN transfers
        PROVE  ts[j].from = acc.transfers[j].from /\ ts[j].to = acc.transfers[j].to
    <3> DEFINE l == acc.transfers
    <3>1. j \in DOMAIN l /\ l[j] \in TransferType
      BY <2>1, <2>4, ElementOfSeq
    <3> HIDE DEF l, got
    <3>2. [l EXCEPT ![k].reverted = @ + got][j].from = l[j].from
      BY <3>1 DEF TransferType
    <3>3. [l EXCEPT ![k].reverted = @ + got][j].to = l[j].to
      BY <3>1 DEF TransferType
    <3> QED
      BY <3>2, <3>3 DEF l
  <2>6. next.hit = acc.hit \union {t.to} /\ next.transfers = ts
    OBVIOUS
  <2> HIDE DEF ts, next, want, got
  <2>7. next.hit \subseteq Receivers(u)
    BY <2>2, <2>3, <2>6
  <2>8. HitsOK(u, next)
    BY <2>5, <2>6, <2>7 DEF HitsOK
  <2> QED
    BY <1>1, <1>3, <2>8
<1> QED
  BY <1>2, <1>3

LEMMA ClawBackHits ==
  ASSUME PeriodsAssumption, now \in Nat, transfers \in Seq(TransferType),
         NEW all \in [Users -> Seq(PeriodType)], \A w \in Users : ListOK(all[w]),
         NEW u, NEW n \in Int
  PROVE  ClawBack(all, u, n).hit \subseteq Receivers(u)
<1> DEFINE N == Len(transfers)
           OK(acc) == ClawOK(all, acc) /\ HitsOK(u, acc)
<1>1. N \in Nat
  OBVIOUS
<1>2. PICK claw : /\ claw[0] = ClawStart(all)
                  /\ \A k \in 1 .. N : claw[k] = ClawOne(u, n, claw[k - 1], N + 1 - k)
                  /\ claw[N] = ClawBack(all, u, n)
  BY <1>1, ClawSteps
<1> DEFINE P == {m \in 0 .. N : OK(claw[m])}
<1>3. OK(ClawStart(all))
  <2>1. \A w \in Users : Grown(all[w], all[w])
    BY ListFields DEF Grown
  <2>2. ClawOK(all, ClawStart(all))
    BY <2>1 DEF ClawOK, ClawStart
  <2>3. HitsOK(u, ClawStart(all))
    BY DEF HitsOK, ClawStart
  <2> QED
    BY <2>2, <2>3
<1>4. ASSUME NEW acc, OK(acc), NEW k \in 1 .. N
      PROVE  OK(ClawOne(u, n, acc, k))
  BY <1>1, <1>4, ClawOneOK, ClawOneHits
<1> HIDE DEF OK, N
<1>5. 0 \in P
  BY <1>1, <1>2, <1>3
<1>6. \A m \in 0 .. N : m \in P /\ m < N => m + 1 \in P
  <2> SUFFICES ASSUME NEW m \in 0 .. N, m \in P, m < N PROVE m + 1 \in P
    OBVIOUS
  <2>1. m + 1 \in 1 .. N /\ m + 1 \in 0 .. N /\ (m + 1) - 1 = m /\ N + 1 - (m + 1) \in 1 .. N
    BY <1>1
  <2>2. claw[m + 1] = ClawOne(u, n, claw[m], N + 1 - (m + 1))
    BY <1>2, <2>1
  <2>3. OK(ClawOne(u, n, claw[m], N + 1 - (m + 1)))
    BY <1>4, <2>1
  <2> QED
    BY <2>1, <2>2, <2>3
<1>7. N \in P
  <2> HIDE DEF P
  <2>1. \A m \in 0 .. N : m \in P
    BY <1>1, <1>5, <1>6, UpTo
  <2> QED
    BY <1>1, <2>1
<1>8. OK(ClawBack(all, u, n))
  BY <1>2, <1>7
<1> QED
  BY <1>8 DEF OK, HitsOK

LEMMA RefundHits ==
  ASSUME PeriodsAssumption, PeriodsInv, NEW o \in Orders, status[o] = "paid"
  PROVE  Claw(o).hit \subseteq Receivers(Owner[o])
<1> DEFINE all == Revoke(o)
           n == Unpaid(periods[Owner[o]], bought[o], Term[o])
<1>1. From(periods, all) /\ n \in Int
  BY OwnOK, RevokeOK
<1>2. Claw(o) = ClawBack(all, Owner[o], n)
  BY DEF Claw
<1> HIDE DEF all, n
<1>3. all \in [Users -> Seq(PeriodType)] /\ \A w \in Users : ListOK(all[w])
  BY <1>1 DEF From
<1> QED
  BY <1>1, <1>2, <1>3, InvFacts, ClawBackHits

\* refund, all its steps.
LEMMA RefundDraws ==
  ASSUME PeriodsAssumption, PeriodsInv, NEW o \in Orders, status[o] = "paid"
  PROVE  /\ \A w \in Users : \/ Draws(periods[w], Claw(o).periods[w])
                             \/ w = Owner[o] /\ Queued(periods[w], bought[o])
         /\ \A w \in Users : \/ Claw(o).periods[w] = periods[w]
                             \/ w = Owner[o] \/ w \in Claw(o).hit
                             \/ Revoked(o) /\ w = Inviter[Owner[o]]
<1> DEFINE u == Owner[o]
           S == {w \in Users : w # u \/ ~Queued(periods[u], bought[o])}
           ps == Own(o)
           qs == Revoke(o)
           n == Unpaid(periods[Owner[o]], bought[o], Term[o])
           rs == ClawBack(qs, u, n).periods
<1>1. periods \in [Users -> Seq(PeriodType)] /\ now \in Nat /\ transfers \in Seq(TransferType)
  BY InvFacts
<1>2. /\ From(periods, ps) /\ From(ps, qs) /\ n \in Int
  BY OwnOK, RevokeOK
<1>3. /\ ps \in [Users -> Seq(PeriodType)] /\ \A w \in Users : ListOK(ps[w])
      /\ qs \in [Users -> Seq(PeriodType)] /\ \A w \in Users : ListOK(qs[w])
  BY <1>2 DEF From
<1>4. Claw(o) = ClawBack(qs, u, n)
  BY DEF Claw
<1>5. rs \in [Users -> Seq(PeriodType)] /\ \A w \in Users \ Claw(o).hit : rs[w] = qs[w]
  <2>1. ClawOK(qs, Claw(o))
    BY ClawedOK
  <2> QED
    BY <1>4, <2>1 DEF ClawOK
<1>6. u \in Users /\ Term[o] \in Nat
  BY DEF PeriodsAssumption
<1>7. /\ bought[o] \in DOMAIN periods[u] /\ periods[u][bought[o]].kind = "paid"
  BY DEF PeriodsInv, BoughtInv
<1>8. \A w \in Users : w # u => ps[w] = periods[w]
  BY <1>1 DEF Own
<1>9. AllDrawn(periods, ps, S)
  <2> SUFFICES ASSUME NEW w \in S PROVE Draws(periods[w], ps[w])
    BY DEF AllDrawn
  <2>1. CASE w # u
    <3> DEFINE s == periods[w]
    <3>1. s \in Seq(PeriodType) /\ ps[w] = s
      BY <1>1, <1>8, <2>1
    <3> HIDE DEF s
    <3>2. Draws(s, s)
      BY <1>1, <3>1, DrawsNone
    <3> QED
      BY <3>1, <3>2 DEF s
  <2>2. CASE w = u
    <3> DEFINE s == periods[u]
               b == bought[o]
               m == Term[o]
               r == Shrunk(s, b, m)
    <3>1. ps[u] = r
      BY <1>1, <1>6 DEF Own
    <3>2. /\ ListOK(s) /\ b \in DOMAIN s /\ s[b].kind = "paid" /\ m \in Nat /\ ~Queued(s, b)
      BY <1>6, <1>7, <2>2, InvFacts
    <3> HIDE DEF s, b, m
    <3>3. Draws(s, r)
      BY <1>1, <3>2, ShrunkDraws
    <3> QED
      BY <2>2, <3>1, <3>3 DEF s
  <2> QED
    BY <2>1, <2>2
<1>10. AllDrawn(ps, qs, Users) /\ (~Revoked(o) => qs = ps)
       /\ \A w \in Users : w # Inviter[u] => qs[w] = ps[w]
  <2>1. CASE Revoked(o)
    <3> DEFINE v == Inviter[u]
               d == BonusDays
    <3>1. v \in Users /\ d \in Nat
      BY <2>1 DEF Revoked, PeriodsInv, BonusInv, PeriodsAssumption
    <3>2. qs = [ps EXCEPT ![v] = Taken(@, d)]
      BY <2>1 DEF Revoke
    <3> HIDE DEF v, d, ps, qs
    <3>3. /\ AllDrawn(ps, [ps EXCEPT ![v] = Taken(@, d)], Users)
          /\ \A w \in Users : w # v => [ps EXCEPT ![v] = Taken(@, d)][w] = ps[w]
      BY <1>1, <1>3, <3>1, TakenOne, ZenonT(30)
    <3> QED
      BY <2>1, <3>2, <3>3 DEF v
  <2>2. CASE ~Revoked(o)
    <3>1. qs = ps
      BY <2>2 DEF Revoke
    <3>2. \A w \in Users : Draws(ps[w], ps[w])
      <4> TAKE w \in Users
      <4> DEFINE s == ps[w]
      <4>1. s \in Seq(PeriodType)
        BY <1>3
      <4> HIDE DEF s
      <4>2. Draws(s, s)
        BY <1>1, <4>1, DrawsNone
      <4> QED
        BY <4>2 DEF s
    <3> HIDE DEF ps, qs
    <3> QED
      BY <3>1, <3>2 DEF AllDrawn
  <2> QED
    BY <2>1, <2>2
<1> HIDE DEF u, n
<1>11. AllDrawn(qs, rs, Users)
  <2> HIDE DEF qs
  <2> QED
    BY <1>1, <1>2, <1>3, ClawBackDraws
<1>12. S \in SUBSET Users
  OBVIOUS
<1> HIDE DEF ps, qs, rs, S
<1>13. AllDrawn(ps, qs, S) /\ AllDrawn(qs, rs, S)
  BY <1>10, <1>11, <1>12 DEF AllDrawn
<1>14. AllDrawn(periods, qs, S)
  BY <1>1, <1>3, <1>9, <1>12, <1>13, AllDrawnTwice
<1>15. AllDrawn(periods, rs, S)
  BY <1>1, <1>3, <1>5, <1>12, <1>13, <1>14, AllDrawnTwice
<1>16. Claw(o).periods = rs
  BY <1>4 DEF rs
<1>17. \A w \in Users : \/ Draws(periods[w], rs[w])
                        \/ w = u /\ Queued(periods[w], bought[o])
  BY <1>15 DEF AllDrawn, S
<1>18. \A w \in Users : \/ rs[w] = periods[w] \/ w = u \/ w \in Claw(o).hit
                        \/ Revoked(o) /\ w = Inviter[u]
  BY <1>5, <1>8, <1>10
<1> QED
  BY <1>16, <1>17, <1>18 DEF u

--------------------------------------------------------------------------------
(* Every step posts to the book                                            *)

Balances ==
  \A w \in Users :
    /\ Ahead(w) - TrialAhead(w) = DaysOf(periods[w], Clock(w))
    /\ TrialAhead(w) = TrialOf(periods[w], Clock(w))
    /\ DaysOf(periods[w], Clock(w)) \in Nat /\ TrialOf(periods[w], Clock(w)) \in Nat

LEMMA BalancesAre == PeriodsInv => Balances
<1> SUFFICES ASSUME PeriodsInv, NEW w \in Users
             PROVE  /\ Ahead(w) - TrialAhead(w) = DaysOf(periods[w], Clock(w))
                    /\ TrialAhead(w) = TrialOf(periods[w], Clock(w))
                    /\ DaysOf(periods[w], Clock(w)) \in Nat
                    /\ TrialOf(periods[w], Clock(w)) \in Nat
  BY DEF Balances
<1> DEFINE s == periods[w]
           at == Clock(w)
<1>1. s \in Seq(PeriodType) /\ at \in Int
  BY InvFacts
<1>2. TrialAhead(w) = TrialOf(s, at) /\ Ahead(w) - TrialAhead(w) = DaysOf(s, at)
  BY AheadIs
<1> HIDE DEF s, at
<1>3. DaysOf(s, at) \in Nat /\ TrialOf(s, at) \in Nat
  BY <1>1, BalanceType
<1> QED
  BY <1>2, <1>3 DEF s, at

LEMMA BalancesNext == PeriodsInv' => Balances'
BY BalancesAre, PTL

\* What the operations that do not move the clocks have in common.
LEMMA Posted ==
  ASSUME PeriodsInv, NEW S, Touch(S), UNCHANGED <<now, frozen>>
  PROVE  /\ exact' \subseteq exact /\ exact \subseteq Users
         /\ \A w \in Users : Clock(w)' = Clock(w)
         /\ \A w \in exact' : w \in S => Clock(w) = now
BY DEF Touch, Clock, PeriodsInv, TypeOK

\* A step of the book that spends n ticks of an account, and one that spends none.
LEMMA SpentIs ==
  ASSUME NEW u \in Users, NEW n,
         TrialAhead(u)' = Above(0, TrialAhead(u) - n),
         Ahead(u)' - TrialAhead(u)'
           = Above(0, (Ahead(u) - TrialAhead(u)) - Above(0, n - TrialAhead(u)))
  PROVE  Book!Spent(u, n)
BY DEF Book!Spent, Book!Above, Above

LEMMA SpentNone ==
  ASSUME PeriodsInv, NEW u \in Users, Ahead(u)' = Ahead(u), TrialAhead(u)' = TrialAhead(u)
  PROVE  Book!Spent(u, 0)
<1> DEFINE a == Ahead(u) - TrialAhead(u)
           b == Ahead(u)' - TrialAhead(u)'
           t == TrialAhead(u)
<1>1. a \in Nat /\ t \in Nat
  BY BalancesAre DEF Balances
<1>2. b = a
  OBVIOUS
<1> HIDE DEF a, b, t
<1>3. t = Above(0, t - 0) /\ b = Above(0, a - Above(0, 0 - t))
  BY <1>1, <1>2 DEF Above
<1> QED
  BY <1>3, SpentIs DEF a, b, t

LEMMA QuietStep ==
  ASSUME BookInv, UNCHANGED <<now, periods, frozen, exact>>
  PROVE  /\ Book!Post({}) /\ ExactInv'
         /\ [u \in Users |-> Ahead(u) - TrialAhead(u)]' = [u \in Users |-> Ahead(u) - TrialAhead(u)]
         /\ [u \in Users |-> TrialAhead(u)]' = [u \in Users |-> TrialAhead(u)]
<1>1. \A w \in Users : Clock(w)' = Clock(w)
  BY DEF Clock
<1>2. \A w \in Users : Ahead(w)' = Ahead(w) /\ TrialAhead(w)' = TrialAhead(w)
  BY <1>1 DEF Ahead, TrialAhead
<1>3. exact \subseteq Users
  BY DEF BookInv, PeriodsInv, TypeOK
<1>4. ExactInv'
  BY <1>1, <1>3 DEF BookInv, ExactInv
<1>5. Book!Post({})
  BY <1>2, <1>3 DEF Book!Post
<1> QED
  BY <1>2, <1>4, <1>5

LEMMA GivenStep ==
  ASSUME PeriodsAssumption, BookInv, PeriodsInv', NEW u \in Users, NEW n \in Nat \ {0},
         periods' = [periods EXCEPT ![u] = Gifted(periods[u], n)], Touch({u}),
         UNCHANGED <<now, frozen>>
  PROVE  Book!Post({u}) /\ Book!Credit(u, n * Day) /\ ExactInv'
<1>1. PeriodsInv /\ ExactInv /\ Balances /\ Balances'
  BY BalancesAre, BalancesNext DEF BookInv
<1>2. /\ exact' \subseteq exact /\ exact \subseteq Users
      /\ \A w \in Users : Clock(w)' = Clock(w)
      /\ \A w \in exact' : w \in {u} => Clock(w) = now
  BY <1>1, Posted
<1>3. /\ now \in Nat /\ \A w \in Users : ListOK(periods[w])
      /\ periods \in [Users -> Seq(PeriodType)]
  BY <1>1, InvFacts
<1>4. periods'[u] = Gifted(periods[u], n) /\ \A w \in Users : w # u => periods'[w] = periods[w]
  BY <1>3
<1>5. ASSUME u \in exact'
      PROVE  /\ DaysOf(periods'[u], now) = DaysOf(periods[u], now) + n * Day
             /\ TrialOf(periods'[u], now) = TrialOf(periods[u], now)
             /\ Whole(periods'[u], now)
  <2> DEFINE s == periods[u]
  <2>1. ListOK(s) /\ Whole(s, now)
    BY <1>1, <1>2, <1>3, <1>5 DEF ExactInv
  <2> HIDE DEF s
  <2>2. /\ DaysOf(Gifted(s, n), now) = DaysOf(s, now) + n * Day
        /\ TrialOf(Gifted(s, n), now) = TrialOf(s, now)
    BY <1>3, <2>1, GiftedBalance
  <2>3. Whole(Gifted(s, n), now)
    BY <1>3, <2>1, GiftedWhole
  <2> QED
    BY <1>4, <2>2, <2>3 DEF s
<1>6. ASSUME u \in exact'
      PROVE  /\ Ahead(u)' - TrialAhead(u)' = Ahead(u) - TrialAhead(u) + n * Day
             /\ TrialAhead(u)' = TrialAhead(u)
  <2> DEFINE a == Ahead(u) - TrialAhead(u)
             b == Ahead(u)' - TrialAhead(u)'
  <2>1. Clock(u) = now /\ Clock(u)' = now
    BY <1>2, <1>6
  <2>2. /\ a = DaysOf(periods[u], now) /\ TrialAhead(u) = TrialOf(periods[u], now)
    BY <1>1, <2>1 DEF Balances
  <2>3. /\ b = DaysOf(periods'[u], now) /\ TrialAhead(u)' = TrialOf(periods'[u], now)
    BY <1>1, <2>1 DEF Balances
  <2> HIDE DEF a, b
  <2>4. b = a + n * Day /\ TrialAhead(u)' = TrialAhead(u)
    BY <1>5, <1>6, <2>2, <2>3
  <2> QED
    BY <2>4 DEF a, b
<1>7. \A w \in Users : w # u => Ahead(w)' = Ahead(w) /\ TrialAhead(w)' = TrialAhead(w)
  BY <1>2, <1>4 DEF Ahead, TrialAhead
<1>8. Book!Post({u})
  BY <1>2, <1>7 DEF Book!Post, Touch, Book!NoTime, NoTime
<1>9. Book!Credit(u, n * Day)
  BY <1>6 DEF Book!Credit
<1>10. ExactInv'
  <2> SUFFICES ASSUME NEW w \in exact' PROVE Whole(periods'[w], Clock(w)')
    BY DEF ExactInv
  <2>1. CASE w = u
    BY <1>2, <1>5, <2>1
  <2>2. CASE w # u
    BY <1>1, <1>2, <1>4, <2>2 DEF ExactInv
  <2> QED
    BY <2>1, <2>2
<1> QED
  BY <1>8, <1>9, <1>10

LEMMA BoughtStep ==
  ASSUME PeriodsAssumption, BookInv, PeriodsInv', NEW o \in Orders, NEW plan \in Plans,
         Fulfil(o, plan)
  PROVE  Book!Bought(o) /\ ExactInv'
<1> DEFINE u == Owner[o]
           n == Term[o]
<1>1. PeriodsInv /\ ExactInv /\ Balances /\ Balances'
  BY BalancesAre, BalancesNext DEF BookInv
<1>2. u \in Users /\ n \in Nat \ {0}
  BY DEF PeriodsAssumption
<1>3. /\ periods' = [periods EXCEPT ![u] = Granted(periods[u], plan, n).list]
      /\ Touch({u}) /\ UNCHANGED <<now, frozen, gifts, bonus, transfers>>
      /\ status[o] = "pending" /\ status' = [status EXCEPT ![o] = "paid"]
  BY DEF Fulfil
<1> HIDE DEF u, n
<1>4. /\ exact' \subseteq exact /\ exact \subseteq Users
      /\ \A w \in Users : Clock(w)' = Clock(w)
      /\ \A w \in exact' : w \in {u} => Clock(w) = now
  BY <1>1, <1>3, Posted
<1>5. /\ now \in Nat /\ \A w \in Users : ListOK(periods[w])
      /\ periods \in [Users -> Seq(PeriodType)]
  BY <1>1, InvFacts
<1>6. /\ periods'[u] = Granted(periods[u], plan, n).list
      /\ \A w \in Users : w # u => periods'[w] = periods[w]
  BY <1>2, <1>3, <1>5
<1>7. ASSUME u \in exact'
      PROVE  /\ DaysOf(periods'[u], now) = DaysOf(periods[u], now) + n * Day
             /\ TrialOf(periods'[u], now) = 0
             /\ Whole(periods'[u], now)
  <2> DEFINE s == periods[u]
  <2>1. ListOK(s) /\ Whole(s, now)
    BY <1>1, <1>2, <1>4, <1>5, <1>7 DEF ExactInv
  <2> HIDE DEF s
  <2>2. LET r == Granted(s, plan, n).list IN
        /\ DaysOf(r, now) = DaysOf(s, now) + n * Day
        /\ TrialOf(r, now) = 0
        /\ Whole(s, now) => Whole(r, now)
    BY <1>2, <1>5, <2>1, GrantedBalance
  <2> QED
    BY <1>6, <2>1, <2>2 DEF s
<1>8. ASSUME u \in exact'
      PROVE  /\ Ahead(u)' - TrialAhead(u)' = Ahead(u) - TrialAhead(u) + n * Day
             /\ TrialAhead(u)' = 0
  <2> DEFINE a == Ahead(u) - TrialAhead(u)
             b == Ahead(u)' - TrialAhead(u)'
  <2>1. Clock(u) = now /\ Clock(u)' = now
    BY <1>2, <1>4, <1>8
  <2>2. a = DaysOf(periods[u], now)
    BY <1>1, <1>2, <2>1 DEF Balances
  <2>3. /\ b = DaysOf(periods'[u], now) /\ TrialAhead(u)' = TrialOf(periods'[u], now)
    BY <1>1, <1>2, <2>1 DEF Balances
  <2> HIDE DEF a, b
  <2>4. b = a + n * Day /\ TrialAhead(u)' = 0
    BY <1>7, <1>8, <2>2, <2>3
  <2> QED
    BY <2>4 DEF a, b
<1>9. \A w \in Users : w # u => Ahead(w)' = Ahead(w) /\ TrialAhead(w)' = TrialAhead(w)
  BY <1>4, <1>6 DEF Ahead, TrialAhead
<1>10. Book!Bought(o)
  <2>1. Book!Post({u})
    BY <1>3, <1>4, <1>9 DEF Book!Post, Touch, Book!NoTime, NoTime
  <2>2. u \in exact' => /\ [w \in Users |-> Ahead(w) - TrialAhead(w)]'[u]
                             = [w \in Users |-> Ahead(w) - TrialAhead(w)][u] + n * Day
                        /\ [w \in Users |-> TrialAhead(w)]'[u] = 0
    BY <1>2, <1>8
  <2> QED
    BY <1>3, <2>1, <2>2 DEF Book!Bought, u, n
<1>11. ExactInv'
  <2> SUFFICES ASSUME NEW w \in exact' PROVE Whole(periods'[w], Clock(w)')
    BY DEF ExactInv
  <2>1. CASE w = u
    BY <1>4, <1>7, <2>1
  <2>2. CASE w # u
    BY <1>1, <1>4, <1>6, <2>2 DEF ExactInv
  <2> QED
    BY <2>1, <2>2
<1> QED
  BY <1>10, <1>11

LEMMA MovedStep ==
  ASSUME PeriodsAssumption, BookInv, PeriodsInv', NEW u \in Users, NEW v \in Users,
         NEW n \in DayCounts, Transfer(u, v, n)
  PROVE  Book!Moved(u, v) /\ ExactInv'
<1>1. PeriodsInv /\ ExactInv /\ Balances /\ Balances'
  BY BalancesAre, BalancesNext DEF BookInv
<1>2. /\ u # v /\ n <= PaidDaysLeft(u)
      /\ periods' = [periods EXCEPT ![u] = Taken(periods[u], n), ![v] = Gifted(periods[v], n)]
      /\ Touch({u, v}) /\ UNCHANGED <<now, frozen, status, gifts, bonus>>
      /\ transfers' = Append(transfers, [from |-> u, to |-> v, days |-> n, reverted |-> 0])
      /\ transfers \in Seq(TransferType)
  BY <1>1, InvFacts DEF Transfer
<1>3. n \in Nat /\ n \in Nat \ {0}
  BY DEF DayCounts, PeriodsAssumption
<1>4. /\ exact' \subseteq exact /\ exact \subseteq Users
      /\ \A w \in Users : Clock(w)' = Clock(w)
      /\ \A w \in exact' : w \in {u, v} => Clock(w) = now
  <2> DEFINE S == {u, v}
  <2>1. Touch(S)
    BY <1>2
  <2> HIDE DEF S
  <2>2. /\ exact' \subseteq exact /\ exact \subseteq Users
        /\ \A w \in Users : Clock(w)' = Clock(w)
        /\ \A w \in exact' : w \in S => Clock(w) = now
    BY <1>1, <1>2, <2>1, Posted
  <2> QED
    BY <2>2 DEF S
<1>5. /\ now \in Nat /\ \A w \in Users : ListOK(periods[w])
      /\ periods \in [Users -> Seq(PeriodType)]
  BY <1>1, InvFacts
<1>6. /\ periods'[u] = Taken(periods[u], n) /\ periods'[v] = Gifted(periods[v], n)
      /\ \A w \in Users : w # u /\ w # v => periods'[w] = periods[w]
  BY <1>2, <1>5
<1>7. n * Day \in Nat /\ n * Day > 0
  BY <1>3, DaysType
<1>8. n * Day <= Total(periods[u], {i \in Live(periods[u]) : periods[u][i].kind = "paid"}, now)
  <2> DEFINE s == periods[u]
             t == Total(s, {i \in Live(s) : s[i].kind = "paid"}, now)
             d == t \div Day
  <2>1. s \in Seq(PeriodType) /\ now \in Int
    BY <1>5
  <2>2. {i \in Live(s) : s[i].kind = "paid"} \in SUBSET (DOMAIN s)
    BY DEF Live
  <2>3. t \in Nat
    <3> HIDE DEF s
    <3> DEFINE I == {i \in Live(s) : s[i].kind = "paid"}
    <3>1. I \in SUBSET (DOMAIN s)
      BY <2>2
    <3> HIDE DEF I
    <3>2. Total(s, I, now) \in Nat
      BY <2>1, <3>1, TotalType
    <3> QED
      BY <3>2 DEF I
  <2>4. n <= d
    BY <1>2 DEF PaidDaysLeft
  <2> HIDE DEF t
  <2>5. d \in Nat /\ d * Day <= t
    BY <2>3, DivType
  <2> HIDE DEF d
  <2>6. n * Day <= d * Day
    <3>1. \A x \in Nat \ {0} : n * x <= d * x
      BY <1>3, <2>4, <2>5
    <3> QED
      BY <3>1 DEF PeriodsAssumption
  <2>7. d * Day \in Nat
    BY <2>5, DaysType
  <2>8. n * Day <= t
    BY <1>7, <2>3, <2>5, <2>6, <2>7
  <2> QED
    BY <2>8 DEF t
<1>9. /\ DaysOf(periods'[u], now) = DaysOf(periods[u], now) - n * Day
      /\ TrialOf(periods'[u], now) = TrialOf(periods[u], now)
      /\ Whole(periods[u], now) => Whole(periods'[u], now)
  <2> DEFINE s == periods[u]
  <2>1. ListOK(s) /\ n * Day <= Total(s, {i \in Live(s) : s[i].kind = "paid"}, now)
    BY <1>5, <1>8
  <2> HIDE DEF s
  <2>2. /\ DaysOf(Taken(s, n), now) = DaysOf(s, now) - n * Day
        /\ TrialOf(Taken(s, n), now) = TrialOf(s, now)
    BY <1>3, <1>5, <2>1, TransferSends
  <2>3. Whole(s, now) => Whole(Taken(s, n), now)
    BY <1>3, <1>5, <2>1, TakenWhole
  <2> QED
    BY <1>6, <2>2, <2>3 DEF s
<1>10. /\ DaysOf(periods'[v], now) = DaysOf(periods[v], now) + n * Day
       /\ TrialOf(periods'[v], now) = TrialOf(periods[v], now)
       /\ Whole(periods[v], now) => Whole(periods'[v], now)
  <2> DEFINE s == periods[v]
  <2>1. ListOK(s)
    BY <1>5
  <2> HIDE DEF s
  <2>2. /\ DaysOf(Gifted(s, n), now) = DaysOf(s, now) + n * Day
        /\ TrialOf(Gifted(s, n), now) = TrialOf(s, now)
    BY <1>3, <1>5, <2>1, GiftedBalance
  <2>3. Whole(s, now) => Whole(Gifted(s, n), now)
    BY <1>3, <1>5, <2>1, GiftedWhole
  <2> QED
    BY <1>6, <2>2, <2>3 DEF s
<1>11. \A w \in exact' : w \in {u, v} =>
         /\ Ahead(w) - TrialAhead(w) = DaysOf(periods[w], now)
         /\ Ahead(w)' - TrialAhead(w)' = DaysOf(periods'[w], now)
         /\ TrialAhead(w) = TrialOf(periods[w], now)
         /\ TrialAhead(w)' = TrialOf(periods'[w], now)
         /\ DaysOf(periods[w], now) \in Nat /\ DaysOf(periods'[w], now) \in Nat
  BY <1>1, <1>4 DEF Balances
<1> DEFINE a(w) == Ahead(w) - TrialAhead(w)
           b(w) == Ahead(w)' - TrialAhead(w)'
<1>12. ASSUME u \in exact'
       PROVE  a(u) \in Nat /\ b(u) = a(u) - n * Day /\ TrialAhead(u)' = TrialAhead(u)
  BY <1>9, <1>11, <1>12
<1>13. ASSUME v \in exact'
       PROVE  a(v) \in Nat /\ b(v) = a(v) + n * Day /\ TrialAhead(v)' = TrialAhead(v)
  BY <1>10, <1>11, <1>13
<1>14. \A w \in Users : w # u /\ w # v => Ahead(w)' = Ahead(w) /\ TrialAhead(w)' = TrialAhead(w)
  BY <1>4, <1>6 DEF Ahead, TrialAhead
<1>15. /\ u \in exact' => b(u) = a(u) + (0 - n * Day)
       /\ v \in exact' => b(v) = a(v) + n * Day
  <2> HIDE DEF a, b
  <2>1. u \in exact' => b(u) = a(u) + (0 - n * Day)
    BY <1>7, <1>12
  <2>2. v \in exact' => b(v) = a(v) + n * Day
    BY <1>7, <1>13
  <2> QED
    BY <2>1, <2>2
<1>16. Book!Moved(u, v)
  <2>1. Book!Post({u, v})
    BY <1>2, <1>4, <1>14 DEF Book!Post, Touch, Book!NoTime, NoTime
  <2>2. Book!Credit(u, 0 - n * Day) /\ Book!Credit(v, n * Day)
    BY <1>12, <1>13, <1>15 DEF Book!Credit
  <2>3. Len(transfers') = Len(transfers) + 1 /\ transfers'[Len(transfers')].days = n
    BY <1>2
  <2> QED
    BY <1>2, <2>1, <2>2, <2>3 DEF Book!Moved
<1>17. ExactInv'
  <2> SUFFICES ASSUME NEW w \in exact' PROVE Whole(periods'[w], Clock(w)')
    BY DEF ExactInv
  <2>1. Whole(periods[w], Clock(w)) /\ Clock(w)' = Clock(w)
    BY <1>1, <1>4 DEF ExactInv
  <2>2. CASE w = u \/ w = v
    BY <1>4, <1>9, <1>10, <2>1, <2>2
  <2>3. CASE w # u /\ w # v
    BY <1>4, <1>6, <2>1, <2>3
  <2> QED
    BY <2>2, <2>3
<1> QED
  BY <1>16, <1>17

\* Time that passes over a list that stays as it is.
LEMMA SpendsTime ==
  ASSUME PeriodsInv, ExactInv, Balances, Balances',
         NEW u \in Users, u \in exact, NEW n \in Nat,
         periods'[u] = periods[u], Clock(u)' = Clock(u) + n
  PROVE  Book!Spent(u, n) /\ Whole(periods'[u], Clock(u)')
<1> DEFINE s == periods[u]
           at == Clock(u)
           bt == Clock(u)'
           a == Ahead(u) - TrialAhead(u)
           b == Ahead(u)' - TrialAhead(u)'
<1>1. ListOK(s) /\ Whole(s, at) /\ at \in Nat
  BY InvFacts DEF ExactInv
<1>2. bt = at + n /\ periods'[u] = s
  OBVIOUS
<1>3. /\ a = DaysOf(s, at) /\ TrialAhead(u) = TrialOf(s, at)
      /\ b = DaysOf(s, bt) /\ TrialAhead(u)' = TrialOf(s, bt)
  BY DEF Balances
<1> HIDE DEF s, at, bt
<1>4. /\ TrialOf(s, at + n) = Above(0, TrialOf(s, at) - n)
      /\ DaysOf(s, at + n) = Above(0, DaysOf(s, at) - Above(0, n - TrialOf(s, at)))
  BY <1>1, TimeBurns
<1>5. at <= at + n /\ at + n \in Nat
  BY <1>1
<1>6. Whole(s, bt)
  BY <1>1, <1>2, <1>5, LaterWhole
<1> HIDE DEF a, b
<1>7. TrialAhead(u)' = Above(0, TrialAhead(u) - n) /\ b = Above(0, a - Above(0, n - TrialAhead(u)))
  BY <1>2, <1>3, <1>4
<1>8. Book!Spent(u, n)
  BY <1>7, SpentIs DEF a, b
<1> QED
  BY <1>2, <1>6, <1>8 DEF bt

LEMMA BurntStep ==
  ASSUME PeriodsAssumption, BookInv, PeriodsInv', Tick
  PROVE  Book!Burnt /\ ExactInv'
<1>1. PeriodsInv /\ ExactInv /\ Balances /\ Balances'
  BY BalancesAre, BalancesNext DEF BookInv
<1>2. /\ periods' = periods /\ frozen' = frozen /\ exact' = exact /\ now' = now + 1
      /\ UNCHANGED <<status, gifts, bonus, transfers>>
  BY DEF Tick
<1>3. now \in Nat /\ exact \subseteq Users
  BY <1>1 DEF PeriodsInv, TypeOK
<1>4. ASSUME NEW w \in exact, frozen[w] # NoTime
      PROVE  Book!Spent(w, 0) /\ Whole(periods'[w], Clock(w)')
  <2>1. Clock(w)' = Clock(w) /\ w \in Users
    BY <1>2, <1>3, <1>4 DEF Clock
  <2>2. Whole(periods[w], Clock(w))
    BY <1>1 DEF ExactInv
  <2>3. Ahead(w)' = Ahead(w) /\ TrialAhead(w)' = TrialAhead(w)
    BY <1>2, <2>1 DEF Ahead, TrialAhead
  <2> QED
    BY <1>1, <1>2, <2>1, <2>2, <2>3, SpentNone
<1>5. ASSUME NEW w \in exact, frozen[w] = NoTime
      PROVE  Book!Spent(w, 1) /\ Whole(periods'[w], Clock(w)')
  <2>1. w \in Users /\ Clock(w) = now /\ Clock(w)' = now + 1
    BY <1>2, <1>3, <1>5 DEF Clock
  <2>2. periods'[w] = periods[w] /\ now + 1 \in Nat /\ Clock(w)' = Clock(w) + 1
    BY <1>2, <1>3, <2>1
  <2> QED
    BY <1>1, <2>1, <2>2, SpendsTime
<1>6. Book!Burnt
  <2>1. \A w \in exact : Book!Spent(w, IF frozen[w] = NoTime THEN 1 ELSE 0)
    <3> TAKE w \in exact
    <3>1. CASE frozen[w] # NoTime
      BY <1>4, <3>1
    <3>2. CASE frozen[w] = NoTime
      BY <1>5, <3>2
    <3> QED
      BY <3>1, <3>2
  <2> QED
    BY <1>2, <2>1 DEF Book!Burnt, Book!documents, Book!NoTime, NoTime
<1>7. ExactInv'
  BY <1>2, <1>4, <1>5 DEF ExactInv
<1> QED
  BY <1>6, <1>7

LEMMA FreezeStep ==
  ASSUME PeriodsAssumption, BookInv, NEW u \in Users, Freeze(u)
  PROVE  Book!Paused(u) /\ ExactInv'
<1>1. PeriodsInv /\ ExactInv
  BY DEF BookInv
<1>2. \A w \in Users : Clock(w)' = Clock(w)
  BY <1>1, FreezeClock
<1>3. /\ periods' = periods /\ exact' = exact /\ now' = now /\ frozen[u] = NoTime
      /\ frozen' = [frozen EXCEPT ![u] = now] /\ exact \subseteq Users
      /\ UNCHANGED <<status, gifts, bonus, transfers>>
  BY <1>1 DEF Freeze, PeriodsInv, TypeOK
<1>4. \A w \in Users : Ahead(w)' = Ahead(w) /\ TrialAhead(w)' = TrialAhead(w)
  BY <1>2, <1>3 DEF Ahead, TrialAhead
<1>5. Book!Paused(u)
  BY <1>3, <1>4 DEF Book!Paused, Book!documents, Book!NoTime, NoTime
<1>6. ExactInv'
  BY <1>1, <1>2, <1>3 DEF ExactInv
<1> QED
  BY <1>5, <1>6

LEMMA ResumeStep ==
  ASSUME PeriodsAssumption, BookInv, PeriodsInv', NEW u \in Users, Resume(u)
  PROVE  Book!Resumed(u) /\ ExactInv'
<1>1. PeriodsInv /\ ExactInv /\ Balances /\ Balances'
  BY BalancesAre, BalancesNext DEF BookInv
<1>2. /\ Clock(u)' = now /\ Clock(u) \in Nat /\ now - Clock(u) \in Nat
      /\ Clock(u) = frozen[u]
      /\ periods'[u] = IF now - Clock(u) >= MinPause
                        THEN After(periods[u], Clock(u), now - Clock(u))
                        ELSE periods[u]
      /\ \A w \in Users : w # u => periods'[w] = periods[w] /\ Clock(w)' = Clock(w)
  BY <1>1, ResumeClock
<1>3. /\ exact' = exact /\ now' = now /\ frozen[u] # NoTime
      /\ frozen' = [frozen EXCEPT ![u] = NoTime]
      /\ exact \subseteq Users /\ now \in Nat /\ MinPause \in Nat
      /\ UNCHANGED <<status, gifts, bonus, transfers>>
  BY <1>1 DEF Resume, PeriodsInv, TypeOK, PeriodsAssumption
<1> DEFINE s == periods[u]
           at == Clock(u)
           n == now - Clock(u)
           r == After(s, at, n)
           spent == IF n < MinPause THEN n ELSE 0
<1>4. at \in Nat /\ n \in Nat /\ at + n = now /\ ListOK(s)
  BY <1>1, <1>2, <1>3, InvFacts
<1>5. ASSUME u \in exact
      PROVE  Book!Spent(u, spent) /\ Whole(periods'[u], now)
  <2>1. Whole(s, at)
    BY <1>1, <1>5 DEF ExactInv
  <2>2. CASE n >= MinPause
    <3>1. /\ Ahead(u) - TrialAhead(u) = DaysOf(s, at) /\ TrialAhead(u) = TrialOf(s, at)
          /\ Ahead(u)' - TrialAhead(u)' = DaysOf(r, now) /\ TrialAhead(u)' = TrialOf(r, now)
      BY <1>1, <1>2, <2>2 DEF Balances
    <3>2. periods'[u] = r /\ spent = 0
      BY <1>2, <1>3, <1>4, <2>2
    <3> DEFINE bt == at + n
               a == Ahead(u) - TrialAhead(u)
               b == Ahead(u)' - TrialAhead(u)'
    <3>3. bt = now
      BY <1>4
    <3> HIDE DEF s, at, n
    <3>4. DaysOf(r, bt) = DaysOf(s, at) /\ TrialOf(r, bt) = TrialOf(s, at)
      BY <1>4, AfterBalance
    <3>5. Whole(r, bt)
      BY <1>4, <2>1, AfterWhole
    <3> HIDE DEF r, bt, spent, a, b
    <3>6. b = a /\ TrialAhead(u)' = TrialAhead(u)
      BY <3>1, <3>3, <3>4 DEF a, b
    <3>7. a \in Nat /\ TrialAhead(u) \in Nat
      BY <1>1 DEF Balances, a
    <3>8. b = Above(0, a - Above(0, 0 - TrialAhead(u))) /\ TrialAhead(u)' = Above(0, TrialAhead(u) - 0)
      BY <3>6, <3>7 DEF Above
    <3>9. Book!Spent(u, 0)
      BY <3>8, SpentIs DEF a, b
    <3> QED
      BY <3>2, <3>3, <3>5, <3>9
  <2>3. CASE ~(n >= MinPause)
    <3>1. periods'[u] = periods[u] /\ spent = n /\ Clock(u)' = Clock(u) + n
      BY <1>2, <1>3, <1>4, <2>3
    <3>2. Book!Spent(u, n) /\ Whole(periods'[u], Clock(u)')
      BY <1>1, <1>4, <1>5, <3>1, SpendsTime
    <3> QED
      BY <1>2, <3>1, <3>2
  <2> QED
    BY <2>2, <2>3
<1>6. \A w \in Users : w # u => Ahead(w)' = Ahead(w) /\ TrialAhead(w)' = TrialAhead(w)
  BY <1>2, ZenonT(30) DEF Ahead, TrialAhead
<1>7. \A w \in exact : w # u => Book!Spent(w, 0)
  BY <1>1, <1>3, <1>6, SpentNone
<1>8. Book!Resumed(u)
  <2>1. n = now - frozen[u]
    BY <1>2
  <2>2. \A w \in exact : Book!Spent(w, IF w = u /\ n < MinPause THEN n ELSE 0)
    <3> TAKE w \in exact
    <3>1. CASE w = u
      <4>1. spent = IF w = u /\ n < MinPause THEN n ELSE 0
        BY <3>1
      <4> QED
        BY <1>5, <3>1, <4>1
    <3>2. CASE w # u
      BY <1>7, <3>2
    <3> QED
      BY <3>1, <3>2
  <2> HIDE DEF n
  <2> QED
    BY <1>3, <2>1, <2>2 DEF Book!Resumed, Book!documents, Book!NoTime, NoTime
<1>9. ExactInv'
  <2> SUFFICES ASSUME NEW w \in exact PROVE Whole(periods'[w], Clock(w)')
    BY <1>3 DEF ExactInv
  <2>1. CASE w = u
    BY <1>2, <1>5, <2>1
  <2>2. CASE w # u
    BY <1>1, <1>2, <1>3, <2>2 DEF ExactInv
  <2> QED
    BY <2>1, <2>2
<1> QED
  BY <1>8, <1>9

LEMMA DrawnStep ==
  ASSUME PeriodsAssumption, BookInv, PeriodsInv', NEW o \in Orders, Refund(o)
  PROVE  Book!Drawn(o) /\ ExactInv'
<1> DEFINE u == Owner[o]
<1>1. PeriodsInv /\ ExactInv /\ Balances /\ Balances'
  BY BalancesAre, BalancesNext DEF BookInv
<1>2. /\ status[o] = "paid" /\ periods' = Claw(o).periods
      /\ exact' = {w \in exact :
                     /\ ~(/\ frozen[w] # NoTime
                          /\ w \in {u} \union Claw(o).hit
                                     \union (IF Revoked(o) THEN {Inviter[u]} ELSE {}))
                     /\ ~(w = u /\ Queued(periods[u], bought[o]))}
      /\ now' = now /\ frozen' = frozen /\ gifts' = gifts
      /\ status' = [status EXCEPT ![o] = "refunded"] /\ transfers' = Claw(o).transfers
      /\ bonus' = [bonus EXCEPT ![u] = CASE @ = "claimed" -> "late"
                                         [] @ = "granted" -> "revoked"
                                         [] OTHER -> @]
  BY DEF Refund, Own, Revoked, Revoke, Claw
<1>3. now \in Nat /\ exact \subseteq Users /\ exact' \subseteq exact
  BY <1>1, <1>2 DEF PeriodsInv, TypeOK
<1>4. \A w \in Users : Clock(w)' = Clock(w)
  BY <1>2 DEF Clock
<1>5. /\ \A w \in Users : \/ Draws(periods[w], periods'[w])
                          \/ w = u /\ Queued(periods[w], bought[o])
      /\ \A w \in Users : \/ periods'[w] = periods[w] \/ w = u \/ w \in Claw(o).hit
                          \/ Revoked(o) /\ w = Inviter[u]
  BY <1>1, <1>2, RefundDraws
<1>6. ASSUME NEW w \in exact'
      PROVE  /\ Ahead(w)' - TrialAhead(w)' \in 0 .. (Ahead(w) - TrialAhead(w))
             /\ TrialAhead(w)' \in 0 .. TrialAhead(w)
             /\ TrialAhead(w)' < TrialAhead(w) => Ahead(w)' - TrialAhead(w)' = 0
             /\ Whole(periods'[w], Clock(w)')
  <2>1. w \in Users /\ w \in exact
    BY <1>3
  <2> DEFINE a == Ahead(w) - TrialAhead(w)
             b == Ahead(w)' - TrialAhead(w)'
             s == periods[w]
             r == periods'[w]
             at == Clock(w)
  <2>2. /\ a = DaysOf(s, at) /\ TrialAhead(w) = TrialOf(s, at)
        /\ a \in Nat /\ TrialAhead(w) \in Nat
    BY <1>1, <2>1 DEF Balances
  <2>3. /\ b = DaysOf(r, at) /\ TrialAhead(w)' = TrialOf(r, at)
        /\ b \in Nat /\ TrialAhead(w)' \in Nat
    BY <1>1, <1>4, <2>1 DEF Balances
  <2>4. Whole(s, at)
    BY <1>1, <2>1 DEF ExactInv
  <2>5. r = s \/ (at = now /\ Draws(s, r))
    <3>1. CASE frozen[w] # NoTime
      BY <1>2, <1>5, <2>1, <3>1
    <3>2. CASE frozen[w] = NoTime
      <4>1. at = now
        BY <3>2 DEF Clock
      <4>2. ~(w = u /\ Queued(periods[w], bought[o]))
        BY <1>2
      <4> QED
        BY <1>5, <2>1, <4>1, <4>2
    <3> QED
      BY <3>1, <3>2
  <2>6. Clock(w)' = at
    BY <1>4, <2>1
  <2> HIDE DEF a, b, s, r, at, u
  <2>7. b <= a /\ TrialAhead(w)' <= TrialAhead(w) /\ (TrialAhead(w)' < TrialAhead(w) => b = 0)
        /\ Whole(r, at)
    BY <2>2, <2>3, <2>4, <2>5 DEF Draws
  <2>8. b \in 0 .. a /\ TrialAhead(w)' \in 0 .. TrialAhead(w)
    BY <2>2, <2>3, <2>7
  <2> QED
    BY <2>6, <2>7, <2>8 DEF a, b, r, at
<1>7. Len(transfers') = Len(transfers)
  BY <1>1, <1>2, ClawedOK DEF ClawOK
<1>8. Book!Drawn(o)
  <2> DEFINE a(w) == Ahead(w) - TrialAhead(w)
             b(w) == Ahead(w)' - TrialAhead(w)'
             c(w) == TrialAhead(w)
  <2>1. \A w \in exact' : /\ b(w) \in 0 .. a(w) /\ c(w)' \in 0 .. c(w)
                          /\ c(w)' < c(w) => b(w) = 0
    BY <1>6
  <2>2. \A w \in exact' : w \in Users
    BY <1>3
  <2>3. ASSUME NEW w \in exact', w \notin Book!Parties(o)
        PROVE  Ahead(w)' = Ahead(w) /\ TrialAhead(w)' = TrialAhead(w)
    <3>1. w # u /\ w \notin Receivers(u) /\ ~(bonus'[u] # bonus[u] /\ w = Inviter[u])
      BY <2>2, <2>3, SMTT(30) DEF Book!Parties, Receivers
    <3>2. w \notin Claw(o).hit
      BY <1>1, <1>2, <3>1, RefundHits
    <3>3. Revoked(o) => bonus'[u] # bonus[u]
      BY <1>1, <1>2 DEF Revoked, PeriodsInv, TypeOK, PeriodsAssumption
    <3>4. periods'[w] = periods[w] /\ Clock(w)' = Clock(w)
      BY <1>4, <1>5, <2>2, <3>1, <3>2, <3>3
    <3> QED
      BY <3>4 DEF Ahead, TrialAhead
  <2> QED
    BY <1>2, <1>3, <1>7, <2>1, <2>2, <2>3 DEF Book!Drawn
<1>9. ExactInv'
  BY <1>6 DEF ExactInv
<1> QED
  BY <1>8, <1>9

LEMMA BookStart ==
  ASSUME PeriodsAssumption, Init
  PROVE  Book!BookInit /\ BookInv
<1>1. PeriodsInv
  BY InvInit
<1>2. Balances
  BY <1>1, BalancesAre
<1>3. Book!BookInit
  <2>1. \A u \in Users : Ahead(u) - TrialAhead(u) \in Nat /\ TrialAhead(u) \in Nat
    BY <1>2 DEF Balances
  <2> QED
    BY <2>1 DEF Init, Book!BookInit, Book!NoTime, NoTime
<1>4. ASSUME NEW u \in Users
      PROVE  Whole(periods[u], Clock(u))
  <2>1. Clock(u) = 0
    BY DEF Init, Clock
  <2>2. \A i \in Kept(periods[u]) : i = 1 /\ periods[u][i].starts = 0
    <3>1. CASE First[u] = "none"
      BY <3>1 DEF Init, Kept
    <3>2. CASE First[u] # "none"
      <4>1. periods[u] = <<Period(FirstPlan, First[u], 0, FirstDays * Day)>>
        BY <3>2 DEF Init
      <4>2. Period(FirstPlan, First[u], 0, FirstDays * Day).starts = 0
        BY DEF Period
      <4> HIDE DEF Period
      <4>3. DOMAIN periods[u] = {1} /\ periods[u][1].starts = 0
        BY <4>1, <4>2
      <4> QED
        BY <4>3 DEF Kept
    <3> QED
      BY <3>1, <3>2
  <2> DEFINE s == periods[u]
  <2>3. \A i \in Kept(s) : i = 1 /\ s[i].starts = 0
    BY <2>2
  <2> HIDE DEF s
  <2>4. NoGap(s, 0) /\ FreeApart(s, 0)
    BY <2>3 DEF NoGap, FreeApart
  <2> QED
    BY <2>1, <2>4 DEF Whole, s
<1>5. ExactInv
  BY <1>4 DEF ExactInv, Init
<1> QED
  BY <1>1, <1>3, <1>5 DEF BookInv

LEMMA BookStep ==
  ASSUME PeriodsAssumption, BookInv, [Next]_vars
  PROVE  [Book!BookNext]_(Book!bookVars) /\ BookInv'
<1>1. PeriodsInv'
  BY NextInv DEF BookInv
<1>2. CASE Tick
  BY <1>1, <1>2, BurntStep DEF Book!BookNext, BookInv
<1>3. ASSUME NEW o \in Orders, Refund(o)
      PROVE  Book!BookNext /\ ExactInv'
  BY <1>1, <1>3, DrawnStep DEF Book!BookNext
<1>4. ASSUME NEW o \in Orders, NEW plan \in Plans, Fulfil(o, plan)
      PROVE  Book!BookNext /\ ExactInv'
  BY <1>1, <1>4, BoughtStep DEF Book!BookNext
<1>5. ASSUME NEW u \in Users, Freeze(u) \/ Resume(u)
      PROVE  Book!BookNext /\ ExactInv'
  BY <1>1, <1>5, FreezeStep, ResumeStep DEF Book!BookNext
<1>6. ASSUME NEW u \in Users, ClaimBonus(u)
      PROVE  Book!BookNext /\ ExactInv'
  <2>1. UNCHANGED <<now, periods, frozen, exact>>
    BY <1>6 DEF ClaimBonus
  <2>2. Book!Claimed(u)
    BY <1>6, <2>1, QuietStep DEF ClaimBonus, Book!Claimed
  <2> QED
    BY <2>1, <2>2, QuietStep DEF Book!BookNext
<1>7. ASSUME NEW u \in Users, GrantBonus(u) \/ LoseBonus(u)
      PROVE  Book!BookNext /\ ExactInv'
  <2> DEFINE v == Inviter[u]
             n == BonusDays
  <2>1. v \in Users /\ n \in Nat \ {0}
    BY <1>7, BonusAfterType DEF GrantBonus, LoseBonus, BookInv, PeriodsAssumption
  <2>2. Book!Settled(u)
    BY <1>7 DEF GrantBonus, LoseBonus, BonusAfter, Book!Settled
  <2>3. CASE GrantBonus(u)
    <3>1. /\ periods' = [periods EXCEPT ![v] = Gifted(periods[v], n)] /\ Touch({v})
          /\ UNCHANGED <<now, frozen>>
      BY <2>3 DEF GrantBonus
    <3> HIDE DEF v, n
    <3>2. Book!Post({v}) /\ Book!Credit(v, n * Day) /\ ExactInv'
      BY <1>1, <2>1, <3>1, GivenStep
    <3>3. Book!Rewarded(u)
      BY <2>2, <3>2 DEF Book!Rewarded, v, n
    <3> QED
      BY <3>2, <3>3 DEF Book!BookNext
  <2>4. CASE LoseBonus(u)
    <3>1. UNCHANGED <<now, periods, frozen, exact>>
      BY <2>4 DEF LoseBonus
    <3>2. Book!Post({}) /\ ExactInv'
      BY <3>1, QuietStep
    <3>3. Book!Unrewarded(u)
      BY <2>2, <3>2 DEF Book!Unrewarded
    <3> QED
      BY <3>2, <3>3 DEF Book!BookNext
  <2> QED
    BY <1>7, <2>3, <2>4
<1>8. ASSUME NEW u \in Users, NEW n \in GiftDays, Give(u, n)
      PROVE  Book!BookNext /\ ExactInv'
  <2>1. n \in Nat \ {0}
    BY DEF PeriodsAssumption
  <2>2. /\ periods' = [periods EXCEPT ![u] = Gifted(periods[u], n)] /\ Touch({u})
        /\ UNCHANGED <<now, frozen, status, bonus, transfers>>
        /\ gifts' = [gifts EXCEPT ![u] = @ + n]
    BY <1>8 DEF Give
  <2>3. Book!Post({u}) /\ Book!Credit(u, n * Day) /\ ExactInv'
    BY <1>1, <2>1, <2>2, GivenStep
  <2>4. Book!Given(u, n)
    BY <2>2, <2>3 DEF Book!Given
  <2> QED
    BY <2>3, <2>4 DEF Book!BookNext
<1>9. ASSUME NEW u \in Users, NEW v \in Users, NEW n \in DayCounts, Transfer(u, v, n)
      PROVE  Book!BookNext /\ ExactInv'
  BY <1>1, <1>9, MovedStep DEF Book!BookNext
<1>10. CASE UNCHANGED vars
  <2>1. UNCHANGED <<now, periods, frozen, exact, status, gifts, bonus, transfers>>
    BY <1>10 DEF vars
  <2>2. UNCHANGED Book!bookVars
    BY <2>1, QuietStep DEF Book!bookVars, Book!documents
  <2> QED
    BY <1>1, <2>1, <2>2, QuietStep DEF BookInv
<1> QED
  BY <1>1, <1>2, <1>3, <1>4, <1>5, <1>6, <1>7, <1>8, <1>9, <1>10 DEF Next, BookInv

\* Accounts with an exact balance have no gap before a period that waits, and
\* no bought and given days ahead at once: what makes the balance of the book
\* the sum of the periods (resume, grant_subscription, add_bonus_days).
THEOREM BookInvCorrect == Spec => []BookInv
<1>1. Init => BookInv
  BY BookStart, PeriodsAssumption
<1>2. BookInv /\ [Next]_vars => BookInv'
  BY BookStep, PeriodsAssumption
<1> QED
  BY <1>1, <1>2, PTL DEF Spec

\* Every operation posts to the balance the days of its document, whatever it
\* does to the periods behind it, and time burns it tick by tick except during a
\* pause: Periods implements DayBook.
THEOREM KeepsTheBookCorrect == Spec => KeepsTheBook
<1>1. Init => Book!BookInit
  BY BookStart, PeriodsAssumption
<1>2. BookInv /\ [Next]_vars => [Book!BookNext]_(Book!bookVars)
  BY BookStep, PeriodsAssumption
<1> QED
  BY <1>1, <1>2, BookInvCorrect, PTL DEF Spec, KeepsTheBook, Book!BookSpec

--------------------------------------------------------------------------------
(* A pause keeps the days                                                  *)

\* The end of a pause, for any account, exact or not.
LEMMA ResumeKeeps ==
  ASSUME PeriodsAssumption, PeriodsInv, NEW u \in Users, Resume(u)
  PROVE  LET elapsed == now - frozen[u]
             spent == IF frozen[u] # NoTime /\ elapsed < MinPause THEN elapsed ELSE 0
         IN Ahead(u)' \in (Ahead(u) - spent) .. Ahead(u)
<1> DEFINE s == periods[u]
           at == Clock(u)
           n == now - Clock(u)
           r == After(s, at, n)
           I == Kept(s)
<1>1. /\ at \in Nat /\ n \in Nat /\ Clock(u)' = now /\ at = frozen[u]
      /\ periods'[u] = IF n >= MinPause THEN r ELSE s
  BY ResumeClock
<1>2. ListOK(s) /\ s \in Seq(PeriodType) /\ now \in Nat /\ MinPause \in Nat
  BY InvFacts DEF PeriodsAssumption
<1>3. at + n = now /\ frozen[u] # NoTime
  BY <1>1, <1>2 DEF Resume
<1>4. Ahead(u) = Total(s, I, at)
  BY DEF Ahead
<1>5. I \in SUBSET Kept(s) /\ Total(s, I, at) \in Nat
  BY <1>1, <1>2, Subsets, TotalType
<1>6. CASE n >= MinPause
  <2>1. Ahead(u)' = Total(r, Kept(r), at + n)
    BY <1>1, <1>3, <1>6 DEF Ahead
  <2>2. now - frozen[u] = n
    BY <1>1
  <2> HIDE DEF s, at, n
  <2>3. Kept(r) = I
    BY <1>1, <1>2, AfterKept
  <2> HIDE DEF I
  <2>4. Total(r, I, at + n) = Total(s, I, at)
    BY <1>1, <1>2, <1>5, AfterTotal
  <2>5. Ahead(u)' = Ahead(u) /\ Ahead(u) \in Nat
    BY <1>4, <1>5, <2>1, <2>3, <2>4
  <2>6. ~(n < MinPause)
    BY <1>1, <1>2, <1>6
  <2> QED
    BY <2>2, <2>5, <2>6
<1>7. CASE ~(n >= MinPause)
  <2>1. Ahead(u)' = Total(s, I, at + n)
    BY <1>1, <1>3, <1>7 DEF Ahead
  <2>2. now - frozen[u] = n
    BY <1>1
  <2> HIDE DEF s, at, n, I
  <2>3. Total(s, I, at + n) \in (Total(s, I, at) - n) .. Total(s, I, at)
    BY <1>1, <1>2, <1>5, TimeSpends
  <2>4. n < MinPause
    BY <1>1, <1>2, <1>7
  <2> QED
    BY <1>3, <1>4, <2>1, <2>2, <2>3, <2>4
<1> QED
  BY <1>6, <1>7

\* A pause and its end change no balance, but for the time of a pause shorter
\* than MinPause.
THEOREM PauseCorrect == Spec => PauseKeepsDays
<1> DEFINE Keeps == \A u \in Users : frozen'[u] # frozen[u] =>
                      LET elapsed == now - frozen[u]
                          spent == IF frozen[u] # NoTime /\ elapsed < MinPause
                                     THEN elapsed ELSE 0
                      IN Ahead(u)' \in (Ahead(u) - spent) .. Ahead(u)
<1>1. PeriodsInv /\ [Next]_vars => [Keeps]_vars
  <2> DEFINE Spent(w) == IF frozen[w] # NoTime /\ now - frozen[w] < MinPause
                           THEN now - frozen[w] ELSE 0
  <2> SUFFICES ASSUME PeriodsInv, Next, NEW w \in Users, frozen'[w] # frozen[w]
               PROVE  Ahead(w)' \in (Ahead(w) - Spent(w)) .. Ahead(w)
    OBVIOUS
  <2>1. PICK u \in Users : Freeze(u) \/ Resume(u)
    BY DEF Next, Tick, Refund, Fulfil, ClaimBonus, GrantBonus, LoseBonus, Give, Transfer
  <2>2. w = u
    BY <2>1 DEF Freeze, Resume, PeriodsInv, TypeOK
  <2>3. CASE Freeze(u)
    <3>1. Ahead(w)' = Ahead(w) /\ Spent(w) = 0
      BY <2>2, <2>3, FreezeKeeps DEF Freeze
    <3>2. Ahead(w) \in Int
      <4> DEFINE I == Kept(periods[w])
      <4>1. periods[w] \in Seq(PeriodType) /\ Clock(w) \in Int
        BY InvFacts
      <4>2. I \in SUBSET (DOMAIN periods[w])
        BY <4>1, Subsets
      <4> HIDE DEF I
      <4>3. Total(periods[w], I, Clock(w)) \in Nat
        BY <4>1, <4>2, TotalType
      <4> QED
        BY <4>3 DEF Ahead, I
    <3> HIDE DEF Spent
    <3> QED
      BY <3>1, <3>2
  <2>4. CASE Resume(u)
    BY <2>2, <2>4, ResumeKeeps, PeriodsAssumption
  <2> QED
    BY <2>1, <2>3, <2>4
<1> QED
  BY <1>1, InvariantCorrect, PTL DEF Spec, PauseKeepsDays
================================================================================
