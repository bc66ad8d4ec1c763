---------------------------- MODULE Periods_proofs ----------------------------
(***************************************************************************)
(* Proofs about Periods: the list of every account stays in order.         *)
(*                                                                         *)
(* What the periods that are kept have in common (ListOK) is preserved by  *)
(* each of the operations on one list: grant, gift, cut, refund, pause.    *)
(* An action changes one list, two, or, a refund, one after another; the   *)
(* theorems are about the actions.                                         *)
(***************************************************************************)
EXTENDS Periods, Sums_proofs, SequenceTheorems, TLAPS

--------------------------------------------------------------------------------
(* The invariants of a list of periods                                     *)

\* The periods that are kept last some time and lie apart.
Apart(s) ==
  /\ \A i \in Kept(s) : s[i].starts < s[i].ends
  /\ \A i, j \in Kept(s) : i = j \/ s[i].ends <= s[j].starts \/ s[j].ends <= s[i].starts

\* A trial is what the account began with: it never waits behind another period.
TrialsFirst(s) == \A i \in Kept(s) : s[i].kind = "trial" => s[i].starts = 0

ListOK(s) == s \in Seq(PeriodType) /\ Apart(s) /\ TrialsFirst(s)

\* An operation renames no period and forgets none.
Grown(s, r) == Len(s) <= Len(r) /\ \A i \in DOMAIN s : r[i].kind = s[i].kind

--------------------------------------------------------------------------------
(* Lists of periods                                                        *)

LEMMA PeriodFields ==
  ASSUME NEW p \in PeriodType
  PROVE  /\ p.starts \in Nat /\ p.ends \in Nat /\ p.starts <= p.ends
         /\ p.off \in BOOLEAN /\ p.kind \in {"paid", "bonus", "trial"}
BY DEF PeriodType

\* A period with new dates, or cancelled, is a period.
LEMMA WithOff ==
  ASSUME NEW p \in PeriodType, NEW off \in BOOLEAN
  PROVE  LET q == [p EXCEPT !.off = off] IN
         /\ q \in PeriodType /\ q.off = off
         /\ q.plan = p.plan /\ q.kind = p.kind /\ q.starts = p.starts /\ q.ends = p.ends
BY DEF PeriodType

LEMMA WithEnds ==
  ASSUME NEW p \in PeriodType, NEW ends \in Nat, p.starts <= ends
  PROVE  LET q == [p EXCEPT !.ends = ends] IN
         /\ q \in PeriodType /\ q.ends = ends
         /\ q.plan = p.plan /\ q.kind = p.kind /\ q.starts = p.starts /\ q.off = p.off
BY DEF PeriodType

LEMMA WithDates ==
  ASSUME NEW p \in PeriodType, NEW starts \in Nat, NEW ends \in Nat, starts <= ends
  PROVE  LET q == [p EXCEPT !.starts = starts, !.ends = ends] IN
         /\ q \in PeriodType /\ q.ends = ends /\ q.starts = starts
         /\ q.plan = p.plan /\ q.kind = p.kind /\ q.off = p.off
BY DEF PeriodType

LEMMA WithEndsOff ==
  ASSUME NEW p \in PeriodType, NEW ends \in Nat, p.starts <= ends, NEW off \in BOOLEAN
  PROVE  LET q == [p EXCEPT !.ends = ends, !.off = off] IN
         /\ q \in PeriodType /\ q.ends = ends /\ q.off = off
         /\ q.plan = p.plan /\ q.kind = p.kind /\ q.starts = p.starts
BY DEF PeriodType

LEMMA ListFields ==
  ASSUME NEW s \in Seq(PeriodType)
  PROVE  /\ Len(s) \in Nat /\ DOMAIN s = 1 .. Len(s) /\ IsFiniteSet(DOMAIN s)
         /\ \A i \in DOMAIN s :
              /\ s[i] \in PeriodType
              /\ s[i].starts \in Nat /\ s[i].ends \in Nat /\ s[i].starts <= s[i].ends
              /\ s[i].off \in BOOLEAN /\ s[i].kind \in {"paid", "bonus", "trial"}
<1>1. Len(s) \in Nat /\ DOMAIN s = 1 .. Len(s)
  OBVIOUS
<1>2. IsFiniteSet(1 .. Len(s))
  BY <1>1, FS_Interval
<1>3. \A i \in DOMAIN s : s[i] \in PeriodType
  BY <1>1
<1> QED
  BY <1>1, <1>2, <1>3, PeriodFields

\* A list changed period by period is a list of the same length.
LEMMA ListMap ==
  ASSUME NEW s \in Seq(PeriodType), NEW r, r \in [DOMAIN s -> PeriodType]
  PROVE  r \in Seq(PeriodType) /\ Len(r) = Len(s) /\ DOMAIN r = DOMAIN s
<1>1. Len(s) \in Nat /\ DOMAIN s = 1 .. Len(s)
  OBVIOUS
<1>2. r \in Seq(PeriodType)
  BY <1>1, SeqDef
<1>3. DOMAIN r = 1 .. Len(r) /\ Len(r) \in Nat
  BY <1>2
<1> QED
  BY <1>1, <1>2, <1>3

LEMMA LatestEnds ==
  ASSUME NEW s \in Seq(PeriodType), NEW I \in SUBSET (DOMAIN s), I # {}
  PROVE  /\ Latest(s, I, "ends") \in I
         /\ \A j \in I : s[j].ends <= s[Latest(s, I, "ends")].ends
<1>1. IsFiniteSet(I)
  BY ListFields, FS_Subset
<1> DEFINE f == [i \in I |-> s[i].ends]
<1>2. \A i \in I : f[i] \in Int
  BY DEF PeriodType
<1>3. PICK i \in I : \A j \in I : f[j] <= f[i]
  <2> HIDE DEF f
  <2> QED
    BY <1>1, <1>2, Largest
<1>4. \A j \in I : s[j].ends <= s[i].ends
  BY <1>3
<1> QED
  BY <1>4 DEF Latest

LEMMA LatestStarts ==
  ASSUME NEW s \in Seq(PeriodType), NEW I \in SUBSET (DOMAIN s), I # {}
  PROVE  /\ Latest(s, I, "starts") \in I
         /\ \A j \in I : s[j].starts <= s[Latest(s, I, "starts")].starts
<1>1. IsFiniteSet(I)
  BY ListFields, FS_Subset
<1> DEFINE f == [i \in I |-> s[i].starts]
<1>2. \A i \in I : f[i] \in Int
  BY DEF PeriodType
<1>3. PICK i \in I : \A j \in I : f[j] <= f[i]
  <2> HIDE DEF f
  <2> QED
    BY <1>1, <1>2, Largest
<1>4. \A j \in I : s[j].starts <= s[i].starts
  BY <1>3
<1> QED
  BY <1>4 DEF Latest

LEMMA MaxIs ==
  ASSUME NEW I \in SUBSET Int, IsFiniteSet(I), I # {}
  PROVE  Max(I) \in I /\ \A j \in I : j <= Max(I)
<1> DEFINE f == [i \in I |-> i]
<1>1. \A i \in I : f[i] \in Int
  OBVIOUS
<1>2. PICK i \in I : \A j \in I : f[j] <= f[i]
  <2> HIDE DEF f
  <2> QED
    BY <1>1, Largest
<1>3. \A j \in I : i >= j
  BY <1>2
<1> QED
  BY <1>3 DEF Max

LEMMA MaxSingle ==
  ASSUME NEW i \in Int
  PROVE  Max({i}) = i
BY FS_Singleton, MaxIs

--------------------------------------------------------------------------------
(* Sums over periods                                                       *)

LEMMA RestType ==
  ASSUME NEW p \in PeriodType, NEW at \in Int
  PROVE  Rest(p, at) \in Nat /\ Rest(p, at) <= p.ends - p.starts
BY PeriodFields DEF Rest, Above

LEMMA RestsType ==
  ASSUME NEW s \in Seq(PeriodType), NEW at \in Int
  PROVE  \A i \in DOMAIN s : Rests(s, at)[i] = Rest(s[i], at) /\ Rests(s, at)[i] \in Nat
BY ListFields, RestType DEF Rests

LEMMA TotalType ==
  ASSUME NEW s \in Seq(PeriodType), NEW at \in Int, NEW I \in SUBSET (DOMAIN s)
  PROVE  IsFiniteSet(I) /\ Total(s, I, at) \in Nat
<1>1. IsFiniteSet(I)
  BY ListFields, FS_Subset
<1> QED
  BY <1>1, RestsType, SumType DEF Total

LEMMA LiveKept ==
  ASSUME NEW s
  PROVE  /\ Live(s) \subseteq Kept(s) /\ Kept(s) \subseteq DOMAIN s
         /\ \A i \in Kept(s) : i \in Live(s) <=> s[i].ends > now
BY DEF Live, Kept

LEMMA GrownTwice ==
  ASSUME NEW s, NEW r, NEW q, Grown(s, r), Grown(r, q),
         s \in Seq(PeriodType), r \in Seq(PeriodType), q \in Seq(PeriodType)
  PROVE  Grown(s, q)
<1>1. DOMAIN s = 1 .. Len(s) /\ DOMAIN r = 1 .. Len(r) /\ {Len(s), Len(r), Len(q)} \subseteq Nat
  BY ListFields
<1> QED
  BY <1>1 DEF Grown

--------------------------------------------------------------------------------
(* Purchases                                                               *)

LEMMA RunningIs ==
  ASSUME NEW s, ListOK(s), now \in Nat
  PROVE  /\ Running(s) \subseteq Live(s)
         /\ \A i \in Running(s) : s[i].starts <= now
         /\ \A i \in Live(s) : s[i].starts <= now => Running(s) = {i}
<1> DEFINE I == {i \in Live(s) : s[i].starts <= now}
<1>1. Running(s) = IF I = {} THEN {} ELSE {Latest(s, I, "ends")}
  BY DEF Running
<1>2. I \subseteq DOMAIN s /\ s \in Seq(PeriodType)
  BY DEF ListOK, Live
<1>3. I # {} => Latest(s, I, "ends") \in I
  <2> HIDE DEF I
  <2> QED
    BY <1>2, LatestEnds
<1>4. \A i, j \in I : i = j
  <2> SUFFICES ASSUME NEW i \in I, NEW j \in I, i # j PROVE FALSE
    OBVIOUS
  <2>1. /\ s[i].starts \in Nat /\ s[i].ends \in Nat /\ s[i].starts <= now /\ s[i].ends > now
        /\ s[j].starts \in Nat /\ s[j].ends \in Nat /\ s[j].starts <= now /\ s[j].ends > now
    BY <1>2, ListFields DEF Live
  <2>2. s[i].ends <= s[j].starts \/ s[j].ends <= s[i].starts
    BY LiveKept DEF ListOK, Apart
  <2> QED
    BY <2>1, <2>2
<1> QED
  BY <1>1, <1>3, <1>4

\* Behind is the last of the periods that stay, and a paid one, if one stays.
LEMMA BehindIs ==
  ASSUME NEW s, ListOK(s), now \in Nat
  PROVE  \/ /\ Behind(s) = {}
            /\ \A i \in Kept(s) \ Dropped(s) : s[i].ends <= now
         \/ \E b \in Live(s) \ Dropped(s) :
              /\ Behind(s) = {b}
              /\ s[b].kind = "paid"
              /\ \A i \in Kept(s) \ Dropped(s) : i = b \/ s[i].ends <= s[b].starts
<1> DEFINE Q == {i \in Live(s) : s[i].starts > now /\ s[i].kind # "bonus"}
<1>1. s \in Seq(PeriodType) /\ Q \subseteq DOMAIN s /\ Q \subseteq Live(s)
  BY DEF ListOK, Live
<1>2. \A i \in Q : s[i].kind = "paid" /\ i \notin Dropped(s)
  <2> TAKE i \in Q
  <2>1. s[i].kind \in {"paid", "bonus", "trial"} /\ s[i].starts > now /\ s[i].kind # "bonus" /\ s[i].starts \in Nat
    BY <1>1, ListFields
  <2>2. s[i].kind # "trial"
    BY <2>1, LiveKept DEF ListOK, TrialsFirst
  <2>3. i \notin Running(s)
    BY <2>1, RunningIs
  <2> QED
    BY <2>1, <2>2, <2>3 DEF Dropped
<1>3. CASE Q # {}
  <2> DEFINE b == Latest(s, Q, "starts")
  <2>1. Behind(s) = {b}
    BY <1>3 DEF Behind
  <2>2. b \in Q /\ \A j \in Q : s[j].starts <= s[b].starts
    <3> HIDE DEF Q
    <3> QED
      BY <1>1, <1>3, LatestStarts
  <2> HIDE DEF b
  <2>3. s[b].starts > now /\ s[b].starts \in Nat /\ s[b].ends \in Nat
    BY <2>2, <1>1, ListFields
  <2>4. ASSUME NEW i \in Kept(s) \ Dropped(s), i # b
        PROVE  s[i].ends <= s[b].starts
    <3>1. /\ s[i].starts \in Nat /\ s[i].ends \in Nat /\ s[i].starts < s[i].ends
          /\ s[b].starts < s[b].ends
          /\ s[i].ends <= s[b].starts \/ s[b].ends <= s[i].starts
      BY <1>1, <2>2, <2>4, ListFields, LiveKept DEF ListOK, Apart
    <3>2. CASE s[i].starts <= now
      BY <2>3, <3>1, <3>2
    <3>3. CASE s[i].starts > now
      <4>1. i \in Live(s)
        BY <3>1, <3>3, LiveKept
      <4>2. i \in Q
        BY <3>3, <4>1 DEF Dropped
      <4> QED
        BY <2>2, <2>3, <3>1, <4>2
    <3> QED
      BY <3>1, <3>2, <3>3
  <2> QED
    BY <1>2, <2>1, <2>2, <2>4
<1>4. CASE Q = {}
  <2>1. Behind(s) = Running(s) \ Dropped(s)
    BY <1>4 DEF Behind
  <2>2. \A i \in Kept(s) \ Dropped(s) : i \in Running(s) \/ s[i].ends <= now
    <3> TAKE i \in Kept(s) \ Dropped(s)
    <3>1. /\ s[i].starts \in Nat /\ s[i].ends \in Nat
      BY <1>1, ListFields, LiveKept
    <3>2. CASE i \in Live(s) /\ s[i].starts > now
      BY <1>4, <3>2 DEF Dropped
    <3>3. CASE i \in Live(s) /\ s[i].starts <= now
      BY <3>3, RunningIs
    <3>4. CASE i \notin Live(s)
      BY <3>1, <3>4, LiveKept
    <3> QED
      BY <3>1, <3>2, <3>3, <3>4
  <2>3. CASE Running(s) \ Dropped(s) = {}
    BY <2>1, <2>2, <2>3
  <2>4. CASE Running(s) \ Dropped(s) # {}
    <3>1. PICK b \in Running(s) \ Dropped(s) : TRUE
      BY <2>4
    <3>2. b \in Live(s) /\ Running(s) = {b} /\ s[b].starts <= now
      BY <3>1, RunningIs
    <3>3. s[b].kind = "paid"
      BY <3>1 DEF Dropped
    <3>4. ASSUME NEW i \in Kept(s) \ Dropped(s), i # b
          PROVE  s[i].ends <= s[b].starts
      <4>1. s[i].ends <= now
        BY <2>2, <3>2, <3>4
      <4>2. /\ s[i].starts \in Nat /\ s[i].ends \in Nat /\ s[b].starts \in Nat /\ s[b].ends \in Nat
            /\ s[b].ends > now
            /\ s[i].starts < s[i].ends
            /\ s[i].ends <= s[b].starts \/ s[b].ends <= s[i].starts
        BY <1>1, <3>2, <3>4, ListFields, LiveKept DEF ListOK, Apart
      <4> QED
        BY <4>1, <4>2
    <3> QED
      BY <2>1, <3>1, <3>2, <3>3, <3>4
  <2> QED
    BY <2>3, <2>4
<1> QED
  BY <1>3, <1>4

LEMMA CarryType ==
  ASSUME NEW s, ListOK(s), now \in Nat
  PROVE  Carry(s) \in Nat
<1>1. {i \in Dropped(s) : s[i].kind = "bonus"} \subseteq DOMAIN s
  BY RunningIs DEF Dropped, Live
<1> QED
  BY <1>1, TotalType DEF Carry, ListOK

\* The list without the dropped periods.
Closed(s) == [i \in DOMAIN s |-> [s[i] EXCEPT !.off = @ \/ i \in Dropped(s)]]

LEMMA ClosedIs ==
  ASSUME NEW s, ListOK(s)
  PROVE  /\ Closed(s) \in Seq(PeriodType) /\ Len(Closed(s)) = Len(s)
         /\ DOMAIN Closed(s) = DOMAIN s /\ Kept(Closed(s)) = Kept(s) \ Dropped(s)
         /\ \A i \in DOMAIN s :
              /\ Closed(s)[i].starts = s[i].starts /\ Closed(s)[i].ends = s[i].ends
              /\ Closed(s)[i].kind = s[i].kind /\ Closed(s)[i].plan = s[i].plan
<1>1. s \in Seq(PeriodType)
  BY DEF ListOK
<1>2. \A i \in DOMAIN s : Closed(s)[i] = [s[i] EXCEPT !.off = @ \/ i \in Dropped(s)]
  BY DEF Closed
<1>3. \A i \in DOMAIN s :
        /\ Closed(s)[i] \in PeriodType
        /\ Closed(s)[i].starts = s[i].starts /\ Closed(s)[i].ends = s[i].ends
        /\ Closed(s)[i].kind = s[i].kind /\ Closed(s)[i].plan = s[i].plan
        /\ Closed(s)[i].off = (s[i].off \/ i \in Dropped(s))
  <2> TAKE i \in DOMAIN s
  <2> DEFINE off == s[i].off \/ i \in Dropped(s)
  <2>1. s[i] \in PeriodType /\ off \in BOOLEAN /\ Closed(s)[i] = [s[i] EXCEPT !.off = off]
    BY <1>1, <1>2, ListFields
  <2> HIDE DEF off
  <2> QED
    BY <2>1, WithOff, ZenonT(30) DEF off
<1>4. Closed(s) \in [DOMAIN s -> PeriodType]
  BY <1>3 DEF Closed
<1>5. /\ Closed(s) \in Seq(PeriodType) /\ Len(Closed(s)) = Len(s)
      /\ DOMAIN Closed(s) = DOMAIN s
  BY <1>1, <1>4, ListMap
<1> QED
  BY <1>3, <1>5 DEF Kept

\* The list with period i lengthened, and the list with one more period.
Lengthen(s, i, n) == [s EXCEPT ![i].ends = @ + n]
Put(s, p) == Append(s, p)

LEMMA Lengthened ==
  ASSUME NEW s \in Seq(PeriodType), NEW i \in DOMAIN s, NEW n \in Nat
  PROVE  /\ Lengthen(s, i, n) \in Seq(PeriodType) /\ Len(Lengthen(s, i, n)) = Len(s)
         /\ DOMAIN Lengthen(s, i, n) = DOMAIN s /\ Kept(Lengthen(s, i, n)) = Kept(s)
         /\ \A j \in DOMAIN s :
              /\ Lengthen(s, i, n)[j].starts = s[j].starts
              /\ Lengthen(s, i, n)[j].kind = s[j].kind
              /\ Lengthen(s, i, n)[j].ends = IF j = i THEN s[j].ends + n ELSE s[j].ends
<1> DEFINE r == Lengthen(s, i, n)
           e == s[i].ends + n
<1>1. /\ DOMAIN r = DOMAIN s
      /\ \A j \in DOMAIN s : j # i => r[j] = s[j]
      /\ r[i] = [s[i] EXCEPT !.ends = e]
  BY DEF Lengthen
<1>2. s[i] \in PeriodType /\ e \in Nat /\ s[i].starts <= e
  BY ListFields
<1> HIDE DEF r, e
<1>3. /\ r[i] \in PeriodType /\ r[i].ends = e /\ r[i].starts = s[i].starts
      /\ r[i].kind = s[i].kind /\ r[i].off = s[i].off
  BY <1>1, <1>2, WithEnds
<1>4. r \in [DOMAIN s -> PeriodType]
  <2>1. \A j \in DOMAIN s : r[j] \in PeriodType
    BY <1>1, <1>3, ListFields
  <2>2. r = [j \in DOMAIN s |-> r[j]]
    BY DEF r, Lengthen
  <2> QED
    BY <2>1, <2>2
<1>5. r \in Seq(PeriodType) /\ Len(r) = Len(s)
  BY <1>4, ListMap
<1>6. Kept(r) = Kept(s)
  BY <1>1, <1>3 DEF Kept
<1> QED
  BY <1>1, <1>3, <1>5, <1>6 DEF r, e

LEMMA Appended ==
  ASSUME NEW s \in Seq(PeriodType), NEW p \in PeriodType, ~p.off
  PROVE  /\ Put(s, p) \in Seq(PeriodType) /\ Len(Put(s, p)) = Len(s) + 1
         /\ DOMAIN Put(s, p) = DOMAIN s \union {Len(s) + 1} /\ Len(s) + 1 \notin DOMAIN s
         /\ Kept(Put(s, p)) = Kept(s) \union {Len(s) + 1}
         /\ \A j \in DOMAIN s : Put(s, p)[j] = s[j]
         /\ Put(s, p)[Len(s) + 1] = p
<1> DEFINE r == Append(s, p)
           m == Len(s) + 1
<1>1. /\ r \in Seq(PeriodType) /\ Len(r) = m /\ DOMAIN r = DOMAIN s \union {m} /\ m \notin DOMAIN s
      /\ \A j \in DOMAIN s : r[j] = s[j]
      /\ r[m] = p
  OBVIOUS
<1> HIDE DEF r, m
<1>2. Kept(r) = Kept(s) \union {m}
  BY <1>1 DEF Kept
<1> QED
  BY <1>1, <1>2 DEF r, m, Put

\* A list stays in order when its last period is lengthened, and when a period
\* is put behind all others.
LEMMA LengthenedOK ==
  ASSUME NEW s, ListOK(s), NEW n \in Nat, NEW b \in Kept(s),
         \A i \in Kept(s) : i = b \/ s[i].ends <= s[b].starts
  PROVE  ListOK(Lengthen(s, b, n)) /\ Grown(s, Lengthen(s, b, n))
<1> DEFINE r == Lengthen(s, b, n)
<1>1. /\ s \in Seq(PeriodType) /\ Kept(s) \subseteq DOMAIN s /\ Len(s) \in Nat
      /\ \A i \in DOMAIN s : s[i].starts \in Nat /\ s[i].ends \in Nat
      /\ \A i \in Kept(s) : s[i].starts < s[i].ends
  BY LiveKept, ListFields DEF ListOK, Apart
<1>2. /\ r \in Seq(PeriodType) /\ Len(r) = Len(s) /\ DOMAIN r = DOMAIN s /\ Kept(r) = Kept(s)
      /\ \A j \in DOMAIN s : /\ r[j].starts = s[j].starts /\ r[j].kind = s[j].kind
                             /\ r[j].ends = IF j = b THEN s[j].ends + n ELSE s[j].ends
  BY <1>1, Lengthened
<1> HIDE DEF r
<1>3. \A i \in Kept(r) : r[i].starts < r[i].ends
  BY <1>1, <1>2
<1>4. \A i \in Kept(r) : i = b \/ r[i].ends <= r[b].starts
  BY <1>1, <1>2
<1>5. \A i, j \in Kept(r) \ {b} : i = j \/ r[i].ends <= r[j].starts \/ r[j].ends <= r[i].starts
  BY <1>1, <1>2 DEF ListOK, Apart
<1>6. Apart(r)
  BY <1>3, <1>4, <1>5 DEF Apart
<1>7. TrialsFirst(r)
  BY <1>1, <1>2 DEF ListOK, TrialsFirst
<1>8. Grown(s, r)
  BY <1>1, <1>2 DEF Grown
<1> QED
  BY <1>2, <1>6, <1>7, <1>8 DEF ListOK, r

LEMMA AppendedOK ==
  ASSUME NEW s, ListOK(s), NEW p \in PeriodType, ~p.off, p.starts < p.ends, p.kind # "trial",
         \A i \in Kept(s) : s[i].ends <= p.starts
  PROVE  ListOK(Put(s, p)) /\ Grown(s, Put(s, p))
<1> DEFINE r == Put(s, p)
           m == Len(s) + 1
<1>1. /\ s \in Seq(PeriodType) /\ Kept(s) \subseteq DOMAIN s /\ Len(s) \in Nat
      /\ \A i \in DOMAIN s : s[i].starts \in Nat /\ s[i].ends \in Nat
      /\ \A i \in Kept(s) : s[i].starts < s[i].ends
  BY LiveKept, ListFields DEF ListOK, Apart
<1>2. /\ r \in Seq(PeriodType) /\ Len(r) = m
      /\ m \notin DOMAIN s /\ Kept(r) = Kept(s) \union {m}
      /\ \A j \in DOMAIN s : r[j] = s[j]
      /\ r[m] = p
  BY <1>1, Appended
<1>3. Len(s) <= m
  BY <1>1
<1> HIDE DEF r, m
<1>4. Apart(r)
  <2>1. \A i \in Kept(s) : r[i].starts < r[i].ends /\ r[i].ends <= r[m].starts
    BY <1>1, <1>2
  <2>2. \A i, j \in Kept(s) : i = j \/ r[i].ends <= r[j].starts \/ r[j].ends <= r[i].starts
    BY <1>1, <1>2 DEF ListOK, Apart
  <2> QED
    BY <1>2, <2>1, <2>2 DEF Apart
<1>5. TrialsFirst(r)
  BY <1>1, <1>2 DEF ListOK, TrialsFirst
<1>6. Grown(s, r)
  BY <1>2, <1>3 DEF Grown
<1> QED
  BY <1>2, <1>4, <1>5, <1>6 DEF ListOK, r

LEMMA NewPeriod ==
  ASSUME NEW plan \in Plans \union {FirstPlan, "gift"}, NEW kind \in {"paid", "bonus", "trial"},
         NEW starts \in Nat, NEW ends \in Nat, starts <= ends
  PROVE  /\ Period(plan, kind, starts, ends) \in PeriodType
         /\ ~Period(plan, kind, starts, ends).off
         /\ Period(plan, kind, starts, ends).kind = kind
         /\ Period(plan, kind, starts, ends).plan = plan
         /\ Period(plan, kind, starts, ends).starts = starts
         /\ Period(plan, kind, starts, ends).ends = ends
BY DEF Period, PeriodType

\* What grant_subscription makes of a list: n days and those carried over go to
\* the last period that stays, or into a period of their own behind it.
GrantedTo(s, plan, n, got) ==
  LET c == Closed(s)
      more == n * Day + Carry(s)
  IN \/ \E b \in Kept(c) :
          /\ got.list = Lengthen(c, b, more) /\ got.at = b
          /\ c[b].kind = "paid" /\ c[b].ends > now
          /\ \A i \in Kept(c) : i = b \/ c[i].ends <= c[b].starts
     \/ \E starts \in Nat :
          /\ got.list = Put(c, Period(plan, "paid", starts, starts + more))
          /\ got.at = Len(c) + 1
          /\ starts >= now
          /\ \A i \in Kept(c) : c[i].ends <= starts
          /\ starts > now => \E b \in Kept(c) : c[b].ends = starts

LEMMA MoreType ==
  ASSUME PeriodsAssumption, NEW s, ListOK(s), now \in Nat, NEW n \in Nat \ {0}
  PROVE  n * Day + Carry(s) \in Nat /\ n * Day + Carry(s) > 0
<1>1. Carry(s) \in Nat /\ Day \in Nat \ {0}
  BY CarryType DEF PeriodsAssumption
<1>2. \A d \in Nat \ {0}, k \in Nat : n * d + k \in Nat /\ n * d + k > 0
  OBVIOUS
<1> QED
  BY <1>1, <1>2

\* The periods that stay are in order.
LEMMA ClosedOK ==
  ASSUME NEW s, ListOK(s)
  PROVE  ListOK(Closed(s)) /\ Grown(s, Closed(s))
<1>1. /\ Closed(s) \in Seq(PeriodType) /\ Len(Closed(s)) = Len(s)
      /\ DOMAIN Closed(s) = DOMAIN s /\ Kept(Closed(s)) = Kept(s) \ Dropped(s)
      /\ \A i \in DOMAIN s :
           /\ Closed(s)[i].starts = s[i].starts /\ Closed(s)[i].ends = s[i].ends
           /\ Closed(s)[i].kind = s[i].kind /\ Closed(s)[i].plan = s[i].plan
  BY ClosedIs
<1>2. s \in Seq(PeriodType) /\ Kept(s) \subseteq DOMAIN s /\ Len(s) \in Nat
  BY LiveKept, ListFields DEF ListOK
<1> QED
  BY <1>1, <1>2 DEF ListOK, Apart, TrialsFirst, Grown

LEMMA GrantedIs ==
  ASSUME PeriodsAssumption, NEW s, ListOK(s), now \in Nat, NEW plan, NEW n \in Nat \ {0}
  PROVE  GrantedTo(s, plan, n, Granted(s, plan, n))
<1> DEFINE c == Closed(s)
           more == n * Day + Carry(s)
           same == {i \in Behind(s) : s[i].plan = plan}
           starts == IF Behind(s) = {} THEN now ELSE s[Max(Behind(s))].ends
           p == Period(plan, "paid", starts, starts + more)
           got == Granted(s, plan, n)
<1>1. got = IF same # {} THEN [list |-> [c EXCEPT ![Max(same)].ends = @ + more], at |-> Max(same)]
            ELSE [list |-> Append(c, p), at |-> Len(s) + 1]
  BY DEF Granted, Closed
<1>2. /\ c \in Seq(PeriodType) /\ Len(c) = Len(s)
      /\ DOMAIN c = DOMAIN s /\ Kept(c) = Kept(s) \ Dropped(s)
      /\ \A i \in DOMAIN s : /\ c[i].starts = s[i].starts /\ c[i].ends = s[i].ends
                             /\ c[i].kind = s[i].kind /\ c[i].plan = s[i].plan
  BY ClosedIs
<1>3. /\ s \in Seq(PeriodType) /\ Live(s) \subseteq DOMAIN s /\ Live(s) \subseteq Kept(s)
      /\ Kept(s) \subseteq DOMAIN s
      /\ Len(s) \in Nat /\ DOMAIN s = 1 .. Len(s)
      /\ \A i \in DOMAIN s : s[i].starts \in Nat /\ s[i].ends \in Nat
      /\ \A i \in Live(s) : s[i].ends > now
  BY LiveKept, ListFields DEF ListOK
<1> HIDE DEF c, more, got
<1>4. ASSUME Behind(s) # {}
      PROVE  \E b \in Kept(c) :
               /\ Behind(s) = {b} /\ Max(Behind(s)) = b /\ b \in DOMAIN s
               /\ c[b].kind = "paid" /\ c[b].ends > now /\ c[b].starts < c[b].ends
               /\ \A i \in Kept(c) : i = b \/ c[i].ends <= c[b].starts
  <2>1. PICK b \in Live(s) \ Dropped(s) :
              /\ Behind(s) = {b}
              /\ s[b].kind = "paid"
              /\ \A i \in Kept(s) \ Dropped(s) : i = b \/ s[i].ends <= s[b].starts
    BY <1>4, BehindIs
  <2>2. b \in Int
    BY <1>3
  <2>3. Max(Behind(s)) = b
    BY <2>1, <2>2, MaxSingle
  <2>4. s[b].starts < s[b].ends
    BY <1>3, <2>1 DEF ListOK, Apart
  <2> QED
    BY <1>2, <1>3, <2>1, <2>3, <2>4
<1>5. CASE same # {}
  <2>1. PICK b \in Kept(c) :
               /\ Behind(s) = {b} /\ Max(Behind(s)) = b /\ b \in DOMAIN s
               /\ c[b].kind = "paid" /\ c[b].ends > now /\ c[b].starts < c[b].ends
               /\ \A i \in Kept(c) : i = b \/ c[i].ends <= c[b].starts
    BY <1>4, <1>5
  <2>2. same = Behind(s)
    BY <1>5, <2>1
  <2>3. got.list = Lengthen(c, b, more) /\ got.at = b
    BY <1>1, <1>5, <2>1, <2>2 DEF Lengthen
  <2> QED
    BY <2>1, <2>3 DEF GrantedTo, got, c, more
<1>6. CASE same = {}
  <2>1. /\ starts \in Nat /\ starts >= now
        /\ \A i \in Kept(c) : c[i].ends <= starts
        /\ starts > now => \E b \in Kept(c) : c[b].ends = starts
    <3>1. CASE Behind(s) = {}
      <4>1. \A i \in Kept(c) : c[i].ends <= now
        BY <1>2, <1>3, <3>1, BehindIs
      <4> QED
        BY <3>1, <4>1
    <3>2. CASE Behind(s) # {}
      <4>1. PICK b \in Kept(c) :
               /\ Behind(s) = {b} /\ Max(Behind(s)) = b /\ b \in DOMAIN s
               /\ c[b].kind = "paid" /\ c[b].ends > now /\ c[b].starts < c[b].ends
               /\ \A i \in Kept(c) : i = b \/ c[i].ends <= c[b].starts
        BY <1>4, <3>2
      <4>2. starts = c[b].ends /\ starts \in Nat
        BY <1>2, <1>3, <3>2, <4>1
      <4> HIDE DEF starts
      <4>3. ASSUME NEW i \in Kept(c)
            PROVE  c[i].ends <= starts
        <5>1. i \in DOMAIN s /\ c[i].ends \in Nat /\ c[b].starts \in Nat
          BY <1>2, <1>3, <4>1
        <5>2. i = b \/ c[i].ends <= c[b].starts
          BY <4>1
        <5> QED
          BY <4>1, <4>2, <5>1, <5>2
      <4> QED
        BY <4>1, <4>2, <4>3
    <3> QED
      BY <3>1, <3>2
  <2> HIDE DEF starts
  <2>2. got.list = Put(c, p) /\ got.at = Len(c) + 1
    BY <1>1, <1>2, <1>6 DEF Put
  <2> QED
    BY <2>1, <2>2 DEF GrantedTo, got, c, more
<1> QED
  BY <1>5, <1>6

\* The period a purchase makes.
LEMMA BoughtPeriod ==
  ASSUME NEW plan \in Plans, NEW starts \in Nat, NEW more \in Nat, more > 0
  PROVE  LET p == Period(plan, "paid", starts, starts + more)
         IN /\ p \in PeriodType /\ ~p.off /\ p.kind = "paid"
            /\ p.starts = starts /\ p.ends = starts + more /\ p.starts < p.ends
<1> DEFINE e == starts + more
<1>1. e \in Nat /\ starts <= e /\ starts < e
  OBVIOUS
<1> HIDE DEF e
<1>2. LET p == Period(plan, "paid", starts, e)
      IN p \in PeriodType /\ ~p.off /\ p.kind = "paid" /\ p.starts = starts /\ p.ends = e
  BY <1>1 DEF Period, PeriodType
<1> QED
  BY <1>1, <1>2 DEF e

\* grant_subscription keeps the list in order, and what it returns is paid.
LEMMA GrantedOK ==
  ASSUME PeriodsAssumption, NEW s, ListOK(s), now \in Nat,
         NEW plan \in Plans, NEW n \in Nat \ {0}
  PROVE  LET got == Granted(s, plan, n) IN
         /\ ListOK(got.list) /\ Grown(s, got.list)
         /\ got.at \in DOMAIN got.list /\ got.list[got.at].kind = "paid"
<1> DEFINE c == Closed(s)
           more == n * Day + Carry(s)
           got == Granted(s, plan, n)
<1>1. ListOK(c) /\ Grown(s, c)
  BY ClosedOK
<1>2. more \in Nat /\ more > 0
  BY MoreType
<1>3. GrantedTo(s, plan, n, got)
  BY GrantedIs
<1> HIDE DEF got
<1>4. \/ \E b \in Kept(c) :
           /\ got.list = Lengthen(c, b, more) /\ got.at = b
           /\ c[b].kind = "paid" /\ c[b].ends > now
           /\ \A i \in Kept(c) : i = b \/ c[i].ends <= c[b].starts
      \/ \E starts \in Nat :
           /\ got.list = Put(c, Period(plan, "paid", starts, starts + more))
           /\ got.at = Len(c) + 1
           /\ \A i \in Kept(c) : c[i].ends <= starts
  BY <1>3 DEF GrantedTo
<1> HIDE DEF c, more
<1>5. c \in Seq(PeriodType)
  BY <1>1 DEF ListOK
<1>6. /\ ListOK(got.list) /\ Grown(c, got.list)
      /\ got.at \in DOMAIN got.list /\ got.list[got.at].kind = "paid"
  <2>1. CASE \E b \in Kept(c) :
               /\ got.list = Lengthen(c, b, more) /\ got.at = b
               /\ c[b].kind = "paid"
               /\ \A i \in Kept(c) : i = b \/ c[i].ends <= c[b].starts
    <3>1. PICK b \in Kept(c) :
               /\ got.list = Lengthen(c, b, more) /\ got.at = b
               /\ c[b].kind = "paid"
               /\ \A i \in Kept(c) : i = b \/ c[i].ends <= c[b].starts
      BY <2>1
    <3>2. ListOK(Lengthen(c, b, more)) /\ Grown(c, Lengthen(c, b, more))
      BY <1>1, <1>2, <3>1, LengthenedOK
    <3>3. b \in DOMAIN c
      BY DEF Kept
    <3>4. /\ DOMAIN Lengthen(c, b, more) = DOMAIN c
          /\ \A j \in DOMAIN c : Lengthen(c, b, more)[j].kind = c[j].kind
      BY <1>2, <1>5, <3>3, Lengthened
    <3> QED
      BY <3>1, <3>2, <3>3, <3>4
  <2>2. CASE \E starts \in Nat :
               /\ got.list = Put(c, Period(plan, "paid", starts, starts + more))
               /\ got.at = Len(c) + 1
               /\ \A i \in Kept(c) : c[i].ends <= starts
    <3>1. PICK starts \in Nat :
               /\ got.list = Put(c, Period(plan, "paid", starts, starts + more))
               /\ got.at = Len(c) + 1
               /\ \A i \in Kept(c) : c[i].ends <= starts
      BY <2>2
    <3> DEFINE p == Period(plan, "paid", starts, starts + more)
    <3>2. /\ p \in PeriodType /\ ~p.off /\ p.kind = "paid"
          /\ p.starts = starts /\ p.ends = starts + more /\ p.starts < p.ends
      <4>1. starts \in Nat /\ more \in Nat /\ more > 0 /\ plan \in Plans
        BY <1>2
      <4> QED
        BY <4>1, BoughtPeriod, Zenon
    <3>3. got.list = Put(c, p) /\ got.at = Len(c) + 1
      BY <3>1
    <3> HIDE DEF p
    <3>4. p.kind # "trial" /\ \A i \in Kept(c) : c[i].ends <= p.starts
      BY <3>1, <3>2
    <3>5. ListOK(Put(c, p)) /\ Grown(c, Put(c, p))
      BY <1>1, <3>2, <3>4, AppendedOK
    <3>6. DOMAIN Put(c, p) = DOMAIN c \union {Len(c) + 1} /\ Put(c, p)[Len(c) + 1] = p
      BY <1>5, <3>2, Appended
    <3> QED
      BY <3>2, <3>3, <3>5, <3>6
  <2> QED
    BY <1>4, <2>1, <2>2
<1>7. Grown(s, got.list)
  <2>1. s \in Seq(PeriodType) /\ got.list \in Seq(PeriodType)
    BY <1>6 DEF ListOK
  <2> QED
    BY <1>1, <1>5, <1>6, <2>1, GrownTwice
<1> QED
  BY <1>6, <1>7 DEF got
--------------------------------------------------------------------------------
(* Gifts                                                                   *)

\* The end of the last period, or now: where a gift goes.
LastEnd(s) == Max({s[i].ends : i \in Live(s)} \union {now})

LEMMA LastEndIs ==
  ASSUME NEW s, ListOK(s), now \in Nat
  PROVE  /\ LastEnd(s) \in Nat /\ LastEnd(s) >= now
         /\ \A i \in Kept(s) : s[i].ends <= LastEnd(s)
         /\ LastEnd(s) = now => Live(s) = {}
         /\ LastEnd(s) # now => \E i \in Live(s) : s[i].ends = LastEnd(s)
<1> DEFINE E == {s[i].ends : i \in Live(s)} \union {now}
<1>1. /\ s \in Seq(PeriodType) /\ Live(s) \subseteq DOMAIN s /\ IsFiniteSet(DOMAIN s)
      /\ \A i \in DOMAIN s : s[i].ends \in Nat
      /\ \A i \in Kept(s) : i \in DOMAIN s
      /\ \A i \in Kept(s) : i \in Live(s) <=> s[i].ends > now
      /\ \A i \in Live(s) : s[i].ends > now
  BY LiveKept, ListFields DEF ListOK, Live
<1>2. IsFiniteSet(E)
  <2>1. IsFiniteSet(Live(s))
    BY <1>1, FS_Subset
  <2>2. IsFiniteSet({s[i].ends : i \in Live(s)})
    <3> DEFINE f == [i \in Live(s) |-> s[i].ends]
    <3>1. IsFiniteSet({f[i] : i \in Live(s)})
      <4> HIDE DEF f
      <4> QED
        BY <2>1, ImageFinite
    <3> QED
      BY <3>1
  <2> QED
    BY <2>2, FS_AddElement
<1>3. E \subseteq Int /\ E # {}
  BY <1>1
<1>4. Max(E) \in E /\ \A j \in E : j <= Max(E)
  <2> HIDE DEF E
  <2> QED
    BY <1>2, <1>3, MaxIs
<1> DEFINE m == Max(E)
<1>5. m \in E /\ now <= m /\ \A i \in Live(s) : s[i].ends <= m
  BY <1>4
<1> HIDE DEF m
<1>6. m \in Nat
  BY <1>1, <1>5
<1>7. \A i \in Kept(s) : s[i].ends <= m
  BY <1>1, <1>5, <1>6
<1>8. m = now => Live(s) = {}
  BY <1>1, <1>5
<1>9. m # now => \E i \in Live(s) : s[i].ends = m
  BY <1>5
<1> QED
  BY <1>5, <1>6, <1>7, <1>8, <1>9 DEF m, LastEnd

\* add_bonus_days lengthens the last period or puts one behind it.
LEMMA GiftedIs ==
  ASSUME PeriodsAssumption, NEW s, ListOK(s), now \in Nat, NEW n \in Nat \ {0}
  PROVE  \/ \E b \in Live(s) :
              /\ Gifted(s, n) = Lengthen(s, b, n * Day)
              /\ s[b].ends = LastEnd(s) /\ s[b].kind # "trial"
              /\ \A i \in Kept(s) : i = b \/ s[i].ends <= s[b].starts
         \/ /\ Gifted(s, n) = Put(s, Period("gift", "bonus", LastEnd(s), LastEnd(s) + n * Day))
            /\ \A i \in Live(s) : s[i].ends = LastEnd(s) => s[i].kind = "trial"
<1> DEFINE last == {i \in Live(s) : s[i].ends = LastEnd(s) /\ s[i].kind # "trial"}
<1>1. Gifted(s, n) = IF last # {} THEN [s EXCEPT ![Max(last)].ends = @ + n * Day]
                     ELSE Append(s, Period("gift", "bonus", LastEnd(s), LastEnd(s) + n * Day))
  BY DEF Gifted, LastEnd
<1>2. CASE last = {}
  BY <1>1, <1>2 DEF Put
<1>3. CASE last # {}
  <2>1. PICK b \in last : TRUE
    BY <1>3
  <2>2. /\ s \in Seq(PeriodType) /\ Live(s) \subseteq Kept(s) /\ Kept(s) \subseteq DOMAIN s
        /\ DOMAIN s = 1 .. Len(s) /\ Len(s) \in Nat
        /\ \A i \in DOMAIN s : s[i].starts \in Nat /\ s[i].ends \in Nat
    BY LiveKept, ListFields DEF ListOK
  <2>3. \A i \in Kept(s) : i = b \/ s[i].ends <= s[b].starts
    <3> TAKE i \in Kept(s)
    <3>1. s[i].ends <= s[b].ends
      BY <2>1, LastEndIs
    <3>2. s[i].starts < s[i].ends
      BY DEF ListOK, Apart
    <3>3. i = b \/ s[i].ends <= s[b].starts \/ s[b].ends <= s[i].starts
      BY <2>1, <2>2 DEF ListOK, Apart
    <3> QED
      BY <2>1, <2>2, <3>1, <3>2, <3>3
  <2>4. last = {b}
    <3> SUFFICES ASSUME NEW i \in last, i # b PROVE FALSE
      BY <2>1
    <3>1. s[i].ends = s[b].ends /\ s[i].ends <= s[b].starts /\ s[b].starts < s[b].ends
      BY <2>1, <2>2, <2>3 DEF ListOK, Apart
    <3> QED
      BY <2>1, <2>2, <3>1
  <2>5. Max(last) = b
    BY <2>1, <2>2, <2>4, MaxSingle
  <2> QED
    BY <1>1, <1>3, <2>1, <2>3, <2>5 DEF Lengthen
<1> QED
  BY <1>2, <1>3

LEMMA DaysType ==
  ASSUME PeriodsAssumption
  PROVE  /\ \A n \in Nat : n * Day \in Nat
         /\ \A n \in Nat \ {0} : n * Day \in Nat \ {0}
<1>1. \A d \in Nat \ {0} : /\ \A n \in Nat : n * d \in Nat
                           /\ \A n \in Nat \ {0} : n * d \in Nat \ {0}
  OBVIOUS
<1>2. Day \in Nat \ {0}
  BY DEF PeriodsAssumption
<1> QED
  BY <1>1, <1>2

LEMMA GiftType ==
  ASSUME PeriodsAssumption, NEW s, ListOK(s), now \in Nat, NEW n \in Nat \ {0}
  PROVE  LET p == Period("gift", "bonus", LastEnd(s), LastEnd(s) + n * Day)
         IN /\ p \in PeriodType /\ ~p.off /\ p.kind = "bonus"
            /\ p.starts = LastEnd(s) /\ p.ends = LastEnd(s) + n * Day /\ p.starts < p.ends
<1>1. LastEnd(s) \in Nat /\ n * Day \in Nat \ {0}
  BY LastEndIs, DaysType
<1>2. LastEnd(s) + n * Day \in Nat /\ LastEnd(s) < LastEnd(s) + n * Day
  BY <1>1
<1> DEFINE b == LastEnd(s)
           e == LastEnd(s) + n * Day
<1>3. b \in Nat /\ e \in Nat /\ b <= e /\ b < e
  BY <1>1, <1>2
<1> HIDE DEF b, e
<1>4. LET p == Period("gift", "bonus", b, e)
      IN p \in PeriodType /\ ~p.off /\ p.kind = "bonus" /\ p.starts = b /\ p.ends = e
  BY <1>3 DEF Period, PeriodType
<1>5. LET p == Period("gift", "bonus", b, e)
      IN p \in PeriodType /\ ~p.off /\ p.kind = "bonus" /\ p.starts = b /\ p.ends = e /\ p.starts < p.ends
  BY <1>3, <1>4
<1> QED
  BY <1>5 DEF b, e

LEMMA GiftedOK ==
  ASSUME PeriodsAssumption, NEW s, ListOK(s), now \in Nat, NEW n \in Nat \ {0}
  PROVE  ListOK(Gifted(s, n)) /\ Grown(s, Gifted(s, n))
<1>1. n * Day \in Nat
  BY DaysType
<1>2. ASSUME NEW b \in Live(s), Gifted(s, n) = Lengthen(s, b, n * Day),
             \A i \in Kept(s) : i = b \/ s[i].ends <= s[b].starts
      PROVE  ListOK(Gifted(s, n)) /\ Grown(s, Gifted(s, n))
  BY <1>1, <1>2, LiveKept, LengthenedOK
<1> DEFINE p == Period("gift", "bonus", LastEnd(s), LastEnd(s) + n * Day)
<1>3. ASSUME Gifted(s, n) = Put(s, p)
      PROVE  ListOK(Gifted(s, n)) /\ Grown(s, Gifted(s, n))
  <2>1. /\ p \in PeriodType /\ ~p.off /\ p.kind # "trial" /\ p.starts = LastEnd(s)
        /\ p.starts < p.ends
    BY GiftType
  <2>2. \A i \in Kept(s) : s[i].ends <= LastEnd(s)
    BY LastEndIs
  <2> HIDE DEF p
  <2> QED
    BY <1>3, <2>1, <2>2, AppendedOK
<1> QED
  BY <1>2, <1>3, GiftedIs

--------------------------------------------------------------------------------
(* Cuts and pauses                                                         *)

\* A list whose periods end earlier, or are cancelled, is still in order.
LEMMA ShorterOK ==
  ASSUME NEW s, ListOK(s), NEW r \in Seq(PeriodType), DOMAIN r = DOMAIN s,
         \A i \in DOMAIN s : /\ r[i].kind = s[i].kind
                             /\ ~r[i].off => /\ ~s[i].off /\ r[i].starts = s[i].starts
                                             /\ r[i].starts < r[i].ends /\ r[i].ends <= s[i].ends
  PROVE  ListOK(r) /\ Grown(s, r)
<1>1. /\ s \in Seq(PeriodType) /\ Kept(r) \subseteq Kept(s) /\ Kept(s) \subseteq DOMAIN s
      /\ \A i \in Kept(r) : /\ r[i].starts = s[i].starts /\ r[i].starts < r[i].ends
                            /\ r[i].ends <= s[i].ends /\ r[i].kind = s[i].kind
  BY DEF ListOK, Kept
<1>2. \A i \in DOMAIN s : /\ s[i].starts \in Nat /\ s[i].ends \in Nat
                          /\ r[i].starts \in Nat /\ r[i].ends \in Nat
  BY <1>1, ListFields
<1>3. ASSUME NEW i \in Kept(r), NEW j \in Kept(r), i # j
      PROVE  r[i].ends <= r[j].starts \/ r[j].ends <= r[i].starts
  <2>1. s[i].ends <= s[j].starts \/ s[j].ends <= s[i].starts
    BY <1>1, <1>3 DEF ListOK, Apart
  <2> QED
    BY <1>1, <1>2, <2>1
<1>4. Apart(r)
  BY <1>1, <1>3 DEF Apart
<1>5. TrialsFirst(r)
  BY <1>1 DEF ListOK, TrialsFirst
<1>6. Len(r) = Len(s)
  BY <1>1, ListFields
<1>7. Len(s) <= Len(r)
  BY <1>1, <1>6, ListFields
<1> QED
  BY <1>4, <1>5, <1>7 DEF ListOK, Grown

LEMMA CutType ==
  ASSUME PeriodsAssumption, NEW s \in Seq(PeriodType), now \in Nat, NEW n \in Nat, NEW i \in DOMAIN s
  PROVE  /\ Cut(s, n, i) \in Nat /\ Cut(s, n, i) <= Rest(s[i], now)
         /\ Rest(s[i], now) \in Nat /\ Rest(s[i], now) <= s[i].ends - s[i].starts
         /\ i \notin Live(s) => Cut(s, n, i) = 0
<1>1. Rest(s[i], now) \in Nat /\ Rest(s[i], now) <= s[i].ends - s[i].starts
  BY ListFields, RestType
<1> DEFINE later == {j \in Live(s) : s[j].ends > s[i].ends}
           left == Above(0, n * Day - Total(s, later, now))
<1>2. left \in Nat
  <2>1. Total(s, later, now) \in Nat
    BY TotalType DEF Live
  <2>2. n * Day \in Nat
    BY DaysType
  <2> QED
    BY <2>1, <2>2, SMTT(30) DEF Above
<1>3. Cut(s, n, i) = IF i \in Live(s) THEN Below(Rest(s[i], now), left) ELSE 0
  BY DEF Cut
<1> HIDE DEF left
<1> QED
  BY <1>1, <1>2, <1>3 DEF Below

\* What take_bonus_days makes of a period.
LEMMA TakenIs ==
  ASSUME PeriodsAssumption, NEW s \in Seq(PeriodType), now \in Nat, NEW n \in Nat
  PROVE  /\ Taken(s, n) \in Seq(PeriodType) /\ DOMAIN Taken(s, n) = DOMAIN s
         /\ \A i \in DOMAIN s :
              /\ Taken(s, n)[i].kind = s[i].kind /\ Taken(s, n)[i].starts = s[i].starts
              /\ Taken(s, n)[i].ends = s[i].ends - Cut(s, n, i)
              /\ Taken(s, n)[i].off
                   = (s[i].off \/ (Cut(s, n, i) > 0 /\ Cut(s, n, i) = Rest(s[i], now)))
<1> DEFINE r == Taken(s, n)
           e(i) == s[i].ends - Cut(s, n, i)
           off(i) == s[i].off \/ (Cut(s, n, i) > 0 /\ Cut(s, n, i) = Rest(s[i], now))
<1>1. r = [i \in DOMAIN s |-> [s[i] EXCEPT !.ends = e(i), !.off = off(i)]]
  BY DEF Taken
<1>2. ASSUME NEW i \in DOMAIN s
      PROVE  /\ r[i] \in PeriodType /\ r[i].kind = s[i].kind /\ r[i].starts = s[i].starts
             /\ r[i].ends = e(i) /\ r[i].off = off(i)
  <2>1. /\ s[i] \in PeriodType /\ s[i].starts \in Nat /\ s[i].ends \in Nat
        /\ s[i].starts <= s[i].ends /\ s[i].off \in BOOLEAN
    BY ListFields
  <2>2. /\ Cut(s, n, i) \in Nat /\ Cut(s, n, i) <= Rest(s[i], now)
        /\ Rest(s[i], now) \in Nat /\ Rest(s[i], now) <= s[i].ends - s[i].starts
    BY CutType
  <2>3. e(i) \in Nat /\ s[i].starts <= e(i) /\ off(i) \in BOOLEAN
    <3> DEFINE from == s[i].starts
               to == s[i].ends
               cut == Cut(s, n, i)
               rest == Rest(s[i], now)
               was == s[i].off
    <3>1. from \in Nat /\ to \in Nat /\ from <= to /\ was \in BOOLEAN
      BY <2>1
    <3>2. cut \in Nat /\ rest \in Nat /\ cut <= rest /\ rest <= to - from
      BY <2>2
    <3> HIDE DEF from, to, cut, rest, was
    <3>3. to - cut \in Nat /\ from <= to - cut
      BY <3>1, <3>2
    <3>4. (was \/ (cut > 0 /\ cut = rest)) \in BOOLEAN
      OBVIOUS
    <3> QED
      BY <3>3, <3>4 DEF from, to, cut, rest, was
  <2>4. r[i] = [s[i] EXCEPT !.ends = e(i), !.off = off(i)]
    BY <1>1
  <2> DEFINE p == s[i]
             q == r[i]
             b == e(i)
             o == off(i)
  <2>5. p \in PeriodType /\ b \in Nat /\ p.starts <= b /\ o \in BOOLEAN
    BY <2>1, <2>3
  <2>6. q = [p EXCEPT !.ends = b, !.off = o]
    BY <2>4
  <2> HIDE DEF p, q, b, o
  <2>7. q \in PeriodType /\ q.kind = p.kind /\ q.starts = p.starts /\ q.ends = b /\ q.off = o
    BY <2>5, <2>6 DEF PeriodType
  <2> QED
    BY <2>7 DEF p, q, b, o
<1> HIDE DEF e, off
<1>3. r \in [DOMAIN s -> PeriodType]
  BY <1>1, <1>2
<1>4. r \in Seq(PeriodType) /\ DOMAIN r = DOMAIN s
  BY <1>3, ListMap
<1> QED
  BY <1>2, <1>4 DEF e, off

LEMMA TakenOK ==
  ASSUME PeriodsAssumption, NEW s, ListOK(s), now \in Nat, NEW n \in Nat
  PROVE  ListOK(Taken(s, n)) /\ Grown(s, Taken(s, n))
<1>1. s \in Seq(PeriodType)
  BY DEF ListOK
<1> DEFINE r == Taken(s, n)
<1>2. /\ r \in Seq(PeriodType) /\ DOMAIN r = DOMAIN s
      /\ \A i \in DOMAIN s :
           /\ r[i].kind = s[i].kind /\ r[i].starts = s[i].starts
           /\ r[i].ends = s[i].ends - Cut(s, n, i)
           /\ r[i].off = (s[i].off \/ (Cut(s, n, i) > 0 /\ Cut(s, n, i) = Rest(s[i], now)))
  BY <1>1, TakenIs
<1> HIDE DEF r
<1>3. ASSUME NEW i \in DOMAIN s
      PROVE  /\ r[i].kind = s[i].kind
             /\ ~r[i].off => /\ ~s[i].off /\ r[i].starts = s[i].starts
                             /\ r[i].starts < r[i].ends /\ r[i].ends <= s[i].ends
  <2>1. /\ r[i].kind = s[i].kind /\ r[i].starts = s[i].starts
        /\ r[i].ends = s[i].ends - Cut(s, n, i)
        /\ r[i].off = (s[i].off \/ (Cut(s, n, i) > 0 /\ Cut(s, n, i) = Rest(s[i], now)))
    BY <1>2
  <2>2. /\ Cut(s, n, i) \in Nat /\ Cut(s, n, i) <= Rest(s[i], now)
        /\ Rest(s[i], now) \in Nat /\ Rest(s[i], now) <= s[i].ends - s[i].starts
    BY <1>1, CutType
  <2>3. s[i].starts \in Nat /\ s[i].ends \in Nat /\ s[i].off \in BOOLEAN
    BY <1>1, ListFields
  <2>4. ~s[i].off => s[i].starts < s[i].ends
    BY DEF ListOK, Apart, Kept
  <2>5. ~r[i].off => ~s[i].off /\ (~(Cut(s, n, i) > 0) \/ Cut(s, n, i) # Rest(s[i], now))
    BY <2>1, Zenon
  <2>6. ~r[i].off => r[i].starts < r[i].ends /\ r[i].ends <= s[i].ends
    BY <2>1, <2>2, <2>3, <2>4, <2>5
  <2> QED
    BY <2>1, <2>5, <2>6
<1>4. ListOK(r) /\ Grown(s, r)
  BY <1>2, <1>3, ShorterOK
<1> QED
  BY <1>4 DEF r

\* r is s with n days less in period b.
LessIn(s, r, b, n) ==
  /\ r \in Seq(PeriodType) /\ DOMAIN r = DOMAIN s
  /\ \A i \in DOMAIN s :
       /\ r[i].kind = s[i].kind /\ r[i].starts = s[i].starts
       /\ r[i].ends = IF i = b THEN Above(s[i].ends - n * Day, s[i].starts) ELSE s[i].ends
       /\ r[i].off = (s[i].off \/ (i = b /\ s[i].ends - n * Day <= s[i].starts))

LEMMA ShrunkIs ==
  ASSUME PeriodsAssumption, NEW s \in Seq(PeriodType), NEW b \in DOMAIN s, NEW n \in Nat
  PROVE  LessIn(s, Shrunk(s, b, n), b, n)
<1> DEFINE r == Shrunk(s, b, n)
           e == Above(s[b].ends - n * Day, s[b].starts)
           off == s[b].off \/ s[b].ends - n * Day <= s[b].starts
<1>1. /\ DOMAIN r = DOMAIN s
      /\ \A i \in DOMAIN s : i # b => r[i] = s[i]
      /\ r[b] = [s[b] EXCEPT !.ends = e, !.off = off]
      /\ r = [i \in DOMAIN s |-> r[i]]
  BY DEF Shrunk
<1>2. /\ s[b] \in PeriodType /\ s[b].starts \in Nat /\ s[b].ends \in Nat
      /\ s[b].starts <= s[b].ends /\ s[b].off \in BOOLEAN
  BY ListFields
<1>3. n * Day \in Nat
  BY DaysType
<1>4. e \in Nat /\ s[b].starts <= e /\ off \in BOOLEAN
  BY <1>2, <1>3, SMTT(30) DEF Above
<1> HIDE DEF e, off, r
<1>5. /\ r[b] \in PeriodType /\ r[b].kind = s[b].kind /\ r[b].starts = s[b].starts
      /\ r[b].ends = e /\ r[b].off = off
  <2> DEFINE p == s[b]
             q == r[b]
  <2>1. p \in PeriodType /\ p.starts <= e /\ q = [p EXCEPT !.ends = e, !.off = off]
    BY <1>1, <1>2, <1>4
  <2> HIDE DEF p, q
  <2>2. q \in PeriodType /\ q.kind = p.kind /\ q.starts = p.starts /\ q.ends = e /\ q.off = off
    BY <1>4, <2>1 DEF PeriodType
  <2> QED
    BY <2>2 DEF p, q
<1>6. \A i \in DOMAIN s : r[i] \in PeriodType
  BY <1>1, <1>5, ListFields
<1>7. r \in [DOMAIN s -> PeriodType]
  BY <1>1, <1>6
<1>8. r \in Seq(PeriodType)
  BY <1>7, ListMap
<1>9. \A i \in DOMAIN s :
        /\ r[i].kind = s[i].kind /\ r[i].starts = s[i].starts
        /\ r[i].ends = IF i = b THEN Above(s[i].ends - n * Day, s[i].starts) ELSE s[i].ends
        /\ r[i].off = (s[i].off \/ (i = b /\ s[i].ends - n * Day <= s[i].starts))
  <2> TAKE i \in DOMAIN s
  <2>1. CASE i # b
    BY <1>1, <2>1, ListFields
  <2>2. CASE i = b
    BY <1>5, <2>2 DEF e, off
  <2> QED
    BY <2>1, <2>2
<1> QED
  BY <1>1, <1>8, <1>9 DEF r, LessIn

LEMMA ShrunkOK ==
  ASSUME PeriodsAssumption, NEW s, ListOK(s), NEW b \in DOMAIN s, NEW n \in Nat
  PROVE  ListOK(Shrunk(s, b, n)) /\ Grown(s, Shrunk(s, b, n))
<1>1. s \in Seq(PeriodType)
  BY DEF ListOK
<1> DEFINE r == Shrunk(s, b, n)
<1>2. /\ r \in Seq(PeriodType) /\ DOMAIN r = DOMAIN s
      /\ \A i \in DOMAIN s :
           /\ r[i].kind = s[i].kind /\ r[i].starts = s[i].starts
           /\ r[i].ends = IF i = b THEN Above(s[i].ends - n * Day, s[i].starts) ELSE s[i].ends
           /\ r[i].off = (s[i].off \/ (i = b /\ s[i].ends - n * Day <= s[i].starts))
  <2>1. LessIn(s, r, b, n)
    BY <1>1, ShrunkIs
  <2> QED
    BY <2>1 DEF LessIn
<1> HIDE DEF r
<1>3. ASSUME NEW i \in DOMAIN s
      PROVE  /\ r[i].kind = s[i].kind
             /\ ~r[i].off => /\ ~s[i].off /\ r[i].starts = s[i].starts
                             /\ r[i].starts < r[i].ends /\ r[i].ends <= s[i].ends
  <2>1. s[i].starts \in Nat /\ s[i].ends \in Nat /\ s[i].off \in BOOLEAN
    BY <1>1, ListFields
  <2>2. ~s[i].off => s[i].starts < s[i].ends
    BY DEF ListOK, Apart, Kept
  <2>3. n * Day \in Nat
    BY DaysType
  <2>4. CASE i # b
    BY <1>2, <2>1, <2>2, <2>4
  <2>5. CASE i = b
    <3>1. /\ r[i].kind = s[i].kind /\ r[i].starts = s[i].starts
          /\ r[i].ends = Above(s[i].ends - n * Day, s[i].starts)
          /\ r[i].off = (s[i].off \/ (i = b /\ s[i].ends - n * Day <= s[i].starts))
      BY <1>2, <2>5
    <3>2. ~r[i].off => ~s[i].off /\ ~(s[i].ends - n * Day <= s[i].starts)
      BY <2>5, <3>1, Zenon
    <3>3. ~r[i].off => r[i].ends = s[i].ends - n * Day
      BY <2>1, <2>3, <3>1, <3>2 DEF Above
    <3> QED
      BY <2>1, <2>3, <3>1, <3>2, <3>3
  <2> QED
    BY <2>4, <2>5
<1>4. ListOK(r) /\ Grown(s, r)
  BY <1>2, <1>3, ShorterOK
<1> QED
  BY <1>4 DEF r

\* The list after a pause of n ticks that began at `at'.
After(s, at, n) == [i \in DOMAIN s |-> Shifted(s[i], at, n)]

LEMMA AfterIs ==
  ASSUME NEW s \in Seq(PeriodType), NEW at \in Nat, NEW n \in Nat
  PROVE  /\ After(s, at, n) \in Seq(PeriodType) /\ DOMAIN After(s, at, n) = DOMAIN s
         /\ \A i \in DOMAIN s :
              /\ After(s, at, n)[i].kind = s[i].kind /\ After(s, at, n)[i].off = s[i].off
              /\ After(s, at, n)[i].ends
                   = IF s[i].off \/ s[i].ends <= at THEN s[i].ends ELSE s[i].ends + n
              /\ After(s, at, n)[i].starts
                   = IF s[i].off \/ s[i].ends <= at \/ s[i].starts <= at THEN s[i].starts
                     ELSE s[i].starts + n
<1> DEFINE r == After(s, at, n)
           moved(i) == ~(s[i].off \/ s[i].ends <= at)
           b(i) == IF s[i].starts > at THEN s[i].starts + n ELSE s[i].starts
           e(i) == s[i].ends + n
<1>1. ASSUME NEW i \in DOMAIN s
      PROVE  /\ r[i] \in PeriodType /\ r[i].kind = s[i].kind /\ r[i].off = s[i].off
             /\ r[i].ends = IF moved(i) THEN e(i) ELSE s[i].ends
             /\ r[i].starts = IF moved(i) THEN b(i) ELSE s[i].starts
  <2>1. r[i] = IF moved(i) THEN [s[i] EXCEPT !.starts = b(i), !.ends = e(i)] ELSE s[i]
    BY DEF After, Shifted
  <2>2. s[i] \in PeriodType /\ s[i].starts \in Nat /\ s[i].ends \in Nat /\ s[i].starts <= s[i].ends
    BY ListFields
  <2>3. b(i) \in Nat /\ e(i) \in Nat /\ b(i) <= e(i)
    BY <2>2
  <2> HIDE DEF b, e, moved, r
  <2> DEFINE p == s[i]
             q == r[i]
             x == b(i)
             y == e(i)
             m == moved(i)
  <2>4. /\ p \in PeriodType /\ x \in Nat /\ y \in Nat /\ x <= y
        /\ q = IF m THEN [p EXCEPT !.starts = x, !.ends = y] ELSE p
    BY <2>1, <2>2, <2>3
  <2> HIDE DEF p, q, x, y, m
  <2>5. CASE m
    <3>1. q \in PeriodType /\ q.kind = p.kind /\ q.off = p.off /\ q.ends = y /\ q.starts = x
      BY <2>4, <2>5 DEF PeriodType
    <3> QED
      BY <2>5, <3>1 DEF p, q, x, y, m
  <2>6. CASE ~m
    BY <2>4, <2>6 DEF p, q, x, y, m
  <2> QED
    BY <2>5, <2>6
<1>2. r = [i \in DOMAIN s |-> r[i]]
  BY DEF After
<1> HIDE DEF b, e, moved, r
<1>3. r \in [DOMAIN s -> PeriodType]
  BY <1>1, <1>2
<1>4. r \in Seq(PeriodType) /\ DOMAIN r = DOMAIN s
  BY <1>3, ListMap
<1>5. \A i \in DOMAIN s : s[i].starts \in Nat /\ s[i].ends \in Nat
  BY ListFields
<1> QED
  BY <1>1, <1>4, <1>5 DEF b, e, moved, r

LEMMA AfterOK ==
  ASSUME NEW s, ListOK(s), NEW at \in Nat, NEW n \in Nat
  PROVE  ListOK(After(s, at, n)) /\ Grown(s, After(s, at, n))
<1> DEFINE r == After(s, at, n)
<1>1. /\ s \in Seq(PeriodType) /\ r \in Seq(PeriodType) /\ DOMAIN r = DOMAIN s
      /\ \A i \in DOMAIN s :
           /\ r[i].kind = s[i].kind /\ r[i].off = s[i].off
           /\ r[i].ends = IF s[i].off \/ s[i].ends <= at THEN s[i].ends ELSE s[i].ends + n
           /\ r[i].starts = IF s[i].off \/ s[i].ends <= at \/ s[i].starts <= at THEN s[i].starts
                            ELSE s[i].starts + n
  BY AfterIs DEF ListOK
<1> HIDE DEF r
<1>2. Kept(r) = Kept(s) /\ Kept(s) \subseteq DOMAIN s /\ \A i \in Kept(s) : ~s[i].off
  BY <1>1 DEF Kept
<1>3. \A i \in DOMAIN s : s[i].starts \in Nat /\ s[i].ends \in Nat
  BY <1>1, ListFields
<1>4. \A i \in Kept(r) : r[i].starts < r[i].ends
  <2> TAKE i \in Kept(r)
  <2>1. i \in DOMAIN s /\ s[i].starts < s[i].ends /\ ~s[i].off
    BY <1>2 DEF ListOK, Apart
  <2> QED
    BY <1>1, <1>3, <2>1
<1>5. ASSUME NEW i \in Kept(r), NEW j \in Kept(r), i # j
      PROVE  r[i].ends <= r[j].starts \/ r[j].ends <= r[i].starts
  <2>1. /\ s[i].ends <= s[j].starts \/ s[j].ends <= s[i].starts
        /\ s[i].starts < s[i].ends /\ s[j].starts < s[j].ends
        /\ i \in DOMAIN s /\ ~s[i].off /\ j \in DOMAIN s /\ ~s[j].off
    BY <1>2, <1>5 DEF ListOK, Apart
  <2>2. /\ r[i].ends = IF s[i].ends <= at THEN s[i].ends ELSE s[i].ends + n
        /\ r[i].starts = IF s[i].ends <= at \/ s[i].starts <= at THEN s[i].starts
                         ELSE s[i].starts + n
        /\ r[j].ends = IF s[j].ends <= at THEN s[j].ends ELSE s[j].ends + n
        /\ r[j].starts = IF s[j].ends <= at \/ s[j].starts <= at THEN s[j].starts
                         ELSE s[j].starts + n
    BY <1>1, <2>1
  <2>3. /\ s[i].starts \in Nat /\ s[i].ends \in Nat /\ s[j].starts \in Nat /\ s[j].ends \in Nat
    BY <1>3, <2>1
  <2> QED
    BY <2>1, <2>2, <2>3
<1>6. Apart(r)
  BY <1>4, <1>5 DEF Apart
<1>7. TrialsFirst(r)
  <2> SUFFICES ASSUME NEW i \in Kept(r), r[i].kind = "trial" PROVE r[i].starts = 0
    BY DEF TrialsFirst
  <2>1. i \in DOMAIN s /\ s[i].starts = 0
    BY <1>1, <1>2 DEF ListOK, TrialsFirst
  <2> QED
    BY <1>1, <2>1
<1>8. Len(s) <= Len(r)
  BY <1>1, ListFields
<1>9. Grown(s, r)
  BY <1>1, <1>8 DEF Grown
<1> QED
  BY <1>1, <1>6, <1>7, <1>9 DEF ListOK, r

--------------------------------------------------------------------------------
(* The way back of transferred days                                        *)

TransferType == [from: Users, to: Users, days: Nat \ {0}, reverted: Nat]

LEMMA DivType ==
  ASSUME PeriodsAssumption, NEW n \in Nat
  PROVE  n \div Day \in Nat /\ (n \div Day) * Day <= n /\ n < (n \div Day) * Day + Day
<1>1. \A d \in Nat \ {0} : n \div d \in Nat /\ (n \div d) * d <= n /\ n < (n \div d) * d + d
  OBVIOUS
<1> QED
  BY <1>1 DEF PeriodsAssumption

LEMMA TakenDaysType ==
  ASSUME PeriodsAssumption, NEW s \in Seq(PeriodType), now \in Nat, NEW n \in Nat
  PROVE  TakenDays(s, n) \in Nat
<1>1. Total(s, Live(s), now) \in Nat
  BY TotalType DEF Live
<1>2. n * Day \in Nat
  BY DaysType
<1>3. Below(n * Day, Total(s, Live(s), now)) \in Nat
  BY <1>1, <1>2 DEF Below
<1> QED
  BY <1>3, DivType DEF TakenDays

\* claw_back, transfer by transfer.
ClawStart(all) == [periods |-> all, transfers |-> transfers, got |-> 0, hit |-> {}]

LEMMA ClawSteps ==
  ASSUME Len(transfers) \in Nat, NEW all, NEW u, NEW n
  PROVE  \E claw :
           /\ claw[0] = ClawStart(all)
           /\ \A k \in 1 .. Len(transfers) :
                claw[k] = ClawOne(u, n, claw[k - 1], Len(transfers) + 1 - k)
           /\ claw[Len(transfers)] = ClawBack(all, u, n)
<1> DEFINE N == Len(transfers)
           Goes(g, m) == /\ g[0] = ClawStart(all)
                         /\ \A k \in 1 .. m : g[k] = ClawOne(u, n, g[k - 1], N + 1 - k)
           F(g) == [k \in 0 .. N |-> IF k = 0 THEN ClawStart(all)
                                     ELSE ClawOne(u, n, g[k - 1], N + 1 - k)]
           P == {m \in 0 .. N : \E g : Goes(g, m)}
<1>1. 0 \in P
  <2>1. Goes([k \in {0} |-> ClawStart(all)], 0)
    OBVIOUS
  <2> HIDE DEF Goes
  <2> QED
    BY <2>1
<1>2. ASSUME NEW m \in 0 .. N, m \in P, m < N
      PROVE  m + 1 \in P
  <2>1. PICK g : Goes(g, m)
    BY <1>2
  <2> DEFINE h == [k \in 0 .. N |-> IF k <= m THEN g[k] ELSE ClawOne(u, n, g[m], N + 1 - k)]
  <2>2. h[0] = ClawStart(all)
    BY <2>1
  <2>3. \A k \in 1 .. (m + 1) : h[k] = ClawOne(u, n, h[k - 1], N + 1 - k)
    <3> TAKE k \in 1 .. (m + 1)
    <3>1. h[k - 1] = g[k - 1]
      BY <1>2
    <3>2. CASE k <= m
      <4>1. h[k] = g[k]
        BY <1>2, <3>2
      <4>2. k \in 1 .. m
        BY <1>2, <3>2
      <4>3. g[k] = ClawOne(u, n, g[k - 1], N + 1 - k)
        BY <2>1, <4>2
      <4> HIDE DEF h
      <4> QED
        BY <3>1, <4>1, <4>3, Zenon
    <3>3. CASE k = m + 1
      <4>1. k \in 0 .. N /\ ~(k <= m) /\ k - 1 = m
        BY <1>2, <3>3
      <4>2. h[k] = ClawOne(u, n, g[m], N + 1 - k)
        BY <4>1
      <4> HIDE DEF h
      <4> QED
        BY <3>1, <4>1, <4>2
    <3> QED
      BY <3>2, <3>3
  <2> HIDE DEF h
  <2>4. Goes(h, m + 1)
    BY <2>2, <2>3
  <2> HIDE DEF Goes
  <2> QED
    BY <1>2, <2>4
<1>3. PICK g : Goes(g, N)
  <2> HIDE DEF P, N
  <2>1. N \in Nat /\ \A m \in 0 .. N : m \in P /\ m < N => m + 1 \in P
    BY <1>2 DEF N
  <2>2. \A m \in 0 .. N : m \in P
    BY <1>1, <2>1, UpTo
  <2>3. N \in P
    BY <2>1, <2>2
  <2> USE DEF P
  <2> HIDE DEF Goes
  <2> QED
    BY <2>3
<1>4. \E f : f = F(f)
  <2> DEFINE f == [k \in 0 .. N |-> g[k]]
  <2>1. f = F(f)
    BY <1>3
  <2> QED
    BY <2>1
<1>5. ClawBack(all, u, n) = (CHOOSE f : f = F(f))[N]
  BY DEF ClawBack, ClawStart
<1>6. PICK f : f = F(f) /\ ClawBack(all, u, n) = f[N]
  <2> HIDE DEF F
  <2> QED
    BY <1>4, <1>5
<1>7. f[0] = ClawStart(all)
  BY <1>6
<1>8. \A k \in 1 .. N : f[k] = ClawOne(u, n, f[k - 1], N + 1 - k)
  BY <1>6
<1> QED
  BY <1>6, <1>7, <1>8

\* What holds of the periods and the transfers while they are taken back.
ClawOK(all, acc) ==
  /\ acc.periods \in [Users -> Seq(PeriodType)]
  /\ \A w \in Users : ListOK(acc.periods[w]) /\ Grown(all[w], acc.periods[w])
  /\ acc.transfers \in Seq(TransferType) /\ Len(acc.transfers) = Len(transfers)
  /\ acc.got \in Nat
  /\ acc.hit \subseteq Users
  /\ \A w \in Users \ acc.hit : acc.periods[w] = all[w]

LEMMA ClawOneOK ==
  ASSUME PeriodsAssumption, now \in Nat, Len(transfers) \in Nat,
         NEW all, all \in [Users -> Seq(PeriodType)],
         NEW u, NEW n \in Int, NEW acc, ClawOK(all, acc), NEW k \in 1 .. Len(transfers)
  PROVE  ClawOK(all, ClawOne(u, n, acc, k))
<1> DEFINE t == acc.transfers[k]
           want == Below(t.days - t.reverted, n - acc.got)
           got == TakenDays(acc.periods[t.to], want)
           next == [periods |-> [acc.periods EXCEPT ![t.to] = Taken(@, want)],
                    transfers |-> [acc.transfers EXCEPT ![k].reverted = @ + got],
                    got |-> acc.got + got,
                    hit |-> acc.hit \union {t.to}]
<1>1. ClawOne(u, n, acc, k) = IF t.from # u \/ want <= 0 THEN acc ELSE next
  BY DEF ClawOne
<1>2. t \in TransferType /\ acc.got \in Nat
  <2>1. acc.transfers \in Seq(TransferType) /\ Len(acc.transfers) = Len(transfers) /\ acc.got \in Nat
    BY DEF ClawOK
  <2>2. k \in 1 .. Len(acc.transfers)
    BY <2>1
  <2> QED
    BY <2>1, <2>2, ElementOfSeq
<1>3. t.to \in Users /\ t.days \in Nat /\ t.reverted \in Nat
  BY <1>2 DEF TransferType
<1>4. want \in Int
  <2> HIDE DEF t, got
  <2>1. t.days - t.reverted \in Int /\ n - acc.got \in Int
    BY <1>2, <1>3, SMTT(30)
  <2> QED
    BY <2>1 DEF Below
<1> HIDE DEF want
<1>5. CASE t.from # u \/ want <= 0
  BY <1>1, <1>5
<1>6. CASE want > 0
  <2> DEFINE v == t.to
             s == acc.periods[v]
             r == Taken(s, want)
  <2>1. v \in Users /\ want \in Nat
    BY <1>3, <1>4, <1>6
  <2>2. s \in Seq(PeriodType) /\ ListOK(s) /\ Grown(all[v], s) /\ all[v] \in Seq(PeriodType)
    BY <2>1 DEF ClawOK
  <2> HIDE DEF s
  <2>3. ListOK(r) /\ Grown(s, r)
    BY <2>1, <2>2, TakenOK
  <2>4. got \in Nat
    BY <2>1, <2>2, TakenDaysType DEF s
  <2> HIDE DEF r, got
  <2>5. r \in Seq(PeriodType)
    BY <2>3 DEF ListOK
  <2>6. Grown(all[v], r)
    BY <2>2, <2>3, <2>5, GrownTwice
  <2> DEFINE ps == [acc.periods EXCEPT ![v] = r]
             ts == [acc.transfers EXCEPT ![k].reverted = @ + got]
  <2>7. /\ ps \in [Users -> Seq(PeriodType)]
        /\ \A w \in Users : ps[w] = IF w = v THEN r ELSE acc.periods[w]
    BY <2>1, <2>5 DEF ClawOK
  <2>8. ts \in Seq(TransferType) /\ Len(ts) = Len(transfers)
    <3> DEFINE sum == t.reverted + got
               e == [t EXCEPT !.reverted = sum]
    <3>1. e \in TransferType
      <4>1. t.reverted \in Nat
        BY <1>3
      <4> HIDE DEF t
      <4>2. sum \in Nat
        BY <2>4, <4>1
      <4> HIDE DEF t, sum
      <4> QED
        BY <1>2, <4>2 DEF TransferType
    <3> DEFINE l == acc.transfers
    <3>2. ts = [l EXCEPT ![k] = e]
      OBVIOUS
    <3> HIDE DEF e, t, ts
    <3>3. l \in Seq(TransferType) /\ Len(l) = Len(transfers)
      BY DEF ClawOK
    <3> HIDE DEF l
    <3>4. k \in 1 .. Len(l)
      BY <3>3
    <3>5. [l EXCEPT ![k] = e] \in Seq(TransferType) /\ Len([l EXCEPT ![k] = e]) = Len(l)
      BY <3>1, <3>3, <3>4, ExceptSeq
    <3> QED
      BY <3>2, <3>3, <3>5
  <2>9. next = [periods |-> ps, transfers |-> ts, got |-> acc.got + got, hit |-> acc.hit \union {v}]
    BY DEF r, s
  <2> HIDE DEF ps, ts, next
  <2>10. /\ next.periods = ps /\ next.transfers = ts /\ next.got = acc.got + got
         /\ next.hit = acc.hit \union {v}
    BY <2>9
  <2>11. \A w \in Users : ListOK(ps[w]) /\ Grown(all[w], ps[w])
    <3>1. \A w \in Users : ListOK(acc.periods[w]) /\ Grown(all[w], acc.periods[w])
      BY DEF ClawOK
    <3> QED
      BY <2>3, <2>6, <2>7, <3>1
  <2>12. \A w \in Users \ next.hit : ps[w] = all[w]
    <3>1. \A w \in Users \ acc.hit : acc.periods[w] = all[w]
      BY DEF ClawOK
    <3>2. \A w \in Users \ next.hit : w \notin acc.hit /\ w # v
      BY <2>10
    <3> QED
      BY <2>7, <3>1, <3>2
  <2>13. acc.got + got \in Nat /\ next.hit \subseteq Users
    <3>1. acc.got \in Nat /\ acc.hit \subseteq Users
      BY DEF ClawOK
    <3> QED
      BY <2>1, <2>4, <2>10, <3>1, SMTT(30)
  <2>14. ClawOK(all, next)
    BY <2>7, <2>8, <2>10, <2>11, <2>12, <2>13 DEF ClawOK
  <2> QED
    BY <1>1, <1>5, <2>14
<1> QED
  BY <1>4, <1>5, <1>6

LEMMA ClawBackOK ==
  ASSUME PeriodsAssumption, now \in Nat, transfers \in Seq(TransferType),
         NEW all, all \in [Users -> Seq(PeriodType)], \A w \in Users : ListOK(all[w]),
         NEW u, NEW n \in Int
  PROVE  ClawOK(all, ClawBack(all, u, n))
<1> DEFINE N == Len(transfers)
<1>1. N \in Nat
  OBVIOUS
<1>2. PICK claw : /\ claw[0] = ClawStart(all)
                  /\ \A k \in 1 .. N : claw[k] = ClawOne(u, n, claw[k - 1], N + 1 - k)
                  /\ claw[N] = ClawBack(all, u, n)
  BY <1>1, ClawSteps
<1> DEFINE P == {m \in 0 .. N : ClawOK(all, claw[m])}
<1>3. 0 \in P
  <2>1. \A w \in Users : Grown(all[w], all[w])
    BY ListFields DEF Grown
  <2>2. ClawOK(all, ClawStart(all))
    BY <2>1 DEF ClawOK, ClawStart
  <2> QED
    BY <1>1, <1>2, <2>2
<1> HIDE DEF N
<1>4. ASSUME NEW m \in 0 .. N, m \in P, m < N
      PROVE  m + 1 \in P
  <2>1. m + 1 \in 1 .. N /\ m + 1 \in 0 .. N /\ (m + 1) - 1 = m /\ N + 1 - (m + 1) \in 1 .. N
    BY <1>1, <1>4
  <2>2. claw[m + 1] = ClawOne(u, n, claw[m], N + 1 - (m + 1))
    BY <1>2, <2>1
  <2>3. ClawOK(all, claw[m])
    BY <1>4
  <2>4. ClawOK(all, ClawOne(u, n, claw[m], N + 1 - (m + 1)))
    BY <1>1, <2>1, <2>3, ClawOneOK DEF N
  <2> QED
    BY <2>1, <2>2, <2>4
<1>5. N \in P
  <2> HIDE DEF P
  <2>1. \A m \in 0 .. N : m \in P /\ m < N => m + 1 \in P
    BY <1>4
  <2>2. \A m \in 0 .. N : m \in P
    BY <1>1, <1>3, <2>1, UpTo
  <2> QED
    BY <1>1, <2>2
<1> QED
  BY <1>2, <1>5

--------------------------------------------------------------------------------
(* The inductive invariant                                                 *)

\* Every account's list is in order.
ListInv == \A u \in Users : ListOK(periods[u])

\* A fulfilled order has its period, a paid one, whatever happened to it since.
BoughtInv ==
  \A o \in Orders :
    IF status[o] = "pending" THEN bought[o] = 0
    ELSE bought[o] \in DOMAIN periods[Owner[o]] /\ periods[Owner[o]][bought[o]].kind = "paid"

\* Only an invited account has a bonus.
BonusInv == \A u \in Users : bonus[u] # "none" => Inviter[u] \in Users

PeriodsInv == TypeOK /\ ListInv /\ BoughtInv /\ BonusInv

\* What a step leaves of each account's list.
ListsGrow ==
  /\ periods' \in [Users -> Seq(PeriodType)]
  /\ \A w \in Users : ListOK(periods'[w]) /\ Grown(periods[w], periods'[w])

LEMMA InvFacts ==
  ASSUME PeriodsInv
  PROVE  /\ now \in Nat
         /\ periods \in [Users -> Seq(PeriodType)]
         /\ \A w \in Users : /\ ListOK(periods[w])
                             /\ frozen[w] \in {NoTime} \union 0 .. now
                             /\ Clock(w) \in Nat /\ Clock(w) <= now
         /\ transfers \in Seq(TransferType)
<1>1. now \in Nat
  BY DEF PeriodsInv, TypeOK
<1>2. \A w \in Users : frozen[w] \in {NoTime} \union 0 .. now
  BY DEF PeriodsInv, TypeOK
<1>3. \A w \in Users : Clock(w) \in Nat /\ Clock(w) <= now
  BY <1>1, <1>2 DEF Clock, NoTime
<1> QED
  BY <1>1, <1>2, <1>3 DEF PeriodsInv, TypeOK, ListInv, TransferType

\* Changing one account's list.
LEMMA OneList ==
  ASSUME NEW ps \in [Users -> Seq(PeriodType)], \A w \in Users : ListOK(ps[w]),
         NEW v \in Users, NEW r, ListOK(r), Grown(ps[v], r)
  PROVE  LET qs == [ps EXCEPT ![v] = r] IN
         /\ qs \in [Users -> Seq(PeriodType)]
         /\ \A w \in Users : ListOK(qs[w]) /\ Grown(ps[w], qs[w])
         /\ \A w \in Users : w # v => qs[w] = ps[w]
         /\ qs[v] = r
<1> DEFINE qs == [ps EXCEPT ![v] = r]
<1>1. r \in Seq(PeriodType)
  BY DEF ListOK
<1>2. /\ qs \in [Users -> Seq(PeriodType)] /\ qs[v] = r
      /\ \A w \in Users : w # v => qs[w] = ps[w]
  BY <1>1
<1>3. \A w \in Users : Grown(ps[w], ps[w])
  BY ListFields DEF Grown
<1> HIDE DEF qs
<1>4. \A w \in Users : ListOK(qs[w]) /\ Grown(ps[w], qs[w])
  BY <1>2, <1>3
<1> QED
  BY <1>2, <1>4 DEF qs

LEMMA SameLists ==
  ASSUME PeriodsInv, UNCHANGED periods
  PROVE  ListsGrow
<1>1. \A w \in Users : Grown(periods[w], periods[w])
  BY InvFacts, ListFields DEF Grown
<1> QED
  BY <1>1, InvFacts DEF ListsGrow

\* A step that keeps the lists in order and the orders as they are.
LEMMA KeptInv ==
  ASSUME PeriodsAssumption, PeriodsInv, ListsGrow, TypeOK',
         \A o \in Orders : /\ status[o] = "pending" <=> status'[o] = "pending"
                           /\ bought'[o] = bought[o],
         \A u \in Users : bonus'[u] # "none" => Inviter[u] \in Users
  PROVE  PeriodsInv'
<1>1. ListInv'
  BY DEF ListInv, ListsGrow
<1>2. BoughtInv'
  <2> SUFFICES ASSUME NEW o \in Orders, status'[o] # "pending"
               PROVE  /\ bought[o] \in DOMAIN periods'[Owner[o]]
                      /\ periods'[Owner[o]][bought[o]].kind = "paid"
    BY DEF BoughtInv, PeriodsInv
  <2> DEFINE s == periods[Owner[o]]
             r == periods'[Owner[o]]
  <2>1. Owner[o] \in Users
    BY DEF PeriodsAssumption
  <2>2. bought[o] \in DOMAIN s /\ s[bought[o]].kind = "paid"
    BY DEF PeriodsInv, BoughtInv
  <2>3. s \in Seq(PeriodType) /\ r \in Seq(PeriodType) /\ Grown(s, r)
    BY <2>1, InvFacts DEF ListsGrow
  <2> HIDE DEF s, r
  <2>4. /\ DOMAIN s = 1 .. Len(s) /\ DOMAIN r = 1 .. Len(r)
        /\ Len(s) \in Nat /\ Len(r) \in Nat
    BY <2>3, ListFields
  <2>5. bought[o] \in DOMAIN r /\ r[bought[o]].kind = "paid"
    BY <2>2, <2>3, <2>4 DEF Grown
  <2> QED
    BY <2>5 DEF r
<1>3. BonusInv'
  BY DEF BonusInv
<1> QED
  BY <1>1, <1>2, <1>3 DEF PeriodsInv

LEMMA InvInit ==
  ASSUME PeriodsAssumption, Init
  PROVE  PeriodsInv
<1>1. FirstDays * Day \in Nat \ {0}
  <2>1. FirstDays \in Nat \ {0} /\ Day \in Nat \ {0}
    BY DEF PeriodsAssumption
  <2>2. \A m, n \in Nat \ {0} : m * n \in Nat \ {0}
    OBVIOUS
  <2> QED
    BY <2>1, <2>2
<1>2. ASSUME NEW u \in Users
      PROVE  ListOK(periods[u])
  <2>1. CASE First[u] = "none"
    <3>1. periods[u] = <<>>
      BY <2>1 DEF Init
    <3>2. periods[u] \in Seq(PeriodType) /\ Kept(periods[u]) = {}
      BY <3>1 DEF Kept
    <3> QED
      BY <3>2 DEF ListOK, Apart, TrialsFirst
  <2>2. CASE First[u] # "none"
    <3> DEFINE p == Period(FirstPlan, First[u], 0, FirstDays * Day)
               s == <<p>>
    <3>1. periods[u] = s
      BY <2>2 DEF Init
    <3>2. First[u] \in {"paid", "bonus", "trial"}
      BY <2>2 DEF PeriodsAssumption
    <3>3. /\ p \in PeriodType /\ ~p.off
          /\ p.starts = 0 /\ p.ends = FirstDays * Day
      <4> DEFINE e == FirstDays * Day
                 plan == FirstPlan
                 kind == First[u]
                 b == 0
      <4>1. /\ e \in Nat /\ b \in Nat /\ b <= e
            /\ plan \in Plans \union {FirstPlan, "gift"}
            /\ kind \in {"paid", "bonus", "trial"}
        BY <1>1, <3>2
      <4> HIDE DEF e, plan, kind, b
      <4>2. /\ Period(plan, kind, b, e) \in PeriodType /\ ~Period(plan, kind, b, e).off
            /\ Period(plan, kind, b, e).starts = b /\ Period(plan, kind, b, e).ends = e
        BY <4>1 DEF Period, PeriodType
      <4> QED
        BY <4>2 DEF e, plan, kind, b
    <3> HIDE DEF p
    <3>4. s \in Seq(PeriodType) /\ DOMAIN s = {1} /\ s[1] = p
      BY <3>3
    <3> HIDE DEF s
    <3>5. \A i \in Kept(s) : i = 1 /\ s[i].starts = 0 /\ s[i].ends = FirstDays * Day
      BY <3>3, <3>4 DEF Kept
    <3> QED
      BY <1>1, <3>1, <3>4, <3>5 DEF ListOK, Apart, TrialsFirst
  <2> QED
    BY <2>1, <2>2
<1>3. ListInv
  BY <1>2 DEF ListInv
<1>4. TypeOK
  <2>1. periods \in [Users -> Seq(PeriodType)]
    BY <1>2 DEF Init, ListOK
  <2>2. {PerMonth, MaxTime, MaxCalls} \subseteq Nat
    BY DEF PeriodsAssumption
  <2>3. transfers \in Seq([from: Users, to: Users, days: Nat \ {0}, reverted: Nat])
    BY DEF Init
  <2> QED
    BY <2>1, <2>2, <2>3 DEF Init, TypeOK
<1>5. BoughtInv /\ BonusInv
  BY DEF Init, BoughtInv, BonusInv
<1> QED
  BY <1>3, <1>4, <1>5 DEF PeriodsInv

--------------------------------------------------------------------------------
(* Every operation keeps the lists in order                                *)

LEMMA TickInv ==
  ASSUME PeriodsAssumption, PeriodsInv, Tick
  PROVE  ListsGrow /\ PeriodsInv'
<1>1. TypeOK'
  <2>1. now' \in 0 .. MaxTime /\ 0 .. now \subseteq 0 .. now'
    BY DEF PeriodsInv, TypeOK, Tick, PeriodsAssumption
  <2>2. frozen' \in [Users -> {NoTime} \union 0 .. now']
    BY <2>1 DEF PeriodsInv, TypeOK, Tick
  <2> QED
    BY <2>1, <2>2 DEF PeriodsInv, TypeOK, Tick
<1>2. ListsGrow
  BY SameLists DEF Tick
<1> QED
  BY <1>1, <1>2, KeptInv DEF Tick, PeriodsInv, BonusInv

LEMMA StutterInv ==
  ASSUME PeriodsAssumption, PeriodsInv, UNCHANGED vars
  PROVE  ListsGrow /\ PeriodsInv'
<1>1. TypeOK'
  BY DEF PeriodsInv, TypeOK, vars
<1>2. ListsGrow
  BY SameLists DEF vars
<1> QED
  BY <1>1, <1>2, KeptInv DEF vars, PeriodsInv, BonusInv

LEMMA FulfilInv ==
  ASSUME PeriodsAssumption, PeriodsInv, NEW o \in Orders, NEW plan \in Plans, Fulfil(o, plan)
  PROVE  ListsGrow /\ PeriodsInv'
<1> DEFINE u == Owner[o]
           got == Granted(periods[u], plan, Term[o])
<1>1. u \in Users /\ Term[o] \in Nat \ {0}
  BY DEF PeriodsAssumption
<1>2. /\ ListOK(got.list) /\ Grown(periods[u], got.list)
      /\ got.at \in DOMAIN got.list /\ got.list[got.at].kind = "paid"
  <2> DEFINE s == periods[u]
             n == Term[o]
  <2>1. ListOK(s) /\ now \in Nat /\ n \in Nat \ {0}
    BY <1>1, InvFacts
  <2> HIDE DEF s, n
  <2>2. LET g == Granted(s, plan, n) IN
        /\ ListOK(g.list) /\ Grown(s, g.list)
        /\ g.at \in DOMAIN g.list /\ g.list[g.at].kind = "paid"
    BY <2>1, GrantedOK
  <2> QED
    BY <2>2 DEF s, n
<1>3. /\ status[o] = "pending"
      /\ status' = [status EXCEPT ![o] = "paid"]
      /\ periods' = [periods EXCEPT ![u] = got.list]
      /\ bought' = [bought EXCEPT ![o] = got.at]
      /\ exact' \subseteq exact
      /\ UNCHANGED <<now, frozen, pauses, transfers, bonus, gifts>>
  BY DEF Fulfil, Touch
<1> DEFINE r == got.list
           at == got.at
<1>4. /\ ListOK(r) /\ Grown(periods[u], r) /\ at \in DOMAIN r /\ r[at].kind = "paid"
      /\ periods' = [periods EXCEPT ![u] = r]
      /\ bought' = [bought EXCEPT ![o] = at]
  BY <1>2, <1>3
<1> HIDE DEF got, r, at, u
<1>5. /\ periods' \in [Users -> Seq(PeriodType)]
      /\ \A w \in Users : ListOK(periods'[w]) /\ Grown(periods[w], periods'[w])
      /\ \A w \in Users : w # u => periods'[w] = periods[w]
      /\ periods'[u] = r
  BY <1>1, <1>4, InvFacts, OneList, ZenonT(30)
<1>6. ListsGrow
  BY <1>5 DEF ListsGrow
<1>7. at \in Nat
  <2>1. r \in Seq(PeriodType)
    BY <1>4 DEF ListOK
  <2> QED
    BY <1>4, <2>1
<1>8. /\ status' \in [Orders -> {"pending", "paid", "refunded"}]
      /\ bought' \in [Orders -> Nat]
      /\ \A q \in Orders : q # o => status'[q] = status[q] /\ bought'[q] = bought[q]
      /\ status'[o] = "paid" /\ bought'[o] = at
  BY <1>3, <1>4, <1>7 DEF PeriodsInv, TypeOK
<1>9. BoughtInv'
  <2> SUFFICES ASSUME NEW q \in Orders
               PROVE  IF status'[q] = "pending" THEN bought'[q] = 0
                      ELSE /\ bought'[q] \in DOMAIN periods'[Owner[q]]
                           /\ periods'[Owner[q]][bought'[q]].kind = "paid"
    BY DEF BoughtInv
  <2>1. CASE q = o
    BY <1>4, <1>5, <1>8, <2>1 DEF u
  <2>2. CASE q # o
    <3> DEFINE s == periods[Owner[q]]
               t == periods'[Owner[q]]
               b == bought[q]
    <3>1. Owner[q] \in Users
      BY DEF PeriodsAssumption
    <3>2. IF status[q] = "pending" THEN b = 0 ELSE b \in DOMAIN s /\ s[b].kind = "paid"
      BY DEF PeriodsInv, BoughtInv
    <3>3. s \in Seq(PeriodType) /\ t \in Seq(PeriodType) /\ Grown(s, t)
      BY <1>5, <3>1, InvFacts
    <3>4. status'[q] = status[q] /\ bought'[q] = b
      BY <1>8, <2>2
    <3> HIDE DEF s, t, b
    <3>5. /\ DOMAIN s = 1 .. Len(s) /\ DOMAIN t = 1 .. Len(t)
          /\ Len(s) \in Nat /\ Len(t) \in Nat
      BY <3>3, ListFields
    <3>6. IF status'[q] = "pending" THEN bought'[q] = 0
          ELSE bought'[q] \in DOMAIN t /\ t[bought'[q]].kind = "paid"
      BY <3>2, <3>3, <3>4, <3>5 DEF Grown
    <3> QED
      BY <3>6 DEF t
  <2> QED
    BY <2>1, <2>2
<1>10. TypeOK'
  <2>1. \A q \in Orders : IF status'[q] = "pending" THEN bought'[q] = 0
                          ELSE bought'[q] \in DOMAIN periods'[Owner[q]]
    BY <1>9 DEF BoughtInv
  <2>2. /\ now' = now /\ frozen' = frozen /\ pauses' = pauses /\ transfers' = transfers
        /\ bonus' = bonus /\ gifts' = gifts /\ exact' \subseteq exact
    BY <1>3
  <2> QED
    BY <1>5, <1>8, <2>1, <2>2 DEF PeriodsInv, TypeOK
<1>11. ListInv' /\ BonusInv'
  BY <1>3, <1>5 DEF ListInv, BonusInv, PeriodsInv
<1> QED
  BY <1>6, <1>9, <1>10, <1>11 DEF PeriodsInv

\* A step that changes no order: what is left to show.
LEMMA NoOrderInv ==
  ASSUME PeriodsAssumption, PeriodsInv, ListsGrow,
         UNCHANGED <<now, status, bought>>,
         frozen' \in [Users -> {NoTime} \union 0 .. now],
         pauses' \in [Users -> 0 .. PerMonth],
         transfers' \in Seq(TransferType),
         bonus' \in [Users -> {"none", "claimed", "granted", "revoked", "late"}],
         gifts' \in [Users -> Nat],
         exact' \subseteq Users,
         \A u \in Users : bonus'[u] # "none" => Inviter[u] \in Users
  PROVE  PeriodsInv'
<1>1. TypeOK'
  <2>1. \A o \in Orders : IF status'[o] = "pending" THEN bought'[o] = 0
                          ELSE bought'[o] \in DOMAIN periods'[Owner[o]]
    <3> TAKE o \in Orders
    <3> DEFINE s == periods[Owner[o]]
               r == periods'[Owner[o]]
    <3>1. Owner[o] \in Users
      BY DEF PeriodsAssumption
    <3>2. IF status[o] = "pending" THEN bought[o] = 0 ELSE bought[o] \in DOMAIN s
      BY DEF PeriodsInv, BoughtInv
    <3>3. s \in Seq(PeriodType) /\ r \in Seq(PeriodType) /\ Grown(s, r)
      BY <3>1, InvFacts DEF ListsGrow
    <3>4. status' = status /\ bought' = bought
      OBVIOUS
    <3> HIDE DEF s, r
    <3>5. /\ DOMAIN s = 1 .. Len(s) /\ DOMAIN r = 1 .. Len(r)
          /\ Len(s) \in Nat /\ Len(r) \in Nat
      BY <3>3, ListFields
    <3>6. IF status'[o] = "pending" THEN bought'[o] = 0 ELSE bought'[o] \in DOMAIN r
      BY <3>2, <3>3, <3>4, <3>5 DEF Grown
    <3> QED
      BY <3>6 DEF r
  <2> QED
    BY <2>1 DEF PeriodsInv, TypeOK, ListsGrow, TransferType
<1> QED
  BY <1>1, KeptInv

\* add_bonus_days on one account's list.
LEMMA GiveGrows ==
  ASSUME PeriodsAssumption, PeriodsInv, NEW v \in Users, NEW n \in Nat \ {0},
         periods' = [periods EXCEPT ![v] = Gifted(periods[v], n)]
  PROVE  ListsGrow
<1> DEFINE s == periods[v]
           r == Gifted(s, n)
<1>1. ListOK(r) /\ Grown(s, r)
  <2>1. ListOK(s) /\ now \in Nat
    BY InvFacts
  <2> HIDE DEF s
  <2> QED
    BY <2>1, GiftedOK
<1>2. periods' = [periods EXCEPT ![v] = r]
  OBVIOUS
<1> HIDE DEF r
<1>3. periods \in [Users -> Seq(PeriodType)] /\ \A w \in Users : ListOK(periods[w])
  BY InvFacts
<1>4. Grown(periods[v], r) /\ ListOK(r)
  BY <1>1
<1> DEFINE qs == [periods EXCEPT ![v] = r]
<1>5. /\ qs \in [Users -> Seq(PeriodType)]
      /\ \A w \in Users : ListOK(qs[w]) /\ Grown(periods[w], qs[w])
  BY <1>3, <1>4, OneList
<1> QED
  BY <1>2, <1>5 DEF ListsGrow

LEMMA ClaimInv ==
  ASSUME PeriodsAssumption, PeriodsInv, NEW u \in Users, ClaimBonus(u)
  PROVE  ListsGrow /\ PeriodsInv'
<1>1. ListsGrow
  BY SameLists DEF ClaimBonus
<1>2. Inviter[u] \in Users
  BY DEF ClaimBonus, PeriodsAssumption
<1>3. /\ bonus' \in [Users -> {"none", "claimed", "granted", "revoked", "late"}]
      /\ \A w \in Users : bonus'[w] # "none" => Inviter[w] \in Users
  BY <1>2 DEF ClaimBonus, PeriodsInv, TypeOK, BonusInv
<1> QED
  BY <1>1, <1>3, NoOrderInv DEF ClaimBonus, PeriodsInv, TypeOK, TransferType

LEMMA BonusAfterType ==
  ASSUME PeriodsInv, NEW u \in Users, bonus[u] \in {"claimed", "late"},
         bonus' = [bonus EXCEPT ![u] = BonusAfter(@)]
  PROVE  /\ Inviter[u] \in Users
         /\ bonus' \in [Users -> {"none", "claimed", "granted", "revoked", "late"}]
         /\ \A w \in Users : bonus'[w] # "none" => Inviter[w] \in Users
BY DEF PeriodsInv, TypeOK, BonusInv, BonusAfter

LEMMA GrantBonusInv ==
  ASSUME PeriodsAssumption, PeriodsInv, NEW u \in Users, GrantBonus(u)
  PROVE  ListsGrow /\ PeriodsInv'
<1>1. /\ Inviter[u] \in Users
      /\ bonus' \in [Users -> {"none", "claimed", "granted", "revoked", "late"}]
      /\ \A w \in Users : bonus'[w] # "none" => Inviter[w] \in Users
  BY BonusAfterType DEF GrantBonus
<1>2. BonusDays \in Nat \ {0}
  BY DEF PeriodsAssumption
<1>3. ListsGrow
  BY <1>1, <1>2, GiveGrows DEF GrantBonus
<1>4. exact' \subseteq Users
  BY DEF GrantBonus, Touch, PeriodsInv, TypeOK
<1> QED
  BY <1>1, <1>3, <1>4, NoOrderInv DEF GrantBonus, PeriodsInv, TypeOK, TransferType

LEMMA LoseBonusInv ==
  ASSUME PeriodsAssumption, PeriodsInv, NEW u \in Users, LoseBonus(u)
  PROVE  ListsGrow /\ PeriodsInv'
<1>1. /\ bonus' \in [Users -> {"none", "claimed", "granted", "revoked", "late"}]
      /\ \A w \in Users : bonus'[w] # "none" => Inviter[w] \in Users
  BY BonusAfterType DEF LoseBonus
<1>2. ListsGrow
  BY SameLists DEF LoseBonus
<1> QED
  BY <1>1, <1>2, NoOrderInv DEF LoseBonus, PeriodsInv, TypeOK, TransferType

LEMMA GiveInv ==
  ASSUME PeriodsAssumption, PeriodsInv, NEW u \in Users, NEW n \in GiftDays, Give(u, n)
  PROVE  ListsGrow /\ PeriodsInv'
<1>1. n \in Nat \ {0} /\ periods' = [periods EXCEPT ![u] = Gifted(periods[u], n)]
  BY DEF Give, PeriodsAssumption
<1>2. ListsGrow
  BY <1>1, GiveGrows
<1>3. exact' \subseteq Users
  BY DEF Give, Touch, PeriodsInv, TypeOK
<1>4. gifts' \in [Users -> Nat]
  BY <1>1 DEF Give, PeriodsInv, TypeOK
<1> QED
  BY <1>2, <1>3, <1>4, NoOrderInv DEF Give, PeriodsInv, TypeOK, BonusInv, TransferType

LEMMA FreezeInv ==
  ASSUME PeriodsAssumption, PeriodsInv, NEW u \in Users, Freeze(u)
  PROVE  ListsGrow /\ PeriodsInv'
<1>1. ListsGrow
  BY SameLists DEF Freeze
<1>2. frozen' \in [Users -> {NoTime} \union 0 .. now]
  BY InvFacts DEF Freeze, PeriodsInv, TypeOK
<1>3. pauses' \in [Users -> 0 .. PerMonth]
  <2>1. PerMonth \in Nat /\ pauses[u] \in 0 .. PerMonth /\ pauses[u] < PerMonth
    BY DEF PeriodsAssumption, Freeze, PeriodsInv, TypeOK
  <2>2. pauses[u] + 1 \in 0 .. PerMonth
    BY <2>1
  <2> QED
    BY <2>2 DEF Freeze, PeriodsInv, TypeOK
<1> QED
  BY <1>1, <1>2, <1>3, NoOrderInv DEF Freeze, PeriodsInv, TypeOK, BonusInv, TransferType

LEMMA ResumeList ==
  ASSUME PeriodsInv, NEW u \in Users, Resume(u)
  PROVE  /\ frozen[u] \in Nat /\ frozen[u] <= now /\ now - frozen[u] \in Nat
         /\ IF now - frozen[u] >= MinPause
              THEN periods' = [periods EXCEPT ![u] =
                                 After(periods[u], frozen[u], now - frozen[u])]
              ELSE periods' = periods
         /\ frozen' = [frozen EXCEPT ![u] = NoTime]
<1>1. now \in Nat /\ frozen[u] \in {NoTime} \union 0 .. now /\ frozen[u] # NoTime
  BY InvFacts DEF Resume
<1>2. frozen[u] \in Nat /\ frozen[u] <= now /\ now - frozen[u] \in Nat
  BY <1>1
<1> QED
  BY <1>2 DEF Resume, After

LEMMA ResumeInv ==
  ASSUME PeriodsAssumption, PeriodsInv, NEW u \in Users, Resume(u)
  PROVE  ListsGrow /\ PeriodsInv'
<1> DEFINE s == periods[u]
           at == frozen[u]
           n == now - frozen[u]
           r == After(s, at, n)
<1>1. /\ at \in Nat /\ n \in Nat
      /\ IF n >= MinPause THEN periods' = [periods EXCEPT ![u] = r] ELSE periods' = periods
      /\ frozen' = [frozen EXCEPT ![u] = NoTime]
  BY ResumeList
<1>2. ListOK(r) /\ Grown(s, r)
  <2>1. ListOK(s)
    BY InvFacts
  <2> HIDE DEF s, at, n
  <2> QED
    BY <1>1, <2>1, AfterOK
<1> HIDE DEF r
<1>3. ListsGrow
  <2>1. CASE n >= MinPause
    <3> DEFINE qs == [periods EXCEPT ![u] = r]
    <3>1. periods \in [Users -> Seq(PeriodType)] /\ \A w \in Users : ListOK(periods[w])
      BY InvFacts
    <3>2. ListOK(r) /\ Grown(periods[u], r)
      BY <1>2
    <3>3. /\ qs \in [Users -> Seq(PeriodType)]
          /\ \A w \in Users : ListOK(qs[w]) /\ Grown(periods[w], qs[w])
      BY <3>1, <3>2, OneList
    <3> QED
      BY <1>1, <2>1, <3>3 DEF ListsGrow
  <2>2. CASE ~(n >= MinPause)
    BY <1>1, <2>2, SameLists
  <2> QED
    BY <2>1, <2>2
<1>4. frozen' \in [Users -> {NoTime} \union 0 .. now]
  BY <1>1 DEF PeriodsInv, TypeOK
<1> QED
  BY <1>3, <1>4, NoOrderInv DEF Resume, PeriodsInv, TypeOK, BonusInv, TransferType

LEMMA TransferInv ==
  ASSUME PeriodsAssumption, PeriodsInv,
         NEW u \in Users, NEW v \in Users, NEW n \in DayCounts, Transfer(u, v, n)
  PROVE  ListsGrow /\ PeriodsInv'
<1>1. n \in Nat \ {0}
  BY DEF DayCounts, PeriodsAssumption
<1> DEFINE r == Taken(periods[u], n)
           g == Gifted(periods[v], n)
<1>2. /\ u # v
      /\ periods' = [periods EXCEPT ![u] = r, ![v] = g]
      /\ transfers' = Append(transfers, [from |-> u, to |-> v, days |-> n, reverted |-> 0])
      /\ exact' \subseteq exact
      /\ UNCHANGED <<now, frozen, pauses, status, bought, bonus, gifts>>
  BY DEF Transfer, Touch
<1>3. ListOK(r) /\ Grown(periods[u], r)
  <2> DEFINE s == periods[u]
  <2>1. ListOK(s) /\ now \in Nat /\ n \in Nat
    BY <1>1, InvFacts
  <2> HIDE DEF s
  <2>2. ListOK(Taken(s, n)) /\ Grown(s, Taken(s, n))
    BY <2>1, TakenOK
  <2> QED
    BY <2>2 DEF s
<1>4. ListOK(g) /\ Grown(periods[v], g)
  <2> DEFINE s == periods[v]
  <2>1. ListOK(s) /\ now \in Nat
    BY InvFacts
  <2> HIDE DEF s
  <2>2. ListOK(Gifted(s, n)) /\ Grown(s, Gifted(s, n))
    BY <1>1, <2>1, GiftedOK
  <2> QED
    BY <2>2 DEF s
<1> HIDE DEF r, g
<1>5. ListsGrow
  <2>1. r \in Seq(PeriodType) /\ g \in Seq(PeriodType)
    BY <1>3, <1>4 DEF ListOK
  <2>2. \A w \in Users : periods'[w] = IF w = v THEN g ELSE IF w = u THEN r ELSE periods[w]
    BY <1>2, InvFacts
  <2>3. periods' \in [Users -> Seq(PeriodType)]
    BY <1>2, <2>1, InvFacts
  <2>4. \A w \in Users : ListOK(periods[w]) /\ Grown(periods[w], periods[w])
    BY InvFacts, ListFields DEF Grown
  <2>5. \A w \in Users : ListOK(periods'[w]) /\ Grown(periods[w], periods'[w])
    BY <1>3, <1>4, <2>2, <2>4
  <2> QED
    BY <2>3, <2>5 DEF ListsGrow
<1>6. transfers' \in Seq(TransferType)
  <2> DEFINE t == [from |-> u, to |-> v, days |-> n, reverted |-> 0]
  <2>1. t \in TransferType
    BY <1>1 DEF TransferType
  <2> HIDE DEF t
  <2> QED
    BY <1>2, <2>1, InvFacts DEF t
<1> QED
  BY <1>2, <1>5, <1>6, NoOrderInv DEF PeriodsInv, TypeOK, BonusInv

--------------------------------------------------------------------------------
(* Refunds                                                                 *)

\* The three lists a refund goes through: the buyer's, the inviter's, and those
\* of the receivers of the buyer's days.
Own(o) == [periods EXCEPT ![Owner[o]] = Shrunk(periods[Owner[o]], bought[o], Term[o])]
Revoked(o) == bonus[Owner[o]] \in {"claimed", "granted"}
Revoke(o) ==
  IF Revoked(o) THEN [Own(o) EXCEPT ![Inviter[Owner[o]]] = Taken(@, BonusDays)] ELSE Own(o)
Claw(o) == ClawBack(Revoke(o), Owner[o], Unpaid(periods[Owner[o]], bought[o], Term[o]))

\* The lists ps come from the lists all by operations on periods.
From(all, ps) ==
  /\ ps \in [Users -> Seq(PeriodType)]
  /\ \A w \in Users : ListOK(ps[w]) /\ Grown(all[w], ps[w])

LEMMA FromTwice ==
  ASSUME NEW all \in [Users -> Seq(PeriodType)], NEW ps, NEW qs, From(all, ps), From(ps, qs)
  PROVE  From(all, qs)
<1> SUFFICES ASSUME NEW w \in Users PROVE Grown(all[w], qs[w])
  BY DEF From
<1>1. /\ Grown(all[w], ps[w]) /\ Grown(ps[w], qs[w]) /\ all[w] \in Seq(PeriodType)
      /\ ps[w] \in Seq(PeriodType) /\ qs[w] \in Seq(PeriodType)
  BY DEF From
<1> QED
  BY <1>1, GrownTwice

\* The days the period did not have.
LEMMA UnpaidType ==
  ASSUME PeriodsAssumption, NEW s \in Seq(PeriodType), NEW b \in DOMAIN s, NEW n \in Nat
  PROVE  Unpaid(s, b, n) \in Nat
<1> DEFINE x == s[b].ends - Shrunk(s, b, n)[b].ends
           d == x \div Day
<1>1. x \in Nat
  <2> DEFINE e == Shrunk(s, b, n)[b].ends
  <2>1. LessIn(s, Shrunk(s, b, n), b, n)
    BY ShrunkIs
  <2>2. e = Above(s[b].ends - n * Day, s[b].starts)
    BY <2>1 DEF LessIn
  <2>3. s[b].starts \in Nat /\ s[b].ends \in Nat /\ s[b].starts <= s[b].ends
    BY ListFields
  <2>4. n * Day \in Nat
    BY DaysType
  <2> HIDE DEF e
  <2>5. e \in Nat /\ e <= s[b].ends
    BY <2>2, <2>3, <2>4, SMTT(30) DEF Above
  <2>6. s[b].ends - e \in Nat
    BY <2>3, <2>5
  <2> QED
    BY <2>6 DEF e
<1> HIDE DEF x
<1>2. d \in Nat
  BY <1>1, DivType
<1>3. Unpaid(s, b, n) = Above(0, n - d)
  BY DEF Unpaid, x
<1> HIDE DEF d
<1> QED
  BY <1>2, <1>3 DEF Above

LEMMA OwnOK ==
  ASSUME PeriodsAssumption, PeriodsInv, NEW o \in Orders, status[o] = "paid"
  PROVE  /\ From(periods, Own(o))
         /\ Unpaid(periods[Owner[o]], bought[o], Term[o]) \in Nat
<1> DEFINE v == Owner[o]
           s == periods[v]
           b == bought[o]
           n == Term[o]
           r == Shrunk(s, b, n)
<1>1. v \in Users /\ n \in Nat
  BY DEF PeriodsAssumption
<1>2. b \in DOMAIN s
  BY DEF PeriodsInv, BoughtInv
<1>3. periods \in [Users -> Seq(PeriodType)] /\ \A w \in Users : ListOK(periods[w])
  BY InvFacts
<1>4. ListOK(s) /\ s \in Seq(PeriodType)
  BY <1>1, <1>3
<1>5. Own(o) = [periods EXCEPT ![v] = r]
  BY DEF Own
<1> HIDE DEF s, b, n
<1>6. ListOK(r) /\ Grown(s, r)
  BY <1>1, <1>2, <1>4, ShrunkOK
<1>7. Unpaid(s, b, n) \in Nat
  BY <1>1, <1>2, <1>4, UnpaidType
<1> HIDE DEF r, v
<1>8. Grown(periods[v], r) /\ ListOK(r)
  BY <1>6 DEF s
<1> DEFINE qs == [periods EXCEPT ![v] = r]
<1>9. /\ qs \in [Users -> Seq(PeriodType)]
      /\ \A w \in Users : ListOK(qs[w]) /\ Grown(periods[w], qs[w])
  BY <1>1, <1>3, <1>8, OneList
<1>10. From(periods, Own(o))
  BY <1>5, <1>9 DEF From
<1> QED
  BY <1>7, <1>10 DEF v, s, b, n

LEMMA RevokeOK ==
  ASSUME PeriodsAssumption, PeriodsInv, NEW o \in Orders, status[o] = "paid"
  PROVE  From(periods, Revoke(o)) /\ From(Own(o), Revoke(o))
<1>1. periods \in [Users -> Seq(PeriodType)] /\ From(periods, Own(o))
  BY OwnOK, InvFacts
<1> DEFINE ps == Own(o)
<1>2. ps \in [Users -> Seq(PeriodType)] /\ \A w \in Users : ListOK(ps[w])
  BY <1>1 DEF From
<1>3. CASE Revoked(o)
  <2> DEFINE v == Inviter[Owner[o]]
             s == ps[v]
             r == Taken(s, BonusDays)
             qs == [ps EXCEPT ![v] = r]
  <2>1. v \in Users
    BY <1>3 DEF Revoked, PeriodsInv, BonusInv, PeriodsAssumption
  <2>2. BonusDays \in Nat /\ now \in Nat
    BY InvFacts DEF PeriodsAssumption
  <2>3. Revoke(o) = qs
    BY <1>3 DEF Revoke
  <2> HIDE DEF v, ps
  <2>4. ListOK(s)
    BY <1>2, <2>1
  <2> HIDE DEF s
  <2>5. ListOK(r) /\ Grown(s, r)
    BY <2>2, <2>4, TakenOK
  <2> HIDE DEF r
  <2>6. ListOK(r) /\ Grown(ps[v], r)
    BY <2>5 DEF s
  <2>7. /\ qs \in [Users -> Seq(PeriodType)]
        /\ \A w \in Users : ListOK(qs[w]) /\ Grown(ps[w], qs[w])
    BY <1>2, <2>1, <2>6, OneList
  <2>8. From(ps, Revoke(o))
    BY <2>3, <2>7 DEF From
  <2> QED
    BY <1>1, <2>8, FromTwice DEF ps
<1>4. CASE ~Revoked(o)
  <2>1. Revoke(o) = Own(o)
    BY <1>4 DEF Revoke
  <2>2. \A w \in Users : Grown(ps[w], ps[w])
    BY <1>2, ListFields DEF Grown
  <2>3. From(ps, ps)
    BY <1>2, <2>2 DEF From
  <2> QED
    BY <1>1, <2>1, <2>3
<1> QED
  BY <1>3, <1>4

LEMMA ClawedOK ==
  ASSUME PeriodsAssumption, PeriodsInv, NEW o \in Orders, status[o] = "paid"
  PROVE  /\ ClawOK(Revoke(o), Claw(o))
         /\ From(Revoke(o), Claw(o).periods) /\ From(periods, Claw(o).periods)
<1> DEFINE all == Revoke(o)
           v == Owner[o]
           n == Unpaid(periods[Owner[o]], bought[o], Term[o])
<1>1. From(periods, all)
  BY RevokeOK
<1>2. n \in Int
  BY OwnOK
<1>3. periods \in [Users -> Seq(PeriodType)] /\ now \in Nat /\ transfers \in Seq(TransferType)
  BY InvFacts
<1>4. Claw(o) = ClawBack(all, v, n)
  BY DEF Claw
<1> HIDE DEF all, v, n
<1>5. all \in [Users -> Seq(PeriodType)] /\ \A w \in Users : ListOK(all[w])
  BY <1>1 DEF From
<1>6. ClawOK(all, ClawBack(all, v, n))
  BY <1>2, <1>3, <1>5, ClawBackOK
<1>7. From(all, Claw(o).periods)
  BY <1>4, <1>6 DEF ClawOK, From
<1>8. From(periods, Claw(o).periods)
  BY <1>1, <1>3, <1>7, FromTwice
<1> QED
  BY <1>4, <1>6, <1>7, <1>8 DEF all

LEMMA RefundInv ==
  ASSUME PeriodsAssumption, PeriodsInv, NEW o \in Orders, Refund(o)
  PROVE  ListsGrow /\ PeriodsInv'
<1>1. /\ status[o] = "paid"
      /\ status' = [status EXCEPT ![o] = "refunded"]
      /\ periods' = Claw(o).periods
      /\ transfers' = Claw(o).transfers
      /\ bonus' = [bonus EXCEPT ![Owner[o]] = CASE @ = "claimed" -> "late"
                                                [] @ = "granted" -> "revoked"
                                                [] OTHER -> @]
      /\ exact' \subseteq exact
      /\ UNCHANGED <<now, frozen, pauses, bought, gifts>>
  BY DEF Refund, Own, Revoked, Revoke, Claw
<1>2. ListsGrow
  BY <1>1, ClawedOK DEF ListsGrow, From
<1>3. transfers' \in Seq(TransferType)
  BY <1>1, ClawedOK DEF ClawOK
<1>4. /\ bonus' \in [Users -> {"none", "claimed", "granted", "revoked", "late"}]
      /\ \A w \in Users : bonus'[w] # "none" => Inviter[w] \in Users
  BY <1>1 DEF PeriodsInv, TypeOK, BonusInv
<1>5. /\ status' \in [Orders -> {"pending", "paid", "refunded"}]
      /\ \A q \in Orders : status[q] = "pending" <=> status'[q] = "pending"
  BY <1>1 DEF PeriodsInv, TypeOK
<1>6. TypeOK'
  <2>1. \A q \in Orders : IF status'[q] = "pending" THEN bought'[q] = 0
                          ELSE bought'[q] \in DOMAIN periods'[Owner[q]]
    <3> TAKE q \in Orders
    <3> DEFINE s == periods[Owner[q]]
               r == periods'[Owner[q]]
    <3>1. Owner[q] \in Users
      BY DEF PeriodsAssumption
    <3>2. IF status[q] = "pending" THEN bought[q] = 0 ELSE bought[q] \in DOMAIN s
      BY DEF PeriodsInv, BoughtInv
    <3>3. s \in Seq(PeriodType) /\ r \in Seq(PeriodType) /\ Grown(s, r)
      BY <1>2, <3>1, InvFacts DEF ListsGrow
    <3>4. (status'[q] = "pending" <=> status[q] = "pending") /\ bought' = bought
      BY <1>1, <1>5
    <3> HIDE DEF s, r
    <3>5. /\ DOMAIN s = 1 .. Len(s) /\ DOMAIN r = 1 .. Len(r)
          /\ Len(s) \in Nat /\ Len(r) \in Nat
      BY <3>3, ListFields
    <3>6. IF status'[q] = "pending" THEN bought'[q] = 0 ELSE bought'[q] \in DOMAIN r
      BY <3>2, <3>3, <3>4, <3>5 DEF Grown
    <3> QED
      BY <3>6 DEF r
  <2>2. /\ now' = now /\ frozen' = frozen /\ pauses' = pauses /\ bought' = bought
        /\ gifts' = gifts /\ exact' \subseteq exact
    BY <1>1
  <2> QED
    BY <1>2, <1>3, <1>4, <1>5, <2>1, <2>2 DEF PeriodsInv, TypeOK, ListsGrow, TransferType
<1> QED
  BY <1>1, <1>2, <1>4, <1>5, <1>6, KeptInv

--------------------------------------------------------------------------------
(* The theorems                                                            *)

LEMMA NextInv ==
  ASSUME PeriodsAssumption, PeriodsInv, [Next]_vars
  PROVE  ListsGrow /\ PeriodsInv'
<1>1. CASE Tick
  BY <1>1, TickInv
<1>2. ASSUME NEW o \in Orders, Refund(o)
      PROVE  ListsGrow /\ PeriodsInv'
  BY <1>2, RefundInv
<1>3. ASSUME NEW o \in Orders, NEW plan \in Plans, Fulfil(o, plan)
      PROVE  ListsGrow /\ PeriodsInv'
  BY <1>3, FulfilInv
<1>4. ASSUME NEW u \in Users, Freeze(u)
      PROVE  ListsGrow /\ PeriodsInv'
  BY <1>4, FreezeInv
<1>5. ASSUME NEW u \in Users, Resume(u)
      PROVE  ListsGrow /\ PeriodsInv'
  BY <1>5, ResumeInv
<1>6. ASSUME NEW u \in Users, ClaimBonus(u)
      PROVE  ListsGrow /\ PeriodsInv'
  BY <1>6, ClaimInv
<1>7. ASSUME NEW u \in Users, GrantBonus(u)
      PROVE  ListsGrow /\ PeriodsInv'
  BY <1>7, GrantBonusInv
<1>8. ASSUME NEW u \in Users, LoseBonus(u)
      PROVE  ListsGrow /\ PeriodsInv'
  BY <1>8, LoseBonusInv
<1>9. ASSUME NEW u \in Users, NEW n \in GiftDays, Give(u, n)
      PROVE  ListsGrow /\ PeriodsInv'
  BY <1>9, GiveInv
<1>10. ASSUME NEW u \in Users, NEW v \in Users, NEW n \in DayCounts, Transfer(u, v, n)
       PROVE  ListsGrow /\ PeriodsInv'
  BY <1>10, TransferInv
<1>11. CASE UNCHANGED vars
  BY <1>11, StutterInv
<1> QED
  BY <1>1, <1>2, <1>3, <1>4, <1>5, <1>6, <1>7, <1>8, <1>9, <1>10, <1>11 DEF Next

\* The lists of all accounts stay in order, and every fulfilled order has its
\* period, whatever purchases, gifts, transfers, refunds, pauses and the bonus
\* make of them.
THEOREM InvariantCorrect == Spec => []PeriodsInv
<1>1. Init => PeriodsInv
  BY InvInit, PeriodsAssumption
<1>2. PeriodsInv /\ [Next]_vars => PeriodsInv'
  BY NextInv, PeriodsAssumption
<1> QED
  BY <1>1, <1>2, PTL DEF Spec

\* Every variable keeps its type: a period never ends before it starts, and an
\* order's subscription_id names a period of its account.
THEOREM TypeCorrect == Spec => []TypeOK
<1>1. PeriodsInv => TypeOK
  BY DEF PeriodsInv
<1> QED
  BY <1>1, InvariantCorrect, PTL

\* No two periods of an account run at the same time.
THEOREM NoOverlapCorrect == Spec => []NoOverlap
<1>1. PeriodsInv => NoOverlap
  BY DEF PeriodsInv, ListInv, ListOK, Apart, NoOverlap
<1> QED
  BY <1>1, InvariantCorrect, PTL

--------------------------------------------------------------------------------
(* A pause keeps the days                                                  *)

\* What a period has left after the pause is what it had when it began.
LEMMA AfterRest ==
  ASSUME NEW s \in Seq(PeriodType), NEW at \in Nat, NEW n \in Nat, NEW i \in Kept(s)
  PROVE  Rest(After(s, at, n)[i], at + n) = Rest(s[i], at)
<1> DEFINE q == After(s, at, n)[i]
           p == s[i]
<1>1. i \in DOMAIN s /\ ~s[i].off
  BY DEF Kept
<1>2. /\ q.ends = IF p.ends <= at THEN p.ends ELSE p.ends + n
      /\ q.starts = IF p.ends <= at \/ p.starts <= at THEN p.starts ELSE p.starts + n
  BY <1>1, AfterIs
<1>3. p.starts \in Nat /\ p.ends \in Nat /\ p.starts <= p.ends
  BY <1>1, ListFields
<1> HIDE DEF p, q
<1>4. Rest(q, at + n) = Rest(p, at)
  BY <1>2, <1>3 DEF Rest, Above
<1> QED
  BY <1>4 DEF p, q

LEMMA AfterTotal ==
  ASSUME NEW s \in Seq(PeriodType), NEW at \in Nat, NEW n \in Nat, NEW I \in SUBSET Kept(s)
  PROVE  Total(After(s, at, n), I, at + n) = Total(s, I, at)
<1> DEFINE r == After(s, at, n)
           f == Rests(s, at)
           g == Rests(r, at + n)
<1>1. r \in Seq(PeriodType) /\ DOMAIN r = DOMAIN s
  BY AfterIs
<1>2. I \in SUBSET (DOMAIN s) /\ at \in Int /\ at + n \in Int
  BY DEF Kept
<1>3. IsFiniteSet(I)
  BY <1>2, TotalType
<1>4. \A i \in I : Rest(r[i], at + n) = Rest(s[i], at)
  BY AfterRest
<1> HIDE DEF r
<1>5. \A i \in I : f[i] = Rest(s[i], at) /\ f[i] \in Nat
  BY <1>2, RestsType
<1>6. \A i \in I : g[i] = Rest(r[i], at + n)
  BY <1>1, <1>2 DEF Rests
<1> HIDE DEF f, g
<1>7. \A i \in I : f[i] \in Nat /\ f[i] = g[i]
  BY <1>4, <1>5, <1>6
<1>8. SumFunctionOnSet(f, I) = SumFunctionOnSet(g, I)
  BY <1>3, <1>7, SumSame
<1> QED
  BY <1>8 DEF Total, f, g, r

LEMMA AfterKept ==
  ASSUME NEW s \in Seq(PeriodType), NEW at \in Nat, NEW n \in Nat
  PROVE  Kept(After(s, at, n)) = Kept(s)
<1> DEFINE r == After(s, at, n)
<1>1. DOMAIN r = DOMAIN s /\ \A i \in DOMAIN s : r[i].off = s[i].off
  BY AfterIs
<1> HIDE DEF r
<1>2. Kept(r) = Kept(s)
  BY <1>1 DEF Kept
<1> QED
  BY <1>2 DEF r

\* The end of a pause: it gives every period the time it stood still, unless
\* the pause was too short.
LEMMA ResumeClock ==
  ASSUME PeriodsInv, NEW u \in Users, Resume(u)
  PROVE  /\ Clock(u) = frozen[u] /\ Clock(u)' = now
         /\ Clock(u) \in Nat /\ now - Clock(u) \in Nat
         /\ periods'[u] = IF now - Clock(u) >= MinPause
                           THEN After(periods[u], Clock(u), now - Clock(u))
                           ELSE periods[u]
         /\ \A w \in Users : w # u => periods'[w] = periods[w] /\ Clock(w)' = Clock(w)
<1>1. /\ frozen[u] \in Nat /\ frozen[u] <= now /\ now - frozen[u] \in Nat
      /\ IF now - frozen[u] >= MinPause
           THEN periods' = [periods EXCEPT ![u] =
                              After(periods[u], frozen[u], now - frozen[u])]
           ELSE periods' = periods
      /\ frozen' = [frozen EXCEPT ![u] = NoTime]
  BY ResumeList
<1>2. Clock(u) = frozen[u]
  BY <1>1 DEF Clock, NoTime
<1>3. frozen'[u] = NoTime /\ now' = now /\ \A w \in Users : w # u => frozen'[w] = frozen[w]
  BY <1>1 DEF Resume, PeriodsInv, TypeOK
<1>4. Clock(u)' = now /\ \A w \in Users : w # u => Clock(w)' = Clock(w)
  BY <1>3 DEF Clock
<1>5. /\ periods'[u] = IF now - frozen[u] >= MinPause
                        THEN After(periods[u], frozen[u], now - frozen[u])
                        ELSE periods[u]
      /\ \A w \in Users : w # u => periods'[w] = periods[w]
  <2>1. CASE now - frozen[u] >= MinPause
    BY <1>1, <2>1, InvFacts
  <2>2. CASE ~(now - frozen[u] >= MinPause)
    BY <1>1, <2>2
  <2> QED
    BY <2>1, <2>2
<1> QED
  BY <1>1, <1>2, <1>4, <1>5

LEMMA FreezeClock ==
  ASSUME PeriodsInv, NEW u \in Users, Freeze(u)
  PROVE  \A w \in Users : Clock(w)' = Clock(w)
<1>1. /\ frozen[u] = NoTime /\ frozen' = [frozen EXCEPT ![u] = now] /\ now' = now
      /\ frozen \in [Users -> {NoTime} \union 0 .. now] /\ now \in Nat
  BY DEF Freeze, PeriodsInv, TypeOK
<1> QED
  BY <1>1 DEF Clock, NoTime

LEMMA FreezeKeeps ==
  ASSUME PeriodsInv, NEW u \in Users, Freeze(u)
  PROVE  \A w \in Users : Ahead(w)' = Ahead(w)
<1>1. periods' = periods /\ \A w \in Users : Clock(w)' = Clock(w)
  BY FreezeClock DEF Freeze
<1> QED
  BY <1>1 DEF Ahead
================================================================================
