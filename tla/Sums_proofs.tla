------------------------------ MODULE Sums_proofs ------------------------------
(***************************************************************************)
(* What the sums of the models add up to.  A sum over a finite set is a    *)
(* fold in an order nobody chose; here it is shown to be the number of its *)
(* units, and with that to be what one expects of a sum.                   *)
(***************************************************************************)
EXTENDS Functions, FiniteSetTheorems, TLAPS

\* Induction over the subsets of a finite set.  P is the set of the subsets
\* that have the property.
LEMMA SubsetInduction ==
  ASSUME NEW S, IsFiniteSet(S), NEW P \in SUBSET (SUBSET S), {} \in P,
         \A T \in SUBSET S : T # {} /\ (\A x \in T : T \ {x} \in P) => T \in P
  PROVE  \A T \in SUBSET S : T \in P
<1> DEFINE Bad == (SUBSET S) \ P
<1> SUFFICES ASSUME Bad # {} PROVE FALSE
  OBVIOUS
<1>1. IsWellFoundedOn(StrictSubsetOrdering(S), SUBSET S)
  <2>1. FiniteSubsetsOf(S) = SUBSET S
    BY FS_FiniteSubsetsOfFinite
  <2>2. IsWellFoundedOn(StrictSubsetOrdering(S), FiniteSubsetsOf(S))
    BY FS_StrictSubsetOrderingWellFounded
  <2> QED
    BY <2>1, <2>2
<1>2. PICK T \in Bad : \A U \in Bad : <<U, T>> \notin StrictSubsetOrdering(S)
  <2> HIDE DEF Bad
  <2>1. Bad \subseteq SUBSET S
    BY DEF Bad
  <2> QED
    BY <1>1, <2>1, WFMin
<1>3. \A x \in T : T \ {x} \in P
  <2> TAKE x \in T
  <2>1. <<T \ {x}, T>> \in StrictSubsetOrdering(S)
    BY DEF StrictSubsetOrdering
  <2> QED
    BY <1>2, <2>1
<1> QED
  BY <1>2, <1>3

\* Induction up to a number, with the set of the numbers that have the property.
LEMMA UpTo ==
  ASSUME NEW N \in Nat, NEW P, 0 \in P, \A m \in 0 .. N : m \in P /\ m < N => m + 1 \in P
  PROVE  \A m \in 0 .. N : m \in P
<1> DEFINE Bad == {m \in 0 .. N : m \notin P}
<1> SUFFICES ASSUME Bad # {} PROVE FALSE
  OBVIOUS
<1>1. PICK m \in Bad : \A k \in Bad : <<k, m>> \notin OpToRel(<, Nat)
  <2>1. Bad \subseteq Nat
    OBVIOUS
  <2> HIDE DEF Bad
  <2> QED
    BY <2>1, NatLessThanWellFounded, WFMin
<1>2. m # 0 /\ m \in 1 .. N
  OBVIOUS
<1>3. m - 1 \notin Bad
  <2>1. m - 1 \in Nat /\ m \in Nat /\ m - 1 < m
    BY <1>2
  <2>2. <<m - 1, m>> \in OpToRel(<, Nat)
    BY <2>1 DEF OpToRel
  <2> QED
    BY <1>1, <2>2
<1>4. m - 1 \in P /\ m - 1 \in 0 .. N /\ m - 1 < N /\ (m - 1) + 1 = m
  BY <1>2, <1>3
<1> QED
  BY <1>4

LEMMA ImageFinite ==
  ASSUME NEW I, IsFiniteSet(I), NEW f
  PROVE  IsFiniteSet({f[i] : i \in I})
<1> DEFINE T == {f[i] : i \in I}
           g == [i \in I |-> f[i]]
<1>1. g \in Surjection(I, T)
  BY DEF Surjection
<1> HIDE DEF g, T
<1>2. IsFiniteSet(T)
  BY <1>1, FS_Surjection
<1> QED
  BY <1>2 DEF T

\* Among finitely many numbers one is the largest.
LEMMA Largest ==
  ASSUME NEW I, IsFiniteSet(I), I # {}, NEW f, \A i \in I : f[i] \in Int
  PROVE  \E i \in I : \A j \in I : f[j] <= f[i]
<1> DEFINE P == {T \in SUBSET I : T = {} \/ \E i \in T : \A j \in T : f[j] <= f[i]}
<1>1. {} \in P
  OBVIOUS
<1>2. ASSUME NEW T \in SUBSET I, T # {}, \A x \in T : T \ {x} \in P
      PROVE  T \in P
  <2>1. PICK x \in T : TRUE
    BY <1>2
  <2>2. T \ {x} = {} \/ \E i \in T \ {x} : \A j \in T \ {x} : f[j] <= f[i]
    BY <1>2
  <2>3. CASE T \ {x} = {}
    <3>1. \A j \in T : j = x /\ f[j] <= f[x]
      BY <2>3
    <3> QED
      BY <2>1, <3>1
  <2>4. ASSUME NEW i \in T \ {x}, \A j \in T \ {x} : f[j] <= f[i]
        PROVE  T \in P
    <3>1. CASE f[x] <= f[i]
      <4>1. \A j \in T : f[j] <= f[i]
        BY <2>4, <3>1
      <4> QED
        BY <4>1
    <3>2. CASE f[i] <= f[x]
      <4>1. \A j \in T : f[j] <= f[x]
        BY <2>4, <3>2
      <4> QED
        BY <4>1
    <3> QED
      BY <3>1, <3>2
  <2> QED
    BY <2>2, <2>3, <2>4
<1>3. P \in SUBSET (SUBSET I)
  OBVIOUS
<1> HIDE DEF P
<1>4. I \in P
  BY <1>1, <1>2, <1>3, SubsetInduction
<1> QED
  BY <1>4 DEF P

--------------------------------------------------------------------------------
(* A sum counts units                                                      *)

\* n units of x, and the units of f on I.
Span(x, n) == {x} \X (0 .. (n - 1))
Units(f, I) == {u \in I \X Nat : u[2] < f[u[1]]}

LEMMA SpanSize ==
  ASSUME NEW x, NEW n \in Nat
  PROVE  IsFiniteSet(Span(x, n)) /\ Cardinality(Span(x, n)) = n
<1>1. n - 1 \in Int /\ (0 > n - 1 => n = 0) /\ (n - 1) - 0 + 1 = n
  OBVIOUS
<1>2. IsFiniteSet(0 .. (n - 1))
  BY <1>1, FS_Interval
<1>3. Cardinality(0 .. (n - 1)) = IF 0 > n - 1 THEN 0 ELSE (n - 1) - 0 + 1
  BY <1>1, FS_Interval
<1>4. Cardinality(0 .. (n - 1)) = n
  BY <1>1, <1>3
<1>5. IsFiniteSet({x}) /\ Cardinality({x}) = 1
  BY FS_Singleton
<1>6. IsFiniteSet(Span(x, n)) /\ Cardinality(Span(x, n)) = 1 * n
  BY <1>2, <1>4, <1>5, FS_Product DEF Span
<1> QED
  BY <1>6

\* The units of one element stand beside those of the others.
LEMMA UnitsAdd ==
  ASSUME NEW f, NEW I, NEW x \in I, f[x] \in Nat, IsFiniteSet(Units(f, I \ {x}))
  PROVE  /\ IsFiniteSet(Units(f, I))
         /\ Cardinality(Units(f, I)) = f[x] + Cardinality(Units(f, I \ {x}))
<1>1. Units(f, I) = Units(f, I \ {x}) \union Span(x, f[x])
  BY DEF Units, Span
<1>2. Units(f, I \ {x}) \intersect Span(x, f[x]) = {}
  BY DEF Units, Span
<1>3. IsFiniteSet(Span(x, f[x])) /\ Cardinality(Span(x, f[x])) = f[x]
  BY SpanSize
<1>4. /\ IsFiniteSet(Units(f, I))
      /\ Cardinality(Units(f, I))
           = Cardinality(Units(f, I \ {x})) + f[x]
               - Cardinality(Units(f, I \ {x}) \intersect Span(x, f[x]))
  BY <1>1, <1>3, FS_Union
<1>5. Cardinality(Units(f, I \ {x}) \intersect Span(x, f[x])) = 0
  BY <1>2, FS_EmptySet
<1>6. Cardinality(Units(f, I \ {x})) \in Nat
  BY FS_CardinalityType
<1> QED
  BY <1>4, <1>5, <1>6

LEMMA UnitsEmpty ==
  ASSUME NEW f
  PROVE  IsFiniteSet(Units(f, {})) /\ Cardinality(Units(f, {})) = 0
<1>1. Units(f, {}) = {}
  BY DEF Units
<1> QED
  BY <1>1, FS_EmptySet

LEMMA UnitsFinite ==
  ASSUME NEW f, NEW I, IsFiniteSet(I), \A i \in I : f[i] \in Nat
  PROVE  IsFiniteSet(Units(f, I))
<1> DEFINE P == {T \in SUBSET I : IsFiniteSet(Units(f, T))}
<1>1. {} \in P
  BY UnitsEmpty
<1>2. ASSUME NEW T \in SUBSET I, T # {}, \A x \in T : T \ {x} \in P
      PROVE  T \in P
  <2>1. PICK x \in T : TRUE
    BY <1>2
  <2>2. IsFiniteSet(Units(f, T \ {x})) /\ f[x] \in Nat
    BY <1>2
  <2> QED
    BY <2>2, UnitsAdd
<1>3. P \in SUBSET (SUBSET I)
  OBVIOUS
<1> HIDE DEF P
<1>4. I \in P
  BY <1>1, <1>2, <1>3, SubsetInduction
<1> QED
  BY <1>4 DEF P

\* The sum of f on I is the number of its units.
LEMMA SumCountsUnits ==
  ASSUME NEW f, NEW I, IsFiniteSet(I), \A i \in I : f[i] \in Nat
  PROVE  /\ IsFiniteSet(Units(f, I))
         /\ SumFunctionOnSet(f, I) = Cardinality(Units(f, I))
<1> DEFINE ch(s) == CHOOSE x \in s : TRUE
           F(g) == [s \in SUBSET I |-> IF s = {} THEN 0 ELSE f[ch(s)] + g[s \ {ch(s)}]]
           card == [s \in SUBSET I |-> Cardinality(Units(f, s))]
<1>1. SumFunctionOnSet(f, I) = (CHOOSE g : g = F(g))[I]
  BY DEF SumFunctionOnSet, FoldFunctionOnSet, MapThenFoldSet
<1>2. \A s \in SUBSET I : IsFiniteSet(Units(f, s))
  BY FS_Subset, UnitsFinite
<1>3. ASSUME NEW s \in SUBSET I, s # {}
      PROVE  /\ ch(s) \in s
             /\ Cardinality(Units(f, s)) = f[ch(s)] + Cardinality(Units(f, s \ {ch(s)}))
  <2>1. ch(s) \in s
    BY <1>3
  <2> HIDE DEF ch
  <2>2. f[ch(s)] \in Nat /\ s \ {ch(s)} \in SUBSET I
    BY <2>1
  <2>3. IsFiniteSet(Units(f, s \ {ch(s)}))
    BY <1>2, <2>2
  <2> QED
    BY <2>1, <2>2, <2>3, UnitsAdd
<1>4. card = F(card)
  <2> HIDE DEF ch
  <2> SUFFICES ASSUME NEW s \in SUBSET I
               PROVE  card[s] = IF s = {} THEN 0 ELSE f[ch(s)] + card[s \ {ch(s)}]
    OBVIOUS
  <2>1. CASE s = {}
    BY <2>1, UnitsEmpty
  <2>2. CASE s # {}
    BY <2>2, <1>3
  <2> QED
    BY <2>1, <2>2
<1>5. PICK g : g = F(g) /\ SumFunctionOnSet(f, I) = g[I]
  <2> HIDE DEF F, card
  <2> QED
    BY <1>1, <1>4
<1> DEFINE P == {s \in SUBSET I : g[s] = Cardinality(Units(f, s))}
<1>6. {} \in P
  BY <1>5, UnitsEmpty
<1>7. ASSUME NEW T \in SUBSET I, T # {}, \A x \in T : T \ {x} \in P
      PROVE  T \in P
  <2>1. g[T] = f[ch(T)] + g[T \ {ch(T)}]
    BY <1>5, <1>7
  <2> HIDE DEF ch
  <2>2. ch(T) \in T /\ Cardinality(Units(f, T)) = f[ch(T)] + Cardinality(Units(f, T \ {ch(T)}))
    BY <1>3, <1>7
  <2>3. g[T \ {ch(T)}] = Cardinality(Units(f, T \ {ch(T)}))
    BY <1>7, <2>2
  <2> QED
    BY <2>1, <2>2, <2>3
<1>8. P \in SUBSET (SUBSET I)
  OBVIOUS
<1>9. I \in P
  <2> HIDE DEF P
  <2> QED
    BY <1>6, <1>7, <1>8, SubsetInduction
<1> QED
  BY <1>2, <1>5, <1>9
--------------------------------------------------------------------------------
(* The laws of sums                                                        *)

LEMMA SumType ==
  ASSUME NEW f, NEW I, IsFiniteSet(I), \A i \in I : f[i] \in Nat
  PROVE  SumFunctionOnSet(f, I) \in Nat
BY SumCountsUnits, FS_CardinalityType

LEMMA SumEmpty ==
  ASSUME NEW f
  PROVE  SumFunctionOnSet(f, {}) = 0
<1>1. IsFiniteSet({})
  BY FS_EmptySet
<1> QED
  BY <1>1, SumCountsUnits, UnitsEmpty

\* One element is a summand of its own.
LEMMA SumAdd ==
  ASSUME NEW f, NEW I, IsFiniteSet(I), \A i \in I : f[i] \in Nat, NEW x \in I
  PROVE  SumFunctionOnSet(f, I) = f[x] + SumFunctionOnSet(f, I \ {x})
<1>1. IsFiniteSet(I \ {x}) /\ \A i \in I \ {x} : f[i] \in Nat
  BY FS_RemoveElement
<1>2. /\ IsFiniteSet(Units(f, I \ {x}))
      /\ SumFunctionOnSet(f, I \ {x}) = Cardinality(Units(f, I \ {x}))
  BY <1>1, SumCountsUnits
<1>3. Cardinality(Units(f, I)) = f[x] + Cardinality(Units(f, I \ {x}))
  BY <1>2, UnitsAdd
<1> QED
  BY <1>2, <1>3, SumCountsUnits

LEMMA SumSingle ==
  ASSUME NEW f, NEW x, f[x] \in Nat
  PROVE  SumFunctionOnSet(f, {x}) = f[x]
<1>1. IsFiniteSet({x}) /\ {x} \ {x} = {}
  BY FS_Singleton
<1>2. SumFunctionOnSet(f, {x}) = f[x] + SumFunctionOnSet(f, {})
  BY <1>1, SumAdd
<1> QED
  BY <1>2, SumEmpty

\* Functions that agree on a set have the same sum there.
LEMMA SumSame ==
  ASSUME NEW f, NEW g, NEW I, IsFiniteSet(I), \A i \in I : f[i] \in Nat,
         \A i \in I : f[i] = g[i]
  PROVE  SumFunctionOnSet(f, I) = SumFunctionOnSet(g, I)
<1>1. Units(f, I) = Units(g, I)
  BY DEF Units
<1> QED
  BY <1>1, SumCountsUnits

\* Sums over disjoint sets add up.
LEMMA SumUnion ==
  ASSUME NEW f, NEW I, NEW J, IsFiniteSet(I), IsFiniteSet(J), I \intersect J = {},
         \A i \in I \union J : f[i] \in Nat
  PROVE  SumFunctionOnSet(f, I \union J) = SumFunctionOnSet(f, I) + SumFunctionOnSet(f, J)
<1>1. Units(f, I \union J) = Units(f, I) \union Units(f, J)
  BY DEF Units
<1>2. Units(f, I) \intersect Units(f, J) = {}
  BY DEF Units
<1>3. /\ IsFiniteSet(Units(f, I)) /\ SumFunctionOnSet(f, I) = Cardinality(Units(f, I))
      /\ IsFiniteSet(Units(f, J)) /\ SumFunctionOnSet(f, J) = Cardinality(Units(f, J))
  BY SumCountsUnits
<1>4. IsFiniteSet(I \union J)
  BY FS_Union
<1>5. SumFunctionOnSet(f, I \union J) = Cardinality(Units(f, I \union J))
  BY <1>4, SumCountsUnits
<1>6. Cardinality(Units(f, I \union J))
        = Cardinality(Units(f, I)) + Cardinality(Units(f, J))
            - Cardinality(Units(f, I) \intersect Units(f, J))
  BY <1>1, <1>3, FS_Union
<1>7. /\ Cardinality(Units(f, I) \intersect Units(f, J)) = 0
      /\ Cardinality(Units(f, I)) \in Nat /\ Cardinality(Units(f, J)) \in Nat
  BY <1>2, <1>3, FS_EmptySet, FS_CardinalityType
<1> QED
  BY <1>3, <1>5, <1>6, <1>7

\* What holds nothing adds nothing.
LEMMA SumZero ==
  ASSUME NEW f, NEW I, IsFiniteSet(I), \A i \in I : f[i] = 0
  PROVE  SumFunctionOnSet(f, I) = 0
<1>1. Units(f, I) = {}
  BY DEF Units
<1>2. Cardinality(Units(f, I)) = 0
  BY <1>1, FS_EmptySet
<1> QED
  BY <1>2, SumCountsUnits

LEMMA SumSupport ==
  ASSUME NEW f, NEW I, NEW J \in SUBSET I, IsFiniteSet(I), \A i \in I : f[i] \in Nat,
         \A i \in I \ J : f[i] = 0
  PROVE  SumFunctionOnSet(f, I) = SumFunctionOnSet(f, J)
<1>1. IsFiniteSet(J) /\ IsFiniteSet(I \ J)
  BY FS_Subset
<1>2. J \union (I \ J) = I /\ J \intersect (I \ J) = {}
  OBVIOUS
<1>3. SumFunctionOnSet(f, J \union (I \ J)) = SumFunctionOnSet(f, J) + SumFunctionOnSet(f, I \ J)
  BY <1>1, <1>2, SumUnion
<1>4. SumFunctionOnSet(f, I \ J) = 0 /\ SumFunctionOnSet(f, J) \in Nat
  BY <1>1, SumZero, SumType
<1>5. SumFunctionOnSet(f, I) = SumFunctionOnSet(f, J \union (I \ J))
  BY <1>2, Zenon
<1> QED
  BY <1>3, <1>4, <1>5

\* A sum grows with its summands and with the set it is over.
LEMMA SumGrows ==
  ASSUME NEW f, NEW g, NEW I, NEW J \in SUBSET I, IsFiniteSet(I),
         \A i \in I : f[i] \in Nat /\ g[i] \in Nat,
         \A i \in J : f[i] <= g[i]
  PROVE  SumFunctionOnSet(f, J) <= SumFunctionOnSet(g, I)
<1>1. Units(f, J) \subseteq Units(g, I)
  <2> SUFFICES ASSUME NEW u \in J \X Nat, u[2] < f[u[1]]
               PROVE  u \in I \X Nat /\ u[2] < g[u[1]]
    BY DEF Units
  <2>1. f[u[1]] \in Nat /\ g[u[1]] \in Nat /\ f[u[1]] <= g[u[1]]
    OBVIOUS
  <2> QED
    BY <2>1
<1>2. IsFiniteSet(J)
  BY FS_Subset
<1>3. /\ SumFunctionOnSet(f, J) = Cardinality(Units(f, J))
      /\ SumFunctionOnSet(g, I) = Cardinality(Units(g, I))
      /\ IsFiniteSet(Units(g, I))
  BY <1>2, SumCountsUnits
<1>4. Cardinality(Units(f, J)) <= Cardinality(Units(g, I))
  BY <1>1, <1>3, FS_Subset
<1> QED
  BY <1>3, <1>4

\* The sum of the sums is the sum of the sum.
LEMMA SumPlus ==
  ASSUME NEW f, NEW g, NEW h, NEW I, IsFiniteSet(I),
         \A i \in I : f[i] \in Nat /\ g[i] \in Nat /\ h[i] = f[i] + g[i]
  PROVE  SumFunctionOnSet(h, I) = SumFunctionOnSet(f, I) + SumFunctionOnSet(g, I)
<1> DEFINE Sm(e, T) == SumFunctionOnSet(e, T)
           P == {T \in SUBSET I : Sm(h, T) = Sm(f, T) + Sm(g, T)}
<1>1. {} \in P
  BY SumEmpty
<1>2. ASSUME NEW T \in SUBSET I, T # {}, \A x \in T : T \ {x} \in P
      PROVE  T \in P
  <2>1. PICK x \in T : TRUE
    BY <1>2
  <2>2. IsFiniteSet(T) /\ IsFiniteSet(T \ {x})
    BY FS_Subset
  <2>3. /\ Sm(h, T) = h[x] + Sm(h, T \ {x})
        /\ Sm(f, T) = f[x] + Sm(f, T \ {x})
        /\ Sm(g, T) = g[x] + Sm(g, T \ {x})
    BY <2>2, SumAdd
  <2>4. Sm(f, T \ {x}) \in Nat /\ Sm(g, T \ {x}) \in Nat
    BY <2>2, SumType
  <2>5. Sm(h, T \ {x}) = Sm(f, T \ {x}) + Sm(g, T \ {x})
    BY <1>2
  <2>6. f[x] \in Nat /\ g[x] \in Nat /\ h[x] = f[x] + g[x]
    OBVIOUS
  <2>7. Sm(h, T) = Sm(f, T) + Sm(g, T)
    <3> HIDE DEF Sm
    <3> QED
      BY <2>3, <2>4, <2>5, <2>6
  <2> QED
    BY <2>7
<1>3. P \in SUBSET (SUBSET I)
  OBVIOUS
<1> HIDE DEF P
<1>4. I \in P
  BY <1>1, <1>2, <1>3, SubsetInduction
<1> QED
  BY <1>4 DEF P

\* A sum in which one summand changed.
LEMMA SumChange ==
  ASSUME NEW f, NEW g, NEW I, IsFiniteSet(I), NEW x \in I,
         \A i \in I : f[i] \in Nat /\ g[i] \in Nat,
         \A i \in I \ {x} : f[i] = g[i]
  PROVE  SumFunctionOnSet(g, I) + f[x] = SumFunctionOnSet(f, I) + g[x]
<1>1. IsFiniteSet(I \ {x})
  BY FS_RemoveElement
<1>2. SumFunctionOnSet(f, I) = f[x] + SumFunctionOnSet(f, I \ {x})
  BY SumAdd
<1>3. SumFunctionOnSet(g, I) = g[x] + SumFunctionOnSet(g, I \ {x})
  BY SumAdd
<1>4. SumFunctionOnSet(f, I \ {x}) = SumFunctionOnSet(g, I \ {x})
  BY <1>1, SumSame
<1>5. SumFunctionOnSet(f, I \ {x}) \in Nat
  BY <1>1, SumType
<1>6. f[x] \in Nat /\ g[x] \in Nat
  OBVIOUS
<1> QED
  BY <1>2, <1>3, <1>4, <1>5, <1>6
================================================================================
