--------------------------- MODULE CountingLemmas ---------------------------
(***************************************************************************)
(* Facts about finite sets, sums and sequences that the proofs of several   *)
(* components need.                                                         *)
(***************************************************************************)
EXTENDS Integers, Sequences, FiniteSets, FiniteSetTheorems, SequenceTheorems,
        TLAPS

\* A nonempty set of numbers has a least one: the form in which induction over
\* numbers is used.
LEMMA LeastNumber ==
  ASSUME NEW Bad \in SUBSET Nat, Bad # {}
  PROVE  \E n \in Bad : \A k \in Bad : n <= k
<1>. DEFINE R == {p \in Nat \X Nat : p[1] < p[2]}
<1>1. IsWellFoundedOn(R, Nat)
  BY NatLessThanWellFounded, Zenon DEF OpToRel
<1>. HIDE DEF R
<1>2. \E n \in Bad : \A k \in Bad : <<k, n>> \notin R
  BY <1>1, WFMin, Zenon
<1>3. \A k, n \in Nat : <<k, n>> \in R <=> k < n
  BY DEF R
<1>4. PICK n \in Bad : \A k \in Bad : <<k, n>> \notin R
  BY <1>2
<1>5. ASSUME NEW k \in Bad PROVE n <= k
  <2>1. <<k, n>> \notin R /\ k \in Nat /\ n \in Nat
    BY <1>4
  <2>2. ~(k < n)
    BY <2>1, <1>3
  <2>. QED
    BY <2>1, <2>2
<1>. QED
  BY <1>5

----------------------------------------------------------------------------
(* Sums, as the number of things counted, and parts of a finite set.        *)

\* What F gives for each element of S, one thing for each unit, is a finite set;
\* it is empty when F is zero throughout, and has a thing for each element
\* where F is not.
LEMMA SumCounted ==
  ASSUME NEW S, IsFiniteSet(S), NEW F \in [S -> Nat], NEW things,
         things = UNION {{x} \X (1 .. F[x]) : x \in S}
  PROVE  /\ Cardinality(things) \in Nat
         /\ Cardinality(things) > 0 <=> \E x \in S : F[x] > 0
         /\ Cardinality(things) >= Cardinality({x \in S : F[x] > 0})
<1>. DEFINE parts == {{x} \X (1 .. F[x]) : x \in S}
            some == {x \in S : F[x] > 0}
<1>1. IsFiniteSet(parts)
  <2>. DEFINE f == [x \in S |-> {x} \X (1 .. F[x])]
  <2>1. f \in Surjection(S, parts)
    BY DEF Surjection
  <2>. QED
    BY <2>1, FS_Surjection
<1>2. ASSUME NEW T \in parts PROVE IsFiniteSet(T)
  <2>1. PICK x \in S : T = {x} \X (1 .. F[x])
    OBVIOUS
  <2>2. F[x] \in Int /\ 1 \in Int
    OBVIOUS
  <2>3. IsFiniteSet({x}) /\ IsFiniteSet(1 .. F[x])
    BY <2>2, FS_Singleton, FS_Interval
  <2>. QED
    BY <2>1, <2>3, FS_Product
<1>3. IsFiniteSet(things) /\ Cardinality(things) \in Nat
  BY <1>1, <1>2, FS_UNION, FS_CardinalityType
<1>4. \A x \in S, i \in Nat : i \in 1 .. F[x] <=> <<x, i>> \in things
  OBVIOUS
<1>5. things # {} <=> \E x \in S : F[x] > 0
  <2>1. ASSUME NEW thing \in things PROVE \E x \in S : F[x] > 0
    <3>1. PICK x \in S : thing \in {x} \X (1 .. F[x])
      OBVIOUS
    <3>2. thing[2] \in 1 .. F[x] /\ F[x] \in Nat
      BY <3>1
    <3>. QED
      BY <3>2
  <2>2. ASSUME NEW x \in S, F[x] > 0 PROVE things # {}
    <3>1. F[x] \in Nat /\ 1 \in 1 .. F[x]
      BY <2>2
    <3>2. <<x, 1>> \in things
      BY <1>4, <3>1
    <3>. QED
      BY <3>2
  <2>. QED
    BY <2>1, <2>2
<1>6. Cardinality(things) > 0 <=> things # {}
  BY <1>3, FS_EmptySet
<1>7. Cardinality(some) <= Cardinality(things)
  <2>. DEFINE f == [x \in some |-> <<x, 1>>]
  <2>1. f \in Injection(some, things)
    BY <1>4 DEF Injection, IsInjective
  <2>. QED
    BY <1>3, <2>1, FS_Injection
<1>8. Cardinality(some) \in Nat
  BY FS_Subset, FS_CardinalityType
<1>. QED
  BY <1>3, <1>5, <1>6, <1>7, <1>8

Splits(S, A, B) == S = A \cup B /\ A \cap B = {}

LEMMA TwoParts ==
  ASSUME NEW S, IsFiniteSet(S), NEW A, NEW B, Splits(S, A, B)
  PROVE  /\ Cardinality(S) = Cardinality(A) + Cardinality(B)
         /\ Cardinality(A) \in Nat /\ Cardinality(B) \in Nat
<1>0. S = A \cup B /\ A \cap B = {}
  BY DEF Splits
<1>1. IsFiniteSet(A) /\ IsFiniteSet(B)
  BY <1>0, FS_Subset
<1>2. Cardinality(A \cap B) = 0
  BY <1>0, FS_EmptySet
<1>3. Cardinality(A \cup B) = Cardinality(A) + Cardinality(B) - Cardinality(A \cap B)
  BY <1>1, FS_Union
<1>4. Cardinality(A) \in Nat /\ Cardinality(B) \in Nat
  BY <1>1, FS_CardinalityType
<1>. QED
  BY <1>0, <1>2, <1>3, <1>4

----------------------------------------------------------------------------
(* A relation that is total and transitive has a first among finitely many, *)
(* several when there are ties.                                             *)

LEMMA FirstOfTotalOrder ==
  ASSUME NEW S, IsFiniteSet(S), S # {}, NEW R,
         \A x, y \in S : <<x, y>> \in R \/ <<y, x>> \in R,
         \A x, y, z \in S : <<x, y>> \in R /\ <<y, z>> \in R => <<x, z>> \in R
  PROVE  \E x \in S : \A y \in S : <<x, y>> \in R
<1>. DEFINE Ahead(x) == {y \in S : <<x, y>> \notin R}
            T == {Ahead(x) : x \in S}
<1>1. T \subseteq FiniteSubsetsOf(S) /\ T # {}
  <2>1. ASSUME NEW x \in S PROVE Ahead(x) \in SUBSET S /\ IsFiniteSet(Ahead(x))
    <3>1. Ahead(x) \subseteq S
      OBVIOUS
    <3>. HIDE DEF Ahead
    <3>. QED
      BY <3>1, FS_Subset
  <2>2. \E x \in S : Ahead(x) \in T
    OBVIOUS
  <2>3. \A A \in T : \E x \in S : A = Ahead(x)
    OBVIOUS
  <2>. HIDE DEF Ahead, T
  <2>. QED
    BY <2>1, <2>2, <2>3 DEF FiniteSubsetsOf
<1>2. IsWellFoundedOn(StrictSubsetOrdering(S), FiniteSubsetsOf(S))
  BY FS_StrictSubsetOrderingWellFounded
<1>3. \E A \in T : \A B \in T : <<B, A>> \notin StrictSubsetOrdering(S)
  <2>. HIDE DEF T
  <2>. QED
    BY <1>1, <1>2, WFMin
<1>4. PICK x \in S : \A y \in S : <<Ahead(y), Ahead(x)>> \notin StrictSubsetOrdering(S)
  <2>1. PICK A \in T : \A B \in T : <<B, A>> \notin StrictSubsetOrdering(S)
    BY <1>3
  <2>2. PICK x \in S : A = Ahead(x)
    BY <2>1
  <2>3. \A y \in S : Ahead(y) \in T
    OBVIOUS
  <2>. HIDE DEF Ahead, T
  <2>. QED
    BY <2>1, <2>2, <2>3
<1>5. ASSUME NEW y \in S, <<x, y>> \notin R PROVE FALSE
  <2>1. Ahead(y) \subseteq Ahead(x)
    BY <1>5
  <2>2. y \in Ahead(x) /\ y \notin Ahead(y)
    BY <1>5
  <2>3. <<Ahead(y), Ahead(x)>> \in (SUBSET S) \X (SUBSET S)
    OBVIOUS
  <2>. QED
    BY <1>4, <2>1, <2>2, <2>3 DEF StrictSubsetOrdering
<1>. QED
  BY <1>5

----------------------------------------------------------------------------
(* Appending to a sequence of which nothing but that it is one is known.    *)

LEMMA ASequenceGrows ==
  ASSUME NEW s, s \in Seq({s[i] : i \in DOMAIN s}), NEW e, NEW t, t = Append(s, e)
  PROVE  /\ t \in Seq({t[i] : i \in DOMAIN t})
         /\ DOMAIN t = DOMAIN s \cup {Len(s) + 1}
         /\ t[Len(s) + 1] = e
         /\ \A i \in DOMAIN s : t[i] = s[i]
         /\ Len(s) + 1 \notin DOMAIN s
<1>. DEFINE S == {s[i] : i \in DOMAIN s} \cup {e}
<1>1. s \in Seq(S) /\ e \in S
  OBVIOUS
<1>. HIDE DEF S
<1>2. /\ t \in Seq(S) /\ Len(t) = Len(s) + 1 /\ Len(s) \in Nat
      /\ \A i \in 1 .. Len(s) : t[i] = s[i]
      /\ t[Len(s) + 1] = e
      /\ DOMAIN s = 1 .. Len(s) /\ DOMAIN t = 1 .. Len(t)
  BY <1>1, AppendProperties, LenProperties
<1>3. t = [i \in 1 .. Len(t) |-> t[i]] /\ Len(t) \in Nat
  BY <1>2, LenProperties
<1>4. [i \in 1 .. Len(t) |-> t[i]] \in Seq({t[i] : i \in DOMAIN t})
  BY <1>2, <1>3, IsASeq
<1>. QED
  BY <1>2, <1>3, <1>4

----------------------------------------------------------------------------
(* Recursive functions over 0 .. N, and induction along them.                *)

\* What holds at 0 and passes from each number to the next holds up to N.
LEMMA StepByStep ==
  ASSUME NEW N \in Nat, NEW Good, 0 \in Good,
         \A n \in 1 .. N : n - 1 \in Good => n \in Good
  PROVE  \A n \in 0 .. N : n \in Good
<1>. DEFINE Bad == {n \in 0 .. N : n \notin Good}
<1>1. SUFFICES ASSUME Bad # {} PROVE FALSE
  OBVIOUS
<1>2. Bad \in SUBSET Nat
  OBVIOUS
<1>3. PICK n \in Bad : \A k \in Bad : n <= k
  <2>. HIDE DEF Bad
  <2>. QED
    BY <1>1, <1>2, LeastNumber
<1>4. n \in 1 .. N /\ n - 1 \in 0 .. N /\ n - 1 \notin Bad
  BY <1>3
<1>. QED
  BY <1>3, <1>4

\* A function defined by its value at 0 and by a step exists.
Follows(f, N, V, v, Step) ==
  /\ f \in [0 .. N -> V] /\ f[0] = v
  /\ \A n \in 1 .. N : f[n] = Step[<<f[n - 1], n>>]
StepIn(N, V, Step) == Step \in [V \X (1 .. N) -> V]

LEMMA Recursion ==
  ASSUME NEW N \in Nat, NEW V, NEW v \in V, NEW Step, StepIn(N, V, Step)
  PROVE  \E f : Follows(f, N, V, v, Step)
<1>. DEFINE Upto(m, f) == /\ f \in [0 .. m -> V] /\ f[0] = v
                          /\ \A n \in 1 .. m : f[n] = Step[<<f[n - 1], n>>]
            Good == {m \in 0 .. N : \E f : Upto(m, f)}
<1>1. 0 \in Good
  <2>. DEFINE g == [n \in 0 .. 0 |-> v]
  <2>1. g \in [0 .. 0 -> V] /\ g[0] = v
    OBVIOUS
  <2>. HIDE DEF g
  <2>2. Upto(0, g)
    BY <2>1
  <2>. HIDE DEF Upto
  <2>. QED
    BY <2>2
<1>2. ASSUME NEW m \in 1 .. N, m - 1 \in Good PROVE m \in Good
  <2>1. PICK f : Upto(m - 1, f)
    BY <1>2
  <2>2. m - 1 \in 0 .. m - 1 /\ f[m - 1] \in V /\ <<f[m - 1], m>> \in V \X (1 .. N)
    BY <2>1
  <2>. DEFINE g == [n \in 0 .. m |-> IF n = m THEN Step[<<f[m - 1], m>>] ELSE f[n]]
  <2>3. g \in [0 .. m -> V]
    BY <2>1, <2>2 DEF StepIn
  <2>4. \A n \in 0 .. m - 1 : g[n] = f[n]
    OBVIOUS
  <2>8. g[m] = Step[<<f[m - 1], m>>] /\ 0 \in 0 .. m - 1
    OBVIOUS
  <2>5. g[0] = v /\ g[m] = Step[<<g[m - 1], m>>]
    <3>. HIDE DEF g
    <3>. QED
      BY <2>1, <2>2, <2>4, <2>8
  <2>6. ASSUME NEW n \in 1 .. m - 1 PROVE g[n] = Step[<<g[n - 1], n>>]
    BY <2>1, <2>4
  <2>. HIDE DEF g
  <2>7. Upto(m, g)
    BY <2>3, <2>5, <2>6
  <2>. QED
    BY <2>7
<1>3. \A m \in 0 .. N : m \in Good
  <2>. HIDE DEF Good
  <2>. QED
    BY <1>1, <1>2, StepByStep
<1>4. PICK f : Upto(N, f)
  BY <1>3
<1>. QED
  BY <1>4 DEF Follows

----------------------------------------------------------------------------
(* The elements of a finite set in the order of a relation.                  *)

InARow(S, before) ==
  /\ \A x \in S : <<x, x>> \notin before
  /\ \A x, y \in S : x # y => <<x, y>> \in before \/ <<y, x>> \in before
  /\ \A x, y, z \in S : <<x, y>> \in before /\ <<y, z>> \in before => <<x, z>> \in before

\* The place of an element in the order is the number of those before it.
Place(S, before, x) == Cardinality({y \in S : <<y, x>> \in before})

LEMMA PlacesDiffer ==
  ASSUME NEW S, IsFiniteSet(S), NEW before, InARow(S, before)
  PROVE  /\ \A x \in S : Place(S, before, x) \in 0 .. Cardinality(S) - 1
         /\ \A n \in 1 .. Cardinality(S) : \E x \in S : Place(S, before, x) = n - 1
<1>. DEFINE Ahead(x) == {y \in S : <<y, x>> \in before}
            N == Cardinality(S)
<1>0. N \in Nat
  BY FS_CardinalityType
<1>1. ASSUME NEW x \in S
      PROVE  Ahead(x) \in SUBSET S /\ IsFiniteSet(Ahead(x)) /\ Cardinality(Ahead(x)) \in 0 .. N - 1
  <2>1. Ahead(x) \in SUBSET S /\ Ahead(x) # S
    BY DEF InARow
  <2>. HIDE DEF Ahead
  <2>2. IsFiniteSet(Ahead(x)) /\ Cardinality(Ahead(x)) <= N /\ Cardinality(Ahead(x)) # N
    BY <2>1, FS_Subset
  <2>3. Cardinality(Ahead(x)) \in Nat
    BY <2>2, FS_CardinalityType
  <2>. QED
    BY <1>0, <2>1, <2>2, <2>3
<1>2. ASSUME NEW x \in S, NEW y \in S, <<x, y>> \in before
      PROVE  Cardinality(Ahead(x)) # Cardinality(Ahead(y))
  <2>1. Ahead(x) \subseteq Ahead(y) /\ x \in Ahead(y) /\ x \notin Ahead(x)
    BY <1>2, Zenon DEF InARow
  <2>. HIDE DEF Ahead
  <2>. QED
    BY <1>1, <2>1, FS_Subset
<1>. DEFINE f == [x \in S |-> Cardinality(Ahead(x))]
<1>3. f \in Injection(S, 0 .. N - 1)
  <2>1. f \in [S -> 0 .. N - 1]
    BY <1>1
  <2>2. ASSUME NEW x \in S, NEW y \in S, x # y PROVE f[x] # f[y]
    BY <1>2, <2>2 DEF InARow
  <2>. HIDE DEF f
  <2>. QED
    BY <2>1, <2>2 DEF Injection, IsInjective
<1>4. IsFiniteSet(0 .. N - 1) /\ Cardinality(0 .. N - 1) = N
  BY <1>0, FS_Interval
<1>5. f \in Surjection(S, 0 .. N - 1)
  <2>. HIDE DEF f
  <2>. QED
    BY <1>3, <1>4, FS_Injection
<1>6. \A n \in 1 .. N : \E x \in S : f[x] = n - 1
  <2>. HIDE DEF f, N
  <2>1. \A n \in 1 .. N : n - 1 \in 0 .. N - 1
    BY <1>0
  <2>. QED
    BY <1>5, <2>1 DEF Surjection
<1>. QED
  BY <1>1, <1>6 DEF Place

\* A function on 1 .. N is a sequence.
LEMMA FunctionIsRow ==
  ASSUME NEW N \in Nat, NEW S, NEW row \in [1 .. N -> S]
  PROVE  row \in Seq(S) /\ Len(row) = N
<1>1. row = [n \in 1 .. N |-> row[n]]
  OBVIOUS
<1>2. [n \in 1 .. N |-> row[n]] \in Seq(S)
  BY IsASeq
<1>3. row \in Seq(S)
  BY <1>1, <1>2
<1>. QED
  BY <1>3, LenProperties

\* Choosing for each number the element at that place enumerates the set.
EachPlace(S, before) ==
  [n \in 1 .. Cardinality(S) |-> CHOOSE x \in S : Cardinality({y \in S : <<y, x>> \in before}) = n - 1]
LEMMA RowOfAll ==
  ASSUME NEW S, IsFiniteSet(S), NEW before, InARow(S, before),
         NEW row, row = EachPlace(S, before)
  PROVE  /\ Cardinality(S) \in Nat
         /\ row \in [1 .. Cardinality(S) -> S] /\ row \in Seq(S) /\ Len(row) = Cardinality(S)
         /\ \A x \in S : \E n \in 1 .. Cardinality(S) : row[n] = x
         /\ \A m, n \in 1 .. Cardinality(S) : row[m] = row[n] => m = n
<1>. DEFINE N == Cardinality(S)
<1>0. N \in Nat
  BY FS_CardinalityType
<1>1. row = [n \in 1 .. N |-> CHOOSE x \in S : Place(S, before, x) = n - 1]
  BY DEF Place, EachPlace
<1>2. \A n \in 1 .. N : row[n] \in S /\ Place(S, before, row[n]) = n - 1
  BY <1>1, PlacesDiffer
<1>. HIDE DEF N
<1>3. row \in [1 .. N -> S]
  BY <1>1, <1>2
<1>4. row \in Injection(1 .. N, S)
  <2>1. ASSUME NEW m \in 1 .. N, NEW n \in 1 .. N, m # n PROVE row[m] # row[n]
    <3>1. Place(S, before, row[m]) = m - 1 /\ Place(S, before, row[n]) = n - 1
      BY <1>2
    <3>2. m - 1 # n - 1
      BY <1>0, <2>1
    <3>. QED
      BY <3>1, <3>2
  <2>. QED
    BY <1>3, <2>1 DEF Injection, IsInjective
<1>5. IsFiniteSet(1 .. N) /\ Cardinality(1 .. N) = N
  BY <1>0, FS_Interval
<1>6. row \in Surjection(1 .. N, S)
  BY <1>4, <1>5, FS_Injection DEF N
<1>7. \A x \in S : \E n \in 1 .. N : row[n] = x
  BY <1>6 DEF Surjection
<1>8. row \in Seq(S) /\ Len(row) = N
  BY <1>0, <1>3, FunctionIsRow
<1>9. \A m, n \in 1 .. N : row[m] = row[n] => m = n
  BY <1>4, Zenon DEF Injection, IsInjective
<1>. QED
  BY <1>0, <1>3, <1>7, <1>8, <1>9 DEF N
=============================================================================
