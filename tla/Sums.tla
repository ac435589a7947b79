-------------------------------- MODULE Sums --------------------------------
(***************************************************************************)
(* Sums of any length: what ComputeBalance is on a whole ledger, and what  *)
(* MapThenSumSet is on the rows of a table.  Both are folds, recursive     *)
(* functions that are chosen; that they exist and what they return is      *)
(* proved by induction on natural numbers.                                 *)
(***************************************************************************)
EXTENDS RewardBankData, FiniteSetsExt, FiniteSetTheorems, WellFoundedInduction, TLAPS

(* Induction over the natural numbers, for a set of them.                  *)
LEMMA SetInduction ==
  ASSUME NEW S \in SUBSET Nat, 0 \in S, \A n \in S : n + 1 \in S
  PROVE  \A n \in Nat : n \in S
<1> DEFINE T == Nat \ S
<1> SUFFICES ASSUME T # {} PROVE FALSE
  OBVIOUS
<1>1. PICK x \in T : \A y \in T : ~(<<y, x>> \in OpToRel(<, Nat))
  <2>1. T \subseteq Nat
    OBVIOUS
  <2> HIDE DEF T
  <2> QED
    BY <2>1, WFMin, NatLessThanWellFounded
<1>2. x \in Nat /\ x # 0
  OBVIOUS
<1>3. x - 1 \in Nat /\ x - 1 + 1 = x /\ x - 1 < x
  BY <1>2
<1>4. <<x - 1, x>> \in OpToRel(<, Nat)
  BY <1>2, <1>3, SMT DEF OpToRel
<1>5. x - 1 \in S
  BY <1>1, <1>3, <1>4
<1> QED
  BY <1>3, <1>5

-----------------------------------------------------------------------------
(* A set of positions that is not empty has a greatest one.                *)
LEMMA GreatestPosition ==
  ASSUME NEW n \in Nat, NEW S \in SUBSET (1..n), S # {}
  PROVE  Max(S) \in S /\ \A y \in S : Max(S) >= y
<1> DEFINE Bounded(k) == \A T \in SUBSET (1..k) : T # {} => \E x \in T : \A y \in T : x >= y
           Good == {k \in Nat : Bounded(k)}
<1>1. 0 \in Good
  <2>1. \A T \in SUBSET (1..0) : T = {}
    OBVIOUS
  <2> QED
    BY <2>1
<1>2. ASSUME NEW k \in Good
      PROVE  k + 1 \in Good
  <2>1. ASSUME NEW T \in SUBSET (1..(k + 1)), T # {}
        PROVE  \E x \in T : \A y \in T : x >= y
    <3>1. CASE k + 1 \in T
      BY <3>1
    <3>2. CASE k + 1 \notin T
      <4>1. T \in SUBSET (1..k)
        BY <3>2
      <4> QED
        BY <2>1, <4>1
    <3> QED
      BY <3>1, <3>2
  <2> QED
    BY <2>1
<1>3. Good \in SUBSET Nat
  OBVIOUS
<1> HIDE DEF Good
<1>4. n \in Good
  BY <1>1, <1>2, <1>3, SetInduction
<1>5. \E x \in S : \A y \in S : x >= y
  BY <1>4 DEF Good
<1> QED
  BY <1>5 DEF Max

-----------------------------------------------------------------------------
(* sums[S] is the sum of the values v has at the positions S: the function *)
(* that FoldLeft chooses.                                                  *)
IsSums(v, n, sums) ==
  sums = [S \in SUBSET (1..n) |->
            IF S = {} THEN 0 ELSE sums[S \ {Max(S)}] + v[Max(S)]]

(* There is such a function.                                               *)
LEMMA SumsExist ==
  ASSUME NEW v, NEW n \in Nat
  PROVE  \E sums : IsSums(v, n, sums)
<1> DEFINE Good == {k \in Nat : \E sums : IsSums(v, k, sums)}
<1>1. 0 \in Good
  <2>1. SUBSET (1..0) = {{}}
    OBVIOUS
  <2>2. IsSums(v, 0, [S \in SUBSET (1..0) |-> 0])
    BY <2>1 DEF IsSums
  <2> QED
    BY <2>2
<1>2. ASSUME NEW k \in Good
      PROVE  k + 1 \in Good
  <2>1. PICK sums : IsSums(v, k, sums)
    OBVIOUS
  <2> DEFINE more == [S \in SUBSET (1..(k + 1)) |->
                        IF k + 1 \in S THEN sums[S \ {k + 1}] + v[k + 1] ELSE sums[S]]
  <2>2. ASSUME NEW S \in SUBSET (1..(k + 1))
        PROVE  more[S] = IF S = {} THEN 0 ELSE more[S \ {Max(S)}] + v[Max(S)]
    <3>1. CASE S = {}
      BY <2>1, <3>1 DEF IsSums
    <3>2. CASE k + 1 \in S
      <4>1. Max(S) = k + 1
        <5>1. k + 1 \in Nat /\ S # {}
          BY <3>2
        <5>2. Max(S) \in S /\ Max(S) >= k + 1
          BY <3>2, <5>1, GreatestPosition
        <5>3. Max(S) \in 1..(k + 1)
          BY <5>2
        <5> QED
          BY <5>1, <5>2, <5>3
      <4>2. S \ {k + 1} \in SUBSET (1..(k + 1)) /\ k + 1 \notin S \ {k + 1}
        OBVIOUS
      <4>3. more[S \ {k + 1}] = sums[S \ {k + 1}]
        BY <4>2
      <4> QED
        BY <3>2, <4>1, <4>3
    <3>3. CASE S # {} /\ k + 1 \notin S
      <4>1. S \in SUBSET (1..k) /\ Max(S) \in S
        <5>1. S \in SUBSET (1..k)
          BY <3>3
        <5> QED
          BY <3>3, <5>1, GreatestPosition
      <4>2. more[S] = sums[S]
        BY <3>3
      <4>3. /\ S \ {Max(S)} \in SUBSET (1..(k + 1))
            /\ k + 1 \notin S \ {Max(S)}
        BY <3>3
      <4>4. more[S \ {Max(S)}] = sums[S \ {Max(S)}]
        BY <4>3
      <4>5. sums[S] = sums[S \ {Max(S)}] + v[Max(S)]
        BY <2>1, <3>3, <4>1 DEF IsSums
      <4> QED
        BY <3>3, <4>2, <4>4, <4>5
    <3> QED
      BY <3>1, <3>2, <3>3
  <2>3. IsSums(v, k + 1, more)
    BY <2>2 DEF IsSums
  <2> QED
    BY <2>3
<1>3. Good \in SUBSET Nat
  OBVIOUS
<1> HIDE DEF Good
<1>4. n \in Good
  BY <1>1, <1>2, <1>3, SetInduction
<1> QED
  BY <1>4 DEF Good

Agree(v, w, n) == \A i \in 1..n : v[i] = w[i]

(* The sum up to a position depends on the values up to it only.           *)
LEMMA SumsAgree ==
  ASSUME NEW n \in Nat, NEW m \in Nat, n <= m,
         NEW v, NEW w, Agree(v, w, n),
         NEW f, IsSums(v, n, f), NEW g, IsSums(w, m, g)
  PROVE  f[1..n] = g[1..n]
<1> DEFINE Good == {k \in Nat : k <= n => f[1..k] = g[1..k]}
<1>1. 0 \in Good
  <2>1. 1..0 = {} /\ {} \in SUBSET (1..n) /\ {} \in SUBSET (1..m)
    OBVIOUS
  <2> QED
    BY <2>1 DEF IsSums
<1>2. ASSUME NEW k \in Good
      PROVE  k + 1 \in Good
  <2> SUFFICES ASSUME k + 1 <= n PROVE f[1..(k + 1)] = g[1..(k + 1)]
    OBVIOUS
  <2> DEFINE S == 1..(k + 1)
  <2>1. S \in SUBSET (1..n) /\ S \in SUBSET (1..m) /\ S # {} /\ k + 1 \in S /\ k + 1 \in Nat
    <3>1. k \in Nat /\ k + 1 \in Nat /\ k + 1 \in S
      OBVIOUS
    <3>2. S \subseteq 1..n /\ S \subseteq 1..m
      OBVIOUS
    <3> HIDE DEF S
    <3> QED
      BY <3>1, <3>2
  <2>2. Max(S) = k + 1
    <3>1. Max(S) \in S /\ Max(S) >= k + 1
      BY <2>1, GreatestPosition
    <3> QED
      BY <3>1
  <2>3. S \ {k + 1} = 1..k
    OBVIOUS
  <2>4. v[k + 1] = w[k + 1]
    BY DEF Agree
  <2>5. f[S] = f[1..k] + v[k + 1] /\ g[S] = g[1..k] + w[k + 1]
    <3> HIDE DEF S, Good
    <3>1. f[S] = f[S \ {Max(S)}] + v[Max(S)]
      BY <2>1 DEF IsSums
    <3>2. g[S] = g[S \ {Max(S)}] + w[Max(S)]
      BY <2>1 DEF IsSums
    <3> QED
      BY <2>2, <2>3, <3>1, <3>2
  <2> QED
    BY <2>4, <2>5
<1>3. Good \in SUBSET Nat
  OBVIOUS
<1> HIDE DEF Good
<1>4. n \in Good
  BY <1>1, <1>2, <1>3, SetInduction
<1> QED
  BY <1>4 DEF Good

-----------------------------------------------------------------------------
Signed(entries) == [i \in DOMAIN entries |->
                      SignedAmount(entries[i].entry_type, entries[i].amount)]

(* ComputeBalance is the sum of the signed amounts at all positions.       *)
LEMMA BalanceIsSum ==
  ASSUME NEW entries, NEW n \in Nat, DOMAIN entries = 1..n
  PROVE  \E sums : /\ IsSums(Signed(entries), n, sums)
                   /\ ComputeBalance(entries) = sums[1..n]
<1> DEFINE Folds(f) == f = [S \in SUBSET (1..n) |->
             IF S = {} THEN 0
             ELSE f[S \ {Max(S)}]
                  + SignedAmount(entries[Max(S)].entry_type, entries[Max(S)].amount)]
<1>1. ComputeBalance(entries) = (CHOOSE f : Folds(f))[1..n]
  BY DEF ComputeBalance, FoldLeft, MapThenFoldSet
<1>2. ASSUME NEW f
      PROVE  Folds(f) <=> IsSums(Signed(entries), n, f)
  <2>1. ASSUME NEW S \in SUBSET (1..n), S # {}
        PROVE  Signed(entries)[Max(S)]
                 = SignedAmount(entries[Max(S)].entry_type, entries[Max(S)].amount)
    BY <2>1, GreatestPosition DEF Signed
  <2> QED
    BY <2>1 DEF IsSums
<1>3. \E f : Folds(f)
  BY <1>2, SumsExist
<1> HIDE DEF Folds
<1>4. Folds(CHOOSE f : Folds(f))
  BY <1>3
<1> QED
  BY <1>1, <1>2, <1>4

(* A ledger without entries sums up to nothing.                            *)
LEMMA BalanceOfNone == ComputeBalance(<<>>) = 0
<1>1. DOMAIN <<>> = 1..0 /\ 1..0 = {} /\ {} \in SUBSET (1..0)
  OBVIOUS
<1>2. PICK sums : /\ IsSums(Signed(<<>>), 0, sums)
                  /\ ComputeBalance(<<>>) = sums[1..0]
  BY <1>1, BalanceIsSum
<1> QED
  BY <1>1, <1>2 DEF IsSums

(* One entry more adds its signed amount.                                  *)
LEMMA BalanceOfAppend ==
  ASSUME NEW T, NEW entries \in Seq(T), NEW e
  PROVE  ComputeBalance(Append(entries, e))
           = ComputeBalance(entries) + SignedAmount(e.entry_type, e.amount)
<1> DEFINE n    == Len(entries)
           more == Append(entries, e)
           v    == Signed(entries)
           w    == Signed(more)
           S    == 1..(n + 1)
<1>1. n \in Nat /\ n + 1 \in Nat /\ n <= n + 1 /\ DOMAIN entries = 1..n
  OBVIOUS
<1>2. /\ DOMAIN more = S
      /\ \A i \in 1..n : more[i] = entries[i]
      /\ more[n + 1] = e
  OBVIOUS
<1>3. /\ \A i \in 1..n : v[i] = w[i]
      /\ w[n + 1] = SignedAmount(e.entry_type, e.amount)
  <2> HIDE DEF more, n
  <2> QED
    BY <1>1, <1>2 DEF Signed
<1> HIDE DEF more, n, v, w
<1>4. PICK f : IsSums(v, n, f) /\ ComputeBalance(entries) = f[1..n]
  BY <1>1, BalanceIsSum DEF v
<1>5. PICK g : IsSums(w, n + 1, g) /\ ComputeBalance(more) = g[S]
  BY <1>1, <1>2, BalanceIsSum DEF w
<1>6. f[1..n] = g[1..n]
  <2>1. Agree(v, w, n)
    BY <1>3 DEF Agree
  <2>2. IsSums(v, n, f) /\ IsSums(w, n + 1, g)
    BY <1>4, <1>5
  <2> DEFINE m == n + 1
  <2>3. m \in Nat /\ n <= m /\ IsSums(w, m, g)
    BY <1>1, <2>2
  <2> HIDE DEF m, S
  <2> QED
    BY <1>1, <2>1, <2>2, <2>3, SumsAgree
<1>7. S \in SUBSET (1..(n + 1)) /\ S # {} /\ n + 1 \in S
  <2>1. n + 1 \in S
    BY <1>1
  <2> QED
    BY <2>1
<1>8. S \ {n + 1} = 1..n
  BY <1>1
<1>9. Max(S) = n + 1
  <2>1. Max(S) \in S /\ Max(S) >= n + 1
    BY <1>1, <1>7, GreatestPosition
  <2> QED
    BY <1>1, <2>1
<1>10. g[S] = g[1..n] + w[n + 1]
  <2> HIDE DEF S
  <2> QED
    BY <1>5, <1>7, <1>8, <1>9 DEF IsSums
<1> QED
  BY <1>3, <1>4, <1>5, <1>6, <1>10 DEF more
-----------------------------------------------------------------------------
(* Induction over the subsets of a finite set, for a set P of them.        *)
LEMMA SubsetInduction ==
  ASSUME NEW S, IsFiniteSet(S), NEW P,
         \A T \in SUBSET S : (\A x \in T : T \ {x} \in P) => T \in P
  PROVE  \A T \in SUBSET S : T \in P
<1> DEFINE Good == {k \in Nat : \A T \in SUBSET S : Cardinality(T) = k => T \in P}
<1>1. \A T \in SUBSET S : IsFiniteSet(T) /\ Cardinality(T) \in Nat
  BY FS_Subset, FS_CardinalityType
<1>2. 0 \in Good
  <2>1. \A T \in SUBSET S : Cardinality(T) = 0 => T = {}
    BY <1>1, FS_EmptySet
  <2> QED
    BY <2>1
<1>3. ASSUME NEW k \in Good
      PROVE  k + 1 \in Good
  <2>1. ASSUME NEW T \in SUBSET S, Cardinality(T) = k + 1
        PROVE  T \in P
    <3>1. ASSUME NEW x \in T
          PROVE  T \ {x} \in P
      <4>1. Cardinality(T \ {x}) = k
        BY <1>1, <2>1, FS_RemoveElement
      <4> QED
        BY <4>1
    <3> QED
      BY <3>1
  <2> QED
    BY <2>1
<1>4. Good \in SUBSET Nat
  OBVIOUS
<1> HIDE DEF Good
<1>5. \A k \in Nat : k \in Good
  BY <1>2, <1>3, <1>4, SetInduction
<1> QED
  BY <1>1, <1>5 DEF Good

-----------------------------------------------------------------------------
Chosen(T) == CHOOSE x \in T : TRUE

(* totals[T] is the sum of the values v has on T, for the members T of Sub: *)
(* the function that MapThenSumSet chooses when Sub is SUBSET S.            *)
IsTotals(v, Sub, totals) ==
  totals = [T \in Sub |->
              IF T = {} THEN 0 ELSE v[Chosen(T)] + totals[T \ {Chosen(T)}]]

Total(v, S) == (CHOOSE totals : IsTotals(v, SUBSET S, totals))[S]

(* A non-empty set has an element to choose.                               *)
LEMMA ChosenIn == \A T : T # {} => Chosen(T) \in T
BY DEF Chosen

(* There is such a function.                                               *)
LEMMA TotalsExist ==
  ASSUME NEW v, NEW S, IsFiniteSet(S)
  PROVE  \E totals : IsTotals(v, SUBSET S, totals)
<1> DEFINE Upto(k) == {T \in SUBSET S : Cardinality(T) <= k}
           Good == {k \in Nat : \E totals : IsTotals(v, Upto(k), totals)}
<1>1. \A T \in SUBSET S : /\ IsFiniteSet(T) /\ Cardinality(T) \in Nat
                          /\ Cardinality(T) <= Cardinality(S)
  BY FS_Subset, FS_CardinalityType
<1>2. 0 \in Good
  <2>1. Upto(0) = {{}}
    BY <1>1, FS_EmptySet
  <2>2. IsTotals(v, Upto(0), [T \in Upto(0) |-> 0])
    BY <2>1 DEF IsTotals
  <2> QED
    BY <2>2
<1>3. ASSUME NEW k \in Good
      PROVE  k + 1 \in Good
  <2>1. PICK totals : IsTotals(v, Upto(k), totals)
    OBVIOUS
  <2> DEFINE more == [T \in Upto(k + 1) |->
               IF T = {} THEN 0 ELSE v[Chosen(T)] + totals[T \ {Chosen(T)}]]
  <2>2. ASSUME NEW T \in Upto(k + 1), T # {}
        PROVE  more[T \ {Chosen(T)}] = totals[T \ {Chosen(T)}]
    <3> DEFINE U == T \ {Chosen(T)}
    <3>1. Chosen(T) \in T /\ T \in SUBSET S /\ Cardinality(T) <= k + 1
      BY <2>2, ChosenIn
    <3>2. U \in SUBSET S /\ Cardinality(U) = Cardinality(T) - 1
      BY <1>1, <3>1, FS_RemoveElement
    <3>3. U \in Upto(k) /\ U \in Upto(k + 1)
      BY <1>1, <3>1, <3>2
    <3> HIDE DEF U
    <3>4. totals[U] = IF U = {} THEN 0 ELSE v[Chosen(U)] + totals[U \ {Chosen(U)}]
      <4> HIDE DEF Upto
      <4> QED
        BY <2>1, <3>3 DEF IsTotals
    <3>5. more[U] = IF U = {} THEN 0 ELSE v[Chosen(U)] + totals[U \ {Chosen(U)}]
      <4> HIDE DEF Upto
      <4> QED
        BY <3>3
    <3> QED
      BY <3>4, <3>5 DEF U
  <2>3. more = [T \in Upto(k + 1) |->
               IF T = {} THEN 0 ELSE v[Chosen(T)] + more[T \ {Chosen(T)}]]
    <3> HIDE DEF Upto
    <3> QED
      BY <2>2
  <2>4. IsTotals(v, Upto(k + 1), more)
    BY <2>3 DEF IsTotals
  <2> HIDE DEF more, Upto
  <2> QED
    BY <2>4
<1>4. Good \in SUBSET Nat
  OBVIOUS
<1>5. SUBSET S = Upto(Cardinality(S))
  BY <1>1
<1> HIDE DEF Good
<1>6. Cardinality(S) \in Good
  BY <1>1, <1>2, <1>3, <1>4, SetInduction
<1> QED
  BY <1>5, <1>6 DEF Good

(* What the function returns, member by member.                            *)
Unfolds(v, S, totals) ==
  /\ totals[S] = Total(v, S)
  /\ totals[{}] = 0
  /\ \A T \in SUBSET S : T # {} => totals[T] = v[Chosen(T)] + totals[T \ {Chosen(T)}]

(* Such a function exists for every finite set.                            *)
LEMMA TotalsUnfold ==
  ASSUME NEW v, NEW S, IsFiniteSet(S)
  PROVE  \E totals : Unfolds(v, S, totals)
<1> DEFINE totals == CHOOSE f : IsTotals(v, SUBSET S, f)
<1>1. IsTotals(v, SUBSET S, totals)
  BY TotalsExist
<1>2. totals[S] = Total(v, S)
  BY DEF Total
<1> HIDE DEF totals
<1>3. totals[{}] = 0
  BY <1>1 DEF IsTotals
<1>4. Unfolds(v, S, totals)
  BY <1>1, <1>2, <1>3 DEF IsTotals, Unfolds
<1> QED
  BY <1>4

(* The empty set adds up to nothing.                                       *)
LEMMA TotalOfNone == ASSUME NEW v PROVE Total(v, {}) = 0
BY TotalsUnfold, FS_EmptySet DEF Unfolds

(* The total depends on the values in the set only, not on those outside.  *)
LEMMA TotalSame ==
  ASSUME NEW v, NEW w, NEW S, IsFiniteSet(S), \A x \in S : v[x] = w[x]
  PROVE  Total(v, S) = Total(w, S)
<1>1. PICK f : Unfolds(v, S, f)
  BY TotalsUnfold
<1>2. PICK g : Unfolds(w, S, g)
  BY TotalsUnfold
<1> DEFINE P == {T \in SUBSET S : f[T] = g[T]}
<1>3. ASSUME NEW T \in SUBSET S, \A x \in T : T \ {x} \in P
      PROVE  T \in P
  <2>1. CASE T = {}
    BY <1>1, <1>2, <2>1 DEF Unfolds
  <2>2. CASE T # {}
    <3>1. Chosen(T) \in T /\ Chosen(T) \in S
      BY <2>2, ChosenIn
    <3>2. f[T \ {Chosen(T)}] = g[T \ {Chosen(T)}]
      BY <1>3, <3>1
    <3>3. v[Chosen(T)] = w[Chosen(T)]
      BY <3>1
    <3> QED
      BY <1>1, <1>2, <2>2, <3>2, <3>3 DEF Unfolds
  <2> QED
    BY <2>1, <2>2
<1> HIDE DEF P
<1>4. \A T \in SUBSET S : T \in P
  BY <1>3, SubsetInduction
<1> QED
  BY <1>1, <1>2, <1>4 DEF P, Unfolds

(* The total of a set is that of one member and of the set without it, for *)
(* the member the fold begins with.                                        *)
LEMMA TotalChosen ==
  ASSUME NEW v, NEW S, IsFiniteSet(S), S # {}
  PROVE  Total(v, S) = v[Chosen(S)] + Total(v, S \ {Chosen(S)})
<1> DEFINE R == S \ {Chosen(S)}
<1>1. PICK f : Unfolds(v, S, f)
  BY TotalsUnfold
<1>2. IsFiniteSet(R) /\ R \in SUBSET S
  BY FS_RemoveElement
<1>3. PICK g : Unfolds(v, R, g)
  <2> HIDE DEF R
  <2> QED
    BY <1>2, TotalsUnfold
<1> DEFINE P == {T \in SUBSET R : f[T] = g[T]}
<1>4. ASSUME NEW T \in SUBSET R, \A x \in T : T \ {x} \in P
      PROVE  T \in P
  <2>1. CASE T = {}
    BY <1>1, <1>3, <2>1 DEF Unfolds
  <2>2. CASE T # {}
    <3>1. Chosen(T) \in T /\ T \in SUBSET S
      BY <1>2, <2>2, ChosenIn
    <3>2. f[T \ {Chosen(T)}] = g[T \ {Chosen(T)}]
      BY <1>4, <3>1
    <3> QED
      BY <1>1, <1>3, <2>2, <3>1, <3>2 DEF Unfolds
  <2> QED
    BY <2>1, <2>2
<1> HIDE DEF P, R
<1>5. \A T \in SUBSET R : T \in P
  BY <1>2, <1>4, SubsetInduction
<1>6. f[R] = Total(v, R)
  BY <1>3, <1>5 DEF P, Unfolds
<1>7. f[S] = v[Chosen(S)] + f[R]
  BY <1>1 DEF R, Unfolds
<1> QED
  BY <1>1, <1>6, <1>7 DEF R, Unfolds

(* A total of integers is an integer.                                      *)
LEMMA TotalType ==
  ASSUME NEW v, NEW S, IsFiniteSet(S), \A x \in S : v[x] \in Int
  PROVE  Total(v, S) \in Int
<1> DEFINE P == {T \in SUBSET S : Total(v, T) \in Int}
<1>1. ASSUME NEW T \in SUBSET S, \A x \in T : T \ {x} \in P
      PROVE  T \in P
  <2>1. CASE T = {}
    BY <2>1, TotalOfNone
  <2>2. CASE T # {}
    <3>1. Chosen(T) \in T /\ IsFiniteSet(T)
      BY <2>2, ChosenIn, FS_Subset
    <3>2. Total(v, T \ {Chosen(T)}) \in Int /\ v[Chosen(T)] \in Int
      BY <1>1, <3>1
    <3> QED
      BY <2>2, <3>1, <3>2, TotalChosen
  <2> QED
    BY <2>1, <2>2
<1> HIDE DEF P
<1>2. \A T \in SUBSET S : T \in P
  BY <1>1, SubsetInduction
<1> QED
  BY <1>2 DEF P

(* The order does not matter: any member can be taken out first.           *)
LEMMA TotalWithout ==
  ASSUME NEW v, NEW S, IsFiniteSet(S), \A x \in S : v[x] \in Int
  PROVE  \A x \in S : Total(v, S) = v[x] + Total(v, S \ {x})
<1> DEFINE Splits(T) == \A x \in T : Total(v, T) = v[x] + Total(v, T \ {x})
           P == {T \in SUBSET S : Splits(T)}
<1>1. ASSUME NEW T \in SUBSET S, \A x \in T : T \ {x} \in P
      PROVE  T \in P
  <2>1. ASSUME NEW x \in T
        PROVE  Total(v, T) = v[x] + Total(v, T \ {x})
    <3> DEFINE p == Chosen(T)
    <3>1. p \in T /\ IsFiniteSet(T) /\ T # {}
      BY ChosenIn, FS_Subset
    <3> HIDE DEF p
    <3>2. Total(v, T) = v[p] + Total(v, T \ {p})
      BY <3>1, TotalChosen DEF p
    <3>3. CASE x = p
      BY <3>2, <3>3
    <3>4. CASE x # p
      <4>1. x \in T \ {p} /\ p \in T \ {x}
        BY <3>1, <3>4
      <4>2. Splits(T \ {p}) /\ Splits(T \ {x})
        BY <1>1, <3>1
      <4> DEFINE U == T \ {p}
                 V == T \ {x}
      <4>3. U \ {x} = V \ {p}
        OBVIOUS
      <4>4. Total(v, U) = v[x] + Total(v, U \ {x})
        <5> HIDE DEF U
        <5> QED
          BY <4>1, <4>2 DEF U
      <4>5. Total(v, V) = v[p] + Total(v, V \ {p})
        <5> HIDE DEF V
        <5> QED
          BY <4>1, <4>2 DEF V
      <4>6. Total(v, U \ {x}) \in Int
        <5>1. IsFiniteSet(U \ {x}) /\ \A y \in U \ {x} : v[y] \in Int
          BY <3>1, FS_RemoveElement
        <5> HIDE DEF U
        <5> QED
          BY <5>1, TotalType
      <4>7. v[x] \in Int /\ v[p] \in Int
        BY <3>1
      <4>8. Total(v, T) = v[p] + Total(v, U)
        BY <3>2
      <4> DEFINE w == Total(v, U \ {x})
      <4> HIDE DEF U, V
      <4>9. Total(v, V) = v[p] + w
        BY <4>3, <4>5
      <4> HIDE DEF w
      <4>10. Total(v, T) = v[p] + (v[x] + w)
        BY <4>4, <4>8 DEF w
      <4>11. v[p] + (v[x] + w) = v[x] + (v[p] + w)
        BY <4>6, <4>7 DEF w
      <4> QED
        BY <4>9, <4>10, <4>11 DEF V
    <3> QED
      BY <3>3, <3>4
  <2> QED
    BY <2>1
<1> HIDE DEF P
<1>2. \A T \in SUBSET S : T \in P
  BY <1>1, SubsetInduction
<1> QED
  BY <1>2 DEF P

(* One member more adds its value.                                         *)
LEMMA TotalWith ==
  ASSUME NEW v, NEW w, NEW S, IsFiniteSet(S), NEW x, x \notin S, v[x] \in Int,
         \A y \in S : v[y] = w[y] /\ v[y] \in Int
  PROVE  /\ Total(v, S \cup {x}) = Total(w, S) + v[x]
         /\ Total(w, S) \in Int
<1> DEFINE R == S \cup {x}
<1>1. IsFiniteSet(R) /\ x \in R /\ R \ {x} = S /\ \A y \in R : v[y] \in Int
  BY FS_AddElement
<1> HIDE DEF R
<1>2. Total(v, R) = v[x] + Total(v, S)
  BY <1>1, TotalWithout
<1>3. Total(v, S) = Total(w, S)
  BY TotalSame
<1>4. Total(v, S) \in Int
  BY TotalType
<1> QED
  BY <1>2, <1>3, <1>4 DEF R

-----------------------------------------------------------------------------
(* The two sums BalanceExplained takes are totals.                         *)
LEMMA RewardsTotal ==
  ASSUME NEW T, NEW table, NEW S \in SUBSET T, IsFiniteSet(S)
  PROVE  MapThenSumSet(LAMBDA t : table[t].reward_minutes, S)
           = Total([t \in T |-> table[t].reward_minutes], S)
<1> DEFINE v == [t \in T |-> table[t].reward_minutes]
           Folds(f) == f = [R \in SUBSET S |->
             IF R = {} THEN 0
             ELSE table[CHOOSE x \in R : TRUE].reward_minutes + f[R \ {CHOOSE x \in R : TRUE}]]
<1>1. MapThenSumSet(LAMBDA t : table[t].reward_minutes, S) = (CHOOSE f : Folds(f))[S]
  BY DEF MapThenSumSet, MapThenFoldSet
<1>2. ASSUME NEW f
      PROVE  Folds(f) <=> IsTotals(v, SUBSET S, f)
  <2>1. ASSUME NEW R \in SUBSET S, R # {}
        PROVE  v[Chosen(R)] = table[Chosen(R)].reward_minutes
    BY <2>1, ChosenIn
  <2> HIDE DEF v
  <2> QED
    BY <2>1 DEF IsTotals, Chosen
<1>3. (CHOOSE f : Folds(f)) = (CHOOSE f : IsTotals(v, SUBSET S, f))
  <2> HIDE DEF Folds, v
  <2> QED
    BY <1>2
<1> QED
  BY <1>1, <1>3 DEF Total

(* The other sum, of the minutes the rows of a child cover.                *)
LEMMA MinutesTotal ==
  ASSUME NEW T, NEW rows, NEW S \in SUBSET T, IsFiniteSet(S)
  PROVE  MapThenSumSet(LAMBDA s : rows[s].minutes_covered, S)
           = Total([s \in T |-> rows[s].minutes_covered], S)
<1> DEFINE v == [s \in T |-> rows[s].minutes_covered]
           Folds(f) == f = [R \in SUBSET S |->
             IF R = {} THEN 0
             ELSE rows[CHOOSE x \in R : TRUE].minutes_covered + f[R \ {CHOOSE x \in R : TRUE}]]
<1>1. MapThenSumSet(LAMBDA s : rows[s].minutes_covered, S) = (CHOOSE f : Folds(f))[S]
  BY DEF MapThenSumSet, MapThenFoldSet
<1>2. ASSUME NEW f
      PROVE  Folds(f) <=> IsTotals(v, SUBSET S, f)
  <2>1. ASSUME NEW R \in SUBSET S, R # {}
        PROVE  v[Chosen(R)] = rows[Chosen(R)].minutes_covered
    BY <2>1, ChosenIn
  <2> HIDE DEF v
  <2> QED
    BY <2>1 DEF IsTotals, Chosen
<1>3. (CHOOSE f : Folds(f)) = (CHOOSE f : IsTotals(v, SUBSET S, f))
  <2> HIDE DEF Folds, v
  <2> QED
    BY <1>2
<1> QED
  BY <1>1, <1>3 DEF Total
=============================================================================
