-------------------------- MODULE PortfolioProofs --------------------------
(***************************************************************************)
(* Theorems on Portfolio for any number of users, holdings, months,        *)
(* tickers, announcements and requests, and any amounts.  Sums come first, *)
(* then the reports as functions of the rows, then each statement of each  *)
(* operation, and last what a request owes when it answers.                *)
(***************************************************************************)
EXTENDS PortfolioInvariant, FiniteSetTheorems, TLAPS

-----------------------------------------------------------------------------
(* Sums.  SumFunction takes the elements of its domain one by one, each    *)
(* time the one that CHOOSE picks; what it returns does not depend on it.  *)

\* A set of natural numbers has a least one.
LEMMA LeastNumber ==
  ASSUME NEW S, S \subseteq Nat, S # {}
  PROVE  \E x \in S : \A y \in S : x <= y
  <1>1. \E R : IsWellFoundedOn(R, Nat) /\ \A x, y \in Nat : y < x => <<y, x>> \in R
    <2>1. \A x, y \in Nat : y < x => <<y, x>> \in OpToRel(<, Nat)
      BY DEF OpToRel
    <2> QED BY <2>1, NatLessThanWellFounded
  <1>2. PICK R : IsWellFoundedOn(R, Nat) /\ \A x, y \in Nat : y < x => <<y, x>> \in R
    BY <1>1
  <1>3. PICK x \in S : \A y \in S : ~ (<<y, x>> \in R)
    BY <1>2, WFMin
  <1>4. ASSUME NEW y \in S
        PROVE  x <= y
    <2>1. x \in Nat /\ y \in Nat
      OBVIOUS
    <2>2. ~ (y < x)
      BY <1>2, <1>3, <2>1, Zenon
    <2> QED BY <2>1, <2>2, SMT
  <1> QED BY <1>4

\* Among subsets of a finite set one is minimal.
LEMMA SmallestSubset ==
  ASSUME NEW S, IsFiniteSet(S), NEW D, D \subseteq SUBSET S, D # {}
  PROVE  \E T \in D : \A U \in D : U \subseteq T => U = T
  <1>1. D \subseteq FiniteSubsetsOf(S)
    BY FS_FiniteSubsetsOfFinite
  <1>2. IsWellFoundedOn(StrictSubsetOrdering(S), FiniteSubsetsOf(S))
    BY FS_StrictSubsetOrderingWellFounded
  <1>3. \E T \in D : \A U \in D : ~ (<<U, T>> \in StrictSubsetOrdering(S))
    BY <1>1, <1>2, WFMin, Zenon
  <1>4. PICK T \in D : \A U \in D : ~ (<<U, T>> \in StrictSubsetOrdering(S))
    BY <1>3
  <1>5. ASSUME NEW U \in D, U \subseteq T
        PROVE  U = T
    <2>1. U \in SUBSET S /\ T \in SUBSET S
      OBVIOUS
    <2> QED BY <1>4, <1>5, <2>1 DEF StrictSubsetOrdering
  <1> QED BY <1>5

\* A family of sets that has the empty set, and a set T when it has T without one of
\* its elements, has every finite set.
LEMMA SetInduction ==
  ASSUME NEW S, IsFiniteSet(S), NEW C, {} \in C,
         \A T \in SUBSET S : \A x \in T : T \ {x} \in C => T \in C
  PROVE  S \in C
  <1> SUFFICES ASSUME S \notin C PROVE FALSE
    OBVIOUS
  <1> DEFINE D == (SUBSET S) \ C
  <1>1. D \subseteq SUBSET S /\ S \in D
    OBVIOUS
  <1>2. PICK T \in D : \A U \in D : U \subseteq T => U = T
    <2> HIDE DEF D
    <2> QED BY <1>1, SmallestSubset
  <1>3. PICK x \in T : TRUE
    <2>1. T # {}
      BY <1>2
    <2> QED BY <2>1
  <1>4. T \ {x} \notin D
    BY <1>2, <1>3
  <1>5. T \ {x} \in C
    BY <1>2, <1>4
  <1> QED BY <1>2, <1>3, <1>5

Pick(s) == CHOOSE x \in s : TRUE

IsFold(it, f, S) ==
  it = [s \in SUBSET S |-> IF s = {} THEN 0 ELSE f[Pick(s)] + it[s \ {Pick(s)}]]

LEMMA PickIn == \A s : s # {} => Pick(s) \in s
  BY DEF Pick

LEMMA FoldExists ==
  ASSUME NEW f, NEW S, IsFiniteSet(S), \A x \in S : f[x] \in Int
  PROVE  \E it \in [SUBSET S -> Int] : IsFold(it, f, S)
  <1> DEFINE Small(n) == {s \in SUBSET S : Cardinality(s) <= n}
             Partial(n) == \E it \in [Small(n) -> Int] : \A s \in Small(n) :
               it[s] = IF s = {} THEN 0 ELSE f[Pick(s)] + it[s \ {Pick(s)}]
             Good == {n \in Nat : Partial(n)}
  <1>0. \A s \in SUBSET S : IsFiniteSet(s) /\ Cardinality(s) \in Nat
    BY FS_Subset, FS_CardinalityType
  <1>1. Partial(0)
    <2> DEFINE it == [s \in Small(0) |-> 0]
    <2>1. \A s \in Small(0) : s = {}
      BY <1>0, FS_EmptySet
    <2>2. it \in [Small(0) -> Int]
      OBVIOUS
    <2> QED BY <2>1, <2>2
  <1>2. ASSUME NEW n \in Nat, Partial(n)
        PROVE  Partial(n + 1)
    <2>1. PICK it \in [Small(n) -> Int] : \A s \in Small(n) :
            it[s] = IF s = {} THEN 0 ELSE f[Pick(s)] + it[s \ {Pick(s)}]
      BY <1>2
    <2> DEFINE jt == [s \in Small(n + 1) |-> IF s = {} THEN 0 ELSE f[Pick(s)] + it[s \ {Pick(s)}]]
    <2>2. ASSUME NEW s \in Small(n + 1), s # {}
          PROVE  /\ Pick(s) \in s
                 /\ s \ {Pick(s)} \in Small(n)
                 /\ s \ {Pick(s)} \in Small(n + 1)
      <3>1. Pick(s) \in s
        BY <2>2, PickIn
      <3>2. Cardinality(s \ {Pick(s)}) = Cardinality(s) - 1
        BY <1>0, <3>1, FS_RemoveElement
      <3> QED BY <1>0, <3>1, <3>2
    <2>3. jt \in [Small(n + 1) -> Int]
      <3>1. ASSUME NEW s \in Small(n + 1)
            PROVE  (IF s = {} THEN 0 ELSE f[Pick(s)] + it[s \ {Pick(s)}]) \in Int
        <4>1. CASE s = {}
          BY <4>1
        <4>2. CASE s # {}
          <5>1. f[Pick(s)] \in Int /\ it[s \ {Pick(s)}] \in Int
            BY <2>2, <4>2, <2>1
          <5> QED BY <5>1, <4>2
        <4> QED BY <4>1, <4>2
      <3> QED BY <3>1
    <2>4. \A s \in Small(n) : jt[s] = it[s]
      BY <1>0, <2>1
    <2>5. \A s \in Small(n + 1) : jt[s] = IF s = {} THEN 0 ELSE f[Pick(s)] + jt[s \ {Pick(s)}]
      BY <2>2, <2>4
    <2> QED BY <2>3, <2>5
  <1>3. \A n \in Nat : n \in Good
    <2> HIDE DEF Partial
    <2> SUFFICES ASSUME Nat \ Good # {} PROVE FALSE
      OBVIOUS
    <2>1. PICK n \in Nat \ Good : \A m \in Nat \ Good : n <= m
      <3> HIDE DEF Good
      <3> QED BY LeastNumber
    <2>2. n # 0
      BY <1>1, <2>1
    <2>3. n - 1 \in Nat /\ n - 1 \in Good
      BY <2>1, <2>2
    <2>4. Partial((n - 1) + 1)
      BY <1>2, <2>3
    <2> QED BY <2>1, <2>4
  <1>4. Partial(Cardinality(S)) /\ Small(Cardinality(S)) = SUBSET S
    <2>1. \A s \in SUBSET S : Cardinality(s) <= Cardinality(S)
      BY FS_Subset
    <2> QED BY <1>0, <1>3, <2>1
  <1>5. PICK it \in [SUBSET S -> Int] : \A s \in SUBSET S :
            it[s] = IF s = {} THEN 0 ELSE f[Pick(s)] + it[s \ {Pick(s)}]
    BY <1>4
  <1>6. it = [s \in SUBSET S |-> IF s = {} THEN 0 ELSE f[Pick(s)] + it[s \ {Pick(s)}]]
    BY <1>5
  <1> QED BY <1>6 DEF IsFold

LEMMA FoldsAgree ==
  ASSUME NEW f, NEW g, NEW S, NEW T, NEW it, NEW jt, IsFold(it, f, S), IsFold(jt, g, T),
         NEW R, IsFiniteSet(R), R \subseteq S, R \subseteq T, \A x \in R : f[x] = g[x]
  PROVE  it[R] = jt[R]
  <1> DEFINE C == {U \in SUBSET R : it[U] = jt[U]}
  <1>1. \A s \in SUBSET S : it[s] = IF s = {} THEN 0 ELSE f[Pick(s)] + it[s \ {Pick(s)}]
    BY DEF IsFold
  <1>2. \A s \in SUBSET T : jt[s] = IF s = {} THEN 0 ELSE g[Pick(s)] + jt[s \ {Pick(s)}]
    BY DEF IsFold
  <1> SUFFICES ASSUME R \notin C PROVE FALSE
    OBVIOUS
  <1> DEFINE D == (SUBSET R) \ C
  <1>3. D \subseteq SUBSET R /\ R \in D
    OBVIOUS
  <1>4. PICK U \in D : \A V \in D : V \subseteq U => V = U
    <2> HIDE DEF D
    <2> QED BY <1>3, SmallestSubset
  <1>5. U # {}
    BY <1>1, <1>2, <1>4
  <1>6. Pick(U) \in U
    BY <1>5, PickIn
  <1>7. U \ {Pick(U)} \notin D
    BY <1>4, <1>6
  <1>8. it[U \ {Pick(U)}] = jt[U \ {Pick(U)}]
    BY <1>4, <1>7
  <1>9. U \in SUBSET S /\ U \in SUBSET T /\ f[Pick(U)] = g[Pick(U)]
    BY <1>4, <1>6
  <1>10. it[U] = jt[U]
    BY <1>1, <1>2, <1>5, <1>8, <1>9
  <1> QED BY <1>4, <1>10

\* What SumFunction computes.
LEMMA SumIsFold ==
  ASSUME NEW f
  PROVE  SumFunction(f) = (CHOOSE it : IsFold(it, f, DOMAIN f))[DOMAIN f]
  BY DEF SumFunction, SumFunctionOnSet, FoldFunctionOnSet, MapThenFoldSet, IsFold, Pick

\* The sum of f over some of its arguments.
Total(f, S) == SumFunction([x \in S |-> f[x]])

LEMMA TotalIs ==
  ASSUME NEW f, NEW S, IsFiniteSet(S), \A x \in S : f[x] \in Int,
         NEW it, IsFold(it, f, S), NEW T, T \subseteq S
  PROVE  Total(f, T) = it[T]
  <1> DEFINE g == [x \in T |-> f[x]]
             jt == CHOOSE jt : IsFold(jt, g, T)
  <1>1. IsFiniteSet(T) /\ DOMAIN g = T
    BY FS_Subset
  <1>2. \A x \in T : g[x] \in Int /\ f[x] = g[x]
    OBVIOUS
  <1> HIDE DEF g
  <1>3. \E kt : IsFold(kt, g, T)
    BY <1>1, <1>2, FoldExists
  <1>4. IsFold(jt, g, T)
    BY <1>3
  <1>5. SumFunction(g) = jt[T]
    BY <1>1, SumIsFold
  <1> HIDE DEF jt
  <1>6. it[T] = jt[T]
    BY <1>1, <1>2, <1>4, FoldsAgree
  <1> QED BY <1>5, <1>6 DEF Total, g

LEMMA TotalType ==
  ASSUME NEW f, NEW S, IsFiniteSet(S), \A x \in S : f[x] \in Int
  PROVE  Total(f, S) \in Int
  <1>1. PICK it \in [SUBSET S -> Int] : IsFold(it, f, S)
    BY FoldExists
  <1>2. Total(f, S) = it[S]
    BY <1>1, TotalIs
  <1> QED BY <1>2

LEMMA TotalEmpty ==
  ASSUME NEW f
  PROVE  Total(f, {}) = 0
  <1>1. PICK it \in [SUBSET {} -> Int] : IsFold(it, f, {})
    BY FS_EmptySet, FoldExists
  <1>2. Total(f, {}) = it[{}]
    BY <1>1, FS_EmptySet, TotalIs
  <1>3. it[{}] = 0
    BY <1>1 DEF IsFold
  <1> QED BY <1>2, <1>3

\* Functions that agree have one sum.
LEMMA TotalSame ==
  ASSUME NEW f, NEW g, NEW S, \A x \in S : f[x] = g[x]
  PROVE  Total(f, S) = Total(g, S)
  <1>1. [x \in S |-> f[x]] = [x \in S |-> g[x]]
    OBVIOUS
  <1> QED BY <1>1 DEF Total

\* Any element may be taken first.
LEMMA TotalSplit ==
  ASSUME NEW f, NEW S, IsFiniteSet(S), \A x \in S : f[x] \in Int, NEW y \in S
  PROVE  Total(f, S) = f[y] + Total(f, S \ {y})
  <1>1. PICK it \in [SUBSET S -> Int] : IsFold(it, f, S)
    BY FoldExists
  <1>2. \A T \in SUBSET S : it[T] = IF T = {} THEN 0 ELSE f[Pick(T)] + it[T \ {Pick(T)}]
    BY <1>1 DEF IsFold
  <1> DEFINE C == {T \in SUBSET S : \A x \in T : it[T] = f[x] + it[T \ {x}]}
             D == (SUBSET S) \ C
  <1>3. S \in C
    <2> SUFFICES ASSUME S \notin C PROVE FALSE
      OBVIOUS
    <2>1. D \subseteq SUBSET S /\ S \in D
      OBVIOUS
    <2>2. PICK T \in D : \A U \in D : U \subseteq T => U = T
      <3> HIDE DEF D
      <3> QED BY <2>1, SmallestSubset
    <2>3. PICK x \in T : it[T] # f[x] + it[T \ {x}]
      BY <2>2
    <2> DEFINE p == Pick(T)
               U == T \ {p}
               V == T \ {x}
    <2>4. p \in T /\ it[T] = f[p] + it[U] /\ p # x
      BY <1>2, <2>2, <2>3, PickIn
    <2>5. U \in C /\ V \in C
      <3>1. U \subseteq T /\ U # T /\ V \subseteq T /\ V # T /\ T \subseteq S
        BY <2>2, <2>3, <2>4
      <3>2. U \notin D /\ V \notin D
        <4> HIDE DEF U, V, D
        <4> QED BY <2>2, <3>1
      <3> QED BY <3>1, <3>2
    <2> DEFINE W == T \ {p, x}
    <2>6. W = U \ {x} /\ W = V \ {p} /\ x \in U /\ p \in V /\ W \in SUBSET S
      BY <2>2, <2>3, <2>4
    <2>7. it[U] = f[x] + it[W] /\ it[V] = f[p] + it[W]
      BY <2>5, <2>6
    <2>8. f[x] \in Int /\ f[p] \in Int /\ it[W] \in Int
      BY <1>1, <2>2, <2>3, <2>4, <2>6
    <2> HIDE DEF p, U, V, W
    <2>9. it[T] = f[x] + it[V]
      BY <2>4, <2>7, <2>8
    <2> QED BY <2>3, <2>9 DEF V
  <1>4. Total(f, S) = it[S] /\ Total(f, S \ {y}) = it[S \ {y}]
    BY <1>1, TotalIs
  <1> QED BY <1>3, <1>4
\* Two sets without a common element.
LEMMA TotalUnion ==
  ASSUME NEW f, NEW S, NEW T, IsFiniteSet(S), IsFiniteSet(T), S \cap T = {},
         \A x \in S \cup T : f[x] \in Int
  PROVE  Total(f, S \cup T) = Total(f, S) + Total(f, T)
  <1> DEFINE C == {U \in SUBSET T : Total(f, S \cup U) = Total(f, S) + Total(f, U)}
  <1>1. {} \in C
    <2>1. S \cup {} = S /\ Total(f, S) \in Int
      BY TotalType
    <2> QED BY <2>1, TotalEmpty
  <1>2. ASSUME NEW U \in SUBSET T, NEW x \in U, U \ {x} \in C
        PROVE  U \in C
    <2>1. IsFiniteSet(U) /\ IsFiniteSet(S \cup U) /\ IsFiniteSet(U \ {x})
      BY FS_Subset, FS_Union
    <2>2. Total(f, U) = f[x] + Total(f, U \ {x})
      BY <2>1, TotalSplit
    <2>3. Total(f, S \cup U) = f[x] + Total(f, (S \cup U) \ {x})
      BY <2>1, TotalSplit
    <2>4. (S \cup U) \ {x} = S \cup (U \ {x})
      OBVIOUS
    <2>5. Total(f, S) \in Int /\ Total(f, U \ {x}) \in Int /\ f[x] \in Int
      BY <2>1, TotalType
    <2>6. Total(f, S \cup (U \ {x})) = Total(f, S) + Total(f, U \ {x})
      BY <1>2
    <2>7. Total(f, S \cup U) = f[x] + (Total(f, S) + Total(f, U \ {x}))
      BY <2>3, <2>4, <2>6, Zenon
    <2>8. Total(f, S \cup U) = Total(f, S) + Total(f, U)
      BY <2>2, <2>5, <2>7
    <2> QED BY <2>8
  <1>3. T \in C
    <2> HIDE DEF C
    <2> QED BY <1>1, <1>2, SetInduction
  <1> QED BY <1>3

\* Zeros may be left out.
LEMMA TotalZero ==
  ASSUME NEW f, NEW S, IsFiniteSet(S), \A x \in S : f[x] = 0
  PROVE  Total(f, S) = 0
  <1> DEFINE C == {U \in SUBSET S : Total(f, U) = 0}
  <1>1. {} \in C
    BY TotalEmpty
  <1>2. ASSUME NEW U \in SUBSET S, NEW x \in U, U \ {x} \in C
        PROVE  U \in C
    <2>1. IsFiniteSet(U) /\ \A y \in U : f[y] \in Int
      BY FS_Subset
    <2>2. Total(f, U) = f[x] + Total(f, U \ {x})
      BY <2>1, TotalSplit
    <2> QED BY <1>2, <2>2
  <1>3. S \in C
    <2> HIDE DEF C
    <2> QED BY <1>1, <1>2, SetInduction
  <1> QED BY <1>3

LEMMA TotalDropZeros ==
  ASSUME NEW f, NEW S, NEW T, IsFiniteSet(T), S \subseteq T,
         \A x \in S : f[x] \in Int, \A x \in T \ S : f[x] = 0
  PROVE  Total(f, T) = Total(f, S)
  <1>1. IsFiniteSet(S) /\ IsFiniteSet(T \ S) /\ S \cup (T \ S) = T
    BY FS_Subset
  <1>2. \A x \in S \cup (T \ S) : f[x] \in Int
    OBVIOUS
  <1>3. Total(f, S \cup (T \ S)) = Total(f, S) + Total(f, T \ S)
    BY <1>1, <1>2, TotalUnion
  <1>4. Total(f, T \ S) = 0 /\ Total(f, S) \in Int
    BY <1>1, TotalZero, TotalType
  <1>5. Total(f, T) = Total(f, S) + Total(f, T \ S)
    BY <1>1, <1>3, Zenon
  <1> QED BY <1>4, <1>5

LEMMA TotalDifference ==
  ASSUME NEW f, NEW g, NEW h, NEW S, IsFiniteSet(S),
         \A x \in S : f[x] \in Int /\ g[x] \in Int /\ h[x] = g[x] - f[x]
  PROVE  Total(h, S) = Total(g, S) - Total(f, S)
  <1> DEFINE C == {U \in SUBSET S : Total(h, U) = Total(g, U) - Total(f, U)}
  <1>1. {} \in C
    BY TotalEmpty
  <1>2. ASSUME NEW U \in SUBSET S, NEW x \in U, U \ {x} \in C
        PROVE  U \in C
    <2>1. IsFiniteSet(U) /\ IsFiniteSet(U \ {x})
      BY FS_Subset
    <2>2. \A y \in U : f[y] \in Int /\ g[y] \in Int /\ h[y] \in Int
      OBVIOUS
    <2>3. /\ Total(f, U) = f[x] + Total(f, U \ {x})
          /\ Total(g, U) = g[x] + Total(g, U \ {x})
          /\ Total(h, U) = h[x] + Total(h, U \ {x})
      BY <2>1, <2>2, TotalSplit
    <2>4. Total(f, U \ {x}) \in Int /\ Total(g, U \ {x}) \in Int
      BY <2>1, <2>2, TotalType
    <2>5. Total(h, U \ {x}) = Total(g, U \ {x}) - Total(f, U \ {x})
      BY <1>2
    <2>6. x \in S
      OBVIOUS
    <2>7. Total(h, U) = Total(g, U) - Total(f, U)
      BY <2>2, <2>3, <2>4, <2>5, <2>6
    <2> QED BY <2>7
  <1>3. S \in C
    <2> HIDE DEF C
    <2> QED BY <1>1, <1>2, SetInduction
  <1> QED BY <1>3

\* A set is as large as the sum of a one for each element.
LEMMA TotalOnes ==
  ASSUME NEW f, NEW S, IsFiniteSet(S), \A x \in S : f[x] = 1
  PROVE  Total(f, S) = Cardinality(S)
  <1> DEFINE C == {U \in SUBSET S : Total(f, U) = Cardinality(U)}
  <1>1. {} \in C
    BY TotalEmpty, FS_EmptySet
  <1>2. ASSUME NEW U \in SUBSET S, NEW x \in U, U \ {x} \in C
        PROVE  U \in C
    <2>1. IsFiniteSet(U) /\ \A y \in U : f[y] \in Int
      BY FS_Subset
    <2>2. Total(f, U) = f[x] + Total(f, U \ {x}) /\ f[x] = 1
      BY <2>1, TotalSplit
    <2>3. Cardinality(U \ {x}) = Cardinality(U) - 1 /\ Cardinality(U) \in Nat
      BY <2>1, FS_RemoveElement, FS_CardinalityType
    <2> QED BY <1>2, <2>2, <2>3
  <1>3. S \in C
    <2> HIDE DEF C
    <2> QED BY <1>1, <1>2, SetInduction
  <1> QED BY <1>3

\* Sums by part add up to the sum over all parts.
LEMMA TotalByPart ==
  ASSUME NEW f, NEW S, IsFiniteSet(S), \A x \in S : f[x] \in Int,
         NEW N, IsFiniteSet(N), NEW part, \A n \in N : part[n] \subseteq S,
         \A m, n \in N : m # n => part[m] \cap part[n] = {},
         NEW sums, \A n \in N : sums[n] = Total(f, part[n])
  PROVE  Total(sums, N) = Total(f, UNION {part[n] : n \in N})
  <1> DEFINE All(M) == UNION {part[n] : n \in M}
             C == {M \in SUBSET N : Total(sums, M) = Total(f, All(M))}
  <1>0. \A n \in N : IsFiniteSet(part[n]) /\ sums[n] \in Int
    <2> TAKE n \in N
    <2>1. IsFiniteSet(part[n]) /\ \A x \in part[n] : f[x] \in Int
      BY FS_Subset
    <2> QED BY <2>1, TotalType
  <1>1. {} \in C
    <2>1. All({}) = {}
      OBVIOUS
    <2> QED BY <2>1, TotalEmpty
  <1>2. ASSUME NEW M \in SUBSET N, NEW n \in M, M \ {n} \in C
        PROVE  M \in C
    <2>1. IsFiniteSet(M) /\ \A m \in M : sums[m] \in Int
      BY <1>0, FS_Subset
    <2>2. Total(sums, M) = sums[n] + Total(sums, M \ {n})
      BY <2>1, TotalSplit
    <2>3. All(M) = All(M \ {n}) \cup part[n]
      OBVIOUS
    <2>4. All(M \ {n}) \cap part[n] = {}
      <3>1. \A m \in M \ {n} : part[m] \cap part[n] = {}
        OBVIOUS
      <3> QED BY <3>1
    <2>5. All(M \ {n}) \subseteq S /\ part[n] \subseteq S
      OBVIOUS
    <2>6. Total(sums, M \ {n}) = Total(f, All(M \ {n}))
      BY <1>2
    <2> HIDE DEF All
    <2>7. IsFiniteSet(All(M \ {n})) /\ IsFiniteSet(part[n])
      BY <2>5, FS_Subset
    <2>8. Total(f, All(M)) = Total(f, All(M \ {n})) + Total(f, part[n])
      <3>1. \A x \in All(M \ {n}) \cup part[n] : f[x] \in Int
        BY <2>5
      <3>2. PICK A, B : A = All(M \ {n}) /\ B = part[n]
        OBVIOUS
      <3>3. IsFiniteSet(A) /\ IsFiniteSet(B) /\ A \cap B = {} /\ \A x \in A \cup B : f[x] \in Int
        BY <2>4, <2>7, <3>1, <3>2
      <3>4. Total(f, A \cup B) = Total(f, A) + Total(f, B)
        BY <3>3, TotalUnion
      <3> QED BY <2>3, <3>2, <3>4, Zenon
    <2>9. Total(f, All(M \ {n})) \in Int /\ Total(f, part[n]) \in Int /\ sums[n] = Total(f, part[n])
      BY <2>5, <2>7, TotalType
    <2>10. Total(sums, M) = Total(f, All(M))
      BY <2>2, <2>6, <2>8, <2>9
    <2> QED BY <2>10
  <1>3. N \in C
    <2> HIDE DEF C
    <2> QED BY <1>1, <1>2, SetInduction
  <1> QED BY <1>3

LEMMA RangesFinite == \A a, b \in Int : IsFiniteSet(a..b)
  BY FS_Interval

-----------------------------------------------------------------------------
(* The groups of a report.                                                 *)

USE QuotesAssumption, HoldingsAssumption, ReportsAssumption

\* The holdings are finitely many, their amounts numbers.
LEMMA AmountsAreNumbers ==
  ASSUME HoldingsTypeOK, asks \in Workloads
  PROVE  /\ IsFiniteSet(DOMAIN holdings)
         /\ DOMAIN holdings \subseteq Nat
         /\ \A h \in DOMAIN holdings : holdings[h].invested \in Nat /\ holdings[h].value \in Nat
  <1>1. issued \in Nat /\ DOMAIN holdings \subseteq 1..issued
    BY DEF HoldingsTypeOK
  <1>2. IsFiniteSet(DOMAIN holdings)
    <2>1. IsFiniteSet(1..issued)
      BY <1>1, RangesFinite
    <2> QED BY <1>1, <2>1, FS_Subset
  <1>3. ASSUME NEW h \in DOMAIN holdings
        PROVE  holdings[h].invested \in Nat /\ holdings[h].value \in Nat
    <2>1. holdings[h] \in HoldingRow
      BY DEF HoldingsTypeOK
    <2> QED BY <2>1 DEF HoldingRow, Row
  <1> QED BY <1>1, <1>2, <1>3

InvestedOf == [h \in DOMAIN holdings |-> holdings[h].invested]
ValueOf == [h \in DOMAIN holdings |-> holdings[h].value]

LEMMA SumsOfRows ==
  ASSUME NEW hs, hs \subseteq DOMAIN holdings
  PROVE  Invested(hs) = Total(InvestedOf, hs) /\ Current(hs) = Total(ValueOf, hs)
  <1>1. [h \in hs |-> holdings[h].invested] = [h \in hs |-> InvestedOf[h]]
    BY DEF InvestedOf
  <1>2. [h \in hs |-> holdings[h].value] = [h \in hs |-> ValueOf[h]]
    BY DEF ValueOf
  <1> QED BY <1>1, <1>2 DEF Total, Invested, Current

LEMMA RowsAreNumbers ==
  ASSUME HoldingsTypeOK, asks \in Workloads, NEW hs, hs \subseteq DOMAIN holdings
  PROVE  /\ IsFiniteSet(hs)
         /\ \A h \in hs : InvestedOf[h] \in Int /\ ValueOf[h] \in Int
         /\ Invested(hs) \in Int /\ Current(hs) \in Int
  <1>1. IsFiniteSet(hs)
    BY AmountsAreNumbers, FS_Subset
  <1>2. \A h \in hs : InvestedOf[h] \in Int /\ ValueOf[h] \in Int
    BY AmountsAreNumbers DEF InvestedOf, ValueOf
  <1>3. Invested(hs) \in Int /\ Current(hs) \in Int
    BY <1>1, <1>2, TotalType, SumsOfRows
  <1> QED BY <1>1, <1>2, <1>3

\* A function by group: its sum is that over the names.
LEMMA SumIsTotal ==
  ASSUME NEW f, NEW S, f = [x \in S |-> f[x]]
  PROVE  SumFunction(f) = Total(f, S)
  BY DEF Total

Names(hs, column) == {holdings[h][column] : h \in hs}

\* The names of a column are finitely many.
LEMMA NamesFinite ==
  ASSUME NEW hs, IsFiniteSet(hs), NEW column
  PROVE  IsFiniteSet(Names(hs, column))
  <1> DEFINE name == [h \in hs |-> holdings[h][column]]
             names == Names(hs, column)
  <1>1. name \in Surjection(hs, names)
    BY DEF Surjection, Names
  <1> HIDE DEF name
  <1> QED BY <1>1, FS_Surjection

\* GROUP BY loses nothing: the groups of a breakdown make up the totals.
LEMMA BreakdownAddsUp ==
  ASSUME HoldingsTypeOK, asks \in Workloads, NEW hs, hs \subseteq DOMAIN holdings, NEW column
  PROVE  /\ SumOf(Breakdown(hs, column)) = Amounts(hs)
         /\ IsFiniteSet(DOMAIN Breakdown(hs, column))
         /\ \A n \in DOMAIN Breakdown(hs, column) :
              /\ Breakdown(hs, column)[n].invested \in Int
              /\ Breakdown(hs, column)[n].current \in Int
  <1> DEFINE N == {holdings[h][column] : h \in hs}
             part == [n \in N |-> {h \in hs : holdings[h][column] = n}]
             groups == Breakdown(hs, column)
             invested == [n \in N |-> groups[n].invested]
             current == [n \in N |-> groups[n].current]
  <1>1. IsFiniteSet(hs) /\ \A h \in hs : InvestedOf[h] \in Int /\ ValueOf[h] \in Int
    BY RowsAreNumbers
  <1>2. IsFiniteSet(N)
    <2>1. IsFiniteSet(hs)
      BY <1>1
    <2>2. IsFiniteSet(Names(hs, column))
      BY <2>1, NamesFinite
    <2> QED BY <2>2 DEF Names
  <1>3. DOMAIN groups = N /\ \A n \in N : groups[n] = Amounts(part[n])
    BY DEF Breakdown
  <1>4. \A n \in N : part[n] \subseteq hs /\ part[n] \subseteq DOMAIN holdings
    OBVIOUS
  <1>5. \A m, n \in N : m # n => part[m] \cap part[n] = {}
    OBVIOUS
  <1>6. UNION {part[n] : n \in N} = hs
    <2>1. \A h \in hs : holdings[h][column] \in N /\ h \in part[holdings[h][column]]
      OBVIOUS
    <2> HIDE DEF N, part
    <2> QED BY <1>4, <2>1
  <1> HIDE DEF N, part, groups
  <1>7. \A n \in N : groups[n].invested = Total(InvestedOf, part[n]) /\ groups[n].current = Total(ValueOf, part[n])
    BY <1>3, <1>4, SumsOfRows DEF Amounts
  <1>8. \A n \in N : invested[n] = Total(InvestedOf, part[n]) /\ current[n] = Total(ValueOf, part[n])
    BY <1>7
  <1>9. SumFunction(invested) = Total(invested, N) /\ SumFunction(current) = Total(current, N)
    <2>1. invested = [n \in N |-> invested[n]] /\ current = [n \in N |-> current[n]]
      OBVIOUS
    <2> HIDE DEF invested, current
    <2> QED BY <2>1, SumIsTotal
  <1>10. SumOf(groups) = [invested |-> SumFunction(invested), current |-> SumFunction(current)]
    BY <1>3 DEF SumOf
  <1> HIDE DEF invested, current
  <1>11. Total(invested, N) = Total(InvestedOf, UNION {part[n] : n \in N})
    BY <1>1, <1>2, <1>4, <1>5, <1>8, TotalByPart
  <1>12. Total(current, N) = Total(ValueOf, UNION {part[n] : n \in N})
    BY <1>1, <1>2, <1>4, <1>5, <1>8, TotalByPart
  <1>13. SumOf(groups) = Amounts(hs)
    BY <1>6, <1>9, <1>10, <1>11, <1>12, SumsOfRows DEF Amounts
  <1>14. \A n \in N : groups[n].invested \in Int /\ groups[n].current \in Int
    BY <1>3, <1>4, RowsAreNumbers DEF Amounts
  <1> QED BY <1>2, <1>3, <1>13, <1>14 DEF groups

\* The differences over all names of either month make up the difference of the sums.
LEMMA ComparedAddsUp ==
  ASSUME NEW from, NEW to, IsFiniteSet(DOMAIN from), IsFiniteSet(DOMAIN to),
         \A n \in DOMAIN from : from[n].invested \in Int /\ from[n].current \in Int,
         \A n \in DOMAIN to : to[n].invested \in Int /\ to[n].current \in Int
  PROVE  SumOf(Compared(from, to)) = Difference(SumOf(from), SumOf(to))
  <1> DEFINE N == DOMAIN from \cup DOMAIN to
             a == [n \in N |-> AmountsIn(from, n).invested]
             b == [n \in N |-> AmountsIn(to, n).invested]
             d == [n \in N |-> Compared(from, to)[n].invested]
             x == [n \in N |-> AmountsIn(from, n).current]
             y == [n \in N |-> AmountsIn(to, n).current]
             z == [n \in N |-> Compared(from, to)[n].current]
             fi == [n \in DOMAIN from |-> from[n].invested]
             ti == [n \in DOMAIN to |-> to[n].invested]
             fc == [n \in DOMAIN from |-> from[n].current]
             tc == [n \in DOMAIN to |-> to[n].current]
  <1>1. IsFiniteSet(N)
    BY FS_Union
  <1>2. \A n \in DOMAIN from : a[n] = fi[n] /\ x[n] = fc[n] /\ fi[n] \in Int /\ fc[n] \in Int
    BY DEF AmountsIn
  <1>3. \A n \in N \ DOMAIN from : a[n] = 0 /\ x[n] = 0
    BY DEF AmountsIn, Nothing
  <1>4. \A n \in DOMAIN to : b[n] = ti[n] /\ y[n] = tc[n] /\ ti[n] \in Int /\ tc[n] \in Int
    BY DEF AmountsIn
  <1>5. \A n \in N \ DOMAIN to : b[n] = 0 /\ y[n] = 0
    BY DEF AmountsIn, Nothing
  <1>6. \A n \in N : d[n] = b[n] - a[n] /\ z[n] = y[n] - x[n]
    BY DEF Compared, Difference
  <1>7. SumOf(from) = [invested |-> Total(fi, DOMAIN from), current |-> Total(fc, DOMAIN from)]
    <2>1. fi = [n \in DOMAIN from |-> fi[n]] /\ fc = [n \in DOMAIN from |-> fc[n]]
      OBVIOUS
    <2>2. SumOf(from) = [invested |-> SumFunction(fi), current |-> SumFunction(fc)]
      BY DEF SumOf
    <2> HIDE DEF fi, fc
    <2> QED BY <2>1, <2>2, SumIsTotal
  <1>8. SumOf(to) = [invested |-> Total(ti, DOMAIN to), current |-> Total(tc, DOMAIN to)]
    <2>1. ti = [n \in DOMAIN to |-> ti[n]] /\ tc = [n \in DOMAIN to |-> tc[n]]
      OBVIOUS
    <2>2. SumOf(to) = [invested |-> SumFunction(ti), current |-> SumFunction(tc)]
      BY DEF SumOf
    <2> HIDE DEF ti, tc
    <2> QED BY <2>1, <2>2, SumIsTotal
  <1>9. SumOf(Compared(from, to)) = [invested |-> Total(d, N), current |-> Total(z, N)]
    <2>1. d = [n \in N |-> d[n]] /\ z = [n \in N |-> z[n]]
      OBVIOUS
    <2>2. DOMAIN Compared(from, to) = N
      BY DEF Compared
    <2>3. SumOf(Compared(from, to)) = [invested |-> SumFunction(d), current |-> SumFunction(z)]
      BY <2>2 DEF SumOf
    <2> HIDE DEF d, z, N
    <2> QED BY <2>1, <2>3, SumIsTotal
  <1> DEFINE F == DOMAIN from
             T == DOMAIN to
  <1>10. F \subseteq N /\ T \subseteq N
    OBVIOUS
  <1> HIDE DEF N, F, T, a, b, d, x, y, z, fi, ti, fc, tc
  <1>11. Total(a, N) = Total(fi, F) /\ Total(x, N) = Total(fc, F)
    <2>1. Total(a, F) = Total(fi, F) /\ Total(x, F) = Total(fc, F)
      BY <1>2, TotalSame DEF F
    <2>2. Total(a, N) = Total(a, F) /\ Total(x, N) = Total(x, F)
      BY <1>1, <1>2, <1>3, <1>10, TotalDropZeros DEF F
    <2> QED BY <2>1, <2>2
  <1>12. Total(b, N) = Total(ti, T) /\ Total(y, N) = Total(tc, T)
    <2>1. Total(b, T) = Total(ti, T) /\ Total(y, T) = Total(tc, T)
      BY <1>4, TotalSame DEF T
    <2>2. Total(b, N) = Total(b, T) /\ Total(y, N) = Total(y, T)
      BY <1>1, <1>4, <1>5, <1>10, TotalDropZeros DEF T
    <2> QED BY <2>1, <2>2
  <1>13. \A n \in N : a[n] \in Int /\ b[n] \in Int /\ x[n] \in Int /\ y[n] \in Int
    BY <1>2, <1>3, <1>4, <1>5 DEF F, T
  <1>14. Total(d, N) = Total(b, N) - Total(a, N) /\ Total(z, N) = Total(y, N) - Total(x, N)
    BY <1>1, <1>6, <1>13, TotalDifference
  <1> QED BY <1>7, <1>8, <1>9, <1>11, <1>12, <1>14 DEF Difference, F, T

\* The answers to the queries of a summary.
LEMMA SummaryAddsUp ==
  ASSUME HoldingsTypeOK, asks \in Workloads, NEW u, NEW q
  PROVE  /\ AddsUp(Answer(u, <<"totals", q>>), Answer(u, <<"type", q>>))
         /\ AddsUp(Answer(u, <<"totals", q>>), Answer(u, <<"platform", q>>))
  <1>1. Chosen(u, q) \subseteq DOMAIN holdings
    BY DEF Chosen
  <1>2. Answer(u, <<"totals", q>>) = GetTotals(Chosen(u, q))
    BY DEF Answer
  <1>3. /\ Answer(u, <<"type", q>>) = Breakdown(Chosen(u, q), "type")
        /\ Answer(u, <<"platform", q>>) = Breakdown(Chosen(u, q), "platform")
    BY DEF Answer
  <1>4. /\ SumOf(Breakdown(Chosen(u, q), "type")) = Amounts(Chosen(u, q))
        /\ SumOf(Breakdown(Chosen(u, q), "platform")) = Amounts(Chosen(u, q))
    BY <1>1, BreakdownAddsUp
  <1> QED BY <1>2, <1>3, <1>4 DEF AddsUp, GetTotals, Amounts

\* The answers to the queries of a comparison.
LEMMA ComparisonAddsUp ==
  ASSUME HoldingsTypeOK, asks \in Workloads, NEW u, NEW from, NEW to, NEW column \in {"type", "platform"}
  PROVE  SumOf(Compared(Answer(u, <<column, from>>), Answer(u, <<column, to>>))) =
           Difference(Answer(u, <<"totals", from>>), Answer(u, <<"totals", to>>))
  <1>1. Chosen(u, from) \subseteq DOMAIN holdings /\ Chosen(u, to) \subseteq DOMAIN holdings
    BY DEF Chosen
  <1>2. /\ Answer(u, <<"totals", from>>) = GetTotals(Chosen(u, from))
        /\ Answer(u, <<"totals", to>>) = GetTotals(Chosen(u, to))
        /\ Answer(u, <<column, from>>) = Breakdown(Chosen(u, from), column)
        /\ Answer(u, <<column, to>>) = Breakdown(Chosen(u, to), column)
    BY DEF Answer
  <1> DEFINE f == Breakdown(Chosen(u, from), column)
             t == Breakdown(Chosen(u, to), column)
  <1>3. SumOf(f) = Amounts(Chosen(u, from)) /\ SumOf(t) = Amounts(Chosen(u, to))
    BY <1>1, BreakdownAddsUp
  <1>4. SumOf(Compared(f, t)) = Difference(SumOf(f), SumOf(t))
    <2>1. /\ IsFiniteSet(DOMAIN f) /\ \A n \in DOMAIN f : f[n].invested \in Int /\ f[n].current \in Int
          /\ IsFiniteSet(DOMAIN t) /\ \A n \in DOMAIN t : t[n].invested \in Int /\ t[n].current \in Int
      BY <1>1, BreakdownAddsUp
    <2> HIDE DEF f, t
    <2> QED BY <2>1, ComparedAddsUp
  <1> HIDE DEF f, t
  <1>5. Difference(SumOf(f), SumOf(t)) = Difference(GetTotals(Chosen(u, from)), GetTotals(Chosen(u, to)))
    BY <1>3 DEF Difference, Amounts, GetTotals
  <1> QED BY <1>2, <1>4, <1>5 DEF f, t

-----------------------------------------------------------------------------
(* Months by number.                                                       *)

Number(d) == 12 * d.year + d.month - 1
DateOf(n) == Date((n % 12) + 1, n \div 12)

LEMMA NumberOfDate ==
  ASSUME NEW d, IsDate(d)
  PROVE  Number(d) \in Int /\ DateOf(Number(d)) = d
  <1>1. d.month \in 1..12 /\ d.year \in Int
    BY DEF IsDate
  <1>2. Number(d) \in Int /\ Number(d) \div 12 = d.year /\ Number(d) % 12 = d.month - 1
    BY <1>1 DEF Number
  <1> QED BY <1>2 DEF IsDate, DateOf, Date

LEMMA DateOfNumber ==
  ASSUME NEW n \in Int
  PROVE  /\ IsDate(DateOf(n)) /\ Number(DateOf(n)) = n
         /\ NextMonth(DateOf(n)) = DateOf(n + 1)
         /\ PrevMonth(DateOf(n)) = DateOf(n - 1)
  <1> DEFINE m == n % 12
             y == n \div 12
  <1>1. m \in 0..11 /\ y \in Int /\ n = 12 * y + m
    OBVIOUS
  <1>2. DateOf(n).month = m + 1 /\ DateOf(n).year = y /\ DateOf(n) = Date(m + 1, y)
    BY DEF DateOf, Date
  <1> HIDE DEF m, y
  <1>3. IsDate(DateOf(n)) /\ Number(DateOf(n)) = n
    BY <1>1, <1>2 DEF IsDate, Number
  <1>4. NextMonth(DateOf(n)) = DateOf(n + 1)
    <2>1. CASE m = 11
      <3>1. (n + 1) % 12 = 0 /\ (n + 1) \div 12 = y + 1
        BY <1>1, <2>1
      <3> QED BY <1>1, <1>2, <2>1, <3>1 DEF NextMonth, DateOf, Date
    <2>2. CASE m # 11
      <3>1. (n + 1) % 12 = m + 1 /\ (n + 1) \div 12 = y
        BY <1>1, <2>2
      <3> QED BY <1>1, <1>2, <2>2, <3>1 DEF NextMonth, DateOf, Date
    <2> QED BY <2>1, <2>2
  <1>5. PrevMonth(DateOf(n)) = DateOf(n - 1)
    <2>1. CASE m = 0
      <3>1. (n - 1) % 12 = 11 /\ (n - 1) \div 12 = y - 1
        BY <1>1, <2>1
      <3> QED BY <1>1, <1>2, <2>1, <3>1 DEF PrevMonth, DateOf, Date
    <2>2. CASE m # 0
      <3>1. (n - 1) % 12 = m - 1 /\ (n - 1) \div 12 = y
        BY <1>1, <2>2
      <3> QED BY <1>1, <1>2, <2>2, <3>1 DEF PrevMonth, DateOf, Date
    <2> QED BY <2>1, <2>2
  <1> QED BY <1>3, <1>4, <1>5

LEMMA EarlierIsLess ==
  ASSUME NEW d, NEW e, IsDate(d), IsDate(e)
  PROVE  /\ Earlier(d, e) <=> Number(d) < Number(e)
         /\ Span(<<d, e>>) = Number(d) - Number(e)
  <1> DEFINE dm == d.month
             dy == d.year
             em == e.month
             ey == e.year
  <1>1. dm \in 1..12 /\ dy \in Int /\ em \in 1..12 /\ ey \in Int
    BY DEF IsDate
  <1>2. Earlier(d, e) <=> (dy < ey \/ (dy = ey /\ dm < em))
    BY DEF Earlier
  <1>3. Number(d) = 12 * dy + dm - 1 /\ Number(e) = 12 * ey + em - 1
    BY DEF Number
  <1>4. Span(<<d, e>>) = (dy - ey) * 12 + dm - em
    BY DEF Span
  <1> HIDE DEF dm, dy, em, ey
  <1> QED BY <1>1, <1>2, <1>3, <1>4

\* The loop of GetMonthlyData.
IsWalk(month, first) ==
  month = [k \in 0..maxMonthlyRangeMonths |-> IF k = 0 THEN first ELSE NextMonth(month[k - 1])]

Months(first) == CHOOSE month : IsWalk(month, first)

LEMMA MonthsInOrder ==
  ASSUME NEW first, IsDate(first), NEW k \in 0..maxMonthlyRangeMonths
  PROVE  Months(first)[k] = DateOf(Number(first) + k)
  <1> DEFINE N == 0..maxMonthlyRangeMonths
             month == Months(first)
  <1>1. IsWalk(month, first)
    <2> DEFINE closed == [i \in N |-> DateOf(Number(first) + i)]
    <2>1. ASSUME NEW i \in N
          PROVE  closed[i] = IF i = 0 THEN first ELSE NextMonth(closed[i - 1])
      <3>1. CASE i = 0
        BY <3>1, NumberOfDate
      <3>2. CASE i # 0
        <4>1. i - 1 \in N /\ Number(first) + (i - 1) \in Int /\ (Number(first) + (i - 1)) + 1 = Number(first) + i
          BY <3>2, NumberOfDate
        <4>2. closed[i - 1] = DateOf(Number(first) + (i - 1))
          BY <4>1
        <4> QED BY <3>2, <4>1, <4>2, DateOfNumber
      <3> QED BY <3>1, <3>2
    <2>2. closed = [i \in N |-> IF i = 0 THEN first ELSE NextMonth(closed[i - 1])]
      BY <2>1
    <2> HIDE DEF closed
    <2>3. IsWalk(closed, first)
      BY <2>2 DEF IsWalk
    <2> QED BY <2>3 DEF Months
  <1> HIDE DEF month
  <1>2. \A i \in N : month[i] = IF i = 0 THEN first ELSE NextMonth(month[i - 1])
    BY <1>1 DEF IsWalk
  <1> DEFINE Bad == {i \in N : month[i] # DateOf(Number(first) + i)}
  <1>3. Bad = {}
    <2> SUFFICES ASSUME Bad # {} PROVE FALSE
      OBVIOUS
    <2>1. PICK i \in Bad : \A j \in Bad : i <= j
      <3>1. Bad \subseteq Nat
        OBVIOUS
      <3> HIDE DEF Bad
      <3> QED BY <3>1, LeastNumber
    <2>2. i # 0
      BY <1>2, <2>1, NumberOfDate
    <2>3. i - 1 \in N /\ i - 1 \notin Bad
      BY <2>1, <2>2
    <2>4. month[i - 1] = DateOf(Number(first) + (i - 1))
      BY <2>3
    <2>5. Number(first) + (i - 1) \in Int /\ (Number(first) + (i - 1)) + 1 = Number(first) + i
      BY <2>3, NumberOfDate
    <2>6. month[i] = DateOf(Number(first) + i)
      BY <1>2, <2>1, <2>2, <2>4, <2>5, DateOfNumber
    <2> QED BY <2>1, <2>6
  <1> QED BY <1>3 DEF month

\* The series has the months from the first to the last, one by one.
LEMMA WalkIs ==
  ASSUME NEW first, NEW last, IsDate(first), IsDate(last), NEW data, NEW n \in Nat,
         n = Number(last) - Number(first), n <= maxMonthlyRangeMonths
  PROVE  Walk(first, last, data) =
           [i \in 1..(n + 1) |-> [date |-> DateOf(Number(first) + (i - 1)),
                                  totals |-> MonthOf(data, DateOf(Number(first) + (i - 1)))]]
  <1> DEFINE month == Months(first)
             hits == {k \in 0..maxMonthlyRangeMonths : month[k] = last}
             end == Min(hits)
  <1>1. Walk(first, last, data) =
          [i \in 1..(end + 1) |-> [date |-> month[i - 1], totals |-> MonthOf(data, month[i - 1])]]
    BY DEF Walk, Months, IsWalk
  <1>2. \A k \in 0..maxMonthlyRangeMonths : month[k] = DateOf(Number(first) + k)
    BY MonthsInOrder
  <1> HIDE DEF month
  <1>3. hits = {n}
    <2>1. Number(first) \in Int /\ Number(last) \in Int /\ DateOf(Number(last)) = last
      BY NumberOfDate
    <2>2. n \in 0..maxMonthlyRangeMonths /\ Number(first) + n = Number(last)
      BY <2>1
    <2>3. n \in hits
      BY <1>2, <2>1, <2>2
    <2>4. ASSUME NEW k \in hits
          PROVE  k = n
      <3>1. DateOf(Number(first) + k) = last /\ Number(first) + k \in Int
        BY <1>2, <2>1
      <3>2. Number(last) = Number(first) + k
        BY <3>1, DateOfNumber
      <3> QED BY <2>1, <3>2
    <2> QED BY <2>3, <2>4
  <1>4. end = n
    BY <1>3 DEF Min
  <1>5. \A i \in 1..(n + 1) : month[i - 1] = DateOf(Number(first) + (i - 1))
    BY <1>2
  <1> HIDE DEF end
  <1> QED BY <1>1, <1>4, <1>5

LEMMA NoRows ==
  GetTotals({}) = [count |-> 0, invested |-> 0, current |-> 0]
  <1>1. Invested({}) = 0 /\ Current({}) = 0
    BY SumsOfRows, TotalEmpty
  <1>2. Cardinality({}) = 0
    BY FS_EmptySet
  <1> QED BY <1>1, <1>2, Zenon DEF GetTotals

\* A month of the series has the rows of that month: the query leaves none out.
LEMMA MonthHasItsRows ==
  ASSUME NEW u, NEW range, NEW d, ~Earlier(d, range[2]), ~Earlier(range[1], d)
  PROVE  MonthOf(MonthlyRows(u, range), d) = GetTotals(RowsOf(u, d))
  <1> DEFINE hs == {h \in DOMAIN holdings :
                      /\ holdings[h].owner = u
                      /\ ~Earlier(holdings[h].date, range[2])
                      /\ ~Earlier(range[1], holdings[h].date)}
             data == MonthlyRows(u, range)
  <1>1. /\ DOMAIN data = {holdings[h].date : h \in hs}
        /\ \A e \in DOMAIN data : data[e] = GetTotals({h \in hs : holdings[h].date = e})
    BY DEF MonthlyRows
  <1>2. {h \in hs : holdings[h].date = d} = RowsOf(u, d)
    BY DEF RowsOf
  <1> HIDE DEF data
  <1>3. MonthOf(data, d) = GetTotals(RowsOf(u, d))
    <2>1. CASE d \in DOMAIN data
      BY <1>1, <1>2, <2>1 DEF MonthOf
    <2>2. CASE d \notin DOMAIN data
      <3>1. RowsOf(u, d) = {}
        BY <1>1, <1>2, <2>2
      <3> QED BY <2>2, <3>1, NoRows DEF MonthOf
    <2> QED BY <2>1, <2>2
  <1> QED BY <1>3 DEF data

LEMMA SeriesAddsUp ==
  ASSUME HoldingsTypeOK, asks \in Workloads, NEW c, NEW a, NEW b, IsDate(a), IsDate(b),
         c.range = <<a, b>>, ~Earlier(a, b), ~TooLong(<<a, b>>),
         c.series = Walk(b, a, MonthlyRows(c.user, c.range))
  PROVE  SeriesWhole(c)
  <1> DEFINE n == Number(a) - Number(b)
             I == 1..(n + 1)
             month == [i \in I |-> DateOf(Number(b) + (i - 1))]
             part == [i \in I |-> RowsOf(c.user, month[i])]
             series == c.series
  <1>1. /\ n \in Nat /\ n <= maxMonthlyRangeMonths /\ Span(<<a, b>>) = n
        /\ Number(a) \in Int /\ Number(b) \in Int
    BY EarlierIsLess, NumberOfDate DEF TooLong
  <1>2. series = [i \in I |-> [date |-> DateOf(Number(b) + (i - 1)),
                               totals |-> MonthOf(MonthlyRows(c.user, c.range), DateOf(Number(b) + (i - 1)))]]
    <2> DEFINE data == MonthlyRows(c.user, c.range)
    <2>1. n = Number(a) - Number(b)
      OBVIOUS
    <2>2. series = Walk(b, a, data)
      OBVIOUS
    <2> HIDE DEF n, data
    <2>3. Walk(b, a, data) = [i \in 1..(n + 1) |-> [date |-> DateOf(Number(b) + (i - 1)),
                                totals |-> MonthOf(data, DateOf(Number(b) + (i - 1)))]]
      BY <1>1, <2>1, WalkIs
    <2> QED BY <2>2, <2>3 DEF data
  <1>3. ASSUME NEW i \in I
        PROVE  /\ IsDate(month[i]) /\ Number(month[i]) = Number(b) + (i - 1)
               /\ series[i].date = month[i] /\ series[i].totals = GetTotals(part[i])
               /\ part[i] \subseteq DOMAIN holdings
    <2>1. Number(b) + (i - 1) \in Int
      BY <1>1
    <2>2. IsDate(month[i]) /\ Number(month[i]) = Number(b) + (i - 1)
      BY <2>1, DateOfNumber
    <2>3. ~Earlier(month[i], b) /\ ~Earlier(a, month[i])
      <3>1. ~ (Number(month[i]) < Number(b)) /\ ~ (Number(a) < Number(month[i]))
        <4> HIDE DEF month
        <4> QED BY <1>1, <2>2
      <3> HIDE DEF month
      <3> QED BY <2>2, <3>1, EarlierIsLess
    <2>4. MonthOf(MonthlyRows(c.user, c.range), month[i]) = GetTotals(RowsOf(c.user, month[i]))
      <3>1. c.range[1] = a /\ c.range[2] = b
        OBVIOUS
      <3> HIDE DEF month
      <3> QED BY <2>3, <3>1, MonthHasItsRows
    <2>5. RowsOf(c.user, month[i]) \subseteq DOMAIN holdings
      BY DEF RowsOf
    <2>6. month[i] = DateOf(Number(b) + (i - 1)) /\ part[i] = RowsOf(c.user, month[i])
      OBVIOUS
    <2>7. /\ series[i].date = DateOf(Number(b) + (i - 1))
          /\ series[i].totals = MonthOf(MonthlyRows(c.user, c.range), DateOf(Number(b) + (i - 1)))
      <3> HIDE DEF I
      <3> QED BY <1>2
    <2> HIDE DEF month, part, series
    <2> QED BY <2>2, <2>4, <2>5, <2>6, <2>7
  <1>4. Len(series) = n + 1 /\ DOMAIN series = I
    BY <1>1, <1>2
  <1> DEFINE hs == {h \in DOMAIN holdings : /\ holdings[h].owner = c.user
                                            /\ \E i \in DOMAIN series : series[i].date = holdings[h].date}
  <1>5. UNION {part[i] : i \in I} = hs
    <2>1. ASSUME NEW h \in hs
          PROVE  \E i \in I : h \in part[i]
      <3>1. PICK i \in I : series[i].date = holdings[h].date
        BY <1>4
      <3>2. h \in DOMAIN holdings /\ holdings[h].owner = c.user
        OBVIOUS
      <3>3. part[i] = RowsOf(c.user, series[i].date)
        <4> HIDE DEF I, series, hs
        <4> QED BY <1>3
      <3> QED BY <3>1, <3>2, <3>3 DEF RowsOf
    <2>2. \A i \in I : \A h \in part[i] : h \in hs
      BY <1>3, <1>4 DEF RowsOf
    <2> HIDE DEF hs, part, I
    <2> QED BY <2>1, <2>2
  <1>6. \A i, j \in I : i # j => part[i] \cap part[j] = {}
    <2> SUFFICES ASSUME NEW i \in I, NEW j \in I, NEW h \in part[i], h \in part[j]
                 PROVE  i = j
      OBVIOUS
    <2>1. month[i] = month[j]
      BY DEF RowsOf
    <2>2. Number(month[i]) = Number(b) + (i - 1) /\ Number(month[j]) = Number(b) + (j - 1)
      BY <1>3
    <2> HIDE DEF month
    <2> QED BY <1>1, <2>1, <2>2
  <1>7. IsFiniteSet(I) /\ IsFiniteSet(DOMAIN holdings)
    <2>1. n + 1 \in Int
      BY <1>1
    <2> HIDE DEF n
    <2>2. IsFiniteSet(1..(n + 1))
      BY <2>1, RangesFinite
    <2> QED BY <2>2, AmountsAreNumbers
  <1>8. IsFiniteSet(hs) /\ hs \subseteq DOMAIN holdings
    BY <1>7, FS_Subset
  <1> DEFINE sum(f) == SumFunction([i \in DOMAIN series |-> series[i].totals[f]])
             count == [i \in DOMAIN series |-> series[i].totals["count"]]
             invested == [i \in DOMAIN series |-> series[i].totals["invested"]]
             current == [i \in DOMAIN series |-> series[i].totals["current"]]
             one == [h \in DOMAIN holdings |-> 1]
  <1>9. sum("count") = Total(count, I) /\ sum("invested") = Total(invested, I) /\ sum("current") = Total(current, I)
    <2>1. count = [i \in I |-> count[i]] /\ invested = [i \in I |-> invested[i]] /\ current = [i \in I |-> current[i]]
      BY <1>4
    <2>2. sum("count") = SumFunction(count) /\ sum("invested") = SumFunction(invested) /\ sum("current") = SumFunction(current)
      OBVIOUS
    <2> HIDE DEF sum, count, invested, current, I
    <2> QED BY <2>1, <2>2, SumIsTotal
  <1>10. \A i \in I : /\ count[i] = Cardinality(part[i])
                      /\ invested[i] = Invested(part[i])
                      /\ current[i] = Current(part[i])
    <2> TAKE i \in I
    <2>1. series[i].totals = [count |-> Cardinality(part[i]), invested |-> Invested(part[i]), current |-> Current(part[i])]
      BY <1>3 DEF GetTotals
    <2> HIDE DEF part, I, series
    <2> QED BY <1>4, <2>1
  <1> HIDE DEF sum, count, invested, current, one, part, month, hs, I, n
  <1>11. /\ \A i \in I : part[i] \subseteq DOMAIN holdings
         /\ \A h \in DOMAIN holdings : one[h] = 1 /\ one[h] \in Int
    BY <1>3 DEF one
  <1>12. Total(count, I) = Cardinality(hs)
    <2>1. \A i \in I : count[i] = Total(one, part[i])
      <3> TAKE i \in I
      <3>1. IsFiniteSet(part[i]) /\ \A h \in part[i] : one[h] = 1
        BY <1>7, <1>11, FS_Subset
      <3> QED BY <1>10, <3>1, TotalOnes
    <2>2. Total(count, I) = Total(one, UNION {part[i] : i \in I})
      BY <1>6, <1>7, <1>11, <2>1, TotalByPart
    <2>3. Total(one, hs) = Cardinality(hs)
      BY <1>8, <1>11, TotalOnes
    <2> QED BY <1>5, <2>2, <2>3
  <1>13. Total(invested, I) = Invested(hs) /\ Total(current, I) = Current(hs)
    <2>1. \A h \in DOMAIN holdings : InvestedOf[h] \in Int /\ ValueOf[h] \in Int
      BY RowsAreNumbers
    <2>2. \A i \in I : invested[i] = Total(InvestedOf, part[i]) /\ current[i] = Total(ValueOf, part[i])
      BY <1>10, <1>11, SumsOfRows
    <2>3. Total(invested, I) = Total(InvestedOf, UNION {part[i] : i \in I})
      BY <1>6, <1>7, <1>11, <2>1, <2>2, TotalByPart
    <2>4. Total(current, I) = Total(ValueOf, UNION {part[i] : i \in I})
      BY <1>6, <1>7, <1>11, <2>1, <2>2, TotalByPart
    <2> QED BY <1>5, <1>8, <2>3, <2>4, SumsOfRows
  <1>14. sum("count") = Cardinality(hs) /\ sum("invested") = Invested(hs) /\ sum("current") = Current(hs)
    BY <1>9, <1>12, <1>13
  <1>15. series[1].date = c.range[2] /\ series[Len(series)].date = c.range[1]
    <2>1. 1 \in I /\ n + 1 \in I
      BY <1>1 DEF I
    <2>2. series[1].date = DateOf(Number(b) + (1 - 1)) /\ series[n + 1].date = DateOf(Number(b) + ((n + 1) - 1))
      BY <1>2, <2>1
    <2>3. Number(b) + (1 - 1) = Number(b) /\ Number(b) + ((n + 1) - 1) = Number(a)
      BY <1>1 DEF n
    <2>4. DateOf(Number(a)) = a /\ DateOf(Number(b)) = b
      BY NumberOfDate
    <2> QED BY <1>4, <2>2, <2>3, <2>4
  <1>16. \A i \in 2..Len(series) : Span(<<series[i].date, series[i - 1].date>>) = 1
    <2> TAKE i \in 2..Len(series)
    <2>1. i \in I /\ i - 1 \in I /\ i \in Int
      BY <1>1, <1>4 DEF I
    <2>2. /\ IsDate(series[i].date) /\ Number(series[i].date) = Number(b) + (i - 1)
          /\ IsDate(series[i - 1].date) /\ Number(series[i - 1].date) = Number(b) + ((i - 1) - 1)
      BY <1>3, <2>1
    <2> DEFINE d == series[i].date
               e == series[i - 1].date
    <2> HIDE DEF d, e
    <2>3. IsDate(d) /\ IsDate(e) /\ Number(d) = Number(b) + (i - 1) /\ Number(e) = Number(b) + ((i - 1) - 1)
      BY <2>2 DEF d, e
    <2>4. Span(<<d, e>>) = 1
      BY <1>1, <2>1, <2>3, EarlierIsLess
    <2> QED BY <2>4 DEF d, e
  <1>17. Len(series) = Span(c.range) + 1 /\ Len(series) <= maxMonthlyRangeMonths + 1
    BY <1>1, <1>4
  <1> QED BY <1>14, <1>15, <1>16, <1>17 DEF SeriesWhole, sum, hs

\* Going back month by month.
LEMMA PrevNMonthsIs ==
  ASSUME NEW d, IsDate(d), NEW n \in Nat
  PROVE  PrevNMonths(d, n) = DateOf(Number(d) - n)
  <1> DEFINE N == 0..n
             IsAgo(g) == g = [k \in N |-> IF k = 0 THEN d ELSE PrevMonth(g[k - 1])]
             ago == CHOOSE g : IsAgo(g)
  <1>1. PrevNMonths(d, n) = ago[n]
    BY DEF PrevNMonths
  <1>2. IsAgo(ago)
    <2> DEFINE closed == [i \in N |-> DateOf(Number(d) - i)]
    <2>1. ASSUME NEW i \in N
          PROVE  closed[i] = IF i = 0 THEN d ELSE PrevMonth(closed[i - 1])
      <3>1. CASE i = 0
        BY <3>1, NumberOfDate
      <3>2. CASE i # 0
        <4>1. i - 1 \in N /\ Number(d) - (i - 1) \in Int /\ (Number(d) - (i - 1)) - 1 = Number(d) - i
          BY <3>2, NumberOfDate
        <4>2. closed[i - 1] = DateOf(Number(d) - (i - 1))
          BY <4>1
        <4> QED BY <3>2, <4>1, <4>2, DateOfNumber
      <3> QED BY <3>1, <3>2
    <2>2. IsAgo(closed)
      BY <2>1
    <2> HIDE DEF closed, IsAgo
    <2> QED BY <2>2
  <1> HIDE DEF ago
  <1>3. \A i \in N : ago[i] = IF i = 0 THEN d ELSE PrevMonth(ago[i - 1])
    BY <1>2
  <1> DEFINE Bad == {i \in N : ago[i] # DateOf(Number(d) - i)}
  <1>4. Bad = {}
    <2> SUFFICES ASSUME Bad # {} PROVE FALSE
      OBVIOUS
    <2>1. PICK i \in Bad : \A j \in Bad : i <= j
      <3>1. Bad \subseteq Nat
        OBVIOUS
      <3> HIDE DEF Bad
      <3> QED BY <3>1, LeastNumber
    <2>2. i # 0
      BY <1>3, <2>1, NumberOfDate
    <2>3. i - 1 \in N /\ i - 1 \notin Bad
      BY <2>1, <2>2
    <2>4. ago[i - 1] = DateOf(Number(d) - (i - 1))
      BY <2>3
    <2>5. Number(d) - (i - 1) \in Int /\ (Number(d) - (i - 1)) - 1 = Number(d) - i
      BY <2>3, NumberOfDate
    <2>6. ago[i] = DateOf(Number(d) - i)
      BY <1>3, <2>1, <2>2, <2>4, <2>5, DateOfNumber
    <2> QED BY <2>1, <2>6
  <1>5. n \in N
    OBVIOUS
  <1> QED BY <1>1, <1>4, <1>5

\* A range runs from the later month to the earlier, whatever was asked.
LEMMA RangesAreOrdered ==
  ASSUME NEW start \in Asked, NEW end \in Asked, IsDate(today)
  PROVE  LET range == ParseMonthlyQuery(start, end) IN
         /\ range = <<range[1], range[2]>>
         /\ IsDate(range[1]) /\ IsDate(range[2]) /\ ~Earlier(range[1], range[2])
  <1> DEFINE s == Date(Or(start.month, today.month), Or(start.year, today.year))
             e == IF end.month = None /\ end.year = None THEN PrevNMonths(s, 11)
                  ELSE Date(Or(end.month, s.month), Or(end.year, s.year))
  <1>1. IsDate(s)
    BY DEF IsDate, Date, Or
  <1>2. IsDate(e)
    <2>1. CASE end.month = None /\ end.year = None
      <3>1. PrevNMonths(s, 11) = DateOf(Number(s) - 11) /\ Number(s) - 11 \in Int
        <4> HIDE DEF s
        <4> QED BY <1>1, PrevNMonthsIs, NumberOfDate
      <3> HIDE DEF s
      <3> QED BY <2>1, <3>1, DateOfNumber
    <2>2. CASE ~(end.month = None /\ end.year = None)
      <3>1. s.month \in 1..12 /\ s.year \in Int
        BY <1>1 DEF IsDate
      <3> HIDE DEF s
      <3>2. Or(end.month, s.month) \in 1..12 /\ Or(end.year, s.year) \in Int
        BY <3>1 DEF Or
      <3> QED BY <2>2, <3>2 DEF IsDate, Date
    <2> QED BY <2>1, <2>2
  <1>3. ParseMonthlyQuery(start, end) = IF Earlier(s, e) THEN <<e, s>> ELSE <<s, e>>
    BY DEF ParseMonthlyQuery
  <1> HIDE DEF s, e
  <1>4. Earlier(s, e) => ~Earlier(e, s)
    <2>1. Number(s) \in Int /\ Number(e) \in Int
      BY <1>1, <1>2, NumberOfDate
    <2>2. Earlier(s, e) <=> Number(s) < Number(e)
      BY <1>1, <1>2, EarlierIsLess
    <2>3. Earlier(e, s) <=> Number(e) < Number(s)
      BY <1>1, <1>2, EarlierIsLess
    <2> QED BY <2>1, <2>2, <2>3
  <1> QED BY <1>1, <1>2, <1>3, <1>4

-----------------------------------------------------------------------------
(* What a request knows changes only with the tables.                      *)

LEMMA UsersKept ==
  ASSUME asks' = asks
  PROVE  Users' = Users /\ HoldingRow' = HoldingRow
  BY DEF Users, HoldingRow

LEMMA AnswerKept ==
  ASSUME holdings' = holdings, NEW u, NEW query
  PROVE  Answer(u, query)' = Answer(u, query)
  BY DEF Answer, Chosen, GetTotals, Breakdown, Amounts, Invested, Current

LEMMA MonthlyRowsKept ==
  ASSUME holdings' = holdings, NEW u, NEW range
  PROVE  MonthlyRows(u, range)' = MonthlyRows(u, range)
  BY DEF MonthlyRows, GetTotals, Invested, Current

LEMMA RowsKept ==
  ASSUME holdings' = holdings, NEW u, NEW d
  PROVE  RowsOf(u, d)' = RowsOf(u, d) /\ Copies(RowsOf(u, d))' = Copies(RowsOf(u, d))
  BY DEF RowsOf, Copies

LEMMA IntactKept ==
  ASSUME holdings' = holdings, actions' = actions, NEW t, NEW c, Intact(t, c)
  PROVE  Intact(t, c)'
  <1>1. SyncIntact(t, c) => SyncIntact(t, c)'
    BY DEF SyncIntact
  <1>2. DuplicateIntact(t, c) => DuplicateIntact(t, c)'
    <2>1. /\ RowsOf(c.user, c.to)' = RowsOf(c.user, c.to)
          /\ Copies(RowsOf(c.user, c.from))' = Copies(RowsOf(c.user, c.from))
      BY RowsKept
    <2>2. \A copy : IsCopying(copy, c)' = IsCopying(copy, c)
      BY <2>1 DEF IsCopying
    <2> QED BY <2>1, <2>2 DEF DuplicateIntact
  <1>3. \A i \in DOMAIN c.got : Answer(c.user, c.queries[i])' = Answer(c.user, c.queries[i])
    BY AnswerKept
  <1>4. Walk(c.range[2], c.range[1], MonthlyRows(c.user, c.range))' =
          Walk(c.range[2], c.range[1], MonthlyRows(c.user, c.range))
    BY MonthlyRowsKept
  <1>5. CalendarWhole(c) => CalendarWhole(c)'
    BY DEF CalendarWhole, StoredIn
  <1> QED BY <1>1, <1>2, <1>3, <1>4, <1>5 DEF Intact

\* Ids are given out and announcements made; none is taken back.
Grows == /\ asks' = asks
         /\ issued \in Nat /\ issued' \in Nat /\ issued <= issued'
         /\ announced \subseteq announced'

LEMMA WorkingKept ==
  ASSUME Grows, NEW t, NEW c, Working(t, c)
  PROVE  Working(t, c)'
  <1>1. Users' = Users /\ HoldingRow' = HoldingRow
    BY UsersKept DEF Grows
  <1>2. 1..issued \subseteq 1..issued'
    BY DEF Grows
  <1>3. \A rows : AreRows(rows) => AreRows(rows)'
    BY <1>1, <1>2 DEF AreRows
  <1>4. Updating(t, c) => Updating(t, c)'
    BY <1>1 DEF Updating
  <1>5. Syncing(t, c) => Syncing(t, c)'
    BY <1>3 DEF Syncing
  <1>6. Duplicating(t, c) => Duplicating(t, c)'
    BY <1>3 DEF Duplicating
  <1>7. Watching(t, c) => Watching(t, c)'
    BY DEF Watching, Grows, InMonth
  <1>8. Asking(t, c)' = Asking(t, c) /\ Listing(t, c)' = Listing(t, c) /\ Rating(t, c)' = Rating(t, c)
    OBVIOUS
  <1> QED BY <1>4, <1>5, <1>6, <1>7, <1>8, Zenon DEF Working

-----------------------------------------------------------------------------
(* A step of a request leads it to statements t with locals c.             *)

Leads(r, t, c) ==
  /\ todo' = [todo EXCEPT ![r] = t] /\ call' = [call EXCEPT ![r] = c]
  /\ t # <<>> => Working(t, c)' /\ (r \notin disturbed => Intact(t, c)')

Moves(r) ==
  \/ UNCHANGED requestVars /\ todo[r] = <<>>
  \/ \E t, c : Leads(r, t, c)

LEMMA QuitMoves ==
  ASSUME NEW r, Quit(r)
  PROVE  Moves(r) /\ asks' = asks
  <1>1. Leads(r, <<>>, None)
    BY DEF Quit, Leads
  <1> QED BY <1>1 DEF Quit, Moves

LEMMA GoMoves ==
  ASSUME NEW r, NEW t, NEW c, Go(r, t, c),
         t # <<>> => Working(t, c)' /\ (r \notin disturbed => Intact(t, c)')
  PROVE  Moves(r) /\ asks' = asks
  <1>1. CASE t = <<>>
    BY <1>1, QuitMoves DEF Go
  <1>2. CASE t # <<>>
    <2>1. Leads(r, t, c) /\ asks' = asks
      BY <1>2 DEF Go, Leads
    <2> QED BY <2>1 DEF Moves
  <1> QED BY <1>1, <1>2

LEMMA EnterMoves ==
  ASSUME NEW r, NEW op, NEW t, NEW c, Enter(r, op, c, t),
         Working(t, c)' /\ (r \notin disturbed => Intact(t, c)')
  PROVE  Moves(r) /\ asks' = asks
  <1>1. Leads(r, t, c) /\ asks' = asks
    BY DEF Enter, Leads
  <1> QED BY <1>1 DEF Moves

LEMMA AtOnceMoves ==
  ASSUME NEW r, NEW op, AtOnce(r, op)
  PROVE  Moves(r) /\ asks' = asks
  BY DEF AtOnce, Moves, requestVars

\* Which operation a statement belongs to, and what comes after it.
LEMMA Statements ==
  ASSUME IInv, NEW r \in Requests, NEW t, NEW c, t = todo[r], c = call[r]
  PROVE  /\ At(r, "findType") => Updating(t, c) /\ t = <<"findType", "write", "answer">>
         /\ At(r, "write") => Updating(t, c) /\ t = <<"write", "answer">>
         /\ At(r, "findForSync") => Syncing(t, c) /\ t = <<"findForSync", "cachedQuotes", "fetchQuotes", "quoted", "answer">>
         /\ At(r, "cachedQuotes") =>
              \/ Syncing(t, c) /\ t = <<"cachedQuotes", "fetchQuotes", "quoted", "answer">>
              \/ Rating(t, c) /\ t = <<"cachedQuotes", "fetchQuotes", "quoteRate">>
         /\ At(r, "fetchQuotes") =>
              \/ Syncing(t, c) /\ t = <<"fetchQuotes", "quoted", "answer">>
              \/ Rating(t, c) /\ t = <<"fetchQuotes", "quoteRate">>
         /\ At(r, "quoted") => Syncing(t, c) /\ t = <<"quoted", "answer">>
         /\ At(r, "price") => Syncing(t, c) /\ t = <<"price", "answer">>
         /\ At(r, "quoteRate") => Rating(t, c) /\ t = <<"quoteRate">>
         /\ At(r, "findForDuplicate") => Duplicating(t, c) /\
              t = IF c.overwrite THEN <<"findForDuplicate", "clear", "copy", "answer">>
                  ELSE <<"findForDuplicate", "copy", "answer">>
         /\ At(r, "clear") => Duplicating(t, c) /\ t = <<"clear", "copy", "answer">>
         /\ At(r, "copy") => Duplicating(t, c) /\ t = <<"copy", "answer">>
         /\ At(r, "query") => Asking(t, c) /\ t = <<"query", "answer">>
         /\ At(r, "fetch") => Watching(t, c) /\ t = <<"fetch", "store", "answer">>
         /\ At(r, "store") => Watching(t, c) /\ t = <<"store", "answer">>
         /\ At(r, "answer") => Working(t, c) /\ t = <<"answer">>
  <1>1. t # <<>> => Working(t, c)
    BY DEF IInv, RequestsTyped
  <1>2. \A s : At(r, s) <=> t # <<>> /\ Head(t) = s
    BY DEF At
  <1>3. Updating(t, c) => t \in {<<"findType", "write", "answer">>, <<"write", "answer">>, <<"answer">>}
    BY DEF Updating
  <1>4. Syncing(t, c) => t \in {<<"findForSync", "cachedQuotes", "fetchQuotes", "quoted", "answer">>,
                                <<"cachedQuotes", "fetchQuotes", "quoted", "answer">>,
                                <<"fetchQuotes", "quoted", "answer">>, <<"quoted", "answer">>,
                                <<"price", "answer">>, <<"answer">>}
    BY DEF Syncing
  <1>5. Duplicating(t, c) =>
          \/ t = IF c.overwrite THEN <<"findForDuplicate", "clear", "copy", "answer">>
                 ELSE <<"findForDuplicate", "copy", "answer">>
          \/ t \in {<<"clear", "copy", "answer">>, <<"copy", "answer">>, <<"answer">>}
    BY DEF Duplicating
  <1>6. Asking(t, c) => t \in {<<"query", "answer">>, <<"answer">>}
    BY DEF Asking
  <1>7. Listing(t, c) => t = <<"answer">>
    BY DEF Listing
  <1>8. Rating(t, c) => t \in {<<"cachedQuotes", "fetchQuotes", "quoteRate">>, <<"fetchQuotes", "quoteRate">>, <<"quoteRate">>}
    BY DEF Rating
  <1>9. Watching(t, c) => t \in {<<"fetch", "store", "answer">>, <<"store", "answer">>, <<"answer">>}
    BY DEF Watching
  <1> QED BY <1>1, <1>2, <1>3, <1>4, <1>5, <1>6, <1>7, <1>8, <1>9 DEF Working

-----------------------------------------------------------------------------
(* The tables keep their types.                                            *)

LEMMA HoldingsStay ==
  ASSUME HoldingsTypeOK, asks' = asks, UNCHANGED holdingVars
  PROVE  HoldingsTypeOK' /\ issued' = issued /\ holdings' = holdings /\ today' = today
  BY UsersKept DEF HoldingsTypeOK, holdingVars

LEMMA QuotesStay ==
  ASSUME QuotesTypeOK, asks' = asks, UNCHANGED quoteVars
  PROVE  QuotesTypeOK'
  BY DEF QuotesTypeOK, quoteVars

LEMMA CalendarStays ==
  ASSUME CalendarTypeOK, UNCHANGED calendarVars
  PROVE  CalendarTypeOK' /\ announced' = announced /\ actions' = actions
  BY DEF CalendarTypeOK, calendarVars

LEMMA HoldingsKept ==
  ASSUME HoldingsTypeOK, asks' = asks, today' = today,
         NEW table, holdings' = table, table = [h \in DOMAIN table |-> table[h]],
         issued' \in 0..MaxHoldings(asks), DOMAIN table \subseteq 1..issued',
         \A h \in DOMAIN table : table[h] \in HoldingRow
  PROVE  HoldingsTypeOK'
  <1>1. HoldingRow' = HoldingRow
    BY UsersKept
  <1>2. table \in [DOMAIN table -> HoldingRow]
    OBVIOUS
  <1> QED BY <1>1, <1>2 DEF HoldingsTypeOK

\* A new row gets an id no row had.
LEMMA InsertKeeps ==
  ASSUME HoldingsTypeOK, asks \in Workloads, asks' = asks, today' = today,
         NEW row \in HoldingRow, Insert(row)
  PROVE  /\ HoldingsTypeOK'
         /\ issued' = issued + 1 /\ issued \in Nat
         /\ issued' \notin DOMAIN holdings
         /\ DOMAIN holdings' = DOMAIN holdings \cup {issued'}
         /\ holdings'[issued'] = row
         /\ \A h \in DOMAIN holdings : holdings'[h] = holdings[h]
  <1>1. PICK n, table : n = issued' /\ table = holdings'
    OBVIOUS
  <1>2. n = issued + 1 /\ table = Put(holdings, [h \in {n} |-> row]) /\ issued < MaxHoldings(asks)
    BY <1>1 DEF Insert
  <1>3. issued \in Nat /\ MaxHoldings(asks) \in Nat /\ DOMAIN holdings \subseteq 1..issued
    BY DEF HoldingsTypeOK
  <1>4. n \notin DOMAIN holdings
    BY <1>2, <1>3
  <1>5. /\ table = [h \in DOMAIN table |-> table[h]]
        /\ DOMAIN table = DOMAIN holdings \cup {n}
        /\ table[n] = row
        /\ \A h \in DOMAIN holdings : table[h] = holdings[h]
    <2> DEFINE new == [h \in {n} |-> row]
    <2>1. DOMAIN new = {n} /\ new[n] = row
      OBVIOUS
    <2> HIDE DEF new
    <2> QED BY <1>2, <1>4, <2>1 DEF Put
  <1>6. \A h \in DOMAIN table : table[h] \in HoldingRow
    BY <1>5 DEF HoldingsTypeOK
  <1>7. n \in 0..MaxHoldings(asks) /\ DOMAIN table \subseteq 1..n
    BY <1>2, <1>3, <1>5
  <1>8. HoldingsTypeOK'
    BY <1>1, <1>5, <1>6, <1>7, HoldingsKept
  <1> QED BY <1>1, <1>2, <1>3, <1>4, <1>5, <1>8

LEMMA RemainingKeeps ==
  ASSUME HoldingsTypeOK, asks \in Workloads, asks' = asks, today' = today, issued' = issued,
         NEW hs, holdings' = Remaining(hs)
  PROVE  /\ HoldingsTypeOK'
         /\ DOMAIN holdings' = DOMAIN holdings \ hs
         /\ \A h \in DOMAIN holdings \ hs : holdings'[h] = holdings[h]
  <1>1. PICK table : table = Remaining(hs)
    OBVIOUS
  <1>2. /\ table = [h \in DOMAIN table |-> table[h]]
        /\ DOMAIN table = DOMAIN holdings \ hs
        /\ \A h \in DOMAIN holdings \ hs : table[h] = holdings[h]
    BY <1>1 DEF Remaining
  <1>3. \A h \in DOMAIN table : table[h] \in HoldingRow
    BY <1>2 DEF HoldingsTypeOK
  <1>4. issued' \in 0..MaxHoldings(asks) /\ DOMAIN table \subseteq 1..issued'
    BY <1>2 DEF HoldingsTypeOK
  <1>5. HoldingsTypeOK'
    BY <1>1, <1>2, <1>3, <1>4, HoldingsKept
  <1> QED BY <1>1, <1>2, <1>5

LEMMA WriteKeeps ==
  ASSUME HoldingsTypeOK, asks \in Workloads, asks' = asks, today' = today, issued' = issued,
         NEW h \in DOMAIN holdings, NEW row \in HoldingRow, holdings' = [holdings EXCEPT ![h] = row]
  PROVE  /\ HoldingsTypeOK'
         /\ DOMAIN holdings' = DOMAIN holdings
         /\ holdings'[h] = row
         /\ \A k \in DOMAIN holdings \ {h} : holdings'[k] = holdings[k]
  <1>1. PICK table : table = [holdings EXCEPT ![h] = row]
    OBVIOUS
  <1>2. /\ table = [k \in DOMAIN table |-> table[k]]
        /\ DOMAIN table = DOMAIN holdings
        /\ table[h] = row
        /\ \A k \in DOMAIN holdings \ {h} : table[k] = holdings[k]
    BY <1>1
  <1>3. \A k \in DOMAIN table : table[k] \in HoldingRow
    BY <1>2 DEF HoldingsTypeOK
  <1>4. issued' \in 0..MaxHoldings(asks) /\ DOMAIN table \subseteq 1..issued'
    BY <1>2 DEF HoldingsTypeOK
  <1>5. HoldingsTypeOK'
    BY <1>1, <1>2, <1>3, <1>4, HoldingsKept
  <1> QED BY <1>1, <1>2, <1>5

\* What an invariant step of a request is to its own tables.
Tables == HoldingsTypeOK /\ QuotesTypeOK /\ CalendarTypeOK /\ asks \in Workloads

LEMMA TablesFromInvariant ==
  ASSUME IInv
  PROVE  Tables /\ issued \in Nat
  BY DEF IInv, TypeOK, Tables, RequestsTyped, HoldingsTypeOK

-----------------------------------------------------------------------------
(* What the owner enters.                                                  *)

LEMMA CreateStep ==
  ASSUME IInv, NEW r \in Requests, NEW row \in Entries(asks), CreateHolding(r, row)
  PROVE  Moves(r) /\ asks' = asks /\ HoldingsTypeOK' /\ issued <= issued'
  <1>1. Moves(r) /\ asks' = asks
    BY AtOnceMoves DEF CreateHolding
  <1>2. row \in HoldingRow
    <2>1. row \in Row({e.owner : e \in Entries(asks)}, STRING) /\ row.type \in Types
      BY TablesFromInvariant DEF CreateHolding, Tables
    <2> QED BY <2>1 DEF HoldingRow, Row, Users
  <1>3. Insert(row) /\ today' = today
    BY DEF CreateHolding
  <1>4. HoldingsTypeOK' /\ issued' = issued + 1 /\ issued \in Nat
    BY <1>1, <1>2, <1>3, TablesFromInvariant, InsertKeeps DEF Tables
  <1> QED BY <1>1, <1>4

\* A row with some columns changed is a row, but for its type.
LEMMA ChangedRow ==
  ASSUME NEW users, NEW row, row \in Row(users, Types), NEW change \in Changes
  PROVE  Put(row, change) \in Row(users, STRING)
  <1> DEFINE new == Put(row, change)
             names == {"owner", "date", "symbol", "units", "price", "value", "invested", "type", "platform"}
  <1>1. DOMAIN row = names
    BY DEF Row
  <1>2. DOMAIN Column = names \ {"owner"}
    BY DEF Column
  <1>3. DOMAIN change \subseteq names \ {"owner"} /\ \A column \in DOMAIN change : change[column] \in Column[column]
    BY <1>2
  <1>4. new = [k \in names |-> IF k \in DOMAIN change THEN change[k] ELSE row[k]]
    <2>1. DOMAIN change \cup names = names
      BY <1>3
    <2> HIDE DEF names
    <2> QED BY <1>1, <2>1 DEF Put
  <1>5. \A k \in names \ {"owner"} : row[k] \in Column[k]
    BY DEF Row, Column
  <1>6. \A k \in names \ {"owner"} : new[k] \in Column[k]
    <2> HIDE DEF new
    <2> TAKE k \in names \ {"owner"}
    <2>1. new[k] = IF k \in DOMAIN change THEN change[k] ELSE row[k]
      <3> HIDE DEF names
      <3> QED BY <1>4
    <2>2. row[k] \in Column[k]
      BY <1>5
    <2> HIDE DEF names
    <2> QED BY <1>3, <2>1, <2>2, Zenon
  <1>7. new["owner"] \in users
    <2>1. row["owner"] \in users
      BY DEF Row
    <2>2. "owner" \notin DOMAIN change /\ "owner" \in names
      BY <1>3
    <2> HIDE DEF new, names
    <2> QED BY <1>4, <2>1, <2>2
  <1> HIDE DEF new
  <1>8. new = [k \in names |-> new[k]]
    BY <1>4
  <1>9. /\ new.date \in Dates /\ new.symbol \in Column.symbol /\ new.units \in Column.units
        /\ new.price \in Column.price /\ new.value \in Nat /\ new.invested \in Nat
        /\ new.type \in STRING /\ new.platform \in STRING /\ new.owner \in users
    BY <1>6, <1>7 DEF Column
  <1> QED BY <1>8, <1>9 DEF Row, new

LEMMA UpdateStep ==
  ASSUME IInv, NEW r \in Requests, NEW u, NEW h \in DOMAIN holdings, NEW change \in Changes,
         UpdateHolding(r, u, h, change)
  PROVE  Moves(r) /\ asks' = asks
  <1>1. PICK row : row = Put(holdings[h], change)
    OBVIOUS
  <1>2. PICK c : c = [op |-> "update", user |-> u, holding |-> h, row |-> row]
    OBVIOUS
  <1>3. Enter(r, "update", c, <<"findType", "write", "answer">>)
    BY <1>1, <1>2 DEF UpdateHolding
  <1>4. row \in Row(Users, STRING) /\ asks' = asks
    <2>1. holdings[h] \in Row(Users, Types)
      BY TablesFromInvariant DEF Tables, HoldingsTypeOK, HoldingRow
    <2>2. asks' = asks
      BY <1>3 DEF Enter
    <2> QED BY <1>1, <2>1, <2>2, ChangedRow
  <1>5. Working(<<"findType", "write", "answer">>, c)'
    <2>1. Updating(<<"findType", "write", "answer">>, c)'
      BY <1>2, <1>4, UsersKept DEF Updating, Has
    <2> QED BY <2>1 DEF Working
  <1>6. Intact(<<"findType", "write", "answer">>, c)'
    BY <1>2 DEF Intact
  <1> QED BY <1>3, <1>5, <1>6, EnterMoves

LEMMA FindTypeStep ==
  ASSUME IInv, NEW r \in Requests, FindHoldingType(r)
  PROVE  Moves(r) /\ asks' = asks
  <1>1. PICK t, c : t = todo[r] /\ c = call[r]
    OBVIOUS
  <1>2. Updating(t, c) /\ t = <<"findType", "write", "answer">>
    BY <1>1, Statements DEF FindHoldingType
  <1>3. CASE c.row.type \in Types
    <2>1. Go(r, <<"write", "answer">>, c)
      BY <1>1, <1>2, <1>3 DEF FindHoldingType, Check, Advance, AdvanceWith
    <2>2. asks' = asks
      BY <2>1 DEF Go
    <2>3. Updating(<<"write", "answer">>, c)'
      BY <1>2, <1>3, <2>2, UsersKept DEF Updating
    <2>4. Intact(<<"write", "answer">>, c)'
      BY <1>2 DEF Intact, Updating, Has
    <2> QED BY <2>1, <2>3, <2>4, GoMoves DEF Working
  <1>4. CASE c.row.type \notin Types
    BY <1>1, <1>4, QuitMoves DEF FindHoldingType, Check
  <1> QED BY <1>3, <1>4

LEMMA WriteStep ==
  ASSUME IInv, NEW r \in Requests, WriteHolding(r)
  PROVE  Moves(r) /\ asks' = asks /\ HoldingsTypeOK'
  <1>1. PICK t, c : t = todo[r] /\ c = call[r]
    OBVIOUS
  <1>2. Updating(t, c) /\ t = <<"write", "answer">>
    BY <1>1, Statements DEF WriteHolding
  <1>3. PICK h : h = c.holding
    OBVIOUS
  <1>4. c.row \in HoldingRow
    BY <1>2 DEF Updating, HoldingRow, Row
  <1>5. issued' = issued /\ today' = today
    BY DEF WriteHolding
  <1>6. CASE h \in DOMAIN holdings
    <2>1. Go(r, <<"answer">>, c) /\ holdings' = [holdings EXCEPT ![h] = c.row]
      BY <1>1, <1>2, <1>3, <1>6 DEF WriteHolding, Check, Advance, AdvanceWith
    <2>2. asks' = asks
      BY <2>1 DEF Go
    <2>3. HoldingsTypeOK'
      BY <1>4, <1>5, <1>6, <2>1, <2>2, TablesFromInvariant, WriteKeeps DEF Tables
    <2>4. Updating(<<"answer">>, c)'
      BY <1>2, <2>2, UsersKept DEF Updating
    <2>5. Intact(<<"answer">>, c)'
      BY <1>2 DEF Intact, Updating, Has
    <2> QED BY <2>1, <2>3, <2>4, <2>5, GoMoves DEF Working
  <1>7. CASE h \notin DOMAIN holdings
    <2>1. Quit(r) /\ holdings' = holdings
      BY <1>1, <1>3, <1>7 DEF WriteHolding, Check
    <2>2. Moves(r) /\ asks' = asks
      BY <2>1, QuitMoves
    <2> QED BY <1>5, <2>1, <2>2, TablesFromInvariant, HoldingsStay DEF Tables, holdingVars
  <1> QED BY <1>6, <1>7

LEMMA DeleteStep ==
  ASSUME IInv, NEW r \in Requests, NEW u, NEW h, DeleteHolding(r, u, h)
  PROVE  Moves(r) /\ asks' = asks /\ HoldingsTypeOK'
  <1>1. Moves(r) /\ asks' = asks
    BY AtOnceMoves DEF DeleteHolding
  <1>2. holdings' = Remaining({h}) /\ issued' = issued /\ today' = today
    BY DEF DeleteHolding
  <1> QED BY <1>1, <1>2, TablesFromInvariant, RemainingKeeps DEF Tables

-----------------------------------------------------------------------------
(* Prices.                                                                 *)

\* A step that leaves the tables of holdings and of announcements as they are.
LEMMA GoStays ==
  ASSUME NEW r, NEW t, NEW c, Go(r, t, c), issued \in Nat,
         holdings' = holdings, issued' = issued, actions' = actions, announced' = announced,
         t # <<>> => Working(t, c) /\ (r \notin disturbed => Intact(t, c))
  PROVE  Moves(r) /\ asks' = asks
  <1>1. asks' = asks
    BY DEF Go, Quit
  <1>2. Grows
    BY <1>1 DEF Grows
  <1> QED BY <1>2, GoMoves, WorkingKept, IntactKept

LEMMA EnterStays ==
  ASSUME NEW r, NEW op, NEW t, NEW c, Enter(r, op, c, t), issued \in Nat,
         holdings' = holdings, issued' = issued, actions' = actions, announced' = announced,
         Working(t, c) /\ Intact(t, c)
  PROVE  Moves(r) /\ asks' = asks
  <1>1. asks' = asks
    BY DEF Enter
  <1>2. Grows
    BY <1>1 DEF Grows
  <1> QED BY <1>2, EnterMoves, WorkingKept, IntactKept

LEMMA NoRowsRead == AreRows(<<>>) /\ DOMAIN <<>> = {} /\ AreQuotes(<<>>)
  <1>1. DOMAIN <<>> = {}
    OBVIOUS
  <1>2. <<>> \in [DOMAIN <<>> -> HoldingRow]
    OBVIOUS
  <1> QED BY <1>1, <1>2 DEF AreRows, AreQuotes

\* Sequences are equal when their elements are.
LEMMA SameSequence ==
  ASSUME NEW S, NEW s \in Seq(S), NEW t \in Seq(S), Len(s) = Len(t),
         \A i \in 1..Len(s) : s[i] = t[i]
  PROVE  s = t
  OBVIOUS

LEMMA QuotingStatements ==
  /\ <<"findForSync">> \o Quoting \o <<"quoted", "answer">> =
       <<"findForSync", "cachedQuotes", "fetchQuotes", "quoted", "answer">>
  /\ Quoting \o <<"quoteRate">> = <<"cachedQuotes", "fetchQuotes", "quoteRate">>
  <1> DEFINE s == <<"findForSync">> \o Quoting \o <<"quoted", "answer">>
             t == <<"findForSync", "cachedQuotes", "fetchQuotes", "quoted", "answer">>
             u == Quoting \o <<"quoteRate">>
             v == <<"cachedQuotes", "fetchQuotes", "quoteRate">>
             S == {"findForSync", "cachedQuotes", "fetchQuotes", "quoted", "quoteRate", "answer"}
  <1>1. Len(s) = 5 /\ Len(t) = 5 /\ Len(u) = 3 /\ Len(v) = 3
    BY DEF Quoting
  <1>2. s \in Seq(S) /\ t \in Seq(S) /\ u \in Seq(S) /\ v \in Seq(S)
    <2>1. <<"findForSync">> \in Seq(S) /\ <<"quoted", "answer">> \in Seq(S) /\ <<"quoteRate">> \in Seq(S)
      OBVIOUS
    <2>2. Quoting \in Seq(S)
      BY DEF Quoting
    <2>3. t \in Seq(S)
      OBVIOUS
    <2>4. v \in Seq(S)
      OBVIOUS
    <2> HIDE DEF S
    <2>5. s \in Seq(S) /\ u \in Seq(S)
      BY <2>1, <2>2
    <2> QED BY <2>3, <2>4, <2>5
  <1>3. s[1] = t[1] /\ s[2] = t[2] /\ s[3] = t[3] /\ s[4] = t[4] /\ s[5] = t[5]
    BY DEF Quoting
  <1>4. u[1] = v[1] /\ u[2] = v[2] /\ u[3] = v[3]
    BY DEF Quoting
  <1> HIDE DEF s, t, u, v, S
  <1>5. \A i \in 1..5 : s[i] = t[i]
    BY <1>3
  <1>6. \A i \in 1..3 : u[i] = v[i]
    BY <1>4
  <1>7. s = t /\ u = v
    BY <1>1, <1>2, <1>5, <1>6, SameSequence
  <1> QED BY <1>7 DEF s, t, u, v

LEMMA SyncStartStep ==
  ASSUME IInv, NEW r \in Requests, NEW u, SyncPrices(r, u), UNCHANGED calendarVars
  PROVE  Moves(r) /\ asks' = asks
  <1>1. PICK c : c = [op |-> "sync", user |-> u, date |-> today, rows |-> <<>>, left |-> {},
                      wanted |-> {}, quotes |-> <<>>]
    OBVIOUS
  <1> DEFINE t == <<"findForSync", "cachedQuotes", "fetchQuotes", "quoted", "answer">>
  <1>2. <<"findForSync">> \o Quoting \o <<"quoted", "answer">> = t
    BY QuotingStatements
  <1>3. Enter(r, "sync", c, t)
    BY <1>1, <1>2 DEF SyncPrices
  <1>4. Syncing(t, c)
    BY <1>1, NoRowsRead DEF Syncing, Has
  <1>5. Intact(t, c)
    BY <1>1, NoRowsRead DEF Intact, SyncIntact
  <1>6. holdings' = holdings /\ issued' = issued /\ actions' = actions /\ announced' = announced
    BY DEF SyncPrices, holdingVars, calendarVars
  <1> HIDE DEF t
  <1> QED BY <1>3, <1>4, <1>5, <1>6, TablesFromInvariant, EnterStays DEF Working

\* The ticker of a holding, unless its symbol is blank.
LEMMA TickersOfRows ==
  ASSUME HoldingsTypeOK, NEW h \in DOMAIN holdings
  PROVE  TickerOf(holdings[h]) \in Tickers \cup {None}
  <1>1. holdings[h].symbol \in DOMAIN Ticker \cup {None}
    BY DEF HoldingsTypeOK, HoldingRow, Row, Column
  <1> QED BY <1>1 DEF TickerOf

LEMMA FindForSyncStep ==
  ASSUME IInv, NEW r \in Requests, FindForSync(r), UNCHANGED calendarVars
  PROVE  Moves(r) /\ asks' = asks
  <1>1. PICK t, c : t = todo[r] /\ c = call[r]
    OBVIOUS
  <1>2. Syncing(t, c) /\ t = <<"findForSync", "cachedQuotes", "fetchQuotes", "quoted", "answer">>
    BY <1>1, Statements DEF FindForSync
  <1>3. PICK hs : hs = {h \in RowsOf(c.user, c.date) :
                          holdings[h].symbol # None /\ holdings[h].units \notin {None, 0}}
    OBVIOUS
  <1>4. PICK rows, tickers : rows = Copies(hs) /\ tickers = NormalizeSymbols({TickerOf(holdings[h]) : h \in hs})
    OBVIOUS
  <1>5. PICK d : d = [c EXCEPT !.rows = rows, !.wanted = tickers]
    OBVIOUS
  <1>6. PICK n : n = IF tickers = {} THEN <<"answer">> ELSE <<"cachedQuotes", "fetchQuotes", "quoted", "answer">>
    OBVIOUS
  <1>7. Go(r, n, d)
    BY <1>1, <1>2, <1>3, <1>4, <1>5, <1>6 DEF FindForSync
  <1>8. hs \subseteq DOMAIN holdings /\ HoldingsTypeOK
    BY <1>3, TablesFromInvariant DEF RowsOf, Tables
  <1>9. rows = [h \in hs |-> holdings[h]]
    BY <1>4 DEF Copies
  <1>10. AreRows(rows) /\ \A h \in DOMAIN rows : rows[h].units \in Nat
    <2>1. \A h \in hs : holdings[h] \in HoldingRow
      BY <1>8 DEF HoldingsTypeOK
    <2>2. \A h \in hs : holdings[h].units \in Nat
      BY <1>3, <2>1 DEF HoldingRow, Row, Column
    <2> QED BY <1>8, <1>9, <2>1, <2>2 DEF AreRows, HoldingsTypeOK
  <1>11. tickers \subseteq Tickers
    <2>1. \A h \in hs : TickerOf(holdings[h]) \in Tickers \cup {None}
      BY <1>8, TickersOfRows
    <2> QED BY <1>4, <2>1 DEF NormalizeSymbols
  <1>12. /\ Has(d, "sync", {"user", "date", "rows", "left", "wanted", "quotes"})
         /\ d.rows = rows /\ d.wanted = tickers /\ d.left = {} /\ d.quotes = c.quotes
         /\ AreQuotes(c.quotes) /\ DOMAIN c.quotes = {}
    BY <1>2, <1>5 DEF Syncing, Has
  <1>13. Syncing(n, d)
    BY <1>6, <1>10, <1>11, <1>12 DEF Syncing
  <1>14. Intact(n, d)
    <2>1. Quoted(d) = {}
      BY <1>12 DEF Quoted
    <2>2. Priced(n, d) = {}
      BY <2>1 DEF Priced
    <2>3. SyncIntact(n, d)
      BY <1>8, <1>9, <1>12, <2>2 DEF SyncIntact
    <2> QED BY <1>12, <2>3 DEF Intact, Has
  <1>15. holdings' = holdings /\ issued' = issued /\ actions' = actions /\ announced' = announced
    BY DEF FindForSync, holdingVars, calendarVars
  <1> QED BY <1>7, <1>13, <1>14, <1>15, TablesFromInvariant, GoStays DEF Working

\* Until it prices them, a sync leaves the rows as it read them.
LEMMA QuotesFound ==
  ASSUME NEW t, NEW c, Syncing(t, c), NEW q, AreQuotes(q),
         t \in {<<"cachedQuotes", "fetchQuotes", "quoted", "answer">>, <<"fetchQuotes", "quoted", "answer">>},
         NEW n \in {<<"fetchQuotes", "quoted", "answer">>, <<"quoted", "answer">>}
  PROVE  Syncing(n, [c EXCEPT !.quotes = q]) /\ (Intact(t, c) => Intact(n, [c EXCEPT !.quotes = q]))
  <1> DEFINE d == [c EXCEPT !.quotes = q]
  <1>1. c.left = {}
    BY DEF Syncing
  <1>2. /\ Has(d, "sync", {"user", "date", "rows", "left", "wanted", "quotes"})
        /\ d.rows = c.rows /\ d.wanted = c.wanted /\ d.left = c.left /\ d.quotes = q
        /\ c.op = "sync"
    BY DEF Syncing, Has
  <1>3. Syncing(n, d)
    <2> HIDE DEF d
    <2> QED BY <1>1, <1>2 DEF Syncing
  <1>4. Priced(t, c) = {} /\ Priced(n, d) = {}
    BY DEF Priced
  <1>5. Intact(t, c) => Intact(n, d)
    <2> HIDE DEF d
    <2> QED BY <1>2, <1>4 DEF Intact, SyncIntact, Has
  <1> QED BY <1>3, <1>5

LEMMA RatesFound ==
  ASSUME NEW t, NEW c, Rating(t, c), NEW q, AreQuotes(q),
         NEW n \in {<<"fetchQuotes", "quoteRate">>, <<"quoteRate">>}
  PROVE  Rating(n, [c EXCEPT !.quotes = q]) /\ Intact(n, [c EXCEPT !.quotes = q])
  <1> DEFINE d == [c EXCEPT !.quotes = q]
  <1>1. /\ Has(d, "rate", {"pair", "wanted", "quotes"})
        /\ d.pair = c.pair /\ d.wanted = c.wanted /\ d.quotes = q
    BY DEF Rating, Has
  <1> HIDE DEF d
  <1>2. Rating(n, d)
    BY <1>1 DEF Rating
  <1>3. Intact(n, d)
    BY <1>1 DEF Intact, Has
  <1> QED BY <1>2, <1>3 DEF d

LEMMA CachedStep ==
  ASSUME IInv, NEW r \in Requests, CachedQuotes(r), UNCHANGED holdingVars, UNCHANGED calendarVars
  PROVE  Moves(r) /\ asks' = asks
  <1>1. PICK t, c : t = todo[r] /\ c = call[r]
    OBVIOUS
  <1>2. \/ Syncing(t, c) /\ t = <<"cachedQuotes", "fetchQuotes", "quoted", "answer">>
        \/ Rating(t, c) /\ t = <<"cachedQuotes", "fetchQuotes", "quoteRate">>
    BY <1>1, Statements DEF CachedQuotes
  <1>3. PICK hits \in {c.wanted \cap DOMAIN quoteCache, {}} :
          LET d == [c EXCEPT !.quotes = [x \in hits |-> quoteCache[x]]] IN
          IF hits = c.wanted THEN Go(r, Tail(Tail(t)), d) ELSE Go(r, Tail(t), d)
    BY <1>1 DEF CachedQuotes, AdvanceWith
  <1>4. PICK q : q = [x \in hits |-> quoteCache[x]]
    OBVIOUS
  <1>5. AreQuotes(q)
    <2>1. hits \subseteq DOMAIN quoteCache
      OBVIOUS
    <2>2. \A x \in hits : x \in Tickers /\ quoteCache[x] \in Prices \ {0}
      BY <2>1, TablesFromInvariant DEF Tables, QuotesTypeOK
    <2> QED BY <1>4, <2>2 DEF AreQuotes
  <1>6. PICK d : d = [c EXCEPT !.quotes = q]
    OBVIOUS
  <1>7. PICK n \in {Tail(t), Tail(Tail(t))} : Go(r, n, d)
    BY <1>3, <1>4, <1>6
  <1>8. holdings' = holdings /\ issued' = issued /\ actions' = actions /\ announced' = announced
    BY DEF holdingVars, calendarVars
  <1>9. r \notin disturbed => Intact(t, c)
    <2>1. todo[r] # <<>>
      BY DEF CachedQuotes, At
    <2> QED BY <1>1, <2>1 DEF IInv, RequestsIntact
  <1>10. CASE Syncing(t, c) /\ t = <<"cachedQuotes", "fetchQuotes", "quoted", "answer">>
    <2>1. n \in {<<"fetchQuotes", "quoted", "answer">>, <<"quoted", "answer">>}
      BY <1>7, <1>10
    <2>2. Syncing(n, d) /\ (Intact(t, c) => Intact(n, d))
      BY <1>5, <1>6, <1>10, <2>1, QuotesFound
    <2> QED BY <1>7, <1>8, <1>9, <2>2, TablesFromInvariant, GoStays DEF Working
  <1>11. CASE Rating(t, c) /\ t = <<"cachedQuotes", "fetchQuotes", "quoteRate">>
    <2>1. n \in {<<"fetchQuotes", "quoteRate">>, <<"quoteRate">>}
      BY <1>7, <1>11
    <2>2. Rating(n, d) /\ Intact(n, d)
      BY <1>5, <1>6, <1>11, <2>1, RatesFound
    <2> QED BY <1>7, <1>8, <2>2, TablesFromInvariant, GoStays DEF Working
  <1> QED BY <1>2, <1>10, <1>11

\* What the market answers is a price.
LEMMA FetchedArePrices ==
  ASSUME QuotesTypeOK, asks \in Workloads, NEW wanted, NEW q,
         q = [t \in {m \in wanted \cap DOMAIN market : market[m] > 0} |-> market[t]],
         NEW old, AreQuotes(old)
  PROVE  AreQuotes(Put(old, q))
  <1>1. \A t \in DOMAIN q : t \in Listed(asks) /\ market[t] \in Prices /\ market[t] > 0 /\ q[t] = market[t]
    BY DEF QuotesTypeOK
  <1>2. \A t \in DOMAIN q : t \in Tickers /\ q[t] \in Prices \ {0}
    BY <1>1
  <1>3. \A t \in DOMAIN old : t \in Tickers /\ old[t] \in Prices \ {0}
    BY DEF AreQuotes
  <1> QED BY <1>2, <1>3 DEF AreQuotes, Put

LEMMA FetchStep ==
  ASSUME IInv, NEW r \in Requests, FetchQuotes(r), UNCHANGED holdingVars, UNCHANGED calendarVars
  PROVE  Moves(r) /\ asks' = asks /\ QuotesTypeOK'
  <1>1. PICK t, c : t = todo[r] /\ c = call[r]
    OBVIOUS
  <1>2. \/ Syncing(t, c) /\ t = <<"fetchQuotes", "quoted", "answer">>
        \/ Rating(t, c) /\ t = <<"fetchQuotes", "quoteRate">>
    BY <1>1, Statements DEF FetchQuotes
  <1>3. PICK wanted : wanted = c.wanted \ DOMAIN c.quotes
    OBVIOUS
  <1>4. PICK fetched : fetched = [m \in {m \in wanted \cap DOMAIN market : market[m] > 0} |-> market[m]]
    OBVIOUS
  <1>5. PICK q, d : q = Put(c.quotes, fetched) /\ d = [c EXCEPT !.quotes = q]
    OBVIOUS
  <1>6. /\ \/ Go(r, Tail(t), d) /\ quoteCache' \in {Put(quoteCache, fetched), quoteCache}
           \/ (Go(r, Tail(t), c) \/ Quit(r)) /\ UNCHANGED quoteCache
        /\ UNCHANGED <<market, rateCache>>
    BY <1>1, <1>3, <1>4, <1>5 DEF FetchQuotes, AdvanceWith, Advance, Check
  <1>7. AreQuotes(c.quotes)
    BY <1>2 DEF Syncing, Rating
  <1>8. AreQuotes(q)
    BY <1>4, <1>5, <1>7, TablesFromInvariant, FetchedArePrices DEF Tables
  <1>9. asks' = asks
    BY <1>6, QuitMoves DEF Go, Quit
  <1>10. QuotesTypeOK'
    <2>1. AreQuotes(quoteCache)
      BY TablesFromInvariant DEF Tables, QuotesTypeOK, AreQuotes
    <2>2. AreQuotes(Put(quoteCache, fetched))
      BY <1>4, <2>1, TablesFromInvariant, FetchedArePrices DEF Tables
    <2>3. AreQuotes(quoteCache)'
      BY <1>6, <2>1, <2>2 DEF AreQuotes
    <2> QED BY <1>6, <1>9, <2>3, TablesFromInvariant DEF Tables, QuotesTypeOK, AreQuotes
  <1>11. holdings' = holdings /\ issued' = issued /\ actions' = actions /\ announced' = announced
    BY DEF holdingVars, calendarVars
  <1>12. r \notin disturbed => Intact(t, c)
    <2>1. todo[r] # <<>>
      BY DEF FetchQuotes, At
    <2> QED BY <1>1, <2>1 DEF IInv, RequestsIntact
  <1>13. ASSUME Go(r, Tail(t), c)
         PROVE  Moves(r)
    <2>1. PICK n : n = Tail(t)
      OBVIOUS
    <2>2. CASE Syncing(t, c) /\ t = <<"fetchQuotes", "quoted", "answer">>
      <3>1. n = <<"quoted", "answer">>
        BY <2>1, <2>2
      <3>2. Syncing(n, c)
        BY <2>2, <3>1 DEF Syncing
      <3>3. Intact(t, c) => Intact(n, c)
        BY <2>2, <3>1 DEF Intact, Syncing, Has, SyncIntact, Priced
      <3> QED BY <1>11, <1>12, <1>13, <2>1, <3>2, <3>3, TablesFromInvariant, GoStays DEF Working
    <2>3. CASE Rating(t, c) /\ t = <<"fetchQuotes", "quoteRate">>
      <3>1. n = <<"quoteRate">>
        BY <2>1, <2>3
      <3>2. Rating(n, c) /\ Intact(n, c)
        BY <2>3, <3>1 DEF Rating, Has, Intact
      <3> QED BY <1>11, <1>13, <2>1, <3>2, TablesFromInvariant, GoStays DEF Working
    <2> QED BY <1>2, <2>2, <2>3
  <1>14. ASSUME Go(r, Tail(t), d)
         PROVE  Moves(r)
    <2>1. PICK n : n = Tail(t)
      OBVIOUS
    <2>2. CASE Syncing(t, c) /\ t = <<"fetchQuotes", "quoted", "answer">>
      <3>1. n \in {<<"fetchQuotes", "quoted", "answer">>, <<"quoted", "answer">>}
        BY <2>1, <2>2
      <3>2. Syncing(n, d) /\ (Intact(t, c) => Intact(n, d))
        BY <1>5, <1>8, <2>2, <3>1, QuotesFound
      <3> QED BY <1>11, <1>12, <1>14, <2>1, <3>2, TablesFromInvariant, GoStays DEF Working
    <2>3. CASE Rating(t, c) /\ t = <<"fetchQuotes", "quoteRate">>
      <3>1. n \in {<<"fetchQuotes", "quoteRate">>, <<"quoteRate">>}
        BY <2>1, <2>3
      <3>2. Rating(n, d) /\ Intact(n, d)
        BY <1>5, <1>8, <2>3, <3>1, RatesFound
      <3> QED BY <1>11, <1>14, <2>1, <3>2, TablesFromInvariant, GoStays DEF Working
    <2> QED BY <1>2, <2>2, <2>3
  <1>15. Moves(r)
    BY <1>6, <1>13, <1>14, QuitMoves
  <1> QED BY <1>9, <1>10, <1>15

LEMMA SelectStep ==
  ASSUME IInv, NEW r \in Requests, SelectQuoted(r), UNCHANGED calendarVars
  PROVE  Moves(r) /\ asks' = asks
  <1>1. PICK t, c : t = todo[r] /\ c = call[r]
    OBVIOUS
  <1>2. Syncing(t, c) /\ t = <<"quoted", "answer">>
    BY <1>1, Statements DEF SelectQuoted
  <1>3. PICK hs, d : hs = Quoted(c) /\ d = [c EXCEPT !.left = hs]
    OBVIOUS
  <1>4. PICK n : n = IF hs = {} THEN <<"answer">> ELSE <<"price", "answer">>
    OBVIOUS
  <1>5. Go(r, n, d)
    BY <1>1, <1>3, <1>4 DEF SelectQuoted
  <1>6. /\ Has(d, "sync", {"user", "date", "rows", "left", "wanted", "quotes"})
        /\ d.rows = c.rows /\ d.wanted = c.wanted /\ d.left = hs /\ d.quotes = c.quotes
        /\ c.op = "sync"
    BY <1>2, <1>3 DEF Syncing, Has
  <1>7. Quoted(d) = hs
    BY <1>3, <1>6 DEF Quoted
  <1>8. Syncing(n, d)
    BY <1>2, <1>4, <1>6, <1>7 DEF Syncing
  <1>9. Intact(t, c) => Intact(n, d)
    <2>1. Priced(t, c) = {} /\ Priced(n, d) = {}
      BY <1>2, <1>6, <1>7 DEF Priced
    <2> QED BY <1>6, <2>1 DEF Intact, SyncIntact, Has
  <1>10. r \notin disturbed => Intact(t, c)
    <2>1. todo[r] # <<>>
      BY DEF SelectQuoted, At
    <2> QED BY <1>1, <2>1 DEF IInv, RequestsIntact
  <1>11. holdings' = holdings /\ issued' = issued /\ actions' = actions /\ announced' = announced
    BY DEF SelectQuoted, holdingVars, calendarVars
  <1> QED BY <1>5, <1>8, <1>9, <1>10, <1>11, TablesFromInvariant, GoStays DEF Working

\* What UpdateFields makes of a row is a row.
LEMMA RepricedIs ==
  ASSUME NEW now \in HoldingRow, NEW read, read.units \in Nat, NEW price \in Nat
  PROVE  /\ Repriced(now, read, price) \in HoldingRow
         /\ Repriced(now, read, price).units = now.units
  <1>1. read.units * price \in Nat
    OBVIOUS
  <1> QED BY <1>1 DEF Repriced, HoldingRow, Row, Column

LEMMA PriceStep ==
  ASSUME IInv, NEW r \in Requests, At(r, "price"), UpdatePrice(r), UNCHANGED calendarVars
  PROVE  Moves(r) /\ asks' = asks /\ HoldingsTypeOK' /\ KeepsEntries(r)
  <1>1. PICK t, c : t = todo[r] /\ c = call[r]
    OBVIOUS
  <1>2. Syncing(t, c) /\ t = <<"price", "answer">>
    BY <1>1, Statements
  <1>3. PICK h \in c.left :
          LET read == c.rows[h]
              price == c.quotes[TickerOf(read)]
          IN  IF h \in DOMAIN holdings
              THEN holdings' = [holdings EXCEPT ![h] = Repriced(@, read, price)] /\ Loop(r, h)
              ELSE Quit(r) /\ UNCHANGED holdings
    BY <1>1 DEF UpdatePrice
  <1>4. issued' = issued /\ today' = today /\ announced' = announced /\ actions' = actions
    BY DEF UpdatePrice, calendarVars
  <1>5. HoldingsTypeOK /\ asks \in Workloads /\ issued \in Nat
    BY TablesFromInvariant DEF Tables
  <1>6. CASE h \notin DOMAIN holdings
    <2>1. Quit(r) /\ holdings' = holdings
      BY <1>3, <1>6
    <2>2. Moves(r) /\ asks' = asks
      BY <2>1, QuitMoves
    <2>3. HoldingsTypeOK'
      BY <1>4, <1>5, <2>1, <2>2, HoldingsStay DEF holdingVars
    <2>4. KeepsEntries(r)
      BY <1>5, <2>1 DEF KeepsEntries, HoldingsTypeOK, HoldingRow, Row
    <2> QED BY <2>2, <2>3, <2>4
  <1>7. CASE h \in DOMAIN holdings
    <2>1. PICK read, price : read = c.rows[h] /\ price = c.quotes[TickerOf(read)]
      OBVIOUS
    <2>2. PICK row : row = Repriced(holdings[h], read, price)
      OBVIOUS
    <2>3. holdings' = [holdings EXCEPT ![h] = row] /\ Loop(r, h)
      BY <1>3, <1>7, <2>1, <2>2
    <2>4. h \in Quoted(c) /\ h \in DOMAIN c.rows /\ TickerOf(read) \in DOMAIN c.quotes
      BY <1>2, <2>1 DEF Syncing, Quoted
    <2>5. read.units \in Nat /\ price \in Nat /\ holdings[h] \in HoldingRow
      <3>1. price \in Prices
        BY <1>2, <2>1, <2>4 DEF Syncing, AreQuotes
      <3> QED BY <1>2, <1>5, <1>7, <2>1, <2>4, <3>1 DEF Syncing, HoldingsTypeOK
    <2>6. row \in HoldingRow
      BY <2>2, <2>5, RepricedIs
    <2>7. PICK d, n : d = [c EXCEPT !.left = @ \ {h}] /\ n = IF c.left \ {h} = {} THEN <<"answer">> ELSE t
      OBVIOUS
    <2>8. /\ Has(d, "sync", {"user", "date", "rows", "left", "wanted", "quotes"})
          /\ d.rows = c.rows /\ d.wanted = c.wanted /\ d.left = c.left \ {h} /\ d.quotes = c.quotes
          /\ c.op = "sync"
      BY <1>2, <2>7 DEF Syncing, Has
    <2>9. Go(r, n, d)
      BY <1>1, <1>2, <2>3, <2>7, <2>8 DEF Loop, AdvanceWith
    <2>10. asks' = asks
      BY <2>9 DEF Go, Quit
    <2>11. /\ HoldingsTypeOK' /\ DOMAIN holdings' = DOMAIN holdings /\ holdings'[h] = row
           /\ \A k \in DOMAIN holdings \ {h} : holdings'[k] = holdings[k]
      BY <1>4, <1>5, <1>7, <2>3, <2>6, <2>10, WriteKeeps
    <2>12. Quoted(d) = Quoted(c)
      BY <2>8 DEF Quoted
    <2>13. Working(n, d)'
      <3>1. Grows
        BY <1>4, <1>5, <2>10 DEF Grows
      <3>2. Syncing(n, d)
        BY <1>2, <2>7, <2>8, <2>12 DEF Syncing
      <3> QED BY <3>1, <3>2, WorkingKept DEF Working
    <2>14. ASSUME r \notin disturbed
           PROVE  Intact(n, d)'
      <3>1. SyncIntact(t, c)
        <4>1. todo[r] # <<>>
          BY DEF At
        <4>2. Intact(t, c)
          BY <1>1, <2>14, <4>1 DEF IInv, RequestsIntact
        <4> QED BY <2>8, <4>2 DEF Intact
      <3>2. Priced(t, c) = Quoted(c) \ c.left /\ Priced(n, d) = (Quoted(c) \ c.left) \cup {h}
        BY <1>2, <2>4, <2>7, <2>8, <2>12 DEF Priced
      <3>3. ASSUME NEW k \in DOMAIN d.rows
            PROVE  /\ k \in DOMAIN holdings'
                   /\ k \notin Priced(n, d) => holdings'[k] = d.rows[k]
                   /\ k \in Priced(n, d) =>
                        holdings'[k] = Repriced(d.rows[k], d.rows[k], d.quotes[TickerOf(d.rows[k])])
        <4>1. CASE k = h
          <5>1. h \notin Priced(t, c)
            BY <3>2
          <5>2. holdings[h] = read
            BY <2>1, <2>4, <3>1, <5>1 DEF SyncIntact
          <5> QED BY <1>7, <2>1, <2>2, <2>8, <2>11, <3>2, <4>1, <5>2
        <4>2. CASE k # h
          <5>1. k \in DOMAIN holdings /\ holdings'[k] = holdings[k]
            BY <2>8, <2>11, <3>1, <4>2 DEF SyncIntact
          <5>2. k \in Priced(n, d) <=> k \in Priced(t, c)
            BY <3>2, <4>2
          <5> QED BY <2>8, <2>11, <3>1, <5>1, <5>2 DEF SyncIntact
        <4> QED BY <4>1, <4>2
      <3>4. SyncIntact(n, d)'
        BY <3>3 DEF SyncIntact
      <3> QED BY <2>8, <3>4 DEF Intact, Has
    <2>15. Moves(r)
      BY <2>9, <2>13, <2>14, GoMoves
    <2>16. KeepsEntries(r)
      <3>1. row = [holdings[h] EXCEPT !.price = row.price, !.value = row.value]
        BY <2>2, <2>5 DEF Repriced, HoldingRow, Row
      <3>2. \A k \in DOMAIN holdings : holdings[k] \in HoldingRow
        BY <1>5 DEF HoldingsTypeOK
      <3>3. \A k \in DOMAIN holdings : holdings[k] = [holdings[k] EXCEPT !.price = holdings[k].price, !.value = holdings[k].value]
        BY <3>2 DEF HoldingRow, Row
      <3> QED BY <2>11, <3>1, <3>3 DEF KeepsEntries
    <2> QED BY <2>10, <2>11, <2>15, <2>16
  <1> QED BY <1>6, <1>7

-----------------------------------------------------------------------------
(* Copies of a month.                                                      *)

LEMMA DuplicateStartStep ==
  ASSUME IInv, NEW r \in Requests, NEW u, NEW from \in Dates, NEW to \in Dates, NEW overwrite \in BOOLEAN,
         DuplicateHoldings(r, u, from, to, overwrite), UNCHANGED calendarVars
  PROVE  Moves(r) /\ asks' = asks
  <1>1. PICK c, t :
          /\ c = [op |-> "duplicate", user |-> u, from |-> from, to |-> to,
                  overwrite |-> overwrite, rows |-> <<>>, left |-> {}]
          /\ t = IF overwrite THEN <<"findForDuplicate", "clear", "copy", "answer">>
                 ELSE <<"findForDuplicate", "copy", "answer">>
    OBVIOUS
  <1>2. Enter(r, "duplicate", c, t) /\ from # to
    BY <1>1 DEF DuplicateHoldings
  <1>3. Duplicating(t, c)
    BY <1>1, <1>2, NoRowsRead DEF Duplicating, Has
  <1>4. Head(t) = "findForDuplicate"
    BY <1>1
  <1>5. Intact(t, c)
    BY <1>1, <1>4 DEF Intact, DuplicateIntact
  <1>6. holdings' = holdings /\ issued' = issued /\ actions' = actions /\ announced' = announced
    BY DEF DuplicateHoldings, holdingVars, calendarVars
  <1> QED BY <1>2, <1>3, <1>5, <1>6, TablesFromInvariant, EnterStays DEF Working

\* Nothing copied yet, and nothing of the month's own left where it was cleared.
LEMMA NothingCopied ==
  ASSUME NEW c, c.left = DOMAIN c.rows, c.overwrite => RowsOf(c.user, c.to) = {}
  PROVE  \E copy \in [DOMAIN c.rows \ c.left -> RowsOf(c.user, c.to)] : IsCopying(copy, c)
  <1>1. PICK copy : copy = [h \in {} |-> 0]
    OBVIOUS
  <1>2. DOMAIN copy = {} /\ DOMAIN c.rows \ c.left = {}
    BY <1>1
  <1>3. copy \in [{} -> RowsOf(c.user, c.to)]
    BY <1>1
  <1>4. IsCopying(copy, c)
    BY <1>2 DEF IsCopying
  <1> QED BY <1>2, <1>3, <1>4

LEMMA FindForDuplicateStep ==
  ASSUME IInv, NEW r \in Requests, FindForDuplicate(r), UNCHANGED calendarVars
  PROVE  Moves(r) /\ asks' = asks
  <1>1. PICK t, c : t = todo[r] /\ c = call[r]
    OBVIOUS
  <1>2. /\ Duplicating(t, c)
        /\ t = IF c.overwrite THEN <<"findForDuplicate", "clear", "copy", "answer">>
               ELSE <<"findForDuplicate", "copy", "answer">>
    BY <1>1, Statements DEF FindForDuplicate
  <1>3. PICK hs : hs = RowsOf(c.user, c.from)
    OBVIOUS
  <1>4. CASE hs = {}
    BY <1>1, <1>3, <1>4, QuitMoves DEF FindForDuplicate
  <1>5. CASE hs # {}
    <2>1. PICK n, d : n = Tail(t) /\ d = [c EXCEPT !.rows = Copies(hs), !.left = hs]
      OBVIOUS
    <2>2. Go(r, n, d)
      BY <1>1, <1>3, <1>5, <2>1 DEF FindForDuplicate, AdvanceWith
    <2>3. n = IF c.overwrite THEN <<"clear", "copy", "answer">> ELSE <<"copy", "answer">>
      BY <1>2, <2>1
    <2>4. /\ Has(d, "duplicate", {"user", "from", "to", "overwrite", "rows", "left"})
          /\ d.rows = Copies(hs) /\ d.left = hs /\ d.from = c.from /\ d.to = c.to
          /\ d.user = c.user /\ d.overwrite = c.overwrite
      BY <1>2, <2>1 DEF Duplicating, Has
    <2>5. hs \subseteq DOMAIN holdings /\ DOMAIN d.rows = hs
      BY <1>3, <2>4 DEF RowsOf, Copies
    <2>6. AreRows(d.rows)
      <3>1. \A h \in hs : holdings[h] \in HoldingRow
        BY <2>5, TablesFromInvariant DEF Tables, HoldingsTypeOK
      <3>2. hs \subseteq 1..issued
        BY <2>5, TablesFromInvariant DEF Tables, HoldingsTypeOK
      <3>3. d.rows = [h \in hs |-> holdings[h]]
        BY <2>4 DEF Copies
      <3> QED BY <3>1, <3>2, <3>3 DEF AreRows
    <2>7. Duplicating(n, d)
      BY <1>2, <2>3, <2>4, <2>5, <2>6 DEF Duplicating
    <2>8. Intact(n, d)
      <3>1. Copies(RowsOf(d.user, d.from)) = d.rows
        BY <1>3, <2>4
      <3>2. Head(n) # "clear" => ~d.overwrite
        BY <2>3, <2>4
      <3>3. d.left = DOMAIN d.rows
        BY <2>4, <2>5
      <3>4. DuplicateIntact(n, d)
        BY <1>5, <2>5, <3>1, <3>2, <3>3, NothingCopied DEF DuplicateIntact
      <3> QED BY <2>4, <3>4 DEF Intact, Has
    <2>9. holdings' = holdings /\ issued' = issued /\ actions' = actions /\ announced' = announced
      BY DEF FindForDuplicate, holdingVars, calendarVars
    <2> QED BY <2>2, <2>7, <2>8, <2>9, TablesFromInvariant, GoStays DEF Working
  <1> QED BY <1>4, <1>5

LEMMA ClearStep ==
  ASSUME IInv, NEW r \in Requests, ClearMonth(r), UNCHANGED calendarVars
  PROVE  Moves(r) /\ asks' = asks /\ HoldingsTypeOK' /\ issued' = issued
  <1>1. PICK t, c : t = todo[r] /\ c = call[r]
    OBVIOUS
  <1>2. Duplicating(t, c) /\ t = <<"clear", "copy", "answer">>
    BY <1>1, Statements DEF ClearMonth
  <1>3. PICK n : n = <<"copy", "answer">>
    OBVIOUS
  <1>4. Go(r, n, c)
    BY <1>1, <1>2, <1>3 DEF ClearMonth, Advance, AdvanceWith
  <1>5. PICK target : target = RowsOf(c.user, c.to)
    OBVIOUS
  <1>6. holdings' = Remaining(target) /\ issued' = issued /\ today' = today /\ announced' = announced
    BY <1>1, <1>5 DEF ClearMonth, calendarVars
  <1>7. asks' = asks
    BY <1>4 DEF Go, Quit
  <1>8. /\ HoldingsTypeOK'
        /\ DOMAIN holdings' = DOMAIN holdings \ target
        /\ \A h \in DOMAIN holdings \ target : holdings'[h] = holdings[h]
    BY <1>6, <1>7, TablesFromInvariant, RemainingKeeps DEF Tables
  <1>9. c.overwrite /\ c.left = DOMAIN c.rows /\ c.from # c.to /\ c.op = "duplicate"
    BY <1>2 DEF Duplicating, Has
  <1>10. Working(n, c)'
    <2>1. Duplicating(n, c)
      BY <1>2, <1>3 DEF Duplicating
    <2>2. Grows
      BY <1>6, <1>7, TablesFromInvariant DEF Grows
    <2> QED BY <2>1, <2>2, WorkingKept DEF Working
  <1>11. ASSUME r \notin disturbed
         PROVE  Intact(n, c)'
    <2>1. todo[r] # <<>>
      BY DEF ClearMonth, At
    <2>2. DuplicateIntact(t, c)
      BY <1>1, <1>9, <1>11, <2>1 DEF IInv, RequestsIntact, Intact
    <2>3. DOMAIN c.rows # {} /\ Copies(RowsOf(c.user, c.from)) = c.rows
      BY <1>2, <2>2 DEF DuplicateIntact
    <2>4. RowsOf(c.user, c.to)' = {}
      BY <1>5, <1>8 DEF RowsOf
    <2>5. RowsOf(c.user, c.from)' = RowsOf(c.user, c.from)
      BY <1>5, <1>8, <1>9 DEF RowsOf
    <2>6. RowsOf(c.user, c.from) \subseteq DOMAIN holdings \ target
      BY <1>5, <1>9 DEF RowsOf
    <2>7. Copies(RowsOf(c.user, c.from))' = Copies(RowsOf(c.user, c.from))
      BY <1>8, <2>5, <2>6 DEF Copies
    <2>8. (\E copy \in [DOMAIN c.rows \ c.left -> RowsOf(c.user, c.to)] : IsCopying(copy, c))'
      <3>1. PICK copy : copy = [h \in {} |-> 0]
        OBVIOUS
      <3>2. DOMAIN copy = {} /\ DOMAIN c.rows \ c.left = {}
        BY <1>9, <3>1
      <3>3. copy \in [{} -> RowsOf(c.user, c.to)']
        BY <3>1
      <3>4. IsCopying(copy, c)'
        BY <2>4, <3>2 DEF IsCopying
      <3> QED BY <3>2, <3>3, <3>4
    <2>9. DuplicateIntact(n, c)'
      BY <2>3, <2>7, <2>8 DEF DuplicateIntact
    <2> QED BY <1>9, <2>9 DEF Intact
  <1>12. Moves(r)
    BY <1>4, <1>10, <1>11, GoMoves
  <1> QED BY <1>6, <1>7, <1>8, <1>12

LEMMA CopyStep ==
  ASSUME IInv, NEW r \in Requests, At(r, "copy"), CopyHolding(r), UNCHANGED calendarVars
  PROVE  Moves(r) /\ asks' = asks /\ HoldingsTypeOK' /\ issued <= issued'
  <1>1. PICK t, c : t = todo[r] /\ c = call[r]
    OBVIOUS
  <1>2. Duplicating(t, c) /\ t = <<"copy", "answer">>
    BY <1>1, Statements
  <1>3. PICK h \in c.left : Insert([c.rows[h] EXCEPT !.date = c.to]) /\ Loop(r, h)
    BY <1>1 DEF CopyHolding
  <1>4. PICK row, id : row = [c.rows[h] EXCEPT !.date = c.to] /\ id = issued'
    OBVIOUS
  <1>5. h \in DOMAIN c.rows /\ c.rows[h] \in HoldingRow /\ c.to \in Dates /\ c.from # c.to
    BY <1>2 DEF Duplicating, AreRows
  <1>6. row \in HoldingRow /\ row.owner = c.rows[h].owner /\ row.date = c.to
    BY <1>4, <1>5 DEF HoldingRow, Row
  <1>7. PICK d, n : d = [c EXCEPT !.left = @ \ {h}] /\ n = IF c.left \ {h} = {} THEN <<"answer">> ELSE t
    OBVIOUS
  <1>8. /\ Has(d, "duplicate", {"user", "from", "to", "overwrite", "rows", "left"})
        /\ d.rows = c.rows /\ d.left = c.left \ {h} /\ d.from = c.from /\ d.to = c.to
        /\ d.user = c.user /\ d.overwrite = c.overwrite /\ c.op = "duplicate"
    BY <1>2, <1>7 DEF Duplicating, Has
  <1>9. Go(r, n, d)
    BY <1>1, <1>2, <1>3, <1>7, <1>8 DEF Loop, AdvanceWith
  <1>10. asks' = asks /\ today' = today /\ announced' = announced
    BY <1>9 DEF Go, Quit, CopyHolding, calendarVars
  <1>11. /\ HoldingsTypeOK'
         /\ issued \in Nat /\ id = issued + 1
         /\ id \notin DOMAIN holdings
         /\ DOMAIN holdings' = DOMAIN holdings \cup {id}
         /\ holdings'[id] = row
         /\ \A k \in DOMAIN holdings : holdings'[k] = holdings[k]
    BY <1>3, <1>4, <1>6, <1>10, TablesFromInvariant, InsertKeeps DEF Tables
  <1>12. Working(n, d)'
    <2>1. Duplicating(n, d)
      BY <1>2, <1>7, <1>8 DEF Duplicating
    <2>2. Grows
      BY <1>4, <1>10, <1>11 DEF Grows
    <2> QED BY <2>1, <2>2, WorkingKept DEF Working
  <1>13. ASSUME r \notin disturbed
         PROVE  Intact(n, d)'
    <2>1. todo[r] # <<>>
      BY DEF At
    <2>2. DuplicateIntact(t, c)
      BY <1>1, <1>8, <1>13, <2>1 DEF IInv, RequestsIntact, Intact
    <2>3. PICK target, source : target = RowsOf(c.user, c.to) /\ source = RowsOf(c.user, c.from)
      OBVIOUS
    <2>4. DOMAIN c.rows # {} /\ Copies(source) = c.rows
      BY <1>2, <2>2, <2>3 DEF DuplicateIntact
    <2>5. PICK copy \in [DOMAIN c.rows \ c.left -> target] : IsCopying(copy, c)
      <3>1. Head(t) = "copy"
        BY <1>2
      <3>2. \E copy \in [DOMAIN c.rows \ c.left -> RowsOf(c.user, c.to)] : IsCopying(copy, c)
        BY <2>2, <3>1 DEF DuplicateIntact
      <3> QED BY <2>3, <3>2
    <2>6. row.owner = c.user
      <3>1. c.rows = [k \in source |-> holdings[k]]
        BY <2>4 DEF Copies
      <3>2. h \in source /\ c.rows[h] = holdings[h]
        BY <1>5, <3>1
      <3> QED BY <1>6, <2>3, <3>2 DEF RowsOf
    <2>7. RowsOf(c.user, c.to)' = target \cup {id}
      BY <1>6, <1>11, <2>3, <2>6 DEF RowsOf
    <2>8. RowsOf(c.user, c.from)' = source /\ source \subseteq DOMAIN holdings
      BY <1>5, <1>6, <1>11, <2>3 DEF RowsOf
    <2>9. Copies(RowsOf(c.user, c.from))' = Copies(source)
      BY <1>11, <2>8 DEF Copies
    <2>10. PICK done, left : done = DOMAIN c.rows \ c.left /\ left = DOMAIN c.rows \ d.left
      OBVIOUS
    <2>11. left = done \cup {h} /\ h \notin done
      BY <1>3, <1>5, <1>8, <2>10
    <2>12. PICK new : new = [k \in left |-> IF k = h THEN id ELSE copy[k]]
      OBVIOUS
    <2>13. DOMAIN copy = done /\ \A k \in done : copy[k] \in target /\ copy[k] \in DOMAIN holdings /\ copy[k] # id
      BY <1>11, <2>3, <2>5, <2>10 DEF RowsOf
    <2>14. DOMAIN new = left /\ new[h] = id /\ \A k \in done : new[k] = copy[k]
      BY <2>11, <2>12
    <2>15. new \in [left -> target \cup {id}]
      BY <2>11, <2>12, <2>13
    <2>16. \A k, l \in left : new[k] = new[l] => k = l
      <3>1. \A k, l \in done : copy[k] = copy[l] => k = l
        BY <2>5, <2>13 DEF IsCopying
      <3> QED BY <2>11, <2>13, <2>14, <3>1
    <2>17. c.overwrite => \A x \in target \cup {id} : \E k \in left : new[k] = x
      <3>1. c.overwrite => \A x \in target : \E k \in done : copy[k] = x
        BY <2>3, <2>5, <2>13 DEF IsCopying
      <3> QED BY <2>11, <2>14, <3>1
    <2>18. \A k \in left : holdings'[new[k]] = [c.rows[k] EXCEPT !.date = c.to]
      <3>1. \A k \in done : holdings[copy[k]] = [c.rows[k] EXCEPT !.date = c.to]
        BY <2>5, <2>13 DEF IsCopying
      <3>2. ASSUME NEW k \in left
            PROVE  holdings'[new[k]] = [c.rows[k] EXCEPT !.date = c.to]
        <4>1. CASE k = h
          BY <1>4, <1>11, <2>14, <4>1
        <4>2. CASE k # h
          <5>1. k \in done /\ new[k] = copy[k] /\ copy[k] \in DOMAIN holdings
            BY <2>11, <2>13, <2>14, <4>2
          <5>2. holdings'[new[k]] = holdings[copy[k]]
            BY <1>11, <5>1
          <5> QED BY <3>1, <5>1, <5>2
        <4> QED BY <4>1, <4>2
      <3> QED BY <3>2
    <2>19. IsCopying(new, d)'
      BY <1>8, <2>7, <2>14, <2>16, <2>17, <2>18 DEF IsCopying
    <2>20. (\E f \in [DOMAIN d.rows \ d.left -> RowsOf(d.user, d.to)] : IsCopying(f, d))'
      BY <1>8, <2>7, <2>10, <2>15, <2>19
    <2>21. DuplicateIntact(n, d)'
      BY <1>8, <2>4, <2>9, <2>20 DEF DuplicateIntact
    <2> QED BY <1>8, <2>21 DEF Intact, Has
  <1>14. Moves(r)
    BY <1>9, <1>12, <1>13, GoMoves
  <1> QED BY <1>4, <1>10, <1>11, <1>14

-----------------------------------------------------------------------------
(* Reports.                                                                *)

LEMMA QueriesOf ==
  ASSUME NEW x, NEW y
  PROVE  /\ Len(Summary(x)) = 3
         /\ Summary(x)[1] = <<"totals", x>> /\ Summary(x)[2] = <<"type", x>> /\ Summary(x)[3] = <<"platform", x>>
         /\ Len(Comparison(x, y)) = 10
         /\ Comparison(x, y)[1] = <<"totals", x>> /\ Comparison(x, y)[2] = <<"type", x>>
         /\ Comparison(x, y)[3] = <<"platform", x>> /\ Comparison(x, y)[4] = <<"totals", y>>
         /\ Comparison(x, y)[7] = <<"type", x>> /\ Comparison(x, y)[8] = <<"type", y>>
         /\ Comparison(x, y)[9] = <<"platform", x>> /\ Comparison(x, y)[10] = <<"platform", y>>
  BY DEF Summary, Comparison

LEMMA AskingStarts ==
  ASSUME NEW op, NEW u, NEW queries, Len(queries) > 0,
         \/ op = "summary" /\ queries = Summary(queries[1][2])
         \/ op = "compare" /\ queries = Comparison(queries[1][2], queries[4][2]),
         NEW c, c = [op |-> op, user |-> u, queries |-> queries, got |-> <<>>]
  PROVE  Asking(<<"query", "answer">>, c) /\ Intact(<<"query", "answer">>, c)
  <1>1. Has(c, op, {"user", "queries", "got"}) /\ c.queries = queries /\ c.got = <<>>
    BY DEF Has
  <1>2. DOMAIN c.got = {} /\ Len(c.got) = 0
    BY <1>1
  <1>3. c.got \in Seq({c.got[i] : i \in DOMAIN c.got})
    <2>1. \A S : <<>> \in Seq(S)
      OBVIOUS
    <2> QED BY <1>1, <2>1
  <1>4. Asking(<<"query", "answer">>, c)
    BY <1>1, <1>2, <1>3 DEF Asking
  <1>5. Intact(<<"query", "answer">>, c)
    BY <1>1, <1>2 DEF Intact, Has
  <1> QED BY <1>4, <1>5

LEMMA ReportStep ==
  ASSUME IInv, NEW r \in Requests, NEW op, NEW u, NEW queries, Report(r, op, u, queries), UNCHANGED calendarVars,
         Len(queries) > 0,
         \/ op = "summary" /\ queries = Summary(queries[1][2])
         \/ op = "compare" /\ queries = Comparison(queries[1][2], queries[4][2])
  PROVE  Moves(r) /\ asks' = asks
  <1>1. PICK c : c = [op |-> op, user |-> u, queries |-> queries, got |-> <<>>]
    OBVIOUS
  <1>2. Enter(r, op, c, <<"query", "answer">>)
    BY <1>1 DEF Report
  <1>3. Asking(<<"query", "answer">>, c) /\ Intact(<<"query", "answer">>, c)
    BY <1>1, AskingStarts
  <1>4. holdings' = holdings /\ issued' = issued /\ actions' = actions /\ announced' = announced
    BY DEF Report, holdingVars, calendarVars
  <1> QED BY <1>2, <1>3, <1>4, TablesFromInvariant, EnterStays DEF Working

LEMMA SummaryStep ==
  ASSUME IInv, NEW r \in Requests, NEW u, NEW q, GetSummary(r, u, q), UNCHANGED calendarVars
  PROVE  Moves(r) /\ asks' = asks
  <1>1. PICK queries : queries = Summary(q)
    OBVIOUS
  <1>2. Len(queries) > 0 /\ queries[1][2] = q
    BY <1>1 DEF Summary
  <1> QED BY <1>1, <1>2, ReportStep DEF GetSummary

LEMMA CompareStep ==
  ASSUME IInv, NEW r \in Requests, NEW u, NEW from, NEW to, CompareMonths(r, u, from, to), UNCHANGED calendarVars
  PROVE  Moves(r) /\ asks' = asks
  <1>1. PICK earlier, later : Report(r, "compare", u, Comparison(earlier, later))
    BY DEF CompareMonths
  <1>2. PICK queries : queries = Comparison(earlier, later)
    OBVIOUS
  <1>3. Len(queries) > 0 /\ queries[1][2] = earlier /\ queries[4][2] = later
    BY <1>2, QueriesOf
  <1> QED BY <1>1, <1>2, <1>3, ReportStep

LEMMA QueryStep ==
  ASSUME IInv, NEW r \in Requests, Query(r), UNCHANGED calendarVars
  PROVE  Moves(r) /\ asks' = asks
  <1>1. PICK t, c : t = todo[r] /\ c = call[r]
    OBVIOUS
  <1>2. Asking(t, c) /\ t = <<"query", "answer">>
    BY <1>1, Statements DEF Query
  <1>3. PICK got, size : got = c.got /\ size = Len(got)
    OBVIOUS
  <1>4. PICK a : a = Answer(c.user, c.queries[size + 1])
    OBVIOUS
  <1>5. PICK all, d : all = Append(got, a) /\ d = [c EXCEPT !.got = all]
    OBVIOUS
  <1>6. PICK n : n = IF Len(all) = Len(c.queries) THEN <<"answer">> ELSE t
    OBVIOUS
  <1>7. /\ Has(d, c.op, {"user", "queries", "got"})
        /\ d.queries = c.queries /\ d.user = c.user /\ d.got = all
        /\ c.op \in {"summary", "compare"}
    BY <1>2, <1>5 DEF Asking, Has
  <1>8. Go(r, n, d)
    BY <1>1, <1>2, <1>3, <1>4, <1>5, <1>6, <1>7 DEF Query, AdvanceWith
  <1>9. /\ size \in Nat /\ DOMAIN got = 1..size
        /\ Len(all) = size + 1 /\ DOMAIN all = 1..(size + 1)
        /\ all[size + 1] = a /\ \A i \in 1..size : all[i] = got[i]
        /\ all \in Seq({all[i] : i \in DOMAIN all})
    <2>1. PICK S : got \in Seq(S)
      BY <1>2, <1>3 DEF Asking
    <2>2. /\ size \in Nat /\ DOMAIN got = 1..size
          /\ Len(all) = size + 1 /\ DOMAIN all = 1..(size + 1)
          /\ all[size + 1] = a /\ \A i \in 1..size : all[i] = got[i]
      BY <1>3, <1>5, <2>1
    <2>3. all = [i \in 1..(size + 1) |-> all[i]]
      BY <1>3, <1>5, <2>1
    <2>4. all \in Seq({all[i] : i \in DOMAIN all})
      BY <2>2, <2>3
    <2> QED BY <2>2, <2>4
  <1>10. size < Len(c.queries) /\ Len(c.queries) \in Nat
    <2>1. \/ c.queries = Summary(c.queries[1][2])
          \/ c.queries = Comparison(c.queries[1][2], c.queries[4][2])
      BY <1>2 DEF Asking
    <2>2. \A x, y : Len(Summary(x)) = 3 /\ Len(Comparison(x, y)) = 10
      BY QueriesOf
    <2>3. Len(c.queries) \in {3, 10}
      BY <2>1, <2>2
    <2> QED BY <1>2, <1>3, <2>3 DEF Asking
  <1>11. Asking(n, d)
    <2>1. \/ c.op = "summary" /\ c.queries = Summary(c.queries[1][2])
          \/ c.op = "compare" /\ c.queries = Comparison(c.queries[1][2], c.queries[4][2])
      BY <1>2 DEF Asking, Has
    <2>2. \/ Has(d, "summary", {"user", "queries", "got"}) /\ d.queries = Summary(d.queries[1][2])
          \/ /\ Has(d, "compare", {"user", "queries", "got"})
             /\ d.queries = Comparison(d.queries[1][2], d.queries[4][2])
      BY <1>7, <2>1
    <2>3. d.got \in Seq({d.got[i] : i \in DOMAIN d.got})
      BY <1>7, <1>9
    <2>4. \/ n = <<"query", "answer">> /\ Len(d.got) < Len(d.queries)
          \/ n = <<"answer">> /\ Len(d.got) = Len(d.queries)
      BY <1>2, <1>6, <1>7, <1>9, <1>10
    <2> QED BY <2>2, <2>3, <2>4 DEF Asking
  <1>12. Intact(t, c) => Intact(n, d)
    <2>1. ASSUME Intact(t, c), NEW i \in DOMAIN d.got
          PROVE  d.got[i] = Answer(d.user, d.queries[i])
      <3>1. \A k \in DOMAIN got : got[k] = Answer(c.user, c.queries[k])
        BY <1>3, <1>7, <2>1 DEF Intact
      <3>2. i \in 1..size \/ i = size + 1
        BY <1>7, <1>9, <2>1
      <3> QED BY <1>4, <1>7, <1>9, <3>1, <3>2
    <2> QED BY <1>7, <2>1 DEF Intact, Has
  <1>13. r \notin disturbed => Intact(t, c)
    <2>1. todo[r] # <<>>
      BY DEF Query, At
    <2> QED BY <1>1, <2>1 DEF IInv, RequestsIntact
  <1>14. holdings' = holdings /\ issued' = issued /\ actions' = actions /\ announced' = announced
    BY DEF Query, holdingVars, calendarVars
  <1> QED BY <1>8, <1>11, <1>12, <1>13, <1>14, TablesFromInvariant, GoStays DEF Working

LEMMA MonthlyStep ==
  ASSUME IInv, NEW r \in Requests, NEW u, NEW start \in Asked, NEW end \in Asked,
         GetMonthlyData(r, u, start, end), UNCHANGED calendarVars
  PROVE  Moves(r) /\ asks' = asks
  <1>1. PICK range, series : /\ range = ParseMonthlyQuery(start, end)
                             /\ series = Walk(range[2], range[1], MonthlyRows(u, range))
    OBVIOUS
  <1>2. PICK c : c = [op |-> "monthly", user |-> u, range |-> range, series |-> series]
    OBVIOUS
  <1>3. Enter(r, "monthly", c, <<"answer">>) /\ ~TooLong(range)
    BY <1>1, <1>2 DEF GetMonthlyData
  <1>4. IsDate(today)
    <2>1. today \in Dates
      BY TablesFromInvariant DEF Tables, HoldingsTypeOK
    <2> QED BY <2>1 DEF IsDate, Date
  <1>5. /\ range = <<range[1], range[2]>>
        /\ IsDate(range[1]) /\ IsDate(range[2]) /\ ~Earlier(range[1], range[2])
    BY <1>1, <1>4, RangesAreOrdered
  <1>6. Has(c, "monthly", {"user", "range", "series"}) /\ c.range = range /\ c.series = series /\ c.user = u
    BY <1>2 DEF Has
  <1>7. Listing(<<"answer">>, c)
    BY <1>3, <1>5, <1>6 DEF Listing
  <1>8. Intact(<<"answer">>, c)
    BY <1>1, <1>6 DEF Intact, Has
  <1>9. holdings' = holdings /\ issued' = issued /\ actions' = actions /\ announced' = announced
    BY DEF GetMonthlyData, holdingVars, calendarVars
  <1> QED BY <1>3, <1>7, <1>8, <1>9, TablesFromInvariant, EnterStays DEF Working

-----------------------------------------------------------------------------
(* Exchange rates.                                                         *)

LEMMA RateStored ==
  ASSUME QuotesTypeOK, asks' = asks, market' = market, quoteCache' = quoteCache,
         NEW pair \in Pairs, NEW rate \in Nat, rateCache' \in {rateCache, Put(rateCache, [p \in {pair} |-> rate])}
  PROVE  QuotesTypeOK'
  <1>1. PICK entries, table : entries = [p \in {pair} |-> rate] /\ table = Put(rateCache, entries)
    OBVIOUS
  <1>2. DOMAIN entries = {pair} /\ entries[pair] = rate
    BY <1>1
  <1>3. DOMAIN table \subseteq Pairs /\ \A p \in DOMAIN table : table[p] \in Nat
    BY <1>1, <1>2 DEF Put, QuotesTypeOK
  <1>4. rateCache' \in {rateCache, table}
    BY <1>1
  <1> QED BY <1>3, <1>4 DEF QuotesTypeOK

LEMMA GetRateStep ==
  ASSUME IInv, NEW r \in Requests, NEW pair \in Pairs, GetRate(r, pair),
         UNCHANGED holdingVars, UNCHANGED calendarVars
  PROVE  Moves(r) /\ asks' = asks /\ QuotesTypeOK'
  <1>1. PICK inverse : inverse = <<pair[2], pair[1]>>
    OBVIOUS
  <1>2. PICK wanted : wanted = NormalizeSymbols({PairTicker[pair], PairTicker[inverse]})
    OBVIOUS
  <1>3. PICK c : c = [op |-> "rate", pair |-> pair, quotes |-> <<>>, wanted |-> wanted]
    OBVIOUS
  <1>4. PICK t : t = <<"cachedQuotes", "fetchQuotes", "quoteRate">>
    OBVIOUS
  <1>5. AtOnce(r, "rate") \/ (pair[1] # pair[2] /\ Enter(r, "rate", c, t))
    BY <1>1, <1>2, <1>3, <1>4, QuotingStatements DEF GetRate
  <1>6. holdings' = holdings /\ issued' = issued /\ actions' = actions /\ announced' = announced
    BY DEF holdingVars, calendarVars
  <1>7. ASSUME pair[1] # pair[2], Enter(r, "rate", c, t)
        PROVE  Moves(r) /\ asks' = asks
    <2>1. wanted \subseteq Tickers
      <3>1. pair \in DOMAIN PairTicker /\ inverse \in DOMAIN PairTicker
        BY <1>1, <1>7
      <3> QED BY <1>2, <3>1 DEF NormalizeSymbols
    <2>2. Has(c, "rate", {"pair", "wanted", "quotes"}) /\ c.pair = pair /\ c.wanted = wanted /\ c.quotes = <<>>
      BY <1>3 DEF Has
    <2>3. Rating(t, c)
      BY <1>4, <1>7, <2>1, <2>2, NoRowsRead DEF Rating
    <2>4. Intact(t, c)
      BY <2>2 DEF Intact, Has
    <2> QED BY <1>6, <1>7, <2>3, <2>4, TablesFromInvariant, EnterStays DEF Working
  <1>8. Moves(r) /\ asks' = asks
    BY <1>5, <1>7, AtOnceMoves
  <1>9. rateCache' \in {rateCache, Put(rateCache, [p \in {pair} |-> RateScale])}
    BY DEF GetRate
  <1>10. market' = market /\ quoteCache' = quoteCache
    BY DEF GetRate
  <1> QED BY <1>8, <1>9, <1>10, TablesFromInvariant, RateStored DEF Tables

LEMMA InvertedIsNumber ==
  ASSUME NEW rate \in Nat \ {0}
  PROVE  Inverted(rate) \in Nat
  <1>1. 2 * rate \in Nat /\ 2 * rate > 0
    OBVIOUS
  <1>2. 2 * RateScale * RateScale + rate \in Nat
    OBVIOUS
  <1>3. \A n \in Nat, d \in Nat : d > 0 => n \div d \in Nat
    OBVIOUS
  <1> QED BY <1>1, <1>2, <1>3 DEF Inverted

LEMMA QuoteRateStep ==
  ASSUME IInv, NEW r \in Requests, QuoteRate(r)
  PROVE  Moves(r) /\ asks' = asks /\ QuotesTypeOK'
  <1>1. PICK t, c : t = todo[r] /\ c = call[r]
    OBVIOUS
  <1>2. Rating(t, c)
    BY <1>1, Statements DEF QuoteRate
  <1>3. Moves(r) /\ asks' = asks
    BY QuitMoves DEF QuoteRate
  <1>4. c.pair \in Pairs /\ AreQuotes(c.quotes)
    BY <1>2 DEF Rating
  <1>5. \A rate \in Rates(c.pair, c.quotes) : rate \in Nat
    <2>1. \A x \in DOMAIN c.quotes : c.quotes[x] \in Nat \ {0}
      BY <1>4 DEF AreQuotes
    <2> QED BY <2>1, InvertedIsNumber DEF Rates
  <1>6. rateCache' \in {rateCache} \cup {Put(rateCache, [p \in {c.pair} |-> rate]) : rate \in Rates(c.pair, c.quotes)}
    BY <1>1 DEF QuoteRate
  <1>7. PICK rate \in Nat : rateCache' \in {rateCache, Put(rateCache, [p \in {c.pair} |-> rate])}
    <2>1. CASE rateCache' = rateCache
      <3>1. 0 \in Nat
        OBVIOUS
      <3> QED BY <2>1, <3>1
    <2>2. CASE rateCache' # rateCache
      BY <1>5, <1>6, <2>2
    <2> QED BY <2>1, <2>2
  <1>8. market' = market /\ quoteCache' = quoteCache
    BY DEF QuoteRate
  <1> QED BY <1>3, <1>4, <1>7, <1>8, TablesFromInvariant, RateStored DEF Tables

-----------------------------------------------------------------------------
(* The calendar.                                                           *)

LEMMA GetCalendarStep ==
  ASSUME IInv, NEW r \in Requests, NEW m, GetCalendar(r, m), UNCHANGED holdingVars
  PROVE  Moves(r) /\ asks' = asks
  <1>1. PICK c, t : /\ c = [op |-> "calendar", month |-> m, fetched |-> {}, kept |-> FALSE]
                    /\ t = <<"fetch", "store", "answer">>
    OBVIOUS
  <1>2. AtOnce(r, "calendar") \/ Enter(r, "calendar", c, t)
    BY <1>1 DEF GetCalendar
  <1>3. Has(c, "calendar", {"month", "fetched", "kept"}) /\ c.fetched = {} /\ ~c.kept
    BY <1>1 DEF Has
  <1>4. Watching(t, c)
    BY <1>1, <1>3 DEF Watching
  <1>5. Intact(t, c)
    BY <1>3 DEF Intact, Has, CalendarWhole
  <1>6. holdings' = holdings /\ issued' = issued /\ actions' = actions /\ announced' = announced
    BY DEF GetCalendar, holdingVars, calendarVars
  <1> QED BY <1>2, <1>4, <1>5, <1>6, TablesFromInvariant, AtOnceMoves, EnterStays DEF Working

LEMMA FetchActionsStep ==
  ASSUME IInv, NEW r \in Requests, FetchActions(r), UNCHANGED holdingVars
  PROVE  Moves(r) /\ asks' = asks
  <1>1. PICK t, c : t = todo[r] /\ c = call[r]
    OBVIOUS
  <1>2. Watching(t, c) /\ t = <<"fetch", "store", "answer">>
    BY <1>1, Statements DEF FetchActions
  <1>3. PICK got : /\ got \subseteq InMonth(announced, c.month)
                   /\ Go(r, IF got = {} THEN <<"answer">> ELSE Tail(t), [c EXCEPT !.fetched = got])
    BY <1>1 DEF FetchActions
  <1>4. PICK n, d : /\ n = IF got = {} THEN <<"answer">> ELSE <<"store", "answer">>
                    /\ d = [c EXCEPT !.fetched = got]
    OBVIOUS
  <1>5. Go(r, n, d)
    BY <1>2, <1>3, <1>4
  <1>6. /\ Has(d, "calendar", {"month", "fetched", "kept"})
        /\ d.month = c.month /\ d.fetched = got /\ d.kept = c.kept
    BY <1>2, <1>4 DEF Watching, Has
  <1>7. ~c.kept
    BY <1>2 DEF Watching
  <1>8. Watching(n, d)
    BY <1>3, <1>4, <1>6, <1>7 DEF Watching
  <1>9. Intact(n, d)
    BY <1>6, <1>7 DEF Intact, Has, CalendarWhole
  <1>10. holdings' = holdings /\ issued' = issued /\ actions' = actions /\ announced' = announced
    BY DEF FetchActions, holdingVars, calendarVars
  <1> QED BY <1>5, <1>8, <1>9, <1>10, TablesFromInvariant, GoStays DEF Working

Under(as, k) == {a \in as : a.key = k}

NotesUnder(as, k) == {a.note : a \in Under(as, k)}

NotesOf(as) == [k \in Keys(as) |-> NotesUnder(as, k)]

\* The rows of one answer have keys of their own, so none of them is refused, and the
\* notes of a key are those of the answer.
LEMMA UpsertedIs ==
  ASSUME NEW old, NEW as
  PROVE  Upserted(old, Deduped(as)) = Put(old, NotesOf(as))
  <1>1. PICK rows : rows = Deduped(as)
    OBVIOUS
  <1>2. rows = {Under(as, k) : k \in Keys(as)}
    BY <1>1 DEF Deduped, Under
  <1>3. \A k \in Keys(as) : Keys(Under(as, k)) = {k}
    BY DEF Keys, Under
  <1>4. \A x \in rows : \E k \in Keys(as) : x = Under(as, k) /\ Keys(x) = {k}
    BY <1>2, <1>3
  <1>5. \A k \in Keys(as) : Under(as, k) \in rows
    BY <1>2
  <1>6. ASSUME NEW x \in rows, NEW y \in rows, Keys(x) = Keys(y)
        PROVE  x = y
    <2>1. PICK k \in Keys(as) : x = Under(as, k) /\ Keys(x) = {k}
      BY <1>4
    <2>2. PICK l \in Keys(as) : y = Under(as, l) /\ Keys(y) = {l}
      BY <1>4
    <2>3. k = l
      BY <1>6, <2>1, <2>2
    <2> QED BY <2>1, <2>2, <2>3
  <1>7. UNION {Keys(x) : x \in rows} = Keys(as)
    <2>1. \A k \in Keys(as) : \E x \in rows : k \in Keys(x)
      BY <1>3, <1>5
    <2>2. \A x \in rows : Keys(x) \subseteq Keys(as)
      BY <1>4
    <2> QED BY <2>1, <2>2
  <1>8. ASSUME NEW k \in Keys(as)
        PROVE  UNION {x \in rows : k \in Keys(x)} = Under(as, k)
    <2>1. ASSUME NEW x \in rows, k \in Keys(x)
          PROVE  x = Under(as, k)
      <3>1. PICK l \in Keys(as) : x = Under(as, l) /\ Keys(x) = {l}
        BY <1>4
      <3>2. l = k
        BY <2>1, <3>1
      <3> QED BY <3>1, <3>2
    <2>2. k \in Keys(Under(as, k))
      BY <1>3
    <2>3. {x \in rows : k \in Keys(x)} = {Under(as, k)}
      BY <1>5, <2>1, <2>2
    <2> QED BY <2>3
  <1>9. PICK new : new = [k \in UNION {Keys(x) : x \in rows} |->
                            {a.note : a \in UNION {x \in rows : k \in Keys(x)}}]
    OBVIOUS
  <1>10. new = NotesOf(as)
    BY <1>7, <1>8, <1>9 DEF NotesOf, NotesUnder
  <1>11. Upserted(old, rows) = Put(old, new)
    BY <1>6, <1>9 DEF Upserted
  <1> QED BY <1>1, <1>10, <1>11

LEMMA StoreStep ==
  ASSUME IInv, NEW r \in Requests, StoreActions(r), UNCHANGED holdingVars
  PROVE  Moves(r) /\ asks' = asks /\ CalendarTypeOK' /\ announced' = announced
  <1>1. PICK t, c : t = todo[r] /\ c = call[r]
    OBVIOUS
  <1>2. Watching(t, c) /\ t = <<"store", "answer">>
    BY <1>1, Statements DEF StoreActions
  <1>3. PICK table : table = Upserted(actions, Deduped(c.fetched))
    OBVIOUS
  <1>4. PICK n, d : n = <<"answer">> /\ d = [c EXCEPT !.kept = TRUE]
    OBVIOUS
  <1>5. \/ actions' = table /\ Go(r, n, d)
        \/ actions' = actions /\ Go(r, n, c)
    BY <1>1, <1>2, <1>3, <1>4 DEF StoreActions, AdvanceWith, Advance
  <1>6. holdings' = holdings /\ issued' = issued /\ announced' = announced
    BY DEF StoreActions, holdingVars
  <1>7. /\ Has(d, "calendar", {"month", "fetched", "kept"})
        /\ d.month = c.month /\ d.fetched = c.fetched
        /\ Has(c, "calendar", {"month", "fetched", "kept"}) /\ ~c.kept
    BY <1>2, <1>4 DEF Watching, Has
  <1>8. /\ DOMAIN table = Keys(c.fetched) \cup DOMAIN actions
        /\ \A k \in DOMAIN table :
             table[k] = IF k \in Keys(c.fetched) THEN NotesUnder(c.fetched, k) ELSE actions[k]
    <2>1. table = Put(actions, NotesOf(c.fetched))
      BY <1>3, UpsertedIs
    <2>2. /\ DOMAIN NotesOf(c.fetched) = Keys(c.fetched)
          /\ \A k \in Keys(c.fetched) : NotesOf(c.fetched)[k] = NotesUnder(c.fetched, k)
      BY DEF NotesOf
    <2> QED BY <2>1, <2>2 DEF Put
  <1>9. c.fetched \subseteq InMonth(announced, c.month) /\ CalendarTypeOK /\ issued \in Nat
    BY <1>2, TablesFromInvariant DEF Watching, Tables
  <1>10. asks' = asks
    BY <1>5 DEF Go, Quit
  <1>11. CalendarTypeOK'
    <2>1. c.fetched \subseteq announced
      BY <1>9 DEF InMonth
    <2>2. Keys(c.fetched) \subseteq Keys(announced)
      BY <2>1 DEF Keys
    <2>3. \A k \in DOMAIN table : table[k] \subseteq {a.note : a \in announced}
      <3>1. \A k : NotesUnder(c.fetched, k) \subseteq {a.note : a \in announced}
        BY <2>1 DEF NotesUnder, Under
      <3> QED BY <1>8, <1>9, <3>1 DEF CalendarTypeOK
    <2>4. DOMAIN table \subseteq Keys(announced)
      BY <1>8, <1>9, <2>2 DEF CalendarTypeOK
    <2>5. actions' \in {actions, table}
      BY <1>5
    <2> QED BY <1>6, <1>9, <2>3, <2>4, <2>5 DEF CalendarTypeOK
  <1>12. Grows
    BY <1>6, <1>9, <1>10 DEF Grows
  <1>13. CASE actions' = table /\ Go(r, n, d)
    <2>1. Watching(n, d)
      BY <1>4, <1>7, <1>9 DEF Watching
    <2>2. CalendarWhole(d)'
      <3>1. ASSUME NEW a \in c.fetched
            PROVE  a.key \in StoredIn(c.month)' /\ a.note \in table[a.key]
        <4>1. a.key \in Keys(c.fetched)
          BY DEF Keys
        <4>2. a.key \in DOMAIN table /\ a.note \in table[a.key]
          <5>1. a.note \in NotesUnder(c.fetched, a.key)
            BY DEF NotesUnder, Under
          <5> QED BY <1>8, <4>1, <5>1
        <4>3. a \in Announcements /\ a.month = c.month
          BY <1>9 DEF InMonth, CalendarTypeOK
        <4>4. a.key \in Keys(InMonth(Announcements, c.month))
          BY <4>3 DEF Keys, InMonth
        <4> QED BY <1>13, <4>2, <4>4 DEF StoredIn
      <3> QED BY <1>7, <1>13, <3>1 DEF CalendarWhole
    <2>3. Intact(n, d)'
      BY <1>7, <2>2 DEF Intact, Has
    <2>4. Moves(r)
      BY <1>12, <1>13, <2>1, <2>3, GoMoves, WorkingKept DEF Working
    <2> QED BY <1>6, <1>10, <1>11, <2>4
  <1>14. CASE actions' = actions /\ Go(r, n, c)
    <2>1. Watching(n, c)
      BY <1>2, <1>4 DEF Watching
    <2>2. Intact(n, c)
      BY <1>7 DEF Intact, Has, CalendarWhole
    <2>3. Moves(r)
      BY <1>6, <1>9, <1>14, <2>1, <2>2, GoStays DEF Working
    <2> QED BY <1>6, <1>10, <1>11, <2>3
  <1> QED BY <1>5, <1>13, <1>14

-----------------------------------------------------------------------------
(* Every step keeps the invariant.                                         *)

\* What a step of a request does to the tables and to the request itself.
Carries(r) ==
  /\ Moves(r) /\ asks' = asks
  /\ HoldingsTypeOK' /\ QuotesTypeOK' /\ CalendarTypeOK'
  /\ issued <= issued' /\ announced \subseteq announced'

LEMMA CarriesReading ==
  ASSUME IInv, NEW r, Moves(r), asks' = asks,
         UNCHANGED holdingVars, UNCHANGED quoteVars, UNCHANGED calendarVars
  PROVE  Carries(r)
  <1>1. Tables /\ issued \in Nat
    BY TablesFromInvariant
  <1>2. HoldingsTypeOK' /\ issued' = issued
    BY <1>1, HoldingsStay DEF Tables
  <1>3. QuotesTypeOK'
    BY <1>1, QuotesStay DEF Tables
  <1>4. CalendarTypeOK' /\ announced' = announced
    BY <1>1, CalendarStays DEF Tables
  <1> QED BY <1>1, <1>2, <1>3, <1>4 DEF Carries

LEMMA CarriesHoldings ==
  ASSUME IInv, NEW r, Moves(r), asks' = asks,
         HoldingsTypeOK', issued <= issued', UNCHANGED quoteVars, UNCHANGED calendarVars
  PROVE  Carries(r)
  <1>1. Tables
    BY TablesFromInvariant
  <1>2. QuotesTypeOK'
    BY <1>1, QuotesStay DEF Tables
  <1>3. CalendarTypeOK' /\ announced' = announced
    BY <1>1, CalendarStays DEF Tables
  <1> QED BY <1>2, <1>3 DEF Carries

LEMMA CarriesQuotes ==
  ASSUME IInv, NEW r, Moves(r), asks' = asks,
         UNCHANGED holdingVars, QuotesTypeOK', UNCHANGED calendarVars
  PROVE  Carries(r)
  <1>1. Tables /\ issued \in Nat
    BY TablesFromInvariant
  <1>2. HoldingsTypeOK' /\ issued' = issued
    BY <1>1, HoldingsStay DEF Tables
  <1>3. CalendarTypeOK' /\ announced' = announced
    BY <1>1, CalendarStays DEF Tables
  <1> QED BY <1>1, <1>2, <1>3 DEF Carries

LEMMA HoldingsStartStep ==
  ASSUME IInv, NEW r \in Requests, HoldingsStart(r), UNCHANGED calendarVars
  PROVE  Carries(r)
  <1>1. ASSUME NEW row \in Entries(asks), CreateHolding(r, row)
        PROVE  Carries(r)
    BY <1>1, CreateStep, CarriesHoldings DEF CreateHolding
  <1>2. ASSUME NEW u, NEW h \in DOMAIN holdings, DeleteHolding(r, u, h)
        PROVE  Carries(r)
    <2>1. issued' = issued /\ issued \in Nat /\ UNCHANGED quoteVars
      BY <1>2, TablesFromInvariant DEF DeleteHolding
    <2> QED BY <1>2, <2>1, DeleteStep, CarriesHoldings
  <1>3. ASSUME NEW u, NEW h \in DOMAIN holdings, NEW change \in Changes, UpdateHolding(r, u, h, change)
        PROVE  Carries(r)
    BY <1>3, UpdateStep, CarriesReading DEF UpdateHolding
  <1>4. ASSUME NEW u, SyncPrices(r, u)
        PROVE  Carries(r)
    BY <1>4, SyncStartStep, CarriesReading DEF SyncPrices
  <1>5. ASSUME NEW u, NEW from \in Dates, NEW to \in Dates, NEW overwrite \in BOOLEAN,
               DuplicateHoldings(r, u, from, to, overwrite)
        PROVE  Carries(r)
    BY <1>5, DuplicateStartStep, CarriesReading DEF DuplicateHoldings
  <1> QED BY <1>1, <1>2, <1>3, <1>4, <1>5 DEF HoldingsStart

LEMMA ReportsStartStep ==
  ASSUME IInv, NEW r \in Requests, ReportsStart(r), UNCHANGED calendarVars
  PROVE  Carries(r)
  <1>1. ASSUME NEW u, NEW q, GetSummary(r, u, q)
        PROVE  Carries(r)
    BY <1>1, SummaryStep, CarriesReading DEF GetSummary, Report
  <1>2. ASSUME NEW u, NEW p, NEW q, CompareMonths(r, u, p, q)
        PROVE  Carries(r)
    BY <1>2, CompareStep, CarriesReading DEF CompareMonths, Report
  <1>3. ASSUME NEW u, NEW p \in Asked, NEW q \in Asked, GetMonthlyData(r, u, p, q)
        PROVE  Carries(r)
    BY <1>3, MonthlyStep, CarriesReading DEF GetMonthlyData
  <1> QED BY <1>1, <1>2, <1>3 DEF ReportsStart

LEMMA ArriveStep ==
  ASSUME IInv, NEW r \in Requests, Arrive(r)
  PROVE  Carries(r)
  <1>1. ASSUME NEW pair \in Pairs, GetRate(r, pair), UNCHANGED <<holdingVars, calendarVars>>
        PROVE  Carries(r)
    BY <1>1, GetRateStep, CarriesQuotes
  <1>2. ASSUME NEW m \in Dates, GetCalendar(r, m), UNCHANGED <<holdingVars, quoteVars>>
        PROVE  Carries(r)
    BY <1>2, GetCalendarStep, CarriesReading DEF GetCalendar
  <1> QED BY <1>1, <1>2, HoldingsStartStep, ReportsStartStep DEF Arrive

LEMMA HoldingsStepKeeps ==
  ASSUME IInv, NEW r \in Requests, HoldingsStep(r), UNCHANGED calendarVars
  PROVE  Carries(r)
  <1>1. issued \in Nat
    BY TablesFromInvariant
  <1>2. CASE FindHoldingType(r)
    BY <1>2, FindTypeStep, CarriesReading DEF FindHoldingType
  <1>3. CASE WriteHolding(r)
    BY <1>1, <1>3, WriteStep, CarriesHoldings DEF WriteHolding
  <1>4. CASE FindForSync(r)
    BY <1>4, FindForSyncStep, CarriesReading DEF FindForSync
  <1>5. CASE SelectQuoted(r)
    BY <1>5, SelectStep, CarriesReading DEF SelectQuoted
  <1>6. CASE At(r, "price") /\ UpdatePrice(r)
    BY <1>1, <1>6, PriceStep, CarriesHoldings DEF UpdatePrice
  <1>7. CASE FindForDuplicate(r)
    BY <1>7, FindForDuplicateStep, CarriesReading DEF FindForDuplicate
  <1>8. CASE ClearMonth(r)
    BY <1>1, <1>8, ClearStep, CarriesHoldings DEF ClearMonth
  <1>9. CASE At(r, "copy") /\ CopyHolding(r)
    BY <1>9, CopyStep, CarriesHoldings DEF CopyHolding
  <1> QED BY <1>2, <1>3, <1>4, <1>5, <1>6, <1>7, <1>8, <1>9 DEF HoldingsStep

LEMMA ProceedStep ==
  ASSUME IInv, NEW r \in Requests, Proceed(r)
  PROVE  Carries(r)
  <1>1. CASE Respond(r)
    BY <1>1, QuitMoves, CarriesReading DEF Respond
  <1>2. CASE HoldingsStep(r) /\ UNCHANGED calendarVars
    BY <1>2, HoldingsStepKeeps
  <1>3. CASE Query(r) /\ UNCHANGED calendarVars
    BY <1>3, QueryStep, CarriesReading DEF Query
  <1>4. CASE QuotesStep(r) /\ UNCHANGED <<holdingVars, calendarVars>>
    <2>1. CASE CachedQuotes(r)
      BY <1>4, <2>1, CachedStep, CarriesReading DEF CachedQuotes
    <2>2. CASE FetchQuotes(r)
      BY <1>4, <2>2, FetchStep, CarriesQuotes
    <2>3. CASE QuoteRate(r)
      BY <1>4, <2>3, QuoteRateStep, CarriesQuotes
    <2> QED BY <1>4, <2>1, <2>2, <2>3 DEF QuotesStep
  <1>5. CASE CalendarStep(r) /\ UNCHANGED <<holdingVars, quoteVars>>
    <2>1. CASE FetchActions(r)
      BY <1>5, <2>1, FetchActionsStep, CarriesReading DEF FetchActions
    <2>2. CASE StoreActions(r)
      <3>1. Moves(r) /\ asks' = asks /\ CalendarTypeOK' /\ announced' = announced
        BY <1>5, <2>2, StoreStep
      <3>2. HoldingsTypeOK' /\ issued' = issued /\ QuotesTypeOK' /\ issued \in Nat
        BY <1>5, <3>1, TablesFromInvariant, HoldingsStay, QuotesStay DEF Tables
      <3> QED BY <3>1, <3>2 DEF Carries
    <2> QED BY <1>5, <2>1, <2>2 DEF CalendarStep
  <1> QED BY <1>1, <1>2, <1>3, <1>4, <1>5 DEF Proceed

\* The others stay where they were; those that nobody wrote to are as intact as before.
LEMMA RequestStep ==
  ASSUME IInv, NEW r \in Requests, Request(r)
  PROVE  IInv'
  <1>1. Carries(r)
    BY ArriveStep, ProceedStep DEF Request
  <1>2. disturbed' = {q \in Requests : todo'[q] # <<>> /\
          (q \in disturbed \/ (q # r /\ <<holdings, actions>>' # <<holdings, actions>>))}
    BY DEF Request
  <1>3. asks' \in Workloads /\ issued \in Nat
    BY <1>1, TablesFromInvariant DEF Carries, Tables
  <1>4. Grows
    <2>1. issued' \in Nat
      BY <1>1, <1>3 DEF Carries, HoldingsTypeOK
    <2> QED BY <1>1, <1>3, <2>1 DEF Grows, Carries
  <1>5. TypeOK'
    BY <1>1, <1>2 DEF TypeOK, Carries
  <1>6. DOMAIN todo = Requests /\ DOMAIN call = Requests
    BY DEF IInv, RequestsTyped
  <1>7. asks' = asks /\ Moves(r)
    BY <1>1 DEF Carries
  <1>8. DOMAIN todo' = Requests /\ DOMAIN call' = Requests
    BY <1>6, <1>7 DEF Moves, Leads, requestVars
  <1>9. ASSUME NEW q \in Requests, NEW t, NEW c, t = todo'[q], c = call'[q], t # <<>>
        PROVE  Working(t, c)' /\ (q \notin disturbed' => Intact(t, c)')
    <2>1. q \notin disturbed' => q \notin disturbed
      BY <1>2, <1>9
    <2>2. CASE q = r
      <3>1. PICK n, d : Leads(r, n, d)
        BY <1>7, <1>9, <2>2 DEF Moves, requestVars
      <3>2. n = t /\ d = c
        BY <1>6, <1>9, <2>2, <3>1 DEF Leads
      <3> QED BY <1>9, <2>1, <2>2, <3>1, <3>2 DEF Leads
    <2>3. CASE q # r
      <3>1. t = todo[q] /\ c = call[q]
        BY <1>6, <1>7, <1>9, <2>3 DEF Moves, Leads, requestVars
      <3>2. Working(t, c)
        BY <1>9, <3>1 DEF IInv, RequestsTyped
      <3>3. q \notin disturbed' => holdings' = holdings /\ actions' = actions
        BY <1>2, <1>9, <2>3
      <3>4. q \notin disturbed => Intact(t, c)
        BY <1>9, <3>1 DEF IInv, RequestsIntact
      <3> QED BY <1>4, <2>1, <3>2, <3>3, <3>4, WorkingKept, IntactKept
    <2> QED BY <2>2, <2>3
  <1>10. RequestsTyped'
    <2>1. ASSUME NEW q \in Requests, todo'[q] # <<>>
          PROVE  Working(todo[q], call[q])'
      <3>1. PICK t, c : t = todo'[q] /\ c = call'[q]
        OBVIOUS
      <3>2. Working(t, c)'
        BY <1>9, <2>1, <3>1
      <3> QED BY <3>1, <3>2
    <2> QED BY <1>3, <1>8, <2>1 DEF RequestsTyped
  <1>11. RequestsIntact'
    <2>1. ASSUME NEW q \in Requests, q \notin disturbed', todo'[q] # <<>>
          PROVE  Intact(todo[q], call[q])'
      <3>1. PICK t, c : t = todo'[q] /\ c = call'[q]
        OBVIOUS
      <3>2. Intact(t, c)'
        BY <1>9, <2>1, <3>1
      <3> QED BY <3>1, <3>2
    <2> QED BY <2>1 DEF RequestsIntact
  <1> QED BY <1>5, <1>10, <1>11 DEF IInv

\* Nothing that happens by itself touches the holdings or the calendar's table.
LEMMA WorldTables ==
  ASSUME IInv, World
  PROVE  /\ UNCHANGED <<requestVars, holdings, issued, actions, disturbed>>
         /\ announced \subseteq announced'
         /\ HoldingsTypeOK' /\ QuotesTypeOK' /\ CalendarTypeOK'
  <1>1. HoldingsTypeOK /\ QuotesTypeOK /\ CalendarTypeOK /\ asks \in Workloads
    BY TablesFromInvariant DEF Tables
  <1>2. CASE NewMonth /\ UNCHANGED <<quoteVars, calendarVars>>
    <2>1. today' \in Dates /\ UNCHANGED <<requestVars, holdings, issued>>
      BY <1>2 DEF NewMonth
    <2>2. HoldingsTypeOK'
      BY <1>1, <2>1, UsersKept DEF HoldingsTypeOK, requestVars
    <2>3. QuotesTypeOK'
      BY <1>1, <1>2, <2>1, QuotesStay DEF requestVars
    <2>4. CalendarTypeOK' /\ UNCHANGED <<announced, actions>>
      BY <1>1, <1>2, CalendarStays
    <2> QED BY <2>1, <2>2, <2>3, <2>4 DEF World
  <1>3. CASE (Trade \/ ExpireQuote \/ ExpireRate) /\ UNCHANGED <<holdingVars, calendarVars>>
    <2>1. UNCHANGED requestVars
      BY <1>3 DEF Trade, ExpireQuote, ExpireRate
    <2>2. HoldingsTypeOK' /\ UNCHANGED <<holdings, issued>>
      BY <1>1, <1>3, <2>1, HoldingsStay DEF requestVars
    <2>3. CalendarTypeOK' /\ UNCHANGED <<announced, actions>>
      BY <1>1, <1>3, CalendarStays
    <2>4. QuotesTypeOK'
      <3>1. CASE Trade
        BY <1>1, <2>1, <3>1 DEF Trade, QuotesTypeOK, requestVars
      <3>2. CASE ExpireQuote
        BY <1>1, <2>1, <3>2 DEF ExpireQuote, QuotesTypeOK, requestVars
      <3>3. CASE ExpireRate
        BY <1>1, <2>1, <3>3 DEF ExpireRate, QuotesTypeOK, requestVars
      <3> QED BY <1>3, <3>1, <3>2, <3>3
    <2> QED BY <2>1, <2>2, <2>3, <2>4 DEF World
  <1>4. CASE Announce /\ UNCHANGED <<holdingVars, quoteVars>>
    <2>1. UNCHANGED requestVars /\ UNCHANGED actions
      BY <1>4 DEF Announce
    <2>2. HoldingsTypeOK' /\ UNCHANGED <<holdings, issued>>
      BY <1>1, <1>4, <2>1, HoldingsStay DEF requestVars
    <2>3. QuotesTypeOK'
      BY <1>1, <1>4, <2>1, QuotesStay DEF requestVars
    <2>4. announced \subseteq announced' /\ announced' \subseteq Announcements
      BY <1>1, <1>4 DEF Announce, CalendarTypeOK
    <2>5. CalendarTypeOK'
      BY <1>1, <2>1, <2>4 DEF CalendarTypeOK, Keys
    <2> QED BY <2>1, <2>2, <2>3, <2>4, <2>5 DEF World
  <1> QED BY <1>2, <1>3, <1>4 DEF World

LEMMA WorldStep ==
  ASSUME IInv, World \/ UNCHANGED vars
  PROVE  IInv'
  <1>1. /\ UNCHANGED <<requestVars, holdings, issued, actions, disturbed>>
        /\ announced \subseteq announced'
        /\ HoldingsTypeOK' /\ QuotesTypeOK' /\ CalendarTypeOK'
    <2>1. CASE World
      BY <2>1, WorldTables
    <2>2. CASE UNCHANGED vars
      BY <2>2, TablesFromInvariant, HoldingsStay, QuotesStay, CalendarStays DEF vars, Tables, requestVars
    <2> QED BY <2>1, <2>2
  <1>2. TypeOK'
    BY <1>1 DEF TypeOK, IInv
  <1>3. Grows
    BY <1>1, TablesFromInvariant DEF Grows, requestVars
  <1>4. RequestsTyped'
    <2>1. ASSUME NEW q \in Requests, todo'[q] # <<>>
          PROVE  Working(todo[q], call[q])'
      <3>1. PICK t, c : t = todo[q] /\ c = call[q]
        OBVIOUS
      <3>2. Working(t, c)
        BY <1>1, <2>1, <3>1 DEF IInv, RequestsTyped, requestVars
      <3>3. Working(t, c)'
        BY <1>3, <3>2, WorkingKept
      <3> QED BY <1>1, <3>1, <3>3 DEF requestVars
    <2> QED BY <1>1, <2>1 DEF IInv, RequestsTyped, requestVars
  <1>5. RequestsIntact'
    <2>1. ASSUME NEW q \in Requests, q \notin disturbed', todo'[q] # <<>>
          PROVE  Intact(todo[q], call[q])'
      <3>1. PICK t, c : t = todo[q] /\ c = call[q]
        OBVIOUS
      <3>2. Intact(t, c)
        BY <1>1, <2>1, <3>1 DEF IInv, RequestsIntact, requestVars
      <3>3. Intact(t, c)'
        BY <1>1, <3>2, IntactKept
      <3> QED BY <1>1, <3>1, <3>3 DEF requestVars
    <2> QED BY <2>1 DEF RequestsIntact
  <1> QED BY <1>2, <1>4, <1>5 DEF IInv

LEMMA InitInvariant == Init => IInv
  <1> SUFFICES ASSUME Init
               PROVE  IInv
    OBVIOUS
  <1>1. asks \in Workloads /\ todo = [r \in Requests |-> <<>>] /\ call = [r \in Requests |-> None]
    BY DEF Init, RequestsInit
  <1>2. HoldingsTypeOK
    <2>1. holdings = [h \in {} |-> None] /\ issued = 0 /\ today \in Dates
      BY DEF Init, HoldingsInit
    <2>2. DOMAIN holdings = {} /\ holdings \in [{} -> HoldingRow]
      BY <2>1
    <2>3. issued \in 0..MaxHoldings(asks)
      <3>1. MaxHoldings(asks) \in Nat
        BY <1>1
      <3> QED BY <2>1, <3>1
    <2> QED BY <2>1, <2>2, <2>3 DEF HoldingsTypeOK
  <1>3. QuotesTypeOK
    BY <1>1 DEF Init, QuotesInit, QuotesTypeOK
  <1>4. CalendarTypeOK
    BY DEF Init, CalendarInit, CalendarTypeOK
  <1>5. disturbed = {}
    BY DEF Init
  <1>6. RequestsTyped /\ RequestsIntact
    BY <1>1 DEF RequestsTyped, RequestsIntact
  <1> QED BY <1>2, <1>3, <1>4, <1>5, <1>6 DEF IInv, TypeOK

\* Wherever a request is, its locals are what its operation has by then, and as long as
\* nobody else has written they agree with the tables: rows that were read are as they
\* were read but for those a sync has priced, a copied month has the copies made so far
\* and no others, answers are still the answers, and what was stored of an announced month
\* is in the calendar (holding_service.go, corporate_action_service.go).
THEOREM PortfolioInvariance == Spec => []IInv
  <1>1. IInv /\ [Next]_vars => IInv'
    BY RequestStep, WorldStep DEF Next
  <1> QED BY <1>1, InitInvariant, PTL DEF Spec

\* The tables, the clock, the caches and the locals of the requests keep their types
\* (holding_service.go, cached_quote.go, exchange_rate_service.go,
\* corporate_action_service.go).
THEOREM PortfolioTypeCorrect == Spec => []TypeOK
  <1>1. IInv => TypeOK
    BY DEF IInv
  <1> QED BY <1>1, PortfolioInvariance, PTL

-----------------------------------------------------------------------------
(* What a report owes.                                                     *)

\* A request about to answer that nobody disturbed.
LEMMA AboutToAnswer ==
  ASSUME IInv, NEW r \in Requests, NEW op, Undisturbed(r, op)
  PROVE  Working(<<"answer">>, call[r]) /\ Intact(<<"answer">>, call[r]) /\ call[r].op = op
  <1>1. At(r, "answer") /\ r \notin disturbed /\ call[r].op = op
    BY DEF Undisturbed
  <1>2. PICK t, c : t = todo[r] /\ c = call[r]
    OBVIOUS
  <1>3. Working(t, c) /\ t = <<"answer">>
    BY <1>1, <1>2, Statements
  <1>4. todo[r] # <<>>
    BY <1>1 DEF At
  <1>5. Intact(t, c)
    BY <1>1, <1>2, <1>4 DEF IInv, RequestsIntact
  <1> QED BY <1>1, <1>2, <1>3, <1>5

LEMMA SummaryIsWhole ==
  ASSUME HoldingsTypeOK, asks \in Workloads, NEW u, NEW c, NEW queries, NEW q, c.user = u, c.queries = queries,
         queries[1] = <<"totals", q>>, queries[2] = <<"type", q>>, queries[3] = <<"platform", q>>,
         1 \in DOMAIN c.got /\ 2 \in DOMAIN c.got /\ 3 \in DOMAIN c.got,
         \A i \in DOMAIN c.got : c.got[i] = Answer(c.user, c.queries[i])
  PROVE  SummaryWhole(c)
  <1>1. /\ c.got[1] = Answer(u, <<"totals", q>>)
        /\ c.got[2] = Answer(u, <<"type", q>>)
        /\ c.got[3] = Answer(u, <<"platform", q>>)
    OBVIOUS
  <1> QED BY <1>1, SummaryAddsUp DEF SummaryWhole

LEMMA ComparisonIsWhole ==
  ASSUME HoldingsTypeOK, asks \in Workloads, NEW u, NEW c, NEW queries, NEW from, NEW to,
         c.user = u, c.queries = queries, queries = Comparison(from, to), DOMAIN c.got = 1..10,
         \A i \in DOMAIN c.got : c.got[i] = Answer(c.user, c.queries[i])
  PROVE  SummaryWhole(c) /\ ComparisonWhole(c)
  <1>1. /\ queries[1] = <<"totals", from>> /\ queries[2] = <<"type", from>>
        /\ queries[3] = <<"platform", from>> /\ queries[4] = <<"totals", to>>
        /\ queries[7] = <<"type", from>> /\ queries[8] = <<"type", to>>
        /\ queries[9] = <<"platform", from>> /\ queries[10] = <<"platform", to>>
    BY QueriesOf
  <1>2. SummaryWhole(c)
    <2>1. /\ c.got[1] = Answer(u, <<"totals", from>>)
          /\ c.got[2] = Answer(u, <<"type", from>>)
          /\ c.got[3] = Answer(u, <<"platform", from>>)
      BY <1>1
    <2> QED BY <2>1, SummaryAddsUp DEF SummaryWhole
  <1>3. /\ c.got[1] = Answer(u, <<"totals", from>>) /\ c.got[4] = Answer(u, <<"totals", to>>)
        /\ c.got[7] = Answer(u, <<"type", from>>) /\ c.got[8] = Answer(u, <<"type", to>>)
        /\ c.got[9] = Answer(u, <<"platform", from>>) /\ c.got[10] = Answer(u, <<"platform", to>>)
    BY <1>1
  <1>4. /\ SumOf(Compared(Answer(u, <<"type", from>>), Answer(u, <<"type", to>>))) =
             Difference(Answer(u, <<"totals", from>>), Answer(u, <<"totals", to>>))
        /\ SumOf(Compared(Answer(u, <<"platform", from>>), Answer(u, <<"platform", to>>))) =
             Difference(Answer(u, <<"totals", from>>), Answer(u, <<"totals", to>>))
    BY ComparisonAddsUp
  <1> QED BY <1>2, <1>3, <1>4 DEF ComparisonWhole

LEMMA ReportsFromInvariant ==
  ASSUME IInv, NEW r \in Requests
  PROVE  /\ Undisturbed(r, "summary") => SummaryWhole(call[r])
         /\ Undisturbed(r, "compare") => SummaryWhole(call[r]) /\ ComparisonWhole(call[r])
         /\ Undisturbed(r, "monthly") => SeriesWhole(call[r])
         /\ Undisturbed(r, "calendar") => CalendarWhole(call[r])
  <1>1. PICK c, t : c = call[r] /\ t = <<"answer">>
    OBVIOUS
  <1>2. HoldingsTypeOK /\ asks \in Workloads
    BY TablesFromInvariant DEF Tables
  <1>3. \A op : Undisturbed(r, op) => Working(t, c) /\ Intact(t, c) /\ c.op = op
    BY <1>1, AboutToAnswer
  <1>4. ASSUME NEW op \in {"summary", "compare"}, Undisturbed(r, op)
        PROVE  /\ \/ op = "summary" /\ c.queries = Summary(c.queries[1][2])
                  \/ op = "compare" /\ c.queries = Comparison(c.queries[1][2], c.queries[4][2])
               /\ DOMAIN c.got = 1..Len(c.queries)
               /\ \A i \in DOMAIN c.got : c.got[i] = Answer(c.user, c.queries[i])
    <2>1. Working(t, c) /\ Intact(t, c) /\ c.op = op
      BY <1>3, <1>4
    <2>2. Asking(t, c)
      BY <2>1 DEF Working, Updating, Syncing, Duplicating, Listing, Rating, Watching, Has
    <2>3. Len(c.got) = Len(c.queries)
      BY <1>1, <2>2 DEF Asking
    <2>4. DOMAIN c.got = 1..Len(c.got)
      <3>1. PICK S : c.got \in Seq(S)
        BY <2>2 DEF Asking
      <3> QED BY <3>1
    <2>5. \/ op = "summary" /\ c.queries = Summary(c.queries[1][2])
          \/ op = "compare" /\ c.queries = Comparison(c.queries[1][2], c.queries[4][2])
      BY <2>1, <2>2 DEF Asking, Has
    <2>6. \A i \in DOMAIN c.got : c.got[i] = Answer(c.user, c.queries[i])
      BY <2>1 DEF Intact
    <2> QED BY <2>3, <2>4, <2>5, <2>6
  <1>5. ASSUME Undisturbed(r, "summary")
        PROVE  SummaryWhole(c)
    <2>1. PICK q : c.queries = Summary(q) /\ DOMAIN c.got = 1..Len(c.queries)
      BY <1>4, <1>5
    <2>2. /\ Summary(q)[1] = <<"totals", q>> /\ Summary(q)[2] = <<"type", q>> /\ Summary(q)[3] = <<"platform", q>>
          /\ Len(Summary(q)) = 3
      BY DEF Summary
    <2>3. DOMAIN c.got = 1..3
      BY <2>1, <2>2
    <2>4. 1 \in DOMAIN c.got /\ 2 \in DOMAIN c.got /\ 3 \in DOMAIN c.got
      BY <2>3
    <2> QED BY <1>2, <1>4, <1>5, <2>1, <2>2, <2>4, SummaryIsWhole
  <1>6. ASSUME Undisturbed(r, "compare")
        PROVE  SummaryWhole(c) /\ ComparisonWhole(c)
    <2>1. PICK from, to : c.queries = Comparison(from, to) /\ DOMAIN c.got = 1..Len(c.queries)
      BY <1>4, <1>6
    <2>2. Len(Comparison(from, to)) = 10
      BY QueriesOf
    <2> QED BY <1>2, <1>4, <1>6, <2>1, <2>2, ComparisonIsWhole
  <1>7. ASSUME Undisturbed(r, "monthly")
        PROVE  SeriesWhole(c)
    <2>1. Working(t, c) /\ Intact(t, c) /\ c.op = "monthly"
      BY <1>3, <1>7
    <2>2. Listing(t, c)
      BY <2>1 DEF Working, Updating, Syncing, Duplicating, Asking, Rating, Watching, Has
    <2>3. PICK a, b : a = c.range[1] /\ b = c.range[2]
      OBVIOUS
    <2>4. c.range = <<a, b>> /\ IsDate(a) /\ IsDate(b) /\ ~Earlier(a, b) /\ ~TooLong(<<a, b>>)
      BY <2>2, <2>3 DEF Listing
    <2>5. c.series = Walk(b, a, MonthlyRows(c.user, c.range))
      BY <2>1, <2>3 DEF Intact
    <2> QED BY <1>2, <2>4, <2>5, SeriesAddsUp
  <1>8. ASSUME Undisturbed(r, "calendar")
        PROVE  CalendarWhole(c)
    BY <1>3, <1>8 DEF Intact
  <1> QED BY <1>1, <1>5, <1>6, <1>7, <1>8

\* What is put together from several queries adds up when nobody wrote meanwhile,
\* whatever the rows, the months and the groups: the breakdowns to the totals, the
\* differences of a comparison to that of the totals, the series to the holdings of its
\* months, each once and in order; the calendar has what was fetched for it
\* (holding_service.go, GetSummary, CompareMonths and GetMonthlyData;
\* corporate_action_service.go, GetCalendar).
THEOREM ReportsAlwaysAddUp == Spec => []ReportsAddUp
  <1>1. IInv => ReportsAddUp
    BY ReportsFromInvariant DEF ReportsAddUp
  <1> QED BY <1>1, PortfolioInvariance, PTL

-----------------------------------------------------------------------------
(* What a request that writes row by row owes.                             *)

\* The copies of a kind are as many as the originals, or more if the month's own stayed.
LEMMA CopiesCounted ==
  ASSUME HoldingsTypeOK, asks \in Workloads,
         NEW source, NEW target, source \subseteq DOMAIN holdings, target \subseteq DOMAIN holdings,
         NEW copy \in [source -> target], \A h, k \in source : copy[h] = copy[k] => h = k,
         \A h \in source : Content(copy[h]) = Content(h), NEW x
  PROVE  /\ Count(target, x) >= Count(source, x)
         /\ (\A y \in target : \E h \in source : copy[h] = y) => Count(target, x) = Count(source, x)
  <1>1. PICK A, B : A = {h \in source : Content(h) = x} /\ B = {h \in target : Content(h) = x}
    OBVIOUS
  <1>2. PICK f : f = [h \in A |-> copy[h]]
    OBVIOUS
  <1>3. IsFiniteSet(A) /\ IsFiniteSet(B)
    <2>1. A \subseteq DOMAIN holdings /\ B \subseteq DOMAIN holdings
      BY <1>1
    <2>2. IsFiniteSet(DOMAIN holdings)
      BY AmountsAreNumbers
    <2> QED BY <2>1, <2>2, FS_Subset
  <1>4. \A h \in A : h \in source /\ copy[h] \in B
    BY <1>1
  <1>5. f \in Injection(A, B)
    <2>1. f \in [A -> B]
      BY <1>2, <1>4
    <2>2. \A h, k \in A : f[h] = f[k] => h = k
      BY <1>2, <1>4
    <2> QED BY <2>1, <2>2 DEF Injection, IsInjective
  <1>6. Cardinality(A) <= Cardinality(B) /\ (f \in Surjection(A, B) => Cardinality(A) = Cardinality(B))
    BY <1>3, <1>5, FS_Injection
  <1>7. ASSUME \A y \in target : \E h \in source : copy[h] = y
        PROVE  f \in Surjection(A, B)
    <2>1. f \in [A -> B]
      BY <1>2, <1>4
    <2>2. \A y \in B : \E h \in A : f[h] = y
      BY <1>1, <1>2, <1>7
    <2> QED BY <2>1, <2>2 DEF Surjection
  <1>8. Cardinality(A) \in Nat /\ Cardinality(B) \in Nat
    BY <1>3, FS_CardinalityType
  <1>9. Count(source, x) = Cardinality(A) /\ Count(target, x) = Cardinality(B)
    BY <1>1 DEF Count
  <1> QED BY <1>6, <1>7, <1>8, <1>9

LEMMA DuplicateFromInvariant ==
  ASSUME IInv, NEW r \in Requests, Undisturbed(r, "duplicate")
  PROVE  CopiesWhole(call[r])
  <1>1. PICK c, t : c = call[r] /\ t = <<"answer">>
    OBVIOUS
  <1>2. Working(t, c) /\ Intact(t, c) /\ c.op = "duplicate"
    BY <1>1, AboutToAnswer
  <1>3. Duplicating(t, c)
    BY <1>2 DEF Working, Updating, Syncing, Asking, Listing, Rating, Watching, Has
  <1>4. c.left = {} /\ c.overwrite \in BOOLEAN /\ AreRows(c.rows)
    BY <1>1, <1>3 DEF Duplicating
  <1>5. HoldingsTypeOK /\ asks \in Workloads
    BY TablesFromInvariant DEF Tables
  <1>6. PICK source, target : source = RowsOf(c.user, c.from) /\ target = RowsOf(c.user, c.to)
    OBVIOUS
  <1>7. source \subseteq DOMAIN holdings /\ target \subseteq DOMAIN holdings
    BY <1>6 DEF RowsOf
  <1>8. DuplicateIntact(t, c) /\ Head(t) = "answer"
    BY <1>1, <1>2 DEF Intact
  <1>9. DOMAIN c.rows # {} /\ Copies(source) = c.rows
    BY <1>6, <1>8 DEF DuplicateIntact
  <1>10. DOMAIN c.rows = source /\ \A h \in source : c.rows[h] = holdings[h]
    BY <1>9 DEF Copies
  <1>11. PICK copy \in [source -> target] : IsCopying(copy, c)
    <2>1. \E copy \in [DOMAIN c.rows \ c.left -> RowsOf(c.user, c.to)] : IsCopying(copy, c)
      BY <1>8 DEF DuplicateIntact
    <2>2. DOMAIN c.rows \ c.left = source
      BY <1>4, <1>10
    <2> QED BY <1>6, <2>1, <2>2
  <1>12. /\ DOMAIN copy = source
         /\ \A h, k \in source : copy[h] = copy[k] => h = k
         /\ c.overwrite => \A y \in target : \E h \in source : copy[h] = y
         /\ \A h \in source : holdings[copy[h]] = [holdings[h] EXCEPT !.date = c.to]
    BY <1>6, <1>10, <1>11 DEF IsCopying
  <1>13. \A h \in source : Content(copy[h]) = Content(h)
    <2>1. \A h \in source : holdings[h] \in HoldingRow
      BY <1>5, <1>7 DEF HoldingsTypeOK
    <2>2. \A row \in HoldingRow : \A d :
            [[row EXCEPT !.date = d] EXCEPT !.date = None] = [row EXCEPT !.date = None]
      BY DEF HoldingRow, Row
    <2>3. ASSUME NEW h \in source
          PROVE  [holdings[copy[h]] EXCEPT !.date = None] = [holdings[h] EXCEPT !.date = None]
      <3>1. PICK row, copied : row = holdings[h] /\ copied = holdings[copy[h]]
        OBVIOUS
      <3>2. copied = [row EXCEPT !.date = c.to] /\ row \in HoldingRow
        BY <1>12, <2>1, <3>1
      <3> QED BY <2>2, <3>1, <3>2
    <2> QED BY <2>3 DEF Content
  <1>14. \A x : /\ Count(target, x) >= Count(source, x)
                /\ c.overwrite => Count(target, x) = Count(source, x)
    BY <1>5, <1>7, <1>12, <1>13, CopiesCounted
  <1>15. CopiesWhole(c)
    BY <1>4, <1>6, <1>9, <1>10, <1>14 DEF CopiesWhole
  <1> QED BY <1>1, <1>15

LEMMA SyncFromInvariant ==
  ASSUME IInv, NEW r \in Requests, Undisturbed(r, "sync")
  PROVE  PricesWhole(call[r])
  <1>1. PICK c, t : c = call[r] /\ t = <<"answer">>
    OBVIOUS
  <1>2. Working(t, c) /\ Intact(t, c) /\ c.op = "sync"
    BY <1>1, AboutToAnswer
  <1>3. Syncing(t, c)
    BY <1>2 DEF Working, Updating, Duplicating, Asking, Listing, Rating, Watching, Has
  <1>4. c.left = {} /\ AreQuotes(c.quotes) /\ AreRows(c.rows)
    BY <1>1, <1>3 DEF Syncing
  <1>5. Priced(t, c) = Quoted(c)
    BY <1>1, <1>4 DEF Priced
  <1>6. SyncIntact(t, c)
    BY <1>2 DEF Intact
  <1>7. ASSUME NEW h \in DOMAIN c.rows
        PROVE  IF h \notin Quoted(c) THEN holdings[h] = c.rows[h]
               ELSE LET price == c.quotes[TickerOf(c.rows[h])] IN
                    /\ holdings[h] = [c.rows[h] EXCEPT !.price = price, !.value = holdings[h].units * price]
                    /\ price > 0
    <2>1. CASE h \notin Quoted(c)
      BY <1>5, <1>6, <2>1 DEF SyncIntact
    <2>2. CASE h \in Quoted(c)
      <3>1. PICK price, row : price = c.quotes[TickerOf(c.rows[h])] /\ row = c.rows[h]
        OBVIOUS
      <3>2. holdings[h] = [row EXCEPT !.price = price, !.value = row.units * price]
        BY <1>5, <1>6, <2>2, <3>1 DEF SyncIntact, Repriced
      <3>3. row \in HoldingRow
        BY <1>4, <3>1 DEF AreRows
      <3>4. holdings[h].units = row.units
        BY <3>2, <3>3 DEF HoldingRow, Row
      <3>5. TickerOf(c.rows[h]) \in DOMAIN c.quotes
        BY <2>2 DEF Quoted
      <3>6. price \in Nat \ {0}
        BY <1>4, <3>1, <3>5 DEF AreQuotes
      <3> QED BY <2>2, <3>1, <3>2, <3>4, <3>6
    <2> QED BY <2>1, <2>2
  <1>8. PricesWhole(c)
    BY <1>7 DEF PricesWhole
  <1> QED BY <1>1, <1>8

LEMMA UntouchedKeepsEntries ==
  ASSUME HoldingsTypeOK, holdings' = holdings, NEW r
  PROVE  KeepsEntries(r)
  <1>1. \A h \in DOMAIN holdings : holdings[h] \in HoldingRow
    BY DEF HoldingsTypeOK
  <1>2. \A h \in DOMAIN holdings :
          holdings[h] = [holdings[h] EXCEPT !.price = holdings[h].price, !.value = holdings[h].value]
    BY <1>1 DEF HoldingRow, Row
  <1> QED BY <1>2 DEF KeepsEntries

LEMMA PricingKeepsEntries ==
  ASSUME IInv, [Next]_vars, NEW r \in Requests, At(r, "price"), call[r] # call'[r]
  PROVE  KeepsEntries(r)
  <1>1. HoldingsTypeOK
    BY TablesFromInvariant DEF Tables
  <1>2. \A s : At(r, s) => s = "price"
    BY DEF At
  <1>3. CASE World \/ UNCHANGED vars
    BY <1>1, <1>3, WorldTables, UntouchedKeepsEntries DEF vars, requestVars, holdingVars
  <1>4. ASSUME NEW q \in Requests, Request(q)
        PROVE  KeepsEntries(r)
    <2>1. q = r
      <3>1. Moves(q)
        BY <1>4, ArriveStep, ProceedStep DEF Request, Carries
      <3>2. DOMAIN call = Requests
        BY DEF IInv, RequestsTyped
      <3> QED BY <3>1, <3>2 DEF Moves, Leads, requestVars
    <2>2. Proceed(r)
      BY <1>4, <2>1 DEF Request, At
    <2>3. CASE HoldingsStep(r) /\ UNCHANGED calendarVars
      <3>1. At(r, "price") /\ UpdatePrice(r)
        <4>1. /\ ~At(r, "findType") /\ ~At(r, "write") /\ ~At(r, "findForSync") /\ ~At(r, "quoted")
              /\ ~At(r, "findForDuplicate") /\ ~At(r, "clear") /\ ~At(r, "copy")
          BY <1>2
        <4>2. ~FindHoldingType(r) /\ ~WriteHolding(r)
          BY <4>1, Zenon DEF FindHoldingType, WriteHolding
        <4>3. ~FindForSync(r) /\ ~SelectQuoted(r)
          BY <4>1, Zenon DEF FindForSync, SelectQuoted
        <4>4. ~FindForDuplicate(r) /\ ~ClearMonth(r)
          BY <4>1, Zenon DEF FindForDuplicate, ClearMonth
        <4> QED BY <2>3, <4>1, <4>2, <4>3, <4>4 DEF HoldingsStep
      <3> QED BY <2>3, <3>1, PriceStep
    <2>4. CASE holdings' = holdings
      BY <1>1, <2>4, UntouchedKeepsEntries
    <2> QED BY <2>2, <2>3, <2>4 DEF Proceed, Respond, Query, holdingVars
  <1> QED BY <1>3, <1>4 DEF Next

\* A copied month has each holding of the other, as often and no others if its own were
\* to go; each holding of a synced month with a quote is worth its units at that quote;
\* provided that nobody else wrote meanwhile.  And whatever others write, no step of a
\* sync takes back what an owner changed after the sync read the rows
\* (holding_service.go, DuplicateHoldings and SyncPrices).
THEOREM WritesAreWhole == Spec => WritesWhole
  <1>1. IInv /\ [Next]_vars =>
          [ \A r \in Requests :
              /\ Undisturbed(r, "duplicate") => CopiesWhole(call[r])
              /\ Undisturbed(r, "sync") => PricesWhole(call[r])
              /\ At(r, "price") /\ call[r] # call'[r] => KeepsEntries(r) ]_vars
    BY DuplicateFromInvariant, SyncFromInvariant, PricingKeepsEntries
  <1> QED BY <1>1, PortfolioInvariance, PTL DEF Spec, WritesWhole

=============================================================================
