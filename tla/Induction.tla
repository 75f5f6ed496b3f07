------------------------------- MODULE Induction ------------------------------
(***************************************************************************)
(* Induction over numbers and over finite sets, with the property that is  *)
(* proved by induction given as the set of those that have it, and what it *)
(* shows of sums over finite sets.                                         *)
(***************************************************************************)
EXTENDS Integers, Functions, FiniteSetTheorems, TLAPS

LEMMA LeastNumber ==
  ASSUME NEW T \in SUBSET Nat, T # {}
  PROVE  \E n \in T : \A m \in T : n <= m
<1> DEFINE R == OpToRel(<, Nat)
<1>1. IsWellFoundedOn(R, Nat)
  BY NatLessThanWellFounded
<1>2. \A m, n \in Nat : m < n => << m, n >> \in R
  BY DEF OpToRel
<1> HIDE DEF R
<1>3. PICK n \in T : \A m \in T : << m, n >> \notin R
  BY <1>1, WFMin
<1>4. ASSUME NEW m \in T PROVE n <= m
  <2>1. m \in Nat /\ n \in Nat /\ ~(m < n)
    BY <1>2, <1>3
  <2>2. QED BY <2>1
<1>5. QED BY <1>4

(* From 0 step by step to N.                                               *)
LEMMA UpTo ==
  ASSUME NEW N \in Nat, NEW S, 0 \in S, \A k \in 1 .. N : k - 1 \in S => k \in S
  PROVE  \A k \in 0 .. N : k \in S
<1> DEFINE T == (0 .. N) \ S
<1>1. T \in SUBSET Nat
  OBVIOUS
<1>2. SUFFICES ASSUME T # {} PROVE FALSE
  OBVIOUS
<1> HIDE DEF T
<1>3. PICK n \in T : \A m \in T : n <= m
  BY <1>1, <1>2, LeastNumber
<1>4. n \in 0 .. N /\ n \notin S /\ n # 0
  BY <1>3 DEF T
<1>5. n \in 1 .. N /\ n - 1 \in 0 .. N /\ ~(n <= n - 1)
  BY <1>4
<1>6. n - 1 \notin T
  BY <1>3, <1>5
<1>7. n - 1 \in S
  BY <1>5, <1>6 DEF T
<1>8. QED BY <1>4, <1>5, <1>7

(* A set of subsets of a finite set has a least one.                       *)
LEMMA LeastSet ==
  ASSUME NEW S, IsFiniteSet(S), NEW B \in SUBSET SUBSET S, B # {}
  PROVE  \E T \in B : \A U \in SUBSET T : U # T => U \notin B
<1> DEFINE R == StrictSubsetOrdering(S)
<1>1. IsWellFoundedOn(R, SUBSET S)
  BY FS_StrictSubsetOrderingWellFounded, FS_FiniteSubsetsOfFinite, Zenon
<1>2. \A T \in SUBSET S : \A U \in SUBSET T : U # T => << U, T >> \in R
  BY DEF StrictSubsetOrdering
<1> HIDE DEF R
<1>3. PICK T \in B : \A U \in B : << U, T >> \notin R
  BY <1>1, WFMin
<1>4. QED BY <1>2, <1>3

(* A subset has what all smaller ones have.                                *)
LEMMA SubsetInduct ==
  ASSUME NEW S, IsFiniteSet(S), NEW F,
         \A T \in SUBSET S : (\A U \in SUBSET T : U # T => U \in F) => T \in F
  PROVE  \A T \in SUBSET S : T \in F
<1> DEFINE B == (SUBSET S) \ F
<1>1. SUFFICES ASSUME B # {} PROVE FALSE
  OBVIOUS
<1>2. B \in SUBSET SUBSET S
  OBVIOUS
<1> HIDE DEF B
<1>3. PICK T \in B : \A U \in SUBSET T : U # T => U \notin B
  BY <1>1, <1>2, LeastSet
<1> USE DEF B
<1>4. \A U \in SUBSET T : U # T => U \in F
  BY <1>3
<1>5. QED BY <1>3, <1>4

(* From the empty set element by element to all of S.                      *)
LEMMA FiniteInduct ==
  ASSUME NEW S, IsFiniteSet(S), NEW F, {} \in F,
         \A T \in SUBSET S : \A x \in S \ T : T \in F => T \cup {x} \in F
  PROVE  \A T \in SUBSET S : T \in F
<1>1. ASSUME NEW T \in SUBSET S, \A U \in SUBSET T : U # T => U \in F PROVE T \in F
  <2>1. CASE T = {}
    BY <2>1
  <2>2. CASE T # {}
    <3>1. PICK x \in T : TRUE
      BY <2>2
    <3>2. /\ T \ {x} \in SUBSET T /\ T \ {x} # T /\ T \ {x} \in SUBSET S
          /\ x \in S \ (T \ {x}) /\ T = (T \ {x}) \cup {x}
      BY <3>1
    <3>3. T \ {x} \in F
      BY <1>1, <3>2
    <3>4. QED BY <3>2, <3>3
  <2>3. QED BY <2>1, <2>2
<1>2. QED BY <1>1, SubsetInduct

(* The sequences of N steps of F from a first element.                     *)
Iterations(V, first, F, N) ==
  {g \in [0 .. N -> V] : g[0] = first /\ \A k \in 1 .. N : g[k] = F[g[k - 1]]}

LEMMA IterationExists ==
  ASSUME NEW V, NEW first \in V, NEW F \in [V -> V], NEW N \in Nat
  PROVE  \E g : g \in Iterations(V, first, F, N)
<1> DEFINE S == {n \in Nat : \E g : g \in Iterations(V, first, F, n)}
<1>1. 0 \in S
  <2>1. [k \in 0 .. 0 |-> first] \in Iterations(V, first, F, 0)
    BY DEF Iterations
  <2>2. QED BY <2>1
<1>2. ASSUME NEW n \in 1 .. N, n - 1 \in S PROVE n \in S
  <2>1. PICK g : g \in Iterations(V, first, F, n - 1)
    BY <1>2
  <2> DEFINE h == [k \in 0 .. n |-> IF k = n THEN F[g[n - 1]] ELSE g[k]]
  <2>2. g[n - 1] \in V
    BY <2>1 DEF Iterations
  <2>3. h \in [0 .. n -> V] /\ h[0] = first
    BY <2>1, <2>2 DEF Iterations
  <2>4. ASSUME NEW k \in 1 .. n PROVE h[k] = F[h[k - 1]]
    <3>1. CASE k = n
      BY <3>1
    <3>2. CASE k # n
      <4>1. k \in 1 .. n - 1 /\ k - 1 \in 0 .. n - 1 /\ k - 1 # n
        BY <3>2
      <4>2. h[k] = g[k] /\ h[k - 1] = g[k - 1]
        BY <4>1, <3>2
      <4>3. QED BY <2>1, <4>1, <4>2 DEF Iterations
    <3>3. QED BY <3>1, <3>2
  <2> HIDE DEF h
  <2>5. h \in Iterations(V, first, F, n)
    BY <2>3, <2>4 DEF Iterations
  <2>6. QED BY <2>5
<1> HIDE DEF S
<1>3. N \in S
  BY <1>1, <1>2, UpTo
<1>4. QED BY <1>3 DEF S

-----------------------------------------------------------------------------
(* Sums over a finite set, taken apart one element at a time.              *)
Removes(f, A, s) ==
  \A U \in SUBSET A :
    /\ U = {} => s[U] = 0
    /\ U # {} => \E x \in U : x = (CHOOSE y \in U : TRUE) /\ s[U] = f[x] + s[U \ {x}]

IsSum(f, A, s) ==
  s = [U \in SUBSET A |->
         IF U = {} THEN 0 ELSE LET x == CHOOSE x \in U : TRUE IN f[x] + s[U \ {x}]]

LEMMA SumIsFold ==
  ASSUME NEW f, NEW A
  PROVE  SumFunctionOnSet(f, A) = (CHOOSE s : IsSum(f, A, s))[A]
  BY DEF SumFunctionOnSet, FoldFunctionOnSet, MapThenFoldSet, IsSum

(* The recursion over the subsets has a solution.                          *)
LEMMA SumExists ==
  ASSUME NEW A, IsFiniteSet(A), NEW f, \A x \in A : f[x] \in Int
  PROVE  \E s \in [SUBSET A -> Int] : IsSum(f, A, s)
<1> DEFINE N == Cardinality(A)
           c(U) == CHOOSE x \in U : TRUE
           Upto(k) == {U \in SUBSET A : Cardinality(U) <= k}
           Sol(k, s) == /\ s \in [Upto(k) -> Int]
                        /\ \A U \in Upto(k) :
                             s[U] = IF U = {} THEN 0 ELSE f[c(U)] + s[U \ {c(U)}]
<1>1. N \in Nat /\ \A U \in SUBSET A : IsFiniteSet(U) /\ Cardinality(U) \in Nat /\ Cardinality(U) <= N
  BY FS_Subset, FS_CardinalityType
<1>2. \A U \in SUBSET A : U # {} => /\ c(U) \in U /\ c(U) \in A /\ U \ {c(U)} \in SUBSET A
                                     /\ Cardinality(U \ {c(U)}) = Cardinality(U) - 1
  <2>1. \A U \in SUBSET A : U # {} => c(U) \in U
    OBVIOUS
  <2> HIDE DEF c
  <2>2. QED BY <1>1, <2>1, FS_RemoveElement
<1> HIDE DEF N, c
<1> DEFINE S == {k \in 0 .. N : \E s : Sol(k, s)}
<1>3. 0 \in S
  <2>1. Upto(0) = {{}}
    BY <1>1, FS_EmptySet
  <2>2. Sol(0, [U \in Upto(0) |-> 0])
    BY <2>1
  <2> HIDE DEF Sol
  <2>3. QED BY <1>1, <2>2
<1>4. ASSUME NEW k \in 1 .. N, k - 1 \in S PROVE k \in S
  <2>1. PICK g : Sol(k - 1, g)
    BY <1>4
  <2> DEFINE s == [U \in Upto(k) |-> IF U = {} THEN 0 ELSE f[c(U)] + g[U \ {c(U)}]]
  <2>2. ASSUME NEW U \in Upto(k), U # {}
        PROVE  U \ {c(U)} \in Upto(k - 1) /\ U \ {c(U)} \in Upto(k) /\ c(U) \in A
    BY <1>1, <1>2, <2>2
  <2>3. \A U \in Upto(k - 1) : g[U] \in Int /\ U \in Upto(k) /\ s[U] = g[U]
    <3>1. \A U \in Upto(k - 1) : g[U] \in Int /\ U \in Upto(k)
      BY <1>1, <2>1
    <3>2. \A U \in Upto(k - 1) : s[U] = g[U]
      BY <2>1, <3>1
    <3>3. QED BY <3>1, <3>2
  <2>4. s \in [Upto(k) -> Int]
    <3>1. ASSUME NEW U \in Upto(k), U # {}
          PROVE  f[c(U)] + g[U \ {c(U)}] \in Int
      <4>1. c(U) \in A /\ U \ {c(U)} \in Upto(k - 1)
        BY <2>2, <3>1
      <4>2. f[c(U)] \in Int /\ g[U \ {c(U)}] \in Int
        <5> HIDE DEF Upto
        <5>1. QED BY <2>3, <4>1
      <4>3. QED BY <4>2
    <3>2. ASSUME NEW U \in Upto(k)
          PROVE  (IF U = {} THEN 0 ELSE f[c(U)] + g[U \ {c(U)}]) \in Int
      BY <3>1
    <3> HIDE DEF Upto
    <3>3. QED BY <3>2
  <2>5. \A U \in Upto(k) : s[U] = IF U = {} THEN 0 ELSE f[c(U)] + s[U \ {c(U)}]
    BY <2>2, <2>3
  <2> HIDE DEF s
  <2>6. Sol(k, s)
    BY <2>4, <2>5
  <2> HIDE DEF Sol
  <2>7. k \in 0 .. N
    BY <1>1
  <2>8. QED BY <2>6, <2>7
<1>5. N \in S
  <2> HIDE DEF S
  <2>1. QED BY <1>1, <1>3, <1>4, UpTo
<1>6. PICK s : Sol(N, s)
  BY <1>5
<1>7. Upto(N) = SUBSET A
  BY <1>1
<1>8. s \in [SUBSET A -> Int] /\ \A U \in SUBSET A : s[U] = IF U = {} THEN 0 ELSE f[c(U)] + s[U \ {c(U)}]
  BY <1>6, <1>7
<1>9. s = [U \in SUBSET A |-> IF U = {} THEN 0 ELSE f[c(U)] + s[U \ {c(U)}]]
  BY <1>8
<1>10. QED BY <1>8, <1>9 DEF IsSum, c

LEMMA SumChosen ==
  ASSUME NEW A, IsFiniteSet(A), NEW f, \A x \in A : f[x] \in Int
  PROVE  \E s \in [SUBSET A -> Int] : Removes(f, A, s) /\ SumFunctionOnSet(f, A) = s[A]
<1>1. PICK g : IsSum(f, A, g)
  BY SumExists
<1>2. PICK s : s = (CHOOSE t : IsSum(f, A, t)) /\ IsSum(f, A, s)
  BY <1>1, Zenon
<1> DEFINE c(U) == CHOOSE y \in U : TRUE
<1>3. s = [U \in SUBSET A |-> IF U = {} THEN 0 ELSE f[c(U)] + s[U \ {c(U)}]]
  BY <1>2 DEF IsSum
<1>4. \A U \in SUBSET A : U # {} => c(U) \in U
  OBVIOUS
<1> HIDE DEF c
<1>5. \A U \in SUBSET A : s[U] = IF U = {} THEN 0 ELSE f[c(U)] + s[U \ {c(U)}]
  BY <1>3
<1>6. Removes(f, A, s)
  BY <1>4, <1>5 DEF Removes, c
<1>7. \A U \in SUBSET A : s[U] \in Int
  <2> DEFINE F == {V \in SUBSET A : s[V] \in Int}
  <2>1. ASSUME NEW T \in SUBSET A, \A U \in SUBSET T : U # T => U \in F PROVE T \in F
    <3>1. CASE T = {}
      <4>1. s[T] = 0
        BY <3>1, <1>5
      <4>2. QED BY <4>1
    <3>2. CASE T # {}
      <4>1. c(T) \in T /\ s[T] = f[c(T)] + s[T \ {c(T)}]
        BY <3>2, <1>4, <1>5
      <4>2. s[T \ {c(T)}] \in Int /\ f[c(T)] \in Int
        BY <2>1, <4>1
      <4>3. QED BY <4>1, <4>2
    <3>3. QED BY <3>1, <3>2
  <2> HIDE DEF F
  <2>2. \A U \in SUBSET A : U \in F
    BY <2>1, SubsetInduct
  <2>3. QED BY <2>2 DEF F
<1>8. s \in [SUBSET A -> Int] /\ SumFunctionOnSet(f, A) = s[A]
  <2>1. s = [U \in SUBSET A |-> s[U]]
    BY <1>3
  <2>2. s \in [SUBSET A -> Int]
    BY <1>7, <2>1
  <2>3. QED BY <1>2, <2>2, SumIsFold
<1>9. QED BY <1>6, <1>8

(* Any element may be taken out of a sum first.                            *)
RemovesAny(f, A, s) == \A U \in SUBSET A : \A x \in U : s[U] = f[x] + s[U \ {x}]

LEMMA SumRemoves ==
  ASSUME NEW A, IsFiniteSet(A), NEW f, \A x \in A : f[x] \in Int,
         NEW s \in [SUBSET A -> Int], Removes(f, A, s)
  PROVE  RemovesAny(f, A, s)
<1> DEFINE F == {U \in SUBSET A : \A x \in U : s[U] = f[x] + s[U \ {x}]}
<1>1. ASSUME NEW T \in SUBSET A, \A U \in SUBSET T : U # T => U \in F PROVE T \in F
  <2>1. ASSUME NEW x \in T PROVE s[T] = f[x] + s[T \ {x}]
    <3>1. PICK y \in T : s[T] = f[y] + s[T \ {y}]
      BY DEF Removes
    <3>2. CASE x = y
      BY <3>1, <3>2
    <3>3. CASE x # y
      <4>1. /\ T \ {y} \in F /\ x \in T \ {y}
            /\ T \ {x} \in F /\ y \in T \ {x}
        BY <1>1, <3>3
      <4>2. PICK R \in SUBSET A : R = (T \ {y}) \ {x} /\ R = (T \ {x}) \ {y}
        OBVIOUS
      <4>3. s[T \ {y}] = f[x] + s[R] /\ s[T \ {x}] = f[y] + s[R]
        BY <4>1, <4>2
      <4>4. f[x] \in Int /\ f[y] \in Int /\ s[R] \in Int
        OBVIOUS
      <4>5. f[y] + (f[x] + s[R]) = f[x] + (f[y] + s[R])
        BY <4>4
      <4>6. QED BY <3>1, <4>3, <4>5
    <3>4. QED BY <3>2, <3>3
  <2>2. QED BY <2>1
<1> HIDE DEF F
<1>2. \A U \in SUBSET A : U \in F
  BY <1>1, SubsetInduct
<1>3. QED BY <1>2 DEF F, RemovesAny

(* The sum over a subset is found in the sums over the subsets.            *)
LEMMA SumOfSubset ==
  ASSUME NEW A, IsFiniteSet(A), NEW f, \A x \in A : f[x] \in Int,
         NEW s \in [SUBSET A -> Int], Removes(f, A, s), NEW B \in SUBSET A
  PROVE  SumFunctionOnSet(f, B) = s[B]
<1>1. IsFiniteSet(B)
  BY FS_Subset
<1>2. PICK t \in [SUBSET B -> Int] : Removes(f, B, t) /\ SumFunctionOnSet(f, B) = t[B]
  BY <1>1, SumChosen
<1> DEFINE F == {U \in SUBSET B : s[U] = t[U]}
<1>3. ASSUME NEW T \in SUBSET B, \A U \in SUBSET T : U # T => U \in F PROVE T \in F
  <2>1. CASE T = {}
    <3>1. s[T] = 0 /\ t[T] = 0
      BY <1>2, <2>1 DEF Removes
    <3>2. QED BY <3>1
  <2>2. CASE T # {}
    <3>1. PICK x \in T : s[T] = f[x] + s[T \ {x}] /\ t[T] = f[x] + t[T \ {x}]
      BY <1>2, <2>2 DEF Removes
    <3>2. T \ {x} \in F
      BY <1>3, <3>1
    <3>3. QED BY <3>1, <3>2
  <2>3. QED BY <2>1, <2>2
<1> HIDE DEF F
<1>4. \A U \in SUBSET B : U \in F
  BY <1>1, <1>3, SubsetInduct
<1>5. B \in F
  BY <1>4
<1>6. QED BY <1>2, <1>5 DEF F

LEMMA SumFacts ==
  ASSUME NEW A, IsFiniteSet(A), NEW f, \A x \in A : f[x] \in Int
  PROVE  /\ \A U \in SUBSET A : SumFunctionOnSet(f, U) \in Int
         /\ SumFunctionOnSet(f, {}) = 0
         /\ \A U \in SUBSET A : \A x \in U :
              SumFunctionOnSet(f, U) = f[x] + SumFunctionOnSet(f, U \ {x})
<1>1. PICK s \in [SUBSET A -> Int] : Removes(f, A, s)
  BY SumChosen
<1>2. \A U \in SUBSET A : SumFunctionOnSet(f, U) = s[U]
  BY <1>1, SumOfSubset
<1>3. \A U \in SUBSET A : s[U] \in Int
  OBVIOUS
<1>4. s[{}] = 0
  BY <1>1 DEF Removes
<1>5. \A U \in SUBSET A : \A x \in U : s[U] = f[x] + s[U \ {x}] /\ U \ {x} \in SUBSET A
  <2>1. RemovesAny(f, A, s)
    BY <1>1, SumRemoves
  <2>2. \A U \in SUBSET A : \A x \in U : U \ {x} \in SUBSET A
    OBVIOUS
  <2>3. QED BY <2>1, <2>2 DEF RemovesAny
<1>6. QED BY <1>2, <1>3, <1>4, <1>5

(* Sums of functions that agree are the same.                              *)
LEMMA SumAgrees ==
  ASSUME NEW A, IsFiniteSet(A), NEW f, \A x \in A : f[x] \in Int,
         NEW g, \A x \in A : g[x] = f[x]
  PROVE  SumFunctionOnSet(g, A) = SumFunctionOnSet(f, A)
<1> DEFINE F == {U \in SUBSET A : SumFunctionOnSet(g, U) = SumFunctionOnSet(f, U)}
<1>0. \A x \in A : g[x] \in Int
  OBVIOUS
<1>1. /\ SumFunctionOnSet(f, {}) = 0 /\ SumFunctionOnSet(g, {}) = 0
      /\ \A U \in SUBSET A : \A x \in U :
           /\ SumFunctionOnSet(f, U) = f[x] + SumFunctionOnSet(f, U \ {x})
           /\ SumFunctionOnSet(g, U) = f[x] + SumFunctionOnSet(g, U \ {x})
  <2>1. /\ SumFunctionOnSet(g, {}) = 0
        /\ \A U \in SUBSET A : \A x \in U :
             SumFunctionOnSet(g, U) = g[x] + SumFunctionOnSet(g, U \ {x})
    BY <1>0, SumFacts
  <2>2. /\ SumFunctionOnSet(f, {}) = 0
        /\ \A U \in SUBSET A : \A x \in U :
             SumFunctionOnSet(f, U) = f[x] + SumFunctionOnSet(f, U \ {x})
    BY SumFacts
  <2>3. QED BY <2>1, <2>2
<1>2. ASSUME NEW T \in SUBSET A, \A U \in SUBSET T : U # T => U \in F PROVE T \in F
  <2>1. CASE T = {}
    BY <2>1, <1>1
  <2>2. CASE T # {}
    <3>1. PICK x \in T : TRUE
      BY <2>2
    <3>2. T \ {x} \in F
      BY <1>2, <3>1
    <3>3. QED BY <1>1, <3>1, <3>2
  <2>3. QED BY <2>1, <2>2
<1> HIDE DEF F
<1>3. \A U \in SUBSET A : U \in F
  BY <1>2, SubsetInduct
<1>4. A \in F
  BY <1>3
<1>5. QED BY <1>4 DEF F

(* A change at one place changes the sum by as much.                       *)
LEMMA SumChanges ==
  ASSUME NEW A, IsFiniteSet(A), NEW f, \A x \in A : f[x] \in Int,
         NEW a \in A, NEW d \in Int, NEW g, g[a] = f[a] + d, \A x \in A \ {a} : g[x] = f[x]
  PROVE  SumFunctionOnSet(g, A) = SumFunctionOnSet(f, A) + d
<1>1. \A x \in A : g[x] \in Int
  OBVIOUS
<1>2. IsFiniteSet(A \ {a})
  BY FS_RemoveElement
<1>3. SumFunctionOnSet(g, A \ {a}) = SumFunctionOnSet(f, A \ {a})
  BY <1>2, SumAgrees
<1>4. SumFunctionOnSet(f, A) = f[a] + SumFunctionOnSet(f, A \ {a}) /\ SumFunctionOnSet(f, A \ {a}) \in Int
  BY SumFacts
<1>5. SumFunctionOnSet(g, A) = g[a] + SumFunctionOnSet(g, A \ {a})
  BY <1>1, SumFacts
<1>6. QED BY <1>3, <1>4, <1>5

LEMMA SumConstant ==
  ASSUME NEW A, IsFiniteSet(A), NEW c \in Int, NEW f, \A x \in A : f[x] = c
  PROVE  SumFunctionOnSet(f, A) = Cardinality(A) * c
<1> DEFINE F == {U \in SUBSET A : SumFunctionOnSet(f, U) = Cardinality(U) * c}
<1>0. \A x \in A : f[x] \in Int
  OBVIOUS
<1>1. /\ SumFunctionOnSet(f, {}) = 0
      /\ \A U \in SUBSET A : \A x \in U :
           SumFunctionOnSet(f, U) = c + SumFunctionOnSet(f, U \ {x})
  BY <1>0, SumFacts
<1>2. {} \in F
  <2>1. Cardinality({}) * c = 0
    BY FS_EmptySet
  <2>2. QED BY <1>1, <2>1
<1>3. ASSUME NEW T \in SUBSET A, NEW x \in A \ T, T \in F PROVE T \cup {x} \in F
  <2>1. IsFiniteSet(T) /\ Cardinality(T) \in Nat /\ Cardinality(T \cup {x}) = Cardinality(T) + 1
    BY FS_Subset, FS_CardinalityType, FS_AddElement
  <2>2. (T \cup {x}) \ {x} = T
    OBVIOUS
  <2>3. SumFunctionOnSet(f, T \cup {x}) = c + Cardinality(T) * c
    BY <1>1, <1>3, <2>2
  <2>4. (Cardinality(T) + 1) * c = c + Cardinality(T) * c
    BY <2>1
  <2>5. QED BY <2>1, <2>3, <2>4
<1> HIDE DEF F
<1>4. \A U \in SUBSET A : U \in F
  BY <1>2, <1>3, FiniteInduct
<1>5. A \in F
  BY <1>4
<1>6. QED BY <1>5 DEF F

=============================================================================
