---------------------------- MODULE Analytics_proofs ---------------------------
(***************************************************************************)
(* What is read out of endpoint_metrics and out of the raw documents, for  *)
(* any number of hits, endpoints, hours, page sizes and retentions.        *)
(*                                                                         *)
(* No induction is at hand, so what would be one is put as the absence of  *)
(* a least counterexample (LeastSubset).                                   *)
(***************************************************************************)
EXTENDS Analytics, FiniteSetTheorems, WellFoundedInduction, TLAPS

(***************************************************************************)
(* Finite sets: instead of an induction, the least counterexample.          *)
(***************************************************************************)

\* Among subsets of a finite set, one has no other below it.
LEMMA LeastSubset ==
  ASSUME NEW S, IsFiniteSet(S), NEW Bad \in SUBSET SUBSET S, Bad # {}
  PROVE  \E B \in Bad : IsFiniteSet(B) /\ \A A \in SUBSET B : A # B => A \notin Bad
<1>1. \A B \in Bad : IsFiniteSet(B)
  BY FS_Subset
<1>2. Bad \subseteq FiniteSubsetsOf(S)
  BY <1>1 DEF FiniteSubsetsOf
<1>3. PICK B \in Bad : \A A \in Bad : <<A, B>> \notin StrictSubsetOrdering(S)
  BY <1>2, FS_StrictSubsetOrderingWellFounded, WFMin
<1>4. ASSUME NEW A \in SUBSET B, A # B, A \in Bad
      PROVE  FALSE
  BY <1>3, <1>4 DEF StrictSubsetOrdering
<1> QED
  BY <1>1, <1>3, <1>4

\* What is taken out of a finite set leaves a finite set, and a smaller one.
LEMMA Without ==
  ASSUME NEW S, IsFiniteSet(S), NEW x \in S
  PROVE  IsFiniteSet(S \ {x}) /\ S \ {x} \in SUBSET S /\ S \ {x} # S
BY FS_Subset

(***************************************************************************)
(* Sums, which the community module defines as a fold that takes the       *)
(* elements of the set in an order of its choice.                           *)
(***************************************************************************)

Any(s) == CHOOSE x \in s : TRUE

\* g adds up f over every subset of X, element by element.
AddsUp(f, X, g) ==
    g = [s \in SUBSET X |-> IF s = {} THEN 0 ELSE f[Any(s)] + g[s \ {Any(s)}]]

\* Two such functions agree where both are defined.
LEMMA AddsUpOneWay ==
  ASSUME NEW f, NEW X, IsFiniteSet(X), NEW Y, NEW g, NEW h, AddsUp(f, X, g), AddsUp(f, Y, h)
  PROVE  \A s \in SUBSET X : s \in SUBSET Y => g[s] = h[s]
<1> DEFINE Bad == {s \in SUBSET X : s \in SUBSET Y /\ g[s] # h[s]}
<1> SUFFICES ASSUME Bad # {} PROVE FALSE
  OBVIOUS
<1>1. PICK B \in Bad : \A A \in SUBSET B : A # B => A \notin Bad
  <2>1. Bad \in SUBSET SUBSET X
    OBVIOUS
  <2> HIDE DEF Bad
  <2> QED
    BY <2>1, LeastSubset
<1>2. B \in SUBSET X /\ B \in SUBSET Y /\ g[B] # h[B]
  BY <1>1
<1>3. /\ g[B] = IF B = {} THEN 0 ELSE f[Any(B)] + g[B \ {Any(B)}]
      /\ h[B] = IF B = {} THEN 0 ELSE f[Any(B)] + h[B \ {Any(B)}]
  BY <1>2 DEF AddsUp
<1>4. B # {}
  BY <1>2, <1>3
<1>5. Any(B) \in B
  BY <1>4 DEF Any
<1>6. g[B \ {Any(B)}] = h[B \ {Any(B)}]
  <2> DEFINE A == B \ {Any(B)}
  <2>1. A \in SUBSET B /\ A # B
    BY <1>5
  <2>2. A \notin Bad
    BY <1>1, <2>1
  <2> QED
    BY <1>2, <2>1, <2>2
<1> QED
  BY <1>2, <1>3, <1>6

\* Over a finite set there is such a function.
LEMMA SomethingAddsUp ==
  ASSUME NEW f, NEW S, IsFiniteSet(S)
  PROVE  \E g : AddsUp(f, S, g)
<1> DEFINE Bad == {X \in SUBSET S : ~ \E g : AddsUp(f, X, g)}
<1> SUFFICES ASSUME Bad # {} PROVE FALSE
  OBVIOUS
<1>1. PICK X \in Bad : IsFiniteSet(X) /\ \A A \in SUBSET X : A # X => A \notin Bad
  <2>1. Bad \in SUBSET SUBSET S
    OBVIOUS
  <2> HIDE DEF Bad
  <2> QED
    BY <2>1, LeastSubset
<1> DEFINE T(y) == CHOOSE g : AddsUp(f, X \ {y}, g)
           g == [s \in SUBSET X |-> IF s = {} THEN 0 ELSE f[Any(s)] + T(Any(s))[s \ {Any(s)}]]
<1>2. ASSUME NEW y \in X
      PROVE  AddsUp(f, X \ {y}, T(y))
  <2>1. X \ {y} \in SUBSET X /\ X \ {y} # X
    OBVIOUS
  <2>2. X \ {y} \notin Bad /\ X \ {y} \in SUBSET S
    BY <1>1, <2>1
  <2>3. \E h : AddsUp(f, X \ {y}, h)
    BY <2>2
  <2> QED
    BY <2>3
<1> HIDE DEF T
<1>3. ASSUME NEW s \in SUBSET X, s # {}
      PROVE  g[s \ {Any(s)}] = T(Any(s))[s \ {Any(s)}]
  <2> DEFINE p == Any(s)
             z == s \ {p}
             q == Any(z)
  <2>1. p \in s /\ p \in X /\ z \in SUBSET X /\ z \in SUBSET (X \ {p})
    BY <1>3 DEF Any
  <2>2. T(p)[z] = IF z = {} THEN 0 ELSE f[q] + T(p)[z \ {q}]
    BY <1>2, <2>1 DEF AddsUp
  <2>3. g[z] = IF z = {} THEN 0 ELSE f[q] + T(q)[z \ {q}]
    BY <2>1
  <2>4. CASE z = {}
    BY <2>2, <2>3, <2>4
  <2>5. CASE z # {}
    <3>1. q \in z /\ q \in X
      BY <2>1, <2>5 DEF Any
    <3>2. IsFiniteSet(X \ {p})
      BY <1>1, <2>1, Without
    <3>3. AddsUp(f, X \ {p}, T(p)) /\ AddsUp(f, X \ {q}, T(q))
      BY <1>2, <2>1, <3>1
    <3>4. z \ {q} \in SUBSET (X \ {p}) /\ z \ {q} \in SUBSET (X \ {q})
      BY <2>1
    <3>5. T(p)[z \ {q}] = T(q)[z \ {q}]
      <4> HIDE DEF z, q, p
      <4> QED
        BY <3>2, <3>3, <3>4, AddsUpOneWay
    <3>6. g[z] = T(p)[z]
      <4> HIDE DEF g, z, q, p
      <4> QED
        BY <2>2, <2>3, <2>5, <3>5
    <3> HIDE DEF g
    <3> QED
      BY <3>6
  <2> HIDE DEF g
  <2> QED
    BY <2>4, <2>5
<1>4. g = [s \in SUBSET X |-> IF s = {} THEN 0 ELSE f[Any(s)] + g[s \ {Any(s)}]]
  BY <1>3
<1>5. AddsUp(f, X, g)
  <2> HIDE DEF g
  <2> QED
    BY <1>4 DEF AddsUp
<1> HIDE DEF g
<1> QED
  BY <1>1, <1>5

LEMMA SumAddsUp ==
  ASSUME NEW f, NEW S, IsFiniteSet(S)
  PROVE  \E g : AddsUp(f, S, g) /\ SumFunctionOnSet(f, S) = g[S]
<1>1. \E g : AddsUp(f, S, g)
  BY SomethingAddsUp
<1> DEFINE g == CHOOSE it : AddsUp(f, S, it)
<1>2. AddsUp(f, S, g)
  BY <1>1
<1>3. SumFunctionOnSet(f, S) = g[S]
  BY DEF SumFunctionOnSet, FoldFunctionOnSet, MapThenFoldSet, AddsUp, Any
<1> HIDE DEF g
<1> QED
  BY <1>2, <1>3

LEMMA SumEmpty ==
  ASSUME NEW f
  PROVE  SumFunctionOnSet(f, {}) = 0
<1>1. IsFiniteSet({})
  BY FS_EmptySet
<1>2. PICK g : AddsUp(f, {}, g) /\ SumFunctionOnSet(f, {}) = g[{}]
  BY <1>1, SumAddsUp
<1> QED
  BY <1>2 DEF AddsUp

\* The fold takes the elements in its own order.
LEMMA SumAny ==
  ASSUME NEW f, NEW S, IsFiniteSet(S), S # {}
  PROVE  /\ Any(S) \in S
         /\ SumFunctionOnSet(f, S) = f[Any(S)] + SumFunctionOnSet(f, S \ {Any(S)})
<1> DEFINE p == Any(S)
           R == S \ {p}
<1>1. p \in S
  BY DEF Any
<1>2. IsFiniteSet(R) /\ R \in SUBSET S
  BY <1>1, Without
<1>3. PICK g : AddsUp(f, S, g) /\ SumFunctionOnSet(f, S) = g[S]
  BY SumAddsUp
<1>4. PICK h : AddsUp(f, R, h) /\ SumFunctionOnSet(f, R) = h[R]
  BY <1>2, SumAddsUp
<1>5. g[S] = f[p] + g[R]
  BY <1>3 DEF AddsUp
<1>6. h[R] = g[R]
  <2> HIDE DEF R
  <2> QED
    BY <1>2, <1>3, <1>4, AddsUpOneWay
<1> QED
  BY <1>1, <1>3, <1>4, <1>5, <1>6

\* A sum of naturals is one.
LEMMA SumNat ==
  ASSUME NEW f, NEW S, IsFiniteSet(S), \A x \in S : f[x] \in Nat
  PROVE  SumFunctionOnSet(f, S) \in Nat
<1> DEFINE Bad == {X \in SUBSET S : SumFunctionOnSet(f, X) \notin Nat}
<1> SUFFICES ASSUME Bad # {} PROVE FALSE
  OBVIOUS
<1>1. PICK X \in Bad : IsFiniteSet(X) /\ \A A \in SUBSET X : A # X => A \notin Bad
  <2>1. Bad \in SUBSET SUBSET S
    OBVIOUS
  <2> HIDE DEF Bad
  <2> QED
    BY <2>1, LeastSubset
<1>2. X # {}
  <2>1. SumFunctionOnSet(f, X) \notin Nat
    BY <1>1
  <2>2. SumFunctionOnSet(f, {}) \in Nat
    BY SumEmpty
  <2> QED
    BY <2>1, <2>2
<1> DEFINE p == Any(X)
           R == X \ {p}
<1>3. p \in X /\ SumFunctionOnSet(f, X) = f[p] + SumFunctionOnSet(f, R)
  BY <1>1, <1>2, SumAny
<1>4. R \in SUBSET X /\ R # X
  BY <1>3
<1>5. SumFunctionOnSet(f, R) \in Nat
  BY <1>1, <1>4
<1>6. f[p] \in Nat
  BY <1>1, <1>3
<1> HIDE DEF p, R
<1> QED
  BY <1>1, <1>3, <1>5, <1>6

\* Any element may be taken first.
LEMMA SumWithout ==
  ASSUME NEW f, NEW S, IsFiniteSet(S), \A x \in S : f[x] \in Nat, NEW x \in S
  PROVE  SumFunctionOnSet(f, S) = f[x] + SumFunctionOnSet(f, S \ {x})
<1> DEFINE Bad == {X \in SUBSET S : \E y \in X :
                     SumFunctionOnSet(f, X) # f[y] + SumFunctionOnSet(f, X \ {y})}
<1> SUFFICES ASSUME Bad # {} PROVE FALSE
  OBVIOUS
<1>1. PICK X \in Bad : IsFiniteSet(X) /\ \A A \in SUBSET X : A # X => A \notin Bad
  <2>1. Bad \in SUBSET SUBSET S
    OBVIOUS
  <2> HIDE DEF Bad
  <2> QED
    BY <2>1, LeastSubset
<1>2. PICK y \in X : SumFunctionOnSet(f, X) # f[y] + SumFunctionOnSet(f, X \ {y})
  BY <1>1
<1> DEFINE p == Any(X)
<1>3. p \in X /\ SumFunctionOnSet(f, X) = f[p] + SumFunctionOnSet(f, X \ {p})
  BY <1>1, SumAny
<1> HIDE DEF p
<1>4. p # y
  BY <1>2, <1>3
<1>5. X \in SUBSET S
  BY <1>1
<1>6. /\ X \ {p} \in SUBSET X /\ X \ {p} # X /\ X \ {p} \in SUBSET S /\ y \in X \ {p}
      /\ X \ {y} \in SUBSET X /\ X \ {y} # X /\ X \ {y} \in SUBSET S /\ p \in X \ {y}
  BY <1>3, <1>4, <1>5
<1>7. SumFunctionOnSet(f, X \ {p}) = f[y] + SumFunctionOnSet(f, (X \ {p}) \ {y})
  BY <1>1, <1>6
<1>8. SumFunctionOnSet(f, X \ {y}) = f[p] + SumFunctionOnSet(f, (X \ {y}) \ {p})
  BY <1>1, <1>6
<1> DEFINE r == SumFunctionOnSet(f, (X \ {p}) \ {y})
<1>9. (X \ {p}) \ {y} = (X \ {y}) \ {p}
  OBVIOUS
<1>10. f[p] \in Nat /\ f[y] \in Nat
  BY <1>3, <1>5
<1>11. r \in Nat
  <2>1. IsFiniteSet((X \ {p}) \ {y})
    BY <1>1, FS_Subset
  <2>2. \A z \in (X \ {p}) \ {y} : f[z] \in Nat
    BY <1>5
  <2> QED
    BY <2>1, <2>2, SumNat
<1>12. /\ SumFunctionOnSet(f, X) = f[p] + (f[y] + r)
       /\ SumFunctionOnSet(f, X \ {y}) = f[p] + r
  BY <1>3, <1>7, <1>8, <1>9
<1> HIDE DEF r
<1> QED
  BY <1>2, <1>10, <1>11, <1>12

\* A sum depends on the summands alone.
LEMMA SumAgrees ==
  ASSUME NEW f, NEW h, NEW S, IsFiniteSet(S), \A x \in S : f[x] = h[x]
  PROVE  SumFunctionOnSet(f, S) = SumFunctionOnSet(h, S)
<1> DEFINE Bad == {X \in SUBSET S : SumFunctionOnSet(f, X) # SumFunctionOnSet(h, X)}
<1> SUFFICES ASSUME Bad # {} PROVE FALSE
  OBVIOUS
<1>1. PICK X \in Bad : IsFiniteSet(X) /\ \A A \in SUBSET X : A # X => A \notin Bad
  <2>1. Bad \in SUBSET SUBSET S
    OBVIOUS
  <2> HIDE DEF Bad
  <2> QED
    BY <2>1, LeastSubset
<1>2. X # {}
  BY <1>1, SumEmpty
<1> DEFINE p == Any(X)
           R == X \ {p}
<1>3. /\ p \in X
      /\ SumFunctionOnSet(f, X) = f[p] + SumFunctionOnSet(f, R)
      /\ SumFunctionOnSet(h, X) = h[p] + SumFunctionOnSet(h, R)
  BY <1>1, <1>2, SumAny
<1>4. R \in SUBSET X /\ R # X
  BY <1>3
<1>5. SumFunctionOnSet(f, R) = SumFunctionOnSet(h, R)
  BY <1>1, <1>4
<1>6. f[p] = h[p]
  BY <1>1, <1>3
<1> HIDE DEF p, R
<1> QED
  BY <1>1, <1>3, <1>5, <1>6

\* Sums of ones count.
LEMMA SumCounts ==
  ASSUME NEW f, NEW S, IsFiniteSet(S), NEW T \in SUBSET S,
         \A x \in S : f[x] = IF x \in T THEN 1 ELSE 0
  PROVE  SumFunctionOnSet(f, S) = Cardinality(T)
<1> DEFINE Bad == {X \in SUBSET S : SumFunctionOnSet(f, X) # Cardinality(X \intersect T)}
<1> SUFFICES ASSUME Bad # {} PROVE FALSE
  <2>1. S \intersect T = T /\ S \in SUBSET S
    OBVIOUS
  <2> QED
    BY <2>1
<1>1. PICK X \in Bad : IsFiniteSet(X) /\ \A A \in SUBSET X : A # X => A \notin Bad
  <2>1. Bad \in SUBSET SUBSET S
    OBVIOUS
  <2> HIDE DEF Bad
  <2> QED
    BY <2>1, LeastSubset
<1>2. X # {}
  <2>1. {} \intersect T = {}
    OBVIOUS
  <2>2. Cardinality({}) = 0
    BY FS_EmptySet
  <2>3. SumFunctionOnSet(f, X) # Cardinality(X \intersect T)
    BY <1>1
  <2> QED
    BY <2>1, <2>2, <2>3, SumEmpty
<1> DEFINE p == Any(X)
           R == X \ {p}
           U == R \intersect T
           V == X \intersect T
<1>3. p \in X /\ SumFunctionOnSet(f, X) = f[p] + SumFunctionOnSet(f, R)
  BY <1>1, <1>2, SumAny
<1>4. R \in SUBSET X /\ R # X
  BY <1>3
<1>5. SumFunctionOnSet(f, R) = Cardinality(U)
  BY <1>1, <1>4
<1>6. IsFiniteSet(V) /\ IsFiniteSet(U)
  BY <1>1, FS_Subset
<1>7. f[p] = IF p \in T THEN 1 ELSE 0
  BY <1>1, <1>3
<1>8. Cardinality(V) = f[p] + Cardinality(U)
  <2>1. Cardinality(U) \in Nat /\ Cardinality(V) \in Nat
    BY <1>6, FS_CardinalityType
  <2>2. CASE p \in T
    <3>1. U = V \ {p} /\ p \in V
      BY <1>3, <2>2
    <3>2. Cardinality(U) = Cardinality(V) - 1
      <4> HIDE DEF U, V
      <4> QED
        BY <1>6, <3>1, FS_RemoveElement
    <3> HIDE DEF U, V
    <3> QED
      BY <1>7, <2>1, <2>2, <3>2
  <2>3. CASE p \notin T
    <3>1. U = V
      BY <2>3
    <3> HIDE DEF U, V
    <3> QED
      BY <1>7, <2>1, <2>3, <3>1
  <2> QED
    BY <2>2, <2>3
<1>9. SumFunctionOnSet(f, X) # Cardinality(V)
  BY <1>1
<1> HIDE DEF p, R, U, V
<1> QED
  BY <1>3, <1>5, <1>8, <1>9

\* Summing class by class is summing all.
LEMMA SumByClass ==
  ASSUME NEW f, NEW S, IsFiniteSet(S), \A x \in S : f[x] \in Nat,
         NEW K, IsFiniteSet(K), NEW class, \A x \in S : class[x] \in K
  PROVE  SumFunctionOnSet([k \in K |-> SumFunctionOnSet(f, {x \in S : class[x] = k})], K)
           = SumFunctionOnSet(f, S)
<1> DEFINE Of(X, k) == {x \in X : class[x] = k}
           G(X) == [k \in K |-> SumFunctionOnSet(f, Of(X, k))]
           Bad == {X \in SUBSET S : SumFunctionOnSet(G(X), K) # SumFunctionOnSet(f, X)}
<1> SUFFICES ASSUME Bad # {} PROVE FALSE
  OBVIOUS
<1>1. PICK X \in Bad : IsFiniteSet(X) /\ \A A \in SUBSET X : A # X => A \notin Bad
  <2>1. Bad \in SUBSET SUBSET S
    OBVIOUS
  <2> HIDE DEF Bad
  <2> QED
    BY <2>1, LeastSubset
<1>2. X \in SUBSET S /\ SumFunctionOnSet(G(X), K) # SumFunctionOnSet(f, X)
  BY <1>1
<1>3. ASSUME NEW Y \in SUBSET S
      PROVE  \A k \in K : G(Y)[k] = SumFunctionOnSet(f, Of(Y, k)) /\ G(Y)[k] \in Nat
  <2> SUFFICES ASSUME NEW k \in K PROVE G(Y)[k] \in Nat
    OBVIOUS
  <2>1. IsFiniteSet(Of(Y, k)) /\ \A x \in Of(Y, k) : f[x] \in Nat
    BY FS_Subset
  <2>2. SumFunctionOnSet(f, Of(Y, k)) \in Nat
    <3> HIDE DEF Of
    <3> QED
      BY <2>1, SumNat
  <2> QED
    BY <2>2
<1>4. X # {}
  <2> SUFFICES ASSUME X = {} PROVE FALSE
    OBVIOUS
  <2>1. \A k \in K : Of(X, k) = {}
    OBVIOUS
  <2>2. \A k \in K : G(X)[k] = IF k \in {} THEN 1 ELSE 0
    BY <1>3, <2>1, SumEmpty
  <2>3. SumFunctionOnSet(G(X), K) = Cardinality({})
    <3> HIDE DEF G
    <3> QED
      BY <2>2, SumCounts
  <2> QED
    BY <1>2, <2>3, FS_EmptySet, SumEmpty
<1>5. PICK p \in X : TRUE
  BY <1>4
<1> DEFINE R == X \ {p}
           c == class[p]
<1>6. R \in SUBSET X /\ R # X /\ R \in SUBSET S /\ c \in K
  BY <1>2
<1>7. SumFunctionOnSet(G(R), K) = SumFunctionOnSet(f, R)
  BY <1>1, <1>6
<1>8. SumFunctionOnSet(f, X) = f[p] + SumFunctionOnSet(f, R)
  BY <1>1, <1>2, SumWithout
<1>9. /\ SumFunctionOnSet(G(X), K) = G(X)[c] + SumFunctionOnSet(G(X), K \ {c})
      /\ SumFunctionOnSet(G(R), K) = G(R)[c] + SumFunctionOnSet(G(R), K \ {c})
  <2>1. (\A k \in K : G(X)[k] \in Nat) /\ (\A k \in K : G(R)[k] \in Nat)
    BY <1>2, <1>3, <1>6
  <2> HIDE DEF G, R, c
  <2> QED
    BY <1>6, <2>1, SumWithout
<1>10. SumFunctionOnSet(G(X), K \ {c}) = SumFunctionOnSet(G(R), K \ {c})
  <2>1. \A k \in K \ {c} : Of(X, k) = Of(R, k)
    OBVIOUS
  <2>2. \A k \in K \ {c} : G(X)[k] = G(R)[k]
    BY <2>1
  <2>3. IsFiniteSet(K \ {c})
    BY FS_Subset
  <2> HIDE DEF G, R, c
  <2> QED
    BY <2>2, <2>3, SumAgrees
<1>11. G(X)[c] = f[p] + G(R)[c]
  <2> DEFINE A == Of(X, c)
             B == Of(R, c)
  <2>1. p \in A /\ A \ {p} = B
    OBVIOUS
  <2>2. IsFiniteSet(A) /\ \A x \in A : f[x] \in Nat
    BY <1>1, <1>2, FS_Subset
  <2>3. SumFunctionOnSet(f, A) = f[p] + SumFunctionOnSet(f, B)
    <3> HIDE DEF A, B
    <3> QED
      BY <2>1, <2>2, SumWithout
  <2> QED
    BY <1>2, <1>3, <1>6, <2>3
<1>12. /\ f[p] \in Nat /\ G(R)[c] \in Nat
       /\ SumFunctionOnSet(G(R), K \ {c}) \in Nat
  <2>1. \A k \in K : G(R)[k] \in Nat
    BY <1>3, <1>6
  <2>2. IsFiniteSet(K \ {c})
    BY FS_Subset
  <2>3. f[p] \in Nat
    BY <1>2
  <2> HIDE DEF G, R, c
  <2> QED
    BY <1>6, <2>1, <2>2, <2>3, SumNat
<1> HIDE DEF G, R, c
<1> QED
  BY <1>2, <1>7, <1>8, <1>9, <1>10, <1>11, <1>12

(***************************************************************************)
(* Hours and days.                                                          *)
(***************************************************************************)

\* Quotient and remainder.
LEMMA DivMod ==
  ASSUME NEW t \in Nat, NEW h \in Nat \ {0}
  PROVE  /\ t \div h \in Nat /\ t % h \in 0..(h-1)
         /\ t = h * (t \div h) + (t % h)
OBVIOUS

\* One multiple below another is a whole step below it.
LEMMA MultipleBelow ==
  ASSUME NEW a \in Int, NEW b \in Int, NEW h \in Nat \ {0}, a < b
  PROVE  h * a + h <= h * b
<1>1. PICK c \in Nat : b = a + 1 + c
  <2>1. b - a - 1 \in Nat /\ b = a + 1 + (b - a - 1)
    OBVIOUS
  <2> QED
    BY <2>1
<1>2. h * b = h * a + h + h * c
  BY <1>1
<1>3. h * c \in Nat
  OBVIOUS
<1> QED
  BY <1>2, <1>3

\* There is one remainder.
LEMMA RemainderIs ==
  ASSUME NEW h \in Nat \ {0}, NEW t \in Nat, NEW q \in Int, NEW r \in 0..(h-1), t = h * q + r
  PROVE  t % h = r
<1> DEFINE p == t \div h
           s == t % h
<1>1. p \in Nat /\ s \in 0..(h-1) /\ t = h * p + s
  BY DivMod
<1> HIDE DEF p, s
<1>2. h * p \in Int /\ h * q \in Int
  BY <1>1
<1>3. CASE p < q
  <2>1. h * p + h <= h * q
    BY <1>1, <1>3, MultipleBelow
  <2>2. h * p + s < h * q
    BY <1>1, <1>2, <2>1
  <2>3. h * q + r >= h * q
    BY <1>2
  <2> QED
    BY <1>1, <1>2, <2>2, <2>3
<1>4. CASE q < p
  <2>1. h * q + h <= h * p
    BY <1>1, <1>4, MultipleBelow
  <2> QED
    BY <1>1, <1>2, <2>1
<1>5. CASE q = p
  <2>1. s = r
    BY <1>1, <1>2, <1>5
  <2> QED
    BY <2>1 DEF s
<1> QED
  BY <1>1, <1>3, <1>4, <1>5

\* Truncating twice, the second time to a multiple of the first width, is truncating
\* to the second.
LEMMA TruncatedTwice ==
  ASSUME NEW h \in Nat \ {0}, NEW t \in Nat, NEW w \in Nat \ {0}, \E n \in Nat \ {0} : w = n * h
  PROVE  Truncated(Truncated(t, h), w) = Truncated(t, w)
<1> PICK n \in Nat \ {0} : w = n * h
  OBVIOUS
<1> DEFINE p == t \div w
           s == t % w
<1>1. p \in Nat /\ s \in 0..(w-1) /\ t = w * p + s
  BY DivMod
<1> HIDE DEF p, s
<1> DEFINE q == s \div h
           r == s % h
<1>2. q \in Nat /\ r \in 0..(h-1) /\ s = h * q + r
  <2>1. s \in Nat
    BY <1>1
  <2> QED
    BY <2>1, DivMod DEF q, r
<1> HIDE DEF q, r
<1>3. t % h = r
  <2>1. t = h * (n * p + q) + r
    <3>1. w * p = h * (n * p)
      BY <1>1
    <3>2. n * p \in Int
      BY <1>1
    <3>3. h * (n * p + q) = h * (n * p) + h * q
      BY <1>2, <3>2
    <3>4. h * (n * p) \in Int /\ h * q \in Int
      BY <1>2, <3>2
    <3> QED
      BY <1>1, <1>2, <3>1, <3>3, <3>4
  <2>2. n * p + q \in Int
    BY <1>1, <1>2
  <2> DEFINE m == n * p + q
  <2> HIDE DEF m
  <2> QED
    BY <1>2, <2>1, <2>2, RemainderIs DEF m
<1>4. (t - r) % w = h * q
  <2>1. t - r = w * p + h * q
    <3>1. w * p \in Int /\ h * q \in Int
      BY <1>1, <1>2
    <3> QED
      BY <1>1, <1>2, <3>1
  <2>2. h * q \in 0..(w-1)
    <3>1. h * q \in Nat
      BY <1>2
    <3> QED
      BY <1>1, <1>2, <3>1
  <2>3. t - r \in Nat
    <3>1. w * p \in Nat
      BY <1>1
    <3> QED
      BY <2>1, <2>2, <3>1
  <2> DEFINE m == h * q
             u == t - r
  <2>4. p \in Int /\ u = w * p + m /\ u \in Nat /\ m \in 0..(w-1)
    BY <1>1, <2>1, <2>2, <2>3
  <2>5. u % w = m
    <3> HIDE DEF m, u
    <3> QED
      BY <2>4, RemainderIs
  <2> QED
    BY <2>5
<1>5. s - h * q = r
  <2>1. h * q \in Int
     BY <1>2
  <2> QED
    BY <1>2, <2>1
<1>6. t % w = s
  BY DEF s
<1>7. h * q \in Int
  BY <1>2
<1> DEFINE m == h * q
<1> HIDE DEF m
<1>8. (t - r) - m = t - s
  BY <1>1, <1>2, <1>5, <1>7 DEF m
<1> QED
  BY <1>3, <1>4, <1>6, <1>8 DEF m, Truncated

(***************************************************************************)
(* The rows have the shape of a row.                                        *)
(***************************************************************************)

Row == [total_hits : Nat, error_hits : Nat, total_latency : Nat,
        min_latency : Latencies, max_latency : Latencies]

Sane(row) ==
    /\ row \in Row
    /\ row.error_hits <= row.total_hits
    /\ row.min_latency * row.total_hits <= row.total_latency
    /\ row.total_latency <= row.max_latency * row.total_hits

RowsSane ==
    \A k \in DOMAIN rows : k \in Endpoints \X Time /\ k[2] % Hour = 0 /\ Sane(rows[k])

TInv == TypeOK /\ IsFiniteSet(Stored) /\ RowsSane

LEMMA LatenciesAreNat == Latencies \in SUBSET Nat
BY AnalyticsAssumption DEF Latencies

\* Min and Max of a set of naturals that has a least and a greatest element.
LEMMA MinIs ==
  ASSUME NEW S \in SUBSET Nat, NEW m \in S, \A x \in S : m <= x
  PROVE  Min(S) = m
<1>1. Min(S) \in S /\ \A x \in S : Min(S) <= x
  BY DEF Min
<1>2. m \in Nat /\ Min(S) \in Nat
  BY <1>1
<1>3. m <= Min(S) /\ Min(S) <= m
  BY <1>1
<1> QED
  BY <1>2, <1>3

LEMMA MaxIs ==
  ASSUME NEW S \in SUBSET Nat, NEW m \in S, \A x \in S : x <= m
  PROVE  Max(S) = m
<1>1. Max(S) \in S /\ \A x \in S : Max(S) >= x
  BY DEF Max
<1>2. m \in Nat /\ Max(S) \in Nat
  BY <1>1
<1>3. m <= Max(S) /\ Max(S) <= m
  BY <1>1
<1> QED
  BY <1>2, <1>3

LEMMA MinOfTwo ==
  ASSUME NEW a \in Nat, NEW b \in Nat
  PROVE  Min({a, b}) = IF a <= b THEN a ELSE b
<1>1. CASE a <= b
  BY <1>1, MinIs
<1>2. CASE ~(a <= b)
  BY <1>2, MinIs
<1> QED
  BY <1>1, <1>2

LEMMA MaxOfTwo ==
  ASSUME NEW a \in Nat, NEW b \in Nat
  PROVE  Max({a, b}) = IF a >= b THEN a ELSE b
<1>1. CASE a >= b
  BY <1>1, MaxIs
<1>2. CASE ~(a >= b)
  BY <1>2, MaxIs
<1> QED
  BY <1>1, <1>2

\* A hit makes a sane row.
LEMMA RowOfSane ==
  ASSUME NEW hit \in Hit
  PROVE  Sane(RowOf(hit))
<1>1. hit.latency \in Latencies /\ hit.latency \in Nat
  BY LatenciesAreNat DEF Hit
<1>2. RowOf(hit) \in Row
  BY <1>1 DEF RowOf, Row
<1> QED
  BY <1>1, <1>2 DEF Sane, RowOf

\* So does an upsert that meets a sane row.
LEMMA MergedSane ==
  ASSUME NEW row, Sane(row), NEW hit \in Hit
  PROVE  Sane(Merged(row, RowOf(hit)))
<1> DEFINE l == hit.latency
           n == row.total_hits
           t == row.total_latency
           a == row.min_latency
           z == row.max_latency
           new == Merged(row, RowOf(hit))
<1>1. l \in Latencies /\ a \in Latencies /\ z \in Latencies /\ n \in Nat /\ t \in Nat /\ row.error_hits \in Nat
  BY DEF Hit, Sane, Row
<1>2. l \in Nat /\ a \in Nat /\ z \in Nat
  BY <1>1, LatenciesAreNat
<1>3. /\ new.total_hits = n + 1
      /\ new.error_hits = row.error_hits + (IF hit.error THEN 1 ELSE 0)
      /\ new.total_latency = t + l
      /\ new.min_latency = IF a <= l THEN a ELSE l
      /\ new.max_latency = IF z >= l THEN z ELSE l
  BY <1>2, MinOfTwo, MaxOfTwo DEF Merged, RowOf
<1>4. new \in Row
  <2>1. new.min_latency \in Latencies /\ new.max_latency \in Latencies
    BY <1>1, <1>3
  <2>2. new.total_hits \in Nat /\ new.error_hits \in Nat /\ new.total_latency \in Nat
    BY <1>1, <1>2, <1>3
  <2> QED
    BY <2>1, <2>2 DEF Merged, Row
<1>5. a * n <= t /\ t <= z * n /\ row.error_hits <= n
  BY DEF Sane
<1>6. new.error_hits <= new.total_hits
  BY <1>1, <1>3, <1>5
<1> HIDE DEF new
<1>7. new.min_latency * new.total_hits <= new.total_latency
  <2>1. a * (n + 1) = a * n + a /\ l * (n + 1) = l * n + l
    BY <1>1, <1>2
  <2>2. a * n \in Nat /\ l * n \in Nat
    BY <1>1, <1>2
  <2>3. CASE a <= l
    BY <1>1, <1>2, <1>3, <1>5, <2>1, <2>2, <2>3
  <2>4. CASE ~(a <= l)
    <3>1. l * n <= a * n
      BY <1>1, <1>2, <2>4
    <3> QED
      BY <1>1, <1>2, <1>3, <1>5, <2>1, <2>2, <2>4, <3>1
  <2> QED
    BY <2>3, <2>4
<1>8. new.total_latency <= new.max_latency * new.total_hits
  <2>1. z * (n + 1) = z * n + z /\ l * (n + 1) = l * n + l
    BY <1>1, <1>2
  <2>2. z * n \in Nat /\ l * n \in Nat
    BY <1>1, <1>2
  <2>3. CASE z >= l
    BY <1>1, <1>2, <1>3, <1>5, <2>1, <2>2, <2>3
  <2>4. CASE ~(z >= l)
    <3>1. z * n <= l * n
      BY <1>1, <1>2, <2>4
    <3> QED
      BY <1>1, <1>2, <1>3, <1>5, <2>1, <2>2, <2>4, <3>1
  <2> QED
    BY <2>3, <2>4
<1> QED
  BY <1>4, <1>6, <1>7, <1>8 DEF Sane, new

\* An hour of the clock begins on the clock, and at an hour.
LEMMA BucketInTime ==
  ASSUME NEW t \in Time
  PROVE  TimeBucket(t) \in Time /\ TimeBucket(t) % Hour = 0
<1>1. t \in Nat /\ t <= MaxTime /\ Hour \in Nat \ {0}
  BY AnalyticsAssumption DEF Time
<1> DEFINE q == t \div Hour
           r == t % Hour
<1>2. q \in Nat /\ r \in 0..(Hour - 1) /\ t = Hour * q + r
  BY <1>1, DivMod
<1> HIDE DEF q, r
<1>3. Hour * q \in Nat
  BY <1>1, <1>2
<1> DEFINE m == Hour * q
<1> HIDE DEF m
<1>4. m \in Nat /\ t = m + r /\ t - r = m /\ m <= t
  BY <1>1, <1>2, <1>3 DEF m
<1>5. m = Hour * q + 0 /\ 0 \in 0..(Hour - 1)
  BY <1>1, <1>3 DEF m
<1>6. m % Hour = 0
  <2>1. q \in Int
    BY <1>2
  <2> QED
    BY <1>1, <1>4, <1>5, <2>1, RemainderIs
<1>7. TimeBucket(t) = m
  BY <1>4 DEF TimeBucket, r
<1> QED
  BY <1>1, <1>4, <1>6, <1>7, AnalyticsAssumption DEF Time

\* What StoreHit does, for the hit it stores.
Stores(i, hit) ==
    /\ i \in Ids \ Stored /\ hit \in Hit /\ hit.applied = 0
    /\ hits' = [j \in Stored \union {i} |-> IF j = i THEN hit ELSE hits[j]]
    /\ raw' = raw \union {i}
    /\ UNCHANGED <<now, rows, reader>>

LEMMA StoringAHit ==
  ASSUME TypeOK, StoreHit
  PROVE  \E i, hit : Stores(i, hit)
<1>1. PICK i \in Ids \ Stored, t \in 1..now, s \in Samples :
        /\ hits' = [j \in Stored \union {i} |->
                      IF j = i THEN [time |-> t, endpoint |-> s.endpoint, error |-> s.error,
                                     latency |-> s.latency, applied |-> 0]
                      ELSE hits[j]]
        /\ raw' = raw \union {i}
        /\ UNCHANGED <<now, rows, reader>>
  BY Zenon DEF StoreHit
<1> DEFINE hit == [time |-> t, endpoint |-> s.endpoint, error |-> s.error, latency |-> s.latency,
                   applied |-> 0]
<1>2. t \in Time
  BY AnalyticsAssumption DEF TypeOK, Time
<1>3. hit \in Hit /\ hit.applied = 0
  BY <1>2, AnalyticsAssumption DEF Hit, Endpoints, Latencies
<1>4. Stores(i, hit)
  <2>1. /\ hits' = [j \in Stored \union {i} |-> IF j = i THEN hit ELSE hits[j]]
        /\ raw' = raw \union {i}
        /\ UNCHANGED <<now, rows, reader>>
    BY <1>1
  <2> HIDE DEF hit
  <2> QED
    BY <1>3, <2>1 DEF Stores
<1> QED
  BY <1>4

\* An applied upsert changes how often its hit has been applied, and nothing else of it.
LEMMA ApplyingAnUpsert ==
  ASSUME TypeOK, NEW i, UpsertMetrics(i)
  PROVE  /\ i \in Stored /\ Stored' = Stored /\ hits'[i] \in Hit
         /\ hits[i].applied \in Nat /\ hits'[i].applied = hits[i].applied + 1
         /\ hits'[i].time = hits[i].time /\ hits'[i].endpoint = hits[i].endpoint
         /\ hits'[i].error = hits[i].error /\ hits'[i].latency = hits[i].latency
         /\ \A j \in Stored : j # i => hits'[j] = hits[j]
         /\ rows' = Upserted(hits[i])
         /\ UNCHANGED <<now, raw, reader>>
<1>1. /\ i \in Stored /\ hits[i].applied < UpsertAttempts
      /\ hits' = [hits EXCEPT ![i].applied = @ + 1]
      /\ rows' = Upserted(hits[i])
      /\ UNCHANGED <<now, raw, reader>>
  BY DEF UpsertMetrics
<1>2. hits[i] \in Hit /\ UpsertAttempts \in Nat
  BY <1>1, AnalyticsAssumption DEF TypeOK
<1>3. hits'[i] = [hits[i] EXCEPT !.applied = @ + 1] /\ \A j \in Stored : j # i => hits'[j] = hits[j]
  BY <1>1 DEF Stored
<1>4. Stored' = Stored
  BY <1>1 DEF Stored
<1>5. /\ hits'[i] \in Hit /\ hits[i].applied \in Nat /\ hits'[i].applied = hits[i].applied + 1
      /\ hits'[i].time = hits[i].time /\ hits'[i].endpoint = hits[i].endpoint
      /\ hits'[i].error = hits[i].error /\ hits'[i].latency = hits[i].latency
  BY <1>1, <1>2, <1>3 DEF Hit
<1> QED
  BY <1>1, <1>3, <1>4, <1>5

KeyOf(hit) == <<hit.endpoint, TimeBucket(hit.time)>>

\* An upsert writes the row of its hit, and no other.
LEMMA UpsertWrites ==
  ASSUME NEW hit
  PROVE  /\ DOMAIN Upserted(hit) = DOMAIN rows \union {KeyOf(hit)}
         /\ \A k \in DOMAIN rows : k # KeyOf(hit) => Upserted(hit)[k] = rows[k]
         /\ Upserted(hit)[KeyOf(hit)] =
              IF KeyOf(hit) \in DOMAIN rows THEN Merged(rows[KeyOf(hit)], RowOf(hit)) ELSE RowOf(hit)
BY DEF Upserted, KeyOf

LEMMA KeyInRange ==
  ASSUME NEW hit \in Hit
  PROVE  KeyOf(hit) \in Endpoints \X Time /\ KeyOf(hit)[2] % Hour = 0
<1>1. hit.time \in Time /\ hit.endpoint \in Endpoints
  BY DEF Hit
<1> QED
  BY <1>1, BucketInTime DEF KeyOf

LEMMA StoredRowsSane ==
  ASSUME RowsSane, NEW hit \in Hit, rows' = Upserted(hit)
  PROVE  RowsSane'
<1>1. ASSUME NEW k \in DOMAIN rows', k = KeyOf(hit)
      PROVE  k \in Endpoints \X Time /\ k[2] % Hour = 0 /\ Sane(rows'[k])
  <2>1. CASE k \in DOMAIN rows
    <3>1. Sane(rows[k])
      BY <2>1 DEF RowsSane
    <3>2. rows'[k] = Merged(rows[k], RowOf(hit))
      BY <1>1, <2>1, UpsertWrites
    <3> QED
      BY <1>1, <3>1, <3>2, MergedSane, KeyInRange
  <2>2. CASE k \notin DOMAIN rows
    <3>1. rows'[k] = RowOf(hit)
      BY <1>1, <2>2, UpsertWrites
    <3> QED
      BY <1>1, <3>1, RowOfSane, KeyInRange
  <2> QED
    BY <2>1, <2>2
<1>2. ASSUME NEW k \in DOMAIN rows', k # KeyOf(hit)
      PROVE  k \in Endpoints \X Time /\ k[2] % Hour = 0 /\ Sane(rows'[k])
  <2>1. k \in DOMAIN rows /\ rows'[k] = rows[k]
    BY <1>2, UpsertWrites
  <2> QED
    BY <2>1 DEF RowsSane
<1> QED
  BY <1>1, <1>2 DEF RowsSane

\* A finite set of naturals that is not empty has a least and a greatest element.
LEMMA HasExtremes ==
  ASSUME NEW S \in SUBSET Nat, IsFiniteSet(S), S # {}
  PROVE  \E a, z \in S : \A x \in S : a <= x /\ x <= z
<1> DEFINE Bad == {X \in SUBSET S : X # {} /\ ~ \E a, z \in X : \A x \in X : a <= x /\ x <= z}
<1> SUFFICES ASSUME Bad # {} PROVE FALSE
  OBVIOUS
<1>1. PICK X \in Bad : IsFiniteSet(X) /\ \A A \in SUBSET X : A # X => A \notin Bad
  <2>1. Bad \in SUBSET SUBSET S
    OBVIOUS
  <2> HIDE DEF Bad
  <2> QED
    BY <2>1, LeastSubset
<1>2. X \in SUBSET Nat /\ X # {} /\ ~ \E a, z \in X : \A x \in X : a <= x /\ x <= z
  BY <1>1
<1>3. PICK p \in X : TRUE
  BY <1>2
<1>4. CASE X = {p}
  BY <1>2, <1>4
<1>5. CASE X # {p}
  <2> DEFINE R == X \ {p}
  <2>1. R # {} /\ R \in SUBSET X /\ R # X
    <3>1. PICK q \in X : q # p
      BY <1>3, <1>5
    <3>2. q \in R
      BY <3>1
    <3> QED
      BY <1>3, <3>2
  <2>2. R \notin Bad /\ R \in SUBSET S
    BY <1>1, <2>1
  <2>3. PICK a \in R, z \in R : \A x \in R : a <= x /\ x <= z
    BY <2>1, <2>2
  <2>4. /\ p \in Nat /\ a \in Nat /\ z \in Nat /\ a \in X /\ z \in X
        /\ \A x \in X : x \in Nat /\ (x = p \/ (a <= x /\ x <= z))
    BY <1>2, <1>3, <2>1, <2>3
  <2> HIDE DEF R
  <2>5. \E b \in X : \A x \in X : b <= x
    <3>1. CASE p <= a
      BY <1>3, <2>4, <3>1
    <3>2. CASE a <= p
      BY <2>4, <3>2
    <3> QED
      BY <2>4, <3>1, <3>2
  <2>6. \E y \in X : \A x \in X : x <= y
    <3>1. CASE z <= p
      BY <1>3, <2>4, <3>1
    <3>2. CASE p <= z
      BY <2>4, <3>2
    <3> QED
      BY <2>4, <3>1, <3>2
  <2> QED
    BY <1>2, <2>5, <2>6
<1> QED
  BY <1>4, <1>5

\* A full page has a last document, which is the next cursor.
LEMMA CursorOfPage ==
  ASSUME TInv
  PROVE  /\ Page \in SUBSET Candidates /\ Candidates \in SUBSET raw /\ raw \in SUBSET Ids
         /\ IsFiniteSet(Candidates) /\ IsFiniteSet(Page) /\ Ids \in SUBSET Nat /\ 0 \notin Ids
         /\ NextCursor # 0 => /\ NextCursor \in Page
                              /\ \A i \in Page : NextCursor <= i
         /\ NextCursor = 0 <=> Cardinality(Page) # PageSize
<1>1. /\ Page \in SUBSET Candidates /\ Candidates \in SUBSET raw /\ raw \in SUBSET Ids
      /\ raw \in SUBSET Stored
  BY DEF Page, Candidates, TInv, TypeOK
<1>2. IsFiniteSet(Candidates) /\ IsFiniteSet(Page)
  <2>1. IsFiniteSet(raw)
    BY <1>1, FS_Subset DEF TInv
  <2>2. IsFiniteSet(Candidates)
    BY <1>1, <2>1, FS_Subset
  <2> QED
    BY <1>1, <2>2, FS_Subset
<1>3. Ids \in SUBSET Nat /\ 0 \notin Ids /\ PageSize \in Nat \ {0}
  BY AnalyticsAssumption
<1>4. ASSUME Cardinality(Page) = PageSize
      PROVE  NextCursor # 0 /\ NextCursor \in Page /\ \A i \in Page : NextCursor <= i
  <2>1. Page # {}
    BY <1>3, <1>4, FS_EmptySet
  <2>2. Page \in SUBSET Nat
    BY <1>1, <1>3
  <2>3. PICK a \in Page : \A x \in Page : a <= x
    BY <1>2, <2>1, <2>2, HasExtremes
  <2>4. Min(Page) = a
    BY <2>2, <2>3, MinIs
  <2>5. NextCursor = a
    BY <1>4, <2>4 DEF NextCursor
  <2> QED
    BY <1>1, <1>3, <2>3, <2>5
<1>5. ASSUME Cardinality(Page) # PageSize
      PROVE  NextCursor = 0
  BY <1>5 DEF NextCursor
<1>6. NextCursor = 0 <=> Cardinality(Page) # PageSize
  BY <1>4, <1>5
<1>7. NextCursor # 0 => NextCursor \in Page /\ \A i \in Page : NextCursor <= i
  BY <1>4, <1>5
<1> QED
  BY <1>1, <1>2, <1>3, <1>6, <1>7

LEMMA InitTInv == Init => TInv
<1> SUFFICES ASSUME Init PROVE TInv
  OBVIOUS
<1>1. Stored = {} /\ DOMAIN rows = {}
  BY DEF Init, Stored
<1>2. IsFiniteSet(Stored)
  BY <1>1, FS_EmptySet
<1>3. TypeOK
  BY <1>1, AnalyticsAssumption DEF Init, TypeOK, NoReader, Time
<1> QED
  BY <1>1, <1>2, <1>3 DEF TInv, RowsSane

LEMMA NextTInv == TInv /\ [Next]_vars => TInv'
<1> SUFFICES ASSUME TInv, [Next]_vars
             PROVE  TInv'
  OBVIOUS
<1>1. TypeOK /\ IsFiniteSet(Stored) /\ RowsSane
  BY DEF TInv
<1>2. ASSUME NEW i, NEW hit, Stores(i, hit)
      PROVE  TInv'
  <2>1. hit \in Hit /\ i \in Ids /\ Stored' = Stored \union {i} /\ UNCHANGED <<now, reader>>
    BY <1>2 DEF Stores, Stored
  <2>2. \A j \in Stored' : hits'[j] \in Hit
    <3>1. \A j \in Stored' : hits'[j] = IF j = i THEN hit ELSE hits[j]
      BY <1>2, <2>1 DEF Stores
    <3> QED
      BY <1>1, <2>1, <3>1 DEF TypeOK
  <2>3. IsFiniteSet(Stored')
    BY <1>1, <2>1, FS_AddElement
  <2>4. RowsSane' /\ rows' = rows
    BY <1>1, <1>2 DEF RowsSane, Stores
  <2>5. raw' \subseteq Stored' /\ Stored' \subseteq Ids
    BY <1>1, <1>2, <2>1 DEF Stores, TypeOK
  <2>6. TypeOK'
    BY <1>1, <2>1, <2>2, <2>4, <2>5 DEF TypeOK
  <2> QED
    BY <2>3, <2>4, <2>6 DEF TInv
<1>3. ASSUME NEW i \in Ids, ExpireHit(i)
      PROVE  TInv'
  <2>1. UNCHANGED <<now, hits, rows, reader>> /\ raw' \subseteq raw
    BY <1>3 DEF ExpireHit
  <2>2. TypeOK'
    BY <1>1, <2>1 DEF TypeOK, Stored
  <2>3. RowsSane' /\ IsFiniteSet(Stored')
    BY <1>1, <2>1 DEF RowsSane, Stored
  <2> QED
    BY <2>2, <2>3 DEF TInv
<1>4. CASE Tick
  <2>1. UNCHANGED <<hits, raw, rows, reader>> /\ now' \in Time
    BY <1>1, <1>4, AnalyticsAssumption DEF Tick, TypeOK, Time
  <2>2. TypeOK'
    BY <1>1, <2>1 DEF TypeOK, Stored
  <2>3. RowsSane' /\ IsFiniteSet(Stored')
    BY <1>1, <2>1 DEF RowsSane, Stored
  <2> QED
    BY <2>2, <2>3 DEF TInv
<1>5. CASE FindRawLogs
  <2>1. UNCHANGED <<now, hits, raw, rows>>
    BY <1>5 DEF FindRawLogs
  <2>2. /\ reader'.cursor \in Ids \union {0}
        /\ reader'.seen \subseteq Ids /\ reader'.from \subseteq Ids
    <3>1. CASE NextCursor = 0
      BY <1>5, <3>1 DEF FindRawLogs, NoReader
    <3>2. CASE NextCursor # 0
      <4>1. reader' = [cursor |-> NextCursor, seen |-> reader.seen \union Page, from |-> Owed]
        BY <1>5, <3>2 DEF FindRawLogs
      <4>2. NextCursor \in Ids /\ Page \subseteq Ids
        BY <3>2, CursorOfPage
      <4>3. Owed \subseteq Ids
        BY <1>1 DEF Owed, TypeOK
      <4> QED
        BY <1>1, <4>1, <4>2, <4>3 DEF TypeOK
    <3> QED
      BY <3>1, <3>2
  <2>3. TypeOK'
    BY <1>1, <2>1, <2>2 DEF TypeOK, Stored
  <2>4. RowsSane' /\ IsFiniteSet(Stored')
    BY <1>1, <2>1 DEF RowsSane, Stored
  <2> QED
    BY <2>3, <2>4 DEF TInv
<1>6. CASE UNCHANGED vars
  <2>1. TypeOK' /\ RowsSane' /\ IsFiniteSet(Stored')
    BY <1>1, <1>6 DEF vars, TypeOK, RowsSane, Stored
  <2> QED
    BY <2>1 DEF TInv
<1>7. CASE StoreHit
  BY <1>1, <1>2, <1>7, StoringAHit
<1>8. ASSUME NEW i \in Ids, UpsertMetrics(i)
      PROVE  TInv'
  <2>1. /\ i \in Stored /\ Stored' = Stored /\ hits'[i] \in Hit /\ hits[i] \in Hit
        /\ \A j \in Stored : j # i => hits'[j] = hits[j]
        /\ rows' = Upserted(hits[i]) /\ UNCHANGED <<now, raw, reader>>
    BY <1>1, <1>8, ApplyingAnUpsert DEF TypeOK
  <2>2. RowsSane'
    BY <1>1, <2>1, StoredRowsSane
  <2>3. \A k \in DOMAIN rows' :
         /\ k[1] \in Endpoints /\ k[2] \in Time /\ k[2] % Hour = 0
         /\ rows'[k].error_hits <= rows'[k].total_hits
         /\ rows'[k].min_latency \in Latencies /\ rows'[k].max_latency \in Latencies
         /\ rows'[k].min_latency * rows'[k].total_hits <= rows'[k].total_latency
         /\ rows'[k].total_latency <= rows'[k].max_latency * rows'[k].total_hits
    BY <2>2 DEF RowsSane, Sane, Row
  <2>4. \A j \in Stored' : hits'[j] \in Hit
    BY <1>1, <2>1 DEF TypeOK
  <2>5. TypeOK'
    BY <1>1, <2>1, <2>3, <2>4 DEF TypeOK
  <2> QED
    BY <1>1, <2>1, <2>2, <2>5 DEF TInv
<1> QED
  BY <1>3, <1>4, <1>5, <1>6, <1>7, <1>8 DEF Next

\* Every document and every row has its type, and the figures of a row fit together:
\* no more errors than hits, and the sum of the latencies between the number of hits
\* times the least and times the greatest.  Of the upserts' sums, GREATEST and LEAST.
THEOREM AnalyticsTypeCorrect == Spec => []TypeOK
<1>1. Spec => []TInv
  BY InitTInv, NextTInv, PTL DEF Spec
<1>2. TInv => TypeOK
  BY DEF TInv
<1> QED
  BY <1>1, <1>2, PTL

(***************************************************************************)
(* Paging.                                                                  *)
(***************************************************************************)

\* The candidates before one of them: newest first.
Before(i) == {j \in Candidates : j > i}

LEMMA BeforeIsFinite ==
  ASSUME TInv, NEW i \in Candidates
  PROVE  /\ Before(i) \in SUBSET Candidates /\ IsFiniteSet(Before(i)) /\ Cardinality(Before(i)) \in Nat
         /\ i \in Page <=> Cardinality(Before(i)) < PageSize
<1>1. IsFiniteSet(Candidates) /\ Before(i) \in SUBSET Candidates
  BY CursorOfPage DEF Before
<1>2. IsFiniteSet(Before(i))
  BY <1>1, FS_Subset
<1>3. i \in Page <=> Cardinality(Before(i)) < PageSize
  BY DEF Page, Before
<1> QED
  BY <1>1, <1>2, <1>3, FS_CardinalityType

\* A page has whatever is newer than what it has.
LEMMA PageFromTheNewest ==
  ASSUME TInv, NEW c \in Page, NEW i \in Candidates, i >= c
  PROVE  i \in Page
<1>1. c \in Candidates /\ i \in Nat /\ c \in Nat /\ Candidates \in SUBSET Nat
  BY CursorOfPage
<1>2. ASSUME NEW j \in Before(i) PROVE j \in Before(c)
  <2>1. j \in Candidates /\ j > i /\ j \in Nat
    BY <1>1 DEF Before
  <2> QED
    BY <1>1, <2>1 DEF Before
<1>3. Cardinality(Before(i)) <= Cardinality(Before(c))
  BY <1>1, <1>2, BeforeIsFinite, FS_Subset
<1> QED
  BY <1>1, <1>3, BeforeIsFinite, AnalyticsAssumption

\* A page that is not full has all there is.
LEMMA LastPage ==
  ASSUME TInv, Cardinality(Page) # PageSize
  PROVE  Page = Candidates
<1>1. /\ Page \in SUBSET Candidates /\ Candidates \in SUBSET Nat /\ PageSize \in Nat \ {0}
      /\ IsFiniteSet(Page) /\ IsFiniteSet(Candidates)
  BY CursorOfPage, AnalyticsAssumption
<1> SUFFICES ASSUME Candidates \ Page # {} PROVE FALSE
  BY <1>1
<1> DEFINE rest == Candidates \ Page
<1>2. PICK m \in rest : \A x \in rest : x <= m
  <2>1. rest \in SUBSET Nat /\ IsFiniteSet(rest) /\ rest # {}
    BY <1>1, FS_Subset
  <2> HIDE DEF rest
  <2> QED
    BY <2>1, HasExtremes
<1>3. m \in Candidates /\ m \notin Page
  BY <1>2
<1>4. Before(m) = Page
  <2>1. ASSUME NEW j \in Before(m) PROVE j \in Page
    BY <1>1, <1>2, <1>3, <2>1 DEF Before
  <2>2. ASSUME NEW j \in Page PROVE j \in Before(m)
    <3>1. ~(m >= j)
      BY <1>3, PageFromTheNewest
    <3> QED
      BY <1>1, <1>3, <3>1 DEF Before
  <2> QED
    BY <2>1, <2>2
<1>5. Cardinality(Page) \in Nat /\ Cardinality(Page) >= PageSize
  BY <1>1, <1>3, <1>4, BeforeIsFinite
<1>6. Page # {}
  BY <1>1, <1>5, FS_EmptySet
<1>7. PICK a \in Page : \A x \in Page : a <= x
  <2>1. Page \in SUBSET Nat
    BY <1>1
  <2> QED
    BY <1>1, <1>6, <2>1, HasExtremes
<1>8. Before(a) = Page \ {a}
  <2>1. ASSUME NEW j \in Before(a) PROVE j \in Page /\ j # a
    <3>1. j \in Candidates /\ j > a /\ j \in Nat /\ a \in Nat
      BY <1>1, <1>7 DEF Before
    <3> QED
      BY <3>1, PageFromTheNewest
  <2>2. ASSUME NEW j \in Page, j # a PROVE j \in Before(a)
    <3>1. j \in Nat /\ a \in Nat /\ a <= j /\ j \in Candidates
      BY <1>1, <1>7
    <3> QED
      BY <2>2, <3>1 DEF Before
  <2> QED
    BY <2>1, <2>2
<1>9. Cardinality(Before(a)) = Cardinality(Page) - 1
  BY <1>1, <1>8, FS_RemoveElement
<1>10. Cardinality(Before(a)) < PageSize
  BY <1>1, BeforeIsFinite
<1> QED
  BY <1>1, <1>5, <1>9, <1>10

LEMMA ReaderInRange ==
  ASSUME TypeOK
  PROVE  reader.cursor \in Nat /\ reader.seen \in SUBSET Nat
<1>1. Ids \in SUBSET Nat
  BY AnalyticsAssumption
<1>2. reader.cursor \in Ids \union {0} /\ reader.seen \subseteq Ids
  BY DEF TypeOK
<1>3. reader.cursor \in Nat
  <2>1. reader.cursor \in Ids \/ reader.cursor = 0
    BY <1>2
  <2>2. CASE reader.cursor \in Ids
    BY <1>1, <2>2
  <2>3. CASE reader.cursor = 0
    BY <2>3
  <2> QED
    BY <2>1, <2>2, <2>3
<1>4. \A i \in reader.seen : i \in Nat
  BY <1>1, <1>2
<1> QED
  BY <1>3, <1>4

\* What a reader has been told so far is all there was from the cursor on.
PInv ==
    /\ reader.from \subseteq Stored
    /\ reader.cursor = 0 => reader.seen = {}
    /\ reader.cursor # 0 =>
         /\ \A i \in reader.seen : i >= reader.cursor
         /\ \A i \in reader.from \intersect raw : i >= reader.cursor => i \in reader.seen

LEMMA NextPInv == TInv /\ PInv /\ [Next]_vars => PInv'
<1> SUFFICES ASSUME TInv, PInv, [Next]_vars
             PROVE  PInv'
  OBVIOUS
<1>1. ASSUME NEW i, NEW hit, Stores(i, hit)
      PROVE  PInv'
  <2>1. /\ i \notin Stored /\ Stored' = Stored \union {i} /\ raw' = raw \union {i}
        /\ reader' = reader
    BY <1>1 DEF Stores, Stored
  <2>2. reader.from \intersect raw' = reader.from \intersect raw
    BY <2>1 DEF PInv
  <2>3. reader.from \subseteq Stored'
    BY <2>1 DEF PInv
  <2> QED
    BY <2>1, <2>2, <2>3 DEF PInv
<1>2. ASSUME NEW i \in Ids, ExpireHit(i)
      PROVE  PInv'
  BY <1>2 DEF ExpireHit, PInv, Stored
<1>3. CASE Tick
  BY <1>3 DEF Tick, PInv, Stored
<1>4. CASE FindRawLogs
  <2>1. Stored' = Stored /\ raw' = raw
    BY <1>4 DEF FindRawLogs, Stored
  <2>2. CASE NextCursor = 0
    BY <1>4, <2>1, <2>2 DEF FindRawLogs, NoReader, PInv
  <2>3. CASE NextCursor # 0
    <3> DEFINE c == NextCursor
    <3>1. reader' = [cursor |-> c, seen |-> reader.seen \union Page, from |-> Owed]
      BY <1>4, <2>3 DEF FindRawLogs
    <3>2. /\ c \in Page /\ \A i \in Page : c <= i
          /\ Page \in SUBSET Candidates /\ Candidates \in SUBSET raw /\ raw \in SUBSET Nat
      BY <2>3, CursorOfPage
    <3>3. Owed \subseteq Stored
      BY DEF Owed, PInv, TInv, TypeOK
    <3>4. reader.cursor \in Nat /\ reader.seen \in SUBSET Nat /\ c \in Nat
      BY <3>2, ReaderInRange DEF TInv
    <3>5. ASSUME NEW i \in reader.seen \union Page
          PROVE  i >= c
      <4>1. CASE i \in reader.seen
        <5>1. reader.cursor # 0 /\ i >= reader.cursor
          BY <4>1 DEF PInv
        <5>2. c < reader.cursor
          BY <3>2, <5>1 DEF Candidates
        <5> QED
          BY <3>4, <4>1, <5>1, <5>2
      <4>2. CASE i \in Page
        BY <3>2, <3>4, <4>2
      <4> QED
        BY <4>1, <4>2
    <3>6. ASSUME NEW i \in Owed \intersect raw, i >= c
          PROVE  i \in reader.seen \union Page
      <4>1. i \in Nat
        BY <3>2
      <4>2. CASE i \in Candidates
        BY <3>2, <3>6, <4>2, PageFromTheNewest
      <4>3. CASE i \notin Candidates
        <5>1. reader.cursor # 0 /\ i >= reader.cursor
          BY <3>4, <4>1, <4>3 DEF Candidates
        <5>2. i \in reader.from
          BY <5>1 DEF Owed
        <5> QED
          BY <5>1, <5>2 DEF PInv
      <4> QED
        BY <4>2, <4>3
    <3> HIDE DEF c
    <3>7. reader'.cursor = c /\ reader'.seen = reader.seen \union Page /\ reader'.from = Owed
      BY <3>1
    <3>8. c # 0
      BY <2>3 DEF c
    <3> QED
      BY <2>1, <3>3, <3>5, <3>6, <3>7, <3>8 DEF PInv
  <2> QED
    BY <2>2, <2>3
<1>5. CASE UNCHANGED vars
  BY <1>5 DEF vars, PInv, Stored
<1>6. CASE StoreHit
  BY <1>1, <1>6, StoringAHit DEF TInv
<1>7. ASSUME NEW i \in Ids, UpsertMetrics(i)
      PROVE  PInv'
  <2>1. Stored' = Stored /\ raw' = raw /\ reader' = reader
    BY <1>7, ApplyingAnUpsert DEF TInv
  <2> QED
    BY <2>1 DEF PInv
<1> QED
  BY <1>2, <1>3, <1>4, <1>5, <1>6, <1>7 DEF Next

LEMMA PageStep ==
  ASSUME TInv, PInv, FindRawLogs
  PROVE  /\ Page \intersect reader.seen = {}
         /\ reader' = NoReader => Owed \intersect raw \subseteq reader.seen \union Page
<1>1. /\ Page \in SUBSET Candidates /\ raw \in SUBSET Nat /\ reader.cursor \in Nat
      /\ reader.seen \in SUBSET Nat /\ Candidates \in SUBSET raw
  BY CursorOfPage, ReaderInRange DEF TInv
<1>2. Page \intersect reader.seen = {}
  <2> SUFFICES ASSUME NEW i \in Page, i \in reader.seen PROVE FALSE
    OBVIOUS
  <2>1. reader.cursor # 0 /\ i >= reader.cursor
    BY DEF PInv
  <2>2. i < reader.cursor /\ i \in Nat
    BY <1>1, <2>1 DEF Candidates
  <2> QED
    BY <1>1, <2>1, <2>2
<1>3. ASSUME reader' = NoReader, NEW i \in Owed \intersect raw
      PROVE  i \in reader.seen \union Page
  <2>1. NextCursor = 0
    <3> SUFFICES ASSUME NextCursor # 0 PROVE FALSE
      OBVIOUS
    <3>1. reader'.cursor = NextCursor
      BY DEF FindRawLogs
    <3> QED
      BY <1>3, <3>1 DEF NoReader
  <2>2. Page = Candidates
    BY <2>1, CursorOfPage, LastPage
  <2>3. CASE i \in Candidates
    BY <2>2, <2>3
  <2>4. CASE i \notin Candidates
    <3>1. reader.cursor # 0 /\ i >= reader.cursor
      <4>1. i \in Nat /\ i \in raw
        BY <1>1
      <4> QED
        BY <1>1, <2>4, <4>1 DEF Candidates
    <3>2. i \in reader.from
      BY <3>1 DEF Owed
    <3> QED
      BY <3>1, <3>2 DEF PInv
  <2> QED
    BY <2>3, <2>4
<1> QED
  BY <1>2, <1>3

\* findRawLogs: a reader who pages until there is no nextCursor is shown no document
\* twice, and is shown every document that was there all the time, whatever arrives
\* and expires between two pages and whatever the size of a page.
THEOREM AnalyticsPagesCoverLog == Spec => PagesCoverLog
<1>1. Init => TInv /\ PInv
  BY InitTInv DEF Init, NoReader, PInv
<1>2. TInv /\ PInv /\ [Next]_vars => TInv' /\ PInv'
  BY NextTInv, NextPInv
<1>3. TInv /\ PInv /\ [Next]_vars =>
        [FindRawLogs =>
          /\ Page \intersect reader.seen = {}
          /\ reader' = NoReader => Owed \intersect raw \subseteq reader.seen \union Page]_vars
  BY PageStep
<1> QED
  BY <1>1, <1>2, <1>3, PTL DEF Spec, PagesCoverLog

(***************************************************************************)
(* Every row sums up the upserts of its endpoint and hour.                  *)
(***************************************************************************)

TimesIn(h) == [i \in DOMAIN h |-> h[i].applied]
ErrorsIn(h) == [i \in DOMAIN h |-> IF h[i].error THEN h[i].applied ELSE 0]
LatencyIn(h) == [i \in DOMAIN h |-> h[i].latency * h[i].applied]
Behind(h, k) == {i \in DOMAIN h : h[i].applied > 0 /\ KeyOf(h[i]) = k}
Counted == {i \in Stored : hits[i].applied > 0}

\* A row sums up the upserts of the hits B among those of h.
SumsUp(row, h, B) ==
    /\ row.total_hits = SumFunctionOnSet(TimesIn(h), B)
    /\ row.error_hits = SumFunctionOnSet(ErrorsIn(h), B)
    /\ row.total_latency = SumFunctionOnSet(LatencyIn(h), B)
    /\ \A i \in B : row.min_latency <= h[i].latency /\ h[i].latency <= row.max_latency
    /\ \E i \in B : row.min_latency = h[i].latency
    /\ \E i \in B : row.max_latency = h[i].latency

RowsExact ==
    /\ DOMAIN rows = {KeyOf(hits[i]) : i \in Counted}
    /\ \A k \in DOMAIN rows : SumsUp(rows[k], hits, Behind(hits, k))

LEMMA TimesOneMore ==
  ASSUME NEW a \in Nat, NEW n \in Nat
  PROVE  a * (n + 1) = a * n + a
OBVIOUS

\* What the sums are taken of.
LEMMA SummandsOfHit ==
  ASSUME NEW h, NEW i \in DOMAIN h, h[i] \in Hit
  PROVE  /\ h[i].applied \in Nat /\ h[i].latency \in Nat /\ h[i].error \in BOOLEAN
         /\ TimesIn(h)[i] = h[i].applied /\ TimesIn(h)[i] \in Nat
         /\ ErrorsIn(h)[i] = (IF h[i].error THEN h[i].applied ELSE 0) /\ ErrorsIn(h)[i] \in Nat
         /\ LatencyIn(h)[i] = h[i].latency * h[i].applied /\ LatencyIn(h)[i] \in Nat
<1>1. h[i].applied \in Nat /\ h[i].latency \in Nat /\ h[i].error \in BOOLEAN
  <2>1. h[i].applied \in 0..UpsertAttempts /\ h[i].latency \in Latencies /\ h[i].error \in BOOLEAN
    BY DEF Hit
  <2>2. UpsertAttempts \in Nat
    BY AnalyticsAssumption
  <2>3. h[i].applied \in Nat
    BY <2>1, <2>2
  <2>4. h[i].latency \in Nat
    BY <2>1, LatenciesAreNat
  <2> QED
    BY <2>1, <2>3, <2>4, Zenon
<1>2. h[i].latency * h[i].applied \in Nat
  BY <1>1
<1>3. /\ TimesIn(h)[i] = h[i].applied
      /\ ErrorsIn(h)[i] = (IF h[i].error THEN h[i].applied ELSE 0)
      /\ LatencyIn(h)[i] = h[i].latency * h[i].applied
  BY DEF TimesIn, ErrorsIn, LatencyIn
<1>4. ErrorsIn(h)[i] \in Nat
  <2>1. CASE h[i].error
    BY <1>1, <1>3, <2>1
  <2>2. CASE ~h[i].error
    BY <1>3, <2>2
  <2> QED
    BY <2>1, <2>2
<1> QED
  BY <1>1, <1>2, <1>3, <1>4

\* It goes on doing so when something happens to hits that are not among them.
LEMMA StillSumsUp ==
  ASSUME NEW h, NEW h2, NEW B, IsFiniteSet(B), B \in SUBSET DOMAIN h, B \in SUBSET DOMAIN h2,
         \A j \in B : h2[j] = h[j], NEW row, SumsUp(row, h, B)
  PROVE  SumsUp(row, h2, B)
<1>1. \A j \in B : /\ TimesIn(h)[j] = TimesIn(h2)[j]
                   /\ ErrorsIn(h)[j] = ErrorsIn(h2)[j]
                   /\ LatencyIn(h)[j] = LatencyIn(h2)[j]
  BY DEF TimesIn, ErrorsIn, LatencyIn
<1>2. /\ SumFunctionOnSet(TimesIn(h), B) = SumFunctionOnSet(TimesIn(h2), B)
      /\ SumFunctionOnSet(ErrorsIn(h), B) = SumFunctionOnSet(ErrorsIn(h2), B)
      /\ SumFunctionOnSet(LatencyIn(h), B) = SumFunctionOnSet(LatencyIn(h2), B)
  BY <1>1, SumAgrees
<1>3. /\ \A j \in B : row.min_latency <= h2[j].latency /\ h2[j].latency <= row.max_latency
      /\ \E j \in B : row.min_latency = h2[j].latency
      /\ \E j \in B : row.max_latency = h2[j].latency
  BY DEF SumsUp
<1> QED
  BY <1>2, <1>3 DEF SumsUp

\* A sum over one element.
LEMMA SumOfOne ==
  ASSUME NEW f, NEW i, f[i] \in Nat
  PROVE  SumFunctionOnSet(f, {i}) = f[i]
<1>1. IsFiniteSet({i}) /\ \A x \in {i} : f[x] \in Nat
  BY FS_Singleton
<1>2. SumFunctionOnSet(f, {i}) = f[i] + SumFunctionOnSet(f, {i} \ {i})
  BY <1>1, SumWithout
<1>3. {i} \ {i} = {}
  OBVIOUS
<1> QED
  BY <1>2, <1>3, SumEmpty

\* A new row sums up its one upsert.
LEMMA SumsUpOne ==
  ASSUME NEW h, NEW i \in DOMAIN h, h[i] \in Hit, h[i].applied = 1,
         NEW hit, hit.latency = h[i].latency, hit.error = h[i].error
  PROVE  SumsUp(RowOf(hit), h, {i})
<1>1. /\ h[i].latency \in Nat
      /\ TimesIn(h)[i] = 1 /\ ErrorsIn(h)[i] = (IF hit.error THEN 1 ELSE 0)
      /\ LatencyIn(h)[i] = h[i].latency * h[i].applied
      /\ TimesIn(h)[i] \in Nat /\ ErrorsIn(h)[i] \in Nat /\ LatencyIn(h)[i] \in Nat
  BY SummandsOfHit
<1>2. LatencyIn(h)[i] = h[i].latency
  BY <1>1
<1>3. /\ SumFunctionOnSet(TimesIn(h), {i}) = 1
      /\ SumFunctionOnSet(ErrorsIn(h), {i}) = (IF hit.error THEN 1 ELSE 0)
      /\ SumFunctionOnSet(LatencyIn(h), {i}) = h[i].latency
  BY <1>1, <1>2, SumOfOne
<1> QED
  BY <1>1, <1>3 DEF SumsUp, RowOf

\* A sum in which one summand grows by d.  If it was not in the sum, it was zero.
LEMMA SumGrows ==
  ASSUME NEW f, NEW g, NEW B, IsFiniteSet(B), NEW i \in B, NEW d \in Nat,
         \A j \in B : f[j] \in Nat /\ g[j] \in Nat,
         \A j \in B \ {i} : g[j] = f[j], g[i] = f[i] + d,
         NEW A, A = B \/ (A = B \ {i} /\ f[i] = 0)
  PROVE  SumFunctionOnSet(g, B) = SumFunctionOnSet(f, A) + d
<1> DEFINE R == B \ {i}
<1>1. IsFiniteSet(R)
  BY Without
<1>2. SumFunctionOnSet(g, B) = g[i] + SumFunctionOnSet(g, R)
  BY SumWithout
<1>3. SumFunctionOnSet(f, B) = f[i] + SumFunctionOnSet(f, R)
  BY SumWithout
<1>4. SumFunctionOnSet(g, R) = SumFunctionOnSet(f, R) /\ SumFunctionOnSet(f, R) \in Nat
  <2>1. \A x \in R : g[x] = f[x] /\ f[x] \in Nat
    OBVIOUS
  <2> HIDE DEF R
  <2> QED
    BY <1>1, <2>1, SumAgrees, SumNat
<1>5. f[i] \in Nat /\ (A = B \/ (A = R /\ f[i] = 0))
  OBVIOUS
<1> HIDE DEF R
<1>6. CASE A = B
  BY <1>2, <1>3, <1>4, <1>5, <1>6
<1>7. CASE A = R /\ f[i] = 0
  BY <1>2, <1>4, <1>5, <1>7
<1> QED
  BY <1>5, <1>6, <1>7

\* An upsert makes a row sum up one upsert more, of a hit it knew or of a new one.
LEMMA SumsUpOneMore ==
  ASSUME NEW h, \A j \in DOMAIN h : h[j] \in Hit, NEW h2, \A j \in DOMAIN h2 : h2[j] \in Hit,
         NEW B, B \in SUBSET DOMAIN h, B \in SUBSET DOMAIN h2, IsFiniteSet(B),
         NEW i \in B, \A j \in B \ {i} : h2[j] = h[j],
         h2[i].applied = h[i].applied + 1, h2[i].error = h[i].error, h2[i].latency = h[i].latency,
         NEW A, A = B \/ (A = B \ {i} /\ h[i].applied = 0),
         NEW row \in Row, SumsUp(row, h, A)
  PROVE  SumsUp(Merged(row, RowOf(h[i])), h2, B)
<1> DEFINE l == h[i].latency
           e == IF h[i].error THEN 1 ELSE 0
           new == Merged(row, RowOf(h[i]))
<1>1. ASSUME NEW j \in B
      PROVE  /\ h[j].latency \in Nat /\ h2[j].latency = h[j].latency
             /\ TimesIn(h)[j] \in Nat /\ TimesIn(h2)[j] \in Nat
             /\ ErrorsIn(h)[j] \in Nat /\ ErrorsIn(h2)[j] \in Nat
             /\ LatencyIn(h)[j] \in Nat /\ LatencyIn(h2)[j] \in Nat
             /\ j # i => /\ TimesIn(h2)[j] = TimesIn(h)[j]
                         /\ ErrorsIn(h2)[j] = ErrorsIn(h)[j]
                         /\ LatencyIn(h2)[j] = LatencyIn(h)[j]
  <2>1. j \in DOMAIN h /\ h[j] \in Hit /\ j \in DOMAIN h2 /\ h2[j] \in Hit
    OBVIOUS
  <2>2. /\ h[j].latency \in Nat
        /\ TimesIn(h)[j] \in Nat /\ ErrorsIn(h)[j] \in Nat /\ LatencyIn(h)[j] \in Nat
    BY <2>1, SummandsOfHit
  <2>3. TimesIn(h2)[j] \in Nat /\ ErrorsIn(h2)[j] \in Nat /\ LatencyIn(h2)[j] \in Nat
    BY <2>1, SummandsOfHit
  <2>4. h2[j].latency = h[j].latency
    OBVIOUS
  <2>5. j # i => /\ TimesIn(h2)[j] = TimesIn(h)[j]
                 /\ ErrorsIn(h2)[j] = ErrorsIn(h)[j]
                 /\ LatencyIn(h2)[j] = LatencyIn(h)[j]
    BY <2>1 DEF TimesIn, ErrorsIn, LatencyIn
  <2> QED
    BY <2>2, <2>3, <2>4, <2>5
<1>2. /\ l \in Nat /\ e \in Nat
      /\ TimesIn(h2)[i] = TimesIn(h)[i] + 1
      /\ ErrorsIn(h2)[i] = ErrorsIn(h)[i] + e
      /\ LatencyIn(h2)[i] = LatencyIn(h)[i] + l
      /\ h[i].applied = 0 => TimesIn(h)[i] = 0 /\ ErrorsIn(h)[i] = 0 /\ LatencyIn(h)[i] = 0
  <2>1. i \in DOMAIN h /\ h[i] \in Hit /\ i \in DOMAIN h2 /\ h2[i] \in Hit
    OBVIOUS
  <2>2. /\ h[i].applied \in Nat /\ l \in Nat
        /\ TimesIn(h)[i] = h[i].applied
        /\ ErrorsIn(h)[i] = (IF h[i].error THEN h[i].applied ELSE 0)
        /\ LatencyIn(h)[i] = h[i].latency * h[i].applied
    BY <2>1, SummandsOfHit
  <2>3. /\ TimesIn(h2)[i] = h[i].applied + 1
        /\ ErrorsIn(h2)[i] = (IF h[i].error THEN h[i].applied + 1 ELSE 0)
        /\ LatencyIn(h2)[i] = h[i].latency * (h[i].applied + 1)
    BY <2>1, SummandsOfHit
  <2>4. h[i].latency * (h[i].applied + 1) = h[i].latency * h[i].applied + h[i].latency
    BY <2>2, TimesOneMore
  <2>5. h[i].applied = 0 => h[i].latency * h[i].applied = 0
    BY <2>2
  <2>6. CASE h[i].error
    BY <2>2, <2>3, <2>4, <2>5, <2>6
  <2>7. CASE ~h[i].error
    BY <2>2, <2>3, <2>4, <2>5, <2>7
  <2> QED
    BY <2>6, <2>7
<1>3. row.min_latency \in Nat /\ row.max_latency \in Nat
  BY LatenciesAreNat DEF Row
<1>4. /\ new.total_hits = row.total_hits + 1
      /\ new.error_hits = row.error_hits + e
      /\ new.total_latency = row.total_latency + l
      /\ new.min_latency = IF row.min_latency <= l THEN row.min_latency ELSE l
      /\ new.max_latency = IF row.max_latency >= l THEN row.max_latency ELSE l
  BY <1>2, <1>3, MinOfTwo, MaxOfTwo DEF Merged, RowOf
<1> HIDE DEF new, e
<1>5. /\ row.total_hits = SumFunctionOnSet(TimesIn(h), A)
      /\ row.error_hits = SumFunctionOnSet(ErrorsIn(h), A)
      /\ row.total_latency = SumFunctionOnSet(LatencyIn(h), A)
      /\ \A j \in A : row.min_latency <= h[j].latency /\ h[j].latency <= row.max_latency
      /\ \E j \in A : row.min_latency = h[j].latency
      /\ \E j \in A : row.max_latency = h[j].latency
  BY DEF SumsUp
<1>6. SumFunctionOnSet(TimesIn(h2), B) = SumFunctionOnSet(TimesIn(h), A) + 1
  BY <1>1, <1>2, SumGrows
<1>7. SumFunctionOnSet(ErrorsIn(h2), B) = SumFunctionOnSet(ErrorsIn(h), A) + e
  BY <1>1, <1>2, SumGrows
<1>8. SumFunctionOnSet(LatencyIn(h2), B) = SumFunctionOnSet(LatencyIn(h), A) + l
  <2> HIDE DEF l
  <2> QED
    BY <1>1, <1>2, SumGrows
<1>9. A \in SUBSET B /\ \A j \in B : j \in A \/ j = i
  OBVIOUS
<1>10. \A j \in B : new.min_latency <= h2[j].latency /\ h2[j].latency <= new.max_latency
  <2> SUFFICES ASSUME NEW j \in B
               PROVE  new.min_latency <= h2[j].latency /\ h2[j].latency <= new.max_latency
    OBVIOUS
  <2>1. CASE j = i
    BY <1>1, <1>2, <1>3, <1>4, <2>1
  <2>2. CASE j \in A
    <3>1. /\ row.min_latency <= h[j].latency /\ h[j].latency <= row.max_latency
          /\ h[j].latency \in Nat /\ h2[j].latency = h[j].latency
      BY <1>1, <1>5, <2>2
    <3> QED
      BY <1>2, <1>3, <1>4, <3>1
  <2> QED
    BY <1>9, <2>1, <2>2
<1>11. (\E j \in B : new.min_latency = h2[j].latency) /\ \E j \in B : new.max_latency = h2[j].latency
  <2>1. \A j \in B : h2[j].latency = h[j].latency
    BY <1>1
  <2> QED
    BY <1>4, <1>5, <1>9, <2>1
<1> QED
  BY <1>4, <1>5, <1>6, <1>7, <1>8, <1>10, <1>11 DEF SumsUp, new

LEMMA StoreKeepsRowsExact ==
  ASSUME TInv, RowsExact, NEW i, NEW hit, Stores(i, hit)
  PROVE  RowsExact'
<1>1. /\ hit.applied = 0 /\ i \notin Stored /\ Stored' = Stored \union {i} /\ hits'[i] = hit
      /\ \A j \in Stored : hits'[j] = hits[j]
      /\ rows' = rows
  BY DEF Stores, Stored
<1>2. Counted' = Counted /\ \A j \in Counted : hits'[j] = hits[j]
  BY <1>1 DEF Counted
<1>3. ASSUME NEW k \in DOMAIN rows
      PROVE  SumsUp(rows[k], hits', Behind(hits', k))
  <2> DEFINE B == Behind(hits, k)
  <2>1. Behind(hits', k) = B
    BY <1>1 DEF Behind, Stored
  <2>2. B \in SUBSET DOMAIN hits /\ IsFiniteSet(B)
    BY FS_Subset DEF Behind, Stored, TInv
  <2>3. B \in SUBSET DOMAIN hits' /\ \A j \in B : hits'[j] = hits[j]
    BY <1>1, <2>2 DEF Stored
  <2>4. SumsUp(rows[k], hits, B)
    BY DEF RowsExact
  <2> HIDE DEF B
  <2> QED
    BY <2>1, <2>2, <2>3, <2>4, StillSumsUp
<1>4. {KeyOf(hits'[j]) : j \in Counted'} = {KeyOf(hits[j]) : j \in Counted}
  BY <1>2
<1> QED
  BY <1>1, <1>3, <1>4 DEF RowsExact

LEMMA UpsertKeepsRowsExact ==
  ASSUME TInv, TInv', RowsExact, NEW i, UpsertMetrics(i)
  PROVE  RowsExact'
<1> DEFINE k0 == KeyOf(hits[i])
<1>1. /\ i \in Stored /\ Stored' = Stored /\ hits[i].applied \in Nat
      /\ hits'[i].applied = hits[i].applied + 1
      /\ hits'[i].error = hits[i].error /\ hits'[i].latency = hits[i].latency
      /\ \A j \in Stored : j # i => hits'[j] = hits[j]
      /\ rows' = Upserted(hits[i])
  BY ApplyingAnUpsert DEF TInv
<1>2. \A j \in Stored : KeyOf(hits'[j]) = KeyOf(hits[j])
  <2>1. hits'[i].time = hits[i].time /\ hits'[i].endpoint = hits[i].endpoint
    BY ApplyingAnUpsert DEF TInv
  <2> QED
    BY <1>1, <2>1 DEF KeyOf
<1>3. /\ IsFiniteSet(Stored)
      /\ \A j \in DOMAIN hits : hits[j] \in Hit
      /\ \A j \in DOMAIN hits' : hits'[j] \in Hit
      /\ DOMAIN hits' = Stored /\ DOMAIN hits = Stored
  BY <1>1 DEF TInv, TypeOK, Stored
<1>4. /\ DOMAIN rows = {KeyOf(hits[j]) : j \in Counted}
      /\ \A k \in DOMAIN rows : SumsUp(rows[k], hits, Behind(hits, k)) /\ rows[k] \in Row
  BY DEF RowsExact, TInv, RowsSane, Sane
<1>5. Counted' = Counted \union {i}
  BY <1>1 DEF Counted
<1>6. DOMAIN rows' = {KeyOf(hits'[j]) : j \in Counted'}
  <2>1. {KeyOf(hits'[j]) : j \in Counted'} = {KeyOf(hits[j]) : j \in Counted} \union {k0}
    <3>1. Counted \in SUBSET Stored
      BY DEF Counted
    <3> HIDE DEF k0
    <3> QED
      BY <1>1, <1>2, <1>5, <3>1 DEF k0
  <2> QED
    BY <1>1, <1>4, <2>1, UpsertWrites
<1>7. ASSUME NEW k \in DOMAIN rows', k # k0
      PROVE  SumsUp(rows'[k], hits', Behind(hits', k))
  <2> DEFINE B == Behind(hits, k)
  <2>1. k \in DOMAIN rows /\ rows'[k] = rows[k]
    BY <1>1, <1>7, UpsertWrites
  <2>2. Behind(hits', k) = B /\ i \notin B
    BY <1>1, <1>2, <1>3, <1>7 DEF Behind
  <2>3. /\ B \in SUBSET DOMAIN hits /\ B \in SUBSET DOMAIN hits' /\ IsFiniteSet(B)
        /\ \A j \in B : hits'[j] = hits[j]
    <3>1. B \in SUBSET Stored
      BY <1>3 DEF Behind
    <3> QED
      BY <1>1, <1>3, <2>2, <3>1, FS_Subset
  <2>4. SumsUp(rows[k], hits, B)
    BY <1>4, <2>1
  <2> HIDE DEF B
  <2> QED
    BY <2>1, <2>2, <2>3, <2>4, StillSumsUp
<1>8. SumsUp(rows'[k0], hits', Behind(hits', k0))
  <2> DEFINE A == Behind(hits, k0)
             B == Behind(hits', k0)
  <2>1. B = A \union {i} /\ A \in SUBSET Stored /\ (i \in A \/ hits[i].applied = 0)
    BY <1>1, <1>2, <1>3 DEF Behind
  <2>2. i \in B /\ (A = B \/ (A = B \ {i} /\ hits[i].applied = 0))
    BY <2>1
  <2>3. /\ B \in SUBSET DOMAIN hits /\ B \in SUBSET DOMAIN hits' /\ IsFiniteSet(B)
        /\ \A j \in B \ {i} : hits'[j] = hits[j]
    BY <1>1, <1>3, <2>1, FS_Subset
  <2>4. CASE k0 \in DOMAIN rows
    <3>1. rows'[k0] = Merged(rows[k0], RowOf(hits[i]))
      BY <1>1, <2>4, UpsertWrites
    <3>2. SumsUp(rows[k0], hits, A) /\ rows[k0] \in Row
      BY <1>4, <2>4
    <3> HIDE DEF A, B, k0
    <3>3. SumsUp(Merged(rows[k0], RowOf(hits[i])), hits', B)
      BY <1>1, <1>3, <2>2, <2>3, <3>2, SumsUpOneMore
    <3> QED
      BY <3>1, <3>3 DEF B, k0
  <2>5. CASE k0 \notin DOMAIN rows
    <3>1. rows'[k0] = RowOf(hits[i])
      BY <1>1, <2>5, UpsertWrites
    <3>2. A = {} /\ B = {i} /\ hits'[i].applied = 1
      <4>1. A = {}
        BY <1>3, <1>4, <2>5 DEF Behind, Counted
      <4> QED
        BY <1>1, <2>1, <4>1
    <3>3. SumsUp(RowOf(hits[i]), hits', {i})
      BY <1>1, <1>3, <3>2, SumsUpOne
    <3> QED
      BY <3>1, <3>2, <3>3
  <2> QED
    BY <2>4, <2>5
<1>9. \A k \in DOMAIN rows' : SumsUp(rows'[k], hits', Behind(hits', k))
  BY <1>7, <1>8
<1> QED
  BY <1>6, <1>9 DEF RowsExact

LEMMA NextRowsExact == TInv /\ RowsExact /\ [Next]_vars => RowsExact'
<1> SUFFICES ASSUME TInv, RowsExact, [Next]_vars
             PROVE  RowsExact'
  OBVIOUS
<1>1. TInv'
  BY NextTInv
<1>2. CASE StoreHit
  BY <1>2, StoringAHit, StoreKeepsRowsExact DEF TInv
<1>3. ASSUME NEW i \in Ids, UpsertMetrics(i)
      PROVE  RowsExact'
  BY <1>1, <1>3, UpsertKeepsRowsExact
<1>4. CASE UNCHANGED <<hits, rows>>
  BY <1>4 DEF RowsExact, Counted, Stored
<1>5. StoreHit \/ (\E i \in Ids : UpsertMetrics(i)) \/ UNCHANGED <<hits, rows>>
  BY DEF Next, vars, ExpireHit, Tick, FindRawLogs
<1> QED
  BY <1>2, <1>3, <1>4, <1>5

LEMMA InitRowsExact == Init => RowsExact
<1> SUFFICES ASSUME Init PROVE RowsExact
  OBVIOUS
<1>1. DOMAIN hits = {} /\ DOMAIN rows = {}
  BY DEF Init
<1> QED
  BY <1>1 DEF RowsExact, Counted, Stored

(***************************************************************************)
(* What is read from the rows.                                              *)
(***************************************************************************)

LEMMA ImageIsFinite ==
  ASSUME NEW S, IsFiniteSet(S), NEW f
  PROVE  IsFiniteSet({f[x] : x \in S})
<1> DEFINE T == {f[x] : x \in S}
           g == [x \in S |-> f[x]]
<1>1. g \in Surjection(S, T)
  BY DEF Surjection
<1> HIDE DEF g, T
<1>2. IsFiniteSet(T)
  BY <1>1, FS_Surjection
<1> QED
  BY <1>2 DEF T

\* The hits behind the rows ks.
Within(ks) == {i \in Counted : KeyOf(hits[i]) \in ks}

LEMMA HitsAreTyped ==
  ASSUME TInv
  PROVE  /\ IsFiniteSet(Counted) /\ Counted \in SUBSET Stored
         /\ \A i \in Stored : /\ hits[i].latency \in Nat /\ hits[i].error \in BOOLEAN
                              /\ hits[i].endpoint \in Endpoints /\ hits[i].time \in Time
<1>1. \A i \in Stored : hits[i] \in Hit
  BY DEF TInv, TypeOK
<1>2. IsFiniteSet(Counted) /\ Counted \in SUBSET Stored
  BY FS_Subset DEF Counted, TInv
<1> QED
  BY <1>1, <1>2, LatenciesAreNat DEF Hit

\* A column that sums f up over the class of every key sums f up over all classes.
LEMMA ColumnAddsUp ==
  ASSUME NEW f, NEW W, IsFiniteSet(W), \A i \in W : f[i] \in Nat,
         NEW ks, IsFiniteSet(ks), NEW class, \A i \in W : class[i] \in ks,
         NEW column, column = [k \in ks |-> column[k]],
         \A k \in ks : column[k] = SumFunctionOnSet(f, {i \in W : class[i] = k})
  PROVE  SumFunction(column) = SumFunctionOnSet(f, W)
<1>1. column = [k \in ks |-> SumFunctionOnSet(f, {i \in W : class[i] = k})]
  OBVIOUS
<1>2. DOMAIN column = ks
  OBVIOUS
<1>3. SumFunction(column) = SumFunctionOnSet(column, ks)
  BY <1>2 DEF SumFunction
<1>4. SumFunctionOnSet([k \in ks |-> SumFunctionOnSet(f, {i \in W : class[i] = k})], ks)
        = SumFunctionOnSet(f, W)
  BY SumByClass
<1> QED
  BY <1>1, <1>3, <1>4

Ones == [i \in Stored |-> 1]

\* Hits counted, as a sum.
LEMMA HitsAsSums ==
  ASSUME TInv, NEW W \in SUBSET Stored
  PROVE  /\ IsFiniteSet(W)
         /\ Cardinality(W) = SumFunctionOnSet(Ones, W)
<1>1. IsFiniteSet(W)
  BY FS_Subset DEF TInv
<1>2. \A i \in W : Ones[i] = IF i \in W THEN 1 ELSE 0
  BY DEF Ones
<1> QED
  BY <1>1, <1>2, SumCounts

\* The sums over upserts, as sums.
LEMMA UpsertsAsSums ==
  ASSUME TInv, NEW W \in SUBSET Stored
  PROVE  /\ SumFunction([i \in W |-> hits[i].applied]) = SumFunctionOnSet(TimesIn(hits), W)
         /\ SumFunction([i \in W |-> IF hits[i].error THEN hits[i].applied ELSE 0])
              = SumFunctionOnSet(ErrorsIn(hits), W)
         /\ SumFunction([i \in W |-> hits[i].latency * hits[i].applied])
              = SumFunctionOnSet(LatencyIn(hits), W)
<1>1. IsFiniteSet(W)
  BY FS_Subset DEF TInv
<1>2. ASSUME NEW f, DOMAIN f = W, NEW g, \A i \in W : f[i] = g[i]
      PROVE  SumFunction(f) = SumFunctionOnSet(g, W)
  BY <1>1, <1>2, SumAgrees DEF SumFunction
<1>3. SumFunction([i \in W |-> hits[i].applied]) = SumFunctionOnSet(TimesIn(hits), W)
  <2> DEFINE f == [i \in W |-> hits[i].applied]
  <2>1. DOMAIN f = W /\ \A i \in W : f[i] = TimesIn(hits)[i]
    BY DEF TimesIn, Stored
  <2> HIDE DEF f
  <2>2. SumFunction(f) = SumFunctionOnSet(TimesIn(hits), W)
    BY <1>2, <2>1
  <2> QED
    BY <2>2 DEF f
<1>4. SumFunction([i \in W |-> IF hits[i].error THEN hits[i].applied ELSE 0])
        = SumFunctionOnSet(ErrorsIn(hits), W)
  <2> DEFINE f == [i \in W |-> IF hits[i].error THEN hits[i].applied ELSE 0]
  <2>1. DOMAIN f = W /\ \A i \in W : f[i] = ErrorsIn(hits)[i]
    BY DEF ErrorsIn, Stored
  <2> HIDE DEF f
  <2>2. SumFunction(f) = SumFunctionOnSet(ErrorsIn(hits), W)
    BY <1>2, <2>1
  <2> QED
    BY <2>2 DEF f
<1>5. SumFunction([i \in W |-> hits[i].latency * hits[i].applied])
        = SumFunctionOnSet(LatencyIn(hits), W)
  <2> DEFINE f == [i \in W |-> hits[i].latency * hits[i].applied]
  <2>1. DOMAIN f = W /\ \A i \in W : f[i] = LatencyIn(hits)[i]
    BY DEF LatencyIn, Stored
  <2> HIDE DEF f
  <2>2. SumFunction(f) = SumFunctionOnSet(LatencyIn(hits), W)
    BY <1>2, <2>1
  <2> QED
    BY <2>2 DEF f
<1> QED
  BY <1>3, <1>4, <1>5

\* The sum of rows is the sum of the upserts behind them.
LEMMA RowsAddUp ==
  ASSUME TInv, RowsExact, NEW ks \in SUBSET DOMAIN rows
  PROVE  SumOfRows(ks) = SumOfUpserts(Within(ks))
<1> DEFINE W == Within(ks)
           class == [i \in Stored |-> KeyOf(hits[i])]
<1>1. /\ W \in SUBSET Stored /\ IsFiniteSet(W) /\ \A i \in W : class[i] \in ks
  BY HitsAreTyped, FS_Subset DEF Within
<1>2. \A k \in ks : Behind(hits, k) = {i \in W : class[i] = k}
  BY DEF Within, Behind, Counted, Stored
<1>3. \A k \in ks : SumsUp(rows[k], hits, Behind(hits, k))
  BY DEF RowsExact
<1>4. IsFiniteSet(ks)
  <2>1. ks = {class[i] : i \in W}
    BY <1>1 DEF RowsExact, Within, Counted
  <2> HIDE DEF W, class
  <2> QED
    BY <1>1, <2>1, ImageIsFinite
<1>5. ASSUME NEW k \in ks
      PROVE  /\ rows[k].total_hits = SumFunctionOnSet(TimesIn(hits), {i \in W : class[i] = k})
             /\ rows[k].error_hits = SumFunctionOnSet(ErrorsIn(hits), {i \in W : class[i] = k})
             /\ rows[k].total_latency = SumFunctionOnSet(LatencyIn(hits), {i \in W : class[i] = k})
  <2> DEFINE B == Behind(hits, k)
  <2>1. B \in SUBSET Stored /\ B = {i \in W : class[i] = k}
    BY <1>2 DEF Behind, Stored
  <2>2. SumsUp(rows[k], hits, B)
    BY <1>3
  <2> HIDE DEF B, W, class
  <2>3. /\ rows[k].total_hits = SumFunctionOnSet(TimesIn(hits), B)
        /\ rows[k].error_hits = SumFunctionOnSet(ErrorsIn(hits), B)
        /\ rows[k].total_latency = SumFunctionOnSet(LatencyIn(hits), B)
    BY <2>2 DEF SumsUp
  <2> QED
    BY <2>1, <2>3
<1>6. \A i \in W : TimesIn(hits)[i] \in Nat /\ ErrorsIn(hits)[i] \in Nat /\ LatencyIn(hits)[i] \in Nat
  <2>1. \A i \in W : i \in DOMAIN hits /\ hits[i] \in Hit
    BY <1>1 DEF TInv, TypeOK, Stored
  <2> QED
    BY <2>1, SummandsOfHit
<1> HIDE DEF W, class
<1>7. SumFunction([k \in ks |-> rows[k].total_hits]) = SumFunctionOnSet(TimesIn(hits), W)
  <2> DEFINE c == [k \in ks |-> rows[k].total_hits]
  <2>1. c = [k \in ks |-> c[k]] /\ \A k \in ks : c[k] = SumFunctionOnSet(TimesIn(hits), {i \in W : class[i] = k})
    BY <1>5
  <2> HIDE DEF c
  <2>2. SumFunction(c) = SumFunctionOnSet(TimesIn(hits), W)
    BY <1>1, <1>4, <1>6, <2>1, ColumnAddsUp
  <2> QED
    BY <2>2 DEF c
<1>8. SumFunction([k \in ks |-> rows[k].error_hits]) = SumFunctionOnSet(ErrorsIn(hits), W)
  <2> DEFINE c == [k \in ks |-> rows[k].error_hits]
  <2>1. c = [k \in ks |-> c[k]] /\ \A k \in ks : c[k] = SumFunctionOnSet(ErrorsIn(hits), {i \in W : class[i] = k})
    BY <1>5
  <2> HIDE DEF c
  <2>2. SumFunction(c) = SumFunctionOnSet(ErrorsIn(hits), W)
    BY <1>1, <1>4, <1>6, <2>1, ColumnAddsUp
  <2> QED
    BY <2>2 DEF c
<1>9. SumFunction([k \in ks |-> rows[k].total_latency]) = SumFunctionOnSet(LatencyIn(hits), W)
  <2> DEFINE c == [k \in ks |-> rows[k].total_latency]
  <2>1. /\ c = [k \in ks |-> c[k]]
        /\ \A k \in ks : c[k] = SumFunctionOnSet(LatencyIn(hits), {i \in W : class[i] = k})
    BY <1>5
  <2> HIDE DEF c
  <2>2. SumFunction(c) = SumFunctionOnSet(LatencyIn(hits), W)
    BY <1>1, <1>4, <1>6, <2>1, ColumnAddsUp
  <2> QED
    BY <2>2 DEF c
<1>10. SumOfRows(ks) = SumOfUpserts(W)
  BY <1>1, <1>7, <1>8, <1>9, UpsertsAsSums DEF SumOfRows, SumOfUpserts
<1> QED
  BY <1>10 DEF W

\* The hits behind the rows of a time range.
LEMMA CountedInRows ==
  ASSUME TInv, RowsExact, NEW start, NEW end
  PROVE  /\ RowsIn(start, end) \in SUBSET DOMAIN rows
         /\ CountedIn(start, end) \in SUBSET Counted
         /\ \A i \in Counted : i \in CountedIn(start, end) <=> KeyOf(hits[i]) \in RowsIn(start, end)
         /\ \A k \in RowsIn(start, end) : \E i \in CountedIn(start, end) : KeyOf(hits[i]) = k
<1>1. RowsIn(start, end) \in SUBSET DOMAIN rows /\ CountedIn(start, end) \in SUBSET Counted
  BY DEF RowsIn, CountedIn, Counted
<1>2. ASSUME NEW i \in Counted
      PROVE  i \in CountedIn(start, end) <=> KeyOf(hits[i]) \in RowsIn(start, end)
  <2>1. KeyOf(hits[i]) \in DOMAIN rows /\ KeyOf(hits[i])[2] = TimeBucket(hits[i].time)
    BY DEF RowsExact, KeyOf
  <2> QED
    BY <2>1 DEF RowsIn, CountedIn, Counted
<1>3. ASSUME NEW k \in RowsIn(start, end)
      PROVE  \E i \in CountedIn(start, end) : KeyOf(hits[i]) = k
  <2>1. PICK i \in Counted : KeyOf(hits[i]) = k
    BY <1>1 DEF RowsExact
  <2> QED
    BY <1>2, <2>1
<1> QED
  BY <1>1, <1>2, <1>3

\* Some rows of a time range, and the hits behind them.
BehindRows(start, end, ks, hs) ==
    /\ ks \in SUBSET RowsIn(start, end) /\ hs \in SUBSET CountedIn(start, end)
    /\ \A i \in CountedIn(start, end) : i \in hs <=> KeyOf(hits[i]) \in ks

MinsOf(ks) == {rows[k].min_latency : k \in ks}
MaxsOf(ks) == {rows[k].max_latency : k \in ks}
LatenciesOf(hs) == {hits[i].latency : i \in hs}

LEMMA SomeRowsAddUp ==
  ASSUME TInv, RowsExact, NEW start, NEW end, NEW ks, NEW hs, BehindRows(start, end, ks, hs)
  PROVE  SumOfRows(ks) = SumOfUpserts(hs)
<1>1. Within(ks) = hs
  BY CountedInRows DEF Within, BehindRows
<1>2. ks \in SUBSET DOMAIN rows
  BY CountedInRows DEF BehindRows
<1> QED
  BY <1>1, <1>2, RowsAddUp

LEMMA OverviewExact ==
  ASSUME TInv, RowsExact, NEW start, NEW end
  PROVE  Overview(start, end) = SumOfUpserts(CountedIn(start, end))
<1>1. SumOfRows(RowsIn(start, end)) = SumOfUpserts(CountedIn(start, end))
  <2>1. BehindRows(start, end, RowsIn(start, end), CountedIn(start, end))
    BY CountedInRows DEF BehindRows
  <2> QED
    BY <2>1, SomeRowsAddUp
<1> QED
  BY <1>1 DEF Overview

\* The least and the greatest latency of an endpoint are those of its hits.
LEMMA ExtremesExact ==
  ASSUME TInv, RowsExact, NEW start, NEW end, NEW ks, ks # {}, NEW hs, BehindRows(start, end, ks, hs)
  PROVE  Min(MinsOf(ks)) = Min(LatenciesOf(hs)) /\ Max(MaxsOf(ks)) = Max(LatenciesOf(hs))
<1> DEFINE L == LatenciesOf(hs)
<1>0. /\ ks \in SUBSET RowsIn(start, end) /\ hs \in SUBSET CountedIn(start, end)
      /\ \A i \in CountedIn(start, end) : i \in hs <=> KeyOf(hits[i]) \in ks
  BY DEF BehindRows
<1>1. /\ hs \in SUBSET Counted /\ hs \in SUBSET Stored /\ IsFiniteSet(hs)
      /\ \A i \in hs : hits[i].latency \in Nat
  BY <1>0, CountedInRows, HitsAreTyped, FS_Subset
<1>2. \A k \in ks : /\ SumsUp(rows[k], hits, Behind(hits, k))
                    /\ rows[k].min_latency \in Nat /\ rows[k].max_latency \in Nat
  BY <1>0, CountedInRows, LatenciesAreNat DEF RowsExact, TInv, RowsSane, Sane, Row
<1>3. ASSUME NEW k \in ks
      PROVE  /\ \E i \in hs : rows[k].min_latency = hits[i].latency
             /\ \E i \in hs : rows[k].max_latency = hits[i].latency
  <2>1. Behind(hits, k) \in SUBSET hs
    <3> SUFFICES ASSUME NEW i \in Behind(hits, k) PROVE i \in hs
      OBVIOUS
    <3>1. i \in Counted /\ KeyOf(hits[i]) = k
      BY DEF Behind, Counted, Stored
    <3> QED
      BY <1>0, <3>1, CountedInRows
  <2> QED
    BY <1>2, <2>1 DEF SumsUp
<1>4. ASSUME NEW i \in hs
      PROVE  /\ KeyOf(hits[i]) \in ks
             /\ rows[KeyOf(hits[i])].min_latency <= hits[i].latency
             /\ hits[i].latency <= rows[KeyOf(hits[i])].max_latency
  <2>1. KeyOf(hits[i]) \in ks /\ i \in Behind(hits, KeyOf(hits[i]))
    BY <1>0, <1>1 DEF Behind, Counted, Stored
  <2> QED
    BY <1>2, <2>1 DEF SumsUp
<1>5. L \in SUBSET Nat /\ L # {} /\ IsFiniteSet(L)
  <2>1. L \in SUBSET Nat
    BY <1>1 DEF LatenciesOf
  <2>2. L # {}
    <3>1. PICK k \in ks : TRUE
      OBVIOUS
    <3>2. PICK i \in hs : rows[k].min_latency = hits[i].latency
      BY <1>3
    <3>3. hits[i].latency \in L
      BY DEF LatenciesOf
    <3> QED
      BY <3>3
  <2>3. IsFiniteSet(L)
    <3> DEFINE f == [i \in hs |-> hits[i].latency]
    <3>1. L = {f[i] : i \in hs}
      BY DEF LatenciesOf
    <3> HIDE DEF f, L
    <3> QED
      BY <1>1, <3>1, ImageIsFinite
  <2> QED
    BY <2>1, <2>2, <2>3
<1> HIDE DEF L
<1>6. PICK a \in L, z \in L : \A l \in L : a <= l /\ l <= z
  BY <1>5, HasExtremes
<1>7. Min(L) = a /\ Max(L) = z
  BY <1>5, <1>6, MinIs, MaxIs
<1>8. (\A i \in hs : hits[i].latency \in L) /\ a \in Nat /\ z \in Nat
  BY <1>5, <1>6 DEF L, LatenciesOf
<1>9. Min(MinsOf(ks)) = a
  <2> DEFINE M == MinsOf(ks)
  <2>1. M \in SUBSET Nat
    BY <1>2 DEF MinsOf
  <2>2. \A m \in M : a <= m
    BY <1>3, <1>6, <1>8 DEF MinsOf
  <2>3. a \in M
    <3>1. PICK i \in hs : a = hits[i].latency
      BY <1>6 DEF L, LatenciesOf
    <3>2. KeyOf(hits[i]) \in ks /\ rows[KeyOf(hits[i])].min_latency <= a
      BY <1>4, <3>1
    <3> DEFINE m == rows[KeyOf(hits[i])].min_latency
    <3>3. m \in M /\ m \in Nat /\ m <= a
      BY <2>1, <3>2 DEF MinsOf
    <3>4. a <= m
      BY <2>2, <3>3
    <3>5. a = m
      BY <1>8, <3>3, <3>4
    <3> QED
      BY <3>3, <3>5
  <2> HIDE DEF M
  <2>4. Min(M) = a
    BY <2>1, <2>2, <2>3, MinIs
  <2> QED
    BY <2>4 DEF M
<1>10. Max(MaxsOf(ks)) = z
  <2> DEFINE M == MaxsOf(ks)
  <2>1. M \in SUBSET Nat
    BY <1>2 DEF MaxsOf
  <2>2. \A m \in M : m <= z
    BY <1>3, <1>6, <1>8 DEF MaxsOf
  <2>3. z \in M
    <3>1. PICK i \in hs : z = hits[i].latency
      BY <1>6 DEF L, LatenciesOf
    <3>2. KeyOf(hits[i]) \in ks /\ z <= rows[KeyOf(hits[i])].max_latency
      BY <1>4, <3>1
    <3> DEFINE m == rows[KeyOf(hits[i])].max_latency
    <3>3. m \in M /\ m \in Nat /\ z <= m
      BY <2>1, <3>2 DEF MaxsOf
    <3>4. m <= z
      BY <2>2, <3>3
    <3>5. z = m
      BY <1>8, <3>3, <3>4
    <3> QED
      BY <3>3, <3>5
  <2> HIDE DEF M
  <2>4. Max(M) = z
    BY <2>1, <2>2, <2>3, MaxIs
  <2> QED
    BY <2>4 DEF M
<1> QED
  BY <1>7, <1>9, <1>10 DEF L

\* The lists of top endpoints are right.
SummariesRight(start, end) ==
    LET hs == CountedIn(start, end)
        summaries == EndpointSummaries(start, end)
    IN  /\ DOMAIN summaries = {hits[i].endpoint : i \in hs}
        /\ UniqueEndpoints(start, end) = Cardinality(DOMAIN summaries)
        /\ \A e \in DOMAIN summaries :
             LET he == {i \in hs : hits[i].endpoint = e}
             IN  /\ summaries[e].sum = SumOfUpserts(he)
                 /\ summaries[e].min_latency = Min({hits[i].latency : i \in he})
                 /\ summaries[e].max_latency = Max({hits[i].latency : i \in he})

LEMMA SummariesExact ==
  ASSUME TInv, RowsExact, NEW start, NEW end
  PROVE  SummariesRight(start, end)
<1> DEFINE hs == CountedIn(start, end)
           ks == RowsIn(start, end)
           summaries == EndpointSummaries(start, end)
           Of(e) == {k \in ks : k[1] = e}
           He(e) == {i \in hs : hits[i].endpoint = e}
<1>1. DOMAIN summaries = {k[1] : k \in ks}
  BY DEF EndpointSummaries
<1>2. \A i \in hs : KeyOf(hits[i]) \in ks
  BY CountedInRows
<1>3. \A k \in ks : \E i \in hs : KeyOf(hits[i]) = k
  BY CountedInRows
<1>4. \A i \in hs : KeyOf(hits[i])[1] = hits[i].endpoint
  BY DEF KeyOf
<1>5. {k[1] : k \in ks} = {hits[i].endpoint : i \in hs}
  <2> HIDE DEF ks, hs
  <2> QED
    BY <1>2, <1>3, <1>4
<1>6. UniqueEndpoints(start, end) = Cardinality(DOMAIN summaries)
  BY <1>1 DEF UniqueEndpoints
<1>7. ASSUME NEW e \in DOMAIN summaries
      PROVE  /\ summaries[e].sum = SumOfUpserts(He(e))
             /\ summaries[e].min_latency = Min({hits[i].latency : i \in He(e)})
             /\ summaries[e].max_latency = Max({hits[i].latency : i \in He(e)})
  <2>1. /\ summaries[e].sum = SumOfRows(Of(e))
        /\ summaries[e].min_latency = Min(MinsOf(Of(e)))
        /\ summaries[e].max_latency = Max(MaxsOf(Of(e)))
    BY <1>1 DEF EndpointSummaries, MinsOf, MaxsOf
  <2>2. Of(e) # {}
    BY <1>1
  <2>3. BehindRows(start, end, Of(e), He(e))
    BY <1>2, <1>4 DEF BehindRows
  <2> HIDE DEF Of, He, summaries
  <2>4. SumOfRows(Of(e)) = SumOfUpserts(He(e))
    BY <2>3, SomeRowsAddUp
  <2>5. /\ Min(MinsOf(Of(e))) = Min(LatenciesOf(He(e)))
        /\ Max(MaxsOf(Of(e))) = Max(LatenciesOf(He(e)))
    BY <2>2, <2>3, ExtremesExact
  <2> QED
    BY <2>1, <2>4, <2>5 DEF LatenciesOf
<1>8. DOMAIN summaries = {hits[i].endpoint : i \in hs}
  BY <1>1, <1>5
<1> HIDE DEF summaries
<1> QED
  BY <1>6, <1>7, <1>8 DEF summaries, SummariesRight

\* The hour and the day of a time are those of its hour.
LEMMA BucketOfBucket ==
  ASSUME NEW t \in Time, NEW width \in {Hour, Day}
  PROVE  Truncated(TimeBucket(t), width) = Truncated(t, width)
<1>1. t \in Nat /\ Hour \in Nat \ {0}
  BY AnalyticsAssumption DEF Time
<1>2. PICK n \in 1..24 : width = n * Hour
  <2>1. CASE width = Hour
    <3>1. width = 1 * Hour
      BY <1>1, <2>1
    <3> QED
      BY <3>1
  <2>2. CASE width = Day
    BY <2>2, AnalyticsAssumption
  <2> QED
    BY <2>1, <2>2
<1>3. n \in Nat \ {0} /\ width \in Nat \ {0}
  BY <1>1, <1>2
<1>4. Truncated(Truncated(t, Hour), width) = Truncated(t, width)
  BY <1>1, <1>2, <1>3, TruncatedTwice
<1>5. TimeBucket(t) = Truncated(t, Hour)
  BY DEF Truncated, TimeBucket
<1> QED
  BY <1>4, <1>5

LEMMA SeriesExact ==
  ASSUME TInv, RowsExact, NEW start, NEW end, NEW width \in {Hour, Day}
  PROVE  SeriesOfRows(RowsIn(start, end), width) = SeriesOfUpserts(CountedIn(start, end), width)
<1> DEFINE hs == CountedIn(start, end)
           ks == RowsIn(start, end)
           Ks(b) == {k \in ks : Truncated(k[2], width) = b}
           Hs(b) == {i \in hs : Truncated(hits[i].time, width) = b}
<1>1. \A i \in hs : KeyOf(hits[i]) \in ks
  BY CountedInRows
<1>2. \A k \in ks : \E i \in hs : KeyOf(hits[i]) = k
  BY CountedInRows
<1>3. \A i \in hs : Truncated(KeyOf(hits[i])[2], width) = Truncated(hits[i].time, width)
  <2> SUFFICES ASSUME NEW i \in hs
               PROVE  Truncated(KeyOf(hits[i])[2], width) = Truncated(hits[i].time, width)
    OBVIOUS
  <2>1. hits[i].time \in Time
    BY CountedInRows, HitsAreTyped
  <2>2. KeyOf(hits[i])[2] = TimeBucket(hits[i].time)
    BY DEF KeyOf
  <2> QED
    BY <2>1, <2>2, BucketOfBucket
<1>4. {Truncated(k[2], width) : k \in ks} = {Truncated(hits[i].time, width) : i \in hs}
  <2> HIDE DEF ks, hs
  <2> QED
    BY <1>1, <1>2, <1>3
<1>5. ASSUME NEW b
      PROVE  SumOfRows(Ks(b)) = SumOfUpserts(Hs(b))
  <2>1. BehindRows(start, end, Ks(b), Hs(b))
    BY <1>1, <1>3 DEF BehindRows
  <2> HIDE DEF Ks, Hs
  <2> QED
    BY <2>1, SomeRowsAddUp
<1>6. [b \in {Truncated(k[2], width) : k \in ks} |-> SumOfRows(Ks(b))]
        = [b \in {Truncated(hits[i].time, width) : i \in hs} |-> SumOfUpserts(Hs(b))]
  <2> HIDE DEF ks, hs, Ks, Hs
  <2> QED
    BY <1>4, <1>5
<1> QED
  BY <1>6 DEF SeriesOfRows, SeriesOfUpserts

\* Of whole hours, the hits are the ones whose hour begins in them.
LEMMA WholeHours ==
  ASSUME NEW start \in Time, NEW end \in Time, start % Hour = 0, (end + 1) % Hour = 0, NEW t \in Time
  PROVE  (start <= TimeBucket(t) /\ TimeBucket(t) <= end) <=> (start <= t /\ t <= end)
<1>1. start \in Nat /\ end \in Nat /\ t \in Nat /\ Hour \in Nat \ {0} /\ end + 1 \in Nat
  BY AnalyticsAssumption DEF Time
<1> DEFINE H == Hour
           a == start \div H
           c == (end + 1) \div H
           q == t \div H
           r == t % H
<1>2. a \in Nat /\ start = H * a
  <2>1. a \in Nat /\ start = H * a + 0
    BY <1>1, DivMod
  <2> HIDE DEF a
  <2> QED
    BY <1>1, <2>1
<1>3. c \in Nat /\ end + 1 = H * c
  <2>1. c \in Nat /\ end + 1 = H * c + 0
    BY <1>1, DivMod
  <2> HIDE DEF c
  <2> QED
    BY <1>1, <2>1
<1>4. q \in Nat /\ r \in 0..(H - 1) /\ t = H * q + r
  BY <1>1, DivMod
<1>5. TimeBucket(t) = t - r
  BY DEF TimeBucket
<1>6. H \in Nat \ {0}
  BY <1>1
<1> HIDE DEF H, a, c, q, r
<1>7. H * a \in Nat /\ H * c \in Nat /\ H * q \in Nat
  BY <1>2, <1>3, <1>4, <1>6
<1>8. q < a => H * q + H <= H * a
  BY <1>2, <1>4, <1>6, MultipleBelow
<1>9. q < c => H * q + H <= H * c
  BY <1>3, <1>4, <1>6, MultipleBelow
<1>10. c < q => H * c + H <= H * q
  BY <1>3, <1>4, <1>6, MultipleBelow
<1>11. a < q => H * a + H <= H * q
  BY <1>2, <1>4, <1>6, MultipleBelow
<1> DEFINE A == H * a
           C == H * c
           Q == H * q
<1>12. (a = q => A = Q) /\ (c = q => C = Q)
  OBVIOUS
<1>13. A \in Nat /\ C \in Nat /\ Q \in Nat
  BY <1>7
<1> HIDE DEF A, C, Q
<1>14. start = A /\ end + 1 = C /\ t = Q + r /\ TimeBucket(t) = Q
  BY <1>1, <1>2, <1>3, <1>4, <1>5, <1>13 DEF A, C, Q
<1>15. /\ q < a => Q + H <= A
       /\ q < c => Q + H <= C
       /\ c < q => C + H <= Q
       /\ a < q => A + H <= Q
  BY <1>8, <1>9, <1>10, <1>11 DEF A, C, Q
<1> QED
  BY <1>1, <1>2, <1>3, <1>4, <1>6, <1>12, <1>13, <1>14, <1>15

\* The series of all endpoints, bucket by bucket, is the sum of the series of each.
LEMMA DrilldownsAddUp ==
  ASSUME TInv, NEW D \in SUBSET Stored, NEW width, NEW b \in DOMAIN SeriesOfDocs(D, width)
  PROVE  SeriesOfDocs(D, width)[b].total_hits =
           SumFunction([e \in {f \in Endpoints : b \in DOMAIN SeriesOfDocs({i \in D : hits[i].endpoint = f}, width)} |->
                           SeriesOfDocs({i \in D : hits[i].endpoint = e}, width)[b].total_hits])
<1> DEFINE W == {i \in D : Truncated(hits[i].time, width) = b}
           Of(e) == {i \in D : hits[i].endpoint = e}
           class == [i \in Stored |-> hits[i].endpoint]
           es == {f \in Endpoints : b \in DOMAIN SeriesOfDocs(Of(f), width)}
           column == [e \in es |-> SeriesOfDocs(Of(e), width)[b].total_hits]
<1>1. W \in SUBSET Stored /\ IsFiniteSet(W)
  BY HitsAsSums
<1>2. SeriesOfDocs(D, width)[b].total_hits = Cardinality(W)
  BY DEF SeriesOfDocs, SumOfHits
<1>3. Cardinality(W) = SumFunctionOnSet(Ones, W)
  BY <1>1, HitsAsSums
<1>4. es = {class[i] : i \in W}
  <2>1. ASSUME NEW i \in W PROVE class[i] \in es
    <3>1. class[i] = hits[i].endpoint /\ hits[i].endpoint \in Endpoints
      BY <1>1, HitsAreTyped
    <3>2. i \in Of(class[i]) /\ Truncated(hits[i].time, width) = b
      BY <3>1
    <3>3. b \in DOMAIN SeriesOfDocs(Of(class[i]), width)
      <4> HIDE DEF Of, class
      <4> QED
        BY <3>2 DEF SeriesOfDocs
    <3> HIDE DEF class, Of
    <3> QED
      BY <3>1, <3>3
  <2>2. ASSUME NEW e \in es PROVE \E i \in W : class[i] = e
    <3>1. PICK i \in Of(e) : Truncated(hits[i].time, width) = b
      BY DEF SeriesOfDocs
    <3>2. i \in W /\ class[i] = e
      BY <3>1
    <3> QED
      BY <3>2
  <2> HIDE DEF es, W, class
  <2> QED
    BY <2>1, <2>2
<1>5. IsFiniteSet(es) /\ \A i \in W : class[i] \in es
  <2> HIDE DEF es, W, class
  <2> QED
    BY <1>1, <1>4, ImageIsFinite
<1>6. ASSUME NEW e \in es
      PROVE  column[e] = SumFunctionOnSet(Ones, {i \in W : class[i] = e})
  <2> DEFINE V == {i \in W : class[i] = e}
  <2>1. V \in SUBSET Stored
    BY <1>1
  <2>2. {i \in Of(e) : Truncated(hits[i].time, width) = b} = V
    BY <1>1
  <2>3. column[e] = Cardinality({i \in Of(e) : Truncated(hits[i].time, width) = b})
    BY DEF SeriesOfDocs, SumOfHits
  <2>4. Cardinality(V) = SumFunctionOnSet(Ones, V)
    <3> HIDE DEF V
    <3> QED
      BY <2>1, HitsAsSums
  <2> HIDE DEF column, Of
  <2> QED
    BY <2>2, <2>3, <2>4
<1>7. SumFunction(column) = SumFunctionOnSet(Ones, W)
  <2>1. column = [e \in es |-> column[e]]
    OBVIOUS
  <2>2. \A i \in W : Ones[i] \in Nat
    BY <1>1 DEF Ones
  <2> HIDE DEF column, es, W, class
  <2> QED
    BY <1>1, <1>5, <1>6, <2>1, <2>2, ColumnAddsUp
<1>8. SeriesOfDocs(D, width)[b].total_hits = SumFunction(column)
  BY <1>2, <1>3, <1>7
<1> QED
  BY <1>8

LEMMA WidthOfRows ==
  ASSUME NEW start \in Time, NEW end \in Time, Granularity(start, end).source # "mongo-fine"
  PROVE  Granularity(start, end).width \in {Hour, Day}
BY AnalyticsAssumption DEF Granularity, Time

\* Applied once each, the upserts come to what a count of the hits gives.
LEMMA OnceEach ==
  ASSUME TInv, AppliedOnce, NEW W \in SUBSET Stored
  PROVE  SumOfUpserts(W) = SumOfHits(W)
<1> DEFINE E == {i \in W : hits[i].error}
<1>1. IsFiniteSet(W) /\ \A i \in W : hits[i].applied = 1 /\ hits[i].latency \in Nat /\ i \in DOMAIN hits
  BY HitsAreTyped, FS_Subset DEF AppliedOnce, TInv, Stored
<1>2. /\ \A i \in W : TimesIn(hits)[i] = IF i \in W THEN 1 ELSE 0
      /\ \A i \in W : ErrorsIn(hits)[i] = IF i \in E THEN 1 ELSE 0
  BY <1>1 DEF TimesIn, ErrorsIn
<1>3. SumFunctionOnSet(TimesIn(hits), W) = Cardinality(W)
  BY <1>1, <1>2, SumCounts
<1>4. SumFunctionOnSet(ErrorsIn(hits), W) = Cardinality(E)
  <2>1. E \in SUBSET W
    OBVIOUS
  <2> HIDE DEF E
  <2> QED
    BY <1>1, <1>2, <2>1, SumCounts
<1>5. [i \in W |-> hits[i].latency * hits[i].applied] = [i \in W |-> hits[i].latency]
  <2>1. \A i \in W : hits[i].latency * hits[i].applied = hits[i].latency
    BY <1>1
  <2> QED
    BY <2>1
<1>6. /\ SumFunction([i \in W |-> hits[i].applied]) = Cardinality(W)
      /\ SumFunction([i \in W |-> IF hits[i].error THEN hits[i].applied ELSE 0]) = Cardinality(E)
  BY <1>3, <1>4, UpsertsAsSums
<1> QED
  BY <1>5, <1>6 DEF SumOfUpserts, SumOfHits

LEMMA OnceEachSeries ==
  ASSUME TInv, AppliedOnce, NEW D \in SUBSET Stored, NEW width
  PROVE  SeriesOfUpserts(D, width) = SeriesOfDocs(D, width)
<1>1. ASSUME NEW b
      PROVE  SumOfUpserts({i \in D : Truncated(hits[i].time, width) = b})
               = SumOfHits({i \in D : Truncated(hits[i].time, width) = b})
  <2> DEFINE W == {i \in D : Truncated(hits[i].time, width) = b}
  <2>1. W \in SUBSET Stored
    OBVIOUS
  <2>2. SumOfUpserts(W) = SumOfHits(W)
    <3> HIDE DEF W
    <3> QED
      BY <2>1, OnceEach
  <2> QED
    BY <2>2
<1> QED
  BY <1>1 DEF SeriesOfUpserts, SeriesOfDocs

LEMMA RowsExactRead ==
  ASSUME TInv, RowsExact
  PROVE  StatsFollowUpserts
<1> SUFFICES ASSUME NEW start \in Time, NEW end \in Time, start <= end
             PROVE  LET hs == CountedIn(start, end)
                        g == Granularity(start, end)
                        series == TimeSeries(start, end)
                        summaries == EndpointSummaries(start, end)
                    IN  /\ Overview(start, end) = SumOfUpserts(hs)
                        /\ DOMAIN summaries = {hits[i].endpoint : i \in hs}
                        /\ UniqueEndpoints(start, end) = Cardinality(DOMAIN summaries)
                        /\ \A e \in DOMAIN summaries :
                             LET he == {i \in hs : hits[i].endpoint = e}
                             IN  /\ summaries[e].sum = SumOfUpserts(he)
                                 /\ summaries[e].min_latency = Min({hits[i].latency : i \in he})
                                 /\ summaries[e].max_latency = Max({hits[i].latency : i \in he})
                        /\ g.source # "mongo-fine" => series = SeriesOfUpserts(hs, g.width)
                        /\ (start % Hour = 0 /\ (end + 1) % Hour = 0 /\ raw = Stored /\ AppliedOnce) =>
                             \A b \in DOMAIN series :
                                series[b].total_hits =
                                    SumFunction([e \in {f \in Endpoints : b \in DOMAIN Drilldown(f, start, end)} |->
                                                    Drilldown(e, start, end)[b].total_hits])
  BY DEF StatsFollowUpserts
<1> DEFINE hs == CountedIn(start, end)
           g == Granularity(start, end)
           series == TimeSeries(start, end)
           D == DocsIn(start, end)
<1>1. Overview(start, end) = SumOfUpserts(hs)
  BY OverviewExact
<1>2. g.source # "mongo-fine" => series = SeriesOfUpserts(hs, g.width)
  <2> SUFFICES ASSUME g.source # "mongo-fine" PROVE series = SeriesOfUpserts(hs, g.width)
    OBVIOUS
  <2>1. series = SeriesOfRows(RowsIn(start, end), g.width)
    BY DEF TimeSeries
  <2>2. g.width \in {Hour, Day}
    BY WidthOfRows
  <2> QED
    BY <2>1, <2>2, SeriesExact
<1>3. ASSUME start % Hour = 0, (end + 1) % Hour = 0, raw = Stored, AppliedOnce,
             NEW b \in DOMAIN series
      PROVE  series[b].total_hits =
               SumFunction([e \in {f \in Endpoints : b \in DOMAIN Drilldown(f, start, end)} |->
                               Drilldown(e, start, end)[b].total_hits])
  <2>1. hs = D
    <3>1. ASSUME NEW i \in Stored
          PROVE  (start <= TimeBucket(hits[i].time) /\ TimeBucket(hits[i].time) <= end)
                   <=> (start <= hits[i].time /\ hits[i].time <= end)
      BY <1>3, HitsAreTyped, WholeHours
    <3> QED
      BY <1>3, <3>1 DEF CountedIn, DocsIn, AppliedOnce
  <2>2. D \in SUBSET Stored
    BY <1>3 DEF DocsIn
  <2>3. series = SeriesOfDocs(D, g.width)
    <3>1. CASE g.source = "mongo-fine"
      BY <3>1 DEF TimeSeries
    <3>2. CASE g.source # "mongo-fine"
      <4>1. SeriesOfUpserts(D, g.width) = SeriesOfDocs(D, g.width)
        BY <1>3, <2>2, OnceEachSeries
      <4> QED
        BY <1>2, <2>1, <3>2, <4>1
    <3> QED
      BY <3>1, <3>2
  <2>4. b \in DOMAIN SeriesOfDocs(D, g.width)
    BY <1>3, <2>3
  <2>5. \A e : Drilldown(e, start, end) = SeriesOfDocs({i \in D : hits[i].endpoint = e}, g.width)
    BY DEF Drilldown
  <2>6. SeriesOfDocs(D, g.width)[b].total_hits =
           SumFunction([e \in {f \in Endpoints : b \in DOMAIN SeriesOfDocs({i \in D : hits[i].endpoint = f}, g.width)} |->
                           SeriesOfDocs({i \in D : hits[i].endpoint = e}, g.width)[b].total_hits])
    <3> HIDE DEF D, g
    <3> QED
      BY <2>2, <2>4, DrilldownsAddUp
  <2>7. series[b].total_hits = SeriesOfDocs(D, g.width)[b].total_hits
    BY <2>3
  <2> QED
    BY <2>6, <2>7 DEF Drilldown
<1>4. SummariesRight(start, end)
  BY SummariesExact
<1> QED
  BY <1>1, <1>2, <1>3, <1>4 DEF SummariesRight

\* Whatever hits arrive, in whatever order and however late, and however often their
\* upserts are applied: the overview, the top endpoints and an hourly or daily series are
\* what the single upserts come to, and while nothing has expired and every upsert was
\* applied once, the drill-downs add up to the series.
THEOREM AnalyticsStatsFollowUpserts == Spec => []StatsFollowUpserts
<1>1. Init => TInv /\ RowsExact
  BY InitTInv, InitRowsExact
<1>2. TInv /\ RowsExact /\ [Next]_vars => TInv' /\ RowsExact'
  BY NextTInv, NextRowsExact
<1>3. TInv /\ RowsExact => StatsFollowUpserts
  BY RowsExactRead
<1> QED
  BY <1>1, <1>2, <1>3, PTL DEF Spec
===============================================================================
