-------------------------------- MODULE Sums --------------------------------
(***************************************************************************)
(* Facts about the sums of the community modules: what an element more, or *)
(* a change of one, makes of a sum over a finite set.                      *)
(*                                                                         *)
(* A sum is a fold, and a fold is a recursive function that CHOOSE picks.  *)
(* What is to be shown of it takes an induction, which goes over sets here *)
(* and not over formulas: a set of subsets that is not empty has a smallest*)
(* one, which is where the statement cannot fail first.                    *)
(*                                                                         *)
(* And of quotients, for times that are divided into equal parts.          *)
(***************************************************************************)
EXTENDS Functions, FiniteSets, FiniteSetsExt, FiniteSetTheorems, WellFoundedInduction, TLAPS

\* The element that a fold takes out of a set first.
Pick(s) == CHOOSE x \in s : TRUE

\* f adds up what h gives the elements of the subsets of S.
Adds(f, h, S) ==
  f = [s \in SUBSET S |-> IF s = {} THEN 0 ELSE h[Pick(s)] + f[s \ {Pick(s)}]]

\* ... step by step.
AddsUp(f, h, S) ==
  /\ f[{}] = 0
  /\ \A s \in SUBSET S : s # {} => f[s] = h[Pick(s)] + f[s \ {Pick(s)}]

\* The account of y has n more.
Raised(g, f, y, n) == g = [f EXCEPT ![y] = @ + n]

-----------------------------------------------------------------------------
(* Induction.                                                              *)

\* Of some numbers one is the least.
LEMMA NatLeast ==
  ASSUME NEW T, T \subseteq Nat, T # {}
  PROVE  \E n \in T : \A m \in T : n <= m
<1>1. IsWellFoundedOn(OpToRel(<, Nat), Nat)
  BY NatLessThanWellFounded
<1>2. PICK n \in T : \A m \in T : ~(<<m, n>> \in OpToRel(<, Nat))
  BY <1>1, WFMin
<1>3. \A m \in T : <<m, n>> \in OpToRel(<, Nat) <=> m < n
  BY DEF OpToRel
<1>4. \A m \in T : ~(m < n)
  BY <1>2, <1>3
<1>. QED BY <1>4

\* A set that has 0, and with a number the next, has them all.
LEMMA NatAll ==
  ASSUME NEW T, 0 \in T, \A n \in Nat : n \in T => n + 1 \in T
  PROVE  Nat \subseteq T
<1>. SUFFICES ASSUME Nat \ T # {} PROVE FALSE
  OBVIOUS
<1>1. PICK n \in Nat \ T : \A m \in Nat \ T : n <= m
  BY NatLeast
<1>2. n # 0
  OBVIOUS
<1>3. n - 1 \in Nat /\ n - 1 < n
  BY <1>2
<1>4. n - 1 \in T
  BY <1>1, <1>3
<1>5. (n - 1) + 1 \in T
  BY <1>3, <1>4
<1>. QED BY <1>5

\* Of some subsets of a finite set one is the smallest: none is a part of it.
LEMMA SubsetLeast ==
  ASSUME NEW S, IsFiniteSet(S), NEW T, T \subseteq SUBSET S, T # {}
  PROVE  \E s \in T : \A t \in T : t \subseteq s => t = s
<1>. DEFINE sizes == {Cardinality(s) : s \in T}
<1>1. \A s \in T : IsFiniteSet(s) /\ Cardinality(s) \in Nat
  BY FS_Subset, FS_CardinalityType
<1>2. sizes \subseteq Nat /\ sizes # {}
  BY <1>1
<1>3. PICK n \in sizes : \A m \in sizes : n <= m
  BY <1>2, NatLeast
<1>4. PICK s \in T : n = Cardinality(s)
  OBVIOUS
<1>5. ASSUME NEW t \in T, t \subseteq s PROVE t = s
  <2>1. IsFiniteSet(s) /\ Cardinality(s) <= Cardinality(t)
    BY <1>1, <1>3, <1>4
  <2>2. Cardinality(t) <= Cardinality(s) /\ (Cardinality(s) = Cardinality(t) => s = t)
    BY <1>5, <2>1, FS_Subset
  <2>3. Cardinality(s) \in Nat /\ Cardinality(t) \in Nat
    BY <1>1
  <2>. QED BY <2>1, <2>2, <2>3
<1>. QED BY <1>5

-----------------------------------------------------------------------------
(* The function that adds up.                                              *)

\* What is picked out of a set is in it, and leaves less.
LEMMA PickIn ==
  ASSUME NEW s, s # {}
  PROVE  Pick(s) \in s /\ s \ {Pick(s)} \subseteq s /\ s \ {Pick(s)} # s
BY DEF Pick

\* One that adds up does so step by step.
LEMMA AddsMeans ==
  ASSUME NEW sum, NEW w, NEW U, Adds(sum, w, U)
  PROVE  AddsUp(sum, w, U)
<1>. DEFINE G(s) == IF s = {} THEN 0 ELSE w[Pick(s)] + sum[s \ {Pick(s)}]
<1>1. sum = [s \in SUBSET U |-> G(s)]
  BY DEF Adds
<1>2. DOMAIN sum = SUBSET U /\ \A s \in SUBSET U : sum[s] = G(s)
  <2>. HIDE DEF G
  <2>. QED BY <1>1, Zenon
<1>. QED BY <1>2 DEF AddsUp

\* Its sums are numbers.
LEMMA AddsNat ==
  ASSUME NEW S, IsFiniteSet(S), NEW h, \A x \in S : h[x] \in Nat, NEW f, Adds(f, h, S)
  PROVE  \A s \in SUBSET S : f[s] \in Nat
<1>a. /\ f[{}] = 0
      /\ \A s \in SUBSET S : s # {} => f[s] = h[Pick(s)] + f[s \ {Pick(s)}]
  <2>1. AddsUp(f, h, S)
    BY AddsMeans, Zenon
  <2>. QED BY <2>1 DEF AddsUp
<1>. DEFINE T == {s \in SUBSET S : f[s] \notin Nat}
<1>. SUFFICES ASSUME T # {} PROVE FALSE
  OBVIOUS
<1>0. T \subseteq SUBSET S
  OBVIOUS
<1>1. PICK s \in T : \A t \in T : t \subseteq s => t = s
  <2>. HIDE DEF T
  <2>. QED BY <1>0, SubsetLeast
<1>2. s \in SUBSET S /\ s # {}
  <2>1. 0 \in Nat
    OBVIOUS
  <2>. QED BY <1>0, <1>a, <2>1, Zenon
<1>3. f[s] = h[Pick(s)] + f[s \ {Pick(s)}]
  BY <1>2, <1>a
<1>4. Pick(s) \in S /\ s \ {Pick(s)} \in SUBSET S /\ s \ {Pick(s)} \notin T
  BY <1>1, <1>2, PickIn
<1>. QED BY <1>3, <1>4

\* Two that add up the same agree, on the sets they both know.
LEMMA AddsUnique ==
  ASSUME NEW S, IsFiniteSet(S), NEW R, NEW h, NEW k, \A x \in S : h[x] = k[x],
         NEW f, Adds(f, h, S), NEW g, Adds(g, k, R), S \subseteq R
  PROVE  \A s \in SUBSET S : f[s] = g[s]
<1>a. /\ f[{}] = 0
      /\ \A s \in SUBSET S : s # {} => f[s] = h[Pick(s)] + f[s \ {Pick(s)}]
  <2>1. AddsUp(f, h, S)
    BY AddsMeans, Zenon
  <2>. QED BY <2>1 DEF AddsUp
<1>b. /\ g[{}] = 0
      /\ \A s \in SUBSET R : s # {} => g[s] = k[Pick(s)] + g[s \ {Pick(s)}]
  <2>1. AddsUp(g, k, R)
    BY AddsMeans, Zenon
  <2>. QED BY <2>1 DEF AddsUp
<1>. DEFINE T == {s \in SUBSET S : f[s] # g[s]}
<1>. SUFFICES ASSUME T # {} PROVE FALSE
  OBVIOUS
<1>0. T \subseteq SUBSET S
  OBVIOUS
<1>1. PICK s \in T : \A t \in T : t \subseteq s => t = s
  <2>. HIDE DEF T
  <2>. QED BY <1>0, SubsetLeast
<1>2. s \in SUBSET S /\ s # {}
  BY <1>a, <1>b
<1>3. f[s] = h[Pick(s)] + f[s \ {Pick(s)}] /\ g[s] = k[Pick(s)] + g[s \ {Pick(s)}]
  BY <1>2, <1>a, <1>b
<1>4. Pick(s) \in S /\ s \ {Pick(s)} \in SUBSET S /\ s \ {Pick(s)} \notin T
  BY <1>1, <1>2, PickIn
<1>5. h[Pick(s)] = k[Pick(s)] /\ f[s \ {Pick(s)}] = g[s \ {Pick(s)}]
  BY <1>4
<1>. QED BY <1>3, <1>5

\* There is one: as far as a size it can be made, and then for the next.
LEMMA AddsExists ==
  ASSUME NEW S, IsFiniteSet(S), NEW h
  PROVE  \E f : Adds(f, h, S)
<1>. DEFINE Upto(n) == {s \in SUBSET S : Cardinality(s) <= n}
            Made(f, n) == f = [s \in Upto(n) |->
                                 IF s = {} THEN 0 ELSE h[Pick(s)] + f[s \ {Pick(s)}]]
            T == {n \in Nat : \E f : Made(f, n)}
<1>a. \A s \in SUBSET S : IsFiniteSet(s)
  BY FS_Subset
<1>b. \A s \in SUBSET S : Cardinality(s) \in Nat /\ (Cardinality(s) = 0 <=> s = {})
  BY <1>a, FS_CardinalityType, FS_EmptySet
<1>1. \A s \in SUBSET S : s # {} => Cardinality(s \ {Pick(s)}) = Cardinality(s) - 1
  BY <1>a, FS_RemoveElement, PickIn
<1>2. 0 \in T
  <2>. DEFINE f == [s \in Upto(0) |-> 0]
  <2>1. \A s \in Upto(0) : s = {}
    <3>1. \A s \in SUBSET S : Cardinality(s) <= 0 => Cardinality(s) = 0
      BY <1>b
    <3>. QED BY <1>b, <3>1
  <2>2. f = [s \in Upto(0) |-> IF s = {} THEN 0 ELSE h[Pick(s)] + f[s \ {Pick(s)}]]
    BY <2>1
  <2>. QED BY <2>2
<1>3. ASSUME NEW n \in Nat, n \in T PROVE n + 1 \in T
  <2>1. PICK f : Made(f, n)
    BY <1>3
  <2>. DEFINE g == [s \in Upto(n + 1) |->
                      IF s = {} THEN 0 ELSE h[Pick(s)] + f[s \ {Pick(s)}]]
  <2>2. \A s \in Upto(n) : f[s] = IF s = {} THEN 0 ELSE h[Pick(s)] + f[s \ {Pick(s)}]
    BY <2>1
  <2>3. \A s \in Upto(n) : s \in Upto(n + 1) /\ g[s] = f[s]
    <3>1. \A s \in SUBSET S : Cardinality(s) <= n => Cardinality(s) <= n + 1
      BY <1>b
    <3>. QED BY <2>2, <3>1
  <2>4. \A s \in Upto(n + 1) : s # {} => s \ {Pick(s)} \in Upto(n)
    BY <1>b, <1>1
  <2>5. ASSUME NEW s \in Upto(n + 1)
        PROVE  g[s] = IF s = {} THEN 0 ELSE h[Pick(s)] + g[s \ {Pick(s)}]
    BY <2>3, <2>4
  <2>6. g = [s \in Upto(n + 1) |-> IF s = {} THEN 0 ELSE h[Pick(s)] + g[s \ {Pick(s)}]]
    <3>. DEFINE G(s) == IF s = {} THEN 0 ELSE h[Pick(s)] + g[s \ {Pick(s)}]
    <3>1. \A s \in Upto(n + 1) : g[s] = G(s)
      BY <2>5
    <3>2. g = [s \in Upto(n + 1) |-> g[s]]
      OBVIOUS
    <3>. HIDE DEF g, G, Upto
    <3>3. g = [s \in Upto(n + 1) |-> G(s)]
      BY <3>1, <3>2
    <3>. QED BY <3>3 DEF G
  <2>7. Made(g, n + 1)
    BY <2>6
  <2>. HIDE DEF Made, g
  <2>. QED BY <2>7
<1>4. Nat \subseteq T
  <2>. HIDE DEF T
  <2>. QED BY <1>2, <1>3, NatAll
<1>5. Cardinality(S) \in Nat /\ \A s \in SUBSET S : Cardinality(s) <= Cardinality(S)
  BY FS_CardinalityType, FS_Subset
<1>6. PICK f : Made(f, Cardinality(S))
  BY <1>4, <1>5
<1>7. Upto(Cardinality(S)) = SUBSET S
  BY <1>5
<1>. QED BY <1>6, <1>7 DEF Adds

-----------------------------------------------------------------------------
(* Sums.                                                                   *)

\* A sum over a set is the last of the sums of a function that adds up.
LEMMA SumMeans ==
  ASSUME NEW h, NEW S
  PROVE  SumFunctionOnSet(h, S) = (CHOOSE g : Adds(g, h, S))[S]
BY DEF SumFunctionOnSet, FoldFunctionOnSet, MapThenFoldSet, Adds, Pick

\* ... whichever function that is, and whatever else it adds up.
LEMMA SumIs ==
  ASSUME NEW R, IsFiniteSet(R), NEW S, S \subseteq R, NEW h, NEW k, \A x \in S : h[x] = k[x],
         NEW g, Adds(g, k, R)
  PROVE  SumFunctionOnSet(h, S) = g[S]
<1>. DEFINE f == CHOOSE e : Adds(e, h, S)
<1>1. IsFiniteSet(S)
  BY FS_Subset
<1>2. \E e : Adds(e, h, S)
  BY <1>1, AddsExists
<1>3. Adds(f, h, S)
  BY <1>2
<1>4. SumFunctionOnSet(h, S) = f[S]
  BY SumMeans
<1>. HIDE DEF f
<1>5. \A s \in SUBSET S : f[s] = g[s]
  BY <1>1, <1>3, AddsUnique
<1>. QED BY <1>4, <1>5

\* A function that adds up adds what any element has.
LEMMA AddsAny ==
  ASSUME NEW R, IsFiniteSet(R), NEW h, \A x \in R : h[x] \in Nat, NEW g, Adds(g, h, R)
  PROVE  \A s \in SUBSET R : \A y \in s : g[s] = h[y] + g[s \ {y}]
<1>a. /\ g[{}] = 0
      /\ \A s \in SUBSET R : s # {} => g[s] = h[Pick(s)] + g[s \ {Pick(s)}]
  <2>1. AddsUp(g, h, R)
    BY AddsMeans, Zenon
  <2>. QED BY <2>1 DEF AddsUp
<1>b. \A s \in SUBSET R : g[s] \in Nat
  BY AddsNat
<1>. DEFINE T == {s \in SUBSET R : \E y \in s : g[s] # h[y] + g[s \ {y}]}
<1>. SUFFICES ASSUME T # {} PROVE FALSE
  OBVIOUS
<1>0. T \subseteq SUBSET R
  OBVIOUS
<1>1. PICK s \in T : \A t \in T : t \subseteq s => t = s
  <2>. HIDE DEF T
  <2>. QED BY <1>0, SubsetLeast
<1>2. PICK y \in s : g[s] # h[y] + g[s \ {y}]
  OBVIOUS
<1>. DEFINE z == Pick(s)
<1>3. s \in SUBSET R /\ z \in s /\ g[s] = h[z] + g[s \ {z}]
  BY <1>0, <1>2, <1>a, PickIn
<1>4. y # z
  BY <1>2, <1>3
<1>5. s \ {z} \in SUBSET R /\ s \ {z} \notin T /\ s \ {y} \in SUBSET R /\ s \ {y} \notin T
  <2>. HIDE DEF z, T
  <2>. QED BY <1>0, <1>1, <1>2, <1>3
<1>. HIDE DEF z
<1>6. g[s \ {z}] = h[y] + g[(s \ {z}) \ {y}]
  BY <1>2, <1>4, <1>5
<1>7. g[s \ {y}] = h[z] + g[(s \ {y}) \ {z}]
  BY <1>3, <1>4, <1>5
<1>8. (s \ {z}) \ {y} = (s \ {y}) \ {z}
  OBVIOUS
<1>. DEFINE rest == (s \ {y}) \ {z}
<1>9. h[y] \in Nat /\ h[z] \in Nat /\ rest \in SUBSET R
  BY <1>2, <1>3
<1>10. g[rest] \in Nat
  BY <1>9, <1>b
<1>11. g[s] = h[z] + (h[y] + g[rest]) /\ g[s \ {y}] = h[z] + g[rest]
  BY <1>3, <1>6, <1>7, <1>8
<1>. HIDE DEF rest
<1>12. g[s] = h[y] + g[s \ {y}]
  BY <1>9, <1>10, <1>11
<1>. QED BY <1>2, <1>12

\* The sum of nothing is zero, and a sum of numbers is a number.
LEMMA SumEmpty ==
  ASSUME NEW h
  PROVE  SumFunctionOnSet(h, {}) = 0
<1>1. IsFiniteSet({})
  BY FS_EmptySet
<1>2. PICK g : Adds(g, h, {})
  BY <1>1, AddsExists
<1>3. g[{}] = 0
  <2>1. AddsUp(g, h, {})
    BY <1>2, AddsMeans, Zenon
  <2>. QED BY <2>1 DEF AddsUp
<1>4. SumFunctionOnSet(h, {}) = g[{}]
  BY <1>1, <1>2, SumIs
<1>. QED BY <1>3, <1>4

\* The sum of numbers over a finite set.
LEMMA SumNat ==
  ASSUME NEW S, IsFiniteSet(S), NEW h, \A x \in S : h[x] \in Nat
  PROVE  SumFunctionOnSet(h, S) \in Nat
<1>1. PICK g : Adds(g, h, S)
  BY AddsExists
<1>2. SumFunctionOnSet(h, S) = g[S]
  BY <1>1, SumIs
<1>. QED BY <1>1, <1>2, AddsNat

\* What an element adds to a sum.
LEMMA SumRemove ==
  ASSUME NEW S, IsFiniteSet(S), NEW h, \A x \in S : h[x] \in Nat, NEW y \in S
  PROVE  SumFunctionOnSet(h, S) = h[y] + SumFunctionOnSet(h, S \ {y})
<1>1. PICK g : Adds(g, h, S)
  BY AddsExists
<1>2. SumFunctionOnSet(h, S) = g[S] /\ SumFunctionOnSet(h, S \ {y}) = g[S \ {y}]
  BY <1>1, SumIs
<1>. QED BY <1>1, <1>2, AddsAny

\* What counts is what the elements have.
LEMMA SumSame ==
  ASSUME NEW S, IsFiniteSet(S), NEW h, NEW k, \A x \in S : h[x] = k[x]
  PROVE  SumFunctionOnSet(h, S) = SumFunctionOnSet(k, S)
<1>1. PICK g : Adds(g, k, S)
  BY AddsExists
<1>. QED BY <1>1, SumIs

\* If one element has another number the sum differs by as much.
LEMMA SumUpdate ==
  ASSUME NEW S, IsFiniteSet(S), NEW h, NEW k, NEW y \in S,
         \A x \in S : h[x] \in Nat /\ k[x] \in Nat, \A x \in S \ {y} : h[x] = k[x]
  PROVE  k[y] + SumFunctionOnSet(h, S) = h[y] + SumFunctionOnSet(k, S)
<1>1. IsFiniteSet(S \ {y})
  BY FS_Subset
<1>. DEFINE a == SumFunctionOnSet(h, S \ {y})
            b == SumFunctionOnSet(k, S \ {y})
<1>2. a = b /\ a \in Nat
  BY <1>1, SumSame, SumNat
<1>3. /\ SumFunctionOnSet(h, S) = h[y] + a
      /\ SumFunctionOnSet(k, S) = k[y] + b
  BY SumRemove
<1>. HIDE DEF a, b
<1>. QED BY <1>2, <1>3

\* Elements that have nothing do not count.
LEMMA SumPart ==
  ASSUME NEW R, IsFiniteSet(R), NEW S, S \subseteq R, NEW h, \A x \in R : h[x] \in Nat,
         \A x \in R \ S : h[x] = 0
  PROVE  SumFunctionOnSet(h, R) = SumFunctionOnSet(h, S)
<1>. DEFINE Sum(s) == SumFunctionOnSet(h, s \cap S)
            g == [s \in SUBSET R |-> Sum(s)]
<1>1. ASSUME NEW s \in SUBSET R, NEW y \in s PROVE Sum(s) = h[y] + Sum(s \ {y})
  <2>1. CASE y \in S
    <3>1. y \in s \cap S /\ (s \ {y}) \cap S = (s \cap S) \ {y}
      BY <2>1
    <3>2. IsFiniteSet(s \cap S) /\ \A x \in s \cap S : h[x] \in Nat
      BY FS_Subset
    <3>. QED BY <3>1, <3>2, SumRemove
  <2>2. CASE y \notin S
    <3>1. (s \ {y}) \cap S = s \cap S /\ h[y] = 0 /\ IsFiniteSet(s \cap S)
      BY <2>2, FS_Subset
    <3>2. Sum(s) \in Nat
      BY <3>1, SumNat
    <3>3. Sum(s \ {y}) = Sum(s)
      BY <3>1
    <3>. HIDE DEF Sum
    <3>. QED BY <3>1, <3>2, <3>3
  <2>. QED BY <2>1, <2>2
<1>2. Sum({}) = 0
  <2>1. {} \cap S = {}
    OBVIOUS
  <2>. QED BY <2>1, SumEmpty
<1>3. Adds(g, h, R)
  <2>. HIDE DEF Sum
  <2>1. ASSUME NEW s \in SUBSET R
        PROVE  g[s] = IF s = {} THEN 0 ELSE h[Pick(s)] + g[s \ {Pick(s)}]
    BY <1>1, <1>2, PickIn
  <2>2. g = [s \in SUBSET R |-> IF s = {} THEN 0 ELSE h[Pick(s)] + g[s \ {Pick(s)}]]
    BY <2>1
  <2>. HIDE DEF g
  <2>. QED BY <2>2 DEF Adds
<1>4. SumFunctionOnSet(h, R) = Sum(R)
  <2>1. g[R] = Sum(R)
    OBVIOUS
  <2>. HIDE DEF g, Sum
  <2>. QED BY <1>3, <2>1, SumIs
<1>5. R \cap S = S
  OBVIOUS
<1>. QED BY <1>4, <1>5

\* What is not more for any element is not more in all.
LEMMA SumMore ==
  ASSUME NEW S, IsFiniteSet(S), NEW h, NEW k,
         \A x \in S : h[x] \in Nat /\ k[x] \in Nat /\ h[x] <= k[x]
  PROVE  SumFunctionOnSet(h, S) <= SumFunctionOnSet(k, S)
<1>1. PICK f : Adds(f, h, S)
  BY AddsExists
<1>2. PICK g : Adds(g, k, S)
  BY AddsExists
<1>3. SumFunctionOnSet(h, S) = f[S] /\ SumFunctionOnSet(k, S) = g[S]
  BY <1>1, <1>2, SumIs
<1>4. \A s \in SUBSET S : f[s] \in Nat /\ g[s] \in Nat
  BY <1>1, <1>2, AddsNat
<1>5. AddsUp(f, h, S) /\ AddsUp(g, k, S)
  BY <1>1, <1>2, AddsMeans
<1>. DEFINE T == {s \in SUBSET S : ~(f[s] <= g[s])}
<1>6. T = {}
  <2>. SUFFICES ASSUME T # {} PROVE FALSE
    OBVIOUS
  <2>0. T \subseteq SUBSET S
    OBVIOUS
  <2>1. PICK s \in T : \A t \in T : t \subseteq s => t = s
    <3>. HIDE DEF T
    <3>. QED BY <2>0, SubsetLeast
  <2>2. s \in SUBSET S /\ s # {}
    <3>1. f[{}] = 0 /\ g[{}] = 0
      BY <1>5 DEF AddsUp
    <3>2. s = {} => f[s] <= g[s]
      BY <3>1
    <3>. QED BY <2>0, <3>2
  <2>. DEFINE y == Pick(s)
  <2>3. y \in s /\ y \in S /\ s \ {y} \in SUBSET S /\ s \ {y} \notin T
    BY <2>1, <2>2, PickIn
  <2>4. f[s \ {y}] <= g[s \ {y}]
    BY <2>3
  <2>5. f[s] = h[y] + f[s \ {y}] /\ g[s] = k[y] + g[s \ {y}]
    BY <1>5, <2>2 DEF AddsUp
  <2>6. h[y] \in Nat /\ k[y] \in Nat /\ h[y] <= k[y] /\ f[s \ {y}] \in Nat /\ g[s \ {y}] \in Nat
    BY <1>4, <2>3
  <2>7. f[s] <= g[s]
    BY <2>4, <2>5, <2>6
  <2>. QED BY <2>7
<1>7. S \in SUBSET S /\ S \notin T
  BY <1>6
<1>. QED BY <1>3, <1>4, <1>7

\* A part is not more than the whole.
LEMMA SumOfPart ==
  ASSUME NEW R, IsFiniteSet(R), NEW S, S \subseteq R, NEW h, \A x \in R : h[x] \in Nat
  PROVE  SumFunctionOnSet(h, S) <= SumFunctionOnSet(h, R)
<1>. DEFINE k == [x \in R |-> IF x \in S THEN h[x] ELSE 0]
<1>1. \A x \in R : k[x] \in Nat /\ k[x] <= h[x] /\ (x \in S => k[x] = h[x]) /\ (x \notin S => k[x] = 0)
  OBVIOUS
<1>. HIDE DEF k
<1>2. SumFunctionOnSet(k, R) <= SumFunctionOnSet(h, R)
  BY <1>1, SumMore
<1>3. SumFunctionOnSet(k, R) = SumFunctionOnSet(k, S)
  BY <1>1, SumPart
<1>4. SumFunctionOnSet(k, S) = SumFunctionOnSet(h, S)
  <2>1. IsFiniteSet(S)
    BY FS_Subset
  <2>. QED BY <1>1, <2>1, SumSame
<1>. QED BY <1>2, <1>3, <1>4

\* An account that has some more.
LEMMA CountsUp ==
  ASSUME NEW S, NEW f \in [S -> Nat], NEW y, NEW n \in Nat,
         NEW g, Raised(g, f, y, n)
  PROVE  /\ g \in [S -> Nat]
         /\ \A x \in S : g[x] = IF x = y THEN f[x] + n ELSE f[x]
<1>1. g = [x \in S |-> IF x = y THEN f[x] + n ELSE f[x]]
  BY DEF Raised
<1>2. \A x \in S : (IF x = y THEN f[x] + n ELSE f[x]) \in Nat
  OBVIOUS
<1>. QED BY <1>1, <1>2

\* A sum of nothing but zeros.
LEMMA SumZero ==
  ASSUME NEW S, IsFiniteSet(S), NEW h, \A x \in S : h[x] = 0
  PROVE  SumFunctionOnSet(h, S) = 0
<1>. DEFINE g == [s \in SUBSET S |-> 0]
<1>1. Adds(g, h, S)
  <2>1. \A s \in SUBSET S : g[s] = IF s = {} THEN 0 ELSE h[Pick(s)] + g[s \ {Pick(s)}]
    BY PickIn
  <2>2. g = [s \in SUBSET S |-> IF s = {} THEN 0 ELSE h[Pick(s)] + g[s \ {Pick(s)}]]
    BY <2>1
  <2>. HIDE DEF g
  <2>. QED BY <2>2 DEF Adds
<1>2. SumFunctionOnSet(h, S) = g[S]
  BY <1>1, SumIs
<1>. QED BY <1>2

-----------------------------------------------------------------------------
(* Quotients.                                                              *)

\* Integer division.
LEMMA Quotient ==
  ASSUME NEW w \in Nat \ {0}, NEW t \in Nat
  PROVE  /\ t \div w \in Nat
         /\ w * (t \div w) <= t /\ t < w * (t \div w) + w
  OBVIOUS

\* It is the only one with this property.
LEMMA QuotientUnique ==
  ASSUME NEW w \in Nat \ {0}, NEW q \in Nat, NEW r \in Nat,
         w * q < w * r + w
  PROVE  q <= r
<1> SUFFICES ASSUME q >= r + 1 PROVE FALSE
  OBVIOUS
<1>1. w * q >= w * (r + 1)
  OBVIOUS
<1>2. w * (r + 1) = w * r + w
  OBVIOUS
<1> QED
  BY <1>1, <1>2

\* A later instant is in no earlier part of time.
LEMMA QuotientMonotone ==
  ASSUME NEW w \in Nat \ {0}, NEW s \in Nat, NEW t \in Nat, s <= t
  PROVE  s \div w <= t \div w
<1>1. /\ s \div w \in Nat /\ w * (s \div w) <= s
      /\ t \div w \in Nat /\ t < w * (t \div w) + w
  BY Quotient
<1>2. \A m, n \in Nat : m * n \in Nat /\ m * n + m \in Nat
  OBVIOUS
<1>3. w * (s \div w) \in Nat /\ w * (t \div w) + w \in Nat
  BY <1>1, <1>2
<1>4. \A x, y \in Nat : x <= s /\ t < y => x < y
  OBVIOUS
<1>5. w * (s \div w) < w * (t \div w) + w
  BY <1>1, <1>3, <1>4
<1>. QED BY <1>1, <1>5, QuotientUnique

\* The remainder is what is left.
LEMMA Remainder ==
  ASSUME NEW w \in Nat \ {0}, NEW t \in Nat
  PROVE  t % w \in 0..(w - 1) /\ t = w * (t \div w) + (t % w)
<1>1. t % w \in Int
  OBVIOUS
<1>2. t % w >= 0
  OBVIOUS
<1>3. t % w < w
  OBVIOUS
<1>4. t = w * (t \div w) + (t % w)
  OBVIOUS
<1>. QED BY <1>1, <1>2, <1>3, <1>4

=============================================================================
