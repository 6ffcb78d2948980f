---------------------------- MODULE NumberFacts ----------------------------
(***************************************************************************)
(* Facts about numbers that the proofs of several modules need: least and  *)
(* greatest elements of sets of naturals, and sums over finite sets (the   *)
(* library's SumFunction). Least elements stand in for induction: a fact   *)
(* that fails somewhere has a smallest place where it fails.               *)
(***************************************************************************)
EXTENDS Integers, FiniteSets, Functions, FiniteSetTheorems, TLAPS, WellFoundedInduction

\* Every nonempty set of naturals has a least element.
LEMMA LeastNatural ==
    ASSUME NEW T, T \subseteq Nat, T # {}
    PROVE  \E n \in T : \A k \in T : n <= k
<1>1. \E x \in T : \A y \in T : ~ (<<y, x>> \in OpToRel(<, Nat))
  BY NatLessThanWellFounded, WFMin
<1>2. OpToRel(<, Nat) = {p \in Nat \X Nat : p[1] < p[2]}
  BY Zenon DEF OpToRel
<1>3. PICK x \in T : \A y \in T : ~ (<<y, x>> \in {p \in Nat \X Nat : p[1] < p[2]})
  BY <1>1, <1>2, Zenon
<1>4. ASSUME NEW y \in T PROVE x <= y
  <2>1. x \in Nat /\ y \in Nat
    OBVIOUS
  <2>2. /\ <<y, x>> \in Nat \X Nat
        /\ <<y, x>>[1] = y /\ <<y, x>>[2] = x
    BY <2>1
  <2>3. ~ (y < x)
    BY <1>3, <2>2, Zenon
  <2> QED BY <2>1, <2>3
<1> QED BY <1>4

\* Every nonempty set of naturals with an upper bound has a greatest element:
\* the least of its upper bounds.
LEMMA GreatestNatural ==
    ASSUME NEW T, T \subseteq Nat, T # {}, NEW b \in Nat, \A k \in T : k <= b
    PROVE  \E n \in T : \A k \in T : k <= n
<1> DEFINE Bounds == {m \in Nat : \A k \in T : k <= m}
<1>1. PICK m \in Bounds : \A j \in Bounds : m <= j
  <2>1. b \in Bounds
    OBVIOUS
  <2>2. Bounds \subseteq Nat /\ Bounds # {}
    BY <2>1
  <2> HIDE DEF Bounds
  <2> QED BY <2>2, LeastNatural
<1>2. m \in Nat /\ \A k \in T : k <= m
  BY <1>1
<1>3. m \in T
  <2> SUFFICES ASSUME m \notin T PROVE FALSE
    OBVIOUS
  <2>1. \A k \in T : k <= m - 1
    BY <1>2
  <2>2. PICK k \in T : TRUE
    OBVIOUS
  <2>3. m - 1 \in Nat
    BY <1>2, <2>1, <2>2
  <2>4. m - 1 \in Bounds
    BY <2>1, <2>3
  <2> QED BY <1>1, <1>2, <2>4
<1> QED BY <1>2, <1>3

-----------------------------------------------------------------------------
(* Sums over finite sets *)

\* Of a nonempty set of subsets of a finite set one has the fewest members.
LEMMA SmallestSubset ==
    ASSUME NEW S, IsFiniteSet(S), NEW Bad, Bad \subseteq SUBSET S, Bad # {}
    PROVE  \E t \in Bad : /\ IsFiniteSet(t)
                          /\ \A u \in Bad : Cardinality(t) <= Cardinality(u)
<1> DEFINE Sizes == {Cardinality(t) : t \in Bad}
<1>1. \A t \in Bad : IsFiniteSet(t) /\ Cardinality(t) \in Nat
  BY FS_Subset, FS_CardinalityType
<1>2. Sizes \subseteq Nat /\ Sizes # {}
  BY <1>1
<1>3. PICK n \in Sizes : \A k \in Sizes : n <= k
  <2> HIDE DEF Sizes
  <2> QED BY <1>2, LeastNatural
<1> QED BY <1>1, <1>3

\* Taking a member away leaves a smaller set.
LEMMA OneLess ==
    ASSUME NEW t, IsFiniteSet(t), NEW x \in t
    PROVE  ~(Cardinality(t) <= Cardinality(t \ {x}))
<1>1. /\ Cardinality(t \ {x}) = Cardinality(t) - 1 /\ Cardinality(t) \in Nat
  BY FS_RemoveElement, FS_CardinalityType
<1> QED BY <1>1

\* g is the recursive function inside the sum of f over the members of S.
Member(s) == CHOOSE x \in s : TRUE
IsSum(g, f, S) ==
    g = [s \in SUBSET S |-> IF s = {} THEN 0 ELSE f[Member(s)] + g[s \ {Member(s)}]]

\* The library computes a sum by that function.
LEMMA SumIs ==
    ASSUME NEW f, NEW S
    PROVE  SumFunctionOnSet(f, S) = (CHOOSE g : IsSum(g, f, S))[S]
BY DEF SumFunctionOnSet, FoldFunctionOnSet, MapThenFoldSet, IsSum, Member

\* There is such a function: if not, there is a least size of sets that no
\* function sums up to, but one that sums up to the size before extends to it.
LEMMA SumExists ==
    ASSUME NEW S, IsFiniteSet(S), NEW f
    PROVE  \E g : IsSum(g, f, S)
<1> DEFINE Upto(n) == {s \in SUBSET S : Cardinality(s) <= n}
           Good(n) == \E g : g = [s \in Upto(n) |-> IF s = {} THEN 0 ELSE f[Member(s)] + g[s \ {Member(s)}]]
           Bad == {n \in Nat : ~Good(n)}
<1>0. \A s \in SUBSET S : IsFiniteSet(s) /\ Cardinality(s) \in Nat /\ (Cardinality(s) = 0 <=> s = {})
  BY FS_Subset, FS_CardinalityType, FS_EmptySet
<1>1. \A s \in SUBSET S : s # {} => /\ Member(s) \in s
                                    /\ s \ {Member(s)} \in SUBSET S
                                    /\ Cardinality(s \ {Member(s)}) = Cardinality(s) - 1
  BY <1>0, FS_RemoveElement DEF Member
<1>2. SUFFICES Bad = {}
  <2>1. Good(Cardinality(S))
    BY <1>0, <1>2
  <2>2. Upto(Cardinality(S)) = SUBSET S
    BY <1>0, FS_Subset
  <2> QED BY <2>1, <2>2 DEF IsSum
<1>3. SUFFICES ASSUME Bad # {} PROVE FALSE
  OBVIOUS
<1>4. PICK n \in Bad : \A k \in Bad : n <= k
  <2> HIDE DEF Bad
  <2>1. Bad \subseteq Nat
    BY DEF Bad
  <2> QED BY <1>3, <2>1, LeastNatural
<1>5. Good(0)
  <2>1. \A s \in Upto(0) : s = {}
    BY <1>0
  <2> WITNESS [s \in Upto(0) |-> 0]
  <2> QED BY <2>1
<1>6. n \in Nat /\ n # 0 /\ n - 1 \in Nat /\ Good(n - 1)
  <2> HIDE DEF Good
  <2>1. n \in Nat /\ n # 0
    BY <1>4, <1>5
  <2>2. n - 1 \in Nat /\ ~(n <= n - 1)
    BY <2>1
  <2> QED BY <1>4, <2>1, <2>2
<1>7. PICK g : g = [s \in Upto(n - 1) |-> IF s = {} THEN 0 ELSE f[Member(s)] + g[s \ {Member(s)}]]
  BY <1>6
<1> DEFINE h == [s \in Upto(n) |-> IF Cardinality(s) <= n - 1 THEN g[s]
                                   ELSE f[Member(s)] + g[s \ {Member(s)}]]
<1>8. \A s \in Upto(n) : h[s] = IF s = {} THEN 0 ELSE f[Member(s)] + h[s \ {Member(s)}]
  <2> SUFFICES ASSUME NEW s \in Upto(n)
               PROVE  h[s] = IF s = {} THEN 0 ELSE f[Member(s)] + h[s \ {Member(s)}]
    OBVIOUS
  <2>1. CASE s = {}
    <3>1. Cardinality(s) <= n - 1 /\ s \in Upto(n - 1)
      BY <1>0, <1>6, <2>1
    <3>2. g[s] = 0
      BY <1>7, <2>1, <3>1
    <3> QED BY <2>1, <3>1, <3>2
  <2>2. CASE s # {}
    <3> DEFINE t == s \ {Member(s)}
    <3>1. t \in Upto(n) /\ Cardinality(t) <= n - 1 /\ t \in SUBSET S
      BY <1>0, <1>1, <1>6, <2>2
    <3>2. h[t] = g[t]
      BY <3>1
    <3>3. h[s] = f[Member(s)] + g[t]
      <4>1. CASE Cardinality(s) <= n - 1
        <5>1. s \in Upto(n - 1)
          BY <4>1
        <5>2. g[s] = f[Member(s)] + g[t]
          BY <1>7, <2>2, <5>1
        <5> QED BY <4>1, <5>2
      <4>2. CASE ~(Cardinality(s) <= n - 1)
        BY <4>2
      <4> QED BY <4>1, <4>2
    <3> QED BY <2>2, <3>2, <3>3
  <2> QED BY <2>1, <2>2
<1>9. h = [s \in Upto(n) |-> IF s = {} THEN 0 ELSE f[Member(s)] + h[s \ {Member(s)}]]
  BY <1>8
<1> QED BY <1>4, <1>9

\* One unfolding of it.
LEMMA SumUnfolds ==
    ASSUME NEW f, NEW S, NEW g, IsSum(g, f, S), NEW s, s \subseteq S, s # {}
    PROVE  Member(s) \in s /\ s \ {Member(s)} \subseteq S /\ g[s] = f[Member(s)] + g[s \ {Member(s)}]
BY DEF IsSum, Member

\* Sums of integers are integers.
LEMMA SumTypes ==
    ASSUME NEW S, IsFiniteSet(S), NEW f \in [S -> Int], NEW g, IsSum(g, f, S)
    PROVE  \A s \in SUBSET S : g[s] \in Int
<1> DEFINE Bad == {s \in SUBSET S : g[s] \notin Int}
<1>1. SUFFICES ASSUME Bad # {} PROVE FALSE
  OBVIOUS
<1>2. PICK s \in Bad : IsFiniteSet(s) /\ \A u \in Bad : Cardinality(s) <= Cardinality(u)
  <2>1. Bad \subseteq SUBSET S
    OBVIOUS
  <2> HIDE DEF Bad
  <2> QED BY <1>1, <2>1, SmallestSubset
<1>3. s # {}
  BY <1>2 DEF IsSum
<1>4. /\ Member(s) \in s /\ s \ {Member(s)} \in SUBSET S /\ f[Member(s)] \in Int
      /\ g[s] = f[Member(s)] + g[s \ {Member(s)}]
  BY <1>3, SumUnfolds
<1>5. s \ {Member(s)} \notin Bad
  BY <1>2, <1>4, OneLess
<1> QED BY <1>2, <1>4, <1>5

\* Two functions that agree on a set have the same sums over its subsets.
LEMMA SumAgrees ==
    ASSUME NEW S, IsFiniteSet(S), NEW f, NEW g, IsSum(g, f, S),
           NEW R, R \subseteq S, NEW e, NEW h, IsSum(h, e, R), \A x \in R : e[x] = f[x]
    PROVE  \A s \in SUBSET R : h[s] = g[s]
<1> DEFINE Bad == {s \in SUBSET R : h[s] # g[s]}
<1>1. SUFFICES ASSUME Bad # {} PROVE FALSE
  OBVIOUS
<1>2. PICK s \in Bad : IsFiniteSet(s) /\ \A u \in Bad : Cardinality(s) <= Cardinality(u)
  <2>1. Bad \subseteq SUBSET S
    OBVIOUS
  <2> HIDE DEF Bad
  <2> QED BY <1>1, <2>1, SmallestSubset
<1>3. s # {}
  BY <1>2 DEF IsSum
<1>4. /\ Member(s) \in s /\ s \ {Member(s)} \in SUBSET R
      /\ g[s] = f[Member(s)] + g[s \ {Member(s)}]
      /\ h[s] = e[Member(s)] + h[s \ {Member(s)}]
  BY <1>3, SumUnfolds
<1>5. s \ {Member(s)} \notin Bad
  BY <1>2, <1>4, OneLess
<1> QED BY <1>2, <1>4, <1>5

\* Any member may be taken first, not only the one CHOOSE takes.
LEMMA SumTakes ==
    ASSUME NEW S, IsFiniteSet(S), NEW f \in [S -> Int], NEW g, IsSum(g, f, S)
    PROVE  \A s \in SUBSET S, x \in S : x \in s => g[s] = f[x] + g[s \ {x}]
<1> DEFINE Bad == {s \in SUBSET S : \E x \in s : g[s] # f[x] + g[s \ {x}]}
<1>1. SUFFICES ASSUME Bad # {} PROVE FALSE
  OBVIOUS
<1>2. PICK s \in Bad : IsFiniteSet(s) /\ \A u \in Bad : Cardinality(s) <= Cardinality(u)
  <2>1. Bad \subseteq SUBSET S
    OBVIOUS
  <2> HIDE DEF Bad
  <2> QED BY <1>1, <2>1, SmallestSubset
<1>3. PICK x \in s : g[s] # f[x] + g[s \ {x}]
  BY <1>2
<1> DEFINE y == Member(s)
<1>4. y \in s /\ s \ {y} \in SUBSET S /\ g[s] = f[y] + g[s \ {y}]
  <2>1. s \subseteq S /\ s # {}
    BY <1>2, <1>3
  <2> QED BY <2>1, SumUnfolds
<1>5. x # y
  BY <1>3, <1>4
<1>6. s \ {x} \notin Bad /\ s \ {y} \notin Bad
  BY <1>2, <1>3, <1>4, OneLess
<1> HIDE DEF y
<1>7. g[s \ {y}] = f[x] + g[(s \ {y}) \ {x}]
  BY <1>3, <1>4, <1>5, <1>6
<1>8. g[s \ {x}] = f[y] + g[(s \ {x}) \ {y}]
  BY <1>3, <1>4, <1>5, <1>6
<1>9. (s \ {y}) \ {x} = (s \ {x}) \ {y}
  OBVIOUS
<1>10. f[x] \in Int /\ f[y] \in Int /\ g[(s \ {y}) \ {x}] \in Int
  BY <1>3, <1>4, SumTypes
<1> DEFINE rest == g[(s \ {y}) \ {x}]
<1>11. /\ rest \in Int /\ f[x] \in Int /\ f[y] \in Int
       /\ g[s] = f[y] + (f[x] + rest) /\ g[s \ {x}] = f[y] + rest
  BY <1>4, <1>7, <1>8, <1>9, <1>10
<1> HIDE DEF rest
<1>12. g[s] = f[x] + g[s \ {x}]
  BY <1>11
<1> QED BY <1>3, <1>12

-----------------------------------------------------------------------------
(* What the other modules use *)

\* A function whose values are integers, with finitely many arguments.
Summable(f) == /\ IsFiniteSet(DOMAIN f) /\ f \in [DOMAIN f -> Int]

\* A sum of integers is an integer.
LEMMA SumType ==
    ASSUME NEW f, Summable(f)
    PROVE  SumFunction(f) \in Int
<1> DEFINE S == DOMAIN f
           g == CHOOSE g : IsSum(g, f, S)
<1>1. IsSum(g, f, S)
  BY SumExists DEF Summable
<1>2. g[S] \in Int
  <2> HIDE DEF g
  <2> QED BY <1>1, SumTypes DEF Summable
<1> QED BY <1>2, SumIs DEF SumFunction

\* A sum is any one of its terms and the sum of the others.
LEMMA SumSplits ==
    ASSUME NEW f, Summable(f), NEW x \in DOMAIN f
    PROVE  SumFunction(f) = f[x] + SumFunction([y \in DOMAIN f \ {x} |-> f[y]])
<1> DEFINE S == DOMAIN f
           R == S \ {x}
           e == [y \in R |-> f[y]]
           g == CHOOSE g : IsSum(g, f, S)
           h == CHOOSE h : IsSum(h, e, R)
<1>0. IsFiniteSet(S) /\ f \in [S -> Int] /\ IsFiniteSet(R) /\ R \subseteq S /\ DOMAIN e = R
  BY FS_Subset DEF Summable
<1>1. IsSum(g, f, S) /\ IsSum(h, e, R)
  <2> HIDE DEF e, R, S
  <2> QED BY <1>0, SumExists
<1>2. \A y \in R : e[y] = f[y]
  OBVIOUS
<1>3. SumFunction(f) = g[S] /\ SumFunction(e) = h[R]
  BY <1>0, SumIs DEF SumFunction
<1> HIDE DEF g, h, e
<1>4. h[R] = g[R]
  <2> HIDE DEF R, S
  <2>1. \A s \in SUBSET R : h[s] = g[s]
    BY <1>0, <1>1, <1>2, SumAgrees
  <2> QED BY <2>1
<1>5. g[S] = f[x] + g[R]
  BY <1>0, <1>1, SumTakes
<1> QED BY <1>3, <1>4, <1>5 DEF e

\* Larger terms, larger sum.
LEMMA SumGrows ==
    ASSUME NEW S, IsFiniteSet(S), NEW f \in [S -> Int], NEW e \in [S -> Int], \A x \in S : f[x] <= e[x]
    PROVE  SumFunction(f) <= SumFunction(e)
<1> DEFINE g == CHOOSE g : IsSum(g, f, S)
           h == CHOOSE h : IsSum(h, e, S)
<1>1. IsSum(g, f, S) /\ IsSum(h, e, S)
  BY SumExists
<1>2. SumFunction(f) = g[S] /\ SumFunction(e) = h[S]
  BY SumIs DEF SumFunction
<1> HIDE DEF g, h
<1> DEFINE Bad == {s \in SUBSET S : ~(g[s] <= h[s])}
<1>3. SUFFICES ASSUME Bad # {} PROVE FALSE
  BY <1>2
<1>4. PICK s \in Bad : IsFiniteSet(s) /\ \A u \in Bad : Cardinality(s) <= Cardinality(u)
  <2>1. Bad \subseteq SUBSET S
    OBVIOUS
  <2> HIDE DEF Bad
  <2> QED BY <1>3, <2>1, SmallestSubset
<1>5. s # {}
  BY <1>1, <1>4 DEF IsSum
<1> DEFINE x == Member(s)
<1>6. x \in s /\ s \ {x} \in SUBSET S /\ g[s] = f[x] + g[s \ {x}] /\ h[s] = e[x] + h[s \ {x}]
  BY <1>1, <1>5, SumUnfolds
<1> HIDE DEF x
<1>7. s \ {x} \notin Bad
  BY <1>4, <1>6, OneLess
<1>8. f[x] \in Int /\ e[x] \in Int /\ f[x] <= e[x] /\ g[s \ {x}] \in Int /\ h[s \ {x}] \in Int
  BY <1>1, <1>6, SumTypes
<1>9. g[s \ {x}] <= h[s \ {x}]
  BY <1>6, <1>7
<1>10. g[s] <= h[s]
  BY <1>6, <1>8, <1>9
<1> QED BY <1>4, <1>10

\* A sum of zeros.
LEMMA SumOfZeros ==
    ASSUME NEW S, IsFiniteSet(S), NEW f, f = [x \in S |-> 0]
    PROVE  SumFunction(f) = 0
<1> DEFINE g == CHOOSE g : IsSum(g, f, S)
<1>1. IsSum(g, f, S)
  BY SumExists
<1>2. SumFunction(f) = g[S]
  BY SumIs DEF SumFunction
<1> HIDE DEF g
<1> DEFINE Bad == {s \in SUBSET S : g[s] # 0}
<1>3. SUFFICES ASSUME Bad # {} PROVE FALSE
  BY <1>2
<1>4. PICK s \in Bad : IsFiniteSet(s) /\ \A u \in Bad : Cardinality(s) <= Cardinality(u)
  <2>1. Bad \subseteq SUBSET S
    OBVIOUS
  <2> HIDE DEF Bad
  <2> QED BY <1>3, <2>1, SmallestSubset
<1>5. s # {}
  BY <1>1, <1>4 DEF IsSum
<1> DEFINE x == Member(s)
<1>6. x \in s /\ s \ {x} \in SUBSET S /\ g[s] = f[x] + g[s \ {x}]
  BY <1>1, <1>5, SumUnfolds
<1> HIDE DEF x
<1>7. s \ {x} \notin Bad
  BY <1>4, <1>6, OneLess
<1> QED BY <1>4, <1>6, <1>7

\* A sum of terms none of which is negative is at least as large as each.
LEMMA SumBounds ==
    ASSUME NEW S, IsFiniteSet(S), NEW f \in [S -> Int], \A x \in S : f[x] >= 0
    PROVE  SumFunction(f) >= 0 /\ \A x \in S : f[x] <= SumFunction(f)
<1>1. ASSUME NEW R, IsFiniteSet(R), NEW e \in [R -> Int], \A x \in R : e[x] >= 0
      PROVE  SumFunction(e) >= 0
  <2> DEFINE zeros == [x \in R |-> 0]
  <2>1. SumFunction(zeros) = 0
    BY <1>1, SumOfZeros
  <2>2. zeros \in [R -> Int] /\ \A x \in R : zeros[x] <= e[x]
    BY <1>1
  <2> HIDE DEF zeros
  <2>3. SumFunction(zeros) <= SumFunction(e)
    BY <1>1, <2>2, SumGrows
  <2>4. SumFunction(e) \in Int
    BY <1>1, SumType DEF Summable
  <2> QED BY <2>1, <2>3, <2>4
<1>2. ASSUME NEW x \in S PROVE f[x] <= SumFunction(f)
  <2> DEFINE R == S \ {x}
             e == [y \in R |-> f[y]]
  <2>1. IsFiniteSet(R) /\ e \in [R -> Int] /\ \A y \in R : e[y] >= 0
    BY FS_Subset
  <2>2. SumFunction(f) = f[x] + SumFunction(e)
    BY SumSplits DEF Summable
  <2> HIDE DEF e, R
  <2>3. SumFunction(e) >= 0 /\ SumFunction(e) \in Int /\ f[x] \in Int
    BY <1>1, <2>1, SumType DEF Summable
  <2> QED BY <2>2, <2>3
<1> QED BY <1>1, <1>2

-----------------------------------------------------------------------------
(* Sums whose terms change, and least elements of finite sets of integers *)

\* Functions that agree on a set have the same sum over it.
LEMMA SumSame ==
    ASSUME NEW f, NEW g, DOMAIN f = DOMAIN g, Summable(f), Summable(g), \A x \in DOMAIN f : f[x] = g[x]
    PROVE  SumFunction(f) = SumFunction(g)
<1>1. f = g
  BY DEF Summable
<1> QED BY <1>1

\* The others, under a name of their own.
LEMMA SumWithout ==
    ASSUME NEW f, Summable(f), NEW x \in DOMAIN f,
           NEW e, Summable(e), DOMAIN e = DOMAIN f \ {x}, \A y \in DOMAIN e : e[y] = f[y]
    PROVE  SumFunction(f) = f[x] + SumFunction(e)
<1>1. e = [y \in DOMAIN f \ {x} |-> f[y]]
  BY DEF Summable
<1> QED BY <1>1, SumSplits

\* When one term changes, the sum changes by as much.
LEMMA SumChanges ==
    ASSUME NEW f, Summable(f), NEW g, Summable(g), DOMAIN g = DOMAIN f, NEW x \in DOMAIN f,
           \A y \in DOMAIN f \ {x} : g[y] = f[y]
    PROVE  SumFunction(g) = SumFunction(f) + (g[x] - f[x])
<1> DEFINE e == [y \in DOMAIN f \ {x} |-> f[y]]
<1>1. e = [y \in DOMAIN g \ {x} |-> g[y]]
  OBVIOUS
<1>2. SumFunction(f) = f[x] + SumFunction(e)
  BY SumSplits
<1>3. SumFunction(g) = g[x] + SumFunction(e)
  BY SumSplits, <1>1
<1>4. Summable(e)
  BY FS_Subset DEF Summable
<1> HIDE DEF e
<1>5. SumFunction(e) \in Int /\ f[x] \in Int /\ g[x] \in Int
  BY <1>4, SumType DEF Summable
<1> QED BY <1>2, <1>3, <1>5

\* Terms of zero may be left out of a sum.
LEMMA SumFilters ==
    ASSUME NEW f, Summable(f), NEW R, R \subseteq DOMAIN f, \A x \in DOMAIN f \ R : f[x] = 0
    PROVE  SumFunction([x \in R |-> f[x]]) = SumFunction(f)
<1> DEFINE S == DOMAIN f
           part(u) == [x \in u |-> f[x]]
           Bad == {u \in SUBSET S : R \subseteq u /\ SumFunction(part(u)) # SumFunction(part(R))}
<1>0. IsFiniteSet(S) /\ part(S) = f
  BY DEF Summable
<1>1. SUFFICES ASSUME Bad # {} PROVE FALSE
  <2>1. S \notin Bad
    BY <1>1
  <2> QED BY <1>0, <2>1
<1>2. PICK u \in Bad : IsFiniteSet(u) /\ \A v \in Bad : Cardinality(u) <= Cardinality(v)
  <2>1. Bad \subseteq SUBSET S
    OBVIOUS
  <2> HIDE DEF Bad
  <2> QED BY <1>0, <1>1, <2>1, SmallestSubset
<1>3. PICK x \in u : x \notin R
  BY <1>2
<1>4. u \ {x} \notin Bad
  BY <1>2, <1>3, OneLess
<1>5. SumFunction(part(u \ {x})) = SumFunction(part(R))
  BY <1>2, <1>3, <1>4
<1>6. Summable(part(u)) /\ Summable(part(u \ {x})) /\ DOMAIN part(u) = u
  BY <1>0, <1>2, FS_Subset DEF Summable
<1>7. part(u)[x] = 0 /\ part(u \ {x}) = [y \in DOMAIN part(u) \ {x} |-> part(u)[y]]
  BY <1>2, <1>3
<1> HIDE DEF part
<1>8. SumFunction(part(u)) = 0 + SumFunction(part(u \ {x}))
  BY <1>3, <1>6, <1>7, SumSplits
<1>9. SumFunction(part(u \ {x})) \in Int
  BY <1>6, SumType
<1>10. SumFunction(part(u)) = SumFunction(part(R))
  BY <1>5, <1>8, <1>9
<1> QED BY <1>2, <1>10

\* A sum does not depend on what its terms are called.
LEMMA SumRenames ==
    ASSUME NEW f, Summable(f), NEW T, IsFiniteSet(T), NEW b \in [T -> DOMAIN f],
           \A x, y \in T : b[x] = b[y] => x = y, \A z \in DOMAIN f : \E x \in T : b[x] = z
    PROVE  SumFunction([x \in T |-> f[b[x]]]) = SumFunction(f)
<1> DEFINE S == DOMAIN f
           image(u) == {b[x] : x \in u}
           left(u) == [x \in u |-> f[b[x]]]
           right(u) == [z \in image(u) |-> f[z]]
           Bad == {u \in SUBSET T : SumFunction(left(u)) # SumFunction(right(u))}
<1>0. IsFiniteSet(S) /\ image(T) = S /\ right(T) = f
  BY DEF Summable
<1>1. SUFFICES ASSUME Bad # {} PROVE FALSE
  <2>1. T \notin Bad
    BY <1>1
  <2> QED BY <1>0, <2>1
<1>2. PICK u \in Bad : IsFiniteSet(u) /\ \A v \in Bad : Cardinality(u) <= Cardinality(v)
  <2>1. Bad \subseteq SUBSET T
    OBVIOUS
  <2> HIDE DEF Bad
  <2> QED BY <1>1, <2>1, SmallestSubset
<1>3. u # {}
  <2> SUFFICES ASSUME u = {} PROVE FALSE
    OBVIOUS
  <2>1. left(u) = [x \in {} |-> 0] /\ right(u) = [x \in {} |-> 0]
    OBVIOUS
  <2> QED BY <1>2, <2>1
<1>4. PICK x \in u : TRUE
  BY <1>3
<1>5. u \ {x} \notin Bad
  BY <1>2, <1>4, OneLess
<1>6. SumFunction(left(u \ {x})) = SumFunction(right(u \ {x}))
  BY <1>2, <1>4, <1>5
<1>7. image(u \ {x}) = image(u) \ {b[x]} /\ image(u) \subseteq S
  BY <1>2, <1>4
<1>8. Summable(left(u)) /\ Summable(right(u)) /\ DOMAIN left(u) = u /\ DOMAIN right(u) = image(u)
  BY <1>0, <1>2, <1>7, FS_Subset DEF Summable
<1>9. /\ left(u)[x] = f[b[x]] /\ right(u)[b[x]] = f[b[x]] /\ b[x] \in image(u)
      /\ Summable(left(u \ {x})) /\ DOMAIN left(u \ {x}) = u \ {x}
      /\ Summable(right(u \ {x})) /\ DOMAIN right(u \ {x}) = image(u) \ {b[x]}
      /\ \A y \in u \ {x} : left(u \ {x})[y] = left(u)[y]
      /\ \A z \in image(u) \ {b[x]} : right(u \ {x})[z] = right(u)[z]
  BY <1>0, <1>2, <1>4, <1>7, FS_Subset DEF Summable
<1> HIDE DEF left, right
<1> DEFINE l == left(u)
           lx == left(u \ {x})
           r == right(u)
           rx == right(u \ {x})
<1>10. SumFunction(l) = f[b[x]] + SumFunction(lx)
  <2>1. Summable(l) /\ x \in DOMAIN l /\ Summable(lx) /\ DOMAIN lx = DOMAIN l \ {x}
        /\ (\A y \in DOMAIN lx : lx[y] = l[y]) /\ l[x] = f[b[x]]
    BY <1>4, <1>8, <1>9
  <2> HIDE DEF l, lx
  <2> QED BY <2>1, SumWithout
<1>11. SumFunction(r) = f[b[x]] + SumFunction(rx)
  <2>1. Summable(r) /\ b[x] \in DOMAIN r /\ Summable(rx) /\ DOMAIN rx = DOMAIN r \ {b[x]}
        /\ (\A z \in DOMAIN rx : rx[z] = r[z]) /\ r[b[x]] = f[b[x]]
    BY <1>8, <1>9
  <2> HIDE DEF r, rx
  <2> QED BY <2>1, SumWithout
<1> QED BY <1>2, <1>6, <1>10, <1>11

\* Every nonempty finite set of integers has a least element.
LEMMA LeastInteger ==
    ASSUME NEW S, IsFiniteSet(S), S \subseteq Int, S # {}
    PROVE  \E n \in S : \A k \in S : n <= k
<1> DEFINE Bad == {u \in SUBSET S : u # {} /\ ~ \E n \in u : \A k \in u : n <= k}
<1>1. SUFFICES ASSUME Bad # {} PROVE FALSE
  OBVIOUS
<1>2. PICK u \in Bad : IsFiniteSet(u) /\ \A v \in Bad : Cardinality(u) <= Cardinality(v)
  <2>1. Bad \subseteq SUBSET S
    OBVIOUS
  <2> HIDE DEF Bad
  <2> QED BY <1>1, <2>1, SmallestSubset
<1>3. PICK x \in u : TRUE
  BY <1>2
<1>4. u \ {x} \notin Bad
  BY <1>2, <1>3, OneLess
<1>5. u \ {x} # {}
  BY <1>2, <1>3
<1>6. PICK n \in u \ {x} : \A k \in u \ {x} : n <= k
  BY <1>2, <1>4, <1>5
<1>7. \E m \in u : \A k \in u : m <= k
  <2>1. CASE n <= x
    BY <1>6, <2>1
  <2>2. CASE ~(n <= x)
    <3>1. \A k \in u \ {x} : x <= k
      BY <1>2, <1>6, <2>2
    <3>2. x <= x
      BY <1>2
    <3> QED BY <3>1, <3>2
  <2> QED BY <2>1, <2>2
<1> QED BY <1>2, <1>7
=============================================================================
