------------------------- MODULE CashRegisterProofs -------------------------
(***************************************************************************)
(* Proofs about CashRegister.                                              *)
(***************************************************************************)
EXTENDS CashRegister, NumberFacts, SequenceTheorems

-----------------------------------------------------------------------------
(* The figures as sums over everything on the books *)

\* What each entry and each correction adds to the figures until t.
EntryTerms(es, t) == [i \in DOMAIN es |-> IF es[i].at <= t THEN Effect(es[i]) ELSE 0]
CorrectionTerms(cs, t) == [c \in DOMAIN cs |-> IF cs[c].correction.at <= t THEN cs[c].correction.amount ELSE 0]

Typed(es, cs) == /\ es \in Seq(Entry)
                 /\ DOMAIN cs \subseteq CountId
                 /\ \A c \in DOMAIN cs : cs[c] \in Count

LEMMA FieldTypes ==
    ASSUME NEW es, NEW cs, Typed(es, cs)
    PROVE  /\ DOMAIN es = 1..Len(es) /\ Len(es) \in Nat
           /\ \A i \in DOMAIN es : /\ es[i] \in Entry /\ es[i].kind \in EntryKind /\ es[i].at \in Time
                                   /\ es[i].at \in Nat /\ es[i].amount \in Amount /\ es[i].amount \in Nat
                                   /\ es[i].amount > 0 /\ Effect(es[i]) \in Int
           /\ \A c \in DOMAIN cs : /\ cs[c].at \in Time /\ cs[c].at \in Nat /\ cs[c].counted \in Int
                                   /\ cs[c].counted \in 0..MaxAmount /\ cs[c].expected \in Int
                                   /\ cs[c].correction.at \in Time /\ cs[c].correction.at \in Nat
                                   /\ cs[c].correction.amount \in Int
<1>1. \A e \in Entry : /\ e.kind \in EntryKind /\ e.at \in Time /\ e.at \in Nat /\ e.amount \in Amount
                       /\ e.amount \in Nat /\ e.amount > 0 /\ Effect(e) \in Int
  BY RegisterAssumption DEF Entry, Effect, Time, Amount
<1>2. \A c \in Count : /\ c.at \in Time /\ c.at \in Nat /\ c.counted \in Int
                       /\ c.counted \in 0..MaxAmount /\ c.expected \in Int
                       /\ c.correction.at \in Time /\ c.correction.at \in Nat
                       /\ c.correction.amount \in Int
  BY RegisterAssumption DEF Count, Time
<1>3. DOMAIN es = 1..Len(es) /\ Len(es) \in Nat /\ \A i \in DOMAIN es : es[i] \in Entry
  BY DEF Typed
<1>4. \A c \in DOMAIN cs : cs[c] \in Count
  BY DEF Typed
<1> QED BY <1>1, <1>2, <1>3, <1>4

LEMMA Finite ==
    ASSUME NEW es, NEW cs, Typed(es, cs)
    PROVE  IsFiniteSet(DOMAIN es) /\ IsFiniteSet(DOMAIN cs)
<1>1. IsFiniteSet(CountId)
  BY FS_Interval, RegisterAssumption DEF CountId
<1>2. IsFiniteSet(1..Len(es))
  BY FS_Interval, FieldTypes
<1> QED BY <1>1, <1>2, FS_Subset, FieldTypes DEF Typed

LEMMA TermTypes ==
    ASSUME NEW es, NEW cs, Typed(es, cs), NEW t
    PROVE  /\ Summable(EntryTerms(es, t)) /\ Summable(CorrectionTerms(cs, t))
           /\ DOMAIN EntryTerms(es, t) = DOMAIN es /\ DOMAIN CorrectionTerms(cs, t) = DOMAIN cs
           /\ SumFunction(EntryTerms(es, t)) \in Int /\ SumFunction(CorrectionTerms(cs, t)) \in Int
<1>1. /\ Summable(EntryTerms(es, t)) /\ Summable(CorrectionTerms(cs, t))
      /\ DOMAIN EntryTerms(es, t) = DOMAIN es /\ DOMAIN CorrectionTerms(cs, t) = DOMAIN cs
  BY Finite, FieldTypes DEF Summable, EntryTerms, CorrectionTerms
<1> QED BY <1>1, SumType

\* What should be in the register is the sum of all these terms.
LEMMA ExpectedIs ==
    ASSUME NEW es, NEW cs, Typed(es, cs), NEW t
    PROVE  /\ ExpectedUntil(es, cs, t) = SumFunction(EntryTerms(es, t)) + SumFunction(CorrectionTerms(cs, t))
           /\ ExpectedUntil(es, cs, t) \in Int
<1> DEFINE E == {i \in DOMAIN es : es[i].at <= t}
           C == {c \in DOMAIN cs : cs[c].correction.at <= t}
           f == EntryTerms(es, t)
           g == CorrectionTerms(cs, t)
<1>1. /\ E \subseteq DOMAIN f /\ \A i \in DOMAIN f \ E : f[i] = 0
      /\ C \subseteq DOMAIN g /\ \A c \in DOMAIN g \ C : g[c] = 0
  BY DEF EntryTerms, CorrectionTerms
<1>2. /\ [i \in E |-> f[i]] = [i \in E |-> Effect(es[i])]
      /\ [c \in C |-> g[c]] = [c \in C |-> cs[c].correction.amount]
  BY DEF EntryTerms, CorrectionTerms
<1>3. Summable(f) /\ Summable(g) /\ SumFunction(f) \in Int /\ SumFunction(g) \in Int
  BY TermTypes
<1>4. ExpectedUntil(es, cs, t) = SumFunction([i \in E |-> Effect(es[i])])
                                   + SumFunction([c \in C |-> cs[c].correction.amount])
  BY DEF ExpectedUntil, EffectOf, CorrectionOf
<1>5. SumFunction([i \in E |-> f[i]]) = SumFunction(f) /\ SumFunction([c \in C |-> g[c]]) = SumFunction(g)
  <2> HIDE DEF f, g, E, C
  <2> QED BY <1>1, <1>3, SumFilters
<1> QED BY <1>2, <1>3, <1>4, <1>5

-----------------------------------------------------------------------------
(* How the figures change with the books *)

\* What one entry, or one count's correction, adds until t.
EntryTerm(e, t) == IF e.at <= t THEN Effect(e) ELSE 0
CorrectionTerm(c, t) == IF c.correction.at <= t THEN c.correction.amount ELSE 0

\* Entries that differ in one.
LEMMA EntryChanges ==
    ASSUME NEW es, NEW fs, NEW cs, Typed(es, cs), Typed(fs, cs), DOMAIN fs = DOMAIN es,
           NEW i \in DOMAIN es, \A j \in DOMAIN es \ {i} : fs[j].at = es[j].at /\ Effect(fs[j]) = Effect(es[j]),
           NEW t
    PROVE  ExpectedUntil(fs, cs, t) = ExpectedUntil(es, cs, t) + (EntryTerm(fs[i], t) - EntryTerm(es[i], t))
<1> DEFINE f == EntryTerms(es, t)
           g == EntryTerms(fs, t)
           c == SumFunction(CorrectionTerms(cs, t))
<1>1. /\ f[i] = EntryTerm(es[i], t) /\ g[i] = EntryTerm(fs[i], t)
      /\ \A j \in DOMAIN f \ {i} : g[j] = f[j]
      /\ DOMAIN f = DOMAIN g /\ i \in DOMAIN f
  BY DEF EntryTerms, EntryTerm
<1>2. Summable(f) /\ Summable(g) /\ SumFunction(f) \in Int /\ SumFunction(g) \in Int /\ c \in Int
  BY TermTypes
<1>3. SumFunction(g) = SumFunction(f) + (g[i] - f[i]) /\ g[i] \in Int /\ f[i] \in Int
  <2> HIDE DEF f, g
  <2> QED BY <1>1, <1>2, SumChanges DEF Summable
<1>4. ExpectedUntil(es, cs, t) = SumFunction(f) + c /\ ExpectedUntil(fs, cs, t) = SumFunction(g) + c
  BY ExpectedIs
<1> HIDE DEF f, g, c
<1> QED BY <1>1, <1>2, <1>3, <1>4

\* Counts that differ in one.
LEMMA CountChanges ==
    ASSUME NEW es, NEW cs, NEW ds, Typed(es, cs), Typed(es, ds), DOMAIN ds = DOMAIN cs,
           NEW c \in DOMAIN cs, \A d \in DOMAIN cs \ {c} : ds[d] = cs[d], NEW t
    PROVE  ExpectedUntil(es, ds, t)
             = ExpectedUntil(es, cs, t) + (CorrectionTerm(ds[c], t) - CorrectionTerm(cs[c], t))
<1> DEFINE f == CorrectionTerms(cs, t)
           g == CorrectionTerms(ds, t)
           e == SumFunction(EntryTerms(es, t))
<1>1. /\ f[c] = CorrectionTerm(cs[c], t) /\ g[c] = CorrectionTerm(ds[c], t)
      /\ \A d \in DOMAIN f \ {c} : g[d] = f[d]
      /\ DOMAIN f = DOMAIN g /\ c \in DOMAIN f
  BY DEF CorrectionTerms, CorrectionTerm
<1>2. Summable(f) /\ Summable(g) /\ SumFunction(f) \in Int /\ SumFunction(g) \in Int /\ e \in Int
  BY TermTypes
<1>3. SumFunction(g) = SumFunction(f) + (g[c] - f[c]) /\ g[c] \in Int /\ f[c] \in Int
  <2> HIDE DEF f, g
  <2> QED BY <1>1, <1>2, SumChanges DEF Summable
<1>4. ExpectedUntil(es, cs, t) = e + SumFunction(f) /\ ExpectedUntil(es, ds, t) = e + SumFunction(g)
  BY ExpectedIs
<1> HIDE DEF f, g, e
<1> QED BY <1>1, <1>2, <1>3, <1>4

\* A count more.
LEMMA CountAdded ==
    ASSUME NEW es, NEW cs, NEW ds, Typed(es, cs), Typed(es, ds), NEW c \in DOMAIN ds,
           DOMAIN cs = DOMAIN ds \ {c}, \A d \in DOMAIN cs : ds[d] = cs[d], NEW t
    PROVE  ExpectedUntil(es, ds, t) = ExpectedUntil(es, cs, t) + CorrectionTerm(ds[c], t)
<1> DEFINE f == CorrectionTerms(cs, t)
           g == CorrectionTerms(ds, t)
           e == SumFunction(EntryTerms(es, t))
<1>1. /\ g[c] = CorrectionTerm(ds[c], t)
      /\ \A d \in DOMAIN f : f[d] = g[d]
      /\ DOMAIN f = DOMAIN g \ {c} /\ c \in DOMAIN g
  BY DEF CorrectionTerms, CorrectionTerm
<1>2. Summable(f) /\ Summable(g) /\ SumFunction(f) \in Int /\ SumFunction(g) \in Int /\ e \in Int
  BY TermTypes
<1>3. SumFunction(g) = g[c] + SumFunction(f) /\ g[c] \in Int
  <2> HIDE DEF f, g
  <2> QED BY <1>1, <1>2, SumWithout DEF Summable
<1>4. ExpectedUntil(es, cs, t) = e + SumFunction(f) /\ ExpectedUntil(es, ds, t) = e + SumFunction(g)
  BY ExpectedIs
<1> HIDE DEF f, g, e
<1> QED BY <1>1, <1>2, <1>3, <1>4

\* An entry more, at the end.
LEMMA EntryAdded ==
    ASSUME NEW es, NEW cs, Typed(es, cs), NEW e \in Entry, NEW t
    PROVE  /\ Typed(Append(es, e), cs)
           /\ ExpectedUntil(Append(es, e), cs, t) = ExpectedUntil(es, cs, t) + EntryTerm(e, t)
<1> DEFINE fs == Append(es, e)
           n == Len(es) + 1
           f == EntryTerms(es, t)
           g == EntryTerms(fs, t)
           k == SumFunction(CorrectionTerms(cs, t))
<1>0. Typed(fs, cs)
  BY DEF Typed
<1>1. DOMAIN fs = 1..n /\ DOMAIN es = (1..n) \ {n} /\ n \in 1..n /\ fs[n] = e /\ \A i \in DOMAIN es : fs[i] = es[i]
  <2>1. /\ fs \in Seq(Entry) /\ Len(fs) = n /\ fs[n] = e /\ \A i \in 1..Len(es) : fs[i] = es[i]
        /\ Len(es) \in Nat /\ DOMAIN es = 1..Len(es)
    BY AppendProperties DEF Typed
  <2>2. DOMAIN fs = 1..n
    BY <2>1
  <2>3. 1..Len(es) = (1..n) \ {n} /\ n \in 1..n
    BY <2>1
  <2> QED BY <2>1, <2>2, <2>3
<1>2. /\ g[n] = EntryTerm(e, t)
      /\ \A i \in DOMAIN f : f[i] = g[i]
      /\ DOMAIN f = DOMAIN g \ {n} /\ n \in DOMAIN g
  <2> HIDE DEF fs
  <2> QED BY <1>1 DEF EntryTerms, EntryTerm
<1>3. Summable(f) /\ Summable(g) /\ SumFunction(f) \in Int /\ SumFunction(g) \in Int /\ k \in Int
  BY <1>0, TermTypes
<1>4. SumFunction(g) = g[n] + SumFunction(f) /\ g[n] \in Int
  <2> HIDE DEF f, g, n
  <2> QED BY <1>2, <1>3, SumWithout DEF Summable
<1>5. ExpectedUntil(es, cs, t) = SumFunction(f) + k /\ ExpectedUntil(fs, cs, t) = SumFunction(g) + k
  BY <1>0, ExpectedIs
<1>6. ExpectedUntil(fs, cs, t) = ExpectedUntil(es, cs, t) + EntryTerm(e, t)
  <2> HIDE DEF f, g, k, fs
  <2> QED BY <1>2, <1>3, <1>4, <1>5
<1> QED BY <1>0, <1>6

\* An entry less.
LEMMA EntryRemoved ==
    ASSUME NEW es, NEW cs, Typed(es, cs), NEW i \in DOMAIN es, NEW t
    PROVE  /\ Typed(RemoveAt(es, i), cs) /\ Len(RemoveAt(es, i)) = Len(es) - 1
           /\ ExpectedUntil(RemoveAt(es, i), cs, t) = ExpectedUntil(es, cs, t) - EntryTerm(es[i], t)
<1> DEFINE fs == RemoveAt(es, i)
           n == Len(es)
           b == [j \in 1..(n - 1) |-> IF j < i THEN j ELSE j + 1]
<1>0. es \in Seq(Entry) /\ n \in Nat /\ i \in 1..n /\ DOMAIN es = 1..n /\ \A j \in 1..n : es[j] \in Entry
  BY DEF Typed
<1>1. /\ fs \in Seq(Entry) /\ Len(fs) = n - 1 /\ DOMAIN fs = 1..(n - 1)
      /\ \A j \in 1..(n - 1) : fs[j] = es[b[j]]
  <2> DEFINE left == SubSeq(es, 1, i - 1)
             right == SubSeq(es, i + 1, n)
  <2>1. /\ left \in Seq(Entry) /\ Len(left) = i - 1
        /\ \A j \in 1..(i - 1) : left[j] = es[j]
    <3>1. \A j \in 1..(i - 1) : es[j] \in Entry
      BY <1>0
    <3>2. i - 1 \in Int /\ (1 <= i - 1 \/ i - 1 = 0) /\ (i - 1) - 1 + 1 = i - 1
          /\ \A j \in 1..(i - 1) : 1 + j - 1 = j
      BY <1>0
    <3>3. /\ left \in Seq(Entry) /\ Len(left) = IF 1 <= i - 1 THEN (i - 1) - 1 + 1 ELSE 0
          /\ \A j \in 1..((i - 1) - 1 + 1) : left[j] = es[1 + j - 1]
      BY <3>1, <3>2, SubSeqProperties
    <3> HIDE DEF left
    <3>4. Len(left) = i - 1
      BY <1>0, <3>3
    <3> QED BY <3>2, <3>3, <3>4
  <2>2. /\ right \in Seq(Entry) /\ Len(right) = n - i
        /\ \A j \in 1..(n - i) : right[j] = es[i + j]
    <3>1. \A j \in (i + 1)..n : es[j] \in Entry
      BY <1>0
    <3>2. i + 1 \in Int /\ n \in Int /\ n - (i + 1) + 1 = n - i
          /\ \A j \in 1..(n - i) : (i + 1) + j - 1 = i + j
      BY <1>0
    <3>3. /\ right \in Seq(Entry) /\ Len(right) = IF i + 1 <= n THEN n - (i + 1) + 1 ELSE 0
          /\ \A j \in 1..(n - (i + 1) + 1) : right[j] = es[(i + 1) + j - 1]
      BY <3>1, <3>2, SubSeqProperties
    <3> HIDE DEF right
    <3>4. Len(right) = n - i
      BY <1>0, <3>3
    <3> QED BY <3>2, <3>3, <3>4
  <2>3. fs = left \o right
    BY DEF RemoveAt
  <2> HIDE DEF left, right, fs
  <2>4. /\ fs \in Seq(Entry) /\ Len(fs) = Len(left) + Len(right)
        /\ \A j \in 1..(Len(left) + Len(right)) : fs[j] = IF j <= Len(left) THEN left[j] ELSE right[j - Len(left)]
    BY <2>1, <2>2, <2>3, ConcatProperties
  <2>5. Len(fs) = n - 1
    BY <1>0, <2>1, <2>2, <2>4
  <2>6. ASSUME NEW j \in 1..(n - 1) PROVE fs[j] = es[b[j]]
    <3>1. fs[j] = IF j <= i - 1 THEN left[j] ELSE right[j - (i - 1)]
      BY <1>0, <2>1, <2>2, <2>4
    <3>2. CASE j < i
      <4>1. j <= i - 1 /\ j \in 1..(i - 1) /\ b[j] = j
        BY <1>0, <3>2
      <4> QED BY <2>1, <3>1, <4>1
    <3>3. CASE ~(j < i)
      <4>1. ~(j <= i - 1) /\ j - (i - 1) \in 1..(n - i) /\ i + (j - (i - 1)) = j + 1 /\ b[j] = j + 1
        BY <1>0, <3>3
      <4> QED BY <2>2, <3>1, <4>1
    <3> QED BY <3>2, <3>3
  <2> QED BY <2>4, <2>5, <2>6
<1>2. Typed(fs, cs)
  BY <1>1 DEF Typed
<1> DEFINE f == EntryTerms(es, t)
           g == EntryTerms(fs, t)
           k == SumFunction(CorrectionTerms(cs, t))
           others == [j \in (1..n) \ {i} |-> f[j]]
<1>3. /\ b \in [1..(n - 1) -> (1..n) \ {i}]
      /\ \A x, y \in 1..(n - 1) : b[x] = b[y] => x = y
      /\ \A z \in (1..n) \ {i} : \E x \in 1..(n - 1) : b[x] = z
  <2>1. ASSUME NEW z \in (1..n) \ {i} PROVE \E x \in 1..(n - 1) : b[x] = z
    <3>1. CASE z < i
      <4>1. z \in 1..(n - 1) /\ b[z] = z
        BY <1>0, <3>1
      <4> QED BY <4>1
    <3>2. CASE ~(z < i)
      <4>1. z - 1 \in 1..(n - 1) /\ b[z - 1] = z
        BY <1>0, <3>2
      <4> QED BY <4>1
    <3> QED BY <3>1, <3>2
  <2> QED BY <1>0, <2>1
<1>4. Summable(f) /\ Summable(g) /\ SumFunction(f) \in Int /\ SumFunction(g) \in Int /\ k \in Int
  BY <1>2, TermTypes
<1>5. DOMAIN f = 1..n /\ f[i] = EntryTerm(es[i], t)
  BY <1>0 DEF EntryTerms, EntryTerm
<1>6. Summable(others) /\ DOMAIN others = (1..n) \ {i} /\ SumFunction(f) = f[i] + SumFunction(others) /\ f[i] \in Int
  <2> HIDE DEF f
  <2>1. Summable(others) /\ DOMAIN others = (1..n) \ {i} /\ f[i] \in Int
    BY <1>0, <1>4, <1>5, FS_Subset DEF Summable
  <2> QED BY <1>0, <1>4, <1>5, <2>1, SumSplits
<1>7. g = [j \in 1..(n - 1) |-> others[b[j]]]
  BY <1>0, <1>1, <1>3 DEF EntryTerms
<1>8. SumFunction(g) = SumFunction(others) /\ SumFunction(others) \in Int
  <2> HIDE DEF g, others, b
  <2>1. IsFiniteSet(1..(n - 1))
    BY <1>0, FS_Interval
  <2>2. /\ b \in [1..(n - 1) -> DOMAIN others]
        /\ \A z \in DOMAIN others : \E x \in 1..(n - 1) : b[x] = z
    BY <1>3, <1>6
  <2> DEFINE T == 1..(n - 1)
  <2>3. SumFunction([j \in T |-> others[b[j]]]) = SumFunction(others)
    <3>1. /\ Summable(others) /\ IsFiniteSet(T) /\ b \in [T -> DOMAIN others]
          /\ \A x, y \in T : b[x] = b[y] => x = y
          /\ \A z \in DOMAIN others : \E x \in T : b[x] = z
      BY <1>3, <1>6, <2>1, <2>2
    <3> HIDE DEF T
    <3> QED BY <3>1, SumRenames
  <2> QED BY <1>6, <1>7, <2>3, SumType
<1>9. ExpectedUntil(es, cs, t) = SumFunction(f) + k /\ ExpectedUntil(fs, cs, t) = SumFunction(g) + k
  BY <1>2, ExpectedIs
<1>10. ExpectedUntil(fs, cs, t) = ExpectedUntil(es, cs, t) - EntryTerm(es[i], t)
  <2> HIDE DEF f, g, k, fs, others
  <2> QED BY <1>4, <1>5, <1>6, <1>8, <1>9
<1> QED BY <1>1, <1>2, <1>10
-----------------------------------------------------------------------------
(* What counts lack *)

\* What the register lacks of what a count found, right after it.
Gap(es, cs, c) == cs[c].counted - ExpectedUntil(es, cs, cs[c].at)

\* Every correction books its count's difference at its time, and no two counts share a time.
BooksDifference(count) == count.correction = [at |-> count.at, amount |-> count.counted - count.expected]
Shape(cs) == /\ \A c \in DOMAIN cs : BooksDifference(cs[c])
             /\ \A c, d \in DOMAIN cs : cs[c].at = cs[d].at => c = d

LEMMA GapType ==
    ASSUME NEW es, NEW cs, Typed(es, cs), NEW c \in DOMAIN cs
    PROVE  Gap(es, cs, c) \in Int
BY FieldTypes, ExpectedIs DEF Gap

\* A recalculated count.
LEMMA RecalculatedIs ==
    ASSUME NEW k \in Count, NEW x \in Int
    PROVE  /\ Recalculated(k, x) \in Count /\ BooksDifference(Recalculated(k, x))
           /\ Recalculated(k, x).at = k.at /\ Recalculated(k, x).counted = k.counted
           /\ Recalculated(k, x).expected = x
           /\ Recalculated(k, x).correction = [at |-> k.at, amount |-> k.counted - x]
<1> DEFINE r == [at |-> k.at, amount |-> k.counted - x]
<1>1. PICK a \in Time, b \in 0..MaxAmount, e \in Int, o \in [at : Time, amount : Int] :
        k = [at |-> a, counted |-> b, expected |-> e, correction |-> o]
  BY DEF Count
<1>2. k.at = a /\ k.counted = b /\ r = [at |-> a, amount |-> b - x]
  BY <1>1
<1>3. r \in [at : Time, amount : Int]
  <2>1. b - x \in Int
    BY RegisterAssumption
  <2> QED BY <1>2, <2>1
<1>4. Recalculated(k, x) = [k EXCEPT !.expected = x, !.correction = r]
  BY DEF Recalculated
<1> HIDE DEF r
<1>5. Recalculated(k, x) = [at |-> a, counted |-> b, expected |-> x, correction |-> r]
  BY <1>1, <1>4
<1>6. Recalculated(k, x) \in Count
  BY <1>3, <1>5 DEF Count
<1> QED BY <1>2, <1>5, <1>6 DEF BooksDifference

-----------------------------------------------------------------------------
(* The journal's balances *)

AfterEntry(es, cs, i) ==
    EffectOf(es, {j \in DOMAIN es : es[j].at < es[i].at \/ (es[j].at = es[i].at /\ j <= i)})
      + CorrectionOf(cs, {c \in DOMAIN cs : cs[c].correction.at < es[i].at})
AtCount(es, cs, c) ==
    EffectOf(es, {i \in DOMAIN es : es[i].at <= cs[c].at})
      + CorrectionOf(cs, {d \in DOMAIN cs : cs[d].correction.at < cs[c].at})
EntriesFrom(es, from) == {i \in DOMAIN es : es[i].at >= from}
CountsFrom(cs, from) == {c \in DOMAIN cs : cs[c].at >= from}
CorrectionsFrom(cs, from) == {c \in DOMAIN cs : cs[c].correction.amount # 0 /\ cs[c].correction.at >= from}

LEMMA BalancesAre ==
    ASSUME NEW es, NEW cs, NEW from
    PROVE  BalancesFrom(es, cs, from)
             = {AfterEntry(es, cs, i) : i \in EntriesFrom(es, from)}
                 \cup {AtCount(es, cs, c) : c \in CountsFrom(cs, from)}
                 \cup {ExpectedUntil(es, cs, cs[c].correction.at) : c \in CorrectionsFrom(cs, from)}
BY DEF BalancesFrom, AfterEntry, AtCount, EntriesFrom, CountsFrom, CorrectionsFrom

\* Finitely many values.
LEMMA FiniteValues ==
    ASSUME NEW f, IsFiniteSet(DOMAIN f)
    PROVE  IsFiniteSet({f[x] : x \in DOMAIN f})
<1> DEFINE S == DOMAIN f
           T == {f[x] : x \in S}
           g == [x \in S |-> f[x]]
<1>1. g \in Surjection(S, T)
  BY DEF Surjection
<1> HIDE DEF T, S, g
<1>2. IsFiniteSet(T)
  BY <1>1, FS_Surjection DEF S
<1> QED BY <1>2 DEF T, S

LEMMA PartTypes ==
    ASSUME NEW es, NEW cs, Typed(es, cs), NEW E, E \subseteq DOMAIN es, NEW C, C \subseteq DOMAIN cs
    PROVE  EffectOf(es, E) \in Int /\ CorrectionOf(cs, C) \in Int
<1> DEFINE f == [i \in E |-> Effect(es[i])]
           g == [c \in C |-> cs[c].correction.amount]
<1>1. Summable(f) /\ Summable(g)
  BY Finite, FS_Subset, FieldTypes DEF Summable
<1> HIDE DEF f, g
<1>2. SumFunction(f) \in Int /\ SumFunction(g) \in Int
  BY <1>1, SumType
<1> QED BY <1>2 DEF f, g, EffectOf, CorrectionOf

LEMMA BalanceTypes ==
    ASSUME NEW es, NEW cs, Typed(es, cs), NEW from
    PROVE  IsFiniteSet(BalancesFrom(es, cs, from)) /\ BalancesFrom(es, cs, from) \subseteq Int
<1> DEFINE f == [i \in EntriesFrom(es, from) |-> AfterEntry(es, cs, i)]
           g == [c \in CountsFrom(cs, from) |-> AtCount(es, cs, c)]
           h == [c \in CorrectionsFrom(cs, from) |-> ExpectedUntil(es, cs, cs[c].correction.at)]
           F == {f[x] : x \in DOMAIN f}
           G == {g[x] : x \in DOMAIN g}
           H == {h[x] : x \in DOMAIN h}
<1>1. BalancesFrom(es, cs, from) = F \cup G \cup H
  <2>1. /\ F = {AfterEntry(es, cs, i) : i \in EntriesFrom(es, from)}
        /\ G = {AtCount(es, cs, c) : c \in CountsFrom(cs, from)}
        /\ H = {ExpectedUntil(es, cs, cs[c].correction.at) : c \in CorrectionsFrom(cs, from)}
    OBVIOUS
  <2> QED BY <2>1, BalancesAre
<1>2. IsFiniteSet(DOMAIN f) /\ IsFiniteSet(DOMAIN g) /\ IsFiniteSet(DOMAIN h)
  <2>1. /\ EntriesFrom(es, from) \subseteq DOMAIN es /\ CountsFrom(cs, from) \subseteq DOMAIN cs
        /\ CorrectionsFrom(cs, from) \subseteq DOMAIN cs
    BY DEF EntriesFrom, CountsFrom, CorrectionsFrom
  <2> QED BY <2>1, Finite, FS_Subset
<1>3. (\A x \in DOMAIN f : f[x] \in Int) /\ (\A x \in DOMAIN g : g[x] \in Int) /\ (\A x \in DOMAIN h : h[x] \in Int)
  <2>1. \A i \in DOMAIN f : AfterEntry(es, cs, i) \in Int
    BY PartTypes DEF AfterEntry
  <2>2. \A c \in DOMAIN g : AtCount(es, cs, c) \in Int
    BY PartTypes DEF AtCount
  <2> QED BY <2>1, <2>2, ExpectedIs
<1> HIDE DEF f, g, h
<1>4. IsFiniteSet(F) /\ IsFiniteSet(G) /\ IsFiniteSet(H)
  BY <1>2, FiniteValues
<1>5. F \subseteq Int /\ G \subseteq Int /\ H \subseteq Int
  BY <1>3
<1> HIDE DEF F, G, H
<1>6. IsFiniteSet(F \cup G)
  BY <1>4, FS_Union
<1>7. IsFiniteSet(F \cup G \cup H)
  BY <1>4, <1>6, FS_Union
<1> QED BY <1>1, <1>5, <1>7

\* The lowest balance is the least of them and zero.
LEMMA LowestIs ==
    ASSUME NEW es, NEW cs, Typed(es, cs), NEW from
    PROVE  /\ LowestBalance(es, cs, from) \in {0} \cup BalancesFrom(es, cs, from)
           /\ LowestBalance(es, cs, from) \in Int
           /\ \A b \in {0} \cup BalancesFrom(es, cs, from) : LowestBalance(es, cs, from) <= b
<1> DEFINE B == BalancesFrom(es, cs, from)
           S == {0} \cup B
<1>1. IsFiniteSet(B) /\ B \subseteq Int
  BY BalanceTypes
<1> HIDE DEF B
<1>2. IsFiniteSet(S) /\ S \subseteq Int /\ S # {}
  <2>1. IsFiniteSet(B \cup {0})
    BY <1>1, FS_AddElement
  <2>2. S = B \cup {0}
    OBVIOUS
  <2>3. S \subseteq Int /\ S # {}
    BY <1>1
  <2> HIDE DEF S
  <2> QED BY <2>1, <2>2, <2>3
<1>3. LowestBalance(es, cs, from) = Min(S)
  BY DEF LowestBalance, B
<1> HIDE DEF S
<1>4. Min(S) \in S /\ \A b \in S : Min(S) <= b
  BY <1>2, LeastInteger DEF Min
<1> QED BY <1>2, <1>3, <1>4 DEF S, B

\* Where nothing happens the figures stay.
LEMMA QuietTime ==
    ASSUME NEW es, NEW cs, Typed(es, cs), NEW u \in Nat, NEW v \in Nat, u <= v,
           \A i \in DOMAIN es : ~(u < es[i].at /\ es[i].at <= v),
           \A c \in DOMAIN cs : u < cs[c].correction.at /\ cs[c].correction.at <= v => cs[c].correction.amount = 0
    PROVE  ExpectedUntil(es, cs, u) = ExpectedUntil(es, cs, v)
<1>1. \A i \in DOMAIN es : es[i].at \in Nat
  BY FieldTypes
<1>2. \A i \in DOMAIN es : es[i].at <= u <=> es[i].at <= v
  BY <1>1
<1>3. EntryTerms(es, u) = EntryTerms(es, v)
  BY <1>2 DEF EntryTerms
<1>4. ASSUME NEW c \in DOMAIN cs
      PROVE  (IF cs[c].correction.at <= u THEN cs[c].correction.amount ELSE 0)
               = (IF cs[c].correction.at <= v THEN cs[c].correction.amount ELSE 0)
  <2>1. cs[c].correction.at \in Nat
    BY FieldTypes
  <2> QED BY <2>1
<1>5. CorrectionTerms(cs, u) = CorrectionTerms(cs, v)
  BY <1>4 DEF CorrectionTerms
<1> QED BY <1>3, <1>5, ExpectedIs

\* The figures until a moment are the journal's balance after the last entry or correction by then, or what they
\* were just before `from`.
LEMMA LastBalance ==
    ASSUME NEW es, NEW cs, Typed(es, cs), NEW from \in Time, NEW u \in Nat, from - 1 <= u
    PROVE  \/ ExpectedUntil(es, cs, u) \in BalancesFrom(es, cs, from)
           \/ ExpectedUntil(es, cs, u) = ExpectedUntil(es, cs, from - 1)
<1>0. from \in Nat /\ from - 1 \in Nat
  BY RegisterAssumption DEF Time
<1> DEFINE Corrected(m) == \E c \in DOMAIN cs : cs[c].correction.at = m /\ cs[c].correction.amount # 0
           Booked(m) == \E i \in DOMAIN es : es[i].at = m
           Busy == {m \in from..u : Booked(m) \/ Corrected(m)}
<1>1. /\ \A i \in DOMAIN es : es[i].at \in Nat
      /\ \A c \in DOMAIN cs : cs[c].correction.at \in Nat
      /\ DOMAIN es = 1..Len(es) /\ Len(es) \in Nat
  BY FieldTypes
<1>2. ASSUME NEW v \in Nat, from - 1 <= v, v <= u, \A m \in Busy : m <= v
      PROVE  ExpectedUntil(es, cs, v) = ExpectedUntil(es, cs, u)
  <2>1. ASSUME NEW i \in DOMAIN es PROVE ~(v < es[i].at /\ es[i].at <= u)
    <3>1. es[i].at \in Nat /\ (v < es[i].at /\ es[i].at <= u => es[i].at \in from..u)
      BY <1>0, <1>1, <1>2
    <3>2. es[i].at \in from..u => es[i].at \in Busy
      OBVIOUS
    <3> HIDE DEF Busy
    <3> QED BY <1>2, <3>1, <3>2
  <2>2. ASSUME NEW c \in DOMAIN cs, v < cs[c].correction.at, cs[c].correction.at <= u
        PROVE  cs[c].correction.amount = 0
    <3>1. cs[c].correction.at \in Nat /\ cs[c].correction.at \in from..u
      BY <1>0, <1>1, <1>2, <2>2
    <3>2. cs[c].correction.amount # 0 => cs[c].correction.at \in Busy
      BY <3>1
    <3> HIDE DEF Busy
    <3> QED BY <1>2, <2>2, <3>1, <3>2
  <2> QED BY <1>2, <2>1, <2>2, QuietTime
<1>3. CASE Busy = {}
  <2>1. \A m \in Busy : m <= from - 1
    BY <1>3
  <2>2. from - 1 <= from - 1
    BY <1>0
  <2> HIDE DEF Busy
  <2> QED BY <1>0, <1>2, <2>1, <2>2
<1>4. CASE Busy # {}
  <2>1. PICK m \in Busy : \A k \in Busy : k <= m
    <3>1. Busy \subseteq Nat /\ \A k \in Busy : k <= u
      BY <1>0
    <3> HIDE DEF Busy
    <3> QED BY <1>4, <3>1, GreatestNatural
  <2>2. m \in Nat /\ from <= m /\ m <= u /\ from - 1 <= m /\ (Booked(m) \/ Corrected(m))
    BY <1>0, <2>1
  <2> HIDE DEF Busy
  <2>3. ExpectedUntil(es, cs, m) = ExpectedUntil(es, cs, u)
    BY <1>2, <2>1, <2>2
  <2>4. CASE Corrected(m)
    <3>1. PICK c \in DOMAIN cs : cs[c].correction.at = m /\ cs[c].correction.amount # 0
      BY <2>4
    <3>2. c \in CorrectionsFrom(cs, from) /\ ExpectedUntil(es, cs, m) = ExpectedUntil(es, cs, cs[c].correction.at)
      BY <1>0, <2>2, <3>1 DEF CorrectionsFrom
    <3>3. ExpectedUntil(es, cs, m) \in {ExpectedUntil(es, cs, cs[d].correction.at) : d \in CorrectionsFrom(cs, from)}
      BY <3>2
    <3> QED BY <2>3, <3>3, BalancesAre
  <2>5. CASE ~Corrected(m)
    <3> DEFINE I == {i \in DOMAIN es : es[i].at = m}
    <3>1. PICK i \in I : \A j \in I : j <= i
      <4>1. I \subseteq Nat /\ I # {} /\ \A j \in I : j <= Len(es)
        BY <1>1, <2>2, <2>5
      <4> HIDE DEF I
      <4> QED BY <1>1, <4>1, GreatestNatural
    <3>2. i \in DOMAIN es /\ es[i].at = m /\ i \in EntriesFrom(es, from)
      BY <1>0, <2>2, <3>1 DEF EntriesFrom
    <3>3. {j \in DOMAIN es : es[j].at < es[i].at \/ (es[j].at = es[i].at /\ j <= i)} = {j \in DOMAIN es : es[j].at <= m}
      <4>1. ASSUME NEW j \in DOMAIN es
            PROVE  es[j].at < es[i].at \/ (es[j].at = es[i].at /\ j <= i) <=> es[j].at <= m
        <5>1. es[j].at \in Nat /\ (es[j].at = m => j <= i)
          BY <1>1, <3>1
        <5> QED BY <2>2, <3>2, <5>1
      <4> QED BY <4>1
    <3> DEFINE C == {c \in DOMAIN cs : cs[c].correction.at < m}
               D == {c \in DOMAIN cs : cs[c].correction.at <= m}
               g == [c \in D |-> cs[c].correction.amount]
    <3>4. C \subseteq D /\ DOMAIN g = D /\ [c \in C |-> g[c]] = [c \in C |-> cs[c].correction.amount]
      BY <1>1, <2>2
    <3>5. \A c \in D \ C : g[c] = 0
      BY <1>1, <2>2, <2>5
    <3>6. Summable(g)
      BY Finite, FS_Subset, FieldTypes DEF Summable
    <3>7. SumFunction([c \in C |-> g[c]]) = SumFunction(g)
      <4> HIDE DEF C, D, g
      <4> QED BY <3>4, <3>5, <3>6, SumFilters
    <3>8. CorrectionOf(cs, C) = CorrectionOf(cs, D)
      BY <3>4, <3>7 DEF CorrectionOf
    <3>9. AfterEntry(es, cs, i) = ExpectedUntil(es, cs, m)
      BY <3>2, <3>3, <3>8 DEF AfterEntry, ExpectedUntil
    <3>10. ExpectedUntil(es, cs, m) \in {AfterEntry(es, cs, j) : j \in EntriesFrom(es, from)}
      BY <3>2, <3>9
    <3> QED BY <2>3, <3>10, BalancesAre
  <2> QED BY <2>4, <2>5
<1> QED BY <1>3, <1>4
-----------------------------------------------------------------------------
(* What the counts lack stays even *)

\* No late entry in the stretch of time after t until u.
NoneIn(late, t, u) == \A x \in late : ~(t < x /\ x <= u)

\* While the counts `todo` are still to be recalculated: of the others, one before every late entry lacks nothing,
\* two with no late entry between them lack the same, and one that no late entry parts from a count to come lacks
\* nothing. Two counts to come that are after `until` lack the same, unless a late entry parts them.
Gaps(es, cs, todo, until, late) ==
    /\ \A c \in DOMAIN cs \ todo : (\A t \in late : t > cs[c].at) => Gap(es, cs, c) = 0
    /\ \A c, d \in DOMAIN cs \ todo : cs[c].at <= cs[d].at /\ NoneIn(late, cs[c].at, cs[d].at)
                                        => Gap(es, cs, c) = Gap(es, cs, d)
    /\ \A c \in DOMAIN cs \ todo, d \in todo : NoneIn(late, cs[c].at, cs[d].at) => Gap(es, cs, c) = 0
    /\ \A c, d \in todo : cs[c].at > until /\ cs[c].at <= cs[d].at /\ NoneIn(late, cs[c].at, cs[d].at)
                            => Gap(es, cs, c) = Gap(es, cs, d)

\* Counts are recalculated oldest first.
Ahead(cs, todo) == todo \subseteq DOMAIN cs /\ \A c \in DOMAIN cs \ todo, d \in todo : cs[c].at < cs[d].at

\* An entry e booked: what the counts lack stays even if its time is noted when some count is at or after it, and a
\* time between a recalculated count that lacks it and every count to come.
LEMMA BookingKeepsGaps ==
    ASSUME NEW es, NEW cs, Typed(es, cs), NEW fs, Typed(fs, cs), NEW e \in Entry,
           \A u \in Nat : ExpectedUntil(fs, cs, u) = ExpectedUntil(es, cs, u) + EntryTerm(e, u),
           NEW todo, todo \subseteq DOMAIN cs, NEW until, NEW late, Gaps(es, cs, todo, until, late),
           NEW now, late \subseteq now,
           \A c \in DOMAIN cs : cs[c].at >= e.at => e.at \in now,
           \A c \in DOMAIN cs \ todo, d \in todo : cs[c].at >= e.at => ~NoneIn(now, cs[c].at, cs[d].at)
    PROVE  Gaps(fs, cs, todo, until, now)
<1>0. e.at \in Nat /\ Effect(e) \in Int
  <2>1. Typed(<<e>>, cs)
    BY DEF Typed
  <2>2. 1 \in DOMAIN <<e>> /\ <<e>>[1] = e
    OBVIOUS
  <2> QED BY <2>1, <2>2, FieldTypes
<1>1. ASSUME NEW c \in DOMAIN cs
      PROVE  /\ cs[c].at \in Nat /\ Gap(es, cs, c) \in Int
             /\ Gap(fs, cs, c) = Gap(es, cs, c) - (IF e.at <= cs[c].at THEN Effect(e) ELSE 0)
  <2> DEFINE u == cs[c].at
             x == ExpectedUntil(es, cs, u)
             y == ExpectedUntil(fs, cs, u)
  <2>1. u \in Nat /\ cs[c].counted \in Int /\ x \in Int
    BY FieldTypes, ExpectedIs
  <2>2. y = x + (IF e.at <= u THEN Effect(e) ELSE 0)
    BY <2>1 DEF EntryTerm
  <2>3. Gap(es, cs, c) = cs[c].counted - x /\ Gap(fs, cs, c) = cs[c].counted - y
    BY DEF Gap
  <2> HIDE DEF x, y
  <2> QED BY <1>0, <2>1, <2>2, <2>3
<1>2. ASSUME NEW c \in DOMAIN cs, NEW d \in DOMAIN cs, cs[c].at <= cs[d].at, NoneIn(now, cs[c].at, cs[d].at)
      PROVE  /\ NoneIn(late, cs[c].at, cs[d].at)
             /\ Gap(es, cs, c) = Gap(es, cs, d) => Gap(fs, cs, c) = Gap(fs, cs, d)
  <2>1. NoneIn(late, cs[c].at, cs[d].at)
    BY <1>2 DEF NoneIn
  <2>2. e.at <= cs[c].at <=> e.at <= cs[d].at
    <3>0. cs[c].at \in Nat /\ cs[d].at \in Nat
      BY <1>1
    <3>1. ASSUME e.at <= cs[d].at PROVE e.at <= cs[c].at
      <4>1. e.at \in now
        BY <1>0, <3>0, <3>1
      <4>2. ~(cs[c].at < e.at /\ e.at <= cs[d].at)
        BY <1>2, <4>1 DEF NoneIn
      <4> QED BY <1>0, <3>0, <3>1, <4>2
    <3> QED BY <1>0, <1>2, <3>0, <3>1
  <2> QED BY <1>1, <2>1, <2>2
<1>3. ASSUME NEW c \in DOMAIN cs \ todo, \A t \in now : t > cs[c].at PROVE Gap(fs, cs, c) = 0
  <2>1. Gap(es, cs, c) = 0
    BY <1>3 DEF Gaps
  <2>2. ~(e.at <= cs[c].at)
    <3>1. e.at \in now => ~(e.at <= cs[c].at)
      BY <1>0, <1>1, <1>3
    <3> QED BY <1>0, <1>1, <3>1
  <2> QED BY <1>1, <2>1, <2>2
<1>4. ASSUME NEW c \in DOMAIN cs \ todo, NEW d \in DOMAIN cs \ todo, cs[c].at <= cs[d].at,
             NoneIn(now, cs[c].at, cs[d].at)
      PROVE  Gap(fs, cs, c) = Gap(fs, cs, d)
  BY <1>2, <1>4 DEF Gaps
<1>5. ASSUME NEW c \in DOMAIN cs \ todo, NEW d \in todo, NoneIn(now, cs[c].at, cs[d].at) PROVE Gap(fs, cs, c) = 0
  <2>1. NoneIn(late, cs[c].at, cs[d].at)
    BY <1>5 DEF NoneIn
  <2>2. Gap(es, cs, c) = 0
    BY <2>1 DEF Gaps
  <2>3. ~(e.at <= cs[c].at)
    BY <1>0, <1>1, <1>5
  <2> QED BY <1>1, <2>2, <2>3
<1>6. ASSUME NEW c \in todo, NEW d \in todo, cs[c].at > until, cs[c].at <= cs[d].at, NoneIn(now, cs[c].at, cs[d].at)
      PROVE  Gap(fs, cs, c) = Gap(fs, cs, d)
  BY <1>2, <1>6 DEF Gaps
<1> QED BY <1>3, <1>4, <1>5, <1>6 DEF Gaps

\* One count of reconcileCounts: what it does to the figures and to what the counts lack.
Recount(es, cs, c) == ExpectedAtCount(es, cs, cs[c].at, cs[c].correction)
PutRight(es, cs, c) == [cs EXCEPT ![c] = Recalculated(cs[c], Recount(es, cs, c))]

LEMMA CountPutRight ==
    ASSUME NEW es, NEW cs, Typed(es, cs), Shape(cs), NEW c \in DOMAIN cs
    PROVE  LET ks == PutRight(es, cs, c)
           IN  /\ Recount(es, cs, c) = cs[c].expected <=> Gap(es, cs, c) = 0
               /\ Typed(es, ks) /\ Shape(ks) /\ DOMAIN ks = DOMAIN cs
               /\ \A d \in DOMAIN cs : ks[d].at = cs[d].at
               /\ \A u \in Nat : u < cs[c].at => ExpectedUntil(es, ks, u) = ExpectedUntil(es, cs, u)
               /\ \A d \in DOMAIN cs :
                    Gap(es, ks, d) = Gap(es, cs, d) - (IF cs[d].at >= cs[c].at THEN Gap(es, cs, c) ELSE 0)
<1> DEFINE t == cs[c].at
           old == cs[c].correction.amount
           x == ExpectedAtCount(es, cs, t, cs[c].correction)
           g == Gap(es, cs, c)
           ks == [cs EXCEPT ![c] = Recalculated(cs[c], x)]
<1>1. t \in Nat /\ t \in Time /\ cs[c] \in Count
  BY FieldTypes DEF Typed
<1>2. /\ cs[c].correction.at = t /\ old = cs[c].counted - cs[c].expected
      /\ cs[c].counted \in Int /\ cs[c].expected \in Int /\ old \in Int
  <2>1. cs[c].correction = [at |-> cs[c].at, amount |-> cs[c].counted - cs[c].expected]
    BY DEF Shape, BooksDifference
  <2>2. cs[c].counted \in Int /\ cs[c].expected \in Int
    BY FieldTypes
  <2> QED BY <2>1, <2>2
<1>3. /\ g \in Int /\ x \in Int
      /\ (x = cs[c].expected <=> g = 0)
      /\ (cs[c].counted - x) - old = g
  <2> DEFINE e == ExpectedUntil(es, cs, t)
  <2>1. g = cs[c].counted - e /\ e \in Int
    BY ExpectedIs DEF Gap
  <2>2. x = e - old
    BY <1>1, <1>2 DEF ExpectedAtCount
  <2> HIDE DEF e, old, g, x, t
  <2> QED BY <1>2, <2>1, <2>2
<1> HIDE DEF x
<1>4. /\ DOMAIN ks = DOMAIN cs /\ \A d \in DOMAIN cs \ {c} : ks[d] = cs[d]
      /\ ks[c] = Recalculated(cs[c], x)
  OBVIOUS
<1>5. /\ ks[c] \in Count /\ ks[c].at = t /\ ks[c].counted = cs[c].counted /\ BooksDifference(ks[c])
      /\ ks[c].correction = [at |-> t, amount |-> cs[c].counted - x]
  BY <1>1, <1>3, <1>4, RecalculatedIs
<1> HIDE DEF ks
<1>6. Typed(es, ks) /\ \A d \in DOMAIN cs : ks[d].at = cs[d].at
  BY <1>4, <1>5 DEF Typed
<1>7. Shape(ks)
  BY <1>4, <1>5, <1>6 DEF Shape
<1> HIDE DEF g
<1>8. ASSUME NEW u \in Nat
      PROVE  /\ ExpectedUntil(es, ks, u) = ExpectedUntil(es, cs, u) + (IF u >= t THEN g ELSE 0)
             /\ ExpectedUntil(es, ks, u) \in Int /\ ExpectedUntil(es, cs, u) \in Int
  <2>1. ExpectedUntil(es, ks, u)
          = ExpectedUntil(es, cs, u) + (CorrectionTerm(ks[c], u) - CorrectionTerm(cs[c], u))
    BY <1>4, <1>6, CountChanges
  <2>2. CorrectionTerm(ks[c], u) - CorrectionTerm(cs[c], u) = IF u >= t THEN g ELSE 0
    <3>1. CorrectionTerm(ks[c], u) = IF t <= u THEN cs[c].counted - x ELSE 0
      BY <1>5 DEF CorrectionTerm
    <3>2. CorrectionTerm(cs[c], u) = IF t <= u THEN old ELSE 0
      BY <1>2 DEF CorrectionTerm
    <3> QED BY <1>1, <1>2, <1>3, <3>1, <3>2
  <2>3. ExpectedUntil(es, ks, u) \in Int /\ ExpectedUntil(es, cs, u) \in Int
    BY <1>6, ExpectedIs
  <2> QED BY <2>1, <2>2, <2>3
<1>9. ASSUME NEW u \in Nat, u < t PROVE ExpectedUntil(es, ks, u) = ExpectedUntil(es, cs, u)
  <2>1. ~(u >= t)
    BY <1>1, <1>9
  <2> QED BY <1>8, <2>1
<1>10. ASSUME NEW d \in DOMAIN cs
       PROVE  Gap(es, ks, d) = Gap(es, cs, d) - (IF cs[d].at >= t THEN g ELSE 0)
  <2>1. cs[d].at \in Nat /\ cs[d].counted \in Int /\ ks[d].counted = cs[d].counted /\ ks[d].at = cs[d].at
    BY <1>4, <1>5, <1>6, FieldTypes
  <2> DEFINE k == ExpectedUntil(es, cs, cs[d].at)
             l == ExpectedUntil(es, ks, cs[d].at)
  <2>2. l = k + (IF cs[d].at >= t THEN g ELSE 0) /\ l \in Int /\ k \in Int
    BY <1>8, <2>1
  <2>3. Gap(es, ks, d) = cs[d].counted - l /\ Gap(es, cs, d) = cs[d].counted - k
    BY <2>1 DEF Gap
  <2> HIDE DEF k, l
  <2> QED BY <1>3, <2>1, <2>2, <2>3
<1> QED BY <1>3, <1>4, <1>6, <1>7, <1>9, <1>10 DEF ks, x, g, Recount, PutRight

\* What ReconcileCount makes of the counts, and the counts it leaves to do.
Put(es, cs, c) == IF Recount(es, cs, c) # cs[c].expected THEN PutRight(es, cs, c) ELSE cs
Left(es, cs, todo, until, c) ==
    IF Recount(es, cs, c) = cs[c].expected /\ cs[c].at > until THEN {} ELSE todo \ {c}

LEMMA ReconcileKeepsGaps ==
    ASSUME NEW es, NEW cs, Typed(es, cs), Shape(cs), NEW todo, Ahead(cs, todo), NEW until \in Nat,
           NEW c \in todo, \A d \in todo : cs[c].at <= cs[d].at
    PROVE  LET ks == Put(es, cs, c)
               rest == Left(es, cs, todo, until, c)
           IN  /\ Typed(es, ks) /\ Shape(ks) /\ Ahead(ks, rest) /\ DOMAIN ks = DOMAIN cs
               /\ \A d \in DOMAIN cs : ks[d].at = cs[d].at
               /\ \A u \in Nat : u < cs[c].at => ExpectedUntil(es, ks, u) = ExpectedUntil(es, cs, u)
               /\ \A late \in SUBSET Nat : Gaps(es, cs, todo, until, late) => Gaps(es, ks, rest, until, late)
<1> DEFINE x == Recount(es, cs, c)
           new == PutRight(es, cs, c)
           g == Gap(es, cs, c)
           ks == Put(es, cs, c)
           rest == Left(es, cs, todo, until, c)
<1>0. /\ c \in DOMAIN cs /\ todo \subseteq DOMAIN cs /\ \A a \in DOMAIN cs \ todo, d \in todo : cs[a].at < cs[d].at
      /\ \A d \in DOMAIN cs : cs[d].at \in Nat /\ Gap(es, cs, d) \in Int
      /\ \A a, d \in DOMAIN cs : cs[a].at = cs[d].at => a = d
  BY FieldTypes, GapType DEF Ahead, Shape
<1>1. /\ x = cs[c].expected <=> g = 0
      /\ Typed(es, new) /\ Shape(new) /\ DOMAIN new = DOMAIN cs
      /\ \A d \in DOMAIN cs : new[d].at = cs[d].at
      /\ \A u \in Nat : u < cs[c].at => ExpectedUntil(es, new, u) = ExpectedUntil(es, cs, u)
      /\ \A d \in DOMAIN cs : Gap(es, new, d) = Gap(es, cs, d) - (IF cs[d].at >= cs[c].at THEN g ELSE 0)
  <2>1. c \in DOMAIN cs
    BY <1>0
  <2> HIDE DEF ks, rest
  <2> QED BY <2>1, CountPutRight, ZenonT(30)
<1>2. /\ g # 0 => ks = new
      /\ g = 0 => ks = cs
      /\ rest = IF g = 0 /\ cs[c].at > until THEN {} ELSE todo \ {c}
  BY <1>1 DEF Put, Left
<1> HIDE DEF x, new, g, ks, rest
<1>3. /\ Typed(es, ks) /\ Shape(ks) /\ DOMAIN ks = DOMAIN cs
      /\ \A d \in DOMAIN cs : ks[d].at = cs[d].at
      /\ \A u \in Nat : u < cs[c].at => ExpectedUntil(es, ks, u) = ExpectedUntil(es, cs, u)
  BY <1>1, <1>2
<1>4. Ahead(ks, rest)
  <2>1. rest \subseteq DOMAIN ks
    BY <1>0, <1>2, <1>3
  <2>2. ASSUME NEW a \in DOMAIN ks \ rest, NEW d \in rest PROVE ks[a].at < ks[d].at
    <3>1. d \in todo /\ d # c /\ d \in DOMAIN cs /\ a \in DOMAIN cs /\ (a \in DOMAIN cs \ todo \/ a = c)
      BY <1>0, <1>2, <1>3, <2>2
    <3>2. cs[c].at < cs[d].at
      BY <1>0, <3>1
    <3> QED BY <1>0, <1>3, <3>1, <3>2
  <2> QED BY <2>1, <2>2 DEF Ahead
<1>5. /\ \A d \in DOMAIN cs \ todo : Gap(es, ks, d) = Gap(es, cs, d)
      /\ \A d \in todo : Gap(es, ks, d) = Gap(es, cs, d) - g
  <2>1. (\A d \in todo : cs[d].at >= cs[c].at) /\ (\A d \in DOMAIN cs \ todo : ~(cs[d].at >= cs[c].at))
    BY <1>0
  <2>2. g \in Int
    BY <1>0 DEF g
  <2>3. CASE g = 0
    BY <1>0, <1>2, <2>3
  <2>4. CASE g # 0
    BY <1>0, <1>1, <1>2, <2>1, <2>2, <2>4
  <2> QED BY <2>3, <2>4
<1>6. ASSUME NEW late, late \subseteq Nat, Gaps(es, cs, todo, until, late) PROVE Gaps(es, ks, rest, until, late)
  <2>0. /\ g \in Int /\ Gap(es, ks, c) = 0 /\ g = Gap(es, cs, c)
        /\ (rest = {} /\ g = 0 /\ cs[c].at > until) \/ rest = todo \ {c}
        /\ \A d \in DOMAIN cs : Gap(es, ks, d) \in Int
    BY <1>0, <1>2, <1>3, <1>5, GapType DEF g
  \* The counts that are recalculated or need not be after this step: those before, c, and perhaps all.
  <2>1. ASSUME NEW d \in todo, d \notin rest PROVE d = c \/ (g = 0 /\ cs[c].at > until /\ rest = {})
    BY <2>0, <2>1
  <2>2. ASSUME NEW a \in DOMAIN cs \ todo, NEW d \in todo, NoneIn(late, cs[a].at, cs[d].at)
        PROVE  Gap(es, ks, a) = 0
    BY <1>5, <1>6, <2>2 DEF Gaps
  <2>3. ASSUME NEW d \in todo, d \notin rest, NoneIn(late, cs[c].at, cs[d].at) PROVE Gap(es, ks, d) = 0
    <3>1. CASE d = c
      BY <2>0, <3>1
    <3>2. CASE d # c
      <4>1. Gap(es, cs, c) = Gap(es, cs, d)
        BY <1>6, <2>1, <2>3, <3>2 DEF Gaps
      <4>2. Gap(es, ks, c) = Gap(es, cs, c) - g /\ Gap(es, ks, d) = Gap(es, cs, d) - g
        BY <1>5
      <4> QED BY <2>0, <4>1, <4>2
    <3> QED BY <3>1, <3>2
  <2>4. ASSUME NEW d \in DOMAIN cs \ rest, \A t \in late : t > cs[d].at PROVE Gap(es, ks, d) = 0
    <3>1. CASE d \notin todo
      BY <1>5, <1>6, <2>4, <3>1 DEF Gaps
    <3>2. CASE d \in todo
      <4>1. ASSUME NEW y \in late PROVE ~(cs[c].at < y /\ y <= cs[d].at)
        <5>1. y \in Nat /\ y > cs[d].at
          BY <1>6, <2>4
        <5> QED BY <1>0, <5>1
      <4>2. NoneIn(late, cs[c].at, cs[d].at)
        BY <4>1 DEF NoneIn
      <4> QED BY <2>3, <2>4, <3>2, <4>2
    <3> QED BY <3>1, <3>2
  <2>5. ASSUME NEW a \in DOMAIN cs \ rest, NEW d \in DOMAIN cs \ rest, cs[a].at <= cs[d].at,
               NoneIn(late, cs[a].at, cs[d].at)
        PROVE  Gap(es, ks, a) = Gap(es, ks, d)
    <3>1. CASE a \notin todo /\ d \notin todo
      BY <1>5, <1>6, <2>5, <3>1 DEF Gaps
    <3>2. CASE a \notin todo /\ d \in todo
      <4>1. NoneIn(late, cs[c].at, cs[d].at)
        <5>1. cs[a].at < cs[c].at /\ cs[a].at \in Nat /\ cs[c].at \in Nat
          BY <1>0, <3>2
        <5>2. ASSUME NEW y \in late PROVE ~(cs[c].at < y /\ y <= cs[d].at)
          <6>1. y \in Nat /\ ~(cs[a].at < y /\ y <= cs[d].at)
            BY <1>6, <2>5 DEF NoneIn
          <6> QED BY <5>1, <6>1
        <5> QED BY <5>2 DEF NoneIn
      <4> QED BY <2>2, <2>3, <2>5, <3>2, <4>1
    <3>3. CASE a \in todo /\ d \notin todo
      <4>1. cs[d].at < cs[a].at
        BY <1>0, <3>3
      <4> QED BY <1>0, <2>5, <4>1
    <3>4. CASE a \in todo /\ d \in todo
      <4>1. CASE a = c /\ d = c
        BY <4>1
      <4>2. CASE ~(a = c /\ d = c)
        <5>1. g = 0 /\ cs[c].at > until /\ cs[c].at <= cs[a].at /\ a \in DOMAIN cs
          BY <2>1, <2>5, <3>4, <4>2
        <5>2. cs[a].at > until
          BY <1>0, <5>1
        <5>3. Gap(es, cs, a) = Gap(es, cs, d)
          BY <1>6, <2>5, <3>4, <5>2 DEF Gaps
        <5> QED BY <1>5, <3>4, <5>3
      <4> QED BY <4>1, <4>2
    <3> QED BY <3>1, <3>2, <3>3, <3>4
  <2>6. ASSUME NEW a \in DOMAIN cs \ rest, NEW d \in rest, NoneIn(late, cs[a].at, cs[d].at)
        PROVE  Gap(es, ks, a) = 0
    <3>1. rest = todo \ {c} /\ d \in todo /\ (a \in DOMAIN cs \ todo \/ a = c)
      BY <2>0, <2>6
    <3> QED BY <2>0, <2>2, <2>6, <3>1
  <2>7. ASSUME NEW a \in rest, NEW d \in rest, cs[a].at > until, cs[a].at <= cs[d].at, NoneIn(late, cs[a].at, cs[d].at)
        PROVE  Gap(es, ks, a) = Gap(es, ks, d)
    <3>1. a \in todo /\ d \in todo
      BY <2>0, <2>7
    <3>2. Gap(es, cs, a) = Gap(es, cs, d)
      BY <1>6, <2>7, <3>1 DEF Gaps
    <3> QED BY <1>5, <3>1, <3>2
  <2>8. rest \subseteq DOMAIN cs
    BY <1>0, <2>0
  <2> QED BY <1>3, <2>4, <2>5, <2>6, <2>7, <2>8 DEF Gaps
<1> QED BY <1>3, <1>4, <1>6 DEF ks, rest
-----------------------------------------------------------------------------
(* The invariant *)

\* The books with a movement changed.
With(es, row, becomes) ==
    IF row = 0 THEN es ELSE IF becomes = <<>> THEN RemoveAt(es, row) ELSE [es EXCEPT ![row] = becomes[1]]

\* What that adds to the figures.
Change(es, row, becomes, u) ==
    IF row = 0 THEN 0
    ELSE (IF becomes = <<>> THEN 0 ELSE EntryTerm(becomes[1], u)) - EntryTerm(es[row], u)

LEMMA WithIs ==
    ASSUME NEW es, NEW cs, Typed(es, cs), NEW row \in Nat, row <= Len(es), NEW becomes \in Seq(Entry)
    PROVE  /\ Typed(With(es, row, becomes), cs) /\ Len(With(es, row, becomes)) <= Len(es)
           /\ \A u : /\ ExpectedUntil(With(es, row, becomes), cs, u)
                          = ExpectedUntil(es, cs, u) + Change(es, row, becomes, u)
                     /\ Change(es, row, becomes, u) \in Int
<1>0. Len(es) \in Nat /\ DOMAIN es = 1..Len(es) /\ es \in Seq(Entry)
  BY FieldTypes DEF Typed
<1>1. \A u : ExpectedUntil(es, cs, u) \in Int
  BY ExpectedIs
<1>2. CASE row = 0
  BY <1>0, <1>1, <1>2 DEF With, Change
<1>3. CASE row # 0 /\ becomes = <<>>
  <2>1. row \in DOMAIN es /\ With(es, row, becomes) = RemoveAt(es, row)
    BY <1>0, <1>3 DEF With
  <2>2. /\ Typed(RemoveAt(es, row), cs) /\ Len(RemoveAt(es, row)) <= Len(es)
        /\ \A u : ExpectedUntil(RemoveAt(es, row), cs, u) = ExpectedUntil(es, cs, u) - EntryTerm(es[row], u)
    BY <1>0, <2>1, EntryRemoved
  <2>3. \A u : EntryTerm(es[row], u) \in Int
    BY <2>1, FieldTypes DEF EntryTerm
  <2>4. \A u : Change(es, row, becomes, u) = 0 - EntryTerm(es[row], u)
    BY <1>3 DEF Change
  <2> QED BY <1>1, <2>1, <2>2, <2>3, <2>4
<1>4. CASE row # 0 /\ becomes # <<>>
  <2> DEFINE new == becomes[1]
             fs == [es EXCEPT ![row] = new]
  <2>1. row \in DOMAIN es /\ With(es, row, becomes) = fs /\ new \in Entry
    BY <1>0, <1>4 DEF With
  <2> HIDE DEF new
  <2>2. /\ fs \in Seq(Entry) /\ Len(fs) = Len(es) /\ DOMAIN fs = DOMAIN es /\ fs[row] = new
        /\ \A j \in DOMAIN es \ {row} : fs[j] = es[j]
    BY <1>0, <2>1
  <2> HIDE DEF fs
  <2>3. Typed(fs, cs)
    BY <2>2 DEF Typed
  <2>4. \A u : ExpectedUntil(fs, cs, u) = ExpectedUntil(es, cs, u) + (EntryTerm(new, u) - EntryTerm(es[row], u))
    BY <2>1, <2>2, <2>3, EntryChanges
  <2>5. \A u : Change(es, row, becomes, u) = EntryTerm(new, u) - EntryTerm(es[row], u)
    BY <1>4 DEF Change, new
  <2>6. \A u : EntryTerm(new, u) \in Int /\ EntryTerm(es[row], u) \in Int
    BY <2>1, <2>2, <2>3, FieldTypes DEF EntryTerm
  <2> QED BY <1>0, <2>1, <2>2, <2>3, <2>4, <2>5, <2>6
<1> QED BY <1>2, <1>3, <1>4

\* Noted times: what the counts lack is even between them.
BooksInv ==
    /\ TypeOK /\ Shape(counts)
    /\ Mixed \notin lateAt \cup tornAt => Gaps(entries, counts, {}, 0, lateAt \cup tornAt)

\* The transaction under way: the new count of a recording is the only one that differs; an edit has touched
\* nothing before `from`, and what its counts lack is even.
WorkInv ==
    work # Idle =>
      /\ work.stage # "idle"
      /\ work.row <= Len(entries) /\ work.from \in Time /\ work.until \in Time
      /\ Shape(work.counts) /\ Ahead(work.counts, work.todo)
      /\ \A c \in work.todo : work.counts[c].at >= work.from
      /\ work.stage = "recording" =>
           /\ work.row = 0 /\ work.todo = {}
           /\ \E n \in DOMAIN work.counts : /\ DOMAIN counts = DOMAIN work.counts \ {n}
                                            /\ \A c \in DOMAIN counts : work.counts[c] = counts[c]
      /\ work.stage # "recording" =>
           \A u \in Nat : u < work.from => ExpectedUntil(Seen, work.counts, u) = ExpectedUntil(entries, counts, u)
      /\ Mixed \notin work.late \cup work.torn =>
           Gaps(Seen, work.counts, work.todo, work.until, work.late \cup work.torn)

RegisterInv == BooksInv /\ WorkInv

\* The parts of the transaction under way.
LEMMA WorkTypes ==
    ASSUME TypeOK
    PROVE  /\ work.stage \in {"idle", "recording", "counted", "walking"}
           /\ work.row \in Nat /\ work.row <= MaxEntries /\ work.becomes \in Seq(Entry)
           /\ work.todo \subseteq CountId /\ work.from \in Nat /\ work.until \in Nat /\ work.lowest \in Int
           /\ work.late \subseteq Time \cup {Mixed} /\ work.torn \subseteq Time \cup {Mixed}
           /\ work.late \subseteq Nat /\ work.torn \subseteq Nat
           /\ lateAt \subseteq Nat /\ tornAt \subseteq Nat
           /\ Typed(entries, counts) /\ Typed(entries, work.counts)
<1>1. work \in Work(work.counts) /\ lateAt \subseteq Time \cup {Mixed} /\ tornAt \subseteq Time \cup {Mixed}
  BY DEF TypeOK
<1>2. Time \cup {Mixed} \subseteq Nat
  BY RegisterAssumption DEF Time, Mixed
<1>3. Typed(entries, counts) /\ Typed(entries, work.counts)
  BY DEF TypeOK, Books, Typed
<1>4. /\ work.stage \in {"idle", "recording", "counted", "walking"}
      /\ work.row \in 0..MaxEntries /\ work.becomes \in Seq(Entry)
      /\ work.todo \subseteq CountId /\ work.from \in Nat /\ work.until \in Nat /\ work.lowest \in Int
      /\ work.late \subseteq Time \cup {Mixed} /\ work.torn \subseteq Time \cup {Mixed}
  BY <1>1 DEF Work
<1> QED BY <1>1, <1>2, <1>3, <1>4, RegisterAssumption

LEMMA SeenIs ==
    ASSUME TypeOK, work.row <= Len(entries), NEW cs, Typed(entries, cs)
    PROVE  /\ Seen = With(entries, work.row, work.becomes)
           /\ Typed(Seen, cs) /\ Len(Seen) <= Len(entries)
           /\ \A u : ExpectedUntil(Seen, cs, u) = ExpectedUntil(entries, cs, u)
                                                    + Change(entries, work.row, work.becomes, u)
<1>1. Seen = With(entries, work.row, work.becomes)
  BY DEF Seen, With
<1> QED BY <1>1, WorkTypes, WithIs

LEMMA InvTyped ==
    ASSUME TypeOK PROVE Typed(entries, counts)
BY DEF TypeOK, Typed, Books

\* Nothing is under way when the transaction is Idle.
LEMMA IdleWork ==
    ASSUME work = Idle
    PROVE  /\ work \in Work(work.counts) /\ Books(work.counts) /\ work.counts = NoCounts /\ DOMAIN NoCounts = {}
           /\ work.todo = {} /\ work.late = {} /\ work.torn = {}
<1>1. DOMAIN NoCounts = {}
  BY DEF NoCounts
<1>2. work \in Work(NoCounts) /\ work.counts = NoCounts /\ work.todo = {} /\ work.late = {} /\ work.torn = {}
  BY RegisterAssumption DEF Idle, Work
<1> QED BY <1>1, <1>2 DEF Books

\* A count is explained exactly when it lacks nothing.
LEMMA ExplainedIs ==
    ASSUME Typed(entries, counts), Shape(counts), NEW c \in DOMAIN counts, Gap(entries, counts, c) = 0
    PROVE  Explained(c)
<1> DEFINE k == counts[c]
           e == ExpectedUntil(entries, counts, k.at)
<1>1. k.correction = [at |-> k.at, amount |-> k.counted - k.expected]
  BY DEF Shape, BooksDifference
<1>2. k.at \in Nat /\ k.counted \in Int /\ k.expected \in Int /\ e \in Int
  BY FieldTypes, ExpectedIs
<1>3. k.counted - e = 0
  BY DEF Gap
<1>4. ExpectedAtCount(entries, counts, k.at, k.correction) = e - (k.counted - k.expected)
  BY <1>1, <1>2 DEF ExpectedAtCount
<1>5. k.expected = ExpectedAtCount(entries, counts, k.at, k.correction)
  <2> HIDE DEF e
  <2> QED BY <1>2, <1>3, <1>4
<1> QED BY <1>1, <1>5 DEF Explained

LEMMA InvExplains ==
    ASSUME BooksInv PROVE CountsExplained
<1> SUFFICES ASSUME lateAt = {}, tornAt = {}, NEW c \in DOMAIN counts PROVE Explained(c)
  BY DEF CountsExplained
<1>1. Gap(entries, counts, c) = 0
  BY DEF BooksInv, Gaps
<1> QED BY <1>1, InvTyped, ExplainedIs DEF BooksInv

LEMMA InitInv ==
    ASSUME Init PROVE RegisterInv
<1>1. DOMAIN counts = {} /\ work = Idle /\ entries = <<>> /\ lateAt = {} /\ tornAt = {}
  BY DEF Init, NoCounts
<1>2. TypeOK
  BY <1>1, IdleWork, RegisterAssumption DEF TypeOK, Books
<1>3. Shape(counts) /\ Gaps(entries, counts, {}, 0, lateAt \cup tornAt)
  BY <1>1 DEF Shape, Gaps
<1> QED BY <1>1, <1>2, <1>3 DEF RegisterInv, BooksInv, WorkInv

LEMMA TwoTimes ==
    ASSUME NEW a \in Nat, NEW b \in Nat
    PROVE  /\ Min({a, b}) \in {a, b} /\ Min({a, b}) <= a /\ Min({a, b}) <= b
           /\ Max({a, b}) \in {a, b} /\ Max({a, b}) >= a /\ Max({a, b}) >= b
<1>1. \E x \in {a, b} : \A y \in {a, b} : x <= y
  <2>1. CASE a <= b
    BY <2>1
  <2>2. CASE ~(a <= b)
    BY <2>2
  <2> QED BY <2>1, <2>2
<1>2. \E x \in {a, b} : \A y \in {a, b} : x >= y
  <2>1. CASE a >= b
    BY <2>1
  <2>2. CASE ~(a >= b)
    BY <2>2
  <2> QED BY <2>1, <2>2
<1>3. Min({a, b}) \in {a, b} /\ \A y \in {a, b} : Min({a, b}) <= y
  BY <1>1 DEF Min
<1>4. Max({a, b}) \in {a, b} /\ \A y \in {a, b} : Max({a, b}) >= y
  BY <1>2 DEF Max
<1> QED BY <1>3, <1>4

-----------------------------------------------------------------------------
(* Edits *)

\* Two states of the books whose figures agree before `from` and differ by the same amount from `until` on.
Shifted(es, cs, fs, ds, from, until, delta) ==
    \A u \in Nat : /\ u < from => ExpectedUntil(fs, ds, u) = ExpectedUntil(es, cs, u)
                   /\ u >= until => ExpectedUntil(fs, ds, u) = ExpectedUntil(es, cs, u) + delta

\* The books an edit has changed before it reconciles the counts: figures shifted over a stretch of time, the other
\* counts as they were, and an edited count put right and still in its place.
Edited(es, cs, fs, ds, from, until, skip) ==
    /\ Typed(fs, ds) /\ Shape(ds)
    /\ from \in Time /\ until \in Time /\ from <= until
    /\ \A c \in DOMAIN ds : c # skip => c \in DOMAIN cs /\ ds[c] = cs[c]
    /\ \E delta \in Int : Shifted(es, cs, fs, ds, from, until, delta)
    /\ skip \in DOMAIN ds => /\ Gap(fs, ds, skip) = 0
                             /\ \A c \in DOMAIN ds : ds[c].at < ds[skip].at => ds[c].at < from

\* What reconcileCounts needs: before it, counts before `from` stand, what the counts after `until` lack is the same, and
\* a skipped count stands and has no other count between `from` and it.
Repairable(es, cs, from, until, skip) ==
    /\ \A c \in DOMAIN cs : c # skip /\ cs[c].at < from => Gap(es, cs, c) = 0
    /\ \A c, d \in DOMAIN cs : /\ c # skip /\ d # skip
                               /\ cs[c].at > until /\ cs[d].at > until
                               => Gap(es, cs, c) = Gap(es, cs, d)
    /\ skip \in DOMAIN cs => /\ Gap(es, cs, skip) = 0
                             /\ \A c \in DOMAIN cs : cs[c].at < cs[skip].at => cs[c].at < from

\* An edit that covers every late entry leaves books that can be put right.
LEMMA EditRepairable ==
    ASSUME NEW es, NEW cs, Typed(es, cs), NEW late, late \subseteq Nat, Gaps(es, cs, {}, 0, late),
           NEW fs, NEW ds, NEW from, NEW until, NEW skip, Edited(es, cs, fs, ds, from, until, skip),
           \A t \in late : from <= t /\ t <= until
    PROVE  Repairable(fs, ds, from, until, skip)
<1>0. from \in Nat /\ until \in Nat /\ from <= until /\ Typed(fs, ds)
  BY RegisterAssumption DEF Edited, Time
<1>1. PICK delta \in Int : Shifted(es, cs, fs, ds, from, until, delta)
  BY DEF Edited
<1>2. ASSUME NEW c \in DOMAIN ds, c # skip
      PROVE  /\ c \in DOMAIN cs /\ ds[c] = cs[c] /\ ds[c].at \in Nat /\ ds[c].counted \in Int
             /\ ds[c].at < from => Gap(fs, ds, c) = Gap(es, cs, c)
             /\ ds[c].at >= until => Gap(fs, ds, c) = Gap(es, cs, c) - delta
             /\ Gap(es, cs, c) \in Int
  <2>1. c \in DOMAIN cs /\ ds[c] = cs[c] /\ ds[c].at \in Nat /\ ds[c].counted \in Int
    BY <1>0, <1>2, FieldTypes DEF Edited
  <2> DEFINE u == ds[c].at
             x == ExpectedUntil(es, cs, u)
             y == ExpectedUntil(fs, ds, u)
  <2>2. x \in Int /\ y \in Int /\ Gap(es, cs, c) = ds[c].counted - x /\ Gap(fs, ds, c) = ds[c].counted - y
    BY <1>0, <2>1, ExpectedIs DEF Gap
  <2>3. (u < from => y = x) /\ (u >= until => y = x + delta)
    BY <1>1, <2>1 DEF Shifted
  <2> HIDE DEF x, y
  <2> QED BY <2>1, <2>2, <2>3
<1>3. ASSUME NEW c \in DOMAIN ds, c # skip, ds[c].at < from PROVE Gap(fs, ds, c) = 0
  <2>0. cs[c].at < from /\ cs[c].at \in Nat /\ c \in DOMAIN cs
    BY <1>2, <1>3
  <2>1. ASSUME NEW t \in late PROVE t > cs[c].at
    <3>1. t \in Nat /\ from <= t
      OBVIOUS
    <3> QED BY <1>0, <2>0, <3>1
  <2>2. Gap(es, cs, c) = 0
    BY <2>0, <2>1 DEF Gaps, NoneIn
  <2> QED BY <1>2, <1>3, <2>2
<1>4. ASSUME NEW c \in DOMAIN ds, NEW d \in DOMAIN ds, c # skip, d # skip, ds[c].at > until, ds[d].at > until
      PROVE  Gap(fs, ds, c) = Gap(fs, ds, d)
  <2>1. /\ c \in DOMAIN cs /\ d \in DOMAIN cs /\ cs[c].at \in Nat /\ cs[d].at \in Nat
        /\ cs[c].at > until /\ cs[d].at > until
    BY <1>2, <1>4
  <2>2. (\A t \in late : ~(cs[c].at < t /\ t <= cs[d].at)) /\ (\A t \in late : ~(cs[d].at < t /\ t <= cs[c].at))
    <3> SUFFICES ASSUME NEW t \in late PROVE ~(cs[c].at < t) /\ ~(cs[d].at < t)
      OBVIOUS
    <3>1. t \in Nat /\ t <= until
      OBVIOUS
    <3> QED BY <1>0, <2>1, <3>1
  <2>3. cs[c].at <= cs[d].at \/ cs[d].at <= cs[c].at
    BY <2>1
  <2>4. Gap(es, cs, c) = Gap(es, cs, d)
    BY <2>1, <2>2, <2>3 DEF Gaps, NoneIn
  <2>5. ds[c].at >= until /\ ds[d].at >= until
    BY <1>0, <1>2, <1>4
  <2> QED BY <1>2, <1>4, <2>4, <2>5
<1>5. skip \in DOMAIN ds => /\ Gap(fs, ds, skip) = 0
                            /\ \A c \in DOMAIN ds : ds[c].at < ds[skip].at => ds[c].at < from
  BY DEF Edited
<1> QED BY <1>3, <1>4, <1>5 DEF Repairable

\* A movement or a count with a new value and time.
LEMMA MovedEntry ==
    ASSUME NEW e \in Entry, NEW a \in Amount, NEW t \in Time
    PROVE  [e EXCEPT !.amount = a, !.at = t] \in Entry /\ [e EXCEPT !.amount = a, !.at = t].at = t
<1> DEFINE f == [e EXCEPT !.amount = a]
<1>1. PICK k \in EntryKind, u \in Time, b \in Amount, o \in BOOLEAN :
        e = [kind |-> k, at |-> u, amount |-> b, open |-> o]
  BY DEF Entry
<1>2. f = [kind |-> k, at |-> u, amount |-> a, open |-> o]
  BY <1>1
<1>3. [e EXCEPT !.amount = a, !.at = t] = [f EXCEPT !.at = t]
  OBVIOUS
<1> HIDE DEF f
<1>4. [f EXCEPT !.at = t] = [kind |-> k, at |-> t, amount |-> a, open |-> o]
  BY <1>2
<1> QED BY <1>3, <1>4 DEF Entry

Moved(k, n, t) == [k EXCEPT !.counted = n, !.at = t]

LEMMA MovedCount ==
    ASSUME NEW k \in Count, NEW n \in 0..MaxAmount, NEW t \in Time
    PROVE  Moved(k, n, t) \in Count /\ Moved(k, n, t).at = t /\ Moved(k, n, t).counted = n
<1> DEFINE f == [k EXCEPT !.counted = n]
<1>1. PICK u \in Time, b \in 0..MaxAmount, e \in Int, o \in [at : Time, amount : Int] :
        k = [at |-> u, counted |-> b, expected |-> e, correction |-> o]
  BY DEF Count
<1>2. f = [at |-> u, counted |-> n, expected |-> e, correction |-> o]
  BY <1>1
<1>3. Moved(k, n, t) = [f EXCEPT !.at = t]
  BY DEF Moved
<1> HIDE DEF f
<1>4. [f EXCEPT !.at = t] = [at |-> t, counted |-> n, expected |-> e, correction |-> o]
  BY <1>2
<1> QED BY <1>3, <1>4 DEF Count

\* A correction books its count's difference at its time.
LEMMA CorrectionIs ==
    ASSUME NEW cs, Shape(cs), NEW c \in DOMAIN cs
    PROVE  cs[c].correction.at = cs[c].at /\ cs[c].correction.amount = cs[c].counted - cs[c].expected
<1>1. cs[c].correction = [at |-> cs[c].at, amount |-> cs[c].counted - cs[c].expected]
  BY DEF Shape, BooksDifference
<1> QED BY <1>1

\* A movement's new amount and time.
LEMMA MovementUpdated ==
    ASSUME BooksInv, NEW i \in DOMAIN entries, NEW a \in Amount, NEW t \in Time
    PROVE  LET es == [entries EXCEPT ![i] = [entries[i] EXCEPT !.amount = a, !.at = t]]
           IN  /\ Len(es) <= MaxEntries
               /\ Edited(entries, counts, es, counts, Min({entries[i].at, t}), Max({entries[i].at, t}), NoCount)
<1> DEFINE from == Min({entries[i].at, t})
           until == Max({entries[i].at, t})
           old == entries[i]
           new == [old EXCEPT !.amount = a, !.at = t]
           es == [entries EXCEPT ![i] = new]
<1>0. Typed(entries, counts) /\ Shape(counts) /\ entries \in Seq(Entry) /\ Len(entries) <= MaxEntries
  BY InvTyped DEF BooksInv, TypeOK
<1>1. old \in Entry /\ old.at \in Time /\ old.at \in Nat /\ t \in Nat
  BY <1>0, FieldTypes, RegisterAssumption DEF Time
<1>2. new \in Entry /\ new.at = t
  BY <1>1, MovedEntry, Zenon
<1>3. es = [entries EXCEPT ![i] = new]
  OBVIOUS
<1> HIDE DEF es, new, old
<1>4. /\ es \in Seq(Entry) /\ Len(es) = Len(entries) /\ DOMAIN es = DOMAIN entries /\ es[i] = new
      /\ \A j \in DOMAIN entries \ {i} : es[j] = entries[j]
  BY <1>0, <1>2, <1>3
<1>5. Typed(es, counts)
  BY <1>0, <1>4 DEF Typed
<1>6. /\ from \in {old.at, t} /\ from <= old.at /\ from <= t
      /\ until \in {old.at, t} /\ until >= old.at /\ until >= t
  BY <1>1, TwoTimes DEF old
<1> DEFINE delta == Effect(new) - Effect(old)
<1>7. Effect(new) \in Int /\ Effect(old) \in Int /\ delta \in Int
  <2>1. Effect(entries[i]) \in Int /\ Effect(es[i]) \in Int
    BY <1>0, <1>4, <1>5, FieldTypes
  <2> QED BY <1>4, <2>1 DEF old
<1> HIDE DEF from, until
<1>8. Shifted(entries, counts, es, counts, from, until, delta)
  <2> SUFFICES ASSUME NEW u \in Nat
               PROVE  LET x == ExpectedUntil(entries, counts, u)
                          y == ExpectedUntil(es, counts, u)
                      IN  (u < from => y = x) /\ (u >= until => y = x + delta)
    BY DEF Shifted
  <2> DEFINE x == ExpectedUntil(entries, counts, u)
             y == ExpectedUntil(es, counts, u)
             p == EntryTerm(old, u)
             q == EntryTerm(new, u)
  <2>1. y = x + (q - p) /\ x \in Int
    <3>1. \A j \in DOMAIN entries \ {i} : es[j].at = entries[j].at /\ Effect(es[j]) = Effect(entries[j])
      BY <1>4
    <3> QED BY <1>0, <1>4, <1>5, <3>1, EntryChanges, ExpectedIs DEF old
  <2>2. p = (IF old.at <= u THEN Effect(old) ELSE 0) /\ q = (IF t <= u THEN Effect(new) ELSE 0)
    BY <1>2 DEF EntryTerm
  <2> HIDE DEF x, y, p, q
  <2>3. ASSUME u < from PROVE y = x
    <3>1. ~(old.at <= u) /\ ~(t <= u)
      BY <1>1, <1>6, <2>3
    <3> QED BY <2>1, <2>2, <3>1
  <2>4. ASSUME u >= until PROVE y = x + delta
    <3>1. old.at <= u /\ t <= u
      BY <1>1, <1>6, <2>4
    <3> QED BY <2>1, <2>2, <3>1
  <2> QED BY <2>3, <2>4 DEF x, y
<1>9. NoCount \notin DOMAIN counts
  BY <1>0, RegisterAssumption DEF NoCount, Typed, CountId
<1>10. from \in Time /\ until \in Time /\ from <= until
  BY <1>1, <1>6
<1>11. Edited(entries, counts, es, counts, from, until, NoCount)
  <2> HIDE DEF delta
  <2> QED BY <1>0, <1>5, <1>7, <1>8, <1>9, <1>10 DEF Edited
<1> QED BY <1>0, <1>4, <1>11 DEF es, from, until, old, new

\* A movement gone.
LEMMA MovementDeleted ==
    ASSUME BooksInv, NEW i \in DOMAIN entries
    PROVE  LET es == RemoveAt(entries, i)
           IN  /\ Len(es) <= MaxEntries
               /\ Edited(entries, counts, es, counts, entries[i].at, entries[i].at, NoCount)
<1> DEFINE es == RemoveAt(entries, i)
           t == entries[i].at
           delta == -Effect(entries[i])
<1>0. /\ Typed(entries, counts) /\ Shape(counts) /\ entries \in Seq(Entry) /\ Len(entries) <= MaxEntries
      /\ Len(entries) \in Nat
  BY InvTyped DEF BooksInv, TypeOK
<1>1. t \in Time /\ t \in Nat /\ Effect(entries[i]) \in Int /\ delta \in Int
  BY <1>0, FieldTypes
<1>2. Typed(es, counts) /\ Len(es) = Len(entries) - 1
  BY <1>0, EntryRemoved
<1>3. Shifted(entries, counts, es, counts, t, t, delta)
  <2> SUFFICES ASSUME NEW u \in Nat
               PROVE  LET x == ExpectedUntil(entries, counts, u)
                          y == ExpectedUntil(es, counts, u)
                      IN  (u < t => y = x) /\ (u >= t => y = x + delta)
    BY DEF Shifted
  <2> DEFINE x == ExpectedUntil(entries, counts, u)
             y == ExpectedUntil(es, counts, u)
             p == EntryTerm(entries[i], u)
  <2>1. y = x - p /\ x \in Int
    BY <1>0, EntryRemoved, ExpectedIs
  <2>2. p = IF t <= u THEN Effect(entries[i]) ELSE 0
    BY DEF EntryTerm
  <2> HIDE DEF x, y, p
  <2>3. (u < t => y = x) /\ (u >= t => y = x + delta)
    BY <1>1, <2>1, <2>2
  <2> QED BY <2>3 DEF x, y
<1>4. NoCount \notin DOMAIN counts
  BY <1>0, RegisterAssumption DEF NoCount, Typed, CountId
<1>5. Len(es) <= MaxEntries
  BY <1>0, <1>2, RegisterAssumption
<1> HIDE DEF es, t, delta
<1>6. Edited(entries, counts, es, counts, t, t, NoCount)
  <2>1. t <= t
    BY <1>1
  <2> QED BY <1>0, <1>1, <1>2, <1>3, <1>4, <2>1 DEF Edited
<1> QED BY <1>5, <1>6 DEF es, t

\* A count counted anew, or moved between its neighbours.
LEMMA CountUpdated ==
    ASSUME BooksInv, NEW c \in DOMAIN counts, NEW counted \in 0..MaxAmount, NEW t \in Time,
           t # counts[c].at => CountOrderKept(c, t)
    PROVE  LET row == counts[c]
               expected == ExpectedAtCount(entries, counts, t, row.correction)
               updated == [counts EXCEPT ![c] = Recalculated([row EXCEPT !.counted = counted, !.at = t], expected)]
           IN  Edited(entries, counts, entries, updated, Min({row.at, t}), Max({row.at, t}), c)
<1> DEFINE row == counts[c]
           expected == ExpectedAtCount(entries, counts, t, row.correction)
           moved == [row EXCEPT !.counted = counted, !.at = t]
           updated == [counts EXCEPT ![c] = Recalculated(moved, expected)]
           from == Min({row.at, t})
           until == Max({row.at, t})
<1>0. Typed(entries, counts) /\ Shape(counts) /\ t \in Nat
  BY InvTyped, RegisterAssumption DEF BooksInv, Time
<1>1. /\ row \in Count /\ row.at \in Time /\ row.at \in Nat /\ row.counted \in Int /\ row.expected \in Int
      /\ row.correction.amount \in Int /\ row.correction.at = row.at
  BY <1>0, FieldTypes, CorrectionIs DEF Typed
<1>2. moved \in Count /\ moved.at = t /\ moved.counted = counted
  <2>1. row \in Count /\ counted \in 0..MaxAmount /\ t \in Time
    BY <1>1
  <2> HIDE DEF row
  <2>2. moved = Moved(row, counted, t)
    BY DEF Moved
  <2> HIDE DEF moved
  <2> QED BY <2>1, <2>2, MovedCount
<1> DEFINE x == ExpectedUntil(entries, counts, t)
           old == row.correction.amount
<1>3. /\ x \in Int /\ old \in Int /\ counted \in Int
      /\ expected = x - (IF row.at <= t THEN old ELSE 0) /\ expected \in Int
  <2>1. x \in Int
    BY <1>0, ExpectedIs
  <2> QED BY <1>1, <2>1, RegisterAssumption DEF ExpectedAtCount
<1> DEFINE new == Recalculated(moved, expected)
<1> HIDE DEF expected, moved
<1>4. /\ new \in Count /\ BooksDifference(new) /\ new.at = t /\ new.counted = counted
      /\ new.correction = [at |-> t, amount |-> counted - expected]
  BY <1>2, <1>3, RecalculatedIs
<1> HIDE DEF new
<1>5. /\ DOMAIN updated = DOMAIN counts /\ updated[c] = new
      /\ \A d \in DOMAIN counts \ {c} : updated[d] = counts[d]
  BY DEF new
<1> HIDE DEF updated
<1>6. Typed(entries, updated)
  BY <1>0, <1>4, <1>5 DEF Typed
<1>7. /\ from \in {row.at, t} /\ from <= row.at /\ from <= t
      /\ until \in {row.at, t} /\ until >= row.at /\ until >= t
  BY <1>0, <1>1, TwoTimes
<1> HIDE DEF from, until
<1>8. ASSUME NEW d \in DOMAIN counts, d # c
      PROVE  /\ counts[d].at # t
             /\ counts[d].at < t => counts[d].at < from
  <2>1. counts[d].at \in Nat /\ counts[d].at # row.at
    BY <1>0, <1>8, FieldTypes DEF Shape
  <2>2. CASE t = row.at
    BY <1>7, <2>1, <2>2
  <2>3. CASE t # row.at
    <3>1. (counts[d].at < row.at => counts[d].at < t) /\ (counts[d].at > row.at => counts[d].at > t)
      BY <2>3 DEF CountOrderKept
    <3> QED BY <1>0, <1>1, <1>7, <2>1, <3>1
  <2> QED BY <2>2, <2>3
<1>9. Shape(updated)
  <2>1. \A d \in DOMAIN updated : BooksDifference(updated[d])
    BY <1>0, <1>4, <1>5 DEF Shape
  <2>2. ASSUME NEW d \in DOMAIN updated, NEW e \in DOMAIN updated, updated[d].at = updated[e].at
        PROVE  d = e
    BY <1>0, <1>4, <1>5, <1>8, <2>2 DEF Shape
  <2> QED BY <2>1, <2>2 DEF Shape
<1> DEFINE delta == (counted - expected) - old
<1>10. ASSUME NEW u \in Nat
       PROVE  /\ ExpectedUntil(entries, updated, u)
                   = ExpectedUntil(entries, counts, u)
                       + ((IF t <= u THEN counted - expected ELSE 0) - (IF row.at <= u THEN old ELSE 0))
              /\ ExpectedUntil(entries, counts, u) \in Int
  <2>1. ExpectedUntil(entries, updated, u)
          = ExpectedUntil(entries, counts, u) + (CorrectionTerm(new, u) - CorrectionTerm(row, u))
    BY <1>0, <1>5, <1>6, CountChanges
  <2>2. /\ CorrectionTerm(new, u) = IF t <= u THEN counted - expected ELSE 0
        /\ CorrectionTerm(row, u) = IF row.at <= u THEN old ELSE 0
    BY <1>1, <1>4 DEF CorrectionTerm
  <2>3. ExpectedUntil(entries, counts, u) \in Int
    BY <1>0, ExpectedIs
  <2> QED BY <2>1, <2>2, <2>3
<1> HIDE DEF x, old
<1>11. Shifted(entries, counts, entries, updated, from, until, delta) /\ delta \in Int
  <2>1. delta \in Int
    BY <1>3
  <2> SUFFICES ASSUME NEW u \in Nat
               PROVE  LET y == ExpectedUntil(entries, counts, u)
                          z == ExpectedUntil(entries, updated, u)
                      IN  (u < from => z = y) /\ (u >= until => z = y + delta)
    BY <2>1 DEF Shifted
  <2> DEFINE y == ExpectedUntil(entries, counts, u)
             z == ExpectedUntil(entries, updated, u)
  <2>2. y \in Int /\ z = y + ((IF t <= u THEN counted - expected ELSE 0) - (IF row.at <= u THEN old ELSE 0))
    BY <1>10
  <2> HIDE DEF y, z
  <2>3. ASSUME u < from PROVE z = y
    <3>1. ~(t <= u) /\ ~(row.at <= u)
      BY <1>0, <1>1, <1>7, <2>3
    <3> QED BY <2>2, <3>1
  <2>4. ASSUME u >= until PROVE z = y + delta
    <3>1. t <= u /\ row.at <= u
      BY <1>0, <1>1, <1>7, <2>4
    <3> QED BY <1>3, <2>2, <3>1
  <2> QED BY <2>3, <2>4 DEF y, z
<1>12. Gap(entries, updated, c) = 0
  <2>1. ExpectedUntil(entries, updated, t) = x + ((counted - expected) - (IF row.at <= t THEN old ELSE 0))
    <3>1. t <= t
      BY <1>0
    <3> QED BY <1>0, <1>10, <3>1 DEF x
  <2>2. ExpectedUntil(entries, updated, t) = counted
    BY <1>3, <2>1
  <2> QED BY <1>3, <1>4, <1>5, <2>2 DEF Gap
<1>13. ASSUME NEW d \in DOMAIN updated, updated[d].at < updated[c].at PROVE updated[d].at < from
  <2>1. d # c
    BY <1>0, <1>4, <1>5, <1>13
  <2> QED BY <1>4, <1>5, <1>8, <1>13, <2>1
<1>14. from \in Time /\ until \in Time /\ from <= until
  BY <1>0, <1>1, <1>7
<1>15. Edited(entries, counts, entries, updated, from, until, c)
  <2> HIDE DEF delta
  <2> QED BY <1>0, <1>5, <1>6, <1>9, <1>11, <1>12, <1>13, <1>14 DEF Edited
<1> QED BY <1>15 DEF from, until, updated, new, moved, expected

\* A count gone, with its correction.
LEMMA CountDeleted ==
    ASSUME BooksInv, NEW c \in DOMAIN counts
    PROVE  Edited(entries, counts, entries, [d \in DOMAIN counts \ {c} |-> counts[d]], counts[c].at, counts[c].at, c)
<1> DEFINE rest == [d \in DOMAIN counts \ {c} |-> counts[d]]
           t == counts[c].at
           delta == -counts[c].correction.amount
<1>0. Typed(entries, counts) /\ Shape(counts)
  BY InvTyped DEF BooksInv
<1>1. t \in Time /\ t \in Nat /\ counts[c].correction.amount \in Int /\ delta \in Int /\ counts[c].correction.at = t
  BY <1>0, FieldTypes, CorrectionIs
<1>2. Typed(entries, rest) /\ Shape(rest)
  BY <1>0 DEF Typed, Shape
<1>3. Shifted(entries, counts, entries, rest, t, t, delta)
  <2> SUFFICES ASSUME NEW u \in Nat
               PROVE  LET x == ExpectedUntil(entries, counts, u)
                          y == ExpectedUntil(entries, rest, u)
                      IN  (u < t => y = x) /\ (u >= t => y = x + delta)
    BY DEF Shifted
  <2> DEFINE x == ExpectedUntil(entries, counts, u)
             y == ExpectedUntil(entries, rest, u)
             p == CorrectionTerm(counts[c], u)
  <2>1. x = y + p /\ y \in Int
    <3>1. DOMAIN rest = DOMAIN counts \ {c} /\ \A d \in DOMAIN rest : counts[d] = rest[d]
      OBVIOUS
    <3> HIDE DEF rest
    <3> QED BY <1>0, <1>2, <3>1, CountAdded, ExpectedIs
  <2>2. p = IF t <= u THEN counts[c].correction.amount ELSE 0
    BY <1>1 DEF CorrectionTerm
  <2> HIDE DEF x, y, p
  <2>3. (u < t => y = x) /\ (u >= t => y = x + delta)
    BY <1>1, <2>1, <2>2
  <2> QED BY <2>3 DEF x, y
<1>4. c \notin DOMAIN rest /\ \A d \in DOMAIN rest : d \in DOMAIN counts /\ rest[d] = counts[d]
  OBVIOUS
<1> HIDE DEF rest, t, delta
<1>5. Edited(entries, counts, entries, rest, t, t, c)
  <2>1. t <= t
    BY <1>1
  <2> QED BY <1>1, <1>2, <1>3, <1>4, <2>1 DEF Edited
<1> QED BY <1>5 DEF rest, t
\* An edit begins: the books as it sees them, with the counts it is about to recalculate.
LEMMA EditBegins ==
    ASSUME RegisterInv, NEW stage \in {"walking", "counted"}, NEW row \in Nat, row <= Len(entries),
           NEW becomes \in Seq(Entry), NEW cs, NEW from, NEW until, NEW skip,
           Edited(entries, counts, With(entries, row, becomes), cs, from, until, skip),
           Edit(stage, row, becomes, cs, from, until, skip)
    PROVE  RegisterInv'
<1> DEFINE es == With(entries, row, becomes)
           todo == Due(cs, from, skip)
           late == Covered(lateAt, from, until)
           torn == Covered(lateAt \cup tornAt, from, until)
           lowest == IF stage = "walking" THEN LowestBalance(entries, counts, from) ELSE 0
<1>0. /\ Typed(entries, counts) /\ Typed(es, cs) /\ Shape(cs) /\ TypeOK /\ BooksInv
      /\ from \in Time /\ until \in Time /\ from \in Nat /\ until \in Nat /\ from <= until /\ from > 0
  BY InvTyped, RegisterAssumption DEF RegisterInv, BooksInv, Edited, Time
<1>1. /\ work' = [stage |-> stage, row |-> row, becomes |-> becomes, counts |-> cs, todo |-> todo,
                  from |-> from, until |-> until, lowest |-> lowest, late |-> late, torn |-> torn]
      /\ UNCHANGED <<entries, counts, lateAt, tornAt>>
  BY DEF Edit
<1>2. todo \subseteq DOMAIN cs /\ \A c \in todo : cs[c].at >= from
  BY DEF Due
<1>3. /\ late \in {{}, {Mixed}} /\ torn \in {{}, {Mixed}}
      /\ Mixed \notin late \cup torn => late = {} /\ torn = {} /\ \A t \in lateAt \cup tornAt : from <= t /\ t <= until
  BY DEF Covered
<1>4. lowest \in Int
  BY <1>0, LowestIs
<1> HIDE DEF es, todo, late, torn, lowest
<1>5. /\ work'.stage = stage /\ work'.row = row /\ work'.becomes = becomes /\ work'.counts = cs /\ work'.todo = todo
      /\ work'.from = from /\ work'.until = until /\ work'.late = late /\ work'.torn = torn
  BY <1>1
<1>6. Seen' = es
  BY <1>1, <1>5 DEF Seen, With, es
<1>7. TypeOK'
  <2>1. Books(cs)
    BY <1>0 DEF Typed, Books
  <2>2. row \in 0..MaxEntries
    <3>1. Len(entries) <= MaxEntries /\ Len(entries) \in Nat /\ MaxEntries \in Nat
      BY <1>0, FieldTypes, RegisterAssumption DEF TypeOK
    <3> QED BY <3>1
  <2>3. todo \subseteq CountId /\ late \subseteq Time \cup {Mixed} /\ torn \subseteq Time \cup {Mixed}
    BY <1>0, <1>2, <1>3 DEF Typed
  <2>4. work' \in Work(cs)
    BY <1>0, <1>1, <1>4, <2>2, <2>3 DEF Work
  <2> QED BY <1>0, <1>1, <1>5, <2>1, <2>4 DEF TypeOK
<1>8. BooksInv'
  BY <1>0, <1>1, <1>7 DEF BooksInv
<1>9. Ahead(cs, todo)
  <2> SUFFICES ASSUME NEW c \in DOMAIN cs \ todo, NEW d \in todo PROVE cs[c].at < cs[d].at
    BY <1>2 DEF Ahead
  <2>1. /\ cs[c].at \in Nat /\ cs[d].at \in Nat /\ cs[d].at >= from /\ d # skip /\ d \in DOMAIN cs
        /\ c = skip \/ cs[c].at < from
    BY <1>0, <1>2, FieldTypes DEF todo, Due
  <2>2. CASE c = skip
    <3>1. ~(cs[d].at < cs[c].at)
      BY <1>0, <2>1, <2>2 DEF Edited
    <3>2. cs[d].at # cs[c].at
      BY <1>0, <2>1, <2>2 DEF Shape
    <3> QED BY <2>1, <3>1, <3>2
  <2>3. CASE c # skip
    BY <1>0, <2>1, <2>3
  <2> QED BY <2>2, <2>3
<1>10. ASSUME Mixed \notin late \cup torn PROVE Gaps(es, cs, todo, until, late \cup torn)
  <2>1. late \cup torn = {} /\ \A t \in lateAt \cup tornAt : from <= t /\ t <= until
    BY <1>3, <1>10
  <2>2. Mixed \notin lateAt \cup tornAt /\ lateAt \cup tornAt \subseteq Nat
    <3>1. lateAt \cup tornAt \subseteq Nat
      BY <1>0, WorkTypes
    <3> QED BY <1>0, <2>1, <3>1 DEF Mixed
  <2>3. Repairable(es, cs, from, until, skip)
    <3>1. Gaps(entries, counts, {}, 0, lateAt \cup tornAt)
      BY <1>0, <2>2 DEF BooksInv
    <3> QED BY <1>0, <2>1, <2>2, <3>1, EditRepairable DEF es
  <2>4. \A c \in DOMAIN cs \ todo : Gap(es, cs, c) = 0
    <3> SUFFICES ASSUME NEW c \in DOMAIN cs \ todo PROVE Gap(es, cs, c) = 0
      OBVIOUS
    <3>1. c = skip \/ cs[c].at < from
      BY <1>0, FieldTypes DEF todo, Due
    <3> QED BY <2>3, <3>1 DEF Repairable
  <2>5. ASSUME NEW c \in todo, NEW d \in todo, cs[c].at > until, cs[c].at <= cs[d].at PROVE Gap(es, cs, c) = Gap(es, cs, d)
    <3>1. cs[c].at \in Nat /\ cs[d].at \in Nat /\ c # skip /\ d # skip /\ c \in DOMAIN cs /\ d \in DOMAIN cs
      BY <1>0, FieldTypes DEF todo, Due
    <3>2. cs[d].at > until
      BY <1>0, <2>5, <3>1
    <3> QED BY <2>3, <2>5, <3>1, <3>2 DEF Repairable
  <2> QED BY <2>4, <2>5 DEF Gaps
<1>11. \A u \in Nat : u < from => ExpectedUntil(es, cs, u) = ExpectedUntil(entries, counts, u)
  BY DEF Edited, Shifted, es
<1>12. WorkInv'
  BY <1>0, <1>1, <1>2, <1>5, <1>6, <1>9, <1>10, <1>11 DEF WorkInv
<1> QED BY <1>8, <1>12 DEF RegisterInv

\* The balances are looked at.
LEMMA ReadKeepsInv ==
    ASSUME RegisterInv, ReadLowestBalance PROVE RegisterInv'
<1>0. TypeOK /\ BooksInv /\ WorkInv /\ Typed(entries, counts)
  BY InvTyped DEF RegisterInv, BooksInv
<1> DEFINE lowest == LowestBalance(entries, counts, work.from)
<1>1. lowest \in Int
  BY <1>0, LowestIs
<1> HIDE DEF lowest
<1>2. /\ work.stage = "counted" /\ UNCHANGED <<entries, counts, lateAt, tornAt>>
      /\ work' = [work EXCEPT !.stage = "walking", !.lowest = lowest]
  BY DEF ReadLowestBalance, lowest
<1>3. work \in Work(work.counts)
  BY <1>0 DEF TypeOK
<1>4. /\ work' \in Work(work.counts) /\ work'.stage = "walking"
      /\ work'.row = work.row /\ work'.becomes = work.becomes /\ work'.counts = work.counts
      /\ work'.todo = work.todo /\ work'.from = work.from /\ work'.until = work.until
      /\ work'.late = work.late /\ work'.torn = work.torn
  BY <1>1, <1>2, <1>3 DEF Work
<1>5. TypeOK' /\ BooksInv'
  BY <1>0, <1>2, <1>4 DEF TypeOK, BooksInv
<1>6. Seen' = Seen /\ work # Idle
  BY <1>2, <1>4 DEF Seen, Idle
<1>7. WorkInv'
  BY <1>0, <1>2, <1>4, <1>6 DEF WorkInv
<1> QED BY <1>5, <1>7 DEF RegisterInv

\* One count recalculated.
LEMMA ReconcileKeepsInv ==
    ASSUME RegisterInv, NEW c \in work.todo, ReconcileCount(c) PROVE RegisterInv'
<1> DEFINE cs == work.counts
           ks == Put(Seen, cs, c)
           rest == Left(Seen, cs, work.todo, work.until, c)
<1>0. /\ TypeOK /\ BooksInv /\ WorkInv /\ work # Idle /\ work.stage = "walking" /\ Typed(entries, cs)
      /\ work.until \in Nat /\ work.from \in Nat /\ work.todo \subseteq CountId
      /\ work.late \subseteq Nat /\ work.torn \subseteq Nat
  <2>1. TypeOK /\ BooksInv /\ WorkInv /\ work.stage = "walking"
    BY DEF RegisterInv, BooksInv, ReconcileCount
  <2>2. work # Idle
    BY <2>1 DEF Idle
  <2> QED BY <2>1, <2>2, WorkTypes
<1>1. /\ work.row <= Len(entries) /\ Shape(cs) /\ Ahead(cs, work.todo) /\ \A d \in work.todo : cs[d].at >= work.from
      /\ \A u \in Nat : u < work.from => ExpectedUntil(Seen, cs, u) = ExpectedUntil(entries, counts, u)
      /\ Mixed \notin work.late \cup work.torn =>
           Gaps(Seen, cs, work.todo, work.until, work.late \cup work.torn)
  BY <1>0 DEF WorkInv
<1>2. Typed(Seen, cs)
  BY <1>0, <1>1, SeenIs
<1>3. \A d \in work.todo : cs[c].at <= cs[d].at
  BY DEF ReconcileCount
<1>4. /\ UNCHANGED <<entries, counts, lateAt, tornAt>>
      /\ work' = [work EXCEPT !.counts = ks, !.todo = rest]
  <2>1. work \in Work(cs)
    BY <1>0 DEF TypeOK
  <2>2. UNCHANGED <<entries, counts, lateAt, tornAt>>
    BY DEF ReconcileCount
  <2> DEFINE x == Recount(Seen, cs, c)
  <2>3. work' = IF x # cs[c].expected
                THEN [work EXCEPT !.counts[c] = Recalculated(cs[c], x), !.todo = @ \ {c}]
                ELSE [work EXCEPT !.todo = IF cs[c].at > work.until THEN {} ELSE @ \ {c}]
    BY DEF ReconcileCount, Recount
  <2>4. CASE x # cs[c].expected
    <3>1. ks = [cs EXCEPT ![c] = Recalculated(cs[c], x)] /\ rest = work.todo \ {c}
      BY <2>4 DEF Put, Left, PutRight
    <3>2. work' = [work EXCEPT !.counts[c] = Recalculated(cs[c], x), !.todo = @ \ {c}]
      BY <2>3, <2>4
    <3> HIDE DEF x, ks, rest
    <3> QED BY <2>1, <2>2, <3>1, <3>2 DEF Work
  <2>5. CASE x = cs[c].expected
    <3>1. ks = cs /\ rest = IF cs[c].at > work.until THEN {} ELSE work.todo \ {c}
      BY <2>5 DEF Put, Left
    <3>2. work' = [work EXCEPT !.todo = IF cs[c].at > work.until THEN {} ELSE @ \ {c}]
      BY <2>3, <2>5
    <3> HIDE DEF x, ks, rest
    <3> QED BY <2>1, <2>2, <3>1, <3>2 DEF Work
  <2> QED BY <2>4, <2>5
<1>5. /\ Typed(Seen, ks) /\ Shape(ks) /\ Ahead(ks, rest) /\ DOMAIN ks = DOMAIN cs
      /\ \A d \in DOMAIN cs : ks[d].at = cs[d].at
      /\ \A u \in Nat : u < cs[c].at => ExpectedUntil(Seen, ks, u) = ExpectedUntil(Seen, cs, u)
      /\ \A late \in SUBSET Nat :
           Gaps(Seen, cs, work.todo, work.until, late) => Gaps(Seen, ks, rest, work.until, late)
  <2> HIDE DEF ks, rest
  <2> QED BY <1>0, <1>1, <1>2, <1>3, ReconcileKeepsGaps DEF ks, rest
<1>6. rest \subseteq work.todo
  BY DEF Left
<1> HIDE DEF ks, rest
<1>7. /\ work' \in Work(ks) /\ work'.stage = "walking" /\ work'.counts = ks /\ work'.todo = rest
      /\ work'.row = work.row /\ work'.becomes = work.becomes /\ work'.from = work.from /\ work'.until = work.until
      /\ work'.late = work.late /\ work'.torn = work.torn
  <2>1. work \in Work(cs)
    BY <1>0 DEF TypeOK
  <2>2. rest \subseteq CountId
    BY <1>0, <1>6
  <2> QED BY <1>0, <1>4, <2>1, <2>2 DEF Work
<1>8. TypeOK' /\ BooksInv'
  <2>1. Books(ks)
    BY <1>5 DEF Typed, Books
  <2>2. TypeOK'
    BY <1>0, <1>4, <1>7, <2>1 DEF TypeOK
  <2> QED BY <1>0, <1>4, <2>2 DEF BooksInv
<1>9. Seen' = Seen
  BY <1>4, <1>7 DEF Seen
<1>10. ASSUME NEW d \in rest PROVE ks[d].at >= work.from
  BY <1>1, <1>5, <1>6 DEF Ahead
<1>11. ASSUME NEW u \in Nat, u < work.from PROVE ExpectedUntil(Seen, ks, u) = ExpectedUntil(entries, counts, u)
  <2>1. u < cs[c].at
    <3>1. cs[c].at \in Nat /\ cs[c].at >= work.from
      BY <1>0, <1>1, FieldTypes DEF Ahead
    <3> QED BY <1>0, <1>11, <3>1
  <2> QED BY <1>1, <1>5, <1>11, <2>1
<1>12. ASSUME Mixed \notin work.late \cup work.torn PROVE Gaps(Seen, ks, rest, work.until, work.late \cup work.torn)
  <2> DEFINE late == work.late \cup work.torn
  <2>1. late \in SUBSET Nat /\ Gaps(Seen, cs, work.todo, work.until, late)
    BY <1>0, <1>1, <1>12
  <2> HIDE DEF late
  <2>2. Gaps(Seen, ks, rest, work.until, late)
    BY <1>5, <2>1
  <2> QED BY <2>2 DEF late
<1>13. work.from \in Time /\ work.until \in Time
  BY <1>0 DEF WorkInv
<1>14. WorkInv'
  BY <1>1, <1>4, <1>5, <1>7, <1>9, <1>10, <1>11, <1>12, <1>13 DEF WorkInv
<1> QED BY <1>8, <1>14 DEF RegisterInv
-----------------------------------------------------------------------------
(* Bookings and new counts *)

\* A receipt given back.
Closed(e) == [e EXCEPT !.open = FALSE]

LEMMA ClosedIs ==
    ASSUME NEW e \in Entry
    PROVE  Closed(e) \in Entry /\ Closed(e).at = e.at /\ Closed(e).kind = e.kind /\ Closed(e).amount = e.amount
BY DEF Entry, Closed


\* Giving back a receipt changes neither its time nor what it did to the cash.
LEMMA ClosedReceipt ==
    ASSUME NEW es \in Seq(Entry), NEW i \in DOMAIN es
    PROVE  LET fs == [es EXCEPT ![i].open = FALSE]
           IN  /\ fs \in Seq(Entry) /\ Len(fs) = Len(es)
               /\ \A j \in DOMAIN es : /\ fs[j].kind = es[j].kind /\ fs[j].at = es[j].at
                                       /\ Effect(fs[j]) = Effect(es[j])
<1> DEFINE fs == [es EXCEPT ![i].open = FALSE]
           old == es[i]
           new == [old EXCEPT !.open = FALSE]
<1>0. old \in Entry
  OBVIOUS
<1>1. new \in Entry /\ new.at = old.at /\ Effect(new) = Effect(old) /\ new.kind = old.kind
  <2>1. new = Closed(old)
    BY DEF Closed
  <2> HIDE DEF old, new
  <2> QED BY <1>0, <2>1, ClosedIs DEF Effect
<1>2. fs = [es EXCEPT ![i] = new]
  BY <1>0
<1> HIDE DEF fs, new, old
<1>3. /\ fs \in Seq(Entry) /\ Len(fs) = Len(es) /\ DOMAIN fs = DOMAIN es /\ fs[i] = new
      /\ \A j \in DOMAIN es \ {i} : fs[j] = es[j]
  BY <1>0, <1>1, <1>2
<1> QED BY <1>1, <1>3 DEF fs, old

\* The books es with the same times and effects as the entries, and e booked at their end.
AddsEntry(es, e) ==
    /\ es \in Seq(Entry) /\ Len(es) = Len(entries) /\ e \in Entry
    /\ \A j \in DOMAIN entries : es[j].at = entries[j].at /\ Effect(es[j]) = Effect(entries[j])
    /\ entries' = Append(es, e)

LEMMA BookedFigures ==
    ASSUME NEW cs, Typed(entries, cs), NEW es, NEW e, AddsEntry(es, e)
    PROVE  /\ Typed(entries', cs) /\ Len(entries') = Len(entries) + 1
           /\ \A u : ExpectedUntil(entries', cs, u) = ExpectedUntil(entries, cs, u) + EntryTerm(e, u)
           /\ \A j \in DOMAIN entries : /\ j \in DOMAIN entries'
                                        /\ \A u : EntryTerm(entries'[j], u) = EntryTerm(entries[j], u)
<1>1. /\ es \in Seq(Entry) /\ Len(es) = Len(entries) /\ e \in Entry /\ entries' = Append(es, e)
      /\ \A j \in DOMAIN entries : es[j].at = entries[j].at /\ Effect(es[j]) = Effect(entries[j])
      /\ DOMAIN entries = 1..Len(entries) /\ Len(entries) \in Nat
  BY FieldTypes DEF AddsEntry
<1>2. Typed(es, cs) /\ DOMAIN es = DOMAIN entries
  BY <1>1 DEF Typed
<1>3. \A u : ExpectedUntil(es, cs, u) = ExpectedUntil(entries, cs, u)
  <2> SUFFICES ASSUME NEW u PROVE ExpectedUntil(es, cs, u) = ExpectedUntil(entries, cs, u)
    OBVIOUS
  <2>1. EntryTerms(es, u) = EntryTerms(entries, u)
    BY <1>1, <1>2 DEF EntryTerms
  <2> QED BY <1>2, <2>1, ExpectedIs
<1>4. Typed(entries', cs) /\ \A u : ExpectedUntil(entries', cs, u) = ExpectedUntil(es, cs, u) + EntryTerm(e, u)
  BY <1>1, <1>2, EntryAdded
<1>5. Len(entries') = Len(entries) + 1 /\ \A j \in 1..Len(es) : entries'[j] = es[j]
  BY <1>1, AppendProperties
<1>6. DOMAIN entries' = 1..(Len(entries) + 1)
  BY <1>4, <1>5, FieldTypes
<1>7. ASSUME NEW j \in DOMAIN entries, NEW u
      PROVE  j \in DOMAIN entries' /\ EntryTerm(entries'[j], u) = EntryTerm(entries[j], u)
  BY <1>1, <1>5, <1>6 DEF EntryTerm
<1> QED BY <1>3, <1>4, <1>5, <1>7

\* What is noted: a set of times that grows, and holds what is added unless it is mixed.
LEMMA NotedIs ==
    ASSUME NEW S, NEW T
    PROVE  /\ S \subseteq Noted(S, T) /\ Noted(S, T) \subseteq S \cup T
           /\ Mixed \notin Noted(S, T) => T \subseteq Noted(S, T)
BY DEF Noted

\* What Late notes for the recorded counts and for those of the transaction under way.
LEMMA LateIs ==
    ASSUME TypeOK, work.todo \subseteq DOMAIN work.counts, NEW t \in Time, Late(t)
    PROVE  /\ tornAt' = tornAt /\ lateAt' \subseteq Time \cup {Mixed} /\ lateAt \subseteq lateAt'
           /\ Mixed \notin lateAt' => \A c \in DOMAIN counts : counts[c].at >= t => t \in lateAt'
           /\ work' \in Work(work.counts) /\ work'.counts = work.counts /\ work'.stage = work.stage
           /\ work'.row = work.row /\ work'.becomes = work.becomes /\ work'.todo = work.todo
           /\ work'.from = work.from /\ work'.until = work.until
           /\ work.late \subseteq work'.late /\ work.torn \subseteq work'.torn
           /\ Mixed \notin work'.late => \A c \in DOMAIN work.counts : work.counts[c].at >= t => t \in work'.late
           /\ Mixed \notin work'.torn =>
                \A c \in DOMAIN work.counts \ work.todo, d \in work.todo :
                  work.counts[c].at >= t /\ (\A b \in work.todo : work.counts[d].at <= work.counts[b].at)
                    => work.counts[d].at \in work'.torn
           /\ work = Idle => work' = Idle
<1> DEFINE Missed(cs) == IF \E c \in DOMAIN cs : cs[c].at >= t THEN {t} ELSE {}
           Oldest == {c \in work.todo : \A d \in work.todo : work.counts[c].at <= work.counts[d].at}
           Tears == \E c \in DOMAIN work.counts \ work.todo : work.counts[c].at >= t
           tears == IF Tears THEN {work.counts[c].at : c \in Oldest} ELSE {}
           late == Noted(work.late, Missed(work.counts))
           torn == Noted(work.torn, tears)
<1>1. /\ lateAt' = Noted(lateAt, Missed(counts)) /\ tornAt' = tornAt
      /\ work' = [work EXCEPT !.late = late, !.torn = torn]
  BY DEF Late
<1>2. work \in Work(work.counts) /\ Typed(entries, work.counts) /\ lateAt \subseteq Time \cup {Mixed}
  BY WorkTypes DEF TypeOK
<1>3. Missed(counts) \subseteq Time /\ Missed(work.counts) \subseteq Time
  OBVIOUS
<1>4. lateAt' \subseteq Time \cup {Mixed} /\ lateAt \subseteq lateAt'
  BY <1>1, <1>2, <1>3, NotedIs
<1>5. ASSUME Mixed \notin lateAt', NEW c \in DOMAIN counts, counts[c].at >= t PROVE t \in lateAt'
  BY <1>1, <1>5, NotedIs
<1>6. work.late \subseteq late /\ late \subseteq Time \cup {Mixed}
  BY <1>2, <1>3, NotedIs, WorkTypes
<1>7. ASSUME Mixed \notin late, NEW c \in DOMAIN work.counts, work.counts[c].at >= t PROVE t \in late
  BY <1>7, NotedIs
<1>8. work.torn \subseteq torn /\ torn \subseteq Time \cup {Mixed}
  <2>1. \A c \in work.todo : work.counts[c].at \in Time
    BY <1>2, FieldTypes
  <2>2. tears \subseteq Time
    BY <2>1
  <2> QED BY <2>2, NotedIs, WorkTypes
<1>9. ASSUME Mixed \notin torn, NEW c \in DOMAIN work.counts \ work.todo, NEW d \in work.todo, work.counts[c].at >= t,
             \A b \in work.todo : work.counts[d].at <= work.counts[b].at
      PROVE  work.counts[d].at \in torn
  <2>1. work.counts[d].at \in tears
    BY <1>9
  <2> HIDE DEF tears
  <2> QED BY <1>9, <2>1, NotedIs
<1>10. ASSUME work = Idle PROVE late = {} /\ torn = {}
  <2>1. DOMAIN work.counts = {} /\ work.todo = {} /\ work.late = {} /\ work.torn = {}
    BY <1>10, IdleWork
  <2>2. Missed(work.counts) = {} /\ tears = {}
    BY <2>1
  <2> HIDE DEF tears, Missed
  <2> QED BY <2>1, <2>2 DEF Noted
<1> HIDE DEF late, torn
<1>11. /\ work' \in Work(work.counts) /\ work'.counts = work.counts /\ work'.stage = work.stage
       /\ work'.row = work.row /\ work'.becomes = work.becomes /\ work'.todo = work.todo
       /\ work'.from = work.from /\ work'.until = work.until /\ work'.late = late /\ work'.torn = torn
  BY <1>1, <1>2, <1>6, <1>8 DEF Work
<1>12. work = Idle => work' = Idle
  <2> SUFFICES ASSUME work = Idle PROVE work' = Idle
    OBVIOUS
  <2>1. work' = [Idle EXCEPT !.late = {}, !.torn = {}]
    BY <1>1, <1>10
  <2> QED BY <2>1 DEF Idle
<1>13. tornAt' = tornAt
  BY <1>1
<1>14. /\ Mixed \notin work'.late => \A c \in DOMAIN work.counts : work.counts[c].at >= t => t \in work'.late
       /\ Mixed \notin work'.torn =>
            \A c \in DOMAIN work.counts \ work.todo, d \in work.todo :
              work.counts[c].at >= t /\ (\A b \in work.todo : work.counts[d].at <= work.counts[b].at)
                => work.counts[d].at \in work'.torn
  BY <1>7, <1>9, <1>11
<1> QED BY <1>4, <1>5, <1>6, <1>8, <1>11, <1>12, <1>13, <1>14

\* Receipts, reversals and new movements.
LEMMA BookingKeepsInv ==
    ASSUME RegisterInv, Len(entries) < MaxEntries, NEW es, NEW e, AddsEntry(es, e), Late(e.at), UNCHANGED counts
    PROVE  RegisterInv'
<1>0. /\ BooksInv /\ TypeOK /\ WorkInv /\ Typed(entries, counts) /\ Typed(entries, work.counts) /\ e \in Entry
      /\ e.at \in Time /\ e.at \in Nat /\ Len(entries) \in Nat
      /\ work.late \subseteq Nat /\ work.torn \subseteq Nat /\ lateAt \subseteq Nat /\ tornAt \subseteq Nat
  <2>1. TypeOK /\ BooksInv /\ WorkInv /\ e \in Entry
    BY DEF RegisterInv, BooksInv, AddsEntry
  <2> QED BY <2>1, WorkTypes, FieldTypes, RegisterAssumption DEF Entry, Time
<1>1. work.todo \subseteq DOMAIN work.counts
  <2>1. CASE work = Idle
    BY <2>1, IdleWork
  <2> QED BY <1>0, <2>1 DEF WorkInv, Ahead
<1>2. /\ tornAt' = tornAt /\ lateAt' \subseteq Time \cup {Mixed} /\ lateAt \subseteq lateAt'
      /\ Mixed \notin lateAt' => \A c \in DOMAIN counts : counts[c].at >= e.at => e.at \in lateAt'
      /\ work' \in Work(work.counts) /\ work'.counts = work.counts /\ work'.stage = work.stage
      /\ work'.row = work.row /\ work'.becomes = work.becomes /\ work'.todo = work.todo
      /\ work'.from = work.from /\ work'.until = work.until
      /\ work.late \subseteq work'.late /\ work.torn \subseteq work'.torn
      /\ Mixed \notin work'.late => \A c \in DOMAIN work.counts : work.counts[c].at >= e.at => e.at \in work'.late
      /\ Mixed \notin work'.torn =>
           \A c \in DOMAIN work.counts \ work.todo, d \in work.todo :
             work.counts[c].at >= e.at /\ (\A b \in work.todo : work.counts[d].at <= work.counts[b].at)
               => work.counts[d].at \in work'.torn
      /\ work = Idle => work' = Idle
  BY <1>0, <1>1, LateIs
<1>3. /\ Typed(entries', counts) /\ Typed(entries', work.counts) /\ Len(entries') = Len(entries) + 1
      /\ \A u : ExpectedUntil(entries', counts, u) = ExpectedUntil(entries, counts, u) + EntryTerm(e, u)
      /\ \A u : ExpectedUntil(entries', work.counts, u) = ExpectedUntil(entries, work.counts, u) + EntryTerm(e, u)
      /\ \A j \in DOMAIN entries : /\ j \in DOMAIN entries'
                                   /\ \A u : EntryTerm(entries'[j], u) = EntryTerm(entries[j], u)
  BY <1>0, BookedFigures
<1>4. TypeOK'
  <2>1. Len(entries') <= MaxEntries
    BY <1>0, <1>3, RegisterAssumption
  <2>2. entries' \in Seq(Entry) /\ Books(counts) /\ Books(work.counts)
    BY <1>0, <1>3 DEF Typed, Books
  <2> QED BY <1>0, <1>2, <2>1, <2>2 DEF TypeOK
<1>5. ASSUME Mixed \notin lateAt' \cup tornAt' PROVE Gaps(entries', counts, {}, 0, lateAt' \cup tornAt')
  <2>1. Gaps(entries, counts, {}, 0, lateAt \cup tornAt) /\ lateAt \cup tornAt \subseteq lateAt' \cup tornAt'
    BY <1>0, <1>2, <1>5 DEF BooksInv
  <2>2. \A c \in DOMAIN counts : counts[c].at >= e.at => e.at \in lateAt' \cup tornAt'
    BY <1>2, <1>5
  <2>3. {} \subseteq DOMAIN counts
    OBVIOUS
  <2>4. \A c \in DOMAIN counts \ {}, d \in {} :
          counts[c].at >= e.at => ~NoneIn(lateAt' \cup tornAt', counts[c].at, counts[d].at)
    OBVIOUS
  <2>5. \A u \in Nat : ExpectedUntil(entries', counts, u) = ExpectedUntil(entries, counts, u) + EntryTerm(e, u)
    BY <1>3
  <2> DEFINE late == lateAt \cup tornAt
             now == lateAt' \cup tornAt'
             fs == entries'
             none == {}
  <2>6. Gaps(entries, counts, none, 0, late) /\ late \subseteq now /\ Typed(fs, counts)
        /\ \A c \in DOMAIN counts \ none, d \in none : counts[c].at >= e.at => ~NoneIn(now, counts[c].at, counts[d].at)
    BY <1>3, <2>1, <2>4
  <2>7. /\ \A c \in DOMAIN counts : counts[c].at >= e.at => e.at \in now
        /\ none \subseteq DOMAIN counts
        /\ \A u \in Nat : ExpectedUntil(fs, counts, u) = ExpectedUntil(entries, counts, u) + EntryTerm(e, u)
    BY <2>2, <2>5
  <2> HIDE DEF late, now, fs, none
  <2>8. Gaps(fs, counts, none, 0, now)
    BY <1>0, <2>6, <2>7, BookingKeepsGaps
  <2> QED BY <2>8 DEF fs, none, now
<1>6. BooksInv'
  BY <1>0, <1>4, <1>5 DEF BooksInv
<1>7. ASSUME work' # Idle
      PROVE  /\ work'.stage # "idle"
             /\ work'.row <= Len(entries') /\ work'.from \in Time /\ work'.until \in Time
             /\ Shape(work'.counts) /\ Ahead(work'.counts, work'.todo)
             /\ \A c \in work'.todo : work'.counts[c].at >= work'.from
             /\ work'.stage = "recording" =>
                  /\ work'.row = 0 /\ work'.todo = {}
                  /\ \E n \in DOMAIN work'.counts : /\ DOMAIN counts = DOMAIN work'.counts \ {n}
                                                    /\ \A c \in DOMAIN counts : work'.counts[c] = counts[c]
             /\ work'.stage # "recording" =>
                  \A u \in Nat : u < work'.from =>
                    ExpectedUntil(Seen', work'.counts, u) = ExpectedUntil(entries', counts, u)
             /\ Mixed \notin work'.late \cup work'.torn =>
                  Gaps(Seen', work'.counts, work'.todo, work'.until, work'.late \cup work'.torn)
  <2>1. work # Idle /\ work.row <= Len(entries) /\ work.row \in Nat /\ work.becomes \in Seq(Entry)
    BY <1>0, <1>2, <1>7, WorkTypes DEF WorkInv
  <2>2. \A u : Change(entries', work.row, work.becomes, u) = Change(entries, work.row, work.becomes, u)
    <3>1. CASE work.row = 0
      BY <3>1 DEF Change
    <3>2. CASE work.row # 0
      <4>1. work.row \in DOMAIN entries
        BY <1>0, <2>1, <3>2, FieldTypes
      <4>2. \A u : EntryTerm(entries'[work.row], u) = EntryTerm(entries[work.row], u)
        BY <1>3, <4>1
      <4> QED BY <4>2 DEF Change
    <3> QED BY <3>1, <3>2
  <2>3. /\ Seen' = With(entries', work.row, work.becomes)
        /\ Seen = With(entries, work.row, work.becomes)
    BY <1>2 DEF Seen, With
  <2>4. /\ Typed(Seen, work.counts)
        /\ \A u : /\ ExpectedUntil(Seen, work.counts, u)
                       = ExpectedUntil(entries, work.counts, u) + Change(entries, work.row, work.becomes, u)
                  /\ Change(entries, work.row, work.becomes, u) \in Int
    BY <1>0, <2>1, <2>3, WithIs
  <2>5. /\ Typed(Seen', work.counts)
        /\ \A u : ExpectedUntil(Seen', work.counts, u)
                    = ExpectedUntil(entries', work.counts, u) + Change(entries', work.row, work.becomes, u)
    <3>1. work.row <= Len(entries')
      BY <1>0, <1>3, <2>1
    <3> DEFINE fs == entries'
    <3>2. Typed(fs, work.counts) /\ work.row <= Len(fs)
      BY <1>3, <3>1
    <3> HIDE DEF fs
    <3>3. /\ Typed(With(fs, work.row, work.becomes), work.counts)
          /\ \A u : ExpectedUntil(With(fs, work.row, work.becomes), work.counts, u)
                      = ExpectedUntil(fs, work.counts, u) + Change(fs, work.row, work.becomes, u)
      BY <2>1, <3>2, WithIs
    <3> QED BY <2>3, <3>3 DEF fs
  <2>6. \A u : EntryTerm(e, u) \in Int
    <3>1. Typed(<<e>>, counts) /\ 1 \in DOMAIN <<e>> /\ <<e>>[1] = e
      BY <1>0 DEF Typed
    <3>2. Effect(e) \in Int
      BY <3>1, FieldTypes
    <3> QED BY <3>2 DEF EntryTerm
  <2>7. \A u : ExpectedUntil(Seen', work.counts, u) = ExpectedUntil(Seen, work.counts, u) + EntryTerm(e, u)
    <3> SUFFICES ASSUME NEW u
                 PROVE  ExpectedUntil(Seen', work.counts, u) = ExpectedUntil(Seen, work.counts, u) + EntryTerm(e, u)
      OBVIOUS
    <3> DEFINE a == ExpectedUntil(entries, work.counts, u)
               b == Change(entries, work.row, work.becomes, u)
    <3>1. a \in Int /\ b \in Int /\ EntryTerm(e, u) \in Int
      BY <1>0, <2>4, <2>6, ExpectedIs
    <3>2. /\ ExpectedUntil(Seen', work.counts, u) = (a + EntryTerm(e, u)) + b
          /\ ExpectedUntil(Seen, work.counts, u) = a + b
      BY <1>3, <2>2, <2>4, <2>5
    <3> HIDE DEF a, b
    <3> QED BY <3>1, <3>2
  <2>8. /\ Shape(work.counts) /\ Ahead(work.counts, work.todo) /\ work.stage # "idle" /\ work.from \in Time
        /\ work.until \in Time /\ \A c \in work.todo : work.counts[c].at >= work.from
        /\ work.stage = "recording" =>
             /\ work.row = 0 /\ work.todo = {}
             /\ \E n \in DOMAIN work.counts : /\ DOMAIN counts = DOMAIN work.counts \ {n}
                                              /\ \A c \in DOMAIN counts : work.counts[c] = counts[c]
        /\ work.stage # "recording" =>
             \A u \in Nat : u < work.from => ExpectedUntil(Seen, work.counts, u) = ExpectedUntil(entries, counts, u)
        /\ Mixed \notin work.late \cup work.torn =>
             Gaps(Seen, work.counts, work.todo, work.until, work.late \cup work.torn)
    BY <1>0, <2>1 DEF WorkInv
  <2>9. ASSUME work.stage # "recording", NEW u \in Nat, u < work.from
        PROVE  ExpectedUntil(Seen', work.counts, u) = ExpectedUntil(entries', counts, u)
    BY <1>3, <2>7, <2>8, <2>9
  <2>10. ASSUME Mixed \notin work'.late \cup work'.torn
         PROVE  Gaps(Seen', work.counts, work.todo, work.until, work'.late \cup work'.torn)
    <3> DEFINE cs == work.counts
               todo == work.todo
               late == work.late \cup work.torn
               now == work'.late \cup work'.torn
               es1 == Seen
               fs == Seen'
    <3>1. late \subseteq now /\ Gaps(es1, cs, todo, work.until, late) /\ todo \subseteq DOMAIN cs
      BY <1>1, <1>2, <2>8, <2>10
    <3>2. \A c \in DOMAIN cs : cs[c].at >= e.at => e.at \in now
      BY <1>2, <2>10
    <3>3. ASSUME NEW c \in DOMAIN cs \ todo, NEW d \in todo, cs[c].at >= e.at
          PROVE  ~NoneIn(now, cs[c].at, cs[d].at)
      <4>1. PICK o \in todo : \A b \in todo : cs[o].at <= cs[b].at
        <5> DEFINE T == {cs[b].at : b \in todo}
        <5>1. T \subseteq Nat /\ T # {}
          BY <1>0, <1>1, FieldTypes
        <5> HIDE DEF T
        <5>2. PICK m \in T : \A x \in T : m <= x
          BY <5>1, LeastNatural
        <5> QED BY <5>2 DEF T
      <4>2. cs[o].at \in now
        BY <1>2, <2>10, <3>3, <4>1
      <4>3. cs[c].at < cs[o].at /\ cs[o].at <= cs[d].at
        BY <2>8, <4>1 DEF Ahead
      <4> QED BY <4>2, <4>3 DEF NoneIn
    <3>4. /\ Typed(es1, cs) /\ Typed(fs, cs)
          /\ \A u \in Nat : ExpectedUntil(fs, cs, u) = ExpectedUntil(es1, cs, u) + EntryTerm(e, u)
      BY <2>4, <2>5, <2>7
    <3> HIDE DEF cs, todo, late, now, es1, fs
    <3>5. Gaps(fs, cs, todo, work.until, now)
      BY <1>0, <3>1, <3>2, <3>3, <3>4, BookingKeepsGaps
    <3> QED BY <3>5 DEF cs, todo, now, fs
  <2>11. work.row <= Len(entries')
    BY <1>0, <1>3, <2>1
  <2> QED BY <1>2, <2>8, <2>9, <2>10, <2>11
<1>8. WorkInv'
  BY <1>7 DEF WorkInv
<1> QED BY <1>6, <1>8 DEF RegisterInv
\* What recording a count does to the counts and the figures.
LEMMA CountRecorded ==
    ASSUME RegisterInv, NEW counted \in 0..MaxAmount, NEW t \in Time, RecordCashCount(counted, t)
    PROVE  /\ Typed(entries, work'.counts)
           /\ \E n \in DOMAIN work'.counts : /\ DOMAIN counts = DOMAIN work'.counts \ {n}
                                             /\ BooksDifference(work'.counts[n])
                                             /\ work'.counts[n].at = t /\ work'.counts[n].counted = counted
                                             /\ \A c \in DOMAIN counts : work'.counts[c] = counts[c]
           /\ \A u \in Nat :
                ExpectedUntil(entries, work'.counts, u)
                  = ExpectedUntil(entries, counts, u)
                      + (IF t <= u THEN counted - ExpectedUntil(entries, counts, t) ELSE 0)
           /\ work' = [Idle EXCEPT !.stage = "recording", !.from = t, !.until = t, !.counts = work'.counts,
                                   !.late = IF lateAt = {} THEN {} ELSE {Mixed},
                                   !.torn = IF lateAt \cup tornAt = {} THEN {} ELSE {Mixed}]
<1> DEFINE expected == ExpectedUntil(entries, counts, t)
           free == CountId \ DOMAIN counts
           n == Min(free)
           new == [at |-> t, counted |-> counted, expected |-> expected,
                   correction |-> [at |-> t, amount |-> counted - expected]]
           cs == [c \in DOMAIN counts \cup {n} |-> IF c \in DOMAIN counts THEN counts[c] ELSE new]
           late == IF lateAt = {} THEN {} ELSE {Mixed}
           torn == IF lateAt \cup tornAt = {} THEN {} ELSE {Mixed}
<1>0. Typed(entries, counts) /\ TypeOK /\ Shape(counts) /\ t \in Nat
  BY InvTyped, RegisterAssumption DEF RegisterInv, BooksInv, Time
<1>1. n \in free
  <2>1. free # {} /\ free \subseteq Nat
    BY DEF RecordCashCount, CountId
  <2> HIDE DEF free
  <2>2. \E x \in free : \A y \in free : x <= y
    BY <2>1, LeastNatural
  <2> QED BY <2>2 DEF Min
<1>2. work' = [Idle EXCEPT !.stage = "recording", !.from = t, !.until = t, !.counts = cs, !.late = late, !.torn = torn]
  BY DEF RecordCashCount
<1>3. expected \in Int /\ counted \in Int
  BY <1>0, ExpectedIs, RegisterAssumption
<1>4. new \in Count /\ BooksDifference(new) /\ new.at = t /\ new.counted = counted
  <2> HIDE DEF expected
  <2>1. [at |-> t, amount |-> counted - expected] \in [at : Time, amount : Int]
    BY <1>3
  <2> QED BY <1>3, <2>1 DEF Count, BooksDifference
<1> HIDE DEF new, n, expected, late, torn
<1>5. /\ DOMAIN cs = DOMAIN counts \cup {n} /\ n \notin DOMAIN counts /\ n \in CountId /\ cs[n] = new
      /\ \A c \in DOMAIN counts : cs[c] = counts[c]
  BY <1>1
<1> HIDE DEF cs
<1>6. work'.counts = cs
  BY <1>2 DEF Idle
<1>7. Typed(entries, cs)
  BY <1>0, <1>4, <1>5 DEF Typed
<1>8. ASSUME NEW u \in Nat
       PROVE  ExpectedUntil(entries, cs, u)
                = ExpectedUntil(entries, counts, u) + (IF t <= u THEN counted - expected ELSE 0)
  <2>1. n \in DOMAIN cs /\ DOMAIN counts = DOMAIN cs \ {n} /\ \A d \in DOMAIN counts : cs[d] = counts[d]
    BY <1>5
  <2>2. ExpectedUntil(entries, cs, u) = ExpectedUntil(entries, counts, u) + CorrectionTerm(cs[n], u)
    BY <1>0, <1>7, <2>1, CountAdded
  <2>3. CorrectionTerm(cs[n], u) = IF t <= u THEN counted - expected ELSE 0
    BY <1>5 DEF CorrectionTerm, new
  <2> QED BY <2>2, <2>3
<1>9. DOMAIN counts = DOMAIN cs \ {n} /\ n \in DOMAIN cs
  BY <1>5
<1> QED BY <1>2, <1>4, <1>5, <1>6, <1>7, <1>8, <1>9 DEF expected, late, torn

\* A new count: the last one, and it lacks nothing.
LEMMA RecordKeepsInv ==
    ASSUME RegisterInv, NEW counted \in 0..MaxAmount, NEW t \in Time, RecordCashCount(counted, t)
    PROVE  RegisterInv'
<1> DEFINE cs == work'.counts
<1>0. Typed(entries, counts) /\ TypeOK /\ Shape(counts) /\ t \in Nat /\ counted \in Int /\ BooksInv
  BY InvTyped, RegisterAssumption DEF RegisterInv, BooksInv, Time
<1>1. UNCHANGED <<entries, counts, lateAt, tornAt>> /\ \A c \in DOMAIN counts : t > counts[c].at
  BY DEF RecordCashCount
<1>2. Typed(entries, cs)
  BY CountRecorded
<1>3. PICK n \in DOMAIN cs : /\ DOMAIN counts = DOMAIN cs \ {n}
                             /\ BooksDifference(cs[n])
                             /\ cs[n].at = t /\ cs[n].counted = counted
                             /\ \A c \in DOMAIN counts : cs[c] = counts[c]
  BY CountRecorded
<1> DEFINE expected == ExpectedUntil(entries, counts, t)
           late == IF lateAt = {} THEN {} ELSE {Mixed}
           torn == IF lateAt \cup tornAt = {} THEN {} ELSE {Mixed}
<1>4. \A u \in Nat : ExpectedUntil(entries, cs, u)
                       = ExpectedUntil(entries, counts, u) + (IF t <= u THEN counted - expected ELSE 0)
  BY CountRecorded
<1>5. \A u \in Nat : ExpectedUntil(entries, counts, u) \in Int
  BY <1>0, ExpectedIs
<1>6. expected \in Int
  BY <1>0, <1>5
<1>7. work' = [Idle EXCEPT !.stage = "recording", !.from = t, !.until = t, !.counts = cs,
                            !.late = late, !.torn = torn]
  BY CountRecorded
<1> HIDE DEF expected
<1>8. /\ Mixed \notin late \cup torn => lateAt = {} /\ tornAt = {} /\ late \cup torn = {}
  OBVIOUS
<1>9. late \in SUBSET (Time \cup {Mixed}) /\ torn \in SUBSET (Time \cup {Mixed})
  OBVIOUS
<1> HIDE DEF late, torn, cs
<1>10. /\ work' \in Work(cs) /\ work'.stage = "recording" /\ work'.row = 0 /\ work'.todo = {} /\ work'.from = t
       /\ work'.until = t /\ work'.late = late /\ work'.torn = torn /\ work'.becomes = <<>>
  <2>1. work' = [stage |-> "recording", row |-> 0, becomes |-> <<>>, counts |-> cs, todo |-> {}, from |-> t,
                 until |-> t, lowest |-> 0, late |-> late, torn |-> torn]
    BY <1>7 DEF Idle
  <2>2. 0 \in 0..MaxEntries /\ <<>> \in Seq(Entry) /\ 0 \in Int /\ {} \in SUBSET CountId
    BY RegisterAssumption
  <2>4. [stage |-> "recording", row |-> 0, becomes |-> <<>>, counts |-> cs, todo |-> {}, from |-> t,
         until |-> t, lowest |-> 0, late |-> late, torn |-> torn] \in Work(cs)
    BY <1>0, <1>9, <2>2 DEF Work
  <2>5. work' \in Work(cs)
    BY <2>1, <2>4
  <2> QED BY <2>1, <2>5
<1>11. work'.counts = cs /\ Seen' = entries
  BY <1>1, <1>10 DEF cs, Seen
<1>12. Shape(cs)
  <2>1. \A c \in DOMAIN cs : BooksDifference(cs[c])
    BY <1>0, <1>3 DEF Shape
  <2>2. ASSUME NEW c \in DOMAIN counts PROVE counts[c].at # t
    <3>1. counts[c].at \in Nat /\ t > counts[c].at
      BY <1>0, <1>1, FieldTypes
    <3> QED BY <1>0, <3>1
  <2>3. \A c, d \in DOMAIN cs : cs[c].at = cs[d].at => c = d
    BY <1>0, <1>3, <2>2 DEF Shape
  <2> QED BY <2>1, <2>3 DEF Shape
<1>13. TypeOK' /\ BooksInv'
  <2>1. Books(cs)
    BY <1>2 DEF Typed, Books
  <2>2. TypeOK'
    BY <1>0, <1>1, <1>10, <1>11, <2>1 DEF TypeOK
  <2> QED BY <1>0, <1>1, <2>2 DEF BooksInv
<1>14. ASSUME lateAt = {}, tornAt = {}, NEW c \in DOMAIN cs PROVE Gap(entries, cs, c) = 0
  <2>1. CASE c = n
    <3>1. ExpectedUntil(entries, cs, t) = counted
      <4>1. t <= t
        BY <1>0
      <4>2. ExpectedUntil(entries, cs, t) = expected + (counted - expected)
        BY <1>0, <1>4, <4>1 DEF expected
      <4> QED BY <1>0, <1>6, <4>2
    <3> QED BY <1>0, <1>3, <2>1, <3>1 DEF Gap
  <2>2. CASE c # n
    <3>1. c \in DOMAIN counts /\ counts[c].at \in Nat /\ t > counts[c].at
      BY <1>0, <1>1, <1>3, <2>2, FieldTypes
    <3>2. ~(t <= counts[c].at)
      BY <1>0, <3>1
    <3>3. ExpectedUntil(entries, cs, counts[c].at) = ExpectedUntil(entries, counts, counts[c].at)
      BY <1>4, <1>5, <3>1, <3>2
    <3>4. Gap(entries, cs, c) = Gap(entries, counts, c)
      BY <1>3, <3>1, <3>3 DEF Gap
    <3>5. Gap(entries, counts, c) = 0
      BY <1>0, <1>14, <3>1 DEF BooksInv, Gaps
    <3> QED BY <3>4, <3>5
  <2> QED BY <2>1, <2>2
<1>15. ASSUME Mixed \notin late \cup torn PROVE Gaps(entries, cs, {}, t, late \cup torn)
  <2>1. \A c \in DOMAIN cs : Gap(entries, cs, c) = 0
    BY <1>14, <1>15, <1>8
  <2> QED BY <2>1 DEF Gaps
<1>16. WorkInv'
  <2>1. Ahead(cs, {})
    BY DEF Ahead
  <2>2. \E m \in DOMAIN cs : DOMAIN counts = DOMAIN cs \ {m} /\ \A c \in DOMAIN counts : cs[c] = counts[c]
    BY <1>3
  <2> QED BY <1>0, <1>1, <1>12, <1>15, <1>10, <1>11, <2>1, <2>2 DEF WorkInv
<1> QED BY <1>13, <1>16 DEF RegisterInv

\* The transaction under way is committed: no count is left to be recalculated.
LEMMA CommitKeepsInv ==
    ASSUME RegisterInv, work # Idle, work.todo = {}, Commit PROVE RegisterInv'
<1>0. TypeOK /\ WorkInv /\ Typed(entries, work.counts) /\ work.row <= Len(entries) /\ Len(entries) \in Nat
  BY WorkTypes, FieldTypes DEF RegisterInv, BooksInv, WorkInv
<1>1. /\ entries' = Seen /\ counts' = work.counts /\ lateAt' = work.late /\ tornAt' = work.torn /\ work' = Idle
  BY DEF Commit
<1>2. Typed(Seen, work.counts) /\ Len(Seen) <= Len(entries)
  BY <1>0, SeenIs
<1>3. /\ work' \in Work(work'.counts) /\ Books(work'.counts)
  <2>1. \A w : w = Idle => w \in Work(w.counts) /\ Books(w.counts)
    BY RegisterAssumption DEF Idle, Work, Books, NoCounts
  <2> QED BY <1>1, <2>1
<1>4. TypeOK'
  <2>1. Len(Seen) <= MaxEntries
    <3>1. Len(Seen) \in Nat /\ Len(entries) <= MaxEntries
      BY <1>0, <1>2, FieldTypes DEF TypeOK
    <3> QED BY <1>0, <1>2, <3>1, RegisterAssumption
  <2>2. Seen \in Seq(Entry) /\ Books(work.counts)
    BY <1>2 DEF Typed, Books
  <2>3. work.late \subseteq Time \cup {Mixed} /\ work.torn \subseteq Time \cup {Mixed}
    BY <1>0, WorkTypes
  <2> QED BY <1>1, <1>3, <2>1, <2>2, <2>3 DEF TypeOK
<1>5. ASSUME Mixed \notin work.late \cup work.torn PROVE Gaps(Seen, work.counts, {}, 0, work.late \cup work.torn)
  <2>1. Gaps(Seen, work.counts, {}, work.until, work.late \cup work.torn)
    BY <1>0, <1>5 DEF WorkInv
  <2> QED BY <2>1 DEF Gaps
<1>6. BooksInv'
  BY <1>0, <1>1, <1>4, <1>5 DEF BooksInv, WorkInv
<1> QED BY <1>1, <1>6 DEF RegisterInv, WorkInv

LEMMA RollbackKeepsInv ==
    ASSUME RegisterInv, Rollback PROVE RegisterInv'
<1>1. /\ UNCHANGED <<entries, counts, lateAt, tornAt>> /\ work' = Idle
  BY DEF Rollback
<1>2. work' \in Work(work'.counts) /\ Books(work'.counts)
  <2>1. \A w : w = Idle => w \in Work(w.counts) /\ Books(w.counts)
    BY RegisterAssumption DEF Idle, Work, Books, NoCounts
  <2> QED BY <1>1, <2>1
<1>3. BooksInv'
  BY <1>1, <1>2 DEF RegisterInv, BooksInv, TypeOK
<1> QED BY <1>1, <1>3 DEF RegisterInv, WorkInv

\* The edits as they begin.
LEMMA MovementUpdateBegins ==
    ASSUME RegisterInv, NEW i \in DOMAIN entries, NEW a \in Amount, NEW t \in Time, UpdateCashMovement(i, a, t)
    PROVE  RegisterInv'
<1> DEFINE new == [entries[i] EXCEPT !.amount = a, !.at = t]
           becomes == <<new>>
           from == Min({entries[i].at, t})
           until == Max({entries[i].at, t})
<1>0. Typed(entries, counts) /\ BooksInv
  BY InvTyped DEF RegisterInv, BooksInv
<1>1. i \in Nat /\ i # 0 /\ i <= Len(entries) /\ entries[i] \in Entry
  BY <1>0, FieldTypes
<1>2. becomes \in Seq(Entry) /\ becomes # <<>> /\ becomes[1] = new
  <2>1. new \in Entry
    BY <1>1, MovedEntry
  <2> HIDE DEF new
  <2> QED BY <2>1
<1>3. Edit("walking", i, becomes, counts, from, until, NoCount)
  BY DEF UpdateCashMovement
<1>4. Edited(entries, counts, [entries EXCEPT ![i] = new], counts, from, until, NoCount)
  BY <1>0, MovementUpdated
<1>5. With(entries, i, becomes) = [entries EXCEPT ![i] = new]
  BY <1>1, <1>2 DEF With
<1> HIDE DEF new, becomes, from, until
<1> QED BY <1>1, <1>2, <1>3, <1>4, <1>5, EditBegins

LEMMA MovementDeleteBegins ==
    ASSUME RegisterInv, NEW i \in DOMAIN entries, DeleteCashMovement(i) PROVE RegisterInv'
<1> DEFINE t == entries[i].at
<1>0. Typed(entries, counts) /\ BooksInv
  BY InvTyped DEF RegisterInv, BooksInv
<1>1. i \in Nat /\ i # 0 /\ i <= Len(entries) /\ <<>> \in Seq(Entry)
  BY <1>0, FieldTypes
<1>3. Edit("walking", i, <<>>, counts, t, t, NoCount)
  BY DEF DeleteCashMovement
<1>4. Edited(entries, counts, RemoveAt(entries, i), counts, t, t, NoCount)
  BY <1>0, MovementDeleted
<1>5. With(entries, i, <<>>) = RemoveAt(entries, i)
  BY <1>1 DEF With
<1> HIDE DEF t
<1> QED BY <1>1, <1>3, <1>4, <1>5, EditBegins

LEMMA CountUpdateBegins ==
    ASSUME RegisterInv, NEW n \in 0..MaxAmount, NEW t \in Time, NEW c \in DOMAIN counts, UpdateCashCount(c, n, t)
    PROVE  RegisterInv'
<1> DEFINE row == counts[c]
           expected == ExpectedAtCount(entries, counts, t, row.correction)
           updated == [counts EXCEPT ![c] = Recalculated([row EXCEPT !.counted = n, !.at = t], expected)]
           from == Min({row.at, t})
           until == Max({row.at, t})
<1>0. Typed(entries, counts) /\ BooksInv
  BY InvTyped DEF RegisterInv, BooksInv
<1>1. Edit("counted", 0, <<>>, updated, from, until, c) /\ (t # counts[c].at => CountOrderKept(c, t))
  BY DEF UpdateCashCount
<1>2. Edited(entries, counts, entries, updated, from, until, c)
  BY <1>0, <1>1, CountUpdated
<1>3. With(entries, 0, <<>>) = entries /\ 0 \in Nat /\ 0 <= Len(entries) /\ <<>> \in Seq(Entry)
  BY <1>0, FieldTypes DEF With
<1> HIDE DEF updated, from, until
<1> QED BY <1>1, <1>2, <1>3, EditBegins

LEMMA CountDeleteBegins ==
    ASSUME RegisterInv, NEW c \in DOMAIN counts, DeleteCashCount(c) PROVE RegisterInv'
<1> DEFINE rest == [d \in DOMAIN counts \ {c} |-> counts[d]]
           t == counts[c].at
<1>0. Typed(entries, counts) /\ BooksInv
  BY InvTyped DEF RegisterInv, BooksInv
<1>1. Edit("walking", 0, <<>>, rest, t, t, c)
  BY DEF DeleteCashCount
<1>2. Edited(entries, counts, entries, rest, t, t, c)
  BY <1>0, CountDeleted
<1>3. With(entries, 0, <<>>) = entries /\ 0 \in Nat /\ 0 <= Len(entries) /\ <<>> \in Seq(Entry)
  BY <1>0, FieldTypes DEF With
<1> HIDE DEF rest, t
<1> QED BY <1>1, <1>2, <1>3, EditBegins

\* A booking adds one entry to books that are the same to the figures.
LEMMA BookingsAdd ==
    ASSUME Typed(entries, counts)
    PROVE  /\ \A a \in Amount, t \in Time : Receipt(a, t) =>
                \E es, e : AddsEntry(es, e) /\ e.at = t
           /\ \A a \in Amount, t \in Time, kind \in MovementKind : CreateCashMovement(kind, a, t) =>
                \E es, e : AddsEntry(es, e) /\ e.at = t
           /\ \A i \in DOMAIN entries, t \in Time, kind \in {"refund", "recording_error"} :
                ReverseReceipt(i, kind, t) => \E es, e : AddsEntry(es, e) /\ e.at = t
<1>0. entries \in Seq(Entry)
  BY DEF Typed
<1>1. ASSUME NEW a \in Amount, NEW t \in Time, Receipt(a, t) PROVE \E es, e : AddsEntry(es, e) /\ e.at = t
  <2> DEFINE e == [kind |-> "receipt", at |-> t, amount |-> a, open |-> TRUE]
  <2>1. e \in Entry /\ e.at = t
    BY DEF Entry, EntryKind
  <2>2. entries' = Append(entries, e)
    BY <1>1 DEF Receipt
  <2> HIDE DEF e
  <2> QED BY <1>0, <2>1, <2>2 DEF AddsEntry
<1>2. ASSUME NEW a \in Amount, NEW t \in Time, NEW kind \in MovementKind, CreateCashMovement(kind, a, t)
      PROVE  \E es, e : AddsEntry(es, e) /\ e.at = t
  <2> DEFINE e == [kind |-> kind, at |-> t, amount |-> a, open |-> FALSE]
  <2>1. e \in Entry /\ e.at = t
    BY DEF Entry, EntryKind, MovementKind
  <2>2. entries' = Append(entries, e)
    BY <1>2 DEF CreateCashMovement
  <2> HIDE DEF e
  <2> QED BY <1>0, <2>1, <2>2 DEF AddsEntry
<1>3. ASSUME NEW i \in DOMAIN entries, NEW t \in Time, NEW kind \in {"refund", "recording_error"},
             ReverseReceipt(i, kind, t)
      PROVE  \E es, e : AddsEntry(es, e) /\ e.at = t
  <2> DEFINE e == [kind |-> kind, at |-> t, amount |-> entries[i].amount, open |-> FALSE]
             es == [entries EXCEPT ![i].open = FALSE]
  <2>1. e \in Entry /\ e.at = t
    BY FieldTypes DEF Entry, EntryKind
  <2>2. entries' = Append(es, e)
    BY <1>3 DEF ReverseReceipt
  <2>3. /\ es \in Seq(Entry) /\ Len(es) = Len(entries)
        /\ \A j \in DOMAIN entries : es[j].at = entries[j].at /\ Effect(es[j]) = Effect(entries[j])
    BY <1>0, ClosedReceipt
  <2> HIDE DEF e, es
  <2> QED BY <2>1, <2>2, <2>3 DEF AddsEntry
<1> QED BY <1>1, <1>2, <1>3

\* Every step keeps the invariant.
LEMMA NextKeepsInv ==
    ASSUME RegisterInv, [Next]_vars PROVE RegisterInv'
<1>0. Typed(entries, counts)
  BY InvTyped DEF RegisterInv, BooksInv
<1>1. CASE UNCHANGED vars
  BY <1>1 DEF vars, RegisterInv, BooksInv, WorkInv, TypeOK, Seen
<1>2. ASSUME NEW a \in Amount, NEW t \in Time, Receipt(a, t) PROVE RegisterInv'
  <2>1. Len(entries) < MaxEntries /\ Late(t) /\ UNCHANGED counts
    BY <1>2 DEF Receipt
  <2>2. PICK es, e : AddsEntry(es, e) /\ e.at = t
    BY <1>0, <1>2, BookingsAdd
  <2> QED BY <2>1, <2>2, BookingKeepsInv
<1>3. ASSUME NEW a \in Amount, NEW t \in Time, NEW kind \in MovementKind, CreateCashMovement(kind, a, t)
      PROVE  RegisterInv'
  <2>1. Len(entries) < MaxEntries /\ Late(t) /\ UNCHANGED counts
    BY <1>3 DEF CreateCashMovement
  <2>2. PICK es, e : AddsEntry(es, e) /\ e.at = t
    BY <1>0, <1>3, BookingsAdd
  <2> QED BY <2>1, <2>2, BookingKeepsInv
<1>4. ASSUME NEW i \in DOMAIN entries, NEW t \in Time, NEW kind \in {"refund", "recording_error"},
             ReverseReceipt(i, kind, t)
      PROVE  RegisterInv'
  <2>1. Len(entries) < MaxEntries /\ Late(t) /\ UNCHANGED counts
    BY <1>4 DEF ReverseReceipt
  <2>2. PICK es, e : AddsEntry(es, e) /\ e.at = t
    BY <1>0, <1>4, BookingsAdd
  <2> QED BY <2>1, <2>2, BookingKeepsInv
<1>5. ASSUME CommitCashCount \/ CommitEdit PROVE RegisterInv'
  <2>1. Commit /\ work # Idle /\ (work.stage = "recording" \/ work.todo = {})
    BY <1>5 DEF CommitCashCount, CommitEdit, Idle
  <2>2. work.todo = {}
    BY <2>1 DEF RegisterInv, WorkInv
  <2> QED BY <2>1, <2>2, CommitKeepsInv
<1>6. CASE Next
  BY <1>2, <1>3, <1>4, <1>5, <1>6, MovementUpdateBegins, MovementDeleteBegins, CountUpdateBegins, CountDeleteBegins,
     RecordKeepsInv, ReconcileKeepsInv, ReadKeepsInv, RollbackKeepsInv DEF Next
<1> QED BY <1>1, <1>6

\* The books and the counts keep their types, every correction books its count's difference, no two counts share
\* a time, and what the counts lack stays even between the noted times, also for the transaction under way while
\* payments fall between its steps.
THEOREM RegisterCorrect == Spec => []RegisterInv
<1>1. Init => RegisterInv
  BY InitInv
<1>2. RegisterInv /\ [Next]_vars => RegisterInv'
  BY NextKeepsInv
<1> QED BY <1>1, <1>2, PTL DEF Spec

\* Type correctness.
THEOREM TypeCorrect == Spec => []TypeOK
<1>1. RegisterInv => TypeOK
  BY DEF RegisterInv, BooksInv
<1> QED BY <1>1, RegisterCorrect, PTL

\* CountsExplained: as long as edits cover every entry booked at or before a count and every payment that fell
\* between two counts of an edit, reconcileCounts leaves no count with figures the books do not say, although it
\* stops at the first count after the change that stands.
THEOREM CountsCorrect == Spec => []CountsExplained
<1>1. RegisterInv => CountsExplained
  BY InvExplains DEF RegisterInv
<1> QED BY <1>1, RegisterCorrect, PTL
-----------------------------------------------------------------------------
(* Only paying money back makes the register owe cash *)

\* Before the first moment the register is empty.
LEMMA EmptyAtFirst ==
    ASSUME NEW es, NEW cs, Typed(es, cs)
    PROVE  ExpectedUntil(es, cs, 0) = 0
<1> DEFINE f == EntryTerms(es, 0)
           g == CorrectionTerms(cs, 0)
<1>1. (\A i \in DOMAIN es : ~(es[i].at <= 0)) /\ (\A c \in DOMAIN cs : ~(cs[c].correction.at <= 0))
  <2>1. \A t \in Time : ~(t <= 0)
    BY RegisterAssumption DEF Time
  <2> QED BY <2>1, FieldTypes
<1>2. f = [i \in DOMAIN es |-> 0] /\ g = [c \in DOMAIN cs |-> 0]
  BY <1>1 DEF EntryTerms, CorrectionTerms
<1>3. SumFunction(f) = 0 /\ SumFunction(g) = 0
  <2> HIDE DEF f, g
  <2> QED BY <1>2, Finite, SumOfZeros
<1> QED BY <1>3, ExpectedIs

\* In a journal that never goes below zero the figures never were.
LEMMA NeverOwed ==
    ASSUME BooksInv, NeverBelowZero, NEW u \in Nat
    PROVE  ExpectedUntil(entries, counts, u) \in Int /\ ExpectedUntil(entries, counts, u) >= 0
<1>0. Typed(entries, counts)
  BY InvTyped DEF BooksInv
<1>1. 1 \in Time /\ 1 - 1 = 0 /\ 1 - 1 <= u
  BY RegisterAssumption DEF Time
<1>2. \/ ExpectedUntil(entries, counts, u) \in BalancesFrom(entries, counts, 1)
      \/ ExpectedUntil(entries, counts, u) = 0
  BY <1>0, <1>1, LastBalance, EmptyAtFirst
<1> QED BY <1>0, <1>2, ExpectedIs DEF NeverBelowZero

LEMMA EarlierBalances ==
    ASSUME NEW es, NEW cs, Typed(es, cs), NEW from \in Time
    PROVE  BalancesFrom(es, cs, from) \subseteq BalancesFrom(es, cs, 1)
<1>1. from \in Nat /\ from >= 1
  BY RegisterAssumption DEF Time
<1>2. /\ EntriesFrom(es, from) \subseteq EntriesFrom(es, 1)
      /\ CountsFrom(cs, from) \subseteq CountsFrom(cs, 1)
      /\ CorrectionsFrom(cs, from) \subseteq CorrectionsFrom(cs, 1)
  <2>1. /\ \A i \in DOMAIN es : es[i].at \in Nat
        /\ \A c \in DOMAIN cs : cs[c].at \in Nat /\ cs[c].correction.at \in Nat
    BY FieldTypes
  <2> QED BY <1>1, <2>1 DEF EntriesFrom, CountsFrom, CorrectionsFrom
<1> QED BY <1>2, BalancesAre

\* checkBalanceAfter: an edit leaves no balance below zero from its first moment on, and nothing changed before.
LEMMA EditStaysAbove ==
    ASSUME RegisterInv, NeverBelowZero, work.lowest >= 0, CommitEdit
    PROVE  ExpectedNow(entries', counts') >= 0
<1> DEFINE es == Seen
           ks == work.counts
           from == work.from
<1>0. /\ BooksInv /\ WorkInv /\ TypeOK /\ work # Idle /\ work.stage # "recording" /\ from \in Time
      /\ from \in Nat /\ from - 1 \in Nat /\ from - 1 < from /\ MaxTime \in Nat /\ from - 1 <= MaxTime
      /\ work.lowest \in Int /\ Typed(entries, work.counts) /\ work.row <= Len(entries)
  <2>1. BooksInv /\ WorkInv /\ TypeOK /\ work # Idle /\ work.stage # "recording"
    BY DEF RegisterInv, BooksInv, CommitEdit, Idle
  <2>2. from \in Time /\ work.row <= Len(entries)
    BY <2>1 DEF WorkInv
  <2> QED BY <2>1, <2>2, WorkTypes, RegisterAssumption DEF Time
<1>1. entries' = es /\ counts' = ks /\ LowestBalance(es, ks, from) >= work.lowest
  BY DEF CommitEdit, Commit
<1>2. Typed(es, ks)
  BY <1>0, SeenIs
<1>3. ExpectedUntil(es, ks, from - 1) = ExpectedUntil(entries, counts, from - 1)
  BY <1>0 DEF WorkInv
<1> HIDE DEF es, ks, from
<1>4. \A b \in BalancesFrom(es, ks, from) : b >= 0
  <2>1. /\ LowestBalance(es, ks, from) \in Int
        /\ \A b \in BalancesFrom(es, ks, from) : LowestBalance(es, ks, from) <= b
    BY <1>2, LowestIs
  <2>2. BalancesFrom(es, ks, from) \subseteq Int
    BY <1>2, BalanceTypes
  <2> QED BY <1>0, <1>1, <2>1, <2>2
<1>5. ExpectedUntil(entries, counts, from - 1) >= 0
  BY <1>0, NeverOwed
<1>6. \/ ExpectedUntil(es, ks, MaxTime) \in BalancesFrom(es, ks, from)
      \/ ExpectedUntil(es, ks, MaxTime) = ExpectedUntil(es, ks, from - 1)
  BY <1>0, <1>2, LastBalance
<1>7. ExpectedUntil(es, ks, MaxTime) >= 0
  BY <1>3, <1>4, <1>5, <1>6
<1> QED BY <1>1, <1>7 DEF ExpectedNow

\* A count that finds too little is refused if the register would owe cash; one that finds more cannot bring that
\* about.
LEMMA CountStaysAbove ==
    ASSUME RegisterInv, NeverBelowZero, CommitCashCount
    PROVE  ExpectedNow(entries', counts') >= 0
<1> DEFINE cs == work.counts
<1>0. /\ BooksInv /\ WorkInv /\ TypeOK /\ work # Idle /\ MaxTime \in Nat
      /\ Typed(entries, counts) /\ Typed(entries, cs)
  <2>1. BooksInv /\ WorkInv /\ TypeOK /\ work # Idle
    BY DEF RegisterInv, BooksInv, CommitCashCount, Idle
  <2> QED BY <2>1, WorkTypes, RegisterAssumption
<1>1. /\ work.row = 0
      /\ \E n \in DOMAIN cs : DOMAIN counts = DOMAIN cs \ {n} /\ \A c \in DOMAIN counts : cs[c] = counts[c]
  BY <1>0 DEF WorkInv, CommitCashCount
<1>2. PICK n \in DOMAIN cs : DOMAIN counts = DOMAIN cs \ {n} /\ \A c \in DOMAIN counts : cs[c] = counts[c]
  BY <1>1
<1>3. entries' = entries /\ counts' = cs
  BY <1>1 DEF CommitCashCount, Commit, Seen
<1>4. cs[n].correction.amount < 0 => ExpectedNow(entries, cs) >= 0
  BY <1>2 DEF CommitCashCount
<1>5. cs[n].correction.amount \in Int /\ cs[n].correction.at <= MaxTime
  <2>1. cs[n].correction.amount \in Int /\ cs[n].correction.at \in Time
    BY <1>0, FieldTypes
  <2> QED BY <2>1, RegisterAssumption DEF Time
<1> HIDE DEF cs
<1>6. ExpectedUntil(entries, cs, MaxTime) = ExpectedUntil(entries, counts, MaxTime) + CorrectionTerm(cs[n], MaxTime)
  BY <1>0, <1>2, CountAdded
<1>7. ExpectedUntil(entries, counts, MaxTime) \in Int /\ ExpectedUntil(entries, counts, MaxTime) >= 0
  BY <1>0, NeverOwed
<1>8. CorrectionTerm(cs[n], MaxTime) = cs[n].correction.amount
  BY <1>5 DEF CorrectionTerm
<1>9. ExpectedUntil(entries, cs, MaxTime) >= 0
  BY <1>4, <1>5, <1>6, <1>7, <1>8 DEF ExpectedNow
<1> QED BY <1>3, <1>9 DEF ExpectedNow

\* What the register should hold now, after an entry more.
LEMMA BookedNow ==
    ASSUME BooksInv, NEW e \in Entry, entries' = Append(entries, e), UNCHANGED counts
    PROVE  ExpectedNow(entries', counts') = ExpectedNow(entries, counts) + Effect(e)
<1>0. Typed(entries, counts)
  BY InvTyped DEF BooksInv
<1>1. e.at <= MaxTime
  BY RegisterAssumption DEF Entry, Time
<1>2. ExpectedUntil(entries', counts, MaxTime) = ExpectedUntil(entries, counts, MaxTime) + EntryTerm(e, MaxTime)
  BY <1>0, EntryAdded
<1> QED BY <1>1, <1>2 DEF EntryTerm, ExpectedNow

\* An entry booked stands last, after all that were there (a row INSERT).
LEMMA BookedLast ==
    ASSUME NEW es \in Seq(Entry), NEW e \in Entry
    PROVE  /\ Append(es, e) \in Seq(Entry) /\ Len(Append(es, e)) = Len(es) + 1 /\ Append(es, e)[Len(es) + 1] = e
           /\ \A j \in 1..Len(es) : Append(es, e)[j] = es[j]
BY AppendProperties

\* A reversal pays back.
LEMMA ReversalPaysBack ==
    ASSUME BooksInv, NEW i \in DOMAIN entries, NEW t \in Time, NEW kind \in {"refund", "recording_error"},
           ReverseReceipt(i, kind, t)
    PROVE  PaysBack
<1> DEFINE es == [entries EXCEPT ![i].open = FALSE]
           e == [kind |-> kind, at |-> t, amount |-> entries[i].amount, open |-> FALSE]
           n == Len(entries) + 1
<1>0. Typed(entries, counts)
  BY InvTyped DEF BooksInv
<1>1. es \in Seq(Entry) /\ Len(es) = Len(entries) /\ \A j \in DOMAIN entries : es[j].kind = entries[j].kind
  BY <1>0, ClosedReceipt DEF Typed
<1>2. e \in Entry /\ e.kind = kind
  BY <1>0, FieldTypes DEF Entry, EntryKind
<1>3. entries' = Append(es, e)
  BY DEF ReverseReceipt
<1> HIDE DEF es, e
<1>4. /\ DOMAIN entries = 1..Len(entries) /\ Len(entries) \in Nat /\ DOMAIN entries' = 1..n
      /\ entries'[n].kind = kind /\ \A j \in DOMAIN entries : entries'[j].kind = entries[j].kind
  <2>1. /\ Append(es, e) \in Seq(Entry) /\ Len(Append(es, e)) = Len(es) + 1 /\ Append(es, e)[Len(es) + 1] = e
        /\ \A j \in 1..Len(es) : Append(es, e)[j] = es[j]
    BY <1>1, <1>2, BookedLast
  <2>2. DOMAIN entries = 1..Len(entries) /\ Len(entries) \in Nat
    BY <1>0, FieldTypes
  <2>3. DOMAIN entries' = 1..n
    BY <1>1, <1>3, <2>1
  <2> QED BY <1>1, <1>2, <1>3, <2>1, <2>2, <2>3
<1>5. Reversals' = Reversals \cup {n} /\ n \notin Reversals
  BY <1>4 DEF Reversals
<1>6. IsFiniteSet(Reversals)
  BY <1>0, Finite, FS_Subset DEF Reversals
<1>7. Cardinality(Reversals') = Cardinality(Reversals) + 1 /\ Cardinality(Reversals) \in Nat
  BY <1>5, <1>6, FS_AddElement, FS_CardinalityType
<1> QED BY <1>7 DEF PaysBack

LEMMA StepStaysAbove ==
    ASSUME RegisterInv, [Next]_vars, NeverBelowZero, work.lowest >= 0, ~PaysBack
    PROVE  ExpectedNow(entries', counts') >= 0
<1>0. /\ BooksInv /\ Typed(entries, counts) /\ MaxTime \in Nat
      /\ ExpectedNow(entries, counts) \in Int /\ ExpectedNow(entries, counts) >= 0
  <2>1. BooksInv /\ Typed(entries, counts) /\ MaxTime \in Nat
    BY InvTyped, RegisterAssumption DEF RegisterInv, BooksInv
  <2> QED BY <2>1, NeverOwed DEF ExpectedNow
<1>1. CASE UNCHANGED <<entries, counts>>
  BY <1>0, <1>1
<1>2. ASSUME NEW a \in Amount, NEW t \in Time, Receipt(a, t) PROVE ExpectedNow(entries', counts') >= 0
  <2> DEFINE e == [kind |-> "receipt", at |-> t, amount |-> a, open |-> TRUE]
  <2>1. e \in Entry /\ Effect(e) = a /\ a \in Nat
    BY RegisterAssumption DEF Entry, EntryKind, Effect, Amount
  <2>2. entries' = Append(entries, e) /\ UNCHANGED counts
    BY <1>2 DEF Receipt
  <2> HIDE DEF e
  <2>3. ExpectedNow(entries', counts') = ExpectedNow(entries, counts) + Effect(e)
    BY <1>0, <2>1, <2>2, BookedNow
  <2> QED BY <1>0, <2>1, <2>3
<1>3. ASSUME NEW a \in Amount, NEW t \in Time, NEW kind \in MovementKind, CreateCashMovement(kind, a, t)
      PROVE  ExpectedNow(entries', counts') >= 0
  <2> DEFINE e == [kind |-> kind, at |-> t, amount |-> a, open |-> FALSE]
  <2>1. e \in Entry /\ a \in Nat /\ Effect(e) = IF kind = "deposit" THEN a ELSE -a
    BY RegisterAssumption DEF Entry, EntryKind, MovementKind, Effect, Amount
  <2>2. entries' = Append(entries, e) /\ UNCHANGED counts /\ (kind = "withdrawal" => a <= ExpectedNow(entries, counts))
    BY <1>3 DEF CreateCashMovement
  <2> HIDE DEF e
  <2>3. ExpectedNow(entries', counts') = ExpectedNow(entries, counts) + Effect(e)
    BY <1>0, <2>1, <2>2, BookedNow
  <2> QED BY <1>0, <2>1, <2>2, <2>3 DEF MovementKind
<1>4. ASSUME NEW i \in DOMAIN entries, NEW t \in Time, NEW kind \in {"refund", "recording_error"},
             ReverseReceipt(i, kind, t)
      PROVE  ExpectedNow(entries', counts') >= 0
  BY <1>0, <1>4, ReversalPaysBack
<1>5. ASSUME \/ \E i \in DOMAIN entries, t \in Time, a \in Amount : UpdateCashMovement(i, a, t)
             \/ \E i \in DOMAIN entries : DeleteCashMovement(i)
             \/ \E a \in 0..MaxAmount, t \in Time : \/ RecordCashCount(a, t)
                                                    \/ \E c \in DOMAIN counts : UpdateCashCount(c, a, t)
             \/ \E c \in DOMAIN counts : DeleteCashCount(c)
             \/ \E c \in work.todo : ReconcileCount(c)
             \/ ReadLowestBalance \/ Rollback
      PROVE  UNCHANGED <<entries, counts>>
  BY <1>5 DEF UpdateCashMovement, DeleteCashMovement, RecordCashCount, UpdateCashCount, DeleteCashCount,
              ReconcileCount, ReadLowestBalance, Rollback, Edit
<1>6. CASE Next
  BY <1>1, <1>2, <1>3, <1>4, <1>5, <1>6, EditStaysAbove, CountStaysAbove DEF Next
<1> QED BY <1>1, <1>6 DEF vars

\* OnlyRefundsOverdraw: the withdrawal limit, the refusal of a backdated shortfall and checkBalanceAfter together
\* keep a register whose journal never goes below zero from owing cash, whatever payments fall into their
\* transactions, but for money paid back.
THEOREM OverdrawCorrect == Spec => OnlyRefundsOverdraw
<1> DEFINE A == NeverBelowZero /\ work.lowest >= 0 /\ ~PaysBack => ExpectedNow(entries', counts') >= 0
<1>1. RegisterInv /\ [Next]_vars => A
  BY StepStaysAbove
<1>2. RegisterInv /\ [Next]_vars => [A]_<<entries, counts>>
  BY <1>1
<1> QED BY <1>2, RegisterCorrect, PTL DEF Spec, OnlyRefundsOverdraw
=============================================================================
