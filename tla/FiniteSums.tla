------------------------------ MODULE FiniteSums ------------------------------
(***************************************************************************)
(* Facts about folds over finite sets, and about Total(f), the sum of an    *)
(* integer function with a finite domain, which is one.  A fold is whatever *)
(* function satisfies its recursion; that there is one is proved first.     *)
(* Induction over the subsets of a finite set is done by way of a smallest  *)
(* counterexample: every set of subsets has a minimal member.               *)
(***************************************************************************)
EXTENDS Totals, FiniteSetTheorems, WellFoundedInduction, TLAPS

\* A set of subsets of a finite set has a minimal member.
LEMMA SmallestSubset ==
  ASSUME NEW S, IsFiniteSet(S), NEW F \in SUBSET (SUBSET S), F # {}
  PROVE  \E m \in F : \A t \in F : t \subseteq m => t = m
<1>1. FiniteSubsetsOf(S) = SUBSET S
  BY FS_FiniteSubsetsOfFinite
<1>2. IsWellFoundedOn(StrictSubsetOrdering(S), SUBSET S)
  BY <1>1, FS_StrictSubsetOrderingWellFounded
<1>3. PICK m \in F : \A t \in F : ~ (<<t, m>> \in StrictSubsetOrdering(S))
  BY <1>2, WFMin
<1>4. ASSUME NEW t \in F, t \subseteq m, t # m PROVE FALSE
  <2>1. <<t, m>> \in StrictSubsetOrdering(S)
    BY <1>1, <1>4 DEF StrictSubsetOrdering
  <2> QED BY <1>3, <2>1
<1> QED BY <1>4

\* A set of numbers has a smallest one.
LEMMA SmallestNumber ==
  ASSUME NEW S \in SUBSET Nat, S # {}
  PROVE  \E n \in S : \A m \in S : n <= m
<1>1. PICK n \in S : \A m \in S : ~ (<<m, n>> \in OpToRel(<, Nat))
  BY NatLessThanWellFounded, WFMin
<1>2. \A m \in S : ~ (m < n)
  BY <1>1 DEF OpToRel
<1> QED BY <1>2
-------------------------------------------------------------------------------
\* ch[s] is the element of s that a fold takes last.
Chooses(S, ch) == IsFiniteSet(S) /\ \A s \in SUBSET S : s # {} => ch[s] \in s

\* g folds a step over every subset of T.
IsFold(g, b, step, ch, T) ==
  \A s \in SUBSET T : g[s] = IF s = {} THEN b ELSE step[ch[s]][g[s \ {ch[s]}]]

\* A set is folded in one way at most.
LEMMA FoldsAgree ==
  ASSUME NEW S, NEW b, NEW step, NEW ch, Chooses(S, ch),
         NEW T \in SUBSET S, NEW U \in SUBSET S, NEW g, NEW h,
         IsFold(g, b, step, ch, T), IsFold(h, b, step, ch, U)
  PROVE  \A s \in SUBSET (T \cap U) : g[s] = h[s]
<1> DEFINE F == {s \in SUBSET (T \cap U) : g[s] # h[s]}
<1> SUFFICES ASSUME F # {} PROVE FALSE
  OBVIOUS
<1>1. F \in SUBSET (SUBSET S)
  OBVIOUS
<1> HIDE DEF F
<1>2. PICK m \in F : \A t \in F : t \subseteq m => t = m
  BY <1>1, SmallestSubset DEF Chooses
<1> USE DEF F
<1>3. m # {} /\ m \in SUBSET S
  BY <1>2 DEF IsFold
<1>4. ch[m] \in m
  BY <1>3 DEF Chooses
<1>5. m \ {ch[m]} \notin F
  BY <1>2, <1>4
<1>6. g[m \ {ch[m]}] = h[m \ {ch[m]}]
  BY <1>2, <1>5
<1>7. g[m] = step[ch[m]][g[m \ {ch[m]}]] /\ h[m] = step[ch[m]][h[m \ {ch[m]}]]
  BY <1>2, <1>3 DEF IsFold
<1> QED BY <1>2, <1>6, <1>7

\* There is a fold: by a smallest subset without, put together from those of its
\* own subsets.
LEMMA FoldExists ==
  ASSUME NEW S, NEW D, NEW b \in D, NEW step \in [S -> [D -> D]], NEW ch, Chooses(S, ch)
  PROVE  \E g \in [SUBSET S -> D] : IsFold(g, b, step, ch, S)
<1> DEFINE Folds(T, g) == g \in [SUBSET T -> D] /\ IsFold(g, b, step, ch, T)
           F == {T \in SUBSET S : ~ \E g : Folds(T, g)}
           H(T) == CHOOSE g : Folds(T, g)
<1> SUFFICES ASSUME F # {} PROVE FALSE
  OBVIOUS
<1>0. F \in SUBSET (SUBSET S)
  OBVIOUS
<1> HIDE DEF F
<1>1. PICK m \in F : \A t \in F : t \subseteq m => t = m
  BY <1>0, SmallestSubset DEF Chooses
<1> USE DEF F
<1>2. \A t \in SUBSET m : t # m => Folds(t, H(t))
  <2> HIDE DEF Folds
  <2> QED BY <1>1
<1>3. m \in SUBSET S /\ ~ \E g : Folds(m, g)
  <2> HIDE DEF Folds
  <2> QED BY <1>1
<1> HIDE DEF F, H
<1>4. CASE m = {}
  <2>1. Folds({}, [s \in SUBSET {} |-> b])
    BY DEF IsFold
  <2> HIDE DEF Folds
  <2> QED BY <1>3, <1>4, <2>1
<1>5. CASE m # {}
  <2> DEFINE x == ch[m]
             g == [s \in SUBSET m |-> IF s = m THEN step[x][H(m \ {x})[m \ {x}]] ELSE H(s)[s]]
  <2>1. x \in m /\ x \in S
    BY <1>3, <1>5 DEF Chooses
  <2> HIDE DEF x
  <2>2. ASSUME NEW s \in SUBSET m, s # m PROVE H(s)[s] \in D
    <3>1. Folds(s, H(s)) /\ s \in SUBSET s
      BY <1>2, <2>2
    <3> QED BY <3>1
  <2>3. m \ {x} \in SUBSET m /\ m \ {x} # m
    BY <2>1
  <2>4. g \in [SUBSET m -> D]
    <3>1. H(m \ {x})[m \ {x}] \in D
      BY <2>2, <2>3
    <3>2. step[x][H(m \ {x})[m \ {x}]] \in D
      BY <2>1, <3>1
    <3> QED BY <2>2, <3>2
  <2>5. ASSUME NEW s \in SUBSET m
        PROVE  g[s] = IF s = {} THEN b ELSE step[ch[s]][g[s \ {ch[s]}]]
    <3>1. CASE s = m
      BY <1>5, <2>3, <3>1 DEF x
    <3>2. CASE s # m /\ s = {}
      <4>1. Folds(s, H(s)) /\ s \in SUBSET s
        BY <1>2, <3>2
      <4> QED BY <3>2, <4>1 DEF IsFold
    <3>3. CASE s # m /\ s # {}
      <4> DEFINE y == ch[s]
                 r == s \ {y}
      <4>1. s \in SUBSET S
        BY <1>3
      <4>2. y \in s /\ r \in SUBSET s /\ r \in SUBSET m /\ r # m /\ r \in SUBSET S
        BY <3>3, <4>1 DEF Chooses
      <4>3. IsFold(H(s), b, step, ch, s) /\ IsFold(H(r), b, step, ch, r)
        BY <1>2, <3>3, <4>2
      <4>4. r \in SUBSET (s \cap r)
        BY <4>2
      <4> HIDE DEF r
      <4>5. \A t \in SUBSET (s \cap r) : H(s)[t] = H(r)[t]
        BY <4>1, <4>2, <4>3, FoldsAgree
      <4>6. H(s)[s] = step[y][H(s)[r]]
        BY <3>3, <4>3 DEF IsFold, r
      <4>7. g[s] = H(s)[s] /\ g[r] = H(r)[r]
        BY <3>3, <4>2
      <4>8. g[s] = step[y][g[r]]
        BY <4>4, <4>5, <4>6, <4>7
      <4> QED BY <3>3, <4>8 DEF r
    <3> QED BY <3>1, <3>2, <3>3
  <2> HIDE DEF g
  <2>6. Folds(m, g)
    BY <2>4, <2>5 DEF IsFold
  <2> HIDE DEF Folds
  <2> QED BY <1>3, <2>6
<1> QED BY <1>4, <1>5
-------------------------------------------------------------------------------
\* The element a fold takes first.
Pick(s) == CHOOSE x \in s : TRUE

LEMMA PickIn == \A s : s # {} => Pick(s) \in s
BY DEF Pick

\* g gives the sum of f over every subset of T
IsSum(g, f, T) ==
  /\ g \in [SUBSET T -> Int]
  /\ \A s \in SUBSET T : g[s] = IF s = {} THEN 0 ELSE f[Pick(s)] + g[s \ {Pick(s)}]

\* There is one sum of f over a set at most.
LEMMA SumsAgree ==
  ASSUME NEW S, IsFiniteSet(S), NEW f \in [S -> Int],
         NEW T \in SUBSET S, NEW U \in SUBSET S, NEW g, NEW h,
         IsSum(g, f, T), IsSum(h, f, U)
  PROVE  \A s \in SUBSET (T \cap U) : g[s] = h[s]
<1> DEFINE F == {s \in SUBSET (T \cap U) : g[s] # h[s]}
<1> SUFFICES ASSUME F # {} PROVE FALSE
  OBVIOUS
<1>1. F \in SUBSET (SUBSET S)
  OBVIOUS
<1> HIDE DEF F
<1>2. PICK m \in F : \A t \in F : t \subseteq m => t = m
  BY <1>1, SmallestSubset
<1> USE DEF F
<1>3. m # {}
  BY <1>2 DEF IsSum
<1>4. Pick(m) \in m
  BY <1>3, PickIn
<1>5. m \ {Pick(m)} \notin F
  BY <1>2, <1>4
<1>6. g[m \ {Pick(m)}] = h[m \ {Pick(m)}]
  BY <1>2, <1>5
<1>7. g[m] = f[Pick(m)] + g[m \ {Pick(m)}] /\ h[m] = f[Pick(m)] + h[m \ {Pick(m)}]
  BY <1>2, <1>3 DEF IsSum
<1> QED BY <1>2, <1>6, <1>7

\* There is one: adding a value to a sum is a step.
LEMMA SumsExist ==
  ASSUME NEW S, IsFiniteSet(S), NEW f \in [S -> Int]
  PROVE  \E g : IsSum(g, f, S)
<1> DEFINE step == [x \in S |-> [d \in Int |-> f[x] + d]]
           ch == [s \in SUBSET S |-> Pick(s)]
<1>1. step \in [S -> [Int -> Int]]
  OBVIOUS
<1>2. Chooses(S, ch)
  <2>1. \A s \in SUBSET S : s # {} => ch[s] \in s
    BY PickIn
  <2> HIDE DEF ch
  <2> QED BY <2>1 DEF Chooses
<1> HIDE DEF step, ch
<1>3. PICK g \in [SUBSET S -> Int] : IsFold(g, 0, step, ch, S)
  <2>1. 0 \in Int
    OBVIOUS
  <2> QED BY <1>1, <1>2, <2>1, FoldExists, Zenon
<1>4. ASSUME NEW s \in SUBSET S, s # {}
      PROVE  g[s] = f[Pick(s)] + g[s \ {Pick(s)}]
  <2>1. ch[s] = Pick(s) /\ Pick(s) \in s
    BY <1>4, PickIn DEF ch
  <2>2. g[s] = step[Pick(s)][g[s \ {Pick(s)}]] /\ g[s \ {Pick(s)}] \in Int
    BY <1>3, <1>4, <2>1 DEF IsFold
  <2> QED BY <2>1, <2>2 DEF step
<1> QED BY <1>3, <1>4 DEF IsSum, IsFold

\* The fold is that sum.
LEMMA FoldIsSum ==
  ASSUME NEW S, IsFiniteSet(S), NEW f \in [S -> Int]
  PROVE  \E g : IsSum(g, f, S) /\ Total(f) = g[S]
<1> DEFINE It(g) == [s \in SUBSET S |-> IF s = {} THEN 0 ELSE f[CHOOSE x \in s : TRUE] + g[s \ {CHOOSE x \in s : TRUE}]]
<1>1. PICK g : IsSum(g, f, S)
  BY SumsExist
<1>2. g = It(g)
  <2>1. \A s \in SUBSET S : g[s] = It(g)[s]
    BY <1>1 DEF IsSum, Pick
  <2>2. g = [s \in SUBSET S |-> g[s]]
    BY <1>1 DEF IsSum
  <2>3. [s \in SUBSET S |-> g[s]] = It(g)
    BY <2>1
  <2> QED BY <2>2, <2>3
<1> DEFINE k == CHOOSE h : h = It(h)
<1>3. k = It(k)
  BY <1>2
<1>4. Total(f) = k[S]
  BY DEF Total, FoldFunction, FoldFunctionOnSet, MapThenFoldSet
<1>5. IsSum(k, f, S)
  <2>0. ASSUME NEW r, NEW s \in SUBSET S, r = It(r)
        PROVE  r[s] = IF s = {} THEN 0 ELSE f[Pick(s)] + r[s \ {Pick(s)}]
    <3>1. r[s] = It(r)[s]
      BY <2>0
    <3> QED BY <3>1 DEF Pick
  <2> HIDE DEF It, k
  <2>1. \A s \in SUBSET S : k[s] = IF s = {} THEN 0 ELSE f[Pick(s)] + k[s \ {Pick(s)}]
    BY <1>3, <2>0
  <2> DEFINE F == {s \in SUBSET S : k[s] # g[s]}
  <2>2. F = {}
    <3> SUFFICES ASSUME F # {} PROVE FALSE
      OBVIOUS
    <3>0. F \in SUBSET (SUBSET S)
      OBVIOUS
    <3> HIDE DEF F
    <3>1. PICK m \in F : \A t \in F : t \subseteq m => t = m
      BY <3>0, SmallestSubset
    <3> USE DEF F
    <3>2. m # {}
      BY <1>1, <2>1, <3>1 DEF IsSum
    <3>3. Pick(m) \in m
      BY <3>2, PickIn
    <3>4. m \ {Pick(m)} \in SUBSET S /\ m \ {Pick(m)} \notin F
      BY <3>1, <3>3
    <3>5. k[m \ {Pick(m)}] = g[m \ {Pick(m)}]
      BY <3>4
    <3> QED BY <1>1, <2>1, <3>1, <3>2, <3>5 DEF IsSum
  <2>3. k = [s \in SUBSET S |-> k[s]]
    BY <1>3 DEF It
  <2>4. k = g
    BY <1>1, <2>2, <2>3 DEF IsSum
  <2> QED BY <1>1, <2>4
<1> QED BY <1>4, <1>5

-------------------------------------------------------------------------------
\* The order in which the elements are taken does not matter.
LEMMA SumTakeOne ==
  ASSUME NEW S, IsFiniteSet(S), NEW f \in [S -> Int], NEW g, IsSum(g, f, S)
  PROVE  \A x \in S : g[S] = f[x] + g[S \ {x}]
<1> DEFINE F == {s \in SUBSET S : \E x \in s : g[s] # f[x] + g[s \ {x}]}
<1> SUFFICES ASSUME F # {} PROVE FALSE
  OBVIOUS
<1>0. F \in SUBSET (SUBSET S)
  OBVIOUS
<1> HIDE DEF F
<1>1. PICK m \in F : \A t \in F : t \subseteq m => t = m
  BY <1>0, SmallestSubset
<1> USE DEF F
<1>2. PICK x \in m : g[m] # f[x] + g[m \ {x}]
  BY <1>1
<1> DEFINE y == Pick(m)
<1>3. m # {} /\ y \in m /\ m \in SUBSET S
  BY <1>1, <1>2, PickIn
<1>4. g[m] = f[y] + g[m \ {y}]
  BY <1>3 DEF IsSum
<1> HIDE DEF y
<1>5. x # y
  BY <1>2, <1>4
<1>6. m \ {x} \notin F /\ m \ {y} \notin F
  BY <1>1, <1>2, <1>3
<1>7. g[m \ {x}] = f[y] + g[(m \ {x}) \ {y}]
  BY <1>3, <1>5, <1>6
<1>8. g[m \ {y}] = f[x] + g[(m \ {y}) \ {x}]
  BY <1>2, <1>3, <1>5, <1>6
<1>9. (m \ {x}) \ {y} = (m \ {y}) \ {x}
  OBVIOUS
<1>10. g[(m \ {x}) \ {y}] \in Int /\ f[x] \in Int /\ f[y] \in Int
  BY <1>2, <1>3 DEF IsSum
<1>11. g[m] = f[y] + (f[x] + g[(m \ {x}) \ {y}])
  BY <1>4, <1>8, <1>9
<1>12. f[x] + g[m \ {x}] = f[x] + (f[y] + g[(m \ {x}) \ {y}])
  BY <1>7
<1> QED BY <1>2, <1>10, <1>11, <1>12

\* The sum is an integer.
LEMMA SumInt ==
  ASSUME NEW S, IsFiniteSet(S), NEW f \in [S -> Int]
  PROVE  Total(f) \in Int
<1>1. PICK g : IsSum(g, f, S) /\ Total(f) = g[S]
  BY FoldIsSum
<1> QED BY <1>1 DEF IsSum

\* The sum over nothing is 0.
LEMMA SumEmpty ==
  ASSUME NEW f \in [{} -> Int]
  PROVE  Total(f) = 0
BY FoldIsSum, FS_EmptySet DEF IsSum

\* The sum without one element.
LEMMA SumRemove ==
  ASSUME NEW S, IsFiniteSet(S), NEW f \in [S -> Int], NEW x \in S,
         NEW h \in [S \ {x} -> Int], \A y \in S \ {x} : h[y] = f[y]
  PROVE  Total(f) = f[x] + Total(h)
<1> DEFINE R == S \ {x}
<1>1. PICK g : IsSum(g, f, S) /\ Total(f) = g[S]
  BY FoldIsSum
<1>2. IsFiniteSet(R) /\ R \in SUBSET S
  BY FS_RemoveElement
<1>3. PICK k : IsSum(k, h, R) /\ Total(h) = k[R]
  BY <1>2, FoldIsSum
<1>4. g[S] = f[x] + g[R]
  <2>1. \A y \in S : g[S] = f[y] + g[S \ {y}]
    BY <1>1, SumTakeOne
  <2> QED BY <2>1
<1>5. IsSum(k, f, R)
  BY <1>3, PickIn DEF IsSum
<1> HIDE DEF R
<1>6. \A s \in SUBSET (S \cap R) : g[s] = k[s]
  BY <1>1, <1>2, <1>5, SumsAgree, S \in SUBSET S
<1>7. g[R] = k[R]
  BY <1>2, <1>6
<1> QED BY <1>1, <1>3, <1>4, <1>7

\* The sum when one value changes.
LEMMA SumAt ==
  ASSUME NEW S, IsFiniteSet(S), NEW f \in [S -> Int], NEW x \in S,
         NEW h \in [S -> Int], \A y \in S \ {x} : h[y] = f[y]
  PROVE  Total(h) = Total(f) - f[x] + h[x]
<1> DEFINE r == [y \in S \ {x} |-> f[y]]
<1>1. r \in [S \ {x} -> Int] /\ \A y \in S \ {x} : r[y] = f[y] /\ r[y] = h[y]
  OBVIOUS
<1>2. IsFiniteSet(S \ {x})
  BY FS_RemoveElement
<1> HIDE DEF r
<1>3. Total(f) = f[x] + Total(r)
  BY <1>1, SumRemove
<1>4. Total(h) = h[x] + Total(r)
  BY <1>1, SumRemove
<1>5. Total(r) \in Int
  BY <1>1, <1>2, SumInt
<1> QED BY <1>3, <1>4, <1>5

\* The sum with one more element.
LEMMA SumNext ==
  ASSUME NEW S, IsFiniteSet(S), NEW f \in [S -> Int], NEW x, x \notin S,
         NEW h \in [S \cup {x} -> Int], \A y \in S : h[y] = f[y]
  PROVE  Total(h) = Total(f) + h[x]
<1> DEFINE T == S \cup {x}
<1>1. IsFiniteSet(T) /\ T \ {x} = S
  BY FS_AddElement
<1>2. f \in [T \ {x} -> Int] /\ \A y \in T \ {x} : f[y] = h[y]
  BY <1>1
<1>3. x \in T /\ h \in [T -> Int]
  OBVIOUS
<1> HIDE DEF T
<1>4. Total(h) = h[x] + Total(f)
  BY <1>1, <1>2, <1>3, SumRemove
<1>5. Total(f) \in Int
  BY SumInt
<1> QED BY <1>3, <1>4, <1>5

LEMMA SumOfMore ==
  ASSUME NEW S, IsFiniteSet(S), NEW x, x \notin S, NEW h \in [S \cup {x} -> Int]
  PROVE  Total(h) = Total([y \in S |-> h[y]]) + h[x]
<1> DEFINE f == [y \in S |-> h[y]]
<1>1. f \in [S -> Int] /\ \A y \in S : h[y] = f[y]
  OBVIOUS
<1> HIDE DEF f
<1>2. Total(h) = Total(f) + h[x]
  BY <1>1, SumNext
<1> QED BY <1>2 DEF f

\* The sum over one element.
LEMMA SumOfOne ==
  ASSUME NEW x, NEW h \in [{x} -> Int]
  PROVE  Total(h) = h[x]
<1> DEFINE S == {}
           f == [i \in S |-> 0]
<1>1. Total(f) = 0
  BY SumEmpty
<1>2. /\ IsFiniteSet(S) /\ f \in [S -> Int] /\ x \notin S /\ h \in [S \cup {x} -> Int]
      /\ \A i \in S : h[i] = f[i]
  BY FS_EmptySet
<1> HIDE DEF S, f
<1>3. Total(h) = Total(f) + h[x]
  BY <1>2, SumNext
<1>4. h[x] \in Int
  OBVIOUS
<1> QED BY <1>1, <1>3, <1>4

\* Greater values have a greater sum.
LEMMA SumUp ==
  ASSUME NEW S, IsFiniteSet(S), NEW f \in [S -> Int], NEW h \in [S -> Int],
         \A x \in S : f[x] <= h[x]
  PROVE  Total(f) <= Total(h)
<1>1. PICK g : IsSum(g, f, S) /\ Total(f) = g[S]
  BY FoldIsSum
<1>2. PICK k : IsSum(k, h, S) /\ Total(h) = k[S]
  BY FoldIsSum
<1> DEFINE F == {s \in SUBSET S : ~ (g[s] <= k[s])}
<1>3. F = {}
  <2> SUFFICES ASSUME F # {} PROVE FALSE
    OBVIOUS
  <2>0. F \in SUBSET (SUBSET S)
    OBVIOUS
  <2> HIDE DEF F
  <2>1. PICK m \in F : \A t \in F : t \subseteq m => t = m
    BY <2>0, SmallestSubset
  <2> USE DEF F
  <2> DEFINE x == Pick(m)
  <2>2. m # {}
    <3>1. g[{}] = 0 /\ k[{}] = 0
      BY <1>1, <1>2 DEF IsSum
    <3>2. ~ (g[m] <= k[m])
      BY <2>1
    <3>3. ASSUME m = {} PROVE FALSE
      BY <3>1, <3>2, <3>3
    <3> QED BY <3>3
  <2>3. x \in m /\ m \in SUBSET S
    BY <2>1, <2>2, PickIn
  <2>4. g[m] = f[x] + g[m \ {x}] /\ k[m] = h[x] + k[m \ {x}]
    BY <1>1, <1>2, <2>2, <2>3 DEF IsSum
  <2> HIDE DEF x
  <2>5. m \ {x} \notin F
    BY <2>1, <2>3
  <2>6. g[m \ {x}] <= k[m \ {x}]
    BY <2>3, <2>5
  <2>7. g[m \ {x}] \in Int /\ k[m \ {x}] \in Int /\ f[x] \in Int /\ h[x] \in Int /\ f[x] <= h[x]
    BY <1>1, <1>2, <2>3 DEF IsSum
  <2>8. g[m] <= k[m]
    BY <2>4, <2>6, <2>7
  <2> QED BY <2>1, <2>8
<1>4. g[S] <= k[S]
  BY <1>3
<1> QED BY <1>1, <1>2, <1>4

\* A sum of zeros is 0.
LEMMA SumZero ==
  ASSUME NEW S, IsFiniteSet(S), NEW f \in [S -> Int], \A x \in S : f[x] = 0
  PROVE  Total(f) = 0
<1>1. PICK g : IsSum(g, f, S) /\ Total(f) = g[S]
  BY FoldIsSum
<1> DEFINE F == {s \in SUBSET S : g[s] # 0}
<1>2. F = {}
  <2> SUFFICES ASSUME F # {} PROVE FALSE
    OBVIOUS
  <2>0. F \in SUBSET (SUBSET S)
    OBVIOUS
  <2> HIDE DEF F
  <2>1. PICK m \in F : \A t \in F : t \subseteq m => t = m
    BY <2>0, SmallestSubset
  <2> USE DEF F
  <2> DEFINE x == Pick(m)
  <2>2. m # {}
    <3>1. g[{}] = 0
      BY <1>1 DEF IsSum
    <3> QED BY <2>1, <3>1
  <2>3. x \in m /\ m \in SUBSET S
    BY <2>1, <2>2, PickIn
  <2>4. g[m] = f[x] + g[m \ {x}]
    BY <1>1, <2>2, <2>3 DEF IsSum
  <2> HIDE DEF x
  <2>5. m \ {x} \notin F
    BY <2>1, <2>3
  <2>6. g[m] = 0
    BY <2>3, <2>4, <2>5
  <2> QED BY <2>1, <2>6
<1>3. g[S] = 0
  BY <1>2
<1> QED BY <1>1, <1>3
===============================================================================
