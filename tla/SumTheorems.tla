---------------------------- MODULE SumTheorems ----------------------------
(***************************************************************************)
(* Facts about SumFunction of the community module Functions over a finite *)
(* domain, proved by least counterexample: the installed provers cannot    *)
(* instantiate the library's induction rules, but they can use a minimal   *)
(* element of a set.                                                       *)
(***************************************************************************)
EXTENDS Integers, FiniteSets, Functions, FiniteSetTheorems,
        WellFoundedInduction, TLAPS

\* A nonempty set of naturals has a least element.
LEMMA LeastNat ==
  ASSUME NEW T \in SUBSET Nat, T # {}
  PROVE  \E n \in T : \A m \in T : n <= m
<1> DEFINE R == OpToRel(<, Nat)
<1>1. IsWellFoundedOn(R, Nat)
  BY NatLessThanWellFounded
<1>2. \A m, n \in T : m < n => <<m, n>> \in R
  BY DEF OpToRel
<1> HIDE DEF R
<1>3. PICK n \in T : \A m \in T : ~(<<m, n>> \in R)
  BY <1>1, WFMin
<1>4. ASSUME NEW m \in T
      PROVE  n <= m
  <2>1. m \in Nat /\ n \in Nat /\ ~(m < n)
    BY <1>2, <1>3
  <2> QED BY <2>1
<1> QED BY <1>4

\* A nonempty family of subsets of a finite set has a member that leaves the
\* family whichever of its elements is taken out.
LEMMA LeastSubset ==
  ASSUME NEW D, IsFiniteSet(D), NEW B \in SUBSET (SUBSET D), B # {}
  PROVE  \E s \in B : \A x \in s : s \ {x} \notin B
<1> DEFINE T == {Cardinality(s) : s \in B}
<1>1. \A s \in B : IsFiniteSet(s) /\ Cardinality(s) \in Nat
  BY FS_Subset, FS_CardinalityType
<1>2. T \in SUBSET Nat /\ T # {}
  BY <1>1
<1>3. PICK n \in T : \A m \in T : n <= m
  BY <1>2, LeastNat
<1>4. PICK s \in B : Cardinality(s) = n
  BY <1>3
<1>5. ASSUME NEW x \in s, s \ {x} \in B
      PROVE  FALSE
  <2>1. Cardinality(s \ {x}) = Cardinality(s) - 1
    BY <1>1, FS_RemoveElement
  <2>2. n <= Cardinality(s \ {x})
    BY <1>3, <1>5
  <2> QED BY <1>1, <1>4, <2>1, <2>2
<1> QED BY <1>5

-----------------------------------------------------------------------------
\* The element the fold takes out of a set, and one step of the fold.
Pick(s) == CHOOSE x \in s : TRUE
SumStep(f, g, s) == IF s = {} THEN 0 ELSE f[Pick(s)] + g[s \ {Pick(s)}]
SumFrom(f, D) == CHOOSE g : g = [s \in SUBSET D |-> SumStep(f, g, s)]

\* SumFunctionOnSet is the fold above.
LEMMA SumUnfold ==
  ASSUME NEW f, NEW D
  PROVE  SumFunctionOnSet(f, D) = SumFrom(f, D)[D]
BY DEF SumFunctionOnSet, FoldFunctionOnSet, MapThenFoldSet, SumFrom, SumStep, Pick

\* The partial sums over the subsets of at most n elements exist.
Small(D, n) == {s \in SUBSET D : Cardinality(s) <= n}
SumsUpTo(f, D, n) ==
  \E g \in [Small(D, n) -> Int] : \A s \in Small(D, n) : g[s] = SumStep(f, g, s)

LEMMA SumsExist ==
  ASSUME NEW D, IsFiniteSet(D), NEW f \in [D -> Int], NEW n \in Nat
  PROVE  SumsUpTo(f, D, n)
<1> DEFINE T == {m \in Nat : ~SumsUpTo(f, D, m)}
<1> SUFFICES ASSUME T # {} PROVE FALSE
  OBVIOUS
<1>1. PICK m \in T : \A k \in T : m <= k
  BY LeastNat
<1>2. \A s \in SUBSET D : IsFiniteSet(s) /\ Cardinality(s) \in Nat
  BY FS_Subset, FS_CardinalityType
<1>3. CASE m = 0
  <2>1. Small(D, 0) = {{}}
    BY <1>2, FS_EmptySet DEF Small
  <2>2. SumsUpTo(f, D, 0)
    <3> DEFINE g == [s \in Small(D, 0) |-> 0]
    <3>1. g \in [Small(D, 0) -> Int]
      OBVIOUS
    <3>2. \A s \in Small(D, 0) : g[s] = SumStep(f, g, s)
      BY <2>1 DEF SumStep
    <3> QED BY <3>1, <3>2 DEF SumsUpTo
  <2> QED BY <1>3, <2>2
<1>4. CASE m # 0
  <2>1. m - 1 \in Nat /\ SumsUpTo(f, D, m - 1)
    BY <1>1, <1>4
  <2>2. PICK g \in [Small(D, m - 1) -> Int] :
          \A s \in Small(D, m - 1) : g[s] = SumStep(f, g, s)
    BY <2>1 DEF SumsUpTo
  <2> DEFINE h == [s \in Small(D, m) |-> SumStep(f, g, s)]
  <2>3. ASSUME NEW s \in Small(D, m), s # {}
        PROVE  Pick(s) \in s /\ s \ {Pick(s)} \in Small(D, m - 1)
    <3>1. Pick(s) \in s
      BY <2>3 DEF Pick
    <3>2. Cardinality(s \ {Pick(s)}) = Cardinality(s) - 1
      BY <1>2, <3>1, FS_RemoveElement DEF Small
    <3> QED BY <1>2, <3>1, <3>2 DEF Small
  <2>4. ASSUME NEW s \in Small(D, m)
        PROVE  SumStep(f, g, s) \in Int
    BY <2>2, <2>3 DEF SumStep, Small
  <2>5. Small(D, m - 1) \subseteq Small(D, m)
    BY <1>2 DEF Small
  <2>6. ASSUME NEW s \in Small(D, m)
        PROVE  h[s] = SumStep(f, h, s)
    <3>1. CASE s = {}
      BY <3>1 DEF SumStep
    <3>2. CASE s # {}
      <4>1. h[s \ {Pick(s)}] = g[s \ {Pick(s)}]
        BY <2>2, <2>3, <2>5, <3>2
      <4> QED BY <4>1, <3>2 DEF SumStep
    <3> QED BY <3>1, <3>2
  <2>7. h \in [Small(D, m) -> Int]
    BY <2>4
  <2>8. SumsUpTo(f, D, m)
    BY <2>6, <2>7 DEF SumsUpTo
  <2> QED BY <1>1, <2>8
<1> QED BY <1>3, <1>4

\* The fold satisfies its own equation, and all its values are integers.
LEMMA SumFromEquation ==
  ASSUME NEW D, IsFiniteSet(D), NEW f \in [D -> Int]
  PROVE  /\ SumFrom(f, D) \in [SUBSET D -> Int]
         /\ \A s \in SUBSET D :
              SumFrom(f, D)[s] = SumStep(f, SumFrom(f, D), s)
<1> DEFINE N == Cardinality(D)
<1>1. N \in Nat /\ \A s \in SUBSET D : Cardinality(s) <= N
  BY FS_Subset, FS_CardinalityType
<1>2. Small(D, N) = SUBSET D
  BY <1>1 DEF Small
<1> HIDE DEF N
<1>x. SumsUpTo(f, D, N)
  BY <1>1, SumsExist
<1>3. PICK g \in [SUBSET D -> Int] : \A s \in SUBSET D : g[s] = SumStep(f, g, s)
  BY <1>2, <1>x DEF SumsUpTo
<1>4. g = [s \in SUBSET D |-> SumStep(f, g, s)]
  BY <1>3
<1> DEFINE h == SumFrom(f, D)
<1>5. h = [s \in SUBSET D |-> SumStep(f, h, s)]
  BY <1>4 DEF SumFrom
<1> HIDE DEF h
<1>6. \A s \in SUBSET D : h[s] = SumStep(f, h, s)
  BY <1>5
<1> DEFINE B == {s \in SUBSET D : h[s] \notin Int}
<1>7. ASSUME B # {}
      PROVE  FALSE
  <2>1. PICK s \in B : \A x \in s : s \ {x} \notin B
    BY <1>7, LeastSubset
  <2>2. CASE s = {}
    <3>1. h[s] = SumStep(f, h, s) /\ h[s] \notin Int
      BY <1>6, <2>1
    <3>2. SumStep(f, h, s) = 0
      BY <2>2 DEF SumStep
    <3> QED BY <3>1, <3>2
  <2>3. CASE s # {}
    <3>1. Pick(s) \in s
      BY <2>3 DEF Pick
    <3>2. h[s \ {Pick(s)}] \in Int /\ f[Pick(s)] \in Int
      BY <2>1, <3>1
    <3>3. h[s] = f[Pick(s)] + h[s \ {Pick(s)}]
      BY <1>6, <2>3 DEF SumStep
    <3> QED BY <3>2, <3>3
  <2> QED BY <2>2, <2>3
<1>8. h \in [SUBSET D -> Int]
  BY <1>5, <1>7
<1> QED BY <1>6, <1>8 DEF h

\* A sum of integers over a finite domain is an integer.
THEOREM SumType ==
  ASSUME NEW D, IsFiniteSet(D), NEW f \in [D -> Int]
  PROVE  SumFunction(f) \in Int
<1>1. DOMAIN f = D
  OBVIOUS
<1>2. SumFunction(f) = SumFrom(f, D)[D]
  BY <1>1, SumUnfold DEF SumFunction
<1>3. SumFrom(f, D) \in [SUBSET D -> Int] /\ D \in SUBSET D
  BY SumFromEquation
<1> QED BY <1>2, <1>3

\* A sum of naturals over a finite domain is a natural.
THEOREM SumNat ==
  ASSUME NEW D, IsFiniteSet(D), NEW f \in [D -> Nat]
  PROVE  SumFunction(f) \in Nat
<1> DEFINE h == SumFrom(f, D)
           B == {s \in SUBSET D : h[s] \notin Nat}
<1>1. f \in [D -> Int]
  OBVIOUS
<1>2. \A s \in SUBSET D : h[s] = SumStep(f, h, s)
  BY <1>1, SumFromEquation
<1>3. SumFunction(f) = h[D]
  BY SumUnfold DEF SumFunction
<1> HIDE DEF h
<1>4. ASSUME B # {}
      PROVE  FALSE
  <2>1. PICK s \in B : \A x \in s : s \ {x} \notin B
    BY <1>4, LeastSubset
  <2>2. h[s] = SumStep(f, h, s) /\ h[s] \notin Nat
    BY <1>2, <2>1
  <2>3. CASE s = {}
    <3>1. SumStep(f, h, s) = 0
      BY <2>3 DEF SumStep
    <3> QED BY <2>2, <3>1
  <2>4. CASE s # {}
    <3>1. Pick(s) \in s
      BY <2>4 DEF Pick
    <3>2. h[s \ {Pick(s)}] \in Nat /\ f[Pick(s)] \in Nat
      BY <2>1, <3>1
    <3>3. h[s] = f[Pick(s)] + h[s \ {Pick(s)}]
      BY <2>2, <2>4 DEF SumStep
    <3> QED BY <2>2, <3>2, <3>3
  <2> QED BY <2>3, <2>4
<1>5. h[D] \in Nat
  BY <1>4
<1> QED BY <1>3, <1>5

\* Changing one summand changes the sum by the same amount.
THEOREM SumUpdate ==
  ASSUME NEW D, IsFiniteSet(D), NEW f \in [D -> Int], NEW g \in [D -> Int],
         NEW k \in D, \A x \in D \ {k} : g[x] = f[x]
  PROVE  SumFunction(g) = SumFunction(f) + g[k] - f[k]
<1> DEFINE F == SumFrom(f, D)
           G == SumFrom(g, D)
           gap(s) == IF k \in s THEN g[k] - f[k] ELSE 0
           B == {s \in SUBSET D : G[s] # F[s] + gap(s)}
<1>1. /\ F \in [SUBSET D -> Int]
      /\ \A s \in SUBSET D : F[s] = SumStep(f, F, s)
  BY SumFromEquation
<1>2. /\ G \in [SUBSET D -> Int]
      /\ \A s \in SUBSET D : G[s] = SumStep(g, G, s)
  BY SumFromEquation
<1>3. ASSUME B # {}
      PROVE  FALSE
  <2> HIDE DEF F, G
  <2>1. PICK s \in B : \A x \in s : s \ {x} \notin B
    BY <1>3, LeastSubset
  <2>2. CASE s = {}
    <3>1. F[s] = SumStep(f, F, s) /\ G[s] = SumStep(g, G, s)
      BY <1>1, <1>2, <2>1
    <3>2. SumStep(f, F, s) = 0 /\ SumStep(g, G, s) = 0 /\ gap(s) = 0
      BY <2>2 DEF SumStep
    <3>3. G[s] # F[s] + gap(s)
      BY <2>1
    <3> HIDE DEF gap
    <3> QED BY <3>1, <3>2, <3>3
  <2>3. CASE s # {}
    <3> DEFINE x == Pick(s)
               r == s \ {x}
    <3>1. x \in s /\ s \in SUBSET D
      BY <2>1, <2>3 DEF Pick
    <3>2. r \in SUBSET D /\ r \notin B
      BY <2>1, <3>1
    <3>3. G[r] = F[r] + gap(r)
      BY <3>2
    <3>4. F[s] = f[x] + F[r] /\ G[s] = g[x] + G[r]
      BY <1>1, <1>2, <2>3, <3>1 DEF SumStep
    <3>5. x \in D /\ k \in D /\ F[r] \in Int /\ f[x] \in Int /\ g[x] \in Int
          /\ f[k] \in Int /\ g[k] \in Int
      BY <1>1, <3>1, <3>2
    <3>6. CASE x = k
      BY <2>1, <3>1, <3>3, <3>4, <3>5, <3>6
    <3>7. CASE x # k
      <4>1. g[x] = f[x] /\ (k \in r <=> k \in s)
        BY <3>1, <3>5, <3>7
      <4>2. gap(r) = gap(s)
        BY <4>1
      <4>3. gap(s) \in Int
        BY <3>5
      <4> HIDE DEF gap, r, x
      <4>4. G[s] = F[s] + gap(s)
        BY <3>3, <3>4, <3>5, <4>1, <4>2, <4>3
      <4> QED BY <2>1, <4>4
    <3> QED BY <3>6, <3>7
  <2> QED BY <2>2, <2>3
<1>4. G[D] = F[D] + (g[k] - f[k])
  BY <1>3
<1>5. SumFunction(f) = F[D] /\ SumFunction(g) = G[D]
  BY SumUnfold DEF SumFunction
<1>6. F[D] \in Int /\ f[k] \in Int /\ g[k] \in Int
  BY <1>1
<1> QED BY <1>4, <1>5, <1>6

\* No summand exceeds a sum of naturals.
THEOREM SumBoundsSummand ==
  ASSUME NEW D, IsFiniteSet(D), NEW f \in [D -> Nat], NEW k \in D
  PROVE  f[k] <= SumFunction(f)
<1> DEFINE g == [f EXCEPT ![k] = 0]
<1>1. g \in [D -> Nat] /\ g[k] = 0 /\ \A x \in D \ {k} : f[x] = g[x]
  OBVIOUS
<1> HIDE DEF g
<1>2. SumFunction(g) \in Nat
  BY <1>1, SumNat
<1>3. f \in [D -> Int] /\ g \in [D -> Int]
  BY <1>1
<1>4. SumFunction(f) = SumFunction(g) + f[k] - g[k]
  BY <1>1, <1>3, SumUpdate
<1>5. f[k] \in Nat
  OBVIOUS
<1> QED BY <1>1, <1>2, <1>4, <1>5

-----------------------------------------------------------------------------
\* Any element may be taken out of the fold, not only the one it picks.
LEMMA SumRemove ==
  ASSUME NEW D, IsFiniteSet(D), NEW f \in [D -> Int], NEW t \in SUBSET D, NEW k \in t
  PROVE  SumFrom(f, D)[t] = f[k] + SumFrom(f, D)[t \ {k}]
<1> DEFINE F == SumFrom(f, D)
           B == {s \in SUBSET D : \E x \in s : F[s] # f[x] + F[s \ {x}]}
<1>1. /\ F \in [SUBSET D -> Int]
      /\ \A s \in SUBSET D : F[s] = SumStep(f, F, s)
  BY SumFromEquation
<1> HIDE DEF F
<1>2. ASSUME B # {}
      PROVE  FALSE
  <2>1. PICK s \in B : \A x \in s : s \ {x} \notin B
    BY <1>2, LeastSubset
  <2>2. PICK x \in s : F[s] # f[x] + F[s \ {x}]
    BY <2>1
  <2> DEFINE y == Pick(s)
  <2>3. y \in s
    BY <2>2 DEF Pick
  <2>4. F[s] = f[y] + F[s \ {y}]
    BY <1>1, <2>1, <2>2 DEF SumStep
  <2> HIDE DEF y
  <2>5. x # y
    BY <2>2, <2>4
  <2> DEFINE r == (s \ {x}) \ {y}
  <2>6. (s \ {y}) \ {x} = r
    OBVIOUS
  <2>7. F[s \ {y}] = f[x] + F[r]
    <3>1. s \ {y} \notin B /\ s \ {y} \in SUBSET D /\ x \in s \ {y}
      BY <2>1, <2>3, <2>5
    <3> QED BY <2>6, <3>1
  <2>8. F[s \ {x}] = f[y] + F[r]
    <3>1. s \ {x} \notin B /\ s \ {x} \in SUBSET D /\ y \in s \ {x}
      BY <2>1, <2>3, <2>5
    <3> QED BY <3>1
  <2>9. f[x] \in Int /\ f[y] \in Int /\ F[r] \in Int
    BY <1>1, <2>1, <2>3
  <2> HIDE DEF r
  <2> QED BY <2>2, <2>4, <2>7, <2>8, <2>9
<1>3. t \notin B
  BY <1>2
<1> QED BY <1>3 DEF F

\* The fold over a set depends on the summands in the set alone.
LEMMA SumAgree ==
  ASSUME NEW D, IsFiniteSet(D), NEW E \in SUBSET D, NEW f \in [D -> Int],
         NEW g \in [E -> Int], \A x \in E : f[x] = g[x]
  PROVE  SumFrom(f, D)[E] = SumFrom(g, E)[E]
<1> DEFINE F == SumFrom(f, D)
           G == SumFrom(g, E)
           B == {s \in SUBSET E : F[s] # G[s]}
<1>0. IsFiniteSet(E)
  BY FS_Subset
<1>1. \A s \in SUBSET D : F[s] = SumStep(f, F, s)
  BY SumFromEquation
<1>2. \A s \in SUBSET E : G[s] = SumStep(g, G, s)
  BY <1>0, SumFromEquation
<1> HIDE DEF F, G
<1>3. ASSUME B # {}
      PROVE  FALSE
  <2>1. PICK s \in B : \A x \in s : s \ {x} \notin B
    BY <1>0, <1>3, LeastSubset
  <2>2. s \in SUBSET E /\ s \in SUBSET D /\ F[s] # G[s]
    BY <2>1
  <2>3. F[s] = SumStep(f, F, s) /\ G[s] = SumStep(g, G, s)
    BY <1>1, <1>2, <2>2
  <2>4. CASE s = {}
    BY <2>2, <2>3, <2>4 DEF SumStep
  <2>5. CASE s # {}
    <3>1. Pick(s) \in s
      BY <2>5 DEF Pick
    <3>2. f[Pick(s)] = g[Pick(s)] /\ F[s \ {Pick(s)}] = G[s \ {Pick(s)}]
      BY <2>1, <2>2, <3>1
    <3> QED BY <2>2, <2>3, <2>5, <3>2 DEF SumStep
  <2> QED BY <2>4, <2>5
<1>4. E \notin B
  BY <1>3
<1> QED BY <1>4 DEF F, G

\* A new summand is added to the sum.
THEOREM SumExtend ==
  \A D, k : IsFiniteSet(D) /\ k \notin D =>
    \A f \in [D -> Int], g \in [D \cup {k} -> Int] :
      (\A x \in D : g[x] = f[x]) => SumFunction(g) = SumFunction(f) + g[k]
<1> SUFFICES ASSUME NEW D, IsFiniteSet(D), NEW k, k \notin D, NEW f \in [D -> Int],
                    NEW g \in [D \cup {k} -> Int], \A x \in D : g[x] = f[x]
             PROVE  SumFunction(g) = SumFunction(f) + g[k]
  OBVIOUS
<1> DEFINE E == D \cup {k}
<1>1. IsFiniteSet(E) /\ D \in SUBSET E /\ k \in E /\ E \ {k} = D
  BY FS_AddElement
<1>2. SumFunction(f) = SumFrom(f, D)[D] /\ SumFunction(g) = SumFrom(g, E)[E]
  BY SumUnfold DEF SumFunction
<1>e. g \in [E -> Int] /\ E \in SUBSET E
  OBVIOUS
<1> HIDE DEF E
<1>3. SumFrom(g, E)[E] = g[k] + SumFrom(g, E)[E \ {k}]
  BY <1>1, <1>e, SumRemove
<1>4. SumFrom(g, E)[D] = SumFrom(f, D)[D]
  BY <1>1, <1>e, SumAgree
<1>5. SumFunction(f) \in Int /\ g[k] \in Int
  BY <1>1, <1>e, SumType
<1>6. SumFunction(g) = g[k] + SumFunction(f)
  BY <1>1, <1>2, <1>3, <1>4, Zenon
<1> QED BY <1>5, <1>6

\* The empty sum.
THEOREM SumEmpty ==
  ASSUME NEW f \in [{} -> Int]
  PROVE  SumFunction(f) = 0
<1>1. SumFunction(f) = SumFrom(f, {})[{}]
  BY SumUnfold DEF SumFunction
<1>2. SumFrom(f, {})[{}] = SumStep(f, SumFrom(f, {}), {})
  BY FS_EmptySet, SumFromEquation
<1> QED BY <1>1, <1>2 DEF SumStep

\* A sum of zeros.
THEOREM SumZero ==
  ASSUME NEW D, IsFiniteSet(D), NEW f \in [D -> Int], \A x \in D : f[x] = 0
  PROVE  SumFunction(f) = 0
<1> DEFINE F == SumFrom(f, D)
           B == {s \in SUBSET D : F[s] # 0}
<1>1. \A s \in SUBSET D : F[s] = SumStep(f, F, s)
  BY SumFromEquation
<1>2. SumFunction(f) = F[D]
  BY SumUnfold DEF SumFunction
<1> HIDE DEF F
<1>3. ASSUME B # {}
      PROVE  FALSE
  <2>1. PICK s \in B : \A x \in s : s \ {x} \notin B
    BY <1>3, LeastSubset
  <2>2. F[s] = SumStep(f, F, s) /\ F[s] # 0
    BY <1>1, <2>1
  <2>3. CASE s = {}
    BY <2>2, <2>3 DEF SumStep
  <2>4. CASE s # {}
    <3>1. Pick(s) \in s
      BY <2>4 DEF Pick
    <3>2. f[Pick(s)] = 0 /\ F[s \ {Pick(s)}] = 0
      BY <2>1, <3>1
    <3>3. SumStep(f, F, s) = 0 + 0
      BY <2>4, <3>2 DEF SumStep
    <3> QED BY <2>2, <3>3
  <2> QED BY <2>3, <2>4
<1>4. F[D] = 0
  BY <1>3
<1> QED BY <1>2, <1>4
\* The sum of a sum.
THEOREM SumPlus ==
  ASSUME NEW D, IsFiniteSet(D), NEW f \in [D -> Int], NEW g \in [D -> Int],
         NEW h \in [D -> Int], \A x \in D : h[x] = f[x] + g[x]
  PROVE  SumFunction(h) = SumFunction(f) + SumFunction(g)
<1> DEFINE F == SumFrom(f, D)
           G == SumFrom(g, D)
           H == SumFrom(h, D)
           B == {s \in SUBSET D : H[s] # F[s] + G[s]}
<1>1. /\ F \in [SUBSET D -> Int] /\ G \in [SUBSET D -> Int] /\ H \in [SUBSET D -> Int]
      /\ \A s \in SUBSET D : /\ F[s] = SumStep(f, F, s)
                            /\ G[s] = SumStep(g, G, s)
                            /\ H[s] = SumStep(h, H, s)
  BY SumFromEquation
<1>2. SumFunction(f) = F[D] /\ SumFunction(g) = G[D] /\ SumFunction(h) = H[D]
  BY SumUnfold DEF SumFunction
<1> HIDE DEF F, G, H
<1>3. ASSUME B # {}
      PROVE  FALSE
  <2>1. PICK s \in B : \A x \in s : s \ {x} \notin B
    BY <1>3, LeastSubset
  <2>2. /\ s \in SUBSET D /\ H[s] # F[s] + G[s]
        /\ F[s] = SumStep(f, F, s) /\ G[s] = SumStep(g, G, s) /\ H[s] = SumStep(h, H, s)
    BY <1>1, <2>1
  <2>3. CASE s = {}
    BY <2>2, <2>3 DEF SumStep
  <2>4. CASE s # {}
    <3> DEFINE y == Pick(s)
               r == s \ {y}
    <3>1. y \in s
      BY <2>4 DEF Pick
    <3>2. r \in SUBSET D /\ r \notin B
      BY <2>1, <2>2, <3>1
    <3>3. F[s] = f[y] + F[r] /\ G[s] = g[y] + G[r] /\ H[s] = h[y] + H[r]
      BY <2>2, <2>4 DEF SumStep
    <3> HIDE DEF r, y
    <3>4. H[r] = F[r] + G[r] /\ h[y] = f[y] + g[y]
      BY <2>2, <3>1, <3>2
    <3>5. f[y] \in Int /\ g[y] \in Int /\ F[r] \in Int /\ G[r] \in Int
      BY <1>1, <2>2, <3>1, <3>2
    <3> QED BY <2>2, <3>3, <3>4, <3>5
  <2> QED BY <2>3, <2>4
<1>4. H[D] = F[D] + G[D]
  BY <1>3
<1> QED BY <1>2, <1>4

\* The sum of a sequence that grew by one.
THEOREM SumAppend ==
  ASSUME NEW n \in Nat, NEW f \in [1 .. n -> Int], NEW g \in [1 .. n + 1 -> Int],
         \A x \in 1 .. n : g[x] = f[x]
  PROVE  SumFunction(g) = SumFunction(f) + g[n + 1]
<1>2. IsFiniteSet(1 .. n)
  BY FS_Interval
<1>3. 1 .. n + 1 = (1 .. n) \cup {n + 1} /\ n + 1 \notin 1 .. n
  OBVIOUS
<1>4. \A D, k : IsFiniteSet(D) /\ k \notin D =>
        \A p \in [D -> Int], q \in [D \cup {k} -> Int] :
          (\A x \in D : q[x] = p[x]) => SumFunction(q) = SumFunction(p) + q[k]
  BY SumExtend
<1>5. \A p \in [1 .. n -> Int], q \in [(1 .. n) \cup {n + 1} -> Int] :
        (\A x \in 1 .. n : q[x] = p[x]) => SumFunction(q) = SumFunction(p) + q[n + 1]
  <2> DEFINE S == 1 .. n
             k == n + 1
  <2>1. IsFiniteSet(S) /\ k \notin S
    BY <1>2, <1>3
  <2> HIDE DEF S, k
  <2>2. \A p \in [S -> Int], q \in [S \cup {k} -> Int] :
          (\A x \in S : q[x] = p[x]) => SumFunction(q) = SumFunction(p) + q[k]
    BY ONLY <1>4, <2>1, Zenon
  <2> QED BY ONLY <2>2, Zenon DEF S, k
<1> QED BY <1>3, <1>5

\* The same two facts with what they ask of the functions named, which is easier to
\* cite among other facts about functions.
Alters(D, f, g, k) ==
  f \in [D -> Int] /\ g \in [D -> Int] /\ k \in D /\ \A x \in D \ {k} : g[x] = f[x]
Adds(D, f, g, h) ==
  f \in [D -> Int] /\ g \in [D -> Int] /\ h \in [D -> Int] /\ \A x \in D : h[x] = f[x] + g[x]

THEOREM SumAltered ==
  ASSUME NEW D, IsFiniteSet(D), NEW f, NEW g, NEW k, Alters(D, f, g, k)
  PROVE  SumFunction(g) = SumFunction(f) + g[k] - f[k]
BY SumUpdate DEF Alters

THEOREM SumAdded ==
  ASSUME NEW D, IsFiniteSet(D), NEW f, NEW g, NEW h, Adds(D, f, g, h)
  PROVE  SumFunction(h) = SumFunction(f) + SumFunction(g)
BY SumPlus DEF Adds


-----------------------------------------------------------------------------
\* A sum of larger numbers is larger.
THEOREM SumLeq ==
  ASSUME NEW D, IsFiniteSet(D), NEW f \in [D -> Int], NEW g \in [D -> Int],
         \A x \in D : f[x] <= g[x]
  PROVE  SumFunction(f) <= SumFunction(g)
<1> DEFINE h == [x \in D |-> g[x] - f[x]]
<1>1. h \in [D -> Nat] /\ h \in [D -> Int] /\ \A x \in D : g[x] = f[x] + h[x]
  OBVIOUS
<1> HIDE DEF h
<1>2. SumFunction(h) \in Nat
  BY <1>1, SumNat
<1>3. SumFunction(g) = SumFunction(f) + SumFunction(h)
  BY <1>1, SumPlus
<1>4. SumFunction(f) \in Int
  BY SumType
<1> QED BY <1>2, <1>3, <1>4

\* A common factor.
THEOREM SumScaled ==
  ASSUME NEW D, IsFiniteSet(D), NEW f \in [D -> Int], NEW g \in [D -> Int], NEW c \in Int,
         \A x \in D : g[x] = c * f[x]
  PROVE  SumFunction(g) = c * SumFunction(f)
<1> DEFINE F == SumFrom(f, D)
           G == SumFrom(g, D)
           B == {s \in SUBSET D : G[s] # c * F[s]}
<1>1. /\ F \in [SUBSET D -> Int] /\ G \in [SUBSET D -> Int]
      /\ \A s \in SUBSET D : F[s] = SumStep(f, F, s) /\ G[s] = SumStep(g, G, s)
  BY SumFromEquation
<1>2. SumFunction(f) = F[D] /\ SumFunction(g) = G[D]
  BY SumUnfold DEF SumFunction
<1> HIDE DEF F, G
<1>3. ASSUME B # {}
      PROVE  FALSE
  <2>1. PICK s \in B : \A x \in s : s \ {x} \notin B
    BY <1>3, LeastSubset
  <2>2. /\ s \in SUBSET D /\ G[s] # c * F[s]
        /\ F[s] = SumStep(f, F, s) /\ G[s] = SumStep(g, G, s)
    BY <1>1, <2>1
  <2>3. CASE s = {}
    BY <2>2, <2>3 DEF SumStep
  <2>4. CASE s # {}
    <3> DEFINE y == Pick(s)
               r == s \ {y}
    <3>1. y \in s
      BY <2>4 DEF Pick
    <3>2. r \in SUBSET D /\ r \notin B
      BY <2>1, <2>2, <3>1
    <3>3. F[s] = f[y] + F[r] /\ G[s] = g[y] + G[r]
      BY <2>2, <2>4 DEF SumStep
    <3> HIDE DEF r, y
    <3>4. G[r] = c * F[r] /\ g[y] = c * f[y]
      BY <2>2, <3>1, <3>2
    <3>5. f[y] \in Int /\ F[r] \in Int
      BY <1>1, <2>2, <3>1, <3>2
    <3>6. \A u, v \in Int : c * (u + v) = c * u + c * v
      OBVIOUS
    <3> QED BY <2>2, <3>3, <3>4, <3>5, <3>6
  <2> QED BY <2>3, <2>4
<1>4. G[D] = c * F[D]
  BY <1>3
<1> QED BY <1>2, <1>4

\* Zeros can be left out.
THEOREM SumSupported ==
  ASSUME NEW D, IsFiniteSet(D), NEW E \in SUBSET D, NEW f \in [D -> Int], NEW g \in [E -> Int],
         \A x \in E : g[x] = f[x], \A x \in D \ E : f[x] = 0
  PROVE  SumFunction(f) = SumFunction(g)
<1> DEFINE F == SumFrom(f, D)
           B == {s \in SUBSET D : F[s] # F[s \cap E]}
<1>1. F \in [SUBSET D -> Int]
  BY SumFromEquation
<1>2. SumFunction(f) = F[D] /\ SumFunction(g) = SumFrom(g, E)[E]
  BY SumUnfold DEF SumFunction
<1>3. F[E] = SumFrom(g, E)[E]
  BY SumAgree
<1>4. ASSUME NEW t \in SUBSET D, NEW k \in t
      PROVE  F[t] = f[k] + F[t \ {k}]
  BY SumRemove
<1> HIDE DEF F
<1>5. ASSUME B # {}
      PROVE  FALSE
  <2>1. PICK s \in B : \A x \in s : s \ {x} \notin B
    BY <1>5, LeastSubset
  <2>2. s \in SUBSET D /\ F[s] # F[s \cap E]
    BY <2>1
  <2>3. PICK k \in s : k \notin E
    <3>1. s \subseteq E => s \cap E = s
      OBVIOUS
    <3> QED BY <2>2, <3>1
  <2> DEFINE r == s \ {k}
  <2>4. r \in SUBSET D /\ r \notin B /\ r \cap E = s \cap E
    BY <2>1, <2>2, <2>3
  <2>5. F[s] = f[k] + F[r] /\ f[k] = 0
    BY <1>4, <2>2, <2>3
  <2> HIDE DEF r
  <2>6. F[r] = F[s \cap E] /\ F[r] \in Int
    BY <1>1, <2>4
  <2> QED BY <2>2, <2>5, <2>6
<1>6. F[D] = F[D \cap E] /\ D \cap E = E
  BY <1>5
<1> QED BY <1>2, <1>3, <1>6

\* The entries of a sequence, grouped by what h says of them, add up to all of them.
Group(h, M, m, a) == SumFunction([k \in 1 .. m |-> IF h[k] = a THEN M[k] ELSE 0])
THEOREM SumGrouped ==
  ASSUME NEW D, IsFiniteSet(D), NEW n \in Nat, NEW M \in [1 .. n -> Int], NEW h \in [1 .. n -> D]
  PROVE  SumFunction([a \in D |-> Group(h, M, n, a)]) = SumFunction(M)
<1> DEFINE Part(m) == [k \in 1 .. m |-> M[k]]
           By(m) == [a \in D |-> Group(h, M, m, a)]
           Equal(m) == SumFunction(By(m)) = SumFunction(Part(m))
           T == {m \in 0 .. n : ~Equal(m)}
<1>1. ASSUME NEW m \in 0 .. n
      PROVE  /\ Part(m) \in [1 .. m -> Int]
             /\ \A a \in D : [k \in 1 .. m |-> IF h[k] = a THEN M[k] ELSE 0] \in [1 .. m -> Int]
             /\ By(m) \in [D -> Int]
  <2>1. 1 .. m \subseteq 1 .. n /\ IsFiniteSet(1 .. m)
    BY FS_Interval
  <2>2. \A a \in D : [k \in 1 .. m |-> IF h[k] = a THEN M[k] ELSE 0] \in [1 .. m -> Int]
    BY <2>1
  <2>3. \A a \in D : Group(h, M, m, a) \in Int
    BY <2>1, <2>2, SumType DEF Group
  <2> QED BY <2>1, <2>2, <2>3
<1>2. SumFunction(By(0)) = SumFunction(Part(0))
  <2>1. 1 .. 0 = {}
    OBVIOUS
  <2>2. SumFunction(Part(0)) = 0
    BY <1>1, <2>1, SumEmpty
  <2>3. \A a \in D : Group(h, M, 0, a) = 0
    BY <1>1, <2>1, SumEmpty DEF Group
  <2>4. \A a \in D : By(0)[a] = 0
    BY <2>3
  <2>5. By(0) \in [D -> Int]
    BY <1>1
  <2>6. SumFunction(By(0)) = 0
    <3> HIDE DEF By
    <3> QED BY <2>4, <2>5, SumZero
  <2> QED BY <2>2, <2>6
<1>3. ASSUME NEW m \in 0 .. n, m + 1 \in 0 .. n, SumFunction(By(m)) = SumFunction(Part(m))
      PROVE  SumFunction(By(m + 1)) = SumFunction(Part(m + 1))
  <2>1. m \in Nat /\ m + 1 \in 1 .. n /\ h[m + 1] \in D /\ M[m + 1] \in Int
    BY <1>3
  <2>2. SumFunction(Part(m + 1)) = SumFunction(Part(m)) + M[m + 1]
    <3>1. /\ Part(m) \in [1 .. m -> Int] /\ Part(m + 1) \in [1 .. m + 1 -> Int]
          /\ \A x \in 1 .. m : Part(m + 1)[x] = Part(m)[x]
          /\ Part(m + 1)[m + 1] = M[m + 1]
      BY <1>1, <1>3, <2>1
    <3> HIDE DEF Part
    <3> QED BY <2>1, <3>1, SumAppend
  <2>3. ASSUME NEW a \in D
        PROVE  By(m + 1)[a] = By(m)[a] + (IF h[m + 1] = a THEN M[m + 1] ELSE 0)
    <3> DEFINE f == [k \in 1 .. m |-> IF h[k] = a THEN M[k] ELSE 0]
               g == [k \in 1 .. m + 1 |-> IF h[k] = a THEN M[k] ELSE 0]
    <3>1. f \in [1 .. m -> Int] /\ g \in [1 .. m + 1 -> Int]
      BY <1>1, <1>3
    <3>2. /\ \A x \in 1 .. m : g[x] = f[x]
          /\ g[m + 1] = IF h[m + 1] = a THEN M[m + 1] ELSE 0
      BY <2>1
    <3>3. By(m)[a] = SumFunction(f) /\ By(m + 1)[a] = SumFunction(g)
      BY DEF Group
    <3> HIDE DEF f, g
    <3>4. SumFunction(g) = SumFunction(f) + g[m + 1]
      BY <2>1, <3>1, <3>2, SumAppend
    <3> QED BY <3>2, <3>3, <3>4
  <2> DEFINE F == By(m)
             G == By(m + 1)
             d == h[m + 1]
  <2>4. F \in [D -> Int] /\ G \in [D -> Int]
    BY <1>1, <1>3
  <2>5. \A a \in D : G[a] = F[a] + (IF d = a THEN M[m + 1] ELSE 0)
    BY <2>3
  <2> HIDE DEF F, G, d, By
  <2>6. d \in D /\ \A x \in D \ {d} : G[x] = F[x]
    BY <2>1, <2>4, <2>5 DEF d
  <2>7. SumFunction(G) = SumFunction(F) + G[d] - F[d]
    BY <2>4, <2>6, SumUpdate
  <2>8. SumFunction(F) \in Int /\ F[d] \in Int /\ G[d] = F[d] + M[m + 1]
    BY <2>4, <2>5, <2>6, SumType
  <2>9. SumFunction(G) = SumFunction(F) + M[m + 1]
    BY <2>1, <2>7, <2>8
  <2> QED BY <1>3, <2>2, <2>9 DEF F, G
<1>y. Equal(0) /\ \A m \in 0 .. n : m + 1 \in 0 .. n /\ Equal(m) => Equal(m + 1)
  BY <1>2, <1>3
<1> HIDE DEF Equal
<1>4. ASSUME T # {}
      PROVE  FALSE
  <2>1. PICK m \in T : \A k \in T : m <= k
    <3>1. T \in SUBSET Nat
      OBVIOUS
    <3> HIDE DEF T
    <3> QED BY <1>4, <3>1, LeastNat
  <2>2. m # 0
    BY <1>y, <2>1
  <2> DEFINE j == m - 1
  <2>3. j \in 0 .. n /\ j + 1 = m /\ j + 1 \in 0 .. n /\ j \notin T
    BY <2>1, <2>2
  <2> HIDE DEF j
  <2>4. Equal(j)
    BY <2>3
  <2> QED BY <1>y, <2>1, <2>3, <2>4
<1>5. Equal(n)
  BY <1>4
<1>6. Part(n) = M
  OBVIOUS
<1> HIDE DEF Part
<1> QED BY <1>5, <1>6 DEF Equal

\* Shares of a whole of c, each of them in proportion to a part and rounded down, take
\* no more than the whole.
LEMMA CancelFactor ==
  ASSUME NEW t \in Nat \ {0}, NEW a \in Int, NEW b \in Int, t * a <= t * b
  PROVE  a <= b
<1> SUFFICES ASSUME a > b PROVE FALSE
  OBVIOUS
<1>1. a = b + 1 + (a - b - 1) /\ a - b - 1 \in Nat
  OBVIOUS
<1> DEFINE d == a - b - 1
<1> HIDE DEF d
<1>2. t * a = t * b + t + t * d /\ t * d \in Nat
  BY <1>1 DEF d
<1> QED BY <1>2
THEOREM SumOfShares ==
  ASSUME NEW D, IsFiniteSet(D), NEW f \in [D -> Int], NEW g \in [D -> Int], NEW c \in Int,
         SumFunction(f) \in Nat \ {0}, \A x \in D : SumFunction(f) * g[x] <= c * f[x]
  PROVE  SumFunction(g) <= c
<1> DEFINE t == SumFunction(f)
           F == [x \in D |-> c * f[x]]
           G == [x \in D |-> t * g[x]]
<1>t. t \in Nat \ {0} /\ \A x \in D : t * g[x] <= c * f[x]
  OBVIOUS
<1> HIDE DEF t
<1>1. F \in [D -> Int] /\ G \in [D -> Int] /\ (\A x \in D : F[x] = c * f[x] /\ G[x] = t * g[x])
  BY <1>t
<1>2. \A x \in D : G[x] <= F[x]
  BY <1>t, <1>1
<1> HIDE DEF F, G
<1>3. SumFunction(G) <= SumFunction(F)
  BY <1>1, <1>2, SumLeq
<1>4. SumFunction(F) = c * SumFunction(f)
  BY <1>1, SumScaled
<1>5. SumFunction(G) = t * SumFunction(g)
  BY <1>1, <1>t, SumScaled
<1>6. SumFunction(g) \in Int
  BY SumType
<1>7. t * SumFunction(g) <= t * c
  BY <1>3, <1>4, <1>5, <1>6, <1>t DEF t
<1> QED BY <1>6, <1>7, <1>t, CancelFactor

\* A sum that goes on with the same summand.
GoesOn(f, g, a, b, n, c) ==
  /\ f \in [a .. b - 1 -> Int] /\ g \in [a .. b + n - 1 -> Int]
  /\ \A s \in a .. b - 1 : g[s] = f[s]
  /\ \A s \in b .. b + n - 1 : g[s] = c
THEOREM SumGoesOn ==
  ASSUME NEW a \in Int, NEW b \in Int, a <= b, NEW n \in Nat, NEW c \in Int, NEW f, NEW g, GoesOn(f, g, a, b, n, c)
  PROVE  SumFunction(g) = SumFunction(f) + c * n
<1> USE DEF GoesOn
<1> DEFINE Upto(m) == [s \in a .. b + m - 1 |-> g[s]]
           Right(m) == SumFunction(Upto(m)) = SumFunction(f) + c * m
           T == {m \in 0 .. n : ~Right(m)}
<1>1. Upto(n) = g /\ Upto(0) = f
  OBVIOUS
<1>2. IsFiniteSet(a .. b - 1) /\ SumFunction(f) \in Int /\ c * 0 = 0
  <2>1. IsFiniteSet(a .. b - 1)
    BY FS_Interval
  <2> QED BY <2>1, SumType
<1>3. Right(0)
  BY <1>1, <1>2
<1>4. ASSUME NEW m \in 1 .. n, Right(m - 1) PROVE Right(m)
  <2> DEFINE D == a .. b + m - 2
             k == b + m - 1
             p == Upto(m - 1)
             q == Upto(m)
  <2>0. b + (m - 1) - 1 = b + m - 2
    OBVIOUS
  <2>1. IsFiniteSet(D) /\ k \notin D /\ D \cup {k} = a .. k
    <3>1. b + m - 2 \in Int /\ a <= k /\ k = (b + m - 2) + 1
      OBVIOUS
    <3>2. IsFiniteSet(D)
      BY <3>1, FS_Interval
    <3> QED BY <3>1, <3>2
  <2>2. p \in [D -> Int] /\ q \in [D \cup {k} -> Int] /\ q[k] = c /\ \A x \in D : q[x] = p[x]
    <3>1. p \in [D -> Int] /\ q \in [a .. k -> Int] /\ q[k] = c /\ \A x \in D : q[x] = p[x]
      BY <2>0
    <3> HIDE DEF D, k, p, q
    <3> QED BY <2>1, <3>1
  <2>3. SumFunction(p) = SumFunction(f) + c * (m - 1)
    BY <1>4
  <2>4. c * (m - 1) + c = c * m /\ c * (m - 1) \in Int /\ c * m \in Int
    OBVIOUS
  <2> HIDE DEF D, k, p, q
  <2>5. SumFunction(q) = SumFunction(p) + q[k]
    <3>1. \A f1 \in [D -> Int], g1 \in [D \cup {k} -> Int] :
            (\A x \in D : g1[x] = f1[x]) => SumFunction(g1) = SumFunction(f1) + g1[k]
      BY ONLY <2>1, SumExtend, Zenon
    <3> QED BY ONLY <2>2, <3>1, Zenon
  <2>6. SumFunction(q) = SumFunction(f) + c * m
    BY <1>2, <2>2, <2>3, <2>4, <2>5
  <2> QED BY <2>6 DEF q
<1> HIDE DEF Right
<1> SUFFICES ASSUME T # {} PROVE FALSE
  <2>1. T = {} => Right(n)
    OBVIOUS
  <2> QED BY <1>1, <2>1 DEF Right
<1>5. PICK m \in T : \A k \in T : m <= k
  <2>1. T \in SUBSET Nat
    OBVIOUS
  <2> HIDE DEF T
  <2> QED BY <2>1, LeastNat
<1>6. m # 0 /\ m \in 1 .. n
  BY <1>3
<1>7. Right(m - 1)
  BY <1>5, <1>6
<1> QED BY <1>4, <1>6, <1>7
=============================================================================
