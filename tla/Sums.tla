--------------------------------- MODULE Sums ---------------------------------
(***************************************************************************)
(* Laws of sums over finite sets.  The sums are those of the community     *)
(* modules, folds that pick the elements in an order nobody knows; what a  *)
(* fold returns needs an induction, which is made here once, by looking at *)
(* a smallest counterexample.                                              *)
(***************************************************************************)
EXTENDS Naturals, FiniteSetsExt, FiniteSetTheorems, TLAPS

-------------------------------------------------------------------------------
(***************************************************************************)
(* Smallest counterexamples                                                *)
(***************************************************************************)

\* A set of naturals that is not empty has a least element.
LEMMA LeastNatural ==
  ASSUME NEW B \in SUBSET Nat, B # {}
  PROVE  \E n \in B : \A m \in B : n <= m
<1>1. PICK n \in B : \A m \in B : <<m, n>> \notin OpToRel(<, Nat)
  BY NatLessThanWellFounded, WFMin
<1>2. \A m \in B : ~ (m < n)
  BY <1>1 DEF OpToRel
<1> QED BY <1>2

\* A collection of subsets of a finite set that is not empty has a smallest one.
LEMMA SmallestSubset ==
  ASSUME NEW S, IsFiniteSet(S), NEW B \in SUBSET SUBSET S, B # {}
  PROVE  \E T \in B : \A U \in B : U \subseteq T => U = T
<1>1. PICK T \in B : \A U \in B : <<U, T>> \notin StrictSubsetOrdering(S)
  BY FS_StrictSubsetOrderingWellFounded, FS_FiniteSubsetsOfFinite, WFMin
<1>2. ASSUME NEW U \in B, U \subseteq T, U # T PROVE FALSE
  BY <1>1, <1>2 DEF StrictSubsetOrdering
<1> QED BY <1>2

-------------------------------------------------------------------------------
(***************************************************************************)
(* The fold behind a sum                                                   *)
(***************************************************************************)
Pick(s) == CHOOSE x \in s : TRUE
Rest(s) == s \ {Pick(s)}

\* g sums f over every set of C.
IsSum(g, f, C) ==
  g = [s \in C |-> IF s = {} THEN 0 ELSE f[Pick(s)] + g[Rest(s)]]

LEMMA RestFacts ==
  ASSUME NEW s, s # {}
  PROVE  Pick(s) \in s /\ Rest(s) \subseteq s /\ Rest(s) # s /\ s = Rest(s) \cup {Pick(s)}
BY DEF Pick, Rest

\* There is such a function, built up by the size of the sets.
LEMMA SumExists ==
  ASSUME NEW S, IsFiniteSet(S), NEW f
  PROVE  \E g : IsSum(g, f, SUBSET S)
<1> DEFINE Small(n) == {s \in SUBSET S : Cardinality(s) <= n}
           Bad == {n \in Nat : ~ \E g : IsSum(g, f, Small(n))}
<1>1. \A s \in SUBSET S : /\ IsFiniteSet(s) /\ Cardinality(s) \in Nat
                          /\ s = {} <=> Cardinality(s) = 0
                          /\ s # {} => /\ Rest(s) \in SUBSET S
                                       /\ Cardinality(Rest(s)) = Cardinality(s) - 1
  <2> TAKE s \in SUBSET S
  <2>1. IsFiniteSet(s) /\ Cardinality(s) \in Nat BY FS_Subset, FS_CardinalityType
  <2>2. s = {} <=> Cardinality(s) = 0 BY <2>1, FS_EmptySet
  <2>3. s # {} => Cardinality(Rest(s)) = Cardinality(s) - 1
    BY <2>1, RestFacts, FS_RemoveElement DEF Rest
  <2> QED BY <2>1, <2>2, <2>3, RestFacts
<1>2. Bad = {}
  <2> SUFFICES ASSUME Bad # {} PROVE FALSE OBVIOUS
  <2>1. PICK n \in Bad : \A m \in Bad : n <= m BY LeastNatural
  <2>2. n \in Nat /\ ~ \E g : IsSum(g, f, Small(n)) OBVIOUS
  <2>3. CASE n = 0
    <3>1. Small(0) = {{}} BY <1>1
    <3>2. IsSum([s \in Small(0) |-> 0], f, Small(0)) BY <3>1 DEF IsSum
    <3> QED BY <2>2, <2>3, <3>2
  <2>4. CASE n # 0
    <3> HIDE DEF Small
    <3>1. n - 1 \in Nat /\ ~ (n <= n - 1) BY <2>2, <2>4
    <3>2. PICK g : IsSum(g, f, Small(n - 1)) BY <2>1, <3>1
    <3> USE DEF Small
    <3> DEFINE h == [s \in Small(n) |->
                       IF s = {} THEN 0 ELSE f[Pick(s)] + g[Rest(s)]]
    <3>3. \A s \in Small(n - 1) : s \in Small(n) /\ h[s] = g[s]
      BY <1>1, <2>2, <3>2 DEF IsSum
    <3>4. \A s \in Small(n) : s # {} => Rest(s) \in Small(n - 1) BY <1>1, <2>2
    <3>5. IsSum(h, f, Small(n)) BY <3>3, <3>4 DEF IsSum
    <3> QED BY <2>2, <3>5
  <2> QED BY <2>3, <2>4
<1>3. Cardinality(S) \in Nat /\ SUBSET S = Small(Cardinality(S))
  BY <1>1, FS_Subset
<1> QED BY <1>2, <1>3

\* All of them agree where both are defined.
LEMMA SumUnique ==
  ASSUME NEW S, IsFiniteSet(S), NEW T \in SUBSET S, NEW f, NEW e, NEW g, NEW h,
         \A x \in T : f[x] = e[x],
         IsSum(g, f, SUBSET S), IsSum(h, e, SUBSET T)
  PROVE  \A s \in SUBSET T : g[s] = h[s]
<1> DEFINE Bad == {s \in SUBSET T : g[s] # h[s]}
<1> SUFFICES ASSUME Bad # {} PROVE FALSE OBVIOUS
<1>1. IsFiniteSet(T) BY FS_Subset
<1>2. PICK s \in Bad : \A u \in Bad : u \subseteq s => u = s
  <2>1. Bad \in SUBSET SUBSET T OBVIOUS
  <2> HIDE DEF Bad
  <2> QED BY <1>1, <2>1, SmallestSubset
<1>3. s \in SUBSET T /\ s \in SUBSET S /\ g[s] # h[s] OBVIOUS
<1>4. /\ g[s] = IF s = {} THEN 0 ELSE f[Pick(s)] + g[Rest(s)]
      /\ h[s] = IF s = {} THEN 0 ELSE e[Pick(s)] + h[Rest(s)]
  BY <1>3 DEF IsSum
<1>5. s # {} BY <1>3, <1>4
<1>6. Rest(s) \notin Bad /\ Rest(s) \in SUBSET T /\ Pick(s) \in T
  BY <1>2, <1>3, <1>5, RestFacts
<1> QED BY <1>3, <1>4, <1>5, <1>6

\* The sum of f over S is what such a function gives for S.
LEMMA SumIs ==
  ASSUME NEW S, IsFiniteSet(S), NEW f, NEW g, IsSum(g, f, SUBSET S)
  PROVE  \A T \in SUBSET S : SumFunctionOnSet(f, T) = g[T]
<1> TAKE T \in SUBSET S
<1> DEFINE iter == CHOOSE h : h = [s \in SUBSET T |-> IF s = {} THEN 0
                             ELSE LET x == CHOOSE y \in s : TRUE IN f[x] + h[s \ {x}]]
<1>1. IsFiniteSet(T) BY FS_Subset
<1>2. \E h : IsSum(h, f, SUBSET T) BY <1>1, SumExists
<1>3. iter = [s \in SUBSET T |-> IF s = {} THEN 0
                             ELSE LET x == CHOOSE y \in s : TRUE IN f[x] + iter[s \ {x}]]
  BY <1>2 DEF IsSum, Pick, Rest
<1>4. IsSum(iter, f, SUBSET T) BY <1>3 DEF IsSum, Pick, Rest
<1>5. SumFunctionOnSet(f, T) = iter[T]
  BY DEF SumFunctionOnSet, FoldFunctionOnSet, MapThenFoldSet
<1> HIDE DEF iter
<1>6. g[T] = iter[T] BY <1>4, SumUnique
<1> QED BY <1>5, <1>6

-------------------------------------------------------------------------------
(***************************************************************************)
(* The laws                                                                *)
(***************************************************************************)

LEMMA SumEmpty == ASSUME NEW f PROVE SumFunctionOnSet(f, {}) = 0
<1>1. IsFiniteSet({}) BY FS_EmptySet
<1>2. PICK g : IsSum(g, f, SUBSET {}) BY <1>1, SumExists
<1>3. g[{}] = 0 BY <1>2 DEF IsSum
<1> QED BY <1>1, <1>2, <1>3, SumIs

LEMMA SumPicked ==
  ASSUME NEW S, IsFiniteSet(S), S # {}, NEW f
  PROVE  SumFunctionOnSet(f, S) = f[Pick(S)] + SumFunctionOnSet(f, Rest(S))
<1>1. PICK g : IsSum(g, f, SUBSET S) BY SumExists
<1>2. g[S] = f[Pick(S)] + g[Rest(S)] BY <1>1 DEF IsSum
<1>3. \A T \in SUBSET S : SumFunctionOnSet(f, T) = g[T] BY <1>1, SumIs
<1> QED BY <1>2, <1>3, RestFacts

\* Only the values on S matter.
LEMMA SumSame ==
  ASSUME NEW S, IsFiniteSet(S), NEW f, NEW e, \A x \in S : f[x] = e[x]
  PROVE  SumFunctionOnSet(f, S) = SumFunctionOnSet(e, S)
<1>1. PICK g : IsSum(g, f, SUBSET S) BY SumExists
<1>2. PICK h : IsSum(h, e, SUBSET S) BY SumExists
<1>3. g[S] = h[S] BY <1>1, <1>2, SumUnique
<1> QED BY <1>1, <1>2, <1>3, SumIs

LEMMA SumNat ==
  ASSUME NEW S, IsFiniteSet(S), NEW f, \A x \in S : f[x] \in Nat
  PROVE  SumFunctionOnSet(f, S) \in Nat
<1> DEFINE Bad == {T \in SUBSET S : SumFunctionOnSet(f, T) \notin Nat}
<1> SUFFICES ASSUME Bad # {} PROVE FALSE OBVIOUS
<1>1. PICK T \in Bad : \A U \in Bad : U \subseteq T => U = T
  <2>1. Bad \in SUBSET SUBSET S OBVIOUS
  <2> HIDE DEF Bad
  <2> QED BY <2>1, SmallestSubset
<1>2. T \in SUBSET S /\ IsFiniteSet(T) /\ T # {}
  <2>1. T \in SUBSET S /\ SumFunctionOnSet(f, T) \notin Nat OBVIOUS
  <2>2. SumFunctionOnSet(f, {}) \in Nat BY SumEmpty
  <2>3. IsFiniteSet(T) BY <2>1, FS_Subset
  <2> HIDE DEF Bad
  <2> QED BY <2>1, <2>2, <2>3
<1>3. Rest(T) \notin Bad
  <2> HIDE DEF Bad
  <2> QED BY <1>1, <1>2, RestFacts
<1>4. f[Pick(T)] \in Nat /\ SumFunctionOnSet(f, Rest(T)) \in Nat
  BY <1>2, <1>3, RestFacts
<1> QED BY <1>2, <1>4, SumPicked

\* Whichever element is taken out first.
LEMMA SumTake ==
  ASSUME NEW S, IsFiniteSet(S), NEW f, \A x \in S : f[x] \in Nat, NEW a \in S
  PROVE  SumFunctionOnSet(f, S) = SumFunctionOnSet(f, S \ {a}) + f[a]
<1> DEFINE Takes(T, x) == SumFunctionOnSet(f, T) = SumFunctionOnSet(f, T \ {x}) + f[x]
           Bad == {T \in SUBSET S : \E x \in T : ~ Takes(T, x)}
<1>0. \A T \in SUBSET S : IsFiniteSet(T) /\ SumFunctionOnSet(f, T) \in Nat
  BY FS_Subset, SumNat
<1>1. Bad = {}
  <2> SUFFICES ASSUME Bad # {} PROVE FALSE OBVIOUS
  <2>1. PICK T \in Bad : \A U \in Bad : U \subseteq T => U = T
    <3>1. Bad \in SUBSET SUBSET S OBVIOUS
    <3> HIDE DEF Bad
    <3> QED BY <3>1, SmallestSubset
  <2>2. PICK x \in T : ~ Takes(T, x) OBVIOUS
  <2> DEFINE c == Pick(T)
  <2>3. T \in SUBSET S /\ T # {} /\ c \in T BY <2>2, RestFacts
  <2>4. Takes(T, c)
    <3>1. SumFunctionOnSet(f, T) = f[c] + SumFunctionOnSet(f, T \ {c})
      BY <1>0, <2>3, SumPicked DEF Rest
    <3> QED BY <1>0, <2>3, <3>1
  <2>5. x # c BY <2>2, <2>4
  <2>6. T \ {c} \notin Bad /\ T \ {x} \notin Bad
    <3> HIDE DEF Bad
    <3> QED BY <2>1, <2>2, <2>3
  <2>7. Takes(T \ {c}, x) /\ Takes(T \ {x}, c) BY <2>2, <2>3, <2>5, <2>6
  <2>8. (T \ {c}) \ {x} = (T \ {x}) \ {c} OBVIOUS
  <2> HIDE DEF c
  <2>9. /\ SumFunctionOnSet(f, T \ {c}) \in Nat /\ SumFunctionOnSet(f, T \ {x}) \in Nat
        /\ SumFunctionOnSet(f, (T \ {x}) \ {c}) \in Nat
        /\ f[x] \in Nat /\ f[c] \in Nat
    BY <1>0, <2>2, <2>3
  <2> QED BY <2>2, <2>4, <2>7, <2>8, <2>9
<1> QED BY <1>1

LEMMA SumAdd ==
  ASSUME NEW S, IsFiniteSet(S), NEW f, NEW a, a \notin S,
         \A x \in S \cup {a} : f[x] \in Nat
  PROVE  SumFunctionOnSet(f, S \cup {a}) = SumFunctionOnSet(f, S) + f[a]
<1>1. IsFiniteSet(S \cup {a}) BY FS_AddElement
<1>2. (S \cup {a}) \ {a} = S OBVIOUS
<1> QED BY <1>1, <1>2, SumTake

\* Sets with no element in common.
LEMMA SumUnion ==
  ASSUME NEW S, IsFiniteSet(S), NEW T, IsFiniteSet(T), S \cap T = {}, NEW f,
         \A x \in S \cup T : f[x] \in Nat
  PROVE  SumFunctionOnSet(f, S \cup T) = SumFunctionOnSet(f, S) + SumFunctionOnSet(f, T)
<1> DEFINE Adds(U) == SumFunctionOnSet(f, S \cup U)
                        = SumFunctionOnSet(f, S) + SumFunctionOnSet(f, U)
           Bad == {U \in SUBSET T : ~ Adds(U)}
<1> SUFFICES ASSUME Bad # {} PROVE FALSE OBVIOUS
<1>1. PICK U \in Bad : \A V \in Bad : V \subseteq U => V = U
  <2>1. Bad \in SUBSET SUBSET T OBVIOUS
  <2> HIDE DEF Bad
  <2> QED BY <2>1, SmallestSubset
<1>2. U \in SUBSET T /\ ~ Adds(U) OBVIOUS
<1>3. SumFunctionOnSet(f, S) \in Nat BY SumNat
<1>4. U # {}
  <2>1. S \cup {} = S OBVIOUS
  <2>2. Adds({}) BY <1>3, <2>1, SumEmpty
  <2> QED BY <1>2, <2>2
<1>5. PICK x \in U : TRUE BY <1>4
<1>6. Adds(U \ {x})
  <2>1. U \ {x} \notin Bad
    <3> HIDE DEF Bad
    <3> QED BY <1>1, <1>5
  <2> QED BY <1>2, <2>1
<1>7. IsFiniteSet(U) /\ IsFiniteSet(U \ {x}) /\ IsFiniteSet(S \cup U)
  BY <1>2, FS_Subset, FS_Union
<1>8. (S \cup U) \ {x} = S \cup (U \ {x}) BY <1>2, <1>5
<1>9. \A y \in S \cup U : f[y] \in Nat BY <1>2
<1>10. SumFunctionOnSet(f, S \cup U) = SumFunctionOnSet(f, S \cup (U \ {x})) + f[x]
  BY <1>5, <1>7, <1>8, <1>9, SumTake
<1>11. SumFunctionOnSet(f, U) = SumFunctionOnSet(f, U \ {x}) + f[x]
  BY <1>5, <1>7, <1>9, SumTake
<1>12. f[x] \in Nat /\ SumFunctionOnSet(f, U \ {x}) \in Nat
  BY <1>5, <1>7, <1>9, SumNat
<1> QED BY <1>2, <1>3, <1>6, <1>10, <1>11, <1>12

LEMMA FiniteImage ==
  ASSUME NEW S, IsFiniteSet(S), NEW g
  PROVE  IsFiniteSet({g[x] : x \in S})
<1> DEFINE h == [x \in S |-> g[x]]
           T == {g[x] : x \in S}
<1>1. h \in Surjection(S, T) BY DEF Surjection
<1> QED BY <1>1, FS_Surjection

\* The same terms under other names.
LEMMA SumRenamed ==
  ASSUME NEW S, IsFiniteSet(S), NEW e, NEW f, NEW g,
         \A x \in S : f[g[x]] = e[x] /\ e[x] \in Nat,
         \A x, y \in S : g[x] = g[y] => x = y
  PROVE  SumFunctionOnSet(f, {g[x] : x \in S}) = SumFunctionOnSet(e, S)
<1> DEFINE Img(T) == {g[x] : x \in T}
           Bad == {T \in SUBSET S : SumFunctionOnSet(f, Img(T)) # SumFunctionOnSet(e, T)}
<1> SUFFICES ASSUME Bad # {} PROVE FALSE OBVIOUS
<1>1. PICK T \in Bad : \A U \in Bad : U \subseteq T => U = T
  <2>1. Bad \in SUBSET SUBSET S OBVIOUS
  <2> HIDE DEF Bad
  <2> QED BY <2>1, SmallestSubset
<1>2. T \in SUBSET S /\ SumFunctionOnSet(f, Img(T)) # SumFunctionOnSet(e, T) OBVIOUS
<1>3. T # {}
  <2>1. Img({}) = {} OBVIOUS
  <2> QED BY <1>2, <2>1, SumEmpty
<1>4. PICK a \in T : TRUE BY <1>3
<1> DEFINE R == T \ {a}
<1>5. SumFunctionOnSet(f, Img(R)) = SumFunctionOnSet(e, R)
  <2>1. R \notin Bad
    <3> HIDE DEF Bad
    <3> QED BY <1>1, <1>4
  <2> QED BY <1>2, <2>1
<1>6. IsFiniteSet(R) /\ IsFiniteSet(Img(R)) BY <1>2, FS_Subset, FiniteImage
<1>7. T = R \cup {a} /\ a \notin R /\ Img(T) = Img(R) \cup {g[a]} /\ g[a] \notin Img(R)
  BY <1>2, <1>4
<1>8. SumFunctionOnSet(e, R \cup {a}) = SumFunctionOnSet(e, R) + e[a]
  <2>1. \A x \in R \cup {a} : e[x] \in Nat BY <1>2, <1>4
  <2> HIDE DEF R
  <2> QED BY <1>6, <1>7, <2>1, SumAdd
<1>9. SumFunctionOnSet(f, Img(R) \cup {g[a]}) = SumFunctionOnSet(f, Img(R)) + f[g[a]]
  <2> DEFINE I == Img(R)
             b == g[a]
  <2>1. \A z \in I \cup {b} : f[z] \in Nat BY <1>2, <1>4
  <2>2. IsFiniteSet(I) /\ b \notin I BY <1>6, <1>7
  <2> HIDE DEF I, b
  <2>3. SumFunctionOnSet(f, I \cup {b}) = SumFunctionOnSet(f, I) + f[b] BY <2>1, <2>2, SumAdd
  <2> QED BY <2>3 DEF I, b
<1>10. f[g[a]] = e[a] BY <1>2, <1>4
<1> HIDE DEF R, Img
<1> QED BY <1>2, <1>5, <1>7, <1>8, <1>9, <1>10

\* A part of a set, and what is left of it.
LEMMA SumPart ==
  ASSUME NEW S, IsFiniteSet(S), NEW T \in SUBSET S, NEW f, \A x \in S : f[x] \in Nat
  PROVE  /\ SumFunctionOnSet(f, T) \in Nat
         /\ SumFunctionOnSet(f, S \ T) \in Nat
         /\ SumFunctionOnSet(f, S) = SumFunctionOnSet(f, T) + SumFunctionOnSet(f, S \ T)
<1>1. IsFiniteSet(T) /\ IsFiniteSet(S \ T) BY FS_Subset
<1>2. S = T \cup (S \ T) /\ T \cap (S \ T) = {} OBVIOUS
<1>3. SumFunctionOnSet(f, T \cup (S \ T)) = SumFunctionOnSet(f, T) + SumFunctionOnSet(f, S \ T)
  BY <1>1, SumUnion
<1> QED BY <1>1, <1>2, <1>3, SumNat

\* Terms that are all at most t, or all at least t.
LEMMA SumBounds ==
  ASSUME NEW S, IsFiniteSet(S), NEW f, \A x \in S : f[x] \in Nat, NEW t \in Nat
  PROVE  /\ (\A x \in S : f[x] <= t) => SumFunctionOnSet(f, S) <= Cardinality(S) * t
         /\ (\A x \in S : f[x] >= t) => SumFunctionOnSet(f, S) >= Cardinality(S) * t
<1> DEFINE Within(T) ==
             /\ (\A x \in T : f[x] <= t) => SumFunctionOnSet(f, T) <= Cardinality(T) * t
             /\ (\A x \in T : f[x] >= t) => SumFunctionOnSet(f, T) >= Cardinality(T) * t
           Bad == {T \in SUBSET S : ~ Within(T)}
<1> SUFFICES ASSUME Bad # {} PROVE FALSE OBVIOUS
<1>1. PICK T \in Bad : \A U \in Bad : U \subseteq T => U = T
  <2>1. Bad \in SUBSET SUBSET S OBVIOUS
  <2> HIDE DEF Bad
  <2> QED BY <2>1, SmallestSubset
<1>2. T \in SUBSET S /\ ~ Within(T) OBVIOUS
<1>3. T # {} BY <1>2, SumEmpty, FS_EmptySet
<1>4. PICK x \in T : TRUE BY <1>3
<1>5. Within(T \ {x})
  <2>1. T \ {x} \notin Bad
    <3> HIDE DEF Bad
    <3> QED BY <1>1, <1>4
  <2> QED BY <1>2, <2>1
<1>6. /\ IsFiniteSet(T) /\ IsFiniteSet(T \ {x})
      /\ Cardinality(T) \in Nat /\ Cardinality(T \ {x}) \in Nat
      /\ Cardinality(T) = Cardinality(T \ {x}) + 1
  BY <1>2, <1>4, FS_Subset, FS_RemoveElement, FS_CardinalityType
<1>7. SumFunctionOnSet(f, T) = SumFunctionOnSet(f, T \ {x}) + f[x]
  BY <1>2, <1>4, <1>6, SumTake
<1>8. SumFunctionOnSet(f, T \ {x}) \in Nat /\ f[x] \in Nat
  BY <1>2, <1>4, <1>6, SumNat
<1>9. /\ Cardinality(T) * t = Cardinality(T \ {x}) * t + t
      /\ Cardinality(T) * t \in Nat /\ Cardinality(T \ {x}) * t \in Nat
  BY <1>6
<1>10. PICK p \in Nat, q \in Nat : p = Cardinality(T) * t /\ q = Cardinality(T \ {x}) * t
  BY <1>9
<1>11. p = q + t BY <1>9, <1>10
<1>12. /\ (\A y \in T \ {x} : f[y] <= t) => SumFunctionOnSet(f, T \ {x}) <= q
       /\ (\A y \in T \ {x} : f[y] >= t) => SumFunctionOnSet(f, T \ {x}) >= q
  BY <1>5, <1>10
<1>13. /\ (\A y \in T : f[y] <= t) => SumFunctionOnSet(f, T) <= p
       /\ (\A y \in T : f[y] >= t) => SumFunctionOnSet(f, T) >= p
  <2> HIDE DEF Bad, Within
  <2> QED BY <1>4, <1>7, <1>8, <1>11, <1>12
<1> QED BY <1>2, <1>10, <1>13
===============================================================================
