------------------------------ MODULE SumProofs -----------------------------
(***************************************************************************)
(* What SumFunctionOnSet of the community modules computes on finite sets. *)
(*                                                                         *)
(* The library states induction over finite sets for a predicate given as  *)
(* an operator.  Here it is used in the form that sets of counterexamples  *)
(* have a least element (NoLeast): a set of finite sets of which none is   *)
(* least under inclusion is empty.                                         *)
(***************************************************************************)
EXTENDS Functions, FiniteSetTheorems, WellFoundedInduction, TLAPS

Some(S) == CHOOSE x \in S : TRUE

\* g is the function that SumFunctionOnSet(f, D) iterates.
Sums(g, f, D) ==
    g = [s \in SUBSET D |-> IF s = {} THEN 0 ELSE f[Some(s)] + g[s \ {Some(s)}]]

\* Induction over the subsets of a finite set, without an operator parameter: a
\* set of them in which each has another one below it is empty.
LEMMA NoLeast ==
    ASSUME NEW S, IsFiniteSet(S), NEW T, T \subseteq SUBSET S,
           \A s \in T : \E u \in T : u \subseteq s /\ u # s
    PROVE  T = {}
<1>1. IsWellFoundedOn(StrictSubsetOrdering(S), SUBSET S)
  <2>1. FiniteSubsetsOf(S) = SUBSET S  BY FS_FiniteSubsetsOfFinite
  <2>2. IsWellFoundedOn(StrictSubsetOrdering(S), FiniteSubsetsOf(S))
    BY FS_StrictSubsetOrderingWellFounded
  <2> QED  BY <2>1, <2>2
<1>2. ASSUME T # {}  PROVE FALSE
  <2>1. PICK s \in T : \A u \in T : <<u, s>> \notin StrictSubsetOrdering(S)
    BY <1>1, <1>2, WFMin
  <2>2. PICK u \in T : u \subseteq s /\ u # s  OBVIOUS
  <2>3. <<u, s>> \in StrictSubsetOrdering(S)  BY <2>2 DEF StrictSubsetOrdering
  <2> QED  BY <2>1, <2>3
<1> QED  BY <1>2

LEMMA SomeIsElement == \A S : S # {} => Some(S) \in S
BY DEF Some

LEMMA SumsRestrict ==
    ASSUME NEW D, IsFiniteSet(D), NEW E, E \subseteq D, NEW f,
           NEW g, NEW h, Sums(g, f, D), Sums(h, f, E)
    PROVE  \A s \in SUBSET E : g[s] = h[s]
<1> DEFINE T == {s \in SUBSET E : g[s] # h[s]}
<1>1. IsFiniteSet(E)  BY FS_Subset
<1>2. ASSUME NEW s \in T  PROVE \E u \in T : u \subseteq s /\ u # s
  <2>1. /\ g[s] = IF s = {} THEN 0 ELSE f[Some(s)] + g[s \ {Some(s)}]
        /\ h[s] = IF s = {} THEN 0 ELSE f[Some(s)] + h[s \ {Some(s)}]
    BY DEF Sums
  <2>2. s # {} /\ s \ {Some(s)} \in T  BY <2>1
  <2> QED  BY <2>2, SomeIsElement
<1>3. T = {}
  <2> HIDE DEF T
  <2>1. T \subseteq SUBSET E  BY DEF T
  <2> QED  BY <1>1, <1>2, <2>1, NoLeast
<1> QED  BY <1>3

LEMMA SumsExist ==
    ASSUME NEW D, IsFiniteSet(D), NEW f
    PROVE  \E g : Sums(g, f, D)
<1> DEFINE T == {s \in SUBSET D : ~ \E g : Sums(g, f, s)}
           H(s) == CHOOSE g : Sums(g, f, s)
<1>1. ASSUME NEW s \in T  PROVE \E u \in T : u \subseteq s /\ u # s
  <2>1. SUFFICES ASSUME \A u \in SUBSET s : u # s => \E g : Sums(g, f, u)
                 PROVE  \E g : Sums(g, f, s)
    OBVIOUS
  <2>2. \A u \in SUBSET s : u # s => Sums(H(u), f, u)  BY <2>1
  <2> DEFINE rest(u) == u \ {Some(u)}
             G == [u \in SUBSET s |-> IF u = {} THEN 0 ELSE f[Some(u)] + H(rest(u))[rest(u)]]
  <2> HIDE DEF H
  <2>3. ASSUME NEW u \in SUBSET s, u # {}
        PROVE  H(rest(u))[rest(u)] = G[rest(u)]
    <3> DEFINE v == rest(u)
    <3>1. v \in SUBSET s /\ v # s /\ Sums(H(v), f, v)
      BY <2>2, <2>3, SomeIsElement
    <3>2. H(v)[v] = IF v = {} THEN 0 ELSE f[Some(v)] + H(v)[rest(v)]
      BY <3>1 DEF Sums
    <3>3. CASE v = {}  BY <3>1, <3>2, <3>3
    <3>4. CASE v # {}
      <4>1. rest(v) \in SUBSET v /\ rest(v) \in SUBSET s /\ rest(v) # s
        BY <3>1, <3>4, SomeIsElement
      <4>2. Sums(H(rest(v)), f, rest(v))  BY <2>2, <4>1
      <4>3. IsFiniteSet(v)  BY <3>1, FS_Subset
      <4>4. H(v)[rest(v)] = H(rest(v))[rest(v)]  BY <3>1, <4>1, <4>2, <4>3, SumsRestrict
      <4> QED  BY <3>1, <3>2, <3>4, <4>4
    <3> QED  BY <3>3, <3>4
  <2>4. G = [u \in SUBSET s |-> IF u = {} THEN 0 ELSE f[Some(u)] + G[u \ {Some(u)}]]
    BY <2>3
  <2>5. Sums(G, f, s)  BY <2>4 DEF Sums
  <2> QED  BY <2>5
<1>2. T = {}
  <2> HIDE DEF T
  <2>1. T \subseteq SUBSET D  BY DEF T
  <2> QED  BY <1>1, <2>1, NoLeast
<1> QED  BY <1>2

\* What SumFunctionOnSet returns.
LEMMA SumDef ==
    ASSUME NEW S, IsFiniteSet(S), NEW f
    PROVE  \E g : Sums(g, f, S) /\ SumFunctionOnSet(f, S) = g[S]
<1> DEFINE g == CHOOSE h : Sums(h, f, S)
<1>1. SumFunctionOnSet(f, S) = g[S]
  BY DEF SumFunctionOnSet, FoldFunctionOnSet, MapThenFoldSet, Sums, Some
<1>2. Sums(g, f, S)  BY SumsExist
<1> QED  BY <1>1, <1>2

LEMMA SumStep ==
    ASSUME NEW S, IsFiniteSet(S), NEW f
    PROVE  SumFunctionOnSet(f, S) =
             IF S = {} THEN 0 ELSE f[Some(S)] + SumFunctionOnSet(f, S \ {Some(S)})
<1>1. PICK g : Sums(g, f, S) /\ SumFunctionOnSet(f, S) = g[S]  BY SumDef
<1> DEFINE R == S \ {Some(S)}
<1>2. IsFiniteSet(R)  BY FS_Subset
<1>3. PICK h : Sums(h, f, R) /\ SumFunctionOnSet(f, R) = h[R]  BY <1>2, SumDef
<1>4. g[R] = h[R]  BY <1>1, <1>3, SumsRestrict
<1>5. g[S] = IF S = {} THEN 0 ELSE f[Some(S)] + g[R]  BY <1>1 DEF Sums
<1> QED  BY <1>1, <1>3, <1>4, <1>5

LEMMA SumEmpty == \A f : SumFunctionOnSet(f, {}) = 0
BY SumStep, FS_EmptySet

LEMMA SumType ==
    ASSUME NEW S, IsFiniteSet(S), NEW f, \A x \in S : f[x] \in Int
    PROVE  SumFunctionOnSet(f, S) \in Int
<1> DEFINE T == {s \in SUBSET S : SumFunctionOnSet(f, s) \notin Int}
<1>1. ASSUME NEW s \in T  PROVE \E u \in T : u \subseteq s /\ u # s
  <2>1. IsFiniteSet(s)  BY FS_Subset
  <2>2. SumFunctionOnSet(f, s) =
          IF s = {} THEN 0 ELSE f[Some(s)] + SumFunctionOnSet(f, s \ {Some(s)})
    BY <2>1, SumStep
  <2>3. s # {} /\ Some(s) \in s  BY <2>2, SomeIsElement
  <2>4. s \ {Some(s)} \in T  BY <2>2, <2>3
  <2> QED  BY <2>3, <2>4
<1>2. T = {}
  <2> HIDE DEF T
  <2>1. T \subseteq SUBSET S  BY DEF T
  <2> QED  BY <1>1, <2>1, NoLeast
<1> QED  BY <1>2

\* The order does not matter: any element may be taken off first.
LEMMA SumRemove ==
    ASSUME NEW S, IsFiniteSet(S), NEW f, \A x \in S : f[x] \in Int
    PROVE  \A x \in S : SumFunctionOnSet(f, S) = f[x] + SumFunctionOnSet(f, S \ {x})
<1> DEFINE Sum(s) == SumFunctionOnSet(f, s)
           Splits(s) == \A x \in s : Sum(s) = f[x] + Sum(s \ {x})
           T == {s \in SUBSET S : ~Splits(s)}
<1>1. ASSUME NEW s \in T  PROVE \E u \in T : u \subseteq s /\ u # s
  <2>1. PICK x \in s : Sum(s) # f[x] + Sum(s \ {x})  OBVIOUS
  <2> DEFINE c == Some(s)
             r == s \ {c}
             t == s \ {x}
  <2>2. c \in s  BY SomeIsElement
  <2>3. /\ IsFiniteSet(s) /\ IsFiniteSet(r \ {x})  BY FS_Subset
  <2>4. Sum(s) = f[c] + Sum(r)  BY <2>2, <2>3, SumStep
  <2>5. c # x  BY <2>1, <2>4
  <2>6. r \in SUBSET S /\ r # s /\ t \in SUBSET S /\ t # s  BY <2>2
  <2>7. ASSUME Splits(r), Splits(t)  PROVE FALSE
    <3>1. Sum(r \ {x}) \in Int  BY <2>3, SumType
    <3>2. Sum(r) = f[x] + Sum(r \ {x})  BY <2>5, <2>7
    <3>3. Sum(t) = f[c] + Sum(t \ {c})  BY <2>2, <2>5, <2>7
    <3>4. t \ {c} = r \ {x}  OBVIOUS
    <3>5. f[c] \in Int /\ f[x] \in Int  BY <2>2
    <3>6. Sum(t) = f[c] + Sum(r \ {x})  BY <3>3, <3>4
    <3>7. Sum(s) = f[c] + (f[x] + Sum(r \ {x}))  BY <2>4, <3>2
    <3>8. Sum(s) # f[x] + Sum(t)  BY <2>1
    <3> HIDE DEF Sum, T, c, r, t
    <3> QED  BY <3>8, <3>1, <3>5, <3>6, <3>7
  <2> QED  BY <2>6, <2>7
<1>2. T = {}
  <2> HIDE DEF T
  <2>1. T \subseteq SUBSET S  BY DEF T
  <2> QED  BY <1>1, <2>1, NoLeast
<1> QED  BY <1>2

\* Only the values on S count.
LEMMA SumAgree ==
    ASSUME NEW S, IsFiniteSet(S), NEW f, NEW g, \A x \in S : f[x] = g[x]
    PROVE  SumFunctionOnSet(f, S) = SumFunctionOnSet(g, S)
<1> DEFINE T == {s \in SUBSET S : SumFunctionOnSet(f, s) # SumFunctionOnSet(g, s)}
<1>1. ASSUME NEW s \in T  PROVE \E u \in T : u \subseteq s /\ u # s
  <2>1. IsFiniteSet(s)  BY FS_Subset
  <2>2. /\ SumFunctionOnSet(f, s) =
             IF s = {} THEN 0 ELSE f[Some(s)] + SumFunctionOnSet(f, s \ {Some(s)})
        /\ SumFunctionOnSet(g, s) =
             IF s = {} THEN 0 ELSE g[Some(s)] + SumFunctionOnSet(g, s \ {Some(s)})
    BY <2>1, SumStep
  <2>3. s # {} /\ Some(s) \in s  BY <2>2, SomeIsElement
  <2>4. s \ {Some(s)} \in T  BY <2>2, <2>3
  <2> QED  BY <2>3, <2>4
<1>2. T = {}
  <2> HIDE DEF T
  <2>1. T \subseteq SUBSET S  BY DEF T
  <2> QED  BY <1>1, <2>1, NoLeast
<1> QED  BY <1>2

\* What x contributes to a sum over S.
Part(f, S, x) == IF x \in S THEN f[x] ELSE 0

\* Two sums that differ at x only.
LEMMA SumChange ==
    ASSUME NEW S, IsFiniteSet(S), NEW R, IsFiniteSet(R), NEW x, S \ {x} = R \ {x},
           NEW f, NEW g, \A y \in S \ {x} : f[y] = g[y],
           \A y \in S : f[y] \in Int, \A y \in R : g[y] \in Int
    PROVE  SumFunctionOnSet(g, R) = SumFunctionOnSet(f, S) - Part(f, S, x) + Part(g, R, x)
<1> DEFINE rest == S \ {x}
<1>1. IsFiniteSet(rest)  BY FS_Subset
<1>2. SumFunctionOnSet(f, rest) = SumFunctionOnSet(g, rest)  BY <1>1, SumAgree
<1>3. SumFunctionOnSet(f, rest) \in Int  BY <1>1, SumType
<1>4. SumFunctionOnSet(f, S) = Part(f, S, x) + SumFunctionOnSet(f, rest) /\ Part(f, S, x) \in Int
  <2>1. CASE x \in S  BY <1>3, <2>1, SumRemove DEF Part
  <2>2. CASE x \notin S
    <3>1. SumFunctionOnSet(f, S) = SumFunctionOnSet(f, rest)  BY <2>2, rest = S
    <3> QED  BY <1>3, <2>2, <3>1 DEF Part
  <2> QED  BY <2>1, <2>2
<1>5. SumFunctionOnSet(g, R) = Part(g, R, x) + SumFunctionOnSet(g, rest) /\ Part(g, R, x) \in Int
  <2>1. CASE x \in R  BY <1>2, <1>3, <2>1, SumRemove DEF Part
  <2>2. CASE x \notin R
    <3>1. SumFunctionOnSet(g, R) = SumFunctionOnSet(g, rest)  BY <2>2, rest = R
    <3> QED  BY <1>2, <1>3, <2>2, <3>1 DEF Part
  <2> QED  BY <2>1, <2>2
<1> QED  BY <1>2, <1>3, <1>4, <1>5

LEMMA SumZero ==
    ASSUME NEW S, IsFiniteSet(S), NEW f, \A x \in S : f[x] = 0
    PROVE  SumFunctionOnSet(f, S) = 0
<1> DEFINE T == {s \in SUBSET S : SumFunctionOnSet(f, s) # 0}
<1>1. ASSUME NEW s \in T  PROVE \E u \in T : u \subseteq s /\ u # s
  <2>1. IsFiniteSet(s)  BY FS_Subset
  <2>2. SumFunctionOnSet(f, s) =
          IF s = {} THEN 0 ELSE f[Some(s)] + SumFunctionOnSet(f, s \ {Some(s)})
    BY <2>1, SumStep
  <2>3. s # {} /\ Some(s) \in s  BY <2>2, SomeIsElement
  <2>4. s \ {Some(s)} \in T  BY <2>2, <2>3
  <2> QED  BY <2>3, <2>4
<1>2. T = {}
  <2> HIDE DEF T
  <2>1. T \subseteq SUBSET S  BY DEF T
  <2> QED  BY <1>1, <2>1, NoLeast
<1> QED  BY <1>2

\* Elements that contribute nothing may be left out.
LEMMA SumSupport ==
    ASSUME NEW S, IsFiniteSet(S), NEW R, R \subseteq S, NEW f, \A x \in S : f[x] \in Int,
           \A x \in S \ R : f[x] = 0
    PROVE  SumFunctionOnSet(f, S) = SumFunctionOnSet(f, R)
<1> DEFINE U == S \ R
           T == {s \in SUBSET U : SumFunctionOnSet(f, R \cup s) # SumFunctionOnSet(f, R)}
<1>1. IsFiniteSet(U)  BY FS_Subset
<1>2. ASSUME NEW s \in T  PROVE \E u \in T : u \subseteq s /\ u # s
  <2>1. R \cup {} = R  OBVIOUS
  <2>2. s # {}  BY <2>1
  <2>3. PICK x : x \in s  BY <2>2
  <2>4. s \subseteq U /\ x \in S /\ x \notin R /\ f[x] = 0  BY <2>3
  <2>5. IsFiniteSet(R \cup s) /\ IsFiniteSet(R \cup (s \ {x}))
    <3>1. R \cup s \subseteq S /\ R \cup (s \ {x}) \subseteq S  BY <2>4
    <3> QED  BY <3>1, FS_Subset
  <2>6. (R \cup s) \ {x} = R \cup (s \ {x})  BY <2>3, <2>4
  <2>7. /\ \A y \in R \cup s : f[y] \in Int
        /\ \A y \in R \cup (s \ {x}) : f[y] \in Int
    BY <2>4
  <2>8. SumFunctionOnSet(f, R \cup s) = f[x] + SumFunctionOnSet(f, R \cup (s \ {x}))
    BY <2>3, <2>5, <2>6, <2>7, SumRemove
  <2>9. SumFunctionOnSet(f, R \cup (s \ {x})) \in Int  BY <2>5, <2>7, SumType
  <2>10. SumFunctionOnSet(f, R \cup s) = SumFunctionOnSet(f, R \cup (s \ {x}))
    BY <2>4, <2>8, <2>9
  <2>11. s \ {x} \in T  BY <2>4, <2>10
  <2> QED  BY <2>3, <2>11
<1>3. T = {}
  <2> HIDE DEF T, U
  <2>1. T \subseteq SUBSET U  BY DEF T
  <2> QED  BY <1>1, <1>2, <2>1, NoLeast
<1>4. R \cup U = S  OBVIOUS
<1>5. U \in SUBSET U  OBVIOUS
<1>6. SumFunctionOnSet(f, R \cup U) = SumFunctionOnSet(f, R)
  <2> HIDE DEF U
  <2> QED  BY <1>3, <1>5
<1> QED  BY <1>4, <1>6

LEMMA SumOne ==
    ASSUME NEW x, NEW f, f[x] \in Int
    PROVE  SumFunctionOnSet(f, {x}) = f[x]
<1>1. IsFiniteSet({x})  BY FS_Singleton
<1>2. SumFunctionOnSet(f, {x}) = f[x] + SumFunctionOnSet(f, {x} \ {x})  BY <1>1, SumRemove
<1>3. {x} \ {x} = {}  OBVIOUS
<1> QED  BY <1>2, <1>3, SumEmpty
=============================================================================
