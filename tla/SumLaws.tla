------------------------------- MODULE SumLaws -------------------------------
(***************************************************************************)
(* Laws of finite sums.  The modules add up rows with the folds of the     *)
(* community modules, which are recursions over the subsets of a set that  *)
(* take its elements in some order.  Here the recursion is shown to have a *)
(* solution, and the order to make no difference.  Induction is by the     *)
(* smallest set of a family, so that no theorem with an operator for its   *)
(* parameter is needed.                                                    *)
(***************************************************************************)
EXTENDS Integers, FiniteSets, FiniteSetsExt, SequencesExt, FiniteSetTheorems, TLAPS

\* The sum of F over S
Sum(F, S) == MapThenSumSet(LAMBDA x : F[x], S)

\* An order of the elements of S: the one that is taken next from each subset
IsOrder(c, S) == \A T \in SUBSET S : T # {} => c[T] \in T

\* g adds up F over the subsets of S in the order c
Adds(g, F, c, S) ==
  g = [T \in SUBSET S |-> IF T = {} THEN 0 ELSE F[c[T]] + g[T \ {c[T]}]]

----------------------------------------------------------------------------
(* The recursion *)

\* A family of subsets of a finite set has a smallest member
LEMMA SmallestSet ==
  ASSUME NEW S, IsFiniteSet(S), NEW B, B \subseteq SUBSET S, B # {}
  PROVE  \E T \in B : \A U \in B : U \subseteq T => U = T
<1>1. PICK R : R = StrictSubsetOrdering(S)
  OBVIOUS
<1>2. IsWellFoundedOn(R, SUBSET S)
  BY <1>1, FS_StrictSubsetOrderingWellFounded, FS_FiniteSubsetsOfFinite
<1>3. \E T \in B : \A U \in B : ~(<<U, T>> \in R)
  BY <1>2, WFMin
<1>4. \A U, T \in B : U \subseteq T /\ U # T => <<U, T>> \in R
  BY <1>1 DEF StrictSubsetOrdering
<1> QED
  BY <1>3, <1>4

\* A sum along an order is unique
LEMMA AddsUnique ==
  ASSUME NEW S, IsFiniteSet(S), NEW F, NEW c, IsOrder(c, S), NEW T \in SUBSET S,
         NEW g, Adds(g, F, c, S), NEW h, Adds(h, F, c, T)
  PROVE  \A U \in SUBSET T : g[U] = h[U]
<1>1. SUFFICES ASSUME NEW V \in SUBSET T, g[V] # h[V] PROVE FALSE
  OBVIOUS
<1>2. PICK B : B = {U \in SUBSET T : g[U] # h[U]}
  OBVIOUS
<1>3. PICK U \in B : \A W \in B : W \subseteq U => W = U
  <2>1. B \subseteq SUBSET S /\ B # {}
    BY <1>1, <1>2
  <2> QED
    BY <2>1, SmallestSet
<1>4. U \in SUBSET T /\ U \in SUBSET S /\ g[U] # h[U]
  BY <1>2, <1>3
<1>5. /\ g[U] = IF U = {} THEN 0 ELSE F[c[U]] + g[U \ {c[U]}]
      /\ h[U] = IF U = {} THEN 0 ELSE F[c[U]] + h[U \ {c[U]}]
  BY <1>4, Zenon DEF Adds
<1>6. U # {} /\ c[U] \in U
  BY <1>4, <1>5 DEF IsOrder
<1>7. U \ {c[U]} \in SUBSET T /\ U \ {c[U]} # U
  BY <1>4, <1>6
<1>8. g[U \ {c[U]}] = h[U \ {c[U]}]
  BY <1>2, <1>3, <1>7
<1> QED
  BY <1>4, <1>5, <1>6, <1>8

\* ... and there is one for every finite set
LEMMA AddsExists ==
  ASSUME NEW S, IsFiniteSet(S), NEW F, NEW c, IsOrder(c, S)
  PROVE  \E g : Adds(g, F, c, S)
<1>1. SUFFICES ASSUME ~\E g : Adds(g, F, c, S) PROVE FALSE
  OBVIOUS
<1>2. PICK B : B = {T \in SUBSET S : ~\E g : Adds(g, F, c, T)}
  OBVIOUS
<1>3. PICK T \in B : \A U \in B : U \subseteq T => U = T
  <2>1. B \subseteq SUBSET S /\ S \in B
    BY <1>1, <1>2
  <2> QED
    BY <2>1, SmallestSet
<1>4. T \in SUBSET S /\ ~\E g : Adds(g, F, c, T)
  BY <1>2, <1>3
<1>5. ASSUME NEW U \in SUBSET T, U # T PROVE \E g : Adds(g, F, c, U)
  BY <1>2, <1>3, <1>4, <1>5
<1>6. PICK s : s = [U \in SUBSET T |-> CHOOSE g : Adds(g, F, c, U)]
  OBVIOUS
<1>7. \A U \in SUBSET T : U # T => Adds(s[U], F, c, U)
  BY <1>5, <1>6
<1>8. PICK h : h = [U \in SUBSET T |-> IF U = {} THEN 0 ELSE F[c[U]] + s[U \ {c[U]}][U \ {c[U]}]]
  OBVIOUS
<1>9. ASSUME NEW V \in SUBSET T, V # T PROVE h[V] = s[V][V]
  <2>1. Adds(s[V], F, c, V)
    BY <1>7, <1>9
  <2>2. s[V][V] = IF V = {} THEN 0 ELSE F[c[V]] + s[V][V \ {c[V]}]
    BY <2>1, Zenon DEF Adds
  <2>3. h[V] = IF V = {} THEN 0 ELSE F[c[V]] + s[V \ {c[V]}][V \ {c[V]}]
    BY <1>8
  <2>4. CASE V = {}
    BY <2>2, <2>3, <2>4
  <2>5. CASE V # {}
    <3>1. PICK W : W = V \ {c[V]}
      OBVIOUS
    <3>2. W \in SUBSET V /\ W \in SUBSET T /\ W # T /\ IsFiniteSet(V) /\ IsOrder(c, V)
      BY <1>4, <2>5, <3>1, FS_Subset DEF IsOrder
    <3>3. Adds(s[W], F, c, W)
      BY <1>7, <3>2
    <3>4. s[V][W] = s[W][W]
      <4>1. PICK gv, gw : gv = s[V] /\ gw = s[W]
        OBVIOUS
      <4>2. Adds(gv, F, c, V) /\ Adds(gw, F, c, W)
        BY <2>1, <3>3, <4>1
      <4>3. \A U \in SUBSET W : gv[U] = gw[U]
        BY <3>2, <4>2, AddsUnique
      <4> QED
        BY <4>1, <4>3
    <3> QED
      BY <2>2, <2>3, <2>5, <3>1, <3>4
  <2> QED
    BY <2>4, <2>5
<1>10. ASSUME NEW U \in SUBSET T, U # {}
       PROVE  s[U \ {c[U]}][U \ {c[U]}] = h[U \ {c[U]}]
  <2>1. c[U] \in U
    BY <1>4, <1>10 DEF IsOrder
  <2> QED
    BY <1>9, <2>1
<1>11. Adds(h, F, c, T)
  BY <1>8, <1>10 DEF Adds
<1> QED
  BY <1>4, <1>11

\* The fold of the community modules is such a recursion, in an order in which
\* a set's next element does not depend on the set it is part of
Next1(S) == [T \in SUBSET S |-> CHOOSE x \in T : TRUE]

\* The folds of the community modules add up along that order
LEMMA SumAdds ==
  ASSUME NEW S, IsFiniteSet(S), NEW F
  PROVE  IsOrder(Next1(S), S) /\ \E g : Adds(g, F, Next1(S), S) /\ Sum(F, S) = g[S]
<1>1. PICK c : c = Next1(S)
  OBVIOUS
<1>2. IsOrder(c, S)
  BY <1>1 DEF IsOrder, Next1
<1>3. PICK g : Adds(g, F, c, S)
  BY <1>2, AddsExists
<1>4. g = [T \in SUBSET S |-> IF T = {} THEN 0
             ELSE F[CHOOSE x \in T : TRUE] + g[T \ {CHOOSE x \in T : TRUE}]]
  BY <1>1, <1>3 DEF Adds, Next1
<1>5. PICK i : i = CHOOSE h : h = [T \in SUBSET S |-> IF T = {} THEN 0
             ELSE F[CHOOSE x \in T : TRUE] + h[T \ {CHOOSE x \in T : TRUE}]]
  OBVIOUS
<1>6. i = [T \in SUBSET S |-> IF T = {} THEN 0
             ELSE F[CHOOSE x \in T : TRUE] + i[T \ {CHOOSE x \in T : TRUE}]]
  <2>1. \E h : h = [T \in SUBSET S |-> IF T = {} THEN 0
             ELSE F[CHOOSE x \in T : TRUE] + h[T \ {CHOOSE x \in T : TRUE}]]
    BY <1>4, Zenon
  <2> QED
    BY <1>5, <2>1, Zenon
<1>7. Sum(F, S) = i[S]
  BY <1>5 DEF Sum, MapThenSumSet, MapThenFoldSet
<1>8. Adds(i, F, c, S)
  BY <1>1, <1>6 DEF Adds, Next1
<1> QED
  BY <1>1, <1>2, <1>7, <1>8

\* Nothing adds up to nil
LEMMA SumEmpty ==
  ASSUME NEW F
  PROVE  Sum(F, {}) = 0
<1>1. IsFiniteSet({})
  BY FS_EmptySet
<1>2. PICK g : Adds(g, F, Next1({}), {}) /\ Sum(F, {}) = g[{}]
  BY <1>1, SumAdds
<1> QED
  BY <1>2, Zenon DEF Adds

\* Every sum of a nonempty set is an element and the sum of the others
LEMMA SumStep ==
  ASSUME NEW S, IsFiniteSet(S), S # {}, NEW F
  PROVE  \E x \in S : Sum(F, S) = F[x] + Sum(F, S \ {x})
<1>1. PICK x : x = CHOOSE y \in S : TRUE
  OBVIOUS
<1>2. PICK T : T = S \ {x}
  OBVIOUS
<1>3. x \in S /\ T \in SUBSET S /\ IsFiniteSet(T)
  BY <1>1, <1>2, FS_Subset
<1>4. PICK g : Adds(g, F, Next1(S), S) /\ Sum(F, S) = g[S]
  BY SumAdds
<1>5. PICK h : Adds(h, F, Next1(T), T) /\ Sum(F, T) = h[T]
  BY <1>3, SumAdds
<1>6. Next1(S)[S] = x
  BY <1>1 DEF Next1
<1>7. g[S] = F[x] + g[T]
  <2>1. g[S] = IF S = {} THEN 0 ELSE F[Next1(S)[S]] + g[S \ {Next1(S)[S]}]
    BY <1>4, Zenon DEF Adds
  <2> QED
    BY <1>2, <1>6, <2>1
<1>8. Adds(h, F, Next1(S), T)
  <2>1. \A U \in SUBSET T : Next1(T)[U] = Next1(S)[U]
    BY <1>3 DEF Next1
  <2>2. h = [U \in SUBSET T |-> IF U = {} THEN 0
                ELSE F[Next1(T)[U]] + h[U \ {Next1(T)[U]}]]
    BY <1>5 DEF Adds
  <2>3. h = [U \in SUBSET T |-> IF U = {} THEN 0
                ELSE F[Next1(S)[U]] + h[U \ {Next1(S)[U]}]]
    BY <2>1, <2>2
  <2> QED
    BY <2>3 DEF Adds
<1>9. g[T] = h[T]
  BY <1>3, <1>4, <1>8, AddsUnique, SumAdds
<1> QED
  BY <1>2, <1>3, <1>4, <1>5, <1>7, <1>9

----------------------------------------------------------------------------
(* The laws *)

\* Induction over the subsets of a finite set: a family that holds each set
\* whose smaller subsets it holds, holds them all
LEMMA SubsetInduction ==
  ASSUME NEW S, IsFiniteSet(S), NEW B,
         \A T \in SUBSET S : (\A U \in SUBSET T : U # T => U \in B) => T \in B
  PROVE  S \in B
<1>1. SUFFICES ASSUME S \notin B PROVE FALSE
  OBVIOUS
<1>2. PICK R : R = {T \in SUBSET S : T \notin B}
  OBVIOUS
<1>3. R \subseteq SUBSET S /\ R # {}
  BY <1>1, <1>2
<1>4. PICK T \in R : \A U \in R : U \subseteq T => U = T
  BY <1>3, SmallestSet
<1> QED
  BY <1>2, <1>4

\* Whole numbers add up to a whole number
LEMMA SumInt ==
  ASSUME NEW S, IsFiniteSet(S), NEW F, \A x \in S : F[x] \in Int
  PROVE  Sum(F, S) \in Int
<1>1. PICK B : B = {T \in SUBSET S : Sum(F, T) \in Int}
  OBVIOUS
<1>2. ASSUME NEW T \in SUBSET S, \A U \in SUBSET T : U # T => U \in B PROVE T \in B
  <2>1. CASE T = {}
    BY <1>1, <2>1, SumEmpty
  <2>2. CASE T # {}
    <3>1. IsFiniteSet(T)
      BY FS_Subset
    <3>2. PICK x \in T : Sum(F, T) = F[x] + Sum(F, T \ {x})
      BY <2>2, <3>1, SumStep
    <3>3. T \ {x} \in B
      BY <1>2, <3>2
    <3>4. F[x] \in Int /\ Sum(F, T \ {x}) \in Int
      BY <1>1, <3>2, <3>3
    <3> QED
      BY <1>1, <3>2, <3>4
  <2> QED
    BY <2>1, <2>2
<1>3. S \in B
  BY <1>2, SubsetInduction
<1> QED
  BY <1>1, <1>3

\* Any element may be taken first
LEMMA SumRemove ==
  ASSUME NEW S, IsFiniteSet(S), NEW F, \A x \in S : F[x] \in Int, NEW e \in S
  PROVE  Sum(F, S) = F[e] + Sum(F, S \ {e})
<1>1. PICK B : B = {T \in SUBSET S : \A x \in T : Sum(F, T) = F[x] + Sum(F, T \ {x})}
  OBVIOUS
<1>2. ASSUME NEW T \in SUBSET S, \A U \in SUBSET T : U # T => U \in B PROVE T \in B
  <2>1. SUFFICES ASSUME NEW x \in T PROVE Sum(F, T) = F[x] + Sum(F, T \ {x})
    BY <1>1
  <2>2. IsFiniteSet(T)
    BY FS_Subset
  <2>3. PICK y \in T : Sum(F, T) = F[y] + Sum(F, T \ {y})
    BY <2>1, <2>2, SumStep
  <2>4. CASE x = y
    BY <2>3, <2>4
  <2>5. CASE x # y
    <3>1. PICK U, V, W : U = T \ {x} /\ V = T \ {y} /\ W = T \ {x, y}
      OBVIOUS
    <3>2. U \in B /\ V \in B /\ y \in U /\ x \in V
      BY <1>2, <2>1, <2>3, <2>5, <3>1
    <3>3. Sum(F, U) = F[y] + Sum(F, U \ {y}) /\ Sum(F, V) = F[x] + Sum(F, V \ {x})
      BY <1>1, <3>2
    <3>4. U \ {y} = W /\ V \ {x} = W
      BY <3>1
    <3>5. F[x] \in Int /\ F[y] \in Int /\ Sum(F, W) \in Int
      <4>1. IsFiniteSet(W) /\ W \subseteq S
        BY <2>2, <3>1, FS_Subset
      <4> QED
        BY <4>1, SumInt
    <3>6. Sum(F, U) = F[y] + Sum(F, W) /\ Sum(F, V) = F[x] + Sum(F, W)
      BY <3>3, <3>4
    <3>7. Sum(F, T) = F[y] + Sum(F, V)
      BY <2>3, <3>1
    <3>8. F[y] + (F[x] + Sum(F, W)) = F[x] + (F[y] + Sum(F, W))
      BY <3>5
    <3> QED
      BY <3>1, <3>6, <3>7, <3>8
  <2> QED
    BY <2>4, <2>5
<1>3. S \in B
  BY <1>2, SubsetInduction
<1> QED
  BY <1>1, <1>3

\* A new element is added to the sum of the others
LEMMA SumAdd ==
  ASSUME NEW S, IsFiniteSet(S), NEW F, \A x \in S : F[x] \in Int,
         NEW e, e \notin S, F[e] \in Int
  PROVE  Sum(F, S \cup {e}) = Sum(F, S) + F[e]
<1>1. PICK T : T = S \cup {e}
  OBVIOUS
<1>2. IsFiniteSet(T) /\ e \in T /\ (\A x \in T : F[x] \in Int) /\ T \ {e} = S
  BY <1>1, FS_AddElement
<1>3. Sum(F, T) = F[e] + Sum(F, T \ {e})
  BY <1>2, SumRemove
<1>4. Sum(F, S) \in Int
  BY SumInt
<1>5. Sum(F, T) = F[e] + Sum(F, S)
  BY <1>2, <1>3, Zenon
<1>6. F[e] + Sum(F, S) = Sum(F, S) + F[e]
  BY <1>4
<1> QED
  BY <1>1, <1>5, <1>6

\* A sum depends on the values it adds up
LEMMA SumEqual ==
  ASSUME NEW S, IsFiniteSet(S), NEW F, NEW G, \A x \in S : F[x] = G[x]
  PROVE  Sum(F, S) = Sum(G, S)
<1>1. PICK g : Adds(g, F, Next1(S), S) /\ Sum(F, S) = g[S]
  BY SumAdds
<1>2. PICK h : Adds(h, G, Next1(S), S) /\ Sum(G, S) = h[S]
  BY SumAdds
<1>3. IsOrder(Next1(S), S)
  BY SumAdds
<1>4. g = [T \in SUBSET S |-> IF T = {} THEN 0 ELSE F[Next1(S)[T]] + g[T \ {Next1(S)[T]}]]
  BY <1>1 DEF Adds
<1>5. \A T \in SUBSET S : T # {} => F[Next1(S)[T]] = G[Next1(S)[T]]
  BY <1>3 DEF IsOrder
<1>6. g = [T \in SUBSET S |-> IF T = {} THEN 0 ELSE G[Next1(S)[T]] + g[T \ {Next1(S)[T]}]]
  BY <1>4, <1>5
<1>7. Adds(g, G, Next1(S), S)
  BY <1>6 DEF Adds
<1> QED
  BY <1>1, <1>2, <1>3, <1>7, AddsUnique

\* The same, one element after the other
LEMMA ElementInduction ==
  ASSUME NEW S, IsFiniteSet(S), NEW B, {} \in B,
         \A T \in SUBSET S : \A e \in T : T \ {e} \in B => T \in B
  PROVE  S \in B
<1>1. ASSUME NEW T \in SUBSET S, \A U \in SUBSET T : U # T => U \in B PROVE T \in B
  <2>1. CASE T = {}
    BY <2>1
  <2>2. CASE T # {}
    <3>1. PICK e : e \in T
      BY <2>2
    <3>2. T \ {e} \in SUBSET T /\ T \ {e} # T
      BY <3>1
    <3> QED
      BY <1>1, <3>1, <3>2
  <2> QED
    BY <2>1, <2>2
<1> QED
  BY <1>1, SubsetInduction

\* Adding up two summands at once
LEMMA SumOfSums ==
  ASSUME NEW S, IsFiniteSet(S), NEW F, NEW G, NEW H,
         \A x \in S : F[x] \in Int /\ G[x] \in Int /\ H[x] = F[x] + G[x]
  PROVE  Sum(H, S) = Sum(F, S) + Sum(G, S)
<1>1. PICK B : B = {T \in SUBSET S : Sum(H, T) = Sum(F, T) + Sum(G, T)}
  OBVIOUS
<1>2. {} \in B
  BY <1>1, SumEmpty
<1>3. ASSUME NEW T \in SUBSET S, NEW e \in T, T \ {e} \in B PROVE T \in B
  <2>1. PICK U : U = T \ {e}
    OBVIOUS
  <2>2. IsFiniteSet(T) /\ IsFiniteSet(U) /\ U \subseteq S
    BY <2>1, FS_Subset
  <2>3. /\ \A x \in T : F[x] \in Int /\ G[x] \in Int /\ H[x] \in Int
        /\ H[e] = F[e] + G[e]
    OBVIOUS
  <2>4. /\ Sum(F, T) = F[e] + Sum(F, U)
        /\ Sum(G, T) = G[e] + Sum(G, U)
        /\ Sum(H, T) = H[e] + Sum(H, U)
    BY <2>1, <2>2, <2>3, SumRemove
  <2>5. Sum(F, U) \in Int /\ Sum(G, U) \in Int
    BY <2>2, <2>3, SumInt
  <2>6. Sum(H, U) = Sum(F, U) + Sum(G, U)
    BY <1>1, <1>3, <2>1
  <2>7. Sum(H, T) = Sum(F, T) + Sum(G, T)
    BY <2>3, <2>4, <2>5, <2>6
  <2> QED
    BY <1>1, <2>7
<1>4. S \in B
  BY <1>2, <1>3, ElementInduction
<1> QED
  BY <1>1, <1>4

\* Nils add up to nil
LEMMA SumZero ==
  ASSUME NEW S, IsFiniteSet(S), NEW F, \A x \in S : F[x] = 0
  PROVE  Sum(F, S) = 0
<1>1. /\ \A x \in S : F[x] \in Int /\ F[x] = F[x] + F[x]
      /\ Sum(F, S) \in Int
  BY SumInt
<1>2. Sum(F, S) = Sum(F, S) + Sum(F, S)
  BY <1>1, SumOfSums
<1> QED
  BY <1>1, <1>2, SMTT(60)

\* The opposite amounts add up to the opposite sum
LEMMA SumNegative ==
  ASSUME NEW S, IsFiniteSet(S), NEW F, NEW G,
         \A x \in S : F[x] \in Int /\ G[x] = -F[x]
  PROVE  Sum(G, S) = -Sum(F, S)
<1>1. PICK Z : Z = [x \in S |-> 0]
  OBVIOUS
<1>2. \A x \in S : F[x] \in Int /\ G[x] \in Int /\ Z[x] = F[x] + G[x]
  BY <1>1
<1>3. Sum(Z, S) = Sum(F, S) + Sum(G, S)
  BY <1>2, SumOfSums
<1>4. Sum(Z, S) = 0
  BY <1>1, SumZero
<1>5. Sum(F, S) \in Int /\ Sum(G, S) \in Int
  BY <1>2, SumInt
<1> QED
  BY <1>3, <1>4, <1>5

\* What is not nil outside a part is added up by that part alone
LEMMA SumPart ==
  ASSUME NEW S, IsFiniteSet(S), NEW P \in SUBSET S, NEW F,
         \A x \in S : F[x] \in Int, \A x \in S \ P : F[x] = 0
  PROVE  Sum(F, S) = Sum(F, P)
<1>1. PICK B : B = {T \in SUBSET S : Sum(F, T) = Sum(F, T \cap P)}
  OBVIOUS
<1>2. {} \in B
  BY <1>1
<1>3. ASSUME NEW T \in SUBSET S, NEW e \in T, T \ {e} \in B PROVE T \in B
  <2>1. PICK U, V, W : U = T \ {e} /\ V = T \cap P /\ W = U \cap P
    OBVIOUS
  <2>2. IsFiniteSet(T) /\ IsFiniteSet(U) /\ IsFiniteSet(V) /\ IsFiniteSet(W)
    BY <2>1, FS_Subset
  <2>3. Sum(F, T) = F[e] + Sum(F, U)
    BY <2>1, <2>2, SumRemove
  <2>4. Sum(F, U) = Sum(F, W)
    BY <1>1, <1>3, <2>1
  <2>5. Sum(F, W) \in Int
    BY <2>1, <2>2, SumInt
  <2>6. Sum(F, T) = Sum(F, V)
    <3>1. CASE e \in P
      <4>1. e \in V /\ V \ {e} = W /\ \A x \in V : F[x] \in Int
        BY <2>1, <3>1
      <4>2. Sum(F, V) = F[e] + Sum(F, V \ {e})
        BY <2>2, <4>1, SumRemove
      <4> QED
        BY <2>3, <2>4, <4>1, <4>2
    <3>2. CASE e \notin P
      <4>1. V = W /\ F[e] = 0
        BY <2>1, <3>2
      <4> QED
        BY <2>3, <2>4, <2>5, <4>1
    <3> QED
      BY <3>1, <3>2
  <2> QED
    BY <1>1, <2>1, <2>6
<1>4. S \in B
  BY <1>2, <1>3, ElementInduction
<1>5. S \cap P = P
  OBVIOUS
<1> QED
  BY <1>1, <1>4, <1>5

\* Disjoint parts are added up apart
LEMMA SumUnion ==
  ASSUME NEW S, IsFiniteSet(S), NEW T, IsFiniteSet(T), S \cap T = {}, NEW F,
         \A x \in S \cup T : F[x] \in Int
  PROVE  Sum(F, S \cup T) = Sum(F, S) + Sum(F, T)
<1>1. PICK G, H, U : /\ U = S \cup T
                     /\ G = [x \in U |-> IF x \in S THEN F[x] ELSE 0]
                     /\ H = [x \in U |-> IF x \in S THEN 0 ELSE F[x]]
  OBVIOUS
<1>2. IsFiniteSet(U)
  BY <1>1, FS_Union
<1>3. /\ \A x \in U : G[x] \in Int /\ H[x] \in Int /\ F[x] = G[x] + H[x]
      /\ S \in SUBSET U /\ T \in SUBSET U
      /\ \A x \in U \ S : G[x] = 0
      /\ \A x \in U \ T : H[x] = 0
      /\ \A x \in S : G[x] = F[x]
      /\ \A x \in T : H[x] = F[x]
  BY <1>1
<1>4. Sum(F, U) = Sum(G, U) + Sum(H, U)
  BY <1>2, <1>3, SumOfSums
<1>5. Sum(G, U) = Sum(G, S)
  BY <1>2, <1>3, SumPart
<1>6. Sum(H, U) = Sum(H, T)
  BY <1>2, <1>3, SumPart
<1>7. Sum(G, S) = Sum(F, S) /\ Sum(H, T) = Sum(F, T)
  BY <1>3, SumEqual
<1> QED
  BY <1>1, <1>4, <1>5, <1>6, <1>7

\* Renaming what is added up
LEMMA SumImage ==
  ASSUME NEW S, IsFiniteSet(S), NEW T, NEW b \in Bijection(S, T), NEW F, NEW G,
         \A x \in S : F[x] \in Int /\ F[x] = G[b[x]]
  PROVE  Sum(F, S) = Sum(G, T)
<1>1. PICK B : B = {U \in SUBSET S : Sum(F, U) = Sum(G, {b[x] : x \in U})}
  OBVIOUS
<1>2. {} \in B
  <2>1. {b[x] : x \in {}} = {}
    OBVIOUS
  <2> QED
    BY <1>1, <2>1, SumEmpty
<1>3. /\ b \in [S -> T]
      /\ \A x, y \in S : b[x] = b[y] => x = y
      /\ T = {b[x] : x \in S}
  BY DEF Bijection, Injection, Surjection, IsInjective
<1>4. IsFiniteSet(T)
  BY FS_Surjection DEF Bijection
<1>5. ASSUME NEW U \in SUBSET S, NEW e \in U, U \ {e} \in B PROVE U \in B
  <2>1. PICK V, I, J : V = U \ {e} /\ I = {b[x] : x \in U} /\ J = {b[x] : x \in V}
    OBVIOUS
  <2>2. IsFiniteSet(U) /\ IsFiniteSet(V)
    BY <2>1, FS_Subset
  <2>3. IsFiniteSet(I) /\ IsFiniteSet(J)
    BY <1>3, <1>4, <2>1, FS_Subset
  <2>4. J = I \ {b[e]} /\ b[e] \in I
    BY <1>3, <2>1
  <2>5. \A x \in I : G[x] \in Int
    BY <2>1
  <2>6. Sum(F, U) = F[e] + Sum(F, V)
    BY <2>1, <2>2, SumRemove
  <2>7. Sum(G, I) = G[b[e]] + Sum(G, J)
    BY <2>3, <2>4, <2>5, SumRemove
  <2>8. Sum(F, V) = Sum(G, J)
    BY <1>1, <1>5, <2>1
  <2>9. Sum(F, U) = Sum(G, I)
    BY <2>6, <2>7, <2>8
  <2> QED
    BY <1>1, <2>1, <2>9
<1>6. S \in B
  BY <1>2, <1>5, ElementInduction
<1> QED
  BY <1>1, <1>3, <1>6

\* Nothing negative adds up to something negative
LEMMA SumNonNegative ==
  ASSUME NEW S, IsFiniteSet(S), NEW F, \A x \in S : F[x] \in Int /\ F[x] >= 0
  PROVE  Sum(F, S) >= 0
<1>1. PICK B : B = {T \in SUBSET S : Sum(F, T) >= 0}
  OBVIOUS
<1>2. {} \in B
  BY <1>1, SumEmpty
<1>3. ASSUME NEW T \in SUBSET S, NEW e \in T, T \ {e} \in B PROVE T \in B
  <2>1. PICK U : U = T \ {e}
    OBVIOUS
  <2>2. IsFiniteSet(T) /\ IsFiniteSet(U)
    BY <2>1, FS_Subset
  <2>3. Sum(F, T) = F[e] + Sum(F, U) /\ Sum(F, U) \in Int
    BY <2>1, <2>2, SumRemove, SumInt
  <2>4. Sum(F, U) >= 0 /\ F[e] \in Int /\ F[e] >= 0
    BY <1>1, <1>3, <2>1
  <2> QED
    BY <1>1, <2>3, <2>4
<1>4. S \in B
  BY <1>2, <1>3, ElementInduction
<1> QED
  BY <1>1, <1>4

\* A sum, added up key by key
LEMMA SumByKey ==
  ASSUME NEW S, IsFiniteSet(S), NEW F, \A x \in S : F[x] \in Int,
         NEW K, IsFiniteSet(K), NEW key, \A x \in S : key[x] \in K,
         NEW part, \A k \in K : part[k] = {x \in S : key[x] = k},
         NEW G, \A k \in K : G[k] = Sum(F, part[k])
  PROVE  Sum(G, K) = Sum(F, S)
<1>1. PICK B : B = {L \in SUBSET K : Sum(G, L) = Sum(F, {x \in S : key[x] \in L})}
  OBVIOUS
<1>2. {} \in B
  <2>1. {x \in S : key[x] \in {}} = {}
    OBVIOUS
  <2> QED
    BY <1>1, <2>1, SumEmpty
<1>3. ASSUME NEW L \in SUBSET K, NEW k \in L, L \ {k} \in B PROVE L \in B
  <2>1. PICK M, A, X, Y :
          /\ M = L \ {k}
          /\ A = {x \in S : key[x] \in L}
          /\ X = {x \in S : key[x] = k} /\ Y = {x \in S : key[x] \in M}
    OBVIOUS
  <2>2. IsFiniteSet(L) /\ IsFiniteSet(X) /\ IsFiniteSet(Y)
    BY <2>1, FS_Subset
  <2>3. X \cap Y = {} /\ A = X \cup Y
    BY <2>1
  <2>4. \A x \in X \cup Y : F[x] \in Int
    BY <2>1
  <2>5. Sum(F, X \cup Y) = Sum(F, X) + Sum(F, Y)
    BY <2>2, <2>3, <2>4, SumUnion
  <2>6. \A j \in L : G[j] \in Int
    <3>1. TAKE j \in L
    <3>2. PICK Z : Z = {x \in S : key[x] = j} /\ Z = part[j]
      OBVIOUS
    <3>3. IsFiniteSet(Z) /\ \A x \in Z : F[x] \in Int
      BY <3>2, FS_Subset
    <3>4. Sum(F, Z) \in Int
      BY <3>3, SumInt
    <3> QED
      BY <3>2, <3>4
  <2>7. Sum(G, L) = G[k] + Sum(G, M)
    BY <2>1, <2>2, <2>6, SumRemove
  <2>8. G[k] = Sum(F, X) /\ Sum(G, M) = Sum(F, Y)
    BY <1>1, <1>3, <2>1
  <2>9. Sum(G, L) = Sum(F, A)
    BY <2>3, <2>5, <2>7, <2>8
  <2> QED
    BY <1>1, <2>1, <2>9
<1>4. K \in B
  BY <1>2, <1>3, ElementInduction
<1>5. {x \in S : key[x] \in K} = S
  OBVIOUS
<1> QED
  BY <1>1, <1>4, <1>5

\* The sum of one element
LEMMA SumSingle ==
  ASSUME NEW F, NEW e, F[e] \in Int
  PROVE  Sum(F, {e}) = F[e]
<1>1. IsFiniteSet({e}) /\ {e} \ {e} = {}
  BY FS_Singleton
<1>2. Sum(F, {e}) = F[e] + Sum(F, {e} \ {e})
  BY <1>1, SumRemove
<1> QED
  BY <1>1, <1>2, SumEmpty

\* Terms of which only one may be other than nil
LEMMA SumOne ==
  ASSUME NEW S, IsFiniteSet(S), NEW F, NEW e \in S, F[e] \in Int,
         \A x \in S \ {e} : F[x] = 0
  PROVE  Sum(F, S) = F[e]
<1>1. {e} \in SUBSET S /\ \A x \in S : F[x] \in Int
  OBVIOUS
<1>2. Sum(F, S) = Sum(F, {e})
  BY <1>1, SumPart
<1> QED
  BY <1>2, SumSingle

\* A set put into a list, each of its elements once
LEMMA SetToSeqBijection ==
  ASSUME NEW S, IsFiniteSet(S)
  PROVE  /\ Cardinality(S) \in Nat
         /\ SetToSeq(S) \in Bijection(1..Cardinality(S), S)
<1>1. PICK n : n = Cardinality(S)
  OBVIOUS
<1>2. n \in Nat /\ ExistsBijection(1..n, S)
  BY <1>1, FS_CardinalityType
<1>3. \E f \in [1..n -> S] : IsInjective(f)
  BY <1>2 DEF ExistsBijection, Bijection, Injection
<1>4. SetToSeq(S) \in [1..n -> S] /\ IsInjective(SetToSeq(S))
  BY <1>1, <1>3, Zenon DEF SetToSeq
<1>5. SetToSeq(S) \in Injection(1..n, S)
  BY <1>4 DEF Injection
<1>6. Cardinality(1..n) = n
  BY <1>2, FS_Interval
<1>7. SetToSeq(S) \in Surjection(1..n, S)
  BY <1>1, <1>5, <1>6, FS_Injection
<1> QED
  BY <1>1, <1>2, <1>5, <1>7 DEF Bijection

----------------------------------------------------------------------------
(* Rows *)

\* What the rows of a set amount to, as the modules write it
RowSum(S) == MapThenSumSet(LAMBDA r : r.amount, S)

\* ... which is the sum of their amounts
LEMMA RowSumIsSum ==
  ASSUME NEW S, IsFiniteSet(S), NEW F, \A r \in S : F[r] = r.amount
  PROVE  RowSum(S) = Sum(F, S)
<1>1. PICK g : Adds(g, F, Next1(S), S) /\ Sum(F, S) = g[S]
  BY SumAdds
<1>2. IsOrder(Next1(S), S)
  BY SumAdds
<1>3. \A T \in SUBSET S : T # {} =>
        F[CHOOSE x \in T : TRUE] = (CHOOSE x \in T : TRUE).amount
  OBVIOUS
<1>4. g = [T \in SUBSET S |-> IF T = {} THEN 0
             ELSE F[CHOOSE x \in T : TRUE] + g[T \ {CHOOSE x \in T : TRUE}]]
  BY <1>1 DEF Adds, Next1
<1>5. g = [T \in SUBSET S |-> IF T = {} THEN 0
             ELSE (CHOOSE x \in T : TRUE).amount + g[T \ {CHOOSE x \in T : TRUE}]]
  BY <1>3, <1>4
<1>6. PICK i : i = CHOOSE h : h = [T \in SUBSET S |-> IF T = {} THEN 0
             ELSE (CHOOSE x \in T : TRUE).amount + h[T \ {CHOOSE x \in T : TRUE}]]
  OBVIOUS
<1>7. i = [T \in SUBSET S |-> IF T = {} THEN 0
             ELSE (CHOOSE x \in T : TRUE).amount + i[T \ {CHOOSE x \in T : TRUE}]]
  <2>1. \E h : h = [T \in SUBSET S |-> IF T = {} THEN 0
             ELSE (CHOOSE x \in T : TRUE).amount + h[T \ {CHOOSE x \in T : TRUE}]]
    BY <1>5, Zenon
  <2> QED
    BY <1>6, <2>1, Zenon
<1>8. RowSum(S) = i[S]
  BY <1>6 DEF RowSum, MapThenSumSet, MapThenFoldSet
<1>9. i = [T \in SUBSET S |-> IF T = {} THEN 0
             ELSE F[CHOOSE x \in T : TRUE] + i[T \ {CHOOSE x \in T : TRUE}]]
  BY <1>3, <1>7, ZenonT(60)
<1>10. Adds(i, F, Next1(S), S)
  BY <1>9 DEF Adds, Next1
<1>11. i[S] = g[S]
  BY <1>1, <1>2, <1>10, AddsUnique
<1> QED
  BY <1>1, <1>8, <1>11

\* What rows amount to is a whole number that a new row adds to
LEMMA RowSumInt ==
  ASSUME NEW S, IsFiniteSet(S), \A r \in S : r.amount \in Int
  PROVE  RowSum(S) \in Int
<1>1. PICK F : F = [r \in S |-> r.amount]
  OBVIOUS
<1> QED
  BY <1>1, RowSumIsSum, SumInt

\* No rows amount to nil
LEMMA RowSumEmpty == RowSum({}) = 0
<1>1. PICK F : F = [r \in {} |-> r.amount]
  OBVIOUS
<1> QED
  BY <1>1, RowSumIsSum, SumEmpty, FS_EmptySet

\* A row that is added
LEMMA RowSumAdd ==
  ASSUME NEW S, IsFiniteSet(S), \A r \in S : r.amount \in Int,
         NEW e, e \notin S, e.amount \in Int
  PROVE  RowSum(S \cup {e}) = RowSum(S) + e.amount
<1>1. PICK T, F : T = S \cup {e} /\ F = [r \in T |-> r.amount]
  OBVIOUS
<1>2. IsFiniteSet(T)
  BY <1>1, FS_AddElement
<1>3. RowSum(T) = Sum(F, T) /\ RowSum(S) = Sum(F, S)
  BY <1>1, <1>2, RowSumIsSum
<1>4. Sum(F, S \cup {e}) = Sum(F, S) + F[e]
  BY <1>1, SumAdd
<1> QED
  BY <1>1, <1>3, <1>4

\* ... or taken away
LEMMA RowSumRemove ==
  ASSUME NEW S, IsFiniteSet(S), \A r \in S : r.amount \in Int, NEW e \in S
  PROVE  RowSum(S \ {e}) = RowSum(S) - e.amount
<1>1. PICK T : T = S \ {e}
  OBVIOUS
<1>2. IsFiniteSet(T) /\ e \notin T /\ S = T \cup {e}
  BY <1>1, FS_Subset
<1>3. RowSum(T \cup {e}) = RowSum(T) + e.amount
  BY <1>1, <1>2, RowSumAdd
<1>4. RowSum(T) \in Int
  BY <1>1, <1>2, RowSumInt
<1>5. RowSum(S) = RowSum(T) + e.amount
  BY <1>2, <1>3, Zenon
<1>6. RowSum(T) = RowSum(S) - e.amount
  BY <1>4, <1>5
<1> QED
  BY <1>1, <1>6, Zenon

\* Rows of which nothing is negative
LEMMA RowSumNonNegative ==
  ASSUME NEW S, IsFiniteSet(S), \A r \in S : r.amount \in Int /\ r.amount >= 0
  PROVE  RowSum(S) >= 0
<1>1. PICK F : F = [r \in S |-> r.amount]
  OBVIOUS
<1> QED
  BY <1>1, RowSumIsSum, SumNonNegative

\* Rows of two kinds
LEMMA RowSumUnion ==
  ASSUME NEW S, IsFiniteSet(S), NEW T, IsFiniteSet(T), S \cap T = {},
         \A r \in S \cup T : r.amount \in Int
  PROVE  RowSum(S \cup T) = RowSum(S) + RowSum(T)
<1>1. PICK U, F : U = S \cup T /\ F = [r \in U |-> r.amount]
  OBVIOUS
<1>2. IsFiniteSet(U)
  BY <1>1, FS_Union
<1>3. RowSum(U) = Sum(F, U) /\ RowSum(S) = Sum(F, S) /\ RowSum(T) = Sum(F, T)
  BY <1>1, <1>2, RowSumIsSum
<1>4. Sum(F, S \cup T) = Sum(F, S) + Sum(F, T)
  BY <1>1, SumUnion
<1> QED
  BY <1>1, <1>3, <1>4

\* Rows written for the members of a set, one for each, of the same amounts
LEMMA RowSumImage ==
  ASSUME NEW S, IsFiniteSet(S), NEW T, NEW b \in Bijection(S, T),
         \A x \in S : x.amount \in Int /\ b[x].amount = x.amount
  PROVE  IsFiniteSet(T) /\ RowSum(T) = RowSum(S)
<1>1. PICK F, G : F = [x \in S |-> x.amount] /\ G = [y \in T |-> y.amount]
  OBVIOUS
<1>2. IsFiniteSet(T)
  BY FS_Surjection DEF Bijection
<1>3. \A x \in S : b[x] \in T
  BY DEF Bijection, Injection
<1>4. \A x \in S : F[x] \in Int /\ F[x] = G[b[x]]
  BY <1>1, <1>3
<1>5. Sum(F, S) = Sum(G, T)
  BY <1>4, SumImage
<1>6. RowSum(S) = Sum(F, S) /\ RowSum(T) = Sum(G, T)
  BY <1>1, <1>2, RowSumIsSum
<1> QED
  BY <1>2, <1>5, <1>6

\* Rows added up key by key
LEMMA RowSumByKey ==
  ASSUME NEW S, IsFiniteSet(S), \A r \in S : r.amount \in Int,
         NEW K, IsFiniteSet(K), NEW key, \A r \in S : key[r] \in K,
         NEW part, \A k \in K : part[k] = {r \in S : key[r] = k},
         NEW G, \A k \in K : G[k] = RowSum(part[k])
  PROVE  Sum(G, K) = RowSum(S)
<1>1. PICK F : F = [r \in S |-> r.amount]
  OBVIOUS
<1>2. \A k \in K : G[k] = Sum(F, part[k])
  <2>1. TAKE k \in K
  <2>2. part[k] \subseteq S
    OBVIOUS
  <2>3. IsFiniteSet(part[k]) /\ \A r \in part[k] : F[r] = r.amount
    BY <1>1, <2>2, FS_Subset
  <2>4. RowSum(part[k]) = Sum(F, part[k])
    BY <2>3, RowSumIsSum
  <2> QED
    BY <2>4
<1>3. \A r \in S : F[r] \in Int /\ F[r] = r.amount
  BY <1>1
<1>4. \A r \in S : F[r] \in Int
  BY <1>3
<1>5. Sum(G, K) = Sum(F, S)
  BY <1>2, <1>4, SumByKey
<1> QED
  BY <1>3, <1>5, RowSumIsSum

----------------------------------------------------------------------------
(* Bounds *)

\* A sum of greater numbers is greater
LEMMA SumMonotone ==
  ASSUME NEW S, IsFiniteSet(S), NEW F, NEW G,
         \A x \in S : F[x] \in Int /\ G[x] \in Int /\ F[x] <= G[x]
  PROVE  Sum(F, S) <= Sum(G, S)
<1>1. PICK H : H = [x \in S |-> G[x] - F[x]]
  OBVIOUS
<1>2. \A x \in S : H[x] \in Int /\ H[x] >= 0 /\ F[x] \in Int /\ G[x] = F[x] + H[x]
  BY <1>1
<1>3. Sum(G, S) = Sum(F, S) + Sum(H, S)
  BY <1>2, SumOfSums
<1>4. Sum(H, S) >= 0
  BY <1>2, SumNonNegative
<1>5. Sum(F, S) \in Int /\ Sum(H, S) \in Int
  BY <1>2, SumInt
<1> QED
  BY <1>3, <1>4, <1>5

\* Of numbers that are not negative, none exceeds their sum, nor does a part
LEMMA SumBounds ==
  ASSUME NEW S, IsFiniteSet(S), NEW F, \A x \in S : F[x] \in Int /\ F[x] >= 0
  PROVE  /\ Sum(F, S) \in Nat
         /\ \A x \in S : F[x] <= Sum(F, S)
         /\ \A T \in SUBSET S : Sum(F, T) <= Sum(F, S)
<1>1. Sum(F, S) \in Int /\ Sum(F, S) >= 0
  BY SumInt, SumNonNegative
<1>2. ASSUME NEW T \in SUBSET S PROVE Sum(F, T) <= Sum(F, S) /\ Sum(F, T) \in Int
  <2>1. PICK U : U = S \ T
    OBVIOUS
  <2>2. S = T \cup U /\ T \cap U = {} /\ IsFiniteSet(T) /\ IsFiniteSet(U)
    BY <2>1, FS_Subset
  <2>3. Sum(F, S) = Sum(F, T) + Sum(F, U)
    BY <2>2, SumUnion
  <2>4. Sum(F, T) \in Int /\ Sum(F, U) \in Int /\ Sum(F, U) >= 0
    BY <2>1, <2>2, SumInt, SumNonNegative
  <2> QED
    BY <2>3, <2>4
<1>3. ASSUME NEW x \in S PROVE F[x] <= Sum(F, S)
  BY <1>2, SumSingle
<1> QED
  BY <1>1, <1>2, <1>3

\* A set of naturals with a bound has a greatest member
LEMMA MaxIsGreatest ==
  ASSUME NEW n \in Nat, NEW S, S \subseteq 0..n, S # {}
  PROVE  Max(S) \in S /\ \A x \in S : Max(S) >= x
<1>1. PICK U : U = {m \in Nat : \A x \in S : x <= m}
  OBVIOUS
<1>2. PICK m \in U : \A k \in U : m <= k
  <2>1. U \subseteq Nat /\ n \in U
    BY <1>1
  <2>2. PICK R : R = OpToRel(<, Nat) /\ IsWellFoundedOn(R, Nat)
    BY NatLessThanWellFounded
  <2>3. PICK m \in U : \A k \in U : ~(<<k, m>> \in R)
    BY <2>1, <2>2, WFMin
  <2>4. \A k, l \in Nat : k < l => <<k, l>> \in R
    BY <2>2 DEF OpToRel
  <2>5. ASSUME NEW k \in U PROVE m <= k
    <3>1. k \in Nat /\ m \in Nat /\ ~(k < m)
      BY <2>1, <2>3, <2>4
    <3> QED
      BY <3>1
  <2> QED
    BY <2>5
<1>3. m \in S
  <2>1. SUFFICES ASSUME m \notin S PROVE FALSE
    OBVIOUS
  <2>2. PICK x \in S : TRUE
    OBVIOUS
  <2>3. m \in Nat /\ x \in Nat /\ x <= m /\ x # m
    BY <1>1, <1>2, <2>1
  <2>4. m - 1 \in U
    BY <1>1, <1>2, <2>1, <2>3
  <2> QED
    BY <1>2, <2>3, <2>4
<1>4. \A x \in S : m >= x
  BY <1>1, <1>2
<1> QED
  BY <1>3, <1>4 DEF Max
=============================================================================
