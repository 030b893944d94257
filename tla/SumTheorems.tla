---------------------------- MODULE SumTheorems ----------------------------
(***************************************************************************)
(* Sums of integers over finite sets: SumFunctionOnSet of the community    *)
(* modules adds in an order it chooses; the sum does not depend on it, and *)
(* obeys the laws one expects.  Induction over a finite set is by a least  *)
(* counterexample.                                                         *)
(***************************************************************************)
EXTENDS Integers, FiniteSets, Functions, FiniteSetTheorems, TLAPS

-----------------------------------------------------------------------------
\* Least elements.

\* Of a family of subsets of a finite set, one contains no other.
LEMMA LeastSubset ==
  ASSUME NEW S, IsFiniteSet(S), NEW F \in SUBSET SUBSET S, F # {}
  PROVE  \E A \in F : \A B \in F : B \subseteq A => B = A
<1>1. IsWellFoundedOn(StrictSubsetOrdering(S), FiniteSubsetsOf(S))
  BY FS_StrictSubsetOrderingWellFounded
<1>2. F \subseteq FiniteSubsetsOf(S) BY FS_FiniteSubsetsOfFinite
<1>3. \E x \in F : \A y \in F : ~ (<<y, x>> \in StrictSubsetOrdering(S))
  BY <1>1, <1>2, WFMin
<1> QED BY <1>3 DEF StrictSubsetOrdering

-----------------------------------------------------------------------------
\* What SumFunctionOnSet computes.

Pick(s) == CHOOSE x \in s : TRUE

Adds(g, f, S) ==
  g = [s \in SUBSET S |-> IF s = {} THEN 0 ELSE f[Pick(s)] + g[s \ {Pick(s)}]]

LEMMA PickIn == ASSUME NEW s, s # {} PROVE Pick(s) \in s
BY DEF Pick

LEMMA SumIsAdder ==
  ASSUME NEW f, NEW S
  PROVE  SumFunctionOnSet(f, S) = (CHOOSE g : Adds(g, f, S))[S]
BY DEF SumFunctionOnSet, FoldFunctionOnSet, MapThenFoldSet, Adds, Pick

LEMMA AddsAt ==
  ASSUME NEW f, NEW S, NEW g, Adds(g, f, S), NEW s \in SUBSET S
  PROVE  g[s] = IF s = {} THEN 0 ELSE f[Pick(s)] + g[s \ {Pick(s)}]
BY DEF Adds

\* Two ways of adding agree on the subsets they share.
LEMMA AddsUnique ==
  ASSUME NEW f, NEW S, IsFiniteSet(S), NEW T, NEW g, NEW h, Adds(g, f, S), Adds(h, f, T),
         S \subseteq T
  PROVE  \A s \in SUBSET S : g[s] = h[s]
<1> DEFINE F == {s \in SUBSET S : g[s] # h[s]}
<1> SUFFICES ASSUME F # {} PROVE FALSE OBVIOUS
<1>1. F \in SUBSET SUBSET S OBVIOUS
<1> HIDE DEF F
<1>2. PICK s \in F : \A t \in F : t \subseteq s => t = s BY <1>1, LeastSubset
<1>3. s \in SUBSET S /\ s \in SUBSET T /\ g[s] # h[s] BY <1>2 DEF F
<1>11. g[s] = IF s = {} THEN 0 ELSE f[Pick(s)] + g[s \ {Pick(s)}] BY <1>3 DEF Adds
<1>12. h[s] = IF s = {} THEN 0 ELSE f[Pick(s)] + h[s \ {Pick(s)}] BY <1>3 DEF Adds
<1>4. s # {} BY <1>3, <1>11, <1>12
<1> DEFINE t == s \ {Pick(s)}
<1>5. Pick(s) \in s BY <1>4, PickIn
<1>6. t \in SUBSET S /\ t \subseteq s /\ t # s BY <1>3, <1>5
<1>7. t \notin F BY <1>2, <1>6
<1>8. g[t] = h[t] BY <1>6, <1>7 DEF F
<1>9. g[s] = f[Pick(s)] + g[t] BY <1>4, <1>11
<1>10. h[s] = f[Pick(s)] + h[t] BY <1>4, <1>12
<1> QED BY <1>3, <1>8, <1>9, <1>10

LEMMA AdderExists ==
  ASSUME NEW f, NEW S, IsFiniteSet(S)
  PROVE  \E g : Adds(g, f, S)
<1> DEFINE F == {T \in SUBSET S : ~\E g : Adds(g, f, T)}
<1> SUFFICES ASSUME F # {} PROVE FALSE OBVIOUS
<1>1. F \in SUBSET SUBSET S OBVIOUS
<1> HIDE DEF F
<1>2. PICK T \in F : \A t \in F : t \subseteq T => t = T BY <1>1, LeastSubset
<1> DEFINE G(s) == CHOOSE g : Adds(g, f, s)
<1>3. T \in SUBSET S /\ ~\E g : Adds(g, f, T) BY <1>2 DEF F
<1>4. ASSUME NEW s \in SUBSET T, s # T PROVE Adds(G(s), f, s) /\ IsFiniteSet(s)
  <2>1. s \in SUBSET S /\ s \notin F BY <1>2, <1>3, <1>4
  <2>2. \E g : Adds(g, f, s) BY <2>1 DEF F
  <2> QED BY <2>1, <2>2, FS_Subset
<1> DEFINE below(s) == IF s = {} THEN 0 ELSE f[Pick(s)] + G(s \ {Pick(s)})[s \ {Pick(s)}]
           g == [s \in SUBSET T |-> below(s)]
<1>5. ASSUME NEW s \in SUBSET T, s # T PROVE g[s] = G(s)[s]
  <2>1. Adds(G(s), f, s) BY <1>4, <1>5
  <2>2. s \in SUBSET s OBVIOUS
  <2> DEFINE k == G(s)
  <2>3. k[s] = IF s = {} THEN 0 ELSE f[Pick(s)] + k[s \ {Pick(s)}]
    <3> HIDE DEF k
    <3> QED BY <2>1, <2>2, AddsAt DEF k
  <2>4. CASE s = {} BY <2>3, <2>4
  <2>5. CASE s # {}
    <3> DEFINE t == s \ {Pick(s)}
    <3>1. Pick(s) \in s BY <2>5, PickIn
    <3>2. t \in SUBSET T /\ t # T /\ t \subseteq s BY <3>1
    <3>3. Adds(G(t), f, t) /\ IsFiniteSet(t) BY <1>4, <3>2
    <3> HIDE DEF t, G
    <3>4. \A u \in SUBSET t : G(t)[u] = G(s)[u] BY <2>1, <3>2, <3>3, AddsUnique
    <3>5. G(t)[t] = G(s)[t] BY <3>4
    <3> QED BY <2>3, <2>5, <3>5 DEF t
  <2> QED BY <2>4, <2>5
<1>6. \A s \in SUBSET T : g[s] = IF s = {} THEN 0 ELSE f[Pick(s)] + g[s \ {Pick(s)}]
  <2> TAKE s \in SUBSET T
  <2>1. CASE s = {} BY <2>1
  <2>2. CASE s # {}
    <3> DEFINE t == s \ {Pick(s)}
    <3>1. Pick(s) \in s BY <2>2, PickIn
    <3>2. t \in SUBSET T /\ t # T BY <3>1
    <3>3. g[t] = G(t)[t] BY <1>5, <3>2
    <3>4. g[s] = f[Pick(s)] + G(t)[t] BY <2>2
    <3> QED BY <2>2, <3>3, <3>4
  <2> QED BY <2>1, <2>2
<1>7. g = [s \in SUBSET T |-> g[s]] OBVIOUS
<1> HIDE DEF g
<1>8. Adds(g, f, T) BY <1>6, <1>7 DEF Adds
<1> QED BY <1>3, <1>8

-----------------------------------------------------------------------------
\* The laws.

LEMMA SumEmpty == ASSUME NEW f PROVE SumFunctionOnSet(f, {}) = 0
<1>1. IsFiniteSet({}) BY FS_EmptySet
<1> DEFINE g == CHOOSE g : Adds(g, f, {})
<1>2. Adds(g, f, {}) BY <1>1, AdderExists
<1>3. SumFunctionOnSet(f, {}) = g[{}] BY SumIsAdder
<1> HIDE DEF g
<1>4. {} \in SUBSET {} OBVIOUS
<1>5. g[{}] = 0 BY <1>2, <1>4 DEF Adds
<1> QED BY <1>3, <1>5

LEMMA SumPicked ==
  ASSUME NEW f, NEW S, IsFiniteSet(S), S # {}
  PROVE  SumFunctionOnSet(f, S) = f[Pick(S)] + SumFunctionOnSet(f, S \ {Pick(S)})
<1> DEFINE T == S \ {Pick(S)}
           g == CHOOSE g : Adds(g, f, S)
           h == CHOOSE h : Adds(h, f, T)
<1>1. IsFiniteSet(T) /\ T \subseteq S BY FS_Difference
<1>2. Adds(g, f, S) BY AdderExists
<1>3. Adds(h, f, T) BY <1>1, AdderExists
<1>4. SumFunctionOnSet(f, S) = g[S] BY SumIsAdder
<1>5. SumFunctionOnSet(f, T) = h[T] BY SumIsAdder
<1> HIDE DEF g, h
<1>6. g[S] = f[Pick(S)] + g[T]
  <2>1. S \in SUBSET S OBVIOUS
  <2> QED BY <1>2, <2>1 DEF Adds
<1>7. h[T] = g[T]
  <2> HIDE DEF T
  <2>1. T \in SUBSET T OBVIOUS
  <2> QED BY <1>1, <1>2, <1>3, <2>1, AddsUnique
<1> QED BY <1>4, <1>5, <1>6, <1>7

\* The sum is an integer, and any element may be taken first.
LEMMA SumLaws ==
  ASSUME NEW f, NEW S, IsFiniteSet(S), \A x \in S : f[x] \in Int
  PROVE  /\ SumFunctionOnSet(f, S) \in Int
         /\ \A x \in S : SumFunctionOnSet(f, S) = f[x] + SumFunctionOnSet(f, S \ {x})
<1> DEFINE Sum(s) == SumFunctionOnSet(f, s)
           Fine(s) == Sum(s) \in Int /\ \A x \in s : Sum(s) = f[x] + Sum(s \ {x})
           F == {s \in SUBSET S : ~Fine(s)}
<1> SUFFICES ASSUME F # {} PROVE FALSE OBVIOUS
<1>1. F \in SUBSET SUBSET S OBVIOUS
<1> HIDE DEF F
<1>2. PICK s \in F : \A t \in F : t \subseteq s => t = s BY <1>1, LeastSubset
<1>3. s \in SUBSET S /\ ~Fine(s) BY <1>2 DEF F
<1>4. IsFiniteSet(s) BY <1>3, FS_Subset
<1>5. ASSUME NEW t \in SUBSET s, t # s PROVE Fine(t)
  <2>1. t \notin F BY <1>2, <1>5
  <2>2. t \in SUBSET S BY <1>3
  <2> QED BY <2>1, <2>2 DEF F
<1>6. CASE s = {} BY <1>3, <1>6, SumEmpty
<1>7. CASE s # {}
  <2> DEFINE c == Pick(s)
  <2>1. c \in s BY <1>7, PickIn
  <2>2. Sum(s) = f[c] + Sum(s \ {c}) BY <1>4, <1>7, SumPicked
  <2> HIDE DEF c, Sum
  <2>3. Sum(s \ {c}) \in Int BY <1>5, <2>1
  <2>4. f[c] \in Int BY <1>3, <2>1
  <2>5. Sum(s) \in Int BY <2>2, <2>3, <2>4
  <2>6. ASSUME NEW x \in s PROVE Sum(s) = f[x] + Sum(s \ {x})
    <3>1. CASE x = c BY <2>2, <3>1
    <3>2. CASE x # c
      <4>1. Fine(s \ {c}) /\ Fine(s \ {x}) BY <1>5, <2>1
      <4>2. x \in s \ {c} /\ c \in s \ {x} BY <2>1, <3>2
      <4>3. Sum(s \ {c}) = f[x] + Sum((s \ {c}) \ {x}) BY <4>1, <4>2
      <4>4. Sum(s \ {x}) = f[c] + Sum((s \ {x}) \ {c}) BY <4>1, <4>2
      <4>5. (s \ {c}) \ {x} = (s \ {x}) \ {c} OBVIOUS
      <4>6. Fine((s \ {c}) \ {x}) BY <1>5, <2>1
      <4>7. Sum((s \ {c}) \ {x}) \in Int /\ f[x] \in Int BY <1>3, <4>6
      <4> DEFINE rest == Sum((s \ {c}) \ {x})
      <4>8. rest = Sum((s \ {x}) \ {c}) /\ rest \in Int BY <4>5, <4>7
      <4>9. Sum(s \ {c}) = f[x] + rest /\ Sum(s \ {x}) = f[c] + rest BY <4>3, <4>4, <4>8
      <4> HIDE DEF rest
      <4> QED BY <2>2, <2>4, <4>7, <4>8, <4>9
    <3> QED BY <3>1, <3>2
  <2> QED BY <1>3, <2>5, <2>6
<1> QED BY <1>6, <1>7

\* Induction: a family of subsets that begins with the empty one and goes on by single
\* elements has the whole set.
LEMMA FiniteInduction ==
  ASSUME NEW S, IsFiniteSet(S), NEW F, {} \in F,
         \A T \in SUBSET S : \A x \in S \ T : T \in F => T \cup {x} \in F
  PROVE  S \in F
<1> DEFINE C == {T \in SUBSET S : T \notin F}
<1> SUFFICES ASSUME C # {} PROVE FALSE OBVIOUS
<1>1. C \in SUBSET SUBSET S OBVIOUS
<1> HIDE DEF C
<1>2. PICK T \in C : \A t \in C : t \subseteq T => t = T BY <1>1, LeastSubset
<1>3. T \in SUBSET S /\ T \notin F BY <1>2 DEF C
<1>4. T # {} BY <1>3
<1>5. PICK x \in T : TRUE BY <1>4
<1>6. T \ {x} \notin C BY <1>2, <1>5
<1>7. T \ {x} \in F BY <1>3, <1>6 DEF C
<1>8. (T \ {x}) \cup {x} = T BY <1>5
<1> QED BY <1>3, <1>5, <1>7, <1>8

LEMMA SumAdds ==
  ASSUME NEW f, NEW S, IsFiniteSet(S), NEW x, x \notin S, f[x] \in Int, \A y \in S : f[y] \in Int
  PROVE  /\ SumFunctionOnSet(f, S) \in Int
         /\ SumFunctionOnSet(f, S \cup {x}) = f[x] + SumFunctionOnSet(f, S)
<1>1. SumFunctionOnSet(f, S) \in Int BY SumLaws
<1> DEFINE T == S \cup {x}
<1>2. IsFiniteSet(T) /\ x \in T /\ (\A y \in T : f[y] \in Int) /\ T \ {x} = S BY FS_AddElement
<1> HIDE DEF T
<1>3. SumFunctionOnSet(f, T) = f[x] + SumFunctionOnSet(f, T \ {x}) BY <1>2, SumLaws
<1> QED BY <1>1, <1>2, <1>3 DEF T

LEMMA SumSame ==
  ASSUME NEW S, IsFiniteSet(S), NEW f, NEW g, \A x \in S : f[x] \in Int /\ g[x] = f[x]
  PROVE  SumFunctionOnSet(f, S) = SumFunctionOnSet(g, S)
<1> DEFINE F == {T \in SUBSET S : SumFunctionOnSet(f, T) = SumFunctionOnSet(g, T)}
<1>1. {} \in F BY SumEmpty
<1>2. ASSUME NEW T \in SUBSET S, NEW x \in S \ T, T \in F PROVE T \cup {x} \in F
  <2>1. IsFiniteSet(T) BY FS_Subset
  <2>2. SumFunctionOnSet(f, T \cup {x}) = f[x] + SumFunctionOnSet(f, T) BY <2>1, SumAdds
  <2>3. SumFunctionOnSet(g, T \cup {x}) = g[x] + SumFunctionOnSet(g, T) BY <2>1, SumAdds
  <2> QED BY <1>2, <2>2, <2>3
<1> HIDE DEF F
<1>3. S \in F BY <1>1, <1>2, FiniteInduction
<1> QED BY <1>3 DEF F

LEMMA SumZero ==
  ASSUME NEW S, IsFiniteSet(S), NEW f, \A x \in S : f[x] = 0
  PROVE  SumFunctionOnSet(f, S) = 0
<1> DEFINE F == {T \in SUBSET S : SumFunctionOnSet(f, T) = 0}
<1>1. {} \in F BY SumEmpty
<1>2. ASSUME NEW T \in SUBSET S, NEW x \in S \ T, T \in F PROVE T \cup {x} \in F
  <2>1. IsFiniteSet(T) BY FS_Subset
  <2>2. SumFunctionOnSet(f, T \cup {x}) = f[x] + SumFunctionOnSet(f, T) BY <2>1, SumAdds
  <2> QED BY <1>2, <2>2
<1> HIDE DEF F
<1>3. S \in F BY <1>1, <1>2, FiniteInduction
<1> QED BY <1>3 DEF F

LEMMA SumPlus ==
  ASSUME NEW S, IsFiniteSet(S), NEW f, NEW g, NEW h,
         \A x \in S : f[x] \in Int /\ g[x] \in Int /\ h[x] = f[x] + g[x]
  PROVE  SumFunctionOnSet(h, S) = SumFunctionOnSet(f, S) + SumFunctionOnSet(g, S)
<1> DEFINE F == {T \in SUBSET S :
                   SumFunctionOnSet(h, T) = SumFunctionOnSet(f, T) + SumFunctionOnSet(g, T)}
<1>1. {} \in F BY SumEmpty
<1>2. ASSUME NEW T \in SUBSET S, NEW x \in S \ T, T \in F PROVE T \cup {x} \in F
  <2>1. IsFiniteSet(T) /\ \A y \in S : h[y] \in Int BY FS_Subset
  <2>2. /\ SumFunctionOnSet(f, T) \in Int
        /\ SumFunctionOnSet(f, T \cup {x}) = f[x] + SumFunctionOnSet(f, T) BY <2>1, SumAdds
  <2>3. /\ SumFunctionOnSet(g, T) \in Int
        /\ SumFunctionOnSet(g, T \cup {x}) = g[x] + SumFunctionOnSet(g, T) BY <2>1, SumAdds
  <2>4. SumFunctionOnSet(h, T \cup {x}) = h[x] + SumFunctionOnSet(h, T) BY <2>1, SumAdds
  <2> QED BY <1>2, <2>2, <2>3, <2>4
<1> HIDE DEF F
<1>3. S \in F BY <1>1, <1>2, FiniteInduction
<1> QED BY <1>3 DEF F

LEMMA SumMinus ==
  ASSUME NEW S, IsFiniteSet(S), NEW f, NEW g, \A x \in S : f[x] \in Int /\ g[x] = -f[x]
  PROVE  SumFunctionOnSet(g, S) = -SumFunctionOnSet(f, S)
<1> DEFINE h == [x \in S |-> 0]
<1>1. SumFunctionOnSet(h, S) = 0 BY SumZero
<1>2. SumFunctionOnSet(h, S) = SumFunctionOnSet(f, S) + SumFunctionOnSet(g, S)
  <2>1. \A x \in S : f[x] \in Int /\ g[x] \in Int /\ h[x] = f[x] + g[x] OBVIOUS
  <2> HIDE DEF h
  <2> QED BY <2>1, SumPlus
<1>3. SumFunctionOnSet(f, S) \in Int /\ SumFunctionOnSet(g, S) \in Int BY SumLaws
<1> HIDE DEF h
<1> QED BY <1>1, <1>2, <1>3

LEMMA SumUnion ==
  ASSUME NEW S, IsFiniteSet(S), NEW R, IsFiniteSet(R), S \cap R = {}, NEW f,
         \A x \in S \cup R : f[x] \in Int
  PROVE  SumFunctionOnSet(f, S \cup R) = SumFunctionOnSet(f, S) + SumFunctionOnSet(f, R)
<1> DEFINE F == {T \in SUBSET S :
             SumFunctionOnSet(f, T \cup R) = SumFunctionOnSet(f, T) + SumFunctionOnSet(f, R)}
<1>0. SumFunctionOnSet(f, R) \in Int BY SumLaws
<1>1. {} \in F
  <2>1. {} \cup R = R OBVIOUS
  <2> QED BY <1>0, <2>1, SumEmpty
<1>2. ASSUME NEW T \in SUBSET S, NEW x \in S \ T, T \in F PROVE T \cup {x} \in F
  <2>1. IsFiniteSet(T) /\ IsFiniteSet(T \cup R) BY FS_Subset, FS_Union
  <2>2. /\ SumFunctionOnSet(f, T) \in Int
        /\ SumFunctionOnSet(f, T \cup {x}) = f[x] + SumFunctionOnSet(f, T) BY <2>1, SumAdds
  <2>3. x \notin T \cup R OBVIOUS
  <2>4. SumFunctionOnSet(f, (T \cup R) \cup {x}) = f[x] + SumFunctionOnSet(f, T \cup R)
    BY <2>1, <2>3, SumAdds
  <2>5. (T \cup R) \cup {x} = (T \cup {x}) \cup R OBVIOUS
  <2>6. SumFunctionOnSet(f, (T \cup {x}) \cup R) = f[x] + SumFunctionOnSet(f, T \cup R)
    BY <2>4, <2>5
  <2>7. SumFunctionOnSet(f, T \cup R) = SumFunctionOnSet(f, T) + SumFunctionOnSet(f, R)
    BY <1>2
  <2>8. f[x] \in Int OBVIOUS
  <2>9. SumFunctionOnSet(f, (T \cup {x}) \cup R) =
          SumFunctionOnSet(f, T \cup {x}) + SumFunctionOnSet(f, R)
    BY <1>0, <2>2, <2>6, <2>7, <2>8
  <2> QED BY <2>9
<1> HIDE DEF F
<1>3. S \in F BY <1>1, <1>2, FiniteInduction
<1> QED BY <1>3 DEF F

\* What is zero may be left out.
LEMMA SumWithin ==
  ASSUME NEW S, IsFiniteSet(S), NEW T \in SUBSET S, NEW f, \A x \in T : f[x] \in Int,
         \A x \in S \ T : f[x] = 0
  PROVE  SumFunctionOnSet(f, S) = SumFunctionOnSet(f, T)
<1>1. IsFiniteSet(T) /\ IsFiniteSet(S \ T) BY FS_Subset, FS_Difference
<1>2. SumFunctionOnSet(f, S \ T) = 0 BY <1>1, SumZero
<1>3. SumFunctionOnSet(f, T) \in Int BY <1>1, SumLaws
<1>4. T \cup (S \ T) = S /\ T \cap (S \ T) = {} OBVIOUS
<1>5. \A x \in T \cup (S \ T) : f[x] \in Int OBVIOUS
<1>6. SumFunctionOnSet(f, T \cup (S \ T)) = SumFunctionOnSet(f, T) + SumFunctionOnSet(f, S \ T)
  <2> DEFINE R == S \ T
  <2>1. IsFiniteSet(R) /\ T \cap R = {} /\ \A x \in T \cup R : f[x] \in Int BY <1>1, <1>4, <1>5
  <2> HIDE DEF R
  <2>2. SumFunctionOnSet(f, T \cup R) = SumFunctionOnSet(f, T) + SumFunctionOnSet(f, R)
    BY <1>1, <2>1, SumUnion
  <2> QED BY <2>2 DEF R
<1>7. SumFunctionOnSet(f, S) = SumFunctionOnSet(f, T \cup (S \ T)) BY <1>4
<1> QED BY <1>2, <1>3, <1>6, <1>7

LEMMA SumBetween ==
  ASSUME NEW S, IsFiniteSet(S), NEW f, NEW g, \A x \in S : f[x] \in Int /\ g[x] \in Int /\ f[x] <= g[x]
  PROVE  SumFunctionOnSet(f, S) <= SumFunctionOnSet(g, S)
<1> DEFINE F == {T \in SUBSET S : SumFunctionOnSet(f, T) <= SumFunctionOnSet(g, T)}
<1>1. {} \in F BY SumEmpty
<1>2. ASSUME NEW T \in SUBSET S, NEW x \in S \ T, T \in F PROVE T \cup {x} \in F
  <2>1. IsFiniteSet(T) BY FS_Subset
  <2>2. /\ SumFunctionOnSet(f, T) \in Int
        /\ SumFunctionOnSet(f, T \cup {x}) = f[x] + SumFunctionOnSet(f, T) BY <2>1, SumAdds
  <2>3. /\ SumFunctionOnSet(g, T) \in Int
        /\ SumFunctionOnSet(g, T \cup {x}) = g[x] + SumFunctionOnSet(g, T) BY <2>1, SumAdds
  <2>4. f[x] \in Int /\ g[x] \in Int /\ f[x] <= g[x] OBVIOUS
  <2>5. SumFunctionOnSet(f, T) <= SumFunctionOnSet(g, T) BY <1>2
  <2>6. SumFunctionOnSet(f, T \cup {x}) <= SumFunctionOnSet(g, T \cup {x})
    BY <2>2, <2>3, <2>4, <2>5
  <2> QED BY <2>6
<1> HIDE DEF F
<1>3. S \in F BY <1>1, <1>2, FiniteInduction
<1> QED BY <1>3 DEF F

\* Terms that change their sign take twice their sum away.
LEMMA SumFlip ==
  ASSUME NEW S, IsFiniteSet(S), NEW T \in SUBSET S, NEW f, NEW g, \A x \in S : f[x] \in Int,
         \A x \in T : g[x] = -f[x], \A x \in S \ T : g[x] = f[x]
  PROVE  /\ SumFunctionOnSet(f, S) \in Int /\ SumFunctionOnSet(f, T) \in Int
         /\ SumFunctionOnSet(g, S) = SumFunctionOnSet(f, S) - 2 * SumFunctionOnSet(f, T)
<1> DEFINE R == S \ T
<1>1. IsFiniteSet(T) /\ IsFiniteSet(R) /\ T \cap R = {} /\ T \cup R = S BY FS_Subset
<1>2. \A x \in T : f[x] \in Int /\ g[x] = -f[x] /\ g[x] \in Int OBVIOUS
<1>3. \A x \in R : f[x] \in Int /\ g[x] = f[x] OBVIOUS
<1> HIDE DEF R
<1>4. SumFunctionOnSet(g, T) = -SumFunctionOnSet(f, T) BY <1>1, <1>2, SumMinus
<1>5. SumFunctionOnSet(f, R) = SumFunctionOnSet(g, R) BY <1>1, <1>3, SumSame
<1>6. SumFunctionOnSet(f, T \cup R) = SumFunctionOnSet(f, T) + SumFunctionOnSet(f, R)
  BY <1>1, <1>2, <1>3, SumUnion
<1>7. SumFunctionOnSet(g, T \cup R) = SumFunctionOnSet(g, T) + SumFunctionOnSet(g, R)
  BY <1>1, <1>2, <1>3, SumUnion
<1>8. SumFunctionOnSet(f, T) \in Int /\ SumFunctionOnSet(f, R) \in Int BY <1>1, <1>2, <1>3, SumLaws
<1>9. /\ SumFunctionOnSet(f, S) = SumFunctionOnSet(f, T) + SumFunctionOnSet(f, R)
      /\ SumFunctionOnSet(g, S) = -SumFunctionOnSet(f, T) + SumFunctionOnSet(f, R)
  BY <1>1, <1>4, <1>5, <1>6, <1>7
<1>10. /\ SumFunctionOnSet(f, S) \in Int
       /\ SumFunctionOnSet(g, S) = SumFunctionOnSet(f, S) - 2 * SumFunctionOnSet(f, T)
  BY <1>8, <1>9
<1> QED BY <1>8, <1>10

\* Rows and columns of a table may be added in either order.
LEMMA SumSwap ==
  ASSUME NEW S, IsFiniteSet(S), NEW R, IsFiniteSet(R), NEW c,
         \A x \in S : \A y \in R : c[x][y] \in Int
  PROVE  SumFunctionOnSet([x \in S |-> SumFunctionOnSet(c[x], R)], S) =
         SumFunctionOnSet([y \in R |-> SumFunctionOnSet([x \in S |-> c[x][y]], S)], R)
<1> DEFINE row == [x \in S |-> SumFunctionOnSet(c[x], R)]
           column(T) == [y \in R |-> SumFunctionOnSet([x \in S |-> c[x][y]], T)]
           F == {T \in SUBSET S : SumFunctionOnSet(row, T) = SumFunctionOnSet(column(T), R)}
<1>1. {} \in F
  <2> DEFINE z == column({})
  <2>1. \A y \in R : z[y] = 0 BY SumEmpty
  <2> HIDE DEF z
  <2>2. SumFunctionOnSet(z, R) = 0 BY <2>1, SumZero
  <2>3. SumFunctionOnSet(row, {}) = 0
    <3> HIDE DEF row
    <3> QED BY SumEmpty
  <2>4. SumFunctionOnSet(row, {}) = SumFunctionOnSet(column({}), R) BY <2>2, <2>3 DEF z
  <2> HIDE DEF row, column
  <2> QED BY <2>4
<1>2. ASSUME NEW T \in SUBSET S, NEW x \in S \ T, T \in F PROVE T \cup {x} \in F
  <2> DEFINE old == column(T)
             new == column(T \cup {x})
  <2>1. IsFiniteSet(T) BY FS_Subset
  <2>2. \A z \in S : row[z] = SumFunctionOnSet(c[z], R) /\ row[z] \in Int BY SumLaws
  <2>3. ASSUME NEW y \in R PROVE old[y] \in Int /\ new[y] = c[x][y] + old[y]
    <3> DEFINE f == [z \in S |-> c[z][y]]
    <3>1. \A z \in S : f[z] \in Int /\ f[z] = c[z][y] OBVIOUS
    <3>2. old[y] = SumFunctionOnSet(f, T) /\ new[y] = SumFunctionOnSet(f, T \cup {x}) OBVIOUS
    <3> HIDE DEF f, old, new
    <3>3. /\ SumFunctionOnSet(f, T) \in Int
          /\ SumFunctionOnSet(f, T \cup {x}) = f[x] + SumFunctionOnSet(f, T)
      BY <2>1, <3>1, SumAdds
    <3> QED BY <3>1, <3>2, <3>3
  <2>4. SumFunctionOnSet(row, T) = SumFunctionOnSet(old, R) BY <1>2
  <2> HIDE DEF row, old, new
  <2> DEFINE d == c[x]
  <2>5. \A y \in R : d[y] \in Int /\ old[y] \in Int /\ new[y] = d[y] + old[y] BY <2>3
  <2>6. row[x] = SumFunctionOnSet(d, R) BY <2>2
  <2> HIDE DEF d
  <2>7. SumFunctionOnSet(new, R) = SumFunctionOnSet(d, R) + SumFunctionOnSet(old, R)
    BY <2>5, SumPlus
  <2>8. SumFunctionOnSet(row, T \cup {x}) = row[x] + SumFunctionOnSet(row, T)
    BY <2>1, <2>2, SumAdds
  <2>9. SumFunctionOnSet(row, T \cup {x}) = SumFunctionOnSet(new, R) BY <2>4, <2>6, <2>7, <2>8
  <2> QED BY <2>9 DEF new, row
<1> HIDE DEF F
<1>3. S \in F BY <1>1, <1>2, FiniteInduction
<1> QED BY <1>3 DEF F

LEMMA SumSingle == ASSUME NEW f, NEW x, f[x] \in Int PROVE SumFunctionOnSet(f, {x}) = f[x]
<1>1. IsFiniteSet({}) BY FS_EmptySet
<1>2. SumFunctionOnSet(f, {} \cup {x}) = f[x] + SumFunctionOnSet(f, {}) BY <1>1, SumAdds
<1>3. {} \cup {x} = {x} OBVIOUS
<1> QED BY <1>2, <1>3, SumEmpty

LEMMA SumFunctionIs ==
  ASSUME NEW S, NEW f, DOMAIN f = S
  PROVE  SumFunction(f) = SumFunctionOnSet(f, S)
BY DEF SumFunction

\* A sum of terms that are not negative is not negative.
LEMMA SumNatural ==
  ASSUME NEW S, IsFiniteSet(S), NEW f, \A x \in S : f[x] \in Nat
  PROVE  SumFunctionOnSet(f, S) \in Nat
<1> DEFINE z == [x \in S |-> 0]
<1>1. SumFunctionOnSet(z, S) = 0 BY SumZero
<1>2. \A x \in S : z[x] \in Int /\ f[x] \in Int /\ z[x] <= f[x] OBVIOUS
<1> HIDE DEF z
<1>3. SumFunctionOnSet(z, S) <= SumFunctionOnSet(f, S) BY <1>2, SumBetween
<1>4. SumFunctionOnSet(f, S) \in Int BY <1>2, SumLaws
<1> QED BY <1>1, <1>3, <1>4

\* A common factor.
LEMMA SumTimes ==
  ASSUME NEW S, IsFiniteSet(S), NEW c \in Int, NEW f, NEW g,
         \A x \in S : f[x] \in Int /\ g[x] = c * f[x]
  PROVE  SumFunctionOnSet(g, S) = c * SumFunctionOnSet(f, S)
<1> DEFINE F == {T \in SUBSET S : SumFunctionOnSet(g, T) = c * SumFunctionOnSet(f, T)}
<1>1. {} \in F BY SumEmpty
<1>2. ASSUME NEW T \in SUBSET S, NEW x \in S \ T, T \in F PROVE T \cup {x} \in F
  <2>1. IsFiniteSet(T) BY FS_Subset
  <2>2. f[x] \in Int /\ g[x] = c * f[x] /\ g[x] \in Int OBVIOUS
  <2>3. \A y \in T : f[y] \in Int /\ g[y] \in Int OBVIOUS
  <2>4. /\ SumFunctionOnSet(f, T) \in Int
        /\ SumFunctionOnSet(f, T \cup {x}) = f[x] + SumFunctionOnSet(f, T)
    BY <2>1, <2>2, <2>3, SumAdds
  <2>5. SumFunctionOnSet(g, T \cup {x}) = g[x] + SumFunctionOnSet(g, T)
    BY <2>1, <2>2, <2>3, SumAdds
  <2>6. \A a, b \in Int : c * (a + b) = c * a + c * b OBVIOUS
  <2>7. c * (f[x] + SumFunctionOnSet(f, T)) = c * f[x] + c * SumFunctionOnSet(f, T)
    BY <2>2, <2>4, <2>6
  <2> QED BY <1>2, <2>2, <2>4, <2>5, <2>7
<1> HIDE DEF F
<1>3. S \in F BY <1>1, <1>2, FiniteInduction
<1> QED BY <1>3 DEF F

\* Terms may be added under other names.
LEMMA SumReindex ==
  ASSUME NEW S, IsFiniteSet(S), NEW pick, \A x, y \in S : x # y => pick[x] # pick[y],
         NEW f, NEW g, \A x \in S : g[pick[x]] \in Int /\ f[x] = g[pick[x]]
  PROVE  SumFunctionOnSet(f, S) = SumFunctionOnSet(g, {pick[x] : x \in S})
<1> DEFINE Image(T) == {pick[x] : x \in T}
           F == {T \in SUBSET S : /\ IsFiniteSet(Image(T))
                                  /\ SumFunctionOnSet(f, T) = SumFunctionOnSet(g, Image(T))}
<1>1. {} \in F
  <2>1. Image({}) = {} OBVIOUS
  <2> QED BY <2>1, SumEmpty, FS_EmptySet
<1>2. ASSUME NEW T \in SUBSET S, NEW x \in S \ T, T \in F PROVE T \cup {x} \in F
  <2>1. IsFiniteSet(T) BY FS_Subset
  <2>2. Image(T \cup {x}) = Image(T) \cup {pick[x]} OBVIOUS
  <2>3. IsFiniteSet(Image(T)) /\ SumFunctionOnSet(f, T) = SumFunctionOnSet(g, Image(T)) BY <1>2
  <2>4. pick[x] \notin Image(T) OBVIOUS
  <2>5. \A y \in Image(T) : g[y] \in Int OBVIOUS
  <2>6. f[x] \in Int /\ f[x] = g[pick[x]] /\ \A y \in T : f[y] \in Int OBVIOUS
  <2> HIDE DEF Image
  <2>7. SumFunctionOnSet(f, T \cup {x}) = f[x] + SumFunctionOnSet(f, T)
    BY <2>1, <2>6, SumAdds
  <2>8. SumFunctionOnSet(g, Image(T) \cup {pick[x]})
          = g[pick[x]] + SumFunctionOnSet(g, Image(T))
    BY <2>3, <2>4, <2>5, <2>6, SumAdds
  <2>9. IsFiniteSet(Image(T) \cup {pick[x]}) BY <2>3, FS_AddElement
  <2> QED BY <2>2, <2>3, <2>6, <2>7, <2>8, <2>9
<1> HIDE DEF F
<1>3. S \in F BY <1>1, <1>2, FiniteInduction
<1> QED BY <1>3 DEF F

\* As many ones as elements.
LEMMA SumOnes ==
  ASSUME NEW S, IsFiniteSet(S), NEW f, \A x \in S : f[x] = 1
  PROVE  SumFunctionOnSet(f, S) = Cardinality(S)
<1> DEFINE F == {T \in SUBSET S : SumFunctionOnSet(f, T) = Cardinality(T)}
<1>1. {} \in F BY SumEmpty, FS_EmptySet
<1>2. ASSUME NEW T \in SUBSET S, NEW x \in S \ T, T \in F PROVE T \cup {x} \in F
  <2>1. IsFiniteSet(T) BY FS_Subset
  <2>2. SumFunctionOnSet(f, T \cup {x}) = f[x] + SumFunctionOnSet(f, T) BY <2>1, SumAdds
  <2>3. Cardinality(T \cup {x}) = Cardinality(T) + 1 BY <2>1, FS_AddElement
  <2>4. Cardinality(T) \in Nat BY <2>1, FS_CardinalityType
  <2> QED BY <1>2, <2>2, <2>3, <2>4
<1> HIDE DEF F
<1>3. S \in F BY <1>1, <1>2, FiniteInduction
<1> QED BY <1>3 DEF F

\* A sum of terms that are small is small.
LEMMA SumMagnitude ==
  ASSUME NEW S, IsFiniteSet(S), NEW f, NEW g,
         \A x \in S : f[x] \in Int /\ g[x] \in Int /\ f[x] <= g[x] /\ -g[x] <= f[x]
  PROVE  /\ SumFunctionOnSet(f, S) \in Int /\ SumFunctionOnSet(g, S) \in Int
         /\ SumFunctionOnSet(f, S) <= SumFunctionOnSet(g, S)
         /\ -SumFunctionOnSet(g, S) <= SumFunctionOnSet(f, S)
<1> DEFINE h == [x \in S |-> -g[x]]
<1>1. \A x \in S : h[x] = -g[x] /\ h[x] \in Int /\ h[x] <= f[x] OBVIOUS
<1> HIDE DEF h
<1>2. SumFunctionOnSet(f, S) \in Int BY SumLaws
<1>3. SumFunctionOnSet(g, S) \in Int BY SumLaws
<1>4. SumFunctionOnSet(f, S) <= SumFunctionOnSet(g, S) BY SumBetween
<1>5. SumFunctionOnSet(h, S) = -SumFunctionOnSet(g, S) BY <1>1, SumMinus
<1>6. SumFunctionOnSet(h, S) <= SumFunctionOnSet(f, S) BY <1>1, SumBetween
<1> QED BY <1>2, <1>3, <1>4, <1>5, <1>6
=============================================================================
