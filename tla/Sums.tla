--------------------------------- MODULE Sums ---------------------------------
(***************************************************************************)
(* What MapThenSumSet adds up, of any finite set: the lemmas the theorems  *)
(* about totals rest on.                                                   *)
(*                                                                         *)
(* MapThenSumSet takes the members in the order CHOOSE gives them.  It is  *)
(* unique (AddsAgree), whatever larger set it is a part of, and then any   *)
(* member may be taken first (SumTake), which is all the other lemmas      *)
(* need.  The induction is over subsets: a set of subsets of a finite set  *)
(* has a minimal one, because the strict subset ordering is well founded.  *)
(***************************************************************************)
EXTENDS Integers, FiniteSets, FiniteSetsExt, FiniteSetTheorems, TLAPS

\* Good holds every subset of a finite set when it holds each one whose proper
\* subsets it holds.
LEMMA SubsetsInduction ==
    ASSUME NEW X, IsFiniteSet(X), NEW Good,
           \A T \in SUBSET X : (\A U \in SUBSET T : U # T => U \in Good) => T \in Good
    PROVE  \A T \in SUBSET X : T \in Good
<1> DEFINE Bad == {T \in SUBSET X : T \notin Good}
           R == StrictSubsetOrdering(X)
<1> SUFFICES ASSUME Bad # {} PROVE FALSE
  OBVIOUS
<1>1. Bad \subseteq FiniteSubsetsOf(X)
  BY FS_Subset DEF FiniteSubsetsOf
<1>2. IsWellFoundedOn(R, FiniteSubsetsOf(X))
  BY FS_StrictSubsetOrderingWellFounded
<1>3. PICK T \in Bad : \A U \in Bad : <<U, T>> \notin R
  <2> HIDE DEF Bad, R
  <2> QED
    BY <1>1, <1>2, WFMin
<1>4. \A U \in SUBSET T : U # T => U \in Good
  <2> SUFFICES ASSUME NEW U \in SUBSET T, U # T, U \notin Good PROVE FALSE
    OBVIOUS
  <2>1. U \in Bad /\ <<U, T>> \in R
    BY DEF StrictSubsetOrdering
  <2> QED
    BY <2>1, <1>3
<1> QED
  BY <1>4

\* The member that CHOOSE takes.
Any(s) == CHOOSE x \in s : TRUE

LEMMA AnyIn == ASSUME NEW s, s # {} PROVE Any(s) \in s
BY DEF Any

\* it adds up the values v of every subset of S.
Adds(it, v, S) ==
    it = [s \in SUBSET S |-> IF s = {} THEN 0 ELSE v[Any(s)] + it[s \ {Any(s)}]]

\* Its values, set by set.
LEMMA AddsAt ==
    ASSUME NEW S, NEW v, NEW it, Adds(it, v, S)
    PROVE  /\ it[{}] = 0
           /\ \A s : s \subseteq S /\ s # {} => it[s] = v[Any(s)] + it[s \ {Any(s)}]
BY DEF Adds

\* Two of them agree where both are defined and the values are the same.
LEMMA AddsAgree ==
    ASSUME NEW S, NEW T, IsFiniteSet(S), T \subseteq S, NEW v, NEW w,
           NEW it, Adds(it, v, S), NEW jt, Adds(jt, w, T),
           \A x \in T : v[x] = w[x]
    PROVE  \A s \in SUBSET T : it[s] = jt[s]
<1> DEFINE Good == {s \in SUBSET T : it[s] = jt[s]}
<1>0. IsFiniteSet(T)
  BY FS_Subset
<1>1. ASSUME NEW s \in SUBSET T, \A u \in SUBSET s : u # s => u \in Good
      PROVE  s \in Good
  <2>1. CASE s = {}
    BY <2>1, AddsAt
  <2>2. CASE s # {}
    <3> DEFINE rest == s \ {Any(s)}
    <3>1. Any(s) \in s
      BY <2>2, AnyIn
    <3>2. rest \in Good
      BY <1>1, <3>1
    <3>3. it[s] = v[Any(s)] + it[rest] /\ jt[s] = w[Any(s)] + jt[rest]
      BY <2>2, AddsAt
    <3>4. it[rest] = jt[rest] /\ v[Any(s)] = w[Any(s)]
      BY <3>1, <3>2
    <3>5. it[s] = jt[s]
      BY <3>3, <3>4
    <3> QED
      BY <3>5
  <2> QED
    BY <2>1, <2>2
<1>2. \A s \in SUBSET T : s \in Good
  <2> HIDE DEF Good
  <2> QED
    BY <1>0, <1>1, SubsetsInduction
<1> QED
  BY <1>2

\* And there is one.
LEMMA AddsExists ==
    ASSUME NEW X, IsFiniteSet(X), NEW v
    PROVE  \E it : Adds(it, v, X)
<1> DEFINE Good == {S \in SUBSET X : \E it : Adds(it, v, S)}
<1>1. ASSUME NEW S \in SUBSET X, \A T \in SUBSET S : T # S => T \in Good
      PROVE  S \in Good
  <2> DEFINE part(T) == CHOOSE it : Adds(it, v, T)
             kt == [T \in SUBSET S |->
                      IF T = {} THEN 0
                      ELSE v[Any(T)] + part(T \ {Any(T)})[T \ {Any(T)}]]
  <2>1. ASSUME NEW T \in SUBSET S, T # S PROVE Adds(part(T), v, T)
    <3>1. \E it : Adds(it, v, T)
      BY <1>1, <2>1
    <3> QED
      BY <3>1, Zenon
  <2>2. ASSUME NEW T \in SUBSET S, T # S PROVE kt[T] = part(T)[T]
    <3>1. CASE T = {}
      BY <2>1, <2>2, <3>1, AddsAt
    <3>2. CASE T # {}
      <4> DEFINE U == T \ {Any(T)}
      <4>1. Any(T) \in T
        BY <3>2, AnyIn
      <4>2. U \in SUBSET S /\ U # S /\ U \subseteq T
        BY <4>1
      <4>3. IsFiniteSet(T)
        BY FS_Subset
      <4>4. part(T)[T] = v[Any(T)] + part(T)[U]
        <5> HIDE DEF part
        <5>1. Adds(part(T), v, T) /\ T \in SUBSET T
          BY <2>1, <2>2
        <5> QED
          BY <5>1, <3>2, AddsAt
      <4>5. part(T)[U] = part(U)[U]
        <5> HIDE DEF part, U
        <5>1. Adds(part(T), v, T) /\ Adds(part(U), v, U)
          BY <2>1, <2>2, <4>2
        <5> QED
          BY <5>1, <4>2, <4>3, AddsAgree
      <4>6. kt[T] = v[Any(T)] + part(U)[U]
        BY <3>2
      <4> QED
        BY <4>4, <4>5, <4>6
    <3> QED
      BY <3>1, <3>2
  <2>3. ASSUME NEW T \in SUBSET S, T # {} PROVE kt[T] = v[Any(T)] + kt[T \ {Any(T)}]
    <3> DEFINE U == T \ {Any(T)}
    <3>1. Any(T) \in T
      BY <2>3, AnyIn
    <3>2. U \in SUBSET S /\ U # S
      BY <3>1
    <3>3. kt[U] = part(U)[U]
      BY <3>2, <2>2
    <3>4. kt[T] = v[Any(T)] + part(U)[U]
      BY <2>3
    <3> QED
      BY <3>3, <3>4
  <2>4. \A T \in SUBSET S : kt[T] = IF T = {} THEN 0 ELSE v[Any(T)] + kt[T \ {Any(T)}]
    <3>1. kt[{}] = 0
      OBVIOUS
    <3> HIDE DEF kt
    <3> QED
      BY <3>1, <2>3
  <2>5. kt = [T \in SUBSET S |-> kt[T]]
    <3> DEFINE f(T) == IF T = {} THEN 0
                       ELSE v[Any(T)] + part(T \ {Any(T)})[T \ {Any(T)}]
    <3>1. kt = [T \in SUBSET S |-> f(T)]
      OBVIOUS
    <3> HIDE DEF f, kt
    <3> QED
      BY <3>1
  <2>6. Adds(kt, v, S)
    <3> HIDE DEF kt
    <3> QED
      BY <2>4, <2>5 DEF Adds
  <2> QED
    BY <2>6
<1>2. \A S \in SUBSET X : S \in Good
  <2> HIDE DEF Good
  <2> QED
    BY <1>1, SubsetsInduction
<1> QED
  BY <1>2

-----------------------------------------------------------------------------
\* The sum of the values v of the members of S.
SumOver(v, S) == MapThenSumSet(LAMBDA x : v[x], S)

\* The sum is what adds up the subsets gives S,
LEMMA SumIsAdds ==
    ASSUME NEW S, IsFiniteSet(S), NEW v
    PROVE  \E it : Adds(it, v, S) /\ SumOver(v, S) = it[S]
<1>1. \E it : Adds(it, v, S)
  BY AddsExists
<1> QED
  BY <1>1 DEF SumOver, MapThenSumSet, MapThenFoldSet, Adds, Any

\* and every part of S.
LEMMA SumAdds ==
    ASSUME NEW S, IsFiniteSet(S), NEW v, NEW it, Adds(it, v, S), NEW T, T \subseteq S
    PROVE  SumOver(v, T) = it[T]
<1>1. IsFiniteSet(T)
  BY FS_Subset
<1>2. PICK jt : Adds(jt, v, T) /\ SumOver(v, T) = jt[T]
  BY <1>1, SumIsAdds
<1>3. it[T] = jt[T]
  BY <1>2, AddsAgree
<1> QED
  BY <1>2, <1>3

\* Nothing adds up to nothing.
LEMMA SumEmpty ==
    ASSUME NEW v
    PROVE  SumOver(v, {}) = 0
BY SumIsAdds, AddsAt, FS_EmptySet

\* The sum of a set and of it without one element, which is the one CHOOSE takes.
LEMMA SumStep ==
    ASSUME NEW S, IsFiniteSet(S), S # {}, NEW v
    PROVE  /\ Any(S) \in S
           /\ SumOver(v, S) = v[Any(S)] + SumOver(v, S \ {Any(S)})
<1>1. PICK it : Adds(it, v, S) /\ SumOver(v, S) = it[S]
  BY SumIsAdds
<1>2. SumOver(v, S \ {Any(S)}) = it[S \ {Any(S)}]
  BY <1>1, SumAdds
<1>3. it[S] = v[Any(S)] + it[S \ {Any(S)}]
  BY <1>1, AddsAt
<1> QED
  BY <1>1, <1>2, <1>3, AnyIn

\* Equal values have equal sums.
LEMMA SumSame ==
    ASSUME NEW S, IsFiniteSet(S), NEW v, NEW w, \A x \in S : v[x] = w[x]
    PROVE  SumOver(v, S) = SumOver(w, S)
<1>1. PICK it : Adds(it, v, S) /\ SumOver(v, S) = it[S]
  BY SumIsAdds
<1>2. PICK jt : Adds(jt, w, S) /\ SumOver(w, S) = jt[S]
  BY SumIsAdds
<1>3. \A s \in SUBSET S : it[s] = jt[s]
  BY <1>1, <1>2, AddsAgree
<1> QED
  BY <1>1, <1>2, <1>3

\* The sum of integers is one.
LEMMA SumType ==
    ASSUME NEW S, IsFiniteSet(S), NEW v, \A x \in S : v[x] \in Int
    PROVE  SumOver(v, S) \in Int
<1> DEFINE Good == {T \in SUBSET S : SumOver(v, T) \in Int}
<1>1. ASSUME NEW T \in SUBSET S, \A U \in SUBSET T : U # T => U \in Good
      PROVE  T \in Good
  <2>1. CASE T = {}
    BY <2>1, SumEmpty
  <2>2. CASE T # {}
    <3> DEFINE rest == T \ {Any(T)}
    <3>1. Any(T) \in T /\ SumOver(v, T) = v[Any(T)] + SumOver(v, rest)
      BY <2>2, SumStep, FS_Subset
    <3>2. rest \in Good
      BY <3>1, <1>1
    <3>3. v[Any(T)] \in Int /\ SumOver(v, rest) \in Int
      BY <3>1, <3>2
    <3> QED
      BY <3>1, <3>3
  <2> QED
    BY <2>1, <2>2
<1>2. \A T \in SUBSET S : T \in Good
  <2> HIDE DEF Good
  <2> QED
    BY <1>1, SubsetsInduction
<1> QED
  BY <1>2

\* The sum of naturals is one.
LEMMA SumNat ==
    ASSUME NEW S, IsFiniteSet(S), NEW v, \A x \in S : v[x] \in Nat
    PROVE  SumOver(v, S) \in Nat
<1> DEFINE Good == {T \in SUBSET S : SumOver(v, T) \in Nat}
<1>1. ASSUME NEW T \in SUBSET S, \A U \in SUBSET T : U # T => U \in Good
      PROVE  T \in Good
  <2>1. CASE T = {}
    BY <2>1, SumEmpty
  <2>2. CASE T # {}
    <3> DEFINE rest == T \ {Any(T)}
    <3>1. Any(T) \in T /\ SumOver(v, T) = v[Any(T)] + SumOver(v, rest)
      BY <2>2, SumStep, FS_Subset
    <3>2. rest \in Good
      BY <3>1, <1>1
    <3>3. v[Any(T)] \in Nat /\ SumOver(v, rest) \in Nat
      BY <3>1, <3>2
    <3> QED
      BY <3>1, <3>3
  <2> QED
    BY <2>1, <2>2
<1>2. \A T \in SUBSET S : T \in Good
  <2> HIDE DEF Good
  <2> QED
    BY <1>1, SubsetsInduction
<1> QED
  BY <1>2

\* Any element may be taken out first.
LEMMA SumTake ==
    ASSUME NEW S, IsFiniteSet(S), NEW v, \A x \in S : v[x] \in Int, NEW e \in S
    PROVE  SumOver(v, S) = v[e] + SumOver(v, S \ {e})
<1> DEFINE Good == {T \in SUBSET S :
                      \A x \in T : SumOver(v, T) = v[x] + SumOver(v, T \ {x})}
<1>1. ASSUME NEW T \in SUBSET S, \A U \in SUBSET T : U # T => U \in Good, NEW x \in T
      PROVE  SumOver(v, T) = v[x] + SumOver(v, T \ {x})
  <2> DEFINE a == Any(T)
             rest == T \ {a}
  <2>1. a \in T /\ SumOver(v, T) = v[a] + SumOver(v, rest)
    BY SumStep, FS_Subset
  <2>2. CASE x = a
    BY <2>1, <2>2
  <2>3. CASE x # a
    <3>1. rest \in Good /\ x \in rest
      BY <1>1, <2>1, <2>3
    <3>2. SumOver(v, rest) = v[x] + SumOver(v, rest \ {x})
      BY <3>1
    <3>3. T \ {x} \in Good /\ a \in T \ {x}
      BY <1>1, <2>1, <2>3
    <3>4. SumOver(v, T \ {x}) = v[a] + SumOver(v, (T \ {x}) \ {a})
      BY <3>3
    <3> DEFINE n == SumOver(v, rest \ {x})
    <3>5. n = SumOver(v, (T \ {x}) \ {a})
      <4>1. rest \ {x} = (T \ {x}) \ {a}
        OBVIOUS
      <4> QED
        BY <4>1
    <3>6. v[a] \in Int /\ v[x] \in Int
      BY <2>1
    <3>7. n \in Int
      <4>1. rest \ {x} \in SUBSET S
        OBVIOUS
      <4>2. IsFiniteSet(rest \ {x}) /\ \A y \in rest \ {x} : v[y] \in Int
        BY <4>1, FS_Subset
      <4> HIDE DEF rest
      <4> QED
        BY <4>2, SumType
    <3>8. SumOver(v, T) = v[a] + (v[x] + n)
      BY <2>1, <3>2
    <3>9. SumOver(v, T \ {x}) = v[a] + n
      BY <3>4, <3>5
    <3> HIDE DEF rest, a, n
    <3> QED
      BY <3>6, <3>7, <3>8, <3>9
  <2> QED
    BY <2>2, <2>3
<1>2. ASSUME NEW T \in SUBSET S, \A U \in SUBSET T : U # T => U \in Good
      PROVE  T \in Good
  BY <1>1, <1>2
<1>3. \A T \in SUBSET S : T \in Good
  <2> HIDE DEF Good
  <2> QED
    BY <1>2, SubsetsInduction
<1> QED
  BY <1>3

\* A set with one member.
LEMMA SumOne ==
    ASSUME NEW v, NEW e, v[e] \in Int
    PROVE  SumOver(v, {e}) = v[e]
<1>1. IsFiniteSet({e})
  BY FS_Singleton
<1>2. SumOver(v, {e}) = v[e] + SumOver(v, {e} \ {e})
  BY <1>1, SumTake
<1>3. SumOver(v, {e} \ {e}) = 0
  BY SumEmpty
<1> QED
  BY <1>2, <1>3

\* Two parts without a common member.
LEMMA SumUnion ==
    ASSUME NEW S, NEW T, IsFiniteSet(S), IsFiniteSet(T), S \cap T = {},
           NEW v, \A x \in S \cup T : v[x] \in Int
    PROVE  SumOver(v, S \cup T) = SumOver(v, S) + SumOver(v, T)
<1> DEFINE Good == {U \in SUBSET T : SumOver(v, S \cup U) = SumOver(v, S) + SumOver(v, U)}
<1>0. SumOver(v, S) \in Int
  BY SumType
<1>1. ASSUME NEW U \in SUBSET T, \A W \in SUBSET U : W # U => W \in Good
      PROVE  U \in Good
  <2>0. IsFiniteSet(U) /\ IsFiniteSet(S \cup U)
    BY FS_Subset, FS_Union
  <2>1. CASE U = {}
    <3>1. SumOver(v, U) = 0 /\ S \cup U = S
      BY <2>1, SumEmpty
    <3>2. SumOver(v, S \cup U) = SumOver(v, S)
      BY <3>1
    <3> QED
      BY <1>0, <3>1, <3>2
  <2>2. CASE U # {}
    <3> PICK e \in U : TRUE
      BY <2>2
    <3> DEFINE rest == U \ {e}
               n == SumOver(v, rest)
    <3>1. SumOver(v, U) = v[e] + n
      BY <2>0, SumTake
    <3>2. SumOver(v, S \cup U) = v[e] + SumOver(v, (S \cup U) \ {e})
      BY <2>0, SumTake
    <3>3. (S \cup U) \ {e} = S \cup rest
      OBVIOUS
    <3>4. rest \in Good
      BY <1>1
    <3>5. SumOver(v, S \cup rest) = SumOver(v, S) + n
      BY <3>4
    <3>6. n \in Int /\ v[e] \in Int
      <4>1. rest \in SUBSET T
        OBVIOUS
      <4>2. IsFiniteSet(rest) /\ \A x \in rest : v[x] \in Int
        BY <4>1, FS_Subset
      <4> HIDE DEF rest
      <4> QED
        BY <4>2, SumType
    <3>7. SumOver(v, S \cup U) = v[e] + (SumOver(v, S) + n)
      BY <3>2, <3>3, <3>5
    <3>8. SumOver(v, S \cup U) = SumOver(v, S) + SumOver(v, U)
      <4> HIDE DEF rest, n
      <4> QED
        BY <1>0, <3>1, <3>6, <3>7
    <3> QED
      BY <3>8
  <2> QED
    BY <2>1, <2>2
<1>2. \A U \in SUBSET T : U \in Good
  <2> HIDE DEF Good
  <2> QED
    BY <1>1, SubsetsInduction
<1> QED
  BY <1>2

\* The values with their sign changed.
LEMMA SumNegated ==
    ASSUME NEW S, IsFiniteSet(S), NEW v, NEW w,
           \A x \in S : v[x] \in Int /\ w[x] = -v[x]
    PROVE  SumOver(w, S) = -SumOver(v, S)
<1> DEFINE Good == {T \in SUBSET S : SumOver(w, T) = -SumOver(v, T)}
<1>1. ASSUME NEW T \in SUBSET S, \A U \in SUBSET T : U # T => U \in Good
      PROVE  T \in Good
  <2>1. CASE T = {}
    BY <2>1, SumEmpty
  <2>2. CASE T # {}
    <3> DEFINE a == Any(T)
               rest == T \ {a}
               m == SumOver(v, rest)
               n == SumOver(w, rest)
    <3>1. a \in T /\ SumOver(v, T) = v[a] + m /\ SumOver(w, T) = w[a] + n
      BY <2>2, SumStep, FS_Subset
    <3>2. n = -m
      BY <3>1, <1>1
    <3>3. m \in Int /\ v[a] \in Int /\ w[a] = -v[a]
      <4>1. rest \in SUBSET S
        OBVIOUS
      <4>2. IsFiniteSet(rest) /\ \A x \in rest : v[x] \in Int
        BY <4>1, FS_Subset
      <4>3. m \in Int
        <5> HIDE DEF rest
        <5> QED
          BY <4>2, SumType
      <4> QED
        BY <3>1, <4>3
    <3>4. SumOver(w, T) = -SumOver(v, T)
      <4> HIDE DEF a, rest, m, n
      <4> QED
        BY <3>1, <3>2, <3>3
    <3> QED
      BY <3>4
  <2> QED
    BY <2>1, <2>2
<1>2. \A T \in SUBSET S : T \in Good
  <2> HIDE DEF Good
  <2> QED
    BY <1>1, SubsetsInduction
<1> QED
  BY <1>2

\* The image of a finite set is finite.
LEMMA ImageFinite ==
    ASSUME NEW S, IsFiniteSet(S), NEW f
    PROVE  IsFiniteSet({f[x] : x \in S})
<1> DEFINE T == {f[x] : x \in S}
           g == [x \in S |-> f[x]]
<1>1. g \in Surjection(S, T)
  BY DEF Surjection
<1> HIDE DEF T, g
<1>2. IsFiniteSet(T)
  BY <1>1, FS_Surjection
<1> QED
  BY <1>2 DEF T

\* The values of the images under an injection.
LEMMA SumImage ==
    ASSUME NEW S, IsFiniteSet(S), NEW f, \A x, y \in S : f[x] = f[y] => x = y,
           NEW v, NEW w, \A x \in S : v[f[x]] \in Int /\ w[x] = v[f[x]]
    PROVE  SumOver(v, {f[x] : x \in S}) = SumOver(w, S)
<1> DEFINE Img(T) == {f[x] : x \in T}
           Good == {T \in SUBSET S : SumOver(v, Img(T)) = SumOver(w, T)}
<1>1. ASSUME NEW T \in SUBSET S, \A U \in SUBSET T : U # T => U \in Good
      PROVE  T \in Good
  <2>1. CASE T = {}
    <3>1. Img(T) = {}
      BY <2>1
    <3>2. SumOver(v, Img(T)) = 0 /\ SumOver(w, T) = 0
      <4> HIDE DEF Img
      <4> QED
        BY <2>1, <3>1, SumEmpty
    <3> QED
      BY <3>2
  <2>2. CASE T # {}
    <3> PICK e \in T : TRUE
      BY <2>2
    <3> DEFINE rest == T \ {e}
    <3>1. IsFiniteSet(T)
      BY FS_Subset
    <3>2. SumOver(w, T) = w[e] + SumOver(w, rest)
      BY <3>1, SumTake
    <3>3. IsFiniteSet(Img(T))
      BY <3>1, ImageFinite
    <3>4. SumOver(v, Img(T)) = v[f[e]] + SumOver(v, Img(T) \ {f[e]})
      <4>1. f[e] \in Img(T) /\ \A y \in Img(T) : v[y] \in Int
        OBVIOUS
      <4> HIDE DEF Img
      <4> QED
        BY <3>3, <4>1, SumTake
    <3>5. Img(T) \ {f[e]} = Img(rest)
      OBVIOUS
    <3>6. rest \in Good
      BY <1>1
    <3>7. SumOver(v, Img(rest)) = SumOver(w, rest) /\ v[f[e]] = w[e]
      BY <3>6
    <3>8. SumOver(v, Img(T)) = SumOver(w, T)
      <4> HIDE DEF Img, rest
      <4> QED
        BY <3>2, <3>4, <3>5, <3>7
    <3> QED
      BY <3>8
  <2> QED
    BY <2>1, <2>2
<1>2. \A T \in SUBSET S : T \in Good
  <2> HIDE DEF Good
  <2> QED
    BY <1>1, SubsetsInduction
<1> QED
  BY <1>2

\* The sums of disjoint parts of S, each with a name in C.
LEMMA SumParts ==
    ASSUME NEW S, IsFiniteSet(S), NEW C, IsFiniteSet(C),
           NEW v, \A x \in S : v[x] \in Int,
           NEW part, \A c \in C : part[c] \subseteq S,
           \A c, d \in C : c # d => part[c] \cap part[d] = {},
           NEW total, \A c \in C : total[c] = SumOver(v, part[c])
    PROVE  SumOver(total, C) = SumOver(v, UNION {part[c] : c \in C})
<1> DEFINE In(D) == UNION {part[c] : c \in D}
           Good == {D \in SUBSET C : SumOver(total, D) = SumOver(v, In(D))}
<1>0. \A T \in SUBSET S : IsFiniteSet(T) /\ \A x \in T : v[x] \in Int
  BY FS_Subset
<1>1. ASSUME NEW D \in SUBSET C, \A U \in SUBSET D : U # D => U \in Good
      PROVE  D \in Good
  <2>1. CASE D = {}
    <3>1. In(D) = {}
      BY <2>1
    <3>2. SumOver(v, In(D)) = 0 /\ SumOver(total, D) = 0
      <4> HIDE DEF In
      <4> QED
        BY <2>1, <3>1, SumEmpty
    <3> QED
      BY <3>2
  <2>2. CASE D # {}
    <3> DEFINE c == Any(D)
               rest == D \ {c}
    <3>1. c \in D /\ SumOver(total, D) = total[c] + SumOver(total, rest)
      BY <2>2, SumStep, FS_Subset
    <3>2. In(D) = part[c] \cup In(rest) /\ part[c] \cap In(rest) = {}
      BY <3>1
    <3>3. SumOver(v, part[c] \cup In(rest)) = SumOver(v, part[c]) + SumOver(v, In(rest))
      <4>1. part[c] \in SUBSET S /\ In(rest) \in SUBSET S
        BY <3>1
      <4>2. IsFiniteSet(part[c]) /\ \A x \in part[c] : v[x] \in Int
        BY <1>0, <4>1
      <4>3. IsFiniteSet(In(rest)) /\ \A x \in In(rest) : v[x] \in Int
        <5> HIDE DEF In
        <5> QED
          BY <1>0, <4>1
      <4> HIDE DEF In, c, rest
      <4> QED
        BY <3>2, <4>2, <4>3, SumUnion
    <3>4. rest \in Good
      BY <1>1, <3>1
    <3>5. SumOver(total, rest) = SumOver(v, In(rest))
      BY <3>4
    <3>6. total[c] = SumOver(v, part[c])
      BY <3>1
    <3>7. SumOver(total, D) = SumOver(v, In(D))
      <4> HIDE DEF In, rest, c
      <4> QED
        BY <3>1, <3>2, <3>3, <3>5, <3>6
    <3> QED
      BY <3>7
  <2> QED
    BY <2>1, <2>2
<1>2. \A D \in SUBSET C : D \in Good
  <2> HIDE DEF Good
  <2> QED
    BY <1>1, SubsetsInduction
<1> QED
  BY <1>2

\* Values that are nil add up to nil.
LEMMA SumZero ==
    ASSUME NEW S, IsFiniteSet(S), NEW v, \A x \in S : v[x] = 0
    PROVE  SumOver(v, S) = 0
<1> DEFINE w == [x \in S |-> -v[x]]
<1>1. \A x \in S : v[x] \in Int /\ w[x] = -v[x] /\ w[x] = v[x]
  OBVIOUS
<1>2. SumOver(w, S) = -SumOver(v, S)
  <2> HIDE DEF w
  <2> QED
    BY <1>1, SumNegated
<1>3. SumOver(w, S) = SumOver(v, S)
  <2> HIDE DEF w
  <2> QED
    BY <1>1, SumSame
<1>4. SumOver(v, S) \in Int
  BY <1>1, SumType
<1> HIDE DEF w
<1> QED
  BY <1>2, <1>3, <1>4

\* f takes S to T, one to one, and the values w of S to the values v of T.
Carries(f, S, w, T, v) ==
    /\ \A x, y \in S : f[x] = f[y] => x = y
    /\ \A x \in S : f[x] \in T
    /\ \A y \in T : \E x \in S : y = f[x]
    /\ \A x \in S : v[f[x]] \in Int /\ w[x] = v[f[x]]

\* The sums are then the same.
LEMMA SumCarried ==
    ASSUME NEW S, IsFiniteSet(S), NEW f, NEW w, NEW T, NEW v, Carries(f, S, w, T, v)
    PROVE  SumOver(v, T) = SumOver(w, S)
<1>1. SumOver(v, {f[x] : x \in S}) = SumOver(w, S)
  BY SumImage DEF Carries
<1>2. T = {f[x] : x \in S}
  BY DEF Carries
<1> QED
  BY <1>1, <1>2
=============================================================================
