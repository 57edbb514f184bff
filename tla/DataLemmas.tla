----------------------------- MODULE DataLemmas -----------------------------
(***************************************************************************)
(* Facts about numbers, sets and sums that the proofs rest on, apart from  *)
(* any state.  The theorems of the library that state induction take an    *)
(* operator, which the provers cannot instantiate; SubsetInduction states  *)
(* it for a set instead, by the minimal element of its complement.         *)
(***************************************************************************)
EXTENDS Integers, SequencesExt, FiniteSetTheorems, SequenceTheorems, TLAPS

-----------------------------------------------------------------------------
(***************************************************************************)
(* The bounds on the overspend: n tokens used, at most m tokens for each   *)
(* of i promises.                                                          *)
(***************************************************************************)

\* A product grows with its factor.
LEMMA TimesMonotone ==
  ASSUME NEW m \in Nat, NEW i \in Nat, NEW j \in Nat, i <= j
  PROVE  m * i <= m * j
OBVIOUS

\* One more promise is m more tokens.
LEMMA TimesSuccessor ==
  ASSUME NEW m \in Int, NEW i \in Int
  PROVE  m * (i + 1) = m * i + m
OBVIOUS

\* Products stay integers, and naturals give naturals.
LEMMA TimesType ==
  ASSUME NEW m \in Nat, NEW i \in Nat
  PROVE  m * i \in Nat
OBVIOUS

\* Keeping what is used and dropping promises keeps the sum.
LEMMA FewerPromises ==
  ASSUME NEW n \in Int, NEW m \in Nat, NEW i \in Nat, NEW j \in Nat, i <= j
  PROVE  n + m * i <= n + m * j
<1>1. m * i <= m * j /\ m * i \in Int /\ m * j \in Int
  BY TimesMonotone, TimesType
<1> QED
  BY <1>1

\* Turning a promise into at most m tokens keeps the sum.
LEMMA PromiseKept ==
  ASSUME NEW n \in Int, NEW c \in Int, NEW m \in Nat, NEW i \in Nat, c <= m
  PROVE  n + c + m * i <= n + m * (i + 1)
<1>1. m * (i + 1) = m * i + m /\ m * i \in Int
  BY TimesSuccessor, TimesType
<1> QED
  BY <1>1

\* Below a quota q, with i promises of at most s, the sum is below the ceiling.
LEMMA BelowCeiling ==
  ASSUME NEW n \in Int, NEW q \in Int, NEW m \in Nat, NEW i \in Nat, NEW s \in Nat,
         q - n > 0, i <= s
  PROVE  n + m * i <= q - 1 + m * s
<1>1. m * i <= m * s /\ m * i \in Int /\ m * s \in Int
  BY TimesMonotone, TimesType
<1> QED
  BY <1>1
-----------------------------------------------------------------------------
\* Induction over the subsets of a finite set, for a property given as a set.
LEMMA SubsetInduction ==
  ASSUME NEW S, IsFiniteSet(S), NEW T,
         \A s \in SUBSET S : (\A u \in SUBSET s : u # s => u \in T) => s \in T
  PROVE  \A s \in SUBSET S : s \in T
<1> DEFINE Rest == (SUBSET S) \ T
<1> SUFFICES ASSUME Rest # {} PROVE FALSE
  OBVIOUS
<1>1. IsWellFoundedOn(StrictSubsetOrdering(S), FiniteSubsetsOf(S))
  BY FS_StrictSubsetOrderingWellFounded
<1>2. FiniteSubsetsOf(S) = SUBSET S
  BY FS_FiniteSubsetsOfFinite
<1>3. PICK s \in Rest : \A u \in Rest : <<u, s>> \notin StrictSubsetOrdering(S)
  <2>1. Rest \subseteq FiniteSubsetsOf(S) /\ Rest # {}
    BY <1>2
  <2> HIDE DEF Rest
  <2> QED
    BY <1>1, <2>1, WFMin
<1>4. \A u \in SUBSET s : u # s => u \in T
  BY <1>3 DEF StrictSubsetOrdering
<1> QED
  BY <1>3, <1>4

(***************************************************************************)
(* Sums of a function over a finite set.  SumFunctionOnSet is a recursive  *)
(* function over the subsets, which takes their elements in the order of   *)
(* some choice; that it is well-defined has to be shown first.             *)
(***************************************************************************)
Chosen(s) == CHOOSE x \in s : TRUE
SumBody(f, g, s) == IF s = {} THEN 0 ELSE f[Chosen(s)] + g[s \ {Chosen(s)}]
Solves(f, g, S) == g = [s \in SUBSET S |-> SumBody(f, g, s)]
SumFcn(f, S) == CHOOSE g : Solves(f, g, S)

\* The community modules' definition in these terms.
LEMMA SumIs ==
  ASSUME NEW f, NEW S
  PROVE  SumFunctionOnSet(f, S) = SumFcn(f, S)[S]
BY Zenon DEF SumFunctionOnSet, FoldFunctionOnSet, MapThenFoldSet, SumFcn, SumBody, Chosen,
             Solves

\* A set that is not empty has the chosen element.
LEMMA ChosenIn == ASSUME NEW s, s # {} PROVE Chosen(s) \in s
BY DEF Chosen

\* Two solutions of the recursion agree where both are defined.
LEMMA SolutionsAgree ==
  ASSUME NEW f, NEW S, IsFiniteSet(S), NEW V \in SUBSET S, NEW W \in SUBSET S,
         NEW g, NEW h, Solves(f, g, V), Solves(f, h, W)
  PROVE  \A s \in SUBSET (V \cap W) : g[s] = h[s]
<1> DEFINE X == V \cap W
           T == {s \in SUBSET X : g[s] = h[s]}
<1>1. IsFiniteSet(X)
  BY FS_Subset
<1>2. ASSUME NEW s \in SUBSET X, \A u \in SUBSET s : u # s => u \in T
      PROVE  s \in T
  <2>1. g[s] = SumBody(f, g, s) /\ h[s] = SumBody(f, h, s)
    BY Zenon DEF Solves
  <2>2. CASE s = {}
    BY <2>1, <2>2 DEF SumBody
  <2>3. CASE s # {}
    <3>1. Chosen(s) \in s
      BY <2>3, ChosenIn
    <3>2. s \ {Chosen(s)} \in T
      BY <1>2, <3>1
    <3> QED
      BY <2>1, <2>3, <3>2 DEF SumBody
  <2> QED
    BY <2>2, <2>3
<1> HIDE DEF T
<1>3. \A s \in SUBSET X : s \in T
  BY <1>1, <1>2, SubsetInduction
<1> QED
  BY <1>3 DEF T

\* The recursion has a solution: the values of the solutions for smaller sets.
LEMMA SumFcnSolves ==
  ASSUME NEW f, NEW S, IsFiniteSet(S)
  PROVE  Solves(f, SumFcn(f, S), S)
<1> DEFINE T == {s \in SUBSET S : Solves(f, SumFcn(f, s), s)}
<1>1. ASSUME NEW s \in SUBSET S, \A u \in SUBSET s : u # s => u \in T
      PROVE  s \in T
  <2> DEFINE val(u) == SumFcn(f, u)[u]
             g == [u \in SUBSET s |->
                     IF u = {} THEN 0 ELSE f[Chosen(u)] + val(u \ {Chosen(u)})]
  <2>1. \A u \in SUBSET s : u # s => g[u] = val(u)
    <3> SUFFICES ASSUME NEW u \in SUBSET s, u # s PROVE g[u] = val(u)
      OBVIOUS
    <3>1. Solves(f, SumFcn(f, u), u)
      BY <1>1
    <3>2. val(u) = SumBody(f, SumFcn(f, u), u)
      BY <3>1, Zenon DEF Solves
    <3>3. CASE u = {}
      BY <3>2, <3>3 DEF SumBody
    <3>4. CASE u # {}
      <4> DEFINE w == u \ {Chosen(u)}
      <4>1. Chosen(u) \in u
        BY <3>4, ChosenIn
      <4>2. w \in SUBSET s /\ w # s /\ w \in SUBSET u
        BY <4>1
      <4>3. Solves(f, SumFcn(f, w), w)
        BY <1>1, <4>2
      <4>4. SumFcn(f, u)[w] = SumFcn(f, w)[w]
        <5> HIDE DEF w
        <5>1. w \in SUBSET (u \cap w) /\ u \in SUBSET S /\ w \in SUBSET S
          BY <4>2
        <5> QED
          BY <3>1, <4>3, <5>1, SolutionsAgree
      <4>5. val(u) = f[Chosen(u)] + val(w)
        BY <3>2, <3>4, <4>4 DEF SumBody
      <4> QED
        BY <3>4, <4>5
    <3> QED
      BY <3>3, <3>4
  <2>2. ASSUME NEW u \in SUBSET s
        PROVE  g[u] = SumBody(f, g, u)
    <3>1. CASE u = {}
      BY <3>1 DEF SumBody
    <3>2. CASE u # {}
      <4>1. Chosen(u) \in u
        BY <3>2, ChosenIn
      <4>2. u \ {Chosen(u)} \in SUBSET s /\ u \ {Chosen(u)} # s
        BY <4>1
      <4>3. g[u \ {Chosen(u)}] = val(u \ {Chosen(u)})
        BY <2>1, <4>2
      <4> QED
        BY <3>2, <4>3 DEF SumBody
    <3> QED
      BY <3>1, <3>2
  <2>3. Solves(f, g, s)
    <3> HIDE DEF val
    <3>1. g = [u \in SUBSET s |-> g[u]]
      OBVIOUS
    <3> HIDE DEF g
    <3> QED
      BY <2>2, <3>1, Zenon DEF Solves
  <2> HIDE DEF g
  <2> QED
    BY <2>3, Zenon DEF SumFcn
<1> HIDE DEF T
<1>2. \A s \in SUBSET S : s \in T
  BY <1>1, SubsetInduction
<1> QED
  BY <1>2 DEF T

\* The recursion, as one expects it.
LEMMA SumStep ==
  ASSUME NEW f, NEW S, IsFiniteSet(S)
  PROVE  SumFunctionOnSet(f, S) =
           IF S = {} THEN 0
           ELSE f[Chosen(S)] + SumFunctionOnSet(f, S \ {Chosen(S)})
<1>1. Solves(f, SumFcn(f, S), S)
  BY SumFcnSolves
<1>2. SumFunctionOnSet(f, S) = SumBody(f, SumFcn(f, S), S)
  <2>1. SumFcn(f, S)[S] = SumBody(f, SumFcn(f, S), S)
    BY <1>1, Zenon DEF Solves
  <2> QED
    BY <2>1, SumIs
<1>3. CASE S = {}
  BY <1>2, <1>3 DEF SumBody
<1>4. CASE S # {}
  <2> DEFINE w == S \ {Chosen(S)}
  <2>1. IsFiniteSet(w)
    BY FS_Subset
  <2>2. Solves(f, SumFcn(f, w), w)
    BY <2>1, SumFcnSolves
  <2>3. SumFcn(f, S)[w] = SumFcn(f, w)[w]
    <3>1. w \in SUBSET (S \cap w) /\ S \in SUBSET S /\ w \in SUBSET S
      OBVIOUS
    <3> HIDE DEF w
    <3> QED
      BY <1>1, <2>2, <3>1, SolutionsAgree
  <2>4. SumFunctionOnSet(f, w) = SumFcn(f, w)[w]
    BY SumIs
  <2> QED
    BY <1>2, <1>4, <2>3, <2>4 DEF SumBody
<1> QED
  BY <1>3, <1>4

\* The sum over no indices.
LEMMA SumEmpty == ASSUME NEW f PROVE SumFunctionOnSet(f, {}) = 0
BY SumStep, FS_EmptySet

\* Any index may be taken out of a sum, and sums of integers are integers.
LEMMA SumAdd ==
  ASSUME NEW f, NEW S, IsFiniteSet(S), NEW x \in S, \A y \in S : f[y] \in Int
  PROVE  /\ SumFunctionOnSet(f, S \ {x}) \in Int
         /\ SumFunctionOnSet(f, S) = f[x] + SumFunctionOnSet(f, S \ {x})
<1> DEFINE Sum(s) == SumFunctionOnSet(f, s)
           T == {s \in SUBSET S : /\ Sum(s) \in Int
                                 /\ \A y \in s : Sum(s) = f[y] + Sum(s \ {y})}
<1>1. ASSUME NEW s \in SUBSET S, \A u \in SUBSET s : u # s => u \in T
      PROVE  s \in T
  <2> DEFINE c == Chosen(s)
  <2>1. Sum(s) = IF s = {} THEN 0 ELSE f[c] + Sum(s \ {c})
    <3>1. IsFiniteSet(s)
      BY FS_Subset
    <3> QED
      BY <3>1, SumStep
  <2>2. CASE s = {}
    BY <2>1, <2>2
  <2>3. CASE s # {}
    <3>1. c \in s
      BY <2>3, ChosenIn
    <3>2. s \ {c} \in T
      BY <1>1, <3>1
    <3> HIDE DEF c, Sum
    <3>3. Sum(s) \in Int /\ Sum(s) = f[c] + Sum(s \ {c}) /\ f[c] \in Int
      BY <2>1, <2>3, <3>1, <3>2
    <3>4. ASSUME NEW y \in s PROVE Sum(s) = f[y] + Sum(s \ {y})
      <4>1. CASE y = c
        BY <3>3, <4>1
      <4>2. CASE y # c
        <5>1. s \ {y} \in T
          BY <1>1
        <5>2. (s \ {y}) \ {c} = (s \ {c}) \ {y}
          OBVIOUS
        <5>3. Sum(s \ {c}) = f[y] + Sum((s \ {c}) \ {y})
          BY <3>2, <4>2
        <5>4. Sum(s \ {y}) = f[c] + Sum((s \ {c}) \ {y})
          BY <3>1, <4>2, <5>1, <5>2
        <5>5. (s \ {c}) \ {y} \in T
          BY <1>1, <3>1
        <5>6. f[y] \in Int /\ Sum((s \ {c}) \ {y}) \in Int
          BY <5>5
        <5> QED
          BY <3>3, <5>3, <5>4, <5>6
      <4> QED
        BY <4>1, <4>2
    <3> QED
      BY <3>3, <3>4
  <2> QED
    BY <2>2, <2>3
<1> HIDE DEF T
<1>2. \A s \in SUBSET S : s \in T
  BY <1>1, SubsetInduction
<1>3. S \in T /\ S \ {x} \in T
  BY <1>2
<1> QED
  BY <1>3 DEF T

\* Sums of integers are integers.
LEMMA SumType ==
  ASSUME NEW f, NEW S, IsFiniteSet(S), \A y \in S : f[y] \in Int
  PROVE  SumFunctionOnSet(f, S) \in Int
<1>1. CASE S = {}
  BY <1>1, SumEmpty
<1>2. CASE S # {}
  <2>1. PICK x \in S : TRUE
    BY <1>2
  <2>2. /\ SumFunctionOnSet(f, S \ {x}) \in Int
        /\ SumFunctionOnSet(f, S) = f[x] + SumFunctionOnSet(f, S \ {x})
    BY SumAdd
  <2> QED
    BY <2>2
<1> QED
  BY <1>1, <1>2

\* Sums of naturals are naturals.
LEMMA SumNat ==
  ASSUME NEW f, NEW S, IsFiniteSet(S), \A y \in S : f[y] \in Nat
  PROVE  SumFunctionOnSet(f, S) \in Nat
<1> DEFINE T == {s \in SUBSET S : SumFunctionOnSet(f, s) \in Nat}
<1>1. ASSUME NEW s \in SUBSET S, \A u \in SUBSET s : u # s => u \in T
      PROVE  s \in T
  <2>1. IsFiniteSet(s)
    BY FS_Subset
  <2>2. CASE s = {}
    BY <2>2, SumEmpty
  <2>3. CASE s # {}
    <3>1. Chosen(s) \in s
      BY <2>3, ChosenIn
    <3>2. SumFunctionOnSet(f, s \ {Chosen(s)}) \in Nat /\ f[Chosen(s)] \in Nat
      BY <1>1, <3>1
    <3> QED
      BY <2>1, <2>3, <3>2, SumStep
  <2> QED
    BY <2>2, <2>3
<1> HIDE DEF T
<1>2. S \in T
  BY <1>1, SubsetInduction
<1> QED
  BY <1>2 DEF T

\* Only the values at the indices count.
LEMMA SumSame ==
  ASSUME NEW f, NEW g, NEW S, IsFiniteSet(S), \A y \in S : f[y] = g[y]
  PROVE  SumFunctionOnSet(f, S) = SumFunctionOnSet(g, S)
<1> DEFINE T == {s \in SUBSET S : SumFunctionOnSet(f, s) = SumFunctionOnSet(g, s)}
<1>1. ASSUME NEW s \in SUBSET S, \A u \in SUBSET s : u # s => u \in T
      PROVE  s \in T
  <2>1. IsFiniteSet(s)
    BY FS_Subset
  <2>2. CASE s = {}
    BY <2>2, SumEmpty
  <2>3. CASE s # {}
    <3>1. Chosen(s) \in s
      BY <2>3, ChosenIn
    <3>2. s \ {Chosen(s)} \in T
      BY <1>1, <3>1
    <3> QED
      BY <2>1, <2>3, <3>1, <3>2, SumStep
  <2> QED
    BY <2>2, <2>3
<1> HIDE DEF T
<1>2. S \in T
  BY <1>1, SubsetInduction
<1> QED
  BY <1>2 DEF T

\* A function with one more index.
LEMMA SumExtend ==
  ASSUME NEW f, NEW g, NEW S, IsFiniteSet(S), DOMAIN f = S, NEW x, x \notin S,
         DOMAIN g = S \cup {x}, \A y \in S : g[y] = f[y], \A y \in S \cup {x} : g[y] \in Int
  PROVE  SumFunction(g) = SumFunction(f) + g[x]
<1> DEFINE U == S \cup {x}
<1>1. IsFiniteSet(U) /\ x \in U /\ \A y \in U : g[y] \in Int
  BY FS_AddElement
<1>2. U \ {x} = S
  OBVIOUS
<1>3. /\ SumFunctionOnSet(g, S) \in Int
      /\ SumFunctionOnSet(g, U) = g[x] + SumFunctionOnSet(g, S)
  <2> HIDE DEF U
  <2> QED
    BY <1>1, <1>2, SumAdd
<1>4. SumFunctionOnSet(g, S) = SumFunctionOnSet(f, S)
  BY SumSame
<1>5. g[x] \in Int
  OBVIOUS
<1> QED
  BY <1>3, <1>4, <1>5 DEF SumFunction

\* Renaming the indices, one to one, keeps the sum.
LEMMA SumRename ==
  ASSUME NEW f, NEW g, NEW h, NEW S, IsFiniteSet(S),
         \A x \in S : f[x] \in Int /\ g[h[x]] = f[x],
         \A x, y \in S : h[x] = h[y] => x = y
  PROVE  SumFunctionOnSet(f, S) = SumFunctionOnSet(g, {h[x] : x \in S})
<1> DEFINE Im(s) == {h[x] : x \in s}
           T == {s \in SUBSET S : /\ IsFiniteSet(Im(s))
                                 /\ SumFunctionOnSet(f, s) = SumFunctionOnSet(g, Im(s))}
<1>1. ASSUME NEW s \in SUBSET S, \A u \in SUBSET s : u # s => u \in T
      PROVE  s \in T
  <2>1. CASE s = {}
    <3>1. Im(s) = {}
      BY <2>1
    <3> QED
      BY <2>1, <3>1, SumEmpty, FS_EmptySet
  <2>2. CASE s # {}
    <3>1. PICK x \in s : TRUE
      BY <2>2
    <3> DEFINE u == s \ {x}
    <3>2. u \in T
      BY <1>1, <3>1
    <3>3. Im(s) = Im(u) \cup {h[x]} /\ h[x] \notin Im(u) /\ Im(s) \ {h[x]} = Im(u)
      BY <3>1
    <3>4. IsFiniteSet(Im(s))
      <4>1. IsFiniteSet(Im(u))
        BY <3>2
      <4> HIDE DEF Im, u
      <4> QED
        BY <3>3, <4>1, FS_AddElement
    <3>5. SumFunctionOnSet(f, s) = f[x] + SumFunctionOnSet(f, u)
      <4>1. IsFiniteSet(s) /\ \A y \in s : f[y] \in Int
        BY FS_Subset
      <4> QED
        BY <4>1, SumAdd
    <3>6. SumFunctionOnSet(g, Im(s)) = g[h[x]] + SumFunctionOnSet(g, Im(u))
      <4>1. \A y \in Im(s) : g[y] \in Int
        OBVIOUS
      <4>2. h[x] \in Im(s)
        OBVIOUS
      <4> HIDE DEF Im, u
      <4> QED
        BY <3>3, <3>4, <4>1, <4>2, SumAdd
    <3>7. g[h[x]] = f[x]
      OBVIOUS
    <3> HIDE DEF Im
    <3> QED
      BY <3>2, <3>4, <3>5, <3>6, <3>7
  <2> QED
    BY <2>1, <2>2
<1> HIDE DEF T
<1>2. S \in T
  BY <1>1, SubsetInduction
<1> QED
  BY <1>2 DEF T
-----------------------------------------------------------------------------
(***************************************************************************)
(* Numbers in order.                                                       *)
(***************************************************************************)

\* A finite set of integers that is not empty has a greatest element.
LEMMA HasGreatest ==
  ASSUME NEW S, IsFiniteSet(S), S \subseteq Int, S # {}
  PROVE  \E x \in S : \A y \in S : y <= x
<1> DEFINE T == {s \in SUBSET S : s # {} => \E x \in s : \A y \in s : y <= x}
<1>1. ASSUME NEW s \in SUBSET S, \A u \in SUBSET s : u # s => u \in T
      PROVE  s \in T
  <2> SUFFICES ASSUME NEW x \in s PROVE s \in T
    OBVIOUS
  <2>1. s \ {x} \in T
    BY <1>1
  <2>2. CASE s \ {x} = {}
    BY <2>2
  <2>3. CASE s \ {x} # {}
    <3>1. PICK z \in s \ {x} : \A y \in s \ {x} : y <= z
      BY <2>1, <2>3
    <3>2. CASE x <= z
      BY <3>1, <3>2
    <3>3. CASE z < x
      <4>1. \A y \in s : y <= x
        BY <3>1, <3>3
      <4> QED
        BY <4>1
    <3> QED
      BY <3>2, <3>3
  <2> QED
    BY <2>2, <2>3
<1> HIDE DEF T
<1>2. S \in T
  BY <1>1, SubsetInduction
<1> QED
  BY <1>2 DEF T

\* Induction up to a bound, for a property given as a set.
LEMMA UpTo ==
  ASSUME NEW n \in Nat, NEW T, 0 \in T,
         \A i \in 0..(n - 1) : i \in T => i + 1 \in T
  PROVE  \A i \in 0..n : i \in T
<1> DEFINE Bad == {-i : i \in (0..n) \ T}
<1> SUFFICES ASSUME NEW i \in 0..n, i \notin T PROVE FALSE
  OBVIOUS
<1>1. Bad \subseteq -n..0 /\ -n \in Int
  OBVIOUS
<1>2. IsFiniteSet(Bad)
  <2>1. IsFiniteSet(-n..0)
    BY <1>1, FS_Interval
  <2> QED
    BY <1>1, <2>1, FS_Subset
<1>3. -i \in Bad /\ Bad \subseteq Int
  BY <1>1
<1>4. PICK x \in Bad : \A y \in Bad : y <= x
  <2> HIDE DEF Bad
  <2> QED
    BY <1>1, <1>2, <1>3, HasGreatest
<1>5. PICK b \in (0..n) \ T : x = -b
  OBVIOUS
<1>6. b # 0 /\ b - 1 \in 0..(n - 1)
  BY <1>5
<1>7. b - 1 \notin (0..n) \ T
  <2>1. -(b - 1) \notin Bad
    <3> HIDE DEF Bad
    <3> QED
      BY <1>4, <1>5
  <2> QED
    BY <2>1
<1> QED
  BY <1>5, <1>6, <1>7
-----------------------------------------------------------------------------
(***************************************************************************)
(* Sequences.                                                              *)
(***************************************************************************)

\* Induction over sequences, for a property given as a set.
LEMMA SeqInduction ==
  ASSUME NEW A, NEW T, <<>> \in T,
         \A s \in Seq(A) : \A x \in A : s \in T => Append(s, x) \in T
  PROVE  \A s \in Seq(A) : s \in T
<1> SUFFICES ASSUME NEW s \in Seq(A) PROVE s \in T
  OBVIOUS
<1> DEFINE U == {n \in 0..Len(s) : SubSeq(s, 1, n) \in T}
<1>1. Len(s) \in Nat
  BY LenProperties
<1>2. 0 \in U
  <2>1. SubSeq(s, 1, 0) = <<>>
    BY SubSeqEmpty
  <2>2. SubSeq(s, 1, 0) \in T
    BY <2>1, Zenon
  <2>3. 0 \in 0..Len(s)
    BY <1>1
  <2> QED
    BY <2>2, <2>3, Zenon
<1>3. ASSUME NEW n \in 0..(Len(s) - 1), n \in U PROVE n + 1 \in U
  <2>1. n + 1 \in 1..Len(s) /\ 1 \in 1..Len(s) /\ n + 1 \in 1..Len(s) /\ n + 1 - 1 = n
    BY <1>1
  <2>2. SubSeq(s, 1, n + 1) = SubSeq(s, 1, n) \o <<s[n + 1]>>
    BY <2>1, SubSeqRecursiveSecond
  <2>3. s[n + 1] \in A
    BY <2>1, ElementOfSeq
  <2>4. SubSeq(s, 1, n) \in Seq(A)
    <3>1. \A i \in 1..n : i \in 1..Len(s)
      BY <1>1
    <3>2. \A i \in 1..n : s[i] \in A
      BY <3>1, ElementOfSeq
    <3> QED
      BY <3>2, SubSeqProperties
  <2>5. SubSeq(s, 1, n + 1) = Append(SubSeq(s, 1, n), s[n + 1])
    BY <2>2, <2>3, <2>4, AppendIsConcat
  <2>6. SubSeq(s, 1, n) \in T
    BY <1>3
  <2>7. SubSeq(s, 1, n + 1) \in T
    BY <2>3, <2>4, <2>5, <2>6, Zenon
  <2>8. n + 1 \in 0..Len(s)
    BY <1>1
  <2> QED
    BY <2>7, <2>8, Zenon
<1> HIDE DEF U
<1>4. \A i \in 0..Len(s) : i \in U
  BY <1>1, <1>2, <1>3, UpTo
<1>5. Len(s) \in U
  BY <1>1, <1>4
<1> QED
  BY <1>5, SubSeqFull DEF U
-----------------------------------------------------------------------------
(***************************************************************************)
(* Sequences one after another.  FlattenSeq is a recursive function over   *)
(* the indices: it has a solution, and that for a longer sequence begins   *)
(* with that for a shorter one.                                            *)
(***************************************************************************)
FlatStep(m, f, i) == IF i = 1 THEN m[i] ELSE f[i - 1] \o m[i]
Flattens(m, f) == f = [i \in 1..Len(m) |-> FlatStep(m, f, i)]
Flat(m) == CHOOSE f : Flattens(m, f)

LEMMA FlattenIs ==
  ASSUME NEW m, Len(m) # 0
  PROVE  FlattenSeq(m) = Flat(m)[Len(m)]
BY Zenon DEF FlattenSeq, Flat, Flattens, FlatStep

LEMMA FlattenEmpty == FlattenSeq(<<>>) = <<>>
BY DEF FlattenSeq

LEMMA FlattensExists ==
  ASSUME NEW A, NEW m \in Seq(Seq(A))
  PROVE  Flattens(m, Flat(m)) /\ \A i \in 1..Len(m) : Flat(m)[i] \in Seq(A)
<1>1. Len(m) \in Nat /\ \A i \in 1..Len(m) : m[i] \in Seq(A)
  BY LenProperties
<1> DEFINE Good(f, n) == \A i \in 1..n : f[i] = FlatStep(m, f, i) /\ f[i] \in Seq(A)
           T == {n \in 0..Len(m) : \E f : Good(f, n)}
<1>2. 0 \in T
  BY <1>1
<1>3. ASSUME NEW n \in 0..(Len(m) - 1), n \in T PROVE n + 1 \in T
  <2>1. PICK f : Good(f, n)
    BY <1>3
  <2> DEFINE g == [i \in 1..(n + 1) |-> IF i = n + 1 THEN FlatStep(m, f, n + 1) ELSE f[i]]
  <2>2. n + 1 \in 1..Len(m) /\ n + 1 \in 1..(n + 1)
    BY <1>1
  <2>3. FlatStep(m, f, n + 1) \in Seq(A)
    <3>1. CASE n = 0
      BY <1>1, <2>2, <3>1 DEF FlatStep
    <3>2. CASE n # 0
      <4>1. n \in 1..n /\ n + 1 # 1 /\ (n + 1) - 1 = n
        BY <3>2
      <4>2. f[n] \in Seq(A) /\ m[n + 1] \in Seq(A)
        BY <1>1, <2>1, <2>2, <4>1
      <4> QED
        BY <4>1, <4>2, ConcatProperties DEF FlatStep
    <3> QED
      BY <3>1, <3>2
  <2>4. ASSUME NEW i \in 1..(n + 1) PROVE g[i] = FlatStep(m, g, i) /\ g[i] \in Seq(A)
    <3>1. i # 1 => i - 1 \in 1..(n + 1) /\ g[i - 1] = f[i - 1]
      OBVIOUS
    <3>2. FlatStep(m, g, i) = FlatStep(m, f, i)
      BY <3>1 DEF FlatStep
    <3>3. CASE i = n + 1
      BY <2>3, <3>2, <3>3
    <3>4. CASE i # n + 1
      <4>1. i \in 1..n
        BY <3>4
      <4>2. f[i] = FlatStep(m, f, i) /\ f[i] \in Seq(A)
        BY <2>1, <4>1
      <4> QED
        BY <3>2, <3>4, <4>2
    <3> QED
      BY <3>3, <3>4
  <2> HIDE DEF g
  <2>5. Good(g, n + 1)
    BY <2>4
  <2> HIDE DEF Good
  <2> QED
    BY <1>1, <2>5
<1> HIDE DEF T
<1>4. Len(m) \in T
  <2>1. \A i \in 0..Len(m) : i \in T
    BY <1>1, <1>2, <1>3, UpTo
  <2> QED
    BY <1>1, <2>1
<1>5. PICK f : Good(f, Len(m))
  BY <1>4 DEF T
<1> DEFINE g == [i \in 1..Len(m) |-> f[i]]
<1>6. Flattens(m, g)
  <2>1. \A i \in 1..Len(m) : FlatStep(m, g, i) = FlatStep(m, f, i)
    <3> SUFFICES ASSUME NEW i \in 1..Len(m) PROVE FlatStep(m, g, i) = FlatStep(m, f, i)
      OBVIOUS
    <3>1. i # 1 => i - 1 \in 1..Len(m)
      BY <1>1
    <3> QED
      BY <3>1 DEF FlatStep
  <2>2. g = [i \in 1..Len(m) |-> FlatStep(m, f, i)]
    BY <1>5
  <2> HIDE DEF g
  <2> QED
    BY <2>1, <2>2 DEF Flattens
<1> HIDE DEF g
<1>7. Flattens(m, Flat(m))
  BY <1>6, Zenon DEF Flat
<1> DEFINE U == {i \in 0..Len(m) : i = 0 \/ Flat(m)[i] \in Seq(A)}
<1>8. ASSUME NEW i \in 0..(Len(m) - 1), i \in U PROVE i + 1 \in U
  <2>1. i + 1 \in 1..Len(m) /\ i + 1 \in 0..Len(m) /\ (i + 1) - 1 = i
    BY <1>1
  <2>2. Flat(m)[i + 1] = FlatStep(m, Flat(m), i + 1)
    BY <1>7, <2>1, Zenon DEF Flattens
  <2>3. m[i + 1] \in Seq(A)
    BY <1>1, <2>1
  <2>4. FlatStep(m, Flat(m), i + 1) \in Seq(A)
    BY <1>8, <2>1, <2>3, ConcatProperties DEF FlatStep
  <2> QED
    BY <2>1, <2>2, <2>4
<1>9. 0 \in U
  BY <1>1
<1> HIDE DEF U
<1>10. \A i \in 0..Len(m) : i \in U
  BY <1>1, <1>8, <1>9, UpTo
<1>11. \A i \in 1..Len(m) : Flat(m)[i] \in Seq(A)
  <2> SUFFICES ASSUME NEW i \in 1..Len(m) PROVE Flat(m)[i] \in Seq(A)
    OBVIOUS
  <2>1. i \in 0..Len(m) /\ i # 0
    BY <1>1
  <2> QED
    BY <1>10, <2>1 DEF U
<1> QED
  BY <1>7, <1>11

LEMMA FlattenType ==
  ASSUME NEW A, NEW m \in Seq(Seq(A))
  PROVE  FlattenSeq(m) \in Seq(A)
<1>1. Len(m) \in Nat
  BY LenProperties
<1>2. CASE Len(m) = 0
  BY <1>2, EmptySeq, FlattenEmpty
<1>3. CASE Len(m) # 0
  BY <1>1, <1>3, FlattenIs, FlattensExists
<1> QED
  BY <1>2, <1>3

\* One more goes to the end.
LEMMA FlattenAppend ==
  ASSUME NEW A, NEW m \in Seq(Seq(A)), NEW t \in Seq(A)
  PROVE  FlattenSeq(Append(m, t)) = FlattenSeq(m) \o t
<1>1. PICK o \in Seq(Seq(A)) : /\ o = Append(m, t) /\ Len(o) = Len(m) + 1
                             /\ \A i \in 1..Len(m) : o[i] = m[i]
                             /\ o[Len(m) + 1] = t
  BY AppendProperties
<1>2. PICK n \in Nat : n = Len(m)
  BY LenProperties
<1>3. /\ Flattens(m, Flat(m)) /\ Flattens(o, Flat(o))
  BY FlattensExists
<1> DEFINE T == {i \in 0..n : i = 0 \/ Flat(m)[i] = Flat(o)[i]}
<1>4. ASSUME NEW i \in 0..(n - 1), i \in T PROVE i + 1 \in T
  <2>1. /\ i + 1 \in 1..n /\ i + 1 \in 1..(n + 1) /\ i + 1 \in 0..n /\ (i + 1) - 1 = i
        /\ i + 1 = 1 <=> i = 0
    OBVIOUS
  <2>2. /\ Flat(m)[i + 1] = FlatStep(m, Flat(m), i + 1)
        /\ Flat(o)[i + 1] = FlatStep(o, Flat(o), i + 1)
    <3>1. i + 1 \in 1..Len(m) /\ i + 1 \in 1..Len(o)
      BY <1>1, <1>2, <2>1
    <3> QED
      BY <1>3, <3>1, Zenon DEF Flattens
  <2>3. m[i + 1] = o[i + 1]
    BY <1>1, <1>2, <2>1
  <2> QED
    BY <1>4, <2>1, <2>2, <2>3 DEF FlatStep
<1>5. 0 \in T
  OBVIOUS
<1> HIDE DEF T
<1>6. n \in T
  <2>1. \A i \in 0..n : i \in T
    BY <1>2, <1>4, <1>5, UpTo
  <2> QED
    BY <2>1
<1>7. Flat(o)[n + 1] = FlatStep(o, Flat(o), n + 1)
  <2>1. n + 1 \in 1..Len(o)
    BY <1>1, <1>2
  <2> QED
    BY <1>3, <2>1, Zenon DEF Flattens
<1>8. FlattenSeq(o) = Flat(o)[n + 1]
  <2>1. Len(o) = n + 1 /\ Len(o) # 0
    BY <1>1, <1>2
  <2> QED
    BY <2>1, FlattenIs
<1>9. CASE n = 0
  <2>1. FlattenSeq(m) = <<>>
    BY <1>2, <1>9, EmptySeq, FlattenEmpty
  <2>2. FlattenSeq(o) = t
    BY <1>1, <1>2, <1>7, <1>8, <1>9 DEF FlatStep
  <2> QED
    BY <1>1, <2>1, <2>2, ConcatEmptySeq
<1>10. CASE n # 0
  <2>1. Flat(m)[n] = Flat(o)[n]
    BY <1>6, <1>10 DEF T
  <2>2. FlattenSeq(m) = Flat(m)[n]
    BY <1>2, <1>10, FlattenIs
  <2>3. n + 1 # 1 /\ (n + 1) - 1 = n
    BY <1>10
  <2>4. o[n + 1] = t
    BY <1>1, <1>2
  <2>5. Flat(o)[n + 1] = Flat(o)[n] \o t
    BY <1>7, <2>3, <2>4 DEF FlatStep
  <2> QED
    BY <1>1, <1>8, <2>1, <2>2, <2>5, Zenon
<1> QED
  BY <1>9, <1>10
=============================================================================
