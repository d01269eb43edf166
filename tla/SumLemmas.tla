------------------------------- MODULE SumLemmas -------------------------------
(***************************************************************************)
(* What SumFunctionOnSet of the community modules returns: the sum of a    *)
(* function's values over a finite set, in whichever order it takes them.  *)
(*                                                                         *)
(* The library's induction theorems have operators for parameters, so the  *)
(* induction is by smallest counterexamples: of the subsets for which a    *)
(* claim is false, one has no proper subset for which it is (WFMin).       *)
(***************************************************************************)
EXTENDS FiniteSets, Functions, FiniteSetTheorems, TLAPS

(* A set of subsets of a finite set has a smallest one. *)
LEMMA SmallestSubset ==
  ASSUME NEW S, IsFiniteSet(S), NEW T \in SUBSET (SUBSET S), T # {}
  PROVE  \E U \in T : \A V \in T : V \subseteq U => V = U
<1>1. FiniteSubsetsOf(S) = SUBSET S
  BY FS_FiniteSubsetsOfFinite
<1>2. IsWellFoundedOn(StrictSubsetOrdering(S), SUBSET S)
  BY <1>1, FS_StrictSubsetOrderingWellFounded
<1>3. PICK U \in T : \A V \in T : ~(<<V, U>> \in StrictSubsetOrdering(S))
  BY <1>2, WFMin
<1>4. ASSUME NEW V \in T, V \subseteq U, V # U  PROVE FALSE
  BY <1>3, <1>4 DEF StrictSubsetOrdering
<1> QED
  BY <1>4

-------------------------------------------------------------------------------
(* The recursive function inside the library's fold.                       *)
Choice(s) == CHOOSE x \in s : TRUE
Sums(f, S, g) ==
  g = [s \in SUBSET S |-> IF s = {} THEN 0 ELSE f[Choice(s)] + g[s \ {Choice(s)}]]
TheSums(f, S) == CHOOSE g : Sums(f, S, g)

(* The sum is the value of that function at the whole set. *)
LEMMA Unfold == ASSUME NEW f, NEW S  PROVE SumFunctionOnSet(f, S) = TheSums(f, S)[S]
BY DEF SumFunctionOnSet, FoldFunctionOnSet, MapThenFoldSet, Sums, TheSums, Choice

(* The element it takes next is one of those that are left. *)
LEMMA ChoiceIn == ASSUME NEW s, s # {}  PROVE Choice(s) \in s
BY DEF Choice

(* Its recursion, at each subset. *)
LEMMA SumsAt ==
  ASSUME NEW f, NEW S, NEW g, Sums(f, S, g), NEW s \in SUBSET S
  PROVE  /\ s = {} => g[s] = 0
         /\ s # {} => g[s] = f[Choice(s)] + g[s \ {Choice(s)}]
BY DEF Sums

(* Two such functions agree where both are defined. *)
LEMMA SumsAgree ==
  ASSUME NEW f, NEW A, NEW B, NEW g, NEW h, Sums(f, A, g), Sums(f, B, h),
         NEW S, IsFiniteSet(S), S \subseteq A, S \subseteq B
  PROVE  g[S] = h[S]
<1> DEFINE Wrong == {s \in SUBSET S : g[s] # h[s]}
<1>1. SUFFICES ASSUME Wrong # {}  PROVE FALSE
  OBVIOUS
<1>2. PICK s \in Wrong : \A v \in Wrong : v \subseteq s => v = s
  <2>1. Wrong \in SUBSET (SUBSET S)
    OBVIOUS
  <2> HIDE DEF Wrong
  <2> QED
    BY <1>1, <2>1, SmallestSubset
<1>3. s \in SUBSET A /\ s \in SUBSET B /\ s \in SUBSET S /\ g[s] # h[s]
  BY <1>2
<1>4. s # {}
  BY <1>3, SumsAt
<1>5. Choice(s) \in s
  BY <1>4, ChoiceIn
<1>6. s \ {Choice(s)} \notin Wrong
  BY <1>2, <1>5
<1>7. g[s \ {Choice(s)}] = h[s \ {Choice(s)}]
  BY <1>3, <1>6
<1>8. g[s] = f[Choice(s)] + g[s \ {Choice(s)}] /\ h[s] = f[Choice(s)] + h[s \ {Choice(s)}]
  BY <1>3, <1>4, SumsAt
<1> QED
  BY <1>3, <1>7, <1>8

(* There is one for every finite set. *)
LEMMA SumsExist ==
  ASSUME NEW f, NEW S, IsFiniteSet(S)
  PROVE  \E g : Sums(f, S, g)
<1> DEFINE Wrong == {s \in SUBSET S : ~ \E g : Sums(f, s, g)}
<1>1. SUFFICES ASSUME Wrong # {}  PROVE FALSE
  OBVIOUS
<1>2. PICK s \in Wrong : \A v \in Wrong : v \subseteq s => v = s
  <2>1. Wrong \in SUBSET (SUBSET S)
    OBVIOUS
  <2> HIDE DEF Wrong
  <2> QED
    BY <1>1, <2>1, SmallestSubset
<1>3. ASSUME NEW v \in SUBSET s, v # s  PROVE Sums(f, v, TheSums(f, v)) /\ IsFiniteSet(v)
  <2>1. v \in SUBSET S /\ v \notin Wrong
    BY <1>2, <1>3
  <2>2. \E g : Sums(f, v, g)
    BY <2>1
  <2>3. Sums(f, v, TheSums(f, v))
    BY <2>2 DEF TheSums
  <2> QED
    BY <2>1, <2>3, FS_Subset
<1> DEFINE g == [v \in SUBSET s |-> IF v = {} THEN 0
                   ELSE f[Choice(v)] + TheSums(f, v \ {Choice(v)})[v \ {Choice(v)}]]
<1>4. ASSUME NEW v \in SUBSET s, v # {}
      PROVE  g[v \ {Choice(v)}] = TheSums(f, v \ {Choice(v)})[v \ {Choice(v)}]
  <2> DEFINE w == v \ {Choice(v)}
  <2>1. Choice(v) \in v
    BY <1>4, ChoiceIn
  <2>2. w \in SUBSET s /\ w # s
    BY <2>1
  <2>3. Sums(f, w, TheSums(f, w))
    BY <2>2, <1>3
  <2>4. CASE w = {}
    <3>1. TheSums(f, w)[w] = 0
      BY <2>3, <2>4, SumsAt
    <3>2. g[w] = 0
      BY <2>2, <2>4
    <3> QED
      BY <3>1, <3>2
  <2>5. CASE w # {}
    <3> DEFINE x == Choice(w)
    <3>1. x \in w
      BY <2>5, ChoiceIn
    <3>2. w \ {x} \in SUBSET s /\ w \ {x} # s /\ w \ {x} \in SUBSET w
      BY <2>2, <3>1
    <3>3. Sums(f, w \ {x}, TheSums(f, w \ {x})) /\ IsFiniteSet(w \ {x})
      BY <3>2, <1>3
    <3>4. TheSums(f, w \ {x})[w \ {x}] = TheSums(f, w)[w \ {x}]
      <4> HIDE DEF x, w, g
      <4> QED
        BY <2>3, <3>2, <3>3, SumsAgree
    <3>5. TheSums(f, w)[w] = f[x] + TheSums(f, w)[w \ {x}]
      <4> HIDE DEF w, g
      <4> QED
        BY <2>3, <2>5, SumsAt
    <3>6. g[w] = f[x] + TheSums(f, w \ {x})[w \ {x}]
      BY <2>2, <2>5
    <3> HIDE DEF x, w, g
    <3>7. g[w] = TheSums(f, w)[w]
      BY <3>4, <3>5, <3>6
    <3> QED
      BY <3>7 DEF w
  <2> QED
    BY <2>4, <2>5
<1>5. g = [v \in SUBSET s |-> IF v = {} THEN 0 ELSE f[Choice(v)] + g[v \ {Choice(v)}]]
  <2> DEFINE h == [v \in SUBSET s |-> IF v = {} THEN 0 ELSE f[Choice(v)] + g[v \ {Choice(v)}]]
  <2>1. ASSUME NEW v \in SUBSET s  PROVE g[v] = h[v]
    <3>1. CASE v = {}
      BY <3>1
    <3>2. CASE v # {}
      <4>1. g[v] = f[Choice(v)] + TheSums(f, v \ {Choice(v)})[v \ {Choice(v)}]
        BY <3>2
      <4>2. h[v] = f[Choice(v)] + g[v \ {Choice(v)}]
        BY <3>2
      <4>3. g[v \ {Choice(v)}] = TheSums(f, v \ {Choice(v)})[v \ {Choice(v)}]
        BY <3>2, <1>4
      <4> HIDE DEF g, h
      <4> QED
        BY <4>1, <4>2, <4>3
    <3> QED
      BY <3>1, <3>2
  <2>2. g = h
    BY <2>1
  <2> QED
    BY <2>2
<1>6. Sums(f, s, g)
  BY <1>5 DEF Sums
<1> QED
  BY <1>2, <1>6

(* The fold as its recursion has it. *)
LEMMA SumRecursion ==
  ASSUME NEW f, NEW S, IsFiniteSet(S)
  PROVE  /\ S = {} => SumFunctionOnSet(f, S) = 0
         /\ S # {} => /\ Choice(S) \in S
                      /\ SumFunctionOnSet(f, S) =
                           f[Choice(S)] + SumFunctionOnSet(f, S \ {Choice(S)})
<1>1. Sums(f, S, TheSums(f, S))
  BY SumsExist DEF TheSums
<1>2. CASE S = {}
  BY <1>1, <1>2, SumsAt, Unfold
<1>3. CASE S # {}
  <2> DEFINE R == S \ {Choice(S)}
  <2>1. Choice(S) \in S
    BY <1>3, ChoiceIn
  <2>2. IsFiniteSet(R)
    BY FS_Subset
  <2>3. Sums(f, R, TheSums(f, R))
    BY <2>2, SumsExist DEF TheSums
  <2>4. TheSums(f, S)[R] = TheSums(f, R)[R]
    <3>1. R \subseteq S
      OBVIOUS
    <3> HIDE DEF R
    <3> QED
      BY <1>1, <2>2, <2>3, <3>1, SumsAgree
  <2>5. TheSums(f, S)[S] = f[Choice(S)] + TheSums(f, S)[R]
    BY <1>1, <1>3, SumsAt
  <2> HIDE DEF R
  <2>6. SumFunctionOnSet(f, S) = f[Choice(S)] + SumFunctionOnSet(f, R)
    BY <2>4, <2>5, Unfold
  <2> QED
    BY <1>3, <2>1, <2>6 DEF R
<1> QED
  BY <1>2, <1>3

(* Nothing sums up to 0. *)
LEMMA SumEmpty == ASSUME NEW f  PROVE SumFunctionOnSet(f, {}) = 0
BY SumRecursion, FS_EmptySet

(* Integers sum up to an integer. *)
LEMMA SumType ==
  ASSUME NEW f, NEW S, IsFiniteSet(S), \A x \in S : f[x] \in Int
  PROVE  SumFunctionOnSet(f, S) \in Int
<1> DEFINE Wrong == {s \in SUBSET S : SumFunctionOnSet(f, s) \notin Int}
<1>1. SUFFICES ASSUME Wrong # {}  PROVE FALSE
  OBVIOUS
<1>2. PICK s \in Wrong : \A v \in Wrong : v \subseteq s => v = s
  <2>1. Wrong \in SUBSET (SUBSET S)
    OBVIOUS
  <2> HIDE DEF Wrong
  <2> QED
    BY <1>1, <2>1, SmallestSubset
<1>3. s \in SUBSET S /\ IsFiniteSet(s) /\ SumFunctionOnSet(f, s) \notin Int
  BY <1>2, FS_Subset
<1>4. s # {}
  BY <1>3, SumEmpty
<1>5. /\ Choice(s) \in s
      /\ SumFunctionOnSet(f, s) = f[Choice(s)] + SumFunctionOnSet(f, s \ {Choice(s)})
  BY <1>3, <1>4, SumRecursion
<1>6. s \ {Choice(s)} \notin Wrong /\ s \ {Choice(s)} \in SUBSET S
  BY <1>2, <1>3, <1>5
<1>7. SumFunctionOnSet(f, s \ {Choice(s)}) \in Int /\ f[Choice(s)] \in Int
  BY <1>3, <1>5, <1>6
<1> QED
  BY <1>3, <1>5, <1>7

(* Any element may be taken first. *)
LEMMA SumRemove ==
  ASSUME NEW f, NEW S, IsFiniteSet(S), \A x \in S : f[x] \in Int, NEW a \in S
  PROVE  SumFunctionOnSet(f, S) = f[a] + SumFunctionOnSet(f, S \ {a})
<1> DEFINE Right(s) == \A x \in s : SumFunctionOnSet(f, s) = f[x] + SumFunctionOnSet(f, s \ {x})
           Wrong == {s \in SUBSET S : ~Right(s)}
<1>1. SUFFICES ASSUME Wrong # {}  PROVE FALSE
  OBVIOUS
<1>2. PICK s \in Wrong : \A v \in Wrong : v \subseteq s => v = s
  <2>1. Wrong \in SUBSET (SUBSET S)
    OBVIOUS
  <2> HIDE DEF Wrong
  <2> QED
    BY <1>1, <2>1, SmallestSubset
<1>3. s \in SUBSET S /\ IsFiniteSet(s)
  BY <1>2, FS_Subset
<1>4. PICK x \in s : SumFunctionOnSet(f, s) # f[x] + SumFunctionOnSet(f, s \ {x})
  BY <1>2
<1> DEFINE c == Choice(s)
<1>5. c \in s /\ SumFunctionOnSet(f, s) = f[c] + SumFunctionOnSet(f, s \ {c})
  BY <1>3, <1>4, SumRecursion
<1> HIDE DEF c
<1>6. c # x
  BY <1>4, <1>5
<1>7. \A y \in s : s \ {y} \in SUBSET S /\ s \ {y} \notin Wrong
  BY <1>2, <1>3
<1>8. SumFunctionOnSet(f, s \ {c}) = f[x] + SumFunctionOnSet(f, (s \ {c}) \ {x})
  BY <1>4, <1>5, <1>6, <1>7
<1>9. SumFunctionOnSet(f, s \ {x}) = f[c] + SumFunctionOnSet(f, (s \ {x}) \ {c})
  BY <1>4, <1>5, <1>6, <1>7
<1>10. (s \ {c}) \ {x} = (s \ {x}) \ {c} /\ IsFiniteSet((s \ {x}) \ {c})
  BY <1>3, FS_Subset
<1>11. SumFunctionOnSet(f, (s \ {x}) \ {c}) \in Int /\ f[c] \in Int /\ f[x] \in Int
  BY <1>3, <1>4, <1>5, <1>10, SumType
<1>12. SumFunctionOnSet(f, s \ {c}) = f[x] + SumFunctionOnSet(f, (s \ {x}) \ {c})
  BY <1>8, <1>10
<1>13. f[c] + SumFunctionOnSet(f, s \ {c}) = f[x] + SumFunctionOnSet(f, s \ {x})
  BY <1>9, <1>11, <1>12
<1> QED
  BY <1>4, <1>5, <1>13

(* A new element adds its value. *)
LEMMA SumAdd ==
  ASSUME NEW f, NEW S, IsFiniteSet(S), NEW a, a \notin S,
         \A x \in S \union {a} : f[x] \in Int
  PROVE  SumFunctionOnSet(f, S \union {a}) = SumFunctionOnSet(f, S) + f[a]
<1>1. IsFiniteSet(S \union {a}) /\ (S \union {a}) \ {a} = S
  BY FS_AddElement
<1>2. SumFunctionOnSet(f, S \union {a}) = f[a] + SumFunctionOnSet(f, S)
  BY <1>1, SumRemove
<1>3. SumFunctionOnSet(f, S) \in Int /\ f[a] \in Int
  BY SumType
<1> QED
  BY <1>2, <1>3

(* Only the values on the set matter. *)
LEMMA SumSame ==
  ASSUME NEW f, NEW g, NEW S, IsFiniteSet(S), \A x \in S : f[x] = g[x]
  PROVE  SumFunctionOnSet(f, S) = SumFunctionOnSet(g, S)
<1> DEFINE Wrong == {s \in SUBSET S : SumFunctionOnSet(f, s) # SumFunctionOnSet(g, s)}
<1>1. SUFFICES ASSUME Wrong # {}  PROVE FALSE
  OBVIOUS
<1>2. PICK s \in Wrong : \A v \in Wrong : v \subseteq s => v = s
  <2>1. Wrong \in SUBSET (SUBSET S)
    OBVIOUS
  <2> HIDE DEF Wrong
  <2> QED
    BY <1>1, <2>1, SmallestSubset
<1>3. s \in SUBSET S /\ IsFiniteSet(s) /\ SumFunctionOnSet(f, s) # SumFunctionOnSet(g, s)
  BY <1>2, FS_Subset
<1>4. s # {}
  BY <1>3, SumEmpty
<1>5. /\ Choice(s) \in s
      /\ SumFunctionOnSet(f, s) = f[Choice(s)] + SumFunctionOnSet(f, s \ {Choice(s)})
      /\ SumFunctionOnSet(g, s) = g[Choice(s)] + SumFunctionOnSet(g, s \ {Choice(s)})
  BY <1>3, <1>4, SumRecursion
<1>6. s \ {Choice(s)} \notin Wrong /\ s \ {Choice(s)} \in SUBSET S
  BY <1>2, <1>3, <1>5
<1>7. SumFunctionOnSet(f, s \ {Choice(s)}) = SumFunctionOnSet(g, s \ {Choice(s)})
  BY <1>6
<1> HIDE DEF Wrong
<1> QED
  BY <1>3, <1>5, <1>7

(* The sum over a part of naturals is no more than the sum of all. *)
LEMMA SumMonotone ==
  ASSUME NEW f, NEW S, IsFiniteSet(S), \A x \in S : f[x] \in Nat, NEW R \in SUBSET S
  PROVE  SumFunctionOnSet(f, R) <= SumFunctionOnSet(f, S)
<1> DEFINE Wrong == {s \in SUBSET S : R \subseteq s /\ ~(SumFunctionOnSet(f, R) <= SumFunctionOnSet(f, s))}
<1>1. SUFFICES ASSUME Wrong # {}  PROVE FALSE
  OBVIOUS
<1>2. PICK s \in Wrong : \A v \in Wrong : v \subseteq s => v = s
  <2>1. Wrong \in SUBSET (SUBSET S)
    OBVIOUS
  <2> HIDE DEF Wrong
  <2> QED
    BY <1>1, <2>1, SmallestSubset
<1>3. s \in SUBSET S /\ IsFiniteSet(s) /\ R \subseteq s /\ IsFiniteSet(R)
  BY <1>2, FS_Subset
<1>4. SumFunctionOnSet(f, R) \in Int /\ SumFunctionOnSet(f, s) \in Int
  BY <1>3, SumType
<1>5. PICK a \in s : a \notin R
  <2>1. s # R
    BY <1>2, <1>4
  <2> QED
    BY <1>3, <2>1
<1>6. SumFunctionOnSet(f, s) = f[a] + SumFunctionOnSet(f, s \ {a})
  BY <1>3, SumRemove
<1>7. SumFunctionOnSet(f, R) <= SumFunctionOnSet(f, s \ {a})
  BY <1>2, <1>3, <1>5
<1>8. SumFunctionOnSet(f, s \ {a}) \in Int /\ f[a] \in Nat
  <2>1. IsFiniteSet(s \ {a})
    BY <1>3, FS_Subset
  <2> QED
    BY <1>3, <2>1, SumType
<1>9. ~(SumFunctionOnSet(f, R) <= SumFunctionOnSet(f, s))
  BY <1>2
<1> HIDE DEF Wrong
<1> QED
  BY <1>4, <1>6, <1>7, <1>8, <1>9

(* One more of one value is one more in the sum. *)
LEMMA SumIncrement ==
  ASSUME NEW f, NEW g, NEW S, IsFiniteSet(S), \A x \in S : f[x] \in Int,
         NEW a \in S, g[a] = f[a] + 1, \A x \in S \ {a} : g[x] = f[x]
  PROVE  SumFunctionOnSet(g, S) = SumFunctionOnSet(f, S) + 1
<1> DEFINE R == S \ {a}
<1>1. IsFiniteSet(R)
  BY FS_Subset
<1>2. \A x \in S : g[x] \in Int
  OBVIOUS
<1>3. SumFunctionOnSet(f, S) = f[a] + SumFunctionOnSet(f, R)
  BY SumRemove
<1>4. SumFunctionOnSet(g, S) = g[a] + SumFunctionOnSet(g, R)
  BY <1>2, SumRemove
<1>5. SumFunctionOnSet(g, R) = SumFunctionOnSet(f, R)
  BY <1>1, SumSame
<1>6. SumFunctionOnSet(f, R) \in Int
  BY <1>1, SumType
<1> HIDE DEF R
<1> QED
  BY <1>3, <1>4, <1>5, <1>6

(* Zeros sum up to 0. *)
LEMMA SumZero ==
  ASSUME NEW f, NEW S, IsFiniteSet(S), \A x \in S : f[x] = 0
  PROVE  SumFunctionOnSet(f, S) = 0
<1> DEFINE Wrong == {s \in SUBSET S : SumFunctionOnSet(f, s) # 0}
<1>1. SUFFICES ASSUME Wrong # {}  PROVE FALSE
  OBVIOUS
<1>2. PICK s \in Wrong : \A v \in Wrong : v \subseteq s => v = s
  <2>1. Wrong \in SUBSET (SUBSET S)
    OBVIOUS
  <2> HIDE DEF Wrong
  <2> QED
    BY <1>1, <2>1, SmallestSubset
<1>3. s \in SUBSET S /\ IsFiniteSet(s) /\ SumFunctionOnSet(f, s) # 0
  BY <1>2, FS_Subset
<1>4. s # {}
  BY <1>3, SumEmpty
<1>5. /\ Choice(s) \in s
      /\ SumFunctionOnSet(f, s) = f[Choice(s)] + SumFunctionOnSet(f, s \ {Choice(s)})
  BY <1>3, <1>4, SumRecursion
<1>6. s \ {Choice(s)} \notin Wrong /\ s \ {Choice(s)} \in SUBSET S
  BY <1>2, <1>3, <1>5
<1>7. SumFunctionOnSet(f, s \ {Choice(s)}) = 0 /\ f[Choice(s)] = 0
  BY <1>3, <1>5, <1>6
<1> HIDE DEF Wrong
<1> QED
  BY <1>3, <1>5, <1>7
===============================================================================
