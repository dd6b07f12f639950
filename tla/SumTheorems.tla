------------------------------ MODULE SumTheorems ------------------------------
(***************************************************************************)
(* What a sum over a finite set is.  Every total of this program is one:   *)
(* the payments of an order, the cash of a drawer, the credit of a client, *)
(* what is left of an account.  The models write them with                 *)
(* SumFunctionOnSet of the community module Functions, whose definition is *)
(* recursive; here it gets its type, its recursion equation for every      *)
(* element (not only the one CHOOSE takes) and what one changed, added or  *)
(* removed term does to it.                                                *)
(*                                                                         *)
(* Induction over the subsets of a finite set is by a smallest             *)
(* counterexample, which WFMin gives without an operator parameter.        *)
(***************************************************************************)
EXTENDS Functions, FiniteSets, FiniteSetTheorems, TLAPS

\* The recursion of SumFunctionOnSet, as a predicate on the function it chooses.
Pick(s) == CHOOSE x \in s : TRUE
Adds(g, f, D) == g = [s \in D |-> IF s = {} THEN 0 ELSE f[Pick(s)] + g[s \ {Pick(s)}]]
SubsetsUpTo(S, n) == {s \in SUBSET S : Cardinality(s) <= n}

\* The sum is the value at S of the function that satisfies the recursion.
LEMMA Unfold ==
  ASSUME NEW f, NEW S
  PROVE  SumFunctionOnSet(f, S) = (CHOOSE g : Adds(g, f, SUBSET S))[S]
BY DEF SumFunctionOnSet, FoldFunctionOnSet, MapThenFoldSet, Adds, Pick

\* A set of naturals that is not empty has a least element: the id a table gives
\* its next row.
LEMMA LeastNatural ==
  ASSUME NEW T, T \subseteq Nat, T # {}
  PROVE  \E n \in T : \A m \in T : n <= m
<1>1. PICK n \in T : \A m \in T : <<m, n>> \notin OpToRel(<, Nat)
  BY NatLessThanWellFounded, WFMin
<1>2. \A m \in T : ~(m < n)
  BY <1>1 DEF OpToRel
<1>3. QED
  BY <1>2

\* Among subsets of a finite set there is one with none of the others inside.
LEMMA SmallestSet ==
  ASSUME NEW S, IsFiniteSet(S), NEW T, T \subseteq SUBSET S, T # {}
  PROVE  \E A \in T : \A B \in T : B \subseteq A => B = A
<1>1. IsWellFoundedOn(StrictSubsetOrdering(S), SUBSET S)
  BY FS_StrictSubsetOrderingWellFounded, FS_FiniteSubsetsOfFinite
<1>2. PICK A \in T : \A B \in T : <<B, A>> \notin StrictSubsetOrdering(S)
  BY <1>1, WFMin
<1>3. QED
  BY <1>2 DEF StrictSubsetOrdering

\* What holds of {} and passes from all s \ {x} to s holds of every subset.
LEMMA SubsetInduction ==
  ASSUME NEW S, IsFiniteSet(S), NEW T, {} \in T,
         \A s \in SUBSET S : (s # {} /\ \A x \in s : s \ {x} \in T) => s \in T
  PROVE  SUBSET S \subseteq T
<1> DEFINE Bad == {s \in SUBSET S : s \notin T}
<1>1. SUFFICES ASSUME Bad # {} PROVE FALSE
  OBVIOUS
<1>2. Bad \subseteq SUBSET S
  OBVIOUS
<1> HIDE DEF Bad
<1>3. PICK A \in Bad : \A B \in Bad : B \subseteq A => B = A
  BY <1>1, <1>2, SmallestSet
<1>4. A \in SUBSET S /\ A \notin T /\ \A x \in A : A \ {x} \in SUBSET S /\ A \ {x} \notin Bad
  BY <1>3 DEF Bad
<1>5. A # {} /\ \A x \in A : A \ {x} \in T
  BY <1>4 DEF Bad
<1>6. QED
  BY <1>4, <1>5

\* The recursion has a solution.
LEMMA AdditionExists ==
  ASSUME NEW f, NEW S, IsFiniteSet(S)
  PROVE  \E g : Adds(g, f, SUBSET S)
<1> DEFINE T == {n \in Nat : ~ \E g : Adds(g, f, SubsetsUpTo(S, n))}
<1>1. T = {}
  <2> SUFFICES ASSUME T # {} PROVE FALSE
    OBVIOUS
  <2>1. PICK n \in T : \A m \in T : n <= m
    BY LeastNatural
  <2>2. CASE n = 0
    <3>1. \A s \in SubsetsUpTo(S, 0) : s = {}
      BY FS_Subset, FS_EmptySet, FS_CardinalityType DEF SubsetsUpTo
    <3> DEFINE g == [s \in SubsetsUpTo(S, 0) |-> 0]
    <3>2. Adds(g, f, SubsetsUpTo(S, 0))
      BY <3>1 DEF Adds
    <3>3. QED
      BY <2>1, <2>2, <3>2
  <2>3. CASE n # 0
    <3>1. n - 1 \in Nat /\ n - 1 \notin T
      BY <2>1, <2>3
    <3>2. PICK h : Adds(h, f, SubsetsUpTo(S, n - 1))
      BY <3>1
    <3> DEFINE g == [s \in SubsetsUpTo(S, n) |->
                      IF s = {} THEN 0 ELSE f[Pick(s)] + h[s \ {Pick(s)}]]
    <3>3. \A s \in SubsetsUpTo(S, n) : s # {} => s \ {Pick(s)} \in SubsetsUpTo(S, n - 1)
      <4> SUFFICES ASSUME NEW s \in SubsetsUpTo(S, n), s # {}
                   PROVE  s \ {Pick(s)} \in SubsetsUpTo(S, n - 1)
        OBVIOUS
      <4>1. Pick(s) \in s
        BY DEF Pick
      <4>2. IsFiniteSet(s) /\ Cardinality(s) \in Nat
        BY FS_Subset, FS_CardinalityType DEF SubsetsUpTo
      <4>3. Cardinality(s \ {Pick(s)}) = Cardinality(s) - 1
        BY <4>1, <4>2, FS_RemoveElement
      <4>4. QED
        BY <4>2, <4>3, <3>1 DEF SubsetsUpTo
    <3>4. \A s \in SubsetsUpTo(S, n - 1) : s \in SubsetsUpTo(S, n)
      <4>1. \A s \in SUBSET S : Cardinality(s) \in Nat
        BY FS_Subset, FS_CardinalityType
      <4>2. QED
        BY <4>1, <3>1 DEF SubsetsUpTo
    <3>5. \A s \in SubsetsUpTo(S, n - 1) : g[s] = h[s]
      BY <3>2, <3>4 DEF Adds
    <3>6. Adds(g, f, SubsetsUpTo(S, n))
      BY <3>3, <3>5 DEF Adds
    <3>7. QED
      BY <3>6, <2>1
  <2>4. QED
    BY <2>2, <2>3
<1>2. Cardinality(S) \in Nat
  BY FS_CardinalityType
<1>3. SubsetsUpTo(S, Cardinality(S)) = SUBSET S
  BY <1>2, FS_Subset, FS_CardinalityType DEF SubsetsUpTo
<1>4. \E g : Adds(g, f, SubsetsUpTo(S, Cardinality(S)))
  BY <1>1, <1>2
<1>5. QED
  BY <1>3, <1>4

\* Solutions over a set and over a part of it agree on the part.
LEMMA AdditionUnique ==
  ASSUME NEW f, NEW S, IsFiniteSet(S), NEW R \in SUBSET S
  PROVE  \A g, h : Adds(g, f, SUBSET S) /\ Adds(h, f, SUBSET R) => g[R] = h[R]
<1> SUFFICES ASSUME NEW g, Adds(g, f, SUBSET S), NEW h, Adds(h, f, SUBSET R)
             PROVE  g[R] = h[R]
  OBVIOUS
<1> DEFINE T == {s \in SUBSET R : g[s] = h[s]}
<1>1. {} \in T
  BY DEF Adds
<1>2. ASSUME NEW s \in SUBSET R, s # {}, \A x \in s : s \ {x} \in T
      PROVE  s \in T
  <2>1. Pick(s) \in s
    BY <1>2 DEF Pick
  <2>2. g[s] = f[Pick(s)] + g[s \ {Pick(s)}] /\ h[s] = f[Pick(s)] + h[s \ {Pick(s)}]
    BY <1>2 DEF Adds
  <2>3. QED
    BY <1>2, <2>1, <2>2
<1>3. IsFiniteSet(R)
  BY FS_Subset
<1> HIDE DEF T
<1>4. SUBSET R \subseteq T
  BY <1>1, <1>2, <1>3, SubsetInduction
<1>5. QED
  BY <1>4 DEF T

\* The recursion equation, for the element CHOOSE takes.
LEMMA SumEquation ==
  ASSUME NEW f, NEW S, IsFiniteSet(S), S # {}
  PROVE  SumFunctionOnSet(f, S) = f[Pick(S)] + SumFunctionOnSet(f, S \ {Pick(S)})
<1> DEFINE R == S \ {Pick(S)}
           G == CHOOSE g : Adds(g, f, SUBSET S)
           H == CHOOSE h : Adds(h, f, SUBSET R)
<1>1. IsFiniteSet(R) /\ R \in SUBSET S
  BY FS_Subset
<1>2. Adds(G, f, SUBSET S) /\ Adds(H, f, SUBSET R)
  BY <1>1, AdditionExists
<1>3. SumFunctionOnSet(f, S) = G[S] /\ SumFunctionOnSet(f, R) = H[R]
  BY Unfold
<1>4. G[S] = f[Pick(S)] + G[R]
  BY <1>2 DEF Adds
<1>5. G[R] = H[R]
  <2> HIDE DEF R, G, H
  <2>1. \A g, h : Adds(g, f, SUBSET S) /\ Adds(h, f, SUBSET R) => g[R] = h[R]
    BY <1>1, AdditionUnique
  <2>2. QED
    BY <1>2, <2>1
<1>6. QED
  BY <1>3, <1>4, <1>5

\* The empty sum.
LEMMA SumEmpty == \A f : SumFunctionOnSet(f, {}) = 0
<1> SUFFICES ASSUME NEW f PROVE SumFunctionOnSet(f, {}) = 0
  OBVIOUS
<1> DEFINE G == CHOOSE g : Adds(g, f, SUBSET {})
<1>1. Adds(G, f, SUBSET {})
  BY AdditionExists, FS_EmptySet
<1>2. QED
  BY <1>1, Unfold DEF Adds

\* A sum of integers is an integer.
THEOREM SumType ==
  ASSUME NEW S, IsFiniteSet(S), NEW f, \A x \in S : f[x] \in Int
  PROVE  SumFunctionOnSet(f, S) \in Int
<1> DEFINE T == {s \in SUBSET S : SumFunctionOnSet(f, s) \in Int}
<1>1. {} \in T
  BY SumEmpty
<1>2. ASSUME NEW s \in SUBSET S, s # {}, \A x \in s : s \ {x} \in T
      PROVE  s \in T
  <2>1. IsFiniteSet(s) /\ Pick(s) \in s
    BY <1>2, FS_Subset DEF Pick
  <2>2. SumFunctionOnSet(f, s) = f[Pick(s)] + SumFunctionOnSet(f, s \ {Pick(s)})
    BY <1>2, <2>1, SumEquation
  <2>3. QED
    BY <1>2, <2>1, <2>2
<1> HIDE DEF T
<1>3. SUBSET S \subseteq T
  BY <1>1, <1>2, SubsetInduction
<1>4. QED
  BY <1>3 DEF T

\* A sum of naturals is a natural: no balance computed from payments is negative.
THEOREM SumNatural ==
  ASSUME NEW S, IsFiniteSet(S), NEW f, \A x \in S : f[x] \in Nat
  PROVE  SumFunctionOnSet(f, S) \in Nat
<1> DEFINE T == {s \in SUBSET S : SumFunctionOnSet(f, s) \in Nat}
<1>1. {} \in T
  BY SumEmpty
<1>2. ASSUME NEW s \in SUBSET S, s # {}, \A x \in s : s \ {x} \in T
      PROVE  s \in T
  <2>1. IsFiniteSet(s) /\ Pick(s) \in s
    BY <1>2, FS_Subset DEF Pick
  <2>2. SumFunctionOnSet(f, s) = f[Pick(s)] + SumFunctionOnSet(f, s \ {Pick(s)})
    BY <1>2, <2>1, SumEquation
  <2>3. QED
    BY <1>2, <2>1, <2>2
<1> HIDE DEF T
<1>3. SUBSET S \subseteq T
  BY <1>1, <1>2, SubsetInduction
<1>4. QED
  BY <1>3 DEF T

\* A sum of zeros.
THEOREM SumZero ==
  ASSUME NEW S, IsFiniteSet(S), NEW f, \A x \in S : f[x] = 0
  PROVE  SumFunctionOnSet(f, S) = 0
<1> DEFINE T == {s \in SUBSET S : SumFunctionOnSet(f, s) = 0}
<1>1. {} \in T
  BY SumEmpty
<1>2. ASSUME NEW s \in SUBSET S, s # {}, \A x \in s : s \ {x} \in T
      PROVE  s \in T
  <2>1. IsFiniteSet(s) /\ Pick(s) \in s
    BY <1>2, FS_Subset DEF Pick
  <2>2. SumFunctionOnSet(f, s) = f[Pick(s)] + SumFunctionOnSet(f, s \ {Pick(s)})
    BY <1>2, <2>1, SumEquation
  <2>3. QED
    BY <1>2, <2>1, <2>2
<1> HIDE DEF T
<1>3. SUBSET S \subseteq T
  BY <1>1, <1>2, SubsetInduction
<1>4. QED
  BY <1>3 DEF T

\* The recursion equation, for every element.
LEMMA SumSplitEvery ==
  ASSUME NEW S, IsFiniteSet(S), NEW f, \A x \in S : f[x] \in Int
  PROVE  \A y \in S : SumFunctionOnSet(f, S) = f[y] + SumFunctionOnSet(f, S \ {y})
<1> DEFINE T == {s \in SUBSET S : \A y \in s :
                   SumFunctionOnSet(f, s) = f[y] + SumFunctionOnSet(f, s \ {y})}
<1>1. {} \in T
  BY SumEmpty
<1>2. ASSUME NEW s \in SUBSET S, s # {}, \A x \in s : s \ {x} \in T
      PROVE  s \in T
  <2> DEFINE z == Pick(s)
  <2>1. IsFiniteSet(s) /\ z \in s
    BY <1>2, FS_Subset DEF Pick
  <2>2. SumFunctionOnSet(f, s) = f[z] + SumFunctionOnSet(f, s \ {z})
    BY <1>2, <2>1, SumEquation
  <2> HIDE DEF z
  <2>3. ASSUME NEW y \in s, y # z
        PROVE  SumFunctionOnSet(f, s) = f[y] + SumFunctionOnSet(f, s \ {y})
    <3> DEFINE rest == SumFunctionOnSet(f, (s \ {y}) \ {z})
    <3>1. SumFunctionOnSet(f, s \ {z}) = f[y] + SumFunctionOnSet(f, (s \ {z}) \ {y})
      BY <1>2, <2>1, <2>3
    <3>2. SumFunctionOnSet(f, s \ {y}) = f[z] + rest
      BY <1>2, <2>1, <2>3
    <3>3. (s \ {z}) \ {y} = (s \ {y}) \ {z}
      OBVIOUS
    <3>4. IsFiniteSet((s \ {y}) \ {z})
      BY <2>1, FS_Subset
    <3>5. rest \in Int
      BY <3>4, SumType
    <3>8. SumFunctionOnSet(f, s) = f[z] + (f[y] + rest)
      BY <2>2, <3>1, <3>3
    <3> HIDE DEF rest
    <3>6. f[y] \in Int /\ f[z] \in Int
      BY <2>1, <2>3
    <3>7. QED
      BY <3>2, <3>5, <3>6, <3>8
  <2>4. QED
    BY <1>2, <2>2, <2>3
<1> HIDE DEF T
<1>3. SUBSET S \subseteq T
  BY <1>1, <1>2, SubsetInduction
<1>4. QED
  BY <1>3 DEF T

\* Terms no larger make a sum no larger.
THEOREM SumMonotonic ==
  ASSUME NEW S, IsFiniteSet(S), NEW f, NEW g,
         \A x \in S : f[x] \in Int /\ g[x] \in Int /\ f[x] <= g[x]
  PROVE  SumFunctionOnSet(f, S) <= SumFunctionOnSet(g, S)
<1> DEFINE T == {s \in SUBSET S : SumFunctionOnSet(f, s) <= SumFunctionOnSet(g, s)}
<1>1. {} \in T
  BY SumEmpty
<1>2. ASSUME NEW s \in SUBSET S, s # {}, \A x \in s : s \ {x} \in T
      PROVE  s \in T
  <2>1. IsFiniteSet(s) /\ Pick(s) \in s /\ IsFiniteSet(s \ {Pick(s)})
    BY <1>2, FS_Subset DEF Pick
  <2>2. SumFunctionOnSet(f, s) = f[Pick(s)] + SumFunctionOnSet(f, s \ {Pick(s)})
    BY <1>2, <2>1, SumEquation
  <2>3. SumFunctionOnSet(g, s) = g[Pick(s)] + SumFunctionOnSet(g, s \ {Pick(s)})
    BY <1>2, <2>1, SumEquation
  <2>4. SumFunctionOnSet(f, s \ {Pick(s)}) \in Int /\ SumFunctionOnSet(g, s \ {Pick(s)}) \in Int
    BY <2>1, SumType
  <2>5. QED
    BY <1>2, <2>1, <2>2, <2>3, <2>4
<1> HIDE DEF T
<1>3. SUBSET S \subseteq T
  BY <1>1, <1>2, SubsetInduction
<1>4. QED
  BY <1>3 DEF T

\* Any one term can be taken out.
THEOREM SumSplit ==
  ASSUME NEW S, IsFiniteSet(S), NEW f, \A x \in S : f[x] \in Int, NEW x \in S
  PROVE  SumFunctionOnSet(f, S) = f[x] + SumFunctionOnSet(f, S \ {x})
BY SumSplitEvery

\* A new term is added to the sum: the creation of a payment or a movement.
THEOREM SumAdd ==
  ASSUME NEW S, IsFiniteSet(S), NEW x, x \notin S,
         NEW f, \A y \in S \cup {x} : f[y] \in Int
  PROVE  SumFunctionOnSet(f, S \cup {x}) = f[x] + SumFunctionOnSet(f, S)
<1>1. IsFiniteSet(S \cup {x}) /\ (S \cup {x}) \ {x} = S
  BY FS_AddElement
<1>2. QED
  BY <1>1, SumSplit

\* The terms of a part, none of the others negative, add up to no more than all.
THEOREM SumGrows ==
  ASSUME NEW S, IsFiniteSet(S), NEW f, \A x \in S : f[x] \in Nat, NEW R \in SUBSET S
  PROVE  SumFunctionOnSet(f, R) <= SumFunctionOnSet(f, S)
<1> DEFINE T == {s \in SUBSET (S \ R) : SumFunctionOnSet(f, R) <= SumFunctionOnSet(f, R \cup s)}
<1>0. IsFiniteSet(R) /\ IsFiniteSet(S \ R) /\ SumFunctionOnSet(f, R) \in Int
  <2>1. IsFiniteSet(R) /\ IsFiniteSet(S \ R)
    BY FS_Subset
  <2>2. QED
    BY <2>1, SumType
<1>1. {} \in T
  BY <1>0
<1>2. ASSUME NEW s \in SUBSET (S \ R), s # {}, \A x \in s : s \ {x} \in T
      PROVE  s \in T
  <2>1. PICK x \in s : s \ {x} \in T
    BY <1>2
  <2> DEFINE rest == R \cup (s \ {x})
  <2>2. /\ IsFiniteSet(rest) /\ x \notin rest /\ rest \cup {x} = R \cup s
        /\ \A y \in rest \cup {x} : f[y] \in Int
    BY FS_Subset
  <2>3. SumFunctionOnSet(f, rest) \in Int /\ f[x] \in Nat
    BY <2>2, SumType
  <2>4. SumFunctionOnSet(f, R) <= SumFunctionOnSet(f, rest)
    BY <2>1
  <2> HIDE DEF rest
  <2>5. SumFunctionOnSet(f, R \cup s) = f[x] + SumFunctionOnSet(f, rest)
    BY <2>2, SumAdd
  <2>6. QED
    BY <1>0, <2>3, <2>4, <2>5
<1> HIDE DEF T
<1>3. SUBSET (S \ R) \subseteq T
  BY <1>0, <1>1, <1>2, SubsetInduction
<1>4. S \ R \in T /\ R \cup (S \ R) = S
  BY <1>3
<1>5. QED
  BY <1>4 DEF T

\* Equal terms make equal sums: a step that leaves the rows alone.
THEOREM SumAgree ==
  ASSUME NEW S, IsFiniteSet(S), NEW f, NEW g,
         \A x \in S : f[x] \in Int /\ g[x] = f[x]
  PROVE  SumFunctionOnSet(g, S) = SumFunctionOnSet(f, S)
<1>1. /\ SumFunctionOnSet(f, S) <= SumFunctionOnSet(g, S)
      /\ SumFunctionOnSet(g, S) <= SumFunctionOnSet(f, S)
  BY SumMonotonic
<1>2. SumFunctionOnSet(f, S) \in Int /\ SumFunctionOnSet(g, S) \in Int
  BY SumType
<1>3. QED
  BY <1>1, <1>2

\* One changed term changes the sum by the difference: an edit or a void.
THEOREM SumChange ==
  ASSUME NEW S, IsFiniteSet(S), NEW x \in S, NEW f, NEW g,
         \A y \in S : f[y] \in Int /\ g[y] \in Int,
         \A y \in S : y # x => g[y] = f[y]
  PROVE  SumFunctionOnSet(g, S) = SumFunctionOnSet(f, S) - f[x] + g[x]
<1>1. SumFunctionOnSet(f, S) = f[x] + SumFunctionOnSet(f, S \ {x})
  BY SumSplit
<1>2. SumFunctionOnSet(g, S) = g[x] + SumFunctionOnSet(g, S \ {x})
  BY SumSplit
<1>3. IsFiniteSet(S \ {x})
  BY FS_Subset
<1>4. SumFunctionOnSet(g, S \ {x}) = SumFunctionOnSet(f, S \ {x})
  BY <1>3, SumAgree
<1>5. SumFunctionOnSet(f, S \ {x}) \in Int
  BY <1>3, SumType
<1>6. QED
  BY <1>1, <1>2, <1>4, <1>5
================================================================================
