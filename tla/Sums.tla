-------------------------------- MODULE Sums --------------------------------
(***************************************************************************)
(* Facts about SumFunctionOnSet, the sum of f[x] for x in a finite set.    *)
(* The operator folds the set through a recursive function on its subsets, *)
(* so first that the recursion has a solution, then that taking any        *)
(* element out first gives the same sum.  Each induction picks a smallest  *)
(* counterexample, from the well-foundedness of the strict subsets of a    *)
(* finite set and of the natural numbers.                                  *)
(***************************************************************************)
EXTENDS Functions, FiniteSetTheorems, WellFoundedInduction, Integers, TLAPS

Pick(s) == CHOOSE x \in s : TRUE

\* One step of the fold, g being the sums of the smaller sets.
Unfolded(f, g, s) == IF s = {} THEN 0 ELSE f[Pick(s)] + g[s \ {Pick(s)}]

\* The sums of all the subsets of S.
Fold(f, S) == CHOOSE g : g = [s \in SUBSET S |-> Unfolded(f, g, s)]

LEMMA FoldIs ==
  ASSUME NEW f, NEW S
  PROVE  SumFunctionOnSet(f, S) = Fold(f, S)[S]
BY DEF SumFunctionOnSet, FoldFunctionOnSet, MapThenFoldSet, Fold, Unfolded, Pick

(***************************************************************************)
(* Smallest counterexamples.                                               *)
(***************************************************************************)
LEMMA SmallestNumber ==
  ASSUME NEW T \in SUBSET Nat, T # {}
  PROVE  \E n \in T : \A m \in T : n <= m
<1>0. IsWellFoundedOn(OpToRel(<, Nat), Nat)
  BY NatLessThanWellFounded
<1>1. PICK n \in T : \A m \in T : ~(<<m, n>> \in OpToRel(<, Nat))
  BY <1>0, WFMin, Zenon
<1>2. OpToRel(<, Nat) = {ss \in Nat \X Nat : ss[1] < ss[2]}
  BY Zenon DEF OpToRel
<1>3. \A m \in T : ~(m < n)
  BY <1>1, <1>2
<1> QED BY <1>3

LEMMA SmallestSubset ==
  ASSUME NEW S, IsFiniteSet(S), NEW P \in SUBSET (SUBSET S), P # {}
  PROVE  \E s \in P : \A r \in P : r \subseteq s => r = s
<1>1. IsWellFoundedOn(StrictSubsetOrdering(S), SUBSET S)
  BY FS_FiniteSubsetsOfFinite, FS_StrictSubsetOrderingWellFounded
<1>2. PICK s \in P : \A r \in P : ~(<<r, s>> \in StrictSubsetOrdering(S))
  BY <1>1, WFMin
<1> QED BY <1>2 DEF StrictSubsetOrdering

(***************************************************************************)
(* The recursion of the fold has a solution: for sets of n elements by     *)
(* induction on n.                                                         *)
(***************************************************************************)
FoldsTo(f, g, S, n) ==
  /\ g \in [SUBSET S -> Int]
  /\ \A s \in SUBSET S : Cardinality(s) <= n => g[s] = Unfolded(f, g, s)

LEMMA UnfoldedType ==
  ASSUME NEW f, NEW S, \A x \in S : f[x] \in Int, NEW g \in [SUBSET S -> Int],
         NEW s \in SUBSET S
  PROVE  Unfolded(f, g, s) \in Int
<1>1. s # {} => Pick(s) \in s
  BY DEF Pick
<1>2. s # {} => f[Pick(s)] \in Int /\ g[s \ {Pick(s)}] \in Int
  BY <1>1
<1> QED BY <1>2 DEF Unfolded

LEMMA FoldStep ==
  ASSUME NEW f, NEW S, IsFiniteSet(S), \A x \in S : f[x] \in Int, NEW n \in Nat, NEW g, FoldsTo(f, g, S, n)
  PROVE  \E h : FoldsTo(f, h, S, n + 1)
<1> DEFINE h == [s \in SUBSET S |-> IF Cardinality(s) <= n THEN g[s] ELSE Unfolded(f, g, s)]
<1>1. ASSUME NEW s \in SUBSET S, Cardinality(s) <= n + 1
      PROVE  h[s] = Unfolded(f, h, s)
  <2>1. Cardinality(s) \in Nat /\ IsFiniteSet(s)
    BY FS_Subset, FS_CardinalityType
  <2>2. h[s] = Unfolded(f, g, s)
    BY DEF FoldsTo
  <2>3. CASE s = {}
    BY <2>2, <2>3 DEF Unfolded
  <2>4. CASE s # {}
    <3>1. Pick(s) \in s
      BY <2>4 DEF Pick
    <3>a. Cardinality(s \ {Pick(s)}) = Cardinality(s) - 1
      BY <2>1, <3>1, FS_RemoveElement
    <3>2. Cardinality(s \ {Pick(s)}) <= n
      BY <1>1, <2>1, <3>a
    <3>3. h[s \ {Pick(s)}] = g[s \ {Pick(s)}]
      BY <3>2
    <3> QED BY <2>2, <2>4, <3>3 DEF Unfolded
  <2> QED BY <2>3, <2>4
<1>2. h \in [SUBSET S -> Int]
  BY UnfoldedType DEF FoldsTo
<1> HIDE DEF h
<1>3. FoldsTo(f, h, S, n + 1)
  BY <1>1, <1>2 DEF FoldsTo
<1> QED BY <1>3

LEMMA FoldExists ==
  ASSUME NEW f, NEW S, IsFiniteSet(S), \A x \in S : f[x] \in Int
  PROVE  \E g : g = [s \in SUBSET S |-> Unfolded(f, g, s)]
<1> DEFINE Bad == {n \in Nat : ~\E g : FoldsTo(f, g, S, n)}
<1>1. \E g : FoldsTo(f, g, S, 0)
  <2> DEFINE g == [s \in SUBSET S |-> 0]
  <2>1. \A s \in SUBSET S : Cardinality(s) <= 0 => s = {}
    BY FS_Subset, FS_CardinalityType, FS_EmptySet
  <2>2. FoldsTo(f, g, S, 0)
    BY <2>1 DEF FoldsTo, Unfolded
  <2> QED BY <2>2
<1>2. Bad = {}
  <2> SUFFICES ASSUME Bad # {} PROVE FALSE
    OBVIOUS
  <2>1. PICK n \in Bad : \A m \in Bad : n <= m
    BY SmallestNumber
  <2>2. n # 0 /\ n \in Nat
    BY <1>1
  <2>3. n - 1 \in Nat /\ n - 1 \notin Bad
    BY <2>1, <2>2
  <2>4. \E g : FoldsTo(f, g, S, n - 1)
    BY <2>3
  <2>5. \E g : FoldsTo(f, g, S, (n - 1) + 1)
    BY <2>3, <2>4, FoldStep
  <2> QED BY <2>2, <2>5
<1>3. Cardinality(S) \in Nat
  BY FS_CardinalityType
<1>4. PICK g : FoldsTo(f, g, S, Cardinality(S))
  BY <1>2, <1>3
<1>5. \A s \in SUBSET S : Cardinality(s) <= Cardinality(S)
  BY FS_Subset
<1>6. \A s \in SUBSET S : g[s] = Unfolded(f, g, s)
  BY <1>4, <1>5 DEF FoldsTo
<1>8. g = [s \in SUBSET S |-> g[s]]
  BY <1>4 DEF FoldsTo
<1> QED BY <1>6, <1>8

LEMMA FoldDef ==
  ASSUME NEW f, NEW S, IsFiniteSet(S), \A x \in S : f[x] \in Int
  PROVE  /\ Fold(f, S) = [s \in SUBSET S |-> Unfolded(f, Fold(f, S), s)]
         /\ \A s \in SUBSET S : Fold(f, S)[s] = Unfolded(f, Fold(f, S), s)
<1>1. Fold(f, S) = [s \in SUBSET S |-> Unfolded(f, Fold(f, S), s)]
  BY FoldExists, Zenon DEF Fold
<1>2. \A s \in SUBSET S : [t \in SUBSET S |-> Unfolded(f, Fold(f, S), t)][s]
                              = Unfolded(f, Fold(f, S), s)
  OBVIOUS
<1> QED BY <1>1, <1>2, Zenon

LEMMA FoldAt ==
  ASSUME NEW f, NEW S, IsFiniteSet(S), \A x \in S : f[x] \in Int, NEW s \in SUBSET S
  PROVE  Fold(f, S)[s] = Unfolded(f, Fold(f, S), s)
BY FoldDef, Zenon

\* What the fold of a set gives its subsets does not depend on the set.
LEMMA FoldAgrees ==
  ASSUME NEW f, NEW V, IsFiniteSet(V), \A x \in V : f[x] \in Int,
         NEW S \in SUBSET V, NEW T \in SUBSET S
  PROVE  Fold(f, S)[T] = SumFunctionOnSet(f, T)
<1> DEFINE Differ == {s \in SUBSET V : \E A, B \in SUBSET V :
                        s \subseteq A /\ s \subseteq B /\ Fold(f, A)[s] # Fold(f, B)[s]}
<1>1. Differ = {}
  <2> SUFFICES ASSUME Differ # {} PROVE FALSE
    OBVIOUS
  <2>0. Differ \in SUBSET (SUBSET V) /\ Differ # {}
    OBVIOUS
  <2>1. PICK s \in Differ : \A r \in Differ : r \subseteq s => r = s
    <3> HIDE DEF Differ
    <3> QED BY <2>0, SmallestSubset
  <2>2. PICK A \in SUBSET V, B \in SUBSET V :
               s \subseteq A /\ s \subseteq B /\ Fold(f, A)[s] # Fold(f, B)[s]
    OBVIOUS
  <2>3. ASSUME NEW C \in {A, B}
        PROVE  Fold(f, C)[s] = IF s = {} THEN 0
                               ELSE f[Pick(s)] + Fold(f, C)[s \ {Pick(s)}]
    <3>1. C \in SUBSET V /\ s \in SUBSET C /\ IsFiniteSet(C) /\ \A x \in C : f[x] \in Int
      BY <2>2, FS_Subset
    <3>2. Fold(f, C)[s] = Unfolded(f, Fold(f, C), s)
      BY <3>1, FoldAt
    <3> QED BY <3>2 DEF Unfolded
  <2>4. s # {}
    BY <2>2, <2>3
  <2>5. Pick(s) \in s
    BY <2>4 DEF Pick
  <2>6. s \ {Pick(s)} \notin Differ
    BY <2>1, <2>5
  <2>7. Fold(f, A)[s \ {Pick(s)}] = Fold(f, B)[s \ {Pick(s)}]
    BY <2>2, <2>6
  <2> QED BY <2>2, <2>3, <2>4, <2>7
<1>2. Fold(f, S)[T] = Fold(f, T)[T]
  BY <1>1
<1> QED BY <1>2, FoldIs

LEMMA SumUnfolds ==
  ASSUME NEW f, NEW S, IsFiniteSet(S), \A x \in S : f[x] \in Int
  PROVE  SumFunctionOnSet(f, S)
           = IF S = {} THEN 0 ELSE f[Pick(S)] + SumFunctionOnSet(f, S \ {Pick(S)})
<1>1. SumFunctionOnSet(f, S) = Unfolded(f, Fold(f, S), S)
  <2>1. S \in SUBSET S
    OBVIOUS
  <2>2. Fold(f, S)[S] = Unfolded(f, Fold(f, S), S)
    BY <2>1, FoldAt
  <2> QED BY <2>2, FoldIs, Zenon
<1>2. S # {} => Fold(f, S)[S \ {Pick(S)}] = SumFunctionOnSet(f, S \ {Pick(S)})
  BY FoldAgrees
<1> QED BY <1>1, <1>2 DEF Unfolded

(***************************************************************************)
(* What the other modules use.                                             *)
(***************************************************************************)
LEMMA SumEmpty == \A f : SumFunctionOnSet(f, {}) = 0
BY SumUnfolds, FS_EmptySet

LEMMA SumType ==
  ASSUME NEW f, NEW S, IsFiniteSet(S), \A x \in S : f[x] \in Int
  PROVE  SumFunctionOnSet(f, S) \in Int
<1> DEFINE Bad == {s \in SUBSET S : SumFunctionOnSet(f, s) \notin Int}
<1>1. Bad = {}
  <2> SUFFICES ASSUME Bad # {} PROVE FALSE
    OBVIOUS
  <2>0. Bad \in SUBSET (SUBSET S) /\ Bad # {}
    OBVIOUS
  <2>1. PICK s \in Bad : \A r \in Bad : r \subseteq s => r = s
    <3> HIDE DEF Bad
    <3> QED BY <2>0, SmallestSubset
  <2>2. IsFiniteSet(s) /\ s \in SUBSET S
    BY FS_Subset
  <2>3. SumFunctionOnSet(f, s)
           = IF s = {} THEN 0 ELSE f[Pick(s)] + SumFunctionOnSet(f, s \ {Pick(s)})
    BY <2>2, SumUnfolds
  <2>4. s # {}
    BY <2>3
  <2>5. Pick(s) \in s
    BY <2>4 DEF Pick
  <2>6. s \ {Pick(s)} \notin Bad
    BY <2>1, <2>5
  <2>7. SumFunctionOnSet(f, s \ {Pick(s)}) \in Int /\ f[Pick(s)] \in Int
    BY <2>2, <2>5, <2>6
  <2> QED BY <2>3, <2>7
<1> QED BY <1>1

\* Any element may be taken out first.
LEMMA SumRemove ==
  ASSUME NEW f, NEW S, IsFiniteSet(S), \A x \in S : f[x] \in Int, NEW x \in S
  PROVE  SumFunctionOnSet(f, S) = f[x] + SumFunctionOnSet(f, S \ {x})
<1> DEFINE Bad == {s \in SUBSET S : \E y \in s :
                     SumFunctionOnSet(f, s) # f[y] + SumFunctionOnSet(f, s \ {y})}
<1>1. Bad = {}
  <2> SUFFICES ASSUME Bad # {} PROVE FALSE
    OBVIOUS
  <2>0. Bad \in SUBSET (SUBSET S) /\ Bad # {}
    OBVIOUS
  <2>1. PICK s \in Bad : \A r \in Bad : r \subseteq s => r = s
    <3> HIDE DEF Bad
    <3> QED BY <2>0, SmallestSubset
  <2>2. PICK y \in s : SumFunctionOnSet(f, s) # f[y] + SumFunctionOnSet(f, s \ {y})
    OBVIOUS
  <2> DEFINE c == Pick(s)
             rest == s \ {c, y}
  <2>3. IsFiniteSet(s) /\ s \in SUBSET S /\ c \in s
    BY FS_Subset DEF Pick
  <2>4. SumFunctionOnSet(f, s) = f[c] + SumFunctionOnSet(f, s \ {c})
    BY <2>3, SumUnfolds
  <2>5. c # y
    BY <2>2, <2>4
  <2>6. s \ {c} \notin Bad /\ s \ {y} \notin Bad
    BY <2>1, <2>3, <2>2
  <2>7. y \in s \ {c} /\ (s \ {c}) \ {y} = rest /\ c \in s \ {y} /\ (s \ {y}) \ {c} = rest
    BY <2>2, <2>3, <2>5
  <2>8. SumFunctionOnSet(f, s \ {c}) = f[y] + SumFunctionOnSet(f, rest)
    BY <2>3, <2>6, <2>7
  <2>9. SumFunctionOnSet(f, s \ {y}) = f[c] + SumFunctionOnSet(f, rest)
    BY <2>3, <2>6, <2>7
  <2>10. f[y] \in Int /\ f[c] \in Int /\ SumFunctionOnSet(f, rest) \in Int
    <3>1. IsFiniteSet(rest) /\ rest \in SUBSET S
      BY <2>3, FS_Subset
    <3> QED BY <2>2, <2>3, <3>1, SumType
  <2> HIDE DEF c, rest
  <2> QED BY <2>2, <2>4, <2>8, <2>9, <2>10
<1> QED BY <1>1

LEMMA SumAdd ==
  ASSUME NEW f, NEW S, IsFiniteSet(S), NEW x, x \notin S,
         \A y \in S \cup {x} : f[y] \in Int
  PROVE  SumFunctionOnSet(f, S \cup {x}) = f[x] + SumFunctionOnSet(f, S)
<1>1. IsFiniteSet(S \cup {x}) /\ (S \cup {x}) \ {x} = S /\ x \in S \cup {x}
  BY FS_AddElement
<1> QED BY <1>1, SumRemove

LEMMA SumSame ==
  ASSUME NEW f, NEW g, NEW S, IsFiniteSet(S),
         \A x \in S : f[x] = g[x] /\ f[x] \in Int
  PROVE  SumFunctionOnSet(f, S) = SumFunctionOnSet(g, S)
<1> DEFINE Bad == {s \in SUBSET S : SumFunctionOnSet(f, s) # SumFunctionOnSet(g, s)}
<1>1. Bad = {}
  <2> SUFFICES ASSUME Bad # {} PROVE FALSE
    OBVIOUS
  <2>0. Bad \in SUBSET (SUBSET S) /\ Bad # {}
    OBVIOUS
  <2>1. PICK s \in Bad : \A r \in Bad : r \subseteq s => r = s
    <3> HIDE DEF Bad
    <3> QED BY <2>0, SmallestSubset
  <2>2. IsFiniteSet(s) /\ s \in SUBSET S
    BY FS_Subset
  <2>3. /\ SumFunctionOnSet(f, s)
             = IF s = {} THEN 0 ELSE f[Pick(s)] + SumFunctionOnSet(f, s \ {Pick(s)})
        /\ SumFunctionOnSet(g, s)
             = IF s = {} THEN 0 ELSE g[Pick(s)] + SumFunctionOnSet(g, s \ {Pick(s)})
    BY <2>2, SumUnfolds
  <2>4. s # {}
    BY <2>3
  <2>5. Pick(s) \in s
    BY <2>4 DEF Pick
  <2>6. s \ {Pick(s)} \notin Bad
    BY <2>1, <2>5
  <2> QED BY <2>2, <2>3, <2>5, <2>6
<1> QED BY <1>1

\* Terms that are zero may be left out.
LEMMA SumSupport ==
  ASSUME NEW f, NEW S, IsFiniteSet(S), \A x \in S : f[x] \in Int,
         NEW T \in SUBSET S, \A x \in S \ T : f[x] = 0
  PROVE  SumFunctionOnSet(f, S) = SumFunctionOnSet(f, T)
<1> DEFINE Bad == {s \in SUBSET S :
                     SumFunctionOnSet(f, s) # SumFunctionOnSet(f, s \cap T)}
<1>1. Bad = {}
  <2> SUFFICES ASSUME Bad # {} PROVE FALSE
    OBVIOUS
  <2>0. Bad \in SUBSET (SUBSET S) /\ Bad # {}
    OBVIOUS
  <2>1. PICK s \in Bad : \A r \in Bad : r \subseteq s => r = s
    <3> HIDE DEF Bad
    <3> QED BY <2>0, SmallestSubset
  <2>2. PICK y \in s : y \notin T
    <3>1. s \cap T # s
      OBVIOUS
    <3> QED BY <3>1
  <2>3. /\ IsFiniteSet(s) /\ s \in SUBSET S /\ y \in S
        /\ IsFiniteSet(s \ {y}) /\ (s \ {y}) \cap T = s \cap T
    BY <2>2, FS_Subset
  <2>4. s \ {y} \notin Bad
    BY <2>1
  <2>5. SumFunctionOnSet(f, s) = f[y] + SumFunctionOnSet(f, s \ {y})
    BY <2>3, SumRemove
  <2>6. f[y] = 0 /\ SumFunctionOnSet(f, s \ {y}) \in Int
    BY <2>2, <2>3, SumType
  <2>7. SumFunctionOnSet(f, s \ {y}) = SumFunctionOnSet(f, (s \ {y}) \cap T)
    BY <2>3, <2>4
  <2>8. SumFunctionOnSet(f, s \ {y}) = SumFunctionOnSet(f, s \cap T)
    BY <2>3, <2>7, Zenon
  <2>9. SumFunctionOnSet(f, s) = SumFunctionOnSet(f, s \cap T)
    BY <2>5, <2>6, <2>8
  <2> QED BY <2>9
<1>2. S \cap T = T /\ S \in SUBSET S
  OBVIOUS
<1> QED BY <1>1, <1>2

LEMMA SumNat ==
  ASSUME NEW f, NEW S, IsFiniteSet(S), \A x \in S : f[x] \in Nat
  PROVE  SumFunctionOnSet(f, S) \in Nat
<1> DEFINE Bad == {s \in SUBSET S : SumFunctionOnSet(f, s) \notin Nat}
<1>1. Bad = {}
  <2> SUFFICES ASSUME Bad # {} PROVE FALSE
    OBVIOUS
  <2>0. Bad \in SUBSET (SUBSET S) /\ Bad # {}
    OBVIOUS
  <2>1. PICK s \in Bad : \A r \in Bad : r \subseteq s => r = s
    <3> HIDE DEF Bad
    <3> QED BY <2>0, SmallestSubset
  <2>2. s # {}
    BY SumEmpty
  <2>3. PICK y \in s : TRUE
    BY <2>2
  <2>4. IsFiniteSet(s) /\ (\A x \in s : f[x] \in Int) /\ f[y] \in Nat
    BY FS_Subset
  <2>5. s \ {y} \notin Bad
    BY <2>1
  <2>6. SumFunctionOnSet(f, s) = f[y] + SumFunctionOnSet(f, s \ {y})
    BY <2>4, SumRemove
  <2> QED BY <2>4, <2>5, <2>6
<1> QED BY <1>1

\* One term changes.
LEMMA SumChange ==
  ASSUME NEW f, NEW g, NEW S, IsFiniteSet(S), NEW x \in S,
         \A y \in S : f[y] \in Int /\ g[y] \in Int,
         \A y \in S \ {x} : f[y] = g[y]
  PROVE  SumFunctionOnSet(g, S) = SumFunctionOnSet(f, S) - f[x] + g[x]
<1>1. IsFiniteSet(S \ {x})
  BY FS_RemoveElement
<1>2. SumFunctionOnSet(f, S \ {x}) = SumFunctionOnSet(g, S \ {x})
      /\ SumFunctionOnSet(f, S \ {x}) \in Int
  BY <1>1, SumSame, SumType
<1>3. /\ SumFunctionOnSet(f, S) = f[x] + SumFunctionOnSet(f, S \ {x})
      /\ SumFunctionOnSet(g, S) = g[x] + SumFunctionOnSet(g, S \ {x})
  BY SumRemove
<1> QED BY <1>2, <1>3

LEMMA SumConstant ==
  ASSUME NEW f, NEW S, IsFiniteSet(S), NEW c \in Int, \A x \in S : f[x] = c
  PROVE  SumFunctionOnSet(f, S) = c * Cardinality(S)
<1> DEFINE Bad == {s \in SUBSET S : SumFunctionOnSet(f, s) # c * Cardinality(s)}
<1>1. Bad = {}
  <2> SUFFICES ASSUME Bad # {} PROVE FALSE
    OBVIOUS
  <2>0. Bad \in SUBSET (SUBSET S) /\ Bad # {}
    OBVIOUS
  <2>1. PICK s \in Bad : \A r \in Bad : r \subseteq s => r = s
    <3> HIDE DEF Bad
    <3> QED BY <2>0, SmallestSubset
  <2>2. s # {}
    <3>1. SumFunctionOnSet(f, {}) = 0 /\ Cardinality({}) = 0 /\ c * 0 = 0
      BY SumEmpty, FS_EmptySet
    <3>2. SumFunctionOnSet(f, {}) = c * Cardinality({})
      BY <3>1, Zenon
    <3> QED BY <3>2
  <2>3. PICK y \in s : TRUE
    BY <2>2
  <2>4. IsFiniteSet(s) /\ (\A x \in s : f[x] \in Int) /\ f[y] = c
    BY FS_Subset
  <2>5. s \ {y} \notin Bad
    BY <2>1
  <2>6. SumFunctionOnSet(f, s) = c + SumFunctionOnSet(f, s \ {y})
    BY <2>4, SumRemove
  <2>7. SumFunctionOnSet(f, s \ {y}) = c * Cardinality(s \ {y})
    BY <2>5
  <2>8. /\ Cardinality(s) \in Nat /\ Cardinality(s \ {y}) = Cardinality(s) - 1
    BY <2>4, FS_RemoveElement, FS_CardinalityType
  <2>9. \A n \in Nat : c + c * (n - 1) = c * n
    OBVIOUS
  <2>10. SumFunctionOnSet(f, s) = c * Cardinality(s)
    <3>1. c + c * (Cardinality(s) - 1) = c * Cardinality(s)
      BY <2>8, <2>9
    <3> QED BY <2>6, <2>7, <2>8, <3>1, Zenon
  <2> QED BY <2>10
<1> QED BY <1>1
=============================================================================
