------------------------------ MODULE SumTheorems ------------------------------
(***************************************************************************)
(* Sums over finite sets, as the models write them: SumFunction of the     *)
(* community modules, whose definition folds over the subsets of its       *)
(* indices, taking out the element that CHOOSE picks.                      *)
(***************************************************************************)
EXTENDS Functions, FiniteSets, Integers, FiniteSetTheorems, TLAPS

\* A set with 0 and the successor of each of its numbers has them all.
LEMMA CountingUp ==
    ASSUME NEW G, 0 \in G, \A n \in Nat : n \in G => n + 1 \in G
    PROVE  Nat \subseteq G
<1> DEFINE R == {ss \in Nat \X Nat : ss[1] < ss[2]}
           Bad == Nat \ G
<1> SUFFICES ASSUME Bad # {} PROVE FALSE
  OBVIOUS
<1>1. IsWellFoundedOn(R, Nat)
  BY NatLessThanWellFounded DEF OpToRel
<1>2. Bad \subseteq Nat
  OBVIOUS
<1> HIDE DEF Bad
<1>3. PICK n \in Bad : \A m \in Bad : ~ (<<m, n>> \in R)
  <2> HIDE DEF R
  <2>1. \A RR, SS, TT : IsWellFoundedOn(RR, SS) /\ TT \subseteq SS /\ TT # {} =>
           \E x \in TT : \A y \in TT : ~ (<<y, x>> \in RR)
    BY WFMin
  <2> QED BY <1>1, <1>2, <2>1
<1>4. n \in Nat /\ n # 0
  BY DEF Bad
<1>5. n - 1 \in Nat /\ n - 1 < n /\ n = (n - 1) + 1
  BY <1>4
<1>6. n - 1 \notin Bad
  BY <1>3, <1>4, <1>5
<1> QED BY <1>4, <1>5, <1>6 DEF Bad

\* A collection of subsets of a finite set that contains a set whenever it
\* contains all its strict subsets contains the set itself.
LEMMA SubsetInduction ==
    ASSUME NEW S, IsFiniteSet(S), NEW G,
           \A T \in SUBSET S : (\A U \in SUBSET T : U # T => U \in G) => T \in G
    PROVE  S \in G
<1> DEFINE R == StrictSubsetOrdering(S)
           Bad == (SUBSET S) \ G
<1> SUFFICES ASSUME Bad # {} PROVE FALSE
  OBVIOUS
<1>1. IsWellFoundedOn(R, SUBSET S)
  <2>1. FiniteSubsetsOf(S) = SUBSET S
    BY FS_FiniteSubsetsOfFinite
  <2>2. IsWellFoundedOn(StrictSubsetOrdering(S), FiniteSubsetsOf(S))
    BY FS_StrictSubsetOrderingWellFounded
  <2> QED BY <2>1, <2>2
<1>2. PICK T \in Bad : \A U \in Bad : ~ (<<U, T>> \in R)
  <2>1. Bad \subseteq SUBSET S
    OBVIOUS
  <2> HIDE DEF R, Bad
  <2>2. \A RR, SS, TT : IsWellFoundedOn(RR, SS) /\ TT \subseteq SS /\ TT # {} =>
                   \E x \in TT : \A y \in TT : ~ (<<y, x>> \in RR)
    BY WFMin
  <2> QED BY <1>1, <2>1, <2>2
<1>3. \A U \in SUBSET T : U # T => U \in G
  BY <1>2 DEF StrictSubsetOrdering
<1> QED BY <1>2, <1>3

-----------------------------------------------------------------------------
(* The fold is defined *)

\* The equation of the fold over the subsets of S.
IsFold(f, S, g) ==
    g = [s \in SUBSET S |-> IF s = {} THEN 0
                            ELSE LET x == CHOOSE x \in s : TRUE IN f[x] + g[s \ {x}]]

\* What SumFunctionOnSet means by "iter".
Folded(f, S) == CHOOSE g : IsFold(f, S, g)

\* A sum is the fold over its indices.
LEMMA SumIsFolded ==
    ASSUME NEW f, NEW S
    PROVE  SumFunctionOnSet(f, S) = Folded(f, S)[S]
BY DEF SumFunctionOnSet, FoldFunctionOnSet, MapThenFoldSet, Folded, IsFold

\* There is a function that satisfies the equation everywhere: one that does
\* so for the subsets of at most n elements can be put right for the next
\* size, and the sizes end with that of S.
LEMMA FoldExists ==
    ASSUME NEW f, NEW S, IsFiniteSet(S)
    PROVE  \E g : IsFold(f, S, g)
<1> DEFINE Value(g, s) == IF s = {} THEN 0
                          ELSE f[CHOOSE x \in s : TRUE] + g[s \ {CHOOSE x \in s : TRUE}]
           Upto(n) == \E g : /\ g = [s \in SUBSET S |-> g[s]]
                             /\ \A s \in SUBSET S : Cardinality(s) <= n => g[s] = Value(g, s)
<1>1. \A s \in SUBSET S : IsFiniteSet(s) /\ Cardinality(s) \in Nat /\ Cardinality(s) <= Cardinality(S)
  BY FS_Subset, FS_CardinalityType
<1>2. \A s \in SUBSET S : s # {} =>
         /\ s \ {CHOOSE x \in s : TRUE} \in SUBSET S
         /\ Cardinality(s \ {CHOOSE x \in s : TRUE}) = Cardinality(s) - 1
  BY <1>1, FS_RemoveElement
<1>3. Upto(0)
  <2> DEFINE g == [s \in SUBSET S |-> 0]
  <2>1. \A s \in SUBSET S : Cardinality(s) <= 0 => s = {}
    BY <1>1, FS_EmptySet
  <2>2. g = [s \in SUBSET S |-> g[s]]
    OBVIOUS
  <2>3. \A s \in SUBSET S : Cardinality(s) <= 0 => g[s] = Value(g, s)
    BY <2>1
  <2> HIDE DEF g, Value
  <2> QED BY <2>2, <2>3
<1>4. ASSUME NEW n \in Nat, Upto(n)
      PROVE  Upto(n + 1)
  <2>1. PICK g : /\ g = [s \in SUBSET S |-> g[s]]
                 /\ \A s \in SUBSET S : Cardinality(s) <= n => g[s] = Value(g, s)
    BY <1>4
  <2> DEFINE h == [s \in SUBSET S |-> IF Cardinality(s) <= n THEN g[s] ELSE Value(g, s)]
  <2>2. h = [s \in SUBSET S |-> h[s]]
    OBVIOUS
  <2>3. ASSUME NEW s \in SUBSET S, Cardinality(s) <= n + 1
        PROVE  h[s] = Value(h, s)
    <3>1. h[s] = Value(g, s)
      BY <2>1
    <3>2. CASE s = {}
      BY <3>1, <3>2
    <3>3. CASE s # {}
      <4>1. /\ s \ {CHOOSE x \in s : TRUE} \in SUBSET S
            /\ Cardinality(s \ {CHOOSE x \in s : TRUE}) <= n
        BY <1>1, <1>2, <2>3, <3>3
      <4>2. h[s \ {CHOOSE x \in s : TRUE}] = g[s \ {CHOOSE x \in s : TRUE}]
        BY <4>1
      <4> QED BY <3>1, <3>3, <4>2
    <3> QED BY <3>2, <3>3
  <2> HIDE DEF h, Value
  <2> QED BY <2>2, <2>3
<1>5. \A n \in Nat : Upto(n)
  <2> DEFINE G == {n \in Nat : Upto(n)}
  <2> HIDE DEF Upto
  <2>1. 0 \in G /\ \A n \in Nat : n \in G => n + 1 \in G
    BY <1>3, <1>4
  <2> HIDE DEF G
  <2>2. Nat \subseteq G
    BY <2>1, CountingUp
  <2> QED BY <2>2 DEF G
<1>6. PICK g : /\ g = [s \in SUBSET S |-> g[s]]
               /\ \A s \in SUBSET S : Cardinality(s) <= Cardinality(S) => g[s] = Value(g, s)
  <2>1. Cardinality(S) \in Nat
    BY FS_CardinalityType
  <2>2. Upto(Cardinality(S))
    <3> HIDE DEF Upto
    <3> QED BY <1>5, <2>1
  <2> HIDE DEF Value
  <2> QED BY <2>2
<1>7. g = [s \in SUBSET S |-> Value(g, s)]
  <2>1. \A s \in SUBSET S : g[s] = Value(g, s)
    BY <1>1, <1>6
  <2> HIDE DEF Value
  <2> QED BY <1>6, <2>1
<1> QED BY <1>7 DEF IsFold

\* So the fold satisfies its equation.
LEMMA FoldedEquation ==
    ASSUME NEW f, NEW S, IsFiniteSet(S), NEW s \in SUBSET S
    PROVE  Folded(f, S)[s] = IF s = {} THEN 0
                             ELSE LET x == CHOOSE x \in s : TRUE
                                  IN f[x] + Folded(f, S)[s \ {x}]
<1> DEFINE G == Folded(f, S)
<1>1. IsFold(f, S, G)
  BY FoldExists DEF Folded
<1> HIDE DEF G
<1>2. G[s] = IF s = {} THEN 0
             ELSE LET x == CHOOSE x \in s : TRUE IN f[x] + G[s \ {x}]
  BY <1>1 DEF IsFold
<1> QED BY <1>2 DEF G

\* It does not matter of which larger set the indices are taken.
LEMMA FoldedOfSubset ==
    ASSUME NEW f, NEW S, IsFiniteSet(S), NEW T \in SUBSET S
    PROVE  Folded(f, S)[T] = Folded(f, T)[T]
<1> DEFINE G == {U \in SUBSET T : Folded(f, S)[U] = Folded(f, T)[U]}
<1>1. IsFiniteSet(T)
  BY FS_Subset
<1>2. ASSUME NEW U \in SUBSET T, \A V \in SUBSET U : V # U => V \in G
      PROVE  U \in G
  <2>1. CASE U = {}
    <3>1. Folded(f, S)[{}] = 0 /\ Folded(f, T)[{}] = 0
      BY <1>1, FoldedEquation
    <3> QED BY <2>1, <3>1
  <2>2. CASE U # {}
    <3> DEFINE x == CHOOSE x \in U : TRUE
    <3>1. x \in U
      BY <2>2
    <3>2. U \ {x} \in SUBSET U /\ U \ {x} # U
      BY <3>1
    <3>3. Folded(f, S)[U \ {x}] = Folded(f, T)[U \ {x}]
      BY <1>2, <3>2
    <3>4. Folded(f, S)[U] = f[x] + Folded(f, S)[U \ {x}]
      BY <2>2, FoldedEquation
    <3>5. Folded(f, T)[U] = f[x] + Folded(f, T)[U \ {x}]
      BY <1>1, <2>2, FoldedEquation
    <3> QED BY <3>3, <3>4, <3>5
  <2> QED BY <2>1, <2>2
<1> HIDE DEF G
<1>3. T \in G
  BY <1>1, <1>2, SubsetInduction
<1> QED BY <1>3 DEF G

-----------------------------------------------------------------------------
(* Sums.  The values are integers; the order of summation is no matter.    *)

\* Nothing adds up to nothing.
LEMMA SumEmpty ==
    ASSUME NEW f
    PROVE  SumFunctionOnSet(f, {}) = 0
BY FoldedEquation, SumIsFolded, FS_EmptySet

\* The definition, one step of it.
LEMMA SumPick ==
    ASSUME NEW f, NEW S, IsFiniteSet(S), S # {}
    PROVE  \E x \in S : SumFunctionOnSet(f, S) = f[x] + SumFunctionOnSet(f, S \ {x})
<1> DEFINE x == CHOOSE x \in S : TRUE
<1>1. x \in S
  OBVIOUS
<1>2. Folded(f, S)[S] = f[x] + Folded(f, S)[S \ {x}]
  <2>1. S \in SUBSET S
    OBVIOUS
  <2>2. \A s \in SUBSET S : s # {} =>
           Folded(f, S)[s] = f[CHOOSE z \in s : TRUE] + Folded(f, S)[s \ {CHOOSE z \in s : TRUE}]
    BY FoldedEquation
  <2> QED BY <2>1, <2>2
<1>3. Folded(f, S)[S \ {x}] = Folded(f, S \ {x})[S \ {x}]
  BY FoldedOfSubset
<1> HIDE DEF x
<1> QED BY <1>1, <1>2, <1>3, SumIsFolded

\* If a collection of subsets contains the empty one, and a set whenever it
\* contains it without one of its elements, it contains the whole set.
LEMMA ElementInduction ==
    ASSUME NEW S, IsFiniteSet(S), NEW G, {} \in G,
           \A T \in SUBSET S : \A x \in T : T \ {x} \in G => T \in G
    PROVE  S \in G
<1>1. ASSUME NEW T \in SUBSET S, \A U \in SUBSET T : U # T => U \in G
      PROVE  T \in G
  <2>1. CASE T # {}
    <3>1. PICK x \in T : TRUE
      BY <2>1
    <3>2. T \ {x} \in SUBSET T /\ T \ {x} # T
      OBVIOUS
    <3> QED BY <1>1, <3>1, <3>2
  <2> QED BY <2>1
<1> QED BY <1>1, SubsetInduction

\* Integers add up to an integer.
LEMMA SumType ==
    ASSUME NEW S, IsFiniteSet(S), NEW f, \A x \in S : f[x] \in Int
    PROVE  SumFunctionOnSet(f, S) \in Int
<1> DEFINE G == {T \in SUBSET S : SumFunctionOnSet(f, T) \in Int}
<1>1. ASSUME NEW T \in SUBSET S, \A U \in SUBSET T : U # T => U \in G
      PROVE  T \in G
  <2>1. CASE T = {}
    BY <2>1, SumEmpty
  <2>2. CASE T # {}
    <3>1. PICK x \in T : SumFunctionOnSet(f, T) = f[x] + SumFunctionOnSet(f, T \ {x})
      BY <2>2, SumPick, FS_Subset
    <3>2. T \ {x} \in G
      BY <1>1
    <3> QED BY <3>1, <3>2
  <2> QED BY <2>1, <2>2
<1> HIDE DEF G
<1>2. S \in G
  BY <1>1, SubsetInduction
<1> QED BY <1>2 DEF G

\* Any element may be taken out first.
LEMMA SumOut ==
    ASSUME NEW S, IsFiniteSet(S), NEW f, \A x \in S : f[x] \in Int, NEW y \in S
    PROVE  SumFunctionOnSet(f, S) = f[y] + SumFunctionOnSet(f, S \ {y})
<1> DEFINE G == {T \in SUBSET S :
                   \A z \in T : SumFunctionOnSet(f, T) = f[z] + SumFunctionOnSet(f, T \ {z})}
<1>1. \A T \in SUBSET S : IsFiniteSet(T) /\ SumFunctionOnSet(f, T) \in Int
  BY SumType, FS_Subset
<1>2. ASSUME NEW T \in SUBSET S, \A U \in SUBSET T : U # T => U \in G, NEW z \in T
      PROVE  SumFunctionOnSet(f, T) = f[z] + SumFunctionOnSet(f, T \ {z})
  <2>1. PICK x \in T : SumFunctionOnSet(f, T) = f[x] + SumFunctionOnSet(f, T \ {x})
    BY <1>1, SumPick
  <2>2. CASE x = z
    BY <2>1, <2>2
  <2>3. CASE x # z
    <3>1. T \ {x} \in G /\ T \ {z} \in G /\ z \in T \ {x} /\ x \in T \ {z}
      BY <1>2, <2>3
    <3>2. /\ SumFunctionOnSet(f, T \ {x}) = f[z] + SumFunctionOnSet(f, (T \ {x}) \ {z})
          /\ SumFunctionOnSet(f, T \ {z}) = f[x] + SumFunctionOnSet(f, (T \ {z}) \ {x})
      BY <3>1
    <3> DEFINE W == (T \ {x}) \ {z}
    <3>3. (T \ {z}) \ {x} = W /\ W \in SUBSET S
      OBVIOUS
    <3>4. /\ SumFunctionOnSet(f, T \ {x}) = f[z] + SumFunctionOnSet(f, W)
          /\ SumFunctionOnSet(f, T \ {z}) = f[x] + SumFunctionOnSet(f, W)
      BY <3>2, <3>3
    <3>5. SumFunctionOnSet(f, W) \in Int /\ f[x] \in Int /\ f[z] \in Int
      BY <1>1, <3>3
    <3> HIDE DEF W
    <3> QED BY <2>1, <3>4, <3>5
  <2> QED BY <2>2, <2>3
<1>3. \A T \in SUBSET S : (\A U \in SUBSET T : U # T => U \in G) => T \in G
  BY <1>2
<1> HIDE DEF G
<1>4. S \in G
  BY <1>3, SubsetInduction
<1> QED BY <1>4 DEF G

\* A sum depends on the values at its indices only.
LEMMA SumSame ==
    ASSUME NEW S, IsFiniteSet(S), NEW f, NEW g,
           \A x \in S : f[x] \in Int /\ f[x] = g[x]
    PROVE  SumFunctionOnSet(f, S) = SumFunctionOnSet(g, S)
<1> DEFINE G == {T \in SUBSET S : SumFunctionOnSet(f, T) = SumFunctionOnSet(g, T)}
<1>1. {} \in G
  BY SumEmpty
<1>2. ASSUME NEW T \in SUBSET S, NEW x \in T, T \ {x} \in G
      PROVE  T \in G
  <2>0. IsFiniteSet(T) /\ \A z \in T : f[z] \in Int /\ g[z] \in Int
    BY FS_Subset
  <2>1. /\ SumFunctionOnSet(f, T) = f[x] + SumFunctionOnSet(f, T \ {x})
        /\ SumFunctionOnSet(g, T) = g[x] + SumFunctionOnSet(g, T \ {x})
    BY <2>0, SumOut
  <2> QED BY <1>2, <2>1
<1> HIDE DEF G
<1>3. S \in G
  BY <1>1, <1>2, ElementInduction
<1> QED BY <1>3 DEF G

\* Of two sums over the same indices, the one with the smaller terms is smaller.
LEMMA SumBelow ==
    ASSUME NEW S, IsFiniteSet(S), NEW f, NEW g,
           \A x \in S : f[x] \in Int /\ g[x] \in Int /\ f[x] <= g[x]
    PROVE  SumFunctionOnSet(f, S) <= SumFunctionOnSet(g, S)
<1> DEFINE G == {T \in SUBSET S : SumFunctionOnSet(f, T) <= SumFunctionOnSet(g, T)}
<1>1. {} \in G
  BY SumEmpty
<1>2. ASSUME NEW T \in SUBSET S, NEW x \in T, T \ {x} \in G
      PROVE  T \in G
  <2>0. /\ IsFiniteSet(T) /\ IsFiniteSet(T \ {x})
        /\ \A z \in T : f[z] \in Int /\ g[z] \in Int /\ f[z] <= g[z]
    BY FS_Subset
  <2>1. /\ SumFunctionOnSet(f, T) = f[x] + SumFunctionOnSet(f, T \ {x})
        /\ SumFunctionOnSet(g, T) = g[x] + SumFunctionOnSet(g, T \ {x})
    BY <2>0, SumOut
  <2>2. SumFunctionOnSet(f, T \ {x}) \in Int /\ SumFunctionOnSet(g, T \ {x}) \in Int
    BY <2>0, SumType
  <2>3. SumFunctionOnSet(f, T \ {x}) <= SumFunctionOnSet(g, T \ {x})
    BY <1>2
  <2> QED BY <2>0, <2>1, <2>2, <2>3
<1> HIDE DEF G
<1>3. S \in G
  BY <1>1, <1>2, ElementInduction
<1> QED BY <1>3 DEF G

\* Two sums over the same indices.
LEMMA SumPlus ==
    ASSUME NEW S, IsFiniteSet(S), NEW f, NEW g, NEW h,
           \A x \in S : f[x] \in Int /\ g[x] \in Int /\ h[x] = f[x] + g[x]
    PROVE  SumFunctionOnSet(h, S) = SumFunctionOnSet(f, S) + SumFunctionOnSet(g, S)
<1> DEFINE G == {T \in SUBSET S :
                   SumFunctionOnSet(h, T) = SumFunctionOnSet(f, T) + SumFunctionOnSet(g, T)}
<1>1. {} \in G
  BY SumEmpty
<1>2. ASSUME NEW T \in SUBSET S, NEW x \in T, T \ {x} \in G
      PROVE  T \in G
  <2>0. /\ IsFiniteSet(T) /\ IsFiniteSet(T \ {x})
        /\ \A z \in T : f[z] \in Int /\ g[z] \in Int /\ h[z] \in Int
    BY FS_Subset
  <2>1. /\ SumFunctionOnSet(f, T) = f[x] + SumFunctionOnSet(f, T \ {x})
        /\ SumFunctionOnSet(g, T) = g[x] + SumFunctionOnSet(g, T \ {x})
        /\ SumFunctionOnSet(h, T) = h[x] + SumFunctionOnSet(h, T \ {x})
    BY <2>0, SumOut
  <2>2. SumFunctionOnSet(f, T \ {x}) \in Int /\ SumFunctionOnSet(g, T \ {x}) \in Int
    BY <2>0, SumType
  <2>3. SumFunctionOnSet(h, T \ {x}) =
          SumFunctionOnSet(f, T \ {x}) + SumFunctionOnSet(g, T \ {x})
    BY <1>2
  <2>4. h[x] = f[x] + g[x] /\ f[x] \in Int /\ g[x] \in Int
    OBVIOUS
  <2> QED BY <2>1, <2>2, <2>3, <2>4
<1> HIDE DEF G
<1>3. S \in G
  BY <1>1, <1>2, ElementInduction
<1> QED BY <1>3 DEF G

\* Indices that fall into two parts.
LEMMA SumUnion ==
    ASSUME NEW S, IsFiniteSet(S), NEW T, IsFiniteSet(T), S \cap T = {},
           NEW f, \A x \in S \cup T : f[x] \in Int
    PROVE  SumFunctionOnSet(f, S \cup T) = SumFunctionOnSet(f, S) + SumFunctionOnSet(f, T)
<1> DEFINE G == {U \in SUBSET S :
                   SumFunctionOnSet(f, U \cup T) = SumFunctionOnSet(f, U) + SumFunctionOnSet(f, T)}
<1>0. SumFunctionOnSet(f, T) \in Int
  BY SumType
<1>1. {} \in G
  <2>1. {} \cup T = T
    OBVIOUS
  <2> QED BY <1>0, <2>1, SumEmpty
<1>2. ASSUME NEW U \in SUBSET S, NEW x \in U, U \ {x} \in G
      PROVE  U \in G
  <2>0. /\ IsFiniteSet(U) /\ IsFiniteSet(U \ {x}) /\ IsFiniteSet(U \cup T)
        /\ \A z \in U \cup T : f[z] \in Int
    BY FS_Subset, FS_Union
  <2>1. (U \cup T) \ {x} = (U \ {x}) \cup T
    OBVIOUS
  <2>2. SumFunctionOnSet(f, U) = f[x] + SumFunctionOnSet(f, U \ {x})
    BY <2>0, SumOut
  <2>3. SumFunctionOnSet(f, U \cup T) = f[x] + SumFunctionOnSet(f, (U \ {x}) \cup T)
    BY <2>0, <2>1, SumOut
  <2>4. SumFunctionOnSet(f, U \ {x}) \in Int
    BY <2>0, SumType
  <2>5. SumFunctionOnSet(f, (U \ {x}) \cup T) =
          SumFunctionOnSet(f, U \ {x}) + SumFunctionOnSet(f, T)
    BY <1>2
  <2>6. SumFunctionOnSet(f, U \cup T) = SumFunctionOnSet(f, U) + SumFunctionOnSet(f, T)
    BY <1>0, <2>0, <2>2, <2>3, <2>4, <2>5
  <2> QED BY <2>6
<1> HIDE DEF G
<1>3. S \in G
  BY <1>1, <1>2, ElementInduction
<1> QED BY <1>3 DEF G

\* Numbers that are not negative add up to one that is not.
LEMMA SumNat ==
    ASSUME NEW S, IsFiniteSet(S), NEW f, \A x \in S : f[x] \in Nat
    PROVE  SumFunctionOnSet(f, S) \in Nat
<1> DEFINE G == {T \in SUBSET S : SumFunctionOnSet(f, T) \in Nat}
<1>1. {} \in G
  BY SumEmpty
<1>2. ASSUME NEW T \in SUBSET S, NEW x \in T, T \ {x} \in G
      PROVE  T \in G
  <2>0. IsFiniteSet(T) /\ \A z \in T : f[z] \in Int
    BY FS_Subset
  <2>1. SumFunctionOnSet(f, T) = f[x] + SumFunctionOnSet(f, T \ {x})
    BY <2>0, SumOut
  <2>2. f[x] \in Nat /\ SumFunctionOnSet(f, T \ {x}) \in Nat
    BY <1>2
  <2> QED BY <2>1, <2>2
<1> HIDE DEF G
<1>3. S \in G
  BY <1>1, <1>2, ElementInduction
<1> QED BY <1>3 DEF G

\* Zeros add up to zero.
LEMMA SumOfZeros ==
    ASSUME NEW S, IsFiniteSet(S), NEW f, \A x \in S : f[x] = 0
    PROVE  SumFunctionOnSet(f, S) = 0
<1> DEFINE G == {T \in SUBSET S : SumFunctionOnSet(f, T) = 0}
<1>1. {} \in G
  BY SumEmpty
<1>2. ASSUME NEW T \in SUBSET S, NEW x \in T, T \ {x} \in G
      PROVE  T \in G
  <2>0. IsFiniteSet(T) /\ \A z \in T : f[z] \in Int
    BY FS_Subset
  <2>1. SumFunctionOnSet(f, T) = f[x] + SumFunctionOnSet(f, T \ {x})
    BY <2>0, SumOut
  <2> QED BY <1>2, <2>1
<1> HIDE DEF G
<1>3. S \in G
  BY <1>1, <1>2, ElementInduction
<1> QED BY <1>3 DEF G

\* A sum with a single term.
LEMMA SumSingle ==
    ASSUME NEW x, NEW f, f[x] \in Int
    PROVE  SumFunctionOnSet(f, {x}) = f[x]
<1> DEFINE S == {x}
<1>1. IsFiniteSet(S) /\ x \in S /\ \A z \in S : f[z] \in Int
  BY FS_Singleton
<1>2. S \ {x} = {}
  OBVIOUS
<1> HIDE DEF S
<1>3. SumFunctionOnSet(f, S) = f[x] + SumFunctionOnSet(f, S \ {x})
  BY <1>1, SumOut
<1> QED BY <1>2, <1>3, SumEmpty DEF S

\* More terms that are not negative make no smaller sum.
LEMMA SumOfSubset ==
    ASSUME NEW S, IsFiniteSet(S), NEW T \in SUBSET S,
           NEW f, \A x \in S : f[x] \in Nat
    PROVE  SumFunctionOnSet(f, T) <= SumFunctionOnSet(f, S)
<1> DEFINE rest == S \ T
<1>1. /\ IsFiniteSet(T) /\ IsFiniteSet(rest) /\ T \cap rest = {} /\ S = T \cup rest
      /\ \A x \in T \cup rest : f[x] \in Nat /\ f[x] \in Int
  BY FS_Subset
<1> HIDE DEF rest
<1>2. SumFunctionOnSet(f, T \cup rest) = SumFunctionOnSet(f, T) + SumFunctionOnSet(f, rest)
  BY <1>1, SumUnion
<1>3. SumFunctionOnSet(f, T) \in Nat /\ SumFunctionOnSet(f, rest) \in Nat
  BY <1>1, SumNat
<1> QED BY <1>1, <1>2, <1>3

\* A sum of differences collapses to the last value minus the first.
LEMMA SumOfDifferences ==
    ASSUME NEW n \in Nat, NEW c, \A k \in 1 .. n + 1 : c[k] \in Int,
           NEW f, \A k \in 1 .. n : f[k] = c[k + 1] - c[k]
    PROVE  SumFunctionOnSet(f, 1 .. n) = c[n + 1] - c[1]
<1> DEFINE G == {m \in Nat : m <= n => SumFunctionOnSet(f, 1 .. m) = c[m + 1] - c[1]}
<1>1. 0 \in G
  <2>1. 1 .. 0 = {} /\ c[1] \in Int
    OBVIOUS
  <2> QED BY <2>1, SumEmpty
<1>2. ASSUME NEW m \in Nat, m \in G
      PROVE  m + 1 \in G
  <2> SUFFICES ASSUME m + 1 <= n
               PROVE  SumFunctionOnSet(f, 1 .. m + 1) = c[m + 1 + 1] - c[1]
    OBVIOUS
  <2>1. SumFunctionOnSet(f, 1 .. m) = c[m + 1] - c[1]
    BY <1>2
  <2>2. /\ c[1] \in Int /\ c[m + 1] \in Int /\ c[m + 1 + 1] \in Int
        /\ f[m + 1] = c[m + 1 + 1] - c[m + 1]
    <3>1. 1 \in 1 .. n + 1 /\ m + 1 \in 1 .. n + 1 /\ m + 1 + 1 \in 1 .. n + 1
          /\ m + 1 \in 1 .. n
      OBVIOUS
    <3> QED BY <3>1
  <2> DEFINE S == 1 .. m + 1
  <2>3. IsFiniteSet(S)
    BY FS_Interval
  <2>6. m + 1 \in S /\ S \ {m + 1} = 1 .. m
    OBVIOUS
  <2>4. ASSUME NEW k \in S PROVE f[k] \in Int
    <3>1. k \in 1 .. n + 1 /\ k + 1 \in 1 .. n + 1 /\ k \in 1 .. n
      OBVIOUS
    <3>2. f[k] = c[k + 1] - c[k] /\ c[k] \in Int /\ c[k + 1] \in Int
      BY <3>1
    <3> QED BY <3>2
  <2> HIDE DEF S
  <2>5. SumFunctionOnSet(f, S) = f[m + 1] + SumFunctionOnSet(f, S \ {m + 1})
    BY <2>3, <2>4, <2>6, SumOut
  <2>7. SumFunctionOnSet(f, S) = (c[m + 1 + 1] - c[m + 1]) + (c[m + 1] - c[1])
    BY <2>1, <2>2, <2>5, <2>6
  <2>8. SumFunctionOnSet(f, S) = c[m + 1 + 1] - c[1]
    BY <2>2, <2>7
  <2> QED BY <2>8 DEF S
<1> HIDE DEF G
<1>3. Nat \subseteq G
  BY <1>1, <1>2, CountingUp
<1> QED BY <1>3 DEF G

\* Counting is summing ones.
LEMMA SumOfOnes ==
    ASSUME NEW S, IsFiniteSet(S), NEW f, \A x \in S : f[x] = 1
    PROVE  SumFunctionOnSet(f, S) = Cardinality(S)
<1> DEFINE G == {T \in SUBSET S : SumFunctionOnSet(f, T) = Cardinality(T)}
<1>1. {} \in G
  BY SumEmpty, FS_EmptySet
<1>2. ASSUME NEW T \in SUBSET S, NEW x \in T, T \ {x} \in G
      PROVE  T \in G
  <2>0. IsFiniteSet(T) /\ IsFiniteSet(T \ {x}) /\ \A z \in T : f[z] \in Int
    BY FS_Subset
  <2>1. SumFunctionOnSet(f, T) = f[x] + SumFunctionOnSet(f, T \ {x})
    BY <2>0, SumOut
  <2>2. Cardinality(T \ {x}) = Cardinality(T) - 1 /\ Cardinality(T) \in Nat
    BY <2>0, FS_RemoveElement, FS_CardinalityType
  <2>3. f[x] = 1 /\ SumFunctionOnSet(f, T \ {x}) = Cardinality(T \ {x})
    BY <1>2
  <2> QED BY <2>1, <2>2, <2>3
<1> HIDE DEF G
<1>3. S \in G
  BY <1>1, <1>2, ElementInduction
<1> QED BY <1>3 DEF G

\* U falls into the finite parts P[k], one for each k.
Parts(P, K, U) ==
    /\ \A k \in K : IsFiniteSet(P[k])
    /\ \A j, k \in K : j # k => P[j] \cap P[k] = {}
    /\ \A x : x \in U <=> \E k \in K : x \in P[k]

\* Summing by parts is summing.
LEMMA SumOfParts ==
    ASSUME NEW K, IsFiniteSet(K), NEW P, NEW U, Parts(P, K, U),
           NEW f, \A x \in U : f[x] \in Int,
           NEW s, \A k \in K : s[k] = SumFunctionOnSet(f, P[k])
    PROVE  SumFunctionOnSet(s, K) = SumFunctionOnSet(f, U)
<1>5. /\ \A k \in K : IsFiniteSet(P[k]) /\ \A x \in P[k] : f[x] \in Int
      /\ \A j, k \in K : j # k => P[j] \cap P[k] = {}
      /\ \A x : x \in U <=> \E k \in K : x \in P[k]
  BY DEF Parts
<1> DEFINE All(J) == UNION {P[k] : k \in J}
           G == {J \in SUBSET K : /\ IsFiniteSet(All(J))
                                  /\ SumFunctionOnSet(s, J) = SumFunctionOnSet(f, All(J))}
<1>0. \A k \in K : s[k] \in Int
  BY <1>5, SumType
<1>1. {} \in G
  <2>1. All({}) = {}
    OBVIOUS
  <2> QED BY <2>1, SumEmpty, FS_EmptySet
<1>2. ASSUME NEW J \in SUBSET K, NEW k \in J, J \ {k} \in G
      PROVE  J \in G
  <2>0. /\ IsFiniteSet(J) /\ \A j \in J : s[j] \in Int
        /\ IsFiniteSet(All(J \ {k})) /\ IsFiniteSet(P[k])
    BY <1>0, <1>2, <1>5, FS_Subset
  <2>1. All(J) = P[k] \cup All(J \ {k}) /\ P[k] \cap All(J \ {k}) = {}
    BY <1>5
  <2> DEFINE A == P[k]
             B == All(J \ {k})
  <2>2. \A x \in A \cup B : f[x] \in Int
    BY <1>5
  <2>3. IsFiniteSet(A) /\ IsFiniteSet(B) /\ All(J) = A \cup B /\ A \cap B = {}
    BY <2>0, <2>1
  <2> HIDE DEF All, A, B
  <2>5. IsFiniteSet(A \cup B)
    BY <2>3, FS_Union
  <2>6. SumFunctionOnSet(f, A \cup B) = SumFunctionOnSet(f, A) + SumFunctionOnSet(f, B)
    BY <2>2, <2>3, SumUnion
  <2>4. SumFunctionOnSet(s, J) = s[k] + SumFunctionOnSet(s, J \ {k})
    BY <2>0, SumOut
  <2>7. SumFunctionOnSet(s, J \ {k}) = SumFunctionOnSet(f, B) /\ s[k] = SumFunctionOnSet(f, A)
    BY <1>2 DEF A, B
  <2>8. IsFiniteSet(All(J)) /\ SumFunctionOnSet(s, J) = SumFunctionOnSet(f, All(J))
    BY <2>3, <2>4, <2>5, <2>6, <2>7
  <2> QED BY <2>8
<1>4. All(K) = U
  BY <1>5
<1> HIDE DEF G
<1>3. K \in G
  BY <1>1, <1>2, ElementInduction
<1> QED BY <1>3, <1>4 DEF G

\* And what falls into parts can be counted by parts.
LEMMA CountByParts ==
    ASSUME NEW K, IsFiniteSet(K), NEW P, NEW U, Parts(P, K, U),
           NEW s, \A k \in K : s[k] = Cardinality(P[k])
    PROVE  /\ IsFiniteSet(U)
           /\ SumFunctionOnSet(s, K) = Cardinality(U)
<1> DEFINE one == [x \in U |-> 1]
<1>7. /\ \A k \in K : IsFiniteSet(P[k]) /\ P[k] \subseteq U
      /\ \A x : x \in U <=> \E k \in K : x \in P[k]
  BY DEF Parts
<1>1. \A k \in K : s[k] = SumFunctionOnSet(one, P[k])
  <2> SUFFICES ASSUME NEW k \in K PROVE s[k] = SumFunctionOnSet(one, P[k])
    OBVIOUS
  <2>1. \A x \in P[k] : one[x] = 1
    BY <1>7
  <2> HIDE DEF one
  <2> QED BY <1>7, <2>1, SumOfOnes
<1>2. \A x \in U : one[x] \in Int
  OBVIOUS
<1>3. IsFiniteSet(U)
  <2>1. IsFiniteSet({P[k] : k \in K})
    <3> DEFINE image == [k \in K |-> P[k]]
               T == {P[k] : k \in K}
    <3>1. image \in Surjection(K, T)
      BY DEF Surjection
    <3> HIDE DEF image, T
    <3>2. IsFiniteSet(T)
      BY <3>1, FS_Surjection
    <3> QED BY <3>2 DEF T
  <2>2. \A T \in {P[k] : k \in K} : IsFiniteSet(T)
    BY <1>7
  <2>3. U = UNION {P[k] : k \in K}
    BY <1>7
  <2> QED BY <2>1, <2>2, <2>3, FS_UNION
<1>4. \A x \in U : one[x] = 1
  OBVIOUS
<1> HIDE DEF one
<1>5. SumFunctionOnSet(s, K) = SumFunctionOnSet(one, U)
  BY <1>1, <1>2, SumOfParts
<1>6. SumFunctionOnSet(one, U) = Cardinality(U)
  BY <1>3, <1>4, SumOfOnes
<1> QED BY <1>3, <1>5, <1>6

\* The sums of the models are taken over all the indices of a function.
LEMMA SumOfAll ==
    ASSUME NEW f
    PROVE  SumFunction(f) = SumFunctionOnSet(f, DOMAIN f)
BY DEF SumFunction

\* A function made for the sum has the sum of any function like it.
LEMMA SumLike ==
    ASSUME NEW g, IsFiniteSet(DOMAIN g), NEW f,
           \A x \in DOMAIN g : f[x] \in Int /\ g[x] = f[x]
    PROVE  SumFunction(g) = SumFunctionOnSet(f, DOMAIN g)
<1> DEFINE S == DOMAIN g
<1>1. \A x \in S : g[x] \in Int /\ g[x] = f[x]
  OBVIOUS
<1> HIDE DEF S
<1>2. IsFiniteSet(S)
  BY DEF S
<1>3. SumFunctionOnSet(g, S) = SumFunctionOnSet(f, S)
  BY <1>1, <1>2, SumSame
<1> QED BY <1>3, SumOfAll DEF S

=============================================================================
