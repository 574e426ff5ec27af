----------------------------- MODULE SumTheorems -----------------------------
(***************************************************************************)
(* Facts about SumFunctionOnSet of the community modules, for every        *)
(* function and every finite set.                                          *)
(*                                                                         *)
(* The fold is a recursive function on the subsets of a set.  Its facts    *)
(* need an induction over finite sets, which is stated here without an     *)
(* operator parameter: a family of subsets that contains every set all of  *)
(* whose proper subsets it contains is the whole power set.                *)
(***************************************************************************)
EXTENDS Integers, Functions, FiniteSetTheorems, TLAPS

\* Induction over the subsets of a finite set: G is the family of those for which the
\* fact to be proved holds.
LEMMA SubsetInduction ==
    ASSUME NEW S, IsFiniteSet(S), NEW G \in SUBSET (SUBSET S),
           \A T \in SUBSET S : (\A U \in SUBSET T : U # T => U \in G) => T \in G
    PROVE  G = SUBSET S
<1> DEFINE R == StrictSubsetOrdering(S)
           Bad == (SUBSET S) \ G
<1>1. IsWellFoundedOn(R, SUBSET S)
  BY FS_StrictSubsetOrderingWellFounded, FS_FiniteSubsetsOfFinite, Zenon
<1>2. SUFFICES ASSUME Bad # {} PROVE FALSE
  OBVIOUS
<1>3. PICK T \in Bad : \A U \in Bad : <<U, T>> \notin R
  <2>1. Bad \subseteq SUBSET S
    OBVIOUS
  <2>2. \E T \in Bad : \A U \in Bad : ~(<<U, T>> \in R)
    <3> HIDE DEF Bad, R
    <3> QED BY <1>1, <1>2, <2>1, WFMin
  <2> QED BY <2>2
<1>4. \A U \in SUBSET T : U # T => U \in G
  <2> TAKE U \in SUBSET T
  <2> SUFFICES ASSUME U # T, U \notin G PROVE FALSE
    OBVIOUS
  <2>1. U \in Bad /\ <<U, T>> \in R
    BY DEF StrictSubsetOrdering
  <2> QED BY <1>3, <2>1
<1> QED BY <1>3, <1>4

\* A finite set of naturals that is not empty has a largest element.
LEMMA LargestNatural ==
    ASSUME NEW S \in SUBSET Nat, IsFiniteSet(S), S # {}
    PROVE  \E x \in S : \A y \in S : y <= x
<1> DEFINE G == {T \in SUBSET S : T # {} => \E x \in T : \A y \in T : y <= x}
<1>1. ASSUME NEW T \in SUBSET S, \A U \in SUBSET T : U # T => U \in G
      PROVE  T \in G
  <2>. SUFFICES ASSUME T # {} PROVE \E x \in T : \A y \in T : y <= x
    OBVIOUS
  <2>1. PICK z \in T : TRUE
    OBVIOUS
  <2>2. CASE T = {z}
    BY <2>2
  <2>3. CASE T # {z}
    <3>1. T \ {z} # {} /\ T \ {z} \in G
      BY <1>1, <2>1, <2>3
    <3>2. PICK x \in T \ {z} : \A y \in T \ {z} : y <= x
      BY <3>1
    <3>3. x \in Nat /\ z \in Nat /\ \A y \in T : y \in Nat
      OBVIOUS
    <3>4. CASE z <= x
      BY <3>2, <3>4
    <3>5. CASE x <= z
      BY <3>2, <3>3, <3>5
    <3> QED BY <3>3, <3>4, <3>5
  <2> QED BY <2>2, <2>3
<1>2. G = SUBSET S
  <2> HIDE DEF G
  <2>1. G \in SUBSET (SUBSET S)
    BY DEF G
  <2> QED BY <1>1, <2>1, SubsetInduction
<1> QED BY <1>2

-----------------------------------------------------------------------------
(* The fold is well defined.                                               *)

First(s) == CHOOSE x \in s : TRUE

Unfolded(f, g, s) == IF s = {} THEN 0 ELSE f[First(s)] + g[s \ {First(s)}]

\* g follows the recursion of the fold on every subset of S.
Follows(f, g, S) == g = [s \in SUBSET S |-> Unfolded(f, g, s)]

\* Two functions that follow the recursion are equal.
LEMMA RecursionUnique ==
    ASSUME NEW f, NEW S, IsFiniteSet(S), NEW g, NEW h, Follows(f, g, S), Follows(f, h, S)
    PROVE  g = h
<1> DEFINE G == {s \in SUBSET S : g[s] = h[s]}
<1>1. ASSUME NEW T \in SUBSET S, \A U \in SUBSET T : U # T => U \in G
      PROVE  T \in G
  <2>1. g[T] = Unfolded(f, g, T) /\ h[T] = Unfolded(f, h, T)
    BY DEF Follows
  <2>2. CASE T = {}
    BY <2>1, <2>2 DEF Unfolded
  <2>3. CASE T # {}
    <3>1. First(T) \in T
      BY <2>3 DEF First
    <3>2. T \ {First(T)} \in SUBSET T /\ T \ {First(T)} # T
      BY <3>1
    <3>3. g[T \ {First(T)}] = h[T \ {First(T)}]
      BY <1>1, <3>2
    <3> QED BY <2>1, <2>3, <3>3 DEF Unfolded
  <2> QED BY <2>2, <2>3
<1>2. G = SUBSET S
  <2> HIDE DEF G
  <2>1. G \in SUBSET (SUBSET S)
    BY DEF G
  <2> QED BY <1>1, <2>1, SubsetInduction
<1>3. \A s \in SUBSET S : g[s] = h[s]
  BY <1>2
<1>4. g = [s \in SUBSET S |-> g[s]] /\ h = [s \in SUBSET S |-> h[s]]
  BY DEF Follows
<1> QED BY <1>3, <1>4

\* The function the fold chooses.
Chosen(f, S) == CHOOSE g : Follows(f, g, S)

\* There is a function that follows the recursion, and on a subset it takes the value that
\* the fold over the subset has.
LEMMA RecursionDefined ==
    ASSUME NEW f, NEW S, IsFiniteSet(S)
    PROVE  /\ Follows(f, Chosen(f, S), S)
           /\ \A T \in SUBSET S : Chosen(f, S)[T] = Chosen(f, T)[T]
<1> DEFINE G == {T \in SUBSET S : /\ Follows(f, Chosen(f, T), T)
                                  /\ \A U \in SUBSET T : Chosen(f, T)[U] = Chosen(f, U)[U]}
<1>1. ASSUME NEW T \in SUBSET S, \A U \in SUBSET T : U # T => U \in G
      PROVE  T \in G
  <2> DEFINE v(U) == Chosen(f, U)[U]
             h == [U \in SUBSET T |-> IF U = T THEN IF T = {} THEN 0
                                                    ELSE f[First(T)] + v(T \ {First(T)})
                                      ELSE v(U)]
  <2>1. ASSUME NEW U \in SUBSET T PROVE h[U] = Unfolded(f, h, U)
    <3>1. CASE U = {}
      <4>1. CASE U = T
        BY <3>1, <4>1 DEF Unfolded
      <4>2. CASE U # T
        <5>1. Follows(f, Chosen(f, U), U)
          BY <1>1, <4>2
        <5>2. v(U) = Unfolded(f, Chosen(f, U), U)
          BY <5>1 DEF Follows
        <5> QED BY <3>1, <4>2, <5>2 DEF Unfolded
      <4> QED BY <4>1, <4>2
    <3>2. CASE U # {}
      <4> DEFINE W == U \ {First(U)}
      <4>1. First(U) \in U
        BY <3>2 DEF First
      <4>2. W \in SUBSET T /\ W # T /\ W # U /\ W \in SUBSET U
        BY <4>1
      <4>3. h[W] = v(W)
        BY <4>2
      <4>4. CASE U = T
        BY <3>2, <4>3, <4>4 DEF Unfolded
      <4>5. CASE U # T
        <5>1. /\ Follows(f, Chosen(f, U), U)
              /\ Chosen(f, U)[W] = v(W)
          BY <1>1, <4>2, <4>5
        <5>2. v(U) = Unfolded(f, Chosen(f, U), U)
          BY <5>1 DEF Follows
        <5>3. v(U) = f[First(U)] + v(W)
          BY <3>2, <5>1, <5>2 DEF Unfolded
        <5>4. h[U] = v(U)
          BY <4>5
        <5> QED BY <3>2, <4>3, <5>3, <5>4 DEF Unfolded
      <4> QED BY <4>4, <4>5
    <3> QED BY <3>1, <3>2
  <2>2. Follows(f, h, T)
    <3>1. h = [U \in SUBSET T |-> h[U]]
      OBVIOUS
    <3> HIDE DEF h
    <3> QED BY <2>1, <3>1 DEF Follows
  <2>3. Follows(f, Chosen(f, T), T)
    BY <2>2 DEF Chosen
  <2>4. h = Chosen(f, T)
    <3> HIDE DEF h
    <3>1. IsFiniteSet(T)
      BY FS_Subset
    <3> QED BY <2>2, <2>3, <3>1, RecursionUnique
  <2>5. \A U \in SUBSET T : Chosen(f, T)[U] = Chosen(f, U)[U]
    <3> TAKE U \in SUBSET T
    <3>1. CASE U = T
      BY <3>1
    <3>2. CASE U # T
      <4>1. h[U] = v(U)
        BY <3>2
      <4> QED BY <2>4, <4>1
    <3> QED BY <3>1, <3>2
  <2> QED BY <2>3, <2>5
<1>2. G = SUBSET S
  <2> HIDE DEF G
  <2>1. G \in SUBSET (SUBSET S)
    BY DEF G
  <2> QED BY <1>1, <2>1, SubsetInduction
<1>3. S \in G
  BY <1>2
<1> QED BY <1>3

-----------------------------------------------------------------------------
(* Sums.                                                                   *)

\* The library's sum is the value of that function.
LEMMA SumIsChosen ==
    ASSUME NEW f, NEW S
    PROVE  SumFunctionOnSet(f, S) = Chosen(f, S)[S]
BY DEF SumFunctionOnSet, FoldFunctionOnSet, MapThenFoldSet, Chosen, Follows, Unfolded, First

\* The sum over the empty set, and the sum over a set by the element the fold takes first.
LEMMA SumUnfolds ==
    ASSUME NEW f, NEW S, IsFiniteSet(S)
    PROVE  /\ S = {} => SumFunctionOnSet(f, S) = 0
           /\ S # {} => /\ First(S) \in S
                        /\ SumFunctionOnSet(f, S)
                             = f[First(S)] + SumFunctionOnSet(f, S \ {First(S)})
<1>1. Follows(f, Chosen(f, S), S)
  BY RecursionDefined
<1>2. Chosen(f, S)[S] = Unfolded(f, Chosen(f, S), S)
  BY <1>1 DEF Follows
<1>3. Chosen(f, S)[S \ {First(S)}] = Chosen(f, S \ {First(S)})[S \ {First(S)}]
  BY RecursionDefined
<1>4. S # {} => First(S) \in S
  BY DEF First
<1> HIDE DEF First
<1> QED BY <1>2, <1>3, <1>4, SumIsChosen DEF Unfolded

\* A sum of naturals is a natural, and any element can be taken out of it.
LEMMA SumRemovesElement ==
    ASSUME NEW D, NEW f \in [D -> Nat], NEW S \in SUBSET D, IsFiniteSet(S)
    PROVE  /\ SumFunctionOnSet(f, S) \in Nat
           /\ \A y \in S : SumFunctionOnSet(f, S) = f[y] + SumFunctionOnSet(f, S \ {y})
<1> DEFINE v(T) == SumFunctionOnSet(f, T)
           G == {T \in SUBSET S : v(T) \in Nat /\ \A y \in T : v(T) = f[y] + v(T \ {y})}
<1> HIDE DEF v
<1>0. \A T \in SUBSET S : /\ T = {} => v(T) = 0
                          /\ T # {} => First(T) \in T /\ v(T) = f[First(T)] + v(T \ {First(T)})
  BY SumUnfolds, FS_Subset DEF v
<1>1. ASSUME NEW T \in SUBSET S, \A U \in SUBSET T : U # T => U \in G
      PROVE  T \in G
  <2>1. CASE T = {}
    <3>1. v(T) = 0 /\ \A y \in T : v(T) = f[y] + v(T \ {y})
      BY <1>0, <2>1
    <3> QED BY <3>1
  <2>2. CASE T # {}
    <3> DEFINE x == First(T)
    <3>1. x \in T /\ v(T) = f[x] + v(T \ {x})
      BY <1>0, <2>2
    <3>2. T \ {x} \in G
      BY <1>1, <3>1
    <3> HIDE DEF x
    <3>3. v(T \ {x}) \in Nat /\ f[x] \in Nat
      BY <3>1, <3>2
    <3>4. ASSUME NEW y \in T, y # x
          PROVE  v(T) = f[y] + v(T \ {y})
      <4> DEFINE Rest == T \ {x, y}
      <4>1. v(T \ {x}) = f[y] + v(Rest)
        <5>1. (T \ {x}) \ {y} = Rest
          OBVIOUS
        <5> QED BY <3>2, <3>4, <5>1
      <4>2. v(T \ {y}) = f[x] + v(Rest)
        <5>1. (T \ {y}) \ {x} = Rest /\ x \in T \ {y}
          BY <3>1, <3>4
        <5>2. T \ {y} \in G
          BY <1>1
        <5> QED BY <5>1, <5>2
      <4>3. v(Rest) \in Nat
        <5>1. Rest \in SUBSET T /\ Rest # T
          OBVIOUS
        <5> QED BY <1>1, <5>1
      <4> QED
        <5> HIDE DEF Rest
        <5>1. f[x] \in Nat /\ f[y] \in Nat
          BY <3>1
        <5> QED BY <3>1, <4>1, <4>2, <4>3, <5>1
    <3> QED BY <3>1, <3>3, <3>4
  <2> QED BY <2>1, <2>2
<1>2. G = SUBSET S
  <2> HIDE DEF G
  <2>1. G \in SUBSET (SUBSET S)
    BY DEF G
  <2> QED BY <1>1, <2>1, SubsetInduction
<1>3. S \in G
  BY <1>2
<1> QED BY <1>3 DEF v

\* A sum splits into the sums over a part and over the rest.
LEMMA SumSplits ==
    ASSUME NEW D, NEW f \in [D -> Nat], NEW S \in SUBSET D, IsFiniteSet(S), NEW P
    PROVE  SumFunctionOnSet(f, S)
             = SumFunctionOnSet(f, S \cap P) + SumFunctionOnSet(f, S \ P)
<1> DEFINE v(T) == SumFunctionOnSet(f, T)
           G == {T \in SUBSET S : v(T) = v(T \cap P) + v(T \ P)}
<1> HIDE DEF v
<1>0. \A T \in SUBSET S : /\ v(T) \in Nat
                          /\ T = {} => v(T) = 0
                          /\ \A y \in T : v(T) = f[y] + v(T \ {y})
  <2> TAKE T \in SUBSET S
  <2>1. IsFiniteSet(T) /\ T \in SUBSET D
    BY FS_Subset
  <2>2. v(T) \in Nat /\ \A y \in T : v(T) = f[y] + v(T \ {y})
    BY <2>1, SumRemovesElement DEF v
  <2>3. T = {} => v(T) = 0
    BY <2>1, SumUnfolds, Zenon DEF v
  <2> QED BY <2>2, <2>3
<1>1. ASSUME NEW T \in SUBSET S, \A U \in SUBSET T : U # T => U \in G
      PROVE  T \in G
  <2>1. CASE T = {}
    <3>1. T \cap P = {} /\ T \ P = {}
      BY <2>1
    <3> QED BY <1>0, <2>1, <3>1
  <2>2. CASE T # {}
    <3>1. PICK x \in T : TRUE
      BY <2>2
    <3> DEFINE U == T \ {x}
    <3>2. v(U) = v(U \cap P) + v(U \ P)
      BY <1>1
    <3>3. v(T) = f[x] + v(U)
      BY <1>0
    <3>4. f[x] \in Nat
      OBVIOUS
    <3>5. v(U \cap P) \in Nat /\ v(U \ P) \in Nat
      BY <1>0
    <3>6. CASE x \in P
      <4>1. U \ P = T \ P /\ U \cap P = (T \cap P) \ {x} /\ x \in T \cap P
        BY <3>6
      <4>2. v(T \cap P) = f[x] + v(U \cap P)
        BY <1>0, <4>1
      <4>3. v(T) = v(T \cap P) + v(T \ P)
        <5>1. v(U) = v(U \cap P) + v(T \ P) /\ v(T \ P) \in Nat
          BY <3>2, <3>5, <4>1
        <5> HIDE DEF U
        <5> QED BY <3>3, <3>4, <3>5, <4>2, <5>1
      <4> QED BY <4>3
    <3>7. CASE x \notin P
      <4>1. U \cap P = T \cap P /\ U \ P = (T \ P) \ {x} /\ x \in T \ P
        BY <3>7
      <4>2. v(T \ P) = f[x] + v(U \ P)
        BY <1>0, <4>1
      <4>3. v(T) = v(T \cap P) + v(T \ P)
        <5>1. v(U) = v(T \cap P) + v(U \ P) /\ v(T \cap P) \in Nat
          BY <3>2, <3>5, <4>1
        <5> HIDE DEF U
        <5> QED BY <3>3, <3>4, <3>5, <4>2, <5>1
      <4> QED BY <4>3
    <3> QED BY <3>6, <3>7
  <2> QED BY <2>1, <2>2
<1>2. G = SUBSET S
  <2> HIDE DEF G
  <2>1. G \in SUBSET (SUBSET S)
    BY DEF G
  <2> QED BY <1>1, <2>1, SubsetInduction
<1>3. S \in G
  BY <1>2
<1> QED BY <1>3 DEF v

\* The sum over a part and the sum over what it leaves make up the whole, so that a part
\* never has a larger sum.
LEMMA SumOfParts ==
    ASSUME NEW D, NEW f \in [D -> Nat], NEW S \in SUBSET D, IsFiniteSet(S), NEW T \in SUBSET S
    PROVE  /\ SumFunctionOnSet(f, S) = SumFunctionOnSet(f, T) + SumFunctionOnSet(f, S \ T)
           /\ SumFunctionOnSet(f, T) <= SumFunctionOnSet(f, S)
<1>1. S \cap T = T
  OBVIOUS
<1>2. SumFunctionOnSet(f, S) = SumFunctionOnSet(f, T) + SumFunctionOnSet(f, S \ T)
  <2>1. SumFunctionOnSet(f, S) = SumFunctionOnSet(f, S \cap T) + SumFunctionOnSet(f, S \ T)
    BY SumSplits
  <2> QED BY <1>1, <2>1
<1>3. SumFunctionOnSet(f, T) \in Nat /\ SumFunctionOnSet(f, S \ T) \in Nat
  <2>1. IsFiniteSet(T) /\ IsFiniteSet(S \ T)
    BY FS_Subset, FS_Difference
  <2> QED BY <2>1, SumRemovesElement
<1> QED BY <1>2, <1>3

\* A sum depends only on the values that are added.
LEMMA SumOfEqualValues ==
    ASSUME NEW f, NEW h, NEW S, IsFiniteSet(S), \A x \in S : f[x] = h[x]
    PROVE  SumFunctionOnSet(f, S) = SumFunctionOnSet(h, S)
<1> DEFINE v(T) == SumFunctionOnSet(f, T)
           w(T) == SumFunctionOnSet(h, T)
           G == {T \in SUBSET S : v(T) = w(T)}
<1> HIDE DEF v, w
<1>1. \A T \in SUBSET S : /\ T = {} => v(T) = 0 /\ w(T) = 0
                          /\ T # {} => /\ First(T) \in T
                                       /\ v(T) = f[First(T)] + v(T \ {First(T)})
                                       /\ w(T) = h[First(T)] + w(T \ {First(T)})
  BY SumUnfolds, FS_Subset DEF v, w
<1>2. ASSUME NEW T \in SUBSET S, \A U \in SUBSET T : U # T => U \in G
      PROVE  T \in G
  <2>1. CASE T = {}
    BY <1>1, <2>1
  <2>2. CASE T # {}
    <3> DEFINE x == First(T)
    <3>1. x \in T
      BY <1>1, <2>2
    <3> HIDE DEF x
    <3>2. T \ {x} \in SUBSET T /\ T \ {x} # T
      BY <3>1
    <3>3. v(T \ {x}) = w(T \ {x})
      BY <1>2, <3>2
    <3>4. f[x] = h[x]
      BY <3>1
    <3> QED BY <1>1, <2>2, <3>3, <3>4 DEF x
  <2> QED BY <2>1, <2>2
<1>3. G = SUBSET S
  <2> HIDE DEF G
  <2>1. G \in SUBSET (SUBSET S)
    BY DEF G
  <2> QED BY <1>2, <2>1, SubsetInduction
<1>4. S \in G
  BY <1>3
<1> QED BY <1>4 DEF v, w

\* A sum of zeros is zero.
LEMMA SumOfZeros ==
    ASSUME NEW D, NEW S \in SUBSET D, IsFiniteSet(S), NEW f \in [D -> Nat],
           \A x \in S : f[x] = 0
    PROVE  SumFunctionOnSet(f, S) = 0
<1> DEFINE v(T) == SumFunctionOnSet(f, T)
           G == {T \in SUBSET S : v(T) = 0}
<1> HIDE DEF v
<1>1. \A T \in SUBSET S : /\ T = {} => v(T) = 0
                          /\ T # {} => First(T) \in T /\ v(T) = f[First(T)] + v(T \ {First(T)})
  BY SumUnfolds, FS_Subset DEF v
<1>2. ASSUME NEW T \in SUBSET S, \A U \in SUBSET T : U # T => U \in G
      PROVE  T \in G
  <2>1. CASE T = {}
    BY <1>1, <2>1
  <2>2. CASE T # {}
    <3> DEFINE x == First(T)
    <3>1. x \in T
      BY <1>1, <2>2
    <3>2. v(T) = f[x] + v(T \ {x})
      BY <1>1, <2>2
    <3> HIDE DEF x
    <3>3. T \ {x} \in SUBSET T /\ T \ {x} # T
      BY <3>1
    <3>4. v(T \ {x}) = 0 /\ f[x] = 0
      BY <1>2, <3>1, <3>3
    <3> QED BY <3>2, <3>4
  <2> QED BY <2>1, <2>2
<1>3. G = SUBSET S
  <2> HIDE DEF G
  <2>1. G \in SUBSET (SUBSET S)
    BY DEF G
  <2> QED BY <1>2, <2>1, SubsetInduction
<1>4. S \in G
  BY <1>3
<1> QED BY <1>4 DEF v

\* When one value that was zero becomes n, the sum of a set grows by n or not at all.
LEMMA SumGrows ==
    ASSUME NEW D, NEW S \in SUBSET D, IsFiniteSet(S), NEW y \in D,
           NEW f \in [D -> Nat], NEW h \in [D -> Nat],
           f[y] = 0, \A x \in D \ {y} : h[x] = f[x]
    PROVE  SumFunctionOnSet(h, S) = SumFunctionOnSet(f, S) + (IF y \in S THEN h[y] ELSE 0)
<1>1. SumFunctionOnSet(h, S \ {y}) = SumFunctionOnSet(f, S \ {y})
  <2>1. IsFiniteSet(S \ {y}) /\ \A x \in S \ {y} : h[x] = f[x]
    BY FS_Subset
  <2> QED BY <2>1, SumOfEqualValues
<1>2. /\ SumFunctionOnSet(f, S) \in Nat /\ SumFunctionOnSet(h, S) \in Nat
      /\ SumFunctionOnSet(f, S \ {y}) \in Nat
  <2>1. IsFiniteSet(S \ {y}) /\ S \ {y} \in SUBSET D
    BY FS_Subset
  <2> QED BY <2>1, SumRemovesElement
<1>3. CASE y \in S
  <2>1. SumFunctionOnSet(f, S) = f[y] + SumFunctionOnSet(f, S \ {y})
        /\ SumFunctionOnSet(h, S) = h[y] + SumFunctionOnSet(h, S \ {y})
    BY <1>3, SumRemovesElement
  <2>2. h[y] \in Nat
    OBVIOUS
  <2> QED BY <1>1, <1>2, <1>3, <2>1, <2>2
<1>4. CASE y \notin S
  <2>1. S \ {y} = S
    BY <1>4
  <2> QED BY <1>1, <1>2, <1>4, <2>1
<1> QED BY <1>3, <1>4
=============================================================================
