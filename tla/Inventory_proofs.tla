-------------------------- MODULE Inventory_proofs ---------------------------
(***************************************************************************)
(* What a sum over a finite set is worth, shown by an induction over the   *)
(* subsets of the set: that goods are conserved is a statement about sums, *)
(* in each of the modules that move goods.                                 *)
(***************************************************************************)
EXTENDS Inventory, FiniteSetTheorems, WellFoundedInduction, TLAPS

(* A nonempty set of numbers has a least element.                           *)
LEMMA NatMin ==
  ASSUME NEW T \in SUBSET Nat, T # {}
  PROVE  \E x \in T : \A y \in T : x <= y
<1>1. IsWellFoundedOn(OpToRel(<, Nat), Nat)
  BY NatLessThanWellFounded
<1>2. PICK x \in T : \A y \in T : ~ (<<y, x>> \in OpToRel(<,Nat))
  BY <1>1, WFMin, Zenon
<1>3. \A y \in T : ~ (y < x)
  BY <1>2 DEF OpToRel
<1> QED BY <1>3

(* Induction over the subsets of a finite set, in a form without an         *)
(* operator parameter: a set T that holds every subset whose proper subsets *)
(* it holds, holds them all.                                                *)
LEMMA SubsetInduction ==
  ASSUME NEW S, IsFiniteSet(S), NEW T,
           \A s \in SUBSET S : (\A u \in SUBSET s : u # s => u \in T) => s \in T
  PROVE  \A s \in SUBSET S : s \in T
<1> DEFINE bad == {s \in SUBSET S : s \notin T}
           sizes == {Cardinality(s) : s \in bad}
<1> SUFFICES ASSUME bad # {} PROVE FALSE
  OBVIOUS
<1>1. \A s \in SUBSET S : IsFiniteSet(s) /\ Cardinality(s) \in Nat
  BY FS_Subset, FS_CardinalityType
<1>2. sizes \in SUBSET Nat /\ sizes # {}
  BY <1>1
<1>3. PICK n \in sizes : \A m \in sizes : n <= m
  <2> HIDE DEF sizes
  <2> QED BY <1>2, NatMin
<1>4. PICK s \in bad : n = Cardinality(s)
  BY <1>3
<1>5. ASSUME NEW u \in SUBSET s, u # s
    PROVE  u \in T
  <2>1. Cardinality(u) < Cardinality(s)
    BY <1>1, <1>4, <1>5, FS_Subset
  <2>2. u \in SUBSET S /\ (u \in bad => Cardinality(u) \in sizes)
    BY <1>4
  <2>3. Cardinality(u) \in Nat /\ Cardinality(s) \in Nat
    BY <1>1, <1>4, <2>2
  <2>4. u \notin bad
    BY <1>3, <1>4, <2>1, <2>2, <2>3
  <2> QED BY <2>2, <2>4
<1> QED BY <1>4, <1>5

Pick(s) == CHOOSE x \in s : TRUE
Sums(f, S, g) ==
    g = [s \in SUBSET S |-> IF s = {} THEN 0 ELSE f[Pick(s)] + g[s \ {Pick(s)}]]
TheSums(f, S) == CHOOSE g : Sums(f, S, g)

(* SumOver is the function on subsets that takes one element at a time.     *)
LEMMA SumOverDef ==
  ASSUME NEW f, NEW S
  PROVE  SumOver(f, S) = TheSums(f, S)[S]
BY DEF SumOver, MapThenSumSet, MapThenFoldSet, Sums, Pick, TheSums

(* Taking the picked element leaves a proper subset.                        *)
LEMMA Picked ==
  ASSUME NEW s, s # {}
  PROVE  Pick(s) \in s /\ s \ {Pick(s)} \in SUBSET s /\ s \ {Pick(s)} # s
BY DEF Pick

(* Two functions that sum f agree on the subsets they share.                *)
LEMMA SumsUnique ==
  ASSUME NEW f, NEW S, IsFiniteSet(S), NEW U, NEW g, NEW h, Sums(f, S, g), Sums(f, U, h), S \subseteq U
  PROVE  \A s \in SUBSET S : g[s] = h[s]
<1> DEFINE T == {s \in SUBSET S : g[s] = h[s]}
<1>1. ASSUME NEW s \in SUBSET S, \A u \in SUBSET s : u # s => u \in T
    PROVE  s \in T
  <2>1. /\ g[s] = IF s = {} THEN 0 ELSE f[Pick(s)] + g[s \ {Pick(s)}]
        /\ h[s] = IF s = {} THEN 0 ELSE f[Pick(s)] + h[s \ {Pick(s)}]
    BY DEF Sums
  <2>2. s # {} => s \ {Pick(s)} \in T
    BY <1>1, Picked
  <2> QED BY <2>1, <2>2
<1> HIDE DEF T
<1>2. \A s \in SUBSET S : s \in T
  BY <1>1, SubsetInduction
<1> QED BY <1>2 DEF T

(* There is a function that sums f over the subsets of a finite set.        *)
LEMMA SumsExist ==
  ASSUME NEW f, NEW S, IsFiniteSet(S)
  PROVE  Sums(f, S, TheSums(f, S))
<1> DEFINE T == {s \in SUBSET S : \E g : Sums(f, s, g)}
<1>1. ASSUME NEW s \in SUBSET S, \A u \in SUBSET s : u # s => u \in T
    PROVE  s \in T
  <2> DEFINE h == [u \in SUBSET s |-> IF u = {} THEN 0
                                      ELSE f[Pick(u)] + TheSums(f, u \ {Pick(u)})[u \ {Pick(u)}]]
  <2>1. ASSUME NEW u \in SUBSET s, u # {}
      PROVE  h[u \ {Pick(u)}] = TheSums(f, u \ {Pick(u)})[u \ {Pick(u)}]
    <3> DEFINE v == u \ {Pick(u)}
               w == v \ {Pick(v)}
    <3>1. v \in SUBSET s /\ v # s
      BY <2>1, Picked
    <3>2. Sums(f, v, TheSums(f, v))
      <4>1. \E g : Sums(f, v, g)
        BY <1>1, <3>1
      <4> QED BY <4>1 DEF TheSums
    <3>3. CASE v = {}
      BY <3>1, <3>2, <3>3 DEF Sums
    <3>4. CASE v # {}
      <4>1. w \in SUBSET v /\ w # v
        BY <3>4, Picked
      <4>2. w \in SUBSET s /\ w # s /\ IsFiniteSet(w) /\ w \subseteq v
        BY <3>1, <4>1, FS_Subset
      <4>3. Sums(f, w, TheSums(f, w))
        <5>1. \E g : Sums(f, w, g)
          BY <1>1, <4>2
        <5> QED BY <5>1 DEF TheSums
      <4>4. TheSums(f, w)[w] = TheSums(f, v)[w]
        <5> HIDE DEF w, v
        <5>1. \A x \in SUBSET w : TheSums(f, w)[x] = TheSums(f, v)[x]
          BY <3>2, <4>2, <4>3, SumsUnique
        <5> QED BY <5>1
      <4>5. TheSums(f, v)[v] = f[Pick(v)] + TheSums(f, v)[w]
        BY <3>2, <3>4 DEF Sums
      <4>6. h[v] = f[Pick(v)] + TheSums(f, w)[w]
        BY <3>1, <3>4
      <4> QED BY <4>4, <4>5, <4>6
    <3> QED BY <3>3, <3>4
  <2>2. Sums(f, s, h)
    BY <2>1 DEF Sums
  <2> QED BY <2>2
<1> HIDE DEF T
<1>2. \A s \in SUBSET S : s \in T
  BY <1>1, SubsetInduction
<1>3. \E g : Sums(f, S, g)
  BY <1>2 DEF T
<1> QED BY <1>3 DEF TheSums

(* The sum over no element is zero.                                         *)
LEMMA SumOverEmpty ==
  ASSUME NEW f
  PROVE  SumOver(f, {}) = 0
<1>1. Sums(f, {}, TheSums(f, {}))
  BY SumsExist, FS_EmptySet
<1> QED BY <1>1, SumOverDef DEF Sums

(* The sum over a set is the picked element and the sum over the rest.      *)
LEMMA SumOverPicked ==
  ASSUME NEW f, NEW S, IsFiniteSet(S), S # {}
  PROVE  SumOver(f, S) = f[Pick(S)] + SumOver(f, S \ {Pick(S)})
<1> DEFINE v == S \ {Pick(S)}
<1>1. IsFiniteSet(v) /\ v \subseteq S
  BY FS_Subset
<1>2. Sums(f, S, TheSums(f, S)) /\ Sums(f, v, TheSums(f, v))
  BY <1>1, SumsExist
<1>3. TheSums(f, v)[v] = TheSums(f, S)[v]
  BY <1>1, <1>2, SumsUnique
<1>4. TheSums(f, S)[S] = f[Pick(S)] + TheSums(f, S)[v]
  BY <1>2 DEF Sums
<1> QED BY <1>3, <1>4, SumOverDef

(* A sum of integers is an integer, and any element can be taken first.     *)
LEMMA SumOverTaken ==
  ASSUME NEW f, NEW S, IsFiniteSet(S), \A x \in S : f[x] \in Int
  PROVE  SumOver(f, S) \in Int /\ \A x \in S : SumOver(f, S) = f[x] + SumOver(f, S \ {x})
<1> DEFINE T == {s \in SUBSET S : /\ SumOver(f, s) \in Int
                                  /\ \A x \in s : SumOver(f, s) = f[x] + SumOver(f, s \ {x})}
<1>1. ASSUME NEW s \in SUBSET S, \A u \in SUBSET s : u # s => u \in T
    PROVE  s \in T
  <2>0. IsFiniteSet(s)
    BY FS_Subset
  <2>1. CASE s = {}
    BY <2>1, SumOverEmpty
  <2>2. CASE s # {}
    <3> DEFINE p == Pick(s)
    <3>1. SumOver(f, s) = f[p] + SumOver(f, s \ {p}) /\ p \in s
      BY <2>0, <2>2, SumOverPicked, Picked
    <3>2. s \ {p} \in T
      BY <1>1, <3>1
    <3>3. SumOver(f, s) \in Int
      BY <3>1, <3>2
    <3>4. ASSUME NEW x \in s, x # p
        PROVE  SumOver(f, s) = f[x] + SumOver(f, s \ {x})
      <4>1. s \ {x} \in T /\ p \in s \ {x} /\ x \in s \ {p}
        BY <1>1, <3>1, <3>4
      <4>2. SumOver(f, s \ {p}) = f[x] + SumOver(f, (s \ {p}) \ {x})
        BY <3>2, <4>1
      <4>3. SumOver(f, s \ {x}) = f[p] + SumOver(f, (s \ {x}) \ {p})
        BY <4>1
      <4>4. (s \ {p}) \ {x} = (s \ {x}) \ {p}
        OBVIOUS
      <4>5. (s \ {p}) \ {x} \in T
        BY <1>1, <3>1
      <4>6. SumOver(f, (s \ {p}) \ {x}) \in Int /\ f[x] \in Int /\ f[p] \in Int
        BY <3>1, <3>4, <4>5
      <4>7. SumOver(f, (s \ {p}) \ {x}) = SumOver(f, (s \ {x}) \ {p})
        BY <4>4
      <4>8. SumOver(f, s \ {x}) = f[p] + SumOver(f, (s \ {p}) \ {x})
        BY <4>3, <4>7
      <4>9. SumOver(f, s) = f[p] + (f[x] + SumOver(f, (s \ {p}) \ {x}))
        BY <3>1, <4>2
      <4> HIDE DEF p
      <4> QED BY <4>6, <4>8, <4>9
    <3> QED BY <3>1, <3>3, <3>4
  <2> QED BY <2>1, <2>2
<1> HIDE DEF T
<1>2. \A s \in SUBSET S : s \in T
  BY <1>1, SubsetInduction
<1> QED BY <1>2 DEF T

(* Functions that agree on a set have the same sum over it.                 *)
LEMMA SumOverSame ==
  ASSUME NEW f, NEW g, NEW S, IsFiniteSet(S), \A x \in S : f[x] = g[x]
  PROVE  SumOver(f, S) = SumOver(g, S)
<1> DEFINE T == {s \in SUBSET S : SumOver(f, s) = SumOver(g, s)}
<1>1. ASSUME NEW s \in SUBSET S, \A u \in SUBSET s : u # s => u \in T
    PROVE  s \in T
  <2>0. IsFiniteSet(s)
    BY FS_Subset
  <2>1. CASE s = {}
    BY <2>1, SumOverEmpty
  <2>2. CASE s # {}
    <3>1. /\ SumOver(f, s) = f[Pick(s)] + SumOver(f, s \ {Pick(s)})
          /\ SumOver(g, s) = g[Pick(s)] + SumOver(g, s \ {Pick(s)})
      BY <2>0, <2>2, SumOverPicked
    <3>2. Pick(s) \in s /\ s \ {Pick(s)} \in T
      BY <1>1, <2>2, Picked
    <3> QED BY <3>1, <3>2
  <2> QED BY <2>1, <2>2
<1> HIDE DEF T
<1>2. \A s \in SUBSET S : s \in T
  BY <1>1, SubsetInduction
<1> QED BY <1>2 DEF T

(* A sum of zeroes is zero.                                                 *)
LEMMA SumOverZero ==
  ASSUME NEW f, NEW S, IsFiniteSet(S), \A x \in S : f[x] = 0
  PROVE  SumOver(f, S) = 0
<1> DEFINE T == {s \in SUBSET S : SumOver(f, s) = 0}
<1>1. ASSUME NEW s \in SUBSET S, \A u \in SUBSET s : u # s => u \in T
    PROVE  s \in T
  <2>0. IsFiniteSet(s)
    BY FS_Subset
  <2>1. CASE s = {}
    BY <2>1, SumOverEmpty
  <2>2. CASE s # {}
    <3>1. SumOver(f, s) = f[Pick(s)] + SumOver(f, s \ {Pick(s)})
      BY <2>0, <2>2, SumOverPicked
    <3>2. Pick(s) \in s /\ s \ {Pick(s)} \in T
      BY <1>1, <2>2, Picked
    <3> QED BY <3>1, <3>2
  <2> QED BY <2>1, <2>2
<1> HIDE DEF T
<1>2. \A s \in SUBSET S : s \in T
  BY <1>1, SubsetInduction
<1> QED BY <1>2 DEF T

(* Changing one summand changes the sum by as much.                         *)
LEMMA SumOverChanged ==
  ASSUME NEW f, NEW g, NEW S, IsFiniteSet(S), NEW x \in S,
         \A z \in S : f[z] \in Int /\ g[z] \in Int,
         \A z \in S \ {x} : g[z] = f[z]
  PROVE  SumOver(g, S) = SumOver(f, S) + (g[x] - f[x])
<1>1. IsFiniteSet(S \ {x})
  BY FS_Subset
<1>2. SumOver(g, S \ {x}) = SumOver(f, S \ {x})
  BY <1>1, SumOverSame
<1>3. SumOver(f, S \ {x}) \in Int
  BY <1>1, SumOverTaken
<1>4. /\ SumOver(g, S) = g[x] + SumOver(g, S \ {x})
      /\ SumOver(f, S) = f[x] + SumOver(f, S \ {x})
  BY SumOverTaken
<1> QED BY <1>2, <1>3, <1>4

(* Changing one number at most changes the sums it is part of by as much.   *)
LEMMA SumOverAdjusted ==
  ASSUME NEW f, NEW g, NEW S, IsFiniteSet(S), NEW x,
         \A z \in S : f[z] \in Int /\ g[z] \in Int,
         \A z \in S \ {x} : g[z] = f[z]
  PROVE  /\ SumOver(f, S) \in Int /\ SumOver(g, S) \in Int
         /\ x \in S => SumOver(g, S) = SumOver(f, S) + (g[x] - f[x])
         /\ x \notin S => SumOver(g, S) = SumOver(f, S)
<1>1. SumOver(f, S) \in Int /\ SumOver(g, S) \in Int
  BY SumOverTaken
<1>2. ASSUME x \in S
      PROVE  SumOver(g, S) = SumOver(f, S) + (g[x] - f[x])
  BY <1>2, SumOverChanged
<1>3. ASSUME x \notin S
      PROVE  SumOver(g, S) = SumOver(f, S)
  <2>1. \A z \in S : f[z] = g[z]
    BY <1>3
  <2>2. SumOver(f, S) = SumOver(g, S)
    BY <2>1, SumOverSame
  <2> QED BY <2>2
<1> QED BY <1>1, <1>2, <1>3

(* Smaller numbers have the smaller sum.                                    *)
LEMMA SumOverAtMost ==
  ASSUME NEW f, NEW g, NEW S, IsFiniteSet(S),
         \A x \in S : f[x] \in Int /\ g[x] \in Int /\ f[x] <= g[x]
  PROVE  SumOver(f, S) <= SumOver(g, S)
<1> DEFINE T == {s \in SUBSET S : SumOver(f, s) <= SumOver(g, s)}
<1>1. ASSUME NEW s \in SUBSET S, \A u \in SUBSET s : u # s => u \in T
      PROVE  s \in T
  <2>0. IsFiniteSet(s)
    BY FS_Subset
  <2>1. CASE s = {}
    BY <2>1, SumOverEmpty
  <2>2. CASE s # {}
    <3>1. /\ SumOver(f, s) = f[Pick(s)] + SumOver(f, s \ {Pick(s)})
          /\ SumOver(g, s) = g[Pick(s)] + SumOver(g, s \ {Pick(s)})
      BY <2>0, <2>2, SumOverPicked
    <3>2. Pick(s) \in s /\ s \ {Pick(s)} \in T
      BY <1>1, <2>2, Picked
    <3>3. IsFiniteSet(s \ {Pick(s)})
      BY <2>0, FS_Subset
    <3>4. SumOver(f, s \ {Pick(s)}) \in Int /\ SumOver(g, s \ {Pick(s)}) \in Int
      BY <3>3, SumOverTaken
    <3>5. f[Pick(s)] \in Int /\ g[Pick(s)] \in Int /\ f[Pick(s)] <= g[Pick(s)]
      BY <3>2
    <3> QED BY <3>1, <3>2, <3>4, <3>5
  <2> QED BY <2>1, <2>2
<1> HIDE DEF T
<1>2. \A s \in SUBSET S : s \in T
  BY <1>1, SubsetInduction
<1> QED BY <1>2 DEF T

(* A new element adds its number to the sum.                                *)
LEMMA SumOverJoined ==
  ASSUME NEW f, NEW S, IsFiniteSet(S), NEW x, x \notin S, \A y \in S \cup {x} : f[y] \in Int
  PROVE  SumOver(f, S) \in Int /\ SumOver(f, S \cup {x}) = SumOver(f, S) + f[x]
<1>1. IsFiniteSet(S \cup {x})
  BY FS_AddElement
<1>2. (S \cup {x}) \ {x} = S
  OBVIOUS
<1>3. SumOver(f, S \cup {x}) = f[x] + SumOver(f, (S \cup {x}) \ {x})
  BY <1>1, SumOverTaken
<1>4. \A y \in S : f[y] \in Int
  OBVIOUS
<1>5. SumOver(f, S) \in Int /\ f[x] \in Int
  BY <1>4, SumOverTaken
<1>6. SumOver(f, (S \cup {x}) \ {x}) = SumOver(f, S)
  BY <1>2
<1> QED BY <1>3, <1>5, <1>6

-----------------------------------------------------------------------------
(***************************************************************************)
(* AdjustQuantity changes what there is of its own material, by its delta, *)
(* and of no other.                                                        *)
(***************************************************************************)
LEMMA AdjustingPlaces ==
  ASSUME stock \in [Loc -> Int], IsFiniteSet(Loc), NEW l \in Loc, NEW d \in Int,
         stock' = [stock EXCEPT ![l] = @ + d], NEW m
  PROVE  /\ SumOver(stock, PlacesOf(m)) \in Int /\ SumOver(stock', PlacesOf(m)) \in Int
         /\ l[2] = m => SumOver(stock', PlacesOf(m)) = SumOver(stock, PlacesOf(m)) + d
         /\ l[2] # m => SumOver(stock', PlacesOf(m)) = SumOver(stock, PlacesOf(m))
<1>1. PlacesOf(m) \in SUBSET Loc /\ (l \in PlacesOf(m) <=> l[2] = m)
  BY DEF PlacesOf
<1>2. IsFiniteSet(PlacesOf(m))
  BY <1>1, FS_Subset
<1>3. /\ \A z \in PlacesOf(m) : stock[z] \in Int /\ stock'[z] \in Int
      /\ \A z \in PlacesOf(m) \ {l} : stock'[z] = stock[z]
      /\ l \in PlacesOf(m) => stock'[l] = stock[l] + d
  BY <1>1
<1> DEFINE S == PlacesOf(m)
           g == stock'
<1> HIDE DEF S, g
<1>4. /\ SumOver(stock, S) \in Int /\ SumOver(g, S) \in Int
      /\ l \in S => SumOver(g, S) = SumOver(stock, S) + (g[l] - stock[l])
      /\ l \notin S => SumOver(g, S) = SumOver(stock, S)
  <2>1. /\ IsFiniteSet(S) /\ \A z \in S : stock[z] \in Int /\ g[z] \in Int
        /\ \A z \in S \ {l} : g[z] = stock[z]
    BY <1>2, <1>3 DEF S, g
  <2> QED BY <2>1, SumOverAdjusted
<1>5. l \in S => g[l] - stock[l] = d
  BY <1>3 DEF S, g
<1> QED BY <1>1, <1>4, <1>5 DEF S, g

=============================================================================
