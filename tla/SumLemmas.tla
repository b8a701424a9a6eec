------------------------------ MODULE SumLemmas ------------------------------
(***************************************************************************)
(* What SumFunctionOnSet computes: the sum of a function over a finite set *)
(* is empty for no element, and an element adds its value, whichever order *)
(* the fold takes the elements in.  Induction over the set is done by its  *)
(* smallest counterexample, which the well-founded order of finite subsets *)
(* provides.                                                               *)
(***************************************************************************)
EXTENDS Functions, FiniteSetTheorems, TLAPS

(* The element that the fold takes out first.                              *)
First(s) == CHOOSE x \in s : TRUE

(* g is the function that the fold over A defines by recursion.            *)
IsFold(g, f, A) ==
  g = [s \in SUBSET A |-> IF s = {} THEN 0 ELSE f[First(s)] + g[s \ {First(s)}]]

(* The first element of a set is one of its elements.                      *)
LEMMA FirstIn == \A s : s # {} => First(s) \in s
BY DEF First

(* A non-empty set of subsets of a finite set has a minimal one.           *)
LEMMA MinimalSubset ==
  ASSUME NEW S, IsFiniteSet(S), NEW T, T \subseteq SUBSET S, T # {}
  PROVE  \E m \in T : \A v \in T : v \subseteq m => v = m
<1>1. IsWellFoundedOn(StrictSubsetOrdering(S), FiniteSubsetsOf(S))
  BY FS_StrictSubsetOrderingWellFounded
<1>2. T \subseteq FiniteSubsetsOf(S)
  BY FS_FiniteSubsetsOfFinite
<1>3. PICK m \in T : \A v \in T : <<v, m>> \notin StrictSubsetOrdering(S)
  BY <1>1, <1>2, WFMin
<1>4. ASSUME NEW v \in T, v \subseteq m, v # m PROVE FALSE
  BY <1>3, <1>4 DEF StrictSubsetOrdering
<1>5. QED
  BY <1>4

(* Two folds agree on the sets that both are defined for.                  *)
LEMMA FoldsAgree ==
  ASSUME NEW f, NEW A, NEW B, IsFiniteSet(A), NEW g, NEW h, IsFold(g, f, A), IsFold(h, f, B)
  PROVE  \A u : u \subseteq A /\ u \subseteq B => g[u] = h[u]
<1> DEFINE T == {u \in SUBSET (A \cap B) : g[u] # h[u]}
<1>1. SUFFICES ASSUME T # {} PROVE FALSE
  OBVIOUS
<1>2. IsFiniteSet(A \cap B)
  BY FS_Intersection
<1>3. T \subseteq SUBSET (A \cap B)
  OBVIOUS
<1>4. PICK m \in T : \A v \in T : v \subseteq m => v = m
  <2> HIDE DEF T
  <2>1. QED
    BY <1>1, <1>2, <1>3, MinimalSubset
<1>5. m # {} /\ First(m) \in m
  BY FirstIn DEF IsFold
<1>6. m \ {First(m)} \notin T
  BY <1>4, <1>5
<1>7. g[m \ {First(m)}] = h[m \ {First(m)}]
  BY <1>6
<1>8. QED
  BY <1>5, <1>7 DEF IsFold

(* The recursion defines a function.                                       *)
LEMMA FoldExists ==
  ASSUME NEW f, NEW S, IsFiniteSet(S)
  PROVE  \E g : IsFold(g, f, S)
<1> DEFINE T == {A \in SUBSET S : ~\E g : IsFold(g, f, A)}
<1>1. SUFFICES ASSUME T # {} PROVE FALSE
  OBVIOUS
<1>s. T \subseteq SUBSET S
  OBVIOUS
<1>2. PICK A \in T : \A v \in T : v \subseteq A => v = A
  <2> HIDE DEF T
  <2>1. QED
    BY <1>1, <1>s, MinimalSubset
<1> DEFINE G(B) == CHOOSE g : IsFold(g, f, B)
           g == [s \in SUBSET A |-> IF s = {} THEN 0 ELSE f[First(s)] + G(s \ {First(s)})[s \ {First(s)}]]
<1>3. ASSUME NEW B, B \subseteq A, B # A PROVE IsFold(G(B), f, B) /\ IsFiniteSet(B)
  <2>1. B \notin T
    BY <1>2, <1>3
  <2>2. \E h : IsFold(h, f, B)
    BY <1>3, <2>1
  <2>3. QED
    BY <1>3, <2>2, FS_Subset
<1>4. ASSUME NEW s \in SUBSET A, s # {} PROVE g[s \ {First(s)}] = G(s \ {First(s)})[s \ {First(s)}]
  <2> DEFINE t == s \ {First(s)}
  <2>1. t \subseteq A /\ t # A /\ First(s) \in s
    BY <1>4, FirstIn
  <2>2. IsFold(G(t), f, t)
    BY <1>3, <2>1
  <2>3. CASE t = {}
    BY <2>1, <2>2, <2>3 DEF IsFold
  <2>4. CASE t # {}
    <3> DEFINE u == t \ {First(t)}
    <3>1. u \subseteq t /\ u \subseteq A /\ u # A /\ First(t) \in t
      BY <2>1, <2>4, FirstIn
    <3>2. IsFold(G(u), f, u)
      BY <1>3, <3>1
    <3>3. IsFiniteSet(t) /\ IsFiniteSet(u)
      BY <1>3, <2>1, <3>1
    <3>4. G(t)[u] = G(u)[u]
      BY <2>2, <3>1, <3>2, <3>3, FoldsAgree
    <3>5. G(t)[t] = f[First(t)] + G(t)[u]
      BY <2>2, <2>4 DEF IsFold
    <3>6. g[t] = f[First(t)] + G(u)[u]
      BY <2>1, <2>4
    <3>7. QED
      BY <3>4, <3>5, <3>6
  <2>5. QED
    BY <2>3, <2>4
<1>5. IsFold(g, f, A)
  <2>1. g = [s \in SUBSET A |-> IF s = {} THEN 0 ELSE f[First(s)] + G(s \ {First(s)})[s \ {First(s)}]]
    OBVIOUS
  <2> HIDE DEF g, G
  <2>2. QED
    BY <1>4, <2>1 DEF IsFold
<1>6. QED
  BY <1>2, <1>5

(* The library's sum is what that recursion gives for the whole set.       *)
LEMMA SumIsFold ==
  ASSUME NEW f, NEW S
  PROVE  SumFunctionOnSet(f, S) = (CHOOSE g : IsFold(g, f, S))[S]
BY DEF SumFunctionOnSet, FoldFunctionOnSet, MapThenFoldSet, IsFold, First

(* The fold takes one element after the other.                             *)
LEMMA SumStep ==
  ASSUME NEW f, NEW S, IsFiniteSet(S)
  PROVE  SumFunctionOnSet(f, S) = IF S = {} THEN 0
           ELSE f[First(S)] + SumFunctionOnSet(f, S \ {First(S)})
<1>1. PICK g : g = CHOOSE h : IsFold(h, f, S)
  OBVIOUS
<1>2. IsFold(g, f, S) /\ SumFunctionOnSet(f, S) = g[S]
  BY <1>1, FoldExists, SumIsFold
<1>3. CASE S = {}
  BY <1>2, <1>3 DEF IsFold
<1>4. CASE S # {}
  <2>1. PICK t : t = S \ {First(S)}
    OBVIOUS
  <2>2. t \subseteq S /\ IsFiniteSet(t)
    BY <2>1, FS_Subset
  <2>3. PICK h : h = CHOOSE k : IsFold(k, f, t)
    OBVIOUS
  <2>4. IsFold(h, f, t) /\ SumFunctionOnSet(f, t) = h[t]
    BY <2>2, <2>3, FoldExists, SumIsFold
  <2>5. g[t] = h[t]
    BY <1>2, <2>2, <2>4, FoldsAgree
  <2>6. g[S] = f[First(S)] + g[t]
    BY <1>2, <1>4, <2>1 DEF IsFold
  <2>7. QED
    BY <1>2, <1>4, <2>1, <2>4, <2>5, <2>6
<1>5. QED
  BY <1>3, <1>4

(* The sum over no element.                                                *)
THEOREM SumEmpty == \A f : SumFunctionOnSet(f, {}) = 0
BY SumStep, FS_EmptySet

(* What holds of no element, and of a set when it holds of the set without *)
(* the element the fold takes first, holds of every sum.                   *)
THEOREM SumIsNat ==
  ASSUME NEW f, NEW S, IsFiniteSet(S), \A x \in S : f[x] \in Nat
  PROVE  SumFunctionOnSet(f, S) \in Nat
<1> DEFINE T == {A \in SUBSET S : SumFunctionOnSet(f, A) \notin Nat}
<1>1. SUFFICES ASSUME T # {} PROVE FALSE
  BY FS_Subset
<1>2. T \subseteq SUBSET S
  OBVIOUS
<1>3. PICK m \in T : \A v \in T : v \subseteq m => v = m
  <2> HIDE DEF T
  <2>1. QED
    BY <1>1, <1>2, MinimalSubset
<1>4. IsFiniteSet(m) /\ m \subseteq S
  BY FS_Subset
<1>5. m # {} /\ First(m) \in m
  BY <1>4, FirstIn, SumEmpty
<1>6. m \ {First(m)} \notin T
  BY <1>3, <1>5
<1>7. SumFunctionOnSet(f, m \ {First(m)}) \in Nat
  BY <1>4, <1>6
<1>8. SumFunctionOnSet(f, m) = f[First(m)] + SumFunctionOnSet(f, m \ {First(m)})
  BY <1>4, <1>5, SumStep
<1>9. QED
  BY <1>4, <1>5, <1>7, <1>8

(* Equal values make equal sums.                                           *)
THEOREM SumSame ==
  ASSUME NEW f, NEW g, NEW S, IsFiniteSet(S), \A x \in S : f[x] = g[x]
  PROVE  SumFunctionOnSet(f, S) = SumFunctionOnSet(g, S)
<1> DEFINE T == {A \in SUBSET S : SumFunctionOnSet(f, A) # SumFunctionOnSet(g, A)}
<1>1. SUFFICES ASSUME T # {} PROVE FALSE
  OBVIOUS
<1>2. T \subseteq SUBSET S
  OBVIOUS
<1>3. PICK m \in T : \A v \in T : v \subseteq m => v = m
  <2> HIDE DEF T
  <2>1. QED
    BY <1>1, <1>2, MinimalSubset
<1>4. IsFiniteSet(m) /\ m \subseteq S
  BY FS_Subset
<1>5. m # {} /\ First(m) \in m
  BY <1>4, FirstIn, SumEmpty
<1>6. m \ {First(m)} \notin T
  BY <1>3, <1>5
<1>7. SumFunctionOnSet(f, m \ {First(m)}) = SumFunctionOnSet(g, m \ {First(m)})
  BY <1>4, <1>6
<1>8. /\ SumFunctionOnSet(f, m) = f[First(m)] + SumFunctionOnSet(f, m \ {First(m)})
      /\ SumFunctionOnSet(g, m) = g[First(m)] + SumFunctionOnSet(g, m \ {First(m)})
  BY <1>4, <1>5, SumStep
<1>9. QED
  BY <1>4, <1>5, <1>7, <1>8

(* Whichever element is taken out first, it counts with its value.         *)
THEOREM SumOneOut ==
  ASSUME NEW f, NEW S, IsFiniteSet(S), \A x \in S : f[x] \in Nat, NEW y \in S
  PROVE  SumFunctionOnSet(f, S) = f[y] + SumFunctionOnSet(f, S \ {y})
<1> DEFINE Good(A, z) == SumFunctionOnSet(f, A) = f[z] + SumFunctionOnSet(f, A \ {z})
           T == {A \in SUBSET S : \E z \in A : ~Good(A, z)}
<1>1. SUFFICES ASSUME T # {} PROVE FALSE
  OBVIOUS
<1>2. T \subseteq SUBSET S
  OBVIOUS
<1>3. PICK m \in T : \A v \in T : v \subseteq m => v = m
  <2> HIDE DEF T
  <2>1. QED
    BY <1>1, <1>2, MinimalSubset
<1>4. IsFiniteSet(m) /\ m \subseteq S
  BY FS_Subset
<1>5. PICK z \in m : ~Good(m, z)
  OBVIOUS
<1>6. PICK x \in m : x = First(m)
  BY <1>5, FirstIn
<1>7. SumFunctionOnSet(f, m) = f[x] + SumFunctionOnSet(f, m \ {x})
  BY <1>5, <1>6, <1>4, SumStep
<1>8. x # z
  BY <1>5, <1>7
<1>9. m \ {x} \notin T /\ m \ {z} \notin T
  BY <1>3, <1>5
<1>10. Good(m \ {x}, z) /\ Good(m \ {z}, x)
  BY <1>4, <1>8, <1>9
<1>11. PICK r : r = (m \ {x}) \ {z} /\ r = (m \ {z}) \ {x}
  OBVIOUS
<1>12. IsFiniteSet(r) /\ r \subseteq S
  BY <1>4, <1>11, FS_Subset
<1>13. SumFunctionOnSet(f, r) \in Nat /\ f[x] \in Nat /\ f[z] \in Nat
  BY <1>4, <1>12, SumIsNat
<1>14. SumFunctionOnSet(f, m \ {x}) = f[z] + SumFunctionOnSet(f, r)
  BY <1>10, <1>11
<1>15. SumFunctionOnSet(f, m \ {z}) = f[x] + SumFunctionOnSet(f, r)
  BY <1>10, <1>11
<1>16. SumFunctionOnSet(f, m) = f[z] + SumFunctionOnSet(f, m \ {z})
  BY <1>7, <1>13, <1>14, <1>15
<1>17. QED
  BY <1>5, <1>16

(* An element that comes in adds its value.                                *)
THEOREM SumOneIn ==
  ASSUME NEW f, NEW S, IsFiniteSet(S), NEW y, y \notin S, \A x \in S \cup {y} : f[x] \in Nat
  PROVE  SumFunctionOnSet(f, S \cup {y}) = f[y] + SumFunctionOnSet(f, S)
<1>1. IsFiniteSet(S \cup {y})
  BY FS_AddElement
<1>2. (S \cup {y}) \ {y} = S
  OBVIOUS
<1>3. QED
  BY <1>1, <1>2, SumOneOut

(* A part sums up to no more than the whole.                               *)
THEOREM SumOfPart ==
  ASSUME NEW f, NEW S, IsFiniteSet(S), \A x \in S : f[x] \in Nat, NEW P, P \subseteq S
  PROVE  SumFunctionOnSet(f, P) <= SumFunctionOnSet(f, S)
<1> DEFINE T == {A \in SUBSET S : P \subseteq A /\ ~(SumFunctionOnSet(f, P) <= SumFunctionOnSet(f, A))}
<1>1. SUFFICES ASSUME T # {} PROVE FALSE
  OBVIOUS
<1>2. T \subseteq SUBSET S
  OBVIOUS
<1>3. PICK m \in T : \A v \in T : v \subseteq m => v = m
  <2> HIDE DEF T
  <2>1. QED
    BY <1>1, <1>2, MinimalSubset
<1>4. IsFiniteSet(m) /\ m \subseteq S /\ P \subseteq m /\ IsFiniteSet(P)
  BY FS_Subset
<1>5. SumFunctionOnSet(f, m) \in Nat /\ SumFunctionOnSet(f, P) \in Nat
  BY <1>4, SumIsNat
<1>6. PICK x \in m : x \notin P
  BY <1>4, <1>5
<1>7. m \ {x} \notin T
  BY <1>3, <1>6
<1>8. SumFunctionOnSet(f, P) <= SumFunctionOnSet(f, m \ {x})
  BY <1>4, <1>6, <1>7
<1>9. SumFunctionOnSet(f, m) = f[x] + SumFunctionOnSet(f, m \ {x})
  BY <1>4, SumOneOut
<1>10. SumFunctionOnSet(f, m \ {x}) \in Nat /\ f[x] \in Nat
  BY <1>4, FS_Subset, SumIsNat
<1>11. QED
  BY <1>5, <1>8, <1>9, <1>10
=============================================================================
