------------------------- MODULE CurTeamCost_proofs -------------------------
(***************************************************************************)
(* Proofs about CurTeamCost, for every bill, number of runs, page sizes    *)
(* and calendar.  A run writes under the day it read the clock, and asks   *)
(* for the period of that day, so that the file of a day is of the period  *)
(* of the day; the latest day the view reads only moves forward.           *)
(***************************************************************************)
EXTENDS CurTeamCost, FiniteSetTheorems, TLAPS

-----------------------------------------------------------------------------
(* Sums over finite sets.                                                  *)

(* Induction over a finite set, with a set of subsets in place of a      *)
(* predicate: the smallest subset outside P would have all of its own    *)
(* in P.                                                                 *)
LEMMA SubsetInduction ==
  ASSUME NEW S, IsFiniteSet(S), NEW P,
         \A T \in SUBSET S : (\A U \in SUBSET T : U # T => U \in P) => T \in P
  PROVE  S \in P
  <1> DEFINE bad == {T \in SUBSET S : T \notin P}
  <1>1. SUFFICES ASSUME bad # {} PROVE FALSE
    OBVIOUS
  <1>2. IsWellFoundedOn(StrictSubsetOrdering(S), SUBSET S)
    BY FS_FiniteSubsetsOfFinite, FS_StrictSubsetOrderingWellFounded
  <1>3. PICK T \in bad : \A U \in bad : <<U, T>> \notin StrictSubsetOrdering(S)
    <2>1. bad \subseteq SUBSET S
      OBVIOUS
    <2> HIDE DEF bad
    <2> QED
      BY <1>1, <1>2, <2>1, WFMin
  <1>4. ASSUME NEW U \in SUBSET T, U # T
        PROVE  U \in P
    <2>1. <<U, T>> \in StrictSubsetOrdering(S)
      BY <1>4 DEF StrictSubsetOrdering
    <2> QED
      BY <1>3, <2>1
  <1> QED
    BY <1>4

(* The recursion behind SumFunctionOnSet: g[s] is the sum of f over s,   *)
(* for every subset s of S.                                              *)
Picked(s) == CHOOSE x \in s : TRUE

LEMMA PickedIn == \A s : s # {} => Picked(s) \in s
  BY DEF Picked

IsTotal(g, f, S) ==
  g = [s \in SUBSET S |-> IF s = {} THEN 0 ELSE f[Picked(s)] + g[s \ {Picked(s)}]]

(* What SumFunctionOnSet unfolds to.                                     *)
LEMMA SumIs == \A f, S : SumFunctionOnSet(f, S) = (CHOOSE g : IsTotal(g, f, S))[S]
  BY DEF SumFunctionOnSet, FoldFunctionOnSet, MapThenFoldSet, IsTotal, Picked

(* There is one such recursion for every finite set, and the sums of a   *)
(* set are those of the sets around it.                                  *)
LEMMA TotalUnique ==
  ASSUME NEW f, NEW S, IsFiniteSet(S), NEW T, S \subseteq T,
         NEW g, NEW h, IsTotal(g, f, S), IsTotal(h, f, T)
  PROVE  g[S] = h[S]
  <1> DEFINE P == {s \in SUBSET S : g[s] = h[s]}
  <1>1. ASSUME NEW s \in SUBSET S
        PROVE  /\ g[s] = IF s = {} THEN 0 ELSE f[Picked(s)] + g[s \ {Picked(s)}]
               /\ h[s] = IF s = {} THEN 0 ELSE f[Picked(s)] + h[s \ {Picked(s)}]
    BY DEF IsTotal
  <1>2. ASSUME NEW s \in SUBSET S, \A u \in SUBSET s : u # s => u \in P
        PROVE  s \in P
    <2>1. CASE s = {}
      BY <1>1, <2>1
    <2>2. CASE s # {}
      <3>1. s \ {Picked(s)} \in P
        BY <1>2, <2>2, PickedIn
      <3> QED
        BY <1>1, <2>2, <3>1
    <2> QED
      BY <2>1, <2>2
  <1>3. S \in P
    <2> HIDE DEF P
    <2> QED
      BY <1>2, SubsetInduction
  <1> QED
    BY <1>3

LEMMA TotalExists ==
  ASSUME NEW f, NEW S, IsFiniteSet(S)
  PROVE  \E g : IsTotal(g, f, S)
  <1> DEFINE P == {s \in SUBSET S : \E g : IsTotal(g, f, s)}
  <1>1. ASSUME NEW T \in SUBSET S, \A u \in SUBSET T : u # T => u \in P
        PROVE  T \in P
    <2> DEFINE part == [s \in SUBSET T |-> CHOOSE g : IsTotal(g, f, s)]
               g    == [s \in SUBSET T |->
                          IF s = {} THEN 0
                          ELSE f[Picked(s)] + part[s \ {Picked(s)}][s \ {Picked(s)}]]
    <2>1. ASSUME NEW u \in SUBSET T, u # T
          PROVE  IsTotal(part[u], f, u)
      <3>1. \E d : IsTotal(d, f, u)
        BY <1>1, <2>1
      <3>2. part[u] = CHOOSE d : IsTotal(d, f, u)
        OBVIOUS
      <3> HIDE DEF part
      <3> QED
        BY <3>1, <3>2
    <2>2. \A s \in SUBSET T : g[s] = IF s = {} THEN 0
             ELSE f[Picked(s)] + part[s \ {Picked(s)}][s \ {Picked(s)}]
      OBVIOUS
    <2> HIDE DEF part
    <2>3. ASSUME NEW u \in SUBSET T, u # T
          PROVE  g[u] = part[u][u]
      <3>1. part[u][u] = IF u = {} THEN 0 ELSE f[Picked(u)] + part[u][u \ {Picked(u)}]
        BY <2>1, <2>3 DEF IsTotal
      <3>2. CASE u = {}
        BY <2>2, <3>1, <3>2
      <3>3. CASE u # {}
        <4> DEFINE v == u \ {Picked(u)}
        <4>1. v \in SUBSET T /\ v # T /\ v \subseteq u /\ IsFiniteSet(v)
          BY <3>3, PickedIn, FS_Subset
        <4>2. part[v][v] = part[u][v]
          BY <2>1, <2>3, <4>1, TotalUnique
        <4> QED
          BY <2>2, <3>1, <3>3, <4>2
      <3> QED
        BY <3>2, <3>3
    <2>4. ASSUME NEW s \in SUBSET T, s # {}
          PROVE  g[s] = f[Picked(s)] + g[s \ {Picked(s)}]
      <3>1. s \ {Picked(s)} \in SUBSET T /\ s \ {Picked(s)} # T
        BY <2>4, PickedIn
      <3> QED
        BY <2>2, <2>3, <2>4, <3>1
    <2>5. g = [s \in SUBSET T |-> g[s]]
      OBVIOUS
    <2>6. g[{}] = 0
      BY <2>2
    <2> HIDE DEF g
    <2>7. g = [s \in SUBSET T |-> IF s = {} THEN 0 ELSE f[Picked(s)] + g[s \ {Picked(s)}]]
      BY <2>4, <2>5, <2>6
    <2> QED
      BY <2>7 DEF IsTotal
  <1>2. S \in P
    <2> HIDE DEF P
    <2> QED
      BY <1>1, SubsetInduction
  <1> QED
    BY <1>2

LEMMA SumTotal ==
  ASSUME NEW f, NEW S, IsFiniteSet(S), NEW T \in SUBSET S, NEW g, IsTotal(g, f, S)
  PROVE  SumFunctionOnSet(f, T) = g[T]
  <1>1. IsFiniteSet(T)
    BY FS_Subset
  <1>2. IsTotal(CHOOSE h : IsTotal(h, f, T), f, T)
    BY <1>1, TotalExists
  <1> QED
    BY <1>1, <1>2, TotalUnique, SumIs

LEMMA SumEmpty == \A f : SumFunctionOnSet(f, {}) = 0
  <1> SUFFICES ASSUME NEW f PROVE SumFunctionOnSet(f, {}) = 0
    OBVIOUS
  <1>1. IsFiniteSet({})
    BY FS_EmptySet
  <1>2. PICK g : IsTotal(g, f, {})
    BY <1>1, TotalExists
  <1>3. SumFunctionOnSet(f, {}) = g[{}]
    BY <1>1, <1>2, SumTotal
  <1>4. g[{}] = 0
    BY <1>2 DEF IsTotal
  <1> QED
    BY <1>3, <1>4

LEMMA SumPicked ==
  ASSUME NEW f, NEW S, IsFiniteSet(S), S # {}
  PROVE  SumFunctionOnSet(f, S) = f[Picked(S)] + SumFunctionOnSet(f, S \ {Picked(S)})
  <1>1. PICK g : IsTotal(g, f, S)
    BY TotalExists
  <1>2. /\ SumFunctionOnSet(f, S) = g[S]
        /\ SumFunctionOnSet(f, S \ {Picked(S)}) = g[S \ {Picked(S)}]
    BY <1>1, SumTotal
  <1>3. g[S] = f[Picked(S)] + g[S \ {Picked(S)}]
    BY <1>1 DEF IsTotal
  <1> QED
    BY <1>2, <1>3

LEMMA SumNat ==
  ASSUME NEW S, IsFiniteSet(S), NEW f, \A x \in S : f[x] \in Nat
  PROVE  SumFunctionOnSet(f, S) \in Nat
  <1> DEFINE P == {T \in SUBSET S : SumFunctionOnSet(f, T) \in Nat}
  <1>1. ASSUME NEW T \in SUBSET S, \A U \in SUBSET T : U # T => U \in P
        PROVE  T \in P
    <2>1. CASE T = {}
      BY <2>1, SumEmpty
    <2>2. CASE T # {}
      <3>1. T \ {Picked(T)} \in P /\ Picked(T) \in S
        BY <1>1, <2>2, PickedIn
      <3>2. SumFunctionOnSet(f, T) = f[Picked(T)] + SumFunctionOnSet(f, T \ {Picked(T)})
        BY <2>2, SumPicked, FS_Subset
      <3> QED
        BY <3>1, <3>2
    <2> QED
      BY <2>1, <2>2
  <1>2. S \in P
    <2> HIDE DEF P
    <2> QED
      BY <1>1, SubsetInduction
  <1> QED
    BY <1>2

(* A sum takes its elements in any order.                                *)
LEMMA SumElement ==
  ASSUME NEW S, IsFiniteSet(S), NEW f, \A x \in S : f[x] \in Nat, NEW x \in S
  PROVE  SumFunctionOnSet(f, S) = f[x] + SumFunctionOnSet(f, S \ {x})
  <1> DEFINE P == {T \in SUBSET S :
                     \A z \in T : SumFunctionOnSet(f, T) = f[z] + SumFunctionOnSet(f, T \ {z})}
  <1>1. ASSUME NEW T \in SUBSET S, \A U \in SUBSET T : U # T => U \in P
        PROVE  T \in P
    <2> SUFFICES ASSUME NEW z \in T
                 PROVE  SumFunctionOnSet(f, T) = f[z] + SumFunctionOnSet(f, T \ {z})
      OBVIOUS
    <2> DEFINE y == Picked(T)
               R == (T \ {y}) \ {z}
    <2>1. y \in T /\ IsFiniteSet(T)
      BY PickedIn, FS_Subset
    <2>2. SumFunctionOnSet(f, T) = f[y] + SumFunctionOnSet(f, T \ {y})
      BY <2>1, SumPicked
    <2> HIDE DEF y
    <2>3. CASE z = y
      BY <2>2, <2>3
    <2>4. CASE z # y
      <3>1. T \ {y} \in P /\ z \in T \ {y} /\ T \ {z} \in P /\ y \in T \ {z}
        BY <1>1, <2>1, <2>4
      <3>2. SumFunctionOnSet(f, T \ {y}) = f[z] + SumFunctionOnSet(f, R)
        BY <3>1
      <3>3. (T \ {z}) \ {y} = R
        OBVIOUS
      <3>4. SumFunctionOnSet(f, T \ {z}) = f[y] + SumFunctionOnSet(f, R)
        BY <3>1, <3>3
      <3>5. f[y] \in Nat /\ f[z] \in Nat /\ SumFunctionOnSet(f, R) \in Nat
        <4>1. IsFiniteSet(R) /\ R \subseteq S
          BY <2>1, FS_Subset
        <4> QED
          BY <2>1, <4>1, SumNat
      <3> QED
        BY <2>2, <3>2, <3>4, <3>5
    <2> QED
      BY <2>3, <2>4
  <1>2. S \in P
    <2> HIDE DEF P
    <2> QED
      BY <1>1, SubsetInduction
  <1> QED
    BY <1>2

(* Induction that takes one element out at a time.                       *)
LEMMA ElementInduction ==
  ASSUME NEW S, IsFiniteSet(S), NEW P, {} \in P,
         \A T \in SUBSET S : \A x \in T : T \ {x} \in P => T \in P
  PROVE  S \in P
  <1>1. ASSUME NEW T \in SUBSET S, \A U \in SUBSET T : U # T => U \in P
        PROVE  T \in P
    <2>1. ASSUME NEW x \in T
          PROVE  T \in P
      <3>1. T \ {x} \in P
        BY <1>1
      <3> QED
        BY <3>1
    <2> QED
      BY <2>1
  <1> QED
    BY <1>1, SubsetInduction

(* Elements whose value is zero add nothing.                             *)
LEMMA SumNonzero ==
  ASSUME NEW S, IsFiniteSet(S), NEW f, \A x \in S : f[x] \in Nat
  PROVE  SumFunctionOnSet(f, S) = SumFunctionOnSet(f, {x \in S : f[x] # 0})
  <1> DEFINE P == {T \in SUBSET S :
                     SumFunctionOnSet(f, T) = SumFunctionOnSet(f, {x \in T : f[x] # 0})}
  <1>1. {} \in P
    <2>1. {x \in {} : f[x] # 0} = {}
      OBVIOUS
    <2> QED
      BY <2>1
  <1>2. ASSUME NEW T \in SUBSET S, NEW x \in T, T \ {x} \in P
        PROVE  T \in P
    <2> DEFINE N == {z \in T : f[z] # 0}
    <2>1. {z \in T \ {x} : f[z] # 0} = N \ {x}
      OBVIOUS
    <2>2. /\ SumFunctionOnSet(f, T) = f[x] + SumFunctionOnSet(f, T \ {x})
          /\ SumFunctionOnSet(f, T \ {x}) = SumFunctionOnSet(f, N \ {x})
      BY <1>2, <2>1, SumElement, FS_Subset
    <2>3. SumFunctionOnSet(f, N \ {x}) \in Nat /\ f[x] \in Nat
      <3>1. IsFiniteSet(N \ {x}) /\ \A z \in N \ {x} : f[z] \in Nat
        BY FS_Subset
      <3> HIDE DEF N
      <3> QED
        BY <3>1, SumNat
    <2>4. SumFunctionOnSet(f, N) = f[x] + SumFunctionOnSet(f, N \ {x})
      <3>1. CASE f[x] # 0
        <4>1. x \in N /\ IsFiniteSet(N) /\ \A z \in N : f[z] \in Nat
          BY <3>1, FS_Subset
        <4> QED
          BY <4>1, SumElement
      <3>2. CASE f[x] = 0
        <4>1. N \ {x} = N
          BY <3>2
        <4> HIDE DEF N
        <4>2. SumFunctionOnSet(f, N \ {x}) = SumFunctionOnSet(f, N)
          BY <4>1
        <4> QED
          BY <2>3, <3>2, <4>2
      <3> QED
        BY <3>1, <3>2
    <2> QED
      BY <2>2, <2>4
  <1>3. S \in P
    <2> HIDE DEF P
    <2> QED
      BY <1>1, <1>2, ElementInduction
  <1> QED
    BY <1>3

LEMMA ImageFinite ==
  ASSUME NEW S, IsFiniteSet(S), NEW h
  PROVE  IsFiniteSet({h[x] : x \in S})
  <1> DEFINE P == {T \in SUBSET S : IsFiniteSet({h[x] : x \in T})}
  <1>1. {} \in P
    <2>1. {h[x] : x \in {}} = {}
      OBVIOUS
    <2> QED
      BY <2>1, FS_EmptySet
  <1>2. ASSUME NEW T \in SUBSET S, NEW x \in T, T \ {x} \in P
        PROVE  T \in P
    <2>1. {h[z] : z \in T} = {h[z] : z \in T \ {x}} \cup {h[x]}
      OBVIOUS
    <2>2. IsFiniteSet({h[z] : z \in T \ {x}})
      BY <1>2
    <2>3. IsFiniteSet({h[z] : z \in T \ {x}} \cup {h[x]})
      BY <2>2, FS_AddElement
    <2>4. IsFiniteSet({h[z] : z \in T})
      BY <2>1, <2>3
    <2> QED
      BY <2>4
  <1>3. S \in P
    <2> HIDE DEF P
    <2> QED
      BY <1>1, <1>2, ElementInduction
  <1> QED
    BY <1>3

(* The elements of a sum may be renamed, each to one of its own.         *)
LEMMA SumRenamed ==
  ASSUME NEW S, IsFiniteSet(S), NEW h, NEW f, NEW g,
         \A x, y \in S : h[x] = h[y] => x = y,
         \A x \in S : f[h[x]] = g[x] /\ g[x] \in Nat
  PROVE  SumFunctionOnSet(f, {h[x] : x \in S}) = SumFunctionOnSet(g, S)
  <1> DEFINE P == {T \in SUBSET S :
                     SumFunctionOnSet(f, {h[x] : x \in T}) = SumFunctionOnSet(g, T)}
  <1>1. {} \in P
    <2>1. {h[x] : x \in {}} = {}
      OBVIOUS
    <2> QED
      BY <2>1, SumEmpty
  <1>2. ASSUME NEW T \in SUBSET S, NEW x \in T, T \ {x} \in P
        PROVE  T \in P
    <2> DEFINE I == {h[z] : z \in T}
    <2>1. {h[z] : z \in T \ {x}} = I \ {h[x]}
      OBVIOUS
    <2>2. IsFiniteSet(T) /\ IsFiniteSet(I)
      <3>1. IsFiniteSet(T)
        BY FS_Subset
      <3> QED
        BY <3>1, ImageFinite
    <2>3. \A z \in I : f[z] \in Nat
      OBVIOUS
    <2>4. SumFunctionOnSet(f, I) = f[h[x]] + SumFunctionOnSet(f, I \ {h[x]})
      <3>1. h[x] \in I
        OBVIOUS
      <3> HIDE DEF I
      <3> QED
        BY <2>2, <2>3, <3>1, SumElement
    <2>5. SumFunctionOnSet(g, T) = g[x] + SumFunctionOnSet(g, T \ {x})
      BY <2>2, SumElement
    <2>6. SumFunctionOnSet(f, I \ {h[x]}) = SumFunctionOnSet(g, T \ {x})
      BY <1>2, <2>1
    <2> QED
      BY <2>4, <2>5, <2>6
  <1>3. S \in P
    <2> HIDE DEF P
    <2> QED
      BY <1>1, <1>2, ElementInduction
  <1> QED
    BY <1>3

LEMMA SumUnion ==
  ASSUME NEW A, NEW B, IsFiniteSet(A), IsFiniteSet(B), A \cap B = {},
         NEW f, \A x \in A \cup B : f[x] \in Nat
  PROVE  SumFunctionOnSet(f, A \cup B) = SumFunctionOnSet(f, A) + SumFunctionOnSet(f, B)
  <1> DEFINE P == {T \in SUBSET B :
        SumFunctionOnSet(f, A \cup T) = SumFunctionOnSet(f, A) + SumFunctionOnSet(f, T)}
  <1>1. {} \in P
    <2>1. SumFunctionOnSet(f, A) \in Nat /\ A \cup {} = A
      BY SumNat
    <2> QED
      BY <2>1, SumEmpty
  <1>2. ASSUME NEW T \in SUBSET B, NEW x \in T, T \ {x} \in P
        PROVE  T \in P
    <2> DEFINE R == T \ {x}
               U == A \cup T
    <2>1. IsFiniteSet(T) /\ IsFiniteSet(R) /\ IsFiniteSet(U)
      BY FS_Subset, FS_Union
    <2>2. U \ {x} = A \cup R /\ x \in U
      OBVIOUS
    <2>3. SumFunctionOnSet(f, U) = f[x] + SumFunctionOnSet(f, A \cup R)
      <3>1. \A z \in U : f[z] \in Nat
        OBVIOUS
      <3> HIDE DEF U
      <3> QED
        BY <2>1, <2>2, <3>1, SumElement
    <2>4. SumFunctionOnSet(f, T) = f[x] + SumFunctionOnSet(f, R)
      BY <2>1, SumElement
    <2>5. SumFunctionOnSet(f, A \cup R) = SumFunctionOnSet(f, A) + SumFunctionOnSet(f, R)
      BY <1>2
    <2>6. f[x] \in Nat /\ SumFunctionOnSet(f, A) \in Nat /\ SumFunctionOnSet(f, R) \in Nat
      <3>1. \A z \in R : f[z] \in Nat
        OBVIOUS
      <3> HIDE DEF R
      <3> QED
        BY <2>1, <3>1, SumNat
    <2> HIDE DEF R
    <2>7. SumFunctionOnSet(f, U) = SumFunctionOnSet(f, A) + SumFunctionOnSet(f, T)
      BY <2>3, <2>4, <2>5, <2>6
    <2> QED
      BY <2>7
  <1>3. B \in P
    <2> HIDE DEF P
    <2> QED
      BY <1>1, <1>2, ElementInduction
  <1> QED
    BY <1>3

(* Adding up the sums of groups adds up what is in the groups.           *)
LEMMA SumGrouped ==
  ASSUME NEW X, IsFiniteSet(X), NEW f, \A x \in X : f[x] \in Nat,
         NEW key, DOMAIN key = X, NEW K, IsFiniteSet(K),
         NEW group, DOMAIN group = K, NEW all,
         \A k \in K : \A x : x \in group[k] <=> x \in X /\ key[x] = k,
         \A x : x \in all <=> x \in X /\ key[x] \in K,
         NEW c, \A k \in K : c[k] = SumFunctionOnSet(f, group[k])
  PROVE  SumFunctionOnSet(c, K) = SumFunctionOnSet(f, all)
  <1> DEFINE Of(T) == {x \in X : key[x] \in T}
  <1> DEFINE P == {T \in SUBSET K : SumFunctionOnSet(c, T) = SumFunctionOnSet(f, Of(T))}
  <1>1. {} \in P
    <2>1. Of({}) = {}
      OBVIOUS
    <2> QED
      BY <2>1, SumEmpty
  <1>2. ASSUME NEW k \in K
        PROVE  c[k] = SumFunctionOnSet(f, Of({k})) /\ c[k] \in Nat
    <2>1. Of({k}) = group[k]
      OBVIOUS
    <2>2. IsFiniteSet(Of({k})) /\ \A x \in Of({k}) : f[x] \in Nat
      BY FS_Subset
    <2>3. SumFunctionOnSet(f, Of({k})) \in Nat
      <3> HIDE DEF Of
      <3> QED
        BY <2>2, SumNat
    <2> QED
      BY <2>1, <2>3
  <1>3. ASSUME NEW T \in SUBSET K, NEW k \in T, T \ {k} \in P
        PROVE  T \in P
    <2>1. /\ Of(T) = Of({k}) \cup Of(T \ {k}) /\ Of({k}) \cap Of(T \ {k}) = {}
          /\ \A x \in Of({k}) \cup Of(T \ {k}) : f[x] \in Nat
      OBVIOUS
    <2>2. IsFiniteSet(Of({k})) /\ IsFiniteSet(Of(T \ {k})) /\ IsFiniteSet(T)
      BY FS_Subset
    <2>3. SumFunctionOnSet(c, T) = c[k] + SumFunctionOnSet(c, T \ {k})
      BY <1>2, <2>2, SumElement
    <2>4. SumFunctionOnSet(c, T \ {k}) = SumFunctionOnSet(f, Of(T \ {k}))
      BY <1>3
    <2>5. c[k] = SumFunctionOnSet(f, Of({k}))
      BY <1>2
    <2>6. PICK A, B : A = Of({k}) /\ B = Of(T \ {k})
      OBVIOUS
    <2>7. SumFunctionOnSet(f, A \cup B) = SumFunctionOnSet(f, A) + SumFunctionOnSet(f, B)
      <3>1. IsFiniteSet(A) /\ IsFiniteSet(B) /\ A \cap B = {} /\ \A x \in A \cup B : f[x] \in Nat
        BY <2>1, <2>2, <2>6
      <3> QED
        BY <3>1, SumUnion
    <2>8. SumFunctionOnSet(c, T) = SumFunctionOnSet(f, Of(T))
      BY <2>1, <2>3, <2>4, <2>5, <2>6, <2>7
    <2> QED
      BY <2>8
  <1>4. K \in P
    <2> HIDE DEF P
    <2> QED
      BY <1>1, <1>3, ElementInduction
  <1>5. all = Of(K)
    OBVIOUS
  <1> QED
    BY <1>4, <1>5

-----------------------------------------------------------------------------
(* What the types need to know of the constants.                           *)
LEMMA Constants ==
  /\ MaxDay \in Nat \ {0} /\ MaxCost \in Nat /\ MaxEvents \in Nat /\ Window \in Nat
  /\ NoTeam \notin Teams /\ \A l \in Lines : l.team \in Teams \cup {NoTeam}
  /\ InitBill \subseteq [Periods -> [Lines -> 0..MaxCost]]
  /\ MaxPeriod \in Nat \ {0} /\ Period \in [Days -> Periods]
  /\ \A d, e \in Days : d =< e => Period[d] =< Period[e]
  BY CurTeamCostAssumption

-----------------------------------------------------------------------------
(* A report of a whole result.                                             *)

Lined(b) == {<<l, b[l]>> : l \in {x \in Lines : b[x] > 0}}

(* The lines the parser puts under an endpoint for a team.                 *)
ParsedLines(t, a) ==
  {l \in Lines : /\ ParseUsageType(l.type) # None
                 /\ TeamOf(l) = t /\ ParseUsageType(l.type).endpoint = a}

LEMMA LinesFinite == IsFiniteSet(Lines)
  BY CurTeamCostAssumption

(* The rows of a report stand for its keys.                                *)
LEMMA ReportedByKey ==
  ASSUME NEW rows, IsFiniteSet(rows), \A x \in rows : x[2] \in Nat, NEW t, NEW a
  PROVE  Reported(AggregatePerTeamCost(rows), t, a)
           = SumFunctionOnSet([x \in rows |-> x[2]],
               {x \in Recognised(rows) : Key(x[1])[1] = t /\ Key(x[1])[2].endpoint = a})
  <1> DEFINE F   == Recognised(rows)
             f   == [x \in rows |-> x[2]]
             all == {Key(x[1]) : x \in F}
             K   == {k \in all : k[1] = t /\ k[2].endpoint = a}
             c   == [k \in all |-> CostOf(rows, k)]
             row == [k \in all |-> [key |-> k, cost |-> CostOf(rows, k)]]
             key == [x \in F |-> Key(x[1])]
             agg == AggregatePerTeamCost(rows)
             g   == [x \in agg |-> x.cost]
  <1>1. F \subseteq rows /\ IsFiniteSet(F) /\ \A x \in F : f[x] \in Nat
    <2>1. F \subseteq rows
      BY DEF Recognised
    <2> QED
      BY <2>1, FS_Subset
  <1>2. \A k \in all : c[k] = SumFunctionOnSet(f, {x \in F : key[x] = k})
    <2> SUFFICES ASSUME NEW k \in all
                 PROVE  c[k] = SumFunctionOnSet(f, {x \in F : key[x] = k})
      OBVIOUS
    <2>1. {x \in F : key[x] = k} = {x \in F : Key(x[1]) = k}
      OBVIOUS
    <2>2. c[k] = SumFunctionOnSet(f, {x \in F : Key(x[1]) = k})
      BY DEF CostOf
    <2> QED
      BY <2>1, <2>2
  <1>3. IsFiniteSet(all) /\ IsFiniteSet(K)
    <2>1. all = {key[x] : x \in F}
      OBVIOUS
    <2>2. IsFiniteSet({key[x] : x \in F})
      <3> HIDE DEF key, F
      <3> QED
        BY <1>1, ImageFinite
    <2>3. IsFiniteSet(all)
      BY <2>1, <2>2
    <2>4. K \subseteq all
      OBVIOUS
    <2> QED
      BY <2>3, <2>4, FS_Subset
  <1>4. \A k \in K : c[k] \in Nat
    <2> SUFFICES ASSUME NEW k \in K PROVE c[k] \in Nat
      OBVIOUS
    <2>1. PICK G : G = {x \in F : key[x] = k}
      OBVIOUS
    <2>2. IsFiniteSet(G) /\ \A x \in G : f[x] \in Nat
      BY <1>1, <2>1, FS_Subset
    <2>3. SumFunctionOnSet(f, G) \in Nat
      <3> HIDE DEF f
      <3> QED
        BY <2>2, SumNat
    <2>4. c[k] = SumFunctionOnSet(f, G)
      BY <1>2, <2>1
    <2> QED
      BY <2>3, <2>4
  <1>5. {x \in agg : x.key[1] = t /\ x.key[2].endpoint = a} = {row[k] : k \in K}
    <2>1. agg = {row[k] : k \in all}
      BY DEF AggregatePerTeamCost
    <2>2. \A k \in all : row[k].key = k
      OBVIOUS
    <2> HIDE DEF agg, row, all
    <2> QED
      BY <2>1, <2>2
  <1>6. SumFunctionOnSet(g, {row[k] : k \in K}) = SumFunctionOnSet(c, K)
    <2>1. \A k \in all : row[k].key = k /\ row[k].cost = c[k] /\ row[k] \in agg
      BY DEF AggregatePerTeamCost
    <2>2. \A k, j \in K : row[k] = row[j] => k = j
      BY <2>1
    <2>3. \A k \in K : g[row[k]] = c[k] /\ c[k] \in Nat
      BY <1>4, <2>1
    <2> HIDE DEF g, row, c, K
    <2> QED
      BY <1>3, <2>2, <2>3, SumRenamed
  <1>7. SumFunctionOnSet(c, K) = SumFunctionOnSet(f, {x \in F : key[x] \in K})
    <2>1. PICK all1 : all1 = {x \in F : key[x] \in K}
      OBVIOUS
    <2>2. PICK group : group = [k \in K |-> {x \in F : key[x] = k}]
      OBVIOUS
    <2>3. \A x : x \in all1 <=> x \in F /\ key[x] \in K
      BY <2>1
    <2>4. /\ \A k \in K : \A x : x \in group[k] <=> x \in F /\ key[x] = k
          /\ \A k \in K : c[k] = SumFunctionOnSet(f, group[k])
      <3>1. \A k \in K : group[k] = {x \in F : key[x] = k}
        BY <2>2
      <3>2. \A k \in K : c[k] = SumFunctionOnSet(f, {x \in F : key[x] = k})
        BY <1>2
      <3> HIDE DEF c, K, f, F, key
      <3> QED
        BY <3>1, <3>2
    <2>5. /\ IsFiniteSet(F) /\ IsFiniteSet(K) /\ \A x \in F : f[x] \in Nat
          /\ DOMAIN key = F /\ DOMAIN group = K
      BY <1>1, <1>3, <2>2
    <2> HIDE DEF c, K, f, F, key
    <2>6. SumFunctionOnSet(c, K) = SumFunctionOnSet(f, all1)
      BY <2>3, <2>4, <2>5, SumGrouped
    <2> QED
      BY <2>1, <2>6
  <1>8. {x \in F : key[x] \in K} = {x \in F : Key(x[1])[1] = t /\ Key(x[1])[2].endpoint = a}
    OBVIOUS
  <1>9. Reported(agg, t, a) = SumFunctionOnSet(g, {row[k] : k \in K})
    BY <1>5, Zenon DEF Reported
  <1> QED
    BY <1>6, <1>7, <1>8, <1>9

(* A report of a whole result adds up to the lines the parser knows.       *)
LEMMA ReportAddsUp ==
  ASSUME NEW b \in [Lines -> 0..MaxCost], NEW t, NEW a
  PROVE  Reported(AggregatePerTeamCost(Lined(b)), t, a) = SumFunctionOnSet(b, ParsedLines(t, a))
  <1> DEFINE rows == Lined(b)
             f    == [x \in rows |-> x[2]]
             pair == [l \in Lines |-> <<l, b[l]>>]
             P    == ParsedLines(t, a)
             N    == {l \in P : b[l] # 0}
             used == {x \in Lines : b[x] > 0}
             of   == {x \in Recognised(rows) : Key(x[1])[1] = t /\ Key(x[1])[2].endpoint = a}
  <1>1. \A l \in Lines : b[l] \in Nat
    BY Constants
  <1>2. IsFiniteSet(P) /\ IsFiniteSet(N) /\ IsFiniteSet(used) /\ P \subseteq Lines
    <2>1. P \subseteq Lines /\ N \subseteq Lines /\ used \subseteq Lines
      BY DEF ParsedLines
    <2> QED
      BY <2>1, LinesFinite, FS_Subset
  <1>3. IsFiniteSet(rows) /\ \A x \in rows : x[2] \in Nat
    <2>1. rows = {pair[l] : l \in used}
      BY DEF Lined
    <2>2. IsFiniteSet({pair[l] : l \in used})
      <3> HIDE DEF pair, used
      <3> QED
        BY <1>2, ImageFinite
    <2>3. IsFiniteSet(rows)
      BY <2>1, <2>2
    <2> QED
      BY <1>1, <2>3 DEF Lined
  <1>4. Reported(AggregatePerTeamCost(rows), t, a) = SumFunctionOnSet(f, of)
    <2> HIDE DEF rows
    <2> QED
      BY <1>3, ReportedByKey
  <1>5. of = {pair[l] : l \in N}
    <2>1. ASSUME NEW x \in of PROVE x \in {pair[l] : l \in N}
      <3>1. PICK l \in used : x = <<l, b[l]>>
        BY <2>1 DEF Recognised, Lined
      <3>2. l \in N /\ x = pair[l]
        BY <1>1, <2>1, <3>1 DEF Recognised, Key, ParsedLines
      <3> QED
        BY <3>2
    <2>2. ASSUME NEW l \in N PROVE pair[l] \in of
      <3>1. l \in used /\ pair[l] = <<l, b[l]>>
        BY <1>1, <1>2, <2>2
      <3>2. /\ ParseUsageType(l.type) # None
            /\ TeamOf(l) = t /\ ParseUsageType(l.type).endpoint = a
        BY <2>2 DEF ParsedLines
      <3>3. pair[l] \in rows
        BY <3>1 DEF Lined
      <3> QED
        BY <3>1, <3>2, <3>3 DEF Recognised, Key
    <2> HIDE DEF of, pair, N
    <2> QED
      BY <2>1, <2>2
  <1>6. SumFunctionOnSet(f, {pair[l] : l \in N}) = SumFunctionOnSet(b, N)
    <2>1. \A l, k \in N : pair[l] = pair[k] => l = k
      BY <1>2
    <2>2. \A l \in N : f[pair[l]] = b[l] /\ b[l] \in Nat
      <3> SUFFICES ASSUME NEW l \in N PROVE f[pair[l]] = b[l] /\ b[l] \in Nat
        OBVIOUS
      <3>1. l \in used /\ pair[l] = <<l, b[l]>>
        BY <1>1, <1>2
      <3>2. pair[l] \in rows
        BY <3>1 DEF Lined
      <3> QED
        BY <1>1, <3>1, <3>2
    <2> HIDE DEF f, pair, N
    <2> QED
      BY <1>2, <2>1, <2>2, SumRenamed
  <1>7. SumFunctionOnSet(b, P) = SumFunctionOnSet(b, N)
    <2>1. \A l \in P : b[l] \in Nat
      BY <1>1, <1>2
    <2> HIDE DEF P
    <2> QED
      BY <1>2, <2>1, SumNonzero
  <1> QED
    BY <1>4, <1>5, <1>6, <1>7

(* Every usage type the bill holds is documented, or one the parser skips. *)
KnownLines == \A l \in Lines : Documented(l.type) \/ ParseUsageType(l.type) = None

(* The parser reads every documented type, and finds its endpoint.         *)
LEMMA DocumentedParsed ==
  ASSUME NEW l \in Lines, Documented(l.type)
  PROVE  ParseUsageType(l.type) # None /\ ParseUsageType(l.type).endpoint = l.type.api
  <1>1. /\ l.type.api \in Apis /\ l.type.token \in Tokens /\ l.type.suffix \in Suffixes
        /\ \A left \in {"", "mantle"}, a \in Apis : Parsed(l.type, left, a) # None
    BY CurTeamCostAssumption
  <1>2. /\ Parsed(l.type, "", "bedrock-mantle") # None
        /\ Parsed(l.type, "", "bedrock-runtime") # None
    BY <1>1 DEF Apis
  <1>3. /\ Parsed(l.type, "", "bedrock-mantle").endpoint = "bedrock-mantle"
        /\ Parsed(l.type, "", "bedrock-runtime").endpoint = "bedrock-runtime"
    BY DEF Parsed
  <1>4. CASE l.type.api = "bedrock-mantle"
    <2>1. l.type.token \in {"input", "output"} /\ l.type.suffix = "standard"
      BY <1>4 DEF Documented
    <2>2. ParseUsageType(l.type) = Parsed(l.type, "", "bedrock-mantle")
      BY <1>4, <2>1 DEF ParseUsageType
    <2> QED
      BY <1>2, <1>3, <1>4, <2>2
  <1>5. CASE l.type.api = "bedrock-runtime"
    <2>1. \/ l.type.token \in {"input", "output"} /\ l.type.suffix # "standard"
          \/ l.type.token \in {"cache-read", "cache-write"}
      BY <1>5 DEF Documented
    <2>2. Runtime(l.type) = Parsed(l.type, "", "bedrock-runtime")
      BY <1>5 DEF Runtime
    <2>3. ParseUsageType(l.type) = Runtime(l.type)
      BY <1>1, <1>5, <2>1 DEF ParseUsageType, Suffixes
    <2> QED
      BY <1>2, <1>3, <1>5, <2>2, <2>3
  <1> QED
    BY <1>1, <1>4, <1>5 DEF Apis

LEMMA DocumentedLines ==
  ASSUME KnownLines, NEW t, NEW a
  PROVE  {l \in Lines : TeamOf(l) = t /\ l.type.api = a /\ Documented(l.type)}
           = ParsedLines(t, a)
  <1>1. \A l \in Lines : Documented(l.type) =>
          ParseUsageType(l.type) # None /\ ParseUsageType(l.type).endpoint = l.type.api
    BY DocumentedParsed
  <1>2. \A l \in Lines : ~Documented(l.type) => ParseUsageType(l.type) = None
    BY DEF KnownLines
  <1> QED
    BY <1>1, <1>2 DEF ParsedLines

-----------------------------------------------------------------------------
(* Types, and the period of a file.                                        *)

PeriodOfDay == \A d \in Days : files[d].period = Period[d]

RunRow ==
  [pc : {"idle", "view", "query", "fetch"}, day : Days, header : BOOLEAN,
   left : SUBSET (Lines \X (1..MaxCost)), rows : SUBSET (Lines \X (1..MaxCost)),
   moved : BOOLEAN]

CostInv == TypeOK /\ PeriodOfDay

USE Constants

-----------------------------------------------------------------------------
LEMMA RowsOfTeams ==
  ASSUME NEW rows \in SUBSET (Lines \X (1..MaxCost))
  PROVE  \A x \in AggregatePerTeamCost(rows) : x.key[1] \in Teams \cup {Untagged}
  <1>1. \A r \in rows : r[1] \in Lines
    OBVIOUS
  <1>2. \A l \in Lines : Key(l)[1] \in Teams \cup {Untagged}
    BY DEF Key, TeamOf
  <1>3. ASSUME NEW x \in AggregatePerTeamCost(rows)
        PROVE  \E r \in rows : x.key = Key(r[1])
    <2>1. PICK k : k = x.key /\ \E r \in rows : k = Key(r[1])
      BY <1>3 DEF AggregatePerTeamCost, Recognised
    <2> QED
      BY <2>1
  <1> QED
    BY <1>1, <1>2, <1>3

LEMMA ResultTyped ==
  ASSUME TypeOK, NEW p \in Periods
  PROVE  Result(p) \in SUBSET (Lines \X (1..MaxCost))
  <1>1. \A l \in Lines : bill[p][l] \in 0..MaxCost
    BY DEF TypeOK
  <1> QED
    BY <1>1 DEF Result

LEMMA PageTyped ==
  ASSUME NEW r \in RunRow, NEW page \in SUBSET r.left, NEW rows \in DataRows(r, page)
  PROVE  rows \in SUBSET (Lines \X (1..MaxCost))
  BY DEF DataRows, RunRow

LEMMA FieldsTyped ==
  ASSUME NEW r \in RunRow, NEW d \in Days
  PROVE  /\ [r EXCEPT !.moved = TRUE] \in RunRow
         /\ [r EXCEPT !.pc = "view"] \in RunRow
         /\ [r EXCEPT !.pc = "query", !.day = d] \in RunRow
  <1>1. [r EXCEPT !.moved = TRUE] \in RunRow
    BY DEF RunRow
  <1>2. [r EXCEPT !.pc = "view"] \in RunRow
    BY DEF RunRow
  <1>3. [r EXCEPT !.pc = "query", !.day = d] \in RunRow
    BY DEF RunRow
  <1> QED
    BY <1>1, <1>2, <1>3

(* A step that gives one run a new row of its own.                         *)
LEMMA RunTyped ==
  ASSUME TypeOK, NEW s \in Slots, NEW r \in RunRow, run' = [run EXCEPT ![s] = r]
  PROVE  run' \in [Slots -> RunRow]
  BY DEF TypeOK, RunRow

(* A step that leaves the bill, the files and the clock alone.             *)
LEMMA OtherRun ==
  ASSUME CostInv, run' \in [Slots -> RunRow], view' \in BOOLEAN, events' \in 0..MaxEvents,
         UNCHANGED <<day, bill, files, stale>>
  PROVE  CostInv'
  BY DEF CostInv, TypeOK, RunRow, PeriodOfDay

LEMMA CostInit == Init => CostInv
  <1> SUFFICES ASSUME Init PROVE CostInv
    OBVIOUS
  <1>1. Idle \in RunRow
    BY DEF Idle, RunRow, Days
  <1>2. run \in [Slots -> RunRow]
    BY <1>1 DEF Init
  <1>3. /\ DOMAIN files = Days
        /\ \A d \in Days : files[d].rows = {} /\ files[d].period = Period[d]
    BY DEF Init
  <1>4. day \in Days /\ bill \in [Periods -> [Lines -> 0..MaxCost]]
    BY DEF Init, Days
  <1>5. view \in BOOLEAN /\ events \in 0..MaxEvents /\ stale \in [Days -> BOOLEAN]
    <2>1. view \in BOOLEAN
      BY Zenon DEF Init
    <2>2. events \in 0..MaxEvents
      BY DEF Init
    <2>3. stale \in [Days -> BOOLEAN]
      BY Zenon DEF Init
    <2> QED
      BY <2>1, <2>2, <2>3
  <1>6. \A d \in Days : Period[d] \in Periods
    OBVIOUS
  <1> QED
    BY <1>2, <1>3, <1>4, <1>5, <1>6 DEF CostInv, TypeOK, RunRow, PeriodOfDay

LEMMA CostStep == CostInv /\ [Next]_vars => CostInv'
  <1> SUFFICES ASSUME CostInv, [Next]_vars PROVE CostInv'
    OBVIOUS
  <1>1. /\ run \in [Slots -> RunRow] /\ view \in BOOLEAN /\ events \in 0..MaxEvents
        /\ TypeOK /\ day \in Days
    BY DEF CostInv, TypeOK, RunRow
  <1>2. CASE UNCHANGED vars
    BY <1>1, <1>2, OtherRun DEF vars
  <1>3. ASSUME NEW p \in Periods, NEW l \in Lines, NEW c \in 1..MaxCost, Rebill(p, l, c)
        PROVE  CostInv'
    <2>1. bill' \in [Periods -> [Lines -> 0..MaxCost]]
      <3>1. bill \in [Periods -> [Lines -> 0..MaxCost]] /\ c \in 0..MaxCost
        BY <1>1 DEF TypeOK
      <3>2. [bill[p] EXCEPT ![l] = c] \in [Lines -> 0..MaxCost]
        BY <3>1
      <3> QED
        BY <1>3, <3>1, <3>2 DEF Rebill
    <2>2. \A s \in Slots : [run[s] EXCEPT !.moved = TRUE] \in RunRow
      BY <1>1, FieldsTyped
    <2>3. run' \in [Slots -> RunRow]
      BY <1>1, <1>3, <2>2 DEF Rebill
    <2>4. /\ stale' \in [Days -> BOOLEAN] /\ events' \in 0..MaxEvents
          /\ UNCHANGED <<day, files, view>>
      BY <1>1, <1>3 DEF Rebill, Event, TypeOK
    <2> QED
      BY <2>1, <2>3, <2>4 DEF CostInv, TypeOK, RunRow, PeriodOfDay
  <1>4. CASE NextDay
    <2>1. day' \in Days
      BY <1>1, <1>4 DEF NextDay, Days
    <2> QED
      BY <1>4, <2>1 DEF NextDay, CostInv, TypeOK, PeriodOfDay
  <1>5. ASSUME NEW s \in Slots, Start(s) PROVE CostInv'
    <2>1. run' = [run EXCEPT ![s] = [run[s] EXCEPT !.pc = "view"]]
      BY <1>1, <1>5 DEF Start
    <2>2. [run[s] EXCEPT !.pc = "view"] \in RunRow
      BY <1>1, FieldsTyped
    <2> QED
      BY <1>1, <1>5, <2>1, <2>2, RunTyped, OtherRun DEF Start
  <1>6. ASSUME NEW s \in Slots, EnsureView(s) PROVE CostInv'
    <2>1. run' = [run EXCEPT ![s] = [run[s] EXCEPT !.pc = "query", !.day = day]]
      BY <1>1, <1>6 DEF EnsureView, RunRow
    <2>2. [run[s] EXCEPT !.pc = "query", !.day = day] \in RunRow
      BY <1>1, FieldsTyped
    <2> QED
      BY <1>1, <1>6, <2>1, <2>2, RunTyped, OtherRun DEF EnsureView
  <1>7. ASSUME NEW s \in Slots, Succeed(s) PROVE CostInv'
    <2>1. PICK x : x = Result(Period[run[s].day])
      OBVIOUS
    <2>2. run[s] \in RunRow /\ Period[run[s].day] \in Periods
      BY <1>1 DEF RunRow
    <2>3. x \in SUBSET (Lines \X (1..MaxCost))
      BY <1>1, <2>1, <2>2, ResultTyped
    <2>4. run' = [run EXCEPT ![s] = [run[s] EXCEPT !.pc = "fetch", !.header = TRUE, !.left = x]]
      BY <1>1, <1>7, <2>1 DEF Succeed, RunRow
    <2>5. [run[s] EXCEPT !.pc = "fetch", !.header = TRUE, !.left = x] \in RunRow
      BY <2>2, <2>3 DEF RunRow
    <2> QED
      BY <1>1, <1>7, <2>4, <2>5, RunTyped, OtherRun DEF Succeed
  <1>8. ASSUME NEW s \in Slots, NEW page \in SUBSET run[s].left, FetchPage(s, page)
        PROVE  CostInv'
    <2>1. PICK rows \in DataRows(run[s], page) :
            run' = [run EXCEPT ![s].header = FALSE, ![s].left = @ \ page,
                               ![s].rows = @ \cup rows]
      BY <1>8 DEF FetchPage
    <2>2. run[s] \in RunRow /\ rows \in SUBSET (Lines \X (1..MaxCost))
      BY <1>1, PageTyped
    <2>3. PICK left, all : left = run[s].left \ page /\ all = run[s].rows \cup rows
      OBVIOUS
    <2>4. run' = [run EXCEPT ![s] = [run[s] EXCEPT !.header = FALSE, !.left = left, !.rows = all]]
      BY <1>1, <2>1, <2>3 DEF RunRow
    <2>5. left \in SUBSET (Lines \X (1..MaxCost)) /\ all \in SUBSET (Lines \X (1..MaxCost))
      BY <2>2, <2>3 DEF RunRow
    <2>6. [run[s] EXCEPT !.header = FALSE, !.left = left, !.rows = all] \in RunRow
      BY <2>2, <2>5 DEF RunRow
    <2> QED
      BY <1>1, <1>8, <2>4, <2>6, RunTyped, OtherRun DEF FetchPage
  <1>9. ASSUME NEW s \in Slots, Put(s) PROVE CostInv'
    <2>1. Idle \in RunRow
      BY DEF Idle, RunRow, Days
    <2>2. run' \in [Slots -> RunRow] /\ UNCHANGED <<day, bill, view, events>>
      BY <1>1, <1>9, <2>1, RunTyped DEF Put
    <2>3. CASE UNCHANGED <<files, stale>>
      BY <1>1, <2>2, <2>3, OtherRun
    <2>4. CASE ~ UNCHANGED <<files, stale>>
      <3>1. PICK rows, d, p, m :
              /\ rows = AggregatePerTeamCost(run[s].rows)
              /\ d = run[s].day /\ p = Period[d] /\ m = run[s].moved
              /\ files' = [files EXCEPT ![d] = [rows |-> rows, period |-> p]]
              /\ stale' = [stale EXCEPT ![d] = m]
        BY <1>9, <2>4 DEF Put, Target
      <3>2. d \in Days /\ p \in Periods /\ m \in BOOLEAN
        BY <1>1, <3>1 DEF RunRow
      <3>3. \A x \in rows : x.key[1] \in Teams \cup {Untagged}
        BY <1>1, <3>1, RowsOfTeams DEF RunRow
      <3>4. /\ DOMAIN files' = Days /\ files'[d] = [rows |-> rows, period |-> p]
            /\ \A e \in Days : e # d => files'[e] = files[e]
        BY <1>1, <3>1, <3>2 DEF TypeOK
      <3>5. stale' \in [Days -> BOOLEAN]
        BY <1>1, <3>1, <3>2 DEF TypeOK
      <3>6. \A e \in Days : /\ files'[e].period \in Periods
                            /\ \A x \in files'[e].rows : x.key[1] \in Teams \cup {Untagged}
        <4>1. files'[d].period \in Periods /\ files'[d].rows = rows
          BY <3>2, <3>4
        <4>2. \A e \in Days : /\ files[e].period \in Periods
                              /\ \A x \in files[e].rows : x.key[1] \in Teams \cup {Untagged}
          BY <1>1 DEF TypeOK
        <4> QED
          BY <3>3, <3>4, <4>1, <4>2
      <3>7. PeriodOfDay'
        BY <3>1, <3>4 DEF CostInv, PeriodOfDay
      <3>8. TypeOK'
        BY <1>1, <2>2, <3>4, <3>5, <3>6 DEF TypeOK, RunRow
      <3> QED
        BY <3>7, <3>8 DEF CostInv
    <2> QED
      BY <2>3, <2>4
  <1>10. ASSUME NEW s \in Slots, Fail(s) PROVE CostInv'
    <2>1. Idle \in RunRow
      BY DEF Idle, RunRow, Days
    <2>2. run' \in [Slots -> RunRow]
      BY <1>1, <1>10, <2>1, RunTyped DEF Fail
    <2>3. view' \in BOOLEAN /\ events' \in 0..MaxEvents
      <3>1. view' \in BOOLEAN
        BY <1>1, <1>10, Zenon DEF Fail
      <3>2. events' \in 0..MaxEvents
        BY <1>1, <1>10 DEF Fail, Event
      <3> QED
        BY <3>1, <3>2
    <2> QED
      BY <1>10, <2>2, <2>3, OtherRun DEF Fail
  <1> QED
    BY <1>2, <1>3, <1>4, <1>5, <1>6, <1>7, <1>8, <1>9, <1>10 DEF Next, Step

-----------------------------------------------------------------------------
(* What a run has read, and what a file holds of the bill.                 *)

(* A run keeps nothing outside the fetching of a result, keeps no row      *)
(* before the header is dropped and at least one after it, as long as      *)
(* there are any, and loses none, unless the bill has changed since.       *)
AsRead(r, b) ==
  /\ r.pc # "fetch" => r.rows = {} /\ r.left = {} /\ ~r.header /\ ~r.moved
  /\ r.pc = "fetch" /\ r.header => r.rows = {}
  /\ r.pc = "fetch" /\ ~r.header /\ r.rows = {} => r.left = {}
  /\ r.pc = "fetch" /\ ~r.moved => r.rows \cup r.left = Lined(b[Period[r.day]])

RunsRead == \A s \in Slots : AsRead(run[s], bill)

FilesRead ==
  \A d \in Days : files[d].rows # {} /\ ~stale[d] =>
    files[d].rows = AggregatePerTeamCost(Lined(bill[files[d].period]))

ReadInv == CostInv /\ RunsRead /\ FilesRead

LEMMA IdleRead == \A b : AsRead(Idle, b)
  BY DEF AsRead, Idle

LEMMA AskedRead ==
  ASSUME NEW r \in RunRow, NEW b, AsRead(r, b), NEW d \in Days
  PROVE  /\ r.pc = "idle" => AsRead([r EXCEPT !.pc = "view"], b)
         /\ r.pc = "view" => AsRead([r EXCEPT !.pc = "query", !.day = d], b)
  <1>1. ASSUME r.pc = "idle" PROVE AsRead([r EXCEPT !.pc = "view"], b)
    BY <1>1 DEF AsRead, RunRow
  <1>2. ASSUME r.pc = "view" PROVE AsRead([r EXCEPT !.pc = "query", !.day = d], b)
    BY <1>2 DEF AsRead, RunRow
  <1> QED
    BY <1>1, <1>2

LEMMA AnsweredRead ==
  ASSUME NEW r \in RunRow, NEW b, AsRead(r, b), r.pc = "query",
         NEW x, x = Lined(b[Period[r.day]])
  PROVE  AsRead([r EXCEPT !.pc = "fetch", !.header = TRUE, !.left = x], b)
  <1> DEFINE q == [r EXCEPT !.pc = "fetch", !.header = TRUE, !.left = x]
  <1>1. q.pc = "fetch" /\ q.header /\ q.left = x /\ q.rows = r.rows /\ q.day = r.day
    BY DEF RunRow
  <1>2. r.rows = {}
    BY DEF AsRead
  <1> HIDE DEF q
  <1>3. q.rows \cup q.left = x
    BY <1>1, <1>2
  <1>4. AsRead(q, b)
    BY <1>1, <1>2, <1>3 DEF AsRead
  <1> QED
    BY <1>4 DEF q

LEMMA PageRead ==
  ASSUME NEW r \in RunRow, NEW b, AsRead(r, b), r.pc = "fetch",
         NEW page \in SUBSET r.left, page # {} \/ (r.header /\ r.left = {}),
         NEW rows \in DataRows(r, page),
         NEW left, left = r.left \ page, NEW all, all = r.rows \cup rows
  PROVE  AsRead([r EXCEPT !.header = FALSE, !.left = left, !.rows = all], b)
  <1> DEFINE q == [r EXCEPT !.header = FALSE, !.left = left, !.rows = all]
  <1>1. /\ q.pc = "fetch" /\ ~q.header /\ q.left = left /\ q.rows = all
        /\ q.day = r.day /\ q.moved = r.moved
    BY DEF RunRow
  <1>2. rows = page
    <2>1. r.rows # {} \/ r.header
      BY DEF AsRead
    <2> QED
      BY <2>1 DEF DataRows
  <1>3. all = {} => left = {}
    BY <1>2
  <1>4. all \cup left = r.rows \cup r.left
    BY <1>2
  <1> HIDE DEF q
  <1>5. q.rows \cup q.left = r.rows \cup r.left
    BY <1>1, <1>4
  <1>6. AsRead(q, b)
    BY <1>1, <1>3, <1>5 DEF AsRead
  <1> QED
    BY <1>6 DEF q

(* A step that gives one run a new row of its own and leaves the bill and  *)
(* the files alone.                                                        *)
LEMMA OtherRead ==
  ASSUME CostInv, RunsRead, FilesRead, UNCHANGED <<bill, files, stale>>,
         NEW s \in Slots, NEW r, AsRead(r, bill), run' = [run EXCEPT ![s] = r]
  PROVE  RunsRead' /\ FilesRead'
  <1>1. RunsRead'
    BY DEF RunsRead, CostInv, TypeOK
  <1>2. FilesRead'
    BY DEF FilesRead
  <1> QED
    BY <1>1, <1>2

LEMMA RebillRead ==
  ASSUME CostInv, RunsRead, FilesRead,
         NEW p \in Periods, NEW l \in Lines, NEW c \in 1..MaxCost, Rebill(p, l, c)
  PROVE  RunsRead' /\ FilesRead'
  <1>1. \A q \in Periods : q # p => bill'[q] = bill[q]
    BY DEF Rebill, CostInv, TypeOK
  <1>2. \A s \in Slots : run[s] \in RunRow
    BY DEF CostInv, TypeOK, RunRow
  <1>3. ASSUME NEW s \in Slots
        PROVE  AsRead(run'[s], bill')
    <2>1. PICK r : r = run[s] /\ r \in RunRow /\ AsRead(r, bill) /\ Period[r.day] \in Periods
      BY <1>2 DEF RunsRead, RunRow
    <2>2. CASE r.pc = "fetch" /\ Period[r.day] = p
      <3> DEFINE q == [r EXCEPT !.moved = TRUE]
      <3>1. run'[s] = q
        BY <2>1, <2>2 DEF Rebill
      <3>2. /\ q.pc = r.pc /\ q.header = r.header /\ q.left = r.left /\ q.rows = r.rows
            /\ q.moved
        BY <2>1 DEF RunRow
      <3> HIDE DEF q
      <3> QED
        BY <2>1, <2>2, <3>1, <3>2 DEF AsRead
    <2>3. CASE ~ (r.pc = "fetch" /\ Period[r.day] = p)
      <3>1. run'[s] = r
        BY <2>1, <2>3 DEF Rebill
      <3> QED
        BY <1>1, <2>1, <2>3, <3>1 DEF AsRead
    <2> QED
      BY <2>2, <2>3
  <1>4. ASSUME NEW d \in Days, files'[d].rows # {}, ~stale'[d]
        PROVE  files'[d].rows = AggregatePerTeamCost(Lined(bill'[files'[d].period]))
    <2>1. files' = files /\ ~stale[d] /\ files[d].period # p /\ files[d].period \in Periods
      BY <1>4 DEF Rebill, CostInv, TypeOK
    <2>2. bill'[files'[d].period] = bill[files[d].period]
      BY <1>1, <2>1
    <2> QED
      BY <1>4, <2>1, <2>2 DEF FilesRead
  <1> QED
    BY <1>3, <1>4 DEF RunsRead, FilesRead

LEMMA PutRead ==
  ASSUME CostInv, RunsRead, FilesRead, NEW s \in Slots, Put(s)
  PROVE  RunsRead' /\ FilesRead'
  <1>1. run[s] \in RunRow /\ AsRead(run[s], bill) /\ run' = [run EXCEPT ![s] = Idle]
    BY DEF CostInv, TypeOK, RunRow, RunsRead, Put
  <1>2. AsRead(Idle, bill)
    BY IdleRead
  <1>3. CASE UNCHANGED <<files, stale>>
    BY <1>1, <1>2, <1>3, OtherRead DEF Put
  <1>4. CASE ~ UNCHANGED <<files, stale>>
    <2>1. PICK rows, d, p, m :
            /\ rows = AggregatePerTeamCost(run[s].rows)
            /\ d = run[s].day /\ p = Period[d] /\ m = run[s].moved
            /\ files' = [files EXCEPT ![d] = [rows |-> rows, period |-> p]]
            /\ stale' = [stale EXCEPT ![d] = m]
      BY <1>4 DEF Put, Target
    <2>2. d \in Days /\ bill' = bill
      BY <1>1, <2>1 DEF RunRow, Put
    <2>3. ~m => run[s].rows = Lined(bill[p])
      <3>1. run[s].pc = "fetch" /\ ~run[s].header /\ run[s].left = {}
        BY DEF Put, Fetched
      <3>2. ~m => run[s].rows \cup run[s].left = Lined(bill[p])
        BY <1>1, <2>1, <3>1 DEF AsRead
      <3> QED
        BY <3>1, <3>2
    <2>4. /\ files'[d] = [rows |-> rows, period |-> p] /\ stale'[d] = m
          /\ \A e \in Days : e # d => files'[e] = files[e] /\ stale'[e] = stale[e]
      BY <2>1, <2>2 DEF CostInv, TypeOK
    <2>5. files'[d].rows = rows /\ files'[d].period = p
      BY <2>4
    <2>6. ASSUME NEW e \in Days, files'[e].rows # {}, ~stale'[e]
          PROVE  files'[e].rows = AggregatePerTeamCost(Lined(bill[files'[e].period]))
      <3>1. CASE e = d
        BY <2>1, <2>3, <2>4, <2>5, <2>6, <3>1
      <3>2. CASE e # d
        BY <2>4, <2>6, <3>2 DEF FilesRead
      <3> QED
        BY <3>1, <3>2
    <2>7. FilesRead'
      BY <2>2, <2>6 DEF FilesRead
    <2>8. RunsRead'
      BY <1>1, <1>2, <2>2 DEF RunsRead, CostInv, TypeOK
    <2> QED
      BY <2>7, <2>8
  <1> QED
    BY <1>3, <1>4

LEMMA ReadInit == Init => ReadInv
  <1> SUFFICES ASSUME Init PROVE ReadInv
    OBVIOUS
  <1>1. RunsRead
    BY IdleRead DEF Init, RunsRead
  <1>2. FilesRead
    BY DEF Init, FilesRead
  <1> QED
    BY <1>1, <1>2, CostInit DEF ReadInv

LEMMA ReadStep == ReadInv /\ [Next]_vars => ReadInv'
  <1> SUFFICES ASSUME ReadInv, [Next]_vars PROVE RunsRead' /\ FilesRead'
    BY CostStep DEF ReadInv
  <1>1. /\ CostInv /\ RunsRead /\ FilesRead /\ day \in Days
        /\ \A s \in Slots : run[s] \in RunRow /\ AsRead(run[s], bill)
        /\ DOMAIN run = Slots
    BY DEF ReadInv, CostInv, TypeOK, RunRow, RunsRead
  <1>2. CASE UNCHANGED <<bill, files, stale, run>>
    BY <1>1, <1>2 DEF RunsRead, FilesRead
  <1>3. ASSUME NEW p \in Periods, NEW l \in Lines, NEW c \in 1..MaxCost, Rebill(p, l, c)
        PROVE  RunsRead' /\ FilesRead'
    BY <1>1, <1>3, RebillRead
  <1>4. ASSUME NEW s \in Slots, Start(s) PROVE RunsRead' /\ FilesRead'
    <2>1. PICK r : r = [run[s] EXCEPT !.pc = "view"]
      OBVIOUS
    <2>2. run' = [run EXCEPT ![s] = r] /\ UNCHANGED <<bill, files, stale>>
      BY <1>4, <2>1 DEF Start
    <2>3. AsRead(r, bill)
      BY <1>1, <1>4, <2>1, AskedRead DEF Start
    <2> QED
      BY <1>1, <2>2, <2>3, OtherRead
  <1>5. ASSUME NEW s \in Slots, EnsureView(s) PROVE RunsRead' /\ FilesRead'
    <2>1. PICK r : r = [run[s] EXCEPT !.pc = "query", !.day = day]
      OBVIOUS
    <2>2. run' = [run EXCEPT ![s] = r] /\ UNCHANGED <<bill, files, stale>>
      BY <1>1, <1>5, <2>1 DEF EnsureView, RunRow
    <2>3. AsRead(r, bill)
      BY <1>1, <1>5, <2>1, AskedRead DEF EnsureView
    <2> QED
      BY <1>1, <2>2, <2>3, OtherRead
  <1>6. ASSUME NEW s \in Slots, Succeed(s) PROVE RunsRead' /\ FilesRead'
    <2>1. PICK x : x = Lined(bill[Period[run[s].day]]) /\ x = Result(Period[run[s].day])
      BY DEF Lined, Result
    <2>2. PICK r : r = [run[s] EXCEPT !.pc = "fetch", !.header = TRUE, !.left = x]
      OBVIOUS
    <2>3. run' = [run EXCEPT ![s] = r] /\ UNCHANGED <<bill, files, stale>>
      BY <1>1, <1>6, <2>1, <2>2 DEF Succeed, RunRow
    <2>4. AsRead(r, bill)
      BY <1>1, <1>6, <2>1, <2>2, AnsweredRead DEF Succeed
    <2> QED
      BY <1>1, <2>3, <2>4, OtherRead
  <1>7. ASSUME NEW s \in Slots, NEW page \in SUBSET run[s].left, FetchPage(s, page)
        PROVE  RunsRead' /\ FilesRead'
    <2>1. PICK rows \in DataRows(run[s], page) :
            run' = [run EXCEPT ![s].header = FALSE, ![s].left = @ \ page,
                               ![s].rows = @ \cup rows]
      BY <1>7 DEF FetchPage
    <2>2. PICK left, all : left = run[s].left \ page /\ all = run[s].rows \cup rows
      OBVIOUS
    <2>3. PICK r : r = [run[s] EXCEPT !.header = FALSE, !.left = left, !.rows = all]
      OBVIOUS
    <2>4. run' = [run EXCEPT ![s] = r] /\ UNCHANGED <<bill, files, stale>>
      BY <1>1, <1>7, <2>1, <2>2, <2>3 DEF FetchPage, RunRow
    <2>5. AsRead(r, bill)
      BY <1>1, <1>7, <2>1, <2>2, <2>3, PageRead DEF FetchPage
    <2> QED
      BY <1>1, <2>4, <2>5, OtherRead
  <1>8. ASSUME NEW s \in Slots, Put(s) PROVE RunsRead' /\ FilesRead'
    BY <1>1, <1>8, PutRead
  <1>9. ASSUME NEW s \in Slots, Fail(s) PROVE RunsRead' /\ FilesRead'
    BY <1>1, <1>9, IdleRead, OtherRead DEF Fail
  <1> QED
    BY <1>2, <1>3, <1>4, <1>5, <1>6, <1>7, <1>8, <1>9 DEF Next, Step, NextDay, vars

LEMMA ReadAddsUp ==
  ASSUME ReadInv, NEW d \in Days, files[d].rows # {}, ~stale[d], NEW t, NEW a
  PROVE  Reported(files[d].rows, t, a)
           = SumFunctionOnSet(bill[files[d].period], ParsedLines(t, a))
  <1>1. PICK b \in [Lines -> 0..MaxCost] : b = bill[files[d].period]
    BY DEF ReadInv, CostInv, TypeOK
  <1>2. files[d].rows = AggregatePerTeamCost(Lined(b))
    BY <1>1 DEF ReadInv, FilesRead
  <1>3. Reported(AggregatePerTeamCost(Lined(b)), t, a) = SumFunctionOnSet(b, ParsedLines(t, a))
    BY ReportAddsUp
  <1> QED
    BY <1>1, <1>2, <1>3, Zenon

-----------------------------------------------------------------------------
LEMMA AggregateWritten ==
  ASSUME CostInv, [Next]_vars, NEW d \in Days, files[d].rows # {}
  PROVE  files'[d].rows # {}
  <1>1. CASE UNCHANGED files
    BY <1>1
  <1>2. ASSUME NEW s \in Slots, Put(s), ~ UNCHANGED files PROVE files'[d].rows # {}
    <2>1. PICK rows, k, p : /\ rows # {}
                            /\ files' = [files EXCEPT ![k] = [rows |-> rows, period |-> p]]
      BY <1>2 DEF Put
    <2> QED
      BY <2>1 DEF CostInv, TypeOK
  <1> QED
    BY <1>1, <1>2
       DEF Next, Step, Rebill, NextDay, Start, EnsureView, Succeed, FetchPage, Fail, vars

LEMMA ClockForward ==
  ASSUME CostInv, [Next]_vars
  PROVE  day \in Nat /\ day' \in Nat /\ day =< day'
  <1>1. day \in Nat
    BY DEF CostInv, TypeOK, Days
  <1>2. day' = day \/ day' = day + 1
    BY DEF Next, Step, Rebill, NextDay, Start, EnsureView, Succeed, FetchPage, Put, Fail, vars
  <1> QED
    BY <1>1, <1>2

LEMMA LatestForward ==
  ASSUME CostInv, CostInv', [Next]_vars, NEW d \in Latest, NEW e \in Latest'
  PROVE  files[d].period =< files'[e].period
  <1>1. d \in Days /\ e \in Days /\ files[d].rows # {} /\ e \in Recent'
    BY DEF Latest, Recent
  <1>2. day' \in Nat /\ e + Window >= day' /\ d \in Nat /\ e \in Nat
    BY <1>1, ClockForward DEF Recent, Days
  <1>3. CASE d + Window >= day'
    <2>1. d \in Recent'
      BY <1>1, <1>3, AggregateWritten DEF Recent
    <2>2. d =< e
      BY <2>1 DEF Latest
    <2> QED
      BY <1>1, <2>2 DEF CostInv, PeriodOfDay
  <1>4. CASE ~ (d + Window >= day')
    <2>1. d =< e
      BY <1>2, <1>4
    <2> QED
      BY <1>1, <2>1 DEF CostInv, PeriodOfDay
  <1> QED
    BY <1>3, <1>4

-----------------------------------------------------------------------------
(* The state of the report keeps its shape: the rows of every file belong  *)
(* to a team or to UNTAGGED, and its period to a day of the calendar.      *)
THEOREM CostTypes == Spec => []TypeOK
  <1>1. CostInv => TypeOK
    BY DEF CostInv
  <1> QED
    BY <1>1, CostInit, CostStep, PTL DEF Spec

(* The dashboard never goes back to an earlier billing period              *)
(* (stack.ts:1721-1727, curTeamCostEntry.ts:112-129): for any calendar,    *)
(* window, number of overlapping runs and failures.                        *)
THEOREM DashboardForward == Spec => PeriodForward
  <1>1. CostInv /\ CostInv' /\ [Next]_vars =>
          [\A d \in Latest, e \in Latest' : files[d].period =< files'[e].period]_vars
    BY LatestForward
  <1> QED
    BY <1>1, CostInit, CostStep, PTL DEF Spec, PeriodForward
(* A file that is not stale holds, for every team and endpoint, the        *)
(* dollars of all the lines of its period that the parser puts there, once *)
(* each (athenaClient.ts:86-117, curTeamCostEntry.ts:33-90): however       *)
(* Athena cuts the result into pages, and whichever lines are skipped.     *)
THEOREM ParsedCostsAddUp ==
  Spec => [](\A d \in Days : files[d].rows # {} /\ ~stale[d] =>
               \A t \in Teams \cup {Untagged}, a \in Apis :
                 Reported(files[d].rows, t, a)
                   = SumFunctionOnSet(bill[files[d].period], ParsedLines(t, a)))
  <1> DEFINE AddsUp == \A d \in Days : files[d].rows # {} /\ ~stale[d] =>
               \A t \in Teams \cup {Untagged}, a \in Apis :
                 Reported(files[d].rows, t, a)
                   = SumFunctionOnSet(bill[files[d].period], ParsedLines(t, a))
  <1>1. ReadInv => AddsUp
    BY ReadAddsUp
  <1> HIDE DEF AddsUp
  <1>2. Spec => []AddsUp
    BY <1>1, ReadInit, ReadStep, PTL DEF Spec
  <1> QED
    BY <1>2 DEF AddsUp

(* A file that is not stale holds what every team was billed for every     *)
(* endpoint, for a bill of usage types that the parser documents           *)
(* (curUsageTypeParser.ts:5-11) or skips.                                  *)
THEOREM CostsAddUp ==
  ASSUME KnownLines
  PROVE  Spec => []CostAddsUp
  <1>1. ReadInv => CostAddsUp
    <2> SUFFICES ASSUME ReadInv, NEW d \in Days, files[d].rows # {}, ~stale[d],
                        NEW t \in Teams \cup {Untagged}, NEW a \in Apis
                 PROVE  Reported(files[d].rows, t, a) = Billed(files[d].period, t, a)
      BY DEF CostAddsUp, Agrees
    <2>1. Reported(files[d].rows, t, a)
            = SumFunctionOnSet(bill[files[d].period], ParsedLines(t, a))
      BY ReadAddsUp
    <2>2. {l \in Lines : TeamOf(l) = t /\ l.type.api = a /\ Documented(l.type)}
            = ParsedLines(t, a)
      BY DocumentedLines
    <2> QED
      BY <2>1, <2>2, Zenon DEF Billed
  <1> QED
    BY <1>1, ReadInit, ReadStep, PTL DEF Spec
=============================================================================
