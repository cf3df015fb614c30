---------------------------- MODULE SumTheorems -----------------------------
(***************************************************************************)
(* Finite sums and largest elements.  The library's induction theorems take*)
(* an operator as a parameter; here induction on a finite set is the choice*)
(* of a minimal member of the family of its subsets for which a claim      *)
(* fails.                                                                  *)
(***************************************************************************)
EXTENDS FiniteSetsExt, FiniteSetTheorems, TLAPS

(* A non-empty family of subsets of a finite set has a minimal member.      *)
LEMMA MinimalSubset ==
  ASSUME NEW S, IsFiniteSet(S), NEW F \in SUBSET SUBSET S, F # {}
  PROVE  \E T \in F : \A U \in F : U \subseteq T => U = T
<1>1. IsWellFoundedOn(StrictSubsetOrdering(S), SUBSET S)
  BY FS_StrictSubsetOrderingWellFounded, FS_FiniteSubsetsOfFinite
<1>2. PICK T \in F : \A U \in F : ~(<< U, T >> \in StrictSubsetOrdering(S))
  BY <1>1, WFMin
<1> QED  BY <1>2 DEF StrictSubsetOrdering

(* A non-empty finite set of integers has a largest element.                *)
LEMMA LargestInSubset ==
  ASSUME NEW S, IsFiniteSet(S)
  PROVE  \A T \in SUBSET S : T # {} /\ T \subseteq Int => \E x \in T : \A y \in T : y <= x
<1> DEFINE Bad(T) == T # {} /\ T \subseteq Int /\ ~ \E x \in T : \A y \in T : y <= x
           F == {T \in SUBSET S : Bad(T)}
<1> SUFFICES ASSUME F # {} PROVE FALSE
  OBVIOUS
<1>1. PICK T \in F : \A U \in F : U \subseteq T => U = T
  <2> HIDE DEF F
  <2>1. F \in SUBSET SUBSET S
    BY DEF F
  <2> QED  BY <2>1, MinimalSubset
<1>2. PICK a \in T : a \in Int
  OBVIOUS
<1>3. T \ {a} \notin F
  BY <1>1
<1>4. CASE T \ {a} = {}
  BY <1>2, <1>4
<1>5. CASE T \ {a} # {}
  <2>1. PICK b \in T \ {a} : \A y \in T \ {a} : y <= b
    BY <1>3, <1>5
  <2>2. a \in Int /\ b \in Int /\ \A y \in T : y \in Int
    OBVIOUS
  <2>3. CASE a <= b
    BY <2>1, <2>2, <2>3
  <2>4. CASE b <= a
    <3>1. \A y \in T : y <= a
      BY <2>1, <2>2, <2>4
    <3> QED  BY <3>1, <1>2
  <2> QED  BY <2>2, <2>3, <2>4
<1> QED  BY <1>4, <1>5

LEMMA LargestElement ==
  ASSUME NEW S, S \subseteq Int, IsFiniteSet(S), S # {}
  PROVE  \E x \in S : \A y \in S : y <= x
BY LargestInSubset

-----------------------------------------------------------------------------
(* The element the recursive sum of the library takes out of a set.         *)
Taken(s) == CHOOSE x \in s : TRUE

(* The equation that defines the sums of f over the subsets of S.           *)
Sums(g, f, S) ==
  g = [s \in SUBSET S |-> IF s = {} THEN 0 ELSE f[Taken(s)] + g[s \ {Taken(s)}]]

LEMMA SumIs ==
  ASSUME NEW f, NEW S
  PROVE  SumFunctionOnSet(f, S) = (CHOOSE g : Sums(g, f, S))[S]
BY DEF SumFunctionOnSet, FoldFunctionOnSet, MapThenFoldSet, Sums, Taken

LEMMA TakenIn == \A s : s # {} => Taken(s) \in s
BY DEF Taken

(* Two solutions of the equation, even over different sets, agree on the    *)
(* subsets of both.                                                         *)
LEMMA SumsAgree ==
  ASSUME NEW f, NEW S, NEW T, IsFiniteSet(T), T \subseteq S,
         NEW g, Sums(g, f, S), NEW h, Sums(h, f, T)
  PROVE  \A s \in SUBSET T : g[s] = h[s]
<1> DEFINE F == {s \in SUBSET T : g[s] # h[s]}
<1> SUFFICES ASSUME F # {} PROVE FALSE
  OBVIOUS
<1>1. PICK s \in F : \A u \in F : u \subseteq s => u = s
  <2> HIDE DEF F
  <2>1. F \in SUBSET SUBSET T
    BY DEF F
  <2> QED  BY <2>1, MinimalSubset
<1>2. /\ g[s] = IF s = {} THEN 0 ELSE f[Taken(s)] + g[s \ {Taken(s)}]
      /\ h[s] = IF s = {} THEN 0 ELSE f[Taken(s)] + h[s \ {Taken(s)}]
  BY DEF Sums
<1>3. s # {}
  BY <1>2
<1>4. s \ {Taken(s)} \in SUBSET T /\ s \ {Taken(s)} # s
  BY <1>3, TakenIn
<1>5. g[s \ {Taken(s)}] = h[s \ {Taken(s)}]
  BY <1>1, <1>4
<1> QED  BY <1>2, <1>3, <1>5

(* The equation has a solution.                                             *)
LEMMA SumsExist ==
  ASSUME NEW f, NEW S, IsFiniteSet(S)
  PROVE  \A T \in SUBSET S : \E g : Sums(g, f, T)
<1> DEFINE F == {T \in SUBSET S : ~ \E g : Sums(g, f, T)}
<1> SUFFICES ASSUME F # {} PROVE FALSE
  OBVIOUS
<1>1. PICK T \in F : \A U \in F : U \subseteq T => U = T
  <2> HIDE DEF F
  <2>1. F \in SUBSET SUBSET S
    BY DEF F
  <2> QED  BY <2>1, MinimalSubset
<1> DEFINE G(u) == CHOOSE g : Sums(g, f, u)
           g == [s \in SUBSET T |->
                   IF s = {} THEN 0 ELSE f[Taken(s)] + G(s \ {Taken(s)})[s \ {Taken(s)}]]
<1>2. ASSUME NEW u \in SUBSET T, u # T PROVE Sums(G(u), f, u)
  BY <1>1, <1>2
<1>3. ASSUME NEW u \in SUBSET T, u # T PROVE g[u] = G(u)[u]
  <2>1. G(u)[u] = IF u = {} THEN 0 ELSE f[Taken(u)] + G(u)[u \ {Taken(u)}]
    <3> HIDE DEF G
    <3> QED  BY <1>2, <1>3 DEF Sums
  <2>2. CASE u = {}
    BY <2>1, <2>2
  <2>3. CASE u # {}
    <3> DEFINE v == u \ {Taken(u)}
    <3>1. v \in SUBSET u /\ v # T /\ IsFiniteSet(v)
      BY <2>3, TakenIn, FS_Subset, FS_RemoveElement
    <3>2. Sums(G(v), f, v) /\ Sums(G(u), f, u)
      BY <1>2, <1>3, <3>1
    <3>3. G(u)[v] = G(v)[v]
      <4> HIDE DEF G, v
      <4> QED  BY <3>1, <3>2, SumsAgree
    <3> HIDE DEF G
    <3> QED  BY <2>1, <2>3, <3>3
  <2> QED  BY <2>2, <2>3
<1>4. ASSUME NEW s \in SUBSET T, s # {}
      PROVE  g[s \ {Taken(s)}] = G(s \ {Taken(s)})[s \ {Taken(s)}]
  BY <1>3, <1>4, TakenIn
<1>5. Sums(g, f, T)
  <2> HIDE DEF G
  <2> QED  BY <1>4 DEF Sums
<1> QED  BY <1>5

(* A sum over a set, by the element the definition takes out.               *)
LEMMA SumUnfold ==
  ASSUME NEW f, NEW S, IsFiniteSet(S)
  PROVE  SumFunctionOnSet(f, S) =
           IF S = {} THEN 0 ELSE f[Taken(S)] + SumFunctionOnSet(f, S \ {Taken(S)})
<1> DEFINE G(u) == CHOOSE g : Sums(g, f, u)
<1>1. ASSUME NEW u \in SUBSET S PROVE Sums(G(u), f, u) /\ SumFunctionOnSet(f, u) = G(u)[u]
  BY SumsExist, SumIs
<1> HIDE DEF G
<1>2. G(S)[S] = IF S = {} THEN 0 ELSE f[Taken(S)] + G(S)[S \ {Taken(S)}]
  BY <1>1 DEF Sums
<1>3. G(S)[S \ {Taken(S)}] = G(S \ {Taken(S)})[S \ {Taken(S)}]
  BY <1>1, SumsAgree, FS_RemoveElement
<1> QED  BY <1>1, <1>2, <1>3

-----------------------------------------------------------------------------
(* The sums of integers.                                                    *)
LEMMA SumType ==
  ASSUME NEW f, NEW S, IsFiniteSet(S), \A x \in S : f[x] \in Int
  PROVE  SumFunctionOnSet(f, S) \in Int
<1> DEFINE F == {T \in SUBSET S : SumFunctionOnSet(f, T) \notin Int}
<1> SUFFICES ASSUME F # {} PROVE FALSE
  BY FS_Subset
<1>1. PICK T \in F : \A U \in F : U \subseteq T => U = T
  <2> HIDE DEF F
  <2>1. F \in SUBSET SUBSET S
    BY DEF F
  <2> QED  BY <2>1, MinimalSubset
<1>2. SumFunctionOnSet(f, T) =
        IF T = {} THEN 0 ELSE f[Taken(T)] + SumFunctionOnSet(f, T \ {Taken(T)})
  BY SumUnfold, FS_Subset
<1>3. T # {} => /\ Taken(T) \in T /\ T \ {Taken(T)} \notin F
  BY <1>1, TakenIn
<1> QED  BY <1>2, <1>3

(* Any element may be taken out of a sum.                                   *)
LEMMA SumTakeOut ==
  ASSUME NEW f, NEW S, IsFiniteSet(S), \A x \in S : f[x] \in Int, NEW a \in S
  PROVE  SumFunctionOnSet(f, S) = f[a] + SumFunctionOnSet(f, S \ {a})
<1> DEFINE F == {T \in SUBSET S : \E x \in T :
                   SumFunctionOnSet(f, T) # f[x] + SumFunctionOnSet(f, T \ {x})}
<1> SUFFICES ASSUME F # {} PROVE FALSE
  OBVIOUS
<1>1. PICK T \in F : \A U \in F : U \subseteq T => U = T
  <2> HIDE DEF F
  <2>1. F \in SUBSET SUBSET S
    BY DEF F
  <2> QED  BY <2>1, MinimalSubset
<1>2. PICK x \in T : SumFunctionOnSet(f, T) # f[x] + SumFunctionOnSet(f, T \ {x})
  OBVIOUS
<1>3. PICK y \in T : SumFunctionOnSet(f, T) = f[y] + SumFunctionOnSet(f, T \ {y})
  BY SumUnfold, FS_Subset, TakenIn
<1>4. y # x
  BY <1>2, <1>3
<1>5. /\ T \ {y} \notin F /\ x \in T \ {y}
      /\ T \ {x} \notin F /\ y \in T \ {x}
  BY <1>1, <1>2, <1>3, <1>4
<1>6. /\ SumFunctionOnSet(f, T \ {y}) = f[x] + SumFunctionOnSet(f, (T \ {y}) \ {x})
      /\ SumFunctionOnSet(f, T \ {x}) = f[y] + SumFunctionOnSet(f, (T \ {x}) \ {y})
  BY <1>5
<1>7. (T \ {y}) \ {x} = (T \ {x}) \ {y}
  OBVIOUS
<1>8. f[x] \in Int /\ f[y] \in Int /\ SumFunctionOnSet(f, (T \ {x}) \ {y}) \in Int
  <2>1. (T \ {x}) \ {y} \in SUBSET S
    OBVIOUS
  <2> QED  BY <1>3, <2>1, SumType, FS_Subset
<1> QED  BY <1>2, <1>3, <1>6, <1>7, <1>8

(* The sum of the empty set, and of a set with one element more.            *)
LEMMA SumEmpty == \A f : SumFunctionOnSet(f, {}) = 0
BY SumUnfold, FS_EmptySet

LEMMA SumAdd ==
  ASSUME NEW f, NEW S, IsFiniteSet(S), NEW a, a \notin S, \A x \in S \cup {a} : f[x] \in Int
  PROVE  SumFunctionOnSet(f, S \cup {a}) = f[a] + SumFunctionOnSet(f, S)
<1>1. IsFiniteSet(S \cup {a}) /\ (S \cup {a}) \ {a} = S
  BY FS_AddElement
<1> QED  BY <1>1, SumTakeOut

(* A sum depends only on the values at the elements of the set.             *)
LEMMA SumSame ==
  ASSUME NEW f, NEW h, NEW S, IsFiniteSet(S), \A x \in S : f[x] = h[x]
  PROVE  SumFunctionOnSet(f, S) = SumFunctionOnSet(h, S)
<1> DEFINE F == {T \in SUBSET S : SumFunctionOnSet(f, T) # SumFunctionOnSet(h, T)}
<1> SUFFICES ASSUME F # {} PROVE FALSE
  OBVIOUS
<1>1. PICK T \in F : \A U \in F : U \subseteq T => U = T
  <2> HIDE DEF F
  <2>1. F \in SUBSET SUBSET S
    BY DEF F
  <2> QED  BY <2>1, MinimalSubset
<1>2. /\ SumFunctionOnSet(f, T) =
           IF T = {} THEN 0 ELSE f[Taken(T)] + SumFunctionOnSet(f, T \ {Taken(T)})
      /\ SumFunctionOnSet(h, T) =
           IF T = {} THEN 0 ELSE h[Taken(T)] + SumFunctionOnSet(h, T \ {Taken(T)})
  BY SumUnfold, FS_Subset
<1>3. T # {} => Taken(T) \in T /\ T \ {Taken(T)} \notin F
  BY <1>1, TakenIn
<1> QED  BY <1>2, <1>3

(* A sum of zeros.                                                          *)
LEMMA SumZero ==
  ASSUME NEW f, NEW S, IsFiniteSet(S), \A x \in S : f[x] = 0
  PROVE  SumFunctionOnSet(f, S) = 0
<1> DEFINE F == {T \in SUBSET S : SumFunctionOnSet(f, T) # 0}
<1> SUFFICES ASSUME F # {} PROVE FALSE
  OBVIOUS
<1>1. PICK T \in F : \A U \in F : U \subseteq T => U = T
  <2> HIDE DEF F
  <2>1. F \in SUBSET SUBSET S
    BY DEF F
  <2> QED  BY <2>1, MinimalSubset
<1>2. SumFunctionOnSet(f, T) =
        IF T = {} THEN 0 ELSE f[Taken(T)] + SumFunctionOnSet(f, T \ {Taken(T)})
  BY SumUnfold, FS_Subset
<1>3. T # {} => Taken(T) \in T /\ T \ {Taken(T)} \notin F
  BY <1>1, TakenIn
<1> QED  BY <1>2, <1>3

(* Changing one element changes the sum by the difference.                  *)
LEMMA SumChange ==
  ASSUME NEW f, NEW h, NEW S, IsFiniteSet(S), NEW a \in S,
         \A x \in S : f[x] \in Int /\ h[x] \in Int,
         \A x \in S \ {a} : f[x] = h[x]
  PROVE  SumFunctionOnSet(h, S) = SumFunctionOnSet(f, S) + h[a] - f[a]
<1>1. IsFiniteSet(S \ {a})
  BY FS_RemoveElement
<1>2. SumFunctionOnSet(f, S \ {a}) = SumFunctionOnSet(h, S \ {a})
  BY <1>1, SumSame
<1>3. SumFunctionOnSet(f, S \ {a}) \in Int
  BY <1>1, SumType
<1>4. /\ SumFunctionOnSet(f, S) = f[a] + SumFunctionOnSet(f, S \ {a})
      /\ SumFunctionOnSet(h, S) = h[a] + SumFunctionOnSet(h, S \ {a})
  BY SumTakeOut
<1> QED  BY <1>2, <1>3, <1>4

(* Sums of two sets with nothing in common.                                 *)
LEMMA SumUnion ==
  ASSUME NEW f, NEW S, NEW R, IsFiniteSet(S), IsFiniteSet(R), S \cap R = {},
         \A x \in S \cup R : f[x] \in Int
  PROVE  SumFunctionOnSet(f, S \cup R) = SumFunctionOnSet(f, S) + SumFunctionOnSet(f, R)
<1> DEFINE F == {T \in SUBSET R : SumFunctionOnSet(f, S \cup T) #
                                  SumFunctionOnSet(f, S) + SumFunctionOnSet(f, T)}
<1> SUFFICES ASSUME F # {} PROVE FALSE
  OBVIOUS
<1>1. PICK T \in F : \A U \in F : U \subseteq T => U = T
  <2> HIDE DEF F
  <2>1. F \in SUBSET SUBSET R
    BY DEF F
  <2> QED  BY <2>1, MinimalSubset
<1>2. SumFunctionOnSet(f, S) \in Int
  BY SumType
<1>3. T # {}
  <2>1. S \cup {} = S
    OBVIOUS
  <2> QED  BY <1>2, <2>1, SumEmpty
<1>4. PICK a \in T : TRUE
  BY <1>3
<1> DEFINE V == T \ {a}
<1>5. /\ IsFiniteSet(V) /\ IsFiniteSet(S \cup V) /\ V \notin F /\ V \in SUBSET R
      /\ a \notin V /\ a \notin S \cup V
  <2>1. V \in SUBSET R /\ a \notin V /\ a \notin S \cup V /\ V \notin F
    BY <1>1
  <2>2. IsFiniteSet(V)
    BY <2>1, FS_Subset
  <2>3. IsFiniteSet(S \cup V)
    BY <2>2, FS_Union
  <2> QED  BY <2>1, <2>2, <2>3
<1>6. /\ SumFunctionOnSet(f, V \cup {a}) = f[a] + SumFunctionOnSet(f, V)
      /\ SumFunctionOnSet(f, (S \cup V) \cup {a}) = f[a] + SumFunctionOnSet(f, S \cup V)
  <2> HIDE DEF V
  <2>1. \A x \in V \cup {a} : f[x] \in Int
    BY DEF V
  <2>2. \A x \in (S \cup V) \cup {a} : f[x] \in Int
    BY DEF V
  <2> QED  BY <1>5, <2>1, <2>2, SumAdd
<1>7. V \cup {a} = T /\ (S \cup V) \cup {a} = S \cup T
  OBVIOUS
<1>8. SumFunctionOnSet(f, V) \in Int /\ f[a] \in Int
  BY <1>5, SumType
<1>9. SumFunctionOnSet(f, S \cup V) = SumFunctionOnSet(f, S) + SumFunctionOnSet(f, V)
  BY <1>5
<1>10. SumFunctionOnSet(f, S \cup T) # SumFunctionOnSet(f, S) + SumFunctionOnSet(f, T)
  OBVIOUS
<1>11. /\ SumFunctionOnSet(f, T) = f[a] + SumFunctionOnSet(f, V)
       /\ SumFunctionOnSet(f, S \cup T) = f[a] + SumFunctionOnSet(f, S \cup V)
  <2> HIDE DEF V
  <2> QED  BY <1>6, <1>7
<1> HIDE DEF V, F
<1> QED  BY <1>2, <1>8, <1>9, <1>10, <1>11

(* A sum of naturals is a natural.                                         *)
LEMMA SumNat ==
  ASSUME NEW f, NEW S, IsFiniteSet(S), \A x \in S : f[x] \in Nat
  PROVE  SumFunctionOnSet(f, S) \in Nat
<1> DEFINE F == {T \in SUBSET S : SumFunctionOnSet(f, T) \notin Nat}
<1> SUFFICES ASSUME F # {} PROVE FALSE
  BY FS_Subset
<1>1. PICK T \in F : \A U \in F : U \subseteq T => U = T
  <2> HIDE DEF F
  <2>1. F \in SUBSET SUBSET S
    BY DEF F
  <2> QED  BY <2>1, MinimalSubset
<1>2. SumFunctionOnSet(f, T) =
        IF T = {} THEN 0 ELSE f[Taken(T)] + SumFunctionOnSet(f, T \ {Taken(T)})
  BY SumUnfold, FS_Subset
<1>3. T # {} => Taken(T) \in T /\ T \ {Taken(T)} \notin F
  BY <1>1, TakenIn
<1> QED  BY <1>2, <1>3
=============================================================================
