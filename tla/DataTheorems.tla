---------------------------- MODULE DataTheorems ----------------------------
(***************************************************************************)
(* Facts about the data of the models that several proofs cite: least      *)
(* elements, and the laws of SumFunctionOnSet, the sum of a function over  *)
(* a finite set.  The library defines a sum by recursion over subsets,     *)
(* with an element chosen at each step, so that its laws need an           *)
(* induction; here a least counterexample takes its place.                 *)
(***************************************************************************)
EXTENDS FiniteSetTheorems, TLAPS

(* A set of natural numbers has a least one, if it has any.                *)
LEMMA LeastNatural ==
  ASSUME NEW Bad, Bad \subseteq Nat, Bad # {}
  PROVE  \E n \in Bad : \A m \in Bad : n <= m
<1>1. PICK n \in Bad : \A m \in Bad : ~(<<m, n>> \in OpToRel(<, Nat))
  BY WFMin, NatLessThanWellFounded, Zenon
<1>2. \A m \in Bad : ~(m < n)
  BY <1>1 DEF OpToRel
<1> QED
  BY <1>2

(* A set of subsets of a finite set has a least one, if it has any.        *)
LEMMA LeastSubset ==
  ASSUME NEW S, IsFiniteSet(S), NEW Bad, Bad \subseteq SUBSET S, Bad # {}
  PROVE  \E T \in Bad : \A U \in Bad : U \subseteq T => U = T
<1>1. IsWellFoundedOn(StrictSubsetOrdering(S), SUBSET S)
  BY FS_StrictSubsetOrderingWellFounded, FS_FiniteSubsetsOfFinite
<1>2. PICK T \in Bad : \A U \in Bad : ~(<<U, T>> \in StrictSubsetOrdering(S))
  BY <1>1, WFMin
<1> QED
  BY <1>2 DEF StrictSubsetOrdering

-----------------------------------------------------------------------------
(* The recursion of a sum *)

(* The library's choice of an element.                                     *)
Pick(T) == CHOOSE x \in T : TRUE

(* g is what the recursion of a sum of f over S defines.                   *)
Sums(f, S, g) ==
  g = [T \in SUBSET S |-> IF T = {} THEN 0 ELSE f[Pick(T)] + g[T \ {Pick(T)}]]

(* The sum, by the function that its recursion defines.                    *)
LEMMA SumIsChosen ==
  ASSUME NEW f, NEW S
  PROVE  SumFunctionOnSet(f, S) = (CHOOSE g : Sums(f, S, g))[S]
BY DEF SumFunctionOnSet, FoldFunctionOnSet, MapThenFoldSet, Sums, Pick

(* Two recursions agree where both are defined.                            *)
LEMMA SumsAgree ==
  ASSUME NEW f, NEW S, IsFiniteSet(S), NEW T \in SUBSET S,
         NEW g, Sums(f, S, g), NEW h, Sums(f, T, h)
  PROVE  \A U \in SUBSET T : g[U] = h[U]
<1> DEFINE Bad == {U \in SUBSET T : g[U] # h[U]}
<1>1. SUFFICES ASSUME Bad # {} PROVE FALSE
  OBVIOUS
<1>2. Bad \subseteq SUBSET S
  OBVIOUS
<1>3. PICK U \in Bad : \A V \in Bad : V \subseteq U => V = U
  <2> HIDE DEF Bad
  <2> QED BY <1>1, <1>2, LeastSubset
<1>4. g[{}] = 0 /\ h[{}] = 0
  BY DEF Sums
<1>5. U # {} /\ Pick(U) \in U
  BY <1>4 DEF Pick
<1>6. U \ {Pick(U)} \notin Bad
  BY <1>3, <1>5
<1>7. g[U] = f[Pick(U)] + g[U \ {Pick(U)}] /\ h[U] = f[Pick(U)] + h[U \ {Pick(U)}]
  BY <1>5 DEF Sums
<1> QED
  BY <1>5, <1>6, <1>7

(* The recursion of a sum over a finite set defines a function.            *)
LEMMA SumsExist ==
  ASSUME NEW f, NEW S, IsFiniteSet(S)
  PROVE  \E g : Sums(f, S, g)
<1> DEFINE Bad  == {T \in SUBSET S : ~\E g : Sums(f, T, g)}
           G(T) == CHOOSE g : Sums(f, T, g)
<1>1. SUFFICES ASSUME Bad # {} PROVE FALSE
  OBVIOUS
<1>2. PICK T \in Bad : \A U \in Bad : U \subseteq T => U = T
  <2>1. Bad \subseteq SUBSET S
    OBVIOUS
  <2> HIDE DEF Bad
  <2> QED BY <1>1, <2>1, LeastSubset
<1>3. \A V \in SUBSET T : V # T => Sums(f, V, G(V))
  BY <1>2
<1>4. \A U \in SUBSET T : U # {} => Pick(U) \in U
  BY DEF Pick
<1> DEFINE Rest(U) == U \ {Pick(U)}
           h == [U \in SUBSET T |-> IF U = {} THEN 0 ELSE f[Pick(U)] + G(Rest(U))[Rest(U)]]
<1>5. ASSUME NEW V \in SUBSET T, V # T
      PROVE  h[V] = G(V)[V]
  <2>1. CASE V = {}
    <3>1. Sums(f, V, G(V))
      BY <1>3, <1>5
    <3> HIDE DEF G
    <3>2. G(V)[V] = 0
      BY <3>1, <2>1 DEF Sums
    <3> QED BY <3>2, <2>1
  <2>2. CASE V # {}
    <3>1. Rest(V) \in SUBSET V /\ Rest(V) # T /\ Rest(V) \in SUBSET T
      BY <1>4, <1>5, <2>2
    <3>2. Sums(f, V, G(V)) /\ Sums(f, Rest(V), G(Rest(V)))
      BY <1>3, <1>5, <3>1
    <3>3. IsFiniteSet(V)
      BY FS_Subset
    <3> HIDE DEF G
    <3>4. G(V)[Rest(V)] = G(Rest(V))[Rest(V)]
      BY <3>1, <3>2, <3>3, SumsAgree
    <3>5. G(V)[V] = f[Pick(V)] + G(V)[Rest(V)]
      BY <3>2, <2>2 DEF Sums
    <3> QED
      BY <3>4, <3>5, <2>2
  <2> QED BY <2>1, <2>2
<1>6. ASSUME NEW U \in SUBSET T, U # {}
      PROVE  h[U] = f[Pick(U)] + h[U \ {Pick(U)}]
  <2>1. Rest(U) \in SUBSET T /\ Rest(U) # T
    BY <1>4, <1>6
  <2> QED BY <1>5, <1>6, <2>1
<1>7. Sums(f, T, h)
  <2>1. h[{}] = 0
    OBVIOUS
  <2>2. h = [U \in SUBSET T |-> h[U]]
    OBVIOUS
  <2> HIDE DEF h
  <2> QED BY <1>6, <2>1, <2>2 DEF Sums
<1> QED
  BY <1>2, <1>7

(* One step of the recursion, with the library's own choice of element.    *)
LEMMA SumUnfold ==
  ASSUME NEW f, NEW S, IsFiniteSet(S)
  PROVE  /\ S = {} => SumFunctionOnSet(f, S) = 0
         /\ S # {} => /\ Pick(S) \in S
                      /\ SumFunctionOnSet(f, S) =
                           f[Pick(S)] + SumFunctionOnSet(f, S \ {Pick(S)})
<1> DEFINE G(T) == CHOOSE g : Sums(f, T, g)
           Rest == S \ {Pick(S)}
<1>1. Rest \in SUBSET S /\ IsFiniteSet(Rest)
  BY FS_Subset
<1>2. Sums(f, S, G(S)) /\ Sums(f, Rest, G(Rest))
  BY <1>1, SumsExist
<1>3. SumFunctionOnSet(f, S) = G(S)[S] /\ SumFunctionOnSet(f, Rest) = G(Rest)[Rest]
  BY SumIsChosen
<1>4. S # {} => Pick(S) \in S
  BY DEF Pick
<1> HIDE DEF G
<1>5. G(S)[Rest] = G(Rest)[Rest]
  BY <1>1, <1>2, SumsAgree
<1>6. /\ S = {} => G(S)[S] = 0
      /\ S # {} => G(S)[S] = f[Pick(S)] + G(S)[Rest]
  BY <1>2 DEF Sums
<1> QED
  BY <1>3, <1>4, <1>5, <1>6

-----------------------------------------------------------------------------
(* The laws *)

(* The empty sum.                                                          *)
LEMMA SumEmpty ==
  ASSUME NEW f
  PROVE  SumFunctionOnSet(f, {}) = 0
BY SumUnfold, FS_EmptySet

(* A sum of natural numbers is a natural number.                           *)
LEMMA SumIsNat ==
  ASSUME NEW f, NEW S, IsFiniteSet(S), \A x \in S : f[x] \in Nat
  PROVE  SumFunctionOnSet(f, S) \in Nat
<1> DEFINE Bad == {T \in SUBSET S : SumFunctionOnSet(f, T) \notin Nat}
<1>1. SUFFICES ASSUME Bad # {} PROVE FALSE
  OBVIOUS
<1>2. PICK T \in Bad : \A U \in Bad : U \subseteq T => U = T
  <2>1. Bad \subseteq SUBSET S
    OBVIOUS
  <2> HIDE DEF Bad
  <2> QED BY <1>1, <2>1, LeastSubset
<1>3. IsFiniteSet(T)
  BY FS_Subset
<1>4. T # {} /\ Pick(T) \in T
  <2>1. T # {}
    BY SumEmpty
  <2> QED BY <2>1, <1>3, SumUnfold
<1>5. SumFunctionOnSet(f, T \ {Pick(T)}) \in Nat
  BY <1>2, <1>4
<1>6. SumFunctionOnSet(f, T) = f[Pick(T)] + SumFunctionOnSet(f, T \ {Pick(T)})
  BY <1>3, <1>4, SumUnfold
<1> QED
  BY <1>4, <1>5, <1>6

(* Any element can be taken out of a sum, not only the one that the        *)
(* recursion chooses.                                                      *)
LEMMA SumRemove ==
  ASSUME NEW f, NEW S, IsFiniteSet(S), \A y \in S : f[y] \in Nat, NEW x \in S
  PROVE  SumFunctionOnSet(f, S) = f[x] + SumFunctionOnSet(f, S \ {x})
<1> DEFINE Law(T, y) == SumFunctionOnSet(f, T) = f[y] + SumFunctionOnSet(f, T \ {y})
           Bad == {T \in SUBSET S : \E y \in T : ~Law(T, y)}
<1>1. SUFFICES ASSUME Bad # {} PROVE FALSE
  OBVIOUS
<1>2. PICK T \in Bad : \A U \in Bad : U \subseteq T => U = T
  <2>1. Bad \subseteq SUBSET S
    OBVIOUS
  <2> HIDE DEF Bad
  <2> QED BY <1>1, <2>1, LeastSubset
<1>3. PICK y \in T : ~Law(T, y)
  OBVIOUS
<1> DEFINE p == Pick(T)
<1>4. IsFiniteSet(T) /\ T # {}
  BY FS_Subset
<1>5. p \in T /\ Law(T, p)
  BY <1>4, SumUnfold
<1>6. p # y
  BY <1>3, <1>5
<1>7. Law(T \ {p}, y) /\ Law(T \ {y}, p)
  <2>1. T \ {p} \notin Bad /\ T \ {y} \notin Bad
    BY <1>2, <1>5
  <2> QED BY <2>1, <1>5, <1>6
<1>8. (T \ {p}) \ {y} = (T \ {y}) \ {p}
  OBVIOUS
<1>9. SumFunctionOnSet(f, (T \ {p}) \ {y}) \in Nat /\ f[p] \in Nat /\ f[y] \in Nat
  <2>1. IsFiniteSet((T \ {p}) \ {y})
    BY <1>4, FS_Subset
  <2> QED BY <2>1, <1>5, SumIsNat
<1> QED
  BY <1>3, <1>5, <1>7, <1>8, <1>9

(* What a new element adds.                                                *)
LEMMA SumAdd ==
  ASSUME NEW f, NEW S, IsFiniteSet(S), NEW x, x \notin S,
         \A y \in S \cup {x} : f[y] \in Nat
  PROVE  SumFunctionOnSet(f, S \cup {x}) = f[x] + SumFunctionOnSet(f, S)
<1>1. IsFiniteSet(S \cup {x})
  BY FS_AddElement
<1>2. (S \cup {x}) \ {x} = S
  OBVIOUS
<1> QED
  BY <1>1, <1>2, SumRemove

(* A larger set has no smaller sum.                                        *)
LEMMA SumMonotone ==
  ASSUME NEW f, NEW T, IsFiniteSet(T), \A y \in T : f[y] \in Nat, NEW S \in SUBSET T
  PROVE  SumFunctionOnSet(f, S) <= SumFunctionOnSet(f, T)
<1> DEFINE Bad == {U \in SUBSET T : S \subseteq U /\ ~(SumFunctionOnSet(f, S) <= SumFunctionOnSet(f, U))}
<1>1. SUFFICES ASSUME Bad # {} PROVE FALSE
  OBVIOUS
<1>2. PICK U \in Bad : \A V \in Bad : V \subseteq U => V = U
  <2>1. Bad \subseteq SUBSET T
    OBVIOUS
  <2> HIDE DEF Bad
  <2> QED BY <1>1, <2>1, LeastSubset
<1>3. IsFiniteSet(S) /\ IsFiniteSet(U)
  BY FS_Subset
<1>4. SumFunctionOnSet(f, S) \in Nat
  BY <1>3, SumIsNat
<1>5. PICK x \in U : x \notin S
  BY <1>4
<1>6. U \ {x} \notin Bad
  BY <1>2, <1>5
<1>7. SumFunctionOnSet(f, U) = f[x] + SumFunctionOnSet(f, U \ {x})
  BY <1>3, SumRemove
<1>8. SumFunctionOnSet(f, U \ {x}) \in Nat /\ f[x] \in Nat
  <2>1. IsFiniteSet(U \ {x})
    BY <1>3, FS_Subset
  <2> QED BY <2>1, SumIsNat
<1> QED
  BY <1>4, <1>5, <1>6, <1>7, <1>8
(* A sum depends on the summed values only.                                *)
LEMMA SumCongruent ==
  ASSUME NEW f, NEW g, NEW S, IsFiniteSet(S), \A x \in S : f[x] = g[x]
  PROVE  SumFunctionOnSet(f, S) = SumFunctionOnSet(g, S)
<1> DEFINE Bad == {T \in SUBSET S : SumFunctionOnSet(f, T) # SumFunctionOnSet(g, T)}
<1>1. SUFFICES ASSUME Bad # {} PROVE FALSE
  OBVIOUS
<1>2. PICK T \in Bad : \A U \in Bad : U \subseteq T => U = T
  <2>1. Bad \subseteq SUBSET S
    OBVIOUS
  <2> HIDE DEF Bad
  <2> QED BY <1>1, <2>1, LeastSubset
<1>3. IsFiniteSet(T)
  BY FS_Subset
<1>4. T # {} /\ Pick(T) \in T
  BY <1>2, <1>3, SumEmpty, SumUnfold
<1>5. SumFunctionOnSet(f, T \ {Pick(T)}) = SumFunctionOnSet(g, T \ {Pick(T)})
  BY <1>2, <1>4
<1> QED
  BY <1>3, <1>4, <1>5, SumUnfold
(* The sum of a function that has one more value.                          *)
LEMMA SumExtended ==
  ASSUME NEW f, NEW g, NEW x, IsFiniteSet(DOMAIN f), x \notin DOMAIN f,
         DOMAIN g = DOMAIN f \cup {x}, \A y \in DOMAIN f : g[y] = f[y], \A y \in DOMAIN g : g[y] \in Nat
  PROVE  SumFunction(g) = g[x] + SumFunction(f)
<1>1. SumFunctionOnSet(g, DOMAIN f \cup {x}) = g[x] + SumFunctionOnSet(g, DOMAIN f)
  BY SumAdd
<1>2. SumFunctionOnSet(g, DOMAIN f) = SumFunctionOnSet(f, DOMAIN f)
  BY SumCongruent
<1> QED
  BY <1>1, <1>2 DEF SumFunction

LEMMA SumFunctionIsNat ==
  ASSUME NEW f, IsFiniteSet(DOMAIN f), \A y \in DOMAIN f : f[y] \in Nat
  PROVE  SumFunction(f) \in Nat
BY SumIsNat DEF SumFunction

LEMMA SumSame ==
  ASSUME NEW f, NEW g, IsFiniteSet(DOMAIN f), DOMAIN g = DOMAIN f, \A y \in DOMAIN f : g[y] = f[y]
  PROVE  SumFunction(g) = SumFunction(f)
BY SumCongruent DEF SumFunction
=============================================================================
