-------------------------------- MODULE Sums --------------------------------
(***************************************************************************)
(* What the proofs need to know of finite sets and of sums over them.      *)
(* SumFunctionOnSet adds up the values of a function by taking out one     *)
(* element after the other, so everything here rests on an induction over  *)
(* finite sets: of the sets for which a claim is false none is the least.  *)
(***************************************************************************)
EXTENDS Integers, Functions, FiniteSetTheorems, TLAPS

\* The element that is taken out first.
Any(s) == CHOOSE x \in s : TRUE

\* g adds up f over every subset of S.
AddsUp(g, f, S) ==
    g = [s \in SUBSET S |-> IF s = {} THEN 0 ELSE f[Any(s)] + g[s \ {Any(s)}]]

\* One that adds up f over the subsets of S, if there is one.
Adder(f, S) == CHOOSE g : AddsUp(g, f, S)

-----------------------------------------------------------------------------
\* Of some subsets of a finite set one is least.
LEMMA LeastSubset ==
    ASSUME NEW S, IsFiniteSet(S), NEW T \in SUBSET SUBSET S, T # {}
    PROVE  \E a \in T : \A b \in T : b \subseteq a => b = a
<1>1. IsWellFoundedOn(StrictSubsetOrdering(S), SUBSET S)
  BY FS_StrictSubsetOrderingWellFounded, FS_FiniteSubsetsOfFinite
<1>2. PICK a \in T : \A b \in T : <<b, a>> \notin StrictSubsetOrdering(S)
  BY <1>1, WFMin
<1> QED  BY <1>2 DEF StrictSubsetOrdering

\* The element taken out is one.
LEMMA AnyIsIn == \A s : s # {} => Any(s) \in s
BY DEF Any

\* The sum is what adds up f over S gives for S.
LEMMA SumIsAdded ==
    ASSUME NEW f, NEW S
    PROVE  SumFunctionOnSet(f, S) = Adder(f, S)[S]
BY DEF SumFunctionOnSet, FoldFunctionOnSet, MapThenFoldSet, Adder, AddsUp, Any

\* Two functions that add up f over S and over a subset agree on the subset.
LEMMA AddersAgree ==
    ASSUME NEW f, NEW S, IsFiniteSet(S), NEW R \in SUBSET S,
           NEW g, AddsUp(g, f, S), NEW h, AddsUp(h, f, R)
    PROVE  g[R] = h[R]
<1> DEFINE Differ == {s \in SUBSET R : g[s] # h[s]}
<1>1. Differ = {}
  <2> SUFFICES ASSUME Differ # {} PROVE FALSE
    OBVIOUS
  <2>1. PICK s \in Differ : \A t \in Differ : t \subseteq s => t = s
    <3> HIDE DEF Differ
    <3>1. Differ \in SUBSET SUBSET R /\ IsFiniteSet(R)
      BY FS_Subset DEF Differ
    <3> QED  BY <3>1, LeastSubset
  <2>2. g[s] = IF s = {} THEN 0 ELSE f[Any(s)] + g[s \ {Any(s)}]
    BY DEF AddsUp
  <2>3. h[s] = IF s = {} THEN 0 ELSE f[Any(s)] + h[s \ {Any(s)}]
    BY DEF AddsUp
  <2>4. s # {} => s \ {Any(s)} \notin Differ
    BY <2>1, AnyIsIn
  <2> QED  BY <2>2, <2>3, <2>4
<1> QED  BY <1>1

\* A finite set has a function that adds up f over its subsets.
LEMMA AdderExists ==
    ASSUME NEW f, NEW S, IsFiniteSet(S)
    PROVE  AddsUp(Adder(f, S), f, S)
<1> DEFINE None == {s \in SUBSET S : ~ \E g : AddsUp(g, f, s)}
<1>1. None = {}
  <2> SUFFICES ASSUME None # {} PROVE FALSE
    OBVIOUS
  <2>1. PICK a \in None : \A b \in None : b \subseteq a => b = a
    <3> HIDE DEF None
    <3>1. None \in SUBSET SUBSET S
      BY DEF None
    <3> QED  BY <3>1, LeastSubset
  <2>2. ASSUME NEW t \in SUBSET a, t # a PROVE IsFiniteSet(t) /\ AddsUp(Adder(f, t), f, t)
    <3>1. \E g : AddsUp(g, f, t)
      BY <2>1, <2>2
    <3> QED  BY <3>1, FS_Subset DEF Adder
  <2> DEFINE Rest(s) == s \ {Any(s)}
             g == [s \in SUBSET a |-> IF s = {} THEN 0 ELSE f[Any(s)] + Adder(f, Rest(s))[Rest(s)]]
  <2>3. ASSUME NEW t \in SUBSET a, t # a PROVE g[t] = Adder(f, t)[t]
    <3>1. Adder(f, t)[t] = IF t = {} THEN 0 ELSE f[Any(t)] + Adder(f, t)[Rest(t)]
      BY <2>2, <2>3 DEF AddsUp
    <3>2. ASSUME t # {} PROVE Adder(f, t)[Rest(t)] = Adder(f, Rest(t))[Rest(t)]
      <4>1. Rest(t) \in SUBSET t /\ Rest(t) # a
        BY <2>3
      <4>2. AddsUp(Adder(f, t), f, t) /\ AddsUp(Adder(f, Rest(t)), f, Rest(t)) /\ IsFiniteSet(t)
        BY <4>1, <2>2, <2>3
      <4> QED  BY <4>1, <4>2, AddersAgree
    <3> QED  BY <3>1, <3>2
  <2>4. ASSUME NEW s \in SUBSET a, s # {} PROVE Rest(s) \in SUBSET a /\ Rest(s) # a
    BY <2>4, AnyIsIn
  <2>5. AddsUp(g, f, a)
    <3>1. \A s \in SUBSET a : g[s] = IF s = {} THEN 0 ELSE f[Any(s)] + g[Rest(s)]
      BY <2>3, <2>4
    <3> HIDE DEF g
    <3>2. g = [s \in SUBSET a |-> g[s]]
      BY DEF g
    <3> QED  BY <3>1, <3>2 DEF AddsUp
  <2> QED  BY <2>5, <2>1
<1>2. S \notin None
  BY <1>1
<1> QED  BY <1>2 DEF Adder

-----------------------------------------------------------------------------
\* Nothing adds up to 0.
LEMMA SumOfNone == ASSUME NEW f PROVE SumFunctionOnSet(f, {}) = 0
<1>1. AddsUp(Adder(f, {}), f, {})
  BY AdderExists, FS_EmptySet
<1> QED  BY <1>1, SumIsAdded DEF AddsUp

\* A sum is the first element's value and the sum of the rest.
LEMMA SumOfSome ==
    ASSUME NEW f, NEW S, IsFiniteSet(S), S # {}
    PROVE  SumFunctionOnSet(f, S) = f[Any(S)] + SumFunctionOnSet(f, S \ {Any(S)})
<1> DEFINE R == S \ {Any(S)}
<1>1. IsFiniteSet(R) /\ R \in SUBSET S
  BY FS_Subset
<1>2. AddsUp(Adder(f, S), f, S) /\ AddsUp(Adder(f, R), f, R)
  BY <1>1, AdderExists
<1>3. Adder(f, S)[S] = f[Any(S)] + Adder(f, S)[R]
  BY <1>2 DEF AddsUp
<1>4. Adder(f, S)[R] = Adder(f, R)[R]
  BY <1>1, <1>2, AddersAgree
<1> QED  BY <1>3, <1>4, SumIsAdded

\* The sum of natural numbers is one.
LEMMA SumIsNat ==
    ASSUME NEW f, NEW S, IsFiniteSet(S), \A x \in S : f[x] \in Nat
    PROVE  SumFunctionOnSet(f, S) \in Nat
<1> DEFINE Bad == {s \in SUBSET S : SumFunctionOnSet(f, s) \notin Nat}
<1> SUFFICES ASSUME Bad # {} PROVE FALSE
  OBVIOUS
<1>1. PICK s \in Bad : \A t \in Bad : t \subseteq s => t = s
  <2> HIDE DEF Bad
  <2>1. Bad \in SUBSET SUBSET S
    BY DEF Bad
  <2> QED  BY <2>1, LeastSubset
<1>2. s # {} /\ IsFiniteSet(s)
  <2>1. s # {}
    BY SumOfNone
  <2> QED  BY <2>1, FS_Subset
<1>3. SumFunctionOnSet(f, s \ {Any(s)}) \in Nat /\ f[Any(s)] \in Nat
  BY <1>1, <1>2, AnyIsIn
<1> QED  BY <1>2, <1>3, SumOfSome

\* The sum depends on the values in the set alone.
LEMMA SumOfSame ==
    ASSUME NEW f, NEW g, NEW S, IsFiniteSet(S), \A x \in S : f[x] = g[x]
    PROVE  SumFunctionOnSet(f, S) = SumFunctionOnSet(g, S)
<1> DEFINE Bad == {s \in SUBSET S : SumFunctionOnSet(f, s) # SumFunctionOnSet(g, s)}
<1> SUFFICES ASSUME Bad # {} PROVE FALSE
  OBVIOUS
<1>1. PICK s \in Bad : \A t \in Bad : t \subseteq s => t = s
  <2> HIDE DEF Bad
  <2>1. Bad \in SUBSET SUBSET S
    BY DEF Bad
  <2> QED  BY <2>1, LeastSubset
<1>2. s # {} /\ IsFiniteSet(s)
  <2>1. s # {}
    BY SumOfNone
  <2> QED  BY <2>1, FS_Subset
<1>3. SumFunctionOnSet(f, s \ {Any(s)}) = SumFunctionOnSet(g, s \ {Any(s)}) /\ f[Any(s)] = g[Any(s)]
  BY <1>1, <1>2, AnyIsIn
<1> QED  BY <1>2, <1>3, SumOfSome

\* Any element may be taken out first.
LEMMA SumWithout ==
    ASSUME NEW f, NEW S, IsFiniteSet(S), \A y \in S : f[y] \in Nat, NEW x \in S
    PROVE  SumFunctionOnSet(f, S) = f[x] + SumFunctionOnSet(f, S \ {x})
<1> DEFINE Right(s, y) == SumFunctionOnSet(f, s) = f[y] + SumFunctionOnSet(f, s \ {y})
           Bad == {s \in SUBSET S : \E y \in s : ~Right(s, y)}
<1> SUFFICES ASSUME Bad # {} PROVE FALSE
  OBVIOUS
<1>1. PICK s \in Bad : \A t \in Bad : t \subseteq s => t = s
  <2> HIDE DEF Bad
  <2>1. Bad \in SUBSET SUBSET S
    BY DEF Bad
  <2> QED  BY <2>1, LeastSubset
<1>2. PICK y \in s : ~Right(s, y)
  OBVIOUS
<1>3. IsFiniteSet(s) /\ s # {} /\ s \in SUBSET S
  BY <1>2, FS_Subset
<1> DEFINE z == Any(s)
<1>4. z \in s
  BY <1>3, AnyIsIn
<1>5. Right(s, z)
  BY <1>3, SumOfSome
<1>6. y # z
  BY <1>2, <1>5
<1>7. Right(s \ {z}, y)
  <2>1. s \ {z} \notin Bad
    BY <1>1, <1>4
  <2> QED  BY <2>1, <1>3, <1>6
<1>8. Right(s \ {y}, z)
  <2>1. s \ {y} \notin Bad
    BY <1>1
  <2> QED  BY <2>1, <1>3, <1>4, <1>6
<1>9. (s \ {z}) \ {y} = (s \ {y}) \ {z}
  OBVIOUS
<1>10. SumFunctionOnSet(f, (s \ {z}) \ {y}) \in Nat /\ f[y] \in Nat /\ f[z] \in Nat
  <2>1. IsFiniteSet((s \ {z}) \ {y})
    BY <1>3, FS_Subset
  <2> QED  BY <1>3, <1>4, <2>1, SumIsNat
<1>11. SumFunctionOnSet(f, s) = f[z] + (f[y] + SumFunctionOnSet(f, (s \ {z}) \ {y}))
  BY <1>5, <1>7
<1>12. SumFunctionOnSet(f, s \ {y}) = f[z] + SumFunctionOnSet(f, (s \ {z}) \ {y})
  BY <1>8, <1>9
<1>13. SumFunctionOnSet(f, s) # f[y] + SumFunctionOnSet(f, s \ {y})
  BY <1>2
<1> HIDE DEF z
<1> QED  BY <1>10, <1>11, <1>12, <1>13

\* What is left out makes the sum no greater.
LEMMA SumOfPart ==
    ASSUME NEW f, NEW S, IsFiniteSet(S), \A y \in S : f[y] \in Nat, NEW R \in SUBSET S
    PROVE  SumFunctionOnSet(f, R) <= SumFunctionOnSet(f, S)
<1> DEFINE Bad == {s \in SUBSET S : R \subseteq s /\ ~(SumFunctionOnSet(f, R) <= SumFunctionOnSet(f, s))}
<1> SUFFICES ASSUME Bad # {} PROVE FALSE
  OBVIOUS
<1>1. PICK s \in Bad : \A t \in Bad : t \subseteq s => t = s
  <2> HIDE DEF Bad
  <2>1. Bad \in SUBSET SUBSET S
    BY DEF Bad
  <2> QED  BY <2>1, LeastSubset
<1>2. IsFiniteSet(s) /\ IsFiniteSet(R) /\ SumFunctionOnSet(f, R) \in Nat
  <2>1. IsFiniteSet(s) /\ IsFiniteSet(R)
    BY FS_Subset
  <2> QED  BY <2>1, SumIsNat
<1>3. s # R
  BY <1>2
<1>4. PICK x \in s : x \notin R
  BY <1>3
<1>5. SumFunctionOnSet(f, R) <= SumFunctionOnSet(f, s \ {x})
  BY <1>1, <1>4
<1>6. SumFunctionOnSet(f, s) = f[x] + SumFunctionOnSet(f, s \ {x})
  BY <1>2, SumWithout
<1>7. f[x] \in Nat /\ SumFunctionOnSet(f, s \ {x}) \in Nat
  BY <1>2, FS_Subset, SumIsNat
<1> QED  BY <1>2, <1>5, <1>6, <1>7

\* Greater values make it no less.
LEMMA SumOfMore ==
    ASSUME NEW f, NEW g, NEW S, IsFiniteSet(S),
           \A x \in S : f[x] \in Nat /\ g[x] \in Nat /\ f[x] <= g[x]
    PROVE  SumFunctionOnSet(f, S) <= SumFunctionOnSet(g, S)
<1> DEFINE Bad == {s \in SUBSET S : ~(SumFunctionOnSet(f, s) <= SumFunctionOnSet(g, s))}
<1> SUFFICES ASSUME Bad # {} PROVE FALSE
  OBVIOUS
<1>1. PICK s \in Bad : \A t \in Bad : t \subseteq s => t = s
  <2> HIDE DEF Bad
  <2>1. Bad \in SUBSET SUBSET S
    BY DEF Bad
  <2> QED  BY <2>1, LeastSubset
<1>2. s # {} /\ IsFiniteSet(s) /\ IsFiniteSet(s \ {Any(s)})
  <2>1. s # {}
    BY SumOfNone
  <2> QED  BY <2>1, FS_Subset
<1>3. /\ SumFunctionOnSet(f, s \ {Any(s)}) <= SumFunctionOnSet(g, s \ {Any(s)})
      /\ Any(s) \in S
  BY <1>1, <1>2, AnyIsIn
<1>4. SumFunctionOnSet(f, s \ {Any(s)}) \in Nat /\ SumFunctionOnSet(g, s \ {Any(s)}) \in Nat
  BY <1>2, SumIsNat
<1> QED  BY <1>2, <1>3, <1>4, SumOfSome

\* A change of one value changes the sum by as much.
LEMMA SumOfChange ==
    ASSUME NEW f, NEW g, NEW S, IsFiniteSet(S), NEW x \in S,
           \A y \in S : f[y] \in Nat /\ g[y] \in Nat,
           \A y \in S \ {x} : f[y] = g[y]
    PROVE  SumFunctionOnSet(g, S) + f[x] = SumFunctionOnSet(f, S) + g[x]
<1>1. SumFunctionOnSet(f, S) = f[x] + SumFunctionOnSet(f, S \ {x})
  BY SumWithout
<1>2. SumFunctionOnSet(g, S) = g[x] + SumFunctionOnSet(g, S \ {x})
  BY SumWithout
<1>3. IsFiniteSet(S \ {x})
  BY FS_RemoveElement
<1>4. SumFunctionOnSet(f, S \ {x}) = SumFunctionOnSet(g, S \ {x})
  BY <1>3, SumOfSame
<1>5. SumFunctionOnSet(f, S \ {x}) \in Nat
  BY <1>3, SumIsNat
<1> QED  BY <1>1, <1>2, <1>4, <1>5

\* Two parts without a common element add up to the whole.
LEMMA SumOfParts ==
    ASSUME NEW f, NEW S, IsFiniteSet(S), \A y \in S : f[y] \in Nat, NEW R \in SUBSET S
    PROVE  SumFunctionOnSet(f, S) = SumFunctionOnSet(f, R) + SumFunctionOnSet(f, S \ R)
<1> DEFINE Bad == {s \in SUBSET R : SumFunctionOnSet(f, (S \ R) \cup s)
                                    # SumFunctionOnSet(f, s) + SumFunctionOnSet(f, S \ R)}
<1>1. SUFFICES ASSUME Bad # {} PROVE FALSE
  <2>1. R \in SUBSET R /\ (S \ R) \cup R = S
    OBVIOUS
  <2>2. Bad = {} => SumFunctionOnSet(f, (S \ R) \cup R) = SumFunctionOnSet(f, R) + SumFunctionOnSet(f, S \ R)
    BY <2>1
  <2> HIDE DEF Bad
  <2> QED  BY <2>1, <2>2
<1>2. PICK s \in Bad : \A t \in Bad : t \subseteq s => t = s
  <2>1. Bad \in SUBSET SUBSET R /\ IsFiniteSet(R)
    BY FS_Subset
  <2> HIDE DEF Bad
  <2> QED  BY <1>1, <2>1, LeastSubset
<1>3. SumFunctionOnSet(f, S \ R) \in Nat
  BY FS_Subset, SumIsNat
<1>4. s # {}
  <2>1. (S \ R) \cup {} = S \ R
    OBVIOUS
  <2>2. SumFunctionOnSet(f, S \ R) = SumFunctionOnSet(f, {}) + SumFunctionOnSet(f, S \ R)
    BY <1>3, SumOfNone
  <2> QED  BY <2>1, <2>2
<1> DEFINE x == Any(s)
           whole == (S \ R) \cup s
<1>5. x \in s /\ s \subseteq R /\ whole \subseteq S /\ x \in whole /\ whole \ {x} = (S \ R) \cup (s \ {x})
  BY <1>4, AnyIsIn
<1>6. IsFiniteSet(s) /\ IsFiniteSet(whole) /\ IsFiniteSet(s \ {x})
  BY <1>5, FS_Subset
<1>7. SumFunctionOnSet(f, (S \ R) \cup (s \ {x})) = SumFunctionOnSet(f, s \ {x}) + SumFunctionOnSet(f, S \ R)
  BY <1>2, <1>5
<1>8. SumFunctionOnSet(f, whole) = f[x] + SumFunctionOnSet(f, whole \ {x})
  BY <1>5, <1>6, SumWithout
<1>9. SumFunctionOnSet(f, s) = f[x] + SumFunctionOnSet(f, s \ {x})
  BY <1>4, <1>6, SumOfSome
<1>10. SumFunctionOnSet(f, s \ {x}) \in Nat /\ f[x] \in Nat
  BY <1>5, <1>6, SumIsNat
<1>11. SumFunctionOnSet(f, whole) # SumFunctionOnSet(f, s) + SumFunctionOnSet(f, S \ R)
  OBVIOUS
<1>12. SumFunctionOnSet(f, whole) = f[x] + (SumFunctionOnSet(f, s \ {x}) + SumFunctionOnSet(f, S \ R))
  BY <1>5, <1>7, <1>8
<1> HIDE DEF x, whole, Bad
<1> QED  BY <1>3, <1>9, <1>10, <1>11, <1>12

\* Nothing adds up to nothing.
LEMMA SumOfNaught ==
    ASSUME NEW f, NEW S, IsFiniteSet(S), \A x \in S : f[x] = 0
    PROVE  SumFunctionOnSet(f, S) = 0
<1> DEFINE Bad == {s \in SUBSET S : SumFunctionOnSet(f, s) # 0}
<1> SUFFICES ASSUME Bad # {} PROVE FALSE
  OBVIOUS
<1>1. PICK s \in Bad : \A t \in Bad : t \subseteq s => t = s
  <2> HIDE DEF Bad
  <2>1. Bad \in SUBSET SUBSET S
    BY DEF Bad
  <2> QED  BY <2>1, LeastSubset
<1>2. s # {} /\ IsFiniteSet(s)
  BY SumOfNone, FS_Subset
<1>3. SumFunctionOnSet(f, s \ {Any(s)}) = 0 /\ f[Any(s)] = 0
  BY <1>1, <1>2, AnyIsIn
<1> QED  BY <1>2, <1>3, SumOfSome

\* What parts cover is no more than the parts are together.
LEMMA SumOfCovered ==
    ASSUME NEW f, NEW S, IsFiniteSet(S), \A x \in S : f[x] \in Nat,
           NEW U, IsFiniteSet(U), NEW L, \A u \in U : L[u] \in SUBSET S,
           NEW g, \A u \in U : g[u] = SumFunctionOnSet(f, L[u]),
           NEW R, R \subseteq UNION {L[u] : u \in U}
    PROVE  SumFunctionOnSet(f, R) <= SumFunctionOnSet(g, U)
<1> DEFINE Covered(r, v) == r \subseteq UNION {L[u] : u \in v}
           Fits(r, v) == SumFunctionOnSet(f, r) <= SumFunctionOnSet(g, v)
           Bad == {v \in SUBSET U : \E r \in SUBSET S : Covered(r, v) /\ ~Fits(r, v)}
<1>1. SUFFICES ASSUME Bad # {} PROVE FALSE
  <2>1. R \in SUBSET S /\ U \in SUBSET U /\ Covered(R, U)
    OBVIOUS
  <2> HIDE DEF Fits
  <2>2. Bad = {} => Fits(R, U)
    BY <2>1
  <2> HIDE DEF Bad
  <2> QED  BY <2>1, <2>2 DEF Fits
<1>2. PICK v \in Bad : \A w \in Bad : w \subseteq v => w = v
  <2>1. Bad \in SUBSET SUBSET U
    OBVIOUS
  <2> HIDE DEF Bad
  <2> QED  BY <1>1, <2>1, LeastSubset
<1>3. v \in SUBSET U /\ IsFiniteSet(v)
  BY FS_Subset
<1>4. PICK r \in SUBSET S : Covered(r, v) /\ ~Fits(r, v)
  OBVIOUS
<1>5. \A u \in U : g[u] \in Nat
  BY FS_Subset, SumIsNat
<1>6. v # {}
  <2> SUFFICES ASSUME v = {} PROVE FALSE
    OBVIOUS
  <2>1. r = {}
    BY <1>4
  <2> QED  BY <1>4, <2>1, SumOfNone
<1>7. PICK u \in v : TRUE
  BY <1>6
<1>8. v \ {u} \notin Bad
  <2> HIDE DEF Bad
  <2> QED  BY <1>2, <1>7
<1>9. Fits(r \ L[u], v \ {u})
  <2>1. Covered(r \ L[u], v \ {u})
    BY <1>4
  <2> HIDE DEF Covered, Fits
  <2> QED  BY <1>3, <1>8, <2>1
<1> DEFINE rest == r \ L[u]
           here == r \cap L[u]
<1>10. r \ here = rest /\ here \in SUBSET r /\ here \in SUBSET L[u] /\ rest \subseteq S /\ L[u] \in SUBSET S
  BY <1>3
<1>11. IsFiniteSet(r) /\ IsFiniteSet(L[u]) /\ IsFiniteSet(here) /\ IsFiniteSet(rest) /\ IsFiniteSet(v \ {u})
  BY <1>3, <1>10, FS_Subset
<1> HIDE DEF Bad, here, rest
<1>12. SumFunctionOnSet(f, r) = SumFunctionOnSet(f, here) + SumFunctionOnSet(f, rest)
  <2>1. \A y \in r : f[y] \in Nat
    OBVIOUS
  <2> QED  BY <1>10, <1>11, <2>1, SumOfParts
<1>13. SumFunctionOnSet(f, here) <= g[u]
  <2>1. \A y \in L[u] : f[y] \in Nat
    BY <1>10
  <2>2. g[u] = SumFunctionOnSet(f, L[u])
    BY <1>3
  <2> QED  BY <1>10, <1>11, <2>1, <2>2, SumOfPart
<1>14. SumFunctionOnSet(g, v) = g[u] + SumFunctionOnSet(g, v \ {u})
  <2>1. \A y \in v : g[y] \in Nat
    BY <1>3, <1>5
  <2> QED  BY <1>3, <2>1, SumWithout
<1>15. SumFunctionOnSet(f, rest) <= SumFunctionOnSet(g, v \ {u})
  BY <1>9 DEF rest
<1>16. SumFunctionOnSet(f, here) \in Nat /\ SumFunctionOnSet(f, rest) \in Nat
  <2>1. (\A y \in here : f[y] \in Nat) /\ (\A y \in rest : f[y] \in Nat)
    BY <1>10
  <2> QED  BY <1>11, <2>1, SumIsNat
<1>17. SumFunctionOnSet(g, v \ {u}) \in Nat /\ g[u] \in Nat
  <2>1. \A y \in v \ {u} : g[y] \in Nat
    BY <1>3, <1>5
  <2> QED  BY <1>3, <1>5, <1>11, <2>1, SumIsNat
<1>18. ~(SumFunctionOnSet(f, r) <= SumFunctionOnSet(g, v))
  BY <1>4
<1> HIDE DEF Fits, Covered
<1> QED  BY <1>12, <1>13, <1>14, <1>15, <1>16, <1>17, <1>18

\* Parts without a common element are no more together than what holds them.
LEMMA SumOfApart ==
    ASSUME NEW f, NEW S, IsFiniteSet(S), \A x \in S : f[x] \in Nat,
           NEW U, IsFiniteSet(U), NEW L, \A u \in U : L[u] \in SUBSET S,
           \A u, w \in U : u # w => L[u] \cap L[w] = {},
           NEW g, \A u \in U : g[u] = SumFunctionOnSet(f, L[u])
    PROVE  SumFunctionOnSet(g, U) <= SumFunctionOnSet(f, S)
<1> DEFINE Held(v, r) == \A u \in v : L[u] \subseteq r
           Fits(v, r) == SumFunctionOnSet(g, v) <= SumFunctionOnSet(f, r)
           Bad == {v \in SUBSET U : \E r \in SUBSET S : Held(v, r) /\ ~Fits(v, r)}
<1>1. SUFFICES ASSUME Bad # {} PROVE FALSE
  <2>1. S \in SUBSET S /\ U \in SUBSET U /\ Held(U, S)
    OBVIOUS
  <2> HIDE DEF Fits
  <2>2. Bad = {} => Fits(U, S)
    BY <2>1
  <2> HIDE DEF Bad
  <2> QED  BY <2>1, <2>2 DEF Fits
<1>2. PICK v \in Bad : \A w \in Bad : w \subseteq v => w = v
  <2>1. Bad \in SUBSET SUBSET U
    OBVIOUS
  <2> HIDE DEF Bad
  <2> QED  BY <1>1, <2>1, LeastSubset
<1>3. v \in SUBSET U /\ IsFiniteSet(v)
  BY FS_Subset
<1>4. PICK r \in SUBSET S : Held(v, r) /\ ~Fits(v, r)
  OBVIOUS
<1>5. \A u \in U : g[u] \in Nat
  BY FS_Subset, SumIsNat
<1>6. IsFiniteSet(r) /\ \A y \in r : f[y] \in Nat
  BY FS_Subset
<1>7. v # {}
  BY <1>4, <1>6, SumOfNone, SumIsNat
<1>8. PICK u \in v : TRUE
  BY <1>7
<1>9. v \ {u} \notin Bad
  <2> HIDE DEF Bad
  <2> QED  BY <1>2, <1>8
<1> DEFINE rest == r \ L[u]
<1>10. Fits(v \ {u}, rest)
  <2>1. Held(v \ {u}, rest) /\ rest \in SUBSET S
    BY <1>3, <1>4
  <2> HIDE DEF Held, Fits, rest
  <2> QED  BY <1>3, <1>9, <2>1
<1>11. L[u] \in SUBSET r
  BY <1>4
<1>12. SumFunctionOnSet(f, r) = g[u] + SumFunctionOnSet(f, rest)
  <2>1. g[u] = SumFunctionOnSet(f, L[u])
    BY <1>3
  <2> QED  BY <1>6, <1>11, <2>1, SumOfParts
<1>13. SumFunctionOnSet(g, v) = g[u] + SumFunctionOnSet(g, v \ {u})
  <2>1. \A y \in v : g[y] \in Nat
    BY <1>3, <1>5
  <2> QED  BY <1>3, <2>1, SumWithout
<1>14. SumFunctionOnSet(g, v \ {u}) \in Nat /\ SumFunctionOnSet(f, rest) \in Nat /\ g[u] \in Nat
  <2>1. IsFiniteSet(v \ {u}) /\ IsFiniteSet(rest)
    BY <1>3, <1>6, FS_Subset
  <2>2. (\A y \in v \ {u} : g[y] \in Nat) /\ (\A y \in rest : f[y] \in Nat)
    BY <1>3, <1>5, <1>6
  <2> QED  BY <1>3, <1>5, <2>1, <2>2, SumIsNat
<1>15. ~(SumFunctionOnSet(g, v) <= SumFunctionOnSet(f, r))
  BY <1>4
<1>16. SumFunctionOnSet(g, v \ {u}) <= SumFunctionOnSet(f, rest)
  BY <1>10
<1> HIDE DEF Fits, Held, Bad, rest
<1> QED  BY <1>12, <1>13, <1>14, <1>15, <1>16

-----------------------------------------------------------------------------
\* The values of a function at finitely many places are finitely many.
LEMMA FiniteImage ==
    ASSUME NEW f, NEW S, IsFiniteSet(S)
    PROVE  IsFiniteSet({f[x] : x \in S})
<1> DEFINE T == {f[x] : x \in S}
           g == [x \in S |-> f[x]]
<1>1. g \in Surjection(S, T)
  BY DEF Surjection
<1> HIDE DEF g
<1> QED  BY <1>1, FS_Surjection

\* Of finitely many numbers one is least.
LEMMA LeastOfSome ==
    ASSUME NEW S, IsFiniteSet(S), S # {}, \A x \in S : x \in Int
    PROVE  \E x \in S : \A y \in S : x =< y
<1> DEFINE UpTo(x) == {y \in S : y <= x}
           T == {UpTo(x) : x \in S}
<1>0. \A y \in S : y \in Int
  OBVIOUS
<1>1. /\ T \in SUBSET SUBSET S
      /\ T # {}
  OBVIOUS
<1>2. PICK a \in T : \A b \in T : b \subseteq a => b = a
  <2>1. ASSUME NEW U, U = T PROVE \E a \in U : \A b \in U : b \subseteq a => b = a
    <3>1. U \in SUBSET SUBSET S /\ U # {}
      BY <1>1, <2>1
    <3> HIDE DEF T
    <3> QED  BY <3>1, LeastSubset
  <2> HIDE DEF T
  <2> QED  BY <2>1
<1>3. PICK x \in S : a = UpTo(x)
  OBVIOUS
<1>4. ASSUME NEW y \in S, ~(x =< y) PROVE FALSE
  <2>1. UpTo(y) \subseteq UpTo(x) /\ x \in UpTo(x) /\ x \notin UpTo(y)
    <3>1. x \in Int /\ y \in Int
      BY <1>0
    <3>2. \A z \in UpTo(y) : z \in S /\ z \in Int /\ z <= y
      BY <1>0
    <3>3. \A z \in UpTo(y) : z <= x
      <4> HIDE DEF UpTo
      <4> QED  BY <1>4, <3>1, <3>2
    <3>4. \A z \in UpTo(y) : z \in UpTo(x)
      BY <3>2, <3>3
    <3>5. x \in UpTo(x) /\ x \notin UpTo(y)
      BY <1>4, <3>1
    <3> HIDE DEF UpTo
    <3> QED  BY <3>4, <3>5
  <2>2. UpTo(y) \in T
    OBVIOUS
  <2> HIDE DEF T, UpTo
  <2> QED  BY <1>2, <1>3, <2>1, <2>2
<1> QED  BY <1>4

\* And one is greatest.
LEMMA GreatestOfSome ==
    ASSUME NEW S, IsFiniteSet(S), S # {}, \A x \in S : x \in Int
    PROVE  \E x \in S : \A y \in S : x >= y
<1> DEFINE From(x) == {y \in S : y >= x}
           T == {From(x) : x \in S}
<1>0. \A y \in S : y \in Int
  OBVIOUS
<1>1. /\ T \in SUBSET SUBSET S
      /\ T # {}
  OBVIOUS
<1>2. PICK a \in T : \A b \in T : b \subseteq a => b = a
  <2>1. ASSUME NEW U, U = T PROVE \E a \in U : \A b \in U : b \subseteq a => b = a
    <3>1. U \in SUBSET SUBSET S /\ U # {}
      BY <1>1, <2>1
    <3> HIDE DEF T
    <3> QED  BY <3>1, LeastSubset
  <2> HIDE DEF T
  <2> QED  BY <2>1
<1>3. PICK x \in S : a = From(x)
  OBVIOUS
<1>4. ASSUME NEW y \in S, ~(x >= y) PROVE FALSE
  <2>1. From(y) \subseteq From(x) /\ x \in From(x) /\ x \notin From(y)
    <3>1. x \in Int /\ y \in Int
      BY <1>0
    <3>2. \A z \in From(y) : z \in S /\ z \in Int /\ z >= y
      BY <1>0
    <3>3. \A z \in From(y) : z >= x
      <4> HIDE DEF From
      <4> QED  BY <1>4, <3>1, <3>2
    <3>4. \A z \in From(y) : z \in From(x)
      BY <3>2, <3>3
    <3>5. x \in From(x) /\ x \notin From(y)
      BY <1>4, <3>1
    <3> HIDE DEF From
    <3> QED  BY <3>4, <3>5
  <2>2. From(y) \in T
    OBVIOUS
  <2> HIDE DEF T, From
  <2> QED  BY <1>2, <1>3, <2>1, <2>2
<1> QED  BY <1>4
=============================================================================
