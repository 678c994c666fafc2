-------------------------------- MODULE Sums --------------------------------
(***************************************************************************)
(* Facts about SumFunctionOnSet(f, S), the sum of f[x] for the x of S: what *)
(* it is when an element joins S or leaves it, and when f changes.  The    *)
(* induction is that the subsets of a finite set are well founded: if a    *)
(* fact fails for one of them, it fails for one all of whose strict        *)
(* subsets have it.                                                        *)
(***************************************************************************)
EXTENDS FiniteSetTheorems, TLAPS

\* A set of subsets of a finite set that is not empty has an element none of whose
\* strict subsets it has.
LEMMA MinimalSubset ==
  ASSUME NEW S, IsFiniteSet(S), NEW T, T \subseteq SUBSET S, T # {}
  PROVE  \E t \in T : \A u \in SUBSET t : u # t => u \notin T
<1>1. IsWellFoundedOn(StrictSubsetOrdering(S), SUBSET S)
  BY FS_StrictSubsetOrderingWellFounded, FS_FiniteSubsetsOfFinite
<1>2. PICK t \in T : \A u \in T : <<u, t>> \notin StrictSubsetOrdering(S)
  BY <1>1, WFMin
<1>3. \A u \in SUBSET t : u # t => u \notin T
  BY <1>2 DEF StrictSubsetOrdering
<1> QED BY <1>3

\* The function on the subsets of S that the sum is defined by.
Taken(s) == CHOOSE x \in s : TRUE
IsSum(h, f, S) ==
    h = [s \in SUBSET S |-> IF s = {} THEN 0 ELSE f[Taken(s)] + h[s \ {Taken(s)}]]

LEMMA TakenIn == \A s : s # {} => Taken(s) \in s
BY DEF Taken

LEMMA SumIsChosen ==
  ASSUME NEW f, NEW S
  PROVE  SumFunctionOnSet(f, S) = (CHOOSE h : IsSum(h, f, S))[S]
BY DEF SumFunctionOnSet, FoldFunctionOnSet, MapThenFoldSet, IsSum, Taken

\* The same for the subsets of T only.
LEMMA SumRestricts ==
  ASSUME NEW f, NEW S, NEW T \in SUBSET S, NEW h, IsSum(h, f, S)
  PROVE  IsSum([t \in SUBSET T |-> h[t]], f, T)
<1> DEFINE g == [t \in SUBSET T |-> h[t]]
<1>1. ASSUME NEW t \in SUBSET T
      PROVE  h[t] = IF t = {} THEN 0 ELSE f[Taken(t)] + h[t \ {Taken(t)}]
  BY <1>1 DEF IsSum
<1>2. ASSUME NEW t \in SUBSET T PROVE t \ {Taken(t)} \in SUBSET T
  BY <1>2
<1>3. g = [t \in SUBSET T |-> IF t = {} THEN 0 ELSE f[Taken(t)] + g[t \ {Taken(t)}]]
  BY <1>1, <1>2
<1> QED BY <1>3 DEF IsSum

\* There is one such function.
LEMMA SumUnique ==
  ASSUME NEW f, NEW S, IsFiniteSet(S), NEW g, NEW h, IsSum(g, f, S), IsSum(h, f, S)
  PROVE  g = h
<1> DEFINE T == {t \in SUBSET S : g[t] # h[t]}
<1>1. SUFFICES ASSUME T # {} PROVE FALSE
  BY DEF IsSum
<1>2. T \subseteq SUBSET S
  OBVIOUS
<1> HIDE DEF T
<1>3. PICK t \in T : \A u \in SUBSET t : u # t => u \notin T
  BY <1>1, <1>2, MinimalSubset
<1>4. t \in SUBSET S /\ g[t] # h[t]
  BY DEF T
<1>5. t # {}
  BY <1>4 DEF IsSum
<1> DEFINE u == t \ {Taken(t)}
<1>6. u \in SUBSET t /\ u # t
  BY <1>5, TakenIn
<1>7. g[u] = h[u]
  BY <1>3, <1>4, <1>6 DEF T
<1>8. g[t] = f[Taken(t)] + g[u] /\ h[t] = f[Taken(t)] + h[u]
  BY <1>4, <1>5 DEF IsSum
<1> QED BY <1>4, <1>7, <1>8

LEMMA SumExists ==
  ASSUME NEW f, NEW S, IsFiniteSet(S)
  PROVE  \E h : IsSum(h, f, S)
<1> DEFINE T == {t \in SUBSET S : ~ \E h : IsSum(h, f, t)}
<1>1. SUFFICES ASSUME T # {} PROVE FALSE
  OBVIOUS
<1>2. T \subseteq SUBSET S
  OBVIOUS
<1> HIDE DEF T
<1>3. PICK t \in T : \A u \in SUBSET t : u # t => u \notin T
  BY <1>1, <1>2, MinimalSubset
<1>4. t \in SUBSET S /\ IsFiniteSet(t) /\ ~ \E h : IsSum(h, f, t)
  BY <1>2, FS_Subset DEF T
<1> DEFINE Has(u) == CHOOSE h : IsSum(h, f, u)
           Sum(u) == IF u = {} THEN 0 ELSE f[Taken(u)] + Has(u \ {Taken(u)})[u \ {Taken(u)}]
           new == [u \in SUBSET t |-> Sum(u)]
\* the sum of a strict subset is that of its own function
<1>5. ASSUME NEW u \in SUBSET t, u # t PROVE IsSum(Has(u), f, u)
  BY <1>3, <1>4, <1>5 DEF T
<1>6. ASSUME NEW u \in SUBSET t, u # t PROVE Has(u)[u] = Sum(u)
  <2>1. IsSum(Has(u), f, u)
    BY <1>5, <1>6
  <2> HIDE DEF Has
  <2>2. CASE u = {}
    BY <2>1, <2>2 DEF IsSum
  <2>3. CASE u # {}
    <3> DEFINE v == u \ {Taken(u)}
    <3>1. v \in SUBSET u /\ v # u /\ v \in SUBSET t /\ v # t
      BY <2>3, TakenIn
    <3>2. IsSum(Has(u), f, u) /\ IsSum(Has(v), f, v)
      BY <1>5, <1>6, <3>1
    <3>3. IsFiniteSet(v)
      BY <1>4, <3>1, FS_Subset
    <3> HIDE DEF v
    <3> DEFINE g == [w \in SUBSET v |-> Has(u)[w]]
    <3>4. IsSum(g, f, v)
      BY <3>1, <3>2, SumRestricts
    <3> HIDE DEF g
    <3>5. g = Has(v)
      BY <3>2, <3>3, <3>4, SumUnique
    <3>6. [w \in SUBSET v |-> Has(u)[w]] = Has(v)
      BY <3>5 DEF g
    <3>7. Has(v)[v] = Has(u)[v]
      BY <3>6
    <3>8. Has(u)[u] = f[Taken(u)] + Has(u)[v]
      BY <2>3, <3>2 DEF IsSum, v
    <3> QED BY <2>3, <3>7, <3>8 DEF v
  <2> QED BY <2>2, <2>3
<1> HIDE DEF Has
<1>7. ASSUME NEW u \in SUBSET t
      PROVE  new[u] = IF u = {} THEN 0 ELSE f[Taken(u)] + new[u \ {Taken(u)}]
  <2>2. CASE u # {}
    <3> DEFINE v == u \ {Taken(u)}
    <3>1. v \in SUBSET t /\ v # t
      BY <2>2, TakenIn
    <3>2. new[v] = Has(v)[v]
      BY <1>6, <3>1
    <3> QED BY <2>2, <3>2
  <2> QED BY <2>2
<1>8. IsSum(new, f, t)
  BY <1>7 DEF IsSum
<1> QED BY <1>4, <1>8

LEMMA SumUnfolds ==
  ASSUME NEW f, NEW S, IsFiniteSet(S)
  PROVE  SumFunctionOnSet(f, S) =
            IF S = {} THEN 0 ELSE f[Taken(S)] + SumFunctionOnSet(f, S \ {Taken(S)})
<1> DEFINE h == CHOOSE k : IsSum(k, f, S)
           v == S \ {Taken(S)}
           g == CHOOSE k : IsSum(k, f, v)
           r == [t \in SUBSET v |-> h[t]]
<1>1. v \in SUBSET S /\ IsFiniteSet(v)
  BY FS_Subset
<1>2. IsSum(h, f, S)
  BY SumExists
<1> HIDE DEF v
<1>3. IsSum(g, f, v)
  BY <1>1, SumExists
<1>4. h[S] = IF S = {} THEN 0 ELSE f[Taken(S)] + h[v]
  <2> HIDE DEF h
  <2> QED BY <1>2 DEF IsSum, v
<1>5. SumFunctionOnSet(f, S) = h[S] /\ SumFunctionOnSet(f, v) = g[v]
  BY SumIsChosen
<1> HIDE DEF h, g
<1>6. IsSum(r, f, v)
  BY <1>1, <1>2, SumRestricts
<1>7. r[v] = h[v]
  OBVIOUS
<1> HIDE DEF r
<1>8. r = g
  BY <1>1, <1>3, <1>6, SumUnique
<1> QED BY <1>4, <1>5, <1>7, <1>8 DEF v

-----------------------------------------------------------------------------
(* Sums *)

\* Of no elements.
LEMMA SumOfNone == \A f : SumFunctionOnSet(f, {}) = 0
BY SumUnfolds, FS_EmptySet

\* Of integers, and of natural numbers.
LEMMA SumInt ==
  ASSUME NEW f, NEW S, IsFiniteSet(S), \A x \in S : f[x] \in Int
  PROVE  SumFunctionOnSet(f, S) \in Int
<1> DEFINE T == {t \in SUBSET S : SumFunctionOnSet(f, t) \notin Int}
<1>1. SUFFICES ASSUME T # {} PROVE FALSE
  OBVIOUS
<1>2. T \subseteq SUBSET S
  OBVIOUS
<1> HIDE DEF T
<1>3. PICK t \in T : \A u \in SUBSET t : u # t => u \notin T
  BY <1>1, <1>2, MinimalSubset
<1>4. t \in SUBSET S /\ IsFiniteSet(t) /\ SumFunctionOnSet(f, t) \notin Int
  BY FS_Subset DEF T
<1>5. t # {}
  BY <1>4, SumOfNone
<1> DEFINE v == t \ {Taken(t)}
<1>6. Taken(t) \in t /\ v \in SUBSET t /\ v # t
  BY <1>5, TakenIn
<1>7. SumFunctionOnSet(f, v) \in Int
  BY <1>3, <1>4, <1>6 DEF T
<1>8. SumFunctionOnSet(f, t) = f[Taken(t)] + SumFunctionOnSet(f, v)
  BY <1>4, <1>5, SumUnfolds
<1>9. f[Taken(t)] \in Int
  BY <1>4, <1>6
<1> QED BY <1>4, <1>7, <1>8, <1>9

LEMMA SumNat ==
  ASSUME NEW f, NEW S, IsFiniteSet(S), \A x \in S : f[x] \in Nat
  PROVE  SumFunctionOnSet(f, S) \in Nat
<1> DEFINE T == {t \in SUBSET S : SumFunctionOnSet(f, t) \notin Nat}
<1>1. SUFFICES ASSUME T # {} PROVE FALSE
  OBVIOUS
<1>2. T \subseteq SUBSET S
  OBVIOUS
<1> HIDE DEF T
<1>3. PICK t \in T : \A u \in SUBSET t : u # t => u \notin T
  BY <1>1, <1>2, MinimalSubset
<1>4. t \in SUBSET S /\ IsFiniteSet(t) /\ SumFunctionOnSet(f, t) \notin Nat
  BY FS_Subset DEF T
<1>5. t # {}
  BY <1>4, SumOfNone
<1> DEFINE v == t \ {Taken(t)}
<1>6. Taken(t) \in t /\ v \in SUBSET t /\ v # t
  BY <1>5, TakenIn
<1>7. SumFunctionOnSet(f, v) \in Nat
  BY <1>3, <1>4, <1>6 DEF T
<1>8. SumFunctionOnSet(f, t) = f[Taken(t)] + SumFunctionOnSet(f, v)
  BY <1>4, <1>5, SumUnfolds
<1>9. f[Taken(t)] \in Nat
  BY <1>4, <1>6
<1> QED BY <1>4, <1>7, <1>8, <1>9

\* Of functions that agree.
LEMMA SumSame ==
  ASSUME NEW f, NEW g, NEW S, IsFiniteSet(S), \A x \in S : f[x] = g[x]
  PROVE  SumFunctionOnSet(f, S) = SumFunctionOnSet(g, S)
<1> DEFINE T == {t \in SUBSET S : SumFunctionOnSet(f, t) # SumFunctionOnSet(g, t)}
<1>1. SUFFICES ASSUME T # {} PROVE FALSE
  OBVIOUS
<1>2. T \subseteq SUBSET S
  OBVIOUS
<1> HIDE DEF T
<1>3. PICK t \in T : \A u \in SUBSET t : u # t => u \notin T
  BY <1>1, <1>2, MinimalSubset
<1>4. t \in SUBSET S /\ IsFiniteSet(t) /\ SumFunctionOnSet(f, t) # SumFunctionOnSet(g, t)
  BY FS_Subset DEF T
<1>5. t # {}
  BY <1>4, SumOfNone
<1> DEFINE v == t \ {Taken(t)}
<1>6. Taken(t) \in t /\ v \in SUBSET t /\ v # t
  BY <1>5, TakenIn
<1>7. SumFunctionOnSet(f, v) = SumFunctionOnSet(g, v)
  BY <1>3, <1>4, <1>6 DEF T
<1>8. /\ SumFunctionOnSet(f, t) = f[Taken(t)] + SumFunctionOnSet(f, v)
      /\ SumFunctionOnSet(g, t) = g[Taken(t)] + SumFunctionOnSet(g, v)
  BY <1>4, <1>5, SumUnfolds
<1> QED BY <1>4, <1>6, <1>7, <1>8

\* Any element may be taken first.
LEMMA SumRemoves ==
  ASSUME NEW f, NEW S, IsFiniteSet(S), \A x \in S : f[x] \in Int, NEW y \in S
  PROVE  SumFunctionOnSet(f, S) = f[y] + SumFunctionOnSet(f, S \ {y})
<1> DEFINE Sum(t) == SumFunctionOnSet(f, t)
           T == {t \in SUBSET S : \E x \in t : Sum(t) # f[x] + Sum(t \ {x})}
<1>1. SUFFICES ASSUME T # {} PROVE FALSE
  OBVIOUS
<1>2. T \subseteq SUBSET S
  OBVIOUS
<1> HIDE DEF T
<1>3. PICK t \in T : \A u \in SUBSET t : u # t => u \notin T
  BY <1>1, <1>2, MinimalSubset
<1>4. PICK x \in t : Sum(t) # f[x] + Sum(t \ {x})
  BY DEF T
<1>5. t \in SUBSET S /\ IsFiniteSet(t)
  BY FS_Subset DEF T
<1> DEFINE z == Taken(t)
<1>6. z \in t /\ Sum(t) = f[z] + Sum(t \ {z})
  BY <1>4, <1>5, SumUnfolds, TakenIn
<1>7. z # x
  BY <1>4, <1>6
<1> DEFINE both == t \ {x, z}
<1>8. both = (t \ {z}) \ {x} /\ both = (t \ {x}) \ {z}
  OBVIOUS
<1>9. Sum(t \ {z}) = f[x] + Sum(both)
  <2> DEFINE u == t \ {z}
  <2>1. u \in SUBSET t /\ u # t /\ u \in SUBSET S /\ x \in u
    BY <1>5, <1>6, <1>7
  <2>2. Sum(u) = f[x] + Sum(u \ {x})
    BY <1>3, <2>1 DEF T
  <2> QED BY <1>8, <2>2
<1>10. Sum(t \ {x}) = f[z] + Sum(both)
  <2> DEFINE u == t \ {x}
  <2>1. u \in SUBSET t /\ u # t /\ u \in SUBSET S /\ z \in u
    BY <1>4, <1>5, <1>6, <1>7
  <2>2. Sum(u) = f[z] + Sum(u \ {z})
    BY <1>3, <2>1 DEF T
  <2> QED BY <1>8, <2>2
<1>11. f[x] \in Int /\ f[z] \in Int
  BY <1>4, <1>5, <1>6
<1>12. Sum(both) \in Int
  <2>1. both \in SUBSET S /\ IsFiniteSet(both)
    BY <1>5, FS_Subset
  <2> QED BY <2>1, SumInt
<1> HIDE DEF Sum, z, both
<1> QED BY <1>4, <1>6, <1>9, <1>10, <1>11, <1>12

\* Of one element more.
LEMMA SumAdds ==
  ASSUME NEW f, NEW S, IsFiniteSet(S), NEW y, y \notin S, \A x \in S \cup {y} : f[x] \in Int
  PROVE  SumFunctionOnSet(f, S \cup {y}) = f[y] + SumFunctionOnSet(f, S)
<1> DEFINE T == S \cup {y}
<1>1. IsFiniteSet(T) /\ y \in T /\ T \ {y} = S
  BY FS_AddElement
<1>2. \A x \in T : f[x] \in Int
  OBVIOUS
<1> HIDE DEF T
<1>3. SumFunctionOnSet(f, T) = f[y] + SumFunctionOnSet(f, T \ {y})
  BY <1>1, <1>2, SumRemoves
<1> QED BY <1>1, <1>3 DEF T

\* Of one element more, or none: T is S, with y or without it.
LEMMA SumMayAdd ==
  ASSUME NEW S, IsFiniteSet(S), NEW y, y \notin S, NEW T, T = S \/ T = S \cup {y},
         NEW f, NEW g, \A x \in S : f[x] \in Int /\ g[x] = f[x], y \in T => g[y] \in Int
  PROVE  /\ SumFunctionOnSet(f, S) \in Int
         /\ SumFunctionOnSet(g, T) = SumFunctionOnSet(f, S) + (IF y \in T THEN g[y] ELSE 0)
<1>1. SumFunctionOnSet(f, S) \in Int /\ SumFunctionOnSet(g, S) = SumFunctionOnSet(f, S)
  BY SumInt, SumSame
<1>2. CASE T = S
  BY <1>1, <1>2
<1>3. CASE T = S \cup {y}
  <2>1. \A x \in S \cup {y} : g[x] \in Int
    BY <1>3
  <2>2. SumFunctionOnSet(g, S \cup {y}) = g[y] + SumFunctionOnSet(g, S)
    BY <2>1, SumAdds
  <2>3. g[y] \in Int /\ y \in T
    BY <1>3
  <2> QED BY <1>1, <1>3, <2>2, <2>3
<1> QED BY <1>2, <1>3

\* Of a function that has changed in one place.
LEMMA SumChanges ==
  ASSUME NEW f, NEW g, NEW S, IsFiniteSet(S), NEW y \in S, \A x \in S : f[x] \in Int /\ g[x] \in Int,
         \A x \in S \ {y} : f[x] = g[x]
  PROVE  SumFunctionOnSet(g, S) = SumFunctionOnSet(f, S) - f[y] + g[y]
<1> DEFINE T == S \ {y}
<1>1. IsFiniteSet(T)
  BY FS_RemoveElement
<1>2. SumFunctionOnSet(f, T) = SumFunctionOnSet(g, T)
  BY <1>1, SumSame
<1>3. SumFunctionOnSet(f, T) \in Int
  BY <1>1, SumInt
<1>4. /\ SumFunctionOnSet(f, S) = f[y] + SumFunctionOnSet(f, T)
      /\ SumFunctionOnSet(g, S) = g[y] + SumFunctionOnSet(g, T)
  BY SumRemoves
<1> HIDE DEF T
<1> QED BY <1>2, <1>3, <1>4
\* Of a part, for natural numbers: it is no more than that of the whole.
LEMMA SumGrows ==
  ASSUME NEW f, NEW S, IsFiniteSet(S), \A x \in S : f[x] \in Nat, NEW P \in SUBSET S
  PROVE  SumFunctionOnSet(f, P) <= SumFunctionOnSet(f, S)
<1> DEFINE Sum(t) == SumFunctionOnSet(f, t)
           T == {t \in SUBSET S : \E u \in SUBSET t : ~(Sum(u) <= Sum(t))}
<1>1. SUFFICES ASSUME T # {} PROVE FALSE
  OBVIOUS
<1>2. T \subseteq SUBSET S
  OBVIOUS
<1>3. PICK t \in T : \A u \in SUBSET t : u # t => u \notin T
  <2> HIDE DEF T
  <2> QED BY <1>1, <1>2, MinimalSubset
<1>4. PICK u \in SUBSET t : ~(Sum(u) <= Sum(t))
  OBVIOUS
<1>5. \A v \in SUBSET S : Sum(v) \in Nat
  <2> SUFFICES ASSUME NEW v \in SUBSET S PROVE Sum(v) \in Nat
    OBVIOUS
  <2>1. IsFiniteSet(v)
    BY FS_Subset
  <2> QED BY <2>1, SumNat
<1>6. u # t
  BY <1>4, <1>5
<1>7. PICK y \in t : y \notin u
  BY <1>6
<1> DEFINE v == t \ {y}
<1>8. u \in SUBSET v /\ v \in SUBSET S /\ v \in SUBSET t /\ v # t
  BY <1>7
<1>9. Sum(u) <= Sum(v)
  BY <1>3, <1>8
<1>10. IsFiniteSet(t) /\ (\A x \in t : f[x] \in Int) /\ f[y] \in Nat
  BY FS_Subset
<1>11. Sum(t) = f[y] + Sum(v)
  BY <1>10, SumRemoves
<1>12. Sum(u) \in Nat /\ Sum(v) \in Nat /\ Sum(t) \in Nat
  BY <1>5, <1>8
<1> HIDE DEF Sum, v
<1> QED BY <1>4, <1>9, <1>10, <1>11, <1>12

\* Of zeros.
LEMMA SumOfZeros ==
  ASSUME NEW f, NEW S, IsFiniteSet(S), \A x \in S : f[x] = 0
  PROVE  SumFunctionOnSet(f, S) = 0
<1> DEFINE T == {t \in SUBSET S : SumFunctionOnSet(f, t) # 0}
<1>1. SUFFICES ASSUME T # {} PROVE FALSE
  OBVIOUS
<1>2. T \subseteq SUBSET S
  OBVIOUS
<1> HIDE DEF T
<1>3. PICK t \in T : \A u \in SUBSET t : u # t => u \notin T
  BY <1>1, <1>2, MinimalSubset
<1>4. t \in SUBSET S /\ IsFiniteSet(t) /\ SumFunctionOnSet(f, t) # 0
  BY FS_Subset DEF T
<1>5. t # {}
  BY <1>4, SumOfNone
<1>6. PICK y \in t : TRUE
  BY <1>5
<1>7. SumFunctionOnSet(f, t \ {y}) = 0 /\ f[y] = 0 /\ \A x \in t : f[x] \in Int
  BY <1>3, <1>4, <1>6 DEF T
<1> QED BY <1>4, <1>6, <1>7, SumRemoves

\* Of a function that is zero but for one element.
LEMMA SumAtOne ==
  ASSUME NEW f, NEW S, IsFiniteSet(S), NEW y \in S, f[y] \in Int, \A x \in S \ {y} : f[x] = 0
  PROVE  SumFunctionOnSet(f, S) = f[y]
<1>1. \A x \in S : f[x] \in Int
  OBVIOUS
<1>2. SumFunctionOnSet(f, S) = f[y] + SumFunctionOnSet(f, S \ {y})
  BY <1>1, SumRemoves
<1>3. IsFiniteSet(S \ {y})
  BY FS_RemoveElement
<1>4. SumFunctionOnSet(f, S \ {y}) = 0
  BY <1>3, SumOfZeros
<1> QED BY <1>2, <1>4

\* Of functions added up.
LEMMA SumPlus ==
  ASSUME NEW f, NEW g, NEW h, NEW S, IsFiniteSet(S),
         \A x \in S : f[x] \in Int /\ g[x] \in Int /\ h[x] = f[x] + g[x]
  PROVE  SumFunctionOnSet(h, S) = SumFunctionOnSet(f, S) + SumFunctionOnSet(g, S)
<1> DEFINE T == {t \in SUBSET S : SumFunctionOnSet(h, t) # SumFunctionOnSet(f, t) + SumFunctionOnSet(g, t)}
<1>1. SUFFICES ASSUME T # {} PROVE FALSE
  OBVIOUS
<1>2. T \subseteq SUBSET S
  OBVIOUS
<1> HIDE DEF T
<1>3. PICK t \in T : \A u \in SUBSET t : u # t => u \notin T
  BY <1>1, <1>2, MinimalSubset
<1>4. /\ t \in SUBSET S /\ IsFiniteSet(t)
      /\ SumFunctionOnSet(h, t) # SumFunctionOnSet(f, t) + SumFunctionOnSet(g, t)
  BY FS_Subset DEF T
<1>5. t # {}
  <2>1. SumFunctionOnSet(f, {}) = 0 /\ SumFunctionOnSet(g, {}) = 0 /\ SumFunctionOnSet(h, {}) = 0
    BY SumOfNone
  <2> QED BY <1>4, <2>1
<1>6. PICK y \in t : TRUE
  BY <1>5
<1> DEFINE v == t \ {y}
<1>7. SumFunctionOnSet(h, v) = SumFunctionOnSet(f, v) + SumFunctionOnSet(g, v)
  BY <1>3, <1>4, <1>6 DEF T
<1>8. /\ \A x \in t : f[x] \in Int /\ g[x] \in Int /\ h[x] \in Int
      /\ h[y] = f[y] + g[y]
  BY <1>4, <1>6
<1>9. IsFiniteSet(v) /\ v \in SUBSET t
  BY <1>4, FS_RemoveElement
<1>10. /\ SumFunctionOnSet(h, t) = h[y] + SumFunctionOnSet(h, v)
       /\ SumFunctionOnSet(f, t) = f[y] + SumFunctionOnSet(f, v)
       /\ SumFunctionOnSet(g, t) = g[y] + SumFunctionOnSet(g, v)
  BY <1>4, <1>8, SumRemoves
<1>11. SumFunctionOnSet(f, v) \in Int /\ SumFunctionOnSet(g, v) \in Int
  BY <1>8, <1>9, SumInt
<1> HIDE DEF v
<1> QED BY <1>4, <1>6, <1>7, <1>8, <1>10, <1>11

=============================================================================
