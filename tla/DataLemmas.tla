----------------------------- MODULE DataLemmas -----------------------------
(***************************************************************************)
(* Facts about data that several components' proofs rest on: induction     *)
(* over numbers and finite sets, recursion over the subsets of a finite    *)
(* set (the shape of every fold of the community modules), sums over       *)
(* functions and the enumeration of a finite set of numbers in order.      *)
(*                                                                         *)
(* The induction theorems of the library take the induction hypothesis as  *)
(* an operator.  Here it is a set: the numbers, or the subsets, that       *)
(* satisfy it; so every lemma is first-order.                              *)
(***************************************************************************)
EXTENDS Integers, SequencesExt, FiniteSetTheorems, WellFoundedInduction, TLAPS

\* The operator of the folds at the end of this module; its first argument is
\* what it is given besides what is folded.
CONSTANT Op(_, _, _)

-----------------------------------------------------------------------------
(* Induction *)

\* A set of natural numbers that is not empty has a least element.
LEMMA Smallest ==
  ASSUME NEW T \in SUBSET Nat, T # {}
  PROVE  \E x \in T : \A y \in T : x <= y
<1>1. IsWellFoundedOn(OpToRel(<, Nat), Nat)
  BY NatLessThanWellFounded
<1>2. PICK x \in T : \A y \in T : ~ (<<y, x>> \in OpToRel(<, Nat))
  BY <1>1, WFMin
<1>3. \A y \in T : <<y, x>> \notin {ss \in Nat \X Nat : ss[1] < ss[2]}
  BY <1>2 DEF OpToRel
<1>4. \A y \in T : ~(y < x)
  BY <1>3
<1> QED BY <1>4

\* A set that holds 0, and with a number its successor, holds every number.
LEMMA Induct ==
  ASSUME NEW S \in SUBSET Nat, 0 \in S, \A n \in S : n + 1 \in S
  PROVE  S = Nat
<1> SUFFICES ASSUME Nat \ S # {} PROVE FALSE
  OBVIOUS
<1>1. PICK x \in Nat \ S : \A y \in Nat \ S : x <= y
  BY Smallest
<1>2. x - 1 \in Nat /\ x - 1 \notin S
  BY <1>1
<1> QED BY <1>1, <1>2

\* The same below a bound.
LEMMA InductTo ==
  ASSUME NEW m \in Nat, NEW S, 0 \in S,
         \A n \in 0..(m - 1) : n \in S => n + 1 \in S
  PROVE  0..m \subseteq S
<1> DEFINE T == {n \in Nat : n <= m => n \in S}
<1>1. 0 \in T
  OBVIOUS
<1>2. ASSUME NEW n \in T PROVE n + 1 \in T
  <2>1. CASE n + 1 <= m
    <3>1. n \in 0..(m - 1) /\ n \in S
      BY <2>1
    <3> QED BY <3>1
  <2>2. CASE ~(n + 1 <= m)
    BY <2>2
  <2> QED BY <2>1, <2>2
<1>3. T = Nat
  <2> HIDE DEF T
  <2>1. T \in SUBSET Nat
    BY DEF T
  <2> QED BY <1>1, <1>2, <2>1, Induct
<1> QED BY <1>3

\* A family of subsets of a finite set holds them all when it holds each one
\* whose proper subsets it holds.
LEMMA SubsetInduct ==
  ASSUME NEW D, IsFiniteSet(D), NEW G,
         \A s \in SUBSET D : (\A t \in SUBSET s : t # s => t \in G) => s \in G
  PROVE  SUBSET D \subseteq G
<1> DEFINE Bad == {s \in SUBSET D : s \notin G}
           Sizes == {Cardinality(s) : s \in Bad}
<1> SUFFICES ASSUME Bad # {} PROVE FALSE
  OBVIOUS
<1>1. \A s \in SUBSET D : IsFiniteSet(s) /\ Cardinality(s) \in Nat
  BY FS_Subset, FS_CardinalityType
<1>2. Sizes \in SUBSET Nat /\ Sizes # {}
  BY <1>1
<1>3. PICK n \in Sizes : \A m \in Sizes : n <= m
  <2> HIDE DEF Sizes
  <2> QED BY <1>2, Smallest
<1>4. PICK s \in Bad : Cardinality(s) = n
  BY <1>3
<1>5. ASSUME NEW t \in SUBSET s, t # s PROVE t \in G
  <2>1. Cardinality(t) <= Cardinality(s) /\ Cardinality(s) # Cardinality(t)
    BY <1>1, <1>4, <1>5, FS_Subset
  <2>2. t \in Bad => n <= Cardinality(t)
    BY <1>3
  <2>3. t \notin Bad
    BY <2>1, <2>2, <1>1, <1>4
  <2> QED BY <2>3, <1>4
<1> QED BY <1>4, <1>5

\* One of the members of a finite set has the largest key.
LEMMA LargestKey ==
  ASSUME NEW F, IsFiniteSet(F), F # {}, NEW key, \A p \in F : key[p] \in Int
  PROVE  \E o \in F : \A p \in F : key[p] <= key[o]
<1> DEFINE G == {s \in SUBSET F : s # {} => \E o \in s : \A p \in s : key[p] <= key[o]}
<1>1. ASSUME NEW s \in SUBSET F, \A t \in SUBSET s : t # s => t \in G
      PROVE  s \in G
  <2> SUFFICES ASSUME s # {} PROVE \E o \in s : \A p \in s : key[p] <= key[o]
    OBVIOUS
  <2>1. PICK x \in s : TRUE
    OBVIOUS
  <2> DEFINE t == s \ {x}
  <2>2. t \in SUBSET s /\ t # s /\ s = t \cup {x}
    OBVIOUS
  <2>3. t \in G
    BY <1>1, <2>2
  <2>4. \A p \in s : key[p] \in Int
    OBVIOUS
  <2>5. CASE t = {}
    BY <2>2, <2>4, <2>5
  <2>6. CASE t # {}
    <3>1. PICK o \in t : \A p \in t : key[p] <= key[o]
      BY <2>3, <2>6
    <3> HIDE DEF t
    <3>2. CASE key[x] <= key[o]
      BY <2>2, <3>1, <3>2
    <3>3. CASE ~(key[x] <= key[o])
      <4>1. \A p \in t : key[p] <= key[x]
        BY <2>2, <2>4, <3>1, <3>3
      <4> QED BY <2>2, <2>4, <4>1
    <3> QED BY <3>2, <3>3
  <2> QED BY <2>5, <2>6
<1>2. SUBSET F \subseteq G
  <2> HIDE DEF G
  <2> QED BY <1>1, SubsetInduct
<1>3. F \in G
  BY <1>2
<1> QED BY <1>3

\* The members of F whose key is smaller than that of o.
Below(F, key, o) == {p \in F : key[p] < key[o]}

\* In a finite set whose members have different keys there is one for every
\* place in their order.
LEMMA Ranked ==
  ASSUME NEW F, IsFiniteSet(F), NEW key, \A p \in F : key[p] \in Int,
         \A p, q \in F : key[p] = key[q] => p = q
  PROVE  \A i \in 1..Cardinality(F) : \E o \in F : Cardinality(Below(F, key, o)) = i - 1
<1> DEFINE Places(s) == \A i \in 1..Cardinality(s) :
             \E o \in s : Cardinality(Below(s, key, o)) = i - 1
           G == {s \in SUBSET F : Places(s)}
<1>1. ASSUME NEW s \in SUBSET F, \A t \in SUBSET s : t # s => t \in G
      PROVE  s \in G
  <2>1. IsFiniteSet(s) /\ Cardinality(s) \in Nat
    BY FS_Subset, FS_CardinalityType
  <2>2. CASE s = {}
    <3>1. Cardinality(s) = 0
      BY <2>2, FS_EmptySet
    <3> QED BY <3>1
  <2>3. CASE s # {}
    <3>1. PICK x \in s : \A p \in s : key[p] <= key[x]
      BY <2>1, <2>3, LargestKey
    <3> DEFINE t == s \ {x}
    <3>2. t \in SUBSET s /\ t # s
      OBVIOUS
    <3>3. Places(t)
      BY <1>1, <3>2
    <3>4. Cardinality(t) = Cardinality(s) - 1
      BY <2>1, FS_RemoveElement
    <3>5. Below(s, key, x) = t
      BY <3>1 DEF Below
    <3>6. \A o \in t : Below(s, key, o) = Below(t, key, o)
      BY <3>1 DEF Below
    <3> HIDE DEF t
    <3>7. ASSUME NEW i \in 1..Cardinality(s)
          PROVE  \E o \in s : Cardinality(Below(s, key, o)) = i - 1
      <4>1. CASE i = Cardinality(s)
        BY <3>4, <3>5, <4>1
      <4>2. CASE i # Cardinality(s)
        <5>1. i \in 1..Cardinality(t)
          BY <2>1, <3>4, <4>2
        <5>2. PICK o \in t : Cardinality(Below(t, key, o)) = i - 1
          BY <3>3, <5>1
        <5> QED BY <3>2, <3>6, <5>2
      <4> QED BY <4>1, <4>2
    <3> QED BY <3>7
  <2> QED BY <2>2, <2>3
<1>2. SUBSET F \subseteq G
  <2> HIDE DEF G
  <2> QED BY <1>1, SubsetInduct
<1>3. F \in G
  BY <1>2
<1> QED BY <1>3

\* Which place a member has.
LEMMA RankOf ==
  ASSUME NEW F, IsFiniteSet(F), NEW key, \A p \in F : key[p] \in Int, NEW o \in F
  PROVE  Cardinality(Below(F, key, o)) + 1 \in 1..Cardinality(F)
<1>1. Below(F, key, o) \subseteq F \ {o}
  BY DEF Below
<1>2. IsFiniteSet(F \ {o}) /\ Cardinality(F \ {o}) = Cardinality(F) - 1
  BY FS_RemoveElement
<1>3. /\ Cardinality(Below(F, key, o)) <= Cardinality(F \ {o})
      /\ IsFiniteSet(Below(F, key, o))
  BY <1>1, <1>2, FS_Subset
<1>4. Cardinality(F) \in Nat /\ Cardinality(Below(F, key, o)) \in Nat
  BY <1>3, FS_CardinalityType
<1> QED BY <1>2, <1>3, <1>4

\* A smaller key has an earlier place.
LEMMA RankOrder ==
  ASSUME NEW F, IsFiniteSet(F), NEW key, \A p \in F : key[p] \in Int,
         NEW o \in F, NEW q \in F, key[o] < key[q]
  PROVE  Cardinality(Below(F, key, o)) < Cardinality(Below(F, key, q))
<1>1. /\ Below(F, key, o) \subseteq Below(F, key, q) \ {o}
      /\ o \in Below(F, key, q) /\ Below(F, key, q) \subseteq F
  BY DEF Below
<1>2. IsFiniteSet(Below(F, key, q)) /\ Cardinality(Below(F, key, q)) \in Nat
  BY <1>1, FS_Subset, FS_CardinalityType
<1>3. /\ IsFiniteSet(Below(F, key, q) \ {o})
      /\ Cardinality(Below(F, key, q) \ {o}) = Cardinality(Below(F, key, q)) - 1
  BY <1>1, <1>2, FS_RemoveElement
<1>4. /\ IsFiniteSet(Below(F, key, o))
      /\ Cardinality(Below(F, key, o)) <= Cardinality(Below(F, key, q) \ {o})
  BY <1>1, <1>3, FS_Subset
<1>5. Cardinality(Below(F, key, o)) \in Nat
  BY <1>4, FS_CardinalityType
<1> QED BY <1>2, <1>3, <1>4, <1>5

-----------------------------------------------------------------------------
(* Recursion over the subsets of a finite set *)

\* What an iteration over the elements of s, in the order of pick, computes.
Iterates(iter, s, base, pick, step) ==
  iter[s] = IF s = {} THEN base ELSE step[<<pick[s], iter[s \ {pick[s]}]>>]

\* There is a function that satisfies such an equation at every subset.
LEMMA Recursion ==
  ASSUME NEW D, IsFiniteSet(D), NEW Y, NEW base \in Y,
         NEW pick, \A s \in SUBSET D : s # {} => pick[s] \in s,
         NEW step \in [D \X Y -> Y]
  PROVE  \E iter \in [SUBSET D -> Y] :
           \A s \in SUBSET D : Iterates(iter, s, base, pick, step)
<1> DEFINE UpTo(g, n) == \A s \in SUBSET D : Cardinality(s) <= n
                           => Iterates(g, s, base, pick, step)
           N == {n \in Nat : \E g \in [SUBSET D -> Y] : UpTo(g, n)}
           Next(g) == [s \in SUBSET D |->
             IF s = {} THEN base ELSE step[<<pick[s], g[s \ {pick[s]}]>>]]
<1>1. \A s \in SUBSET D : /\ IsFiniteSet(s)
                          /\ Cardinality(s) \in Nat
                          /\ Cardinality(s) <= Cardinality(D)
                          /\ Cardinality(s) = 0 <=> s = {}
  BY FS_Subset, FS_CardinalityType, FS_EmptySet
<1>2. ASSUME NEW s \in SUBSET D, s # {}
      PROVE  /\ s \ {pick[s]} \in SUBSET D
             /\ Cardinality(s \ {pick[s]}) = Cardinality(s) - 1
  BY <1>1, <1>2, FS_RemoveElement
<1>3. ASSUME NEW g \in [SUBSET D -> Y] PROVE Next(g) \in [SUBSET D -> Y]
  <2>1. ASSUME NEW s \in SUBSET D, s # {}
        PROVE  step[<<pick[s], g[s \ {pick[s]}]>>] \in Y
    <3>1. pick[s] \in D /\ g[s \ {pick[s]}] \in Y
      BY <2>1, <1>2
    <3> QED BY <3>1
  <2> QED BY <2>1
<1>4. 0 \in N
  <2> PICK g : g = [s \in SUBSET D |-> base]
    OBVIOUS
  <2>1. g \in [SUBSET D -> Y]
    OBVIOUS
  <2>2. UpTo(g, 0)
    BY <1>1 DEF Iterates
  <2> QED BY <2>1, <2>2
<1>5. ASSUME NEW n \in N PROVE n + 1 \in N
  <2>1. PICK g \in [SUBSET D -> Y] : UpTo(g, n)
    OBVIOUS
  <2> PICK h : h = Next(g)
    OBVIOUS
  <2>2. h \in [SUBSET D -> Y]
    BY <1>3
  <2>3. \A s \in SUBSET D : Cardinality(s) <= n => h[s] = g[s]
    BY <2>1 DEF Iterates
  <2>4. ASSUME NEW s \in SUBSET D, Cardinality(s) <= n + 1
        PROVE  Iterates(h, s, base, pick, step)
    <3>1. CASE s = {}
      BY <3>1 DEF Iterates
    <3>2. CASE s # {}
      <4>1. g[s \ {pick[s]}] = h[s \ {pick[s]}]
        <5>1. /\ s \ {pick[s]} \in SUBSET D
              /\ Cardinality(s \ {pick[s]}) = Cardinality(s) - 1
          BY <3>2, <1>2
        <5>2. n \in Nat /\ Cardinality(s) \in Nat
          BY <1>1
        <5>3. Cardinality(s \ {pick[s]}) <= n
          BY <5>1, <5>2, <2>4
        <5> QED BY <5>1, <5>3, <2>3
      <4>2. h[s] = step[<<pick[s], g[s \ {pick[s]}]>>]
        BY <3>2
      <4> QED BY <4>1, <4>2, <3>2 DEF Iterates
    <3> QED BY <3>1, <3>2
  <2>5. UpTo(h, n + 1)
    BY <2>4
  <2>6. n + 1 \in Nat
    OBVIOUS
  <2> HIDE DEF UpTo
  <2> QED BY <2>2, <2>5, <2>6
<1>6. N = Nat
  <2>1. N \in SUBSET Nat
    OBVIOUS
  <2> HIDE DEF N
  <2> QED BY <1>4, <1>5, <2>1, Induct
<1>7. PICK g \in [SUBSET D -> Y] : UpTo(g, Cardinality(D))
  <2>1. Cardinality(D) \in N
    BY <1>1, <1>6
  <2> QED BY <2>1
<1> QED BY <1>1, <1>7

-----------------------------------------------------------------------------
(* Sums *)

\* The sum of a function's values, as the fold of the community modules.
Total(f) == FoldFunction(+, 0, f)

Pick(s) == CHOOSE x \in s : TRUE

\* The iteration inside the fold.
Sums(f) ==
  CHOOSE iter : iter = [s \in SUBSET DOMAIN f |->
    IF s = {} THEN 0 ELSE f[Pick(s)] + iter[s \ {Pick(s)}]]

LEMMA TotalIsSums ==
  ASSUME NEW f
  PROVE  Total(f) = Sums(f)[DOMAIN f]
BY DEF Total, FoldFunction, FoldFunctionOnSet, MapThenFoldSet, Sums, Pick

\* The equation that defines a sum holds, and sums are integers.
LEMMA SumsDef ==
  ASSUME NEW D, IsFiniteSet(D), NEW f \in [D -> Int], NEW s \in SUBSET D
  PROVE  /\ Sums(f)[s] \in Int
         /\ Sums(f)[s] = IF s = {} THEN 0 ELSE f[Pick(s)] + Sums(f)[s \ {Pick(s)}]
         /\ s # {} => Pick(s) \in s
<1> DEFINE Body(iter) == [t \in SUBSET D |->
             IF t = {} THEN 0 ELSE f[Pick(t)] + iter[t \ {Pick(t)}]]
           pick == [t \in SUBSET D |-> Pick(t)]
           step == [p \in D \X Int |-> f[p[1]] + p[2]]
<1>1. \A t \in SUBSET D : t # {} => Pick(t) \in t
  BY DEF Pick
<1>2. step \in [D \X Int -> Int]
  OBVIOUS
<1>3. \A t \in SUBSET D : t # {} => pick[t] \in t
  BY <1>1
<1>4. PICK iter \in [SUBSET D -> Int] :
        \A t \in SUBSET D : Iterates(iter, t, 0, pick, step)
  <2>1. 0 \in Int
    OBVIOUS
  <2> HIDE DEF pick, step
  <2> QED BY <1>2, <1>3, <2>1, Recursion
<1>5. iter = Body(iter)
  <2>1. ASSUME NEW t \in SUBSET D
        PROVE  iter[t] = IF t = {} THEN 0 ELSE f[Pick(t)] + iter[t \ {Pick(t)}]
    <3>1. CASE t = {}
      BY <1>4, <3>1 DEF Iterates
    <3>2. CASE t # {}
      <4>1. iter[t] = step[<<pick[t], iter[t \ {pick[t]}]>>]
        <5> HIDE DEF pick, step
        <5> QED BY <1>4, <3>2 DEF Iterates
      <4>2. pick[t] = Pick(t) /\ Pick(t) \in D
        BY <3>2, <1>1
      <4>3. iter[t \ {Pick(t)}] \in Int
        OBVIOUS
      <4> QED BY <4>1, <4>2, <4>3, <3>2
    <3> QED BY <3>1, <3>2
  <2> QED BY <2>1
<1>6. Sums(f) = Body(Sums(f))
  <2>1. DOMAIN f = D
    OBVIOUS
  <2>2. \E i : i = Body(i)
    BY <1>5
  <2> QED BY <2>1, <2>2 DEF Sums
<1> PICK it : it = Sums(f)
  OBVIOUS
<1>7. \A t \in SUBSET D :
        it[t] = IF t = {} THEN 0 ELSE f[Pick(t)] + it[t \ {Pick(t)}]
  <2>1. it = Body(it)
    BY <1>6
  <2> QED BY <2>1
<1>8. \A t \in SUBSET D : it[t] \in Int
  <2> DEFINE G == {t \in SUBSET D : it[t] \in Int}
  <2>1. ASSUME NEW t \in SUBSET D, \A u \in SUBSET t : u # t => u \in G
        PROVE  it[t] \in Int
    <3>1. CASE t = {}
      <4>1. it[t] = 0
        BY <1>7, <3>1, Zenon
      <4> QED BY <4>1
    <3>2. CASE t # {}
      <4>1. Pick(t) \in t /\ t \ {Pick(t)} \in SUBSET t /\ t \ {Pick(t)} # t
        BY <1>1, <3>2
      <4>2. it[t \ {Pick(t)}] \in Int
        BY <2>1, <4>1
      <4>3. f[Pick(t)] \in Int
        BY <4>1
      <4>4. it[t] = f[Pick(t)] + it[t \ {Pick(t)}]
        BY <1>7, <3>2
      <4> QED BY <4>2, <4>3, <4>4
    <3> QED BY <3>1, <3>2
  <2>2. \A t \in SUBSET D : (\A u \in SUBSET t : u # t => u \in G) => t \in G
    BY <2>1
  <2>3. SUBSET D \subseteq G
    <3> HIDE DEF G
    <3> QED BY <2>2, SubsetInduct
  <2> QED BY <2>3
<1> QED BY <1>1, <1>7, <1>8

\* The same, by cases, of the function F of all partial sums.
SumsUp(F, f, s) ==
  /\ F[s] \in Int
  /\ s = {} => F[s] = 0
  /\ s # {} => /\ Pick(s) \in s
               /\ F[s] = f[Pick(s)] + F[s \ {Pick(s)}]

LEMMA SumsStep ==
  ASSUME NEW D, IsFiniteSet(D), NEW f \in [D -> Int], NEW s \in SUBSET D
  PROVE  SumsUp(Sums(f), f, s)
<1>1. /\ Sums(f)[s] \in Int
      /\ Sums(f)[s] = IF s = {} THEN 0 ELSE f[Pick(s)] + Sums(f)[s \ {Pick(s)}]
      /\ s # {} => Pick(s) \in s
  BY SumsDef
<1> QED BY <1>1 DEF SumsUp

LEMMA TotalInt ==
  ASSUME NEW D, IsFiniteSet(D), NEW f \in [D -> Int]
  PROVE  Total(f) \in Int
<1>1. DOMAIN f = D /\ D \in SUBSET D
  OBVIOUS
<1>2. Sums(f)[D] \in Int
  BY <1>1, SumsDef
<1> QED BY <1>1, <1>2, TotalIsSums

\* A sum changes by what one entry changes by.
LEMMA TotalUpdate ==
  ASSUME NEW D, IsFiniteSet(D), NEW f \in [D -> Int], NEW g \in [D -> Int],
         NEW x \in D, \A y \in D \ {x} : g[y] = f[y]
  PROVE  Total(g) = Total(f) + g[x] - f[x]
<1> PICK v \in Int : v = g[x]
  OBVIOUS
<1>1. g \in [D -> Int] /\ g[x] = v /\ \A y \in D \ {x} : g[y] = f[y]
  OBVIOUS
<1> PICK F : F = Sums(f)
  OBVIOUS
<1> PICK H : H = Sums(g)
  OBVIOUS
<1>2. ASSUME NEW s \in SUBSET D
      PROVE  /\ F[s] \in Int /\ H[s] \in Int
             /\ s = {} => F[s] = 0 /\ H[s] = 0
             /\ s # {} => /\ Pick(s) \in s
                          /\ F[s] = f[Pick(s)] + F[s \ {Pick(s)}]
                          /\ H[s] = g[Pick(s)] + H[s \ {Pick(s)}]
  <2>1. g \in [D -> Int]
    BY <1>1
  <2>2. SumsUp(F, f, s)
    BY SumsStep
  <2>3. SumsUp(H, g, s)
    BY <2>1, SumsStep
  <2> QED BY <2>2, <2>3 DEF SumsUp
<1> DEFINE G == {s \in SUBSET D : H[s] = F[s] + (IF x \in s THEN v - f[x] ELSE 0)}
<1>3. ASSUME NEW s \in SUBSET D, \A t \in SUBSET s : t # s => t \in G
      PROVE  s \in G
  <2>1. CASE s = {}
    <3>1. F[s] = 0 /\ H[s] = 0 /\ x \notin s
      BY <1>2, <2>1
    <3>2. H[s] = F[s] + (IF x \in s THEN v - f[x] ELSE 0)
      BY <3>1
    <3> QED BY <3>2
  <2>2. CASE s # {}
    <3> PICK y : y = Pick(s)
      OBVIOUS
    <3> PICK r : r = s \ {y}
      OBVIOUS
    <3>1. y \in s /\ r \in SUBSET D /\ y \notin r
      BY <1>2, <2>2
    <3>2. F[s] = f[y] + F[r] /\ H[s] = g[y] + H[r]
      BY <1>2, <2>2
    <3>3. r \in G
      BY <1>3, <3>1
    <3>4. /\ F[r] \in Int /\ F[s] \in Int /\ H[r] \in Int /\ H[s] \in Int
          /\ f[y] \in Int /\ f[x] \in Int
      BY <1>2, <3>1
    <3>5. CASE y = x
      <4>1. x \in s /\ x \notin r /\ g[y] = v
        BY <1>1, <3>1, <3>5
      <4> QED BY <4>1, <3>2, <3>3, <3>4, <3>5
    <3>6. CASE y # x
      <4>1. (x \in s <=> x \in r) /\ g[y] = f[y]
        BY <1>1, <3>1, <3>6
      <4> QED BY <4>1, <3>2, <3>3, <3>4
    <3> QED BY <3>5, <3>6
  <2> QED BY <2>1, <2>2
<1>4. SUBSET D \subseteq G
  <2> HIDE DEF G
  <2> QED BY <1>3, SubsetInduct
<1>5. H[D] = F[D] + v - f[x] /\ F[D] \in Int
  BY <1>2, <1>4
<1>6. DOMAIN f = D /\ DOMAIN g = D
  BY <1>1
<1> QED BY <1>5, <1>6, TotalIsSums

\* Sums keep the order of what they sum.
LEMMA TotalMonotone ==
  ASSUME NEW D, IsFiniteSet(D), NEW f \in [D -> Int], NEW g \in [D -> Int],
         \A x \in D : f[x] <= g[x]
  PROVE  Total(f) <= Total(g)
<1> PICK F : F = Sums(f)
  OBVIOUS
<1> PICK H : H = Sums(g)
  OBVIOUS
<1>2. ASSUME NEW s \in SUBSET D
      PROVE  /\ F[s] \in Int /\ H[s] \in Int
             /\ s = {} => F[s] = 0 /\ H[s] = 0
             /\ s # {} => /\ Pick(s) \in s
                          /\ F[s] = f[Pick(s)] + F[s \ {Pick(s)}]
                          /\ H[s] = g[Pick(s)] + H[s \ {Pick(s)}]
  <2>1. SumsUp(F, f, s)
    BY SumsStep
  <2>2. SumsUp(H, g, s)
    BY SumsStep
  <2> QED BY <2>1, <2>2 DEF SumsUp
<1> DEFINE G == {s \in SUBSET D : F[s] <= H[s]}
<1>3. ASSUME NEW s \in SUBSET D, \A t \in SUBSET s : t # s => t \in G
      PROVE  s \in G
  <2>1. CASE s = {}
    <3>1. F[s] = 0 /\ H[s] = 0
      BY <1>2, <2>1
    <3> QED BY <3>1, <2>1
  <2>2. CASE s # {}
    <3> PICK y : y = Pick(s)
      OBVIOUS
    <3> PICK r : r = s \ {y}
      OBVIOUS
    <3>1. y \in s /\ r \in SUBSET D /\ y \notin r
      BY <1>2, <2>2
    <3>2. F[s] = f[y] + F[r] /\ H[s] = g[y] + H[r]
      BY <1>2, <2>2
    <3>3. r \in G
      BY <1>3, <3>1
    <3>4. /\ F[r] \in Int /\ H[r] \in Int
          /\ f[y] \in Int /\ g[y] \in Int /\ f[y] <= g[y]
      BY <1>2, <3>1
    <3> QED BY <3>2, <3>3, <3>4
  <2> QED BY <2>1, <2>2
<1>4. SUBSET D \subseteq G
  <2> HIDE DEF G
  <2> QED BY <1>3, SubsetInduct
<1>5. F[D] <= H[D]
  BY <1>4
<1> QED BY <1>5, TotalIsSums

\* Nothing sums to nothing.
LEMMA TotalZero ==
  ASSUME NEW D, IsFiniteSet(D), NEW f \in [D -> Int], \A x \in D : f[x] = 0
  PROVE  Total(f) = 0
<1> PICK F : F = Sums(f)
  OBVIOUS
<1>2. ASSUME NEW s \in SUBSET D
      PROVE  /\ s = {} => F[s] = 0
             /\ s # {} => /\ Pick(s) \in s
                          /\ F[s] = f[Pick(s)] + F[s \ {Pick(s)}]
  <2>1. SumsUp(F, f, s)
    BY SumsStep
  <2> QED BY <2>1 DEF SumsUp
<1> DEFINE G == {s \in SUBSET D : F[s] = 0}
<1>3. ASSUME NEW s \in SUBSET D, \A t \in SUBSET s : t # s => t \in G
      PROVE  s \in G
  <2>1. CASE s = {}
    BY <1>2, <2>1
  <2>2. CASE s # {}
    <3> PICK y : y = Pick(s)
      OBVIOUS
    <3> PICK r : r = s \ {y}
      OBVIOUS
    <3>1. y \in s /\ r \in SUBSET D /\ y \notin r
      BY <1>2, <2>2
    <3>2. F[s] = f[y] + F[r] /\ f[y] = 0
      BY <1>2, <2>2, <3>1
    <3>3. r \in G
      BY <1>3, <3>1
    <3> QED BY <3>2, <3>3
  <2> QED BY <2>1, <2>2
<1>4. SUBSET D \subseteq G
  <2> HIDE DEF G
  <2> QED BY <1>3, SubsetInduct
<1>5. F[D] = 0
  BY <1>4
<1> QED BY <1>5, TotalIsSums

-----------------------------------------------------------------------------
(* Folds over sequences *)

Highest(s) == CHOOSE x \in s : \A y \in s : x >= y

\* g satisfies the equation of FoldLeft at the indices s of q.
FoldsAt(env, g, base, q, s) ==
  g[s] = IF s = {} THEN base ELSE Op(env, g[s \ {Highest(s)}], q[Highest(s)])

\* The iteration inside FoldLeft(LAMBDA x, y : Op(env, x, y), base, q).
Iteration(env, base, q) ==
  CHOOSE g : g = [s \in SUBSET DOMAIN q |->
    IF s = {} THEN base ELSE Op(env, g[s \ {Highest(s)}], q[Highest(s)])]

\* What the first k elements of q make of base.
After(env, base, q, k) == Iteration(env, base, q)[1..k]

LEMMA LastOfInterval ==
  ASSUME NEW k \in Nat
  PROVE  Highest(1..(k + 1)) = k + 1 /\ (1..(k + 1)) \ {k + 1} = 1..k
<1>1. \A x \in 1..(k + 1) : (\A y \in 1..(k + 1) : x >= y) <=> x = k + 1
  OBVIOUS
<1> QED BY <1>1 DEF Highest

LEMMA LastMember ==
  ASSUME NEW n \in Nat, NEW s \in SUBSET (1..n), s # {}
  PROVE  Highest(s) \in s
<1>1. PICK m \in {n - x : x \in s} : \A y \in {n - x : x \in s} : m <= y
  <2>1. \A x \in s : x \in 1..n /\ n - x \in Nat
    OBVIOUS
  <2>2. {n - x : x \in s} \in SUBSET Nat /\ {n - x : x \in s} # {}
    BY <2>1
  <2> QED BY <2>2, Smallest
<1>2. PICK x \in s : m = n - x
  BY <1>1
<1>3. ASSUME NEW y \in s PROVE x >= y
  <2>1. n - x <= n - y
    BY <1>1, <1>2
  <2>2. x \in 1..n /\ y \in 1..n
    OBVIOUS
  <2> QED BY <2>1, <2>2
<1> QED BY <1>3 DEF Highest

LEMMA FoldExists ==
  ASSUME NEW n \in Nat, NEW env, NEW base, NEW q, DOMAIN q = 1..n
  PROVE  \A s \in SUBSET (1..n) : FoldsAt(env, Iteration(env, base, q), base, q, s)
<1> DEFINE D == 1..n
           UpTo(g, k) == \A s \in SUBSET D : Cardinality(s) <= k => FoldsAt(env, g, base, q, s)
           N == {k \in Nat : \E g : UpTo(g, k)}
           Step(g) == [s \in SUBSET D |->
             IF s = {} THEN base ELSE Op(env, g[s \ {Highest(s)}], q[Highest(s)])]
<1>0. IsFiniteSet(D)
  BY FS_Interval
<1>1. \A s \in SUBSET D : /\ IsFiniteSet(s)
                          /\ Cardinality(s) \in Nat
                          /\ Cardinality(s) <= Cardinality(D)
                          /\ Cardinality(s) = 0 <=> s = {}
  BY <1>0, FS_Subset, FS_CardinalityType, FS_EmptySet
<1>2. ASSUME NEW s \in SUBSET D, s # {}
      PROVE  /\ s \ {Highest(s)} \in SUBSET D
             /\ Cardinality(s \ {Highest(s)}) = Cardinality(s) - 1
  BY <1>1, <1>2, FS_RemoveElement, LastMember
<1>3. 0 \in N
  <2> PICK g : g = [s \in SUBSET D |-> base]
    OBVIOUS
  <2>1. UpTo(g, 0)
    BY <1>1 DEF FoldsAt
  <2> QED BY <2>1
<1>4. ASSUME NEW k \in N PROVE k + 1 \in N
  <2>1. PICK g : UpTo(g, k)
    OBVIOUS
  <2> PICK h : h = Step(g)
    OBVIOUS
  <2>2. \A s \in SUBSET D : Cardinality(s) <= k => h[s] = g[s]
    BY <2>1 DEF FoldsAt
  <2>3. ASSUME NEW s \in SUBSET D, Cardinality(s) <= k + 1
        PROVE  FoldsAt(env, h, base, q, s)
    <3>1. CASE s = {}
      BY <3>1 DEF FoldsAt
    <3>2. CASE s # {}
      <4>1. g[s \ {Highest(s)}] = h[s \ {Highest(s)}]
        <5>1. /\ s \ {Highest(s)} \in SUBSET D
              /\ Cardinality(s \ {Highest(s)}) = Cardinality(s) - 1
          BY <3>2, <1>2
        <5>2. k \in Nat /\ Cardinality(s) \in Nat
          BY <1>1
        <5>3. Cardinality(s \ {Highest(s)}) <= k
          BY <5>1, <5>2, <2>3
        <5> QED BY <5>1, <5>3, <2>2
      <4>2. h[s] = Op(env, g[s \ {Highest(s)}], q[Highest(s)])
        BY <3>2
      <4> QED BY <4>1, <4>2, <3>2 DEF FoldsAt
    <3> QED BY <3>1, <3>2
  <2>4. UpTo(h, k + 1)
    BY <2>3
  <2>5. k + 1 \in Nat
    OBVIOUS
  <2> HIDE DEF UpTo
  <2> QED BY <2>4, <2>5
<1>5. N = Nat
  <2>1. N \in SUBSET Nat
    OBVIOUS
  <2> HIDE DEF N
  <2> QED BY <1>3, <1>4, <2>1, Induct
<1>6. PICK g : UpTo(g, Cardinality(D))
  <2>1. Cardinality(D) \in N
    BY <1>1, <1>5
  <2> QED BY <2>1
<1> PICK h : h = Step(g)
  OBVIOUS
<1>7. \A s \in SUBSET D : h[s] = g[s]
  BY <1>1, <1>6 DEF FoldsAt
<1>8. h = Step(h)
  <2>1. \A s \in SUBSET D : s # {} => h[s \ {Highest(s)}] = g[s \ {Highest(s)}]
    BY <1>7
  <2> QED BY <2>1
<1> PICK it : it = Iteration(env, base, q)
  OBVIOUS
<1>9. it = Step(it)
  BY <1>8 DEF Iteration
<1>10. \A s \in SUBSET D : FoldsAt(env, it, base, q, s)
  BY <1>9 DEF FoldsAt
<1> QED BY <1>10

\* One element after another.
Steps(env, base, q, n) ==
  /\ After(env, base, q, 0) = base
  /\ \A k \in 0..(n - 1) : After(env, base, q, k + 1) = Op(env, After(env, base, q, k), q[k + 1])

LEMMA AfterOne ==
  ASSUME NEW n \in Nat, NEW env, NEW base, NEW q, DOMAIN q = 1..n
  PROVE  Steps(env, base, q, n)
<1> PICK g : g = Iteration(env, base, q)
  OBVIOUS
<1>1. \A s \in SUBSET (1..n) : FoldsAt(env, g, base, q, s)
  BY FoldExists
<1>2. 1..0 = {} /\ {} \in SUBSET (1..n)
  OBVIOUS
<1>3. g[{}] = base
  BY <1>1, <1>2 DEF FoldsAt
<1>4. ASSUME NEW k \in 0..(n - 1)
      PROVE  g[1..(k + 1)] = Op(env, g[1..k], q[k + 1])
  <2>0. k \in Nat /\ k + 1 <= n /\ 1 \in 1..(k + 1)
    OBVIOUS
  <2>1. 1..(k + 1) \in SUBSET (1..n) /\ 1..(k + 1) # {}
    <3>1. \A x \in 1..(k + 1) : x \in 1..n
      BY <2>0
    <3> QED BY <2>0, <3>1
  <2>2. FoldsAt(env, g, base, q, 1..(k + 1))
    BY <1>1, <2>1
  <2>3. Highest(1..(k + 1)) = k + 1 /\ (1..(k + 1)) \ {k + 1} = 1..k
    BY <2>0, LastOfInterval
  <2> QED BY <2>1, <2>2, <2>3 DEF FoldsAt
<1> QED BY <1>2, <1>3, <1>4 DEF After, Steps

\* A fold over a longer sequence goes on from the fold over the shorter one.
LEMMA AfterAppend ==
  ASSUME NEW n \in Nat, NEW env, NEW base, NEW q, DOMAIN q = 1..n,
         NEW r, DOMAIN r = 1..(n + 1), \A k \in 1..n : r[k] = q[k]
  PROVE  After(env, base, r, n + 1) = Op(env, After(env, base, q, n), r[n + 1])
<1>1. /\ After(env, base, q, 0) = base
      /\ \A k \in 0..(n - 1) : After(env, base, q, k + 1) = Op(env, After(env, base, q, k), q[k + 1])
  <2>1. Steps(env, base, q, n)
    BY AfterOne
  <2> QED BY <2>1 DEF Steps
<1>2. /\ After(env, base, r, 0) = base
      /\ \A k \in 0..n : After(env, base, r, k + 1) = Op(env, After(env, base, r, k), r[k + 1])
  <2>1. n + 1 \in Nat /\ (n + 1) - 1 = n
    OBVIOUS
  <2>2. Steps(env, base, r, n + 1)
    BY <2>1, AfterOne
  <2> QED BY <2>1, <2>2 DEF Steps
<1> DEFINE S == {k \in 0..n : After(env, base, r, k) = After(env, base, q, k)}
<1>3. 0 \in S
  BY <1>1, <1>2
<1>4. ASSUME NEW k \in 0..(n - 1), k \in S PROVE k + 1 \in S
  <2>1. k + 1 \in 1..n /\ k \in 0..n
    OBVIOUS
  <2>2. After(env, base, r, k) = After(env, base, q, k)
    BY <1>4
  <2> QED BY <1>1, <1>2, <2>1, <2>2
<1>5. 0..n \subseteq S
  <2> HIDE DEF S
  <2> QED BY <1>3, <1>4, InductTo
<1>6. After(env, base, r, n) = After(env, base, q, n)
  BY <1>5
<1> QED BY <1>2, <1>6
=============================================================================
