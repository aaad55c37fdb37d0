------------------------- MODULE RecursiveFunctions -------------------------
(***************************************************************************)
(* A recursive function f[x \in S] == Body(x, f) is a CHOOSE: its equation *)
(* holds only if some function satisfies it.  Here that is proved for      *)
(* every Body that looks at its function at lower ranks only.  A module    *)
(* instantiates Body by each of its recursive definitions; p stands for    *)
(* what the definition is given besides.                                   *)
(***************************************************************************)
EXTENDS Integers, NaturalsInduction, WellFoundedInduction, TLAPS

CONSTANT Body(_, _, _)

\* f satisfies the equation over S.
Solves(p, S, f) == f = [x \in S |-> Body(p, x, f)]

\* At x of A, Body depends on its function at the elements of A of lower rank.
LooksLower(p, A, rank) ==
  \A x \in A : \A f, g :
    (\A y \in A : rank[y] < rank[x] => f[y] = g[y]) => Body(p, x, f) = Body(p, x, g)

\* The least-number principle: a nonempty set of numbers has a least one.
LEMMA LeastNumber ==
  ASSUME NEW T, T \subseteq Nat, T # {}
  PROVE  \E x \in T : \A y \in T : x <= y
<1> DEFINE R == {p \in Nat \X Nat : p[1] < p[2]}
<1>1. IsWellFoundedOn(R, Nat)
  <2>1. R = OpToRel(<, Nat)
    BY DEF OpToRel
  <2> QED BY <2>1, NatLessThanWellFounded
<1>2. PICK x \in T : \A y \in T : ~(<<y, x>> \in R)
  <2> HIDE DEF R
  <2> QED BY <1>1, WFMin
<1>3. \A y \in T : ~(y < x)
  BY <1>2
<1> QED BY <1>2, <1>3

\* The same by rank: a nonempty set has an element of least rank.
LEMMA LeastRank ==
  ASSUME NEW T, T # {}, NEW rank, \A x \in T : rank[x] \in Nat
  PROVE  \E x \in T : \A y \in T : rank[x] <= rank[y]
<1> DEFINE ranks == {rank[x] : x \in T}
<1>1. PICK n \in ranks : \A m \in ranks : n <= m
  <2>1. ranks \subseteq Nat /\ ranks # {}
    OBVIOUS
  <2> HIDE DEF ranks
  <2> QED BY <2>1, LeastNumber
<1>2. PICK x \in T : rank[x] = n
  BY <1>1
<1> QED BY <1>1, <1>2

\* Two solutions agree where both are defined, if there Body looks lower.
LEMMA Agree ==
  ASSUME NEW p, NEW A, NEW B, NEW f, NEW g, Solves(p, A, f), Solves(p, B, g),
         NEW rank, \A x \in A \cap B : rank[x] \in Nat,
         LooksLower(p, A \cap B, rank)
  PROVE  \A x \in A \cap B : f[x] = g[x]
<1> DEFINE T == {x \in A \cap B : f[x] # g[x]}
<1> SUFFICES ASSUME T # {} PROVE FALSE
  OBVIOUS
<1>1. PICK x \in T : \A y \in T : rank[x] <= rank[y]
  <2>1. \A x \in T : rank[x] \in Nat
    OBVIOUS
  <2> HIDE DEF T
  <2> QED BY <2>1, LeastRank
<1>2. \A y \in A \cap B : rank[y] < rank[x] => f[y] = g[y]
  BY <1>1
<1>3. Body(p, x, f) = Body(p, x, g)
  BY <1>1, <1>2 DEF LooksLower
<1>4. f[x] = Body(p, x, f) /\ g[x] = Body(p, x, g)
  BY <1>1 DEF Solves
<1> QED BY <1>1, <1>3, <1>4

\* Below any rank there is a solution.
LEMMA SolvedBelow ==
  ASSUME NEW p, NEW S, NEW rank, \A x \in S : rank[x] \in Nat, LooksLower(p, S, rank),
         NEW n \in Nat
  PROVE  \E f : Solves(p, {x \in S : rank[x] < n}, f)
<1> DEFINE Low(m) == {x \in S : rank[x] < m}
           T == {m \in Nat : ~\E f : Solves(p, Low(m), f)}
<1> SUFFICES ASSUME T # {} PROVE FALSE
  OBVIOUS
<1>1. PICK m \in T : \A k \in T : m <= k
  <2>1. T \subseteq Nat
    OBVIOUS
  <2> HIDE DEF T
  <2> QED BY <2>1, LeastNumber
<1>2. m # 0
  <2>1. Low(0) = {}
    OBVIOUS
  <2>2. Solves(p, Low(0), [x \in {} |-> x])
    BY <2>1 DEF Solves
  <2> QED BY <1>1, <2>2
<1>3. PICK f : Solves(p, Low(m - 1), f)
  <2>1. m \in Nat
    OBVIOUS
  <2>2. m - 1 \in Nat /\ m - 1 \notin T
    <3> HIDE DEF T
    <3> QED BY <2>1, <1>1, <1>2
  <2> QED BY <2>2
<1> DEFINE g == [x \in Low(m) |-> Body(p, x, f)]
<1>4. \A x \in Low(m - 1) : f[x] = Body(p, x, f)
  BY <1>3 DEF Solves
<1>5. ASSUME NEW x \in Low(m)
      PROVE  Body(p, x, f) = Body(p, x, g)
  <2>1. ASSUME NEW y \in S, rank[y] < rank[x]
        PROVE  f[y] = g[y]
    <3>1. y \in Low(m - 1) /\ y \in Low(m)
      BY <2>1, <1>1, <1>2
    <3> QED BY <3>1, <1>4
  <2> HIDE DEF g
  <2> QED BY <2>1 DEF LooksLower
<1>6. Solves(p, Low(m), g)
  BY <1>5 DEF Solves
<1> QED BY <1>1, <1>6

\* So there is a solution over S.
THEOREM Solved ==
  ASSUME NEW p, NEW S, NEW rank, \A x \in S : rank[x] \in Nat, LooksLower(p, S, rank)
  PROVE  \E f : Solves(p, S, f)
<1> DEFINE Low(m) == {x \in S : rank[x] < m}
           F(m) == CHOOSE f : Solves(p, Low(m), f)
           g == [x \in S |-> F(rank[x] + 1)[x]]
<1>1. \A m \in Nat : Solves(p, Low(m), F(m))
  <2> SUFFICES ASSUME NEW m \in Nat PROVE Solves(p, Low(m), F(m))
    OBVIOUS
  <2>1. \E f : Solves(p, Low(m), f)
    BY SolvedBelow
  <2> HIDE DEF Low
  <2> QED BY <2>1
<1>2. ASSUME NEW m \in Nat, NEW n \in Nat, m <= n, NEW x \in Low(m)
      PROVE  F(m)[x] = F(n)[x]
  <2>1. Low(m) \cap Low(n) = Low(m) /\ Low(m) \subseteq S
    BY <1>2
  <2>2. LooksLower(p, Low(m), rank)
    <3> SUFFICES ASSUME NEW z \in Low(m), NEW f, NEW h,
                        \A y \in Low(m) : rank[y] < rank[z] => f[y] = h[y]
                 PROVE  Body(p, z, f) = Body(p, z, h)
      BY DEF LooksLower
    <3>1. \A y \in S : rank[y] < rank[z] => y \in Low(m)
      OBVIOUS
    <3>2. \A y \in S : rank[y] < rank[z] => f[y] = h[y]
      BY <3>1
    <3> QED BY <3>2 DEF LooksLower
  <2>3. Solves(p, Low(m), F(m)) /\ Solves(p, Low(n), F(n))
    BY <1>1
  <2>4. \A y \in Low(m) \cap Low(n) : rank[y] \in Nat
    OBVIOUS
  <2>5. x \in Low(m) \cap Low(n)
    BY <2>1
  <2> HIDE DEF Low, F
  <2> QED BY <2>1, <2>2, <2>3, <2>4, <2>5, Agree
<1>3. ASSUME NEW x \in S
      PROVE  g[x] = Body(p, x, g)
  <2> DEFINE m == rank[x] + 1
  <2>1. m \in Nat /\ x \in Low(m)
    OBVIOUS
  <2>2. F(m)[x] = Body(p, x, F(m))
    <3>1. F(m) = [y \in Low(m) |-> Body(p, y, F(m))]
      BY <2>1, <1>1 DEF Solves
    <3> HIDE DEF F, Low, m
    <3> QED BY <3>1, <2>1
  <2>3. ASSUME NEW y \in S, rank[y] < rank[x]
        PROVE  F(m)[y] = g[y]
    <3>1. rank[y] + 1 \in Nat /\ rank[y] + 1 <= m /\ y \in Low(rank[y] + 1)
      BY <2>3
    <3>2. F(rank[y] + 1)[y] = F(m)[y]
      BY <3>1, <2>1, <1>2
    <3> QED BY <3>2
  <2>4. Body(p, x, F(m)) = Body(p, x, g)
    <3> HIDE DEF F, g, m
    <3> QED BY <2>3 DEF LooksLower
  <2>5. g[x] = F(m)[x]
    OBVIOUS
  <2> QED BY <2>2, <2>4, <2>5
<1>4. Solves(p, S, g)
  BY <1>3 DEF Solves
<1> QED BY <1>4

\* Each x of S has a set inside S that holds x and, with any element, all its
\* parts, and parts have lower rank; Body looks at its function at parts only.
Covered(S, rank, parts, inside) ==
  \A x \in S : /\ x \in inside[x] /\ inside[x] \subseteq S
               /\ \A y \in inside[x] : parts[y] \subseteq inside[x]
               /\ rank[x] \in Nat /\ \A y \in parts[x] : rank[y] < rank[x]
LooksAt(p, S, parts) ==
  \A x \in S : \A f, g : (\A y \in parts[x] : f[y] = g[y]) => Body(p, x, f) = Body(p, x, g)

\* Then Body looks lower on every set that holds the parts of its elements.
LEMMA LooksWithin ==
  ASSUME NEW p, NEW S, NEW rank, NEW parts, NEW inside,
         Covered(S, rank, parts, inside), LooksAt(p, S, parts),
         NEW A, A \subseteq S, \A y \in A : parts[y] \subseteq A
  PROVE  LooksLower(p, A, rank) /\ \A x \in A : rank[x] \in Nat
<1>1. ASSUME NEW z \in A, NEW f, NEW h, \A y \in A : rank[y] < rank[z] => f[y] = h[y]
      PROVE  Body(p, z, f) = Body(p, z, h)
  <2>1. \A y \in parts[z] : f[y] = h[y]
    BY <1>1 DEF Covered
  <2> QED BY <2>1 DEF LooksAt
<1>2. \A x \in A : rank[x] \in Nat
  BY DEF Covered
<1> QED BY <1>1, <1>2 DEF LooksLower

\* So there is a solution inside each x.
THEOREM SolvedInside ==
  ASSUME NEW p, NEW S, NEW rank, NEW parts, NEW inside,
         Covered(S, rank, parts, inside), LooksAt(p, S, parts), NEW x \in S
  PROVE  \E f : Solves(p, inside[x], f)
<1> DEFINE A == inside[x]
<1>1. A \subseteq S /\ \A y \in A : parts[y] \subseteq A
  BY DEF Covered
<1> HIDE DEF A
<1>2. LooksLower(p, A, rank) /\ \A y \in A : rank[y] \in Nat
  BY <1>1, LooksWithin
<1>3. \E f : Solves(p, A, f)
  BY <1>2, Solved
<1> QED BY <1>3 DEF A

\* And what the solutions inside each x give at x is one solution.
THEOREM SolvedTogether ==
  ASSUME NEW p, NEW S, NEW rank, NEW parts, NEW inside,
         Covered(S, rank, parts, inside), LooksAt(p, S, parts),
         NEW val, \A x \in S : \E f : Solves(p, inside[x], f) /\ val[x] = f[x]
  PROVE  \A x \in S : val[x] = Body(p, x, val)
<1> SUFFICES ASSUME NEW x \in S PROVE val[x] = Body(p, x, val)
  OBVIOUS
<1>1. PICK f : Solves(p, inside[x], f) /\ val[x] = f[x]
  OBVIOUS
<1>2. ASSUME NEW y \in parts[x]
      PROVE  f[y] = val[y]
  <2>1. y \in inside[x] /\ y \in S /\ y \in inside[y]
    BY DEF Covered
  <2>2. PICK g : Solves(p, inside[y], g) /\ val[y] = g[y]
    BY <2>1
  <2> DEFINE B == inside[x]
             C == inside[y]
  <2>3. B \cap C \subseteq S /\ \A z \in B \cap C : parts[z] \subseteq B \cap C
    BY <2>1 DEF Covered
  <2>4. Solves(p, B, f) /\ Solves(p, C, g) /\ y \in B \cap C
    BY <1>1, <2>1, <2>2
  <2> HIDE DEF B, C
  <2> DEFINE A == B \cap C
  <2>5. LooksLower(p, A, rank) /\ \A z \in A : rank[z] \in Nat
    <3>1. A \subseteq S /\ \A z \in A : parts[z] \subseteq A
      BY <2>3
    <3> HIDE DEF A
    <3> QED BY <3>1, LooksWithin
  <2>6. f[y] = g[y]
    BY ONLY <2>4, <2>5, Agree
  <2> QED BY <2>2, <2>6
<1>3. f[x] = Body(p, x, f)
  <2>1. x \in inside[x]
    BY DEF Covered
  <2> QED BY <1>1, <2>1 DEF Solves
<1>4. Body(p, x, f) = Body(p, x, val)
  BY <1>2 DEF LooksAt
<1> QED BY <1>1, <1>3, <1>4

=============================================================================
