--------------------------- MODULE NaturalsLemmas ---------------------------
(***************************************************************************)
(* What the proofs need of the natural numbers: a set of them that is not  *)
(* empty has a least member, one that is bounded has a greatest, and a set *)
(* that holds 0 and the successor of each of its members holds them all.   *)
(* Induction is stated over a set, which an argument by contradiction      *)
(* builds out of the property it is about.                                 *)
(***************************************************************************)
EXTENDS Integers, FiniteSetsExt, TLAPS, WellFoundedInduction

Below == {ss \in Nat \X Nat : ss[1] < ss[2]}

LEMMA BelowIsWellFounded == IsWellFoundedOn(Below, Nat)
  BY NatLessThanWellFounded, Zenon DEF OpToRel, Below

\* The least number principle.
LEMMA LeastNumber ==
  ASSUME NEW T \in SUBSET Nat, T # {}
  PROVE  \E x \in T : \A y \in T : x <= y
  <1>1. PICK x \in T : \A y \in T : ~(<<y, x>> \in Below)
    BY BelowIsWellFounded, WFMin
  <1>2. ASSUME NEW y \in T PROVE x <= y
    <2>1. x \in Nat /\ y \in Nat /\ <<y, x>> \notin Below
      BY <1>1
    <2>2. <<y, x>> \in Nat \X Nat
      BY <2>1
    <2>3. y < x => <<y, x>> \in Below
      BY <2>2 DEF Below
    <2> QED BY <2>1, <2>3
  <1> QED BY <1>2

\* Induction.
LEMMA SetInduction ==
  ASSUME NEW P \in SUBSET Nat, 0 \in P, \A n \in Nat : n \in P => n + 1 \in P
  PROVE  P = Nat
  <1> SUFFICES ASSUME Nat \ P # {} PROVE FALSE
    OBVIOUS
  <1>1. PICK x \in Nat \ P : \A y \in Nat \ P : x <= y
    BY LeastNumber
  <1>2. x # 0 /\ x - 1 \in Nat
    BY <1>1
  <1>3. x - 1 \in P
    BY <1>1, <1>2
  <1>4. x - 1 + 1 = x
    BY <1>1
  <1> QED BY <1>1, <1>2, <1>3, <1>4

\* Max of a bounded set is a member of it that no other exceeds.
LEMMA MaxOfBounded ==
  ASSUME NEW S \in SUBSET Nat, S # {}, NEW b \in Nat, \A y \in S : y <= b
  PROVE  Max(S) \in S /\ \A y \in S : y <= Max(S)
  <1> DEFINE T == {n \in Nat : \A y \in S : y <= n}
  <1>1. PICK n \in T : \A m \in T : n <= m
    <2>1. T \in SUBSET Nat /\ b \in T
      OBVIOUS
    <2> HIDE DEF T
    <2> QED BY <2>1, LeastNumber
  <1>2. n \in S
    <2> SUFFICES ASSUME n \notin S PROVE FALSE
      OBVIOUS
    <2>1. \A y \in S : y <= n /\ y # n /\ y \in Nat
      BY <1>1
    <2>2. \A y \in S : y <= n - 1 /\ y \in Nat
      BY <1>1, <2>1
    <2>3. n - 1 \in Nat
      <3>1. PICK y \in S : TRUE
        OBVIOUS
      <3> QED BY <1>1, <2>2, <3>1
    <2>4. n - 1 \in T
      BY <2>2, <2>3
    <2> QED BY <1>1, <2>4
  <1>3. \A y \in S : n >= y
    BY <1>1
  <1>4. \E x \in S : \A y \in S : x >= y
    BY <1>2, <1>3
  <1>5. Max(S) \in S /\ \A y \in S : Max(S) >= y
    BY <1>4 DEF Max
  <1> QED BY <1>5

\* Min of a set that is not empty is a member of it that none is below.
LEMMA MinOfNaturals ==
  ASSUME NEW S \in SUBSET Nat, S # {}
  PROVE  Min(S) \in S /\ \A y \in S : Min(S) <= y
  <1>1. \E x \in S : \A y \in S : x <= y
    BY LeastNumber
  <1> QED BY <1>1 DEF Min

-----------------------------------------------------------------------------
(* Definition by recursion: F is a function, so that a proof can name one. *)

\* g follows the recursion up to k.
Follows(X, x0, F, k, g) ==
  /\ g \in [0..k -> X] /\ g[0] = x0
  /\ \A n \in 0..(k - 1) : g[n + 1] = F[<<g[n], n + 1>>]

LEMMA FollowsExists ==
  ASSUME NEW X, NEW x0 \in X, NEW F \in [X \X Nat -> X]
  PROVE  \A k \in Nat : \E g : Follows(X, x0, F, k, g)
  <1> DEFINE P == {k \in Nat : \E g : Follows(X, x0, F, k, g)}
  <1>1. 0 \in P
    <2>1. Follows(X, x0, F, 0, [n \in 0..0 |-> x0])
      BY DEF Follows
    <2> QED BY <2>1
  <1>2. ASSUME NEW k \in Nat, k \in P PROVE k + 1 \in P
    <2>1. PICK g : Follows(X, x0, F, k, g)
      BY <1>2
    <2>2. g \in [0..k -> X] /\ k \in 0..k /\ g[k] \in X /\ <<g[k], k + 1>> \in X \X Nat
      BY <2>1 DEF Follows
    <2> DEFINE h == [n \in 0..(k + 1) |-> IF n <= k THEN g[n] ELSE F[<<g[k], k + 1>>]]
    <2>3. h \in [0..(k + 1) -> X]
      <3>1. ASSUME NEW n \in 0..(k + 1) PROVE h[n] \in X
        BY <2>2
      <3> QED BY <3>1
    <2>4. h[0] = x0 /\ h[k + 1] = F[<<g[k], k + 1>>] /\ \A n \in 0..k : h[n] = g[n]
      BY <2>1 DEF Follows
    <2>5. ASSUME NEW n \in 0..k PROVE h[n + 1] = F[<<h[n], n + 1>>]
      <3>1. CASE n = k
        BY <2>2, <2>4, <3>1
      <3>2. CASE n # k
        <4>1. n \in 0..(k - 1) /\ n + 1 \in 0..k
          BY <3>2
        <4> QED BY <2>1, <2>4, <4>1 DEF Follows
      <3> QED BY <3>1, <3>2
    <2>6. k + 1 - 1 = k
      OBVIOUS
    <2> HIDE DEF h
    <2>7. Follows(X, x0, F, k + 1, h)
      BY <2>3, <2>4, <2>5, <2>6 DEF Follows
    <2> QED BY <2>7
  <1> HIDE DEF P
  <1>3. P = Nat
    <2>1. P \in SUBSET Nat
      BY DEF P
    <2> QED BY <1>1, <1>2, <2>1, SetInduction
  <1> QED BY <1>3 DEF P

LEMMA FollowsUnique ==
  ASSUME NEW X, NEW x0 \in X, NEW F \in [X \X Nat -> X],
         NEW k \in Nat, NEW g, Follows(X, x0, F, k, g),
         NEW l \in Nat, NEW h, Follows(X, x0, F, l, h)
  PROVE  \A n \in Nat : n <= k /\ n <= l => g[n] = h[n]
  <1> DEFINE P == {n \in Nat : n <= k /\ n <= l => g[n] = h[n]}
  <1>1. 0 \in P
    BY DEF Follows
  <1>2. ASSUME NEW n \in Nat, n \in P PROVE n + 1 \in P
    <2> SUFFICES ASSUME n + 1 <= k, n + 1 <= l PROVE g[n + 1] = h[n + 1]
      OBVIOUS
    <2>1. n \in 0..(k - 1) /\ n \in 0..(l - 1) /\ g[n] = h[n]
      BY <1>2
    <2> QED BY <2>1 DEF Follows
  <1>3. P \in SUBSET Nat
    OBVIOUS
  <1> HIDE DEF P
  <1>4. P = Nat
    BY <1>1, <1>2, <1>3, SetInduction
  <1> QED BY <1>4 DEF P

\* f is what the recursion defines.
Defines(X, x0, F, f) ==
  /\ f \in [Nat -> X] /\ f[0] = x0
  /\ \A n \in Nat : f[n + 1] = F[<<f[n], n + 1>>]

\* A value to start from and a function to step with define a function on the
\* natural numbers.
LEMMA RecursionExists ==
  ASSUME NEW X, NEW x0 \in X, NEW F \in [X \X Nat -> X]
  PROVE  \E f : Defines(X, x0, F, f)
  <1> DEFINE G(n) == CHOOSE g : Follows(X, x0, F, n, g)
             f == [n \in Nat |-> G(n)[n]]
  <1>1. ASSUME NEW n \in Nat PROVE Follows(X, x0, F, n, G(n))
    BY FollowsExists
  <1> HIDE DEF G
  <1>2. \A n \in Nat : f[n] \in X
    BY <1>1 DEF Follows
  <1>3. f[0] = x0
    BY <1>1 DEF Follows
  <1>4. ASSUME NEW n \in Nat PROVE f[n + 1] = F[<<f[n], n + 1>>]
    <2>1. n + 1 \in Nat /\ n \in 0..(n + 1 - 1) /\ n <= n /\ n <= n + 1
      OBVIOUS
    <2>2. Follows(X, x0, F, n, G(n)) /\ Follows(X, x0, F, n + 1, G(n + 1))
      BY <1>1, <2>1
    <2>3. G(n + 1)[n + 1] = F[<<G(n + 1)[n], n + 1>>]
      BY <2>1, <2>2 DEF Follows
    <2>4. G(n + 1)[n] = G(n)[n]
      BY <2>1, <2>2, FollowsUnique
    <2> QED BY <2>1, <2>3, <2>4
  <1> HIDE DEF f
  <1>5. f \in [Nat -> X]
    BY <1>2 DEF f
  <1> QED BY <1>3, <1>4, <1>5 DEF Defines
=============================================================================
