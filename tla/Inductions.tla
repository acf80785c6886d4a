----------------------------- MODULE Inductions -----------------------------
(***************************************************************************)
(* Induction and recursion over the natural numbers, stated about sets and *)
(* functions, so that a proof can use them for a set it defines: the       *)
(* library's NaturalsInduction states them about operators.                *)
(***************************************************************************)
EXTENDS Integers, WellFoundedInduction, TLAPS

\* A set of natural numbers that is not empty has a least one.
LEMMA Least ==
    ASSUME NEW T \in SUBSET Nat, T # {}
    PROVE  \E t \in T : \A u \in T : t <= u
<1> DEFINE R == OpToRel(<, Nat)
<1>1. IsWellFoundedOn(R, Nat)
  BY NatLessThanWellFounded
<1>2. PICK t \in T : \A u \in T : ~(<<u, t>> \in R)
  <2> HIDE DEF R
  <2> QED
    BY <1>1, WFMin
<1>3. ASSUME NEW u \in T
      PROVE  t <= u
  <2>1. ~(u < t)
    BY <1>2, <1>3 DEF OpToRel
  <2> QED
    BY <2>1
<1> QED
  BY <1>3

\* A set of natural numbers up to n that is not empty has a greatest one.
LEMMA Greatest ==
    ASSUME NEW n \in Nat, NEW Z \in SUBSET (0..n), Z # {}
    PROVE  \E z \in Z : \A y \in Z : y <= z
<1> DEFINE T == {n - z : z \in Z}
<1>1. T \subseteq Nat /\ T # {}
  <2>1. \A z \in Z : n - z \in Nat
    OBVIOUS
  <2> QED
    BY <2>1
<1>2. PICK t \in T : \A u \in T : t <= u
  <2> HIDE DEF T
  <2> QED
    BY <1>1, Least
<1>3. PICK z \in Z : t = n - z
  BY <1>2
<1>4. ASSUME NEW y \in Z
      PROVE  y <= z
  <2>1. n - y \in T
    OBVIOUS
  <2> QED
    BY <1>2, <1>3, <2>1
<1> QED
  BY <1>4

\* A set that has 0, and the successor of each natural number it has, has all.
LEMMA Induction ==
    ASSUME NEW S, 0 \in S, \A n \in Nat : n \in S => n + 1 \in S
    PROVE  Nat \subseteq S
<1> DEFINE T == Nat \ S
<1> SUFFICES ASSUME T # {}
             PROVE  FALSE
  OBVIOUS
<1>1. PICK t \in T : \A u \in T : t <= u
  <2>1. T \in SUBSET Nat
    OBVIOUS
  <2> HIDE DEF T
  <2> QED
    BY <2>1, Least
<1>2. t \in Nat /\ t # 0 /\ t \notin S
  OBVIOUS
<1>3. t - 1 \in Nat /\ t - 1 \notin T
  BY <1>1, <1>2
<1>4. t - 1 \in S
  BY <1>3
<1>5. (t - 1) + 1 \in S
  BY <1>3, <1>4
<1> QED
  BY <1>2, <1>5

-----------------------------------------------------------------------------
(* Primitive recursion: a first value, and the next one from each.         *)

\* g is the recursion as far as m.
IsPrefix(g, V, v0, step, m) ==
    /\ g \in [0..m -> V]
    /\ g[0] = v0
    /\ \A k \in 1..m : g[k] = step[k][g[k - 1]]

\* f is the recursion on all of Nat.
IsRecursion(f, V, v0, step) ==
    /\ f \in [Nat -> V]
    /\ f[0] = v0
    /\ \A n \in Nat \ {0} : f[n] = step[n][f[n - 1]]

\* Two prefixes agree where they are both defined.
LEMMA PrefixesAgree ==
    ASSUME NEW V, NEW v0 \in V, NEW step, NEW m \in Nat, NEW n \in Nat,
           NEW g, NEW h, IsPrefix(g, V, v0, step, m), IsPrefix(h, V, v0, step, n),
           NEW i \in 0..m, i <= n
    PROVE  g[i] = h[i]
<1> DEFINE S == {k \in Nat : k <= m /\ k <= n => g[k] = h[k]}
<1>1. 0 \in S
  BY DEF IsPrefix
<1>2. ASSUME NEW k \in Nat, k \in S
      PROVE  k + 1 \in S
  <2> SUFFICES ASSUME k + 1 <= m, k + 1 <= n
               PROVE  g[k + 1] = h[k + 1]
    OBVIOUS
  <2>1. g[k] = h[k]
    BY <1>2
  <2>2. k + 1 \in 1..m /\ k + 1 \in 1..n /\ (k + 1) - 1 = k
    OBVIOUS
  <2>3. g[k + 1] = step[k + 1][g[k]]
    BY <2>2 DEF IsPrefix
  <2>4. h[k + 1] = step[k + 1][h[k]]
    BY <2>2 DEF IsPrefix
  <2> QED
    BY <2>1, <2>3, <2>4
<1>3. Nat \subseteq S
  <2> HIDE DEF S
  <2> QED
    BY <1>1, <1>2, Induction
<1> QED
  BY <1>3

\* There is a prefix of every length.
LEMMA PrefixExists ==
    ASSUME NEW V, NEW v0 \in V, NEW step, \A v \in V, k \in Nat : step[k][v] \in V,
           NEW m \in Nat
    PROVE  \E g : IsPrefix(g, V, v0, step, m)
<1> DEFINE S == {k \in Nat : \E g : IsPrefix(g, V, v0, step, k)}
<1>1. 0 \in S
  <2>1. IsPrefix([i \in 0..0 |-> v0], V, v0, step, 0)
    BY DEF IsPrefix
  <2> QED
    BY <2>1
<1>2. ASSUME NEW k \in Nat, k \in S
      PROVE  k + 1 \in S
  <2>1. PICK g : IsPrefix(g, V, v0, step, k)
    BY <1>2
  <2> DEFINE h == [i \in 0..(k + 1) |-> IF i = k + 1 THEN step[k + 1][g[k]] ELSE g[i]]
  <2>2. g[k] \in V
    BY <2>1 DEF IsPrefix
  <2>3. h \in [0..(k + 1) -> V] /\ h[0] = v0
    BY <2>1, <2>2 DEF IsPrefix
  <2>4. ASSUME NEW i \in 1..(k + 1)
        PROVE  h[i] = step[i][h[i - 1]]
    <3>1. CASE i = k + 1
      <4>1. h[i] = step[k + 1][g[k]] /\ h[i - 1] = g[k]
        BY <3>1
      <4> QED
        BY <3>1, <4>1
    <3>2. CASE i \in 1..k
      <4>1. h[i] = g[i] /\ h[i - 1] = g[i - 1]
        BY <3>2
      <4>2. g[i] = step[i][g[i - 1]]
        BY <2>1, <3>2 DEF IsPrefix
      <4> QED
        BY <4>1, <4>2
    <3> QED
      BY <3>1, <3>2
  <2>5. IsPrefix(h, V, v0, step, k + 1)
    BY <2>3, <2>4 DEF IsPrefix
  <2> QED
    BY <2>5
<1>3. Nat \subseteq S
  <2> HIDE DEF S
  <2> QED
    BY <1>1, <1>2, Induction
<1> QED
  BY <1>3

\* The recursion has a solution on all of Nat.
LEMMA Recursion ==
    ASSUME NEW V, NEW v0 \in V, NEW step, \A v \in V, k \in Nat : step[k][v] \in V
    PROVE  \E f : IsRecursion(f, V, v0, step)
<1> DEFINE G(n) == CHOOSE g : IsPrefix(g, V, v0, step, n)
           f == [n \in Nat |-> G(n)[n]]
<1>1. ASSUME NEW n \in Nat
      PROVE  IsPrefix(G(n), V, v0, step, n)
  BY PrefixExists
<1> HIDE DEF G
<1>2. f \in [Nat -> V]
  BY <1>1 DEF IsPrefix
<1>3. f[0] = v0
  BY <1>1 DEF IsPrefix
<1>4. ASSUME NEW n \in Nat \ {0}
      PROVE  f[n] = step[n][f[n - 1]]
  <2>1. n - 1 \in Nat /\ n - 1 \in 0..n /\ n - 1 <= n - 1
    OBVIOUS
  <2>2. IsPrefix(G(n), V, v0, step, n) /\ IsPrefix(G(n - 1), V, v0, step, n - 1)
    BY <1>1, <2>1
  <2>3. G(n)[n] = step[n][G(n)[n - 1]]
    BY <2>2 DEF IsPrefix
  <2>4. G(n)[n - 1] = G(n - 1)[n - 1]
    BY <2>1, <2>2, PrefixesAgree
  <2> QED
    BY <2>1, <2>3, <2>4
<1>5. IsRecursion(f, V, v0, step)
  BY <1>2, <1>3, <1>4 DEF IsRecursion
<1> QED
  BY <1>5

=============================================================================
