------------------------------ MODULE Induction ------------------------------
(***************************************************************************)
(* Induction over the naturals and definition by recursion, in a form that *)
(* takes sets and functions as parameters and so can be cited for any of   *)
(* them. The proofs of the components rest on it wherever a value of       *)
(* theirs is computed by a loop.                                           *)
(***************************************************************************)
EXTENDS Integers, FiniteSetTheorems, WellFoundedInduction, TLAPS

(* The provers of a leaf that names none, and their time in seconds.        *)
USE SMTT(60), ZenonT(60)

(* A set of naturals has a least element.                                  *)
LEMMA Least ==
  ASSUME NEW T \in SUBSET Nat, T # {}
  PROVE  \E x \in T : \A y \in T : x <= y
<1> DEFINE R == OpToRel(<, Nat)
<1>1. IsWellFoundedOn(R, Nat)
  BY NatLessThanWellFounded, ZenonT(60)
<1>2. \A x, y \in Nat : x < y => <<x, y>> \in R
  BY DEF OpToRel
<1> HIDE DEF R
<1>3. PICK x \in T : \A y \in T : ~ (<<y, x>> \in R)
  BY <1>1, WFMin, ZenonT(60)
<1>4. \A y \in T : x <= y
  <2> TAKE y \in T
  <2>1. x \in Nat /\ y \in Nat
    OBVIOUS
  <2>2. ~ (y < x)
    BY <1>2, <1>3, <2>1, ZenonT(60)
  <2> QED BY <2>1, <2>2
<1> QED BY <1>4

(* A set that holds 0 and the successors of its naturals holds them all.   *)
LEMMA SetInduction ==
  ASSUME NEW T, 0 \in T, \A n \in Nat : n \in T => n + 1 \in T
  PROVE  Nat \subseteq T
<1> SUFFICES ASSUME ~ (Nat \subseteq T) PROVE FALSE
  OBVIOUS
<1> DEFINE U == {n \in Nat : n \notin T}
<1>1. U \in SUBSET Nat /\ U # {}
  OBVIOUS
<1>2. PICK x \in U : \A y \in U : x <= y
  <2> HIDE DEF U
  <2> QED BY <1>1, Least
<1>3. x # 0 /\ x \in Nat
  OBVIOUS
<1>4. x - 1 \in Nat /\ x - 1 \notin U
  BY <1>2, <1>3
<1>5. x - 1 \in T
  BY <1>4
<1> QED BY <1>3, <1>4, <1>5

(* The first n + 1 values of the recursion that starts with base.          *)
Unfolds(g, n, S, base, step) ==
  /\ g \in [0 .. n -> S] /\ g[0] = base
  /\ \A i \in 1 .. n : g[i] = step[<<i - 1, g[i - 1]>>]

(* Two unfoldings agree as far as both go.                                 *)
LEMMA UnfoldsUnique ==
  ASSUME NEW S, NEW base, NEW step, NEW m \in Nat, NEW n \in Nat,
         NEW g, NEW h,
         Unfolds(g, m, S, base, step), Unfolds(h, n, S, base, step)
  PROVE  \A i \in Nat : i <= m /\ i <= n => g[i] = h[i]
<1> DEFINE T == {i \in Nat : i <= m /\ i <= n => g[i] = h[i]}
<1>1. 0 \in T
  BY DEF Unfolds
<1>2. ASSUME NEW i \in Nat, i \in T PROVE i + 1 \in T
  <2> SUFFICES ASSUME i + 1 <= m, i + 1 <= n PROVE g[i + 1] = h[i + 1]
    OBVIOUS
  <2>1. g[i] = h[i]
    BY <1>2
  <2>2. i + 1 \in 1 .. m /\ i + 1 \in 1 .. n /\ (i + 1) - 1 = i
    OBVIOUS
  <2>3. g[i + 1] = step[<<i, g[i]>>] /\ h[i + 1] = step[<<i, h[i]>>]
    BY <2>2 DEF Unfolds
  <2> QED BY <2>1, <2>3
<1> HIDE DEF T
<1>3. Nat \subseteq T
  BY <1>1, <1>2, SetInduction
<1> QED BY <1>3 DEF T

(* Every number of steps can be unfolded.                                  *)
LEMMA UnfoldsExist ==
  ASSUME NEW S, NEW base \in S, NEW step \in [Nat \X S -> S]
  PROVE  \A n \in Nat : \E g : Unfolds(g, n, S, base, step)
<1> DEFINE T == {n \in Nat : \E g : Unfolds(g, n, S, base, step)}
<1>1. 0 \in T
  <2> DEFINE g == [i \in 0 .. 0 |-> base]
  <2>1. Unfolds(g, 0, S, base, step)
    BY DEF Unfolds
  <2> QED BY <2>1
<1>2. ASSUME NEW n \in Nat, n \in T PROVE n + 1 \in T
  <2>1. PICK g : Unfolds(g, n, S, base, step)
    BY <1>2
  <2> DEFINE h == [i \in 0 .. n + 1 |-> IF i <= n THEN g[i] ELSE step[<<n, g[n]>>]]
  <2>2. g[n] \in S
    BY <2>1 DEF Unfolds
  <2>3. step[<<n, g[n]>>] \in S
    BY <2>2
  <2>4. h \in [0 .. n + 1 -> S] /\ h[0] = base
    BY <2>1, <2>3 DEF Unfolds
  <2>5. ASSUME NEW i \in 1 .. n + 1 PROVE h[i] = step[<<i - 1, h[i - 1]>>]
    <3>1. CASE i <= n
      <4>1. i \in 1 .. n /\ i \in 0 .. n + 1 /\ i - 1 \in 0 .. n + 1 /\ i - 1 <= n
        BY <3>1
      <4>2. h[i] = g[i] /\ h[i - 1] = g[i - 1]
        BY <3>1, <4>1
      <4>3. g[i] = step[<<i - 1, g[i - 1]>>]
        BY <2>1, <4>1 DEF Unfolds
      <4> QED BY <4>2, <4>3, ZenonT(60)
    <3>2. CASE i = n + 1
      <4>1. i - 1 = n /\ n \in 0 .. n + 1 /\ i \in 0 .. n + 1 /\ ~ (i <= n)
        BY <3>2
      <4>2. h[i] = step[<<n, g[n]>>] /\ h[n] = g[n]
        BY <4>1
      <4> QED BY <4>1, <4>2
    <3> QED BY <3>1, <3>2
  <2> HIDE DEF h
  <2>6. Unfolds(h, n + 1, S, base, step)
    BY <2>4, <2>5 DEF Unfolds
  <2> QED BY <2>6
<1> HIDE DEF T
<1>3. Nat \subseteq T
  BY <1>1, <1>2, SetInduction
<1> QED BY <1>3 DEF T

(* The values a loop takes that starts with base.                          *)
Iterates(f, S, base, step) ==
  /\ f \in [Nat -> S] /\ f[0] = base
  /\ \A n \in Nat : f[n + 1] = step[<<n, f[n]>>]

(* A recursive definition over the naturals has a solution.                *)
LEMMA NatRecursion ==
  ASSUME NEW S, NEW base \in S, NEW step \in [Nat \X S -> S]
  PROVE  \E f : Iterates(f, S, base, step)
<1> DEFINE G(n) == CHOOSE g : Unfolds(g, n, S, base, step)
           f == [n \in Nat |-> G(n)[n]]
<1>1. \A n \in Nat : Unfolds(G(n), n, S, base, step)
  BY UnfoldsExist, ZenonT(60)
<1> HIDE DEF G
<1>2. f \in [Nat -> S] /\ f[0] = base
  BY <1>1 DEF Unfolds
<1>3. ASSUME NEW n \in Nat, n # 0 PROVE f[n] = step[<<n - 1, f[n - 1]>>]
  <2>1. n - 1 \in Nat /\ n - 1 <= n /\ n - 1 <= n - 1 /\ n \in 1 .. n
    BY <1>3
  <2>2. Unfolds(G(n), n, S, base, step) /\ Unfolds(G(n - 1), n - 1, S, base, step)
    BY <1>1, <2>1
  <2>3. G(n)[n - 1] = G(n - 1)[n - 1]
    <3> DEFINE g == G(n)
               h == G(n - 1)
               m == n - 1
    <3>1. m \in Nat /\ Unfolds(g, n, S, base, step) /\ Unfolds(h, m, S, base, step)
      BY <2>1, <2>2
    <3> HIDE DEF g, h, m
    <3>2. \A i \in Nat : i <= n /\ i <= m => g[i] = h[i]
      BY <3>1, UnfoldsUnique
    <3> QED BY <2>1, <3>2 DEF g, h, m
  <2>4. G(n)[n] = step[<<n - 1, G(n)[n - 1]>>]
    BY <2>1, <2>2 DEF Unfolds
  <2> QED BY <2>1, <2>3, <2>4
<1>4. ASSUME NEW n \in Nat PROVE f[n + 1] = step[<<n, f[n]>>]
  <2>1. n + 1 \in Nat /\ n + 1 # 0 /\ (n + 1) - 1 = n
    OBVIOUS
  <2> HIDE DEF f
  <2>2. f[n + 1] = step[<<(n + 1) - 1, f[(n + 1) - 1]>>]
    BY <1>3, <2>1
  <2> QED BY <2>1, <2>2
<1> HIDE DEF f
<1>5. Iterates(f, S, base, step)
  BY <1>2, <1>4 DEF Iterates
<1> QED BY <1>5

-----------------------------------------------------------------------------
(* The value of a fold on every subset of S: pick says which element is    *)
(* taken last.                                                             *)
IsFold(f, S, V, base, pick, step) ==
  /\ f \in [SUBSET S -> V]
  /\ f = [s \in SUBSET S |-> IF s = {} THEN base
                             ELSE step[<<pick[s], f[s \ {pick[s]}]>>]]

(* A recursive definition over the subsets of a finite set, one element    *)
(* after the other, has a solution.                                        *)
LEMMA SetRecursion ==
  ASSUME NEW S, IsFiniteSet(S), NEW V, NEW base \in V,
         NEW pick, \A s \in SUBSET S : s # {} => pick[s] \in s,
         NEW step \in [S \X V -> V]
  PROVE  \E f : IsFold(f, S, V, base, pick, step)
<1> DEFINE W == [SUBSET S -> V]
           Once(F) == [s \in SUBSET S |->
                         IF s = {} THEN base ELSE step[<<pick[s], F[s \ {pick[s]}]>>]]
           base2 == [s \in SUBSET S |-> base]
           step2 == [p \in Nat \X W |-> Once(p[2])]
<1>1. base2 \in W
  OBVIOUS
<1>2. ASSUME NEW F \in W PROVE Once(F) \in W
  <2>1. ASSUME NEW s \in SUBSET S, s # {} PROVE step[<<pick[s], F[s \ {pick[s]}]>>] \in V
    <3>1. pick[s] \in S /\ s \ {pick[s]} \in SUBSET S
      BY <2>1
    <3>2. F[s \ {pick[s]}] \in V
      BY <3>1
    <3> QED BY <3>1, <3>2
  <2> QED BY <2>1
<1>3. step2 \in [Nat \X W -> W]
  BY <1>2
<1>4. ASSUME NEW n \in Nat, NEW F \in W PROVE step2[<<n, F>>] = Once(F)
  <2>1. <<n, F>> \in Nat \X W /\ <<n, F>>[2] = F
    OBVIOUS
  <2> HIDE DEF W, Once
  <2> QED BY <2>1
<1>5. PICK G : Iterates(G, W, base2, step2)
  <2> HIDE DEF W, base2, step2
  <2> QED BY <1>1, <1>3, NatRecursion, ZenonT(60)
<1>6. G[0] = base2 /\ \A n \in Nat : G[n] \in W /\ G[n + 1] = Once(G[n])
  <2> HIDE DEF W, base2, step2, Once
  <2>1. G \in [Nat -> W] /\ G[0] = base2 /\ \A n \in Nat : G[n + 1] = step2[<<n, G[n]>>]
    BY <1>5 DEF Iterates
  <2>2. \A n \in Nat : G[n] \in W
    BY <2>1
  <2> QED BY <1>4, <2>1, <2>2, ZenonT(60)
<1> DEFINE Stable(n) == \A s \in SUBSET S : Cardinality(s) <= n => G[n + 1][s] = G[n][s]
           T == {n \in Nat : Stable(n)}
<1>7. 0 \in T
  <2> SUFFICES ASSUME NEW s \in SUBSET S, Cardinality(s) <= 0 PROVE G[0 + 1][s] = G[0][s]
    OBVIOUS
  <2>1. IsFiniteSet(s)
    BY FS_Subset
  <2>2. Cardinality(s) = 0
    BY <2>1, FS_CardinalityType
  <2>3. s = {}
    BY <2>1, <2>2, FS_EmptySet
  <2>4. G[0 + 1] = Once(G[0]) /\ G[0] = base2
    BY <1>6, ZenonT(60)
  <2> QED BY <2>3, <2>4
<1>8. ASSUME NEW n \in Nat, n \in T PROVE n + 1 \in T
  <2> SUFFICES ASSUME NEW s \in SUBSET S, Cardinality(s) <= n + 1
               PROVE  G[(n + 1) + 1][s] = G[n + 1][s]
    OBVIOUS
  <2>1. G[n + 1] = Once(G[n]) /\ G[(n + 1) + 1] = Once(G[n + 1])
    <3> HIDE DEF Once, W
    <3> QED BY <1>6
  <2>2. CASE s = {}
    BY <2>1, <2>2, ZenonT(60)
  <2>3. CASE s # {}
    <3> DEFINE r == s \ {pick[s]}
    <3>1. pick[s] \in s /\ r \in SUBSET S /\ IsFiniteSet(s)
      BY <2>3, FS_Subset
    <3>2. Cardinality(r) = Cardinality(s) - 1 /\ Cardinality(s) \in Nat
      BY <3>1, FS_RemoveElement, FS_CardinalityType, ZenonT(60)
    <3>3. Cardinality(r) <= n
      BY <3>2
    <3>4. G[n + 1][r] = G[n][r]
      BY <1>8, <3>1, <3>3
    <3>5. Once(G[n + 1])[s] = step[<<pick[s], G[n + 1][r]>>]
      BY <2>3
    <3>6. Once(G[n])[s] = step[<<pick[s], G[n][r]>>]
      BY <2>3
    <3> HIDE DEF r, Once
    <3> QED BY <2>1, <3>4, <3>5, <3>6
  <2> QED BY <2>2, <2>3
<1>9. Nat \subseteq T
  <2> HIDE DEF T
  <2> QED BY <1>7, <1>8, SetInduction
<1> DEFINE N == Cardinality(S)
           f == G[N]
<1>10. N \in Nat /\ f \in W /\ G[N + 1] = Once(f)
  <2>1. N \in Nat
    BY FS_CardinalityType
  <2> HIDE DEF N, W, Once
  <2> QED BY <1>6, <2>1
<1>11. ASSUME NEW s \in SUBSET S PROVE f[s] = Once(f)[s]
  <2>1. Cardinality(s) <= N
    BY FS_Subset
  <2>2. N \in T
    BY <1>9, <1>10
  <2> HIDE DEF N, Once
  <2> QED BY <1>10, <2>1, <2>2
<1>12. f = Once(f)
  <2> HIDE DEF f
  <2>1. DOMAIN f = SUBSET S
    BY <1>10
  <2> QED BY <1>10, <1>11, <2>1, ZenonT(60)
<1>13. IsFold(f, S, V, base, pick, step)
  <2> HIDE DEF f
  <2> QED BY <1>10, <1>12, ZenonT(60) DEF IsFold
<1> QED BY <1>13
=============================================================================
