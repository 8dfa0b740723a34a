----------------------------- MODULE Induction -----------------------------
(***************************************************************************)
(* Induction and recursion over the naturals, in a form without operator   *)
(* parameters: the predicate is a set, the recursive step a function.      *)
(* With it, what the proofs need of sequences (how they are cut and joined *)
(* and how often, and where, a value occurs in them) and of sums.          *)
(***************************************************************************)
EXTENDS Integers, SequencesExt, WellFoundedInduction, FiniteSetTheorems, SequenceTheorems, TLAPS

\* A set of naturals that is not empty has a least element.
LEMMA LeastOf ==
  ASSUME NEW T, T \subseteq Nat, T # {}
  PROVE  \E x \in T : \A y \in T : x <= y
<1>. DEFINE R == {ss \in Nat \X Nat : ss[1] < ss[2]}
<1>1. IsWellFoundedOn(R, Nat)
  BY NatLessThanWellFounded DEF OpToRel
<1>2. \A x, y \in Nat : <<y, x>> \in R <=> y < x
  OBVIOUS
<1>. HIDE DEF R
<1>3. PICK x \in T : \A y \in T : ~ (<<y, x>> \in R)
  BY <1>1, WFMin
<1>4. \A y \in T : x <= y
  <2>. SUFFICES ASSUME NEW y \in T PROVE x <= y
    OBVIOUS
  <2>1. x \in Nat /\ y \in Nat /\ ~(y < x)
    BY <1>2, <1>3
  <2>. QED
    BY <2>1
<1>. QED
  BY <1>4

\* What holds of 0 and passes from each number to the next, as far as n, holds
\* of every number up to n.
LEMMA UpTo ==
  ASSUME NEW n \in Nat, NEW S, 0 \in S, \A i \in 0..n : i \in S /\ i # n => i + 1 \in S
  PROVE  \A k \in 0..n : k \in S
<1>. SUFFICES ASSUME NEW k \in 0..n, k \notin S PROVE FALSE
  OBVIOUS
<1>. DEFINE T == {i \in 0..n : i \notin S}
<1>1. T \subseteq Nat /\ T # {}
  OBVIOUS
<1>. HIDE DEF T
<1>2. PICK x \in T : \A y \in T : x <= y
  BY <1>1, LeastOf
<1>3. x # 0 /\ x - 1 \in 0..n /\ x - 1 # n /\ x \in 0..n /\ x \notin S
  BY <1>2 DEF T
<1>4. x - 1 \notin T
  BY <1>2, <1>3
<1>. QED
  BY <1>3, <1>4 DEF T

\* f starts with a and goes on with step.
Recursive(n, S, a, step, f) ==
  f \in [0..n -> S] /\ f[0] = a /\ \A i \in 1..n : f[i] = step[i][f[i - 1]]

\* The recursive function that starts with a and goes on with step exists.
LEMMA Recursion ==
  ASSUME NEW n \in Nat, NEW S, NEW a \in S, NEW step \in [1..n -> [S -> S]]
  PROVE  \E f : Recursive(n, S, a, step, f)
<1>. DEFINE Upto(k, g) == /\ g \in [0..k -> S]
                          /\ g[0] = a
                          /\ \A i \in 1..k : g[i] = step[i][g[i - 1]]
            K == {k \in 0..n : \E g : Upto(k, g)}
<1>1. 0 \in K
  <2>. DEFINE g == [i \in 0..0 |-> a]
  <2>1. Upto(0, g)
    OBVIOUS
  <2>2. 0 \in 0..n
    OBVIOUS
  <2>. QED
    BY <2>1, <2>2
<1>2. ASSUME NEW k \in 0..n, k \in K, k # n PROVE k + 1 \in K
  <2>1. PICK g : Upto(k, g)
    BY <1>2
  <2>2. k + 1 \in 1..n /\ k \in 0..k /\ g[k] \in S
    BY <1>2, <2>1
  <2>3. step[k + 1][g[k]] \in S
    BY <2>2
  <2>. DEFINE h == [i \in 0..(k + 1) |-> IF i = k + 1 THEN step[k + 1][g[k]] ELSE g[i]]
  <2>4. h \in [0..(k + 1) -> S]
    BY <2>1, <2>3
  <2>5. h[0] = a
    BY <2>1, <2>2
  <2>6. ASSUME NEW i \in 1..(k + 1) PROVE h[i] = step[i][h[i - 1]]
    <3>1. CASE i = k + 1
      BY <3>1, <2>2
    <3>2. CASE i # k + 1
      <4>1. i \in 1..k /\ i - 1 \in 0..k /\ h[i] = g[i] /\ h[i - 1] = g[i - 1]
        BY <3>2, <2>2
      <4>. QED
        BY <4>1, <2>1
    <3>. QED
      BY <3>1, <3>2
  <2>7. Upto(k + 1, h)
    BY <2>4, <2>5, <2>6
  <2>. HIDE DEF h
  <2>8. \E x : Upto(k + 1, x)
    BY <2>7
  <2>. QED
    BY <2>2, <2>8
<1>3. n \in K
  <2>. HIDE DEF K
  <2>1. \A k \in 0..n : k \in K
    BY <1>1, <1>2, UpTo
  <2>. QED
    BY <2>1
<1>. QED
  BY <1>3 DEF Recursive

\* The same over all naturals: what holds of 0 and passes on holds of all.
LEMMA Always ==
  ASSUME NEW S, 0 \in S, \A i \in Nat : i \in S => i + 1 \in S
  PROVE  Nat \subseteq S
<1>. SUFFICES ASSUME NEW n \in Nat PROVE n \in S
  OBVIOUS
<1>1. \A i \in 0..n : i \in S /\ i # n => i + 1 \in S
  OBVIOUS
<1>2. \A k \in 0..n : k \in S
  BY <1>1, UpTo
<1>. QED
  BY <1>2

\* f starts with b and goes on with onward, over all naturals.
Rounds(R, b, onward, f) ==
  f \in [Nat -> R] /\ f[0] = b /\ \A i \in Nat : f[i + 1] = onward[f[i]]

\* The recursive function over all naturals that starts with b and goes on with
\* onward exists: its finite beginnings agree with one another.
LEMMA RecursionOnNat ==
  ASSUME NEW R, NEW b \in R, NEW onward \in [R -> R]
  PROVE  \E f : Rounds(R, b, onward, f)
<1>. DEFINE Upto(k, g) == /\ g \in [0..k -> R]
                          /\ g[0] = b
                          /\ \A i \in 1..k : g[i] = onward[g[i - 1]]
            Of(k) == CHOOSE g : Upto(k, g)
            whole == [k \in Nat |-> Of(k)[k]]
            K == {k \in Nat : \E g : Upto(k, g)}
<1>. HIDE DEF Of, whole
<1>1. 0 \in K
  <2>. DEFINE g == [i \in 0..0 |-> b]
  <2>1. Upto(0, g)
    OBVIOUS
  <2>. QED
    BY <2>1
<1>2. ASSUME NEW k \in Nat, k \in K PROVE k + 1 \in K
  <2>1. PICK g : Upto(k, g)
    BY <1>2
  <2>2. k + 1 \in 1..(k + 1) /\ k \in 0..k /\ g[k] \in R
    BY <1>2, <2>1
  <2>3. onward[g[k]] \in R
    BY <2>2
  <2>. DEFINE h == [i \in 0..(k + 1) |-> IF i = k + 1 THEN onward[g[k]] ELSE g[i]]
  <2>4. h \in [0..(k + 1) -> R]
    BY <2>1, <2>3
  <2>5. h[0] = b
    BY <2>1, <2>2
  <2>6. ASSUME NEW i \in 1..(k + 1) PROVE h[i] = onward[h[i - 1]]
    <3>1. CASE i = k + 1
      BY <3>1, <2>2
    <3>2. CASE i # k + 1
      <4>1. i \in 1..k /\ i - 1 \in 0..k /\ h[i] = g[i] /\ h[i - 1] = g[i - 1]
        BY <3>2, <2>2
      <4>. QED
        BY <4>1, <2>1
    <3>. QED
      BY <3>1, <3>2
  <2>7. Upto(k + 1, h)
    BY <2>4, <2>5, <2>6
  <2>. HIDE DEF h
  <2>8. \E x : Upto(k + 1, x)
    BY <2>7
  <2>. QED
    BY <2>2, <2>8
<1>3. Nat \subseteq K
  <2>. HIDE DEF K
  <2>1. \A k \in Nat : k \in K => k + 1 \in K
    BY <1>2
  <2>. QED
    BY <1>1, <2>1, Always
<1>4. ASSUME NEW k \in Nat PROVE Upto(k, Of(k))
  <2>1. \E g : Upto(k, g)
    BY <1>3
  <2>. HIDE DEF Upto
  <2>. QED
    BY <2>1, Zenon DEF Of
<1>. HIDE DEF K
<1>5. ASSUME NEW k \in Nat, NEW m \in Nat, k <= m, NEW g, NEW h, Upto(k, g), Upto(m, h)
      PROVE  g[k] = h[k]
  <2>. DEFINE Same == {i \in 0..k : g[i] = h[i]}
  <2>1. 0 \in Same
    BY <1>5
  <2>2. ASSUME NEW i \in 0..k, i \in Same, i # k PROVE i + 1 \in Same
    <3>1. i + 1 \in 1..k /\ i + 1 \in 1..m /\ (i + 1) - 1 = i
      BY <1>5, <2>2
    <3>2. g[i + 1] = onward[g[i]] /\ h[i + 1] = onward[h[i]]
      BY <1>5, <3>1
    <3>. QED
      BY <2>2, <3>1, <3>2
  <2>. HIDE DEF Same
  <2>3. k \in Same
    <3>1. \A i \in 0..k : i \in Same
      BY <2>1, <2>2, UpTo
    <3>. QED
      BY <3>1
  <2>. QED
    BY <2>3 DEF Same
<1>6. whole \in [Nat -> R] /\ whole[0] = b
  <2>1. \A k \in Nat : Of(k)[k] \in R
    <3>. SUFFICES ASSUME NEW k \in Nat PROVE Of(k)[k] \in R
      OBVIOUS
    <3>1. k \in 0..k /\ Of(k) \in [0..k -> R]
      BY <1>4
    <3>. QED
      BY <3>1
  <2>2. Of(0)[0] = b
    BY <1>4
  <2>. QED
    BY <2>1, <2>2 DEF whole
<1>7. ASSUME NEW k \in Nat PROVE whole[k + 1] = onward[whole[k]]
  <2>1. Upto(k, Of(k)) /\ Upto(k + 1, Of(k + 1)) /\ k + 1 \in 1..(k + 1) /\ (k + 1) - 1 = k
    BY <1>4
  <2>2. Of(k + 1)[k + 1] = onward[Of(k + 1)[k]]
    BY <2>1
  \* The longer beginning starts with the shorter one.
  <2>3. Of(k)[k] = Of(k + 1)[k]
    <3>. DEFINE cut == [i \in 0..k |-> Of(k + 1)[i]]
    <3>1. Upto(k, cut)
      BY <2>1
    <3>2. cut[k] = Of(k + 1)[k] /\ k <= k
      OBVIOUS
    <3>. HIDE DEF cut, Upto
    <3>3. Of(k)[k] = cut[k]
      BY <1>5, <2>1, <3>1, <3>2
    <3>. QED
      BY <3>2, <3>3
  <2>4. whole[k + 1] = Of(k + 1)[k + 1] /\ whole[k] = Of(k)[k]
    BY DEF whole
  <2>. QED
    BY <2>2, <2>3, <2>4
<1>. QED
  BY <1>6, <1>7 DEF Rounds

\* f folds every part of a finite set: the empty part has the value base, any
\* other that of op for the element picked from it and the value of the rest.
\* It is what the functions of Folds are.
Folding(S, V, base, pick, op, f) ==
  /\ f \in [SUBSET S -> V]
  /\ f[{}] = base
  /\ \A s \in (SUBSET S) \ {{}} : f[s] = op[<<pick[s], f[s \ {pick[s]}]>>]

\* The function that folds every part of a finite set exists.
LEMMA FoldExists ==
  ASSUME NEW S, IsFiniteSet(S), NEW V, NEW base \in V,
         NEW pick \in [(SUBSET S) \ {{}} -> S], \A s \in (SUBSET S) \ {{}} : pick[s] \in s,
         NEW op \in [S \X V -> V]
  PROVE  \E f : Folding(S, V, base, pick, op, f)
<1>. DEFINE R == [SUBSET S -> V]
            Better(F) == [s \in SUBSET S |->
                            IF s = {} THEN base ELSE op[<<pick[s], F[s \ {pick[s]}]>>]]
            start == [s \in SUBSET S |-> base]
            onward == [F \in R |-> Better(F)]
            n == Cardinality(S)
<1>1. start \in R
  OBVIOUS
<1>2. ASSUME NEW F \in R PROVE Better(F) \in R
  <2>1. ASSUME NEW s \in (SUBSET S) \ {{}} PROVE op[<<pick[s], F[s \ {pick[s]}]>>] \in V
    <3>1. pick[s] \in S /\ s \ {pick[s]} \in SUBSET S
      OBVIOUS
    <3>2. F[s \ {pick[s]}] \in V
      BY <3>1
    <3>. QED
      BY <3>1, <3>2
  <2>. QED
    BY <2>1
<1>3. onward \in [R -> R]
  BY <1>2
<1>. HIDE DEF R, start, onward, Better
<1>4. PICK g \in [Nat -> R] : g[0] = start /\ \A i \in Nat : g[i + 1] = onward[g[i]]
  <2>1. \E g : Rounds(R, start, onward, g)
    BY <1>1, <1>3, RecursionOnNat
  <2>. QED
    BY <2>1 DEF Rounds
<1>5. ASSUME NEW i \in Nat
      PROVE  /\ g[i] \in R
             /\ g[i + 1][{}] = base
             /\ \A s \in (SUBSET S) \ {{}} :
                  g[i + 1][s] = op[<<pick[s], g[i][s \ {pick[s]}]>>]
  <2>1. g[i] \in R
    OBVIOUS
  <2>2. g[i + 1] = Better(g[i])
    BY <1>4, <2>1 DEF onward
  <2>. QED
    BY <2>1, <2>2 DEF Better

\* After i rounds the parts of i elements do not change any more.
<1>. DEFINE K == {i \in Nat : \A s \in SUBSET S : Cardinality(s) <= i => g[i + 1][s] = g[i][s]}
<1>6. \A s \in SUBSET S : IsFiniteSet(s) /\ Cardinality(s) \in Nat /\ Cardinality(s) <= n
  BY FS_Subset, FS_CardinalityType
<1>7. 0 \in K
  <2>1. ASSUME NEW s \in SUBSET S, Cardinality(s) <= 0 PROVE g[0 + 1][s] = g[0][s]
    <3>1. s = {}
      BY <1>6, <2>1, FS_EmptySet
    <3>2. g[0][{}] = base
      BY <1>4 DEF start
    <3>. QED
      BY <3>1, <3>2, <1>5
  <2>. QED
    BY <2>1
<1>8. ASSUME NEW i \in Nat, i \in K PROVE i + 1 \in K
  <2>1. ASSUME NEW s \in SUBSET S, Cardinality(s) <= i + 1
        PROVE  g[(i + 1) + 1][s] = g[i + 1][s]
    <3>. DEFINE j == i + 1
    <3>0. j \in Nat
      OBVIOUS
    <3>. HIDE DEF j
    <3>1. CASE s = {}
      <4>1. g[j + 1][{}] = base /\ g[i + 1][{}] = base
        BY <3>0, <1>5
      <4>. QED
        BY <3>1, <4>1 DEF j
    <3>2. CASE s # {}
      <4>. DEFINE rest == s \ {pick[s]}
      <4>1. rest \in SUBSET S /\ Cardinality(rest) = Cardinality(s) - 1
        BY <3>2, <1>6, FS_RemoveElement
      <4>2. Cardinality(rest) <= i
        BY <4>1, <2>1, <1>6
      <4>3. g[i + 1][rest] = g[i][rest]
        BY <4>1, <4>2, <1>8
      <4>. HIDE DEF rest
      <4>4. /\ g[j + 1][s] = op[<<pick[s], g[j][rest]>>]
            /\ g[i + 1][s] = op[<<pick[s], g[i][rest]>>]
        BY <3>0, <3>2, <1>5 DEF rest
      <4>. QED
        BY <4>3, <4>4 DEF j
    <3>. QED
      BY <3>1, <3>2
  <2>. QED
    BY <2>1
<1>. HIDE DEF K
<1>9. n \in Nat /\ n \in K
  <2>1. Nat \subseteq K
    BY <1>7, <1>8, Always
  <2>. QED
    BY <2>1, FS_CardinalityType
<1>10. Better(g[n]) = g[n]
  <2>1. g[n] \in R /\ g[n + 1] = Better(g[n])
    BY <1>4, <1>5, <1>9 DEF onward
  <2>2. \A s \in SUBSET S : g[n + 1][s] = g[n][s]
    BY <1>6, <1>9 DEF K
  <2>3. Better(g[n]) = [s \in SUBSET S |-> Better(g[n])[s]] /\ g[n] = [s \in SUBSET S |-> g[n][s]]
    BY <2>1 DEF Better, R
  <2>4. \A s \in SUBSET S : Better(g[n])[s] = g[n][s]
    BY <2>1, <2>2
  <2>. DEFINE A == Better(g[n])
              B == g[n]
  <2>. HIDE DEF A, B
  <2>5. [s \in SUBSET S |-> A[s]] = [s \in SUBSET S |-> B[s]]
    BY <2>4 DEF A, B
  <2>. QED
    BY <2>3, <2>5 DEF A, B
<1>11. g[n] \in R
  BY <1>9
<1>12. Folding(S, V, base, pick, op, g[n])
  <2>. DEFINE h == g[n]
  <2>. HIDE DEF h
  <2>1. h \in [SUBSET S -> V] /\ h = Better(h)
    BY <1>10, <1>11 DEF h, R
  <2>2. /\ h[{}] = base
        /\ \A s \in (SUBSET S) \ {{}} : h[s] = op[<<pick[s], h[s \ {pick[s]}]>>]
    BY <2>1 DEF Better
  <2>. QED
    BY <2>1, <2>2 DEF Folding, h
<1>. QED
  BY <1>12

\* What holds of the empty part of a finite set, and of every other part when
\* it holds of the part without some element, holds of all parts.
LEMMA Parts ==
  ASSUME NEW S, IsFiniteSet(S), NEW T, {} \in T,
         \A s \in (SUBSET S) \ {{}} : \E x \in s : s \ {x} \in T => s \in T
  PROVE  SUBSET S \subseteq T
<1>. DEFINE K == {i \in Nat : \A s \in SUBSET S : Cardinality(s) <= i => s \in T}
<1>1. \A s \in SUBSET S : IsFiniteSet(s) /\ Cardinality(s) \in Nat
  BY FS_Subset, FS_CardinalityType
<1>2. 0 \in K
  <2>1. \A s \in SUBSET S : Cardinality(s) <= 0 => s = {}
    BY <1>1, FS_EmptySet
  <2>. QED
    BY <2>1
<1>3. ASSUME NEW i \in Nat, i \in K PROVE i + 1 \in K
  <2>1. ASSUME NEW s \in SUBSET S, Cardinality(s) <= i + 1, s # {} PROVE s \in T
    <3>1. PICK x \in s : s \ {x} \in T => s \in T
      BY <2>1
    <3>2. Cardinality(s \ {x}) = Cardinality(s) - 1
      BY <1>1, FS_RemoveElement
    <3>3. s \ {x} \in SUBSET S /\ Cardinality(s \ {x}) <= i
      BY <1>1, <2>1, <3>2
    <3>. QED
      BY <1>3, <3>1, <3>3
  <2>2. \A s \in SUBSET S : Cardinality(s) <= i + 1 => s \in T
    BY <2>1
  <2>. QED
    BY <2>2
<1>. HIDE DEF K
<1>4. Nat \subseteq K
  BY <1>2, <1>3, Always
<1>. QED
  BY <1>1, <1>4 DEF K

\* A set of naturals that is not empty and has a bound has a greatest element.
LEMMA GreatestOf ==
  ASSUME NEW n \in Nat, NEW T, T \subseteq 0..n, T # {}
  PROVE  \E x \in T : \A y \in T : x >= y
<1>. DEFINE U == {u \in 0..n : \A t \in T : t <= u}
<1>1. U \subseteq Nat /\ n \in U
  OBVIOUS
<1>. HIDE DEF U
<1>2. PICK u \in U : \A v \in U : u <= v
  <2>1. U # {}
    BY <1>1
  <2>. QED
    BY <1>1, <2>1, LeastOf
<1>3. u \in 0..n /\ \A t \in T : t <= u
  BY DEF U
<1>4. u \in T
  <2>. SUFFICES ASSUME u \notin T PROVE FALSE
    OBVIOUS
  <2>1. PICK t \in T : TRUE
    OBVIOUS
  <2>2. u - 1 \in 0..n /\ ~(u <= u - 1)
    BY <1>3, <2>1
  <2>3. \A s \in T : s <= u - 1
    BY <1>3
  <2>4. u - 1 \in U
    BY <2>2, <2>3 DEF U
  <2>. QED
    BY <1>2, <2>2, <2>4
<1>. QED
  BY <1>3, <1>4

(***************************************************************************)
(* Sequences and what is counted in them.                                  *)
(***************************************************************************)

\* Rounding down is off by less than the divisor.
LEMMA Division ==
  ASSUME NEW a \in Int, NEW b \in Nat \ {0}
  PROVE  /\ a \div b \in Int
         /\ (a \div b) * b <= a
         /\ a < (a \div b) * b + b
<1>. DEFINE q == a \div b
            r == a % b
<1>1. q \in Int /\ r \in 0..(b-1) /\ a = b * q + r
  BY SMT
<1>. HIDE DEF q, r
<1>2. q * b <= a /\ a < q * b + b
  BY <1>1
<1>. QED
  BY <1>1, <1>2 DEF q

\* A set of integers that is finite and not empty has a greatest element.
LEMMA GreatestInt ==
  ASSUME NEW S, IsFiniteSet(S), S \subseteq Int, S # {}
  PROVE  \E x \in S : \A y \in S : y <= x
<1>. DEFINE T == {s \in SUBSET S : s # {} => \E x \in s : \A y \in s : y <= x}
<1>1. {} \in T
  OBVIOUS
<1>2. ASSUME NEW s \in (SUBSET S) \ {{}} PROVE \E x \in s : s \ {x} \in T => s \in T
  <2>1. PICK x \in s : TRUE
    OBVIOUS
  <2>2. ASSUME s \ {x} \in T PROVE s \in T
    <3>1. CASE s \ {x} = {}
      <4>1. \A y \in s : y = x
        BY <3>1
      <4>. QED
        BY <2>1, <4>1
    <3>2. CASE s \ {x} # {}
      <4>1. PICK z \in s \ {x} : \A y \in s \ {x} : y <= z
        BY <2>2, <3>2
      <4>2. x \in Int /\ z \in Int
        BY <2>1
      <4>3. CASE x <= z
        <5>1. \A y \in s : y <= z
          BY <4>1, <4>3
        <5>. QED
          BY <4>1, <5>1
      <4>4. CASE z <= x
        <5>1. \A y \in s : y <= x
          BY <4>1, <4>2, <4>4
        <5>. QED
          BY <2>1, <5>1
      <4>. QED
        BY <4>2, <4>3, <4>4
    <3>. QED
      BY <3>1, <3>2
  <2>. HIDE DEF T
  <2>. QED
    BY <2>1, <2>2
<1>. HIDE DEF T
<1>3. S \in T
  <2>1. SUBSET S \subseteq T
    BY <1>1, <1>2, Parts
  <2>. QED
    BY <2>1
<1>. QED
  BY <1>3 DEF T

\* P[i] is the first i parts, one behind the other.
Joined(n, S, parts, P) ==
  /\ P \in [0..n -> Seq(S)]
  /\ P[0] = <<>>
  /\ \A i \in 1..n : P[i] = P[i - 1] \o parts[i]

\* A flattened sequence is its parts, joined one by one.
LEMMA Flattened ==
  ASSUME NEW n \in Nat, NEW S, NEW parts \in [1..n -> Seq(S)]
  PROVE  \E P : Joined(n, S, parts, P) /\ FlattenSeq(parts) = P[n]
<1>. DEFINE step == [i \in 1..n |-> [s \in Seq(S) |-> s \o parts[i]]]
            Body(F) == [i \in 1..Len(parts) |-> IF i = 1 THEN parts[i] ELSE F[i - 1] \o parts[i]]
            it == CHOOSE F : F = Body(F)
<1>1. Len(parts) = n
  OBVIOUS
<1>2. PICK P : Joined(n, S, parts, P)
  <2>1. \A i \in 1..n, s \in Seq(S) : s \o parts[i] \in Seq(S)
    BY ConcatProperties
  <2>2. step \in [1..n -> [Seq(S) -> Seq(S)]] /\ <<>> \in Seq(S)
    BY <2>1, EmptySeq
  <2>. HIDE DEF step
  <2>3. PICK f : Recursive(n, Seq(S), <<>>, step, f)
    BY <2>2, Recursion
  <2>4. \A i \in 1..n : f[i] = f[i - 1] \o parts[i]
    <3>. SUFFICES ASSUME NEW i \in 1..n PROVE f[i] = f[i - 1] \o parts[i]
      OBVIOUS
    <3>1. f[i - 1] \in Seq(S) /\ f[i] = step[i][f[i - 1]]
      <4>1. i - 1 \in 0..n
        OBVIOUS
      <4>. QED
        BY <2>3, <4>1 DEF Recursive
    <3>. QED
      BY <3>1 DEF step
  <2>5. Joined(n, S, parts, f)
    BY <2>3, <2>4 DEF Recursive, Joined
  <2>. QED
    BY <2>5
<1>3. it = Body(it)
  <2>. DEFINE g == [i \in 1..n |-> P[i]]
  <2>1. ASSUME NEW i \in 1..n PROVE g[i] = IF i = 1 THEN parts[i] ELSE g[i - 1] \o parts[i]
    <3>1. CASE i = 1
      <4>1. P[1] = P[0] \o parts[1] /\ P[0] = <<>>
        <5>1. 1 \in 1..n /\ 1 - 1 = 0
          BY <3>1
        <5>. QED
          BY <1>2, <5>1 DEF Joined
      <4>2. <<>> \o parts[1] = parts[1]
        BY <3>1, ConcatEmptySeq
      <4>. QED
        BY <3>1, <4>1, <4>2
    <3>2. CASE i # 1
      <4>1. i - 1 \in 1..n
        BY <3>2
      <4>. QED
        BY <1>2, <3>2, <4>1 DEF Joined
    <3>. QED
      BY <3>1, <3>2
  <2>2. g = Body(g)
    <3>1. g = [i \in 1..n |-> g[i]]
      OBVIOUS
    <3>. HIDE DEF g
    <3>. QED
      BY <1>1, <2>1, <3>1
  <2>. HIDE DEF Body
  <2>3. \E F : F = Body(F)
    BY <2>2
  <2>. QED
    BY <2>3, Zenon
<1>4. CASE n = 0
  <2>1. FlattenSeq(parts) = parts
    BY <1>1, <1>4 DEF FlattenSeq
  <2>2. parts = <<>>
    BY <1>4
  <2>. QED
    BY <1>2, <1>4, <2>1, <2>2 DEF Joined
<1>5. CASE n # 0
  <2>1. FlattenSeq(parts) = it[n]
    BY <1>1, <1>5 DEF FlattenSeq
  <2>. HIDE DEF it
  <2>2. \A i \in 1..n : it[i] = IF i = 1 THEN parts[i] ELSE it[i - 1] \o parts[i]
    <3>1. it = [i \in 1..n |-> IF i = 1 THEN parts[i] ELSE it[i - 1] \o parts[i]]
      BY <1>1, <1>3
    <3>. QED
      BY <3>1
  <2>. DEFINE T == {i \in 0..n : i # 0 => it[i] = P[i]}
  <2>3. ASSUME NEW i \in 0..n, i \in T, i # n PROVE i + 1 \in T
    <3>1. i + 1 \in 1..n /\ i + 1 \in 0..n /\ (i + 1) - 1 = i
      BY <2>3
    <3>2. P[i + 1] = P[i] \o parts[i + 1]
      BY <1>2, <3>1 DEF Joined
    <3>3. CASE i = 0
      <4>1. parts[1] \in Seq(S) /\ P[0] = <<>>
        BY <1>2, <1>5 DEF Joined
      <4>2. <<>> \o parts[1] = parts[1]
        BY <4>1, ConcatEmptySeq
      <4>. QED
        BY <2>2, <3>1, <3>2, <3>3, <4>1, <4>2
    <3>4. CASE i # 0
      <4>1. it[i + 1] = it[i] \o parts[i + 1]
        <5>1. i + 1 # 1
          BY <3>4
        <5>. QED
          BY <2>2, <3>1, <5>1
      <4>. QED
        BY <2>3, <3>1, <3>2, <3>4, <4>1
    <3>. QED
      BY <3>3, <3>4
  <2>4. 0 \in T
    OBVIOUS
  <2>. HIDE DEF T
  <2>5. \A i \in 0..n : i \in T
    BY <2>3, <2>4, UpTo
  <2>6. it[n] = P[n]
    BY <1>5, <2>5 DEF T
  <2>. QED
    BY <1>2, <2>1, <2>6
<1>. QED
  BY <1>4, <1>5

\* R[i] is what is left of the parts and w behind the first i parts.
Remaining(n, S, parts, w, R) ==
  /\ R \in [0..n -> Seq(S)]
  /\ R[0] = FlattenSeq(parts) \o w
  /\ R[n] = w
  /\ \A i \in 1..n : R[i - 1] = parts[i] \o R[i]

\* Taking the parts away from the front again, one by one, ends with what was
\* behind them.
LEMMA Unrolled ==
  ASSUME NEW n \in Nat, NEW S, NEW parts \in [1..n -> Seq(S)], NEW w \in Seq(S)
  PROVE  \E R : Remaining(n, S, parts, w, R)
<1>. DEFINE step == [i \in 1..n |-> [s \in Seq(S) |-> parts[n + 1 - i] \o s]]
<1>1. PICK f : Recursive(n, Seq(S), w, step, f)
  <2>1. \A i \in 1..n, s \in Seq(S) : parts[n + 1 - i] \o s \in Seq(S)
    <3>. SUFFICES ASSUME NEW i \in 1..n, NEW s \in Seq(S) PROVE parts[n + 1 - i] \o s \in Seq(S)
      OBVIOUS
    <3>1. n + 1 - i \in 1..n
      OBVIOUS
    <3>2. parts[n + 1 - i] \in Seq(S)
      BY <3>1
    <3>. QED
      BY <3>2, ConcatProperties
  <2>2. step \in [1..n -> [Seq(S) -> Seq(S)]]
    BY <2>1
  <2>. HIDE DEF step
  <2>. QED
    BY <2>2, Recursion
<1>2. \A i \in 1..n : f[i] = parts[n + 1 - i] \o f[i - 1]
  <2>. SUFFICES ASSUME NEW i \in 1..n PROVE f[i] = parts[n + 1 - i] \o f[i - 1]
    OBVIOUS
  <2>1. f[i - 1] \in Seq(S) /\ f[i] = step[i][f[i - 1]]
    <3>1. i - 1 \in 0..n
      OBVIOUS
    <3>. QED
      BY <1>1, <3>1 DEF Recursive
  <2>. QED
    BY <2>1
<1>. DEFINE R == [i \in 0..n |-> f[n - i]]
<1>3. R \in [0..n -> Seq(S)] /\ R[n] = w
  <2>1. \A i \in 0..n : n - i \in 0..n
    OBVIOUS
  <2>2. f \in [0..n -> Seq(S)] /\ f[0] = w
    BY <1>1 DEF Recursive
  <2>3. \A i \in 0..n : f[n - i] \in Seq(S)
    BY <2>1, <2>2
  <2>4. n \in 0..n /\ n - n = 0
    OBVIOUS
  <2>. QED
    BY <2>2, <2>3, <2>4
<1>4. \A i \in 1..n : R[i - 1] = parts[i] \o R[i]
  <2>. SUFFICES ASSUME NEW i \in 1..n PROVE R[i - 1] = parts[i] \o R[i]
    OBVIOUS
  <2>. DEFINE j == n + 1 - i
  <2>1. j \in 1..n /\ n + 1 - j = i /\ j - 1 = n - i /\ n - (i - 1) = j /\ i - 1 \in 0..n /\ i \in 0..n
    OBVIOUS
  <2>2. f[j] = parts[n + 1 - j] \o f[j - 1]
    BY <1>2, <2>1
  <2>3. R[i - 1] = f[j] /\ R[i] = f[j - 1]
    BY <2>1
  <2>. QED
    BY <2>1, <2>2, <2>3
<1>. HIDE DEF R
<1>5. PICK P : Joined(n, S, parts, P) /\ FlattenSeq(parts) = P[n]
  BY Flattened
<1>. DEFINE T == {i \in 0..n : P[i] \o R[i] = R[0]}
<1>6. 0 \in T
  <2>1. P[0] = <<>> /\ R[0] \in Seq(S)
    BY <1>3, <1>5 DEF Joined
  <2>2. <<>> \o R[0] = R[0]
    BY <2>1, ConcatEmptySeq, Zenon
  <2>3. P[0] \o R[0] = R[0]
    BY <2>1, <2>2, Zenon
  <2>. HIDE DEF R
  <2>4. 0 \in 0..n
    OBVIOUS
  <2>. QED
    BY <2>3, <2>4, Zenon
<1>7. ASSUME NEW i \in 0..n, i \in T, i # n PROVE i + 1 \in T
  <2>1. i + 1 \in 1..n /\ i + 1 \in 0..n /\ (i + 1) - 1 = i
    BY <1>7
  <2>. DEFINE j == i + 1
  <2>2. R[i] = parts[j] \o R[j] /\ P[j] = P[i] \o parts[j]
    BY <1>4, <1>5, <2>1 DEF Joined
  <2>3. P[i] \in Seq(S) /\ parts[j] \in Seq(S) /\ R[j] \in Seq(S)
    BY <1>3, <1>5, <2>1 DEF Joined
  <2>. HIDE DEF j
  <2>4. (P[i] \o parts[j]) \o R[j] = P[i] \o (parts[j] \o R[j])
    <3>. DEFINE a == P[i]
                b == parts[j]
                c == R[j]
    <3>1. a \in Seq(S) /\ b \in Seq(S) /\ c \in Seq(S)
      BY <2>3
    <3>. HIDE DEF a, b, c
    <3>2. (a \o b) \o c = a \o (b \o c)
      BY <3>1, ConcatAssociative
    <3>. QED
      BY <3>2 DEF a, b, c
  <2>5. P[j] \o R[j] = R[0]
    BY <1>7, <2>2, <2>4
  <2>. QED
    BY <2>1, <2>5 DEF j
<1>. HIDE DEF T
<1>8. n \in T
  <2>1. \A i \in 0..n : i \in T
    BY <1>6, <1>7, UpTo
  <2>. QED
    BY <2>1
<1>9. Remaining(n, S, parts, w, R)
  BY <1>3, <1>4, <1>5, <1>8 DEF T, Remaining
<1>. QED
  BY <1>9

\* A value is in front of a sequence.
LEMMA InFront ==
  ASSUME NEW S, NEW v \in S, NEW w \in Seq(S)
  PROVE  /\ <<v>> \o w \in Seq(S)
         /\ <<v>> \o w # <<>>
         /\ Head(<<v>> \o w) = v
         /\ Tail(<<v>> \o w) = w
<1>. DEFINE s == <<v>> \o w
<1>1. <<v>> \in Seq(S) /\ Len(<<v>>) = 1 /\ <<v>>[1] = v
  OBVIOUS
<1>2. /\ s \in Seq(S) /\ Len(s) = 1 + Len(w) /\ Len(w) \in Nat
      /\ \A i \in 1..(1 + Len(w)) : s[i] = IF i <= 1 THEN <<v>>[i] ELSE w[i - 1]
  BY <1>1, ConcatProperties
<1>. HIDE DEF s
<1>3. s # <<>>
  BY <1>2
<1>4. Head(s) = v
  BY <1>1, <1>2
<1>5. /\ Tail(s) \in Seq(S) /\ Len(Tail(s)) = Len(w)
      /\ \A i \in 1..Len(w) : Tail(s)[i] = s[i + 1]
  BY <1>2, <1>3, HeadTailProperties
<1>6. \A i \in 1..Len(w) : s[i + 1] = w[i]
  <2>. SUFFICES ASSUME NEW i \in 1..Len(w) PROVE s[i + 1] = w[i]
    OBVIOUS
  <2>1. i + 1 \in 1..(1 + Len(w)) /\ ~(i + 1 <= 1) /\ (i + 1) - 1 = i
    BY <1>2
  <2>. QED
    BY <1>2, <2>1
<1>7. Tail(s) = w
  <2>. DEFINE t == Tail(s)
  <2>1. t \in Seq(S) /\ Len(t) = Len(w) /\ \A i \in 1..Len(w) : t[i] = w[i]
    BY <1>5, <1>6
  <2>. HIDE DEF t
  <2>2. t = w
    BY <2>1, SeqEqual
  <2>. QED
    BY <2>2 DEF t
<1>. QED
  BY <1>2, <1>3, <1>4, <1>7 DEF s

\* Two sequences come apart where they were joined.
LEMMA Halves ==
  ASSUME NEW S, NEW b \in Seq(S), NEW w \in Seq(S)
  PROVE  /\ ~(Len(b) > Len(b \o w))
         /\ SubSeq(b \o w, 1, Len(b)) = b
         /\ SubSeq(b \o w, Len(b) + 1, Len(b \o w)) = w
<1>. DEFINE s == b \o w
            n == Len(b)
            m == Len(w)
            first == SubSeq(s, 1, n)
            second == SubSeq(s, n + 1, Len(s))
<1>1. /\ s \in Seq(S) /\ Len(s) = n + m /\ n \in Nat /\ m \in Nat
      /\ \A i \in 1..(n + m) : s[i] = IF i <= n THEN b[i] ELSE w[i - n]
  BY ConcatProperties
<1>. HIDE DEF s
<1>2. \A i \in 1..(n + m) : s[i] \in S
  BY <1>1
<1>3. first = b
  <2>1. n <= n + m /\ \A i \in 1..n : s[i] \in S
    BY <1>1, <1>2
  <2>2. /\ first \in Seq(S) /\ Len(first) = n
        /\ \A i \in 1..n : first[i] = s[1 + i - 1]
    <3>1. /\ first \in Seq(S) /\ Len(first) = IF 1 <= n THEN n - 1 + 1 ELSE 0
          /\ \A i \in 1..(n - 1 + 1) : first[i] = s[1 + i - 1]
      BY <1>1, <2>1, SubSeqProperties
    <3>. HIDE DEF first, n
    <3>. QED
      BY <1>1, <3>1
  <2>. HIDE DEF first
  <2>3. \A i \in 1..n : first[i] = b[i]
    BY <1>1, <2>2
  <2>. QED
    BY <2>2, <2>3, SeqEqual
<1>4. second = w
  <2>1. \A i \in (n + 1)..Len(s) : s[i] \in S
    BY <1>1, <1>2
  <2>2. /\ second \in Seq(S) /\ Len(second) = m
        /\ \A i \in 1..m : second[i] = s[n + i]
    <3>. DEFINE a == n + 1
                z == Len(s)
    <3>1. a \in Int /\ z \in Int /\ z - a + 1 = m /\ (a <= z <=> m # 0)
      BY <1>1
    <3>2. \A i \in 1..m : a + i - 1 = n + i
      BY <1>1
    <3>. HIDE DEF a, z
    <3>3. /\ SubSeq(s, a, z) \in Seq(S)
          /\ Len(SubSeq(s, a, z)) = IF a <= z THEN z - a + 1 ELSE 0
          /\ \A i \in 1..(z - a + 1) : SubSeq(s, a, z)[i] = s[a + i - 1]
      BY <2>1, <3>1, SubSeqProperties DEF a, z
    <3>4. second = SubSeq(s, a, z)
      BY DEF a, z
    <3>. HIDE DEF second, m, n
    <3>. QED
      BY <1>1, <3>1, <3>2, <3>3, <3>4
  <2>. HIDE DEF second
  <2>3. \A i \in 1..m : second[i] = w[i]
    BY <1>1, <2>2
  <2>. QED
    BY <2>2, <2>3, SeqEqual
<1>5. ~(n > Len(s))
  BY <1>1
<1>. QED
  BY <1>3, <1>4, <1>5 DEF s

At(in, val) == [ok |-> TRUE, in |-> in, val |-> val]

\* A function on 1..n is a sequence of n values.
LEMMA AsSequence ==
  ASSUME NEW n \in Nat, NEW S, NEW f \in [1..n -> S]
  PROVE  f \in Seq(S) /\ Len(f) = n
  OBVIOUS

\* s is a and then b.
Behind(s, a, b) == s = a \o b

\* Joining does not depend on the grouping.
LEMMA Regrouped ==
  ASSUME NEW S, NEW a \in Seq(S), NEW b \in Seq(S), NEW c \in Seq(S),
         NEW s, NEW t, Behind(s, a, b), Behind(t, b, c), NEW u, Behind(u, s, c)
  PROVE  Behind(u, a, t)
  BY ConcatAssociative DEF Behind

\* Of two fronts of one sequence the shorter is in front of the longer.
LEMMA FrontOf ==
  ASSUME NEW S, NEW p \in Seq(S), NEW y \in Seq(S), NEW a \in Seq(S), NEW b \in Seq(S),
         NEW s, Behind(s, p, y), Behind(s, a, b), Len(a) <= Len(p)
  PROVE  \E c \in Seq(S) : Behind(p, a, c) /\ Behind(b, c, y)
<1>. DEFINE k == Len(a)
            n == Len(p)
            c == SubSeq(p, k + 1, n)
<1>1. /\ k \in Nat /\ n \in Nat /\ k <= n /\ (\A i \in 1..n : p[i] \in S)
      /\ Len(b) \in Nat /\ Len(y) \in Nat
  BY LenProperties, ElementOfSeq
<1>. HIDE DEF k, n
<1>2. c \in Seq(S) /\ Len(c) = n - k /\ \A i \in 1..(n - k) : c[i] = p[k + i]
  <2>. DEFINE m == k + 1
  <2>1. m \in Int /\ n \in Int /\ n - m + 1 = n - k /\ (m <= n <=> n - k # 0)
    BY <1>1
  <2>2. \A i \in m..n : p[i] \in S
    BY <1>1
  <2>3. \A i \in 1..(n - k) : m + i - 1 = k + i
    BY <1>1
  <2>. HIDE DEF m
  <2>4. /\ SubSeq(p, m, n) \in Seq(S)
        /\ Len(SubSeq(p, m, n)) = IF m <= n THEN n - m + 1 ELSE 0
        /\ \A i \in 1..(n - m + 1) : SubSeq(p, m, n)[i] = p[m + i - 1]
    BY <2>1, <2>2, SubSeqProperties DEF n
  <2>5. c = SubSeq(p, m, n)
    BY DEF m
  <2>. HIDE DEF c
  <2>. QED
    BY <2>1, <2>3, <2>4, <2>5
<1>. HIDE DEF c
<1>3. \A i \in 1..k : p[i] = a[i]
  <2>1. /\ Len(p \o y) = n + Len(y)
        /\ \A i \in 1..(n + Len(y)) : (p \o y)[i] = IF i <= n THEN p[i] ELSE y[i - n]
    BY ConcatProperties DEF n
  <2>2. /\ Len(a \o b) = k + Len(b)
        /\ \A i \in 1..(k + Len(b)) : (a \o b)[i] = IF i <= k THEN a[i] ELSE b[i - k]
    BY ConcatProperties DEF k
  <2>. DEFINE u == p \o y
              v == a \o b
  <2>. HIDE DEF u, v
  <2>3. SUFFICES ASSUME NEW i \in 1..k PROVE p[i] = a[i]
    OBVIOUS
  <2>6. u = v
    BY Zenon DEF u, v, Behind
  <2>4. u[i] = p[i]
    BY <1>1, <2>1 DEF u
  <2>5. v[i] = a[i]
    BY <1>1, <2>2 DEF v
  <2>. QED
    BY <2>4, <2>5, <2>6
<1>4. p = a \o c
  <2>. DEFINE d == a \o c
  <2>1. /\ d \in Seq(S) /\ Len(d) = k + Len(c)
        /\ \A i \in 1..(k + Len(c)) : d[i] = IF i <= k THEN a[i] ELSE c[i - k]
    BY <1>2, ConcatProperties DEF k
  <2>. HIDE DEF d
  <2>2. Len(d) = n
    BY <1>1, <1>2, <2>1
  <2>3. \A i \in 1..n : p[i] = d[i]
    <3>. SUFFICES ASSUME NEW i \in 1..n PROVE p[i] = d[i]
      OBVIOUS
    <3>0. i \in 1..(k + Len(c))
      BY <2>1, <2>2
    <3>1. CASE i <= k
      <4>1. i \in 1..k /\ d[i] = a[i]
        BY <2>1, <3>0, <3>1
      <4>. QED
        BY <1>3, <4>1
    <3>2. CASE ~(i <= k)
      <4>1. i - k \in 1..(n - k) /\ k + (i - k) = i
        BY <1>1, <3>2
      <4>2. c[i - k] = p[i]
        BY <1>2, <4>1
      <4>. QED
        BY <2>1, <3>0, <3>2, <4>2
    <3>. QED
      BY <3>1, <3>2
  <2>4. Len(p) = n
    BY DEF n
  <2>5. p = d
    BY <2>1, <2>2, <2>3, <2>4, SeqEqual
  <2>. QED
    BY <2>5 DEF d
<1>5. c \o y = b
  <2>. DEFINE t == c \o y
  <2>1. t \in Seq(S)
    BY <1>2, ConcatProperties
  <2>2. a \o t = a \o b
    <3>1. Behind(p, a, c) /\ Behind(t, c, y)
      BY <1>4, Zenon DEF Behind
    <3>. HIDE DEF t
    <3>3. Behind(p \o y, p, y)
      BY Zenon DEF Behind
    <3>4. Behind(p \o y, a, t)
      BY <1>2, <3>1, <3>3, Regrouped
    <3>2. p \o y = a \o t
      BY <3>4, Zenon DEF Behind
    <3>. QED
      BY <3>2, Zenon DEF Behind
  <2>. HIDE DEF t
  <2>3. SubSeq(a \o t, Len(a) + 1, Len(a \o t)) = t
    BY <2>1, Halves
  <2>4. SubSeq(a \o b, Len(a) + 1, Len(a \o b)) = b
    BY Halves
  <2>5. t = b
    BY <2>2, <2>3, <2>4
  <2>. QED
    BY <2>5 DEF t
<1>6. Behind(p, a, c) /\ Behind(b, c, y)
  BY <1>4, <1>5, Zenon DEF Behind
<1>. QED
  BY <1>2, <1>6

\* q is s without its end.
Cut(q, s) == q \in Seq(Nat) /\ \E y \in Seq(Nat) : y # <<>> /\ q \o y = s

\* A cut is in the first half, or behind it in the second.
LEMMA CutIn ==
  ASSUME NEW q, NEW a \in Seq(Nat), NEW b \in Seq(Nat), Cut(q, a \o b)
  PROVE  Cut(q, a) \/ \E c \in Seq(Nat) : q = a \o c /\ Cut(c, b)
<1>1. PICK y \in Seq(Nat) : y # <<>> /\ q \o y = a \o b
  BY DEF Cut
<1>2. q \in Seq(Nat) /\ Len(q) \in Nat /\ Len(a) \in Nat
  BY LenProperties DEF Cut
<1>. DEFINE s == a \o b
<1>6. Behind(s, a, b) /\ Behind(s, q, y)
  BY <1>1, Zenon DEF Behind
<1>. HIDE DEF s
<1>3. CASE Len(a) <= Len(q)
  <2>1. PICK c \in Seq(Nat) : Behind(q, a, c) /\ Behind(b, c, y)
    BY <1>2, <1>3, <1>6, FrontOf
  <2>. QED
    BY <1>1, <2>1, Zenon DEF Cut, Behind
<1>4. CASE Len(q) < Len(a)
  <2>0. Len(q) <= Len(a)
    BY <1>2, <1>4
  <2>1. PICK z \in Seq(Nat) : Behind(a, q, z) /\ Behind(y, z, b)
    BY <1>2, <1>6, <2>0, FrontOf
  <2>2. z # <<>>
    <3>1. q \o <<>> = q
      BY <1>2, ConcatEmptySeq
    <3>. QED
      BY <1>2, <1>4, <2>1, <3>1 DEF Behind
  <2>. QED
    BY <1>2, <2>1, <2>2, Zenon DEF Cut, Behind
<1>5. Len(a) <= Len(q) \/ Len(q) < Len(a)
  BY <1>2
<1>. QED
  BY <1>3, <1>4, <1>5, Zenon

\* Nothing can be cut off the empty sequence.
LEMMA CutNone ==
  ASSUME NEW q
  PROVE  ~Cut(q, <<>>)
<1>. SUFFICES ASSUME Cut(q, <<>>) PROVE FALSE
  OBVIOUS
<1>1. PICK y \in Seq(Nat) : y # <<>> /\ q \o y = <<>>
  BY DEF Cut
<1>2. q \in Seq(Nat)
  BY DEF Cut
<1>3. Len(q \o y) = Len(q) + Len(y) /\ Len(q) \in Nat /\ Len(y) \in Nat
  BY <1>2, ConcatProperties, LenProperties
<1>4. Len(y) # 0
  BY <1>1, EmptySeq
<1>. QED
  BY <1>1, <1>3, <1>4

\* A cut is before a value or behind it.
LEMMA CutOne ==
  ASSUME NEW v \in Nat, NEW s \in Seq(Nat), NEW q, Cut(q, <<v>> \o s)
  PROVE  q = <<>> \/ \E p \in Seq(Nat) : q = <<v>> \o p /\ Cut(p, s)
<1>. DEFINE a == <<v>>
<1>1. a \in Seq(Nat) /\ Len(a) = 1
  OBVIOUS
<1>. HIDE DEF a
<1>2. Cut(q, a) \/ \E c \in Seq(Nat) : q = a \o c /\ Cut(c, s)
  BY <1>1, CutIn DEF a
<1>3. ASSUME Cut(q, a) PROVE q = <<>>
  <2>1. PICK y \in Seq(Nat) : y # <<>> /\ q \o y = a
    BY <1>3 DEF Cut
  <2>2. q \in Seq(Nat)
    BY <1>3 DEF Cut
  <2>3. Len(q \o y) = Len(q) + Len(y) /\ Len(q) \in Nat /\ Len(y) \in Nat
    BY <2>2, ConcatProperties, LenProperties
  <2>4. Len(y) # 0
    BY <2>1, EmptySeq
  <2>5. Len(q) = 0
    <3>1. Len(q \o y) = 1
      BY <1>1, <2>1
    <3>. QED
      BY <2>3, <2>4, <3>1
  <2>. QED
    BY <2>2, <2>5, EmptySeq
<1>. QED
  BY <1>2, <1>3 DEF a

\* The elements of a finite set in an order that is strict and total, given by
\* what is below each: their positions are those of a sequence of them.
Orders(A, below) ==
  /\ IsFiniteSet(A)
  /\ below \in [A -> SUBSET A]
  /\ \A x \in A : x \notin below[x]
  /\ \A x, y \in A : \/ x = y
                     \/ x \in below[y] /\ below[x] \subseteq below[y]
                     \/ y \in below[x] /\ below[y] \subseteq below[x]

Positioned(A, below) ==
  /\ Cardinality(A) \in Nat
  /\ \A x \in A : Cardinality(below[x]) \in 0..(Cardinality(A) - 1)
  /\ \A x, y \in A : Cardinality(below[x]) = Cardinality(below[y]) => x = y
  /\ \A r \in 1..Cardinality(A) : \E x \in A : Cardinality(below[x]) = r - 1

\* In a strict order of n things each has its own position, and every position is
\* taken.
LEMMA Ranks ==
  ASSUME NEW A, NEW below, Orders(A, below)
  PROVE  Positioned(A, below)
<1>. DEFINE n == Cardinality(A)
            pos == [x \in A |-> Cardinality(below[x])]
<1>1. IsFiniteSet(A) /\ n \in Nat
  BY FS_CardinalityType DEF Orders
<1>2. ASSUME NEW x \in A
      PROVE  IsFiniteSet(below[x]) /\ Cardinality(below[x]) \in 0..(n - 1)
  <2>1. below[x] \subseteq A \ {x}
    BY DEF Orders
  <2>2. IsFiniteSet(A \ {x}) /\ Cardinality(A \ {x}) = n - 1
    BY <1>1, FS_RemoveElement
  <2>3. /\ IsFiniteSet(below[x]) /\ Cardinality(below[x]) <= n - 1
        /\ Cardinality(below[x]) \in Nat
    BY <2>1, <2>2, FS_Subset, FS_CardinalityType
  <2>. QED
    BY <1>1, <2>3
<1>3. ASSUME NEW x \in A, NEW y \in A, x \in below[y], below[x] \subseteq below[y]
      PROVE  Cardinality(below[x]) # Cardinality(below[y])
  <2>1. x \notin below[x] /\ IsFiniteSet(below[y])
    BY <1>2 DEF Orders
  <2>. QED
    BY <1>3, <2>1, FS_Subset
<1>4. ASSUME NEW x \in A, NEW y \in A, Cardinality(below[x]) = Cardinality(below[y])
      PROVE  x = y
  BY <1>3, <1>4 DEF Orders
<1>5. ASSUME NEW r \in 1..n, \A x \in A : Cardinality(below[x]) # r - 1
      PROVE  FALSE
  <2>. DEFINE T == (0..(n - 1)) \ {r - 1}
  <2>1. IsFiniteSet(0..(n - 1)) /\ Cardinality(0..(n - 1)) = n
    <3>1. 0 \in Int /\ n - 1 \in Int /\ ~(0 > n - 1) /\ (n - 1) - 0 + 1 = n
      BY <1>1, <1>5
    <3>. HIDE DEF n
    <3>. QED
      BY <3>1, FS_Interval
  <2>2. IsFiniteSet(T) /\ Cardinality(T) = n - 1
    <3>. DEFINE Q == 0..(n - 1)
    <3>1. r - 1 \in Q
      BY <1>1, <1>5
    <3>2. IsFiniteSet(Q) /\ Cardinality(Q) = n
      BY <2>1
    <3>3. T = Q \ {r - 1}
      OBVIOUS
    <3>. HIDE DEF Q, T
    <3>4. IsFiniteSet(Q \ {r - 1}) /\ Cardinality(Q \ {r - 1}) = Cardinality(Q) - 1
      BY <3>1, <3>2, FS_RemoveElement
    <3>. QED
      BY <3>2, <3>3, <3>4
  <2>3. pos \in [A -> T]
    BY <1>2, <1>5
  <2>4. Cardinality(T) < Cardinality(A)
    BY <1>1, <2>2
  <2>. HIDE DEF T, pos, n
  <2>5. \E x, y \in A : x # y /\ pos[x] = pos[y]
    <3>1. IsFiniteSet(A) /\ IsFiniteSet(T)
      BY <1>1, <2>2
    <3>. QED
      BY <2>3, <2>4, <3>1, FS_PigeonHole
  <2>. QED
    BY <2>5, <1>4 DEF pos
<1>. QED
  BY <1>1, <1>2, <1>4, <1>5 DEF Positioned

\* The elements of a set of numbers in ascending order, each once.
Enumerates(s, S) ==
  /\ s \in [1..Cardinality(S) -> S]
  /\ Cardinality(S) \in Nat
  /\ \A x \in S : \E r \in DOMAIN s : s[r] = x
  /\ \A q, r \in DOMAIN s : s[q] = s[r] => q = r

\* How often t is in the sequence s.
Places(s, t) == {i \in DOMAIN s : s[i] = t}

Often(s, t) == Cardinality(Places(s, t))

\* A value occurs in a sequence at most as often as the sequence is long, and not
\* at all where it is not in it.
LEMMA OftenType ==
  ASSUME NEW S, NEW s \in Seq(S), NEW t
  PROVE  /\ IsFiniteSet(DOMAIN s) /\ IsFiniteSet(Places(s, t))
         /\ Often(s, t) \in 0..Len(s)
         /\ Often(s, t) = 0 <=> t \notin ToSet(s)
<1>. DEFINE D == 1..Len(s)
            P == Places(s, t)
<1>1. Len(s) \in Nat /\ DOMAIN s = D
  BY LenProperties
<1>2. IsFiniteSet(D) /\ Cardinality(D) = Len(s)
  <2>. DEFINE n == Len(s)
  <2>1. 1 \in Int /\ n \in Int /\ (IF 1 > n THEN 0 ELSE n - 1 + 1) = n
    BY <1>1
  <2>. HIDE DEF n
  <2>2. IsFiniteSet(1..n) /\ Cardinality(1..n) = n
    BY <2>1, FS_Interval
  <2>. QED
    BY <2>2 DEF n
<1>3. P \in SUBSET D
  BY <1>1 DEF Places
<1>. HIDE DEF D, P
<1>4. IsFiniteSet(P) /\ Cardinality(P) <= Len(s) /\ Cardinality(P) \in Nat
  BY <1>2, <1>3, FS_Subset, FS_CardinalityType
<1>5. Cardinality(P) = 0 <=> P = {}
  BY <1>4, FS_EmptySet
<1>6. P = {} <=> t \notin ToSet(s)
  BY DEF P, Places, ToSet
<1>. QED
  BY <1>1, <1>2, <1>4, <1>5, <1>6 DEF Often, P

\* The size of two sets with nothing in common.
LEMMA Apart ==
  ASSUME NEW A, IsFiniteSet(A), NEW B, IsFiniteSet(B), A \cap B = {}
  PROVE  Cardinality(A \cup B) = Cardinality(A) + Cardinality(B)
<1>1. Cardinality(A \cup B) = Cardinality(A) + Cardinality(B) - Cardinality(A \cap B)
  BY FS_Union
<1>2. Cardinality(A \cap B) = 0
  BY FS_EmptySet, Zenon
<1>3. Cardinality(A) \in Nat /\ Cardinality(B) \in Nat
  BY FS_CardinalityType
<1>. QED
  BY <1>1, <1>2, <1>3

\* Two sequences have one bag when they hold each value equally often.
LEMMA BagOften ==
  ASSUME NEW S, NEW s \in Seq(S), NEW u \in Seq(S)
  PROVE  ToBag(s) = ToBag(u) <=> \A t \in S : Often(s, t) = Often(u, t)
<1>1. \A t : Often(s, t) \in Nat /\ (Often(s, t) = 0 <=> t \notin ToSet(s))
  <2>1. \A t : Often(s, t) \in 0..Len(s) /\ (Often(s, t) = 0 <=> t \notin ToSet(s))
    BY OftenType
  <2>. QED
    BY <2>1
<1>2. \A t : Often(u, t) \in Nat /\ (Often(u, t) = 0 <=> t \notin ToSet(u))
  <2>1. \A t : Often(u, t) \in 0..Len(u) /\ (Often(u, t) = 0 <=> t \notin ToSet(u))
    BY OftenType
  <2>. QED
    BY <2>1
<1>3. ToSet(s) \subseteq S /\ ToSet(u) \subseteq S
  BY LenProperties DEF ToSet
<1>4. /\ ToBag(s) = [t \in ToSet(s) |-> Often(s, t)]
      /\ ToBag(u) = [t \in ToSet(u) |-> Often(u, t)]
  BY DEF ToBag, Range, ToSet, Often, Places
<1>. DEFINE a == ToBag(s)
            b == ToBag(u)
<1>5. /\ DOMAIN a = ToSet(s) /\ \A t \in ToSet(s) : a[t] = Often(s, t)
      /\ DOMAIN b = ToSet(u) /\ \A t \in ToSet(u) : b[t] = Often(u, t)
  BY <1>4
<1>6. a = [t \in DOMAIN a |-> a[t]] /\ b = [t \in DOMAIN b |-> b[t]]
  BY <1>4
<1>. HIDE DEF a, b
<1>7. ASSUME a = b, NEW t \in S PROVE Often(s, t) = Often(u, t)
  BY <1>1, <1>2, <1>5, <1>7
<1>8. ASSUME \A t \in S : Often(s, t) = Often(u, t) PROVE a = b
  <2>1. ToSet(s) = ToSet(u)
    BY <1>1, <1>2, <1>3, <1>8
  <2>2. \A t \in ToSet(s) : a[t] = b[t]
    BY <1>3, <1>5, <1>8, <2>1
  <2>. QED
    BY <1>5, <1>6, <2>1, <2>2
<1>. QED
  BY <1>7, <1>8 DEF a, b

\* Such sequences are of one length.
LEMMA BagLength ==
  ASSUME NEW S, NEW s \in Seq(S), NEW u \in Seq(S), \A t \in S : Often(s, t) = Often(u, t)
  PROVE  ToSet(s) = ToSet(u) /\ Len(s) = Len(u)
<1>. DEFINE Within(q, E) == {i \in DOMAIN q : q[i] \in E}
            W == ToSet(s)
            T == {E \in SUBSET W : Cardinality(Within(s, E)) = Cardinality(Within(u, E))}
<1>1. ToSet(s) = ToSet(u)
  <2>1. \A t : Often(s, t) = 0 <=> t \notin ToSet(s)
    BY OftenType
  <2>2. \A t : Often(u, t) = 0 <=> t \notin ToSet(u)
    BY OftenType
  <2>3. ToSet(s) \subseteq S /\ ToSet(u) \subseteq S
    BY LenProperties DEF ToSet
  <2>. QED
    BY <2>1, <2>2, <2>3
<1>2. IsFiniteSet(W)
  <2>1. IsFiniteSet(DOMAIN s)
    BY OftenType
  <2>2. s \in [DOMAIN s -> W]
    BY LenProperties DEF ToSet
  <2>3. s \in Surjection(DOMAIN s, W)
    BY <2>2 DEF Surjection, ToSet
  <2>. HIDE DEF W
  <2>. QED
    BY <2>1, <2>3, FS_Surjection
<1>3. ASSUME NEW q \in Seq(S), NEW E, NEW x \in E
      PROVE  /\ IsFiniteSet(Within(q, E))
             /\ Cardinality(Within(q, E)) = Cardinality(Within(q, E \ {x})) + Often(q, x)
  <2>. DEFINE A == Within(q, E \ {x})
              B == Places(q, x)
              C == Within(q, E)
  <2>1. IsFiniteSet(DOMAIN q) /\ IsFiniteSet(B)
    BY OftenType
  <2>2. A \in SUBSET DOMAIN q /\ C \in SUBSET DOMAIN q /\ A \cup B = C /\ A \cap B = {}
    BY DEF Places
  <2>. HIDE DEF A, B, C
  <2>3. IsFiniteSet(A) /\ IsFiniteSet(C)
    BY <2>1, <2>2, FS_Subset
  <2>6. Cardinality(C) = Cardinality(A) + Cardinality(B)
    BY <2>1, <2>2, <2>3, Apart
  <2>. QED
    BY <2>3, <2>6 DEF A, B, C, Often
<1>4. {} \in T
  OBVIOUS
<1>5. ASSUME NEW E \in (SUBSET W) \ {{}} PROVE \E x \in E : E \ {x} \in T => E \in T
  <2>1. PICK x \in E : TRUE
    OBVIOUS
  <2>2. x \in S
    BY LenProperties DEF ToSet
  <2>3. /\ Cardinality(Within(s, E)) = Cardinality(Within(s, E \ {x})) + Often(s, x)
        /\ Cardinality(Within(u, E)) = Cardinality(Within(u, E \ {x})) + Often(u, x)
    <3>. HIDE DEF Within
    <3>. QED
      BY <1>3
  <2>. HIDE DEF Within, W
  <2>4. E \ {x} \in T => E \in T
    BY <2>2, <2>3
  <2>. QED
    BY <2>4
<1>6. W \in T
  <2>. HIDE DEF T, W
  <2>1. SUBSET W \subseteq T
    BY <1>2, <1>4, <1>5, Parts
  <2>. QED
    BY <2>1
<1>7. Within(s, W) = 1..Len(s) /\ Within(u, W) = 1..Len(u) /\ Len(s) \in Nat /\ Len(u) \in Nat
  BY <1>1, LenProperties DEF ToSet
<1>8. \A n \in Nat : Cardinality(1..n) = n
  <2>. SUFFICES ASSUME NEW n \in Nat PROVE Cardinality(1..n) = n
    OBVIOUS
  <2>1. 1 \in Int /\ n \in Int /\ (IF 1 > n THEN 0 ELSE n - 1 + 1) = n
    OBVIOUS
  <2>2. Cardinality(1..n) = IF 1 > n THEN 0 ELSE n - 1 + 1
    BY <2>1, FS_Interval
  <2>. QED
    BY <2>1, <2>2
<1>9. Len(s) = Len(u)
  <2>. HIDE DEF Within, W
  <2>1. Cardinality(Within(s, W)) = Cardinality(Within(u, W))
    BY <1>6
  <2>. QED
    BY <1>7, <1>8, <2>1
<1>. QED
  BY <1>1, <1>9

Copies(k, v) == [i \in 1..k |-> v]

\* k copies of a value hold it k times, and no other.
LEMMA OftenCopies ==
  ASSUME NEW k \in Nat, NEW v, NEW t
  PROVE  Often(Copies(k, v), t) = IF t = v THEN k ELSE 0
<1>1. Cardinality(1..k) = k
  <2>1. 1 \in Int /\ k \in Int /\ (IF 1 > k THEN 0 ELSE k - 1 + 1) = k
    OBVIOUS
  <2>2. Cardinality(1..k) = IF 1 > k THEN 0 ELSE k - 1 + 1
    BY <2>1, FS_Interval
  <2>. QED
    BY <2>1, <2>2
<1>2. Places(Copies(k, v), t) = IF t = v THEN 1..k ELSE {}
  BY DEF Places, Copies
<1>. QED
  BY <1>1, <1>2, FS_EmptySet DEF Often

\* What is joined holds a value as often as both together.
LEMMA OftenJoined ==
  ASSUME NEW S, NEW s \in Seq(S), NEW u \in Seq(S), NEW t
  PROVE  Often(s \o u, t) = Often(s, t) + Often(u, t)
<1>. DEFINE w == s \o u
            n == Len(s)
            A == Places(s, t)
            B == Places(u, t)
            C == Places(w, t)
            moved == [i \in B |-> i + n]
            M == {i + n : i \in B}
<1>1. /\ n \in Nat /\ Len(u) \in Nat /\ DOMAIN s = 1..n /\ DOMAIN u = 1..Len(u)
      /\ DOMAIN w = 1..(n + Len(u))
      /\ \A i \in 1..(n + Len(u)) : w[i] = IF i <= n THEN s[i] ELSE u[i - n]
  <2>1. /\ w \in Seq(S) /\ Len(w) = n + Len(u)
        /\ \A i \in 1..(n + Len(u)) : w[i] = IF i <= n THEN s[i] ELSE u[i - n]
    BY ConcatProperties
  <2>. HIDE DEF w
  <2>. QED
    BY <2>1, LenProperties
<1>. HIDE DEF w, n
<1>2. IsFiniteSet(A) /\ IsFiniteSet(B)
  BY OftenType
<1>3. A \cup M = C /\ A \cap M = {}
  <2>1. A \subseteq C
    BY <1>1 DEF Places
  <2>2. ASSUME NEW i \in B PROVE i + n \in C /\ i + n \notin A
    <3>1. i \in 1..Len(u) /\ u[i] = t
      BY <1>1 DEF Places
    <3>2. i + n \in 1..(n + Len(u)) /\ ~(i + n <= n) /\ (i + n) - n = i
      BY <1>1, <3>1
    <3>. QED
      BY <1>1, <3>1, <3>2 DEF Places
  <2>3. ASSUME NEW j \in C, j \notin A PROVE j \in M
    <3>1. j \in 1..(n + Len(u)) /\ w[j] = t
      BY <1>1 DEF Places
    <3>2. ~(j <= n)
      BY <1>1, <2>3, <3>1 DEF Places
    <3>3. j - n \in 1..Len(u) /\ u[j - n] = t /\ (j - n) + n = j
      BY <1>1, <3>1, <3>2
    <3>4. j - n \in B
      BY <1>1, <3>3 DEF Places
    <3>. QED
      BY <3>3, <3>4
  <2>. HIDE DEF A, B, C
  <2>. QED
    BY <2>1, <2>2, <2>3
<1>4. IsFiniteSet(M) /\ Cardinality(M) = Cardinality(B)
  <2>1. B \subseteq Nat
    BY <1>1 DEF Places
  <2>. HIDE DEF B
  <2>2. moved \in Bijection(B, M)
    <3>1. moved \in [B -> M] /\ \A m \in M : \E i \in B : moved[i] = m
      OBVIOUS
    <3>2. \A i, j \in B : moved[i] = moved[j] => i = j
      BY <1>1, <2>1
    <3>. HIDE DEF moved, M
    <3>. QED
      BY <3>1, <3>2 DEF Bijection, Injection, IsInjective, Surjection
  <2>. HIDE DEF moved, M
  <2>3. ExistsBijection(B, M)
    BY <2>2 DEF ExistsBijection
  <2>. QED
    BY <1>2, <2>3, FS_Bijection
<1>. HIDE DEF A, B, C, M
<1>7. Cardinality(C) = Cardinality(A) + Cardinality(B)
  BY <1>2, <1>3, <1>4, Apart
<1>. QED
  BY <1>7 DEF A, B, C, Often, w

\* Values one after the other, each as often as it is said.
Repeated(m, dict, k) == FlattenSeq([j \in 1..m |-> [i \in 1..k[j] |-> dict[j]]])

\* Terms repeated, one after the other, occur as often as they were repeated.
LEMMA RepeatedOften ==
  ASSUME NEW m \in Nat, NEW dict \in [1..m -> Nat], NEW k \in [1..m -> Nat],
         \A i, j \in 1..m : dict[i] = dict[j] => i = j
  PROVE  /\ Repeated(m, dict, k) \in Seq(Nat)
         /\ \A j \in 1..m : Often(Repeated(m, dict, k), dict[j]) = k[j]
         /\ \A t : (\A j \in 1..m : dict[j] # t) => Often(Repeated(m, dict, k), t) = 0
<1>. DEFINE parts == [j \in 1..m |-> [i \in 1..k[j] |-> dict[j]]]
<1>1. ASSUME NEW j \in 1..m
      PROVE  /\ parts[j] \in Seq(Nat)
             /\ \A t : Often(parts[j], t) = IF t = dict[j] THEN k[j] ELSE 0
  <2>. DEFINE q == k[j]
              v == dict[j]
              s == Copies(q, v)
  <2>1. q \in Nat /\ v \in Nat /\ parts[j] = s
    BY DEF Copies
  <2>. HIDE DEF q, v
  <2>2. s \in [1..q -> Nat]
    BY <2>1 DEF Copies
  <2>3. s \in Seq(Nat)
    <3>. HIDE DEF s
    <3>. QED
      BY <2>1, <2>2, AsSequence
  <2>4. ASSUME NEW t PROVE Often(s, t) = IF t = v THEN q ELSE 0
    BY <2>1, OftenCopies
  <2>. QED
    BY <2>1, <2>3, <2>4 DEF q, v
<1>2. parts = [j \in 1..m |-> parts[j]]
  OBVIOUS
<1>. HIDE DEF parts
<1>3. parts \in [1..m -> Seq(Nat)]
  BY <1>1, <1>2
<1>4. PICK P : Joined(m, Nat, parts, P) /\ FlattenSeq(parts) = P[m]
  BY <1>3, Flattened
<1>5. /\ \A j \in 0..m : P[j] \in Seq(Nat)
      /\ P[0] = <<>>
      /\ \A j \in 1..m : P[j] = P[j - 1] \o parts[j]
  BY <1>4 DEF Joined
<1>. DEFINE Held(j, t) == \E i \in 1..j : dict[i] = t
            Full(j) == /\ \A i \in 1..j : Often(P[j], dict[i]) = k[i]
                       /\ \A t : ~Held(j, t) => Often(P[j], t) = 0
            T == {j \in 0..m : Full(j)}
<1>6. 0 \in T
  <2>1. \A t : Often(P[0], t) = 0
    <3>1. \A t : Places(<<>>, t) = {}
      BY DEF Places
    <3>. QED
      BY <1>5, <3>1, FS_EmptySet DEF Often
  <2>. QED
    BY <2>1
<1>7. ASSUME NEW j \in 0..m, j \in T, j # m PROVE j + 1 \in T
  <2>. DEFINE n == j + 1
  <2>1. n \in 1..m /\ n - 1 = j /\ n \in 0..m /\ j \in Nat
    BY <1>7
  <2>2. P[n] = P[j] \o parts[n] /\ P[j] \in Seq(Nat) /\ parts[n] \in Seq(Nat)
    BY <1>1, <1>5, <2>1
  <2>. HIDE DEF n
  <2>3. ASSUME NEW t
        PROVE  Often(P[n], t) = Often(P[j], t) + (IF t = dict[n] THEN k[n] ELSE 0)
    <3>1. Often(P[j] \o parts[n], t) = Often(P[j], t) + Often(parts[n], t)
      BY <2>2, OftenJoined
    <3>2. Often(parts[n], t) = IF t = dict[n] THEN k[n] ELSE 0
      BY <1>1, <2>1
    <3>. QED
      BY <2>2, <3>1, <3>2
  <2>4. k[n] \in Nat /\ ~Held(j, dict[n])
    <3>1. \A i \in 1..j : i \in 1..m /\ i # n
      BY <2>1 DEF n
    <3>. QED
      BY <2>1, <3>1
  <2>5. Full(j)
    BY <1>7
  <2>6. ASSUME NEW i \in 1..n PROVE Often(P[n], dict[i]) = k[i]
    <3>1. CASE i = n
      <4>1. Often(P[j], dict[n]) = 0
        BY <2>4, <2>5
      <4>2. Often(P[n], dict[n]) = Often(P[j], dict[n]) + k[n]
        BY <2>3
      <4>. QED
        BY <2>4, <3>1, <4>1, <4>2
    <3>2. CASE i # n
      <4>1. i \in 1..j /\ i \in 1..m
        BY <2>1, <3>2
      <4>2. dict[i] # dict[n]
        BY <2>1, <3>2, <4>1
      <4>3. Often(P[j], dict[i]) = k[i] /\ k[i] \in Nat
        BY <2>5, <4>1
      <4>4. Often(P[n], dict[i]) = Often(P[j], dict[i]) + 0
        BY <2>3, <4>2
      <4>. QED
        BY <4>3, <4>4
    <3>. QED
      BY <3>1, <3>2
  <2>7. ASSUME NEW t, ~Held(n, t) PROVE Often(P[n], t) = 0
    <3>1. n \in 1..n /\ \A i \in 1..j : i \in 1..n
      BY <2>1
    <3>2. t # dict[n] /\ ~Held(j, t)
      BY <2>7, <3>1
    <3>3. Often(P[j], t) = 0
      BY <2>5, <3>2
    <3>4. Often(P[n], t) = Often(P[j], t) + 0
      BY <2>3, <3>2
    <3>. QED
      BY <3>3, <3>4
  <2>. HIDE DEF Held
  <2>8. n \in T
    BY <2>1, <2>6, <2>7
  <2>. QED
    BY <2>8 DEF n
<1>8. m \in T
  <2>. HIDE DEF T
  <2>1. m \in 0..m
    OBVIOUS
  <2>2. \A j \in 0..m : j \in T
    BY <1>6, <1>7, UpTo
  <2>. QED
    BY <2>1, <2>2
<1>9. Repeated(m, dict, k) = P[m] /\ P[m] \in Seq(Nat)
  BY <1>4, <1>5 DEF Repeated, parts
<1>. QED
  BY <1>8, <1>9

\* How often a posting lists a document.
TimesIn(p, d) ==
  IF Contains(p.docs, d) THEN p.tf[CHOOSE i \in DOMAIN p.docs : p.docs[i] = d] ELSE 0

\* What a fold over a sequence goes through, from an empty part to all of it.
Chained(n, V, base, op, h) ==
  /\ h \in [SUBSET (1..n) -> V]
  /\ h[{}] = base
  /\ \A s \in (SUBSET (1..n)) \ {{}} :
       /\ Max(s) \in s
       /\ s \ {Max(s)} \in SUBSET (1..n)
       /\ h[s] = op[<<Max(s), h[s \ {Max(s)}]>>]

\* Such a fold exists.
LEMMA ChainExists ==
  ASSUME NEW n \in Nat, NEW V, NEW base \in V, NEW op \in [(1..n) \X V -> V]
  PROVE  \E h : Chained(n, V, base, op, h)
<1>. DEFINE N == 1..n
            pick == [s \in (SUBSET N) \ {{}} |-> Max(s)]
<1>1. IsFiniteSet(N)
  BY FS_Interval
<1>2. ASSUME NEW s \in (SUBSET N) \ {{}} PROVE Max(s) \in s
  <2>1. s \subseteq 0..n /\ s # {}
    OBVIOUS
  <2>2. \E x \in s : \A y \in s : x >= y
    BY <2>1, GreatestOf
  <2>. QED
    BY <2>2 DEF Max
<1>. HIDE DEF N
<1>3. /\ pick \in [(SUBSET N) \ {{}} -> N]
      /\ \A s \in (SUBSET N) \ {{}} : pick[s] = Max(s) /\ pick[s] \in s
  BY <1>2
<1>. HIDE DEF pick
<1>4. op \in [N \X V -> V]
  BY DEF N
<1>5. PICK h : Folding(N, V, base, pick, op, h)
  BY <1>1, <1>3, <1>4, FoldExists
<1>6. \A s \in (SUBSET N) \ {{}} : s \ {Max(s)} \in SUBSET N
  OBVIOUS
<1>. QED
  BY <1>2, <1>3, <1>5, <1>6 DEF Folding, Chained, N

\* The last of the first j, and what is before it.
LEMMA LastOf ==
  ASSUME NEW n \in Nat, NEW j \in 1..n
  PROVE  /\ 1..j \in (SUBSET (1..n)) \ {{}}
         /\ Max(1..j) = j
         /\ (1..j) \ {j} = 1..(j - 1)
<1>1. 1..j \in (SUBSET (1..n)) \ {{}}
  <2>1. j \in 1..j /\ \A i \in 1..j : i \in 1..n
    OBVIOUS
  <2>. QED
    BY <2>1
<1>2. j \in 1..j /\ (\A y \in 1..j : j >= y) /\ \A x \in 1..j : x >= j => x = j
  OBVIOUS
<1>3. Max(1..j) = j
  <2>. DEFINE s == 1..j
  <2>1. Max(s) = CHOOSE x \in s : \A y \in s : x >= y
    BY DEF Max
  <2>2. j \in s /\ (\A y \in s : j >= y) /\ \A x \in s : x >= j => x = j
    BY <1>2
  <2>. HIDE DEF s
  <2>3. Max(s) \in s /\ \A y \in s : Max(s) >= y
    BY <2>1, <2>2
  <2>. QED
    BY <2>2, <2>3 DEF s
<1>. QED
  BY <1>1, <1>3

\* How often a value is among the first j of a sequence.
AmongFirst(s, j, t) == Cardinality({i \in 1..j : s[i] = t})

\* One more place is looked at.
LEMMA AmongNext ==
  ASSUME NEW s, NEW j \in Nat, NEW t
  PROVE  /\ AmongFirst(s, j, t) \in Nat
         /\ AmongFirst(s, 0, t) = 0
         /\ j # 0 /\ s[j] = t => AmongFirst(s, j, t) = AmongFirst(s, j - 1, t) + 1
         /\ j # 0 /\ s[j] # t => AmongFirst(s, j, t) = AmongFirst(s, j - 1, t)
<1>. DEFINE A(i) == {x \in 1..i : s[x] = t}
<1>1. IsFiniteSet(A(j))
  <2>1. IsFiniteSet(1..j) /\ A(j) \subseteq 1..j
    BY FS_Interval
  <2>. QED
    BY <2>1, FS_Subset
<1>2. Cardinality(A(j)) \in Nat
  BY <1>1, FS_CardinalityType
<1>3. A(0) = {} /\ Cardinality({}) = 0
  BY FS_EmptySet
<1>4. ASSUME j # 0
      PROVE  /\ s[j] = t => Cardinality(A(j)) = Cardinality(A(j - 1)) + 1
             /\ s[j] # t => Cardinality(A(j)) = Cardinality(A(j - 1))
  <2>1. j \in A(j) <=> s[j] = t
    BY <1>4
  <2>2. A(j - 1) = A(j) \ {j}
    BY <1>4
  <2>. HIDE DEF A
  <2>3. CASE s[j] = t
    BY <1>1, <1>2, <2>1, <2>2, <2>3, FS_RemoveElement
  <2>4. CASE s[j] # t
    <3>1. A(j - 1) = A(j)
      BY <2>1, <2>2, <2>4
    <3>. QED
      BY <1>2, <2>4, <3>1
  <2>. QED
    BY <2>3, <2>4
<1>. QED
  BY <1>2, <1>3, <1>4 DEF AmongFirst

\* How often is a number.
LEMMA OftenNat ==
  ASSUME NEW S, NEW s \in Seq(S), NEW t
  PROVE  Often(s, t) \in Nat
<1>1. Len(s) \in Nat /\ Often(s, t) \in 0..Len(s)
  BY OftenType, LenProperties
<1>. QED
  BY <1>1

\* A sequence of one value or of none.
LEMMA OftenOne ==
  ASSUME NEW v \in Nat, NEW t
  PROVE  /\ <<v>> \in Seq(Nat) /\ <<>> \in Seq(Nat)
         /\ Often(<<v>>, t) = IF t = v THEN 1 ELSE 0
         /\ Often(<<>>, t) = 0
<1>1. Copies(1, v) = <<v>>
  BY DEF Copies
<1>2. Often(Copies(1, v), t) = IF t = v THEN 1 ELSE 0
  BY OftenCopies
<1>3. Places(<<>>, t) = {}
  BY DEF Places
<1>4. Often(<<>>, t) = 0
  BY <1>3, FS_EmptySet DEF Often
<1>5. <<v>> \in Seq(Nat) /\ <<>> \in Seq(Nat)
  OBVIOUS
<1>. QED
  BY <1>1, <1>2, <1>4, <1>5

\* Each of the first numbers as often as it is said.
LEMMA EachRepeated ==
  ASSUME NEW n \in Nat, NEW k \in [1..n -> Nat], NEW s,
         s = FlattenSeq([j \in 1..n |-> [i \in 1..k[j] |-> j]])
  PROVE  s \in Seq(1..n) /\ \A p \in 1..n : Often(s, p) = k[p]
<1>. DEFINE dict == [j \in 1..n |-> j]
<1>1. dict \in [1..n -> Nat] /\ \A p \in 1..n : dict[p] = p
  OBVIOUS
<1>2. s = Repeated(n, dict, k)
  BY DEF Repeated
<1>. HIDE DEF dict
<1>3. \A i, j \in 1..n : dict[i] = dict[j] => i = j
  BY <1>1
<1>4. /\ Repeated(n, dict, k) \in Seq(Nat)
      /\ \A j \in 1..n : Often(Repeated(n, dict, k), dict[j]) = k[j]
      /\ \A t : (\A j \in 1..n : dict[j] # t) => Often(Repeated(n, dict, k), t) = 0
  BY <1>1, <1>3, RepeatedOften
<1>5. s \in Seq(1..n)
  <2>. DEFINE m == Len(s)
  <2>1. m \in Nat /\ s \in [1..m -> Nat]
    BY <1>2, <1>4, LenProperties
  <2>2. ASSUME NEW i \in 1..m PROVE s[i] \in 1..n
    <3>. DEFINE v == s[i]
    <3>1. v \in ToSet(s)
      BY <2>1 DEF ToSet
    <3>2. Often(s, v) # 0
      BY <1>2, <1>4, <3>1, OftenType
    <3>. HIDE DEF v
    <3>3. \E j \in 1..n : dict[j] = v
      BY <1>2, <1>4, <3>2
    <3>. QED
      BY <1>1, <3>3 DEF v
  <2>. HIDE DEF m
  <2>3. s \in [1..m -> 1..n]
    BY <2>1, <2>2
  <2>. QED
    BY <2>1, <2>3, AsSequence
<1>6. ASSUME NEW p \in 1..n PROVE Often(s, p) = k[p]
  BY <1>1, <1>2, <1>4
<1>. QED
  BY <1>5, <1>6

(***************************************************************************)
(* Sums over finite sets.                                                  *)
(***************************************************************************)

\* A sequence that holds each of its values once.
Single(s) == \A i, j \in DOMAIN s : s[i] = s[j] => i = j

AnyOf(s) == CHOOSE x \in s : TRUE

\* What g has for a part of D is the sum of f over it.
Adds(f, D, g) ==
  /\ g \in [SUBSET D -> Int]
  /\ g[{}] = 0
  /\ \A s \in (SUBSET D) \ {{}} : g[s] = f[AnyOf(s)] + g[s \ {AnyOf(s)}]

\* A sum adds one value after the other.
LEMMA SumAdds ==
  ASSUME NEW D, IsFiniteSet(D), NEW f \in [D -> Int]
  PROVE  \E g : Adds(f, D, g) /\ SumFunction(f) = g[D]
<1>. DEFINE Rest(s) == s \ {AnyOf(s)}
            pick == [s \in (SUBSET D) \ {{}} |-> AnyOf(s)]
            op == [p \in D \X Int |-> f[p[1]] + p[2]]
            Body(F) == [s \in SUBSET D |-> IF s = {} THEN 0 ELSE f[AnyOf(s)] + F[Rest(s)]]
            it == CHOOSE F : F = Body(F)
<1>1. \A s \in (SUBSET D) \ {{}} : AnyOf(s) \in s /\ Rest(s) \in SUBSET D
  BY DEF AnyOf
<1>2. /\ pick \in [(SUBSET D) \ {{}} -> D]
      /\ \A s \in (SUBSET D) \ {{}} : pick[s] = AnyOf(s) /\ pick[s] \in s
      /\ op \in [D \X Int -> Int]
      /\ \A d \in D, v \in Int : op[<<d, v>>] = f[d] + v
  BY <1>1
<1>. HIDE DEF pick, op
<1>3. PICK h : Folding(D, Int, 0, pick, op, h)
  <2>1. 0 \in Int
    OBVIOUS
  <2>. QED
    BY <1>2, <2>1, FoldExists
<1>4. h = Body(h)
  <2>0. h \in [SUBSET D -> Int]
    BY <1>3 DEF Folding
  <2>1. ASSUME NEW s \in (SUBSET D) \ {{}}
        PROVE  op[<<pick[s], h[s \ {pick[s]}]>>] = f[AnyOf(s)] + h[Rest(s)]
    <3>1. AnyOf(s) \in D /\ Rest(s) \in SUBSET D /\ h[Rest(s)] \in Int
      BY <1>1, <2>0
    <3>. QED
      BY <1>2, <3>1
  <2>2. \A s \in SUBSET D : h[s] = IF s = {} THEN 0 ELSE f[AnyOf(s)] + h[Rest(s)]
    BY <1>3, <2>1 DEF Folding
  <2>3. h = [s \in SUBSET D |-> h[s]]
    BY <2>0
  <2>. QED
    BY <2>2, <2>3
<1>5. it = Body(it)
  <2>1. \E F : F = Body(F)
    BY <1>4
  <2>. HIDE DEF Body
  <2>. QED
    BY <2>1, Zenon
<1>6. SumFunction(f) = it[D]
  <2>1. DOMAIN f = D
    OBVIOUS
  <2>. QED
    BY <2>1 DEF SumFunction, SumFunctionOnSet, FoldFunctionOnSet, MapThenFoldSet, AnyOf
<1>. HIDE DEF it
<1>7. it[{}] = 0 /\ \A s \in (SUBSET D) \ {{}} : it[s] = f[AnyOf(s)] + it[Rest(s)]
  BY <1>5
<1>8. \A s \in SUBSET D : it[s] \in Int
  <2>. DEFINE T == {s \in SUBSET D : it[s] \in Int}
  <2>1. {} \in T
    BY <1>7
  <2>2. ASSUME NEW s \in (SUBSET D) \ {{}}
        PROVE  \E x \in s : s \ {x} \in T => s \in T
    <3>1. AnyOf(s) \in s /\ f[AnyOf(s)] \in Int
      BY <1>1
    <3>2. it[s] = f[AnyOf(s)] + it[Rest(s)]
      BY <1>7
    <3>3. Rest(s) \in T => s \in T
      BY <3>1, <3>2
    <3>. QED
      BY <3>1, <3>3
  <2>. HIDE DEF T
  <2>3. \A s \in (SUBSET D) \ {{}} : \E x \in s : s \ {x} \in T => s \in T
    BY <2>2
  <2>4. SUBSET D \subseteq T
    BY <2>1, <2>3, Parts
  <2>. QED
    BY <2>4 DEF T
<1>9. it \in [SUBSET D -> Int]
  <2>1. it = [s \in SUBSET D |-> it[s]]
    BY <1>5
  <2>. QED
    BY <1>8, <2>1
<1>10. Adds(f, D, it)
  BY <1>7, <1>9 DEF Adds
<1>. QED
  BY <1>6, <1>10

\* A sum of integers is one.
LEMMA SumInt ==
  ASSUME NEW D, IsFiniteSet(D), NEW f \in [D -> Int]
  PROVE  SumFunction(f) \in Int
<1>1. PICK g : Adds(f, D, g) /\ SumFunction(f) = g[D]
  BY SumAdds
<1>. QED
  BY <1>1 DEF Adds

\* A sum of numbers is one.
LEMMA SumNat ==
  ASSUME NEW D, IsFiniteSet(D), NEW f \in [D -> Nat]
  PROVE  SumFunction(f) \in Nat
<1>1. f \in [D -> Int]
  OBVIOUS
<1>2. PICK g : Adds(f, D, g) /\ SumFunction(f) = g[D]
  BY <1>1, SumAdds
<1>. DEFINE T == {s \in SUBSET D : g[s] \in Nat}
<1>3. {} \in T
  BY <1>2 DEF Adds
<1>4. ASSUME NEW s \in (SUBSET D) \ {{}} PROVE \E x \in s : s \ {x} \in T => s \in T
  <2>1. AnyOf(s) \in s /\ f[AnyOf(s)] \in Nat
    BY DEF AnyOf
  <2>2. g[s] = f[AnyOf(s)] + g[s \ {AnyOf(s)}]
    BY <1>2 DEF Adds
  <2>3. s \ {AnyOf(s)} \in T => s \in T
    BY <2>1, <2>2
  <2>. QED
    BY <2>1, <2>3
<1>5. D \in T
  <2>. HIDE DEF T
  <2>1. SUBSET D \subseteq T
    BY <1>3, <1>4, Parts
  <2>. QED
    BY <2>1
<1>. QED
  BY <1>2, <1>5

\* One value of a function grows.
Grows(D, f, h, x, v) ==
  /\ IsFiniteSet(D) /\ f \in [D -> Nat] /\ h \in [D -> Nat]
  /\ x \in D /\ v \in Nat
  /\ \A d \in D : h[d] = IF d = x THEN f[d] + v ELSE f[d]

\* The sum grows with it.
LEMMA SumGrows ==
  ASSUME NEW D, NEW f, NEW h, NEW x, NEW v, Grows(D, f, h, x, v)
  PROVE  SumFunction(h) = SumFunction(f) + v
<1>. USE DEF Grows
<1>0. f \in [D -> Int] /\ h \in [D -> Int] /\ IsFiniteSet(D)
  OBVIOUS
<1>1. PICK F : Adds(f, D, F) /\ SumFunction(f) = F[D]
  BY <1>0, SumAdds
<1>2. PICK H : Adds(h, D, H) /\ SumFunction(h) = H[D]
  BY <1>0, SumAdds
<1>. DEFINE T == {s \in SUBSET D : H[s] = IF x \in s THEN F[s] + v ELSE F[s]}
<1>3. {} \in T
  BY <1>1, <1>2 DEF Adds
<1>4. ASSUME NEW s \in (SUBSET D) \ {{}} PROVE \E y \in s : s \ {y} \in T => s \in T
  <2>. DEFINE y == AnyOf(s)
              t == s \ {y}
  <2>1. y \in s /\ y \in D /\ t \in SUBSET D
    BY DEF AnyOf
  <2>2. F[s] = f[y] + F[t] /\ H[s] = h[y] + H[t]
    BY <1>1, <1>2 DEF Adds
  <2>3. f[y] \in Nat /\ h[y] \in Nat /\ F[t] \in Int /\ H[t] \in Int
    BY <1>1, <1>2, <2>1 DEF Adds
  <2>4. h[y] = IF y = x THEN f[y] + v ELSE f[y]
    BY <2>1
  <2>5. (y = x => x \in s /\ x \notin t) /\ (y # x => (x \in s <=> x \in t))
    BY <2>1
  <2>. HIDE DEF y, t
  <2>6. ASSUME t \in T PROVE s \in T
    <3>1. H[t] = IF x \in t THEN F[t] + v ELSE F[t]
      BY <2>6
    <3>2. CASE y = x
      BY <2>2, <2>3, <2>4, <2>5, <3>1, <3>2
    <3>3. CASE y # x
      BY <2>2, <2>3, <2>4, <2>5, <3>1, <3>3
    <3>. QED
      BY <3>2, <3>3
  <2>. QED
    BY <2>1, <2>6 DEF t
<1>. HIDE DEF T
<1>5. D \in T
  <2>1. SUBSET D \subseteq T
    BY <1>3, <1>4, Parts
  <2>. QED
    BY <2>1
<1>. QED
  BY <1>1, <1>2, <1>5 DEF T

\* A sum of nothing but zeros.
LEMMA SumNothing ==
  ASSUME NEW D, IsFiniteSet(D), NEW f \in [D -> Nat], \A d \in D : f[d] = 0
  PROVE  SumFunction(f) = 0
<1>0. f \in [D -> Int]
  OBVIOUS
<1>1. PICK F : Adds(f, D, F) /\ SumFunction(f) = F[D]
  BY <1>0, SumAdds
<1>. DEFINE T == {s \in SUBSET D : F[s] = 0}
<1>3. {} \in T
  BY <1>1 DEF Adds
<1>4. ASSUME NEW s \in (SUBSET D) \ {{}} PROVE \E y \in s : s \ {y} \in T => s \in T
  <2>. DEFINE y == AnyOf(s)
              t == s \ {y}
  <2>1. y \in s /\ y \in D /\ t \in SUBSET D
    BY DEF AnyOf
  <2>2. F[s] = f[y] + F[t] /\ f[y] = 0
    BY <1>1, <2>1 DEF Adds
  <2>. HIDE DEF y, t
  <2>. QED
    BY <2>1, <2>2 DEF t
<1>. HIDE DEF T
<1>5. D \in T
  <2>1. SUBSET D \subseteq T
    BY <1>3, <1>4, Parts
  <2>. QED
    BY <2>1
<1>. QED
  BY <1>1, <1>5 DEF T

\* A sum may be taken apart at any of its terms.
LEMMA SumApart ==
  ASSUME NEW D, IsFiniteSet(D), NEW f \in [D -> Int], NEW g, Adds(f, D, g)
  PROVE  \A s \in SUBSET D : \A x \in s : g[s] = f[x] + g[s \ {x}]
<1>. DEFINE n == Cardinality(D)
            Apart1(s) == \A x \in s : g[s] = f[x] + g[s \ {x}]
            T == {k \in 0..n : \A s \in SUBSET D : Cardinality(s) = k => Apart1(s)}
<1>1. n \in Nat /\ \A s \in SUBSET D : /\ IsFiniteSet(s) /\ Cardinality(s) \in 0..n
                                      /\ g[s] \in Int
  <2>1. n \in Nat
    BY FS_CardinalityType
  <2>2. ASSUME NEW s \in SUBSET D PROVE IsFiniteSet(s) /\ Cardinality(s) \in 0..n
    BY FS_Subset, FS_CardinalityType
  <2>. QED
    BY <2>1, <2>2 DEF Adds
<1>2. 0 \in T
  <2>1. \A s \in SUBSET D : Cardinality(s) = 0 => s = {}
    BY <1>1, FS_EmptySet
  <2>. QED
    BY <1>1, <2>1
<1>3. ASSUME NEW k \in 0..n, k \in T, k # n PROVE k + 1 \in T
  <2>. SUFFICES ASSUME NEW s \in SUBSET D, Cardinality(s) = k + 1, NEW x \in s
                PROVE  g[s] = f[x] + g[s \ {x}]
    <3>1. k + 1 \in 0..n
      BY <1>1, <1>3
    <3>. HIDE DEF n
    <3>. QED
      BY <3>1
  <2>. DEFINE y == AnyOf(s)
              r == (s \ {x}) \ {y}
  <2>1. s # {} /\ y \in s
    BY DEF AnyOf
  <2>2. g[s] = f[y] + g[s \ {y}]
    BY <2>1 DEF Adds
  <2>3. /\ f[x] \in Int /\ f[y] \in Int /\ g[r] \in Int
        /\ s \ {x} \in SUBSET D /\ s \ {y} \in SUBSET D
    BY <1>1, <2>1
  <2>. HIDE DEF y
  <2>4. Cardinality(s \ {x}) = k /\ Cardinality(s \ {y}) = k
    BY <1>1, <2>1, FS_RemoveElement
  <2>5. CASE x = y
    BY <2>2, <2>5
  <2>6. CASE x # y
    <3>1. g[s \ {y}] = f[x] + g[(s \ {y}) \ {x}]
      BY <1>3, <2>3, <2>4, <2>6
    <3>2. g[s \ {x}] = f[y] + g[r]
      BY <1>3, <2>1, <2>3, <2>4, <2>6
    <3>3. (s \ {y}) \ {x} = r
      OBVIOUS
    <3>. DEFINE a == f[x]
                b == f[y]
                c == g[r]
    <3>4. g[s] = b + (a + c) /\ g[s \ {x}] = b + c /\ a \in Int /\ b \in Int /\ c \in Int
      BY <2>2, <2>3, <3>1, <3>2, <3>3
    <3>. HIDE DEF a, b, c
    <3>5. g[s] = a + g[s \ {x}]
      BY <3>4
    <3>. QED
      BY <3>5 DEF a
  <2>. QED
    BY <2>5, <2>6
<1>4. \A k \in 0..n : k \in T
  <2>. HIDE DEF T, n
  <2>. QED
    BY <1>1, <1>2, <1>3, UpTo
<1>. QED
  BY <1>1, <1>4

\* Part of what is added up.
LEMMA SumPart ==
  ASSUME NEW D, IsFiniteSet(D), NEW f \in [D -> Int], NEW g, Adds(f, D, g),
         NEW S \in SUBSET D
  PROVE  SumFunction([d \in S |-> f[d]]) = g[S]
<1>. DEFINE e == [d \in S |-> f[d]]
            T == {s \in SUBSET S : g[s] = 0}
<1>1. IsFiniteSet(S) /\ e \in [S -> Int]
  BY FS_Subset
<1>2. PICK h : Adds(e, S, h) /\ SumFunction(e) = h[S]
  BY <1>1, SumAdds
<1>. DEFINE U == {s \in SUBSET S : h[s] = g[s]}
<1>3. {} \in U
  BY <1>2 DEF Adds
<1>4. ASSUME NEW s \in (SUBSET S) \ {{}} PROVE \E x \in s : s \ {x} \in U => s \in U
  <2>1. AnyOf(s) \in s /\ e[AnyOf(s)] = f[AnyOf(s)]
    BY DEF AnyOf
  <2>2. h[s] = e[AnyOf(s)] + h[s \ {AnyOf(s)}]
    BY <1>2 DEF Adds
  <2>3. g[s] = f[AnyOf(s)] + g[s \ {AnyOf(s)}]
    BY DEF Adds
  <2>. HIDE DEF e
  <2>. QED
    BY <2>1, <2>2, <2>3
<1>. HIDE DEF U
<1>5. S \in U
  <2>1. SUBSET S \subseteq U
    BY <1>1, <1>3, <1>4, Parts
  <2>. QED
    BY <2>1
<1>. QED
  BY <1>2, <1>5 DEF U

\* One more term.
LEMMA SumOneMore ==
  ASSUME NEW D, IsFiniteSet(D), NEW f \in [D -> Int], NEW x \in D
  PROVE  SumFunction(f) = f[x] + SumFunction([d \in D \ {x} |-> f[d]])
<1>1. PICK g : Adds(f, D, g) /\ SumFunction(f) = g[D]
  BY SumAdds
<1>2. g[D] = f[x] + g[D \ {x}]
  BY <1>1, SumApart
<1>3. D \ {x} \in SUBSET D
  OBVIOUS
<1>4. SumFunction([d \in D \ {x} |-> f[d]]) = g[D \ {x}]
  BY <1>1, <1>3, SumPart
<1>. QED
  BY <1>1, <1>2, <1>4

\* A sum of nothing.
LEMMA SumEmpty ==
  ASSUME NEW f, DOMAIN f = {}
  PROVE  SumFunction([d \in {} |-> f[d]]) = 0
<1>. DEFINE e == [d \in {} |-> f[d]]
<1>1. e \in [{} -> Int] /\ IsFiniteSet({})
  BY FS_EmptySet
<1>. HIDE DEF e
<1>2. PICK g : Adds(e, {}, g) /\ SumFunction(e) = g[{}]
  BY <1>1, SumAdds
<1>. QED
  BY <1>2 DEF Adds, e

\* The same of every table at once.
LEMMA SumsOneMore ==
  ASSUME NEW D, IsFiniteSet(D), NEW x \in D
  PROVE  \A f \in [D -> Int] : SumFunction(f) = f[x] + SumFunction([d \in D \ {x} |-> f[d]])
BY SumOneMore

\* Two tables that differ at one place only.
Moved(D, f, g, x) ==
  /\ IsFiniteSet(D) /\ x \in D /\ f \in [D -> Int] /\ g \in [D -> Int]
  /\ \A d \in D \ {x} : g[d] = f[d]

\* A sum grows by what one of its terms grows.
LEMMA SumChanged ==
  ASSUME NEW D, NEW f, NEW g, NEW x, Moved(D, f, g, x)
  PROVE  /\ SumFunction(f) \in Int /\ SumFunction(g) \in Int
         /\ SumFunction(g) = SumFunction(f) + (g[x] - f[x])
<1>. DEFINE E == D \ {x}
            rest == [d \in E |-> f[d]]
<1>1. IsFiniteSet(E) /\ rest \in [E -> Int]
  BY FS_Subset DEF Moved
<1>2. [d \in E |-> g[d]] = rest
  BY DEF Moved
<1>9. IsFiniteSet(D) /\ x \in D
  BY DEF Moved
<1>0. \A h \in [D -> Int] : SumFunction(h) = h[x] + SumFunction([d \in E |-> h[d]])
  BY <1>9, SumsOneMore
<1>3. SumFunction(f) = f[x] + SumFunction(rest)
  BY <1>0 DEF Moved
<1>4. SumFunction(g) = g[x] + SumFunction([d \in E |-> g[d]])
  BY <1>0 DEF Moved
<1>. HIDE DEF rest, E
<1>5. SumFunction(rest) \in Int
  BY <1>1, SumInt
<1>6. f[x] \in Int /\ g[x] \in Int
  BY DEF Moved
<1>8. SumFunction(f) \in Int /\ SumFunction(g) \in Int
  BY <1>3, <1>4, <1>2, <1>5, <1>6
<1>7. SumFunction(g) = g[x] + SumFunction(rest)
  BY <1>2, <1>4
<1>. QED
  BY <1>3, <1>5, <1>6, <1>7, <1>8

First(v, k) == [j \in 1..k |-> v[j]]

\* The first values, and the next.
LEMMA Longer ==
  ASSUME NEW i \in Nat, NEW v
  PROVE  Append([j \in 1..i |-> v[j]], v[i + 1]) = [j \in 1..(i + 1) |-> v[j]]
<1>. DEFINE S == {v[j] : j \in 1..(i + 1)}
            s == [j \in 1..i |-> v[j]]
            t == Append(s, v[i + 1])
            u == [j \in 1..(i + 1) |-> v[j]]
<1>1. s \in [1..i -> S] /\ u \in [1..(i + 1) -> S] /\ v[i + 1] \in S
  OBVIOUS
<1>2. \A j \in 1..i : s[j] = v[j]
  OBVIOUS
<1>3. \A j \in 1..(i + 1) : u[j] = v[j]
  OBVIOUS
<1>. HIDE DEF S, s, u
<1>4. s \in Seq(S) /\ u \in Seq(S) /\ Len(s) = i /\ Len(u) = i + 1
  BY <1>1
<1>5. /\ t \in Seq(S) /\ Len(t) = i + 1
      /\ \A j \in 1..i : t[j] = s[j]
      /\ t[i + 1] = v[i + 1]
  BY <1>1, <1>4, AppendProperties
<1>. HIDE DEF t
<1>6. \A j \in 1..(i + 1) : t[j] = u[j]
  BY <1>2, <1>3, <1>5
<1>7. t = u
  BY <1>4, <1>5, <1>6, SeqEqual
<1>. QED
  BY <1>7 DEF s, t, u

Got(f, d) == IF d \in DOMAIN f THEN f[d] ELSE 0

\* The places among the first j of a sequence that hold one of P.
Spots(s, P, j) == {i \in 1..j : s[i] \in P}

\* How often the elements of P are among them, and what they are worth.
Occurring(s, P, j) == [x \in P |-> AmongFirst(s, j, x)]

Worth(s, P, b, j) == [x \in P |-> AmongFirst(s, j, x) * b[x]]

\* Onto up along a sequence is adding up by its elements.
LEMMA ByElement ==
  ASSUME NEW m \in Nat, NEW s, NEW P, IsFiniteSet(P), NEW b \in [P -> Int]
  PROVE  /\ IsFiniteSet(Spots(s, P, m))
         /\ Cardinality(Spots(s, P, m)) = SumFunction(Occurring(s, P, m))
         /\ SumFunction([i \in Spots(s, P, m) |-> b[s[i]]]) = SumFunction(Worth(s, P, b, m))
<1>. DEFINE I(j) == Spots(s, P, j)
            A(j) == [i \in I(j) |-> b[s[i]]]
            T == {j \in 0..m : /\ Cardinality(I(j)) = SumFunction(Occurring(s, P, j))
                               /\ SumFunction(A(j)) = SumFunction(Worth(s, P, b, j))}
<1>1. ASSUME NEW j \in Nat
      PROVE  /\ IsFiniteSet(I(j)) /\ A(j) \in [I(j) -> Int]
             /\ Occurring(s, P, j) \in [P -> Int] /\ Worth(s, P, b, j) \in [P -> Int]
             /\ \A x \in P : /\ Occurring(s, P, j)[x] = AmongFirst(s, j, x)
                             /\ Worth(s, P, b, j)[x] = AmongFirst(s, j, x) * b[x]
                             /\ AmongFirst(s, j, x) \in Nat /\ b[x] \in Int
  <2>1. IsFiniteSet(I(j))
    <3>1. I(j) \subseteq 1..j /\ IsFiniteSet(1..j)
      BY FS_Interval DEF Spots
    <3>. QED
      BY <3>1, FS_Subset
  <2>2. A(j) \in [I(j) -> Int]
    BY DEF Spots
  <2>3. \A x \in P : AmongFirst(s, j, x) \in Nat /\ b[x] \in Int
    BY AmongNext
  <2>4. \A x \in P : AmongFirst(s, j, x) \in Int /\ AmongFirst(s, j, x) * b[x] \in Int
    BY <2>3
  <2>5. Occurring(s, P, j) \in [P -> Int] /\ Worth(s, P, b, j) \in [P -> Int]
    BY <2>4 DEF Occurring, Worth
  <2>. QED
    BY <2>1, <2>2, <2>3, <2>5 DEF Occurring, Worth
<1>2. 0 \in T
  <2>1. I(0) = {} /\ Cardinality(I(0)) = 0
    BY FS_EmptySet DEF Spots
  <2>2. A(0) = [i \in {} |-> A(0)[i]] /\ DOMAIN A(0) = {}
    BY <2>1
  <2>3. SumFunction(A(0)) = 0
    <3>. HIDE DEF A
    <3>. QED
      BY <2>2, SumEmpty
  <2>4. \A x \in P : AmongFirst(s, 0, x) = 0
    BY AmongNext
  <2>5. \A x \in P : Occurring(s, P, 0)[x] = 0 /\ Worth(s, P, b, 0)[x] = 0
    BY <1>1, <2>4
  <2>6. Occurring(s, P, 0) \in [P -> Nat] /\ Worth(s, P, b, 0) \in [P -> Nat]
    <3>1. Occurring(s, P, 0) = [x \in P |-> Occurring(s, P, 0)[x]]
          /\ Worth(s, P, b, 0) = [x \in P |-> Worth(s, P, b, 0)[x]]
      BY DEF Occurring, Worth
    <3>. QED
      BY <2>5, <3>1
  <2>7. SumFunction(Occurring(s, P, 0)) = 0 /\ SumFunction(Worth(s, P, b, 0)) = 0
    BY <2>5, <2>6, SumNothing
  <2>. HIDE DEF A, I
  <2>. QED
    BY <2>1, <2>3, <2>7
<1>3. ASSUME NEW j \in 0..m, j \in T, j # m PROVE j + 1 \in T
  <2>. DEFINE l == j + 1
              t == s[l]
  <2>1. l \in 0..m /\ l \in Nat /\ j \in Nat /\ l # 0 /\ l - 1 = j
    BY <1>3
  <2>2. 1..l = (1..j) \cup {l} /\ l \notin 1..j
    BY <2>1
  <2>. HIDE DEF l, t
  <2>3. \A x : /\ t = x => AmongFirst(s, l, x) = AmongFirst(s, j, x) + 1
               /\ t # x => AmongFirst(s, l, x) = AmongFirst(s, j, x)
    BY <2>1, AmongNext DEF t
  <2>4. Cardinality(I(j)) = SumFunction(Occurring(s, P, j)) /\ SumFunction(A(j)) = SumFunction(Worth(s, P, b, j))
    BY <1>3
  <2>5. CASE t \notin P
    <3>1. I(l) = I(j) /\ A(l) = A(j)
      <4>1. I(l) = I(j)
        BY <2>2, <2>5 DEF Spots, t
      <4>. QED
        BY <4>1
    <3>2. Occurring(s, P, l) = Occurring(s, P, j) /\ Worth(s, P, b, l) = Worth(s, P, b, j)
      BY <2>3, <2>5 DEF Occurring, Worth
    <3>. HIDE DEF A, I
    <3>3. l \in T
      BY <2>1, <2>4, <3>1, <3>2
    <3>. HIDE DEF T
    <3>. QED
      BY <3>3 DEF l
  <2>6. CASE t \in P
    <3>1. I(l) = I(j) \cup {l} /\ l \notin I(j) /\ I(l) \ {l} = I(j)
      BY <2>2, <2>6 DEF Spots, t
    <3>2. Cardinality(I(l)) = Cardinality(I(j)) + 1
      <4>. HIDE DEF I
      <4>. QED
        BY <1>1, <2>1, <3>1, FS_AddElement
    <3>3. SumFunction(A(l)) = b[t] + SumFunction(A(j))
      <4>1. l \in I(l) /\ A(l)[l] = b[t]
        BY <3>1 DEF t
      <4>2. [i \in I(l) \ {l} |-> A(l)[i]] = A(j)
        BY <3>1
      <4>3. IsFiniteSet(I(l)) /\ A(l) \in [I(l) -> Int]
        BY <1>1, <2>1
      <4>. HIDE DEF A, I
      <4>4. SumFunction(A(l)) = A(l)[l] + SumFunction([i \in I(l) \ {l} |-> A(l)[i]])
        BY <4>1, <4>3, SumOneMore
      <4>. QED
        BY <4>1, <4>2, <4>4
    <3>4. /\ SumFunction(Occurring(s, P, j)) \in Int
          /\ SumFunction(Occurring(s, P, l)) = SumFunction(Occurring(s, P, j)) + 1
      <4>. DEFINE f == Occurring(s, P, j)
                  g == Occurring(s, P, l)
      <4>1. f \in [P -> Int] /\ g \in [P -> Int] /\ \A x \in P \ {t} : g[x] = f[x]
        BY <1>1, <2>1, <2>3
      <4>2. g[t] = f[t] + 1
        BY <1>1, <2>1, <2>3, <2>6
      <4>. HIDE DEF f, g
      <4>5. Moved(P, f, g, t)
        BY <2>6, <4>1 DEF Moved
      <4>3. SumFunction(f) \in Int /\ SumFunction(g) = SumFunction(f) + (g[t] - f[t])
        BY <4>5, SumChanged
      <4>4. f[t] \in Int
        BY <2>6, <4>1
      <4>. QED
        BY <4>2, <4>3, <4>4 DEF f, g
    <3>5. /\ SumFunction(Worth(s, P, b, j)) \in Int
          /\ SumFunction(Worth(s, P, b, l)) = SumFunction(Worth(s, P, b, j)) + b[t]
      <4>. DEFINE f == Worth(s, P, b, j)
                  g == Worth(s, P, b, l)
      <4>1. f \in [P -> Int] /\ g \in [P -> Int] /\ \A x \in P \ {t} : g[x] = f[x]
        BY <1>1, <2>1, <2>3
      <4>2. g[t] = f[t] + b[t] /\ b[t] \in Int
        <5>1. /\ g[t] = AmongFirst(s, l, t) * b[t] /\ f[t] = AmongFirst(s, j, t) * b[t]
              /\ AmongFirst(s, j, t) \in Nat /\ b[t] \in Int
          BY <1>1, <2>1, <2>6
        <5>2. AmongFirst(s, l, t) = AmongFirst(s, j, t) + 1
          BY <2>3
        <5>. DEFINE p == AmongFirst(s, j, t)
                    v == b[t]
        <5>3. g[t] = (p + 1) * v /\ f[t] = p * v /\ p \in Nat /\ v \in Int
          BY <5>1, <5>2
        <5>. HIDE DEF f, g, p, v
        <5>4. (p + 1) * v = p * v + v
          BY <5>3
        <5>. QED
          BY <5>3, <5>4 DEF v
      <4>. HIDE DEF f, g
      <4>5. Moved(P, f, g, t)
        BY <2>6, <4>1 DEF Moved
      <4>3. SumFunction(f) \in Int /\ SumFunction(g) = SumFunction(f) + (g[t] - f[t])
        BY <4>5, SumChanged
      <4>4. f[t] \in Int
        BY <2>6, <4>1
      <4>. QED
        BY <4>2, <4>3, <4>4 DEF f, g
    <3>6. b[t] \in Int
      BY <2>6
    <3>. HIDE DEF A, I
    <3>7. Cardinality(I(l)) = SumFunction(Occurring(s, P, l)) /\ SumFunction(A(l)) = SumFunction(Worth(s, P, b, l))
      BY <2>4, <3>2, <3>3, <3>4, <3>5, <3>6
    <3>8. l \in T
      BY <2>1, <3>7
    <3>. HIDE DEF T
    <3>. QED
      BY <3>8 DEF l
  <2>. QED
    BY <2>5, <2>6
<1>4. m \in T
  <2>1. \A j \in 0..m : j \in T
    <3>. HIDE DEF T
    <3>. QED
      BY <1>2, <1>3, UpTo
  <2>. HIDE DEF T
  <2>. QED
    BY <2>1
<1>. QED
  BY <1>1, <1>4

\* The end is missing from the k-th part on: Q[i] is what is left behind the
\* first i parts.
CutAt(parts, q, k, Q) ==
  /\ Q \in [0..(k - 1) -> Seq(Nat)]
  /\ Q[0] = q
  /\ Cut(Q[k - 1], parts[k])
  /\ \A i \in 1..(k - 1) : Q[i - 1] = parts[i] \o Q[i]

\* A cut is in one of the parts.
LEMMA CutEarly ==
  ASSUME NEW n \in Nat, NEW parts \in [1..n -> Seq(Nat)], NEW q, Cut(q, FlattenSeq(parts))
  PROVE  \E k \in 1..n : \E Q : CutAt(parts, q, k, Q)
<1>0. <<>> \in Seq(Nat)
  OBVIOUS
<1>1. PICK R : Remaining(n, Nat, parts, <<>>, R)
  BY <1>0, Unrolled
<1>2. R[0] = FlattenSeq(parts)
  <2>1. PICK P : Joined(n, Nat, parts, P) /\ FlattenSeq(parts) = P[n]
    BY Flattened
  <2>. DEFINE f == FlattenSeq(parts)
  <2>2. f \in Seq(Nat) /\ R[0] = f \o <<>>
    <3>1. n \in 0..n
      OBVIOUS
    <3>. QED
      BY <1>1, <2>1, <3>1 DEF Joined, Remaining
  <2>. HIDE DEF f
  <2>3. f \o <<>> = f
    BY <2>2, ConcatEmptySeq
  <2>. QED
    BY <2>2, <2>3 DEF f
<1>. DEFINE Upto(i, Q) == /\ Q \in [0..i -> Seq(Nat)]
                          /\ Q[0] = q
                          /\ \A j \in 1..i : Q[j - 1] = parts[j] \o Q[j]
                          /\ Cut(Q[i], R[i])
            T == {i \in 0..n : \E Q : Upto(i, Q)}
<1>3. 0 \in T
  <2>. DEFINE Q == [i \in 0..0 |-> q]
  <2>1. Q \in [0..0 -> Seq(Nat)] /\ Q[0] = q
    BY DEF Cut
  <2>. HIDE DEF Q
  <2>2. Upto(0, Q)
    BY <1>2, <2>1
  <2>. HIDE DEF Upto
  <2>3. 0 \in 0..n
    OBVIOUS
  <2>. QED
    BY <2>2, <2>3
<1>4. n \notin T
  <2>1. R[n] = <<>>
    BY <1>1 DEF Remaining
  <2>. QED
    BY <2>1, CutNone
<1>5. PICK i \in 0..n : i \in T /\ i # n /\ i + 1 \notin T
  <2>. HIDE DEF T
  <2>1. ~\A i \in 0..n : i \in T /\ i # n => i + 1 \in T
    <3>. SUFFICES ASSUME \A i \in 0..n : i \in T /\ i # n => i + 1 \in T PROVE FALSE
      OBVIOUS
    <3>1. \A i \in 0..n : i \in T
      BY <1>3, UpTo
    <3>. QED
      BY <1>4, <3>1
  <2>. QED
    BY <2>1
<1>6. PICK Q : Upto(i, Q)
  BY <1>5
<1>. DEFINE k == i + 1
<1>. HIDE DEF T
<1>7. k \in 1..n /\ k \in 0..n /\ k - 1 = i /\ k \notin T
  BY <1>5
<1>. HIDE DEF k
<1>8. R[i] = parts[k] \o R[k] /\ parts[k] \in Seq(Nat) /\ R[k] \in Seq(Nat)
  BY <1>1, <1>7 DEF Remaining
<1>9. ASSUME NEW c \in Seq(Nat), Q[i] = parts[k] \o c, Cut(c, R[k]) PROVE FALSE
  <2>. DEFINE F == [j \in 0..k |-> IF j = k THEN c ELSE Q[j]]
  <2>1. F \in [0..k -> Seq(Nat)] /\ F[0] = q /\ F[k] = c
    BY <1>6, <1>7
  <2>2. ASSUME NEW j \in 1..k PROVE F[j - 1] = parts[j] \o F[j]
    <3>1. CASE j = k
      <4>1. F[j - 1] = Q[i] /\ F[j] = c
        BY <1>7, <3>1
      <4>. QED
        BY <1>9, <3>1, <4>1
    <3>2. CASE j # k
      <4>1. j \in 1..i /\ F[j - 1] = Q[j - 1] /\ F[j] = Q[j]
        BY <1>7, <3>2
      <4>. QED
        BY <1>6, <4>1
    <3>. QED
      BY <3>1, <3>2
  <2>. HIDE DEF F
  <2>3. Upto(k, F)
    BY <1>9, <2>1, <2>2
  <2>. HIDE DEF Upto
  <2>4. k \in T
    BY <1>7, <2>3 DEF T
  <2>. QED
    BY <1>7, <2>4
<1>10. Cut(Q[i], parts[k])
  <2>1. Cut(Q[i], parts[k] \o R[k])
    BY <1>6, <1>8
  <2>2. Cut(Q[i], parts[k]) \/ \E c \in Seq(Nat) : Q[i] = parts[k] \o c /\ Cut(c, R[k])
    <3>. DEFINE whole == Q[i]
                front == parts[k]
                rest == R[k]
    <3>1. front \in Seq(Nat) /\ rest \in Seq(Nat) /\ Cut(whole, front \o rest)
      BY <1>8, <2>1
    <3>. HIDE DEF whole, front, rest
    <3>2. Cut(whole, front) \/ \E c \in Seq(Nat) : whole = front \o c /\ Cut(c, rest)
      BY <3>1, CutIn
    <3>. QED
      BY <3>2 DEF whole, front, rest
  <2>. QED
    BY <1>9, <2>2, Zenon
<1>11. CutAt(parts, q, k, Q)
  BY <1>6, <1>7, <1>10 DEF CutAt
<1>. QED
  BY <1>7, <1>11

\* What was cut is shorter.
LEMMA CutLen ==
  ASSUME NEW s \in Seq(Nat), NEW q, Cut(q, s)
  PROVE  q \in Seq(Nat) /\ Len(q) \in Nat /\ Len(s) \in Nat /\ Len(q) < Len(s)
<1>1. PICK y \in Seq(Nat) : y # <<>> /\ q \o y = s
  BY DEF Cut
<1>2. q \in Seq(Nat)
  BY DEF Cut
<1>3. Len(q \o y) = Len(q) + Len(y) /\ Len(q) \in Nat /\ Len(y) \in Nat
  BY <1>2, ConcatProperties, LenProperties
<1>4. Len(y) # 0
  BY <1>1, EmptySeq
<1>. QED
  BY <1>1, <1>2, <1>3, <1>4

\* Values written one by one are the sequence of them.
LEMMA Singles ==
  ASSUME NEW v \in Seq(Nat)
  PROVE  FlattenSeq([i \in 1..Len(v) |-> <<v[i]>>]) = v
<1>. DEFINE n == Len(v)
            parts == [i \in 1..n |-> <<v[i]>>]
<1>1. n \in Nat /\ v \in [1..n -> Nat]
  BY LenProperties
<1>. HIDE DEF n
<1>2. parts \in [1..n -> Seq(Nat)]
  BY <1>1
<1>3. \A i \in 1..n : parts[i] = <<v[i]>>
  OBVIOUS
<1>. HIDE DEF parts
<1>4. PICK P : Joined(n, Nat, parts, P) /\ FlattenSeq(parts) = P[n]
  BY <1>1, <1>2, Flattened
<1>. DEFINE T == {i \in 0..n : P[i] = First(v, i)}
<1>5. 0 \in T
  <2>1. First(v, 0) = <<>>
    BY DEF First
  <2>. QED
    BY <1>1, <1>4, <2>1 DEF Joined
<1>6. ASSUME NEW i \in 0..n, i \in T, i # n PROVE i + 1 \in T
  <2>. DEFINE j == i + 1
              s == First(v, i)
  <2>1. j \in 1..n /\ j \in 0..n /\ j - 1 = i /\ i \in Nat
    BY <1>1, <1>6
  <2>2. P[j] = P[i] \o <<v[j]>> /\ P[i] = s /\ P[i] \in Seq(Nat)
    BY <1>3, <1>4, <1>6, <2>1 DEF Joined
  <2>3. v[j] \in Nat
    BY <1>1, <2>1
  <2>4. Append(s, v[j]) = First(v, j)
    BY <2>1, Longer DEF First
  <2>. HIDE DEF j, s
  <2>5. Append(s, v[j]) = s \o <<v[j]>>
    BY <2>2, <2>3, AppendIsConcat
  <2>6. P[j] = First(v, j)
    BY <2>2, <2>4, <2>5, Zenon
  <2>. QED
    BY <2>1, <2>6 DEF j
<1>. HIDE DEF T
<1>7. n \in T
  <2>1. \A i \in 0..n : i \in T
    BY <1>1, <1>5, <1>6, UpTo
  <2>. QED
    BY <1>1, <2>1
<1>8. First(v, n) = v
  BY <1>1 DEF First
<1>. QED
  BY <1>4, <1>7, <1>8 DEF T, parts, n

\* Two values in front, one after the other.
LEMMA TwoInFront ==
  ASSUME NEW a \in Nat, NEW b \in Nat, NEW s \in Seq(Nat)
  PROVE  <<a, b>> \o s = <<a>> \o (<<b>> \o s)
<1>. DEFINE one == <<a>>
            two == <<b>>
            both == <<a, b>>
<1>1. one \in Seq(Nat) /\ two \in Seq(Nat) /\ both \in Seq(Nat)
  OBVIOUS
<1>2. both = one \o two
  <2>. DEFINE c == one \o two
  <2>1. Len(one) = 1 /\ Len(two) = 1 /\ one[1] = a /\ two[1] = b
    OBVIOUS
  <2>2. Len(both) = 2 /\ both[1] = a /\ both[2] = b
    OBVIOUS
  <2>. HIDE DEF one, two, both
  <2>3. /\ c \in Seq(Nat) /\ Len(c) = 1 + 1
        /\ \A i \in 1..(1 + 1) : c[i] = IF i <= 1 THEN one[i] ELSE two[i - 1]
    <3>1. /\ c \in Seq(Nat) /\ Len(c) = Len(one) + Len(two)
          /\ \A i \in 1..(Len(one) + Len(two)) :
               c[i] = IF i <= Len(one) THEN one[i] ELSE two[i - Len(one)]
      BY <1>1, ConcatProperties
    <3>. HIDE DEF c
    <3>. QED
      BY <2>1, <3>1
  <2>. HIDE DEF c
  <2>4. c[1] = a /\ c[2] = b
    BY <2>1, <2>3
  <2>5. \A i \in 1..Len(both) : both[i] = c[i]
    BY <2>2, <2>4
  <2>7. c \in Seq(Nat) /\ Len(both) = Len(c)
    BY <2>2, <2>3
  <2>6. both = c
    BY <1>1, <2>5, <2>7, SeqEqual
  <2>. QED
    BY <2>6 DEF c
<1>. HIDE DEF one, two, both
<1>3. (one \o two) \o s = one \o (two \o s)
  BY <1>1, ConcatAssociative
<1>. QED
  BY <1>2, <1>3 DEF one, two, both

\* The header of the BM25 section.
LEMMA FourInFront ==
  ASSUME NEW p \in Nat, NEW n \in Nat, NEW k \in Nat, NEW m \in Nat
  PROVE  <<p, n>> \o <<k, m>> = <<p, n, k, m>>
<1>. DEFINE a == <<p, n>>
            b == <<k, m>>
            d == <<p, n, k, m>>
            c == a \o b
<1>1. a \in Seq(Nat) /\ b \in Seq(Nat) /\ d \in Seq(Nat)
  OBVIOUS
<1>2. /\ Len(a) = 2 /\ a[1] = p /\ a[2] = n
      /\ Len(b) = 2 /\ b[1] = k /\ b[2] = m
      /\ Len(d) = 4 /\ d[1] = p /\ d[2] = n /\ d[3] = k /\ d[4] = m
  OBVIOUS
<1>. HIDE DEF a, b, d
<1>3. /\ c \in Seq(Nat) /\ Len(c) = 2 + 2
      /\ \A i \in 1..(2 + 2) : c[i] = IF i <= 2 THEN a[i] ELSE b[i - 2]
  <2>1. /\ c \in Seq(Nat) /\ Len(c) = Len(a) + Len(b)
        /\ \A i \in 1..(Len(a) + Len(b)) : c[i] = IF i <= Len(a) THEN a[i] ELSE b[i - Len(a)]
    BY <1>1, ConcatProperties
  <2>. HIDE DEF c
  <2>. QED
    BY <1>2, <2>1
<1>. HIDE DEF c
<1>4. c[1] = p /\ c[2] = n /\ c[3] = k /\ c[4] = m
  BY <1>2, <1>3
<1>5. \A i \in 1..Len(d) : d[i] = c[i]
  BY <1>2, <1>4
<1>6. Len(d) = Len(c)
  BY <1>2, <1>3
<1>7. d = c
  BY <1>1, <1>3, <1>5, <1>6, SeqEqual
<1>. QED
  BY <1>7 DEF a, b, c, d

\* Scores of some documents, and what such a table has for any document.
Scores == UNION {[S -> Int] : S \in SUBSET Nat}

\* A table of scores, by its domain and its values.
LEMMA ScoresType ==
  ASSUME NEW f \in Scores
  PROVE  /\ DOMAIN f \in SUBSET Nat /\ f \in [DOMAIN f -> Int]
         /\ \A d : Got(f, d) \in Int
<1>1. PICK S \in SUBSET Nat : f \in [S -> Int]
  BY DEF Scores
<1>2. DOMAIN f = S
  BY <1>1
<1>3. ASSUME NEW d PROVE (IF d \in S THEN f[d] ELSE 0) \in Int
  <2>1. CASE d \in S
    <3>1. f[d] \in Int
      BY <1>1, <2>1
    <3>. QED
      BY <2>1, <3>1
  <2>2. CASE d \notin S
    BY <2>2
  <2>. QED
    BY <2>1, <2>2
<1>. QED
  BY <1>1, <1>2, <1>3 DEF Got

\* The place of a page in the first n of a list, if it is there.
RankIn(pages, n, url) ==
  IF \E s \in 1..n : pages[s] = url THEN <<CHOOSE s \in 1..n : pages[s] = url>> ELSE <<>>

\* A list of pages, each of them once.
Listing(pages, n) ==
  /\ n \in Nat /\ pages \in [1..n -> Nat]
  /\ \A r, s \in 1..n : pages[r] = pages[s] => r = s

\* Such a place says where the page is.
LEMMA RankSays ==
  ASSUME NEW pages, NEW l, Listing(pages, l), NEW n \in 0..l, NEW url
  PROVE  /\ RankIn(pages, n, url) \in Seq(Nat)
         /\ \A s \in 1..n : pages[s] = url <=> RankIn(pages, n, url) = <<s>>
         /\ RankIn(pages, 0, url) = <<>>
<1>1. /\ l \in Nat /\ pages \in [1..l -> Nat] /\ n \in Nat
      /\ \A s \in 1..n : s \in 1..l /\ s \in Nat
      /\ \A r, s \in 1..n : pages[r] = pages[s] => r = s
  BY DEF Listing
<1>2. RankIn(pages, 0, url) = <<>>
  BY DEF RankIn
<1>3. CASE \E s \in 1..n : pages[s] = url
  <2>. DEFINE r == CHOOSE s \in 1..n : pages[s] = url
  <2>1. r \in 1..n /\ pages[r] = url
    BY <1>3
  <2>2. RankIn(pages, n, url) = <<r>>
    BY <1>3 DEF RankIn
  <2>. HIDE DEF r
  <2>3. \A s \in 1..n : pages[s] = url <=> s = r
    BY <1>1, <2>1
  <2>4. \A s : <<r>> = <<s>> <=> s = r
    OBVIOUS
  <2>5. <<r>> \in Seq(Nat)
    BY <1>1, <2>1
  <2>. QED
    BY <1>2, <2>2, <2>3, <2>4, <2>5
<1>4. CASE ~(\E s \in 1..n : pages[s] = url)
  <2>1. RankIn(pages, n, url) = <<>>
    BY <1>4 DEF RankIn
  <2>2. \A s : <<>> # <<s>>
    OBVIOUS
  <2>. QED
    BY <1>2, <1>4, <2>1, <2>2
<1>. QED
  BY <1>3, <1>4

\* One page more.
LEMMA RankNext ==
  ASSUME NEW pages, NEW l, Listing(pages, l), NEW n \in 0..l, n # l, NEW url
  PROVE  /\ url # pages[n + 1] => RankIn(pages, n + 1, url) = RankIn(pages, n, url)
         /\ url = pages[n + 1] => /\ RankIn(pages, n + 1, url) = <<n + 1>>
                                  /\ RankIn(pages, n, url) = <<>>
<1>. DEFINE k == n + 1
<1>1. /\ l \in Nat /\ k \in 1..l /\ \A s \in 1..k : s \in 1..l
      /\ \A s : s \in 1..k <=> s \in 1..n \/ s = k
      /\ k \notin 1..n /\ \A r, s \in 1..k : pages[r] = pages[s] => r = s
  BY DEF Listing
<1>. HIDE DEF k
<1>2. CASE url # pages[k]
  <2>1. \A s : (s \in 1..k /\ pages[s] = url) <=> (s \in 1..n /\ pages[s] = url)
    BY <1>1, <1>2
  <2>2. (CHOOSE s : s \in 1..k /\ pages[s] = url) = CHOOSE s : s \in 1..n /\ pages[s] = url
    BY <2>1, Zenon
  <2>3. /\ (CHOOSE s \in 1..k : pages[s] = url) = CHOOSE s : s \in 1..k /\ pages[s] = url
        /\ (CHOOSE s \in 1..n : pages[s] = url) = CHOOSE s : s \in 1..n /\ pages[s] = url
    OBVIOUS
  <2>. QED
    BY <1>2, <2>1, <2>2, <2>3 DEF RankIn, k
<1>3. CASE url = pages[k]
  <2>1. \A s \in 1..k : pages[s] = url <=> s = k
    BY <1>1, <1>3
  <2>2. k \in 1..k /\ ~(\E s \in 1..n : pages[s] = url)
    BY <1>1, <1>3, <2>1
  <2>3. (CHOOSE s \in 1..k : pages[s] = url) = k
    BY <2>1, <2>2
  <2>. QED
    BY <1>3, <2>1, <2>2, <2>3 DEF RankIn, k
<1>. QED
  BY <1>2, <1>3 DEF k
=============================================================================
