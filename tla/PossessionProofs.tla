---------------------------- MODULE PossessionProofs ----------------------------
(***************************************************************************)
(* Proofs about the possession index, its proofs and the targets, for any  *)
(* file of weights, chunk size, length of walk, number of openings, hashes *)
(* and widths of words and bytes that the assumptions of Targets and       *)
(* Possession admit.                                                       *)
(*                                                                         *)
(* What the code computes with loops is a recursive function here, so its  *)
(* properties are proved by induction on Nat, from least elements:         *)
(*   - powers of two, shifts and comparisons of words and bytes give the   *)
(*     numbers that a target stands for;                                   *)
(*   - a level of a Merkle tree halves and its last has one node, and the  *)
(*     path of any leaf verifies against the root (PathVerifies);          *)
(*   - the table of the index and the layout on the GPU both find the      *)
(*     chunk of the canonical order (ReadFinds, SearchFinds);              *)
(*   - so the host's and the GPU's walks are the canonical one.            *)
(* The invariant IInv then says that what is on disk is the Merkle tree    *)
(* and the table of the tensors read so far.                               *)
(***************************************************************************)
EXTENDS Possession, WellFoundedInduction, FiniteSetTheorems,
        SequenceTheorems, TLAPS

--------------------------------------------------------------------------------
(* Least elements, induction and recursion.  The library's theorem on      *)
(* minimal elements of well-founded relations has no operator as a         *)
(* parameter, and the rest follows from it.                                *)

(* Every set of numbers has a least one. *)
LEMMA Least ==
  ASSUME NEW S \in SUBSET Nat, S # {}
  PROVE  \E m \in S : \A k \in S : m <= k
<1> DEFINE R == OpToRel(<, Nat)
<1>1. IsWellFoundedOn(R, Nat)
  BY NatLessThanWellFounded
<1>2. PICK m \in S : \A k \in S : ~ (<<k, m>> \in R)
  <2> HIDE DEF R
  <2> QED BY <1>1, WFMin
<1>3. ASSUME NEW k \in S PROVE m <= k
  <2>1. ~ (k < m)
    BY <1>2 DEF OpToRel
  <2> HIDE DEF R
  <2> QED BY <2>1
<1> HIDE DEF R
<1> QED BY <1>3

(* Induction over the indices of a loop, and over all numbers. *)
LEMMA InductionUpTo ==
  ASSUME NEW N \in Nat, NEW T, 0 \in T,
         \A n \in 0 .. N - 1 : n \in T => n + 1 \in T
  PROVE  \A n \in 0 .. N : n \in T
<1> DEFINE S == {n \in 0 .. N : n \notin T}
<1> SUFFICES ASSUME S # {} PROVE FALSE
  OBVIOUS
<1>0. S \in SUBSET Nat
  OBVIOUS
<1>1. PICK m \in S : \A k \in S : m <= k
  <2> HIDE DEF S
  <2> QED BY <1>0, Least
<1>2. m - 1 \in 0 .. N - 1 /\ m - 1 \notin S
  BY <1>1
<1> QED BY <1>1, <1>2

LEMMA Induction ==
  ASSUME NEW T, 0 \in T, \A n \in Nat : n \in T => n + 1 \in T
  PROVE  \A n \in Nat : n \in T
<1> SUFFICES ASSUME NEW n \in Nat PROVE n \in T
  OBVIOUS
<1>1. \A k \in 0 .. n : k \in T
  BY InductionUpTo
<1> QED BY <1>1

(* f is what the recursion from base by the steps F computes. *)
Solves(f, N, S, base, F) ==
  /\ f \in [0 .. N -> S]
  /\ \A n \in 0 .. N : f[n] = IF n = 0 THEN base ELSE F[n][f[n - 1]]

(* Every recursion over 0 .. N in a set has a solution. *)
LEMMA Recursion ==
  ASSUME NEW N \in Nat, NEW S, NEW base \in S, NEW F \in [1 .. N -> [S -> S]]
  PROVE  \E f : Solves(f, N, S, base, F)
<1> DEFINE T == {n \in 0 .. N : \E f : Solves(f, n, S, base, F)}
<1>1. 0 \in T
  <2> DEFINE f == [k \in 0 .. 0 |-> base]
  <2>1. f \in [0 .. 0 -> S] /\ \A k \in 0 .. 0 : k = 0 /\ f[k] = base
    OBVIOUS
  <2> HIDE DEF f
  <2> QED BY <2>1 DEF Solves
<1>2. ASSUME NEW n \in 0 .. N - 1, n \in T PROVE n + 1 \in T
  <2>1. PICK f : Solves(f, n, S, base, F)
    BY <1>2
  <2> DEFINE g == [k \in 0 .. n + 1 |-> IF k = n + 1 THEN F[n + 1][f[n]] ELSE f[k]]
  <2>2. f \in [0 .. n -> S] /\ F[n + 1][f[n]] \in S
    BY <2>1 DEF Solves
  <2>3. g \in [0 .. n + 1 -> S]
    BY <2>2
  <2>4. ASSUME NEW k \in 0 .. n + 1
        PROVE  g[k] = IF k = 0 THEN base ELSE F[k][g[k - 1]]
    <3>1. CASE k = n + 1
      BY <3>1
    <3>2. CASE k # n + 1
      <4>1. k \in 0 .. n /\ (k # 0 => k - 1 \in 0 .. n)
        BY <3>2
      <4> QED BY <4>1, <2>1 DEF Solves
    <3> QED BY <3>1, <3>2
  <2> HIDE DEF g
  <2> QED BY <2>3, <2>4 DEF Solves
<1>3. \A n \in 0 .. N : n \in T
  <2> HIDE DEF T
  <2> QED BY <1>1, <1>2, InductionUpTo
<1> QED BY <1>3

--------------------------------------------------------------------------------
(* Arithmetic: products, division, powers of two. *)

LEMMA Products ==
  ASSUME NEW a \in Int, NEW b \in Int, NEW c \in Int
  PROVE  /\ a * b \in Int /\ a * b = b * a /\ (a * b) * c = a * (b * c)
         /\ a * (b + c) = a * b + a * c /\ a * (b - c) = a * b - a * c
         /\ a * 1 = a /\ a * 0 = 0
OBVIOUS

LEMMA ProductOrder ==
  ASSUME NEW a \in Nat, NEW b \in Int, NEW c \in Int, b <= c
  PROVE  a * b <= a * c
<1>1. a * (c - b) >= 0
  OBVIOUS
<1> QED BY <1>1

LEMMA ProductStrict ==
  ASSUME NEW a \in Nat \ {0}, NEW b \in Int, NEW c \in Int, b < c
  PROVE  a * b < a * c
<1>1. a * (c - b) > 0
  OBVIOUS
<1> QED BY <1>1

LEMMA DivMod ==
  ASSUME NEW a \in Nat, NEW b \in Nat \ {0}
  PROVE  /\ a \div b \in Nat /\ a % b \in 0 .. b - 1
         /\ a = b * (a \div b) + (a % b)
OBVIOUS

(* A quotient and a remainder are known by their sum and bounds. *)
LEMMA DivUnique ==
  ASSUME NEW b \in Nat \ {0}, NEW q \in Nat, NEW r \in 0 .. b - 1
  PROVE  (b * q + r) \div b = q /\ (b * q + r) % b = r
<1> DEFINE a == b * q + r
<1>1. a \in Nat
  OBVIOUS
<1>2. a \div b \in Nat /\ a % b \in 0 .. b - 1 /\ a = b * (a \div b) + (a % b)
  BY <1>1, DivMod
<1> DEFINE p == a \div b
           s == a % b
<1>3. p \in Nat /\ s \in 0 .. b - 1 /\ b * q + r = b * p + s
  BY <1>2
<1> HIDE DEF p, s
<1>4. ~ (p < q)
  <2> SUFFICES ASSUME p < q PROVE FALSE
    OBVIOUS
  <2>1. b * (p + 1) <= b * q
    BY <1>3, ProductOrder
  <2>2. b * (p + 1) = b * p + b
    BY <1>3
  <2>3. b * p \in Int /\ b * q \in Int
    BY <1>3
  <2> QED BY <1>3, <2>1, <2>2, <2>3
<1>5. ~ (q < p)
  <2> SUFFICES ASSUME q < p PROVE FALSE
    OBVIOUS
  <2>1. b * (q + 1) <= b * p
    BY <1>3, ProductOrder
  <2>2. b * (q + 1) = b * q + b
    BY <1>3
  <2>3. b * p \in Int /\ b * q \in Int
    BY <1>3
  <2> QED BY <1>3, <2>1, <2>2, <2>3
<1>6. p = q
  BY <1>3, <1>4, <1>5
<1>7. r = s
  <2>1. b * p \in Int
    BY <1>3
  <2> QED BY <1>3, <1>6, <2>1
<1> QED BY <1>6, <1>7 DEF p, s

(* Dividing twice is dividing by the product. *)
LEMMA DivDiv ==
  ASSUME NEW a \in Nat, NEW b \in Nat \ {0}, NEW c \in Nat \ {0}
  PROVE  (a \div b) \div c = a \div (b * c)
<1> DEFINE q == a \div b
           r == a % b
           p == q \div c
           s == q % c
<1>1. q \in Nat /\ r \in 0 .. b - 1 /\ a = b * q + r
  BY DivMod
<1>2. p \in Nat /\ s \in 0 .. c - 1 /\ q = c * p + s
  BY <1>1, DivMod
<1> HIDE DEF q, r, p, s
<1>3. b * c \in Nat \ {0}
  OBVIOUS
<1>4. b * s + r \in 0 .. b * c - 1
  <2>1. b * s <= b * (c - 1) /\ b * s >= 0 /\ b * (c - 1) = b * c - b
    BY <1>2, ProductOrder
  <2> QED BY <2>1, <1>1, <1>2, <1>3
<1>5. a = (b * c) * p + (b * s + r)
  <2>1. b * (c * p + s) = (b * c) * p + b * s
    BY <1>2
  <2> QED BY <2>1, <1>1, <1>2
<1>6. a \div (b * c) = p
  BY <1>3, <1>4, <1>5, <1>2, DivUnique
<1> QED BY <1>6 DEF p, q

(* The recursive function Pow2 is what its definition says. *)
LEMMA Pow2Def ==
  Pow2 = [n \in Nat |-> IF n = 0 THEN 1 ELSE 2 * Pow2[n - 1]]
<1> DEFINE P(n, f) == /\ f \in [0 .. n -> Nat]
                      /\ \A k \in 0 .. n : f[k] = IF k = 0 THEN 1 ELSE 2 * f[k - 1]
<1>1. ASSUME NEW n \in Nat PROVE \E f : P(n, f)
  <2> DEFINE F == [k \in 1 .. n |-> [x \in Nat |-> 2 * x]]
  <2>1. F \in [1 .. n -> [Nat -> Nat]]
    OBVIOUS
  <2>2. \A k \in 1 .. n, x \in Nat : F[k][x] = 2 * x
    OBVIOUS
  <2> HIDE DEF F
  <2>3. PICK f : Solves(f, n, Nat, 1, F)
    BY <2>1, 1 \in Nat, Recursion
  <2>4. ASSUME NEW k \in 0 .. n PROVE f[k] = IF k = 0 THEN 1 ELSE 2 * f[k - 1]
    <3>1. k # 0 => k \in 1 .. n /\ f[k - 1] \in Nat
      BY <2>3 DEF Solves
    <3> QED BY <2>2, <2>3, <3>1 DEF Solves
  <2> QED BY <2>3, <2>4 DEF Solves
<1>2. ASSUME NEW m \in Nat, NEW n \in Nat, m <= n, NEW f, NEW g, P(m, f), P(n, g)
      PROVE  f[m] = g[m]
  <2> DEFINE T == {k \in 0 .. m : f[k] = g[k]}
  <2>1. 0 \in T
    BY <1>2
  <2>2. ASSUME NEW k \in 0 .. m - 1, k \in T PROVE k + 1 \in T
    <3>1. f[k] = g[k] /\ k + 1 \in 0 .. m /\ k + 1 \in 0 .. n /\ k + 1 # 0 /\ (k + 1) - 1 = k
      BY <1>2, <2>2
    <3> QED BY <1>2, <3>1
  <2> HIDE DEF T
  <2>3. \A k \in 0 .. m : k \in T
    BY <2>1, <2>2, InductionUpTo
  <2> QED BY <2>3 DEF T
<1> DEFINE h == [n \in Nat |-> (CHOOSE f : P(n, f))[n]]
<1>3. h = [n \in Nat |-> IF n = 0 THEN 1 ELSE 2 * h[n - 1]]
  <2>1. ASSUME NEW n \in Nat PROVE h[n] = IF n = 0 THEN 1 ELSE 2 * h[n - 1]
    <3> DEFINE f == CHOOSE f : P(n, f)
    <3>1. P(n, f) /\ h[n] = f[n]
      BY <1>1
    <3>2. CASE n = 0
      BY <3>1, <3>2
    <3>3. CASE n # 0
      <4> DEFINE g == CHOOSE g : P(n - 1, g)
      <4>1. n - 1 \in Nat
        BY <3>3
      <4>2. P(n - 1, g) /\ h[n - 1] = g[n - 1]
        BY <1>1, <4>1
      <4> HIDE DEF f, g, h
      <4>3. g[n - 1] = f[n - 1]
        <5> HIDE DEF P
        <5> QED BY <1>2, <3>1, <4>1, <4>2, n - 1 <= n
      <4> QED BY <3>1, <3>3, <4>1, <4>2, <4>3
    <3> QED BY <3>2, <3>3
  <2>2. h = [n \in Nat |-> h[n]]
    OBVIOUS
  <2> HIDE DEF h
  <2> QED BY <2>1, <2>2
<1> DEFINE Q(f) == f = [n \in Nat |-> IF n = 0 THEN 1 ELSE 2 * f[n - 1]]
<1>4. \E f : Q(f)
  BY <1>3
<1>5. Pow2 = CHOOSE f : Q(f)
  BY DEF Pow2
<1> HIDE DEF Q
<1>6. Q(Pow2)
  BY <1>4, <1>5
<1> QED BY <1>6 DEF Q

LEMMA Pow2Type ==
  /\ \A n \in Nat : Pow2[n] \in Nat \ {0} /\ Pow2[n + 1] = 2 * Pow2[n]
  /\ Pow2[0] = 1
<1>1. Pow2[0] = 1 /\ \A n \in Nat : Pow2[n + 1] = 2 * Pow2[n]
  BY Pow2Def
<1> DEFINE T == {n \in Nat : Pow2[n] \in Nat \ {0}}
<1>2. 0 \in T /\ \A n \in Nat : n \in T => n + 1 \in T
  BY <1>1
<1> HIDE DEF T
<1>3. \A n \in Nat : n \in T
  BY <1>2, Induction
<1> QED BY <1>1, <1>3 DEF T

(* Shifting twice is shifting by the sum. *)
LEMMA Pow2Sum ==
  ASSUME NEW m \in Nat, NEW n \in Nat
  PROVE  Pow2[m + n] = Pow2[m] * Pow2[n]
<1> DEFINE T == {k \in Nat : Pow2[m + k] = Pow2[m] * Pow2[k]}
<1>1. 0 \in T
  BY Pow2Type
<1>2. ASSUME NEW k \in Nat, k \in T PROVE k + 1 \in T
  <2>1. Pow2[m + (k + 1)] = 2 * Pow2[m + k]
    BY Pow2Type, m + k \in Nat, m + (k + 1) = (m + k) + 1
  <2>2. Pow2[m] \in Int /\ Pow2[k] \in Int /\ Pow2[k + 1] = 2 * Pow2[k]
    BY Pow2Type
  <2>3. 2 * (Pow2[m] * Pow2[k]) = Pow2[m] * (2 * Pow2[k])
    BY <2>2
  <2> QED BY <1>2, <2>1, <2>2, <2>3
<1> HIDE DEF T
<1>3. \A k \in Nat : k \in T
  BY <1>1, <1>2, Induction
<1> QED BY <1>3 DEF T

LEMMA Pow2Order ==
  ASSUME NEW m \in Nat, NEW n \in Nat, m <= n
  PROVE  Pow2[m] <= Pow2[n]
<1>1. n - m \in Nat /\ n = m + (n - m)
  OBVIOUS
<1>2. Pow2[m] \in Nat /\ Pow2[n - m] \in Nat /\ 1 <= Pow2[n - m]
  BY <1>1, Pow2Type
<1>3. Pow2[m] * 1 <= Pow2[m] * Pow2[n - m]
  BY <1>2, ProductOrder
<1>4. Pow2[n] = Pow2[m] * Pow2[n - m]
  BY <1>1, Pow2Sum
<1> QED BY <1>2, <1>3, <1>4

LEMMA DivScale ==
  ASSUME NEW m \in Nat, NEW p \in Nat \ {0}, NEW q \in Nat \ {0}
  PROVE  (m * p) \div (p * q) = m \div q
<1> DEFINE k == m \div q
           r == m % q
<1>1. k \in Nat /\ r \in 0 .. q - 1 /\ m = q * k + r
  BY DivMod
<1> HIDE DEF k, r
<1>2. p * q \in Nat \ {0}
  OBVIOUS
<1>3. p * r \in 0 .. p * q - 1
  <2>1. p * r <= p * (q - 1) /\ p * r >= 0 /\ p * (q - 1) = p * q - p
    BY <1>1, ProductOrder
  <2> QED BY <2>1, <1>1, <1>2
<1>4. m * p = (p * q) * k + p * r
  <2>1. (q * k + r) * p = (p * q) * k + p * r
    BY <1>1
  <2> QED BY <2>1, <1>1
<1>5. (m * p) \div (p * q) = k
  BY <1>1, <1>2, <1>3, <1>4, DivUnique
<1> QED BY <1>5 DEF k

LEMMA DivSmall ==
  ASSUME NEW m \in Nat, NEW q \in Nat \ {0}
  PROVE  /\ m \div q <= m
         /\ m < q => m \div q = 0 /\ m % q = m
<1>1. m \div q \in Nat /\ m % q \in 0 .. q - 1 /\ m = q * (m \div q) + (m % q)
  BY DivMod
<1>2. 1 * (m \div q) <= q * (m \div q)
  BY <1>1, ProductOrder, Products
<1>3. m < q => m \div q = 0 /\ m % q = m
  BY DivUnique, m = q * 0 + m
<1> QED BY <1>1, <1>2, <1>3

--------------------------------------------------------------------------------
(* 256-bit numbers. *)

LEMMA Widths ==
  /\ WordBits \in Nat \ {0} /\ ByteBits \in Nat \ {0}
  /\ Base \in Nat \ {0} /\ Base = Pow2[WordBits]
  /\ 3 * ByteBits - 1 \in Nat /\ 3 * ByteBits - 1 < WordBits
BY WidthAssumption, Pow2Type DEF Base

\* A shift in words and bits.
LEMMA ShiftParts ==
  ASSUME NEW s \in Nat
  PROVE  /\ s \div WordBits \in Nat /\ s % WordBits \in 0 .. WordBits - 1
         /\ s = WordBits * (s \div WordBits) + (s % WordBits)
BY Widths, DivMod

(* A number of two words, wherever they are, is m times its power of two.  *)
LEMMA Spread ==
  ASSUME NEW m \in Nat, NEW s \in Nat, NEW u,
         s \div WordBits <= 3,
         s \div WordBits = 3 => (m * Pow2[s % WordBits]) \div Base = 0,
         \A i \in 0 .. 3 :
           u[i] = IF i = s \div WordBits THEN (m * Pow2[s % WordBits]) % Base
                  ELSE IF i = s \div WordBits + 1 THEN (m * Pow2[s % WordBits]) \div Base
                  ELSE 0
  PROVE  Value(u) = m * Pow2[s]
<1> DEFINE start == s \div WordBits
           rem == s % WordBits
           p == m * Pow2[rem]
           lo == p % Base
           hi == p \div Base
<1>1. start \in 0 .. 3 /\ rem \in Nat /\ s = WordBits * start + rem
  BY ShiftParts, Widths
<1>2. p \in Nat /\ Pow2[rem] \in Nat
  BY <1>1, Pow2Type
<1>3. lo \in Nat /\ hi \in Nat /\ p = Base * hi + lo /\ (start = 3 => hi = 0)
  <2>1. start = 3 => hi = 0
    OBVIOUS
  <2> HIDE DEF p, start, rem
  <2>2. Base \in Nat \ {0}
    BY Widths
  <2>3. p \div Base \in Nat /\ p % Base \in 0 .. Base - 1 /\ p = Base * (p \div Base) + (p % Base)
    BY <1>2, <2>2, DivMod
  <2>4. p % Base \in Nat
    BY <2>2, <2>3
  <2> QED BY <2>1, <2>3, <2>4
<1>4. u[0] = (IF start = 0 THEN lo ELSE 0)
  BY <1>1
<1>5. u[1] = IF start = 1 THEN lo ELSE IF start = 0 THEN hi ELSE 0
  BY <1>1
<1>6. u[2] = IF start = 2 THEN lo ELSE IF start = 1 THEN hi ELSE 0
  BY <1>1
<1>7. u[3] = IF start = 3 THEN lo ELSE IF start = 2 THEN hi ELSE 0
  BY <1>1
<1>8. Pow2[s] = Pow2[WordBits * start] * Pow2[rem]
  BY <1>1, Pow2Sum, Widths, WordBits * start \in Nat
<1>9. m * (Pow2[WordBits * start] * Pow2[rem]) = Pow2[WordBits * start] * p
  <2>1. Pow2[WordBits * start] \in Int
    BY <1>1, Pow2Type, Widths, WordBits * start \in Nat
  <2> QED BY <1>2, <2>1
<1>10. m * Pow2[s] = Pow2[WordBits * start] * (Base * hi + lo)
  BY <1>3, <1>8, <1>9
<1> HIDE DEF start, rem, p, lo, hi
<1>11. Base \in Nat
  BY Widths
<1>12. CASE start = 0
  <2>1. Pow2[WordBits * start] = 1
    BY <1>12, Widths, Pow2Type
  <2> QED BY <1>3, <1>4, <1>5, <1>6, <1>7, <1>10, <1>11, <1>12, <2>1 DEF Value
<1>13. CASE start = 1
  <2>1. Pow2[WordBits * start] = Base
    BY <1>13, Widths
  <2>2. Base * (Base * hi + lo) = 0 + Base * (lo + Base * (hi + Base * 0))
    BY <1>3, <1>11
  <2> QED BY <1>3, <1>4, <1>5, <1>6, <1>7, <1>10, <1>11, <1>13, <2>1, <2>2 DEF Value
<1>14. CASE start = 2
  <2>1. Pow2[WordBits * start] = Base * Base
    BY <1>14, Widths, Pow2Sum, WordBits * 2 = WordBits + WordBits
  <2>2. (Base * Base) * (Base * hi + lo) = 0 + Base * (0 + Base * (lo + Base * hi))
    BY <1>3, <1>11
  <2> QED BY <1>3, <1>4, <1>5, <1>6, <1>7, <1>10, <1>11, <1>14, <2>1, <2>2 DEF Value
<1>15. CASE start = 3
  <2>1. Pow2[WordBits * start] = (Base * Base) * Base
    <3>0. WordBits \in Nat /\ WordBits + WordBits \in Nat
      BY Widths
    <3>1. Pow2[WordBits + WordBits] = Base * Base
      BY <3>0, Widths, Pow2Sum
    <3>2. Pow2[(WordBits + WordBits) + WordBits] = Pow2[WordBits + WordBits] * Base
      BY <3>0, <3>1, Widths, Pow2Sum
    <3> QED BY <1>15, <3>0, <3>1, <3>2, Widths, WordBits * 3 = (WordBits + WordBits) + WordBits
  <2>2. ((Base * Base) * Base) * (Base * 0 + lo) = 0 + Base * (0 + Base * (0 + Base * lo))
    BY <1>3, <1>11
  <2> QED BY <1>3, <1>4, <1>5, <1>6, <1>7, <1>10, <1>11, <1>15, <2>1, <2>2 DEF Value
<1> QED BY <1>1, <1>12, <1>13, <1>14, <1>15

(* A word shifted to the left lies in two neighbouring words, the second of
   which has the carry. *)
LEMMA ShlOfU64 ==
  ASSUME NEW m \in Word, NEW s \in Nat
  PROVE  /\ Shl(FromU64(m), s) \in Uint256
         /\ \A i \in 0 .. 3 : Shl(FromU64(m), s)[i] =
              IF i = s \div WordBits THEN (m * Pow2[s % WordBits]) % Base
              ELSE IF i = s \div WordBits + 1 THEN (m * Pow2[s % WordBits]) \div Base
              ELSE 0
<1> DEFINE start == s \div WordBits
           rem == s % WordBits
           v == Shl(FromU64(m), s)
<1>1. start \in Nat /\ rem \in 0 .. WordBits - 1
  BY ShiftParts
<1>2. m \in Nat /\ m < Base /\ Base \in Nat \ {0} /\ WordBits \in Nat
  BY Widths DEF Word
<1>3. Pow2[rem] \in Nat \ {0} /\ Pow2[WordBits - rem] \in Nat \ {0}
      /\ Base = Pow2[rem] * Pow2[WordBits - rem]
  <2>1. rem \in Nat /\ WordBits - rem \in Nat /\ WordBits = rem + (WordBits - rem)
    BY <1>1, <1>2
  <2> HIDE DEF rem
  <2>2. Pow2[rem] \in Nat \ {0} /\ Pow2[WordBits - rem] \in Nat \ {0}
    BY <2>1, Pow2Type
  <2>3. Pow2[rem + (WordBits - rem)] = Pow2[rem] * Pow2[WordBits - rem]
    BY <2>1, Pow2Sum
  <2>4. Pow2[rem + (WordBits - rem)] = Pow2[WordBits]
    BY <2>1
  <2> HIDE DEF start, v
  <2> QED BY <2>2, <2>3, <2>4 DEF Base
<1> DEFINE p == m * Pow2[rem]
<1>4. p \in Nat /\ p \div Base = m \div Pow2[WordBits - rem]
  <2>1. (m * Pow2[rem]) \div (Pow2[rem] * Pow2[WordBits - rem]) = m \div Pow2[WordBits - rem]
    <3> HIDE DEF rem
    <3> QED BY <1>2, <1>3, DivScale
  <2>2. m * Pow2[rem] \in Nat
    <3> HIDE DEF rem
    <3> QED BY <1>2, <1>3
  <2> QED BY <1>3, <2>1, <2>2
<1>5. p % Base \in Word /\ p \div Base \in Word /\ 0 \in Word
  <2>1. p % Base \in 0 .. Base - 1
    <3> HIDE DEF p
    <3> QED BY <1>2, <1>4, DivMod
  <2>2. m \div Pow2[WordBits - rem] \in Nat /\ m \div Pow2[WordBits - rem] <= m
    <3> HIDE DEF rem
    <3> QED BY <1>2, <1>3, DivSmall, DivMod
  <2> QED BY <1>2, <1>4, <2>1, <2>2 DEF Word
<1>6. rem = 0 => p \div Base = 0
  <2> SUFFICES ASSUME rem = 0 PROVE p \div Base = 0
    OBVIOUS
  <2>1. p = m
    BY <1>2, Pow2Type
  <2> HIDE DEF p
  <2> QED BY <1>2, <2>1, DivSmall
<1>7. v = [i \in 0 .. 3 |->
             (IF i >= start THEN (FromU64(m)[i - start] * Pow2[rem]) % Base ELSE 0)
             + (IF rem > 0 /\ i > start THEN FromU64(m)[i - start - 1] \div Pow2[WordBits - rem]
                ELSE 0)]
  BY DEF Shl
<1>8. \A i \in 0 .. 3 : FromU64(m)[i] = IF i = 0 THEN m ELSE 0
  BY DEF FromU64
<1>9. 0 * Pow2[rem] = 0 /\ 0 % Base = 0 /\ 0 \div Pow2[WordBits - rem] = 0
  <2>1. 0 % Base = 0
    BY <1>2, DivSmall
  <2>2. 0 \div Pow2[WordBits - rem] = 0
    <3> HIDE DEF rem
    <3> QED BY <1>3, DivSmall
  <2> QED BY <1>3, <2>1, <2>2
<1>10. ASSUME NEW i \in 0 .. 3
       PROVE  v[i] = IF i = start THEN p % Base ELSE IF i = start + 1 THEN p \div Base ELSE 0
  <2> HIDE DEF start, rem, v
  <2>1. v[i] = (IF i >= start THEN (FromU64(m)[i - start] * Pow2[rem]) % Base ELSE 0)
             + (IF rem > 0 /\ i > start THEN FromU64(m)[i - start - 1] \div Pow2[WordBits - rem]
                ELSE 0)
    BY <1>7
  <2>2. CASE i < start
    BY <1>1, <2>1, <2>2
  <2>3. CASE i = start
    <3>1. FromU64(m)[i - start] = m
      BY <1>1, <1>8, <2>3
    <3>2. v[i] = ((m * Pow2[rem]) % Base) + 0
      BY <1>1, <2>1, <2>3, <3>1
    <3> QED BY <1>5, <2>3, <3>2 DEF Word
  <2>4. CASE i = start + 1
    <3>1. FromU64(m)[i - start] = 0 /\ FromU64(m)[i - start - 1] = m
      BY <1>1, <1>8, <2>4
    <3>2. v[i] = 0 + (IF rem > 0 THEN m \div Pow2[WordBits - rem] ELSE 0)
      BY <1>1, <1>9, <2>1, <2>4, <3>1
    <3>3. p \div Base \in Nat
      BY <1>5 DEF Word
    <3>4. rem > 0 \/ rem = 0
      BY <1>1
    <3> QED BY <1>1, <1>4, <1>6, <2>4, <3>2, <3>3, <3>4
  <2>5. CASE i > start + 1
    <3>1. FromU64(m)[i - start] = 0 /\ FromU64(m)[i - start - 1] = 0
      BY <1>1, <1>8, <2>5
    <3> QED BY <1>1, <1>9, <2>1, <2>5, <3>1
  <2> QED BY <1>1, <2>2, <2>3, <2>4, <2>5
<1>11. v \in Uint256
  <2>1. \A i \in 0 .. 3 : v[i] \in Word
    <3> HIDE DEF v, start, p
    <3> QED BY <1>5, <1>10
  <2>2. v = [i \in 0 .. 3 |-> v[i]]
    BY <1>7
  <2> HIDE DEF v
  <2> QED BY <2>1, <2>2 DEF Uint256
<1> QED BY <1>10, <1>11

(* A number of 256 bits has no digit beyond the top word.                  *)
LEMMA Fits ==
  ASSUME NEW m \in Nat \ {0}, NEW s \in Nat, m * Pow2[s] < Base * Base * Base * Base
  PROVE  /\ s \div WordBits <= 3
         /\ s \div WordBits = 3 => (m * Pow2[s % WordBits]) \div Base = 0
<1> DEFINE start == s \div WordBits
           rem == s % WordBits
           p == m * Pow2[rem]
           cube == (Base * Base) * Base
<1>1. start \in Nat /\ rem \in Nat /\ s = WordBits * start + rem
  BY ShiftParts, Widths
<1>2. Base \in Nat \ {0} /\ cube \in Nat \ {0} /\ Base * Base * Base * Base = cube * Base
  BY Widths
<1>3. Pow2[3 * WordBits] = cube /\ Pow2[4 * WordBits] = cube * Base
      /\ 3 * WordBits \in Nat /\ 4 * WordBits \in Nat
  <2>1. WordBits \in Nat /\ WordBits + WordBits \in Nat /\ 3 * WordBits \in Nat
        /\ 4 * WordBits \in Nat
    BY Widths
  <2>2. Pow2[WordBits + WordBits] = Base * Base
    BY <2>1, Widths, Pow2Sum
  <2>3. Pow2[(WordBits + WordBits) + WordBits] = Pow2[WordBits + WordBits] * Base
    BY <2>1, Widths, Pow2Sum
  <2>4. Pow2[3 * WordBits + WordBits] = Pow2[3 * WordBits] * Base
    BY <2>1, Widths, Pow2Sum
  <2> QED BY <2>1, <2>2, <2>3, <2>4, (WordBits + WordBits) + WordBits = 3 * WordBits,
             3 * WordBits + WordBits = 4 * WordBits
<1>4. Pow2[s] \in Nat /\ Pow2[rem] \in Nat
  BY <1>1, Pow2Type
<1>5. start <= 3
  <2> SUFFICES ASSUME ~ (start <= 3) PROVE FALSE
    OBVIOUS
  <2>1. WordBits * 4 <= WordBits * start
    BY <1>1, Widths, ProductOrder
  <2>2. 4 * WordBits <= s
    <3>1. WordBits \in Nat /\ WordBits * start \in Int
      BY <1>1, Widths
    <3> QED BY <1>1, <2>1, <3>1
  <2>3. cube * Base <= Pow2[s]
    BY <1>3, <2>2, Pow2Order
  <2>4. Pow2[s] * 1 <= Pow2[s] * m
    BY <1>4, ProductOrder
  <2>5. Pow2[s] * 1 = Pow2[s] /\ Pow2[s] * m = m * Pow2[s] /\ m * Pow2[s] \in Int
    BY <1>4
  <2>6. cube * Base \in Int
    BY <1>2
  <2> HIDE DEF cube
  <2> QED BY <1>2, <1>4, <2>3, <2>4, <2>5, <2>6
<1>6. ASSUME start = 3 PROVE p \div Base = 0
  <2>1. s = 3 * WordBits + rem
    <3>1. WordBits \in Nat /\ WordBits * 3 = 3 * WordBits
      BY Widths
    <3> HIDE DEF start, rem
    <3> QED BY <1>1, <1>6, <3>1
  <2>2. Pow2[s] = cube * Pow2[rem]
    BY <1>1, <1>3, <2>1, Pow2Sum
  <2>3. m * (cube * Pow2[rem]) = cube * p /\ p \in Nat
    BY <1>2, <1>4
  <2> HIDE DEF p, cube
  <2>4. ~ (Base <= p)
    <3> SUFFICES ASSUME Base <= p PROVE FALSE
      OBVIOUS
    <3>1. cube * Base <= cube * p
      BY <1>2, <2>3, ProductOrder
    <3>2. cube * Base \in Int /\ cube * p \in Int
      BY <1>2, <2>3
    <3> QED BY <1>2, <2>2, <2>3, <3>1, <3>2
  <2> QED BY <1>2, <2>3, <2>4, DivSmall
<1> QED BY <1>5, <1>6

(* The target of a header is the mantissa of its bits times its power.     *)
LEMMA FromCompactExact ==
  ASSUME NEW bits \in Compacts
  PROVE  FromCompact(bits) \in Uint256 /\ Value(FromCompact(bits)) = NumberOf(bits)
<1> DEFINE small == bits.exponent <= 3
           lost == ByteBits * (3 - bits.exponent)
           m == IF small THEN bits.mantissa \div Pow2[lost] ELSE bits.mantissa
           s == IF small THEN 0 ELSE ByteBits * (bits.exponent - 3)
           limit == Pow2[3 * ByteBits - 1]
<1>1. /\ bits.exponent \in Nat /\ bits.mantissa \in Nat
      /\ bits.exponent < 3 => bits.mantissa < limit
      /\ bits.exponent > 3 =>
           bits.mantissa * Pow2[ByteBits * (bits.exponent - 3)] < Base * Base * Base * Base
  BY NumberAssumption
<1>2. limit \in Nat \ {0} /\ limit <= Base /\ Base \in Nat \ {0}
  BY Widths, Pow2Type, Pow2Order
<1>3. s \in Nat /\ (small => lost \in Nat /\ Pow2[lost] \in Nat \ {0})
  <2>1. ASSUME NEW x \in Nat PROVE ByteBits * x \in Nat
    BY Widths
  <2>2. small => 3 - bits.exponent \in Nat
    BY <1>1
  <2>3. ~small => bits.exponent - 3 \in Nat
    BY <1>1
  <2> QED BY <2>1, <2>2, <2>3, Pow2Type
<1>4. m \in Nat /\ (small => m <= bits.mantissa)
  <2> HIDE DEF lost
  <2> QED BY <1>1, <1>3, DivMod, DivSmall
<1>5. FromCompact(bits) = IF m > limit - 1 THEN FromU64(0) ELSE Shl(FromU64(m), s)
  BY DEF FromCompact
<1>6. NumberOf(bits) = IF m >= limit THEN 0 ELSE m * Pow2[s]
  <2>1. CASE bits.exponent < 3
    <3>1. bits.mantissa < limit /\ m < limit /\ m = bits.mantissa \div Pow2[lost] /\ s = 0
      <4>1. bits.mantissa < limit /\ small
        BY <1>1, <2>1
      <4> HIDE DEF small, lost, limit
      <4> QED BY <1>1, <1>2, <1>4, <4>1
    <3>2. NumberOf(bits) = m
      BY <1>1, <1>2, <2>1, <3>1 DEF NumberOf
    <3> HIDE DEF m, s, limit
    <3> QED BY <1>2, <1>4, <3>1, <3>2, Pow2Type
  <2>2. CASE bits.exponent = 3
    <3>1. Pow2[lost] = 1 /\ Pow2[ByteBits * (bits.exponent - 3)] = 1 /\ s = 0
      BY <2>2, Pow2Type, Widths, ByteBits * 0 = 0
    <3>2. m = bits.mantissa
      <4>1. bits.mantissa \div 1 = bits.mantissa
        BY <1>1
      <4> QED BY <2>2, <3>1, <4>1
    <3> HIDE DEF m, s, limit
    <3> QED BY <1>1, <1>2, <2>2, <3>1, <3>2, Pow2Type DEF NumberOf, limit
  <2>3. CASE bits.exponent > 3
    <3>1. ~small
      BY <1>1, <2>3
    <3>2. m = bits.mantissa /\ s = ByteBits * (bits.exponent - 3)
      BY <3>1
    <3> QED BY <1>1, <2>3, <3>2 DEF NumberOf
  <2> QED BY <1>1, <2>1, <2>2, <2>3
<1>7. CASE m > limit - 1
  <2>1. FromCompact(bits) = FromU64(0) /\ NumberOf(bits) = 0
    <3> HIDE DEF m, s, limit
    <3> QED BY <1>2, <1>4, <1>5, <1>6, <1>7
  <2>2. FromU64(0) \in Uint256
    BY <1>2 DEF FromU64, Uint256, Word
  <2>3. Value(FromU64(0)) = 0
    BY Widths DEF Value, FromU64
  <2> QED BY <2>1, <2>2, <2>3
<1>8. CASE ~ (m > limit - 1)
  <2>1. FromCompact(bits) = Shl(FromU64(m), s) /\ NumberOf(bits) = m * Pow2[s]
    <3> HIDE DEF m, s, limit
    <3> QED BY <1>2, <1>4, <1>5, <1>6, <1>8
  <2>2. m \in Word
    <3> HIDE DEF m, s, limit
    <3> QED BY <1>2, <1>4, <1>8 DEF Word
  <2>3. m * Pow2[s] < Base * Base * Base * Base
    <3>1. CASE small
      <4>1. s = 0
        BY <3>1
      <4> HIDE DEF m, s
      <4>2. m * Pow2[s] = m
        BY <1>4, <4>1, Pow2Type
      <4>3. m < Base
        BY <1>2, <2>2 DEF Word
      <4>4. Base * 1 <= Base * (Base * Base * Base)
        BY <1>2, ProductOrder, Base * Base * Base >= 1
      <4> QED BY <1>2, <1>4, <4>2, <4>3, <4>4
    <3>2. CASE ~small
      BY <1>1, <3>2
    <3> QED BY <3>1, <3>2
  <2> HIDE DEF m, s, limit
  <2>4. Value(Shl(FromU64(m), s)) = m * Pow2[s]
    <3> DEFINE u == Shl(FromU64(m), s)
               start == s \div WordBits
    <3>1. \A i \in 0 .. 3 :
            u[i] = IF i = s \div WordBits THEN (m * Pow2[s % WordBits]) % Base
                   ELSE IF i = s \div WordBits + 1 THEN (m * Pow2[s % WordBits]) \div Base
                   ELSE 0
      BY <1>3, <2>2, ShlOfU64
    <3>2. start \in Nat
      BY <1>3, ShiftParts
    <3>3. CASE m = 0
      <4>1. 0 * Pow2[s % WordBits] = 0 /\ 0 % Base = 0 /\ 0 \div Base = 0
        <5>1. Pow2[s % WordBits] \in Int
          BY <1>3, ShiftParts, Pow2Type
        <5> QED BY <5>1, <1>2, DivSmall
      <4>2. \A i \in 0 .. 3 : u[i] = 0
        BY <3>1, <3>3, <4>1
      <4> HIDE DEF u
      <4>3. Value(u) = 0
        BY <4>2, <1>2 DEF Value
      <4>4. Pow2[s] \in Int
        BY <1>3, Pow2Type
      <4> QED BY <3>3, <4>3, <4>4 DEF u
    <3>4. CASE m # 0
      <4>1. start <= 3 /\ (start = 3 => (m * Pow2[s % WordBits]) \div Base = 0)
        BY <1>3, <1>4, <2>3, <3>4, Fits
      <4> HIDE DEF u
      <4>2. Value(u) = m * Pow2[s]
        BY <1>3, <1>4, <3>1, <4>1, Spread
      <4> QED BY <4>2 DEF u
    <3> QED BY <3>3, <3>4
  <2> QED BY <1>3, <2>1, <2>2, <2>4, ShlOfU64
<1> QED BY <1>7, <1>8

(* A number with that many leading zeros can be shifted by as many bits.   *)
LEMMA LeadingZerosBound ==
  ASSUME NEW x \in Nat, NEW r \in 1 .. WordBits - 1, r <= LeadingZeros(x)
  PROVE  x < Pow2[WordBits - r]
<1> DEFINE top == WordBits - r + 1
           fits == {b \in 0 .. WordBits - 1 : x < Pow2[b]}
<1> SUFFICES ASSUME ~ (x < Pow2[WordBits - r]) PROVE FALSE
  OBVIOUS
<1>1. WordBits \in Nat /\ top \in Nat /\ WordBits - r \in Nat
  BY Widths
<1>2. fits \subseteq top .. WordBits - 1
  <2> SUFFICES ASSUME NEW b \in fits, ~ (top <= b) PROVE FALSE
    BY <1>1
  <2>1. b \in Nat /\ b <= WordBits - r
    BY <1>1
  <2>2. Pow2[b] <= Pow2[WordBits - r] /\ Pow2[b] \in Nat /\ Pow2[WordBits - r] \in Nat
    BY <1>1, <2>1, Pow2Order, Pow2Type
  <2> QED BY <2>2
<1>3. IsFiniteSet(top .. WordBits - 1) /\ Cardinality(top .. WordBits - 1) = r - 1
  <2>1. (WordBits - 1) - top + 1 = r - 1 /\ (WordBits - 1 < top => r - 1 = 0)
    BY <1>1
  <2>2. top \in Int /\ WordBits - 1 \in Int
    BY <1>1
  <2> HIDE DEF top
  <2> QED BY <2>1, <2>2, FS_Interval
<1>4. IsFiniteSet(fits) /\ Cardinality(fits) <= r - 1
  <2> HIDE DEF fits, top
  <2> QED BY <1>2, <1>3, FS_Subset
<1>5. Cardinality(fits) = LeadingZeros(x) /\ Cardinality(fits) \in Nat
  <2>1. Cardinality(fits) = LeadingZeros(x)
    BY DEF LeadingZeros
  <2> HIDE DEF fits
  <2> QED BY <1>4, <2>1, FS_CardinalityType
<1> HIDE DEF fits
<1> QED BY <1>4, <1>5

(* The target of a pool's difficulty. *)
LEMMA TargetOfType ==
  ASSUME NEW r \in Recips
  PROVE  TargetOf(r) \in Uint256
<1> DEFINE m == Mantissa(r)
           start == Exponent(r) \div WordBits
           rem == Exponent(r) % WordBits
           wrapped == (WordBits - rem) % WordBits
           u == TargetOf(r)
<1>1. m \in Nat /\ m < Base /\ Exponent(r) \in Nat
  BY NumberAssumption DEF Mantissa, Exponent
<1>2. start \in Nat /\ rem \in 0 .. WordBits - 1
  <2> DEFINE s == Exponent(r)
  <2>1. s \in Nat
    BY <1>1
  <2> HIDE DEF s
  <2>2. s \div WordBits \in Nat /\ s % WordBits \in 0 .. WordBits - 1
    BY <2>1, ShiftParts
  <2> QED BY <2>2 DEF s
<1>3. Pow2[rem] \in Nat /\ Pow2[wrapped] \in Nat \ {0}
  <2>1. rem \in Nat /\ WordBits - rem \in Nat /\ WordBits \in Nat \ {0}
    BY <1>2, Widths
  <2> HIDE DEF rem
  <2>2. wrapped \in Nat
    BY <2>1, DivMod
  <2> HIDE DEF wrapped
  <2> QED BY <2>1, <2>2, Pow2Type
<1>4. (m * Pow2[rem]) % Base \in Word
  <2>1. m * Pow2[rem] \in Nat /\ Base \in Nat \ {0}
    BY <1>1, <1>3, Widths
  <2> HIDE DEF m, rem
  <2> QED BY <2>1, DivMod DEF Word
<1>5. m \div Pow2[wrapped] \in Word
  <2> HIDE DEF m, wrapped
  <2>1. m \div Pow2[wrapped] \in Nat /\ m \div Pow2[wrapped] <= m
    BY <1>1, <1>3, DivMod, DivSmall
  <2> QED BY <1>1, <2>1, Widths DEF Word
<1>6. u = [i \in 0 .. 3 |->
             IF i = start THEN (m * Pow2[rem]) % Base
             ELSE IF i = start + 1 THEN m \div Pow2[wrapped] ELSE 0]
  BY DEF TargetOf
<1>7. 0 \in Word
  BY Widths DEF Word
<1> HIDE DEF u, m, start, rem, wrapped
<1>8. u \in Uint256
  BY <1>4, <1>5, <1>6, <1>7 DEF Uint256
<1> QED BY <1>8 DEF u

(* A pool's target is the mantissa times its power, above the word bounds. *)
LEMMA TargetOfExact ==
  ASSUME NEW r \in Recips, ~ OutOfBounds(r), ~ TooBig(r), Exponent(r) > 2 * WordBits
  PROVE  Value(TargetOf(r)) = Mantissa(r) * Pow2[Exponent(r)]
<1> DEFINE m == Mantissa(r)
           s == Exponent(r)
           start == s \div WordBits
           rem == s % WordBits
           u == TargetOf(r)
<1>1. m \in Nat /\ m < Base /\ s \in Nat
  BY NumberAssumption DEF Mantissa, Exponent
<1>2. u = [i \in 0 .. 3 |->
             IF i = start THEN (m * Pow2[rem]) % Base
             ELSE IF i = start + 1 THEN m \div Pow2[(WordBits - rem) % WordBits] ELSE 0]
  BY DEF TargetOf
<1>3. ~ (start > 3) /\ s > 2 * WordBits
      /\ (start = 3 => ~ (LeadingZeros(m) < rem))
  BY DEF OutOfBounds, TooBig
<1> HIDE DEF m, s, u
<1>4. start \in Nat /\ rem \in 0 .. WordBits - 1 /\ s = WordBits * start + rem
      /\ WordBits \in Nat \ {0} /\ Base \in Nat \ {0} /\ Base = Pow2[WordBits]
  BY <1>1, ShiftParts, Widths
<1> HIDE DEF start, rem
<1>5. start \in 2 .. 3 /\ (rem = 0 => start = 3)
  <2>1. ASSUME start <= 1 PROVE FALSE
    <3>1. WordBits * start <= WordBits * 1
      BY <1>4, <2>1, ProductOrder
    <3>2. WordBits * start \in Int /\ WordBits * 1 = WordBits
      BY <1>4
    <3> QED BY <1>3, <1>4, <3>1, <3>2
  <2>2. rem = 0 => start # 2
    <3>1. WordBits * 2 = 2 * WordBits /\ 2 * WordBits \in Int
      BY <1>4
    <3> QED BY <1>3, <1>4, <3>1
  <2> QED BY <1>3, <1>4, <2>1, <2>2
<1>6. Pow2[rem] \in Nat \ {0} /\ Pow2[WordBits - rem] \in Nat \ {0}
      /\ Base = Pow2[rem] * Pow2[WordBits - rem] /\ m * Pow2[rem] \in Nat
  <2>1. rem \in Nat /\ WordBits - rem \in Nat /\ WordBits = rem + (WordBits - rem)
    BY <1>4
  <2>2. Pow2[rem] \in Nat \ {0} /\ Pow2[WordBits - rem] \in Nat \ {0}
        /\ Base = Pow2[rem] * Pow2[WordBits - rem]
    BY <1>4, <2>1, Pow2Type, Pow2Sum
  <2> QED BY <1>1, <2>2
<1>7. (m * Pow2[rem]) \div Base = m \div Pow2[WordBits - rem]
  BY <1>1, <1>6, DivScale
<1>8. start = 3 => (m * Pow2[rem]) \div Base = 0
  <2> SUFFICES ASSUME start = 3 PROVE m \div Pow2[WordBits - rem] = 0
    BY <1>7
  <2>1. CASE rem = 0
    <3>1. WordBits - rem = WordBits
      BY <1>4, <2>1
    <3> QED BY <1>1, <1>4, <3>1, DivSmall
  <2>2. CASE rem # 0
    <3>1. rem \in 1 .. WordBits - 1 /\ rem <= LeadingZeros(m)
      <4>1. LeadingZeros(m) \in Int
        <5>1. IsFiniteSet(0 .. WordBits - 1)
          BY <1>4, FS_Interval
        <5>2. IsFiniteSet({b \in 0 .. WordBits - 1 : m < Pow2[b]})
          BY <5>1, FS_Subset
        <5> QED BY <5>2, FS_CardinalityType DEF LeadingZeros
      <4> QED BY <1>3, <1>4, <2>2, <4>1
    <3>2. m < Pow2[WordBits - rem]
      BY <1>1, <3>1, LeadingZerosBound
    <3> QED BY <1>1, <1>6, <3>2, DivSmall
  <2> QED BY <2>1, <2>2
<1>9. ASSUME NEW i \in 0 .. 3
      PROVE  u[i] = IF i = start THEN (m * Pow2[rem]) % Base
                    ELSE IF i = start + 1 THEN (m * Pow2[rem]) \div Base ELSE 0
  <2>1. CASE i = start + 1
    <3>1. start = 2 /\ rem # 0
      BY <1>5, <2>1
    <3>2. (WordBits - rem) % WordBits = WordBits - rem
      <4>1. WordBits - rem \in Nat /\ WordBits - rem < WordBits
        BY <1>4, <3>1
      <4> QED BY <1>4, <4>1, DivSmall
    <3> QED BY <1>2, <1>4, <1>7, <2>1, <3>2
  <2>2. CASE i # start + 1
    BY <1>2, <2>2
  <2> QED BY <2>1, <2>2
<1>10. Value(u) = m * Pow2[s]
  BY <1>1, <1>5, <1>8, <1>9, Spread DEF start, rem
<1> QED BY <1>10 DEF m, s, u

(* The order of words is that of the numbers. *)
LEMMA Horner ==
  ASSUME NEW x \in Word, NEW w \in Nat, NEW y \in Nat, NEW z \in Nat, y < z
  PROVE  x + Base * y < w + Base * z
<1>1. Base \in Nat /\ x \in Nat /\ x < Base
  BY Widths DEF Word
<1>2. Base * (y + 1) <= Base * z
  BY <1>1, ProductOrder
<1>3. Base * (y + 1) = Base * y + Base /\ Base * y \in Int /\ Base * z \in Int
  BY <1>1
<1> QED BY <1>1, <1>2, <1>3

(* The kernel's comparison, from the top word down, is that of the numbers. *)
LEMMA LeqValue ==
  ASSUME NEW a \in Uint256, NEW b \in Uint256, Leq(a, b)
  PROVE  Value(a) <= Value(b)
<1> DEFINE a2 == a[2] + Base * a[3]
           b2 == b[2] + Base * b[3]
           a1 == a[1] + Base * a2
           b1 == b[1] + Base * b2
<1>1. Base \in Nat /\ \A i \in 0 .. 3 : a[i] \in Word /\ b[i] \in Word
  BY Widths DEF Uint256
<1>2. \A x \in Word : x \in Nat
  BY <1>1 DEF Word
<1>3. /\ a[3] \in Nat /\ b[3] \in Nat /\ a2 \in Nat /\ b2 \in Nat /\ a1 \in Nat /\ b1 \in Nat
  <2>1. ASSUME NEW x \in Nat, NEW y \in Nat PROVE x + Base * y \in Nat
    BY <1>1
  <2> QED BY <1>1, <1>2, <2>1
<1>4. Value(a) = a[0] + Base * a1 /\ Value(b) = b[0] + Base * b1
  BY DEF Value
<1>5. a[0] \in Nat /\ b[0] \in Nat /\ Base * a1 \in Int /\ Base * b1 \in Int
  BY <1>1, <1>2, <1>3
<1>6. CASE a = b
  BY <1>4, <1>5, <1>6
<1>7. ASSUME NEW i \in DOMAIN a, a[i] < b[i], \A j \in DOMAIN a : j > i => a[j] = b[j]
      PROVE  Value(a) <= Value(b)
  <2>1. i \in 0 .. 3 /\ \A j \in 0 .. 3 : j > i => a[j] = b[j]
    BY <1>7 DEF Uint256
  <2>2. a1 < b1 => Value(a) < Value(b)
    <3>1. a[0] \in Word /\ b[0] \in Nat
      BY <1>1, <1>2
    <3> HIDE DEF a1, b1
    <3>2. a1 < b1 => a[0] + Base * a1 < b[0] + Base * b1
      BY <1>3, <3>1, Horner
    <3> QED BY <1>4, <3>2
  <2>3. a2 < b2 => a1 < b1
    <3>1. a[1] \in Word /\ b[1] \in Nat
      BY <1>1, <1>2
    <3> HIDE DEF a2, b2
    <3> QED BY <1>3, <3>1, Horner
  <2>4. a[3] < b[3] => a2 < b2
    <3>1. a[2] \in Word /\ b[2] \in Nat
      BY <1>1, <1>2
    <3> QED BY <1>3, <3>1, Horner
  <2>5. CASE i = 0
    <3>1. a[1] = b[1] /\ a[2] = b[2] /\ a[3] = b[3]
      BY <2>1, <2>5
    <3> QED BY <1>4, <1>5, <1>7, <2>5, <3>1
  <2>6. CASE i = 1
    <3>1. a[2] = b[2] /\ a[3] = b[3]
      BY <2>1, <2>6
    <3>2. Base * a2 \in Int /\ a[1] \in Nat /\ b[1] \in Nat
      BY <1>1, <1>2, <1>3
    <3>3. a1 < b1
      BY <1>7, <2>6, <3>1, <3>2
    <3> QED BY <1>4, <1>5, <2>2, <3>3
  <2>7. CASE i = 2
    <3>1. a[3] = b[3]
      BY <2>1, <2>7
    <3>2. Base * a[3] \in Int /\ a[2] \in Nat /\ b[2] \in Nat
      BY <1>1, <1>2, <1>3
    <3>3. a2 < b2
      BY <1>7, <2>7, <3>1, <3>2
    <3> QED BY <1>4, <1>5, <2>2, <2>3, <3>3
  <2>8. CASE i = 3
    BY <1>4, <1>5, <1>7, <2>2, <2>3, <2>4, <2>8
  <2> QED BY <2>1, <2>5, <2>6, <2>7, <2>8
<1> QED BY <1>6, <1>7 DEF Leq

(* The order of bytes is that of the words. *)
LEMMA DivOrder ==
  ASSUME NEW x \in Nat, NEW y \in Nat, NEW d \in Nat \ {0}, x <= y
  PROVE  x \div d <= y \div d
<1> DEFINE p == x \div d
           q == y \div d
<1>1. p \in Nat /\ x % d \in 0 .. d - 1 /\ x = d * p + (x % d)
  BY DivMod
<1>2. q \in Nat /\ y % d \in 0 .. d - 1 /\ y = d * q + (y % d)
  BY DivMod
<1> HIDE DEF p, q
<1>3. ~ (q < p)
  <2> SUFFICES ASSUME q < p PROVE FALSE
    OBVIOUS
  <2>1. d * (q + 1) <= d * p /\ d * (q + 1) = d * q + d
    BY <1>1, <1>2, ProductOrder
  <2>2. d * q \in Int /\ d * p \in Int
    BY <1>1, <1>2
  <2> QED BY <1>1, <1>2, <2>1, <2>2
<1>4. p <= q
  BY <1>1, <1>2, <1>3
<1> QED BY <1>4 DEF p, q

Quo(z, m) == z \div Pow2[ByteBits * m]
Byte(x, k) == (x \div Pow2[ByteBits * k]) % Pow2[ByteBits]

(* The highest byte in which two words differ orders them. *)
LEMMA BytesOrder ==
  ASSUME NEW x \in Word, NEW y \in Word, x < y
  PROVE  \E k \in 0 .. WordBits \div ByteBits - 1 :
           /\ Byte(x, k) < Byte(y, k)
           /\ \A j \in k + 1 .. WordBits \div ByteBits - 1 : Byte(x, j) = Byte(y, j)
<1> DEFINE w == WordBits \div ByteBits
           T == {m \in 0 .. w : Quo(x, m) = Quo(y, m)}
           radix == Pow2[ByteBits]
<1>1. w \in Nat /\ WordBits = ByteBits * w /\ radix \in Nat \ {0} /\ x \in Nat /\ y \in Nat
      /\ x < Base /\ y < Base /\ ByteBits \in Nat /\ Base \in Nat \ {0}
  <2>1. WordBits \in Nat /\ ByteBits \in Nat \ {0} /\ WordBits % ByteBits = 0
    BY WidthAssumption
  <2>2. w \in Nat /\ WordBits = ByteBits * w + 0
    BY <2>1, DivMod
  <2>3. ByteBits * w \in Nat
    BY <2>1, <2>2
  <2> QED BY <2>1, <2>2, <2>3, Widths, Pow2Type DEF Word
<1> HIDE DEF w, radix
<1>2. ASSUME NEW m \in Nat, NEW n \in Nat
      PROVE  /\ Pow2[ByteBits * m] \in Nat \ {0}
             /\ Pow2[ByteBits * (m + n)] = Pow2[ByteBits * m] * Pow2[ByteBits * n]
  <2>1. ByteBits * m \in Nat /\ ByteBits * n \in Nat
        /\ ByteBits * (m + n) = ByteBits * m + ByteBits * n
    BY <1>1
  <2>2. Pow2[ByteBits * m + ByteBits * n] = Pow2[ByteBits * m] * Pow2[ByteBits * n]
    BY <2>1, Pow2Sum
  <2> QED BY <2>1, <2>2, Pow2Type
<1>3. ASSUME NEW z \in Nat, NEW m \in Nat, NEW n \in Nat
      PROVE  Quo(z, m + n) = Quo(z, m) \div Pow2[ByteBits * n]
  <2>1. Pow2[ByteBits * m] \in Nat \ {0} /\ Pow2[ByteBits * n] \in Nat \ {0}
    BY <1>2
  <2>2. (z \div Pow2[ByteBits * m]) \div Pow2[ByteBits * n]
          = z \div (Pow2[ByteBits * m] * Pow2[ByteBits * n])
    BY <2>1, DivDiv
  <2> QED BY <1>2, <2>2 DEF Quo
<1>4. w \in T
  <2>1. Pow2[ByteBits * w] = Base
    BY <1>1 DEF Base
  <2>2. x \div Base = 0 /\ y \div Base = 0
    BY <1>1, DivSmall
  <2>3. Quo(x, w) = Quo(y, w)
    BY <2>1, <2>2 DEF Quo
  <2> QED BY <1>1, <2>3
<1>5. 0 \notin T
  <2>1. Pow2[ByteBits * 0] = 1
    BY <1>1, Pow2Type
  <2>2. x \div 1 = x /\ y \div 1 = y
    BY <1>1
  <2>3. Quo(x, 0) = x /\ Quo(y, 0) = y
    BY <2>1, <2>2 DEF Quo
  <2> QED BY <1>1, <2>3
<1>6. PICK m \in T : \A n \in T : m <= n
  <2>1. T \in SUBSET Nat /\ T # {}
    BY <1>1, <1>4
  <2> HIDE DEF T
  <2> QED BY <2>1, Least
<1> DEFINE k == m - 1
<1>7. k \in Nat /\ k \in 0 .. w - 1 /\ k \notin T /\ m = k + 1 /\ m \in Nat
  BY <1>1, <1>5, <1>6
<1>8. Quo(x, k) # Quo(y, k) /\ Quo(x, m) = Quo(y, m)
  <2>1. k \in 0 .. w
    BY <1>1, <1>7
  <2> QED BY <1>6, <1>7, <2>1
<1> HIDE DEF T, k
<1>9. ASSUME NEW z \in Nat
      PROVE  /\ Quo(z, k) \in Nat /\ Quo(z, m) \in Nat /\ Byte(z, k) \in Nat
             /\ Quo(z, k) = radix * Quo(z, m) + Byte(z, k)
  <2>1. Pow2[ByteBits * k] \in Nat \ {0}
    BY <1>2, <1>7
  <2>2. Quo(z, k) \in Nat
    BY <2>1, DivMod DEF Quo
  <2>3. Quo(z, k + 1) = Quo(z, k) \div radix
    <3>1. ByteBits * 1 = ByteBits
      BY <1>1
    <3>2. Quo(z, k + 1) = Quo(z, k) \div Pow2[ByteBits * 1]
      BY <1>3, <1>7
    <3> QED BY <3>1, <3>2 DEF radix
  <2>4. Byte(z, k) = Quo(z, k) % radix
    BY DEF Byte, Quo, radix
  <2>5. Quo(z, k) \div radix \in Nat /\ Quo(z, k) % radix \in 0 .. radix - 1
        /\ Quo(z, k) = radix * (Quo(z, k) \div radix) + (Quo(z, k) % radix)
    BY <1>1, <2>2, DivMod
  <2> QED BY <1>1, <1>7, <2>2, <2>3, <2>4, <2>5
<1>10. Quo(x, k) <= Quo(y, k)
  <2>1. Pow2[ByteBits * k] \in Nat \ {0} /\ x <= y
    BY <1>1, <1>2, <1>7
  <2> QED BY <1>1, <2>1, DivOrder DEF Quo
<1>11. Byte(x, k) < Byte(y, k)
  <2> DEFINE qx == Quo(x, k)
             qy == Quo(y, k)
             high == radix * Quo(x, m)
  <2>1. qx \in Nat /\ qy \in Nat /\ qx < qy /\ Byte(x, k) \in Nat /\ Byte(y, k) \in Nat
    <3>1. Quo(x, k) \in Nat /\ Quo(y, k) \in Nat /\ Byte(x, k) \in Nat /\ Byte(y, k) \in Nat
      BY <1>1, <1>9
    <3> QED BY <1>8, <1>10, <3>1
  <2>2. high \in Int /\ qx = high + Byte(x, k) /\ qy = high + Byte(y, k)
    BY <1>1, <1>8, <1>9
  <2> HIDE DEF qx, qy, high
  <2> QED BY <2>1, <2>2
<1>12. ASSUME NEW j \in k + 1 .. w - 1 PROVE Byte(x, j) = Byte(y, j)
  <2> DEFINE d == j - m
  <2>1. d \in Nat /\ j = m + d
    BY <1>1, <1>7
  <2> HIDE DEF d
  <2>2. Quo(x, m + d) = Quo(x, m) \div Pow2[ByteBits * d]
    BY <1>1, <1>3, <1>7, <2>1
  <2>3. Quo(y, m + d) = Quo(y, m) \div Pow2[ByteBits * d]
    BY <1>1, <1>3, <1>7, <2>1
  <2>4. Quo(x, j) = Quo(y, j)
    BY <1>8, <2>1, <2>2, <2>3
  <2> QED BY <2>4 DEF Byte, Quo
<1> QED BY <1>7, <1>11, <1>12 DEF w

(* What the kernel finds small enough the host finds small enough. *)
LEMMA LeqBytes ==
  ASSUME NEW a \in Uint256, NEW b \in Uint256, Leq(a, b)
  PROVE  LeLeq(a, b)
<1> DEFINE w == WordBits \div ByteBits
           A == ToLeBytes(a)
           B == ToLeBytes(b)
<1>1. w \in Nat \ {0}
  <2>1. WordBits \in Nat /\ ByteBits \in Nat \ {0} /\ WordBits > 0 /\ WordBits % ByteBits = 0
    BY Widths, WidthAssumption
  <2>2. w \in Nat /\ WordBits = ByteBits * w + 0
    BY <2>1, DivMod
  <2>3. ByteBits * 0 = 0
    BY <2>1
  <2> QED BY <2>1, <2>2, <2>3
<1>2. DOMAIN A = 0 .. 4 * w - 1 /\ DOMAIN B = 0 .. 4 * w - 1
  BY DEF ToLeBytes
<1>3. \A c \in 0 .. 4 * w - 1 : /\ A[c] = Byte(a[c \div w], c % w)
                                /\ B[c] = Byte(b[c \div w], c % w)
  BY DEF ToLeBytes, Byte
<1>4. CASE a = b
  BY <1>4 DEF LeLeq, Leq
<1>5. ASSUME NEW i \in DOMAIN a, a[i] < b[i], \A j \in DOMAIN a : j > i => a[j] = b[j]
      PROVE  LeLeq(a, b)
  <2>1. i \in 0 .. 3 /\ a[i] \in Word /\ b[i] \in Word
        /\ \A j \in 0 .. 3 : j > i => a[j] = b[j]
    BY <1>5 DEF Uint256
  <2>2. PICK k \in 0 .. w - 1 :
          /\ Byte(a[i], k) < Byte(b[i], k)
          /\ \A j \in k + 1 .. w - 1 : Byte(a[i], j) = Byte(b[i], j)
    BY <1>5, <2>1, BytesOrder
  <2> DEFINE c == w * i + k
  <2> HIDE DEF w, A, B
  <2>3. c \div w = i /\ c % w = k
    <3>1. i \in Nat /\ k \in 0 .. w - 1
      BY <2>1
    <3> QED BY <1>1, <3>1, DivUnique
  <2>4. c \in 0 .. 4 * w - 1
    <3>1. w * i <= w * 3 /\ w * i >= 0 /\ w * 3 = 3 * w
      BY <1>1, <2>1, ProductOrder
    <3> QED BY <1>1, <2>1, <3>1
  <2>5. A[c] < B[c]
    BY <1>3, <2>2, <2>3, <2>4
  <2>6. ASSUME NEW j \in 0 .. 4 * w - 1, j > c PROVE A[j] = B[j]
    <3> DEFINE q == j \div w
               r == j % w
    <3>1. q \in Nat /\ r \in 0 .. w - 1 /\ j = w * q + r
      <4>1. j \in Nat
        OBVIOUS
      <4> QED BY <1>1, <4>1, DivMod
    <3>2. A[j] = Byte(a[q], r) /\ B[j] = Byte(b[q], r)
      BY <1>3, <2>6
    <3> HIDE DEF q, r
    <3>3. q <= 3
      <4> SUFFICES ASSUME ~ (q <= 3) PROVE FALSE
        OBVIOUS
      <4>1. w * 4 <= w * q /\ w * 4 = 4 * w /\ w * q \in Int
        BY <1>1, <3>1, ProductOrder
      <4> QED BY <1>1, <2>6, <3>1, <4>1
    <3>4. q >= i
      <4> SUFFICES ASSUME ~ (q >= i) PROVE FALSE
        OBVIOUS
      <4>1. w * (q + 1) <= w * i /\ w * (q + 1) = w * q + w /\ w * q \in Int /\ w * i \in Int
        BY <1>1, <2>1, <3>1, ProductOrder
      <4> QED BY <1>1, <2>1, <2>6, <3>1, <4>1
    <3>5. CASE q = i
      <4>1. r \in k + 1 .. w - 1
        <5>1. w * i \in Int
          BY <1>1, <2>1
        <5> QED BY <1>1, <2>6, <3>1, <3>5, <5>1
      <4> QED BY <2>2, <3>2, <3>5, <4>1
    <3>6. CASE q > i
      BY <2>1, <3>1, <3>2, <3>3, <3>6
    <3> QED BY <2>1, <3>1, <3>4, <3>5, <3>6
  <2> HIDE DEF c
  <2> QED BY <1>2, <2>4, <2>5, <2>6 DEF LeLeq, Leq, A, B
<1> QED BY <1>4, <1>5 DEF Leq

--------------------------------------------------------------------------------
(* Sequences of anything, as functions of their places. *)

IsList(s, n) == n \in Nat /\ s = [i \in 1 .. n |-> s[i]]

(* A list by its length and elements is a sequence over them. *)
LEMMA LenOf ==
  ASSUME NEW s, NEW n, IsList(s, n)
  PROVE  s \in Seq({s[i] : i \in 1 .. n}) /\ Len(s) = n /\ DOMAIN s = 1 .. n
<1> DEFINE S == {s[i] : i \in 1 .. n}
<1>1. s \in [1 .. n -> S] /\ n \in Nat /\ DOMAIN s = 1 .. n
  BY DEF IsList
<1> HIDE DEF S
<1>2. s \in Seq(S)
  BY <1>1
<1> QED BY <1>1, <1>2 DEF S

LEMMA BuiltOf ==
  ASSUME NEW s, NEW n, IsList(s, n)
  PROVE  Built(s) = s
<1> DEFINE S == {s[i] : i \in 1 .. n}
<1>1. s \in Seq(S)
  BY LenOf
<1> HIDE DEF S
<1> QED BY <1>1 DEF Built

Cat(f, g) == f \o g

Joined(h, f, m, g, n) ==
  /\ IsList(h, m + n)
  /\ \A i \in 1 .. m : h[i] = f[i]
  /\ \A i \in 1 .. n : h[m + i] = g[i]
  /\ \A i \in m + 1 .. m + n : h[i] = g[i - m]

LEMMA CatOf ==
  ASSUME NEW f, NEW m, IsList(f, m), NEW g, NEW n, IsList(g, n),
         NEW h, h = Cat(f, g)
  PROVE  Joined(h, f, m, g, n)
<1> DEFINE S == {f[i] : i \in 1 .. m} \cup {g[i] : i \in 1 .. n}
<1>1. f \in [1 .. m -> S] /\ g \in [1 .. n -> S] /\ m \in Nat /\ n \in Nat
  BY DEF IsList
<1> HIDE DEF S
<1>2. f \in Seq(S) /\ g \in Seq(S) /\ Len(f) = m /\ Len(g) = n
  BY <1>1
<1> DEFINE c == f \o g
<1>3. c \in Seq(S) /\ Len(c) = m + n
  BY <1>2
<1>4. \A i \in 1 .. m + n : c[i] = IF i <= m THEN f[i] ELSE g[i - m]
  BY <1>1, <1>2
<1> HIDE DEF c
<1>8. h = c
  BY DEF Cat, c
<1>5. h = [i \in 1 .. m + n |-> h[i]]
  BY <1>1, <1>3, <1>8
<1>6. \A i \in 1 .. m : h[i] = f[i]
  BY <1>1, <1>4, <1>8
<1>7. ASSUME NEW i \in 1 .. n PROVE h[m + i] = g[i]
  <2>1. m + i \in 1 .. m + n /\ ~ (m + i <= m) /\ (m + i) - m = i
    BY <1>1
  <2> QED BY <1>4, <1>8, <2>1
<1>9. m + n \in Nat
  BY <1>1
<1>10. IsList(h, m + n)
  BY <1>5, <1>9 DEF IsList
<1>11. ASSUME NEW i \in m + 1 .. m + n PROVE h[i] = g[i - m]
  <2>1. i \in 1 .. m + n /\ ~ (i <= m)
    BY <1>1
  <2> QED BY <1>4, <1>8, <2>1
<1> QED BY <1>6, <1>7, <1>10, <1>11 DEF Joined

Added(h, f, m, x) ==
  /\ IsList(h, m + 1)
  /\ \A i \in 1 .. m : h[i] = f[i]
  /\ h[m + 1] = x

LEMMA AppendOf ==
  ASSUME NEW f, NEW m, IsList(f, m), NEW x
  PROVE  Added(Append(f, x), f, m, x)
<1> DEFINE S == {f[i] : i \in 1 .. m} \cup {x}
<1>1. f \in [1 .. m -> S] /\ m \in Nat /\ x \in S
  BY DEF IsList
<1> HIDE DEF S
<1>2. f \in Seq(S) /\ Len(f) = m
  BY <1>1
<1> DEFINE h == Append(f, x)
<1>3. h \in Seq(S) /\ Len(h) = m + 1 /\ h[m + 1] = x /\ \A i \in 1 .. m : h[i] = f[i]
  BY <1>1, <1>2
<1> HIDE DEF h
<1>4. h = [i \in 1 .. m + 1 |-> h[i]]
  BY <1>1, <1>3
<1>5. IsList(h, m + 1)
  <2>1. m + 1 \in Nat
    BY <1>1
  <2> QED BY <2>1, <1>4 DEF IsList
<1>6. Added(h, f, m, x)
  BY <1>3, <1>5 DEF Added
<1> QED BY <1>6 DEF h

Slice(s, from, k) == [i \in 1 .. k |-> s[from + i]]

LEMMA SubSeqOf ==
  ASSUME NEW s, NEW n, IsList(s, n), NEW from \in Nat, NEW k \in Nat, from + k <= n
  PROVE  SubSeq(s, from + 1, from + k) = Slice(s, from, k)
<1> DEFINE S == {s[i] : i \in 1 .. n}
<1>1. s \in Seq(S) /\ Len(s) = n /\ n \in Nat
  BY LenOf DEF IsList
<1> HIDE DEF S
<1> DEFINE h == SubSeq(s, from + 1, from + k)
<1>2. from + 1 \in Int /\ from + k \in Int /\ \A i \in from + 1 .. from + k : s[i] \in S
  BY <1>1
<1>3. /\ h \in Seq(S)
      /\ Len(h) = IF from + 1 <= from + k THEN (from + k) - (from + 1) + 1 ELSE 0
      /\ \A i \in 1 .. (from + k) - (from + 1) + 1 : h[i] = s[(from + 1) + i - 1]
  BY <1>2, SubSeqProperties
<1> HIDE DEF h
<1>5. Len(h) = k /\ \A i \in 1 .. k : h[i] = s[from + i]
  <2>1. (from + k) - (from + 1) + 1 = k /\ \A i \in 1 .. k : (from + 1) + i - 1 = from + i
    OBVIOUS
  <2>2. Len(h) = k
    BY <1>3, <2>1
  <2> QED BY <1>3, <2>1, <2>2
<1>6. h = [i \in 1 .. k |-> h[i]]
  BY <1>3, <1>5
<1>4. h = [i \in 1 .. k |-> s[from + i]]
  BY <1>5, <1>6
<1> QED BY <1>4 DEF h, Slice

--------------------------------------------------------------------------------
(* Merkle trees. *)

(* The next level has half the nodes, one more if the level is odd. *)
LEMMA ReduceOf ==
  ASSUME NEW v, NEW n, IsList(v, n)
  PROVE  /\ IsList(Reduce(v), (n + 1) \div 2)
         /\ \A j \in 1 .. (n + 1) \div 2 :
              Reduce(v)[j] = Pair(v[2 * j - 1], v[IF 2 * j <= n THEN 2 * j ELSE 2 * j - 1])
<1> DEFINE r == [i \in 1 .. (n + 1) \div 2 |->
                   Pair(v[2 * i - 1], v[IF 2 * i <= n THEN 2 * i ELSE 2 * i - 1])]
<1>1. n \in Nat /\ (n + 1) \div 2 \in Nat
  BY DEF IsList
<1>2. IsList(r, (n + 1) \div 2)
  BY <1>1 DEF IsList
<1>3. Built(r) = r
  <2> HIDE DEF r
  <2> QED BY <1>2, BuiltOf
<1>4. Reduce(v) = r
  <2>1. Len(v) = n
    BY LenOf
  <2> QED BY <1>3, <2>1 DEF Reduce
<1> QED BY <1>2, <1>4

(* What the tree over leaves is: levels of which the next halves the last, *)
(* up to the one of a single node.                                         *)
Halving(level, leaves) ==
  /\ IsList(level, Len(level)) /\ Len(level) >= 1 /\ level[1] = leaves
  /\ \A l \in 1 .. Len(level) : IsList(level[l], Len(level[l])) /\ Len(level[l]) >= 1
  /\ \A l \in 1 .. Len(level) - 1 : Len(level[l]) > 1 /\ level[l + 1] = Reduce(level[l])

IsTree(level, leaves) == Halving(level, leaves) /\ Len(level[Len(level)]) = 1

Grow(below) ==
  IF Len(Last(below)) > 1 THEN Append(below, Reduce(Last(below))) ELSE below

GrowsTo(f, n, leaves) ==
  f = [l \in 0 .. n |-> IF l = 0 THEN <<leaves>> ELSE Grow(f[l - 1])]

(* The recursion that builds a tree exists, without a set of all trees. *)
LEMMA GrowsToExists ==
  ASSUME NEW N \in Nat, NEW leaves
  PROVE  \E f : GrowsTo(f, N, leaves)
<1> DEFINE T == {n \in 0 .. N : \E f : GrowsTo(f, n, leaves)}
<1>1. 0 \in T
  <2>1. GrowsTo([l \in 0 .. 0 |-> <<leaves>>], 0, leaves)
    BY DEF GrowsTo
  <2> QED BY <2>1
<1>2. ASSUME NEW n \in 0 .. N - 1, n \in T PROVE n + 1 \in T
  <2>1. PICK f : GrowsTo(f, n, leaves)
    BY <1>2
  <2> DEFINE g == [l \in 0 .. n + 1 |-> IF l = n + 1 THEN Grow(f[n]) ELSE f[l]]
  <2>2. ASSUME NEW l \in 0 .. n + 1 PROVE g[l] = IF l = 0 THEN <<leaves>> ELSE Grow(g[l - 1])
    <3>1. CASE l = n + 1
      BY <3>1
    <3>2. CASE l # n + 1
      <4>1. l \in 0 .. n /\ (l # 0 => l - 1 \in 0 .. n)
        BY <3>2
      <4>2. f[l] = IF l = 0 THEN <<leaves>> ELSE Grow(f[l - 1])
        BY <2>1, <4>1 DEF GrowsTo
      <4> QED BY <4>1, <4>2
    <3> QED BY <3>1, <3>2
  <2>3. g = [l \in 0 .. n + 1 |-> g[l]]
    OBVIOUS
  <2> HIDE DEF g
  <2>4. GrowsTo(g, n + 1, leaves)
    BY <2>2, <2>3 DEF GrowsTo
  <2> QED BY <2>4
<1>3. \A n \in 0 .. N : n \in T
  <2> HIDE DEF T
  <2> QED BY <1>1, <1>2, InductionUpTo
<1> QED BY <1>3

LEMMA TreeGrows ==
  ASSUME NEW leaves
  PROVE  \E f : Len(leaves) \in Nat => GrowsTo(f, Len(leaves), leaves) /\ MerkleTree(leaves) = f[Len(leaves)]
<1> SUFFICES ASSUME Len(leaves) \in Nat
             PROVE  \E f : GrowsTo(f, Len(leaves), leaves) /\ MerkleTree(leaves) = f[Len(leaves)]
  OBVIOUS
<1> DEFINE f == CHOOSE f : GrowsTo(f, Len(leaves), leaves)
<1>1. GrowsTo(f, Len(leaves), leaves)
  BY GrowsToExists
<1>2. MerkleTree(leaves) = f[Len(leaves)]
  BY DEF MerkleTree, GrowsTo, Grow
<1> QED BY <1>1, <1>2

(* Every level has a node, the last one too. *)
LEMMA HalvingLast ==
  ASSUME NEW L, NEW leaves, Halving(L, leaves)
  PROVE  /\ Len(L) \in Nat \ {0} /\ Last(L) = L[Len(L)]
         /\ IsList(Last(L), Len(Last(L))) /\ Len(Last(L)) \in Nat \ {0}
<1>1. Len(L) \in Nat \ {0}
  BY DEF Halving, IsList
<1>2. Len(L) \in 1 .. Len(L)
  BY <1>1
<1>3. IsList(L[Len(L)], Len(L[Len(L)])) /\ Len(L[Len(L)]) >= 1
  BY <1>2 DEF Halving
<1>4. Len(L[Len(L)]) \in Nat
  BY <1>3 DEF IsList
<1> QED BY <1>1, <1>3, <1>4 DEF Last

LEMMA HalvingGrows ==
  ASSUME NEW level, NEW leaves, Halving(level, leaves), Len(Last(level)) > 1
  PROVE  /\ Halving(Append(level, Reduce(Last(level))), leaves)
         /\ Len(Append(level, Reduce(Last(level)))) = Len(level) + 1
         /\ Len(Reduce(Last(level))) = (Len(Last(level)) + 1) \div 2
         /\ Last(Append(level, Reduce(Last(level)))) = Reduce(Last(level))
<1> DEFINE k == Len(level)
           last == level[k]
           c == Len(last)
           r == Reduce(last)
           new == Append(level, r)
<1>1. /\ IsList(level, k) /\ k \in Nat /\ k >= 1 /\ level[1] = leaves
      /\ \A l \in 1 .. k : IsList(level[l], Len(level[l])) /\ Len(level[l]) >= 1
      /\ \A l \in 1 .. k - 1 : Len(level[l]) > 1 /\ level[l + 1] = Reduce(level[l])
  BY DEF Halving, IsList
<1>2. Last(level) = last /\ c > 1
  BY DEF Last
<1>3. IsList(last, c) /\ c \in Nat
  BY <1>1 DEF IsList
<1> HIDE DEF last, c
<1>4. IsList(r, (c + 1) \div 2) /\ Len(r) = (c + 1) \div 2
  BY <1>3, ReduceOf, LenOf
<1>5. (c + 1) \div 2 >= 1
  BY <1>2, <1>3
<1>6. /\ IsList(new, k + 1) /\ new[k + 1] = r
      /\ \A i \in 1 .. k : new[i] = level[i]
  BY <1>1, AppendOf DEF Added
<1>7. Len(new) = k + 1
  BY <1>6, LenOf
<1>0. \A l \in 1 .. k : l = k => level[l] = last /\ Len(level[l]) = c
  BY DEF last, c
<1> HIDE DEF r, new, k
<1>8. new[1] = leaves
  BY <1>1, <1>6
<1>9. ASSUME NEW l \in 1 .. k + 1 PROVE IsList(new[l], Len(new[l])) /\ Len(new[l]) >= 1
  <2>1. CASE l = k + 1
    BY <2>1, <1>4, <1>5, <1>6
  <2>2. CASE l # k + 1
    BY <2>2, <1>1, <1>6
  <2> QED BY <2>1, <2>2
<1>10. ASSUME NEW l \in 1 .. (k + 1) - 1 PROVE Len(new[l]) > 1 /\ new[l + 1] = Reduce(new[l])
  <2>0. l \in 1 .. k /\ new[l] = level[l]
    BY <1>1, <1>6
  <2>1. CASE l = k
    BY <2>0, <2>1, <1>0, <1>2, <1>6 DEF r
  <2>2. CASE l # k
    <3>1. l \in 1 .. k - 1 /\ l + 1 \in 1 .. k
      BY <2>2, <1>1
    <3> QED BY <2>0, <3>1, <1>1, <1>6
  <2> QED BY <2>1, <2>2
<1>11. Halving(new, leaves)
  <2>1. k + 1 >= 1
    BY <1>1
  <2> QED BY <1>6, <1>7, <1>8, <1>9, <1>10, <2>1 DEF Halving
<1>12. Last(new) = r
  BY <1>6, <1>7 DEF Last
<1> QED
  <2>1. Last(level) = last /\ k = Len(level) /\ r = Reduce(last) /\ new = Append(level, r) /\ c = Len(last)
    BY <1>2 DEF k, c, r, new
  <2> QED BY <2>1, <1>4, <1>7, <1>11, <1>12

(* MerkleTree gives the levels from the leaves to a single node. *)
LEMMA TreeOf ==
  ASSUME NEW leaves, NEW n \in Nat \ {0}, IsList(leaves, n)
  PROVE  IsTree(MerkleTree(leaves), leaves)
<1>1. Len(leaves) = n
  BY LenOf
<1>2. PICK f : GrowsTo(f, n, leaves) /\ MerkleTree(leaves) = f[n]
  <2>1. \E f : Len(leaves) \in Nat =>
          GrowsTo(f, Len(leaves), leaves) /\ MerkleTree(leaves) = f[Len(leaves)]
    BY TreeGrows
  <2> QED BY <2>1, <1>1
<1>3. /\ f[0] = <<leaves>>
      /\ \A l \in 1 .. n : f[l] = Grow(f[l - 1])
  BY <1>2 DEF GrowsTo
<1> DEFINE Good(t) == /\ Halving(f[t], leaves)
                      /\ Len(Last(f[t])) = 1 \/ Len(f[t]) = t + 1
                      /\ Len(Last(f[t])) + Len(f[t]) <= n + 1
           T == {t \in 0 .. n : Good(t)}
<1>4. Good(0)
  <2> DEFINE s == <<leaves>>
  <2>1. s = [i \in 1 .. 1 |-> s[i]] /\ Len(s) = 1 /\ s[1] = leaves
    OBVIOUS
  <2>2. f[0] = s
    BY <1>3
  <2> HIDE DEF s
  <2>3. Halving(s, leaves)
    BY <2>1, <1>1 DEF Halving, IsList
  <2>4. Last(s) = leaves
    BY <2>1 DEF Last
  <2> QED BY <2>1, <2>2, <2>3, <2>4, <1>1
<1>5. ASSUME NEW t \in 0 .. n - 1, Good(t) PROVE Good(t + 1)
  <2>1. f[t + 1] = Grow(f[t])
    <3>1. t + 1 \in 1 .. n /\ (t + 1) - 1 = t
      OBVIOUS
    <3> QED BY <3>1, <1>3
  <2> DEFINE L == f[t]
             c == Len(Last(L))
  <2>2. Halving(L, leaves) /\ (c = 1 \/ Len(L) = t + 1) /\ c + Len(L) <= n + 1
    BY <1>5
  <2>3. Len(L) \in Nat /\ c \in Nat /\ c >= 1
    <3> HIDE DEF L
    <3> QED BY <2>2, HalvingLast
  <2>4. CASE c > 1
    <3>1. f[t + 1] = Append(L, Reduce(Last(L)))
      BY <2>1, <2>4 DEF Grow
    <3>2. /\ Halving(f[t + 1], leaves) /\ Len(f[t + 1]) = Len(L) + 1
          /\ Len(Last(f[t + 1])) = (c + 1) \div 2
      <4> HIDE DEF L
      <4> QED BY <3>1, <2>2, <2>4, HalvingGrows
    <3>3. (c + 1) \div 2 <= c - 1
      BY <2>3, <2>4
    <3> HIDE DEF L, c
    <3> QED BY <3>2, <3>3, <2>2, <2>3, <2>4
  <2>5. CASE ~ (c > 1)
    <3>1. f[t + 1] = L /\ c = 1
      <4>1. f[t + 1] = L
        BY <2>1, <2>5 DEF Grow
      <4> HIDE DEF L, c
      <4> QED BY <4>1, <2>3, <2>5
    <3> QED BY <3>1, <2>2
  <2> HIDE DEF L, c
  <2> QED BY <2>3, <2>4, <2>5
<1>6. \A t \in 0 .. n : t \in T
  <2>1. 0 \in T /\ \A t \in 0 .. n - 1 : t \in T => t + 1 \in T
    <3> HIDE DEF Good
    <3> QED BY <1>4, <1>5
  <2> HIDE DEF T
  <2> QED BY <2>1, InductionUpTo
<1>7. Good(n)
  <2> HIDE DEF Good
  <2> QED BY <1>6
<1> DEFINE M == f[n]
<1>8. Halving(M, leaves) /\ Len(Last(M)) = 1 /\ Last(M) = M[Len(M)]
  <2>1. Len(Last(M)) \in Nat /\ Len(Last(M)) >= 1 /\ Len(M) \in Nat /\ Last(M) = M[Len(M)]
    <3>1. Halving(M, leaves)
      BY <1>7
    <3> HIDE DEF M
    <3> QED BY <3>1, HalvingLast
  <2>2. /\ Halving(M, leaves) /\ (Len(Last(M)) = 1 \/ Len(M) = n + 1)
        /\ Len(Last(M)) + Len(M) <= n + 1
    BY <1>7
  <2> HIDE DEF M
  <2> QED BY <2>1, <2>2
<1> HIDE DEF M
<1> QED BY <1>8, <1>2 DEF IsTree, M

(* A node and its partner are what the node above them pairs. *)
LEMMA ReducePair ==
  ASSUME NEW v, NEW c \in Nat, IsList(v, c), NEW a \in 0 .. c - 1
  PROVE  /\ a \div 2 \in 0 .. (c + 1) \div 2 - 1
         /\ Reduce(v)[1 + a \div 2] =
              IF a % 2 = 0 THEN Pair(v[1 + a], v[1 + Partner(a, c)])
              ELSE Pair(v[1 + Partner(a, c)], v[1 + a])
<1> DEFINE q == a \div 2
           j == 1 + q
<1>1. q \in Nat /\ a % 2 \in 0 .. 1 /\ a = 2 * q + (a % 2)
  OBVIOUS
<1>2. q <= (c + 1) \div 2 - 1
  OBVIOUS
<1>3. j \in 1 .. (c + 1) \div 2
  BY <1>1, <1>2
<1>4. Reduce(v)[j] = Pair(v[2 * j - 1], v[IF 2 * j <= c THEN 2 * j ELSE 2 * j - 1])
  BY <1>3, ReduceOf
<1> HIDE DEF q
<1>5. CASE a % 2 = 0
  <2>1. 2 * j - 1 = 1 + a
    BY <1>1, <1>5
  <2>2. (IF 2 * j <= c THEN 2 * j ELSE 2 * j - 1) = 1 + Partner(a, c)
    BY <1>1, <1>5 DEF Partner
  <2> QED BY <1>1, <1>2, <1>4, <1>5, <2>1, <2>2 DEF q
<1>6. CASE a % 2 = 1
  <2>1. 2 * j - 1 = 1 + Partner(a, c)
    BY <1>1, <1>6 DEF Partner
  <2>2. (IF 2 * j <= c THEN 2 * j ELSE 2 * j - 1) = 1 + a
    BY <1>1, <1>6
  <2> QED BY <1>1, <1>2, <1>4, <1>6, <2>1, <2>2 DEF q
<1> QED BY <1>1, <1>5, <1>6

Climbs(f, leaf, i, path) ==
  f = [l \in 0 .. Len(path) |->
         IF l = 0 THEN leaf
         ELSE IF (i \div Pow2[l - 1]) % 2 = 0 THEN Pair(f[l - 1], path[l])
         ELSE Pair(path[l], f[l - 1])]

(* The nodes on the way up are those of any function that climbs the path. *)
LEMMA Verified ==
  ASSUME NEW g, NEW leaf, NEW i, NEW path, NEW root, Len(path) \in Nat,
         Climbs(g, leaf, i, path), g[Len(path)] = root
  PROVE  VerifyMerkle(leaf, i, path, root)
<1> DEFINE f == CHOOSE f : Climbs(f, leaf, i, path)
           k == Len(path)
           T == {l \in 0 .. k : f[l] = g[l]}
<1>1. Climbs(f, leaf, i, path)
  OBVIOUS
<1>2. VerifyMerkle(leaf, i, path, root) = (f[k] = root)
  BY DEF VerifyMerkle, Climbs
<1> HIDE DEF f
<1>3. f[0] = leaf /\ g[0] = leaf
  BY <1>1 DEF Climbs
<1>4. ASSUME NEW l \in 0 .. k - 1, f[l] = g[l] PROVE f[l + 1] = g[l + 1]
  <2>1. l + 1 \in 0 .. k /\ l + 1 # 0 /\ (l + 1) - 1 = l
    OBVIOUS
  <2>2. f[l + 1] = IF (i \div Pow2[l]) % 2 = 0 THEN Pair(f[l], path[l + 1])
                   ELSE Pair(path[l + 1], f[l])
    BY <2>1, <1>1 DEF Climbs
  <2>3. g[l + 1] = IF (i \div Pow2[l]) % 2 = 0 THEN Pair(g[l], path[l + 1])
                   ELSE Pair(path[l + 1], g[l])
    BY <2>1 DEF Climbs
  <2> QED BY <2>2, <2>3, <1>4
<1>5. \A l \in 0 .. k : l \in T
  <2>1. 0 \in T /\ \A l \in 0 .. k - 1 : l \in T => l + 1 \in T
    BY <1>3, <1>4
  <2> HIDE DEF T
  <2> QED BY <2>1, InductionUpTo
<1>6. k \in T
  <2> HIDE DEF T
  <2> QED BY <1>5
<1> QED BY <1>2, <1>6

(* The path of any leaf verifies against the root, for any number of leaves. *)
LEMMA PathVerifies ==
  ASSUME NEW L, NEW leaves, IsTree(L, leaves), NEW i \in 0 .. Len(leaves) - 1
  PROVE  VerifyMerkle(leaves[i + 1], i, MerkleProof(L, i), MerkleRoot(L))
<1> DEFINE k == Len(L) - 1
           at(l) == i \div Pow2[l]
           path == MerkleProof(L, i)
           g == [l \in 0 .. k |-> L[l + 1][1 + at(l)]]
<1>1. /\ k \in Nat /\ Len(L) = k + 1 /\ L[1] = leaves /\ i \in Nat
      /\ \A l \in 1 .. k + 1 : IsList(L[l], Len(L[l])) /\ Len(L[l]) \in Nat
      /\ \A l \in 1 .. k : L[l + 1] = Reduce(L[l])
      /\ Len(L[k + 1]) = 1
  BY DEF IsTree, Halving, IsList
<1>2. path = [l \in 1 .. k |-> L[l][1 + Partner(at(l - 1), Len(L[l]))]]
  BY DEF MerkleProof
<1>3. Len(path) = k
  <2>1. IsList(path, k)
    BY <1>1, <1>2 DEF IsList
  <2> HIDE DEF path, k
  <2> QED BY <2>1, LenOf
<1>4. at(0) = i
  BY Pow2Type
<1>5. ASSUME NEW l \in 0 .. k - 1 PROVE at(l) \div 2 = at(l + 1)
  <2>0. l \in Nat
    BY <1>1
  <2>a. Pow2[l] \in Nat \ {0} /\ Pow2[l + 1] = 2 * Pow2[l]
    BY <2>0, Pow2Type
  <2>1. Pow2[l] \in Nat \ {0} /\ Pow2[l + 1] = Pow2[l] * 2
    BY <2>a
  <2>2. (i \div Pow2[l]) \div 2 = i \div (Pow2[l] * 2)
    BY <1>1, <2>1, DivDiv
  <2> QED BY <2>1, <2>2
<1> HIDE DEF path, at, k
<1> DEFINE T == {l \in 0 .. k : at(l) \in 0 .. Len(L[l + 1]) - 1}
<1>6. ASSUME NEW l \in 0 .. k - 1, at(l) \in 0 .. Len(L[l + 1]) - 1
      PROVE  /\ at(l + 1) \in 0 .. Len(L[l + 2]) - 1
             /\ L[l + 2][1 + at(l + 1)] =
                  IF at(l) % 2 = 0
                  THEN Pair(L[l + 1][1 + at(l)], L[l + 1][1 + Partner(at(l), Len(L[l + 1]))])
                  ELSE Pair(L[l + 1][1 + Partner(at(l), Len(L[l + 1]))], L[l + 1][1 + at(l)])
  <2>1. /\ l + 1 \in 1 .. k /\ l + 1 \in 1 .. k + 1 /\ l + 2 \in 1 .. k + 1
        /\ (l + 1) + 1 = l + 2
    BY <1>1
  <2>2. L[l + 2] = Reduce(L[l + 1]) /\ IsList(L[l + 1], Len(L[l + 1])) /\ Len(L[l + 1]) \in Nat
    BY <1>1, <2>1
  <2> DEFINE v == L[l + 1]
             c == Len(v)
  <2>3. Len(Reduce(v)) = (c + 1) \div 2
    BY <2>2, ReduceOf, LenOf
  <2>4. at(l) \in 0 .. c - 1 /\ at(l + 1) = at(l) \div 2
    BY <1>5, <1>6
  <2>5. /\ at(l) \div 2 \in 0 .. (c + 1) \div 2 - 1
        /\ Reduce(v)[1 + at(l) \div 2] =
             IF at(l) % 2 = 0 THEN Pair(v[1 + at(l)], v[1 + Partner(at(l), c)])
             ELSE Pair(v[1 + Partner(at(l), c)], v[1 + at(l)])
    <3> HIDE DEF v
    <3>1. IsList(v, c) /\ c \in Nat
      BY <2>2 DEF v
    <3> HIDE DEF c
    <3> QED BY <3>1, <2>4, ReducePair
  <2>6. L[l + 2] = Reduce(v)
    BY <2>2
  <2> QED BY <2>3, <2>4, <2>5, <2>6
<1>7. \A l \in 0 .. k : l \in T
  <2>1. 0 \in T
    BY <1>1, <1>4
  <2>2. ASSUME NEW l \in 0 .. k - 1, l \in T PROVE l + 1 \in T
    <3>1. (l + 1) + 1 = l + 2 /\ l + 1 \in 0 .. k
      BY <1>1
    <3> QED BY <3>1, <1>6, <2>2
  <2> HIDE DEF T
  <2> QED BY <2>1, <2>2, <1>1, InductionUpTo
<1>8. ASSUME NEW l \in 1 .. k
      PROVE  g[l] = IF at(l - 1) % 2 = 0 THEN Pair(g[l - 1], path[l])
                    ELSE Pair(path[l], g[l - 1])
  <2>1. l - 1 \in 0 .. k - 1 /\ l \in 0 .. k /\ l - 1 \in 0 .. k /\ (l - 1) + 1 = l /\ (l - 1) + 2 = l + 1
    BY <1>1
  <2>2. at(l - 1) \in 0 .. Len(L[l]) - 1
    BY <1>7, <2>1
  <2>3. L[l + 1][1 + at(l)] =
          IF at(l - 1) % 2 = 0
          THEN Pair(L[l][1 + at(l - 1)], L[l][1 + Partner(at(l - 1), Len(L[l]))])
          ELSE Pair(L[l][1 + Partner(at(l - 1), Len(L[l]))], L[l][1 + at(l - 1)])
    BY <1>6, <2>1, <2>2
  <2>4. path[l] = L[l][1 + Partner(at(l - 1), Len(L[l]))]
    BY <1>2
  <2>5. g[l] = L[l + 1][1 + at(l)] /\ g[l - 1] = L[l][1 + at(l - 1)]
    BY <2>1
  <2> HIDE DEF g
  <2> QED BY <2>3, <2>4, <2>5
<1>9. g[0] = leaves[i + 1] /\ DOMAIN g = 0 .. k
  BY <1>1, <1>4
<1>10. g[k] = MerkleRoot(L)
  <2>0. k \in T
    BY <1>7, <1>1
  <2>a. at(k) \in 0 .. Len(L[k + 1]) - 1
    BY <2>0
  <2>b. Len(L[k + 1]) = 1
    BY <1>1
  <2>1. at(k) = 0
    BY <2>a, <2>b
  <2>2. g[k] = L[k + 1][1 + at(k)]
    BY <1>1
  <2> QED BY <2>1, <2>2, <1>1 DEF MerkleRoot, Last
<1>11. g = [l \in 0 .. k |-> g[l]]
  OBVIOUS
<1> HIDE DEF g
<1>12. Climbs(g, leaves[i + 1], i, path)
  <2>1. g = [l \in 0 .. k |-> IF l = 0 THEN leaves[i + 1]
                              ELSE IF at(l - 1) % 2 = 0 THEN Pair(g[l - 1], path[l])
                              ELSE Pair(path[l], g[l - 1])]
    <3>1. ASSUME NEW l \in 0 .. k
          PROVE  g[l] = IF l = 0 THEN leaves[i + 1]
                        ELSE IF at(l - 1) % 2 = 0 THEN Pair(g[l - 1], path[l])
                        ELSE Pair(path[l], g[l - 1])
      <4>1. CASE l = 0
        BY <4>1, <1>9
      <4>2. CASE l # 0
        <5>1. l \in 1 .. k
          BY <4>2
        <5> QED BY <4>2, <5>1, <1>8
      <4> QED BY <4>1, <4>2
    <3> QED BY <3>1, <1>11
  <2> QED BY <2>1, <1>3 DEF Climbs, at
<1> QED BY <1>1, <1>3, <1>10, <1>12, Verified DEF path

LEMMA LeavesOf ==
  ASSUME NEW items, NEW n, IsList(items, n)
  PROVE  /\ IsList(Leaves(items), n) /\ Len(Leaves(items)) = n
         /\ \A i \in 1 .. n : Leaves(items)[i] = Leaf(items[i])
<1> DEFINE s == [i \in 1 .. n |-> Leaf(items[i])]
<1>1. DOMAIN items = 1 .. n
  BY LenOf
<1>2. IsList(s, n)
  BY DEF IsList
<1>3. Leaves(items) = Built(s)
  BY <1>1 DEF Leaves
<1>4. \A i \in 1 .. n : s[i] = Leaf(items[i])
  OBVIOUS
<1> HIDE DEF s
<1>5. Built(s) = s
  BY <1>2, BuiltOf
<1>6. Len(s) = n
  BY <1>2, LenOf
<1> QED BY <1>2, <1>3, <1>4, <1>5, <1>6

LEMMA PartnerIn ==
  ASSUME NEW c \in Nat, NEW a \in 0 .. c - 1
  PROVE  Partner(a, c) \in 0 .. c - 1
<1>1. a % 2 \in 0 .. 1 /\ a \in Nat
  OBVIOUS
<1>2. a % 2 # 0 => a - 1 \in 0 .. c - 1
  BY <1>1
<1> QED BY <1>1, <1>2 DEF Partner

(* What is above place i is on every level. *)
LEMMA AtLevel ==
  ASSUME NEW L, NEW leaves, Halving(L, leaves), NEW i \in 0 .. Len(leaves) - 1
  PROVE  \A l \in 1 .. Len(L) : i \div Pow2[l - 1] \in 0 .. Len(L[l]) - 1
<1> DEFINE k == Len(L)
           at(l) == i \div Pow2[l]
           T == {l \in 0 .. k - 1 : at(l) \in 0 .. Len(L[l + 1]) - 1}
<1>1. /\ k \in Nat /\ k >= 1 /\ L[1] = leaves
      /\ \A l \in 1 .. k : IsList(L[l], Len(L[l])) /\ Len(L[l]) \in Nat
      /\ \A l \in 1 .. k - 1 : L[l + 1] = Reduce(L[l])
  BY DEF Halving, IsList
<1>0. i \in Nat
  <2>1. 1 \in 1 .. k /\ Len(leaves) \in Nat
    BY <1>1
  <2> QED BY <2>1
<1>2. 0 \in T
  <2>1. at(0) = i
    BY <1>0, Pow2Type
  <2> QED BY <2>1, <1>1
<1>3. ASSUME NEW l \in 0 .. (k - 1) - 1, l \in T PROVE l + 1 \in T
  <2>1. /\ l \in Nat /\ l + 1 \in 0 .. k - 1 /\ l + 1 \in 1 .. k - 1 /\ l + 1 \in 1 .. k
        /\ (l + 1) + 1 = l + 2
    BY <1>1
  <2>2. Pow2[l] \in Nat \ {0} /\ Pow2[l + 1] = 2 * Pow2[l]
    BY <2>1, Pow2Type
  <2>3. Pow2[l] \in Nat \ {0} /\ Pow2[l + 1] = Pow2[l] * 2
    BY <2>2
  <2>4. (i \div Pow2[l]) \div 2 = i \div (Pow2[l] * 2)
    BY <1>0, <2>3, DivDiv
  <2>5. at(l) \div 2 = at(l + 1)
    BY <2>3, <2>4
  <2> DEFINE v == L[l + 1]
             c == Len(v)
  <2>6. IsList(v, c) /\ c \in Nat /\ L[(l + 1) + 1] = Reduce(v)
    BY <2>1, <1>1
  <2>7. at(l) \in 0 .. c - 1
    BY <1>3
  <2> HIDE DEF v, at
  <2>8. at(l) \div 2 \in 0 .. (c + 1) \div 2 - 1 /\ Len(Reduce(v)) = (c + 1) \div 2
    <3> HIDE DEF c
    <3> QED BY <2>6, <2>7, ReducePair, ReduceOf, LenOf
  <2> QED BY <2>1, <2>5, <2>6, <2>8
<1>4. \A l \in 0 .. k - 1 : l \in T
  <2>1. k - 1 \in Nat
    BY <1>1
  <2> HIDE DEF T
  <2> QED BY <2>1, <1>2, <1>3, InductionUpTo
<1>5. ASSUME NEW l \in 1 .. k PROVE at(l - 1) \in 0 .. Len(L[l]) - 1
  <2>1. l - 1 \in 0 .. k - 1 /\ (l - 1) + 1 = l
    BY <1>1
  <2> HIDE DEF at
  <2> QED BY <2>1, <1>4
<1> QED BY <1>5

(* A tree is determined by its leaves: the one on disk is the one in memory. *)
LEMMA TreeUnique ==
  ASSUME NEW A, NEW B, NEW leaves, IsTree(A, leaves), IsTree(B, leaves)
  PROVE  A = B
<1> DEFINE a == Len(A)
           b == Len(B)
<1>1. /\ a \in Nat /\ a >= 1 /\ A[1] = leaves /\ A = [l \in 1 .. a |-> A[l]]
      /\ \A l \in 1 .. a - 1 : Len(A[l]) > 1 /\ A[l + 1] = Reduce(A[l])
      /\ Len(A[a]) = 1
  BY DEF IsTree, Halving, IsList
<1>2. /\ b \in Nat /\ b >= 1 /\ B[1] = leaves /\ B = [l \in 1 .. b |-> B[l]]
      /\ \A l \in 1 .. b - 1 : Len(B[l]) > 1 /\ B[l + 1] = Reduce(B[l])
      /\ Len(B[b]) = 1
  BY DEF IsTree, Halving, IsList
<1> HIDE DEF a, b
<1> DEFINE T == {d \in 0 .. a - 1 : d + 1 <= b /\ A[d + 1] = B[d + 1]}
<1>3. 0 \in T
  BY <1>1, <1>2
<1>4. ASSUME NEW d \in 0 .. (a - 1) - 1, d \in T PROVE d + 1 \in T
  <2>1. d + 1 \in 1 .. a - 1 /\ d + 1 \in 0 .. a - 1 /\ d + 1 <= b /\ A[d + 1] = B[d + 1]
    BY <1>1, <1>4
  <2>2. Len(A[d + 1]) > 1 /\ A[(d + 1) + 1] = Reduce(A[d + 1])
    BY <2>1, <1>1
  <2>3. d + 1 # b
    <3> SUFFICES ASSUME d + 1 = b PROVE FALSE
      OBVIOUS
    <3>1. Len(B[b]) = Len(A[d + 1])
      BY <2>1
    <3>2. Len(B[b]) = 1
      BY <1>2
    <3>3. Len(A[d + 1]) > 1
      BY <2>2
    <3>4. 1 > 1
      BY <3>1, <3>2, <3>3
    <3> QED BY <3>4
  <2>4. d + 1 \in 1 .. b - 1
    BY <2>1, <2>3, <1>1, <1>2
  <2>5. B[(d + 1) + 1] = Reduce(B[d + 1])
    BY <2>4, <1>2
  <2> QED BY <2>1, <2>2, <2>4, <2>5, <1>2
<1>5. \A d \in 0 .. a - 1 : d \in T
  <2>1. a - 1 \in Nat
    BY <1>1
  <2> HIDE DEF T
  <2> QED BY <2>1, <1>3, <1>4, InductionUpTo
<1>6. ASSUME NEW l \in 1 .. a PROVE l <= b /\ A[l] = B[l]
  <2>1. l - 1 \in 0 .. a - 1 /\ (l - 1) + 1 = l
    BY <1>1
  <2> QED BY <2>1, <1>5
<1>7. a = b
  <2>1. a \in 1 .. a /\ a <= b
    BY <1>1, <1>6
  <2>2. ASSUME a < b PROVE FALSE
    <3>1. a \in 1 .. b - 1
      BY <2>1, <2>2, <1>1, <1>2
    <3>2. Len(B[a]) > 1 /\ A[a] = B[a]
      BY <2>1, <3>1, <1>2, <1>6
    <3>3. Len(A[a]) = Len(B[a])
      BY <3>2
    <3>4. Len(A[a]) = 1
      BY <1>1
    <3>5. 1 > 1
      BY <3>2, <3>3, <3>4
    <3> QED BY <3>5
  <2> QED BY <2>1, <2>2, <1>1, <1>2
<1> QED BY <1>1, <1>2, <1>6, <1>7

--------------------------------------------------------------------------------
(* Chunks in their canonical order, and the tables that find their tensor. *)

Tensor == [size : Nat, at : Nat]

LEMMA TensorsOf ==
  ASSUME NEW w \in Layouts
  PROVE  Len(w) \in Nat /\ \A t \in 1 .. Len(w) : w[t] \in Tensor
<1>1. w \in Seq(Tensor)
  BY PossessionAssumption DEF Tensor
<1> QED BY <1>1

LEMMA FullOf ==
  ASSUME NEW tensor \in Tensor
  PROVE  /\ Full(tensor) \in Nat /\ tensor.at \in Nat
         /\ \A c \in Nat : Place(tensor, c) \in Nat
<1>1. tensor.size \in Nat /\ tensor.at \in Nat /\ ChunkSize \in Nat \ {0}
  BY PossessionAssumption DEF Tensor
<1>2. tensor.size \div ChunkSize \in Nat
  BY <1>1, DivMod
<1>3. ASSUME NEW c \in Nat PROVE tensor.at + c * ChunkSize \in Nat
  BY <1>1
<1> QED BY <1>1, <1>2, <1>3 DEF Full, Place

ChunksIn(tensor) == [c \in 1 .. Full(tensor) |-> Place(tensor, c - 1)]

LEMMA ChunksInOf ==
  ASSUME NEW tensor \in Tensor
  PROVE  /\ ChunksIn(tensor) \in Seq(Nat) /\ Len(ChunksIn(tensor)) = Full(tensor)
         /\ IsList(ChunksIn(tensor), Full(tensor))
         /\ \A c \in 1 .. Full(tensor) : ChunksIn(tensor)[c] = Place(tensor, c - 1)
<1>1. Full(tensor) \in Nat /\ \A c \in 1 .. Full(tensor) : Place(tensor, c - 1) \in Nat
  BY FullOf
<1> DEFINE s == ChunksIn(tensor)
<1>2. s = [c \in 1 .. Full(tensor) |-> Place(tensor, c - 1)]
  BY DEF ChunksIn
<1> HIDE DEF s
<1>3. s \in [1 .. Full(tensor) -> Nat]
  BY <1>1, <1>2
<1>4. s \in Seq(Nat) /\ Len(s) = Full(tensor)
  BY <1>1, <1>3
<1>5. IsList(s, Full(tensor))
  BY <1>1, <1>2 DEF IsList
<1> QED BY <1>2, <1>4, <1>5 DEF s

ChunksUpTo(f, w) ==
  f = [t \in 0 .. Len(w) |->
         IF t = 0 THEN <<>>
         ELSE f[t - 1] \o [c \in 1 .. w[t].size \div ChunkSize |-> w[t].at + (c - 1) * ChunkSize]]

(* ChunksOf adds the chunks of one tensor at a time. *)
LEMMA ChunksOfDef ==
  ASSUME NEW w \in Layouts
  PROVE  /\ ChunksOf(w) \in [0 .. Len(w) -> Seq(Nat)]
         /\ ChunksOf(w)[0] = <<>>
         /\ \A t \in 1 .. Len(w) : ChunksOf(w)[t] = ChunksOf(w)[t - 1] \o ChunksIn(w[t])
<1> DEFINE N == Len(w)
           F == [t \in 1 .. N |-> [s \in Seq(Nat) |-> s \o ChunksIn(w[t])]]
<1>1. N \in Nat /\ \A t \in 1 .. N : w[t] \in Tensor
  BY TensorsOf
<1>2. \A t \in 1 .. N : ChunksIn(w[t]) \in Seq(Nat)
  BY <1>1, ChunksInOf
<1>3. F \in [1 .. N -> [Seq(Nat) -> Seq(Nat)]]
  BY <1>2
<1>4. /\ \A t \in 1 .. N : \A s \in Seq(Nat) : F[t][s] = s \o ChunksIn(w[t])
      /\ <<>> \in Seq(Nat)
  OBVIOUS
<1> HIDE DEF F, N
<1>5. PICK f : Solves(f, N, Seq(Nat), <<>>, F)
  BY <1>1, <1>3, <1>4, Recursion
<1>6. ASSUME NEW t \in 0 .. N
      PROVE  f[t] = IF t = 0 THEN <<>> ELSE f[t - 1] \o ChunksIn(w[t])
  <2>1. f[t] = IF t = 0 THEN <<>> ELSE F[t][f[t - 1]]
    BY <1>5 DEF Solves
  <2>2. CASE t = 0
    BY <2>1, <2>2
  <2>3. CASE t # 0
    <3>1. t \in 1 .. N /\ t - 1 \in 0 .. N
      BY <2>3, <1>1
    <3>2. f[t - 1] \in Seq(Nat)
      BY <3>1, <1>5 DEF Solves
    <3> QED BY <2>1, <2>3, <3>1, <3>2, <1>4
  <2> QED BY <2>2, <2>3
<1>7. f = [t \in 0 .. N |-> IF t = 0 THEN <<>> ELSE f[t - 1] \o ChunksIn(w[t])]
  <2>1. f = [t \in 0 .. N |-> f[t]]
    BY <1>5 DEF Solves
  <2> QED BY <1>6, <2>1
<1>8. ChunksUpTo(f, w)
  BY <1>7 DEF ChunksUpTo, ChunksIn, Full, Place, N
<1> DEFINE g == CHOOSE g : ChunksUpTo(g, w)
<1>9. ChunksUpTo(g, w)
  BY <1>8
<1>10. ChunksOf(w) = g
  BY DEF ChunksOf, ChunksUpTo
<1> HIDE DEF g
<1>11. g = [t \in 0 .. N |-> IF t = 0 THEN <<>> ELSE g[t - 1] \o ChunksIn(w[t])]
  BY <1>9 DEF ChunksUpTo, ChunksIn, Full, Place, N
<1>12. g[0] = <<>> /\ \A t \in 1 .. N : g[t] = g[t - 1] \o ChunksIn(w[t])
  <2>1. \A t \in 0 .. N : g[t] = IF t = 0 THEN <<>> ELSE g[t - 1] \o ChunksIn(w[t])
    BY <1>11, Zenon
  <2>2. 0 \in 0 .. N /\ \A t \in 1 .. N : t \in 0 .. N /\ t # 0
    BY <1>1
  <2> QED BY <2>1, <2>2, Zenon
<1> DEFINE T == {t \in 0 .. N : g[t] \in Seq(Nat)}
<1>13. \A t \in 0 .. N : t \in T
  <2>1. 0 \in T
    <3>1. 0 \in 0 .. N /\ g[0] \in Seq(Nat)
      BY <1>1, <1>4, <1>12
    <3> QED BY <3>1
  <2>2. ASSUME NEW t \in 0 .. N - 1, t \in T PROVE t + 1 \in T
    <3>1. t + 1 \in 1 .. N /\ (t + 1) - 1 = t /\ t + 1 \in 0 .. N
      BY <1>1
    <3>2. g[t + 1] = g[t] \o ChunksIn(w[t + 1])
      BY <3>1, <1>12
    <3>3. g[t] \in Seq(Nat) /\ ChunksIn(w[t + 1]) \in Seq(Nat)
      BY <2>2, <3>1, <1>2
    <3>4. g[t + 1] \in Seq(Nat)
      BY <3>2, <3>3
    <3> QED BY <3>1, <3>4
  <2> HIDE DEF T
  <2> QED BY <2>1, <2>2, <1>1, InductionUpTo
<1>14. g \in [0 .. N -> Seq(Nat)]
  <2>1. g = [t \in 0 .. N |-> g[t]]
    BY <1>11
  <2> QED BY <1>13, <2>1
<1> QED BY <1>10, <1>12, <1>14 DEF N

(* Tensor i of k, whose weights begin at at[i], has the chunks from        *)
(* first[i] up to the first of the next one.                               *)
Covers(first, at, k, chunkSeq) ==
  /\ k \in Nat /\ first \in [1 .. k + 1 -> Nat] /\ at \in [1 .. k -> Nat]
  /\ first[1] = 0 /\ first[k + 1] = Len(chunkSeq)
  /\ \A i \in 1 .. k : first[i] < first[i + 1]
  /\ \A i \in 1 .. k : \A off \in first[i] .. first[i + 1] - 1 :
       chunkSeq[off + 1] = at[i] + (off - first[i]) * ChunkSize

LEMMA CoversNone ==
  ASSUME NEW first, first = [i \in 1 .. 1 |-> 0], NEW at, at = <<>>
  PROVE  Covers(first, at, 0, <<>>)
<1>1. first \in [1 .. 0 + 1 -> Nat] /\ first[1] = 0
  OBVIOUS
<1>2. at \in [1 .. 0 -> Nat]
  OBVIOUS
<1> QED BY <1>1, <1>2 DEF Covers

(* One more tensor with chunks extends what is covered. *)
LEMMA CoversMore ==
  ASSUME NEW first, NEW at, NEW k, NEW seq, IsList(seq, Len(seq)),
         Covers(first, at, k, seq), NEW tensor \in Tensor, Full(tensor) > 0,
         NEW first2, NEW at2,
         first2 = [i \in 1 .. k + 2 |-> IF i <= k + 1 THEN first[i] ELSE Len(seq) + Full(tensor)],
         at2 = [i \in 1 .. k + 1 |-> IF i <= k THEN at[i] ELSE tensor.at]
  PROVE  Covers(first2, at2, k + 1, seq \o ChunksIn(tensor))
<1> DEFINE n == Len(seq)
           full == Full(tensor)
           new == seq \o ChunksIn(tensor)
<1>1. /\ k \in Nat /\ first \in [1 .. k + 1 -> Nat] /\ at \in [1 .. k -> Nat]
      /\ first[1] = 0 /\ first[k + 1] = n
      /\ \A i \in 1 .. k : first[i] < first[i + 1]
      /\ \A i \in 1 .. k : \A off \in first[i] .. first[i + 1] - 1 :
           seq[off + 1] = at[i] + (off - first[i]) * ChunkSize
  BY DEF Covers
<1>2. n \in Nat /\ IsList(seq, n)
  BY DEF IsList
<1>3. full \in Nat \ {0} /\ tensor.at \in Nat
  BY FullOf
<1>4. /\ IsList(ChunksIn(tensor), full)
      /\ \A c \in 1 .. full : ChunksIn(tensor)[c] = tensor.at + (c - 1) * ChunkSize
  BY ChunksInOf DEF Place
<1>5. /\ IsList(new, n + full) /\ Len(new) = n + full
      /\ \A i \in 1 .. n : new[i] = seq[i]
      /\ \A c \in 1 .. full : new[n + c] = tensor.at + (c - 1) * ChunkSize
  <2> HIDE DEF n, full
  <2>1. /\ IsList(new, n + full)
        /\ \A i \in 1 .. n : new[i] = seq[i]
        /\ \A i \in 1 .. full : new[n + i] = ChunksIn(tensor)[i]
    <3>1. IsList(seq, n) /\ IsList(ChunksIn(tensor), full)
      BY <1>2, <1>4
    <3>2. new = Cat(seq, ChunksIn(tensor))
      BY DEF Cat
    <3> HIDE DEF new
    <3>3. Joined(new, seq, n, ChunksIn(tensor), full)
      BY <3>1, <3>2, CatOf
    <3> QED BY <3>3 DEF Joined
  <2> HIDE DEF new
  <2>2. Len(new) = n + full
    BY <2>1, LenOf
  <2> QED BY <2>1, <2>2, <1>4
<1>6. /\ \A i \in 1 .. k + 1 : first2[i] = first[i]
      /\ first2[k + 2] = n + full
      /\ \A i \in 1 .. k : at2[i] = at[i]
      /\ at2[k + 1] = tensor.at
  BY <1>1
<1>7. first2 \in [1 .. (k + 1) + 1 -> Nat] /\ at2 \in [1 .. k + 1 -> Nat]
  BY <1>1, <1>2, <1>3
<1> HIDE DEF n, full, new
<1>8. first2[1] = 0 /\ first2[(k + 1) + 1] = Len(new)
  BY <1>1, <1>5, <1>6
<1>9. ASSUME NEW i \in 1 .. k + 1 PROVE first2[i] < first2[i + 1]
  <2>1. CASE i = k + 1
    BY <2>1, <1>1, <1>2, <1>3, <1>6
  <2>2. CASE i # k + 1
    BY <2>2, <1>1, <1>6
  <2> QED BY <2>1, <2>2
<1>10. \A i \in 1 .. k + 1 : first[i] <= n
  <2> DEFINE T == {d \in 0 .. k : first[k + 1 - d] <= n}
  <2>1. 0 \in T
    BY <1>1, <1>2
  <2>2. ASSUME NEW d \in 0 .. k - 1, d \in T PROVE d + 1 \in T
    <3>1. k + 1 - (d + 1) \in 1 .. k /\ (k + 1 - (d + 1)) + 1 = k + 1 - d /\ k + 1 - d \in 1 .. k + 1
      BY <1>1
    <3>2. first[k + 1 - (d + 1)] < first[k + 1 - d]
      BY <3>1, <1>1
    <3>3. first[k + 1 - (d + 1)] \in Nat /\ first[k + 1 - d] \in Nat
      BY <3>1, <1>1
    <3> QED BY <3>2, <3>3, <2>2, <1>1, <1>2
  <2>3. \A d \in 0 .. k : d \in T
    <3> HIDE DEF T
    <3> QED BY <2>1, <2>2, <1>1, InductionUpTo
  <2>4. ASSUME NEW i \in 1 .. k + 1 PROVE first[i] <= n
    <3>1. k + 1 - i \in 0 .. k /\ k + 1 - (k + 1 - i) = i
      BY <1>1
    <3> QED BY <3>1, <2>3
  <2> QED BY <2>4
<1>11. ASSUME NEW i \in 1 .. k + 1, NEW off \in first2[i] .. first2[i + 1] - 1
       PROVE  new[off + 1] = at2[i] + (off - first2[i]) * ChunkSize
  <2>1. CASE i = k + 1
    <3>1. first2[i] = n /\ first2[i + 1] = n + full /\ at2[i] = tensor.at
      BY <2>1, <1>1, <1>6
    <3>2. off - n + 1 \in 1 .. full /\ n + (off - n + 1) = off + 1 /\ (off - n + 1) - 1 = off - n
      BY <3>1, <1>2, <1>3
    <3>3. new[n + (off - n + 1)] = tensor.at + ((off - n + 1) - 1) * ChunkSize
      BY <3>2, <1>5
    <3> QED BY <3>1, <3>2, <3>3
  <2>2. CASE i # k + 1
    <3>1. i \in 1 .. k /\ i + 1 \in 1 .. k + 1 /\ i \in 1 .. k + 1
      BY <2>2, <1>1
    <3>2. first2[i] = first[i] /\ first2[i + 1] = first[i + 1] /\ at2[i] = at[i]
      BY <3>1, <1>6
    <3>3. seq[off + 1] = at[i] + (off - first[i]) * ChunkSize
      BY <3>1, <3>2, <1>1
    <3>4. off + 1 \in 1 .. n
      <4>1. first[i] \in Nat /\ first[i + 1] \in Nat /\ first[i + 1] <= n
        BY <3>1, <1>1, <1>10
      <4> QED BY <4>1, <3>2, <1>2
    <3> QED BY <3>2, <3>3, <3>4, <1>5
  <2> QED BY <2>1, <2>2
<1> QED
  <2>1. k + 1 \in Nat
    BY <1>1
  <2> QED BY <2>1, <1>7, <1>8, <1>9, <1>11 DEF Covers, new

LEMMA CoversSame ==
  ASSUME NEW seq \in Seq(Nat), NEW tensor \in Tensor, Full(tensor) = 0
  PROVE  seq \o ChunksIn(tensor) = seq
<1>1. ChunksIn(tensor) \in Seq(Nat) /\ Len(ChunksIn(tensor)) = 0
  BY ChunksInOf
<1>2. ChunksIn(tensor) = <<>>
  BY <1>1
<1> QED BY <1>2

LEMMA Ascends ==
  ASSUME NEW first, NEW at, NEW k, NEW seq, Covers(first, at, k, seq),
         NEW i \in 1 .. k + 1, NEW j \in 1 .. k + 1, i <= j
  PROVE  first[i] <= first[j]
<1>1. /\ k \in Nat /\ first \in [1 .. k + 1 -> Nat]
      /\ \A m \in 1 .. k : first[m] < first[m + 1]
  BY DEF Covers
<1> DEFINE T == {d \in 0 .. k + 1 - i : first[i] <= first[i + d]}
<1>2. 0 \in T
  BY <1>1
<1>3. ASSUME NEW d \in 0 .. (k + 1 - i) - 1, d \in T PROVE d + 1 \in T
  <2>1. i + d \in 1 .. k /\ (i + d) + 1 = i + (d + 1) /\ i + d \in 1 .. k + 1 /\ i + (d + 1) \in 1 .. k + 1
    BY <1>1
  <2>2. first[i + d] < first[i + (d + 1)]
    BY <2>1, <1>1
  <2>3. first[i] \in Nat /\ first[i + d] \in Nat /\ first[i + (d + 1)] \in Nat
    BY <2>1, <1>1
  <2> QED BY <2>2, <2>3, <1>3, <1>1
<1>4. \A d \in 0 .. k + 1 - i : d \in T
  <2>1. k + 1 - i \in Nat
    BY <1>1
  <2> HIDE DEF T
  <2> QED BY <2>1, <1>2, <1>3, InductionUpTo
<1>5. j - i \in 0 .. k + 1 - i /\ i + (j - i) = j
  BY <1>1
<1> QED BY <1>4, <1>5

Before(first, k, off) == {i \in 1 .. k : first[i] <= off}

(* Where the ranges of the tensors cover all chunks, the chunk at off is found
   in the only range that has off. *)
LEMMA Found ==
  ASSUME NEW first, NEW at, NEW k, NEW seq, Covers(first, at, k, seq), Len(seq) \in Nat,
         NEW off \in 0 .. Len(seq) - 1
  PROVE  LET j == Cardinality(Before(first, k, off))
         IN j \in 1 .. k /\ off \in first[j] .. first[j + 1] - 1
<1>1. /\ k \in Nat /\ first \in [1 .. k + 1 -> Nat]
      /\ first[1] = 0 /\ first[k + 1] = Len(seq)
      /\ \A m \in 1 .. k : first[m] < first[m + 1]
  BY DEF Covers
<1> DEFINE above == {m \in 1 .. k + 1 : off < first[m]}
<1>2. k + 1 \in above /\ above \in SUBSET Nat
  BY <1>1
<1>3. PICK m \in above : \A l \in above : m <= l
  <2> HIDE DEF above
  <2> QED BY <1>2, Least
<1>4. m \in 1 .. k + 1 /\ off < first[m] /\ m # 1
  BY <1>1, <1>3
<1> DEFINE j == m - 1
<1>5. j \in 1 .. k /\ j + 1 = m /\ j \in 1 .. k + 1
  BY <1>1, <1>4
<1>6. first[j] <= off
  <2>1. j \notin above
    BY <1>3, <1>5, <1>4
  <2> QED BY <2>1, <1>1, <1>5
<1> HIDE DEF j
<1>7. {i \in 1 .. k : first[i] <= off} = 1 .. j
  <2>1. ASSUME NEW i \in 1 .. k PROVE first[i] <= off <=> i <= j
    <3>1. i \in 1 .. k + 1 /\ first[i] \in Nat /\ first[j] \in Nat /\ first[m] \in Nat
      BY <1>1, <1>5, <1>4
    <3>2. CASE i <= j
      <4>1. first[i] <= first[j]
        BY <3>1, <3>2, <1>5, Ascends
      <4> QED BY <4>1, <3>1, <3>2, <1>6
    <3>3. CASE ~ (i <= j)
      <4>1. m <= i
        BY <3>3, <1>5, <1>4
      <4>2. first[m] <= first[i]
        BY <3>1, <4>1, <1>4, Ascends
      <4> QED BY <4>2, <3>1, <3>3, <1>4
    <3> QED BY <3>2, <3>3
  <2> QED BY <2>1, <1>5, <1>1
<1>8. Cardinality(1 .. j) = j
  BY <1>5, FS_Interval
<1>9. off \in first[j] .. first[j + 1] - 1
  BY <1>1, <1>4, <1>5, <1>6
<1> QED BY <1>5, <1>7, <1>8, <1>9 DEF Before

(* The layout on the GPU. *)
IsLayout(r, seq) ==
  /\ r.bases \in Seq(Nat) /\ r.prefix \in Seq(Nat) /\ Len(r.prefix) = Len(r.bases) + 1
  /\ Covers(r.prefix, r.bases, Len(r.bases), seq)

More(before, tensor) ==
  IF Full(tensor) = 0 THEN before
  ELSE [bases |-> Append(before.bases, tensor.at),
        prefix |-> Append(before.prefix, Last(before.prefix) + Full(tensor))]

(* One more tensor extends the GPU's layout. *)
LEMMA MoreLayout ==
  ASSUME NEW r, NEW seq \in Seq(Nat), IsLayout(r, seq), NEW tensor \in Tensor
  PROVE  IsLayout(More(r, tensor), seq \o ChunksIn(tensor))
<1> DEFINE bases == r.bases
           prefix == r.prefix
           k == Len(bases)
           full == Full(tensor)
           bases2 == Append(bases, tensor.at)
           prefix2 == Append(prefix, Last(prefix) + full)
<1>1. /\ bases \in Seq(Nat) /\ prefix \in Seq(Nat) /\ Len(prefix) = k + 1
      /\ Covers(prefix, bases, k, seq)
  BY DEF IsLayout
<1>2. full \in Nat /\ tensor.at \in Nat
  BY FullOf
<1>3. CASE full = 0
  <2>1. More(r, tensor) = r /\ seq \o ChunksIn(tensor) = seq
    BY <1>3, CoversSame DEF More
  <2> QED BY <2>1
<1>4. CASE full # 0
  <2>1. More(r, tensor) = [bases |-> bases2, prefix |-> prefix2]
    BY <1>4 DEF More
  <2> HIDE DEF bases, prefix, full
  <2>2. Last(prefix) = Len(seq) /\ Last(prefix) \in Nat
    <3>1. k \in Nat /\ prefix[k + 1] = Len(seq) /\ prefix[k + 1] \in Nat
      BY <1>1 DEF Covers
    <3> QED BY <3>1, <1>1 DEF Last
  <2>3. /\ bases2 \in Seq(Nat) /\ prefix2 \in Seq(Nat)
        /\ Len(bases2) = k + 1 /\ Len(prefix2) = k + 2
    BY <1>1, <1>2, <2>2
  <2>4. bases2 = [i \in 1 .. k + 1 |-> IF i <= k THEN bases[i] ELSE tensor.at]
    <3>1. \A i \in 1 .. k + 1 : bases2[i] = IF i <= k THEN bases[i] ELSE tensor.at
      BY <1>1, <1>2
    <3>2. bases2 = [i \in 1 .. k + 1 |-> bases2[i]]
      BY <2>3
    <3> QED BY <3>1, <3>2
  <2>5. prefix2 = [i \in 1 .. k + 2 |-> IF i <= k + 1 THEN prefix[i] ELSE Len(seq) + full]
    <3>1. \A i \in 1 .. k + 2 : prefix2[i] = IF i <= k + 1 THEN prefix[i] ELSE Len(seq) + full
      <4> HIDE DEF k
      <4>1. k \in Nat
        BY <1>1 DEF k
      <4> QED BY <4>1, <1>1, <1>2, <2>2
    <3>2. prefix2 = [i \in 1 .. k + 2 |-> prefix2[i]]
      BY <2>3
    <3> QED BY <3>1, <3>2
  <2> HIDE DEF bases2, prefix2, k
  <2>6. IsList(seq, Len(seq)) /\ Full(tensor) > 0
    BY <1>2, <1>4 DEF IsList, full
  <2>7. Covers(prefix2, bases2, k + 1, seq \o ChunksIn(tensor))
    BY <1>1, <2>4, <2>5, <2>6, CoversMore DEF full
  <2>8. k \in Nat
    BY <1>1 DEF k
  <2> QED BY <2>1, <2>3, <2>7, <2>8 DEF IsLayout
<1> QED BY <1>3, <1>4

LayoutUpTo(f, w) ==
  f = [t \in 0 .. Len(w) |-> IF t = 0 THEN [bases |-> <<>>, prefix |-> <<0>>]
                             ELSE More(f[t - 1], w[t])]

(* Of every file the layout finds the tensors of the canonical chunks. *)
LEMMA LayoutCovers ==
  ASSUME NEW w \in Layouts
  PROVE  IsLayout(LayoutOf(w), ChunksOf(w)[Len(w)])
<1> DEFINE N == Len(w)
           S == {r \in [bases : Seq(Nat), prefix : Seq(Nat)] : Len(r.prefix) > 0}
           base == [bases |-> <<>>, prefix |-> <<0>>]
           F == [t \in 1 .. N |-> [r \in S |-> More(r, w[t])]]
<1>1. N \in Nat /\ \A t \in 1 .. N : w[t] \in Tensor
  BY TensorsOf
<1>2. base \in S
  BY Len(<<0>>) = 1
<1>3. ASSUME NEW t \in 1 .. N, NEW r \in S PROVE More(r, w[t]) \in S
  <2>1. Full(w[t]) \in Nat /\ w[t].at \in Nat
    BY <1>1, FullOf
  <2>2. r.bases \in Seq(Nat) /\ r.prefix \in Seq(Nat) /\ Len(r.prefix) > 0
    OBVIOUS
  <2>3. Last(r.prefix) \in Nat
    BY <2>2 DEF Last
  <2> DEFINE b == Append(r.bases, w[t].at)
             p == Append(r.prefix, Last(r.prefix) + Full(w[t]))
  <2>4. b \in Seq(Nat) /\ p \in Seq(Nat) /\ Len(p) > 0
    BY <2>1, <2>2, <2>3
  <2>5. More(r, w[t]) = IF Full(w[t]) = 0 THEN r ELSE [bases |-> b, prefix |-> p]
    BY DEF More
  <2> HIDE DEF b, p
  <2> QED BY <2>4, <2>5
<1>4. F \in [1 .. N -> [S -> S]]
  BY <1>3
<1>5. \A t \in 1 .. N : \A r \in S : F[t][r] = More(r, w[t])
  OBVIOUS
<1> HIDE DEF F, N, S
<1>6. PICK f : Solves(f, N, S, base, F)
  <2> HIDE DEF base
  <2> QED BY <1>1, <1>2, <1>4, Recursion
<1>7. ASSUME NEW t \in 0 .. N
      PROVE  f[t] = IF t = 0 THEN base ELSE More(f[t - 1], w[t])
  <2>1. f[t] = IF t = 0 THEN base ELSE F[t][f[t - 1]]
    BY <1>6 DEF Solves
  <2>2. CASE t = 0
    BY <2>1, <2>2
  <2>3. CASE t # 0
    <3>1. t \in 1 .. N /\ t - 1 \in 0 .. N
      BY <2>3, <1>1
    <3>2. f[t - 1] \in S
      BY <3>1, <1>6 DEF Solves
    <3> QED BY <2>1, <2>3, <3>1, <3>2, <1>5
  <2> QED BY <2>2, <2>3
<1>8. f = [t \in 0 .. N |-> IF t = 0 THEN base ELSE More(f[t - 1], w[t])]
  <2>1. f = [t \in 0 .. N |-> f[t]]
    BY <1>6 DEF Solves
  <2> QED BY <1>7, <2>1
<1>9. LayoutUpTo(f, w)
  BY <1>8 DEF LayoutUpTo, N
<1> DEFINE g == CHOOSE g : LayoutUpTo(g, w)
<1>10. LayoutUpTo(g, w)
  BY <1>9
<1>11. LayoutOf(w) = g[N]
  BY DEF LayoutOf, LayoutUpTo, More, N
<1> HIDE DEF g
<1>12. \A t \in 0 .. N : g[t] = IF t = 0 THEN base ELSE More(g[t - 1], w[t])
  <2>1. g = [t \in 0 .. N |-> IF t = 0 THEN base ELSE More(g[t - 1], w[t])]
    BY <1>10 DEF LayoutUpTo, N
  <2> HIDE DEF base
  <2> QED BY <2>1, Zenon
<1> DEFINE T == {t \in 0 .. N : IsLayout(g[t], ChunksOf(w)[t])}
<1>13. /\ ChunksOf(w)[0] = <<>>
       /\ \A t \in 0 .. N : ChunksOf(w)[t] \in Seq(Nat)
       /\ \A t \in 1 .. N : ChunksOf(w)[t] = ChunksOf(w)[t - 1] \o ChunksIn(w[t])
  BY ChunksOfDef DEF N
<1>14. 0 \in T
  <2>1. g[0] = base
    BY <1>1, <1>12
  <2>2. base.bases = <<>> /\ base.prefix = <<0>>
    OBVIOUS
  <2>3. /\ <<>> \in Seq(Nat) /\ <<0>> \in Seq(Nat) /\ Len(<<>>) = 0 /\ Len(<<0>>) = 0 + 1
        /\ <<0>> = [i \in 1 .. 1 |-> 0]
    OBVIOUS
  <2> HIDE DEF base
  <2>4. Covers(<<0>>, <<>>, 0, <<>>)
    BY <2>3, CoversNone
  <2>5. IsLayout(base, <<>>)
    BY <2>2, <2>3, <2>4 DEF IsLayout
  <2> QED BY <2>1, <2>5, <1>1, <1>13
<1>15. ASSUME NEW t \in 0 .. N - 1, t \in T PROVE t + 1 \in T
  <2>1. t + 1 \in 1 .. N /\ (t + 1) - 1 = t /\ t + 1 \in 0 .. N /\ t \in 0 .. N
    BY <1>1
  <2>2. g[t + 1] = More(g[t], w[t + 1])
    BY <2>1, <1>12
  <2>3. ChunksOf(w)[t + 1] = ChunksOf(w)[t] \o ChunksIn(w[t + 1])
    BY <2>1, <1>13
  <2>4. IsLayout(g[t], ChunksOf(w)[t]) /\ ChunksOf(w)[t] \in Seq(Nat) /\ w[t + 1] \in Tensor
    BY <1>15, <2>1, <1>1, <1>13
  <2>5. IsLayout(g[t + 1], ChunksOf(w)[t + 1])
    BY <2>2, <2>3, <2>4, MoreLayout
  <2> QED BY <2>1, <2>5
<1>16. \A t \in 0 .. N : t \in T
  <2> HIDE DEF T
  <2> QED BY <1>1, <1>14, <1>15, InductionUpTo
<1>17. N \in T
  <2> HIDE DEF T
  <2> QED BY <1>16, <1>1
<1> QED BY <1>11, <1>17 DEF N

(* The kernel's search ends at the tensor whose chunks are around off. *)
LEMMA SearchFinds ==
  ASSUME NEW seq \in Seq(Nat), IsLayout(gather, seq), NEW off \in 0 .. Len(seq) - 1
  PROVE  GatheredChunk(off) = seq[off + 1]
<1> DEFINE k == Len(gather.bases)
           first == gather.prefix
           at == gather.bases
           S == [lo : Int, hi : Int]
           base == [lo |-> 0, hi |-> k]
           F == [n \in 1 .. k |-> [r \in S |-> Narrow(r, off)]]
<1>1. /\ k \in Nat /\ Covers(first, at, k, seq)
      /\ first \in [1 .. k + 1 -> Nat] /\ at \in [1 .. k -> Nat]
      /\ first[1] = 0 /\ first[k + 1] = Len(seq)
      /\ \A i \in 1 .. k : \A o \in first[i] .. first[i + 1] - 1 :
           seq[o + 1] = at[i] + (o - first[i]) * ChunkSize
  BY DEF IsLayout, Covers
<1>0. Len(seq) \in Nat /\ off \in Nat /\ off < Len(seq)
  OBVIOUS
<1> HIDE DEF k, first, at
<1>2. base \in S
  BY <1>1
<1>3. ASSUME NEW r \in S
      PROVE  /\ Narrow(r, off) \in S
             /\ LET mid == (r.lo + r.hi) \div 2
                IN Narrow(r, off) =
                     IF r.lo + 1 >= r.hi THEN r
                     ELSE IF first[mid + 1] <= off THEN [lo |-> mid, hi |-> r.hi]
                     ELSE [lo |-> r.lo, hi |-> mid]
  <2> DEFINE mid == (r.lo + r.hi) \div 2
  <2>1. r.lo \in Int /\ r.hi \in Int /\ r = [lo |-> r.lo, hi |-> r.hi]
    OBVIOUS
  <2>2. mid \in Int
    BY <2>1
  <2>3. Narrow(r, off) = IF r.lo + 1 >= r.hi THEN r
                         ELSE IF first[mid + 1] <= off THEN [r EXCEPT !.lo = mid]
                         ELSE [r EXCEPT !.hi = mid]
    BY DEF Narrow, first
  <2> HIDE DEF mid
  <2>4. [r EXCEPT !.lo = mid] = [lo |-> mid, hi |-> r.hi] /\ [r EXCEPT !.hi = mid] = [lo |-> r.lo, hi |-> mid]
    BY <2>1
  <2>5. [lo |-> mid, hi |-> r.hi] \in S /\ [lo |-> r.lo, hi |-> mid] \in S
    BY <2>1, <2>2
  <2>6. Narrow(r, off) = IF r.lo + 1 >= r.hi THEN r
                         ELSE IF first[mid + 1] <= off THEN [lo |-> mid, hi |-> r.hi]
                         ELSE [lo |-> r.lo, hi |-> mid]
    BY <2>3, <2>4
  <2>7. Narrow(r, off) \in S
    <3> HIDE DEF S
    <3> QED BY <2>5, <2>6
  <2> QED BY <2>6, <2>7 DEF mid
<1>4. F \in [1 .. k -> [S -> S]]
  <2> HIDE DEF S
  <2> QED BY <1>3
<1>5. \A n \in 1 .. k : \A r \in S : F[n][r] = Narrow(r, off)
  <2> HIDE DEF S
  <2> QED OBVIOUS
<1> HIDE DEF F, S
<1>6. PICK f : Solves(f, k, S, base, F)
  <2> HIDE DEF base
  <2> QED BY <1>1, <1>2, <1>4, Recursion
<1>7. f \in [0 .. k -> S]
  BY <1>6 DEF Solves
<1>8. ASSUME NEW n \in 0 .. k PROVE f[n] = IF n = 0 THEN base ELSE Narrow(f[n - 1], off)
  <2>1. f[n] = IF n = 0 THEN base ELSE F[n][f[n - 1]]
    BY <1>6 DEF Solves
  <2>2. CASE n = 0
    BY <2>1, <2>2
  <2>3. CASE n # 0
    <3>1. n \in 1 .. k /\ n - 1 \in 0 .. k
      BY <2>3, <1>1
    <3> QED BY <2>1, <2>3, <3>1, <1>5, <1>7
  <2> QED BY <2>2, <2>3
<1> DEFINE P(g) == g = [n \in 0 .. k |-> IF n = 0 THEN base ELSE Narrow(g[n - 1], off)]
<1>9. P(f)
  <2>1. f = [n \in 0 .. k |-> f[n]]
    BY <1>7
  <2> HIDE DEF base
  <2> QED BY <1>8, <2>1
<1> DEFINE g == CHOOSE g : P(g)
<1>10. P(g)
  <2> HIDE DEF P
  <2> QED BY <1>9
<1>11. Search(off) = g[k].lo
  BY DEF Search, k
<1> HIDE DEF g
<1>12. \A n \in 0 .. k : g[n] = IF n = 0 THEN base ELSE Narrow(g[n - 1], off)
  <2> HIDE DEF base
  <2> QED BY <1>10, Zenon
<1> HIDE DEF P
<1> DEFINE Around(r) == /\ r \in S /\ r.lo \in 0 .. k - 1 /\ r.hi \in 1 .. k /\ r.lo < r.hi
                        /\ first[r.lo + 1] <= off /\ off < first[r.hi + 1]
           T == {n \in 0 .. k : Around(g[n]) /\ (g[n].hi - g[n].lo <= 1 \/ g[n].hi - g[n].lo <= k - n)}
<1>13. 0 \in T
  <2>1. g[0] = base /\ base.lo = 0 /\ base.hi = k
    BY <1>1, <1>12
  <2>2. k # 0
    BY <1>1, <1>0
  <2> HIDE DEF base
  <2>3. /\ g[0] \in S /\ g[0].lo \in 0 .. k - 1 /\ g[0].hi \in 1 .. k
        /\ g[0].lo < g[0].hi /\ g[0].lo + 1 = 1 /\ g[0].hi + 1 = k + 1
        /\ g[0].hi - g[0].lo <= k - 0
    BY <2>1, <2>2, <1>1, <1>2
  <2>4. first[1] <= off /\ off < first[k + 1]
    BY <1>0, <1>1
  <2>5. Around(g[0])
    BY <2>3, <2>4
  <2> HIDE DEF Around
  <2> QED BY <2>3, <2>5, <1>1
<1>14. ASSUME NEW n \in 0 .. k - 1, n \in T PROVE n + 1 \in T
  <2>1. n + 1 \in 0 .. k /\ n + 1 # 0 /\ (n + 1) - 1 = n
    BY <1>1
  <2> DEFINE r == g[n]
             mid == (r.lo + r.hi) \div 2
             next == Narrow(r, off)
  <2>2. g[n + 1] = next
    BY <2>1, <1>12
  <2>3. Around(r) /\ (r.hi - r.lo <= 1 \/ r.hi - r.lo <= k - n)
    BY <1>14
  <2>4. /\ next \in S
        /\ next = IF r.lo + 1 >= r.hi THEN r
                  ELSE IF first[mid + 1] <= off THEN [lo |-> mid, hi |-> r.hi]
                  ELSE [lo |-> r.lo, hi |-> mid]
    BY <2>3, <1>3
  <2> DEFINE lo == r.lo
             hi == r.hi
  <2>5. /\ lo \in 0 .. k - 1 /\ hi \in 1 .. k /\ lo < hi /\ r \in S
        /\ first[lo + 1] <= off /\ off < first[hi + 1]
        /\ hi - lo <= 1 \/ hi - lo <= k - n
    BY <2>3
  <2> HIDE DEF next, r, Around
  <2>6. /\ next \in S
        /\ next = IF lo + 1 >= hi THEN r
                  ELSE IF first[mid + 1] <= off THEN [lo |-> mid, hi |-> hi]
                  ELSE [lo |-> lo, hi |-> mid]
        /\ mid = (lo + hi) \div 2
    BY <2>4
  <2>7. lo = r.lo /\ hi = r.hi
    OBVIOUS
  <2> HIDE DEF mid, lo, hi
  <2>8. CASE lo + 1 >= hi
    <3>1. next = r
      BY <2>6, <2>8
    <3>2. hi - lo <= 1
      BY <2>5, <2>8, <1>1
    <3> QED BY <2>1, <2>2, <2>3, <2>7, <3>1, <3>2
  <2>9. CASE lo + 1 < hi
    <3>1. mid \in 0 .. k - 1 /\ mid \in 1 .. k /\ lo < mid /\ mid < hi
      BY <2>5, <2>6, <2>9, <1>1
    <3>2. mid + 1 \in 1 .. k + 1 /\ first[mid + 1] \in Nat
      BY <3>1, <1>1
    <3>3. CASE first[mid + 1] <= off
      <4>1. next = [lo |-> mid, hi |-> hi]
        BY <2>5, <2>6, <2>9, <3>3, <1>1
      <4>2. next.lo = mid /\ next.hi = hi
        BY <4>1
      <4>3. Around(next)
        BY <2>5, <2>6, <3>1, <3>3, <4>2 DEF Around
      <4>4. next.hi - next.lo <= 1 \/ next.hi - next.lo <= k - (n + 1)
        <5>1. hi - mid <= 1 \/ hi - mid <= k - (n + 1)
          BY <2>5, <3>1, <1>1
        <5> QED BY <5>1, <4>2
      <4> QED BY <2>1, <2>2, <4>3, <4>4
    <3>4. CASE ~ (first[mid + 1] <= off)
      <4>1. next = [lo |-> lo, hi |-> mid]
        BY <2>5, <2>6, <2>9, <3>4, <1>1
      <4>2. next.lo = lo /\ next.hi = mid
        BY <4>1
      <4>5. off < first[mid + 1]
        BY <3>2, <3>4, <1>0
      <4>3. Around(next)
        BY <2>5, <2>6, <3>1, <4>5, <4>2 DEF Around
      <4>4. next.hi - next.lo <= 1 \/ next.hi - next.lo <= k - (n + 1)
        <5>1. mid - lo <= 1 \/ mid - lo <= k - (n + 1)
          BY <2>5, <3>1, <1>1
        <5> QED BY <5>1, <4>2
      <4> QED BY <2>1, <2>2, <4>3, <4>4
    <3> QED BY <3>3, <3>4
  <2> QED BY <2>5, <2>8, <2>9, <1>1
<1>15. \A n \in 0 .. k : n \in T
  <2> HIDE DEF T
  <2> QED BY <1>1, <1>13, <1>14, InductionUpTo
<1> DEFINE t == Search(off)
<1>16. t \in 0 .. k - 1 /\ first[t + 1] <= off /\ off < first[t + 2]
  <2>1. k \in T
    <3> HIDE DEF T
    <3> QED BY <1>1, <1>15
  <2> DEFINE lo == g[k].lo
             hi == g[k].hi
  <2>2. /\ lo \in 0 .. k - 1 /\ hi \in 1 .. k /\ lo < hi
        /\ first[lo + 1] <= off /\ off < first[hi + 1]
        /\ hi - lo <= 1 \/ hi - lo <= k - k
    BY <2>1
  <2> HIDE DEF lo, hi
  <2>3. hi = lo + 1 /\ hi + 1 = lo + 2
    BY <2>2, <1>1
  <2>4. t = lo
    BY <1>11 DEF lo
  <2> HIDE DEF t
  <2> QED BY <2>2, <2>3, <2>4
<1> HIDE DEF t
<1>17. seq[off + 1] = at[t + 1] + (off - first[t + 1]) * ChunkSize
  <2>1. t + 1 \in 1 .. k /\ (t + 1) + 1 = t + 2 /\ t + 1 \in 1 .. k + 1 /\ t + 2 \in 1 .. k + 1
    BY <1>16, <1>1
  <2>2. off \in first[t + 1] .. first[(t + 1) + 1] - 1
    <3>1. first[t + 1] \in Nat /\ first[t + 2] \in Nat
      BY <2>1, <1>1
    <3> QED BY <3>1, <2>1, <1>16, <1>0
  <2> QED BY <2>1, <2>2, <1>1
<1> QED BY <1>17 DEF GatheredChunk, t, first, at

(* The table on the host. *)
Entry == [start : Nat, at : Nat]

FirstOf(tab, end) ==
  [i \in 1 .. Len(tab) + 1 |-> IF i <= Len(tab) THEN tab[i].start ELSE end]

PlacesOf(tab) == [i \in 1 .. Len(tab) |-> tab[i].at]

IsTable(tab, seq) ==
  tab \in Seq(Entry) /\ Covers(FirstOf(tab, Len(seq)), PlacesOf(tab), Len(tab), seq)

LEMMA EmptyTable ==
  IsTable(<<>>, <<>>)
<1>1. Len(<<>>) = 0 /\ <<>> \in Seq(Entry)
  OBVIOUS
<1>2. FirstOf(<<>>, 0) = [i \in 1 .. 1 |-> 0] /\ PlacesOf(<<>>) = <<>>
  BY <1>1 DEF FirstOf, PlacesOf
<1>3. Covers(FirstOf(<<>>, 0), PlacesOf(<<>>), 0, <<>>)
  BY <1>2, CoversNone
<1> QED BY <1>1, <1>3 DEF IsTable

(* One more tensor extends the host's table. *)
LEMMA MoreTable ==
  ASSUME NEW tab, NEW seq \in Seq(Nat), IsTable(tab, seq), NEW tensor \in Tensor,
         NEW tab2, tab2 = IF Full(tensor) > 0
                          THEN Append(tab, [start |-> Len(seq), at |-> tensor.at]) ELSE tab
  PROVE  IsTable(tab2, seq \o ChunksIn(tensor))
<1> DEFINE k == Len(tab)
           n == Len(seq)
           full == Full(tensor)
           entry == [start |-> n, at |-> tensor.at]
           new == seq \o ChunksIn(tensor)
<1>1. /\ tab \in Seq(Entry) /\ k \in Nat /\ n \in Nat
      /\ Covers(FirstOf(tab, n), PlacesOf(tab), k, seq)
  BY DEF IsTable
<1>2. full \in Nat /\ tensor.at \in Nat
  BY FullOf
<1>3. CASE full = 0
  <2>1. tab2 = tab /\ new = seq
    BY <1>3, CoversSame
  <2> QED BY <2>1
<1>4. CASE full > 0
  <2>1. tab2 = Append(tab, entry) /\ entry \in Entry
    BY <1>1, <1>2, <1>4 DEF Entry
  <2>2. entry.start = n /\ entry.at = tensor.at
    OBVIOUS
  <2> HIDE DEF entry, k, n, full
  <2>3. /\ tab2 \in Seq(Entry) /\ Len(tab2) = k + 1 /\ tab2[k + 1] = entry
        /\ \A i \in 1 .. k : tab2[i] = tab[i]
    BY <1>1, <2>1 DEF k
  <2>4. Len(new) = n + full
    <3>1. ChunksIn(tensor) \in Seq(Nat) /\ Len(ChunksIn(tensor)) = full
      BY ChunksInOf DEF full
    <3> QED BY <3>1 DEF n
  <2>5. FirstOf(tab2, Len(new)) =
          [i \in 1 .. k + 2 |-> IF i <= k + 1 THEN FirstOf(tab, n)[i] ELSE n + full]
    <3>1. FirstOf(tab2, Len(new)) =
            [i \in 1 .. k + 2 |-> IF i <= k + 1 THEN tab2[i].start ELSE n + full]
      <4>1. Len(tab2) + 1 = k + 2
        BY <1>1, <2>3
      <4> QED BY <2>3, <2>4, <4>1 DEF FirstOf
    <3>2. \A i \in 1 .. k + 1 : FirstOf(tab, n)[i] = IF i <= k THEN tab[i].start ELSE n
      BY DEF FirstOf, k
    <3>3. ASSUME NEW i \in 1 .. k + 2, i <= k + 1
          PROVE  tab2[i].start = FirstOf(tab, n)[i]
      <4>1. CASE i <= k
        BY <4>1, <1>1, <2>3, <3>2
      <4>2. CASE i = k + 1
        BY <4>2, <1>1, <2>2, <2>3, <3>2
      <4>3. i <= k \/ i = k + 1
        BY <1>1, <3>3
      <4> QED BY <4>1, <4>2, <4>3
    <3> QED BY <3>1, <3>3
  <2>6. PlacesOf(tab2) = [i \in 1 .. k + 1 |-> IF i <= k THEN PlacesOf(tab)[i] ELSE tensor.at]
    <3>1. PlacesOf(tab2) = [i \in 1 .. k + 1 |-> tab2[i].at]
      BY <2>3 DEF PlacesOf
    <3>2. \A i \in 1 .. k : PlacesOf(tab)[i] = tab[i].at
      BY DEF PlacesOf, k
    <3>3. ASSUME NEW i \in 1 .. k + 1
          PROVE  tab2[i].at = IF i <= k THEN PlacesOf(tab)[i] ELSE tensor.at
      <4>1. CASE i <= k
        BY <4>1, <1>1, <2>3, <3>2
      <4>2. CASE i = k + 1
        BY <4>2, <1>1, <2>2, <2>3
      <4>3. i <= k \/ i = k + 1
        BY <1>1
      <4> QED BY <4>1, <4>2, <4>3
    <3> QED BY <3>1, <3>3
  <2>7. IsList(seq, Len(seq)) /\ Full(tensor) > 0
    BY <1>4 DEF IsList, full
  <2>8. Covers(FirstOf(tab2, Len(new)), PlacesOf(tab2), k + 1, new)
    <3> HIDE DEF new
    <3>1. /\ FirstOf(tab2, Len(new)) =
              [i \in 1 .. k + 2 |-> IF i <= k + 1 THEN FirstOf(tab, n)[i] ELSE Len(seq) + Full(tensor)]
          /\ new = seq \o ChunksIn(tensor)
      BY <2>5 DEF n, full, new
    <3> DEFINE f == FirstOf(tab, n)
               f2 == FirstOf(tab2, Len(new))
               p == PlacesOf(tab)
               p2 == PlacesOf(tab2)
    <3>2. Covers(f, p, k, seq)
      BY <1>1
    <3> HIDE DEF f, f2, p, p2
    <3>3. /\ f2 = [i \in 1 .. k + 2 |-> IF i <= k + 1 THEN f[i] ELSE Len(seq) + Full(tensor)]
          /\ p2 = [i \in 1 .. k + 1 |-> IF i <= k THEN p[i] ELSE tensor.at]
      BY <3>1, <2>6 DEF f, f2, p, p2
    <3>4. Covers(f2, p2, k + 1, seq \o ChunksIn(tensor))
      BY <2>7, <3>2, <3>3, CoversMore
    <3> QED BY <3>1, <3>4 DEF f2, p2
  <2> QED BY <2>3, <2>8 DEF IsTable
<1> QED BY <1>2, <1>3, <1>4

(* The host's count of entries up to off leads to the canonical chunk. *)
LEMMA ReadFinds ==
  ASSUME NEW seq \in Seq(Nat), IsTable(table, seq), NEW off \in 0 .. Len(seq) - 1
  PROVE  ReadChunk(off) = seq[off + 1]
<1> DEFINE k == Len(table)
           first == FirstOf(table, Len(seq))
           at == PlacesOf(table)
           found == Before(first, k, off)
           j == Cardinality(found)
<1>1. /\ table \in Seq(Entry) /\ k \in Nat /\ Covers(first, at, k, seq)
      /\ DOMAIN table = 1 .. k
  BY DEF IsTable
<1>2. \A i \in 1 .. k : first[i] = table[i].start /\ at[i] = table[i].at
  <2>1. \A i \in 1 .. k : i \in 1 .. k + 1 /\ i <= k
    BY <1>1
  <2> QED BY <2>1 DEF FirstOf, PlacesOf
<1> HIDE DEF first, at, k
<1>3. j \in 1 .. k /\ off \in first[j] .. first[j + 1] - 1
  <2>1. Len(seq) \in Nat
    OBVIOUS
  <2> QED BY <1>1, <2>1, Found
<1>4. found = {i \in DOMAIN table : table[i].start <= off}
  BY <1>1, <1>2 DEF Before
<1>5. seq[off + 1] = at[j] + (off - first[j]) * ChunkSize
  BY <1>1, <1>3 DEF Covers
<1>6. ReadChunk(off) = table[j].at + (off - table[j].start) * ChunkSize
  BY <1>4 DEF ReadChunk
<1> HIDE DEF j
<1> QED BY <1>2, <1>3, <1>5, <1>6

(* Every chunk is one of a tensor. *)
LEMMA ChunksArePlaces ==
  ASSUME NEW w \in Layouts, NEW j \in 1 .. Len(ChunksOf(w)[Len(w)])
  PROVE  \E t \in 1 .. Len(w) : \E c \in 0 .. Full(w[t]) - 1 :
           ChunksOf(w)[Len(w)][j] = Place(w[t], c)
<1> DEFINE N == Len(w)
           IsPlace(x) == \E t \in 1 .. N : \E c \in 0 .. Full(w[t]) - 1 : x = Place(w[t], c)
           T == {t \in 0 .. N : \A i \in 1 .. Len(ChunksOf(w)[t]) : IsPlace(ChunksOf(w)[t][i])}
<1>1. N \in Nat /\ \A t \in 1 .. N : w[t] \in Tensor
  BY TensorsOf
<1>2. /\ ChunksOf(w)[0] = <<>>
      /\ \A t \in 0 .. N : ChunksOf(w)[t] \in Seq(Nat)
      /\ \A t \in 1 .. N : ChunksOf(w)[t] = ChunksOf(w)[t - 1] \o ChunksIn(w[t])
  BY ChunksOfDef
<1>3. 0 \in T
  <2>1. Len(<<>>) = 0
    OBVIOUS
  <2> QED BY <2>1, <1>1, <1>2
<1>4. ASSUME NEW t \in 0 .. N - 1, t \in T PROVE t + 1 \in T
  <2> DEFINE before == ChunksOf(w)[t]
             tensor == w[t + 1]
             after == ChunksOf(w)[t + 1]
             full == Full(tensor)
  <2>1. t + 1 \in 1 .. N /\ (t + 1) - 1 = t /\ t + 1 \in 0 .. N /\ t \in 0 .. N
    BY <1>1
  <2>2. /\ before \in Seq(Nat) /\ tensor \in Tensor /\ after = Cat(before, ChunksIn(tensor))
        /\ \A i \in 1 .. Len(before) : IsPlace(before[i])
    BY <1>1, <1>2, <1>4, <2>1 DEF Cat
  <2> HIDE DEF IsPlace, before, tensor, after
  <2>3. /\ IsList(before, Len(before)) /\ Len(before) \in Nat
        /\ IsList(ChunksIn(tensor), full) /\ full \in Nat
        /\ \A c \in 1 .. full : ChunksIn(tensor)[c] = Place(tensor, c - 1)
    <3>1. IsList(before, Len(before)) /\ Len(before) \in Nat
      BY <2>2 DEF IsList
    <3> QED BY <3>1, <2>2, ChunksInOf, FullOf
  <2> DEFINE m == Len(before)
  <2> HIDE DEF full, m
  <2>4. /\ IsList(before, m) /\ m \in Nat
    BY <2>3 DEF m
  <2>5. /\ IsList(after, m + full)
        /\ \A i \in 1 .. m : after[i] = before[i]
        /\ \A i \in m + 1 .. m + full : after[i] = ChunksIn(tensor)[i - m]
    <3> DEFINE more == ChunksIn(tensor)
    <3>1. after = Cat(before, more)
      BY <2>2
    <3>2. IsList(more, full)
      BY <2>3
    <3> HIDE DEF more
    <3>3. Joined(after, before, m, more, full)
      BY <2>4, <3>1, <3>2, CatOf
    <3> QED BY <3>3 DEF more, Joined
  <2>6. Len(after) = m + full
    BY <2>5, LenOf
  <2>7. ASSUME NEW i \in 1 .. m + full PROVE IsPlace(after[i])
    <3>1. CASE i <= m
      BY <3>1, <2>2, <2>4, <2>5 DEF m
    <3>2. CASE i > m
      <4>1. i - m \in 1 .. full /\ i \in m + 1 .. m + full
        BY <3>2, <2>3, <2>4
      <4>2. after[i] = Place(tensor, (i - m) - 1)
        BY <4>1, <2>3, <2>5
      <4>3. (i - m) - 1 \in 0 .. full - 1
        BY <4>1, <2>3, <2>4
      <4> QED BY <4>2, <4>3, <2>1 DEF IsPlace, tensor, full
    <3> QED BY <3>1, <3>2, <2>3, <2>4
  <2> QED BY <2>1, <2>6, <2>7 DEF after
<1>5. \A t \in 0 .. N : t \in T
  <2> HIDE DEF T
  <2> QED BY <1>1, <1>3, <1>4, InductionUpTo
<1>6. N \in T
  <2> HIDE DEF T
  <2> QED BY <1>1, <1>5
<1> QED BY <1>6

--------------------------------------------------------------------------------
(* Walks. *)

WalkUpTo(f, seed, count, chunk) ==
  f = [i \in 0 .. Steps |->
         IF i = 0 THEN <<seed>>
         ELSE Append(f[i - 1], Transition(Last(f[i - 1]), chunk[Last(f[i - 1]) % count]))]

IsWalk(s, n, seed, count, chunk) ==
  /\ s \in Seq(States) /\ Len(s) = n + 1 /\ s[1] = seed
  /\ \A i \in 1 .. n : s[i + 1] = Transition(s[i], chunk[s[i] % count])

(* A walk has a state more than steps, and each step is a transition by the
   chunk at its state. *)
LEMMA TraceOf ==
  ASSUME NEW seed \in States, NEW count \in Nat \ {0}, NEW chunk,
         \A off \in 0 .. count - 1, state \in States : Transition(state, chunk[off]) \in States
  PROVE  IsWalk(Trace(seed, count, chunk), Steps, seed, count, chunk)
<1> DEFINE S == {s \in Seq(States) : Len(s) > 0}
           base == <<seed>>
           next(s) == Append(s, Transition(Last(s), chunk[Last(s) % count]))
           F == [i \in 1 .. Steps |-> [s \in S |-> next(s)]]
<1>1. Steps \in Nat /\ States \subseteq Nat
  BY PossessionAssumption
<1>2. base \in S
  BY Len(base) = 1
<1>3. ASSUME NEW s \in S
      PROVE  /\ next(s) \in S /\ Len(next(s)) = Len(s) + 1 /\ Last(s) = s[Len(s)]
             /\ next(s)[Len(s) + 1] = Transition(s[Len(s)], chunk[s[Len(s)] % count])
             /\ \A i \in 1 .. Len(s) : next(s)[i] = s[i]
  <2>1. s \in Seq(States) /\ Len(s) > 0 /\ Len(s) \in Nat
    OBVIOUS
  <2> DEFINE state == Last(s)
  <2>2. state \in States /\ state = s[Len(s)]
    BY <2>1 DEF Last
  <2> HIDE DEF state
  <2>3. state % count \in 0 .. count - 1
    BY <1>1, <2>2
  <2> DEFINE x == Transition(state, chunk[state % count])
  <2>4. x \in States
    BY <2>2, <2>3
  <2>5. next(s) = Append(s, x)
    BY DEF state
  <2> HIDE DEF x, next
  <2>6. /\ Append(s, x) \in Seq(States) /\ Len(Append(s, x)) = Len(s) + 1
        /\ Append(s, x)[Len(s) + 1] = x
        /\ \A i \in 1 .. Len(s) : Append(s, x)[i] = s[i]
    BY <2>1, <2>4
  <2>7. x = Transition(s[Len(s)], chunk[s[Len(s)] % count]) /\ Last(s) = s[Len(s)]
    BY <2>2 DEF x, state
  <2> QED BY <2>1, <2>5, <2>6, <2>7
<1>4. F \in [1 .. Steps -> [S -> S]]
  <2> HIDE DEF S, next
  <2> QED BY <1>3
<1>5. \A i \in 1 .. Steps : \A s \in S : F[i][s] = next(s)
  <2> HIDE DEF S, next
  <2> QED OBVIOUS
<1> HIDE DEF F
<1>6. PICK f : Solves(f, Steps, S, base, F)
  <2> HIDE DEF base, S
  <2> QED BY <1>1, <1>2, <1>4, Recursion
<1>7. ASSUME NEW i \in 0 .. Steps PROVE f[i] = IF i = 0 THEN base ELSE next(f[i - 1])
  <2> HIDE DEF S, next, base
  <2>1. f[i] = IF i = 0 THEN base ELSE F[i][f[i - 1]]
    BY <1>6 DEF Solves
  <2>2. CASE i = 0
    BY <2>1, <2>2
  <2>3. CASE i # 0
    <3>1. i \in 1 .. Steps /\ i - 1 \in 0 .. Steps
      BY <2>3, <1>1
    <3>2. f[i - 1] \in S
      BY <3>1, <1>6 DEF Solves
    <3> QED BY <2>1, <2>3, <3>1, <3>2, <1>5
  <2> QED BY <2>2, <2>3
<1>8. WalkUpTo(f, seed, count, chunk)
  <2>1. f = [i \in 0 .. Steps |-> IF i = 0 THEN base ELSE next(f[i - 1])]
    <3>1. f = [i \in 0 .. Steps |-> f[i]]
      BY <1>6 DEF Solves
    <3> HIDE DEF next, base
    <3> QED BY <1>7, <3>1
  <2> QED BY <2>1 DEF WalkUpTo
<1> DEFINE g == CHOOSE g : WalkUpTo(g, seed, count, chunk)
<1>9. WalkUpTo(g, seed, count, chunk)
  BY <1>8
<1>10. Trace(seed, count, chunk) = g[Steps]
  BY DEF Trace, WalkUpTo
<1> HIDE DEF g
<1>11. \A i \in 0 .. Steps : g[i] = IF i = 0 THEN base ELSE next(g[i - 1])
  <2>1. g = [i \in 0 .. Steps |-> IF i = 0 THEN base ELSE next(g[i - 1])]
    BY <1>9 DEF WalkUpTo
  <2> HIDE DEF next, base
  <2> QED BY <2>1, Zenon
<1> DEFINE T == {n \in 0 .. Steps : IsWalk(g[n], n, seed, count, chunk)}
<1>12. 0 \in T
  <2>1. g[0] = base
    BY <1>1, <1>11
  <2>2. base \in Seq(States) /\ Len(base) = 0 + 1 /\ base[1] = seed
    OBVIOUS
  <2> HIDE DEF base
  <2>3. IsWalk(g[0], 0, seed, count, chunk)
    BY <2>1, <2>2 DEF IsWalk
  <2> QED BY <2>3, <1>1
<1>13. ASSUME NEW n \in 0 .. Steps - 1, n \in T PROVE n + 1 \in T
  <2>1. n + 1 \in 0 .. Steps /\ n + 1 # 0 /\ (n + 1) - 1 = n /\ n \in Nat
    BY <1>1
  <2> DEFINE s == g[n]
             s2 == g[n + 1]
  <2>2. s2 = next(s)
    BY <2>1, <1>11
  <2>3. /\ s \in Seq(States) /\ Len(s) = n + 1 /\ s[1] = seed
        /\ \A i \in 1 .. n : s[i + 1] = Transition(s[i], chunk[s[i] % count])
    BY <1>13 DEF IsWalk
  <2>4. s \in S
    BY <2>1, <2>3
  <2>5. /\ s2 \in S /\ Len(s2) = Len(s) + 1
        /\ s2[Len(s) + 1] = Transition(s[Len(s)], chunk[s[Len(s)] % count])
        /\ \A i \in 1 .. Len(s) : s2[i] = s[i]
    <3> HIDE DEF s, s2, S, next
    <3> QED BY <2>2, <2>4, <1>3
  <2>6. /\ s2 \in Seq(States) /\ Len(s2) = (n + 1) + 1
        /\ s2[(n + 1) + 1] = Transition(s[n + 1], chunk[s[n + 1] % count])
        /\ \A i \in 1 .. n + 1 : s2[i] = s[i]
    BY <2>3, <2>5
  <2> HIDE DEF s, s2, S
  <2>7. s2[1] = seed
    BY <2>1, <2>3, <2>6
  <2>8. ASSUME NEW i \in 1 .. n + 1
        PROVE  s2[i + 1] = Transition(s2[i], chunk[s2[i] % count])
    <3>1. CASE i = n + 1
      BY <3>1, <2>1, <2>6
    <3>2. CASE i # n + 1
      <4>1. i \in 1 .. n /\ i + 1 \in 1 .. n + 1
        BY <3>2, <2>1
      <4> QED BY <4>1, <2>3, <2>6
    <3> QED BY <3>1, <3>2
  <2>9. IsWalk(s2, n + 1, seed, count, chunk)
    BY <2>6, <2>7, <2>8 DEF IsWalk
  <2> QED BY <2>1, <2>9 DEF s2
<1>14. \A n \in 0 .. Steps : n \in T
  <2> HIDE DEF T
  <2> QED BY <1>1, <1>12, <1>13, InductionUpTo
<1>15. Steps \in T
  <2> HIDE DEF T
  <2> QED BY <1>1, <1>14
<1> QED BY <1>10, <1>15

--------------------------------------------------------------------------------
(* The invariant. *)

ReadSoFar == ChunksOf(weights)[read]

(* What the index has of the first tensors, and the whole of it. *)
TableRight ==
  /\ read \in 0 .. Len(weights) /\ chunks = Len(ReadSoFar)
  /\ IsTable(table, ReadSoFar)

NodesAt(l) == [j \in 1 .. levels[l].count |-> tree[levels[l].from + j]]

DiskTree == [l \in 1 .. Len(levels) |-> NodesAt(l)]

Extents ==
  /\ IsList(tree, Len(tree)) /\ IsList(levels, Len(levels)) /\ Len(levels) >= 1
  /\ \A l \in 1 .. Len(levels) :
       /\ levels[l].from \in Nat /\ levels[l].count \in Nat
       /\ levels[l].from + levels[l].count <= Len(tree)
  /\ levels[Len(levels)].from + levels[Len(levels)].count = Len(tree)

LevelsRight ==
  /\ read = Len(weights) /\ chunks > 0
  /\ Extents /\ Halving(DiskTree, Leaves(CanonicalChunks))

IndexInv ==
  /\ weights \in Layouts
  /\ phase \in {"none", "leaves", "levels", "ready", "installed"}
  /\ TableRight
  /\ phase = "leaves" => tree = Leaves(ReadSoFar)
  /\ phase \in {"levels", "ready", "installed"} => LevelsRight
  /\ phase \in {"ready", "installed"} => levels[Len(levels)].count = 1
  /\ IF phase = "installed" THEN gather = LayoutOf(weights) ELSE gather = None

PoolInv ==
  /\ poolTarget \in Uint256
  /\ recip # None =>
       /\ recip \in Recips /\ ~ OutOfBounds(recip) /\ ~ TooBig(recip)
       /\ poolTarget = TargetOf(recip)

JobInv ==
  job # None =>
    /\ \E bits \in Compacts, daa \in Scores : job.header = Header(bits, daa)
    /\ job.target \in Uint256
    /\ ~ job.pool => job.target = FromCompact(job.header.bits)

(* The walk over the chunks in canonical order. *)
CanonicalTrace(nonce) ==
  Trace(Seed(job.header, nonce), Len(CanonicalChunks),
        [off \in 0 .. Len(CanonicalChunks) - 1 |-> CanonicalChunks[off + 1]])

CandidateInv ==
  candidate # None =>
    /\ job # None /\ job.header.daa >= PomActivation /\ candidate \in Nonces
    /\ Len(CanonicalChunks) > 0
    /\ LeLeq(PowValue(Last(CanonicalTrace(candidate)), job.header), job.target)

IInv == IndexInv /\ PoolInv /\ JobInv /\ CandidateInv /\ BlocksAreValid

(* The canonical chunks are places; when all tensors are read, they are read. *)
LEMMA CanonicalFacts ==
  ASSUME weights \in Layouts
  PROVE  /\ CanonicalChunks \in Seq(Nat) /\ Len(CanonicalChunks) \in Nat
         /\ IsList(CanonicalChunks, Len(CanonicalChunks))
         /\ Len(weights) \in Nat
         /\ \A t \in 1 .. Len(weights) : weights[t] \in Tensor
         /\ read \in 0 .. Len(weights) => ReadSoFar \in Seq(Nat)
         /\ read = Len(weights) => ReadSoFar = CanonicalChunks
<1>1. Len(weights) \in Nat /\ \A t \in 1 .. Len(weights) : weights[t] \in Tensor
  BY TensorsOf
<1>2. ChunksOf(weights) \in [0 .. Len(weights) -> Seq(Nat)]
  BY ChunksOfDef
<1>3. CanonicalChunks \in Seq(Nat)
  <2>1. Len(weights) \in 0 .. Len(weights)
    BY <1>1
  <2> QED BY <1>2, <2>1 DEF CanonicalChunks
<1>4. Len(CanonicalChunks) \in Nat /\ IsList(CanonicalChunks, Len(CanonicalChunks))
  <2> DEFINE s == CanonicalChunks
  <2>1. s \in Seq(Nat)
    BY <1>3
  <2> HIDE DEF s
  <2>2. Len(s) \in Nat /\ IsList(s, Len(s))
    BY <2>1 DEF IsList
  <2> QED BY <2>2 DEF s
<1>5. read \in 0 .. Len(weights) => ReadSoFar \in Seq(Nat)
  BY <1>2 DEF ReadSoFar
<1>6. read = Len(weights) => ReadSoFar = CanonicalChunks
  BY DEF ReadSoFar, CanonicalChunks
<1> QED BY <1>1, <1>3, <1>4, <1>5, <1>6

--------------------------------------------------------------------------------
(* What a finished index says of the chunks. *)

(* An index that is ready has the table and the tree of the whole file. *)
LEMMA Finished ==
  ASSUME IndexInv, phase \in {"ready", "installed"}
  PROVE  /\ weights \in Layouts /\ chunks = Len(CanonicalChunks) /\ Len(CanonicalChunks) > 0
         /\ IsTable(table, CanonicalChunks)
         /\ Extents /\ DiskTree = MerkleTree(Leaves(CanonicalChunks))
         /\ IsTree(DiskTree, Leaves(CanonicalChunks))
<1>1. /\ weights \in Layouts /\ TableRight /\ LevelsRight
      /\ levels[Len(levels)].count = 1
  BY DEF IndexInv
<1>2. chunks = Len(CanonicalChunks) /\ chunks > 0 /\ IsTable(table, CanonicalChunks)
  <2>1. ReadSoFar = CanonicalChunks
    BY <1>1, CanonicalFacts DEF LevelsRight
  <2> QED BY <1>1, <2>1 DEF TableRight, LevelsRight
<1>3. Extents /\ Halving(DiskTree, Leaves(CanonicalChunks))
  BY <1>1 DEF LevelsRight
<1> DEFINE k == Len(levels)
<1>4. k \in Nat /\ k >= 1 /\ Len(DiskTree) = k /\ DiskTree[k] = NodesAt(k)
  <2>1. k \in Nat /\ k >= 1
    BY <1>3 DEF Extents, IsList
  <2>2. DiskTree = [l \in 1 .. k |-> NodesAt(l)]
    BY DEF DiskTree
  <2> HIDE DEF k
  <2>3. DiskTree[k] = NodesAt(k)
    BY <2>1, <2>2
  <2>4. IsList(DiskTree, k)
    BY <2>1, <2>2 DEF IsList
  <2> QED BY <2>1, <2>3, <2>4, LenOf
<1>5. Len(NodesAt(k)) = 1
  <2>1. NodesAt(k) = [j \in 1 .. 1 |-> tree[levels[k].from + j]]
    BY <1>1 DEF NodesAt
  <2>2. IsList(NodesAt(k), 1)
    BY <2>1 DEF IsList
  <2> QED BY <2>2, LenOf
<1>6. IsTree(DiskTree, Leaves(CanonicalChunks))
  BY <1>3, <1>4, <1>5 DEF IsTree
<1>7. IsTree(MerkleTree(Leaves(CanonicalChunks)), Leaves(CanonicalChunks))
  <2> DEFINE n == Len(CanonicalChunks)
  <2>1. n \in Nat \ {0} /\ IsList(CanonicalChunks, n)
    BY <1>1, <1>2, CanonicalFacts
  <2> HIDE DEF n
  <2>2. IsList(Leaves(CanonicalChunks), n)
    BY <2>1, LeavesOf
  <2> QED BY <2>1, <2>2, TreeOf
<1>8. DiskTree = MerkleTree(Leaves(CanonicalChunks))
  BY <1>6, <1>7, TreeUnique
<1> QED BY <1>1, <1>2, <1>3, <1>6, <1>8

(* The path read from the disk is right for what the node has pinned. *)
LEMMA WeightPath ==
  ASSUME IndexInv, phase \in {"ready", "installed"},
         NEW off \in 0 .. Len(CanonicalChunks) - 1
  PROVE  /\ ReadChunk(off) = CanonicalChunks[off + 1]
         /\ VerifyMerkle(Leaf(CanonicalChunks[off + 1]), off, MerklePath(off), PinnedRoot)
<1> DEFINE n == Len(CanonicalChunks)
           leaves == Leaves(CanonicalChunks)
           L == DiskTree
           k == Len(levels)
<1>1. /\ IsTable(table, CanonicalChunks) /\ Extents /\ L = MerkleTree(leaves)
      /\ IsTree(L, leaves) /\ n \in Nat /\ CanonicalChunks \in Seq(Nat)
      /\ IsList(CanonicalChunks, n)
  BY Finished, CanonicalFacts
<1>2. ReadChunk(off) = CanonicalChunks[off + 1]
  <2> DEFINE seq == CanonicalChunks
  <2>1. seq \in Seq(Nat) /\ IsTable(table, seq) /\ off \in 0 .. Len(seq) - 1
    BY <1>1
  <2> HIDE DEF seq
  <2>2. ReadChunk(off) = seq[off + 1]
    BY <2>1, ReadFinds
  <2> QED BY <2>2 DEF seq
<1>3. Len(leaves) = n /\ leaves[off + 1] = Leaf(CanonicalChunks[off + 1])
  <2>1. off + 1 \in 1 .. n
    BY <1>1
  <2> HIDE DEF n
  <2> QED BY <1>1, <2>1, LeavesOf
<1>4. off \in 0 .. Len(leaves) - 1
  BY <1>3
<1>5. VerifyMerkle(leaves[off + 1], off, MerkleProof(L, off), MerkleRoot(L))
  <2> HIDE DEF L, leaves
  <2> QED BY <1>1, <1>4, PathVerifies
<1>6. PinnedRoot = MerkleRoot(L)
  BY <1>1 DEF PinnedRoot
<1>7. MerklePath(off) = MerkleProof(L, off)
  <2>1. k \in Nat /\ k >= 1 /\ L = [l \in 1 .. k |-> NodesAt(l)] /\ Len(L) = k
    <3>1. k \in Nat /\ k >= 1
      BY <1>1 DEF Extents, IsList
    <3>2. L = [l \in 1 .. k |-> NodesAt(l)]
      BY DEF DiskTree
    <3>3. IsList(L, k)
      BY <3>1, <3>2 DEF IsList
    <3> HIDE DEF L
    <3> QED BY <3>1, <3>2, <3>3, LenOf
  <2>2. \A l \in 1 .. k : off \div Pow2[l - 1] \in 0 .. Len(L[l]) - 1
    <3>1. Halving(L, leaves)
      BY <1>1 DEF IsTree
    <3> HIDE DEF L, leaves
    <3> QED BY <1>4, <2>1, <3>1, AtLevel
  <2> HIDE DEF L
  <2>3. ASSUME NEW l \in 1 .. k - 1
        PROVE  tree[levels[l].from + Partner(off \div Pow2[l - 1], levels[l].count) + 1] =
               L[l][1 + Partner(off \div Pow2[l - 1], Len(L[l]))]
    <3> DEFINE c == levels[l].count
               a == off \div Pow2[l - 1]
               p == Partner(a, c)
    <3>0. l \in 1 .. k
      BY <2>1
    <3>1. c \in Nat /\ levels[l].from \in Nat
      BY <3>0, <1>1 DEF Extents
    <3>2. L[l] = [j \in 1 .. c |-> tree[levels[l].from + j]]
      BY <2>1, <3>0 DEF NodesAt
    <3>3. Len(L[l]) = c
      <4>1. IsList(L[l], c)
        BY <3>1, <3>2 DEF IsList
      <4> QED BY <4>1, LenOf
    <3>4. a \in 0 .. c - 1
      BY <2>2, <3>0, <3>3
    <3> HIDE DEF c, a
    <3>5. p \in 0 .. c - 1
      BY <3>1, <3>4, PartnerIn
    <3> HIDE DEF p
    <3>6. 1 + p \in 1 .. c /\ levels[l].from + (1 + p) = levels[l].from + p + 1
      BY <3>1, <3>5
    <3>7. L[l][1 + p] = tree[levels[l].from + p + 1]
      BY <3>2, <3>6
    <3> QED BY <3>3, <3>7 DEF p, a, c
  <2> QED BY <2>1, <2>3 DEF MerklePath, MerkleProof
<1> QED BY <1>2, <1>3, <1>5, <1>6, <1>7

--------------------------------------------------------------------------------
(* Walks of the host and of the GPU. *)

ChunkAt == [off \in 0 .. Len(CanonicalChunks) - 1 |-> CanonicalChunks[off + 1]]

(* The host's walk is the canonical one. *)
LEMMA HostWalks ==
  ASSUME IndexInv, phase \in {"ready", "installed"}, NEW nonce
  PROVE  HostTrace(nonce) = CanonicalTrace(nonce)
<1>1. chunks = Len(CanonicalChunks)
  BY Finished
<1>2. [off \in 0 .. chunks - 1 |-> ReadChunk(off)] = ChunkAt
  BY <1>1, WeightPath DEF ChunkAt
<1> QED BY <1>1, <1>2 DEF HostTrace, CanonicalTrace, ChunkAt

(* The GPU's walk is the canonical one. *)
LEMMA GpuWalks ==
  ASSUME IndexInv, phase = "installed", NEW nonce
  PROVE  GpuTrace(nonce) = CanonicalTrace(nonce)
<1> DEFINE seq == CanonicalChunks
           n == Len(seq)
<1>1. weights \in Layouts /\ gather = LayoutOf(weights)
  BY DEF IndexInv
<1>2. seq \in Seq(Nat)
  BY <1>1, CanonicalFacts
<1>3. IsLayout(gather, seq)
  BY <1>1, LayoutCovers DEF CanonicalChunks
<1> HIDE DEF seq
<1>4. Last(gather.prefix) = n
  <2> DEFINE k == Len(gather.bases)
  <2>1. k \in Nat /\ gather.prefix[k + 1] = n /\ Len(gather.prefix) = k + 1
    BY <1>3 DEF IsLayout, Covers
  <2> HIDE DEF k
  <2> QED BY <2>1 DEF Last
<1>5. \A off \in 0 .. n - 1 : GatheredChunk(off) = seq[off + 1]
  BY <1>2, <1>3, SearchFinds
<1>6. [off \in 0 .. n - 1 |-> GatheredChunk(off)] = [off \in 0 .. n - 1 |-> seq[off + 1]]
  BY <1>5
<1> QED BY <1>4, <1>6 DEF GpuTrace, CanonicalTrace, seq

LEMMA HeaderWords ==
  ASSUME JobInv, job # None
  PROVE  /\ PrePowHash(job.header) \in Hashes /\ WordsFor(job.header) \in Hashes
         /\ job.header.time = 1
         /\ \A nonce \in Nonces : /\ Seed(job.header, nonce) \in States
                                  /\ HeavyValue(job.header, nonce) \in Uint256
         /\ \A state \in States : PowValue(state, job.header) \in Uint256
<1>1. PICK bits \in Compacts, daa \in Scores : job.header = Header(bits, daa)
  BY DEF JobInv
<1>2. PrePowHash(job.header) \in Hashes
  BY <1>1, HashAssumption
<1>3. WordsFor(job.header) \in Hashes
  BY <1>2, HashAssumption DEF WordsFor
<1>4. job.header.time = 1
  BY <1>1 DEF Header
<1>5. ASSUME NEW nonce \in Nonces
      PROVE  Seed(job.header, nonce) \in States /\ HeavyValue(job.header, nonce) \in Uint256
  BY <1>2, <1>3, <1>4, HashAssumption DEF Seed, HeavyValue
<1>6. ASSUME NEW state \in States PROVE PowValue(state, job.header) \in Uint256
  BY <1>3, HashAssumption DEF PowValue
<1> QED BY <1>2, <1>3, <1>4, <1>5, <1>6

LEMMA CanonicalWalk ==
  ASSUME weights \in Layouts, Len(CanonicalChunks) > 0, JobInv, job # None,
         NEW nonce \in Nonces
  PROVE  /\ IsWalk(CanonicalTrace(nonce), Steps, Seed(job.header, nonce),
                   Len(CanonicalChunks), ChunkAt)
         /\ Last(CanonicalTrace(nonce)) = CanonicalTrace(nonce)[Steps + 1]
         /\ Last(CanonicalTrace(nonce)) \in States
         /\ PowValue(Last(CanonicalTrace(nonce)), job.header) \in Uint256
<1> DEFINE n == Len(CanonicalChunks)
           seed == Seed(job.header, nonce)
           trace == CanonicalTrace(nonce)
<1>1. n \in Nat \ {0} /\ seed \in States
  BY CanonicalFacts, HeaderWords
<1>2. ASSUME NEW off \in 0 .. n - 1, NEW state \in States
      PROVE  Transition(state, ChunkAt[off]) \in States
  <2>1. off + 1 \in 1 .. n
    BY <1>1
  <2>5. PICK t \in 1 .. Len(weights) : \E c \in 0 .. Full(weights[t]) - 1 :
          CanonicalChunks[off + 1] = Place(weights[t], c)
    BY <2>1, ChunksArePlaces DEF CanonicalChunks
  <2>2. PICK c \in 0 .. Full(weights[t]) - 1 : CanonicalChunks[off + 1] = Place(weights[t], c)
    BY <2>5
  <2>3. t \in DOMAIN weights
    BY PossessionAssumption
  <2>4. ChunkAt[off] = Place(weights[t], c)
    BY <2>2 DEF ChunkAt
  <2> QED BY <2>3, <2>4, HashAssumption
<1>3. trace = Trace(seed, n, ChunkAt)
  BY DEF CanonicalTrace, ChunkAt
<1> HIDE DEF n, seed, trace
<1>4. IsWalk(trace, Steps, seed, n, ChunkAt)
  BY <1>1, <1>2, <1>3, TraceOf
<1>5. Last(trace) = trace[Steps + 1] /\ Last(trace) \in States
  <2>1. trace \in Seq(States) /\ Len(trace) = Steps + 1 /\ Steps \in Nat
    BY <1>4, PossessionAssumption DEF IsWalk
  <2>2. trace[Steps + 1] \in States
    BY <2>1
  <2> QED BY <2>1, <2>2 DEF Last
<1> QED BY <1>4, <1>5, HeaderWords DEF n, seed, trace

--------------------------------------------------------------------------------
(* The proof built for any challenges holds for them. *)

(* The paths of the trace verify against its root. *)
LEMMA TracePath ==
  ASSUME NEW trace, IsList(trace, Steps + 1), NEW i \in 0 .. Steps
  PROVE  LET level == MerkleTree(Leaves(trace))
         IN VerifyMerkle(Leaf(trace[i + 1]), i, MerkleProof(level, i), MerkleRoot(level))
<1> DEFINE leaves == Leaves(trace)
           level == MerkleTree(leaves)
<1>1. Steps \in Nat /\ Steps + 1 \in Nat \ {0} /\ i + 1 \in 1 .. Steps + 1
  BY PossessionAssumption
<1>2. IsList(leaves, Steps + 1) /\ Len(leaves) = Steps + 1 /\ leaves[i + 1] = Leaf(trace[i + 1])
  BY <1>1, LeavesOf
<1> HIDE DEF leaves
<1>3. IsTree(level, leaves)
  BY <1>1, <1>2, TreeOf
<1>4. i \in 0 .. Len(leaves) - 1
  BY <1>1, <1>2
<1> HIDE DEF level
<1>5. VerifyMerkle(leaves[i + 1], i, MerkleProof(level, i), MerkleRoot(level))
  BY <1>3, <1>4, PathVerifies
<1> QED BY <1>2, <1>5 DEF level, leaves

(* What the node checks of an opening holds. *)
LEMMA OpeningsHold ==
  ASSUME IndexInv, phase \in {"ready", "installed"}, JobInv, job # None,
         NEW nonce \in Nonces, NEW trace, trace = CanonicalTrace(nonce),
         NEW i \in 0 .. Steps - 1, NEW proof,
         proof.traceRoot = MerkleRoot(MerkleTree(Leaves(trace)))
  PROVE  OpeningHolds(Opening(trace, MerkleTree(Leaves(trace)), i), i, proof)
<1> DEFINE n == Len(CanonicalChunks)
           level == MerkleTree(Leaves(trace))
           opening == Opening(trace, level, i)
           off == trace[i + 1] % n
<1>1. /\ weights \in Layouts /\ chunks = n /\ n \in Nat \ {0} /\ Steps \in Nat
      /\ States \subseteq Nat
  BY Finished, CanonicalFacts, PossessionAssumption
<1>2. IsWalk(trace, Steps, Seed(job.header, nonce), n, ChunkAt)
  BY <1>1, CanonicalWalk
<1>3. IsList(trace, Steps + 1) /\ trace[i + 1] \in States
  BY <1>1, <1>2 DEF IsWalk, IsList
<1>4. off \in 0 .. n - 1
  <2>1. trace[i + 1] \in Nat
    BY <1>1, <1>3
  <2> HIDE DEF n
  <2> QED BY <1>1, <2>1, DivMod
<1>5. trace[(i + 1) + 1] = Transition(trace[i + 1], ChunkAt[off])
  <2>1. i + 1 \in 1 .. Steps
    BY <1>1
  <2> QED BY <1>2, <2>1 DEF IsWalk
<1>6. ChunkAt[off] = CanonicalChunks[off + 1]
  BY <1>4 DEF ChunkAt
<1>7. /\ ReadChunk(off) = CanonicalChunks[off + 1]
      /\ VerifyMerkle(Leaf(CanonicalChunks[off + 1]), off, MerklePath(off), PinnedRoot)
  BY <1>4, WeightPath
<1> HIDE DEF level
<1>8. /\ opening.stateBefore = trace[i + 1] /\ opening.chunk = ReadChunk(off)
      /\ opening.weightPath = MerklePath(off)
      /\ opening.tracePathBefore = MerkleProof(level, i)
      /\ opening.tracePathAfter = MerkleProof(level, i + 1)
  BY <1>1 DEF Opening
<1> HIDE DEF opening
<1>9. VerifyMerkle(Leaf(trace[i + 1]), i, MerkleProof(level, i), MerkleRoot(level))
  <2>1. i \in 0 .. Steps
    BY <1>1
  <2> QED BY <1>3, <2>1, TracePath DEF level
<1>10. VerifyMerkle(Leaf(trace[(i + 1) + 1]), i + 1, MerkleProof(level, i + 1), MerkleRoot(level))
  <2>1. i + 1 \in 0 .. Steps
    BY <1>1
  <2> QED BY <1>3, <2>1, TracePath DEF level
<1>11. proof.traceRoot = MerkleRoot(level)
  BY DEF level
<1>12. opening.stateBefore % Len(CanonicalChunks) = off
  BY <1>8
<1>13. Transition(opening.stateBefore, opening.chunk) = trace[(i + 1) + 1]
  BY <1>5, <1>6, <1>7, <1>8
<1> HIDE DEF off
<1>14. OpeningHolds(opening, i, proof)
  BY <1>7, <1>8, <1>9, <1>10, <1>11, <1>12, <1>13 DEF OpeningHolds
<1> QED BY <1>14 DEF opening, level

(* A header that differs from the job's in nonce and final state only. *)
SameJob(header, nonce) ==
  /\ header.bits = job.header.bits /\ header.daa = job.header.daa
  /\ header.time = job.header.time /\ header.nonce = nonce

(* What the walk and its number depend on is the same for such a header. *)
LEMMA SameWords ==
  ASSUME NEW header, NEW nonce, SameJob(header, nonce)
  PROVE  /\ PrePowHash(header) = PrePowHash(job.header)
         /\ WordsFor(header) = WordsFor(job.header)
         /\ H3(header) = H3(job.header)
         /\ \A n : Seed(header, n) = Seed(job.header, n) /\ HeavyValue(header, n) = HeavyValue(job.header, n)
         /\ \A state : PowValue(state, header) = PowValue(state, job.header)
<1>1. H3(header) = H3(job.header)
  BY DEF SameJob, H3
<1>2. SerializeHeader(header, TRUE) = SerializeHeader(job.header, TRUE)
  BY DEF SameJob, SerializeHeader
<1>3. PrePowHash(header) = PrePowHash(job.header)
  BY <1>2 DEF PrePowHash
<1>4. WordsFor(header) = WordsFor(job.header)
  BY <1>1, <1>3 DEF WordsFor
<1>5. header.time = job.header.time
  BY DEF SameJob
<1>6. \A n : Seed(header, n) = Seed(job.header, n) /\ HeavyValue(header, n) = HeavyValue(job.header, n)
  BY <1>3, <1>4, <1>5 DEF Seed, HeavyValue
<1>7. \A state : PowValue(state, header) = PowValue(state, job.header)
  BY <1>4 DEF PowValue
<1> QED BY <1>1, <1>3, <1>4, <1>6, <1>7

(* What the node checks of a proof holds, but for the challenges being drawn. *)
LEMMA ProofHolds ==
  ASSUME IndexInv, phase \in {"ready", "installed"}, JobInv, job # None,
         NEW nonce \in Nonces, NEW trace, trace = HostTrace(nonce),
         LeLeq(PowValue(Last(trace), job.header), job.target),
         NEW drawn \in Draws, NEW header, SameJob(header, nonce)
  PROVE  LET proof == BuildProof(trace, drawn)
         IN /\ Len(proof.openings) = Openings /\ Len(drawn) = Openings
            /\ PowValue(proof.finalState, header) = proof.powValue
            /\ LeLeq(proof.powValue, job.target)
            /\ VerifyMerkle(Leaf(Seed(header, header.nonce)), 0, proof.initialTracePath, proof.traceRoot)
            /\ VerifyMerkle(Leaf(proof.finalState), Steps, proof.finalTracePath, proof.traceRoot)
            /\ \A j \in 1 .. Openings : OpeningHolds(proof.openings[j], drawn[j], proof)
<1> DEFINE n == Len(CanonicalChunks)
           level == MerkleTree(Leaves(trace))
           proof == BuildProof(trace, drawn)
<1>1. /\ weights \in Layouts /\ n > 0 /\ Steps \in Nat /\ Openings \in Nat
  BY Finished, PossessionAssumption
<1>2. trace = CanonicalTrace(nonce)
  BY HostWalks
<1>3. /\ IsWalk(trace, Steps, Seed(job.header, nonce), n, ChunkAt)
      /\ Last(trace) = trace[Steps + 1]
  BY <1>1, <1>2, CanonicalWalk
<1>4. IsList(trace, Steps + 1) /\ trace[1] = Seed(job.header, nonce)
  BY <1>1, <1>3 DEF IsWalk, IsList
<1> HIDE DEF level
<1>5. /\ proof.traceRoot = MerkleRoot(level)
      /\ proof.powValue = PowValue(Last(trace), job.header)
      /\ proof.finalState = Last(trace)
      /\ proof.initialTracePath = MerkleProof(level, 0)
      /\ proof.finalTracePath = MerkleProof(level, Steps)
      /\ proof.openings = [j \in DOMAIN drawn |-> Opening(trace, level, drawn[j])]
  BY DEF BuildProof, level
<1> HIDE DEF proof
<1>6. /\ DOMAIN drawn = 1 .. Openings
      /\ \A j \in 1 .. Openings : drawn[j] \in 0 .. Steps - 1
      /\ IsList(drawn, Openings)
  BY <1>1 DEF Draws, IsList
<1>7. Len(drawn) = Openings
  BY <1>6, LenOf
<1>8. Len(proof.openings) = Openings
  <2> DEFINE o == proof.openings
  <2>1. o = [j \in 1 .. Openings |-> Opening(trace, level, drawn[j])]
    BY <1>5, <1>6
  <2> HIDE DEF o
  <2>2. IsList(o, Openings)
    BY <1>1, <2>1 DEF IsList
  <2> QED BY <2>2, LenOf DEF o
<1>9. header.nonce = nonce /\ Seed(header, nonce) = Seed(job.header, nonce)
      /\ PowValue(Last(trace), header) = PowValue(Last(trace), job.header)
  BY SameWords DEF SameJob
<1>10. VerifyMerkle(Leaf(Seed(header, header.nonce)), 0, proof.initialTracePath, proof.traceRoot)
  <2>1. 0 \in 0 .. Steps /\ 0 + 1 = 1
    BY <1>1
  <2>2. VerifyMerkle(Leaf(trace[0 + 1]), 0, MerkleProof(level, 0), MerkleRoot(level))
    BY <1>4, <2>1, TracePath DEF level
  <2> QED BY <1>4, <1>5, <1>9, <2>1, <2>2
<1>11. VerifyMerkle(Leaf(proof.finalState), Steps, proof.finalTracePath, proof.traceRoot)
  <2>1. Steps \in 0 .. Steps
    BY <1>1
  <2>2. VerifyMerkle(Leaf(trace[Steps + 1]), Steps, MerkleProof(level, Steps), MerkleRoot(level))
    BY <1>4, <2>1, TracePath DEF level
  <2> QED BY <1>3, <1>5, <2>2
<1>12. ASSUME NEW j \in 1 .. Openings PROVE OpeningHolds(proof.openings[j], drawn[j], proof)
  <2>1. proof.openings[j] = Opening(trace, level, drawn[j])
    BY <1>5, <1>6
  <2>2. proof.traceRoot = MerkleRoot(MerkleTree(Leaves(trace)))
    BY <1>5 DEF level
  <2>3. drawn[j] \in 0 .. Steps - 1
    BY <1>6
  <2>4. OpeningHolds(Opening(trace, level, drawn[j]), drawn[j], proof)
    BY <1>2, <2>2, <2>3, OpeningsHold DEF level
  <2> QED BY <2>1, <2>4
<1>13. /\ PowValue(proof.finalState, header) = proof.powValue
       /\ LeLeq(proof.powValue, job.target)
  BY <1>5, <1>9
<1> QED BY <1>7, <1>8, <1>10, <1>11, <1>12, <1>13 DEF proof

--------------------------------------------------------------------------------
(* The invariant holds at first and every step keeps it. *)

LEMMA Zero256 ==
  FromU64(0) \in Uint256
<1>1. 0 \in Word
  BY Widths DEF Word
<1> QED BY <1>1 DEF FromU64, Uint256

(* The invariant holds at the start ... *)
LEMMA InvInit ==
  Init => IInv
<1> SUFFICES ASSUME Init PROVE IInv
  OBVIOUS
<1>1. /\ weights \in Layouts /\ phase = "none" /\ recip = None /\ poolTarget = FromU64(0)
      /\ job = None /\ candidate = None /\ block = None
      /\ read = 0 /\ chunks = 0 /\ table = <<>> /\ gather = None
  BY DEF Init
<1>4. TableRight
  <2>1. ReadSoFar = <<>>
    BY <1>1, ChunksOfDef DEF ReadSoFar
  <2>2. Len(weights) \in Nat /\ Len(<<>>) = 0
    BY <1>1, CanonicalFacts
  <2> QED BY <1>1, <2>1, <2>2, EmptyTable DEF TableRight
<1>2. IndexInv
  BY <1>1, <1>4 DEF IndexInv
<1>3. PoolInv
  BY <1>1, Zero256 DEF PoolInv
<1> QED BY <1>1, <1>2, <1>3 DEF IInv, JobInv, CandidateInv, BlocksAreValid

LEMMA IndexSame ==
  ASSUME IndexInv, weights' = weights, index' = index
  PROVE  IndexInv'
<1>1. /\ phase' = phase /\ read' = read /\ chunks' = chunks /\ table' = table
      /\ tree' = tree /\ levels' = levels /\ gather' = gather
  BY DEF index
<1>2. TableRight => TableRight'
  BY <1>1 DEF TableRight, ReadSoFar
<1>3. ReadSoFar' = ReadSoFar
  BY <1>1 DEF ReadSoFar
<1>4. LevelsRight => LevelsRight'
  <2>1. DiskTree' = DiskTree
    BY <1>1 DEF DiskTree, NodesAt
  <2>2. CanonicalChunks' = CanonicalChunks
    BY DEF CanonicalChunks
  <2>3. Extents => Extents'
    BY <1>1 DEF Extents
  <2> QED BY <1>1, <2>1, <2>2, <2>3 DEF LevelsRight
<1> QED BY <1>1, <1>2, <1>3, <1>4 DEF IndexInv

LEMMA LeavesMore ==
  ASSUME NEW seq \in Seq(Nat), NEW tensor \in Tensor
  PROVE  Leaves(seq) \o [c \in 1 .. Full(tensor) |-> Leaf(Place(tensor, c - 1))] =
           Leaves(seq \o ChunksIn(tensor))
<1> DEFINE n == Len(seq)
           full == Full(tensor)
           in == ChunksIn(tensor)
           tail == [c \in 1 .. full |-> Leaf(Place(tensor, c - 1))]
           new == Cat(seq, in)
           left == Cat(Leaves(seq), tail)
           right == Leaves(new)
<1>1. /\ n \in Nat /\ IsList(seq, n) /\ full \in Nat /\ IsList(in, full)
      /\ \A c \in 1 .. full : in[c] = Place(tensor, c - 1)
  <2>1. n \in Nat /\ IsList(seq, n)
    BY DEF IsList
  <2> QED BY <2>1, ChunksInOf, FullOf
<1>2. IsList(tail, full) /\ \A c \in 1 .. full : tail[c] = Leaf(Place(tensor, c - 1))
  BY <1>1 DEF IsList
<1> HIDE DEF n, full, in, tail
<1>3. /\ IsList(Leaves(seq), n)
      /\ \A i \in 1 .. n : Leaves(seq)[i] = Leaf(seq[i])
  BY <1>1, LeavesOf
<1>4. Joined(new, seq, n, in, full)
  <2> HIDE DEF new
  <2>1. new = Cat(seq, in)
    BY DEF new
  <2> QED BY <1>1, <2>1, CatOf
<1>5. Joined(left, Leaves(seq), n, tail, full)
  <2> HIDE DEF left
  <2>1. left = Cat(Leaves(seq), tail)
    BY DEF left
  <2> QED BY <1>2, <1>3, <2>1, CatOf
<1> HIDE DEF new, left
<1>6. /\ IsList(right, n + full)
      /\ \A i \in 1 .. n + full : right[i] = Leaf(new[i])
  BY <1>4, LeavesOf DEF Joined
<1> HIDE DEF right
<1>7. ASSUME NEW i \in 1 .. n + full PROVE left[i] = right[i]
  <2>1. CASE i <= n
    <3>1. i \in 1 .. n
      BY <2>1, <1>1
    <3> QED BY <3>1, <1>3, <1>4, <1>5, <1>6 DEF Joined
  <2>2. CASE i > n
    <3>1. i \in n + 1 .. n + full /\ i - n \in 1 .. full
      BY <2>2, <1>1
    <3>2. new[i] = in[i - n] /\ left[i] = tail[i - n]
      BY <3>1, <1>4, <1>5 DEF Joined
    <3>3. tail[i - n] = Leaf(Place(tensor, (i - n) - 1)) /\ in[i - n] = Place(tensor, (i - n) - 1)
      BY <3>1, <1>1, <1>2
    <3>4. right[i] = Leaf(new[i])
      BY <1>6
    <3> QED BY <3>2, <3>3, <3>4
  <2> QED BY <2>1, <2>2, <1>1
<1>8. left = right
  <2>1. left = [i \in 1 .. n + full |-> left[i]] /\ right = [i \in 1 .. n + full |-> right[i]]
    BY <1>5, <1>6 DEF Joined, IsList
  <2> QED BY <2>1, <1>7
<1> QED BY <1>8 DEF left, right, new, Cat, tail, in, full

LEMMA BeginBuildInv ==
  ASSUME IndexInv, BeginBuild
  PROVE  IndexInv'
<1>1. /\ phase' = "leaves" /\ read' = 0 /\ chunks' = 0 /\ table' = <<>> /\ tree' = <<>>
      /\ weights' = weights /\ weights \in Layouts /\ gather' = gather /\ gather = None
  BY DEF BeginBuild, IndexInv
<1>2. ReadSoFar' = <<>>
  BY <1>1, ChunksOfDef DEF ReadSoFar
<1>3. TableRight'
  <2>1. Len(weights) \in Nat /\ Len(<<>>) = 0
    BY <1>1, CanonicalFacts
  <2> QED BY <1>1, <1>2, <2>1, EmptyTable DEF TableRight
<1>4. Leaves(<<>>) = <<>>
  <2>1. IsList(<<>>, 0)
    BY DEF IsList
  <2>2. IsList(Leaves(<<>>), 0)
    BY <2>1, LeavesOf
  <2> QED BY <2>2 DEF IsList
<1> QED BY <1>1, <1>2, <1>3, <1>4 DEF IndexInv

LEMMA ReadTensorInv ==
  ASSUME IndexInv, ReadTensor
  PROVE  IndexInv'
<1> DEFINE tensor == weights[read + 1]
           seq == ReadSoFar
           more == [c \in 1 .. Full(tensor) |-> Leaf(Place(tensor, c - 1))]
<1>1. /\ phase = "leaves" /\ phase' = phase /\ read' = read + 1 /\ weights' = weights
      /\ weights \in Layouts /\ TableRight /\ tree = Leaves(ReadSoFar)
      /\ chunks' = chunks + Full(tensor) /\ tree' = tree \o more /\ gather' = gather
      /\ gather = None
      /\ table' = IF Full(tensor) > 0
                  THEN Append(table, [start |-> chunks, at |-> tensor.at]) ELSE table
  BY DEF ReadTensor, IndexInv
<1>2. /\ Len(weights) \in Nat /\ read \in 0 .. Len(weights) - 1 /\ read + 1 \in 1 .. Len(weights)
      /\ read + 1 \in 0 .. Len(weights)
  <2>1. read < Len(weights) /\ read \in 0 .. Len(weights)
    BY <1>1 DEF ReadTensor, TableRight
  <2>2. Len(weights) \in Nat
    BY <1>1, CanonicalFacts
  <2> QED BY <2>1, <2>2
<1>3. tensor \in Tensor
  BY <1>1, <1>2, CanonicalFacts
<1>4. seq \in Seq(Nat) /\ chunks = Len(seq) /\ IsTable(table, seq)
  BY <1>1, CanonicalFacts DEF TableRight
<1>5. ReadSoFar' = seq \o ChunksIn(tensor)
  <2>1. (read + 1) - 1 = read
    BY <1>2
  <2> QED BY <1>1, <1>2, <2>1, ChunksOfDef DEF ReadSoFar
<1> HIDE DEF seq, tensor
<1>6. IsTable(table', seq \o ChunksIn(tensor))
  BY <1>1, <1>3, <1>4, MoreTable
<1>7. Len(seq \o ChunksIn(tensor)) = chunks'
  <2>1. ChunksIn(tensor) \in Seq(Nat) /\ Len(ChunksIn(tensor)) = Full(tensor)
    BY <1>3, ChunksInOf
  <2> DEFINE in == ChunksIn(tensor)
  <2>2. in \in Seq(Nat) /\ seq \in Seq(Nat)
    BY <2>1, <1>4
  <2> HIDE DEF in
  <2>3. Len(seq \o in) = Len(seq) + Len(in)
    BY <2>2
  <2>4. Len(in) = Full(tensor)
    BY <2>1 DEF in
  <2>5. chunks' = chunks + Full(tensor)
    BY <1>1
  <2> QED BY <2>3, <2>4, <2>5, <1>4 DEF in
<1>8. TableRight'
  BY <1>1, <1>2, <1>5, <1>6, <1>7 DEF TableRight
<1>9. tree' = Leaves(ReadSoFar')
  <2>1. tree = Leaves(seq)
    BY <1>1 DEF seq
  <2> QED BY <2>1, <1>1, <1>3, <1>4, <1>5, LeavesMore
<1> QED BY <1>1, <1>8, <1>9 DEF IndexInv

LEMMA EndLeavesInv ==
  ASSUME IndexInv, EndLeaves
  PROVE  IndexInv'
<1> DEFINE first == [from |-> 0, count |-> chunks]
           leaves == Leaves(CanonicalChunks)
<1>1. /\ phase = "leaves" /\ phase' = "levels" /\ weights' = weights /\ read' = read
      /\ chunks' = chunks /\ table' = table /\ tree' = tree /\ levels' = <<first>>
      /\ read = Len(weights) /\ chunks > 0 /\ gather' = gather /\ gather = None
      /\ weights \in Layouts /\ TableRight /\ tree = Leaves(ReadSoFar)
  BY DEF EndLeaves, IndexInv
<1>2. ReadSoFar = CanonicalChunks /\ chunks = Len(CanonicalChunks) /\ chunks \in Nat
  BY <1>1, CanonicalFacts DEF TableRight
<1>3. TableRight'
  BY <1>1 DEF TableRight, ReadSoFar
<1>4. tree = leaves /\ IsList(leaves, chunks) /\ Len(leaves) = chunks
  BY <1>1, <1>2, CanonicalFacts, LeavesOf
<1>5. CanonicalChunks' = CanonicalChunks
  BY <1>1 DEF CanonicalChunks
<1> HIDE DEF leaves
<1>6. first.from = 0 /\ first.count = chunks
  OBVIOUS
<1> HIDE DEF first
<1>7. IsList(<<first>>, 1) /\ Len(<<first>>) = 1 /\ <<first>>[1] = first
  BY DEF IsList
<1>8. Extents'
  <2>1. /\ IsList(tree', Len(tree')) /\ IsList(levels', Len(levels')) /\ Len(levels') = 1
        /\ Len(tree') = chunks
    BY <1>1, <1>4, <1>7
  <2>2. ASSUME NEW l \in 1 .. Len(levels')
        PROVE  /\ levels'[l].from \in Nat /\ levels'[l].count \in Nat
               /\ levels'[l].from + levels'[l].count <= Len(tree')
    <3>1. levels'[l] = first
      BY <1>1, <1>7, <2>1
    <3> QED BY <3>1, <1>2, <1>6, <2>1
  <2>3. levels'[Len(levels')].from + levels'[Len(levels')].count = Len(tree')
    BY <1>1, <1>2, <1>6, <1>7, <2>1
  <2> QED BY <2>1, <2>2, <2>3 DEF Extents
<1>9. Halving(DiskTree', leaves)
  <2> DEFINE L == DiskTree'
  <2>1. L = [l \in 1 .. 1 |-> [j \in 1 .. levels'[l].count |-> tree'[levels'[l].from + j]]]
    BY <1>1, <1>7 DEF DiskTree, NodesAt
  <2>2. [j \in 1 .. chunks |-> tree'[0 + j]] = leaves
    <3>1. leaves = [j \in 1 .. chunks |-> leaves[j]]
      BY <1>4 DEF IsList
    <3>2. \A j \in 1 .. chunks : 0 + j = j
      BY <1>2
    <3> QED BY <3>1, <3>2, <1>1, <1>4
  <2>3. levels'[1] = first
    BY <1>1, <1>7
  <2> HIDE DEF L
  <2>4. L[1] = leaves
    BY <2>1, <2>2, <2>3, <1>6
  <2>5. IsList(L, 1) /\ Len(L) = 1
    <3>1. IsList(L, 1)
      BY <2>1 DEF IsList
    <3> QED BY <3>1, LenOf
  <2>6. Halving(L, leaves)
    BY <2>4, <2>5, <1>1, <1>2, <1>4 DEF Halving
  <2> QED BY <2>6 DEF L
<1>10. LevelsRight'
  BY <1>1, <1>5, <1>8, <1>9 DEF LevelsRight, leaves
<1> QED BY <1>1, <1>3, <1>10 DEF IndexInv

(* A level written behind the last one keeps the file a tree. *)
LEMMA ReduceLevelInv ==
  ASSUME IndexInv, ReduceLevel
  PROVE  IndexInv'
<1> DEFINE k == Len(levels)
           level == levels[k]
           c == level.count
           leaves == Leaves(CanonicalChunks)
           L == DiskTree
           next == Reduce(SubSeq(tree, level.from + 1, level.from + level.count))
           m == (c + 1) \div 2
           n == Len(tree)
           entry == [from |-> level.from + level.count, count |-> Len(next)]
<1>1. /\ phase = "levels" /\ phase' = phase /\ weights' = weights /\ read' = read
      /\ chunks' = chunks /\ table' = table /\ gather' = gather /\ gather = None
      /\ weights \in Layouts /\ TableRight /\ LevelsRight
  BY DEF ReduceLevel, IndexInv
<1>2. /\ read = Len(weights) /\ chunks > 0 /\ Halving(L, leaves)
      /\ IsList(tree, n) /\ IsList(levels, k) /\ k >= 1
      /\ \A l \in 1 .. k :
           /\ levels[l].from \in Nat /\ levels[l].count \in Nat
           /\ levels[l].from + levels[l].count <= n
      /\ level.from + c = n
  BY <1>1 DEF LevelsRight, Extents
<1>3. k \in Nat /\ n \in Nat /\ k \in 1 .. k /\ level.from \in Nat /\ c \in Nat
  <2>1. k \in Nat /\ n \in Nat
    BY <1>2 DEF IsList
  <2>2. k \in 1 .. k
    BY <1>2, <2>1
  <2> QED BY <1>2, <2>1, <2>2
<1>4. c > 1 /\ tree' = tree \o next /\ levels' = Append(levels, entry)
  BY DEF ReduceLevel, Last
<1>5. TableRight'
  BY <1>1 DEF TableRight, ReadSoFar
<1>6. CanonicalChunks' = CanonicalChunks
  BY <1>1 DEF CanonicalChunks
<1>7. L = [l \in 1 .. k |-> NodesAt(l)] /\ Len(L) = k /\ Last(L) = NodesAt(k)
  <2>1. L = [l \in 1 .. k |-> NodesAt(l)]
    BY DEF DiskTree
  <2> HIDE DEF L
  <2>2. IsList(L, k)
    BY <1>3, <2>1 DEF IsList
  <2>3. Len(L) = k
    BY <2>2, LenOf
  <2>4. L[k] = NodesAt(k)
    BY <1>3, <2>1
  <2> QED BY <2>1, <2>3, <2>4 DEF Last
<1>8. NodesAt(k) = [j \in 1 .. c |-> tree[level.from + j]]
  BY DEF NodesAt
<1>9. IsList(NodesAt(k), c) /\ Len(NodesAt(k)) = c
  <2>1. IsList(NodesAt(k), c)
    BY <1>3, <1>8 DEF IsList
  <2> QED BY <2>1, LenOf
<1>10. next = Reduce(Last(L))
  <2>1. SubSeq(tree, level.from + 1, level.from + c) = [j \in 1 .. c |-> tree[level.from + j]]
    <3> HIDE DEF c, level, n
    <3>1. level.from + c <= n
      BY <1>2, <1>3
    <3>2. SubSeq(tree, level.from + 1, level.from + c) = Slice(tree, level.from, c)
      BY <1>2, <1>3, <3>1, SubSeqOf
    <3> QED BY <3>2 DEF Slice
  <2> QED BY <2>1, <1>7, <1>8
<1> HIDE DEF next, L, leaves
<1>11. IsList(next, m) /\ Len(next) = m /\ m \in Nat
  <2> DEFINE v == NodesAt(k)
  <2>1. IsList(v, c)
    BY <1>9
  <2>2. next = Reduce(v)
    BY <1>7, <1>10
  <2> HIDE DEF v, c
  <2>3. IsList(next, m)
    BY <2>1, <2>2, ReduceOf
  <2> QED BY <2>3, LenOf DEF IsList
<1> HIDE DEF m
<1>12. Halving(Append(L, next), leaves)
  BY <1>2, <1>4, <1>7, <1>9, <1>10, HalvingGrows
<1>13. Joined(tree', tree, n, next, m)
  <2>1. tree' = Cat(tree, next)
    BY <1>4 DEF Cat
  <2> HIDE DEF n
  <2> QED BY <1>2, <1>11, <2>1, CatOf
<1>14. entry.from = n /\ entry.count = m
  BY <1>2, <1>11
<1> HIDE DEF entry, n, level, c, k
<1>15. /\ IsList(levels', k + 1) /\ Len(levels') = k + 1 /\ levels'[k + 1] = entry
       /\ \A l \in 1 .. k : levels'[l] = levels[l]
  <2>1. /\ IsList(levels', k + 1) /\ levels'[k + 1] = entry
        /\ \A l \in 1 .. k : levels'[l] = levels[l]
    <3>1. Added(levels', levels, k, entry)
      BY <1>2, <1>4, AppendOf
    <3> QED BY <3>1 DEF Added
  <2> QED BY <2>1, LenOf
<1>16. IsList(tree', n + m) /\ Len(tree') = n + m
  BY <1>13, LenOf DEF Joined
<1>17. Extents'
  <2>1. IsList(tree', Len(tree')) /\ IsList(levels', Len(levels')) /\ Len(levels') >= 1
    BY <1>2, <1>3, <1>15, <1>16
  <2>2. ASSUME NEW l \in 1 .. Len(levels')
        PROVE  /\ levels'[l].from \in Nat /\ levels'[l].count \in Nat
               /\ levels'[l].from + levels'[l].count <= Len(tree')
    <3>1. CASE l = k + 1
      <4>1. levels'[l].from = n /\ levels'[l].count = m
        BY <3>1, <1>14, <1>15
      <4> QED BY <4>1, <1>3, <1>11, <1>16
    <3>2. CASE l # k + 1
      <4>1. l \in 1 .. k
        BY <3>2, <1>3, <1>15
      <4>2. levels'[l] = levels[l]
        BY <4>1, <1>15
      <4>3. levels[l].from \in Nat /\ levels[l].count \in Nat /\ levels[l].from + levels[l].count <= n
        BY <4>1, <1>2
      <4> QED BY <4>2, <4>3, <1>3, <1>11, <1>16
    <3> QED BY <3>1, <3>2
  <2>3. levels'[Len(levels')].from + levels'[Len(levels')].count = Len(tree')
    BY <1>14, <1>15, <1>16
  <2> QED BY <2>1, <2>2, <2>3 DEF Extents
<1>18. DiskTree' = Append(L, next)
  <2> DEFINE after(l) == [j \in 1 .. levels'[l].count |-> tree'[levels'[l].from + j]]
             A == Append(L, next)
  <2>1. DiskTree' = [l \in 1 .. k + 1 |-> after(l)]
    BY <1>15 DEF DiskTree, NodesAt
  <2>2. /\ IsList(A, k + 1) /\ A[k + 1] = next
        /\ \A l \in 1 .. k : A[l] = L[l]
    <3>1. IsList(L, k)
      BY <1>2, <1>7 DEF Halving
    <3>2. Added(A, L, k, next)
      BY <3>1, AppendOf
    <3> HIDE DEF A
    <3> QED BY <3>2 DEF Added
  <2> HIDE DEF A
  <2>3. ASSUME NEW l \in 1 .. k + 1 PROVE after(l) = A[l]
    <3>1. CASE l = k + 1
      <4>1. after(l) = [j \in 1 .. m |-> tree'[n + j]]
        BY <3>1, <1>14, <1>15
      <4>2. \A j \in 1 .. m : tree'[n + j] = next[j]
        BY <1>13 DEF Joined
      <4>3. next = [j \in 1 .. m |-> next[j]]
        BY <1>11 DEF IsList
      <4> QED BY <3>1, <4>1, <4>2, <4>3, <2>2
    <3>2. CASE l # k + 1
      <4>1. l \in 1 .. k
        BY <3>2, <1>3
      <4>2. /\ levels'[l] = levels[l] /\ levels[l].from \in Nat /\ levels[l].count \in Nat
            /\ levels[l].from + levels[l].count <= n
        BY <4>1, <1>2, <1>15
      <4>3. \A j \in 1 .. levels[l].count : levels[l].from + j \in 1 .. n
        BY <4>2, <1>3
      <4>4. \A j \in 1 .. levels[l].count : tree'[levels[l].from + j] = tree[levels[l].from + j]
        BY <4>3, <1>13 DEF Joined
      <4>5. after(l) = NodesAt(l)
        BY <4>2, <4>4 DEF NodesAt
      <4>6. A[l] = NodesAt(l)
        BY <4>1, <2>2, <1>7
      <4> QED BY <4>5, <4>6
    <3> QED BY <3>1, <3>2
  <2>4. A = [l \in 1 .. k + 1 |-> A[l]]
    BY <2>2 DEF IsList
  <2> HIDE DEF after
  <2> QED BY <2>1, <2>3, <2>4 DEF A
<1>19. LevelsRight'
  BY <1>1, <1>2, <1>6, <1>12, <1>17, <1>18 DEF LevelsRight, leaves
<1> QED BY <1>1, <1>5, <1>19 DEF IndexInv

(* What only changes the phase or the layout on the GPU. *)
LEMMA SameFiles ==
  ASSUME weights' = weights, read' = read, chunks' = chunks, table' = table,
         tree' = tree, levels' = levels
  PROVE  /\ TableRight => TableRight'
         /\ LevelsRight => LevelsRight'
         /\ levels[Len(levels)].count = 1 => (levels[Len(levels)].count = 1)'
<1>1. TableRight => TableRight'
  BY DEF TableRight, ReadSoFar
<1>2. LevelsRight => LevelsRight'
  <2>1. DiskTree' = DiskTree
    BY DEF DiskTree, NodesAt
  <2>2. CanonicalChunks' = CanonicalChunks
    BY DEF CanonicalChunks
  <2>3. Extents => Extents'
    BY DEF Extents
  <2> QED BY <2>1, <2>2, <2>3 DEF LevelsRight
<1> QED BY <1>1, <1>2

LEMMA EndBuildInv ==
  ASSUME IndexInv, EndBuild
  PROVE  IndexInv'
<1>1. /\ phase = "levels" /\ phase' = "ready" /\ levels' = levels /\ levels[Len(levels)].count = 1
      /\ weights \in Layouts /\ TableRight /\ LevelsRight /\ weights' = weights
      /\ gather' = gather /\ gather = None
  BY DEF EndBuild, IndexInv, Last
<1>2. TableRight' /\ LevelsRight'
  BY <1>1, SameFiles DEF EndBuild
<1> QED BY <1>1, <1>2 DEF IndexInv

LEMMA BuildFailsInv ==
  ASSUME IndexInv, BuildFails
  PROVE  IndexInv'
<1>1. /\ weights \in Layouts /\ weights' = weights /\ phase' = "none" /\ TableRight
      /\ gather' = gather /\ gather = None
  BY DEF BuildFails, IndexInv
<1>2. TableRight'
  BY <1>1, SameFiles DEF BuildFails
<1> QED BY <1>1, <1>2 DEF IndexInv

LEMMA InstallInv ==
  ASSUME IndexInv, Install \/ Uninstall
  PROVE  IndexInv'
<1>1. /\ phase \in {"ready", "installed"} /\ phase' \in {"ready", "installed"}
      /\ weights \in Layouts /\ weights' = weights /\ levels' = levels
      /\ levels[Len(levels)].count = 1 /\ TableRight /\ LevelsRight
  BY DEF Install, Uninstall, IndexInv
<1>2. TableRight' /\ LevelsRight'
  BY <1>1, SameFiles DEF Install, Uninstall
<1>3. IF phase' = "installed" THEN gather' = LayoutOf(weights') ELSE gather' = None
  BY <1>1 DEF Install, Uninstall, Gather
<1> QED BY <1>1, <1>2, <1>3 DEF IndexInv

(* ... and is preserved by every step: the index, *)
LEMMA IndexStep ==
  ASSUME IndexInv, [Next]_vars
  PROVE  IndexInv'
<1>1. CASE BeginBuild
  BY <1>1, BeginBuildInv
<1>2. CASE ReadTensor
  BY <1>2, ReadTensorInv
<1>3. CASE EndLeaves
  BY <1>3, EndLeavesInv
<1>4. CASE ReduceLevel
  BY <1>4, ReduceLevelInv
<1>5. CASE EndBuild
  BY <1>5, EndBuildInv
<1>6. CASE BuildFails
  BY <1>6, BuildFailsInv
<1>7. CASE Install \/ Uninstall
  BY <1>7, InstallInv
<1>8. ASSUME NEW r \in Recips, SetDifficulty(r) PROVE IndexInv'
  BY <1>8, IndexSame DEF SetDifficulty
<1>9. ASSUME NEW bits \in Compacts, NEW daa \in Scores,
             FullBlock(bits, daa) \/ PartialBlock(bits, daa)
      PROVE  IndexInv'
  BY <1>9, IndexSame DEF FullBlock, PartialBlock, NewRound
<1>10. CASE GpuMine
  BY <1>10, IndexSame DEF GpuMine
<1>11. CASE Rewalk
  BY <1>11, IndexSame DEF Rewalk
<1>12. ASSUME NEW nonce \in Nonces, CpuPossession(nonce) \/ CpuHeavyHash(nonce) PROVE IndexInv'
  BY <1>12, IndexSame DEF CpuPossession, CpuHeavyHash
<1>13. CASE UNCHANGED vars
  BY <1>13, IndexSame DEF vars
<1> QED BY <1>1, <1>2, <1>3, <1>4, <1>5, <1>6, <1>7, <1>8, <1>9, <1>10, <1>11, <1>12, <1>13
        DEF Next

(* the pool's target, *)
LEMMA PoolStep ==
  ASSUME PoolInv, [Next]_vars
  PROVE  PoolInv'
<1>1. CASE pool' = pool
  BY <1>1 DEF pool, PoolInv
<1>2. ASSUME NEW r \in Recips, SetDifficulty(r) PROVE PoolInv'
  <2>1. CASE TooBig(r)
    <3>1. recip' = None /\ poolTarget' = FromU64(0)
      BY <1>2, <2>1 DEF SetDifficulty
    <3> QED BY <3>1, Zero256 DEF PoolInv
  <2>2. CASE ~ TooBig(r)
    <3>1. recip' = r /\ poolTarget' = TargetOf(r) /\ ~ OutOfBounds(r)
      BY <1>2, <2>2 DEF SetDifficulty
    <3> QED BY <2>2, <3>1, TargetOfType DEF PoolInv
  <2> QED BY <2>1, <2>2
<1>3. (\E r \in Recips : SetDifficulty(r)) \/ pool' = pool
  BY DEF Next, vars, pool, BeginBuild, ReadTensor, EndLeaves, ReduceLevel, EndBuild, BuildFails,
         Install, Uninstall, FullBlock, PartialBlock, NewRound, GpuMine, Rewalk, CpuPossession,
         CpuHeavyHash
<1> QED BY <1>1, <1>2, <1>3

(* the job, *)
LEMMA JobStep ==
  ASSUME PoolInv, JobInv, [Next]_vars
  PROVE  JobInv'
<1>1. CASE job' = job
  BY <1>1 DEF JobInv
<1>2. ASSUME NEW bits \in Compacts, NEW daa \in Scores, FullBlock(bits, daa)
      PROVE  JobInv'
  <2>1. job' = [pool |-> FALSE, header |-> Header(bits, daa), target |-> FromCompact(bits)]
    BY <1>2 DEF FullBlock
  <2>2. job'.header = Header(bits, daa) /\ job'.target = FromCompact(bits)
    BY <2>1
  <2>3. job'.header.bits = bits
    BY <2>2 DEF Header
  <2>4. FromCompact(bits) \in Uint256
    BY FromCompactExact
  <2> QED BY <2>2, <2>3, <2>4 DEF JobInv
<1>3. ASSUME NEW bits \in Compacts, NEW daa \in Scores, PartialBlock(bits, daa)
      PROVE  JobInv'
  <2>1. job' = [pool |-> TRUE, header |-> Header(bits, daa), target |-> poolTarget]
    BY <1>3 DEF PartialBlock
  <2>2. job'.pool = TRUE /\ job'.header = Header(bits, daa) /\ job'.target = poolTarget
    BY <2>1
  <2> QED BY <2>2 DEF JobInv, PoolInv
<1>4. \/ job' = job
      \/ \E bits \in Compacts, daa \in Scores : FullBlock(bits, daa) \/ PartialBlock(bits, daa)
  BY DEF Next, vars, BeginBuild, ReadTensor, EndLeaves, ReduceLevel, EndBuild, BuildFails,
         Install, Uninstall, SetDifficulty, GpuMine, Rewalk, CpuPossession, CpuHeavyHash
<1> QED BY <1>1, <1>2, <1>3, <1>4

LEMMA GpuMineInv ==
  ASSUME IndexInv, JobInv, GpuMine
  PROVE  CandidateInv'
<1> DEFINE n == candidate'
<1>1. /\ phase = "installed" /\ job # None /\ job.header.daa >= PomActivation
      /\ weights' = weights /\ job' = job
  BY DEF GpuMine
<1>2. n \in Winners
  <2> DEFINE winners == Winners
  <2>1. winners \in SUBSET Nat /\ winners # {}
    BY PossessionAssumption DEF GpuMine, Winners
  <2>2. n = CHOOSE w \in winners : \A m \in winners : w <= m
    BY DEF GpuMine
  <2> HIDE DEF winners
  <2>3. \E w \in winners : \A m \in winners : w <= m
    BY <2>1, Least
  <2>4. n \in winners
    BY <2>2, <2>3
  <2> QED BY <2>4 DEF winners
<1>3. n \in Nonces /\ Leq(PowValue(Last(GpuTrace(n)), job.header), job.target)
  BY <1>2 DEF Winners
<1> HIDE DEF n
<1>4. GpuTrace(n) = CanonicalTrace(n)
  BY <1>1, GpuWalks
<1>5. weights \in Layouts /\ Len(CanonicalChunks) > 0
  BY <1>1, Finished
<1>6. PowValue(Last(CanonicalTrace(n)), job.header) \in Uint256
  BY <1>1, <1>3, <1>5, CanonicalWalk
<1>7. job.target \in Uint256
  BY <1>1 DEF JobInv
<1>8. LeLeq(PowValue(Last(CanonicalTrace(n)), job.header), job.target)
  BY <1>3, <1>4, <1>6, <1>7, LeqBytes
<1>9. CanonicalChunks' = CanonicalChunks
  BY <1>1 DEF CanonicalChunks
<1>10. CandidateInv' <=>
         (n # None =>
            /\ job' # None /\ job'.header.daa >= PomActivation /\ n \in Nonces
            /\ Len(CanonicalChunks') > 0
            /\ LeLeq(PowValue(Last(CanonicalTrace(n)), job'.header), job'.target))
  BY <1>1, <1>9 DEF CandidateInv, CanonicalTrace, n
<1> QED BY <1>1, <1>3, <1>5, <1>8, <1>9, <1>10

(* the candidate, *)
LEMMA CandidateStep ==
  ASSUME IndexInv, JobInv, CandidateInv, [Next]_vars
  PROVE  CandidateInv'
<1>1. CASE weights' = weights /\ job' = job /\ candidate' = candidate
  BY <1>1 DEF CandidateInv, CanonicalTrace, CanonicalChunks
<1>2. CASE candidate' = None
  BY <1>2 DEF CandidateInv
<1>3. CASE GpuMine
  BY <1>3, GpuMineInv
<1>4. \/ weights' = weights /\ job' = job /\ candidate' = candidate
      \/ candidate' = None
      \/ GpuMine
  BY DEF Next, vars, BeginBuild, ReadTensor, EndLeaves, ReduceLevel, EndBuild, BuildFails,
         Install, Uninstall, SetDifficulty, FullBlock, PartialBlock, NewRound, Rewalk,
         CpuPossession, CpuHeavyHash
<1> QED BY <1>1, <1>2, <1>3, <1>4

--------------------------------------------------------------------------------
(* Blocks. *)

(* What is submitted differs from the job in nonce and final state only. *)
LEMMA SubmittedHeader ==
  ASSUME JobInv, job # None
  PROVE  /\ SameJob(Submitted, block.nonce)
         /\ Submitted.pomFinalState =
              IF job.pool /\ H3(job.header) THEN block.proof.finalState ELSE block.pomFinalState
<1> DEFINE final == IF job.pool /\ H3(job.header) THEN block.proof.finalState
                    ELSE block.pomFinalState
           header == job.header
<1>1. PICK bits \in Compacts, daa \in Scores :
        header = [bits |-> bits, daa |-> daa, time |-> 1, nonce |-> 0, pomFinalState |-> 0]
  BY DEF JobInv, Header
<1>2. Submitted = [header EXCEPT !.nonce = block.nonce, !.pomFinalState = final]
  BY DEF Submitted
<1> HIDE DEF final, header
<1>3. /\ Submitted.bits = header.bits /\ Submitted.daa = header.daa
      /\ Submitted.time = header.time /\ Submitted.nonce = block.nonce
      /\ Submitted.pomFinalState = final
  BY <1>1, <1>2
<1> QED BY <1>3 DEF SameJob, final, header

LEMMA ScoreIsNat ==
  ASSUME JobInv, job # None
  PROVE  job.header.daa \in Nat /\ PomActivation \in Nat
<1>1. PICK bits \in Compacts, daa \in Scores : job.header = Header(bits, daa)
  BY DEF JobInv
<1> QED BY <1>1, PossessionAssumption DEF Header

LEMMA BlockSame ==
  ASSUME BlocksAreValid, weights' = weights, job' = job, block' = block, asked' = asked
  PROVE  BlocksAreValid'
<1>1. Submitted' = Submitted
  BY DEF Submitted
<1>2. CanonicalChunks' = CanonicalChunks
  BY DEF CanonicalChunks
<1>3. PinnedRoot' = PinnedRoot
  BY <1>2 DEF PinnedRoot
<1>4. VerifyProof(Submitted, block.proof, job.target)' = VerifyProof(Submitted, block.proof, job.target)
  BY <1>1, <1>2, <1>3 DEF VerifyProof, Draw, OpeningHolds
<1> QED BY <1>1, <1>4 DEF BlocksAreValid

(* A block generated from a walk is valid. *)
LEMMA GenerateInv ==
  ASSUME IndexInv, phase \in {"ready", "installed"}, JobInv, job # None,
         job.header.daa >= PomActivation, BlocksAreValid,
         NEW nonce \in Nonces, Generate(nonce), weights' = weights, job' = job
  PROVE  BlocksAreValid'
<1> DEFINE trace == HostTrace(nonce)
<1>1. CASE ~ LeLeq(PowValue(Last(trace), job.header), job.target)
  <2>1. block' = block /\ asked' = asked
    BY <1>1 DEF Generate
  <2> QED BY <2>1, BlockSame
<1>2. CASE LeLeq(PowValue(Last(trace), job.header), job.target)
  <2>1. PICK drawn \in Draws :
          LET proof == BuildProof(trace, drawn)
          IN /\ block' = [nonce |-> nonce, pomFinalState |-> FinalState(trace), proof |-> proof]
             /\ asked' = [of |-> Question(job.header, nonce, proof.traceRoot, proof.powValue),
                          drawn |-> drawn]
    BY <1>2 DEF Generate
  <2> DEFINE proof == BuildProof(trace, drawn)
             header == Submitted'
             question == Question(job.header, nonce, proof.traceRoot, proof.powValue)
  <2>2. /\ block'.nonce = nonce /\ block'.proof = proof
        /\ block'.pomFinalState = FinalState(trace)
        /\ asked'.of = question /\ asked'.drawn = drawn
    BY <2>1
  <2>3. JobInv' /\ (job # None)'
    BY DEF JobInv
  <2>4. /\ SameJob(header, nonce)
        /\ header.pomFinalState =
             IF job.pool /\ H3(job.header) THEN proof.finalState ELSE FinalState(trace)
    <3>1. /\ SameJob(Submitted, block.nonce)'
          /\ (Submitted.pomFinalState =
               IF job.pool /\ H3(job.header) THEN block.proof.finalState
               ELSE block.pomFinalState)'
      BY <2>3, SubmittedHeader, PTL
    <3> QED BY <2>2, <3>1 DEF SameJob
  <2> HIDE DEF trace, header, question
  <2>5. /\ Len(proof.openings) = Openings /\ Len(drawn) = Openings
        /\ PowValue(proof.finalState, header) = proof.powValue
        /\ LeLeq(proof.powValue, job.target)
        /\ VerifyMerkle(Leaf(Seed(header, header.nonce)), 0, proof.initialTracePath, proof.traceRoot)
        /\ VerifyMerkle(Leaf(proof.finalState), Steps, proof.finalTracePath, proof.traceRoot)
        /\ \A j \in 1 .. Openings : OpeningHolds(proof.openings[j], drawn[j], proof)
    BY <1>2, <2>4, ProofHolds DEF trace
  <2>6. proof.finalState = Last(trace)
    BY DEF BuildProof
  <2> HIDE DEF proof
  <2>7. Question(header, header.nonce, proof.traceRoot, proof.powValue) = question
    BY <2>4, SameWords DEF Question, question, SameJob
  <2>8. CanonicalChunks' = CanonicalChunks /\ PinnedRoot' = PinnedRoot
    BY DEF CanonicalChunks, PinnedRoot
  <2>9. VerifyProof(Submitted, block.proof, job.target)'
    <3> DEFINE challenges == IF asked'.of = question THEN asked'.drawn ELSE <<>>
    <3>1. challenges = drawn
      BY <2>2
    <3> HIDE DEF challenges
    <3>2. (\A j \in 1 .. Openings : OpeningHolds(block.proof.openings[j], drawn[j], block.proof))'
      BY <2>2, <2>5, <2>8 DEF OpeningHolds
    <3>3. /\ Len(block'.proof.openings) = Openings
          /\ PowValue(block'.proof.finalState, header) = block'.proof.powValue
          /\ LeLeq(block'.proof.powValue, job'.target)
          /\ VerifyMerkle(Leaf(Seed(header, header.nonce)), 0, block'.proof.initialTracePath,
                          block'.proof.traceRoot)
          /\ VerifyMerkle(Leaf(block'.proof.finalState), Steps, block'.proof.finalTracePath,
                          block'.proof.traceRoot)
      BY <2>2, <2>5
    <3>4. challenges =
            Draw(Question(Submitted, Submitted.nonce, block.proof.traceRoot, block.proof.powValue))'
      BY <2>2, <2>7 DEF Draw, challenges, header
    <3> QED BY <2>5, <3>1, <3>2, <3>3, <3>4 DEF VerifyProof, header
  <2>10. (H3(Submitted) => Submitted.pomFinalState = block.proof.finalState)'
    <3>1. H3(header) = H3(job.header)
      BY <2>4, SameWords
    <3>2. H3(job.header) => header.pomFinalState = proof.finalState
      BY <2>4, <2>6 DEF FinalState
    <3> QED BY <2>2, <3>1, <3>2 DEF header
  <2>11. ~ (job'.header.daa < PomActivation)
    BY ScoreIsNat
  <2> QED BY <2>9, <2>10, <2>11 DEF BlocksAreValid
<1> QED BY <1>1, <1>2

LEMMA HeavyHashInv ==
  ASSUME JobInv, NEW nonce \in Nonces, CpuHeavyHash(nonce)
  PROVE  BlocksAreValid'
<1> DEFINE header == Submitted'
<1>1. /\ job # None /\ job.header.daa < PomActivation /\ job' = job
      /\ Leq(HeavyValue(job.header, nonce), job.target)
      /\ block'.nonce = nonce
  BY DEF CpuHeavyHash
<1>2. JobInv' /\ (job # None)'
  BY <1>1 DEF JobInv
<1>3. SameJob(header, nonce)
  <2>1. SameJob(Submitted, block.nonce)'
    BY <1>2, SubmittedHeader, PTL
  <2> QED BY <1>1, <2>1 DEF SameJob
<1> HIDE DEF header
<1>4. HeavyValue(header, nonce) = HeavyValue(job.header, nonce)
  BY <1>3, SameWords
<1>5. HeavyValue(job.header, nonce) \in Uint256 /\ job.target \in Uint256
  BY <1>1, HeaderWords DEF JobInv
<1>6. Value(HeavyValue(header, nonce)) <= Value(job.target)
  BY <1>1, <1>4, <1>5, LeqValue
<1> QED BY <1>1, <1>6 DEF BlocksAreValid, header

(* and the block. *)
LEMMA BlockStep ==
  ASSUME IInv, [Next]_vars
  PROVE  BlocksAreValid'
<1>1. IndexInv /\ JobInv /\ CandidateInv /\ BlocksAreValid
  BY DEF IInv
<1>2. CASE weights' = weights /\ job' = job /\ block' = block /\ asked' = asked
  BY <1>1, <1>2, BlockSame
<1>3. CASE block' = None
  BY <1>3 DEF BlocksAreValid
<1>4. CASE Rewalk
  <2>1. /\ candidate # None /\ phase \in {"ready", "installed"} /\ Generate(candidate)
        /\ weights' = weights /\ job' = job
    BY <1>4 DEF Rewalk
  <2>2. job # None /\ job.header.daa >= PomActivation /\ candidate \in Nonces
    BY <1>1, <2>1 DEF CandidateInv
  <2> QED BY <1>1, <2>1, <2>2, GenerateInv
<1>5. ASSUME NEW nonce \in Nonces, CpuPossession(nonce) PROVE BlocksAreValid'
  <2>1. /\ job # None /\ job.header.daa >= PomActivation /\ phase \in {"ready", "installed"}
        /\ Generate(nonce) /\ weights' = weights /\ job' = job
    BY <1>5 DEF CpuPossession
  <2> QED BY <1>1, <2>1, GenerateInv
<1>6. ASSUME NEW nonce \in Nonces, CpuHeavyHash(nonce) PROVE BlocksAreValid'
  BY <1>1, <1>6, HeavyHashInv
<1>7. \/ weights' = weights /\ job' = job /\ block' = block /\ asked' = asked
      \/ block' = None
      \/ Rewalk
      \/ \E nonce \in Nonces : CpuPossession(nonce) \/ CpuHeavyHash(nonce)
  BY DEF Next, vars, BeginBuild, ReadTensor, EndLeaves, ReduceLevel, EndBuild, BuildFails,
         Install, Uninstall, SetDifficulty, FullBlock, PartialBlock, NewRound, GpuMine
<1> QED BY <1>2, <1>3, <1>4, <1>5, <1>6, <1>7

LEMMA InvStep ==
  IInv /\ [Next]_vars => IInv'
<1> SUFFICES ASSUME IInv, [Next]_vars PROVE IInv'
  OBVIOUS
<1>1. IndexInv /\ PoolInv /\ JobInv /\ CandidateInv
  BY DEF IInv
<1>2. IndexInv'
  BY <1>1, IndexStep
<1>3. PoolInv'
  BY <1>1, PoolStep
<1>4. JobInv'
  BY <1>1, JobStep
<1>5. CandidateInv'
  BY <1>1, CandidateStep
<1>6. BlocksAreValid'
  BY BlockStep
<1> QED BY <1>2, <1>3, <1>4, <1>5, <1>6 DEF IInv

--------------------------------------------------------------------------------
(* The theorems. *)

(* The inductive invariant: the table and the tree on disk are those of    *)
(* the tensors read so far, the finished levels are the Merkle tree of all *)
(* chunks, the layout on the GPU is that of the same file, and targets,    *)
(* candidate and block are what the job says they are.                     *)
THEOREM PossessionInvariant == Spec => []IInv
BY InvInit, InvStep, PTL DEF Spec

(* Every variable keeps its type, whatever the file and the builds of the  *)
(* index and installations on the GPU that were begun and failed.          *)
THEOREM PossessionTypeCorrect == Spec => []TypeOK
<1>1. IInv => TypeOK
  <2> SUFFICES ASSUME IInv PROVE TypeOK
    OBVIOUS
  <2>1. IndexInv /\ PoolInv /\ JobInv /\ CandidateInv
    BY DEF IInv
  <2>2. chunks \in Nat
    <3>1. ReadSoFar \in Seq(Nat) /\ chunks = Len(ReadSoFar)
      BY <2>1, CanonicalFacts DEF IndexInv, TableRight
    <3> QED BY <3>1
  <2> QED BY <2>1, <2>2 DEF TypeOK, IndexInv, TableRight, PoolInv, JobInv, CandidateInv
<1> QED BY <1>1, PossessionInvariant, PTL

(* TargetsAreExact, of FromCompact and TargetOf for words and bytes of any *)
(* width and any bits and difficulty that fit in 256 bits.                 *)
THEOREM TargetsExact == Spec => []TargetsAreExact
<1>1. IInv => TargetsAreExact
  <2> SUFFICES ASSUME IInv PROVE TargetsAreExact
    OBVIOUS
  <2>1. JobInv /\ PoolInv
    BY DEF IInv
  <2>2. ASSUME job # None, ~ job.pool PROVE Value(job.target) = NumberOf(job.header.bits)
    <3>1. PICK bits \in Compacts, daa \in Scores : job.header = Header(bits, daa)
      BY <2>1, <2>2 DEF JobInv
    <3>2. job.header.bits = bits /\ job.target = FromCompact(bits)
      BY <2>1, <2>2, <3>1 DEF JobInv, Header
    <3> QED BY <3>2, FromCompactExact
  <2>3. ASSUME recip # None, Exponent(recip) > 2 * WordBits
        PROVE  Value(poolTarget) = Mantissa(recip) * Pow2[Exponent(recip)]
    <3>1. /\ recip \in Recips /\ ~ OutOfBounds(recip) /\ ~ TooBig(recip)
          /\ poolTarget = TargetOf(recip)
      BY <2>1, <2>3 DEF PoolInv
    <3> QED BY <2>3, <3>1, TargetOfExact
  <2> QED BY <2>2, <2>3 DEF TargetsAreExact
<1> QED BY <1>1, PossessionInvariant, PTL

(* CandidatesAreConfirmed: the kernel's layout, search and comparison by   *)
(* words give what the host's table and comparison by bytes give.          *)
THEOREM CandidatesConfirmed == Spec => []CandidatesAreConfirmed
<1>1. IInv => CandidatesAreConfirmed
  BY HostWalks DEF IInv, CandidateInv, CandidatesAreConfirmed
<1> QED BY <1>1, PossessionInvariant, PTL

(* BlocksAreValid, for every file, length of walk, number of openings and  *)
(* challenges: the node accepts the proof of every block that is built.    *)
THEOREM BlocksValid == Spec => []BlocksAreValid
<1>1. IInv => BlocksAreValid
  BY DEF IInv
<1> QED BY <1>1, PossessionInvariant, PTL

================================================================================
