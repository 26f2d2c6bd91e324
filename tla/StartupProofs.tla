----------------------------- MODULE StartupProofs -----------------------------
(***************************************************************************)
(* Proofs about the start of the miner, for any rigs, file sizes, attempts *)
(* and faults: what is marked is complete, and every GPU of a rig, however *)
(* large, is assigned the model of the highest tier that fits it.          *)
(***************************************************************************)
EXTENDS Startup, FiniteSetTheorems, TLAPS

USE RigsAssumption, FlagsAssumption, BoundsAssumption, NoneAssumption

--------------------------------------------------------------------------------
(* The largest element of a set of numbers.                                *)

LEMMA MaxIs ==
  ASSUME NEW S \in SUBSET Nat, NEW m \in S, \A x \in S : x <= m
  PROVE  Max(S) = m
<1>1. \A x \in S : m >= x
  OBVIOUS
<1>2. \A n \in S : (\A x \in S : n >= x) => n = m
  OBVIOUS
<1> QED BY <1>1, <1>2 DEF Max

Below(S, x) == Cardinality({y \in S : y < x})

(* Every element has its own rank among the first numbers, so that they    *)
(* are all taken: the last rank is that of the largest element.            *)
LEMMA MaxExists ==
  ASSUME NEW S \in SUBSET Nat, IsFiniteSet(S), S # {}
  PROVE  /\ Max(S) \in S
         /\ \A x \in S : x <= Max(S)
<1> DEFINE n == Cardinality(S)
           T == 0 .. n - 1
           f == [x \in S |-> Below(S, x)]
<1>1. n \in Nat /\ n # 0
  BY FS_CardinalityType, FS_EmptySet
<1>2. IsFiniteSet(T) /\ Cardinality(T) = n
  <2> HIDE DEF n
  <2>1. 0 \in Int /\ n - 1 \in Int /\ ~(0 > n - 1) /\ n - 1 - 0 + 1 = n
    BY <1>1
  <2> QED BY <2>1, FS_Interval
<1>3. ASSUME NEW x \in S
      PROVE  /\ IsFiniteSet({y \in S : y < x}) /\ Below(S, x) \in T
             /\ Below(S, x) = n - 1 => {y \in S : y < x} = S \ {x}
  <2>1. {y \in S : y < x} \in SUBSET (S \ {x})
    OBVIOUS
  <2>2. IsFiniteSet(S \ {x}) /\ Cardinality(S \ {x}) = n - 1
    BY FS_RemoveElement
  <2> DEFINE A == {y \in S : y < x}
             B == S \ {x}
  <2>3. Below(S, x) = Cardinality(A)
    BY DEF Below
  <2> HIDE DEF A, B
  <2>4. A \in SUBSET B /\ IsFiniteSet(B) /\ Cardinality(B) = n - 1
    BY <2>1, <2>2 DEF A, B
  <2>5. IsFiniteSet(A) /\ Cardinality(A) <= n - 1 /\ (n - 1 = Cardinality(A) => B = A)
    BY <2>4, FS_Subset
  <2>6. Cardinality(A) \in Nat
    BY <2>5, FS_CardinalityType
  <2> QED BY <1>1, <2>3, <2>5, <2>6 DEF A, B
<1>4. ASSUME NEW x \in S, NEW z \in S, x < z PROVE Below(S, x) # Below(S, z)
  <2> DEFINE A == {y \in S : y < x}
             B == {y \in S : y < z}
  <2>1. A \in SUBSET B /\ A # B
    <3>1. \A y \in S : y < x => y < z
      BY <1>4
    <3>2. x \in B /\ x \notin A
      BY <1>4
    <3> QED BY <3>1, <3>2
  <2>2. IsFiniteSet(B) /\ Below(S, x) = Cardinality(A) /\ Below(S, z) = Cardinality(B)
    BY <1>3 DEF Below
  <2> HIDE DEF A, B
  <2> QED BY <2>1, <2>2, FS_Subset
<1> HIDE DEF n, T
<1>5. f \in Injection(S, T)
  <2>1. f \in [S -> T]
    BY <1>3
  <2>2. \A x, z \in S : f[x] = f[z] => x = z
    <3>1. \A x, z \in S : x < z \/ z < x \/ x = z
      OBVIOUS
    <3> QED BY <1>4, <3>1
  <2> QED BY <2>1, <2>2 DEF Injection, IsInjective
<1>6. f \in Surjection(S, T)
  BY <1>2, <1>5, FS_Injection DEF n
<1>7. n - 1 \in T
  BY <1>1 DEF T
<1>8. PICK m \in S : f[m] = n - 1
  BY <1>6, <1>7 DEF Surjection
<1>9. \A x \in S : x <= m
  <2>1. {y \in S : y < m} = S \ {m}
    BY <1>3, <1>8
  <2>2. \A x \in S : x # m => x < m
    BY <2>1
  <2> QED BY <2>2
<1> QED BY <1>9, MaxIs

--------------------------------------------------------------------------------
(* Tiers and models. *)

LEMMA TierTable ==
  /\ Tiers = {0, 1, 2, 3, 4} /\ Tiers \subseteq Nat
  /\ SpecFor(0) = "Qwen3-1.7B" /\ TierFloor(0) = 2000 /\ MinVram(SpecFor(0)) = 0
  /\ SpecFor(1) = "Gemma-3-4B" /\ TierFloor(1) = 5000 /\ MinVram(SpecFor(1)) = 0
  /\ SpecFor(2) = "Dolphin-8B" /\ TierFloor(2) = 8000 /\ MinVram(SpecFor(2)) = 8000
  /\ SpecFor(3) = "Qwen3-32B" /\ TierFloor(3) = 24000 /\ MinVram(SpecFor(3)) = 24000
  /\ SpecFor(4) = "Llama-70B-Q2" /\ TierFloor(4) = 30000 /\ MinVram(SpecFor(4)) = 30000
<1>1. Tiers = {0, 1, 2, 3, 4} /\ Tiers \subseteq Nat
  BY DEF Tiers
<1>2. SpecFor(0) = "Qwen3-1.7B" /\ TierFloor(0) = 2000
  BY DEF SpecFor, TierFloor
<1>3. SpecFor(1) = "Gemma-3-4B" /\ TierFloor(1) = 5000
  BY DEF SpecFor, TierFloor
<1>4. SpecFor(2) = "Dolphin-8B" /\ TierFloor(2) = 8000
  BY DEF SpecFor, TierFloor
<1>5. SpecFor(3) = "Qwen3-32B" /\ TierFloor(3) = 24000
  BY DEF SpecFor, TierFloor
<1>6. SpecFor(4) = "Llama-70B-Q2" /\ TierFloor(4) = 30000
  BY DEF SpecFor, TierFloor
<1>7. /\ MinVram("Qwen3-1.7B") = 0 /\ MinVram("Gemma-3-4B") = 0 /\ MinVram("Dolphin-8B") = 8000
      /\ MinVram("Qwen3-32B") = 24000 /\ MinVram("Llama-70B-Q2") = 30000
  BY DEF MinVram
<1> QED BY <1>1, <1>2, <1>3, <1>4, <1>5, <1>6, <1>7

(* Each tier has its model.                                                *)
LEMMA SpecsDiffer == \A t, u \in Tiers : SpecFor(t) = SpecFor(u) => t = u
BY TierTable

LEMMA PomTierOfSpec == \A t \in Tiers : PomTier(SpecFor(t)) = t
<1> SUFFICES ASSUME NEW t \in Tiers PROVE PomTier(SpecFor(t)) = t
  OBVIOUS
<1> DEFINE S == {0} \cup {u \in Tiers : SpecFor(u) = SpecFor(t)}
<1>1. S \in SUBSET Nat /\ t \in S /\ t \in Nat
  BY TierTable
<1>2. \A x \in S : x <= t
  BY <1>1, SpecsDiffer
<1>3. PomTier(SpecFor(t)) = Max(S)
  BY DEF PomTier
<1> HIDE DEF S
<1> QED BY <1>1, <1>2, <1>3, MaxIs

(* The tier of a GPU is the highest one that fits.                         *)
LEMMA TierForVramIs ==
  ASSUME NEW mb \in Nat
  PROVE  /\ TierForVram(mb) \in Tiers
         /\ TierForVram(mb) = 0 \/ mb >= TierFloor(TierForVram(mb))
         /\ \A t \in Tiers : mb >= TierFloor(t) => t <= TierForVram(mb)
<1> DEFINE S == {0} \cup {t \in Tiers : t > 0 /\ mb >= TierFloor(t)}
<1>1. S \in SUBSET Tiers /\ S \in SUBSET Nat /\ 0 \in S
  BY TierTable
<1>2. IsFiniteSet(Tiers)
  <2>1. 0 \in Int /\ 4 \in Int
    OBVIOUS
  <2> QED BY <2>1, FS_Interval DEF Tiers
<1>3. TierForVram(mb) = Max(S)
  BY DEF TierForVram
<1>4. \A x \in S : x = 0 \/ mb >= TierFloor(x)
  OBVIOUS
<1>5. \A t \in Tiers : mb >= TierFloor(t) => t \in S
  BY TierTable
<1> HIDE DEF S
<1>6. IsFiniteSet(S) /\ S # {}
  BY <1>1, <1>2, FS_Subset
<1>7. Max(S) \in S /\ \A x \in S : x <= Max(S)
  BY <1>1, <1>6, MaxExists
<1> QED BY <1>1, <1>3, <1>4, <1>5, <1>7

--------------------------------------------------------------------------------
(* The line-up. *)

LEMMA LineupIsOfTiers ==
  ASSUME flag \in Flags, rig \in Seq(Nat)
  PROVE  /\ TiersOf \subseteq Tiers
         /\ Lineup \in SUBSET {SpecFor(t) : t \in Tiers}
         /\ Lineup \subseteq Models
<1>1. \A i \in DOMAIN rig : rig[i] \in Nat
  OBVIOUS
<1>2. \A i \in DOMAIN rig : TierForVram(rig[i]) \in Tiers
  BY <1>1, TierForVramIs
<1>3. Default \in Tiers /\ 0 \in Tiers
  BY TierTable DEF Default
<1>4. TiersOf \subseteq Tiers
  BY <1>2, <1>3 DEF TiersOf
<1>5. Lineup \in SUBSET {SpecFor(t) : t \in Tiers}
  BY <1>4 DEF Lineup
<1>6. {SpecFor(t) : t \in Tiers} \subseteq Models
  BY TierTable DEF Models
<1> QED BY <1>4, <1>5, <1>6

Ordered(S) ==
  \E s \in [1 .. Cardinality(S) -> S] :
    \A i, j \in DOMAIN s : i < j => PomTier(s[i]) < PomTier(s[j])

LEMMA OrderExtends ==
  ASSUME NEW A, IsFiniteSet(A), Ordered(A), NEW m, m \notin A,
         \A a \in A : PomTier(a) < PomTier(m)
  PROVE  Ordered(A \cup {m})
<1> DEFINE c == Cardinality(A)
           B == A \cup {m}
<1>1. c \in Nat /\ Cardinality(B) = c + 1
  BY FS_AddElement, FS_CardinalityType
<1>2. PICK s \in [1 .. c -> A] :
        \A i, j \in DOMAIN s : i < j => PomTier(s[i]) < PomTier(s[j])
  BY DEF Ordered
<1> HIDE DEF c
<1> DEFINE r == [k \in 1 .. c + 1 |-> IF k <= c THEN s[k] ELSE m]
<1>3. \A k \in 1 .. c + 1 : k \in 1 .. c \/ (k = c + 1 /\ ~(k <= c))
  BY <1>1
<1>4. \A k \in 1 .. c : k \in 1 .. c + 1 /\ k <= c /\ s[k] \in A
  BY <1>1
<1>5. r \in [1 .. c + 1 -> B] /\ DOMAIN r = 1 .. c + 1
  BY <1>3, <1>4
<1>6. (\A k \in 1 .. c : r[k] = s[k]) /\ r[c + 1] = m
  BY <1>1, <1>4
<1> HIDE DEF r
<1>7. ASSUME NEW i \in DOMAIN r, NEW j \in DOMAIN r, i < j PROVE PomTier(r[i]) < PomTier(r[j])
  <2>1. i \in 1 .. c
    BY <1>1, <1>5, <1>7
  <2>2. CASE j \in 1 .. c
    <3>1. i \in DOMAIN s /\ j \in DOMAIN s
      BY <2>1, <2>2
    <3> QED BY <1>2, <1>6, <1>7, <2>1, <2>2, <3>1
  <2>3. CASE j = c + 1
    BY <1>4, <1>6, <2>1, <2>3
  <2> QED BY <1>3, <1>5, <2>2, <2>3
<1> QED BY <1>1, <1>5, <1>7 DEF Ordered

(* A line-up can be put in order, tier after tier.                         *)
LEMMA LineupsAreOrdered ==
  ASSUME NEW S \in SUBSET {SpecFor(t) : t \in Tiers}
  PROVE  Ordered(S)
<1> DEFINE P(k) == {m \in S : PomTier(m) < k}
           Good(k) == IsFiniteSet(P(k)) /\ Ordered(P(k))
<1>1. \A m \in S : PomTier(m) \in Tiers /\ PomTier(m) \in Nat /\ m = SpecFor(PomTier(m))
  BY PomTierOfSpec, TierTable
<1>2. Good(0)
  <2>1. P(0) = {}
    BY <1>1
  <2> DEFINE s == [k \in 1 .. 0 |-> k]
  <2>2. s \in [1 .. 0 -> {}] /\ DOMAIN s = {}
    OBVIOUS
  <2>3. Cardinality({}) = 0 /\ IsFiniteSet({})
    BY FS_EmptySet
  <2> HIDE DEF s
  <2>4. Ordered({})
    BY <2>2, <2>3 DEF Ordered
  <2> QED BY <2>1, <2>3, <2>4
<1>3. ASSUME NEW k \in Tiers, Good(k) PROVE Good(k + 1)
  <2> DEFINE m == SpecFor(k)
  <2>1. k \in Nat /\ PomTier(m) = k
    BY PomTierOfSpec, TierTable
  <2>2. \A a \in S : PomTier(a) < k + 1 <=> PomTier(a) < k \/ a = m
    BY <1>1, <2>1
  <2>3. m \notin P(k) /\ \A a \in P(k) : PomTier(a) < PomTier(m)
    BY <2>1
  <2> HIDE DEF m
  <2>4. CASE m \in S
    <3>1. P(k + 1) = P(k) \cup {m}
      BY <2>2, <2>4
    <3> HIDE DEF P
    <3> QED BY <1>3, <2>3, <3>1, OrderExtends, FS_AddElement
  <2>5. CASE m \notin S
    <3>1. P(k + 1) = P(k)
      BY <2>2, <2>5
    <3> HIDE DEF P
    <3> QED BY <1>3, <3>1
  <2> QED BY <2>4, <2>5
<1>4. P(5) = S
  BY <1>1, TierTable
<1> HIDE DEF P, Good
<1>5. Good(1)
  <2>1. 0 \in Tiers /\ 0 + 1 = 1
    BY TierTable
  <2> QED BY <1>2, <1>3, <2>1
<1>6. Good(2)
  <2>1. 1 \in Tiers /\ 1 + 1 = 2
    BY TierTable
  <2> QED BY <1>3, <1>5, <2>1
<1>7. Good(3)
  <2>1. 2 \in Tiers /\ 2 + 1 = 3
    BY TierTable
  <2> QED BY <1>3, <1>6, <2>1
<1>8. Good(4)
  <2>1. 3 \in Tiers /\ 3 + 1 = 4
    BY TierTable
  <2> QED BY <1>3, <1>7, <2>1
<1>9. Good(5)
  <2>1. 4 \in Tiers /\ 4 + 1 = 5
    BY TierTable
  <2> QED BY <1>3, <1>8, <2>1
<1> QED BY <1>4, <1>9 DEF Good

LEMMA InOrderIsOf ==
  ASSUME NEW S \in SUBSET {SpecFor(t) : t \in Tiers}
  PROVE  InOrder(S) \in Seq(S)
<1>1. Ordered(S)
  BY LineupsAreOrdered
<1>2. IsFiniteSet(S)
  <2>1. {SpecFor(t) : t \in Tiers} = {SpecFor(0), SpecFor(1), SpecFor(2), SpecFor(3), SpecFor(4)}
    BY TierTable
  <2>2. IsFiniteSet({SpecFor(0)} \cup {SpecFor(1)} \cup {SpecFor(2)} \cup {SpecFor(3)} \cup {SpecFor(4)})
    <3>1. \A A, x : IsFiniteSet(A) => IsFiniteSet(A \cup {x})
      BY FS_AddElement
    <3>2. IsFiniteSet({SpecFor(0)})
      BY FS_Singleton
    <3> QED BY <3>1, <3>2
  <2>3. IsFiniteSet({SpecFor(t) : t \in Tiers})
    <3>1. {SpecFor(0)} \cup {SpecFor(1)} \cup {SpecFor(2)} \cup {SpecFor(3)} \cup {SpecFor(4)}
            = {SpecFor(0), SpecFor(1), SpecFor(2), SpecFor(3), SpecFor(4)}
      OBVIOUS
    <3> QED BY <2>1, <2>2, <3>1
  <2> QED BY <2>3, FS_Subset
<1>3. Cardinality(S) \in Nat
  BY <1>2, FS_CardinalityType
<1>4. InOrder(S) \in [1 .. Cardinality(S) -> S]
  BY <1>1 DEF Ordered, InOrder
<1> QED BY <1>3, <1>4

--------------------------------------------------------------------------------
(* In automatic mode the line-up has the model of every GPU.               *)
LEMMA PlannedForEveryGpu ==
  ASSUME flag = Automatic, rig \in Seq(Nat)
  PROVE  /\ "Qwen3-1.7B" \in Lineup
         /\ \A i \in DOMAIN rig : SpecFor(TierForVram(rig[i])) \in Lineup
<1> DEFINE R == {rig[i] : i \in DOMAIN rig}
<1>1. R \in SUBSET Nat /\ (\A i \in DOMAIN rig : rig[i] \in R /\ rig[i] \in Nat)
  OBVIOUS
<1>2. IsFiniteSet(R)
  <2>1. IsFiniteSet(DOMAIN rig)
    <3>1. DOMAIN rig = 1 .. Len(rig) /\ 1 \in Int /\ Len(rig) \in Int
      OBVIOUS
    <3> QED BY <3>1, FS_Interval
  <2>2. rig \in [DOMAIN rig -> R]
    OBVIOUS
  <2>3. rig \in Surjection(DOMAIN rig, R)
    BY <2>2 DEF Surjection
  <2> QED BY <2>1, <2>3, FS_Surjection
<1>3. rig # <<>> => R # {}
  <2>1. rig # <<>> => 1 \in DOMAIN rig
    OBVIOUS
  <2> HIDE DEF R
  <2> QED BY <1>1, <2>1
<1>4. rig # <<>> => Max(R) \in R /\ \A x \in R : x <= Max(R)
  <2> HIDE DEF R
  <2> QED BY <1>1, <1>2, <1>3, MaxExists
<1>5. \A m : CanServe(m) <=> (driver /\ rig # <<>> => MinVram(m) <= Max(R))
  BY DEF CanServe
<1> HIDE DEF R
<1>6. rig # <<>> => Max(R) \in Nat
  BY <1>1, <1>4
<1>7. TiersOf = {TierForVram(rig[i]) : i \in DOMAIN rig} \cup {0}
                \cup (IF rig = <<>> THEN {Default} ELSE {})
  BY Zenon DEF TiersOf
<1>8. "Qwen3-1.7B" \in Lineup
  <2>1. 0 \in TiersOf
    BY <1>7
  <2>2. CanServe(SpecFor(0))
    BY <1>5, <1>6, TierTable
  <2> QED BY <2>1, <2>2, TierTable DEF Lineup
<1>9. ASSUME NEW i \in DOMAIN rig PROVE SpecFor(TierForVram(rig[i])) \in Lineup
  <2> DEFINE t == TierForVram(rig[i])
  <2>1. t \in TiersOf
    BY <1>7
  <2>2. t \in Tiers /\ (t = 0 \/ rig[i] >= TierFloor(t))
    BY <1>1, TierForVramIs
  <2>3. rig # <<>> /\ rig[i] <= Max(R) /\ rig[i] \in Nat /\ Max(R) \in Nat
    BY <1>1, <1>4, <1>6
  <2> HIDE DEF t
  <2>4. MinVram(SpecFor(t)) <= Max(R)
    BY <2>2, <2>3, TierTable
  <2>5. CanServe(SpecFor(t))
    BY <1>5, <2>4
  <2> QED BY <2>1, <2>5 DEF Lineup, t
<1> QED BY <1>8, <1>9

LEMMA PickIsItsTier ==
  ASSUME NEW S \in SUBSET {SpecFor(t) : t \in Tiers}, NEW mb \in Nat,
         SpecFor(0) \in S, SpecFor(TierForVram(mb)) \in S
  PROVE  Pick(S, mb) = SpecFor(TierForVram(mb))
<1> DEFINE t == TierForVram(mb)
           fitting == {m \in S : TierFloor(PomTier(m)) <= mb}
<1>1. \A m \in S : PomTier(m) \in Tiers /\ PomTier(m) \in Nat /\ m = SpecFor(PomTier(m))
  BY PomTierOfSpec, TierTable
<1>2. /\ t \in Tiers /\ (t = 0 \/ mb >= TierFloor(t))
      /\ \A u \in Tiers : mb >= TierFloor(u) => u <= t
  BY TierForVramIs
<1>3. SpecFor(t) \in S /\ PomTier(SpecFor(t)) = t /\ PomTier(SpecFor(0)) = 0
  BY <1>2, PomTierOfSpec, TierTable
<1> HIDE DEF t
<1>4. \A u \in Tiers : TierFloor(u) \in Nat /\ (u = 0 \/ u > 0) /\ TierFloor(0) <= TierFloor(u)
  BY TierTable
<1>5. CASE mb >= TierFloor(t)
  <2>1. SpecFor(t) \in fitting
    BY <1>2, <1>3, <1>4, <1>5
  <2>2. \A n \in fitting : PomTier(n) <= t
    BY <1>1, <1>2, <1>4
  <2>3. \A m \in fitting : (\A n \in fitting : PomTier(n) <= PomTier(m)) => m = SpecFor(t)
    BY <1>1, <1>2, <1>3, <2>1, <2>2, TierTable
  <2>4. Pick(S, mb) = CHOOSE m \in fitting : \A n \in fitting : PomTier(n) <= PomTier(m)
    BY <2>1 DEF Pick
  <2> HIDE DEF fitting
  <2> QED BY <1>3, <2>1, <2>2, <2>3, <2>4 DEF t
<1>6. CASE mb < TierFloor(t)
  <2>1. t = 0
    BY <1>2, <1>4, <1>6
  <2>2. fitting = {}
    <3>1. \A m \in S : ~(TierFloor(PomTier(m)) <= mb)
      <4> SUFFICES ASSUME NEW m \in S PROVE ~(TierFloor(PomTier(m)) <= mb)
        OBVIOUS
      <4>1. /\ PomTier(m) \in Tiers /\ TierFloor(PomTier(m)) \in Nat /\ TierFloor(0) \in Nat
            /\ TierFloor(0) <= TierFloor(PomTier(m))
        BY <1>1, <1>4, TierTable
      <4> QED BY <1>6, <2>1, <4>1
    <3> QED BY <3>1
  <2>3. Pick(S, mb) = CHOOSE m \in S : \A n \in S : PomTier(m) <= PomTier(n)
    BY <2>2 DEF Pick
  <2>4. \A n \in S : PomTier(SpecFor(0)) <= PomTier(n)
    BY <1>1, <1>3
  <2>5. \A m \in S : (\A n \in S : PomTier(m) <= PomTier(n)) => m = SpecFor(0)
    BY <1>1, <1>3
  <2> QED BY <2>1, <2>3, <2>4, <2>5 DEF t
<1> QED BY <1>2, <1>4, <1>5, <1>6

--------------------------------------------------------------------------------
(* The invariant. *)

LineupFor(r, f, d) ==
  LET tiers == IF f # Automatic THEN {f}
               ELSE {TierForVram(r[i]) : i \in DOMAIN r} \cup {0}
                    \cup (IF r = <<>> THEN {Default} ELSE {})
      canServe(m) == d /\ r # <<>> => MinVram(m) <= Max({r[i] : i \in DOMAIN r})
  IN {m \in {SpecFor(t) : t \in tiers} : canServe(m)}

LEMMA LineupStays ==
  ASSUME UNCHANGED machine
  PROVE  /\ rig' = rig /\ flag' = flag /\ Lineup' = Lineup
<1>1. rig' = rig /\ flag' = flag /\ driver' = driver
  BY DEF machine
<1>2. Lineup = LineupFor(rig, flag, driver)
  BY DEF Lineup, TiersOf, CanServe, LineupFor
<1>3. Lineup' = LineupFor(rig', flag', driver')
  BY DEF Lineup, TiersOf, CanServe, LineupFor
<1> QED BY <1>1, <1>2, <1>3

Working == {"requesting", "streaming", "marking"}
DiskType == [Models \X Parts -> Optional(0 .. Chunks)]

LEMMA Facts ==
  ASSUME IInv
  PROVE  /\ rig \in Rigs /\ flag \in Flags /\ rig \in Seq(Nat)
         /\ disk \in DiskType /\ marked \subseteq Models /\ part \in Parts /\ todo \in Seq(Models)
         /\ place \in Working => /\ todo # <<>> /\ Head(todo) \in Models
                                 /\ Head(todo) \notin marked
         /\ todo # <<>> => Head(todo) \in Models /\ Tail(todo) \in Seq(Models)
         /\ WrittenWithoutMark /\ ServedAsPlanned /\ MarkedIsComplete /\ GpusGetTheirTier
<1>1. /\ rig \in Rigs /\ flag \in Flags /\ rig \in Seq(Nat)
      /\ disk \in DiskType /\ marked \subseteq Models /\ part \in Parts /\ todo \in Seq(Models)
      /\ place \in Working => todo # <<>>
      /\ WrittenWithoutMark /\ ServedAsPlanned /\ MarkedIsComplete /\ GpusGetTheirTier
  BY DEF IInv, DiskType, Working
<1>2. todo # <<>> => Head(todo) \in Models /\ Tail(todo) \in Seq(Models)
  BY <1>1
<1>3. place \in Working => Head(todo) \notin marked
  BY <1>1 DEF WrittenWithoutMark, Working
<1> QED BY <1>1, <1>2, <1>3

(* What every step but Start and Assign does.                              *)
LEMMA FrameKeepsInv ==
  ASSUME IInv, UNCHANGED machine,
         disk' \in DiskType, marked' \subseteq Models, part' \in Parts, todo' \in Seq(Models),
         place' # "off" => place # "off" /\ UNCHANGED <<served, assigned>>,
         place' \in {"probing", "mining"} => place \in {"probing", "mining"},
         place' \in Working => todo' # <<>> /\ Head(todo') \notin marked',
         place' = "marking" => disk'[<<Head(todo'), "gguf">>] = Chunks,
         place' = "streaming" => disk'[<<Head(todo'), part'>>] # None,
         MarkedIsComplete'
  PROVE  IInv'
<1>1. ServedAsPlanned'
  BY LineupStays, Facts DEF ServedAsPlanned
<1>2. GpusGetTheirTier'
  BY LineupStays, Facts DEF GpusGetTheirTier
<1>3. WrittenWithoutMark'
  BY DEF WrittenWithoutMark, Exists, Working
<1>4. rig' \in Rigs /\ flag' \in Flags
  BY LineupStays, Facts
<1> QED BY <1>1, <1>2, <1>3, <1>4 DEF IInv, DiskType, Working

LEMMA InitIsInductive == Init => IInv
<1> SUFFICES ASSUME Init PROVE IInv
  OBVIOUS
<1>1. rig \in Rigs /\ flag \in Flags /\ part \in Parts /\ todo \in Seq(Models) /\ place = "off"
  BY DEF Init, Parts
<1>2. disk \in [Models \X Parts -> Optional(0 .. Chunks)]
  BY DEF Init, Optional
<1>3. marked \subseteq Models /\ MarkedIsComplete
  <2>1. \A m \in Models : <<m, "gguf">> \in Models \X Parts
    BY DEF Parts
  <2> QED BY <2>1 DEF Init, MarkedIsComplete
<1>4. WrittenWithoutMark /\ ServedAsPlanned /\ GpusGetTheirTier
  BY <1>1 DEF WrittenWithoutMark, ServedAsPlanned, GpusGetTheirTier
<1> QED BY <1>1, <1>2, <1>3, <1>4 DEF IInv

LEMMA StartKeepsInv ==
  ASSUME IInv, Start
  PROVE  IInv'
<1>1. /\ UNCHANGED <<disk, marked, part>> /\ UNCHANGED machine
      /\ place' = "checking" /\ served' = Lineup /\ todo' = InOrder(Lineup)
  BY DEF Start, files, download
<1>2. todo' \in Seq(Models)
  <2>1. Lineup \in SUBSET {SpecFor(t) : t \in Tiers} /\ Lineup \subseteq Models
    BY LineupIsOfTiers, Facts
  <2>2. todo' \in Seq(Lineup)
    BY <1>1, <2>1, InOrderIsOf
  <2> HIDE DEF Lineup
  <2> QED BY <2>1, <2>2
<1>3. ServedAsPlanned' /\ GpusGetTheirTier' /\ WrittenWithoutMark'
  BY <1>1, LineupStays DEF ServedAsPlanned, GpusGetTheirTier, WrittenWithoutMark
<1>4. MarkedIsComplete'
  BY <1>1, Facts DEF MarkedIsComplete
<1> QED BY <1>1, <1>2, <1>3, <1>4, LineupStays, Facts DEF IInv, DiskType

LEMMA AssignKeepsInv ==
  ASSUME IInv, Assign
  PROVE  IInv'
<1>1. /\ UNCHANGED <<disk, marked, part, todo, served>> /\ UNCHANGED machine
      /\ place = "checking" /\ place' = "probing" /\ assigned' = Assignment(served)
  BY DEF Assign, files, download
<1>2. served = Lineup /\ rig \in Seq(Nat) /\ flag \in Flags
  BY <1>1, Facts DEF ServedAsPlanned
<1>3. GpusGetTheirTier'
  <2> SUFFICES ASSUME flag = Automatic
               PROVE  /\ "Qwen3-1.7B" \in served
                      /\ \A i \in DOMAIN rig :
                           /\ Assignment(served)[i] = SpecFor(TierForVram(rig[i]))
                           /\ Assignment(served)[i] \in served
    BY <1>1, LineupStays DEF GpusGetTheirTier
  <2>1. /\ "Qwen3-1.7B" \in served
        /\ \A i \in DOMAIN rig : SpecFor(TierForVram(rig[i])) \in served
    BY <1>2, PlannedForEveryGpu
  <2>2. served \in SUBSET {SpecFor(t) : t \in Tiers} /\ SpecFor(0) \in served
    BY <1>2, <2>1, LineupIsOfTiers, TierTable
  <2>3. ASSUME NEW i \in DOMAIN rig PROVE Assignment(served)[i] = SpecFor(TierForVram(rig[i]))
    <3>1. served # {} /\ rig # <<>> /\ rig[i] \in Nat
      BY <1>2, <2>1
    <3>2. Assignment(served) = [k \in DOMAIN rig |-> Pick(served, rig[k])]
      BY <3>1 DEF Assignment
    <3>3. Assignment(served)[i] = Pick(served, rig[i])
      BY <3>2
    <3> QED BY <2>1, <2>2, <3>1, <3>3, PickIsItsTier
  <2> QED BY <2>1, <2>3
<1>4. ServedAsPlanned' /\ WrittenWithoutMark'
  BY <1>1, <1>2, LineupStays DEF ServedAsPlanned, WrittenWithoutMark
<1>5. MarkedIsComplete'
  BY <1>1, Facts DEF MarkedIsComplete
<1> QED BY <1>1, <1>3, <1>4, <1>5, LineupStays, Facts DEF IInv, DiskType, Working

(* The files stay: what happens between downloads and requests.            *)
LEMMA PlaceKeepsInv ==
  ASSUME IInv, UNCHANGED <<machine, disk>>, marked' \subseteq marked, part' \in Parts,
         todo' = todo \/ (todo # <<>> /\ todo' = Tail(todo) /\ place' \notin Working),
         place' # "off" => place # "off" /\ UNCHANGED <<served, assigned>>,
         place' \in {"probing", "mining"} => place \in {"probing", "mining"},
         place' \in Working => todo' # <<>> /\ Head(todo') \notin marked',
         place' = "marking" => disk[<<Head(todo), "gguf">>] = Chunks,
         place' = "streaming" => place = "streaming" /\ part' = part
  PROVE  IInv'
<1>1. MarkedIsComplete'
  BY Facts DEF MarkedIsComplete
<1>2. todo' \in Seq(Models)
  BY Facts
<1>3. /\ place' = "marking" => todo' = todo
      /\ place' = "streaming" => todo' = todo /\ disk[<<Head(todo), part>>] # None
  BY Facts DEF Working, WrittenWithoutMark, Exists
<1>4. disk' \in DiskType /\ marked' \subseteq Models /\ UNCHANGED machine
  BY Facts
<1> QED BY <1>1, <1>2, <1>3, <1>4, FrameKeepsInv

(* One part of one model is written, removed or put there.                 *)
LEMMA WriteKeepsInv ==
  ASSUME IInv, UNCHANGED <<machine, marked, todo, part>>,
         NEW m \in Models, NEW p \in Parts, NEW size \in Optional(0 .. Chunks),
         disk' = [disk EXCEPT ![<<m, p>>] = size],
         m \in marked => size \in {None, Chunks},
         place' # "off" => place # "off" /\ UNCHANGED <<served, assigned>>,
         place' \in {"probing", "mining"} => place \in {"probing", "mining"},
         place' \in Working => place \in Working, place' # "marking",
         place' = "streaming" => m = Head(todo) /\ p = part /\ size # None
  PROVE  IInv'
<1>1. disk \in DiskType /\ <<m, p>> \in Models \X Parts
  BY Facts
<1>2. disk' \in DiskType
  BY <1>1 DEF DiskType
<1>3. /\ \A n \in Models : disk'[<<n, "gguf">>] = disk[<<n, "gguf">>]
                            \/ (n = m /\ disk'[<<n, "gguf">>] = size)
      /\ disk'[<<m, p>>] = size
  <2>1. \A n \in Models : <<n, "gguf">> \in Models \X Parts
    BY DEF Parts
  <2> QED BY <1>1, <2>1 DEF DiskType
<1>4. MarkedIsComplete'
  <2> SUFFICES ASSUME NEW n \in marked PROVE disk'[<<n, "gguf">>] \in {Chunks, None}
    BY DEF MarkedIsComplete
  <2>1. n \in Models /\ disk[<<n, "gguf">>] \in {Chunks, None} /\ (n = m => size \in {None, Chunks})
    BY Facts DEF MarkedIsComplete
  <2> QED BY <1>3, <2>1
<1>5. place' = "streaming" => disk'[<<Head(todo'), part'>>] # None
  BY <1>3
<1> QED BY <1>2, <1>4, <1>5, Facts, FrameKeepsInv

LEMMA DownloadKeepsInv ==
  ASSUME IInv,
         \/ \E told \in BOOLEAN : Resume(told) \/ Restart(told)
         \/ Receive
  PROVE  IInv'
<1> DEFINE h == Head(todo)
<1>1. Chunks \in 0 .. Chunks /\ 0 \in 0 .. Chunks /\ file = <<h, part>>
  BY DEF file
<1>2. place \in Working => /\ h \in Models /\ h \notin marked /\ part \in Parts
                           /\ <<h, part>> \in Models \X Parts
                           /\ disk[<<h, part>>] \in Optional(0 .. Chunks)
  BY Facts DEF DiskType
<1> HIDE DEF h
<1>3. ASSUME NEW size \in 0 .. Chunks, NEW told \in BOOLEAN, place \in Working,
             Stream(size, told)
      PROVE  IInv'
  <2>1. /\ UNCHANGED <<machine, marked, todo, part, served, assigned>> /\ place' = "streaming"
        /\ disk' = [disk EXCEPT ![<<h, part>>] = size]
    BY <1>1, <1>3 DEF Stream
  <2>2. size \in Optional(0 .. Chunks) /\ size # None
    BY <1>3 DEF Optional
  <2> QED BY <1>2, <1>3, <2>1, <2>2, WriteKeepsInv DEF Working, h
<1>4. ASSUME NEW told \in BOOLEAN, Resume(told) PROVE IInv'
  <2>1. disk[<<h, part>>] \in 0 .. Chunks
    BY <1>1, <1>2, <1>4 DEF Resume, Resumed, Exists, Working, Optional, h
  <2> QED BY <1>1, <1>3, <1>4, <2>1 DEF Resume, Working
<1>5. ASSUME NEW told \in BOOLEAN, Restart(told) PROVE IInv'
  BY <1>1, <1>3, <1>5 DEF Restart, Working
<1>6. CASE Receive
  <2>1. /\ UNCHANGED <<machine, marked, todo, part, served, assigned, place>> /\ place = "streaming"
        /\ disk[<<h, part>>] < Chunks
        /\ disk' = [disk EXCEPT ![<<h, part>>] = disk[<<h, part>>] + 1]
    BY <1>1, <1>6 DEF Receive, download
  <2>2. disk[<<h, part>>] \in 0 .. Chunks
    BY <1>2, <2>1, Facts DEF Optional, Working, WrittenWithoutMark, Exists, h
  <2>3. disk[<<h, part>>] + 1 \in 0 .. Chunks
    BY <2>1, <2>2
  <2>4. disk[<<h, part>>] + 1 \in Optional(0 .. Chunks) /\ disk[<<h, part>>] + 1 # None
    BY <2>3 DEF Optional
  <2> QED BY <1>2, <2>1, <2>4, WriteKeepsInv DEF Working, h
<1> QED BY <1>4, <1>5, <1>6

LEMMA StepKeepsInv ==
  ASSUME IInv, [Next]_vars
  PROVE  IInv'
<1> USE DEF Working
<1>1. CASE UNCHANGED vars
  <2>1. UNCHANGED <<machine, disk, marked, part, todo, place, served, assigned>>
    BY <1>1 DEF vars, files, download
  <2> QED BY <2>1, Facts, PlaceKeepsInv DEF WrittenWithoutMark
<1>2. CASE FoundLocally
  BY <1>2, Facts, PlaceKeepsInv DEF FoundLocally, files, download
<1>3. CASE BeginDownload
  <2>1. /\ UNCHANGED <<machine, disk, todo, served, assigned>> /\ place = "checking"
        /\ todo # <<>> /\ marked' = marked \ {Head(todo)} /\ place' = "requesting" /\ part' \in Parts
    BY <1>3 DEF BeginDownload, Request, Parts
  <2> QED BY <2>1, PlaceKeepsInv
<1>4. CASE RequestFails \/ RangeRefused \/ Interrupted
  <2>1. /\ UNCHANGED <<machine, disk, marked, part, todo, served, assigned>>
        /\ place \in {"requesting", "streaming"} /\ place' \in {"off", "requesting"}
    BY <1>4 DEF RequestFails, RangeRefused, Interrupted, Retry, Stop, files
  <2> QED BY <2>1, Facts, PlaceKeepsInv
<1>5. CASE EndOfStream
  <2>1. /\ UNCHANGED <<machine, disk, marked, todo, served, assigned>> /\ place = "streaming"
        /\ disk[<<Head(todo), part>>] = Chunks
        /\ \/ part' = "gguf" /\ place' = "requesting"
           \/ part # "tokenizer" /\ part' = part /\ place' = "marking"
    BY <1>5 DEF EndOfStream, Downloaded, Request, file, files
  <2>2. part \in Parts /\ part' \in Parts /\ (part # "tokenizer" => part = "gguf")
    BY <2>1, Facts DEF Parts
  <2> QED BY <2>1, <2>2, Facts, PlaceKeepsInv
<1>6. CASE Mark
  <2>1. /\ UNCHANGED <<machine, disk, part, served, assigned>> /\ place = "marking"
        /\ marked' = marked \cup {Head(todo)} /\ todo' = Tail(todo) /\ place' = "checking"
    BY <1>6 DEF Mark, download
  <2>2. MarkedIsComplete'
    BY <2>1, Facts DEF MarkedIsComplete, WrittenWithoutMark
  <2>3. marked' \subseteq Models /\ todo' \in Seq(Models) /\ UNCHANGED machine
    BY <2>1, Facts
  <2> QED BY <2>1, <2>2, <2>3, Facts, FrameKeepsInv
<1>7. CASE MarkFails \/ ProbeFails \/ Crash
  <2>1. /\ UNCHANGED <<machine, disk, marked, part, todo, served, assigned>> /\ place' = "off"
    BY <1>7 DEF MarkFails, ProbeFails, Crash, Stop, files, download
  <2> QED BY <2>1, Facts, PlaceKeepsInv
<1>8. CASE ProbeSucceeds
  <2>1. /\ UNCHANGED <<machine, disk, marked, part, todo, served, assigned>>
        /\ place = "probing" /\ place' = "mining"
    BY <1>8 DEF ProbeSucceeds, files, download
  <2> QED BY <2>1, Facts, PlaceKeepsInv
<1>9. ASSUME NEW m \in Lineup, Remove(m) PROVE IInv'
  <2>1. /\ UNCHANGED <<machine, part, todo, served, assigned, place>> /\ place \in {"off", "mining"}
    BY <1>9 DEF Remove, download
  <2>2. m \in Models
    BY <1>9, LineupIsOfTiers, Facts
  <2>3. ASSUME NEW p \in Parts, disk' = [disk EXCEPT ![<<m, p>>] = None], UNCHANGED marked
        PROVE  IInv'
    BY <2>1, <2>2, <2>3, WriteKeepsInv DEF Optional
  <2>4. CASE marked' = marked \ {m} /\ UNCHANGED disk
    BY <2>1, <2>4, Facts, PlaceKeepsInv
  <2> QED BY <1>9, <2>3, <2>4 DEF Remove
<1>10. ASSUME NEW m \in Lineup, NEW size \in 1 .. Chunks, Stage(m, size) PROVE IInv'
  <2>1. /\ UNCHANGED <<machine, marked, part, todo, served, assigned, place>> /\ place = "off"
        /\ (m \in marked => size = Chunks) /\ disk' = [disk EXCEPT ![<<m, "gguf">>] = size]
    BY <1>10 DEF Stage, download
  <2>2. m \in Models /\ "gguf" \in Parts /\ size \in Optional(0 .. Chunks)
    BY <1>10, LineupIsOfTiers, Facts DEF Parts, Optional
  <2> QED BY <2>1, <2>2, WriteKeepsInv
<1>11. CASE Next
  BY <1>2, <1>3, <1>4, <1>5, <1>6, <1>7, <1>8, <1>9, <1>10, <1>11, StartKeepsInv, AssignKeepsInv,
     DownloadKeepsInv DEF Next
<1> QED BY <1>1, <1>11

(* The inductive invariant of the start (models.rs, slm.rs, main.rs).      *)
THEOREM StartupInvariant == Spec => []IInv
BY InitIsInductive, StepKeepsInv, PTL DEF Spec

(* A model with an .ok file has all of its weights (slm.rs:256), for files *)
(* of any size, any number of attempts, crashes and touched files.         *)
THEOREM MarksAreTrue == Spec => []MarkedIsComplete
<1>1. IInv => MarkedIsComplete
  BY DEF IInv
<1> QED BY <1>1, StartupInvariant, PTL

(* Every GPU is assigned the model of the highest tier that fits it        *)
(* (main.rs, models.rs), for rigs of any number of GPUs of any size.       *)
THEOREM TiersFitTheGpus == Spec => []GpusGetTheirTier
<1>1. IInv => GpusGetTheirTier
  BY DEF IInv
<1> QED BY <1>1, StartupInvariant, PTL
================================================================================
