------------------------------ MODULE EscrowProofs ------------------------------
(***************************************************************************)
(* Proofs about the escrow watcher, for any blocks, requests, amounts and  *)
(* limits: whatever is compacted, slashed, tracked, answered and read back *)
(* after a restart, the indexes match the entries, an outpoint has one     *)
(* entry, and nothing is claimed or written off that should not be.        *)
(***************************************************************************)
EXTENDS Escrow, FiniteSetTheorems, TLAPS

--------------------------------------------------------------------------------
(* Subsequences. *)

LEMMA FirstNumbers ==
  ASSUME NEW n \in Nat
  PROVE  IsFiniteSet(1 .. n) /\ Cardinality(1 .. n) = n
<1>1. 1 \in Int /\ n \in Int
  OBVIOUS
<1>2. /\ IsFiniteSet(1 .. n)
      /\ Cardinality(1 .. n) = IF 1 > n THEN 0 ELSE n - 1 + 1
  BY <1>1, FS_Interval
<1> QED BY <1>2

Rank(P, i) == Cardinality({j \in P : j <= i})

LEMMA RankGrows ==
  ASSUME NEW n \in Nat, NEW P \in SUBSET (1 .. n)
  PROVE  /\ IsFiniteSet(P) /\ Cardinality(P) \in Nat
         /\ \A i \in P : Rank(P, i) \in 1 .. Cardinality(P)
         /\ \A i, j \in P : i < j => Rank(P, i) < Rank(P, j)
<1>0. \A i \in P : i \in Nat
  OBVIOUS
<1>1. IsFiniteSet(P) /\ Cardinality(P) \in Nat
  <2>1. IsFiniteSet(1 .. n)
    BY FS_Interval
  <2>2. IsFiniteSet(P)
    BY <2>1, FS_Subset
  <2> QED BY <2>2, FS_CardinalityType
<1>2. ASSUME NEW i \in P
      PROVE  /\ IsFiniteSet({j \in P : j <= i})
             /\ Rank(P, i) \in Nat /\ Rank(P, i) <= Cardinality(P)
             /\ Rank(P, i) # 0
  <2>1. {j \in P : j <= i} \in SUBSET P /\ i \in {j \in P : j <= i}
    BY <1>0
  <2>2. /\ IsFiniteSet({j \in P : j <= i})
        /\ Cardinality({j \in P : j <= i}) <= Cardinality(P)
    BY <1>1, <2>1, FS_Subset
  <2>3. Cardinality({j \in P : j <= i}) \in Nat
    BY <2>2, FS_CardinalityType
  <2>4. Cardinality({j \in P : j <= i}) # 0
    BY <2>1, <2>2, FS_EmptySet
  <2> QED BY <2>2, <2>3, <2>4 DEF Rank
<1>3. ASSUME NEW i \in P, NEW j \in P, i < j PROVE Rank(P, i) < Rank(P, j)
  <2> DEFINE A == {k \in P : k <= i}
             B == {k \in P : k <= j}
  <2>1. A \in SUBSET B /\ A # B
    <3>1. \A k \in P : k <= i => k <= j
      BY <1>0, <1>3
    <3>2. j \in B /\ j \notin A
      BY <1>0, <1>3
    <3> QED BY <3>1, <3>2
  <2>2. IsFiniteSet(B)
    BY <1>2
  <2>3. Rank(P, i) = Cardinality(A) /\ Rank(P, j) = Cardinality(B)
    BY DEF Rank
  <2> HIDE DEF A, B
  <2>4. Cardinality(A) <= Cardinality(B) /\ Cardinality(A) # Cardinality(B)
    BY <2>1, <2>2, FS_Subset
  <2>5. Rank(P, i) \in Nat /\ Rank(P, j) \in Nat
    BY <1>2
  <2> QED BY <2>3, <2>4, <2>5
<1>4. \A i \in P : Rank(P, i) \in 1 .. Cardinality(P)
  <2> SUFFICES ASSUME NEW i \in P PROVE Rank(P, i) \in 1 .. Cardinality(P)
    OBVIOUS
  <2>1. Rank(P, i) \in Nat /\ Rank(P, i) <= Cardinality(P) /\ Rank(P, i) # 0
    BY <1>2
  <2> QED BY <1>1, <2>1
<1>5. \A i, j \in P : i < j => Rank(P, i) < Rank(P, j)
  BY <1>3
<1> QED BY <1>1, <1>4, <1>5

(* Every rank up to the number of positions is that of one of them.        *)
LEMMA KthPosition ==
  ASSUME NEW n \in Nat, NEW P \in SUBSET (1 .. n), NEW k \in 1 .. Cardinality(P)
  PROVE  \E i \in P : Rank(P, i) = k
<1> DEFINE f == [i \in P |-> Rank(P, i)]
           T == 1 .. Cardinality(P)
<1>1. IsFiniteSet(P) /\ Cardinality(P) \in Nat
  BY RankGrows
<1>2. IsFiniteSet(T) /\ Cardinality(T) = Cardinality(P)
  BY <1>1, FS_Interval
<1>3. f \in Injection(P, T)
  <2>0. /\ \A i \in P : i \in Nat /\ Rank(P, i) \in 1 .. Cardinality(P)
        /\ \A i, j \in P : i < j => Rank(P, i) < Rank(P, j)
    BY RankGrows
  <2>1. f \in [P -> T]
    BY <2>0
  <2>2. \A i, j \in P : f[i] = f[j] => i = j
    BY <1>1, <2>0
  <2> QED BY <2>1, <2>2 DEF Injection, IsInjective
<1>4. f \in Surjection(P, T)
  BY <1>2, <1>3, FS_Injection
<1>5. PICK i \in P : f[i] = k
  BY <1>4 DEF Surjection
<1> QED BY <1>5

(* A subsequence takes each of its positions once.                         *)
Position(P, k) == CHOOSE i \in P : Rank(P, i) = k

LEMMA SubsequenceFacts ==
  ASSUME NEW S, NEW s \in Seq(S), NEW P \in SUBSET (1 .. Len(s))
  PROVE  /\ Cardinality(P) \in Nat
         /\ Subsequence(s, P) \in Seq(S)
         /\ Len(Subsequence(s, P)) = Cardinality(P)
         /\ \A k \in 1 .. Cardinality(P) :
              /\ Position(P, k) \in P
              /\ Rank(P, Position(P, k)) = k
              /\ Subsequence(s, P)[k] = s[Position(P, k)]
<1>1. Len(s) \in Nat /\ Cardinality(P) \in Nat
  <2>1. Len(s) \in Nat
    OBVIOUS
  <2> QED BY <2>1, RankGrows
<1>2. \A k \in 1 .. Cardinality(P) : Position(P, k) \in P /\ Rank(P, Position(P, k)) = k
  BY <1>1, KthPosition DEF Position
<1>3. Subsequence(s, P) = [k \in 1 .. Cardinality(P) |-> s[Position(P, k)]]
  BY DEF Subsequence, Rank, Position
<1>4. \A k \in 1 .. Cardinality(P) : s[Position(P, k)] \in S
  <2>1. \A i \in P : s[i] \in S
    OBVIOUS
  <2> QED BY <1>2, <2>1
<1>5. /\ Subsequence(s, P) \in Seq(S)
      /\ Len(Subsequence(s, P)) = Cardinality(P)
      /\ \A k \in 1 .. Cardinality(P) : Subsequence(s, P)[k] = s[Position(P, k)]
  BY <1>1, <1>3, <1>4
<1> QED BY <1>1, <1>2, <1>5

(* All the positions give the sequence itself.                             *)
LEMMA SubsequenceOfAll ==
  ASSUME NEW S, NEW s \in Seq(S), NEW P \in SUBSET (1 .. Len(s)),
         Len(Subsequence(s, P)) = Len(s)
  PROVE  Subsequence(s, P) = s
<1>1. Len(s) \in Nat /\ Cardinality(P) = Len(s)
  BY SubsequenceFacts
<1>2. P = 1 .. Len(s)
  <2>1. IsFiniteSet(1 .. Len(s)) /\ Cardinality(1 .. Len(s)) = Len(s)
    BY <1>1, FirstNumbers
  <2> QED BY <1>1, <2>1, FS_Subset
<1>3. ASSUME NEW i \in P PROVE Rank(P, i) = i
  <2>0. i \in Nat /\ i # 0 /\ i <= Len(s) /\ Len(s) \in Nat
    BY <1>1, <1>2, <1>3
  <2>1. {j \in P : j <= i} = 1 .. i
    BY <1>2, <2>0
  <2>2. Cardinality(1 .. i) = i
    BY <2>0, FirstNumbers
  <2> QED BY <2>1, <2>2 DEF Rank
<1>4. \A k \in 1 .. Len(s) : (CHOOSE i \in P : Rank(P, i) = k) = k
  BY <1>2, <1>3
<1>5. Subsequence(s, P) = [k \in 1 .. Len(s) |-> s[CHOOSE i \in P : Rank(P, i) = k]]
  BY <1>1 DEF Subsequence, Rank
<1>6. Subsequence(s, P) = [k \in 1 .. Len(s) |-> s[k]]
  BY <1>4, <1>5
<1> QED BY <1>6

--------------------------------------------------------------------------------
(* Entries. *)

LEMMA EntryUpdates ==
  ASSUME NEW e \in Entry, NEW u \in {Claimed(e), Slashed(e)}
  PROVE  u \in Entry /\ u.out = e.out /\ u.block = e.block /\ u.inference = e.inference
<1>1. 0 \in 0 .. MaxDaa /\ 0 \in 0 .. MaxRetries
  BY NumbersAssumption
<1>2. CASE u = Claimed(e)
  BY <1>1, <1>2 DEF Entry, Claimed
<1>3. CASE u = Slashed(e)
  BY <1>1, <1>3 DEF Entry, Slashed
<1> QED BY <1>2, <1>3

LEMMA NewEntries ==
  ASSUME NEW out \in Outpoints, NEW block \in Blocks \cup {NoBlock}, NEW daa \in 0 .. MaxDaa
  PROVE  /\ NewEntry(out, block, daa) \in Entry
         /\ NewEntry(out, block, daa).out = out /\ NewEntry(out, block, daa).block = block
         /\ NewEntry(out, block, daa).inference <=> block = NoBlock
         /\ Open(NewEntry(out, block, daa))
<1> DEFINE e == NewEntry(out, block, daa)
<1>1. 0 \in 0 .. MaxDaa /\ 0 \in 0 .. MaxRetries
  BY NumbersAssumption
<1>2. e = [out |-> out, block |-> block, daa |-> daa, claimed |-> FALSE, slashed |-> FALSE,
           inference |-> block = NoBlock, retries |-> 0, retryAfter |-> 0]
  BY Zenon DEF NewEntry
<1>3. (block = NoBlock) \in BOOLEAN
  OBVIOUS
<1> HIDE DEF e
<1>4. e.inference <=> block = NoBlock
  BY <1>2
<1>5. e.out = out /\ e.block = block /\ Open(e)
  BY <1>2 DEF Open
<1>6. e \in Entry
  BY <1>1, <1>2, <1>3 DEF Entry
<1> QED BY <1>4, <1>5, <1>6 DEF e

(* What is said of any list of entries, in memory or in the file.          *)
Distinct(es) == \A i, j \in DOMAIN es : es[i].out = es[j].out => i = j

OfTheirBlock(es) == \A i \in DOMAIN es : ~es[i].inference =>
  es[i].out \in CoinbaseOutpoints /\ es[i].out[1] = es[i].block

Good(es) == es \in Seq(Entry) /\ Distinct(es) /\ OfTheirBlock(es)

Justified(es, won, lost) == \A i \in DOMAIN es :
  /\ es[i].claimed => es[i].out \in won
  /\ es[i].slashed => es[i].out \in lost

LEMMA EmptyIsGood == Good(<<>>) /\ \A won, lost : Justified(<<>>, won, lost)
BY DEF Good, Distinct, OfTheirBlock, Justified

LEMMA CompactedFacts ==
  ASSUME NEW es, Good(es)
  PROVE  /\ Good(Compacted(es))
         /\ Len(Compacted(es)) = Len(es) => Compacted(es) = es
         /\ \A won, lost : Justified(es, won, lost) => Justified(Compacted(es), won, lost)
<1> DEFINE P == Positions(es, Open)
           c == Compacted(es)
<1>1. es \in Seq(Entry) /\ Distinct(es) /\ OfTheirBlock(es) /\ DOMAIN es = 1 .. Len(es)
  BY DEF Good
<1>2. P \in SUBSET (1 .. Len(es))
  BY <1>1 DEF Positions
<1>3. c = Subsequence(es, P)
  BY DEF Compacted
<1> HIDE DEF P, c
<1>4. \A k \in 1 .. Cardinality(P) : /\ Position(P, k) \in DOMAIN es
                                     /\ Rank(P, Position(P, k)) = k
                                     /\ c[k] = es[Position(P, k)]
  BY <1>1, <1>2, <1>3, SubsequenceFacts
<1>5. c \in Seq(Entry) /\ Len(c) = Cardinality(P) /\ DOMAIN c = 1 .. Cardinality(P)
  BY <1>1, <1>2, <1>3, SubsequenceFacts
<1>6. \A k \in DOMAIN c : Position(P, k) \in DOMAIN es /\ c[k] = es[Position(P, k)]
  BY <1>4, <1>5
<1>7. Distinct(c)
  BY <1>1, <1>4, <1>5 DEF Distinct
<1>8. OfTheirBlock(c)
  BY <1>1, <1>6 DEF OfTheirBlock
<1>9. \A won, lost : Justified(es, won, lost) => Justified(c, won, lost)
  BY <1>6 DEF Justified
<1>10. Len(c) = Len(es) => c = es
  BY <1>1, <1>2, <1>3, SubsequenceOfAll
<1> QED BY <1>5, <1>7, <1>8, <1>9, <1>10 DEF Good, c

(* Changes of the entries that leave what they are entries of.             *)
LEMMA PointwiseFacts ==
  ASSUME NEW es, Good(es), NEW m \in [DOMAIN es -> Entry],
         \A i \in DOMAIN es : /\ m[i].out = es[i].out /\ m[i].block = es[i].block
                              /\ m[i].inference = es[i].inference
  PROVE  /\ Good(m) /\ Len(m) = Len(es) /\ DOMAIN m = DOMAIN es
         /\ OutpointsOf(m) = OutpointsOf(es) /\ BlockIndexOf(m) = BlockIndexOf(es)
<1>1. /\ es \in Seq(Entry) /\ Len(es) \in Nat /\ DOMAIN es = 1 .. Len(es)
      /\ Distinct(es) /\ OfTheirBlock(es)
  BY DEF Good
<1>2. m \in Seq(Entry) /\ Len(m) = Len(es) /\ DOMAIN m = DOMAIN es
  BY <1>1
<1>3. Distinct(m)
  BY <1>1, <1>2 DEF Distinct
<1>4. OfTheirBlock(m)
  BY <1>1, <1>2 DEF OfTheirBlock
<1>5. OutpointsOf(m) = OutpointsOf(es)
  BY <1>2 DEF OutpointsOf
<1>6. BlockIndexOf(m) = BlockIndexOf(es)
  BY <1>2 DEF BlockIndexOf
<1> QED BY <1>2, <1>3, <1>4, <1>5, <1>6 DEF Good

(* The reds' entries are written off, and their blocks are known to be red. *)
LEMMA SlashFacts ==
  ASSUME NEW es, Good(es), NEW reds \in SUBSET Blocks, NEW m,
         m = SlashReds(es, BlockIndexOf(es), reds)
  PROVE  /\ Good(m) /\ Len(m) = Len(es) /\ DOMAIN m = DOMAIN es
         /\ OutpointsOf(m) = OutpointsOf(es) /\ BlockIndexOf(m) = BlockIndexOf(es)
         /\ \A won, lost : Justified(es, won, lost) =>
              Justified(m, won, lost \cup {o \in CoinbaseOutpoints : o[1] \in reds})
<1> DEFINE red == UNION {BlockIndexOf(es)[b] : b \in reds}
           Hit(i) == i \in red /\ Open(es[i]) /\ ~es[i].inference
<1>1. es \in Seq(Entry) /\ OfTheirBlock(es) /\ \A i \in DOMAIN es : es[i] \in Entry
  BY DEF Good
<1>2. m = [i \in DOMAIN es |-> IF Hit(i) THEN Slashed(es[i]) ELSE es[i]]
  BY DEF SlashReds
<1>3. \A i \in red : es[i].block \in reds
  BY DEF BlockIndexOf
<1> HIDE DEF red
<1>4. /\ m \in [DOMAIN es -> Entry]
      /\ \A i \in DOMAIN es : /\ m[i].out = es[i].out /\ m[i].block = es[i].block
                             /\ m[i].inference = es[i].inference
  BY <1>1, <1>2, EntryUpdates
<1>5. /\ Good(m) /\ Len(m) = Len(es) /\ DOMAIN m = DOMAIN es
      /\ OutpointsOf(m) = OutpointsOf(es) /\ BlockIndexOf(m) = BlockIndexOf(es)
  BY <1>4, PointwiseFacts
<1>6. ASSUME NEW won, NEW lost, Justified(es, won, lost)
      PROVE  Justified(m, won, lost \cup {o \in CoinbaseOutpoints : o[1] \in reds})
  <2> SUFFICES ASSUME NEW i \in DOMAIN es
               PROVE  /\ m[i].claimed => m[i].out \in won
                      /\ m[i].slashed =>
                           m[i].out \in lost \cup {o \in CoinbaseOutpoints : o[1] \in reds}
    BY <1>5 DEF Justified
  <2>1. /\ es[i].claimed => es[i].out \in won
        /\ es[i].slashed => es[i].out \in lost
    BY <1>6 DEF Justified
  <2>2. CASE Hit(i)
    <3>1. es[i].out \in CoinbaseOutpoints /\ es[i].out[1] \in reds
      BY <1>1, <1>3, <2>2 DEF OfTheirBlock
    <3>2. m[i].out = es[i].out /\ ~m[i].claimed
      <4>1. m[i] = Slashed(es[i]) /\ es[i] \in Entry /\ ~es[i].claimed
        BY <1>1, <1>2, <2>2 DEF Open
      <4>2. Slashed(es[i]).claimed = es[i].claimed
        BY <4>1 DEF Slashed, Entry
      <4> QED BY <1>4, <4>1, <4>2
    <3> QED BY <3>1, <3>2
  <2>3. CASE ~Hit(i)
    BY <1>2, <2>1, <2>3
  <2> QED BY <2>2, <2>3
<1> QED BY <1>5, <1>6

(* New entries are added to those there are.                               *)
LEMMA AddedFacts ==
  ASSUME NEW m, Good(m), NEW new, Good(new),
         OutpointsOf(m) \cap OutpointsOf(new) = {}
  PROVE  /\ Good(m \o new) /\ Len(m \o new) = Len(m) + Len(new)
         /\ OutpointsOf(m \o new) = OutpointsOf(m) \cup OutpointsOf(new)
         /\ BlockIndexOf(m \o new) =
              [b \in Blocks |-> BlockIndexOf(m)[b] \cup
                 {i \in Len(m) + 1 .. Len(m) + Len(new) : new[i - Len(m)].block = b}]
         /\ \A won, lost : Justified(m, won, lost) /\ Justified(new, won, lost) =>
              Justified(m \o new, won, lost)
<1> DEFINE all == m \o new
<1>1. /\ m \in Seq(Entry) /\ Len(m) \in Nat /\ DOMAIN m = 1 .. Len(m)
      /\ new \in Seq(Entry) /\ Len(new) \in Nat /\ DOMAIN new = 1 .. Len(new)
  BY DEF Good
<1>2. /\ all \in Seq(Entry) /\ Len(all) = Len(m) + Len(new)
      /\ DOMAIN all = 1 .. Len(m) + Len(new)
      /\ \A i \in 1 .. Len(m) : all[i] = m[i]
      /\ \A i \in Len(m) + 1 .. Len(m) + Len(new) : all[i] = new[i - Len(m)]
  BY <1>1
<1> HIDE DEF all
<1>3. \A i \in DOMAIN all : \/ i \in DOMAIN m /\ all[i] = m[i]
                           \/ /\ i \in Len(m) + 1 .. Len(m) + Len(new)
                              /\ i - Len(m) \in DOMAIN new /\ all[i] = new[i - Len(m)]
  BY <1>1, <1>2
<1>4. \A k \in DOMAIN new : Len(m) + k \in DOMAIN all /\ all[Len(m) + k] = new[k]
  <2> SUFFICES ASSUME NEW k \in DOMAIN new
               PROVE  Len(m) + k \in DOMAIN all /\ all[Len(m) + k] = new[k]
    OBVIOUS
  <2>1. Len(m) + k \in Len(m) + 1 .. Len(m) + Len(new) /\ (Len(m) + k) - Len(m) = k
    BY <1>1
  <2>2. Len(m) + k \in DOMAIN all
    BY <1>1, <1>2
  <2> QED BY <1>2, <2>1, <2>2
<1>5. OutpointsOf(all) = OutpointsOf(m) \cup OutpointsOf(new)
  BY <1>1, <1>2, <1>3, <1>4 DEF OutpointsOf
<1>6. Distinct(all)
  <2> SUFFICES ASSUME NEW i \in DOMAIN all, NEW j \in DOMAIN all, all[i].out = all[j].out
               PROVE  i = j
    BY DEF Distinct
  <2>1. ASSUME NEW x \in DOMAIN m, NEW y \in DOMAIN new PROVE m[x].out # new[y].out
    BY DEF OutpointsOf
  <2>2. CASE i \in DOMAIN m /\ j \in DOMAIN m
    BY <1>1, <1>2, <2>2 DEF Good, Distinct
  <2>3. CASE i \notin DOMAIN m /\ j \notin DOMAIN m
    <3>1. i - Len(m) = j - Len(m)
      BY <1>3, <2>3 DEF Good, Distinct
    <3> QED BY <1>1, <1>2, <3>1
  <2>4. CASE i \in DOMAIN m /\ j \notin DOMAIN m
    BY <1>1, <1>2, <1>3, <2>1, <2>4
  <2>5. CASE i \notin DOMAIN m /\ j \in DOMAIN m
    BY <1>1, <1>2, <1>3, <2>1, <2>5
  <2> QED BY <2>2, <2>3, <2>4, <2>5
<1>7. OfTheirBlock(all)
  BY <1>3 DEF Good, OfTheirBlock
<1>8. BlockIndexOf(all) =
        [b \in Blocks |-> BlockIndexOf(m)[b] \cup
           {i \in Len(m) + 1 .. Len(m) + Len(new) : new[i - Len(m)].block = b}]
  <2> SUFFICES ASSUME NEW b \in Blocks
               PROVE  {i \in DOMAIN all : all[i].block = b} =
                        {i \in DOMAIN m : m[i].block = b} \cup
                        {i \in Len(m) + 1 .. Len(m) + Len(new) : new[i - Len(m)].block = b}
    BY DEF BlockIndexOf
  <2>1. Len(m) + 1 .. Len(m) + Len(new) \subseteq DOMAIN all /\ DOMAIN m \subseteq DOMAIN all
    BY <1>1, <1>2
  <2> QED BY <1>1, <1>2, <1>3, <2>1
<1>9. \A won, lost : Justified(m, won, lost) /\ Justified(new, won, lost) =>
        Justified(all, won, lost)
  BY <1>3 DEF Justified
<1> QED BY <1>2, <1>5, <1>6, <1>7, <1>8, <1>9 DEF Good, all

(* What a block pays is tracked unless its outpoint is known.              *)
PaidEntries(hash, daa, known) ==
  LET paid == IF hash = NoBlock THEN 0 ELSE Outputs[hash] IN
  Subsequence([i \in 1 .. paid |-> NewEntry(<<hash, i>>, hash, daa)],
              {i \in 1 .. paid : <<hash, i>> \notin known})

LEMMA PaidFacts ==
  ASSUME NEW hash \in Blocks \cup {NoBlock}, NEW daa \in 0 .. MaxDaa, NEW known
  PROVE  LET new == PaidEntries(hash, daa, known) IN
         /\ Good(new) /\ OutpointsOf(new) \cap known = {}
         /\ \A k \in DOMAIN new : new[k].block = hash
         /\ \A won, lost : Justified(new, won, lost)
<1> DEFINE paid == IF hash = NoBlock THEN 0 ELSE Outputs[hash]
           new == PaidEntries(hash, daa, known)
           s == [i \in 1 .. paid |-> NewEntry(<<hash, i>>, hash, daa)]
           P == {i \in 1 .. paid : <<hash, i>> \notin known}
<1>1. paid \in Nat /\ (paid # 0 => hash \in Blocks /\ hash # NoBlock)
  BY NamesAssumption
<1>2. ASSUME NEW i \in 1 .. paid
      PROVE  /\ <<hash, i>> \in CoinbaseOutpoints
             /\ s[i] \in Entry /\ s[i].out = <<hash, i>> /\ s[i].block = hash
             /\ Open(s[i])
  <2>1. hash \in Blocks /\ i \in 1 .. Outputs[hash]
    BY <1>1, <1>2
  <2>2. <<hash, i>> \in CoinbaseOutpoints
    BY <2>1 DEF CoinbaseOutpoints
  <2>3. s[i] = NewEntry(<<hash, i>>, hash, daa)
    OBVIOUS
  <2>4. <<hash, i>> \in Outpoints
    BY <2>2 DEF Outpoints
  <2> QED BY <2>2, <2>3, <2>4, NewEntries
<1>3. s \in Seq(Entry) /\ Len(s) = paid
  <2>1. \A i \in 1 .. paid : s[i] \in Entry
    BY <1>2
  <2>2. s \in [1 .. paid -> Entry]
    BY <2>1
  <2> HIDE DEF s
  <2> QED BY <1>1, <2>2
<1>4. P \in SUBSET (1 .. Len(s)) /\ new = Subsequence(s, P)
  BY <1>3 DEF PaidEntries
<1>5. \A i \in P : i \in 1 .. paid /\ <<hash, i>> \notin known
  OBVIOUS
<1> HIDE DEF s, P, paid, new
<1>6. /\ Cardinality(P) \in Nat /\ new \in Seq(Entry) /\ Len(new) = Cardinality(P)
      /\ DOMAIN new = 1 .. Cardinality(P)
  BY <1>3, <1>4, SubsequenceFacts
<1>7. ASSUME NEW k \in DOMAIN new
      PROVE  /\ new[k].out = <<hash, Position(P, k)>> /\ Rank(P, Position(P, k)) = k
             /\ new[k].out \in CoinbaseOutpoints /\ new[k].out \notin known
             /\ new[k].block = hash /\ Open(new[k])
  <2>1. k \in 1 .. Cardinality(P)
    BY <1>6
  <2>2. /\ Position(P, k) \in P /\ Rank(P, Position(P, k)) = k
        /\ new[k] = s[Position(P, k)]
    BY <1>3, <1>4, <2>1, SubsequenceFacts
  <2>3. Position(P, k) \in 1 .. paid /\ <<hash, Position(P, k)>> \notin known
    BY <1>5, <2>2
  <2> QED BY <1>2, <2>2, <2>3
<1>8. Distinct(new)
  <2> SUFFICES ASSUME NEW k \in DOMAIN new, NEW l \in DOMAIN new, new[k].out = new[l].out
               PROVE  k = l
    BY DEF Distinct
  <2>1. Position(P, k) = Position(P, l)
    BY <1>7
  <2> QED BY <1>7, <2>1
<1>9. OfTheirBlock(new)
  BY <1>7 DEF OfTheirBlock
<1>10. \A won, lost : Justified(new, won, lost)
  BY <1>7 DEF Justified, Open
<1> QED BY <1>6, <1>7, <1>8, <1>9, <1>10 DEF Good, OutpointsOf, new

--------------------------------------------------------------------------------
(* The file. *)

(* What a write leaves in the file.                                        *)
LEMMA SaveFacts ==
  ASSUME NEW es, SaveState(es)
  PROVE  /\ writeFailed' \in BOOLEAN
         /\ file' = es \/ file' = file \/ file' = <<>>
         /\ ~writeFailed' => file' = es
<1>1. PICK outcome \in Writes :
        /\ file' = CASE outcome = "saved" -> es
                     [] outcome = "kept" -> file
                     [] outcome = "truncated" -> <<>>
        /\ writeFailed' = (outcome # "saved")
  BY DEF SaveState
<1>2. outcome \in {"saved", "kept", "truncated"}
  BY WritesAssumption
<1>3. file' = es \/ file' = file \/ file' = <<>>
  BY <1>1, <1>2
<1>4. writeFailed' \in BOOLEAN /\ (~writeFailed' => file' = es)
  BY <1>1
<1> QED BY <1>3, <1>4

LEMMA FlushFacts ==
  ASSUME NEW es, NEW changed \in BOOLEAN, MaybeFlush(es, changed), writeFailed \in BOOLEAN
  PROVE  /\ dirty' \in BOOLEAN /\ writeFailed' \in BOOLEAN
         /\ file' = es \/ file' = file \/ file' = <<>>
         /\ ~dirty' /\ ~writeFailed' =>
              file' = es \/ (~changed /\ file' = file /\ ~writeFailed)
<1>1. CASE changed /\ TRUE \in Elapsed /\ SaveState(es) /\ dirty' = FALSE
  BY <1>1, SaveFacts
<1>2. CASE (changed => FALSE \in Elapsed) /\ dirty' = changed /\ UNCHANGED disk
  BY <1>2 DEF disk
<1> QED BY <1>1, <1>2 DEF MaybeFlush

--------------------------------------------------------------------------------
(* The invariant, arranged by what the steps change: the two lists of      *)
(* entries, what goes with them, and the rest.                             *)
Lists(es) == Good(es) /\ (~crossed => Justified(es, spent, hopeless))

Scalars ==
  /\ lastDaa \in 0 .. MaxDaa /\ sinceCompact \in 0 .. CompactEvery - 1
  /\ dirty \in BOOLEAN /\ writeFailed \in BOOLEAN /\ restarts \in 0 .. MaxRestarts
  /\ spent \subseteq Outpoints /\ hopeless \subseteq Outpoints

Claiming ==
  /\ pending \in Outpoints \cup {None} /\ inFlight \in Seq(Transaction)
  /\ crossed \in BOOLEAN /\ OneClaimInFlight

Core ==
  /\ Lists(entries) /\ Lists(file) /\ IndexesMatchEntries /\ FileIsCurrent
  /\ Scalars /\ Claiming

Safe == IInv /\ ClaimedWasAccepted /\ SlashedForAReason /\ FileIsCurrent

LEMMA CoreIsSafe == Core => Safe
<1> SUFFICES ASSUME Core PROVE Safe
  OBVIOUS
<1>1. /\ Good(entries) /\ Good(file)
      /\ ~crossed => Justified(entries, spent, hopeless) /\ Justified(file, spent, hopeless)
  BY DEF Core, Lists
<1>2. TypeOK
  <2>1. /\ entries \in Seq(Entry) /\ file \in Seq(Entry) /\ DOMAIN entries \subseteq Nat
        /\ \A k \in DOMAIN entries : entries[k] \in Entry
    BY <1>1 DEF Good
  <2>2. outpointSet = OutpointsOf(entries) /\ blockIndex = BlockIndexOf(entries)
    BY DEF Core, IndexesMatchEntries
  <2>3. outpointSet \subseteq Outpoints
    BY <2>1, <2>2 DEF OutpointsOf, Entry
  <2>4. blockIndex \in [Blocks -> SUBSET Nat]
    BY <2>1, <2>2 DEF BlockIndexOf
  <2> QED BY <2>1, <2>3, <2>4 DEF TypeOK, Core, Scalars, Claiming
<1>3. OneEntryPerOutpoint /\ EntriesOfTheirBlock
  BY <1>1 DEF OneEntryPerOutpoint, EntriesOfTheirBlock, Good, Distinct, OfTheirBlock
<1>4. ClaimedWasAccepted /\ SlashedForAReason
  BY <1>1 DEF ClaimedWasAccepted, SlashedForAReason, Justified
<1> QED BY <1>2, <1>3, <1>4 DEF Safe, IInv, Core, Claiming

LEMMA InitIsCore == Init => Core
<1> SUFFICES ASSUME Init PROVE Core
  OBVIOUS
<1>1. PICK n \in 0 .. Cardinality(CoinbaseOutpoints) :
        \E t \in [1 .. n -> CoinbaseOutpoints] :
          /\ \A i, j \in 1 .. n : i # j => t[i] # t[j]
          /\ file = [k \in DOMAIN t |-> NewEntry(t[k], t[k][1], BlockDaa[t[k][1]])]
  BY DEF Init, Recovered
<1>2. PICK t \in [1 .. n -> CoinbaseOutpoints] :
        /\ \A i, j \in 1 .. n : i # j => t[i] # t[j]
        /\ file = [k \in DOMAIN t |-> NewEntry(t[k], t[k][1], BlockDaa[t[k][1]])]
  BY <1>1
<1>3. n \in Nat /\ DOMAIN file = 1 .. n
  BY <1>1, <1>2
<1>4. ASSUME NEW k \in 1 .. n
      PROVE  /\ file[k] \in Entry /\ file[k].out = t[k] /\ file[k].block = t[k][1]
             /\ t[k] \in CoinbaseOutpoints /\ Open(file[k])
  <2>1. file[k] = NewEntry(t[k], t[k][1], BlockDaa[t[k][1]]) /\ t[k] \in CoinbaseOutpoints
    BY <1>2
  <2>2. t[k][1] \in Blocks
    BY <2>1 DEF CoinbaseOutpoints
  <2>3. t[k] \in Outpoints /\ BlockDaa[t[k][1]] \in 0 .. MaxDaa
    BY <2>1, <2>2, NamesAssumption DEF Outpoints
  <2> QED BY <2>1, <2>2, <2>3, NewEntries
<1>5. file \in Seq(Entry)
  <2>1. file = [k \in 1 .. n |-> file[k]]
    BY <1>2, <1>3
  <2>2. file \in [1 .. n -> Entry]
    BY <1>4, <2>1
  <2> QED BY <1>3, <2>2
<1>6. Good(file) /\ Justified(file, spent, hopeless)
  BY <1>2, <1>3, <1>4, <1>5 DEF Good, Distinct, OfTheirBlock, Justified, Open
<1>7. Lists(entries) /\ Lists(file) /\ IndexesMatchEntries /\ FileIsCurrent
  BY <1>6 DEF Init, Lists, IndexesMatchEntries, FileIsCurrent
<1>8. Scalars
  <2>1. 0 \in 0 .. MaxDaa /\ 0 \in 0 .. CompactEvery - 1 /\ 0 \in 0 .. MaxRestarts
    BY NumbersAssumption
  <2> QED BY <2>1 DEF Init, Scalars
<1>9. Claiming
  <2>1. inFlight = <<>> /\ pending = None /\ crossed = FALSE
    BY DEF Init
  <2>2. inFlight \in Seq(Transaction) /\ DOMAIN inFlight = {}
    BY <2>1
  <2>3. OneClaimInFlight
    BY <2>1, <2>2 DEF OneClaimInFlight
  <2> QED BY <2>1, <2>2, <2>3 DEF Claiming
<1> QED BY <1>7, <1>8, <1>9 DEF Core

(* A step that only adds to what the node accepted and what is hopeless.   *)
LEMMA JustifiedGrows ==
  ASSUME NEW es, NEW won, NEW lost, NEW won2, NEW lost2,
         Justified(es, won, lost), won \subseteq won2, lost \subseteq lost2
  PROVE  Justified(es, won2, lost2)
BY DEF Justified

--------------------------------------------------------------------------------
(* Claims and AI answers in flight. *)

LEMMA NoneIsNoOutpoint == None \notin Outpoints
BY DEF None, Outpoints, CoinbaseOutpoints

LEMMA SubmitClaim ==
  ASSUME Claiming, NEW out \in Outpoints, pending = None, pending' = out, Submit(out)
  PROVE  Claiming' /\ (~crossed' => ~crossed)
<1> DEFINE tx == [claim |-> out]
<1>1. inFlight \in Seq(Transaction) /\ tx \in Transaction /\ tx.claim = out
  BY DEF Claiming, Transaction
<1>2. inFlight' = Append(inFlight, tx)
  BY DEF Submit
<1>3. /\ crossed' \in BOOLEAN /\ (~crossed' => ~crossed)
      /\ ~crossed' => \A i \in DOMAIN inFlight : inFlight[i].claim # None
  BY NoneIsNoOutpoint DEF Submit, Claiming
<1> HIDE DEF tx
<1>4. /\ inFlight' \in Seq(Transaction) /\ Len(inFlight) + 1 \in DOMAIN inFlight'
      /\ inFlight'[Len(inFlight) + 1] = tx
  BY <1>1, <1>2
<1>5. ASSUME ~crossed' PROVE inFlight' = <<tx>>
  <2>1. \/ \A i \in DOMAIN inFlight : inFlight[i].claim = None
        \/ inFlight = <<[claim |-> pending]>>
    BY <1>3, <1>5 DEF Claiming, OneClaimInFlight
  <2>2. inFlight = <<>>
    <3>1. CASE inFlight = <<[claim |-> pending]>>
      <4>1. 1 \in DOMAIN inFlight /\ inFlight[1].claim = None
        BY <3>1
      <4> QED BY <1>3, <1>5, <4>1
    <3>2. CASE \A i \in DOMAIN inFlight : inFlight[i].claim = None
      <4>1. DOMAIN inFlight = {}
        BY <1>3, <1>5, <3>2
      <4> QED BY <1>1, <4>1
    <3> QED BY <2>1, <3>1, <3>2
  <2> QED BY <1>2, <2>2
<1>6. OneClaimInFlight'
  BY <1>1, <1>4, <1>5 DEF OneClaimInFlight, tx
<1> QED BY <1>3, <1>4, <1>6 DEF Claiming

LEMMA SubmitAnswer ==
  ASSUME Claiming, Submit(None), UNCHANGED pending
  PROVE  Claiming' /\ (~crossed' => ~crossed)
<1> DEFINE tx == [claim |-> None]
<1>1. inFlight \in Seq(Transaction) /\ tx \in Transaction /\ tx.claim = None
  BY DEF Claiming, Transaction
<1>2. inFlight' = Append(inFlight, tx)
  BY DEF Submit
<1>3. /\ crossed' \in BOOLEAN /\ (~crossed' => ~crossed)
      /\ ~crossed' => \A i \in DOMAIN inFlight : inFlight[i].claim = None
  BY DEF Submit, Claiming
<1> HIDE DEF tx
<1>4. /\ inFlight' \in Seq(Transaction) /\ DOMAIN inFlight' = 1 .. Len(inFlight) + 1
      /\ DOMAIN inFlight = 1 .. Len(inFlight) /\ Len(inFlight) \in Nat
      /\ inFlight'[Len(inFlight) + 1] = tx
      /\ \A i \in DOMAIN inFlight : i \in DOMAIN inFlight' /\ inFlight'[i] = inFlight[i]
  BY <1>1, <1>2
<1>5. ~crossed' => \A i \in DOMAIN inFlight' : inFlight'[i].claim = None
  BY <1>1, <1>3, <1>4
<1>6. pending' # None => \E i \in DOMAIN inFlight' : inFlight'[i].claim = pending'
  BY <1>4 DEF Claiming, OneClaimInFlight
<1> QED BY <1>3, <1>4, <1>5, <1>6 DEF Claiming, OneClaimInFlight

LEMMA FindClaimFacts ==
  ASSUME Claiming, NEW es, Good(es), NEW daa, FindClaim(es, daa)
  PROVE  Claiming' /\ (~crossed' => ~crossed)
<1>1. CASE UNCHANGED <<pending, inFlight, crossed>>
  BY <1>1 DEF Claiming, OneClaimInFlight
<1>2. ASSUME NEW i \in Claimable(es, daa), pending = None, pending' = es[i].out, Submit(es[i].out)
      PROVE  Claiming' /\ (~crossed' => ~crossed)
  <2>1. i \in DOMAIN es
    BY <1>2 DEF Claimable
  <2>2. es[i].out \in Outpoints
    <3>1. es[i] \in Entry
      BY <2>1 DEF Good
    <3> QED BY <3>1 DEF Entry
  <2> QED BY <1>2, <2>2, SubmitClaim
<1> QED BY <1>1, <1>2 DEF FindClaim

--------------------------------------------------------------------------------
(* Blocks. *)

LEMMA HandleBlockKeepsCore ==
  ASSUME Core, NEW hash \in Blocks \cup {NoBlock}, NEW daa \in 0 .. MaxDaa,
         NEW reds \in SUBSET Blocks, NEW bare \in BOOLEAN,
         HandleBlock(hash, daa, reds, bare)
  PROVE  Core'
<1> DEFINE compact == sinceCompact + 1 >= CompactEvery
           kept == IF compact THEN Compacted(entries) ELSE entries
           known == OutpointSetAfter(kept)
           index == BlockIndexAfter(kept)
           marked == SlashReds(kept, index, reds)
           new == PaidEntries(hash, daa, known)
           all == marked \o new
           changed == dirty \/ Dropped(kept)
           lost == hopeless \cup {o \in CoinbaseOutpoints : o[1] \in reds}
<1>1. /\ lastDaa' = daa
      /\ sinceCompact' = IF compact THEN 0 ELSE sinceCompact + 1
      /\ hopeless' = lost
      /\ \/ /\ bare
            /\ entries' = marked /\ outpointSet' = known /\ blockIndex' = index
            /\ dirty' = (changed \/ marked # kept)
            /\ UNCHANGED <<disk, pending, inFlight, crossed>>
         \/ /\ ~bare
            /\ entries' = all
            /\ outpointSet' = known \cup OutpointsOf(new)
            /\ blockIndex' =
                 [b \in Blocks |-> index[b] \cup
                    (IF b = hash THEN Len(marked) + 1 .. Len(all) ELSE {})]
            /\ FindClaim(all, daa)
            /\ MaybeFlush(all, changed \/ all # kept)
      /\ UNCHANGED <<spent, restarts>>
  BY DEF HandleBlock, PaidEntries
<1>2. /\ Good(entries) /\ Good(file)
      /\ outpointSet = OutpointsOf(entries) /\ blockIndex = BlockIndexOf(entries)
  BY DEF Core, Lists, IndexesMatchEntries
<1>3. /\ Good(kept)
      /\ \A won, l : Justified(entries, won, l) => Justified(kept, won, l)
      /\ ~Dropped(kept) => kept = entries
  BY <1>2, CompactedFacts DEF Dropped
<1>4. known = OutpointsOf(kept) /\ index = BlockIndexOf(kept)
  BY <1>2, <1>3 DEF OutpointSetAfter, BlockIndexAfter
<1> HIDE DEF compact, kept, known, index
<1>5. /\ Good(marked) /\ Len(marked) = Len(kept)
      /\ OutpointsOf(marked) = known /\ BlockIndexOf(marked) = index
      /\ \A won, l : Justified(kept, won, l) =>
           Justified(marked, won, l \cup {o \in CoinbaseOutpoints : o[1] \in reds})
  BY <1>3, <1>4, SlashFacts
<1>6. /\ Good(new) /\ OutpointsOf(new) \cap known = {}
      /\ \A k \in DOMAIN new : new[k].block = hash
      /\ \A won, l : Justified(new, won, l)
  BY PaidFacts
<1> HIDE DEF marked, new
<1>7. /\ Good(all) /\ Len(all) = Len(marked) + Len(new)
      /\ OutpointsOf(all) = known \cup OutpointsOf(new)
      /\ BlockIndexOf(all) =
           [b \in Blocks |-> index[b] \cup
              {i \in Len(marked) + 1 .. Len(marked) + Len(new) : new[i - Len(marked)].block = b}]
      /\ \A won, l : Justified(marked, won, l) => Justified(all, won, l)
  BY <1>5, <1>6, AddedFacts
<1>8. BlockIndexOf(all) =
        [b \in Blocks |-> index[b] \cup
           (IF b = hash THEN Len(marked) + 1 .. Len(all) ELSE {})]
  <2>1. /\ Len(marked) \in Nat /\ Len(new) \in Nat /\ DOMAIN new = 1 .. Len(new)
    BY <1>5, <1>6 DEF Good
  <2>2. \A i \in Len(marked) + 1 .. Len(marked) + Len(new) :
          new[i - Len(marked)].block = hash
    BY <1>6, <2>1
  <2>3. \A b \in Blocks :
          {i \in Len(marked) + 1 .. Len(marked) + Len(new) : new[i - Len(marked)].block = b}
            = IF b = hash THEN Len(marked) + 1 .. Len(all) ELSE {}
    BY <1>7, <2>2
  <2> QED BY <1>7, <2>3
<1> HIDE DEF all, changed, lost
<1>9. /\ ~crossed => /\ Justified(marked, spent, lost) /\ Justified(all, spent, lost)
                     /\ Justified(file, spent, lost)
      /\ lost \subseteq Outpoints
  <2>1. ~crossed => Justified(entries, spent, hopeless) /\ Justified(file, spent, hopeless)
    BY DEF Core, Lists
  <2>2. hopeless \subseteq lost
    BY DEF lost
  <2>3. ~crossed => Justified(marked, spent, lost)
    BY <1>3, <1>5, <2>1 DEF lost
  <2>4. lost \subseteq Outpoints
    BY DEF lost, Core, Scalars, Outpoints
  <2> QED BY <1>7, <2>1, <2>2, <2>3, <2>4, JustifiedGrows
<1>10. sinceCompact' \in 0 .. CompactEvery - 1
  BY <1>1, NumbersAssumption DEF Core, Scalars, compact
<1>11. changed \in BOOLEAN /\ (~changed => ~dirty /\ kept = entries)
  BY <1>3 DEF changed, Core, Scalars
<1>12. ~dirty /\ ~writeFailed => file = entries
  BY DEF Core, FileIsCurrent
<1>13. dirty \in BOOLEAN /\ writeFailed \in BOOLEAN /\ Claiming
  BY DEF Core, Scalars
<1>14. CASE /\ entries' = marked /\ outpointSet' = known /\ blockIndex' = index
            /\ dirty' = (changed \/ marked # kept)
            /\ UNCHANGED <<disk, pending, inFlight, crossed>>
  <2>1. Lists(entries)' /\ Lists(file)'
    BY <1>1, <1>2, <1>5, <1>9, <1>14 DEF Lists, disk
  <2>2. IndexesMatchEntries'
    BY <1>5, <1>14 DEF IndexesMatchEntries
  <2>3. FileIsCurrent'
    BY <1>11, <1>12, <1>14 DEF FileIsCurrent, disk
  <2>4. Scalars'
    BY <1>1, <1>9, <1>10, <1>13, <1>14 DEF Scalars, Core, disk
  <2>5. Claiming'
    BY <1>13, <1>14 DEF Claiming, OneClaimInFlight
  <2> QED BY <2>1, <2>2, <2>3, <2>4, <2>5 DEF Core
<1>15. CASE /\ entries' = all
            /\ outpointSet' = known \cup OutpointsOf(new)
            /\ blockIndex' =
                 [b \in Blocks |-> index[b] \cup
                    (IF b = hash THEN Len(marked) + 1 .. Len(all) ELSE {})]
            /\ FindClaim(all, daa)
            /\ MaybeFlush(all, changed \/ all # kept)
  <2>1. (changed \/ all # kept) \in BOOLEAN
    OBVIOUS
  <2>2. /\ dirty' \in BOOLEAN /\ writeFailed' \in BOOLEAN
        /\ file' = all \/ file' = file \/ file' = <<>>
        /\ ~dirty' /\ ~writeFailed' =>
             file' = all \/ (~(changed \/ all # kept) /\ file' = file /\ ~writeFailed)
    BY <1>13, <1>15, <2>1, FlushFacts
  <2>3. Claiming' /\ (~crossed' => ~crossed)
    BY <1>7, <1>13, <1>15, FindClaimFacts
  <2>4. Lists(entries)'
    BY <1>1, <1>7, <1>9, <1>15, <2>3 DEF Lists
  <2>5. Lists(file)'
    BY <1>1, <1>2, <1>7, <1>9, <2>2, <2>3, EmptyIsGood DEF Lists
  <2>6. IndexesMatchEntries'
    BY <1>7, <1>8, <1>15 DEF IndexesMatchEntries
  <2>7. FileIsCurrent'
    BY <1>11, <1>12, <1>15, <2>2 DEF FileIsCurrent
  <2>8. Scalars'
    BY <1>1, <1>9, <1>10, <2>2 DEF Scalars, Core
  <2> QED BY <2>3, <2>4, <2>5, <2>6, <2>7, <2>8 DEF Core
<1> QED BY <1>1, <1>14, <1>15

--------------------------------------------------------------------------------
(* AI answers. *)

(* The entry of an answered request that is not known yet.                 *)
LEMMA AnsweredEntryFacts ==
  ASSUME Good(entries), outpointSet = OutpointsOf(entries),
         NEW r \in Requests, NEW daa \in 0 .. MaxDaa - Maturity, <<r, 1>> \notin outpointSet
  PROVE  LET all == Append(entries, NewEntry(<<r, 1>>, NoBlock, daa)) IN
         /\ Good(all) /\ OutpointsOf(all) = outpointSet \cup {<<r, 1>>}
         /\ BlockIndexOf(all) = BlockIndexOf(entries)
         /\ \A won, lost : Justified(entries, won, lost) => Justified(all, won, lost)
<1> DEFINE out == <<r, 1>>
           e == NewEntry(out, NoBlock, daa)
           all == Append(entries, e)
<1>1. out \in Outpoints /\ NoBlock \in Blocks \cup {NoBlock} /\ daa \in 0 .. MaxDaa
  BY NumbersAssumption DEF Outpoints
<1>2. e \in Entry /\ e.out = out /\ e.block = NoBlock /\ e.inference /\ Open(e)
  BY <1>1, NewEntries
<1>0. out \notin outpointSet
  OBVIOUS
<1> HIDE DEF e, out
<1> DEFINE one == <<e>>
<1>3. one \in Seq(Entry) /\ Len(one) = 1 /\ DOMAIN one = {1} /\ one[1] = e
  BY <1>2
<1>4. all = entries \o one
  BY <1>2 DEF Good
<1> HIDE DEF all, one
<1>5. /\ Good(one) /\ OutpointsOf(one) = {out}
      /\ \A won, lost : Justified(one, won, lost)
  BY <1>2, <1>3 DEF Good, Distinct, OfTheirBlock, OutpointsOf, Justified, Open
<1>6. OutpointsOf(entries) \cap OutpointsOf(one) = {}
  BY <1>0, <1>5
<1>7. /\ Good(entries \o one)
       /\ OutpointsOf(entries \o one) = OutpointsOf(entries) \cup OutpointsOf(one)
       /\ BlockIndexOf(entries \o one) =
            [b \in Blocks |-> BlockIndexOf(entries)[b] \cup
               {i \in Len(entries) + 1 .. Len(entries) + Len(one) :
                  one[i - Len(entries)].block = b}]
       /\ \A won, lost : Justified(entries, won, lost) /\ Justified(one, won, lost) =>
            Justified(entries \o one, won, lost)
  BY <1>5, <1>6, AddedFacts
<1>8. /\ Good(all) /\ OutpointsOf(all) = outpointSet \cup {out}
       /\ \A won, lost : Justified(entries, won, lost) => Justified(all, won, lost)
  BY <1>4, <1>5, <1>7
<1>9. BlockIndexOf(all) = BlockIndexOf(entries)
  <2>1. Len(entries) \in Nat
    BY DEF Good
  <2>2. \A i \in Len(entries) + 1 .. Len(entries) + Len(one) : one[i - Len(entries)] = e
    BY <1>3, <2>1
  <2>3. \A b \in Blocks : {i \in Len(entries) + 1 .. Len(entries) + Len(one) :
                             one[i - Len(entries)].block = b} = {}
    BY <1>2, <2>2, NamesAssumption
  <2>4. BlockIndexOf(all) = [b \in Blocks |-> BlockIndexOf(entries)[b]]
    BY <1>4, <1>7, <2>3
  <2> QED BY <2>4 DEF BlockIndexOf
<1> QED BY <1>8, <1>9 DEF all, e, out

LEMMA AnswerRequestKeepsCore ==
  ASSUME Core, NEW r \in Requests, NEW daa \in 0 .. MaxDaa - Maturity,
         AnswerRequest(r, daa)
  PROVE  Core'
<1> DEFINE out == <<r, 1>>
           e == NewEntry(out, NoBlock, daa)
           all == Append(entries, e)
<1>1. /\ Submit(None)
      /\ \/ UNCHANGED <<entries, outpointSet, dirty, disk>>
         \/ /\ out \notin outpointSet
            /\ entries' = all
            /\ outpointSet' = outpointSet \cup {out}
            /\ MaybeFlush(all, TRUE)
      /\ UNCHANGED <<blockIndex, pending, lastDaa, sinceCompact, spent, hopeless, restarts>>
  BY DEF AnswerRequest
<1>2. /\ Good(entries) /\ Good(file) /\ Claiming /\ writeFailed \in BOOLEAN
      /\ outpointSet = OutpointsOf(entries) /\ blockIndex = BlockIndexOf(entries)
      /\ ~crossed => Justified(entries, spent, hopeless) /\ Justified(file, spent, hopeless)
  BY DEF Core, Lists, IndexesMatchEntries, Scalars
<1>3. Claiming' /\ (~crossed' => ~crossed)
  BY <1>1, <1>2, SubmitAnswer
<1>4. CASE UNCHANGED <<entries, outpointSet, dirty, disk>>
  <2>1. Lists(entries)' /\ Lists(file)'
    BY <1>1, <1>2, <1>3, <1>4 DEF Lists, disk
  <2>2. IndexesMatchEntries' /\ FileIsCurrent'
    BY <1>1, <1>4 DEF Core, IndexesMatchEntries, FileIsCurrent, disk
  <2>3. Scalars'
    BY <1>1, <1>4 DEF Core, Scalars, disk
  <2> QED BY <1>3, <2>1, <2>2, <2>3 DEF Core
<1>5. CASE /\ out \notin outpointSet
           /\ entries' = all
           /\ outpointSet' = outpointSet \cup {out}
           /\ MaybeFlush(all, TRUE)
  <2>6. /\ Good(all) /\ OutpointsOf(all) = outpointSet \cup {out}
        /\ BlockIndexOf(all) = BlockIndexOf(entries)
        /\ \A won, lost : Justified(entries, won, lost) => Justified(all, won, lost)
    BY <1>2, <1>5, AnsweredEntryFacts
  <2> HIDE DEF all, e, out
  <2>7. /\ dirty' \in BOOLEAN /\ writeFailed' \in BOOLEAN
        /\ file' = all \/ file' = file \/ file' = <<>>
        /\ ~dirty' /\ ~writeFailed' => file' = all
    BY <1>2, <1>5, FlushFacts
  <2>8. Lists(entries)' /\ Lists(file)'
    BY <1>1, <1>2, <1>3, <1>5, <2>6, <2>7, EmptyIsGood DEF Lists
  <2>9. IndexesMatchEntries' /\ FileIsCurrent'
    BY <1>1, <1>2, <1>5, <2>6, <2>7 DEF IndexesMatchEntries, FileIsCurrent
  <2>10. Scalars'
    BY <1>1, <2>7 DEF Core, Scalars
  <2> QED BY <1>3, <2>8, <2>9, <2>10 DEF Core
<1> QED BY <1>1, <1>4, <1>5

--------------------------------------------------------------------------------
(* Answers of the node. *)

LEMMA VerdictUpdates ==
  ASSUME NEW e \in Entry, NEW verdict \in {"accepted", "orphan", "locked", "refused"},
         lastDaa \in 0 .. MaxDaa,
         verdict = "orphan" => lastDaa + OrphanCooldown <= MaxDaa,
         verdict = "locked" => lastDaa + LockCooldown <= MaxDaa
  PROVE  /\ After(verdict, e) \in Entry /\ After(verdict, e).out = e.out
         /\ After(verdict, e).block = e.block /\ After(verdict, e).inference = e.inference
         /\ After(verdict, e).claimed => e.claimed \/ verdict = "accepted"
         /\ After(verdict, e).slashed =>
              \/ e.slashed \/ verdict = "refused"
              \/ verdict = "orphan" /\ e.retries + 1 >= MaxRetries
<1>1. CASE verdict = "accepted"
  <2>1. After(verdict, e) = Claimed(e)
    BY <1>1 DEF After
  <2>2. Claimed(e).slashed = e.slashed
    BY DEF Claimed, Entry
  <2> QED BY <1>1, <2>1, <2>2, EntryUpdates
<1>2. CASE verdict = "refused"
  <2>1. After(verdict, e) = Slashed(e)
    BY <1>2 DEF After
  <2>2. Slashed(e).claimed = e.claimed
    BY DEF Slashed, Entry
  <2> QED BY <1>2, <2>1, <2>2, EntryUpdates
<1>3. CASE verdict = "orphan"
  <2>1. After(verdict, e) = Orphaned(e)
    BY <1>3 DEF After
  <2>2. CASE e.retries + 1 >= MaxRetries
    <3>1. Orphaned(e) = Slashed(e)
      BY <2>2 DEF Orphaned
    <3>2. Slashed(e).claimed = e.claimed
      BY DEF Slashed, Entry
    <3> QED BY <1>3, <2>1, <2>2, <3>1, <3>2, EntryUpdates
  <2>3. CASE ~(e.retries + 1 >= MaxRetries)
    <3>1. Orphaned(e) = [e EXCEPT !.retries = @ + 1, !.retryAfter = lastDaa + OrphanCooldown]
      BY <2>3 DEF Orphaned
    <3>2. e.retries + 1 \in 0 .. MaxRetries /\ lastDaa + OrphanCooldown \in 0 .. MaxDaa
      BY <1>3, <2>3, NumbersAssumption DEF Entry
    <3> QED BY <2>1, <3>1, <3>2 DEF Entry
  <2> QED BY <2>2, <2>3
<1>4. CASE verdict = "locked"
  <2>1. After(verdict, e) = [e EXCEPT !.retryAfter = lastDaa + LockCooldown]
    BY <1>4 DEF After, Locked
  <2>2. lastDaa + LockCooldown \in 0 .. MaxDaa
    BY <1>4, NumbersAssumption
  <2> QED BY <2>1, <2>2 DEF Entry
<1> QED BY <1>1, <1>2, <1>3, <1>4

(* Unless AI answers and claims cross, what is answered is the pending     *)
(* claim.                                                                  *)
LEMMA PendingIsAnswered ==
  ASSUME Claiming, ~crossed, pending # None, inFlight # <<>>, NEW out, Claims(out)
  PROVE  out = pending
<1>1. PICK i \in DOMAIN inFlight : inFlight[i].claim = pending
  BY DEF Claiming, OneClaimInFlight
<1>2. inFlight = <<[claim |-> pending]>>
  BY <1>1 DEF Claiming, OneClaimInFlight
<1>3. Head(inFlight).claim = pending
  BY <1>2
<1> QED BY <1>3 DEF Claims

LEMMA ResponseKeepsCore ==
  ASSUME Core, NEW verdict \in {"accepted", "orphan", "locked", "refused"},
         Response(verdict),
         verdict = "orphan" => lastDaa + OrphanCooldown <= MaxDaa,
         verdict = "locked" => lastDaa + LockCooldown <= MaxDaa,
         spent \subseteq spent', hopeless \subseteq hopeless',
         spent' \subseteq Outpoints, hopeless' \subseteq Outpoints,
         ~crossed /\ pending # None =>
           /\ verdict = "accepted" => pending \in spent'
           /\ verdict = "refused" => pending \in hopeless'
           /\ verdict = "orphan" =>
                \A i \in DOMAIN entries :
                  entries[i].out = pending /\ entries[i].retries + 1 >= MaxRetries =>
                    pending \in hopeless'
  PROVE  Core'
<1> DEFINE m == [i \in DOMAIN entries |->
                   IF entries[i].out = pending THEN After(verdict, entries[i])
                   ELSE entries[i]]
<1>1. /\ inFlight # <<>> /\ inFlight' = Tail(inFlight)
      /\ \/ pending = None /\ UNCHANGED <<entries, pending, dirty, disk>>
         \/ /\ pending # None /\ entries' = m /\ pending' = None
            /\ MaybeFlush(m, TRUE)
      /\ UNCHANGED <<indexes, lastDaa, sinceCompact, crossed, restarts>>
  BY DEF Response, OnSubmitResponse
<1>2. /\ Good(entries) /\ Good(file) /\ Claiming
      /\ writeFailed \in BOOLEAN /\ lastDaa \in 0 .. MaxDaa
      /\ outpointSet = OutpointsOf(entries) /\ blockIndex = BlockIndexOf(entries)
      /\ ~crossed => Justified(entries, spent, hopeless) /\ Justified(file, spent, hopeless)
  BY DEF Core, Lists, IndexesMatchEntries, Scalars
<1>3. Claiming'
  <2>1. /\ inFlight \in Seq(Transaction) /\ Len(inFlight) \in Nat /\ Len(inFlight) # 0
        /\ DOMAIN inFlight = 1 .. Len(inFlight)
    BY <1>1, <1>2 DEF Claiming
  <2>2. /\ inFlight' \in Seq(Transaction) /\ DOMAIN inFlight' = 1 .. Len(inFlight) - 1
        /\ \A i \in DOMAIN inFlight' : inFlight'[i] = inFlight[i + 1]
    BY <1>1, <2>1
  <2>3. pending' = None
    BY <1>1
  <2>4. ~crossed => \A i \in DOMAIN inFlight' : inFlight'[i].claim = None
    <3> SUFFICES ASSUME ~crossed, NEW i \in DOMAIN inFlight' PROVE inFlight'[i].claim = None
      OBVIOUS
    <3>1. i + 1 \in DOMAIN inFlight /\ i + 1 # 1
      BY <2>1, <2>2
    <3>2. CASE inFlight = <<[claim |-> pending]>>
      BY <3>1, <3>2
    <3>3. CASE \A j \in DOMAIN inFlight : inFlight[j].claim = None
      BY <2>2, <3>1, <3>3
    <3> QED BY <1>2, <3>2, <3>3 DEF Claiming, OneClaimInFlight
  <2> QED BY <1>1, <1>2, <2>2, <2>3, <2>4 DEF Claiming, OneClaimInFlight
<1>4. ASSUME NEW es, ~crossed, Justified(es, spent, hopeless)
      PROVE  Justified(es, spent', hopeless')
  BY <1>4, JustifiedGrows
<1>5. CASE pending = None /\ UNCHANGED <<entries, pending, dirty, disk>>
  <2>1. Lists(entries)' /\ Lists(file)'
    BY <1>1, <1>2, <1>4, <1>5 DEF Lists, disk
  <2>2. IndexesMatchEntries' /\ FileIsCurrent'
    BY <1>1, <1>5 DEF Core, IndexesMatchEntries, FileIsCurrent, disk, indexes
  <2>3. Scalars'
    BY <1>1, <1>5 DEF Core, Scalars, disk
  <2> QED BY <1>3, <2>1, <2>2, <2>3 DEF Core
<1>6. CASE pending # None /\ entries' = m /\ pending' = None /\ MaybeFlush(m, TRUE)
  <2>1. \A i \in DOMAIN entries : entries[i] \in Entry
    BY <1>2 DEF Good
  <2>2. /\ m \in [DOMAIN entries -> Entry]
        /\ \A i \in DOMAIN entries : /\ m[i].out = entries[i].out
                                     /\ m[i].block = entries[i].block
                                     /\ m[i].inference = entries[i].inference
    BY <1>2, <2>1, VerdictUpdates
  <2>3. ASSUME ~crossed PROVE Justified(m, spent', hopeless')
    <3> SUFFICES ASSUME NEW i \in DOMAIN entries
                 PROVE  /\ m[i].claimed => m[i].out \in spent'
                        /\ m[i].slashed => m[i].out \in hopeless'
      BY DEF Justified
    <3>1. /\ entries[i].claimed => entries[i].out \in spent'
          /\ entries[i].slashed => entries[i].out \in hopeless'
      BY <1>2, <1>4, <2>3 DEF Justified
    <3>2. CASE entries[i].out = pending
      <4>1. m[i] = After(verdict, entries[i]) /\ m[i].out = pending
        BY <2>2, <3>2
      <4> HIDE DEF m
      <4>2. /\ m[i].claimed => entries[i].claimed \/ verdict = "accepted"
            /\ m[i].slashed =>
                 \/ entries[i].slashed \/ verdict = "refused"
                 \/ verdict = "orphan" /\ entries[i].retries + 1 >= MaxRetries
        <5>1. entries[i] \in Entry /\ lastDaa \in 0 .. MaxDaa
          BY <1>2, <2>1
        <5>2. /\ After(verdict, entries[i]).claimed => entries[i].claimed \/ verdict = "accepted"
              /\ After(verdict, entries[i]).slashed =>
                   \/ entries[i].slashed \/ verdict = "refused"
                   \/ verdict = "orphan" /\ entries[i].retries + 1 >= MaxRetries
          BY <5>1, VerdictUpdates
        <5> QED BY <4>1, <5>2
      <4>3. /\ verdict = "accepted" => pending \in spent'
            /\ verdict = "refused" => pending \in hopeless'
            /\ verdict = "orphan" /\ entries[i].retries + 1 >= MaxRetries =>
                 pending \in hopeless'
        BY <1>6, <2>3, <3>2
      <4> QED BY <3>1, <3>2, <4>1, <4>2, <4>3
    <3>3. CASE entries[i].out # pending
      BY <3>1, <3>3
    <3> QED BY <3>2, <3>3
  <2> HIDE DEF m
  <2>4. /\ Good(m) /\ OutpointsOf(m) = OutpointsOf(entries)
        /\ BlockIndexOf(m) = BlockIndexOf(entries)
    BY <1>2, <2>2, PointwiseFacts
  <2>5. /\ dirty' \in BOOLEAN /\ writeFailed' \in BOOLEAN
        /\ file' = m \/ file' = file \/ file' = <<>>
        /\ ~dirty' /\ ~writeFailed' => file' = m
    BY <1>2, <1>6, FlushFacts
  <2>6. Lists(entries)' /\ Lists(file)'
    BY <1>1, <1>2, <1>4, <1>6, <2>3, <2>4, <2>5, EmptyIsGood DEF Lists
  <2>7. IndexesMatchEntries' /\ FileIsCurrent'
    BY <1>1, <1>2, <1>6, <2>4, <2>5 DEF IndexesMatchEntries, FileIsCurrent, indexes
  <2>8. Scalars'
    BY <1>1, <2>5 DEF Core, Scalars
  <2> QED BY <1>3, <2>6, <2>7, <2>8 DEF Core
<1> QED BY <1>1, <1>5, <1>6

LEMMA AnswerKeepsCore ==
  ASSUME Core, AnswerAccepted \/ AnswerOrphaned \/ AnswerLocked \/ AnswerRejected
  PROVE  Core'
<1>1. /\ Claiming /\ spent \subseteq Outpoints /\ hopeless \subseteq Outpoints
  BY DEF Core, Scalars
<1>2. CASE AnswerAccepted
  <2>1. Response("accepted") /\ inFlight # <<>> /\ UNCHANGED hopeless
    BY <1>2 DEF AnswerAccepted, Response
  <2>2. CASE Claims(None) /\ UNCHANGED spent
    <3>1. crossed \/ pending = None
      BY <1>1, <2>1, <2>2, PendingIsAnswered
    <3> QED BY <1>1, <2>1, <2>2, <3>1, ResponseKeepsCore
  <2>3. ASSUME NEW out \in Outpoints, Claims(out), spent' = spent \cup {out} PROVE Core'
    <3>1. ~crossed /\ pending # None => pending \in spent'
      BY <1>1, <2>1, <2>3, PendingIsAnswered
    <3>2. spent \subseteq spent' /\ spent' \subseteq Outpoints
      BY <1>1, <2>3
    <3> QED BY <1>1, <2>1, <3>1, <3>2, ResponseKeepsCore
  <2> QED BY <1>2, <2>2, <2>3 DEF AnswerAccepted
<1>3. CASE AnswerOrphaned
  <2>1. Response("orphan") /\ inFlight # <<>> /\ UNCHANGED spent
        /\ lastDaa + OrphanCooldown <= MaxDaa
    BY <1>3 DEF AnswerOrphaned, Response
  <2>2. PICK out \in Outpoints :
          /\ Claims(out)
          /\ hopeless' = hopeless \cup
               {out : e \in {x \in {entries[i] : i \in DOMAIN entries} :
                               x.out = out /\ x.retries + 1 >= MaxRetries}}
    BY <1>3 DEF AnswerOrphaned
  <2>3. hopeless \subseteq hopeless' /\ hopeless' \subseteq Outpoints
    BY <1>1, <2>2
  <2>4. ~crossed /\ pending # None =>
          \A i \in DOMAIN entries :
            entries[i].out = pending /\ entries[i].retries + 1 >= MaxRetries =>
              pending \in hopeless'
    BY <1>1, <2>1, <2>2, PendingIsAnswered
  <2> QED BY <1>1, <2>1, <2>3, <2>4, ResponseKeepsCore
<1>4. CASE AnswerLocked
  <2>1. Response("locked") /\ lastDaa + LockCooldown <= MaxDaa /\ UNCHANGED <<spent, hopeless>>
    BY <1>4 DEF AnswerLocked
  <2> QED BY <1>1, <2>1, ResponseKeepsCore
<1>5. CASE AnswerRejected
  <2>1. Response("refused") /\ inFlight # <<>> /\ UNCHANGED spent
    BY <1>5 DEF AnswerRejected, Response
  <2>2. CASE Claims(None) /\ UNCHANGED hopeless
    <3>1. crossed \/ pending = None
      BY <1>1, <2>1, <2>2, PendingIsAnswered
    <3> QED BY <1>1, <2>1, <2>2, <3>1, ResponseKeepsCore
  <2>3. ASSUME NEW out \in Outpoints, Claims(out), hopeless' = hopeless \cup {out} PROVE Core'
    <3>1. ~crossed /\ pending # None => pending \in hopeless'
      BY <1>1, <2>1, <2>3, PendingIsAnswered
    <3>2. hopeless \subseteq hopeless' /\ hopeless' \subseteq Outpoints
      BY <1>1, <2>3
    <3> QED BY <1>1, <2>1, <3>1, <3>2, ResponseKeepsCore
  <2> QED BY <1>5, <2>2, <2>3 DEF AnswerRejected
<1> QED BY <1>2, <1>3, <1>4, <1>5

--------------------------------------------------------------------------------

(* A watcher that starts from a sound file is sound.                       *)
LEMMA ReloadKeepsCore ==
  ASSUME Core, Reloaded, writeFailed' \in BOOLEAN,
         Good(file'), ~crossed => Justified(file', spent, hopeless)
  PROVE  Core'
<1>1. /\ entries' = file' /\ outpointSet' = OutpointsOf(file') /\ blockIndex' = BlockIndexOf(file')
      /\ pending' = None /\ inFlight' = <<>> /\ dirty' = FALSE
      /\ UNCHANGED <<hopeless, crossed>>
      /\ restarts < MaxRestarts /\ restarts' = restarts + 1
      /\ lastDaa' = 0 /\ sinceCompact' = 0
  BY DEF Reloaded
<1>2. PICK won \in SUBSET {out \in Outpoints : \E i \in DOMAIN inFlight :
                                                inFlight[i].claim = out} :
        spent' = spent \cup won
  BY DEF Reloaded
<1>3. spent \subseteq spent' /\ (spent \subseteq Outpoints => spent' \subseteq Outpoints)
  BY <1>2
<1>4. Lists(file)'
  BY <1>1, <1>3, JustifiedGrows DEF Lists
<1>5. Lists(entries)' /\ IndexesMatchEntries' /\ FileIsCurrent'
  BY <1>1, <1>4 DEF Lists, IndexesMatchEntries, FileIsCurrent
<1>6. Scalars'
  <2>1. 0 \in 0 .. MaxDaa /\ 0 \in 0 .. CompactEvery - 1
    BY NumbersAssumption
  <2>2. restarts' \in 0 .. MaxRestarts
    BY <1>1, NumbersAssumption DEF Core, Scalars
  <2> QED BY <1>1, <1>3, <2>1, <2>2 DEF Core, Scalars
<1>7. Claiming'
  <2>1. inFlight' \in Seq(Transaction) /\ DOMAIN inFlight' = {}
    BY <1>1
  <2>2. OneClaimInFlight'
    BY <1>1, <2>1 DEF OneClaimInFlight
  <2> QED BY <1>1, <2>1, <2>2 DEF Core, Claiming
<1> QED BY <1>4, <1>5, <1>6, <1>7 DEF Core

LEMMA RestartKeepsCore == Core /\ Restart => Core'
<1> SUFFICES ASSUME Core, Restart PROVE Core'
  OBVIOUS
<1>1. Reloaded /\ file' = file /\ writeFailed' = writeFailed
  BY DEF Restart, disk
<1>2. /\ writeFailed' \in BOOLEAN /\ Good(file')
      /\ ~crossed => Justified(file', spent, hopeless)
  BY <1>1 DEF Core, Lists, Scalars
<1> QED BY <1>1, <1>2, ReloadKeepsCore

LEMMA AnswerLostKeepsCore ==
  ASSUME Core, NEW r \in Requests, NEW daa \in 0 .. MaxDaa - Maturity, AnswerLost(r, daa)
  PROVE  Core'
<1> DEFINE all == Append(entries, NewEntry(<<r, 1>>, NoBlock, daa))
<1>1. <<r, 1>> \notin outpointSet /\ SaveState(all) /\ Reloaded
  BY DEF AnswerLost
<1>2. /\ Good(entries) /\ Good(file) /\ outpointSet = OutpointsOf(entries)
      /\ ~crossed => Justified(entries, spent, hopeless) /\ Justified(file, spent, hopeless)
  BY DEF Core, Lists, IndexesMatchEntries
<1>3. /\ Good(all)
      /\ \A won, lost : Justified(entries, won, lost) => Justified(all, won, lost)
  BY <1>1, <1>2, AnsweredEntryFacts
<1> HIDE DEF all
<1>4. writeFailed' \in BOOLEAN /\ (file' = all \/ file' = file \/ file' = <<>>)
  BY <1>1, SaveFacts
<1>5. Good(file') /\ (~crossed => Justified(file', spent, hopeless))
  BY <1>2, <1>3, <1>4, EmptyIsGood
<1> QED BY <1>1, <1>4, <1>5, ReloadKeepsCore

LEMMA StepKeepsCore == Core /\ [Next]_vars => Core'
<1> SUFFICES ASSUME Core, [Next]_vars PROVE Core'
  OBVIOUS
<1>1. CASE UNCHANGED vars
  <2>1. /\ UNCHANGED <<entries, outpointSet, blockIndex, pending, lastDaa, sinceCompact>>
        /\ UNCHANGED <<dirty, file, writeFailed, inFlight, spent, hopeless, crossed, restarts>>
    BY <1>1 DEF vars, watcher, indexes, disk, node
  <2>2. Lists(entries)' /\ Lists(file)'
    BY <2>1 DEF Core, Lists
  <2>3. IndexesMatchEntries' /\ FileIsCurrent' /\ Scalars' /\ Claiming'
    BY <2>1 DEF Core, IndexesMatchEntries, FileIsCurrent, Scalars, Claiming, OneClaimInFlight
  <2> QED BY <2>2, <2>3 DEF Core
<1>2. ASSUME NEW b \in Blocks, OwnBlock(b) PROVE Core'
  <2>1. BlockDaa[b] \in 0 .. MaxDaa
    BY NamesAssumption
  <2> QED BY <1>2, <2>1, HandleBlockKeepsCore DEF OwnBlock
<1>3. ASSUME NEW daa \in 0 .. MaxDaa, OtherBlock(daa) PROVE Core'
  <2>1. CASE HandleBlock(NoBlock, daa, {}, FALSE)
    BY <2>1, HandleBlockKeepsCore
  <2>2. ASSUME NEW b \in Blocks, NEW bare \in BOOLEAN, HandleBlock(NoBlock, daa, {b}, bare)
        PROVE  Core'
    BY <2>2, HandleBlockKeepsCore
  <2> QED BY <1>3, <2>1, <2>2 DEF OtherBlock
<1>4. ASSUME NEW r \in Requests, NEW daa \in 0 .. MaxDaa - Maturity, AnswerRequest(r, daa)
      PROVE  Core'
  BY <1>4, AnswerRequestKeepsCore
<1>5. CASE AnswerAccepted \/ AnswerOrphaned \/ AnswerLocked \/ AnswerRejected
  BY <1>5, AnswerKeepsCore
<1>6. CASE Restart
  BY <1>6, RestartKeepsCore
<1>7. ASSUME NEW r \in Requests, NEW daa \in 0 .. MaxDaa - Maturity, AnswerLost(r, daa)
      PROVE  Core'
  BY <1>7, AnswerLostKeepsCore
<1> QED BY <1>1, <1>2, <1>3, <1>4, <1>5, <1>6, <1>7 DEF Next

LEMMA AlwaysSafe == Spec => []Safe
<1>1. Spec => []Core
  BY InitIsCore, StepKeepsCore, PTL DEF Spec
<1> QED BY <1>1, CoreIsSafe, PTL

(* Types, indexes, one entry per outpoint and at most one claim in flight, *)
(* through blocks, answers, failed writes and restarts (EscrowWatcher).    *)
THEOREM EscrowInvariant == Spec => []IInv
<1>1. Safe => IInv
  BY DEF Safe
<1> QED BY <1>1, AlwaysSafe, PTL

(* Nothing is marked claimed that the node did not accept                  *)
(* (on_submit_response), unless an AI answer and a claim were in flight    *)
(* together.                                                               *)
THEOREM ClaimsAreAccepted == Spec => []ClaimedWasAccepted
<1>1. Safe => ClaimedWasAccepted
  BY DEF Safe
<1> QED BY <1>1, AlwaysSafe, PTL

(* Nothing is written off without a reason, under the same proviso         *)
(* (handle_block, on_submit_response).                                     *)
THEOREM LossesHaveAReason == Spec => []SlashedForAReason
<1>1. Safe => SlashedForAReason
  BY DEF Safe
<1> QED BY <1>1, AlwaysSafe, PTL

(* Whichever handler changed the entries, a state that is not dirty is in  *)
(* the file unless the last write failed (mark_dirty, maybe_flush).        *)
THEOREM CleanStateIsSaved == Spec => []FileIsCurrent
<1>1. Safe => FileIsCurrent
  BY DEF Safe
<1> QED BY <1>1, AlwaysSafe, PTL
================================================================================
