------------------------------- MODULE Possession ------------------------------
(***************************************************************************)
(* How a miner proves that it holds the weights of its model: the index    *)
(* over the weights' file with its Merkle tree on disk, the same layout in *)
(* the memory of the GPU, the walk that a nonce starts, the proof, and the *)
(* block or share that carries it (pom.rs, pow.rs, pom_gpu.rs, pom_mine.cu *)
(* and the jobs of grpc.rs and stratum.rs).                                *)
(*                                                                         *)
(* A chunk of weights is named by its place in the file.  Hashes are       *)
(* parameters, or records of what is hashed where the proof opens them;    *)
(* the challenges are any, but the same for the same question.  What the   *)
(* devices, tiers and other threads do meanwhile is modelled in Devices    *)
(* and Mining.                                                             *)
(***************************************************************************)
EXTENDS Targets, Sequences, SequencesExt

CONSTANTS
  Layouts,         \* weights: tensors by name, each [size, at]
  ChunkSize,       \* 32
  Steps,           \* POM_WALK_STEPS
  Openings,        \* POM_OPENINGS
  Nonces,          \* bound: nonces of a batch
  Compacts,        \* compact targets of blocks
  Recips,          \* reciprocals of a pool's difficulties
  Scores,          \* DAA scores
  PomActivation, LevelActivation,
  Hashes,          \* digests of headers, as words
  States,          \* of a walk, 64 bits
  HeaderHash(_),           \* HeaderHasher
  Salt(_),                 \* the words of a hash with POM_H3_PPH_SALT
  SeedFold(_, _, _),       \* words, time and nonce to the first state
  Transition(_, _),        \* state and chunk to the next state
  PowFold(_, _),           \* last state and words to a number
  HeavyHash(_, _, _),      \* hash, time and nonce to a number
  None

VARIABLES
  weights,   \* the tensors of the file
  \* the possession index
  phase,     \* of its build, and of the installation on the GPU
  read,      \* tensors read
  chunks,    \* n_chunks
  table,     \* first chunk and place of each tensor with chunks
  tree,      \* nodes in the tree's file
  levels,    \* level_offsets: [from, count]
  gather,    \* the GPU's [bases, prefix], or None
  \* the pool
  recip, poolTarget,
  \* mining
  job,       \* [pool, header, target]
  candidate, \* what the GPU found
  block,     \* the block or share built, [nonce, final, proof]
  asked      \* the question of the proof's challenges, and these

ASSUME PossessionAssumption ==
  /\ ChunkSize \in Nat \ {0} /\ Steps \in Nat \ {0} /\ Openings \in Nat
  /\ Layouts \subseteq Seq([size : Nat, at : Nat])
  /\ Nonces \subseteq Nat /\ Scores \subseteq Nat /\ States \subseteq Nat
  /\ PomActivation \in Nat /\ LevelActivation \in Nat

(* The compact targets fit in 256 bits and those shifted right are not     *)
(* negative; the reciprocal of an f32 times 0xffff is less than 2^64 and   *)
(* its exponent no less than -149.                                         *)
ASSUME NumberAssumption ==
  /\ Diff1Mantissa \in Nat /\ Diff1Exponent \in Nat
  /\ \A bits \in Compacts :
       /\ bits.exponent \in Nat /\ bits.mantissa \in Nat
       /\ bits.exponent < 3 => bits.mantissa < Pow2[3 * ByteBits - 1]
       /\ bits.exponent > 3 =>
            bits.mantissa * Pow2[ByteBits * (bits.exponent - 3)] < Base * Base * Base * Base
  /\ \A r \in Recips :
       /\ r.mantissa \in Nat /\ r.exponent \in Int
       /\ Exponent(r) >= 0 /\ Mantissa(r) < Base

index == <<phase, read, chunks, table, tree, levels, gather>>
pool == <<recip, poolTarget>>
vars == <<weights, index, pool, job, candidate, block, asked>>

NoQuestion == [of |-> None, drawn |-> <<>>]

Header(bits, daa) ==
  [bits |-> bits, daa |-> daa, time |-> 1, nonce |-> 0, pomFinalState |-> 0]

Init ==
  /\ weights \in Layouts
  /\ phase = "none" /\ read = 0 /\ chunks = 0
  /\ table = <<>> /\ tree = <<>> /\ levels = <<>> /\ gather = None
  /\ recip = None /\ poolTarget = FromU64(0)
  /\ job = None /\ candidate = None /\ block = None /\ asked = NoQuestion

--------------------------------------------------------------------------------
(* Merkle trees in memory, of the trace and (by the node) of the weights.  *)

\* The sequence itself, which TLC evaluates here, once for all its uses.
Built(seq) == <<>> \o seq

Leaf(x) == [leaf |-> x]
Leaves(items) == Built([i \in DOMAIN items |-> Leaf(items[i])])
Pair(left, right) == [left |-> left, right |-> right]

\* The next level; the last node of an odd one is paired with itself.
Reduce(level) ==
  Built([i \in 1 .. (Len(level) + 1) \div 2 |->
           Pair(level[2 * i - 1], level[IF 2 * i <= Len(level) THEN 2 * i ELSE 2 * i - 1])])

\* The levels of a tree, the leaves first, for as long as the last one has more
\* than one node.
MerkleTree(leaves) ==
  LET upTo[l \in 0 .. Len(leaves)] ==
        IF l = 0 THEN <<leaves>>
        ELSE LET below == upTo[l - 1]
             IN IF Len(Last(below)) > 1 THEN Append(below, Reduce(Last(below))) ELSE below
  IN upTo[Len(leaves)]

MerkleRoot(level) == Last(level)[1]

\* The sibling of a node, or the node where the level has no such.
Partner(i, count) ==
  LET sibling == IF i % 2 = 0 THEN i + 1 ELSE i - 1
  IN IF sibling < count THEN sibling ELSE i

MerkleProof(level, i) ==
  [l \in 1 .. Len(level) - 1 |-> level[l][1 + Partner(i \div Pow2[l - 1], Len(level[l]))]]

VerifyMerkle(leaf, i, path, root) ==
  LET node[l \in 0 .. Len(path)] ==
        IF l = 0 THEN leaf
        ELSE IF (i \div Pow2[l - 1]) % 2 = 0 THEN Pair(node[l - 1], path[l])
        ELSE Pair(path[l], node[l - 1])
  IN node[Len(path)] = root

--------------------------------------------------------------------------------
(* The index. *)

BeginBuild ==
  /\ phase = "none" /\ phase' = "leaves"
  /\ read' = 0 /\ chunks' = 0 /\ table' = <<>> /\ tree' = <<>> /\ levels' = <<>>
  /\ UNCHANGED <<weights, gather, pool, job, candidate, block, asked>>

Full(tensor) == tensor.size \div ChunkSize
Place(tensor, c) == tensor.at + c * ChunkSize

ReadTensor ==
  /\ phase = "leaves" /\ read < Len(weights)
  /\ LET tensor == weights[read + 1]
     IN /\ table' = IF Full(tensor) > 0
                    THEN Append(table, [start |-> chunks, at |-> tensor.at]) ELSE table
        /\ tree' = tree \o [c \in 1 .. Full(tensor) |-> Leaf(Place(tensor, c - 1))]
        /\ chunks' = chunks + Full(tensor)
  /\ read' = read + 1
  /\ UNCHANGED <<weights, phase, levels, gather, pool, job, candidate, block, asked>>

EndLeaves ==
  /\ phase = "leaves" /\ read = Len(weights) /\ chunks > 0
  /\ phase' = "levels" /\ levels' = <<[from |-> 0, count |-> chunks]>>
  /\ UNCHANGED <<weights, read, chunks, table, tree, gather, pool, job, candidate,
                 block, asked>>

(* finalize_disk_tree: one level is read back and the next one appended.   *)
ReduceLevel ==
  /\ phase = "levels" /\ Last(levels).count > 1
  /\ LET level == Last(levels)
         next == Reduce(SubSeq(tree, level.from + 1, level.from + level.count))
     IN /\ tree' = tree \o next
        /\ levels' = Append(levels, [from |-> level.from + level.count, count |-> Len(next)])
  /\ UNCHANGED <<weights, phase, read, chunks, table, gather, pool, job, candidate,
                 block, asked>>

EndBuild ==
  /\ phase = "levels" /\ Last(levels).count = 1 /\ phase' = "ready"
  /\ UNCHANGED <<weights, read, chunks, table, tree, levels, gather, pool, job,
                 candidate, block, asked>>

(* The file system, or a model without chunks; the worker tries again.     *)
BuildFails ==
  /\ phase \in {"leaves", "levels"} /\ phase' = "none"
  /\ UNCHANGED <<weights, read, chunks, table, tree, levels, gather, pool, job,
                 candidate, block, asked>>

ReadChunk(off) ==
  LET entry == table[Cardinality({i \in DOMAIN table : table[i].start <= off})]
  IN entry.at + (off - entry.start) * ChunkSize

(* Mutant: the sibling of the last node is what follows it in the file.    *)
MerklePathBeyond(off) ==
  [l \in 1 .. Len(levels) - 1 |->
     tree[levels[l].from + Partner(off \div Pow2[l - 1], levels[l].count + 1) + 1]]

MerklePath(off) ==
  [l \in 1 .. Len(levels) - 1 |->
     tree[levels[l].from + Partner(off \div Pow2[l - 1], levels[l].count) + 1]]

--------------------------------------------------------------------------------
(* The layout on the GPU (load and load_shared, which takes some of the    *)
(* buffers from the inference engine), and its guard.                      *)

LayoutOf(tensors) ==
  LET layout[t \in 0 .. Len(tensors)] ==
        IF t = 0 THEN [bases |-> <<>>, prefix |-> <<0>>]
        ELSE LET before == layout[t - 1]
             IN IF Full(tensors[t]) = 0 THEN before
                ELSE [bases |-> Append(before.bases, tensors[t].at),
                      prefix |-> Append(before.prefix, Last(before.prefix) + Full(tensors[t]))]
  IN layout[Len(tensors)]

(* Mutant: the tensors as they come in the file. *)
GatherUnsorted == LayoutOf(SortSeq(weights, LAMBDA a, b : a.at < b.at))

Gather == LayoutOf(weights)

Install ==
  /\ phase = "ready" /\ Last(Gather.prefix) = chunks
  /\ gather' = Gather /\ phase' = "installed"
  /\ UNCHANGED <<weights, read, chunks, table, tree, levels, pool, job, candidate,
                 block, asked>>

\* An inference takes the memory.
Uninstall ==
  /\ phase = "installed" /\ phase' = "ready" /\ gather' = None
  /\ UNCHANGED <<weights, read, chunks, table, tree, levels, pool, job, candidate,
                 block, asked>>

\* The kernel's binary search for the last prefix that is not beyond off, which
\* halves the range between two tensors until they are neighbours.
Narrow(range, off) ==
  LET mid == (range.lo + range.hi) \div 2
  IN IF range.lo + 1 >= range.hi THEN range
     ELSE IF gather.prefix[mid + 1] <= off THEN [range EXCEPT !.lo = mid]
     ELSE [range EXCEPT !.hi = mid]

Search(off) ==
  LET range[n \in 0 .. Len(gather.bases)] ==
        IF n = 0 THEN [lo |-> 0, hi |-> Len(gather.bases)] ELSE Narrow(range[n - 1], off)
  IN range[Len(gather.bases)].lo

GatheredChunk(off) ==
  LET t == Search(off)
  IN gather.bases[t + 1] + (off - gather.prefix[t + 1]) * ChunkSize

--------------------------------------------------------------------------------
(* Jobs. *)

H3(header) == header.daa >= LevelActivation

SerializeHeader(header, forPrePow) ==
  <<header.bits.exponent, header.bits.mantissa, header.daa,
    IF forPrePow THEN 0 ELSE header.time, IF forPrePow THEN 0 ELSE header.nonce>>
  \o IF ~forPrePow /\ H3(header) THEN <<header.pomFinalState>> ELSE <<>>

PrePowHash(header) == HeaderHash(SerializeHeader(header, TRUE))

(* A pool's difficulty; too small a one ends the session, whose client has *)
(* the target, and one so small that there is no such word the process.    *)
SetDifficulty(r) ==
  /\ ~OutOfBounds(r)
  /\ IF TooBig(r) THEN recip' = None /\ poolTarget' = FromU64(0)
     ELSE recip' = r /\ poolTarget' = TargetOf(r)
  /\ UNCHANGED <<weights, index, job, candidate, block, asked>>

NewRound ==
  /\ candidate' = None /\ block' = None /\ asked' = NoQuestion
  /\ UNCHANGED <<weights, index, pool>>

\* A solo miner's template; a pool's job, whose header the pool keeps.
FullBlock(bits, daa) ==
  /\ job' = [pool |-> FALSE, header |-> Header(bits, daa), target |-> FromCompact(bits)]
  /\ NewRound

PartialBlock(bits, daa) ==
  /\ job' = [pool |-> TRUE, header |-> Header(bits, daa), target |-> poolTarget]
  /\ NewRound

--------------------------------------------------------------------------------
(* Walks and proofs. *)

WordsFor(header) ==
  IF H3(header) THEN Salt(PrePowHash(header)) ELSE PrePowHash(header)

Seed(header, nonce) == SeedFold(WordsFor(header), header.time, nonce)

(* What is hashed gives words and states of their width. *)
ASSUME HashAssumption ==
  /\ \A bits \in Compacts, daa \in Scores : PrePowHash(Header(bits, daa)) \in Hashes
  /\ \A hash \in Hashes :
       /\ Salt(hash) \in Hashes
       /\ \A nonce \in Nonces :
            SeedFold(hash, 1, nonce) \in States /\ HeavyHash(hash, 1, nonce) \in Uint256
       /\ \A state \in States : PowFold(state, hash) \in Uint256
  /\ \A tensors \in Layouts : \A t \in DOMAIN tensors : \A c \in 0 .. Full(tensors[t]) - 1 :
       \A state \in States : Transition(state, Place(tensors[t], c)) \in States

\* The states of a walk over count chunks.
Trace(seed, count, chunk) ==
  LET walk[i \in 0 .. Steps] ==
        IF i = 0 THEN <<seed>>
        ELSE LET before == walk[i - 1]
                 state == Last(before)
             IN Append(before, Transition(state, chunk[state % count]))
  IN walk[Steps]

HostTrace(nonce) ==
  Trace(Seed(job.header, nonce), chunks, [off \in 0 .. chunks - 1 |-> ReadChunk(off)])

PowValue(final, header) == PowFold(final, WordsFor(header))

(* pom_mine: the lowest nonce of the batch whose walk meets the target.    *)
GpuTrace(nonce) ==
  LET count == Last(gather.prefix)
  IN Trace(Seed(job.header, nonce), count, [off \in 0 .. count - 1 |-> GatheredChunk(off)])

Winners == {n \in Nonces : Leq(PowValue(Last(GpuTrace(n)), job.header), job.target)}

GpuMine ==
  /\ phase = "installed" /\ job # None /\ job.header.daa >= PomActivation
  /\ candidate = None /\ block = None
  /\ LET winners == Winners
     IN /\ winners # {}
        /\ candidate' = CHOOSE n \in winners : \A m \in winners : n <= m
  /\ UNCHANGED <<weights, index, pool, job, block, asked>>

Question(header, nonce, traceRoot, powValue) ==
  [pph |-> PrePowHash(header), nonce |-> nonce, root |-> traceRoot, pow |-> powValue]

(* build_proof, for the challenges drawn. *)
Opening(trace, level, i) ==
  LET off == trace[i + 1] % chunks
  IN [stateBefore |-> trace[i + 1],
      chunk |-> ReadChunk(off),
      weightPath |-> MerklePath(off),
      tracePathBefore |-> MerkleProof(level, i),
      tracePathAfter |-> MerkleProof(level, i + 1)]

BuildProof(trace, drawn) ==
  LET level == MerkleTree(Leaves(trace))
  IN [traceRoot |-> MerkleRoot(level),
      powValue |-> PowValue(Last(trace), job.header),
      finalState |-> Last(trace),
      initialTracePath |-> MerkleProof(level, 0),
      finalTracePath |-> MerkleProof(level, Steps),
      openings |-> [j \in DOMAIN drawn |-> Opening(trace, level, drawn[j])]]

\* What a full block's header says of the final state; a share has no header.
FinalState(trace) == IF ~job.pool /\ H3(job.header) THEN Last(trace) ELSE 0

Draws == [1 .. Openings -> 0 .. Steps - 1]

(* generate_block_if_pom *)
Generate(nonce) ==
  LET trace == HostTrace(nonce)
  IN IF LeLeq(PowValue(Last(trace), job.header), job.target)
     THEN \E drawn \in Draws :
            LET proof == BuildProof(trace, drawn)
            IN /\ block' = [nonce |-> nonce, pomFinalState |-> FinalState(trace), proof |-> proof]
               /\ asked' = [of |-> Question(job.header, nonce, proof.traceRoot, proof.powValue),
                            drawn |-> drawn]
     ELSE UNCHANGED <<block, asked>>

Rewalk ==
  /\ candidate # None /\ phase \in {"ready", "installed"}
  /\ Generate(candidate) /\ candidate' = None
  /\ UNCHANGED <<weights, index, pool, job>>

CpuPossession(nonce) ==
  /\ job # None /\ job.header.daa >= PomActivation /\ phase \in {"ready", "installed"}
  /\ candidate = None /\ block = None
  /\ Generate(nonce)
  /\ UNCHANGED <<weights, index, pool, job, candidate>>

(* generate_block_if_pow, before the activation. *)
HeavyValue(header, nonce) == HeavyHash(PrePowHash(header), header.time, nonce)

CpuHeavyHash(nonce) ==
  /\ job # None /\ job.header.daa < PomActivation /\ candidate = None /\ block = None
  /\ Leq(HeavyValue(job.header, nonce), job.target)
  /\ block' = [nonce |-> nonce, pomFinalState |-> 0, proof |-> None]
  /\ UNCHANGED <<weights, index, pool, job, candidate, asked>>

Next ==
  \/ BeginBuild \/ ReadTensor \/ EndLeaves \/ ReduceLevel \/ EndBuild \/ BuildFails
  \/ Install \/ Uninstall
  \/ \E r \in Recips : SetDifficulty(r)
  \/ \E bits \in Compacts, daa \in Scores : FullBlock(bits, daa) \/ PartialBlock(bits, daa)
  \/ GpuMine \/ Rewalk
  \/ \E nonce \in Nonces : CpuPossession(nonce) \/ CpuHeavyHash(nonce)

Spec == Init /\ [][Next]_vars

--------------------------------------------------------------------------------
(* The node. *)

\* The chunks of the first tensors in canonical order, and the root of all that
\* the node has pinned for the model.
ChunksOf(tensors) ==
  LET upTo[t \in 0 .. Len(tensors)] ==
        IF t = 0 THEN <<>>
        ELSE upTo[t - 1] \o [c \in 1 .. tensors[t].size \div ChunkSize |->
                               tensors[t].at + (c - 1) * ChunkSize]
  IN upTo

CanonicalChunks == ChunksOf(weights)[Len(weights)]

PinnedRoot == MerkleRoot(MerkleTree(Leaves(CanonicalChunks)))

Draw(question) == IF asked.of = question THEN asked.drawn ELSE <<>>

OpeningHolds(opening, i, proof) ==
  /\ VerifyMerkle(Leaf(opening.stateBefore), i, opening.tracePathBefore, proof.traceRoot)
  /\ VerifyMerkle(Leaf(opening.chunk), opening.stateBefore % Len(CanonicalChunks),
                  opening.weightPath, PinnedRoot)
  /\ VerifyMerkle(Leaf(Transition(opening.stateBefore, opening.chunk)), i + 1,
                  opening.tracePathAfter, proof.traceRoot)

VerifyProof(header, proof, target) ==
  LET drawn == Draw(Question(header, header.nonce, proof.traceRoot, proof.powValue))
  IN /\ Len(proof.openings) = Openings
     /\ PowValue(proof.finalState, header) = proof.powValue
     /\ LeLeq(proof.powValue, target)
     /\ VerifyMerkle(Leaf(Seed(header, header.nonce)), 0, proof.initialTracePath, proof.traceRoot)
     /\ VerifyMerkle(Leaf(proof.finalState), Steps, proof.finalTracePath, proof.traceRoot)
     /\ Len(drawn) = Openings
     /\ \A j \in 1 .. Openings : OpeningHolds(proof.openings[j], drawn[j], proof)

\* What is submitted: the pool takes the final state from the proof.
Submitted ==
  [job.header EXCEPT !.nonce = block.nonce,
     !.pomFinalState = IF job.pool /\ H3(job.header) THEN block.proof.finalState
                       ELSE block.pomFinalState]

NumberOf(bits) ==
  IF bits.mantissa >= Pow2[3 * ByteBits - 1] THEN 0   \* negative
  ELSE IF bits.exponent >= 3 THEN bits.mantissa * Pow2[ByteBits * (bits.exponent - 3)]
  ELSE bits.mantissa \div Pow2[ByteBits * (3 - bits.exponent)]

--------------------------------------------------------------------------------
TypeOK ==
  /\ phase \in {"none", "leaves", "levels", "ready", "installed"}
  /\ read \in 0 .. Len(weights) /\ chunks \in Nat
  /\ phase # "installed" => gather = None
  /\ poolTarget \in Uint256
  /\ job # None => job.target \in Uint256
  /\ candidate \in Nonces \cup {None}

(* A block or share that is submitted is accepted: the node, which has     *)
(* only the header with the nonce and final state that the miner filled    *)
(* in, the proof and the root that it pins for the model, hashes the       *)
(* header to what the walk began with and finds every path of the proof,   *)
(* read from the trees on disk and in memory, right.                       *)
BlocksAreValid ==
  block # None =>
    IF job.header.daa < PomActivation
    THEN Value(HeavyValue(Submitted, block.nonce)) <= Value(job.target)
    ELSE /\ VerifyProof(Submitted, block.proof, job.target)
         /\ H3(Submitted) => Submitted.pomFinalState = block.proof.finalState

(* What the GPU finds by its own layout and order of words, the host       *)
(* confirms by its index and order of bytes: no nonce found is lost.       *)
CandidatesAreConfirmed ==
  candidate # None /\ phase \in {"ready", "installed"} =>
    LeLeq(PowValue(Last(HostTrace(candidate)), job.header), job.target)

(* The target mined to is the one announced: the mantissa of the bits      *)
(* times its power, and the target of difficulty 1 over the pool's         *)
(* difficulty, for all difficulties below that at which the bottom of the  *)
(* target is word-aligned (2^56), where it gets a top that it should not.  *)
TargetsAreExact ==
  /\ job # None /\ ~job.pool =>
       Value(job.target) = NumberOf(job.header.bits)
  /\ recip # None /\ Exponent(recip) > 2 * WordBits =>
       Value(poolTarget) = Mantissa(recip) * Pow2[Exponent(recip)]
================================================================================
