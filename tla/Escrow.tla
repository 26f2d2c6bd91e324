--------------------------------- MODULE Escrow --------------------------------
(***************************************************************************)
(* The escrow watcher of escrow.rs, driven by the message loop of grpc.rs. *)
(* It tracks the escrow outputs that the miner's blocks and its AI answers *)
(* earn, claims each of them once it is mature, and keeps its entries in a *)
(* file that it reads again at every (re)connection.                       *)
(*                                                                         *)
(* The node answers the transactions submitted on a connection in order;   *)
(* which blocks it reports and what it answers is left open.  Only escrow  *)
(* outputs of the miner are told apart: an outpoint is the pair of its     *)
(* transaction (that of a block, or of an AI request) and its index.       *)
(***************************************************************************)
EXTENDS Naturals, Sequences, FiniteSets

CONSTANTS
  Blocks,           \* blocks whose coinbase pays to the miner's escrow script
  Requests,         \* AI requests that the miner answers for a reward
  NoBlock,          \* the empty block hash
  Outputs,          \* [Blocks -> Nat]: how many escrow outputs a block has
  BlockDaa,         \* [Blocks -> Nat]: the DAA score of a block
  Dust,             \* outpoints whose amount does not exceed the claim fee
  Maturity,         \* CHALLENGE_WINDOW_BLOCKS + 10
  OrphanCooldown,   \* ORPHAN_RETRY_COOLDOWN_BLOCKS
  LockCooldown,     \* SEQ_LOCK_RETRY_COOLDOWN_BLOCKS
  MaxRetries,       \* MAX_ORPHAN_RETRIES
  CompactEvery,     \* COMPACT_EVERY_BLOCKS
  Elapsed,          \* whether two seconds have passed since the last write
  Writes,           \* what a write may do to the file
  MaxDaa,           \* bound: the highest DAA score
  MaxInFlight,      \* bound: an AI answer is sent below this many in flight
  MaxRestarts       \* bound: connections after the first

ASSUME NamesAssumption ==
  /\ Blocks \cap Requests = {} /\ NoBlock \notin Blocks
  /\ Outputs \in [Blocks -> Nat] /\ BlockDaa \in [Blocks -> 0 .. MaxDaa]
ASSUME NumbersAssumption ==
  /\ {Maturity, OrphanCooldown, LockCooldown, MaxDaa} \subseteq Nat
  /\ {MaxInFlight, MaxRestarts} \subseteq Nat
  /\ {MaxRetries, CompactEvery} \subseteq Nat \ {0}
ASSUME WritesAssumption == Writes \subseteq {"saved", "kept", "truncated"}

VARIABLES
  entries,        \* EscrowState.entries
  outpointSet,    \* EscrowWatcher.outpoint_set
  blockIndex,     \* EscrowWatcher.block_index; the order of indices is left out
  pending,        \* pending_claim_txid and pending_claim_output_index
  lastDaa,        \* EscrowWatcher.last_daa_score
  sinceCompact,   \* EscrowWatcher.blocks_since_compact
  dirty,          \* EscrowWatcher.dirty
  file,           \* the entries in the state file (none: absent or unreadable)
  inFlight,       \* transactions submitted on this connection, not answered
  spent,          \* node: outpoints of which it accepted a claim
  hopeless,       \* history: outpoints with reason to be written off: their
                  \* block was reported red, or the node refused their claim
  crossed,        \* history: a claim and an AI answer were in flight together
  writeFailed,    \* history: the last write of the file failed
  restarts

indexes == <<outpointSet, blockIndex>>
watcher == <<entries, indexes, pending, lastDaa, sinceCompact, dirty>>
disk == <<file, writeFailed>>
node == <<inFlight, spent, hopeless, crossed>>
vars == <<watcher, disk, node, restarts>>

None == <<>>
CoinbaseOutpoints == UNION {{<<b, i>> : i \in 1 .. Outputs[b]} : b \in Blocks}
Outpoints == CoinbaseOutpoints \cup (Requests \X {1})

Entry ==
  [out : Outpoints, block : Blocks \cup {NoBlock}, daa : 0 .. MaxDaa,
   claimed : BOOLEAN, slashed : BOOLEAN, inference : BOOLEAN,
   retries : 0 .. MaxRetries, retryAfter : 0 .. MaxDaa]

Transaction == [claim : Outpoints \cup {None}]    \* None: an AI answer

NewEntry(out, block, daa) ==
  [out |-> out, block |-> block, daa |-> daa, claimed |-> FALSE,
   slashed |-> FALSE, inference |-> block = NoBlock, retries |-> 0,
   retryAfter |-> 0]

Open(e) == ~e.claimed /\ ~e.slashed

(* Once an entry is settled its cooldown is of no account: it is left out. *)
Claimed(e) == [e EXCEPT !.claimed = TRUE, !.retries = 0, !.retryAfter = 0]
Slashed(e) == [e EXCEPT !.slashed = TRUE, !.retries = 0, !.retryAfter = 0]

(* The elements of s at the positions in P, in their order. *)
Subsequence(s, P) ==
  LET rank(i) == Cardinality({j \in P : j <= i}) IN
  [k \in 1 .. Cardinality(P) |-> s[CHOOSE i \in P : rank(i) = k]]

Positions(es, Test(_)) == {i \in DOMAIN es : Test(es[i])}

(* rebuild_indexes *)
OutpointsOf(es) == {es[i].out : i \in DOMAIN es}
BlockIndexOf(es) ==
  [b \in Blocks |-> {i \in DOMAIN es : es[i].block = b}]

TypeOK ==
  /\ entries \in Seq(Entry) /\ file \in Seq(Entry)
  /\ outpointSet \subseteq Outpoints
  /\ blockIndex \in [Blocks -> SUBSET Nat]
  /\ pending \in Outpoints \cup {None}
  /\ lastDaa \in 0 .. MaxDaa
  /\ sinceCompact \in 0 .. CompactEvery - 1
  /\ dirty \in BOOLEAN
  /\ inFlight \in Seq(Transaction)
  /\ spent \subseteq Outpoints /\ hopeless \subseteq Outpoints
  /\ crossed \in BOOLEAN /\ writeFailed \in BOOLEAN
  /\ restarts \in 0 .. MaxRestarts

(* What --recover-escrow writes (main.rs): an entry for each output that   *)
(* the public API returns, in any order.                                   *)
Recovered ==
  LET Fresh(o) == NewEntry(o, o[1], BlockDaa[o[1]]) IN
  UNION {{[k \in DOMAIN s |-> Fresh(s[k])] :
             s \in {t \in [1 .. n -> CoinbaseOutpoints] :
                      \A i, j \in 1 .. n : i # j => t[i] # t[j]}} :
           n \in 0 .. Cardinality(CoinbaseOutpoints)}

(* EscrowWatcher::new reads the file: absent, or written by an earlier run *)
(* or by --recover-escrow.                                                 *)
Init ==
  /\ file \in Recovered
  /\ entries = file
  /\ outpointSet = OutpointsOf(file)
  /\ blockIndex = BlockIndexOf(file)
  /\ pending = None
  /\ lastDaa = 0 /\ sinceCompact = 0
  /\ dirty = FALSE /\ writeFailed = FALSE
  /\ inFlight = <<>>
  /\ spent = {} /\ hopeless = {}
  /\ crossed = FALSE
  /\ restarts = 0

--------------------------------------------------------------------------------
(* Saving. *)

(* save_state: the write may fail, and then leaves the file as it was or   *)
(* truncated.  (So does a kill during the write: a Restart follows.)       *)
SaveState(es) ==
  \E outcome \in Writes :
    /\ file' = CASE outcome = "saved" -> es
                 [] outcome = "kept" -> file
                 [] outcome = "truncated" -> <<>>
    /\ writeFailed' = (outcome # "saved")

(* Mutant: the interval never elapses. *)
MaybeFlushNever(es, changed) == dirty' = changed /\ UNCHANGED disk

(* maybe_flush, when `changed' is the value of dirty: two seconds have     *)
(* passed since the last write or they have not.                           *)
MaybeFlush(es, changed) ==
  \/ changed /\ TRUE \in Elapsed /\ SaveState(es) /\ dirty' = FALSE
  \/ (changed => FALSE \in Elapsed) /\ dirty' = changed /\ UNCHANGED disk

--------------------------------------------------------------------------------
(* Blocks. *)

Compacted(es) == Subsequence(es, Positions(es, Open))

(* compact rebuilds the indexes if it dropped an entry.                    *)
Dropped(kept) == Len(kept) # Len(entries)

OutpointSetAfter(kept) == IF Dropped(kept) THEN OutpointsOf(kept) ELSE outpointSet

(* Mutant: the block index keeps the old positions. *)
BlockIndexKept(kept) == blockIndex

BlockIndexAfter(kept) == IF Dropped(kept) THEN BlockIndexOf(kept) ELSE blockIndex

(* find_claim: inference entries first, then coinbase entries, in order.   *)
Eligible(e, daa) ==
  Open(e) /\ daa >= e.daa + Maturity /\ daa >= e.retryAfter

Claimable(es, daa) ==
  LET eligible(kind) ==
        {i \in DOMAIN es : es[i].inference = kind /\ Eligible(es[i], daa)}
  IN IF eligible(TRUE) # {} THEN eligible(TRUE) ELSE eligible(FALSE)

Submit(out) ==
  /\ inFlight' = Append(inFlight, [claim |-> out])
  /\ crossed' = (crossed \/ \E i \in DOMAIN inFlight :
                              (inFlight[i].claim = None) # (out = None))

(* Mutant: a claim is submitted although one is pending. *)
FindClaimAnyway(es, daa) ==
  \/ /\ Len(inFlight) < 2
     /\ \E i \in Claimable(es, daa) :
          /\ es[i].out \notin Dust
          /\ pending' = es[i].out
          /\ Submit(es[i].out)
  \/ /\ Len(inFlight) >= 2 \/ Claimable(es, daa) = {}
     /\ UNCHANGED <<pending, inFlight, crossed>>

(* A claim is built for the first claimable entry, unless one is pending;  *)
(* it cannot be built when the amount does not cover the fee.              *)
FindClaim(es, daa) ==
  \/ /\ pending = None
     /\ \E i \in Claimable(es, daa) :
          /\ \A j \in Claimable(es, daa) : i <= j
          /\ es[i].out \notin Dust
          /\ pending' = es[i].out
          /\ Submit(es[i].out)
  \/ /\ \/ pending # None
        \/ Claimable(es, daa) = {}
        \/ \E i \in Claimable(es, daa) :
             es[i].out \in Dust /\ \A j \in Claimable(es, daa) : i <= j
     /\ UNCHANGED <<pending, inFlight, crossed>>

(* The red blocks' entries, found by block_index, are slashed.             *)
SlashReds(es, index, reds) ==
  LET red == UNION {index[b] : b \in reds} IN
  [i \in DOMAIN es |->
     IF i \in red /\ Open(es[i]) /\ ~es[i].inference THEN Slashed(es[i])
     ELSE es[i]]

(* handle_block for a block of the given hash (NoBlock: a block that pays  *)
(* nothing to the miner's escrow) and DAA score whose merge set has these  *)
(* reds.  Without a coinbase txid (`bare') it returns after the reds.      *)
HandleBlock(hash, daa, reds, bare) ==
  LET compact == sinceCompact + 1 >= CompactEvery
      kept == IF compact THEN Compacted(entries) ELSE entries
      known == OutpointSetAfter(kept)
      index == BlockIndexAfter(kept)
      marked == SlashReds(kept, index, reds)
      paid == IF hash = NoBlock THEN 0 ELSE Outputs[hash]
      new == Subsequence([i \in 1 .. paid |-> NewEntry(<<hash, i>>, hash, daa)],
                         {i \in 1 .. paid : <<hash, i>> \notin known})
      all == marked \o new
      changed == dirty \/ Dropped(kept)
  IN /\ lastDaa' = daa
     /\ sinceCompact' = IF compact THEN 0 ELSE sinceCompact + 1
     /\ hopeless' = hopeless \cup {o \in CoinbaseOutpoints : o[1] \in reds}
     /\ \/ /\ bare
           /\ entries' = marked
           /\ outpointSet' = known
           /\ blockIndex' = index
           /\ dirty' = (changed \/ marked # kept)
           /\ UNCHANGED <<disk, pending, inFlight, crossed>>
        \/ /\ ~bare
           /\ entries' = all
           /\ outpointSet' = known \cup OutpointsOf(new)
           /\ blockIndex' =
                [b \in Blocks |-> index[b] \cup
                   (IF b = hash THEN Len(marked) + 1 .. Len(all) ELSE {})]
           /\ FindClaim(all, daa)
           /\ MaybeFlush(all, changed \/ all # kept)
     /\ UNCHANGED <<spent, restarts>>

(* Blocks reported red come one at a time, with a block of somebody else;  *)
(* a red block that the index does not know makes no difference.           *)
OwnBlock(b) == HandleBlock(b, BlockDaa[b], {}, FALSE)

OtherBlock(daa) ==
  \/ HandleBlock(NoBlock, daa, {}, FALSE)
  \/ \E b \in Blocks, bare \in BOOLEAN :
       blockIndex[b] # {} /\ HandleBlock(NoBlock, daa, {b}, bare)

--------------------------------------------------------------------------------
(* AI answers. *)

(* Mutant: a request answered twice is tracked twice. *)
AnswerRequestTwice(r, daa) ==
  LET out == <<r, 1>>
      all == Append(entries, NewEntry(out, NoBlock, daa)) IN
  /\ Len(inFlight) < MaxInFlight
  /\ Submit(None)
  /\ entries' = all
  /\ outpointSet' = outpointSet \cup {out}
  /\ MaybeFlush(all, TRUE)
  /\ UNCHANGED <<blockIndex, pending, lastDaa, sinceCompact, spent, hopeless,
                 restarts>>

(* poll_inference: the AiResponse is submitted, then the escrow output of  *)
(* the request is tracked from the DAA score of the latest template        *)
(* (track_inference_escrow), unless it is known or the request is without  *)
(* a reward.                                                               *)
AnswerRequest(r, daa) ==
  LET out == <<r, 1>>
      all == Append(entries, NewEntry(out, NoBlock, daa)) IN
  /\ Len(inFlight) < MaxInFlight
  /\ Submit(None)
  /\ \/ UNCHANGED <<entries, outpointSet, dirty, disk>>
     \/ /\ out \notin outpointSet
        /\ entries' = all
        /\ outpointSet' = outpointSet \cup {out}
        /\ MaybeFlush(all, TRUE)
  /\ UNCHANGED <<blockIndex, pending, lastDaa, sinceCompact, spent, hopeless,
                 restarts>>

--------------------------------------------------------------------------------
(* Answers of the node. *)

(* What becomes of the entry whose claim was answered. *)
Orphaned(e) ==
  IF e.retries + 1 >= MaxRetries THEN Slashed(e)
  ELSE [e EXCEPT !.retries = @ + 1, !.retryAfter = lastDaa + OrphanCooldown]

Locked(e) == [e EXCEPT !.retryAfter = lastDaa + LockCooldown]

After(verdict, e) ==
  CASE verdict = "accepted" -> Claimed(e)
    [] verdict = "orphan" -> Orphaned(e)
    [] verdict = "locked" -> Locked(e)
    [] verdict = "refused" -> Slashed(e)

(* Mutant: the answer is dropped, and the claim stays pending, if its entry *)
(* is gone.                                                                 *)
OnSubmitResponseIfTracked(verdict) ==
  IF pending \notin OutpointsOf(entries)
  THEN UNCHANGED <<entries, pending, dirty, disk>>
  ELSE /\ entries' = [i \in DOMAIN entries |->
                        IF entries[i].out = pending THEN After(verdict, entries[i])
                        ELSE entries[i]]
       /\ pending' = None
       /\ MaybeFlush(entries', TRUE)

(* Mutant: the state is not marked dirty. *)
OnSubmitResponseUnmarked(verdict) ==
  IF pending = None THEN UNCHANGED <<entries, pending, dirty, disk>>
  ELSE /\ entries' = [i \in DOMAIN entries |->
                        IF entries[i].out = pending THEN After(verdict, entries[i])
                        ELSE entries[i]]
       /\ pending' = None
       /\ MaybeFlush(entries', dirty)

(* on_submit_response: whatever was answered, the answer is taken for that *)
(* of the pending claim.  Its entry may be gone: then nothing changes.     *)
OnSubmitResponse(verdict) ==
  IF pending = None THEN UNCHANGED <<entries, pending, dirty, disk>>
  ELSE /\ entries' = [i \in DOMAIN entries |->
                        IF entries[i].out = pending THEN After(verdict, entries[i])
                        ELSE entries[i]]
       /\ pending' = None
       /\ MaybeFlush(entries', TRUE)

(* SubmitTransactionResponse for the transaction submitted first.          *)
Response(verdict) ==
  /\ inFlight # <<>>
  /\ inFlight' = Tail(inFlight)
  /\ OnSubmitResponse(verdict)
  /\ UNCHANGED <<indexes, lastDaa, sinceCompact, crossed, restarts>>

Claims(out) == inFlight # <<>> /\ Head(inFlight).claim = out

(* Of two claims of an output the node accepts one.                        *)
AnswerAccepted ==
  /\ Response("accepted")
  /\ \/ Claims(None) /\ UNCHANGED spent
     \/ \E out \in Outpoints \ spent : Claims(out) /\ spent' = spent \cup {out}
  /\ UNCHANGED hopeless

(* An AI answer, which spends nothing, is never an orphan or locked.       *)
AnswerOrphaned ==
  /\ lastDaa + OrphanCooldown <= MaxDaa
  /\ Response("orphan")
  /\ \E out \in Outpoints :
       /\ Claims(out)
       /\ hopeless' = hopeless \cup
            {out : e \in {x \in {entries[i] : i \in DOMAIN entries} :
                            x.out = out /\ x.retries + 1 >= MaxRetries}}
  /\ UNCHANGED spent

AnswerLocked ==
  /\ lastDaa + LockCooldown <= MaxDaa
  /\ \E out \in Outpoints \ spent : Claims(out)
  /\ Response("locked")
  /\ UNCHANGED <<spent, hopeless>>

AnswerRejected ==
  /\ Response("refused")
  /\ \/ Claims(None) /\ UNCHANGED hopeless
     \/ \E out \in Outpoints : Claims(out) /\ hopeless' = hopeless \cup {out}
  /\ UNCHANGED spent

--------------------------------------------------------------------------------
(* A new watcher starts from the file: changes not saved are lost, and so  *)
(* are the answers to what is in flight (some of which the node may have   *)
(* accepted).                                                              *)
Reloaded ==
  /\ restarts < MaxRestarts
  /\ restarts' = restarts + 1
  /\ entries' = file'
  /\ outpointSet' = OutpointsOf(file')
  /\ blockIndex' = BlockIndexOf(file')
  /\ pending' = None
  /\ lastDaa' = 0 /\ sinceCompact' = 0
  /\ dirty' = FALSE
  /\ inFlight' = <<>>
  /\ \E won \in SUBSET {out \in Outpoints : \E i \in DOMAIN inFlight :
                                              inFlight[i].claim = out} :
       spent' = spent \cup won
  /\ UNCHANGED <<hopeless, crossed>>

(* The connection is lost, or the program killed.                          *)
Restart == UNCHANGED disk /\ Reloaded

(* poll_inference when the connection is lost: that the AiResponse cannot  *)
(* be sent is only logged, the output of the request is tracked all the    *)
(* same, and the session ends with the next send.  If the new entry is not *)
(* written it is lost, which is a Restart.                                 *)
AnswerLost(r, daa) ==
  LET out == <<r, 1>> IN
  /\ out \notin outpointSet
  /\ TRUE \in Elapsed /\ SaveState(Append(entries, NewEntry(out, NoBlock, daa)))
  /\ Reloaded

--------------------------------------------------------------------------------

Next ==
  \/ \E b \in Blocks : OwnBlock(b)
  \/ \E daa \in 0 .. MaxDaa : OtherBlock(daa)
  \/ \E r \in Requests, daa \in 0 .. MaxDaa - Maturity :
       AnswerRequest(r, daa) \/ AnswerLost(r, daa)
  \/ AnswerAccepted \/ AnswerOrphaned \/ AnswerLocked \/ AnswerRejected
  \/ Restart

(* Blocks of a higher DAA score keep coming, again and again when no claim *)
(* is pending and two seconds have passed since the last write; and the    *)
(* node answers what it is sent, no claim for ever with a sequence lock.   *)
(* Nothing makes the miner's own blocks come.                              *)
Fairness ==
  /\ SF_vars(pending = None /\ HandleBlock(NoBlock, MaxDaa, {}, FALSE) /\ ~dirty')
  /\ \A out \in Outpoints \cup {None} :
       SF_vars(Claims(out) /\ (AnswerAccepted \/ AnswerOrphaned \/ AnswerRejected))

Spec == Init /\ [][Next]_vars /\ Fairness

--------------------------------------------------------------------------------
(* What makes the watcher correct. *)

(* The two indexes say of the entries what a scan of them would            *)
(* (rebuild_indexes, kept up by handle_block and track_inference_escrow).  *)
IndexesMatchEntries ==
  outpointSet = OutpointsOf(entries) /\ blockIndex = BlockIndexOf(entries)

(* An outpoint has one entry, so that the answer to its claim, looked up   *)
(* by outpoint, and its dedup concern the same one.                        *)
OneEntryPerOutpoint ==
  \A es \in {entries, file} : \A i, j \in DOMAIN es :
    es[i].out = es[j].out => i = j

(* A pending claim is under way, so that it is answered some day; and if   *)
(* the miner submitted nothing else meanwhile, it is the only one.         *)
OneClaimInFlight ==
  /\ pending # None => \E i \in DOMAIN inFlight : inFlight[i].claim = pending
  /\ ~crossed =>
       \/ \A i \in DOMAIN inFlight : inFlight[i].claim = None
       \/ inFlight = <<[claim |-> pending]>>

(* A coinbase entry is of an output of the block it is indexed by.         *)
EntriesOfTheirBlock ==
  \A es \in {entries, file} : \A i \in DOMAIN es : ~es[i].inference =>
    es[i].out \in CoinbaseOutpoints /\ es[i].out[1] = es[i].block

IInv ==
  /\ TypeOK /\ IndexesMatchEntries /\ OneEntryPerOutpoint
  /\ OneClaimInFlight /\ EntriesOfTheirBlock

(* An entry is marked claimed, in memory or in the file, only if the node  *)
(* accepted a claim of that very output (on_submit_response) - as long as  *)
(* no AI answer is in flight together with a claim.                        *)
ClaimedWasAccepted ==
  ~crossed => \A es \in {entries, file} : \A i \in DOMAIN es :
                es[i].claimed => es[i].out \in spent

(* An entry is written off only if its own block was reported red, or if   *)
(* the node refused its own claim for good (handle_block,                  *)
(* on_submit_response) - under the same proviso.                           *)
SlashedForAReason ==
  ~crossed => \A es \in {entries, file} : \A i \in DOMAIN es :
                es[i].slashed => es[i].out \in hopeless

(* When nothing is to be saved the file holds the entries, whichever       *)
(* handler changed them, unless the last write failed (mark_dirty).        *)
FileIsCurrent == ~dirty /\ ~writeFailed => file = entries

(* What is changed in memory reaches the file, however long the debounce   *)
(* puts it off (maybe_flush).                                              *)
FileCatchesUp == []<>(file = entries \/ writeFailed)

OpenEntry(out) ==
  \E i \in DOMAIN entries : entries[i].out = out /\ Open(entries[i])

(* Every tracked output is claimed or written off in the end, whatever is  *)
(* rejected, retried, compacted away or claimed before it - unless some    *)
(* tracked amount does not cover the fee, which stops all claims behind it *)
(* (find_claim).                                                           *)
EveryEntrySettles ==
  \A out \in Outpoints :
    OpenEntry(out) ~> ~OpenEntry(out) \/ \E small \in Dust : OpenEntry(small)

================================================================================
