# A verification of keryx-miner in TLA+

`keryx-miner` is a miner for the Keryx block DAG.  It mines on GPUs and CPUs,
either alone against a `keryxd` node or in a pool, by a proof of work that walks
over the weights of a language model (PoM, "proof of model"), and it answers AI
requests with the same model (OPoI).  A part of every reward is locked in an
escrow output, which the miner claims after a challenge window.

This directory models its control: who hands what to whom, in which order, with
which failures in between.  Paths below are relative to `keryx-miner/src/`.

## 1. Inventory

| Component | State | Operations | Hard behaviour | What makes it correct |
|---|---|---|---|---|
| `watch.rs`, latest-value channel | value (RwLock), id and sender_alive (atomics), a mutex with a condition variable, `last_observed` per receiver | `send`, drop of the sender; `get_changed`, `wait_for_change`, clone and drop of a receiver | the id is read without the lock; `send` interleaves with both halves of a check and with a wait | no update and no wake-up is lost; values in order; a closed channel is noticed |
| `miner.rs`, mining threads | `is_synced`, the channel, per thread its job, nonce mask; the submit channel (capacity 1) | `process_block(Some / None)`, drop of the manager; a thread waits, polls, searches, submits | a thread blocked on a full or dead submit channel; commands skipped or handed over twice; detached threads | a thread never returns to an older job, sees every newest command, ends with its manager; a pause stops searches |
| `escrow.rs`, escrow watcher | entries, two indexes over them, the pending claim, a state file written at most every 2 s | `handle_block`, `on_submit_response`, `track_inference_escrow`, compaction, flush, restart | the node's answers carry no reference; positions shift at compaction; retries with cooldowns; crashes between change and write | an output has one entry, its verdict is the node's verdict on it, every output gets a verdict, the file follows memory |
| `client/grpc.rs`, node client | AI request queue, seen ids, in-flight inference and challenge, last DAA score | one loop over node messages and a 200 ms timer | inference finishing between messages; a pause that stops the very messages that would end it | a request is answered once; mining is paused exactly while an inference is in flight and resumes |
| `client/stratum.rs`, pool client | pending shares, statistics, difficulty, nonce range, task slot, inference cache | notify, set_difficulty, set_extranonce, challenge, AI task, replies to shares; the submit task | submit task and reader share `shares_pending`; replies late, doubled or across connections | a share is settled once, by the reply to it; one inference at a time per connection |
| `pom_gpu.rs` with `slm.rs`, GPU sharing | per device: walk installed, mining tier, inference busy, banned models; the inference engine's model | install, mine, evict for inference, downgrade after out-of-memory | an inference starting while a walk is being installed; flags cleared by an earlier connection's inference | a walk is over the model of its index; locks and flags are let go of, panics included; installations and inferences end (that an inference and a walk keep apart on a GPU is not among them, section 6) |
| `slm.rs`, `models.rs`, model files | files with completion marks, served line-up | download with resume and retries, line-up switch | a crash or short file between download and mark; responses without a length; files touched between starts | a model served is complete; what was downloaded is not lost |
| `pom.rs`, `pow.rs`, index and proofs | Merkle tree over the weights in memory or in a temporary file, index per device | build, share, invalidate, walk, prove, verify | trees dropped while in use; odd leaf counts | what the host proves the verifier accepts, and no path for another chunk |
| `main.rs`, start and sessions | tier and model per GPU, failure counter | stage, download, assign, probe; connect, run, drop, back off | mixed rigs at the floors of the tiers; order of drops at the end of a session | each GPU mines the best model that fits it; a session's threads and tasks end with it |
| `target.rs`, `pow/*` | - | compact targets, pool difficulties, kHeavyHash | width, sign and overflow of exponents | the target mined to is the one announced |
| `rxengine/`, `cpu_randomx.rs`, RandomX engine | a session loop with the current job and dataset; job, epoch, nonce dispenser and two flags shared with the workers | login, job, rebuild for a seed, share, deadline of a round; a worker loads, hashes, leaves | `set_job` writes three variables one after the other under the workers' reads; workers keep copies across rebuilds; joins inside the loop | a share for the newest job is of its dataset; no nonces twice; workers follow; rounds end |
| `inference/`, `ipfs.rs`, plugins, split models, vendored kernels | - | data transformations and I/O | - | not modelled |

Interaction: `main.rs` connects a client (`grpc.rs` or `stratum.rs`) and starts a
`MinerManager` with the client's submit channel; the client calls
`process_block` for every template or notification, which sends a command
through the latest-value channel to all threads; a thread that finds a nonce
sends it back through the submit channel, whose reader writes it to the
connection.  The node client also feeds every block to the escrow watcher and
submits the claims it returns.  When the connection ends, the manager is dropped
first (its threads are told to close), then the client with the submit task;
after a pause `main.rs` starts again, with a new watcher that reads the file.

## 2. Modules

| Module | Models | Run | Proofs |
|---|---|---|---|
| `LatestValue` | what `watch.rs` promises: a register of which a receiver is handed the latest value | by refinement | |
| `Watch` | `watch.rs`, one action per atomic load, store and lock operation | `watch` | `MiningProofs` |
| `Mining` | `miner.rs` over the register `LatestValue` | `mining` | `MiningProofs` |
| `Escrow` | `escrow.rs` with the calls `grpc.rs` makes to it, its file and its restarts | `escrow`, `escrow_crash` | `EscrowProofs` |
| `Devices` | who may use which GPU: `pom_gpu.rs`, the engine of `slm.rs`, the inferences of `stratum.rs` | `devices`, `devices_progress` | `DevicesProofs` |
| `Pool` | `client/stratum.rs`: sessions, shares and their replies, AI tasks, the development fund | `pool` | `PoolProofs` |
| `Requests` | `client/grpc.rs`: templates, the queue of AI requests, inferences, challenges, pause | `requests` | `RequestsProofs` |
| `Startup` | `main.rs`, `models.rs`, `slm.rs`: line-up, downloads, marks, assignment of GPUs | `startup`, `startup_complete` | `StartupProofs` |
| `RandomX` | `rxengine/`, `cpu_randomx.rs`: rounds, sessions, dataset, jobs, workers | `randomx` | `RandomXProofs` |
| `Possession` | `pom.rs`, `pow.rs`, the layout of `pom_mine.cu`: index, trees, walk, proof, block | `possession` | `PossessionProofs` |
| `Targets` | `target.rs` and the difficulty of `stratum.rs`: 256-bit numbers, compact targets | with `Possession` | `PossessionProofs` |

Each specification has an `MC` module and a `.cfg` with the bounds.  An operator
whose comment begins with "Mutant:" is a faulty version of the definition below
it; with it in place the run finds the property violated that `PROJECT.json`
names, so every property can fail.

How they compose: `Watch` implements `LatestValue`, of which `Mining` is built.
`Possession` is built of `Targets`.  The others meet at an interface that each
side keeps open: `Pool` and `Requests` call `process_block`, whose commands
`Mining` takes in any order; `Mining` finds nonces for any job it was handed,
which `Pool` submits; `Devices` has the inferences that `Pool` starts, and
`Escrow` what `Requests` does with claims and rewards.  One module of all of
them would multiply states that do not influence each other.

**Watch.**  A value is its number in the order of sending, so `value` and `id`
would be equal were it not for the moment inside `replace_value`.  `pc` says
where a receiver is in `get_changed_internal` or `wait_for_change`.  The history
variables `notedId`, `handed`, `toldClosed` record what a call returned last: they
are the register's state under the refinement (`version <- value`, `open <-
alive`).
Atomics are taken to be sequentially consistent; the code uses release and
acquire, and every check that decides to sleep is made again under the mutex
that the sender takes after its stores.

**Mining.**  Threads receive through `LatestValue!Deliver` and
`LatestValue!Learn`, which is what the refinement of `Watch` justifies;
`commands` keeps all commands by version.  The actions of
manager and threads are written as those of the register (`Send`, `Close`, `Deliver`,
`Learn`), which is how the two modules meet: what `Watch` is proved to implement
is what `Mining` relies on.  `Handed` leaves out that a spurious wake-up may hand a
command over once more without a new id (`watch.rs` 143-149): the thread then takes
the job that it has, which changes nothing here.  A thread's search is a
nondeterministic `Find`; the model walk ("pom") and the plugin's search differ in
what they do on None (`Obey`), in the nonces they try (`NonceRange`) and in what
a wrong nonce does (`FindWrong`).

**Escrow.**  An entry, the two indexes and the pending claim are those of
`EscrowWatcher`; the order of indices within a block is left out.  Amounts are
reduced to whether they cover the claim fee (`Dust`), two seconds to a choice
(`Elapsed`), a write of the file to one that is saved or one that a crash or a
full disk cuts short (`Writes`).  The node answers in order what it was sent on
a connection and otherwise as it likes, except that it accepts one claim of an
output.  A restart loses what is in memory and in flight.  An AI answer that cannot be
sent has its reward tracked all the same before the session ends (`AnswerLost`).  `hopeless`, `crossed`
and `writeFailed` are history variables for the properties.

**Devices.**  The actors are the GPU workers (named by their device), which call
`ensure_installed`, and the blocking tasks that run inferences; `at` says where
each of them is, `goal` and `on` which model it loads on which device.  The
registries (`tier`, `banned`, `unsupported`, `busy`, `index`, `walk`) have a mutex
each that is held for one look-up or update, so they are updated in single
steps; `INSTALL_LOCK` and `ENGINE` are held over many steps, by `installer` and
`holder`.  The choice of a smaller model and its assignment are separate steps,
as in `downgrade_after_oom`; what happens to an index is one step, since only
the owner of `INSTALL_LOCK` touches indexes.  A model is its tier, which is fixed
past the hard fork H2.  The size of a walk stands for its model: two models never
have the same number of chunks here.  Memory may run out where `Tight` says, and
any load may fail or panic.  `Reconnect` ends a session: the next one has an
in-flight flag of its own, while the inferences of the earlier one go on and
`busy` is shared.

**Pool.**  The reader of a connection (`listen` and the handlers) and the submit
task (`create_block_channel`) are two actors.  Their sections under the mutex
`shares_pending` are split at the lock: `try_lock().unwrap()` on a mutex that the
other one holds panics, and so does an error reply without a pending entry;
either ends the process (`phase = "crashed"`).  `pending` outlives a session while
the ids start again, as in the code, where both belong to the process and the
connection.  A share is its id, its job and the result attached to it; the
miners find one for any job of the session.  The development fund is a counter
of templates that goes on between sessions (`ctr`, `dev`).

**Requests.**  The client is one task with a `select!`, so a message is handled in
one step with all it changes: the queue, the seen ids, the reward's transaction,
the pause, the request for the next template.  Inferences run elsewhere and end at
any time.  A transaction and the hash of its payload (`IdOf`) are distinct: two
transactions may have the same payload.  An answer may find the connection closed
(`AnswerLost`): its error is logged, the reward is tracked, and the session ends.  A
response with neither block nor error (`TemplateWithoutBlock`) is logged only.  `why`
is a history variable that says what the miners are suspended for.

**Startup.**  A file is the number of its chunks on disk.  One action per request,
response, read, retry and mark of `download_file` and `ensure_gguf`; the process
may die between any two, the user may remove files or put some there between two
starts.  The tiers, floors and models are those of `models.rs` past the hard fork
H2.  Rigs are sequences of VRAM sizes.

**RandomX.**  The session loop of `run_session` with its `select!` is `place`; what it
shares with the workers is written in the order of the code: `set_job` in three
steps.  A worker's loads of the flags and of the epoch are one step, its read of
the job under the lock is another.  A job is its number; a VM is the seed of its
dataset.

**Possession, Targets.**  The index, its tree on disk and the GPU's table are
built by the code's own loops (levels, padding of an odd level, prefix sums), as
are the walk, the opening of its steps and the node's verification.  The index on
disk is built one tensor and one level at a step, and may fail between any two; a
loop that runs to its end within one call is a recursive function, of which the
proofs can speak.  Hash
functions, the mixing of the walk and the challenges are parameters, or records
of what is hashed where a proof opens them, so that equal hashes mean equal
contents.  Numbers have four words as in the code, of a width that is a parameter;
the run takes words of 6 bits and bytes of 2, which shift, carry and overflow in
the same places.

## 3. Runs

| Run | Bounds | Shows |
|---|---|---|
| `watch` | 2 receivers, 3 versions, spurious wake-ups | no lost update, no missed wake-up, refinement of `LatestValue`, receivers catch up and learn of the close |
| `mining` | 1 GPU and 1 CPU thread, 3 versions, one assigned range | threads never return to an older job, see the newest command, end with the manager; `is_synced` is right; a pause stops CPU and plugin searches |
| `escrow` | 2 blocks with one output, DAA up to 2, 2 retries, compaction every 2 blocks | verdicts are the node's, on the right output; every output settles |
| `escrow_crash` | a block output below the fee and an AI reward, DAA up to 1, 1 restart, failing writes | indexes match entries, one entry per output, the file follows memory |
| `devices` | 2 GPUs, 2 models, 2 inferences, three rigs (uniform, mixed, VRAM unknown), out-of-memory on both GPUs for the larger model and on one for the smaller, one GPU that refuses the PTX | a walk matches its index; no lock and no flag is left behind |
| `devices_progress` | 1 GPU, 2 models, 2 inferences | installations and inferences end |
| `pool` | 2 sessions with ids up to 3, 3 jobs, 2 AI requests, a cache of 1, a third of the templates for the fund | answered shares are found, results go with their jobs, no reconnection before a job, a dead submit task is noticed |
| `requests` | 3 transactions of 2 payloads, 2 models, a queue of 1, 2 seen ids, 2 unanswered templates, 1 challenge | a request is answered once, rewards are earned, mining resumes, requests are taken up |
| `startup` | 91 rigs of up to 2 GPUs around every floor with all flags; on 2 of them files of 2 chunks, 2 attempts, 2 faults | marked weights are complete, each GPU has its tier, weights arrive |
| `startup_complete` | 1 model, 1 fault | expected to fail: complete weights without a mark stop every start |
| `randomx` | 2 workers, 2 jobs of 2 seeds, 1 batch, rounds for the fee | shares of the newest job are valid, no batch twice, workers catch up, rounds end |
| `possession` | 12 files of weights (tensors of 0 to 5 chunks, odd tails), walks of 4 steps with 2 opened, 3 nonces, 5 compact targets, 5 difficulties, 3 eras | submitted blocks verify, the host confirms the GPU, targets are exact |

*Why the bounds suffice.*  In `watch`, the second receiver is a clone that lives
through the first one's calls, and two sends let one of them overlap with a
check, a wait and a delivery of the other.  In `mining`, three versions after None
give job-job, job-pause-job and pause-job, followed by Close; the two threads
fill the submit channel for each other.  In `escrow`, two outputs are the fewest
for which a position shifts at compaction and a claim can be settled while
another one's entry is gone; a cooldown and the maturity fit in the DAA range.
`escrow_crash` has the smallest instance with both kinds of entries, since
debounced writes multiply states.  In `devices`, two inferences are the fewest of
which one outlives its session while the other belongs to the next; two models
allow one downgrade and then none; two GPUs give a device that shares another's
index, one that inherits the first entry's tier, and a worker of device 0 that
loads the engine for device 1.  In `pool`, two sessions are the fewest in which
an entry of an earlier one lies under an id of the later one, two shares the
fewest that are answered in the other order, and a cache of one is full with the
first result.  In `requests`, a queue of one is full while an inference is in
flight, and two transactions with one payload meet in every order; the ids of
this run never exceed `MaxSeen`, which the property requires.  In `startup`, two
chunks give an empty, a partial and a complete file, two faults a crash after a
file was touched.  In `randomx`, two jobs of one seed or of two give a job that is
only set and one that rebuilds, while a worker still has the other.  In
`possession`, the files have an odd number of nodes on every level in turn.

Deadlock is checked where the modelled part never ends (`Escrow`, `Devices`,
`RandomX`); elsewhere a bound, or the end of the process, stops the model: a
channel whose sender and receivers are gone, a manager whose threads have ended, a
pool client that panicked or used up its sessions, a miner that runs.

## 4. Fairness

- `Watch`: a sender inside `send` or its drop goes on; a receiver keeps calling
  and goes on inside a call, as the loops of `miner.rs` do; a mutex that is free
  again and again is had (parking_lot hands it over after half a millisecond).
  No send and no drop is forced.
- `Mining`: threads that are not blocked poll or wait again and again; this
  supposes that not every search succeeds, since the model walk polls only after
  a search without a result (`miner.rs` 282-321), and that no CUDA run fails for
  ever (333-336).  The submit task takes a share or ends.  The join in
  `drop(MinerManager)` is bounded by its 30 s.  No job is forced to come.
- `Escrow`: blocks keep coming, also when no claim is pending and two seconds
  have passed since the last write; the node answers what it is sent and does
  not answer a claim with a sequence lock for ever.  The miner's own blocks,
  restarts and AI answers are not forced.
- `Devices`: a model load or a generation ends, with success, an error or a panic
  (weak fairness of the one that holds `ENGINE`); a thread that waits for
  `INSTALL_LOCK` or `ENGINE`, which others take again and again, gets it at last
  (strong fairness, what the operating system's scheduling gives a `std` mutex in
  practice though it is not a fair lock).  No inference, installation or
  reconnection is forced.
- `Pool`: the reader goes on with a reply it has begun; `listen` selects among its
  sources at random (`tokio::select!` without `biased`), so the end of the submit
  task, and that of a slice, are noticed though lines keep coming.  No message of the
  pool is forced.
- `Requests`: the timer fires; inferences and challenges end; the node answers a
  request for a template; blocks of one's own are found as long as one mines, since
  without other miners nothing else makes a new template.
- `Startup`: somebody restarts the miner again and again, and of the gateway's
  responses some bring the download forward (strong fairness of `Resume`,
  `Restart`, `Receive` and `EndOfStream` with a known length).  Without it a gateway
  that cuts every response at once would go on for ever.
- `RandomX`: the session loop and the workers go on; of the branches of its
  `select!` the deadline is taken some time.
- `Possession` has safety properties only.

## 5. Proofs

The theorems hold for every value of the constants under the named assumptions of
the modules (sizes are numbers, placeholders are not members of the sets they are
used with).  Each proof module shows that the initial states satisfy an
inductive invariant, that every step preserves it (one lemma per group of
actions, one step per conjunct), and derives the properties from it.

`MiningProofs`, the channel - any set of receivers, any number of values, both kinds
of condition variable.  `ChannelInv` is inductive where the safety properties are not:
`NoMissedWakeup` says that a sleeping receiver with news is about to be notified,
and to carry it over a step one must know who holds the mutex between the last
check and the wait (`MutexDiscipline`, `WakeupIsDue`), and that the id lags the
value only inside `replace_value` (`IdTracksValue`).  `Implements` is `ChannelSpec
=> ImplementsLatestValue`, the register's specification: only `SendReplace`, `SenderDrop`, the return of a call
and a clone change the register; a spurious wake-up that hands over the noted
value again is a stutter (`DeliveryRefines`).

`MiningProofs`, the threads - any sets of GPU and CPU threads, any number of commands.
`ThreadsNeverGoBack` needs that what a thread was handed was sent before
(`HandedWasSent`), that a thread that searches has a job and that versions grow;
`SuspensionIsSentOnce` is about `is_synced`.

`EscrowProofs` - any blocks, requests, outputs, amounts, cooldowns and restarts.
The lemmas about subsequences come first: compaction keeps some positions, and that
the rebuilt indexes match rests on the rank of a kept position (`RankGrows`,
`KthPosition`).  Then each handler keeps the entries good (types, one entry per
outpoint, at most one claim in flight) and their verdicts justified.
`ClaimsAreAccepted`, `LossesHaveAReason` and `CleanStateIsSaved` are the properties
of the runs, for memory and file.

`DevicesProofs` - any GPUs, models, assignments, inferences.  A walk stays over the
model of its device's index because only the worker of a device installs its walk,
while it has none (`NoWalkWhileInstalling`) and holds `INSTALL_LOCK`
(`LocksAreHeld`); a load of the engine must have a device for its ban and its
eviction (`LoadsOnADevice`); that the end of an inference empties the in-flight
flag only of its own session needs that a session has one inference at most
(`OneOfASession`).  The choices of a device and of a smaller model rest on least and
greatest elements of sets of numbers.

`PoolProofs` - any requests, period, percentage, cache and bounds.
`SharesAreFound` needs that a share is pending before it is sent (`ShareIsPending`)
and that its id is used by nobody else in the session (`IdsAreFresh`), the reply
that the reader is removing included.  `ResultsGoWithTheirJob` needs that tasks
and shares are of jobs that were notified (`JobsAreKnown`).
`SlicesEndAfterAJob` is arithmetic modulo the period.

`RequestsProofs` - any transactions, payloads, models and queue sizes, for at most
`MaxSeen` ids in a session.  `AnsweredOnce` rests on `AllSeen`: what is queued, in
flight or answered has been seen.  `RewardsTrackedWhenEarned`, a theorem about steps
(`Spec => [][...]_vars`), says that the reward of a transaction is tracked only in the
step that gives the first answer to its own payload, and that the answer is sent
in that step or the connection is gone.

`StartupProofs` - any rigs, file sizes, attempts, faults.  `MarksAreTrue`: weights
are written only while they have no mark, and are complete when the mark is set
(`WrittenWithoutMark`).  `TiersFitTheGpus`: the tier of a GPU is the greatest that
fits (`MaxExists`: the ranks of a finite set of numbers are all taken, so that one
element has the last rank), its model is in the line-up since the largest GPU's
VRAM bounds the others', and `Pick` returns it.

`RandomXProofs` - any workers, seeds, jobs, batches.  `SharesAreValid` needs that jobs
are taken in the order in which they were sent (`JobsInOrder`), so that nobody has
a job before the session loop handles it, and that the dataset is that job's
whenever somebody may have it (`DatasetFits`).  `BatchesAreDistinct` needs that what
was taken is behind the dispenser (`TakenIsBehind`) unless a job is being set.

`PossessionProofs` - any files of weights, chunk sizes, lengths of walk, numbers of
openings, nonces, hash functions, and words and bytes of any width.  The assumptions
are that the parameters are numbers (`PossessionAssumption`), that bytes divide words
and that a word has more bits than a mantissa (`WidthAssumption`), that the hashes
yield words and states (`HashAssumption`), and that compact targets fit in 256 bits
and a pool's difficulty in an `f32` (`NumberAssumption`); beyond these the code shifts
bits out or panics (section 6).

What the loops of the code compute is a recursive function on `0 .. n`.  The library's
induction theorems have an operator as a parameter, but `WFMin`, on minimal elements,
has a relation instead: from it come the least element of a set of numbers (`Least`),
induction over a set of indices (`Induction`, `InductionUpTo`) and the existence of
recursive functions into a set (`Recursion`); where there is no such set (a tree's
nodes have no bound on their depth), induction over the length of the recursion
constructs the function step by step.  On these stand, in the order of the module:

1. powers of two, division and remainder (`Pow2Sum`, `DivDiv`), that a shift of a
   number below a word is a product (`ShlOfU64`, `FromCompactExact`, `TargetOfExact`),
   and that the kernel's order of words and the host's order of bytes are both the
   order of numbers (`LeqValue`, `LeqBytes`);
2. Merkle trees over any sequence of leaves: the halving ends in one node
   (`HalvingLast`), a tree is determined by its leaves (`TreeUnique`), and the path that
   `merkle_proof` gives for a leaf verifies against the root, with odd levels padded
   (`PathVerifies`);
3. the canonical order of the chunks: the host's table and the GPU's prefix sums cover
   it (`MoreTable`, `MoreLayout`), and the host's search by counting and the kernel's by
   halving both find the place of a chunk (`ReadFinds`, `SearchFinds`);
4. walks: over equal chunks they are equal (`HostWalks`, `GpuWalks`), each step leads
   to the next by the transition (`TraceOf`), and so all that the node verifies of a
   proof holds (`OpeningsHold`, `ProofHolds`).

The properties are not inductive: that a path read from the disk is right needs that
the file holds the levels of the tree, one behind the other, at the offsets recorded
(`LevelsRight`), which in turn needs that while the leaves are written they are those
of the tensors read so far (`TableRight`, `IndexInv`); that a candidate is confirmed
needs that it met the target on the canonical walk when it was found (`CandidateInv`);
and that the target is exact needs to know what it was made from (`PoolInv`,
`JobInv`).  `IInv` is their conjunction with `BlocksAreValid`; TLC finds it true in all
states of the run `possession`'s instance, and it is preserved by every step
(`InvStep`).  `TargetsExact`, `CandidatesConfirmed` and `BlocksValid` are the
properties of that run.

Model-checked only: all liveness (`EveryReceiverCatchesUp`, `ThreadsEnd`,
`EveryEntrySettles`, `InstallsEnd`, `MiningResumes`, `WeightsArrive`, `RoundsEnd`,
`PauseStopsOtherSearches` and so on), which rests on fairness and ENABLED.  Every
invariant and action property that a passing run checks is a theorem.

## 6. What the models show beside the properties

The run `startup_complete` shows a disagreement between a comment and the code:
weights that are complete but not marked (`wget -c`, or a crash before the mark)
are asked for beyond their end, and the status 416, which `slm.rs:165` means to
handle, comes back from `ureq` as an error; after 240 attempts the start is given
up, every time.

Other behaviour that the models have and that a reader of the properties should
know of, since the properties are stated around it:

- After `set_extranonce` threads that search, and the model walk always, try
  nonces outside the assigned range (`miner.rs:449`, `NonceRange`).
- The model walk keeps its job on None (`miner.rs:319`): `PauseStopsOtherSearches`
  is about the others.
- A crash within two seconds of a block loses the tracking of its output: nothing
  derives it from the chain again (`escrow.rs:194`).
- The node's answers carry no reference: the answer to an AI response may be
  taken for that to a claim (`grpc.rs:669`; `crossed` in `ClaimedWasAccepted`).
- The reward of an AI answer is tracked although the answer could not be sent: the
  error of `client_send` is only logged (`grpc.rs` 518-528), while `escrow.rs:481`
  speaks of a successful submission.  The entry is then written off by the node's
  refusal of its claim.  `RewardsAreEarned` allows it with the end of the session.
- A downgrade between `ensure_installed`'s look-up of the tier and the installation
  leaves a walk of the larger model until the next installation; a walk may be
  installed while an inference has just taken the GPU (`pom_gpu.rs:501`).
- An error reply to `authorize`, or one given twice, and two simultaneous
  `try_lock().unwrap()` panic (`stratum.rs:674`).  `accepted` counts for the process,
  so that a later session whose subscription is broken reads a refusal as a stale
  share (`stratum.rs:711`).
- A panic of a load leaves `ENGINE` poisoned: `pom_shared` then never shares the
  engine's weights again (`slm.rs:1160`).
- A difficulty so small that the target's word is out of bounds panics, and one
  that makes it word-aligned gets a shift by the whole width (`stratum.rs:734`).
- The tree of an index is `pom-tree-<pid>.bin` (`pom.rs:469`): after a crash the file
  stays, and the next process writes another.
- RandomX: nothing calls `pause`, which `cpu_randomx.rs:5` offers to inferences; the
  back-off is reset only when a round ends without error; a refused login leaves the
  session waiting until its deadline; `keepalive_loop` is not called; the end of
  the submit task alone is not noticed; a hash equal to the target is refused,
  though `job.rs:13` says `<=`; the fee's addresses are empty in this commit, so `Fee` is
  off in what is built from it.  Batches of a new job taken before its dispenser is
  reset come twice.  Shares of the previous job may be hashed with a rebuilt dataset
  until `set_job` is over (`engine.rs:138`): `CurrentSharesAreValid` is about the
  newest job.  `SessionEnds` drops the shares in the queue, which the submit task may
  still write (`orchestrator.rs` 195-211); no property depends on them.
- `Startup` takes what was written before a mark to be on the disk when the mark is:
  the code calls no `fsync` (`slm.rs` 243, 318), so after a power failure, unlike after
  the death of the process, a mark could stand beside less.  A partial file that
  a user puts beside a mark of earlier is taken for complete (`slm.rs:309`), so
  `Stage` puts none there.
- A tokenizer cut short by a crash is never fetched again (`slm.rs:302`).
- A sole producer that finds no model ready suspends mining until another miner
  finds a block (`grpc.rs:617`).

## 7. Not modelled

- Hash functions, the kHeavyHash matrix, signatures, scripts and address formats:
  cryptographic arithmetic on wide words, parameters where a property needs them.
- `inference/`, the split transformers: tensor arithmetic and payload formats
  without state.  `ipfs.rs`: a daemon and HTTP; its failure is an outcome of an AI
  answer in `Requests`.
- GPU plugins and vendored kernels: drivers and third-party code.  What they find is
  an open choice in `Mining`; the layout of `pom_mine.cu` is in `Possession`.
- The status display, hashrates, logs, command-line parsing.
- In `Devices`: `LOADING` and its watchdog, `--cpu-inference`, whether a walk
  shares the engine's weights, workers that outlive the 30 s of their manager's
  drop, the node client's inferences, which mark no device.
- The legacy models of several files, which are not staged past the hard fork.
- The colouring of the block DAG is the node's: a block reported red counts as a
  reason to write its outputs off.

`PROJECT.json` lists under "hazards" where each risk lies and which property covers
it; eight have none, since the code has what they warn of, with the reason beside
them.

## 8. How the work was ordered

The latest-value channel came first, since every mining thread hangs on it, then
the state machines that lose money when they are wrong (`Escrow`, `Devices`), the
two clients (`Pool`, `Requests`), the start, the CPU miner, and the proof of
possession with its arithmetic.  What would come next: `Devices` with the node
client's inferences and `LOADING`; a composition of `Pool` with `Mining` in which
the nonce range is a property.
