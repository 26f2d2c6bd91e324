-------------------------------- MODULE RandomX --------------------------------
(***************************************************************************)
(* The second miner (rxengine, started by cpu_randomx.rs): a CPU miner     *)
(* with a pool client of its own, and a share of its time for the fee.     *)
(*                                                                         *)
(* One thread runs the session loop and the tasks that read from the pool  *)
(* and submit to it, which wait while the loop builds a dataset, sets a    *)
(* job or joins the workers.                                               *)
(* The workers share the job (under a lock), its epoch, the dispenser of   *)
(* nonces and two flags (atomics) with it; `set_job' changes the first     *)
(* three one after the other.  A worker's loads of the flags and of the    *)
(* epoch are one step, its read of the job is another.                     *)
(*                                                                         *)
(* A job is its number.  The hashes of a batch are one step, in which the  *)
(* early exit is contained.  Lines that the client does not understand do  *)
(* nothing: a refused login leaves the session waiting.  Left out: the     *)
(* pauses between attempts to connect, the hashrate and the counts.        *)
(***************************************************************************)
EXTENDS Integers, Sequences, FiniteSets

CONSTANTS
  Workers,     \* one per core
  Seeds,       \* seed_hash values
  Fee,         \* whether there is a fee, whose address may be empty
  MaxJob,      \* bound: jobs sent
  MaxBatch,    \* bound: batches of nonces of a job
  None, Closed

ASSUME FeeAssumption == Fee \in BOOLEAN
ASSUME BoundsAssumption == MaxJob \in Nat /\ MaxBatch \in Nat
ASSUME NoneAssumption == None \notin Seeds \cup Nat /\ Closed \notin Nat

VARIABLES
  \* run_miner and run_until
  over,     \* whether the deadline of the round, the user's or the fee's,
            \* has passed
  \* the connection
  link,     \* whether the reader task lives
  events,   \* jobs, or Closed, on their way to the session loop
  seeds,    \* history: seed of each job sent
  \* the session loop
  place,    \* where it is; "between" is outside of run_session
  current,  \* current_job
  dataset,  \* the seed of the engine's dataset, None without engine
  \* what it shares with the workers
  job, epoch, dispatch, running, paused,
  \* the workers
  at,       \* worker -> place in worker_loop
  vm,       \* worker -> the seed of its VM's dataset
  mine,     \* worker -> [epoch, job]: its copy of the job
  batch,    \* worker -> its nonces
  \* shares and history
  shares,   \* shares on their way to the submit task: [job, seed]
  hashed,   \* batches of the job that is set, taken since
  again     \* whether one of them was taken twice

pool == <<link, seeds>>
shared == <<job, epoch, dispatch, running>>
worker == <<at, vm, mine, batch>>
history == <<hashed, again>>
vars == <<over, pool, events, place, current, dataset, shared, paused, worker,
          shares, history>>

Jobs == 1 .. MaxJob
Optional(S) == S \cup {None}

Places == {"between", "selecting", "building", "stopping", "rebuilding",
           "writing", "resetting", "bumping", "ending"}

TypeOK ==
  /\ over \in BOOLEAN
  /\ link \in BOOLEAN
  /\ events \in Seq(Jobs \cup {Closed}) /\ seeds \in Seq(Seeds)
  /\ place \in Places /\ current \in Optional(Jobs) /\ dataset \in Optional(Seeds)
  /\ job \in Optional(Jobs) /\ epoch \in Nat /\ dispatch \in 0 .. MaxBatch
  /\ running \in BOOLEAN /\ paused \in BOOLEAN
  /\ at \in [Workers -> {"gone", "starting", "top", "reading", "taking", "hashing"}]
  /\ vm \in [Workers -> Optional(Seeds)]
  /\ mine \in [Workers -> [epoch : Optional(Nat), job : Optional(Jobs)]]
  /\ batch \in [Workers -> 0 .. MaxBatch]
  /\ shares \subseteq [job : Jobs, seed : Seeds]
  /\ hashed \subseteq 0 .. MaxBatch /\ again \in BOOLEAN

NoCopy == [epoch |-> None, job |-> None]   \* local_epoch is u64::MAX

Init ==
  /\ over = FALSE
  /\ link = FALSE /\ events = <<>> /\ seeds = <<>>
  /\ place = "between" /\ current = None /\ dataset = None
  /\ job = None /\ epoch = 0 /\ dispatch = 0 /\ running = FALSE /\ paused = FALSE
  /\ at = [w \in Workers |-> "gone"] /\ vm = [w \in Workers |-> None]
  /\ mine = [w \in Workers |-> NoCopy] /\ batch = [w \in Workers |-> 0]
  /\ shares = {} /\ hashed = {} /\ again = FALSE

--------------------------------------------------------------------------------
(* Rounds and the connection. *)

DeadlinePasses ==
  /\ Fee /\ ~over /\ over' = TRUE
  /\ UNCHANGED <<pool, events, place, current, dataset, shared, paused, worker,
                 shares, history>>

(* run_until returns: the next round is for the other login.               *)
RoundEnds ==
  /\ place = "between" /\ over /\ over' = FALSE
  /\ UNCHANGED <<pool, events, place, current, dataset, shared, paused, worker, shares,
                 history>>

Connect ==
  /\ place = "between" /\ ~over
  /\ place' = "selecting" /\ link' = TRUE /\ events' = <<>>
  /\ UNCHANGED <<over, seeds, current, dataset, shared, paused, worker, shares,
                 history>>

Awaiting == place = "selecting"

(* handle_line passes a job on, that of the reply to login or another.     *)
Send(seed) ==
  /\ Len(seeds) < MaxJob
  /\ seeds' = Append(seeds, seed) /\ events' = Append(events, Len(seeds) + 1)

PoolSends(seed) ==
  /\ link /\ Awaiting /\ Send(seed)
  /\ UNCHANGED <<over, link, place, current, dataset, shared, paused, worker, shares,
                 history>>

Disconnected ==
  /\ link /\ Awaiting /\ link' = FALSE /\ events' = Append(events, Closed)
  /\ UNCHANGED <<over, seeds, place, current, dataset, shared, paused, worker,
                 shares, history>>

(* The share forwarder and the submit task, which drops what is found      *)
(* before the login.                                                       *)
Submit(s) ==
  /\ s \in shares /\ Awaiting /\ shares' = shares \ {s}
  /\ UNCHANGED <<over, pool, events, place, current, dataset, shared, paused, worker,
                 history>>

--------------------------------------------------------------------------------
(* The session loop. *)

(* Whoever stops the engine joins its workers next. *)
GoTo(p) == place' = p /\ running' = (running /\ p \notin {"stopping", "ending"})

EndSession ==
  /\ place = "selecting"
  /\ over \/ (events # <<>> /\ Head(events) = Closed)
  /\ GoTo("ending")
  /\ UNCHANGED <<over, pool, events, current, dataset, job, epoch, dispatch, paused,
                 worker, shares, history>>

(* Mutant: the dataset is built once. *)
TakeJobKeepingDataset ==
  /\ place = "selecting" /\ events # <<>> /\ Head(events) # Closed
  /\ events' = Tail(events) /\ current' = Head(events)
  /\ GoTo(IF dataset = None THEN "building" ELSE "writing")
  /\ UNCHANGED <<over, pool, dataset, job, epoch, dispatch, paused, worker, shares,
                 history>>

TakeJob ==
  /\ place = "selecting" /\ events # <<>> /\ Head(events) # Closed
  /\ events' = Tail(events) /\ current' = Head(events)
  /\ GoTo(IF dataset = None THEN "building"
          ELSE IF seeds[Head(events)] # dataset THEN "stopping" ELSE "writing")
  /\ UNCHANGED <<over, pool, dataset, job, epoch, dispatch, paused, worker, shares,
                 history>>

(* spawn_workers: each has the dataset, and neither a VM nor a job yet.    *)
SpawnWorkers ==
  /\ dataset' = seeds[current] /\ running' = TRUE /\ dispatch' = 0
  /\ at' = [w \in Workers |-> "starting"]
  /\ vm' = [w \in Workers |-> seeds[current]]
  /\ mine' = [w \in Workers |-> NoCopy] /\ batch' = [w \in Workers |-> 0]

(* RxEngine::new *)
Build ==
  /\ place = "building" /\ place' = "writing"
  /\ SpawnWorkers /\ job' = None /\ epoch' = 0
  /\ UNCHANGED <<over, pool, events, current, paused, shares, history>>

(* rebuild_for_seed: stop, which joins the workers, and what follows.      *)
Joined == \A w \in Workers : at[w] = "gone"

Stop ==
  /\ place = "stopping" /\ Joined /\ place' = "rebuilding"
  /\ UNCHANGED <<over, pool, events, current, dataset, shared, paused, worker, shares,
                 history>>

Rebuild ==
  /\ place = "rebuilding" /\ place' = "writing"
  /\ SpawnWorkers
  /\ UNCHANGED <<over, pool, events, current, job, epoch, paused, shares, history>>

(* No memory for cache or dataset. *)
BuildFails ==
  /\ place \in {"building", "rebuilding"} /\ GoTo("ending")
  /\ UNCHANGED <<over, pool, events, current, dataset, job, epoch, dispatch, paused,
                 worker, shares, history>>

(* Mutant: the epoch changes before the job does. *)
SetJobEpochFirst ==
  /\ \/ place = "writing" /\ epoch' = epoch + 1 /\ place' = "resetting"
        /\ UNCHANGED <<job, dispatch>>
     \/ place = "resetting" /\ dispatch' = 0 /\ place' = "bumping"
        /\ UNCHANGED <<job, epoch>>
     \/ place = "bumping" /\ job' = current /\ place' = "selecting"
        /\ UNCHANGED <<dispatch, epoch>>
  /\ hashed' = {}
  /\ UNCHANGED <<over, pool, events, current, dataset, running, paused, worker, shares,
                 again>>

SetJob ==
  /\ \/ place = "writing" /\ job' = current /\ place' = "resetting"
        /\ UNCHANGED <<dispatch, epoch>>
     \/ place = "resetting" /\ dispatch' = 0 /\ place' = "bumping"
        /\ UNCHANGED <<job, epoch>>
     \/ place = "bumping" /\ epoch' = epoch + 1 /\ place' = "selecting"
        /\ UNCHANGED <<job, dispatch>>
  /\ hashed' = {}
  /\ UNCHANGED <<over, pool, events, current, dataset, running, paused, worker, shares,
                 again>>

(* run_session returns and drops the engine, which joins its workers, the  *)
(* channels and, with the submit task, the connection.  The submit task    *)
(* may still send what shares it has, to the pool that gave their jobs:    *)
(* that makes no difference to what follows, and they are dropped here.    *)
SessionEnds ==
  /\ place = "ending" /\ Joined
  /\ place' = "between" /\ current' = None /\ dataset' = None
  /\ link' = FALSE /\ events' = <<>>
  /\ job' = None /\ epoch' = 0 /\ dispatch' = 0
  /\ shares' = {}
  /\ UNCHANGED <<over, seeds, running, paused, worker, history>>

--------------------------------------------------------------------------------
(* pause and resume are offered to inferences on the CPU.                  *)
SetPause(p) ==
  /\ paused # p /\ paused' = p
  /\ UNCHANGED <<over, pool, events, place, current, dataset, shared, worker, shares,
                 history>>

--------------------------------------------------------------------------------
(* The workers. *)

control == <<over, pool, events, place, current, dataset, shared, paused>>
Goes(w, p) == at' = [at EXCEPT ![w] = p]

Forget(w) ==
  /\ vm' = [vm EXCEPT ![w] = None] /\ mine' = [mine EXCEPT ![w] = NoCopy]
  /\ batch' = [batch EXCEPT ![w] = 0]

(* The VM is made, or the worker gives up. *)
StartWorker(w) ==
  /\ at[w] = "starting"
  /\ \/ Goes(w, "top") /\ UNCHANGED <<vm, mine, batch>>
     \/ Goes(w, "gone") /\ Forget(w)
  /\ UNCHANGED <<control, shares, history>>

(* Mutant: a paused worker does not look at running. *)
LeaveUnlessPaused(w) ==
  /\ at[w] = "top" /\ ~running /\ ~paused /\ Goes(w, "gone") /\ Forget(w)
  /\ UNCHANGED <<control, shares, history>>

Leave(w) ==
  /\ at[w] = "top" /\ ~running /\ Goes(w, "gone") /\ Forget(w)
  /\ UNCHANGED <<control, shares, history>>

LoadEpoch(w) ==
  /\ at[w] = "top" /\ running /\ ~paused
  /\ IF epoch = mine[w].epoch THEN Goes(w, "taking") /\ UNCHANGED mine
     ELSE Goes(w, "reading") /\ mine' = [mine EXCEPT ![w].epoch = epoch]
  /\ UNCHANGED <<control, vm, batch, shares, history>>

(* local_epoch is set with the copy, so that without a job both stay.      *)
ReadJob(w) ==
  /\ at[w] = "reading"
  /\ IF job = None THEN Goes(w, "top") /\ mine' = [mine EXCEPT ![w] = NoCopy]
     ELSE Goes(w, "taking") /\ mine' = [mine EXCEPT ![w].job = job]
  /\ UNCHANGED <<control, vm, batch, shares, history>>

SettingJob == place \in {"writing", "resetting", "bumping"}

Take(w, b) ==
  LET settled == ~SettingJob /\ mine[w].epoch = epoch
  IN /\ Goes(w, "hashing") /\ batch' = [batch EXCEPT ![w] = b]
     /\ hashed' = IF settled THEN hashed \cup {b} ELSE hashed
     /\ again' = (again \/ (settled /\ b \in hashed))

others == <<over, pool, events, place, current, dataset, job, epoch, running, paused,
            vm, mine, shares>>

(* Mutant: the dispenser is read and then written. *)
TakeBatchReading(w) ==
  /\ at[w] = "taking"
  /\ IF dispatch < MaxBatch THEN Take(w, dispatch) ELSE Goes(w, "top") /\ UNCHANGED <<batch, history>>
  /\ UNCHANGED <<others, dispatch>>

(* The bound: there are no more batches. *)
TakeBatch(w) ==
  /\ at[w] = "taking"
  /\ IF dispatch < MaxBatch THEN Take(w, dispatch) /\ dispatch' = dispatch + 1
     ELSE Goes(w, "top") /\ UNCHANGED <<batch, history, dispatch>>
  /\ UNCHANGED others

(* One of its hashes may meet the target.  The bound: one share is on its  *)
(* way at a time.                                                          *)
HashBatch(w, found) ==
  /\ at[w] = "hashing" /\ Goes(w, "top") /\ (found => shares = {})
  /\ shares' = IF found THEN shares \cup {[job |-> mine[w].job, seed |-> vm[w]]} ELSE shares
  /\ batch' = [batch EXCEPT ![w] = 0]
  /\ UNCHANGED <<control, vm, mine, history>>

WorkerStep(w) ==
  \/ StartWorker(w) \/ Leave(w) \/ LoadEpoch(w) \/ ReadJob(w) \/ TakeBatch(w)
  \/ \E found \in BOOLEAN : HashBatch(w, found)

LoopStep ==
  TakeJob \/ Build \/ Stop \/ Rebuild \/ BuildFails \/ SetJob \/ SessionEnds

Next ==
  \/ DeadlinePasses \/ RoundEnds \/ Connect \/ EndSession \/ LoopStep
  \/ \E seed \in Seeds : PoolSends(seed)
  \/ Disconnected
  \/ \E s \in shares : Submit(s)
  \/ \E p \in BOOLEAN : SetPause(p)
  \/ \E w \in Workers : WorkerStep(w)

(* The session loop goes on with what it does and, of the branches of its  *)
(* select, takes each some time; the workers go on.                        *)
Fairness ==
  /\ WF_vars(LoopStep) /\ WF_vars(RoundEnds) /\ SF_vars(EndSession)
  /\ \A w \in Workers : WF_vars(WorkerStep(w))

Spec == Init /\ [][Next]_vars /\ Fairness

--------------------------------------------------------------------------------
(* A share for the job that the session loop handled last was hashed with  *)
(* the dataset of that job's seed, whatever jobs and seeds came before and *)
(* however slowly the workers take them up.  (Not so one for an older job: *)
(* after a rebuild the workers hash the job before it with the new dataset *)
(* until set_job is over.)                                                 *)
CurrentSharesAreValid ==
  \A s \in shares : s.job = current => s.seed = seeds[s.job]

(* "Batch of nonces of the global dispenser, without collisions between    *)
(* threads" (engine.rs:233), except for batches taken while a job is being *)
(* set: those of the new job that a worker takes before the dispenser is   *)
(* reset come once more after it.                                          *)
NoCollisions == ~again

(* The workers take up the newest job, unless the engine is dropped or     *)
(* paused: none is left on an old one by what it read while jobs changed.  *)
WorkersCatchUp ==
  \A j \in Jobs :
    place = "selecting" /\ job = j ~>
      \/ job # j \/ dataset = None \/ paused
      \/ \A w \in Workers : at[w] = "gone" \/ mine[w].job = j

(* A round ends after its deadline though the pool sends jobs, a dataset   *)
(* is being built or the workers are paused: the fee takes its share of    *)
(* the time and no more.                                                   *)
RoundsEnd == over ~> ~over

(* What they rest on.  Jobs are taken in their order: what is handled, set *)
(* or hashed is older than what is on its way.                             *)
Handled ==
  ({current, job} \cup {mine[w].job : w \in Workers} \cup {s.job : s \in shares})
    \ {None}

JobsInOrder ==
  /\ \A h \in Handled : h <= Len(seeds)
  /\ \A i \in DOMAIN events : events[i] # Closed =>
       /\ events[i] <= Len(seeds) /\ \A h \in Handled : h < events[i]
       /\ \A k \in DOMAIN events : i < k /\ events[k] # Closed => events[i] < events[k]

(* The dataset is that of the job that is handled, but for the time it     *)
(* takes to replace it, when nobody has that job yet.                      *)
DatasetFits ==
  /\ \A w \in Workers : at[w] # "gone" => vm[w] = dataset /\ dataset # None
  /\ place = "between" => dataset = None
  /\ place \in {"stopping", "rebuilding", "building"} => current # None
  /\ SettingJob => current # None /\ dataset # None
  /\ dataset # None /\ (place = "selecting" \/ SettingJob) =>
       current # None /\ dataset = seeds[current]
  /\ \A w \in Workers : current # None /\ (job = current \/ mine[w].job = current) =>
       /\ dataset = seeds[current]
       /\ place \notin {"stopping", "rebuilding", "building"}

(* A worker with an epoch, but for one that reads, has a job; one that is  *)
(* gone has none.                                                          *)
CopiesAreWhole ==
  \A w \in Workers :
    /\ at[w] = "gone" => mine[w] = NoCopy
    /\ mine[w].epoch # None /\ at[w] # "reading" => mine[w].job # None
    /\ at[w] \in {"taking", "hashing"} => mine[w].job # None

(* While workers hash, the batches taken are behind the dispenser.         *)
TakenIsBehind ==
  ~SettingJob /\ (\E w \in Workers : at[w] # "gone") => \A b \in hashed : b < dispatch

IInv ==
  /\ TypeOK /\ JobsInOrder /\ DatasetFits /\ CopiesAreWhole /\ TakenIsBehind
  /\ CurrentSharesAreValid /\ NoCollisions
================================================================================
