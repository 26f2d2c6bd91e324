--------------------------------- MODULE Mining --------------------------------
(***************************************************************************)
(* The mining threads of miner.rs, their MinerManager and the channel on   *)
(* which they submit what they find.  Commands reach the threads through   *)
(* the latest-value register that watch.rs implements (see Watch).         *)
(*                                                                         *)
(* A command is named by its version in that register, so `commands' lists *)
(* all the manager ever sent; only the last one is in the channel.         *)
(* A GPU thread mines a job in one of two ways: the walk over the resident *)
(* model ("pom"), once the job's DAA score reaches POM_ACTIVATION_DAA, or  *)
(* the plugin's kHeavyHash.  What a search finds, and whether the model is *)
(* resident, is left open.                                                 *)
(***************************************************************************)
EXTENDS Naturals, Sequences

CONSTANTS
  Gpus, Cpus,    \* the worker threads
  Ranges,        \* the nonce ranges a pool may assign
  Full,          \* the whole nonce space
  MaxVersion     \* bound: versions the manager puts in the channel

ASSUME WorkersAssumption == Gpus \cap Cpus = {} /\ Gpus \cup Cpus # {}
ASSUME MaxVersionAssumption == MaxVersion \in Nat \ {0}

Workers == Gpus \cup Cpus

VARIABLES
  version, open, noted, seen, told,   \* the register: see LatestValue
  commands,      \* what was put in the register, by version
  synced,        \* MinerManager.is_synced
  manager,       \* "running", "closing" (inside drop), "gone"
  state,         \* the thread's `state': the version of its job, 0 for None
  at,            \* where the thread is
  range,         \* the nonce range in a CPU thread's mask and fixed
  queue,         \* the submit channel, of capacity 1
  submitOpen     \* whether the task that reads the submit channel lives

channel == <<version, open, noted, seen, told, commands>>
worker == <<state, at, range>>
vars == <<channel, synced, manager, worker, queue, submitOpen>>

Chan == INSTANCE LatestValue WITH Receivers <- Workers

(* A job is a whole block (grpc.rs) or a pool's partial one (stratum.rs).  *)
Job ==
  [kind : {"job"}, pom : BOOLEAN, range : {Full}, whole : {TRUE}]
    \cup [kind : {"job"}, pom : BOOLEAN, range : Ranges, whole : {FALSE}]

Pause == [kind |-> "none"]     \* process_block(None)
Quit == [kind |-> "close"]     \* WorkerCommand::Close
Share == [job : 1 .. MaxVersion, range : Ranges \cup {Full}]

Latest == commands[version]
Running == {w \in Workers : at[w] # "exited"}

TypeOK ==
  /\ Chan!TypeOK
  /\ commands \in Seq(Job \cup {Pause, Quit}) /\ Len(commands) = version
  /\ synced \in BOOLEAN
  /\ manager \in {"running", "closing", "gone"}
  /\ state \in [Workers -> 0 .. version]
  /\ at \in [Workers -> {"wait", "work", "submit", "exited"}]
  /\ range \in [Cpus -> Ranges \cup {Full}]
  /\ queue \in Seq(Share) /\ Len(queue) <= 1
  /\ submitOpen \in BOOLEAN

(* MinerManager::new: the register holds None, the threads wait.  A CPU    *)
(* thread sets its mask before it uses it.                                 *)
Init ==
  /\ Chan!Init
  /\ commands = <<Pause>>
  /\ synced = TRUE
  /\ manager = "running"
  /\ state = [w \in Workers |-> 0]
  /\ at = [w \in Workers |-> "wait"]
  /\ range = [c \in Cpus |-> Full]
  /\ queue = <<>>
  /\ submitOpen = TRUE

--------------------------------------------------------------------------------
(* The manager. *)

(* block_channel.send: refused when every thread has dropped its receiver. *)
Send(command) ==
  /\ Running # {}
  /\ Chan!Publish
  /\ commands' = Append(commands, command)

(* Mutant: a job does not end the suspension. *)
ProcessBlockUnsynced(job) ==
  /\ manager = "running"
  /\ version < MaxVersion
  /\ \A v \in 1 .. version :
       commands[v] \in Job => commands[v].whole = job.whole
  /\ \/ Send(job) /\ UNCHANGED manager
     \/ Running = {} /\ manager' = "closing" /\ UNCHANGED channel
  /\ UNCHANGED <<synced, worker, queue, submitOpen>>

(* process_block(Some(block)).  A failed send ends the session.  (So does  *)
(* a block that pow::State::new refuses: BeginDrop.)                       *)
ProcessBlock(job) ==
  /\ manager = "running"
  /\ version < MaxVersion
  /\ \A v \in 1 .. version :     \* one session, one kind of client
       commands[v] \in Job => commands[v].whole = job.whole
  /\ synced' = TRUE
  /\ \/ Send(job) /\ UNCHANGED manager
     \/ Running = {} /\ manager' = "closing" /\ UNCHANGED channel
  /\ UNCHANGED <<worker, queue, submitOpen>>

(* process_block(None) *)
ProcessNone ==
  /\ manager = "running"
  /\ version < MaxVersion
  /\ synced
  /\ synced' = FALSE
  /\ \/ Send(Pause) /\ UNCHANGED manager
     \/ Running = {} /\ manager' = "closing" /\ UNCHANGED channel
  /\ UNCHANGED <<worker, queue, submitOpen>>

(* drop(MinerManager), at the end of the session: Close is sent first.     *)
BeginDrop ==
  /\ manager = "running"
  /\ manager' = "closing"
  /\ Send(Quit) \/ (Running = {} /\ UNCHANGED channel)
  /\ UNCHANGED <<synced, worker, queue, submitOpen>>

(* The threads are joined, or left behind after 30 seconds; the sender of  *)
(* the register is dropped with the manager, then the client is dropped    *)
(* and with it the task that reads the submit channel.                     *)
EndDrop ==
  /\ manager = "closing"
  /\ manager' = "gone"
  /\ Chan!Close
  /\ submitOpen' = FALSE
  /\ UNCHANGED <<commands, synced, worker, queue>>

(* The submit task (stratum.rs, grpc.rs) takes a share, or ends when it    *)
(* cannot write to the connection.                                         *)
TakeShare ==
  /\ submitOpen
  /\ queue # <<>>
  /\ queue' = Tail(queue)
  /\ UNCHANGED <<channel, synced, manager, worker, submitOpen>>

SubmitTaskEnds ==
  /\ submitOpen
  /\ submitOpen' = FALSE
  /\ UNCHANGED <<channel, synced, manager, worker, queue>>

--------------------------------------------------------------------------------
(* The worker threads. *)

OnPom(w) == w \in Gpus /\ state[w] # 0 /\ commands[state[w]].pom

(* The thread takes up a job it was handed.  Only a CPU thread that had no *)
(* job reads the nonce range of the new one.                               *)
TakeUp(w, job) ==
  /\ state' = [state EXCEPT ![w] = job]
  /\ at' = [at EXCEPT ![w] = "work"]
  /\ range' = IF w \in Cpus /\ state[w] = 0
              THEN [range EXCEPT ![w] = commands[job].range] ELSE range

GoIdle(w) ==
  /\ state' = [state EXCEPT ![w] = 0]
  /\ at' = [at EXCEPT ![w] = "wait"]
  /\ UNCHANGED range

Exit(w) ==
  /\ state' = [state EXCEPT ![w] = 0]
  /\ at' = [at EXCEPT ![w] = "exited"]
  /\ UNCHANGED range

(* Mutant: a legacy search also goes on with its job. *)
ObeyJobsOnly(w) ==
  \/ Latest.kind = "job" /\ TakeUp(w, version)
  \/ Latest.kind = "close" /\ Exit(w)
  \/ Latest.kind = "none" /\ UNCHANGED worker

(* What a thread does with a command: the walk over the model goes on with *)
(* its job when the command is None.                                       *)
Obey(w) ==
  \/ Latest.kind = "job" /\ TakeUp(w, version)
  \/ Latest.kind = "close" /\ Exit(w)
  \/ Latest.kind = "none" /\ OnPom(w) /\ UNCHANGED worker
  \/ Latest.kind = "none" /\ ~OnPom(w) /\ GoIdle(w)

(* What is delivered: the latest command.  The id noted with it is new (no *)
(* spurious wake-ups with parking_lot) and may be that of an older one; of *)
(* those, which it is makes no difference later.                           *)
Handed(w) ==
  /\ Chan!Deliver(w)
  /\ noted'[w] > noted[w]
  /\ noted'[w] >= version - 1

(* Mutant: only an idle thread looks at the register. *)
ReceiveWhenIdle(w) ==
  /\ at[w] = "wait"
  /\ \/ Handed(w) /\ Obey(w)
     \/ Chan!Learn(w) /\ Exit(w)
  /\ UNCHANGED <<commands, synced, manager, queue, submitOpen>>

(* wait_for_change by a thread without a job, or get_changed by a thread   *)
(* whose search found nothing (or whose model is not resident yet).        *)
Receive(w) ==
  /\ at[w] \in {"wait", "work"}
  /\ \/ Handed(w) /\ Obey(w)
     \/ Chan!Learn(w) /\ Exit(w)
  /\ UNCHANGED <<commands, synced, manager, queue, submitOpen>>

(* A search found a nonce that satisfies the job.                          *)
Find(w) ==
  /\ at[w] = "work"
  /\ at' = [at EXCEPT ![w] = "submit"]
  /\ UNCHANGED <<channel, synced, manager, state, range, queue, submitOpen>>

(* The plugin reports a nonce that does not satisfy the job: the thread    *)
(* gives up.  (A rejected nonce of the model walk is only logged.)         *)
FindWrong(g) ==
  /\ at[g] = "work" /\ ~OnPom(g)
  /\ Exit(g)
  /\ UNCHANGED <<channel, synced, manager, queue, submitOpen>>

(* The range the nonce of a share was drawn from: the model walk has a     *)
(* random cursor of its own.                                               *)
NonceRange(w) ==
  IF w \in Cpus THEN range[w]
  ELSE IF OnPom(w) THEN Full ELSE commands[state[w]].range

(* Mutant: the thread retries when nobody reads the channel. *)
SubmitForEver(w) ==
  /\ at[w] = "submit"
  /\ submitOpen
  /\ Len(queue) < 1
  /\ queue' = Append(queue, [job |-> state[w], range |-> NonceRange(w)])
  /\ IF commands[state[w]].whole THEN GoIdle(w)
     ELSE at' = [at EXCEPT ![w] = "work"] /\ UNCHANGED <<state, range>>
  /\ UNCHANGED <<channel, synced, manager, submitOpen>>

(* blocking_send returns: the share is in the channel, or nobody reads it. *)
Submit(w) ==
  /\ at[w] = "submit"
  /\ \/ /\ submitOpen
        /\ Len(queue) < 1
        /\ queue' = Append(queue, [job |-> state[w], range |-> NonceRange(w)])
        /\ IF commands[state[w]].whole THEN GoIdle(w)
           ELSE at' = [at EXCEPT ![w] = "work"] /\ UNCHANGED <<state, range>>
     \/ /\ ~submitOpen
        /\ GoIdle(w)
        /\ UNCHANGED queue
  /\ UNCHANGED <<channel, synced, manager, submitOpen>>

--------------------------------------------------------------------------------

Manager ==
  \/ \E job \in Job : ProcessBlock(job)
  \/ ProcessNone \/ BeginDrop \/ EndDrop

Worker(w) == Receive(w) \/ Find(w) \/ Submit(w)

Next ==
  \/ Manager
  \/ TakeShare \/ SubmitTaskEnds
  \/ \E w \in Workers : Worker(w)
  \/ \E g \in Gpus : FindWrong(g)

(* Threads and tasks run: a thread that is not blocked polls or waits      *)
(* again and again, since no job is so easy that every search succeeds and *)
(* no CUDA run fails for ever; a pending write to the connection is        *)
(* finished or fails; and the wait in drop(MinerManager) is bounded.       *)
(* Nothing ends a session or sends a job.                                  *)
Fairness ==
  /\ WF_vars(EndDrop)
  /\ WF_vars(TakeShare \/ SubmitTaskEnds)
  /\ \A w \in Workers : SF_vars(Receive(w)) /\ SF_vars(Submit(w))

Spec == Init /\ [][Next]_vars /\ Fairness

--------------------------------------------------------------------------------
(* What the threads guarantee. *)

(* A thread works on the job it was handed last; only the model walk may   *)
(* have been handed something since, and that is None (launch_gpu_miner,   *)
(* launch_cpu_miner).  Whatever a thread skips, is handed twice or submits *)
(* in between, it never returns to an older job.                           *)
WorksOnLastJobHanded ==
  \A w \in Running : state[w] # 0 =>
    /\ commands[state[w]] \in Job
    /\ \/ state[w] = seen[w]
       \/ state[w] < seen[w] /\ OnPom(w) /\ commands[seen[w]] = Pause

(* is_synced tells what is in the channel, so that a suspension is sent    *)
(* once and a suspended miner never has a job in the channel               *)
(* (process_block).                                                        *)
SyncedMatchesChannel ==
  manager = "running" =>
    IF synced THEN Latest \in Job \/ version = 1 ELSE Latest = Pause

(* All threads that live are handed the newest command again and again:   *)
(* neither a full submit channel nor a dead one keeps it from polling.     *)
ThreadsCatchUp ==
  []<>(\A w \in Workers : seen[w] = version \/ at[w] = "exited")

(* Once its manager is dropped every thread ends, those that the join gave *)
(* up waiting for too (drop(MinerManager)).                                *)
ThreadsEnd == manager # "running" ~> Running = {}

(* None stops the searches of the CPU threads and of the plugins.          *)
PauseStopsOtherSearches ==
  ~synced ~>
    synced \/ \A w \in Workers : at[w] \in {"wait", "exited"} \/ OnPom(w)

(* What they rest on: threads were handed versions that were sent, a       *)
(* thread that searches has a job, and while the manager runs the channel  *)
(* holds its last job or suspension.                                       *)
HandedWasSent == \A w \in Workers : seen[w] <= version

BusyHasAJob ==
  \A w \in Workers : at[w] \in {"work", "submit"} => state[w] # 0

VersionsAreBounded ==
  /\ manager = "running" => version <= MaxVersion
  /\ \A v \in 1 .. version : commands[v] \in Job => v <= MaxVersion

IInv ==
  /\ TypeOK /\ HandedWasSent /\ BusyHasAJob /\ VersionsAreBounded
  /\ WorksOnLastJobHanded /\ SyncedMatchesChannel
================================================================================
