------------------------------ MODULE MiningProofs ------------------------------
(***************************************************************************)
(* Proofs about the mining threads and the channel on which they get their *)
(* commands.                                                               *)
(*                                                                         *)
(* The channel (Watch), for any set of receivers, any number of values     *)
(* sent, and both kinds of condition variable: no update and no wake-up is *)
(* lost, and it implements the register of LatestValue.  The threads       *)
(* (Mining), which use that register, for any number of GPU and CPU        *)
(* threads, nonce ranges and commands: a thread never returns to an older  *)
(* job, and is_synced tells what is in the channel.                        *)
(***************************************************************************)
EXTENDS Mining, Watch, TLAPS

--------------------------------------------------------------------------------
(* The channel of watch.rs.                                                *)

LEMMA ChannelInitIsInductive == ChannelInit => ChannelInv
<1> SUFFICES ASSUME ChannelInit PROVE ChannelInv
  OBVIOUS
<1> USE ReceiversAssumption DEF ChannelInit
<1>1. ChannelTypeOK
  BY DEF ChannelTypeOK, SenderPcs, ReceiverPcs
<1>2. IdTracksValue /\ AliveUntilDropped
  BY DEF IdTracksValue, AliveUntilDropped
<1>3. MutexDiscipline
  BY DEF MutexDiscipline
<1>4. NotedIsSeen /\ WakeupIsDue
  BY DEF NotedIsSeen, WakeupIsDue
<1>5. ToldIsFinal
  BY Zenon DEF ToldIsFinal
<1>6. QED
  BY <1>1, <1>2, <1>3, <1>4, <1>5 DEF ChannelInv

LEMMA SenderKeepsInv == ChannelInv /\ Sender => ChannelInv'
<1> SUFFICES ASSUME ChannelInv, Sender PROVE ChannelInv'
  OBVIOUS
<1> USE ReceiversAssumption
    DEF ChannelInv, ChannelTypeOK, SenderPcs, ReceiverPcs, IdTracksValue, AliveUntilDropped,
        MutexDiscipline, NotedIsSeen, WakeupIsDue, ToldIsFinal, history, Counted
<1>1. CASE SendBegin
  BY <1>1 DEF SendBegin
<1>2. CASE SendReplace
  BY <1>2 DEF SendReplace
<1>3. CASE SendIncrementId
  BY <1>3 DEF SendIncrementId
<1>4. CASE SenderDrop
  BY <1>4 DEF SenderDrop
<1>5. CASE WakeUpThreads
  BY <1>5 DEF WakeUpThreads
<1>6. QED
  BY <1>1, <1>2, <1>3, <1>4, <1>5 DEF Sender

LEMMA ReceiverKeepsInv ==
  ASSUME NEW r \in Receivers, ChannelInv, Receiver(r)
  PROVE  ChannelInv'
<1> USE ReceiversAssumption
    DEF ChannelInv, ChannelTypeOK, SenderPcs, ReceiverPcs, IdTracksValue, AliveUntilDropped,
        MutexDiscipline, NotedIsSeen, WakeupIsDue, ToldIsFinal,
        senderVars, history, Goto, Return
<1>1. CASE Call(r)
  BY <1>1 DEF Call
<1>2. CASE CheckAlive(r)
  <2>1. CASE ReturnClosed(r)
    BY <1>2, <2>1 DEF CheckAlive, ReturnClosed
  <2>2. CASE alive
    BY <1>2, <2>2 DEF CheckAlive, ReturnClosed
  <2>3. QED
    BY <1>2, <2>1, <2>2, Zenon DEF CheckAlive
<1>3. CASE ReadId(r)
  <2>1. CASE NothingNew(r) /\ op[r] = "get"
    BY <1>3, <2>1 DEF ReadId, NothingNew
  <2>2. CASE NothingNew(r) /\ op[r] = "wait" /\ mutex # r
    BY <1>3, <2>2 DEF ReadId, NothingNew
  <2>3. CASE NothingNew(r) /\ op[r] = "wait" /\ mutex = r
    BY <1>3, <2>3 DEF ReadId, NothingNew
  <2>4. CASE last[r] # id
    <3>1. /\ pc[r] = "readId"
          /\ last' = [last EXCEPT ![r] = id]
          /\ pc' = [pc EXCEPT ![r] = "clone"]
          /\ UNCHANGED <<value, id, alive, senderPc, mutex, op, notedId, handed, toldClosed>>
      BY <1>3, <2>4, Zenon DEF ReadId, NothingNew
    <3>2. ChannelTypeOK' /\ IdTracksValue' /\ AliveUntilDropped' /\ MutexDiscipline'
      BY <3>1
    <3>3. NotedIsSeen' /\ WakeupIsDue'
      BY <3>1
    <3>4. ToldIsFinal'
      BY <3>1
    <3>5. QED
      BY <3>2, <3>3, <3>4
  <2>5. QED
    BY <1>3, <2>1, <2>2, <2>3, <2>4, Zenon DEF ReadId, NothingNew
<1>4. CASE CloneValue(r)
  BY <1>4 DEF CloneValue
<1>5. CASE Sleep(r)
  BY <1>5 DEF Sleep
<1>6. CASE ReadLatest(r)
  BY <1>6 DEF ReadLatest
<1>7. CASE AcquireLock(r)
  BY <1>7 DEF AcquireLock
<1>8. CASE ReacquireLock(r)
  BY <1>8 DEF ReacquireLock
<1>9. CASE SpuriousWakeup(r)
  BY <1>9 DEF SpuriousWakeup
<1>10. CASE DropReceiver(r)
  BY <1>10 DEF DropReceiver
<1>11. ASSUME NEW c \in Receivers, CloneReceiver(r, c)
       PROVE  ChannelInv'
  BY <1>11 DEF CloneReceiver
<1>12. QED
  BY <1>1, <1>2, <1>3, <1>4, <1>5, <1>6, <1>7, <1>8, <1>9, <1>10, <1>11
     DEF Receiver, Step

(* The inductive invariant holds: the id lags the value only inside        *)
(* replace_value, the mutex covers check and wait, what a receiver notes   *)
(* is never newer than what it holds, and a wake-up owed is still to come. *)
THEOREM ChannelInvariantHolds == ChannelSpec => []ChannelInv
<1>1. ChannelInv /\ [ChannelNext]_channelVars => ChannelInv'
  <2>1. ASSUME ChannelInv, UNCHANGED channelVars PROVE ChannelInv'
    BY <2>1
       DEF channelVars, ChannelInv, ChannelTypeOK, IdTracksValue, AliveUntilDropped,
           MutexDiscipline, NotedIsSeen, WakeupIsDue, ToldIsFinal
  <2>2. QED
    BY <2>1, SenderKeepsInv, ReceiverKeepsInv DEF ChannelNext
<1>2. QED
  BY ChannelInitIsInductive, <1>1, PTL DEF ChannelSpec

(* The variables of the channel keep their types.                          *)
THEOREM ChannelTypeCorrect == ChannelSpec => []ChannelTypeOK
<1>1. ChannelInv => ChannelTypeOK
  BY DEF ChannelInv
<1>2. QED
  BY ChannelInvariantHolds, <1>1, PTL

(* A receiver about to be told "nothing new" holds the current value,      *)
(* however send and get_changed interleave.                                *)
THEOREM UpdatesAreNotLost == ChannelSpec => []NoLostUpdate
<1>1. ChannelInv => NoLostUpdate
  BY DEF ChannelInv, ChannelTypeOK, IdTracksValue, NotedIsSeen, NoLostUpdate, Counted
<1>2. QED
  BY ChannelInvariantHolds, <1>1, PTL

(* No receiver sleeps through a send or through the drop of the sender.    *)
THEOREM WakeupsAreNotMissed == ChannelSpec => []NoMissedWakeup
<1>1. ChannelInv => NoMissedWakeup
  BY DEF ChannelInv, WakeupIsDue, NoMissedWakeup
<1>2. QED
  BY ChannelInvariantHolds, <1>1, PTL

--------------------------------------------------------------------------------
(* The channel implements the latest-value register.                       *)

LEMMA SenderStepRefines ==
  ChannelInv /\ Sender => [LatestValueRegister!Next]_(LatestValueRegister!vars)
<1> SUFFICES ASSUME ChannelInv, Sender
             PROVE  [LatestValueRegister!Next]_(LatestValueRegister!vars)
  OBVIOUS
<1> USE DEF history, LatestValueRegister!vars
<1>1. CASE SendBegin
  BY <1>1 DEF SendBegin
<1>2. CASE SendReplace
  BY <1>2
     DEF SendReplace, ChannelInv, AliveUntilDropped,
         LatestValueRegister!Next, LatestValueRegister!Publish
<1>3. CASE SendIncrementId
  BY <1>3 DEF SendIncrementId
<1>4. CASE SenderDrop
  BY <1>4
     DEF SenderDrop, ChannelInv, AliveUntilDropped,
         LatestValueRegister!Next, LatestValueRegister!Close
<1>5. CASE WakeUpThreads
  BY <1>5 DEF WakeUpThreads
<1>6. QED
  BY <1>1, <1>2, <1>3, <1>4, <1>5 DEF Sender

(* Handing over the value is a delivery of the register, or, when a        *)
(* spurious wake-up hands over the noted value again, no step of it.       *)
LEMMA DeliveryRefines ==
  ASSUME NEW r \in Receivers, ChannelInv, CloneValue(r)
  PROVE  LatestValueRegister!Deliver(r) \/ UNCHANGED LatestValueRegister!vars
<1> USE DEF CloneValue, ChannelInv, senderVars
<1>1. notedId[r] <= last[r] /\ last[r] <= value /\ ~toldClosed[r] /\ value \in Nat
  BY DEF ChannelTypeOK, NotedIsSeen, IdTracksValue, ToldIsFinal
<1>2. CASE notedId[r] < value
  <2>1. last[r] \in notedId[r] .. value
    BY <1>1 DEF ChannelTypeOK
  <2>2. QED
    BY <1>1, <1>2, <2>1 DEF LatestValueRegister!Deliver
<1>3. CASE notedId[r] >= value
  <2>1. notedId[r] = last[r] /\ handed[r] = value
    BY <1>1, <1>3 DEF ChannelTypeOK, NotedIsSeen
  <2>2. notedId' = notedId /\ handed' = handed
    BY <2>1 DEF ChannelTypeOK
  <2>3. QED
    BY <2>2 DEF LatestValueRegister!vars
<1>4. QED
  BY <1>1, <1>2, <1>3 DEF ChannelTypeOK

LEMMA ReceiverStepRefines ==
  ASSUME NEW r \in Receivers, ChannelInv, Receiver(r)
  PROVE  [LatestValueRegister!Next]_(LatestValueRegister!vars)
<1> USE DEF senderVars, history, LatestValueRegister!vars
<1>1. CASE CheckAlive(r)
  <2>1. CASE ReturnClosed(r)
    <3>1. CASE toldClosed[r]
      BY <2>1, <3>1 DEF ReturnClosed, ChannelInv, ChannelTypeOK
    <3>2. CASE ~toldClosed[r]
      BY <2>1, <3>2
         DEF ReturnClosed, LatestValueRegister!Next, LatestValueRegister!Learn
    <3>3. QED
      BY <3>1, <3>2
  <2>2. CASE ~ReturnClosed(r)
    BY <1>1, <2>2 DEF CheckAlive
  <2>3. QED
    BY <2>1, <2>2
<1>2. CASE CloneValue(r)
  BY <1>2, DeliveryRefines DEF LatestValueRegister!Next
<1>3. ASSUME NEW c \in Receivers, CloneReceiver(r, c)
      PROVE  LatestValueRegister!Next
  BY <1>3
     DEF CloneReceiver, LatestValueRegister!Next, LatestValueRegister!Fork
<1>4. CASE Call(r)
  BY <1>4 DEF Call
<1>5. CASE ReadId(r)
  BY <1>5 DEF ReadId, NothingNew
<1>6. CASE Sleep(r)
  BY <1>6 DEF Sleep
<1>7. CASE ReadLatest(r)
  BY <1>7 DEF ReadLatest
<1>8. CASE AcquireLock(r)
  BY <1>8 DEF AcquireLock
<1>9. CASE ReacquireLock(r)
  BY <1>9 DEF ReacquireLock
<1>10. CASE SpuriousWakeup(r)
  BY <1>10 DEF SpuriousWakeup
<1>11. CASE DropReceiver(r)
  BY <1>11 DEF DropReceiver
<1>12. QED
  BY <1>1, <1>2, <1>3, <1>4, <1>5, <1>6, <1>7, <1>8, <1>9, <1>10, <1>11
     DEF Receiver, Step

(* The channel of watch.rs is a latest-value register: values are          *)
(* delivered in order, only skipping, never after ChannelClosed.           *)
THEOREM Implements == ChannelSpec => ImplementsLatestValue
<1>1. ChannelInit => LatestValueRegister!Init
  BY DEF ChannelInit, LatestValueRegister!Init
<1>2. ChannelInv /\ [ChannelNext]_channelVars => [LatestValueRegister!Next]_(LatestValueRegister!vars)
  <2>1. ASSUME UNCHANGED channelVars PROVE UNCHANGED LatestValueRegister!vars
    BY <2>1 DEF channelVars, LatestValueRegister!vars
  <2>2. QED
    BY <2>1, SenderStepRefines, ReceiverStepRefines DEF ChannelNext
<1>3. QED
  BY <1>1, <1>2, ChannelInvariantHolds, PTL
     DEF ChannelSpec, ImplementsLatestValue, LatestValueRegister!Spec

--------------------------------------------------------------------------------
(* Commands. *)

(* The kind of a command tells jobs, suspensions and the end apart.        *)
LEMMA KindsAreDistinct ==
  ASSUME NEW c \in Job \cup {Pause, Quit}
  PROVE  /\ c \in Job <=> c.kind = "job"
         /\ c = Pause <=> c.kind = "none"
         /\ c = Quit <=> c.kind = "close"
         /\ c \in Job => c.range \in Ranges \cup {Full}
<1>1. /\ Pause.kind = "none" /\ Quit.kind = "close"
      /\ "none" # "job" /\ "close" # "job" /\ "none" # "close"
  BY DEF Pause, Quit
<1>2. \A d \in Job : d.kind = "job" /\ d.range \in Ranges \cup {Full}
  <2> SUFFICES ASSUME NEW d \in Job
               PROVE  d.kind = "job" /\ d.range \in Ranges \cup {Full}
    OBVIOUS
  <2>1. CASE d \in [kind : {"job"}, pom : BOOLEAN, range : {Full}, whole : {TRUE}]
    BY <2>1
  <2>2. CASE d \in [kind : {"job"}, pom : BOOLEAN, range : Ranges, whole : {FALSE}]
    BY <2>2
  <2> QED BY <2>1, <2>2 DEF Job
<1>3. c \in Job \/ c = Pause \/ c = Quit
  OBVIOUS
<1> QED BY <1>1, <1>2, <1>3

LEMMA InitIsInductive == Init => IInv
<1> SUFFICES ASSUME Init PROVE IInv
  OBVIOUS
<1> USE DEF Init, Chan!Init
<1>1. /\ commands \in Seq(Job \cup {Pause, Quit}) /\ Len(commands) = 1
      /\ commands[1] = Pause /\ version = 1
  OBVIOUS
<1>2. Chan!TypeOK
  BY DEF Chan!TypeOK
<1>2a. /\ state \in [Workers -> 0 .. version]
       /\ at \in [Workers -> {"wait", "work", "submit", "exited"}]
       /\ range \in [Cpus -> Ranges \cup {Full}]
  OBVIOUS
<1>2b. queue \in Seq(Share) /\ Len(queue) <= 1
  OBVIOUS
<1>2c. TypeOK
  BY <1>1, <1>2, <1>2a, <1>2b DEF TypeOK
<1>3a. /\ \A w \in Workers : state[w] = 0 /\ at[w] = "wait" /\ seen[w] = 0
       /\ Running \subseteq Workers
  BY DEF Running
<1>3b. HandedWasSent /\ BusyHasAJob
  BY <1>1, <1>3a DEF HandedWasSent, BusyHasAJob
<1>3c. WorksOnLastJobHanded
  BY <1>3a DEF WorksOnLastJobHanded
<1>3. SyncedMatchesChannel
  BY <1>1 DEF SyncedMatchesChannel, Latest
<1>4. Pause \notin Job
  BY KindsAreDistinct
<1>5. VersionsAreBounded
  BY <1>1, <1>4, MaxVersionAssumption DEF VersionsAreBounded
<1> QED BY <1>2c, <1>3b, <1>3c, <1>3, <1>5 DEF IInv

--------------------------------------------------------------------------------
(* The manager. *)

(* A command is added to those sent before, which stay what they were.     *)
LEMMA SendAppends ==
  ASSUME IInv, NEW command \in Job \cup {Pause, Quit}, Send(command)
  PROVE  /\ version' = version + 1 /\ version \in Nat \ {0}
         /\ UNCHANGED <<open, noted, seen, told>>
         /\ commands' \in Seq(Job \cup {Pause, Quit}) /\ Len(commands') = version'
         /\ commands'[version'] = command
         /\ \A v \in 1 .. version : commands'[v] = commands[v]
<1>1. /\ commands \in Seq(Job \cup {Pause, Quit}) /\ Len(commands) = version
      /\ version \in Nat \ {0}
  BY DEF IInv, TypeOK, Chan!TypeOK
<1>2. /\ version' = version + 1 /\ commands' = Append(commands, command)
      /\ UNCHANGED <<open, noted, seen, told>>
  BY DEF Send, Chan!Publish
<1> QED BY <1>1, <1>2

(* With threads that do nothing meanwhile.                                 *)
LEMMA SendKeepsInv ==
  ASSUME IInv, NEW command \in Job \cup {Pause, Quit}, Send(command),
         manager' \in {"running", "closing", "gone"}, synced' \in BOOLEAN,
         UNCHANGED <<worker, queue, submitOpen>>,
         manager' = "running" =>
           /\ version < MaxVersion
           /\ IF synced' THEN command \in Job ELSE command = Pause,
         command \in Job => version < MaxVersion
  PROVE  IInv'
<1> USE DEF IInv, worker
<1>1. /\ version' = version + 1 /\ version \in Nat \ {0}
      /\ UNCHANGED <<open, noted, seen, told>>
      /\ commands' \in Seq(Job \cup {Pause, Quit}) /\ Len(commands') = version'
      /\ commands'[version'] = command
      /\ \A v \in 1 .. version : commands'[v] = commands[v]
  BY SendAppends
<1>2. TypeOK'
  BY <1>1 DEF TypeOK, Chan!TypeOK
<1>3. HandedWasSent' /\ BusyHasAJob'
  BY <1>1 DEF HandedWasSent, BusyHasAJob, TypeOK, Chan!TypeOK
<1>4. VersionsAreBounded'
  BY <1>1, MaxVersionAssumption DEF VersionsAreBounded
<1>5. WorksOnLastJobHanded'
  <2> SUFFICES ASSUME NEW w \in Workers, w \in Running', state'[w] # 0
               PROVE  /\ commands'[state'[w]] \in Job
                      /\ \/ state'[w] = seen'[w]
                         \/ state'[w] < seen'[w] /\ OnPom(w)' /\ commands'[seen'[w]] = Pause
    BY DEF WorksOnLastJobHanded, Running
  <2>1. /\ state[w] \in 1 .. version /\ seen[w] \in 0 .. version /\ w \in Running
        /\ state' = state /\ seen' = seen
    BY <1>1 DEF TypeOK, Chan!TypeOK, HandedWasSent, Running
  <2>2. /\ commands[state[w]] \in Job
        /\ \/ state[w] = seen[w]
           \/ state[w] < seen[w] /\ OnPom(w) /\ commands[seen[w]] = Pause
    BY <2>1 DEF WorksOnLastJobHanded
  <2>3. commands'[state[w]] = commands[state[w]]
    BY <1>1, <2>1
  <2>4. seen[w] # 0 => commands'[seen[w]] = commands[seen[w]]
    BY <1>1, <2>1
  <2> QED BY <2>1, <2>2, <2>3, <2>4 DEF OnPom
<1>6. SyncedMatchesChannel'
  BY <1>1 DEF SyncedMatchesChannel, Latest
<1> QED BY <1>2, <1>3, <1>4, <1>5, <1>6

(* Everything but the channel's content and the threads' work may change.  *)
LEMMA ManagerKeepsInv == IInv /\ Manager => IInv'
<1> SUFFICES ASSUME IInv, Manager PROVE IInv'
  OBVIOUS
<1>1. /\ manager \in {"running", "closing", "gone"} /\ synced \in BOOLEAN
  BY DEF IInv, TypeOK
<1>2. ASSUME manager' \in {"closing", "gone"}, synced' \in BOOLEAN, submitOpen' \in BOOLEAN,
             open' \in BOOLEAN, UNCHANGED <<version, noted, seen, told, commands, worker, queue>>
      PROVE  IInv'
  BY <1>2 DEF IInv, TypeOK, Chan!TypeOK, worker, HandedWasSent, BusyHasAJob,
    VersionsAreBounded, WorksOnLastJobHanded, SyncedMatchesChannel, Running, OnPom
<1>3. ASSUME NEW job \in Job, ProcessBlock(job) PROVE IInv'
  BY <1>1, <1>2, <1>3, SendKeepsInv DEF ProcessBlock, channel, IInv, TypeOK, Chan!TypeOK
<1>4. CASE ProcessNone
  <2>1. Pause \notin Job
    BY KindsAreDistinct
  <2> QED
    BY <1>1, <1>2, <1>4, <2>1, SendKeepsInv DEF ProcessNone, channel, IInv, TypeOK, Chan!TypeOK
<1>5. CASE BeginDrop
  <2>1. Quit \notin Job
    BY KindsAreDistinct
  <2> QED
    BY <1>1, <1>2, <1>5, <2>1, SendKeepsInv DEF BeginDrop, channel, IInv, TypeOK, Chan!TypeOK
<1>6. CASE EndDrop
  BY <1>1, <1>2, <1>6 DEF EndDrop, Chan!Close
<1> QED BY <1>3, <1>4, <1>5, <1>6 DEF Manager

--------------------------------------------------------------------------------
(* The threads. *)

(* A step of one thread: what it works on afterwards is a job that it was  *)
(* handed last, or one that a suspension left to the model walk.           *)
OnlyThread(w) ==
  /\ UNCHANGED <<version, open, commands, synced, manager, submitOpen>>
  /\ noted' \in [Workers -> Nat] /\ told' \in [Workers -> BOOLEAN]
  /\ seen' \in [Workers -> Nat] /\ state' \in [Workers -> 0 .. version]
  /\ at' \in [Workers -> {"wait", "work", "submit", "exited"}]
  /\ \A u \in Workers \ {w} :
       seen'[u] = seen[u] /\ state'[u] = state[u] /\ at'[u] = at[u]
  /\ range' \in [Cpus -> Ranges \cup {Full}]
  /\ queue' \in Seq(Share) /\ Len(queue') <= 1

WorkIsDue(w) ==
  /\ seen'[w] <= version
  /\ at'[w] \in {"work", "submit"} => state'[w] # 0
  /\ at'[w] # "exited" /\ state'[w] # 0 =>
       /\ commands[state'[w]] \in Job
       /\ \/ state'[w] = seen'[w]
          \/ /\ state'[w] < seen'[w]
             /\ w \in Gpus /\ commands[state'[w]].pom
             /\ commands[seen'[w]] = Pause

LEMMA OneWorkerKeepsInv ==
  ASSUME IInv, NEW w \in Workers, OnlyThread(w), WorkIsDue(w)
  PROVE  IInv'
<1>1. TypeOK /\ HandedWasSent /\ BusyHasAJob /\ VersionsAreBounded
      /\ WorksOnLastJobHanded /\ SyncedMatchesChannel
  BY DEF IInv
<1>2. TypeOK'
  BY <1>1 DEF OnlyThread, TypeOK, Chan!TypeOK
<1>3. HandedWasSent'
  BY <1>1 DEF OnlyThread, WorkIsDue, HandedWasSent
<1>4. BusyHasAJob'
  BY <1>1 DEF OnlyThread, WorkIsDue, BusyHasAJob
<1>5. VersionsAreBounded' /\ SyncedMatchesChannel'
  BY <1>1 DEF OnlyThread, VersionsAreBounded, SyncedMatchesChannel, Latest
<1>6. WorksOnLastJobHanded'
  <2> SUFFICES ASSUME NEW u \in Workers, at'[u] # "exited", state'[u] # 0
               PROVE  /\ commands[state'[u]] \in Job
                      /\ \/ state'[u] = seen'[u]
                         \/ /\ state'[u] < seen'[u]
                            /\ u \in Gpus /\ commands[state'[u]].pom
                            /\ commands[seen'[u]] = Pause
    BY DEF OnlyThread, WorksOnLastJobHanded, Running, OnPom
  <2>1. CASE u = w
    BY <2>1 DEF WorkIsDue
  <2>2. CASE u # w
    BY <1>1, <2>2 DEF OnlyThread, WorksOnLastJobHanded, Running, OnPom
  <2> QED BY <2>1, <2>2
<1> QED BY <1>2, <1>3, <1>4, <1>5, <1>6 DEF IInv

(* What the invariant says of a thread that lives.                         *)
LEMMA WorkerFacts ==
  ASSUME IInv, NEW w \in Workers
  PROVE  /\ version \in Nat \ {0} /\ state[w] \in 0 .. version
         /\ seen[w] \in 0 .. version
         /\ at[w] \in {"wait", "work", "submit", "exited"}
         /\ \A v \in 1 .. version : commands[v] \in Job \cup {Pause, Quit}
         /\ at[w] \in {"work", "submit"} => state[w] # 0
         /\ at[w] # "exited" /\ state[w] # 0 =>
              /\ commands[state[w]] \in Job /\ state[w] <= MaxVersion
              /\ \/ state[w] = seen[w]
                 \/ /\ state[w] < seen[w]
                    /\ w \in Gpus /\ commands[state[w]].pom /\ commands[seen[w]] = Pause
<1>1. /\ version \in Nat \ {0} /\ state[w] \in 0 .. version
      /\ seen[w] \in 0 .. version
      /\ at[w] \in {"wait", "work", "submit", "exited"}
  BY DEF IInv, TypeOK, Chan!TypeOK, HandedWasSent
<1>2. \A v \in 1 .. version : commands[v] \in Job \cup {Pause, Quit}
  BY <1>1 DEF IInv, TypeOK
<1>3. at[w] \in {"work", "submit"} => state[w] # 0
  BY DEF IInv, BusyHasAJob
<1>4. at[w] # "exited" /\ state[w] # 0 =>
        /\ commands[state[w]] \in Job
        /\ \/ state[w] = seen[w]
           \/ /\ state[w] < seen[w]
              /\ w \in Gpus /\ commands[state[w]].pom /\ commands[seen[w]] = Pause
  BY DEF IInv, WorksOnLastJobHanded, Running, OnPom
<1>5. at[w] # "exited" /\ state[w] # 0 => state[w] <= MaxVersion
  BY <1>1, <1>4 DEF IInv, VersionsAreBounded
<1> QED BY <1>1, <1>2, <1>3, <1>4, <1>5

(* What TypeOK says of the functions a thread writes.                      *)
LEMMA FunctionTypes ==
  ASSUME IInv
  PROVE  /\ noted \in [Workers -> Nat] /\ told \in [Workers -> BOOLEAN]
         /\ seen \in [Workers -> Nat] /\ state \in [Workers -> 0 .. version]
         /\ at \in [Workers -> {"wait", "work", "submit", "exited"}]
         /\ range \in [Cpus -> Ranges \cup {Full}]
         /\ queue \in Seq(Share) /\ Len(queue) <= 1
         /\ version \in Nat \ {0}
BY DEF IInv, TypeOK, Chan!TypeOK

LEMMA ReceiveKeepsInv ==
  ASSUME IInv, NEW w \in Workers, Receive(w)
  PROVE  IInv'
<1>1. /\ UNCHANGED <<commands, synced, manager, queue, submitOpen>>
      /\ at[w] \in {"wait", "work"}
  BY DEF Receive
<1>2. CASE Handed(w) /\ Obey(w)
  <2>1. /\ UNCHANGED <<version, open, told>> /\ seen' = [seen EXCEPT ![w] = version]
        /\ noted' \in [Workers -> Nat]
    BY <1>2, FunctionTypes DEF Handed, Chan!Deliver
  <2>2. Latest \in Job \cup {Pause, Quit}
    BY WorkerFacts DEF Latest
  <2>3. CASE Latest.kind = "job" /\ TakeUp(w, version)
    <3>1. Latest \in Job /\ Latest.range \in Ranges \cup {Full}
      BY <2>2, <2>3, KindsAreDistinct
    <3>2. range' \in [Cpus -> Ranges \cup {Full}]
      BY <2>3, <3>1, FunctionTypes DEF TakeUp, Latest
    <3>3. OnlyThread(w)
      BY <1>1, <2>1, <2>3, <3>2, FunctionTypes DEF OnlyThread, TakeUp
    <3>4. WorkIsDue(w)
      BY <2>1, <2>3, <3>1, FunctionTypes DEF WorkIsDue, TakeUp, Latest
    <3> QED BY <3>3, <3>4, OneWorkerKeepsInv
  <2>4. CASE Exit(w)
    <3>1. OnlyThread(w)
      BY <1>1, <2>1, <2>4, FunctionTypes DEF OnlyThread, Exit
    <3>2. WorkIsDue(w)
      BY <2>1, <2>4, FunctionTypes DEF WorkIsDue, Exit
    <3> QED BY <3>1, <3>2, OneWorkerKeepsInv
  <2>5. CASE GoIdle(w)
    <3>1. OnlyThread(w)
      BY <1>1, <2>1, <2>5, FunctionTypes DEF OnlyThread, GoIdle
    <3>2. WorkIsDue(w)
      BY <2>1, <2>5, FunctionTypes DEF WorkIsDue, GoIdle
    <3> QED BY <3>1, <3>2, OneWorkerKeepsInv
  <2>6. CASE Latest.kind = "none" /\ OnPom(w) /\ UNCHANGED worker
    <3>1. Latest = Pause /\ Latest \notin Job
      BY <2>2, <2>6, KindsAreDistinct
    <3>2. /\ w \in Gpus /\ commands[state[w]].pom /\ state[w] # 0
          /\ commands[state[w]] \in Job /\ state[w] < version
      BY <1>1, <2>6, <3>1, WorkerFacts DEF OnPom, Latest
    <3>3. OnlyThread(w)
      BY <1>1, <2>1, <2>6, FunctionTypes DEF OnlyThread, worker
    <3>4. WorkIsDue(w)
      BY <2>1, <2>6, <3>1, <3>2, FunctionTypes DEF WorkIsDue, worker, Latest
    <3> QED BY <3>3, <3>4, OneWorkerKeepsInv
  <2> QED BY <1>2, <2>3, <2>4, <2>5, <2>6 DEF Obey
<1>3. CASE Chan!Learn(w) /\ Exit(w)
  <2>1. OnlyThread(w)
    BY <1>1, <1>3, FunctionTypes DEF OnlyThread, Chan!Learn, Exit
  <2>2. WorkIsDue(w)
    BY <1>3, FunctionTypes, WorkerFacts DEF WorkIsDue, Chan!Learn, Exit
  <2> QED BY <2>1, <2>2, OneWorkerKeepsInv
<1> QED BY <1>2, <1>3 DEF Receive

LEMMA FindKeepsInv ==
  ASSUME IInv, NEW w \in Workers, Find(w) \/ FindWrong(w)
  PROVE  IInv'
<1>1. UNCHANGED <<version, open, noted, seen, told, commands, synced, manager,
                  range, queue, submitOpen>>
  BY DEF Find, FindWrong, Exit, channel
<1>2. CASE Find(w)
  <2>1. OnlyThread(w)
    BY <1>1, <1>2, FunctionTypes DEF OnlyThread, Find
  <2>2. WorkIsDue(w)
    BY <1>1, <1>2, FunctionTypes, WorkerFacts DEF WorkIsDue, Find
  <2> QED BY <2>1, <2>2, OneWorkerKeepsInv
<1>3. CASE FindWrong(w)
  <2>1. OnlyThread(w)
    BY <1>1, <1>3, FunctionTypes DEF OnlyThread, FindWrong, Exit
  <2>2. WorkIsDue(w)
    BY <1>1, <1>3, FunctionTypes, WorkerFacts DEF WorkIsDue, FindWrong, Exit
  <2> QED BY <2>1, <2>2, OneWorkerKeepsInv
<1> QED BY <1>2, <1>3

LEMMA SubmitKeepsInv ==
  ASSUME IInv, NEW w \in Workers, Submit(w)
  PROVE  IInv'
<1>1. /\ UNCHANGED <<version, open, noted, seen, told, commands, synced, manager, submitOpen>>
      /\ at[w] = "submit"
  BY DEF Submit, channel
<1>2. /\ state[w] \in 1 .. MaxVersion /\ commands[state[w]] \in Job
  BY <1>1, WorkerFacts, MaxVersionAssumption
<1>3. NonceRange(w) \in Ranges \cup {Full}
  <2>1. commands[state[w]].range \in Ranges \cup {Full}
    BY <1>2, KindsAreDistinct
  <2>2. w \in Cpus => range[w] \in Ranges \cup {Full}
    BY FunctionTypes
  <2> QED BY <2>1, <2>2 DEF NonceRange
<1>4. [job |-> state[w], range |-> NonceRange(w)] \in Share
  BY <1>2, <1>3 DEF Share
<1>5. queue' \in Seq(Share) /\ Len(queue') <= 1
  BY <1>4, FunctionTypes DEF Submit
<1>6. CASE GoIdle(w)
  <2>1. OnlyThread(w)
    BY <1>1, <1>5, <1>6, FunctionTypes DEF OnlyThread, GoIdle
  <2>2. WorkIsDue(w)
    BY <1>1, <1>6, FunctionTypes, WorkerFacts DEF WorkIsDue, GoIdle
  <2> QED BY <2>1, <2>2, OneWorkerKeepsInv
<1>7. CASE at' = [at EXCEPT ![w] = "work"] /\ UNCHANGED <<state, range>>
  <2>1. OnlyThread(w)
    BY <1>1, <1>5, <1>7, FunctionTypes DEF OnlyThread
  <2>2. WorkIsDue(w)
    BY <1>1, <1>7, FunctionTypes, WorkerFacts DEF WorkIsDue
  <2> QED BY <2>1, <2>2, OneWorkerKeepsInv
<1> QED BY <1>6, <1>7 DEF Submit

--------------------------------------------------------------------------------

(* The other invariants say nothing of the submit channel.                 *)
LEMMA OtherInvsAreUnchanged ==
  ASSUME IInv, UNCHANGED <<version, seen, commands, synced, manager, state, at>>
  PROVE  /\ HandedWasSent' /\ BusyHasAJob' /\ VersionsAreBounded'
         /\ WorksOnLastJobHanded' /\ SyncedMatchesChannel'
<1>1. HandedWasSent' /\ BusyHasAJob' /\ VersionsAreBounded'
  BY DEF IInv, HandedWasSent, BusyHasAJob, VersionsAreBounded
<1>2. WorksOnLastJobHanded'
  BY DEF IInv, WorksOnLastJobHanded, Running, OnPom
<1>3. SyncedMatchesChannel'
  BY DEF IInv, SyncedMatchesChannel, Latest
<1> QED BY <1>1, <1>2, <1>3

LEMMA StepKeepsInv == IInv /\ [Next]_vars => IInv'
<1> SUFFICES ASSUME IInv, [Next]_vars PROVE IInv'
  OBVIOUS
<1>1. CASE UNCHANGED vars
  <2>1. TypeOK'
    BY <1>1 DEF vars, channel, worker, IInv, TypeOK, Chan!TypeOK
  <2> QED
    BY <1>1, <2>1, OtherInvsAreUnchanged DEF IInv, vars, channel, worker
<1>2. CASE Manager
  BY <1>2, ManagerKeepsInv
<1>3. CASE TakeShare \/ SubmitTaskEnds
  <2>1. /\ UNCHANGED <<version, open, noted, seen, told, commands, synced, manager,
                       state, at, range>>
    BY <1>3 DEF TakeShare, SubmitTaskEnds, channel, worker
  <2>2. queue' \in Seq(Share) /\ Len(queue') <= 1 /\ submitOpen' \in BOOLEAN
    <3>1. CASE SubmitTaskEnds
      BY <3>1, FunctionTypes DEF SubmitTaskEnds
    <3>2. CASE TakeShare
      <4>1. queue \in Seq(Share) /\ queue # <<>> /\ Len(queue) <= 1
        BY <3>2, FunctionTypes DEF TakeShare
      <4>2. Tail(queue) \in Seq(Share) /\ Len(Tail(queue)) = Len(queue) - 1
        BY <4>1
      <4>3. queue' = Tail(queue) /\ UNCHANGED submitOpen /\ submitOpen \in BOOLEAN
        BY <3>2 DEF TakeShare, IInv, TypeOK
      <4>4. Len(queue) \in Nat
        BY <4>1
      <4> QED BY <4>1, <4>2, <4>3, <4>4
    <3> QED BY <1>3, <3>1, <3>2
  <2>3. TypeOK'
    BY <2>1, <2>2 DEF IInv, TypeOK, Chan!TypeOK
  <2> QED
    BY <2>1, <2>3, OtherInvsAreUnchanged DEF IInv
<1>4. ASSUME NEW w \in Workers, Worker(w) PROVE IInv'
  BY <1>4, ReceiveKeepsInv, FindKeepsInv, SubmitKeepsInv DEF Worker
<1>5. ASSUME NEW g \in Gpus, FindWrong(g) PROVE IInv'
  BY <1>5, FindKeepsInv DEF Workers
<1> QED BY <1>1, <1>2, <1>3, <1>4, <1>5 DEF Next

(* The inductive invariant holds throughout (MinerManager and its threads). *)
THEOREM MiningInvariant == Spec => []IInv
<1> QED BY InitIsInductive, StepKeepsInv, PTL DEF Spec

(* Every thread works on the job it was handed last, for any number of     *)
(* threads and commands (launch_gpu_miner, launch_cpu_miner).              *)
THEOREM ThreadsNeverGoBack == Spec => []WorksOnLastJobHanded
<1>1. IInv => WorksOnLastJobHanded
  BY DEF IInv
<1> QED BY <1>1, MiningInvariant, PTL

(* is_synced tells what is in the channel while the manager runs           *)
(* (process_block).                                                        *)
THEOREM SuspensionIsSentOnce == Spec => []SyncedMatchesChannel
<1>1. IInv => SyncedMatchesChannel
  BY DEF IInv
<1> QED BY <1>1, MiningInvariant, PTL
================================================================================
