--------------------------------- MODULE Watch ---------------------------------
(***************************************************************************)
(* The latest-value channel of watch.rs, at the grain of its atomic loads, *)
(* stores and lock operations.  One Sender and a set of receivers share    *)
(*   value, behind a RwLock (held for writing while senderPc = "replaced"),*)
(*   id, an atomic counter that receivers read WITHOUT that lock,          *)
(*   wait_for_change, a mutex, with the condition variable notify_change,  *)
(*   sender_alive, an atomic flag.                                         *)
(* The n-th value sent is represented by its number, the initial one by 1. *)
(***************************************************************************)
EXTENDS Naturals

CONSTANTS
  Receivers,        \* the receiver threads
  First,            \* the receiver that channel() returns
  Nobody,           \* "the mutex is free"
  MaxValue,         \* bound: the sender sends at most MaxValue - 1 values
  SpuriousWakeups   \* TRUE: std's Condvar; FALSE: the default parking_lot one

ASSUME ReceiversAssumption == First \in Receivers /\ Nobody \notin Receivers
ASSUME BoundAssumption == MaxValue \in Nat \ {0}
ASSUME SpuriousAssumption == SpuriousWakeups \in BOOLEAN

VARIABLES
  value,      \* Shared.value
  id,         \* Shared.id
  alive,      \* Shared.sender_alive
  mutex,      \* who holds Shared.wait_for_change
  senderPc,   \* where the sender is
  pc,         \* where each receiver is in get_changed or wait_for_change
  op,         \* which of the two each receiver runs
  last,       \* Receiver.last_observed
  notedId,    \* history: last_observed as of the latest delivery
  handed,     \* history: the value each receiver was last handed
  toldClosed  \* history: whether it has been handed ChannelClosed

senderVars == <<value, id, alive, senderPc>>
history == <<notedId, handed, toldClosed>>
channelVars ==
  <<value, id, alive, mutex, senderPc, pc, op, last, notedId, handed, toldClosed>>

SenderPcs == {"ready", "locking", "replaced", "waking", "dropping", "gone"}

ReceiverPcs ==
  {"unborn", "idle", "checkAlive", "readId", "lock", "sleep", "waiting",
   "woken", "recheckAlive", "readLatest", "clone", "dropped"}

(* The receivers counted by Shared.receivers_count. *)
Counted == {r \in Receivers : pc[r] \notin {"unborn", "dropped"}}

ChannelTypeOK ==
  /\ value \in Nat /\ id \in Nat
  /\ alive \in BOOLEAN
  /\ mutex \in Receivers \cup {Nobody}
  /\ senderPc \in SenderPcs
  /\ pc \in [Receivers -> ReceiverPcs]
  /\ op \in [Receivers -> {"get", "wait"}]
  /\ last \in [Receivers -> Nat]
  /\ notedId \in [Receivers -> Nat]
  /\ handed \in [Receivers -> Nat]
  /\ toldClosed \in [Receivers -> BOOLEAN]

(* channel(): one receiver exists and has observed nothing. *)
ChannelInit ==
  /\ value = 1 /\ id = 1
  /\ alive = TRUE
  /\ mutex = Nobody
  /\ senderPc = "ready"
  /\ pc = [r \in Receivers |-> IF r = First THEN "idle" ELSE "unborn"]
  /\ op = [r \in Receivers |-> "get"]
  /\ last = [r \in Receivers |-> 0]
  /\ notedId = [r \in Receivers |-> 0]
  /\ handed = [r \in Receivers |-> 0]
  /\ toldClosed = [r \in Receivers |-> FALSE]

--------------------------------------------------------------------------------
(* The sender. *)

(* send: with no receiver left it returns ChannelClosed and changes nothing. *)
SendBegin ==
  /\ senderPc = "ready"
  /\ Counted # {}
  /\ value < MaxValue
  /\ senderPc' = "locking"
  /\ UNCHANGED <<value, id, alive, mutex, pc, op, last, history>>

(* replace_value: store the value under the write lock ... *)
SendReplace ==
  /\ senderPc = "locking"
  /\ value' = value + 1
  /\ senderPc' = "replaced"
  /\ UNCHANGED <<id, alive, mutex, pc, op, last, history>>

(* ... and increment the id before the lock is released. *)
SendIncrementId ==
  /\ senderPc = "replaced"
  /\ id' = id + 1
  /\ senderPc' = "waking"
  /\ UNCHANGED <<value, alive, mutex, pc, op, last, history>>

(* Mutant: the drop does not wake the waiting receivers. *)
SenderDropSilently ==
  /\ senderPc = "ready"
  /\ alive' = FALSE
  /\ senderPc' = "gone"
  /\ UNCHANGED <<value, id, mutex, pc, op, last, history>>

(* drop_sender *)
SenderDrop ==
  /\ senderPc = "ready"
  /\ alive' = FALSE
  /\ senderPc' = "dropping"
  /\ UNCHANGED <<value, id, mutex, pc, op, last, history>>

(* Mutant: notify_all without the mutex. *)
WakeUpWithoutLock ==
  /\ senderPc \in {"waking", "dropping"}
  /\ pc' = [r \in Receivers |-> IF pc[r] = "waiting" THEN "woken" ELSE pc[r]]
  /\ senderPc' = IF senderPc = "waking" THEN "ready" ELSE "gone"
  /\ UNCHANGED <<value, id, alive, mutex, op, last, history>>

(* Mutant: notify_one. *)
WakeUpOne ==
  /\ senderPc \in {"waking", "dropping"}
  /\ mutex = Nobody
  /\ LET waiting == {r \in Receivers : pc[r] = "waiting"} IN
       IF waiting = {} THEN UNCHANGED pc
       ELSE \E r \in waiting : pc' = [pc EXCEPT ![r] = "woken"]
  /\ senderPc' = IF senderPc = "waking" THEN "ready" ELSE "gone"
  /\ UNCHANGED <<value, id, alive, mutex, op, last, history>>

(* wake_up_threads, which ends send and drop: with the mutex, notify_all. *)
WakeUpThreads ==
  /\ senderPc \in {"waking", "dropping"}
  /\ mutex = Nobody
  /\ pc' = [r \in Receivers |-> IF pc[r] = "waiting" THEN "woken" ELSE pc[r]]
  /\ senderPc' = IF senderPc = "waking" THEN "ready" ELSE "gone"
  /\ UNCHANGED <<value, id, alive, mutex, op, last, history>>

--------------------------------------------------------------------------------
(* A receiver. *)

Goto(r, to) == pc' = [pc EXCEPT ![r] = to]

(* Returning drops the mutex guard, if there is one. *)
Return(r) ==
  /\ Goto(r, "idle")
  /\ mutex' = IF mutex = r THEN Nobody ELSE mutex

(* get_changed or wait_for_change is called; both run get_changed_internal. *)
Call(r) ==
  /\ pc[r] = "idle"
  /\ \E o \in {"get", "wait"} : op' = [op EXCEPT ![r] = o]
  /\ Goto(r, "checkAlive")
  /\ UNCHANGED <<senderVars, mutex, last, history>>

ReturnClosed(r) ==
  /\ ~alive
  /\ toldClosed' = [toldClosed EXCEPT ![r] = TRUE]
  /\ Return(r)
  /\ UNCHANGED <<senderVars, op, last, notedId, handed>>

(* Mutant: the test after the wait is inverted. *)
CheckAliveInverted(r) ==
  /\ pc[r] \in {"checkAlive", "recheckAlive"}
  /\ \/ /\ alive = (pc[r] = "recheckAlive")
        /\ toldClosed' = [toldClosed EXCEPT ![r] = TRUE]
        /\ Return(r)
        /\ UNCHANGED <<senderVars, op, last, notedId, handed>>
     \/ /\ alive = (pc[r] = "checkAlive")
        /\ Goto(r, IF pc[r] = "checkAlive" THEN "readId" ELSE "readLatest")
        /\ UNCHANGED <<senderVars, mutex, op, last, history>>

(* get_changed_internal, and later wait_for_change: is the sender alive? *)
CheckAlive(r) ==
  /\ pc[r] \in {"checkAlive", "recheckAlive"}
  /\ \/ ReturnClosed(r)
     \/ /\ alive
        /\ Goto(r, IF pc[r] = "checkAlive" THEN "readId" ELSE "readLatest")
        /\ UNCHANGED <<senderVars, mutex, op, last, history>>

(* get_changed_internal found the id it knows: get_changed returns None;   *)
(* wait_for_change takes the mutex and tries again, then waits.            *)
NothingNew(r) ==
  /\ last[r] = id
  /\ \/ op[r] = "get" /\ Return(r)
     \/ op[r] = "wait" /\ mutex # r /\ Goto(r, "lock") /\ UNCHANGED mutex
     \/ op[r] = "wait" /\ mutex = r /\ Goto(r, "sleep") /\ UNCHANGED mutex
  /\ UNCHANGED <<senderVars, op, last, history>>

(* get_changed_internal: load the id, and note it if it is a new one. *)
ReadId(r) ==
  /\ pc[r] = "readId"
  /\ \/ NothingNew(r)
     \/ /\ last[r] # id
        /\ last' = [last EXCEPT ![r] = id]
        /\ Goto(r, "clone")
        /\ UNCHANGED <<senderVars, mutex, op, history>>

(* clone_value: the read lock excludes a sender inside replace_value. *)
CloneValue(r) ==
  /\ pc[r] = "clone"
  /\ senderPc # "replaced"
  /\ handed' = [handed EXCEPT ![r] = value]
  /\ notedId' = [notedId EXCEPT ![r] = last[r]]
  /\ Return(r)
  /\ UNCHANGED <<senderVars, op, last, toldClosed>>

(* wait_for_change: lock(), then get_changed_internal once more. *)
AcquireLock(r) ==
  /\ pc[r] = "lock"
  /\ mutex = Nobody
  /\ mutex' = r
  /\ Goto(r, "checkAlive")
  /\ UNCHANGED <<senderVars, op, last, history>>

(* Condvar::wait releases the mutex and starts to wait, atomically. *)
Sleep(r) ==
  /\ pc[r] = "sleep"
  /\ mutex' = Nobody
  /\ Goto(r, "waiting")
  /\ UNCHANGED <<senderVars, op, last, history>>

SpuriousWakeup(r) ==
  /\ SpuriousWakeups
  /\ pc[r] = "waiting"
  /\ Goto(r, "woken")
  /\ UNCHANGED <<senderVars, mutex, op, last, history>>

(* Condvar::wait takes the mutex back before it returns. *)
ReacquireLock(r) ==
  /\ pc[r] = "woken"
  /\ mutex = Nobody
  /\ mutex' = r
  /\ Goto(r, "recheckAlive")
  /\ UNCHANGED <<senderVars, op, last, history>>

(* After the wait the id is noted whether or not it has changed. *)
ReadLatest(r) ==
  /\ pc[r] = "readLatest"
  /\ last' = [last EXCEPT ![r] = id]
  /\ Goto(r, "clone")
  /\ UNCHANGED <<senderVars, mutex, op, history>>

(* Mutant: the copy starts from the id of the channel. *)
CloneReceiverAtId(r, c) ==
  /\ pc[r] = "idle" /\ pc[c] = "unborn"
  /\ Goto(c, "idle")
  /\ last' = [last EXCEPT ![c] = id]
  /\ notedId' = [notedId EXCEPT ![c] = notedId[r]]
  /\ handed' = [handed EXCEPT ![c] = handed[r]]
  /\ UNCHANGED <<senderVars, mutex, op, toldClosed>>

(* Receiver::clone, by a thread that is not inside a call. *)
CloneReceiver(r, c) ==
  /\ pc[r] = "idle" /\ pc[c] = "unborn"
  /\ Goto(c, "idle")
  /\ last' = [last EXCEPT ![c] = last[r]]
  /\ notedId' = [notedId EXCEPT ![c] = notedId[r]]
  /\ handed' = [handed EXCEPT ![c] = handed[r]]
  /\ UNCHANGED <<senderVars, mutex, op, toldClosed>>

(* drop(Receiver) *)
DropReceiver(r) ==
  /\ pc[r] = "idle"
  /\ Goto(r, "dropped")
  /\ UNCHANGED <<senderVars, mutex, op, last, history>>

--------------------------------------------------------------------------------

Sender ==
  SendBegin \/ SendReplace \/ SendIncrementId \/ SenderDrop \/ WakeUpThreads

(* The steps of a call once it is made. *)
Step(r) ==
  \/ CheckAlive(r) \/ ReadId(r) \/ CloneValue(r) \/ Sleep(r) \/ ReadLatest(r)
  \/ AcquireLock(r) \/ ReacquireLock(r)

Receiver(r) ==
  \/ Call(r) \/ Step(r) \/ SpuriousWakeup(r) \/ DropReceiver(r)
  \/ \E c \in Receivers : CloneReceiver(r, c)

ChannelNext == Sender \/ \E r \in Receivers : Receiver(r)

(* The threads keep running.  A mutex that is free again and again is had  *)
(* eventually (parking_lot's is fair in this sense); a worker thread polls *)
(* or waits for ever (the loops of miner.rs) until it drops its receiver.  *)
(* Nothing makes the sender begin a send or be dropped.                    *)
ChannelFairness ==
  /\ WF_channelVars(SendReplace) /\ WF_channelVars(SendIncrementId) /\ SF_channelVars(WakeUpThreads)
  /\ \A r \in Receivers :
       /\ WF_channelVars(Call(r) \/ CheckAlive(r) \/ ReadId(r) \/ Sleep(r) \/ ReadLatest(r))
       /\ WF_channelVars(CloneValue(r))
       /\ SF_channelVars(AcquireLock(r)) /\ SF_channelVars(ReacquireLock(r))

ChannelSpec == ChannelInit /\ [][ChannelNext]_channelVars /\ ChannelFairness

--------------------------------------------------------------------------------
(* What makes the channel correct. *)

(* A receiver that would be told "nothing new" has indeed been handed the  *)
(* value now in the channel: no interleaving of send with the lock-free id *)
(* check of get_changed loses an update (replace_value, get_changed).      *)
NoLostUpdate ==
  \A r \in Counted :
    pc[r] = "idle" /\ last[r] = id /\ senderPc # "replaced" => handed[r] = value

(* A receiver asleep on the condition variable although there is news - a  *)
(* new id, or a dead sender - is about to be notified: neither send nor    *)
(* drop slips between its last check and its wait (wake_up_threads).       *)
NoMissedWakeup ==
  \A r \in Receivers :
    /\ pc[r] = "waiting" /\ last[r] # id => senderPc = "waking"
    /\ pc[r] = "waiting" /\ ~alive => senderPc = "dropping"

(* The channel implements the latest-value register.  Values are delivered *)
(* in the order of sending, none after ChannelClosed.                      *)
LatestValueRegister ==
  INSTANCE LatestValue WITH
    version <- value, open <- alive,
    noted <- notedId, seen <- handed, told <- toldClosed

ImplementsLatestValue == LatestValueRegister!Spec

(* A value sent is seen: a receiver that stays catches up with the sender  *)
(* again and again, or is told that the channel is closed (get_changed,    *)
(* wait_for_change).                                                       *)
EveryReceiverCatchesUp ==
  \A r \in Receivers : []<>(handed[r] = value \/ toldClosed[r] \/ r \notin Counted)

(* A dropped sender is noticed by every receiver, waiting or polling: this *)
(* is what lets the worker threads of miner.rs end.                        *)
EveryReceiverLearnsOfClose ==
  \A r \in Receivers : r \in Counted /\ ~alive ~> toldClosed[r] \/ r \notin Counted

(* The inductive invariant behind the safety properties.                   *)

(* The id lags the value only inside replace_value.                        *)
IdTracksValue == value = id + (IF senderPc = "replaced" THEN 1 ELSE 0)

AliveUntilDropped == alive <=> senderPc \notin {"dropping", "gone"}

(* Who holds the mutex is inside wait_for_change, and who is about to wait *)
(* or is back from waiting holds it.                                       *)
MutexDiscipline ==
  \A r \in Receivers :
    /\ mutex = r =>
         pc[r] \in {"checkAlive", "readId", "sleep", "recheckAlive",
                   "readLatest", "clone"}
    /\ pc[r] \in {"sleep", "recheckAlive", "readLatest"} => mutex = r

(* What a receiver notes is never newer than what it has been handed.      *)
NotedIsSeen ==
  \A r \in Receivers :
    /\ notedId[r] <= last[r] /\ last[r] <= id
    /\ notedId[r] <= handed[r] /\ handed[r] <= value
    /\ pc[r] # "clone" => notedId[r] = last[r]

(* A wait that has begun under the mutex keeps the sender's wake-up behind *)
(* it: what the sender changes meanwhile it still has to announce.         *)
WakeupIsDue ==
  \A r \in Receivers :
    /\ pc[r] \in {"sleep", "waiting"} /\ last[r] # id => senderPc = "waking"
    /\ /\ ~alive
       /\ pc[r] \in {"sleep", "waiting"} \/ (pc[r] = "readId" /\ mutex = r)
       => senderPc = "dropping"

(* Nothing is delivered after ChannelClosed.                               *)
ToldIsFinal ==
  \A r \in Receivers :
    toldClosed[r] => ~alive /\ pc[r] \in {"unborn", "idle", "checkAlive", "dropped"}

ChannelInv ==
  /\ ChannelTypeOK
  /\ IdTracksValue /\ AliveUntilDropped /\ MutexDiscipline
  /\ NotedIsSeen /\ WakeupIsDue /\ ToldIsFinal

================================================================================
