-------------------------------- MODULE Devices --------------------------------
(***************************************************************************)
(* Who may use which GPU: the registry of installed walks, of mining       *)
(* models, of bans and of busy devices in pom_gpu.rs, the one inference    *)
(* engine of slm.rs, and the two handlers of stratum.rs that start an      *)
(* inference.                                                              *)
(*                                                                         *)
(* Actors are the GPU worker threads, one per device, and the blocking     *)
(* tasks that run inferences.  A model is named by its PoM tier, which is  *)
(* fixed once the chain is past H2 (models.rs).  All of the staged models  *)
(* are downloaded: main.rs does not mine otherwise.                        *)
(*                                                                         *)
(* A registry is behind a mutex of its own that is held for one look-up or *)
(* one update, so an action touches few of them; INSTALL_LOCK and ENGINE   *)
(* are held over many steps and are modelled as `installer' and `holder'.  *)
(* Where the walk's weights lie, shared with the engine or its own, is     *)
(* left out.                                                               *)
(***************************************************************************)
EXTENDS Integers, FiniteSets

CONSTANTS
  Devices,     \* CUDA ordinals
  Models,      \* the staged models, each named by its tier
  Assignments, \* the mining models that main.rs may assign by VRAM
  Tasks,       \* bound: inferences at one time, of this and earlier sessions
  Tight,       \* <<device, model>> where memory may run out
  Turing,      \* devices that refuse the walk's PTX
  None, Nobody

ASSUME DevicesAssumption == Devices \subseteq Nat /\ 0 \in Devices
ASSUME ModelsAssumption == Models \subseteq Nat /\ Models # {}
ASSUME AssignmentsAssumption ==
  \A assigned \in Assignments :
    \E D \in SUBSET Devices : 0 \in D /\ assigned \in [D -> Models]
ASSUME TasksAssumption == Tasks \cap Devices = {}
ASSUME TightAssumption == Tight \subseteq Devices \X Models /\ Turing \subseteq Devices
ASSUME NoneAssumption == None \notin Models \cup Devices /\ Nobody \notin Devices \cup Tasks

Actors == Devices \cup Tasks     \* a worker is named by its device

VARIABLES
  tier,         \* MINING_TIERS, a partial function
  banned,       \* OOM_BANLIST
  unsupported,  \* POM_UNSUPPORTED
  busy,         \* INFERENCE_BUSY
  index,        \* POM_INDICES: the model of each device's index
  walk,         \* MINERS: the model of each installed walk
  installer,    \* the worker that holds INSTALL_LOCK
  engine,       \* the model in ENGINE
  holder,       \* the actor that holds ENGINE
  poisoned,     \* whether a thread panicked while it held ENGINE
  inFlight,     \* challenge_in_flight of the current session
  current,      \* tasks that the current session started
  at,           \* where each actor is
  goal,         \* the model each actor is loading or running
  on,           \* the device it does so on
  flagged,      \* the device a task marked busy (challenge_dev, task_dev)
  pick          \* the model a downgrade chose

assignment == <<tier, banned, unsupported>>
eng == <<engine, holder, poisoned>>
session == <<inFlight, current, flagged>>
vars == <<assignment, busy, index, walk, installer, eng, session, at, goal, on, pick>>

Optional(S) == S \cup {None}

WorkerPlaces ==
  {"mining", "lock", "engine", "engine load", "reassign", "share", "walk load",
   "downgrade", "dead"}
TaskPlaces ==
  {"idle", "queued", "engine load", "reassign", "generating", "ending"}

AssignmentTyped ==
  /\ tier \in UNION {[D -> Models] : D \in SUBSET Devices} /\ 0 \in DOMAIN tier
  /\ banned \subseteq Devices \X Models
  /\ unsupported \subseteq Devices

RegistriesTyped ==
  /\ index \in [Devices -> Optional(Models)]
  /\ walk \in [Devices -> Optional(Models)]
  /\ installer \in Devices \cup {Nobody}
  /\ engine \in Optional(Models)
  /\ holder \in Actors \cup {Nobody}
  /\ poisoned \in BOOLEAN

SessionTyped ==
  /\ busy \subseteq Devices
  /\ inFlight \in BOOLEAN
  /\ current \subseteq Tasks
  /\ flagged \in [Tasks -> Optional(Devices)]

PlacesTyped ==
  /\ at \in [Actors -> WorkerPlaces \cup TaskPlaces]
  /\ \A d \in Devices : at[d] \in WorkerPlaces
  /\ \A t \in Tasks : at[t] \in TaskPlaces

PlansTyped ==
  /\ goal \in [Actors -> Optional(Models)]
  /\ on \in [Actors -> Optional(Devices)]
  /\ pick \in [Actors -> Optional(Models)]

TypeOK ==
  AssignmentTyped /\ RegistriesTyped /\ SessionTyped /\ PlacesTyped /\ PlansTyped

--------------------------------------------------------------------------------
(* Registries. *)

Lowest(S) == CHOOSE d \in S : \A e \in S : d <= e

(* mining_tier: a device without an entry mines the first entry's model.   *)
MiningTier(d) == IF d \in DOMAIN tier THEN tier[d] ELSE tier[Lowest(DOMAIN tier)]

(* device_for_model(m).unwrap_or(0) *)
DeviceFor(m) ==
  LET miners == {d \in DOMAIN tier : tier[d] = m}
  IN  IF miners = {} THEN 0 ELSE Lowest(miners)

(* What downgrade_after_oom picks for a device on which m ran out of memory. *)
Smaller(d, m, bans) ==
  LET candidates == {s \in Models : s < m /\ <<d, s>> \notin bans}
  IN  IF candidates = {} THEN None
      ELSE CHOOSE s \in candidates : \A r \in candidates : r <= s

(* Mutant: the index of another model is kept.                             *)
IndexIfNone(d, m) ==
  index' = IF index[d] = None THEN [index EXCEPT ![d] = m] ELSE index

(* invalidate_index_unless, then an index for m if there is none.          *)
IndexFor(d, m) == index' = [index EXCEPT ![d] = m]

(* Mutant: a failed search for a smaller model is not noticed.             *)
SetMiningTierAnyway(d, m) ==
  tier' = [e \in DOMAIN tier \cup {d} |-> IF e = d THEN m ELSE tier[e]]

(* set_mining_tier; no candidate, no change. *)
SetMiningTier(d, m) ==
  tier' = IF m = None THEN tier
          ELSE [e \in DOMAIN tier \cup {d} |-> IF e = d THEN m ELSE tier[e]]

Init ==
  /\ tier \in Assignments
  /\ banned = {} /\ unsupported = {} /\ busy = {}
  /\ index = [d \in Devices |-> None] /\ walk = [d \in Devices |-> None]
  /\ installer = Nobody
  /\ engine = None /\ holder = Nobody /\ poisoned = FALSE
  /\ inFlight = FALSE /\ current = {} /\ flagged = [t \in Tasks |-> None]
  /\ at = [a \in Actors |-> IF a \in Devices THEN "mining" ELSE "idle"]
  /\ goal = [a \in Actors |-> None] /\ on = [a \in Actors |-> None]
  /\ pick = [a \in Actors |-> None]

--------------------------------------------------------------------------------
(* What an actor's step does to itself. *)

GoTo(a, place) == at' = [at EXCEPT ![a] = place]

Forget(a) ==
  /\ goal' = [goal EXCEPT ![a] = None]
  /\ on' = [on EXCEPT ![a] = None]
  /\ pick' = [pick EXCEPT ![a] = None]

KeepPlan == UNCHANGED <<goal, on, pick>>

(* The worker returns from ensure_installed and drops INSTALL_LOCK.        *)
Return(d) ==
  /\ installer' = Nobody
  /\ GoTo(d, "mining") /\ Forget(d)

(* The engine could not be loaded: ENGINE is released.                     *)
GiveUpEngine(a) ==
  /\ holder' = Nobody
  /\ \/ a \in Devices /\ Return(a)
     \/ a \in Tasks /\ GoTo(a, "ending") /\ Forget(a) /\ UNCHANGED installer

(* Memory ran out for model m on device d: the ban and the choice of what  *)
(* to mine instead.                                                        *)
Ban(a, d, m) ==
  /\ banned' = banned \cup {<<d, m>>}
  /\ pick' = [pick EXCEPT ![a] = Smaller(d, m, banned')]

--------------------------------------------------------------------------------
(* A GPU worker: ensure_installed and what it calls. *)

(* The checks before the lock.  (Where one fails, nothing changes.)        *)
EnsureInstalled(d) ==
  /\ at[d] = "mining"
  /\ walk[d] = None /\ d \notin unsupported /\ d \notin busy
  /\ GoTo(d, "lock")
  /\ UNCHANGED <<assignment, busy, index, walk, installer, eng, session>> /\ KeepPlan

(* Under the lock: nothing to do for a banned model, else the index of     *)
(* another model is dropped, and the device's index, another device's of   *)
(* the same model or a new one is used.  Only the holder of the lock       *)
(* touches indexes, so this is one step.  No one else installs the walk of *)
(* d, so the second is_installed finds what the first one found.           *)
BeginInstall(d) ==
  /\ at[d] = "lock" /\ installer = Nobody
  /\ <<d, MiningTier(d)>> \notin banned
  /\ installer' = d
  /\ IndexFor(d, MiningTier(d))
  /\ goal' = [goal EXCEPT ![d] = MiningTier(d)]
  /\ GoTo(d, IF d = 0 THEN "engine" ELSE "walk load")
  /\ UNCHANGED <<assignment, busy, walk, eng, session, on, pick>>

NothingToInstall(d) ==
  /\ at[d] = "lock" /\ installer = Nobody
  /\ <<d, MiningTier(d)>> \in banned
  /\ Return(d)
  /\ UNCHANGED <<assignment, busy, index, walk, eng, session>>

(* The old index is gone by then.                                          *)
BuildFails(d) ==
  /\ at[d] = "lock" /\ installer = Nobody
  /\ <<d, MiningTier(d)>> \notin banned
  /\ \A e \in Devices : index[e] # MiningTier(d)
  /\ index' = [index EXCEPT ![d] = None]
  /\ Return(d)
  /\ UNCHANGED <<assignment, busy, walk, eng, session>>

(* ensure_loaded, on device 0 only.  A poisoned ENGINE is emptied first.   *)
EnsureLoaded(d) ==
  /\ at[d] = "engine" /\ holder = Nobody
  /\ \/ /\ ~poisoned /\ engine = goal[d]
        /\ GoTo(d, "share")
        /\ UNCHANGED <<engine, holder, on>>
     \/ /\ poisoned \/ engine # goal[d]
        /\ engine' = None /\ holder' = d
        /\ on' = [on EXCEPT ![d] = DeviceFor(goal[d])]
        /\ GoTo(d, "engine load")
  /\ UNCHANGED <<assignment, busy, index, walk, installer, poisoned, session, goal, pick>>

(* pom_shared takes ENGINE once more; whatever it finds, a walk is loaded. *)
PomShared(d) ==
  /\ at[d] = "share" /\ holder = Nobody
  /\ GoTo(d, "walk load")
  /\ UNCHANGED <<assignment, busy, index, walk, installer, eng, session>> /\ KeepPlan

(* The walk is loaded and installed unless its size differs from the       *)
(* index's.                                                                *)
WalkLoads(d) ==
  /\ at[d] = "walk load"
  /\ walk' = IF index[d] \in {None, goal[d]} THEN [walk EXCEPT ![d] = goal[d]] ELSE walk
  /\ Return(d)
  /\ UNCHANGED <<assignment, busy, index, eng, session>>

WalkFails(d) ==
  /\ at[d] = "walk load"
  /\ Return(d)
  /\ unsupported' \in {unsupported, unsupported \cup ({d} \cap Turing)}
  /\ UNCHANGED <<tier, banned, busy, index, walk, eng, session>>

(* A panic is caught and treated alike.                                    *)
WalkOutOfMemory(d) ==
  /\ at[d] = "walk load" /\ <<d, goal[d]>> \in Tight
  /\ Ban(d, d, goal[d])
  /\ GoTo(d, "downgrade")
  /\ UNCHANGED <<tier, unsupported, busy, index, walk, installer, eng, session, goal, on>>

Downgrade(d) ==
  /\ at[d] = "downgrade"
  /\ SetMiningTier(d, pick[d])
  /\ Return(d)
  /\ UNCHANGED <<banned, unsupported, busy, index, walk, eng, session>>

--------------------------------------------------------------------------------
(* The engine is loaded by a task or by the worker of device 0. *)

(* Mutant: ENGINE is released once the model is loaded.                    *)
EngineLoadsAndReleases(a) ==
  /\ at[a] = "engine load"
  /\ engine' = goal[a] /\ holder' = Nobody
  /\ GoTo(a, IF a \in Devices THEN "share" ELSE "generating")
  /\ UNCHANGED <<assignment, busy, index, walk, installer, poisoned, session>> /\ KeepPlan

EngineLoads(a) ==
  /\ at[a] = "engine load"
  /\ engine' = goal[a]
  /\ \/ a \in Devices /\ holder' = Nobody /\ GoTo(a, "share")
     \/ a \in Tasks /\ GoTo(a, "generating") /\ UNCHANGED holder
  /\ UNCHANGED <<assignment, busy, index, walk, installer, poisoned, session>> /\ KeepPlan

EngineFails(a) ==
  /\ at[a] = "engine load"
  /\ GiveUpEngine(a)
  /\ UNCHANGED <<assignment, busy, index, walk, engine, poisoned, session>>

(* note_inference_oom, up to the choice of a smaller model.                *)
NoteInferenceOom(a) ==
  /\ at[a] = "engine load" /\ <<on[a], goal[a]>> \in Tight
  /\ on[a] \in DOMAIN tier /\ tier[on[a]] = goal[a]
  /\ <<on[a], goal[a]>> \notin banned
  /\ Ban(a, on[a], goal[a])
  /\ GoTo(a, "reassign")
  /\ UNCHANGED <<tier, unsupported, busy, index, walk, installer, eng, session, goal, on>>

(* Mutant: it empties ENGINE, which the caller has locked.                 *)
ReassignAndEvict(a) ==
  /\ at[a] = "reassign" /\ holder = Nobody
  /\ SetMiningTier(on[a], pick[a])
  /\ walk' = [walk EXCEPT ![on[a]] = None]
  /\ GiveUpEngine(a)
  /\ UNCHANGED <<banned, unsupported, busy, index, engine, poisoned, session>>

(* Mutant: the walk is removed under INSTALL_LOCK.                         *)
ReassignUnderInstallLock(a) ==
  /\ at[a] = "reassign" /\ installer \in {Nobody, a}
  /\ SetMiningTier(on[a], pick[a])
  /\ walk' = [walk EXCEPT ![on[a]] = None]
  /\ GiveUpEngine(a)
  /\ UNCHANGED <<banned, unsupported, busy, index, engine, poisoned, session>>

(* Its end, and the end of the load that called it.                        *)
Reassign(a) ==
  /\ at[a] = "reassign"
  /\ SetMiningTier(on[a], pick[a])
  /\ walk' = [walk EXCEPT ![on[a]] = None]
  /\ GiveUpEngine(a)
  /\ UNCHANGED <<banned, unsupported, busy, index, engine, poisoned, session>>

(* A panic of the load.  load_and_run_inference catches it, ensure_loaded  *)
(* does not: the worker unwinds through both locks and ends.               *)
EnginePanics(a) ==
  /\ at[a] \in {"engine load", "generating"}
  /\ holder' = Nobody /\ poisoned' = TRUE
  /\ Forget(a)
  /\ \/ a \in Devices /\ installer' = Nobody /\ GoTo(a, "dead")
     \/ a \in Tasks /\ GoTo(a, "ending") /\ UNCHANGED installer
  /\ UNCHANGED <<assignment, busy, index, walk, engine, session>>

--------------------------------------------------------------------------------
(* Inferences. *)

(* Mutant: the device is marked before the check for another inference.    *)
StartInferenceMarkingFirst(t, m) ==
  /\ at[t] = "idle"
  /\ busy' = busy \cup {DeviceFor(m)}
  /\ IF inFlight THEN UNCHANGED <<inFlight, current, flagged, goal, at>>
     ELSE /\ inFlight' = TRUE
          /\ current' = current \cup {t}
          /\ flagged' = [flagged EXCEPT ![t] = DeviceFor(m)]
          /\ goal' = [goal EXCEPT ![t] = m]
          /\ GoTo(t, "queued")
  /\ UNCHANGED <<assignment, index, walk, installer, eng, on, pick>>

(* handle_challenge and handle_ai_task: one at a time in a session.  (A    *)
(* model that is not ready leaves everything as it was.)                   *)
StartInference(t, m) ==
  /\ at[t] = "idle" /\ ~inFlight
  /\ inFlight' = TRUE
  /\ current' = current \cup {t}
  /\ flagged' = [flagged EXCEPT ![t] = DeviceFor(m)]
  /\ busy' = busy \cup {DeviceFor(m)}
  /\ goal' = [goal EXCEPT ![t] = m]
  /\ GoTo(t, "queued")
  /\ UNCHANGED <<assignment, index, walk, installer, eng, on, pick>>

(* load_and_run_inference: the device that mines the model gives up its    *)
(* walk, unless the engine holds the model already.                        *)
TakeEngine(t) ==
  /\ at[t] = "queued" /\ holder = Nobody
  /\ holder' = t
  /\ \/ /\ ~poisoned /\ engine = goal[t]
        /\ GoTo(t, "generating")
        /\ UNCHANGED <<engine, walk, on>>
     \/ /\ poisoned \/ engine # goal[t]
        /\ engine' = None
        /\ on' = [on EXCEPT ![t] = DeviceFor(goal[t])]
        /\ walk' = [walk EXCEPT ![DeviceFor(goal[t])] = None]
        /\ GoTo(t, "engine load")
  /\ UNCHANGED <<assignment, busy, index, installer, poisoned, session, goal, pick>>

(* A generation that fails evicts the engine.                              *)
Generate(t) ==
  /\ at[t] = "generating"
  /\ holder' = Nobody
  /\ engine' \in {engine, None}
  /\ GoTo(t, "ending") /\ Forget(t)
  /\ UNCHANGED <<assignment, busy, index, walk, installer, poisoned, session>>

(* The end of the blocking task: the flags it set are cleared, the second  *)
(* one being that of the session which started it.                         *)
EndInference(t) ==
  /\ at[t] = "ending"
  /\ busy' = busy \ {flagged[t]}
  /\ flagged' = [flagged EXCEPT ![t] = None]
  /\ inFlight' = (inFlight /\ t \notin current)
  /\ current' = current \ {t}
  /\ GoTo(t, "idle")
  /\ UNCHANGED <<assignment, index, walk, installer, eng>> /\ KeepPlan

(* The session ends and another begins: a new handler with a flag of its   *)
(* own, and a new worker for each device.  Inferences go on.               *)
Reconnect ==
  /\ inFlight' = FALSE /\ current' = {}
  /\ at' = [a \in Actors |-> IF at[a] = "dead" THEN "mining" ELSE at[a]]
  /\ UNCHANGED <<assignment, busy, index, walk, installer, eng, flagged>> /\ KeepPlan

--------------------------------------------------------------------------------
InstallStep(d) ==
  \/ BeginInstall(d) \/ NothingToInstall(d) \/ BuildFails(d) \/ EnsureLoaded(d) \/ PomShared(d)
  \/ WalkLoads(d) \/ WalkFails(d) \/ WalkOutOfMemory(d) \/ Downgrade(d)

EngineStep(a) ==
  \/ EngineLoads(a) \/ EngineFails(a) \/ EnginePanics(a)
  \/ NoteInferenceOom(a) \/ Reassign(a)

TaskStep(t) == TakeEngine(t) \/ Generate(t) \/ EndInference(t)

Next ==
  \/ \E d \in Devices : EnsureInstalled(d) \/ InstallStep(d)
  \/ \E a \in Actors : EngineStep(a)
  \/ \E t \in Tasks : TaskStep(t) \/ \E m \in Models : StartInference(t, m)
  \/ Reconnect

(* Loads and generations end, and whoever waits for a lock gets it though  *)
(* others keep asking for it.                                              *)
Fairness ==
  /\ \A d \in Devices : SF_vars(InstallStep(d))
  /\ WF_vars(\E a \in Actors : EngineStep(a))
  /\ \A t \in Tasks : SF_vars(TaskStep(t))

Spec == Init /\ [][Next]_vars /\ Fairness

--------------------------------------------------------------------------------
(* Safety. *)

(* The walk that is being loaded or installed on a device is over the      *)
(* model of that device's index, however its mining model changes          *)
(* meanwhile: the proof of a nonce is built from that index.               *)
WalkMatchesIndex ==
  \A d \in Devices :
    /\ at[d] \in {"engine", "engine load", "share", "walk load"} => index[d] = goal[d]
    /\ walk[d] # None => index[d] = walk[d]

(* A device is marked busy only while a task is under way that will unmark *)
(* it: a flag left behind would keep the GPU from mining for good.         *)
BusyIsOwned ==
  \A d \in busy : \E t \in Tasks : at[t] # "idle" /\ flagged[t] = d

(* Whoever is at work under a lock holds it, and no lock is held by one    *)
(* who has left: one panic or early return must not block every GPU.       *)
LocksAreHeld ==
  /\ \A a \in Actors :
       holder = a <=> at[a] \in {"engine load", "reassign", "generating"}
  /\ \A d \in Devices : installer = d <=> at[d] \notin {"mining", "lock", "dead"}

(* No inference under way in this session, no flag: else the session would *)
(* refuse every further challenge.                                         *)
InFlightIsOwned == inFlight <=> current # {}

(* What the four above rest on: a load of the engine has a device, a walk  *)
(* is loaded only for a device that has none, and a session has at most    *)
(* one inference.                                                          *)
LoadsOnADevice ==
  \A a \in Actors : at[a] \in {"engine load", "reassign"} => on[a] \in Devices

NoWalkWhileInstalling == \A d \in Devices : at[d] # "mining" => walk[d] = None

OneOfASession ==
  /\ \A t \in current : at[t] # "idle"
  /\ \A t, u \in current : t = u

IInv ==
  /\ TypeOK /\ LocksAreHeld /\ WalkMatchesIndex /\ BusyIsOwned /\ InFlightIsOwned
  /\ LoadsOnADevice /\ NoWalkWhileInstalling /\ OneOfASession

--------------------------------------------------------------------------------
(* Liveness. *)

(* ensure_installed returns or its thread ends: workers and inferences     *)
(* never wait for each other's lock in a circle.                           *)
InstallsEnd == \A d \in Devices : at[d] # "mining" ~> at[d] \in {"mining", "dead"}

(* Every inference that was started ends, and unmarks its device.          *)
InferencesEnd == \A t \in Tasks : at[t] # "idle" ~> at[t] = "idle"
================================================================================
