----------------------------- MODULE DevicesProofs -----------------------------
(***************************************************************************)
(* Proofs about Devices, for any set of devices, models and tasks: IInv    *)
(* holds in every state, so a walk is always over the model of its         *)
(* device's index, no busy flag and no lock is left behind, and a session  *)
(* that refuses an inference has one under way.                            *)
(***************************************************************************)
EXTENDS Devices, WellFoundedInduction, TLAPS

--------------------------------------------------------------------------------
(* Least and greatest elements, for the choices that Devices makes. *)

(* A set of naturals that is not empty has a least element.                *)
LEMMA LeastNatural ==
  ASSUME NEW S, S \subseteq Nat, S # {}
  PROVE  \E n \in S : \A m \in S : n <= m
<1> DEFINE R == OpToRel(<, Nat)
<1>1. IsWellFoundedOn(R, Nat)
  BY NatLessThanWellFounded
<1>2. PICK n \in S : \A m \in S : ~ (<<m, n>> \in R)
  BY <1>1, WFMin, Zenon
<1>3. \A m, k \in Nat : m < k => <<m, k>> \in R
  BY DEF OpToRel
<1>4. \A m \in S : ~ (m < n)
  <2> HIDE DEF R
  <2> QED BY <1>2, <1>3, Zenon
<1>5. \A m \in S : n <= m
  BY <1>4
<1> QED BY <1>5

(* One that is bounded has a greatest: its least upper bound.              *)
LEMMA GreatestNatural ==
  ASSUME NEW S, S \subseteq Nat, S # {}, NEW b \in Nat, \A m \in S : m <= b
  PROVE  \E n \in S : \A m \in S : m <= n
<1> DEFINE U == {n \in Nat : \A m \in S : m <= n}
<1>1. PICK u \in U : \A v \in U : u <= v
  BY LeastNatural, U # {}
<1>2. u \in S
  <2> SUFFICES ASSUME u \notin S PROVE FALSE OBVIOUS
  <2>1. \A m \in S : m <= u - 1
    OBVIOUS
  <2>2. PICK s \in S : TRUE
    OBVIOUS
  <2>3. u - 1 \in Nat
    BY <2>1, <2>2
  <2>4. u - 1 \in U
    BY <2>1, <2>3
  <2> QED BY <1>1, <2>4
<1> QED BY <1>1, <1>2

(* The lowest of some devices is one of them.                              *)
LEMMA LowestIsMember ==
  ASSUME NEW S, S \subseteq Devices, S # {}
  PROVE  Lowest(S) \in S
<1>1. \E n \in S : \A m \in S : n <= m
  BY LeastNatural, DevicesAssumption
<1> QED BY <1>1 DEF Lowest

(* device_for_model names a device.                                        *)
LEMMA DeviceForTyped ==
  ASSUME TypeOK, NEW m
  PROVE  DeviceFor(m) \in Devices
<1> DEFINE miners == {d \in DOMAIN tier : tier[d] = m}
<1>1. miners \subseteq Devices
  BY DEF TypeOK, AssignmentTyped
<1>2. CASE miners = {}
  BY <1>2, DevicesAssumption DEF DeviceFor
<1>3. CASE miners # {}
  BY <1>1, <1>3, LowestIsMember DEF DeviceFor
<1> QED BY <1>2, <1>3

(* mining_tier names a model.                                              *)
LEMMA MiningTierTyped ==
  ASSUME TypeOK, NEW d \in Devices
  PROVE  MiningTier(d) \in Models
<1>1. PICK D \in SUBSET Devices : tier \in [D -> Models]
  BY DEF TypeOK, AssignmentTyped
<1>2. D # {}
  BY <1>1 DEF TypeOK, AssignmentTyped
<1>3. Lowest(D) \in D
  BY <1>2, LowestIsMember
<1>4. DOMAIN tier = D
  BY <1>1
<1> QED BY <1>1, <1>3, <1>4 DEF MiningTier

(* A downgrade picks a staged model or none.                               *)
LEMMA SmallerTyped ==
  ASSUME NEW d, NEW m \in Models, NEW bans
  PROVE  Smaller(d, m, bans) \in Optional(Models)
<1> DEFINE candidates == {s \in Models : s < m /\ <<d, s>> \notin bans}
<1>1. CASE candidates = {}
  BY <1>1 DEF Smaller, Optional
<1>2. CASE candidates # {}
  <2>1. m \in Nat /\ candidates \subseteq Nat
    BY ModelsAssumption
  <2>2. \A s \in candidates : s <= m
    BY <2>1
  <2>3. \E s \in candidates : \A r \in candidates : r <= s
    <3> HIDE DEF candidates
    <3> QED BY <1>2, <2>1, <2>2, GreatestNatural
  <2> QED BY <1>2, <2>3 DEF Smaller, Optional
<1> QED BY <1>1, <1>2

(* set_mining_tier leaves a partial assignment.                            *)
LEMMA SetMiningTierTyped ==
  ASSUME TypeOK, NEW d \in Devices, NEW m \in Optional(Models), SetMiningTier(d, m)
  PROVE  tier' \in UNION {[D -> Models] : D \in SUBSET Devices} /\ 0 \in DOMAIN tier'
<1>1. PICK D \in SUBSET Devices : tier \in [D -> Models]
  BY DEF TypeOK, AssignmentTyped
<1>2. 0 \in D
  BY <1>1 DEF TypeOK, AssignmentTyped
<1>3. CASE m = None
  BY <1>1, <1>2, <1>3 DEF SetMiningTier
<1>4. CASE m # None
  <2> DEFINE E == D \cup {d}
  <2>1. E \in SUBSET Devices /\ DOMAIN tier = D /\ m \in Models
    BY <1>1, <1>4 DEF Optional
  <2>2. tier' \in [E -> Models]
    BY <1>1, <1>4, <2>1 DEF SetMiningTier
  <2> QED BY <1>2, <2>1, <2>2
<1> QED BY <1>3, <1>4

--------------------------------------------------------------------------------
(* Steps. *)

USE DevicesAssumption, ModelsAssumption, TasksAssumption, TightAssumption, NoneAssumption
USE DEF Actors, Optional, WorkerPlaces, TaskPlaces,
        assignment, eng, session, GoTo, Forget, KeepPlan, Return

(* Types are kept. *)
LEMMA StepTyped ==
  ASSUME TypeOK, LoadsOnADevice, [Next]_vars
  PROVE  TypeOK'
<1> USE DEF TypeOK
<1>1. ASSUME NEW d \in Devices, EnsureInstalled(d)
     PROVE  TypeOK'
  BY <1>1 DEF EnsureInstalled, TypeOK, AssignmentTyped, RegistriesTyped, SessionTyped, PlacesTyped, PlansTyped
<1>2. ASSUME NEW d \in Devices, BeginInstall(d)
     PROVE  TypeOK'
  BY <1>2, MiningTierTyped DEF BeginInstall, IndexFor, TypeOK, AssignmentTyped, RegistriesTyped, SessionTyped, PlacesTyped, PlansTyped
<1>3. ASSUME NEW d \in Devices, NothingToInstall(d)
     PROVE  TypeOK'
  BY <1>3 DEF NothingToInstall, TypeOK, AssignmentTyped, RegistriesTyped, SessionTyped, PlacesTyped, PlansTyped
<1>4. ASSUME NEW d \in Devices, BuildFails(d)
     PROVE  TypeOK'
  BY <1>4 DEF BuildFails, TypeOK, AssignmentTyped, RegistriesTyped, SessionTyped, PlacesTyped, PlansTyped
<1>5. ASSUME NEW d \in Devices, EnsureLoaded(d)
     PROVE  TypeOK'
  <2>1. DeviceFor(goal[d]) \in Devices
    BY DeviceForTyped
  <2>2. AssignmentTyped'
    BY <1>5 DEF EnsureLoaded, AssignmentTyped
  <2>3. RegistriesTyped'
    BY <1>5 DEF EnsureLoaded, RegistriesTyped
  <2>4. SessionTyped'
    BY <1>5 DEF EnsureLoaded, SessionTyped
  <2>5. PlacesTyped'
    BY <1>5 DEF EnsureLoaded, PlacesTyped
  <2>6. PlansTyped'
    BY <1>5, <2>1 DEF EnsureLoaded, PlansTyped
  <2> QED BY <2>2, <2>3, <2>4, <2>5, <2>6 DEF TypeOK
<1>6. ASSUME NEW d \in Devices, PomShared(d)
     PROVE  TypeOK'
  BY <1>6 DEF PomShared, TypeOK, AssignmentTyped, RegistriesTyped, SessionTyped, PlacesTyped, PlansTyped
<1>7. ASSUME NEW d \in Devices, WalkLoads(d)
     PROVE  TypeOK'
  BY <1>7 DEF WalkLoads, TypeOK, AssignmentTyped, RegistriesTyped, SessionTyped, PlacesTyped, PlansTyped
<1>8. ASSUME NEW d \in Devices, WalkFails(d)
     PROVE  TypeOK'
  BY <1>8 DEF WalkFails, TypeOK, AssignmentTyped, RegistriesTyped, SessionTyped, PlacesTyped, PlansTyped
<1>9. ASSUME NEW d \in Devices, WalkOutOfMemory(d)
     PROVE  TypeOK'
  BY <1>9, SmallerTyped DEF WalkOutOfMemory, Ban, TypeOK, AssignmentTyped, RegistriesTyped, SessionTyped, PlacesTyped, PlansTyped
<1>10. ASSUME NEW d \in Devices, Downgrade(d)
     PROVE  TypeOK'
  BY <1>10, SetMiningTierTyped DEF Downgrade, TypeOK, AssignmentTyped, RegistriesTyped, SessionTyped, PlacesTyped, PlansTyped
<1>11. ASSUME NEW a \in Actors, EngineLoads(a)
     PROVE  TypeOK'
  <2>1. AssignmentTyped'
    BY <1>11 DEF EngineLoads, AssignmentTyped
  <2>2. RegistriesTyped'
    BY <1>11 DEF EngineLoads, RegistriesTyped, PlansTyped
  <2>3. SessionTyped'
    BY <1>11 DEF EngineLoads, SessionTyped
  <2>4. PlacesTyped'
    BY <1>11 DEF EngineLoads, PlacesTyped
  <2>5. PlansTyped'
    BY <1>11 DEF EngineLoads, PlansTyped
  <2> QED BY <2>1, <2>2, <2>3, <2>4, <2>5 DEF TypeOK
<1>12. ASSUME NEW a \in Actors, EngineFails(a)
     PROVE  TypeOK'
  <2>1. AssignmentTyped'
    BY <1>12 DEF EngineFails, AssignmentTyped
  <2>2. RegistriesTyped'
    BY <1>12 DEF EngineFails, RegistriesTyped, GiveUpEngine
  <2>3. SessionTyped'
    BY <1>12 DEF EngineFails, SessionTyped
  <2>4. PlacesTyped'
    BY <1>12 DEF EngineFails, PlacesTyped, GiveUpEngine
  <2>5. PlansTyped'
    BY <1>12 DEF EngineFails, PlansTyped, GiveUpEngine
  <2> QED BY <2>1, <2>2, <2>3, <2>4, <2>5 DEF TypeOK
<1>13. ASSUME NEW a \in Actors, EnginePanics(a)
     PROVE  TypeOK'
  <2>1. AssignmentTyped'
    BY <1>13 DEF EnginePanics, AssignmentTyped
  <2>2. RegistriesTyped'
    BY <1>13 DEF EnginePanics, RegistriesTyped
  <2>3. SessionTyped'
    BY <1>13 DEF EnginePanics, SessionTyped
  <2>4. PlacesTyped'
    BY <1>13 DEF EnginePanics, PlacesTyped
  <2>5. PlansTyped'
    BY <1>13 DEF EnginePanics, PlansTyped
  <2> QED BY <2>1, <2>2, <2>3, <2>4, <2>5 DEF TypeOK
<1>14. ASSUME NEW a \in Actors, NoteInferenceOom(a)
     PROVE  TypeOK'
  BY <1>14, SmallerTyped DEF NoteInferenceOom, Ban, TypeOK, AssignmentTyped, RegistriesTyped, SessionTyped, PlacesTyped, PlansTyped
<1>15. ASSUME NEW a \in Actors, Reassign(a)
     PROVE  TypeOK'
  <2>1. on[a] \in Devices /\ pick[a] \in Optional(Models)
    BY <1>15 DEF Reassign, LoadsOnADevice, PlansTyped
  <2>2. AssignmentTyped'
    BY <1>15, <2>1, SetMiningTierTyped DEF Reassign, AssignmentTyped
  <2>3. RegistriesTyped'
    BY <1>15 DEF Reassign, RegistriesTyped, GiveUpEngine
  <2>4. SessionTyped'
    BY <1>15 DEF Reassign, SessionTyped
  <2>5. PlacesTyped'
    BY <1>15 DEF Reassign, PlacesTyped, GiveUpEngine
  <2>6. PlansTyped'
    BY <1>15 DEF Reassign, PlansTyped, GiveUpEngine
  <2> QED BY <2>2, <2>3, <2>4, <2>5, <2>6 DEF TypeOK
<1>16. ASSUME NEW t \in Tasks, TakeEngine(t)
     PROVE  TypeOK'
  <2>1. DeviceFor(goal[t]) \in Devices
    BY DeviceForTyped
  <2>2. AssignmentTyped'
    BY <1>16 DEF TakeEngine, AssignmentTyped
  <2>3. RegistriesTyped'
    BY <1>16, <2>1 DEF TakeEngine, RegistriesTyped
  <2>4. SessionTyped'
    BY <1>16 DEF TakeEngine, SessionTyped
  <2>5. PlacesTyped'
    BY <1>16 DEF TakeEngine, PlacesTyped
  <2>6. PlansTyped'
    BY <1>16, <2>1 DEF TakeEngine, PlansTyped
  <2> QED BY <2>2, <2>3, <2>4, <2>5, <2>6 DEF TypeOK
<1>17. ASSUME NEW t \in Tasks, Generate(t)
     PROVE  TypeOK'
  BY <1>17 DEF Generate, TypeOK, AssignmentTyped, RegistriesTyped, SessionTyped, PlacesTyped, PlansTyped
<1>18. ASSUME NEW t \in Tasks, EndInference(t)
     PROVE  TypeOK'
  BY <1>18 DEF EndInference, TypeOK, AssignmentTyped, RegistriesTyped, SessionTyped, PlacesTyped, PlansTyped
<1>19. ASSUME NEW t \in Tasks, NEW m \in Models, StartInference(t, m)
     PROVE  TypeOK'
  <2>1. DeviceFor(m) \in Devices
    BY DeviceForTyped
  <2>2. AssignmentTyped'
    BY <1>19 DEF StartInference, AssignmentTyped
  <2>3. RegistriesTyped'
    BY <1>19 DEF StartInference, RegistriesTyped
  <2>4. SessionTyped'
    BY <1>19, <2>1 DEF StartInference, SessionTyped
  <2>5. PlacesTyped'
    BY <1>19 DEF StartInference, PlacesTyped
  <2>6. PlansTyped'
    BY <1>19 DEF StartInference, PlansTyped
  <2> QED BY <2>2, <2>3, <2>4, <2>5, <2>6 DEF TypeOK
<1>20. ASSUME Reconnect
     PROVE  TypeOK'
  BY <1>20 DEF Reconnect, TypeOK, AssignmentTyped, RegistriesTyped, SessionTyped, PlacesTyped, PlansTyped
<1>21. CASE UNCHANGED vars
  BY <1>21 DEF vars, TypeOK, AssignmentTyped, RegistriesTyped, SessionTyped, PlacesTyped, PlansTyped
<1> QED
  BY <1>1, <1>2, <1>3, <1>4, <1>5, <1>6, <1>7, <1>8, <1>9, <1>10, <1>11, <1>12, <1>13, <1>14, <1>15, <1>16, <1>17, <1>18, <1>19, <1>20, <1>21
  DEF Next, InstallStep, EngineStep, TaskStep

(* Every lock has the holder it should have. *)
LEMMA StepLocks ==
  ASSUME TypeOK, LocksAreHeld, [Next]_vars
  PROVE  LocksAreHeld'
<1>1. ASSUME NEW d \in Devices, EnsureInstalled(d)
     PROVE  LocksAreHeld'
  BY <1>1 DEF EnsureInstalled, LocksAreHeld, TypeOK, PlacesTyped, RegistriesTyped
<1>2. ASSUME NEW d \in Devices, BeginInstall(d)
     PROVE  LocksAreHeld'
  BY <1>2 DEF BeginInstall, LocksAreHeld, TypeOK, PlacesTyped, RegistriesTyped
<1>3. ASSUME NEW d \in Devices, NothingToInstall(d)
     PROVE  LocksAreHeld'
  BY <1>3 DEF NothingToInstall, LocksAreHeld, TypeOK, PlacesTyped, RegistriesTyped
<1>4. ASSUME NEW d \in Devices, BuildFails(d)
     PROVE  LocksAreHeld'
  BY <1>4 DEF BuildFails, LocksAreHeld, TypeOK, PlacesTyped, RegistriesTyped
<1>5. ASSUME NEW d \in Devices, EnsureLoaded(d)
     PROVE  LocksAreHeld'
  <2>1. ASSUME NEW b \in Actors, b # d
       PROVE  at'[b] = at[b]
    BY <1>5, <2>1 DEF EnsureLoaded, TypeOK, PlacesTyped, RegistriesTyped
  <2>2. ASSUME NEW b \in Actors
       PROVE  holder' = b <=> at'[b] \in {"engine load", "reassign", "generating"}
    <3>1. CASE b = d
      BY <1>5, <3>1 DEF EnsureLoaded, TypeOK, PlacesTyped, RegistriesTyped, LocksAreHeld
    <3>2. CASE b # d
      BY <1>5, <2>1, <3>2 DEF EnsureLoaded, TypeOK, PlacesTyped, RegistriesTyped, LocksAreHeld
    <3> QED BY <3>1, <3>2
  <2>3. ASSUME NEW e \in Devices
       PROVE  installer' = e <=> at'[e] \notin {"mining", "lock", "dead"}
    <3>1. CASE e = d
      BY <1>5, <3>1 DEF EnsureLoaded, TypeOK, PlacesTyped, RegistriesTyped, LocksAreHeld
    <3>2. CASE e # d
      BY <1>5, <2>1, <3>2 DEF EnsureLoaded, TypeOK, PlacesTyped, RegistriesTyped, LocksAreHeld
    <3> QED BY <3>1, <3>2
  <2> QED BY <2>2, <2>3 DEF LocksAreHeld
<1>6. ASSUME NEW d \in Devices, PomShared(d)
     PROVE  LocksAreHeld'
  BY <1>6 DEF PomShared, LocksAreHeld, TypeOK, PlacesTyped, RegistriesTyped
<1>7. ASSUME NEW d \in Devices, WalkLoads(d)
     PROVE  LocksAreHeld'
  BY <1>7 DEF WalkLoads, LocksAreHeld, TypeOK, PlacesTyped, RegistriesTyped
<1>8. ASSUME NEW d \in Devices, WalkFails(d)
     PROVE  LocksAreHeld'
  BY <1>8 DEF WalkFails, LocksAreHeld, TypeOK, PlacesTyped, RegistriesTyped
<1>9. ASSUME NEW d \in Devices, WalkOutOfMemory(d)
     PROVE  LocksAreHeld'
  BY <1>9 DEF WalkOutOfMemory, LocksAreHeld, TypeOK, PlacesTyped, RegistriesTyped
<1>10. ASSUME NEW d \in Devices, Downgrade(d)
     PROVE  LocksAreHeld'
  BY <1>10 DEF Downgrade, LocksAreHeld, TypeOK, PlacesTyped, RegistriesTyped
<1>11. ASSUME NEW a \in Actors, EngineLoads(a)
     PROVE  LocksAreHeld'
  <2>1. ASSUME NEW b \in Actors, b # a
       PROVE  at'[b] = at[b]
    BY <1>11, <2>1 DEF EngineLoads, TypeOK, PlacesTyped, RegistriesTyped
  <2>2. ASSUME NEW b \in Actors
       PROVE  holder' = b <=> at'[b] \in {"engine load", "reassign", "generating"}
    <3>1. CASE b = a
      BY <1>11, <3>1 DEF EngineLoads, TypeOK, PlacesTyped, RegistriesTyped, LocksAreHeld
    <3>2. CASE b # a
      <4>1. holder = a /\ at'[b] = at[b] /\ holder' \in {a, Nobody}
        BY <1>11, <2>1, <3>2 DEF EngineLoads, LocksAreHeld
      <4> QED BY <3>2, <4>1 DEF LocksAreHeld
    <3> QED BY <3>1, <3>2
  <2>3. ASSUME NEW e \in Devices
       PROVE  installer' = e <=> at'[e] \notin {"mining", "lock", "dead"}
    <3>1. CASE e = a
      BY <1>11, <3>1 DEF EngineLoads, TypeOK, PlacesTyped, RegistriesTyped, LocksAreHeld
    <3>2. CASE e # a
      BY <1>11, <2>1, <3>2 DEF EngineLoads, TypeOK, PlacesTyped, RegistriesTyped, LocksAreHeld
    <3> QED BY <3>1, <3>2
  <2> QED BY <2>2, <2>3 DEF LocksAreHeld
<1>12. ASSUME NEW a \in Actors, EngineFails(a)
     PROVE  LocksAreHeld'
  <2>1. ASSUME NEW b \in Actors, b # a
       PROVE  at'[b] = at[b]
    BY <1>12, <2>1 DEF EngineFails, TypeOK, PlacesTyped, RegistriesTyped, GiveUpEngine
  <2>2. ASSUME NEW b \in Actors
       PROVE  holder' = b <=> at'[b] \in {"engine load", "reassign", "generating"}
    <3>1. CASE b = a
      BY <1>12, <3>1 DEF EngineFails, TypeOK, PlacesTyped, RegistriesTyped, LocksAreHeld, GiveUpEngine
    <3>2. CASE b # a
      BY <1>12, <2>1, <3>2 DEF EngineFails, TypeOK, PlacesTyped, RegistriesTyped, LocksAreHeld, GiveUpEngine
    <3> QED BY <3>1, <3>2
  <2>3. ASSUME NEW e \in Devices
       PROVE  installer' = e <=> at'[e] \notin {"mining", "lock", "dead"}
    <3>1. CASE e = a
      BY <1>12, <3>1 DEF EngineFails, TypeOK, PlacesTyped, RegistriesTyped, LocksAreHeld, GiveUpEngine
    <3>2. CASE e # a
      BY <1>12, <2>1, <3>2 DEF EngineFails, TypeOK, PlacesTyped, RegistriesTyped, LocksAreHeld, GiveUpEngine
    <3> QED BY <3>1, <3>2
  <2> QED BY <2>2, <2>3 DEF LocksAreHeld
<1>13. ASSUME NEW a \in Actors, EnginePanics(a)
     PROVE  LocksAreHeld'
  <2>1. ASSUME NEW b \in Actors, b # a
       PROVE  at'[b] = at[b]
    BY <1>13, <2>1 DEF EnginePanics, TypeOK, PlacesTyped, RegistriesTyped
  <2>2. ASSUME NEW b \in Actors
       PROVE  holder' = b <=> at'[b] \in {"engine load", "reassign", "generating"}
    <3>1. CASE b = a
      BY <1>13, <3>1 DEF EnginePanics, TypeOK, PlacesTyped, RegistriesTyped, LocksAreHeld
    <3>2. CASE b # a
      BY <1>13, <2>1, <3>2 DEF EnginePanics, TypeOK, PlacesTyped, RegistriesTyped, LocksAreHeld
    <3> QED BY <3>1, <3>2
  <2>3. ASSUME NEW e \in Devices
       PROVE  installer' = e <=> at'[e] \notin {"mining", "lock", "dead"}
    <3>1. CASE e = a
      BY <1>13, <3>1 DEF EnginePanics, TypeOK, PlacesTyped, RegistriesTyped, LocksAreHeld
    <3>2. CASE e # a
      BY <1>13, <2>1, <3>2 DEF EnginePanics, TypeOK, PlacesTyped, RegistriesTyped, LocksAreHeld
    <3> QED BY <3>1, <3>2
  <2> QED BY <2>2, <2>3 DEF LocksAreHeld
<1>14. ASSUME NEW a \in Actors, NoteInferenceOom(a)
     PROVE  LocksAreHeld'
  BY <1>14 DEF NoteInferenceOom, LocksAreHeld, TypeOK, PlacesTyped, RegistriesTyped
<1>15. ASSUME NEW a \in Actors, Reassign(a)
     PROVE  LocksAreHeld'
  <2>1. ASSUME NEW b \in Actors, b # a
       PROVE  at'[b] = at[b]
    BY <1>15, <2>1 DEF Reassign, TypeOK, PlacesTyped, RegistriesTyped, GiveUpEngine
  <2>2. ASSUME NEW b \in Actors
       PROVE  holder' = b <=> at'[b] \in {"engine load", "reassign", "generating"}
    <3>1. CASE b = a
      BY <1>15, <3>1 DEF Reassign, TypeOK, PlacesTyped, RegistriesTyped, LocksAreHeld, GiveUpEngine
    <3>2. CASE b # a
      BY <1>15, <2>1, <3>2 DEF Reassign, TypeOK, PlacesTyped, RegistriesTyped, LocksAreHeld, GiveUpEngine
    <3> QED BY <3>1, <3>2
  <2>3. ASSUME NEW e \in Devices
       PROVE  installer' = e <=> at'[e] \notin {"mining", "lock", "dead"}
    <3>1. CASE e = a
      BY <1>15, <3>1 DEF Reassign, TypeOK, PlacesTyped, RegistriesTyped, LocksAreHeld, GiveUpEngine
    <3>2. CASE e # a
      BY <1>15, <2>1, <3>2 DEF Reassign, TypeOK, PlacesTyped, RegistriesTyped, LocksAreHeld, GiveUpEngine
    <3> QED BY <3>1, <3>2
  <2> QED BY <2>2, <2>3 DEF LocksAreHeld
<1>16. ASSUME NEW t \in Tasks, TakeEngine(t)
     PROVE  LocksAreHeld'
  BY <1>16 DEF TakeEngine, LocksAreHeld, TypeOK, PlacesTyped, RegistriesTyped
<1>17. ASSUME NEW t \in Tasks, Generate(t)
     PROVE  LocksAreHeld'
  <2>1. ASSUME NEW b \in Actors, b # t
       PROVE  at'[b] = at[b]
    BY <1>17, <2>1 DEF Generate, TypeOK, PlacesTyped, RegistriesTyped
  <2>2. ASSUME NEW b \in Actors
       PROVE  holder' = b <=> at'[b] \in {"engine load", "reassign", "generating"}
    <3>1. CASE b = t
      BY <1>17, <3>1 DEF Generate, TypeOK, PlacesTyped, RegistriesTyped, LocksAreHeld
    <3>2. CASE b # t
      BY <1>17, <2>1, <3>2 DEF Generate, TypeOK, PlacesTyped, RegistriesTyped, LocksAreHeld
    <3> QED BY <3>1, <3>2
  <2>3. ASSUME NEW e \in Devices
       PROVE  installer' = e <=> at'[e] \notin {"mining", "lock", "dead"}
    <3>1. CASE e = t
      BY <1>17, <3>1 DEF Generate, TypeOK, PlacesTyped, RegistriesTyped, LocksAreHeld
    <3>2. CASE e # t
      BY <1>17, <2>1, <3>2 DEF Generate, TypeOK, PlacesTyped, RegistriesTyped, LocksAreHeld
    <3> QED BY <3>1, <3>2
  <2> QED BY <2>2, <2>3 DEF LocksAreHeld
<1>18. ASSUME NEW t \in Tasks, EndInference(t)
     PROVE  LocksAreHeld'
  BY <1>18 DEF EndInference, LocksAreHeld, TypeOK, PlacesTyped, RegistriesTyped
<1>19. ASSUME NEW t \in Tasks, NEW m \in Models, StartInference(t, m)
     PROVE  LocksAreHeld'
  BY <1>19 DEF StartInference, LocksAreHeld, TypeOK, PlacesTyped, RegistriesTyped
<1>20. ASSUME Reconnect
     PROVE  LocksAreHeld'
  BY <1>20 DEF Reconnect, LocksAreHeld, TypeOK, PlacesTyped, RegistriesTyped
<1>21. CASE UNCHANGED vars
  BY <1>21 DEF vars, LocksAreHeld, TypeOK, PlacesTyped, RegistriesTyped
<1> QED
  BY <1>1, <1>2, <1>3, <1>4, <1>5, <1>6, <1>7, <1>8, <1>9, <1>10, <1>11, <1>12, <1>13, <1>14, <1>15, <1>16, <1>17, <1>18, <1>19, <1>20, <1>21
  DEF Next, InstallStep, EngineStep, TaskStep

(* Who loads the engine knows where. *)
LEMMA StepLoads ==
  ASSUME TypeOK, LoadsOnADevice, [Next]_vars
  PROVE  LoadsOnADevice'
<1>1. ASSUME NEW d \in Devices, EnsureInstalled(d)
     PROVE  LoadsOnADevice'
  BY <1>1 DEF EnsureInstalled, LoadsOnADevice, TypeOK, PlacesTyped, PlansTyped
<1>2. ASSUME NEW d \in Devices, BeginInstall(d)
     PROVE  LoadsOnADevice'
  BY <1>2 DEF BeginInstall, LoadsOnADevice, TypeOK, PlacesTyped, PlansTyped
<1>3. ASSUME NEW d \in Devices, NothingToInstall(d)
     PROVE  LoadsOnADevice'
  BY <1>3 DEF NothingToInstall, LoadsOnADevice, TypeOK, PlacesTyped, PlansTyped
<1>4. ASSUME NEW d \in Devices, BuildFails(d)
     PROVE  LoadsOnADevice'
  BY <1>4 DEF BuildFails, LoadsOnADevice, TypeOK, PlacesTyped, PlansTyped
<1>5. ASSUME NEW d \in Devices, EnsureLoaded(d)
     PROVE  LoadsOnADevice'
  <2>1. DeviceFor(goal[d]) \in Devices
    BY DeviceForTyped
  <2>2. ASSUME NEW b \in Actors, b # d
       PROVE  at'[b] = at[b] /\ on'[b] = on[b]
    BY <1>5, <2>2 DEF EnsureLoaded, TypeOK, PlacesTyped, PlansTyped
  <2>3. at'[d] \in {"engine load", "reassign"} => on'[d] \in Devices
    <3>1. CASE ~poisoned /\ engine = goal[d]
      BY <1>5, <3>1 DEF EnsureLoaded, TypeOK, PlacesTyped
    <3>2. CASE poisoned \/ engine # goal[d]
      <4>1. on' = [on EXCEPT ![d] = DeviceFor(goal[d])]
        BY <1>5, <3>2 DEF EnsureLoaded
      <4> QED BY <2>1, <4>1 DEF TypeOK, PlansTyped
    <3> QED BY <3>1, <3>2
  <2> QED BY <2>2, <2>3 DEF LoadsOnADevice
<1>6. ASSUME NEW d \in Devices, PomShared(d)
     PROVE  LoadsOnADevice'
  BY <1>6 DEF PomShared, LoadsOnADevice, TypeOK, PlacesTyped, PlansTyped
<1>7. ASSUME NEW d \in Devices, WalkLoads(d)
     PROVE  LoadsOnADevice'
  BY <1>7 DEF WalkLoads, LoadsOnADevice, TypeOK, PlacesTyped, PlansTyped
<1>8. ASSUME NEW d \in Devices, WalkFails(d)
     PROVE  LoadsOnADevice'
  BY <1>8 DEF WalkFails, LoadsOnADevice, TypeOK, PlacesTyped, PlansTyped
<1>9. ASSUME NEW d \in Devices, WalkOutOfMemory(d)
     PROVE  LoadsOnADevice'
  BY <1>9 DEF WalkOutOfMemory, Ban, LoadsOnADevice, TypeOK, PlacesTyped, PlansTyped
<1>10. ASSUME NEW d \in Devices, Downgrade(d)
     PROVE  LoadsOnADevice'
  BY <1>10 DEF Downgrade, LoadsOnADevice, TypeOK, PlacesTyped, PlansTyped
<1>11. ASSUME NEW a \in Actors, EngineLoads(a)
     PROVE  LoadsOnADevice'
  <2>1. ASSUME NEW b \in Actors, b # a
       PROVE  at'[b] = at[b] /\ on'[b] = on[b]
    BY <1>11, <2>1 DEF EngineLoads, TypeOK, PlacesTyped, PlansTyped
  <2>2. at'[a] \in {"engine load", "reassign"} => on'[a] \in Devices
    BY <1>11 DEF EngineLoads, TypeOK, PlacesTyped, PlansTyped, LoadsOnADevice
  <2> QED BY <2>1, <2>2 DEF LoadsOnADevice
<1>12. ASSUME NEW a \in Actors, EngineFails(a)
     PROVE  LoadsOnADevice'
  <2>1. ASSUME NEW b \in Actors, b # a
       PROVE  at'[b] = at[b] /\ on'[b] = on[b]
    BY <1>12, <2>1 DEF EngineFails, TypeOK, PlacesTyped, PlansTyped, GiveUpEngine
  <2>2. at'[a] \in {"engine load", "reassign"} => on'[a] \in Devices
    <3>1. CASE a \in Devices
      BY <1>12, <3>1 DEF EngineFails, TypeOK, PlacesTyped, GiveUpEngine
    <3>2. CASE a \in Tasks
      BY <1>12, <3>2 DEF EngineFails, TypeOK, PlacesTyped, GiveUpEngine
    <3> QED BY <3>1, <3>2
  <2> QED BY <2>1, <2>2 DEF LoadsOnADevice
<1>13. ASSUME NEW a \in Actors, EnginePanics(a)
     PROVE  LoadsOnADevice'
  <2>1. ASSUME NEW b \in Actors, b # a
       PROVE  at'[b] = at[b] /\ on'[b] = on[b]
    BY <1>13, <2>1 DEF EnginePanics, TypeOK, PlacesTyped, PlansTyped
  <2>2. at'[a] \in {"engine load", "reassign"} => on'[a] \in Devices
    <3>1. CASE a \in Devices
      BY <1>13, <3>1 DEF EnginePanics, TypeOK, PlacesTyped
    <3>2. CASE a \in Tasks
      BY <1>13, <3>2 DEF EnginePanics, TypeOK, PlacesTyped
    <3> QED BY <3>1, <3>2
  <2> QED BY <2>1, <2>2 DEF LoadsOnADevice
<1>14. ASSUME NEW a \in Actors, NoteInferenceOom(a)
     PROVE  LoadsOnADevice'
  BY <1>14 DEF NoteInferenceOom, Ban, LoadsOnADevice, TypeOK, PlacesTyped, PlansTyped
<1>15. ASSUME NEW a \in Actors, Reassign(a)
     PROVE  LoadsOnADevice'
  <2>1. ASSUME NEW b \in Actors, b # a
       PROVE  at'[b] = at[b] /\ on'[b] = on[b]
    BY <1>15, <2>1 DEF Reassign, TypeOK, PlacesTyped, PlansTyped, GiveUpEngine
  <2>2. at'[a] \in {"engine load", "reassign"} => on'[a] \in Devices
    <3>1. CASE a \in Devices
      BY <1>15, <3>1 DEF Reassign, TypeOK, PlacesTyped, GiveUpEngine
    <3>2. CASE a \in Tasks
      BY <1>15, <3>2 DEF Reassign, TypeOK, PlacesTyped, GiveUpEngine
    <3> QED BY <3>1, <3>2
  <2> QED BY <2>1, <2>2 DEF LoadsOnADevice
<1>16. ASSUME NEW t \in Tasks, TakeEngine(t)
     PROVE  LoadsOnADevice'
  <2>1. DeviceFor(goal[t]) \in Devices
    BY DeviceForTyped
  <2>2. ASSUME NEW b \in Actors, b # t
       PROVE  at'[b] = at[b] /\ on'[b] = on[b]
    BY <1>16, <2>2 DEF TakeEngine, TypeOK, PlacesTyped, PlansTyped
  <2>3. at'[t] \in {"engine load", "reassign"} => on'[t] \in Devices
    <3>1. CASE ~poisoned /\ engine = goal[t]
      BY <1>16, <3>1 DEF TakeEngine, TypeOK, PlacesTyped
    <3>2. CASE poisoned \/ engine # goal[t]
      <4>1. on' = [on EXCEPT ![t] = DeviceFor(goal[t])]
        BY <1>16, <3>2 DEF TakeEngine
      <4> QED BY <2>1, <4>1 DEF TypeOK, PlansTyped
    <3> QED BY <3>1, <3>2
  <2> QED BY <2>2, <2>3 DEF LoadsOnADevice
<1>17. ASSUME NEW t \in Tasks, Generate(t)
     PROVE  LoadsOnADevice'
  BY <1>17 DEF Generate, LoadsOnADevice, TypeOK, PlacesTyped, PlansTyped
<1>18. ASSUME NEW t \in Tasks, EndInference(t)
     PROVE  LoadsOnADevice'
  BY <1>18 DEF EndInference, LoadsOnADevice, TypeOK, PlacesTyped, PlansTyped
<1>19. ASSUME NEW t \in Tasks, NEW m \in Models, StartInference(t, m)
     PROVE  LoadsOnADevice'
  BY <1>19 DEF StartInference, LoadsOnADevice, TypeOK, PlacesTyped, PlansTyped
<1>20. ASSUME Reconnect
     PROVE  LoadsOnADevice'
  BY <1>20 DEF Reconnect, LoadsOnADevice, TypeOK, PlacesTyped, PlansTyped
<1>21. CASE UNCHANGED vars
  BY <1>21 DEF vars, LoadsOnADevice, TypeOK, PlacesTyped, PlansTyped
<1> QED
  BY <1>1, <1>2, <1>3, <1>4, <1>5, <1>6, <1>7, <1>8, <1>9, <1>10, <1>11, <1>12, <1>13, <1>14, <1>15, <1>16, <1>17, <1>18, <1>19, <1>20, <1>21
  DEF Next, InstallStep, EngineStep, TaskStep

(* A walk is loaded only where there is none. *)
LEMMA StepNoWalk ==
  ASSUME TypeOK, NoWalkWhileInstalling, [Next]_vars
  PROVE  NoWalkWhileInstalling'
<1>1. ASSUME NEW d \in Devices, EnsureInstalled(d)
     PROVE  NoWalkWhileInstalling'
  BY <1>1 DEF EnsureInstalled, NoWalkWhileInstalling, TypeOK, PlacesTyped, RegistriesTyped
<1>2. ASSUME NEW d \in Devices, BeginInstall(d)
     PROVE  NoWalkWhileInstalling'
  BY <1>2 DEF BeginInstall, NoWalkWhileInstalling, TypeOK, PlacesTyped, RegistriesTyped
<1>3. ASSUME NEW d \in Devices, NothingToInstall(d)
     PROVE  NoWalkWhileInstalling'
  BY <1>3 DEF NothingToInstall, NoWalkWhileInstalling, TypeOK, PlacesTyped, RegistriesTyped
<1>4. ASSUME NEW d \in Devices, BuildFails(d)
     PROVE  NoWalkWhileInstalling'
  BY <1>4 DEF BuildFails, NoWalkWhileInstalling, TypeOK, PlacesTyped, RegistriesTyped
<1>5. ASSUME NEW d \in Devices, EnsureLoaded(d)
     PROVE  NoWalkWhileInstalling'
  BY <1>5 DEF EnsureLoaded, NoWalkWhileInstalling, TypeOK, PlacesTyped, RegistriesTyped
<1>6. ASSUME NEW d \in Devices, PomShared(d)
     PROVE  NoWalkWhileInstalling'
  BY <1>6 DEF PomShared, NoWalkWhileInstalling, TypeOK, PlacesTyped, RegistriesTyped
<1>7. ASSUME NEW d \in Devices, WalkLoads(d)
     PROVE  NoWalkWhileInstalling'
  BY <1>7 DEF WalkLoads, NoWalkWhileInstalling, TypeOK, PlacesTyped, RegistriesTyped
<1>8. ASSUME NEW d \in Devices, WalkFails(d)
     PROVE  NoWalkWhileInstalling'
  BY <1>8 DEF WalkFails, NoWalkWhileInstalling, TypeOK, PlacesTyped, RegistriesTyped
<1>9. ASSUME NEW d \in Devices, WalkOutOfMemory(d)
     PROVE  NoWalkWhileInstalling'
  BY <1>9 DEF WalkOutOfMemory, NoWalkWhileInstalling, TypeOK, PlacesTyped, RegistriesTyped
<1>10. ASSUME NEW d \in Devices, Downgrade(d)
     PROVE  NoWalkWhileInstalling'
  BY <1>10 DEF Downgrade, NoWalkWhileInstalling, TypeOK, PlacesTyped, RegistriesTyped
<1>11. ASSUME NEW a \in Actors, EngineLoads(a)
     PROVE  NoWalkWhileInstalling'
  BY <1>11 DEF EngineLoads, NoWalkWhileInstalling, TypeOK, PlacesTyped, RegistriesTyped
<1>12. ASSUME NEW a \in Actors, EngineFails(a)
     PROVE  NoWalkWhileInstalling'
  BY <1>12 DEF EngineFails, GiveUpEngine, NoWalkWhileInstalling, TypeOK, PlacesTyped, RegistriesTyped
<1>13. ASSUME NEW a \in Actors, EnginePanics(a)
     PROVE  NoWalkWhileInstalling'
  BY <1>13 DEF EnginePanics, NoWalkWhileInstalling, TypeOK, PlacesTyped, RegistriesTyped
<1>14. ASSUME NEW a \in Actors, NoteInferenceOom(a)
     PROVE  NoWalkWhileInstalling'
  BY <1>14 DEF NoteInferenceOom, NoWalkWhileInstalling, TypeOK, PlacesTyped, RegistriesTyped
<1>15. ASSUME NEW a \in Actors, Reassign(a)
     PROVE  NoWalkWhileInstalling'
  BY <1>15 DEF Reassign, GiveUpEngine, NoWalkWhileInstalling, TypeOK, PlacesTyped, RegistriesTyped
<1>16. ASSUME NEW t \in Tasks, TakeEngine(t)
     PROVE  NoWalkWhileInstalling'
  BY <1>16 DEF TakeEngine, NoWalkWhileInstalling, TypeOK, PlacesTyped, RegistriesTyped
<1>17. ASSUME NEW t \in Tasks, Generate(t)
     PROVE  NoWalkWhileInstalling'
  BY <1>17 DEF Generate, NoWalkWhileInstalling, TypeOK, PlacesTyped, RegistriesTyped
<1>18. ASSUME NEW t \in Tasks, EndInference(t)
     PROVE  NoWalkWhileInstalling'
  BY <1>18 DEF EndInference, NoWalkWhileInstalling, TypeOK, PlacesTyped, RegistriesTyped
<1>19. ASSUME NEW t \in Tasks, NEW m \in Models, StartInference(t, m)
     PROVE  NoWalkWhileInstalling'
  BY <1>19 DEF StartInference, NoWalkWhileInstalling, TypeOK, PlacesTyped, RegistriesTyped
<1>20. ASSUME Reconnect
     PROVE  NoWalkWhileInstalling'
  BY <1>20 DEF Reconnect, NoWalkWhileInstalling, TypeOK, PlacesTyped, RegistriesTyped
<1>21. CASE UNCHANGED vars
  BY <1>21 DEF vars, NoWalkWhileInstalling, TypeOK, PlacesTyped, RegistriesTyped
<1> QED
  BY <1>1, <1>2, <1>3, <1>4, <1>5, <1>6, <1>7, <1>8, <1>9, <1>10, <1>11, <1>12, <1>13, <1>14, <1>15, <1>16, <1>17, <1>18, <1>19, <1>20, <1>21
  DEF Next, InstallStep, EngineStep, TaskStep

(* The walk keeps to its index. *)
LEMMA StepIndex ==
  ASSUME TypeOK, NoWalkWhileInstalling, WalkMatchesIndex, [Next]_vars
  PROVE  WalkMatchesIndex'
<1>1. ASSUME NEW d \in Devices, EnsureInstalled(d)
     PROVE  WalkMatchesIndex'
  BY <1>1 DEF EnsureInstalled, WalkMatchesIndex, NoWalkWhileInstalling, TypeOK, PlacesTyped, PlansTyped, RegistriesTyped
<1>2. ASSUME NEW d \in Devices, BeginInstall(d)
     PROVE  WalkMatchesIndex'
  BY <1>2 DEF BeginInstall, IndexFor, WalkMatchesIndex, NoWalkWhileInstalling, TypeOK, PlacesTyped, PlansTyped, RegistriesTyped
<1>3. ASSUME NEW d \in Devices, NothingToInstall(d)
     PROVE  WalkMatchesIndex'
  BY <1>3 DEF NothingToInstall, WalkMatchesIndex, NoWalkWhileInstalling, TypeOK, PlacesTyped, PlansTyped, RegistriesTyped
<1>4. ASSUME NEW d \in Devices, BuildFails(d)
     PROVE  WalkMatchesIndex'
  BY <1>4 DEF BuildFails, WalkMatchesIndex, NoWalkWhileInstalling, TypeOK, PlacesTyped, PlansTyped, RegistriesTyped
<1>5. ASSUME NEW d \in Devices, EnsureLoaded(d)
     PROVE  WalkMatchesIndex'
  BY <1>5 DEF EnsureLoaded, WalkMatchesIndex, NoWalkWhileInstalling, TypeOK, PlacesTyped, PlansTyped, RegistriesTyped
<1>6. ASSUME NEW d \in Devices, PomShared(d)
     PROVE  WalkMatchesIndex'
  BY <1>6 DEF PomShared, WalkMatchesIndex, NoWalkWhileInstalling, TypeOK, PlacesTyped, PlansTyped, RegistriesTyped
<1>7. ASSUME NEW d \in Devices, WalkLoads(d)
     PROVE  WalkMatchesIndex'
  BY <1>7 DEF WalkLoads, WalkMatchesIndex, NoWalkWhileInstalling, TypeOK, PlacesTyped, PlansTyped, RegistriesTyped
<1>8. ASSUME NEW d \in Devices, WalkFails(d)
     PROVE  WalkMatchesIndex'
  BY <1>8 DEF WalkFails, WalkMatchesIndex, NoWalkWhileInstalling, TypeOK, PlacesTyped, PlansTyped, RegistriesTyped
<1>9. ASSUME NEW d \in Devices, WalkOutOfMemory(d)
     PROVE  WalkMatchesIndex'
  BY <1>9 DEF WalkOutOfMemory, Ban, WalkMatchesIndex, NoWalkWhileInstalling, TypeOK, PlacesTyped, PlansTyped, RegistriesTyped
<1>10. ASSUME NEW d \in Devices, Downgrade(d)
     PROVE  WalkMatchesIndex'
  BY <1>10 DEF Downgrade, WalkMatchesIndex, NoWalkWhileInstalling, TypeOK, PlacesTyped, PlansTyped, RegistriesTyped
<1>11. ASSUME NEW a \in Actors, EngineLoads(a)
     PROVE  WalkMatchesIndex'
  BY <1>11 DEF EngineLoads, WalkMatchesIndex, NoWalkWhileInstalling, TypeOK, PlacesTyped, PlansTyped, RegistriesTyped
<1>12. ASSUME NEW a \in Actors, EngineFails(a)
     PROVE  WalkMatchesIndex'
  <2>1. ASSUME NEW e \in Devices
       PROVE  /\ (at'[e] = at[e] /\ goal'[e] = goal[e]) \/ at'[e] \in {"mining", "dead"}
              /\ walk'[e] \in {walk[e], None}
              /\ index'[e] = index[e]
    <3>1. CASE e = a
      BY <1>12, <3>1 DEF EngineFails, TypeOK, PlacesTyped, PlansTyped, RegistriesTyped, GiveUpEngine
    <3>2. CASE e # a
      BY <1>12, <3>2 DEF EngineFails, TypeOK, PlacesTyped, PlansTyped, RegistriesTyped, GiveUpEngine
    <3> QED BY <3>1, <3>2
  <2> QED BY <2>1 DEF WalkMatchesIndex
<1>13. ASSUME NEW a \in Actors, EnginePanics(a)
     PROVE  WalkMatchesIndex'
  <2>1. ASSUME NEW e \in Devices
       PROVE  /\ (at'[e] = at[e] /\ goal'[e] = goal[e]) \/ at'[e] \in {"mining", "dead"}
              /\ walk'[e] \in {walk[e], None}
              /\ index'[e] = index[e]
    <3>1. CASE e = a
      BY <1>13, <3>1 DEF EnginePanics, TypeOK, PlacesTyped, PlansTyped, RegistriesTyped
    <3>2. CASE e # a
      BY <1>13, <3>2 DEF EnginePanics, TypeOK, PlacesTyped, PlansTyped, RegistriesTyped
    <3> QED BY <3>1, <3>2
  <2> QED BY <2>1 DEF WalkMatchesIndex
<1>14. ASSUME NEW a \in Actors, NoteInferenceOom(a)
     PROVE  WalkMatchesIndex'
  BY <1>14 DEF NoteInferenceOom, Ban, WalkMatchesIndex, NoWalkWhileInstalling, TypeOK, PlacesTyped, PlansTyped, RegistriesTyped
<1>15. ASSUME NEW a \in Actors, Reassign(a)
     PROVE  WalkMatchesIndex'
  <2>1. ASSUME NEW e \in Devices
       PROVE  /\ (at'[e] = at[e] /\ goal'[e] = goal[e]) \/ at'[e] \in {"mining", "dead"}
              /\ walk'[e] \in {walk[e], None}
              /\ index'[e] = index[e]
    <3>1. CASE e = a
      BY <1>15, <3>1 DEF Reassign, TypeOK, PlacesTyped, PlansTyped, RegistriesTyped, GiveUpEngine
    <3>2. CASE e # a
      BY <1>15, <3>2 DEF Reassign, TypeOK, PlacesTyped, PlansTyped, RegistriesTyped, GiveUpEngine
    <3> QED BY <3>1, <3>2
  <2> QED BY <2>1 DEF WalkMatchesIndex
<1>16. ASSUME NEW t \in Tasks, TakeEngine(t)
     PROVE  WalkMatchesIndex'
  <2>1. ASSUME NEW e \in Devices
       PROVE  /\ (at'[e] = at[e] /\ goal'[e] = goal[e]) \/ at'[e] \in {"mining", "dead"}
              /\ walk'[e] \in {walk[e], None}
              /\ index'[e] = index[e]
    <3>1. CASE e = t
      BY <1>16, <3>1 DEF TakeEngine, TypeOK, PlacesTyped, PlansTyped, RegistriesTyped
    <3>2. CASE e # t
      BY <1>16, <3>2 DEF TakeEngine, TypeOK, PlacesTyped, PlansTyped, RegistriesTyped
    <3> QED BY <3>1, <3>2
  <2> QED BY <2>1 DEF WalkMatchesIndex
<1>17. ASSUME NEW t \in Tasks, Generate(t)
     PROVE  WalkMatchesIndex'
  BY <1>17 DEF Generate, WalkMatchesIndex, NoWalkWhileInstalling, TypeOK, PlacesTyped, PlansTyped, RegistriesTyped
<1>18. ASSUME NEW t \in Tasks, EndInference(t)
     PROVE  WalkMatchesIndex'
  BY <1>18 DEF EndInference, WalkMatchesIndex, NoWalkWhileInstalling, TypeOK, PlacesTyped, PlansTyped, RegistriesTyped
<1>19. ASSUME NEW t \in Tasks, NEW m \in Models, StartInference(t, m)
     PROVE  WalkMatchesIndex'
  BY <1>19 DEF StartInference, WalkMatchesIndex, NoWalkWhileInstalling, TypeOK, PlacesTyped, PlansTyped, RegistriesTyped
<1>20. ASSUME Reconnect
     PROVE  WalkMatchesIndex'
  BY <1>20 DEF Reconnect, WalkMatchesIndex, NoWalkWhileInstalling, TypeOK, PlacesTyped, PlansTyped, RegistriesTyped
<1>21. CASE UNCHANGED vars
  BY <1>21 DEF vars, WalkMatchesIndex, NoWalkWhileInstalling, TypeOK, PlacesTyped, PlansTyped, RegistriesTyped
<1> QED
  BY <1>1, <1>2, <1>3, <1>4, <1>5, <1>6, <1>7, <1>8, <1>9, <1>10, <1>11, <1>12, <1>13, <1>14, <1>15, <1>16, <1>17, <1>18, <1>19, <1>20, <1>21
  DEF Next, InstallStep, EngineStep, TaskStep

(* Every flag has an owner. *)
LEMMA StepBusy ==
  ASSUME TypeOK, BusyIsOwned, [Next]_vars
  PROVE  BusyIsOwned'
<1>1. ASSUME NEW d \in Devices, EnsureInstalled(d)
     PROVE  BusyIsOwned'
  BY <1>1 DEF EnsureInstalled, BusyIsOwned, TypeOK, PlacesTyped, SessionTyped
<1>2. ASSUME NEW d \in Devices, BeginInstall(d)
     PROVE  BusyIsOwned'
  BY <1>2 DEF BeginInstall, BusyIsOwned, TypeOK, PlacesTyped, SessionTyped
<1>3. ASSUME NEW d \in Devices, NothingToInstall(d)
     PROVE  BusyIsOwned'
  BY <1>3 DEF NothingToInstall, BusyIsOwned, TypeOK, PlacesTyped, SessionTyped
<1>4. ASSUME NEW d \in Devices, BuildFails(d)
     PROVE  BusyIsOwned'
  BY <1>4 DEF BuildFails, BusyIsOwned, TypeOK, PlacesTyped, SessionTyped
<1>5. ASSUME NEW d \in Devices, EnsureLoaded(d)
     PROVE  BusyIsOwned'
  <2>1. ASSUME NEW u \in Tasks, at[u] # "idle"
       PROVE  at'[u] # "idle"
    BY <1>5, <2>1 DEF EnsureLoaded, TypeOK, PlacesTyped
  <2>2. busy' = busy /\ flagged' = flagged
    BY <1>5 DEF EnsureLoaded
  <2> QED BY <2>1, <2>2 DEF BusyIsOwned
<1>6. ASSUME NEW d \in Devices, PomShared(d)
     PROVE  BusyIsOwned'
  BY <1>6 DEF PomShared, BusyIsOwned, TypeOK, PlacesTyped, SessionTyped
<1>7. ASSUME NEW d \in Devices, WalkLoads(d)
     PROVE  BusyIsOwned'
  BY <1>7 DEF WalkLoads, BusyIsOwned, TypeOK, PlacesTyped, SessionTyped
<1>8. ASSUME NEW d \in Devices, WalkFails(d)
     PROVE  BusyIsOwned'
  BY <1>8 DEF WalkFails, BusyIsOwned, TypeOK, PlacesTyped, SessionTyped
<1>9. ASSUME NEW d \in Devices, WalkOutOfMemory(d)
     PROVE  BusyIsOwned'
  BY <1>9 DEF WalkOutOfMemory, BusyIsOwned, TypeOK, PlacesTyped, SessionTyped
<1>10. ASSUME NEW d \in Devices, Downgrade(d)
     PROVE  BusyIsOwned'
  BY <1>10 DEF Downgrade, BusyIsOwned, TypeOK, PlacesTyped, SessionTyped
<1>11. ASSUME NEW a \in Actors, EngineLoads(a)
     PROVE  BusyIsOwned'
  <2>1. ASSUME NEW u \in Tasks, at[u] # "idle"
       PROVE  at'[u] # "idle"
    BY <1>11, <2>1 DEF EngineLoads, TypeOK, PlacesTyped
  <2>2. busy' = busy /\ flagged' = flagged
    BY <1>11 DEF EngineLoads
  <2> QED BY <2>1, <2>2 DEF BusyIsOwned
<1>12. ASSUME NEW a \in Actors, EngineFails(a)
     PROVE  BusyIsOwned'
  <2>1. ASSUME NEW u \in Tasks, at[u] # "idle"
       PROVE  at'[u] # "idle"
    BY <1>12, <2>1 DEF EngineFails, TypeOK, PlacesTyped, GiveUpEngine
  <2>2. busy' = busy /\ flagged' = flagged
    BY <1>12 DEF EngineFails
  <2> QED BY <2>1, <2>2 DEF BusyIsOwned
<1>13. ASSUME NEW a \in Actors, EnginePanics(a)
     PROVE  BusyIsOwned'
  <2>1. ASSUME NEW u \in Tasks, at[u] # "idle"
       PROVE  at'[u] # "idle"
    BY <1>13, <2>1 DEF EnginePanics, TypeOK, PlacesTyped
  <2>2. busy' = busy /\ flagged' = flagged
    BY <1>13 DEF EnginePanics
  <2> QED BY <2>1, <2>2 DEF BusyIsOwned
<1>14. ASSUME NEW a \in Actors, NoteInferenceOom(a)
     PROVE  BusyIsOwned'
  BY <1>14 DEF NoteInferenceOom, BusyIsOwned, TypeOK, PlacesTyped, SessionTyped
<1>15. ASSUME NEW a \in Actors, Reassign(a)
     PROVE  BusyIsOwned'
  <2>1. ASSUME NEW u \in Tasks, at[u] # "idle"
       PROVE  at'[u] # "idle"
    BY <1>15, <2>1 DEF Reassign, TypeOK, PlacesTyped, GiveUpEngine
  <2>2. busy' = busy /\ flagged' = flagged
    BY <1>15 DEF Reassign
  <2> QED BY <2>1, <2>2 DEF BusyIsOwned
<1>16. ASSUME NEW t \in Tasks, TakeEngine(t)
     PROVE  BusyIsOwned'
  <2>1. ASSUME NEW u \in Tasks, at[u] # "idle"
       PROVE  at'[u] # "idle"
    BY <1>16, <2>1 DEF TakeEngine, TypeOK, PlacesTyped
  <2>2. busy' = busy /\ flagged' = flagged
    BY <1>16 DEF TakeEngine
  <2> QED BY <2>1, <2>2 DEF BusyIsOwned
<1>17. ASSUME NEW t \in Tasks, Generate(t)
     PROVE  BusyIsOwned'
  BY <1>17 DEF Generate, BusyIsOwned, TypeOK, PlacesTyped, SessionTyped
<1>18. ASSUME NEW t \in Tasks, EndInference(t)
     PROVE  BusyIsOwned'
  BY <1>18 DEF EndInference, BusyIsOwned, TypeOK, PlacesTyped, SessionTyped
<1>19. ASSUME NEW t \in Tasks, NEW m \in Models, StartInference(t, m)
     PROVE  BusyIsOwned'
  BY <1>19, DeviceForTyped DEF StartInference, BusyIsOwned, TypeOK, PlacesTyped, SessionTyped
<1>20. ASSUME Reconnect
     PROVE  BusyIsOwned'
  BY <1>20 DEF Reconnect, BusyIsOwned, TypeOK, PlacesTyped, SessionTyped
<1>21. CASE UNCHANGED vars
  BY <1>21 DEF vars, BusyIsOwned, TypeOK, PlacesTyped, SessionTyped
<1> QED
  BY <1>1, <1>2, <1>3, <1>4, <1>5, <1>6, <1>7, <1>8, <1>9, <1>10, <1>11, <1>12, <1>13, <1>14, <1>15, <1>16, <1>17, <1>18, <1>19, <1>20, <1>21
  DEF Next, InstallStep, EngineStep, TaskStep

(* A session has at most one inference, its flag says which. *)
LEMMA StepSession ==
  ASSUME TypeOK, InFlightIsOwned, OneOfASession, [Next]_vars
  PROVE  InFlightIsOwned' /\ OneOfASession'
<1>1. ASSUME NEW d \in Devices, EnsureInstalled(d)
     PROVE  InFlightIsOwned' /\ OneOfASession'
  BY <1>1 DEF EnsureInstalled, InFlightIsOwned, OneOfASession, TypeOK, PlacesTyped, SessionTyped
<1>2. ASSUME NEW d \in Devices, BeginInstall(d)
     PROVE  InFlightIsOwned' /\ OneOfASession'
  BY <1>2 DEF BeginInstall, InFlightIsOwned, OneOfASession, TypeOK, PlacesTyped, SessionTyped
<1>3. ASSUME NEW d \in Devices, NothingToInstall(d)
     PROVE  InFlightIsOwned' /\ OneOfASession'
  BY <1>3 DEF NothingToInstall, InFlightIsOwned, OneOfASession, TypeOK, PlacesTyped, SessionTyped
<1>4. ASSUME NEW d \in Devices, BuildFails(d)
     PROVE  InFlightIsOwned' /\ OneOfASession'
  BY <1>4 DEF BuildFails, InFlightIsOwned, OneOfASession, TypeOK, PlacesTyped, SessionTyped
<1>5. ASSUME NEW d \in Devices, EnsureLoaded(d)
     PROVE  InFlightIsOwned' /\ OneOfASession'
  BY <1>5 DEF EnsureLoaded, InFlightIsOwned, OneOfASession, TypeOK, PlacesTyped, SessionTyped
<1>6. ASSUME NEW d \in Devices, PomShared(d)
     PROVE  InFlightIsOwned' /\ OneOfASession'
  BY <1>6 DEF PomShared, InFlightIsOwned, OneOfASession, TypeOK, PlacesTyped, SessionTyped
<1>7. ASSUME NEW d \in Devices, WalkLoads(d)
     PROVE  InFlightIsOwned' /\ OneOfASession'
  BY <1>7 DEF WalkLoads, InFlightIsOwned, OneOfASession, TypeOK, PlacesTyped, SessionTyped
<1>8. ASSUME NEW d \in Devices, WalkFails(d)
     PROVE  InFlightIsOwned' /\ OneOfASession'
  BY <1>8 DEF WalkFails, InFlightIsOwned, OneOfASession, TypeOK, PlacesTyped, SessionTyped
<1>9. ASSUME NEW d \in Devices, WalkOutOfMemory(d)
     PROVE  InFlightIsOwned' /\ OneOfASession'
  BY <1>9 DEF WalkOutOfMemory, InFlightIsOwned, OneOfASession, TypeOK, PlacesTyped, SessionTyped
<1>10. ASSUME NEW d \in Devices, Downgrade(d)
     PROVE  InFlightIsOwned' /\ OneOfASession'
  BY <1>10 DEF Downgrade, InFlightIsOwned, OneOfASession, TypeOK, PlacesTyped, SessionTyped
<1>11. ASSUME NEW a \in Actors, EngineLoads(a)
     PROVE  InFlightIsOwned' /\ OneOfASession'
  BY <1>11 DEF EngineLoads, InFlightIsOwned, OneOfASession, TypeOK, PlacesTyped, SessionTyped
<1>12. ASSUME NEW a \in Actors, EngineFails(a)
     PROVE  InFlightIsOwned' /\ OneOfASession'
  BY <1>12 DEF EngineFails, GiveUpEngine, InFlightIsOwned, OneOfASession, TypeOK, PlacesTyped, SessionTyped
<1>13. ASSUME NEW a \in Actors, EnginePanics(a)
     PROVE  InFlightIsOwned' /\ OneOfASession'
  BY <1>13 DEF EnginePanics, InFlightIsOwned, OneOfASession, TypeOK, PlacesTyped, SessionTyped
<1>14. ASSUME NEW a \in Actors, NoteInferenceOom(a)
     PROVE  InFlightIsOwned' /\ OneOfASession'
  BY <1>14 DEF NoteInferenceOom, InFlightIsOwned, OneOfASession, TypeOK, PlacesTyped, SessionTyped
<1>15. ASSUME NEW a \in Actors, Reassign(a)
     PROVE  InFlightIsOwned' /\ OneOfASession'
  BY <1>15 DEF Reassign, GiveUpEngine, InFlightIsOwned, OneOfASession, TypeOK, PlacesTyped, SessionTyped
<1>16. ASSUME NEW t \in Tasks, TakeEngine(t)
     PROVE  InFlightIsOwned' /\ OneOfASession'
  BY <1>16 DEF TakeEngine, InFlightIsOwned, OneOfASession, TypeOK, PlacesTyped, SessionTyped
<1>17. ASSUME NEW t \in Tasks, Generate(t)
     PROVE  InFlightIsOwned' /\ OneOfASession'
  BY <1>17 DEF Generate, InFlightIsOwned, OneOfASession, TypeOK, PlacesTyped, SessionTyped
<1>18. ASSUME NEW t \in Tasks, EndInference(t)
     PROVE  InFlightIsOwned' /\ OneOfASession'
  BY <1>18 DEF EndInference, InFlightIsOwned, OneOfASession, TypeOK, PlacesTyped, SessionTyped
<1>19. ASSUME NEW t \in Tasks, NEW m \in Models, StartInference(t, m)
     PROVE  InFlightIsOwned' /\ OneOfASession'
  <2>1. inFlight' /\ current' = {t} /\ at'[t] = "queued"
    BY <1>19 DEF StartInference, InFlightIsOwned, TypeOK, PlacesTyped
  <2> QED BY <2>1 DEF InFlightIsOwned, OneOfASession
<1>20. ASSUME Reconnect
     PROVE  InFlightIsOwned' /\ OneOfASession'
  BY <1>20 DEF Reconnect, InFlightIsOwned, OneOfASession, TypeOK, PlacesTyped, SessionTyped
<1>21. CASE UNCHANGED vars
  BY <1>21 DEF vars, InFlightIsOwned, OneOfASession, TypeOK, PlacesTyped, SessionTyped
<1> QED
  BY <1>1, <1>2, <1>3, <1>4, <1>5, <1>6, <1>7, <1>8, <1>9, <1>10, <1>11, <1>12, <1>13, <1>14, <1>15, <1>16, <1>17, <1>18, <1>19, <1>20, <1>21
  DEF Next, InstallStep, EngineStep, TaskStep

(* The initial states satisfy the invariant.                               *)
LEMMA InitEstablishes ==
  ASSUME Init
  PROVE  IInv
<1>1. AssignmentTyped
  <2>1. PICK D \in SUBSET Devices : 0 \in D /\ tier \in [D -> Models]
    BY AssignmentsAssumption DEF Init
  <2> QED BY <2>1 DEF Init, AssignmentTyped
<1>2. \A a \in Actors : at[a] = IF a \in Devices THEN "mining" ELSE "idle"
  BY DEF Init
<1>3. PlacesTyped
  BY <1>2 DEF Init, PlacesTyped
<1>4. RegistriesTyped /\ SessionTyped /\ PlansTyped
  BY DEF Init, RegistriesTyped, SessionTyped, PlansTyped
<1>5. LocksAreHeld /\ LoadsOnADevice
  BY <1>2 DEF Init, LocksAreHeld, LoadsOnADevice
<1>6. WalkMatchesIndex /\ NoWalkWhileInstalling
  BY <1>2 DEF Init, WalkMatchesIndex, NoWalkWhileInstalling
<1>7. BusyIsOwned /\ InFlightIsOwned /\ OneOfASession
  BY DEF Init, BusyIsOwned, InFlightIsOwned, OneOfASession
<1> QED BY <1>1, <1>3, <1>4, <1>5, <1>6, <1>7 DEF IInv, TypeOK

--------------------------------------------------------------------------------
(* Theorems. *)

(* IInv is inductive, hence invariant.                                     *)
THEOREM InvariantHolds == Spec => []IInv
<1>1. Init => IInv
  BY InitEstablishes
<1>2. IInv /\ [Next]_vars => IInv'
  BY StepTyped, StepLocks, StepLoads, StepNoWalk, StepIndex, StepBusy, StepSession
  DEF IInv
<1> QED BY <1>1, <1>2, PTL DEF Spec

(* The walk of a device is over the model of its index, whatever its tier  *)
(* becomes while it is installed: ensure_installed_inner.                  *)
THEOREM WalksMatchIndexes == Spec => []WalkMatchesIndex
<1>1. IInv => WalkMatchesIndex
  BY DEF IInv
<1> QED BY <1>1, InvariantHolds, PTL

(* No busy flag outlives the inferences that set it: handle_challenge,     *)
(* handle_ai_task.                                                         *)
THEOREM BusyFlagsAreOwned == Spec => []BusyIsOwned
<1>1. IInv => BusyIsOwned
  BY DEF IInv
<1> QED BY <1>1, InvariantHolds, PTL

(* INSTALL_LOCK and ENGINE are held by those at work under them, and by no *)
(* one who failed, gave up or panicked.                                    *)
THEOREM LocksAreHeldWhereNeeded == Spec => []LocksAreHeld
<1>1. IInv => LocksAreHeld
  BY DEF IInv
<1> QED BY <1>1, InvariantHolds, PTL

(* A session that refuses an inference has one under way.                  *)
THEOREM RefusalsHaveAReason == Spec => []InFlightIsOwned
<1>1. IInv => InFlightIsOwned
  BY DEF IInv
<1> QED BY <1>1, InvariantHolds, PTL
================================================================================
