----------------------------- MODULE RandomXProofs -----------------------------
(***************************************************************************)
(* Proofs about the CPU miner, for any number of workers, seeds, jobs and  *)
(* batches: no share for the job handled last was hashed with the wrong    *)
(* dataset, and no batch of a settled job is hashed twice.                 *)
(***************************************************************************)
EXTENDS RandomX, TLAPS

USE BoundsAssumption, NoneAssumption

LEMMA InitIsInductive == Init => IInv
<1> SUFFICES ASSUME Init PROVE IInv
  OBVIOUS
<1>1. TypeOK
  <2>1. NoCopy \in [epoch : Optional(Nat), job : Optional(Jobs)]
    BY DEF NoCopy, Optional
  <2>2. /\ mine \in [Workers -> [epoch : Optional(Nat), job : Optional(Jobs)]]
        /\ at \in [Workers -> {"gone", "starting", "top", "reading", "taking", "hashing"}]
        /\ vm \in [Workers -> Optional(Seeds)] /\ batch \in [Workers -> 0 .. MaxBatch]
    BY <2>1 DEF Init, Optional
  <2>3. events \in Seq(Jobs \cup {Closed}) /\ seeds \in Seq(Seeds)
    BY DEF Init
  <2>4. /\ over \in BOOLEAN /\ link \in BOOLEAN /\ place \in Places
        /\ running \in BOOLEAN /\ paused \in BOOLEAN /\ again \in BOOLEAN
    BY DEF Init, Places
  <2>5. /\ current \in Optional(Jobs) /\ dataset \in Optional(Seeds) /\ job \in Optional(Jobs)
        /\ epoch \in Nat /\ dispatch \in 0 .. MaxBatch
        /\ shares \subseteq [job : Jobs, seed : Seeds] /\ hashed \subseteq 0 .. MaxBatch
    BY DEF Init, Optional
  <2> QED BY <2>2, <2>3, <2>4, <2>5 DEF TypeOK
<1>2. JobsInOrder
  <2>1. events = <<>> /\ seeds = <<>> /\ shares = {} /\ current = None /\ job = None
        /\ \A w \in Workers : mine[w].job = None
    BY DEF Init, NoCopy
  <2>2. Handled = {}
    BY <2>1 DEF Handled
  <2>3. DOMAIN events = {}
    BY <2>1
  <2> QED BY <2>2, <2>3 DEF JobsInOrder
<1>3. DatasetFits /\ CopiesAreWhole
  BY DEF Init, DatasetFits, CopiesAreWhole, SettingJob, NoCopy
<1>4. TakenIsBehind /\ CurrentSharesAreValid /\ NoCollisions
  BY DEF Init, TakenIsBehind, CurrentSharesAreValid, NoCollisions
<1> QED BY <1>1, <1>2, <1>3, <1>4 DEF IInv

--------------------------------------------------------------------------------
(* Steps that touch neither the jobs that are handled nor the workers.     *)
LEMMA QuietStepKeepsInv ==
  ASSUME IInv,
         UNCHANGED <<seeds, current, dataset, job, epoch, dispatch, worker, history>>,
         over' \in BOOLEAN, paused' \in BOOLEAN, link' \in BOOLEAN, running' \in BOOLEAN,
         shares' \subseteq shares, place' \in Places,
         events' = events \/ events' = <<>> \/ events' = Append(events, Closed),
         place' = "between" => place = "between",
         place' # place =>
           ~SettingJob /\ (place' = "ending" \/ (place = "between" /\ place' = "selecting"))
  PROVE  IInv'
<1>1. /\ UNCHANGED <<at, vm, mine, batch, hashed, again>>
      /\ TypeOK /\ JobsInOrder /\ DatasetFits /\ CopiesAreWhole /\ TakenIsBehind
      /\ CurrentSharesAreValid /\ NoCollisions
  BY DEF worker, history, IInv
<1>2. events \in Seq(Jobs \cup {Closed})
  BY <1>1 DEF TypeOK
<1>3. events' \in Seq(Jobs \cup {Closed})
  <2>1. Closed \in Jobs \cup {Closed}
    OBVIOUS
  <2>2. CASE events' = Append(events, Closed)
    BY <1>2, <2>1, <2>2
  <2>3. CASE events' = events
    BY <1>2, <2>3
  <2>4. CASE events' = <<>>
    BY <2>4
  <2> QED BY <2>2, <2>3, <2>4
<1>4. TypeOK'
  BY <1>1, <1>3 DEF TypeOK
<1>5. Handled' \subseteq Handled
  BY <1>1 DEF Handled
<1>6. /\ \A i \in DOMAIN events' : events'[i] # Closed => i \in DOMAIN events /\ events'[i] = events[i]
  BY <1>2
<1>7. JobsInOrder'
  BY <1>1, <1>5, <1>6 DEF JobsInOrder
<1>8. DatasetFits' /\ CopiesAreWhole'
  BY <1>1 DEF DatasetFits, CopiesAreWhole, SettingJob
<1>9. TakenIsBehind' /\ CurrentSharesAreValid' /\ NoCollisions'
  BY <1>1 DEF TakenIsBehind, CurrentSharesAreValid, NoCollisions, SettingJob
<1> QED BY <1>4, <1>7, <1>8, <1>9 DEF IInv

LEMMA QuietSteps ==
  ASSUME IInv,
         \/ DeadlinePasses \/ RoundEnds \/ Connect \/ Disconnected \/ EndSession
         \/ BuildFails \/ (\E s \in shares : Submit(s))
         \/ \E p \in BOOLEAN : SetPause(p)
  PROVE  IInv'
<1>0. /\ over \in BOOLEAN /\ link \in BOOLEAN /\ running \in BOOLEAN /\ paused \in BOOLEAN
      /\ place \in Places
  BY DEF IInv, TypeOK
<1> USE <1>0, QuietStepKeepsInv DEF pool, shared, Places, SettingJob
<1>1. CASE DeadlinePasses
  BY <1>1 DEF DeadlinePasses
<1>2. CASE RoundEnds
  BY <1>2 DEF RoundEnds
<1>3. CASE Connect
  BY <1>3 DEF Connect
<1>4. CASE Disconnected
  BY <1>4 DEF Disconnected
<1>5. CASE EndSession
  BY <1>5 DEF EndSession, GoTo
<1>6. CASE BuildFails
  BY <1>6 DEF BuildFails, GoTo
<1>8. ASSUME NEW s \in shares, Submit(s) PROVE IInv'
  BY <1>8 DEF Submit
<1>9. ASSUME NEW p \in BOOLEAN, SetPause(p) PROVE IInv'
  BY <1>9 DEF SetPause
<1> QED BY <1>1, <1>2, <1>3, <1>4, <1>5, <1>6, <1>8, <1>9

--------------------------------------------------------------------------------
(* The pool and the session loop. *)

(* What the invariant says, one variable at a time.                        *)
LEMMA Facts ==
  ASSUME IInv
  PROVE  /\ TypeOK /\ JobsInOrder /\ DatasetFits /\ CopiesAreWhole /\ TakenIsBehind
         /\ CurrentSharesAreValid /\ NoCollisions
         /\ events \in Seq(Jobs \cup {Closed}) /\ seeds \in Seq(Seeds)
         /\ Len(events) \in Nat /\ DOMAIN events = 1 .. Len(events)
         /\ Len(seeds) \in Nat /\ DOMAIN seeds = 1 .. Len(seeds)
         /\ Handled \subseteq Jobs
         /\ current # None => /\ current \in Jobs /\ current \in DOMAIN seeds
                              /\ seeds[current] \in Seeds /\ seeds[current] # None
<1>1. /\ TypeOK /\ JobsInOrder /\ DatasetFits /\ CopiesAreWhole /\ TakenIsBehind
      /\ CurrentSharesAreValid /\ NoCollisions
  BY DEF IInv
<1>2. events \in Seq(Jobs \cup {Closed}) /\ seeds \in Seq(Seeds)
  BY <1>1 DEF TypeOK
<1>3. /\ Len(events) \in Nat /\ DOMAIN events = 1 .. Len(events)
      /\ Len(seeds) \in Nat /\ DOMAIN seeds = 1 .. Len(seeds)
  BY <1>2
<1>4. current # None => current \in Jobs /\ current \in DOMAIN seeds
  BY <1>1, <1>3 DEF TypeOK, Optional, Jobs, JobsInOrder, Handled
<1>5. Handled \subseteq Jobs
  <2>1. /\ current \in Optional(Jobs) /\ job \in Optional(Jobs)
        /\ mine \in [Workers -> [epoch : Optional(Nat), job : Optional(Jobs)]]
        /\ shares \subseteq [job : Jobs, seed : Seeds]
    BY <1>1 DEF TypeOK
  <2> QED BY <2>1 DEF Handled, Optional
<1> QED BY <1>1, <1>2, <1>3, <1>4, <1>5

LEMMA PoolSendsKeepsInv ==
  ASSUME IInv, NEW seed \in Seeds, PoolSends(seed)
  PROVE  IInv'
<1> DEFINE n == Len(seeds) + 1
<1>1. /\ UNCHANGED <<over, link, place, current, dataset, job, epoch, dispatch, running, paused,
                     at, vm, mine, batch, shares, hashed, again>>
      /\ Len(seeds) < MaxJob
      /\ seeds' = Append(seeds, seed) /\ events' = Append(events, n)
  BY DEF PoolSends, Send, shared, worker, history
<1>2. n \in Jobs
  BY <1>1, Facts DEF Jobs
<1> HIDE DEF n
<1>3. seeds' \in Seq(Seeds) /\ Len(seeds') = n /\ \A i \in DOMAIN seeds : seeds'[i] = seeds[i]
  BY <1>1, Facts DEF n
<1>4. /\ events' \in Seq(Jobs \cup {Closed}) /\ DOMAIN events' = 1 .. Len(events) + 1
      /\ events'[Len(events) + 1] = n
      /\ \A i \in DOMAIN events : events'[i] = events[i]
  <2>1. n \in Jobs \cup {Closed}
    BY <1>2
  <2> QED BY <1>1, <2>1, Facts
<1>5. TypeOK'
  BY <1>1, <1>3, <1>4, Facts DEF TypeOK
<1>6. n = Len(seeds) + 1 /\ n \in Nat /\ Len(seeds') = n
  BY <1>3, Facts DEF n
<1>7. Handled' = Handled
  BY <1>1 DEF Handled
<1>8. Handled \subseteq Nat
  BY Facts DEF Jobs
<1>9. JobsInOrder'
  <2>1. \A h \in Handled' : h < n
    BY <1>6, <1>7, <1>8, Facts DEF JobsInOrder
  <2> SUFFICES ASSUME NEW i \in DOMAIN events', events'[i] # Closed
               PROVE  /\ events'[i] <= Len(seeds') /\ \A h \in Handled' : h < events'[i]
                      /\ \A k \in DOMAIN events' : i < k /\ events'[k] # Closed =>
                           events'[i] < events'[k]
    BY <1>6, <1>7, <1>8, <2>1 DEF JobsInOrder
  <2>2. CASE i = Len(events) + 1
    <3>1. \A k \in DOMAIN events' : ~(i < k)
      BY <1>4, <2>2, Facts
    <3> QED BY <1>4, <1>6, <2>1, <2>2, <3>1
  <2>3. CASE i \in DOMAIN events
    <3>1. /\ events'[i] = events[i] /\ events[i] \in Jobs /\ events[i] <= Len(seeds)
          /\ \A h \in Handled : h < events[i]
          /\ \A k \in DOMAIN events : i < k /\ events[k] # Closed => events[i] < events[k]
      BY <1>4, <2>3, Facts DEF JobsInOrder
    <3>2. events[i] \in Nat
      BY <3>1 DEF Jobs
    <3>4. events'[i] < n
      BY <1>6, <3>1, <3>2, Facts
    <3>5. ASSUME NEW k \in DOMAIN events', i < k, events'[k] # Closed PROVE events'[i] < events'[k]
      BY <1>4, <3>1, <3>4, <3>5, Facts
    <3> QED BY <1>6, <1>7, <3>1, <3>2, <3>4, <3>5
  <2> QED BY <1>4, <2>2, <2>3, Facts
<1>10. current # None => seeds'[current] = seeds[current]
  BY <1>3, Facts
<1>11. DatasetFits' /\ CopiesAreWhole'
  BY <1>1, <1>10, Facts DEF DatasetFits, CopiesAreWhole, SettingJob
<1>12. CurrentSharesAreValid'
  <2>1. None \notin Jobs
    BY DEF Jobs
  <2> QED BY <1>1, <1>10, <2>1, Facts DEF CurrentSharesAreValid, TypeOK
<1>13. TakenIsBehind' /\ NoCollisions'
  BY <1>1, Facts DEF TakenIsBehind, NoCollisions, SettingJob
<1> QED BY <1>5, <1>9, <1>11, <1>12, <1>13 DEF IInv

LEMMA TakeJobKeepsInv ==
  ASSUME IInv, TakeJob
  PROVE  IInv'
<1> DEFINE n == Head(events)
<1>1. /\ UNCHANGED <<over, link, seeds, dataset, job, epoch, dispatch, paused,
                     at, vm, mine, batch, shares, hashed, again>>
      /\ place = "selecting" /\ events # <<>> /\ n # Closed
      /\ events' = Tail(events) /\ current' = n
      /\ place' = (IF dataset = None THEN "building"
                   ELSE IF seeds[n] # dataset THEN "stopping" ELSE "writing")
      /\ running' = (running /\ place' \notin {"stopping", "ending"})
  BY DEF TakeJob, GoTo, pool, worker, history
<1>2. /\ 1 \in DOMAIN events /\ n = events[1] /\ n \in Jobs /\ n \in Nat
      /\ events' \in Seq(Jobs \cup {Closed}) /\ DOMAIN events' = 1 .. Len(events) - 1
      /\ \A i \in DOMAIN events' : i + 1 \in DOMAIN events /\ events'[i] = events[i + 1]
  <2>1. Len(events) # 0
    BY <1>1, Facts
  <2>2. 1 \in DOMAIN events /\ n = events[1]
    BY <2>1, Facts
  <2>3. n \in Jobs /\ n \in Nat
    BY <1>1, <2>2, Facts DEF Jobs
  <2>4. /\ events' \in Seq(Jobs \cup {Closed}) /\ DOMAIN events' = 1 .. Len(events) - 1
        /\ \A i \in DOMAIN events' : i + 1 \in DOMAIN events /\ events'[i] = events[i + 1]
    BY <1>1, <2>1, Facts
  <2> QED BY <2>2, <2>3, <2>4
<1> HIDE DEF n
<1>3. /\ n <= Len(seeds) /\ \A h \in Handled : h < n
      /\ \A k \in DOMAIN events : 1 < k /\ events[k] # Closed => n < events[k]
  BY <1>1, <1>2, Facts DEF JobsInOrder
<1>4. TypeOK'
  BY <1>1, <1>2, Facts DEF TypeOK, Optional, Places
<1>5. Handled' \subseteq Handled \cup {n}
  BY <1>1 DEF Handled
<1>6. JobsInOrder'
  <2> SUFFICES ASSUME NEW i \in DOMAIN events', events'[i] # Closed
               PROVE  /\ events'[i] <= Len(seeds') /\ \A h \in Handled' : h < events'[i]
                      /\ \A k \in DOMAIN events' : i < k /\ events'[k] # Closed =>
                           events'[i] < events'[k]
    BY <1>1, <1>3, <1>5, Facts DEF JobsInOrder
  <2>2. /\ i + 1 \in DOMAIN events /\ events'[i] = events[i + 1] /\ 1 < i + 1 /\ i \in Nat
    BY <1>2, Facts
  <2>3. /\ events[i + 1] \in Jobs /\ events[i + 1] <= Len(seeds)
        /\ \A h \in Handled : h < events[i + 1]
        /\ \A k \in DOMAIN events : i + 1 < k /\ events[k] # Closed => events[i + 1] < events[k]
    BY <2>2, Facts DEF JobsInOrder
  <2>4. \A h \in Handled' : h < events'[i]
    BY <1>3, <1>5, <2>2, <2>3
  <2>5. ASSUME NEW k \in DOMAIN events', i < k, events'[k] # Closed PROVE events'[i] < events'[k]
    BY <1>2, <2>2, <2>3, <2>5, Facts
  <2> QED BY <1>1, <2>2, <2>3, <2>4, <2>5
<1>7. n # None /\ job # n /\ (\A w \in Workers : mine[w].job # n) /\ \A s \in shares : s.job # n
  <2>1. n # None /\ n \notin Handled
    BY <1>2, <1>3, NoneAssumption
  <2> QED BY <2>1 DEF Handled
<1>8. DatasetFits'
  BY <1>1, <1>7, Facts DEF DatasetFits, SettingJob
<1>9. CopiesAreWhole' /\ TakenIsBehind' /\ CurrentSharesAreValid' /\ NoCollisions'
  BY <1>1, <1>7, Facts DEF CopiesAreWhole, TakenIsBehind, CurrentSharesAreValid, NoCollisions, SettingJob
<1> QED BY <1>4, <1>6, <1>8, <1>9 DEF IInv

LEMMA SpawnKeepsInv ==
  ASSUME IInv, place \in {"building", "rebuilding"}, place' = "writing",
         SpawnWorkers, job' \in {None, job}, epoch' \in {0, epoch},
         UNCHANGED <<over, pool, events, current, paused, shares, history>>
  PROVE  IInv'
<1>1. /\ UNCHANGED <<over, link, seeds, events, current, paused, shares, hashed, again>>
      /\ dataset' = seeds[current] /\ running' = TRUE /\ dispatch' = 0
      /\ at' = [w \in Workers |-> "starting"]
      /\ vm' = [w \in Workers |-> seeds[current]]
      /\ mine' = [w \in Workers |-> NoCopy] /\ batch' = [w \in Workers |-> 0]
  BY DEF SpawnWorkers, pool, history
<1>2. /\ current # None /\ current \in Jobs /\ seeds[current] \in Seeds /\ seeds[current] # None
      /\ \A w \in Workers : job # current
  BY Facts DEF DatasetFits
<1>3. TypeOK'
  <2>1. NoCopy \in [epoch : Optional(Nat), job : Optional(Jobs)]
    BY DEF NoCopy, Optional
  <2>2. /\ mine' \in [Workers -> [epoch : Optional(Nat), job : Optional(Jobs)]]
        /\ at' \in [Workers -> {"gone", "starting", "top", "reading", "taking", "hashing"}]
        /\ vm' \in [Workers -> Optional(Seeds)] /\ batch' \in [Workers -> 0 .. MaxBatch]
    BY <1>1, <1>2, <2>1 DEF Optional
  <2>3. /\ job' \in Optional(Jobs) /\ dataset' \in Optional(Seeds)
        /\ epoch' \in Nat /\ dispatch' \in 0 .. MaxBatch
    BY <1>1, <1>2, Facts DEF TypeOK, Optional
  <2> QED BY <1>1, <2>2, <2>3, Facts DEF TypeOK, Places
<1>4. \A w \in Workers : mine'[w].job = None /\ mine'[w].epoch = None
  BY <1>1 DEF NoCopy
<1>5. JobsInOrder'
  <2>1. Handled' \subseteq Handled
    BY <1>1, <1>4 DEF Handled
  <2> QED BY <1>1, <2>1, Facts DEF JobsInOrder
<1>6. DatasetFits'
  BY <1>1, <1>2, <1>4, Facts DEF DatasetFits, SettingJob
<1>7. CopiesAreWhole'
  BY <1>1, <1>4 DEF CopiesAreWhole
<1>8. TakenIsBehind' /\ CurrentSharesAreValid' /\ NoCollisions'
  BY <1>1, Facts DEF TakenIsBehind, CurrentSharesAreValid, NoCollisions, SettingJob
<1> QED BY <1>3, <1>5, <1>6, <1>7, <1>8 DEF IInv

LEMMA SetJobKeepsInv ==
  ASSUME IInv, SetJob
  PROVE  IInv'
<1>1. /\ UNCHANGED <<over, link, seeds, events, current, dataset, running, paused, at, vm, mine,
                     batch, shares, again>>
      /\ hashed' = {} /\ SettingJob
      /\ job' = job \/ job' = current
      /\ epoch' = epoch \/ epoch' = epoch + 1
      /\ dispatch' = dispatch \/ dispatch' = 0
      /\ place' \in {"resetting", "bumping", "selecting"}
  BY DEF SetJob, SettingJob, pool, worker
<1>2. /\ current # None /\ current \in Jobs /\ dataset # None /\ dataset = seeds[current]
  BY <1>1, Facts DEF DatasetFits
<1>3. TypeOK'
  <2>1. /\ job' \in Optional(Jobs) /\ epoch' \in Nat /\ dispatch' \in 0 .. MaxBatch
        /\ place' \in Places /\ hashed' \subseteq 0 .. MaxBatch
    BY <1>1, <1>2, Facts DEF TypeOK, Optional, Places
  <2> QED BY <1>1, <2>1, Facts DEF TypeOK
<1>4. JobsInOrder'
  <2>1. Handled' \subseteq Handled
    BY <1>1 DEF Handled
  <2> QED BY <1>1, <2>1, Facts DEF JobsInOrder
<1>5. DatasetFits'
  BY <1>1, <1>2, Facts DEF DatasetFits, SettingJob
<1>6. CopiesAreWhole' /\ TakenIsBehind' /\ CurrentSharesAreValid' /\ NoCollisions'
  BY <1>1, Facts DEF CopiesAreWhole, TakenIsBehind, CurrentSharesAreValid, NoCollisions
<1> QED BY <1>3, <1>4, <1>5, <1>6 DEF IInv

LEMMA SessionEndsKeepsInv ==
  ASSUME IInv, SessionEnds
  PROVE  IInv'
<1>1. /\ UNCHANGED <<over, seeds, running, paused, at, vm, mine, batch, hashed, again>>
      /\ place' = "between" /\ current' = None /\ dataset' = None /\ link' = FALSE
      /\ events' = <<>> /\ job' = None /\ epoch' = 0 /\ dispatch' = 0 /\ shares' = {}
      /\ \A w \in Workers : at[w] = "gone"
  BY DEF SessionEnds, Joined, worker, history
<1>2. \A w \in Workers : mine[w].job = None
  BY <1>1, Facts DEF CopiesAreWhole, NoCopy
<1>3. TypeOK'
  <2>1. /\ current' \in Optional(Jobs) /\ dataset' \in Optional(Seeds) /\ job' \in Optional(Jobs)
        /\ epoch' \in Nat /\ dispatch' \in 0 .. MaxBatch /\ place' \in Places
    BY <1>1 DEF Optional, Places
  <2>2. events' \in Seq(Jobs \cup {Closed}) /\ shares' \subseteq [job : Jobs, seed : Seeds]
    BY <1>1
  <2>3. link' \in BOOLEAN
    BY <1>1
  <2> QED BY <1>1, <2>1, <2>2, <2>3, Facts DEF TypeOK
<1>4. JobsInOrder'
  <2>1. Handled' = {}
    BY <1>1, <1>2 DEF Handled
  <2>2. DOMAIN events' = {}
    BY <1>1
  <2> QED BY <2>1, <2>2 DEF JobsInOrder
<1>5. DatasetFits' /\ CopiesAreWhole'
  BY <1>1, Facts DEF DatasetFits, CopiesAreWhole, SettingJob
<1>6. TakenIsBehind' /\ CurrentSharesAreValid' /\ NoCollisions'
  BY <1>1, Facts DEF TakenIsBehind, CurrentSharesAreValid, NoCollisions
<1> QED BY <1>3, <1>4, <1>5, <1>6 DEF IInv

LEMMA LoopKeepsInv ==
  ASSUME IInv, LoopStep
  PROVE  IInv'
<1>1. CASE Build
  BY <1>1, SpawnKeepsInv DEF Build
<1>2. CASE Rebuild
  BY <1>2, SpawnKeepsInv DEF Rebuild
<1>3. CASE Stop
  <2>1. /\ UNCHANGED <<over, link, seeds, events, current, dataset, job, epoch, dispatch, running,
                       paused, at, vm, mine, batch, shares, hashed, again>>
        /\ place = "stopping" /\ place' = "rebuilding"
    BY <1>3 DEF Stop, pool, shared, worker, history
  <2>2. TypeOK'
    BY <2>1, Facts DEF TypeOK, Places
  <2>3. JobsInOrder'
    BY <2>1, Facts DEF JobsInOrder, Handled
  <2>4. DatasetFits' /\ CopiesAreWhole'
    BY <2>1, Facts DEF DatasetFits, CopiesAreWhole, SettingJob
  <2>5. TakenIsBehind' /\ CurrentSharesAreValid' /\ NoCollisions'
    BY <2>1, Facts DEF TakenIsBehind, CurrentSharesAreValid, NoCollisions, SettingJob
  <2> QED BY <2>2, <2>3, <2>4, <2>5 DEF IInv
<1> QED BY <1>1, <1>2, <1>3, TakeJobKeepsInv, QuietSteps, SetJobKeepsInv, SessionEndsKeepsInv
        DEF LoopStep

--------------------------------------------------------------------------------
(* The workers. *)

(* What a worker may do to its own: it takes up no job but the one that is *)
(* set, and keeps its dataset until it goes.                               *)
LEMMA WorkerKeepsItsPart ==
  ASSUME IInv, NEW w \in Workers, NEW v, NEW b \in 0 .. MaxBatch,
         NEW p \in {"gone", "top", "reading", "taking", "hashing"},
         NEW m \in [epoch : Optional(Nat), job : Optional(Jobs)],
         at[w] # "gone", v = vm[w] \/ (v = None /\ p = "gone"),
         m.job \in {None, job, mine[w].job}, p = "gone" => m = NoCopy,
         m.epoch # None /\ p # "reading" => m.job # None,
         p \in {"taking", "hashing"} => m.job # None,
         at' = [at EXCEPT ![w] = p], vm' = [vm EXCEPT ![w] = v],
         mine' = [mine EXCEPT ![w] = m], batch' = [batch EXCEPT ![w] = b],
         UNCHANGED <<seeds, place, current, dataset, job>>
  PROVE  /\ at' \in [Workers -> {"gone", "starting", "top", "reading", "taking", "hashing"}]
         /\ vm' \in [Workers -> Optional(Seeds)]
         /\ mine' \in [Workers -> [epoch : Optional(Nat), job : Optional(Jobs)]]
         /\ batch' \in [Workers -> 0 .. MaxBatch]
         /\ \A u \in Workers : mine'[u].job \in {None, job, mine[u].job}
         /\ DatasetFits' /\ CopiesAreWhole'
         /\ \A u \in Workers : at'[u] # "gone" => at[u] # "gone"
<1>1. /\ at \in [Workers -> {"gone", "starting", "top", "reading", "taking", "hashing"}]
      /\ vm \in [Workers -> Optional(Seeds)]
      /\ mine \in [Workers -> [epoch : Optional(Nat), job : Optional(Jobs)]]
      /\ batch \in [Workers -> 0 .. MaxBatch]
  BY Facts DEF TypeOK
<1>2. v \in Optional(Seeds)
  BY <1>1 DEF Optional
<1>3. \A u \in Workers : /\ at'[u] = (IF u = w THEN p ELSE at[u])
                          /\ vm'[u] = (IF u = w THEN v ELSE vm[u])
                          /\ mine'[u] = (IF u = w THEN m ELSE mine[u])
  BY <1>1
<1>4. \A u \in Workers : mine'[u].job \in {None, job, mine[u].job}
  BY <1>3
<1>5. /\ at' \in [Workers -> {"gone", "starting", "top", "reading", "taking", "hashing"}]
      /\ vm' \in [Workers -> Optional(Seeds)]
      /\ mine' \in [Workers -> [epoch : Optional(Nat), job : Optional(Jobs)]]
      /\ batch' \in [Workers -> 0 .. MaxBatch]
  BY <1>1, <1>2
<1>6. \A u \in Workers : at'[u] # "gone" => at[u] # "gone"
  BY <1>3
<1>7. DatasetFits'
  BY <1>3, <1>4, Facts DEF DatasetFits, SettingJob
<1>8. CopiesAreWhole'
  BY <1>3, Facts DEF CopiesAreWhole
<1> QED BY <1>4, <1>5, <1>6, <1>7, <1>8

LEMMA WorkerKeepsInv ==
  ASSUME IInv, NEW w \in Workers, WorkerStep(w)
  PROVE  IInv'
<1> DEFINE Places6 == {"gone", "top", "reading", "taking", "hashing"}
           Copies == [epoch : Optional(Nat), job : Optional(Jobs)]
<1>0. /\ at \in [Workers -> {"gone", "starting", "top", "reading", "taking", "hashing"}]
      /\ vm \in [Workers -> Optional(Seeds)] /\ mine \in [Workers -> Copies]
      /\ batch \in [Workers -> 0 .. MaxBatch]
      /\ job \in Optional(Jobs) /\ epoch \in Nat /\ epoch # None /\ dispatch \in 0 .. MaxBatch
      /\ 0 \in 0 .. MaxBatch /\ NoCopy \in Copies /\ mine[w] \in Copies
      /\ batch[w] \in 0 .. MaxBatch
      /\ at = [at EXCEPT ![w] = at[w]] /\ vm = [vm EXCEPT ![w] = vm[w]]
      /\ mine = [mine EXCEPT ![w] = mine[w]] /\ batch = [batch EXCEPT ![w] = batch[w]]
  BY Facts DEF TypeOK, NoCopy, Optional
<1> DEFINE Part(p, v, m, b) ==
      /\ at' = [at EXCEPT ![w] = p] /\ vm' = [vm EXCEPT ![w] = v]
      /\ mine' = [mine EXCEPT ![w] = m] /\ batch' = [batch EXCEPT ![w] = b]
      /\ p \in Places6 /\ m \in Copies /\ b \in 0 .. MaxBatch
      /\ at[w] # "gone" /\ (v = vm[w] \/ (v = None /\ p = "gone"))
      /\ m.job \in {None, job, mine[w].job} /\ (p = "gone" => m = NoCopy)
      /\ (m.epoch # None /\ p # "reading" => m.job # None)
      /\ (p \in {"taking", "hashing"} => m.job # None)
(* Whoever leaves the job, the dispenser and the shares alone. *)
<1>1. ASSUME NEW p, NEW v, NEW m, NEW b, Part(p, v, m, b), UNCHANGED <<control, shares, history>>
      PROVE  IInv'
  <2>1. UNCHANGED <<over, link, seeds, events, place, current, dataset, job, epoch, dispatch,
                    running, paused, shares, hashed, again>>
    BY <1>1 DEF control, pool, shared, history
  <2>2. /\ at' \in [Workers -> {"gone", "starting", "top", "reading", "taking", "hashing"}]
        /\ vm' \in [Workers -> Optional(Seeds)] /\ mine' \in [Workers -> Copies]
        /\ batch' \in [Workers -> 0 .. MaxBatch]
        /\ \A u \in Workers : mine'[u].job \in {None, job, mine[u].job}
        /\ DatasetFits' /\ CopiesAreWhole'
        /\ \A u \in Workers : at'[u] # "gone" => at[u] # "gone"
    BY <1>1, <2>1, WorkerKeepsItsPart
  <2>3. TypeOK'
    BY <2>1, <2>2, Facts DEF TypeOK
  <2>4. Handled' \subseteq Handled
    BY <2>1, <2>2 DEF Handled
  <2>5. JobsInOrder'
    BY <2>1, <2>4, Facts DEF JobsInOrder
  <2>6. TakenIsBehind' /\ CurrentSharesAreValid' /\ NoCollisions'
    BY <2>1, <2>2, Facts DEF TakenIsBehind, CurrentSharesAreValid, NoCollisions, SettingJob
  <2> QED BY <2>2, <2>3, <2>5, <2>6 DEF IInv
<1>2. CASE StartWorker(w)
  <2>1. /\ at[w] = "starting" /\ UNCHANGED <<control, shares, history>>
        /\ \/ at' = [at EXCEPT ![w] = "top"] /\ UNCHANGED <<vm, mine, batch>>
           \/ at' = [at EXCEPT ![w] = "gone"] /\ Forget(w)
    BY <1>2 DEF StartWorker, Goes
  <2>2. mine[w].epoch # None => mine[w].job # None
    BY <2>1, Facts DEF CopiesAreWhole
  <2>3. CASE at' = [at EXCEPT ![w] = "top"] /\ UNCHANGED <<vm, mine, batch>>
    <3>1. Part("top", vm[w], mine[w], batch[w])
      BY <1>0, <2>1, <2>2, <2>3
    <3> QED BY <1>1, <2>1, <3>1
  <2>4. CASE at' = [at EXCEPT ![w] = "gone"] /\ Forget(w)
    <3>1. Part("gone", None, NoCopy, 0)
      BY <1>0, <2>1, <2>4 DEF Forget, NoCopy
    <3> QED BY <1>1, <2>1, <3>1
  <2> QED BY <2>1, <2>3, <2>4
<1>3. CASE Leave(w)
  <2>1. Part("gone", None, NoCopy, 0)
    BY <1>0, <1>3 DEF Leave, Goes, Forget, NoCopy
  <2> QED BY <1>1, <1>3, <2>1 DEF Leave
<1>4. CASE LoadEpoch(w)
  <2>1. at[w] = "top" /\ UNCHANGED <<control, vm, batch, shares, history>>
    BY <1>4 DEF LoadEpoch
  <2>2. mine[w].epoch # None => mine[w].job # None
    BY <2>1, Facts DEF CopiesAreWhole
  <2>3. CASE epoch = mine[w].epoch
    <3>1. Part("taking", vm[w], mine[w], batch[w])
      BY <1>0, <1>4, <2>1, <2>2, <2>3 DEF LoadEpoch, Goes
    <3> QED BY <1>1, <2>1, <3>1
  <2>4. CASE epoch # mine[w].epoch
    <3> DEFINE m == [mine[w] EXCEPT !.epoch = epoch]
    <3>1. m \in Copies /\ m.job = mine[w].job
      BY <1>0 DEF Optional
    <3>2. mine' = [mine EXCEPT ![w] = m] /\ at' = [at EXCEPT ![w] = "reading"]
      BY <1>0, <1>4, <2>4 DEF LoadEpoch, Goes
    <3> HIDE DEF m
    <3>3. Part("reading", vm[w], m, batch[w])
      BY <1>0, <2>1, <3>1, <3>2
    <3> QED BY <1>1, <2>1, <3>3
  <2> QED BY <2>3, <2>4
<1>5. CASE ReadJob(w)
  <2>1. at[w] = "reading" /\ UNCHANGED <<control, vm, batch, shares, history>>
    BY <1>5 DEF ReadJob
  <2>2. CASE job = None
    <3>1. Part("top", vm[w], NoCopy, batch[w])
      BY <1>0, <1>5, <2>1, <2>2 DEF ReadJob, Goes, NoCopy
    <3> QED BY <1>1, <2>1, <3>1
  <2>3. CASE job # None
    <3> DEFINE m == [mine[w] EXCEPT !.job = job]
    <3>1. m \in Copies /\ m.job = job
      BY <1>0
    <3>2. mine' = [mine EXCEPT ![w] = m] /\ at' = [at EXCEPT ![w] = "taking"]
      BY <1>0, <1>5, <2>3 DEF ReadJob, Goes
    <3> HIDE DEF m
    <3>3. Part("taking", vm[w], m, batch[w])
      BY <1>0, <2>1, <2>3, <3>1, <3>2
    <3> QED BY <1>1, <2>1, <3>3
  <2> QED BY <2>2, <2>3
<1>6. CASE TakeBatch(w)
  <2>1. /\ at[w] = "taking" /\ mine[w].job # None
        /\ UNCHANGED <<over, link, seeds, events, place, current, dataset, job, epoch, running,
                       paused, vm, mine, shares>>
    BY <1>6, Facts DEF TakeBatch, others, pool, CopiesAreWhole
  <2>2. CASE dispatch >= MaxBatch
    <3>1. Part("top", vm[w], mine[w], batch[w]) /\ UNCHANGED <<dispatch, history>>
      BY <1>0, <1>6, <2>1, <2>2 DEF TakeBatch, Goes
    <3> QED BY <1>1, <2>1, <3>1 DEF control, shared, pool
  <2>3. CASE dispatch < MaxBatch
    <3>1. /\ Part("hashing", vm[w], mine[w], dispatch) /\ dispatch' = dispatch + 1
          /\ hashed' = (IF ~SettingJob /\ mine[w].epoch = epoch THEN hashed \cup {dispatch} ELSE hashed)
          /\ again' = (again \/ (~SettingJob /\ mine[w].epoch = epoch /\ dispatch \in hashed))
      BY <1>0, <1>6, <2>1, <2>3 DEF TakeBatch, Take, Goes
    <3>2. /\ at' \in [Workers -> {"gone", "starting", "top", "reading", "taking", "hashing"}]
          /\ vm' \in [Workers -> Optional(Seeds)] /\ mine' \in [Workers -> Copies]
          /\ batch' \in [Workers -> 0 .. MaxBatch]
          /\ DatasetFits' /\ CopiesAreWhole'
      BY <2>1, <3>1, WorkerKeepsItsPart
    <3>3. /\ hashed \subseteq 0 .. MaxBatch /\ again = FALSE
          /\ ~SettingJob => \A b \in hashed : b < dispatch
      BY <2>1, Facts DEF TypeOK, NoCollisions, TakenIsBehind
    <3>4. again' = FALSE
      <4>1. ~(~SettingJob /\ dispatch \in hashed)
        BY <1>0, <3>3
      <4> QED BY <3>1, <3>3, <4>1, Zenon
    <3>5. dispatch' \in 0 .. MaxBatch /\ hashed' \subseteq 0 .. MaxBatch
      BY <1>0, <2>3, <3>1, <3>3
    <3>6. TypeOK'
      BY <2>1, <3>2, <3>4, <3>5, Facts DEF TypeOK
    <3>7. JobsInOrder'
      BY <2>1, Facts DEF JobsInOrder, Handled
    <3>8. ~SettingJob => \A b \in hashed' : b < dispatch + 1
      BY <1>0, <3>1, <3>3
    <3>9. TakenIsBehind' /\ CurrentSharesAreValid' /\ NoCollisions'
      BY <2>1, <3>1, <3>4, <3>8, Facts
         DEF TakenIsBehind, CurrentSharesAreValid, NoCollisions, SettingJob
    <3> QED BY <3>2, <3>6, <3>7, <3>9 DEF IInv
  <2> QED BY <1>0, <2>2, <2>3
<1>7. ASSUME NEW found \in BOOLEAN, HashBatch(w, found) PROVE IInv'
  <2>1. /\ at[w] = "hashing"
        /\ UNCHANGED <<over, link, seeds, events, place, current, dataset, job, epoch, dispatch,
                       running, paused, vm, mine, hashed, again>>
        /\ shares' \subseteq shares \cup {[job |-> mine[w].job, seed |-> vm[w]]}
    BY <1>7 DEF HashBatch, control, pool, shared, history
  <2>2. /\ mine[w].job # None /\ mine[w].job \in Jobs /\ vm[w] = dataset /\ vm[w] \in Seeds
        /\ current # None /\ mine[w].job = current => vm[w] = seeds[current]
    BY <1>0, <2>1, Facts DEF CopiesAreWhole, DatasetFits, Optional
  <2>3. Part("top", vm[w], mine[w], 0)
    BY <1>0, <1>7, <2>1, <2>2 DEF HashBatch, Goes
  <2>4. /\ at' \in [Workers -> {"gone", "starting", "top", "reading", "taking", "hashing"}]
        /\ vm' \in [Workers -> Optional(Seeds)] /\ mine' \in [Workers -> Copies]
        /\ batch' \in [Workers -> 0 .. MaxBatch]
        /\ DatasetFits' /\ CopiesAreWhole'
        /\ \A u \in Workers : at'[u] # "gone" => at[u] # "gone"
    BY <2>1, <2>3, WorkerKeepsItsPart
  <2>5. TypeOK'
    <3>1. shares' \subseteq [job : Jobs, seed : Seeds]
      BY <2>1, <2>2, Facts DEF TypeOK
    <3> QED BY <2>1, <2>4, <3>1, Facts DEF TypeOK
  <2>6. JobsInOrder'
    <3>1. \A s \in shares' : s \in shares \/ s.job = mine[w].job
      BY <2>1
    <3>2. Handled' \subseteq Handled
      BY <2>1, <3>1 DEF Handled
    <3> QED BY <2>1, <3>2, Facts DEF JobsInOrder
  <2>7. CurrentSharesAreValid'
    <3>1. \A s \in shares' : s \in shares \/ (s.job = mine[w].job /\ s.seed = vm[w])
      BY <2>1
    <3> QED BY <2>1, <2>2, <3>1, Facts DEF CurrentSharesAreValid
  <2>8. TakenIsBehind' /\ NoCollisions'
    BY <2>1, <2>4, Facts DEF TakenIsBehind, NoCollisions, SettingJob
  <2> QED BY <2>4, <2>5, <2>6, <2>7, <2>8 DEF IInv
<1> QED BY <1>2, <1>3, <1>4, <1>5, <1>6, <1>7 DEF WorkerStep

--------------------------------------------------------------------------------
LEMMA StepKeepsInv ==
  ASSUME IInv, [Next]_vars
  PROVE  IInv'
<1>1. CASE UNCHANGED vars
  <2>1. UNCHANGED <<over, link, seeds, events, place, current, dataset, job, epoch, dispatch,
                    running, paused, at, vm, mine, batch, shares, hashed, again>>
    BY <1>1 DEF vars, pool, shared, worker, history
  <2> QED BY <2>1 DEF IInv, TypeOK, JobsInOrder, Handled, DatasetFits, CopiesAreWhole, TakenIsBehind,
                      SettingJob, CurrentSharesAreValid, NoCollisions
<1>2. CASE Next
  <2>1. ASSUME NEW seed \in Seeds, PoolSends(seed) PROVE IInv'
    BY <2>1, PoolSendsKeepsInv
  <2>2. ASSUME NEW w \in Workers, WorkerStep(w) PROVE IInv'
    BY <2>2, WorkerKeepsInv
  <2> QED BY <1>2, <2>1, <2>2, LoopKeepsInv, QuietSteps DEF Next
<1> QED BY <1>1, <1>2

(* The inductive invariant of the CPU miner (rxengine/engine.rs and        *)
(* session.rs): the types of its state, the order of the jobs, and where   *)
(* the dataset is that of the job the session loop handles.                *)
THEOREM RandomXInvariant == Spec => []IInv
BY InitIsInductive, StepKeepsInv, PTL DEF Spec

(* A share for the job that the session loop handled last was hashed with  *)
(* the dataset of its seed, for any number of workers, jobs and seeds.     *)
THEOREM SharesAreValid == Spec => []CurrentSharesAreValid
<1>1. IInv => CurrentSharesAreValid
  BY DEF IInv
<1> QED BY <1>1, RandomXInvariant, PTL

(* The dispenser gives no batch of a job that is settled twice             *)
(* (engine.rs:233), for any number of workers and batches.                 *)
THEOREM BatchesAreDistinct == Spec => []NoCollisions
<1>1. IInv => NoCollisions
  BY DEF IInv
<1> QED BY <1>1, RandomXInvariant, PTL
================================================================================
