------------------------------ MODULE PoolProofs -------------------------------
(***************************************************************************)
(* Proofs about the pool client, for any number of sessions, jobs, ids and *)
(* AI requests and any slice of the development fund: IInv holds in every  *)
(* state, so every answer finds its share, every result goes with its job, *)
(* and the client does not reconnect without having mined.                 *)
(***************************************************************************)
EXTENDS Pool, FiniteSetTheorems, TLAPS

USE BoundsAssumption, SliceAssumption, CacheAssumption, NoneAssumption

--------------------------------------------------------------------------------
(* Partial functions. *)

LEMMA WithTyped ==
  ASSUME NEW f, NEW D, NEW R, IsPartial(f, D, R), NEW x \in D, NEW v \in R
  PROVE  /\ IsPartial(With(f, x, v), D, R)
         /\ DOMAIN With(f, x, v) = DOMAIN f \cup {x}
         /\ With(f, x, v)[x] = v
         /\ \A y \in DOMAIN f : y # x => With(f, x, v)[y] = f[y]
BY DEF IsPartial, With

LEMMA WithoutTyped ==
  ASSUME NEW f, NEW D, NEW R, IsPartial(f, D, R), NEW x
  PROVE  /\ IsPartial(Without(f, x), D, R)
         /\ DOMAIN Without(f, x) = DOMAIN f \ {x}
         /\ \A y \in DOMAIN f : y # x => Without(f, x)[y] = f[y]
BY DEF IsPartial, Without

(* Nothing is pending, asked or notified.                                  *)
LEMMA EmptyTyped ==
  ASSUME NEW D, NEW R
  PROVE  IsPartial(<<>>, D, R) /\ DOMAIN <<>> = {}
BY DEF IsPartial

LEMMA InitIsInductive == Init => IInv
<1> SUFFICES ASSUME Init PROVE IInv
  OBVIOUS
<1> USE DEF Init
<1>1. DOMAIN pending = {} /\ DOMAIN asked = {} /\ DOMAIN jobs = {}
  BY EmptyTyped
<1>2. TypeOK
  <2>1. /\ IsPartial(pending, Ids, [session : 1 .. MaxSession, job : Jobs])
        /\ IsPartial(asked, Ids, [job : Optional(Jobs), cid : Optional(Requests)])
        /\ IsPartial(jobs, Jobs, Optional(Requests))
    BY EmptyTyped
  <2>2. /\ session \in 0 .. MaxSession /\ ctr \in 0 .. Period - 1
        /\ began \in 0 .. MaxJob /\ lastId \in Nat
    OBVIOUS
  <2> QED BY <2>1, <2>2, <1>1 DEF TypeOK, Optional, SubmitPlaces
<1>3. ShareIsPending /\ AnswersFindTheirShare /\ CidIsOfItsJob /\ NoReconnectStorm
  BY <1>1 DEF ShareIsPending, AnswersFindTheirShare, CidIsOfItsJob, NoReconnectStorm
<1>4. IdsAreFresh /\ NothingIsLeft /\ JobsAreKnown
  BY <1>1 DEF IdsAreFresh, NothingIsLeft, JobsAreKnown
<1>5. JobsInOrder
  BY <1>1, FS_EmptySet DEF JobsInOrder
<1> QED BY <1>2, <1>3, <1>4, <1>5 DEF IInv

--------------------------------------------------------------------------------
(* Sessions. *)

(* Between them, TypeOK and JobsInOrder bound the number of jobs.          *)
LEMMA JobsAreCounted ==
  ASSUME TypeOK, JobsInOrder
  PROVE  Cardinality(DOMAIN jobs) \in 0 .. MaxJob
<1>1. DOMAIN jobs \subseteq 1 .. MaxJob
  BY DEF TypeOK, IsPartial, Jobs
<1>2. IsFiniteSet(1 .. MaxJob) /\ Cardinality(1 .. MaxJob) = MaxJob
  BY FS_Interval
<1>3. IsFiniteSet(DOMAIN jobs) /\ Cardinality(DOMAIN jobs) <= MaxJob
  BY <1>1, <1>2, FS_Subset
<1> QED BY <1>3, FS_CardinalityType

LEMMA ConnectKeepsInv == IInv /\ Connect => IInv'
<1> SUFFICES ASSUME IInv, Connect PROVE IInv'
  OBVIOUS
<1> USE DEF Connect, Connected, IInv, tasks
<1>1. /\ IsPartial(asked', Ids, [job : Optional(Jobs), cid : Optional(Requests)])
      /\ DOMAIN asked' = {1} /\ asked'[1] = Authorize
  BY DEF IsPartial, Authorize, Optional, Ids
<1>2. TypeOK'
  BY <1>1, JobsAreCounted DEF TypeOK, SubmitPlaces, FundsTurn
<1>3. AnswersFindTheirShare' /\ CidIsOfItsJob'
  BY <1>1 DEF AnswersFindTheirShare, CidIsOfItsJob, Authorize
<1>4. ShareIsPending' /\ IdsAreFresh' /\ NothingIsLeft'
  BY <1>1 DEF ShareIsPending, IdsAreFresh, NothingIsLeft, TypeOK
<1>5. JobsInOrder'
  BY JobsAreCounted DEF JobsInOrder
<1>6. JobsAreKnown'
  BY <1>1 DEF JobsAreKnown
<1>7. NoReconnectStorm'
  BY DEF NoReconnectStorm, SliceOver, FundsTurn
<1> QED BY <1>2, <1>3, <1>4, <1>5, <1>6, <1>7

(* However a session ends, and whatever was pending.                       *)
LEMMA EndKeepsInv ==
  ASSUME IInv, NEW how \in {"down", "crashed"}, End(how),
         IsPartial(pending', Ids, [session : 1 .. MaxSession, job : Jobs]),
         accepted' \in BOOLEAN
  PROVE  IInv'
<1> USE DEF End, IInv
<1>1. /\ IsPartial(asked', Ids, [job : Optional(Jobs), cid : Optional(Requests)])
      /\ DOMAIN asked' = {}
  BY EmptyTyped
<1>2. TypeOK'
  BY <1>1 DEF TypeOK, SubmitPlaces, Optional
<1>3. AnswersFindTheirShare' /\ CidIsOfItsJob' /\ NoReconnectStorm'
  BY <1>1 DEF AnswersFindTheirShare, CidIsOfItsJob, NoReconnectStorm
<1>4. ShareIsPending' /\ IdsAreFresh' /\ NothingIsLeft'
  BY <1>1 DEF ShareIsPending, IdsAreFresh, NothingIsLeft
<1>5. JobsInOrder'
  BY DEF JobsInOrder
<1>6. JobsAreKnown'
  BY <1>1 DEF JobsAreKnown
<1> QED BY <1>2, <1>3, <1>4, <1>5, <1>6

LEMMA SessionsEndWithInv ==
  IInv /\ (EndOfSlice \/ Disconnect \/ SubmitTaskEnds) => IInv'
<1> SUFFICES ASSUME IInv, EndOfSlice \/ Disconnect \/ SubmitTaskEnds PROVE IInv'
  OBVIOUS
<1>1. End("down") /\ UNCHANGED <<pending, accepted>>
  BY DEF EndOfSlice, Disconnect, SubmitTaskEnds, Leave
<1> QED BY <1>1, EndKeepsInv DEF IInv, TypeOK

--------------------------------------------------------------------------------
(* Jobs and AI tasks. *)

(* A job is new, and counted: what was notified before stays as it was.    *)
LEMMA NewJobIsCounted ==
  ASSUME IInv, NEW j, NEW request \in Optional(Requests), NewJob(j, request)
  PROVE  /\ j \in Jobs /\ j \notin DOMAIN jobs
         /\ IsPartial(jobs', Jobs, Optional(Requests))
         /\ DOMAIN jobs' = DOMAIN jobs \cup {j} /\ jobs'[j] = request
         /\ \A i \in DOMAIN jobs : jobs'[i] = jobs[i]
         /\ Cardinality(DOMAIN jobs') > began
         /\ JobsInOrder'
<1> DEFINE n == Cardinality(DOMAIN jobs)
<1>1. n \in 0 .. MaxJob
  BY JobsAreCounted DEF IInv
<1>2. j = n + 1 /\ j \in Jobs /\ DOMAIN jobs = 1 .. n /\ began <= n
  BY DEF NewJob, IInv, JobsInOrder
<1>3. j \notin DOMAIN jobs
  BY <1>1, <1>2
<1>4. /\ IsPartial(jobs', Jobs, Optional(Requests))
      /\ DOMAIN jobs' = DOMAIN jobs \cup {j} /\ jobs'[j] = request
      /\ \A i \in DOMAIN jobs : jobs'[i] = jobs[i]
  <2>1. jobs' = With(jobs, j, request)
    BY DEF NewJob
  <2>2. IsPartial(jobs, Jobs, Optional(Requests))
    BY DEF IInv, TypeOK
  <2>3. IsPartial(With(jobs, j, request), Jobs, Optional(Requests))
    BY <1>2, <2>2, WithTyped
  <2>4. /\ DOMAIN With(jobs, j, request) = DOMAIN jobs \cup {j}
        /\ With(jobs, j, request)[j] = request
        /\ \A i \in DOMAIN jobs : With(jobs, j, request)[i] = jobs[i]
    BY <1>3 DEF With
  <2> QED BY <2>1, <2>3, <2>4
<1>5. DOMAIN jobs' = 1 .. n + 1
  BY <1>1, <1>2, <1>4
<1>6. Cardinality(DOMAIN jobs') = n + 1
  BY <1>1, <1>5, FS_Interval
<1>7. began' = began /\ began \in Nat
  BY DEF NewJob, IInv, TypeOK
<1>8. JobsInOrder' /\ Cardinality(DOMAIN jobs') > began
  <2> HIDE DEF n
  <2> QED BY <1>1, <1>2, <1>5, <1>6, <1>7 DEF JobsInOrder
<1> QED
  BY <1>2, <1>3, <1>4, <1>8

LEMMA NotificationKeepsInv ==
  ASSUME IInv, NEW j, NEW request \in Optional(Requests), NewJob(j, request),
         \/ slot' = slot \/ slot' = None
         \/ request \in Requests /\ slot' = [job |-> j, request |-> request],
         running' \in Optional(Requests \cup {Challenge}), results' = results,
         offered' = offered \/ offered' = offered \cup {j}
  PROVE  IInv'
<1>1. /\ j \in Jobs /\ j \notin DOMAIN jobs
      /\ IsPartial(jobs', Jobs, Optional(Requests))
      /\ DOMAIN jobs' = DOMAIN jobs \cup {j} /\ jobs'[j] = request
      /\ \A i \in DOMAIN jobs : jobs'[i] = jobs[i]
      /\ Cardinality(DOMAIN jobs') > began
      /\ JobsInOrder'
  BY NewJobIsCounted
<1>2. /\ ctr' = (ctr + 1) % Period
      /\ UNCHANGED <<session, phase, pending, accepted, reader, submitter, asked, began>>
  BY DEF NewJob
<1> USE DEF IInv, reader, submitter
<1>3. TypeOK'
  <2>1. slot' \in Optional(Tasks)
    BY <1>1 DEF TypeOK, Optional, Tasks
  <2>2. ctr' \in 0 .. Period - 1
    BY <1>2 DEF TypeOK
  <2>3. offered' \subseteq DOMAIN jobs'
    BY <1>1 DEF TypeOK
  <2> QED BY <1>1, <1>2, <2>1, <2>2, <2>3 DEF TypeOK
<1>4. AnswersFindTheirShare' /\ ShareIsPending' /\ IdsAreFresh' /\ NothingIsLeft'
  BY <1>2 DEF AnswersFindTheirShare, ShareIsPending, IdsAreFresh, NothingIsLeft
<1>5. JobsAreKnown'
  <2>1. slot' # None => slot'.job \in DOMAIN jobs' /\ slot'.request = jobs'[slot'.job]
    BY <1>1 DEF JobsAreKnown
  <2>2. share' # None =>
          share'.job \in DOMAIN jobs' /\ share'.cid \in {None, jobs'[share'.job]}
    BY <1>1, <1>2 DEF JobsAreKnown
  <2> QED BY <1>1, <1>2, <2>1, <2>2 DEF JobsAreKnown
<1>6. CidIsOfItsJob'
  BY <1>1, <1>2 DEF CidIsOfItsJob, JobsAreKnown, Authorize
<1>7. NoReconnectStorm'
  BY <1>1, <1>2 DEF NoReconnectStorm
<1> QED BY <1>1, <1>3, <1>4, <1>5, <1>6, <1>7

LEMMA NotifyKeepsInv ==
  ASSUME IInv, NEW j, Notify(j)
  PROVE  IInv'
<1> USE DEF IInv, TypeOK, tasks, Offer, Optional
<1>1. CASE \E r \in Optional(Requests) : NotifySuspended(j, r)
  BY <1>1, NotificationKeepsInv DEF NotifySuspended
<1>2. CASE NotifyPlain(j)
  BY <1>2, NotificationKeepsInv DEF NotifyPlain
<1>3. ASSUME NEW r \in Requests, NotifyTask(j, r) PROVE IInv'
  BY <1>3, NotificationKeepsInv DEF NotifyTask
<1>4. ASSUME NEW r \in Requests, NotifyTaskAndInfer(j, r) PROVE IInv'
  BY <1>4, NotificationKeepsInv DEF NotifyTaskAndInfer
<1> QED BY <1>1, <1>2, <1>3, <1>4 DEF Notify

LEMMA InferencesKeepInv ==
  ASSUME IInv, HandleChallenge \/ \E ok \in BOOLEAN : InferenceEnds(ok)
  PROVE  IInv'
<1>1. /\ UNCHANGED <<process, reader, slot, submitter, asked, history>>
      /\ running' \in Optional(Requests \cup {Challenge}) /\ results' \subseteq Requests
  BY DEF HandleChallenge, InferenceEnds, IInv, TypeOK, Optional
<1> USE <1>1 DEF IInv, process, reader, submitter, history
<1>2. TypeOK'
  BY DEF TypeOK
<1>3. AnswersFindTheirShare' /\ ShareIsPending' /\ IdsAreFresh' /\ NothingIsLeft'
  BY DEF AnswersFindTheirShare, ShareIsPending, IdsAreFresh, NothingIsLeft
<1>4. JobsInOrder' /\ JobsAreKnown' /\ CidIsOfItsJob' /\ NoReconnectStorm'
  BY DEF JobsInOrder, JobsAreKnown, CidIsOfItsJob, NoReconnectStorm, SliceOver, FundsTurn
<1> QED BY <1>2, <1>3, <1>4

--------------------------------------------------------------------------------
(* The submit task. *)

(* What does not change while it works.                                    *)
LEMMA SubmitTaskKeepsJobs ==
  ASSUME JobsInOrder, NoReconnectStorm,
         UNCHANGED <<phase, ctr, dev, history>>
  PROVE  JobsInOrder' /\ NoReconnectStorm'
BY DEF JobsInOrder, NoReconnectStorm, SliceOver, FundsTurn, history

LEMMA FindKeepsInv ==
  ASSUME IInv, NEW j \in offered, Find(j)
  PROVE  IInv'
<1> USE DEF Find, IInv, process, reader, tasks, history
<1>1. j \in DOMAIN jobs /\ DOMAIN jobs \subseteq Jobs
  BY DEF TypeOK, IsPartial
<1>2. TypeOK'
  BY <1>1 DEF TypeOK, Optional
<1>3. AnswersFindTheirShare' /\ ShareIsPending' /\ IdsAreFresh' /\ NothingIsLeft'
  BY DEF AnswersFindTheirShare, ShareIsPending, IdsAreFresh, NothingIsLeft
<1>4. JobsAreKnown' /\ CidIsOfItsJob'
  BY <1>1 DEF JobsAreKnown, CidIsOfItsJob
<1> QED BY <1>2, <1>3, <1>4, SubmitTaskKeepsJobs

LEMMA TakeShareKeepsInv == IInv /\ TakeShare => IInv'
<1> SUFFICES ASSUME IInv, TakeShare PROVE IInv'
  OBVIOUS
<1> USE DEF TakeShare, IInv, process, reader, tasks, history
<1>1. /\ share' = [id |-> lastId, job |-> found, cid |-> None]
      /\ lastId \in Ids /\ found \in Jobs /\ found \in DOMAIN jobs
  BY DEF TypeOK, Optional, Ids, IdsAreFresh, JobsAreKnown
<1>2. share' \in Shares /\ share' # None
  BY <1>1, RecordsAssumption DEF Shares, Optional
<1>3. TypeOK'
  BY <1>2 DEF TypeOK, Optional, SubmitPlaces
<1>4. AnswersFindTheirShare' /\ ShareIsPending' /\ NothingIsLeft'
  BY <1>2 DEF AnswersFindTheirShare, ShareIsPending, NothingIsLeft
<1>5. IdsAreFresh'
  BY <1>1 DEF IdsAreFresh, TypeOK, IsPartial, Ids, Optional, Replies
<1>6. JobsAreKnown' /\ CidIsOfItsJob'
  BY <1>1 DEF JobsAreKnown, CidIsOfItsJob
<1> QED BY <1>3, <1>4, <1>5, <1>6, SubmitTaskKeepsJobs

LEMMA LockPendingKeepsInv == IInv /\ LockPending => IInv'
<1> SUFFICES ASSUME IInv, LockPending PROVE IInv'
  OBVIOUS
<1> USE DEF LockPending, IInv, process, reader, tasks, history
<1>1. TypeOK'
  BY DEF TypeOK, SubmitPlaces
<1>2. AnswersFindTheirShare' /\ ShareIsPending' /\ IdsAreFresh' /\ NothingIsLeft'
  BY DEF AnswersFindTheirShare, ShareIsPending, IdsAreFresh, NothingIsLeft
<1>3. JobsAreKnown' /\ CidIsOfItsJob'
  BY DEF JobsAreKnown, CidIsOfItsJob
<1> QED BY <1>1, <1>2, <1>3, SubmitTaskKeepsJobs

(* The entry that an earlier session may have left is overwritten, and no  *)
(* share asked about loses its own: the id is fresh.                       *)
LEMMA InsertPendingKeepsInv == IInv /\ InsertPending => IInv'
<1> SUFFICES ASSUME IInv, InsertPending PROVE IInv'
  OBVIOUS
<1> DEFINE entry == [session |-> session, job |-> share.job]
<1> USE DEF InsertPending, IInv, reader, tasks, history
<1>1. share \in Shares /\ share # None /\ session \in 1 .. MaxSession
  <2>1. share \in Shares /\ share # None
    BY DEF ShareIsPending, TypeOK, Optional
  <2>2. session # 0
    BY DEF NothingIsLeft, TypeOK
  <2> QED BY <2>1, <2>2 DEF TypeOK
<1>2. share.id \in Ids /\ entry \in [session : 1 .. MaxSession, job : Jobs]
  BY <1>1 DEF Shares
<1>3. /\ IsPartial(pending', Ids, [session : 1 .. MaxSession, job : Jobs])
      /\ share.id \in DOMAIN pending' /\ pending'[share.id] = entry
      /\ \A id \in DOMAIN pending :
           id # share.id => id \in DOMAIN pending' /\ pending'[id] = pending[id]
  <2> DEFINE with == With(pending, share.id, entry)
  <2>1. pending' = with
    OBVIOUS
  <2>2. IsPartial(with, Ids, [session : 1 .. MaxSession, job : Jobs])
    BY <1>2, WithTyped DEF TypeOK
  <2>3. /\ DOMAIN with = DOMAIN pending \cup {share.id}
        /\ with[share.id] = entry
        /\ \A id \in DOMAIN pending : id # share.id => with[id] = pending[id]
    BY DEF With
  <2> QED BY <2>1, <2>2, <2>3
<1>4. TypeOK'
  BY <1>3 DEF TypeOK, SubmitPlaces
<1>5. AnswersFindTheirShare'
  BY <1>1, <1>3 DEF AnswersFindTheirShare, IdsAreFresh
<1>6. ShareIsPending' /\ IdsAreFresh' /\ NothingIsLeft'
  BY <1>1, <1>3 DEF ShareIsPending, IdsAreFresh, NothingIsLeft
<1>7. JobsAreKnown' /\ CidIsOfItsJob'
  BY DEF JobsAreKnown, CidIsOfItsJob
<1> QED BY <1>4, <1>5, <1>6, <1>7, SubmitTaskKeepsJobs

LEMMA LookUpKeepsInv == IInv /\ LookUp => IInv'
<1> SUFFICES ASSUME IInv, LookUp PROVE IInv'
  OBVIOUS
<1> USE DEF LookUp, IInv, process, reader, tasks, history
<1>1. share \in Shares /\ share # None
  BY DEF ShareIsPending, TypeOK, Optional
<1>2. PICK cid \in Optional(Requests) :
        /\ share' = [share EXCEPT !.cid = cid]
        /\ cid \in {None, jobs[share.job]}
  BY DEF TypeOK, Optional, Tasks, JobsAreKnown
<1>3. share' \in Shares /\ share' # None /\ share'.id = share.id /\ share'.job = share.job
      /\ share'.cid = cid
  BY <1>1, <1>2, RecordsAssumption DEF Shares
<1>4. TypeOK'
  BY <1>3 DEF TypeOK, Optional, SubmitPlaces
<1>5. AnswersFindTheirShare' /\ ShareIsPending' /\ IdsAreFresh' /\ NothingIsLeft'
  BY <1>1, <1>3 DEF AnswersFindTheirShare, ShareIsPending, IdsAreFresh, NothingIsLeft
<1>6. JobsAreKnown' /\ CidIsOfItsJob'
  BY <1>1, <1>2, <1>3 DEF JobsAreKnown, CidIsOfItsJob
<1> QED BY <1>4, <1>5, <1>6, SubmitTaskKeepsJobs

LEMMA SendShareKeepsInv == IInv /\ SendShare => IInv'
<1> SUFFICES ASSUME IInv, SendShare PROVE IInv'
  OBVIOUS
<1> DEFINE question == [job |-> share.job, cid |-> share.cid]
<1> USE DEF SendShare, IInv, process, reader, tasks, history
<1>1. share \in Shares /\ share # None
  BY DEF ShareIsPending, TypeOK, Optional
<1>2. /\ share.id \in Ids
      /\ question \in [job : Optional(Jobs), cid : Optional(Requests)]
  BY <1>1 DEF Shares, Optional
<1>3. /\ IsPartial(asked', Ids, [job : Optional(Jobs), cid : Optional(Requests)])
      /\ DOMAIN asked' = DOMAIN asked \cup {share.id}
      /\ asked'[share.id] = question
      /\ \A id \in DOMAIN asked : id # share.id => asked'[id] = asked[id]
  <2> DEFINE with == With(asked, share.id, question)
  <2>1. asked' = with
    OBVIOUS
  <2>2. IsPartial(with, Ids, [job : Optional(Jobs), cid : Optional(Requests)])
    BY <1>2, WithTyped DEF TypeOK
  <2>3. /\ DOMAIN with = DOMAIN asked \cup {share.id}
        /\ with[share.id] = question
        /\ \A id \in DOMAIN asked : id # share.id => with[id] = asked[id]
    BY DEF With
  <2> QED BY <2>1, <2>2, <2>3
<1>4. TypeOK'
  BY <1>3 DEF TypeOK, SubmitPlaces, Optional
<1>5. AnswersFindTheirShare'
  BY <1>1, <1>3 DEF AnswersFindTheirShare, ShareIsPending
<1>6. ShareIsPending' /\ NothingIsLeft'
  BY DEF ShareIsPending, NothingIsLeft
<1>7. IdsAreFresh'
  BY <1>1, <1>3 DEF IdsAreFresh
<1>8. JobsAreKnown' /\ CidIsOfItsJob'
  BY <1>1, <1>3 DEF JobsAreKnown, CidIsOfItsJob
<1> QED BY <1>4, <1>5, <1>6, <1>7, <1>8, SubmitTaskKeepsJobs

LEMMA SendFailsKeepsInv == IInv /\ SendFails => IInv'
<1> SUFFICES ASSUME IInv, SendFails PROVE IInv'
  OBVIOUS
<1> USE DEF SendFails, IInv, process, reader, tasks, history
<1>1. TypeOK'
  BY DEF TypeOK, SubmitPlaces
<1>2. AnswersFindTheirShare' /\ ShareIsPending' /\ IdsAreFresh' /\ NothingIsLeft'
  BY DEF AnswersFindTheirShare, ShareIsPending, IdsAreFresh, NothingIsLeft
<1>3. JobsAreKnown' /\ CidIsOfItsJob'
  BY DEF JobsAreKnown, CidIsOfItsJob
<1> QED BY <1>1, <1>2, <1>3, SubmitTaskKeepsJobs

--------------------------------------------------------------------------------
(* Replies. *)

(* What is removed from asked and pending is found no more, and the rest   *)
(* stays.                                                                  *)
LEMMA ReplyKeepsInv ==
  ASSUME IInv, NEW id \in DOMAIN asked, NEW verdict \in Verdicts, Reply(id, verdict)
  PROVE  IInv'
<1>1. CASE at = "inserting"
  <2>1. Crash
    BY <1>1 DEF Reply
  <2> QED BY <2>1, EndKeepsInv DEF Crash, IInv, TypeOK
<1>2. CASE at # "inserting"
  <2> USE DEF IInv, submitter, tasks, history
  <2>1. /\ asked' = Without(asked, id) /\ replied' = [id |-> id, verdict |-> verdict]
        /\ UNCHANGED <<process, dev, tasks, submitter, history>>
        /\ phase = "listening" /\ replied = None
    BY <1>2 DEF Reply, Reading
  <2>2. /\ IsPartial(asked', Ids, [job : Optional(Jobs), cid : Optional(Requests)])
        /\ DOMAIN asked' = DOMAIN asked \ {id}
        /\ \A i \in DOMAIN asked : i # id => asked'[i] = asked[i]
    <3>1. IsPartial(Without(asked, id), Ids, [job : Optional(Jobs), cid : Optional(Requests)])
      BY WithoutTyped DEF TypeOK
    <3>2. /\ DOMAIN Without(asked, id) = DOMAIN asked \ {id}
          /\ \A i \in DOMAIN asked : i # id => Without(asked, id)[i] = asked[i]
      BY DEF Without
    <3> QED BY <2>1, <3>1, <3>2
  <2>3. replied' \in Replies /\ replied'.id = id
    BY <2>1 DEF Replies, TypeOK, IsPartial
  <2>4. TypeOK'
    BY <2>1, <2>2, <2>3 DEF TypeOK, process, Optional
  <2>5. AnswersFindTheirShare'
    BY <2>1, <2>2 DEF AnswersFindTheirShare, process
  <2>6. ShareIsPending' /\ NothingIsLeft'
    BY <2>1 DEF ShareIsPending, NothingIsLeft, process
  <2>7. IdsAreFresh'
    BY <2>1, <2>2, <2>3 DEF IdsAreFresh
  <2>8. JobsAreKnown' /\ CidIsOfItsJob'
    BY <2>1, <2>2 DEF JobsAreKnown, CidIsOfItsJob
  <2> QED BY <2>1, <2>4, <2>5, <2>6, <2>7, <2>8, SubmitTaskKeepsJobs DEF process
<1> QED BY <1>1, <1>2

(* An entry of pending is removed: it is of no share that is still asked   *)
(* about or on its way.                                                    *)
LEMMA SettleKeepsInv == IInv /\ Settle => IInv'
<1> SUFFICES ASSUME IInv, Settle PROVE IInv'
  OBVIOUS
<1>1. replied # None /\ pending' = Without(pending, replied.id)
  BY DEF Settle
<1>2. /\ IsPartial(pending', Ids, [session : 1 .. MaxSession, job : Jobs])
      /\ DOMAIN pending' = DOMAIN pending \ {replied.id}
      /\ \A i \in DOMAIN pending : i # replied.id => pending'[i] = pending[i]
  <2>1. IsPartial(Without(pending, replied.id), Ids, [session : 1 .. MaxSession, job : Jobs])
    BY WithoutTyped DEF IInv, TypeOK
  <2>2. /\ DOMAIN Without(pending, replied.id) = DOMAIN pending \ {replied.id}
        /\ \A i \in DOMAIN pending :
             i # replied.id => Without(pending, replied.id)[i] = pending[i]
    BY DEF Without
  <2> QED BY <1>1, <2>1, <2>2
<1>3. CASE Leave /\ UNCHANGED accepted
  BY <1>2, <1>3, EndKeepsInv DEF Leave, IInv, TypeOK
<1>4. CASE /\ replied' = None /\ accepted' \in BOOLEAN
           /\ UNCHANGED <<session, phase, ctr, dev, tasks, submitter, asked, history>>
  <2> USE <1>4 DEF IInv, submitter, tasks, history
  <2>1. TypeOK'
    BY <1>2 DEF TypeOK, Optional
  <2>2. AnswersFindTheirShare'
    BY <1>1, <1>2 DEF AnswersFindTheirShare, IdsAreFresh
  <2>3. ShareIsPending' /\ NothingIsLeft' /\ IdsAreFresh'
    BY <1>1, <1>2 DEF ShareIsPending, NothingIsLeft, IdsAreFresh
  <2>4. JobsAreKnown' /\ CidIsOfItsJob'
    BY DEF JobsAreKnown, CidIsOfItsJob
  <2> QED BY <2>1, <2>2, <2>3, <2>4, SubmitTaskKeepsJobs
<1> QED BY <1>3, <1>4 DEF Settle, IInv, TypeOK

LEMMA SettleUnknownKeepsInv == IInv /\ SettleUnknown => IInv'
<1> SUFFICES ASSUME IInv, SettleUnknown PROVE IInv'
  OBVIOUS
<1>1. CASE Crash
  BY <1>1, EndKeepsInv DEF Crash, IInv, TypeOK
<1>2. CASE replied' = None /\ UNCHANGED <<process, dev, tasks, submitter, asked, history>>
  <2> USE <1>2 DEF IInv, process, submitter, tasks, history
  <2>1. TypeOK'
    BY DEF TypeOK, Optional
  <2>2. AnswersFindTheirShare' /\ ShareIsPending' /\ NothingIsLeft' /\ IdsAreFresh'
    BY DEF AnswersFindTheirShare, ShareIsPending, NothingIsLeft, IdsAreFresh
  <2>3. JobsAreKnown' /\ CidIsOfItsJob'
    BY DEF JobsAreKnown, CidIsOfItsJob
  <2> QED BY <2>1, <2>2, <2>3, SubmitTaskKeepsJobs
<1> QED BY <1>1, <1>2 DEF SettleUnknown

--------------------------------------------------------------------------------
(* The theorems. *)

LEMMA StepKeepsInv == IInv /\ [Next]_vars => IInv'
<1> SUFFICES ASSUME IInv, [Next]_vars PROVE IInv'
  OBVIOUS
<1>1. CASE UNCHANGED vars
  BY <1>1 DEF IInv, TypeOK, ShareIsPending, IdsAreFresh, NothingIsLeft, JobsInOrder,
    JobsAreKnown, AnswersFindTheirShare, CidIsOfItsJob, NoReconnectStorm, SliceOver,
    FundsTurn, vars, process, reader, tasks, submitter, history
<1>2. CASE ReaderStep
  BY <1>2, SessionsEndWithInv, NotifyKeepsInv, InferencesKeepInv, ReplyKeepsInv,
    SettleKeepsInv, SettleUnknownKeepsInv DEF ReaderStep
<1>3. CASE SubmitStep
  BY <1>3, TakeShareKeepsInv, LockPendingKeepsInv, InsertPendingKeepsInv, LookUpKeepsInv,
    SendShareKeepsInv, SendFailsKeepsInv DEF SubmitStep
<1>4. CASE Connect \/ (\E j \in offered : Find(j)) \/ \E ok \in BOOLEAN : InferenceEnds(ok)
  BY <1>4, ConnectKeepsInv, FindKeepsInv, InferencesKeepInv
<1> QED BY <1>1, <1>2, <1>3, <1>4 DEF Next

(* The inductive invariant holds in every state.                           *)
THEOREM PoolInvariant == Spec => []IInv
<1>1. Init => IInv
  BY InitIsInductive
<1>2. IInv /\ [Next]_vars => IInv'
  BY StepKeepsInv
<1> QED BY <1>1, <1>2, PTL DEF Spec

(* Every share that the pool may still answer is pending under its id      *)
(* (stratum.rs:393, 674), whatever earlier sessions left behind.           *)
THEOREM SharesAreFound == Spec => []AnswersFindTheirShare
<1>1. IInv => AnswersFindTheirShare
  BY DEF IInv
<1> QED BY <1>1, PoolInvariant, PTL

(* A share carries the result of its own job's request (stratum.rs:401).   *)
THEOREM ResultsGoWithTheirJob == Spec => []CidIsOfItsJob
<1>1. IInv => CidIsOfItsJob
  BY DEF IInv
<1> QED BY <1>1, PoolInvariant, PTL

(* The slices of the development fund end sessions after a job only        *)
(* (stratum.rs:247), for every period and percentage.                      *)
THEOREM SlicesEndAfterAJob == Spec => []NoReconnectStorm
<1>1. IInv => NoReconnectStorm
  BY DEF IInv
<1> QED BY <1>1, PoolInvariant, PTL
================================================================================
