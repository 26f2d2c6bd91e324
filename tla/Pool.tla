---------------------------------- MODULE Pool ----------------------------------
(***************************************************************************)
(* The pool client (client/stratum.rs): its sessions, the shares they      *)
(* submit and the replies to them, the AI tasks that come with jobs, and   *)
(* the time slices of the development fund.                                *)
(*                                                                         *)
(* Two actors share the state of a session: the reader (`listen' and the   *)
(* message handlers) and the submit task (`create_block_channel').  They   *)
(* run on different threads and both take the mutex of `shares_pending'    *)
(* with try_lock().unwrap(), so each of these sections has a step at which *)
(* it takes the lock and one at which it gives it back.  An inference is   *)
(* a third actor, of which only start and end matter here (Devices has the *)
(* rest).  The mining threads (Mining) find nonces for any job they were   *)
(* offered in the session.  The pool answers a share once, at any time     *)
(* and in any order; lines to it are not lost while the connection lasts.  *)
(***************************************************************************)
EXTENDS Integers, FiniteSets

CONSTANTS
  Requests,    \* AI requests, named by their stable_id
  MaxJob,      \* bound: jobs notified
  MaxId,       \* bound: stratum ids of one session
  MaxSession,  \* bound: sessions
  Period,      \* templates of one cycle of the development fund, 10_000
  DevPercent,  \* templates of the cycle that are the fund's; 0 when off
  CacheMax,    \* MAX_INFERENCE_CACHE_SIZE
  None, Challenge

ASSUME BoundsAssumption == MaxJob \in Nat /\ MaxId \in Nat \ {0} /\ MaxSession \in Nat
ASSUME SliceAssumption == Period \in Nat \ {0} /\ DevPercent \in Nat
ASSUME CacheAssumption == CacheMax \in Nat \ {0}
ASSUME NoneAssumption == None \notin Requests /\ Challenge \notin Requests \cup {None}

VARIABLES
  \* of the process
  session,   \* how many connections were registered
  phase,     \* "down", "listening" or "crashed"
  ctr,       \* block_template_ctr
  pending,   \* shares_pending: id -> [session, job]
  accepted,  \* whether ShareStats.accepted is above 0
  \* of the session's reader
  dev,       \* mining_dev
  replied,   \* the reply whose entry the reader is removing, or None
  slot,      \* current_task_slot: [job, request] or None
  results,   \* inference_cache.results
  running,   \* what the inference in flight is for: challenge_in_flight and
             \* inference_cache.in_progress
  \* of the session's submit task
  lastId,    \* last_stratum_id
  found,     \* the job of the share in the block channel, or None
  at,        \* where the submit task is
  share,     \* the share it submits: [id, job, cid]
  \* of the pool, and history
  asked,     \* what the pool has not answered: id -> [job, cid]; the request
             \* to authorize has no job
  jobs,      \* jobs notified so far: job -> its request or None
  began,     \* how many of them were notified before this session
  offered    \* jobs that this session offered to the miners

process == <<session, phase, ctr, pending, accepted>>
reader == <<dev, replied>>
tasks == <<slot, results, running>>
submitter == <<lastId, found, at, share>>
history == <<jobs, began, offered>>
vars == <<process, reader, tasks, submitter, asked, history>>

Ids == 0 .. MaxId
Jobs == 1 .. MaxJob
Optional(S) == S \cup {None}
Tasks == [job : Jobs, request : Requests]
Shares == [id : Ids, job : Jobs, cid : Optional(Requests)]
IsPartial(f, D, R) == DOMAIN f \subseteq D /\ f \in [DOMAIN f -> R]
Without(f, x) == [y \in DOMAIN f \ {x} |-> f[y]]
With(f, x, v) == [y \in DOMAIN f \cup {x} |-> IF y = x THEN v ELSE f[y]]

Verdicts ==
  {"accepted", "refused", "stale", "duplicate", "low", "unauthorized", "unsubscribed"}
Replies == [id : Ids, verdict : Verdicts]
SubmitPlaces == {"idle", "numbered", "inserting", "looking", "sending", "ended"}

ASSUME RecordsAssumption == None \notin Jobs \cup Tasks \cup Shares \cup Replies

TypeOK ==
  /\ session \in 0 .. MaxSession
  /\ phase \in {"down", "listening", "crashed"}
  /\ ctr \in 0 .. Period - 1
  /\ IsPartial(pending, Ids, [session : 1 .. MaxSession, job : Jobs])
  /\ accepted \in BOOLEAN
  /\ dev \in BOOLEAN
  /\ replied \in Optional(Replies)
  /\ slot \in Optional(Tasks)
  /\ results \subseteq Requests
  /\ running \in Optional(Requests \cup {Challenge})
  /\ lastId \in Nat
  /\ found \in Optional(Jobs)
  /\ at \in SubmitPlaces
  /\ share \in Optional(Shares)
  /\ IsPartial(asked, Ids, [job : Optional(Jobs), cid : Optional(Requests)])
  /\ IsPartial(jobs, Jobs, Optional(Requests)) /\ began \in 0 .. MaxJob
  /\ offered \subseteq DOMAIN jobs

Init ==
  /\ session = 0 /\ phase = "down" /\ ctr \in 0 .. Period - 1
  /\ pending = <<>> /\ accepted = FALSE
  /\ dev = FALSE /\ replied = None
  /\ slot = None /\ results = {} /\ running = None
  /\ lastId = 2 /\ found = None /\ at = "ended" /\ share = None
  /\ asked = <<>> /\ jobs = <<>> /\ began = 0 /\ offered = {}

--------------------------------------------------------------------------------
(* Sessions. *)

(* Whose templates these are: the fund's at the start of each cycle.       *)
FundsTurn == DevPercent > 0 /\ ctr <= DevPercent

(* listen's check before each message.                                     *)
SliceOver == DevPercent > 0 /\ dev # FundsTurn

Reading == phase = "listening" /\ replied = None /\ ~SliceOver

Authorize == [job |-> None, cid |-> None]

Connected ==
  /\ session' = session + 1 /\ phase' = "listening"
  /\ at' = "idle"
  /\ asked' = [id \in {1} |-> Authorize]
  /\ began' = Cardinality(DOMAIN jobs)
  /\ UNCHANGED <<ctr, pending, accepted, replied, tasks, found, share, jobs, offered>>

(* Mutant: the requests of register take no id of the session's counter.   *)
ConnectCountingFromOne ==
  /\ phase = "down" /\ session < MaxSession
  /\ Connected /\ dev' = FundsTurn /\ lastId' = 1

(* Mutant: who is mined for is decided before the counter is looked at.    *)
ConnectAsMiner ==
  /\ phase = "down" /\ session < MaxSession
  /\ Connected /\ dev' = FALSE /\ lastId' = 2

(* connect and register: the requests to subscribe and to authorize take   *)
(* the ids 0 and 1.  The pending shares of earlier sessions stay.          *)
Connect ==
  /\ phase = "down" /\ session < MaxSession
  /\ Connected /\ dev' = FundsTurn /\ lastId' = 2

(* The client is gone, with its submit task.                               *)
End(how) ==
  /\ phase' = how
  /\ replied' = None /\ slot' = None /\ results' = {} /\ running' = None
  /\ lastId' = 2 /\ found' = None /\ at' = "ended" /\ share' = None
  /\ asked' = <<>> /\ offered' = {}
  /\ UNCHANGED <<session, ctr, dev, jobs, began>>

Leave == End("down")   \* the end of listen
Crash == End("crashed") /\ UNCHANGED <<pending, accepted>>

EndOfSlice ==
  /\ phase = "listening" /\ replied = None /\ SliceOver
  /\ Leave /\ UNCHANGED <<pending, accepted>>

(* The pool closes the connection, or sends what the client cannot take.   *)
Disconnect ==
  /\ Reading
  /\ Leave /\ UNCHANGED <<pending, accepted>>

(* Mutant: only the connection is watched, not the submit task.            *)
SubmitTaskEndsUnwatched == FALSE /\ Leave /\ UNCHANGED <<pending, accepted>>

(* The other arm of listen's select.                                       *)
SubmitTaskEnds ==
  /\ Reading /\ at = "ended"
  /\ Leave /\ UNCHANGED <<pending, accepted>>

--------------------------------------------------------------------------------
(* Jobs, with or without an AI task, and challenges. *)

(* process_block(Some(job)) *)
Offer(j) == offered' = offered \cup {j}

(* What every notification does first.  The DAA score that comes with it   *)
(* may let advance_lineup_if_due declare the served models once more, which *)
(* main.rs has made the same before and after.                             *)
NewJob(j, request) ==
  /\ Reading
  /\ j \in Jobs /\ j = Cardinality(DOMAIN jobs) + 1
  /\ jobs' = With(jobs, j, request)
  /\ ctr' = (ctr + 1) % Period
  /\ UNCHANGED <<session, phase, pending, accepted, reader, submitter, asked, began>>

(* No model is ready: process_block(None), and the task slot stays.        *)
NotifySuspended(j, request) ==
  /\ NewJob(j, request)
  /\ UNCHANGED <<tasks, offered>>

(* No task, or one whose JSON does not parse.                              *)
NotifyPlain(j) ==
  /\ NewJob(j, None)
  /\ slot' = None /\ Offer(j)
  /\ UNCHANGED <<results, running>>

(* The result is there or under way, or the model is not ready, or another *)
(* inference is in flight.  A task without a stable_id has no result.      *)
NotifyTask(j, r) ==
  /\ NewJob(j, r)
  /\ slot' = [job |-> j, request |-> r] /\ Offer(j)
  /\ UNCHANGED <<results, running>>

(* The inference starts; the miners are given the job only if it runs on   *)
(* the CPU.                                                                *)
NotifyTaskAndInfer(j, r) ==
  /\ r \notin results /\ running = None
  /\ NewJob(j, r)
  /\ slot' = [job |-> j, request |-> r]
  /\ running' = r
  /\ UNCHANGED results /\ (Offer(j) \/ UNCHANGED offered)

HandleChallenge ==
  /\ Reading /\ running = None
  /\ running' = Challenge
  /\ UNCHANGED <<process, reader, slot, results, submitter, asked, history>>

(* run_inference_and_upload, or the challenge's end.                       *)
InferenceEnds(ok) ==
  /\ running # None
  /\ running' = None
  /\ results' = IF ~ok \/ running = Challenge THEN results
                ELSE IF Cardinality(results) >= CacheMax THEN {running}
                ELSE results \cup {running}
  /\ UNCHANGED <<process, reader, slot, submitter, asked, history>>

--------------------------------------------------------------------------------
(* The submit task. *)

Find(j) ==
  /\ j \in offered /\ found = None
  /\ found' = j
  /\ UNCHANGED <<process, reader, tasks, lastId, at, share, asked, history>>

TakeShare ==
  /\ at = "idle" /\ found # None /\ lastId <= MaxId
  /\ share' = [id |-> lastId, job |-> found, cid |-> None]
  /\ lastId' = lastId + 1
  /\ found' = None /\ at' = "numbered"
  /\ UNCHANGED <<process, reader, tasks, asked, history>>

(* try_lock().unwrap(): the task panics if the reader has the lock.        *)
LockPending ==
  /\ at = "numbered"
  /\ at' = IF replied # None THEN "ended" ELSE "inserting"
  /\ UNCHANGED <<process, reader, tasks, lastId, found, share, asked, history>>

InsertPending ==
  /\ at = "inserting"
  /\ pending' = With(pending, share.id, [session |-> session, job |-> share.job])
  /\ at' = "looking"
  /\ UNCHANGED <<session, phase, ctr, accepted, reader, tasks, lastId, found, share,
                 asked, history>>

(* Mutant: the task of whichever job is current.                           *)
LookUpAnyJob ==
  /\ at = "looking"
  /\ share' = [share EXCEPT !.cid =
                 IF slot # None /\ slot.request \in results THEN slot.request ELSE None]
  /\ at' = "sending"
  /\ UNCHANGED <<process, reader, tasks, lastId, found, asked, history>>

(* The result, if the share is for the job of the task in the slot.        *)
LookUp ==
  /\ at = "looking"
  /\ share' = [share EXCEPT !.cid =
                 IF slot # None /\ slot.job = share.job /\ slot.request \in results
                 THEN slot.request ELSE None]
  /\ at' = "sending"
  /\ UNCHANGED <<process, reader, tasks, lastId, found, asked, history>>

SendShare ==
  /\ at = "sending"
  /\ asked' = With(asked, share.id, [job |-> share.job, cid |-> share.cid])
  /\ at' = "idle" /\ share' = None
  /\ UNCHANGED <<process, reader, tasks, lastId, found, history>>

(* The connection's write half is gone.                                    *)
SendFails ==
  /\ at = "sending"
  /\ at' = "ended"
  /\ UNCHANGED <<process, reader, tasks, lastId, found, share, asked, history>>

--------------------------------------------------------------------------------
(* Replies. *)

(* handle_message for a reply, up to the try_lock().unwrap(): the process  *)
(* ends if the submit task has the lock.                                   *)
Reply(id, verdict) ==
  /\ Reading
  /\ id \in DOMAIN asked
  /\ IF at = "inserting" THEN Crash
     ELSE /\ asked' = Without(asked, id)
          /\ replied' = [id |-> id, verdict |-> verdict]
          /\ UNCHANGED <<process, dev, tasks, submitter, history>>

(* The share is removed and counted.  An acceptance of an unknown id is    *)
(* ignored.  The error for a missing subscription is ignored too if any    *)
(* share was ever accepted.                                                *)
Settle ==
  /\ replied # None /\ replied.id \in DOMAIN pending
  /\ pending' = Without(pending, replied.id)
  /\ \/ /\ replied.verdict = "accepted"
        /\ accepted' = TRUE /\ replied' = None
        /\ UNCHANGED <<session, phase, ctr, dev, tasks, submitter, asked,
                       history>>
     \/ /\ \/ replied.verdict \in {"refused", "stale", "duplicate", "low"}
           \/ replied.verdict = "unsubscribed" /\ accepted
        /\ replied' = None
        /\ UNCHANGED <<session, phase, ctr, accepted, dev, tasks, submitter,
                       asked, history>>
     \/ /\ \/ replied.verdict = "unauthorized"
           \/ replied.verdict = "unsubscribed" /\ ~accepted
        /\ Leave /\ UNCHANGED accepted

(* Nothing is pending under the id: an acceptance is ignored, and unwrap   *)
(* panics on an error.                                                     *)
SettleUnknown ==
  /\ replied # None /\ replied.id \notin DOMAIN pending
  /\ IF replied.verdict # "accepted" THEN Crash
     ELSE replied' = None
          /\ UNCHANGED <<process, dev, tasks, submitter, asked, history>>

--------------------------------------------------------------------------------
Notify(j) ==
  \/ \E r \in Optional(Requests) : NotifySuspended(j, r)
  \/ NotifyPlain(j)
  \/ \E r \in Requests : NotifyTask(j, r) \/ NotifyTaskAndInfer(j, r)

ReaderStep ==
  \/ EndOfSlice \/ Disconnect \/ SubmitTaskEnds
  \/ \E j \in Jobs : Notify(j)
  \/ HandleChallenge
  \/ \E id \in DOMAIN asked, verdict \in Verdicts : Reply(id, verdict)
  \/ Settle \/ SettleUnknown

SubmitStep ==
  \/ TakeShare \/ LockPending \/ InsertPending \/ LookUp \/ SendShare \/ SendFails

(* Nothing but Connect is possible without a session. *)
Next ==
  \/ Connect \/ ReaderStep \/ SubmitStep
  \/ \E j \in offered : Find(j)
  \/ \E ok \in BOOLEAN : InferenceEnds(ok)

(* The reader goes on with a message it has read.  Of two arms of a select *)
(* that are ready again and again, each is chosen some time.               *)
Fairness ==
  /\ WF_vars(Settle \/ SettleUnknown)
  /\ SF_vars(SubmitTaskEnds)
  /\ WF_vars(EndOfSlice)

Spec == Init /\ [][Next]_vars /\ Fairness

--------------------------------------------------------------------------------
(* Every share that the pool may still answer is pending under its id, as  *)
(* the share it is, in spite of the entries that earlier sessions left     *)
(* under the same ids: a reply settles the share it is about, and unwrap   *)
(* on its entry does not panic.                                            *)
AnswersFindTheirShare ==
  \A id \in DOMAIN asked :
    asked[id].job # None =>
      /\ id \in DOMAIN pending
      /\ pending[id] = [session |-> session, job |-> asked[id].job]

(* A share carries no result but that of the AI request that came with its *)
(* job, though the slot may hold a later job's task by then: the pool pays *)
(* for the request by the job it was sent with.                            *)
CidIsOfItsJob ==
  \A id \in DOMAIN asked :
    asked[id].cid # None => asked[id].cid = jobs[asked[id].job]

(* A session ends with its time slice only after it was given a job: else  *)
(* the client would reconnect for ever without mining.                     *)
NoReconnectStorm ==
  phase = "listening" /\ SliceOver => Cardinality(DOMAIN jobs) > began

(* What they rest on: a share is pending before it is sent; ids are not    *)
(* used again in a session; and tasks, shares and what is asked are of jobs *)
(* that were notified.                                                     *)
ShareIsPending ==
  /\ at \in {"numbered", "inserting", "looking", "sending"} => share # None
  /\ at \in {"looking", "sending"} =>
       /\ share.id \in DOMAIN pending
       /\ pending[share.id] = [session |-> session, job |-> share.job]

IdsAreFresh ==
  /\ lastId >= 2
  /\ \A id \in DOMAIN asked : id < lastId
  /\ share # None => share.id < lastId /\ share.id \notin DOMAIN asked
  /\ replied # None =>
       /\ replied.id < lastId /\ replied.id \notin DOMAIN asked
       /\ share # None => share.id # replied.id

NothingIsLeft ==
  /\ phase = "listening" => session > 0
  /\ phase # "listening" => at = "ended" /\ share = None /\ replied = None

JobsInOrder ==
  DOMAIN jobs = 1 .. Cardinality(DOMAIN jobs) /\ began <= Cardinality(DOMAIN jobs)

JobsAreKnown ==
  /\ found # None => found \in DOMAIN jobs
  /\ slot # None => slot.job \in DOMAIN jobs /\ slot.request = jobs[slot.job]
  /\ share # None =>
       share.job \in DOMAIN jobs /\ share.cid \in {None, jobs[share.job]}
  /\ \A id \in DOMAIN asked :
       asked[id] = Authorize \/ asked[id].job \in DOMAIN jobs

IInv ==
  /\ TypeOK /\ ShareIsPending /\ IdsAreFresh /\ NothingIsLeft /\ JobsInOrder
  /\ JobsAreKnown /\ AnswersFindTheirShare /\ CidIsOfItsJob /\ NoReconnectStorm

(* A session whose submit task has ended ends, and does not go on to find  *)
(* shares that no one submits.                                             *)
DeadSubmitTaskIsNoticed ==
  phase = "listening" /\ at = "ended" ~> phase # "listening"
================================================================================
