-------------------------------- MODULE Requests --------------------------------
(***************************************************************************)
(* The node client (client/grpc.rs) as it serves AI requests and           *)
(* challenges between the templates it mines: its queue of requests, the   *)
(* inference in flight, the pause of the miners and what ends it.          *)
(*                                                                         *)
(* The client is one task, so that a message is handled in one step; the   *)
(* inferences are tasks of their own, which end at any time, with or       *)
(* without a result.  The node answers each request for a template, at any *)
(* time; it may add a challenge and transactions, and be out of sync.  Of  *)
(* the transactions in a message at most one is an AI request that parses. *)
(* A claim of the escrow watcher and its answer are in Escrow, the threads *)
(* in Mining.  Left out: whose address a template pays, which Pool has,    *)
(* and the switch to the line-up of OPoI v2, for which main.rs stages the  *)
(* line-up that is served already: it only evicts the engine.              *)
(***************************************************************************)
EXTENDS Integers, Sequences, FiniteSets

CONSTANTS
  Txs,            \* transactions with an AI request
  IdOf,           \* the stable_id of each: a hash of its payload
  Rewarded,       \* those that pay and whose txid can be computed
  Models,         \* the served line-up
  ModelOf,        \* stable_id -> the model it asks for
  MaxQueue,       \* MAX_AI_QUEUE_SIZE
  MaxSeen,        \* MAX_AI_SEEN_IDS
  MaxAsked,       \* bound: templates asked for and not answered
  MaxChallenges,  \* bound: challenges of one session
  None

Ids == {IdOf[tx] : tx \in Txs}

ASSUME TxsAssumption == IsFiniteSet(Txs) /\ Rewarded \subseteq Txs /\ None \notin Txs
ASSUME IdOfAssumption == DOMAIN IdOf = Txs /\ None \notin Ids
ASSUME ModelOfAssumption == ModelOf \in [Ids -> Models]
ASSUME LimitsAssumption ==
  MaxQueue \in Nat \ {0} /\ MaxSeen \in Nat /\ MaxQueue <= MaxSeen
ASSUME BoundsAssumption == MaxAsked \in Nat \ {0} /\ MaxChallenges \in Nat

VARIABLES
  \* of the process
  connected,
  files,      \* the models whose files are complete (.ok)
  \* of the session
  past,       \* last_known_daa >= POM_ACTIVATION_DAA
  queue,      \* ai_request_queue
  seen,       \* ai_seen_prefixes
  txids,      \* ai_request_txids: id -> tx
  inference,  \* inference_rx: None or [id, state]
  challenge,  \* challenge_inference_rx: None, "running" or "over"
  flag,       \* opoi_challenge_active
  mining,     \* whether the miners were last given a block
  asked,      \* requests for a template that the node has not answered
  blocks,     \* whether a GetBlock request is unanswered
  \* history
  challenges, \* challenges of the session
  answered,   \* ids whose AiResponse was handed to the stream in the session
  tracked,    \* txs whose reward the escrow watcher was told of
  why         \* what the miners are suspended for, or None

requests == <<queue, seen, txids, inference>>
gate == <<challenge, flag, challenges>>
miners == <<mining, why>>
results == <<answered, tracked>>
node == <<asked, blocks>>
vars == <<connected, files, past, requests, gate, miners, results, node>>

Optional(S) == S \cup {None}
With(f, x, v) == [y \in DOMAIN f \cup {x} |-> IF y = x THEN v ELSE f[y]]
Without(f, x) == [y \in DOMAIN f \ {x} |-> f[y]]
Elements(s) == {s[i] : i \in DOMAIN s}

InferenceStates == {"running", "result", "none"}

QueueTyped ==
  /\ queue \in Seq(Ids) /\ Len(queue) <= MaxQueue
  /\ seen \subseteq Ids
  /\ DOMAIN txids \subseteq Ids /\ txids \in [DOMAIN txids -> Rewarded]
  /\ inference \in Optional([id : Ids, state : InferenceStates])
  /\ answered \subseteq Ids /\ tracked \subseteq Rewarded

SessionTyped ==
  /\ connected \in BOOLEAN /\ files \subseteq Models
  /\ past \in BOOLEAN
  /\ challenge \in {None, "running", "over"} /\ flag \in BOOLEAN
  /\ challenges \in 0 .. MaxChallenges
  /\ mining \in BOOLEAN
  /\ why \in {None, "inference", "models", "no block"}
  /\ asked \in 0 .. MaxAsked /\ blocks \in BOOLEAN

TypeOK == QueueTyped /\ SessionTyped

Init ==
  /\ connected = FALSE /\ files = Models /\ tracked = {}
  /\ past = FALSE
  /\ queue = <<>> /\ seen = {} /\ txids = <<>> /\ inference = None
  /\ challenge = None /\ flag = FALSE /\ challenges = 0
  /\ mining = FALSE /\ why = None /\ asked = 0 /\ blocks = FALSE
  /\ answered = {}

--------------------------------------------------------------------------------
(* What the handlers are made of. *)

(* loaded_model_ids and is_model_ready: the files have their mark.         *)
Ready(id) == ModelOf[id] \in files

(* Mutant: what is in the queue is all that is remembered.                 *)
SeenAfterInQueue(q, id) == Elements(q)

(* When the set is full it is rebuilt from the queue.                      *)
SeenAfter(q, id) ==
  IF Cardinality(seen \cup {id}) > MaxSeen THEN Elements(q) ELSE seen \cup {id}

(* Scanning a new request drops the oldest one of a full queue.            *)
QueueAfter(id) == IF Len(queue) = MaxQueue THEN Append(Tail(queue), id) ELSE Append(queue, id)

(* Mutant: a request whose model is gone stays first in the queue.         *)
TryStartWaiting(q) ==
  IF inference # None \/ q = <<>> \/ (q # <<>> /\ ~Ready(Head(q)))
  THEN queue' = q /\ UNCHANGED inference
  ELSE queue' = Tail(q) /\ inference' = [id |-> Head(q), state |-> "running"]

(* try_start_inference with the queue q, after any poll.  A request whose  *)
(* model is gone is discarded.                                             *)
TryStart(q) ==
  IF inference # None \/ q = <<>> THEN queue' = q /\ UNCHANGED inference
  ELSE /\ queue' = Tail(q)
       /\ inference' = IF Ready(Head(q)) THEN [id |-> Head(q), state |-> "running"] ELSE None

(* scan_txs_for_ai_requests, and try_start_inference after it.             *)
ScanAndStart(tx) ==
  IF tx = None \/ (tx # None /\ ~Ready(IdOf[tx]))
  THEN TryStart(queue) /\ UNCHANGED <<seen, txids>>
  ELSE LET id == IdOf[tx]
           q == IF id \in seen THEN queue ELSE QueueAfter(id)
       IN /\ seen' = IF id \in seen THEN seen ELSE SeenAfter(q, id)
          /\ txids' = IF tx \in Rewarded THEN With(txids, id, tx) ELSE txids
          /\ TryStart(q)

(* client_get_block_template takes the result of a challenge, or that      *)
(* there is none, and lowers the flag.                                     *)
Harvest(c, f) ==
  IF c = "over" THEN challenge' = None /\ flag' = FALSE
  ELSE challenge' = c /\ flag' = f

Ask == asked < MaxAsked /\ asked' = asked + 1

Over == inference # None /\ inference.state # "running"

RewardOf(id) == IF id \in DOMAIN txids THEN {txids[id]} ELSE {}

(* Mutant: the reward is tracked before it is known that there is a result.*)
PollOverTrackingFirst(uploaded) ==
  /\ Over
  /\ inference' = None
  /\ answered' = IF inference.state = "result" /\ uploaded
                 THEN answered \cup {inference.id} ELSE answered
  /\ tracked' = tracked \cup RewardOf(inference.id)
  /\ txids' = Without(txids, inference.id)
  /\ UNCHANGED <<queue, seen>>

(* poll_inference: no result, a failed upload, or an answer, after which   *)
(* the reward is tracked.  (AnswerLost: an answer that cannot be sent.)    *)
PollOver(uploaded) ==
  /\ Over
  /\ inference' = None
  /\ IF inference.state = "result" /\ uploaded
     THEN /\ answered' = answered \cup {inference.id}
          /\ tracked' = tracked \cup RewardOf(inference.id)
          /\ txids' = Without(txids, inference.id)
     ELSE UNCHANGED <<answered, tracked, txids>>
  /\ UNCHANGED <<queue, seen>>

--------------------------------------------------------------------------------
(* The session. *)

Connect ==
  /\ ~connected /\ connected' = TRUE
  /\ UNCHANGED <<files, past, requests, gate, miners, results, node>>

(* GetInfoResponse or a NewBlockTemplate notification: the node has work   *)
(* for its own or for a reason elsewhere.                                  *)
Notified ==
  /\ connected /\ Ask /\ Harvest(challenge, flag)
  /\ UNCHANGED <<connected, files, past, requests, challenges, miners, results, blocks>>

(* The notification for a block that the miners have found.                *)
OwnBlockFound == mining /\ Notified

BlockAdded(tx) ==
  /\ connected
  /\ ScanAndStart(tx)
  /\ UNCHANGED <<connected, files, past, gate, miners, results, node>>

BlockAddedWithoutTxs ==
  /\ connected /\ ~blocks /\ blocks' = TRUE
  /\ UNCHANGED <<connected, files, past, requests, gate, miners, results, asked>>

GetBlockResponse(tx) ==
  /\ connected /\ blocks /\ blocks' = FALSE
  /\ ScanAndStart(tx)
  /\ UNCHANGED <<connected, files, past, gate, miners, results, asked>>

GetBlockError ==
  /\ connected /\ blocks /\ blocks' = FALSE
  /\ UNCHANGED <<connected, files, past, requests, gate, miners, results, asked>>

(* Mutant: the results come with the templates.                            *)
TickIdle(uploaded) == FALSE /\ PollOver(uploaded) /\ UNCHANGED vars

(* The 200 ms timer: a new template once the inference is over, else as    *)
(* long as a challenge is in flight.                                       *)
Tick(uploaded) ==
  /\ connected /\ Ask /\ Harvest(challenge, flag)
  /\ \/ PollOver(uploaded)
     \/ ~Over /\ challenge # None /\ UNCHANGED <<requests, results>>
  /\ UNCHANGED <<connected, files, past, challenges, miners, blocks>>

(* The next session has a client of its own, with nothing of this one.     *)
SessionEnds ==
  /\ connected' = FALSE
  /\ past' = FALSE
  /\ queue' = <<>> /\ seen' = {} /\ txids' = <<>> /\ inference' = None
  /\ challenge' = None /\ flag' = FALSE /\ challenges' = 0
  /\ mining' = FALSE /\ why' = None /\ asked' = 0 /\ blocks' = FALSE
  /\ answered' = {}
  /\ UNCHANGED files

Leave == SessionEnds /\ UNCHANGED tracked

(* The node closes the stream, or an operation on it fails.                *)
Disconnect == connected /\ Leave

(* poll_inference, by the timer or for a template, when the stream is gone *)
(* already: that the answer cannot be sent is only logged, its reward is   *)
(* tracked all the same, and the request for a template that follows,      *)
(* which cannot be sent either, ends the session.                          *)
AnswerLost ==
  /\ connected /\ Over /\ inference.state = "result"
  /\ tracked' = tracked \cup RewardOf(inference.id)
  /\ SessionEnds

--------------------------------------------------------------------------------
(* Templates. *)

(* What comes first for every template: the DAA score (high if at or past  *)
(* the activation) and a challenge.  c and f are challenge and flag after  *)
(* it.                                                                     *)
Header(high, challenged, c, f) ==
  /\ connected /\ asked > 0
  /\ past' = (past \/ high)
  /\ challenged => challenge = None /\ ~past' /\ files # {} /\ challenges < MaxChallenges
  /\ challenges' = IF challenged THEN challenges + 1 ELSE challenges
  /\ c = IF challenged THEN "running" ELSE challenge
  /\ f = IF challenged THEN TRUE ELSE flag

Suspend(reason) == mining' = FALSE /\ why' = reason

(* The inference is over: its answer, and a fresh template.                *)
TemplatePolls(uploaded, c, f) ==
  /\ PollOver(uploaded)
  /\ asked' = asked /\ Harvest(c, f)
  /\ UNCHANGED <<connected, files, miners, blocks>>

TemplateWithoutModels(c, f) ==
  /\ ~Over /\ files = {}
  /\ Suspend("models")
  /\ asked' = asked - 1 /\ challenge' = c /\ flag' = f
  /\ UNCHANGED <<connected, files, requests, results, blocks>>

(* The miners are given the block, or not if an inference is in flight or  *)
(* the node is out of sync (synced is TRUE under mine_when_not_synced).    *)
TemplateScans(tx, synced, c, f) ==
  /\ ~Over /\ files # {}
  /\ ScanAndStart(tx)
  /\ IF inference' # None \/ c # None THEN Suspend("inference")
     ELSE IF synced THEN mining' = TRUE /\ why' = None
     ELSE Suspend("no block")
  /\ asked' = asked - 1 /\ challenge' = c /\ flag' = f
  /\ UNCHANGED <<connected, files, results, blocks>>

(* A template with neither a block nor an error: there is nothing to scan. *)
(* Out of sync the miners are suspended, else they are left as they are.   *)
TemplateWithoutBlock(synced, c, f) ==
  /\ ~Over /\ files # {}
  /\ TryStart(queue) /\ UNCHANGED <<seen, txids>>
  /\ IF inference' # None \/ c # None THEN Suspend("inference")
     ELSE IF ~synced THEN Suspend("no block")
     ELSE mining' = mining /\ why' = IF mining THEN why ELSE "no block"
  /\ asked' = asked - 1 /\ challenge' = c /\ flag' = f
  /\ UNCHANGED <<connected, files, results, blocks>>

Template ==
  \E high, challenged, f \in BOOLEAN, c \in {None, "running", "over"} :
    /\ Header(high, challenged, c, f)
    /\ \/ \E uploaded \in BOOLEAN : TemplatePolls(uploaded, c, f)
       \/ TemplateWithoutModels(c, f)
       \/ \E tx \in Optional(Txs), synced \in BOOLEAN : TemplateScans(tx, synced, c, f)
       \/ ~high /\ \E synced \in BOOLEAN : TemplateWithoutBlock(synced, c, f)

(* A template with an error and no block ends the session, unless an       *)
(* inference is over or in flight or there is no model.  What it did       *)
(* before is lost with it.                                                 *)
TemplateError ==
  /\ connected /\ asked > 0 /\ files # {} /\ inference = None /\ challenge = None
  /\ queue # <<>> => ~Ready(Head(queue))
  /\ Leave

--------------------------------------------------------------------------------
(* The inference tasks and the files. *)

InferenceEnds(state) ==
  /\ inference # None /\ inference.state = "running"
  /\ inference' = [inference EXCEPT !.state = state]
  /\ UNCHANGED <<connected, files, past, queue, seen, txids, gate, miners, results, node>>

ChallengeEnds ==
  /\ challenge = "running" /\ challenge' = "over"
  /\ UNCHANGED <<connected, files, past, requests, flag, challenges, miners, results, node>>

(* Files of a model are deleted, or complete again.                        *)
FilesChange(m) ==
  /\ files' = IF m \in files THEN files \ {m} ELSE files \cup {m}
  /\ UNCHANGED <<connected, past, requests, gate, miners, results, node>>

Next ==
  \/ Connect \/ Notified \/ OwnBlockFound
  \/ \E tx \in Optional(Txs) : BlockAdded(tx) \/ GetBlockResponse(tx)
  \/ BlockAddedWithoutTxs \/ GetBlockError
  \/ \E uploaded \in BOOLEAN : Tick(uploaded)
  \/ Template \/ TemplateError \/ Disconnect \/ AnswerLost
  \/ \E state \in InferenceStates \ {"running"} : InferenceEnds(state)
  \/ ChallengeEnds \/ \E m \in Models : FilesChange(m)

(* The timer fires, inferences end, the node answers, and miners that have *)
(* a block find one some time, of which the node notifies.                 *)
Fairness ==
  /\ WF_vars(\E uploaded \in BOOLEAN : Tick(uploaded))
  /\ WF_vars(\E state \in InferenceStates \ {"running"} : InferenceEnds(state))
  /\ WF_vars(ChallengeEnds)
  /\ WF_vars(Template \/ TemplateError)
  /\ WF_vars(OwnBlockFound)

Spec == Init /\ [][Next]_vars /\ Fairness

--------------------------------------------------------------------------------
(* A request is queued or in flight at most once, and not again once its   *)
(* answer was sent, in whatever order mempool templates, blocks and late   *)
(* GetBlock answers show its transaction: each answer is paid for once and *)
(* each inference stops the mining for a minute.                           *)
NotAnsweredAgain ==
  /\ \A i, j \in DOMAIN queue : queue[i] = queue[j] => i = j
  /\ Elements(queue) \cap answered = {}
  /\ inference # None => inference.id \notin answered \cup Elements(queue)

(* A reward is tracked only for a request whose inference has just given a *)
(* result and that was not answered before: with the step that sends its   *)
(* answer, or, when the stream is gone, with the step that fails to and    *)
(* ends the session (grpc.rs:518-528; escrow.rs:481 speaks of a successful *)
(* submission).  An entry for any other request could only be refused by   *)
(* the node and written off.                                               *)
RewardsAreEarned ==
  [][\A tx \in tracked' \ tracked :
       /\ inference = [id |-> IdOf[tx], state |-> "result"]
       /\ IdOf[tx] \notin answered
       /\ IdOf[tx] \in answered' \/ ~connected']_vars

(* Mining that was suspended for an inference goes on some time, though    *)
(* the node may have no other miner to notify it of blocks, unless the     *)
(* models are lost, the node has no block for them or the session ends.    *)
MiningResumes == why = "inference" ~> why # "inference"

(* A queued request is taken up or dropped, under the same conditions.     *)
EveryRequestIsTakenUp ==
  \A id \in Ids :
    id \in Elements(queue) ~> id \notin Elements(queue) \/ why \in {"models", "no block"}

(* What they rest on: what was queued, is in flight or was answered has    *)
(* been seen, as long as the set of seen ids does not overflow; and a txid *)
(* is of a transaction with the id that it is kept under.                  *)
AllSeen ==
  /\ Elements(queue) \cup answered \subseteq seen
  /\ inference # None => inference.id \in seen

TxidsMatch == \A id \in DOMAIN txids : IdOf[txids[id]] = id

IInv == TypeOK /\ AllSeen /\ TxidsMatch /\ NotAnsweredAgain

================================================================================
