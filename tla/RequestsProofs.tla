----------------------------- MODULE RequestsProofs -----------------------------
(***************************************************************************)
(* Proofs about the AI requests of the node client, for any transactions,  *)
(* payloads, models and length of the queue: in a session that sees no     *)
(* more than MaxSeen requests none is queued or answered twice, and a      *)
(* reward is tracked with the first answer to its request only, which is   *)
(* sent unless the session ends with it.                                   *)
(***************************************************************************)
EXTENDS Requests, FiniteSetTheorems, TLAPS

(* Without the rest of the session.                                        *)
QueueInv == QueueTyped /\ AllSeen /\ TxidsMatch /\ NotAnsweredAgain

LEMMA InitIsInductive == Init => IInv
<1> SUFFICES ASSUME Init PROVE IInv
  OBVIOUS
<1> USE DEF Init
<1>1. QueueTyped
  <2>1. queue \in Seq(Ids) /\ Len(queue) = 0
    OBVIOUS
  <2>2. DOMAIN txids = {} /\ txids \in [{} -> Rewarded]
    OBVIOUS
  <2>3. DOMAIN txids \subseteq Ids /\ txids \in [DOMAIN txids -> Rewarded]
    BY <2>2
  <2>4. /\ seen \subseteq Ids /\ answered \subseteq Ids /\ tracked \subseteq Rewarded
        /\ inference \in Optional([id : Ids, state : InferenceStates])
    BY DEF Optional
  <2> HIDE DEF Init
  <2> QED BY <2>1, <2>3, <2>4, LimitsAssumption DEF QueueTyped
<1>2. SessionTyped
  <2>1. challenges \in 0 .. MaxChallenges /\ asked \in 0 .. MaxAsked
    BY BoundsAssumption
  <2> QED BY <2>1, Zenon DEF SessionTyped
<1>3. AllSeen /\ TxidsMatch /\ NotAnsweredAgain
  BY DEF AllSeen, TxidsMatch, NotAnsweredAgain, Elements
<1> QED BY <1>1, <1>2, <1>3 DEF IInv, TypeOK

--------------------------------------------------------------------------------
(* The set of seen ids. *)

(* There are finitely many ids, so that a bound on them bounds what can be *)
(* seen.                                                                   *)
LEMMA IdsAreFinite == IsFiniteSet(Ids)
<1> DEFINE f == [tx \in Txs |-> IdOf[tx]]
<1>1. f \in Surjection(Txs, Ids)
  BY DEF Ids, Surjection
<1> QED BY <1>1, TxsAssumption, FS_Surjection

LEMMA SeenFits ==
  ASSUME Cardinality(Ids) <= MaxSeen, NEW S, S \subseteq Ids
  PROVE  Cardinality(S) <= MaxSeen
<1>1. IsFiniteSet(Ids)
  BY IdsAreFinite
<1>2. Cardinality(S) <= Cardinality(Ids) /\ Cardinality(S) \in Nat /\ Cardinality(Ids) \in Nat
  BY <1>1, FS_Subset, FS_CardinalityType
<1> QED BY <1>2, LimitsAssumption

--------------------------------------------------------------------------------
(* The queue. *)

Distinct(q) == \A i, j \in DOMAIN q : q[i] = q[j] => i = j

(* A request that is appended is the only new element.                     *)
LEMMA AppendElements ==
  ASSUME NEW q \in Seq(Ids), Distinct(q), NEW id \in Ids, id \notin Elements(q)
  PROVE  /\ Append(q, id) \in Seq(Ids) /\ Len(Append(q, id)) = Len(q) + 1
         /\ Elements(Append(q, id)) \subseteq Elements(q) \cup {id}
         /\ Distinct(Append(q, id))
BY DEF Elements, Distinct

(* The rest of a queue without duplicates does not hold its head.          *)
LEMMA TailElements ==
  ASSUME NEW q \in Seq(Ids), q # <<>>, Distinct(q)
  PROVE  /\ Tail(q) \in Seq(Ids) /\ Len(Tail(q)) = Len(q) - 1
         /\ Head(q) \in Elements(q)
         /\ Elements(Tail(q)) \subseteq Elements(q) \ {Head(q)}
         /\ Distinct(Tail(q))
<1>1. /\ Tail(q) \in Seq(Ids) /\ Len(Tail(q)) = Len(q) - 1
      /\ Len(q) \in Nat \ {0} /\ Head(q) = q[1]
      /\ \A i \in 1 .. Len(q) - 1 : Tail(q)[i] = q[i + 1]
  OBVIOUS
<1>2. Head(q) \in Elements(q)
  BY <1>1 DEF Elements
<1>3. DOMAIN Tail(q) = 1 .. Len(q) - 1 /\ DOMAIN q = 1 .. Len(q)
  BY <1>1
<1>4. Elements(Tail(q)) \subseteq Elements(q) \ {Head(q)}
  BY <1>1, <1>3 DEF Elements, Distinct
<1>5. Distinct(Tail(q))
  BY <1>1, <1>3 DEF Distinct
<1> QED BY <1>1, <1>2, <1>4, <1>5

(* try_start_inference takes at most the head of the queue it is given.    *)
LEMMA TryStartTakesHead ==
  ASSUME NEW q \in Seq(Ids), Len(q) <= MaxQueue, Distinct(q), TryStart(q)
  PROVE  /\ queue' \in Seq(Ids) /\ Len(queue') <= MaxQueue /\ Distinct(queue')
         /\ Elements(queue') \subseteq Elements(q)
         /\ \/ inference' = inference \/ inference' = None
            \/ /\ inference' \in [id : Ids, state : InferenceStates]
               /\ inference'.id \in Elements(q) \ Elements(queue')
<1>1. CASE inference # None \/ q = <<>>
  BY <1>1 DEF TryStart
<1>2. CASE ~ (inference # None \/ q = <<>>)
  <2>1. /\ Tail(q) \in Seq(Ids) /\ Len(Tail(q)) = Len(q) - 1
        /\ Head(q) \in Elements(q)
        /\ Elements(Tail(q)) \subseteq Elements(q) \ {Head(q)}
        /\ Distinct(Tail(q))
    BY <1>2, TailElements
  <2>2. Head(q) \in Ids /\ Len(q) \in Nat
    BY <1>2
  <2>3. /\ queue' = Tail(q)
        /\ \/ inference' = None \/ inference' = [id |-> Head(q), state |-> "running"]
    BY <1>2 DEF TryStart
  <2> QED BY <2>1, <2>2, <2>3, LimitsAssumption DEF InferenceStates
<1> QED BY <1>1, <1>2

--------------------------------------------------------------------------------
(* The handlers. *)

(* With a queue of distinct requests, seen and not answered, to begin with *)
(* the first of them.                                                      *)
LEMMA TryStartKeepsInv ==
  ASSUME QueueInv, NEW q \in Seq(Ids), Len(q) <= MaxQueue, Distinct(q), TryStart(q),
         Elements(q) \cap answered = {}, Elements(q) \subseteq seen', seen \subseteq seen',
         inference # None => inference.id \notin Elements(q),
         seen' \subseteq Ids, DOMAIN txids' \subseteq Ids,
         txids' \in [DOMAIN txids' -> Rewarded], TxidsMatch', UNCHANGED results
  PROVE  QueueInv'
<1> USE DEF QueueInv, results
<1>1. /\ queue' \in Seq(Ids) /\ Len(queue') <= MaxQueue /\ Distinct(queue')
      /\ Elements(queue') \subseteq Elements(q)
      /\ \/ inference' = inference \/ inference' = None
         \/ /\ inference' \in [id : Ids, state : InferenceStates]
            /\ inference'.id \in Elements(q) \ Elements(queue')
  BY TryStartTakesHead
<1>2. QueueTyped'
  BY <1>1 DEF QueueTyped, Optional
<1>3. AllSeen'
  BY <1>1 DEF AllSeen
<1>4. NotAnsweredAgain'
  BY <1>1 DEF NotAnsweredAgain, Distinct
<1> QED BY <1>2, <1>3, <1>4

(* A scanned request is new, or in the queue, in flight or answered.       *)
LEMMA ScanKeepsInv ==
  ASSUME Cardinality(Ids) <= MaxSeen, QueueInv, NEW tx \in Optional(Txs),
         ScanAndStart(tx), UNCHANGED results
  PROVE  QueueInv'
<1> USE DEF QueueInv
<1>1. /\ queue \in Seq(Ids) /\ Len(queue) <= MaxQueue /\ Distinct(queue)
      /\ Elements(queue) \cap answered = {} /\ Elements(queue) \subseteq seen
      /\ inference # None => inference.id \notin Elements(queue)
      /\ seen \subseteq Ids
  BY DEF QueueTyped, NotAnsweredAgain, AllSeen, Distinct
<1>2. CASE tx = None \/ (tx # None /\ ~Ready(IdOf[tx]))
  <2>1. TryStart(queue) /\ UNCHANGED <<seen, txids>>
    BY <1>2 DEF ScanAndStart
  <2>2. TxidsMatch' /\ DOMAIN txids' \subseteq Ids /\ txids' \in [DOMAIN txids' -> Rewarded]
    BY <2>1 DEF TxidsMatch, QueueTyped
  <2> QED BY <1>1, <2>1, <2>2, TryStartKeepsInv
<1>3. CASE ~ (tx = None \/ (tx # None /\ ~Ready(IdOf[tx])))
  <2> DEFINE id == IdOf[tx]
             q == IF id \in seen THEN queue ELSE QueueAfter(id)
  <2>1. tx \in Txs /\ id \in Ids
    BY <1>3 DEF Optional, Ids
  <2>2. /\ seen' = IF id \in seen THEN seen ELSE SeenAfter(q, id)
        /\ txids' = IF tx \in Rewarded THEN With(txids, id, tx) ELSE txids
        /\ TryStart(q)
    BY <1>3 DEF ScanAndStart
  <2>3. seen' = seen \cup {id}
    <3>1. Cardinality(seen \cup {id}) <= MaxSeen
      BY <1>1, <2>1, SeenFits
    <3>2. SeenAfter(q, id) = seen \cup {id}
      <4>1. Cardinality(seen \cup {id}) \in Nat
        <5>1. IsFiniteSet(Ids)
          BY IdsAreFinite
        <5> QED BY <1>1, <2>1, <5>1, FS_Subset, FS_CardinalityType
      <4> HIDE DEF id, q
      <4> QED BY <3>1, <4>1, LimitsAssumption DEF SeenAfter
    <3> QED BY <2>2, <3>2
  <2>4. /\ q \in Seq(Ids) /\ Len(q) <= MaxQueue /\ Distinct(q)
        /\ Elements(q) \subseteq Elements(queue) \cup {id}
        /\ id \in seen => q = queue
    <3>1. CASE id \in seen
      BY <1>1, <3>1
    <3>2. CASE id \notin seen
      <4> HIDE DEF id
      <4>1. CASE Len(queue) = MaxQueue
        <5>1. queue # <<>>
          BY <4>1, LimitsAssumption
        <5>2. /\ Tail(queue) \in Seq(Ids) /\ Len(Tail(queue)) = Len(queue) - 1
              /\ Elements(Tail(queue)) \subseteq Elements(queue) /\ Distinct(Tail(queue))
          BY <1>1, <5>1, TailElements
        <5>3. id \notin Elements(Tail(queue))
          BY <1>1, <3>2, <5>2
        <5>4. q = Append(Tail(queue), id)
          BY <3>2, <4>1 DEF QueueAfter
        <5>5. /\ q \in Seq(Ids) /\ Len(q) = Len(Tail(queue)) + 1 /\ Distinct(q)
              /\ Elements(q) \subseteq Elements(Tail(queue)) \cup {id}
          <6> HIDE DEF q
          <6> QED BY <2>1, <5>2, <5>3, <5>4, AppendElements
        <5>6. Len(q) = Len(queue)
          <6> HIDE DEF q
          <6> QED BY <1>1, <5>2, <5>5
        <5> QED BY <1>1, <3>2, <5>2, <5>5, <5>6
      <4>2. CASE Len(queue) # MaxQueue
        <5>1. q = Append(queue, id)
          BY <3>2, <4>2 DEF QueueAfter
        <5>2. /\ q \in Seq(Ids) /\ Len(q) = Len(queue) + 1 /\ Distinct(q)
              /\ Elements(q) \subseteq Elements(queue) \cup {id}
          <6> HIDE DEF q
          <6> QED BY <1>1, <2>1, <3>2, <5>1, AppendElements
        <5>3. Len(q) <= MaxQueue
          <6> HIDE DEF q
          <6> QED BY <1>1, <4>2, <5>2, LimitsAssumption
        <5> QED BY <3>2, <5>2, <5>3
      <4> QED BY <4>1, <4>2
    <3> QED BY <3>1, <3>2
  <2>5. /\ Elements(q) \cap answered = {} /\ Elements(q) \subseteq seen'
        /\ inference # None => inference.id \notin Elements(q)
    <3> HIDE DEF id, q
    <3> QED BY <1>1, <2>3, <2>4 DEF AllSeen
  <2>6. TxidsMatch' /\ DOMAIN txids' \subseteq Ids /\ txids' \in [DOMAIN txids' -> Rewarded]
    <3>1. CASE tx \in Rewarded
      <4>1. txids' = With(txids, id, tx)
        BY <2>2, <3>1
      <4>2. /\ DOMAIN With(txids, id, tx) = DOMAIN txids \cup {id}
            /\ With(txids, id, tx)[id] = tx
            /\ \A i \in DOMAIN txids : i # id => With(txids, id, tx)[i] = txids[i]
            /\ With(txids, id, tx) \in [DOMAIN txids \cup {id} -> Rewarded]
        BY <3>1 DEF With, QueueTyped
      <4> QED BY <2>1, <4>1, <4>2 DEF TxidsMatch, QueueTyped
    <3>2. CASE tx \notin Rewarded
      <4>1. txids' = txids
        BY <2>2, <3>2
      <4> QED BY <4>1 DEF TxidsMatch, QueueTyped
    <3> QED BY <3>1, <3>2
  <2> HIDE DEF id, q
  <2> QED BY <1>1, <2>1, <2>2, <2>3, <2>4, <2>5, <2>6, TryStartKeepsInv
<1> QED BY <1>2, <1>3

(* What RewardsAreEarned says of a step.                                   *)
Earned == \A tx \in tracked' \ tracked :
  /\ inference = [id |-> IdOf[tx], state |-> "result"]
  /\ IdOf[tx] \notin answered
  /\ IdOf[tx] \in answered' \/ ~connected'

(* A reward that is kept for a request with a result is of that request.   *)
LEMMA RewardFacts ==
  ASSUME QueueInv, Over, inference.state = "result"
  PROVE  /\ inference.id \in Ids /\ inference.id \in seen
         /\ inference.id \notin answered \cup Elements(queue)
         /\ RewardOf(inference.id) \subseteq Rewarded
         /\ \A tx \in RewardOf(inference.id) :
              /\ IdOf[tx] = inference.id
              /\ inference = [id |-> IdOf[tx], state |-> "result"]
<1>1. inference \in [id : Ids, state : InferenceStates]
  BY DEF QueueInv, QueueTyped, Over, Optional
<1>2. inference.id \in seen /\ inference.id \notin answered \cup Elements(queue)
  BY DEF QueueInv, AllSeen, NotAnsweredAgain, Over
<1>3. ASSUME NEW tx \in RewardOf(inference.id)
      PROVE  tx \in Rewarded /\ IdOf[tx] = inference.id
  BY <1>3 DEF RewardOf, QueueInv, QueueTyped, TxidsMatch
<1>4. inference = [id |-> inference.id, state |-> "result"]
  BY <1>1
<1> QED BY <1>1, <1>2, <1>3, <1>4

(* The request in flight is over, and a reward is tracked only for its     *)
(* answer.                                                                 *)
LEMMA PollKeepsInv ==
  ASSUME QueueInv, NEW uploaded \in BOOLEAN, PollOver(uploaded)
  PROVE  QueueInv' /\ Earned
<1> USE DEF QueueInv
<1>1. /\ inference # None /\ inference' = None /\ UNCHANGED <<queue, seen>>
      /\ inference.id \in Ids /\ inference.id \in seen
      /\ inference.id \notin answered \cup Elements(queue)
  BY DEF PollOver, Over, QueueTyped, Optional, AllSeen, NotAnsweredAgain
<1>2. CASE inference.state = "result" /\ uploaded
  <2>1. /\ answered' = answered \cup {inference.id}
        /\ tracked' = tracked \cup RewardOf(inference.id)
        /\ txids' = Without(txids, inference.id)
    BY <1>2 DEF PollOver
  <2>2. /\ RewardOf(inference.id) \subseteq Rewarded
        /\ \A tx \in RewardOf(inference.id) :
             /\ IdOf[tx] = inference.id
             /\ inference = [id |-> IdOf[tx], state |-> "result"]
    BY <1>2, RewardFacts DEF PollOver
  <2>3. /\ DOMAIN txids' = DOMAIN txids \ {inference.id}
        /\ \A i \in DOMAIN txids' : txids'[i] = txids[i]
        /\ txids' \in [DOMAIN txids' -> Rewarded]
    BY <2>1 DEF Without, QueueTyped
  <2>4. QueueTyped' /\ TxidsMatch'
    BY <1>1, <2>1, <2>2, <2>3 DEF QueueTyped, TxidsMatch, Optional
  <2>5. AllSeen' /\ NotAnsweredAgain'
    BY <1>1, <2>1 DEF AllSeen, NotAnsweredAgain, Elements
  <2>6. Earned
    BY <1>1, <2>1, <2>2 DEF Earned
  <2> QED BY <2>4, <2>5, <2>6
<1>3. CASE ~ (inference.state = "result" /\ uploaded)
  <2>1. UNCHANGED <<answered, tracked, txids>>
    BY <1>3 DEF PollOver
  <2>2. QueueTyped' /\ TxidsMatch'
    BY <1>1, <2>1 DEF QueueTyped, TxidsMatch, Optional
  <2>3. AllSeen' /\ NotAnsweredAgain'
    BY <1>1, <2>1 DEF AllSeen, NotAnsweredAgain, Elements
  <2> QED BY <2>1, <2>2, <2>3 DEF Earned
<1> QED BY <1>2, <1>3

(* A new session begins with nothing that could be answered twice.         *)
LEMMA SessionEndsKeepsInv ==
  ASSUME QueueInv, SessionEnds, tracked' \subseteq Rewarded
  PROVE  QueueInv'
<1>1. DOMAIN txids' = {} /\ txids' \in [{} -> Rewarded] /\ queue' \in Seq(Ids) /\ Len(queue') = 0
  BY DEF SessionEnds
<1>2. seen' = {} /\ answered' = {} /\ inference' = None
  BY DEF SessionEnds
<1>3. Elements(queue') = {} /\ DOMAIN queue' = {}
  BY <1>1 DEF Elements
<1>4. QueueTyped'
  BY <1>1, <1>2, LimitsAssumption DEF QueueTyped, Optional
<1>5. AllSeen' /\ TxidsMatch' /\ NotAnsweredAgain'
  BY <1>1, <1>2, <1>3 DEF AllSeen, TxidsMatch, NotAnsweredAgain
<1> QED BY <1>4, <1>5 DEF QueueInv

LEMMA LeaveKeepsInv ==
  ASSUME QueueInv, Leave
  PROVE  QueueInv' /\ Earned
<1>1. SessionEnds /\ tracked' = tracked /\ tracked \subseteq Rewarded
  BY DEF Leave, QueueInv, QueueTyped
<1> QED BY <1>1, SessionEndsKeepsInv DEF Earned

(* An answer that cannot be sent is the last thing of its session.         *)
LEMMA AnswerLostKeepsInv ==
  ASSUME QueueInv, AnswerLost
  PROVE  QueueInv' /\ Earned
<1>1. /\ SessionEnds /\ ~connected'
      /\ tracked' = tracked \cup RewardOf(inference.id)
  BY DEF AnswerLost, SessionEnds
<1>2. /\ RewardOf(inference.id) \subseteq Rewarded
      /\ \A tx \in RewardOf(inference.id) :
           /\ inference = [id |-> IdOf[tx], state |-> "result"]
           /\ IdOf[tx] \notin answered
  BY RewardFacts DEF AnswerLost
<1>3. tracked' \subseteq Rewarded
  BY <1>1, <1>2 DEF QueueInv, QueueTyped
<1> QED BY <1>1, <1>2, <1>3, SessionEndsKeepsInv DEF Earned

LEMMA InferenceEndsKeepsInv ==
  ASSUME QueueInv, NEW state \in InferenceStates, InferenceEnds(state)
  PROVE  QueueInv' /\ tracked' = tracked
<1>1. /\ inference \in [id : Ids, state : InferenceStates] /\ inference # None
      /\ inference' = [inference EXCEPT !.state = state]
      /\ UNCHANGED <<queue, seen, txids, results>>
  BY DEF InferenceEnds, QueueInv, QueueTyped, Optional
<1>2. inference' \in [id : Ids, state : InferenceStates] /\ inference'.id = inference.id
  BY <1>1
<1> QED BY <1>1, <1>2 DEF QueueInv, QueueTyped, Optional, AllSeen, TxidsMatch,
  NotAnsweredAgain, results

--------------------------------------------------------------------------------
(* Steps. *)

(* What a step does to the requests.                                       *)
Idle == UNCHANGED <<requests, results>>

RequestStep ==
  \/ Idle \/ Leave \/ AnswerLost
  \/ \E uploaded \in BOOLEAN : PollOver(uploaded)
  \/ \E tx \in Optional(Txs) : ScanAndStart(tx) /\ UNCHANGED results
  \/ \E state \in InferenceStates : InferenceEnds(state)

LEMMA TemplateIsRequestStep == Template \/ TemplateError => RequestStep
<1>1. TemplateError => RequestStep
  BY DEF TemplateError, RequestStep
<1>2. ASSUME NEW c, NEW f, NEW uploaded \in BOOLEAN, TemplatePolls(uploaded, c, f)
      PROVE  RequestStep
  BY <1>2 DEF TemplatePolls, RequestStep
<1>3. ASSUME NEW c, NEW f, TemplateWithoutModels(c, f)
      PROVE  RequestStep
  BY <1>3 DEF TemplateWithoutModels, RequestStep, Idle
<1>4. ASSUME NEW c, NEW f, NEW tx \in Optional(Txs), NEW synced \in BOOLEAN,
             TemplateScans(tx, synced, c, f)
      PROVE  RequestStep
  BY <1>4 DEF TemplateScans, RequestStep
<1>5. ASSUME NEW c, NEW f, NEW synced \in BOOLEAN, TemplateWithoutBlock(synced, c, f)
      PROVE  RequestStep
  <2>1. None \in Optional(Txs) /\ ScanAndStart(None) /\ UNCHANGED results
    BY <1>5 DEF TemplateWithoutBlock, ScanAndStart, Optional
  <2> QED BY <2>1 DEF RequestStep
<1> QED BY <1>1, <1>2, <1>3, <1>4, <1>5 DEF Template

LEMMA NextIsRequestStep == [Next]_vars => RequestStep
<1> SUFFICES ASSUME [Next]_vars PROVE RequestStep
  OBVIOUS
<1> USE DEF RequestStep, Idle
<1>1. CASE UNCHANGED vars
  BY <1>1 DEF vars, requests, results
<1>2. CASE Connect \/ Notified \/ OwnBlockFound \/ BlockAddedWithoutTxs \/ GetBlockError
  BY <1>2 DEF Connect, Notified, OwnBlockFound, BlockAddedWithoutTxs, GetBlockError
<1>3. CASE \E tx \in Optional(Txs) : BlockAdded(tx) \/ GetBlockResponse(tx)
  BY <1>3 DEF BlockAdded, GetBlockResponse
<1>4. CASE \E uploaded \in BOOLEAN : Tick(uploaded)
  BY <1>4 DEF Tick
<1>5. CASE Template \/ TemplateError
  BY <1>5, TemplateIsRequestStep
<1>6. CASE Disconnect \/ AnswerLost
  BY <1>6 DEF Disconnect
<1>7. CASE \E state \in InferenceStates \ {"running"} : InferenceEnds(state)
  BY <1>7
<1>8. CASE ChallengeEnds \/ \E m \in Models : FilesChange(m)
  BY <1>8 DEF ChallengeEnds, FilesChange
<1> QED BY <1>1, <1>2, <1>3, <1>4, <1>5, <1>6, <1>7, <1>8 DEF Next

LEMMA StepKeepsQueueInv ==
  ASSUME Cardinality(Ids) <= MaxSeen, QueueInv, [Next]_vars
  PROVE  QueueInv' /\ Earned
<1>1. RequestStep
  BY NextIsRequestStep
<1>2. CASE Idle
  BY <1>2 DEF Idle, requests, results, QueueInv, QueueTyped, AllSeen, TxidsMatch,
    NotAnsweredAgain, Earned
<1>3. CASE Leave \/ AnswerLost
  BY <1>3, LeaveKeepsInv, AnswerLostKeepsInv
<1>4. ASSUME NEW tx \in Optional(Txs), ScanAndStart(tx), UNCHANGED results
      PROVE  QueueInv' /\ Earned
  BY <1>4, ScanKeepsInv DEF results, Earned
<1>5. ASSUME NEW uploaded \in BOOLEAN, PollOver(uploaded)
      PROVE  QueueInv' /\ Earned
  BY <1>5, PollKeepsInv
<1>6. ASSUME NEW state \in InferenceStates, InferenceEnds(state)
      PROVE  QueueInv' /\ Earned
  BY <1>6, InferenceEndsKeepsInv DEF Earned
<1> QED BY <1>1, <1>2, <1>3, <1>4, <1>5, <1>6 DEF RequestStep

(* The rest of the session.                                                *)
LEMMA StepKeepsSessionTyped == SessionTyped /\ [Next]_vars => SessionTyped'
<1> SUFFICES ASSUME SessionTyped, [Next]_vars PROVE SessionTyped'
  OBVIOUS
<1> DEFINE Counted == asked' \in 0 .. MaxAsked /\ challenges' \in 0 .. MaxChallenges
<1> USE DEF gate, miners, node
<1>1. asked \in 0 .. MaxAsked /\ challenges \in 0 .. MaxChallenges
  BY DEF SessionTyped
<1>2. CASE UNCHANGED vars
  BY <1>2 DEF vars, SessionTyped
<1>3. CASE Connect \/ BlockAddedWithoutTxs \/ GetBlockError
  BY <1>3, Zenon DEF Connect, BlockAddedWithoutTxs, GetBlockError, SessionTyped
<1>4. CASE Notified \/ OwnBlockFound \/ \E uploaded \in BOOLEAN : Tick(uploaded)
  <2>1. /\ Counted
        /\ (challenge' = None /\ flag' = FALSE) \/ UNCHANGED <<challenge, flag>>
    BY <1>1, <1>4, BoundsAssumption DEF Notified, OwnBlockFound, Tick, Ask, Harvest
  <2>2. UNCHANGED <<connected, files, past, miners, blocks>>
    BY <1>4 DEF Notified, OwnBlockFound, Tick
  <2> QED BY <2>1, <2>2, Zenon DEF SessionTyped
<1>5. CASE \E tx \in Optional(Txs) : BlockAdded(tx) \/ GetBlockResponse(tx)
  BY <1>5 DEF BlockAdded, GetBlockResponse, SessionTyped
<1>6. CASE Template
  <2>1. PICK high, challenged, f \in BOOLEAN, c \in {None, "running", "over"} :
          /\ Header(high, challenged, c, f)
          /\ \/ \E uploaded \in BOOLEAN : TemplatePolls(uploaded, c, f)
             \/ TemplateWithoutModels(c, f)
             \/ \E tx \in Optional(Txs), synced \in BOOLEAN : TemplateScans(tx, synced, c, f)
             \/ ~high /\ \E synced \in BOOLEAN : TemplateWithoutBlock(synced, c, f)
    BY <1>6 DEF Template
  <2>2. past' \in BOOLEAN /\ challenges' \in 0 .. MaxChallenges /\ asked > 0
    BY <1>1, <2>1, BoundsAssumption DEF Header
  <2>3. CASE \E uploaded \in BOOLEAN : TemplatePolls(uploaded, c, f)
    <3>1. /\ asked' = asked /\ UNCHANGED <<connected, files, mining, why, blocks>>
          /\ challenge' \in {None, c} /\ flag' \in {FALSE, f}
      BY <2>3 DEF TemplatePolls, Harvest
    <3> QED BY <1>1, <2>2, <3>1, Zenon DEF SessionTyped
  <2>4. CASE \/ TemplateWithoutModels(c, f)
             \/ \E tx \in Optional(Txs), synced \in BOOLEAN : TemplateScans(tx, synced, c, f)
             \/ \E synced \in BOOLEAN : TemplateWithoutBlock(synced, c, f)
    <3>1. /\ asked' = asked - 1 /\ UNCHANGED <<connected, files, blocks>>
          /\ challenge' = c /\ flag' = f
          /\ \/ mining' = TRUE /\ why' = None
             \/ mining' = FALSE /\ why' \in {"inference", "models", "no block"}
             \/ mining' = mining /\ why' \in {why, "no block"}
      BY <2>4, Zenon DEF TemplateWithoutModels, TemplateScans, TemplateWithoutBlock, Suspend
    <3>2. asked' \in 0 .. MaxAsked
      <4>1. asked' = asked - 1
        BY <3>1
      <4> QED BY <1>1, <2>2, <4>1, BoundsAssumption
    <3> QED BY <2>2, <3>1, <3>2, Zenon DEF SessionTyped
  <2> QED BY <2>1, <2>3, <2>4
<1>7. ASSUME SessionEnds PROVE SessionTyped'
  <2>1. Counted
    BY <1>7, BoundsAssumption DEF SessionEnds
  <2> QED BY <1>7, <2>1, Zenon DEF SessionEnds, SessionTyped
<1>8. CASE TemplateError \/ Disconnect \/ AnswerLost
  BY <1>7, <1>8, Zenon DEF TemplateError, Disconnect, AnswerLost, Leave
<1>9. CASE \/ \E state \in InferenceStates \ {"running"} : InferenceEnds(state)
           \/ ChallengeEnds \/ \E m \in Models : FilesChange(m)
  BY <1>9 DEF InferenceEnds, ChallengeEnds, FilesChange, SessionTyped
<1> QED BY <1>2, <1>3, <1>4, <1>5, <1>6, <1>8, <1>9 DEF Next

--------------------------------------------------------------------------------
(* The theorems. *)

(* The inductive invariant, with the types of the session.                 *)
THEOREM RequestsInvariant ==
  ASSUME Cardinality(Ids) <= MaxSeen
  PROVE  Spec => []IInv
<1>1. Init => IInv
  BY InitIsInductive
<1>2. IInv /\ [Next]_vars => IInv'
  BY StepKeepsQueueInv, StepKeepsSessionTyped DEF IInv, TypeOK, QueueInv
<1> QED BY <1>1, <1>2, PTL DEF Spec

(* No request is queued twice or answered twice in a session that sees no  *)
(* more than MAX_AI_SEEN_IDS of them (grpc.rs:349-361).                    *)
THEOREM AnsweredOnce ==
  ASSUME Cardinality(Ids) <= MaxSeen
  PROVE  Spec => []NotAnsweredAgain
<1>1. IInv => NotAnsweredAgain
  BY DEF IInv
<1> QED BY <1>1, RequestsInvariant, PTL

(* A reward is tracked with the first answer to its request, though the    *)
(* send of that answer may fail: then the session ends with the step       *)
(* (grpc.rs:475-531).                                                      *)
THEOREM RewardsTrackedWhenEarned ==
  ASSUME Cardinality(Ids) <= MaxSeen
  PROVE  Spec => RewardsAreEarned
<1>1. IInv /\ [Next]_vars => [Earned]_vars
  BY StepKeepsQueueInv DEF IInv, TypeOK, QueueInv
<1> QED BY <1>1, RequestsInvariant, PTL DEF Spec, RewardsAreEarned, Earned
================================================================================
