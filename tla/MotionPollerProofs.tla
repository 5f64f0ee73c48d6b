------------------------- MODULE MotionPollerProofs -------------------------
(***************************************************************************)
(* What the agent tells the server about motion keeps the promise of       *)
(* MotionFeed, and the shared motion state is exact for rules of one       *)
(* camera: for any number of cameras, rules and ids, any capacity of the   *)
(* channel and any answers.                                                *)
(***************************************************************************)
EXTENDS MotionPoller, SequenceTheorems, TLAPS

Key(ev) == <<ev.camera, ev.rule>>

\* Before the forwarding task has subscribed nothing waits and nothing was sent.
QuietInv == ~subscribed => queue = <<>> /\ \A k \in Keys : last[k].id = 0

\* The latch remembers the last message of each key.
LatchInv ==
    \A k \in Keys :
        /\ active[k] = IF last[k].active THEN last[k].id ELSE 0
        /\ ended[k] = IF last[k].active THEN 0 ELSE last[k].id
        /\ last[k].active => last[k].id # 0
        /\ IF last[k].id = 0 THEN used[k] = {} ELSE last[k].id \in used[k]

\* Who has a claim to which id: it was sent, waits, is about to be published, or
\* is tracked by the poller.
Claims(k) ==
    used[k] \cup {queue[i].id : i \in {j \in 1 .. Len(queue) : Key(queue[j]) = k}}
            \cup {hand[c].id : c \in {d \in Cameras : pc[d] = "publish" /\ Key(hand[d]) = k}}
            \cup ({ids[k[1]][k[2]]} \ {0})

\* Ids are handed out in order, and no two keys share one.
ClaimInv ==
    /\ \A k \in Keys : Claims(k) \subseteq 1 .. made
    /\ \A k, l \in Keys : k # l => Claims(k) \cap Claims(l) = {}

\* A start that waits has an id younger than all its key has had before it.
FreshInv ==
    /\ \A i \in 1 .. Len(queue) : queue[i].active =>
         /\ \A u \in used[Key(queue[i])] : u < queue[i].id
         /\ \A j \in 1 .. i - 1 : Key(queue[j]) = Key(queue[i]) => queue[j].id < queue[i].id
    /\ \A c \in Cameras : pc[c] = "publish" /\ hand[c].active =>
         /\ \A u \in used[Key(hand[c])] : u < hand[c].id
         /\ \A j \in 1 .. Len(queue) : Key(queue[j]) = Key(hand[c]) => queue[j].id < hand[c].id

\* An end of key k may follow the first n events of the channel: the last of
\* them for k is a start, or there is none and the server has heard of a start,
\* or of nothing.
Follows(k, n) ==
    \/ \E j \in 1 .. n : /\ Key(queue[j]) = k /\ queue[j].active
                         /\ \A m \in j + 1 .. n : Key(queue[m]) # k
    \/ /\ \A j \in 1 .. n : Key(queue[j]) # k
       /\ last[k].active \/ last[k].id = 0

\* Every end that waits, is about to be published or may still be noticed may
\* follow what is before it.
EndInv ==
    /\ \A i \in 1 .. Len(queue) : ~queue[i].active => Follows(Key(queue[i]), i - 1)
    /\ \A c \in Cameras : pc[c] = "publish" =>
         /\ hand[c].active = state[c][hand[c].rule]
         /\ ~hand[c].active => Follows(Key(hand[c]), Len(queue))
    /\ \A c \in Cameras : \A r \in Rules :
         state[c][r] /\ ~(pc[c] = "publish" /\ hand[c].rule = r) => Follows(<<c, r>>, Len(queue))

PollerInv == TypeOK /\ SharedExact /\ QuietInv /\ LatchInv /\ ClaimInv /\ FreshInv /\ EndInv
-----------------------------------------------------------------------------
\* The initial state: nobody tracks, publishes or has sent anything.
LEMMA PollerInit == Init => PollerInv
  <1> SUFFICES ASSUME Init PROVE PollerInv
    OBVIOUS
  <1> USE MotionAssumption DEF Init
  <1>1. Len(queue) = 0
    OBVIOUS
  <1>2. TypeOK
    <2>1. /\ \A S : <<>> \in Seq(S)
          /\ 0 \in 0 .. ResubAfter - 1 /\ ConnRefusedRetries \in 0 .. ConnRefusedRetries
          /\ 0 \in 0 .. MaxIds
      OBVIOUS
    <2>2. Len(queue) <= Queue
      BY <1>1
    <2> QED BY <2>1, <2>2 DEF TypeOK
  <1>3. SharedExact
    BY DEF SharedExact, Rules
  <1>4. QuietInv /\ LatchInv
    BY DEF QuietInv, LatchInv
  <1>5. ClaimInv
    <2>1. \A k \in Keys : ids[k[1]][k[2]] = 0
      BY DEF Keys
    <2>2. \A k \in Keys : Claims(k) = {}
      BY SMTT(30), <1>1, <2>1 DEF Claims
    <2> QED BY <2>2 DEF ClaimInv
  <1>6. FreshInv /\ EndInv
    BY <1>1 DEF FreshInv, EndInv
  <1> QED BY <1>2, <1>3, <1>4, <1>5, <1>6 DEF PollerInv

\* The rules a camera can report are rules.
LEMMA ToldRules ==
    ASSUME NEW c \in Cameras
    PROVE  /\ RulesOf[c] \cup {UnknownRule} \subseteq Rules
           /\ Told(c) \subseteq Rules \X BOOLEAN
  <1>1. RulesOf[c] \cup {UnknownRule} \subseteq Rules
    <2>1. RulesOf[c] \in {RulesOf[d] : d \in Cameras}
      OBVIOUS
    <2>2. RulesOf[c] \subseteq UNION {RulesOf[d] : d \in Cameras}
      BY <2>1, Zenon
    <2> QED BY <2>2 DEF Rules
  <1> QED BY <1>1 DEF Told

\* What an answer amounts to.
LEMMA BatchType ==
    ASSUME NEW c \in Cameras, NEW events \in Batches[c]
    PROVE  events \in Seq(Told(c)) /\ events \in Seq(Rules \X BOOLEAN)
  <1>1. PICK n \in 0 .. MaxItems : events \in [1 .. n -> Told(c)]
    BY DEF Batches
  <1>2. events \in Seq(Told(c))
    BY <1>1, MotionAssumption, SeqDef
  <1> QED BY <1>2, ToldRules, SeqMonotonic

\* The items of an answer that are still to be handled.
LEMMA BatchHead ==
    ASSUME TypeOK, NEW c \in Cameras, batch[c] # <<>>
    PROVE  /\ Head(batch[c]) \in Told(c)
           /\ Head(batch[c])[1] \in RulesOf[c] \cup {UnknownRule}
           /\ Head(batch[c])[1] \in Rules
           /\ Head(batch[c])[2] \in BOOLEAN
           /\ Tail(batch[c]) \in Seq(Told(c)) /\ Tail(batch[c]) \in Seq(Rules \X BOOLEAN)
  <1>1. batch[c] \in Seq(Told(c))
    BY DEF TypeOK
  <1>2. Head(batch[c]) \in Told(c) /\ Tail(batch[c]) \in Seq(Told(c))
    BY <1>1, HeadTailProperties
  <1> QED BY <1>2, ToldRules, SeqMonotonic DEF Told, Rules

\* reset_motion_tracking keeps the state of the pollers typed.
LEMMA ResetType ==
    ASSUME TypeOK, NEW c \in Cameras, ResetMotionTracking(c)
    PROVE  /\ state' \in [Cameras -> [Rules -> BOOLEAN]]
           /\ ids' \in [Cameras -> [Rules -> 0 .. MaxIds]]
           /\ shared' \in [Rules -> {NoMotion} \cup [camera : Cameras, id : Ids]]
  <1> USE MotionAssumption
  <1>1. [r \in Rules |-> FALSE] \in [Rules -> BOOLEAN] /\ [r \in Rules |-> 0] \in [Rules -> 0 .. MaxIds]
    OBVIOUS
  <1>2. state' \in [Cameras -> [Rules -> BOOLEAN]] /\ ids' \in [Cameras -> [Rules -> 0 .. MaxIds]]
    BY <1>1 DEF ResetMotionTracking, TypeOK
  <1> HIDE MotionAssumption
  <1>3. shared' = [r \in Rules |-> IF shared[r].camera = c THEN NoMotion ELSE shared[r]]
    BY DEF ResetMotionTracking, ClearCamera
  <1>4. \A r \in Rules : shared[r] \in {NoMotion} \cup [camera : Cameras, id : Ids]
    BY DEF TypeOK
  <1> QED BY <1>2, <1>3, <1>4

\* Every step of a poller between two publications keeps the types.
LEMMA PollType ==
    ASSUME TypeOK, NEW c \in Cameras, Poll(c) \/ BatchDone(c) \/ NoEdge(c)
    PROVE  TypeOK'
  <1> USE MotionAssumption
  <1>1. ASSUME NEW outcome \in CreateOutcomes, CreateSubscription(c, outcome) PROVE TypeOK'
    <2>1. pc' \in [Cameras -> {"create", "poll", "events", "publish", "ended"}] /\ pc'[c] # "publish"
      BY <1>1 DEF CreateSubscription, TypeOK
    <2>2. retries' \in [Cameras -> 0 .. ConnRefusedRetries]
      <3>1. pc'[c] = "create" => retries[c] > 0
        BY <1>1 DEF CreateSubscription, TypeOK
      <3> QED BY <1>1, <3>1 DEF CreateSubscription, TypeOK
    <2>3. \A d \in Cameras : pc'[d] = "publish" => pc[d] = "publish"
      BY <1>1, <2>1 DEF CreateSubscription, TypeOK
    <2> QED BY <1>1, <2>1, <2>2, <2>3 DEF CreateSubscription, TypeOK, latch
  <1>2. ASSUME Recreate(c), UNCHANGED <<batch, hand, made, subscribed, queue, latch>> PROVE TypeOK'
    <2>1. /\ pc' \in [Cameras -> {"create", "poll", "events", "publish", "ended"}]
          /\ \A d \in Cameras : pc'[d] = "publish" => pc[d] = "publish"
      BY <1>2 DEF Recreate, TypeOK
    <2>2. retries' \in [Cameras -> 0 .. ConnRefusedRetries] /\ errors' \in [Cameras -> 0 .. ResubAfter - 1]
      BY <1>2 DEF Recreate, TypeOK
    <2>3. /\ state' \in [Cameras -> [Rules -> BOOLEAN]]
          /\ ids' \in [Cameras -> [Rules -> 0 .. MaxIds]]
          /\ shared' \in [Rules -> {NoMotion} \cup [camera : Cameras, id : Ids]]
      BY <1>2, ResetType DEF Recreate
    <2> QED BY <1>2, <2>1, <2>2, <2>3 DEF TypeOK, latch
  <1>3. ASSUME NEW events \in Batches[c], PullOk(c, events) PROVE TypeOK'
    <2>1. /\ pc' \in [Cameras -> {"create", "poll", "events", "publish", "ended"}]
          /\ \A d \in Cameras : pc'[d] = "publish" => pc[d] = "publish"
      BY <1>3 DEF PullOk, TypeOK
    <2>2. errors' \in [Cameras -> 0 .. ResubAfter - 1]
      BY <1>3 DEF PullOk, TypeOK
    <2>3. /\ batch' \in [Cameras -> Seq(Rules \X BOOLEAN)]
          /\ \A d \in Cameras : batch'[d] \in Seq(Told(d))
      BY <1>3, BatchType DEF PullOk, TypeOK
    <2> QED BY <1>3, <2>1, <2>2, <2>3 DEF PullOk, TypeOK, latch
  <1>4. ASSUME NEW outcome \in SoapPost, PullFails(c, outcome) PROVE TypeOK'
    <2>1. CASE Recreate(c)
      BY <1>2, <1>4, <2>1 DEF PullFails
    <2>2. CASE ~(IsConnectishError(outcome) \/ errors[c] + 1 >= ResubAfter)
      <3>1. errors[c] \in 0 .. ResubAfter - 1 /\ errors[c] + 1 < ResubAfter
        BY <2>2 DEF TypeOK
      <3>2. errors[c] + 1 \in 0 .. ResubAfter - 1
        BY <3>1
      <3>3. errors' \in [Cameras -> 0 .. ResubAfter - 1]
        BY <1>4, <2>2, <3>2 DEF PullFails, TypeOK
      <3> QED BY <1>4, <2>2, <3>3 DEF PullFails, TypeOK, latch
    <2> QED BY <1>4, <2>1, <2>2 DEF PullFails
  <1>5. ASSUME BatchDone(c) PROVE TypeOK'
    <2>1. /\ pc' \in [Cameras -> {"create", "poll", "events", "publish", "ended"}]
          /\ \A d \in Cameras : pc'[d] = "publish" => pc[d] = "publish"
      BY <1>5 DEF BatchDone, TypeOK
    <2> QED BY <1>5, <2>1 DEF BatchDone, TypeOK, latch
  <1>6. ASSUME NoEdge(c) PROVE TypeOK'
    <2>1. /\ batch' \in [Cameras -> Seq(Rules \X BOOLEAN)]
          /\ \A d \in Cameras : batch'[d] \in Seq(Told(d))
      BY <1>6, BatchHead DEF NoEdge, TypeOK
    <2> QED BY <1>6, <2>1 DEF NoEdge, TypeOK, latch
  <1>7. ASSUME NEW outcome \in RenewOutcomes, RenewFails(c, outcome) PROVE TypeOK'
    BY <1>2, <1>7 DEF RenewFails
  <1> QED BY <1>1, <1>3, <1>4, <1>5, <1>6, <1>7 DEF Poll

\* The parts of an edge: the rule and its new value, the id the event gets.
EdgeFacts(c, r, motion, id) ==
    /\ pc[c] = "events" /\ batch[c] # <<>>
    /\ r = Head(batch[c])[1] /\ motion = Head(batch[c])[2]
    /\ state[c][r] # motion
    /\ \/ id = made + 1 /\ made' = made + 1 /\ made < MaxIds
       \/ id = ids[c][r] /\ id # 0 /\ made' = made /\ motion = FALSE
    /\ state' = [state EXCEPT ![c][r] = motion]
    /\ ids' = [ids EXCEPT ![c][r] = IF motion THEN id ELSE 0]
    /\ shared' = [shared EXCEPT ![r] = IF motion THEN [camera |-> c, id |-> id] ELSE NoMotion]
    /\ hand' = [hand EXCEPT ![c] = MotionEvent(c, r, motion, id)]
    /\ batch' = [batch EXCEPT ![c] = Tail(@)]
    /\ pc' = [pc EXCEPT ![c] = "publish"]
    /\ UNCHANGED <<retries, errors, subscribed, queue, active, ended, last, used>>

LEMMA EdgeIs ==
    ASSUME TypeOK, NEW c \in Cameras, Edge(c)
    PROVE  \E r \in Rules, motion \in BOOLEAN, id \in Ids : EdgeFacts(c, r, motion, id)
  <1> DEFINE r      == Head(batch[c])[1]
             motion == Head(batch[c])[2]
             fresh  == motion \/ ids[c][r] = 0
             id     == IF fresh THEN made + 1 ELSE ids[c][r]
  <1>1. batch[c] # <<>> /\ pc[c] = "events"
    BY DEF Edge
  <1>2. r \in Rules /\ motion \in BOOLEAN
    BY <1>1, BatchHead
  <1>3. /\ state[c][r] # motion
        /\ fresh => made < MaxIds
        /\ made' = IF fresh THEN made + 1 ELSE made
        /\ state' = [state EXCEPT ![c][r] = motion]
        /\ ids' = [ids EXCEPT ![c][r] = IF motion THEN id ELSE 0]
        /\ shared' = [shared EXCEPT ![r] = IF motion THEN [camera |-> c, id |-> id] ELSE NoMotion]
        /\ hand' = [hand EXCEPT ![c] = MotionEvent(c, r, motion, id)]
        /\ batch' = [batch EXCEPT ![c] = Tail(@)]
        /\ pc' = [pc EXCEPT ![c] = "publish"]
        /\ UNCHANGED <<retries, errors, subscribed, queue, active, ended, last, used>>
    BY DEF Edge, SetShared, latch
  <1>4. made \in 0 .. MaxIds /\ ids[c][r] \in 0 .. MaxIds
    <2>1. ids \in [Cameras -> [Rules -> 0 .. MaxIds]] /\ made \in 0 .. MaxIds
      BY DEF TypeOK
    <2> HIDE DEF r
    <2> QED BY <1>2, <2>1
  <1>5. id \in Ids
    BY SMTT(30), <1>3, <1>4, MotionAssumption DEF Ids
  <1>6. \/ id = made + 1 /\ made' = made + 1 /\ made < MaxIds
        \/ id = ids[c][r] /\ id # 0 /\ made' = made /\ motion = FALSE
    BY <1>2, <1>3
  <1> HIDE DEF r, motion, fresh, id
  <1>7. EdgeFacts(c, r, motion, id)
    BY <1>1, <1>3, <1>6 DEF EdgeFacts, r, motion
  <1> QED BY <1>2, <1>5, <1>7

\* An edge keeps the types.
LEMMA EdgeType ==
    ASSUME TypeOK, NEW c \in Cameras, NEW r \in Rules, NEW motion \in BOOLEAN, NEW id \in Ids,
           EdgeFacts(c, r, motion, id)
    PROVE  TypeOK'
  <1> USE DEF EdgeFacts
  <1>1. /\ pc' \in [Cameras -> {"create", "poll", "events", "publish", "ended"}]
        /\ \A d \in Cameras \ {c} : pc'[d] = pc[d]
    BY DEF TypeOK
  <1>2. state' \in [Cameras -> [Rules -> BOOLEAN]]
    BY DEF TypeOK
  <1>3. ids' \in [Cameras -> [Rules -> 0 .. MaxIds]]
    <2>1. (IF motion THEN id ELSE 0) \in 0 .. MaxIds
      BY MotionAssumption DEF Ids
    <2> QED BY <2>1 DEF TypeOK
  <1>4. /\ batch' \in [Cameras -> Seq(Rules \X BOOLEAN)]
        /\ \A d \in Cameras : batch'[d] \in Seq(Told(d))
    BY BatchHead DEF TypeOK
  <1>5. /\ hand' \in [Cameras -> {NoMotion} \cup MotionEvents]
        /\ hand'[c] \in MotionEvents /\ hand'[c].camera = c
        /\ \A d \in Cameras \ {c} : hand'[d] = hand[d]
    <2>1. MotionEvent(c, r, motion, id) \in MotionEvents /\ MotionEvent(c, r, motion, id).camera = c
      BY DEF MotionEvent, MotionEvents
    <2> QED BY <2>1 DEF TypeOK
  <1>6. made' \in 0 .. MaxIds
    <2>1. made \in 0 .. MaxIds /\ (made' = made \/ (made' = made + 1 /\ made < MaxIds))
      BY DEF TypeOK
    <2> QED BY <2>1, MotionAssumption
  <1>7. shared' \in [Rules -> {NoMotion} \cup [camera : Cameras, id : Ids]]
    <2>1. (IF motion THEN [camera |-> c, id |-> id] ELSE NoMotion)
             \in {NoMotion} \cup [camera : Cameras, id : Ids]
      OBVIOUS
    <2> QED BY <2>1 DEF TypeOK
  <1>8. \A d \in Cameras : pc'[d] = "publish" => hand'[d] \in MotionEvents /\ hand'[d].camera = d
    BY <1>1, <1>5 DEF TypeOK
  <1> QED BY <1>1, <1>2, <1>3, <1>4, <1>5, <1>6, <1>7, <1>8 DEF TypeOK

\* A publication keeps the types.
LEMMA PublishType ==
    ASSUME TypeOK, NEW c \in Cameras, Publish(c)
    PROVE  /\ TypeOK'
           /\ hand[c] \in MotionEvents /\ hand[c].camera = c
  <1>1. hand[c] \in MotionEvents /\ hand[c].camera = c /\ queue \in Seq(MotionEvents)
    BY DEF TypeOK, Publish
  <1>2. /\ pc' \in [Cameras -> {"create", "poll", "events", "publish", "ended"}]
        /\ \A d \in Cameras : pc'[d] = "publish" => pc[d] = "publish" /\ d # c
    BY DEF TypeOK, Publish
  <1>3. /\ hand' \in [Cameras -> {NoMotion} \cup MotionEvents]
        /\ \A d \in Cameras \ {c} : hand'[d] = hand[d]
    BY DEF TypeOK, Publish
  <1>4. queue' \in Seq(MotionEvents) /\ Len(queue') <= Queue
    <2>1. CASE subscribed
      <3>1. queue' = Append(queue, hand[c]) /\ Len(queue) < Queue
        BY <2>1 DEF Publish
      <3>2. queue' \in Seq(MotionEvents) /\ Len(queue') = Len(queue) + 1 /\ Len(queue) \in Nat
        BY <1>1, <3>1, AppendProperties, LenProperties
      <3> QED BY <3>1, <3>2, MotionAssumption
    <2>2. CASE ~subscribed
      BY <2>2 DEF Publish, TypeOK
    <2> QED BY <2>1, <2>2
  <1> QED BY <1>1, <1>2, <1>3, <1>4 DEF TypeOK, Publish, latch

\* The parts of a forwarded event.
LEMMA ForwardIs ==
    ASSUME TypeOK, NEW within \in BOOLEAN, Forward(within)
    PROVE  /\ subscribed /\ queue # <<>> /\ Len(queue) \in Nat \ {0}
           /\ Head(queue) = queue[1] /\ queue[1] \in MotionEvents
           /\ Key(queue[1]) \in Keys
           /\ queue' = Tail(queue) /\ queue' \in Seq(MotionEvents) /\ Len(queue') = Len(queue) - 1
           /\ \A i \in 1 .. Len(queue) - 1 : queue'[i] = queue[i + 1]
           /\ UNCHANGED <<pc, retries, errors, state, ids, batch, hand, made, shared, subscribed>>
  <1>1. subscribed /\ queue # <<>> /\ queue' = Tail(queue) /\ queue \in Seq(MotionEvents)
    BY DEF Forward, TypeOK
  <1>2. /\ Len(queue) \in Nat \ {0} /\ Head(queue) \in MotionEvents
        /\ queue' \in Seq(MotionEvents) /\ Len(queue') = Len(queue) - 1
        /\ \A i \in 1 .. Len(queue) - 1 : queue'[i] = queue[i + 1]
    BY <1>1, HeadTailProperties, EmptySeq
  <1>3. Head(queue) = queue[1]
    BY <1>1, <1>2
  <1>4. Key(queue[1]) \in Keys
    BY <1>2, <1>3 DEF Key, Keys, MotionEvents
  <1> QED BY <1>1, <1>2, <1>3, <1>4 DEF Forward, poller

-----------------------------------------------------------------------------
\* The keys of what is published and queued.
LEMMA KeysOf ==
    ASSUME TypeOK
    PROVE  /\ \A i \in 1 .. Len(queue) : queue[i] \in MotionEvents /\ Key(queue[i]) \in Keys
           /\ \A c \in Cameras : pc[c] = "publish" =>
                 /\ hand[c] \in MotionEvents /\ Key(hand[c]) \in Keys
                 /\ Key(hand[c]) = <<c, hand[c].rule>> /\ hand[c].rule \in Rules
  <1>1. \A ev \in MotionEvents : Key(ev) \in Keys /\ ev.rule \in Rules
    BY DEF Key, Keys, MotionEvents
  <1>2. \A i \in 1 .. Len(queue) : queue[i] \in MotionEvents
    BY ElementOfSeq DEF TypeOK
  <1>3. \A c \in Cameras : pc[c] = "publish" => hand[c] \in MotionEvents /\ hand[c].camera = c
    BY DEF TypeOK
  <1> QED BY <1>1, <1>2, <1>3 DEF Key

\* No new claims, no new conflicts.
LEMMA ClaimsKept ==
    ASSUME ClaimInv, made' = made, \A k \in Keys : Claims(k)' \subseteq Claims(k)
    PROVE  ClaimInv'
  BY DEF ClaimInv

\* A step in which nothing is published or sent, and motion can only be forgotten.
LEMMA QuietKeeps ==
    ASSUME TypeOK, QuietInv, LatchInv, ClaimInv, FreshInv, EndInv,
           UNCHANGED <<queue, active, ended, last, used, hand, made, subscribed>>,
           \A d \in Cameras : pc'[d] = "publish" <=> pc[d] = "publish",
           \A d \in Cameras, r \in Rules : state'[d][r] => state[d][r],
           \A d \in Cameras, r \in Rules : ids'[d][r] \in {ids[d][r], 0},
           \A d \in Cameras : pc[d] = "publish" => state'[d] = state[d]
    PROVE  QuietInv' /\ LatchInv' /\ ClaimInv' /\ FreshInv' /\ EndInv'
  <1>1. QuietInv' /\ LatchInv'
    BY DEF QuietInv, LatchInv
  <1>2. ClaimInv'
    <2>1. ASSUME NEW k \in Keys PROVE Claims(k)' \subseteq Claims(k)
      <3>1. k[1] \in Cameras /\ k[2] \in Rules
        BY DEF Keys
      <3>2. {ids'[k[1]][k[2]]} \ {0} \subseteq {ids[k[1]][k[2]]} \ {0}
        BY <3>1
      <3> QED BY <3>2 DEF Claims, Key
    <2> QED BY <2>1, ClaimsKept
  <1>3. FreshInv'
    BY DEF FreshInv, Key
  <1>4. \A k \in Keys, n \in Int : Follows(k, n)' <=> Follows(k, n)
    BY DEF Follows, Key
  <1>5. EndInv'
    <2>0. Len(queue) \in Nat
      BY LenProperties DEF TypeOK
    <2>1. ASSUME NEW i \in 1 .. Len(queue), ~queue[i].active PROVE Follows(Key(queue[i]), i - 1)'
      BY <1>4, <2>1, KeysOf DEF EndInv, Key
    <2>2. ASSUME NEW c \in Cameras, pc[c] = "publish"
          PROVE  /\ hand[c].active = state'[c][hand[c].rule]
                 /\ ~hand[c].active => Follows(Key(hand[c]), Len(queue))'
      BY <1>4, <2>0, <2>2, KeysOf DEF EndInv, Key
    <2>3. ASSUME NEW c \in Cameras, NEW r \in Rules, state'[c][r],
                 ~(pc[c] = "publish" /\ hand[c].rule = r)
          PROVE  Follows(<<c, r>>, Len(queue))'
      <3>1. <<c, r>> \in Keys /\ Follows(<<c, r>>, Len(queue))
        BY <2>3 DEF EndInv, Keys
      <3> QED BY <1>4, <2>0, <3>1
    <2> QED BY <2>1, <2>2, <2>3 DEF EndInv, Key
  <1> QED BY <1>1, <1>2, <1>3, <1>5

\* clear_camera forgets what the poller forgets, and nothing of other cameras.
LEMMA ResetShared ==
    ASSUME TypeOK, SharedExact, NEW c \in Cameras, ResetMotionTracking(c)
    PROVE  SharedExact'
  <1> SUFFICES ASSUME NEW d \in Cameras, NEW r \in RulesOf[d] \ {UnknownRule},
                      \A e \in Cameras \ {d} : r \notin RulesOf[e]
               PROVE  shared'[r] = IF state'[d][r] THEN [camera |-> d, id |-> ids'[d][r]] ELSE NoMotion
    BY DEF SharedExact
  <1>1. r \in Rules
    BY ToldRules
  <1>2. shared[r] = IF state[d][r] THEN [camera |-> d, id |-> ids[d][r]] ELSE NoMotion
    BY DEF SharedExact
  <1>3. shared'[r] = IF shared[r].camera = c THEN NoMotion ELSE shared[r]
    BY <1>1 DEF ResetMotionTracking, ClearCamera
  <1>4. CASE d = c
    <2>1. ~state'[d][r]
      BY <1>1, <1>4 DEF ResetMotionTracking, TypeOK
    <2> QED BY <1>2, <1>3, <1>4, <2>1
  <1>5. CASE d # c
    <2>1. state'[d][r] = state[d][r] /\ ids'[d][r] = ids[d][r]
      BY <1>5 DEF ResetMotionTracking, TypeOK
    <2> QED BY <1>2, <1>3, <1>5, <2>1
  <1> QED BY <1>4, <1>5

\* Every step of a poller that notices no edge preserves the invariant.
LEMMA PollKeeps ==
    ASSUME PollerInv, NEW c \in Cameras, Poll(c) \/ BatchDone(c) \/ NoEdge(c)
    PROVE  PollerInv'
  <1>0. TypeOK /\ SharedExact /\ QuietInv /\ LatchInv /\ ClaimInv /\ FreshInv /\ EndInv /\ TypeOK'
    BY PollType DEF PollerInv
  <1>1. UNCHANGED <<queue, active, ended, last, used, hand, made, subscribed>>
    BY DEF Poll, CreateSubscription, RenewFails, PullOk, PullFails, BatchDone, NoEdge, latch
  <1>2. \/ ResetMotionTracking(c) /\ pc[c] # "publish"
        \/ UNCHANGED <<state, ids, shared>>
    BY DEF Poll, CreateSubscription, RenewFails, PullOk, PullFails, BatchDone, NoEdge, Recreate
  <1>3. \A d \in Cameras : pc'[d] = "publish" <=> pc[d] = "publish"
    <2>1. ASSUME NEW outcome \in CreateOutcomes, CreateSubscription(c, outcome)
          PROVE  \A d \in Cameras : pc'[d] = "publish" <=> pc[d] = "publish"
      BY <1>0, <2>1 DEF CreateSubscription, TypeOK
    <2>2. ASSUME Recreate(c), pc[c] = "poll"
          PROVE  \A d \in Cameras : pc'[d] = "publish" <=> pc[d] = "publish"
      BY <1>0, <2>2 DEF Recreate, TypeOK
    <2>3. ASSUME NEW outcome \in SoapPost, PullFails(c, outcome)
          PROVE  \A d \in Cameras : pc'[d] = "publish" <=> pc[d] = "publish"
      BY <2>2, <2>3 DEF PullFails
    <2>4. ASSUME \/ \E events \in Batches[c] : PullOk(c, events)
                 \/ BatchDone(c) \/ NoEdge(c)
          PROVE  \A d \in Cameras : pc'[d] = "publish" <=> pc[d] = "publish"
      BY <1>0, <2>4 DEF PullOk, BatchDone, NoEdge, TypeOK
    <2>5. ASSUME NEW outcome \in RenewOutcomes, RenewFails(c, outcome)
          PROVE  \A d \in Cameras : pc'[d] = "publish" <=> pc[d] = "publish"
      BY <2>2, <2>5 DEF RenewFails
    <2> QED BY <2>1, <2>3, <2>4, <2>5 DEF Poll
  <1>4. CASE UNCHANGED <<state, ids, shared>>
    <2>1. SharedExact'
      BY <1>0, <1>4 DEF SharedExact
    <2>2. QuietInv' /\ LatchInv' /\ ClaimInv' /\ FreshInv' /\ EndInv'
      BY <1>0, <1>1, <1>3, <1>4, QuietKeeps
    <2> QED BY <1>0, <2>1, <2>2 DEF PollerInv
  <1>5. CASE ResetMotionTracking(c) /\ pc[c] # "publish"
    <2>1. SharedExact'
      BY <1>0, <1>5, ResetShared
    <2>2. /\ \A d \in Cameras, r \in Rules : state'[d][r] => state[d][r]
          /\ \A d \in Cameras, r \in Rules : ids'[d][r] \in {ids[d][r], 0}
          /\ \A d \in Cameras : pc[d] = "publish" => state'[d] = state[d]
      <3>1. /\ \A d \in Cameras \ {c} : state'[d] = state[d] /\ ids'[d] = ids[d]
            /\ state'[c] = [r \in Rules |-> FALSE] /\ ids'[c] = [r \in Rules |-> 0]
        BY <1>0, <1>5 DEF ResetMotionTracking, TypeOK
      <3> QED BY <1>5, <3>1
    <2>3. QuietInv' /\ LatchInv' /\ ClaimInv' /\ FreshInv' /\ EndInv'
      BY <1>0, <1>1, <1>3, <2>2, QuietKeeps
    <2> QED BY <1>0, <2>1, <2>3 DEF PollerInv
  <1> QED BY <1>2, <1>4, <1>5

\* The forwarding task starts to listen.
LEMMA SubscribeKeeps ==
    ASSUME PollerInv, Subscribe
    PROVE  PollerInv'
  <1>1. /\ UNCHANGED <<pc, retries, errors, state, ids, batch, hand, made, shared, queue, active, ended,
                       last, used>>
        /\ subscribed' = TRUE
    BY DEF Subscribe, poller, latch
  <1>2. TypeOK' /\ SharedExact'
    BY <1>1 DEF PollerInv, TypeOK, SharedExact
  <1>3. QuietInv' /\ LatchInv'
    BY <1>1 DEF PollerInv, QuietInv, LatchInv
  <1>4. ClaimInv' /\ FreshInv'
    <2>1. \A k \in Keys : Claims(k)' = Claims(k)
      BY <1>1 DEF Claims, Key
    <2>2. ClaimInv'
      BY <1>1, <2>1, ClaimsKept DEF PollerInv
    <2>3. FreshInv'
      BY <1>1 DEF PollerInv, FreshInv, Key
    <2> QED BY <2>2, <2>3
  <1>5. EndInv'
    BY <1>1 DEF PollerInv, EndInv, Follows, Key
  <1> QED BY <1>2, <1>3, <1>4, <1>5 DEF PollerInv

\* An edge preserves the invariant: the id it makes is younger than all others,
\* and an end it notices follows the start that was noticed before.
LEMMA EdgeKeeps ==
    ASSUME PollerInv, NEW c \in Cameras, NEW r \in Rules, NEW motion \in BOOLEAN, NEW id \in Ids,
           EdgeFacts(c, r, motion, id)
    PROVE  PollerInv'
  <1>0. TypeOK /\ SharedExact /\ QuietInv /\ LatchInv /\ ClaimInv /\ FreshInv /\ EndInv /\ TypeOK'
    BY EdgeType DEF PollerInv
  <1>1. UNCHANGED <<queue, active, ended, last, used, subscribed>> /\ pc[c] = "events"
    BY DEF EdgeFacts
  <1>2. \A d \in Cameras \ {c} :
          pc'[d] = pc[d] /\ hand'[d] = hand[d] /\ state'[d] = state[d] /\ ids'[d] = ids[d]
    BY <1>0 DEF EdgeFacts, TypeOK
  <1>3. pc'[c] = "publish" /\ hand'[c] = MotionEvent(c, r, motion, id)
    BY <1>0 DEF EdgeFacts, TypeOK
  <1>4. /\ state'[c][r] = motion /\ ids'[c][r] = (IF motion THEN id ELSE 0)
        /\ \A q \in Rules \ {r} : state'[c][q] = state[c][q] /\ ids'[c][q] = ids[c][q]
    BY <1>0 DEF EdgeFacts, TypeOK
  <1>5. ~motion => state[c][r]
    <2>1. state[c][r] \in BOOLEAN
      BY <1>0 DEF TypeOK
    <2>2. state[c][r] # motion
      BY DEF EdgeFacts
    <2> QED BY <2>1, <2>2
  <1>6. Key(hand'[c]) = <<c, r>> /\ hand'[c].rule = r /\ hand'[c].active = motion /\ hand'[c].id = id
    BY <1>3 DEF Key, MotionEvent
  <1>7. made \in Nat /\ Len(queue) \in Nat
    BY <1>0, LenProperties DEF TypeOK
  <1>8. SharedExact'
    <2> SUFFICES ASSUME NEW d \in Cameras, NEW q \in RulesOf[d] \ {UnknownRule},
                        \A e \in Cameras \ {d} : q \notin RulesOf[e]
                 PROVE  shared'[q] = IF state'[d][q] THEN [camera |-> d, id |-> ids'[d][q]] ELSE NoMotion
      BY DEF SharedExact
    <2>1. q \in Rules
      BY ToldRules
    <2>2. shared' = [shared EXCEPT ![r] = IF motion THEN [camera |-> c, id |-> id] ELSE NoMotion]
      BY DEF EdgeFacts
    <2>3. shared \in [Rules -> {NoMotion} \cup [camera : Cameras, id : Ids]]
      BY <1>0 DEF TypeOK
    <2>4. CASE q = r
      <3>1. r \in RulesOf[c] \cup {UnknownRule}
        BY <1>0, BatchHead DEF EdgeFacts
      <3>2. d = c
        BY <2>4, <3>1
      <3> QED BY <1>4, <2>2, <2>3, <2>4, <3>2
    <2>5. CASE q # r
      <3>1. shared'[q] = shared[q]
        BY <2>1, <2>2, <2>3, <2>5
      <3>2. state'[d][q] = state[d][q] /\ ids'[d][q] = ids[d][q]
        BY <1>2, <1>4, <2>1, <2>5
      <3> QED BY <1>0, <3>1, <3>2 DEF SharedExact
    <2> QED BY <2>4, <2>5
  <1>9. QuietInv' /\ LatchInv'
    BY <1>0, <1>1 DEF QuietInv, LatchInv
  <1>10. /\ \A k \in Keys \ {<<c, r>>} : Claims(k)' \subseteq Claims(k)
         /\ Claims(<<c, r>>)' \subseteq Claims(<<c, r>>) \cup {id}
    <2>1. ASSUME NEW k \in Keys, NEW u \in Claims(k)', u \notin Claims(k)
          PROVE  u = id /\ k = <<c, r>>
      <3>1. k = <<k[1], k[2]>> /\ k[1] \in Cameras /\ k[2] \in Rules
        BY DEF Keys
      <3>2. CASE u \in used'[k] \cup {queue'[i].id : i \in {j \in 1 .. Len(queue') : Key(queue'[j]) = k}}
        BY <1>1, <2>1, <3>2 DEF Claims
      <3>3. CASE \E d \in Cameras : pc'[d] = "publish" /\ Key(hand'[d]) = k /\ u = hand'[d].id
        <4>1. PICK d \in Cameras : pc'[d] = "publish" /\ Key(hand'[d]) = k /\ u = hand'[d].id
          BY <3>3
        <4>2. CASE d = c
          BY <1>6, <4>1, <4>2
        <4>3. CASE d # c
          BY <1>2, <2>1, <4>1, <4>3 DEF Claims
        <4> QED BY <4>2, <4>3
      <3>4. CASE u = ids'[k[1]][k[2]] /\ u # 0
        <4>1. CASE k[1] = c /\ k[2] = r
          BY <1>4, <3>1, <3>4, <4>1
        <4>2. CASE ~(k[1] = c /\ k[2] = r)
          <5>1. ids'[k[1]][k[2]] = ids[k[1]][k[2]]
            BY <1>2, <1>4, <3>1, <4>2
          <5> QED BY <2>1, <3>4, <5>1 DEF Claims
        <4> QED BY <4>1, <4>2
      <3> QED BY <3>2, <3>3, <3>4 DEF Claims, Key
    <2>2. <<c, r>> \in Keys
      BY DEF Keys
    <2> QED BY <2>1, <2>2
  <1>11. \/ id = made + 1 /\ made' = made + 1
         \/ id \in Claims(<<c, r>>) /\ made' = made /\ motion = FALSE
    BY DEF EdgeFacts, Claims
  <1>12. ClaimInv'
    <2>1. CASE made' = made /\ id \in Claims(<<c, r>>)
      <3>1. \A k \in Keys : Claims(k)' \subseteq Claims(k)
        BY <1>10, <2>1
      <3> QED BY <1>0, <2>1, <3>1, ClaimsKept
    <2>2. CASE id = made + 1 /\ made' = made + 1
      <3>1. \A k \in Keys : Claims(k) \subseteq 1 .. made /\ made + 1 \notin Claims(k)
        BY <1>0, <1>7 DEF ClaimInv
      <3>2. \A k \in Keys : Claims(k)' \subseteq 1 .. made'
        BY <1>7, <1>10, <2>2, <3>1
      <3>3. ASSUME NEW k \in Keys, NEW l \in Keys, k # l PROVE Claims(k)' \cap Claims(l)' = {}
        <4>1. Claims(k) \cap Claims(l) = {}
          BY <1>0, <3>3 DEF ClaimInv
        <4> QED BY <1>10, <2>2, <3>1, <3>3, <4>1
      <3> QED BY <3>2, <3>3 DEF ClaimInv
    <2> QED BY <1>11, <2>1, <2>2
  <1>13. FreshInv'
    <2>1. ASSUME motion
          PROVE  /\ \A u \in used[<<c, r>>] : u < id
                 /\ \A j \in 1 .. Len(queue) : Key(queue[j]) = <<c, r>> => queue[j].id < id
      <3>1. Claims(<<c, r>>) \subseteq 1 .. made
        BY <1>0 DEF ClaimInv, Keys
      <3>2. \A u \in Claims(<<c, r>>) : u < id
        BY <1>7, <1>11, <2>1, <3>1
      <3> QED BY <3>2 DEF Claims
    <2>2. ASSUME NEW d \in Cameras, pc'[d] = "publish", hand'[d].active
          PROVE  /\ \A u \in used[Key(hand'[d])] : u < hand'[d].id
                 /\ \A j \in 1 .. Len(queue) : Key(queue[j]) = Key(hand'[d]) => queue[j].id < hand'[d].id
      <3>1. CASE d = c
        BY <1>6, <2>1, <2>2, <3>1
      <3>2. CASE d # c
        BY <1>0, <1>2, <2>2, <3>2 DEF FreshInv
      <3> QED BY <3>1, <3>2
    <2> QED BY <1>0, <1>1, <2>2 DEF FreshInv, Key
  <1>14. \A k \in Keys, n \in Int : Follows(k, n)' <=> Follows(k, n)
    BY <1>1 DEF Follows, Key
  <1>15. EndInv'
    <2>1. ASSUME NEW i \in 1 .. Len(queue), ~queue[i].active PROVE Follows(Key(queue[i]), i - 1)'
      <3>1. Key(queue[i]) \in Keys /\ i - 1 \in Int /\ Follows(Key(queue[i]), i - 1)
        BY <1>0, <1>7, <2>1, KeysOf DEF EndInv
      <3>2. Key(queue[i])' = Key(queue[i])
        BY <1>1 DEF Key
      <3> QED BY <1>14, <3>1, <3>2
    <2>2. ASSUME NEW d \in Cameras, pc'[d] = "publish"
          PROVE  /\ hand'[d].active = state'[d][hand'[d].rule]
                 /\ ~hand'[d].active => Follows(Key(hand[d]), Len(queue))'
      <3>1. CASE d = c
        <4>1. ~motion => Follows(<<c, r>>, Len(queue))
          BY <1>0, <1>1, <1>5 DEF EndInv
        <4>2. <<c, r>> \in Keys
          BY DEF Keys
        <4> QED BY <1>1, <1>4, <1>6, <1>7, <1>14, <3>1, <4>1, <4>2
      <3>2. CASE d # c
        <4>1. pc[d] = "publish" /\ hand'[d] = hand[d] /\ state'[d] = state[d] /\ Key(hand[d]) \in Keys
          BY <1>0, <1>2, <2>2, <3>2, KeysOf
        <4> QED BY <1>0, <1>1, <1>7, <1>14, <4>1 DEF EndInv
      <3> QED BY <3>1, <3>2
    <2>3. ASSUME NEW d \in Cameras, NEW q \in Rules, state'[d][q],
                 ~(pc'[d] = "publish" /\ hand'[d].rule = q)
          PROVE  Follows(<<d, q>>, Len(queue))'
      <3>1. <<d, q>> \in Keys
        BY DEF Keys
      <3>2. CASE d = c
        <4>1. q # r
          BY <1>3, <1>6, <2>3, <3>2
        <4>2. state[c][q]
          BY <1>4, <2>3, <3>2, <4>1
        <4>3. Follows(<<c, q>>, Len(queue))
          BY <1>0, <1>1, <4>2 DEF EndInv
        <4> QED BY <1>1, <1>7, <1>14, <3>1, <3>2, <4>3
      <3>3. CASE d # c
        <4>1. Follows(<<d, q>>, Len(queue))
          BY <1>0, <1>2, <2>3, <3>3 DEF EndInv
        <4> QED BY <1>1, <1>7, <1>14, <3>1, <4>1
      <3> QED BY <3>2, <3>3
    <2> QED BY <1>1, <2>1, <2>2, <2>3 DEF EndInv, Key
  <1> QED BY <1>0, <1>8, <1>9, <1>12, <1>13, <1>15 DEF PollerInv

\* Follows looks at the first n events only; an event of another key changes nothing.
LEMMA FollowsPrefix ==
    ASSUME last' = last, NEW n \in Nat, \A i \in 1 .. n : queue'[i] = queue[i], NEW k \in Keys
    PROVE  /\ Follows(k, n)' <=> Follows(k, n)
           /\ Follows(k, n) /\ Key(queue'[n + 1]) # k => Follows(k, n + 1)'
  <1>1. Follows(k, n)' <=> Follows(k, n)
    BY DEF Follows, Key
  <1>2. ASSUME Follows(k, n), Key(queue'[n + 1]) # k PROVE Follows(k, n + 1)'
    <2>1. CASE \E j \in 1 .. n : /\ Key(queue[j]) = k /\ queue[j].active
                                 /\ \A m \in j + 1 .. n : Key(queue[m]) # k
      <3>1. PICK j \in 1 .. n : /\ Key(queue[j]) = k /\ queue[j].active
                                /\ \A m \in j + 1 .. n : Key(queue[m]) # k
        BY <2>1
      <3>2. \A m \in j + 1 .. n + 1 : Key(queue'[m]) # k
        <4> SUFFICES ASSUME NEW m \in j + 1 .. n + 1 PROVE Key(queue'[m]) # k
          OBVIOUS
        <4>1. CASE m = n + 1
          BY <1>2, <4>1
        <4>2. CASE m \in j + 1 .. n /\ m \in 1 .. n
          BY <3>1, <4>2
        <4> QED BY <4>1, <4>2
      <3>3. j \in 1 .. n + 1 /\ Key(queue'[j]) = k /\ queue'[j].active
        BY <3>1
      <3> QED BY <3>2, <3>3 DEF Follows, Key
    <2>2. CASE /\ \A j \in 1 .. n : Key(queue[j]) # k
               /\ last[k].active \/ last[k].id = 0
      <3>1. \A j \in 1 .. n + 1 : Key(queue'[j]) # k
        <4> SUFFICES ASSUME NEW j \in 1 .. n + 1 PROVE Key(queue'[j]) # k
          OBVIOUS
        <4>1. CASE j = n + 1
          BY <1>2, <4>1
        <4>2. CASE j \in 1 .. n
          BY <2>2, <4>2
        <4> QED BY <4>1, <4>2
      <3> QED BY <2>2, <3>1 DEF Follows, Key
    <2> QED BY <1>2, <2>1, <2>2 DEF Follows
  <1> QED BY <1>1, <1>2

\* A publication preserves the invariant: the event in hand goes to the end of
\* the channel, or nobody listens yet.
LEMMA PublishKeeps ==
    ASSUME PollerInv, NEW c \in Cameras, Publish(c)
    PROVE  PollerInv'
  <1>0. TypeOK /\ SharedExact /\ QuietInv /\ LatchInv /\ ClaimInv /\ FreshInv /\ EndInv /\ TypeOK'
    BY PublishType DEF PollerInv
  <1>1. /\ UNCHANGED <<state, ids, made, shared, active, ended, last, used, subscribed>>
        /\ pc[c] = "publish"
    BY DEF Publish, latch
  <1>2. /\ pc'[c] = "events"
        /\ \A d \in Cameras \ {c} : pc'[d] = pc[d] /\ hand'[d] = hand[d]
    BY <1>0 DEF Publish, TypeOK
  <1>3. Key(hand[c]) = <<c, hand[c].rule>> /\ Key(hand[c]) \in Keys /\ hand[c].rule \in Rules
    BY <1>0, <1>1, KeysOf
  <1>4. Len(queue) \in Nat /\ queue \in Seq(MotionEvents)
    BY <1>0, LenProperties DEF TypeOK
  <1>5. SharedExact' /\ LatchInv'
    BY <1>0, <1>1 DEF SharedExact, LatchInv
  <1>6. CASE ~subscribed
    <2>1. queue' = queue /\ Len(queue) = 0
      BY <1>0, <1>6 DEF Publish, QuietInv
    <2>2. QuietInv'
      BY <1>0, <1>1, <2>1 DEF QuietInv
    <2>3. \A k \in Keys : Claims(k)' \subseteq Claims(k)
      BY <1>1, <1>2, <2>1 DEF Claims, Key
    <2>4. ClaimInv'
      BY <1>0, <1>1, <2>3, ClaimsKept
    <2>5. FreshInv'
      BY <1>0, <1>1, <1>2, <2>1 DEF FreshInv, Key
    <2>6. \A k \in Keys : Follows(k, Len(queue))'
      BY <1>0, <1>1, <1>6, <2>1 DEF Follows, QuietInv
    <2>7. EndInv'
      <3>1. ASSUME NEW d \in Cameras, pc'[d] = "publish"
            PROVE  /\ hand'[d].active = state'[d][hand'[d].rule]
                   /\ Follows(Key(hand[d]), Len(queue))'
        <4>1. d # c /\ pc[d] = "publish" /\ hand'[d] = hand[d]
          BY <1>2, <3>1
        <4>2. hand[d].active = state[d][hand[d].rule] /\ Key(hand[d]) \in Keys
          BY <1>0, <4>1, KeysOf DEF EndInv
        <4>3. Key(hand[d])' = Key(hand[d])
          BY <4>1 DEF Key
        <4> QED BY <1>1, <2>6, <4>1, <4>2, <4>3
      <3>2. \A d \in Cameras, r \in Rules : Follows(<<d, r>>, Len(queue))'
        BY <2>6 DEF Keys
      <3> QED BY <2>1, <3>1, <3>2 DEF EndInv, Key
    <2> QED BY <1>0, <1>5, <2>2, <2>4, <2>5, <2>7 DEF PollerInv
  <1>7. CASE subscribed
    <2>1. /\ queue' = Append(queue, hand[c]) /\ Len(queue') = Len(queue) + 1
          /\ \A i \in 1 .. Len(queue) : queue'[i] = queue[i]
          /\ queue'[Len(queue) + 1] = hand[c]
      <3>1. hand[c] \in MotionEvents
        BY <1>0, <1>1, KeysOf
      <3> QED BY <1>4, <1>7, <3>1, AppendProperties DEF Publish
    <2>2. QuietInv'
      BY <1>1, <1>7 DEF QuietInv
    <2>3. \A k \in Keys : Claims(k)' \subseteq Claims(k)
      <3> SUFFICES ASSUME NEW k \in Keys, NEW u \in Claims(k)' PROVE u \in Claims(k)
        OBVIOUS
      <3>1. CASE u \in used'[k] \cup ({ids'[k[1]][k[2]]} \ {0})
        BY <1>1, <3>1 DEF Claims
      <3>2. CASE \E i \in 1 .. Len(queue') : Key(queue'[i]) = k /\ u = queue'[i].id
        <4>1. PICK i \in 1 .. Len(queue') : Key(queue'[i]) = k /\ u = queue'[i].id
          BY <3>2
        <4>2. CASE i \in 1 .. Len(queue)
          BY <2>1, <4>1, <4>2 DEF Claims
        <4>3. CASE i = Len(queue) + 1
          BY <1>1, <2>1, <4>1, <4>3 DEF Claims
        <4> QED BY <1>4, <2>1, <4>2, <4>3
      <3>3. CASE \E d \in Cameras : pc'[d] = "publish" /\ Key(hand'[d]) = k /\ u = hand'[d].id
        BY <1>2, <3>3 DEF Claims
      <3> QED BY <3>1, <3>2, <3>3 DEF Claims, Key
    <2>4. ClaimInv'
      BY <1>0, <1>1, <2>3, ClaimsKept
    <2>5. FreshInv'
      <3>1. ASSUME NEW i \in 1 .. Len(queue'), queue'[i].active
            PROVE  /\ \A u \in used[Key(queue'[i])] : u < queue'[i].id
                   /\ \A j \in 1 .. i - 1 : Key(queue'[j]) = Key(queue'[i]) => queue'[j].id < queue'[i].id
        <4>1. CASE i \in 1 .. Len(queue)
          BY <1>0, <1>4, <2>1, <3>1, <4>1 DEF FreshInv
        <4>2. CASE i = Len(queue) + 1
          BY <1>0, <1>1, <1>4, <2>1, <3>1, <4>2 DEF FreshInv
        <4> QED BY <1>4, <2>1, <4>1, <4>2
      <3>2. ASSUME NEW d \in Cameras, pc'[d] = "publish", hand'[d].active
            PROVE  /\ \A u \in used[Key(hand'[d])] : u < hand'[d].id
                   /\ \A j \in 1 .. Len(queue') : Key(queue'[j]) = Key(hand'[d]) => queue'[j].id < hand'[d].id
        <4>1. d # c /\ pc[d] = "publish" /\ hand'[d] = hand[d]
          BY <1>2, <3>2
        <4>2. Key(hand[d]) # Key(hand[c])
          BY <1>0, <1>3, <4>1, KeysOf
        <4>3. /\ \A u \in used[Key(hand[d])] : u < hand[d].id
              /\ \A j \in 1 .. Len(queue) : Key(queue[j]) = Key(hand[d]) => queue[j].id < hand[d].id
          BY <1>0, <3>2, <4>1 DEF FreshInv
        <4> QED BY <1>4, <2>1, <4>1, <4>2, <4>3
      <3> QED BY <1>1, <3>1, <3>2 DEF FreshInv, Key
    <2>6. \A k \in Keys : Follows(k, Len(queue)) /\ Key(hand[c]) # k => Follows(k, Len(queue))'
      <3> SUFFICES ASSUME NEW k \in Keys, Follows(k, Len(queue)), Key(hand[c]) # k
                   PROVE  Follows(k, Len(queue))'
        OBVIOUS
      <3> QED BY <1>1, <1>4, <2>1, FollowsPrefix
    <2>7. EndInv'
      <3>1. ASSUME NEW i \in 1 .. Len(queue'), ~queue'[i].active PROVE Follows(Key(queue[i]), i - 1)'
        <4>1. Key(queue'[i]) \in Keys /\ i - 1 \in Nat /\ Follows(Key(queue'[i]), i - 1)
          <5>1. CASE i \in 1 .. Len(queue)
            <6>1. queue'[i] = queue[i] /\ Key(queue[i]) \in Keys /\ i - 1 \in Nat
              BY <1>0, <1>4, <2>1, <5>1, KeysOf
            <6>2. Follows(Key(queue[i]), i - 1)
              BY <1>0, <3>1, <5>1, <6>1 DEF EndInv
            <6> QED BY <6>1, <6>2
          <5>2. CASE i = Len(queue) + 1
            <6>1. queue'[i] = hand[c] /\ Key(hand[c]) \in Keys /\ i - 1 = Len(queue)
              BY <1>0, <1>1, <1>4, <2>1, <5>2, KeysOf
            <6>2. Follows(Key(hand[c]), Len(queue))
              BY <1>0, <1>1, <3>1, <6>1 DEF EndInv
            <6> QED BY <1>4, <6>1, <6>2
          <5> QED BY <1>4, <2>1, <5>1, <5>2
        <4>2. \A j \in 1 .. i - 1 : queue'[j] = queue[j]
          BY <1>4, <2>1
        <4>3. \A k \in Keys : Follows(k, i - 1)' <=> Follows(k, i - 1)
          BY <1>1, <4>1, <4>2, FollowsPrefix
        <4> QED BY <4>1, <4>3 DEF Key
      <3>2. ASSUME NEW d \in Cameras, pc'[d] = "publish"
            PROVE  /\ hand'[d].active = state'[d][hand'[d].rule]
                   /\ ~hand'[d].active => Follows(Key(hand[d]), Len(queue))'
        <4>1. d # c /\ pc[d] = "publish" /\ hand'[d] = hand[d]
          BY <1>2, <3>2
        <4>2. Key(hand[d]) # Key(hand[c]) /\ Key(hand[d]) \in Keys
          BY <1>0, <1>3, <4>1, KeysOf
        <4>3. /\ hand[d].active = state[d][hand[d].rule]
              /\ ~hand[d].active => Follows(Key(hand[d]), Len(queue))
          BY <1>0, <4>1 DEF EndInv
        <4>4. Key(hand[d])' = Key(hand[d])
          BY <4>1 DEF Key
        <4> QED BY <1>1, <2>6, <4>1, <4>2, <4>3, <4>4
      <3>3. ASSUME NEW d \in Cameras, NEW r \in Rules, state'[d][r],
                   ~(pc'[d] = "publish" /\ hand'[d].rule = r)
            PROVE  Follows(<<d, r>>, Len(queue))'
        <4>0. <<d, r>> \in Keys /\ state[d][r]
          BY <1>1, <3>3 DEF Keys
        <4>1. CASE <<d, r>> = Key(hand[c])
          <5>1. d = c /\ r = hand[c].rule
            BY <1>3, <4>1
          <5>2. hand[c].active
            BY <1>0, <1>1, <4>0, <5>1 DEF EndInv
          <5>3. /\ Len(queue') \in 1 .. Len(queue') /\ Key(queue'[Len(queue')]) = <<d, r>>
                /\ queue'[Len(queue')].active
                /\ Len(queue') + 1 .. Len(queue') = {}
            BY <1>4, <2>1, <4>1, <5>2
          <5> QED BY <5>3 DEF Follows, Key
        <4>2. CASE <<d, r>> # Key(hand[c])
          <5>1. ~(pc[d] = "publish" /\ hand[d].rule = r)
            <6>1. CASE d = c
              BY <1>3, <4>2, <6>1
            <6>2. CASE d # c
              BY <1>2, <3>3, <6>2
            <6> QED BY <6>1, <6>2
          <5>2. Follows(<<d, r>>, Len(queue))
            BY <1>0, <4>0, <5>1 DEF EndInv
          <5> QED BY <2>6, <4>0, <4>2, <5>2
        <4> QED BY <4>1, <4>2
      <3> QED BY <3>1, <3>2, <3>3 DEF EndInv, Key
    <2> QED BY <1>0, <1>5, <2>2, <2>4, <2>5, <2>7 DEF PollerInv
  <1> QED BY <1>6, <1>7

\* What is sent, and under which id: that of the running period, that of the last
\* one, or the id the event came with.
Sends(k, a, id) ==
    /\ last' = [last EXCEPT ![k] = [active |-> a, id |-> id]]
    /\ used' = [used EXCEPT ![k] = @ \cup {id}]
    /\ active' = [active EXCEPT ![k] = IF a THEN id ELSE 0]
    /\ ended' = [ended EXCEPT ![k] = IF a THEN 0 ELSE id]
    /\ \/ last[k].active /\ id = last[k].id
       \/ ~last[k].active /\ a /\ id = last[k].id /\ id # 0
       \/ ~last[k].active /\ (a \/ last[k].id = 0) /\ id = queue[1].id

LEMMA ForwardSends ==
    ASSUME PollerInv, NEW within \in BOOLEAN, Forward(within)
    PROVE  \E id \in Ids : Sends(Key(queue[1]), queue[1].active, id)
  <1> DEFINE ev == queue[1]
             k  == Key(ev)
             id == Normalize(ev, within)
  <1>0. TypeOK /\ LatchInv /\ EndInv
    BY DEF PollerInv
  <1>1. ev \in MotionEvents /\ k \in Keys /\ Head(queue) = ev /\ Len(queue) \in Nat \ {0}
    BY <1>0, ForwardIs
  <1>2. /\ last' = [last EXCEPT ![k] = [active |-> ev.active, id |-> id]]
        /\ used' = [used EXCEPT ![k] = @ \cup {id}]
        /\ active' = [active EXCEPT ![k] = IF ev.active THEN id ELSE 0]
        /\ ended' = [ended EXCEPT ![k] = IF ev.active THEN 0 ELSE id]
    BY <1>1 DEF Forward, ForwardMotionEvent, Key
  <1>3. /\ active[k] = IF last[k].active THEN last[k].id ELSE 0
        /\ ended[k] = IF last[k].active THEN 0 ELSE last[k].id
        /\ last[k].active => last[k].id # 0
    BY <1>0, <1>1 DEF LatchInv
  <1>4. last[k].active \in BOOLEAN /\ last[k].id \in 0 .. MaxIds /\ ev.active \in BOOLEAN /\ ev.id \in Ids
    BY <1>0, <1>1 DEF TypeOK, MotionEvents
  <1>5. ~ev.active => last[k].active \/ last[k].id = 0
    <2> SUFFICES ASSUME ~ev.active PROVE last[k].active \/ last[k].id = 0
      OBVIOUS
    <2>1. Follows(Key(queue[1]), 1 - 1)
      BY <1>0, <1>1 DEF EndInv
    <2> QED BY <2>1 DEF Follows
  <1>6. id = CASE ev.active /\ active[k] # 0 -> active[k]
               [] ev.active /\ ended[k] # 0 /\ within -> ended[k]
               [] ~ev.active /\ active[k] # 0 -> active[k]
               [] OTHER -> ev.id
    BY DEF Normalize, Key
  <1> HIDE DEF id, k, ev
  <1>7. \/ last[k].active /\ id = last[k].id
        \/ ~last[k].active /\ ev.active /\ id = last[k].id /\ id # 0
        \/ ~last[k].active /\ (ev.active \/ last[k].id = 0) /\ id = ev.id
    <2>1. CASE last[k].active
      BY <1>3, <1>4, <1>6, <2>1
    <2>2. CASE ~last[k].active
      BY <1>3, <1>4, <1>5, <1>6, <2>2
    <2> QED BY <2>1, <2>2
  <1>8. id \in Ids
    BY <1>3, <1>4, <1>7 DEF Ids
  <1>9. Sends(k, ev.active, id)
    BY <1>2, <1>7 DEF Sends, ev
  <1> QED BY <1>8, <1>9 DEF k, ev

\* The head of the channel is gone: what followed n events follows n - 1.
LEMMA FollowsShift ==
    ASSUME NEW k \in Keys, NEW n \in Nat \ {0}, NEW h \in Keys, h = Key(queue[1]),
           last \in [Keys -> [active : BOOLEAN, id : 0 .. MaxIds]],
           NEW id, last' = [last EXCEPT ![h] = [active |-> queue[1].active, id |-> id]],
           \A i \in 1 .. n - 1 : queue'[i] = queue[i + 1],
           Follows(k, n)
    PROVE  Follows(k, n - 1)'
  <1>1. ASSUME NEW j \in 1 .. n, Key(queue[j]) = k, queue[j].active,
               \A m \in j + 1 .. n : Key(queue[m]) # k
        PROVE  Follows(k, n - 1)'
    <2>1. CASE j = 1
      <3>1. last'[k].active
        BY <1>1, <2>1
      <3>2. \A i \in 1 .. n - 1 : Key(queue'[i]) # k
        <4> SUFFICES ASSUME NEW i \in 1 .. n - 1 PROVE Key(queue'[i]) # k
          OBVIOUS
        <4>1. i + 1 \in j + 1 .. n
          BY <2>1
        <4> QED BY <1>1, <4>1
      <3> QED BY <3>1, <3>2 DEF Follows, Key
    <2>2. CASE j # 1
      <3>1. j - 1 \in 1 .. n - 1 /\ queue'[j - 1] = queue[j]
        BY <2>2
      <3>2. \A m \in (j - 1) + 1 .. n - 1 : Key(queue'[m]) # k
        <4> SUFFICES ASSUME NEW m \in (j - 1) + 1 .. n - 1 PROVE Key(queue'[m]) # k
          OBVIOUS
        <4>1. m + 1 \in j + 1 .. n /\ m \in 1 .. n - 1
          OBVIOUS
        <4> QED BY <1>1, <4>1
      <3>3. Key(queue'[j - 1]) = k /\ queue'[j - 1].active
        BY <1>1, <3>1
      <3> QED BY <3>1, <3>2, <3>3 DEF Follows, Key
    <2> QED BY <2>1, <2>2
  <1>2. ASSUME \A j \in 1 .. n : Key(queue[j]) # k, last[k].active \/ last[k].id = 0
        PROVE  Follows(k, n - 1)'
    <2>1. last'[k] = last[k]
      BY <1>2
    <2>2. \A i \in 1 .. n - 1 : Key(queue'[i]) # k
      <3> SUFFICES ASSUME NEW i \in 1 .. n - 1 PROVE Key(queue'[i]) # k
        OBVIOUS
      <3>1. i + 1 \in 1 .. n
        OBVIOUS
      <3> QED BY <1>2, <3>1
    <2> QED BY <1>2, <2>1, <2>2 DEF Follows, Key
  <1> QED BY <1>1, <1>2 DEF Follows

\* Forwarding the head of the channel preserves the invariant.
LEMMA ForwardKeeps ==
    ASSUME PollerInv, NEW within \in BOOLEAN, Forward(within)
    PROVE  PollerInv'
  <1>0. TypeOK /\ SharedExact /\ QuietInv /\ LatchInv /\ ClaimInv /\ FreshInv /\ EndInv
    BY DEF PollerInv
  <1>1. /\ subscribed /\ queue # <<>> /\ Len(queue) \in Nat \ {0}
        /\ Head(queue) = queue[1] /\ queue[1] \in MotionEvents
        /\ Key(queue[1]) \in Keys
        /\ queue' = Tail(queue) /\ queue' \in Seq(MotionEvents) /\ Len(queue') = Len(queue) - 1
        /\ \A i \in 1 .. Len(queue) - 1 : queue'[i] = queue[i + 1]
        /\ UNCHANGED <<pc, retries, errors, state, ids, batch, hand, made, shared, subscribed>>
    BY <1>0, ForwardIs
  <1>2. PICK id \in Ids : Sends(Key(queue[1]), queue[1].active, id)
    BY ForwardSends
  <1> DEFINE h == Key(queue[1])
             a == queue[1].active
  <1>3. h \in Keys /\ a \in BOOLEAN
    BY <1>1 DEF MotionEvents
  <1>4. /\ last \in [Keys -> [active : BOOLEAN, id : 0 .. MaxIds]]
        /\ used \in [Keys -> SUBSET Ids]
        /\ active \in [Keys -> 0 .. MaxIds] /\ ended \in [Keys -> 0 .. MaxIds]
    BY <1>0 DEF TypeOK
  <1>5. id \in 0 .. MaxIds /\ id # 0
    BY MotionAssumption DEF Ids
  <1>6. /\ last' = [last EXCEPT ![h] = [active |-> a, id |-> id]]
        /\ used' = [used EXCEPT ![h] = @ \cup {id}]
        /\ active' = [active EXCEPT ![h] = IF a THEN id ELSE 0]
        /\ ended' = [ended EXCEPT ![h] = IF a THEN 0 ELSE id]
    BY <1>2 DEF Sends
  <1>7. id \in used[h] \/ id = queue[1].id
    <2>1. last[h].id # 0 => last[h].id \in used[h]
      BY <1>0, <1>3 DEF LatchInv
    <2> QED BY <1>2, <1>5, <2>1 DEF Sends
  <1> HIDE DEF h, a
  <1>8. TypeOK'
    <2>1. last' \in [Keys -> [active : BOOLEAN, id : 0 .. MaxIds]] /\ used' \in [Keys -> SUBSET Ids]
      BY <1>3, <1>4, <1>5, <1>6
    <2>2. (IF a THEN id ELSE 0) \in 0 .. MaxIds /\ (IF a THEN 0 ELSE id) \in 0 .. MaxIds
      BY <1>5, MotionAssumption
    <2>3. active' \in [Keys -> 0 .. MaxIds] /\ ended' \in [Keys -> 0 .. MaxIds]
      BY <1>3, <1>4, <1>6, <2>2
    <2>4. Len(queue') <= Queue
      BY <1>0, <1>1, MotionAssumption DEF TypeOK
    <2> QED BY <1>0, <1>1, <2>1, <2>3, <2>4 DEF TypeOK
  <1>9. SharedExact' /\ QuietInv'
    BY <1>0, <1>1 DEF SharedExact, QuietInv
  <1>10. LatchInv'
    <2> SUFFICES ASSUME NEW k \in Keys
                 PROVE  /\ active'[k] = IF last'[k].active THEN last'[k].id ELSE 0
                        /\ ended'[k] = IF last'[k].active THEN 0 ELSE last'[k].id
                        /\ last'[k].active => last'[k].id # 0
                        /\ IF last'[k].id = 0 THEN used'[k] = {} ELSE last'[k].id \in used'[k]
      BY DEF LatchInv
    <2>1. CASE k = h
      <3>1. /\ last'[k] = [active |-> a, id |-> id] /\ id \in used'[k]
            /\ active'[k] = (IF a THEN id ELSE 0) /\ ended'[k] = (IF a THEN 0 ELSE id)
        BY <1>3, <1>4, <1>6, <2>1
      <3> QED BY <1>3, <1>5, <3>1
    <2>2. CASE k # h
      <3>1. last'[k] = last[k] /\ used'[k] = used[k] /\ active'[k] = active[k] /\ ended'[k] = ended[k]
        BY <1>4, <1>6, <2>2
      <3> QED BY <1>0, <3>1 DEF LatchInv
    <2> QED BY <2>1, <2>2
  <1>11. \A k \in Keys : used'[k] \subseteq used[k] \cup (IF k = h THEN {id} ELSE {})
    BY <1>3, <1>4, <1>6
  <1>12. \A k \in Keys : Claims(k)' \subseteq Claims(k)
    <2> SUFFICES ASSUME NEW k \in Keys, NEW u \in Claims(k)' PROVE u \in Claims(k)
      OBVIOUS
    <2>0. queue[1].id \in Claims(h)
      BY <1>1 DEF Claims, h
    <2>1. CASE u \in used'[k]
      BY <1>7, <1>11, <2>0, <2>1 DEF Claims
    <2>2. CASE \E i \in 1 .. Len(queue') : Key(queue'[i]) = k /\ u = queue'[i].id
      <3>1. PICK i \in 1 .. Len(queue') : Key(queue'[i]) = k /\ u = queue'[i].id
        BY <2>2
      <3>2. i + 1 \in 1 .. Len(queue) /\ queue'[i] = queue[i + 1]
        BY <1>1
      <3> QED BY <3>1, <3>2 DEF Claims
    <2>3. CASE u \in {hand'[c].id : c \in {d \in Cameras : pc'[d] = "publish" /\ Key(hand'[d]) = k}}
                        \cup ({ids'[k[1]][k[2]]} \ {0})
      BY <1>1, <2>3 DEF Claims
    <2> QED BY <2>1, <2>2, <2>3 DEF Claims, Key
  <1>13. ClaimInv'
    BY <1>0, <1>1, <1>12, ClaimsKept
  <1>14. FreshInv'
    <2>1. ASSUME NEW i \in 1 .. Len(queue'), queue'[i].active
          PROVE  /\ \A u \in used'[Key(queue'[i])] : u < queue'[i].id
                 /\ \A j \in 1 .. i - 1 : Key(queue'[j]) = Key(queue'[i]) => queue'[j].id < queue'[i].id
      <3>1. i + 1 \in 1 .. Len(queue) /\ queue'[i] = queue[i + 1]
        BY <1>1
      <3>2. /\ \A u \in used[Key(queue'[i])] : u < queue'[i].id
            /\ \A j \in 1 .. i : Key(queue[j]) = Key(queue'[i]) => queue[j].id < queue'[i].id
        BY <1>0, <2>1, <3>1 DEF FreshInv
      <3>3. Key(queue'[i]) \in Keys
        BY <1>0, <3>1, KeysOf
      <3>4. ASSUME NEW u \in used'[Key(queue'[i])] PROVE u < queue'[i].id
        <4>1. CASE u \in used[Key(queue'[i])]
          BY <3>2, <4>1
        <4>2. CASE Key(queue'[i]) = h /\ u = id
          <5>1. queue[1].id < queue'[i].id
            BY <1>1, <3>2, <4>2 DEF h
          <5> QED BY <1>7, <3>2, <4>2, <5>1
        <4> QED BY <1>11, <3>3, <3>4, <4>1, <4>2
      <3>5. ASSUME NEW j \in 1 .. i - 1, Key(queue'[j]) = Key(queue'[i]) PROVE queue'[j].id < queue'[i].id
        <4>1. j + 1 \in 1 .. i /\ queue'[j] = queue[j + 1]
          BY <1>1
        <4> QED BY <3>2, <3>5, <4>1
      <3> QED BY <3>4, <3>5
    <2>2. ASSUME NEW c \in Cameras, pc[c] = "publish", hand[c].active
          PROVE  /\ \A u \in used'[Key(hand[c])] : u < hand[c].id
                 /\ \A j \in 1 .. Len(queue') : Key(queue'[j]) = Key(hand[c]) => queue'[j].id < hand[c].id
      <3>2. /\ \A u \in used[Key(hand[c])] : u < hand[c].id
            /\ \A j \in 1 .. Len(queue) : Key(queue[j]) = Key(hand[c]) => queue[j].id < hand[c].id
        BY <1>0, <2>2 DEF FreshInv
      <3>3. Key(hand[c]) \in Keys
        BY <1>0, <2>2, KeysOf
      <3>4. ASSUME NEW u \in used'[Key(hand[c])] PROVE u < hand[c].id
        <4>1. CASE u \in used[Key(hand[c])]
          BY <3>2, <4>1
        <4>2. CASE Key(hand[c]) = h /\ u = id
          <5>1. queue[1].id < hand[c].id
            BY <1>1, <3>2, <4>2 DEF h
          <5> QED BY <1>7, <3>2, <4>2, <5>1
        <4> QED BY <1>11, <3>3, <3>4, <4>1, <4>2
      <3>5. ASSUME NEW j \in 1 .. Len(queue'), Key(queue'[j]) = Key(hand[c]) PROVE queue'[j].id < hand[c].id
        <4>1. j + 1 \in 1 .. Len(queue) /\ queue'[j] = queue[j + 1]
          BY <1>1
        <4> QED BY <3>2, <3>5, <4>1
      <3> QED BY <3>4, <3>5
    <2> QED BY <1>1, <2>1, <2>2 DEF FreshInv, Key
  <1>15. \A k \in Keys : \A n \in 1 .. Len(queue) : Follows(k, n) => Follows(k, n - 1)'
    <2> SUFFICES ASSUME NEW k \in Keys, NEW n \in 1 .. Len(queue), Follows(k, n)
                 PROVE  Follows(k, n - 1)'
      OBVIOUS
    <2>1. n \in Nat \ {0} /\ \A i \in 1 .. n - 1 : queue'[i] = queue[i + 1]
      BY <1>1
    <2>2. last' = [last EXCEPT ![h] = [active |-> queue[1].active, id |-> id]] /\ h = Key(queue[1])
      BY <1>6 DEF a, h
    <2> QED BY <1>3, <1>4, <2>1, <2>2, FollowsShift
  <1>16. EndInv'
    <2>1. ASSUME NEW i \in 1 .. Len(queue'), ~queue'[i].active PROVE Follows(Key(queue[i]), i - 1)'
      <3>1. i + 1 \in 1 .. Len(queue) /\ queue'[i] = queue[i + 1] /\ i \in 1 .. Len(queue) /\ (i + 1) - 1 = i
        BY <1>1
      <3>2. Key(queue'[i]) \in Keys /\ Follows(Key(queue'[i]), i)
        BY <1>0, <2>1, <3>1, KeysOf DEF EndInv
      <3> QED BY <1>15, <3>1, <3>2 DEF Key
    <2>2. ASSUME NEW k \in Keys, Follows(k, Len(queue)) PROVE Follows(k, Len(queue))'
      BY <1>1, <1>15, <2>2
    <2>3. ASSUME NEW c \in Cameras, pc[c] = "publish"
          PROVE  /\ hand[c].active = state[c][hand[c].rule]
                 /\ ~hand[c].active => Follows(Key(hand[c]), Len(queue))'
      <3>1. /\ hand[c].active = state[c][hand[c].rule]
            /\ ~hand[c].active => Follows(Key(hand[c]), Len(queue))
            /\ Key(hand[c]) \in Keys
        BY <1>0, <2>3, KeysOf DEF EndInv
      <3>2. Key(hand[c])' = Key(hand[c])
        BY <1>1 DEF Key
      <3> QED BY <2>2, <3>1, <3>2
    <2>4. ASSUME NEW c \in Cameras, NEW r \in Rules, state[c][r],
                 ~(pc[c] = "publish" /\ hand[c].rule = r)
          PROVE  Follows(<<c, r>>, Len(queue))'
      <3>1. <<c, r>> \in Keys /\ Follows(<<c, r>>, Len(queue))
        BY <1>0, <2>4 DEF EndInv, Keys
      <3> QED BY <2>2, <3>1
    <2> QED BY <1>1, <2>1, <2>3, <2>4 DEF EndInv, Key
  <1> QED BY <1>8, <1>9, <1>10, <1>13, <1>14, <1>16 DEF PollerInv

\* Every step preserves the invariant.
LEMMA PollerStep == PollerInv /\ [Next]_vars => PollerInv'
  <1> SUFFICES ASSUME PollerInv, [Next]_vars PROVE PollerInv'
    OBVIOUS
  <1>1. ASSUME NEW c \in Cameras, Poll(c) \/ Handle(c) \/ Publish(c) PROVE PollerInv'
    <2>1. CASE Edge(c)
      <3>1. PICK r \in Rules, motion \in BOOLEAN, id \in Ids : EdgeFacts(c, r, motion, id)
        BY <2>1, EdgeIs DEF PollerInv
      <3> QED BY <3>1, EdgeKeeps
    <2> QED BY <1>1, <2>1, PollKeeps, PublishKeeps DEF Handle
  <1>2. CASE Consumer
    BY <1>2, SubscribeKeeps, ForwardKeeps, MotionAssumption DEF Consumer
  <1>3. CASE UNCHANGED vars
    <2>1. /\ UNCHANGED <<pc, retries, errors, state, ids, batch, hand, made, shared>>
          /\ UNCHANGED <<subscribed, queue, active, ended, last, used>>
      BY <1>3 DEF vars, poller, latch
    <2>2. TypeOK' /\ SharedExact'
      BY <2>1 DEF PollerInv, TypeOK, SharedExact
    <2>3. QuietInv' /\ LatchInv' /\ ClaimInv' /\ FreshInv' /\ EndInv'
      BY <2>1, QuietKeeps DEF PollerInv
    <2> QED BY <2>2, <2>3 DEF PollerInv
  <1> QED BY <1>1, <1>2, <1>3 DEF Next

\* In every reachable state the latch, the channel and the pollers agree about
\* which motion goes on and which ids are spoken for.
THEOREM PollerInvariance == Spec => []PollerInv
  BY PollerInit, PollerStep, PTL DEF Spec

\* SharedExact, for any cameras, rules and answers: the shared motion state agrees
\* with the poller of the only camera that has the rule.
THEOREM SharedAlwaysExact == Spec => []SharedExact
  <1>1. PollerInv => SharedExact
    BY DEF PollerInv
  <1> QED BY <1>1, PollerInvariance, PTL
-----------------------------------------------------------------------------
\* A forwarded event is a step of the abstract feed.
LEMMA ForwardImplements ==
    ASSUME PollerInv, NEW within \in BOOLEAN, Forward(within)
    PROVE  Feed!Next
  <1>0. TypeOK /\ LatchInv /\ ClaimInv /\ FreshInv
    BY DEF PollerInv
  <1> DEFINE k == Key(queue[1])
             a == queue[1].active
  <1>1. k \in Keys /\ Len(queue) \in Nat \ {0} /\ queue[1] \in MotionEvents
    BY <1>0, ForwardIs
  <1>2. PICK id \in Ids : Sends(k, a, id)
    BY ForwardSends
  <1>3. Feed!Says(k, a, id)
    BY <1>2 DEF Sends, Feed!Says
  <1>4. a \in BOOLEAN /\ last[k] \in [active : BOOLEAN, id : 0 .. MaxIds]
    BY <1>0, <1>1 DEF TypeOK, MotionEvents
  <1>5. ASSUME ~last[k].active, a \/ last[k].id = 0, id = queue[1].id PROVE id \in Feed!Unused
    <2>1. id \notin used[k]
      <3>1. CASE a
        <4>1. \A u \in used[k] : u < id
          BY <1>0, <1>1, <1>5, <3>1 DEF FreshInv
        <4> QED BY <4>1 DEF Ids
      <3>2. CASE last[k].id = 0
        BY <1>0, <1>1, <3>2 DEF LatchInv
      <3> QED BY <1>5, <3>1, <3>2
    <2>2. id \in Claims(k)
      BY <1>1, <1>5 DEF Claims
    <2>3. \A l \in Keys \ {k} : id \notin Claims(l)
      BY <1>0, <1>1, <2>2 DEF ClaimInv
    <2>4. \A l \in Keys : id \notin used[l]
      BY <2>1, <2>3 DEF Claims
    <2> QED BY <2>4 DEF Feed!Unused
  <1> HIDE DEF k, a
  <1>6. CASE last[k].active /\ id = last[k].id
    <2>1. CASE a
      <3>1. a = TRUE
        BY <1>4, <2>1
      <3>2. Feed!Says(k, TRUE, last[k].id)
        BY <1>3, <1>6, <3>1
      <3> QED BY <1>1, <1>6, <3>2 DEF Feed!Next, Feed!StartAgain
    <2>2. CASE ~a
      <3>1. a = FALSE
        BY <1>4, <2>2
      <3>2. Feed!Says(k, FALSE, last[k].id)
        BY <1>3, <1>6, <3>1
      <3> QED BY <1>1, <1>6, <3>2 DEF Feed!Next, Feed!End
    <2> QED BY <2>1, <2>2
  <1>7. CASE ~last[k].active /\ a /\ id = last[k].id /\ id # 0
    <2>1. a = TRUE
      BY <1>4, <1>7
    <2>2. Feed!Says(k, TRUE, id) /\ id \in (IF last[k].id = 0 THEN {} ELSE {last[k].id})
      BY <1>3, <1>7, <2>1
    <2> QED BY <1>1, <1>7, <2>2 DEF Feed!Next, Feed!Start
  <1>8. CASE ~last[k].active /\ (a \/ last[k].id = 0) /\ id = queue[1].id
    <2>1. CASE a
      <3>1. a = TRUE
        BY <1>4, <2>1
      <3>2. Feed!Says(k, TRUE, id) /\ id \in Feed!Unused
        BY <1>3, <1>5, <1>8, <3>1
      <3> QED BY <1>1, <1>8, <3>2 DEF Feed!Next, Feed!Start
    <2>2. CASE ~a
      <3>1. a = FALSE
        BY <1>4, <2>2
      <3>2. Feed!Says(k, FALSE, id) /\ id \in Feed!Unused
        BY <1>3, <1>5, <1>8, <3>1
      <3>3. last[k] = Feed!None
        BY <1>4, <1>8, <2>2 DEF Feed!None
      <3> QED BY <1>1, <3>2, <3>3 DEF Feed!Next, Feed!EndOnly
    <2> QED BY <2>1, <2>2
  <1> QED BY <1>2, <1>6, <1>7, <1>8 DEF Sends, a, k

\* FeedSpec: the pollers, the channel and the latch implement MotionFeed, for any
\* cameras, rules and answers, with and without a merge window.
THEOREM FeedImplemented == Spec => FeedSpec
  <1>1. Init => Feed!Init
    BY DEF Init, Feed!Init, Feed!None
  <1>2. PollerInv /\ [Next]_vars => [Feed!Next]_<<last, used>>
    <2> SUFFICES ASSUME PollerInv, [Next]_vars PROVE Feed!Next \/ UNCHANGED <<last, used>>
      OBVIOUS
    <2>1. ASSUME NEW c \in Cameras, Poll(c) \/ Handle(c) \/ Publish(c) PROVE UNCHANGED <<last, used>>
      <3>1. CASE Poll(c)
        BY <3>1 DEF Poll, CreateSubscription, RenewFails, PullOk, PullFails, latch
      <3>2. CASE Handle(c)
        BY <3>2 DEF Handle, BatchDone, NoEdge, Edge, latch
      <3>3. CASE Publish(c)
        BY <3>3 DEF Publish, latch
      <3> QED BY <2>1, <3>1, <3>2, <3>3
    <2>2. CASE Subscribe
      BY <2>2 DEF Subscribe, latch
    <2>3. ASSUME NEW within \in {FALSE, Merges}, Forward(within) PROVE Feed!Next
      BY <2>3, ForwardImplements, MotionAssumption
    <2>4. CASE UNCHANGED vars
      BY <2>4 DEF vars, latch
    <2> QED BY <2>1, <2>2, <2>3, <2>4 DEF Next, Consumer
  <1> QED BY <1>1, <1>2, PollerInvariance, PTL DEF Spec, FeedSpec, Feed!Spec
=============================================================================
