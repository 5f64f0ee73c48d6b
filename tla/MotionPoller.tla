---------------------------- MODULE MotionPoller ----------------------------
(***************************************************************************)
(* Motion in the agent: one poller per camera (onvif_motion.rs) turns the  *)
(* answers of the camera into edges, the event bus carries them to one     *)
(* task that gives them their final event id (motion_event_latch.rs) and   *)
(* hands them to the uplink (forward_agent.rs, agent_forward.rs).          *)
(*                                                                         *)
(* Ids are numbered in the order they are made.  Time stands behind        *)
(* nondeterministic choices: when the renewal is due, and whether a start  *)
(* follows an end within the merge window.  What a SOAP request and its    *)
(* answer look like is left out, its outcome and its items are kept.       *)
(***************************************************************************)
EXTENDS Integers, Sequences, SequencesExt

CONSTANTS
    Cameras,
    RulesOf,            \* the rules each camera reports
    UnknownRule,        \* "<unknown-rule>"
    ConnRefusedRetries, \* connrefused_retries
    ResubAfter,         \* resub_after
    Queue,              \* capacity of a subscriber's channel
    Merges,             \* a merge window is configured
    MaxItems,           \* bound on the items of one answer
    MaxIds              \* bound on the ids made

ASSUME MotionAssumption ==
    /\ RulesOf \in [Cameras -> SUBSET UNION {RulesOf[c] : c \in Cameras}]
    /\ ConnRefusedRetries \in Nat
    /\ ResubAfter \in Nat \ {0}
    /\ Queue \in Nat \ {0}
    /\ Merges \in BOOLEAN
    /\ MaxItems \in Nat
    /\ MaxIds \in Nat

Rules == (UNION {RulesOf[c] : c \in Cameras}) \cup {UnknownRule}
Keys  == Cameras \X Rules
Ids   == 1 .. MaxIds

VARIABLES
    \* Each poller.
    pc,
    retries,    \* retries_left
    errors,     \* consecutive_errors
    state,      \* state: the last value of each rule
    ids,        \* event_ids: the id of each rule's motion, or 0
    batch,      \* what is left of the answer being handled
    hand,       \* the event being published
    made,       \* ids made so far
    \* Shared.
    shared,     \* MotionStateBus: what each rule maps to, or NoMotion
    subscribed, \* the forwarding task has subscribed
    queue,      \* its channel
    \* The forwarding task: the latch, and what it has sent.
    active,     \* MotionEventIdLatch.active: an id, or 0
    ended,      \* MotionEventIdLatch.ended: an id, or 0
    last, used

poller == <<pc, retries, errors, state, ids, batch, hand, made, shared>>
latch  == <<active, ended, last, used>>
vars   == <<poller, subscribed, queue, latch>>

-----------------------------------------------------------------------------
NoMotion == [camera |-> "none", id |-> 0]

MotionEvent(c, r, a, id) == [camera |-> c, rule |-> r, active |-> a, id |-> id]
MotionEvents == [camera : Cameras, rule : Rules, active : BOOLEAN, id : Ids]

\* What an answer of camera c can tell about.
Told(c) == (RulesOf[c] \cup {UnknownRule}) \X BOOLEAN

TypeOK ==
    /\ pc \in [Cameras -> {"create", "poll", "events", "publish", "ended"}]
    /\ retries \in [Cameras -> 0 .. ConnRefusedRetries]
    /\ errors \in [Cameras -> 0 .. ResubAfter - 1]
    /\ state \in [Cameras -> [Rules -> BOOLEAN]]
    /\ ids \in [Cameras -> [Rules -> 0 .. MaxIds]]
    /\ batch \in [Cameras -> Seq(Rules \X BOOLEAN)]
    /\ \A c \in Cameras : batch[c] \in Seq(Told(c))
    /\ hand \in [Cameras -> {NoMotion} \cup MotionEvents]
    /\ \A c \in Cameras : pc[c] = "publish" => hand[c] \in MotionEvents /\ hand[c].camera = c
    /\ made \in 0 .. MaxIds
    /\ shared \in [Rules -> {NoMotion} \cup [camera : Cameras, id : Ids]]
    /\ subscribed \in BOOLEAN
    /\ queue \in Seq(MotionEvents)
    /\ Len(queue) <= Queue
    /\ active \in [Keys -> 0 .. MaxIds]
    /\ ended \in [Keys -> 0 .. MaxIds]
    /\ last \in [Keys -> [active : BOOLEAN, id : 0 .. MaxIds]]
    /\ used \in [Keys -> SUBSET Ids]

Init ==
    /\ pc = [c \in Cameras |-> "create"]
    /\ retries = [c \in Cameras |-> ConnRefusedRetries]
    /\ errors = [c \in Cameras |-> 0]
    /\ state = [c \in Cameras |-> [r \in Rules |-> FALSE]]
    /\ ids = [c \in Cameras |-> [r \in Rules |-> 0]]
    /\ batch = [c \in Cameras |-> <<>>]
    /\ hand = [c \in Cameras |-> NoMotion]
    /\ made = 0
    /\ shared = [r \in Rules |-> NoMotion]
    /\ subscribed = FALSE
    /\ queue = <<>>
    /\ active = [k \in Keys |-> 0]
    /\ ended = [k \in Keys |-> 0]
    /\ last = [k \in Keys |-> [active |-> FALSE, id |-> 0]]
    /\ used = [k \in Keys |-> {}]
-----------------------------------------------------------------------------
(***************************************************************************)
(* The answers of a camera.                                                *)
(***************************************************************************)

\* soap_post: an answer, a refused connection, or any other error.
SoapPost == {"ok", "refused", "failed"}

IsConnectishError(outcome) == outcome = "refused"

\* create_subscription: an answer without an address is an error as well.
CreateOutcomes == SoapPost

\* renew_subscription.
RenewOutcomes == SoapPost

\* The SimpleItems of an answer: "Rule" names a rule, "IsMotion" has a value.
SimpleItems(c) ==
    [name : {"Rule"}, value : RulesOf[c]] \cup [name : {"IsMotion"}, value : BOOLEAN]

Answers(c) == UNION {[1 .. n -> SimpleItems(c)] : n \in 0 .. MaxItems}

\* extract_motion_events: a value belongs to the rule named last, whichever
\* notification named it.
ExtractMotionEvents(items) ==
    LET Read(acc, item) ==
            IF item.name = "Rule" THEN [acc EXCEPT !.current = item.value]
            ELSE [acc EXCEPT !.out = Append(@, <<acc.current, item.value>>)]
    IN  FoldLeft(Read, [current |-> UnknownRule, out |-> <<>>], items).out

\* What each camera's answers amount to: lists of what it can tell, no longer
\* than the answer.  The fold yields no others; the intersection only spells
\* that out, for proofs that do not unfold it.
Batches ==
    [c \in Cameras |->
        {ExtractMotionEvents(items) : items \in Answers(c)}
          \cap UNION {[1 .. n -> Told(c)] : n \in 0 .. MaxItems}]

-----------------------------------------------------------------------------
(***************************************************************************)
(* The poller of camera c.                                                 *)
(***************************************************************************)

\* create_subscription_with_retry: retries only refused connections; any other
\* outcome is the end of the poller.
CreateSubscription(c, outcome) ==
    /\ pc[c] = "create"
    /\ pc' = [pc EXCEPT ![c] =
                CASE outcome = "ok" -> "poll"
                  [] IsConnectishError(outcome) /\ retries[c] > 0 -> "create"
                  [] OTHER -> "ended"]
    /\ retries' = [retries EXCEPT ![c] = IF pc'[c] = "create" THEN @ - 1 ELSE 0]
    /\ UNCHANGED <<errors, state, ids, batch, hand, made, shared, subscribed, queue, latch>>

\* MotionStateBus::clear_camera.
ClearCamera(c) == [r \in Rules |-> IF shared[r].camera = c THEN NoMotion ELSE shared[r]]

\* A fault to check against: the entries of the camera stay behind in the shared state.
ResetKeepsShared(c) ==
    /\ state' = [state EXCEPT ![c] = [r \in Rules |-> FALSE]]
    /\ ids' = [ids EXCEPT ![c] = [r \in Rules |-> 0]]
    /\ UNCHANGED shared

\* reset_motion_tracking.  No end is published for a motion that is forgotten.
ResetMotionTracking(c) ==
    /\ state' = [state EXCEPT ![c] = [r \in Rules |-> FALSE]]
    /\ ids' = [ids EXCEPT ![c] = [r \in Rules |-> 0]]
    /\ shared' = ClearCamera(c)

Recreate(c) ==
    /\ ResetMotionTracking(c)
    /\ pc' = [pc EXCEPT ![c] = "create"]
    /\ retries' = [retries EXCEPT ![c] = ConnRefusedRetries]
    /\ errors' = [errors EXCEPT ![c] = 0]

\* A renewal that succeeds changes nothing, and how one fails does not matter.
RenewFails(c, outcome) ==
    /\ pc[c] = "poll"
    /\ outcome # "ok"
    /\ Recreate(c)
    /\ UNCHANGED <<batch, hand, made, subscribed, queue, latch>>

PullOk(c, events) ==
    /\ pc[c] = "poll"
    /\ pc' = [pc EXCEPT ![c] = "events"]
    /\ batch' = [batch EXCEPT ![c] = events]
    /\ errors' = [errors EXCEPT ![c] = 0]
    /\ UNCHANGED <<retries, state, ids, hand, made, shared, subscribed, queue, latch>>

PullFails(c, outcome) ==
    /\ pc[c] = "poll"
    /\ IF IsConnectishError(outcome) \/ errors[c] + 1 >= ResubAfter
       THEN Recreate(c)
       ELSE /\ errors' = [errors EXCEPT ![c] = @ + 1]
            /\ UNCHANGED <<pc, retries, state, ids, shared>>
    /\ UNCHANGED <<batch, hand, made, subscribed, queue, latch>>

\* The answer is used up.
BatchDone(c) ==
    /\ pc[c] = "events"
    /\ batch[c] = <<>>
    /\ pc' = [pc EXCEPT ![c] = "poll"]
    /\ UNCHANGED <<retries, errors, state, ids, batch, hand, made, shared, subscribed, queue, latch>>

NoEdge(c) ==
    /\ pc[c] = "events"
    /\ batch[c] # <<>>
    /\ state[c][Head(batch[c])[1]] = Head(batch[c])[2]
    /\ batch' = [batch EXCEPT ![c] = Tail(@)]
    /\ UNCHANGED <<pc, retries, errors, state, ids, hand, made, shared, subscribed, queue, latch>>

\* MotionStateBus::set.
SetShared(r, motion, meta) == shared' = [shared EXCEPT ![r] = IF motion THEN meta ELSE NoMotion]

Edge(c) ==
    /\ pc[c] = "events"
    /\ batch[c] # <<>>
    /\ LET r      == Head(batch[c])[1]
           motion == Head(batch[c])[2]
           fresh  == motion \/ ids[c][r] = 0
           id     == IF fresh THEN made + 1 ELSE ids[c][r]
       IN  /\ state[c][r] # motion
           /\ fresh => made < MaxIds
           /\ made' = IF fresh THEN made + 1 ELSE made
           /\ state' = [state EXCEPT ![c][r] = motion]
           /\ ids' = [ids EXCEPT ![c][r] = IF motion THEN id ELSE 0]
           /\ SetShared(r, motion, [camera |-> c, id |-> id])
           /\ hand' = [hand EXCEPT ![c] = MotionEvent(c, r, motion, id)]
    /\ batch' = [batch EXCEPT ![c] = Tail(@)]
    /\ pc' = [pc EXCEPT ![c] = "publish"]
    /\ UNCHANGED <<retries, errors, subscribed, queue, latch>>

\* EventBus::publish: waits for room in the subscriber's channel; without a
\* subscriber the event is gone.
Publish(c) ==
    /\ pc[c] = "publish"
    /\ subscribed => Len(queue) < Queue
    /\ queue' = IF subscribed THEN Append(queue, hand[c]) ELSE queue
    /\ pc' = [pc EXCEPT ![c] = "events"]
    /\ hand' = [hand EXCEPT ![c] = NoMotion]
    /\ UNCHANGED <<retries, errors, state, ids, batch, made, shared, subscribed, latch>>

-----------------------------------------------------------------------------
(***************************************************************************)
(* The forwarding task.                                                    *)
(***************************************************************************)
Subscribe ==
    /\ ~subscribed
    /\ subscribed' = TRUE
    /\ UNCHANGED <<poller, queue, latch>>

\* A fault to check against: latched by rule, so that two cameras with the same
\* rule name share an entry.
NormalizeByRule(ev, within) ==
    LET k == <<CHOOSE c \in Cameras : TRUE, ev.rule>>
    IN  CASE ev.active /\ active[k] # 0 -> active[k]
          [] ev.active /\ ended[k] # 0 /\ within -> ended[k]
          [] ~ev.active /\ active[k] # 0 -> active[k]
          [] OTHER -> ev.id

\* MotionEventIdLatch::normalize: the id the event leaves with.
Normalize(ev, within) ==
    LET k == <<ev.camera, ev.rule>>
    IN  CASE ev.active /\ active[k] # 0 -> active[k]
          [] ev.active /\ ended[k] # 0 /\ within -> ended[k]
          [] ~ev.active /\ active[k] # 0 -> active[k]
          [] OTHER -> ev.id

\* A motion message for the uplink, under the number of the camera's stream.
ForwardMotionEvent(k, a, id) ==
    /\ last' = [last EXCEPT ![k] = [active |-> a, id |-> id]]
    /\ used' = [used EXCEPT ![k] = @ \cup {id}]

\* A fault to check against: the task ends after one event.
ForwardOnce(within) ==
    /\ subscribed
    /\ queue # <<>>
    /\ active = [k \in Keys |-> 0] /\ ended = active
    /\ queue' = Tail(queue)
    /\ active' = [active EXCEPT ![<<Head(queue).camera, Head(queue).rule>>] = Head(queue).id]
    /\ UNCHANGED <<poller, subscribed, ended, last, used>>

\* An event is received, normalized and sent.
Forward(within) ==
    /\ subscribed
    /\ queue # <<>>
    /\ LET ev == Head(queue)
           k  == <<ev.camera, ev.rule>>
           id == Normalize(ev, within)
       IN  /\ active' = [active EXCEPT ![k] = IF ev.active THEN id ELSE 0]
           /\ ended' = [ended EXCEPT ![k] = IF ev.active THEN 0 ELSE id]
           /\ ForwardMotionEvent(k, ev.active, id)
    /\ queue' = Tail(queue)
    /\ UNCHANGED <<poller, subscribed>>

-----------------------------------------------------------------------------
Poll(c) ==
    \/ \E outcome \in CreateOutcomes : CreateSubscription(c, outcome)
    \/ \E outcome \in RenewOutcomes : RenewFails(c, outcome)
    \/ \E events \in Batches[c] : PullOk(c, events)
    \/ \E outcome \in SoapPost \ {"ok"} : PullFails(c, outcome)

Handle(c) == BatchDone(c) \/ NoEdge(c) \/ Edge(c)

Consumer == Subscribe \/ \E within \in {FALSE, Merges} : Forward(within)

Next ==
    \/ \E c \in Cameras : Poll(c) \/ Handle(c) \/ Publish(c)
    \/ Consumer

Spec == Init /\ [][Next]_vars

\* The runtime polls the tasks, and every request has a timeout.
FairSpec ==
    /\ Spec
    /\ WF_vars(Consumer)
    /\ \A c \in Cameras : WF_vars(Poll(c)) /\ WF_vars(Handle(c)) /\ WF_vars(Publish(c))
-----------------------------------------------------------------------------
(***************************************************************************)
(* Properties.                                                             *)
(***************************************************************************)
Feed == INSTANCE MotionFeed WITH Keys <- Keys, Ids <- Ids, last <- last, used <- used

\* What the uplink is handed keeps the promise of MotionFeed: over failed polls,
\* new subscriptions that forget the running motion, a late subscriber and merged
\* motions, one period keeps one id, ids are not shared and ends are not repeated.
FeedSpec == Feed!Spec

\* The shared state agrees with what a poller tracks, for a rule no other camera
\* has: a recorder that looks sees exactly the motion that is going on.  The one
\* name every camera shares, that of a message without a rule, is excepted.
SharedExact ==
    \A c \in Cameras : \A r \in RulesOf[c] \ {UnknownRule} :
        (\A d \in Cameras \ {c} : r \notin RulesOf[d]) =>
            shared[r] = IF state[c][r] THEN [camera |-> c, id |-> ids[c][r]] ELSE NoMotion

Spent == made = MaxIds

\* A poller is never stuck in a publication or in its own error handling: it
\* asks the camera again and again, unless no subscription could be created (or
\* the bound on ids is reached).
KeepsPolling ==
    \A c \in Cameras : []<>(pc[c] = "poll" \/ Spent) \/ <>[](pc[c] = "ended")
=============================================================================
