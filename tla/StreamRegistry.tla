--------------------------- MODULE StreamRegistry ---------------------------
(***************************************************************************)
(* The stream registry of bin/server_ingest.rs: the map from stream ids to *)
(* handles that connections share, and the life of the pipeline tasks it   *)
(* launches.                                                               *)
(*                                                                         *)
(* The map is behind a mutex, and every critical section is one step of    *)
(* the model; connections (handle_conn) and pipeline tasks run on a        *)
(* multi-threaded runtime and interleave between them.  A pipeline is here *)
(* what the registry sees of it: it takes messages off its channel, may    *)
(* end with an error at any moment, and run_stream_v2 also ends when its   *)
(* channel is closed and empty (run_stream never notices that).  Messages  *)
(* are only counted.                                                       *)
(***************************************************************************)
EXTENDS Integers, FiniteSets

CONSTANTS
    Conns,        \* agent connections
    Streams,      \* stream ids
    Pipes,        \* pipeline tasks, an identity is used again once it is forgotten
    NoPipe,
    Version,      \* LIVE_PIPELINE_VERSION
    QueueCap,     \* capacity of a pipeline's channel
    MaxFailures   \* bound on the pipelines that end with an error

ASSUME RegistryAssumption ==
    /\ NoPipe \notin Pipes
    /\ Version \in {"v1", "v2"}
    /\ QueueCap \in Nat \ {0}
    /\ MaxFailures \in Nat

VARIABLES
    entry,      \* streams: the map from stream ids to handles
    active,     \* active_streams
    task,       \* the pipeline tasks, each with its channel
    pc,         \* where a connection is in handle_conn
    todo,       \* the streams of its HELLO still to be ensured
    target,     \* the stream of the message in hand
    tx,         \* the sender in hand
    failures,
    announced   \* the streams whose latest HELLO carried parameter sets

conns == <<pc, todo, target, tx>>
vars  == <<entry, active, task, conns, failures, announced>>
-----------------------------------------------------------------------------
TaskState == {"free", "spawned", "running", "exited", "cleaned"}

Task   == [state : TaskState, stream : Streams, generation : Nat, seeded : BOOLEAN,
           queue : 0 .. QueueCap]
Handle == [pipe : Pipes, generation : Nat]

\* A task that does not exist; the stream is of no meaning.
NoTask(s) == [state |-> "free", stream |-> s, generation |-> 0, seeded |-> FALSE, queue |-> 0]

NoHandle == [pipe |-> NoPipe, generation |-> 0]

TypeOK ==
    /\ entry \in [Streams -> Handle \cup {NoHandle}]
    /\ active \in Int
    /\ task \in [Pipes -> Task]
    /\ pc \in [Conns -> {"offline", "hello", "idle", "send", "evict", "recreate", "resend"}]
    /\ todo \in [Conns -> SUBSET Streams]
    /\ target \in [Conns -> Streams]
    /\ tx \in [Conns -> Pipes \cup {NoPipe}]
    /\ failures \in 0 .. MaxFailures
    /\ announced \subseteq Streams

\* The receiver exists: try_send does not return Closed.
Open(p) == p # NoPipe /\ task[p].state \in {"spawned", "running"}

\* Nobody holds a sender of the channel.
NoSenders(p) == (\A s \in Streams : entry[s].pipe # p) /\ (\A c \in Conns : tx[c] # p)

Init ==
    /\ entry = [s \in Streams |-> NoHandle]
    /\ active = 0
    /\ \E s \in Streams :
          /\ task = [p \in Pipes |-> NoTask(s)]
          /\ target = [c \in Conns |-> s]
    /\ pc = [c \in Conns |-> "offline"]
    /\ todo = [c \in Conns |-> {}]
    /\ tx = [c \in Conns |-> NoPipe]
    /\ failures = 0
    /\ announced = {}
-----------------------------------------------------------------------------
(***************************************************************************)
(* ensure_stream: the sender of the handle there is, unless its channel is *)
(* closed; else a new pipeline p, whose generation follows the one of the  *)
(* handle it replaces.                                                     *)
(***************************************************************************)
NextGeneration(s) == entry[s].generation + 1     \* 1 when there is no handle

\* A fault to check against: the map gets the generation of the handle that
\* goes.
LaunchStale(s, seeded, p) ==
    /\ entry' = [entry EXCEPT ![s] = [pipe |-> p, generation |-> entry[s].generation]]
    /\ task' = [task EXCEPT ![p] = [state |-> "spawned", stream |-> s, seeded |-> seeded,
                                    generation |-> NextGeneration(s), queue |-> 0]]

Launch(s, seeded, p) ==
    /\ entry' = [entry EXCEPT ![s] = [pipe |-> p, generation |-> NextGeneration(s)]]
    /\ task' = [task EXCEPT ![p] = [state |-> "spawned", stream |-> s, seeded |-> seeded,
                                    generation |-> NextGeneration(s), queue |-> 0]]

EnsureStream(s, seeded, p) ==
    IF Open(entry[s].pipe)
    THEN p = entry[s].pipe /\ UNCHANGED <<entry, task>>
    ELSE task[p].state = "free" /\ NoSenders(p) /\ Launch(s, seeded, p)

(***************************************************************************)
(* handle_conn.                                                            *)
(***************************************************************************)
\* A HELLO with the token; any other first message ends the connection.
Hello(c, streams) ==
    /\ pc[c] = "offline"
    /\ pc' = [pc EXCEPT ![c] = "hello"]
    /\ todo' = [todo EXCEPT ![c] = streams]
    /\ UNCHANGED <<entry, active, task, target, tx, failures, announced>>

\* One turn of the loop over hello.streams; the sender is dropped.
HelloStream(c, s, seeded, p) ==
    /\ pc[c] = "hello"
    /\ s \in todo[c]
    /\ todo' = [todo EXCEPT ![c] = @ \ {s}]
    /\ announced' = (IF seeded THEN announced \cup {s} ELSE announced \ {s})
    /\ EnsureStream(s, seeded, p)
    /\ UNCHANGED <<active, pc, target, tx, failures>>

HelloDone(c) ==
    /\ pc[c] = "hello"
    /\ todo[c] = {}
    /\ pc' = [pc EXCEPT ![c] = "idle"]
    /\ UNCHANGED <<entry, active, task, todo, target, tx, failures, announced>>

\* A message for stream s.  forwarded: RTP, or a GAP or MOTION that decodes.
Receive(c, s, forwarded, p) ==
    /\ pc[c] = "idle"
    /\ EnsureStream(s, FALSE, p)
    /\ IF forwarded
       THEN /\ pc' = [pc EXCEPT ![c] = "send"]
            /\ tx' = [tx EXCEPT ![c] = p]
            /\ target' = [target EXCEPT ![c] = s]
       ELSE UNCHANGED <<pc, tx, target>>
    /\ UNCHANGED <<active, todo, failures, announced>>

\* read_msg fails.
Disconnect(c) ==
    /\ pc[c] = "idle"
    /\ pc' = [pc EXCEPT ![c] = "offline"]
    /\ UNCHANGED <<entry, active, task, todo, target, tx, failures, announced>>

\* try_send_stream_msg on an open channel; a full one drops the message.
Enqueue(p) ==
    task' = [task EXCEPT ![p].queue = IF @ < QueueCap THEN @ + 1 ELSE @]

\* The first half of send_or_recreate_stream_msg.
TrySend(c) ==
    /\ pc[c] = "send"
    /\ IF Open(tx[c])
       THEN /\ Enqueue(tx[c])
            /\ pc' = [pc EXCEPT ![c] = "idle"]
            /\ tx' = [tx EXCEPT ![c] = NoPipe]
       ELSE /\ pc' = [pc EXCEPT ![c] = "evict"]
            /\ UNCHANGED <<task, tx>>
    /\ UNCHANGED <<entry, active, todo, target, failures, announced>>

\* A fault to check against: without the same_channel test.
EvictAny(c) ==
    /\ pc[c] = "evict"
    /\ entry' = [entry EXCEPT ![target[c]] = NoHandle]
    /\ pc' = [pc EXCEPT ![c] = "recreate"]
    /\ UNCHANGED <<active, task, todo, target, tx, failures, announced>>

\* evict_stream_if_same_sender
Evict(c) ==
    /\ pc[c] = "evict"
    /\ entry' = (IF entry[target[c]].pipe = tx[c]
                 THEN [entry EXCEPT ![target[c]] = NoHandle] ELSE entry)
    /\ pc' = [pc EXCEPT ![c] = "recreate"]
    /\ UNCHANGED <<active, task, todo, target, tx, failures, announced>>

Recreate(c, p) ==
    /\ pc[c] = "recreate"
    /\ EnsureStream(target[c], FALSE, p)
    /\ tx' = [tx EXCEPT ![c] = p]
    /\ pc' = [pc EXCEPT ![c] = "resend"]
    /\ UNCHANGED <<active, todo, target, failures, announced>>

\* The second try_send, whose result is ignored.
Resend(c) ==
    /\ pc[c] = "resend"
    /\ IF Open(tx[c]) THEN Enqueue(tx[c]) ELSE UNCHANGED task
    /\ pc' = [pc EXCEPT ![c] = "idle"]
    /\ tx' = [tx EXCEPT ![c] = NoPipe]
    /\ UNCHANGED <<entry, active, todo, target, failures, announced>>
-----------------------------------------------------------------------------
(***************************************************************************)
(* The task ensure_stream spawns.                                          *)
(***************************************************************************)
Becomes(p, state) == task' = [task EXCEPT ![p].state = state]

\* The pipeline returns: its receiver goes, with what is queued.
Returns(p) == task' = [task EXCEPT ![p].state = "exited", ![p].queue = 0]

Start(p) ==
    /\ task[p].state = "spawned"
    /\ Becomes(p, "running")
    /\ active' = active + 1
    /\ UNCHANGED <<entry, conns, failures, announced>>

\* The pipeline handles a message.
Consume(p) ==
    /\ task[p].state = "running"
    /\ task[p].queue > 0
    /\ task' = [task EXCEPT ![p].queue = @ - 1]
    /\ UNCHANGED <<entry, active, conns, failures, announced>>

\* The pipeline returns an error.
Fail(p) ==
    /\ task[p].state = "running"
    /\ failures < MaxFailures
    /\ failures' = failures + 1
    /\ Returns(p)
    /\ UNCHANGED <<entry, active, conns, announced>>

\* A fault to check against: waits for the queue to drain, but never sees that
\* the channel is closed.
NeverCloses(p) == FALSE /\ UNCHANGED vars

\* recv() returns None.
ChannelClosed(p) ==
    /\ Version = "v2"
    /\ task[p].state = "running"
    /\ task[p].queue = 0
    /\ NoSenders(p)
    /\ Returns(p)
    /\ UNCHANGED <<entry, active, conns, failures, announced>>

\* A fault to check against: no cleanup after the pipeline.
CleanupNothing(p) ==
    /\ task[p].state = "exited"
    /\ Becomes(p, "cleaned")
    /\ UNCHANGED <<entry, active, conns, failures, announced>>

\* The task removes the handle of its generation.
Cleanup(p) ==
    /\ task[p].state = "exited"
    /\ Becomes(p, "cleaned")
    /\ LET s == task[p].stream
       IN  entry' = (IF entry[s] # NoHandle /\ entry[s].generation = task[p].generation
                     THEN [entry EXCEPT ![s] = NoHandle] ELSE entry)
    /\ UNCHANGED <<active, conns, failures, announced>>

Forgotten(p) == task' = [task EXCEPT ![p] = NoTask(@.stream)]

Finish(p) ==
    /\ task[p].state = "cleaned"
    /\ Forgotten(p)
    /\ active' = active - 1
    /\ UNCHANGED <<entry, conns, failures, announced>>

TaskStep(p) == Start(p) \/ Consume(p) \/ ChannelClosed(p) \/ Cleanup(p) \/ Finish(p)

ConnStep(c) ==
    \/ \E s \in Streams, seeded \in BOOLEAN, p \in Pipes : HelloStream(c, s, seeded, p)
    \/ HelloDone(c)
    \/ TrySend(c)
    \/ Evict(c)
    \/ \E p \in Pipes : Recreate(c, p)
    \/ Resend(c)

Next ==
    \/ \E p \in Pipes : TaskStep(p) \/ Fail(p)
    \/ \E c \in Conns :
          \/ ConnStep(c)
          \/ \E streams \in SUBSET Streams : Hello(c, streams)
          \/ \E s \in Streams, forwarded \in BOOLEAN, p \in Pipes : Receive(c, s, forwarded, p)
          \/ Disconnect(c)

Spec == Init /\ [][Next]_vars

\* The runtime polls every task that can go on, and a connection that has read
\* a message gets through with it.  Messages need not arrive.
FairSpec ==
    /\ Spec
    /\ \A p \in Pipes : WF_vars(TaskStep(p))
    /\ \A c \in Conns : WF_vars(ConnStep(c))
-----------------------------------------------------------------------------
(***************************************************************************)
(* Safety.                                                                 *)
(***************************************************************************)

\* A handle in the map belongs to a task of its stream that has yet to run its
\* cleanup, and that cleanup will recognise it: the map never keeps the handle
\* of a task that is gone (the stream "permanently stuck until process
\* restart" of docs/live_streaming_tdd_stream_pipeline_restart.md).
HandleOwned ==
    \A s \in Streams : entry[s] # NoHandle =>
        LET t == task[entry[s].pipe]
        IN  /\ t.state \in {"spawned", "running", "exited"}
            /\ t.stream = s
            /\ t.generation = entry[s].generation

\* Connections never take the handle of an open channel out of the map, also
\* when two of them find the same pipeline dead and one has already replaced
\* it: only the cleanup of a task can.
ConnsKeepLive ==
    [][\A s \in Streams : Open(entry[s].pipe) /\ entry'[s] # entry[s] =>
           \E p \in Pipes : task[p].state = "exited" /\ task'[p].state = "cleaned"]_entry

(***************************************************************************)
(* Liveness under FairSpec.                                                *)
(***************************************************************************)

\* The handle of a pipeline that has ended leaves the map, without any further
\* message.
StaleHandleGoes ==
    \A s \in Streams, p \in Pipes :
        (entry[s].pipe = p /\ task[p].state = "exited") ~> entry[s].pipe # p

\* A pipeline that lost its handle ends (v2): it does not go on publishing
\* beside its successor for ever.
OrphanEnds ==
    \A p \in Pipes :
        (task[p].state = "running" /\ \A s \in Streams : entry[s].pipe # p)
            ~> task[p].state = "free"

(***************************************************************************)
(* What the documents say and the code does not do.                        *)
(***************************************************************************)

\* docs/live_streaming_tdd_stream_pipeline_restart.md, Scenario C: while a
\* pipeline stays alive, "Multiple packets for the same stream arrive" and there
\* is "only one pipeline launch".
SinglePipeline ==
    \A p, q \in Pipes : Open(p) /\ Open(q) /\ task[p].stream = task[q].stream => p = q

\* docs/live_streaming_tdd_sdp_sync_seed.md: "A stream with IDR-only RTP and SDP
\* SPS/PPS becomes playable": the pipeline of a stream whose latest HELLO
\* carried parameter sets has them.
SeedReachesPipeline ==
    \A s \in announced : Open(entry[s].pipe) => task[entry[s].pipe].seeded
=============================================================================
