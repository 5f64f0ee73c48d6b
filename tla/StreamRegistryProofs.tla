------------------------ MODULE StreamRegistryProofs ------------------------
(***************************************************************************)
(* The registry never keeps the handle of a task that is gone, and         *)
(* connections never take a live one away: for any number of connections,  *)
(* streams, tasks and failures.                                            *)
(***************************************************************************)
EXTENDS StreamRegistry, TLAPS

\* The two are inductive together.
RegistryInv == TypeOK /\ HandleOwned

\* ensure_stream keeps the map and the tasks typed and every handle owned.
LEMMA EnsureKeeps ==
    ASSUME RegistryInv, NEW s \in Streams, NEW seeded \in BOOLEAN, NEW p \in Pipes,
           EnsureStream(s, seeded, p)
    PROVE  /\ entry' \in [Streams -> Handle \cup {NoHandle}]
           /\ task' \in [Pipes -> Task]
           /\ HandleOwned'
  <1> USE RegistryAssumption
  <1>0. TypeOK /\ HandleOwned
    BY DEF RegistryInv
  <1>1. CASE Open(entry[s].pipe)
    BY <1>0, <1>1 DEF EnsureStream, TypeOK, HandleOwned
  <1>2. CASE ~Open(entry[s].pipe)
    <2>1. /\ task[p].state = "free" /\ NoSenders(p)
          /\ Launch(s, seeded, p)
      BY <1>2 DEF EnsureStream
    <2>2. NextGeneration(s) \in Nat
      BY <1>0 DEF NextGeneration, TypeOK, Handle, NoHandle
    <2> DEFINE h == [pipe |-> p, generation |-> NextGeneration(s)]
               t == [state |-> "spawned", stream |-> s, seeded |-> seeded,
                     generation |-> NextGeneration(s), queue |-> 0]
    <2>3. h \in Handle /\ t \in Task
      BY <2>2 DEF Handle, Task, TaskState
    <2>4. /\ h.pipe = p /\ h.generation = NextGeneration(s)
          /\ t.state = "spawned" /\ t.stream = s /\ t.generation = NextGeneration(s)
      OBVIOUS
    <2>5. entry' = [entry EXCEPT ![s] = h] /\ task' = [task EXCEPT ![p] = t]
      BY <2>1 DEF Launch
    <2> HIDE DEF h, t
    <2>6. entry' \in [Streams -> Handle \cup {NoHandle}] /\ task' \in [Pipes -> Task]
      BY <1>0, <2>3, <2>5 DEF TypeOK
    <2>7. HandleOwned'
      <3> SUFFICES ASSUME NEW r \in Streams, entry'[r] # NoHandle
                   PROVE  /\ task'[entry'[r].pipe].state \in {"spawned", "running", "exited"}
                          /\ task'[entry'[r].pipe].stream = r
                          /\ task'[entry'[r].pipe].generation = entry'[r].generation
        BY DEF HandleOwned
      <3>1. CASE r = s
        <4>1. entry'[r] = h /\ task'[p] = t
          BY <1>0, <2>5, <3>1 DEF TypeOK
        <4> QED BY <2>4, <3>1, <4>1
      <3>2. CASE r # s
        <4>1. entry'[r] = entry[r]
          BY <1>0, <2>5, <3>2 DEF TypeOK
        <4>2. entry[r].pipe \in Pipes /\ entry[r].pipe # p
          BY <1>0, <2>1, <4>1 DEF TypeOK, Handle, NoSenders
        <4>3. task'[entry[r].pipe] = task[entry[r].pipe]
          BY <1>0, <2>5, <4>2 DEF TypeOK
        <4> QED BY <1>0, <4>1, <4>3 DEF HandleOwned
      <3> QED BY <3>1, <3>2
    <2> QED BY <2>6, <2>7
  <1> QED BY <1>1, <1>2

\* Removing handles, or changing a task that stays owned, keeps them owned.
LEMMA OwnedKept ==
    ASSUME TypeOK, HandleOwned,
           \A s \in Streams : entry'[s] \in {entry[s], NoHandle},
           \A q \in Pipes :
              \/ \A s \in Streams : entry'[s].pipe # q
              \/ /\ task[q].state \in {"spawned", "running", "exited"}
                    => task'[q].state \in {"spawned", "running", "exited"}
                 /\ task'[q].stream = task[q].stream
                 /\ task'[q].generation = task[q].generation
    PROVE  HandleOwned'
  <1> SUFFICES ASSUME NEW s \in Streams, entry'[s] # NoHandle
               PROVE  /\ task'[entry'[s].pipe].state \in {"spawned", "running", "exited"}
                      /\ task'[entry'[s].pipe].stream = s
                      /\ task'[entry'[s].pipe].generation = entry'[s].generation
    BY DEF HandleOwned
  <1>1. entry'[s] = entry[s] /\ entry[s].pipe \in Pipes
    BY DEF TypeOK, Handle
  <1> QED BY <1>1 DEF HandleOwned

\* What a task step writes into one task.
LEMMA TaskUpdate ==
    ASSUME TypeOK, NEW p \in Pipes, NEW t \in Task, task' = [task EXCEPT ![p] = t]
    PROVE  /\ task' \in [Pipes -> Task]
           /\ task'[p] = t
           /\ \A q \in Pipes \ {p} : task'[q] = task[q]
  BY DEF TypeOK

\* Enqueue and Consume, Becomes and Returns touch the queue and the state only.
LEMMA FieldUpdates ==
    ASSUME TypeOK, NEW p \in Pipes,
           \/ Enqueue(p)
           \/ task' = [task EXCEPT ![p].queue = @ - 1] /\ task[p].queue > 0
           \/ Becomes(p, "running") \/ Becomes(p, "cleaned")
           \/ Returns(p)
    PROVE  /\ task' \in [Pipes -> Task]
           /\ \A q \in Pipes : /\ task'[q].stream = task[q].stream
                               /\ task'[q].generation = task[q].generation
           /\ \A q \in Pipes \ {p} : task'[q] = task[q]
           /\ Enqueue(p) => task'[p].state = task[p].state
           /\ task' = [task EXCEPT ![p].queue = @ - 1] => task'[p].state = task[p].state
           /\ Becomes(p, "running") => task'[p].state = "running"
           /\ Returns(p) => task'[p].state = "exited"
  BY RegistryAssumption DEF TypeOK, Task, TaskState, Enqueue, Becomes, Returns

\* Init establishes the invariant.
LEMMA RegistryInit == Init => RegistryInv
  <1> SUFFICES ASSUME Init PROVE RegistryInv
    OBVIOUS
  <1> USE RegistryAssumption DEF Init
  <1>1. PICK s \in Streams : task = [p \in Pipes |-> NoTask(s)] /\ target = [c \in Conns |-> s]
    OBVIOUS
  <1>2. NoTask(s) \in Task
    BY DEF NoTask, Task, TaskState
  <1>3. task \in [Pipes -> Task] /\ target \in [Conns -> Streams]
    BY <1>1, <1>2
  <1>4. TypeOK
    BY <1>3 DEF TypeOK
  <1>5. HandleOwned
    BY DEF HandleOwned
  <1> QED BY <1>4, <1>5 DEF RegistryInv

\* Every step of a connection preserves the invariant.
LEMMA ConnKeeps ==
    ASSUME RegistryInv, NEW c \in Conns,
           \/ ConnStep(c)
           \/ \E streams \in SUBSET Streams : Hello(c, streams)
           \/ \E s \in Streams, forwarded \in BOOLEAN, p \in Pipes : Receive(c, s, forwarded, p)
           \/ Disconnect(c)
    PROVE  RegistryInv'
  <1> USE RegistryAssumption
  <1>0. TypeOK /\ HandleOwned
    BY DEF RegistryInv
  <1>1. ASSUME NEW s \in Streams, NEW seeded \in BOOLEAN, NEW p \in Pipes,
               HelloStream(c, s, seeded, p)
        PROVE  RegistryInv'
    <2>1. EnsureStream(s, seeded, p)
      BY <1>1 DEF HelloStream
    <2>2. /\ entry' \in [Streams -> Handle \cup {NoHandle}] /\ task' \in [Pipes -> Task]
          /\ HandleOwned'
      BY <2>1, EnsureKeeps
    <2>3. todo' \in [Conns -> SUBSET Streams] /\ announced' \subseteq Streams
      BY <1>0, <1>1 DEF HelloStream, TypeOK
    <2>4. TypeOK'
      BY <1>0, <1>1, <2>2, <2>3 DEF HelloStream, TypeOK
    <2> QED BY <2>2, <2>4 DEF RegistryInv
  <1>2. CASE HelloDone(c) \/ Disconnect(c) \/ \E streams \in SUBSET Streams : Hello(c, streams)
    <2>1. UNCHANGED <<entry, task>>
      BY <1>2 DEF HelloDone, Disconnect, Hello
    <2>2. TypeOK'
      BY <1>0, <1>2 DEF HelloDone, Disconnect, Hello, TypeOK
    <2> QED BY <1>0, <2>1, <2>2 DEF RegistryInv, HandleOwned
  <1>3. CASE TrySend(c) \/ Resend(c)
    <2>1. /\ entry' = entry
          /\ UNCHANGED task \/ (tx[c] \in Pipes /\ Enqueue(tx[c]))
      BY <1>0, <1>3 DEF TrySend, Resend, Open, TypeOK
    <2>2. CASE UNCHANGED task
      <3>1. TypeOK'
        BY <1>0, <1>3, <2>2 DEF TrySend, Resend, TypeOK
      <3> QED BY <1>0, <2>1, <2>2, <3>1 DEF RegistryInv, HandleOwned
    <2>3. CASE tx[c] \in Pipes /\ Enqueue(tx[c])
      <3>1. /\ task' \in [Pipes -> Task]
            /\ \A q \in Pipes : /\ task'[q].stream = task[q].stream
                                /\ task'[q].generation = task[q].generation
                                /\ task'[q].state = task[q].state
        BY <1>0, <2>3, FieldUpdates
      <3>2. TypeOK'
        BY <1>0, <1>3, <3>1 DEF TrySend, Resend, TypeOK
      <3>3. HandleOwned'
        BY <1>0, <2>1, <3>1, OwnedKept
      <3> QED BY <3>2, <3>3 DEF RegistryInv
    <2> QED BY <2>1, <2>2, <2>3
  <1>4. CASE Evict(c)
    <2>1. /\ \A s \in Streams : entry'[s] \in {entry[s], NoHandle}
          /\ entry' \in [Streams -> Handle \cup {NoHandle}]
      BY <1>0, <1>4 DEF Evict, TypeOK
    <2>2. task' = task
      BY <1>4 DEF Evict
    <2>3. TypeOK'
      BY <1>0, <1>4, <2>1 DEF Evict, TypeOK
    <2>4. HandleOwned'
      BY <1>0, <2>1, <2>2, OwnedKept
    <2> QED BY <2>3, <2>4 DEF RegistryInv
  <1>5. ASSUME NEW p \in Pipes, Recreate(c, p)
        PROVE  RegistryInv'
    <2>1. EnsureStream(target[c], FALSE, p) /\ target[c] \in Streams
      BY <1>0, <1>5 DEF Recreate, TypeOK
    <2>2. /\ entry' \in [Streams -> Handle \cup {NoHandle}] /\ task' \in [Pipes -> Task]
          /\ HandleOwned'
      BY <2>1, EnsureKeeps
    <2>3. TypeOK'
      BY <1>0, <1>5, <2>2 DEF Recreate, TypeOK
    <2> QED BY <2>2, <2>3 DEF RegistryInv
  <1>6. ASSUME NEW s \in Streams, NEW forwarded \in BOOLEAN, NEW p \in Pipes,
               Receive(c, s, forwarded, p)
        PROVE  RegistryInv'
    <2>1. EnsureStream(s, FALSE, p)
      BY <1>6 DEF Receive
    <2>2. /\ entry' \in [Streams -> Handle \cup {NoHandle}] /\ task' \in [Pipes -> Task]
          /\ HandleOwned'
      BY <2>1, EnsureKeeps
    <2>3. TypeOK'
      BY <1>0, <1>6, <2>2 DEF Receive, TypeOK
    <2> QED BY <2>2, <2>3 DEF RegistryInv
  <1> QED BY <1>1, <1>2, <1>3, <1>4, <1>5, <1>6 DEF ConnStep

\* Every step of a task preserves the invariant.
LEMMA TaskKeeps ==
    ASSUME RegistryInv, NEW p \in Pipes, TaskStep(p) \/ Fail(p)
    PROVE  RegistryInv'
  <1> USE RegistryAssumption DEF conns
  <1>0. TypeOK /\ HandleOwned
    BY DEF RegistryInv
  <1>1. CASE Start(p) \/ Consume(p) \/ Fail(p) \/ ChannelClosed(p)
    <2>1. /\ \/ task' = [task EXCEPT ![p].queue = @ - 1] /\ task[p].queue > 0
             \/ Becomes(p, "running") \/ Returns(p)
          /\ UNCHANGED entry
      BY <1>1 DEF Start, Consume, Fail, ChannelClosed
    <2>2. /\ task' \in [Pipes -> Task]
          /\ \A q \in Pipes : /\ task'[q].stream = task[q].stream
                              /\ task'[q].generation = task[q].generation
          /\ \A q \in Pipes \ {p} : task'[q] = task[q]
          /\ task'[p].state = task[p].state \/ task'[p].state \in {"running", "exited"}
      BY <1>0, <2>1, FieldUpdates
    <2>3. TypeOK'
      BY <1>0, <1>1, <2>2 DEF Start, Consume, Fail, ChannelClosed, TypeOK
    <2>4. HandleOwned'
      BY <1>0, <2>1, <2>2, OwnedKept
    <2> QED BY <2>3, <2>4 DEF RegistryInv
  <1>2. CASE Cleanup(p)
    <2> DEFINE s == task[p].stream
    <2>1. s \in Streams /\ task[p].state = "exited"
      BY <1>0, <1>2 DEF Cleanup, TypeOK, Task
    <2>2. Becomes(p, "cleaned")
      BY <1>2 DEF Cleanup
    <2>3. /\ task' \in [Pipes -> Task]
          /\ \A q \in Pipes : /\ task'[q].stream = task[q].stream
                              /\ task'[q].generation = task[q].generation
          /\ \A q \in Pipes \ {p} : task'[q] = task[q]
      BY <1>0, <2>2, FieldUpdates
    <2>4. entry' = IF entry[s] # NoHandle /\ entry[s].generation = task[p].generation
                   THEN [entry EXCEPT ![s] = NoHandle] ELSE entry
      BY <1>2 DEF Cleanup
    <2>5. /\ \A r \in Streams : entry'[r] \in {entry[r], NoHandle}
          /\ entry' \in [Streams -> Handle \cup {NoHandle}]
      BY <1>0, <2>1, <2>4 DEF TypeOK
    <2>6. \A r \in Streams : entry'[r].pipe # p
      <3> SUFFICES ASSUME NEW r \in Streams, entry'[r].pipe = p PROVE FALSE
        OBVIOUS
      <3>1. entry'[r] = entry[r] /\ entry[r] # NoHandle
        BY <2>5 DEF NoHandle
      <3>2. r = s /\ entry[r].generation = task[p].generation
        BY <1>0, <3>1 DEF HandleOwned
      <3>3. entry'[r] = NoHandle
        BY <1>0, <2>1, <2>4, <3>1, <3>2 DEF TypeOK
      <3> QED BY <3>1, <3>3
    <2>7. TypeOK'
      BY <1>0, <1>2, <2>3, <2>5 DEF Cleanup, TypeOK
    <2>8. HandleOwned'
      BY <1>0, <2>3, <2>5, <2>6, OwnedKept
    <2> QED BY <2>7, <2>8 DEF RegistryInv
  <1>3. CASE Finish(p)
    <2>1. task[p].state = "cleaned" /\ Forgotten(p) /\ entry' = entry
      BY <1>3 DEF Finish
    <2>2. task[p].stream \in Streams
      BY <1>0 DEF TypeOK, Task
    <2>3. NoTask(task[p].stream) \in Task
      BY <2>2 DEF NoTask, Task, TaskState
    <2>4. task' = [task EXCEPT ![p] = NoTask(task[p].stream)]
      BY <2>1 DEF Forgotten
    <2>5. task' \in [Pipes -> Task] /\ \A q \in Pipes \ {p} : task'[q] = task[q]
      BY <1>0, <2>3, <2>4, TaskUpdate
    <2>6. \A r \in Streams : entry'[r].pipe # p
      BY <1>0, <2>1, RegistryAssumption DEF HandleOwned, NoHandle
    <2>7. TypeOK'
      BY <1>0, <1>3, <2>5 DEF Finish, TypeOK
    <2>8. HandleOwned'
      BY <1>0, <2>1, <2>5, <2>6, OwnedKept
    <2> QED BY <2>7, <2>8 DEF RegistryInv
  <1> QED BY <1>1, <1>2, <1>3 DEF TaskStep
-----------------------------------------------------------------------------
\* Whatever connections and tasks do and in whatever order, the map holds no
\* handle of a task that has run its cleanup, and every handle is the one its
\* task will recognise.
THEOREM HandlesAlwaysOwned == Spec => [](TypeOK /\ HandleOwned)
  <1>1. RegistryInv /\ [Next]_vars => RegistryInv'
    <2> SUFFICES ASSUME RegistryInv, [Next]_vars PROVE RegistryInv'
      OBVIOUS
    <2>1. CASE UNCHANGED vars
      BY <2>1 DEF vars, conns, RegistryInv, TypeOK, HandleOwned
    <2>2. CASE Next
      BY <2>2, ConnKeeps, TaskKeeps DEF Next
    <2> QED BY <2>1, <2>2
  <1> QED BY RegistryInit, <1>1, PTL DEF Spec, RegistryInv
-----------------------------------------------------------------------------
(***************************************************************************)
(* Connections never remove a live handle.  The reason is that a sender    *)
(* found closed stays closed while a connection holds it.                  *)
(***************************************************************************)
EvictInv == \A c \in Conns : pc[c] = "evict" => ~Open(tx[c])

\* A channel becomes open only by Launch, on an identity nobody refers to.
LEMMA OpenFresh ==
    ASSUME RegistryInv, [Next]_vars, NEW q \in Pipes, Open(q)', ~Open(q)
    PROVE  \A c \in Conns : tx[c] # q
  <1> USE RegistryAssumption DEF conns
  <1>0. TypeOK
    BY DEF RegistryInv
  <1>1. task'[q].state \in {"spawned", "running"} /\ ~(task[q].state \in {"spawned", "running"})
    BY DEF Open
  <1>2. ASSUME NEW s \in Streams, NEW seeded \in BOOLEAN, NEW p \in Pipes,
               EnsureStream(s, seeded, p)
        PROVE  \A c \in Conns : tx[c] # q
    <2>1. Launch(s, seeded, p) /\ NoSenders(p)
      BY <1>1, <1>2 DEF EnsureStream
    <2>2. q = p
      BY <1>0, <1>1, <2>1 DEF Launch, TypeOK
    <2> QED BY <2>1, <2>2 DEF NoSenders
  <1>3. ASSUME NEW c \in Conns, TrySend(c) \/ Resend(c)
        PROVE  FALSE
    <2>1. UNCHANGED task \/ (tx[c] \in Pipes /\ Enqueue(tx[c]))
      BY <1>0, <1>3 DEF TrySend, Resend, Open, TypeOK
    <2>2. task'[q].state = task[q].state
      BY <1>0, <2>1, FieldUpdates
    <2> QED BY <1>1, <2>2
  <1>4. ASSUME NEW p \in Pipes, TaskStep(p) \/ Fail(p)
        PROVE  FALSE
    BY SMTT(30), <1>0, <1>1, <1>4
       DEF TaskStep, Fail, Start, Consume, ChannelClosed, Cleanup, Finish, Becomes, Returns,
           Forgotten, NoTask, TypeOK, Task
  <1>5. task' # task
    BY <1>1
  <1>6. CASE Next
    <2>1. ASSUME NEW c \in Conns, ConnStep(c)
          PROVE  \A d \in Conns : tx[d] # q
      BY <1>0, <1>2, <1>3, <1>5, <2>1
         DEF ConnStep, HelloStream, HelloDone, Evict, Recreate, TypeOK
    <2>2. ASSUME NEW c \in Conns, NEW s \in Streams, NEW forwarded \in BOOLEAN, NEW p \in Pipes,
                 Receive(c, s, forwarded, p)
          PROVE  \A d \in Conns : tx[d] # q
      BY <1>2, <2>2 DEF Receive
    <2> QED BY <1>4, <1>5, <1>6, <2>1, <2>2 DEF Next, Hello, Disconnect
  <1> QED BY <1>5, <1>6 DEF vars

\* A sender is kept from the failed try_send to the eviction.
LEMMA EvictKept == RegistryInv /\ EvictInv /\ [Next]_vars => EvictInv'
  <1> SUFFICES ASSUME RegistryInv, EvictInv, [Next]_vars,
                      NEW c \in Conns, pc'[c] = "evict", Open(tx[c])'
               PROVE  FALSE
    BY DEF EvictInv
  <1> USE RegistryAssumption DEF conns
  <1>0. TypeOK
    BY DEF RegistryInv
  <1>a. pc \in [Conns -> {"offline", "hello", "idle", "send", "evict", "recreate", "resend"}]
    BY <1>0 DEF TypeOK
  <1>1. \/ TrySend(c) /\ ~Open(tx[c]) /\ tx' = tx
        \/ pc[c] = "evict" /\ tx'[c] = tx[c]
    <2>1. ASSUME NEW p \in Pipes, TaskStep(p) \/ Fail(p)
          PROVE  pc' = pc /\ tx' = tx
      BY <2>1 DEF TaskStep, Start, Consume, ChannelClosed, Cleanup, Finish, Fail
    <2>2. ASSUME NEW d \in Conns, NEW s \in Streams, NEW seeded \in BOOLEAN, NEW p \in Pipes,
                 HelloStream(d, s, seeded, p)
          PROVE  pc' = pc /\ tx' = tx
      BY <2>2 DEF HelloStream
    <2>3. ASSUME NEW d \in Conns,
                 \/ HelloDone(d) \/ Evict(d) \/ Disconnect(d)
                 \/ \E streams \in SUBSET Streams : Hello(d, streams)
          PROVE  pc[c] = "evict" /\ tx' = tx
      BY <1>a, <2>3 DEF HelloDone, Evict, Disconnect, Hello
    <2>4. ASSUME NEW d \in Conns, NEW s \in Streams, NEW forwarded \in BOOLEAN, NEW p \in Pipes,
                 Receive(d, s, forwarded, p)
          PROVE  pc[c] = "evict" /\ tx'[c] = tx[c]
      BY <1>0, <1>a, <2>4 DEF Receive, TypeOK
    <2>5. ASSUME NEW d \in Conns, NEW p \in Pipes, Recreate(d, p)
          PROVE  pc[c] = "evict" /\ tx'[c] = tx[c]
      BY <1>0, <1>a, <2>5 DEF Recreate, TypeOK
    <2>6. ASSUME NEW d \in Conns, Resend(d)
          PROVE  pc[c] = "evict" /\ tx'[c] = tx[c]
      BY <1>0, <1>a, <2>6 DEF Resend, TypeOK
    <2>7. ASSUME NEW d \in Conns, TrySend(d)
          PROVE  \/ d = c /\ ~Open(tx[c]) /\ tx' = tx
                 \/ pc[c] = "evict" /\ tx'[c] = tx[c]
      BY <1>0, <1>a, <2>7 DEF TrySend, TypeOK
    <2>8. CASE UNCHANGED vars
      BY <2>8 DEF vars
    <2> QED BY <2>1, <2>2, <2>3, <2>4, <2>5, <2>6, <2>7, <2>8 DEF Next, ConnStep
  <1>2. ~Open(tx[c])
    BY <1>1 DEF EvictInv
  <1>3. tx'[c] = tx[c]
    BY <1>1
  <1>4. tx[c] \in Pipes /\ Open(tx[c])' = (task'[tx[c]].state \in {"spawned", "running"})
    BY <1>0, <1>3 DEF Open, TypeOK
  <1> DEFINE q == tx[c]
  <1>5. q \in Pipes /\ task'[q].state \in {"spawned", "running"} /\ ~Open(q)
    BY <1>2, <1>4
  <1>6. q # NoPipe
    BY <1>5
  <1> QED BY <1>5, <1>6, OpenFresh DEF Open

\* The handle of an open channel changes only in the cleanup of a task.
LEMMA LiveHandleStep ==
    ASSUME RegistryInv, EvictInv, [Next]_vars,
           NEW s \in Streams, Open(entry[s].pipe), entry'[s] # entry[s]
    PROVE  \E p \in Pipes : task[p].state = "exited" /\ task'[p].state = "cleaned"
  <1> USE RegistryAssumption DEF conns
  <1>0. TypeOK
    BY DEF RegistryInv
  <1>1. ASSUME NEW r \in Streams, NEW seeded \in BOOLEAN, NEW p \in Pipes,
               EnsureStream(r, seeded, p)
        PROVE  FALSE
    <2>1. CASE Open(entry[r].pipe)
      BY <1>1, <2>1 DEF EnsureStream
    <2>2. CASE ~Open(entry[r].pipe)
      BY <1>0, <1>1, <2>2 DEF EnsureStream, Launch, TypeOK
    <2> QED BY <2>1, <2>2
  <1>2. ASSUME NEW c \in Conns, Evict(c)
        PROVE  FALSE
    <2>1. pc[c] = "evict" /\ target[c] \in Streams
      BY <1>0, <1>2 DEF Evict, TypeOK
    <2>2. target[c] = s /\ entry[s].pipe = tx[c]
      BY <1>0, <1>2, <2>1 DEF Evict, TypeOK
    <2> QED BY <2>1, <2>2 DEF EvictInv
  <1>3. ASSUME NEW p \in Pipes, Cleanup(p)
        PROVE  task[p].state = "exited" /\ task'[p].state = "cleaned"
    BY <1>0, <1>3 DEF Cleanup, Becomes, TypeOK, Task
  <1>4. ASSUME NEW c \in Conns,
               \/ ConnStep(c) \/ Disconnect(c)
               \/ \E streams \in SUBSET Streams : Hello(c, streams)
               \/ \E r \in Streams, forwarded \in BOOLEAN, p \in Pipes : Receive(c, r, forwarded, p)
        PROVE  FALSE
    <2>1. CASE ConnStep(c)
      <3>1. CASE \E r \in Streams, seeded \in BOOLEAN, p \in Pipes : HelloStream(c, r, seeded, p)
        BY <1>1, <3>1 DEF HelloStream
      <3>2. CASE \E p \in Pipes : Recreate(c, p)
        BY <1>0, <1>1, <3>2 DEF Recreate, TypeOK
      <3>3. CASE HelloDone(c) \/ TrySend(c) \/ Resend(c)
        BY <3>3 DEF HelloDone, TrySend, Resend
      <3> QED BY <1>2, <2>1, <3>1, <3>2, <3>3 DEF ConnStep
    <2>2. CASE Disconnect(c) \/ \E streams \in SUBSET Streams : Hello(c, streams)
      BY <2>2 DEF Disconnect, Hello
    <2>3. CASE \E r \in Streams, forwarded \in BOOLEAN, p \in Pipes : Receive(c, r, forwarded, p)
      BY <1>1, <2>3 DEF Receive
    <2> QED BY <1>4, <2>1, <2>2, <2>3
  <1>5. ASSUME NEW p \in Pipes, TaskStep(p) \/ Fail(p)
        PROVE  Cleanup(p)
    BY <1>5 DEF TaskStep, Fail, Start, Consume, ChannelClosed, Finish
  <1>6. CASE Next
    BY <1>3, <1>4, <1>5, <1>6 DEF Next
  <1> QED BY <1>6 DEF vars

\* Two connections that find the same pipeline dead never undo each other's
\* work: evict_stream_if_same_sender and ensure_stream leave the handle of an
\* open channel alone, whatever the interleaving.
THEOREM ConnsAlwaysKeepLive == Spec => ConnsKeepLive
  <1> DEFINE A == \A s \in Streams : Open(entry[s].pipe) /\ entry'[s] # entry[s] =>
                    \E p \in Pipes : task[p].state = "exited" /\ task'[p].state = "cleaned"
  <1>1. Init => EvictInv
    BY DEF Init, EvictInv
  <1>2. RegistryInv /\ EvictInv /\ [Next]_vars => [A]_entry
    BY LiveHandleStep
  <1>3. Spec => []RegistryInv
    BY HandlesAlwaysOwned DEF RegistryInv
  <1> QED BY <1>1, <1>2, <1>3, EvictKept, PTL DEF Spec, ConnsKeepLive
=============================================================================
