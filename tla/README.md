# Verification of the Sentinel video receiver

TLA+ models of `sentinel_rtp_cam` (all paths below are relative to
`src/sentinel_rtp_cam/src/` unless they start with `docs/` or `spec/`), the TLC
configurations that check them on small instances, and theorems that TLAPS proves for
every value of the constants.

    tlc -config LiveV2Playlist.cfg MCLiveV2      # a run; PROJECT.json lists them all
    tlapm LiveV2Proofs.tla                       # a proof module

`PROJECT.json` maps every definition to the lines it models, and lists the runs, the
hazards and which property is about which of them, and the theorems.

## 1. The system and its parts

An *agent* next to the cameras pulls RTSP/RTP from them and motion events over ONVIF, and
forwards both over one TLS connection to a *server*, which publishes live HLS and motion
clips as files. The agent gets its configuration and its jobs (probe a camera, restart,
shut down, update) from the server's HTTP API.

    server API --config--> agent runtime --starts--> supervisors, pollers, syncs, uplink, jobs
    server API --jobs----> heartbeat loop

    camera --RTSP/RTP--> camera supervisor --\
                                              +--> uplink ==TLS==> connection --> stream registry
    camera --ONVIF-----> motion poller+latch-/                                          |
                              |                              pipeline v2 (HLS) or v1 (clips), one per stream
                        local recorder                                                  |
                                                                 files that players and other programs read

| Part | State | Operations | Interacts with | Hard behaviour | What makes it correct |
|---|---|---|---|---|---|
| **Live pipeline v2** `live/v2.rs`, `core/h264_depacketize.rs`, `core/h264_sync.rs` | playlist, open segment, gate, sequence number; session directories, manifests, `current.json` | take a packet, a gap; rotate and publish a segment; write the pointer; remove old sessions | registry (channel), players (files), its own detached cleanup tasks, older pipelines of the stream | loss anywhere in a picture; death between any two file operations; cleanup tasks that run late and delete entry by entry; an older pipeline that still writes beside the latest | what a player can read is consistent until its session is given up; media that is missing is marked |
| **Stream registry** `bin/server_ingest.rs` | map stream → sender and generation, `active_streams` | ensure, send, evict, recreate, cleanup on exit | connections (shared map), pipelines (channels) | two connections and an ending pipeline race over one entry; generations restart | no stale handle stays, no live one is lost |
| **Clip pipeline v1** `server_pipeline.rs`, `core/clip_writer.rs` | ring buffer, snapshot, open clip; `.part`, `.h264`, `.json` files | take a packet, motion, a gap; start, write, finish a clip | registry (channel), readers of the clip directory | snapshot and live media must join; write retries; crashes between files; a timer ends a clip | clips have no holes, decode after a loss, and end |
| **Camera supervisor** `bin/agent_forward.rs`, `rtsp/rtsp.rs` | session phase, back-off, `OfflineTracker`, `offline_state` | connect, read with a timeout, fail, back off, report offline and online | uplink, server API | retries against a camera that comes and goes; stale times | outages are reported when they happen and only then; the stream comes back |
| **Uplink** `agent_uplink.rs` | connection, media queue (bounded, drops), motion queue, back-off | connect, HELLO, forward, ping, reconnect, shut down | supervisors, poller, server | nothing is acknowledged and a write into the buffer of a dead connection succeeds; full queue; every phase can fail or hang | order kept, nothing repeated, motion lost only with the connection it was given to, queues drain, shutdown ends it |
| **Agent runtime and configuration** `bin/agent_forward.rs`, `config/agent_config.rs` | two files, the process-wide overrides, the running runtime | load, validate, merge, pull, install, start, replace, stop, standby | all agent tasks, server API, operator | file written in place; overrides shared by all and read late; tasks that outlive `stop()`; a start that fails; legacy fields | one runtime, running what it says; server.json alone names the server; the server's configuration ends up running |
| **Motion poller, latch, event bus** `onvif/onvif_motion.rs`, `motion_event_latch.rs`, `event/` | subscription, state and id per rule, shared motion state, subscriber channel, latched ids | subscribe, renew, pull, edge, publish; normalise, forward | camera, recorder, uplink | subscription loss forgets motion; mixed cameras; a full channel stops the publisher | one id per motion period, the shared state is what is tracked, polling goes on |
| **Local recorder** `core/clip_recorder.rs` | Idle/Armed/Recording, deadlines, sticky motion, clip directory | motion, NAL, deadline, re-arm, cleanup | shared motion state, receivers, uploader | deadlines that move with motion; limits that interact | least duration kept, exactly what must go is removed, recording ends |
| **Jobs** `server/server_client.rs` | handled jobs, restart marker (file), probe tasks, retried posts, the update program | poll, probe, restart, shut down, update, report | server API, service manager, probe | lost acknowledgements, death at any point, jobs handed out again, an updater nobody waits for any more | a restart happens once and is told truthfully, an update is done again only when its updater was abandoned, jobs end |
| **ONVIF settings and probe** `onvif/onvif_night_vision.rs`, `onvif/onvif_motion_region.rs`, `onvif/onvif_probe.rs` | progress of a sync or a probe, the report | discover, read, modify | camera, jobs | read-modify-write against edits by others; optional requests that fail; a status whose body is lost | success means set, the rest is kept; the probe reports what is there; every camera is tried |

## 2. Modules

| Module | Models |
|---|---|
| `H264` | `H264Depacketizer` and `H264SyncGate` as operators on a whole packet |
| `H264Ref`, `MCH264` | the same code NAL by NAL, as it is written; the reference the operators are compared with |
| `LiveV2`, `MCLiveV2`, `LiveV2Proofs` | `run_stream_v2`: sessions that follow or overlap each other, and the file tree |
| `StreamRegistry`, `MCStreamRegistry`, `StreamRegistryProofs` | map, connections, pipeline tasks |
| `CameraSupervisor` | one camera task with its timers |
| `ClipPipeline`, `MCClipPipeline`, `ClipPipelineProofs` | `run_stream` with `ClipWriter` |
| `Uplink`, `UplinkProofs` | `Uplink::connect_and_run` with its queues, against a server that comes and goes |
| `MotionFeed` | abstract: what the server may be told about the motion of each camera and rule |
| `MotionPoller`, `MCMotionPoller`, `MotionPollerProofs` | pollers, event bus, shared state, latch, forwarding task; implements `MotionFeed` |
| `ClipRecorder` | `ClipRecorder::run` with its directory |
| `AgentConfig` | operators: documents, defaults, validation, merging, overrides, loaders |
| `AgentRuntime`, `MCAgentRuntime`, `AgentRuntimeProofs` | the loop of `main` over `AgentConfig` |
| `AgentJobs`, `MCAgentJobs`, `AgentJobsProofs` | the heartbeat loop, jobs, marker, probe manager, and the updaters as processes of their own |
| `OnvifSettings`, `MCOnvifSettings` | the two syncs and the probe, concurrently, against cameras |
| `CameraProofs` | the theorems about `CameraSupervisor`, `H264Ref`, `ClipRecorder` and `OnvifSettings`; these share no state and no names, so one module extends them all |

**Composition.** `LiveV2` and `ClipPipeline` use `H264`. `AgentRuntime` uses
`AgentConfig`, and what `StartRuntime` records is what the other agent modules are started
with: the cameras of `CameraSupervisor`, the pollers of `MotionPoller`, the cameras of
`OnvifSettings`, the heartbeat of `AgentJobs`. `MotionPoller` composes four components
(poller, bus, shared state, latch with forwarding) because the property that matters, that
one motion has one id, is about all of them. The server's end of the uplink is
`StreamRegistry`.

**Atomicity.** A step ends where another actor can see or change something: a rename or
deletion of a file (`LiveV2`, `ClipPipeline`, `AgentRuntime`, `AgentJobs`), an await on a
channel or a request (`Uplink`, `MotionPoller`, `OnvifSettings`), a critical section
(`StreamRegistry`). `Die` and `Crash` may come between any two steps. `fs::write` is two
steps, the truncation and the writing, so a kill in between leaves a file that does not
parse. `fs::remove_dir_all` takes one entry at a time (`RemoveEntry`), in any order, and may
fail or be killed in between. A request and its acknowledgement can be lost separately
(`"lost"`, `"unacked"`; `"lost before"`, `"lost after"`), and of an answer the body can be
lost behind its status (`"cut"`).

**What goes on behind the code's back.** Work that the code no longer controls is modelled
as actors of its own. In `LiveV2` a pipeline that is still running when the next session of
its stream starts becomes a *stray*: it goes on publishing segments, manifests and pointers
(the `Stray...` actions; its media and timing are any). In `AgentRuntime` a stopped runtime
leaves detached tasks behind (`left`), and the ONVIF tasks read the process-wide overrides
when they first run (`FirstRun`; all keys in one step), not when they are spawned. In
`AgentJobs` an updater is a process that goes on when its waiter has timed out, crashed or
been replaced with its runtime. In `Uplink` what was written waits in the buffers of the
connection (`unread`) until the server reads it or the connection is gone.

**Media.** A NAL unit is its class (`sps`, `pps`, `idr`, `other`). Packets are a set the
configuration chooses: single NALs, aggregates, fragments, payloads the depacketizer
refuses, payloads without a NAL. Whether a packet "is in order" is what the comparison
of sequence numbers yields: after a loss it never is; without one it may still not be.
Ghost variables (`lost`, `torn`, `cut`, `content`, `condemned`; `silent`, `outage`,
`recovered`; `announced`; `exits`, `born`, `installers`, `abandoned`; `pulled`, `same` and the
field `intime`; `dirty` and the field `unread` of the probe; `received`, and `lost` in
`Uplink`; `seen`, `dropped`, `lastClip`) keep what really happened, and no guard of a code step reads them except to decide whether
a loss is visible.

**Documents.** JSON values are objects of the fields the code tells apart, `null`, text
and lists. A camera object is flat; the settings that only tune intervals are left out.
SOAP answers are the list of elements the parsers look for, a fault, a status alone, or
nothing.

**Time.** In the pipelines a segment or a clip may be due at any point and `prune_ring` may
drop any older part of the ring, which covers every timing. `CameraSupervisor` and
`ClipRecorder` count ticks, and keep an instant as its age, or as the time left, up to the
threshold it is compared with. In the others timeouts are failures that can come at
any time; the latch's merge window is a choice (`Merges`).

**External code** (`"external"` in the map) is modelled from how the code uses it: tokio's
clock and channels, `tokio::fs::File`, which takes the bytes of a write before they are on
disk and reports a failure at the next one (`WriteUnitAfterError`), cameras and what they
answer, the server's handling of jobs and configuration, the update program, the service
manager that starts the agent again.

## 3. Runs

| Run | Instance | Shows |
|---|---|---|
| `h264_reference` | every aggregate of up to four NALs, with resets | `ClosedFormAgrees`: the operators of `H264` equal the NAL-by-NAL loop |
| `live_playlist` | one session of 5 segments, window of 3 | `ManifestServable`, `DiskBounded`, `SegmentsDecodable`, `DiscontinuityMarked`, `ManifestContinues`, `StopAnnounced` |
| `live_restart` | two sessions of up to 2 segments that follow or overlap, keep count 1 | `PointerSound`: the pointer names what was published, until a later session's cleanup begins to delete it; `PointerForward`: it goes back only to the session of a stray |
| `registry` | two connections, one stream, two tasks alive, one failure | `HandleOwned`, `ConnsKeepLive`, `StaleHandleGoes`, `OrphanEnds` |
| `camera` | the real defaults (20 s, 10 s, 30 s) | `OfflineJustified`, `FirstOutageReported`, `Recovers` |
| `clips` | 3 access units, 2 clips, ring of 3 s | `ClipContiguous`, `ClipResyncs`, `ClipEnds` |
| `uplink` | media queue of 2, 3 media and 2 motion messages | `SentInOrder`: written in order, nothing twice; `MotionAccounted`: a motion message is lost only with the connection it was given to, and outside a session none is at stake; `Drains`; `Stops` |
| `motion` | two cameras with a rule name in common, 3 ids, channel of 1 | `FeedSpec`: the forwarding implements `MotionFeed`; `SharedExact`; `KeepsPolling` |
| `recorder` | two rules, 2 motions, all five limits small | `MinDuration`, `Retention`, `EndsWhenQuiet` |
| `jobs` | three probe jobs on two cameras, or a restart and a shutdown, or a firmware job and a shutdown; two updaters, two faults | `RestartOnce`, `RestartTruthful`; `UpdateOnce`: of two updaters that do the same update the earlier was abandoned at work; `JobsEnd` |
| `runtime` | 3 camera files, 3 server files, 4 answers; an edit, a change of the answer, a kill | `OneRuntime`, `OneOperatorServer`, `CanonicalIds`, `FollowsServer` |
| `onvif` | two makes of camera, one of which refuses in an HTTP 200; one call lost or broken off, one edit or removal by another client | `ProbeHonest`, `SyncTruthful`, `AllAttempted` |

Every property stands in its module with a comment that says what it means and which code
it is about.

**Bounds.** Five segments let the window of three slide twice, so that an evicted file,
one about to be evicted and the gap between them exist together. Two sessions with a
keep count of one are the least for which a cleanup deletes a session the pointer names,
one whose pipeline still runs, or both. Two connections and two tasks are the least for which an
eviction, a replacement and a late cleanup concern different tasks; a task's identity is
used again when it is forgotten, so behaviours are not cut short. Three access units are
a snapshot, the unit that starts the clip and one more, with a loss before any of them,
and a second clip can take its preroll from media of the first. A media queue of two with
three messages is full, half full and dropping; two motion messages can overtake or
repeat each other. Three motion ids are two motions of one camera around one of the
other, so that an end can be matched with the wrong start. In the recorder the limits are
such that each of them alone, and two of them together, decide what is removed, and a
second motion can come before, at and after every deadline. Two faults of
the agent (a crash, a replaced runtime, a marker that cannot be read or removed) lose every
memory twice, once while an updater is at work and once after its successor has started. One
lost call and one foreign edit reach every error path of the syncs and of the probe, and an
edit between reading and writing; the second camera shows what an earlier failure leaves. Deadlock checking is off only where a behaviour may really
end: at the bound on sessions or ids, when the camera's task is stopped, when a recorder
or a poller has ended with an error, and after the one-shot syncs. The theorems of section
4 do not depend on any bound.

**Fairness.** Weak fairness of the steps a task takes by itself, because the runtime polls
a task that is ready and every request has a timeout. Never of what comes from outside: no
message, no loss and no end of a connection is assumed. `Finalize` in `ClipPipeline` is
strongly fair: `select!` picks at random among the branches that are ready, so a due tick
is not passed over for ever by a stream of messages; the same holds of the two branches of
`ClipRecorder` that its liveness needs. `Recovers` assumes of a camera that stays up that
it answers and streams. `Drains` is about a server that stays calm, `JobsEnd` about a
network that works and a process that stays up in the end (fairness of the loop, of every
probe, answer and retried post, and of the service manager), `EndsWhenQuiet` about a
recorder for which now and then nothing happens during a whole tick. `FollowsServer`
assumes that the loop of `main` goes on, and strong fairness of the pull and of the write: a
server that is asked again and again answers, and the disk takes the answer in the end. `StopAnnounced` asks for nothing when
the pipeline dies first.

**Refinement.** `MotionFeed` has two variables, what was last sent for each camera and rule
and the ids used, and four steps: a period starts under a fresh id or as the continuation of
the last one, its start is told again, it ends, or an end without a start is told for a key
nothing was ever sent for. `MotionPoller` has the same two variables, changed only where a
message is handed to the uplink, and `FeedSpec` says that they never do anything else (`Feed
== INSTANCE MotionFeed WITH ...`), over pollers that fail and forget, subscribers that come
late and cameras that share a rule name.

**Mutants.** For every property there is a variant of one mapped definition, a bug that
could be made there, which breaks it under the same configuration (`PushedFront`,
`EvictedOneMore`, `DesyncKeepsSynced`, `ForwardOnce`, `ReloadDesires`, ...). They stand just
before the definitions they vary, marked "A fault to check against", and nothing else uses
them.

## 4. Proofs

TLAPS proves these for all values of the constants, from the assumptions the modules state
about them (segment, window and time constants natural numbers, positive where the code
forces that; `Packets` any set of packets; any sets of connections, streams, tasks, cameras,
rules and jobs; any configuration documents; any cameras, with any services, profiles, rules
and analytics modules; both pipeline versions). Three theorems need one more thing each, and
say so: `ClipsAlwaysContiguous` a ring that keeps something (below), `SharedAlwaysExact` is
about rules with a name, and `ProbeAlwaysHonest` about a configured region that has points.
Every one of the 22 invariants the runs check is proved, and so are the action properties
`PointerForward`, `ManifestContinues`, `ConnsKeepLive`, `FirstOutageReported` and
`SyncTruthful` and the refinement `FeedSpec`; what is left to TLC is liveness.

*LiveV2Proofs.* `Invariance` is the inductive invariant `IndInv`, of six parts, each with
a lemma that every action keeps it:
`TypeOK`;
`ControlInv` (what the task has in hand at each `pc`: a segment to publish, none when it
opens one, something published when it writes the pointer);
`PlaylistInv` (the playlist in memory is the manifest on disk, and its last entry is the
latest published segment, or the one being published while files are evicted);
`FilesInv` (every listed segment of a session that is not condemned has its file, and the
files about to be evicted are not listed);
`PointerInv` (`PointerSound`, and a pointer at the running session has its generation, is
not stopped and is not ahead of what it published);
`StrayInv` (a stray keeps a playlist of its own, which is the manifest of its session until
that session is condemned, and has written the pointer from it; no two strays share a
session).
A session is condemned from the moment a cleanup has chosen it. The theorems say nothing of
a condemned session, whose directory goes entry by entry, and say that the latest session is
never one. The lemmas `Beside` and `StrayStore` show that what a stray does to its own
session leaves the others alone.
Servability alone is not inductive: that deleting evicted files hurts no manifest needs
that the manifest was replaced before, with those numbers gone, which is what
the other parts say of the `pc` in between. From it follow `TypeCorrect`,
`ManifestAlwaysServable`, `PointerAlwaysSound`, and the action properties
`ManifestAlwaysContinues` and `PointerMovesForward`.
Two more invariants stand on `IndInv`. `MediaInv` gives `SegmentsAlwaysDecodable` and
`DiscontinuityAlwaysMarked`: an open gate has its parameter sets (`GateInv`, with the lemma
`GateFacts` that an IDR slice leaves the gate only behind them); `pending_discontinuity`
agrees with what is really missing at every `pc` from a loss to the next `open_segment`,
and nothing is missing while a segment is open because every loss finalizes it (`CutInv`);
hence what is listed or open is as promised (`ContentInv`). `StoreInv` gives
`DiskAlwaysBounded`: the files are the listed ones, with the segment being published or the ones
being evicted, and `ListedBounded` bounds their number by the length of the playlist.

*StreamRegistryProofs.* `HandlesAlwaysOwned` (with type correctness) from `RegistryInv`,
and `ConnsAlwaysKeepLive` from it and `EvictInv`: a connection about to evict holds the
sender of a task that is no longer open, and a task never opens again while somebody
holds its sender.

*CameraProofs*, in four parts.

- `CameraSupervisor`: `CameraInvariance` (a streaming camera is online, up to the first
  recovery a report is justified) and `FirstOutageAlwaysReported`, from `CameraInv`, which
  ties the tracker's age to the true age of the outage until the first recovery.
- `H264Ref`: `ClosedFormAlwaysAgrees`, for payloads of any length. `RoundsAgree` compares
  the loop after each of its rounds with the closed form over the NAL units so far.
- `ClipRecorder`: `DurationAlwaysKept` from `DeadlineInv` (while a clip is recorded, its age
  and the time left to a deadline together reach the limit that deadline is for; motion that
  starts, ends or goes on moves deadlines but keeps this). `RetentionAlwaysExact` from
  `FilesInv` (the clips are sorted by age) and `CleanupExact`: the three passes of
  `cleanup_old_clips`, each of which only sees what the one before has left, remove exactly
  the least number of oldest clips after which all three limits hold (`Needed`). That needs
  partial sums of the sizes (`SumsFacts`, `SumsOfStretch`).
- `OnvifSettings`: `SyncAlwaysTruthful` and `ProbeAlwaysHonest` from `SettingsInv`. For the
  sync: it has told of every camera before its own (`TurnInv`); what it knows is its own
  camera's, and the element it is about to send is on the camera unless someone has changed
  the camera or a call was lost (`RegionInv`); without edits the elements are the camera's own but for the
  region (`EditInv`); an undisturbed sync has set every camera it can set (`KeptInv`). For
  the probe: what it knows at each of its requests as long as none was lost (`ProbeReads`),
  and that a promise is made on a token, an analytics service and a rule the camera has
  (`ProbeTells`). `HeardFacts`, `NightLost` and `RegionLost` say what is left of an answer
  that arrived whole, in part or not at all. Both theorems make the exception the code
  needs: a sync may report a success that a camera refused in an HTTP 200 whose body was
  lost, and a probe may deny a region whose rules it could not read. The two
  come together in `AddressesAgree`: although the probe takes the last service of either
  media version and the sync the last media2 or the first media1 service, on a camera whose
  listed media services answer and whose analytics services all or none have an address,
  they ask the same analytics service, and the sync's media service answers. About cameras
  it is assumed that a rule or module name occurs once per list, since a Modify request
  finds its element by name.

The prover cannot instantiate the library's induction theorems. Where a definition recurses
over data (`Pushed`, `Sums`), the proofs take the least counterexample instead:
`LeastNatural` (from the well-foundedness of `<`) and `UpTo`, an induction over a set of
numbers.

*UplinkProofs.* `SentAlwaysInOrder` and `MotionAlwaysAccounted`, from `UplinkInv`. That what
was written is in order is not inductive: one needs that each queue holds its messages in
order, all of them younger than the one in hand, and that one younger than all that were
written (`KindInv`, for media and motion), and that there is nothing in hand outside a write
(`HandInv`), so that a reconnection cannot write it again. What is written and not yet read
is lost when the session is left, whether or not a write has failed.

*ClipPipelineProofs.* `ClipsAlwaysResync` from `DecodeInv`: a pipeline that has lost media
is out of sync, and a unit behind a loss is an IDR with parameter sets wherever it is kept,
in the ring, the snapshot or a clip (`ResyncInv`); `PhaseInv` says where the pipeline is in
the life of a clip. `ClipsAlwaysContiguous` from that and `HoldInv`: the ring is contiguous
and ends with the last access unit (`RingInv`), the snapshot and an open clip end where the
next access unit goes on (`SnapshotInv`, `ClipInv`). It assumes `RingSecs # 0`: with a ring
of no length `prune_ring` may drop the access unit before it is written, and the clip gets a
hole.

*MotionPollerProofs.* `PollerInv` gives `SharedAlwaysExact` and the step simulation
`FeedImplemented`: every step of pollers, bus and latch is a step of `MotionFeed` or leaves
what was sent alone. That a period has an id of its own is about all places an id can be in
at once (`Claims`: used, in the channel, in a hand, tracked): ids are handed out in order
and no two keys share one (`ClaimInv`), and a start that waits has a younger id than all its
key has had (`FreshInv`). An end that waits, is about to be published or may still be
noticed follows its own start or nothing (`EndInv`), the latch remembers the last message of
each key (`LatchInv`), and before the forwarding task has subscribed nothing was sent
(`QuietInv`). The refinement mapping takes `last` and `used` as they are.

*AgentJobsProofs.* `RestartsOnce`, `RestartAlwaysTruthful` and `UpdatesOnce`, from
`JobsInv`: the marker file stands for an exit the server has not heard of and keeps the loop
away from restart jobs, and after an exit the marker is there or the server knows the end
(`MarkerInv`); whoever says that the restart has succeeded, in memory, in a post under way
or at the server, says it after the agent is back (`TellInv`); the installed version tells
whether the update was done, and of the updaters that have done it all but the last were
abandoned (`InstallInv`): while the loop waits for one it starts no other.

*AgentRuntimeProofs.* `AlwaysOneRuntime` from `RuntimeInv`: from the head of a turn until
the runtime is started, overrides and wish are those of the merged document
(`InstalledInv`), although a pull may replace the document in between; a hand-over has a new
runtime (`HandOverInv`); until a turn installs others, the overrides are the runtime's
(`OwnInv`), so an ONVIF task that first runs before that reads its own runtime's settings. `AlwaysOneOperatorServer` from `ServerInv`: no file, document read
or document about to be written has a "server" section of another origin than the operator's
files, because `try_pull_remote_config` takes it out of the answer; the lemmas follow a
section through loading, merging, stripping and flattening. `AlwaysCanonicalIds` from
`PulledInv`: the document has the cameras of the last answer from the merge until an edit or
the next pull, in memory and in the file, so that reading the file again brings no legacy
field back; `LoadedIds` follows an id from the list through the overrides into the camera
and poller configurations.

Only model-checked: the twelve liveness properties (the prover does no fairness or
`ENABLED`).

## 5. What the documents say and the code does not do

Ten statements of the documents or comments, and one that a reader of `stop()` would expect,
are formulas in their modules which no run checks because they do not hold. Each is violated on the instance of its
component's run, with the change named here.

- `PointerPlayable`. `docs/live_streaming_review.md:580`: "`current.json` points only to a
  playable session". Cleanup keeps the newest sessions and its own (`live/v2.rs:447`), not
  the one pointed to: after as many later sessions as are kept, if they published nothing, the
  pointer's session is removed. Instance: `live_restart`.
- `GenerationPersists`. `docs/live_streaming_review.md:141`: "generation increments are
  persisted". The generation is read once, at the start of a session, from `current.json`: it
  starts again at 1 when the file cannot be read (`live/v2.rs:371`), and an older pipeline of
  the stream that still runs writes its own, smaller one. Instance: `live_restart`.
- `NoPartialFrames`. `spec/requirements.md:122`: under loss "no partial-frame output". When
  the first slice of an IDR picture is lost, the loss is noticed and the gate closed
  (`live/v2.rs:615`), but the gate opens again at the next IDR slice, which is the second
  slice of the same picture: what is left of it is written. Instance: `live_playlist` with
  `Packets <- TwoSliceCamera`.
- `SinglePipeline`. `docs/live_streaming_tdd_stream_pipeline_restart.md:83`: "cleanup from
  generation `1` does not remove generation `2`", and `:88-90`: "only one pipeline launch".
  The generation is counted from the entry that is there (`bin/server_ingest.rs:662`); an
  eviction removes it, so the next pipeline is generation 1 again and the late cleanup of
  the first one removes its entry (`:725`): the stream is launched a second time beside a
  pipeline that runs. Instance: `registry` with a third task.
- `SeedReachesPipeline`. `docs/live_streaming_tdd_sdp_sync_seed.md:23`: "A stream with
  IDR-only RTP and SDP SPS/PPS becomes playable." A HELLO with parameter sets for a stream
  whose pipeline already runs without them reuses it (`bin/server_ingest.rs:655`). Instance:
  `registry`, no failure needed.
- `EveryOutageReported`. `docs/live_streaming_tdd_camera_reconnect_offline.md:18-19`:
  "Outage episode [...] ends on successful RTP recovery", "recovery emits a single online
  transition". `on_outage_recovered` has no caller, so `offline` stays set and the test
  `!self.offline` (`bin/agent_forward.rs:267`) suppresses every later report. Instance:
  `camera`.
- `Resumes`. The same document, `:70`: "Unplug/replug during active stream no longer
  requires agent restart." The reads of the RTSP handshake have no timeout
  (`rtsp/rtsp.rs:78`): a camera that goes silent during it holds the task for ever.
  Instance: `camera`; `Recovers` is what does hold.
- `NothingElseRuns`. A runtime that was stopped leaves nothing behind, and what runs has the
  settings of its runtime. `AgentRuntime::stop` (`bin/agent_forward.rs:142`) aborts the tasks
  it has handles of; the pollers per camera (`onvif/onvif_motion.rs:563`), retried posts
  (`server/server_client.rs:1874`) and probes are detached and go on beside those of the next
  runtime. An ONVIF task that first runs after the next turn has installed its overrides
  (`bin/agent_forward.rs:490`) reads those. Instance: `runtime`.
- `HardStop`. `core/clip_recorder.rs:66`: "Maximum duration per clip in seconds (hard
  stop)". The sleep until the deadline is made anew in every turn of the loop, and nothing
  else looks at the deadline, so packets that keep coming keep the clip open. Instance:
  `recorder`.
- `ArmedForThisMotion`. `core/clip_recorder.rs:218`: "sticky until motion ends". The id is
  not given up when motion ends during a recording, and the next motion is recorded under
  the id of the earlier one. Instance: `recorder`.
- `AlwaysFollowsServer`. `README.md:35`: "If a server is configured, the agent will pull
  camera config from it." An answer `{"config": null}` is written to `camera.json` as
  `null`; server settings are merged into objects only, so after a restart the agent no
  longer knows its server. Instance: `runtime`.

Smaller differences and limits, with neither formula nor run:

- A gap publishes its segment without a pointer write, so `current.json` lags by that
  segment until the next rotation (`live/v2.rs:847`);
  `docs/live_streaming_tdd_session_pointer_readiness.md:20` expects it after every segment.
  `PointerSound` shows that it never runs ahead.
- A loss of exactly a multiple of 65536 packets is not seen (`live/v2.rs:615`); without
  markers `current_au_nals` grows without bound (`:668`).
- After a recovery a later outage is judged by the age of the first one
  (`bin/agent_forward.rs:239`); RTCP frames restart the read timeout, so a camera that sends
  only those is never reported.
- A v1 clip may start with a picture that is not an IDR when the ring holds none: the
  comment at `server_pipeline.rs:773`, "Wait for first IDR AU to arrive before writing
  anything", guards only the case without parameter sets. With `CLIP_PRE_SECS=0` the ring
  keeps nothing. `stop_at` is fixed when a clip starts, while
  `docs/MOTION_AND_CLIP_RECORDING.md` describes recording that goes on with the motion. A v1
  pipeline never ends when its channel is closed (`server_pipeline.rs:315`).
- Motion written into the buffer of a connection whose peer is gone is lost without a failed
  write (`agent_uplink.rs:606`): the protocol acknowledges nothing.
- An update can be done twice, or by two updaters at once: an updater that timed out, or whose
  heartbeat task or process ended, goes on (there is no `kill_on_drop`,
  `server/server_client.rs:1374`), and the job is run again while the old version is
  installed. A firmware job told to have failed after a timeout may still be installed.
- A restart job whose "restarting" reached the server without an acknowledgement, or whose
  agent died before it exited, is skipped from then on as not pending
  (`server/server_client.rs:1105`) and never done. `JobsEnd` accepts this: it says that the
  job does not stay pending, and that it ends if the agent exited for it.
- A probe job handed out again while it is being done is answered with a failure that closes
  it (`server/server_client.rs:367`), whatever the first task finds.
- A rollback job that is handed out again after a restart is done again: only updates are
  compared with the installed version (`server/server_client.rs:1439`).
- The shared motion state is keyed by rule name alone (`event/event_bus.rs:110`), so two
  cameras with the same rule name share an entry; `SharedExact` says what does hold.
- When a subscription is lost, motion is forgotten without an end event. A poller ends on an
  error other than a refused connection (`onvif/onvif_motion.rs:509`).
- A probe whose GetRules answer is lost behind its status reports "not supported", not a
  failure (`onvif/onvif_probe.rs:527`). The region sync counts a lost body as an empty one
  without a fault, that is as success (`onvif/onvif_motion_region.rs:516`), also where the
  camera refused in an HTTP 200.
- The probe's envelope does not declare the prefix `tan` its GetRules request uses
  (`onvif/onvif_probe.rs:540`); the models' cameras accept it, a strict one need not.
- The probe finds motion regions with a parser of its own (`onvif/onvif_probe.rs:984`), not
  the one the sync uses. The syncs run once per start.
- An empty list of motion region points is accepted (`onvif/onvif_motion_region.rs:215`) and
  takes the points of the camera's polygon away (`:433`); after that neither the sync nor
  the probe finds the region again, which is why `ProbeHonest` is about a region with
  points.
- A clip file that cannot be created ends the recorder for good (`StartClip(FALSE)`).
- One camera without `STREAM_ID` stops the whole forwarding of agent media
  (`forward_agent.rs:62`); a `ping_interval_sec` of 0 from the server panics the uplink
  (`agent_uplink.rs:308`).

## 6. Not modelled

Listed with reasons under `components` in `PROJECT.json`: the byte level of RTSP, RTP and
SDP, the receivers that only print or write what they get, small utilities, test and
diagnostic programs. The rest of the code is either a parser or a builder of text that
keeps no state between calls, or output that nothing reads back.
Of the modelled parts: health files, statistics, telemetry, lifecycle notifications and
log lines; temporary files and the removal of stale `.part` files; media bytes and
durations; MPEG-TS; the event logger; job actions the agent answers with "unsupported".

## 7. Plan

1. *Done*: all components of section 1, the refinement of `MotionFeed` with its proof, and
   proofs of every safety property the runs check.
2. `HlsStore`: an abstract specification of what a player may rely on (an atomic list of
   segments and a pointer), which `LiveV2` implements under a refinement mapping. Its safety
   is what `ManifestServable`, `ManifestContinues`, `PointerSound` and `PointerForward` say
   now.
