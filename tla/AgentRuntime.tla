------------------------------ MODULE AgentRuntime ------------------------------
(***************************************************************************)
(* The main loop of the agent (bin/agent_forward.rs): every turn it reads  *)
(* server.json and camera.json, installs the runtime overrides, now and    *)
(* then pulls a configuration from the server and writes it into           *)
(* camera.json, and starts, restarts or stops the agent runtime (uplink,   *)
(* camera supervisors, motion poller, heartbeats, ONVIF syncs).            *)
(*                                                                         *)
(* A runtime is a set of spawned tasks.  Most are given their settings by  *)
(* start_runtime; the three ONVIF tasks read the overrides themselves when *)
(* they first run, whatever those are by then.  stop() ends the tasks the  *)
(* runtime has a handle of; what these have spawned in turn (a poller per  *)
(* camera, a heartbeat that is posted until it is accepted, a probe) is    *)
(* detached and goes on.                                                   *)
(*                                                                         *)
(* The process may be killed between any two steps, also between the       *)
(* truncation of camera.json and the write of its text (fs::write).        *)
(***************************************************************************)
EXTENDS AgentConfig, FiniteSets

CONSTANTS CameraFiles,   \* what camera.json may hold at first
          ServerFiles,   \* what the operator may put into server.json
          Remotes,       \* the "config" values the server may answer
          OnvifTasks,    \* the ONVIF tasks a runtime starts (bound: which are followed)
          MaxEdits,      \* bound: operator edits of server.json
          MaxCrashes,    \* bound: kills of the process
          MaxPolls       \* bound: changes of what the server answers

ASSUME RuntimeBounds == {MaxEdits, MaxCrashes, MaxPolls} \subseteq Nat

ASSUME OnvifTasksAssumption ==
  "pollers" \in OnvifTasks /\ OnvifTasks \subseteq {"pollers", "night_vision", "regions"}

\* The cameras of an answer are a JSON array.
ASSUME RemotesAssumption ==
  \A doc \in Remotes : Cameras(doc) \in Seq({Cameras(doc)[k] : k \in DOMAIN Cameras(doc)})

VARIABLES
  cameraFile, serverFile,   \* /etc/sentinel_rtp_cam/{camera,server}.json
  remote,                   \* what GET /api/v1/config answers with now
  overrides,                \* overrides_map()
  pc,                       \* where the main loop is
  serverValue,              \* loop local: server.json as read this turn
  configValue,              \* loop local: the merged document
  desired,                  \* loop local: Option<DesiredRuntime>
  pending,                  \* the text fs::write is about to write
  runtime,                  \* Option<AgentRuntime>
  tasks,                    \* per runtime whose tasks run: what they were given and have read
  left,                     \* detached tasks of runtimes that were stopped
  same,                     \* history: no turn since the start of the runtime has
                            \* installed other overrides
  pulled,                   \* history: the last remote value written by this process
  edits, crashes, polls     \* bounded counters

vars == <<cameraFile, serverFile, remote, overrides, pc, serverValue, configValue,
          desired, pending, runtime, tasks, left, same, pulled,
          edits, crashes, polls>>

None == [config |-> [t |-> "none"]]
Counters == <<edits, crashes, polls>>
Locals == <<serverValue, configValue, desired, pending>>
Running == <<runtime, tasks, left, same>>

-----------------------------------------------------------------------------
\* desired_runtime_from_config, after the overrides of config were installed
DesiredRuntime(config, ov) ==
  LET cams == LoadCameras(ov)
  IN  IF "SERVER_ADDR" \notin DOMAIN ov.glob \/ cams \in {Failed, Ok(<<>>)}
      THEN None
      ELSE [config |-> config, server_addr |-> ov.glob["SERVER_ADDR"], cams |-> cams.cams]

\* AgentConfig::from_env, which start_runtime calls for the heartbeat task
FromEnvOk(ov) == ValidateServerBaseUrl(Or(ov.glob, "SERVER_BASE_URL", "http_local"))

HasServer(ov) == {"SERVER_BASE_URL", "SERVER_BEARER_TOKEN"} \subseteq DOMAIN ov.glob

\* start_runtime fails when it has to start a heartbeat with a base URL that
\* does not validate; that is before it has spawned anything.  Its test for
\* different agent tokens never fires, LoadCameras gives all the same.
StartOk(ov) == HasServer(ov) => FromEnvOk(ov)

FreshGeneration == CHOOSE g \in 0 .. 2 : g \notin DOMAIN tasks

\* start_runtime: what the new tasks are given
StartRuntime(d, ov, g) ==
  [config |-> d.config,
   generation |-> g,
   server_addr |-> d.server_addr,
   cams |-> d.cams,
   streams |-> CameraToStream(d.cams),
   version |-> ConfigVersion(d.config),
   targets |-> HeartbeatTargets(d.cams, d.config),
   heartbeat |-> HasServer(ov),
   ingest |-> Or(ov.glob, "CLIP_PRE_SECS", Absent),
   probes |-> LoadProbeCameras(ov)]

\* run_onvif_motion_poller, run_onvif_night_vision_sync_once and
\* run_onvif_motion_region_sync_once begin by loading their cameras.
Loaded(task, ov) ==
  CASE task = "pollers" -> LoadOnvifCameras(ov)
    [] task = "night_vision" -> LoadNightVisionCameras(ov)
    [] task = "regions" -> LoadRegionCameras(ov)

\* The tasks of a runtime that has just been started: no ONVIF task has run yet.
NewTasks(ov) == [posts |-> HasServer(ov), read |-> [task \in OnvifTasks |-> <<>>]]

\* The detached tasks that generation g may have: pollers of its cameras, and
\* posts or probes under way.
Detached(g) ==
  LET read == tasks[g].read["pollers"]
  IN  {kind \in {"poller", "post"} :
         CASE kind = "poller" -> \E k \in DOMAIN read : read[k].loaded.cams # <<>>
           [] kind = "post" -> tasks[g].posts}

-----------------------------------------------------------------------------
Init ==
  /\ cameraFile \in CameraFiles
  /\ serverFile \in ServerFiles
  /\ remote \in Remotes
  /\ overrides = NoOverrides
  /\ pc = "boot"
  /\ serverValue = EmptyObj /\ configValue = EmptyObj /\ desired = None /\ pending = EmptyObj
  /\ runtime = None
  /\ tasks = <<>> /\ left = {} /\ same = TRUE
  /\ pulled = EmptyObj
  /\ edits = 0 /\ crashes = 0 /\ polls = 0

\* Both files are read (and created when missing) and merged.
LoadFiles ==
  \E server \in {LoadServerJson(serverFile)} :
      /\ serverFile' = CreatedFile(serverFile, DefaultServerJson)
      /\ cameraFile' = CreatedFile(cameraFile, DefaultCameraJson)
      /\ serverValue' = server
      /\ configValue' = MergeServerCamera(LoadCameraJson(cameraFile), server)
      /\ UNCHANGED <<remote, overrides, desired, pending, Running, pulled, Counters>>

\* apply_runtime_overrides_and_log_intervals and desired_runtime_from_config
InstallConfig ==
  \E ov \in {Overrides(configValue)} :
      /\ overrides' = ov
      /\ same' = (same /\ ov = overrides)
      /\ desired' = DesiredRuntime(configValue, ov)
      /\ UNCHANGED <<cameraFile, serverFile, remote, serverValue, configValue,
                     pending, runtime, tasks, left, pulled, Counters>>

\* The start of main, before the loop.
Boot == pc = "boot" /\ pc' = "booted" /\ LoadFiles
BootInstall ==
  /\ pc = "booted" /\ pc' = "turn"
  /\ overrides' = Overrides(configValue)
  /\ UNCHANGED <<cameraFile, serverFile, remote, Locals, Running, pulled, Counters>>

\* The head of a turn of the loop.
Turn == pc = "turn" /\ pc' = "loaded" /\ LoadFiles
TurnInstall == pc = "loaded" /\ pc' = "pull" /\ InstallConfig

\* The pull interval has not passed, there is no server, the request failed,
\* was refused (also when repeated with the camera hint) or held no "config".
NoPull ==
  /\ pc = "pull" /\ pc' = "apply"
  /\ UNCHANGED <<cameraFile, serverFile, remote, overrides, Locals, Running, pulled, Counters>>

\* A fault to check against: the answer is merged as it came.
PullRemoteConfigWhole ==
  /\ pc = "pull" /\ pc' = "merge"
  /\ HasServer(overrides)
  /\ pulled' = remote
  /\ UNCHANGED <<cameraFile, serverFile, remote, overrides, Locals, Running, Counters>>

\* try_pull_remote_config got an answer and removes its "server" section.
PullRemoteConfig ==
  /\ pc = "pull" /\ pc' = "merge"
  /\ HasServer(overrides)
  /\ pulled' = Without(remote, {"server"})
  /\ UNCHANGED <<cameraFile, serverFile, remote, overrides, Locals, Running, Counters>>

\* merge_remote_camera_json: camera.json is read and merged with the answer,
\* and fs::write truncates it.
MergeRemoteConfig ==
  /\ pc = "merge" /\ pc' = "write"
  /\ pending' = MergeRemoteCamera(cameraFile, pulled)
  /\ cameraFile' = Garbled
  /\ UNCHANGED <<serverFile, remote, overrides, serverValue, configValue, desired,
                 Running, pulled, Counters>>

WriteJsonFile ==
  /\ pc = "write" /\ pc' = "reload"
  /\ cameraFile' = pending
  /\ pending' = EmptyObj
  /\ UNCHANGED <<serverFile, remote, overrides, serverValue, configValue, desired,
                 Running, pulled, Counters>>

\* The write fails (disk full): the error is logged, the turn goes on.
WriteFails ==
  /\ pc = "write" /\ pc' = "apply"
  /\ pending' = EmptyObj
  /\ pulled' = EmptyObj
  /\ UNCHANGED <<cameraFile, serverFile, remote, overrides, serverValue, configValue,
                 desired, Running, Counters>>

\* After a pull: camera.json again, with server.json as read at the turn's head.
Reload ==
  /\ pc = "reload" /\ pc' = "reloaded"
  /\ configValue' = MergeServerCamera(LoadCameraJson(cameraFile), serverValue)
  /\ UNCHANGED <<cameraFile, serverFile, remote, overrides, serverValue, desired,
                 pending, Running, pulled, Counters>>

\* A fault to check against: the overrides are not installed again.
ReloadDesires ==
  /\ pc = "reloaded" /\ pc' = "apply"
  /\ desired' = DesiredRuntime(configValue, Overrides(configValue))
  /\ UNCHANGED <<cameraFile, serverFile, remote, overrides, serverValue, configValue,
                 pending, Running, pulled, Counters>>

ReloadInstall == pc = "reloaded" /\ pc' = "apply" /\ InstallConfig

NeedsRestart == desired # None /\ runtime.config # desired.config

\* The configuration runs already, or cannot be started: the old one stays.
KeepRuntime ==
  /\ pc = "apply" /\ pc' = "sleep"
  /\ desired # None
  /\ ~NeedsRestart \/ ~StartOk(overrides)
  /\ UNCHANGED <<cameraFile, serverFile, remote, overrides, Locals, Running, pulled, Counters>>

\* The new runtime's tasks are spawned while the old one's still run.
ReplaceRuntime ==
  /\ pc = "apply" /\ pc' = "stop"
  /\ NeedsRestart /\ StartOk(overrides)
  /\ runtime' = StartRuntime(desired, overrides, FreshGeneration)
  /\ tasks' = [g \in DOMAIN tasks \cup {FreshGeneration} |->
                 IF g = FreshGeneration THEN NewTasks(overrides) ELSE tasks[g]]
  /\ same' = TRUE
  /\ UNCHANGED <<cameraFile, serverFile, remote, overrides, Locals, left, pulled, Counters>>

\* An ONVIF task of a runtime runs for the first time and reads the overrides.
FirstRun(g, task) ==
  /\ tasks[g].read[task] = <<>>
  /\ tasks' = [tasks EXCEPT ![g].read[task] =
                 <<[loaded |-> Loaded(task, overrides),
                    intime |-> same /\ g = runtime.generation]>>]
  /\ UNCHANGED <<cameraFile, serverFile, remote, overrides, pc, Locals, runtime, left, same,
                 pulled, Counters>>

\* AgentRuntime::stop: the tasks with a handle end, the detached ones do not.
Stop(gs) ==
  /\ tasks' = [g \in DOMAIN tasks \ gs |-> tasks[g]]
  /\ left' = left \cup UNION {Detached(g) : g \in gs}

\* A post is accepted, a probe is over, a poller has found no camera to
\* subscribe to.
DetachedEnds(t) ==
  /\ left' = left \ {t}
  /\ UNCHANGED <<cameraFile, serverFile, remote, overrides, pc, Locals, runtime, tasks, same,
                 pulled, Counters>>

\* stop() on the runtime that was replaced, if there was one
StopOld ==
  /\ pc = "stop" /\ pc' = "sleep"
  /\ Stop(DOMAIN tasks \ {runtime.generation})
  /\ UNCHANGED <<cameraFile, serverFile, remote, overrides, Locals, runtime, same,
                 pulled, Counters>>

\* The configuration is not ready: standby.
Standby ==
  /\ pc = "apply" /\ pc' = "sleep"
  /\ desired = None
  /\ runtime' = None
  /\ Stop({g \in DOMAIN tasks : runtime # None /\ g = runtime.generation})
  /\ UNCHANGED <<cameraFile, serverFile, remote, overrides, Locals, same, pulled, Counters>>

\* The five seconds between two turns.
Wake ==
  /\ pc = "sleep" /\ pc' = "turn"
  /\ UNCHANGED <<cameraFile, serverFile, remote, overrides, Locals, Running, pulled, Counters>>

-----------------------------------------------------------------------------
\* The process ends, by ctrl_c or a kill, and is started again.  Only the files
\* survive.
Crash ==
  /\ crashes < MaxCrashes
  /\ crashes' = crashes + 1
  /\ pc' = "boot"
  /\ overrides' = NoOverrides
  /\ serverValue' = EmptyObj /\ configValue' = EmptyObj /\ desired' = None /\ pending' = EmptyObj
  /\ runtime' = None
  /\ tasks' = <<>> /\ left' = {} /\ same' = TRUE
  /\ pulled' = EmptyObj
  /\ UNCHANGED <<cameraFile, serverFile, remote, edits, polls>>

\* The operator replaces server.json.
EditServer ==
  /\ edits < MaxEdits
  /\ edits' = edits + 1
  /\ serverFile' \in ServerFiles \ {serverFile}
  /\ UNCHANGED <<cameraFile, remote, overrides, pc, Locals, Running,
                 pulled, crashes, polls>>

\* The server's configuration of this agent changes.
ServerChanges ==
  /\ polls < MaxPolls
  /\ polls' = polls + 1
  /\ remote' \in Remotes \ {remote}
  /\ UNCHANGED <<cameraFile, serverFile, overrides, pc, Locals, Running,
                 pulled, edits, crashes>>

\* The steps the loop takes by itself.
Step == Boot \/ BootInstall \/ Turn \/ TurnInstall \/ NoPull \/ PullRemoteConfig
        \/ MergeRemoteConfig \/ WriteJsonFile \/ WriteFails \/ Reload
        \/ ReloadInstall \/ KeepRuntime \/ ReplaceRuntime \/ StopOld \/ Standby \/ Wake

Next == \/ Step
        \/ \E g \in DOMAIN tasks, task \in OnvifTasks : FirstRun(g, task)
        \/ \E t \in left : DetachedEnds(t)
        \/ Crash \/ EditServer \/ ServerChanges

\* The loop goes on (some step of it is enabled in every state, so this is its
\* weak fairness), and a server that is asked again and again answers once more,
\* and the disk takes the answer.
Spec == /\ Init /\ [][Next]_vars
        /\ []<><<Step>>_vars
        /\ SF_vars(PullRemoteConfig) /\ SF_vars(WriteJsonFile)

-----------------------------------------------------------------------------
(* Properties *)

\* Types; the tasks of at most two runtimes run at any time.
TypeOK ==
  /\ pc \in {"boot", "booted", "turn", "loaded", "pull", "merge", "write", "reload",
            "reloaded", "apply", "stop", "sleep"}
  /\ cameraFile.t \in {"missing", "garbled", "leaf", "obj"}
  /\ serverFile.t \in {"missing", "garbled", "obj"}
  /\ DOMAIN tasks \subseteq 0 .. 2 /\ Cardinality(DOMAIN tasks) <= 2
  /\ same \in BOOLEAN
  /\ DOMAIN overrides = {"glob", "slot"}
  /\ edits \in 0 .. MaxEdits /\ crashes \in 0 .. MaxCrashes /\ polls \in 0 .. MaxPolls

\* One runtime, and that is the one of its document: every task start_runtime
\* gives its settings has those of the configuration the runtime says it runs
\* (the one later turns compare with), although overrides are installed in three
\* places and stay when a start fails; so has every ONVIF task that ran before a
\* later turn put other overrides in place.  Outside the hand-over no other
\* runtime's tasks run, but for the detached ones.
OneRuntime ==
  /\ runtime # None =>
       LET ov == Overrides(runtime.config)
           read == tasks[runtime.generation].read
       IN  /\ runtime = StartRuntime(DesiredRuntime(runtime.config, ov), ov, runtime.generation)
           /\ \A task \in OnvifTasks : \A k \in DOMAIN read[task] :
                read[task][k].intime => read[task][k].loaded = Loaded(task, ov)
  /\ pc # "stop" => DOMAIN tasks = (IF runtime = None THEN {} ELSE {runtime.generation})

\* The same of the ONVIF tasks whenever they run, and of the detached tasks: a
\* runtime that was stopped leaves nothing behind.
NothingElseRuns ==
  /\ runtime # None =>
       \A task \in OnvifTasks :
         LET read == tasks[runtime.generation].read[task]
         IN  \A k \in DOMAIN read : read[k].loaded = Loaded(task, Overrides(runtime.config))
  /\ pc # "stop" => left = {}

\* The URL the agent talks to and the token it sends there always come from one
\* and the same section the operator wrote: no remote configuration changes
\* either, and a replaced server.json never mixes with what camera.json holds.
OneOperatorServer ==
  HasServer(overrides) =>
    \E file \in CameraFiles \cup ServerFiles :
      LET server == Section(file, "server")
      IN  /\ overrides.glob["SERVER_BASE_URL"] = Text(Field(server, "base_url"))
          /\ overrides.glob["SERVER_BEARER_TOKEN"] = Text(Field(server, "bearer_token"))

\* The runtime runs the document that the last answer was written into.
RunsPulled ==
  /\ pc \notin {"merge", "write", "reload"}
  /\ runtime # None /\ runtime.config = configValue

\* Once a pulled list of cameras runs, these are the cameras of the runtime's
\* document, and every camera and every motion poller (of a poller task that ran
\* before other overrides were in place) has an id of that list (or
\* the default one of its slot, or of no camera at all): "stale legacy top-level
\* camera fields must not survive", neither those of camera.json nor the answer's,
\* in this turn or in a later one that reads the files again.
CanonicalIds ==
  (Canonical(pulled) /\ RunsPulled) =>
    LET entries == Cameras(pulled)
        ids == {Text(CameraIdOf(entries[k])) : k \in 1 .. Len(entries)}
               \cup {DefaultId[i] : i \in 1 .. MaxSlot} \cup {"unknown-camera"}
        Ids(cams) == {cams[k].camera_id : k \in 1 .. Len(cams)}
        read == tasks[runtime.generation].read["pollers"]
    IN  /\ Cameras(runtime.config) = entries
        /\ Ids(runtime.cams) \subseteq ids
        /\ \A k \in DOMAIN read : read[k].intime => Ids(read[k].loaded.cams) \subseteq ids

\* The server's answer is a complete configuration by itself.
Complete(value, server) ==
  LET config == MergeServerCamera(MergeRemoteCamera(Garbled, Without(value, {"server"})), server)
  IN  /\ Canonical(value)
      /\ DesiredRuntime(config, Overrides(config)) # None

\* server.json names a server, and the server answers with a configuration.
ServerReady ==
  LET server == LoadServerJson(serverFile)
  IN  HasServer(Overrides(server)) /\ Complete(remote, server)

RunsRemote == runtime # None /\ Cameras(runtime.config) = Cameras(remote)

\* "If a server is configured, the agent will pull camera config from it"
\* (README.md:35): whatever was killed, lost or half written before, a server
\* that stays usable has its cameras run again and again.  The one exception is
\* a camera.json that is not an object: the server section is then not merged
\* in, and the agent never asks again.
FollowsServer ==
  <>[](ServerReady /\ cameraFile.t # "leaf") => []<>RunsRemote

\* The same without the exception.
AlwaysFollowsServer == <>[]ServerReady => []<>RunsRemote
=============================================================================
