-------------------------- MODULE AgentRuntimeProofs --------------------------
(***************************************************************************)
(* For any files, any answers of the server and any number of edits, kills *)
(* and changes: a running runtime is the one of the document it says it    *)
(* runs, no task of another one that can be stopped runs outside the       *)
(* hand-over, the server the agent talks to is one the operator wrote      *)
(* down, and the cameras of a list it has pulled run under its ids.        *)
(***************************************************************************)
EXTENDS AgentRuntime, SequenceTheorems, TLAPS

\* From the head of a turn to its end the overrides and the wish are those of
\* the merged document.
InstalledInv ==
  /\ pc \in {"pull", "merge", "write", "apply"} => overrides = Overrides(configValue)
  /\ pc \in {"pull", "merge", "write", "apply"} =>
       desired = DesiredRuntime(configValue, overrides)

\* The old runtime is replaced by a new one, never by none; the tasks of the
\* runtime there is are running, and a process begins without one.
HandOverInv ==
  /\ pc = "stop" => runtime # None
  /\ pc \in {"boot", "booted"} => runtime = None
  /\ runtime # None => runtime.generation \in DOMAIN tasks

\* Until a turn installs others, the overrides are those of the runtime.
OwnInv == runtime # None /\ same => overrides = Overrides(runtime.config)

\* What the tasks of a runtime have read is kept per ONVIF task.
TasksInv == \A g \in DOMAIN tasks : "read" \in DOMAIN tasks[g] /\ DOMAIN tasks[g].read = OnvifTasks

RuntimeInv == InstalledInv /\ HandOverInv /\ OwnInv /\ TasksInv /\ OneRuntime
-----------------------------------------------------------------------------
\* A wish is for the document it was read from.
LEMMA DesiredConfig ==
    ASSUME NEW doc, NEW ov, DesiredRuntime(doc, ov) # None
    PROVE  DesiredRuntime(doc, ov).config = doc
  BY DEF DesiredRuntime

\* A runtime that was started is one, with its document and its generation.
LEMMA StartedRuntime ==
    ASSUME NEW d, NEW ov, NEW g
    PROVE  /\ StartRuntime(d, ov, g) # None
           /\ StartRuntime(d, ov, g).config = d.config
           /\ StartRuntime(d, ov, g).generation = g
  <1>1. "generation" \in DOMAIN StartRuntime(d, ov, g)
    BY DEF StartRuntime
  <1>2. "generation" \notin DOMAIN None
    BY DEF None
  <1>3. StartRuntime(d, ov, g).config = d.config /\ StartRuntime(d, ov, g).generation = g
    BY DEF StartRuntime
  <1> QED BY <1>1, <1>2, <1>3

\* Nothing runs when the process starts.
LEMMA RuntimeInit == Init => RuntimeInv
  <1> SUFFICES ASSUME Init PROVE RuntimeInv
    OBVIOUS
  <1>1. pc = "boot" /\ runtime = None /\ tasks = <<>>
    BY DEF Init
  <1>2. DOMAIN tasks = {}
    BY <1>1
  <1> QED BY <1>1, <1>2 DEF RuntimeInv, InstalledInv, HandOverInv, OwnInv, TasksInv, OneRuntime

\* Steps that touch neither the runtime nor its tasks, and do not leave the
\* hand-over, keep what was said of them.
LEMMA RuntimeUntouched ==
    ASSUME OneRuntime, TasksInv, UNCHANGED <<runtime, tasks>>, pc # "stop"
    PROVE  OneRuntime' /\ TasksInv'
  BY DEF OneRuntime, TasksInv

\* Every step of the loop, a kill, an edit and a change of the answer.
LEMMA RuntimeStep == RuntimeInv /\ [Next]_vars => RuntimeInv'
  <1> SUFFICES ASSUME RuntimeInv, [Next]_vars PROVE RuntimeInv'
    OBVIOUS
  <1>1. OneRuntime /\ InstalledInv /\ HandOverInv /\ OwnInv /\ TasksInv
    BY DEF RuntimeInv
  <1>2. CASE Boot \/ Turn
    <2>1. /\ pc # "stop" /\ UNCHANGED <<runtime, tasks, same, overrides>>
          /\ pc' \in {"booted", "loaded"} /\ (pc' = "booted" => pc = "boot")
      BY <1>2 DEF Boot, Turn, LoadFiles, Running
    <2>2. OwnInv' /\ HandOverInv'
      BY <1>1, <2>1 DEF OwnInv, HandOverInv
    <2> QED BY <1>1, <2>1, <2>2, RuntimeUntouched DEF RuntimeInv, InstalledInv
  <1>3. CASE BootInstall \/ TurnInstall \/ ReloadInstall
    <2>1. pc # "stop" /\ pc' \in {"turn", "pull", "apply"} /\ (BootInstall => pc' = "turn")
      BY <1>3 DEF BootInstall, TurnInstall, ReloadInstall
    <2>2. /\ UNCHANGED <<runtime, tasks, configValue>>
          /\ overrides' = Overrides(configValue)
          /\ pc' # "turn" => /\ same' = (same /\ overrides' = overrides)
                             /\ desired' = DesiredRuntime(configValue, overrides')
          /\ pc' = "turn" => pc = "booted"
      BY <1>3 DEF BootInstall, TurnInstall, ReloadInstall, InstallConfig, Locals, Running
    <2>3. InstalledInv'
      BY <2>1, <2>2 DEF InstalledInv
    <2>4. OwnInv' /\ HandOverInv'
      BY <1>1, <2>1, <2>2 DEF OwnInv, HandOverInv
    <2> QED BY <1>1, <2>1, <2>2, <2>3, <2>4, RuntimeUntouched DEF RuntimeInv
  <1>4. CASE NoPull \/ PullRemoteConfig \/ MergeRemoteConfig \/ WriteFails
    <2>1. /\ pc \in {"pull", "merge", "write"}
          /\ pc' \in {"apply", "merge", "write"}
          /\ UNCHANGED <<runtime, tasks, same, configValue, overrides, desired>>
      BY <1>4 DEF NoPull, PullRemoteConfig, MergeRemoteConfig, WriteFails, Locals, Running
    <2>2. InstalledInv' /\ OwnInv' /\ HandOverInv'
      BY <1>1, <2>1 DEF InstalledInv, OwnInv, HandOverInv
    <2> QED BY <1>1, <2>1, <2>2, RuntimeUntouched DEF RuntimeInv
  <1>5. CASE WriteJsonFile \/ Reload \/ KeepRuntime \/ Wake
    <2>1. /\ pc # "stop" /\ UNCHANGED <<runtime, tasks, same, overrides>>
          /\ pc' \in {"reload", "reloaded", "sleep", "turn"}
      BY <1>5 DEF WriteJsonFile, Reload, KeepRuntime, Wake, Running
    <2>2. OwnInv' /\ HandOverInv'
      BY <1>1, <2>1 DEF OwnInv, HandOverInv
    <2> QED BY <1>1, <2>1, <2>2, RuntimeUntouched DEF RuntimeInv, InstalledInv
  <1>6. CASE ReplaceRuntime
    <2> DEFINE g == FreshGeneration
               started == StartRuntime(desired, overrides, g)
               new == NewTasks(overrides)
    <2>1. /\ pc = "apply" /\ pc' = "stop" /\ desired # None
          /\ runtime' = started /\ UNCHANGED overrides
          /\ tasks' = [h \in DOMAIN tasks \cup {g} |-> IF h = g THEN new ELSE tasks[h]]
      BY <1>6 DEF ReplaceRuntime, NeedsRestart
    <2>2. /\ overrides = Overrides(configValue)
          /\ desired = DesiredRuntime(configValue, overrides)
      BY <1>1, <2>1 DEF InstalledInv
    <2>3. desired.config = configValue
      BY <2>1, <2>2, DesiredConfig
    <2>4. started # None /\ started.config = configValue /\ started.generation = g
      BY <2>3, StartedRuntime
    <2>5. started = StartRuntime(DesiredRuntime(started.config, Overrides(started.config)),
                                 Overrides(started.config), started.generation)
      BY <2>2, <2>4
    <2>6. /\ "read" \in DOMAIN new /\ DOMAIN new.read = OnvifTasks
          /\ \A task \in OnvifTasks : DOMAIN new.read[task] = {}
      BY DEF NewTasks
    <2> HIDE DEF started, new, g
    <2>7. TasksInv'
      BY <1>1, <2>1, <2>6 DEF TasksInv
    <2>8. tasks'[runtime'.generation] = new /\ g \in DOMAIN tasks'
      BY <2>1, <2>4
    <2>9. \A task \in OnvifTasks : DOMAIN tasks'[runtime'.generation].read[task] = {}
      BY <2>6, <2>8
    <2>10. OneRuntime'
      BY <2>1, <2>5, <2>9 DEF OneRuntime
    <2>11. OwnInv' /\ HandOverInv'
      BY <2>1, <2>2, <2>4, <2>8 DEF OwnInv, HandOverInv
    <2> QED BY <2>1, <2>7, <2>10, <2>11 DEF RuntimeInv, InstalledInv
  <1>7. CASE StopOld
    <2>1. /\ pc = "stop" /\ pc' = "sleep" /\ UNCHANGED <<runtime, same, overrides>>
          /\ tasks' = [g \in DOMAIN tasks \ (DOMAIN tasks \ {runtime.generation}) |-> tasks[g]]
      BY <1>7 DEF StopOld, Stop
    <2>2. runtime # None /\ runtime.generation \in DOMAIN tasks
      BY <1>1, <2>1 DEF HandOverInv
    <2>3. /\ DOMAIN tasks' = {runtime.generation}
          /\ tasks'[runtime.generation] = tasks[runtime.generation]
      BY <2>1, <2>2
    <2>4. OneRuntime'
      BY <1>1, <2>1, <2>2, <2>3 DEF OneRuntime
    <2>5. TasksInv' /\ HandOverInv' /\ OwnInv'
      BY <1>1, <2>1, <2>2, <2>3 DEF TasksInv, HandOverInv, OwnInv
    <2> QED BY <2>1, <2>4, <2>5 DEF RuntimeInv, InstalledInv
  <1>8. CASE Standby
    <2> DEFINE gs == {g \in DOMAIN tasks : runtime # None /\ g = runtime.generation}
    <2>1. /\ pc = "apply" /\ pc' = "sleep" /\ runtime' = None
          /\ tasks' = [g \in DOMAIN tasks \ gs |-> tasks[g]]
      BY <1>8 DEF Standby, Stop
    <2>2. DOMAIN tasks = (IF runtime = None THEN {} ELSE {runtime.generation})
      BY <1>1, <2>1 DEF OneRuntime
    <2>3. DOMAIN tasks \ gs = {}
      BY <2>2
    <2>4. DOMAIN tasks' = {}
      BY <2>1, <2>3
    <2> QED BY <2>1, <2>4 DEF RuntimeInv, InstalledInv, HandOverInv, OwnInv, TasksInv, OneRuntime
  <1>9. CASE Crash
    <2>1. pc' = "boot" /\ runtime' = None /\ tasks' = <<>>
      BY <1>9 DEF Crash
    <2>2. DOMAIN tasks' = {}
      BY <2>1
    <2> QED BY <2>1, <2>2 DEF RuntimeInv, InstalledInv, HandOverInv, OwnInv, TasksInv, OneRuntime
  <1>10. ASSUME NEW g \in DOMAIN tasks, NEW task \in OnvifTasks, FirstRun(g, task)
         PROVE  RuntimeInv'
    <2> DEFINE e == [loaded |-> Loaded(task, overrides),
                     intime |-> same /\ g = runtime.generation]
    <2>1. /\ UNCHANGED <<pc, runtime, same, overrides, configValue, desired>>
          /\ tasks' = [tasks EXCEPT ![g].read[task] = <<e>>]
      BY <1>10 DEF FirstRun, Locals
    <2>2. e.loaded = Loaded(task, overrides) /\ (e.intime => same /\ g = runtime.generation)
      OBVIOUS
    <2> HIDE DEF e
    <2>3. "read" \in DOMAIN tasks[g] /\ DOMAIN tasks[g].read = OnvifTasks
      BY <1>1 DEF TasksInv
    <2>4. /\ DOMAIN tasks' = DOMAIN tasks
          /\ \A h \in DOMAIN tasks : h # g => tasks'[h] = tasks[h]
          /\ DOMAIN tasks'[g] = DOMAIN tasks[g]
          /\ tasks'[g].read = [tasks[g].read EXCEPT ![task] = <<e>>]
      BY <2>1, <2>3
    <2>5. /\ DOMAIN tasks'[g].read = OnvifTasks
          /\ tasks'[g].read[task] = <<e>>
          /\ \A t \in OnvifTasks : t # task => tasks'[g].read[t] = tasks[g].read[t]
      BY <2>3, <2>4
    <2>6. TasksInv'
      BY <1>1, <2>3, <2>4, <2>5 DEF TasksInv
    <2>7. ASSUME runtime # None, NEW t \in OnvifTasks,
                 NEW k \in DOMAIN tasks'[runtime.generation].read[t],
                 tasks'[runtime.generation].read[t][k].intime
          PROVE  tasks'[runtime.generation].read[t][k].loaded = Loaded(t, Overrides(runtime.config))
      <3>1. CASE g = runtime.generation /\ t = task
        <4>1. tasks'[runtime.generation].read[t] = <<e>>
          BY <2>5, <3>1
        <4>2. k = 1
          BY <2>7, <4>1
        <4>3. tasks'[runtime.generation].read[t][k] = e
          BY <4>1, <4>2
        <4>4. same
          BY <2>2, <2>7, <4>3
        <4>5. overrides = Overrides(runtime.config)
          BY <1>1, <2>7, <4>4 DEF OwnInv
        <4> QED BY <2>2, <3>1, <4>3, <4>5
      <3>2. CASE ~(g = runtime.generation /\ t = task)
        <4>1. runtime.generation \in DOMAIN tasks
          BY <1>1, <2>7 DEF HandOverInv
        <4>2. tasks'[runtime.generation].read[t] = tasks[runtime.generation].read[t]
          BY <2>4, <2>5, <3>2, <4>1
        <4> QED BY <1>1, <2>7, <4>2 DEF OneRuntime
      <3> QED BY <3>1, <3>2
    <2>8. OneRuntime'
      BY <1>1, <2>1, <2>4, <2>7 DEF OneRuntime
    <2>9. InstalledInv' /\ HandOverInv' /\ OwnInv'
      BY <1>1, <2>1, <2>4 DEF InstalledInv, HandOverInv, OwnInv
    <2> QED BY <2>6, <2>8, <2>9 DEF RuntimeInv
  <1>11. CASE (\E t \in left : DetachedEnds(t)) \/ EditServer \/ ServerChanges \/ UNCHANGED vars
    <2>1. UNCHANGED <<pc, runtime, tasks, same, overrides, configValue, desired>>
      BY <1>11 DEF DetachedEnds, EditServer, ServerChanges, vars, Locals, Running
    <2> QED BY <1>1, <2>1 DEF RuntimeInv, InstalledInv, HandOverInv, OwnInv, TasksInv, OneRuntime
  <1> QED BY <1>2, <1>3, <1>4, <1>5, <1>6, <1>7, <1>8, <1>9, <1>10, <1>11 DEF Next, Step

\* The tasks of a running runtime were given the configuration it says it runs,
\* its ONVIF tasks have read that one too unless a later turn came before them,
\* and outside the hand-over no other runtime's tasks run but for detached ones:
\* for any files and answers, wherever a start fails or the agent is killed.
THEOREM AlwaysOneRuntime == Spec => []OneRuntime
  <1>1. Init => RuntimeInv
    BY RuntimeInit
  <1>2. RuntimeInv /\ [Next]_vars => RuntimeInv'
    BY RuntimeStep
  <1>3. RuntimeInv => OneRuntime
    BY DEF RuntimeInv
  <1> QED BY <1>1, <1>2, <1>3, PTL DEF Spec
-----------------------------------------------------------------------------
\* A "server" section the operator wrote, or one without a URL.
OperatorSection(f) ==
  \/ Field(f, "base_url") \in {Absent, Null, ""}
  \/ \E file \in CameraFiles \cup ServerFiles : f = Section(file, "server")

OperatorDoc(doc) == OperatorSection(Section(doc, "server"))

\* What an answer of the server is once try_pull_remote_config is done with it.
NoSection(doc) == doc.t = "obj" => "server" \notin DOMAIN doc.m

\* The overrides hold no server, or the URL and the token of one such section.
OperatorOverrides(ov) ==
  HasServer(ov) =>
    \E file \in CameraFiles \cup ServerFiles :
      LET server == Section(file, "server")
      IN  /\ ov.glob["SERVER_BASE_URL"] = Text(Field(server, "base_url"))
          /\ ov.glob["SERVER_BEARER_TOKEN"] = Text(Field(server, "bearer_token"))

\* No section of the server's answers is in a file, in a document that was read
\* or in one about to be written.
ServerInv ==
  /\ OperatorDoc(cameraFile) /\ OperatorDoc(serverFile)
  /\ OperatorDoc(serverValue) /\ OperatorDoc(configValue) /\ OperatorDoc(pending)
  /\ NoSection(pulled)
  /\ OperatorOverrides(overrides)

\* Two documents with the same entry "server" have the same section.
LEMMA SameSection ==
    ASSUME NEW d, NEW e, d.t = "obj", e.t = "obj",
           "server" \in DOMAIN d.m <=> "server" \in DOMAIN e.m,
           "server" \in DOMAIN d.m => d.m["server"] = e.m["server"]
    PROVE  Section(d, "server") = Section(e, "server")
  BY DEF Section, Has

\* A document without the entry has no section.
LEMMA EmptySection ==
    ASSUME NEW d, NoSection(d)
    PROVE  Section(d, "server") = <<>> /\ OperatorDoc(d)
  <1>1. Section(d, "server") = <<>>
    BY DEF NoSection, Section, Has
  <1>2. Field(<<>>, "base_url") = Absent
    BY DEF Field
  <1> QED BY <1>1, <1>2 DEF OperatorDoc, OperatorSection

LEMMA EmptyObjClean == NoSection(EmptyObj) /\ OperatorDoc(EmptyObj)
  <1>1. NoSection(EmptyObj)
    BY DEF NoSection, EmptyObj, Obj
  <1> QED BY <1>1, EmptySection

\* Reading a file: what it holds, the default for it, or an empty object.
LEMMA LoadedClean ==
    ASSUME NEW file, NEW default, OperatorDoc(file), OperatorDoc(default)
    PROVE  OperatorDoc(CreatedFile(file, default)) /\ OperatorDoc(LoadJsonValue(file, default))
  BY EmptyObjClean DEF CreatedFile, LoadJsonValue

LEMMA DefaultsClean == OperatorDoc(DefaultServerJson) /\ OperatorDoc(DefaultCameraJson)
  <1>1. Field(Section(DefaultServerJson, "server"), "base_url") = Null
    BY DEF DefaultServerJson, Section, Has, Obj, Field
  <1>2. NoSection(DefaultCameraJson)
    BY DEF DefaultCameraJson, NoSection, Obj
  <1> QED BY <1>1, <1>2, EmptySection DEF OperatorDoc, OperatorSection

\* Taking other keys out leaves the section.
LEMMA WithoutSection ==
    ASSUME NEW doc, NEW keys
    PROVE  /\ "server" \in keys => NoSection(Without(doc, keys))
           /\ "server" \notin keys => Section(Without(doc, keys), "server") = Section(doc, "server")
           /\ NoSection(doc) => NoSection(Without(doc, keys))
  <1>1. CASE doc.t = "obj"
    <2> DEFINE w == Without(doc, keys)
    <2>1. /\ w.t = "obj" /\ DOMAIN w.m = DOMAIN doc.m \ keys
          /\ \A k \in DOMAIN w.m : w.m[k] = doc.m[k]
      BY <1>1 DEF Without, Obj
    <2> HIDE DEF w
    <2>2. "server" \notin keys => Section(w, "server") = Section(doc, "server")
      BY <1>1, <2>1, SameSection
    <2>3. /\ "server" \in keys => NoSection(w)
          /\ NoSection(doc) => NoSection(w)
      BY <1>1, <2>1 DEF NoSection
    <2> QED BY <2>2, <2>3 DEF w
  <1>2. CASE doc.t # "obj"
    <2>1. Without(doc, keys) = doc /\ NoSection(doc)
      BY <1>2 DEF Without, NoSection
    <2> QED BY <2>1
  <1> QED BY <1>1, <1>2

\* An answer without the entry leaves the section of the document it is merged
\* into, or takes the place of a document that has none.
LEMMA MergedClean ==
    ASSUME NEW base, NEW update, OperatorDoc(base), NoSection(update)
    PROVE  OperatorDoc(MergeValue(base, update))
  <1>1. CASE base.t = "obj" /\ update.t = "obj"
    <2> DEFINE f == [key \in DOMAIN update.m |->
                       IF key \in DOMAIN base.m THEN MergeSection(base.m[key], update.m[key])
                       ELSE update.m[key]]
               w == Obj(Over(f, base.m))
    <2>1. "server" \notin DOMAIN f
      BY <1>1 DEF NoSection
    <2> HIDE DEF f
    <2>2. w.t = "obj" /\ w.m = Over(f, base.m)
      BY DEF Obj
    <2> HIDE DEF w
    <2>3. /\ "server" \in DOMAIN w.m <=> "server" \in DOMAIN base.m
          /\ "server" \in DOMAIN base.m => w.m["server"] = base.m["server"]
      BY <2>1, <2>2 DEF Over
    <2>4. Section(w, "server") = Section(base, "server")
      BY <1>1, <2>2, <2>3, SameSection
    <2>5. MergeValue(base, update) = w
      BY <1>1 DEF MergeValue, w, f
    <2> QED BY <2>4, <2>5 DEF OperatorDoc
  <1>2. CASE ~(base.t = "obj" /\ update.t = "obj")
    BY <1>2, EmptySection DEF MergeValue
  <1> QED BY <1>1, <1>2

LEMMA RemoteMergedClean ==
    ASSUME NEW file, NEW update, OperatorDoc(file), NoSection(update)
    PROVE  OperatorDoc(MergeRemoteCamera(file, update))
  <1> DEFINE current == LoadCameraJson(file)
  <1>1. OperatorDoc(current)
    BY LoadedClean, DefaultsClean DEF LoadCameraJson
  <1>2. "server" \notin LegacyKeys
    BY DEF LegacyKeys
  <1>3. OperatorDoc(StripLegacy(current)) /\ NoSection(StripLegacy(update))
    BY <1>1, <1>2, WithoutSection DEF StripLegacy, OperatorDoc
  <1> HIDE DEF current
  <1>4. /\ OperatorDoc(MergeValue(StripLegacy(current), StripLegacy(update)))
        /\ OperatorDoc(MergeValue(current, update))
    BY <1>1, <1>3, MergedClean
  <1> QED BY <1>4 DEF MergeRemoteCamera, current

\* The section of server.json, or else that of camera.json.
LEMMA ServerMergedClean ==
    ASSUME NEW camera, NEW server, OperatorDoc(camera), OperatorDoc(server)
    PROVE  OperatorDoc(MergeServerCamera(camera, server))
  <1>1. CASE HasNonNull(Section(server, "server")) /\ camera.t = "obj"
    <2> DEFINE f == [server |-> server.m["server"]]
               w == Obj(Over(f, camera.m))
    <2>1. Has(server, "server", "obj")
      <3>1. ~HasNonNull(<<>>)
        BY DEF HasNonNull
      <3> QED BY <1>1, <3>1 DEF Section
    <2>2. DOMAIN f = {"server"} /\ f["server"] = server.m["server"]
      OBVIOUS
    <2> HIDE DEF f
    <2>3. w.t = "obj" /\ w.m = Over(f, camera.m)
      BY DEF Obj
    <2> HIDE DEF w
    <2>4. "server" \in DOMAIN w.m /\ w.m["server"] = server.m["server"]
      BY <2>2, <2>3 DEF Over
    <2>5. Section(w, "server") = Section(server, "server")
      BY <2>1, <2>3, <2>4 DEF Section, Has
    <2>6. MergeServerCamera(camera, server) = w
      BY <1>1 DEF MergeServerCamera, w, f
    <2> QED BY <2>5, <2>6 DEF OperatorDoc
  <1>2. CASE ~(HasNonNull(Section(server, "server")) /\ camera.t = "obj")
    BY <1>2 DEF MergeServerCamera
  <1> QED BY <1>1, <1>2

\* A document whose section is the operator's gives overrides that are.
LEMMA OverridesClean ==
    ASSUME NEW doc, OperatorDoc(doc)
    PROVE  OperatorOverrides(Overrides(doc))
  <1> DEFINE ov == Overrides(doc)
             server == Section(doc, "server")
             top == TopOverrides(doc)
             Keys == {"SERVER_BASE_URL", "SERVER_BEARER_TOKEN"}
  <1>1. \A k \in Keys : k \in DOMAIN ov.glob => k \in DOMAIN top /\ ov.glob[k] = top[k]
    <2>1. CASE Cameras(doc) = <<>>
      BY <2>1 DEF Overrides
    <2>2. CASE Cameras(doc) # <<>>
      <3> DEFINE first == FirstCameraOverrides(Cameras(doc)[1])
      <3>1. ov.glob = Over(top, first)
        BY <2>2 DEF Overrides
      <3>2. \A k \in Keys : k \notin DOMAIN first
        BY DEF FirstCameraOverrides, Defined
      <3> HIDE DEF ov, top, first
      <3> QED BY <3>1, <3>2 DEF Over
    <2> QED BY <2>1, <2>2
  <1>2. /\ "SERVER_BASE_URL" \in DOMAIN top =>
             /\ Field(server, "base_url") \notin {Absent, Null, ""}
             /\ top["SERVER_BASE_URL"] = Text(Field(server, "base_url"))
        /\ "SERVER_BEARER_TOKEN" \in DOMAIN top =>
             top["SERVER_BEARER_TOKEN"] = Text(Field(server, "bearer_token"))
    BY DEF TopOverrides, Defined
  <1> HIDE DEF ov, top, server
  <1>3. SUFFICES ASSUME HasServer(ov)
                 PROVE  \E file \in CameraFiles \cup ServerFiles :
                          /\ ov.glob["SERVER_BASE_URL"]
                               = Text(Field(Section(file, "server"), "base_url"))
                          /\ ov.glob["SERVER_BEARER_TOKEN"]
                               = Text(Field(Section(file, "server"), "bearer_token"))
    BY DEF OperatorOverrides, ov
  <1>4. /\ ov.glob["SERVER_BASE_URL"] = Text(Field(server, "base_url"))
        /\ ov.glob["SERVER_BEARER_TOKEN"] = Text(Field(server, "bearer_token"))
        /\ Field(server, "base_url") \notin {Absent, Null, ""}
    BY <1>1, <1>2, <1>3 DEF HasServer
  <1>5. PICK file \in CameraFiles \cup ServerFiles : server = Section(file, "server")
    BY <1>4 DEF OperatorDoc, OperatorSection, server
  <1> QED BY <1>4, <1>5

LEMMA LoadServerClean ==
    ASSUME NEW file, OperatorDoc(file)
    PROVE  OperatorDoc(LoadServerJson(file))
  BY LoadedClean, DefaultsClean, EmptyObjClean DEF LoadServerJson

LEMMA NoOverridesClean == OperatorOverrides(NoOverrides)
  <1>1. DOMAIN NoOverrides.glob = {}
    BY DEF NoOverrides
  <1> QED BY <1>1 DEF OperatorOverrides, HasServer

\* A file that was truncated holds no section.
LEMMA GarbledClean == OperatorDoc(Garbled)
  <1>1. NoSection(Garbled)
    BY DEF NoSection, Garbled
  <1> QED BY <1>1, EmptySection

\* What the operator put into a file is the operator's.
LEMMA FileClean ==
    ASSUME NEW file \in CameraFiles \cup ServerFiles
    PROVE  OperatorDoc(file)
  BY DEF OperatorDoc, OperatorSection

LEMMA ServerInit == Init => ServerInv
  BY FileClean, EmptyObjClean, NoOverridesClean DEF Init, ServerInv

\* Only the answer of the server could bring in a section of another origin,
\* and it is taken out of the answer before that is merged.
LEMMA ServerStep == ServerInv /\ [Next]_vars => ServerInv'
  <1> SUFFICES ASSUME ServerInv, [Next]_vars PROVE ServerInv'
    OBVIOUS
  <1>1. /\ OperatorDoc(cameraFile) /\ OperatorDoc(serverFile)
        /\ OperatorDoc(serverValue) /\ OperatorDoc(configValue) /\ OperatorDoc(pending)
        /\ NoSection(pulled)
        /\ OperatorOverrides(overrides)
    BY DEF ServerInv
  <1>2. CASE Boot \/ Turn
    <2>1. LoadFiles
      BY <1>2 DEF Boot, Turn
    <2>2. /\ serverFile' = CreatedFile(serverFile, DefaultServerJson)
          /\ cameraFile' = CreatedFile(cameraFile, DefaultCameraJson)
          /\ serverValue' = LoadServerJson(serverFile)
          /\ configValue' = MergeServerCamera(LoadCameraJson(cameraFile),
                                              LoadServerJson(serverFile))
          /\ UNCHANGED <<overrides, pending, pulled>>
      BY <2>1 DEF LoadFiles
    <2>3. OperatorDoc(serverFile') /\ OperatorDoc(cameraFile')
      BY <1>1, <2>2, LoadedClean, DefaultsClean
    <2>4. OperatorDoc(serverValue')
      BY <1>1, <2>2, LoadServerClean
    <2>5. OperatorDoc(LoadCameraJson(cameraFile))
      BY <1>1, LoadedClean, DefaultsClean DEF LoadCameraJson
    <2>6. OperatorDoc(configValue')
      BY <2>2, <2>4, <2>5, ServerMergedClean
    <2> QED BY <1>1, <2>2, <2>3, <2>4, <2>6 DEF ServerInv
  <1>3. CASE BootInstall \/ TurnInstall \/ ReloadInstall
    <2>1. /\ overrides' = Overrides(configValue)
          /\ UNCHANGED <<cameraFile, serverFile, serverValue, configValue, pending, pulled>>
      BY <1>3 DEF BootInstall, TurnInstall, ReloadInstall, InstallConfig, Locals
    <2>2. OperatorOverrides(overrides')
      BY <1>1, <2>1, OverridesClean
    <2> QED BY <1>1, <2>1, <2>2 DEF ServerInv
  <1>4. CASE PullRemoteConfig
    <2>1. /\ pulled' = Without(remote, {"server"})
          /\ UNCHANGED <<cameraFile, serverFile, serverValue, configValue, pending, overrides>>
      BY <1>4 DEF PullRemoteConfig, Locals
    <2>2. NoSection(pulled')
      BY <2>1, WithoutSection
    <2> QED BY <1>1, <2>1, <2>2 DEF ServerInv
  <1>5. CASE MergeRemoteConfig
    <2>1. /\ pending' = MergeRemoteCamera(cameraFile, pulled)
          /\ cameraFile' = Garbled
          /\ UNCHANGED <<serverFile, serverValue, configValue, pulled, overrides>>
      BY <1>5 DEF MergeRemoteConfig
    <2>2. OperatorDoc(pending')
      BY <1>1, <2>1, RemoteMergedClean
    <2> QED BY <1>1, <2>1, <2>2, GarbledClean DEF ServerInv
  <1>6. CASE WriteJsonFile \/ WriteFails
    <2>1. /\ cameraFile' \in {cameraFile, pending} /\ pending' = EmptyObj
          /\ pulled' \in {pulled, EmptyObj}
          /\ UNCHANGED <<serverFile, serverValue, configValue, overrides>>
      BY <1>6 DEF WriteJsonFile, WriteFails
    <2> QED BY <1>1, <2>1, EmptyObjClean DEF ServerInv
  <1>7. CASE Reload
    <2>1. /\ configValue' = MergeServerCamera(LoadCameraJson(cameraFile), serverValue)
          /\ UNCHANGED <<cameraFile, serverFile, serverValue, pending, pulled, overrides>>
      BY <1>7 DEF Reload
    <2>2. OperatorDoc(LoadCameraJson(cameraFile))
      BY <1>1, LoadedClean, DefaultsClean DEF LoadCameraJson
    <2>3. OperatorDoc(configValue')
      BY <1>1, <2>1, <2>2, ServerMergedClean
    <2> QED BY <1>1, <2>1, <2>3 DEF ServerInv
  <1>8. CASE \/ NoPull \/ KeepRuntime \/ ReplaceRuntime \/ StopOld \/ Standby \/ Wake
             \/ \E g \in DOMAIN tasks, task \in OnvifTasks : FirstRun(g, task)
             \/ \E t \in left : DetachedEnds(t)
             \/ ServerChanges \/ UNCHANGED vars
    <2>1. UNCHANGED <<cameraFile, serverFile, serverValue, configValue, pending, pulled,
                      overrides>>
      BY <1>8 DEF NoPull, KeepRuntime, ReplaceRuntime, StopOld, Standby, Wake,
                  FirstRun, DetachedEnds, ServerChanges, Locals, vars
    <2> QED BY <1>1, <2>1 DEF ServerInv
  <1>9. CASE Crash
    <2>1. /\ serverValue' = EmptyObj /\ configValue' = EmptyObj /\ pending' = EmptyObj
          /\ pulled' = EmptyObj /\ overrides' = NoOverrides
          /\ UNCHANGED <<cameraFile, serverFile>>
      BY <1>9 DEF Crash
    <2> QED BY <1>1, <2>1, EmptyObjClean, NoOverridesClean DEF ServerInv
  <1>10. CASE EditServer
    <2>1. /\ serverFile' \in ServerFiles
          /\ UNCHANGED <<cameraFile, serverValue, configValue, pending, pulled, overrides>>
      BY <1>10 DEF EditServer, Locals
    <2>2. OperatorDoc(serverFile')
      BY <2>1, FileClean
    <2> QED BY <1>1, <2>1, <2>2 DEF ServerInv
  <1> QED BY <1>2, <1>3, <1>4, <1>5, <1>6, <1>7, <1>8, <1>9, <1>10 DEF Next, Step

\* The URL and the token the agent uses come from one section the operator
\* wrote, whatever the server answers, whatever is edited, half written or lost.
THEOREM AlwaysOneOperatorServer == Spec => []OneOperatorServer
  <1>1. Init => ServerInv
    BY ServerInit
  <1>2. ServerInv /\ [Next]_vars => ServerInv'
    BY ServerStep
  <1>3. ServerInv => OneOperatorServer
    BY DEF ServerInv, OperatorOverrides, OneOperatorServer
  <1> QED BY <1>1, <1>2, <1>3, PTL DEF Spec
-----------------------------------------------------------------------------
\* A document that an answer with the array of cameras cs was merged into: it has
\* these cameras and no top-level camera field of the older format.
CleanDoc(doc, cs) ==
  /\ doc.t = "obj"
  /\ DOMAIN doc.m \cap LegacyKeys = {}
  /\ Canonical(doc) /\ Cameras(doc) = cs

\* Where such a document is, once the answer has been merged.
PulledInv ==
  /\ Cameras(pulled) \in Seq({Cameras(pulled)[k] : k \in DOMAIN Cameras(pulled)})
  /\ Canonical(pulled) =>
       /\ pc = "write" => CleanDoc(pending, Cameras(pulled))
       /\ pc \notin {"merge", "write"} => CleanDoc(cameraFile, Cameras(pulled))
       /\ pc \notin {"merge", "write", "reload"} => CleanDoc(configValue, Cameras(pulled))

\* Cameras and Canonical look at one entry of an object.
LEMMA CamerasOf ==
    ASSUME NEW d, NEW e, d.t = "obj", e.t = "obj",
           "cameras" \in DOMAIN d.m <=> "cameras" \in DOMAIN e.m,
           "cameras" \in DOMAIN d.m => d.m["cameras"] = e.m["cameras"]
    PROVE  (Canonical(d) <=> Canonical(e)) /\ Cameras(d) = Cameras(e)
  BY DEF Canonical, Cameras, Has

\* Keys that are taken out of a document are gone, and its cameras stay.
LEMMA WithoutCameras ==
    ASSUME NEW doc, NEW keys, "cameras" \notin keys
    PROVE  /\ Canonical(Without(doc, keys)) <=> Canonical(doc)
           /\ Cameras(Without(doc, keys)) = Cameras(doc)
           /\ doc.t = "obj" => /\ Without(doc, keys).t = "obj"
                               /\ DOMAIN Without(doc, keys).m \cap keys = {}
  <1> DEFINE w == Without(doc, keys)
  <1>1. CASE doc.t = "obj"
    <2>1. /\ w.t = "obj" /\ DOMAIN w.m = DOMAIN doc.m \ keys
          /\ \A k \in DOMAIN w.m : w.m[k] = doc.m[k]
      BY <1>1 DEF Without, Obj
    <2> HIDE DEF w
    <2>2. (Canonical(w) <=> Canonical(doc)) /\ Cameras(w) = Cameras(doc)
      BY <1>1, <2>1, CamerasOf
    <2>3. DOMAIN w.m \cap keys = {}
      BY <2>1
    <2> QED BY <1>1, <2>1, <2>2, <2>3 DEF w
  <1>2. CASE doc.t # "obj"
    BY <1>2 DEF Without
  <1> QED BY <1>1, <1>2

\* Merging an answer with an array of cameras: the array takes the place of the
\* cameras there were, and no legacy field of either document is left.
LEMMA MergedCanonical ==
    ASSUME NEW file, NEW update, Canonical(update)
    PROVE  CleanDoc(MergeRemoteCamera(file, update), Cameras(update))
  <1> DEFINE base == StripLegacy(LoadCameraJson(file))
             up == StripLegacy(update)
             w == MergeValue(base, up)
  <1>1. update.t = "obj" /\ "cameras" \notin LegacyKeys
    BY DEF Canonical, Has, LegacyKeys
  <1>2. /\ up.t = "obj" /\ DOMAIN up.m \cap LegacyKeys = {}
        /\ Canonical(up) /\ Cameras(up) = Cameras(update)
    BY <1>1, WithoutCameras DEF StripLegacy
  <1>3. base.t = "obj" => DOMAIN base.m \cap LegacyKeys = {}
    <2>1. base.t = "obj" => LoadCameraJson(file).t = "obj"
      BY DEF StripLegacy, Without
    <2> QED BY <1>1, <2>1, WithoutCameras DEF StripLegacy
  <1>4. MergeRemoteCamera(file, update) = w
    BY DEF MergeRemoteCamera
  <1> HIDE DEF base, up
  <1>5. CASE base.t = "obj"
    <2> DEFINE f == [key \in DOMAIN up.m |->
                       IF key \in DOMAIN base.m THEN MergeSection(base.m[key], up.m[key])
                       ELSE up.m[key]]
    <2>1. w = Obj(Over(f, base.m))
      BY <1>2, <1>5 DEF MergeValue
    <2>2. /\ DOMAIN f = DOMAIN up.m
          /\ "cameras" \in DOMAIN up.m /\ up.m["cameras"].t = "arr"
      BY <1>2 DEF Canonical, Has
    <2>3. f["cameras"] = up.m["cameras"]
      BY <2>2 DEF MergeSection
    <2> HIDE DEF f
    <2>4. w.t = "obj" /\ w.m = Over(f, base.m)
      BY <2>1 DEF Obj
    <2> HIDE DEF w
    <2>5. /\ DOMAIN w.m = DOMAIN up.m \cup DOMAIN base.m
          /\ "cameras" \in DOMAIN w.m /\ w.m["cameras"] = up.m["cameras"]
      BY <2>2, <2>3, <2>4 DEF Over
    <2>6. Canonical(w) /\ Cameras(w) = Cameras(update)
      BY <1>2, <2>2, <2>4, <2>5, CamerasOf
    <2>7. DOMAIN w.m \cap LegacyKeys = {}
      BY <1>2, <1>3, <1>5, <2>5
    <2> QED BY <1>4, <2>4, <2>6, <2>7 DEF CleanDoc
  <1>6. CASE base.t # "obj"
    <2>1. w = up
      BY <1>6 DEF MergeValue
    <2> QED BY <1>2, <1>4, <2>1 DEF CleanDoc
  <1> QED BY <1>5, <1>6

\* The section of server.json comes in beside the cameras.
LEMMA ServerBeside ==
    ASSUME NEW camera, NEW server, NEW cs, CleanDoc(camera, cs)
    PROVE  CleanDoc(MergeServerCamera(camera, server), cs)
  <1> DEFINE f == [server |-> server.m["server"]]
             w == Obj(Over(f, camera.m))
  <1>1. CASE MergeServerCamera(camera, server) = w
    <2>1. DOMAIN f = {"server"} /\ "server" \notin LegacyKeys /\ "cameras" # "server"
      BY DEF LegacyKeys
    <2> HIDE DEF f
    <2>2. w.t = "obj" /\ w.m = Over(f, camera.m)
      BY DEF Obj
    <2> HIDE DEF w
    <2>3. /\ DOMAIN w.m = DOMAIN camera.m \cup {"server"}
          /\ "cameras" \in DOMAIN camera.m => w.m["cameras"] = camera.m["cameras"]
      BY <2>1, <2>2 DEF Over
    <2>4. (Canonical(w) <=> Canonical(camera)) /\ Cameras(w) = Cameras(camera)
      BY <2>1, <2>2, <2>3, CamerasOf DEF CleanDoc
    <2>5. DOMAIN w.m \cap LegacyKeys = {}
      BY <2>1, <2>3 DEF CleanDoc
    <2> QED BY <1>1, <2>2, <2>4, <2>5 DEF CleanDoc
  <1>2. CASE MergeServerCamera(camera, server) = camera
    BY <1>2
  <1> QED BY <1>1, <1>2 DEF MergeServerCamera

\* Such a file is read as it is.
LEMMA ReadAsItIs ==
    ASSUME NEW file, NEW cs, CleanDoc(file, cs)
    PROVE  CreatedFile(file, DefaultCameraJson) = file /\ LoadCameraJson(file) = file
  <1>1. file # Missing /\ file # Garbled
    <2>1. Missing.t = "missing" /\ Garbled.t = "garbled" /\ file.t = "obj"
      BY DEF Missing, Garbled, CleanDoc
    <2> QED BY <2>1
  <1> QED BY <1>1 DEF CreatedFile, LoadCameraJson, LoadJsonValue

\* An empty object has no cameras.
LEMMA EmptyObjBare ==
    /\ ~Canonical(EmptyObj)
    /\ Cameras(EmptyObj) \in Seq({Cameras(EmptyObj)[k] : k \in DOMAIN Cameras(EmptyObj)})
  <1>1. ~Canonical(EmptyObj) /\ Cameras(EmptyObj) = <<>>
    BY DEF Canonical, Cameras, Has, EmptyObj, Obj
  <1> QED BY <1>1

\* Nothing has been pulled when the process starts.
LEMMA PulledInit == Init => PulledInv
  BY EmptyObjBare DEF Init, PulledInv

\* The answers stay what they are.
LEMMA RemoteStep == remote \in Remotes /\ [Next]_vars => remote' \in Remotes
  BY DEF Next, Step, Boot, BootInstall, Turn, LoadFiles, TurnInstall, InstallConfig, NoPull,
         PullRemoteConfig, MergeRemoteConfig, WriteJsonFile, WriteFails, Reload, ReloadInstall,
         KeepRuntime, ReplaceRuntime, StopOld, Standby, Wake, FirstRun, DetachedEnds, Crash,
         EditServer, ServerChanges, vars

\* From the merge on, every step finds the cleaned document in the file, or in
\* what is about to be written, and takes it from there.
LEMMA PulledStep == remote \in Remotes /\ PulledInv /\ [Next]_vars => PulledInv'
  <1> SUFFICES ASSUME remote \in Remotes, PulledInv, [Next]_vars
               PROVE  PulledInv'
    OBVIOUS
  <1> DEFINE cs == Cameras(pulled)
             Array(c) == c \in Seq({c[k] : k \in DOMAIN c})
  <1>0. Array(Cameras(pulled))
    BY DEF PulledInv
  <1>a. Canonical(pulled) =>
          /\ pc = "write" => CleanDoc(pending, cs)
          /\ pc \notin {"merge", "write"} => CleanDoc(cameraFile, cs)
          /\ pc \notin {"merge", "write", "reload"} => CleanDoc(configValue, cs)
    BY DEF PulledInv
  <1> HIDE DEF cs, Array
  <1>b. ASSUME UNCHANGED pulled,
               Canonical(pulled) =>
                 /\ pc' = "write" => CleanDoc(pending', cs)
                 /\ pc' \notin {"merge", "write"} => CleanDoc(cameraFile', cs)
                 /\ pc' \notin {"merge", "write", "reload"} => CleanDoc(configValue', cs)
        PROVE  PulledInv'
    BY <1>0, <1>b DEF PulledInv, cs, Array
  <1>c. ASSUME pulled' = EmptyObj
        PROVE  PulledInv'
    BY <1>c, EmptyObjBare DEF PulledInv
  <1>1. CASE Boot \/ Turn
    <2>1. /\ UNCHANGED pulled /\ pc \notin {"merge", "write", "reload"}
          /\ pc' \notin {"merge", "write", "reload"}
          /\ cameraFile' = CreatedFile(cameraFile, DefaultCameraJson)
          /\ configValue' = MergeServerCamera(LoadCameraJson(cameraFile),
                                              LoadServerJson(serverFile))
      BY <1>1 DEF Boot, Turn, LoadFiles
    <2>2. ASSUME Canonical(pulled)
          PROVE  CleanDoc(cameraFile', cs) /\ CleanDoc(configValue', cs)
      <3>1. CleanDoc(cameraFile, cs)
        BY <1>a, <2>1, <2>2
      <3>2. cameraFile' = cameraFile /\ LoadCameraJson(cameraFile) = cameraFile
        BY <2>1, <3>1, ReadAsItIs
      <3> QED BY <2>1, <3>1, <3>2, ServerBeside
    <2> QED BY <1>b, <2>1, <2>2
  <1>2. CASE BootInstall \/ TurnInstall \/ NoPull \/ ReloadInstall \/ KeepRuntime
             \/ ReplaceRuntime \/ StopOld \/ Standby \/ Wake
    <2>1. /\ UNCHANGED <<pulled, cameraFile, configValue>>
          /\ pc \notin {"merge", "write", "reload"} /\ pc' \notin {"merge", "write", "reload"}
      BY <1>2 DEF BootInstall, TurnInstall, NoPull, ReloadInstall, KeepRuntime, ReplaceRuntime,
                  StopOld, Standby, Wake, InstallConfig, Locals
    <2> QED BY <1>a, <1>b, <2>1
  <1>3. CASE PullRemoteConfig
    <2>1. pulled' = Without(remote, {"server"}) /\ pc' = "merge"
      BY <1>3 DEF PullRemoteConfig
    <2>2. Cameras(pulled') = Cameras(remote)
      BY <2>1, WithoutCameras
    <2> QED BY <2>1, <2>2, RemotesAssumption DEF PulledInv
  <1>4. CASE MergeRemoteConfig
    <2>1. /\ pc' = "write" /\ UNCHANGED pulled
          /\ pending' = MergeRemoteCamera(cameraFile, pulled)
      BY <1>4 DEF MergeRemoteConfig
    <2>2. Canonical(pulled) => CleanDoc(pending', cs)
      BY <2>1, MergedCanonical DEF cs
    <2> QED BY <1>b, <2>1, <2>2
  <1>5. CASE WriteJsonFile
    <2>1. pc = "write" /\ pc' = "reload" /\ UNCHANGED pulled /\ cameraFile' = pending
      BY <1>5 DEF WriteJsonFile
    <2> QED BY <1>a, <1>b, <2>1
  <1>6. CASE WriteFails \/ Crash
    BY <1>6, <1>c DEF WriteFails, Crash
  <1>7. CASE Reload
    <2>1. /\ pc = "reload" /\ pc' = "reloaded" /\ UNCHANGED <<pulled, cameraFile>>
          /\ configValue' = MergeServerCamera(LoadCameraJson(cameraFile), serverValue)
      BY <1>7 DEF Reload
    <2>2. ASSUME Canonical(pulled)
          PROVE  CleanDoc(cameraFile', cs) /\ CleanDoc(configValue', cs)
      <3>1. CleanDoc(cameraFile, cs)
        BY <1>a, <2>1, <2>2
      <3>2. LoadCameraJson(cameraFile) = cameraFile
        BY <3>1, ReadAsItIs
      <3> QED BY <2>1, <3>1, <3>2, ServerBeside
    <2> QED BY <1>b, <2>1, <2>2
  <1>8. CASE \/ \E g \in DOMAIN tasks, task \in OnvifTasks : FirstRun(g, task)
             \/ \E t \in left : DetachedEnds(t)
             \/ EditServer \/ ServerChanges \/ UNCHANGED vars
    <2>1. UNCHANGED <<pc, pulled, cameraFile, configValue, pending>>
      BY <1>8 DEF FirstRun, DetachedEnds, EditServer, ServerChanges, vars, Locals
    <2> QED BY <1>a, <1>b, <2>1
  <1> QED BY <1>1, <1>2, <1>3, <1>4, <1>5, <1>6, <1>7, <1>8 DEF Next, Step
-----------------------------------------------------------------------------
\* A loop over the slots visits the slots it does not skip.
LEMMA InOrderFacts ==
    ASSUME NEW slots
    PROVE  InOrder(slots) \in Seq(slots \cap 1 .. MaxSlot)
  <1> DEFINE T == slots \cap 1 .. MaxSlot
             Round(i) == IF i \in slots THEN <<i>> ELSE <<>>
  <1>1. \A i \in 1 .. MaxSlot : Round(i) \in Seq(T)
    <2> SUFFICES ASSUME NEW i \in 1 .. MaxSlot
                 PROVE  Round(i) \in Seq(T)
      OBVIOUS
    <2>1. i \in slots => i \in T
      OBVIOUS
    <2> HIDE DEF T
    <2> QED BY <2>1
  <1>2. {1, 2, 3, 4} \subseteq 1 .. MaxSlot
    BY DEF MaxSlot
  <1>3. InOrder(slots) = ((Round(1) \o Round(2)) \o Round(3)) \o Round(4)
    BY DEF InOrder
  <1> HIDE DEF Round, T
  <1>4. \A a, b \in Seq(T) : a \o b \in Seq(T)
    BY ConcatProperties
  <1>5. Round(1) \o Round(2) \in Seq(T)
    BY <1>1, <1>2, <1>4
  <1>6. (Round(1) \o Round(2)) \o Round(3) \in Seq(T)
    BY <1>1, <1>2, <1>4, <1>5
  <1> QED BY <1>1, <1>2, <1>3, <1>4, <1>6 DEF T

\* The ids a list of cameras gives, and the ones the loaders make up.
IdsOf(entries) ==
  {Text(CameraIdOf(entries[k])) : k \in 1 .. Len(entries)}
     \cup {DefaultId[i] : i \in 1 .. MaxSlot} \cup {"unknown-camera"}

\* Without a legacy field, every id in the overrides is one of the list, and a
\* global ONVIF host is that of the first slot.
LEMMA OverridesIds ==
    ASSUME NEW doc, NEW cs, CleanDoc(doc, cs), cs \in Seq({cs[k] : k \in DOMAIN cs})
    PROVE  LET ov == Overrides(doc)
           IN  /\ \A i \in 1 .. MaxSlot : "CAMERA_ID" \in DOMAIN Slot(ov, i) =>
                                            Slot(ov, i)["CAMERA_ID"] \in IdsOf(cs)
               /\ "CAMERA_ID" \in DOMAIN ov.glob => ov.glob["CAMERA_ID"] \in IdsOf(cs)
               /\ "ONVIF_HOST" \in DOMAIN ov.glob => 1 \in Slots(ov, "ONVIF_HOST")
  <1> DEFINE ov == Overrides(doc)
             n == Len(cs)
             top == TopOverrides(doc)
  <1>0. n \in Nat /\ (cs # <<>> => 1 \in 1 .. n)
    BY LenProperties, EmptySeq
  <1>1. Cameras(doc) = cs /\ "camera_id" \notin DOMAIN doc.m
    BY DEF CleanDoc, LegacyKeys
  <1>2. /\ ov.glob = IF cs = <<>> THEN top ELSE Over(top, FirstCameraOverrides(cs[1]))
        /\ ov.slot = [i \in 1 .. n |-> SlotOverrides(cs[i])]
    BY <1>1 DEF Overrides
  <1>3. "CAMERA_ID" \notin DOMAIN top /\ "ONVIF_HOST" \notin DOMAIN top
    <2>1. TopLeaf(doc, "camera_id") = Absent
      BY <1>1 DEF TopLeaf, Has
    <2> QED BY <2>1 DEF TopOverrides, Defined
  <1>4. ASSUME NEW cam
        PROVE  /\ "CAMERA_ID" \in DOMAIN SlotOverrides(cam) =>
                     SlotOverrides(cam)["CAMERA_ID"] = Text(CameraIdOf(cam))
               /\ "CAMERA_ID" \in DOMAIN FirstCameraOverrides(cam) =>
                     FirstCameraOverrides(cam)["CAMERA_ID"] = Text(CameraIdOf(cam))
               /\ "ONVIF_HOST" \in DOMAIN FirstCameraOverrides(cam) =>
                     "ONVIF_HOST" \in DOMAIN SlotOverrides(cam)
    BY DEF SlotOverrides, FirstCameraOverrides, Defined
  <1>5. \A k \in 1 .. n : Text(CameraIdOf(cs[k])) \in IdsOf(cs)
    BY DEF IdsOf
  <1> HIDE DEF ov, top, n
  <1>6. Len(ov.slot) = n
    BY <1>0, <1>2
  <1>7. ASSUME NEW i \in 1 .. MaxSlot
        PROVE  Slot(ov, i) = IF i <= n THEN SlotOverrides(cs[i]) ELSE <<>>
    BY <1>0, <1>2, <1>6 DEF Slot, MaxSlot
  <1>8. ASSUME NEW i \in 1 .. MaxSlot, "CAMERA_ID" \in DOMAIN Slot(ov, i)
        PROVE  Slot(ov, i)["CAMERA_ID"] \in IdsOf(cs)
    <2>1. i <= n /\ Slot(ov, i) = SlotOverrides(cs[i])
      BY <1>7, <1>8
    <2>2. i \in 1 .. n
      BY <1>0, <2>1 DEF MaxSlot
    <2> QED BY <1>4, <1>5, <1>8, <2>1, <2>2
  <1>9. ASSUME cs # <<>>
        PROVE  /\ "CAMERA_ID" \in DOMAIN ov.glob => ov.glob["CAMERA_ID"] \in IdsOf(cs)
               /\ "ONVIF_HOST" \in DOMAIN ov.glob => 1 \in Slots(ov, "ONVIF_HOST")
    <2> DEFINE first == FirstCameraOverrides(cs[1])
    <2>1. ov.glob = Over(top, first) /\ 1 \in 1 .. n /\ 1 <= n /\ 1 \in 1 .. MaxSlot
      BY <1>0, <1>2, <1>9 DEF MaxSlot
    <2>2. \A k \in {"CAMERA_ID", "ONVIF_HOST"} :
             k \in DOMAIN ov.glob => k \in DOMAIN first /\ ov.glob[k] = first[k]
      <3> HIDE DEF first
      <3> QED BY <1>3, <2>1 DEF Over
    <2>3. Slot(ov, 1) = SlotOverrides(cs[1])
      BY <1>7, <2>1
    <2> QED BY <1>4, <1>5, <2>1, <2>2, <2>3 DEF Slots
  <1>10. ASSUME cs = <<>>
         PROVE  "CAMERA_ID" \notin DOMAIN ov.glob /\ "ONVIF_HOST" \notin DOMAIN ov.glob
    BY <1>2, <1>3, <1>10
  <1> QED BY <1>8, <1>9, <1>10 DEF ov

\* The cameras that are forwarded and those that are polled have such ids.
LEMMA LoadedIds ==
    ASSUME NEW doc, NEW cs, CleanDoc(doc, cs), cs \in Seq({cs[k] : k \in DOMAIN cs}),
           NEW loaded, \/ loaded = LoadCameras(Overrides(doc))
                       \/ loaded = LoadOnvifCameras(Overrides(doc))
    PROVE  \A k \in 1 .. Len(loaded.cams) : loaded.cams[k].camera_id \in IdsOf(cs)
  <1> DEFINE ov == Overrides(doc)
             Fits(cams) == \A k \in 1 .. Len(cams) : cams[k].camera_id \in IdsOf(cs)
  <1>1. /\ \A i \in 1 .. MaxSlot : "CAMERA_ID" \in DOMAIN Slot(ov, i) =>
                                     Slot(ov, i)["CAMERA_ID"] \in IdsOf(cs)
        /\ "CAMERA_ID" \in DOMAIN ov.glob => ov.glob["CAMERA_ID"] \in IdsOf(cs)
        /\ "ONVIF_HOST" \in DOMAIN ov.glob => 1 \in Slots(ov, "ONVIF_HOST")
    BY OverridesIds
  <1>2. (\A i \in 1 .. MaxSlot : DefaultId[i] \in IdsOf(cs)) /\ "unknown-camera" \in IdsOf(cs)
    BY DEF IdsOf
  <1> HIDE DEF ov
  <1>3. Fits(Failed.cams)
    BY DEF Failed
  <1>4. ASSUME NEW cams
        PROVE  Ok(cams).cams = cams
    BY DEF Ok
  <1>5. ASSUME NEW cams, Fits(cams)
        PROVE  Fits(AllHaveUser(cams).cams)
    BY <1>3, <1>4, <1>5 DEF AllHaveUser
  <1>6. ASSUME NEW slots
        PROVE  /\ Len(InOrder(slots)) \in Nat
               /\ \A k \in 1 .. Len(InOrder(slots)) : InOrder(slots)[k] \in 1 .. MaxSlot
    <2> DEFINE s == InOrder(slots)
               T == slots \cap 1 .. MaxSlot
    <2>1. s \in Seq(T)
      BY InOrderFacts
    <2>2. T \subseteq 1 .. MaxSlot
      OBVIOUS
    <2> HIDE DEF s, T
    <2>3. Len(s) \in Nat /\ \A k \in 1 .. Len(s) : s[k] \in T
      BY <2>1, LenProperties, ElementOfSeq
    <2> QED BY <2>2, <2>3 DEF s
  <1>7. CASE loaded = LoadCameras(ov)
    <2> DEFINE slots == InOrder(Slots(ov, "RTSP_URL"))
               cams == [k \in 1 .. Len(slots) |-> CamConfig(ov, slots[k])]
    <2>1. \A i \in 1 .. MaxSlot : CamConfig(ov, i).camera_id \in IdsOf(cs)
      BY <1>1, <1>2 DEF CamConfig, Or
    <2>2. Len(slots) \in Nat /\ \A k \in 1 .. Len(slots) : slots[k] \in 1 .. MaxSlot
      BY <1>6
    <2>3. loaded \in {Failed, Ok(cams)}
      BY <1>7 DEF LoadCameras
    <2> HIDE DEF slots
    <2>4. Len(cams) = Len(slots) /\ \A k \in 1 .. Len(slots) : cams[k] = CamConfig(ov, slots[k])
      BY <2>2
    <2> HIDE DEF cams
    <2>5. Fits(cams)
      BY <2>1, <2>2, <2>4
    <2> QED BY <1>3, <1>4, <2>3, <2>5
  <1>8. CASE loaded = LoadOnvifCameras(ov)
    <2> DEFINE hosts == Slots(ov, "ONVIF_HOST")
               slots == InOrder({i \in hosts : MotionEnabled(ov, i)})
               cams == [k \in 1 .. Len(slots) |-> OnvifCamera(ov, slots[k])]
               global == GlobalOnvifCamera(ov, DefaultOnvifHost,
                                           Or(ov.glob, "ONVIF_HOST", "unknown-camera"))
    <2>1. \A i \in 1 .. MaxSlot : OnvifCamera(ov, i).camera_id \in IdsOf(cs)
      BY <1>1, <1>2 DEF OnvifCamera, Or
    <2>2. Len(slots) \in Nat /\ \A k \in 1 .. Len(slots) : slots[k] \in 1 .. MaxSlot
      BY <1>6
    <2>3. hosts = {} => global.camera_id \in IdsOf(cs)
      <3>1. 1 \in 1 .. MaxSlot
        BY DEF MaxSlot
      <3> QED BY <1>1, <1>2, <3>1 DEF GlobalOnvifCamera, Or
    <2>4. \/ loaded = AllHaveUser(cams)
          \/ loaded = Ok(<<>>)
          \/ hosts = {} /\ loaded = AllHaveUser(<<global>>)
      BY <1>8 DEF LoadOnvifCameras
    <2> HIDE DEF slots, hosts, global
    <2>5. Len(cams) = Len(slots) /\ \A k \in 1 .. Len(slots) : cams[k] = OnvifCamera(ov, slots[k])
      BY <2>2
    <2> HIDE DEF cams
    <2>6. Fits(cams)
      BY <2>1, <2>2, <2>5
    <2>7. Fits(<<>>) /\ (hosts = {} => Fits(<<global>>))
      BY <2>3
    <2> QED BY <1>4, <1>5, <2>4, <2>6, <2>7
  <1> QED BY <1>7, <1>8 DEF ov

\* What runs is the cleaned document, so its cameras and pollers have its ids.
LEMMA CanonicalFromInv == RuntimeInv /\ PulledInv => CanonicalIds
  <1> SUFFICES ASSUME RuntimeInv, PulledInv, Canonical(pulled), RunsPulled
               PROVE  /\ Cameras(runtime.config) = Cameras(pulled)
                      /\ \A k \in 1 .. Len(runtime.cams) :
                            runtime.cams[k].camera_id \in IdsOf(Cameras(pulled))
                      /\ \A j \in DOMAIN tasks[runtime.generation].read["pollers"] :
                            LET read == tasks[runtime.generation].read["pollers"][j]
                            IN  read.intime =>
                                  \A k \in 1 .. Len(read.loaded.cams) :
                                    read.loaded.cams[k].camera_id \in IdsOf(Cameras(pulled))
    BY DEF CanonicalIds, IdsOf
  <1> DEFINE doc == configValue
             cs == Cameras(pulled)
             ov == Overrides(doc)
             d == DesiredRuntime(doc, ov)
  <1>1. CleanDoc(doc, cs) /\ cs \in Seq({cs[k] : k \in DOMAIN cs})
    BY DEF PulledInv, RunsPulled
  <1>2. runtime.config = doc /\ runtime = StartRuntime(d, ov, runtime.generation)
    BY DEF RuntimeInv, OneRuntime, RunsPulled
  <1>3. runtime.cams = d.cams /\ runtime.config = d.config
    <2> HIDE DEF d, ov
    <2> QED BY <1>2 DEF StartRuntime
  <1>4. d # None
    <2>1. doc.t = "obj"
      BY <1>1 DEF CleanDoc
    <2>2. None.config.t = "none"
      BY DEF None
    <2> QED BY <1>2, <1>3, <2>1, <2>2
  <1>5. d.cams = LoadCameras(ov).cams
    BY <1>4 DEF DesiredRuntime
  <1> HIDE DEF d, doc, cs
  <1>8. ASSUME NEW j \in DOMAIN tasks[runtime.generation].read["pollers"],
               tasks[runtime.generation].read["pollers"][j].intime
        PROVE  tasks[runtime.generation].read["pollers"][j].loaded = LoadOnvifCameras(ov)
    <2>1. "pollers" \in OnvifTasks
      BY OnvifTasksAssumption
    <2>2. runtime # None
      BY DEF RunsPulled
    <2> QED BY <1>2, <1>8, <2>1, <2>2 DEF RuntimeInv, OneRuntime, Loaded
  <1>6. /\ \A k \in 1 .. Len(LoadCameras(ov).cams) : LoadCameras(ov).cams[k].camera_id \in IdsOf(cs)
        /\ \A k \in 1 .. Len(LoadOnvifCameras(ov).cams) :
              LoadOnvifCameras(ov).cams[k].camera_id \in IdsOf(cs)
    BY <1>1, LoadedIds
  <1>7. Cameras(doc) = cs
    BY <1>1 DEF CleanDoc
  <1> QED BY <1>2, <1>3, <1>5, <1>6, <1>7, <1>8 DEF cs

\* For any files and answers: once a pulled list of cameras runs, every camera
\* and every motion poller has an id of it; no id of the older format survives.
THEOREM AlwaysCanonicalIds == Spec => []CanonicalIds
  <1>1. Init => RuntimeInv /\ PulledInv /\ remote \in Remotes
    BY RuntimeInit, PulledInit DEF Init
  <1>2. RuntimeInv /\ PulledInv /\ remote \in Remotes /\ [Next]_vars
          => (RuntimeInv /\ PulledInv /\ remote \in Remotes)'
    BY RuntimeStep, PulledStep, RemoteStep
  <1> QED BY <1>1, <1>2, CanonicalFromInv, PTL DEF Spec
=============================================================================
