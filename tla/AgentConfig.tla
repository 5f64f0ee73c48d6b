------------------------------ MODULE AgentConfig ------------------------------
(***************************************************************************)
(* The configuration documents of the agent (config/agent_config.rs) and   *)
(* the loaders that read cameras out of them: server.json and camera.json  *)
(* are JSON documents, a remote configuration is merged into camera.json,  *)
(* the two are merged and flattened into the runtime overrides, the table  *)
(* of strings that every other part of the agent reads.                    *)
(*                                                                         *)
(* A document is an object of sections; a section is an object of scalars, *)
(* "cameras" is an array, and merge_value replaces an array as a whole, so *)
(* no document is merged deeper than two levels.  Of the many keys that    *)
(* are copied in the same way one of each kind is kept: "user" stands for  *)
(* the user and the password, clip_pre_secs for the ingest settings,       *)
(* night_vision for the plain onvif settings.                              *)
(***************************************************************************)
EXTENDS Naturals, Sequences

CONSTANT AllowInsecure   \* ALLOW_INSECURE_SERVER_HTTP in the environment

ASSUME AllowInsecureIsBoolean == AllowInsecure \in BOOLEAN

Absent == "absent"       \* Value::get found no such key
Null == "null"

\* The Result of a loader
Failed == [ok |-> FALSE, cams |-> <<>>]
Ok(cams) == [ok |-> TRUE, cams |-> cams]

Leaf(x) == [t |-> "leaf", v |-> x]
Obj(f) == [t |-> "obj", m |-> f]
Arr(s) == [t |-> "arr", s |-> s]
EmptyObj == Obj(<<>>)

\* The entries of f, and those of g under the other keys
Over(f, g) == [key \in DOMAIN f \cup DOMAIN g |-> IF key \in DOMAIN f THEN f[key] ELSE g[key]]

Field(f, key) == IF key \in DOMAIN f THEN f[key] ELSE Absent
OrElse(a, b) == IF a = Absent THEN b ELSE a
Or(f, key, default) == IF key \in DOMAIN f THEN f[key] ELSE default

Has(doc, key, tag) == doc.t = "obj" /\ key \in DOMAIN doc.m /\ doc.m[key].t = tag
TopLeaf(doc, key) == IF Has(doc, key, "leaf") THEN doc.m[key].v ELSE Absent
Section(doc, key) == IF Has(doc, key, "obj") THEN doc.m[key].m ELSE <<>>
Cameras(doc) == IF Has(doc, "cameras", "arr") THEN doc.m["cameras"].s ELSE <<>>

-----------------------------------------------------------------------------
(* Documents on disk *)

DefaultServerJson ==
  Obj([server |-> Obj([base_url |-> Null, bearer_token |-> Null])])

DefaultCameraJson ==
  Obj([cameras |-> Arr(<<[id |-> Null, user |-> Null, transport |-> Null,
                          motion |-> Null, rtsp_url |-> Null,
                          rtsp_stream_id |-> Null, onvif_url |-> Null,
                          night_vision |-> Null]>>),
       ingest |-> Obj([clip_pre_secs |-> Null]),
       forward_agent |-> Obj([server_addr |-> Null])])

\* A file that does not exist, and one whose text is not JSON.
Missing == [t |-> "missing"]
Garbled == [t |-> "garbled"]

CreatedFile(file, default) == IF file = Missing THEN default ELSE file

\* A fault to check against: a file that does not parse is null.
LoadJsonValueOrNull(file, default) ==
  IF file = Garbled THEN Leaf(Null) ELSE CreatedFile(file, default)

\* load_json_value_with_default: a missing file is created from the default,
\* a file that does not parse is read as an empty object.
LoadJsonValue(file, default) ==
  IF file = Garbled THEN EmptyObj ELSE CreatedFile(file, default)

\* validate_server_base_url, over the four kinds of URL it tells apart
ValidateServerBaseUrl(url) ==
  \/ url \in {"https", "http_local"}
  \/ url = "http_remote" /\ AllowInsecure

\* validate_server_base_url_in_config_value: no URL is a valid one
ValidBaseUrlIn(doc) ==
  LET url == Field(Section(doc, "server"), "base_url")
  IN  url \in {Absent, Null, ""} \/ ValidateServerBaseUrl(url)

\* load_server_json, whose callers put an empty object in the place of an error
LoadServerJson(file) ==
  LET value == LoadJsonValue(file, DefaultServerJson)
  IN  IF ValidBaseUrlIn(value) THEN value ELSE EmptyObj

LoadCameraJson(file) == LoadJsonValue(file, DefaultCameraJson)

-----------------------------------------------------------------------------
(* Merging *)

\* merge_value on the values below a top-level key
MergeSection(base, update) ==
  IF base.t = "obj" /\ update.t = "obj" THEN Obj(Over(update.m, base.m)) ELSE update

MergeValue(base, update) ==
  IF base.t = "obj" /\ update.t = "obj"
  THEN Obj(Over([key \in DOMAIN update.m |->
                   IF key \in DOMAIN base.m THEN MergeSection(base.m[key], update.m[key])
                   ELSE update.m[key]],
                base.m))
  ELSE update

\* Top-level camera fields of the older file format; camera_id is the one
\* that install_runtime_overrides still reads.
LegacyKeys == {"camera_id", "user", "stream_id", "transport", "motion", "rtsp",
               "onvif", "cam1_camera_id"}

Without(doc, keys) ==
  IF doc.t = "obj" THEN Obj([key \in DOMAIN doc.m \ keys |-> doc.m[key]]) ELSE doc

StripLegacy(doc) == Without(doc, LegacyKeys)

\* has_canonical_cameras
Canonical(doc) == Has(doc, "cameras", "arr")

\* A fault to check against: the answer keeps its legacy fields.
MergeRemoteCameraUnstripped(file, update) ==
  LET current == LoadCameraJson(file)
  IN  MergeValue(IF Canonical(update) THEN StripLegacy(current) ELSE current, update)

\* merge_remote_camera_json, up to the write
MergeRemoteCamera(file, update) ==
  LET current == LoadCameraJson(file)
  IN  IF Canonical(update)
      THEN MergeValue(StripLegacy(current), StripLegacy(update))
      ELSE MergeValue(current, update)

HasNonNull(f) == \E key \in DOMAIN f : f[key] # Null

\* merge_server_camera_configs: server.json's section replaces camera.json's.
\* Its own validation never fails, LoadServerJson has made it already.
MergeServerCamera(camera, server) ==
  IF HasNonNull(Section(server, "server")) /\ camera.t = "obj"
  THEN Obj(Over([server |-> server.m["server"]], camera.m))
  ELSE camera

-----------------------------------------------------------------------------
(* Runtime overrides: the global keys, and the CAM<i>_ keys of each slot *)

\* value_to_string, and the rule of the set_map functions: no text, no entry
Text(x) == CASE x = "true" -> "1" [] x = "false" -> "0" [] OTHER -> x
Defined(f) ==
  [key \in {k \in DOMAIN f : f[k] \notin {Absent, Null, ""}} |-> Text(f[key])]

CameraIdOf(cam) == OrElse(Field(cam, "camera_id"), Field(cam, "id"))

\* motion_enabled_value reads Booleans only
MotionEnabledValue(cam) ==
  IF Field(cam, "motion") \in {"true", "false"} THEN cam["motion"]
  ELSE IF Field(cam, "motion_enabled") \in {"true", "false"} THEN cam["motion_enabled"]
  ELSE Absent

\* build_rtsp_url: the URL, or one made from the host
BuildRtspUrl(cam) ==
  LET url == Field(cam, "rtsp_url")
      host == Field(cam, "rtsp_host")
  IN  IF url \notin {Absent, Null, ""} THEN url
      ELSE IF host \notin {Absent, Null, ""} THEN "rtsp://" \o host
      ELSE Absent

\* onvif_host: the host, or the host of the URL
OnvifHost(cam) ==
  LET host == Field(cam, "onvif_host")
  IN  IF host \notin {Absent, Null, ""} THEN host ELSE Field(cam, "onvif_url")

\* compact_json_string: points that are null become the text "null", which is
\* not blank and so is installed
NullText == "text of null"
RegionText(cam) == IF Field(cam, "region") = Null THEN NullText ELSE Field(cam, "region")

TopOverrides(doc) ==
  LET server == Section(doc, "server")
  IN  Defined([CAMERA_ID |-> TopLeaf(doc, "camera_id"),
               SERVER_BASE_URL |-> Field(server, "base_url"),
               SERVER_BEARER_TOKEN |-> Field(server, "bearer_token"),
               AGENT_TOKEN |-> Field(server, "bearer_token"),
               CLIP_PRE_SECS |-> Field(Section(doc, "ingest"), "clip_pre_secs"),
               SERVER_ADDR |-> Field(Section(doc, "forward_agent"), "server_addr")])

SlotOverrides(cam) ==
  Defined([CAMERA_ID |-> CameraIdOf(cam),
           AGENT_ID |-> OrElse(Field(cam, "agent_id"), CameraIdOf(cam)),
           STREAM_ID |-> OrElse(Field(cam, "rtsp_stream_id"), Field(cam, "stream_id")),
           TRANSPORT |-> Field(cam, "transport"),
           RTSP_URL |-> BuildRtspUrl(cam),
           RTSP_USER |-> Field(cam, "user"),
           ONVIF_HOST |-> OnvifHost(cam),
           ONVIF_USER |-> Field(cam, "user"),
           ONVIF_NIGHT_VISION_MODE |-> Field(cam, "night_vision"),
           ONVIF_MOTION_REGION_POINTS |-> RegionText(cam),
           MOTION_ENABLED |-> MotionEnabledValue(cam)])

\* The first camera fills the global keys that are still unset.
FirstCameraOverrides(cam) ==
  Defined([CAMERA_ID |-> CameraIdOf(cam),
           MOTION_ENABLED |-> MotionEnabledValue(cam),
           RTSP_USER |-> Field(cam, "user"),
           ONVIF_HOST |-> OnvifHost(cam),
           ONVIF_USER |-> Field(cam, "user"),
           ONVIF_NIGHT_VISION_MODE |-> Field(cam, "night_vision"),
           ONVIF_MOTION_REGION_POINTS |-> RegionText(cam)])

\* install_runtime_overrides
Overrides(doc) ==
  LET cams == Cameras(doc)
  IN  [glob |-> IF cams = <<>> THEN TopOverrides(doc)
                ELSE Over(TopOverrides(doc), FirstCameraOverrides(cams[1])),
       slot |-> [i \in 1 .. Len(cams) |-> SlotOverrides(cams[i])]]

NoOverrides == [glob |-> <<>>, slot |-> <<>>]

-----------------------------------------------------------------------------
(* Loaders *)

MaxSlot == 4      \* the loaders' loops are 1..=4, whatever the overrides hold

Slot(ov, i) == IF i <= Len(ov.slot) THEN ov.slot[i] ELSE <<>>
Slots(ov, key) == {i \in 1 .. MaxSlot : key \in DOMAIN Slot(ov, i)}

\* The slots a loop does not skip, in the order of its rounds
InOrder(slots) ==
  LET Round(i) == IF i \in slots THEN <<i>> ELSE <<>>
  IN  Round(1) \o Round(2) \o Round(3) \o Round(4)

\* SERVER_BEARER_TOKEN, AGENT_TOKEN: the same value.  CAM<i>_AGENT_TOKEN is
\* never installed.
AgentToken(ov) == Or(ov.glob, "SERVER_BEARER_TOKEN", Or(ov.glob, "AGENT_TOKEN", Absent))

DefaultId == <<"cam-1", "cam-2", "cam-3", "cam-4">>
Numbers == {"1", "2", "3", "4"}    \* the texts that parse as a stream id

CamConfig(ov, i) ==
  LET s == Slot(ov, i)
      id == Or(s, "CAMERA_ID", IF i = 1 THEN Or(ov.glob, "CAMERA_ID", DefaultId[i])
                               ELSE DefaultId[i])
  IN  [rtsp_url |-> s["RTSP_URL"],
       user |-> Or(s, "RTSP_USER", Or(ov.glob, "RTSP_USER", Absent)),
       stream_id |-> Or(s, "STREAM_ID", Absent),
       transport |-> Or(s, "TRANSPORT", "tcp"),
       rtp_port |-> 5004 + 2 * (i - 1),
       camera_id |-> id,
       agent_id |-> Or(s, "AGENT_ID", id),
       agent_token |-> AgentToken(ov)]

\* load_cameras_from_env: one slot without a usable stream id fails them all.
LoadCameras(ov) ==
  LET slots == InOrder(Slots(ov, "RTSP_URL"))
      cams == [k \in 1 .. Len(slots) |-> CamConfig(ov, slots[k])]
  IN  IF \E k \in 1 .. Len(cams) :
            cams[k].stream_id \notin Numbers \/ cams[k].agent_token = Absent
      THEN Failed
      ELSE Ok(cams)

\* motion_enabled_for_slot
MotionEnabled(ov, i) ==
  Or(Slot(ov, i), "MOTION_ENABLED", Or(ov.glob, "MOTION_ENABLED", "1")) = "1"

\* One slot of an ONVIF loader; the user is the one mandatory setting.
OnvifCamera(ov, i) ==
  [camera_id |-> Or(Slot(ov, i), "CAMERA_ID", DefaultId[i]),
   host |-> Slot(ov, i)["ONVIF_HOST"],
   user |-> Or(Slot(ov, i), "ONVIF_USER", Absent)]

GlobalOnvifCamera(ov, host, name) ==
  [camera_id |-> Or(ov.glob, "CAMERA_ID", Or(Slot(ov, 1), "CAMERA_ID", name)),
   host |-> Or(ov.glob, "ONVIF_HOST", host),
   user |-> Or(ov.glob, "ONVIF_USER", Absent)]

AllHaveUser(cams) ==
  IF \E k \in 1 .. Len(cams) : cams[k].user = Absent THEN Failed ELSE Ok(cams)

DefaultOnvifHost == "192.168.1.187"

\* load_onvif_cameras_from_env: the global camera only when no slot names a host
LoadOnvifCameras(ov) ==
  LET hosts == Slots(ov, "ONVIF_HOST")
      slots == InOrder({i \in hosts : MotionEnabled(ov, i)})
  IN  IF hosts # {}
      THEN AllHaveUser([k \in 1 .. Len(slots) |-> OnvifCamera(ov, slots[k])])
      ELSE IF Or(ov.glob, "MOTION_ENABLED", "1") # "1" THEN Ok(<<>>)
      ELSE AllHaveUser(<<GlobalOnvifCamera(ov, DefaultOnvifHost,
                           Or(ov.glob, "ONVIF_HOST", "unknown-camera"))>>)

\* The slots with a host that Wanted selects, or else the global camera.
SlotsOrGlobal(ov, Wanted(_)) ==
  LET slots == InOrder({i \in Slots(ov, "ONVIF_HOST") : Wanted(Slot(ov, i))})
  IN  IF slots # <<>>
      THEN AllHaveUser([k \in 1 .. Len(slots) |-> OnvifCamera(ov, slots[k])])
      ELSE IF "ONVIF_HOST" \in DOMAIN ov.glob /\ Wanted(ov.glob)
      THEN AllHaveUser(<<GlobalOnvifCamera(ov, Absent, "unknown-camera")>>)
      ELSE Ok(<<>>)

\* load_onvif_night_vision_cameras_from_env: an unknown mode skips the slot
LoadNightVisionCameras(ov) ==
  SlotsOrGlobal(ov, LAMBDA f : Or(f, "ONVIF_NIGHT_VISION_MODE", Absent)
                                 \in {"auto", "day", "night"})

\* load_onvif_motion_region_cameras_from_env: points that do not parse fail
\* the loader, for every camera
LoadRegionCameras(ov) ==
  LET key == "ONVIF_MOTION_REGION_POINTS"
      hosts == Slots(ov, "ONVIF_HOST")
  IN  IF \E i \in hosts : Or(Slot(ov, i), key, Absent) = NullText
      THEN Failed
      ELSE SlotsOrGlobal(ov, LAMBDA f : key \in DOMAIN f)

\* load_onvif_probe_cameras_from_env
LoadProbeCameras(ov) == SlotsOrGlobal(ov, LAMBDA f : TRUE)

\* build_stream_maps: of cameras with one id the last counts
CameraToStream(cams) ==
  [id \in {cams[k].camera_id : k \in 1 .. Len(cams)} |->
     LET last == CHOOSE k \in 1 .. Len(cams) :
                   /\ cams[k].camera_id = id
                   /\ \A j \in k + 1 .. Len(cams) : cams[j].camera_id # id
     IN  cams[last].stream_id]

\* build_camera_heartbeat_targets: the version of the configuration entry with
\* the camera's id (config_camera_id does not look at the overrides' defaults)
HeartbeatTargets(cams, doc) ==
  LET entries == Cameras(doc)
      Version(id) ==
        LET at == {k \in 1 .. Len(entries) : CameraIdOf(entries[k]) = id}
            last == CHOOSE k \in at : \A j \in at : j <= k
        IN  IF at = {} THEN Null ELSE OrElse(Field(entries[last], "config_version"), Null)
  IN  [k \in 1 .. Len(cams) |-> <<cams[k].camera_id, Version(cams[k].camera_id)>>]

\* config_version_value
ConfigVersion(doc) == LET v == TopLeaf(doc, "config_version") IN IF v = Absent THEN Null ELSE v
=============================================================================
