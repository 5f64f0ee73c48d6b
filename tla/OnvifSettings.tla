----------------------------- MODULE OnvifSettings -----------------------------
(***************************************************************************)
(* What the agent does to its cameras over ONVIF besides polling motion:   *)
(* the night vision sync and the motion region sync, which each runtime    *)
(* runs once over all its cameras, and the capability probe, which a job   *)
(* of the server asks for (onvif/onvif_night_vision.rs,                    *)
(* onvif/onvif_motion_region.rs, onvif/onvif_probe.rs).                    *)
(*                                                                         *)
(* The three run at the same time and talk to the same devices, one SOAP   *)
(* call at a time.  A call may fail in transport, before or after the      *)
(* device has acted on it (the clients' time-out is 20 s), or break off    *)
(* when its HTTP status has come and its body has not, which the agent     *)
(* takes for an answer.  XML is represented by what the parsers look for   *)
(* in it.                                                                  *)
(***************************************************************************)
EXTENDS Naturals, Sequences, FiniteSets

CONSTANTS Cams,        \* the cameras, in the order of their slots: a sequence
          Device,      \* what each camera is: a function on the cameras
          Text,        \* the texts that occur: addresses, tokens, names, points
          Points,      \* the configured motion region
          Mode,        \* the configured night vision mode
          MaxLost,     \* bound: calls that fail in transport or break off
          MaxEdits     \* bound: changes someone else makes on a camera

VARIABLES
  night,      \* the night vision sync: [k, pc, media, imaging, token]
  region,     \* the region sync: [k, pc, ends, token, target]
  outcomes,   \* OnvifMotionRegionSyncOutcomes so far
  probe,      \* the probe of one camera: [cam, pc, services, caps, token], and as
              \* history whether the answer its summary rests on was lost: unread
  report,     \* its OnvifProbeReport
  filter,     \* devices: IR cut filter of each camera
  elements,   \* devices: rules and analytics modules of each camera, per kind
  dirty,      \* history: cameras edited since the region sync read their rules
  lost, edits

settingsVars == <<night, region, outcomes, probe, report, filter, elements, dirty, lost, edits>>

Missing == "none"
ServiceUrl == "service"   \* http://<host>:<port>/onvif/service
CamSet == {Cams[i] : i \in 1 .. Len(Cams)}

FirstOf(S) == CHOOSE i \in S : \A j \in S : i <= j
LastOf(S) == CHOOSE i \in S : \A j \in S : j <= i

-----------------------------------------------------------------------------
(* What the cameras are. *)

Operations == {"GetProfiles", "GetVideoEncoderConfigurations", "GetEventProperties",
               "GetNodes", "GetConfigurations", "GetRules"}

Namespaces == {"device", "media1", "media2", "events", "ptz", "imaging", "analytics", "other"}

\* A rule or an analytics module.  "loose": it has a point outside its polygon;
\* a polygon is Missing without points, "broken" if one has no coordinates.
Kinds == {"Rule", "AnalyticsModule"}
Element == [kind : Kinds, name : Text, motionregion : BOOLEAN, polygon : Text,
            loose : BOOLEAN, rest : Text]

\* The elements of a camera are lists, one per kind, and a name occurs once.
Listed(els) ==
  /\ els \in [Kinds -> Seq(Element)]
  /\ \A kind \in Kinds : \A i, j \in 1 .. Len(els[kind]) :
       /\ els[kind][i].kind = kind
       /\ els[kind][i].name = els[kind][j].name => i = j

ASSUME SettingsAssumption ==
  /\ MaxLost \in Nat /\ MaxEdits \in Nat
  /\ Cams \in Seq(DOMAIN Device) /\ Cams # <<>>   \* without cameras nothing runs
  /\ {Missing, ServiceUrl, "some", "not probed", "changed"} \subseteq Text
  /\ Points \in Text \ {"broken"} /\ Mode \in {"auto", "day", "night"}
  /\ \A c \in DOMAIN Device :
       /\ Device[c].services \in Seq([ns : Namespaces, xaddr : Text])
       /\ Device[c].profiles \in Seq([source : Text, analytics : Text])
       /\ Device[c].caps \in Seq(Text) /\ Device[c].fault200 \in BOOLEAN
       /\ Listed(Device[c].elements)

-----------------------------------------------------------------------------
(* Devices (external): a URL serves the namespaces Device[c].serves[url], a  *)
(* fault is an HTTP error or, with some devices, a Fault in an HTTP 200.     *)

\* An answer: its HTTP success, whether its body is a Fault, what it holds, and
\* whether the body is lost on the way
Answer(x) == [http |-> TRUE, fault |-> FALSE, cut |-> FALSE, body |-> x]
FaultOf(c) == [http |-> Device[c].fault200, fault |-> TRUE, cut |-> FALSE, body |-> <<>>]
Cut(r) == [r EXCEPT !.cut = TRUE]
NoAnswer == [http |-> FALSE, fault |-> FALSE, cut |-> TRUE, body |-> <<>>]

Serves(c, url, ns) == url \in DOMAIN Device[c].serves /\ ns \in Device[c].serves[url]

\* What camera c answers to an operation that changes nothing
BodyOf(c, op) ==
  CASE op = "GetServices" -> Device[c].services
    [] op = "GetCapabilities" -> Device[c].caps
    [] op = "GetProfiles" -> Device[c].profiles
    [] op = "GetRules" -> elements[c]["Rule"]
    [] op = "GetAnalyticsModules" -> elements[c]["AnalyticsModule"]
    [] OTHER -> <<>>
Read(c, url, ns, op) == IF Serves(c, url, ns) THEN Answer(BodyOf(c, op)) ELSE FaultOf(c)

\* The answers an operation may get: the camera's, its status alone, or none
Replies(c, url, ns, op) ==
  {Read(c, url, ns, op)}
    \cup (IF lost < MaxLost THEN {Cut(Read(c, url, ns, op)), NoAnswer} ELSE {})
CountLost(r) == lost' = IF r.cut THEN lost + 1 ELSE lost

\* A body that cannot be read is no error: the syncs go on with an empty text and
\* the probe with a note of its own, and their parsers find nothing in either.
ReadBody(r) == IF r.cut THEN <<>> ELSE r.body

\* soap_call of the two syncs: an HTTP error is one, and a Fault that was read
SoapCallOk(r) == r.http /\ (r.cut \/ ~r.fault)

\* soap_post of the probe: only an HTTP error is one
SoapPostOk(r) == r.http

-----------------------------------------------------------------------------
(* Parsers *)

\* parse_service_endpoint: the first service of the kind; one without an
\* address ends the search
ParseServiceEndpoint(services, kinds) ==
  LET at == {i \in 1 .. Len(services) : services[i].ns \in kinds}
  IN  IF at = {} \/ services[FirstOf(at)].xaddr = Missing THEN ServiceUrl
      ELSE services[FirstOf(at)].xaddr

\* parse_first_video_source_token
ParseFirstVideoSourceToken(profiles) ==
  LET at == {i \in 1 .. Len(profiles) : profiles[i].source # Missing}
  IN  IF at = {} THEN Missing ELSE profiles[FirstOf(at)].source

\* parse_video_analytics_config_token, the same in the sync and in the probe
ParseAnalyticsToken(profiles) ==
  LET at == {i \in 1 .. Len(profiles) : profiles[i].analytics # Missing}
  IN  IF at = {} THEN Missing ELSE profiles[FirstOf(at)].analytics

\* discover_services of the region sync: the last analytics service with an
\* address, the last media2 service, or else the first media1 one
DiscoverServices(services) ==
  LET At(kind) == {i \in 1 .. Len(services) :
                     services[i].ns = kind /\ services[i].xaddr # Missing}
  IN  [analytics |-> IF At("analytics") = {} THEN ServiceUrl
                     ELSE services[LastOf(At("analytics"))].xaddr,
       media |-> IF At("media2") # {} THEN services[LastOf(At("media2"))].xaddr
                 ELSE IF At("media1") # {} THEN services[FirstOf(At("media1"))].xaddr
                 ELSE ServiceUrl,
       flavor |-> IF At("media2") # {} THEN "media2" ELSE "media1"]

\* extract_polygon_points: a polygon, and every point of it has coordinates
HasPolygon(e) == e.polygon \notin {Missing, "broken"}

\* find_motion_region_rule_target: the first rule of an answer to GetRules, or the
\* first module of one to GetAnalyticsModules, that the sync can set
Fits(e) == e.motionregion /\ HasPolygon(e)
FindTarget(els) ==
  LET at == {i \in 1 .. Len(els) : Fits(els[i])}
  IN  IF at = {} THEN <<>> ELSE <<els[FirstOf(at)]>>

\* service_key_from_namespace and collect_service_xaddrs of the probe: both
\* media versions have one key, and the last service of a key counts
Key(ns) == IF ns \in {"media1", "media2"} THEN "media" ELSE ns
HasXaddr(services, key) == \E i \in 1 .. Len(services) : Key(services[i].ns) = key
Xaddr(services, key) ==
  LET at == {i \in 1 .. Len(services) : Key(services[i].ns) = key}
  IN  IF at = {} \/ services[LastOf(at)].xaddr = Missing THEN ServiceUrl
      ELSE services[LastOf(at)].xaddr

\* A fault to check against: only the first rule is looked at.
ProbeTargetFirst(els) ==
  IF els # <<>> /\ els[1].motionregion /\ els[1].polygon # Missing THEN <<els[1]>> ELSE <<>>

\* parse_motion_region_rule_target of the probe counts the points of a rule,
\* wherever they are and whatever they hold
PointCount(e) == IF e.polygon # Missing \/ e.loose THEN 1 ELSE 0
ProbeTarget(els) ==
  LET at == {i \in 1 .. Len(els) : els[i].motionregion /\ PointCount(els[i]) > 0}
  IN  IF at = {} THEN <<>> ELSE <<els[FirstOf(at)]>>

\* OnvifMotionRegionSummary; NotProbed is the report's Missing
Unsupported == [supported |-> FALSE, failed |-> FALSE, name |-> Missing]
NotProbed == [Unsupported EXCEPT !.name = "not probed"]

-----------------------------------------------------------------------------
SettingsInit ==
  /\ night = [k |-> 1, pc |-> "services", media |-> Missing, imaging |-> Missing, token |-> Missing]
  /\ region = [k |-> 1, pc |-> "services", ends |-> <<>>, token |-> Missing, target |-> <<>>]
  /\ outcomes = <<>>
  /\ probe \in [cam : CamSet, pc : {"device"}, services : {<<>>}, caps : {{}}, token : {Missing},
               unread : {FALSE}]
  /\ report = [done |-> FALSE, ok |-> FALSE, media |-> Missing, events |-> Missing, ptz |-> Missing,
               motion |-> NotProbed, errors |-> {}]
  /\ filter = [c \in CamSet |-> "factory"]
  /\ elements = [c \in CamSet |-> Device[c].elements]
  /\ dirty = {}
  /\ lost = 0 /\ edits = 0

-----------------------------------------------------------------------------
(* Night vision: run_onvif_night_vision_sync_once, apply_night_vision_mode *)

NightCam == Cams[night.k]

\* A failure is logged, and the next camera is the next.
NightNext ==
  night' = [k |-> night.k + 1, pc |-> IF night.k = Len(Cams) THEN "done" ELSE "services",
            media |-> Missing, imaging |-> Missing, token |-> Missing]

NightServices ==
  /\ night.pc = "services"
  /\ \E r \in Replies(NightCam, ServiceUrl, "device", "GetServices") :
       /\ CountLost(r)
       /\ IF SoapCallOk(r)
          THEN night' = [night EXCEPT !.pc = "profiles",
                           !.media = ParseServiceEndpoint(ReadBody(r), {"media1", "media2"}),
                           !.imaging = ParseServiceEndpoint(ReadBody(r), {"imaging"})]
          ELSE NightNext
  /\ UNCHANGED <<region, outcomes, probe, report, filter, elements, dirty, edits>>

NightProfiles ==
  /\ night.pc = "profiles"
  /\ \E r \in Replies(NightCam, night.media, "media1", "GetProfiles") :
       /\ CountLost(r)
       /\ IF SoapCallOk(r) /\ ParseFirstVideoSourceToken(ReadBody(r)) # Missing
          THEN night' = [night EXCEPT !.pc = "set",
                           !.token = ParseFirstVideoSourceToken(ReadBody(r))]
          ELSE NightNext
  /\ UNCHANGED <<region, outcomes, probe, report, filter, elements, dirty, edits>>

\* NightVisionMode::as_ir_cut_filter
IrCutFilter(mode) == CASE mode = "auto" -> "Auto" [] mode = "day" -> "Off" [] mode = "night" -> "On"

\* How an operation that changes the device may end: answered (the device may
\* still refuse it), answered with a body that is lost, or in transport, after or
\* before the device has acted.
Ends == {"answered"}
          \cup (IF lost < MaxLost THEN {"cut", "lost after", "lost before"} ELSE {})
Got(end, r) == CASE end = "answered" -> r [] end = "cut" -> Cut(r) [] OTHER -> NoAnswer
CountLostEnd(end) == lost' = IF end = "answered" THEN lost ELSE lost + 1

\* SetImagingSettings
NightSet ==
  /\ night.pc = "set"
  /\ \E end \in Ends :
       /\ CountLostEnd(end)
       /\ filter' = IF end # "lost before" /\ Serves(NightCam, night.imaging, "imaging")
                    THEN [filter EXCEPT ![NightCam] = IrCutFilter(Mode)]
                    ELSE filter
  /\ NightNext
  /\ UNCHANGED <<region, outcomes, probe, report, elements, dirty, edits>>

-----------------------------------------------------------------------------
(* Motion region: run_onvif_motion_region_sync_once, apply_motion_region *)

RegionCam == Cams[region.k]

\* A fault to check against: an error ends the sync.
RegionNextStops(status) ==
  /\ outcomes' = Append(outcomes, status)
  /\ region' = [k |-> region.k + 1,
                pc |-> IF region.k = Len(Cams) \/ status = "failed" THEN "done" ELSE "services",
                ends |-> <<>>, token |-> Missing, target |-> <<>>]

RegionNext(status) ==
  /\ outcomes' = Append(outcomes, status)
  /\ region' = [k |-> region.k + 1, pc |-> IF region.k = Len(Cams) THEN "done" ELSE "services",
                ends |-> <<>>, token |-> Missing, target |-> <<>>]

RegionServices ==
  /\ region.pc = "services"
  /\ \E r \in Replies(RegionCam, ServiceUrl, "device", "GetServices") :
       /\ CountLost(r)
       /\ \/ /\ SoapCallOk(r)
             /\ region' = [region EXCEPT !.pc = "profiles", !.ends = <<DiscoverServices(ReadBody(r))>>]
             /\ UNCHANGED outcomes
          \/ ~SoapCallOk(r) /\ RegionNext("failed")
  /\ UNCHANGED <<night, probe, report, filter, elements, dirty, edits>>

\* fetch_video_analytics_config_token
RegionProfiles ==
  /\ region.pc = "profiles"
  /\ \E r \in Replies(RegionCam, region.ends[1].media, region.ends[1].flavor, "GetProfiles") :
       \E token \in {IF SoapCallOk(r) THEN ParseAnalyticsToken(ReadBody(r)) ELSE Missing} :
           /\ CountLost(r)
           /\ \/ /\ token # Missing
                 /\ region' = [region EXCEPT !.pc = "rules", !.token = token]
                 /\ UNCHANGED outcomes
              \/ token = Missing /\ RegionNext("failed")
  /\ UNCHANGED <<night, probe, report, filter, elements, dirty, edits>>

\* get_rules, and get_analytics_modules when no rule fits.  An empty text is no
\* XML, which find_motion_region_rule_target makes an error.
RegionTarget(at, op, otherwise) ==
  /\ region.pc = at
  /\ \E r \in Replies(RegionCam, region.ends[1].analytics, "analytics", op) :
       \E target \in {FindTarget(ReadBody(r))} :
         /\ CountLost(r)
         /\ \/ /\ SoapCallOk(r) /\ target # <<>>
               /\ region' = [region EXCEPT !.pc = "modify", !.target = target]
               /\ UNCHANGED outcomes
            \/ /\ SoapCallOk(r) /\ ~r.cut /\ target = <<>> /\ otherwise = "modules"
               /\ region' = [region EXCEPT !.pc = "modules"]
               /\ UNCHANGED outcomes
            \/ /\ ~SoapCallOk(r) \/ r.cut \/ (target = <<>> /\ otherwise = "fail")
               /\ RegionNext("failed")
  /\ dirty' = dirty \ {RegionCam}
  /\ UNCHANGED <<night, probe, report, filter, elements, edits>>

RegionRules == RegionTarget("rules", "GetRules", "modules")
RegionModules == RegionTarget("modules", "GetAnalyticsModules", "fail")

\* The device's part of ModifyRules and ModifyAnalyticsModules (external): the
\* element of that kind and name is replaced by the one that was sent.
Modified(els, f) == [i \in 1 .. Len(els) |-> IF els[i].name = f.name THEN f ELSE els[i]]
CanModify(c, f) ==
  /\ Serves(c, region.ends[1].analytics, "analytics")
  /\ \E i \in 1 .. Len(elements[c][f.kind]) : elements[c][f.kind][i].name = f.name

\* A fault to check against: the body is built anew, without what else the
\* fragment held.
ModifyBodyBare(target) == [target EXCEPT !.polygon = Points, !.rest = "bare"]

\* build_modify_motion_region_body: the fragment as it was read, its first
\* polygon with the configured points
ModifyBody(target) == [target EXCEPT !.polygon = Points]

RegionModify ==
  /\ region.pc = "modify"
  /\ \E end \in Ends, body \in {ModifyBody(region.target[1])} :
       LET can == CanModify(RegionCam, body)
           r == Got(end, IF can THEN Answer(<<>>) ELSE FaultOf(RegionCam))
       IN  /\ CountLostEnd(end)
           /\ elements' = IF can /\ end # "lost before"
                          THEN [elements EXCEPT ![RegionCam][body.kind] = Modified(@, body)]
                          ELSE elements
           /\ RegionNext(IF SoapCallOk(r) THEN "success" ELSE "failed")
  /\ UNCHANGED <<night, probe, report, filter, dirty, edits>>

-----------------------------------------------------------------------------
(* The probe: run_onvif_capability_probe *)

ProbeCam == probe.cam

\* One of the three calls the probe cannot do without: an error ends it.
ProbeMandatory(at, op, Next1(_)) ==
  /\ probe.pc = at
  /\ \E r \in Replies(ProbeCam, ServiceUrl, "device", op) :
       /\ CountLost(r)
       /\ \/ SoapPostOk(r) /\ probe' = Next1(ReadBody(r)) /\ UNCHANGED report
          \/ /\ ~SoapPostOk(r)
             /\ probe' = [probe EXCEPT !.pc = "done"]
             /\ report' = [report EXCEPT !.done = TRUE]
  /\ UNCHANGED <<night, region, outcomes, filter, elements, dirty, edits>>

ProbeDevice ==
  ProbeMandatory("device", "GetDeviceInformation",
                 LAMBDA body : [probe EXCEPT !.pc = "services"])
ProbeServices ==
  ProbeMandatory("services", "GetServices",
                 LAMBDA body : [probe EXCEPT !.pc = "capabilities", !.services = body])
ProbeCapabilities ==
  ProbeMandatory("capabilities", "GetCapabilities",
                 LAMBDA body : [probe EXCEPT !.pc = "media",
                                  !.caps = {body[i] : i \in 1 .. Len(body)}])

Wanted(key) == key \in probe.caps \/ HasXaddr(probe.services, key)

\* capture_optional over the operations of one service: what failed is listed in
\* service_errors, the rest makes the section, read or unreadable.
ProbeSection(key, ns, ops, next) ==
  /\ probe.pc = key
  /\ probe' = [probe EXCEPT !.pc = next]
  /\ \/ ~Wanted(key) /\ UNCHANGED <<report, lost>>
     \/ /\ Wanted(key)
        /\ \E failing \in SUBSET ops :
             \E ok \in {{op \in ops \ failing :
                          SoapPostOk(Read(ProbeCam, Xaddr(probe.services, key), ns, op))}} :
                 /\ lost + Cardinality(failing) <= MaxLost
                 /\ lost' = lost + Cardinality(failing)
                 /\ report' = [report EXCEPT
                                 ![key] = IF ok = {} THEN Missing ELSE "some",
                                 !.errors = @ \cup {<<key, op>> : op \in ops \ ok}]
  /\ UNCHANGED <<night, region, outcomes, filter, elements, dirty, edits>>

ProbeMedia ==
  ProbeSection("media", "media1", {"GetProfiles", "GetVideoEncoderConfigurations"}, "events")
ProbeEvents == ProbeSection("events", "events", {"GetEventProperties"}, "ptz")
ProbePtz == ProbeSection("ptz", "ptz", {"GetNodes", "GetConfigurations"}, "analytics")

ProbeEnds(summary, errors, unread) ==
  /\ probe' = [probe EXCEPT !.pc = "done", !.unread = unread]
  /\ report' = [report EXCEPT !.done = TRUE, !.ok = TRUE, !.motion = summary,
                              !.errors = @ \cup errors]

\* probe_motion_region_support: the profiles again, for the analytics token
ProbeAnalytics ==
  /\ probe.pc = "analytics"
  /\ \/ /\ ~Wanted("analytics")
        /\ ProbeEnds(NotProbed, {}, FALSE)
        /\ UNCHANGED lost
     \/ /\ Wanted("analytics")
        /\ \E r \in Replies(ProbeCam, Xaddr(probe.services, "media"), "media1", "GetProfiles") :
             /\ CountLost(r)
             /\ IF ~SoapPostOk(r)
                THEN ProbeEnds([Unsupported EXCEPT !.failed = TRUE],
                               {<<"media", "GetProfiles">>}, r.cut)
                ELSE IF ParseAnalyticsToken(ReadBody(r)) = Missing
                THEN ProbeEnds(Unsupported, {}, r.cut)
                ELSE /\ probe' = [probe EXCEPT !.pc = "rules",
                                    !.token = ParseAnalyticsToken(ReadBody(r))]
                     /\ UNCHANGED report
  /\ UNCHANGED <<night, region, outcomes, filter, elements, dirty, edits>>

ProbeRules ==
  /\ probe.pc = "rules"
  /\ \E r \in Replies(ProbeCam, Xaddr(probe.services, "analytics"), "analytics", "GetRules") :
       /\ CountLost(r)
       /\ IF ~SoapPostOk(r)
          THEN ProbeEnds([Unsupported EXCEPT !.failed = TRUE],
                         {<<"analytics", "GetRules">>}, r.cut)
          ELSE IF ProbeTarget(ReadBody(r)) = <<>>
          THEN ProbeEnds(Unsupported, {}, r.cut)
          ELSE ProbeEnds([supported |-> TRUE, failed |-> FALSE,
                          name |-> ProbeTarget(ReadBody(r))[1].name], {}, r.cut)
  /\ UNCHANGED <<night, region, outcomes, filter, elements, dirty, edits>>

-----------------------------------------------------------------------------
\* Someone else, at the camera's own web page, changes or removes an element.
Removed(els, i) == [j \in 1 .. Len(els) - 1 |-> IF j < i THEN els[j] ELSE els[j + 1]]
SomeoneEdits ==
  /\ edits < MaxEdits
  /\ edits' = edits + 1
  /\ \E c \in CamSet, kind \in Kinds : \E i \in 1 .. Len(elements[c][kind]) :
       /\ dirty' = dirty \cup {c}
       /\ \/ elements' = [elements EXCEPT ![c][kind] = Removed(@, i)]
          \/ elements' = [elements EXCEPT ![c][kind][i].rest = "changed"]
  /\ UNCHANGED <<night, region, outcomes, probe, report, filter, lost>>

Night == NightServices \/ NightProfiles \/ NightSet
Region == RegionServices \/ RegionProfiles \/ RegionRules \/ RegionModules \/ RegionModify
Probe == ProbeDevice \/ ProbeServices \/ ProbeCapabilities \/ ProbeMedia \/ ProbeEvents
         \/ ProbePtz \/ ProbeAnalytics \/ ProbeRules

SettingsNext == Night \/ Region \/ Probe \/ SomeoneEdits

\* Every call ends within the client's time-out of 20 s.
SettingsSpec ==
  /\ SettingsInit /\ [][SettingsNext]_settingsVars
  /\ WF_settingsVars(Night) /\ WF_settingsVars(Region) /\ WF_settingsVars(Probe)

-----------------------------------------------------------------------------
(* Properties *)

\* Types.
SettingsTypeOK ==
  /\ night \in [k : 1 .. Len(Cams) + 1, pc : {"services", "profiles", "set", "done"},
                media : Text, imaging : Text, token : Text]
  /\ region \in [k : 1 .. Len(Cams) + 1,
                 pc : {"services", "profiles", "rules", "modules", "modify", "done"},
                 ends : {<<>>, <<DiscoverServices(<<>>)>>}
                          \cup {<<DiscoverServices(Device[c].services)>> : c \in CamSet},
                 token : Text, target : {<<>>} \cup {<<e>> : e \in Element}]
  /\ outcomes \in Seq({"success", "failed"})
  /\ probe \in [cam : CamSet,
                pc : {"device", "services", "capabilities", "media", "events", "ptz",
                      "analytics", "rules", "done"},
                services : {<<>>} \cup {Device[c].services : c \in CamSet},
                caps : SUBSET Text, token : Text, unread : BOOLEAN]
  /\ report \in [done : BOOLEAN, ok : BOOLEAN, media : Text, events : Text, ptz : Text,
                 motion : [supported : BOOLEAN, failed : BOOLEAN, name : Text],
                 errors : SUBSET ({"media", "events", "ptz", "analytics"} \X Operations)]
  /\ filter \in [CamSet -> {"factory", "Auto", "Off", "On"}]
  /\ DOMAIN elements = CamSet /\ \A c \in CamSet : Listed(elements[c])
  /\ dirty \subseteq CamSet
  /\ lost \in 0 .. MaxLost /\ edits \in 0 .. MaxEdits

\* What holds when a step of the region sync reports a success for its camera
SuccessHolds ==
  LET c == RegionCam
  IN  \E kind \in Kinds : \E i \in 1 .. Len(elements[c][kind]) :
        LET after == elements'[c][kind][i]
        IN  /\ elements' = [elements EXCEPT ![c][kind][i] = after]
            /\ after.polygon = Points
            /\ c \notin dirty => after = [elements[c][kind][i] EXCEPT !.polygon = Points]

\* The one success that is none: the camera refused in an HTTP 200 and its Fault
\* was lost on the way.
RefusalUnread == Device[RegionCam].fault200 /\ lost' > lost /\ elements' = elements

\* "success" means the camera has the configured region: when the region sync
\* reports it for a camera, one element of that camera holds the points and every
\* other one, of this and of every camera, is as it was; unless someone changed
\* the camera after its rules were read, that element is otherwise as it was.
\* soap_call takes a body it cannot read for none, so a camera that refuses in an
\* HTTP 200 whose body is lost is the exception.
SyncTruthful ==
  [][(Len(outcomes') > Len(outcomes) /\ outcomes'[Len(outcomes')] = "success")
       => SuccessHolds \/ RefusalUnread]_settingsVars

\* The motion region rules of a camera parse in the same way for the probe and
\* the sync: no point lies outside a polygon or lacks a coordinate.
WellFormed(c) ==
  LET rules == Device[c].elements["Rule"]
  IN  \A i \in 1 .. Len(rules) : ~rules[i].loose /\ rules[i].polygon # "broken"

\* The media services a camera lists have an address and answer there; its
\* analytics services all have one, or none has.
WellListed(c) ==
  LET list == Device[c].services
  IN  \A i, j \in 1 .. Len(list) :
        /\ list[i].ns \in {"media1", "media2"} =>
             list[i].xaddr # Missing /\ Serves(c, list[i].xaddr, list[i].ns)
        /\ (list[i].ns = "analytics" /\ list[j].ns = "analytics") =>
             (list[i].xaddr = Missing <=> list[j].xaddr = Missing)

\* The probe promises nothing the sync does not keep: a camera whose report says
\* that its motion region is supported gets its region, if no call is lost and
\* nobody else changes it (the two use another media version, another rule for
\* addresses and another test for points).
ProbeKept ==
  LET i == CHOOSE i \in 1 .. Len(Cams) : Cams[i] = ProbeCam
  IN  (/\ report.ok /\ report.motion.supported
       /\ Len(outcomes) >= i
       /\ lost = 0 /\ edits = 0
       /\ WellFormed(ProbeCam) /\ WellListed(ProbeCam)) => outcomes[i] = "success"

\* A probe that says a region is not supported, and not that the probing failed,
\* is right about rules: the camera has none that the sync would take.  The
\* exceptions are cameras that put a Fault into an HTTP 200, which soap_post does
\* not see, and an answer to GetRules whose body could not be read, which it takes
\* for one without rules.
ProbeRight ==
  (/\ report.ok /\ report.motion = Unsupported /\ edits = 0 /\ ~probe.unread
   /\ ~Device[ProbeCam].fault200 /\ Wanted("analytics") /\ probe.token # Missing) =>
    FindTarget(Device[ProbeCam].elements["Rule"]) = <<>>

\* What the server is told about a camera's motion region is what the sync will
\* find, although the two read services and rules with different code.  A
\* configured region without points takes the points of the camera's away, and
\* neither finds it again.
ProbeHonest == Points # Missing => ProbeKept /\ ProbeRight

\* A camera that fails, hangs or refuses stops nobody: both syncs come to their
\* end over all cameras, one outcome for each, and the probe ends with a report.
AllAttempted == <>(/\ night.pc = "done" /\ region.pc = "done"
                   /\ Len(outcomes) = Len(Cams) /\ report.done)
=============================================================================
