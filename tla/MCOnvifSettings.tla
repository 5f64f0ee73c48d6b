---------------------------- MODULE MCOnvifSettings ----------------------------
(* Cameras for the model checker.  "rule" has both media versions and its   *)
(* motion region rule after one of another type; "module" has most services  *)
(* at one address, no video source, an analytics module in place of a rule,  *)
(* and hides faults in HTTP 200.                                             *)
EXTENDS OnvifSettings

Service(ns, xaddr) == [ns |-> ns, xaddr |-> xaddr]
Made(kind, name, motionregion, polygon) ==
  [kind |-> kind, name |-> name, motionregion |-> motionregion, polygon |-> polygon,
   loose |-> FALSE, rest |-> "factory"]
Profile(source, analytics) == [source |-> source, analytics |-> analytics]

MCDevice ==
  [rule |->
     [services |-> <<Service("device", ServiceUrl), Service("media2", "m2"),
                     Service("media1", "m1"), Service("imaging", "im"),
                     Service("analytics", "an")>>,
      caps |-> <<"media", "events", "analytics">>,
      serves |-> [service |-> {"device", "events"}, m1 |-> {"media1"},
                  m2 |-> {"media1", "media2"}, im |-> {"imaging"}, an |-> {"analytics"}],
      profiles |-> <<Profile("src", Missing), Profile("src", "tok")>>,
      elements |-> [Rule |-> <<Made("Rule", "line", FALSE, "p0"), Made("Rule", "zone", TRUE, "p0")>>,
                    AnalyticsModule |-> <<Made("AnalyticsModule", "cell", TRUE, "p0")>>],
      fault200 |-> FALSE],
   module |->
     [services |-> <<Service("ptz", "ptz"), Service("analytics", Missing)>>,
      caps |-> <<"media", "ptz", "analytics">>,
      serves |-> [service |-> {"device", "media1", "analytics"}, ptz |-> {"ptz"}],
      profiles |-> <<Profile(Missing, "tok")>>,
      elements |-> [Rule |-> <<Made("Rule", "zone", TRUE, Missing)>>,
                    AnalyticsModule |-> <<Made("AnalyticsModule", "cell", TRUE, "p0")>>],
      fault200 |-> TRUE]]

MCText == STRING
MCCams == <<"rule", "module">>
=============================================================================
