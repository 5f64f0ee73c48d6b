---------------------------- MODULE MCAgentRuntime ----------------------------
(* Documents for the model checker: an old file with a legacy camera id, a   *)
(* file with a server section of its own, and answers of the server that     *)
(* are complete, sparse, in the old format, or not an object at all.         *)
EXTENDS AgentRuntime

Server(url, token) == Obj([base_url |-> url, bearer_token |-> token])
Addr(a) == Obj([server_addr |-> a])

MCCameraFiles ==
  {Missing,
   Obj([camera_id |-> Leaf("old"),
        forward_agent |-> Addr("a0"),
        cameras |-> Arr(<<[rtsp_url |-> "u0", stream_id |-> "1", user |-> "w"]>>)]),
   Obj([server |-> Server("http_remote", "t0"),
        forward_agent |-> Addr("a0"),
        cameras |-> Arr(<<[id |-> "a", rtsp_url |-> "u0", rtsp_stream_id |-> "1"]>>)])}

MCServerFiles ==
  {Garbled,
   Obj([server |-> Server("https", "t1")]),
   Obj([server |-> Server("http_remote", "t2")])}

Answers ==
  {Obj([server |-> Server("https", "theirs"),
        config_version |-> Leaf("7"),
        forward_agent |-> Addr("a1"),
        ingest |-> Obj([clip_pre_secs |-> "5"]),
        cameras |-> Arr(<<[camera_id |-> "a", rtsp_url |-> "u1", rtsp_stream_id |-> "1",
                           user |-> "w", onvif_host |-> "h", config_version |-> "7",
                           night_vision |-> "day", region |-> "p"],
                          [id |-> "b", rtsp_host |-> "h2", stream_id |-> "2",
                           motion |-> "false", onvif_url |-> "h2"]>>)]),
   Obj([camera_id |-> Leaf("stale"),
        forward_agent |-> Addr("a1"),
        cameras |-> Arr(<<[rtsp_url |-> "u2", rtsp_stream_id |-> "3", user |-> "w",
                           region |-> Null]>>)]),
   Obj([camera_id |-> Leaf("new"), forward_agent |-> Addr(Null)])}

MCRemotes == Answers \cup {Leaf(Null)}
=============================================================================
