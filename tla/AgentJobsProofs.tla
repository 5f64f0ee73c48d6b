--------------------------- MODULE AgentJobsProofs ---------------------------
(***************************************************************************)
(* A restart job restarts the agent once, its success is told only after   *)
(* the agent has come back, and an update is done again only by an updater *)
(* the agent had stopped waiting for: for any jobs, any number of crashes  *)
(* and replaced runtimes, any lost requests.                               *)
(***************************************************************************)
EXTENDS AgentJobs, TLAPS

\* The ghosts of what really happened.
TruthType == exits \in {0, 1} /\ born \in BOOLEAN

\* The marker stands for an exit the server has not heard of, and keeps the loop
\* away from restart jobs; one that could not be removed has been heard of.
MarkerInv ==
    /\ marker => exits = 1
    /\ exits = 1 => marker \/ server.restart \in Ended
    /\ pc \in {"shutdown", "restart"} =>
        outcome = "Pending" \/ ~marker \/ server.restart \in Ended
    /\ pc = "restart" => outcome # "Pending"
    /\ pc = "mark" => exits = 0
    /\ exits = 1 /\ proc = "up" => born

\* Whoever says that the restart has succeeded says it after the agent is back.
Back == exits = 1 /\ born
TellInv ==
    /\ server.restart = "succeeded" => Back
    /\ outcome = "Reported" => Back
    /\ \A p \in posts : p.restart = "succeeded" => Back

\* The agent waits for the last updater only; the installed version tells whether
\* an update has been done, and all that did it before the last one started, or
\* before one is about to start, were abandoned.
InstallInv ==
    /\ busy \cup starting \cup installers \subseteq 1 .. runs
    /\ \A a \in busy : a \in abandoned \/ (pc = "run" /\ a = runs)
    /\ job.action = "update" =>
        /\ installed = "new" <=> installers # {}
        /\ \A a \in installers : a < runs => a \in abandoned
        /\ pc = "start" => installers \subseteq abandoned

JobsInv == TypeOK /\ TruthType /\ MarkerInv /\ TellInv /\ InstallInv

Servers == [restart : {"none", "pending", "restarting"} \cup Ended,
            shutdown : {"none", "pending"}, firmware : {"none", "pending"} \cup Ended]
Summaries == [Cameras -> {"never", "running", "succeeded", "failed"}]
Tasks == [ProbeJobs -> {"none", "probing", "finished"}]
-----------------------------------------------------------------------------
\* A fresh agent and a server that has been told nothing.
LEMMA JobsInit == Init => JobsInv
  <1> SUFFICES ASSUME Init PROVE JobsInv
    OBVIOUS
  <1>0. PICK w \in Workloads :
            /\ open = IF "probe" \in w THEN ProbeJobs ELSE {}
            /\ server = [k \in {"restart", "shutdown", "firmware"} |-> IF k \in w THEN "pending" ELSE "none"]
            /\ job \in IF "firmware" \in w THEN Firmware ELSE {NoJob}
            /\ tracks \in IF "restart" \in w THEN BOOLEAN ELSE {FALSE}
    BY DEF Init
  <1>1. TypeOK
    <2>1. open \subseteq ProbeJobs /\ job \in Firmware \cup {NoJob} /\ tracks \in BOOLEAN
      BY <1>0
    <2>2. server \in Servers
      BY <1>0 DEF Servers
    <2>3. summary \in Summaries /\ task \in Tasks
      BY DEF Init, Summaries, Tasks
    <2>4. faults \in 0 .. MaxFaults /\ runs \in 0 .. MaxRuns
      BY JobsAssumption DEF Init
    <2> QED BY <2>1, <2>2, <2>3, <2>4 DEF Init, TypeOK, Servers, Summaries, Tasks
  <1>2. TruthType /\ MarkerInv
    <2>1. ~marker /\ exits = 0 /\ born = FALSE /\ pc = "sleep"
      BY DEF Init
    <2>2. TruthType
      BY <2>1 DEF TruthType
    <2>3. MarkerInv
      BY <2>1 DEF MarkerInv
    <2> QED BY <2>2, <2>3
  <1>3. TellInv
    BY <1>0 DEF Init, TellInv
  <1>4. InstallInv
    BY DEF Init, InstallInv
  <1> QED BY <1>1, <1>2, <1>3, <1>4 DEF JobsInv

\* What a heartbeat does to the server: an ended job stays ended, and a new state
\* of the restart job is the one that was told.
LEMMA Hears ==
    ASSUME TypeOK, NEW o, NEW r \in {"none", "restarting"} \cup Ended,
           NEW f \in Ended \cup {"none"}, PostHeartbeat(o, r, f)
    PROVE  /\ server' \in Servers
           /\ server.restart \in Ended => server'.restart = server.restart
           /\ server'.restart # server.restart => server'.restart = r
           /\ o # "lost" /\ r \in Ended => server'.restart \in Ended
  <1> DEFINE nr == IF server.restart \in Ended \/ r = "none" \/ (r = "restarting" /\ ~tracks)
                   THEN server.restart ELSE r
             nf == IF server.firmware \in Ended \/ f = "none" THEN server.firmware ELSE f
  <1>1. server \in Servers
    BY DEF TypeOK, Servers
  <1>2. nr \in {"none", "pending", "restarting"} \cup Ended /\ nf \in {"none", "pending"} \cup Ended
    BY <1>1 DEF Servers
  <1>3. (server' = server /\ o = "lost")
        \/ server' = [server EXCEPT !.restart = nr, !.firmware = nf]
    BY DEF PostHeartbeat, Heard
  <1>4. \/ server' = server /\ o = "lost"
        \/ server'.restart = nr /\ server'.firmware = nf /\ server'.shutdown = server.shutdown
    BY <1>1, <1>3 DEF Servers
  <1>5. server' \in Servers
    <2> HIDE DEF nr, nf
    <2> QED BY <1>1, <1>2, <1>3 DEF Servers
  <1> QED BY <1>1, <1>4, <1>5 DEF Ended

\* A task that ends leaves no state behind.
LEMMA ForgottenType ==
    ASSUME Forgotten
    PROVE  /\ pc' = "sleep" /\ report' = "none" /\ outcome' = "Missing" /\ handled' = {}
           /\ terminal' = "none" /\ flying' = {}
           /\ summary' \in Summaries /\ task' \in Tasks /\ Abandon
  BY DEF Forgotten, Summaries, Tasks

\* A step that leaves alone what the invariant says of the updaters, and does not
\* start or stop waiting for one.
LEMMA InstallFrame ==
    ASSUME InstallInv, UNCHANGED <<job, updaters, abandoned>>,
           pc' = pc \/ (pc # "run" /\ pc' \notin {"start", "run"})
    PROVE  InstallInv'
  <1>1. UNCHANGED <<job, installed, runs, busy, starting, installers, abandoned>>
    BY DEF updaters
  <1>2. \A a \in busy' : a \in abandoned' \/ (pc' = "run" /\ a = runs')
    BY <1>1 DEF InstallInv
  <1>3. pc' = "start" => pc = "start"
    OBVIOUS
  <1> QED BY <1>1, <1>2, <1>3 DEF InstallInv

\* A step that stops waiting, if the agent was.
LEMMA InstallAbandon ==
    ASSUME TypeOK, InstallInv, Abandon, pc' \notin {"start", "run"},
           UNCHANGED <<job, installed, runs, busy, installers>>, starting' \subseteq starting
    PROVE  InstallInv' /\ abandoned' \subseteq Runs
  <1>1. abandoned \subseteq abandoned' /\ abandoned' \subseteq abandoned \cup busy
    BY DEF Abandon
  <1>2. abandoned' \subseteq Runs
    BY <1>1 DEF TypeOK
  <1>3. \A a \in busy : a \in abandoned'
    BY <1>1 DEF InstallInv, Abandon
  <1> QED BY <1>1, <1>2, <1>3 DEF InstallInv

\* A step that leaves alone what the invariant says of the restart, except that
\* the loop goes on to a place where nothing is assumed.
LEMMA RestartFrame ==
    ASSUME TruthType, MarkerInv, TellInv,
           UNCHANGED <<proc, marker, posts, exits, born>>,
           outcome' = outcome \/ outcome' = "Missing",
           server'.restart = server.restart,
           (pc' = pc /\ outcome' = outcome) \/ pc' \notin {"shutdown", "restart", "mark"}
    PROVE  TruthType' /\ MarkerInv' /\ TellInv'
  <1>1. TruthType' /\ TellInv'
    BY DEF TruthType, TellInv, Back
  <1>2. MarkerInv'
    BY DEF MarkerInv
  <1> QED BY <1>1, <1>2

\* The end of the task, with or without its process.
LEMMA RestartForgotten ==
    ASSUME TruthType, MarkerInv, TellInv, Forgotten,
           UNCHANGED <<marker, exits, born>>, posts' \subseteq posts,
           proc' = proc \/ proc' # "up",
           server.restart \in Ended => server'.restart = server.restart,
           server'.restart # server.restart /\ server'.restart = "succeeded" => Back
    PROVE  TruthType' /\ MarkerInv' /\ TellInv'
  <1>1. pc' = "sleep" /\ outcome' = "Missing"
    BY ForgottenType
  <1>2. TruthType'
    BY DEF TruthType
  <1>3. TellInv'
    <2>1. server'.restart = "succeeded" => Back
      BY DEF TellInv
    <2>2. Back' = Back
      BY DEF Back
    <2> QED BY <1>1, <2>1, <2>2 DEF TellInv
  <1>4. MarkerInv'
    BY <1>1 DEF MarkerInv
  <1> QED BY <1>2, <1>3, <1>4
-----------------------------------------------------------------------------
\* The steps of the probe manager and of its tasks.
LEMMA ProbesKeep ==
    ASSUME JobsInv,
           \/ \E j \in ProbeJobs : PollForJobs(j) \/ Probe(j) \/ Answer(j)
           \/ PollNothing
    PROVE  JobsInv'
  <1>0. TypeOK /\ TruthType /\ MarkerInv /\ TellInv /\ InstallInv
    BY DEF JobsInv
  <1> USE DEF updaters, memory, probes, spawned, jobs, exit
  <1>1. ASSUME NEW j \in ProbeJobs, PollForJobs(j) PROVE JobsInv'
    <2>1. CamOf[j] \in Cameras
      BY JobsAssumption
    <2>2. flying' \subseteq Probeable /\ answers' \subseteq ProbeJobs
      BY <1>0, <1>1 DEF PollForJobs, FailJobImmediately, TypeOK
    <2>3. summary' \in Summaries
      BY <1>0, <1>1, <2>1
      DEF PollForJobs, FailJobImmediately, SetRunning, SetFinished, TypeOK, Summaries
    <2>4. task' \in Tasks
      BY <1>0, <1>1 DEF PollForJobs, FailJobImmediately, TypeOK, Tasks
    <2>5. /\ pc = "sleep" /\ pc' = "marker"
          /\ UNCHANGED <<proc, faults, marker, updaters, memory, posts, net, jobs, open, server, exit,
                         abandoned>>
      BY <1>1 DEF PollForJobs
    <2>6. TypeOK'
      BY <1>0, <2>2, <2>3, <2>4, <2>5 DEF TypeOK, Summaries, Tasks
    <2>7. InstallInv'
      BY <1>0, <2>5, InstallFrame
    <2> QED BY <1>0, <2>5, <2>6, <2>7, RestartFrame DEF JobsInv
  <1>2. ASSUME NEW j \in ProbeJobs, Probe(j) \/ Answer(j) PROVE JobsInv'
    <2>1. CamOf[j] \in Cameras
      BY JobsAssumption
    <2>2. flying' \subseteq Probeable /\ answers' \subseteq ProbeJobs /\ open' \subseteq ProbeJobs
      BY <1>0, <1>2 DEF Probe, Answer, ProbeFinished, ReleaseInFlight, PostProbeReport, TypeOK
    <2>3. summary' \in Summaries
      BY <1>0, <1>2, <2>1
      DEF Probe, Answer, ProbeFinished, ReleaseInFlight, PostProbeReport, SetFinished, TypeOK, Ended,
          Summaries
    <2>4. task' \in Tasks
      <3>1. task \in Tasks
        BY <1>0 DEF TypeOK, Tasks
      <3> QED BY <1>2, <3>1 DEF Probe, Answer, ProbeFinished, ReleaseInFlight, PostProbeReport, Tasks
    <2>5. UNCHANGED <<proc, faults, marker, updaters, pc, memory, posts, net, jobs, server, exit, abandoned>>
      BY <1>2 DEF Probe, Answer, ProbeFinished, ReleaseInFlight, PostProbeReport
    <2>6. TypeOK'
      BY <1>0, <2>2, <2>3, <2>4, <2>5 DEF TypeOK, Summaries, Tasks
    <2>7. InstallInv'
      BY <1>0, <2>5, InstallFrame
    <2> QED BY <1>0, <2>5, <2>6, <2>7, RestartFrame DEF JobsInv
  <1>3. ASSUME PollNothing PROVE JobsInv'
    <2>1. /\ pc = "sleep" /\ pc' = "marker"
          /\ UNCHANGED <<proc, faults, marker, updaters, memory, probes, spawned, net, jobs, open, server,
                         exit, abandoned>>
      BY <1>3 DEF PollNothing
    <2>2. TypeOK'
      BY <1>0, <2>1 DEF TypeOK
    <2>3. InstallInv'
      BY <1>0, <2>1, InstallFrame
    <2> QED BY <1>0, <2>1, <2>2, <2>3, RestartFrame DEF JobsInv
  <1> QED BY <1>1, <1>2, <1>3

\* The report of the marker: the only place where "succeeded" comes from.
LEMMA ReportMarkerKeeps ==
    ASSUME JobsInv,
           \/ \E o \in Outcomes, removed \in BOOLEAN : ReportMarker(o, removed)
           \/ MarkerUnreadable
    PROVE  JobsInv'
  <1>0. TypeOK /\ TruthType /\ MarkerInv /\ TellInv /\ InstallInv
    BY DEF JobsInv
  <1> USE DEF updaters, memory, probes, spawned, jobs, exit
  <1>1. ASSUME NEW o \in Outcomes, NEW removed \in BOOLEAN, ReportMarker(o, removed), ~marker
        PROVE  JobsInv'
    <2>1. /\ pc = "marker" /\ proc = "up" /\ pc' = "shutdown" /\ outcome' = "Missing"
          /\ UNCHANGED <<proc, faults, marker, updaters, report, handled, terminal, probes, spawned, net,
                         jobs, open, server, exit, abandoned>>
      BY <1>1 DEF ReportMarker
    <2>2. TypeOK'
      BY <1>0, <2>1 DEF TypeOK
    <2>3. TruthType' /\ MarkerInv'
      BY <1>0, <1>1, <2>1 DEF TruthType, MarkerInv
    <2>4. TellInv'
      BY <1>0, <2>1 DEF TellInv, Back
    <2>5. InstallInv'
      BY <1>0, <2>1, InstallFrame
    <2> QED BY <2>2, <2>3, <2>4, <2>5 DEF JobsInv
  <1>2. ASSUME NEW o \in Outcomes, NEW removed \in BOOLEAN, ReportMarker(o, removed), marker
        PROVE  JobsInv'
    <2>1. /\ pc = "marker" /\ proc = "up" /\ pc' = "shutdown"
          /\ PostHeartbeat(o, "succeeded", "none")
          /\ marker' = ~(o = "ok" /\ removed)
          /\ outcome' = IF o = "ok" THEN "Reported" ELSE "Pending"
          /\ handled' = IF o = "ok" THEN MarkHandled("restart") ELSE handled
          /\ UNCHANGED <<proc, faults, updaters, report, terminal, probes, spawned, net, jobs, open, exit,
                         abandoned>>
      BY <1>2 DEF ReportMarker
    <2>2. /\ server' \in Servers
          /\ server.restart \in Ended => server'.restart = server.restart
          /\ server'.restart # server.restart => server'.restart = "succeeded"
          /\ o = "ok" => server'.restart \in Ended
      BY <1>0, <2>1, Hears DEF Ended
    <2>3. exits = 1 /\ born /\ Back' /\ UNCHANGED exits
      BY <1>0, <1>2, <2>1 DEF MarkerInv, Back
    <2>4. TypeOK'
      <3>1. /\ outcome' \in {"Missing", "Pending", "Reported"}
            /\ handled' \subseteq {"restart", "shutdown"} /\ marker' \in BOOLEAN
        BY <1>0, <2>1 DEF TypeOK, MarkHandled
      <3> QED BY <1>0, <2>1, <2>2, <3>1 DEF TypeOK, Servers
    <2>5. TruthType'
      BY <1>0, <2>1 DEF TruthType
    <2>6. MarkerInv'
      <3>1. o = "ok" => server'.restart \in Ended
        BY <2>2
      <3>2. o # "ok" => marker' /\ outcome' = "Pending"
        BY <2>1
      <3>3. exits' = 1 /\ born' /\ pc' = "shutdown"
        BY <2>1, <2>3 DEF Back
      <3> QED BY <3>1, <3>2, <3>3 DEF MarkerInv
    <2>7. TellInv'
      BY <2>3 DEF TellInv
    <2>8. InstallInv'
      BY <1>0, <2>1, InstallFrame
    <2> QED BY <2>4, <2>5, <2>6, <2>7, <2>8 DEF JobsInv
  <1>3. ASSUME MarkerUnreadable PROVE JobsInv'
    <2>1. /\ pc = "marker" /\ pc' = "shutdown" /\ outcome' = "Pending"
          /\ faults < MaxFaults /\ faults' = faults + 1
          /\ UNCHANGED <<proc, marker, updaters, report, handled, terminal, probes, spawned, net, jobs,
                         open, server, exit, abandoned>>
      BY <1>3 DEF MarkerUnreadable
    <2>2. faults' \in 0 .. MaxFaults
      BY <1>0, <2>1, JobsAssumption DEF TypeOK
    <2>3. TypeOK'
      BY <1>0, <2>1, <2>2 DEF TypeOK
    <2>4. TruthType' /\ MarkerInv'
      BY <1>0, <2>1 DEF TruthType, MarkerInv
    <2>5. TellInv'
      BY <1>0, <2>1 DEF TellInv, Back
    <2>6. InstallInv'
      BY <1>0, <2>1, InstallFrame
    <2> QED BY <2>3, <2>4, <2>5, <2>6 DEF JobsInv
  <1> QED BY <1>1, <1>2, <1>3

\* Shutdown jobs: the loop goes on to restart jobs only when the marker is not
\* pending.
LEMMA ShutdownKeeps ==
    ASSUME JobsInv, NEW o \in Outcomes, SkipShutdown(o) \/ ShutdownJob(o)
    PROVE  JobsInv'
  <1>0. TypeOK /\ TruthType /\ MarkerInv /\ TellInv /\ InstallInv
    BY DEF JobsInv
  <1> USE DEF updaters, memory, probes, spawned, jobs, exit
  <1>1. CASE SkipShutdown(o)
    <2>1. /\ pc = "shutdown" /\ pc' = IF outcome = "Pending" THEN "firmware" ELSE "restart"
          /\ UNCHANGED <<proc, faults, marker, updaters, memory, probes, spawned, net, jobs, open, server,
                         exit, abandoned>>
      BY <1>1 DEF SkipShutdown
    <2>2. TypeOK'
      BY <1>0, <2>1 DEF TypeOK
    <2>3. TruthType' /\ TellInv'
      BY <1>0, <2>1 DEF TruthType, TellInv, Back
    <2>4. MarkerInv'
      BY <1>0, <2>1 DEF MarkerInv
    <2>5. InstallInv'
      BY <1>0, <2>1, InstallFrame
    <2> QED BY <2>2, <2>3, <2>4, <2>5 DEF JobsInv
  <1>2. CASE ShutdownJob(o)
    <2>1. /\ pc = "shutdown" /\ proc = "up" /\ proc' = "stopped" /\ posts' = {} /\ answers' = {}
          /\ PostHeartbeat(o, RestartForPayload, "none") /\ Forgotten
          /\ UNCHANGED <<faults, marker, updaters, net, jobs, open, exit>>
      BY <1>2 DEF ShutdownJob, ProcessEnds
    <2>2. /\ RestartForPayload \in Ended \cup {"none"}
          /\ RestartForPayload = "succeeded" => Back
      BY <1>0 DEF RestartForPayload, Ended, TellInv
    <2>3. /\ server' \in Servers
          /\ server.restart \in Ended => server'.restart = server.restart
          /\ server'.restart # server.restart => server'.restart = RestartForPayload
      BY <1>0, <2>1, <2>2, Hears DEF Ended
    <2>4. TruthType' /\ MarkerInv' /\ TellInv'
      BY <1>0, <2>1, <2>2, <2>3, RestartForgotten
    <2>5. InstallInv' /\ abandoned' \subseteq Runs
      BY <1>0, <2>1, ForgottenType, InstallAbandon
    <2>6. TypeOK'
      BY <1>0, <2>1, <2>3, <2>5, ForgottenType DEF TypeOK, Servers, Summaries, Tasks
    <2> QED BY <2>4, <2>5, <2>6 DEF JobsInv
  <1> QED BY <1>1, <1>2

\* Restart jobs that are not run, or whose marker cannot be written.
LEMMA RestartRefusedKeeps ==
    ASSUME JobsInv, NEW o \in Outcomes, SkipRestart(o) \/ MarkerFails(o)
    PROVE  JobsInv'
  <1>0. TypeOK /\ TruthType /\ MarkerInv /\ TellInv /\ InstallInv
    BY DEF JobsInv
  <1> USE DEF updaters, memory, probes, spawned, jobs, exit
  <1>1. /\ pc \in {"restart", "mark"} /\ pc' = "firmware"
        /\ UNCHANGED <<proc, faults, marker, updaters, report, outcome, terminal, probes, spawned, net,
                       jobs, open, exit, abandoned>>
    BY DEF SkipRestart, MarkerFails
  <1>2. handled' \subseteq {"restart", "shutdown"}
    BY <1>0 DEF SkipRestart, MarkerFails, MarkHandled, TypeOK
  <1>3. /\ server' \in Servers
        /\ server.restart \in Ended => server'.restart = server.restart
        /\ server'.restart = "succeeded" => server.restart = "succeeded"
    <2>1. CASE UNCHANGED server
      BY <1>0, <2>1 DEF TypeOK, Servers
    <2>2. CASE PostHeartbeat(o, "restarting", "none")
      BY <1>0, <2>2, Hears
    <2>3. CASE PostHeartbeat(o, "failed", "none")
      BY <1>0, <2>3, Hears DEF Ended
    <2> QED BY <2>1, <2>2, <2>3 DEF SkipRestart, MarkerFails
  <1>4. TypeOK'
    BY <1>0, <1>1, <1>2, <1>3 DEF TypeOK, Servers
  <1>5. TruthType' /\ MarkerInv'
    BY <1>0, <1>1, <1>3 DEF TruthType, MarkerInv
  <1>6. TellInv'
    BY <1>0, <1>1, <1>3 DEF TellInv, Back
  <1>7. InstallInv'
    BY <1>0, <1>1, InstallFrame
  <1> QED BY <1>4, <1>5, <1>6, <1>7 DEF JobsInv

\* A restart job that is run: without a marker, and for a job that has not ended,
\* so no exit has been made for it.
LEMMA RestartKeeps ==
    ASSUME JobsInv, RestartAccepted \/ RestartExit
    PROVE  JobsInv'
  <1>0. TypeOK /\ TruthType /\ MarkerInv /\ TellInv /\ InstallInv
    BY DEF JobsInv
  <1> USE DEF updaters, memory, probes, spawned, jobs, exit
  <1>1. CASE RestartAccepted
    <2>1. /\ pc = "restart" /\ pc' = "mark" /\ server.restart = "pending"
          /\ PostHeartbeat("ok", "restarting", "none")
          /\ UNCHANGED <<proc, faults, marker, updaters, memory, probes, spawned, net, jobs, open, exit,
                         abandoned>>
      BY <1>1 DEF RestartAccepted, FetchRestartJobCommand
    <2>2. server' \in Servers /\ server'.restart # "succeeded"
      BY <1>0, <2>1, Hears DEF Ended
    <2>3. exits = 0 /\ ~marker
      BY <1>0, <2>1 DEF MarkerInv, TruthType, Ended
    <2>4. TypeOK'
      BY <1>0, <2>1, <2>2 DEF TypeOK, Servers
    <2>5. TruthType' /\ MarkerInv'
      BY <1>0, <2>1, <2>3 DEF TruthType, MarkerInv
    <2>6. TellInv'
      BY <1>0, <2>1, <2>2 DEF TellInv, Back
    <2>7. InstallInv'
      BY <1>0, <2>1, InstallFrame
    <2> QED BY <2>4, <2>5, <2>6, <2>7 DEF JobsInv
  <1>2. CASE RestartExit
    <2>1. /\ pc = "mark" /\ marker' = TRUE /\ proc' = "down" /\ Forgotten /\ posts' = {} /\ answers' = {}
          /\ exits' = exits + 1 /\ born' = FALSE
          /\ UNCHANGED <<faults, updaters, net, jobs, open, server>>
      BY <1>2 DEF RestartExit, WriteRestartJobMarker, ProcessEnds
    <2>2. exits = 0 /\ exits' = 1
      BY <1>0, <2>1 DEF MarkerInv
    <2>3. pc' = "sleep" /\ outcome' = "Missing"
      BY <2>1, ForgottenType
    <2>4. InstallInv' /\ abandoned' \subseteq Runs
      BY <1>0, <2>1, ForgottenType, InstallAbandon
    <2>5. TypeOK'
      BY <1>0, <2>1, <2>4, ForgottenType DEF TypeOK, Summaries, Tasks
    <2>6. TruthType'
      BY <1>0, <2>1, <2>2 DEF TruthType
    <2>7. MarkerInv'
      BY <2>1, <2>2, <2>3 DEF MarkerInv
    <2>8. TellInv'
      BY <1>0, <2>1, <2>2, <2>3 DEF TellInv, Back
    <2> QED BY <2>4, <2>5, <2>6, <2>7, <2>8 DEF JobsInv
  <1> QED BY <1>1, <1>2
-----------------------------------------------------------------------------
\* Fetching a firmware job: one that is run is not an update installed already,
\* as far as can be seen when it is fetched.
LEMMA FirmwareKeeps ==
    ASSUME JobsInv, NEW o \in Outcomes, FirmwareJob(o)
    PROVE  JobsInv'
  <1>0. TypeOK /\ TruthType /\ MarkerInv /\ TellInv /\ InstallInv
    BY DEF JobsInv
  <1> USE DEF updaters, memory, probes, spawned, jobs, exit
  <1>1. /\ UNCHANGED <<proc, faults, marker, updaters, outcome, handled, probes, spawned, net, jobs, open,
                       server, exit, abandoned>>
        /\ pc = "firmware" /\ pc' \in {"post", "tell", "start"} /\ (pc' = "start" => ~AlreadyInstalled)
        /\ report' \in {"none", terminal, "succeeded"} /\ terminal' \in {terminal, "succeeded"}
    BY DEF FirmwareJob
  <1>2. TypeOK'
    <2>1. report' \in Ended \cup {"none"} /\ terminal' \in Ended \cup {"none"}
      BY <1>0, <1>1 DEF TypeOK, Ended
    <2> QED BY <1>0, <1>1, <2>1 DEF TypeOK
  <1>3. TruthType' /\ MarkerInv' /\ TellInv'
    BY <1>0, <1>1, RestartFrame
  <1>4. InstallInv'
    <2>1. pc' = "start" /\ job.action = "update" => installers = {}
      BY <1>0, <1>1 DEF InstallInv, AlreadyInstalled, TypeOK
    <2>2. \A a \in busy : a \in abandoned
      BY <1>0, <1>1 DEF InstallInv
    <2>3. UNCHANGED <<job, installed, runs, busy, starting, installers, abandoned>>
      BY <1>1
    <2> QED BY <1>0, <2>1, <2>2, <2>3 DEF InstallInv
  <1> QED BY <1>2, <1>3, <1>4 DEF JobsInv

\* Waiting for an updater, or not any more.
LEMMA RunKeeps ==
    ASSUME JobsInv,
           \/ StartUpdater \/ UpdaterMissing \/ UpdaterTimesOut
           \/ \E status \in Ended : UpdaterEnded(status)
    PROVE  JobsInv'
  <1>0. TypeOK /\ TruthType /\ MarkerInv /\ TellInv /\ InstallInv
    BY DEF JobsInv
  <1> USE DEF updaters, memory, probes, spawned, jobs, exit
  <1>1. ASSUME StartUpdater PROVE JobsInv'
    <2>1. /\ pc = "start" /\ pc' = "run" /\ runs < MaxRuns /\ runs' = runs + 1
          /\ busy' = busy \cup {runs + 1}
          /\ UNCHANGED <<proc, faults, marker, installed, starting, installers, memory, probes, spawned,
                         net, jobs, open, server, exit, abandoned>>
      BY <1>1 DEF StartUpdater
    <2>2. runs \in Nat /\ MaxRuns \in Nat /\ runs' \in 0 .. MaxRuns /\ runs + 1 \in Runs
      BY <1>0, <2>1, JobsAssumption DEF TypeOK, Runs
    <2>3. busy' \subseteq Runs
      BY <1>0, <2>1, <2>2 DEF TypeOK
    <2>4. TypeOK'
      BY <1>0, <2>1, <2>2, <2>3 DEF TypeOK
    <2>5. TruthType' /\ MarkerInv' /\ TellInv'
      BY <1>0, <2>1, RestartFrame
    <2>6. busy' \cup starting' \cup installers' \subseteq 1 .. runs'
      BY <1>0, <2>1, <2>2 DEF InstallInv
    <2>7. \A a \in busy' : a \in abandoned' \/ (pc' = "run" /\ a = runs')
      BY <1>0, <2>1 DEF InstallInv
    <2>8. job.action = "update" => installers \subseteq abandoned
      BY <1>0, <2>1 DEF InstallInv
    <2>9. InstallInv'
      BY <1>0, <2>1, <2>6, <2>7, <2>8 DEF InstallInv
    <2> QED BY <2>4, <2>5, <2>9 DEF JobsInv
  <1>2. ASSUME NEW status \in Ended, RememberTerminalState(status), abandoned' \subseteq Runs,
               UNCHANGED <<proc, faults, marker, updaters, probes, spawned, net, jobs, open, server, exit>>,
               InstallInv'
        PROVE  JobsInv'
    <2>1. /\ pc' = "tell" /\ report' = status /\ terminal' = status
          /\ UNCHANGED <<outcome, handled>>
      BY <1>2 DEF RememberTerminalState
    <2>2. TypeOK'
      BY <1>0, <1>2, <2>1 DEF TypeOK
    <2>3. TruthType' /\ MarkerInv' /\ TellInv'
      BY <1>0, <1>2, <2>1, RestartFrame
    <2> QED BY <1>2, <2>2, <2>3 DEF JobsInv
  <1>3. ASSUME UpdaterMissing PROVE JobsInv'
    <2>1. /\ RememberTerminalState("failed") /\ pc = "start" /\ pc' = "tell"
          /\ UNCHANGED <<proc, faults, marker, updaters, probes, spawned, net, jobs, open, server, exit,
                         abandoned>>
      BY <1>3 DEF UpdaterMissing, RememberTerminalState
    <2>2. InstallInv'
      BY <1>0, <2>1, InstallFrame
    <2>3. abandoned' \subseteq Runs
      BY <1>0, <2>1 DEF TypeOK
    <2> QED BY <1>2, <2>1, <2>2, <2>3 DEF Ended
  <1>4. ASSUME NEW status \in Ended, UpdaterEnded(status) PROVE JobsInv'
    <2>1. /\ RememberTerminalState(status) /\ pc' = "tell" /\ runs \notin busy
          /\ UNCHANGED <<proc, faults, marker, updaters, probes, spawned, net, jobs, open, server, exit,
                         abandoned>>
      BY <1>4 DEF UpdaterEnded, RememberTerminalState
    <2>2. \A a \in busy : a \in abandoned
      BY <1>0, <2>1 DEF InstallInv
    <2>3. UNCHANGED <<job, installed, runs, busy, starting, installers, abandoned>>
      BY <2>1
    <2>4. InstallInv'
      BY <1>0, <2>1, <2>2, <2>3 DEF InstallInv
    <2>5. abandoned' \subseteq Runs
      BY <1>0, <2>1 DEF TypeOK
    <2> QED BY <1>2, <2>1, <2>4, <2>5
  <1>5. ASSUME UpdaterTimesOut PROVE JobsInv'
    <2>1. /\ RememberTerminalState("failed") /\ pc' = "tell" /\ Abandon
          /\ UNCHANGED <<proc, faults, marker, updaters, probes, spawned, net, jobs, open, server, exit>>
      BY <1>5 DEF UpdaterTimesOut, RememberTerminalState
    <2>2. InstallInv' /\ abandoned' \subseteq Runs
      BY <1>0, <2>1, InstallAbandon
    <2> QED BY <1>2, <2>1, <2>2 DEF Ended
  <1> QED BY <1>1, <1>3, <1>4, <1>5

\* What the updaters do, waited for or not.
LEMMA UpdatersKeep ==
    ASSUME JobsInv, NEW u \in Runs, Updater(u)
    PROVE  JobsInv'
  <1>0. TypeOK /\ TruthType /\ MarkerInv /\ TellInv /\ InstallInv
    BY DEF JobsInv
  <1> USE DEF updaters, memory, probes, spawned, jobs, exit
  <1>1. CASE Install(u)
    <2>1. /\ u \in busy /\ busy' = busy \ {u} /\ installers' = installers \cup {u}
          /\ installed' = IF job.action = "update" THEN "new" ELSE "old"
          /\ starting' \subseteq starting \cup {u}
          /\ UNCHANGED <<proc, faults, marker, runs, pc, memory, probes, spawned, net, jobs, open, server,
                         exit, abandoned>>
      BY <1>1 DEF Install
    <2>2. TypeOK'
      BY <1>0, <2>1 DEF TypeOK
    <2>3. TruthType' /\ MarkerInv' /\ TellInv'
      BY <1>0, <2>1, RestartFrame
    <2>4. busy' \cup starting' \cup installers' \subseteq 1 .. runs'
      BY <1>0, <2>1 DEF InstallInv
    <2>5. \A a \in busy' : a \in abandoned' \/ (pc' = "run" /\ a = runs')
      BY <1>0, <2>1 DEF InstallInv
    <2>6. u \in abandoned \/ (pc = "run" /\ u = runs)
      BY <1>0, <2>1 DEF InstallInv
    <2>7. ASSUME job.action = "update"
          PROVE  /\ installed' = "new" <=> installers' # {}
                 /\ \A a \in installers' : a < runs' => a \in abandoned'
                 /\ pc' = "start" => installers' \subseteq abandoned'
      <3>1. /\ \A a \in installers : a < runs => a \in abandoned
            /\ pc = "start" => installers \subseteq abandoned
        BY <1>0, <2>7 DEF InstallInv
      <3>2. runs \in Nat
        BY <1>0, JobsAssumption DEF TypeOK
      <3>3. \A a \in installers' : a < runs' => a \in abandoned'
        BY <2>1, <2>6, <3>1, <3>2
      <3>4. pc' = "start" => installers' \subseteq abandoned'
        BY <2>1, <2>6, <3>1
      <3> QED BY <2>1, <2>7, <3>3, <3>4
    <2>8. InstallInv'
      <3>1. UNCHANGED job
        BY <2>1
      <3> QED BY <2>4, <2>5, <2>7, <3>1 DEF InstallInv
    <2> QED BY <2>2, <2>3, <2>8 DEF JobsInv
  <1>2. CASE UpdaterStops(u)
    <2>1. /\ busy' \subseteq busy /\ starting' \subseteq starting
          /\ UNCHANGED <<proc, faults, marker, installed, runs, installers, pc, memory, probes, spawned,
                         net, jobs, open, server, exit, abandoned>>
      BY <1>2 DEF UpdaterStops
    <2>2. TypeOK'
      BY <1>0, <2>1 DEF TypeOK
    <2>3. TruthType' /\ MarkerInv' /\ TellInv'
      BY <1>0, <2>1, RestartFrame
    <2>4. InstallInv'
      BY <1>0, <2>1 DEF InstallInv
    <2> QED BY <2>2, <2>3, <2>4 DEF JobsInv
  <1>3. CASE UpdaterRestartsAgent(u)
    <2>1. /\ starting' \subseteq starting /\ proc' = "down" /\ Forgotten /\ posts' = {} /\ answers' = {}
          /\ UNCHANGED <<faults, marker, installed, runs, busy, installers, net, jobs, open, server, exit>>
      BY <1>3 DEF UpdaterRestartsAgent, ProcessEnds
    <2>2. TruthType' /\ MarkerInv' /\ TellInv'
      BY <1>0, <2>1, RestartForgotten
    <2>3. InstallInv' /\ abandoned' \subseteq Runs
      BY <1>0, <2>1, ForgottenType, InstallAbandon
    <2>4. TypeOK'
      BY <1>0, <2>1, <2>3, ForgottenType DEF TypeOK, Summaries, Tasks
    <2> QED BY <2>2, <2>3, <2>4 DEF JobsInv
  <1> QED BY <1>1, <1>2, <1>3 DEF Updater
-----------------------------------------------------------------------------
\* Heartbeats tell what the loop has told them to.
LEMMA HeartbeatKeeps ==
    ASSUME JobsInv,
           \/ \E o \in Outcomes : TellFirmware(o)
           \/ SpawnHeartbeat
           \/ \E p \in Posts : Post(p)
    PROVE  JobsInv'
  <1>0. TypeOK /\ TruthType /\ MarkerInv /\ TellInv /\ InstallInv
    BY DEF JobsInv
  <1> USE DEF updaters, memory, probes, spawned, jobs, exit
  <1>r. /\ RestartForPayload \in {"succeeded", "none"}
        /\ RestartForPayload = "succeeded" => Back
    BY <1>0 DEF RestartForPayload, TellInv
  <1>1. ASSUME NEW o \in Outcomes, TellFirmware(o) PROVE JobsInv'
    <2>1. /\ pc = "tell" /\ pc' = "post" /\ PostHeartbeat(o, RestartForPayload, report)
          /\ UNCHANGED <<proc, faults, marker, updaters, memory, probes, spawned, net, jobs, open, exit,
                         abandoned>>
      BY <1>1 DEF TellFirmware
    <2>2. RestartForPayload \in Ended \cup {"none"} /\ report \in Ended \cup {"none"}
      BY <1>0, <1>r DEF TypeOK, Ended
    <2>3. /\ server' \in Servers
          /\ server.restart \in Ended => server'.restart = server.restart
          /\ server'.restart # server.restart => server'.restart = RestartForPayload
      BY <1>0, <2>1, <2>2, Hears
    <2>4. TypeOK'
      BY <1>0, <2>1, <2>3 DEF TypeOK, Servers
    <2>5. TruthType' /\ MarkerInv'
      BY <1>0, <2>1, <2>3 DEF TruthType, MarkerInv
    <2>6. TellInv'
      BY <1>0, <1>r, <2>1, <2>3 DEF TellInv, Back
    <2>7. InstallInv'
      BY <1>0, <2>1, InstallFrame
    <2> QED BY <2>4, <2>5, <2>6, <2>7 DEF JobsInv
  <1>2. ASSUME SpawnHeartbeat PROVE JobsInv'
    <2>1. /\ posts' = posts \cup ({HeartbeatPayload(RestartForPayload, report)} \ {Nothing})
          /\ pc = "post" /\ pc' = "sleep" /\ outcome' = "Missing" /\ report' = "none"
          /\ UNCHANGED <<proc, faults, marker, updaters, handled, terminal, probes, answers, net, jobs,
                         open, server, exit, abandoned>>
      BY <1>2 DEF SpawnHeartbeat
    <2>2. /\ posts' \subseteq [restart : {"succeeded", "none"}, firmware : Ended \cup {"none"}]
          /\ \A p \in posts' : p \in posts \/ p.restart = RestartForPayload
      BY <1>0, <1>r, <2>1 DEF TypeOK, HeartbeatPayload
    <2>3. TypeOK'
      BY <1>0, <2>1, <2>2 DEF TypeOK
    <2>4. TruthType' /\ MarkerInv'
      BY <1>0, <2>1 DEF TruthType, MarkerInv
    <2>5. TellInv'
      BY <1>0, <1>r, <2>1, <2>2 DEF TellInv, Back
    <2>6. InstallInv'
      BY <1>0, <2>1, InstallFrame
    <2> QED BY <2>3, <2>4, <2>5, <2>6 DEF JobsInv
  <1>3. ASSUME NEW p \in Posts, NEW o \in Outcomes, RetryHeartbeat(p, o) PROVE JobsInv'
    <2>1. /\ p \in posts /\ PostHeartbeat(o, p.restart, p.firmware) /\ posts' \subseteq posts
          /\ UNCHANGED <<proc, faults, marker, updaters, pc, memory, probes, answers, net, jobs, open,
                         exit, abandoned>>
      BY <1>3 DEF RetryHeartbeat
    <2>2. p.restart \in Ended \cup {"none"} /\ p.firmware \in Ended \cup {"none"}
      BY DEF Posts, Ended
    <2>3. /\ server' \in Servers
          /\ server.restart \in Ended => server'.restart = server.restart
          /\ server'.restart # server.restart => server'.restart = p.restart
      BY <1>0, <2>1, <2>2, Hears
    <2>4. TypeOK'
      BY <1>0, <2>1, <2>3 DEF TypeOK, Servers
    <2>5. TruthType' /\ MarkerInv'
      BY <1>0, <2>1, <2>3 DEF TruthType, MarkerInv
    <2>6. TellInv'
      BY <1>0, <2>1, <2>3 DEF TellInv, Back
    <2>7. InstallInv'
      BY <1>0, <2>1, InstallFrame
    <2> QED BY <2>4, <2>5, <2>6, <2>7 DEF JobsInv
  <1> QED BY <1>1, <1>2, <1>3 DEF Post

\* Crashes, replaced runtimes, starts, the server and the network.
LEMMA EnvironmentKeeps ==
    ASSUME JobsInv,
           \/ Crash \/ ReplaceRuntime \/ StartProcess \/ ServerDropsShutdown
           \/ \E n \in {"good", "bad"} : NetworkBecomes(n)
    PROVE  JobsInv'
  <1>0. TypeOK /\ TruthType /\ MarkerInv /\ TellInv /\ InstallInv
    BY DEF JobsInv
  <1> USE DEF updaters, memory, probes, spawned, jobs, exit
  <1>1. CASE Crash \/ ReplaceRuntime
    <2>1. /\ proc' = proc \/ proc' = "down"
          /\ faults < MaxFaults /\ faults' = faults + 1 /\ Forgotten
          /\ posts' \subseteq posts
          /\ UNCHANGED <<marker, updaters, net, jobs, open, server, exit>>
      BY <1>1 DEF Crash, ReplaceRuntime, ProcessEnds
    <2>2. answers' \subseteq ProbeJobs
      BY <1>0, <1>1 DEF Crash, ReplaceRuntime, ProcessEnds, TypeOK
    <2>3. faults' \in 0 .. MaxFaults
      BY <1>0, <2>1, JobsAssumption DEF TypeOK
    <2>4. TruthType' /\ MarkerInv' /\ TellInv'
      BY <1>0, <2>1, RestartForgotten
    <2>5. InstallInv' /\ abandoned' \subseteq Runs
      BY <1>0, <2>1, ForgottenType, InstallAbandon
    <2>6. TypeOK'
      BY <1>0, <2>1, <2>2, <2>3, <2>5, ForgottenType DEF TypeOK, Summaries, Tasks
    <2> QED BY <2>4, <2>5, <2>6 DEF JobsInv
  <1>2. CASE StartProcess
    <2>1. /\ proc' = "up" /\ born' = TRUE
          /\ UNCHANGED <<faults, marker, updaters, pc, memory, probes, spawned, net, jobs, open, server,
                         exits, abandoned>>
      BY <1>2 DEF StartProcess
    <2>2. TypeOK'
      BY <1>0, <2>1 DEF TypeOK
    <2>3. TruthType'
      BY <1>0, <2>1 DEF TruthType
    <2>4. MarkerInv'
      BY <1>0, <2>1 DEF MarkerInv
    <2>5. TellInv'
      BY <1>0, <2>1 DEF TellInv, Back
    <2>6. InstallInv'
      BY <1>0, <2>1, InstallFrame
    <2> QED BY <2>2, <2>3, <2>4, <2>5, <2>6 DEF JobsInv
  <1>3. CASE ServerDropsShutdown
    <2>1. /\ server' = [server EXCEPT !.shutdown = "none"]
          /\ UNCHANGED <<proc, faults, marker, updaters, pc, memory, probes, spawned, net, jobs, open, exit,
                         abandoned>>
      BY <1>3 DEF ServerDropsShutdown
    <2>2. TypeOK' /\ server'.restart = server.restart
      BY <1>0, <2>1 DEF TypeOK
    <2>3. InstallInv'
      BY <1>0, <2>1, InstallFrame
    <2> QED BY <1>0, <2>1, <2>2, <2>3, RestartFrame DEF JobsInv
  <1>4. ASSUME NEW n \in {"good", "bad"}, NetworkBecomes(n) PROVE JobsInv'
    <2>1. /\ net' = n
          /\ UNCHANGED <<proc, faults, marker, updaters, pc, memory, probes, spawned, jobs, open, server,
                         exit, abandoned>>
      BY <1>4 DEF NetworkBecomes
    <2>2. TypeOK'
      BY <1>0, <2>1 DEF TypeOK
    <2>3. InstallInv'
      BY <1>0, <2>1, InstallFrame
    <2> QED BY <1>0, <2>1, <2>2, <2>3, RestartFrame DEF JobsInv
  <1> QED BY <1>1, <1>2, <1>3, <1>4

\* Every step preserves the invariant.
LEMMA JobsStep == JobsInv /\ [Next]_vars => JobsInv'
  <1> SUFFICES ASSUME JobsInv, [Next]_vars PROVE JobsInv'
    OBVIOUS
  <1>1. CASE Turn
    BY <1>1, ProbesKeep, ReportMarkerKeeps, ShutdownKeeps, RestartRefusedKeeps, RestartKeeps,
       FirmwareKeeps, RunKeeps, HeartbeatKeeps DEF Turn
  <1>2. CASE UNCHANGED vars
    <2>1. UNCHANGED <<proc, faults, marker, updaters, pc, memory, probes, spawned, net, jobs, open, server,
                      exit, abandoned>>
      BY <1>2 DEF vars
    <2>2. TypeOK'
      BY <2>1 DEF JobsInv, TypeOK, updaters, memory, probes, spawned, jobs
    <2>3. InstallInv'
      BY <2>1, InstallFrame DEF JobsInv, jobs
    <2> QED BY <2>1, <2>2, <2>3, RestartFrame DEF JobsInv, memory, spawned, exit
  <1> QED BY <1>1, <1>2, ReportMarkerKeeps, RestartRefusedKeeps, ProbesKeep, HeartbeatKeeps, UpdatersKeep,
             EnvironmentKeeps
      DEF Next

\* In every reachable state the marker, the memories and the reports agree with
\* what has really happened to the process and its installation.
THEOREM JobsInvariance == Spec => []JobsInv
  BY JobsInit, JobsStep, PTL DEF Spec

\* RestartOnce, for any number of crashes and replaced runtimes and any lost
\* requests: a restart job makes the agent exit once.
THEOREM RestartsOnce == Spec => []RestartOnce
  <1>1. JobsInv => RestartOnce
    BY DEF JobsInv, TruthType, RestartOnce
  <1> QED BY <1>1, JobsInvariance, PTL

\* RestartTruthful: the server hears "succeeded" only after the agent is back.
THEOREM RestartAlwaysTruthful == Spec => []RestartTruthful
  <1>1. JobsInv => RestartTruthful
    BY DEF JobsInv, TellInv, Back, RestartTruthful
  <1> QED BY <1>1, JobsInvariance, PTL

\* UpdateOnce: of two updaters that do the update, the agent had stopped waiting for
\* the earlier one while it was at work.
THEOREM UpdatesOnce == Spec => []UpdateOnce
  <1>1. JobsInv => UpdateOnce
    <2> SUFFICES ASSUME JobsInv, job.action = "update", NEW a \in installers, NEW b \in installers, a < b
                 PROVE  a \in abandoned
      BY DEF UpdateOnce
    <2>1. a \in 1 .. runs /\ b \in 1 .. runs /\ runs \in Nat
      BY JobsAssumption DEF JobsInv, InstallInv, TypeOK
    <2>2. a < runs
      BY <2>1
    <2> QED BY <2>2 DEF JobsInv, InstallInv
  <1> QED BY <1>1, JobsInvariance, PTL
==============================================================================
