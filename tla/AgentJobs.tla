----------------------------- MODULE AgentJobs ------------------------------
(***************************************************************************)
(* The heartbeat loop of server_client.rs and the jobs it fetches: restart *)
(* (with its marker file), shutdown, firmware and ONVIF probes, over       *)
(* crashes of the process, runtimes that are replaced, and requests that   *)
(* fail before or after the server has seen them.                          *)
(*                                                                         *)
(* The server has any of probe jobs, a restart, a shutdown and a firmware  *)
(* job, and hands out each until it knows how it ended.  Payloads are what *)
(* they say about jobs; telemetry and camera status are left out.          *)
(***************************************************************************)
EXTENDS Integers, FiniteSets

CONSTANTS
    Workloads,      \* the kinds of job that the server may have together
    ProbeJobs,      \* probe jobs of the server
    Cameras,
    Probeable,      \* those with an ONVIF configuration
    CamOf,          \* the camera of each probe job
    Firmware,       \* what a firmware job may ask for: [action, starts]
    MaxRuns,        \* bound on the updaters started
    MaxFaults       \* bound on crashes, replaced runtimes and failed reads of the marker

ASSUME JobsAssumption ==
    /\ Workloads \subseteq SUBSET {"probe", "restart", "shutdown", "firmware"}
    /\ Probeable \subseteq Cameras
    /\ CamOf \in [ProbeJobs -> Cameras]
    /\ Firmware \subseteq [action : {"update", "rollback"}, starts : BOOLEAN]
    /\ MaxRuns \in Nat
    /\ MaxFaults \in Nat

VARIABLES
    \* The machine.
    proc,       \* "up", "down": to be started again, "stopped": by a shutdown job
    faults,
    marker,     \* the restart marker exists
    installed,  \* "old" or "new"; a rollback goes back to "old"
    runs,       \* updaters started so far, numbered from 1
    busy,       \* those at work
    starting,   \* those that have installed and are about to restart the agent
    \* The heartbeat task.
    pc,
    report,     \* the state of the firmware job to be told
    outcome,    \* RestartMarkerReportOutcome of this turn
    handled,    \* jobs in its memories: "restart", "shutdown"
    terminal,   \* last_terminal_state of the firmware job
    flying,     \* in_flight
    summary,    \* what the probe of each camera is said to do
    task,       \* the probe of each job, as far as this manager knows it
    \* Tasks of their own.
    posts,      \* heartbeats in the hands of retry_forever
    answers,    \* probe jobs whose report is, or will be, in the hands of retry_forever
    \* The server.
    net,        \* "good": requests get through
    job,        \* the firmware job
    open,       \* probe jobs still handed out
    server,     \* the status of each job
    tracks,     \* it moves a restart job on when told "restarting"
    \* What really happened.
    exits,      \* exits for the restart job
    born,       \* the process was started after the last of them
    installers, \* updaters that have done their work
    abandoned   \* updaters that were at work when the agent stopped waiting for them

updaters == <<installed, runs, busy, starting, installers>>
memory   == <<report, outcome, handled, terminal>>
probes   == <<flying, summary, task>>
spawned  == <<posts, answers>>
jobs     == <<job, tracks>>
exit     == <<exits, born>>
vars     == <<proc, faults, marker, updaters, pc, memory, probes, spawned, net, jobs, open, server,
              exit, abandoned>>

Ended == {"succeeded", "failed"}
Runs  == 1 .. MaxRuns
NoJob == [action |-> "none", starts |-> FALSE]

TypeOK ==
    /\ proc \in {"up", "down", "stopped"}
    /\ faults \in 0 .. MaxFaults
    /\ marker \in BOOLEAN
    /\ installed \in {"old", "new"}
    /\ runs \in 0 .. MaxRuns
    /\ busy \subseteq Runs /\ starting \subseteq Runs
    /\ pc \in {"sleep", "marker", "shutdown", "restart", "mark", "firmware", "start", "run", "tell", "post"}
    /\ report \in Ended \cup {"none"}
    /\ outcome \in {"Missing", "Pending", "Reported"}
    /\ handled \subseteq {"restart", "shutdown"}
    /\ terminal \in Ended \cup {"none"}
    /\ posts \subseteq [restart : {"succeeded", "none"}, firmware : Ended \cup {"none"}]
    /\ flying \subseteq Probeable
    /\ summary \in [Cameras -> {"never", "running", "succeeded", "failed"}]
    /\ task \in [ProbeJobs -> {"none", "probing", "finished"}]
    /\ answers \subseteq ProbeJobs
    /\ net \in {"good", "bad"}
    /\ job \in Firmware \cup {NoJob}
    /\ open \subseteq ProbeJobs
    /\ server \in [restart : {"none", "pending", "restarting"} \cup Ended,
                   shutdown : {"none", "pending"}, firmware : {"none", "pending"} \cup Ended]
    /\ tracks \in BOOLEAN
    /\ installers \subseteq Runs /\ abandoned \subseteq Runs

\* An updater is a process of its own and nothing ends it when nobody waits for
\* it any more.
Abandon == abandoned' = IF pc = "run" THEN abandoned \cup (busy \cap {runs}) ELSE abandoned

\* What a heartbeat task knows when it starts, in place of one that has ended
\* wherever it was.
Forgotten ==
    /\ pc' = "sleep"
    /\ report' = "none" /\ outcome' = "Missing"
    /\ handled' = {} /\ terminal' = "none"
    /\ flying' = {}
    /\ summary' = [c \in Cameras |-> "never"]
    /\ task' = [j \in ProbeJobs |-> "none"]
    /\ Abandon

\* The end of the process ends the tasks it has spawned.
ProcessEnds == Forgotten /\ posts' = {} /\ answers' = {}

Init ==
    /\ proc = "up" /\ faults = 0 /\ marker = FALSE /\ installed = "old"
    /\ runs = 0 /\ busy = {} /\ starting = {}
    /\ pc = "sleep" /\ report = "none" /\ outcome = "Missing"
    /\ handled = {} /\ terminal = "none" /\ posts = {} /\ answers = {}
    /\ flying = {} /\ summary = [c \in Cameras |-> "never"]
    /\ task = [j \in ProbeJobs |-> "none"]
    /\ net \in {"good", "bad"}
    /\ \E w \in Workloads :
        /\ open = IF "probe" \in w THEN ProbeJobs ELSE {}
        /\ server = [k \in {"restart", "shutdown", "firmware"} |-> IF k \in w THEN "pending" ELSE "none"]
        /\ job \in IF "firmware" \in w THEN Firmware ELSE {NoJob}
        /\ tracks \in IF "restart" \in w THEN BOOLEAN ELSE {FALSE}
    /\ exits = 0 /\ born = FALSE /\ installers = {} /\ abandoned = {}
-----------------------------------------------------------------------------
(***************************************************************************)
(* Requests.  On a bad network they may fail, seen by the server or not.   *)
(***************************************************************************)
Outcomes == IF net = "good" THEN {"ok"} ELSE {"ok", "lost", "unacked"}

\* post_heartbeat: what the server knows once it has the states r and f.
Heard(r, f) ==
    [server EXCEPT
        !.restart  = IF @ \in Ended \/ r = "none" \/ (r = "restarting" /\ ~tracks) THEN @ ELSE r,
        !.firmware = IF @ \in Ended \/ f = "none" THEN @ ELSE f]

PostHeartbeat(o, r, f) ==
    server' = IF o = "lost" THEN server ELSE Heard(r, f)

\* A job is handed out, or the request for it fails.
Fetched(o, kind) == o = "ok" /\ server[kind] \in {"pending", "restarting"}

FetchShutdownJobCommand(o) == Fetched(o, "shutdown")
FetchRestartJobCommand(o)  == Fetched(o, "restart") /\ server.restart = "pending"
FetchFirmwareJobCommand(o) == Fetched(o, "firmware")

\* fetch_onvif_probe_job_command: what the server may hand out, a job that is
\* being done included.
FetchOnvifProbeJobCommand == open

\* The memories of the task: RestartJobMemory and ShutdownJobMemory, and
\* FirmwareJobMemory with duplicate_terminal_state.
IsHandled(kind) == kind \in handled
MarkHandled(kind) == handled \cup {kind}
DuplicateTerminalState == terminal # "none"

\* build_agent_heartbeat_payload, as far as it speaks of jobs.
HeartbeatPayload(r, f) == [restart |-> r, firmware |-> f]

\* restart_for_payload: what this turn has told of the restart is told again.
RestartForPayload == IF outcome = "Reported" THEN "succeeded" ELSE "none"
-----------------------------------------------------------------------------
(***************************************************************************)
(* Probes: OnvifProbeManager.                                              *)
(***************************************************************************)

SetRunning(c) == summary' = [summary EXCEPT ![c] = "running"]
SetFinished(c, status) == summary' = [summary EXCEPT ![c] = status]

\* fail_job_immediately: a task is left to report it.
FailJobImmediately(j) ==
    /\ SetFinished(CamOf[j], "failed")
    /\ answers' = answers \cup {j}
    /\ UNCHANGED <<flying, task>>

\* poll_for_jobs: a job for a camera that cannot be probed, or that is being
\* probed, perhaps for this very job, is answered at once with "failed".
PollForJobs(j) ==
    /\ pc = "sleep" /\ proc = "up"
    /\ j \in FetchOnvifProbeJobCommand
    /\ \/ /\ CamOf[j] \in Probeable \ flying
          /\ flying' = flying \cup {CamOf[j]}
          /\ SetRunning(CamOf[j])
          /\ task' = [task EXCEPT ![j] = "probing"]
          /\ UNCHANGED answers
       \/ /\ CamOf[j] \notin Probeable \ flying
          /\ FailJobImmediately(j)
    /\ pc' = "marker"
    /\ UNCHANGED <<proc, faults, marker, updaters, memory, posts, net, jobs, open, server, exit, abandoned>>

\* No probe job, or no answer.
PollNothing ==
    /\ pc = "sleep" /\ proc = "up"
    /\ net = "bad" \/ FetchOnvifProbeJobCommand = {}
    /\ pc' = "marker"
    /\ UNCHANGED <<proc, faults, marker, updaters, memory, probes, spawned, net, jobs, open, server, exit,
                   abandoned>>

\* execute_probe_job: the camera has answered or not; then the camera is free
\* for another probe, and then the report is posted.
ProbeFinished(j, status) ==
    /\ task[j] = "probing"
    /\ task' = [task EXCEPT ![j] = "finished"]
    /\ SetFinished(CamOf[j], status)
    /\ UNCHANGED <<proc, faults, marker, updaters, pc, memory, flying, spawned, net, jobs, open, server,
                   exit, abandoned>>

ReleaseInFlight(j) ==
    /\ task[j] = "finished"
    /\ task' = [task EXCEPT ![j] = "none"]
    /\ flying' = flying \ {CamOf[j]}
    /\ answers' = answers \cup {j}
    /\ UNCHANGED <<proc, faults, marker, updaters, pc, memory, summary, posts, net, jobs, open, server,
                   exit, abandoned>>

\* post_onvif_probe_report under retry_forever.
PostProbeReport(j, o) ==
    /\ j \in answers
    /\ answers' = IF o = "ok" THEN answers \ {j} ELSE answers
    /\ open' = IF o = "lost" THEN open ELSE open \ {j}
    /\ UNCHANGED <<proc, faults, marker, updaters, pc, memory, probes, posts, net, jobs, server, exit,
                   abandoned>>
-----------------------------------------------------------------------------
(***************************************************************************)
(* The loop.                                                               *)
(***************************************************************************)

\* maybe_report_restart_completion_marker: the marker goes when its report has
\* been acknowledged, if it can be removed; an error leaves it.  The file is
\* renamed into place whole, so what it says can be parsed.
ReportMarker(o, removed) ==
    /\ pc = "marker" /\ proc = "up"
    /\ IF ~marker
       THEN /\ outcome' = "Missing"
            /\ UNCHANGED <<marker, handled, server>>
       ELSE /\ PostHeartbeat(o, "succeeded", "none")
            /\ marker' = ~(o = "ok" /\ removed)
            /\ outcome' = IF o = "ok" THEN "Reported" ELSE "Pending"
            /\ handled' = IF o = "ok" THEN MarkHandled("restart") ELSE handled
    /\ pc' = "shutdown"
    /\ UNCHANGED <<proc, faults, updaters, report, terminal, probes, spawned, net, jobs, open, exit,
                   abandoned>>

\* The marker is there and cannot be read.
MarkerUnreadable ==
    /\ pc = "marker" /\ proc = "up"
    /\ marker /\ faults < MaxFaults
    /\ faults' = faults + 1
    /\ outcome' = "Pending"
    /\ pc' = "shutdown"
    /\ UNCHANGED <<proc, marker, updaters, report, handled, terminal, probes, spawned, net, jobs, open,
                   server, exit, abandoned>>

\* A fault to check against: restart jobs are looked at even when the
\* marker could not be reported.
SkipShutdownAnyway(o) ==
    /\ pc = "shutdown" /\ proc = "up"
    /\ ~FetchShutdownJobCommand(o) \/ IsHandled("shutdown")
    /\ pc' = "restart"
    /\ UNCHANGED <<proc, faults, marker, updaters, memory, probes, spawned, net, jobs, open, server, exit,
                   abandoned>>

\* maybe_process_shutdown_job.  Restart jobs are left alone in a turn that could
\* not report the marker.
SkipShutdown(o) ==
    /\ pc = "shutdown" /\ proc = "up"
    /\ ~FetchShutdownJobCommand(o) \/ IsHandled("shutdown")
    /\ pc' = IF outcome = "Pending" THEN "firmware" ELSE "restart"
    /\ UNCHANGED <<proc, faults, marker, updaters, memory, probes, spawned, net, jobs, open, server, exit,
                   abandoned>>

\* A last heartbeat and exit(0).
ShutdownJob(o) ==
    /\ pc = "shutdown" /\ proc = "up"
    /\ FetchShutdownJobCommand("ok") /\ ~IsHandled("shutdown")
    /\ PostHeartbeat(o, RestartForPayload, "none")
    /\ proc' = "stopped"
    /\ ProcessEnds
    /\ UNCHANGED <<faults, marker, updaters, net, jobs, open, exit>>

\* process_restart_job_command: nothing to do, or "restarting" was not
\* acknowledged.
SkipRestart(o) ==
    /\ pc = "restart" /\ proc = "up"
    /\ \/ /\ ~FetchRestartJobCommand(o) \/ IsHandled("restart")
          /\ UNCHANGED server
       \/ /\ FetchRestartJobCommand("ok") /\ ~IsHandled("restart")
          /\ o # "ok"
          /\ PostHeartbeat(o, "restarting", "none")
    /\ pc' = "firmware"
    /\ UNCHANGED <<proc, faults, marker, updaters, memory, probes, spawned, net, jobs, open, exit,
                   abandoned>>

RestartAccepted ==
    /\ pc = "restart" /\ proc = "up"
    /\ FetchRestartJobCommand("ok") /\ ~IsHandled("restart")
    /\ PostHeartbeat("ok", "restarting", "none")
    /\ pc' = "mark"
    /\ UNCHANGED <<proc, faults, marker, updaters, memory, probes, spawned, net, jobs, open, exit,
                   abandoned>>

\* write_restart_job_marker: a temporary file, synced and renamed.
WriteRestartJobMarker == marker' = TRUE

\* A fault to check against: the exit is left to the end of the turn, which
\* forgets it.
RestartExitLater ==
    /\ pc = "mark" /\ proc = "up"
    /\ WriteRestartJobMarker
    /\ pc' = "firmware"
    /\ UNCHANGED <<proc, faults, updaters, memory, probes, spawned, net, jobs, open, server, exit, abandoned>>

\* The marker is written and the process exits with 75.
RestartExit ==
    /\ pc = "mark" /\ proc = "up"
    /\ WriteRestartJobMarker
    /\ proc' = "down"
    /\ ProcessEnds
    /\ exits' = exits + 1
    /\ born' = FALSE
    /\ UNCHANGED <<faults, updaters, net, jobs, open, server>>

\* The marker cannot be written: the job has failed, and is not tried again by
\* this task if the server knows.
MarkerFails(o) ==
    /\ pc = "mark" /\ proc = "up"
    /\ PostHeartbeat(o, "failed", "none")
    /\ handled' = IF o = "ok" THEN MarkHandled("restart") ELSE handled
    /\ pc' = "firmware"
    /\ UNCHANGED <<proc, faults, marker, updaters, report, outcome, terminal, probes, spawned, net, jobs,
                   open, exit, abandoned>>

\* A fault to check against: the installed version is not looked at.
NeverInstalled == FALSE

\* firmware_versions_match.
AlreadyInstalled == job.action = "update" /\ installed = "new"

\* maybe_process_firmware_job: no job; one whose end this task remembers; an
\* update that is installed already; or one to run, which is told in two or three
\* heartbeats before the updater is started.
FirmwareJob(o) ==
    /\ pc = "firmware" /\ proc = "up"
    /\ \/ /\ ~FetchFirmwareJobCommand(o)
          /\ pc' = "post" /\ report' = "none" /\ UNCHANGED terminal
       \/ /\ FetchFirmwareJobCommand(o) /\ DuplicateTerminalState
          /\ pc' = "tell" /\ report' = terminal /\ UNCHANGED terminal
       \/ /\ FetchFirmwareJobCommand(o) /\ ~DuplicateTerminalState /\ AlreadyInstalled
          /\ pc' = "tell" /\ report' = "succeeded" /\ terminal' = "succeeded"
       \/ /\ FetchFirmwareJobCommand(o) /\ ~DuplicateTerminalState /\ ~AlreadyInstalled
          /\ pc' = "start" /\ report' = "none" /\ UNCHANGED terminal
    /\ UNCHANGED <<proc, faults, marker, updaters, outcome, handled, probes, spawned, net, jobs, open,
                   server, exit, abandoned>>

\* The end of the job as far as this task is concerned: it is remembered, and told.
RememberTerminalState(status) ==
    /\ report' = status
    /\ terminal' = status
    /\ pc' = "tell"
    /\ UNCHANGED <<outcome, handled>>

\* execute_firmware_job: the updater is started, and waited for.
StartUpdater ==
    /\ pc = "start" /\ proc = "up"
    /\ runs < MaxRuns
    /\ runs' = runs + 1
    /\ busy' = busy \cup {runs + 1}
    /\ pc' = "run"
    /\ UNCHANGED <<proc, faults, marker, installed, starting, installers, memory, probes, spawned, net,
                   jobs, open, server, exit, abandoned>>

\* It is not there, or cannot be executed.
UpdaterMissing ==
    /\ pc = "start" /\ proc = "up"
    /\ RememberTerminalState("failed")
    /\ UNCHANGED <<proc, faults, marker, updaters, probes, spawned, net, jobs, open, server, exit,
                   abandoned>>

\* The updater has ended, successfully only if it has done its work.
UpdaterEnded(status) ==
    /\ pc = "run" /\ proc = "up"
    /\ runs \notin busy \cup starting
    /\ status = "succeeded" => runs \in installers
    /\ RememberTerminalState(status)
    /\ UNCHANGED <<proc, faults, marker, updaters, probes, spawned, net, jobs, open, server, exit,
                   abandoned>>

\* A fault to check against: the updater is waited for without a time limit.
UpdaterNeverTimesOut == FALSE

\* After 120 s the job has failed and the updater is left to itself.
UpdaterTimesOut ==
    /\ pc = "run" /\ proc = "up"
    /\ runs \in busy \cup starting
    /\ RememberTerminalState("failed")
    /\ Abandon
    /\ UNCHANGED <<proc, faults, marker, updaters, probes, spawned, net, jobs, open, server, exit>>

\* The report of the end of a firmware job.
TellFirmware(o) ==
    /\ pc = "tell" /\ proc = "up"
    /\ PostHeartbeat(o, RestartForPayload, report)
    /\ pc' = "post"
    /\ UNCHANGED <<proc, faults, marker, updaters, memory, probes, spawned, net, jobs, open, exit,
                   abandoned>>

\* A heartbeat without news; when it arrives makes no difference.
Nothing == HeartbeatPayload("none", "none")

\* The heartbeat of this turn is left to a task of its own.
SpawnHeartbeat ==
    /\ pc = "post" /\ proc = "up"
    /\ posts' = posts \cup ({HeartbeatPayload(RestartForPayload, report)} \ {Nothing})
    /\ pc' = "sleep"
    /\ outcome' = "Missing"
    /\ report' = "none"
    /\ UNCHANGED <<proc, faults, marker, updaters, handled, terminal, probes, answers, net, jobs, open,
                   server, exit, abandoned>>

\* retry_forever.
RetryHeartbeat(p, o) ==
    /\ p \in posts
    /\ PostHeartbeat(o, p.restart, p.firmware)
    /\ posts' = IF o = "ok" THEN posts \ {p} ELSE posts
    /\ UNCHANGED <<proc, faults, marker, updaters, pc, memory, probes, answers, net, jobs, open, exit,
                   abandoned>>

Turn ==
    \/ \E j \in ProbeJobs : PollForJobs(j)
    \/ PollNothing
    \/ \E o \in Outcomes :
        SkipShutdown(o) \/ SkipRestart(o) \/ FirmwareJob(o) \/ TellFirmware(o)
    \/ \E o \in Outcomes, removed \in BOOLEAN : ReportMarker(o, removed)
    \/ \E o \in Outcomes : ShutdownJob(o)
    \/ RestartAccepted
    \/ RestartExit
    \/ StartUpdater
    \/ UpdaterMissing
    \/ \E status \in Ended : UpdaterEnded(status)
    \/ UpdaterTimesOut
    \/ SpawnHeartbeat

Probe(j) == (\E s \in Ended : ProbeFinished(j, s)) \/ ReleaseInFlight(j)

Answer(j) == \E o \in Outcomes : PostProbeReport(j, o)

Post(p) == \E o \in Outcomes : RetryHeartbeat(p, o)
-----------------------------------------------------------------------------
(***************************************************************************)
(* The updaters.                                                           *)
(***************************************************************************)

\* One does its work; with --start it goes on to restart the agent.
Install(u) ==
    /\ u \in busy
    /\ busy' = busy \ {u}
    /\ installed' = IF job.action = "update" THEN "new" ELSE "old"
    /\ installers' = installers \cup {u}
    /\ starting' = IF job.starts THEN starting \cup {u} ELSE starting
    /\ UNCHANGED <<proc, faults, marker, runs, pc, memory, probes, spawned, net, jobs, open, server, exit,
                   abandoned>>

\* One ends before it has done all of it.
UpdaterStops(u) ==
    /\ u \in busy \cup starting
    /\ busy' = busy \ {u}
    /\ starting' = starting \ {u}
    /\ UNCHANGED <<proc, faults, marker, installed, runs, installers, pc, memory, probes, spawned, net,
                   jobs, open, server, exit, abandoned>>

\* One stops the agent, whatever it is doing, and has it started again.
UpdaterRestartsAgent(u) ==
    /\ u \in starting
    /\ starting' = starting \ {u}
    /\ proc' = "down"
    /\ ProcessEnds
    /\ UNCHANGED <<faults, marker, installed, runs, busy, installers, net, jobs, open, server, exit>>

Updater(u) == Install(u) \/ UpdaterStops(u) \/ UpdaterRestartsAgent(u)
-----------------------------------------------------------------------------
(***************************************************************************)
(* The machine, the runtime and the server.                                *)
(***************************************************************************)
Crash ==
    /\ proc = "up" /\ faults < MaxFaults
    /\ faults' = faults + 1
    /\ proc' = "down"
    /\ ProcessEnds
    /\ UNCHANGED <<marker, updaters, net, jobs, open, server, exit>>

\* AgentRuntime::stop aborts the heartbeat task where it waits, and a new runtime
\* starts one that remembers nothing; what was spawned goes on.  A request that is
\* cut off is one that was not acknowledged; between the acknowledgement of
\* "restarting" and the exit the task does not wait.
ReplaceRuntime ==
    /\ proc = "up" /\ pc # "mark" /\ faults < MaxFaults
    /\ faults' = faults + 1
    /\ Forgotten
    /\ answers' = answers \cup {j \in ProbeJobs : task[j] # "none"}
    /\ UNCHANGED <<proc, marker, updaters, posts, net, jobs, open, server, exit>>

\* By the service manager, or by hand after a shutdown.
StartProcess ==
    /\ proc \in {"down", "stopped"}
    /\ proc' = "up"
    /\ born' = TRUE
    /\ UNCHANGED <<faults, marker, updaters, pc, memory, probes, spawned, net, jobs, open, server, exits,
                   abandoned>>

\* The shutdown job is taken back, or counts as done.
ServerDropsShutdown ==
    /\ server.shutdown = "pending"
    /\ server' = [server EXCEPT !.shutdown = "none"]
    /\ UNCHANGED <<proc, faults, marker, updaters, pc, memory, probes, spawned, net, jobs, open, exit,
                   abandoned>>

NetworkBecomes(n) ==
    /\ net # n
    /\ net' = n
    /\ UNCHANGED <<proc, faults, marker, updaters, pc, memory, probes, spawned, jobs, open, server, exit,
                   abandoned>>

Posts == [restart : {"succeeded", "none"}, firmware : Ended \cup {"none"}]

Next ==
    \/ Turn
    \/ MarkerUnreadable
    \/ \E o \in Outcomes : MarkerFails(o)
    \/ \E j \in ProbeJobs : Probe(j) \/ Answer(j)
    \/ \E p \in Posts : Post(p)
    \/ \E u \in Runs : Updater(u)
    \/ Crash
    \/ ReplaceRuntime
    \/ StartProcess
    \/ ServerDropsShutdown
    \/ \E n \in {"good", "bad"} : NetworkBecomes(n)

Spec == Init /\ [][Next]_vars

\* Tasks are polled, requests and the wait for an updater have a timeout, a process
\* that exits with an error is started again, and a marker can be written in the
\* end.
FairSpec ==
    /\ Spec
    /\ WF_vars(Turn)
    /\ WF_vars(StartProcess)
    /\ \A j \in ProbeJobs : WF_vars(Probe(j)) /\ WF_vars(Answer(j))
    /\ \A p \in Posts : WF_vars(Post(p))
-----------------------------------------------------------------------------
(***************************************************************************)
(* Properties.                                                             *)
(***************************************************************************)

\* A restart job makes the agent exit once, whatever is lost, whatever the server
\* hands out again, whenever the process dies or the runtime is replaced, and
\* although the marker may be impossible to read or to remove.
RestartOnce == exits <= 1

\* "succeeded" is told to the server only after the agent has really come back.
RestartTruthful == server.restart = "succeeded" => exits > 0 /\ born

\* An update may be done twice only by an updater that the agent had stopped
\* waiting for: of two that do it, the earlier was at work when its time ran out,
\* the process died or the runtime was replaced.
UpdateOnce ==
    job.action = "update" => \A a, b \in installers : a < b => a \in abandoned

\* Nothing disturbs the agent any more.
Calm == <>[](net = "good" /\ proc = "up")

\* Once the network works and the process stays up, the restart job does not stay
\* unanswered, and has an end if the agent has exited for it; the firmware job ends
\* and every probe job is reported.
JobsEnd ==
    Calm => <>[](/\ exits > 0 => server.restart \in Ended
                 /\ server.restart # "pending"
                 /\ server.firmware # "pending"
                 /\ open = {})
=============================================================================
