-------------------------- MODULE CameraSupervisor --------------------------
(***************************************************************************)
(* The task the agent keeps per camera (bin/agent_forward.rs):             *)
(* run_camera_supervisor_with_runner starts RTSP sessions                  *)
(* (run_camera_session) again and again, and an OfflineTracker decides     *)
(* when the camera is reported offline.                                    *)
(*                                                                         *)
(* Time passes in ticks.  The code compares instants with thresholds only, *)
(* so an instant is kept as its age, which stops growing at the threshold. *)
(* The second rule of the tracker (a burst of outages) counts in           *)
(* outage_starts, which only on_outage_recovered fills; that has no caller *)
(* outside the tests, the count stays 0, and retry_count is not 0.         *)
(***************************************************************************)
EXTENDS Integers

CONSTANTS
    OfflineTimeout,   \* CAMERA_OFFLINE_TIMEOUT_SECS
    StartupTimeout,   \* the 10 s a session waits for its first packet
    BackoffMax        \* the 30 s a retry waits at most

ASSUME TimesAssumption ==
    /\ OfflineTimeout \in Nat \ {0}      \* runtime_u64_nonzero
    /\ StartupTimeout \in Nat \ {0}
    /\ BackoffMax \in Nat \ {0}

VARIABLES
    up,          \* the camera answers requests and streams H.264
    pc,          \* where the task is
    timer,       \* ticks until the read in progress times out or the sleep ends
    backoff,
    outageAge,   \* of tracker.outage_started_at
    marked,      \* tracker.offline
    offline,     \* offline_state, set and cleared with a report to the server
    \* What really happened.
    silent,      \* ticks without a usable packet
    outage,      \* age of the outage: from a failure to the next packet
    recovered    \* some outage has ended

tracker == <<outageAge, marked>>
truth   == <<silent, outage, recovered>>
taskVars == <<up, pc, timer, backoff, tracker, offline, truth>>
-----------------------------------------------------------------------------
Never == -1   \* the age of what has not happened

Least(a, b) == IF a < b THEN a ELSE b

Ages   == 0 .. OfflineTimeout
Timers == 0 .. (OfflineTimeout + StartupTimeout + BackoffMax)

TaskTypeOK ==
    /\ up \in BOOLEAN
    /\ pc \in {"connect", "hung", "startup", "streaming", "sleep", "done"}
    /\ timer \in Timers
    /\ backoff \in 1 .. BackoffMax
    /\ outageAge \in Ages \cup {Never}
    /\ marked \in BOOLEAN
    /\ offline \in BOOLEAN
    /\ silent \in Ages
    /\ outage \in Ages \cup {Never}
    /\ recovered \in BOOLEAN

TaskInit ==
    /\ up \in BOOLEAN
    /\ pc = "connect"
    /\ timer = 0
    /\ backoff = 1
    /\ outageAge = Never
    /\ marked = FALSE
    /\ offline = FALSE
    /\ silent = 0
    /\ outage = Never
    /\ recovered = FALSE
-----------------------------------------------------------------------------
(***************************************************************************)
(* The environment.                                                        *)
(***************************************************************************)
Reading == pc \in {"startup", "streaming"}

Aged(a) == IF a = Never THEN Never ELSE Least(a + 1, OfflineTimeout)

\* A tick passes, unless a timer has run out.  A camera that is up sends a
\* packet before a read times out.
Tick ==
    /\ pc # "done"
    /\ Reading \/ pc = "sleep" => timer > 0
    /\ ~(up /\ Reading /\ timer = 1)
    /\ timer' = (IF timer > 0 THEN timer - 1 ELSE 0)
    /\ outageAge' = Aged(outageAge)
    /\ outage' = Aged(outage)
    /\ silent' = Aged(silent)
    /\ UNCHANGED <<up, pc, backoff, marked, offline, recovered>>

\* The cable is pulled or put back, the camera stops or starts.
Plug(b) ==
    /\ pc # "done"
    /\ up' = b
    /\ UNCHANGED <<pc, timer, backoff, tracker, offline, truth>>
-----------------------------------------------------------------------------
(***************************************************************************)
(* The error arm of the supervisor: on_outage_started, evaluate, the       *)
(* report and the sleep.                                                   *)
(***************************************************************************)
\* A fault to check against: the outage starts anew with every failure.
RestartedOutage == 0

OnOutageStarted == IF outageAge = Never THEN 0 ELSE outageAge

\* A fault to check against: off by one.
ContinuousEarly(a) == a + 1 >= OfflineTimeout

Continuous(a) == a >= OfflineTimeout

Fail ==
    /\ outageAge' = OnOutageStarted
    /\ marked' = (marked \/ Continuous(outageAge'))
    /\ offline' = (offline \/ (~marked /\ Continuous(outageAge')))
    /\ outage' = (IF outage = Never THEN 0 ELSE outage)
    /\ pc' = "sleep"
    /\ timer' = backoff
    /\ UNCHANGED <<up, backoff, silent, recovered>>

\* A fault to check against: the supervisor gives up once the delay has reached
\* its limit.
WakeGivesUp ==
    /\ pc = "sleep"
    /\ timer = 0
    /\ backoff < BackoffMax
    /\ pc' = "connect"
    /\ backoff' = Least(2 * backoff, BackoffMax)
    /\ UNCHANGED <<up, timer, tracker, offline, truth>>

\* The end of the sleep.
Wake ==
    /\ pc = "sleep"
    /\ timer = 0
    /\ pc' = "connect"
    /\ backoff' = Least(2 * backoff, BackoffMax)
    /\ UNCHANGED <<up, timer, tracker, offline, truth>>

\* AgentRuntime::stop cancels the token and aborts the task.
Stop ==
    /\ pc # "done"
    /\ pc' = "done"
    /\ UNCHANGED <<up, timer, backoff, tracker, offline, truth>>
-----------------------------------------------------------------------------
(***************************************************************************)
(* run_camera_session.                                                     *)
(***************************************************************************)
\* The TCP connection, OPTIONS, DESCRIBE, SETUP and PLAY.
Play ==
    /\ pc = "connect"
    /\ up
    /\ pc' = "startup"
    /\ timer' = StartupTimeout
    /\ UNCHANGED <<up, backoff, tracker, offline, truth>>

\* One of them is refused, or the connection breaks.
HandshakeFails ==
    /\ pc = "connect"
    /\ ~up
    /\ Fail

\* The camera goes away after it has acknowledged a request: the read of the
\* response has no timeout and nothing is left to be sent.
HandshakeHangs ==
    /\ pc = "connect"
    /\ ~up
    /\ pc' = "hung"
    /\ UNCHANGED <<up, timer, backoff, tracker, offline, truth>>

\* A packet that parses.  The first of the session clears offline_state and
\* reports the camera online; tracker is not told.
Rtp ==
    /\ Reading
    /\ up
    /\ pc' = "streaming"
    /\ timer' = OfflineTimeout
    /\ offline' = (IF pc = "startup" THEN FALSE ELSE offline)
    /\ silent' = 0
    /\ outage' = Never
    /\ recovered' = (recovered \/ outage # Never)
    /\ UNCHANGED <<up, backoff, tracker>>

\* RTCP, another channel or a packet that does not parse: the loop reads on,
\* with a fresh timeout.
OtherFrame ==
    /\ Reading
    /\ timer' = (IF pc = "startup" THEN StartupTimeout ELSE OfflineTimeout)
    /\ UNCHANGED <<up, pc, backoff, tracker, offline, truth>>

ReadFails ==
    /\ Reading
    /\ ~up
    /\ Fail

ReadTimesOut ==
    /\ Reading
    /\ timer = 0
    /\ Fail

TaskNext ==
    \/ Tick
    \/ \E b \in BOOLEAN : Plug(b)
    \/ Wake
    \/ Stop
    \/ Play
    \/ HandshakeFails
    \/ HandshakeHangs
    \/ Rtp
    \/ OtherFrame
    \/ ReadFails
    \/ ReadTimesOut

TaskSpec == TaskInit /\ [][TaskNext]_taskVars

\* Time passes and the runtime polls the task; a camera that stays up answers
\* and streams.
FairTaskSpec ==
    /\ TaskSpec
    /\ WF_taskVars(Tick)
    /\ WF_taskVars(Wake)
    /\ WF_taskVars(Play)
    /\ WF_taskVars(Rtp)
    /\ WF_taskVars(ReadTimesOut)
-----------------------------------------------------------------------------
(***************************************************************************)
(* Properties.                                                             *)
(***************************************************************************)

\* A camera whose packets are being forwarded is not reported offline, however
\* the failures of earlier sessions and its first packet followed each other.
StreamingIsOnline == pc = "streaming" => ~offline

\* Up to the first recovery the camera is reported offline only when no usable
\* packet has come for OfflineTimeout.
OfflineJustified == offline /\ ~recovered => silent = OfflineTimeout

\* In its first outage the camera is reported at the first failed attempt after
\* OfflineTimeout, although every attempt in between failed as well.
FirstOutageReported ==
    [][pc' = "sleep" /\ pc # "sleep" /\ ~recovered /\ outage = OfflineTimeout => offline']_taskVars

\* "Unplug/replug during active stream no longer requires agent restart": once
\* the camera stays up it is streaming again, whatever the state of the retries,
\* unless the task was stopped or hangs in a handshake.
Recovers == <>[]up => <>[](pc \in {"streaming", "hung", "done"})

(***************************************************************************)
(* What docs/live_streaming_tdd_camera_reconnect_offline.md says and the   *)
(* code does not do.                                                       *)
(***************************************************************************)

\* "Offline transition is emitted once per offline episode": every outage of
\* OfflineTimeout is reported at the next failed attempt.
EveryOutageReported ==
    [][pc' = "sleep" /\ pc # "sleep" /\ outage = OfflineTimeout => offline']_taskVars

\* "Unplug/replug during active stream no longer requires agent restart."
Resumes == <>[](up /\ pc # "done") => <>[](pc = "streaming")
=============================================================================
