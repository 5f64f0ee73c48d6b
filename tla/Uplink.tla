------------------------------- MODULE Uplink -------------------------------
(***************************************************************************)
(* The agent's connection to the server, Uplink of agent_uplink.rs: camera *)
(* and motion tasks put messages into two queues, one task connects,       *)
(* introduces itself, writes the messages as records and connects again.   *)
(*                                                                         *)
(* A message is its number among those of its kind; RTP and GAP share a    *)
(* queue and are not told apart, nor are the streams.  The server's side   *)
(* of the connection is external.  Counters and log lines are left out.    *)
(***************************************************************************)
EXTENDS Integers, Sequences

CONSTANTS
    MediaCap,       \* capacity of the media channel
    BackoffMax,     \* the 30 s between two attempts
    PingIntervals,  \* what the server may ask for in HELLO_OK
    MaxMedia,       \* bounds on the messages of a behaviour
    MaxMotion

ASSUME UplinkAssumption ==
    /\ MediaCap \in Nat \ {0}
    /\ BackoffMax \in Nat \ {0}
    /\ PingIntervals \subseteq Nat
    /\ MaxMedia \in Nat
    /\ MaxMotion \in Nat

VARIABLES
    pc,
    backoff,
    stop,       \* the token shutdown() cancels
    media,      \* media_rx
    motion,     \* motion_rx
    hand,       \* the record being written
    inbox,      \* the record the read task has passed on
    sets,       \* parameter sets are known
    hello,      \* the HELLO of this connection carried them
    \* The other end.
    server,     \* "mute": it holds connections but does not read or answer
    alive,      \* it still knows this connection
    \* What really happened.
    made,       \* messages of each kind handed over by their tasks
    sent,       \* messages written, in order
    unread,     \* motion messages written to this connection, not yet read there
    received,   \* motion messages the server has read
    lost,       \* motion messages that went with a connection
    refused     \* motion messages that found the queue closed

queues == <<media, motion>>
link   == <<hand, inbox, hello, alive>>
fate   == <<unread, lost>>
rest   == <<made, sent, received, refused>>
truth  == <<fate, rest>>
vars   == <<pc, backoff, stop, queues, link, sets, server, truth>>
-----------------------------------------------------------------------------
Message(kind, n) == [kind |-> kind, n |-> n]
Idle == Message("none", 0)

PCs == {"connect", "tls", "hung", "hello", "session", "write", "sleep", "pause", "done"}

\* The delays between attempts.
Least(a, b) == IF a < b THEN a ELSE b

TypeOK ==
    /\ pc \in PCs
    /\ backoff \in 1 .. BackoffMax
    /\ stop \in BOOLEAN
    /\ media \in Seq(1 .. MaxMedia)
    /\ Len(media) <= MediaCap
    /\ motion \in Seq(1 .. MaxMotion)
    /\ hand \in [kind : {"none", "media", "motion", "ping", "echo"}, n : Nat]
    /\ inbox \in {"none", "ping", "close", "failure"}
    /\ sets \in BOOLEAN
    /\ hello \in BOOLEAN
    /\ server \in {"up", "rejects", "mute", "down"}
    /\ alive \in BOOLEAN
    /\ made \in [media : 0 .. MaxMedia, motion : 0 .. MaxMotion]
    /\ sent \in Seq([kind : {"media", "motion"}, n : Nat])
    /\ unread \subseteq 1 .. MaxMotion
    /\ received \subseteq 1 .. MaxMotion
    /\ lost \subseteq 1 .. MaxMotion
    /\ refused \subseteq 1 .. MaxMotion

Init ==
    /\ pc = "connect" /\ backoff = 1 /\ stop = FALSE
    /\ media = <<>> /\ motion = <<>>
    /\ hand = Idle /\ inbox = "none" /\ hello = FALSE /\ alive = FALSE
    /\ sets \in BOOLEAN
    /\ server \in {"up", "down"}
    /\ made = [media |-> 0, motion |-> 0]
    /\ sent = <<>> /\ unread = {} /\ received = {} /\ lost = {} /\ refused = {}
-----------------------------------------------------------------------------
(***************************************************************************)
(* The tasks that use the uplink.                                          *)
(***************************************************************************)

\* send_rtp and send_gap: try_send drops the message when the channel is full
\* or closed.
SendMedia ==
    /\ made.media < MaxMedia
    /\ made' = [made EXCEPT !.media = @ + 1]
    /\ media' = IF Len(media) < MediaCap /\ pc # "done"
                THEN Append(media, made.media + 1) ELSE media
    /\ UNCHANGED <<pc, backoff, stop, motion, link, sets, server, sent, fate, received, refused>>

\* send_motion: the channel has no bound.
SendMotion ==
    /\ made.motion < MaxMotion
    /\ made' = [made EXCEPT !.motion = @ + 1]
    /\ IF pc = "done"
       THEN refused' = refused \cup {made.motion + 1} /\ UNCHANGED motion
       ELSE motion' = Append(motion, made.motion + 1) /\ UNCHANGED refused
    /\ UNCHANGED <<pc, backoff, stop, media, link, sets, server, sent, fate, received>>

\* set_stream_h264_parameter_sets.
SetParameterSets ==
    /\ ~sets
    /\ sets' = TRUE
    /\ UNCHANGED <<pc, backoff, stop, queues, link, server, truth>>

Shutdown ==
    /\ ~stop
    /\ stop' = TRUE
    /\ UNCHANGED <<pc, backoff, queues, link, sets, server, truth>>

(***************************************************************************)
(* The server.                                                             *)
(***************************************************************************)

\* Connections do not survive a server that goes down; they may be cut at any
\* other moment.
ServerBecomes(s, cut) ==
    /\ server' = s
    /\ alive' = (alive /\ s # "down" /\ ~cut)
    /\ UNCHANGED <<pc, backoff, stop, queues, hand, inbox, hello, sets, truth>>

ServerSends(r) ==
    /\ pc = "session" /\ alive /\ server = "up"
    /\ inbox = "none"
    /\ inbox' = r
    /\ UNCHANGED <<pc, backoff, stop, queues, hand, hello, alive, sets, server, truth>>

\* It reads what was written, up to the motion message n.
ServerReads(n) ==
    /\ alive /\ server \in {"up", "rejects"}
    /\ n \in unread
    /\ received' = received \cup {k \in unread : k <= n}
    /\ unread' = {k \in unread : k > n}
    /\ UNCHANGED <<pc, backoff, stop, queues, link, sets, server, made, sent, lost, refused>>
-----------------------------------------------------------------------------
(***************************************************************************)
(* The connection task.                                                    *)
(***************************************************************************)

InHand  == IF hand.kind = "motion" THEN {hand.n} ELSE {}
Waiting == {motion[i] : i \in DOMAIN motion}

\* Leaves a connection, or an attempt, for another step of the loop.  Nothing
\* acknowledges a record: what is in hand or unread is not written again.
Leave(to) ==
    /\ pc' = to
    /\ hand' = Idle
    /\ inbox' = "none"
    /\ hello' = FALSE
    /\ alive' = FALSE
    /\ unread' = {}
    /\ lost' = lost \cup unread \cup InHand

\* The top of the loop.
Cancelled ==
    /\ pc = "connect" /\ stop
    /\ Leave("done")
    /\ media' = <<>>
    /\ UNCHANGED <<backoff, stop, motion, sets, server, rest>>

\* A fault to check against: attempts are limited.
ConnectGivesUp ==
    /\ pc = "connect" /\ ~stop
    /\ server # "down"
    /\ backoff < BackoffMax
    /\ pc' = "tls"
    /\ alive' = TRUE
    /\ UNCHANGED <<backoff, stop, queues, hand, inbox, hello, sets, server, truth>>

Connect ==
    /\ pc = "connect" /\ ~stop
    /\ server # "down"
    /\ pc' = "tls"
    /\ alive' = TRUE
    /\ UNCHANGED <<backoff, stop, queues, hand, inbox, hello, sets, server, truth>>

\* No TLS configuration, no TCP connection, or no TLS session.
ConnectFails ==
    /\ \/ pc = "connect" /\ ~stop /\ server # "up"
       \/ pc = "tls" /\ (server # "up" \/ ~alive)
    /\ Leave("sleep")
    /\ UNCHANGED <<backoff, stop, queues, sets, server, rest>>

\* Nothing limits the time of the TLS handshake, and the agent has nothing to
\* send that would show that the other end is gone.
TlsHangs ==
    /\ pc = "tls"
    /\ server = "mute" \/ ~alive
    /\ Leave("hung")
    /\ UNCHANGED <<backoff, stop, queues, sets, server, rest>>

\* The HELLO tells what is known when it is written.
TlsConnected ==
    /\ pc = "tls"
    /\ alive /\ server \in {"up", "rejects"}
    /\ backoff' = 1
    /\ pc' = "hello"
    /\ hello' = sets
    /\ UNCHANGED <<stop, queues, hand, inbox, alive, sets, server, truth>>

\* HELLO_OK in time; the read task starts.  tokio's interval(0) panics and with
\* it ends the task.
HelloOk(ping) ==
    /\ pc = "hello"
    /\ alive /\ server = "up"
    /\ IF ping = 0 THEN Leave("done") /\ media' = <<>>
       ELSE pc' = "session" /\ UNCHANGED <<media, link, fate>>
    /\ UNCHANGED <<backoff, stop, motion, sets, server, rest>>

\* The HELLO cannot be written, is answered with anything else or not in time.
HelloFails ==
    /\ pc = "hello"
    /\ ~alive \/ server # "up"
    /\ Leave("pause")
    /\ UNCHANGED <<backoff, stop, queues, sets, server, rest>>

\* sleep(backoff) after a failed attempt or a session, and sleep_or_shutdown.
Wake ==
    /\ pc \in {"sleep", "pause"} /\ ~stop
    /\ pc' = "connect"
    /\ backoff' = IF pc = "sleep" THEN Least(backoff * 2, BackoffMax) ELSE backoff
    /\ UNCHANGED <<stop, queues, link, sets, server, truth>>

WakeStopped ==
    /\ pc \in {"sleep", "pause"} /\ stop
    /\ Leave("done")
    /\ media' = <<>>
    /\ UNCHANGED <<backoff, stop, motion, sets, server, rest>>

-----------------------------------------------------------------------------
(***************************************************************************)
(* A session: `select! { biased; ... }`, one message at a time.            *)
(***************************************************************************)
Writing(m) ==
    /\ pc' = "write"
    /\ hand' = m

\* A fault to check against: the session is never asked again.
SessionIgnoresStop == FALSE /\ UNCHANGED vars

SessionStopped ==
    /\ pc = "session" /\ stop
    /\ Leave("done")
    /\ media' = <<>>
    /\ UNCHANGED <<backoff, stop, motion, sets, server, rest>>

HandlePing ==
    /\ pc = "session" /\ ~stop
    /\ inbox = "ping"
    /\ inbox' = "none"
    /\ Writing(Message("echo", 0))
    /\ UNCHANGED <<backoff, stop, queues, hello, alive, sets, server, truth>>

\* A fault to check against: what was queued is taken for stale.
SessionClosedForgets ==
    /\ pc = "session" /\ ~stop
    /\ inbox \in {"close", "failure"} \/ (inbox = "none" /\ ~alive)
    /\ Leave("sleep")
    /\ motion' = <<>>
    /\ UNCHANGED <<backoff, stop, media, sets, server, rest>>

\* CLOSE, ERROR, or the end of the read task.
SessionClosed ==
    /\ pc = "session" /\ ~stop
    /\ inbox \in {"close", "failure"} \/ (inbox = "none" /\ ~alive)
    /\ Leave("sleep")
    /\ UNCHANGED <<backoff, stop, queues, sets, server, rest>>

TakeMotion ==
    /\ pc = "session" /\ ~stop /\ inbox = "none"
    /\ motion # <<>>
    /\ motion' = Tail(motion)
    /\ Writing(Message("motion", Head(motion)))
    /\ UNCHANGED <<backoff, stop, media, inbox, hello, alive, sets, server, truth>>

TakeMedia ==
    /\ pc = "session" /\ ~stop /\ inbox = "none"
    /\ motion = <<>> /\ media # <<>>
    /\ media' = Tail(media)
    /\ Writing(Message("media", Head(media)))
    /\ UNCHANGED <<backoff, stop, motion, inbox, hello, alive, sets, server, truth>>

PingTick ==
    /\ pc = "session" /\ ~stop /\ inbox = "none"
    /\ motion = <<>> /\ media = <<>>
    /\ Writing(Message("ping", 0))
    /\ UNCHANGED <<backoff, stop, queues, inbox, hello, alive, sets, server, truth>>

\* write_record returns when the socket has the bytes: with the server reading,
\* with room in the buffer of one that does not, or of a connection that is gone
\* without this side knowing.
WriteOk ==
    /\ pc = "write"
    /\ pc' = "session"
    /\ hand' = Idle
    /\ sent' = IF hand.kind \in {"media", "motion"} THEN Append(sent, hand) ELSE sent
    /\ unread' = unread \cup InHand
    /\ UNCHANGED <<backoff, stop, queues, inbox, hello, alive, sets, server, made, received,
                   lost, refused>>

\* A fault to check against: the message goes back into its queue, behind the
\* others.
WriteFailsRequeues ==
    /\ pc = "write"
    /\ ~alive \/ server = "mute"
    /\ hand.kind # "echo"
    /\ Leave("sleep")
    /\ motion' = IF hand.kind = "motion" THEN Append(motion, hand.n) ELSE motion
    /\ UNCHANGED <<backoff, stop, media, sets, server, rest>>

\* The connection is found broken, or a mute server is given up in the end.
WriteFails ==
    /\ pc = "write"
    /\ ~alive \/ server = "mute"
    /\ hand.kind # "echo"
    /\ Leave("sleep")
    /\ UNCHANGED <<backoff, stop, queues, sets, server, rest>>

\* `let _ = write_record(.., RECORD_PING, ..)`
EchoFails ==
    /\ pc = "write"
    /\ ~alive \/ server = "mute"
    /\ hand.kind = "echo"
    /\ pc' = "session"
    /\ hand' = Idle
    /\ alive' = FALSE
    /\ UNCHANGED <<backoff, stop, queues, inbox, hello, sets, server, truth>>

Session ==
    \/ SessionStopped
    \/ HandlePing
    \/ SessionClosed
    \/ TakeMotion
    \/ TakeMedia
    \/ PingTick
    \/ WriteOk
    \/ (WriteFails \/ EchoFails)

Attempt ==
    \/ Cancelled
    \/ Connect
    \/ ConnectFails
    \/ TlsConnected
    \/ \E ping \in PingIntervals : HelloOk(ping)
    \/ HelloFails
    \/ Wake
    \/ WakeStopped

Environment ==
    \/ SendMedia
    \/ SendMotion
    \/ SetParameterSets
    \/ Shutdown
    \/ \E s \in {"up", "rejects", "mute", "down"}, cut \in BOOLEAN : ServerBecomes(s, cut)
    \/ \E r \in {"ping", "close", "failure"} : ServerSends(r)
    \/ \E n \in unread : ServerReads(n)

Next == Attempt \/ TlsHangs \/ Session \/ Environment

Spec == Init /\ [][Next]_vars

\* The runtime polls the task.  Writes end: the server reads, or the connection
\* is found broken.
FairSpec == Spec /\ WF_vars(Attempt) /\ WF_vars(Session)
-----------------------------------------------------------------------------
(***************************************************************************)
(* Properties.                                                             *)
(***************************************************************************)

\* Over all reconnections, overflows and failed writes, the messages of a kind
\* are written in the order they were handed over, none of them twice.
SentInOrder ==
    \A i, j \in DOMAIN sent : i < j /\ sent[i].kind = sent[j].kind => sent[i].n < sent[j].n

\* A motion message waits in its queue until a session takes it.  From then on it
\* is in hand, on its way or received, or it went with the connection it was given
\* to, written or half written; nothing else loses one.  Outside a session none is
\* at stake, however long the outage and however many attempts fail.
MotionAccounted ==
    pc # "done" =>
        /\ 1 .. made.motion = received \cup unread \cup Waiting \cup InHand \cup lost \cup refused
        /\ pc \notin {"session", "write"} => unread = {} /\ InHand = {}

\* The server works, keeps the connection and sends nothing: its records go
\* before the queues.
Calm ==
    /\ server = "up" /\ inbox = "none"
    /\ pc \in {"tls", "hello", "session", "write"} => alive

\* Once the server stays calm both queues are drained, unless the task was
\* stopped or hangs in a TLS handshake.
Drains ==
    <>[]Calm =>
        <>[](pc \in {"hung", "done"} \/ (motion = <<>> /\ media = <<>>))

\* After shutdown() the task ends, in whatever state it was, unless it hangs in
\* a TLS handshake or in a write to a server that does not read.
Stops == <>[](stop /\ server # "mute") => <>(pc \in {"done", "hung"})
=============================================================================
