---------------------------- MODULE ClipPipeline ----------------------------
(***************************************************************************)
(* Version 1 of the pipeline of a stream, run_stream of server_pipeline.rs *)
(* with core/clip_writer.rs: access units go through a ring buffer, motion *)
(* starts a clip with what the ring held when it came, a timer ends it.    *)
(*                                                                         *)
(* Time is abstracted: a tick may find a clip due at any moment, and       *)
(* prune_ring may drop any older part of the ring, because pictures may be *)
(* any time apart.  The pipeline waits for messages and ticks together, so *)
(* it never ends by itself (`else => break` needs both to be over).  The   *)
(* health file, statistics and log lines are left out.                     *)
(***************************************************************************)
EXTENDS Integers, H264

CONSTANTS
    RingSecs,    \* CLIP_RING_SECS
    Packets,     \* the RTP packets a camera may send: [payload, marker]
    MaxUnits,    \* bound on the access units of a behaviour
    MaxClips     \* bound on its clips

ASSUME ClipAssumption ==
    /\ RingSecs \in Nat
    /\ Packets \subseteq [payload : Payload, marker : BOOLEAN]
    /\ MaxUnits \in Nat
    /\ MaxClips \in Nat

VARIABLES
    \* The clip directory.
    parts,       \* the clips with a .h264.part file
    published,   \* the clips with a .h264 file
    media,       \* media[k]: what the .h264 file of clip k holds
    sidecars,    \* the clips with a .json file
    \* The pipeline.
    pc,
    fu,          \* H264Depacketizer
    expected,    \* expected_seq is Some
    synced,
    params,      \* the parameter sets cached
    au,          \* current_au: the classes of the NAL units gathered
    ring,
    pending,     \* clip_pending
    snapshot,    \* pending_ring_snapshot
    clip,        \* the clip being written
    \* What really happened.
    units,       \* access units put into the ring so far
    clips,       \* clips started so far
    lost,        \* packets were lost since the last packet received
    cut          \* media was lost since the last access unit

disk   == <<parts, published, media, sidecars>>
decode == <<fu, expected, synced, params, au>>
truth  == <<units, clips, lost, cut>>
vars   == <<disk, pc, decode, ring, pending, snapshot, clip, truth>>
-----------------------------------------------------------------------------
Clips == 1 .. MaxClips

\* ps: it starts with parameter sets.  cut: media is missing before it.
Unit == [n : 1 .. MaxUnits, idr : BOOLEAN, ps : BOOLEAN, cut : BOOLEAN]

\* What was written into a clip.  whole: no write of it has failed.
Content == [units : Seq(Unit), whole : BOOLEAN]

NoContent == [units |-> <<>>, whole |-> TRUE]

NoClip == [id |-> 0, content |-> NoContent]

TypeOK ==
    /\ parts \subseteq Clips
    /\ published \subseteq Clips
    /\ media \in [Clips -> Content]
    /\ sidecars \subseteq Clips
    /\ pc \in {"down", "recv", "start", "write", "sidecar"}
    /\ fu \in FuState
    /\ expected \in BOOLEAN
    /\ synced \in BOOLEAN
    /\ params \subseteq ParamSets
    /\ au \subseteq NalClass
    /\ ring \in Seq(Unit)
    /\ pending \in BOOLEAN
    /\ snapshot \in Seq(Unit)
    /\ clip \in [id : Clips, content : Content] \cup {NoClip}
    /\ units \in 0 .. MaxUnits
    /\ clips \in 0 .. MaxClips
    /\ lost \in BOOLEAN
    /\ cut \in BOOLEAN

\* The locals of run_stream.
Fresh ==
    /\ fu' = "none"
    /\ expected' = FALSE
    /\ synced' = FALSE
    /\ params' = {}
    /\ au' = {}
    /\ ring' = <<>>
    /\ pending' = FALSE
    /\ snapshot' = <<>>
    /\ clip' = NoClip
    /\ lost' = TRUE
    /\ cut' = TRUE
    /\ UNCHANGED <<units, clips>>

Init ==
    /\ parts = {} /\ published = {} /\ sidecars = {}
    /\ media = [k \in Clips |-> NoContent]
    /\ pc = "down"
    /\ fu = "none" /\ expected = FALSE /\ synced = FALSE /\ params = {} /\ au = {}
    /\ ring = <<>> /\ pending = FALSE /\ snapshot = <<>> /\ clip = NoClip
    /\ units = 0 /\ clips = 0 /\ lost = TRUE /\ cut = TRUE

\* The start of run_stream: cleanup_stale_parts removes the .part files that are
\* old enough, if it can.
Start ==
    /\ pc = "down"
    /\ pc' = "recv"
    /\ parts' \in SUBSET parts
    /\ UNCHANGED <<published, media, sidecars, decode, ring, pending, snapshot, clip, truth>>

\* An I/O error ends the task, or the server crashes.
Die ==
    /\ pc # "down"
    /\ pc' = "down"
    /\ Fresh
    /\ UNCHANGED disk
-----------------------------------------------------------------------------
(***************************************************************************)
(* Messages.                                                               *)
(***************************************************************************)
\* A fault to check against: the decoder is reset but the pipeline stays in
\* sync.
DesyncKeepsSynced(expecting) ==
    /\ fu' = "none"
    /\ expected' = expecting
    /\ au' = {}
    /\ cut' = TRUE
    /\ UNCHANGED <<synced, params>>

\* What every error does to the decoder; the message is dropped.
Desync(expecting) ==
    /\ fu' = "none"
    /\ synced' = FALSE
    /\ expected' = expecting
    /\ au' = {}
    /\ cut' = TRUE
    /\ UNCHANGED params

RecvGap ==
    /\ pc = "recv"
    /\ lost' = TRUE
    /\ Desync(FALSE)
    /\ UNCHANGED <<disk, pc, ring, pending, snapshot, clip, units, clips>>

RecvUnparsable ==
    /\ pc = "recv"
    /\ lost' = TRUE
    /\ Desync(FALSE)
    /\ UNCHANGED <<disk, pc, ring, pending, snapshot, clip, units, clips>>

\* Motion.  It counts only when it becomes active and no clip is being written.
RecvMotion ==
    /\ pc = "recv"
    /\ clip = NoClip
    /\ pending' = TRUE
    /\ snapshot' = ring
    /\ UNCHANGED <<disk, pc, decode, ring, clip, truth>>

\* An RTP packet that parses; inOrder as `sequence_number != exp` sees it.
Arrives(inOrder) ==
    /\ pc = "recv"
    /\ inOrder => ~lost
    /\ lost' = FALSE

RecvMismatch ==
    /\ Arrives(FALSE)
    /\ expected
    /\ Desync(TRUE)
    /\ UNCHANGED <<disk, pc, ring, pending, snapshot, clip, units, clips>>

RecvUndecodable(p, inOrder) ==
    /\ Arrives(inOrder)
    /\ expected => inOrder
    /\ Undecodable(fu, p.payload)
    /\ Desync(FALSE)
    /\ UNCHANGED <<disk, pc, ring, pending, snapshot, clip, units, clips>>

\* current_au with the NAL units of the packet.
Gathered(p) ==
    LET nals == NalsOf(fu, p.payload) IN au \cup {nals[i] : i \in DOMAIN nals}

Decoded(p, inOrder) ==
    /\ Arrives(inOrder)
    /\ expected => inOrder
    /\ ~Undecodable(fu, p.payload)
    /\ fu' = FuAfter(fu, p.payload)
    /\ expected' = TRUE

\* The access unit goes on.
RecvPart(p, inOrder) ==
    /\ Decoded(p, inOrder)
    /\ ~p.marker \/ Gathered(p) = {}
    /\ au' = Gathered(p)
    /\ UNCHANGED <<disk, pc, synced, params, ring, pending, snapshot, clip, units, clips, cut>>

\* build_access_unit caches the parameter sets of a complete access unit.
Cached(p) == params \cup (Gathered(p) \cap ParamSets)

Syncs(p) == "idr" \in Gathered(p) /\ Cached(p) = ParamSets

\* An access unit the pipeline cannot start from.
RecvUnitUnsynced(p, inOrder) ==
    /\ Decoded(p, inOrder)
    /\ p.marker /\ Gathered(p) # {}
    /\ ~synced /\ ~Syncs(p)
    /\ params' = Cached(p)
    /\ au' = {}
    /\ cut' = TRUE
    /\ UNCHANGED <<disk, pc, synced, ring, pending, snapshot, clip, units, clips>>

NewUnit(p) ==
    [n |-> units + 1, idr |-> "idr" \in Gathered(p),
     ps |-> ~synced \/ ParamSets \subseteq Gathered(p), cut |-> cut]

\* prune_ring.  The newest access unit is as old as it takes to get here: it
\* stays unless RingSecs is 0.
Pruned(q) ==
    {SubSeq(q, i, Len(q)) : i \in 1 .. (IF RingSecs = 0 THEN Len(q) + 1 ELSE Len(q))}

RecvUnit(p, inOrder) ==
    /\ Decoded(p, inOrder)
    /\ p.marker /\ Gathered(p) # {}
    /\ synced \/ Syncs(p)
    /\ units < MaxUnits
    /\ params' = Cached(p)
    /\ synced' = TRUE
    /\ au' = {}
    /\ ring' \in Pruned(Append(ring, NewUnit(p)))
    /\ units' = units + 1
    /\ cut' = FALSE
    /\ pc' = (IF clip # NoClip THEN "write" ELSE IF pending THEN "start" ELSE "recv")
    /\ UNCHANGED <<disk, pending, snapshot, clip, clips>>
-----------------------------------------------------------------------------
(***************************************************************************)
(* Clips.                                                                  *)
(***************************************************************************)
\* The snapshot from its first IDR on, behind the parameter sets cached now.
Preroll ==
    LET idrs == {i \in DOMAIN snapshot : snapshot[i].idr}
        from == CHOOSE i \in idrs : \A j \in idrs : i <= j
    IN  IF idrs = {} THEN <<>>
        ELSE [SubSeq(snapshot, from, Len(snapshot)) EXCEPT ![1].ps = TRUE]

\* A fault to check against: the access unit that made the clip start is left
\* out.
StartClipLate ==
    /\ pc = "start"
    /\ clips < MaxClips
    /\ clips' = clips + 1
    /\ parts' = parts \cup {clips + 1}
    /\ clip' = [id |-> clips + 1, content |-> [units |-> Preroll, whole |-> TRUE]]
    /\ pending' = FALSE
    /\ snapshot' = <<>>
    /\ pc' = "recv"
    /\ UNCHANGED <<published, media, sidecars, decode, ring, units, lost, cut>>

\* try_start_clip.  A pipeline that has an access unit knows its parameter sets,
\* so it always starts: `Ok(None)` is not reached from here.
StartClip ==
    /\ pc = "start"
    /\ clips < MaxClips
    /\ clips' = clips + 1
    /\ parts' = parts \cup {clips + 1}
    /\ clip' = [id |-> clips + 1, content |-> [units |-> Preroll, whole |-> TRUE]]
    /\ pending' = FALSE
    /\ snapshot' = <<>>
    /\ pc' = "write"
    /\ UNCHANGED <<published, media, sidecars, decode, ring, units, lost, cut>>

\* ring.back()
Newest == IF ring = <<>> THEN <<>> ELSE <<ring[Len(ring)]>>

\* Puts the newest access unit into the clip behind the units before.
Written(before, again, whole) ==
    /\ pc = "write"
    /\ clip' = [clip EXCEPT !.content =
                  [units |-> before \o Newest \o (IF again THEN Newest ELSE <<>>),
                   whole |-> whole]]
    /\ pc' = "recv"
    /\ UNCHANGED <<disk, decode, ring, pending, snapshot, truth>>

\* A write that timed out is tried again: its bytes are still in the writer's
\* buffer and are appended again.
WriteUnit(timedOut) == Written(clip.content.units, timedOut, clip.content.whole)

\* A write that failed is tried again.  The file writes behind the task's back
\* and reports the failure of an earlier write, whose bytes are gone.
WriteUnitAfterError ==
    LET old == clip.content.units
    IN  \E i \in 1 .. Len(old) : \E j \in i .. Len(old) :
            Written(SubSeq(old, 1, i - 1) \o SubSeq(old, j + 1, Len(old)), TRUE, FALSE)

\* The last retry fails: the clip is given up and its file removed, if possible.
WriteFails ==
    /\ pc = "write"
    /\ clip' = NoClip
    /\ parts' \in {parts, parts \ {clip.id}}
    /\ pc' = "recv"
    /\ UNCHANGED <<published, media, sidecars, decode, ring, pending, snapshot, truth>>

\* A fault to check against: a clip is finished only while packets can be
\* decoded.
FinalizeSynced ==
    /\ pc = "recv"
    /\ clip # NoClip
    /\ synced
    /\ parts' = parts \ {clip.id}
    /\ published' = published \cup {clip.id}
    /\ media' = [media EXCEPT ![clip.id] = clip.content]
    /\ pc' = "sidecar"
    /\ UNCHANGED <<sidecars, decode, ring, pending, snapshot, clip, truth>>

\* A tick finds the clip due: finalize_clip flushes and renames it.
Finalize ==
    /\ pc = "recv"
    /\ clip # NoClip
    /\ parts' = parts \ {clip.id}
    /\ published' = published \cup {clip.id}
    /\ media' = [media EXCEPT ![clip.id] = clip.content]
    /\ pc' = "sidecar"
    /\ UNCHANGED <<sidecars, decode, ring, pending, snapshot, clip, truth>>

\* The end of finalize_clip.
WriteSidecar ==
    /\ pc = "sidecar"
    /\ sidecars' = sidecars \cup {clip.id}
    /\ clip' = NoClip
    /\ pc' = "recv"
    /\ UNCHANGED <<parts, published, media, decode, ring, pending, snapshot, truth>>

Receiving ==
    \/ RecvGap
    \/ RecvUnparsable
    \/ RecvMotion
    \/ RecvMismatch
    \/ \E p \in Packets, inOrder \in BOOLEAN :
          \/ RecvUndecodable(p, inOrder)
          \/ RecvPart(p, inOrder)
          \/ RecvUnitUnsynced(p, inOrder)
          \/ RecvUnit(p, inOrder)

Writing ==
    \/ StartClip
    \/ \E timedOut \in BOOLEAN : WriteUnit(timedOut)
    \/ WriteUnitAfterError
    \/ WriteFails
    \/ WriteSidecar

Next == Start \/ Receiving \/ Writing \/ Finalize \/ Die

Spec == Init /\ [][Next]_vars

\* The runtime polls the task; select! does not pass over a due tick for ever,
\* however many messages there are.
FairSpec == Spec /\ WF_vars(Writing) /\ SF_vars(Finalize)
-----------------------------------------------------------------------------
(***************************************************************************)
(* Properties.                                                             *)
(***************************************************************************)

\* A published clip is a stretch of the stream without a hole, from the
\* snapshot taken at the motion over the access unit that came next to the last
\* one written, unless a write of it failed; only a write tried again can repeat
\* something, on the spot.
ClipContiguous ==
    \A k \in published :
        LET c == media[k].units
        IN  media[k].whole =>
                /\ c # <<>>
                /\ \A i \in 1 .. Len(c) - 1 : c[i + 1].n \in {c[i].n, c[i].n + 1}

\* Where media is missing inside a clip because packets were lost, a decoder can
\* start again: the next access unit is an IDR behind its parameter sets.
ClipResyncs ==
    \A k \in published : \A i \in 2 .. Len(media[k].units) :
        media[k].units[i].cut => media[k].units[i].idr /\ media[k].units[i].ps

\* A clip ends, also when no packet comes or none can be decoded.
ClipEnds == clip # NoClip ~> clip = NoClip
=============================================================================
