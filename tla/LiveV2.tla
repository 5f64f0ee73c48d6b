------------------------------- MODULE LiveV2 -------------------------------
(***************************************************************************)
(* The HLS pipeline of one stream, run_stream_v2 of live/v2.rs, together   *)
(* with the directory tree it publishes: a session directory per run of    *)
(* the pipeline, seg_N.ts files and an index.m3u8 in each, and the         *)
(* current.json pointer that players follow.                               *)
(*                                                                         *)
(* A step of the model is one effect another process can see: a rename of  *)
(* a segment, of a manifest or of the pointer, a deletion.  Between two of *)
(* them the pipeline may die (an I/O error returned with `?`, a crash of   *)
(* the server) and a later message starts a new session.  The registry may *)
(* also start one beside a pipeline that still runs (SinglePipeline of     *)
(* StreamRegistry): the older one, a stray, goes on under the same root.   *)
(* The latest pipeline is modelled in full, a stray by what it publishes.  *)
(* Temporary files, the health file, counters and log lines are left out,  *)
(* and with them StreamMsg::Motion, which only touches counters here.      *)
(***************************************************************************)
EXTENDS Integers, FiniteSets, H264

CONSTANTS
    SegmentSecs,  \* live_hls_segment_secs
    WindowSecs,   \* live_hls_window_secs
    KeepCount,    \* LIVE_V2_SESSION_KEEP_COUNT
    Packets,      \* the RTP packets a camera may send: [payload, marker]
    MaxSeq,       \* bound on the segments of a session
    MaxSessions   \* bound on the sessions of a behaviour

ASSUME ConfigAssumption ==
    /\ SegmentSecs \in Nat
    /\ WindowSecs \in Nat
    /\ KeepCount \in Nat \ {0}      \* load_session_gc_config: .max(1)

ASSUME PacketsAssumption == Packets \subseteq [payload : Payload, marker : BOOLEAN]

ASSUME BoundsAssumption == MaxSeq \in Nat /\ MaxSessions \in Nat

VARIABLES
    \* The directory tree of the stream.
    dirs,       \* the sessions whose directory exists
    files,      \* files[s]: the n for which seg_n.ts exists in session s
    manifest,   \* manifest[s]: the entries of index.m3u8, <<>> when there is none
    pointer,    \* current.json
    gc,         \* the sessions whose cleanup_old_sessions task has not run
    removing,   \* the sessions whose directory a cleanup task is deleting
    strays,     \* the pipelines that run although a later one was started
    \* The latest pipeline task.
    pc,         \* the step it is about to take, "down" when there is no task
    cont,       \* what finalize_segment was called for; how the latest task ended
    session,    \* the latest session started (session ids are never reused)
    generation,
    fu,         \* H264Depacketizer
    gate,       \* H264SyncGate
    expected,   \* expected_seq is Some
    au,         \* current_au_nals: the classes of the NAL units gathered
    pkt,        \* the packet being handled
    entries,    \* PlaylistState.entries
    nextSeq,    \* PlaylistState.next_segment_seq
    segment,    \* current_segment
    pending,    \* pending_discontinuity
    latest,     \* latest_segment_seq
    evicted,    \* the segments push_segment has yet to delete
    \* What really happened to the media, which the pipeline cannot see.
    lost,       \* packets were lost since the last packet received
    torn,       \* a slice of the picture being received was lost
    cut,        \* media was lost since the last access unit written
    content,    \* content[n]: what segment n of this session holds
    condemned   \* the sessions a cleanup task has ever begun to delete

disk   == <<dirs, files, manifest, pointer, gc, removing, strays, condemned>>
media  == <<lost, torn, cut, content>>
decode == <<fu, gate, expected, au>>
hls    == <<entries, nextSeq, segment, pending, latest, evicted>>
run    == <<pc, cont, session, generation, pkt>>
vars   == <<disk, media, decode, hls, run>>
-----------------------------------------------------------------------------
Sessions == 1 .. MaxSessions
Seqs     == 1 .. MaxSeq

\* PlaylistState::new: the number of entries the manifest keeps.
MaxSegments ==
    LET target == IF SegmentSecs > 1 THEN SegmentSecs ELSE 1
        window == IF WindowSecs > target THEN WindowSecs ELSE target
        n      == (window + target - 1) \div target + 1
    IN  IF n > 3 THEN n ELSE 3

Entry   == [seq : Seqs, discontinuity : BOOLEAN]
Segment == [seq : Seqs, written : BOOLEAN, discontinuity : BOOLEAN]
Content == [start : SUBSET NalClass, cut : BOOLEAN, broken : BOOLEAN, partial : BOOLEAN]
Pointer == [session : Sessions, generation : Nat, state : {"ready", "stopped"}, last : Seqs]

Cont == {"gap", "mismatch", "rotate", "stop", "died"}

\* A stray: at is "media" while it decodes; next is the number of the segment it
\* has open or will open; why is what it finalizes that segment for.
StrayPC == {"media", "manifest", "evict", "pointer", "stopped"}
Stray   == [session : Sessions, generation : Nat, at : StrayPC, why : Cont,
            entries : Seq(Entry), next : 1 .. MaxSeq + 1, evicted : SUBSET Seqs]

NoSegment == [seq |-> 0, written |-> FALSE, discontinuity |-> FALSE]
NoPointer == [session |-> 0, generation |-> 0, state |-> "none", last |-> 0]
NoContent == [start |-> {}, cut |-> FALSE, broken |-> FALSE, partial |-> FALSE]
NoPacket  == [payload |-> [kind |-> "empty", nals |-> <<>>], marker |-> FALSE]

PC == {"down", "recv", "packet", "au", "open", "write",
       "segment", "manifest", "evict", "pointer", "stopped"}

TypeOK ==
    /\ dirs \subseteq Sessions
    /\ files \in [Sessions -> SUBSET Seqs]
    /\ manifest \in [Sessions -> Seq(Entry)]
    /\ pointer \in Pointer \cup {NoPointer}
    /\ gc \subseteq Sessions
    /\ removing \subseteq Sessions
    /\ condemned \subseteq Sessions
    /\ strays \subseteq Stray
    /\ pc \in PC
    /\ cont \in Cont
    /\ session \in 0 .. MaxSessions
    /\ generation \in Nat
    /\ fu \in FuState
    /\ gate \in Gate
    /\ expected \in BOOLEAN
    /\ au \subseteq NalClass
    /\ pkt \in Packets \cup {NoPacket}
    /\ entries \in Seq(Entry)
    /\ nextSeq \in 1 .. MaxSeq + 1
    /\ segment \in Segment \cup {NoSegment}
    /\ pending \in BOOLEAN
    /\ latest \in 0 .. MaxSeq
    /\ evicted \subseteq Seqs
    /\ lost \in BOOLEAN
    /\ torn \in BOOLEAN
    /\ cut \in BOOLEAN
    /\ content \in [Seqs -> Content]

Init ==
    /\ dirs = {}
    /\ files = [s \in Sessions |-> {}]
    /\ manifest = [s \in Sessions |-> <<>>]
    /\ pointer = NoPointer
    /\ gc = {}
    /\ removing = {}
    /\ condemned = {}
    /\ strays = {}
    /\ pc = "down"
    /\ cont = "stop"
    /\ session = 0
    /\ generation = 0
    /\ fu = "none"
    /\ gate = NewGate(FALSE)
    /\ expected = FALSE
    /\ au = {}
    /\ pkt = NoPacket
    /\ entries = <<>>
    /\ nextSeq = 1
    /\ segment = NoSegment
    /\ pending = FALSE
    /\ latest = 0
    /\ evicted = {}
    /\ lost = TRUE
    /\ torn = TRUE
    /\ cut = TRUE
    /\ content = [n \in Seqs |-> NoContent]
-----------------------------------------------------------------------------
\* The locals of run_stream_v2 before the first message.
Fresh ==
    /\ fu' = "none"
    /\ expected' = FALSE
    /\ au' = {}
    /\ pkt' = NoPacket
    /\ entries' = <<>>
    /\ nextSeq' = 1
    /\ segment' = NoSegment
    /\ pending' = FALSE
    /\ latest' = 0
    /\ evicted' = {}
    /\ lost' = TRUE
    /\ torn' = TRUE
    /\ cut' = TRUE
    /\ content' = [n \in Seqs |-> NoContent]

\* A task that has ended keeps no memory.
Forget(end) ==
    /\ Fresh
    /\ pc' = "down"
    /\ cont' = end
    /\ gate' = NewGate(FALSE)
    /\ UNCHANGED <<session, generation>>

\* read_current_generation; a pointer that cannot be read counts as none.
NextGeneration(readable) == IF readable THEN pointer.generation + 1 ELSE 1

\* What is kept of the pipeline in progress when another one is started.
Superseded ==
    [session |-> session, generation |-> generation,
     at |-> IF pc \in StrayPC THEN pc ELSE "media", why |-> cont, entries |-> entries,
     next |-> IF segment # NoSegment THEN segment.seq ELSE nextSeq, evicted |-> evicted]

(***************************************************************************)
(* initialize_live_session and the locals of run_stream_v2.  The stream    *)
(* may have come with parameter sets in its HELLO (h264_sync_seed).  A     *)
(* pipeline that is still running becomes a stray.                         *)
(***************************************************************************)
StartSession(seeded, readable) ==
    /\ session < MaxSessions
    /\ Fresh
    /\ pc' = "recv"
    /\ session' = session + 1
    /\ generation' = NextGeneration(readable)
    /\ gate' = NewGate(seeded)
    /\ dirs' = dirs \cup {session + 1}
    /\ gc' = gc \cup {session + 1}
    /\ strays' = strays \cup (IF pc = "down" THEN {} ELSE {Superseded})
    /\ cont' = "gap"
    /\ UNCHANGED <<files, manifest, pointer, removing, condemned>>

(***************************************************************************)
(* cleanup_old_sessions, spawned by session s: of the other directories    *)
(* the KeepCount - 1 modified last are kept, and of the rest those that    *)
(* are older than the retention time (at least 30 s) are deleted.  A       *)
(* session started after s is younger than that when the task of s lists   *)
(* the directories.  Among the earlier ones a stray or a deletion that     *)
(* failed may have changed any one last.                                   *)
(***************************************************************************)
\* A fault to check against: the directory of the session itself and the
\* younger ones are not left out of the list.
OldOrNot(s) == {old \in SUBSET dirs : Cardinality(dirs \ (old \cup {s})) >= KeepCount - 1}

OldSessions(s) ==
    {old \in SUBSET {d \in dirs : d < s} :
        Cardinality(dirs \ (old \cup {s})) >= KeepCount - 1}

CleanupOldSessions(s) ==
    /\ s \in gc
    /\ gc' = gc \ {s}
    /\ \E old \in OldSessions(s) :
          /\ removing' = removing \cup old
          /\ condemned' = condemned \cup old
    /\ UNCHANGED <<dirs, files, manifest, pointer, strays, media, decode, hls, run>>

(***************************************************************************)
(* fs::remove_dir_all(d) deletes the entries one by one, in any order, and *)
(* the directory last.  It stops at the first error, which is only logged, *)
(* and with the server; what is left is left.                              *)
(***************************************************************************)
RemoveEntry(d) ==
    /\ d \in removing
    /\ \/ \E n \in files[d] : files' = [files EXCEPT ![d] = @ \ {n}] /\ UNCHANGED manifest
       \/ /\ manifest[d] # <<>>
          /\ manifest' = [manifest EXCEPT ![d] = <<>>]
          /\ UNCHANGED files
    /\ UNCHANGED <<dirs, pointer, gc, removing, strays, condemned, media, decode, hls, run>>

RemovalEnds(d) ==
    /\ d \in removing
    /\ removing' = removing \ {d}
    /\ \/ UNCHANGED dirs
       \/ files[d] = {} /\ manifest[d] = <<>> /\ dirs' = dirs \ {d}
    /\ UNCHANGED <<files, manifest, pointer, gc, strays, condemned, media, decode, hls, run>>
-----------------------------------------------------------------------------
(***************************************************************************)
(* handle_discontinuity, called for a Gap message or an unusable packet    *)
(* ("gap") or for a packet with an unexpected sequence number              *)
(* ("mismatch").  With a segment open it first finalizes it.  Its callers  *)
(* then reset the depacketizer, the gate and the access unit, and either   *)
(* wait for the next message or go on with the packet (Discontinued).      *)
(***************************************************************************)
\* A fault to check against: dropped disjunct: the segment that the gap itself
\* completes is forgotten.
OnlyLatestCounts == latest > 0

SawPublishedOutput == latest > 0 \/ segment # NoSegment

Discontinued(why) ==
    /\ fu' = "none"
    /\ gate' = GateReset(gate)
    /\ au' = {}
    /\ expected' = (why = "mismatch")
    /\ pc' = (IF why = "mismatch" THEN "packet" ELSE "recv")

\* A fault to check against: the decoder is reset but the open segment goes on.
KeepsSegmentOpen(why) ==
    /\ cont' = why
    /\ pending' = (pending \/ SawPublishedOutput)
    /\ Discontinued(why)
    /\ UNCHANGED <<entries, nextSeq, segment, latest, evicted>>

HandleDiscontinuity(why) ==
    /\ cont' = why
    /\ pending' = (pending \/ SawPublishedOutput)
    /\ IF segment # NoSegment
       THEN pc' = "segment" /\ UNCHANGED decode
       ELSE Discontinued(why)
    /\ UNCHANGED <<entries, nextSeq, segment, latest, evicted>>

\* StreamMsg::Gap: the agent reports packets it did not forward.
RecvGap ==
    /\ pc = "recv"
    /\ lost' = TRUE /\ torn' = TRUE /\ cut' = TRUE
    /\ HandleDiscontinuity("gap")
    /\ UNCHANGED <<disk, content, session, generation, pkt>>

\* StreamMsg::Rtp whose bytes RtpPacket::parse refuses.
RecvUnparsable ==
    /\ pc = "recv"
    /\ lost' = TRUE /\ torn' = TRUE /\ cut' = TRUE
    /\ HandleDiscontinuity("gap")
    /\ UNCHANGED <<disk, content, session, generation, pkt>>

(***************************************************************************)
(* StreamMsg::Rtp that parses.  inOrder: its sequence number follows the   *)
(* one before, which is what `sequence_number != expected` tests.  Between *)
(* two packets any number may be lost, here or on the way; a packet in     *)
(* order starts a picture when the one before it had the marker, another   *)
(* may or may not be the first slice of its picture (heads).               *)
(***************************************************************************)
RecvRtp(p, inOrder, heads) ==
    /\ pc = "recv"
    /\ inOrder => ~lost
    /\ inOrder => heads = pkt.marker
    /\ nextSeq <= MaxSeq
    /\ pkt' = p
    /\ lost' = FALSE
    /\ torn' = (IF inOrder /\ ~heads THEN torn ELSE ~heads)
    /\ cut' = (cut \/ ~inOrder)
    /\ IF expected /\ ~inOrder
       THEN HandleDiscontinuity("mismatch")
       ELSE pc' = "packet" /\ UNCHANGED <<decode, hls, cont>>
    /\ UNCHANGED <<disk, content, session, generation>>

\* The packet through the depacketizer and the gate into the access unit,
\* which is complete at the marker.
ProcessPacket ==
    /\ pc = "packet"
    /\ IF Undecodable(fu, pkt.payload)
       THEN /\ torn' = TRUE
            /\ cut' = TRUE
            /\ HandleDiscontinuity("gap")
       ELSE LET nals == NalsOf(fu, pkt.payload)
            IN  /\ fu' = FuAfter(fu, pkt.payload)
                /\ gate' = GateAfter(gate, nals)
                /\ au' = au \cup GateOutput(gate, nals)
                /\ expected' = TRUE
                /\ pc' = (IF pkt.marker /\ au' # {} THEN "au" ELSE "recv")
                /\ UNCHANGED <<torn, cut, cont, hls>>
    /\ UNCHANGED <<disk, lost, content, session, generation, pkt>>

(***************************************************************************)
(* A complete access unit.  due: the open segment has lasted segment_secs. *)
(* should_rotate_segment; an access unit without IDR and without an open   *)
(* segment is skipped.                                                     *)
(***************************************************************************)
HandleAccessUnit(due) ==
    /\ pc = "au"
    /\ cont' = "rotate"
    /\ IF segment = NoSegment /\ "idr" \notin au
       THEN pc' = "recv" /\ au' = {} /\ cut' = TRUE
       ELSE /\ pc' = (IF segment = NoSegment THEN "open"
                      ELSE IF segment.written /\ due /\ "idr" \in au THEN "segment"
                      ELSE "write")
            /\ UNCHANGED <<au, cut>>
    /\ UNCHANGED <<disk, lost, torn, content, fu, gate, expected, hls, session, generation, pkt>>

\* open_segment
OpenSegment ==
    /\ pc = "open"
    /\ segment' = [seq |-> nextSeq, written |-> FALSE, discontinuity |-> pending]
    /\ nextSeq' = nextSeq + 1
    /\ pending' = FALSE
    /\ content' = [content EXCEPT ![nextSeq] =
                      [start |-> au, cut |-> cut, broken |-> FALSE, partial |-> FALSE]]
    /\ pc' = "write"
    /\ UNCHANGED <<disk, lost, torn, cut, decode, entries, latest, evicted, cont, session, generation, pkt>>

\* What the access unit in hand makes of the open segment.
Written(c) ==
    [start |-> c.start, cut |-> c.cut,
     broken |-> c.broken \/ (segment.written /\ cut), partial |-> c.partial \/ torn]

\* write_access_unit, and what run_stream_v2 does with the flag behind it.
WriteAccessUnit ==
    /\ pc = "write"
    /\ segment' = [segment EXCEPT !.written = TRUE]
    /\ content' = [content EXCEPT ![segment.seq] = Written(content[segment.seq])]
    /\ pending' = (pending /\ ~("idr" \in au /\ latest > 0))
    /\ cut' = FALSE
    /\ au' = {}
    /\ pc' = "recv"
    /\ UNCHANGED <<disk, lost, torn, fu, gate, expected,
                   entries, nextSeq, latest, evicted, cont, session, generation, pkt>>
-----------------------------------------------------------------------------
(***************************************************************************)
(* finalize_segment.  A segment is opened for an access unit and written   *)
(* before the next message is received, so it holds media when it is       *)
(* finalized and the discard() branch is never taken (see ControlInv in    *)
(* LiveV2Proofs).                                                          *)
(***************************************************************************)
PublishSegment ==
    /\ pc = "segment"
    /\ files' = [files EXCEPT ![session] = @ \cup {segment.seq}]
    /\ pc' = "manifest"
    /\ UNCHANGED <<dirs, manifest, pointer, gc, removing, strays, condemned,
                   media, decode, hls, cont, session, generation, pkt>>

(***************************************************************************)
(* push_segment: the new entry at the end, the oldest ones beyond          *)
(* MaxSegments out.  publish_entries replaces index.m3u8 by a rename.      *)
(***************************************************************************)
\* A fault to check against: push_front for push_back.
PushedFront ==
    <<[seq |-> segment.seq, discontinuity |-> segment.discontinuity]>> \o entries

Pushed ==
    Append(entries, [seq |-> segment.seq, discontinuity |-> segment.discontinuity])

Windowed(q) ==
    IF Len(q) <= MaxSegments THEN q ELSE SubSeq(q, Len(q) - MaxSegments + 1, Len(q))

Listed(q) == {q[i].seq : i \in DOMAIN q}

\* A fault to check against: >= for >: the oldest entry that stays listed is
\* evicted too.
EvictedOneMore ==
    IF Len(Pushed) >= MaxSegments THEN {Pushed[1].seq} ELSE {}

\* A fault to check against: evicted files stay on disk.
EvictedNone == {}

Evicted == Listed(Pushed) \ Listed(Windowed(Pushed))

PublishManifest ==
    /\ pc = "manifest"
    /\ manifest' = [manifest EXCEPT ![session] = Windowed(Pushed)]
    /\ entries' = Windowed(Pushed)
    /\ evicted' = Evicted
    /\ pc' = "evict"
    /\ UNCHANGED <<dirs, files, pointer, gc, removing, strays, condemned, media, decode,
                   nextSeq, segment, pending, latest, cont, session, generation, pkt>>

\* The end of push_segment deletes the evicted files (never more than one);
\* then finalize_segment returns to its caller.
EvictSegments ==
    /\ pc = "evict"
    /\ files' = [files EXCEPT ![session] = @ \ evicted]
    /\ evicted' = {}
    /\ latest' = segment.seq
    /\ segment' = NoSegment
    /\ IF cont \in {"gap", "mismatch"}
       THEN Discontinued(cont)
       ELSE pc' = "pointer" /\ UNCHANGED decode
    /\ UNCHANGED <<dirs, manifest, pointer, gc, removing, strays, condemned, media,
                   entries, nextSeq, pending, cont, session, generation, pkt>>

\* A fault to check against: the generation is read again for every write.
PointerReread(state) ==
    [session |-> session, generation |-> NextGeneration(TRUE), state |-> state, last |-> latest]

PointerTo(state) ==
    [session |-> session, generation |-> generation, state |-> state, last |-> latest]

\* write_current_session_pointer
WritePointer ==
    /\ pc = "pointer"
    /\ pointer' = PointerTo("ready")
    /\ pc' = (IF cont = "rotate" THEN "open" ELSE "stopped")
    /\ UNCHANGED <<dirs, files, manifest, gc, removing, strays, condemned,
                   media, decode, hls, cont, session, generation, pkt>>

\* rx.recv() returns None: every sender is gone and the queue is drained.
RecvNone ==
    /\ pc = "recv"
    /\ cont' = "stop"
    /\ pc' = (IF segment # NoSegment THEN "segment" ELSE "stopped")
    /\ UNCHANGED <<disk, media, decode, hls, session, generation, pkt>>

\* A fault to check against: off by one: a session that published one segment
\* stops silently.
StoppedAfterTwo ==
    /\ pc = "stopped"
    /\ pointer' = (IF latest > 1 THEN PointerTo("stopped") ELSE pointer)
    /\ Forget("stop")
    /\ UNCHANGED <<dirs, files, manifest, gc, removing, strays, condemned>>

\* The last pointer write of run_stream_v2, only for a session that published.
Stopped ==
    /\ pc = "stopped"
    /\ pointer' = (IF latest > 0 THEN PointerTo("stopped") ELSE pointer)
    /\ Forget("stop")
    /\ UNCHANGED <<dirs, files, manifest, gc, removing, strays, condemned>>

\* An I/O error ends the task; run_stream_v2 returns it with `?`.
Die ==
    /\ pc # "down"
    /\ Forget("died")
    /\ UNCHANGED disk

\* The server's process ends, and with it every task.
Crash ==
    /\ Forget("died")
    /\ gc' = {} /\ removing' = {} /\ strays' = {}
    /\ UNCHANGED <<dirs, files, manifest, pointer, condemned>>
-----------------------------------------------------------------------------
(***************************************************************************)
(* A stray goes on like the latest pipeline: segment, manifest, eviction   *)
(* and pointer are steps of their own.  How it decodes, and whether an     *)
(* entry carries the discontinuity tag, is left open.  AtomicPublisher     *)
(* creates the directory again if a cleanup has removed it; a rename into  *)
(* a directory that went meanwhile is an error (StrayDies).                *)
(***************************************************************************)
Becomes(x, y) == strays' = (strays \ {x}) \cup {y}

StrayPointerTo(x, state) ==
    [session |-> x.session, generation |-> x.generation, state |-> state,
     last |-> x.entries[Len(x.entries)].seq]

\* It opens a segment if there is none, and publishes it for the reason why.
StraySegment(x, why) ==
    /\ x.at = "media"
    /\ x.next <= MaxSeq
    /\ dirs' = dirs \cup {x.session}
    /\ files' = [files EXCEPT ![x.session] = @ \cup {x.next}]
    /\ Becomes(x, [x EXCEPT !.at = "manifest", !.why = why])
    /\ UNCHANGED <<manifest, pointer>>

StrayManifest(x, tag) ==
    LET q == Append(x.entries, [seq |-> x.next, discontinuity |-> tag])
    IN  /\ x.at = "manifest"
        /\ dirs' = dirs \cup {x.session}
        /\ manifest' = [manifest EXCEPT ![x.session] = Windowed(q)]
        /\ Becomes(x, [x EXCEPT !.at = "evict", !.entries = Windowed(q),
                                !.evicted = Listed(q) \ Listed(Windowed(q))])
        /\ UNCHANGED <<files, pointer>>

StrayEvict(x) ==
    /\ x.at = "evict"
    /\ files' = [files EXCEPT ![x.session] = @ \ x.evicted]
    /\ Becomes(x, [x EXCEPT !.at = IF x.why \in {"rotate", "stop"} THEN "pointer" ELSE "media",
                            !.next = x.next + 1, !.evicted = {}])
    /\ UNCHANGED <<dirs, manifest, pointer>>

StrayPointer(x) ==
    /\ x.at = "pointer"
    /\ pointer' = StrayPointerTo(x, "ready")
    /\ Becomes(x, [x EXCEPT !.at = IF x.why = "rotate" THEN "media" ELSE "stopped"])
    /\ UNCHANGED <<dirs, files, manifest>>

StrayStops(x) ==
    /\ x.at \in {"media", "stopped"}
    /\ pointer' = (IF x.entries # <<>> THEN StrayPointerTo(x, "stopped") ELSE pointer)
    /\ strays' = strays \ {x}
    /\ UNCHANGED <<dirs, files, manifest>>

StrayDies(x) ==
    /\ strays' = strays \ {x}
    /\ UNCHANGED <<dirs, files, manifest, pointer>>

StrayStep(x) ==
    /\ \/ \E why \in {"gap", "rotate", "stop"} : StraySegment(x, why)
       \/ \E tag \in BOOLEAN : StrayManifest(x, tag)
       \/ StrayEvict(x)
       \/ StrayPointer(x)
       \/ StrayStops(x)
       \/ StrayDies(x)
    /\ UNCHANGED <<gc, removing, condemned, media, decode, hls, run>>

Handling ==
    \/ ProcessPacket
    \/ \E due \in BOOLEAN : HandleAccessUnit(due)
    \/ OpenSegment
    \/ WriteAccessUnit
    \/ PublishSegment
    \/ PublishManifest
    \/ EvictSegments
    \/ WritePointer
    \/ Stopped

Receiving ==
    \/ RecvGap
    \/ RecvUnparsable
    \/ \E p \in Packets, inOrder, heads \in BOOLEAN : RecvRtp(p, inOrder, heads)
    \/ RecvNone

FaultFree ==
    \/ \E seeded, readable \in BOOLEAN : StartSession(seeded, readable)
    \/ Receiving
    \/ Handling
    \/ \E s \in Sessions : CleanupOldSessions(s)
    \/ \E d \in Sessions : RemoveEntry(d) \/ RemovalEnds(d)
    \/ \E x \in strays : StrayStep(x)

Next == FaultFree \/ Die \/ Crash

Spec == Init /\ [][Next]_vars

\* The runtime keeps polling a pipeline that can go on: the handling of a
\* message is not left off.  Messages need not arrive.
FairSpec == Spec /\ WF_vars(Handling)
-----------------------------------------------------------------------------
(***************************************************************************)
(* Safety.                                                                 *)
(***************************************************************************)

\* A player that reads index.m3u8 finds every segment it lists, at every
\* moment of push_segment and wherever the pipeline died: the new manifest is
\* visible before an evicted file goes, a segment is before it is listed.  Only a
\* session that a cleanup has begun to delete is without this, and no cleanup,
\* however late, touches the latest session.
ManifestServable ==
    /\ \A s \in Sessions \ condemned : Listed(manifest[s]) \subseteq files[s]
    /\ session \notin condemned

\* Eviction converges: a waiting pipeline has exactly the listed files on disk,
\* and no session, ended anyhow, ever held more than one beyond the window.
DiskBounded ==
    /\ pc = "recv" => files[session] = Listed(manifest[session])
    /\ \A s \in Sessions : Cardinality(files[s]) <= MaxSegments + 1

\* The manifest of the running pipeline.
Live == IF pc = "down" THEN <<>> ELSE manifest[session]

\* Every listed segment can be decoded on its own (EXT-X-INDEPENDENT-SEGMENTS):
\* it starts with parameter sets and an IDR, and no media is missing inside,
\* whatever was lost, refused or reported as a gap while it was open.
SegmentsDecodable ==
    \A n \in Listed(Live) :
        /\ {"sps", "pps", "idr"} \subseteq content[n].start
        /\ ~content[n].broken

\* Between two segments of a session media is missing exactly when the second
\* carries EXT-X-DISCONTINUITY.
DiscontinuityMarked ==
    \A i \in DOMAIN Live :
        Live[i].seq > 1 => Live[i].discontinuity = content[Live[i].seq].cut

\* current.json names a session whose manifest is there and not a segment that
\* was never listed; a session left as "stopped" is named with its last segment.
\* That holds until a cleanup, which a later session must have started, begins to
\* delete that session, also while strays of the same stream write the pointer.
PointerSound ==
    pointer # NoPointer =>
        \/ LET m == manifest[pointer.session]
           IN  /\ pointer.session \in dirs
               /\ m # <<>>
               /\ pointer.last <= m[Len(m)].seq
               /\ pointer.state = "stopped" => pointer.last = m[Len(m)].seq
        \/ pointer.session \in condemned /\ pointer.session < session

(***************************************************************************)
(* What a step may never do.                                               *)
(***************************************************************************)

\* q continues p the way a live playlist does: one newer entry at the end,
\* entries leaving at the front only.
Continues(p, q) ==
    /\ q # <<>>
    /\ Len(q) <= Len(p) + 1
    /\ \A i \in 1 .. Len(q) - 1 : q[i] = p[i + Len(p) + 1 - Len(q)]
    /\ p # <<>> => q[Len(q)].seq > p[Len(p)].seq

\* A reload of a manifest continues the one read before, as long as no cleanup
\* has begun to delete its session.
ManifestContinues ==
    [][\A s \in Sessions \ condemned : manifest'[s] # manifest[s] =>
           Continues(manifest[s], manifest'[s])]_manifest

\* The pointer goes back to an earlier session only where a stray of that session
\* is still running; for one session it never goes back to an earlier segment or
\* comes to life again, and a session keeps its generation.
PointerForward ==
    [][\/ pointer'.session > pointer.session
       \/ /\ pointer'.session = pointer.session
          /\ pointer'.generation = pointer.generation
          /\ pointer'.last >= pointer.last
          /\ pointer.state # "stopped"
       \/ \E x \in strays : /\ x.session = pointer'.session
                            /\ x.session < pointer.session]_pointer

(***************************************************************************)
(* Liveness under FairSpec.                                                *)
(***************************************************************************)

\* When the channel closes while a segment is open, the pipeline gets through
\* the segment, the manifest and both pointer writes, unless it dies on the
\* way: players learn that the session has stopped.  A pipeline that another one
\* supersedes meanwhile goes on as a stray, of which this says nothing.
StopAnnounced ==
    \A s \in Sessions :
        (session = s /\ cont = "stop" /\ pc = "segment")
            ~> \/ pointer.session = s /\ pointer.state = "stopped"
               \/ session = s /\ cont = "died"
               \/ session > s

(***************************************************************************)
(* What the documents say and the code does not do.                        *)
(***************************************************************************)

\* docs/live_streaming_review.md: current.json "points only to a playable
\* session".
PointerPlayable == pointer # NoPointer => manifest[pointer.session] # <<>>

\* docs/live_streaming_review.md: "generation increments are persisted": the
\* generation players see never falls.
GenerationPersists == [][pointer'.generation >= pointer.generation]_pointer

\* spec/requirements.md E2E-NET-ROBUST-001: "no partial-frame output" under loss.
NoPartialFrames == \A n \in Listed(Live) : ~content[n].partial
=============================================================================
