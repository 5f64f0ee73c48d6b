---------------------------- MODULE ClipRecorder ----------------------------
(***************************************************************************)
(* The local clip recorder, ClipRecorder of clip_recorder.rs: one task     *)
(* that watches the motion state, receives the NAL units of one camera,    *)
(* records clips and keeps their directory within limits.                  *)
(*                                                                         *)
(* Time passes in units of 200 ms, the tick of the recorder's loop, and is *)
(* kept as ages and times left, so that it needs no bound.  A motion is    *)
(* its event id; ids are numbered.  A NAL unit is its type and counts as   *)
(* one byte.                                                               *)
(***************************************************************************)
EXTENDS Integers, Sequences, FiniteSets

CONSTANTS
    Rules,          \* rule names, as numbers: the recorder takes the least
    PostRoll, MinClip,
    MaxClip,        \* max_clip_secs, 0 when not set
    ArmTimeout,     \* the 30 s
    MaxBytes,       \* max_clip_bytes, 0 when not set
    MaxFiles, MaxTotal, MaxAge,
    MetaCap,        \* capacity of the channel to the uploader
    MaxIds          \* bound on the motions of a behaviour

\* No deadline.
None == -1

ASSUME RecorderAssumption ==
    /\ Rules \subseteq Nat \ {0}
    /\ {PostRoll, MinClip, ArmTimeout, MaxFiles, MaxTotal, MaxAge, MetaCap, MaxIds}
         \subseteq Nat \ {0}
    /\ {MaxClip, MaxBytes} \subseteq Nat

VARIABLES
    motion,     \* the watch channel: the id of each rule that is active, or 0
    changed,    \* it has changed since the recorder looked
    made,       \* ids made
    st,         \* State: "idle", "armed", "recording"; "failed": run() has returned
    ev,         \* the event id it is armed or recording for
    age,        \* since armed_at or started_at
    stopIn,     \* until stop_at
    hardIn,     \* until hard_stop_at
    sets,       \* last_sps, last_pps
    lastMotion, \* last_motion_state
    sticky,     \* sticky_motion: an id, or 0
    size,       \* bytes of the clip being recorded
    loop,       \* "busy": a branch was taken in this tick; "due": none for a whole tick
    files,      \* finished clips, the oldest first
    metas,      \* clips announced in clip_meta_tx and not taken yet
    \* What really happened.
    seen,       \* ids seen since the recorder last saw no motion
    lastClip,   \* why and after how long the last step ended a clip
    dropped     \* clips the last step deleted, and how many it had to

bus   == <<motion, changed, made>>
clip  == <<ev, age, stopIn, hardIn, size>>
disk  == <<files, metas>>
vars  == <<bus, st, clip, sets, lastMotion, sticky, loop, disk, seen, lastClip, dropped>>

Ids == 1 .. MaxIds
Times == None .. MinClip + PostRoll + MaxClip
\* Ages beyond it are all alike.
MaxSpan == CHOOSE t \in {MinClip, MaxClip, ArmTimeout + 1} :
               t >= MinClip /\ t >= MaxClip /\ t > ArmTimeout

TypeOK ==
    /\ motion \in [Rules -> 0 .. MaxIds]
    /\ changed \in BOOLEAN
    /\ made \in 0 .. MaxIds
    /\ st \in {"idle", "armed", "recording", "failed"}
    /\ ev \in 0 .. MaxIds
    /\ (ev # 0) = (st \in {"armed", "recording"})
    /\ age \in 0 .. MaxSpan
    /\ stopIn \in Times
    /\ hardIn \in Times
    /\ sets \subseteq {"sps", "pps"}
    /\ lastMotion \in [Rules -> 0 .. MaxIds]
    /\ sticky \in 0 .. MaxIds
    /\ size \in Nat
    /\ loop \in {"busy", "calm", "due"}
    /\ metas \in 0 .. MetaCap
    /\ seen \subseteq Ids

NoMotion == [r \in Rules |-> 0]
NoEnd    == [why |-> "none", span |-> 0]
NoDrop   == [k |-> 0, needed |-> 0]

\* A step that ends and deletes no clip.
NoClipGone == lastClip' = NoEnd /\ dropped' = NoDrop

Init ==
    /\ motion = NoMotion /\ changed = FALSE /\ made = 0
    /\ st = "idle" /\ ev = 0 /\ age = 0 /\ stopIn = None /\ hardIn = None /\ size = 0
    /\ sets = {} /\ lastMotion = NoMotion /\ sticky = 0
    /\ loop = "calm"
    /\ files = <<>> /\ metas = 0 /\ lastClip = NoEnd /\ dropped = NoDrop
    /\ seen = {}
-----------------------------------------------------------------------------
(***************************************************************************)
(* The environment.                                                        *)
(***************************************************************************)

\* MotionStateBus::set, by a poller.
MotionStarts(r) ==
    /\ motion[r] = 0 /\ made < MaxIds
    /\ made' = made + 1
    /\ motion' = [motion EXCEPT ![r] = made + 1]
    /\ changed' = TRUE
    /\ UNCHANGED <<st, clip, sets, lastMotion, sticky, loop, disk, seen>>
    /\ NoClipGone

MotionEnds(r) ==
    /\ motion[r] # 0
    /\ motion' = [motion EXCEPT ![r] = 0]
    /\ changed' = TRUE
    /\ UNCHANGED <<made, st, clip, sets, lastMotion, sticky, loop, disk, seen>>
    /\ NoClipGone

\* The uploader takes the next clip.
TakeMeta ==
    /\ metas > 0
    /\ metas' = metas - 1
    /\ UNCHANGED <<bus, st, clip, sets, lastMotion, sticky, loop, files, seen>>
    /\ NoClipGone

Later(t) == IF t > 0 THEN t - 1 ELSE t
Older(t, most) == IF t < most THEN t + 1 ELSE t

\* One tick.  A deadline that has passed is not left pending for another tick
\* in which nothing else happened.
Due == st = "recording" /\ (stopIn = 0 \/ hardIn = 0)

Time ==
    /\ ~(Due /\ loop = "due")
    /\ age' = Older(age, MaxSpan)
    /\ stopIn' = Later(stopIn)
    /\ hardIn' = Later(hardIn)
    /\ loop' = IF loop = "busy" THEN "calm" ELSE "due"
    /\ files' = [i \in DOMAIN files |-> [files[i] EXCEPT !.age = Older(@, MaxAge + 1)]]
    /\ UNCHANGED <<bus, st, ev, size, sets, lastMotion, sticky, metas, seen>>
    /\ NoClipGone
-----------------------------------------------------------------------------
(***************************************************************************)
(* The directory.                                                          *)
(***************************************************************************)
\* Sums(fs)[i]: the bytes of the first i clips.
Sums(fs) ==
    LET total[i \in 0 .. Len(fs)] == IF i = 0 THEN 0 ELSE total[i - 1] + fs[i].size
    IN  total

Total(fs) == Sums(fs)[Len(fs)]

Without(fs, k) == SubSeq(fs, k + 1, Len(fs))

\* A fault to check against: the total is taken before the excess files are taken
\* off the list.
CleanupOldClipsEager(fs) ==
    LET old    == Cardinality({i \in DOMAIN fs : fs[i].age > MaxAge})
        rest   == Without(fs, old)
        excess == IF Len(rest) > MaxFiles THEN Len(rest) - MaxFiles ELSE 0
        kept   == Without(rest, excess)
        over   == Total(rest) - MaxTotal
        first(k) == Total(SubSeq(kept, 1, k))
        more   == IF over <= 0 THEN 0
                  ELSE CHOOSE k \in 0 .. Len(kept) :
                         /\ first(k) >= over \/ k = Len(kept)
                         /\ \A j \in 0 .. k - 1 : first(j) < over
    IN  old + excess + more

\* cleanup_old_clips: how many of the oldest clips go, first for their age, then
\* for their number, then for their size.
CleanupOldClips(fs) ==
    LET old    == Cardinality({i \in DOMAIN fs : fs[i].age > MaxAge})
        rest   == Without(fs, old)
        excess == IF Len(rest) > MaxFiles THEN Len(rest) - MaxFiles ELSE 0
        kept   == Without(rest, excess)
        over   == Total(kept) - MaxTotal
        first(k) == Total(SubSeq(kept, 1, k))
        more   == IF over <= 0 THEN 0
                  ELSE CHOOSE k \in 0 .. Len(kept) :
                         first(k) >= over /\ \A j \in 0 .. k - 1 : first(j) < over
    IN  old + excess + more

WithinLimits(fs) ==
    /\ \A i \in DOMAIN fs : fs[i].age <= MaxAge
    /\ Len(fs) <= MaxFiles
    /\ Total(fs) <= MaxTotal

Needed(fs) ==
    CHOOSE k \in 0 .. Len(fs) :
        WithinLimits(Without(fs, k)) /\ \A j \in 0 .. k - 1 : ~WithinLimits(Without(fs, j))

Cleaned(fs) ==
    LET k == CleanupOldClips(fs)
    IN  /\ files' = Without(fs, k)
        /\ dropped' = [k |-> k, needed |-> Needed(fs)]

\* Every 60 s.
CleanupTick ==
    /\ st # "failed"
    /\ files # <<>>
    /\ Cleaned(files)
    /\ loop' = "busy"
    /\ UNCHANGED <<bus, st, clip, sets, lastMotion, sticky, metas, seen>>
    /\ lastClip' = NoEnd
-----------------------------------------------------------------------------
(***************************************************************************)
(* The life of a clip.                                                     *)
(***************************************************************************)
Active(state) == \E r \in Rules : state[r] # 0

\* min_by_key over the rule names.
First(state) ==
    LET r == CHOOSE r \in Rules : state[r] # 0 /\ \A q \in Rules : state[q] # 0 => r <= q
    IN  state[r]

Arm(id) ==
    /\ st' = "armed"
    /\ ev' = id
    /\ age' = 0
    /\ stopIn' = None /\ hardIn' = None /\ size' = 0

Disarm ==
    /\ st' = "idle"
    /\ ev' = 0
    /\ age' = 0
    /\ stopIn' = None /\ hardIn' = None /\ size' = 0

\* The end of a clip: with `saved`, it is renamed, gets its sidecar and is
\* announced if there is room; otherwise its .part is kept.
StopRecording(saved, why, bytes) ==
    /\ IF saved
       THEN /\ Cleaned(Append(files, [size |-> bytes, age |-> 0]))
            /\ metas' = IF metas < MetaCap THEN metas + 1 ELSE metas
       ELSE UNCHANGED disk /\ dropped' = NoDrop
    /\ lastClip' = [why |-> why, span |-> age]

\* on_motion_state_change.  sticky_motion is only given up when no clip is
\* being recorded.
Stick ==
    CASE ~Active(motion) /\ st # "recording" -> 0
      [] Active(motion) /\ sticky = 0 -> First(motion)
      [] OTHER -> sticky

\* A fault to check against: the post-roll is all that counts.
AfterMotionPostRoll == IF stopIn # None THEN stopIn ELSE PostRoll

\* Once the motion is over, what is left of the clip's least duration, or the
\* post-roll.
AfterMotion ==
    IF stopIn # None THEN stopIn
    ELSE IF age < MinClip THEN MinClip - age ELSE PostRoll

OnMotionStateChange ==
    /\ changed /\ st # "failed"
    /\ changed' = FALSE
    /\ lastMotion' = motion
    /\ sticky' = Stick
    /\ seen' = IF Active(motion) THEN seen \cup ({motion[r] : r \in Rules} \ {0}) ELSE {}
    /\ CASE st = "idle" /\ Active(motion) -> Arm(Stick)
         [] st = "armed" /\ Active(motion) -> Arm(ev)
         [] st = "armed" /\ ~Active(motion) /\ age > ArmTimeout -> Disarm
         [] st = "recording" ->
              /\ stopIn' = IF Active(motion) THEN None ELSE AfterMotion
              /\ UNCHANGED <<st, ev, age, hardIn, size>>
         [] OTHER -> UNCHANGED <<st, clip>>
    /\ loop' = "busy"
    /\ UNCHANGED <<motion, made, sets, disk>>
    /\ NoClipGone

\* The size beyond any limit is not counted.
Grown == IF MaxBytes = 0 \/ size > MaxBytes THEN size ELSE size + 1

\* on_nal for parameter sets: cached, and written without regard to failures
\* or limits.
OnParameterSet(nal) ==
    /\ st # "failed"
    /\ sets' = sets \cup {nal}
    /\ size' = IF st = "recording" THEN Grown ELSE size
    /\ loop' = "busy"
    /\ UNCHANGED <<bus, st, ev, age, stopIn, hardIn, lastMotion, sticky, disk, seen>>
    /\ NoClipGone

\* A clip begins with an IDR; without a file, run() ends with an error.
StartClip(opened) ==
    /\ st = "armed"
    /\ sets = {"sps", "pps"}
    /\ IF opened
       THEN /\ st' = "recording"
            /\ age' = 0
            /\ stopIn' = MinClip
            /\ hardIn' = IF MaxClip = 0 THEN None ELSE MaxClip
            /\ size' = 3
            /\ UNCHANGED ev
       ELSE /\ st' = "failed"
            /\ ev' = 0 /\ age' = 0 /\ stopIn' = None /\ hardIn' = None /\ size' = 0
    /\ loop' = "busy"
    /\ UNCHANGED <<bus, sets, lastMotion, sticky, disk, seen>>
    /\ NoClipGone

\* A NAL unit that is only received.
OnNalIgnored ==
    /\ st = "idle" \/ st = "armed"
    /\ loop' = "busy"
    /\ UNCHANGED <<bus, st, clip, sets, lastMotion, sticky, disk, seen>>
    /\ NoClipGone

\* on_nal while recording.
OnNal ==
    /\ st = "recording"
    /\ MaxBytes = 0 \/ size + 1 < MaxBytes
    /\ size' = Grown
    /\ loop' = "busy"
    /\ UNCHANGED <<bus, st, ev, age, stopIn, hardIn, sets, lastMotion, sticky, disk, seen>>
    /\ NoClipGone

\* The clip has reached its size, or cannot be written: no new one is armed.
OnNalLast(why, saved) ==
    /\ st = "recording"
    /\ why = "size" => MaxBytes # 0 /\ size + 1 >= MaxBytes
    /\ StopRecording(saved, why, Grown)
    /\ Disarm
    /\ loop' = "busy"
    /\ UNCHANGED <<bus, sets, lastMotion, sticky, seen>>

\* A fault to check against: an id that is kept counts as motion.
MaybeStopRearms(saved) ==
    /\ Due /\ loop = "due"
    /\ StopRecording(saved, IF hardIn = 0 THEN "hard" ELSE "deadline", size)
    /\ IF sticky # 0 THEN Arm(sticky) ELSE Disarm
    /\ loop' = "calm"
    /\ UNCHANGED <<bus, sets, lastMotion, sticky, seen>>

\* After a hard stop.
RearmIfMotionActive ==
    IF Active(lastMotion)
    THEN Arm(IF sticky # 0 THEN sticky ELSE First(lastMotion))
    ELSE Disarm

\* maybe_stop_on_deadline, when nothing else has happened for a tick: the sleep
\* is made anew in every turn of the loop.
MaybeStopOnDeadline(saved) ==
    /\ Due /\ loop = "due"
    /\ StopRecording(saved, IF hardIn = 0 THEN "hard" ELSE "deadline", size)
    /\ IF hardIn = 0 THEN RearmIfMotionActive ELSE Disarm
    /\ loop' = "calm"
    /\ UNCHANGED <<bus, sets, lastMotion, sticky, seen>>

Nal ==
    \/ \E nal \in {"sps", "pps"} : OnParameterSet(nal)
    \/ \E opened \in BOOLEAN : StartClip(opened)
    \/ OnNalIgnored
    \/ OnNal
    \/ \E why \in {"size", "write"}, saved \in BOOLEAN : OnNalLast(why, saved)

Deadline == \E saved \in BOOLEAN : MaybeStopOnDeadline(saved)

Next ==
    \/ \E r \in Rules : MotionStarts(r) \/ MotionEnds(r)
    \/ TakeMeta
    \/ Time
    \/ CleanupTick
    \/ OnMotionStateChange
    \/ Nal
    \/ Deadline

Spec == Init /\ [][Next]_vars

\* The runtime polls the task, time passes, and `select!` chooses at random among
\* the branches that are ready: a sleep that ends is not passed over for ever.
FairSpec ==
    Spec /\ WF_vars(Time) /\ SF_vars(Deadline) /\ SF_vars(OnMotionStateChange)
-----------------------------------------------------------------------------
(***************************************************************************)
(* Properties.                                                             *)
(***************************************************************************)

\* A clip that ended at a deadline is as long as min_clip_duration asks, or as
\* max_clip_secs allows, whenever in it motion stopped, came back or stopped again.
MinDuration ==
    CASE lastClip.why = "deadline" -> lastClip.span >= MinClip
      [] lastClip.why = "hard" -> lastClip.span >= MaxClip
      [] OTHER -> TRUE

\* A clean-up deletes as many of the oldest clips as the limits ask for, no more.
Retention == dropped.k = dropped.needed

Quiet == []<>(loop = "due")

\* Once there is no motion the recorder stops recording for good, provided that
\* now and then nothing happens for a whole tick.
EndsWhenQuiet ==
    (Quiet /\ <>[](motion = NoMotion)) => <>[](st # "recording")

\* "Maximum duration per clip in seconds (hard stop)" (clip_recorder.rs:66): a
\* clip that is being recorded ends.
HardStop == MaxClip # 0 => (st = "recording" ~> st # "recording")

\* "Transition to Armed using the first motion event (sticky until motion ends)"
\* (clip_recorder.rs:218): an idle recorder is armed for a motion it has seen
\* since it last saw none.
ArmedForThisMotion == [][st = "idle" /\ st' = "armed" => ev' \in seen']_vars
=============================================================================
